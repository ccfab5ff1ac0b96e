------------------------------ MODULE ReplayTrace ------------------------------
(***************************************************************************)
(* framework/replay: processes that download one trace into a directory    *)
(* they share, replay it and judge the image (download_utils.ensure_file,  *)
(* compare_replay._check_trace).  Each process has the results directory   *)
(* of its own piglit run, which later replays by it find as it was left.   *)
(***************************************************************************)
EXTENDS Integers, Sequences, FiniteSets

CONSTANTS Replayers,  \* processes, one per piglit run
          Chunks,     \* writes of a download
          Anew,      \* download.force
          Keep,       \* keep_image
          MaxReplays  \* bound: replays, those that are interrupted included

ASSUME ChunksAssumption == Chunks \in Nat \ {0}
All == 1..Chunks
Checksums == {"expected", "other"}

VARIABLES exists,    \* of the trace in db_path
          content,   \* the chunks it holds
          step,      \* where a process is
          got,       \* chunks a process has written
          images,    \* per process: PNG files in its results directory
          shown,     \* history: the checksum of what its replay rendered
          verdict,   \* per process: the status of its last replay
          replays,
          interrupted \* history: a download ended early after it had opened the file
replayVars == <<exists, content, step, got, images, shown, verdict, replays, interrupted>>

ReplayInit ==
    /\ exists = FALSE /\ content = {}
    /\ step = [p \in Replayers |-> "idle"] /\ got = [p \in Replayers |-> 0]
    /\ images = [p \in Replayers |-> {}] /\ shown = [p \in Replayers |-> "none"]
    /\ verdict = [p \in Replayers |-> "none"]
    /\ replays = 0 /\ interrupted = FALSE

Goto(p, s) == step' = [step EXCEPT ![p] = s]
Judge(p, v) == verdict' = [verdict EXCEPT ![p] = v]

-------------------------------------------------------------------------------
(* ensure_file: a file that is there is not downloaded again. *)
Ensure(p) ==
    /\ step[p] = "idle" /\ replays < MaxReplays
    /\ replays' = replays + 1
    /\ Goto(p, IF ~Anew /\ exists THEN "replay" ELSE "open")
    /\ shown' = [shown EXCEPT ![p] = "none"] /\ Judge(p, "none")
    /\ UNCHANGED <<exists, content, got, images, interrupted>>

(* open(destination_file_path, 'wb') truncates; the credentials that come  *)
(* before it may be refused.                                               *)
Open(p) ==
    /\ step[p] = "open"
    /\ exists' = TRUE /\ content' = {} /\ got' = [got EXCEPT ![p] = 0]
    /\ Goto(p, "request")
    /\ UNCHANGED <<images, shown, verdict, replays, interrupted>>
Refused(p) ==
    /\ step[p] = "open"
    /\ Goto(p, "idle") /\ Judge(p, "crash")
    /\ UNCHANGED <<exists, content, got, images, shown, replays, interrupted>>

(* raise_for_status: the empty file stays. *)
RespondUnchecked(p) ==
    /\ step[p] = "request"
    /\ step' \in {[step EXCEPT ![p] = "receive"], [step EXCEPT ![p] = "replay"]}
    /\ UNCHANGED <<exists, content, got, images, shown, verdict, replays, interrupted>>
Respond(p) ==
    /\ step[p] = "request"
    /\ \/ /\ Goto(p, "receive") /\ UNCHANGED <<verdict, interrupted>>
       \/ /\ Goto(p, "idle") /\ Judge(p, "crash") /\ interrupted' = TRUE
    /\ UNCHANGED <<exists, content, got, images, shown, replays>>

(* Every writer has its own offset in the one file. *)
Receive(p) ==
    /\ step[p] = "receive"
    /\ got' = [got EXCEPT ![p] = @ + 1]
    /\ content' = content \cup {got'[p]}
    /\ Goto(p, IF got'[p] = Chunks THEN "replay" ELSE "receive")
    /\ UNCHANGED <<exists, images, shown, verdict, replays, interrupted>>

(* backends.dump: the image of the last frame has the same name every      *)
(* time.  A trace with missing chunks is not replayed, or renders garbage. *)
Dump(p) ==
    /\ step[p] = "replay"
    /\ \/ /\ Goto(p, "idle") /\ Judge(p, "crash") /\ UNCHANGED <<images, shown>>
       \/ \E c \in (IF content = All THEN Checksums ELSE {"other"}) :
             /\ images' = [images EXCEPT ![p] =
                   {i \in @ : i.name # "dump"} \cup {[name |-> "dump", sum |-> c]}]
             /\ shown' = [shown EXCEPT ![p] = c]
             /\ Goto(p, "check") /\ UNCHANGED verdict
    /\ UNCHANGED <<exists, content, got, replays, interrupted>>

(* _check_trace takes the first file that glob finds.  An image that does  *)
(* not match is kept under a name with its checksum; one that does is      *)
(* removed, or kept when that was asked for.                               *)
KeptName(i) == IF i.name = "dump" THEN "kept" ELSE "kept again"
KeepsAll(i) == TRUE
Keeps(i) == Keep \/ i.sum # "expected"
Compare(p) ==
    /\ step[p] = "check"
    /\ \E i \in images[p] :
          /\ images' = [images EXCEPT ![p] =
                (@ \ {i}) \cup (IF Keeps(i) THEN {[name |-> KeptName(i), sum |-> i.sum]} ELSE {})]
          /\ Judge(p, IF i.sum = "expected" THEN "pass" ELSE "fail")
    /\ Goto(p, "idle")
    /\ UNCHANGED <<exists, content, got, shown, replays, interrupted>>

(* A timeout of the test, or the end of the run, kills the process; the    *)
(* next replay of the trace is a new one.                                  *)
Kill(p) ==
    /\ step[p] # "idle"
    /\ interrupted' = (interrupted \/ step[p] \in {"request", "receive"})
    /\ Goto(p, "idle") /\ Judge(p, "none")
    /\ UNCHANGED <<exists, content, got, images, shown, replays>>

Replayer(p) == \/ Ensure(p) \/ Open(p) \/ Refused(p) \/ Respond(p) \/ Receive(p)
               \/ Dump(p) \/ Compare(p) \/ Kill(p)
ReplayNext == \E p \in Replayers : Replayer(p)
ReplaySpec == ReplayInit /\ [][ReplayNext]_replayVars

-------------------------------------------------------------------------------
(* Properties. *)

(* When nobody is downloading and no download has ended early, the trace   *)
(* is missing or complete, whatever downloads have overlapped: who opened  *)
(* the file last has written all of it (download_utils.py:134).  During a  *)
(* download, and after one that ended early, a process that finds the file *)
(* takes it as it is.                                                      *)
CacheComplete ==
    (~interrupted /\ \A p \in Replayers : step[p] \notin {"request", "receive"})
        => ~exists \/ content = All

(* Unless images are kept on purpose, a replay passes only for what it     *)
(* rendered itself: the images left by earlier replays that glob may find  *)
(* first are of failures (compare_replay.py:64, :101).  The converse does  *)
(* not hold: such an image can fail a replay that rendered the expected    *)
(* one.                                                                    *)
PassIsOwn == ~Keep => \A p \in Replayers : verdict[p] = "pass" => shown[p] = "expected"
===============================================================================
