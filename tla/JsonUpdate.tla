------------------------------- MODULE JsonUpdate -------------------------------
(* framework/backends/json.py: a results file of an old version is brought up   *)
(* to date by whoever loads it. Processes that summarize one file at one time   *)
(* each rename it and write it anew, under a name that write_compressed makes   *)
(* of the compression mode; any of them can be killed. A file is an inode, which*)
(* a renamed or replaced name does not disturb for those who hold it open.      *)
EXTENDS Integers, TLC

CONSTANTS Loaders,
          SameName,  \* whether the mode gives the name of the old file
          MaxKills   \* bound on killed loaders

ASSUME UpdateAssumption == SameName \in BOOLEAN /\ MaxKills \in Nat

VARIABLES directory, \* from a name to an inode, 0 for none
          inodes,    \* what each inode holds
          next,      \* the next inode
          loading,   \* the step of each loader
          data,      \* the results a loader has in memory
          fd,        \* the inode a loader writes
          kills
updateVars == <<directory, inodes, next, loading, data, fd, kills>>

Nothing == [version |-> 0, time |-> "none", pid |-> "none", system |-> "none"]
Seven == [version |-> 7, time |-> "float", pid |-> "number", system |-> "top"]
Current == 10

\* The three updates, and the loop that applies the one each version asks for.
SevenToEight(r) == [r EXCEPT !.time = "interval", !.version = 8]
EightToNine(r) == [r EXCEPT !.pid = "list", !.version = 9]
NineToTen(r) == [r EXCEPT !.system = "info", !.version = 10]
LoopUpdates(r) ==
    LET From8(x) == IF x.version = 8 THEN EightToNine(x) ELSE x
        From7(x) == IF x.version = 7 THEN SevenToEight(x) ELSE x
        From9(x) == IF x.version = 9 THEN NineToTen(x) ELSE x
    IN  From9(From8(From7(r)))

Written == IF SameName THEN "results" ELSE "recompressed"
UpdateInit ==
    /\ directory = [n \in {"results", "old", "recompressed"} |-> IF n = "results" THEN 1 ELSE 0]
    /\ inodes = [i \in 1..1 |-> Seven] /\ next = 2
    /\ loading = [l \in Loaders |-> "load"] /\ data = [l \in Loaders |-> Nothing]
    /\ fd = [l \in Loaders |-> 0] /\ kills = 0
Proceed(l, step) == loading' = [loading EXCEPT ![l] = step]

\* load_results finds one of the two names; a file written in part, or none, is fatal.
Load(l) ==
    LET name == IF directory["results"] # 0 THEN "results" ELSE "recompressed"
        found == directory[name] # 0 /\ inodes[directory[name]] # Nothing
    IN  /\ loading[l] = "load"
        /\ data' = [data EXCEPT ![l] = IF found THEN LoopUpdates(inodes[directory[name]]) ELSE @]
        /\ Proceed(l, IF ~found THEN "failed"
                   ELSE IF inodes[directory[name]].version = Current THEN "loaded" ELSE "rename")
        /\ UNCHANGED <<directory, inodes, next, fd, kills>>
RenameNothing(l) ==
    /\ loading[l] = "rename"
    /\ Proceed(l, "create")
    /\ UNCHANGED <<directory, inodes, next, data, fd, kills>>
\* os.rename, whose OSError is a warning.
Rename(l) ==
    /\ loading[l] = "rename"
    /\ directory' = IF directory["results"] = 0 THEN directory
                ELSE [directory EXCEPT !["old"] = directory["results"], !["results"] = 0]
    /\ Proceed(l, IF directory["results"] = 0 THEN "loaded" ELSE "create")
    /\ UNCHANGED <<inodes, next, data, fd, kills>>
Create(l) ==
    LET i == IF directory[Written] = 0 THEN next ELSE directory[Written]
    IN  /\ loading[l] = "create"
        /\ directory' = [directory EXCEPT ![Written] = i]
        /\ inodes' = [k \in DOMAIN inodes \cup {i} |-> IF k = i THEN Nothing ELSE inodes[k]]
        /\ next' = IF i = next THEN next + 1 ELSE next
        /\ fd' = [fd EXCEPT ![l] = i]
        /\ Proceed(l, "write")
        /\ UNCHANGED <<data, kills>>
WriteResults(l) ==
    /\ loading[l] = "write"
    /\ inodes' = [inodes EXCEPT ![fd[l]] = data[l]]
    /\ Proceed(l, "loaded")
    /\ UNCHANGED <<directory, next, data, fd, kills>>
KillLoader(l) ==
    /\ loading[l] \notin {"loaded", "failed", "dead"} /\ kills < MaxKills
    /\ kills' = kills + 1
    /\ Proceed(l, "dead")
    /\ UNCHANGED <<directory, inodes, next, data, fd>>

Loader(l) == Load(l) \/ Rename(l) \/ Create(l) \/ WriteResults(l) \/ KillLoader(l)
UpdateNext == \E l \in Loaders : Loader(l)
UpdateSpec == UpdateInit /\ [][UpdateNext]_updateVars
--------------------------------------------------------------------------------
\* No interleaving of updates loses the results of a run to a kill: once nobody
\* is in the middle of an update, a name of the directory holds them whole; and
\* whatever was written whole is of the current version in each of its parts.
\* Under the name of the old file that is so for one kill only: of two loaders
\* that have both read the file, one killed before it has written its copy and
\* the other, which renames that half of a copy over the old file, before it has
\* created its own, leave nothing.
ResultsSurviveUpdates ==
    /\ (\A l \in Loaders : loading[l] \notin {"create", "write"}) =>
          \E n \in DOMAIN directory : directory[n] # 0 /\ inodes[directory[n]] # Nothing
    /\ \A i \in DOMAIN inodes : inodes[i] \in {Nothing, Seven}
          \/ inodes[i] = [version |-> Current, time |-> "interval", pid |-> "list", system |-> "info"]
================================================================================
