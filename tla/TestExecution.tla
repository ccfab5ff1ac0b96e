---------------------------- MODULE TestExecution ----------------------------
(***************************************************************************)
(* framework/test/base.py and framework/log.py: threads that execute one   *)
(* test each.  Test.execute registers the test with the logger, runs its   *)
(* process, with a timeout and the retries of WindowResizeMixin and        *)
(* DEQPBaseTest, interprets what it returned, lets dmesg and the           *)
(* monitoring look, and logs the result.  The processes of a test are a    *)
(* leader, the one Popen started in a session of its own, and at most one  *)
(* helper it forked, which may hold the pipes communicate() reads.  The    *)
(* loggers share one state under one lock; with the http logger a server   *)
(* thread reads it.                                                        *)
(***************************************************************************)
EXTENDS Interpretation

CONSTANTS
    Tests,      \* the tests, one thread each
    Classes,    \* Classes[t]: what the class of t may be (see InterpretAs)
    Subtests,   \* Subtests[t]: the subtests set before the run
    Timed,      \* the tests with a timeout
    Attempts,   \* 5 in the code: the attempts of a retried command
    Outputs,    \* Outputs[t]: what a process of t may leave: [code, lines, again]
    Loggers     \* the loggers to choose from: "quiet", "http"

ASSUME TestsAssumption == IsFiniteSet(Tests)
ASSUME AttemptsAssumption == Attempts \in Nat \ {0}
ASSUME ClassesAssumption == \A t \in Tests : Classes[t] \subseteq TestClasses
ASSUME SubtestsAssumption ==
    \A t \in Tests : /\ Subtests[t] \in Seq(ToSet(Subtests[t]))
                     /\ \A i \in DOMAIN Subtests[t] :
                           Subtests[t][i] = [name |-> Subtests[t][i].name, status |-> "notrun"]
ASSUME OutputsAssumption ==
    \A t \in Tests : \A o \in Outputs[t] : o.code \in Int \ {NoCode} /\ o.lines \in Seq(ToSet(o.lines))

VARIABLES
    at,         \* at[t]: where the thread of t is
    tries,      \* tries[t]: the attempts begun
    result,     \* result[t]: self.result, exc when its exception is set
    out,        \* out[t]: the output to interpret
    leader,     \* leader[t]: "none", "running", "zombie", "reaped"
    helper,     \* helper[t]: "none", "piped", "silent"
    execute,    \* OPTIONS.execute: FALSE is a dry run
    logger,     \* the class LogManager hands out
    complete, running, summary,  \* the loggers' state: two counts and the tests shown
    server      \* the http server: "off", "check", "wait", "reply", "ended"

procs   == <<leader, helper>>
logs    == <<complete, running, summary>>
options == <<execute, logger>>
vars    == <<at, tries, result, out, procs, options, logs, server>>

Silent == [code |-> 0, lines |-> <<>>, again |-> FALSE]
SummaryKeys == {"pass", "fail", "warn", "crash", "skip", "dmesgwarn", "dmesgfail", "dryrun",
                "timeout"}

Fresh(subs) == [raw |-> "notrun", subtests |-> subs, code |-> NoCode, exc |-> FALSE]

Init ==
    /\ at = [t \in Tests |-> "idle"]
    /\ tries = [t \in Tests |-> 0]
    /\ result = [t \in Tests |-> Fresh(Subtests[t])]
    /\ out = [t \in Tests |-> Silent]
    /\ leader = [t \in Tests |-> "none"]
    /\ helper = [t \in Tests |-> "none"]
    /\ execute \in BOOLEAN
    /\ logger \in Loggers
    /\ complete = 0 /\ running = {} /\ summary = [s \in SummaryKeys |-> 0]
    /\ server = IF logger = "http" THEN "check" ELSE "off"

Goto(t, from, to) == at[t] = from /\ at' = [at EXCEPT ![t] = to]

-------------------------------------------------------------------------------
(* log.start, under the lock. *)
Start(t) ==
    /\ Goto(t, "idle", IF execute THEN "prepare" ELSE "log")
    /\ running' = running \cup {t}
    /\ UNCHANGED <<tries, result, out, procs, options, complete, summary, server>>

(* The except clause of execute: the stored result becomes fail, the       *)
(* subtests keep what they have.                                           *)
Failed(r) == [r EXCEPT !.raw = "fail", !.exc = TRUE]
Except(t, from) ==
    /\ Goto(t, from, "log")
    /\ result' = [result EXCEPT ![t] = Failed(@)]
    /\ UNCHANGED <<tries, out, options, logs, server>>

(* TestIsSkip and TestRunError in Test.run: every subtest gets the status. *)
Errored(r, s) == [r EXCEPT !.raw = s, !.subtests = SetAll(@, s), !.code = NoCode]
RunError(t, from, s) ==
    /\ Goto(t, from, "check")
    /\ result' = [result EXCEPT ![t] = Errored(@, s)]

(* update_dmesg and update_monitoring, each of which may raise. *)
Prepare(t) ==
    \/ /\ Goto(t, "prepare", "skip")
       /\ UNCHANGED <<tries, result, out, procs, options, logs, server>>
    \/ Except(t, "prepare") /\ UNCHANGED procs

CheckSkip(t) ==
    /\ \/ RunError(t, "skip", "skip")
       \/ Goto(t, "skip", "spawn") /\ UNCHANGED result
    /\ UNCHANGED <<tries, out, procs, options, logs, server>>

(* subprocess.Popen.  A silent helper of an earlier attempt is in a group  *)
(* of its own and out of the test's reach.                                 *)
Spawn(t) ==
    \/ /\ Goto(t, "spawn", "communicate")
       /\ tries' = [tries EXCEPT ![t] = @ + 1]
       /\ leader' = [leader EXCEPT ![t] = "running"]
       /\ helper' = [helper EXCEPT ![t] = "none"]
       /\ UNCHANGED <<result, out, options, logs, server>>
    \/ /\ RunError(t, "spawn", "skip")   \* ENOENT
       /\ UNCHANGED <<tries, out, procs, options, logs, server>>
    \/ Except(t, "spawn") /\ UNCHANGED procs   \* any other OSError

(* communicate() returns once no process holds the pipes and the leader is *)
(* waited for.                                                             *)
LeaderExited(t) == leader[t] = "zombie"
PipesClosed(t) == leader[t] = "zombie" /\ helper[t] # "piped"
Reap(t) == leader' = [leader EXCEPT ![t] = "reaped"] /\ UNCHANGED helper

(* Only these classes override _run_command. *)
Retrying == {"window", "deqp"}
Retried(t) == Classes[t] \cap Retrying # {}
More(t) == tries[t] < Attempts

Communicate(t) ==
    /\ at[t] = "communicate" /\ PipesClosed(t)
    /\ Reap(t)
    /\ \E o \in Outputs[t] :
         \/ /\ ~(Retried(t) /\ o.again)
            /\ Goto(t, "communicate", "interpret")
            /\ result' = [result EXCEPT ![t].code = o.code]
            /\ out' = [out EXCEPT ![t] = o]
         \/ /\ Retried(t) /\ o.again /\ More(t)
            /\ Goto(t, "communicate", "spawn")
            /\ result' = [result EXCEPT ![t].code = o.code]
            /\ UNCHANGED out
         \/ /\ Retried(t) /\ o.again /\ ~More(t)
            /\ RunError(t, "communicate", "fail") /\ UNCHANGED out
         \/ RunError(t, "communicate", "crash") /\ UNCHANGED out   \* UnicodeDecodeError
    /\ UNCHANGED <<tries, options, logs, server>>

(* TimeoutExpired. *)
Timeout(t) ==
    /\ t \in Timed
    /\ Goto(t, "communicate", "terminate")
    /\ UNCHANGED <<tries, result, out, procs, options, logs, server>>

(* proc.terminate(): SIGTERM to the leader alone, which may obey at once,  *)
(* later (LeaderExits) or never.                                           *)
Terminate(t) ==
    /\ Goto(t, "terminate", "poll")
    /\ \/ leader[t] = "running" /\ leader' = [leader EXCEPT ![t] = "zombie"]
       \/ UNCHANGED leader
    /\ UNCHANGED <<tries, result, out, helper, options, logs, server>>

(* proc.poll(): a leader that has exited is reaped, and the group left. *)
Poll(t) ==
    /\ \/ leader[t] = "zombie" /\ Goto(t, "poll", "drain") /\ Reap(t)
       \/ leader[t] # "zombie" /\ Goto(t, "poll", "kill") /\ UNCHANGED procs
    /\ UNCHANGED <<tries, result, out, options, logs, server>>

(* Three seconds later killpg: the leader is running or a zombie, so its   *)
(* group still has its name.                                               *)
SignalLeader(t) == leader' = [leader EXCEPT ![t] = "zombie"] /\ UNCHANGED helper
SignalGroup(t) == /\ leader' = [leader EXCEPT ![t] = "zombie"]
                  /\ helper' = [helper EXCEPT ![t] = "none"]
Kill(t) ==
    /\ Goto(t, "kill", "drain")
    /\ SignalGroup(t)
    /\ UNCHANGED <<tries, result, out, options, logs, server>>

(* The second communicate(), without a timeout; what it returns may fail   *)
(* to decode, outside the try.                                             *)
Drain(t) ==
    /\ at[t] = "drain" /\ leader[t] \in {"zombie", "reaped"} /\ helper[t] # "piped"
    /\ Reap(t)
    /\ \/ RunError(t, "drain", "timeout") /\ UNCHANGED <<tries, out, options, logs, server>>
       \/ Except(t, "drain")

(* interpret_result of the test's class, which matters first here, to a    *)
(* test that was not run again; the output is of no further use.           *)
Interpret(t) ==
    /\ at[t] = "interpret"
    /\ out' = [out EXCEPT ![t] = Silent]
    /\ \E class \in Classes[t] :
         LET r == InterpretAs(class, result[t], out[t].lines)
         IN  /\ tries[t] > 1 => class \in Retrying
             /\ \/ /\ r.raw # Raised
                   /\ Goto(t, "interpret", "check")
                   /\ result' = [result EXCEPT ![t] = r]
                \/ /\ r.raw = Raised
                   /\ Goto(t, "interpret", "log")
                   /\ result' = [result EXCEPT ![t] = Failed(r)]
    /\ UNCHANGED <<tries, procs, options, logs, server>>

(* BaseDmesg.update_result when dmesg has new messages. *)
Replace(s) == CASE s = "pass" -> "dmesgwarn" [] s \in {"warn", "fail"} -> "dmesgfail" [] OTHER -> s
ReplaceSubtests(subs) == [i \in DOMAIN subs |-> [subs[i] EXCEPT !.status = Replace(subs[i].status)]]
WithDmesg(r) == [r EXCEPT !.raw = Replace(ResultOf(r)), !.subtests = ReplaceSubtests(@)]

(* update_result of dmesg, then check_monitoring, which may raise. *)
Check(t) ==
    \/ /\ Goto(t, "check", "log")
       /\ \/ UNCHANGED result
          \/ result' = [result EXCEPT ![t] = WithDmesg(@)]
       /\ UNCHANGED <<tries, out, procs, options, logs, server>>
    \/ Except(t, "check") /\ UNCHANGED procs

-------------------------------------------------------------------------------
(* log.log, under the lock: QuietLog counts, asserts and then takes the    *)
(* test off the list; HTTPLog takes it off first.  A status that is no key *)
(* of the summary fails the assertion, and the exception leaves execute:   *)
(* nothing of the test is written.                                         *)
Status(t) == IF execute THEN ResultOf(result[t]) ELSE "dryrun"

CountedIfAccepted(t) == IF Status(t) \in SummaryKeys THEN complete + 1 ELSE complete
Completed(t) == complete + 1

Log(t) ==
    /\ at[t] = "log"
    /\ complete' = Completed(t)
    /\ \/ /\ Status(t) \in SummaryKeys
          /\ Goto(t, "log", "done")
          /\ summary' = [summary EXCEPT ![Status(t)] = @ + 1]
          /\ running' = running \ {t}
       \/ /\ Status(t) \notin SummaryKeys
          /\ Goto(t, "log", "lost")
          /\ running' = IF logger = "http" THEN running \ {t} ELSE running
          /\ UNCHANGED summary
    /\ UNCHANGED <<tries, result, out, procs, options, server>>

(* HTTPLogServer.run: the test under the lock, then one request.  do_GET   *)
(* copies references under the lock and serialises them after it; the      *)
(* write of a str to a byte stream ends the request with an exception.     *)
ServerCheck ==
    /\ server = "check"
    /\ server' = IF complete = Cardinality(Tests) THEN "ended" ELSE "wait"
    /\ UNCHANGED <<at, tries, result, out, procs, options, logs>>
Request ==
    /\ server = "wait"
    /\ server' \in {"reply", "check"}
    /\ UNCHANGED <<at, tries, result, out, procs, options, logs>>
Reply ==
    /\ server = "reply" /\ server' = "check"
    /\ UNCHANGED <<at, tries, result, out, procs, options, logs>>

-------------------------------------------------------------------------------
(* The processes. *)
Fork(t) ==
    /\ leader[t] = "running" /\ helper[t] = "none"
    /\ \E h \in {"piped", "silent"} : helper' = [helper EXCEPT ![t] = h]
    /\ UNCHANGED <<at, tries, result, out, leader, options, logs, server>>
LeaderExits(t) ==
    /\ leader[t] = "running" /\ leader' = [leader EXCEPT ![t] = "zombie"]
    /\ UNCHANGED <<at, tries, result, out, helper, options, logs, server>>
HelperExits(t) ==
    /\ helper[t] # "none" /\ helper' = [helper EXCEPT ![t] = "none"]
    /\ UNCHANGED <<at, tries, result, out, leader, options, logs, server>>

(* The steps of the thread once it has begun. *)
Thread(t) ==
    \/ Prepare(t) \/ CheckSkip(t) \/ Spawn(t) \/ Communicate(t) \/ Terminate(t) \/ Poll(t)
    \/ Kill(t) \/ Drain(t) \/ Interpret(t) \/ Check(t) \/ Log(t)
Process(t) == Fork(t) \/ LeaderExits(t) \/ HelperExits(t)
Server == ServerCheck \/ Reply

Next ==
    \/ \E t \in Tests : Start(t) \/ Thread(t) \/ Timeout(t) \/ Process(t)
    \/ Server \/ Request

Spec == Init /\ [][Next]_vars

(* A thread goes on and its timer fires; a helper may live for ever, a     *)
(* leader too; somebody keeps asking the server.                           *)
ThreadsFair == (\A t \in Tests : WF_vars(Thread(t))) /\ \A t \in Timed : WF_vars(Timeout(t))
ServerFair == WF_vars(Server) /\ WF_vars(Request)
FairSpec == Spec /\ ThreadsFair /\ ServerFair
-------------------------------------------------------------------------------
Ended(t) == at[t] \in {"done", "lost"}
InProcess == {"communicate", "terminate", "poll", "kill", "drain"}
Places == InProcess \cup {"idle", "prepare", "skip", "spawn", "interpret", "check", "log", "done",
                          "lost"}

(* The types of the variables; the statuses of a result are those of the   *)
(* code.                                                                   *)
TypeOK ==
    /\ at \in [Tests -> Places]
    /\ tries \in [Tests -> 0..Attempts]
    /\ leader \in [Tests -> {"none", "running", "zombie", "reaped"}]
    /\ helper \in [Tests -> {"none", "piped", "silent"}]
    /\ execute \in BOOLEAN /\ logger \in Loggers
    /\ complete \in Nat /\ running \in SUBSET Tests /\ summary \in [SummaryKeys -> Nat]
    /\ server \in {"off", "check", "wait", "reply", "ended"}
    /\ \A t \in Tests : /\ out[t] \in Outputs[t] \cup {Silent}
                         /\ result[t].raw \in ALL /\ result[t].exc \in BOOLEAN
                         /\ result[t].code \in {NoCode} \cup {o.code : o \in Outputs[t]}

(* What the loggers count is what the tests did: complete counts the tests *)
(* that have logged, those whose status the assertion of _log (log.py:139) *)
(* refused included, every key of the summary the tests that ended with    *)
(* that status, and the list of running tests holds those between start    *)
(* and log, with QuietLog the refused ones for ever.                       *)
LogCounts ==
    /\ complete = Cardinality({t \in Tests : Ended(t)})
    /\ \A s \in SummaryKeys :
          summary[s] = Cardinality({t \in Tests : at[t] = "done" /\ Status(t) = s})
    /\ running = {t \in Tests : at[t] \notin {"idle", "done"}
                               /\ (logger = "http" => at[t] # "lost")}

(* Outside _run_command a test has no process of its own that was not      *)
(* waited for and none that holds its pipes, on every path through the     *)
(* timeout, the kill and the retries (base.py:284-316).                    *)
NothingLeftBehind ==
    \A t \in Tests : at[t] \notin InProcess =>
        leader[t] \in {"none", "reaped"} /\ helper[t] # "piped"

(* A test that ends as pass ran a process to its end, which returned 0     *)
(* unless subtests speak for it: an error, a timeout or a skip never turns *)
(* into pass.  Subtests that all passed speak for it in any case but a     *)
(* stored crash (results.py:178), so that a crash turns into pass in two   *)
(* ways, and in these alone: valgrind stores it as a skip (base.py:407),   *)
(* or an exception raised after it stores it as a fail (base.py:159).      *)
PassIsEarned ==
    \A t \in Tests :
        at[t] = "done" /\ Status(t) = "pass" =>
            /\ result[t].code # NoCode
            /\ result[t].subtests = <<>> => result[t].code = 0
            /\ IsCrash(result[t].code) => result[t].raw = "skip" \/ result[t].exc

(* The assertion of the loggers (log.py:139): every status logged is a key *)
(* of the summary.                                                         *)
StatusAccepted == \A t \in Tests : at[t] = "log" => Status(t) \in SummaryKeys

(* Once the group has been sent SIGKILL the test ends; a test with a      *)
(* timeout ends, or waits in the second communicate() for a helper that    *)
(* survived because its leader had obeyed SIGTERM (base.py:301-316).       *)
TestsEnd ==
    /\ \A t \in Timed : at[t] = "kill" ~> Ended(t)
    /\ \A t \in Timed : at[t] = "prepare" ~> (Ended(t) \/ (at[t] = "drain" /\ helper[t] = "piped"))

(* The http server leaves its loop once every test has logged, as long as  *)
(* requests keep coming: refused statuses count as complete too.           *)
ServerStops == (\A t \in Tests : Ended(t)) ~> server \in {"off", "ended"}
===============================================================================
