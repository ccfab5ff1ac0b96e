--------------------------- MODULE ReducedProcess ---------------------------
(***************************************************************************)
(* ReducedProcessMixin and MultiShaderTest: one process runs many          *)
(* subtests; when it stops early the test marks the subtest that stopped   *)
(* it, starts another process behind it and merges the output.             *)
(*                                                                         *)
(* The subtests are the ones _process_skips left in self._expected, by     *)
(* their position in it. The process is shader_runner: it prints a name    *)
(* before each subtest and a result after it, and flushes its output with  *)
(* the result only.                                                        *)
(***************************************************************************)
EXTENDS Integers

CONSTANT N      \* len(self._expected)

ASSUME CountAssumption == N \in Nat

Subtests == 1 .. N

\* What happens when a subtest runs: it reports a result and the next one
\* begins, or it ends the process, by reporting for all of it ("skip", "exit")
\* or by dying ("crash"), or it has to be killed ("hang").
Reporting == {"pass", "fail"}
Stopping == {"skip", "exit", "crash"}
Fates == Reporting \cup Stopping \cup {"hang"}

Statuses == {"notrun", "pass", "fail", "skip", "crash", "timeout"}

VARIABLES
    fate,       \* subtest -> what happens when it runs
    quiet,      \* those that stop the process before their name is out
    pc,         \* where the test is
    at,         \* the last subtest the process named
    named,      \* how many it named: __find_sub()
    exit,       \* how the last process ended
    resumed,    \* is that process a resumed one?
    cur,        \* cur_sub; 0 before the first process has ended
    first,      \* how the first process ended: the returncode that is kept
    reported,   \* subtests whose result is in the output of some process
    raw,        \* the last result for a whole process in that output
    status,     \* self.result.subtests
    verdict,    \* how execution ended
    starts      \* subtest -> how often a process began it

process == <<at, named, exit, reported, raw, starts>>
vars == <<fate, quiet, pc, process, resumed, cur, first, status, verdict>>

Init ==
    /\ fate \in [Subtests -> Fates]
    /\ quiet \in SUBSET {j \in Subtests : fate[j] \in Stopping}
    /\ pc = "start" /\ resumed = FALSE /\ cur = 0
    /\ at = 0 /\ named = 0 /\ exit = "none" /\ first = "none"
    /\ reported = {} /\ raw = "none"
    /\ status = [j \in Subtests |-> "notrun"]
    /\ verdict = "none"
    /\ starts = [j \in Subtests |-> 0]

-----------------------------------------------------------------------------
\* TestIsSkip and TestRunError give every subtest the same status.
GiveUp(s) ==
    /\ pc' = "done" /\ verdict' = s
    /\ status' = [j \in Subtests |-> s]
    /\ UNCHANGED <<fate, quiet, resumed, cur, first>>

\* Nothing is expected, or the executable does not exist.
Skip ==
    /\ pc = "start" /\ GiveUp("skip")
    /\ UNCHANGED process

\* The command runs the subtests behind position k.
Launch(k) == pc' = "process" /\ at' = k /\ named' = 0 /\ exit' = "none"

Start ==
    /\ pc = "start" /\ N > 0
    /\ Launch(0)
    /\ UNCHANGED <<fate, quiet, reported, raw, starts, resumed, cur, first, status, verdict>>

-----------------------------------------------------------------------------
\* The process.

\* History does not tell three starts from more.
Often == 3
Begin(j) == starts' = [starts EXCEPT ![j] = IF @ = Often THEN @ ELSE @ + 1]

RunSubtest ==
    LET j == at + 1
    IN  /\ pc = "process" /\ at < N /\ fate[j] \in Reporting
        /\ Begin(j)
        /\ at' = j /\ named' = named + 1 /\ reported' = reported \cup {j}
        /\ UNCHANGED <<fate, quiet, pc, exit, raw, resumed, cur, first, status, verdict>>

\* A subtest ends the process.
EndOf(f) == CASE f = "skip" -> "skip" [] f = "exit" -> "fail" [] OTHER -> "crash"

Stop ==
    LET j == at + 1
    IN  /\ pc = "process" /\ at < N /\ fate[j] \in Stopping
        /\ Begin(j)
        /\ pc' = "ended" /\ exit' = EndOf(fate[j])
        /\ IF j \in quiet THEN UNCHANGED <<at, named>>
           ELSE at' = j /\ named' = named + 1
        /\ raw' = IF EndOf(fate[j]) = "crash" THEN raw ELSE EndOf(fate[j])
        /\ UNCHANGED <<fate, quiet, reported, resumed, cur, first, status, verdict>>

\* communicate() times out: the process is killed and the test given up.
Hang ==
    LET j == at + 1
    IN  /\ pc = "process" /\ at < N /\ fate[j] = "hang"
        /\ Begin(j)
        /\ GiveUp("timeout")
        /\ UNCHANGED <<at, named, exit, reported, raw>>

\* After the last subtest it exits with 0; it may die after any, while it cleans
\* up.
Finish ==
    /\ pc = "process" /\ named > 0
    /\ pc' = "ended"
    /\ exit' = "crash" \/ (exit' = "done" /\ at = N)
    /\ UNCHANGED <<fate, quiet, at, named, reported, raw, starts, resumed, cur, first,
                   status, verdict>>

-----------------------------------------------------------------------------
\* _run_command when a process has ended.

IsCherry == exit = "done"

AlwaysCrash == "crash"
StopStatus == CASE exit = "skip" -> "skip" [] exit = "fail" -> "fail" [] OTHER -> "crash"

\* A process that stopped without a name counts for the subtest it died in.
AnyFound == named
Found == IF named = 0 THEN 1 ELSE named

Cherry ==
    /\ pc = "ended" /\ ~resumed /\ IsCherry
    /\ pc' = "interpret" /\ first' = exit
    /\ UNCHANGED <<fate, quiet, process, resumed, cur, status, verdict>>

\* Where the next process goes on: _resume(current).
AtStop(c) == c - 1
Behind(c) == c

\* while cur_sub < last
More(c) == c < N

Resume ==
    LET c == cur + Found
    IN  /\ pc = "ended" /\ (resumed \/ ~IsCherry) /\ More(c)
        /\ cur' = c /\ resumed' = TRUE
        /\ first' = IF resumed THEN first ELSE exit
        /\ status' = [status EXCEPT ![c] = StopStatus]
        /\ Launch(Behind(c))
        /\ UNCHANGED <<fate, quiet, reported, raw, starts, verdict>>

\* Every subtest is accounted for; the one that stopped the last process is
\* marked too.
MarkLast ==
    LET c == cur + Found
    IN  /\ pc = "ended" /\ (resumed \/ ~IsCherry) /\ ~More(c)
        /\ cur' = c
        /\ first' = IF resumed THEN first ELSE exit
        /\ status' = IF IsCherry THEN status ELSE [status EXCEPT ![c] = StopStatus]
        /\ pc' = "interpret"
        /\ UNCHANGED <<fate, quiet, process, resumed, verdict>>

\* interpret_result: the results in the joined output replace the marks; then
\* what is still not run is skipped if the output says so, or else the first of
\* it crashed if the process did.
Parsed == [j \in Subtests |-> IF j \in reported THEN fate[j] ELSE status[j]]
NotRun(s) == {j \in Subtests : s[j] = "notrun"}
Skipped(s) == [j \in Subtests |-> IF raw = "skip" /\ s[j] = "notrun" THEN "skip" ELSE s[j]]
Crashed(s) ==
    [j \in Subtests |->
        IF first = "crash" /\ j \in NotRun(s) /\ \A i \in NotRun(s) : j <= i
        THEN "crash" ELSE s[j]]

Interpret ==
    /\ pc = "interpret"
    /\ status' = Crashed(Skipped(Parsed))
    /\ pc' = "done" /\ verdict' = "judged"
    /\ UNCHANGED <<fate, quiet, process, resumed, cur, first>>

Next ==
    \/ Skip \/ Start \/ RunSubtest \/ Stop \/ Hang \/ Finish
    \/ Cherry \/ Resume \/ MarkLast \/ Interpret

Spec == Init /\ [][Next]_vars

\* The process ends or is killed, and the thread goes on.
FairSpec == Spec /\ WF_vars(Next)

-----------------------------------------------------------------------------
(***************************************************************************)
(* Properties.                                                             *)
(***************************************************************************)

\* Type correctness; cur_sub never leaves the expected subtests, so that
\* self._expected[cur_sub - 1] is never an IndexError, and no subtest is begun
\* a third time.
TypeOK ==
    /\ fate \in [Subtests -> Fates]
    /\ quiet \subseteq {j \in Subtests : fate[j] \in Stopping}
    /\ pc \in {"start", "process", "ended", "interpret", "done"}
    /\ at \in 0 .. N /\ named \in 0 .. N /\ cur \in 0 .. N
    /\ exit \in {"none", "done", "skip", "fail", "crash"}
    /\ first \in {"none", "done", "skip", "fail", "crash"}
    /\ raw \in {"none", "skip", "fail"}
    /\ resumed \in BOOLEAN
    /\ reported \subseteq Subtests
    /\ status \in [Subtests -> Statuses]
    /\ verdict \in {"none", "skip", "timeout", "judged"}
    /\ starts \in [Subtests -> 0 .. 2]

\* What a subtest deserves.
Truth(f) ==
    CASE f \in Reporting \cup {"skip"} -> f [] f = "exit" -> "fail" [] OTHER -> "crash"

\* However many subtests stop their process, and whichever of them take their
\* name with them, each ends with its own status: no mark of a stop stays on a
\* neighbour, and none is left "notrun".
EverySubtestJudged == verdict = "judged" => \A j \in Subtests : status[j] = Truth(fate[j])

\* No subtest is run twice, except one that stopped a process before its name
\* was out: it is tried again as the first of the next.
NoneRepeated == \A j \in Subtests : starts[j] <= IF j \in quiet THEN 2 ELSE 1

\* A subtest is settled when its status stands or the output will correct it.
Settled(j) == status[j] = Truth(fate[j]) \/ j \in reported

\* Everything up to cur is settled and the process has named what is between cur
\* and at.
Counted ==
    /\ cur <= at /\ cur < N /\ named = at - cur
    /\ \A j \in 1 .. cur : Settled(j)

\* All it named has reported, and nothing behind has begun but for the subtest
\* that stopped the process before.
InProcess ==
    /\ Counted
    /\ \A j \in cur + 1 .. at : j \in reported
    /\ \A j \in at + 1 .. N : starts[j] # 0 => starts[j] = 1 /\ j \in quiet /\ j = cur + 1

\* The process ended behind the last subtest it named, in it, or in the next one.
AtResult ==
    /\ cur < at /\ exit \in {"done", "crash"} /\ (exit = "done" => at = N)
    /\ \A j \in cur + 1 .. at : j \in reported
    /\ \A j \in at + 1 .. N : starts[j] = 0

InNamed ==
    /\ cur < at /\ fate[at] \in Stopping /\ exit = EndOf(fate[at])
    /\ \A j \in cur + 1 .. at - 1 : j \in reported
    /\ \A j \in at + 1 .. N : starts[j] = 0

InQuiet ==
    /\ at < N /\ at + 1 \in quiet /\ exit = EndOf(fate[at + 1])
    /\ \A j \in cur + 1 .. at : j \in reported
    /\ starts[at + 1] = 1 \/ at = cur
    /\ \A j \in at + 2 .. N : starts[j] = 0

\* The inductive invariant behind both.
SubtestInvariant ==
    /\ pc = "start" => cur = 0 /\ \A j \in Subtests : starts[j] = 0
    /\ pc = "process" => InProcess
    /\ pc = "ended" => Counted /\ (AtResult \/ InNamed \/ InQuiet)
    /\ pc = "interpret" => \A j \in Subtests : Settled(j)
    /\ verdict = "judged" => pc = "done"
    /\ \A j \in reported : fate[j] \in Reporting

\* The loop ends: every process accounts for at least one subtest more.
Terminates == <>(pc = "done")
=============================================================================
