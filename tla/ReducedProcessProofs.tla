------------------------ MODULE ReducedProcessProofs ------------------------
(***************************************************************************)
(* Proofs about ReducedProcess, for any number of subtests and whatever    *)
(* each of them does to its process.                                       *)
(***************************************************************************)
EXTENDS ReducedProcess, TLAPS

Inv == TypeOK /\ SubtestInvariant /\ EverySubtestJudged /\ NoneRepeated

\* The initial states satisfy the invariant.
LEMMA InitInv == Init => Inv
<1> SUFFICES ASSUME Init PROVE Inv
  OBVIOUS
<1>1. TypeOK
  <2>1. 0 \in 0 .. N
    BY CountAssumption
  <2>2. status \in [Subtests -> Statuses] /\ starts \in [Subtests -> 0 .. 2]
    BY DEF Init, Statuses
  <2>3. quiet \subseteq {j \in Subtests : fate[j] \in Stopping}
    BY DEF Init
  <2> QED BY <2>1, <2>2, <2>3 DEF Init, TypeOK
<1>2. \A j \in Subtests : starts[j] = 0
  BY DEF Init
<1>3. SubtestInvariant
  BY <1>2 DEF Init, SubtestInvariant
<1>4. EverySubtestJudged /\ NoneRepeated
  BY <1>2 DEF Init, EverySubtestJudged, NoneRepeated
<1> QED BY <1>1, <1>3, <1>4 DEF Inv

-----------------------------------------------------------------------------
\* Where _run_command goes on: one past the last subtest the process named, or
\* past the quiet one; up to there everything is settled once the status of the
\* stop is written.
LEMMA Advance ==
    ASSUME Inv, pc = "ended", NEW c, c = cur + Found
    PROVE  /\ cur \in 0 .. N - 1 /\ at \in 0 .. N /\ c \in cur + 1 .. N /\ c \in Subtests
           /\ \A j \in 1 .. c - 1 : Settled(j)
           /\ \/ c \in reported
              \/ exit # "done" /\ StopStatus = Truth(fate[c])
           /\ exit = "done" => c = N
           /\ c < N => \/ AtResult /\ c = at
                       \/ InNamed /\ c = at
                       \/ InQuiet /\ c = at /\ at # cur
                       \/ InQuiet /\ c = at + 1 /\ at = cur
<1> USE CountAssumption
<1>1. /\ cur \in 0 .. N /\ at \in 0 .. N /\ cur <= at /\ cur < N /\ named = at - cur
      /\ \A j \in 1 .. cur : Settled(j)
      /\ AtResult \/ InNamed \/ InQuiet
  BY DEF Inv, TypeOK, SubtestInvariant, Counted
<1>2. c = IF at = cur THEN cur + 1 ELSE at
  BY <1>1 DEF Found
<1>3. c \in cur + 1 .. N => c \in Subtests
  BY <1>1 DEF Subtests
<1>4. CASE AtResult
  <2>1. c = at /\ at \in cur + 1 .. N /\ at \in reported /\ (exit = "done" => c = N)
    BY <1>1, <1>2, <1>4 DEF AtResult
  <2>2. \A j \in 1 .. at - 1 : Settled(j)
    BY <1>1, <1>4 DEF AtResult, Settled
  <2> QED BY <1>1, <1>3, <1>4, <2>1, <2>2
<1>5. CASE InNamed
  <2>1. c = at /\ at \in cur + 1 .. N
    BY <1>1, <1>2, <1>5 DEF InNamed
  <2>2. \A j \in 1 .. at - 1 : Settled(j)
    BY <1>1, <1>5 DEF InNamed, Settled
  <2>3. exit # "done" /\ StopStatus = Truth(fate[at])
    BY <1>5 DEF InNamed, EndOf, StopStatus, Truth, Stopping, Reporting
  <2> QED BY <1>1, <1>3, <1>5, <2>1, <2>2, <2>3
<1>6. CASE InQuiet
  <2>1. at < N /\ at + 1 \in Subtests /\ fate[at + 1] \in Stopping /\ exit = EndOf(fate[at + 1])
    BY <1>1, <1>6 DEF InQuiet, Subtests, Inv, TypeOK
  <2>2. exit # "done" /\ StopStatus = Truth(fate[at + 1])
    BY <2>1 DEF EndOf, StopStatus, Truth, Stopping, Reporting
  <2>3. \A j \in 1 .. at : Settled(j)
    BY <1>1, <1>6 DEF InQuiet, Settled
  <2>4. CASE at = cur
    BY <1>1, <1>2, <1>3, <1>6, <2>1, <2>2, <2>3, <2>4
  <2>5. CASE at # cur
    <3>1. c = at /\ at \in cur + 1 .. N /\ at \in reported
      BY <1>1, <1>2, <1>6, <2>5 DEF InQuiet
    <3>2. \A j \in 1 .. c - 1 : Settled(j)
      BY <1>1, <2>3, <3>1
    <3> QED BY <1>1, <1>3, <1>6, <2>2, <2>5, <3>1, <3>2
  <2> QED BY <2>4, <2>5
<1> QED BY <1>1, <1>4, <1>5, <1>6

\* The mark of a stop is a status.
LEMMA StopIsStatus == StopStatus \in Statuses
BY DEF StopStatus, Statuses

\* Marking the subtest of the stop leaves the others as they were.
LEMMA MarkSettles ==
    ASSUME Inv, NEW c \in Subtests, status' = [status EXCEPT ![c] = StopStatus],
           UNCHANGED <<fate, reported>>
    PROVE  /\ status' \in [Subtests -> Statuses]
           /\ \A j \in Subtests : j # c /\ Settled(j) => Settled(j)'
           /\ c \in reported \/ StopStatus = Truth(fate[c]) => Settled(c)'
BY StopIsStatus DEF Inv, TypeOK, Settled

\* Nothing else changes what is settled.
LEMMA SettledStays ==
    ASSUME UNCHANGED <<status, fate>>, reported \subseteq reported'
    PROVE  \A j : Settled(j) => Settled(j)'
BY DEF Settled
-----------------------------------------------------------------------------
\* One lemma for each action.

\* A test that is given up gives every subtest one status and judges none.
LEMMA GiveUpKeeps ==
    ASSUME Inv, NEW s \in {"skip", "timeout"}, GiveUp(s), UNCHANGED <<at, named, exit, reported, raw>>,
           starts' \in [Subtests -> 0 .. 2], quiet' = quiet, NoneRepeated'
    PROVE  Inv'
<1>1. TypeOK'
  BY DEF Inv, TypeOK, GiveUp, Statuses
<1>2. SubtestInvariant'
  BY DEF Inv, SubtestInvariant, GiveUp
<1> QED BY <1>1, <1>2 DEF Inv, EverySubtestJudged, GiveUp

\* is_skip and a missing executable.
LEMMA SkipKeeps == ASSUME Inv, Skip PROVE Inv'
<1>1. starts' = starts /\ quiet' = quiet /\ NoneRepeated'
  BY DEF Inv, Skip, process, GiveUp, NoneRepeated
<1> QED BY <1>1, GiveUpKeeps DEF Skip, process, Inv, TypeOK

\* The first process begins with nothing named and nothing begun.
LEMMA StartKeeps == ASSUME Inv, Start PROVE Inv'
<1> USE CountAssumption DEF Start, Launch
<1>1. TypeOK'
  BY DEF Inv, TypeOK
<1>2. cur = 0 /\ \A j \in 1 .. N : starts[j] = 0
  BY DEF Inv, SubtestInvariant, Subtests
<1>3. InProcess'
  BY <1>2 DEF InProcess, Counted
<1>4. SubtestInvariant' /\ EverySubtestJudged' /\ NoneRepeated'
  BY <1>3 DEF Inv, SubtestInvariant, EverySubtestJudged, NoneRepeated
<1> QED BY <1>1, <1>4 DEF Inv

\* What is known of the next subtest of a process.
LEMMA NextSubtest ==
    ASSUME Inv, pc = "process", at < N
    PROVE  /\ InProcess /\ at \in 0 .. N /\ cur \in 0 .. at /\ at + 1 \in Subtests
           /\ starts[at + 1] = 0 \/ (starts[at + 1] = 1 /\ at + 1 \in quiet /\ at = cur)
BY CountAssumption DEF Inv, TypeOK, SubtestInvariant, InProcess, Counted, Subtests

\* Beginning the next subtest repeats no other.
LEMMA BeginKeeps ==
    ASSUME Inv, pc = "process", at < N, Begin(at + 1), quiet' = quiet
    PROVE  /\ starts' \in [Subtests -> 0 .. 2] /\ NoneRepeated'
           /\ starts'[at + 1] = 1 \/ (starts'[at + 1] = 2 /\ at + 1 \in quiet /\ at = cur)
           /\ \A j \in Subtests : j # at + 1 => starts'[j] = starts[j]
<1>0. starts[at + 1] # Often
  BY NextSubtest DEF Often
<1>1. starts \in [Subtests -> 0 .. 2] /\ starts' = [starts EXCEPT ![at + 1] = starts[at + 1] + 1]
  BY <1>0 DEF Inv, TypeOK, Begin
<1>2. starts'[at + 1] = 1 \/ (starts'[at + 1] = 2 /\ at + 1 \in quiet /\ at = cur)
  BY <1>1, NextSubtest
<1>3. \A j \in Subtests : j # at + 1 => starts'[j] = starts[j]
  BY <1>1
<1>4. starts' \in [Subtests -> 0 .. 2]
  <2>1. starts[at + 1] + 1 \in 0 .. 2
    BY NextSubtest
  <2> QED BY <1>1, <2>1
<1>5. NoneRepeated'
  BY <1>2, <1>3 DEF Inv, NoneRepeated
<1> QED BY <1>2, <1>3, <1>4, <1>5

\* A subtest that reports extends the part named and reported.
LEMMA RunSubtestKeeps == ASSUME Inv, RunSubtest PROVE Inv'
<1> USE CountAssumption
<1>1. /\ pc = "process" /\ at < N /\ Begin(at + 1) /\ fate[at + 1] \in Reporting
      /\ at' = at + 1 /\ named' = named + 1 /\ reported' = reported \cup {at + 1}
      /\ UNCHANGED <<fate, quiet, pc, exit, raw, resumed, cur, first, status, verdict>>
  BY DEF RunSubtest
<1>2. /\ InProcess /\ at \in 0 .. N /\ cur \in 0 .. at /\ at + 1 \in Subtests
      /\ named = at - cur /\ cur < N
  BY <1>1, NextSubtest DEF InProcess, Counted
<1>3. /\ starts' \in [Subtests -> 0 .. 2] /\ NoneRepeated'
      /\ \A j \in Subtests : j # at + 1 => starts'[j] = starts[j]
  BY <1>1, BeginKeeps
<1>4. TypeOK'
  <2>1. at' \in 0 .. N /\ named' \in 0 .. N /\ reported' \subseteq Subtests
    BY <1>1, <1>2 DEF Inv, TypeOK
  <2> QED BY <1>1, <1>3, <2>1 DEF Inv, TypeOK
<1>5. InProcess'
  <2>1. Counted'
    <3>1. \A j : Settled(j) => Settled(j)'
      BY <1>1, SettledStays
    <3> QED BY <1>1, <1>2, <3>1 DEF InProcess, Counted
  <2>2. \A j \in cur + 1 .. at + 1 : j \in reported'
    BY <1>1, <1>2 DEF InProcess
  <2>3. at + 1 \notin quiet
    BY <1>1 DEF Inv, TypeOK, Reporting, Stopping
  <2>4. ASSUME NEW j \in at + 2 .. N
        PROVE  starts'[j] = 0
    <3>1. j \in Subtests /\ j # at + 1 /\ j \in at + 1 .. N /\ j # cur + 1
      BY <1>2 DEF Subtests
    <3> QED BY <1>2, <1>3, <3>1 DEF InProcess
  <2> QED BY <1>1, <1>2, <2>1, <2>2, <2>4 DEF InProcess
<1>6. SubtestInvariant' /\ EverySubtestJudged'
  BY <1>1, <1>5 DEF Inv, SubtestInvariant, EverySubtestJudged
<1> QED BY <1>3, <1>4, <1>6 DEF Inv

\* A subtest that has to be killed ends the test.
LEMMA HangKeeps == ASSUME Inv, Hang PROVE Inv'
<1>1. pc = "process" /\ at < N /\ Begin(at + 1)
  BY DEF Hang
<1>2. starts' \in [Subtests -> 0 .. 2] /\ quiet' = quiet /\ NoneRepeated'
  BY <1>1, BeginKeeps DEF Hang, GiveUp
<1> QED BY <1>2, GiveUpKeeps DEF Hang

\* A subtest that stops the process is the last named, or quiet and the next.
LEMMA StopKeeps == ASSUME Inv, Stop PROVE Inv'
<1> USE CountAssumption
<1>1. /\ pc = "process" /\ at < N /\ Begin(at + 1) /\ fate[at + 1] \in Stopping
      /\ pc' = "ended" /\ exit' = EndOf(fate[at + 1])
      /\ IF at + 1 \in quiet THEN UNCHANGED <<at, named>>
         ELSE at' = at + 1 /\ named' = named + 1
      /\ raw' = IF EndOf(fate[at + 1]) = "crash" THEN raw ELSE EndOf(fate[at + 1])
      /\ UNCHANGED <<fate, quiet, reported, resumed, cur, first, status, verdict>>
  BY DEF Stop
<1>2. /\ InProcess /\ at \in 0 .. N /\ cur \in 0 .. at /\ at + 1 \in Subtests
      /\ named = at - cur /\ cur < N
  BY <1>1, NextSubtest DEF InProcess, Counted
<1>3. /\ starts' \in [Subtests -> 0 .. 2] /\ NoneRepeated'
      /\ starts'[at + 1] = 1 \/ (starts'[at + 1] = 2 /\ at + 1 \in quiet /\ at = cur)
      /\ \A j \in Subtests : j # at + 1 => starts'[j] = starts[j]
  BY <1>1, BeginKeeps
<1>4. exit' \in {"skip", "fail", "crash"}
  BY <1>1 DEF EndOf
<1>5. TypeOK'
  <2>1. at' \in 0 .. N /\ named' \in 0 .. N
    BY <1>1, <1>2
  <2>2. raw' \in {"none", "skip", "fail"}
    BY <1>1 DEF Inv, TypeOK, EndOf
  <2> QED BY <1>1, <1>3, <1>4, <2>1, <2>2 DEF Inv, TypeOK
<1>6. Counted'
  <2>1. \A j : Settled(j) => Settled(j)'
    BY <1>1, SettledStays
  <2> QED BY <1>1, <1>2, <2>1 DEF InProcess, Counted
<1>7. \A j \in at + 2 .. N : starts'[j] = 0
  <2> SUFFICES ASSUME NEW j \in at + 2 .. N PROVE starts'[j] = 0
    OBVIOUS
  <2>1. j \in Subtests /\ j # at + 1 /\ j \in at + 1 .. N /\ j # cur + 1
    BY <1>2 DEF Subtests
  <2> QED BY <1>2, <1>3, <2>1 DEF InProcess
<1>8. InNamed' \/ InQuiet'
  <2>1. CASE at + 1 \in quiet
    BY <1>1, <1>2, <1>3, <1>7, <2>1 DEF InQuiet, InProcess
  <2>2. CASE at + 1 \notin quiet
    BY <1>1, <1>2, <1>7, <2>2 DEF InNamed, InProcess
  <2> QED BY <2>1, <2>2
<1>9. SubtestInvariant' /\ EverySubtestJudged'
  BY <1>1, <1>6, <1>8 DEF Inv, SubtestInvariant, EverySubtestJudged
<1> QED BY <1>3, <1>5, <1>9 DEF Inv

\* A process that ends by itself, or while it cleans up, ends behind a report.
LEMMA FinishKeeps == ASSUME Inv, Finish PROVE Inv'
<1> USE CountAssumption
<1>1. /\ pc = "process" /\ named > 0 /\ pc' = "ended"
      /\ exit' = "crash" \/ (exit' = "done" /\ at = N)
      /\ UNCHANGED <<fate, quiet, at, named, reported, raw, starts, resumed, cur, first,
                     status, verdict>>
  BY DEF Finish
<1>2. TypeOK' /\ NoneRepeated'
  BY <1>1 DEF Inv, TypeOK, NoneRepeated
<1>3. InProcess
  BY <1>1 DEF Inv, SubtestInvariant
<1>4. Counted'
  <2>1. \A j : Settled(j) => Settled(j)'
    BY <1>1, SettledStays
  <2> QED BY <1>1, <1>3, <2>1 DEF InProcess, Counted
<1>5. AtResult'
  <2>1. cur \in 0 .. N /\ at \in 0 .. N /\ cur < at
    BY <1>1, <1>3 DEF InProcess, Counted, Inv, TypeOK
  <2>2. \A j \in at + 1 .. N : starts[j] = 0
    BY <1>3, <2>1 DEF InProcess
  <2>3. \A j \in cur + 1 .. at : j \in reported
    BY <1>3 DEF InProcess
  <2> QED BY <1>1, <2>1, <2>2, <2>3 DEF AtResult
<1>6. SubtestInvariant' /\ EverySubtestJudged'
  BY <1>1, <1>4, <1>5 DEF Inv, SubtestInvariant, EverySubtestJudged
<1> QED BY <1>2, <1>6 DEF Inv

\* One process was enough: all subtests have reported.
LEMMA CherryKeeps == ASSUME Inv, Cherry PROVE Inv'
<1> USE CountAssumption
<1>1. /\ pc = "ended" /\ exit = "done" /\ pc' = "interpret" /\ first' = exit
      /\ UNCHANGED <<fate, quiet, process, resumed, cur, status, verdict>>
  BY DEF Cherry, IsCherry
<1>2. TypeOK' /\ NoneRepeated'
  BY <1>1 DEF Inv, TypeOK, NoneRepeated, process
<1>3. \A j \in Subtests : Settled(j)
  <2> DEFINE c == cur + Found
  <2>1. /\ cur \in 0 .. N - 1 /\ c = N /\ c \in reported
        /\ \A j \in 1 .. c - 1 : Settled(j)
    BY <1>1, Advance
  <2> HIDE DEF c
  <2> QED BY <2>1 DEF Subtests, Settled
<1>4. \A j : Settled(j) => Settled(j)'
  BY <1>1, SettledStays DEF process
<1>5. SubtestInvariant' /\ EverySubtestJudged'
  BY <1>1, <1>3, <1>4 DEF Inv, SubtestInvariant, EverySubtestJudged, process, Subtests
<1> QED BY <1>2, <1>5 DEF Inv

\* The loop is over: the last stop is marked and everything is settled.
LEMMA MarkLastKeeps == ASSUME Inv, MarkLast PROVE Inv'
<1> USE CountAssumption
<1>1. /\ pc = "ended" /\ cur + Found >= N /\ cur' = cur + Found
      /\ first' = IF resumed THEN first ELSE exit
      /\ status' = IF exit = "done" THEN status
                   ELSE [status EXCEPT ![cur + Found] = StopStatus]
      /\ pc' = "interpret"
      /\ UNCHANGED <<fate, quiet, process, resumed, verdict>>
  BY Advance DEF MarkLast, IsCherry, More
<1>2. /\ cur + Found = N /\ N \in Subtests
      /\ \A j \in Subtests : j # N => Settled(j)
      /\ N \in reported \/ (exit # "done" /\ StopStatus = Truth(fate[N]))
  <2> DEFINE c == cur + Found
  <2>1. /\ cur \in 0 .. N - 1 /\ c \in cur + 1 .. N /\ c \in Subtests
        /\ \A j \in 1 .. c - 1 : Settled(j)
        /\ c \in reported \/ (exit # "done" /\ StopStatus = Truth(fate[c]))
    BY <1>1, Advance
  <2>2. c >= N
    BY <1>1
  <2> HIDE DEF c
  <2>3. c = N
    BY <2>1, <2>2
  <2>4. \A j \in Subtests : j # N => Settled(j)
    BY <2>1, <2>3 DEF Subtests
  <2> QED BY <2>1, <2>3, <2>4 DEF c
<1>3. status' \in [Subtests -> Statuses] /\ \A j \in Subtests : Settled(j)'
  <2>1. CASE exit = "done"
    <3>1. \A j : Settled(j) => Settled(j)'
      BY <1>1, <2>1, SettledStays DEF process
    <3>2. Settled(N)
      BY <1>2, <2>1 DEF Settled
    <3> QED BY <1>1, <1>2, <2>1, <3>1, <3>2 DEF Inv, TypeOK
  <2>2. CASE exit # "done"
    <3>1. status' = [status EXCEPT ![N] = StopStatus] /\ UNCHANGED <<fate, reported>>
      BY <1>1, <1>2, <2>2 DEF process
    <3>2. /\ status' \in [Subtests -> Statuses]
          /\ \A j \in Subtests : j # N /\ Settled(j) => Settled(j)'
          /\ N \in reported \/ StopStatus = Truth(fate[N]) => Settled(N)'
      BY <1>2, <3>1, MarkSettles
    <3> QED BY <1>2, <3>2
  <2> QED BY <2>1, <2>2
<1>4. TypeOK' /\ NoneRepeated'
  BY <1>1, <1>2, <1>3 DEF Inv, TypeOK, NoneRepeated, process
<1>5. SubtestInvariant' /\ EverySubtestJudged'
  BY <1>1, <1>3 DEF Inv, SubtestInvariant, EverySubtestJudged, process, Subtests
<1> QED BY <1>4, <1>5 DEF Inv

\* The next process begins behind everything that is settled.
LEMMA ResumeKeeps == ASSUME Inv, Resume PROVE Inv'
<1> USE CountAssumption
<1>0. PICK c : c = cur + Found
  OBVIOUS
<1>1. /\ pc = "ended" /\ c < N /\ cur' = c /\ resumed' = TRUE
      /\ first' = IF resumed THEN first ELSE exit
      /\ status' = [status EXCEPT ![c] = StopStatus]
      /\ pc' = "process" /\ at' = c /\ named' = 0 /\ exit' = "none"
      /\ UNCHANGED <<fate, quiet, reported, raw, starts, verdict>>
  BY <1>0 DEF Resume, More, Launch, Behind
<1>2. /\ c \in cur + 1 .. N
      /\ \A j \in 1 .. c - 1 : Settled(j)
      /\ c \in reported \/ StopStatus = Truth(fate[c])
      /\ \/ AtResult /\ c = at
         \/ InNamed /\ c = at
         \/ InQuiet /\ c = at /\ at # cur
         \/ InQuiet /\ c = at + 1 /\ at = cur
  BY <1>0, <1>1, Advance
<1>3. c \in Subtests /\ cur \in 0 .. N /\ at \in 0 .. N
  BY <1>0, <1>1, Advance
<1>4. /\ status' \in [Subtests -> Statuses]
      /\ \A j \in Subtests : j # c /\ Settled(j) => Settled(j)'
      /\ Settled(c)'
  BY <1>1, <1>2, <1>3, MarkSettles
<1>5. TypeOK' /\ NoneRepeated'
  BY <1>1, <1>3, <1>4 DEF Inv, TypeOK, NoneRepeated, Subtests
<1>6. Counted'
  <2>1. \A j \in 1 .. c : Settled(j)'
    BY <1>2, <1>3, <1>4 DEF Subtests
  <2>2. c <= c /\ 0 = c - c
    BY <1>3 DEF Subtests
  <2> QED BY <1>1, <2>1, <2>2 DEF Counted
<1>7. ASSUME NEW j \in c + 1 .. N
      PROVE  starts[j] # 0 => starts[j] = 1 /\ j \in quiet /\ j = c + 1
  <2>1. CASE (AtResult \/ InNamed) /\ c = at
    BY <2>1 DEF AtResult, InNamed
  <2>2. CASE InQuiet /\ c = at /\ at # cur
    <3>1. j = at + 1 \/ j \in at + 2 .. N
      BY <1>3, <2>2
    <3> QED BY <2>2, <3>1 DEF InQuiet
  <2>3. CASE InQuiet /\ c = at + 1 /\ at = cur
    <3>1. j \in at + 2 .. N
      BY <1>3, <2>3
    <3> QED BY <2>3, <3>1 DEF InQuiet
  <2> QED BY <1>2, <2>1, <2>2, <2>3
<1>8. InProcess'
  <2>1. \A j \in c + 1 .. c : j \in reported
    BY <1>3 DEF Subtests
  <2> QED BY <1>1, <1>6, <1>7, <2>1 DEF InProcess
<1>9. SubtestInvariant' /\ EverySubtestJudged'
  BY <1>1, <1>8 DEF Inv, SubtestInvariant, EverySubtestJudged
<1> QED BY <1>5, <1>9 DEF Inv

\* When all is settled, the output corrects every mark and nothing is left for
\* the rules about what did not run.
LEMMA InterpretKeeps == ASSUME Inv, Interpret PROVE Inv'
<1>1. /\ pc = "interpret" /\ pc' = "done" /\ verdict' = "judged"
      /\ status' = Crashed(Skipped(Parsed))
      /\ UNCHANGED <<fate, quiet, process, resumed, cur, first>>
  BY DEF Interpret
<1>2. \A j \in Subtests : Parsed[j] = Truth(fate[j])
  <2>1. ASSUME NEW j \in Subtests PROVE Settled(j) /\ (j \in reported => fate[j] \in Reporting)
    BY <1>1 DEF Inv, SubtestInvariant
  <2>2. \A f \in Reporting : Truth(f) = f
    BY DEF Truth, Reporting
  <2> QED BY <2>1, <2>2 DEF Parsed, Settled
<1>3. \A j \in Subtests : Truth(fate[j]) \in Statuses /\ Truth(fate[j]) # "notrun"
  BY DEF Truth, Statuses, Reporting
<1>4. \A j \in Subtests : Skipped(Parsed)[j] = Truth(fate[j])
  BY <1>2, <1>3 DEF Skipped
<1>5. NotRun(Skipped(Parsed)) = {}
  BY <1>3, <1>4 DEF NotRun
<1>6. /\ status' = [j \in Subtests |-> Skipped(Parsed)[j]]
  BY <1>1, <1>5 DEF Crashed
<1>7. /\ status' \in [Subtests -> Statuses]
      /\ \A j \in Subtests : status'[j] = Truth(fate[j])
  BY <1>3, <1>4, <1>6
<1>8. TypeOK' /\ NoneRepeated'
  BY <1>1, <1>7 DEF Inv, TypeOK, NoneRepeated, process
<1>9. SubtestInvariant' /\ EverySubtestJudged'
  BY <1>1, <1>7 DEF Inv, SubtestInvariant, EverySubtestJudged, process
<1> QED BY <1>8, <1>9 DEF Inv

\* Stuttering steps.
LEMMA StutterKeeps == ASSUME Inv, UNCHANGED vars PROVE Inv'
<1>1. /\ UNCHANGED <<fate, quiet, pc, at, named, exit, reported, raw, starts>>
      /\ UNCHANGED <<resumed, cur, first, status, verdict>>
  BY DEF vars, process
<1>2. TypeOK' /\ EverySubtestJudged' /\ NoneRepeated'
  BY <1>1 DEF Inv, TypeOK, EverySubtestJudged, NoneRepeated
<1>3. SubtestInvariant'
  BY <1>1 DEF Inv, SubtestInvariant, InProcess, Counted, AtResult, InNamed, InQuiet, Settled
<1> QED BY <1>2, <1>3 DEF Inv

\* Every step preserves the invariant.
LEMMA NextInv == Inv /\ [Next]_vars => Inv'
BY SkipKeeps, StartKeeps, RunSubtestKeeps, StopKeeps, HangKeeps, FinishKeeps,
   CherryKeeps, ResumeKeeps, MarkLastKeeps, InterpretKeeps, StutterKeeps DEF Next

\* The invariant holds of every behaviour.
LEMMA InvHolds == Spec => []Inv
BY InitInv, NextInv, PTL DEF Spec

-----------------------------------------------------------------------------
\* However the subtests behave, cur_sub stays inside self._expected and no
\* subtest is begun more than twice.
THEOREM TypeCorrect == Spec => []TypeOK
<1>1. Inv => TypeOK
  BY DEF Inv
<1> QED BY <1>1, InvHolds, PTL

\* Every subtest of a test that was not given up has the status it deserves.
THEOREM EveryoneJudged == Spec => []EverySubtestJudged
<1>1. Inv => EverySubtestJudged
  BY DEF Inv
<1> QED BY <1>1, InvHolds, PTL

\* No subtest runs twice unless it stopped a process before its name was out.
THEOREM NobodyRepeated == Spec => []NoneRepeated
<1>1. Inv => NoneRepeated
  BY DEF Inv
<1> QED BY <1>1, InvHolds, PTL
=============================================================================
