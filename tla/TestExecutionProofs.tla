------------------------- MODULE TestExecutionProofs -------------------------
(***************************************************************************)
(* Proofs about TestExecution: for any number of tests of any class, with  *)
(* any outputs and any number of attempts, the loggers count what the      *)
(* tests did, no test leaves a process of its own behind, and a pass was   *)
(* earned.                                                                 *)
(*                                                                         *)
(* The first two rest on where a thread is.  Where ties the processes of a *)
(* test to the place of its thread: a leader that is not waited for exists *)
(* exactly between Popen and the return of communicate(), and only a       *)
(* running leader can fork the helper that holds the pipes.                *)
(*                                                                         *)
(* The third rests on what a result can be at each place.  ResultsInv says *)
(* that it is as it was made until it is interpreted, that a test is       *)
(* interpreted only with the return code of a process, and that from then  *)
(* on a pass is earned; the lemmas before it say the last of each          *)
(* interpret_result and of update_dmesg.                                   *)
(***************************************************************************)
EXTENDS TestExecution, StatusProofs, FiniteSetTheorems, TLAPS

Where ==
    \A t \in Tests :
        /\ at[t] \in {"communicate", "terminate", "poll", "kill"} =>
              leader[t] \in {"running", "zombie"}
        /\ at[t] = "drain" => leader[t] \in {"zombie", "reaped"}
        /\ at[t] \notin InProcess => leader[t] \in {"none", "reaped"} /\ helper[t] # "piped"

Shape ==
    /\ at \in [Tests -> Places]
    /\ leader \in [Tests -> {"none", "running", "zombie", "reaped"}]
    /\ helper \in [Tests -> {"none", "piped", "silent"}]
    /\ DOMAIN result = Tests
    /\ DOMAIN summary = SummaryKeys

Inv == Shape /\ Where /\ LogCounts

(* A step of one test other than its Log. *)
Quiet(t) ==
    \/ Start(t) \/ Prepare(t) \/ CheckSkip(t) \/ Spawn(t) \/ Communicate(t) \/ Timeout(t)
    \/ Terminate(t) \/ Poll(t) \/ Kill(t) \/ Drain(t) \/ Interpret(t) \/ Check(t) \/ Process(t)

(* What such a step leaves alone: the other tests, and what the loggers    *)
(* have counted.                                                           *)
Alone(t) ==
    /\ \A u \in Tests \ {t} : /\ at'[u] = at[u] /\ result'[u] = result[u]
                              /\ leader'[u] = leader[u] /\ helper'[u] = helper[u]
    /\ execute' = execute /\ logger' = logger
Uncounted(t) ==
    /\ \/ ~Ended(t) /\ at'[t] \notin {"done", "lost"}
       \/ at'[t] = at[t] /\ result'[t] = result[t]
    /\ complete' = complete /\ summary' = summary
    /\ running' = IF at[t] = "idle" /\ at'[t] # "idle" THEN running \cup {t} ELSE running
    /\ at'[t] = "idle" => at[t] = "idle"

LEMMA QuietStep ==
  ASSUME Shape, Where, NEW t \in Tests, Quiet(t)
  PROVE  Shape' /\ Where' /\ Alone(t) /\ Uncounted(t)
<1>. USE DEF Shape, Where, Alone, Uncounted, Places, InProcess, Ended, Goto, procs, logs, options
<1>1. CASE Start(t)
  BY <1>1 DEF Start
<1>2. CASE Prepare(t)
  BY <1>2 DEF Prepare, Except
<1>3. CASE CheckSkip(t)
  BY <1>3 DEF CheckSkip, RunError
<1>4. CASE Spawn(t)
  BY <1>4 DEF Spawn, RunError, Except
<1>5. CASE Communicate(t)
  BY <1>5 DEF Communicate, RunError, Reap, PipesClosed
<1>6. CASE Timeout(t)
  BY <1>6 DEF Timeout
<1>7. CASE Terminate(t)
  BY <1>7 DEF Terminate
<1>8. CASE Poll(t)
  BY <1>8 DEF Poll, Reap
<1>9. CASE Kill(t)
  BY <1>9 DEF Kill, SignalGroup
<1>10. CASE Drain(t)
  BY <1>10 DEF Drain, RunError, Except, Reap
<1>11. CASE Interpret(t)
  BY <1>11 DEF Interpret
<1>12. CASE Check(t)
  BY <1>12 DEF Check, Except
<1>13. CASE Process(t)
  BY <1>13 DEF Process, Fork, LeaderExits, HelperExits
<1>. QED
  BY <1>1, <1>2, <1>3, <1>4, <1>5, <1>6, <1>7, <1>8, <1>9, <1>10, <1>11, <1>12, <1>13 DEF Quiet

(* A step that no test has ended in leaves the counts as they are. *)
LEMMA QuietCounts ==
  ASSUME Shape, Shape', LogCounts, NEW t \in Tests, Alone(t), Uncounted(t)
  PROVE  LogCounts'
<1>1. {u \in Tests : Ended(u)}' = {u \in Tests : Ended(u)}
  BY DEF Alone, Uncounted, Ended
<1>2. ASSUME NEW s \in SummaryKeys
      PROVE  {u \in Tests : at[u] = "done" /\ Status(u) = s}'
               = {u \in Tests : at[u] = "done" /\ Status(u) = s}
  BY DEF Alone, Uncounted, Ended, Status
<1>3. running' = {u \in Tests : at[u] \notin {"idle", "done"} /\ (logger = "http" => at[u] # "lost")}'
  BY DEF Alone, Uncounted, Ended, LogCounts
<1>. QED
  BY <1>1, <1>2, <1>3 DEF LogCounts, Uncounted

(* Logging counts the test once, under its status if the summary has one. *)
LEMMA LogStep ==
  ASSUME Shape, Where, LogCounts, NEW t \in Tests, Log(t)
  PROVE  Shape' /\ Where' /\ LogCounts'
<1>. USE DEF Goto, procs, options
<1>1. Shape' /\ Where'
  BY DEF Shape, Where, Log, Places, InProcess
<1>2. /\ at[t] = "log" /\ result' = result /\ execute' = execute /\ logger' = logger
      /\ complete' = complete + 1
      /\ \A u \in Tests \ {t} : at'[u] = at[u]
  BY DEF Log, Shape, Completed
<1>3. ASSUME NEW u \in Tests PROVE Status(u)' = Status(u)
  BY <1>2 DEF Status
<1>. DEFINE E == {u \in Tests : Ended(u)}
            D(s) == {u \in Tests : at[u] = "done" /\ Status(u) = s}
<1>4. IsFiniteSet(E) /\ \A s \in SummaryKeys : IsFiniteSet(D(s))
  BY TestsAssumption, FS_Subset
<1>5. E' = E \cup {t} /\ t \notin E
  BY <1>2 DEF Log, Shape, Ended
<1>6. complete' = Cardinality(E')
  BY <1>2, <1>4, <1>5, FS_AddElement DEF LogCounts
<1>7. CASE Status(t) \in SummaryKeys
  <2>1. at'[t] = "done" /\ summary' = [summary EXCEPT ![Status(t)] = @ + 1] /\ running' = running \ {t}
    BY <1>2, <1>7 DEF Log, Shape
  <2>2. ASSUME NEW s \in SummaryKeys PROVE summary'[s] = Cardinality(D(s)')
    <3>1. CASE s = Status(t)
      <4>1. D(s)' = D(s) \cup {t} /\ t \notin D(s)
        BY <1>2, <1>3, <2>1, <3>1
      <4>2. summary'[s] = summary[s] + 1
        BY <2>1, <3>1, <1>7 DEF Shape
      <4>. QED
        BY <4>1, <4>2, <1>4, FS_AddElement DEF LogCounts
    <3>2. CASE s # Status(t)
      <4>1. D(s)' = D(s)
        BY <1>2, <1>3, <2>1, <3>2
      <4>2. summary'[s] = summary[s]
        BY <2>1, <3>2 DEF Shape
      <4>. QED
        BY <4>1, <4>2 DEF LogCounts
    <3>. QED
      BY <3>1, <3>2
  <2>3. running' = {u \in Tests : at[u] \notin {"idle", "done"} /\ (logger = "http" => at[u] # "lost")}'
    BY <1>2, <2>1 DEF LogCounts
  <2>. QED
    BY <1>1, <1>6, <2>2, <2>3 DEF LogCounts
<1>8. CASE Status(t) \notin SummaryKeys
  <2>1. /\ at'[t] = "lost" /\ summary' = summary
        /\ running' = IF logger = "http" THEN running \ {t} ELSE running
    BY <1>2, <1>8 DEF Log, Shape
  <2>2. ASSUME NEW s \in SummaryKeys PROVE D(s)' = D(s)
    BY <1>2, <1>3, <2>1
  <2>3. running' = {u \in Tests : at[u] \notin {"idle", "done"} /\ (logger = "http" => at[u] # "lost")}'
    BY <1>2, <2>1 DEF LogCounts
  <2>4. \A s \in SummaryKeys : summary'[s] = Cardinality(D(s)')
    BY <2>1, <2>2 DEF LogCounts
  <2>. QED
    BY <1>1, <1>6, <2>3, <2>4 DEF LogCounts
<1>. QED
  BY <1>7, <1>8

LEMMA InitInv ==
  ASSUME Init
  PROVE  Inv
<1>1. Shape /\ Where
  BY DEF Init, Shape, Where, Places, InProcess
<1>2. {u \in Tests : Ended(u)} = {} /\ \A s : {u \in Tests : at[u] = "done" /\ Status(u) = s} = {}
  BY DEF Init, Ended
<1>3. \A s \in SummaryKeys : summary[s] = 0
  BY DEF Init
<1>4. running = {u \in Tests : at[u] \notin {"idle", "done"} /\ (logger = "http" => at[u] # "lost")}
  BY DEF Init
<1>. QED
  BY <1>1, <1>2, <1>3, <1>4, FS_EmptySet DEF Inv, LogCounts, Init

LEMMA NextInv ==
  ASSUME Inv, [Next]_vars
  PROVE  Inv'
<1>1. ASSUME NEW t \in Tests, Quiet(t) PROVE Inv'
  BY <1>1, QuietStep, QuietCounts DEF Inv
<1>2. ASSUME NEW t \in Tests, Log(t) PROVE Inv'
  BY <1>2, LogStep DEF Inv
<1>3. ASSUME UNCHANGED <<at, result, procs, options, logs>> PROVE Inv'
  <2>. SUFFICES /\ at' = at /\ result' = result /\ leader' = leader /\ helper' = helper
                /\ execute' = execute /\ logger' = logger
                /\ complete' = complete /\ running' = running /\ summary' = summary
                => Inv'
    BY <1>3 DEF procs, options, logs
  <2>. QED
    BY DEF Inv, Shape, Where, LogCounts, Ended, Status
<1>. QED
  BY <1>1, <1>2, <1>3 DEF Next, Thread, Quiet, Server, ServerCheck, Request, Reply, vars

(* The counts of the loggers are those of the tests that ended, and the    *)
(* list of running tests is what QuietLog._log and HTTPLog.log make it.    *)
THEOREM LogsCountTests == Spec => []LogCounts
<1>1. Spec => []Inv
  BY InitInv, NextInv, PTL DEF Spec
<1>. QED
  BY <1>1, PTL DEF Inv

(* Whatever the processes do, a thread that is not inside _run_command has *)
(* waited for its leader and is not read by a helper.                      *)
THEOREM NoProcessLeft == Spec => []NothingLeftBehind
<1>1. Spec => []Inv
  BY InitInv, NextInv, PTL DEF Spec
<1>2. Inv => NothingLeftBehind
  BY DEF Inv, Where, NothingLeftBehind
<1>. QED
  BY <1>1, <1>2, PTL

-------------------------------------------------------------------------------
(***************************************************************************)
(* What a test reports.  A result is a record whose subtests are a         *)
(* sequence; until it is interpreted nothing is known of it, and whatever  *)
(* makes a pass of it has seen a process return.                           *)
(***************************************************************************)
IsSubtest(s) == s = [name |-> s.name, status |-> s.status]
IsResult(r) == /\ r = [raw |-> r.raw, subtests |-> r.subtests, code |-> r.code, exc |-> r.exc]
               /\ r.subtests \in Seq(ToSet(r.subtests))
               /\ \A i \in DOMAIN r.subtests : IsSubtest(r.subtests[i])
Unset(r) == r.raw = "notrun" /\ \A i \in DOMAIN r.subtests : r.subtests[i].status = "notrun"

Earned(r) == /\ r.code # NoCode
             /\ r.subtests = <<>> => r.code = 0
             /\ IsCrash(r.code) => r.raw = "skip" \/ r.exc
PassEarned(r) == ResultOf(r) = "pass" => Earned(r)

(* The subtests alone, which an exception leaves to speak for the test.    *)
SubtestsEarned(r) == ResultOf(Failed(r)) = "pass" => r.code # NoCode

LEMMA SeqOfSubtests ==
    ASSUME NEW s, NEW S, s \in Seq(S)
    PROVE  s \in Seq(ToSet(s)) /\ DOMAIN s = 1..Len(s) /\ Len(s) \in Nat
BY DEF ToSet

LEMMA TwoFields ==
    ASSUME NEW r, IsResult(r), NEW a, NEW b
    PROVE  [r EXCEPT !.raw = a, !.subtests = b] = [raw |-> a, subtests |-> b, code |-> r.code, exc |-> r.exc]
<1>. DEFINE q == [r EXCEPT !.raw = a, !.subtests = b]
<1>1. DOMAIN r = {"raw", "subtests", "code", "exc"}
  BY DEF IsResult
<1>2. DOMAIN q = {"raw", "subtests", "code", "exc"}
  BY <1>1
<1>3. q = [x \in {"raw", "subtests", "code", "exc"} |-> q[x]]
  BY <1>2
<1>4. q.raw = a /\ q.subtests = b /\ q.code = r.code /\ q.exc = r.exc
  BY <1>1
<1>. HIDE DEF q
<1>5. q = [raw |-> a, subtests |-> b, code |-> r.code, exc |-> r.exc]
  BY <1>3, <1>4
<1>. QED  BY <1>5 DEF q

\* No pass comes of a result that holds none.
LEMMA NoPassInside ==
    ASSUME NEW r, IsResult(r), r.raw # "pass",
           \A i \in DOMAIN r.subtests : r.subtests[i].status # "pass"
    PROVE  ResultOf(r) # "pass"
<1>. DEFINE S == {r.subtests[i].status : i \in DOMAIN r.subtests}
            seq == StatusesOf(r.subtests)
<1>1. r.subtests # <<>> => seq \in Seq(S) /\ seq # <<>>
  <2>1. DOMAIN r.subtests = 1..Len(r.subtests) /\ Len(r.subtests) \in Nat
    BY SeqOfSubtests DEF IsResult
  <2>2. seq = [i \in 1..Len(r.subtests) |-> r.subtests[i].status]
    BY <2>1 DEF StatusesOf
  <2>3. r.subtests # <<>> => Len(r.subtests) # 0
    BY DEF IsResult
  <2>. QED  BY <2>1, <2>2, <2>3
<1>2. "pass" \notin S
  OBVIOUS
<1>. HIDE DEF S, seq
<1>3. r.subtests # <<>> => Worst(seq) \in S
  BY <1>1, WorstIsOne
<1>. QED  BY <1>2, <1>3 DEF ResultOf, seq

\* The except clause of execute.
LEMMA FailedFields ==
    ASSUME NEW r, IsResult(r)
    PROVE  Failed(r) = [raw |-> "fail", subtests |-> r.subtests, code |-> r.code, exc |-> TRUE]
<1>. DEFINE q == Failed(r)
<1>1. DOMAIN r = {"raw", "subtests", "code", "exc"}
  BY DEF IsResult
<1>2. q = [x \in {"raw", "subtests", "code", "exc"} |-> q[x]]
  BY <1>1 DEF Failed
<1>3. q.raw = "fail" /\ q.subtests = r.subtests /\ q.code = r.code /\ q.exc = TRUE
  BY <1>1 DEF Failed
<1>. HIDE DEF q
<1>4. q = [raw |-> "fail", subtests |-> r.subtests, code |-> r.code, exc |-> TRUE]
  BY <1>2, <1>3
<1>. QED  BY <1>4 DEF q

LEMMA ExceptEarns ==
    ASSUME NEW r, IsResult(r), SubtestsEarned(r)
    PROVE  Failed(r).exc /\ PassEarned(Failed(r))
<1>1. Failed(r) = [raw |-> "fail", subtests |-> r.subtests, code |-> r.code, exc |-> TRUE]
  BY FailedFields
<1>2. r.subtests = <<>> => ResultOf(Failed(r)) = "fail"
  BY <1>1 DEF ResultOf
<1>3. Failed(r).exc /\ Failed(r).code = r.code /\ Failed(r).subtests = r.subtests
  BY <1>1
<1>. QED  BY <1>2, <1>3 DEF PassEarned, Earned, SubtestsEarned

LEMMA UnsetEarns ==
    ASSUME NEW r, IsResult(r), \A i \in DOMAIN r.subtests : r.subtests[i].status # "pass"
    PROVE  SubtestsEarned(r)
<1>1. Failed(r) = [raw |-> "fail", subtests |-> r.subtests, code |-> r.code, exc |-> TRUE]
  BY FailedFields
<1>2. IsResult(Failed(r)) /\ Failed(r).raw = "fail" /\ Failed(r).subtests = r.subtests
  BY <1>1 DEF IsResult
<1>3. ResultOf(Failed(r)) # "pass"
  BY <1>2, NoPassInside
<1>. QED  BY <1>3 DEF SubtestsEarned

\* Setting every subtest.
LEMMA Rewritten ==
    ASSUME NEW r, IsResult(r), NEW raw, NEW code, NEW exc, NEW f, DOMAIN f = DOMAIN r.subtests,
           \A i \in DOMAIN f : IsSubtest(f[i])
    PROVE  IsResult([raw |-> raw, subtests |-> [i \in DOMAIN r.subtests |-> f[i]], code |-> code, exc |-> exc])
<1>1. [i \in DOMAIN r.subtests |-> f[i]] \in Seq({f[i] : i \in DOMAIN f})
  BY SeqOfSubtests DEF IsResult
<1>2. DOMAIN [i \in DOMAIN r.subtests |-> f[i]] = DOMAIN f
  OBVIOUS
<1>. QED  BY <1>1, <1>2, SeqOfSubtests DEF IsResult

\* TestIsSkip and TestRunError.
LEMMA AllSet ==
    ASSUME NEW r, IsResult(r), NEW s, s # "pass"
    PROVE  IsResult(Errored(r, s)) /\ PassEarned(Errored(r, s)) /\ SubtestsEarned(Errored(r, s))
<1>. DEFINE f == SetAll(r.subtests, s)
            q == [raw |-> s, subtests |-> f, code |-> NoCode, exc |-> r.exc]
<1>0. Errored(r, s) = q
  <2>. DEFINE e == Errored(r, s)
  <2>1. DOMAIN e = {"raw", "subtests", "code", "exc"}
    BY DEF IsResult, Errored
  <2>2. e = [x \in {"raw", "subtests", "code", "exc"} |-> e[x]]
    BY <2>1 DEF Errored
  <2>3. e.raw = s /\ e.subtests = f /\ e.code = NoCode /\ e.exc = r.exc
    BY DEF IsResult, Errored
  <2>. HIDE DEF e
  <2>. QED  BY <2>2, <2>3 DEF e
<1>1. DOMAIN f = DOMAIN r.subtests /\ \A i \in DOMAIN f : f[i].status = s /\ IsSubtest(f[i])
  BY DEF SetAll, IsResult, IsSubtest
<1>2. f = [i \in DOMAIN r.subtests |-> f[i]]
  BY DEF SetAll
<1>. HIDE DEF f
<1>3. IsResult(q)
  BY <1>1, <1>2, Rewritten
<1>4. ResultOf(q) # "pass"
  BY <1>1, <1>3, NoPassInside
<1>5. SubtestsEarned(q)
  BY <1>1, <1>3, UnsetEarns
<1>. QED  BY <1>0, <1>3, <1>4, <1>5 DEF PassEarned

\* What dmesg makes of a result.
LEMMA DmesgEarns ==
    ASSUME NEW r, IsResult(r)
    PROVE  IsResult(WithDmesg(r)) /\ PassEarned(WithDmesg(r))
<1>. DEFINE f == ReplaceSubtests(r.subtests)
            q == [raw |-> Replace(ResultOf(r)), subtests |-> f, code |-> r.code, exc |-> r.exc]
<1>1. WithDmesg(r) = q
  BY TwoFields DEF WithDmesg
<1>2. \A s : Replace(s) # "pass"
  BY DEF Replace
<1>3. DOMAIN f = DOMAIN r.subtests /\ \A i \in DOMAIN f : f[i].status # "pass" /\ IsSubtest(f[i])
  BY <1>2 DEF IsResult, IsSubtest, ReplaceSubtests
<1>4. f = [i \in DOMAIN r.subtests |-> f[i]]
  BY DEF ReplaceSubtests
<1>. HIDE DEF f
<1>5. IsResult(q)
  BY <1>3, <1>4, Rewritten
<1>6. ResultOf(q) # "pass"
  BY <1>2, <1>3, <1>5, NoPassInside
<1>. QED  BY <1>1, <1>5, <1>6 DEF PassEarned

-------------------------------------------------------------------------------
(* The lines of an output change the stored result and the subtests.       *)
LEMMA SubtestSet ==
    ASSUME NEW r, IsResult(r), NEW name, NEW s
    PROVE  IsResult([r EXCEPT !.subtests = SetSubtest(@, name, s)])
<1>. DEFINE n == Len(r.subtests)
            x == [name |-> name, status |-> s]
            T == SetSubtest(r.subtests, name, s)
<1>1. DOMAIN r.subtests = 1..n /\ n \in Nat /\ r.subtests \in Seq(ToSet(r.subtests))
  BY SeqOfSubtests DEF IsResult
<1>2. IsSubtest(x)
  BY DEF IsSubtest
<1>3. T \in Seq(ToSet(T)) /\ \A i \in DOMAIN T : IsSubtest(T[i])
  <2>1. CASE \E i \in DOMAIN r.subtests : r.subtests[i].name = name
    <3>1. T = [i \in 1..n |-> IF r.subtests[i].name = name THEN x ELSE r.subtests[i]]
      BY <1>1, <2>1 DEF SetSubtest
    <3>. HIDE DEF T, x, n
    <3>2. T \in Seq(ToSet(r.subtests) \cup {x})
      BY <1>1, <3>1 DEF ToSet
    <3>. QED  BY <1>1, <1>2, <3>1, <3>2, SeqOfSubtests DEF IsResult
  <2>2. CASE ~ \E i \in DOMAIN r.subtests : r.subtests[i].name = name
    <3>1. T = Append(r.subtests, x)
      BY <2>2 DEF SetSubtest
    <3>. HIDE DEF T, x, n
    <3>2. r.subtests \in Seq(ToSet(r.subtests) \cup {x})
      BY <1>1 DEF ToSet
    <3>3. T \in Seq(ToSet(r.subtests) \cup {x}) /\ DOMAIN T = 1..(n + 1)
          /\ T[n + 1] = x /\ \A i \in 1..n : T[i] = r.subtests[i]
      BY <1>1, <3>1, <3>2 DEF n
    <3>. QED  BY <1>1, <1>2, <3>3, SeqOfSubtests DEF IsResult
  <2>. QED  BY <2>1, <2>2
<1>4. [r EXCEPT !.subtests = SetSubtest(@, name, s)]
        = [raw |-> r.raw, subtests |-> T, code |-> r.code, exc |-> r.exc]
  BY DEF IsResult
<1>. HIDE DEF T
<1>. QED  BY <1>3, <1>4 DEF IsResult

LEMMA LineRead ==
    ASSUME NEW r, IsResult(r), NEW line
    PROVE  IsResult(ReadLine(r, line)) /\ ReadLine(r, line).code = r.code
<1>1. CASE line.kind = "result"
  <2>1. ReadLine(r, line) = [r EXCEPT !.raw = line.status]
    BY <1>1 DEF ReadLine
  <2>. QED  BY <2>1 DEF IsResult
<1>2. CASE line.kind = "subtest"
  <2>1. ReadLine(r, line) = [r EXCEPT !.subtests = SetSubtest(@, line.name, line.status)]
    BY <1>2 DEF ReadLine
  <2>2. ReadLine(r, line).code = r.code
    BY <2>1 DEF IsResult
  <2>. QED  BY <2>1, <2>2, SubtestSet
<1>3. CASE line.kind \notin {"result", "subtest"}
  <2>1. ReadLine(r, line) = r
    BY <1>3 DEF ReadLine
  <2>. QED  BY <2>1
<1>. QED  BY <1>1, <1>2, <1>3

\* The result after each of the first n lines.
ReadUpTo(r, lines, n, f) == f = [i \in 0..n |-> IF i = 0 THEN r ELSE ReadLine(f[i - 1], lines[i])]

LEMMA ReadingExists ==
    ASSUME NEW r, NEW lines, Len(lines) \in Nat
    PROVE  \E f : ReadUpTo(r, lines, Len(lines), f)
<1>. DEFINE T == {n \in Nat : ~ \E f : ReadUpTo(r, lines, n, f)}
<1>1. ASSUME NEW n \in T PROVE \E k \in T : k < n
  <2>1. CASE n = 0
    <3>. DEFINE f == [i \in 0..0 |-> r]
    <3>1. ReadUpTo(r, lines, 0, f)
      BY DEF ReadUpTo
    <3>. QED  BY <2>1, <3>1
  <2>2. CASE n # 0
    <3>. SUFFICES ASSUME n - 1 \notin T PROVE FALSE
      <4>1. n - 1 \in T => n - 1 < n
        OBVIOUS
      <4>. QED  BY <4>1
    <3>1. n \in Nat /\ n - 1 \in Nat
      BY <2>2
    <3>2. PICK g : ReadUpTo(r, lines, n - 1, g)
      BY <3>1
    <3>. DEFINE f == [i \in 0..n |-> IF i = n THEN ReadLine(g[n - 1], lines[n]) ELSE g[i]]
    <3>3. ReadUpTo(r, lines, n, f)
      <4>1. f = [i \in 0..n |-> f[i]]
        OBVIOUS
      <4>2. ASSUME NEW i \in 0..n
            PROVE  f[i] = IF i = 0 THEN r ELSE ReadLine(f[i - 1], lines[i])
        <5>1. CASE i = n
          <6>1. i # 0 /\ f[i - 1] = g[i - 1]
            BY <2>2, <3>1, <5>1
          <6>. QED  BY <5>1, <6>1
        <5>2. CASE i # n
          <6>1. i \in 0..(n - 1) /\ f[i] = g[i] /\ (i # 0 => f[i - 1] = g[i - 1])
            BY <3>1, <5>2
          <6>. QED  BY <3>2, <6>1 DEF ReadUpTo
        <5>. QED  BY <5>1, <5>2
      <4>. HIDE DEF f
      <4>. QED  BY <4>1, <4>2 DEF ReadUpTo
    <3>. HIDE DEF f
    <3>. QED  BY <3>3
  <2>. QED  BY <2>1, <2>2
<1>2. T = {}
  <2>1. T \in SUBSET Nat
    OBVIOUS
  <2>. HIDE DEF T
  <2>. QED  BY <1>1, <2>1, NoLeast
<1>. QED  BY <1>2

LEMMA OutputRead ==
    ASSUME NEW r, IsResult(r), NEW lines, Len(lines) \in Nat
    PROVE  IsResult(ReadOutput(r, lines)) /\ ReadOutput(r, lines).code = r.code
<1>. DEFINE f == CHOOSE f : ReadUpTo(r, lines, Len(lines), f)
<1>1. ReadOutput(r, lines) = f[Len(lines)]
  BY DEF ReadOutput, ReadUpTo
<1>2. ReadUpTo(r, lines, Len(lines), f)
  BY ReadingExists
<1>. HIDE DEF f
<1>4. \A n \in 0..Len(lines) : f[n] = IF n = 0 THEN r ELSE ReadLine(f[n - 1], lines[n])
  BY <1>2 DEF ReadUpTo
<1>. DEFINE T == {n \in 0..Len(lines) : ~ (IsResult(f[n]) /\ f[n].code = r.code)}
<1>5. ASSUME NEW n \in T PROVE \E k \in T : k < n
  <2>1. n # 0
    BY <1>4
  <2>2. n - 1 \in 0..Len(lines) /\ n - 1 < n
    BY <2>1
  <2>3. f[n] = ReadLine(f[n - 1], lines[n])
    BY <1>4, <2>1
  <2>4. ~ (IsResult(f[n - 1]) /\ f[n - 1].code = r.code)
    BY <2>3, LineRead
  <2>. QED  BY <2>2, <2>4
<1>6. T = {}
  <2>1. T \in SUBSET Nat
    OBVIOUS
  <2>. HIDE DEF T
  <2>. QED  BY <1>5, <2>1, NoLeast
<1>. QED  BY <1>1, <1>6

-------------------------------------------------------------------------------
(* What the classes make of a return code.                                 *)
LEMMA CrashMarked ==
    ASSUME NEW r, IsResult(r)
    PROVE  IsResult([r EXCEPT !.raw = "crash", !.subtests = MarkCrashed(@)])
<1>. DEFINE k == FirstNotRun(r.subtests)
            f == MarkCrashed(r.subtests)
<1>1. DOMAIN f = DOMAIN r.subtests /\ f = [i \in DOMAIN r.subtests |-> f[i]]
      /\ \A i \in DOMAIN f : IsSubtest(f[i])
  <2>1. CASE k = 0
    <3>1. f = r.subtests
      BY <2>1 DEF MarkCrashed
    <3>. HIDE DEF f
    <3>. QED  BY <3>1, SeqOfSubtests DEF IsResult
  <2>2. CASE k # 0
    <3>1. f = [r.subtests EXCEPT ![k].status = "crash"]
      BY <2>2 DEF MarkCrashed
    <3>. HIDE DEF f, k
    <3>. QED  BY <3>1 DEF IsResult, IsSubtest
  <2>. QED  BY <2>1, <2>2
<1>. HIDE DEF f
<1>2. IsResult([raw |-> "crash", subtests |-> [i \in DOMAIN r.subtests |-> f[i]], code |-> r.code, exc |-> r.exc])
  BY <1>1, Rewritten
<1>. QED  BY <1>1, <1>2, TwoFields DEF f

LEMMA RawSet ==
    ASSUME NEW r, IsResult(r), NEW a
    PROVE  /\ IsResult([r EXCEPT !.raw = a]) /\ [r EXCEPT !.raw = a].raw = a
           /\ [r EXCEPT !.raw = a].code = r.code /\ [r EXCEPT !.raw = a].subtests = r.subtests
<1>1. [r EXCEPT !.raw = a] = [raw |-> a, subtests |-> r.subtests, code |-> r.code, exc |-> r.exc]
  BY DEF IsResult
<1>. HIDE DEF IsResult
<1>2. [r EXCEPT !.raw = a].subtests = r.subtests /\ [r EXCEPT !.raw = a].raw = a
      /\ [r EXCEPT !.raw = a].code = r.code /\ [r EXCEPT !.raw = a].exc = r.exc
  BY <1>1
<1>. QED  BY <1>1, <1>2 DEF IsResult

LEMMA BaseEarns ==
    ASSUME NEW r, IsResult(r), r.code \in Int \ {NoCode}
    PROVE  /\ IsResult(Base(r)) /\ Base(r).code = r.code
           /\ r.code < 0 => Base(r).raw = "crash"
           /\ r.code = 0 => Base(r) = r
           /\ r.code > 0 => Base(r).raw \in {"warn", "fail"}
<1>1. CASE r.code < 0
  <2>1. Base(r) = [r EXCEPT !.raw = "crash", !.subtests = MarkCrashed(@)]
    BY <1>1 DEF Base, IsCrash
  <2>2. Base(r).raw = "crash" /\ Base(r).code = r.code
    BY <2>1, TwoFields
  <2>3. IsResult(Base(r))
    BY <2>1, CrashMarked, Zenon
  <2>. QED  BY <1>1, <2>2, <2>3
<1>2. CASE r.code = 0
  BY <1>2 DEF Base, IsCrash
<1>3. CASE r.code > 0
  <2>1. PICK a \in {"warn", "fail"} : Base(r) = [r EXCEPT !.raw = a]
    BY <1>3 DEF Base, IsCrash
  <2>. QED  BY <1>3, <2>1, RawSet
<1>. QED  BY <1>1, <1>2, <1>3

\* A pass of a result with a stored status is that status, or its subtests'.
LEMMA RawOrSubtests ==
    ASSUME NEW r, IsResult(r), ResultOf(r) = "pass"
    PROVE  r.raw # "crash" /\ (r.subtests = <<>> => r.raw = "pass")
BY DEF ResultOf

\* A line that is not JSON, or has no known status, raises.
LEMMA GarbageRaises ==
    ASSUME NEW r, IsResult(r), NEW valgrind, NEW lines, lines \in Seq(ToSet(lines)),
           FirstGarbage(lines) # 0
    PROVE  /\ IsResult(Native(valgrind, r, lines)) /\ Native(valgrind, r, lines).raw = Raised
           /\ Native(valgrind, r, lines).code = r.code
<1>. DEFINE k == FirstGarbage(lines)
            read == ReadOutput(r, SubSeq(lines, 1, k - 1))
<1>1. Native(valgrind, r, lines) = [read EXCEPT !.raw = Raised]
  BY DEF Native
<1>2. IsResult(read) /\ read.code = r.code
  <2>. DEFINE I == {i \in 1..Len(lines) : lines[i].kind = "garbage"}
  <2>1. I # {} => Min(I) \in I
    <3>1. I \in SUBSET Nat
      OBVIOUS
    <3>. HIDE DEF I
    <3>. QED  BY <3>1, MinOf
  <2>2. k = IF I # {} THEN Min(I) ELSE 0
    BY DEF FirstGarbage, SelectInSeq
  <2>3. k \in 1..Len(lines)
    BY <2>1, <2>2
  <2>4. Len(SubSeq(lines, 1, k - 1)) \in Nat
    BY <2>3
  <2>. QED  BY <2>4, OutputRead
<1>. HIDE DEF read
<1>3. /\ IsResult([read EXCEPT !.raw = Raised]) /\ [read EXCEPT !.raw = Raised].raw = Raised
      /\ [read EXCEPT !.raw = Raised].code = read.code
  BY <1>2, RawSet
<1>. QED  BY <1>1, <1>2, <1>3

LEMMA NativeReads ==
    ASSUME NEW r, IsResult(r), r.code \in Int \ {NoCode}, NEW valgrind, NEW lines, lines \in Seq(ToSet(lines)),
           FirstGarbage(lines) = 0
    PROVE  /\ IsResult(Native(valgrind, r, lines)) /\ PassEarned(Native(valgrind, r, lines))
           /\ Native(valgrind, r, lines).code = r.code
<1>. DEFINE s == ReadOutput(r, lines)
            q == SkipNotRun(s)
            b == Base(q)
            v == Native(valgrind, r, lines)
<1>1. IsResult(s) /\ s.code = r.code
  <2>1. Len(lines) \in Nat
    OBVIOUS
  <2>. QED  BY <2>1, OutputRead
<1>3. v = Valgrind(valgrind, q)
  BY DEF Native
<1>4. IsResult(q) /\ q.code = r.code
  <2>. HIDE DEF s
  <2>1. CASE s.raw # "skip"
    BY <1>1, <2>1 DEF SkipNotRun
  <2>2. CASE s.raw = "skip"
    <3>. DEFINE f == [i \in DOMAIN s.subtests |-> IF s.subtests[i].status = "notrun"
                        THEN [s.subtests[i] EXCEPT !.status = "skip"] ELSE s.subtests[i]]
    <3>1. q = [raw |-> s.raw, subtests |-> f, code |-> s.code, exc |-> s.exc]
      BY <1>1, <2>2 DEF SkipNotRun, IsResult
    <3>2. DOMAIN f = DOMAIN s.subtests /\ \A i \in DOMAIN f : IsSubtest(f[i])
      BY <1>1 DEF IsResult, IsSubtest
    <3>3. f = [i \in DOMAIN s.subtests |-> f[i]]
      OBVIOUS
    <3>. HIDE DEF f
    <3>5. IsResult([raw |-> s.raw, subtests |-> [i \in DOMAIN s.subtests |-> f[i]], code |-> s.code, exc |-> s.exc])
      BY <1>1, <3>2, Rewritten
    <3>4. IsResult(q)
      BY <3>1, <3>3, <3>5, Zenon
    <3>. QED  BY <1>1, <3>1, <3>4
  <2>. QED  BY <2>1, <2>2
<1>. HIDE DEF s, q
<1>5. /\ IsResult(b) /\ b.code = r.code
      /\ b.code < 0 => b.raw = "crash"
      /\ b.code > 0 => b.raw \in {"warn", "fail"}
  BY <1>4, BaseEarns
<1>. HIDE DEF b, v
<1>6. CASE ~ valgrind
  <2>1. v = b
    BY <1>3, <1>6 DEF Valgrind, b
  <2>. QED  BY <1>5, <2>1, RawOrSubtests DEF PassEarned, Earned, IsCrash, v
<1>7. CASE valgrind
  <2>. DEFINE raw == IF ResultOf(b) \notin {"pass", "warn"} /\ b.code # 0 THEN "skip"
                     ELSE IF b.code = 0 THEN "pass" ELSE "fail"
  <2>1. v = [b EXCEPT !.raw = raw]
    BY <1>3, <1>7 DEF Valgrind, b
  <2>2. b.code < 0 => raw = "skip"
    BY <1>5 DEF ResultOf
  <2>3. b.code # 0 => raw # "pass"
    OBVIOUS
  <2>. HIDE DEF raw
  <2>4. IsResult(v) /\ v.raw = raw /\ v.code = b.code /\ v.subtests = b.subtests
    BY <1>5, <2>1, RawSet
  <2>. QED  BY <1>5, <2>2, <2>3, <2>4, RawOrSubtests DEF PassEarned, Earned, IsCrash, v
<1>. QED  BY <1>6, <1>7

LEMMA NativeEarns ==
    ASSUME NEW r, IsResult(r), r.code \in Int \ {NoCode}, NEW valgrind, NEW lines, lines \in Seq(ToSet(lines))
    PROVE  /\ IsResult(Native(valgrind, r, lines)) /\ Native(valgrind, r, lines).code = r.code
           /\ Native(valgrind, r, lines).raw # Raised => PassEarned(Native(valgrind, r, lines))
BY GarbageRaises, NativeReads

\* Where a crash is stored, and a pass only with the return code 0.
LEMMA PlainEarns ==
    ASSUME NEW v, IsResult(v), v.code \in Int \ {NoCode}, v.code < 0 => v.raw = "crash",
           v.raw = "pass" => v.code = 0
    PROVE  PassEarned(v)
BY RawOrSubtests DEF PassEarned, Earned, IsCrash

LEMMA DeqpEarns ==
    ASSUME NEW r, IsResult(r), r.code \in Int \ {NoCode}, NEW lines
    PROVE  IsResult(Deqp(r, lines)) /\ PassEarned(Deqp(r, lines)) /\ Deqp(r, lines).code = r.code
<1>. DEFINE v == Deqp(r, lines)
<1>1. PICK a : /\ v = [r EXCEPT !.raw = a]
               /\ r.code < 0 => a = "crash"
               /\ a = "pass" => r.code = 0
  <2>. DEFINE raw == IF IsCrash(r.code) THEN "crash"
                     ELSE IF r.code # 0 THEN "fail"
                     ELSE IF DeqpWord(lines) # 0 THEN DeqpMap[lines[DeqpWord(lines)].word] ELSE ResultOf(r)
              a == IF raw = "notrun" THEN "fail" ELSE raw
  <2>1. v = [r EXCEPT !.raw = a]
    BY DEF Deqp
  <2>2. (r.code < 0 => a = "crash") /\ (a = "pass" => r.code = 0)
    BY DEF IsCrash
  <2>. HIDE DEF a, v
  <2>. QED  BY <2>1, <2>2
<1>. HIDE DEF v
<1>2. IsResult(v) /\ v.raw = a /\ v.code = r.code
  BY <1>1, RawSet
<1>3. PassEarned(v)
  BY <1>1, <1>2, PlainEarns
<1>. QED  BY <1>2, <1>3 DEF v

LEMMA GTestEarns ==
    ASSUME NEW r, IsResult(r), r.code \in Int \ {NoCode}, NEW lines
    PROVE  IsResult(GTest(r, lines)) /\ PassEarned(GTest(r, lines)) /\ GTest(r, lines).code = r.code
<1>. DEFINE a == IF "FAILED" \in Words(lines) THEN "fail"
                 ELSE IF "PASSED" \in Words(lines) THEN "pass" ELSE "fail"
            q == [r EXCEPT !.raw = a]
            v == Base(q)
<1>1. GTest(r, lines) = v
  BY DEF GTest
<1>. HIDE DEF a
<1>2. IsResult(q) /\ q.code = r.code
  BY RawSet
<1>. HIDE DEF q
<1>3. IsResult(v) /\ v.code = r.code /\ (v.code < 0 => v.raw = "crash") /\ (v.code > 0 => v.raw \in {"warn", "fail"})
  BY <1>2, BaseEarns
<1>. HIDE DEF v
<1>4. PassEarned(v)
  BY <1>3, PlainEarns
<1>. QED  BY <1>1, <1>3, <1>4

LEMMA OCLConformEarns ==
    ASSUME NEW r, IsResult(r), Unset(r), r.code \in Int \ {NoCode}, NEW lines
    PROVE  IsResult(OCLConform(r, lines)) /\ PassEarned(OCLConform(r, lines)) /\ OCLConform(r, lines).code = r.code
<1>. DEFINE a == IF r.code # 0 \/ "FAIL" \in Words(lines) THEN "fail" ELSE "pass"
            v == [r EXCEPT !.raw = a]
<1>1. OCLConform(r, lines) = v
  BY DEF OCLConform
<1>2. r.code # 0 => a = "fail"
  OBVIOUS
<1>. HIDE DEF a
<1>3. IsResult(v) /\ v.raw = a /\ v.code = r.code /\ v.subtests = r.subtests
  BY RawSet
<1>. HIDE DEF v
<1>4. CASE r.code # 0
  <2>1. ResultOf(v) # "pass"
    BY <1>2, <1>3, <1>4, NoPassInside DEF Unset
  <2>. QED  BY <1>1, <1>3, <2>1 DEF PassEarned
<1>5. CASE r.code = 0
  BY <1>1, <1>3, <1>5 DEF PassEarned, Earned, IsCrash
<1>. QED  BY <1>1, <1>3, <1>4, <1>5

LEMMA XTSEarns ==
    ASSUME NEW r, IsResult(r), r.code \in Int \ {NoCode}, NEW lines
    PROVE  IsResult(XTS(r, lines)) /\ PassEarned(XTS(r, lines)) /\ XTS(r, lines).code = r.code
<1>. DEFINE b == Base(r)
            v == XTS(r, lines)
<1>1. IsResult(b) /\ b.code = r.code /\ (r.code < 0 => b.raw = "crash") /\ (r.code > 0 => b.raw \in {"warn", "fail"})
  BY BaseEarns
<1>2. PICK a : /\ v = [b EXCEPT !.raw = a]
               /\ r.code < 0 => a = "crash"
               /\ a = "pass" => r.code = 0
  <2>. DEFINE a == CASE r.code = 0  -> IF "PASS" \in Words(lines) /\ "FAIL" \notin Words(lines)
                                       THEN "pass" ELSE "fail"
                     [] r.code = 77 -> "skip"
                     [] r.code = 1  -> IF "fonts" \in Words(lines) THEN "warn" ELSE "fail"
                     [] OTHER       -> b.raw
  <2>1. v = [b EXCEPT !.raw = a]
    BY DEF XTS
  <2>. HIDE DEF b, v
  <2>2. (r.code < 0 => a = "crash") /\ (a = "pass" => r.code = 0)
    BY <1>1
  <2>. HIDE DEF a
  <2>. QED  BY <2>1, <2>2
<1>. HIDE DEF b, v
<1>3. IsResult(v) /\ v.raw = a /\ v.code = r.code
  BY <1>1, <1>2, RawSet
<1>4. PassEarned(v)
  BY <1>2, <1>3, PlainEarns
<1>. QED  BY <1>3, <1>4 DEF v

LEMMA RendercheckEarns ==
    ASSUME NEW r, IsResult(r), r.code \in Int \ {NoCode}, NEW lines
    PROVE  IsResult(Rendercheck(r, lines)) /\ PassEarned(Rendercheck(r, lines)) /\ Rendercheck(r, lines).code = r.code
<1>. DEFINE b == Base(r)
            v == Rendercheck(r, lines)
<1>1. IsResult(b) /\ b.code = r.code /\ (r.code < 0 => b.raw = "crash") /\ (r.code > 0 => b.raw \in {"warn", "fail"})
  BY BaseEarns
<1>2. PICK a : /\ v = [b EXCEPT !.raw = a]
               /\ r.code < 0 => a = "crash"
               /\ a = "pass" => r.code = 0
  <2>. DEFINE a == CASE r.code = 0 -> "pass" [] r.code = 77 -> "skip" [] OTHER -> b.raw
  <2>1. v = [b EXCEPT !.raw = a]
    BY DEF Rendercheck
  <2>. HIDE DEF b, v
  <2>2. (r.code < 0 => a = "crash") /\ (a = "pass" => r.code = 0)
    BY <1>1
  <2>. HIDE DEF a
  <2>. QED  BY <2>1, <2>2
<1>. HIDE DEF b, v
<1>3. IsResult(v) /\ v.raw = a /\ v.code = r.code
  BY <1>1, <1>2, RawSet
<1>4. PassEarned(v)
  BY <1>2, <1>3, PlainEarns
<1>. QED  BY <1>3, <1>4 DEF v

LEMMA ReplayerEarns ==
    ASSUME NEW r, IsResult(r), r.code \in Int \ {NoCode}, NEW lines, lines \in Seq(ToSet(lines))
    PROVE  /\ IsResult(Replayer(FALSE, r, lines)) /\ Replayer(FALSE, r, lines).code # NoCode
           /\ Replayer(FALSE, r, lines).raw # Raised => PassEarned(Replayer(FALSE, r, lines))
<1>. DEFINE q == [r EXCEPT !.code = IF @ = 1 THEN -1 ELSE @]
<1>1. Replayer(FALSE, r, lines) = Native(FALSE, q, lines)
  BY DEF Replayer
<1>2. q = [raw |-> r.raw, subtests |-> r.subtests, code |-> IF r.code = 1 THEN -1 ELSE r.code, exc |-> r.exc]
  BY DEF IsResult
<1>. HIDE DEF q
<1>3. IsResult(q) /\ q.code \in Int \ {NoCode}
  <2>1. q.code \in Int \ {NoCode} /\ q.subtests = r.subtests
    BY <1>2 DEF NoCode
  <2>. QED  BY <1>2, <2>1 DEF IsResult
<1>. QED  BY <1>1, <1>3, NativeEarns

\* Whatever the class, and whatever the process printed and returned.
LEMMA InterpretEarns ==
    ASSUME NEW r, IsResult(r), Unset(r), r.code \in Int \ {NoCode},
           NEW lines, lines \in Seq(ToSet(lines)), NEW class \in TestClasses
    PROVE  /\ IsResult(InterpretAs(class, r, lines)) /\ InterpretAs(class, r, lines).code # NoCode
           /\ InterpretAs(class, r, lines).raw # Raised => PassEarned(InterpretAs(class, r, lines))
<1>1. CASE class \in {"native", "window"}
  <2>1. InterpretAs(class, r, lines) = Native(FALSE, r, lines)
    BY <1>1 DEF InterpretAs
  <2>. QED  BY <2>1, NativeEarns
<1>2. CASE class = "valgrind"
  <2>1. InterpretAs(class, r, lines) = Native(TRUE, r, lines)
    BY <1>2 DEF InterpretAs
  <2>. QED  BY <2>1, NativeEarns
<1>3. CASE class = "replayer"
  <2>1. InterpretAs(class, r, lines) = Replayer(FALSE, r, lines)
    BY <1>3 DEF InterpretAs
  <2>. QED  BY <2>1, ReplayerEarns
<1>4. CASE class = "deqp"
  <2>1. InterpretAs(class, r, lines) = Deqp(r, lines)
    BY <1>4 DEF InterpretAs
  <2>. QED  BY <2>1, DeqpEarns
<1>5. CASE class = "gtest"
  <2>1. InterpretAs(class, r, lines) = GTest(r, lines)
    BY <1>5 DEF InterpretAs
  <2>. QED  BY <2>1, GTestEarns
<1>6. CASE class = "oclconform"
  <2>1. InterpretAs(class, r, lines) = OCLConform(r, lines)
    BY <1>6 DEF InterpretAs
  <2>. QED  BY <2>1, OCLConformEarns
<1>7. CASE class = "xts"
  <2>1. InterpretAs(class, r, lines) = XTS(r, lines)
    BY <1>7 DEF InterpretAs
  <2>. QED  BY <2>1, XTSEarns
<1>8. CASE class = "rendercheck"
  <2>1. InterpretAs(class, r, lines) = Rendercheck(r, lines)
    BY <1>8 DEF InterpretAs
  <2>. QED  BY <2>1, RendercheckEarns
<1>. QED  BY <1>1, <1>2, <1>3, <1>4, <1>5, <1>6, <1>7, <1>8 DEF TestClasses

-------------------------------------------------------------------------------
(* Until a test is interpreted its result is what it was made with.        *)
Early == InProcess \cup {"idle", "prepare", "skip", "spawn", "interpret"}

ResultsInv ==
    /\ DOMAIN at = Tests /\ DOMAIN result = Tests /\ DOMAIN out = Tests
    /\ \A t \in Tests :
         /\ at[t] \in Early => IsResult(result[t]) /\ Unset(result[t])
         /\ at[t] = "interpret" => /\ result[t].code \in Int \ {NoCode}
                                  /\ out[t].lines \in Seq(ToSet(out[t].lines))
         /\ at[t] = "check" => /\ IsResult(result[t]) /\ PassEarned(result[t])
                              /\ SubtestsEarned(result[t])
         /\ at[t] \in {"log", "done"} /\ execute => PassEarned(result[t])

LEMMA ResultsInit == Init => ResultsInv
<1>. SUFFICES ASSUME Init PROVE ResultsInv
  OBVIOUS
<1>1. ASSUME NEW t \in Tests
      PROVE  IsResult(Fresh(Subtests[t])) /\ Unset(Fresh(Subtests[t]))
  <2>. DEFINE subs == Subtests[t]
              q == Fresh(subs)
  <2>1. /\ subs \in Seq(ToSet(subs))
        /\ \A i \in DOMAIN subs : subs[i] = [name |-> subs[i].name, status |-> "notrun"]
    BY SubtestsAssumption
  <2>. HIDE DEF subs
  <2>2. \A i \in DOMAIN subs : IsSubtest(subs[i]) /\ subs[i].status = "notrun"
    BY <2>1 DEF IsSubtest
  <2>3. q = [raw |-> q.raw, subtests |-> q.subtests, code |-> q.code, exc |-> q.exc]
        /\ q.raw = "notrun" /\ q.subtests = subs
    BY DEF Fresh
  <2>. HIDE DEF q
  <2>4. IsResult(q) /\ Unset(q)
    BY <2>1, <2>2, <2>3 DEF IsResult, Unset
  <2>. QED  BY <2>4 DEF q, subs
<1>. QED  BY <1>1 DEF Init, ResultsInv

\* A step of one test leaves what is known of the others.
OthersKeep(t) == /\ DOMAIN at' = Tests /\ DOMAIN result' = Tests /\ DOMAIN out' = Tests
                 /\ execute' = execute
                 /\ \A u \in Tests \ {t} : at'[u] = at[u] /\ result'[u] = result[u] /\ out'[u] = out[u]

OneInv(place, r, o) ==
    /\ place \in Early => IsResult(r) /\ Unset(r)
    /\ place = "interpret" => r.code \in Int \ {NoCode} /\ o.lines \in Seq(ToSet(o.lines))
    /\ place = "check" => IsResult(r) /\ PassEarned(r) /\ SubtestsEarned(r)

LEMMA OneTest ==
    ASSUME ResultsInv, NEW t \in Tests, OthersKeep(t),
           OneInv(at'[t], result'[t], out'[t]),
           at'[t] \in {"log", "done"} /\ execute => PassEarned(result'[t])
    PROVE  ResultsInv'
BY DEF ResultsInv, OthersKeep, OneInv

LEMMA CodeSet ==
    ASSUME NEW r, IsResult(r), Unset(r), NEW c
    PROVE  IsResult([r EXCEPT !.code = c]) /\ Unset([r EXCEPT !.code = c]) /\ [r EXCEPT !.code = c].code = c
<1>. DEFINE q == [r EXCEPT !.code = c]
<1>1. q = [raw |-> r.raw, subtests |-> r.subtests, code |-> c, exc |-> r.exc]
  BY DEF IsResult
<1>. HIDE DEF q
<1>. QED  BY <1>1 DEF IsResult, Unset, q

LEMMA ResultsStep ==
    ASSUME ResultsInv, NEW t \in Tests, Thread(t)
    PROVE  ResultsInv'
<1>0. DOMAIN at = Tests /\ DOMAIN result = Tests /\ DOMAIN out = Tests
  BY DEF ResultsInv
<1>e. ASSUME NEW from, from \in Early \cup {"check"}, Except(t, from) PROVE ResultsInv'
  <2>1. /\ at' = [at EXCEPT ![t] = "log"] /\ result' = [result EXCEPT ![t] = Failed(@)]
        /\ out' = out /\ execute' = execute /\ at[t] = from
    BY <1>e DEF Except, Goto, options
  <2>2. IsResult(result[t]) /\ SubtestsEarned(result[t])
    <3>1. CASE from = "check"
      BY <2>1, <3>1 DEF ResultsInv
    <3>2. CASE from # "check"
      <4>1. IsResult(result[t]) /\ Unset(result[t])
        BY <1>e, <2>1, <3>2 DEF ResultsInv
      <4>. QED  BY <4>1, UnsetEarns DEF Unset
    <3>. QED  BY <3>1, <3>2
  <2>3. PassEarned(Failed(result[t]))
    BY <2>2, ExceptEarns
  <2>4. at'[t] = "log" /\ PassEarned(result'[t]) /\ OthersKeep(t)
    BY <1>0, <2>1, <2>3 DEF OthersKeep
  <2>. QED  BY <2>4, OneTest DEF OneInv, Early, InProcess
<1>r. ASSUME NEW from \in Early, NEW s, s # "pass", RunError(t, from, s), out' = out, execute' = execute PROVE ResultsInv'
  <2>1. at' = [at EXCEPT ![t] = "check"] /\ result' = [result EXCEPT ![t] = Errored(@, s)] /\ at[t] = from
    BY <1>r DEF RunError, Goto
  <2>2. IsResult(result[t])
    BY <2>1 DEF ResultsInv
  <2>3. at'[t] = "check" /\ result'[t] = Errored(result[t], s) /\ OthersKeep(t)
    BY <1>0, <1>r, <2>1 DEF OthersKeep
  <2>4. IsResult(result'[t]) /\ PassEarned(result'[t]) /\ SubtestsEarned(result'[t])
    BY <1>r, <2>2, <2>3, AllSet
  <2>. QED  BY <2>3, <2>4, OneTest DEF OneInv, Early, InProcess
<1>g. ASSUME NEW from \in Early, NEW to \in Early \ {"interpret"}, Goto(t, from, to), result' = result, out' = out, execute' = execute
      PROVE  ResultsInv'
  <2>1. at'[t] = to /\ result'[t] = result[t] /\ out'[t] = out[t] /\ at[t] = from /\ OthersKeep(t)
    BY <1>0, <1>g DEF Goto, OthersKeep
  <2>2. OneInv(at'[t], result'[t], out'[t])
    BY <2>1 DEF ResultsInv, OneInv, Early, InProcess
  <2>. QED  BY <2>1, <2>2, OneTest DEF Early, InProcess
<1>1. CASE Prepare(t)
  BY <1>1, <1>e, <1>g DEF Prepare, Early, options
<1>2. CASE CheckSkip(t)
  BY <1>2, <1>r, <1>g DEF CheckSkip, Early, options
<1>3. CASE Spawn(t)
  BY <1>3, <1>r, <1>e, <1>g DEF Spawn, Early, InProcess, options
<1>4. CASE Communicate(t)
  <2>0. at[t] = "communicate" /\ execute' = execute
    BY <1>4 DEF Communicate, options
  <2>1. PICK o \in Outputs[t] :
         \/ /\ Goto(t, "communicate", "interpret")
            /\ result' = [result EXCEPT ![t].code = o.code]
            /\ out' = [out EXCEPT ![t] = o]
         \/ /\ Goto(t, "communicate", "spawn")
            /\ result' = [result EXCEPT ![t].code = o.code]
            /\ UNCHANGED out
         \/ RunError(t, "communicate", "fail") /\ UNCHANGED out
         \/ RunError(t, "communicate", "crash") /\ UNCHANGED out
    BY <1>4 DEF Communicate
  <2>2. IsResult(result[t]) /\ Unset(result[t])
    BY <2>0 DEF ResultsInv, Early, InProcess
  <2>3. ASSUME NEW to \in {"interpret", "spawn"}, Goto(t, "communicate", to),
               result' = [result EXCEPT ![t].code = o.code],
               out' = [out EXCEPT ![t] = o] \/ (to = "spawn" /\ out' = out)
        PROVE  ResultsInv'
    <3>1. at'[t] = to /\ result'[t] = [result[t] EXCEPT !.code = o.code] /\ OthersKeep(t)
          /\ (to = "interpret" => out'[t] = o)
      BY <1>0, <2>0, <2>3 DEF OthersKeep, Goto
    <3>2. IsResult(result'[t]) /\ Unset(result'[t]) /\ result'[t].code = o.code
      BY <2>2, <3>1, CodeSet
    <3>3. OneInv(at'[t], result'[t], out'[t])
      BY <3>1, <3>2, OutputsAssumption DEF OneInv, Early, InProcess
    <3>. QED  BY <3>1, <3>3, OneTest
  <2>. QED  BY <2>0, <2>1, <2>3, <1>r DEF Early, InProcess
<1>5. CASE Terminate(t)
  BY <1>5, <1>g DEF Terminate, Early, InProcess, options
<1>6. CASE Poll(t)
  BY <1>6, <1>g DEF Poll, Early, InProcess, options
<1>7. CASE Kill(t)
  BY <1>7, <1>g DEF Kill, Early, InProcess, options
<1>8. CASE Drain(t)
  BY <1>8, <1>r, <1>e DEF Drain, Early, InProcess, options
<1>9. CASE Interpret(t)
  <2>0. at[t] = "interpret" /\ out' = [out EXCEPT ![t] = Silent] /\ execute' = execute
    BY <1>9 DEF Interpret, options
  <2>1. PICK class \in Classes[t] :
         LET r == InterpretAs(class, result[t], out[t].lines)
         IN  \/ /\ r.raw # Raised
                /\ Goto(t, "interpret", "check")
                /\ result' = [result EXCEPT ![t] = r]
             \/ /\ r.raw = Raised
                /\ Goto(t, "interpret", "log")
                /\ result' = [result EXCEPT ![t] = Failed(r)]
    BY <1>9 DEF Interpret
  <2>. DEFINE r == InterpretAs(class, result[t], out[t].lines)
  <2>2. /\ IsResult(result[t]) /\ Unset(result[t]) /\ result[t].code \in Int \ {NoCode}
        /\ out[t].lines \in Seq(ToSet(out[t].lines)) /\ class \in TestClasses
    BY <2>0, ClassesAssumption DEF ResultsInv, Early
  <2>3. CASE r.raw # Raised
    <3>1. IsResult(r) /\ PassEarned(r) /\ SubtestsEarned(r)
      BY <2>2, <2>3, InterpretEarns DEF SubtestsEarned
    <3>2. Goto(t, "interpret", "check") /\ result' = [result EXCEPT ![t] = r]
      BY <2>1, <2>3
    <3>. HIDE DEF r
    <3>3. at'[t] = "check" /\ result'[t] = r /\ OthersKeep(t)
      BY <1>0, <2>0, <3>2 DEF OthersKeep, Goto
    <3>. QED  BY <3>1, <3>3, OneTest DEF OneInv, Early, InProcess
  <2>4. CASE r.raw = Raised
    <3>0. IsResult(r) /\ SubtestsEarned(r)
      BY <2>2, InterpretEarns DEF SubtestsEarned
    <3>1. PassEarned(Failed(r))
      <4>. HIDE DEF r
      <4>. QED  BY <3>0, ExceptEarns
    <3>2. Goto(t, "interpret", "log") /\ result' = [result EXCEPT ![t] = Failed(r)]
      BY <2>1, <2>4
    <3>. HIDE DEF r
    <3>3. at'[t] = "log" /\ result'[t] = Failed(r) /\ OthersKeep(t)
      BY <1>0, <2>0, <3>2 DEF OthersKeep, Goto
    <3>. QED  BY <3>1, <3>3, OneTest DEF OneInv, Early, InProcess
  <2>. QED  BY <2>3, <2>4
<1>10. CASE Check(t)
  <2>1. CASE Except(t, "check")
    BY <1>e, <2>1
  <2>2. CASE /\ Goto(t, "check", "log")
             /\ result' = result \/ result' = [result EXCEPT ![t] = WithDmesg(@)]
             /\ out' = out /\ execute' = execute
    <3>1. at[t] = "check" /\ at'[t] = "log" /\ OthersKeep(t)
          /\ (result'[t] = result[t] \/ result'[t] = WithDmesg(result[t]))
      BY <1>0, <2>2 DEF OthersKeep, Goto
    <3>2. IsResult(result[t]) /\ PassEarned(result[t])
      BY <3>1 DEF ResultsInv
    <3>3. PassEarned(result'[t])
      BY <3>1, <3>2, DmesgEarns
    <3>. QED  BY <3>1, <3>3, OneTest DEF OneInv, Early, InProcess
  <2>. QED  BY <1>10, <2>1, <2>2 DEF Check, options
<1>11. CASE Log(t)
  <2>1. at[t] = "log" /\ at'[t] \in {"done", "lost"} /\ result'[t] = result[t] /\ OthersKeep(t)
    BY <1>0, <1>11 DEF Log, OthersKeep, Goto, options
  <2>2. at'[t] = "done" /\ execute => PassEarned(result'[t])
    BY <2>1 DEF ResultsInv
  <2>. QED  BY <2>1, <2>2, OneTest DEF OneInv, Early, InProcess
<1>. QED
  BY <1>1, <1>2, <1>3, <1>4, <1>5, <1>6, <1>7, <1>8, <1>9, <1>10, <1>11 DEF Thread

LEMMA ResultsNext ==
    ASSUME ResultsInv, [Next]_vars
    PROVE  ResultsInv'
<1>1. ASSUME UNCHANGED <<at, result, out, execute>> PROVE ResultsInv'
  BY <1>1 DEF ResultsInv
<1>2. ASSUME NEW t \in Tests, Start(t) PROVE ResultsInv'
  <2>1. /\ at[t] = "idle" /\ at'[t] = IF execute THEN "prepare" ELSE "log"
        /\ result'[t] = result[t] /\ OthersKeep(t)
    BY <1>2 DEF Start, Goto, OthersKeep, ResultsInv, options
  <2>2. OneInv(at'[t], result'[t], out'[t])
    BY <2>1 DEF ResultsInv, OneInv, Early
  <2>. QED  BY <2>1, <2>2, OneTest
<1>3. ASSUME NEW t \in Tests, Timeout(t) PROVE ResultsInv'
  <2>1. /\ at[t] = "communicate" /\ at'[t] = "terminate"
        /\ result'[t] = result[t] /\ OthersKeep(t)
    BY <1>3 DEF Timeout, Goto, OthersKeep, ResultsInv, options
  <2>2. OneInv(at'[t], result'[t], out'[t])
    BY <2>1 DEF ResultsInv, OneInv, Early, InProcess
  <2>. QED  BY <2>1, <2>2, OneTest
<1>4. ASSUME NEW t \in Tests, Process(t) PROVE ResultsInv'
  BY <1>1, <1>4 DEF Process, Fork, LeaderExits, HelperExits, options
<1>5. ASSUME Server \/ Request PROVE ResultsInv'
  BY <1>1, <1>5 DEF Server, ServerCheck, Reply, Request, options
<1>6. CASE UNCHANGED vars
  BY <1>1, <1>6 DEF vars, options
<1>. QED  BY <1>2, <1>3, <1>4, <1>5, <1>6, ResultsStep DEF Next

\* For any tests of any class and whatever their processes print and return: a
\* pass, with an exception or without, is one of a process that ran to its end
\* and returned 0 unless subtests speak for it, and it hides a crash only where
\* valgrind or an exception stored another status over it.
THEOREM PassesAreEarned == Spec => []PassIsEarned
<1>1. ResultsInv => PassIsEarned
  BY DEF ResultsInv, PassIsEarned, PassEarned, Earned, Status
<1>. QED  BY <1>1, ResultsInit, ResultsNext, PTL DEF Spec

===============================================================================
