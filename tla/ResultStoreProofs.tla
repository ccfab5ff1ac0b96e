------------------------- MODULE ResultStoreProofs -------------------------
(***************************************************************************)
(* Theorems about ResultStore, for every number of threads and whatever    *)
(* fails: first of every profile and any sessions, with or without         *)
(* jsonstreams and compression; then of one "piglit run" of a profile      *)
(* without repetition, which loses nothing it recorded and implements      *)
(* TestRecord.  Of resumed sessions that is not true in general, as the    *)
(* run ResumeTwice shows; the last part says when it is.                   *)
(***************************************************************************)
EXTENDS ResultStore, TLAPS, FiniteSetTheorems, WellFoundedInduction

-----------------------------------------------------------------------------
(***************************************************************************)
(* Lemmas about the operators of the model.                                *)
(***************************************************************************)

\* Put keeps the type of a directory.
LEMMA PutType ==
    ASSUME NEW f, NEW i \in Nat, NEW v \in Entry,
           DOMAIN f \subseteq Nat, f \in [DOMAIN f -> Entry]
    PROVE  /\ DOMAIN Put(f, i, v) \subseteq Nat
           /\ Put(f, i, v) \in [DOMAIN Put(f, i, v) -> Entry]
BY DEF Put

\* So does Drop (the move of a file, the removal of one).
LEMMA DropType ==
    ASSUME NEW f, NEW i,
           DOMAIN f \subseteq Nat, f \in [DOMAIN f -> Entry]
    PROVE  /\ DOMAIN Drop(f, i) = DOMAIN f \ {i}
           /\ DOMAIN Drop(f, i) \subseteq Nat
           /\ Drop(f, i) \in [DOMAIN Drop(f, i) -> Entry]
           /\ \A j \in DOMAIN Drop(f, i) : Drop(f, i)[j] = f[j]
BY DEF Drop

\* A nonempty set of naturals with an upper bound has a greatest element.
LEMMA Greatest ==
    ASSUME NEW S \in SUBSET Nat, S # {}, NEW n \in Nat, \A i \in S : i <= n
    PROVE  \E i \in S : \A j \in S : j <= i
<1> DEFINE T == {k \in Nat : \E i \in S : k = n - i}
<1>1. T \subseteq Nat /\ T # {}
  <2>1. \A i \in S : n - i \in T
    OBVIOUS
  <2> QED BY <2>1
<1>2. PICK x \in T : \A y \in T : ~ (<<y, x>> \in OpToRel(<, Nat))
  <2> HIDE DEF T
  <2> QED BY <1>1, NatLessThanWellFounded, WFMin
<1>3. ASSUME NEW y \in T PROVE x <= y
  <2>1. x \in Nat /\ y \in Nat
    OBVIOUS
  <2>2. y < x => <<y, x>> \in OpToRel(<, Nat)
    BY <2>1, Zenon DEF OpToRel
  <2>3. ~ (y < x)
    BY <1>2, <2>2, Zenon
  <2> QED BY <2>1, <2>3
<1>4. PICK i \in S : x = n - i
  OBVIOUS
<1>5. ASSUME NEW j \in S PROVE j <= i
  <2>1. n - j \in T
    OBVIOUS
  <2> QED BY <2>1, <1>3, <1>4
<1> QED BY <1>5

-----------------------------------------------------------------------------
(***************************************************************************)
(* The inductive invariant: DirectoryInvariant and a bound on the file     *)
(* numbers, without which "the highest number" of a test might not exist.  *)
(***************************************************************************)
FilesBounded == \E n \in Nat : \A i \in DOMAIN files : i <= n

IInv == DirectoryInvariant /\ FilesBounded

\* What _resume and finalize read is a status of a test for tests only, and
\* "done" only of a test some file says "done" of.
LEMMA ViewFacts ==
    ASSUME TypeOK, FilesBounded
    PROVE  /\ DOMAIN View \subseteq Tests
           /\ View \in [DOMAIN View -> {"incomplete", "done"}]
           /\ \A t \in DOMAIN View : View[t] = "done" =>
                 \E i \in DOMAIN files : files[i].name = t /\ files[i].body = "done"
<1>1. \A i \in DOMAIN files : files[i] \in Entry /\ i \in Nat
  BY DEF TypeOK
<1>2. DOMAIN View = {files[i].name : i \in Readable}
  BY DEF View
<1>3. ASSUME NEW t \in DOMAIN View
      PROVE  /\ t \in Tests
             /\ View[t] = files[LastFile(t)].body
             /\ LastFile(t) \in Readable /\ files[LastFile(t)].name = t
  <2>1. PICK i \in Readable : t = files[i].name
    BY <1>2, <1>3
  <2>2. t \in Tests
    BY <2>1, <1>1 DEF Readable, Entry
  <2>3. About(t) # {} /\ About(t) \in SUBSET Nat
    BY <2>1, <1>1 DEF About, Readable
  <2>4. PICK n \in Nat : \A j \in DOMAIN files : j <= n
    BY DEF FilesBounded
  <2>5. \A j \in About(t) : j <= n
    BY <2>4 DEF About, Readable
  <2>6. \E k \in About(t) : \A j \in About(t) : j <= k
    <3> HIDE DEF About
    <3> QED BY <2>3, <2>5, Greatest
  <2>7. LastFile(t) \in About(t)
    BY <2>6 DEF LastFile
  <2>8. View[t] = files[LastFile(t)].body
    BY <1>2, <1>3 DEF View
  <2> QED BY <2>2, <2>7, <2>8 DEF About
<1>4. ASSUME NEW t \in DOMAIN View
      PROVE  View[t] \in {"incomplete", "done"}
  <2>1. files[LastFile(t)].body \in Bodies \ {"torn"}
    BY <1>1, <1>3 DEF Readable, Entry
  <2> QED BY <2>1, <1>3 DEF Bodies
<1>5. View \in [DOMAIN View -> {"incomplete", "done"}]
  BY <1>4 DEF View
<1> QED BY <1>3, <1>5 DEF Readable

\* The count a resumed run starts its file numbers from is a natural number.
LEMMA StartCountType ==
    ASSUME NEW f, DOMAIN f \subseteq Tests
    PROVE  StartCount(f) \in Nat
BY FiniteAssumption, FS_Subset, FS_CardinalityType DEF StartCount

\* What resume loads is a status of some of the tests.
LEMMA LoadedType ==
    ASSUME TypeOK, FilesBounded
    PROVE  DOMAIN Loaded \subseteq Tests
BY ViewFacts DEF Loaded, TypeOK

\* The empty directory of a new run satisfies the invariant.
LEMMA InitInvariant == Init => IInv
<1> SUFFICES ASSUME Init PROVE IInv
  OBVIOUS
<1>1. TypeOK
  BY DEF Init, TypeOK, Empty, Phases, AllIdle, Idle, PCs
<1>2. OneWriterPerFile /\ BusyNumbered /\ TmpReady
  BY DEF Init, OneWriterPerFile, BusyNumbered, TmpReady, Busy, Numbered, AllIdle, Idle
<1>3. SavedSettled
  BY DEF Init, SavedSettled
<1>4. FilesBounded
  BY DEF Init, FilesBounded, Empty
<1> QED BY <1>1, <1>2, <1>3, <1>4 DEF IInv, DirectoryInvariant

-----------------------------------------------------------------------------
(***************************************************************************)
(* Preservation, one lemma per kind of step.                               *)
(***************************************************************************)

\* Take: the thread has a test, and no number yet.
LEMMA TakeStep ==
    ASSUME IInv, NEW w \in Workers, Take(w)
    PROVE  IInv'
<1> USE DEF IInv, DirectoryInvariant
<1>1. PICK p \in todo :
        /\ todo' = todo \ {p}
        /\ work' = [work EXCEPT ![w] = [pc |-> "number", test |-> Profile[p], idx |-> 0]]
  BY DEF Take
<1>2. /\ phase = "run"
      /\ UNCHANGED <<disk, phase, counter, aborted, session, ghosts>>
  BY DEF Take, At
<1>3. Profile[p] \in Tests
  BY <1>1, TestsAssumption DEF TypeOK
<1>4. TypeOK'
  BY <1>1, <1>2, <1>3 DEF TypeOK, disk, ghosts, PCs
<1>5. /\ work'[w] = [pc |-> "number", test |-> Profile[p], idx |-> 0]
      /\ \A v \in Workers : v # w => work'[v] = work[v]
  BY <1>1 DEF TypeOK
<1>6. OneWriterPerFile' /\ TmpReady'
  BY <1>2, <1>5 DEF OneWriterPerFile, TmpReady, Numbered, disk
<1>7. BusyNumbered'
  BY <1>2, <1>3, <1>5 DEF BusyNumbered, Busy, Numbered
<1>8. SavedSettled' /\ FilesBounded'
  BY <1>2, <1>5 DEF SavedSettled, SettledFile, Numbered, FilesBounded, disk, ghosts
<1> QED BY <1>4, <1>6, <1>7, <1>8

\* Number: the new number is the counter, ahead of every number in use.
LEMMA NumberStep ==
    ASSUME IInv, NEW w \in Workers, Number(w)
    PROVE  IInv'
<1> USE DEF IInv, DirectoryInvariant
<1>1. /\ work' = [work EXCEPT ![w] = [@ EXCEPT !.pc = "open", !.idx = counter]]
      /\ counter' = counter + 1 /\ counter \in Nat
      /\ phase = "run" /\ Busy(w)
      /\ UNCHANGED <<disk, phase, todo, aborted, session, ghosts>>
  BY DEF Number, At, Bump, TypeOK, Busy
<1>2. /\ work'[w].pc = "open" /\ work'[w].test = work[w].test /\ work'[w].idx = counter
      /\ \A v \in Workers : v # w => work'[v] = work[v]
      /\ work' \in [Workers -> [pc : PCs, test : Tests \cup {NoTest}, idx : Nat]]
  BY <1>1 DEF TypeOK, PCs
<1>3. TypeOK'
  BY <1>1, <1>2 DEF TypeOK, disk, ghosts
<1>4. \A v \in Workers : Numbered(v) => Busy(v) /\ work[v].idx < counter /\ work[v].idx \in Nat
  BY DEF BusyNumbered, Numbered, Busy, TypeOK
<1>5. OneWriterPerFile' /\ TmpReady'
  BY <1>1, <1>2, <1>4 DEF OneWriterPerFile, TmpReady, Numbered, disk
<1>6. BusyNumbered'
  BY <1>1, <1>2, <1>4 DEF BusyNumbered, Busy, Numbered, TypeOK
<1>7. SavedSettled' /\ FilesBounded'
  BY <1>1, <1>2 DEF SavedSettled, SettledFile, Numbered, FilesBounded, disk, ghosts, TypeOK
<1> QED BY <1>3, <1>5, <1>6, <1>7

\* A step by which a thread with a number goes on with the same test and number, or
\* becomes idle, without a file of another thread or of a saved test changing.
LEMMA WorkerStep ==
    ASSUME IInv, TypeOK', FilesBounded', NEW w \in Workers, Numbered(w),
           UNCHANGED <<phase, counter, saved>>,
           work'[w].pc # "idle" =>
               work'[w].idx = work[w].idx /\ work'[w].test = work[w].test,
           \A v \in Workers : v # w => work'[v] = work[v],
           work'[w].pc = "move" =>
               /\ work[w].idx \in DOMAIN tmps'
               /\ tmps'[work[w].idx] = [name |-> work[w].test, body |-> "done"],
           \A i \in DOMAIN files : i # work[w].idx =>
               i \in DOMAIN files' /\ files'[i] = files[i],
           \A i \in DOMAIN tmps : i # work[w].idx =>
               i \in DOMAIN tmps' /\ tmps'[i] = tmps[i]
    PROVE  IInv'
<1> USE DEF IInv, DirectoryInvariant
<1>1. OneWriterPerFile'
  BY DEF OneWriterPerFile, Busy, Numbered
<1>2. BusyNumbered'
  BY DEF BusyNumbered, Busy, Numbered
<1>3. TmpReady'
  BY DEF TmpReady, OneWriterPerFile, Busy, Numbered
<1>4. SavedSettled'
  BY DEF SavedSettled, SettledFile, Busy, Numbered
<1> QED BY <1>1, <1>2, <1>3, <1>4

\* Giving up and going on to the next step of test() change one worker only.
LEMMA StepFacts ==
    ASSUME TypeOK, NEW w \in Workers, NEW pc \in PCs
    PROVE  /\ Step(w, pc) =>
                /\ work'[w].pc = pc
                /\ work'[w].idx = work[w].idx /\ work'[w].test = work[w].test
                /\ \A v \in Workers : v # w => work'[v] = work[v]
                /\ work' \in [Workers -> [pc : PCs, test : Tests \cup {NoTest}, idx : Nat]]
           /\ GiveUp(w) =>
                /\ work'[w].pc = "idle"
                /\ \A v \in Workers : v # w => work'[v] = work[v]
                /\ work' \in [Workers -> [pc : PCs, test : Tests \cup {NoTest}, idx : Nat]]
BY DEF TypeOK, Step, GiveUp, Idle, PCs

\* A placeholder is opened or written: only the thread's own file changes.
LEMMA PlaceholderStep ==
    ASSUME IInv, NEW w \in Workers, OpenPlaceholder(w) \/ WritePlaceholder(w)
    PROVE  IInv'
<1> USE DEF IInv, DirectoryInvariant
<1>1. PICK pc \in PCs : pc # "move" /\ (Step(w, pc) \/ GiveUp(w))
  BY DEF OpenPlaceholder, WritePlaceholder, PCs
<1>2. PICK b \in Bodies :
        \/ files' = Put(files, work[w].idx, [name |-> work[w].test, body |-> b])
        \/ files' = files
  BY DEF OpenPlaceholder, WritePlaceholder, Placeholder, Bodies, FileOf
<1> DEFINE e == [name |-> work[w].test, body |-> b]
<1>3. /\ Numbered(w) /\ Busy(w)
      /\ UNCHANGED <<meta, testsDir, tmps, results, published, phase,
                     todo, counter, aborted, session, ghosts>>
  BY DEF OpenPlaceholder, WritePlaceholder, At, Busy, Numbered
<1>4. e \in Entry /\ work[w].idx \in Nat
  BY <1>3 DEF BusyNumbered, Entry, TypeOK
<1> HIDE DEF e
<1>5. TypeOK'
  <2>1. DOMAIN files' \subseteq Nat /\ files' \in [DOMAIN files' -> Entry]
    BY <1>2, <1>4, PutType DEF e, TypeOK
  <2>2. work' \in [Workers -> [pc : PCs, test : Tests \cup {NoTest}, idx : Nat]]
    BY <1>1, StepFacts
  <2> QED BY <1>3, <2>1, <2>2 DEF TypeOK, ghosts
<1>6. files' = Put(files, work[w].idx, e) \/ files' = files
  BY <1>2 DEF e
<1>7. FilesBounded'
  <2>1. PICK n \in Nat : \A i \in DOMAIN files : i <= n
    BY DEF FilesBounded
  <2>2. DOMAIN files \subseteq Nat
    BY DEF TypeOK
  <2>3. DOMAIN files' \subseteq DOMAIN files \cup {work[w].idx}
    BY <1>6, Zenon DEF Put
  <2>4. \A i \in DOMAIN files' : i <= n + work[w].idx
    BY <2>1, <2>2, <2>3, <1>4
  <2> QED BY <2>4, <1>4 DEF FilesBounded
<1>8. \A i \in DOMAIN files : i # work[w].idx =>
        i \in DOMAIN files' /\ files'[i] = files[i]
  BY <1>6, Zenon DEF Put
<1>9. /\ \A v \in Workers : v # w => work'[v] = work[v]
      /\ work'[w].pc # "move"
      /\ work'[w].pc # "idle" =>
           work'[w].idx = work[w].idx /\ work'[w].test = work[w].test
  BY <1>1, StepFacts
<1>10. UNCHANGED <<phase, counter, saved, tmps>>
  BY <1>3 DEF ghosts
<1> HIDE DEF IInv
<1> QED BY <1>3, <1>5, <1>7, <1>8, <1>9, <1>10, WorkerStep

\* A write fails, or the test is executed: no file changes.
LEMMA NoFileStep ==
    ASSUME IInv, NEW w \in Workers, WriteFails(w) \/ Execute(w)
    PROVE  IInv'
<1> USE DEF IInv, DirectoryInvariant
<1>1. Step(w, "opentmp") \/ GiveUp(w)
  BY DEF WriteFails, Execute
<1>2. /\ Numbered(w) /\ Busy(w)
      /\ UNCHANGED <<disk, phase, todo, counter, aborted, session, ghosts>>
  BY DEF WriteFails, Execute, At, Busy, Numbered
<1>3. TypeOK' /\ FilesBounded'
  <2>1. work' \in [Workers -> [pc : PCs, test : Tests \cup {NoTest}, idx : Nat]]
    BY <1>1, StepFacts DEF PCs
  <2> QED BY <1>2, <2>1 DEF TypeOK, FilesBounded, disk, ghosts
<1>4. /\ \A v \in Workers : v # w => work'[v] = work[v]
      /\ work'[w].pc # "move"
      /\ work'[w].pc # "idle" =>
           work'[w].idx = work[w].idx /\ work'[w].test = work[w].test
  BY <1>1, StepFacts DEF PCs
<1>5. UNCHANGED <<phase, counter, saved, tmps, files>>
  BY <1>2 DEF ghosts, disk
<1> HIDE DEF IInv
<1> QED BY <1>2, <1>3, <1>4, <1>5, WorkerStep

\* The .tmp is opened or written: only the thread's own .tmp changes.
LEMMA TmpStep ==
    ASSUME IInv, NEW w \in Workers, OpenTmp(w) \/ WriteTmp(w)
    PROVE  IInv'
<1> USE DEF IInv, DirectoryInvariant
<1>1. PICK pc \in PCs, b \in Bodies :
        /\ Step(w, pc)
        /\ pc = "move" => b = "done"
        /\ tmps' = Put(tmps, work[w].idx, [name |-> work[w].test, body |-> b])
  BY DEF OpenTmp, WriteTmp, PCs, Bodies, FileOf
<1> DEFINE e == [name |-> work[w].test, body |-> b]
<1>2. /\ Numbered(w) /\ Busy(w)
      /\ UNCHANGED <<meta, testsDir, files, results, published, phase,
                     todo, counter, aborted, session, ghosts>>
  BY DEF OpenTmp, WriteTmp, At, Busy, Numbered
<1>3. e \in Entry /\ work[w].idx \in Nat
  BY <1>2 DEF BusyNumbered, Entry, TypeOK
<1> HIDE DEF e
<1>4. TypeOK' /\ FilesBounded'
  <2>1. DOMAIN tmps' \subseteq Nat /\ tmps' \in [DOMAIN tmps' -> Entry]
    BY <1>1, <1>3, PutType DEF e, TypeOK
  <2>2. work' \in [Workers -> [pc : PCs, test : Tests \cup {NoTest}, idx : Nat]]
    BY <1>1, StepFacts
  <2> QED BY <1>2, <2>1, <2>2 DEF TypeOK, FilesBounded, ghosts
<1>5. /\ \A i \in DOMAIN tmps : i # work[w].idx =>
            i \in DOMAIN tmps' /\ tmps'[i] = tmps[i]
      /\ work[w].idx \in DOMAIN tmps'
      /\ tmps'[work[w].idx] = e
  <2>1. tmps' = Put(tmps, work[w].idx, e)
    BY <1>1 DEF e
  <2> QED BY <2>1, Zenon DEF Put
<1>6. /\ \A v \in Workers : v # w => work'[v] = work[v]
      /\ work'[w].pc = pc
      /\ work'[w].idx = work[w].idx /\ work'[w].test = work[w].test
  BY <1>1, StepFacts
<1>7. UNCHANGED <<phase, counter, saved, files>>
  BY <1>2 DEF ghosts
<1> HIDE DEF IInv
<1> QED BY <1>1, <1>2, <1>4, <1>5, <1>6, <1>7, WorkerStep DEF e

\* The move: the file now holds the result, and no busy thread has its number.
LEMMA MoveStep ==
    ASSUME IInv, NEW w \in Workers, Move(w)
    PROVE  IInv'
<1> USE DEF IInv, DirectoryInvariant
<1> DEFINE e == [name |-> work[w].test, body |-> "done"]
<1>1. /\ Numbered(w) /\ Busy(w) /\ phase = "run"
      /\ work[w].test \in Tests /\ work[w].idx \in Nat
  BY DEF Move, At, Busy, Numbered, BusyNumbered, TypeOK
<1>2. PICK i \in Nat, n \in Tests :
        /\ work[w].idx = i /\ work[w].test = n
        /\ e = [name |-> n, body |-> "done"]
        /\ i \in DOMAIN tmps /\ i < counter
        /\ files' = Put(files, i, e)
        /\ tmps' = Drop(tmps, i)
        /\ work' = [work EXCEPT ![w] = Idle]
        /\ saved' = saved \cup {n}
        /\ recorded' = recorded \cup {n}
        /\ todo' \subseteq todo /\ aborted' \in BOOLEAN
        /\ UNCHANGED <<meta, testsDir, results, published, phase, counter, session>>
  BY <1>1 DEF Move, At, FileOf, TypeOK, TmpReady, BusyNumbered
<1>3. e \in Entry
  BY <1>2 DEF Entry, Bodies
<1> HIDE DEF e
<1>4. /\ work'[w] = Idle
      /\ \A v \in Workers : v # w => work'[v] = work[v]
      /\ work' \in [Workers -> [pc : PCs, test : Tests \cup {NoTest}, idx : Nat]]
  BY <1>2 DEF TypeOK, Idle, PCs
<1>5. TypeOK'
  <2>1. DOMAIN files' \subseteq Nat /\ files' \in [DOMAIN files' -> Entry]
    BY <1>2, <1>3, PutType DEF TypeOK
  <2>2. DOMAIN tmps' \subseteq Nat /\ tmps' \in [DOMAIN tmps' -> Entry]
    BY <1>2, DropType DEF TypeOK
  <2> QED BY <1>2, <1>4, <2>1, <2>2 DEF TypeOK
<1>6. /\ DOMAIN files' = DOMAIN files \cup {i}
      /\ files'[i] = e
      /\ \A j \in DOMAIN files : j # i => files'[j] = files[j]
  BY <1>2, Zenon DEF Put
<1>7. FilesBounded'
  <2>1. PICK m \in Nat : \A j \in DOMAIN files : j <= m
    BY DEF FilesBounded
  <2>2. \A j \in DOMAIN files' : j <= m + i
    BY <2>1, <1>2, <1>6 DEF TypeOK
  <2> QED BY <2>2, <1>2 DEF FilesBounded
<1>8. OneWriterPerFile' /\ BusyNumbered'
  BY <1>1, <1>2, <1>4 DEF OneWriterPerFile, BusyNumbered, Busy, Numbered, Idle
<1>9. TmpReady'
  <2> SUFFICES ASSUME NEW v \in Workers, work'[v].pc = "move"
               PROVE  /\ work'[v].idx \in DOMAIN tmps'
                      /\ tmps'[work'[v].idx] = [name |-> work'[v].test, body |-> "done"]
    BY DEF TmpReady
  <2>1. v # w /\ work'[v] = work[v]
    BY <1>4 DEF Idle
  <2>2. work[v].idx # i
    BY <2>1, <1>1, <1>2 DEF OneWriterPerFile, Busy, Numbered
  <2>3. work[v].idx \in DOMAIN tmps
        /\ tmps[work[v].idx] = [name |-> work[v].test, body |-> "done"]
    BY <2>1 DEF TmpReady
  <2>4. work[v].idx \in DOMAIN tmps' /\ tmps'[work[v].idx] = tmps[work[v].idx]
    BY <1>2, <2>2, <2>3 DEF Drop
  <2> QED BY <2>1, <2>3, <2>4
<1>10. SavedSettled'
  <2>1. ASSUME NEW t \in saved PROVE \E j \in DOMAIN files' : SettledFile(t, j)'
    <3>1. PICK j \in DOMAIN files : SettledFile(t, j)
      BY <1>1, <2>1 DEF SavedSettled
    <3>2. j # i
      BY <3>1, <1>1, <1>2 DEF SettledFile
    <3> QED BY <3>1, <3>2, <1>1, <1>2, <1>4, <1>6 DEF SettledFile, Busy, Numbered, Idle
  <2>2. SettledFile(n, i)'
    <3>1. \A v \in Workers : Numbered(v)' => work'[v].idx # i
      BY <1>1, <1>2, <1>4 DEF OneWriterPerFile, Busy, Numbered, Idle
    <3> QED BY <3>1, <1>1, <1>2, <1>6 DEF SettledFile, Busy, Numbered
  <2>3. i \in DOMAIN files'
    BY <1>6
  <2> QED BY <1>1, <1>2, <2>1, <2>2, <2>3 DEF SavedSettled
<1> QED BY <1>5, <1>7, <1>8, <1>9, <1>10

\* The main thread, outside the pools: files change only when they are removed,
\* after the phases in which SavedSettled says something.
LEMMA MainStep ==
    ASSUME IInv, Main
    PROVE  IInv'
<1> USE DEF IInv, DirectoryInvariant
<1>1. /\ UNCHANGED <<pools, session, ghosts>>
      /\ phase = "run" => \A w \in Workers : ~ Busy(w)
  BY DEF Main, OpenMetadata, WriteMetadata, MakeTestsDir, RunReturns, OpenResults,
         WriteResults, UnlinkMetadata, RemoveEntry, RemoveTestsDir, Joined, Busy, Numbered
<1>2. \A w \in Workers : work[w].pc = "idle" /\ work'[w].pc = "idle"
  BY <1>1 DEF BusyNumbered, Busy, Numbered, pools
<1>3. OneWriterPerFile' /\ BusyNumbered' /\ TmpReady'
  BY <1>2 DEF OneWriterPerFile, BusyNumbered, TmpReady, Busy, Numbered
<1>4. CASE RemoveEntry
  <2>1. /\ DOMAIN files' \subseteq DOMAIN files /\ files' \in [DOMAIN files' -> Entry]
        /\ DOMAIN tmps' \subseteq DOMAIN tmps /\ tmps' \in [DOMAIN tmps' -> Entry]
    <3>1. PICK i \in Nat :
            \/ files' = Drop(files, i) /\ tmps' = tmps
            \/ tmps' = Drop(tmps, i) /\ files' = files
      BY <1>4 DEF RemoveEntry, TypeOK
    <3>2. /\ DOMAIN files \subseteq Nat /\ files \in [DOMAIN files -> Entry]
          /\ DOMAIN tmps \subseteq Nat /\ tmps \in [DOMAIN tmps -> Entry]
      BY DEF TypeOK
    <3>3. CASE files' = Drop(files, i) /\ tmps' = tmps
      BY <3>2, <3>3, DropType
    <3>4. CASE tmps' = Drop(tmps, i) /\ files' = files
      BY <3>2, <3>4, DropType
    <3> QED BY <3>1, <3>3, <3>4
  <2>2. TypeOK' /\ FilesBounded'
    BY <1>4, <2>1, <1>1 DEF RemoveEntry, TypeOK, FilesBounded, pools, ghosts
  <2>3. SavedSettled'
    BY <1>4 DEF RemoveEntry, SavedSettled
  <2> QED BY <1>3, <2>2, <2>3
<1>5. CASE ~ RemoveEntry
  <2>1. UNCHANGED files /\ UNCHANGED tmps
    BY <1>5 DEF Main, OpenMetadata, WriteMetadata, MakeTestsDir, RunReturns,
         OpenResults, WriteResults, UnlinkMetadata, RemoveTestsDir, disk
  <2>2. TypeOK'
    <3>1. CASE OpenMetadata \/ WriteMetadata \/ MakeTestsDir \/ UnlinkMetadata
               \/ RemoveTestsDir \/ RunReturns
      BY <3>1, <1>1, <2>1 DEF TypeOK, Phases, pools, ghosts, disk, OpenMetadata,
         WriteMetadata, MakeTestsDir, RunReturns, UnlinkMetadata, RemoveTestsDir
    <3>2. CASE OpenResults
      BY <3>2, <1>1, <2>1 DEF TypeOK, Phases, pools, ghosts, OpenResults, Empty
    <3>3. CASE WriteResults
      BY <3>3, <1>1, <2>1, ViewFacts DEF TypeOK, Phases, pools, ghosts, WriteResults
    <3> QED BY <3>1, <3>2, <3>3, <1>5 DEF Main
  <2>3. FilesBounded'
    BY <2>1 DEF FilesBounded
  <2>4. SavedSettled'
    <3>1. phase' \notin {"rmtree", "done", "failed", "down"} =>
          phase \notin {"rmtree", "done", "failed", "down"}
      BY <1>5 DEF Main, OpenMetadata, WriteMetadata, MakeTestsDir, RunReturns,
         OpenResults, WriteResults, UnlinkMetadata, RemoveTestsDir
    <3> QED BY <3>1, <1>1, <1>2, <2>1 DEF SavedSettled, SettledFile, Busy, Numbered, pools, ghosts
  <2> QED BY <1>3, <2>2, <2>3, <2>4
<1> QED BY <1>4, <1>5

\* A kill, or a resume that loads or is refused: the disk stays, no thread is
\* busy, and nothing is saved yet by a session that starts.
LEMMA SessionStep ==
    ASSUME IInv, Kill \/ User
    PROVE  IInv'
<1> USE DEF IInv, DirectoryInvariant
<1>1. UNCHANGED disk /\ work' = AllIdle /\ todo' \subseteq DOMAIN Profile
      /\ aborted' = FALSE /\ session' \in Nat /\ recorded' = recorded
  BY DEF Kill, User, Resume, ResumeRefused, Remaining, TypeOK, ghosts, disk
<1>2. counter' \in Nat
  BY LoadedType, StartCountType DEF Kill, User, Resume, ResumeRefused
<1>3. /\ phase' \in Phases /\ saved' \subseteq saved
      /\ phase' \in {"down", "failed"} \/ saved' = {}
  BY DEF Kill, User, Resume, ResumeRefused, Phases, ghosts
<1>4. TypeOK'
  BY <1>1, <1>2, <1>3 DEF TypeOK, disk, AllIdle, Idle, PCs
<1>5. OneWriterPerFile' /\ BusyNumbered' /\ TmpReady'
  BY <1>1 DEF OneWriterPerFile, BusyNumbered, TmpReady, Busy, Numbered, AllIdle, Idle
<1>6. SavedSettled' /\ FilesBounded'
  BY <1>1, <1>3 DEF SavedSettled, FilesBounded, disk
<1> QED BY <1>4, <1>5, <1>6

\* Every step of a thread, of the main thread, of a kill or of a user keeps it.
LEMMA StepInvariant == IInv /\ [Next]_vars => IInv'
<1> SUFFICES ASSUME IInv, [Next]_vars PROVE IInv'
  OBVIOUS
<1>1. CASE Main
  BY <1>1, MainStep
<1>2. ASSUME NEW w \in Workers, Worker(w) PROVE IInv'
  BY <1>2, TakeStep, NumberStep, PlaceholderStep, NoFileStep, TmpStep, MoveStep DEF Worker
<1>3. CASE Kill \/ User
  BY <1>3, SessionStep
<1>4. CASE UNCHANGED vars
  BY <1>4 DEF vars, disk, pools, ghosts, IInv, DirectoryInvariant, TypeOK,
     OneWriterPerFile, BusyNumbered, TmpReady, SavedSettled, SettledFile, Busy,
     Numbered, FilesBounded
<1> QED BY <1>1, <1>2, <1>3, <1>4 DEF Next

\* The invariant of the directory holds of every behaviour.
LEMMA InvariantHolds == Spec => []IInv
<1> QED BY InitInvariant, StepInvariant, PTL DEF Spec

-----------------------------------------------------------------------------
(***************************************************************************)
(* What follows for every constant.                                        *)
(***************************************************************************)

\* The state always has its type: in particular a resumed run starts from a
\* number, and what is published is a status per test.
THEOREM TypeCorrect == Spec => []TypeOK
<1>1. IInv => TypeOK
  BY DEF IInv, DirectoryInvariant
<1> QED BY <1>1, InvariantHolds, PTL

\* However many threads and sessions there are, two threads never write the
\* same N.json.
THEOREM NoSharedFile == Spec => []OneWriterPerFile
<1>1. IInv => OneWriterPerFile
  BY DEF IInv, DirectoryInvariant
<1> QED BY <1>1, InvariantHolds, PTL

\* However many threads there are and whatever fails, a session does not lose a
\* result it saved before it has published it.
THEOREM SavedStays == Spec => []SavedResultsStay
<1>1. IInv => SavedResultsStay
  BY DEF IInv, DirectoryInvariant, SavedSettled, SettledFile, SavedResultsStay
<1> QED BY <1>1, InvariantHolds, PTL

-----------------------------------------------------------------------------
(***************************************************************************)
(* Nothing is reported finished that was not.  Only Move writes "done"     *)
(* where a reader looks, and what it moves is the result of the thread     *)
(* that moves it (TmpReady); what is published comes from such files.      *)
(***************************************************************************)
LEMMA ReportedStep ==
    ASSUME IInv, OnlyRecordedIsReported, [Next]_vars
    PROVE  OnlyRecordedIsReported'
<1> USE DEF OnlyRecordedIsReported
<1>1. TypeOK /\ TmpReady /\ FilesBounded
  BY DEF IInv, DirectoryInvariant
<1>2. ASSUME NEW w \in Workers, OpenPlaceholder(w) \/ WritePlaceholder(w)
      PROVE  OnlyRecordedIsReported'
  <2>1. PICK i, b :
          /\ b # "done"
          /\ \/ files' = Put(files, i, [name |-> work[w].test, body |-> b])
             \/ files' = files
    BY <1>2 DEF OpenPlaceholder, WritePlaceholder, Placeholder
  <2>2. UNCHANGED <<published, recorded>>
    BY <1>2 DEF OpenPlaceholder, WritePlaceholder, ghosts
  <2> QED BY <2>1, <2>2 DEF Put
<1>3. ASSUME NEW w \in Workers, Move(w)
      PROVE  OnlyRecordedIsReported'
  <2>1. PICK i : files' = Put(files, i, [name |-> work[w].test, body |-> "done"])
    BY <1>1, <1>3 DEF Move, At, TmpReady, FileOf
  <2>2. recorded' = recorded \cup {work[w].test} /\ UNCHANGED published
    BY <1>3 DEF Move
  <2> QED BY <2>1, <2>2 DEF Put
<1>4. CASE RemoveEntry
  BY <1>4 DEF RemoveEntry, Drop, ghosts
<1>5. CASE WriteResults
  BY <1>1, <1>5, ViewFacts DEF WriteResults, ghosts
<1>6. CASE OpenResults
  BY <1>6 DEF OpenResults, Empty, ghosts
<1>7. ASSUME NEW w \in Workers,
             Take(w) \/ Number(w) \/ WriteFails(w) \/ Execute(w) \/ OpenTmp(w)
             \/ WriteTmp(w)
      PROVE  OnlyRecordedIsReported'
  BY <1>7 DEF Take, Number, WriteFails, Execute, OpenTmp, WriteTmp, disk, ghosts
<1>8. CASE OpenMetadata \/ WriteMetadata \/ MakeTestsDir \/ RunReturns
           \/ UnlinkMetadata \/ RemoveTestsDir
  BY <1>8 DEF OpenMetadata, WriteMetadata, MakeTestsDir, RunReturns,
     UnlinkMetadata, RemoveTestsDir, disk, ghosts
<1>9. CASE Kill \/ User \/ UNCHANGED vars
  BY <1>9 DEF Kill, User, Resume, ResumeRefused, vars, disk, ghosts
<1> QED BY <1>2, <1>3, <1>4, <1>5, <1>6, <1>7, <1>8, <1>9 DEF Next, Main, Worker

\* In whatever order threads, kills and resumes act, no file and no results
\* file says "done" of a test whose result was not moved in place.
THEOREM NothingInvented == Spec => []OnlyRecordedIsReported
<1>1. Init => OnlyRecordedIsReported
  BY DEF Init, OnlyRecordedIsReported, Empty
<1> QED BY <1>1, ReportedStep, InvariantHolds, PTL DEF Spec

-----------------------------------------------------------------------------
\* While finalize writes the results file, the file is torn.
WritingIsTorn == phase = "write" => results = "torn"

\* Without jsonstreams, a results file that is all there is stays as it is
\* through every later session: finalize stops before it opens the file.
THEOREM FinalStays ==
    ASSUME Streams = FALSE
    PROVE  Spec => FinalResultsKept
<1>1. Init => WritingIsTorn
  BY DEF Init, WritingIsTorn
<1>2. WritingIsTorn /\ [Next]_vars => WritingIsTorn'
  <2> SUFFICES ASSUME WritingIsTorn, [Next]_vars, phase' = "write"
               PROVE  results' = "torn"
    BY DEF WritingIsTorn
  <2>1. CASE Main
    BY <2>1 DEF Main, OpenMetadata, WriteMetadata, MakeTestsDir, RunReturns,
       OpenResults, WriteResults, UnlinkMetadata, RemoveEntry, RemoveTestsDir,
       WritingIsTorn
  <2>2. ASSUME NEW w \in Workers, Worker(w) PROVE results' = "torn"
    BY <2>2 DEF Worker, Take, Number, OpenPlaceholder, WritePlaceholder, WriteFails,
       Execute, OpenTmp, WriteTmp, Move, At, disk, WritingIsTorn
  <2>3. CASE Kill \/ User
    BY <2>3 DEF Kill, User, Resume, ResumeRefused
  <2>4. CASE UNCHANGED vars
    BY <2>4 DEF vars, disk, WritingIsTorn
  <2> QED BY <2>1, <2>2, <2>3, <2>4 DEF Next
<1>3. WritingIsTorn /\ [Next]_vars =>
        (results = "ok" /\ meta = "absent" => results' = "ok" /\ published' = published)
  <2> SUFFICES ASSUME WritingIsTorn, [Next]_vars, results = "ok", meta = "absent"
               PROVE  UNCHANGED <<results, published>>
    OBVIOUS
  <2>1. CASE OpenResults
    BY <2>1 DEF OpenResults, CanOpenResults
  <2>2. CASE WriteResults
    BY <2>2 DEF WriteResults, WritingIsTorn
  <2>3. CASE OpenMetadata \/ WriteMetadata \/ MakeTestsDir \/ RunReturns
             \/ UnlinkMetadata \/ RemoveEntry \/ RemoveTestsDir
    BY <2>3 DEF OpenMetadata, WriteMetadata, MakeTestsDir, RunReturns,
       UnlinkMetadata, RemoveEntry, RemoveTestsDir, disk
  <2>4. ASSUME NEW w \in Workers, Worker(w) PROVE UNCHANGED <<results, published>>
    BY <2>4 DEF Worker, Take, Number, OpenPlaceholder, WritePlaceholder, WriteFails,
       Execute, OpenTmp, WriteTmp, Move, disk
  <2>5. CASE Kill \/ User
    BY <2>5 DEF Kill, User, Resume, ResumeRefused, disk
  <2>6. CASE UNCHANGED vars
    BY <2>6 DEF vars, disk
  <2> QED BY <2>1, <2>2, <2>3, <2>4, <2>5, <2>6 DEF Next, Main
<1> QED BY <1>1, <1>2, <1>3, PTL DEF Spec, FinalResultsKept

-----------------------------------------------------------------------------
(***************************************************************************)
(* What a kill leaves can be loaded, when results.json is written in one   *)
(* piece: metadata.json is there beside the files of tests/ until the      *)
(* results file is complete, and not a step less.                          *)
(***************************************************************************)
Kept ==
    \/ meta = "ok" /\ testsDir /\ DOMAIN files # {}
    \/ meta = "absent" /\ results = "ok"

LoadInv ==
    /\ results \in {"absent", "torn", "ok"}
    /\ recorded # {} => Kept
    /\ results # "absent" => meta = "absent" \/ (meta = "ok" /\ testsDir)
    /\ phase \in {"init", "meta", "mkdir"} => recorded = {} /\ results = "absent"
    /\ phase = "mkdir" => meta = "ok"
    /\ phase \in {"run", "finalize"} =>
         (meta = "ok" /\ testsDir) \/ (meta = "absent" /\ results = "ok")
    /\ phase \in {"rmtree", "done"} => results = "ok"
    /\ phase \in {"write", "unlink"} => meta = "ok" /\ testsDir
    /\ phase = "unlink" => results = "ok"
    /\ phase = "rmtree" => meta = "absent"

LEMMA LoadStep ==
    ASSUME Streams = FALSE, LoadInv, [Next]_vars
    PROVE  LoadInv'
<1> USE DEF LoadInv, Kept
<1>1. CASE Main
  BY <1>1 DEF Main, OpenMetadata, WriteMetadata, MakeTestsDir, RunReturns, OpenResults,
     CanOpenResults, WriteResults, UnlinkMetadata, RemoveEntry, RemoveTestsDir, disk, ghosts
<1>2. ASSUME NEW w \in Workers, Worker(w)  PROVE  LoadInv'
  <2>1. phase = "run" /\ phase' = "run" /\ UNCHANGED <<meta, testsDir, results>>
    BY <1>2 DEF Worker, Take, Number, OpenPlaceholder, WritePlaceholder, WriteFails,
       Execute, OpenTmp, WriteTmp, Move, At, disk
  <2>2. DOMAIN files # {} => DOMAIN files' # {}
    BY <1>2 DEF Worker, Take, Number, OpenPlaceholder, WritePlaceholder, WriteFails,
       Execute, OpenTmp, WriteTmp, Move, disk, Put
  <2>3. UNCHANGED recorded \/ DOMAIN files' # {}
    BY <1>2 DEF Worker, Take, Number, OpenPlaceholder, WritePlaceholder, WriteFails,
       Execute, OpenTmp, WriteTmp, Move, ghosts, Put
  <2> QED BY <2>1, <2>2, <2>3
<1>3. CASE Kill
  BY <1>3 DEF Kill, disk, ghosts
<1>4. CASE User
  BY <1>4 DEF User, Resume, ResumeRefused, Loadable, LoadsPartial, disk
<1>5. CASE UNCHANGED vars
  BY <1>5 DEF vars, disk, ghosts
<1> QED BY <1>1, <1>2, <1>3, <1>4, <1>5 DEF Next

\* For any number of tests, threads and sessions, whatever fails and whether the
\* results file is compressed or not: a killed session that recorded something
\* leaves a directory resume can load, or one of the two that are in its way.
THEOREM KilledLoads ==
    ASSUME Streams = FALSE
    PROVE  Spec => []KilledIsLoadable
<1>1. Init => LoadInv
  BY DEF Init, LoadInv
<1>2. LoadInv /\ [Next]_vars => LoadInv'
  BY LoadStep
<1>3. LoadInv => KilledIsLoadable
  <2> SUFFICES ASSUME Kept, results \in {"absent", "torn", "ok"}
               PROVE  Loads <=> ~TmpInTheWay /\ ~ResultsInTheWay
    BY DEF LoadInv, KilledIsLoadable
  <2> QED BY OptionsAssumption DEF Kept, Loads, Loadable, LoadsPartial, MayNotDetect, TmpInTheWay,
     ResultsInTheWay
<1> QED BY <1>1, <1>2, <1>3, PTL DEF Spec

-----------------------------------------------------------------------------
(***************************************************************************)
(* One "piglit run".                                                       *)
(***************************************************************************)

\* Within a run a name stands for one test.
NoRepetition == \A p, q \in DOMAIN Profile : Profile[p] = Profile[q] => p = q

First == session = 1

\* The invariant: what is true of any session, and of the first.
RInv == IInv /\ session > 0 /\ FirstSessionInvariant

-----------------------------------------------------------------------------
(***************************************************************************)
(* Preservation of FirstSessionInvariant.                                  *)
(***************************************************************************)

\* A new run has an empty directory and the whole profile to do.
LEMMA FirstInit == Init => RInv
<1> SUFFICES ASSUME Init PROVE RInv
  OBVIOUS
<1>1. IInv /\ session > 0
  BY InitInvariant DEF Init
<1>2. OneFilePerTest
  BY DEF Init, OneFilePerTest, AllIdle, Idle, Busy, Empty
<1>3. FileFollowsThread /\ StageOfDirectory /\ RecordedIsThere
  BY DEF Init, FileFollowsThread, StageOfDirectory, RecordedIsThere, AllIdle, Idle
<1> QED BY <1>1, <1>2, <1>3 DEF RInv, FirstSessionInvariant

\* Sessions follow each other.
LEMMA SessionGrows ==
    ASSUME [Next]_vars
    PROVE  session' = session \/ (CanResume /\ session' = session + 1)
BY DEF Next, Main, Worker, Kill, User, Resume, ResumeRefused, vars,
   OpenMetadata, WriteMetadata, MakeTestsDir, RunReturns, OpenResults,
   WriteResults, UnlinkMetadata, RemoveEntry, RemoveTestsDir, Take, Number,
   OpenPlaceholder, WritePlaceholder, WriteFails, Execute, OpenTmp, WriteTmp, Move

\* In the first session the invariant is about two states of it.
LEMMA FirstBefore ==
    ASSUME RInv, [Next]_vars, First'
    PROVE  /\ First
           /\ OneFilePerTest /\ FileFollowsThread
           /\ StageOfDirectory /\ RecordedIsThere
<1>1. session \in Nat /\ session > 0
  BY DEF RInv, IInv, DirectoryInvariant, TypeOK
<1>2. session' = session \/ session' = session + 1
  BY SessionGrows
<1>3. First
  BY <1>1, <1>2 DEF First
<1> QED BY <1>3 DEF RInv, FirstSessionInvariant, First

\* Take: the test is in no file, and no other thread has it.
LEMMA FirstTake ==
    ASSUME NoRepetition, RInv, First, NEW w \in Workers, Take(w)
    PROVE  FirstSessionInvariant'
<1>1. /\ OneFilePerTest /\ FileFollowsThread
      /\ StageOfDirectory /\ RecordedIsThere /\ TypeOK
  BY DEF RInv, First, FirstSessionInvariant, IInv, DirectoryInvariant
<1>2. PICK p \in todo :
        /\ todo' = todo \ {p}
        /\ work' = [work EXCEPT ![w] = [pc |-> "number", test |-> Profile[p], idx |-> 0]]
  BY DEF Take
<1>3. /\ phase = "run"
      /\ UNCHANGED <<files, phase, counter, meta, results, published, saved, recorded>>
  BY DEF Take, At, disk, ghosts
<1>4. /\ work'[w] = [pc |-> "number", test |-> Profile[p], idx |-> 0]
      /\ \A v \in Workers : v # w => work'[v] = work[v]
  BY <1>1, <1>2 DEF TypeOK
<1>5. \A q \in todo' : q \in todo /\ Profile[q] # Profile[p]
  BY <1>1, <1>2 DEF NoRepetition, TypeOK
<1>6. OneFilePerTest'
  BY <1>1, <1>3, <1>4, <1>5 DEF OneFilePerTest, Busy, Numbered
<1>7. FileFollowsThread'
  BY <1>1, <1>3, <1>4 DEF FileFollowsThread, FileOf
<1>8. StageOfDirectory' /\ RecordedIsThere'
  BY <1>1, <1>3 DEF StageOfDirectory, RecordedIsThere
<1> QED BY <1>6, <1>7, <1>8 DEF FirstSessionInvariant

\* Number: no file has the number yet.
LEMMA FirstNumber ==
    ASSUME RInv, First, NEW w \in Workers, Number(w)
    PROVE  FirstSessionInvariant'
<1>1. /\ OneFilePerTest /\ FileFollowsThread
      /\ StageOfDirectory /\ RecordedIsThere /\ TypeOK
  BY DEF RInv, First, FirstSessionInvariant, IInv, DirectoryInvariant
<1>2. /\ work' = [work EXCEPT ![w] = [@ EXCEPT !.pc = "open", !.idx = counter]]
      /\ work[w].pc = "number" /\ phase = "run"
      /\ counter' = counter + 1 /\ counter \in Nat
      /\ UNCHANGED <<files, phase, todo, meta, results, published, saved, recorded>>
  BY <1>1 DEF Number, At, Bump, disk, ghosts, TypeOK
<1>3. /\ work'[w].pc = "open" /\ work'[w].test = work[w].test /\ work'[w].idx = counter
      /\ \A v \in Workers : v # w => work'[v] = work[v]
  BY <1>1, <1>2 DEF TypeOK
<1>4. /\ \A i \in DOMAIN files : i < counter /\ i < counter' /\ i \in Nat
      /\ counter \notin DOMAIN files
  BY <1>1, <1>2 DEF OneFilePerTest, TypeOK
<1>5. OneFilePerTest'
  BY <1>1, <1>2, <1>3, <1>4 DEF OneFilePerTest, Busy, Numbered
<1>6. FileFollowsThread'
  BY <1>1, <1>2, <1>3, <1>4 DEF FileFollowsThread, FileOf
<1>7. StageOfDirectory' /\ RecordedIsThere'
  BY <1>1, <1>2 DEF StageOfDirectory, RecordedIsThere
<1> QED BY <1>5, <1>6, <1>7 DEF FirstSessionInvariant

\* A step of a thread with a number that changes no file but its own, and that one to
\* what the thread's place in write_test says.
LEMMA FirstOwnFile ==
    ASSUME RInv, IInv', First, NEW w \in Workers, Numbered(w), phase = "run",
           UNCHANGED <<phase, session, todo, counter, meta, results, published, ghosts>>,
           work'[w].pc # "idle" =>
               work'[w].idx = work[w].idx /\ work'[w].test = work[w].test,
           \A v \in Workers : v # w => work'[v] = work[v],
           NEW b \in Bodies,
           \/ /\ files' = Put(files, work[w].idx, [name |-> work[w].test, body |-> b])
              /\ work'[w].pc \in {"placeholder", "execute"}
              /\ work'[w].pc = "placeholder" => b = "torn"
              /\ work'[w].pc = "execute" => b = "incomplete"
           \/ /\ files' = files
              /\ work'[w].pc \in {"idle", "opentmp", "writetmp", "move"}
              /\ work'[w].pc # "idle" =>
                   work[w].pc \in {"execute", "opentmp", "writetmp"}
    PROVE  FirstSessionInvariant'
<1>1. /\ OneFilePerTest /\ FileFollowsThread
      /\ StageOfDirectory /\ RecordedIsThere
      /\ IInv /\ OneWriterPerFile /\ BusyNumbered
      /\ counter \in Nat
      /\ \A v \in Workers : work[v].idx \in Nat
  BY DEF RInv, First, FirstSessionInvariant, IInv, DirectoryInvariant, TypeOK
<1> DEFINE i == work[w].idx
<1> DEFINE e == [name |-> work[w].test, body |-> b]
<1>2. files' = files \/ files' = Put(files, i, e)
  OBVIOUS
<1>3. /\ \A j \in DOMAIN files : j # i => j \in DOMAIN files' /\ files'[j] = files[j]
      /\ \A j \in DOMAIN files' : j # i => j \in DOMAIN files /\ files'[j] = files[j]
      /\ i \in DOMAIN files' => (files'[i] = files[i] /\ i \in DOMAIN files) \/ files'[i] = e
      /\ files' # files => i \in DOMAIN files' /\ files'[i] = e
  <2> HIDE DEF e, i
  <2> QED BY <1>2, Zenon DEF Put
<1>4. /\ i < counter /\ Busy(w) /\ e.name = work[w].test
      /\ \A j \in DOMAIN files : files[j].name = e.name <=> j = i
  BY <1>1 DEF BusyNumbered, OneFilePerTest, Numbered, Busy
<1>5. OneFilePerTest'
  <2>1. \A j \in DOMAIN files' : files'[j].name = e.name <=> j = i
    <3> HIDE DEF e, i
    <3> QED BY <1>3, <1>4
  <2>2. \A j, k \in DOMAIN files' : files'[j].name = files'[k].name => j = k
    <3> HIDE DEF e, i
    <3> QED BY <1>1, <1>3, <2>1 DEF OneFilePerTest
  <2>3. \A j \in DOMAIN files' : j < counter
    <3> HIDE DEF e, i
    <3> QED BY <1>1, <1>3, <1>4 DEF OneFilePerTest
  <2>4. \A p \in todo : e.name # Profile[p]
    BY <1>1, <1>4 DEF OneFilePerTest
  <2>5. \A j \in DOMAIN files', p \in todo : files'[j].name # Profile[p]
    <3> HIDE DEF e, i
    <3> QED BY <1>1, <1>3, <1>4, <2>1, <2>4 DEF OneFilePerTest
  <2>6. Busy(w)' => Numbered(w)' /\ work'[w].test = e.name /\ work'[w].idx = i
    BY <1>4 DEF Busy, Numbered
  <2>7. ASSUME NEW v \in Workers, v # w, Busy(v)'
        PROVE  /\ \A p \in todo : work'[v].test # Profile[p]
               /\ work'[v].test # e.name
               /\ \A u \in Workers : u # v /\ Busy(u)' => work'[u].test # work'[v].test
               /\ \A j \in DOMAIN files' :
                    files'[j].name = work'[v].test <=> Numbered(v)' /\ j = work'[v].idx
    <3>1. work'[v] = work[v] /\ Busy(v)
      BY <2>7 DEF Busy
    <3>2. /\ \A p \in todo : work[v].test # Profile[p]
          /\ work[v].test # work[w].test
          /\ \A u \in Workers : u # v /\ Busy(u) => work[u].test # work[v].test
          /\ \A j \in DOMAIN files :
               files[j].name = work[v].test <=> Numbered(v) /\ j = work[v].idx
          /\ Numbered(v) => work[v].idx # i
      BY <1>1, <1>4, <2>7, <3>1 DEF OneFilePerTest, OneWriterPerFile
    <3>3. \A j \in DOMAIN files' :
            files'[j].name = work[v].test <=> Numbered(v) /\ j = work[v].idx
      <4> HIDE DEF e, i
      <4> QED BY <1>3, <1>4, <2>1, <3>2
    <3> QED BY <1>4, <2>6, <3>1, <3>2, <3>3 DEF Busy, Numbered
  <2> QED BY <1>1, <2>1, <2>2, <2>3, <2>4, <2>5, <2>6, <2>7 DEF OneFilePerTest
<1>6. FileFollowsThread'
  <2>1. ASSUME NEW v \in Workers, v # w, Numbered(v)
        PROVE  /\ work'[v] = work[v] /\ work[v].idx # i
               /\ work[v].idx \in DOMAIN files <=> work[v].idx \in DOMAIN files'
               /\ work[v].idx \in DOMAIN files => files'[work[v].idx] = files[work[v].idx]
    <3>1. work[v].idx # i /\ work'[v] = work[v]
      BY <1>1, <2>1 DEF OneWriterPerFile
    <3> HIDE DEF i
    <3> QED BY <3>1, <1>3
  <2>2. \A v \in Workers : v # w /\ ~ Numbered(v) => work'[v].pc \in {"idle", "number"}
    BY DEF Numbered
  <2>3. /\ work'[w].pc # "open"
        /\ work'[w].pc = "placeholder" =>
             i \in DOMAIN files' /\ files'[i].body = "torn"
        /\ work'[w].pc \in {"execute", "opentmp", "writetmp", "move"} =>
             i \in DOMAIN files' /\ files'[i].body = "incomplete"
    <3>1. CASE files' = files /\ work'[w].pc \in {"idle", "opentmp", "writetmp", "move"}
      BY <3>1, <1>1 DEF FileFollowsThread, FileOf
    <3>2. CASE files' = Put(files, i, e)
               /\ work'[w].pc \in {"placeholder", "execute"}
      <4>1. i \in DOMAIN files' /\ files'[i] = e
        <5> HIDE DEF e, i
        <5> QED BY <3>2, Zenon DEF Put
      <4> QED BY <4>1, <3>2
    <3> QED BY <3>1, <3>2
  <2>4. ASSUME NEW v \in Workers
        PROVE  /\ work'[v].pc = "open" => work'[v].idx \notin DOMAIN files'
               /\ work'[v].pc = "placeholder" =>
                    work'[v].idx \in DOMAIN files' /\ files'[work'[v].idx].body = "torn"
               /\ work'[v].pc \in {"execute", "opentmp", "writetmp", "move"} =>
                    work'[v].idx \in DOMAIN files' /\ files'[work'[v].idx].body = "incomplete"
    <3>1. CASE v = w
      BY <3>1, <2>3
    <3>2. CASE v # w /\ Numbered(v)
      BY <3>2, <2>1, <1>1 DEF FileFollowsThread, FileOf
    <3>3. CASE v # w /\ ~ Numbered(v)
      BY <3>3, <2>2
    <3> QED BY <3>1, <3>2, <3>3
  <2> QED BY <2>4 DEF FileFollowsThread, FileOf
<1>7. StageOfDirectory'
  BY <1>1 DEF StageOfDirectory
<1>8. RecordedIsThere'
  <2>1. SavedResultsStay'
    BY DEF IInv, DirectoryInvariant, SavedSettled, SettledFile, SavedResultsStay
  <2>2. meta = "ok"
    BY <1>1 DEF StageOfDirectory
  <2> QED BY <1>1, <2>1, <2>2 DEF RecordedIsThere, SavedResultsStay, ghosts
<1> QED BY <1>5, <1>6, <1>7, <1>8 DEF FirstSessionInvariant

\* Placeholders, the execution, the .tmp and a failing write are such steps.
LEMMA FirstWrite ==
    ASSUME RInv, IInv', First, NEW w \in Workers,
           \/ OpenPlaceholder(w) \/ WritePlaceholder(w) \/ WriteFails(w)
           \/ Execute(w) \/ OpenTmp(w) \/ WriteTmp(w)
    PROVE  FirstSessionInvariant'
<1>1. TypeOK /\ Numbered(w) /\ phase = "run"
      /\ UNCHANGED <<phase, session, todo, counter, meta, results, published, ghosts>>
  BY DEF RInv, IInv, DirectoryInvariant, OpenPlaceholder, WritePlaceholder,
     WriteFails, Execute, OpenTmp, WriteTmp, At, Numbered, disk
<1>2. PICK pc \in PCs, b \in Bodies :
        /\ Step(w, pc) \/ (pc = "idle" /\ GiveUp(w))
        /\ \/ /\ files' = Put(files, work[w].idx, [name |-> work[w].test, body |-> b])
              /\ pc \in {"placeholder", "execute"}
              /\ pc = "placeholder" => b = "torn"
              /\ pc = "execute" => b = "incomplete"
           \/ /\ files' = files
              /\ pc \in {"idle", "opentmp", "writetmp", "move"}
              /\ pc # "idle" => work[w].pc \in {"execute", "opentmp", "writetmp"}
  <2>1. CASE OpenPlaceholder(w)
    BY <2>1 DEF OpenPlaceholder, FileOf, PCs, Bodies
  <2>2. CASE WritePlaceholder(w)
    BY <2>2 DEF WritePlaceholder, FileOf, Placeholder, PCs, Bodies
  <2>3. CASE WriteFails(w) \/ Execute(w)
    BY <2>3 DEF WriteFails, Execute, At, disk, PCs, Bodies
  <2>4. CASE OpenTmp(w) \/ WriteTmp(w)
    BY <2>4 DEF OpenTmp, WriteTmp, At, PCs, Bodies
  <2> QED BY <2>1, <2>2, <2>3, <2>4
<1>3. /\ work'[w].pc = pc
      /\ pc # "idle" => work'[w].idx = work[w].idx /\ work'[w].test = work[w].test
      /\ \A v \in Workers : v # w => work'[v] = work[v]
  BY <1>1, <1>2, StepFacts DEF PCs
<1> QED BY <1>1, <1>2, <1>3, FirstOwnFile

\* Move: the thread's own file gets its result, and the thread is done with it.
LEMMA FirstMove ==
    ASSUME RInv, IInv', First, NEW w \in Workers, Move(w)
    PROVE  FirstSessionInvariant'
<1>1. /\ OneFilePerTest /\ FileFollowsThread
      /\ StageOfDirectory /\ RecordedIsThere
      /\ TypeOK /\ OneWriterPerFile /\ BusyNumbered /\ TmpReady
  BY DEF RInv, First, FirstSessionInvariant, IInv, DirectoryInvariant
<1>2. /\ Busy(w) /\ Numbered(w) /\ phase = "run"
      /\ work[w].test \in Tests /\ work[w].idx \in Nat
  BY <1>1 DEF Move, At, Busy, Numbered, BusyNumbered, TypeOK
<1>3. PICK i \in Nat, e \in Entry :
        /\ i = work[w].idx /\ i < counter
        /\ e = [name |-> work[w].test, body |-> "done"]
        /\ files' = Put(files, i, e)
        /\ work' = [work EXCEPT ![w] = Idle]
        /\ saved' = saved \cup {work[w].test}
        /\ recorded' = recorded \cup {work[w].test}
        /\ todo' = todo \/ todo' = {}
        /\ UNCHANGED <<meta, results, published, phase, counter, session>>
  BY <1>1, <1>2 DEF Move, FileOf, TmpReady, At, BusyNumbered, Entry, Bodies
<1>4. /\ work'[w].pc = "idle"
      /\ \A v \in Workers : v # w => work'[v] = work[v]
  BY <1>1, <1>3 DEF TypeOK, Idle
<1>5. /\ DOMAIN files' = DOMAIN files \cup {i}
      /\ files'[i] = e
      /\ \A j \in DOMAIN files : j # i => files'[j] = files[j]
  BY <1>3, Zenon DEF Put
<1>6. OneFilePerTest'
  <2>1. /\ i \in DOMAIN files /\ DOMAIN files' = DOMAIN files
        /\ files[i].name = work[w].test
        /\ \A j \in DOMAIN files' : files'[j].name = files[j].name
    <3>1. i \in DOMAIN files
      BY <1>1, <1>3 DEF Move, At, FileFollowsThread, FileOf
    <3>2. files[i].name = work[w].test
      BY <1>1, <1>2, <1>3, <3>1 DEF OneFilePerTest
    <3> QED BY <1>3, <1>5, <3>1, <3>2
  <2>2. \A v \in Workers : Busy(v)' => v # w /\ work'[v] = work[v] /\ Busy(v)
    BY <1>4 DEF Busy
  <2>3. \A v \in Workers : Busy(v)' => (Numbered(v)' <=> Numbered(v))
    BY <2>2 DEF Numbered
  <2> QED BY <1>1, <1>3, <2>1, <2>2, <2>3 DEF OneFilePerTest
<1>7. FileFollowsThread'
  <2>1. ASSUME NEW v \in Workers, v # w, Numbered(v)
        PROVE  /\ work'[v] = work[v] /\ work[v].idx # i
               /\ work[v].idx \in DOMAIN files <=> work[v].idx \in DOMAIN files'
               /\ work[v].idx \in DOMAIN files => files'[work[v].idx] = files[work[v].idx]
    BY <1>1, <1>2, <1>3, <1>4, <1>5, <2>1 DEF OneWriterPerFile
  <2>2. \A v \in Workers : v # w /\ ~ Numbered(v) => work'[v].pc \in {"idle", "number"}
    BY <1>4 DEF Numbered
  <2>3. ASSUME NEW v \in Workers
        PROVE  /\ work'[v].pc = "open" => work'[v].idx \notin DOMAIN files'
               /\ work'[v].pc = "placeholder" =>
                    work'[v].idx \in DOMAIN files' /\ files'[work'[v].idx].body = "torn"
               /\ work'[v].pc \in {"execute", "opentmp", "writetmp", "move"} =>
                    work'[v].idx \in DOMAIN files' /\ files'[work'[v].idx].body = "incomplete"
    <3>1. CASE v = w
      BY <3>1, <1>4
    <3>2. CASE v # w /\ Numbered(v)
      BY <3>2, <2>1, <1>1 DEF FileFollowsThread, FileOf
    <3>3. CASE v # w /\ ~ Numbered(v)
      BY <3>3, <2>2
    <3> QED BY <3>1, <3>2, <3>3
  <2> QED BY <2>3 DEF FileFollowsThread, FileOf
<1>8. StageOfDirectory'
  BY <1>1, <1>2, <1>3 DEF StageOfDirectory
<1>9. RecordedIsThere'
  <2>1. SavedResultsStay'
    BY DEF IInv, DirectoryInvariant, SavedSettled, SettledFile, SavedResultsStay
  <2>2. meta = "ok"
    BY <1>1, <1>2 DEF StageOfDirectory
  <2> QED BY <1>1, <1>2, <1>3, <2>1, <2>2 DEF RecordedIsThere, SavedResultsStay
<1> QED BY <1>6, <1>7, <1>8, <1>9 DEF FirstSessionInvariant

\* The files say of a test what the one file about it says.
LEMMA ViewByFile ==
    TypeOK /\ OneFilePerTest =>
      /\ DOMAIN View = {files[i].name : i \in Readable}
      /\ \A i \in Readable : View[files[i].name] = files[i].body
<1> SUFFICES ASSUME TypeOK, OneFilePerTest
             PROVE  /\ DOMAIN View = {files[i].name : i \in Readable}
                    /\ \A i \in Readable : View[files[i].name] = files[i].body
  OBVIOUS
<1>1. DOMAIN View = {files[i].name : i \in Readable}
  BY DEF View
<1>2. ASSUME NEW i \in Readable PROVE View[files[i].name] = files[i].body
  <2>1. \A j \in Readable : j \in Nat /\ (files[j].name = files[i].name => j = i)
    BY <1>2 DEF TypeOK, OneFilePerTest, Readable
  <2>2. About(files[i].name) = {i}
    BY <1>2, <2>1 DEF About
  <2>3. LastFile(files[i].name) = i
    BY <2>1, <2>2, <1>2 DEF LastFile
  <2> QED BY <1>1, <1>2, <2>3 DEF View
<1> QED BY <1>1, <1>2

\* The main thread: finalize publishes what the files say, which of a recorded
\* test is its result, before it removes metadata.json.
LEMMA FirstMain ==
    ASSUME RInv, First, Main
    PROVE  FirstSessionInvariant'
<1>1. /\ OneFilePerTest /\ FileFollowsThread
      /\ StageOfDirectory /\ RecordedIsThere
      /\ TypeOK /\ BusyNumbered
  BY DEF RInv, First, FirstSessionInvariant, IInv, DirectoryInvariant
<1>2. UNCHANGED <<pools, session, ghosts>>
  BY DEF Main, OpenMetadata, WriteMetadata, MakeTestsDir, RunReturns, OpenResults,
         WriteResults, UnlinkMetadata, RemoveEntry, RemoveTestsDir
<1>3. \A w \in Workers : work[w].pc = "idle" /\ work'[w].pc = "idle"
  BY <1>1, <1>2 DEF Main, OpenMetadata, WriteMetadata, MakeTestsDir, RunReturns,
     OpenResults, WriteResults, UnlinkMetadata, RemoveEntry, RemoveTestsDir,
     Joined, BusyNumbered, Busy, pools
<1>4. FileFollowsThread'
  BY <1>3 DEF FileFollowsThread
<1>5. OneFilePerTest'
  <2>1. \A i \in DOMAIN files' : i \in DOMAIN files /\ files'[i] = files[i]
    BY DEF Main, OpenMetadata, WriteMetadata, MakeTestsDir, RunReturns, OpenResults,
       WriteResults, UnlinkMetadata, RemoveEntry, RemoveTestsDir, disk, Drop
  <2>2. phase' = "run" => files' = Empty
    BY <1>1 DEF Main, OpenMetadata, WriteMetadata, MakeTestsDir, RunReturns,
       OpenResults, WriteResults, UnlinkMetadata, RemoveEntry, RemoveTestsDir,
       StageOfDirectory
  <2>3. \A i \in DOMAIN Empty : FALSE
    BY DEF Empty
  <2>4. UNCHANGED <<todo, counter>>
    BY <1>2 DEF pools
  <2> QED BY <1>1, <1>3, <2>1, <2>2, <2>3, <2>4 DEF OneFilePerTest, Busy
<1>6. StageOfDirectory' /\ RecordedIsThere'
  <2>1. CASE OpenMetadata \/ WriteMetadata \/ MakeTestsDir
    <3>1. /\ files = Empty /\ results = "absent"
          /\ phase' \in {"meta", "mkdir", "run"}
          /\ phase' \in {"mkdir", "run"} => meta' = "ok"
          /\ UNCHANGED <<files, results, published, ghosts>>
      BY <1>1, <2>1 DEF OpenMetadata, WriteMetadata, MakeTestsDir, StageOfDirectory
    <3>2. recorded = {}
      BY <1>1, <3>1 DEF RecordedIsThere, Empty
    <3> QED BY <1>1, <3>1, <3>2 DEF StageOfDirectory, RecordedIsThere, ghosts
  <2>2. CASE RunReturns
    BY <1>1, <2>2 DEF RunReturns, StageOfDirectory, RecordedIsThere, disk, ghosts
  <2>3. CASE OpenResults
    BY <1>1, <2>3 DEF OpenResults, StageOfDirectory, RecordedIsThere, ghosts
  <2>4. CASE WriteResults
    <3>1. CASE View # Empty
      <4>1. /\ phase' = "unlink" /\ results' = "ok" /\ published' = View
            /\ meta = "ok" /\ UNCHANGED <<files, meta, ghosts>>
        BY <1>1, <2>4, <3>1 DEF WriteResults, StageOfDirectory
      <4>2. \A t \in recorded : t \in DOMAIN View /\ View[t] = "done"
        BY <1>1, <4>1, ViewByFile DEF RecordedIsThere, Readable
      <4>3. View' = View
        BY <4>1 DEF View, Readable, LastFile, About
      <4> QED BY <1>1, <4>1, <4>2, <4>3 DEF StageOfDirectory, RecordedIsThere, ghosts
    <3>2. CASE View = Empty
      BY <1>1, <2>4, <3>2 DEF WriteResults, StageOfDirectory, RecordedIsThere, ghosts
    <3> QED BY <3>1, <3>2
  <2>5. CASE UnlinkMetadata
    BY <1>1, <2>5 DEF UnlinkMetadata, StageOfDirectory, RecordedIsThere, ghosts
  <2>6. CASE RemoveEntry \/ RemoveTestsDir
    BY <1>1, <2>6 DEF RemoveEntry, RemoveTestsDir, StageOfDirectory, RecordedIsThere, ghosts
  <2> QED BY <2>1, <2>2, <2>3, <2>4, <2>5, <2>6 DEF Main
<1> QED BY <1>4, <1>5, <1>6 DEF FirstSessionInvariant

\* Every step of the first session keeps the invariant.
LEMMA FirstStep ==
    ASSUME NoRepetition
    PROVE  RInv /\ [Next]_vars => RInv'
<1> SUFFICES ASSUME RInv, [Next]_vars PROVE RInv'
  OBVIOUS
<1>1. IInv'
  BY StepInvariant DEF RInv
<1>2. session' > 0
  BY SessionGrows DEF RInv, IInv, DirectoryInvariant, TypeOK
<1>3. ASSUME First' PROVE FirstSessionInvariant'
  <2>1. /\ First
        /\ OneFilePerTest /\ FileFollowsThread
        /\ StageOfDirectory /\ RecordedIsThere
    BY <1>3, FirstBefore
  <2>2. CASE Main
    BY <2>1, <2>2, FirstMain
  <2>3. ASSUME NEW w \in Workers, Worker(w) PROVE FirstSessionInvariant'
    BY <1>1, <2>1, <2>3, FirstTake, FirstNumber, FirstWrite, FirstMove DEF Worker
  <2>4. CASE Kill
    <3>1. /\ work' = AllIdle /\ todo' = {} /\ phase' = "down"
          /\ UNCHANGED <<files, meta, results, published, saved, recorded>>
      BY <2>4 DEF Kill, disk, ghosts
    <3>2. \A v \in Workers : work'[v].pc = "idle"
      BY <3>1 DEF AllIdle, Idle
    <3> QED BY <2>1, <3>1, <3>2 DEF FirstSessionInvariant, OneFilePerTest,
          FileFollowsThread, StageOfDirectory, RecordedIsThere, Busy
  <2>5. CASE User
    <3>1. session' = session + 1 /\ session' = 1 /\ session = 1
      BY <1>3, <2>1, <2>5 DEF User, Resume, ResumeRefused, First
    <3> QED BY <3>1
  <2>6. CASE UNCHANGED vars
    <3>1. OneFilePerTest' /\ FileFollowsThread'
      BY <2>1, <2>6 DEF vars, disk, pools, OneFilePerTest, FileFollowsThread,
         Busy, Numbered, FileOf
    <3>2. View' = View
      BY <2>6 DEF vars, disk, View, Readable, LastFile, About
    <3>3. StageOfDirectory' /\ RecordedIsThere'
      BY <2>1, <2>6, <3>2 DEF vars, disk, ghosts, StageOfDirectory, RecordedIsThere
    <3> QED BY <3>1, <3>3 DEF FirstSessionInvariant
  <2> QED BY <2>2, <2>3, <2>4, <2>5, <2>6 DEF Next
<1> QED BY <1>1, <1>2, <1>3 DEF RInv, FirstSessionInvariant, First

\* So every state of a behaviour satisfies it.
LEMMA FirstHolds ==
    ASSUME NoRepetition
    PROVE  Spec => []RInv
<1> QED BY FirstInit, FirstStep, PTL DEF Spec

-----------------------------------------------------------------------------
(***************************************************************************)
(* What one run is worth.                                                  *)
(***************************************************************************)

\* Whenever and however a run ends - killed between any two file operations,
\* aborted, with writes that fail - every result it moved in place is in its
\* files or in a complete results file.
THEOREM RunLosesNothing ==
    ASSUME NoRepetition
    PROVE  Spec => [](session = 1 => RecordedSurvives)
<1>1. RInv => (session = 1 => RecordedSurvives)
  <2> SUFFICES ASSUME RInv, session = 1, NEW t \in recorded
               PROVE  Recoverable(t)
    BY DEF RecordedSurvives
  <2>1. TypeOK /\ OneFilePerTest /\ RecordedIsThere
    BY DEF RInv, FirstSessionInvariant, IInv, DirectoryInvariant
  <2>2. CASE meta = "ok"
    BY <2>1, <2>2, ViewByFile DEF RecordedIsThere, Readable, Recoverable
  <2>3. CASE meta # "ok"
    BY <2>1, <2>3 DEF RecordedIsThere, Recoverable
  <2> QED BY <2>2, <2>3
<1> QED BY <1>1, FirstHolds, PTL

\* When a run ends well its results file says "done" of exactly the tests whose
\* result was moved in place.
THEOREM RunIsFaithful ==
    ASSUME NoRepetition
    PROVE  Spec => [](session = 1 => PublishedIsFaithful)
<1>1. RInv /\ OnlyRecordedIsReported => (session = 1 => PublishedIsFaithful)
  BY DEF RInv, FirstSessionInvariant, RecordedIsThere, OnlyRecordedIsReported,
     PublishedIsFaithful
<1> QED BY <1>1, FirstHolds, NothingInvented, PTL

-----------------------------------------------------------------------------
(***************************************************************************)
(* A run implements TestRecord.                                            *)
(***************************************************************************)

\* The record of each test as the set of files has it.
FileSays(t, body) == \E i \in DOMAIN files : files[i] = [name |-> t, body |-> body]

RecordOfFiles ==
    [t \in Tests |-> IF FileSays(t, "done") THEN "done"
                     ELSE IF FileSays(t, "incomplete") THEN "incomplete"
                     ELSE "none"]

Rec == AsRecord(Visible)
Rep == AsRecord(IF results = "ok" THEN published ELSE Empty)

\* While metadata.json is there, that is what a reader finds.
LEMMA RecordByFile ==
    RInv /\ First => (meta = "ok" => Rec = RecordOfFiles)
<1> SUFFICES ASSUME RInv, First, meta = "ok", NEW t \in Tests
             PROVE  AsRecord(View)[t] = RecordOfFiles[t]
  BY DEF Rec, Visible, AsRecord, RecordOfFiles
<1>1. TypeOK /\ OneFilePerTest
  BY DEF RInv, First, FirstSessionInvariant, IInv, DirectoryInvariant
<1>2. \A i \in DOMAIN files : files[i] = [name |-> files[i].name, body |-> files[i].body]
                              /\ files[i].body \in Bodies
  BY <1>1 DEF TypeOK, Entry
<1>3. CASE t \in DOMAIN View
  <2>1. PICK i \in Readable : t = files[i].name
    BY <1>1, <1>3, ViewByFile
  <2>2. View[t] = files[i].body
    BY <1>1, <2>1, ViewByFile
  <2>3. \A j \in DOMAIN files : files[j].name = t => j = i
    BY <1>1, <2>1 DEF OneFilePerTest, Readable
  <2>4. files[i].body \in {"incomplete", "done"} /\ i \in DOMAIN files
    BY <1>2, <2>1 DEF Readable, Bodies
  <2>5. FileSays(t, "done") <=> files[i].body = "done"
    BY <1>2, <2>1, <2>3, <2>4 DEF FileSays
  <2>6. FileSays(t, "incomplete") <=> files[i].body = "incomplete"
    BY <1>2, <2>1, <2>3, <2>4 DEF FileSays
  <2> QED BY <1>3, <2>2, <2>4, <2>5, <2>6 DEF AsRecord, RecordOfFiles
<1>4. CASE t \notin DOMAIN View
  <2>1. \A i \in Readable : files[i].name # t
    BY <1>1, <1>4, ViewByFile
  <2>2. ~ FileSays(t, "done") /\ ~ FileSays(t, "incomplete")
    BY <2>1 DEF FileSays, Readable
  <2> QED BY <1>4, <2>2 DEF AsRecord, RecordOfFiles
<1> QED BY <1>3, <1>4

\* A thread's step is Begin or Finish of its test, or changes no record.
LEMMA WorkerRefines ==
    ASSUME RInv, RInv', First, First', NEW w \in Workers, Worker(w)
    PROVE  [Record!Next]_<<Rec, Rep>>
<1>1. /\ OneFilePerTest /\ FileFollowsThread /\ StageOfDirectory
      /\ TypeOK /\ BusyNumbered /\ TmpReady
  BY DEF RInv, First, FirstSessionInvariant, IInv, DirectoryInvariant
<1>2. /\ phase = "run" /\ meta = "ok" /\ meta' = "ok"
      /\ UNCHANGED <<results, published>>
  BY <1>1 DEF Worker, Take, Number, OpenPlaceholder, WritePlaceholder, WriteFails, Execute,
     OpenTmp, WriteTmp, Move, At, disk, StageOfDirectory
<1>3. Rec = RecordOfFiles /\ Rec' = RecordOfFiles'
  <2>1. Rec = RecordOfFiles
    BY <1>2, RecordByFile
  <2>2. (RInv /\ First => (meta = "ok" => Rec = RecordOfFiles))'
    BY RecordByFile, PTL
  <2> QED BY <1>2, <2>1, <2>2
<1>4. Rep' = Rep
  BY <1>2 DEF Rep, AsRecord
<1>5. CASE OpenPlaceholder(w)
  <2>1. PICK i, n :
          /\ i \notin DOMAIN files
          /\ \/ files' = files
             \/ files' = Put(files, i, [name |-> n, body |-> "torn"])
    BY <1>1, <1>5 DEF OpenPlaceholder, At, FileFollowsThread
  <2>2. \A t \in Tests, b \in {"done", "incomplete"} : FileSays(t, b)' <=> FileSays(t, b)
    BY <2>1 DEF FileSays, Put
  <2>3. RecordOfFiles' = RecordOfFiles
    BY <2>2 DEF RecordOfFiles
  <2> QED BY <1>3, <1>4, <2>3
<1>6. ASSUME NEW b \in {"incomplete", "done"},
             \/ b = "incomplete" /\ WritePlaceholder(w)
             \/ b = "done" /\ Move(w)
      PROVE  [Record!Next]_<<Rec, Rep>>
  <2>1. PICK i \in Nat, n \in Tests :
          /\ i = work[w].idx /\ n = work[w].test
          /\ i \in DOMAIN files
          /\ files[i].body = (IF b = "done" THEN "incomplete" ELSE "torn")
          /\ files' = Put(files, i, [name |-> n, body |-> b])
    BY <1>1, <1>6 DEF WritePlaceholder, Move, At, FileOf, FileFollowsThread, TmpReady,
       BusyNumbered, Busy, Numbered, Placeholder, TypeOK
  <2>2. files[i].name = n
    <3>1. Busy(w) /\ Numbered(w)
      BY <1>6 DEF WritePlaceholder, Move, At, Busy, Numbered
    <3> QED BY <1>1, <2>1, <3>1 DEF OneFilePerTest
  <2>3. \A j \in DOMAIN files : files[j].name = n => j = i
    BY <1>1, <2>1, <2>2 DEF OneFilePerTest
  <2>4. \A j \in DOMAIN files : files[j] = [name |-> files[j].name, body |-> files[j].body]
    BY <1>1 DEF TypeOK, Entry
  <2>5. /\ DOMAIN files' = DOMAIN files
        /\ files'[i] = [name |-> n, body |-> b]
        /\ \A j \in DOMAIN files : j # i => files'[j] = files[j]
    BY <2>1, Zenon DEF Put
  <2>6. /\ ~ FileSays(n, "done")
        /\ FileSays(n, "incomplete") <=> b = "done"
    BY <2>1, <2>2, <2>3, <2>4 DEF FileSays
  <2>7. /\ FileSays(n, "done")' <=> b = "done"
        /\ FileSays(n, "incomplete")' <=> b = "incomplete"
    BY <2>1, <2>3, <2>4, <2>5 DEF FileSays
  <2>8. \A t \in Tests \ {n} : \A c \in {"done", "incomplete"} :
          FileSays(t, c)' <=> FileSays(t, c)
    BY <2>2, <2>1, <2>5 DEF FileSays
  <2>9. RecordOfFiles' = [RecordOfFiles EXCEPT ![n] = b]
    BY <2>1, <2>7, <2>8 DEF RecordOfFiles
  <2>10. RecordOfFiles[n] = (IF b = "done" THEN "incomplete" ELSE "none")
    BY <2>1, <2>6 DEF RecordOfFiles
  <2>11. Record!Begin(n) \/ Record!Finish(n)
    BY <1>3, <1>4, <2>9, <2>10 DEF Record!Begin, Record!Finish, Rec, Rep
  <2> QED BY <2>1, <2>11 DEF Record!Next
<1>7. CASE \/ Take(w) \/ Number(w) \/ WriteFails(w)
          \/ Execute(w) \/ OpenTmp(w) \/ WriteTmp(w)
  <2>1. files' = files
    BY <1>7 DEF Take, Number, WriteFails, Execute, OpenTmp, WriteTmp, disk
  <2> QED BY <1>3, <1>4, <2>1 DEF RecordOfFiles, FileSays
<1> QED BY <1>5, <1>6, <1>7 DEF Worker

\* With no files and no results file there is no record and no report.
LEMMA NothingThere ==
    RInv /\ First /\ files = Empty /\ results = "absent" =>
        Rec = Record!NoReport /\ Rep = Record!NoReport
<1> SUFFICES ASSUME RInv, First, files = Empty, results = "absent"
             PROVE  Rec = Record!NoReport /\ Rep = Record!NoReport
  OBVIOUS
<1>1. CASE meta = "ok"
  <2>1. Rec = RecordOfFiles
    BY <1>1, RecordByFile
  <2> QED BY <2>1 DEF RecordOfFiles, FileSays, Empty, Record!NoReport, Rep, AsRecord
<1>2. CASE meta # "ok"
  BY <1>2 DEF Rec, Rep, Visible, AsRecord, Empty, Record!NoReport
<1> QED BY <1>1, <1>2

\* The main thread publishes the records, or changes none.
LEMMA MainRefines ==
    ASSUME RInv, RInv', First, First', Main
    PROVE  [Record!Next]_<<Rec, Rep>>
<1>1. StageOfDirectory /\ StageOfDirectory'
  BY DEF RInv, First, FirstSessionInvariant
<1>2. CASE OpenMetadata \/ WriteMetadata \/ MakeTestsDir
  <2>1. /\ files = Empty /\ results = "absent"
        /\ files' = Empty /\ results' = "absent"
    BY <1>1, <1>2 DEF OpenMetadata, WriteMetadata, MakeTestsDir, StageOfDirectory
  <2>2. Rec = Record!NoReport /\ Rep = Record!NoReport
    BY <2>1, NothingThere
  <2>3. (RInv /\ First /\ files = Empty /\ results = "absent" =>
             Rec = Record!NoReport /\ Rep = Record!NoReport)'
    BY NothingThere, PTL
  <2>4. Record!NoReport' = Record!NoReport
    BY DEF Record!NoReport
  <2> QED BY <2>1, <2>2, <2>3, <2>4
<1>3. CASE RunReturns
  BY <1>3 DEF RunReturns, disk, Rec, Rep, Visible, View, Readable, LastFile, About, AsRecord
<1>4. CASE OpenResults
  <2>1. meta = "ok" /\ meta' = "ok" /\ files' = files
        /\ results # "ok" /\ results' # "ok"
    BY <1>1, <1>4 DEF OpenResults, StageOfDirectory
  <2> QED BY <2>1 DEF Rec, Rep, Visible, View, Readable, LastFile, About, AsRecord
<1>5. CASE WriteResults
  <2>1. /\ meta = "ok" /\ meta' = "ok" /\ files' = files
        /\ results = "torn" /\ published = Empty
    BY <1>1, <1>5 DEF WriteResults, StageOfDirectory
  <2>2. Rec' = Rec
    BY <2>1 DEF Rec, Visible, View, Readable, LastFile, About, AsRecord
  <2>3. CASE View # Empty
    <3>1. results' = "ok" /\ published' = View
      BY <1>5, <2>1, <2>3 DEF WriteResults
    <3>2. Rep' = AsRecord(View) /\ Rec = AsRecord(View)
      BY <2>1, <3>1 DEF Rep, Rec, Visible, AsRecord
    <3> QED BY <2>2, <3>2 DEF Record!Next, Record!Publish, Rec, Rep
  <2>4. CASE View = Empty
    <3>1. published' = published
      BY <1>5, <2>4 DEF WriteResults
    <3> QED BY <2>1, <2>2, <3>1 DEF Rep, AsRecord
  <2> QED BY <2>3, <2>4
<1>6. CASE UnlinkMetadata
  BY <1>1, <1>6 DEF UnlinkMetadata, StageOfDirectory, Rec, Rep, Visible, AsRecord
<1>7. CASE RemoveEntry \/ RemoveTestsDir
  BY <1>1, <1>7 DEF RemoveEntry, RemoveTestsDir, StageOfDirectory, Rec, Rep, Visible, AsRecord
<1> QED BY <1>2, <1>3, <1>4, <1>5, <1>6, <1>7 DEF Main

\* One run, with any number of threads and whatever fails and wherever it is
\* killed, implements the record of its tests: each goes from nothing to
\* "incomplete" to "done" and never back, and a results file that can be read
\* is a snapshot of them.
THEOREM RunImplementsRecord ==
    ASSUME NoRepetition, MaxSessions = 1
    PROVE  Spec => ImplementsRecord
<1>1. First /\ [Next]_vars => First'
  BY SessionGrows DEF First, CanResume
<1>2. Init => First
  BY DEF Init, First
<1>3. Init => Record!Init
  <2> SUFFICES ASSUME Init PROVE Record!Init
    OBVIOUS
  <2>1. RInv /\ First /\ files = Empty /\ results = "absent"
    BY FirstInit, <1>2 DEF Init
  <2> QED BY <2>1, NothingThere DEF Record!Init, Rec, Rep
<1>4. RInv /\ RInv' /\ First /\ First' /\ [Next]_vars => [Record!Next]_<<Rec, Rep>>
  <2> SUFFICES ASSUME RInv, RInv', First, First', [Next]_vars
               PROVE  [Record!Next]_<<Rec, Rep>>
    OBVIOUS
  <2>1. CASE Main
    BY <2>1, MainRefines
  <2>2. ASSUME NEW w \in Workers, Worker(w) PROVE [Record!Next]_<<Rec, Rep>>
    BY <2>2, WorkerRefines
  <2>3. CASE Kill \/ UNCHANGED vars
    <3>1. UNCHANGED <<meta, files, results, published>>
      BY <2>3 DEF Kill, disk, vars
    <3> QED BY <3>1 DEF Rec, Rep, Visible, View, Readable, LastFile, About, AsRecord
  <2>4. CASE User
    BY <2>4 DEF User, Resume, ResumeRefused, CanResume, First
  <2> QED BY <2>1, <2>2, <2>3, <2>4 DEF Next
<1> QED BY <1>1, <1>2, <1>3, <1>4, FirstHolds, PTL
        DEF Spec, ImplementsRecord, Record!Spec, Rec, Rep
-----------------------------------------------------------------------------
(***************************************************************************)
(* "piglit run" and any number of "piglit resume" on one directory: for    *)
(* every profile without repetition, every number of threads and whatever  *)
(* fails and is killed, they lose nothing, overwrite nothing and implement *)
(* TestRecord if each of them is sound - which resume does not ensure,     *)
(* and FileBackend asks of its caller (abstract.py:160).                   *)
(*                                                                         *)
(* The first resume of a run on at most two threads, whose tests raise     *)
(* nothing and whose writes succeed, is sound; with a third thread, or     *)
(* with either of these faults, it may not be.                             *)
(***************************************************************************)

\* What resume does not ensure (run.py:447, abstract.py:160): that a session with
\* something to run finds metadata.json and numbers its files beyond those that can
\* be read, and that one without metadata.json never gets to open a results file.
SoundSession ==
    phase = "run" =>
        IF meta = "ok" THEN \A i \in Readable : i < counter
        ELSE Streams = FALSE /\ Joined

\* The newest file about a test that can be read says so.
NewestSays(t, body) ==
    \E i \in DOMAIN files :
        /\ files[i] = [name |-> t, body |-> body]
        /\ \A j \in About(t) : j <= i

\* A test that waits, or that a thread has, has no result yet and is nowhere else.
TestsApart ==
    /\ \A p \in todo : Profile[p] \notin recorded
    /\ \A w \in Workers : Busy(w) =>
         /\ work[w].test \notin recorded
         /\ \A p \in todo : work[w].test # Profile[p]
         /\ \A v \in Workers : v # w /\ Busy(v) => work[v].test # work[w].test

\* A thread's own N.json is newer than what earlier sessions left about its test,
\* and takes the place of nothing that can be read.
OwnFileIsNewest ==
    \A w \in Workers : Numbered(w) =>
        /\ \A i \in About(work[w].test) : i <= FileOf(w)
        /\ work[w].pc \in {"open", "placeholder"} => FileOf(w) \notin Readable
        /\ work[w].pc \in {"execute", "opentmp", "writetmp", "move"} =>
             /\ FileOf(w) \in DOMAIN files
             /\ files[FileOf(w)] = [name |-> work[w].test, body |-> "incomplete"]

RecordedIsNewest ==
    meta = "ok" => \A t \in recorded : NewestSays(t, "done")

StageOfSession ==
    /\ phase \in {"init", "meta", "mkdir"} =>
         files = Empty /\ recorded = {} /\ results = "absent"
    /\ phase \in {"mkdir", "write", "unlink"} => meta = "ok"
    /\ phase = "finalize" => meta = "ok" \/ Streams = FALSE
    /\ phase = "write" => results = "torn" /\ published = Empty
    /\ phase = "unlink" => results = "ok" /\ published = View
    /\ phase = "rmtree" => meta = "absent"

RecordedIsPublished ==
    (meta # "ok" /\ recorded # {}) \/ phase \in {"unlink", "rmtree", "done"} =>
        /\ results = "ok"
        /\ \A t \in recorded : t \in DOMAIN published /\ published[t] = "done"

\* A results file beside metadata.json is what finalize of a killed session left. It
\* says what the files say until a later session has written one, and that one has a
\* number beyond the count of what it says.
StaleIsOutnumbered ==
    meta = "ok" /\ results = "ok" =>
        LET count == Cardinality(DOMAIN published) IN
        /\ DOMAIN published \subseteq DOMAIN View
        /\ published = View \/ \E i \in Readable : i > count
        /\ phase = "run" => counter > count
        /\ \A w \in Workers : Numbered(w) => FileOf(w) > count

\* The invariant of any number of sound sessions.
SessionsInvariant ==
    /\ TestsApart
    /\ OwnFileIsNewest
    /\ RecordedIsNewest
    /\ StageOfSession
    /\ RecordedIsPublished
    /\ StaleIsOutnumbered

\* The invariant of sound sessions, and what a step of one may use.
KInv == IInv /\ SessionsInvariant

-----------------------------------------------------------------------------
(***************************************************************************)
(* What the files say when several are about one test.                     *)
(***************************************************************************)

\* A test somebody wrote about has a newest file.
LEMMA LastIsAbout ==
    ASSUME TypeOK, FilesBounded, NEW t \in DOMAIN View
    PROVE  LastFile(t) \in About(t) /\ \A j \in About(t) : j <= LastFile(t)
<1>1. PICK i \in Readable : t = files[i].name
  BY DEF View
<1>2. About(t) # {} /\ About(t) \in SUBSET Nat
  BY <1>1 DEF About, Readable, TypeOK
<1>3. PICK n \in Nat : \A j \in DOMAIN files : j <= n
  BY DEF FilesBounded
<1>4. \A j \in About(t) : j <= n
  BY <1>3 DEF About, Readable
<1>5. \E k \in About(t) : \A j \in About(t) : j <= k
  <2> HIDE DEF About
  <2> QED BY <1>2, <1>4, Greatest
<1> QED BY <1>5 DEF LastFile

\* The newest file about a test decides what finalize and resume make of it.
LEMMA ViewByNewest ==
    ASSUME TypeOK, FilesBounded
    PROVE  /\ \A t : t \in DOMAIN View <=> About(t) # {}
           /\ \A t \in DOMAIN View : NewestSays(t, View[t])
           /\ \A t, b : NewestSays(t, b) /\ b # "torn" =>
                 t \in DOMAIN View /\ View[t] = b
<1>1. \A i \in DOMAIN files :
        /\ i \in Nat
        /\ files[i] = [name |-> files[i].name, body |-> files[i].body]
  BY DEF TypeOK, Entry
<1>2. DOMAIN View = {files[i].name : i \in Readable}
  BY DEF View
<1>3. \A t : t \in DOMAIN View <=> About(t) # {}
  BY <1>2 DEF About
<1>4. ASSUME NEW t \in DOMAIN View
      PROVE  NewestSays(t, View[t])
  <2>1. LastFile(t) \in About(t) /\ \A j \in About(t) : j <= LastFile(t)
    BY <1>4, LastIsAbout
  <2>2. View[t] = files[LastFile(t)].body
    BY <1>2, <1>4 DEF View
  <2>3. LastFile(t) \in DOMAIN files /\ files[LastFile(t)].name = t
    BY <2>1 DEF About, Readable
  <2> QED BY <1>1, <2>1, <2>2, <2>3 DEF NewestSays
<1>5. ASSUME NEW t, NEW b, NewestSays(t, b), b # "torn"
      PROVE  t \in DOMAIN View /\ View[t] = b
  <2>1. PICK i \in DOMAIN files :
          /\ files[i] = [name |-> t, body |-> b]
          /\ \A j \in About(t) : j <= i
    BY <1>5 DEF NewestSays
  <2>2. i \in About(t) /\ i \in Readable
    BY <1>5, <2>1 DEF About, Readable
  <2>3. \A k \in About(t) : k \in Nat
    BY <1>1 DEF About, Readable
  <2>4. LastFile(t) = i
    BY <2>1, <2>2, <2>3 DEF LastFile
  <2>5. t \in DOMAIN View
    BY <1>3, <2>2
  <2> QED BY <1>2, <2>1, <2>4, <2>5 DEF View
<1> QED BY <1>3, <1>4, <1>5

\* What is read changes only with a file that can be read.
LEMMA ViewStays ==
    ASSUME TypeOK, FilesBounded,
           Readable' = Readable, \A i \in Readable : files'[i] = files[i]
    PROVE  View' = View /\ \A t : About(t)' = About(t)
<1>1. \A t : About(t)' = About(t)
  BY DEF About
<1>2. \A t : LastFile(t)' = LastFile(t)
  BY <1>1 DEF LastFile
<1>3. {files[i].name : i \in Readable}' = {files[i].name : i \in Readable}
  OBVIOUS
<1>4. ASSUME NEW t \in {files[i].name : i \in Readable}
      PROVE  files'[LastFile(t)'] = files[LastFile(t)]
  <2>1. LastFile(t) \in Readable
    BY <1>4, LastIsAbout DEF View, About
  <2> QED BY <1>2, <2>1
<1> QED BY <1>1, <1>3, <1>4 DEF View

\* A new run has recorded nothing, and its threads are idle.
LEMMA SessionsInit == Init => KInv
<1> SUFFICES ASSUME Init PROVE KInv
  OBVIOUS
<1>1. IInv
  BY InitInvariant
<1>2. TestsApart /\ OwnFileIsNewest
  BY DEF Init, TestsApart, OwnFileIsNewest, AllIdle, Idle, Busy, Numbered
<1>3. RecordedIsNewest /\ StageOfSession /\ RecordedIsPublished /\ StaleIsOutnumbered
  BY DEF Init, RecordedIsNewest, StageOfSession, RecordedIsPublished, StaleIsOutnumbered
<1> QED BY <1>1, <1>2, <1>3 DEF KInv, SessionsInvariant

\* A thread at work is one of a session that found metadata.json.
LEMMA BusyHasMetadata ==
    ASSUME KInv, SoundSession, NEW w \in Workers, phase = "run", Busy(w) \/ todo # {}
    PROVE  meta = "ok"
BY DEF SoundSession, Joined, Busy

\* Take: the test moves from the queue to a thread.
LEMMA SessionsTake ==
    ASSUME NoRepetition, KInv, SoundSession, NEW w \in Workers, Take(w)
    PROVE  SessionsInvariant'
<1>1. TypeOK /\ SessionsInvariant
  BY DEF KInv, IInv, DirectoryInvariant
<1>2. PICK p \in todo :
        /\ todo' = todo \ {p}
        /\ work' = [work EXCEPT ![w] = [pc |-> "number", test |-> Profile[p], idx |-> 0]]
  BY DEF Take
<1>3. /\ phase = "run"
      /\ UNCHANGED <<files, phase, counter, meta, results, published, recorded>>
  BY DEF Take, At, disk, ghosts
<1>4. /\ work'[w] = [pc |-> "number", test |-> Profile[p], idx |-> 0]
      /\ \A v \in Workers : v # w => work'[v] = work[v]
  BY <1>1, <1>2 DEF TypeOK
<1>5. \A q \in todo' : q \in todo /\ Profile[q] # Profile[p]
  BY <1>1, <1>2 DEF NoRepetition, TypeOK
<1>6. TestsApart'
  BY <1>1, <1>3, <1>4, <1>5 DEF SessionsInvariant, TestsApart, Busy
<1>7. Readable' = Readable /\ View' = View /\ \A t : About(t)' = About(t)
  BY <1>1, <1>3, ViewStays DEF Readable, KInv, IInv
<1>8. OwnFileIsNewest'
  BY <1>1, <1>3, <1>4, <1>7 DEF SessionsInvariant, OwnFileIsNewest, Numbered, FileOf
<1>9. RecordedIsNewest'
  BY <1>1, <1>3, <1>7 DEF SessionsInvariant, RecordedIsNewest, NewestSays
<1>10. StageOfSession' /\ RecordedIsPublished'
  BY <1>1, <1>3 DEF SessionsInvariant, StageOfSession, RecordedIsPublished
<1>11. StaleIsOutnumbered'
  BY <1>1, <1>3, <1>4, <1>7 DEF SessionsInvariant, StaleIsOutnumbered, Numbered, FileOf
<1> QED BY <1>6, <1>8, <1>9, <1>10, <1>11 DEF SessionsInvariant

\* Number: every file that can be read has a smaller number.
LEMMA SessionsNumber ==
    ASSUME KInv, SoundSession, NEW w \in Workers, Number(w)
    PROVE  SessionsInvariant'
<1>1. TypeOK /\ SessionsInvariant
  BY DEF KInv, IInv, DirectoryInvariant
<1>2. /\ work' = [work EXCEPT ![w] = [@ EXCEPT !.pc = "open", !.idx = counter]]
      /\ work[w].pc = "number" /\ phase = "run"
      /\ counter' = counter + 1 /\ counter \in Nat
      /\ UNCHANGED <<files, phase, todo, meta, results, published, recorded>>
  BY <1>1 DEF Number, At, Bump, disk, ghosts, TypeOK
<1>3. /\ work'[w].pc = "open" /\ work'[w].test = work[w].test /\ work'[w].idx = counter
      /\ \A v \in Workers : v # w => work'[v] = work[v]
  BY <1>1, <1>2 DEF TypeOK
<1>4. meta = "ok" /\ \A i \in Readable : i < counter /\ i \in Nat
  BY <1>1, <1>2, BusyHasMetadata DEF SoundSession, Busy, Readable, TypeOK
<1>5. \A t : \A i \in About(t) : i <= counter
  BY <1>2, <1>4 DEF About
<1>6. TestsApart'
  BY <1>1, <1>2, <1>3 DEF SessionsInvariant, TestsApart, Busy
<1>7. Readable' = Readable /\ View' = View /\ \A t : About(t)' = About(t)
  BY <1>1, <1>2, ViewStays DEF Readable, KInv, IInv
<1>8. OwnFileIsNewest'
  <2>1. counter \notin Readable
    BY <1>2, <1>4
  <2> QED BY <1>1, <1>2, <1>3, <1>5, <1>7, <2>1
          DEF SessionsInvariant, OwnFileIsNewest, Numbered, FileOf
<1>9. RecordedIsNewest'
  BY <1>1, <1>2, <1>7 DEF SessionsInvariant, RecordedIsNewest, NewestSays
<1>10. StageOfSession' /\ RecordedIsPublished'
  BY <1>1, <1>2 DEF SessionsInvariant, StageOfSession, RecordedIsPublished
<1>11. StaleIsOutnumbered'
  <2> SUFFICES ASSUME meta = "ok", results = "ok"
               PROVE  StaleIsOutnumbered'
    BY <1>2 DEF StaleIsOutnumbered
  <2>1. PICK n \in Nat : n = Cardinality(DOMAIN published)
    BY <1>1, FiniteAssumption, FS_Subset, FS_CardinalityType DEF TypeOK
  <2>2. /\ DOMAIN published \subseteq DOMAIN View
        /\ published = View \/ \E i \in Readable : i > n
        /\ counter > n
        /\ \A v \in Workers : Numbered(v) => FileOf(v) > n
    BY <1>1, <1>2, <2>1 DEF SessionsInvariant, StaleIsOutnumbered
  <2>3. Cardinality(DOMAIN published') = n
    BY <1>2, <2>1
  <2>4. \A v \in Workers : Numbered(v)' => FileOf(v)' > n
    BY <1>2, <1>3, <2>2 DEF Numbered, FileOf
  <2>5. counter' > n
    BY <1>2, <2>2
  <2> QED BY <1>2, <1>7, <2>2, <2>3, <2>4, <2>5 DEF StaleIsOutnumbered
<1> QED BY <1>6, <1>8, <1>9, <1>10, <1>11 DEF SessionsInvariant

\* A step of a thread with a number: it writes its own file or none, and what it
\* records is what it has written there.
LEMMA SessionsOwnFile ==
    ASSUME KInv, SoundSession, NEW w \in Workers, Numbered(w), phase = "run",
           UNCHANGED <<phase, counter, meta, results, published>>,
           todo' \subseteq todo,
           work'[w].pc # "idle" =>
               work'[w].idx = work[w].idx /\ work'[w].test = work[w].test,
           \A v \in Workers : v # w => work'[v] = work[v],
           NEW b \in Bodies,
           \/ /\ files' = Put(files, work[w].idx, [name |-> work[w].test, body |-> b])
              /\ \/ /\ b = "torn" /\ work[w].pc = "open"
                    /\ work'[w].pc = "placeholder" /\ recorded' = recorded
                 \/ /\ b = "incomplete"
                    /\ work'[w].pc = "execute" /\ recorded' = recorded
                 \/ /\ b = "done"
                    /\ work'[w].pc = "idle"
                    /\ recorded' = recorded \cup {work[w].test}
           \/ /\ files' = files /\ recorded' = recorded
              /\ work'[w].pc \in {"idle", "opentmp", "writetmp", "move"}
              /\ work'[w].pc # "idle" =>
                   work[w].pc \in {"execute", "opentmp", "writetmp"}
    PROVE  SessionsInvariant'
<1>1. /\ TestsApart /\ OwnFileIsNewest /\ RecordedIsNewest
      /\ StaleIsOutnumbered
      /\ IInv /\ TypeOK /\ FilesBounded /\ OneWriterPerFile /\ BusyNumbered
  BY DEF KInv, SessionsInvariant, IInv, DirectoryInvariant
<1>2. Busy(w) /\ meta = "ok" /\ meta' = "ok"
  BY BusyHasMetadata DEF Busy, Numbered
<1>3. PICK i \in Nat, n \in Tests, e \in Entry :
        /\ i = work[w].idx /\ n = work[w].test /\ n \notin recorded
        /\ e = [name |-> n, body |-> b]
  BY <1>1, <1>2 DEF TypeOK, BusyNumbered, TestsApart, Entry
<1>4. files' = files \/ files' = Put(files, i, e)
  BY <1>3
<1>5. /\ \A j \in DOMAIN files : j # i => j \in DOMAIN files' /\ files'[j] = files[j]
      /\ \A j \in DOMAIN files' : j # i => j \in DOMAIN files /\ files'[j] = files[j]
      /\ i \in DOMAIN files' => (files'[i] = files[i] /\ i \in DOMAIN files) \/ files'[i] = e
      /\ files' = Put(files, i, e) => i \in DOMAIN files' /\ files'[i] = e
  <2> QED BY <1>4, Zenon DEF Put
<1>6. /\ i \in Readable => files[i].name = n
      /\ i \in Readable' => i \in DOMAIN files' /\ files'[i].name = n
      /\ \A j : j # i => (j \in Readable' <=> j \in Readable)
      /\ i \in Readable => i \in Readable'
  <2>1. i \in Readable => files[i].name = n
    <3>1. \/ work[w].pc \in {"open", "placeholder"}
          \/ work[w].pc \in {"execute", "opentmp", "writetmp", "move"}
      BY <1>1 DEF TypeOK, Numbered, PCs
    <3>2. CASE work[w].pc \in {"open", "placeholder"}
      BY <1>1, <1>3, <3>2 DEF OwnFileIsNewest, FileOf
    <3>3. CASE work[w].pc \in {"execute", "opentmp", "writetmp", "move"}
      <4>1. files[i] = [name |-> n, body |-> "incomplete"]
        BY <1>1, <1>3, <3>3 DEF OwnFileIsNewest, FileOf
      <4> QED BY <4>1
    <3> QED BY <3>1, <3>2, <3>3
  <2>2. i \in Readable' => i \in DOMAIN files' /\ files'[i].name = n
    <3>1. i \in Readable' => i \in DOMAIN files'
      BY DEF Readable
    <3>2. files'[i] = e => files'[i].name = n
      BY <1>3
    <3>3. i \in Readable' /\ i \in DOMAIN files /\ files'[i] = files[i] => i \in Readable
      BY DEF Readable
    <3> QED BY <1>5, <2>1, <3>1, <3>2, <3>3
  <2>3. \A j : j # i => (j \in Readable' <=> j \in Readable)
    <3> QED BY <1>5 DEF Readable
  <2>4. i \in Readable => i \in Readable'
    <3>1. CASE b = "torn" /\ work[w].pc = "open"
      BY <1>3, <3>1, <1>1 DEF OwnFileIsNewest, FileOf
    <3>2. CASE b # "torn"
      <4>1. files'[i] = e /\ i \in DOMAIN files' => i \in Readable'
        BY <1>3, <3>2 DEF Readable
      <4>2. files' = files => Readable' = Readable
        BY DEF Readable
      <4> QED BY <1>3, <1>5, <4>1, <4>2
    <3>3. CASE files' = files
      BY <3>3 DEF Readable
    <3> QED BY <3>1, <3>2, <3>3
  <2> QED BY <2>1, <2>2, <2>3, <2>4
<1>7. /\ \A t : t # n => About(t)' = About(t)
      /\ \A j \in About(n)' : j = i \/ j \in About(n)
      /\ \A j \in About(n) : j = i \/ j \in About(n)'
      /\ i \in Readable => i \in About(n)'
  <2>1. \A j \in Readable : j \in DOMAIN files
    BY DEF Readable
  <2> QED BY <1>5, <1>6, <2>1 DEF About
<1>8. \A j \in About(n)' : j <= i
  <2>1. \A j \in About(n) : j <= i
    BY <1>3, <1>1 DEF OwnFileIsNewest, FileOf
  <2> QED BY <1>3, <1>7, <2>1
<1>9. TestsApart'
  <2>1. \A v \in Workers : Busy(v)' => Busy(v) /\ work'[v].test = work[v].test
    BY <1>2 DEF Busy
  <2>2. \A t \in recorded' : t \in recorded \/ (t = n /\ ~ Busy(w)')
    BY <1>3 DEF Busy
  <2>3. \A p \in todo' : p \in todo /\ Profile[p] # n
    BY <1>3, <1>1, <1>2 DEF TestsApart
  <2>4. \A v \in Workers : v # w /\ Busy(v) => work[v].test # n
    BY <1>3, <1>1, <1>2 DEF TestsApart
  <2> QED BY <1>1, <2>1, <2>2, <2>3, <2>4 DEF TestsApart
<1>10. OwnFileIsNewest'
  <2>1. ASSUME NEW v \in Workers, v # w, Numbered(v)'
        PROVE  /\ \A j \in About(work[v].test)' : j <= FileOf(v)'
               /\ work'[v].pc \in {"open", "placeholder"} => FileOf(v)' \notin Readable'
               /\ work'[v].pc \in {"execute", "opentmp", "writetmp", "move"} =>
                    /\ FileOf(v)' \in DOMAIN files'
                    /\ files'[FileOf(v)'] = [name |-> work'[v].test, body |-> "incomplete"]
    <3>1. work'[v] = work[v] /\ Numbered(v) /\ Busy(v)
      BY <2>1 DEF Numbered, Busy
    <3>2. work[v].idx # i /\ work[v].test # n
      BY <1>3, <1>1, <1>2, <2>1, <3>1 DEF OneWriterPerFile, TestsApart
    <3>3. /\ \A j \in About(work[v].test) : j <= work[v].idx
          /\ work[v].pc \in {"open", "placeholder"} => work[v].idx \notin Readable
          /\ work[v].pc \in {"execute", "opentmp", "writetmp", "move"} =>
               /\ work[v].idx \in DOMAIN files
               /\ files[work[v].idx] = [name |-> work[v].test, body |-> "incomplete"]
      BY <1>1, <3>1 DEF OwnFileIsNewest, FileOf
    <3> QED BY <1>3, <1>5, <1>6, <1>7, <3>1, <3>2, <3>3 DEF FileOf
  <2>2. ASSUME Numbered(w)'
        PROVE  /\ \A j \in About(work[w].test)' : j <= FileOf(w)'
               /\ work'[w].pc \in {"open", "placeholder"} => FileOf(w)' \notin Readable'
               /\ work'[w].pc \in {"execute", "opentmp", "writetmp", "move"} =>
                    /\ FileOf(w)' \in DOMAIN files'
                    /\ files'[FileOf(w)'] = [name |-> work'[w].test, body |-> "incomplete"]
    <3>1. work'[w].pc # "idle" /\ work'[w].test = n /\ FileOf(w)' = i
      BY <1>3, <2>2 DEF Numbered, FileOf
    <3>2. CASE files' = files /\ work'[w].pc \in {"opentmp", "writetmp", "move"}
      <4>1. i \in DOMAIN files /\ files[i] = [name |-> n, body |-> "incomplete"]
        BY <1>1, <3>1, <3>2 DEF OwnFileIsNewest, FileOf
      <4> QED BY <1>3, <1>8, <3>1, <3>2, <4>1
    <3>3. CASE files' = Put(files, i, e) /\ work'[w].pc = "placeholder" /\ b = "torn"
      <4>1. i \in DOMAIN files' /\ files'[i] = e
        BY <1>5, <3>3
      <4>2. i \notin Readable'
        BY <1>3, <3>3, <4>1 DEF Readable
      <4> QED BY <1>3, <1>8, <3>1, <3>3, <4>2
    <3>4. CASE files' = Put(files, i, e) /\ work'[w].pc = "execute" /\ b = "incomplete"
      <4>1. i \in DOMAIN files' /\ files'[i] = e
        BY <1>5, <3>4
      <4> QED BY <1>3, <1>8, <3>1, <3>4, <4>1
    <3> QED BY <1>3, <3>1, <3>2, <3>3, <3>4
  <2> QED BY <2>1, <2>2 DEF OwnFileIsNewest
<1>11. RecordedIsNewest'
  <2>1. ASSUME NEW t \in recorded, t # n PROVE NewestSays(t, "done")'
    <3>1. PICK k \in DOMAIN files :
            /\ files[k] = [name |-> t, body |-> "done"]
            /\ \A j \in About(t) : j <= k
      BY <1>1, <1>2, <2>1 DEF RecordedIsNewest, NewestSays
    <3>2. k \in Readable /\ k # i
      BY <1>6, <2>1, <3>1 DEF Readable
    <3>3. k \in DOMAIN files' /\ files'[k] = files[k]
      <4> QED BY <1>5, <3>2
    <3>4. About(t)' = About(t)
      <4> QED BY <1>7, <2>1
    <3> QED BY <3>1, <3>3, <3>4 DEF NewestSays
  <2>2. ASSUME recorded' # recorded PROVE NewestSays(n, "done")'
    <3>1. files' = Put(files, i, e) /\ b = "done"
      BY <1>3, <2>2
    <3>2. i \in DOMAIN files' /\ files'[i] = e
      BY <1>5, <3>1
    <3> QED BY <1>3, <1>8, <3>1, <3>2 DEF NewestSays
  <2>3. \A t \in recorded' : t \in recorded \/ (t = n /\ recorded' # recorded)
    BY <1>3
  <2>4. \A t \in recorded : t # n
    BY <1>3
  <2> QED BY <2>1, <2>2, <2>3, <2>4 DEF RecordedIsNewest
<1>12. StageOfSession' /\ RecordedIsPublished'
  BY <1>2 DEF StageOfSession, RecordedIsPublished
<1>13. ASSUME results = "ok" PROVE StaleIsOutnumbered'
  <2>1. PICK m \in Nat : m = Cardinality(DOMAIN published)
    BY <1>1, FiniteAssumption, FS_Subset, FS_CardinalityType DEF TypeOK
  <2>2. /\ DOMAIN published \subseteq DOMAIN View
        /\ published = View \/ \E j \in Readable : j > m
        /\ counter > m
        /\ \A v \in Workers : Numbered(v) => work[v].idx > m
    BY <1>1, <1>2, <1>13, <2>1 DEF StaleIsOutnumbered, FileOf
  <2>3. \A t : t \in DOMAIN View => t \in DOMAIN View'
    <3>1. \A t : About(t) # {} => About(t)' # {}
      <4>1. \A j \in About(n) : j \in Readable
        BY DEF About
      <4> QED BY <1>7, <4>1
    <3>2. DOMAIN View' = {files'[j].name : j \in Readable'}
      BY DEF View
    <3>3. DOMAIN View = {files[j].name : j \in Readable}
      BY DEF View
    <3> QED BY <3>1, <3>2, <3>3 DEF About
  <2>4. published = View' \/ \E j \in Readable' : j > m
    <3>1. CASE files' = files
      <4>1. Readable' = Readable
        BY <3>1 DEF Readable
      <4>2. View' = View
        BY <1>1, <3>1, <4>1, ViewStays
      <4> QED BY <2>2, <4>1, <4>2
    <3>2. CASE files' = Put(files, i, e) /\ b # "torn"
      <4>1. i \in DOMAIN files' /\ files'[i] = e
        BY <1>5, <3>2
      <4>2. i \in Readable'
        BY <1>3, <3>2, <4>1 DEF Readable
      <4> QED BY <1>3, <2>2, <4>2
    <3>3. CASE files' = Put(files, i, e) /\ b = "torn" /\ work[w].pc = "open"
      <4>1. i \notin Readable
        BY <1>3, <1>1, <3>3 DEF OwnFileIsNewest, FileOf
      <4>2. i \in DOMAIN files' /\ files'[i] = e
        BY <1>5, <3>3
      <4>3. i \notin Readable'
        BY <1>3, <3>3, <4>2 DEF Readable
      <4>4. Readable' = Readable /\ \A j \in Readable : files'[j] = files[j]
        <5>1. \A j : j \in Readable' <=> j \in Readable
          <6> QED BY <1>6, <4>1, <4>3
        <5>2. \A j \in Readable : j \in DOMAIN files /\ j # i
          BY <4>1 DEF Readable
        <5> QED BY <1>5, <5>1, <5>2
      <4>5. View' = View
        BY <1>1, <4>4, ViewStays
      <4> QED BY <2>2, <4>4, <4>5
    <3> QED BY <1>3, <3>1, <3>2, <3>3
  <2>5. \A v \in Workers : Numbered(v)' => work'[v].idx > m
    BY <2>2 DEF Numbered
  <2> QED BY <2>1, <2>2, <2>3, <2>4, <2>5 DEF StaleIsOutnumbered, FileOf
<1>14. StaleIsOutnumbered'
  BY <1>13 DEF StaleIsOutnumbered
<1> QED BY <1>9, <1>10, <1>11, <1>12, <1>14 DEF SessionsInvariant

\* Every step of write_test and of the execution is such a step.
LEMMA SessionsWrite ==
    ASSUME KInv, SoundSession, NEW w \in Workers,
           \/ OpenPlaceholder(w) \/ WritePlaceholder(w) \/ WriteFails(w)
           \/ Execute(w) \/ OpenTmp(w) \/ WriteTmp(w)
    PROVE  SessionsInvariant'
<1>1. TypeOK /\ Numbered(w) /\ phase = "run"
      /\ UNCHANGED <<phase, todo, counter, meta, results, published, recorded>>
  BY DEF KInv, IInv, DirectoryInvariant, OpenPlaceholder, WritePlaceholder,
     WriteFails, Execute, OpenTmp, WriteTmp, At, Numbered, disk, ghosts
<1>2. PICK pc \in PCs, b \in Bodies :
        /\ Step(w, pc) \/ (pc = "idle" /\ GiveUp(w))
        /\ \/ /\ files' = Put(files, work[w].idx, [name |-> work[w].test, body |-> b])
              /\ \/ b = "torn" /\ work[w].pc = "open" /\ pc = "placeholder"
                 \/ b = "incomplete" /\ pc = "execute"
           \/ /\ files' = files
              /\ pc \in {"idle", "opentmp", "writetmp", "move"}
              /\ pc # "idle" => work[w].pc \in {"execute", "opentmp", "writetmp"}
  <2>1. CASE OpenPlaceholder(w)
    BY <2>1 DEF OpenPlaceholder, At, FileOf, PCs, Bodies
  <2>2. CASE WritePlaceholder(w)
    BY <2>2 DEF WritePlaceholder, FileOf, Placeholder, PCs, Bodies
  <2>3. CASE WriteFails(w) \/ Execute(w)
    BY <2>3 DEF WriteFails, Execute, At, disk, PCs, Bodies
  <2>4. CASE OpenTmp(w) \/ WriteTmp(w)
    BY <2>4 DEF OpenTmp, WriteTmp, At, PCs, Bodies
  <2> QED BY <2>1, <2>2, <2>3, <2>4
<1>3. /\ work'[w].pc = pc
      /\ pc # "idle" => work'[w].idx = work[w].idx /\ work'[w].test = work[w].test
      /\ \A v \in Workers : v # w => work'[v] = work[v]
  BY <1>1, <1>2, StepFacts DEF PCs
<1> QED BY <1>1, <1>2, <1>3, SessionsOwnFile

\* So is the move, which puts the result where the placeholder was.
LEMMA SessionsMove ==
    ASSUME KInv, SoundSession, NEW w \in Workers, Move(w)
    PROVE  SessionsInvariant'
<1>1. TypeOK /\ TmpReady /\ Numbered(w) /\ phase = "run" /\ "done" \in Bodies
  BY DEF KInv, IInv, DirectoryInvariant, Move, At, Numbered, Bodies
<1>2. /\ files' = Put(files, work[w].idx, [name |-> work[w].test, body |-> "done"])
      /\ work' = [work EXCEPT ![w] = Idle]
      /\ recorded' = recorded \cup {work[w].test}
      /\ todo' \subseteq todo
      /\ UNCHANGED <<meta, results, published, phase, counter>>
  BY <1>1 DEF Move, At, FileOf, TmpReady
<1>3. /\ work'[w].pc = "idle"
      /\ \A v \in Workers : v # w => work'[v] = work[v]
  BY <1>1, <1>2 DEF TypeOK, Idle
<1> QED BY <1>1, <1>2, <1>3, SessionsOwnFile

\* The main thread: finalize publishes what the newest files say, before it
\* removes metadata.json.
LEMMA SessionsMain ==
    ASSUME KInv, SoundSession, Main
    PROVE  SessionsInvariant'
<1>1. /\ TestsApart /\ RecordedIsNewest /\ StageOfSession
      /\ RecordedIsPublished /\ StaleIsOutnumbered
      /\ TypeOK /\ FilesBounded /\ BusyNumbered
  BY DEF KInv, SessionsInvariant, IInv, DirectoryInvariant
<1>2. UNCHANGED <<todo, counter, work, recorded>>
  BY DEF Main, OpenMetadata, WriteMetadata, MakeTestsDir, RunReturns, OpenResults,
     WriteResults, UnlinkMetadata, RemoveEntry, RemoveTestsDir, pools, ghosts
<1>3. \A w \in Workers : work[w].pc = "idle" /\ work'[w].pc = "idle"
  BY <1>1, <1>2 DEF Main, OpenMetadata, WriteMetadata, MakeTestsDir, RunReturns,
     OpenResults, WriteResults, UnlinkMetadata, RemoveEntry, RemoveTestsDir,
     Joined, BusyNumbered, Busy
<1>4. TestsApart' /\ OwnFileIsNewest'
  BY <1>1, <1>2, <1>3 DEF TestsApart, OwnFileIsNewest, Busy, Numbered
<1>5. ASSUME files' = files
      PROVE  /\ Readable' = Readable /\ View' = View
             /\ \A t : NewestSays(t, "done")' <=> NewestSays(t, "done")
  <2>1. Readable' = Readable /\ \A i \in Readable : files'[i] = files[i]
    BY <1>5 DEF Readable
  <2>2. View' = View /\ \A t : About(t)' = About(t)
    BY <1>1, <2>1, ViewStays
  <2> QED BY <1>5, <2>1, <2>2 DEF NewestSays
<1>6. /\ RecordedIsNewest' /\ StageOfSession'
      /\ RecordedIsPublished' /\ StaleIsOutnumbered'
  <2>1. CASE OpenMetadata \/ WriteMetadata \/ MakeTestsDir
    <3>1. /\ files = Empty /\ recorded = {} /\ results = "absent"
          /\ phase' \in {"meta", "mkdir", "run"}
          /\ phase' \in {"mkdir"} => meta' = "ok"
          /\ files' = files /\ results' = results
      BY <1>1, <2>1 DEF OpenMetadata, WriteMetadata, MakeTestsDir, StageOfSession
    <3> QED BY <1>2, <3>1 DEF RecordedIsNewest, StageOfSession, RecordedIsPublished,
               StaleIsOutnumbered
  <2>2. CASE RunReturns
    <3>1. /\ phase' \in {"failed", "finalize"}
          /\ meta = "ok" \/ Streams = FALSE
          /\ UNCHANGED <<files, meta, results, published>>
      BY <2>2 DEF RunReturns, disk, SoundSession
    <3> QED BY <1>1, <1>2, <1>3, <1>5, <3>1
            DEF RecordedIsNewest, StageOfSession, RecordedIsPublished,
                StaleIsOutnumbered, Numbered
  <2>3. CASE OpenResults
    <3>1. /\ UNCHANGED <<files, meta>>
          /\ \/ /\ phase' = "write" /\ meta = "ok"
                /\ results' = "torn" /\ published' = Empty
             \/ phase' = "failed" /\ UNCHANGED <<results, published>>
      BY <1>1, <2>3 DEF OpenResults, CanOpenResults, StageOfSession
    <3> QED BY <1>1, <1>2, <1>3, <1>5, <3>1
            DEF RecordedIsNewest, StageOfSession, RecordedIsPublished,
                StaleIsOutnumbered, Numbered
  <2>4. CASE WriteResults
    <3>1. meta = "ok" /\ results = "torn" /\ published = Empty
          /\ files' = files /\ meta' = meta
      BY <1>1, <2>4 DEF WriteResults, StageOfSession
    <3>2. CASE View # Empty
      <4>1. phase' = "unlink" /\ results' = "ok" /\ published' = View
        BY <2>4, <3>1, <3>2 DEF WriteResults
      <4>2. \A t \in recorded : t \in DOMAIN View /\ View[t] = "done"
        BY <1>1, <3>1, ViewByNewest DEF RecordedIsNewest
      <4> QED BY <1>1, <1>2, <1>3, <1>5, <3>1, <4>1, <4>2
              DEF RecordedIsNewest, StageOfSession, RecordedIsPublished,
                  StaleIsOutnumbered, Numbered
    <3>3. CASE View = Empty
      <4>1. phase' = "failed" /\ published' = View
        BY <2>4, <3>1, <3>3 DEF WriteResults
      <4> QED BY <1>1, <1>2, <1>3, <1>5, <3>1, <4>1
              DEF RecordedIsNewest, StageOfSession, RecordedIsPublished,
                  StaleIsOutnumbered, Numbered
    <3> QED BY <3>2, <3>3
  <2>5. CASE UnlinkMetadata \/ RemoveEntry \/ RemoveTestsDir
    <3>1. /\ phase \in {"unlink", "rmtree"} /\ meta' = "absent"
          /\ phase' \in {"rmtree", "done"}
          /\ UNCHANGED <<results, published>>
      BY <1>1, <2>5 DEF UnlinkMetadata, RemoveEntry, RemoveTestsDir, StageOfSession
    <3> QED BY <1>1, <1>2, <3>1 DEF RecordedIsNewest, StageOfSession,
               RecordedIsPublished, StaleIsOutnumbered
  <2> QED BY <2>1, <2>2, <2>3, <2>4, <2>5 DEF Main
<1> QED BY <1>4, <1>6 DEF SessionsInvariant

\* A sound resume loads what the files say, from them or from a results file that
\* still says the same, so it leaves out every test with a result.
LEMMA SessionsResume ==
    ASSUME KInv, SoundSession', NEW noRetry \in BOOLEAN, Resume(noRetry)
    PROVE  SessionsInvariant'
<1>1. /\ TestsApart /\ RecordedIsNewest /\ StageOfSession
      /\ RecordedIsPublished /\ StaleIsOutnumbered
      /\ TypeOK /\ FilesBounded
  BY DEF KInv, SessionsInvariant, IInv, DirectoryInvariant
<1>2. /\ phase' = "run" /\ work' = AllIdle
      /\ todo' = Remaining(Loaded, noRetry) /\ counter' = StartCount(Loaded)
      /\ UNCHANGED <<files, meta, results, published, recorded>>
  BY DEF Resume, disk
<1>3. \A w \in Workers : work'[w].pc = "idle"
  BY <1>2 DEF AllIdle, Idle
<1>4. Readable' = Readable /\ View' = View /\ \A t : About(t)' = About(t)
  <2>1. Readable' = Readable /\ \A i \in Readable : files'[i] = files[i]
    BY <1>2 DEF Readable
  <2> QED BY <1>1, <2>1, ViewStays
<1>5. OwnFileIsNewest'
  BY <1>3 DEF OwnFileIsNewest, Numbered
<1>6. RecordedIsNewest'
  BY <1>1, <1>2, <1>4 DEF RecordedIsNewest, NewestSays
<1>7. StageOfSession' /\ RecordedIsPublished'
  BY <1>1, <1>2 DEF StageOfSession, RecordedIsPublished
<1>8. PICK m \in Nat : m = Cardinality(DOMAIN published)
  BY <1>1, FiniteAssumption, FS_Subset, FS_CardinalityType DEF TypeOK
<1>9. PICK k \in Nat : k = Cardinality(DOMAIN Loaded)
  BY <1>1, LoadedType, FiniteAssumption, FS_Subset, FS_CardinalityType
<1>10. counter' = k + 1
  BY <1>2, <1>9 DEF StartCount
<1>11. ASSUME meta = "ok" PROVE Loaded = View
  <2>1. CASE Loaded = View
    BY <2>1
  <2>2. CASE Loaded = published /\ results = "ok"
    <3>1. k = m
      BY <1>8, <1>9, <2>2
    <3>2. \A i \in Readable : i < counter'
      BY <1>2, <1>4, <1>11 DEF SoundSession
    <3>3. \A i \in Readable : i \in Nat
      BY <1>1 DEF TypeOK, Readable
    <3>4. ~ \E i \in Readable : i > m
      BY <1>10, <3>1, <3>2, <3>3
    <3> QED BY <1>1, <1>8, <1>11, <2>2, <3>4 DEF StaleIsOutnumbered
  <2> QED BY <2>1, <2>2 DEF Resume, Loadable, Loaded
<1>12. TestsApart'
  <2>1. CASE meta = "ok"
    <3>1. \A t \in recorded : t \in DOMAIN View /\ View[t] = "done"
      BY <1>1, <2>1, ViewByNewest DEF RecordedIsNewest
    <3>2. \A p \in todo' : Profile[p] \notin Excluded(View, noRetry)
      BY <1>2, <1>11, <2>1 DEF Remaining
    <3>3. \A p \in todo' : Profile[p] \notin recorded
      BY <3>1, <3>2 DEF Excluded
    <3> QED BY <1>2, <1>3, <3>3 DEF TestsApart, Busy
  <2>2. CASE meta # "ok"
    <3>1. todo' = {}
      BY <1>2, <2>2 DEF SoundSession, Joined
    <3> QED BY <1>3, <3>1 DEF TestsApart, Busy
  <2> QED BY <2>1, <2>2
<1>13. ASSUME meta = "ok", results = "ok" PROVE counter' > m
  <2>1. DOMAIN published \subseteq DOMAIN View
    BY <1>1, <1>13 DEF StaleIsOutnumbered
  <2>2. DOMAIN View \subseteq Tests
    BY <1>1, ViewFacts
  <2>3. IsFiniteSet(DOMAIN View)
    BY <2>2, FiniteAssumption, FS_Subset
  <2>4. Cardinality(DOMAIN published) <= Cardinality(DOMAIN View)
    BY <2>1, <2>3, FS_Subset
  <2>5. m <= k
    BY <1>8, <1>9, <1>11, <1>13, <2>4
  <2> QED BY <1>10, <2>5
<1>14. StaleIsOutnumbered'
  <2> SUFFICES ASSUME meta = "ok", results = "ok"
               PROVE  StaleIsOutnumbered'
    BY <1>2 DEF StaleIsOutnumbered
  <2>1. /\ DOMAIN published \subseteq DOMAIN View
        /\ published = View \/ \E i \in Readable : i > m
    BY <1>1, <1>8 DEF StaleIsOutnumbered
  <2>2. counter' > m /\ m = Cardinality(DOMAIN published')
    BY <1>2, <1>8, <1>13
  <2> QED BY <1>2, <1>3, <1>4, <2>1, <2>2 DEF StaleIsOutnumbered, Numbered
<1> QED BY <1>5, <1>6, <1>7, <1>12, <1>14 DEF SessionsInvariant

\* Every step from a sound session to a sound session keeps the invariant.
LEMMA SessionsStep ==
    ASSUME NoRepetition
    PROVE  KInv /\ SoundSession /\ SoundSession' /\ [Next]_vars => KInv'
<1> SUFFICES ASSUME KInv, SoundSession, SoundSession', [Next]_vars PROVE KInv'
  OBVIOUS
<1>1. IInv'
  BY StepInvariant DEF KInv
<1>2. SessionsInvariant'
  <2>1. CASE Main
    BY <2>1, SessionsMain
  <2>2. ASSUME NEW w \in Workers, Worker(w) PROVE SessionsInvariant'
    BY <2>2, SessionsTake, SessionsNumber, SessionsWrite, SessionsMove DEF Worker
  <2>3. CASE Kill \/ ResumeRefused
    <3>1. /\ work' = AllIdle /\ todo' = {} /\ phase' \in {"down", "failed"}
          /\ UNCHANGED <<files, meta, results, published, recorded>>
      BY <2>3 DEF Kill, ResumeRefused, disk, ghosts
    <3>2. \A v \in Workers : work'[v].pc = "idle"
      BY <3>1 DEF AllIdle, Idle
    <3>3. TypeOK /\ FilesBounded /\ SessionsInvariant
      BY DEF KInv, IInv, DirectoryInvariant
    <3>4. Readable' = Readable /\ \A i \in Readable : files'[i] = files[i]
      BY <3>1 DEF Readable
    <3>5. View' = View /\ \A t : About(t)' = About(t)
      BY <3>3, <3>4, ViewStays
    <3>6. TestsApart' /\ OwnFileIsNewest'
      BY <3>1, <3>2 DEF TestsApart, OwnFileIsNewest, Busy, Numbered
    <3>7. RecordedIsNewest' /\ StageOfSession' /\ RecordedIsPublished'
      BY <3>1, <3>3, <3>5 DEF SessionsInvariant, RecordedIsNewest, NewestSays,
         StageOfSession, RecordedIsPublished
    <3>8. StaleIsOutnumbered'
      BY <3>1, <3>2, <3>3, <3>4, <3>5 DEF SessionsInvariant, StaleIsOutnumbered, Numbered
    <3> QED BY <3>6, <3>7, <3>8 DEF SessionsInvariant
  <2>4. ASSUME NEW noRetry \in BOOLEAN, Resume(noRetry) PROVE SessionsInvariant'
    BY <2>4, SessionsResume
  <2>5. CASE UNCHANGED vars
    <3>1. TypeOK /\ FilesBounded /\ SessionsInvariant
      BY DEF KInv, IInv, DirectoryInvariant
    <3>2. UNCHANGED <<files, meta, results, published, phase, todo, counter, work, recorded>>
      BY <2>5 DEF vars, disk, pools, ghosts
    <3>3. Readable' = Readable /\ \A i \in Readable : files'[i] = files[i]
      BY <3>2 DEF Readable
    <3>4. View' = View /\ \A t : About(t)' = About(t)
      BY <3>1, <3>3, ViewStays
    <3>5. TestsApart' /\ OwnFileIsNewest'
      BY <3>1, <3>2, <3>3, <3>4 DEF SessionsInvariant, TestsApart, OwnFileIsNewest,
         Busy, Numbered, FileOf
    <3>6. RecordedIsNewest' /\ StageOfSession' /\ RecordedIsPublished'
      BY <3>1, <3>2, <3>4 DEF SessionsInvariant, RecordedIsNewest, NewestSays,
         StageOfSession, RecordedIsPublished
    <3>7. StaleIsOutnumbered'
      BY <3>1, <3>2, <3>3, <3>4 DEF SessionsInvariant, StaleIsOutnumbered, Numbered, FileOf
    <3> QED BY <3>5, <3>6, <3>7 DEF SessionsInvariant
  <2> QED BY <2>1, <2>2, <2>3, <2>4, <2>5 DEF Next, User
<1> QED BY <1>1, <1>2 DEF KInv

\* So every state of a behaviour of sound sessions satisfies it.
LEMMA SessionsHold ==
    ASSUME NoRepetition
    PROVE  Spec /\ []SoundSession => []KInv
<1> QED BY SessionsInit, SessionsStep, PTL DEF Spec

-----------------------------------------------------------------------------
(***************************************************************************)
(* What any number of sound sessions is worth.                             *)
(***************************************************************************)

\* Within the invariant, what was recorded is in a newest file or in the results file;
LEMMA SoundIsRecoverable == KInv => RecordedSurvives
<1> SUFFICES ASSUME KInv, NEW t \in recorded PROVE Recoverable(t)
  BY DEF RecordedSurvives
<1>1. TypeOK /\ FilesBounded /\ RecordedIsNewest /\ RecordedIsPublished
  BY DEF KInv, SessionsInvariant, IInv, DirectoryInvariant
<1>2. CASE meta = "ok"
  BY <1>1, <1>2, ViewByNewest DEF RecordedIsNewest, Recoverable
<1>3. CASE meta # "ok"
  BY <1>1, <1>3 DEF RecordedIsPublished, Recoverable
<1> QED BY <1>2, <1>3

\* a session that has ended well published it;
LEMMA SoundPublishesTheRecord == KInv /\ OnlyRecordedIsReported => PublishedIsFaithful
BY DEF KInv, SessionsInvariant, RecordedIsPublished, OnlyRecordedIsReported,
   PublishedIsFaithful

\* and a thread opens files that hold none.
LEMMA SoundOpensNoResult == KInv => ResultsNotOverwritten
BY DEF KInv, SessionsInvariant, OwnFileIsNewest, ResultsNotOverwritten, Numbered,
   FileOf, Readable

\* Killed and resumed as often as one likes, a directory keeps every result it
\* was given, if each resume numbers its files beyond those it found.
THEOREM SoundSessionsLoseNothing ==
    ASSUME NoRepetition
    PROVE  Spec /\ []SoundSession => []RecordedSurvives
BY SoundIsRecoverable, SessionsHold, PTL

\* The results file of whichever of them ends well says "done" of exactly the tests
\* that one of them recorded.
THEOREM SoundSessionsAreFaithful ==
    ASSUME NoRepetition
    PROVE  Spec /\ []SoundSession => []PublishedIsFaithful
BY SoundPublishesTheRecord, SessionsHold, NothingInvented, PTL

\* None of their threads opens a file that holds a finished result: what
\* FileBackend asks of the caller who gives it a file_start_count is enough.
THEOREM SoundSessionsOverwriteNothing ==
    ASSUME NoRepetition
    PROVE  Spec /\ []SoundSession => []ResultsNotOverwritten
BY SoundOpensNoResult, SessionsHold, PTL

\* And none of them takes back a results file that is all there is left, with or
\* without jsonstreams.
THEOREM SoundSessionsKeepFinalResults ==
    ASSUME NoRepetition
    PROVE  Spec /\ []SoundSession => FinalResultsKept
<1>1. ASSUME KInv, [Next]_vars, results = "ok", meta = "absent"
      PROVE  results' = "ok" /\ published' = published
  <2>1. StageOfSession
    BY <1>1 DEF KInv, SessionsInvariant
  <2>2. ~ WriteResults
    BY <1>1, <2>1 DEF WriteResults, StageOfSession
  <2>3. OpenResults => UNCHANGED <<results, published>>
    BY <1>1, <2>1 DEF OpenResults, CanOpenResults, StageOfSession
  <2>4. OpenResults \/ UNCHANGED <<results, published>>
    BY <1>1, <2>2 DEF Next, Main, Worker, Kill, User, Resume, ResumeRefused, vars, disk,
       OpenMetadata, WriteMetadata, MakeTestsDir, RunReturns,
       UnlinkMetadata, RemoveEntry, RemoveTestsDir, Take, Number, OpenPlaceholder,
       WritePlaceholder, WriteFails, Execute, OpenTmp, WriteTmp, Move
  <2> QED BY <1>1, <2>3, <2>4
<1>2. KInv /\ [Next]_vars =>
        [results = "ok" /\ meta = "absent" => results' = "ok" /\ published' = published]_vars
  BY <1>1
<1> QED BY <1>2, SessionsHold, PTL DEF Spec, FinalResultsKept

-----------------------------------------------------------------------------
(***************************************************************************)
(* Sound sessions implement TestRecord.                                    *)
(***************************************************************************)

\* The record of each test as its newest file has it.
RecordOfNewest ==
    [t \in Tests |-> IF NewestSays(t, "done") THEN "done"
                     ELSE IF NewestSays(t, "incomplete") THEN "incomplete"
                     ELSE "none"]

\* While metadata.json is there, that is what a reader finds.
LEMMA RecordByNewest ==
    KInv => /\ meta = "ok" => Rec = RecordOfNewest
            /\ \A t : ~ (NewestSays(t, "done") /\ NewestSays(t, "incomplete"))
<1> SUFFICES ASSUME KInv
             PROVE  /\ meta = "ok" => Rec = RecordOfNewest
                    /\ \A t : ~ (NewestSays(t, "done") /\ NewestSays(t, "incomplete"))
  OBVIOUS
<1>1. TypeOK /\ FilesBounded
  BY DEF KInv, IInv, DirectoryInvariant
<1>2. /\ \A t \in DOMAIN View : NewestSays(t, View[t])
      /\ \A t, b : NewestSays(t, b) /\ b # "torn" => t \in DOMAIN View /\ View[t] = b
  BY <1>1, ViewByNewest
<1>3. View \in [DOMAIN View -> {"incomplete", "done"}]
  BY <1>1, ViewFacts
<1>4. \A t : /\ NewestSays(t, "done") => t \in DOMAIN View /\ View[t] = "done"
             /\ NewestSays(t, "incomplete") => t \in DOMAIN View /\ View[t] = "incomplete"
  BY <1>2
<1>5. ASSUME NEW t \in Tests PROVE AsRecord(View)[t] = RecordOfNewest[t]
  <2>1. CASE t \in DOMAIN View
    <3>1. View[t] \in {"incomplete", "done"}
      BY <1>3, <2>1
    <3> QED BY <1>2, <1>4, <2>1, <3>1 DEF AsRecord, RecordOfNewest
  <2>2. CASE t \notin DOMAIN View
    BY <1>4, <2>2 DEF AsRecord, RecordOfNewest
  <2> QED BY <2>1, <2>2
<1>6. meta = "ok" => Rec = RecordOfNewest
  BY <1>5 DEF Rec, Visible, AsRecord, RecordOfNewest
<1> QED BY <1>4, <1>6

\* A thread's step is Begin or Finish of its test, or changes no record.
LEMMA SessionsWorkerRefines ==
    ASSUME KInv, KInv', SoundSession, OnlyRecordedIsReported, NEW w \in Workers, Worker(w)
    PROVE  [Record!Next]_<<Rec, Rep>>
<1>1. /\ TestsApart /\ OwnFileIsNewest /\ TypeOK /\ FilesBounded
      /\ BusyNumbered /\ TmpReady
      /\ OwnFileIsNewest' /\ RecordedIsNewest' /\ TypeOK'
  BY DEF KInv, SessionsInvariant, IInv, DirectoryInvariant
<1>2. phase = "run" /\ (Busy(w) \/ todo # {})
  BY DEF Worker, Take, Number, OpenPlaceholder, WritePlaceholder, WriteFails, Execute,
     OpenTmp, WriteTmp, Move, At, Busy
<1>3. /\ meta = "ok" /\ meta' = "ok"
      /\ UNCHANGED <<results, published>>
  BY <1>2, BusyHasMetadata DEF Worker, Take, Number, OpenPlaceholder, WritePlaceholder,
     WriteFails, Execute, OpenTmp, WriteTmp, Move, disk
<1>4. Rec = RecordOfNewest /\ Rec' = RecordOfNewest'
  <2>1. (KInv => (meta = "ok" => Rec = RecordOfNewest))'
    BY RecordByNewest, PTL
  <2> QED BY <1>3, <2>1, RecordByNewest
<1>5. Rep' = Rep
  BY <1>3 DEF Rep, AsRecord
<1>6. CASE OpenPlaceholder(w)
  <2>1. PICK i \in Nat, n \in Tests \cup {NoTest} :
          /\ i \notin Readable
          /\ \/ files' = files
             \/ files' = Put(files, i, [name |-> n, body |-> "torn"])
    BY <1>1, <1>6 DEF OpenPlaceholder, At, OwnFileIsNewest, FileOf, Numbered, TypeOK
  <2>2. Readable' = Readable /\ \A j \in Readable : files'[j] = files[j]
    BY <2>1 DEF Readable, Put
  <2>3. View' = View
    BY <1>1, <2>2, ViewStays
  <2> QED BY <1>3, <1>5, <2>3 DEF Rec, Visible, AsRecord
<1>7. ASSUME NEW b \in {"incomplete", "done"},
             \/ b = "incomplete" /\ WritePlaceholder(w)
             \/ b = "done" /\ Move(w)
      PROVE  [Record!Next]_<<Rec, Rep>>
  <2>1. PICK i \in Nat, n \in Tests :
          /\ i = work[w].idx /\ n = work[w].test /\ n \notin recorded
          /\ i \in Readable => files[i].name = n
          /\ files' = Put(files, i, [name |-> n, body |-> b])
    <3>1. Busy(w) /\ Numbered(w)
      BY <1>7 DEF WritePlaceholder, Move, At, Busy, Numbered
    <3>2. work[w].idx \in Nat /\ work[w].test \in Tests /\ work[w].test \notin recorded
      BY <1>1, <3>1 DEF TypeOK, BusyNumbered, TestsApart
    <3>3. CASE b = "incomplete"
      <4>1. /\ work[w].idx \notin Readable
            /\ files' = Put(files, work[w].idx, [name |-> work[w].test, body |-> b])
        BY <1>1, <1>7, <3>1, <3>3 DEF WritePlaceholder, At, OwnFileIsNewest, FileOf,
           Placeholder
      <4> QED BY <3>2, <4>1
    <3>4. CASE b = "done"
      <4>1. /\ files[work[w].idx] = [name |-> work[w].test, body |-> "incomplete"]
            /\ files' = Put(files, work[w].idx, [name |-> work[w].test, body |-> b])
        BY <1>1, <1>7, <3>1, <3>4 DEF Move, At, OwnFileIsNewest, FileOf, TmpReady
      <4> QED BY <3>2, <4>1
    <3> QED BY <3>3, <3>4
  <2>2. /\ DOMAIN files' = DOMAIN files \cup {i}
        /\ files'[i] = [name |-> n, body |-> b]
        /\ \A j \in DOMAIN files : j # i => files'[j] = files[j]
    BY <2>1, Zenon DEF Put
  <2>3. NewestSays(n, b)'
    <3>1. CASE b = "done"
      <4>1. n \in recorded'
        BY <1>7, <2>1, <3>1 DEF Move
      <4> QED BY <1>1, <1>3, <3>1, <4>1 DEF RecordedIsNewest
    <3>2. CASE b = "incomplete"
      <4>1. work'[w].pc = "execute" /\ work'[w].test = n /\ work'[w].idx = i
        BY <1>1, <1>7, <2>1, <3>2, StepFacts DEF WritePlaceholder, PCs
      <4>2. Numbered(w)'
        BY <4>1 DEF Numbered
      <4>3. \A j \in About(work[w].test)' : j <= i
        BY <1>1, <4>1, <4>2 DEF OwnFileIsNewest, FileOf
      <4>4. \A j \in About(n)' : j <= i
        BY <4>1, <4>3 DEF About
      <4>5. i \in DOMAIN files'
        BY <2>2
      <4> QED BY <2>2, <3>2, <4>4, <4>5 DEF NewestSays
    <3> QED BY <3>1, <3>2
  <2>4. \A t, c : t # n /\ c # "torn" => (NewestSays(t, c)' <=> NewestSays(t, c))
    <3>1. \A t : t # n => About(t)' = About(t)
      BY <2>1, <2>2 DEF About, Readable
    <3>2. ASSUME NEW t, NEW c, t # n, c # "torn", NewestSays(t, c)
          PROVE  NewestSays(t, c)'
      <4>1. PICK k \in DOMAIN files :
              /\ files[k] = [name |-> t, body |-> c]
              /\ \A j \in About(t) : j <= k
        BY <3>2 DEF NewestSays
      <4>2. k # i
        BY <2>1, <3>2, <4>1 DEF Readable
      <4> QED BY <2>2, <3>1, <3>2, <4>1, <4>2 DEF NewestSays
    <3>3. ASSUME NEW t, NEW c, t # n, c # "torn", NewestSays(t, c)'
          PROVE  NewestSays(t, c)
      <4>1. PICK k \in DOMAIN files' :
              /\ files'[k] = [name |-> t, body |-> c]
              /\ \A j \in About(t)' : j <= k
        BY <3>3 DEF NewestSays
      <4>2. k # i
        BY <2>2, <3>3, <4>1
      <4> QED BY <2>2, <3>1, <3>3, <4>1, <4>2 DEF NewestSays
    <3> QED BY <3>2, <3>3
  <2>5. ~ NewestSays(n, "done")
    BY <2>1 DEF NewestSays, OnlyRecordedIsReported
  <2>6. (KInv => \A t : ~ (NewestSays(t, "done") /\ NewestSays(t, "incomplete")))'
    BY RecordByNewest, PTL
  <2>7. /\ NewestSays(n, "done")' <=> b = "done"
        /\ NewestSays(n, "incomplete")' <=> b = "incomplete"
    BY <2>3, <2>6
  <2>8. RecordOfNewest' = [RecordOfNewest EXCEPT ![n] = b]
    <3>1. \A t \in Tests : RecordOfNewest'[t] = IF t = n THEN b ELSE RecordOfNewest[t]
      BY <2>4, <2>7 DEF RecordOfNewest
    <3> QED BY <3>1 DEF RecordOfNewest
  <2>9. CASE b = "incomplete" /\ NewestSays(n, "incomplete")
    <3>1. RecordOfNewest[n] = b
      BY <2>1, <2>5, <2>9 DEF RecordOfNewest
    <3>2. RecordOfNewest' = RecordOfNewest
      BY <2>8, <3>1 DEF RecordOfNewest
    <3> QED BY <1>4, <1>5, <3>2
  <2>10. CASE b = "incomplete" /\ ~ NewestSays(n, "incomplete")
    <3>1. RecordOfNewest[n] = "none"
      BY <2>1, <2>5, <2>10 DEF RecordOfNewest
    <3>2. Record!Begin(n)
      BY <1>4, <1>5, <2>8, <2>10, <3>1 DEF Record!Begin, Rec, Rep
    <3> QED BY <2>1, <3>2 DEF Record!Next
  <2>11. CASE b = "done"
    <3>1. NewestSays(n, "incomplete")
      <4>1. At(w, "move") /\ Numbered(w)
        BY <1>7, <2>11 DEF Move, At, Numbered
      <4> QED BY <1>1, <2>1, <4>1 DEF At, OwnFileIsNewest, FileOf, NewestSays
    <3>2. RecordOfNewest[n] = "incomplete"
      BY <2>1, <2>5, <3>1 DEF RecordOfNewest
    <3>3. Record!Finish(n)
      BY <1>4, <1>5, <2>8, <2>11, <3>2 DEF Record!Finish, Rec, Rep
    <3> QED BY <2>1, <3>3 DEF Record!Next
  <2> QED BY <2>9, <2>10, <2>11
<1>8. CASE \/ Take(w) \/ Number(w) \/ WriteFails(w)
          \/ Execute(w) \/ OpenTmp(w) \/ WriteTmp(w)
  <2>1. files' = files
    BY <1>8 DEF Take, Number, WriteFails, Execute, OpenTmp, WriteTmp, disk
  <2> QED BY <1>4, <1>5, <2>1 DEF RecordOfNewest, NewestSays, About, Readable
<1> QED BY <1>6, <1>7, <1>8 DEF Worker

\* The main thread publishes the records, takes a report back, or changes none.
LEMMA SessionsMainRefines ==
    ASSUME KInv, Main
    PROVE  [Record!Next]_<<Rec, Rep>>
<1>1. StageOfSession
  BY DEF KInv, SessionsInvariant
<1>2. CASE OpenMetadata \/ WriteMetadata \/ MakeTestsDir
  <2>1. /\ files = Empty /\ results = "absent"
        /\ files' = files /\ results' = results
    BY <1>1, <1>2 DEF OpenMetadata, WriteMetadata, MakeTestsDir, StageOfSession
  <2>2. View = Empty /\ View' = Empty
    BY <2>1 DEF View, Readable, Empty
  <2> QED BY <2>1, <2>2 DEF Rec, Rep, Visible, AsRecord
<1>3. CASE RunReturns
  BY <1>3 DEF RunReturns, disk, Rec, Rep, Visible, View, Readable, LastFile, About, AsRecord
<1>4. CASE OpenResults
  <2>1. CASE phase' = "write"
    <3>1. /\ meta = "ok" /\ meta' = "ok" /\ files' = files
          /\ results' = "torn"
      BY <1>1, <1>4, <2>1 DEF OpenResults, CanOpenResults, StageOfSession
    <3>2. Rec' = Rec
      BY <3>1 DEF Rec, Visible, View, Readable, LastFile, About, AsRecord
    <3>3. Rep' = Record!NoReport
      BY <3>1 DEF Rep, AsRecord, Empty, Record!NoReport
    <3> QED BY <3>2, <3>3 DEF Record!Next, Record!Retract, Rec, Rep
  <2>2. CASE phase' # "write"
    <3>1. UNCHANGED <<meta, files, results, published>>
      BY <1>4, <2>2 DEF OpenResults
    <3> QED BY <3>1 DEF Rec, Rep, Visible, View, Readable, LastFile, About, AsRecord
  <2> QED BY <2>1, <2>2
<1>5. CASE WriteResults
  <2>1. /\ meta = "ok" /\ meta' = "ok" /\ files' = files
        /\ results = "torn" /\ published = Empty
    BY <1>1, <1>5 DEF WriteResults, StageOfSession
  <2>2. Rec' = Rec
    BY <2>1 DEF Rec, Visible, View, Readable, LastFile, About, AsRecord
  <2>3. CASE View # Empty
    <3>1. results' = "ok" /\ published' = View
      BY <1>5, <2>1, <2>3 DEF WriteResults
    <3>2. Rep' = AsRecord(View) /\ Rec = AsRecord(View)
      BY <2>1, <3>1 DEF Rep, Rec, Visible, AsRecord
    <3> QED BY <2>2, <3>2 DEF Record!Next, Record!Publish, Rec, Rep
  <2>4. CASE View = Empty
    <3>1. published' = published
      BY <1>5, <2>4 DEF WriteResults
    <3> QED BY <2>1, <2>2, <3>1 DEF Rep, AsRecord
  <2> QED BY <2>3, <2>4
<1>6. CASE UnlinkMetadata
  BY <1>1, <1>6 DEF UnlinkMetadata, StageOfSession, Rec, Rep, Visible, AsRecord
<1>7. CASE RemoveEntry \/ RemoveTestsDir
  BY <1>1, <1>7 DEF RemoveEntry, RemoveTestsDir, StageOfSession, Rec, Rep, Visible, AsRecord
<1> QED BY <1>2, <1>3, <1>4, <1>5, <1>6, <1>7 DEF Main

\* Through kills and resumes each test goes from nothing to "incomplete" to "done" and
\* never back, and a results file that can be read is a snapshot of the records.
THEOREM SoundSessionsImplementRecord ==
    ASSUME NoRepetition
    PROVE  Spec /\ []SoundSession => ImplementsRecord
<1>1. Init => Record!Init
  <2> SUFFICES ASSUME Init PROVE Record!Init
    OBVIOUS
  <2>1. RInv /\ First /\ files = Empty /\ results = "absent"
    BY FirstInit DEF Init, First
  <2> QED BY <2>1, NothingThere DEF Record!Init, Rec, Rep
<1>2. /\ KInv /\ KInv' /\ SoundSession /\ OnlyRecordedIsReported /\ [Next]_vars
      => [Record!Next]_<<Rec, Rep>>
  <2> SUFFICES ASSUME KInv, KInv', SoundSession, OnlyRecordedIsReported, [Next]_vars
               PROVE  [Record!Next]_<<Rec, Rep>>
    OBVIOUS
  <2>1. CASE Main
    BY <2>1, SessionsMainRefines
  <2>2. ASSUME NEW w \in Workers, Worker(w) PROVE [Record!Next]_<<Rec, Rep>>
    BY <2>2, SessionsWorkerRefines
  <2>3. CASE Kill \/ User \/ UNCHANGED vars
    <3>1. UNCHANGED <<meta, files, results, published>>
      BY <2>3 DEF Kill, User, Resume, ResumeRefused, disk, vars
    <3> QED BY <3>1 DEF Rec, Rep, Visible, View, Readable, LastFile, About, AsRecord
  <2> QED BY <2>1, <2>2, <2>3 DEF Next
<1> QED BY <1>1, <1>2, SessionsHold, NothingInvented, PTL
        DEF Spec, ImplementsRecord, Record!Spec, Rec, Rep

-----------------------------------------------------------------------------
(***************************************************************************)
(* When sessions are sound: within a session always, and in the first      *)
(* resume of a run on at most two threads whose tests and writes succeed.  *)
(***************************************************************************)

\* Only a resume can make a session unsound.
LEMMA SoundStep ==
    ASSUME KInv, SoundSession, [Next]_vars, session' = session
    PROVE  SoundSession'
<1>1. StageOfSession /\ TypeOK /\ BusyNumbered
  BY DEF KInv, SessionsInvariant, IInv, DirectoryInvariant
<1> SUFFICES ASSUME phase' = "run" PROVE SoundSession'
  BY DEF SoundSession
<1>2. CASE Main
  <2>1. MakeTestsDir
    BY <1>2 DEF Main, OpenMetadata, WriteMetadata, MakeTestsDir, RunReturns, OpenResults,
       WriteResults, UnlinkMetadata, RemoveEntry, RemoveTestsDir
  <2>2. meta' = "ok" /\ files' = Empty
    BY <1>1, <2>1 DEF MakeTestsDir, StageOfSession
  <2> QED BY <2>2 DEF SoundSession, Readable, Empty
<1>3. ASSUME NEW w \in Workers, Worker(w) PROVE SoundSession'
  <2>1. phase = "run" /\ (Busy(w) \/ todo # {}) /\ meta' = meta
    BY <1>3 DEF Worker, Take, Number, OpenPlaceholder, WritePlaceholder, WriteFails,
       Execute, OpenTmp, WriteTmp, Move, At, Busy, disk
  <2>2. meta = "ok" /\ meta' = "ok" /\ \A i \in Readable : i < counter
    BY <2>1, BusyHasMetadata DEF SoundSession
  <2>3. /\ counter \in Nat /\ counter' \in {counter, counter + 1}
        /\ \A i \in Readable : i \in Nat
    BY <1>1, <1>3 DEF TypeOK, Readable, Worker, Take, Number, Bump, OpenPlaceholder,
       WritePlaceholder, WriteFails, Execute, OpenTmp, WriteTmp, Move
  <2>4. PICK i, e : /\ i = work[w].idx
                    /\ files' = files \/ (files' = Put(files, i, e) /\ Numbered(w))
    BY <1>3 DEF Worker, Take, Number, OpenPlaceholder, WritePlaceholder, WriteFails,
       Execute, OpenTmp, WriteTmp, Move, At, Numbered, FileOf, disk
  <2>5. Numbered(w) => i < counter /\ i \in Nat
    BY <1>1, <2>4 DEF BusyNumbered, Busy, Numbered, TypeOK
  <2>6. \A j \in DOMAIN files' : \/ j = i /\ Numbered(w)
                                 \/ j \in DOMAIN files /\ files'[j] = files[j]
    BY <2>4 DEF Put
  <2>7. \A j \in Readable' : j < counter'
    BY <2>2, <2>3, <2>5, <2>6 DEF Readable
  <2> QED BY <2>2, <2>7 DEF SoundSession
<1>4. CASE Kill \/ User
  <2>1. session \in Nat
    BY <1>1 DEF TypeOK
  <2> QED BY <1>4, <2>1 DEF Kill, User, Resume, ResumeRefused
<1>5. CASE UNCHANGED vars
  BY <1>5 DEF vars, disk, pools, SoundSession, Readable, Joined
<1> QED BY <1>2, <1>3, <1>4, <1>5 DEF Next

\* What the first resume needs of the run: no test raises and no write fails, and
\* there are at most two threads.
TwoThreads == \A u, v, w \in Workers : u = v \/ v = w \/ u = w

QuietFaults == Faults \subseteq {"kill", "abort"}

Opening(w) == work[w].pc \in {"open", "placeholder"}

\* Each number given out is that of a file that can be read, or of a thread that has
\* not written its placeholder; and of two such threads one has the last number.
NumbersUsed ==
    phase = "run" =>
        /\ \A i \in Nat : i < counter =>
             i \in Readable \/ \E w \in Workers : Opening(w) /\ work[w].idx = i
        /\ \A v, w \in Workers : v # w /\ Opening(v) /\ Opening(w) =>
             work[v].idx + 1 = counter \/ work[w].idx + 1 = counter

\* So at most one number is missing below the number of a file that can be read.
AtMostOneGap ==
    meta = "ok" =>
        \A m \in Readable : \A i, j \in Nat :
            i < m /\ j < m /\ i \notin Readable /\ j \notin Readable => i = j

\* Until a monitor ends the run, each test waits, is at work or has a result.
EveryTestSomewhere ==
    phase \in {"init", "meta", "mkdir", "run"} /\ aborted = FALSE =>
        \A p \in DOMAIN Profile :
            \/ p \in todo \/ Profile[p] \in recorded
            \/ \E w \in Workers : Busy(w) /\ work[w].test = Profile[p]

\* What is published of a run is everything.
EverythingPublished ==
    /\ phase \in {"finalize", "write"} \/ results = "ok" =>
         \A p \in DOMAIN Profile : Profile[p] \in recorded
    /\ meta = "ok" /\ results = "ok" => published = View

FirstRunInvariant ==
    /\ phase = "run" => testsDir = TRUE
    /\ phase \in {"init", "meta", "mkdir"} => counter = 0
    /\ NumbersUsed
    /\ AtMostOneGap
    /\ EveryTestSomewhere
    /\ EverythingPublished

\* A thread's step uses numbers in order and drops no test.
LEMMA FirstRunWorker ==
    ASSUME TwoThreads, QuietFaults, RInv, First, FirstRunInvariant,
           NEW w \in Workers, Worker(w), IInv', OneFilePerTest'
    PROVE  FirstRunInvariant'
<1>1. /\ OneFilePerTest /\ FileFollowsThread /\ StageOfDirectory
      /\ TypeOK /\ BusyNumbered /\ OneWriterPerFile
      /\ TypeOK' /\ BusyNumbered' /\ OneWriterPerFile'
  BY DEF RInv, First, FirstSessionInvariant, IInv, DirectoryInvariant
<1>2. /\ phase = "run" /\ phase' = "run" /\ testsDir = TRUE /\ meta = "ok"
      /\ results = "absent"
      /\ UNCHANGED <<meta, testsDir, results>>
  BY <1>1 DEF Worker, Take, Number, OpenPlaceholder, WritePlaceholder, WriteFails,
     Execute, OpenTmp, WriteTmp, Move, At, disk, StageOfDirectory, FirstRunInvariant
<1>3. /\ \A v \in Workers : v # w => work'[v] = work[v]
      /\ Opening(w)' =>
           \/ /\ Opening(w) /\ work'[w].idx = work[w].idx /\ counter' = counter
           \/ /\ ~ Opening(w) /\ work'[w].idx = counter /\ counter' = counter + 1
      /\ ~ Opening(w)' => counter' = counter
      /\ \A i \in Readable : i \in Readable'
      /\ Opening(w) /\ ~ Opening(w)' => work[w].idx \in Readable'
      /\ \/ aborted' = TRUE
         \/ /\ Busy(w)' /\ aborted' = aborted /\ recorded' = recorded
            /\ \/ todo' = todo /\ Busy(w) /\ work'[w].test = work[w].test
               \/ \E p \in todo : /\ todo' = todo \ {p} /\ ~ Busy(w)
                                  /\ work'[w].test = Profile[p]
         \/ /\ todo' = todo /\ aborted' = aborted
            /\ recorded' = recorded \cup {work[w].test}
  <2>1. CASE Take(w)
    <3>1. PICK p \in todo :
            /\ todo' = todo \ {p}
            /\ work' = [work EXCEPT ![w] = [pc |-> "number", test |-> Profile[p], idx |-> 0]]
      BY <2>1 DEF Take
    <3>2. /\ work'[w] = [pc |-> "number", test |-> Profile[p], idx |-> 0]
          /\ \A v \in Workers : v # w => work'[v] = work[v]
      BY <1>1, <3>1 DEF TypeOK
    <3>3. /\ work[w].pc = "idle"
          /\ UNCHANGED <<files, counter, aborted, recorded>>
      BY <2>1 DEF Take, At, disk, ghosts
    <3> QED BY <3>1, <3>2, <3>3 DEF Opening, Busy, Readable
  <2>2. CASE Number(w)
    <3>1. /\ work' = [work EXCEPT ![w] = [@ EXCEPT !.pc = "open", !.idx = counter]]
          /\ work[w].pc = "number" /\ counter' = counter + 1
          /\ UNCHANGED <<files, todo, aborted, recorded>>
      BY <2>2 DEF Number, At, Bump, disk, ghosts
    <3>2. /\ work'[w].pc = "open" /\ work'[w].idx = counter
          /\ work'[w].test = work[w].test
          /\ \A v \in Workers : v # w => work'[v] = work[v]
      BY <1>1, <3>1 DEF TypeOK
    <3> QED BY <3>1, <3>2 DEF Opening, Busy, Readable
  <2>3. CASE OpenPlaceholder(w)
    <3>1. /\ Step(w, "placeholder") /\ work[w].pc = "open"
          /\ work[w].idx \notin DOMAIN files
          /\ files' = Put(files, work[w].idx, [name |-> work[w].test, body |-> "torn"])
          /\ UNCHANGED <<counter, todo, aborted, recorded>>
      BY <1>1, <1>2, <2>3 DEF OpenPlaceholder, At, FileFollowsThread, FileOf, ghosts
    <3>2. /\ work'[w].pc = "placeholder" /\ work'[w].idx = work[w].idx
          /\ work'[w].test = work[w].test
          /\ \A v \in Workers : v # w => work'[v] = work[v]
      BY <1>1, <3>1, StepFacts DEF PCs
    <3>3. \A i \in Readable : i \in Readable'
      BY <3>1 DEF Readable, Put
    <3> QED BY <3>1, <3>2, <3>3 DEF Opening, Busy
  <2>4. CASE WritePlaceholder(w)
    <3>1. /\ Step(w, "execute") /\ work[w].pc = "placeholder"
          /\ files' = Put(files, work[w].idx, [name |-> work[w].test, body |-> "incomplete"])
          /\ UNCHANGED <<counter, todo, aborted, recorded>>
      BY <2>4 DEF WritePlaceholder, At, FileOf, Placeholder, ghosts
    <3>2. /\ work'[w].pc = "execute" /\ work'[w].idx = work[w].idx
          /\ work'[w].test = work[w].test
          /\ \A v \in Workers : v # w => work'[v] = work[v]
      BY <1>1, <3>1, StepFacts DEF PCs
    <3>3. /\ \A i \in Readable : i \in Readable'
          /\ work[w].idx \in Readable'
      BY <3>1 DEF Readable, Put
    <3> QED BY <3>1, <3>2, <3>3 DEF Opening, Busy
  <2>5. CASE WriteFails(w)
    BY <2>5 DEF WriteFails, QuietFaults
  <2>6. CASE Execute(w) \/ OpenTmp(w) \/ WriteTmp(w)
    <3>1. PICK pc \in {"opentmp", "writetmp", "move"} : Step(w, pc)
      BY <2>6 DEF Execute, OpenTmp, WriteTmp, QuietFaults
    <3>2. /\ work[w].pc \in {"execute", "opentmp", "writetmp"}
          /\ UNCHANGED <<files, counter, todo, aborted, recorded>>
      BY <2>6 DEF Execute, OpenTmp, WriteTmp, At, disk, ghosts
    <3>3. /\ work'[w].pc = pc /\ work'[w].idx = work[w].idx
          /\ work'[w].test = work[w].test
          /\ \A v \in Workers : v # w => work'[v] = work[v]
      BY <1>1, <3>1, StepFacts DEF PCs
    <3> QED BY <3>1, <3>2, <3>3 DEF Opening, Busy, Readable
  <2>7. CASE Move(w)
    <3>1. /\ work' = [work EXCEPT ![w] = Idle] /\ work[w].pc = "move"
          /\ files' = Put(files, work[w].idx, [name |-> work[w].test, body |-> "done"])
          /\ recorded' = recorded \cup {work[w].test}
          /\ counter' = counter
          /\ (todo' = todo /\ aborted' = aborted) \/ aborted' = TRUE
      BY <2>7 DEF Move, At, FileOf, RInv, IInv, DirectoryInvariant, TmpReady
    <3>2. /\ work'[w].pc = "idle"
          /\ \A v \in Workers : v # w => work'[v] = work[v]
      BY <1>1, <3>1 DEF TypeOK, Idle
    <3>3. \A i \in Readable : i \in Readable'
      BY <3>1 DEF Readable, Put
    <3> QED BY <3>1, <3>2, <3>3 DEF Opening, Busy
  <2> QED BY <2>1, <2>2, <2>3, <2>4, <2>5, <2>6, <2>7 DEF Worker
<1>4. NumbersUsed'
  <2>1. /\ \A i \in Nat : i < counter =>
             i \in Readable \/ \E v \in Workers : Opening(v) /\ work[v].idx = i
        /\ \A u, v \in Workers : u # v /\ Opening(u) /\ Opening(v) =>
             work[u].idx + 1 = counter \/ work[v].idx + 1 = counter
        /\ counter \in Nat
    BY <1>1, <1>2 DEF FirstRunInvariant, NumbersUsed, TypeOK
  <2>2. \A v \in Workers : v # w => (Opening(v)' <=> Opening(v))
    BY <1>3 DEF Opening
  <2>3. ASSUME NEW i \in Nat, i < counter'
        PROVE  i \in Readable' \/ \E v \in Workers : Opening(v)' /\ work'[v].idx = i
    <3>1. CASE i < counter
      BY <1>3, <2>1, <2>2, <3>1
    <3>2. CASE ~ (i < counter)
      <4>1. counter' = counter + 1 /\ i = counter /\ Opening(w)' /\ work'[w].idx = counter
        BY <1>3, <2>1, <2>3, <3>2
      <4> QED BY <4>1
    <3> QED BY <3>1, <3>2
  <2>4. ASSUME NEW u \in Workers, NEW v \in Workers, u # v, Opening(u)', Opening(v)'
        PROVE  work'[u].idx + 1 = counter' \/ work'[v].idx + 1 = counter'
    <3>1. CASE u # w /\ v # w
      BY <2>4, <3>1 DEF TwoThreads
    <3>2. CASE u = w
      BY <1>3, <2>1, <2>2, <2>4, <3>2
    <3>3. CASE v = w
      BY <1>3, <2>1, <2>2, <2>4, <3>3
    <3> QED BY <3>1, <3>2, <3>3
  <2> QED BY <2>3, <2>4 DEF NumbersUsed, Opening
<1>5. AtMostOneGap'
  <2>1. PICK k \in Nat : k = counter'
    BY <1>1 DEF TypeOK
  <2>2. \A i \in Readable' : i < k /\ i \in Nat
    BY <1>1, <1>2, <2>1 DEF OneFilePerTest, Readable, TypeOK
  <2>3. ASSUME NEW m \in Readable', NEW i \in Nat, NEW j \in Nat,
               i < m, j < m, i \notin Readable', j \notin Readable'
        PROVE  i = j
    <3>1. m \in Nat /\ m < k /\ i < k /\ j < k /\ i + 1 # k /\ j + 1 # k
      BY <2>2, <2>3
    <3>2. PICK u \in Workers, v \in Workers :
            Opening(u)' /\ work'[u].idx = i /\ Opening(v)' /\ work'[v].idx = j
      BY <1>2, <1>4, <2>1, <2>3, <3>1 DEF NumbersUsed
    <3>3. u = v
      BY <1>2, <1>4, <2>1, <3>1, <3>2 DEF NumbersUsed
    <3> QED BY <3>2, <3>3
  <2> QED BY <2>3 DEF AtMostOneGap
<1>6. EveryTestSomewhere'
  <2> SUFFICES ASSUME aborted' = FALSE, NEW p \in DOMAIN Profile
               PROVE  \/ p \in todo' \/ Profile[p] \in recorded'
                      \/ \E v \in Workers : Busy(v)' /\ work'[v].test = Profile[p]
    BY DEF EveryTestSomewhere
  <2>1. aborted = FALSE
    BY <1>3
  <2>2. \/ p \in todo \/ Profile[p] \in recorded
        \/ \E v \in Workers : Busy(v) /\ work[v].test = Profile[p]
    BY <1>2, <2>1 DEF FirstRunInvariant, EveryTestSomewhere
  <2>3. \A v \in Workers : v # w => (Busy(v)' <=> Busy(v)) /\ work'[v].test = work[v].test
    BY <1>3 DEF Busy
  <2>4. CASE \E v \in Workers : v # w /\ Busy(v) /\ work[v].test = Profile[p]
    BY <2>3, <2>4
  <2>5. CASE Busy(w) /\ work[w].test = Profile[p]
    BY <1>3, <2>5
  <2>6. CASE p \in todo \/ Profile[p] \in recorded
    BY <1>3, <2>6
  <2> QED BY <2>2, <2>4, <2>5, <2>6
<1>7. EverythingPublished'
  BY <1>2 DEF EverythingPublished
<1> QED BY <1>2, <1>4, <1>5, <1>6, <1>7 DEF FirstRunInvariant

\* The main thread publishes when nothing is left to run, or makes room for files.
LEMMA FirstRunMain ==
    ASSUME RInv, First, FirstRunInvariant, Main
    PROVE  FirstRunInvariant'
<1>1. StageOfDirectory /\ TypeOK /\ BusyNumbered
  BY DEF RInv, First, FirstSessionInvariant, IInv, DirectoryInvariant
<1>2. CASE OpenMetadata \/ WriteMetadata \/ MakeTestsDir
  <2>1. /\ files' = Empty /\ results' = "absent" /\ counter' = 0
        /\ phase \in {"init", "meta", "mkdir"}
        /\ phase' \in {"meta", "mkdir", "run"}
        /\ UNCHANGED <<pools, recorded>>
        /\ phase' = "run" => testsDir' = TRUE
    BY <1>1, <1>2 DEF OpenMetadata, WriteMetadata, MakeTestsDir, StageOfDirectory, pools,
       FirstRunInvariant, ghosts
  <2>2. \A w \in Workers : ~ Opening(w)'
    BY <1>1, <2>1 DEF BusyNumbered, Busy, Opening, pools
  <2>3. NumbersUsed'
    BY <2>1, <2>2 DEF NumbersUsed
  <2>4. AtMostOneGap'
    BY <2>1 DEF AtMostOneGap, Readable, Empty
  <2>5. EveryTestSomewhere'
    BY <2>1 DEF FirstRunInvariant, EveryTestSomewhere, pools, Busy
  <2>6. EverythingPublished'
    BY <2>1 DEF EverythingPublished
  <2> QED BY <2>1, <2>3, <2>4, <2>5, <2>6 DEF FirstRunInvariant
<1>3. CASE RunReturns \/ OpenResults \/ WriteResults
  <2>1. /\ phase' \in {"finalize", "write", "unlink", "failed"}
        /\ files' = files /\ meta' = meta /\ recorded' = recorded
    BY <1>3 DEF RunReturns, OpenResults, WriteResults, disk, ghosts
  <2>2. AtMostOneGap'
    BY <2>1 DEF FirstRunInvariant, AtMostOneGap, Readable
  <2>3. View' = View
    BY <2>1 DEF View, Readable, LastFile, About
  <2>4. EverythingPublished'
    <3>1. CASE RunReturns
      <4>1. results' = "absent" /\ Joined /\ (phase' = "finalize" => aborted = FALSE)
        BY <1>1, <3>1 DEF RunReturns, disk, StageOfDirectory, TypeOK
      <4>2. aborted = FALSE => \A p \in DOMAIN Profile : Profile[p] \in recorded
        BY <3>1, <4>1 DEF RunReturns, Joined, FirstRunInvariant, EveryTestSomewhere, Busy
      <4>3. phase' # "write"
        BY <3>1 DEF RunReturns
      <4> QED BY <2>1, <4>1, <4>2, <4>3 DEF EverythingPublished
    <3>2. CASE OpenResults
      <4>1. results' # "ok" /\ phase = "finalize"
        BY <1>1, <3>2 DEF OpenResults, StageOfDirectory
      <4> QED BY <2>1, <4>1 DEF EverythingPublished, FirstRunInvariant
    <3>3. CASE WriteResults
      <4>1. phase = "write" /\ published = Empty
        BY <1>1, <3>3 DEF WriteResults, StageOfDirectory
      <4>2. published' = View
        BY <3>3, <4>1, <1>1 DEF WriteResults, StageOfDirectory
      <4> QED BY <2>1, <2>3, <4>1, <4>2 DEF EverythingPublished, FirstRunInvariant
    <3> QED BY <1>3, <3>1, <3>2, <3>3
  <2>5. NumbersUsed' /\ EveryTestSomewhere'
    BY <2>1 DEF NumbersUsed, EveryTestSomewhere
  <2> QED BY <2>1, <2>2, <2>4, <2>5 DEF FirstRunInvariant
<1>4. CASE UnlinkMetadata \/ RemoveEntry \/ RemoveTestsDir
  <2>1. /\ meta' = "absent" /\ phase' \in {"rmtree", "done"}
        /\ results' = results /\ recorded' = recorded
    BY <1>1, <1>4 DEF UnlinkMetadata, RemoveEntry, RemoveTestsDir, StageOfDirectory, ghosts
  <2>2. EverythingPublished'
    BY <2>1 DEF FirstRunInvariant, EverythingPublished
  <2> QED BY <2>1, <2>2 DEF FirstRunInvariant, NumbersUsed, AtMostOneGap, EveryTestSomewhere
<1> QED BY <1>2, <1>3, <1>4 DEF Main

\* So the invariant holds as long as nobody resumes.
LEMMA FirstRunStep ==
    ASSUME NoRepetition, TwoThreads, QuietFaults, RInv, First, FirstRunInvariant,
           [Next]_vars, First'
    PROVE  FirstRunInvariant'
<1>1. CASE Main
  BY <1>1, FirstRunMain
<1>2. ASSUME NEW w \in Workers, Worker(w) PROVE FirstRunInvariant'
  <2>1. IInv' /\ OneFilePerTest'
    BY FirstStep DEF RInv, First, FirstSessionInvariant
  <2> QED BY <1>2, <2>1, FirstRunWorker
<1>3. CASE Kill
  <2>1. /\ UNCHANGED <<meta, files, results, published, recorded>>
        /\ phase' = "down"
    BY <1>3 DEF Kill, disk, ghosts
  <2>2. View' = View /\ Readable' = Readable
    BY <2>1 DEF View, Readable, LastFile, About
  <2> QED BY <2>1, <2>2 DEF FirstRunInvariant, NumbersUsed, AtMostOneGap, EveryTestSomewhere,
        EverythingPublished
<1>4. CASE User
  <2>1. session' = session + 1
    BY <1>4 DEF User, Resume, ResumeRefused
  <2> QED BY <2>1 DEF First
<1>5. CASE UNCHANGED vars
  <2>1. View' = View /\ Readable' = Readable
    BY <1>5 DEF vars, disk, View, Readable, LastFile, About
  <2>2. NumbersUsed' /\ EveryTestSomewhere'
    BY <1>5, <2>1 DEF FirstRunInvariant, NumbersUsed, EveryTestSomewhere, Opening, Busy,
       vars, disk, pools, ghosts
  <2>3. AtMostOneGap' /\ EverythingPublished'
    BY <1>5, <2>1 DEF FirstRunInvariant, AtMostOneGap, EverythingPublished, vars, disk, ghosts
  <2> QED BY <1>5, <2>2, <2>3 DEF FirstRunInvariant, vars, disk, pools
<1> QED BY <1>1, <1>2, <1>3, <1>4, <1>5 DEF Next

\* As one number is missing at most, there are as many tests in the files as the
\* greatest number among them says: the count resume starts from is beyond it.
LEMMA CountReachesNumbers ==
    ASSUME TypeOK, FilesBounded, OneFilePerTest, AtMostOneGap, meta = "ok",
           NEW m \in Readable
    PROVE  m < StartCount(View)
<1>1. m \in Nat /\ Readable \subseteq Nat
  BY DEF TypeOK, Readable
<1>2. DOMAIN View = {files[i].name : i \in Readable} /\ IsFiniteSet(DOMAIN View)
  BY ViewFacts, FiniteAssumption, FS_Subset DEF View
<1>3. PICK n \in Nat : n = Cardinality(DOMAIN View)
  BY <1>2, FS_CardinalityType
<1>4. IsFiniteSet(0..m) /\ Cardinality(0..m) = m + 1
  BY <1>1, FS_Interval
<1>5. \E T \in SUBSET Readable : IsFiniteSet(T) /\ Cardinality(T) \in Nat /\ Cardinality(T) >= m
  <2>1. CASE 0..m \subseteq Readable
    BY <1>1, <1>4, <2>1
  <2>2. CASE ~ (0..m \subseteq Readable)
    <3>1. PICK g \in 0..m : g \notin Readable
      BY <2>2
    <3>2. (0..m) \ {g} \subseteq Readable
      <4>1. ASSUME NEW i \in (0..m) \ {g}, i \notin Readable PROVE FALSE
        <5>1. i \in Nat /\ g \in Nat /\ i < m /\ g < m
          BY <1>1, <3>1, <4>1
        <5> QED BY <3>1, <4>1, <5>1 DEF AtMostOneGap
      <4> QED BY <4>1
    <3>3. IsFiniteSet((0..m) \ {g}) /\ Cardinality((0..m) \ {g}) = m
      <4>1. /\ IsFiniteSet((0..m) \ {g})
            /\ Cardinality((0..m) \ {g}) = Cardinality(0..m) - 1
        BY <1>4, <3>1, FS_RemoveElement
      <4> QED BY <1>1, <1>4, <4>1
    <3> QED BY <1>1, <3>2, <3>3
  <2> QED BY <2>1, <2>2
<1>6. PICK T \in SUBSET Readable : IsFiniteSet(T) /\ Cardinality(T) \in Nat /\ Cardinality(T) >= m
  BY <1>5
<1>7. PICK f : f = [i \in T |-> files[i].name]
  OBVIOUS
<1>8. f \in Injection(T, DOMAIN View)
  <2>1. f \in [T -> DOMAIN View]
    BY <1>2, <1>7
  <2>2. \A i, j \in T : f[i] = f[j] => i = j
    BY <1>7 DEF OneFilePerTest, Readable
  <2> QED BY <2>1, <2>2 DEF Injection, IsInjective
<1>9. Cardinality(T) <= n
  BY <1>2, <1>3, <1>8, FS_Injection
<1> QED BY <1>1, <1>3, <1>6, <1>9 DEF StartCount

\* So the first resume of such a run is sound.
LEMMA FirstResumeIsSound ==
    ASSUME Streams = FALSE, RInv, First, FirstRunInvariant, KInv,
           NEW noRetry \in BOOLEAN, Resume(noRetry)
    PROVE  SoundSession'
<1>1. /\ TypeOK /\ FilesBounded /\ OneFilePerTest /\ AtMostOneGap
      /\ EverythingPublished /\ RecordedIsPublished
  BY DEF RInv, First, FirstSessionInvariant, IInv, DirectoryInvariant, FirstRunInvariant,
     KInv, SessionsInvariant
<1>2. /\ Loadable /\ counter' = StartCount(Loaded) /\ todo' = Remaining(Loaded, noRetry)
      /\ work' = AllIdle /\ phase' = "run" /\ meta' = meta /\ files' = files
  BY DEF Resume, disk
<1>3. CASE meta = "ok"
  <2>1. Loaded = View
    BY <1>1, <1>2, <1>3 DEF Loaded, Loadable, EverythingPublished
  <2>2. \A m \in Readable : m < StartCount(View)
    BY <1>1, <1>3, CountReachesNumbers
  <2>3. \A m \in Readable' : m < counter'
    BY <1>2, <2>1, <2>2 DEF Readable
  <2> QED BY <1>2, <1>3, <2>3 DEF SoundSession
<1>4. CASE meta # "ok"
  <2>1. Loaded = published /\ results = "ok"
    BY <1>2, <1>4 DEF Loaded, Loadable
  <2>2. ASSUME NEW p \in DOMAIN Profile PROVE Profile[p] \in Excluded(published, noRetry)
    <3>1. Profile[p] \in recorded
      BY <1>1, <2>1 DEF EverythingPublished
    <3>2. Profile[p] \in DOMAIN published /\ published[Profile[p]] = "done"
      BY <1>1, <1>4, <3>1 DEF RecordedIsPublished
    <3> QED BY <3>2 DEF Excluded
  <2>3. todo' = {}
    BY <1>2, <2>1, <2>2 DEF Remaining
  <2>4. Joined'
    BY <1>2, <2>3 DEF Joined, AllIdle, Idle
  <2> QED BY <1>2, <1>4, <2>4 DEF SoundSession
<1> QED BY <1>3, <1>4

\* The invariant of a run and its first resume.
ResumedOnce ==
    /\ RInv
    /\ First => FirstRunInvariant
    /\ session <= 2 => KInv /\ SoundSession

LEMMA ResumedOnceInit == Init => ResumedOnce
<1> SUFFICES ASSUME Init PROVE ResumedOnce
  OBVIOUS
<1>1. RInv /\ KInv
  BY FirstInit, SessionsInit
<1>2. SoundSession
  BY DEF Init, SoundSession
<1>3. FirstRunInvariant
  BY DEF Init, FirstRunInvariant, NumbersUsed, AtMostOneGap, EveryTestSomewhere,
     EverythingPublished
<1> QED BY <1>1, <1>2, <1>3 DEF ResumedOnce

LEMMA ResumedOnceStep ==
    ASSUME NoRepetition, TwoThreads, QuietFaults, Streams = FALSE
    PROVE  ResumedOnce /\ [Next]_vars => ResumedOnce'
<1> SUFFICES ASSUME ResumedOnce, [Next]_vars PROVE ResumedOnce'
  OBVIOUS
<1>1. RInv /\ RInv'
  BY FirstStep DEF ResumedOnce
<1>2. First' => First /\ FirstRunInvariant'
  BY <1>1, FirstBefore, FirstRunStep DEF ResumedOnce
<1>3. ASSUME session' <= 2 PROVE KInv' /\ SoundSession'
  <2>1. session \in Nat /\ session > 0
    BY <1>1 DEF RInv, IInv, DirectoryInvariant, TypeOK
  <2>2. session' = session \/ session' = session + 1
    BY SessionGrows
  <2>3. KInv /\ SoundSession
    BY <1>3, <2>1, <2>2 DEF ResumedOnce
  <2>4. CASE session' = session
    BY <2>3, <2>4, SoundStep, SessionsStep
  <2>5. CASE session' = session + 1
    <3>1. First /\ FirstRunInvariant
      BY <1>3, <2>1, <2>5 DEF ResumedOnce, First
    <3>2. User
      <4>1. session' # session
        BY <2>1, <2>5
      <4>2. ~ Main
        BY <4>1 DEF Main, OpenMetadata, WriteMetadata, MakeTestsDir, RunReturns, OpenResults,
           WriteResults, UnlinkMetadata, RemoveEntry, RemoveTestsDir
      <4>3. \A w \in Workers : ~ Worker(w)
        BY <4>1 DEF Worker, Take, Number, OpenPlaceholder, WritePlaceholder, WriteFails,
           Execute, OpenTmp, WriteTmp, Move
      <4> QED BY <4>1, <4>2, <4>3 DEF Next, Kill, vars
    <3>3. CASE ResumeRefused
      <4>1. SoundSession'
        BY <3>3 DEF ResumeRefused, SoundSession
      <4> QED BY <2>3, <4>1, SessionsStep
    <3>4. ASSUME NEW noRetry \in BOOLEAN, Resume(noRetry)
          PROVE  KInv' /\ SoundSession'
      <4>1. SoundSession'
        BY <1>1, <2>3, <3>1, <3>4, FirstResumeIsSound
      <4> QED BY <2>3, <4>1, SessionsStep
    <3> QED BY <3>2, <3>3, <3>4 DEF User
  <2> QED BY <2>2, <2>4, <2>5
<1> QED BY <1>1, <1>2, <1>3 DEF ResumedOnce

LEMMA ResumedOnceHolds ==
    ASSUME NoRepetition, TwoThreads, QuietFaults, Streams = FALSE
    PROVE  Spec => []ResumedOnce
<1> QED BY ResumedOnceInit, ResumedOnceStep, PTL DEF Spec

\* A run on two threads whose tests raise nothing and whose writes succeed can be
\* killed anywhere and resumed once: the count of results resume starts its file
\* numbers from is beyond every file it can read.
THEOREM OneResumeIsSound ==
    ASSUME NoRepetition, TwoThreads, QuietFaults, Streams = FALSE
    PROVE  Spec => [](session <= 2 => SoundSession)
<1>1. ResumedOnce => (session <= 2 => SoundSession)
  BY DEF ResumedOnce
<1> QED BY <1>1, ResumedOnceHolds, PTL

\* So nothing either session recorded is lost, nor opened for writing again.
THEOREM OneResumeLosesNothing ==
    ASSUME NoRepetition, TwoThreads, QuietFaults, Streams = FALSE
    PROVE  Spec => [](session <= 2 => RecordedSurvives /\ ResultsNotOverwritten)
<1>1. ResumedOnce => (session <= 2 => RecordedSurvives /\ ResultsNotOverwritten)
  <2>1. KInv => RecordedSurvives
    BY SoundIsRecoverable
  <2>2. KInv => ResultsNotOverwritten
    BY SoundOpensNoResult
  <2> QED BY <2>1, <2>2 DEF ResumedOnce
<1> QED BY <1>1, ResumedOnceHolds, PTL

\* And what is published in the end is what both recorded.
THEOREM OneResumeIsFaithful ==
    ASSUME NoRepetition, TwoThreads, QuietFaults, Streams = FALSE
    PROVE  Spec => [](session <= 2 => PublishedIsFaithful)
<1>1. ResumedOnce /\ OnlyRecordedIsReported => (session <= 2 => PublishedIsFaithful)
  BY SoundPublishesTheRecord DEF ResumedOnce
<1> QED BY <1>1, ResumedOnceHolds, NothingInvented, PTL

\* A run and its one resume implement the record of their tests.
THEOREM OneResumeImplementsRecord ==
    ASSUME NoRepetition, TwoThreads, QuietFaults, Streams = FALSE, MaxSessions = 2
    PROVE  Spec => ImplementsRecord
<1>1. ResumedOnce /\ session <= 2 /\ [Next]_vars => (session <= 2)'
  <2> SUFFICES ASSUME ResumedOnce, session <= 2, [Next]_vars PROVE session' <= 2
    OBVIOUS
  <2>1. session' = session \/ (session < 2 /\ session' = session + 1)
    BY SessionGrows DEF CanResume
  <2>2. session \in Nat
    BY DEF ResumedOnce, RInv, IInv, DirectoryInvariant, TypeOK
  <2> QED BY <2>1, <2>2
<1>2. Init => session <= 2
  BY DEF Init
<1>3. ResumedOnce /\ session <= 2 => SoundSession
  BY DEF ResumedOnce
<1>4. Spec => []SoundSession
  BY <1>1, <1>2, <1>3, ResumedOnceHolds, PTL DEF Spec
<1> QED BY <1>4, SoundSessionsImplementRecord, PTL
=============================================================================
