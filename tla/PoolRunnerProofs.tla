-------------------------- MODULE PoolRunnerProofs --------------------------
(***************************************************************************)
(* Proofs about PoolRunner, for any profiles, any number of threads and    *)
(* any faults: PoolInvariant, together with the types, is inductive, and   *)
(* the safety properties follow from it.                                   *)
(***************************************************************************)
EXTENDS PoolRunner, FiniteSetTheorems, TLAPS

\* The conjuncts of the type invariant the proof needs: that an item runs at
\* most once and that the log's count is bounded are consequences.
Types ==
    /\ phase \in {"setup", "multi", "single", "joinSingle", "joinMulti", "over"}
    /\ prof \in 1 .. Len(Plan) + 1
    /\ next \in Nat \ {0}
    /\ poolState \in [Pools -> {"running", "closed", "terminated"}]
    /\ queue \in [Pools -> Seq(Items)]
    /\ pc \in [Workers -> PCs]
    /\ item \in [Workers -> Items \cup {NoItem}]
    /\ abort \in [Profiles -> BOOLEAN]
    /\ outcome \in {"none", "returned", "aborted", "raised"}
    /\ ran \in [Items -> 0 .. 1]
    /\ hit \subseteq Items
    /\ late \in [Pools -> Nat]
    /\ unwritten \subseteq Items

Inv == Types /\ PoolInvariant

-----------------------------------------------------------------------------
\* Data.

\* What Append does to a queue.
LEMMA AppendFacts ==
    ASSUME NEW S, NEW s \in Seq(S), NEW e \in S
    PROVE  /\ Append(s, e) \in Seq(S)
           /\ Len(Append(s, e)) = Len(s) + 1
           /\ \A n \in 1 .. Len(s) : Append(s, e)[n] = s[n]
           /\ Append(s, e)[Len(s) + 1] = e
  OBVIOUS

\* What taking the first element does to a queue.
LEMMA TailFacts ==
    ASSUME NEW S, NEW s \in Seq(S), s # <<>>
    PROVE  /\ Tail(s) \in Seq(S) /\ Head(s) = s[1] /\ Head(s) \in S
           /\ Len(s) \in Nat /\ Len(s) >= 1 /\ Len(Tail(s)) = Len(s) - 1
           /\ \A n \in 1 .. Len(Tail(s)) : n + 1 \in 1 .. Len(s) /\ Tail(s)[n] = s[n + 1]
  OBVIOUS

\* What terminate() leaves of a queue.
LEMMA LeftoverFacts ==
    ASSUME NEW S, NEW s \in Seq(S), NEW r \in Leftover(s)
    PROVE  /\ r \in Seq(S) /\ Len(r) \in 0 .. 1
           /\ Len(r) <= Len(s)
           /\ \A n \in 1 .. Len(r) : \E m \in 1 .. Len(s) : r[n] = s[m]
<1>1. CASE r = <<>>
  BY <1>1
<1>2. ASSUME NEW m \in DOMAIN s, r = <<s[m]>>
      PROVE  /\ r \in Seq(S) /\ Len(r) \in 0 .. 1 /\ Len(r) <= Len(s)
             /\ \A n \in 1 .. Len(r) : r[n] = s[m] /\ m \in 1 .. Len(s)
  <2>1. m \in 1 .. Len(s) /\ Len(s) \in Nat /\ s[m] \in S
    OBVIOUS
  <2>. QED  BY <1>2, <2>1
<1>. QED  BY <1>1, <1>2 DEF Leftover

\* A profile of the plan is a finite sequence of tests.
LEMMA PlanFacts ==
    /\ Len(Plan) \in Nat /\ Profiles = 1 .. Len(Plan)
    /\ \A p \in Profiles : Len(Plan[p]) \in Nat /\ DOMAIN Plan[p] = 1 .. Len(Plan[p])
  BY PlanAssumption DEF Profiles

\* An item is a profile and a position in it; the other pair is not an item.
LEMMA ItemFacts ==
    /\ \A p \in Profiles : \A k \in 1 .. Len(Plan[p]) : <<p, k>> \in Items
    /\ \A i \in Items : /\ i[1] \in Profiles /\ i[2] \in 1 .. Len(Plan[i[1]])
                        /\ i = <<i[1], i[2]>>
    /\ NoItem \notin Items
<1>1. \A p \in Profiles : {p} \X DOMAIN Plan[p] = {p} \X (1 .. Len(Plan[p]))
  BY PlanFacts
<1>2. \A i : i \in Items <=> \E p \in Profiles : i \in {p} \X (1 .. Len(Plan[p]))
  BY <1>1 DEF Items
<1>3. \A i \in Items : /\ i[1] \in Profiles /\ i[2] \in 1 .. Len(Plan[i[1]])
                       /\ i = <<i[1], i[2]>>
  BY <1>2
<1>4. NoItem \notin Items
  BY <1>3, PlanFacts DEF NoItem
<1>. QED  BY <1>2, <1>3, <1>4

\* There are finitely many items.
LEMMA ItemsFinite == IsFiniteSet(Items)
<1>1. IsFiniteSet(Profiles)
  BY PlanFacts, FS_Interval
<1>. DEFINE Of == [p \in Profiles |-> {p} \X DOMAIN Plan[p]]
            Parts == {{p} \X DOMAIN Plan[p] : p \in Profiles}
<1>2. Of \in Surjection(Profiles, Parts)
  BY DEF Surjection
<1>3. IsFiniteSet(Parts)
  BY <1>1, <1>2, FS_Surjection
<1>4. ASSUME NEW p \in Profiles  PROVE  IsFiniteSet({p} \X DOMAIN Plan[p])
  <2>1. IsFiniteSet(DOMAIN Plan[p])
    <3>1. Len(Plan[p]) \in Nat /\ DOMAIN Plan[p] = 1 .. Len(Plan[p])
      BY PlanFacts
    <3>2. IsFiniteSet(1 .. Len(Plan[p]))
      BY <3>1, FS_Interval
    <3>. QED  BY <3>1, <3>2
  <2>2. IsFiniteSet({p})
    BY FS_Singleton
  <2>. QED  BY <2>1, <2>2, FS_Product
<1>5. \A T \in Parts : IsFiniteSet(T)
  BY <1>4
<1>. QED  BY <1>3, <1>5, FS_UNION DEF Items

\* The pool a pass fills is the home of exactly the items it wants.
LEMMA WantedIsHome ==
    ASSUME NEW q \in Pools, NEW i, q = "single" => Concurrency # "all",
           q = "multi" => Concurrency # "none"
    PROVE  Wanted(q, i) <=> Home(i) = q
  BY OptionsAssumption DEF Wanted, Home, Pools, FirstPass

\* Every item has a home, which is a pool.
LEMMA HomeIsPool ==
    \A i : /\ Home(i) \in Pools
           /\ Concurrency = "none" => Home(i) = "single"
           /\ Concurrency = "all" => Home(i) = "multi"
  BY DEF Home, FirstPass, Pools

-----------------------------------------------------------------------------
\* The main thread.

\* The invariant of the state Init describes.
LEMMA InitInvariant == Init => Inv
<1>. SUFFICES ASSUME Init PROVE Inv
  OBVIOUS
<1>1. Types
  <2>1. 1 \in 1 .. Len(Plan) + 1
    BY PlanFacts
  <2>. QED  BY <2>1 DEF Init, Types, PCs
<1>2. \A i \in Items : ~Handed(i)
  BY ItemFacts, PlanFacts DEF Init, Handed
<1>3. complete = Cardinality(Counted)
  <2>1. Counted = {}
    BY DEF Init, Counted
  <2>. QED  BY <2>1, FS_EmptySet DEF Init
<1>4. Places
  BY DEF Init, Places, Pools
<1>5. WaitsOnce /\ HeldOnce
  BY DEF Init, WaitsOnce, Waits, HeldOnce, Busy
<1>6. RanWasHanded /\ NoneLost
  BY <1>2 DEF Init, RanWasHanded, NoneLost
<1>7. Terminated /\ Reasons /\ outcome = "none"
  BY DEF Init, Terminated, Reasons
<1>. QED  BY <1>1, <1>3, <1>4, <1>5, <1>6, <1>7 DEF Inv, PoolInvariant

\* A step that leaves the queues, the threads and what is handed as they are
\* keeps what the invariant says of them.
LEMMA QuietStep ==
    ASSUME Inv, UNCHANGED <<queue, pc, item, abort, complete, ran, hit, late, unwritten>>,
           \A i \in Items : Handed(i)' <=> Handed(i),
           \A q \in Pools : poolState'[q] = "terminated" <=> poolState[q] = "terminated"
    PROVE  /\ WaitsOnce' /\ HeldOnce' /\ RanWasHanded' /\ NoneLost'
           /\ complete' = Cardinality(Counted') /\ Terminated' /\ Reasons'
<1>1. \A q \in Pools : \A n \in 1 .. Len(queue[q]) : queue[q][n] \in Items
  BY DEF Inv, Types
<1>2. WaitsOnce'
  BY DEF Inv, PoolInvariant, WaitsOnce, Waits, Home
<1>3. HeldOnce'
  BY DEF Inv, PoolInvariant, HeldOnce, Busy, Waits, Home
<1>4. RanWasHanded' /\ NoneLost'
  BY DEF Inv, PoolInvariant, RanWasHanded, NoneLost, Waits, Home
<1>5. complete' = Cardinality(Counted')
  BY DEF Inv, PoolInvariant, Counted
<1>6. Terminated' /\ Reasons'
  BY DEF Inv, PoolInvariant, Terminated, Reasons
<1>. QED  BY <1>2, <1>3, <1>4, <1>5, <1>6

\* setup() leaves the invariant, whether it returns or raises.
LEMMA SetupStep == Inv /\ Setup => Inv'
<1>. SUFFICES ASSUME Inv, Setup PROVE Inv'
  OBVIOUS
<1>0. UNCHANGED <<prof, poolState, queue, pc, item, abort, complete, ran, hit, late, unwritten>>
  BY DEF Setup, poolVars, history
<1>1. \A i \in Items : Handed(i)' <=> Handed(i)
  BY <1>0, ItemFacts, PlanFacts DEF Setup, Raise, Handed, Home, FirstPass, Pools
<1>2. Types'
  BY <1>0 DEF Inv, Types, Setup, Raise, FirstPass
<1>3. Places' /\ (outcome' = "aborted" => hit' # {})
  BY <1>0, PlanFacts, OptionsAssumption
     DEF Inv, PoolInvariant, Types, Places, Setup, Raise, FirstPass, Pools
<1>. QED  BY <1>0, <1>1, <1>2, <1>3, QuietStep DEF Inv, PoolInvariant

\* Looking at a test that belongs to the other pool leaves the invariant.
LEMMA SkipStep == Inv /\ Skip => Inv'
<1>. SUFFICES ASSUME Inv, Skip PROVE Inv'
  OBVIOUS
<1>0. /\ UNCHANGED <<phase, prof, poolState, queue, pc, item, abort, complete, outcome>>
      /\ UNCHANGED <<ran, hit, late, unwritten>> /\ next' = next + 1
      /\ prof \in Profiles /\ next \in 1 .. Len(Plan[prof]) /\ phase \in Pools
  BY PlanFacts DEF Skip, poolVars, history, Inv, PoolInvariant, Places, PassOver
<1>1. Home(<<prof, next>>) # phase
  BY <1>0, WantedIsHome DEF Skip, Inv, PoolInvariant, Places
<1>2. \A i \in Items : Handed(i)' <=> Handed(i)
  BY <1>0, <1>1, ItemFacts, PlanFacts DEF Handed, Home
<1>3. Types'
  BY <1>0 DEF Inv, Types
<1>4. Places' /\ (outcome' = "aborted" => hit' # {})
  BY <1>0, PlanFacts DEF Inv, PoolInvariant, Types, Places, Drained
<1>. QED  BY <1>0, <1>2, <1>3, <1>4, QuietStep DEF Inv, PoolInvariant

\* So does going on to the serial tests of a profile,
LEMMA SecondPassStep == Inv /\ SecondPass => Inv'
<1>. SUFFICES ASSUME Inv, SecondPass PROVE Inv'
  OBVIOUS
<1>0. /\ UNCHANGED <<prof, poolState, queue, pc, item, abort, complete, outcome>>
      /\ UNCHANGED <<ran, hit, late, unwritten>> /\ next' = 1
      /\ phase = "multi" /\ phase' = "single" /\ Concurrency = "some"
      /\ prof \in Profiles /\ next = Len(Plan[prof]) + 1 /\ outcome = "none"
  BY DEF SecondPass, Main, poolVars, history, Inv, PoolInvariant, Places, PassOver, Pools
<1>1. \A i \in Items : Handed(i)' <=> Handed(i)
  BY <1>0, ItemFacts, PlanFacts DEF Handed, Home
<1>2. Types'
  BY <1>0 DEF Inv, Types
<1>3. Places' /\ (outcome' = "aborted" => hit' # {})
  BY <1>0, PlanFacts DEF Inv, PoolInvariant, Types, Places, Drained, Pools
<1>. QED  BY <1>0, <1>1, <1>2, <1>3, QuietStep DEF Inv, PoolInvariant

\* and going on to the next profile: every test of this one is handed.
LEMMA TeardownStep == Inv /\ Teardown => Inv'
<1>. SUFFICES ASSUME Inv, Teardown PROVE Inv'
  OBVIOUS
<1>0. /\ UNCHANGED <<next, poolState, queue, pc, item, abort, complete, outcome>>
      /\ UNCHANGED <<ran, hit, late, unwritten>> /\ prof' = prof + 1
      /\ phase = LastPass /\ phase' = "setup"
      /\ prof \in Profiles /\ next = Len(Plan[prof]) + 1 /\ outcome = "none"
  BY DEF Teardown, Main, poolVars, history, Inv, PoolInvariant, Places, PassOver, Pools, LastPass
<1>1. \A i \in Items : Handed(i)' <=> Handed(i)
  BY <1>0, ItemFacts, PlanFacts, HomeIsPool, OptionsAssumption
     DEF Handed, Home, LastPass, Pools, FirstPass
<1>2. Types'
  BY <1>0, PlanFacts DEF Inv, Types
<1>3. Places' /\ (outcome' = "aborted" => hit' # {})
  BY <1>0 DEF Places, Pools
<1>. QED  BY <1>0, <1>1, <1>2, <1>3, QuietStep DEF Inv, PoolInvariant

\* Closing the serial pool and then waiting for its threads,
LEMMA CloseSingleStep == Inv /\ CloseSingle => Inv'
<1>. SUFFICES ASSUME Inv, CloseSingle PROVE Inv'
  OBVIOUS
<1>0. /\ UNCHANGED <<prof, next, queue, pc, item, abort, complete, outcome>>
      /\ UNCHANGED <<ran, hit, late, unwritten>>
      /\ phase = "setup" /\ phase' = "joinSingle" /\ prof = Len(Plan) + 1
      /\ poolState' = [poolState EXCEPT !["single"] = Closed(@)] /\ outcome = "none"
  BY PlanFacts DEF CloseSingle, Main, history, Inv, Types
<1>1. \A i \in Items : Handed(i)' <=> Handed(i)
  BY <1>0, ItemFacts, PlanFacts DEF Handed, Home
<1>2. /\ poolState' \in [Pools -> {"running", "closed", "terminated"}]
      /\ \A q \in Pools : poolState'[q] = "terminated" <=> poolState[q] = "terminated"
  BY <1>0 DEF Inv, Types, Closed, Pools
<1>3. Types'
  BY <1>0, <1>2 DEF Inv, Types
<1>4. Places' /\ (outcome' = "aborted" => hit' # {})
  BY <1>0 DEF Places, Pools
<1>. QED  BY <1>0, <1>1, <1>2, <1>3, <1>4, QuietStep DEF Inv, PoolInvariant

\* closing the concurrent pool once the serial one is drained,
LEMMA CloseMultiStep == Inv /\ CloseMulti => Inv'
<1>. SUFFICES ASSUME Inv, CloseMulti PROVE Inv'
  OBVIOUS
<1>0. /\ UNCHANGED <<prof, next, queue, pc, item, abort, complete, outcome>>
      /\ UNCHANGED <<ran, hit, late, unwritten>>
      /\ phase = "joinSingle" /\ phase' = "joinMulti" /\ prof = Len(Plan) + 1
      /\ poolState' = [poolState EXCEPT !["multi"] = Closed(@)] /\ outcome = "none"
      /\ Drained("single")
  BY DEF CloseMulti, Main, history, Inv, PoolInvariant, Places
<1>1. \A i \in Items : Handed(i)' <=> Handed(i)
  BY <1>0, ItemFacts, PlanFacts DEF Handed, Home
<1>2. /\ poolState' \in [Pools -> {"running", "closed", "terminated"}]
      /\ \A q \in Pools : poolState'[q] = "terminated" <=> poolState[q] = "terminated"
  BY <1>0 DEF Inv, Types, Closed, Pools
<1>3. Types'
  BY <1>0, <1>2 DEF Inv, Types
<1>4. Places' /\ (outcome' = "aborted" => hit' # {})
  BY <1>0 DEF Places, Pools, Drained
<1>. QED  BY <1>0, <1>1, <1>2, <1>3, <1>4, QuietStep DEF Inv, PoolInvariant

\* and the end of run() leave the invariant.
LEMMA FinishStep == Inv /\ Finish => Inv'
<1>. SUFFICES ASSUME Inv, Finish PROVE Inv'
  OBVIOUS
<1>0. /\ UNCHANGED <<prof, next, poolState, queue, pc, item, abort, complete>>
      /\ UNCHANGED <<ran, hit, late, unwritten>>
      /\ phase = "joinMulti" /\ phase' = "over" /\ prof = Len(Plan) + 1
      /\ outcome' = IF \E p \in Profiles : abort[p] THEN "aborted" ELSE "returned"
      /\ Drained("single") /\ Drained("multi")
  BY DEF Finish, Main, poolVars, history, Inv, PoolInvariant, Places
<1>1. \A i \in Items : Handed(i)' <=> Handed(i)
  BY <1>0, ItemFacts, PlanFacts DEF Handed, Home
<1>2. Types'
  BY <1>0 DEF Inv, Types
<1>3. Places'
  BY <1>0 DEF Places, Pools, Drained
<1>4. outcome' = "aborted" => hit' # {}
  BY <1>0 DEF Inv, PoolInvariant, Reasons
<1>. QED  BY <1>0, <1>1, <1>2, <1>3, <1>4, QuietStep DEF Inv, PoolInvariant

\* Handing the next test to its pool leaves the invariant: the item was not
\* handed before, so it neither waits, nor is held, nor has been run.
LEMMA SubmitStep == Inv /\ Submit => Inv'
<1>. SUFFICES ASSUME Inv, Submit PROVE Inv'
  OBVIOUS
<1>0. /\ UNCHANGED <<prof, poolState, pc, item, abort, complete, ran, hit, late, unwritten>>
      /\ outcome = "none" /\ phase \in Pools /\ prof \in Profiles
      /\ next \in 1 .. Len(Plan[prof])
      /\ phase' = phase
  BY PlanFacts DEF Submit, history, PassOver, Raise, Inv, PoolInvariant, Places
<1>1. CASE poolState[phase] # "running"
  <2>1. UNCHANGED <<queue, next>> /\ outcome' = "raised"
    BY <1>1 DEF Submit, Raise
  <2>2. \A i \in Items : Handed(i)' <=> Handed(i)
    BY <1>0, <2>1 DEF Handed, Home
  <2>3. Types'
    BY <1>0, <2>1 DEF Inv, Types
  <2>4. Places' /\ (outcome' = "aborted" => hit' # {})
    BY <1>0, <2>1 DEF Inv, PoolInvariant, Places, Drained, Pools
  <2>. QED  BY <1>0, <2>1, <2>2, <2>3, <2>4, QuietStep DEF Inv, PoolInvariant
<1>2. CASE poolState[phase] = "running"
  <2>. DEFINE new == <<prof, next>>
              s == queue[phase]
  <2>1. /\ queue' = [queue EXCEPT ![phase] = Append(s, new)]
        /\ next' = next + 1 /\ outcome' = "none"
    BY <1>0, <1>2 DEF Submit, Raise
  <2>2. new \in Items /\ Home(new) = phase /\ ~Handed(new)
    <3>1. new \in Items
      BY <1>0, ItemFacts
    <3>2. Home(new) = phase
      BY <1>0, WantedIsHome DEF Submit, Inv, PoolInvariant, Places
    <3>. QED  BY <1>0, <3>1, <3>2, PlanFacts DEF Handed, Pools
  <2>3. /\ s \in Seq(Items) /\ queue'[phase] = Append(s, new)
        /\ \A q \in Pools \ {phase} : queue'[q] = queue[q]
        /\ queue' \in [Pools -> Seq(Items)]
    BY <1>0, <2>1, <2>2, AppendFacts DEF Inv, Types
  <2>4. /\ Len(s) \in Nat /\ Len(Append(s, new)) = Len(s) + 1
        /\ \A n \in 1 .. Len(s) : Append(s, new)[n] = s[n]
        /\ Append(s, new)[Len(s) + 1] = new
    BY <2>2, <2>3, AppendFacts
  <2>5. \A i \in Items : Handed(i)' <=> Handed(i) \/ i = new
    BY <1>0, <2>1, <2>2, ItemFacts, PlanFacts DEF Handed, Home
  <2>6. ran[new] = 0 /\ new \notin unwritten /\ \A w \in Workers : Busy(w) => item[w] # new
    BY <2>2 DEF Inv, PoolInvariant, RanWasHanded, HeldOnce
  <2>7. Types'
    BY <1>0, <2>1, <2>3 DEF Inv, Types
  <2>8. Places' /\ (outcome' = "aborted" => hit' # {})
    BY <1>0, <2>1, PlanFacts DEF Inv, PoolInvariant, Places, Pools
  <2>10. WaitsOnce'
    <3>1. ASSUME NEW q \in Pools, q # phase
          PROVE  /\ \A i \in Items : Waits(q, i)' => /\ Handed(i)' /\ Home(i) = q
                                                     /\ ran'[i] = 0 /\ i \notin unwritten'
                 /\ \A m, n \in 1 .. Len(queue'[q]) :
                      queue'[q][m] = queue'[q][n] => m = n
      BY <1>0, <2>3, <2>5, <3>1 DEF Inv, PoolInvariant, WaitsOnce, Waits
    <3>2. \A i \in Items : Waits(phase, i) => /\ Handed(i) /\ Home(i) = phase
                                               /\ ran[i] = 0 /\ i \notin unwritten
      BY <1>0 DEF Inv, PoolInvariant, WaitsOnce
    <3>3. \A m, n \in 1 .. Len(s) : s[m] = s[n] => m = n
      BY <1>0 DEF Inv, PoolInvariant, WaitsOnce
    <3>4. \A n \in 1 .. Len(s) : s[n] # new
      BY <2>2, <3>2 DEF Waits
    <3>6. \A n \in 1 .. Len(s) + 1 : n \in 1 .. Len(s) \/ n = Len(s) + 1
      BY <2>4
    <3>7. /\ Len(queue'[phase]) = Len(s) + 1
          /\ \A n \in 1 .. Len(s) + 1 :
               queue'[phase][n] = IF n = Len(s) + 1 THEN new ELSE s[n]
      BY <2>3, <2>4, <3>6
    <3>8. \A i \in Items :
            (\E n \in 1 .. Len(queue'[phase]) : queue'[phase][n] = i)
               => Waits(phase, i) \/ i = new
      <4>. HIDE DEF new
      <4>. QED  BY <3>6, <3>7 DEF Waits
    <3>9. \A m, n \in 1 .. Len(queue'[phase]) : queue'[phase][m] = queue'[phase][n] => m = n
      <4>. HIDE DEF new, s
      <4>. QED  BY <3>3, <3>4, <3>6, <3>7
    <3>10. \A i \in Items :
             (\E n \in 1 .. Len(queue'[phase]) : queue'[phase][n] = i)
               => Handed(i)' /\ Home(i) = phase /\ ran'[i] = 0 /\ i \notin unwritten'
      <4>. HIDE DEF new, s
      <4>. QED  BY <1>0, <2>2, <2>5, <2>6, <3>2, <3>8
    <3>. QED  BY <3>1, <3>9, <3>10 DEF WaitsOnce, Waits, Home
  <2>11. HeldOnce'
    <3>1. \A w \in Workers : Busy(w) => ~Waits(PoolOf(w), item[w])'
      <4>. SUFFICES ASSUME NEW w \in Workers, Busy(w),
                           NEW n \in 1 .. Len(queue'[PoolOf(w)]),
                           queue'[PoolOf(w)][n] = item[w]
                    PROVE  FALSE
        BY <1>0 DEF Waits, PoolOf
      <4>1. ~Waits(PoolOf(w), item[w]) /\ PoolOf(w) \in Pools
        BY DEF Inv, PoolInvariant, HeldOnce, PoolOf, Pools
      <4>. HIDE DEF new, s
      <4>2. CASE PoolOf(w) = phase
        <5>1. n \in 1 .. Len(s) \/ n = Len(s) + 1
          BY <2>3, <2>4, <4>2
        <5>. QED  BY <2>3, <2>4, <2>6, <4>1, <4>2, <5>1 DEF Waits, s
      <4>. QED  BY <2>3, <4>1, <4>2 DEF Waits
    <3>. QED  BY <1>0, <2>5, <3>1 DEF Inv, PoolInvariant, HeldOnce, Busy, Home, PoolOf
  <2>12. RanWasHanded'
    BY <1>0, <2>5 DEF Inv, PoolInvariant, RanWasHanded
  <2>13. NoneLost'
    <3>1. \A i \in Items : Waits(Home(i), i) => Waits(Home(i), i)'
      <4>. SUFFICES ASSUME NEW i \in Items, NEW n \in 1 .. Len(queue[Home(i)]),
                           queue[Home(i)][n] = i
                    PROVE  n \in 1 .. Len(queue'[Home(i)]) /\ queue'[Home(i)][n] = i
        BY DEF Waits, Home
      <4>. HIDE DEF new, s
      <4>1. CASE Home(i) = phase
        BY <2>3, <2>4, <4>1 DEF s
      <4>. QED  BY <2>3, <4>1, HomeIsPool
    <3>2. \E n \in 1 .. Len(queue'[phase]) : queue'[phase][n] = new
      BY <2>3, <2>4
    <3>3. \A i \in Items : i = new => Waits(Home(i), i)'
      BY <2>2, <3>2 DEF Waits, Home
    <3>. QED  BY <1>0, <2>5, <3>1, <3>3 DEF Inv, PoolInvariant, NoneLost, Home
  <2>14. complete' = Cardinality(Counted')
    BY <1>0 DEF Inv, PoolInvariant, Counted
  <2>15. Terminated' /\ Reasons'
    BY <1>0, <1>2, <2>3 DEF Inv, PoolInvariant, Terminated, Reasons
  <2>. QED  BY <2>7, <2>8, <2>10, <2>11, <2>12, <2>13, <2>14, <2>15 DEF Inv, PoolInvariant
<1>. QED  BY <1>1, <1>2

-----------------------------------------------------------------------------
\* The threads.

\* A step of a thread that has something to do is not one the main thread has
\* waited for, and leaves what is handed as it is.
LEMMA ThreadStep ==
    ASSUME Inv, NEW w \in Workers, UNCHANGED <<phase, prof, next, outcome>>,
           Busy(w) \/ queue[PoolOf(w)] # <<>>,
           \A v \in Workers \ {w} : pc'[v] = pc[v],
           \A q \in Pools \ {PoolOf(w)} : queue'[q] = queue[q]
    PROVE  Places' /\ \A i \in Items : Handed(i)' <=> Handed(i)
<1>1. PoolOf(w) \in Pools /\ ~Drained(PoolOf(w))
  BY DEF Drained, Busy, PoolOf, Pools
<1>2. phase # "over" /\ (phase = "joinMulti" => PoolOf(w) = "multi")
  BY <1>1 DEF Inv, PoolInvariant, Places, Pools
<1>3. phase = "joinMulti" => Drained("single")'
  BY <1>2 DEF Inv, PoolInvariant, Places, Drained, PoolOf, Pools
<1>4. Places'
  BY <1>2, <1>3 DEF Inv, PoolInvariant, Places
<1>5. \A i \in Items : Handed(i)' <=> Handed(i)
  BY DEF Handed, Home
<1>. QED  BY <1>4, <1>5

\* Fetching an item from the queue: it waited once, so it waits no longer and
\* no thread holds it.
LEMMA FetchFacts ==
    ASSUME Inv, NEW w \in Workers, Fetch(w), NEW got, got = Head(queue[PoolOf(w)])
    PROVE  /\ got \in Items /\ Handed(got) /\ Home(got) = PoolOf(w)
           /\ Waits(PoolOf(w), got) /\ ran[got] = 0 /\ got \notin unwritten
           /\ \A v \in Workers : Busy(v) => item[v] # got
           /\ queue' \in [Pools -> Seq(Items)] /\ late' \in [Pools -> Nat]
           /\ \A r \in Pools \ {PoolOf(w)} : queue'[r] = queue[r]
           /\ ~ \E n \in 1 .. Len(queue'[PoolOf(w)]) : queue'[PoolOf(w)][n] = got
           /\ \A r \in Pools : \A i \in Items :
                r # PoolOf(w) \/ i # got => (Waits(r, i)' <=> Waits(r, i))
           /\ \A r \in Pools : \A m, n \in 1 .. Len(queue'[r]) :
                queue'[r][m] = queue'[r][n] => m = n
           /\ Terminated'
<1>. DEFINE q == PoolOf(w)
            s == queue[q]
<1>0. /\ UNCHANGED poolState /\ s # <<>> /\ q \in Pools
      /\ queue' = [queue EXCEPT ![q] = Tail(s)]
      /\ late' = [late EXCEPT ![q] = IF poolState[q] = "terminated" THEN @ + 1 ELSE @]
  BY DEF Fetch, PoolOf, Pools
<1>1. s \in Seq(Items)
  BY <1>0 DEF Inv, Types
<1>2. /\ Tail(s) \in Seq(Items) /\ got = s[1] /\ got \in Items
      /\ Len(s) \in Nat /\ Len(s) >= 1 /\ Len(Tail(s)) = Len(s) - 1
      /\ \A n \in 1 .. Len(Tail(s)) : n + 1 \in 1 .. Len(s) /\ Tail(s)[n] = s[n + 1]
  BY <1>0, <1>1, TailFacts
<1>3. /\ queue'[q] = Tail(s) /\ \A r \in Pools \ {q} : queue'[r] = queue[r]
      /\ queue' \in [Pools -> Seq(Items)] /\ late' \in [Pools -> Nat]
  BY <1>0, <1>2 DEF Inv, Types
<1>4. /\ Waits(q, got) /\ Handed(got) /\ Home(got) = q /\ ran[got] = 0
      /\ got \notin unwritten
  <2>1. Waits(q, got)
    BY <1>2 DEF Waits
  <2>. QED  BY <1>0, <1>2, <2>1 DEF Inv, PoolInvariant, WaitsOnce
<1>5. \A m, n \in 1 .. Len(s) : s[m] = s[n] => m = n
  BY <1>0 DEF Inv, PoolInvariant, WaitsOnce
<1>6. \A v \in Workers : Busy(v) => item[v] # got
  <2>. SUFFICES ASSUME NEW v \in Workers, Busy(v), item[v] = got PROVE FALSE
    OBVIOUS
  <2>1. Home(got) = PoolOf(v) /\ ~Waits(PoolOf(v), got)
    BY DEF Inv, PoolInvariant, HeldOnce
  <2>. QED  BY <1>4, <2>1
<1>7. /\ ~ \E n \in 1 .. Len(queue'[q]) : queue'[q][n] = got
      /\ \A r \in Pools : \A i \in Items :
           r # q \/ i # got => (Waits(r, i)' <=> Waits(r, i))
  <2>1. \A n \in 1 .. Len(Tail(s)) : Tail(s)[n] # got
    BY <1>2, <1>5
  <2>2. \A i \in Items : i # got =>
          ((\E n \in 1 .. Len(Tail(s)) : Tail(s)[n] = i) <=> \E n \in 1 .. Len(s) : s[n] = i)
    <3>. SUFFICES ASSUME NEW i \in Items, i # got, NEW n \in 1 .. Len(s), s[n] = i
                  PROVE  \E m \in 1 .. Len(Tail(s)) : Tail(s)[m] = i
      BY <1>2
    <3>1. n # 1 /\ n - 1 \in 1 .. Len(Tail(s))
      BY <1>2
    <3>2. Tail(s)[n - 1] = s[(n - 1) + 1] /\ (n - 1) + 1 = n
      BY <1>2, <3>1
    <3>. QED  BY <3>1, <3>2
  <2>3. ~ \E n \in 1 .. Len(queue'[q]) : queue'[q][n] = got
    BY <1>3, <2>1
  <2>4. ASSUME NEW r \in Pools, NEW i \in Items, r # q \/ i # got
        PROVE  Waits(r, i)' <=> Waits(r, i)
    <3>1. CASE r = q
      <4>1. queue[r] = s /\ queue'[r] = Tail(s) /\ i # got
        BY <1>3, <2>4, <3>1
      <4>2. (\E n \in 1 .. Len(Tail(s)) : Tail(s)[n] = i) <=> \E n \in 1 .. Len(s) : s[n] = i
        BY <2>2, <4>1
      <4>. HIDE DEF q, s
      <4>. QED  BY <4>1, <4>2 DEF Waits
    <3>2. CASE r # q
      <4>. HIDE DEF q, s
      <4>. QED  BY <1>3, <3>2 DEF Waits
    <3>. QED  BY <3>1, <3>2
  <2>. QED  BY <2>3, <2>4
<1>8. \A r \in Pools : \A m, n \in 1 .. Len(queue'[r]) :
        queue'[r][m] = queue'[r][n] => m = n
  <2>1. ASSUME NEW m \in 1 .. Len(Tail(s)), NEW n \in 1 .. Len(Tail(s)),
               Tail(s)[m] = Tail(s)[n]
        PROVE  m = n
    <3>1. /\ m + 1 \in 1 .. Len(s) /\ n + 1 \in 1 .. Len(s)
          /\ s[m + 1] = s[n + 1]
      BY <1>2, <2>1
    <3>2. m + 1 = n + 1
      BY <1>5, <3>1
    <3>. QED  BY <3>2
  <2>. QED  BY <1>3, <2>1 DEF Inv, PoolInvariant, WaitsOnce
<1>9. Terminated'
  <2>1. late[q] \in Nat
    BY <1>0 DEF Inv, Types
  <2>2. \A r \in Pools : late'[r] = IF r = q /\ poolState[q] = "terminated"
                                    THEN late[r] + 1 ELSE late[r]
    BY <1>0 DEF Inv, Types
  <2>3. poolState[q] = "terminated" => late[q] + Len(s) <= 1
    BY <1>0 DEF Inv, PoolInvariant, Terminated
  <2>4. IF poolState[q] = "terminated" THEN late'[q] + Len(queue'[q]) <= 1 ELSE late'[q] = 0
    <3>1. poolState[q] # "terminated" => late[q] = 0
      BY <1>0 DEF Inv, PoolInvariant, Terminated
    <3>. HIDE DEF s
    <3>. QED  BY <1>0, <1>2, <1>3, <2>1, <2>2, <2>3, <3>1
  <2>. QED  BY <1>0, <1>3, <2>2, <2>4 DEF Inv, PoolInvariant, Terminated
<1>. QED  BY <1>2, <1>3, <1>4, <1>6, <1>7, <1>8, <1>9

\* Nothing waits or is held twice after an item was taken, and the items that
\* wait were neither executed nor given up.
LEMMA FetchWaits ==
    ASSUME Inv, NEW w \in Workers, Fetch(w), NEW got, got = Head(queue[PoolOf(w)]),
           unwritten' \subseteq unwritten \cup {got},
           \A i \in Items : Handed(i)' <=> Handed(i)
    PROVE  WaitsOnce'
<1>0. UNCHANGED ran /\ PoolOf(w) \in Pools
  BY DEF Fetch, PoolOf, Pools
<1>. SUFFICES ASSUME NEW r \in Pools, NEW i \in Items, Waits(r, i)'
              PROVE  Handed(i)' /\ Home(i) = r /\ ran'[i] = 0 /\ i \notin unwritten'
  BY FetchFacts DEF WaitsOnce, Home
<1>1. r # PoolOf(w) \/ i # got
  BY FetchFacts DEF Waits
<1>2. Waits(r, i)
  BY <1>1, FetchFacts
<1>3. Handed(i) /\ Home(i) = r /\ ran[i] = 0 /\ i \notin unwritten
  BY <1>2 DEF Inv, PoolInvariant, WaitsOnce
<1>4. i # got
  <2>1. Home(got) = PoolOf(w)
    BY FetchFacts
  <2>. QED  BY <1>1, <1>3, <2>1
<1>. QED  BY <1>0, <1>3, <1>4

\* Taking an item from the queue leaves the invariant: the item waited once,
\* so nothing waits or is held twice afterwards.
LEMMA TakeStep == ASSUME Inv, NEW w \in Workers, Take(w) PROVE Inv'
<1>. DEFINE q == PoolOf(w)
<1>0. /\ UNCHANGED <<phase, prof, next, poolState, abort, complete, outcome, ran, hit>>
      /\ UNCHANGED unwritten
      /\ pc[w] = "idle" /\ queue[q] # <<>> /\ q \in Pools /\ outcome = "none"
      /\ pc' = [pc EXCEPT ![w] = "began"] /\ item' = [item EXCEPT ![w] = Head(queue[q])]
      /\ Fetch(w)
  BY DEF Take, Fetch, At, mainVars, PoolOf, Pools
<1>1. PICK got : got = Head(queue[q])
  OBVIOUS
<1>2. /\ got \in Items /\ Handed(got) /\ Home(got) = q
      /\ Waits(q, got) /\ ran[got] = 0 /\ got \notin unwritten
      /\ \A v \in Workers : Busy(v) => item[v] # got
      /\ queue' \in [Pools -> Seq(Items)] /\ late' \in [Pools -> Nat]
      /\ \A r \in Pools \ {q} : queue'[r] = queue[r]
      /\ ~ \E n \in 1 .. Len(queue'[q]) : queue'[q][n] = got
      /\ \A r \in Pools : \A i \in Items :
           r # q \/ i # got => (Waits(r, i)' <=> Waits(r, i))
      /\ Terminated'
  BY <1>0, <1>1, FetchFacts
<1>3. /\ pc'[w] = "began" /\ item'[w] = got
      /\ \A v \in Workers \ {w} : pc'[v] = pc[v] /\ item'[v] = item[v]
  BY <1>0, <1>1 DEF Inv, Types
<1>7. Types'
  <2>1. pc' \in [Workers -> PCs] /\ item' \in [Workers -> Items \cup {NoItem}]
    BY <1>0, <1>1, <1>2 DEF Inv, Types, PCs
  <2>. QED  BY <1>0, <1>2, <2>1 DEF Inv, Types
<1>8. Places' /\ \A i \in Items : Handed(i)' <=> Handed(i)
  BY <1>0, <1>2, <1>3, ThreadStep
<1>10. WaitsOnce'
  BY <1>0, <1>1, <1>8, FetchWaits
<1>11. HeldOnce'
  <2>1. \A v \in Workers : Busy(v) /\ v # w =>
          /\ item[v] \in Items /\ item[v] # got
          /\ PoolOf(v) \in Pools /\ ~Waits(PoolOf(v), item[v])
    BY <1>2 DEF Inv, PoolInvariant, HeldOnce, PoolOf, Pools
  <2>2. \A v \in Workers : Busy(v) /\ v # w => ~ \E n \in 1 .. Len(queue'[PoolOf(v)]) :
                                                  queue'[PoolOf(v)][n] = item[v]
    BY <1>2, <2>1 DEF Waits
  <2>3. \A v \in Workers : Busy(v)' => v = w \/ Busy(v)
    BY <1>3 DEF Busy
  <2>4. ASSUME NEW v \in Workers, Busy(v)'
        PROVE  /\ item'[v] \in Items /\ Home(item'[v]) = PoolOf(v)
               /\ \A i \in Items : i = item'[v] => Handed(i)'
               /\ ran'[item'[v]] = IF pc'[v] = "began" THEN 0 ELSE 1
               /\ ~ \E n \in 1 .. Len(queue'[PoolOf(v)]) : queue'[PoolOf(v)][n] = item'[v]
               /\ item'[v] \notin unwritten'
               /\ IsDummy(item'[v]) => pc'[v] \in {"began", "logged"}
    <3>1. CASE v # w
      <4>1. Busy(v)
        BY <2>3, <2>4, <3>1
      <4>2. /\ item'[v] \in Items /\ Home(item'[v]) = PoolOf(v)
            /\ \A i \in Items : i = item'[v] => Handed(i)'
            /\ ran'[item'[v]] = IF pc'[v] = "began" THEN 0 ELSE 1
            /\ item'[v] \notin unwritten'
            /\ IsDummy(item'[v]) => pc'[v] \in {"began", "logged"}
        BY <1>0, <1>3, <1>8, <3>1, <4>1 DEF Inv, PoolInvariant, HeldOnce
      <4>3. item'[v] = item[v]
        BY <1>3, <3>1
      <4>. QED  BY <2>2, <3>1, <4>1, <4>2, <4>3
    <3>2. CASE v = w
      <4>1. item'[w] = got /\ pc'[w] = "began"
        BY <1>3
      <4>2. got \in Items /\ Home(got) = q /\ ran'[got] = 0 /\ got \notin unwritten'
        BY <1>0, <1>2
      <4>3. \A i \in Items : i = got => Handed(i)'
        BY <1>2, <1>8
      <4>4. ~ \E n \in 1 .. Len(queue'[q]) : queue'[q][n] = got
        BY <1>2
      <4>5. q = PoolOf(v)
        BY <3>2
      <4>. HIDE DEF q
      <4>. QED  BY <3>2, <4>1, <4>2, <4>3, <4>4, <4>5
    <3>. QED  BY <3>1, <3>2
  <2>5. \A u, v \in Workers : Busy(u)' /\ Busy(v)' /\ item'[u] = item'[v] => u = v
    BY <1>2, <1>3, <2>3 DEF Inv, PoolInvariant, HeldOnce
  <2>. QED  BY <2>4, <2>5 DEF HeldOnce, Handed, Home, Waits, Busy, PoolOf
<1>12. RanWasHanded'
  BY <1>0, <1>8 DEF Inv, PoolInvariant, RanWasHanded
<1>13. NoneLost'
  <2>. SUFFICES ASSUME ~Monitored, NEW i \in Items, Handed(i), ran[i] = 0, i \notin unwritten
                PROVE  \/ Waits(Home(i), i)'
                       \/ \E v \in Workers : pc'[v] = "began" /\ item'[v] = i
    BY <1>0, <1>8 DEF Inv, PoolInvariant, NoneLost, Home
  <2>1. CASE i = got
    BY <1>3, <2>1
  <2>2. CASE i # got
    <3>1. Waits(Home(i), i) \/ \E v \in Workers : pc[v] = "began" /\ item[v] = i
      BY DEF Inv, PoolInvariant, NoneLost
    <3>2. Waits(Home(i), i) => Waits(Home(i), i)'
      BY <1>2, <2>2, HomeIsPool DEF Waits, Home
    <3>. QED  BY <1>0, <1>3, <3>1, <3>2
  <2>. QED  BY <2>1, <2>2
<1>14. complete' = Cardinality(Counted')
  <2>1. Counted' = Counted
    <3>1. \A i \in Items : i # got =>
            \A v \in Workers : item'[v] = i /\ pc'[v] \in {"running", "checked"}
                               <=> item[v] = i /\ pc[v] \in {"running", "checked"}
      BY <1>0, <1>3
    <3>. QED  BY <1>0, <1>2, <3>1 DEF Counted
  <2>. QED  BY <1>0, <2>1 DEF Inv, PoolInvariant
<1>16. Reasons' /\ (outcome' = "aborted" => hit' # {})
  BY <1>0 DEF Inv, PoolInvariant, Reasons
<1>. QED  BY <1>2, <1>7, <1>8, <1>10, <1>11, <1>12, <1>13, <1>14, <1>16 DEF Inv, PoolInvariant

\* Giving an item up leaves the invariant: it was not executed, and nothing
\* holds it or waits for it.
LEMMA TakeFailsStep == ASSUME Inv, NEW w \in Workers, TakeFails(w) PROVE Inv'
<1>. DEFINE q == PoolOf(w)
<1>0. /\ UNCHANGED <<phase, prof, next, poolState, abort, complete, outcome, ran, hit>>
      /\ UNCHANGED <<pc, item>> /\ queue[q] # <<>> /\ q \in Pools /\ Fetch(w)
      /\ unwritten' = unwritten \cup {Head(queue[q])}
  BY DEF TakeFails, Fetch, mainVars, PoolOf, Pools
<1>1. PICK got : got = Head(queue[q])
  OBVIOUS
<1>2. /\ got \in Items /\ Handed(got) /\ Home(got) = q /\ ran[got] = 0
      /\ \A v \in Workers : Busy(v) => item[v] # got
      /\ queue' \in [Pools -> Seq(Items)] /\ late' \in [Pools -> Nat]
      /\ \A r \in Pools \ {q} : queue'[r] = queue[r]
      /\ \A r \in Pools : \A i \in Items :
           r # q \/ i # got => (Waits(r, i)' <=> Waits(r, i))
      /\ Terminated'
  BY <1>0, <1>1, FetchFacts
<1>3. unwritten' = unwritten \cup {got}
  BY <1>0, <1>1
<1>4. Types'
  BY <1>0, <1>2, <1>3 DEF Inv, Types
<1>5. Places' /\ \A i \in Items : Handed(i)' <=> Handed(i)
  BY <1>0, <1>2, ThreadStep
<1>6. WaitsOnce'
  BY <1>0, <1>1, <1>3, <1>5, FetchWaits
<1>7. HeldOnce'
  <2>1. \A v \in Workers : Busy(v) =>
          /\ item[v] \in Items /\ item[v] # got /\ Home(item[v]) = PoolOf(v)
          /\ PoolOf(v) \in Pools /\ ~Waits(PoolOf(v), item[v])
          /\ ran[item[v]] = (IF pc[v] = "began" THEN 0 ELSE 1)
          /\ item[v] \notin unwritten /\ (IsDummy(item[v]) => pc[v] \in {"began", "logged"})
    BY <1>2 DEF Inv, PoolInvariant, HeldOnce, PoolOf, Pools
  <2>2. \A v \in Workers : Busy(v) => \A i \in Items : i = item[v] => Handed(i)'
    BY <1>5 DEF Inv, PoolInvariant, HeldOnce
  <2>3. \A v \in Workers : Busy(v) => ~ \E n \in 1 .. Len(queue'[PoolOf(v)]) :
                                         queue'[PoolOf(v)][n] = item[v]
    BY <1>2, <2>1 DEF Waits
  <2>4. \A u, v \in Workers : Busy(u) /\ Busy(v) /\ item[u] = item[v] => u = v
    BY DEF Inv, PoolInvariant, HeldOnce
  <2>. HIDE DEF q
  <2>. QED  BY <1>0, <1>3, <2>1, <2>2, <2>3, <2>4
            DEF HeldOnce, Handed, Home, Waits, Busy, PoolOf
<1>8. RanWasHanded'
  BY <1>0, <1>2, <1>3, <1>5 DEF Inv, PoolInvariant, RanWasHanded
<1>9. NoneLost'
  <2>. SUFFICES ASSUME ~Monitored, NEW i \in Items, Handed(i), ran[i] = 0,
                       i \notin unwritten, i # got
                PROVE  \/ Waits(Home(i), i)'
                       \/ \E v \in Workers : pc[v] = "began" /\ item[v] = i
    BY <1>0, <1>3, <1>5 DEF Inv, PoolInvariant, NoneLost, Home
  <2>1. Waits(Home(i), i) \/ \E v \in Workers : pc[v] = "began" /\ item[v] = i
    BY DEF Inv, PoolInvariant, NoneLost
  <2>2. Waits(Home(i), i) => Waits(Home(i), i)'
    BY <1>2, HomeIsPool DEF Waits, Home
  <2>. QED  BY <2>1, <2>2
<1>10. complete' = Cardinality(Counted')
  BY <1>0 DEF Inv, PoolInvariant, Counted
<1>11. Reasons' /\ (outcome' = "aborted" => hit' # {})
  BY <1>0 DEF Inv, PoolInvariant, Reasons
<1>. QED  BY <1>2, <1>4, <1>5, <1>6, <1>7, <1>8, <1>9, <1>10, <1>11 DEF Inv, PoolInvariant

\* Executing the item leaves the invariant, whether it is a test or a dummy:
\* nothing else holds it, and it does not wait anywhere.
LEMMA RunStep == ASSUME Inv, NEW w \in Workers, Run(w) \/ RunDummy(w) PROVE Inv'
<1>. DEFINE i0 == item[w]
            to == IF IsDummy(i0) THEN "logged" ELSE "running"
<1>0. /\ UNCHANGED <<phase, prof, next, poolState, queue, item, abort, complete, outcome>>
      /\ UNCHANGED <<hit, late, unwritten>> /\ pc[w] = "began" /\ Busy(w)
      /\ pc' = [pc EXCEPT ![w] = to] /\ ran' = [ran EXCEPT ![i0] = @ + 1]
  BY DEF Run, RunDummy, At, mainVars, Busy
<1>1. /\ i0 \in Items /\ Handed(i0) /\ Home(i0) = PoolOf(w) /\ ran[i0] = 0
      /\ i0 \notin unwritten /\ ~Waits(PoolOf(w), i0)
      /\ \A v \in Workers \ {w} : Busy(v) => item[v] # i0
  BY <1>0 DEF Inv, PoolInvariant, HeldOnce
<1>2. /\ ran' \in [Items -> 0 .. 1] /\ ran'[i0] = 1
      /\ \A i \in Items \ {i0} : ran'[i] = ran[i]
  BY <1>0, <1>1 DEF Inv, Types
<1>3. /\ pc' \in [Workers -> PCs] /\ pc'[w] = to
      /\ \A v \in Workers \ {w} : pc'[v] = pc[v]
  BY <1>0 DEF Inv, Types, PCs
<1>4. Types'
  BY <1>0, <1>2, <1>3 DEF Inv, Types
<1>5. Places' /\ \A i \in Items : Handed(i)' <=> Handed(i)
  BY <1>0, <1>3, ThreadStep
<1>6. WaitsOnce'
  <2>1. \A q \in Pools : \A i \in Items : Waits(q, i) => i # i0
    BY <1>1 DEF Inv, PoolInvariant, WaitsOnce
  <2>. QED  BY <1>0, <1>2, <1>5, <2>1 DEF Inv, PoolInvariant, WaitsOnce, Waits, Home
<1>7. HeldOnce'
  <2>1. \A v \in Workers : Busy(v)' <=> Busy(v)
    BY <1>0, <1>3 DEF Busy
  <2>2. \A v \in Workers : Busy(v) =>
          /\ item[v] \in Items /\ Home(item[v]) = PoolOf(v) /\ ~Waits(PoolOf(v), item[v])
          /\ ran'[item[v]] = (IF pc'[v] = "began" THEN 0 ELSE 1)
          /\ item[v] \notin unwritten' /\ (IsDummy(item[v]) => pc'[v] \in {"began", "logged"})
    BY <1>0, <1>1, <1>2, <1>3 DEF Inv, PoolInvariant, HeldOnce
  <2>3. \A v \in Workers : Busy(v) => \A i \in Items : i = item[v] => Handed(i)'
    BY <1>5 DEF Inv, PoolInvariant, HeldOnce
  <2>. QED  BY <1>0, <2>1, <2>2, <2>3
            DEF Inv, PoolInvariant, HeldOnce, Handed, Home, Waits, Busy, PoolOf
<1>8. RanWasHanded'
  BY <1>0, <1>1, <1>2, <1>5 DEF Inv, PoolInvariant, RanWasHanded
<1>9. NoneLost'
  BY <1>0, <1>2, <1>3, <1>5 DEF Inv, PoolInvariant, NoneLost, Waits, Home
<1>10. complete' = Cardinality(Counted')
  <2>1. Counted' = Counted
    <3>1. \A i \in Items \ {i0} : i \in Counted' <=> i \in Counted
      BY <1>0, <1>2, <1>3 DEF Counted
    <3>2. i0 \notin Counted /\ i0 \notin Counted'
      BY <1>0, <1>1, <1>3 DEF Counted
    <3>3. Counted \subseteq Items /\ Counted' \subseteq Items
      BY DEF Counted
    <3>. QED  BY <3>1, <3>2, <3>3
  <2>. QED  BY <1>0, <2>1 DEF Inv, PoolInvariant
<1>11. Terminated' /\ Reasons' /\ (outcome' = "aborted" => hit' # {})
  BY <1>0 DEF Inv, PoolInvariant, Terminated, Reasons
<1>. QED  BY <1>4, <1>5, <1>6, <1>7, <1>8, <1>9, <1>10, <1>11 DEF Inv, PoolInvariant

\* Asking the monitors leaves the invariant: abort_needed is set when a rule
\* matched, and without monitoring it is not touched.
LEMMA CheckStep == ASSUME Inv, NEW w \in Workers, Check(w) PROVE Inv'
<1>. DEFINE p0 == item[w][1]
<1>0. /\ UNCHANGED <<phase, prof, next, poolState, queue, item, complete, outcome>>
      /\ UNCHANGED <<ran, late, unwritten>> /\ pc[w] = "running" /\ Busy(w)
      /\ pc' = [pc EXCEPT ![w] = "checked"]
  BY DEF Check, At, mainVars, Busy
<1>1. item[w] \in Items /\ p0 \in Profiles
  BY <1>0, ItemFacts DEF Inv, PoolInvariant, HeldOnce
<1>2. PICK found \in BOOLEAN :
        /\ ~Monitored => ~found
        /\ abort' = [abort EXCEPT ![p0] = IF Monitored THEN SetAbort(@, found) ELSE @]
        /\ hit' = IF found THEN hit \cup {item[w]} ELSE hit
  BY DEF Check
<1>3. /\ pc' \in [Workers -> PCs] /\ pc'[w] = "checked"
      /\ \A v \in Workers \ {w} : pc'[v] = pc[v]
  BY <1>0 DEF Inv, Types, PCs
<1>4. /\ abort' \in [Profiles -> BOOLEAN] /\ hit' \subseteq Items /\ hit \subseteq hit'
      /\ \A p \in Profiles : abort'[p] => abort[p] \/ (Monitored /\ found)
      /\ found => hit' # {}
  BY <1>1, <1>2 DEF Inv, Types, SetAbort
<1>5. Types'
  BY <1>0, <1>3, <1>4 DEF Inv, Types
<1>6. Places' /\ \A i \in Items : Handed(i)' <=> Handed(i)
  BY <1>0, <1>3, ThreadStep
<1>7. WaitsOnce'
  BY <1>0, <1>6 DEF Inv, PoolInvariant, WaitsOnce, Waits, Home
<1>8. HeldOnce'
  <2>1. \A v \in Workers : Busy(v)' <=> Busy(v)
    BY <1>0, <1>3 DEF Busy
  <2>2. \A v \in Workers : Busy(v) =>
          /\ item[v] \in Items /\ Home(item[v]) = PoolOf(v) /\ ~Waits(PoolOf(v), item[v])
          /\ ran[item[v]] = (IF pc'[v] = "began" THEN 0 ELSE 1)
          /\ item[v] \notin unwritten' /\ (IsDummy(item[v]) => pc'[v] \in {"began", "logged"})
    BY <1>0, <1>3 DEF Inv, PoolInvariant, HeldOnce
  <2>3. \A v \in Workers : Busy(v) => \A i \in Items : i = item[v] => Handed(i)'
    BY <1>6 DEF Inv, PoolInvariant, HeldOnce
  <2>. QED  BY <1>0, <2>1, <2>2, <2>3
            DEF Inv, PoolInvariant, HeldOnce, Handed, Home, Waits, Busy, PoolOf
<1>9. RanWasHanded'
  BY <1>0, <1>6 DEF Inv, PoolInvariant, RanWasHanded
<1>10. NoneLost'
  <2>1. \A v \in Workers : pc[v] = "began" => pc'[v] = "began"
    BY <1>0, <1>3
  <2>. QED  BY <1>0, <1>4, <1>6, <2>1 DEF Inv, PoolInvariant, NoneLost, Waits, Home
<1>11. complete' = Cardinality(Counted')
  <2>1. \A v \in Workers : pc'[v] \in {"running", "checked"} <=> pc[v] \in {"running", "checked"}
    BY <1>0, <1>3
  <2>2. Counted' = Counted
    BY <1>0, <2>1 DEF Counted
  <2>. QED  BY <1>0, <2>2 DEF Inv, PoolInvariant
<1>12. Terminated' /\ Reasons' /\ (outcome' = "aborted" => hit' # {})
  BY <1>0, <1>4 DEF Inv, PoolInvariant, Terminated, Reasons
<1>. QED  BY <1>5, <1>6, <1>7, <1>8, <1>9, <1>10, <1>11, <1>12 DEF Inv, PoolInvariant

\* Logging leaves the invariant, whether or not the status is accepted: the
\* count and the counted items grow by one.
LEMMA LogStep == ASSUME Inv, NEW w \in Workers, Log(w) PROVE Inv'
<1>. DEFINE i0 == item[w]
<1>0. /\ UNCHANGED <<phase, prof, next, poolState, queue, abort, outcome>>
      /\ UNCHANGED <<ran, hit, late, unwritten>> /\ pc[w] = "checked" /\ Busy(w)
      /\ complete' = complete + 1
      /\ \/ pc' = [pc EXCEPT ![w] = "logged"] /\ item' = item
         \/ pc' = [pc EXCEPT ![w] = "idle"] /\ item' = [item EXCEPT ![w] = NoItem]
  BY DEF Log, At, mainVars, history, Busy
<1>1. /\ i0 \in Items /\ ran[i0] = 1 /\ ~IsDummy(i0) /\ \A v \in Workers \ {w} : Busy(v) => item[v] # i0
  BY <1>0 DEF Inv, PoolInvariant, HeldOnce
<1>2. /\ pc' \in [Workers -> PCs] /\ item' \in [Workers -> Items \cup {NoItem}]
      /\ \A v \in Workers \ {w} : pc'[v] = pc[v] /\ item'[v] = item[v]
      /\ pc'[w] \in {"logged", "idle"} /\ (pc'[w] = "logged" => item'[w] = i0)
  BY <1>0 DEF Inv, Types, PCs
<1>3. Types'
  BY <1>0, <1>2 DEF Inv, Types
<1>4. Places' /\ \A i \in Items : Handed(i)' <=> Handed(i)
  BY <1>0, <1>2, ThreadStep
<1>5. WaitsOnce'
  BY <1>0, <1>4 DEF Inv, PoolInvariant, WaitsOnce, Waits, Home
<1>6. HeldOnce'
  <2>1. \A v \in Workers : Busy(v)' => /\ Busy(v) /\ item'[v] = item[v]
                                       /\ pc'[v] = "began" <=> pc[v] = "began"
                                       /\ pc'[v] = pc[v] \/ pc'[v] = "logged"
    BY <1>0, <1>2 DEF Busy
  <2>2. \A v \in Workers : Busy(v)' =>
          /\ item'[v] \in Items /\ Home(item'[v]) = PoolOf(v) /\ ~Waits(PoolOf(v), item'[v])
          /\ ran[item'[v]] = (IF pc'[v] = "began" THEN 0 ELSE 1)
          /\ item'[v] \notin unwritten'
          /\ (IsDummy(item'[v]) => pc'[v] \in {"began", "logged"})
    BY <1>0, <2>1 DEF Inv, PoolInvariant, HeldOnce
  <2>3. \A v \in Workers : Busy(v)' => \A i \in Items : i = item'[v] => Handed(i)'
    BY <1>4, <2>1 DEF Inv, PoolInvariant, HeldOnce
  <2>4. \A u, v \in Workers : Busy(u)' /\ Busy(v)' /\ item'[u] = item'[v] => u = v
    BY <2>1 DEF Inv, PoolInvariant, HeldOnce
  <2>. QED  BY <1>0, <2>2, <2>3, <2>4 DEF HeldOnce, Handed, Home, Waits, Busy, PoolOf
<1>7. RanWasHanded'
  BY <1>0, <1>4 DEF Inv, PoolInvariant, RanWasHanded
<1>8. NoneLost'
  <2>1. \A v \in Workers : pc[v] = "began" => pc'[v] = "began" /\ item'[v] = item[v]
    BY <1>0, <1>2
  <2>. QED  BY <1>0, <1>4, <2>1 DEF Inv, PoolInvariant, NoneLost, Waits, Home
<1>9. complete' = Cardinality(Counted')
  <2>1. i0 \notin Counted
    BY <1>0 DEF Counted
  <2>2. Counted' = Counted \cup {i0}
    <3>1. \A i \in Items \ {i0} : i \in Counted' <=> i \in Counted
      BY <1>0, <1>2 DEF Counted
    <3>2. i0 \in Counted'
      BY <1>0, <1>1, <1>2 DEF Counted, Busy
    <3>3. Counted \subseteq Items /\ Counted' \subseteq Items
      BY DEF Counted
    <3>. QED  BY <1>1, <3>1, <3>2, <3>3
  <2>3. IsFiniteSet(Counted)
    BY ItemsFinite, FS_Subset DEF Counted
  <2>4. Cardinality(Counted \cup {i0}) = Cardinality(Counted) + 1
    BY <2>1, <2>3, FS_AddElement
  <2>. QED  BY <1>0, <2>2, <2>4 DEF Inv, PoolInvariant
<1>10. Terminated' /\ Reasons' /\ (outcome' = "aborted" => hit' # {})
  BY <1>0 DEF Inv, PoolInvariant, Terminated, Reasons
<1>. QED  BY <1>3, <1>4, <1>5, <1>6, <1>7, <1>8, <1>9, <1>10 DEF Inv, PoolInvariant

\* The end of a test leaves the invariant; terminate() only takes from the queue.
LEMMA EndTestStep == ASSUME Inv, NEW w \in Workers, EndTest(w) \/ WriteFails(w) PROVE Inv'
<1>. DEFINE q0 == PoolOf(w)
<1>0. /\ UNCHANGED <<phase, prof, next, abort, complete, outcome, ran, hit, late>>
      /\ UNCHANGED unwritten
      /\ pc[w] = "logged" /\ Busy(w) /\ q0 \in Pools
      /\ pc' = [pc EXCEPT ![w] = "idle"] /\ item' = [item EXCEPT ![w] = NoItem]
  BY DEF EndTest, WriteFails, At, mainVars, history, poolVars, Busy, PoolOf, Pools
<1>1. item[w] \in Items /\ item[w][1] \in Profiles
  BY <1>0, ItemFacts DEF Inv, PoolInvariant, HeldOnce
<1>2. \/ UNCHANGED <<poolState, queue>>
      \/ /\ Monitored
         /\ poolState' = [poolState EXCEPT ![q0] = "terminated"]
         /\ \E r \in Leftover(queue[q0]) : queue' = [queue EXCEPT ![q0] = r]
  BY <1>1 DEF EndTest, WriteFails, Inv, PoolInvariant, NoneLost
<1>3. /\ pc' \in [Workers -> PCs] /\ item' \in [Workers -> Items \cup {NoItem}]
      /\ \A v \in Workers \ {w} : pc'[v] = pc[v] /\ item'[v] = item[v]
      /\ pc'[w] = "idle"
  BY <1>0 DEF Inv, Types, PCs
<1>4. /\ poolState' \in [Pools -> {"running", "closed", "terminated"}]
      /\ queue' \in [Pools -> Seq(Items)]
      /\ \A q \in Pools \ {q0} : queue'[q] = queue[q] /\ poolState'[q] = poolState[q]
      /\ \/ UNCHANGED <<poolState, queue>>
         \/ /\ Monitored /\ poolState'[q0] = "terminated"
            /\ Len(queue'[q0]) \in 0 .. 1 /\ Len(queue'[q0]) <= Len(queue[q0])
            /\ \A n \in 1 .. Len(queue'[q0]) :
                 \E m \in 1 .. Len(queue[q0]) : queue'[q0][n] = queue[q0][m]
  <2>1. CASE UNCHANGED <<poolState, queue>>
    BY <2>1 DEF Inv, Types
  <2>2. ASSUME Monitored, poolState' = [poolState EXCEPT ![q0] = "terminated"],
               NEW r \in Leftover(queue[q0]), queue' = [queue EXCEPT ![q0] = r]
        PROVE  <1>4!1 /\ <1>4!2 /\ <1>4!3 /\ <1>4!4
    <3>1. queue[q0] \in Seq(Items)
      BY <1>0 DEF Inv, Types
    <3>2. /\ r \in Seq(Items) /\ Len(r) \in 0 .. 1 /\ Len(r) <= Len(queue[q0])
          /\ \A n \in 1 .. Len(r) : \E m \in 1 .. Len(queue[q0]) : r[n] = queue[q0][m]
      BY <3>1, LeftoverFacts
    <3>3. queue'[q0] = r /\ \A q \in Pools \ {q0} : queue'[q] = queue[q]
      BY <1>0, <2>2 DEF Inv, Types
    <3>4. queue' \in [Pools -> Seq(Items)]
      BY <2>2, <3>2 DEF Inv, Types
    <3>5. /\ poolState' \in [Pools -> {"running", "closed", "terminated"}]
          /\ poolState'[q0] = "terminated"
          /\ \A q \in Pools \ {q0} : poolState'[q] = poolState[q]
      BY <1>0, <2>2 DEF Inv, Types
    <3>. HIDE DEF q0
    <3>. QED  BY <2>2, <3>2, <3>3, <3>4, <3>5
  <2>. QED  BY <1>2, <2>1, <2>2
<1>5. Types'
  BY <1>0, <1>3, <1>4 DEF Inv, Types
<1>6. Places' /\ \A i \in Items : Handed(i)' <=> Handed(i)
  BY <1>0, <1>3, <1>4, ThreadStep
<1>7. \A q \in Pools : \A i \in Items : Waits(q, i)' => Waits(q, i)
  <2>. SUFFICES ASSUME NEW q \in Pools, NEW i \in Items,
                       NEW n \in 1 .. Len(queue'[q]), queue'[q][n] = i
                PROVE  \E m \in 1 .. Len(queue[q]) : queue[q][m] = i
    BY DEF Waits
  <2>1. CASE UNCHANGED <<poolState, queue>>
    BY <2>1
  <2>. HIDE DEF q0
  <2>. QED  BY <1>4, <2>1
<1>8. WaitsOnce'
  <2>1. \A q \in Pools : \A m, n \in 1 .. Len(queue'[q]) : queue'[q][m] = queue'[q][n] => m = n
    <3>1. CASE UNCHANGED <<poolState, queue>>
      BY <3>1 DEF Inv, PoolInvariant, WaitsOnce
    <3>2. CASE Len(queue'[q0]) \in 0 .. 1
      <4>1. \A k \in 0 .. 1 : \A m, n \in 1 .. k : m = n
        OBVIOUS
      <4>. HIDE DEF q0
      <4>. QED  BY <1>4, <4>1 DEF Inv, PoolInvariant, WaitsOnce
    <3>. QED  BY <1>4, <3>1, <3>2
  <2>. QED  BY <1>0, <1>6, <1>7, <2>1 DEF Inv, PoolInvariant, WaitsOnce, Home
<1>9. HeldOnce'
  <2>1. \A v \in Workers : Busy(v)' => /\ Busy(v) /\ item'[v] = item[v] /\ pc'[v] = pc[v]
    BY <1>3 DEF Busy
  <2>2. \A v \in Workers : Busy(v)' =>
          /\ item'[v] \in Items /\ Home(item'[v]) = PoolOf(v)
          /\ ran'[item'[v]] = IF pc'[v] = "began" THEN 0 ELSE 1
          /\ ~ \E n \in 1 .. Len(queue'[PoolOf(v)]) : queue'[PoolOf(v)][n] = item'[v]
          /\ item'[v] \notin unwritten'
          /\ (IsDummy(item'[v]) => pc'[v] \in {"began", "logged"})
    <3>. SUFFICES ASSUME NEW v \in Workers, Busy(v)'
                  PROVE  /\ item'[v] \in Items /\ Home(item'[v]) = PoolOf(v)
                         /\ ran'[item'[v]] = IF pc'[v] = "began" THEN 0 ELSE 1
                         /\ \A i \in Items : i = item'[v] => ~Waits(PoolOf(v), i)'
                         /\ item'[v] \notin unwritten'
                         /\ (IsDummy(item'[v]) => pc'[v] \in {"began", "logged"})
      BY DEF Waits, PoolOf
    <3>1. /\ item[v] \in Items /\ Home(item[v]) = PoolOf(v) /\ PoolOf(v) \in Pools
          /\ ran[item[v]] = (IF pc[v] = "began" THEN 0 ELSE 1) /\ ~Waits(PoolOf(v), item[v])
          /\ item[v] \notin unwritten /\ (IsDummy(item[v]) => pc[v] \in {"began", "logged"})
      BY <2>1 DEF Inv, PoolInvariant, HeldOnce, PoolOf, Pools
    <3>. QED  BY <1>0, <1>7, <2>1, <3>1
  <2>3. \A v \in Workers : Busy(v)' => \A i \in Items : i = item'[v] => Handed(i)'
    BY <1>6, <2>1 DEF Inv, PoolInvariant, HeldOnce
  <2>4. \A u, v \in Workers : Busy(u)' /\ Busy(v)' /\ item'[u] = item'[v] => u = v
    BY <2>1 DEF Inv, PoolInvariant, HeldOnce
  <2>. QED  BY <2>2, <2>3, <2>4 DEF HeldOnce, Handed, Home, Waits, Busy, PoolOf
<1>10. RanWasHanded'
  BY <1>0, <1>6 DEF Inv, PoolInvariant, RanWasHanded
<1>11. NoneLost'
  <2>1. ~Monitored => queue' = queue
    BY <1>4
  <2>2. \A v \in Workers : pc[v] = "began" => pc'[v] = "began" /\ item'[v] = item[v]
    BY <1>0, <1>3
  <2>. QED  BY <1>0, <1>6, <2>1, <2>2 DEF Inv, PoolInvariant, NoneLost, Waits, Home
<1>12. complete' = Cardinality(Counted')
  <2>1. \A v \in Workers : \A i \in Items :
          item'[v] = i /\ pc'[v] \in {"running", "checked"}
          <=> item[v] = i /\ pc[v] \in {"running", "checked"}
    BY <1>0, <1>3
  <2>2. Counted' = Counted
    BY <1>0, <2>1 DEF Counted
  <2>. QED  BY <1>0, <2>2 DEF Inv, PoolInvariant
<1>13. Terminated'
  <2>1. late[q0] \in Nat /\ Len(queue[q0]) \in Nat
    BY <1>0 DEF Inv, Types
  <2>2. \A q \in Pools : IF poolState[q] = "terminated"
                         THEN late[q] + Len(queue[q]) <= 1 ELSE late[q] = 0
    BY DEF Inv, PoolInvariant, Terminated
  <2>3. CASE UNCHANGED <<poolState, queue>>
    BY <1>0, <2>2, <2>3 DEF Terminated
  <2>4. CASE /\ poolState'[q0] = "terminated"
             /\ Len(queue'[q0]) \in 0 .. 1 /\ Len(queue'[q0]) <= Len(queue[q0])
    <3>1. late[q0] + Len(queue'[q0]) <= 1
      <4>1. \A a, b, c \in Nat : (a = 0 \/ a + b <= 1) /\ c <= 1 /\ c <= b => a + c <= 1
        OBVIOUS
      <4>2. late[q0] = 0 \/ late[q0] + Len(queue[q0]) <= 1
        BY <1>0, <2>2
      <4>3. \A k \in 0 .. 1 : k \in Nat /\ k <= 1
        OBVIOUS
      <4>. HIDE DEF q0
      <4>. QED  BY <2>1, <2>4, <4>1, <4>2, <4>3
    <3>. HIDE DEF q0
    <3>. QED  BY <1>0, <1>4, <2>2, <2>4, <3>1 DEF Terminated
  <2>. QED  BY <1>4, <2>3, <2>4
<1>14. Reasons' /\ (outcome' = "aborted" => hit' # {})
  BY <1>0 DEF Inv, PoolInvariant, Reasons
<1>. QED  BY <1>5, <1>6, <1>8, <1>9, <1>10, <1>11, <1>12, <1>13, <1>14 DEF Inv, PoolInvariant

-----------------------------------------------------------------------------
\* The specification.

\* Every step of run() and of its threads leaves the invariant.
LEMMA StepInvariant == Inv /\ [Next]_vars => Inv'
<1>. SUFFICES ASSUME Inv, [Next]_vars PROVE Inv'
  OBVIOUS
<1>1. CASE MainThread
  BY <1>1, SetupStep, SkipStep, SubmitStep, SecondPassStep, TeardownStep,
     CloseSingleStep, CloseMultiStep, FinishStep DEF MainThread
<1>2. ASSUME NEW w \in Workers, Worker(w) PROVE Inv'
  BY <1>2, TakeStep, TakeFailsStep, RunStep, CheckStep, LogStep, EndTestStep DEF Worker
<1>3. CASE UNCHANGED vars
  <2>1. /\ UNCHANGED <<phase, prof, next, poolState, queue, pc, item, abort, complete>>
        /\ UNCHANGED <<outcome, ran, hit, late, unwritten>>
    BY <1>3 DEF vars, mainVars, poolVars, history
  <2>2. \A i \in Items : Handed(i)' <=> Handed(i)
    BY <2>1 DEF Handed, Home
  <2>3. Types'
    BY <2>1 DEF Inv, Types
  <2>4. Places' /\ (outcome' = "aborted" => hit' # {})
    BY <2>1 DEF Inv, PoolInvariant, Places, Drained
  <2>. QED  BY <2>1, <2>2, <2>3, <2>4, QuietStep DEF Inv, PoolInvariant
<1>. QED  BY <1>1, <1>2, <1>3 DEF Next

\* So the invariant holds in every reachable state.
LEMMA InvariantHolds == Spec => []Inv
  BY InitInvariant, StepInvariant, PTL DEF Spec

\* Types: no submission is executed twice, and the log's count never passes the
\* total it was created with.
THEOREM TypeCorrect == Spec => []TypeOK
<1>1. Inv => TypeOK
  <2>. SUFFICES ASSUME Inv PROVE TypeOK
    OBVIOUS
  <2>1. Counted \subseteq Items /\ IsFiniteSet(Items)
    BY ItemsFinite DEF Counted
  <2>2. IsFiniteSet(Counted) /\ Cardinality(Counted) <= Cardinality(Items)
    BY <2>1, FS_Subset
  <2>3. Cardinality(Counted) \in Nat /\ Cardinality(Items) \in Nat
    BY <2>1, <2>2, FS_CardinalityType
  <2>4. complete \in 0 .. Cardinality(Items)
    BY <2>2, <2>3 DEF Inv, PoolInvariant
  <2>. QED  BY <2>4 DEF Inv, Types, TypeOK
<1>. QED  BY <1>1, InvariantHolds, PTL

\* No two tests that must not run beside their kind are ever executed together,
\* unless the user asked for everything at once: they all go to one thread.
THEOREM SerialTestsAlone == Spec => []SerialAlone
<1>1. Inv => SerialAlone
  <2>. SUFFICES ASSUME Inv, Concurrency # "all", NEW v \in Workers, NEW w \in Workers,
                       Executing(v), Executing(w), IsSerial(item[v]), IsSerial(item[w])
                PROVE  v = w
    BY DEF SerialAlone
  <2>1. Home(item[v]) = "single" /\ Home(item[w]) = "single"
    BY OptionsAssumption DEF Home, FirstPass
  <2>2. PoolOf(v) = "single" /\ PoolOf(w) = "single"
    BY <2>1 DEF Inv, PoolInvariant, HeldOnce, Busy, Executing
  <2>. QED  BY <2>2 DEF PoolOf
<1>. QED  BY <1>1, InvariantHolds, PTL

\* What run() has waited for when it returns.
LEMMA ReturnedFacts ==
    ASSUME Inv, ~Monitored, outcome = "returned"
    PROVE  /\ \A i \in Items : ran[i] = IF i \in unwritten THEN 0 ELSE 1
           /\ \A w \in Workers : pc[w] = "idle"
<1>1. prof = Len(Plan) + 1 /\ Drained("single") /\ Drained("multi")
  BY DEF Inv, PoolInvariant, Places
<1>2. \A w \in Workers : pc[w] = "idle"
  BY <1>1 DEF Drained, PoolOf
<1>3. \A i \in Items : Handed(i)
  BY <1>1, ItemFacts, PlanFacts DEF Handed
<1>4. \A i \in Items : ~Waits(Home(i), i)
  <2>1. \A q \in Pools : queue[q] = <<>>
    BY <1>1 DEF Drained, Pools
  <2>. QED  BY <2>1, HomeIsPool DEF Waits
<1>5. \A i \in Items : ran[i] = 0 <=> i \in unwritten
  BY <1>2, <1>3, <1>4 DEF Inv, PoolInvariant, NoneLost, RanWasHanded
<1>6. \A i \in Items : ran[i] \in 0 .. 1
  BY DEF Inv, Types
<1>. QED  BY <1>2, <1>5, <1>6

\* A run that is not monitored and returns has tried every test of every profile
\* once: executed it once, or failed to write its placeholder and not executed it.
THEOREM EveryTestRan == Spec => []ReturnedRanAll
<1>1. Inv => ReturnedRanAll
  BY ReturnedFacts DEF ReturnedRanAll
<1>. QED  BY <1>1, InvariantHolds, PTL

\* It has counted those that were executed and are no dummies, those whose status
\* the log refused included, and nothing else.
THEOREM EveryTestCounted == Spec => []ReturnedCountedAll
<1>1. Inv => ReturnedCountedAll
  <2>. SUFFICES ASSUME Inv, ~Monitored, outcome = "returned"
                PROVE  complete = Cardinality({i \in Items : i \notin unwritten /\ ~IsDummy(i)})
    BY DEF ReturnedCountedAll
  <2>1. Counted = {i \in Items : i \notin unwritten /\ ~IsDummy(i)}
    BY ReturnedFacts DEF Counted
  <2>. QED  BY <2>1 DEF Inv, PoolInvariant
<1>. QED  BY <1>1, InvariantHolds, PTL

\* After terminate() a pool starts one more test at most, however many waited.
THEOREM TerminationStops == Spec => []TerminateStops
<1>1. Inv => TerminateStops
  <2>. SUFFICES ASSUME Inv, NEW q \in Pools PROVE late[q] <= 1
    BY DEF TerminateStops
  <2>1. late[q] \in Nat /\ Len(queue[q]) \in Nat
    BY DEF Inv, Types
  <2>2. late[q] = 0 \/ late[q] + Len(queue[q]) <= 1
    BY DEF Inv, PoolInvariant, Terminated
  <2>. QED  BY <2>1, <2>2
<1>. QED  BY <1>1, InvariantHolds, PTL

\* run() ends in PiglitAbort only if a monitoring rule matched.
THEOREM AbortIsJustified == Spec => []AbortHasReason
<1>1. Inv => AbortHasReason
  BY DEF Inv, PoolInvariant, AbortHasReason
<1>. QED  BY <1>1, InvariantHolds, PTL

-----------------------------------------------------------------------------
(***************************************************************************)
(* What becomes of a match.  MatchAborts is false (MonitoredAbort); there  *)
(* are two ways out of it and no third.                                    *)
(***************************************************************************)

\* When no exception leaves a test or a hook, a match ends run() in PiglitAbort
\* unless one more test slipped through terminate(), whose check replaced what was
\* found, or the main thread was still handing tests to the pool, which refused one.
MatchIsSeen ==
    hit # {} =>
        \/ outcome \in {"none", "aborted"}
        \/ outcome = "returned" /\ late["single"] = 1
        \/ outcome = "raised" /\ poolState["single"] = "terminated" /\ phase = "single"

\* Until something slips through, the monitor remembers, and the thread is on its way
\* to terminate() or has been there.
MatchKept ==
    hit # {} /\ late["single"] = 0 =>
        \/ /\ poolState["single"] = "terminated" /\ pc[SingleWorker] = "idle"
           /\ \E p \in Profiles : abort[p]
        \/ pc[SingleWorker] \in {"checked", "logged"} /\ abort[item[SingleWorker][1]]

MatchInvariant ==
    /\ hit # {} => Monitored
    /\ phase \in {"setup", "multi", "single"} => poolState["single"] # "closed"
    /\ Monitored /\ outcome = "raised" =>
         phase = "single" /\ poolState["single"] = "terminated"
    /\ outcome = "returned" => \A p \in Profiles : ~ abort[p]
    /\ MatchKept

\* A monitored run has one thread at work.
LEMMA OneThread ==
    ASSUME Inv, Monitored
    PROVE  /\ \A w \in Workers : Busy(w) => w = SingleWorker
           /\ queue["multi"] = <<>>
           /\ phase # "multi"
<1>1. Concurrency = "none" /\ \A i \in Items : Home(i) = "single"
  BY OptionsAssumption DEF Home, FirstPass
<1>2. ASSUME NEW w \in Workers, Busy(w) PROVE w = SingleWorker
  BY <1>1, <1>2 DEF Inv, PoolInvariant, HeldOnce, PoolOf
<1>3. ASSUME queue["multi"] # <<>> PROVE FALSE
  <2>1. queue["multi"] \in Seq(Items)
    BY DEF Inv, Types, Pools
  <2>2. 1 \in 1 .. Len(queue["multi"]) /\ queue["multi"][1] \in Items
    BY <1>3, <2>1
  <2>3. Waits("multi", queue["multi"][1])
    BY <2>2 DEF Waits
  <2> QED BY <1>1, <2>2, <2>3 DEF Inv, PoolInvariant, WaitsOnce, Pools
<1>4. phase # "multi"
  BY <1>1 DEF Inv, PoolInvariant, Places, Pools
<1> QED BY <1>2, <1>3, <1>4

LEMMA MatchInit == Init => MatchInvariant
BY DEF Init, MatchInvariant, MatchKept, Pools

\* The main thread forgets nothing.
LEMMA MatchMain ==
    ASSUME Faults = {}, Inv, MatchInvariant, MainThread
    PROVE  MatchInvariant'
<1>1. /\ UNCHANGED <<pc, item, abort, hit, late>>
      /\ outcome = "none" /\ MatchKept
      /\ poolState \in [Pools -> {"running", "closed", "terminated"}]
  BY DEF MainThread, Setup, Skip, Submit, SecondPass, Teardown, CloseSingle, CloseMulti,
     Finish, Main, poolVars, history, MatchInvariant, Inv, Types
<1>2. CASE Setup \/ Skip \/ SecondPass \/ Teardown
  <2>1. /\ UNCHANGED <<poolState, outcome>>
        /\ phase \in {"setup", "multi", "single"}
    BY <1>2 DEF Setup, Skip, SecondPass, Teardown, Main, Pools, LastPass, poolVars
  <2> QED BY <1>1, <2>1 DEF MatchInvariant, MatchKept
<1>3. CASE Submit
  <2>1. /\ phase \in Pools /\ poolState' = poolState /\ phase' = phase
        /\ \/ outcome' = "none"
           \/ poolState[phase] # "running" /\ outcome' = "raised"
    BY <1>1, <1>3 DEF Submit, Raise
  <2>2. Monitored => phase = "single"
    BY <2>1, OneThread DEF Pools
  <2> QED BY <1>1, <2>1, <2>2 DEF MatchInvariant, MatchKept, Pools
<1>4. CASE CloseSingle \/ CloseMulti
  <2>1. /\ phase' \in {"joinSingle", "joinMulti"} /\ outcome' = "none"
        /\ poolState["single"] = "terminated" => poolState'["single"] = "terminated"
    BY <1>1, <1>4 DEF CloseSingle, CloseMulti, Main, Closed, Pools
  <2> QED BY <1>1, <2>1 DEF MatchInvariant, MatchKept
<1>5. CASE Finish
  <2>1. /\ phase' = "over" /\ poolState' = poolState
        /\ outcome' = IF \E p \in Profiles : abort[p] THEN "aborted" ELSE "returned"
    BY <1>5 DEF Finish, Main, poolVars
  <2> QED BY <1>1, <2>1 DEF MatchInvariant, MatchKept
<1> QED BY <1>2, <1>3, <1>4, <1>5 DEF MainThread

\* A thread that found something goes on to terminate(), and takes a test only late.
LEMMA MatchWorker ==
    ASSUME Faults = {}, Inv, MatchInvariant, NEW w \in Workers, Worker(w)
    PROVE  MatchInvariant'
<1>1. /\ outcome = "none" /\ outcome' = "none" /\ phase' = phase
      /\ MatchKept /\ (hit # {} => Monitored)
      /\ phase \in {"setup", "multi", "single"} => poolState["single"] # "closed"
  BY DEF Worker, Take, TakeFails, Fetch, Run, RunDummy, Check, Log, EndTest, WriteFails, At,
     mainVars, MatchInvariant
<1>2. /\ pc \in [Workers -> PCs] /\ item \in [Workers -> Items \cup {NoItem}]
      /\ abort \in [Profiles -> BOOLEAN] /\ late \in [Pools -> Nat]
      /\ poolState \in [Pools -> {"running", "closed", "terminated"}]
      /\ SingleWorker \in Workers /\ "single" \in Pools
  BY DEF Inv, Types, Workers, Pools
<1>3. Monitored => \A v \in Workers : Busy(v) => v = SingleWorker
  BY OneThread
<1>4. Busy(w) => item[w][1] \in Profiles
  <2>1. Busy(w) => item[w] \in Items
    BY DEF Inv, PoolInvariant, HeldOnce
  <2> QED BY <2>1, ItemFacts
<1> SUFFICES /\ hit' # {} => Monitored
             /\ phase \in {"setup", "multi", "single"} => poolState'["single"] # "closed"
             /\ MatchKept'
  BY <1>1 DEF MatchInvariant
<1>5. CASE Take(w)
  <2>1. /\ At(w, "idle") /\ queue[PoolOf(w)] # <<>>
        /\ UNCHANGED <<poolState, abort, hit>>
        /\ late' = [late EXCEPT ![PoolOf(w)] = IF poolState[PoolOf(w)] = "terminated"
                                               THEN @ + 1 ELSE @]
    BY <1>5 DEF Take, Fetch
  <2>2. Monitored => w = SingleWorker /\ PoolOf(w) = "single"
    BY <2>1, OneThread DEF PoolOf
  <2>3. hit # {} /\ late["single"] = 0 => poolState["single"] = "terminated"
    BY <1>1, <2>1, <2>2 DEF MatchKept, At
  <2>4. hit # {} => late'["single"] # 0
    BY <1>1, <1>2, <2>1, <2>2, <2>3
  <2> QED BY <1>1, <2>1, <2>4 DEF MatchKept
<1>6. CASE Run(w) \/ RunDummy(w)
  <2>1. /\ pc[w] = "began" /\ UNCHANGED <<poolState, abort, hit, late, item>>
    BY <1>6 DEF Run, RunDummy, At
  <2>2. hit # {} => late["single"] # 0
    BY <1>1, <1>3, <2>1 DEF MatchKept, Busy
  <2> QED BY <1>1, <2>1, <2>2 DEF MatchKept
<1>7. CASE Check(w)
  <2>1. PICK found \in IF Monitored THEN BOOLEAN ELSE {FALSE} :
          /\ abort' = [abort EXCEPT ![item[w][1]] = IF Monitored THEN SetAbort(@, found) ELSE @]
          /\ hit' = IF found THEN hit \cup {item[w]} ELSE hit
    BY <1>7 DEF Check
  <2>2. /\ pc[w] = "running" /\ pc' = [pc EXCEPT ![w] = "checked"]
        /\ UNCHANGED <<poolState, late, item>>
    BY <1>7 DEF Check, At
  <2>3. CASE found
    <3>1. Monitored /\ w = SingleWorker
      BY <1>3, <2>1, <2>2, <2>3 DEF Busy
    <3>2. pc'[SingleWorker] = "checked" /\ abort'[item'[SingleWorker][1]]
      BY <1>2, <1>4, <2>1, <2>2, <2>3, <3>1 DEF SetAbort, Busy
    <3> QED BY <1>1, <2>2, <3>1, <3>2 DEF MatchKept
  <2>4. CASE ~ found
    <3>1. hit' = hit
      BY <2>1, <2>4
    <3>2. hit # {} => late["single"] # 0
      BY <1>1, <1>3, <2>2 DEF MatchKept, Busy
    <3> QED BY <1>1, <2>2, <3>1, <3>2 DEF MatchKept
  <2> QED BY <2>3, <2>4
<1>8. CASE Log(w)
  <2>1. /\ pc[w] = "checked" /\ pc' = [pc EXCEPT ![w] = "logged"]
        /\ UNCHANGED <<poolState, abort, hit, late, item>>
    BY <1>8 DEF Log, At, history
  <2>2. hit # {} => w = SingleWorker
    BY <1>1, <1>3, <2>1 DEF Busy
  <2>3. hit # {} /\ late["single"] = 0 =>
          pc'[SingleWorker] = "logged" /\ abort[item[SingleWorker][1]]
    BY <1>1, <1>2, <2>1, <2>2 DEF MatchKept
  <2> QED BY <1>1, <2>1, <2>3 DEF MatchKept
<1>9. CASE EndTest(w)
  <2>1. /\ pc[w] = "logged" /\ pc' = [pc EXCEPT ![w] = "idle"]
        /\ UNCHANGED <<abort, hit, late>>
        /\ abort[item[w][1]] => poolState' = [poolState EXCEPT ![PoolOf(w)] = "terminated"]
        /\ ~ abort[item[w][1]] => poolState' = poolState
    BY <1>9 DEF EndTest, At, history
  <2>2. poolState'["single"] \in {poolState["single"], "terminated"}
    BY <1>2, <2>1
  <2>3. ASSUME hit # {}, late["single"] = 0
        PROVE  /\ poolState'["single"] = "terminated" /\ pc'[SingleWorker] = "idle"
               /\ \E p \in Profiles : abort'[p]
    <3>1. w = SingleWorker /\ PoolOf(w) = "single" /\ abort[item[w][1]]
      BY <1>1, <1>3, <2>1, <2>3 DEF Busy, MatchKept, PoolOf
    <3>2. item[w][1] \in Profiles
      BY <1>4, <2>1 DEF Busy
    <3> QED BY <1>2, <2>1, <3>1, <3>2
  <2> QED BY <1>1, <2>1, <2>2, <2>3 DEF MatchKept
<1>10. ~TakeFails(w) /\ ~WriteFails(w)
  BY DEF TakeFails, WriteFails
<1> QED BY <1>5, <1>6, <1>7, <1>8, <1>9, <1>10 DEF Worker

\* So these are the two ways in which a match does not end run() in PiglitAbort.
THEOREM MatchesAbortButForTwo ==
    ASSUME Faults = {}
    PROVE  Spec => []MatchIsSeen
<1>1. Inv /\ MatchInvariant /\ [Next]_vars => MatchInvariant'
  <2> SUFFICES ASSUME Inv, MatchInvariant, [Next]_vars PROVE MatchInvariant'
    OBVIOUS
  <2>1. CASE UNCHANGED vars
    BY <2>1 DEF vars, mainVars, poolVars, history, MatchInvariant, MatchKept
  <2> QED BY <2>1, MatchMain, MatchWorker DEF Next
<1>2. Inv /\ MatchInvariant /\ TerminateStops => MatchIsSeen
  <2> SUFFICES ASSUME Inv, MatchInvariant, TerminateStops, hit # {}, outcome # "none",
                      outcome # "aborted"
               PROVE  \/ outcome = "returned" /\ late["single"] = 1
                      \/ /\ outcome = "raised" /\ poolState["single"] = "terminated"
                         /\ phase = "single"
    BY DEF MatchIsSeen
  <2>1. CASE outcome = "returned"
    <3>1. pc[SingleWorker] = "idle"
      <4>1. Drained("single")
        BY <2>1 DEF Inv, PoolInvariant, Places
      <4> QED BY <4>1 DEF Drained, PoolOf, Workers
    <3>2. late["single"] # 0
      BY <2>1, <3>1 DEF MatchInvariant, MatchKept
    <3>3. late["single"] \in Nat /\ late["single"] <= 1
      BY DEF Inv, Types, TerminateStops, Pools
    <3> QED BY <2>1, <3>2, <3>3
  <2>2. CASE outcome = "raised"
    BY <2>2 DEF MatchInvariant
  <2>3. outcome \in {"none", "returned", "aborted", "raised"}
    BY DEF Inv, Types
  <2> QED BY <2>1, <2>2, <2>3
<1>3. Spec => []MatchInvariant
  BY MatchInit, <1>1, InvariantHolds, PTL DEF Spec
<1> QED BY <1>2, <1>3, InvariantHolds, TerminationStops, PTL
=============================================================================
