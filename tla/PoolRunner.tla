----------------------------- MODULE PoolRunner -----------------------------
(***************************************************************************)
(* framework.profile.run: the main thread hands the tests of each profile  *)
(* to two thread pools - a serial one with one thread and a concurrent one *)
(* - and waits for them; a thread whose test violates a monitoring rule    *)
(* terminates its pool.                                                    *)
(*                                                                         *)
(* The pools are multiprocessing.pool.ThreadPool, which is not part of     *)
(* piglit: a queue, threads that take from it, and terminate(), which      *)
(* drains the queue except for one task its feeding thread may hold.       *)
(***************************************************************************)
EXTENDS Integers, Sequences, FiniteSets

CONSTANTS
    Tests,          \* names of tests
    Plan,           \* per profile, the tests it yields, in order
    Serial,         \* tests with run_concurrent = False
    Dummies,        \* tests that stand for a name no profile has (DummyTest)
    Concurrency,    \* "all", "none" or "some"
    MultiWorkers,   \* threads of the concurrent pool
    SingleWorker,   \* the thread of the serial pool
    Monitored,      \* TRUE iff --abort-monitored-error is in force
    Faults          \* what may go wrong: see FaultKinds

\* "raise": an exception leaves execute(), as when the log refuses a status;
\* "setup": the setup hook of a profile raises;
\* "write": a write of the backend raises, of the placeholder or of the result.
FaultKinds == {"raise", "setup", "write"}

ASSUME PlanAssumption == Plan \in Seq(Seq(Tests)) /\ Serial \subseteq Tests
\* DummyTest leaves run_concurrent as Test.__init__ sets it.
ASSUME DummiesAssumption == Dummies \subseteq Serial
ASSUME WorkersAssumption == SingleWorker \notin MultiWorkers
ASSUME OptionsAssumption ==
    /\ Concurrency \in {"all", "none", "some"}
    /\ Monitored \in BOOLEAN /\ (Monitored => Concurrency = "none")
    /\ Faults \subseteq FaultKinds

Pools == {"single", "multi"}
Profiles == DOMAIN Plan

\* An item is one submission: the k-th test of the p-th profile.
Items == UNION {{p} \X DOMAIN Plan[p] : p \in Profiles}
Test(i) == Plan[i[1]][i[2]]
IsSerial(i) == Test(i) \in Serial
IsDummy(i) == Test(i) \in Dummies

VARIABLES
    phase,      \* where the main thread is in run()
    prof,       \* the profile run_profile is about
    next,       \* the test of that profile run_threads looks at next
    poolState,  \* pool -> "running", "closed", "terminated"
    queue,      \* pool -> items its threads have not taken
    pc,         \* worker -> where it is in test()
    item,       \* worker -> the item it is about, while it is not idle
    abort,      \* profile -> does its Monitoring object say abort_needed?
    complete,   \* the log's count of completed tests
    outcome,    \* how run() ended: "none", "returned", "aborted", "raised"
    ran,        \* item -> how often it was executed
    hit,        \* items in whose check a monitoring rule matched
    late,       \* pool -> items taken after its terminate()
    unwritten   \* items whose placeholder could not be written

mainVars == <<phase, prof, next>>
poolVars == <<poolState, queue, pc, item>>
history == <<ran, hit, late, unwritten>>
vars == <<mainVars, poolVars, abort, complete, outcome, history>>

Workers == MultiWorkers \cup {SingleWorker}
PoolOf(w) == IF w = SingleWorker THEN "single" ELSE "multi"
NoItem == <<0, 0>>

-----------------------------------------------------------------------------
\* The tests run_profile hands to a pool: all of them to the one pool in use,
\* or each to its own.
WantedBySingle(q, i) == Concurrency = "some" /\ q = "single" => IsSerial(i)
WantedByMulti(q, i) == Concurrency = "some" /\ q = "multi" => ~IsSerial(i)
Wanted(q, i) == Concurrency = "some" => (q = "single" <=> IsSerial(i))

FirstPass == IF Concurrency = "none" THEN "single" ELSE "multi"
LastPass == IF Concurrency = "all" THEN "multi" ELSE "single"

Init ==
    /\ phase = "setup" /\ prof = 1 /\ next = 1
    /\ poolState = [q \in Pools |-> "running"]
    /\ queue = [q \in Pools |-> <<>>]
    /\ pc = [w \in Workers |-> "idle"]
    /\ item = [w \in Workers |-> NoItem]
    /\ abort = [p \in Profiles |-> FALSE]
    /\ complete = 0 /\ outcome = "none"
    /\ ran = [i \in Items |-> 0] /\ hit = {}
    /\ late = [q \in Pools |-> 0] /\ unwritten = {}

-----------------------------------------------------------------------------
\* The main thread.

Main(from, to) == outcome = "none" /\ phase = from /\ phase' = to

\* The finally clause prints the summary, and the exception goes on.
Raise == outcome' = "raised" /\ UNCHANGED <<phase, next>>

\* profile.setup(), then the first call of run_threads.
Setup ==
    /\ outcome = "none" /\ phase = "setup" /\ prof \in Profiles
    /\ \/ phase' = FirstPass /\ next' = 1 /\ UNCHANGED outcome
       \/ "setup" \in Faults /\ Raise
    /\ UNCHANGED <<prof, poolVars, abort, complete, history>>

PassOver == next = Len(Plan[prof]) + 1

Skip ==
    /\ outcome = "none" /\ phase \in Pools /\ ~PassOver
    /\ ~Wanted(phase, <<prof, next>>)
    /\ next' = next + 1
    /\ UNCHANGED <<phase, prof, poolVars, abort, complete, outcome, history>>

\* pool.apply_async: it refuses a pool that was terminated.
Submit ==
    /\ outcome = "none" /\ phase \in Pools /\ ~PassOver
    /\ Wanted(phase, <<prof, next>>)
    /\ \/ /\ poolState[phase] = "running"
          /\ queue' = [queue EXCEPT ![phase] = Append(@, <<prof, next>>)]
          /\ next' = next + 1
          /\ UNCHANGED <<phase, outcome>>
       \/ poolState[phase] # "running" /\ Raise /\ UNCHANGED queue
    /\ UNCHANGED <<prof, poolState, pc, item, abort, complete, history>>

SecondPass ==
    /\ Concurrency = "some"
    /\ Main("multi", "single") /\ PassOver
    /\ next' = 1
    /\ UNCHANGED <<prof, poolVars, abort, complete, outcome, history>>

Teardown ==
    /\ Main(LastPass, "setup") /\ PassOver
    /\ prof' = prof + 1
    /\ UNCHANGED <<next, poolVars, abort, complete, outcome, history>>

\* pool.close(); a terminated pool stays terminated.
Closed(s) == IF s = "running" THEN "closed" ELSE s

CloseSingle ==
    /\ Main("setup", "joinSingle") /\ prof \notin Profiles
    /\ poolState' = [poolState EXCEPT !["single"] = Closed(@)]
    /\ UNCHANGED <<prof, next, queue, pc, item, abort, complete, outcome, history>>

\* pool.join() returns when the queue is empty and every thread has left.
QueueEmpty(q) == queue[q] = <<>>
CountReached(q) == complete = Cardinality(Items)
Drained(q) == queue[q] = <<>> /\ \A w \in Workers : PoolOf(w) = q => pc[w] = "idle"

CloseMulti ==
    /\ Main("joinSingle", "joinMulti") /\ Drained("single")
    /\ poolState' = [poolState EXCEPT !["multi"] = Closed(@)]
    /\ UNCHANGED <<prof, next, queue, pc, item, abort, complete, outcome, history>>

\* The summary is printed and the monitors are asked.
Finish ==
    /\ Main("joinMulti", "over") /\ Drained("multi")
    /\ outcome' = IF \E p \in Profiles : abort[p] THEN "aborted" ELSE "returned"
    /\ UNCHANGED <<prof, next, poolVars, abort, complete, history>>

-----------------------------------------------------------------------------
\* A thread of a pool: test() of profile.run.

At(w, where) == outcome = "none" /\ pc[w] = where

\* The next item of its pool's queue, late when the pool was terminated.
Fetch(w) ==
    LET q == PoolOf(w)
    IN  /\ At(w, "idle") /\ queue[q] # <<>>
        /\ queue' = [queue EXCEPT ![q] = Tail(@)]
        /\ late' = [late EXCEPT ![q] = IF poolState[q] = "terminated" THEN @ + 1 ELSE @]
        /\ UNCHANGED <<mainVars, poolState, abort, complete, outcome, ran, hit>>

\* It takes an item and puts down the placeholder.
Take(w) ==
    /\ Fetch(w)
    /\ pc' = [pc EXCEPT ![w] = "began"]
    /\ item' = [item EXCEPT ![w] = Head(queue[PoolOf(w)])]
    /\ UNCHANGED unwritten

\* The write of the placeholder raises: execute() is never called, and the pool
\* keeps the exception in the result of apply_async that nobody asks for.
TakeFails(w) ==
    /\ "write" \in Faults
    /\ Fetch(w)
    /\ unwritten' = unwritten \cup {Head(queue[PoolOf(w)])}
    /\ UNCHANGED <<pc, item>>

\* log.start and the command.
Run(w) ==
    /\ At(w, "began") /\ ~IsDummy(item[w])
    /\ pc' = [pc EXCEPT ![w] = "running"]
    /\ ran' = [ran EXCEPT ![item[w]] = @ + 1]
    /\ UNCHANGED <<mainVars, poolState, queue, item, abort, complete, outcome,
                   hit, late, unwritten>>

\* DummyTest.execute does nothing: nothing is logged, and no monitor asked.
RunDummy(w) ==
    /\ At(w, "began") /\ IsDummy(item[w])
    /\ pc' = [pc EXCEPT ![w] = "logged"]
    /\ ran' = [ran EXCEPT ![item[w]] = @ + 1]
    /\ UNCHANGED <<mainVars, poolState, queue, item, abort, complete, outcome,
                   hit, late, unwritten>>

\* check_monitoring: what it finds now replaces what it found before.
SetAbort(old, found) == found

Check(w) ==
    /\ At(w, "running")
    /\ pc' = [pc EXCEPT ![w] = "checked"]
    /\ \E found \in IF Monitored THEN BOOLEAN ELSE {FALSE} :
         /\ abort' = [abort EXCEPT ![item[w][1]] = IF Monitored THEN SetAbort(@, found) ELSE @]
         /\ hit' = IF found THEN hit \cup {item[w]} ELSE hit
    /\ UNCHANGED <<mainVars, poolState, queue, item, complete, outcome,
                   ran, late, unwritten>>

\* log.log counts the test even when it then refuses the status.
Log(w) ==
    /\ At(w, "checked")
    /\ complete' = complete + 1
    /\ \/ pc' = [pc EXCEPT ![w] = "logged"] /\ UNCHANGED item
       \/ /\ "raise" \in Faults
          /\ pc' = [pc EXCEPT ![w] = "idle"]
          /\ item' = [item EXCEPT ![w] = NoItem]
    /\ UNCHANGED <<mainVars, poolState, queue, abort, outcome, history>>

\* terminate() leaves at most the one task that the pool's feeding thread had
\* already checked out of its own queue.
NotDrained(s) == {s}
Leftover(s) == {<<>>} \cup {<<s[n]>> : n \in DOMAIN s}

\* The result is written, and the monitor asked whether to go on.
EndTest(w) ==
    LET q == PoolOf(w)
    IN  /\ At(w, "logged")
        /\ pc' = [pc EXCEPT ![w] = "idle"]
        /\ item' = [item EXCEPT ![w] = NoItem]
        /\ IF abort[item[w][1]]
           THEN /\ poolState' = [poolState EXCEPT ![q] = "terminated"]
                /\ \E s \in Leftover(queue[q]) : queue' = [queue EXCEPT ![q] = s]
           ELSE UNCHANGED <<poolState, queue>>
        /\ UNCHANGED <<mainVars, abort, complete, outcome, history>>

\* The write of the result raises: the monitor is not asked.
WriteFails(w) ==
    /\ "write" \in Faults
    /\ At(w, "logged")
    /\ pc' = [pc EXCEPT ![w] = "idle"]
    /\ item' = [item EXCEPT ![w] = NoItem]
    /\ UNCHANGED <<mainVars, poolState, queue, abort, complete, outcome, history>>

-----------------------------------------------------------------------------
Worker(w) ==
    \/ Take(w) \/ TakeFails(w) \/ Run(w) \/ RunDummy(w) \/ Check(w) \/ Log(w)
    \/ EndTest(w) \/ WriteFails(w)

MainThread ==
    Setup \/ Skip \/ Submit \/ SecondPass \/ Teardown \/ CloseSingle \/ CloseMulti \/ Finish

Next == MainThread \/ \E w \in Workers : Worker(w)

Spec == Init /\ [][Next]_vars

\* Every thread is scheduled, and every test ends (Test.timeout).
Fairness == WF_vars(MainThread) /\ \A w \in Workers : WF_vars(Worker(w))

FairSpec == Spec /\ Fairness

-----------------------------------------------------------------------------
(***************************************************************************)
(* Properties.                                                             *)
(***************************************************************************)

PCs == {"idle", "began", "running", "checked", "logged"}

\* Type correctness; the count of the log never exceeds the number of tests it
\* was created for.
TypeOK ==
    /\ phase \in {"setup", "multi", "single", "joinSingle", "joinMulti", "over"}
    /\ prof \in 1 .. Len(Plan) + 1
    /\ next \in Nat \ {0}
    /\ poolState \in [Pools -> {"running", "closed", "terminated"}]
    /\ queue \in [Pools -> Seq(Items)]
    /\ pc \in [Workers -> PCs]
    /\ item \in [Workers -> Items \cup {NoItem}]
    /\ abort \in [Profiles -> BOOLEAN]
    /\ complete \in 0 .. Cardinality(Items)
    /\ outcome \in {"none", "returned", "aborted", "raised"}
    /\ ran \in [Items -> 0 .. 1]
    /\ hit \subseteq Items
    /\ late \in [Pools -> Nat]
    /\ unwritten \subseteq Items

\* The inductive invariant. An item goes to one pool, its home, and has been
\* handed to it once run_profile is past it.
Home(i) ==
    IF Concurrency # "some" THEN FirstPass
    ELSE IF IsSerial(i) THEN "single" ELSE "multi"

Handed(i) ==
    \/ i[1] < prof
    \/ i[1] = prof /\ phase = Home(i) /\ i[2] < next
    \/ i[1] = prof /\ phase = "single" /\ Home(i) = "multi"

Waits(q, i) == \E n \in 1 .. Len(queue[q]) : queue[q][n] = i
Busy(w) == pc[w] # "idle"

Places ==
    /\ phase \in Pools => /\ prof \in Profiles
                          /\ next \in 1 .. Len(Plan[prof]) + 1
                          /\ phase = "single" => Concurrency # "all"
                          /\ phase = "multi" => Concurrency # "none"
    /\ phase \in {"joinSingle", "joinMulti", "over"} => prof = Len(Plan) + 1
    /\ phase \in {"joinMulti", "over"} => Drained("single")
    /\ phase = "over" => Drained("multi")
    /\ outcome \in {"returned", "aborted"} => phase = "over"

WaitsOnce ==
    \A q \in Pools :
        /\ \A i \in Items : Waits(q, i) => /\ Handed(i) /\ Home(i) = q
                                           /\ ran[i] = 0 /\ i \notin unwritten
        /\ \A m, n \in 1 .. Len(queue[q]) : queue[q][m] = queue[q][n] => m = n

HeldOnce ==
    /\ \A w \in Workers :
         Busy(w) => LET i == item[w]
                    IN  /\ i \in Items /\ Handed(i) /\ Home(i) = PoolOf(w)
                        /\ ran[i] = IF pc[w] = "began" THEN 0 ELSE 1
                        /\ ~Waits(PoolOf(w), i) /\ i \notin unwritten
                        /\ IsDummy(i) => pc[w] \in {"began", "logged"}
    /\ \A v, w \in Workers : Busy(v) /\ Busy(w) /\ item[v] = item[w] => v = w

RanWasHanded ==
    \A i \in Items : /\ ran[i] # 0 => Handed(i) /\ i \notin unwritten
                     /\ i \in unwritten => Handed(i)

\* Only monitoring and a placeholder that cannot be written lose an item.
NoneLost ==
    ~Monitored =>
        /\ \A p \in Profiles : ~abort[p]
        /\ \A i \in Items :
             Handed(i) /\ ran[i] = 0 /\ i \notin unwritten
                 => Waits(Home(i), i) \/ \E w \in Workers : pc[w] = "began" /\ item[w] = i

\* The log has counted the items that ran, are no dummies and are past log.log.
Counted ==
    {i \in Items : ran[i] # 0 /\ ~IsDummy(i) /\ \A w \in Workers :
                       item[w] = i => pc[w] \notin {"running", "checked"}}

Terminated ==
    \A q \in Pools : IF poolState[q] = "terminated"
                     THEN late[q] + Len(queue[q]) <= 1 ELSE late[q] = 0

Reasons == \A p \in Profiles : abort[p] => hit # {}

PoolInvariant ==
    /\ Places /\ WaitsOnce /\ HeldOnce /\ RanWasHanded /\ NoneLost
    /\ complete = Cardinality(Counted) /\ Terminated /\ Reasons
    /\ outcome = "aborted" => hit # {}

Executing(w) == pc[w] = "running"

\* A test that is not safe to run beside its kind never does: of the tests
\* with run_concurrent = False at most one is being executed.
SerialAlone ==
    Concurrency # "all" =>
        \A v, w \in Workers :
            Executing(v) /\ Executing(w) /\ IsSerial(item[v]) /\ IsSerial(item[w])
                => v = w

\* When run() returns, every test that every profile yields was tried once: it
\* was executed exactly once, or its placeholder could not be written and it was
\* not executed at all - no pass of run_threads repeats or drops one, and join()
\* waited for the last.  (What becomes of a monitored run is MatchAborts.)
ReturnedRanAll ==
    ~Monitored /\ outcome = "returned" =>
        \A i \in Items : ran[i] = IF i \in unwritten THEN 0 ELSE 1

\* ... and the log has counted exactly the tests that were executed and call it:
\* its count misses its total by the dummies and by the placeholders that could
\* not be written, and by nothing else.
ReturnedCountedAll ==
    ~Monitored /\ outcome = "returned" =>
        complete = Cardinality({i \in Items : i \notin unwritten /\ ~IsDummy(i)})

\* Once a thread has terminated its pool, at most one more test starts.
TerminateStops == \A q \in Pools : late[q] <= 1

\* run() does not end in PiglitAbort without a rule that matched.
AbortHasReason == outcome = "aborted" => hit # {}

\* A rule that matched ends the run by PiglitAbort, whose exit code is 3: run()
\* neither returns as if nothing had been found nor ends in another exception.
MatchAborts == hit # {} => outcome \in {"none", "aborted"}

\* run() ends, whatever tests raise and monitors find.
RunEnds == <>(outcome # "none")
=============================================================================
