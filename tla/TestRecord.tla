----------------------------- MODULE TestRecord -----------------------------
(***************************************************************************)
(* What the results directory promises, whatever files implement it: one   *)
(* record per test that only ever moves forward, and a report, present or  *)
(* not, that was a snapshot of the records when it was published.          *)
(***************************************************************************)
CONSTANT Tests

VARIABLES
    rec,      \* test -> what can be known of it
    report    \* the report: test -> status; NoReport when there is none

Status == {"none", "incomplete", "done"}
NoReport == [t \in Tests |-> "none"]

Init == rec = NoReport /\ report = NoReport

\* write_test puts the placeholder down.
Begin(t) ==
    /\ rec[t] = "none"
    /\ rec' = [rec EXCEPT ![t] = "incomplete"]
    /\ UNCHANGED report

\* finish() replaces it by the result.
Finish(t) ==
    /\ rec[t] = "incomplete"
    /\ rec' = [rec EXCEPT ![t] = "done"]
    /\ UNCHANGED report

Publish == report' = rec /\ UNCHANGED rec

\* Another finalize over the same records is on its way.
Retract == report' = NoReport /\ UNCHANGED rec

Next ==
    \/ \E t \in Tests : Begin(t) \/ Finish(t)
    \/ Publish \/ Retract

Spec == Init /\ [][Next]_<<rec, report>>

\* Type correctness of the records and of the report.
TypeOK == rec \in [Tests -> Status] /\ report \in [Tests -> Status]
=============================================================================
