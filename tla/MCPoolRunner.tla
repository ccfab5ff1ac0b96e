---------------------------- MODULE MCPoolRunner ----------------------------
(***************************************************************************)
(* Instances of PoolRunner for TLC.                                        *)
(***************************************************************************)
EXTENDS PoolRunner

CONSTANTS t1, t2, t3, t4, m1, m2, s1

MCTests == {t1, t2, t3, t4}

\* Two profiles that share a test: it is run for each of them.
MCPlan == <<<<t1, t3, t2>>, <<t4, t1>>>>

\* A profile long enough for tests to wait in the queue, and a second one.
MCLongPlan == <<<<t1, t2, t3>>, <<t4>>>>

\* t2 stands for a name of the test list that the profile does not have.
MCSerial == {t1, t2}
MCDummies == {t2}

MCTwoWorkers == {m1, m2}
=============================================================================
