--------------------------- MODULE MCResultStore ---------------------------
(***************************************************************************)
(* Instances of ResultStore for TLC: three tests on two threads, or two    *)
(* tests on one or two.                                                    *)
(***************************************************************************)
EXTENDS ResultStore

CONSTANTS a, b, c, w1, w2

MCTests == {a, b, c}
MCProfile == <<a, b, c>>
MCTwo == {a, b}
MCTwoProfile == <<a, b>>

MCWorkers == {w1, w2}
=============================================================================
