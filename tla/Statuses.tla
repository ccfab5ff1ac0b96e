------------------------------- MODULE Statuses -------------------------------
(***************************************************************************)
(* framework/status.py: the ten statuses and the comparisons Python makes  *)
(* of them.  A Status compares by its value, after the "counts toward the  *)
(* total" half of its fraction; the subclass NoChangeStatus (skip and      *)
(* notrun) redefines equality only.                                        *)
(***************************************************************************)
EXTENDS Integers, Sequences, SequencesExt

(* NoChangeStatus instances. *)
NoChange == {"skip", "notrun"}

Ranked == [pass |-> 0, warn |-> 10, dmesgwarn |-> 20, fail |-> 30, dmesgfail |-> 40,
           timeout |-> 50, crash |-> 60, incomplete |-> 100, skip |-> 0, notrun |-> 0]

ALL == DOMAIN Ranked

(* int(self), and the second half of the fraction. *)
Value(s) == Ranked[s]
Counted(s) == IF s \in NoChange THEN 0 ELSE 1

(* Status.__ge__ and Status.__gt__; __lt__ and __le__ are their negations. *)
GE(a, b) == \/ Counted(a) > Counted(b)
            \/ Counted(a) = Counted(b) /\ Value(a) >= Value(b)
GT(a, b) == Counted(a) > Counted(b) \/ Value(a) > Value(b)

(* Python asks the right operand first when its class is a proper subclass *)
(* of the left one's: a status against skip or notrun.                     *)
Reflected(a, b) == b \in NoChange /\ a \notin NoChange

Less(a, b)    == IF Reflected(a, b) THEN GT(b, a) ELSE ~GE(a, b)
Greater(a, b) == IF Reflected(a, b) THEN ~GE(b, a) ELSE GT(a, b)
AtMost(a, b)  == IF Reflected(a, b) THEN GE(b, a) ELSE ~GT(a, b)
AtLeast(a, b) == IF Reflected(a, b) THEN ~GT(b, a) ELSE GE(a, b)
Equal(a, b)   == IF {a, b} \cap NoChange # {} THEN a = b ELSE Value(a) = Value(b)

(* Python's max and min: the first of the extreme elements. *)
Worst(seq) == LET worst[n \in 1..Len(seq)] == IF n = 1 THEN seq[1]
                                             ELSE IF Greater(seq[n], worst[n - 1]) THEN seq[n]
                                             ELSE worst[n - 1]
              IN  worst[Len(seq)]
Best(seq)  == LET best[n \in 1..Len(seq)] == IF n = 1 THEN seq[1]
                                            ELSE IF Less(seq[n], best[n - 1]) THEN seq[n]
                                            ELSE best[n - 1]
              IN  best[Len(seq)]

===============================================================================
