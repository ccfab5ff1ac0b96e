--------------------------- MODULE MCTestExecution ---------------------------
(***************************************************************************)
(* Instances of TestExecution: a test with two subtests and a timeout, and *)
(* a test of any other class, two of which run a command again.            *)
(***************************************************************************)
EXTENDS TestExecution

CONSTANTS native, other

MCClasses == (native :> {"native", "valgrind"})
          @@ (other :> {"window", "deqp", "gtest", "oclconform", "xts", "rendercheck", "replayer"})
MCSubtests == (native :> <<[name |-> "a", status |-> "notrun"], [name |-> "b", status |-> "notrun"]>>)
              @@ (other :> <<>>)

Says(s) == [kind |-> "result", status |-> s]
Sub(n, s) == [kind |-> "subtest", name |-> n, status |-> s]
Text(w) == [kind |-> "text", word |-> w]
Run(c, ls) == [code |-> c, lines |-> ls, again |-> FALSE]

(* What each class takes for a pass, in its own words, and a failure too. *)
Passes == <<Says("pass"), Text("Pass"), Text("PASS"), Text("PASSED")>>
Fails == <<Text("FAIL"), Text("FAILED"), Text("fonts")>>

MCOutputs ==
    (native :> {Run(0, <<Says("pass")>>), Run(0, <<>>), Run(-11, <<Sub("a", "pass")>>),
                Run(-11, <<Sub("a", "pass"), Sub("b", "pass")>>),
                Run(0, <<Sub("a", "pass"), Sub("b", "pass"), [kind |-> "garbage"]>>),
                Run(1, <<Sub("a", "pass"), Sub("b", "pass")>>)})
 @@ (other :> {Run(0, Passes), Run(1, Passes), Run(0, <<>>), Run(77, Passes), Run(1, Passes \o Fails),
               Run(-11, Passes), [Run(0, Passes) EXCEPT !.again = TRUE]})
===============================================================================
