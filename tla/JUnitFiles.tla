------------------------------- MODULE JUnitFiles -------------------------------
(* framework/backends/junit.py: the element written for each test, with the     *)
(* failures and crashes that piglit.conf expects, and what loading the file     *)
(* makes of it. Names are sequences of elements. Not modelled: output, times.   *)
EXTENDS TestResults

CONSTANTS JunitEscape, \* of each element: '.' replaced, "api" and "search" given a '_'
          Stripped,    \* of each escaped element, a '_' at its end removed
          JUnitNames, JUnitOutcomes,
          Listed,      \* the names of tests and of subtests piglit.conf can list
          WithSubtests \* --junit-subtests

VARIABLES expected, \* of each listed name: "pass", "failure", "error" or "both"
          elements,    \* the elements in tests/: from names to sequences of elements
          recorded, \* the results that were written
          loaded    \* what loading results.xml gives, by name
junitVars == <<expected, elements, recorded, loaded>>

ASSUME JUnitAssumption ==
    \A r \in JUnitOutcomes : r.raw \in ALL /\ r.subtests \in Seq([name : STRING, status : ALL])

MakeNames(n) == [i \in DOMAIN n |-> JunitEscape[n[i]]]
FailLike == {"fail", "dmesgwarn", "dmesgfail"}
CrashLike == {"crash", "timeout"}

\* _make_result: the element below the testcase that says what went wrong.
MakeResultSkipFirst(result, want) ==
    IF result = "skip" THEN "skipped"
    ELSE IF result \in FailLike \cup {"incomplete"} THEN IF want = "failure" THEN "skipped" ELSE "failure"
    ELSE IF result \in CrashLike THEN IF want = "error" THEN "skipped" ELSE "error"
    ELSE IF want # "pass" THEN "failure" ELSE "none"
MakeResult(result, want) ==
    IF result = "incomplete" THEN "failure"
    ELSE IF result \in FailLike THEN IF want = "failure" THEN "skipped" ELSE "failure"
    ELSE IF result \in CrashLike THEN IF want = "error" THEN "skipped" ELSE "error"
    ELSE IF want # "pass" THEN "failure"
    ELSE IF result = "skip" THEN "skipped" ELSE "none"

ExpectedResult(n) == IF n \in Listed THEN expected[n] ELSE "pass"

\* JUnitWriter and JUnitSubtestWriter: a test with subtests becomes a testsuite,
\* in which an incomplete test leaves its subtests without a verdict.
Subcase(n, sub, complete) ==
    LET name == Append(n, sub.name)
    IN  [suite |-> TRUE, name |-> Append(MakeNames(n), sub.name), status |-> sub.status,
         child |-> IF complete THEN MakeResult(sub.status, ExpectedResult(name)) ELSE "none"]
Elements(n, r) ==
    IF WithSubtests /\ r.subtests # <<>>
    THEN [i \in DOMAIN r.subtests |-> Subcase(n, r.subtests[i], ResultOf(r) # "incomplete")]
    ELSE << [suite |-> FALSE, name |-> MakeNames(n), status |-> ResultOf(r),
             child |-> MakeResult(ResultOf(r), ExpectedResult(n))] >>

JUnitInit ==
    /\ expected \in [Listed -> {"pass", "failure", "error", "both"}]
    /\ elements = <<>> /\ recorded = <<>> /\ loaded = <<>>

\* A name listed as a failure and as a crash is refused by an assertion.
WriteTest(n, r) ==
    /\ n \notin DOMAIN recorded
    /\ \A name \in {n} \cup {Append(n, x.name) : x \in ToSet(r.subtests)} : ExpectedResult(name) # "both"
    /\ elements' = Entered(elements, n, Elements(n, r))
    /\ recorded' = Entered(recorded, n, r)
    /\ UNCHANGED <<expected, loaded>>

\* finalize joins the elements; _load takes the testcases of the first testsuite
\* and undoes the escape at the end of a name. Subtests are a level below.
LoadName(name) == [name EXCEPT ![Len(name)] = Stripped[@]]
\* No name is loaded as that of another test.
ASSUME NamesComeBack == \A m, n \in JUnitNames : LoadName(MakeNames(m)) = n => m = n
Finalize ==
    /\ recorded # <<>>
    /\ LET cases == {n \in DOMAIN elements : ~elements[n][1].suite}
       IN  loaded' = [name \in {LoadName(elements[n][1].name) : n \in cases} |->
                         elements[CHOOSE n \in cases : LoadName(elements[n][1].name) = name][1].status]
    /\ UNCHANGED <<expected, elements, recorded>>
JUnitNext == Finalize \/ \E n \in JUnitNames, r \in JUnitOutcomes : WriteTest(n, r)
JUnitSpec == JUnitInit /\ [][JUnitNext]_junitVars
--------------------------------------------------------------------------------
\* "These tests will be listed as passing in JUnit output when they fail. Any
\* unexpected result (pass/crash) will be listed as a failure" (piglit.conf): a
\* testcase is red when its test went wrong or when it did not go wrong in the
\* way it was expected to; and a test without subtests is loaded as it ended.
ExpectedIsGreen ==
    LET Red(e) == e.child \in {"failure", "error"}
        Wanted(n) == CASE ExpectedResult(n) = "failure" -> FailLike
                       [] ExpectedResult(n) = "error" -> CrashLike
                       [] OTHER -> {"pass", "warn", "skip", "notrun"}
    IN  \A n \in DOMAIN recorded :
            /\ \A i \in DOMAIN elements[n] :
                  LET e == elements[n][i]
                      name == IF e.suite THEN Append(n, recorded[n].subtests[i].name) ELSE n
                  IN  (e.suite => ResultOf(recorded[n]) # "incomplete") => (Red(e) <=> e.status \notin Wanted(name))
            /\ n \in DOMAIN loaded => loaded[n] = ResultOf(recorded[n])
================================================================================
