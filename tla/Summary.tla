-------------------------------- MODULE Summary --------------------------------
(* framework/summary: the names a comparison of results files puts on its pages *)
(* (common.py), the columns of the console summary and the feature readiness    *)
(* page. The state is the list of results files, each grown test by test; what  *)
(* the summaries compute of it are operators. Not modelled: text and HTML.      *)
EXTENDS TestResults

CONSTANTS Files,    \* the number of results files compared
          TestNames,
          Outcomes  \* the results a test can have: [raw, subtests, code]

\* No test has the name of a subtest, and the subtests of a test are a dict.
ASSUME SummaryAssumption ==
    /\ Files \in Nat /\ TestNames \subseteq Seq(STRING)
    /\ \A r \in Outcomes : /\ r.raw \in ALL /\ r.subtests \in Seq([name : STRING, status : ALL])
                           /\ \A i, j \in DOMAIN r.subtests : r.subtests[i].name = r.subtests[j].name => i = j
                           /\ \A m, n \in TestNames : \A k \in DOMAIN r.subtests : m # n \o <<r.subtests[k].name>>

VARIABLE compared  \* a sequence of results files: from test names to results

(* Names.all: the tests, those with subtests replaced by the subtests. *)
NamesOfRun(res) ==
    UNION {IF res[n].subtests = <<>> THEN {n} ELSE {n \o <<x.name>> : x \in ToSet(res[n].subtests)} : n \in DOMAIN res}
AllNames == UNION {NamesOfRun(compared[i]) : i \in DOMAIN compared}

Shown(res, n) == IF GetResult(res, n) = Missing THEN "notrun" ELSE GetResult(res, n)
HasTest(res, n) == GetResult(res, n) # Missing

(* find_diffs and find_single: a test one of the results does not have raises   *)
(* KeyError, which goes to the handler of the page.                             *)
Comparable(prev, cur) == {n \in AllNames : HasTest(prev, n) /\ HasTest(cur, n)}
FindDiff(Comparator(_, _), Handler(_, _, _), prev, cur) ==
    {n \in Comparable(prev, cur) : Comparator(GetResult(prev, n), GetResult(cur, n))}
    \cup {n \in AllNames \ Comparable(prev, cur) : Handler(n, prev, cur)}
Present(res) == {n \in AllNames : HasTest(res, n)}
FindSingle(Func(_), res) == {n \in Present(res) : Func(GetResult(res, n))}
NoHandler(n, prev, cur) == FALSE

WorseOrSkipped(x, y) == Less(x, y)
WorseIn(x, y) == Less(x, y) /\ AtLeast(Best(<<x, y>>), "pass")
BetterIn(x, y) == Greater(x, y) /\ AtLeast(Best(<<x, y>>), "pass")
Differs(x, y) == ~Equal(x, y)
ChangesHandler(n, prev, cur) ==
    ~Equal(Shown(cur, n), Shown(prev, n)) /\ {Shown(cur, n), Shown(prev, n)} # {"skip", "notrun"}

Changes(prev, cur) == FindDiff(Differs, ChangesHandler, prev, cur)
Regressions(prev, cur) == FindDiff(WorseIn, NoHandler, prev, cur)
Fixes(prev, cur) == FindDiff(BetterIn, NoHandler, prev, cur)
Enabled(prev, cur) ==
    FindDiff(LAMBDA x, y : x = "notrun" /\ y # "notrun", LAMBDA n, p, c : HasTest(c, n) /\ ~HasTest(p, n), prev, cur)
Disabled(prev, cur) ==
    FindDiff(LAMBDA x, y : x # "notrun" /\ y = "notrun", LAMBDA n, p, c : HasTest(p, n) /\ ~HasTest(c, n), prev, cur)
Problems(res) == FindSingle(LAMBDA x : Greater(x, "pass"), res)
Skips(res) == FindSingle(LAMBDA x : x = "skip", res)
Incomplete(res) == FindSingle(LAMBDA x : x = "incomplete", res)

(* The lists and unions of Names, and Counts. There is no diff for the first.   *)
Pairs == [i \in 1..(Len(compared) - 1) |-> <<compared[i], compared[i + 1]>>]
Diffs(Page(_, _)) == <<{}>> \o [i \in DOMAIN Pairs |-> Page(Pairs[i][1], Pairs[i][2])]
Counts(sets) == [i \in DOMAIN sets |-> Cardinality(sets[i])]
AllOf(sets) == UNION ToSet(sets)

(* The lines of _print_summary, a column for each results file. *)
PrintSummary ==
    [i \in DOMAIN compared |->
        [total |-> FoldSet(LAMBDA s, sum : sum + RootTotal(compared[i], s), 0, ALL),
         statuses |-> [s \in ALL |-> RootTotal(compared[i], s)],
         changes |-> Counts(Diffs(Changes))[i],
         fixes |-> Counts(Diffs(Fixes))[i],
         regressions |-> Counts(Diffs(Regressions))[i]]]

(* FeatResults: the tests of a feature in one results file, and its status.     *)
FeatFraction(res, selected) ==
    LET common == selected \cap DOMAIN res
    IN  [passed |-> Cardinality({n \in common : Equal(ResultOf(res[n]), "pass")}), total |-> Cardinality(common)]
FeatStatus(f, target_rate) ==
    IF f.total = 0 THEN "notrun"
    ELSE IF (100 * f.passed) \div f.total >= target_rate THEN "pass" ELSE "fail"
--------------------------------------------------------------------------------
SummaryInit == compared = [i \in 1..Files |-> <<>>]
AddTest(i, n, r) ==
    /\ n \notin DOMAIN compared[i]
    /\ compared' = [compared EXCEPT ![i] = Entered(@, n, r)]
SummaryNext == \E i \in 1..Files, n \in TestNames, r \in Outcomes : AddTest(i, n, r)
SummarySpec == SummaryInit /\ [][SummaryNext]_compared
--------------------------------------------------------------------------------
\* The pages of a comparison tell one story. What is a regression one way round
\* is a fix the other way round, what is enabled is disabled; a name is on at
\* most one of those pages, and always among the changes unless it went between
\* skip and notrun; every change is on one of them or is a change from or to a
\* test that was skipped; a feature all of whose tests pass has no problems; and
\* the status columns count each name of a file once.
PagesAgree ==
    \A i, j \in DOMAIN compared : LET p == compared[i]  c == compared[j] IN
        /\ Regressions(p, c) = Fixes(c, p)
        /\ Enabled(p, c) = Disabled(c, p)
        /\ \A n \in AllNames :
              LET pages == {k \in {1, 2, 3, 4} :
                     n \in <<Regressions(p, c), Fixes(p, c), Enabled(p, c), Disabled(p, c)>>[k]}
                  quiet == {Shown(p, n), Shown(c, n)} \subseteq {"skip", "notrun"}
              IN  /\ Cardinality(pages) <= 1
                  /\ pages # {} => n \in Changes(p, c) \/ quiet
                  /\ n \in Changes(p, c) => pages # {} \/ {Shown(p, n), Shown(c, n)} \cap NoChange # {}
        /\ FeatStatus(FeatFraction(p, DOMAIN p), 100) = "pass" => Problems(p) = {}
        /\ Incomplete(p) \subseteq Problems(p) /\ Skips(p) \cap Problems(p) = {}
        /\ AllOf(Diffs(Regressions)) \cup AllOf(Diffs(Fixes)) \subseteq AllOf(Diffs(Changes))
        /\ \A s \in ALL : PrintSummary[i].statuses[s] = Cardinality({n \in NamesOfRun(p) : GetResult(p, n) = s})

\* "that's if the status is crash; since this status is set by the framework, and
\* can be generated even when some or all unit tests pass" (TestResult.result):
\* a test that crashed is on the page of problems, itself or one of its subtests.
CrashIsAProblem ==
    \A i \in DOMAIN compared : \A n \in DOMAIN compared[i] :
        ResultOf(compared[i][n]) = "crash" => \E name \in Problems(compared[i]) : IsPrefix(n, name)
================================================================================
