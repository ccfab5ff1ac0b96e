------------------------------ MODULE TestResults ------------------------------
(***************************************************************************)
(* framework/results.py: a TestResult (the stored result, the subtests in  *)
(* the order they were first set, the return code) and the totals that a   *)
(* TestrunResult counts for every group.  Group names are sequences of     *)
(* elements, the text between two separators of grouptools.py.             *)
(***************************************************************************)
EXTENDS Statuses, FiniteSets

(* None: no process returns it (0..255, or a negated signal). *)
NoCode == 1000

(* Subtests: an ordered dict, here a sequence of [name, status]. *)
SetSubtest(subs, name, s) ==
    IF \E i \in DOMAIN subs : subs[i].name = name
    THEN [i \in DOMAIN subs |-> IF subs[i].name = name THEN [name |-> name, status |-> s]
                                                       ELSE subs[i]]
    ELSE Append(subs, [name |-> name, status |-> s])

SetAll(subs, s) == [i \in DOMAIN subs |-> [subs[i] EXCEPT !.status = s]]

StatusesOf(subs) == [i \in DOMAIN subs |-> subs[i].status]

(* TestResult.result: the worst subtest, except after a crash. *)
ResultOf(r) == IF r.subtests # <<>> /\ r.raw # "crash"
               THEN Worst(StatusesOf(r.subtests)) ELSE r.raw

(* tests[name] = result in a TestrunResult. *)
Entered(tests, n, r) == [m \in DOMAIN tests \cup {n} |-> IF m = n THEN r ELSE tests[m]]

(* grouptools: groupname drops the last element, join and splitname are    *)
(* inverse on names without empty elements.                                *)
GroupName(g) == IF g = <<>> THEN <<>> ELSE Front(g)

(* What one test adds to the totals: one count per subtest, or one. *)
Contributions(r) == IF r.subtests # <<>> THEN StatusesOf(r.subtests) ELSE <<ResultOf(r)>>

(* calculate_group_totals over tests, a function from names to results:    *)
(* the number of statuses s in the root group.                             *)
Occurrences(seq, s) == Cardinality({i \in DOMAIN seq : seq[i] = s})
SumOver(f, names) == FoldSet(LAMBDA n, sum : sum + f[n], 0, names)
RootTotal(tests, s) ==
    SumOver([n \in DOMAIN tests |-> Occurrences(Contributions(tests[n]), s)], DOMAIN tests)

(* get_result: a test of that name, else the subtest its last element      *)
(* names; Missing stands for the KeyError.                                 *)
Missing == "missing"
GetResult(tests, key) ==
    IF key \in DOMAIN tests THEN ResultOf(tests[key])
    ELSE LET name == GroupName(key)
             hits == IF key # <<>> /\ name \in DOMAIN tests
                     THEN {i \in DOMAIN tests[name].subtests :
                               tests[name].subtests[i].name = Last(key)} ELSE {}
         IN IF hits = {} THEN Missing
            ELSE tests[name].subtests[CHOOSE i \in hits : TRUE].status

===============================================================================
