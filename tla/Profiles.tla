-------------------------------- MODULE Profiles --------------------------------
(* framework/profile.py and the part of framework/programs/run.py that builds   *)
(* profiles: from the name of a profile and the options of "piglit run" to the  *)
(* tests that run, and, when the run was killed, from its results to the tests  *)
(* that "piglit resume" runs. A regular expression is the set of names it       *)
(* matches. The tests a profile yields are a function from places to tests,     *)
(* whose order means nothing: threads take the tests in any. Not modelled:      *)
(* absolute file names, the fields of a test element.                           *)
EXTENDS Integers, FiniteSets, SequencesExt

CONSTANTS Parts,        \* the names of the tests, one set for each profile a meta profile names
          Lower,        \* the lower-case form of each name a test list can hold
          CommandLines \* command lines, with the files that exist below tests/

\* A profile has a file, each a list of finitely many tests; a test list is a file too.
ASSUME PartsAssumption ==
    /\ Len(Parts) \in Nat \ {0} /\ DOMAIN Parts = 1..Len(Parts)
    /\ \A i \in DOMAIN Parts : IsFiniteSet(Parts[i])
ASSUME ListsAssumption == \A c \in CommandLines : IsFiniteSet(ToSet(c.forced))

VARIABLES command, \* what was asked for, and of which files
          todo,    \* the tests of the session that have not run
          results, \* the statuses recorded, by name
          total,   \* the total the log was made with
          first,   \* the tests of the run
          picked,  \* the tests of the session
          before,  \* the results when the run was killed
          stage    \* "new", "running", "killed", "resumed", "done", "crashed"
profileVars == <<command, todo, results, total, first, picked, before, stage>>

(* load_test_profile: without process isolation a name is tried with            *)
(* ".no_isolation" in front of its extension first; the call never comes back   *)
(* if it has one, since the extension stays in front of which it is put.        *)
Existing(files) == IF "meta" \in files THEN "meta" ELSE IF "xml" \in files THEN "xml"
                   ELSE IF "py" \in files THEN "python" ELSE "no such profile"
LoadTestProfile(files, ext, isolation) ==
    IF ext = ".no_isolation" THEN IF "isolated" \in files THEN "xml" ELSE "no such profile"
    ELSE IF isolation THEN Existing(files)
    ELSE IF ext # "" THEN "endless recursion"
    ELSE IF "isolated" \in files THEN "xml" ELSE Existing(files)

(* RegexFilter and Filters.run *)
RegexFilter(given, matches, inverse) == [given |-> given, matches |-> matches, inverse |-> inverse]
Lets(f, n) == ~f.given \/ ((n \in f.matches) # f.inverse)
Filter(filters, tests) == Restrict(tests, {i \in DOMAIN tests : \A f \in filters : Lets(f, tests[i].name)})
Test(n) == [name |-> n, dummy |-> FALSE]
DummyTest(n) == [name |-> n, dummy |-> TRUE]

(* itertests of the three kinds of profile. A profile of Python code looks the  *)
(* forced tests up (in lower case) and filters them; a profile read from XML    *)
(* filters its tests and looks the forced ones up in what is left.              *)
NamesIn(tests) == {tests[i].name : i \in DOMAIN tests}
Yielded(tests) == [ok |-> TRUE, tests |-> tests]
KeyError == [ok |-> FALSE, tests |-> <<>>]
Forced(list, known, p) ==
    IF p.ignore_missing \/ \A n \in ToSet(list) : known[n]
    THEN Yielded([n \in ToSet(list) |-> IF known[n] THEN Test(n) ELSE DummyTest(n)])
    ELSE KeyError
\* test_list, and the tests of the XML files, of which two may have one of a name.
TestList(p) == UNION ToSet(p.parts)
InFiles(p) == UNION {{i} \X p.parts[i] : i \in DOMAIN p.parts}
IterPython(p) ==
    IF p.forced # <<>>
    THEN LET y == Forced(p.forced, [n \in ToSet(p.forced) |-> Lower[n] \in TestList(p)], p)
         IN  [y EXCEPT !.tests = Filter(p.filters, @)]
    ELSE Yielded(Filter(p.filters, [n \in TestList(p) |-> Test(n)]))
IterXML(p) ==
    LET left == Filter(p.filters, [place \in InFiles(p) |-> Test(place[2])])
    IN  IF p.forced = <<>> THEN Yielded(left)
        ELSE Forced(p.forced, [n \in ToSet(p.forced) |-> n \in NamesIn(left)], p)
Itertests(p) == IF p.kind = "python" THEN IterPython(p) ELSE IterXML(p)

\* __len__: an XML file says how many tests it has, which is asked only when
\* there are neither filters nor forced tests.
Length(p) ==
    IF p.kind # "python" /\ p.filters = {} /\ p.forced = <<>> THEN Cardinality(InFiles(p))
    ELSE Cardinality(DOMAIN Itertests(p).tests)
--------------------------------------------------------------------------------
\* Sections of run() and resume() that make the profiles.
Filters(c) ==
    {RegexFilter(TRUE, c.exclude, TRUE) : x \in {y \in {1} : c.exclude # {}}}
    \cup {RegexFilter(TRUE, c.include, FALSE) : x \in {y \in {1} : c.include # {}}}
ProfileOf(c, names) ==
    LET kind == LoadTestProfile(c.files, c.ext, c.isolation)
    IN  [kind |-> kind, parts |-> IF kind = "xml" THEN <<Parts[1]>> ELSE Parts,
         forced |-> c.forced, ignore_missing |-> c.ignore_missing,
         filters |-> Filters(c) \cup (IF names = {} THEN {} ELSE {RegexFilter(TRUE, names, TRUE)})]
Loads(c) == LoadTestProfile(c.files, c.ext, c.isolation) \in {"meta", "xml", "python"}
NotComplete(no_retry) == {n \in DOMAIN results : results[n] = "incomplete"}
ExcludedTests(no_retry) == {n \in DOMAIN results : no_retry \/ results[n] # "incomplete"}

Start(p, next) ==
    LET y == Itertests(p)
    IN  /\ todo' = y.tests
        /\ picked' = NamesIn(y.tests)
        /\ total' = Length(p)
        /\ stage' = IF y.ok THEN next ELSE "crashed"

ProfilesInit == /\ command \in CommandLines
                /\ todo = <<>> /\ results = <<>> /\ total = 0 /\ first = {} /\ picked = {} /\ before = <<>> /\ stage = "new"

Run ==
    /\ stage = "new" /\ Loads(command)
    /\ Start(ProfileOf(command, {}), "running")
    /\ first' = picked'
    /\ UNCHANGED <<command, results, before>>
NotLoaded ==
    /\ stage = "new" /\ ~Loads(command)
    /\ stage' = "crashed"
    /\ UNCHANGED <<command, todo, results, total, first, picked, before>>

\* A test ends; a dummy is not run, and its "notrun" is written.
EndTest(i) ==
    /\ stage \in {"running", "resumed"}
    /\ results' = (todo[i].name :> IF todo[i].dummy THEN "notrun" ELSE "complete") @@ results
    /\ todo' = Restrict(todo, DOMAIN todo \ {i})
    /\ UNCHANGED <<command, total, first, picked, before, stage>>

\* The run is killed while the tests of some have begun.
KillRun ==
    /\ stage = "running"
    /\ \E begun \in SUBSET NamesIn(todo) :
          results' = [n \in begun |-> "incomplete"] @@ results
    /\ before' = results'
    /\ stage' = "killed"
    /\ UNCHANGED <<command, todo, total, first, picked>>

Resume(no_retry) ==
    /\ stage = "killed"
    /\ Start(ProfileOf(command, ExcludedTests(no_retry)), "resumed")
    /\ UNCHANGED <<command, results, first, before>>

Finish ==
    /\ stage \in {"running", "resumed"} /\ DOMAIN todo = {}
    /\ stage' = "done"
    /\ UNCHANGED <<command, todo, results, total, first, picked, before>>

ProfilesNext ==
    \/ Run \/ NotLoaded \/ KillRun \/ Finish
    \/ \E i \in DOMAIN todo : EndTest(i)
    \/ \E no_retry \in BOOLEAN : Resume(no_retry)
ProfilesSpec == ProfilesInit /\ [][ProfilesNext]_profileVars
--------------------------------------------------------------------------------
\* "Don't re-run tests that have already completed" (run.py, resume): the resume
\* of a run comes to its tests, of which it takes those that had not completed
\* or, without retrying, those that had not begun; and the log of a session
\* counts towards no fewer tests than the profile yields.
ResumeRunsTheRest ==
    LET completed == {n \in DOMAIN before : before[n] # "incomplete"}
    IN  /\ stage = "running" => picked = first
        /\ stage = "resumed" => picked \in {first \ completed, first \ DOMAIN before}
        /\ stage \in {"running", "resumed"} => total >= Cardinality(picked)
        /\ stage = "crashed" => first = {}
================================================================================
