-------------------------------- MODULE MCInputs --------------------------------
(* The inputs of the instances of the files piglit reads and writes.            *)
EXTENDS TestResults

(* Profiles: "B" is the test "b" as a list may write it; "c" is in no profile.  *)
MCProfileParts == <<{"a", "b"}, {"b", "d"}>>
MCLower == [n \in {"a", "b", "c", "d", "B"} |-> IF n = "B" THEN "b" ELSE n]
Command(files, forced, ignore, include, exclude) ==
    [files |-> files, ext |-> "", isolation |-> TRUE, forced |-> forced,
     ignore_missing |-> ignore, include |-> include, exclude |-> exclude]
Selections == {<<{}, {}>>, <<{"a", "d"}, {}>>, <<{}, {"b"}>>, <<{"a", "b"}, {"a"}>>}
TestLists == {<<"a", "b">>, <<"B", "a">>, <<"a", "c">>}
MCCommandLines ==
    {Command({f}, <<>>, FALSE, s[1], s[2]) : f \in {"meta", "xml", "py"}, s \in Selections}
    \cup {Command({"py"}, l, i, s[1], s[2]) : l \in TestLists, i \in BOOLEAN, s \in Selections}
    \cup {[Command({"xml", "py"}, <<>>, FALSE, {}, {}) EXCEPT !.ext = e, !.isolation = i, !.files = @ \cup x] :
             e \in {"", ".py", ".xml", ".no_isolation"}, i \in BOOLEAN, x \in {{}, {"isolated"}}}
MCListCommandLines == {Command({"xml"}, <<"a", "b">>, i, {}, {}) : i \in BOOLEAN}

(* Results: every status, and tests with one or two subtests. *)
Outcome(raw, subtests) == [raw |-> raw, subtests |-> subtests, code |-> NoCode]
Subtest(name, status) == [name |-> name, status |-> status]
Subs == {<<Subtest("s1", s)>> : s \in {"pass", "fail", "skip"}}
        \cup {<<Subtest("s1", s), Subtest("s2", t)>> : s, t \in {"pass", "skip", "notrun"}}
MCOutcomes == {Outcome(s, <<>>) : s \in ALL} \cup {Outcome(r, u) : r \in {"pass", "crash"}, u \in Subs}
MCJUnitOutcomes ==
    {Outcome(s, <<>>) : s \in ALL}
    \cup {Outcome("pass", <<Subtest("s1", s), Subtest("s2", "pass")>>) : s \in {"pass", "crash", "incomplete"}}
MCJUnitNames == {<<"g", "api">>, <<"g.h", "t">>}
MCEscape == [e \in {"g", "g.h", "t", "api"} |-> CASE e = "g.h" -> "g_h" [] e = "api" -> "api_" [] OTHER -> e]
MCStripped == [e \in {"g", "g_h", "t", "api_"} |-> IF e = "api_" THEN "api" ELSE e]
MCListed == {<<"g", "api">>, <<"g", "api", "s1">>}

(* Generated tests: a vector of three doubles and a matrix of three columns. *)
BasicType(u, c, r) == [kind |-> "basic", unit |-> u, cols |-> c, rows |-> r]
MCBasicTypes == {BasicType("double", 1, 3), BasicType("float", 3, 2)}
MCRequirements == {<<"row_major", "struct", "array", "array", "array">>, <<"#column_major", "struct", "array", "struct", "array">>,
                   <<"row_major", "array", "array", "array", "struct">>}

(* Built-in functions: with three bits, the bounds of uint and no INT_MIN, *)
(* which is not among the inputs.                                          *)
MCSamples == [b \in {"float", "double"} |-> <<-1, 0, 2>>] @@ [b \in {"int", "int64_t"} |-> <<-3, -1, 0, 2>>]
             @@ [b \in {"uint", "uint64_t"} |-> <<0, 3, 7>>] @@ ("bool" :> <<0, 1>>)

(* GL: commands in chains of aliases, one to a name that is no command; enums   *)
(* of one value, required by the core and by extensions of every kind.          *)
GLCommand(n, a) == [name |-> n, alias |-> a]
MCGLCommands == {GLCommand("a", "none"), GLCommand("b", "a"), GLCommand("c", "b"), GLCommand("d", "x"), GLCommand("e", "x")}
Provider(k, g, v, n) == [kind |-> k, gles |-> g, vendor |-> v, name |-> n, supported |-> {"gl"}]
Enum(n, v, s) == [name |-> n, value |-> v, suffix |-> s, api |-> "none"]
MCEnums == {Enum(1, 1, "NV"), Enum(2, 1, "EXT"), Enum(3, 1, "ARB"), Enum(4, 1, "None"), Enum(5, 1, "EXT"), Enum(1, 2, "None")}
MCRequires ==
    {<<Provider("extension", FALSE, x.suffix, x.name), "all", x>> : x \in {y \in MCEnums : y.suffix # "None"}}
    \cup {<<Provider("extension", FALSE, "NV", 6), "gl", Enum(2, 1, "EXT")>>}
    \cup {<<Provider("feature", g, "None", IF g THEN 7 ELSE 8), "all", Enum(4, 1, "None")>> : g \in BOOLEAN}
================================================================================
