----------------------------- MODULE BuiltinFunction -----------------------------
(* generated_tests/builtin_function.py: the calls that fill the suite of test   *)
(* vectors of the built-in functions, by overload.                              *)
EXTENDS BuiltinVectors

VARIABLES calls,      \* the calls of f still to come
          call,       \* the call made last
          stored,     \* its test vectors, each with its signature
          signatures  \* the keys of test_suite
vars == <<calls, call, stored, signatures>>

VersionIntroduced(t) ==
    CASE t.base \in {"int64_t", "uint64_t"} -> 400
      [] t.base = "uint" -> 130
      [] IsMatrix(t) /\ t.cols # t.rows -> 120
      [] OTHER -> 110

(* The calls. The order of the calls does not matter to the suite. *)
Call(family, name, version, extension, op, filter, alternates, inputs) ==
    [family |-> family, name |-> name, version |-> version, extension |-> extension,
     op |-> op, filter |-> filter, alternates |-> alternates, inputs |-> inputs]
F == Scalars("float")   I == Scalars("int")   U == Scalars("uint")   B == Scalars("bool")
I64 == Scalars("int64_t")   U64 == Scalars("uint64_t")
Times(s, n) == [i \in 1..n |-> s]

Componentwise(name, version, op, alternates, inputs) ==
    Call("componentwise", <<name>>, version, "", op, "none", alternates, inputs)
Extended(extension, cs) == {[c EXCEPT !.extension = extension] : c \in cs}
ComponentwiseCalls ==
    {Componentwise(n, 110, "real", {}, <<F>>) :
        n \in {"radians", "degrees", "sin", "cos", "tan", "asin", "acos", "atan", "exp", "log", "exp2", "log2",
               "sqrt", "inversesqrt", "floor", "ceil", "fract"}}
    \cup {Componentwise(n, 130, "real", {}, <<F>>) :
        n \in {"sinh", "cosh", "tanh", "asinh", "acosh", "atanh", "trunc", "round", "roundEven"}}
    \cup {Componentwise("atan", 110, "arctan2", {}, <<F, F>>), Componentwise("pow", 110, "pow", {}, <<F, F>>)}
    \cup {Componentwise(n, 110, n, {}, <<F>>) : n \in {"abs", "sign"}}
    \cup {Componentwise(n, 130, n, {}, <<I>>) : n \in {"abs", "sign"}}
    \cup {Componentwise("mod", 110, "real", {{2}}, <<F, F>>)}
    \cup {Componentwise(n, 110, n, {{2}}, <<F, F>>) : n \in {"min", "max"}}
    \cup {Componentwise(n, 130, n, {{2}}, <<s, s>>) : n \in {"min", "max"}, s \in {I, U}}
    \cup Extended("AMD_shader_trinary_minmax",
            {Componentwise(n, 110, n, {}, Times(F, 3)) : n \in {"min3", "max3", "mid3"}}
            \cup {Componentwise(n, 130, n, {}, Times(s, 3)) : n \in {"min3", "max3", "mid3"}, s \in {I, U}})
    \cup {Componentwise("clamp", 110, "clamp", {{2, 3}}, Times(F, 3))}
    \cup {Componentwise("clamp", 130, "clamp", {{2, 3}}, Times(s, 3)) : s \in {I, U}}
    \cup {Componentwise("mix", 110, "real", {{3}}, Times(F, 3)), Componentwise("mix", 130, "mix", {}, <<F, F, B>>)}
    \cup {Componentwise("step", 110, "step", {{1}}, <<F, F>>),
          Componentwise("smoothstep", 110, "smoothstep", {{1, 2}}, Times(F, 3))}
    \cup Extended("ARB_gpu_shader_int64",
            {Componentwise(n, 150, n, {}, <<I64>>) : n \in {"abs", "sign"}}
            \cup {Componentwise(n, 150, n, {{2}}, <<s, s>>) : n \in {"min", "max"}, s \in {I64, U64}}
            \cup {Componentwise("clamp", 150, "clamp", {{2, 3}}, Times(I64, 3)),
                  Componentwise("mix", 150, "mix", {}, <<I64, I64, B>>)})

Relational(name, op, arity, s) == Call("relational", <<name>>, 110, "", op, "none", {}, Times(s, arity))
RelationalCalls ==
    UNION {{Relational(n[1], n[2], 2, s) : s \in {F, I, U}} :
              n \in {<<"lessThan", "<">>, <<"lessThanEqual", "<=">>, <<"greaterThan", ">">>, <<"greaterThanEqual", ">=">>}}
    \cup {Relational(n[1], n[2], 2, s) : n \in {<<"equal", "each =">>, <<"notEqual", "each #">>}, s \in {F, I, U, B}}
    \cup {Relational("not", "not", 1, B)}

Integral == I \o Vectors("int") \o U \o Vectors("uint")
Floating == F \o Vectors("float")
Numbers == Floating \o Matrices("float") \o Integral
Everything == Numbers \o B \o Vectors("bool")
Longs == I64 \o Vectors("int64_t") \o U64 \o Vectors("uint64_t")
IVectors == I \o Vectors("int")
Whole(name, version, op, filter, inputs) == Call("whole", name, version, "", op, filter, {}, inputs)
AssignmentCalls ==
    {Whole(<<"assign", o>>, 110, o, IF o = "*" THEN "assign-multiply" ELSE "assign", <<Numbers, Numbers>>) :
        o \in {"+", "-", "*", "/"}}
    \cup {Whole(<<"assign", "div-large">>, 130, "/", "assign", <<U, U>>)}
    \cup {Whole(<<"assign", n[1]>>, 130, n[2], n[3], <<Integral, Integral>>) :
        n \in {<<"%", "%", "assign">>, <<"&", "both", "assign">>, <<"|", "both", "assign">>, <<"^", "both", "assign">>,
               <<"<<", "<<", "shift">>, <<">>", ">>", "shift">>}}
BitCalls ==
    {Whole(<<"op", o, y>>, 130, "both", "binop", <<Integral, Integral>>) :
        o \in {"&", "|", "^"}, y \in {"", "neg", "not"}}
    \cup {Whole(<<"op", o, y>>, 130, "both", "binop", <<IVectors, IVectors>>) :
        o \in {"&", "|", "^"}, y \in {"neg-abs", "not-abs", "abs-neg", "abs-not"}}
OperatorCalls ==
    {Whole(<<"op", o>>, 110, o, IF o = "*" THEN "multiply" ELSE "binop", <<Numbers, Numbers>>) : o \in {"+", "-", "*", "/"}}
    \cup {Whole(<<"op", "div-large">>, 130, "/", "binop", <<U, U>>), Whole(<<"op", "%">>, 130, "%", "binop", <<Integral, Integral>>)}
    \cup {Whole(<<"unary", n>>, 110, "real", "none", <<Numbers>>) : n \in {"+", "-"}}
    \cup {Whole(<<"op", o>>, 110, o, "1 2", Times(I \o U \o F, 2)) : o \in {"<", "<=", ">", ">="}}
    \cup {Whole(<<"op", o>>, 110, o, "1 2", <<Everything, Everything>>) : o \in {"=", "#"}}
    \cup {Whole(<<"op", n[1]>>, 110, n[2], "none", <<B, B>>) : n \in {<<"and", "and">>, <<"or", "or">>, <<"xor", "#">>}}
    \cup {Whole(<<"op", "not">>, 110, "not", "none", <<B>>),
          Whole(<<"op", "selection">>, 110, "select", "2 3", <<B, Everything, Everything>>),
          Whole(<<"op", "complement">>, 130, "real", "none", <<Integral>>)}
    \cup {Whole(<<"op", o>>, 130, o, "shift", <<Integral, Integral>>) : o \in {"<<", ">>"}}
GeometricCalls ==
    {Whole(<<"length">>, 110, "scalar", "none", <<Floating>>), Whole(<<"distance">>, 110, "scalar", "1 2", <<Floating, Floating>>),
     Whole(<<"dot">>, 110, "dot", "1 2", <<Floating, Floating>>),
     Whole(<<"cross">>, 110, "real", "1 2", Times(SelectSeq(Vectors("float"), LAMBDA x : x.type.rows = 3), 2)),
     Whole(<<"normalize">>, 110, "real", "none", <<Floating>>), Whole(<<"faceforward">>, 110, "real", "1 2 3", Times(Floating, 3)),
     Whole(<<"reflect">>, 110, "real", "1 2", <<Floating, Floating>>), Whole(<<"refract">>, 110, "real", "1 2", <<Floating, Floating, F>>),
     Whole(<<"matrixCompMult">>, 110, "real", "1 2", Times(Matrices("float"), 2)),
     Whole(<<"outerProduct">>, 120, "outer", "none", Times(Vectors("float"), 2)), Whole(<<"transpose">>, 120, "transpose", "none", <<Matrices("float")>>),
     Whole(<<"any">>, 110, "any", "none", <<Vectors("bool")>>), Whole(<<"all">>, 110, "all", "none", <<Vectors("bool")>>),
     Whole(<<"inverse">>, 140, "real", "none", <<SquareMatrices("float")>>),
     Whole(<<"determinant">>, 150, "scalar", "none", <<SquareMatrices("float")>>)}
LongCalls ==
    Extended("ARB_gpu_shader_int64",
        {Whole(<<"op", o>>, 150, o, IF o = "*" THEN "multiply" ELSE "binop", <<Longs, Longs>>) : o \in {"+", "-", "*", "/", "%"}}
        \cup {Whole(<<"op", o>>, 150, o, "1 2", Times(I64 \o U64, 2)) : o \in {"<", "<=", ">", ">=", "=", "#"}}
        \cup {Whole(<<"op", o, "">>, 150, "both", "binop", Times(I64 \o U64, 2)) : o \in {"&", "|", "^"}}
        \cup {Whole(<<"op", o>>, 150, o, "shift", <<I64 \o U64, U>>) : o \in {"<<", ">>"}})
Calls == ComponentwiseCalls \cup RelationalCalls \cup AssignmentCalls \cup BitCalls \cup OperatorCalls \cup GeometricCalls \cup LongCalls

(* f: the test vectors of a call are stored by their signatures. *)
ScalarVectors(c) == SimulateFunction(SelectSeq(MakeArguments(c.inputs), LAMBDA a : Matches(c.filter, a)), c.op)
Vectorized(c) == LET scalar == ScalarVectors(c)
                 IN  UNION {VectorizeTestVectors(scalar, s, n) : s \in {{}} \cup c.alternates, n \in 2..4}
TestVectors(c) == CASE c.family = "componentwise" -> ToSet(ScalarVectors(c)) \cup Vectorized(c)
                    [] c.family = "relational"    -> Vectorized(c)
                    [] OTHER                      -> ToSet(ScalarVectors(c))
Signature(c, t) ==
    LET types == {t.result.type} \cup {t.arguments[j].type : j \in DOMAIN t.arguments}
    IN  [name |-> c.name, version |-> Max({c.version} \cup {VersionIntroduced(u) : u \in types}),
         extension |-> c.extension, rettype |-> t.result.type, argtypes |-> [j \in DOMAIN t.arguments |-> t.arguments[j].type]]
Store(c) ==
    /\ call' = c
    /\ stored' = {[signature |-> Signature(c, t), vector |-> t] : t \in TestVectors(c)}
    /\ signatures' = signatures \cup {s.signature : s \in stored'}

NoCall == Call("none", <<>>, 0, "", "", "", {}, <<>>)
Init == calls = Calls /\ call = NoCall /\ stored = {} /\ signatures = {}
Next == /\ calls # {}
        /\ LET c == CHOOSE c \in calls : TRUE IN calls' = calls \ {c} /\ Store(c)
Spec == Init /\ [][Next]_vars
----------------------------------------------------------------------------------
\* _vectorize_test_vectors: "wrap around as necessary to ensure that every input
\* test vector is included". What a shader is asked of vectors is what it is
\* asked of scalars, no case left out and none that is undefined.
VectorsCoverScalars ==
    call.family \in {"componentwise", "relational"} =>
        CoverScalars({s.vector : s \in {x \in stored : IsVector(x.vector.result.type)}}, ToSet(ScalarVectors(call)), call.alternates)

\* The expected results are those of GLSL: the argument types that the filters
\* let through conform and give a result of the right type, that of the variable
\* for an assignment (match_assignment_multiply); integer division rounds toward
\* zero; there is one signature for a name and argument types
\* (_check_signature_safety), of a version that has all its types.
OverloadsSound ==
    /\ \A s \in stored : LET a == s.vector.arguments  z == s.vector.result IN
          call.family = "whole" =>
              /\ Len(a) = 2 => RightType(call.op, a, z.type) /\ RightValue(call.op, a[1], a[2], z)
              /\ call \in AssignmentCalls => z.type = a[1].type
    /\ Cardinality({<<s.name, s.argtypes>> : s \in signatures}) = Cardinality(signatures)
    /\ \A s \in signatures : \A j \in DOMAIN s.argtypes : s.version >= VersionIntroduced(s.argtypes[j])
==================================================================================
