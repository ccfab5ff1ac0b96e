--------------------------- MODULE BuiltinFunctionFp64 ---------------------------
(* generated_tests/builtin_function_fp64.py: the copy of builtin_function.py    *)
(* for doubles. Each call is made twice, for GLSL 4.00 and for the extension to *)
(* 1.50, and no type raises the version.                                        *)
EXTENDS Integers, SequencesExt, FiniteSetsExt

CONSTANTS Samples
B == INSTANCE BuiltinVectors WITH Width <- 32

VARIABLES calls, call, stored, signatures \* as in BuiltinFunction
vars == <<calls, call, stored, signatures>>

Variants == {[version |-> 400, extension |-> ""], [version |-> 150, extension |-> "ARB_gpu_shader_fp64"]}

(* The simulated functions: _divide is that of doubles, the others are copies. *)
Divide(x, y) == IF 0 \in ToSet(y.v) THEN B!Undefined ELSE B!Like(B!Shape(x, y))
Apply(op, a) == IF op = "/" THEN Divide(a[1], a[2]) ELSE B!Apply(op, a)
Matches(filter, a) == B!Matches(filter, a)
SimulateFunction(inputs, op) ==
    SelectSeq([i \in DOMAIN inputs |-> [arguments |-> inputs[i], result |-> Apply(op, inputs[i])]],
              LAMBDA t : t.result # B!Undefined)
VectorizeTestVectors(vectors, scalars, length) == B!VectorizeTestVectors(vectors, scalars, length)

(* The calls. *)
Call(family, name, op, filter, alternates, inputs) ==
    [family |-> family, name |-> name, op |-> op, filter |-> filter, alternates |-> alternates, inputs |-> inputs]
D == B!Scalars("double")
Vectors == B!Vectors("double")
Matrices == B!Matrices("double")
Componentwise(name, op, alternates, inputs) == Call("componentwise", name, op, "none", alternates, inputs)
ComponentwiseCalls ==
    {Componentwise(n, "real", {}, <<D>>) : n \in {"sqrt", "inversesqrt", "floor", "trunc", "round", "roundEven", "ceil", "fract"}}
    \cup {Componentwise(n, n, {}, <<D>>) : n \in {"abs", "sign"}}
    \cup {Componentwise("mod", "real", {{2}}, <<D, D>>), Componentwise("step", "step", {{1}}, <<D, D>>)}
    \cup {Componentwise(n, n, {{2}}, <<D, D>>) : n \in {"min", "max"}}
    \cup {Componentwise("clamp", "clamp", {{2, 3}}, <<D, D, D>>), Componentwise("mix", "real", {{3}}, <<D, D, D>>),
          Componentwise("mix", "mix", {}, <<D, D, B!Scalars("bool")>>), Componentwise("smoothstep", "smoothstep", {{1, 2}}, <<D, D, D>>)}
RelationalCalls ==
    {Call("relational", n[1], n[2], "none", {}, <<D, D>>) :
        n \in {<<"lessThan", "<">>, <<"lessThanEqual", "<=">>, <<"greaterThan", ">">>, <<"greaterThanEqual", ">=">>,
               <<"equal", "each =">>, <<"notEqual", "each #">>}}
Numbers == D \o Vectors \o Matrices
Whole(name, op, filter, inputs) == Call("whole", name, op, filter, {}, inputs)
WholeCalls ==
    {Whole(n[1], n[2], n[3], <<Numbers, Numbers>>) :
        n \in {<<"op-add", "+", "binop">>, <<"op-sub", "-", "binop">>, <<"op-mult", "*", "multiply">>, <<"op-div", "/", "binop">>}}
    \cup {Whole("length", "scalar", "none", <<D \o Vectors>>), Whole("distance", "scalar", "1 2", <<D \o Vectors, D \o Vectors>>),
          Whole("dot", "dot", "1 2", <<D \o Vectors, D \o Vectors>>), Whole("normalize", "real", "none", <<D \o Vectors>>),
          Whole("cross", "real", "1 2", <<SelectSeq(Vectors, LAMBDA x : x.type.rows = 3), SelectSeq(Vectors, LAMBDA x : x.type.rows = 3)>>),
          Whole("faceforward", "real", "1 2 3", <<D \o Vectors, D \o Vectors, D \o Vectors>>),
          Whole("reflect", "real", "1 2", <<D \o Vectors, D \o Vectors>>), Whole("refract", "real", "1 2", <<D \o Vectors, D \o Vectors, D>>),
          Whole("matrixCompMult", "real", "1 2", <<Matrices, Matrices>>), Whole("outerProduct", "outer", "none", <<Vectors, Vectors>>),
          Whole("transpose", "transpose", "none", <<Matrices>>), Whole("inverse", "real", "none", <<B!SquareMatrices("double")>>),
          Whole("determinant", "scalar", "none", <<B!SquareMatrices("double")>>)}

(* f of each family, and the suite. *)
ScalarVectors(c) == SimulateFunction(SelectSeq(B!MakeArguments(c.inputs), LAMBDA a : Matches(c.filter, a)), c.op)
Vectorized(c) == LET scalar == ScalarVectors(c)
                 IN  UNION {VectorizeTestVectors(scalar, s, n) : s \in {{}} \cup c.alternates, n \in 2..4}
ComponentwiseVectors(c) == ToSet(ScalarVectors(c)) \cup Vectorized(c)
RelationalVectors(c) == Vectorized(c)
WholeVectors(c) == ToSet(ScalarVectors(c))
TestVectors(c) == CASE c.family = "componentwise" -> ComponentwiseVectors(c)
                    [] c.family = "relational"    -> RelationalVectors(c)
                    [] OTHER                      -> WholeVectors(c)
Signature(c, variant, t) ==
    [name |-> c.name, version |-> variant.version, extension |-> variant.extension,
     rettype |-> t.result.type, argtypes |-> [j \in DOMAIN t.arguments |-> t.arguments[j].type]]
Store(c) ==
    /\ call' = c
    /\ stored' = {[signature |-> Signature(c, v, t), vector |-> t] : v \in Variants, t \in TestVectors(c)}
    /\ signatures' = signatures \cup {s.signature : s \in stored'}

Init == /\ calls = ComponentwiseCalls \cup RelationalCalls \cup WholeCalls
        /\ call = Call("none", "", "", "", {}, <<>>) /\ stored = {} /\ signatures = {}
Next == /\ calls # {}
        /\ LET c == CHOOSE c \in calls : TRUE IN calls' = calls \ {c} /\ Store(c)
Spec == Init /\ [][Next]_vars
----------------------------------------------------------------------------------
\* _vectorize_test_vectors: as VectorsCoverScalars of BuiltinFunction, for both
\* variants of a call.
VectorsCoverScalars ==
    call.family \in {"componentwise", "relational"} => \A v \in Variants :
        B!CoverScalars({s.vector : s \in {x \in stored : x.signature.version = v.version /\ B!IsVector(x.vector.result.type)}},
                       ToSet(ScalarVectors(call)), call.alternates)

\* As OverloadsSound of BuiltinFunction; _check_signature_safety takes the
\* extension for a part of the name, and there are as many signatures with it
\* as without.
OverloadsSound ==
    /\ \A s \in stored : LET a == s.vector.arguments IN
          call.family = "whole" /\ Len(a) = 2 => B!RightType(call.op, a, s.vector.result.type)
    /\ Cardinality({<<s.name, s.argtypes, s.extension>> : s \in signatures}) = Cardinality(signatures)
    /\ Cardinality({s \in signatures : s.extension = ""}) * 2 = Cardinality(signatures)
==================================================================================
