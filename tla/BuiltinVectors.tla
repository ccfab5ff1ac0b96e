----------------------------- MODULE BuiltinVectors -----------------------------
(* generated_tests/builtin_function.py and its copy for doubles: how the        *)
(* expected values of the built-in functions and operators of GLSL are found    *)
(* and put into test vectors. A value is its type and its components in         *)
(* column-major order. Integers have Width bits; a float is a sample, and the   *)
(* result of a function whose values are no samples is Real.                    *)
EXTENDS Integers, SequencesExt, FiniteSetsExt

CONSTANTS Width,  \* bits of an int and a uint; int64_t and uint64_t have twice as many
          Samples \* from the base types to the scalars that are the inputs

(* Types and values. *)
Type(b, c, r) == [base |-> b, cols |-> c, rows |-> r]
IsScalar(t) == t.cols = 1 /\ t.rows = 1
IsVector(t) == t.cols = 1 /\ t.rows # 1
IsMatrix(t) == t.cols # 1

Value(t, v) == [type |-> t, v |-> v]
Undefined == Value(Type("none", 0, 0), <<>>)
Real == 0
Signed == {"int", "int64_t"}
Unsigned == {"uint", "uint64_t"}
Bits(b) == IF b \in {"int64_t", "uint64_t"} THEN 2 * Width ELSE Width
Wrap(b, n) == CASE b \in Signed   -> ((n + 2^(Bits(b) - 1)) % 2^Bits(b)) - 2^(Bits(b) - 1)
                [] b \in Unsigned -> n % 2^Bits(b)
                [] OTHER          -> n

Scalars(b) == [i \in DOMAIN Samples[b] |-> Value(Type(b, 1, 1), <<Samples[b][i]>>)]
\* A vector or matrix of samples that starts with the k-th.
Sampled(t, k) == Value(t, [i \in 1..(t.cols * t.rows) |-> Samples[t.base][((i + k) % Len(Samples[t.base])) + 1]])
Vectors(b) == [i \in 1..6 |-> Sampled(Type(b, 1, 2 + (i - 1) \div 2), i % 2)]
Matrices(b) == [i \in 1..9 |-> Sampled(Type(b, 2 + (i - 1) \div 3, 2 + (i % 3)), i)]
SquareMatrices(b) == SelectSeq(Matrices(b), LAMBDA x : x.type.cols = x.type.rows)

(* numpy: an operator on each component, a scalar with every component. *)
At(x, i) == IF IsScalar(x.type) THEN x.v[1] ELSE x.v[i]
Shape(x, y) == IF IsScalar(x.type) THEN y.type ELSE x.type
Each(Op(_, _), b, x, y) ==
    LET s == Shape(x, y)
    IN  Value(Type(b, s.cols, s.rows), [i \in 1..(s.cols * s.rows) |-> Op(At(x, i), At(y, i))])
Like(t) == Value(t, [i \in 1..(t.cols * t.rows) |-> Real])
Sum(s) == FoldLeft(LAMBDA a, n : a + n, 0, s)
Dot(x, y) ==
    LET p == x.type   q == y.type
        inner == IF IsVector(p) THEN p.rows ELSE p.cols
        rows == IF IsVector(p) THEN 1 ELSE p.rows
        X(i, k) == IF IsVector(p) THEN x.v[k] ELSE x.v[(k - 1) * p.rows + i]
        Entry(i, j) == Wrap(p.base, Sum([k \in 1..inner |-> X(i, k) * y.v[(j - 1) * q.rows + k]]))
        Product(m, n) == Wrap(p.base, m * n)
    IN  IF IsScalar(p) \/ IsScalar(q) THEN Each(Product, p.base, x, y)
        ELSE IF inner # q.rows THEN Value(Type("mismatch", 0, 0), <<>>)
        ELSE Value(IF rows = 1 THEN Type(p.base, 1, q.cols) ELSE Type(p.base, q.cols, rows),
                   [i \in 1..(rows * q.cols) |-> Entry(((i - 1) % rows) + 1, ((i - 1) \div rows) + 1)])

(* The functions that simulate GLSL. *)
Plus(x, y) == LET P(m, n) == Wrap(x.type.base, m + n) IN Each(P, x.type.base, x, y)
Minus(x, y) == LET P(m, n) == Wrap(x.type.base, m - n) IN Each(P, x.type.base, x, y)
Multiply(x, y) ==
    LET P(m, n) == Wrap(x.type.base, m * n)
    IN  IF IsVector(x.type) /\ IsVector(y.type) THEN Each(P, x.type.base, x, y) ELSE Dot(x, y)
Sgn(n) == IF n < 0 THEN -1 ELSE IF n = 0 THEN 0 ELSE 1
Absolute(b, n) == Wrap(b, n * Sgn(n))
Divide(x, y) ==
    LET b == x.type.base
        Quotient(m, n) == CASE b \in Signed -> Wrap(b, (Absolute(b, m) \div Absolute(b, n)) * (Sgn(m) * Sgn(n)))
                            [] b \in Unsigned -> m \div n
                            [] OTHER -> Real
    IN  IF \E i \in DOMAIN y.v : y.v[i] = 0 THEN Undefined ELSE Each(Quotient, b, x, y)
Modulus(x, y) ==
    LET Rest(m, n) == m % n
    IN  IF (\E i \in DOMAIN x.v : x.v[i] < 0) \/ (\E i \in DOMAIN y.v : y.v[i] <= 0) THEN Undefined
        ELSE Each(Rest, x.type.base, x, y)

ChangeSignedness(x) ==
    LET b == IF x.type.base = "int" THEN "uint" ELSE "int"
    IN  Value([x.type EXCEPT !.base = b], [i \in DOMAIN x.v |-> Wrap(b, x.v[i])])
\* The type numpy gives to the result of a shift.
Promoted(b, c) == CASE b = c \/ <<b, c>> \in {<<"int64_t", "int">>, <<"int64_t", "uint">>, <<"uint64_t", "uint">>} -> b
                    [] <<b, c>> = <<"uint64_t", "int">> -> "float"
                    [] OTHER -> "int64_t"
Shift(Op(_, _), x, y) ==
    LET b == x.type.base
        shiftType == CASE b = "int64_t" -> "int" [] b = "uint64_t" -> "uint" [] OTHER -> b
        z == IF y.type.base # shiftType THEN ChangeSignedness(y) ELSE y
    IN  IF \E i \in DOMAIN y.v : y.v[i] \notin 0..(Bits(b) - 1) THEN Undefined
        ELSE Each(Op, Promoted(b, z.type.base), x, z)
LShift(x, y) == LET Left(m, n) == Wrap(x.type.base, m * 2^n) IN Shift(Left, x, y)
RShift(x, y) == LET Right(m, n) == m \div 2^n IN Shift(Right, x, y)

Truth(p) == IF p THEN 1 ELSE 0
Lesser(m, n) == IF n < m THEN n ELSE m
Greater(m, n) == IF n > m THEN n ELSE m
Clamp(x, lo, hi) == IF lo.v[1] > hi.v[1] THEN Undefined ELSE Value(x.type, <<Lesser(Greater(x.v[1], lo.v[1]), hi.v[1])>>)
Mid3(x, y, z) == Value(x.type, <<SortSeq(<<x.v[1], y.v[1], z.v[1]>>, <)[2]>>)
Smoothstep(e, f, x) == IF e.v[1] >= f.v[1] THEN Undefined ELSE Like(x.type)
Arctan2(y, x) == IF x.v[1] = 0 /\ y.v[1] = 0 THEN Undefined ELSE Like(y.type)
Pow(x, y) == IF x.v[1] < 0 \/ (x.v[1] = 0 /\ y.v[1] <= 0) THEN Undefined ELSE Like(x.type)
Transpose(x) ==
    LET t == x.type
    IN  Value(Type(t.base, t.rows, t.cols),
              [i \in DOMAIN x.v |-> x.v[((i - 1) % t.cols) * t.rows + (i - 1) \div t.cols + 1]])
Outer(x, y) ==
    Value(Type(x.type.base, y.type.rows, x.type.rows),
          [i \in 1..(x.type.rows * y.type.rows) |->
              x.v[((i - 1) % x.type.rows) + 1] * y.v[((i - 1) \div x.type.rows) + 1]])
Boolean(p) == Value(Type("bool", 1, 1), <<Truth(p)>>)
Compare(Op(_, _), x, y) == LET P(m, n) == Truth(Op(m, n)) IN Each(P, "bool", x, y)

\* The function a call names. Functions whose values are no samples, and the
\* bits of the operators on them, are in their types only.
Apply(op, a) ==
    LET x == a[1]  y == a[2]  z == a[3]
    IN  CASE op = "real" -> Like(x.type)
          [] op = "both" -> Like(Shape(x, y))
          [] op = "scalar" -> Like(Type(x.type.base, 1, 1))
          [] op = "+" -> Plus(x, y)  [] op = "-" -> Minus(x, y)  [] op = "*" -> Multiply(x, y)
          [] op = "/" -> Divide(x, y)  [] op = "%" -> Modulus(x, y)
          [] op = "<<" -> LShift(x, y)  [] op = ">>" -> RShift(x, y)
          [] op = "<" -> Compare(<, x, y)  [] op = "<=" -> Compare(<=, x, y)
          [] op = ">" -> Compare(>, x, y)  [] op = ">=" -> Compare(>=, x, y)
          [] op = "each =" -> Compare(=, x, y)  [] op = "each #" -> Compare(#, x, y)
          [] op = "=" -> Boolean(x.v = y.v)  [] op = "#" -> Boolean(x.v # y.v)
          [] op = "not" -> Boolean(x.v = <<0>>)
          [] op = "and" -> Boolean(x.v = <<1>> /\ y.v = <<1>>)  [] op = "or" -> Boolean(x.v = <<1>> \/ y.v = <<1>>)
          [] op = "select" -> IF x.v = <<1>> THEN y ELSE z
          [] op = "abs" -> Value(x.type, <<Absolute(x.type.base, x.v[1])>>)
          [] op = "sign" -> Value(x.type, <<Sgn(x.v[1])>>)
          [] op = "min" -> IF y.v[1] < x.v[1] THEN y ELSE x
          [] op = "max" -> IF y.v[1] > x.v[1] THEN y ELSE x
          [] op = "min3" -> Value(x.type, <<Lesser(Lesser(x.v[1], y.v[1]), z.v[1])>>)
          [] op = "max3" -> Value(x.type, <<Greater(Greater(x.v[1], y.v[1]), z.v[1])>>)
          [] op = "mid3" -> Mid3(x, y, z)  [] op = "clamp" -> Clamp(x, y, z)
          [] op = "mix" -> IF z.v = <<1>> THEN y ELSE x
          [] op = "step" -> Value(x.type, <<IF y.v[1] < x.v[1] THEN 0 ELSE 1>>)
          [] op = "smoothstep" -> Smoothstep(x, y, z)
          [] op = "arctan2" -> Arctan2(x, y)  [] op = "pow" -> Pow(x, y)
          [] op = "dot" -> Dot(x, y)  [] op = "outer" -> Outer(x, y)  [] op = "transpose" -> Transpose(x)
          [] op = "any" -> Boolean(1 \in ToSet(x.v))  [] op = "all" -> Boolean(0 \notin ToSet(x.v))

(* The filters: which types of arguments go together. *)
MatchArgs(indices, a) == \A i, j \in indices : a[i].type = a[j].type
MatchSimpleBinop(t, u) == t.base = u.base /\ (IsScalar(t) \/ IsScalar(u) \/ t = u)
Conform(t, u) ==
    CASE IsVector(t) /\ IsMatrix(u) -> t.rows = u.rows
      [] IsVector(t) /\ ~IsMatrix(u) -> t = u
      [] OTHER -> t.cols = u.rows
MatchMultiply(t, u) == t.base = u.base /\ (IsScalar(t) \/ IsScalar(u) \/ Conform(t, u))
MatchShift(t, u) ==
    /\ t.base \in Signed \cup Unsigned /\ u.base \in {"int", "uint"}
    /\ IsScalar(u) \/ t.rows = u.rows
MatchAssignmentOperators(t, u) == t.base = u.base /\ (IsScalar(u) \/ t = u)
MatchAssignmentMultiplyConforming(t, u) ==
    t.base = u.base /\ (IsScalar(u) \/ (~IsScalar(t) /\ Conform(t, u)))
MatchAssignmentMultiply(t, u) ==
    /\ t.base = u.base
    /\ \/ IsScalar(u)
       \/ /\ ~IsScalar(t) /\ Conform(t, u)
          /\ (IsVector(t) /\ IsVector(u)) \/ u.rows = u.cols
Matches(filter, a) ==
    CASE filter = "none" -> TRUE
      [] filter = "1 2" -> MatchArgs({1, 2}, a)
      [] filter = "2 3" -> MatchArgs({2, 3}, a)
      [] filter = "1 2 3" -> MatchArgs({1, 2, 3}, a)
      [] filter = "binop" -> MatchSimpleBinop(a[1].type, a[2].type)
      [] filter = "multiply" -> MatchMultiply(a[1].type, a[2].type)
      [] filter = "shift" -> MatchShift(a[1].type, a[2].type)
      [] filter = "assign" -> MatchAssignmentOperators(a[1].type, a[2].type)
      [] filter = "assign-multiply" -> MatchAssignmentMultiply(a[1].type, a[2].type)

(* Test vectors: [arguments, result]. *)
MakeArguments(inputs) ==
    FoldLeft(LAMBDA tuples, s : FlattenSeq([i \in DOMAIN tuples |-> [j \in DOMAIN s |-> Append(tuples[i], s[j])]]),
             <<<<>>>>, inputs)
SimulateFunction(inputs, op) ==
    SelectSeq([i \in DOMAIN inputs |-> [arguments |-> inputs[i], result |-> Apply(op, inputs[i])]],
              LAMBDA t : t.result # Undefined)

\* make_groups, partition_vectors and merge_vectors.
Groups(vectors, scalars) ==
    LET Key(t) == [i \in scalars |-> t.arguments[i]]
    IN  {SelectSeq(vectors, LAMBDA t : Key(t) = k) : k \in {Key(vectors[i]) : i \in DOMAIN vectors}}
Partition(vectors, size) ==
    {[j \in 1..size |-> vectors[((i * size + j - 1) % Len(vectors)) + 1]] : i \in 0..((Len(vectors) - 1) \div size)}
Merge(part, scalars) ==
    LET Vector(s) == Value([s[1].type EXCEPT !.rows = Len(s)], [i \in DOMAIN s |-> s[i].v[1]])
    IN  [arguments |-> [j \in DOMAIN part[1].arguments |->
                           IF j \in scalars THEN part[1].arguments[j] ELSE Vector([i \in DOMAIN part |-> part[i].arguments[j]])],
         result |-> Vector([i \in DOMAIN part |-> part[i].result])]
VectorizeTestVectors(vectors, scalars, length) ==
    {Merge(p, scalars) : p \in UNION {Partition(g, length) : g \in Groups(vectors, scalars)}}

(* What must be so of the test vectors of a call. *)
\* Every scalar case that GLSL defines is a component of a vector of each
\* length, with the arguments that stay scalar and without, and every component
\* of a vector is such a case.
CoverScalars(vectors, scalar, alternates) ==
    LET IsComponent(t, x, i) == /\ t.result.v = <<x.result.v[i]>>
                                /\ \A j \in DOMAIN t.arguments : t.arguments[j].v = <<At(x.arguments[j], i)>>
    IN  /\ \A t \in scalar, n \in 2..4, s \in {{}} \cup alternates : \E x \in vectors :
              /\ x.result.type.rows = n
              /\ \A j \in DOMAIN x.arguments : IsScalar(x.arguments[j].type) <=> j \in s
              /\ \E i \in 1..n : IsComponent(t, x, i)
        /\ \A x \in vectors : \A i \in DOMAIN x.result.v : \E t \in scalar : IsComponent(t, x, i)

\* The type of the result by the rules of GLSL.
RightType(op, a, t) ==
    LET p == a[1].type  q == a[2].type
    IN  CASE op \in {"+", "-", "/", "%", "both"} -> t = (IF IsScalar(p) THEN q ELSE p)
          [] op \in {"<<", ">>"} -> t = p
          [] op = "*" -> IF IsScalar(p) THEN t = q ELSE IF IsScalar(q) THEN t = p
                         ELSE IF IsVector(p) /\ IsVector(q) THEN t = p /\ t = q
                         ELSE t = IF IsVector(p) THEN Type(p.base, 1, q.cols) ELSE [q EXCEPT !.rows = p.rows]
          [] OTHER -> TRUE
\* Integer division rounds toward zero, a shift to the right down.
RightValue(op, x, y, z) ==
    x.type.base \in Signed \cup Unsigned =>
        \A i \in DOMAIN z.v : LET m == At(x, i)  n == At(y, i)  r == m - z.v[i] * n IN
            CASE op = "/" -> Sgn(r) \in {0, Sgn(m)} /\ r * Sgn(r) < n * Sgn(n)
              [] op = ">>" -> \E k \in 0..(2^n - 1) : m = z.v[i] * 2^n + k
              [] OTHER -> TRUE
==================================================================================
