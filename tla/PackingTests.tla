------------------------------ MODULE PackingTests ------------------------------
(* generated_tests/gen_builtin_packing_tests.py: the expected results of the    *)
(* packing functions of GLSL, and the tests written from them. A float is a     *)
(* fraction with a sign; the words have Bits8 and Bits16 bits for 8 and 16.     *)
EXTENDS Integers, SequencesExt

CONSTANTS Bits8, Bits16,   \* of the words a component is packed into
          ExponentBits,    \* of a half; the rest but the sign are the mantissa
          FloatBits,       \* 24: the significant bits of a float32
          FloatPlaces      \* 149: its places after the binary point, at most

VARIABLES made,    \* the functions with an entry in inout_table
          inouts,  \* the entry made last
          packed   \* the tests written from them
packingVars == <<made, inouts, packed>>

Mantissa == Bits16 - 1 - ExponentBits
Bias == 2^(ExponentBits - 1) - 1
TopExponent == 2^ExponentBits - 1

(* Floats: n/d with a sign, that of zeros too; d = 0 for an infinity. *)
Signs == {1, -1}
Float(sign, n, d) == [sign |-> sign, n |-> n, d |-> d]
Infinity(sign) == Float(sign, 1, 0)
Minus(x) == [x EXCEPT !.sign = -@]
Num(x) == x.sign * x.n
Below(x, y) == Num(x) * y.d < Num(y) * x.d
Times(x, k) == [x EXCEPT !.n = @ * k]
One == Float(1, 1, 1)
Zero == Float(1, 0, 1)
Clamp(x, min, max) == IF Below(x, min) THEN min ELSE IF Below(max, x) THEN max ELSE x

(* round_to_even and round_to_nearest. *)
Modes == <<"even", "nearest">>
Round(x, mode) ==
    LET i == x.n \div x.d
        twice == 2 * (x.n % x.d)
        up == CASE twice < x.d -> 0
                [] mode = "even" /\ twice = x.d -> i % 2
                [] OTHER -> 1
    IN  x.sign * (i + up)

(* float32(): the nearest number with FloatBits significant bits and FloatPlaces *)
(* binary places, of two the even one. None here is as large as 2^FloatBits. The *)
(* double between it and the number is as good as exact: a product of a float32  *)
(* and a limit fits it, and a word over its limit is never close to half way.    *)
TwoTo[p \in 0..FloatPlaces] == IF p = 0 THEN 1 ELSE 2 * TwoTo[p - 1]
Fits(x, p) == x.n * TwoTo[p] < x.d * 2^FloatBits
Places(x) == CHOOSE p \in 0..FloatPlaces : Fits(x, p) /\ (p < FloatPlaces => ~Fits(x, p + 1))
InPlaces(x, p) == Float(x.sign, Round(Float(1, x.n * TwoTo[p], x.d), "even"), TwoTo[p])
Float32(x) == IF x.d = 0 THEN x ELSE InPlaces(x, Places(x))

(* FuncOpts.round, which converts first: a number may be shifted to a half. *)
RoundFloat(x, mode) == Round(Float32(x), mode)

(* The component-wise functions; a word is what is left of the number. *)
SnormMax(w) == 2^(w - 1) - 1
Signed(w, u) == IF u < 2^(w - 1) THEN u ELSE u - 2^w
PackSnorm(w, x, mode) == RoundFloat(Times(Clamp(x, Minus(One), One), SnormMax(w)), mode) % 2^w
UnpackSnorm(w, u) ==
    LET i == Signed(w, u)
    IN  Float32(Clamp(IF i < 0 THEN Float(-1, -i, SnormMax(w)) ELSE Float(1, i, SnormMax(w)), Minus(One), One))
PackUnorm(w, x, mode) == RoundFloat(Times(Clamp(x, Zero, One), 2^w - 1), mode) % 2^w
UnpackUnorm(w, u) == Float32(Float(1, u, 2^w - 1))

(* Halves. Of a float32 the numbers that are rounded here are float32s too: they *)
(* are its significant bits at another scale, or what those are above 2^Mantissa *)
(* of them. So is any half. *)
\* frexp: the E with 2^(E-1) <= x < 2^E. Up(k) and Up(-k) are what 2^k has above and
\* below the line.
Up(k) == 2^(IF k > 0 THEN k ELSE 0)
Shift == Bias + Mantissa + 2
Exponent(x) ==
    CHOOSE E \in (-Shift)..Shift : x.d * Up(E) <= 2 * (x.n * Up(-E)) /\ x.n * Up(-E) < x.d * Up(E)
HalfWord(sign, e, m) == (IF sign < 0 THEN 2^(Bits16 - 1) ELSE 0) + e * 2^Mantissa + m
Carried(sign, e, m) == IF m = 2^Mantissa THEN HalfWord(sign, e + 1, 0) ELSE HalfWord(sign, e, m)
NormalMantissa(x, E, mode) ==
    LET d == x.d * Up(E - Mantissa - 1)
    IN  Round(Float(1, x.n * Up(Mantissa + 1 - E) - d * 2^Mantissa, d), mode)
PackHalfUpTo(top, x, mode) ==
    CASE x.d = 0 -> HalfWord(x.sign, TopExponent, 0)
      [] x.d # 0 /\ x.n = 0 -> HalfWord(x.sign, 0, 0)
      [] OTHER -> LET E == Exponent(x)
                  IN  CASE E < 2 - Bias -> Carried(x.sign, 0, Round(Float(1, x.n * 2^(Bias + Mantissa - 1), x.d), mode))
                        [] E \in (2 - Bias)..top -> Carried(x.sign, E + Bias - 1, NormalMantissa(x, E, mode))
                        [] OTHER -> HalfWord(x.sign, TopExponent, 0)
PackHalfEarlyInfinity(x, mode) == PackHalfUpTo(Bias, x, mode)
PackHalf(x, mode) == PackHalfUpTo(Bias + 1, x, mode)
UnpackHalf(u) ==
    LET sign == IF u >= 2^(Bits16 - 1) THEN -1 ELSE 1
        e == (u \div 2^Mantissa) % 2^ExponentBits
        m == u % 2^Mantissa
        unit == 2^(Bias + Mantissa - 1)
    IN  CASE e = 0 -> Float(sign, m, unit)
          [] e \in 1..(TopExponent - 1) -> Float(sign, (2^Mantissa + m) * 2^(e - 1), unit)
          [] OTHER -> Infinity(sign) \* of the words with e = 31 the inputs are those with m = 0

(* The functions: 2x16 or 4x8 components, of a kind. *)
Function(pack, kind, w) == [pack |-> pack, kind |-> kind, w |-> w]
Functions == {Function(p, k, w) : p \in BOOLEAN, k \in {"snorm", "unorm"}, w \in {Bits8, Bits16}}
             \cup {Function(p, "half", Bits16) : p \in BOOLEAN}
Pack(f, x, mode) == CASE f.kind = "snorm" -> PackSnorm(f.w, x, mode)
                      [] f.kind = "unorm" -> PackUnorm(f.w, x, mode)
                      [] OTHER -> PackHalf(x, mode)
Unpack(f, u) == CASE f.kind = "snorm" -> UnpackSnorm(f.w, u)
                  [] f.kind = "unorm" -> UnpackUnorm(f.w, u)
                  [] OTHER -> UnpackHalf(u)
Word(f, us) == IF f.w = Bits16 THEN us[2] * 2^f.w + us[1]
               ELSE us[4] * 2^(3 * f.w) + us[3] * 2^(2 * f.w) + us[2] * 2^f.w + us[1]
FieldOf(f, u, i) == (u \div 2^((i - 1) * f.w)) % 2^f.w

(* full_input_table and reduced_input_table. *)
BothSigns(S) == {[x EXCEPT !.sign = s] : x \in S, s \in Signs}
Tenths(S) == BothSigns({Float32(Float(1, k, 10)) : k \in S})
Infinities == {Infinity(s) : s \in Signs}
QuarterSteps == 2^(Bias + Mantissa + 1) \* in 1; a step is that of the subnormals
HalfInputs ==
    LET normalMin == 4 * 2^Mantissa
        maxStep == (QuarterSteps * 2^Bias) \div 2^Mantissa
        normalMax == QuarterSteps * 2^(Bias + 1) - maxStep
    IN  BothSigns({Float(1, k, QuarterSteps) :
                  k \in (0..12) \cup ((normalMin - 8)..(normalMin + 8)) \cup {2 * normalMin + i : i \in 2..4}
                        \cup {QuarterSteps \div 2, QuarterSteps, (3 * QuarterSteps) \div 2}
                        \cup {normalMax + (i * maxStep) \div 4 : i \in (-8..4) \cup {8}}})
        \cup Infinities
FloatInputs(f) == CASE f.kind = "snorm" -> Tenths({0, 1, 9, 10, 11}) \cup Infinities
                    [] f.kind = "unorm" -> Tenths({0, 1}) \cup {x \in Tenths({9, 10, 11}) : x.sign = 1} \cup Infinities
                    [] OTHER -> HalfInputs
ReducedInputs(f) == IF f.kind = "half" THEN BothSigns({Float(1, k, 1) : k \in 0..2}) \cup Infinities ELSE FloatInputs(f)
WordInputs(f) ==
    IF f.kind = "half"
    THEN {HalfWord(s, b[1], b[2]) : s \in Signs,
            b \in ({0} \X {0, 1, 2, 2^Mantissa - 2, 2^Mantissa - 1}) \cup ({1} \X {0, 1})
                  \cup ({TopExponent - 1} \X {2^Mantissa - 2, 2^Mantissa - 1}) \cup {<<TopExponent, 0>>}}
    ELSE (0..3) \cup {2^(f.w - 1) - 1, 2^(f.w - 1), 2^(f.w - 1) + 1, 2^f.w - 1}

(* make_inouts_for_pack_2x16 and the other three. *)
Arranged(f, x, y) == IF f.w = Bits16 THEN {<<x, y>>, <<y, x>>} ELSE {<<x, y, x, y>>, <<x, x, y, y>>}
PackInputs(f) == UNION {Arranged(f, x, y) : x \in FloatInputs(f), y \in ReducedInputs(f)}
UnpackInputs(f) == UNION {IF f.w = Bits16 THEN {<<x, y>>} ELSE Arranged(f, x, y) : x, y \in WordInputs(f)}
Inouts(f) ==
    IF f.pack
    THEN {[floats |-> xs, words |-> [m \in 1..2 |-> Word(f, [i \in DOMAIN xs |-> Pack(f, xs[i], Modes[m])])]] : xs \in PackInputs(f)}
    ELSE {[floats |-> [i \in DOMAIN us |-> Unpack(f, FieldOf(f, Word(f, us), i))], words |-> <<Word(f, us)>>] : us \in UnpackInputs(f)}

(* The tables are made, then ShaderTest writes a test for each stage and API. *)
Tests ==
    {[function |-> f, stage |-> s, api |-> "ARB_shading_language_packing"] : f \in Functions, s \in {"const", "vs", "fs"}}
    \cup {[function |-> f, stage |-> s, api |-> "glsl-es-3.00"] :
             f \in {g \in Functions : g.w = Bits16}, s \in {"const", "vs", "fs"}}
PackingInit == made = {} /\ inouts = {} /\ packed = {}
MakeInouts ==
    LET f == CHOOSE f \in Functions : f \notin made
    IN  /\ made # Functions
        /\ made' = made \cup {f}
        /\ inouts' = {[function |-> f, floats |-> io.floats, words |-> io.words] : io \in Inouts(f)}
        /\ UNCHANGED packed
WriteFile ==
    /\ made = Functions /\ packed # Tests
    /\ inouts' = {}
    /\ packed' = packed \cup {CHOOSE t \in Tests : t \notin packed}
    /\ UNCHANGED made
PackingNext == MakeInouts \/ WriteFile
PackingSpec == PackingInit /\ [][PackingNext]_packingVars
---------------------------------------------------------------------------------
\* A half of the infinite exponent counts as the first value that is too large.
Quarters(x) == IF x.d = 0 THEN QuarterSteps * 2^(Bias + 1) ELSE x.n * (QuarterSteps \div x.d)
Distance(m, n) == IF m < n THEN n - m ELSE m - n
Even(u) == u % 2 = 0
NearestHalf(x, u) ==
    LET y == UnpackHalf(u)
        Off(v) == Distance(Quarters(x), Quarters(UnpackHalf(v)))
        others == {HalfWord(x.sign, e, m) : e \in 0..(TopExponent - 1), m \in 0..(2^Mantissa - 1)} \cup {HalfWord(x.sign, TopExponent, 0)}
    IN  /\ x.sign = y.sign
        /\ x.d = 0 => y.d = 0
        /\ x.d # 0 => \A v \in others : Off(u) <= Off(v)
\* Within one half and half the last place of a float32 with the integer bits of the
\* word: what FuncOpts.round may shift a number by.
NearestWord(f, x, u) ==
    LET snorm == f.kind = "snorm"
        c == Clamp(x, IF snorm THEN Minus(One) ELSE Zero, One)
        limit == IF snorm THEN SnormMax(f.w) ELSE 2^f.w - 1
        value == IF snorm THEN Signed(f.w, u) ELSE u
        places == TwoTo[FloatBits - f.w]
    IN  2 * (places * Distance(Num(c) * limit, value * c.d)) <= (places + 1) * c.d
Nearest(f, x, u) == IF f.kind = "half" THEN NearestHalf(x, u) ELSE NearestWord(f, x, u)

\* The words expected of a float are nearest to it, for snorms and unorms but for that
\* shift, and where two are expected the first is the even one.
RightlyPacked(f, x, us) == /\ \A u \in ToSet(us) : Nearest(f, x, u)
                           /\ us[1] # us[2] => Even(us[1]) /\ ~Even(us[2])
\* The float expected of a word packs into that word again, but for the least
\* snorm, which stands for -1 as its successor does.
RightlyUnpacked(f, x, u) ==
    \A m \in DOMAIN Modes :
        Pack(f, x, Modes[m]) = (IF f.kind = "snorm" /\ u = 2^(f.w - 1) THEN u + 1 ELSE u)

\* pack_half_1x16 and its neighbours: "the actual output is dependent on the
\* GLSL compiler's and hardware's choice of rounding mode". What the tests expect
\* is right component by component, among subnormals, across a carry and up to
\* infinity, and for snorms and unorms but for the shift of float32 before rounding
\* (FuncOpts.round): of 0.9, which is just below 229.5/255, 230 is expected.
PackingSound ==
    LET Components == UNION {{[function |-> io.function, float |-> io.floats[i],
                               words |-> [m \in DOMAIN io.words |-> FieldOf(io.function, io.words[m], i)]] :
                                 i \in DOMAIN io.floats} : io \in inouts}
    IN  \A c \in Components :
           IF c.function.pack THEN RightlyPacked(c.function, c.float, c.words)
           ELSE RightlyUnpacked(c.function, c.float, c.words[1])
=================================================================================
