-------------------------- MODULE GeneratorProofs --------------------------
(***************************************************************************)
(* What the tests of the packing functions expect is right at the widths   *)
(* there are, 8 and 16 bits, halves with 5 bits of exponent and float32,   *)
(* where TLC cannot enumerate the halves: PackingTests is checked at 4 and *)
(* 8 bits.  The theorems about components are of every float, not of the   *)
(* inputs alone: of any fraction and infinity for snorms and unorms, for   *)
(* halves of any float down to a quarter of the least half.                *)
(*                                                                         *)
(* A number that is packed into a snorm or unorm is rounded twice: to a    *)
(* float32, which has 24 - w places of it at least, and then to a word.    *)
(* Each is within half a unit of what is rounded, and the two together are *)
(* not enough to take a word that was unpacked for another.                *)
(*                                                                         *)
(* A float of N quarters is between two multiples of the step of its       *)
(* binade.  The mantissa is N in steps, rounded, so the half it makes is   *)
(* one of the nearest multiples, and no half of another exponent is nearer *)
(* than all multiples of the step.                                         *)
(*                                                                         *)
(* What the tests of operators expect has the type that GLSL says, and the *)
(* integers are rounded as it says, for all arguments of 32 bits and not   *)
(* the samples alone: the last section.                                    *)
(***************************************************************************)
EXTENDS StatusProofs, PackingTests \* of the former, NoLeast

Packing == INSTANCE PackingTests WITH Bits8 <- 8, Bits16 <- 16, ExponentBits <- 5, FloatBits <- 24, FloatPlaces <- 149

Floats == [sign : Packing!Signs, n : Nat, d : Nat \ {0}] \cup Packing!Infinities
RoundingModes == {"even", "nearest"}
NormFunctions == {f \in Packing!Functions : f.kind # "half"}

\* Powers of two.
Pow(k) == 2^k

\* The powers of two there are: they double.
LEMMA Powers ==
    /\ Pow(0) = 1 /\ Pow(1) = 2 /\ Pow(2) = 4 /\ Pow(5) = 32 /\ Pow(10) = 1024 /\ Pow(11) = 2048
    /\ Pow(12) = 4096 /\ Pow(15) = 32768 /\ Pow(24) = 16777216 /\ Pow(26) = 67108864
    /\ \A k \in 0 .. 31 : Pow(k) \in Nat /\ Pow(k) > 0 /\ Pow(k + 1) = 2 * Pow(k)
    /\ Pow(32) \in Nat /\ Pow(32) > 0
<1> DEFINE Doubles(k) == 2^k \in Nat /\ 2^k > 0 /\ 2^(k + 1) = 2 * 2^k
<1>1. /\ Doubles(0) /\ Doubles(1) /\ Doubles(2) /\ Doubles(3) /\ Doubles(4) /\ Doubles(5) /\ Doubles(6)
      /\ Doubles(7) /\ Doubles(8) /\ Doubles(9) /\ Doubles(10) /\ Doubles(11) /\ Doubles(12) /\ Doubles(13)
      /\ Doubles(14) /\ Doubles(15) /\ Doubles(16) /\ Doubles(17) /\ Doubles(18) /\ Doubles(19) /\ Doubles(20)
      /\ Doubles(21) /\ Doubles(22) /\ Doubles(23) /\ Doubles(24) /\ Doubles(25) /\ Doubles(26) /\ Doubles(27)
      /\ Doubles(28) /\ Doubles(29) /\ Doubles(30) /\ Doubles(31)
  OBVIOUS
<1> HIDE DEF Doubles
<1>2. \A k \in 0 .. 31 : Doubles(k)
  BY <1>1
<1>3. \A k \in 0 .. 31 : Pow(k) \in Nat /\ Pow(k) > 0 /\ Pow(k + 1) = 2 * Pow(k)
  BY <1>2 DEF Doubles, Pow
<1>4. /\ Pow(0) = 1 /\ Pow(1) = 2 /\ Pow(2) = 4 /\ Pow(5) = 32 /\ Pow(10) = 1024 /\ Pow(11) = 2048
      /\ Pow(12) = 4096 /\ Pow(15) = 32768 /\ Pow(24) = 16777216 /\ Pow(26) = 67108864
      /\ Pow(32) \in Nat /\ Pow(32) > 0
  BY DEF Pow
<1> QED BY <1>3, <1>4

\* Python's quotient and rest of natural numbers.
LEMMA Quotient ==
    ASSUME NEW n \in Nat, NEW d \in Nat, d > 0
    PROVE  /\ n \div d \in Nat /\ n % d \in 0 .. d - 1
           /\ n = d * (n \div d) + (n % d)
<1>1. n \div d \in Int /\ n \div d >= 0
  BY SMT
<1>2. n % d \in 0 .. d - 1
  BY SMT
<1>3. n = d * (n \div d) + (n % d)
  BY SMT
<1> QED BY <1>1, <1>2, <1>3, SMT

\* The neighbours of an even number are odd.
LEMMA Parity ==
    ASSUME NEW i \in Nat
    PROVE  /\ i % 2 \in {0, 1}
           /\ i % 2 = 0 => (i + 1) % 2 = 1
           /\ i % 2 = 1 => (i + 1) % 2 = 0
BY SMT

\* A quotient i with the rest r, rounded down or up.
LEMMA Ties ==
    ASSUME NEW n \in Nat, NEW d \in Nat, d > 0, NEW i \in Nat, NEW r \in 0 .. d - 1,
           n = d * i + r, NEW up \in {0, 1}
    PROVE  /\ (i + up) * d \in Int
           /\ n - (i + up) * d = IF up = 0 THEN r ELSE r - d
<1>1. (i + up) * d = d * i + (IF up = 0 THEN 0 ELSE d)
  BY SMT
<1>2. d * i \in Int /\ (i + up) * d \in Int
  BY SMT
<1> QED BY <1>1, <1>2

\* n/d is rounded to k, which is less by off/d: one half at most; where two are that
\* near, "even" is the even one.
RoundedTo(n, d, mode, k, off) ==
    /\ n - k * d = off
    /\ 2 * off <= d /\ -d <= 2 * off
    /\ 2 * off = d => mode = "even" /\ k % 2 = 0
    /\ 2 * off = -d => mode = "nearest" \/ k % 2 = 0

\* A number is rounded to a magnitude within one half of it.
LEMMA Rounds ==
    ASSUME NEW sign \in Packing!Signs, NEW n \in Nat, NEW d \in Nat, d > 0, NEW mode \in RoundingModes
    PROVE  \E k \in Nat, off \in Int :
              /\ Packing!Round(Packing!Float(sign, n, d), mode) = sign * k
              /\ RoundedTo(n, d, mode, k, off)
<1>2. PICK i \in Nat, r \in 0 .. d - 1 : n \div d = i /\ n % d = r /\ n = d * i + r
  BY Quotient
<1>3. i % 2 \in {0, 1} /\ (i % 2 = 1 => (i + 1) % 2 = 0)
  BY Parity
<1> DEFINE rounded == CASE 2 * r < d -> 0
                   [] mode = "even" /\ 2 * r = d -> i % 2
                   [] OTHER -> 1
<1>4. Packing!Round(Packing!Float(sign, n, d), mode) = sign * (i + rounded)
  BY <1>2 DEF Packing!Round, Packing!Float
<1>5. PICK up \in {0, 1} :
         /\ up = rounded
         /\ up = 0 => 2 * r <= d /\ (2 * r = d => mode = "even" /\ i % 2 = 0)
         /\ up = 1 => 2 * r >= d /\ (2 * r = d => mode = "nearest" \/ i % 2 = 1)
  BY <1>3 DEF RoundingModes
<1> HIDE DEF rounded
<1>6. PICK k \in Nat, off \in Int :
         k = i + up /\ n - k * d = off /\ off = IF up = 0 THEN r ELSE r - d
  BY <1>2, Ties
<1>7. /\ 2 * off <= d /\ -d <= 2 * off
      /\ 2 * off = d => mode = "even" /\ k % 2 = 0
      /\ 2 * off = -d => mode = "nearest" \/ k % 2 = 0
  BY <1>3, <1>5, <1>6
<1>8. Packing!Round(Packing!Float(sign, n, d), mode) = sign * k
  BY <1>4, <1>5, <1>6
<1> QED BY <1>6, <1>7, <1>8 DEF RoundedTo

-----------------------------------------------------------------------------
(***************************************************************************)
(* What float32() makes of a number: one with the binary places it has     *)
(* room for, nearest to it.                                                *)
(***************************************************************************)

Twos == Packing!TwoTo

\* The powers of two up to the n-th, by the recursion of TwoTo.
Doubling(n, g) == g = [p \in 0 .. n |-> IF p = 0 THEN 1 ELSE 2 * g[p - 1]]

\* There is the function that the recursion defines.
LEMMA DoublingExists == \E g : Doubling(149, g)
<1> DEFINE T == {n \in Nat : ~ \E g : Doubling(n, g)}
<1>1. ASSUME NEW n \in T PROVE \E k \in T : k < n
  <2>1. CASE n = 0
    <3> DEFINE g == [p \in 0 .. 0 |-> 1]
    <3>1. Doubling(0, g)
      BY DEF Doubling
    <3> QED BY <2>1, <3>1
  <2>2. CASE n # 0
    <3> SUFFICES ASSUME n - 1 \notin T PROVE FALSE
      <4>1. n - 1 \in T => n - 1 < n
        OBVIOUS
      <4> QED BY <4>1
    <3>1. n \in Nat /\ n - 1 \in Nat
      BY <2>2
    <3>2. PICK h : Doubling(n - 1, h)
      BY <3>1
    <3> DEFINE g == [p \in 0 .. n |-> IF p = n THEN 2 * h[n - 1] ELSE h[p]]
    <3>3. Doubling(n, g)
      <4>1. g = [p \in 0 .. n |-> g[p]]
        OBVIOUS
      <4>2. ASSUME NEW p \in 0 .. n
            PROVE  g[p] = IF p = 0 THEN 1 ELSE 2 * g[p - 1]
        <5>1. CASE p = n
          <6>1. p # 0 /\ g[p - 1] = h[p - 1]
            BY <2>2, <3>1, <5>1
          <6> QED BY <5>1, <6>1
        <5>2. CASE p # n
          <6>1. p \in 0 .. (n - 1) /\ g[p] = h[p] /\ (p # 0 => g[p - 1] = h[p - 1])
            BY <3>1, <5>2
          <6> QED BY <3>2, <6>1 DEF Doubling
        <5> QED BY <5>1, <5>2
      <4> HIDE DEF g
      <4> QED BY <4>1, <4>2 DEF Doubling
    <3> HIDE DEF g
    <3> QED BY <3>3
  <2> QED BY <2>1, <2>2
<1>2. T = {}
  <2>1. T \in SUBSET Nat
    OBVIOUS
  <2> HIDE DEF T
  <2> QED BY <1>1, <2>1, NoLeast
<1> QED BY <1>2

\* TwoTo doubles from 1 on.
LEMMA TwosDouble ==
    /\ Twos[0] = 1
    /\ \A p \in 0 .. 149 : Twos[p] \in Nat /\ Twos[p] > 0
    /\ \A p \in 0 .. 148 : Twos[p + 1] = 2 * Twos[p]
<1>1. Twos = CHOOSE g : Doubling(149, g)
  BY Zenon DEF Twos, Packing!TwoTo, Doubling
<1>2. Doubling(149, Twos)
  BY <1>1, DoublingExists, Zenon
<1>3. \A p \in 0 .. 149 : Twos[p] = IF p = 0 THEN 1 ELSE 2 * Twos[p - 1]
  BY <1>2 DEF Doubling
<1>4. \A p \in 0 .. 149 : Twos[p] \in Nat /\ Twos[p] > 0
  <2> DEFINE T == {p \in 0 .. 149 : ~ (Twos[p] \in Nat /\ Twos[p] > 0)}
  <2>1. ASSUME NEW p \in T PROVE \E k \in T : k < p
    <3>1. p # 0
      BY <1>3
    <3>2. p - 1 \in 0 .. 149 /\ Twos[p] = 2 * Twos[p - 1]
      BY <1>3, <3>1
    <3>3. p - 1 \in T
      BY <3>2
    <3> QED BY <3>3
  <2>2. T = {}
    <3>1. T \subseteq Nat
      OBVIOUS
    <3> HIDE DEF T
    <3> QED BY <2>1, <3>1, NoLeast
  <2> QED BY <2>2
<1>5. \A p \in 0 .. 148 : Twos[p + 1] = 2 * Twos[p]
  <2>1. ASSUME NEW p \in 0 .. 148 PROVE Twos[p + 1] = 2 * Twos[p]
    <3>1. p + 1 \in 0 .. 149 /\ p + 1 # 0 /\ (p + 1) - 1 = p
      OBVIOUS
    <3> QED BY <1>3, <3>1
  <2> QED BY <2>1
<1> QED BY <1>3, <1>4, <1>5

\* The powers that are needed as numbers.
LEMMA SomeTwos == Twos[8] = 256 /\ Twos[16] = 65536 /\ Twos[23] = 8388608 /\ Pow(24) = 16777216
<1> DEFINE Next(p) == Twos[p + 1] = 2 * Twos[p]
<1>1. \A p \in 0 .. 148 : Next(p)
  BY TwosDouble
<1>2. /\ Next(0) /\ Next(1) /\ Next(2) /\ Next(3) /\ Next(4) /\ Next(5) /\ Next(6) /\ Next(7)
      /\ Next(8) /\ Next(9) /\ Next(10) /\ Next(11) /\ Next(12) /\ Next(13) /\ Next(14) /\ Next(15)
      /\ Next(16) /\ Next(17) /\ Next(18) /\ Next(19) /\ Next(20) /\ Next(21) /\ Next(22)
  <2> HIDE DEF Next
  <2> QED BY <1>1
<1>3. Twos[8] = 256
  BY <1>2, TwosDouble
<1>4. Twos[16] = 65536
  BY <1>2, <1>3, SMT
<1>5. Twos[23] = 8388608
  BY <1>2, <1>4, SMT
<1> QED BY <1>3, <1>4, <1>5, Powers, SMT

\* A greater power is a multiple of the lesser.
LEMMA TwosDivide ==
    ASSUME NEW q \in 0 .. 149, NEW p \in 0 .. 149, q <= p
    PROVE  \E t \in Nat : t > 0 /\ Twos[p] = Twos[q] * t
<1> DEFINE T == {k \in q .. 149 : ~ \E t \in Nat : t > 0 /\ Twos[k] = Twos[q] * t}
<1>0. Twos[q] \in Nat
  BY TwosDouble
<1>1. ASSUME NEW k \in T PROVE \E l \in T : l < k
  <2>1. k # q
    <3>1. Twos[q] = Twos[q] * 1
      BY <1>0
    <3> QED BY <3>1
  <2>2. k - 1 \in q .. 149 /\ k - 1 \in 0 .. 148 /\ (k - 1) + 1 = k
    BY <2>1
  <2>3. Twos[k] = 2 * Twos[k - 1]
    BY <2>2, TwosDouble
  <2>4. ASSUME NEW t \in Nat, t > 0, Twos[k - 1] = Twos[q] * t PROVE FALSE
    <3>1. PICK a \in Nat : a = Twos[q]
      BY <1>0
    <3>2. 2 * (a * t) = a * (2 * t) /\ 2 * t \in Nat /\ 2 * t > 0
      BY <2>4
    <3>3. Twos[k] = Twos[q] * (2 * t)
      BY <2>3, <2>4, <3>1, <3>2
    <3> QED BY <3>2, <3>3
  <2>5. k - 1 \in T
    BY <2>2, <2>4
  <2> QED BY <2>2, <2>5
<1>2. T = {}
  <2>1. T \subseteq Nat
    OBVIOUS
  <2> HIDE DEF T
  <2> QED BY <1>1, <2>1, NoLeast
<1> QED BY <1>2

\* A positive factor can be cancelled.
LEMMA Cancel ==
    ASSUME NEW a \in Int, NEW b \in Int, NEW c \in Nat, c > 0
    PROVE  /\ c * a = c * b => a = b
           /\ c * a < c * b => a < b
           /\ c * a <= c * b => a <= b
<1>1. a < b => c * a < c * b
  BY SMT
<1>2. b < a => c * b < c * a
  BY SMT
<1>3. c * a \in Int /\ c * b \in Int
  BY SMT
<1> QED BY <1>1, <1>2, <1>3

\* A product of sums: what is less than one whole number more.
LEMMA BelowNext ==
    ASSUME NEW a \in Nat, NEW b \in Nat, NEW d \in Nat, a * d < b * d + d
    PROVE  a <= b
<1>1. a >= b + 1 => a * d >= b * d + d
  BY SMT
<1>2. a * d \in Int /\ b * d + d \in Int
  BY SMT
<1> QED BY <1>1, <1>2

\* With p places a number of n/d has Twos[p] * n/d units; there is room for them below 2^24.
Room(n, d, p) == n * Twos[p] < d * Pow(24)

\* n/d is converted to N/D, a number of units of 1/S or less.
ConvertedTo(n, d, S, N, D) ==
    \E t \in Nat, off \in Int : t > 0 /\ D = S * t /\ RoundedTo(n * D, d, "even", N, off)

\* There is room for fewer places, too.
LEMMA FewerPlaces ==
    ASSUME NEW n \in Nat, NEW d \in Nat, NEW q \in 0 .. 149, NEW p \in 0 .. 149, q <= p, Room(n, d, p)
    PROVE  Room(n, d, q)
<1>1. PICK t \in Nat : t > 0 /\ Twos[p] = Twos[q] * t
  BY TwosDivide
<1>2. PICK a \in Nat : a = Twos[q]
  BY TwosDouble
<1>3. n * a <= n * (a * t)
  <2>1. PICK m \in Nat : m = n * a
    <3>1. n * a \in Nat
      BY SMT
    <3> QED BY <3>1
  <2>2. m <= m * t
    BY <1>1, SMT
  <2>3. n * (a * t) = (n * a) * t
    BY SMT
  <2> QED BY <2>1, <2>2, <2>3
<1>4. PICK P \in Nat : P = Pow(24)
  BY SomeTwos, SMT
<1>5. d * P \in Int /\ n * a \in Int /\ n * (a * t) \in Int
  BY SMT
<1> QED BY <1>1, <1>2, <1>3, <1>4, <1>5 DEF Room

\* Of a number with room for q places, float32() keeps that many or more.
LEMMA PlacesFound ==
    ASSUME NEW sign \in Packing!Signs, NEW n \in Nat, NEW d \in Nat, NEW q \in 0 .. 149, Room(n, d, q)
    PROVE  \E p \in q .. 149 : p = Packing!Places(Packing!Float(sign, n, d))
<1> DEFINE Most(p) == Room(n, d, p) /\ (p < 149 => ~ Room(n, d, p + 1))
<1>1. \E p \in 0 .. 149 : Most(p)
  <2> SUFFICES ASSUME \A p \in 0 .. 149 : ~ Most(p) PROVE FALSE
    OBVIOUS
  <2> DEFINE T == {p \in q .. 149 : ~ Room(n, d, p)}
  <2>1. ASSUME NEW p \in T PROVE \E k \in T : k < p
    <3>1. p # q
      OBVIOUS
    <3>2. p - 1 \in q .. 149 /\ p - 1 < 149 /\ (p - 1) + 1 = p /\ p - 1 \in 0 .. 149
      BY <3>1
    <3>3. ~ Room(n, d, p - 1)
      <4>1. ~ Most(p - 1)
        BY <3>2
      <4>2. ~ Room(n, d, p)
        OBVIOUS
      <4> HIDE DEF T
      <4> QED BY <3>2, <4>1, <4>2
    <3> QED BY <3>2, <3>3
  <2>2. T = {}
    <3>1. T \subseteq Nat
      OBVIOUS
    <3> HIDE DEF T
    <3> QED BY <2>1, <3>1, NoLeast
  <2>3. Room(n, d, 149) /\ 149 \in 0 .. 149 /\ ~ (149 < 149)
    BY <2>2
  <2> QED BY <2>3
<1>2. Packing!Places(Packing!Float(sign, n, d)) = CHOOSE p \in 0 .. 149 : Most(p)
  BY Zenon DEF Packing!Places, Packing!Fits, Packing!Float, Room, Twos, Pow
<1>3. PICK p : p = Packing!Places(Packing!Float(sign, n, d))
  OBVIOUS
<1>4. p \in 0 .. 149 /\ Most(p)
  <2> HIDE DEF Most
  <2> QED BY <1>1, <1>2, <1>3
<1>5. p >= q
  <2> SUFFICES ASSUME p < q PROVE FALSE
    BY <1>4
  <2>1. p + 1 \in 0 .. 149 /\ p < 149 /\ p + 1 <= q
    BY <1>4
  <2>2. Room(n, d, p + 1)
    BY <2>1, FewerPlaces
  <2> QED BY <1>4, <2>1, <2>2
<1> QED BY <1>3, <1>4, <1>5

\* Of such a number float32() makes N/D, with q places at least, within half a unit.
LEMMA Converted ==
    ASSUME NEW sign \in Packing!Signs, NEW n \in Nat, NEW d \in Nat, d > 0,
           NEW q \in 0 .. 149, Room(n, d, q)
    PROVE  \E N \in Nat, D \in Nat :
              /\ Packing!Float32(Packing!Float(sign, n, d)) = Packing!Float(sign, N, D)
              /\ D > 0 /\ ConvertedTo(n, d, Twos[q], N, D)
<1>1. PICK p \in q .. 149 : p = Packing!Places(Packing!Float(sign, n, d))
  BY PlacesFound
<1>2. p \in 0 .. 149 /\ q <= p
  OBVIOUS
<1>3. PICK t \in Nat : t > 0 /\ Twos[p] = Twos[q] * t
  BY <1>2, TwosDivide
<1>4. PICK D \in Nat : D = Twos[p] /\ D > 0
  BY <1>2, TwosDouble
<1>5. PICK m \in Nat : m = n * D
  <2>1. n * D \in Nat
    BY SMT
  <2> QED BY <2>1
<1>6. PICK N \in Nat, off \in Int :
         Packing!Round(Packing!Float(1, m, d), "even") = 1 * N /\ RoundedTo(m, d, "even", N, off)
  <2>1. 1 \in Packing!Signs /\ "even" \in RoundingModes
    BY DEF Packing!Signs, RoundingModes
  <2> QED BY <2>1, Rounds
<1>7. Packing!Float32(Packing!Float(sign, n, d)) = Packing!Float(sign, N, D)
  <2> DEFINE x == Packing!Float(sign, n, d)
  <2>1. x.sign = sign /\ x.n = n /\ x.d = d /\ x.d # 0
    BY DEF Packing!Float
  <2>2. p = Packing!Places(x)
    BY <1>1
  <2> HIDE DEF x
  <2>3. Packing!Float32(x) = Packing!InPlaces(x, p)
    BY <2>1, <2>2, Zenon DEF Packing!Float32
  <2>4. Packing!InPlaces(x, p) = Packing!Float(sign, Packing!Round(Packing!Float(1, n * Twos[p], d), "even"), Twos[p])
    BY <2>1, Zenon DEF Packing!InPlaces, Twos
  <2>5. Packing!Round(Packing!Float(1, n * Twos[p], d), "even") = N
    BY <1>4, <1>5, <1>6
  <2> QED BY <1>4, <2>3, <2>4, <2>5 DEF x
<1>8. ConvertedTo(n, d, Twos[q], N, D)
  BY <1>3, <1>4, <1>5, <1>6 DEF ConvertedTo
<1> QED BY <1>4, <1>7, <1>8

\* The words of snorms and unorms.
WordsOf(w) == 2^w
SignBit(w) == 2^(w - 1)

\* The largest snorm and the number of words of 8 and of 16 bits.
LEMMA Widths ==
    ASSUME NEW w \in {8, 16}
    PROVE  \E M \in {127, 32767}, W \in {256, 65536} :
              /\ Packing!SnormMax(w) = M /\ SignBit(w) = M + 1
              /\ WordsOf(w) = W /\ W = 2 * M + 2
<1>1. CASE w = 8
  <2>1. Packing!SnormMax(w) = 127 /\ SignBit(w) = 128 /\ WordsOf(w) = 256
    BY <1>1 DEF Packing!SnormMax, WordsOf, SignBit
  <2> QED BY <2>1
<1>2. CASE w = 16
  <2>1. Packing!SnormMax(w) = 32767 /\ SignBit(w) = 32768 /\ WordsOf(w) = 65536
    BY <1>2 DEF Packing!SnormMax, WordsOf, SignBit
  <2> QED BY <2>1
<1> QED BY <1>1, <1>2

\* -1, 0 and 1 as fractions.
LEMMA SmallFloats ==
    /\ Packing!One = Packing!Float(1, 1, 1) /\ Packing!Zero = Packing!Float(1, 0, 1)
    /\ Packing!Minus(Packing!One) = Packing!Float(-1, 1, 1)
BY DEF Packing!One, Packing!Zero, Packing!Minus, Packing!Float

\* What is left of a float by clamp: a number in the range.
LEMMA Clamped ==
    ASSUME NEW x \in Floats, NEW min \in {Packing!Minus(Packing!One), Packing!Zero}
    PROVE  \E sign \in Packing!Signs, n \in Nat, d \in Nat :
              /\ Packing!Clamp(x, min, Packing!One) = Packing!Float(sign, n, d)
              /\ d > 0 /\ n <= d
              /\ min = Packing!Zero => sign = 1 \/ n = 0
<1>1. PICK sign \in Packing!Signs, n \in Nat, d \in Nat :
         x = Packing!Float(sign, n, d) /\ (d > 0 \/ n = 1)
  <2>1. CASE x \in Packing!Infinities
    BY <2>1 DEF Packing!Infinities, Packing!Infinity
  <2>2. CASE x \in [sign : Packing!Signs, n : Nat, d : Nat \ {0}]
    BY <2>2 DEF Packing!Float
  <2> QED BY <2>1, <2>2 DEF Floats
<1>3. /\ Packing!Below(x, Packing!Zero) <=> sign = -1 /\ n > 0
      /\ Packing!Below(x, Packing!Minus(Packing!One)) <=> sign = -1 /\ n > d
      /\ Packing!Below(Packing!One, x) <=> sign = 1 /\ n > d
  BY <1>1, SmallFloats DEF Packing!Below, Packing!Num, Packing!Float, Packing!Signs
<1>4. Packing!Clamp(x, min, Packing!One) \in {Packing!One, min, x}
  BY DEF Packing!Clamp
<1>5. CASE Packing!Clamp(x, min, Packing!One) = Packing!One
  BY <1>5, SmallFloats DEF Packing!Signs
<1>6. CASE Packing!Clamp(x, min, Packing!One) = min /\ min = Packing!Zero
  BY <1>6, SmallFloats DEF Packing!Signs
<1>7. CASE Packing!Clamp(x, min, Packing!One) = min /\ min = Packing!Minus(Packing!One)
  <2>1. Packing!Minus(Packing!One) # Packing!Zero
    BY SmallFloats DEF Packing!Float
  <2> QED BY <1>7, <2>1, SmallFloats DEF Packing!Signs
<1>8. CASE Packing!Clamp(x, min, Packing!One) = x /\ x # min /\ x # Packing!One
  <2>1. ~ Packing!Below(x, min) /\ ~ Packing!Below(Packing!One, x)
    BY <1>8 DEF Packing!Clamp
  <2>2. n <= d /\ d > 0 /\ (min = Packing!Zero => sign = 1 \/ n = 0)
    <3>1. CASE min = Packing!Zero
      BY <1>1, <1>3, <2>1, <3>1 DEF Packing!Signs
    <3>2. CASE min = Packing!Minus(Packing!One)
      <4>1. min # Packing!Zero
        BY <3>2, SmallFloats DEF Packing!Float
      <4> QED BY <1>1, <1>3, <2>1, <3>2, <4>1 DEF Packing!Signs
    <3> QED BY <3>1, <3>2
  <2> QED BY <1>1, <1>8, <2>2
<1> QED BY <1>4, <1>5, <1>6, <1>7, <1>8

\* A number in the range is left as it is by clamp.
LEMMA Unclamped ==
    ASSUME NEW sign \in Packing!Signs, NEW n \in Nat, NEW d \in Nat, n <= d
    PROVE  /\ Packing!Clamp(Packing!Float(sign, n, d), Packing!Minus(Packing!One), Packing!One) = Packing!Float(sign, n, d)
           /\ sign = 1 => Packing!Clamp(Packing!Float(sign, n, d), Packing!Zero, Packing!One) = Packing!Float(sign, n, d)
<1>1. /\ ~ Packing!Below(Packing!Float(sign, n, d), Packing!Minus(Packing!One))
      /\ ~ Packing!Below(Packing!One, Packing!Float(sign, n, d))
      /\ sign = 1 => ~ Packing!Below(Packing!Float(sign, n, d), Packing!Zero)
  BY SmallFloats DEF Packing!Below, Packing!Num, Packing!Float, Packing!Signs
<1> QED BY <1>1 DEF Packing!Clamp

WithSign(sign, k) == sign * k

\* What a function makes of the numerator M at 1, and of the words there are.
Limit(f) == IF f.kind = "snorm" THEN Packing!SnormMax(f.w) ELSE WordsOf(f.w) - 1

\* The places that a float32 has at least of what fits the words.
PlacesOf(f) == 24 - f.w

\* The functions of snorms and unorms, and their numerators.
LEMMA NormFacts ==
    ASSUME NEW f \in NormFunctions
    PROVE  /\ f.kind \in {"snorm", "unorm"} /\ f.w \in {8, 16}
           /\ Limit(f) \in {127, 255, 32767, 65535}
           /\ PlacesOf(f) \in 0 .. 149
           /\ Twos[PlacesOf(f)] \in {256, 65536} /\ Limit(f) * Twos[PlacesOf(f)] < Pow(24)
<1>1. f.kind \in {"snorm", "unorm"} /\ f.w \in {8, 16}
  BY DEF NormFunctions, Packing!Functions, Packing!Function
<1>2. CASE f.w = 8
  <2>1. Limit(f) \in {127, 255}
    <3>1. Packing!SnormMax(8) = 127 /\ WordsOf(8) = 256
      BY DEF Packing!SnormMax, WordsOf
    <3> QED BY <1>2, <3>1 DEF Limit
  <2>2. PlacesOf(f) = 16
    BY <1>2 DEF PlacesOf
  <2> QED BY <1>1, <2>1, <2>2, SomeTwos, SMT
<1>3. CASE f.w = 16
  <2>1. Limit(f) \in {32767, 65535}
    <3>1. Packing!SnormMax(16) = 32767 /\ WordsOf(16) = 65536
      BY SMT DEF Packing!SnormMax, WordsOf
    <3> QED BY <1>3, <3>1, SMT DEF Limit
  <2>2. PlacesOf(f) = 8
    BY <1>3 DEF PlacesOf
  <2> QED BY <1>1, <2>1, <2>2, SomeTwos, SMT
<1> QED BY <1>1, <1>2, <1>3

\* n/d is M at most.
UpTo(n, d, M) == n <= M * d

\* Such a number is rounded to M at most, and to 0 if it is 0.
LEMMA RoundedUpTo ==
    ASSUME NEW n \in Nat, NEW d \in Nat, d > 0, NEW M \in Nat, UpTo(n, d, M),
           NEW mode, NEW k \in Nat, NEW off \in Int, RoundedTo(n, d, mode, k, off)
    PROVE  k <= M /\ (n = 0 => k = 0)
<1>1. k * d \in Nat /\ M * d \in Nat
  BY SMT
<1>2. n - k * d = off /\ -d <= 2 * off
  BY DEF RoundedTo
<1>3. k * d < M * d + d
  BY <1>1, <1>2 DEF UpTo
<1>4. n = 0 => k * d < d
  BY <1>1, <1>2
<1>5. k >= 1 => k * d >= d
  BY SMT
<1> QED BY <1>1, <1>3, <1>4, <1>5, BelowNext

\* The number N/D that is rounded for the fraction n/d of a function's numerator.
RoundedFor(f, sign, n, d, N, D) ==
    /\ Packing!Float32(Packing!Times(Packing!Float(sign, n, d), Limit(f))) = Packing!Float(sign, N, D)
    /\ D > 0 /\ UpTo(N, D, Limit(f)) /\ (n = 0 => N = 0)
    /\ \E m \in Nat : m = n * Limit(f) /\ ConvertedTo(m, d, Twos[PlacesOf(f)], N, D)

\* There is one, by way of float32().
LEMMA Product ==
    ASSUME NEW f \in NormFunctions, NEW sign \in Packing!Signs, NEW n \in Nat, NEW d \in Nat, d > 0, n <= d
    PROVE  \E N \in Nat, D \in Nat : RoundedFor(f, sign, n, d, N, D)
<1>1. PICK M \in Nat, S \in Nat, P \in Nat : M = Limit(f) /\ S = Twos[PlacesOf(f)] /\ P = Pow(24) /\ M * S < P /\ S > 0
  BY NormFacts, SomeTwos, SMT
<1>2. PICK m \in Nat : m = n * M /\ m <= d * M
  <2>1. n * M \in Nat /\ n * M <= d * M
    BY SMT
  <2> QED BY <2>1
<1>3. Room(m, d, PlacesOf(f))
  <2>1. m * S <= d * (M * S)
    <3>1. m * S <= (d * M) * S
      BY <1>2, SMT
    <3>2. (d * M) * S = d * (M * S)
      BY SMT
    <3> QED BY <3>1, <3>2
  <2>2. d * (M * S) < d * P
    <3>1. PICK a \in Nat : a = M * S /\ a < P
      <4>1. M * S \in Nat
        BY SMT
      <4> QED BY <1>1, <4>1
    <3>2. d * a < d * P
      BY <3>1, SMT
    <3> QED BY <3>1, <3>2
  <2>3. m * S \in Int /\ d * (M * S) \in Int /\ d * P \in Int
    BY SMT
  <2>4. m * S < d * P
    BY <2>1, <2>2, <2>3
  <2> QED BY <1>1, <2>4 DEF Room
<1>4. Packing!Times(Packing!Float(sign, n, d), M) = Packing!Float(sign, m, d)
  BY <1>2 DEF Packing!Times, Packing!Float
<1>5. PICK N \in Nat, D \in Nat :
         /\ Packing!Float32(Packing!Float(sign, m, d)) = Packing!Float(sign, N, D)
         /\ D > 0 /\ ConvertedTo(m, d, Twos[PlacesOf(f)], N, D)
  <2>1. PlacesOf(f) \in 0 .. 149
    BY NormFacts
  <2> QED BY <1>3, <2>1, Converted
<1>6. PICK off \in Int : RoundedTo(m * D, d, "even", N, off)
  BY <1>5 DEF ConvertedTo
<1>7. PICK L \in Nat, C \in Nat : L = M * D /\ C = m * D /\ C <= L * d /\ (m = 0 => C = 0)
  <2>1. M * D \in Nat /\ m * D \in Nat /\ (m = 0 => m * D = 0)
    BY SMT
  <2>2. m * D <= (d * M) * D
    BY <1>2, SMT
  <2>3. (d * M) * D = (M * D) * d
    BY SMT
  <2> QED BY <2>1, <2>2, <2>3
<1>8. N <= L /\ (C = 0 => N = 0)
  <2>1. UpTo(C, d, L) /\ RoundedTo(C, d, "even", N, off)
    BY <1>6, <1>7 DEF UpTo
  <2> QED BY <2>1, RoundedUpTo
<1>9. n = 0 => m = 0
  BY <1>2
<1>10. UpTo(N, D, M)
  BY <1>7, <1>8 DEF UpTo
<1> QED BY <1>1, <1>2, <1>4, <1>5, <1>7, <1>8, <1>9, <1>10 DEF RoundedFor

\* The word of a number with a sign.
LEMMA SnormWord ==
    ASSUME NEW w \in {8, 16}, NEW sign \in Packing!Signs, NEW k \in 0 .. Packing!SnormMax(w),
           NEW u, u = WithSign(sign, k) % WordsOf(w)
    PROVE  /\ u \in 0 .. WordsOf(w) - 1 /\ u # SignBit(w)
           /\ u % 2 = k % 2
           /\ Packing!Signed(w, u) = WithSign(sign, k)
<1> USE DEF WithSign
<1>1. PICK M \in {127, 32767}, W \in {256, 65536} :
         Packing!SnormMax(w) = M /\ SignBit(w) = M + 1 /\ WordsOf(w) = W /\ W = 2 * M + 2
  BY Widths
<1>2. k \in 0 .. M /\ sign \in {1, -1}
  BY <1>1 DEF Packing!Signs
<1>3. u = IF sign = -1 /\ k > 0 THEN W - k ELSE k
  <2>1. CASE sign = -1 /\ k > 0
    <3>1. sign * k = -k
      BY <1>2, <2>1
    <3>2. (-k) % W = W - k
      BY <1>1, <1>2, <2>1
    <3> QED BY <1>1, <2>1, <3>1, <3>2
  <2>2. CASE sign = 1 \/ k = 0
    <3>1. sign * k = k
      BY <1>2, <2>2
    <3>2. k % W = k
      BY <1>1, <1>2
    <3> QED BY <1>1, <1>2, <2>2, <3>1, <3>2
  <2> QED BY <1>2, <2>1, <2>2
<1>4. u \in 0 .. W - 1 /\ u # M + 1
  BY <1>1, <1>2, <1>3
<1>5. u % 2 = k % 2
  BY <1>1, <1>2, <1>3
<1>6. Packing!Signed(w, u) = sign * k
  <2>1. Packing!Signed(w, u) = IF u < M + 1 THEN u ELSE u - W
    BY <1>1 DEF Packing!Signed, SignBit, WordsOf
  <2> QED BY <1>1, <1>2, <1>3, <2>1
<1> QED BY <1>1, <1>4, <1>5, <1>6

\* The word of a number without a sign.
LEMMA UnormWord ==
    ASSUME NEW w \in {8, 16}, NEW sign \in Packing!Signs, NEW k \in 0 .. WordsOf(w) - 1, sign = 1 \/ k = 0,
           NEW u, u = WithSign(sign, k) % WordsOf(w)
    PROVE  u = k /\ u = WithSign(sign, k)
<1> USE DEF WithSign
<1>1. PICK W \in {256, 65536} : WordsOf(w) = W
  BY Widths
<1>2. k \in 0 .. W - 1 /\ sign \in {1, -1}
  BY <1>1 DEF Packing!Signs
<1>3. sign * k = k
  BY <1>2
<1>4. k % W = k
  BY <1>1, <1>2
<1> QED BY <1>1, <1>3, <1>4

\* The two ends of the range of a kind.
Least(f) == IF f.kind = "snorm" THEN Packing!Minus(Packing!One) ELSE Packing!Zero

\* What a word stands for.
ValueOfWord(f, u) == IF f.kind = "snorm" THEN Packing!Signed(f.w, u) ELSE u

\* The word of the number N/D is what that is rounded to.
LEMMA PackedWord ==
    ASSUME NEW f \in NormFunctions, NEW sign \in Packing!Signs, NEW n, NEW d, f.kind = "unorm" => sign = 1 \/ n = 0,
           NEW N \in Nat, NEW D \in Nat, RoundedFor(f, sign, n, d, N, D),
           NEW mode \in RoundingModes, NEW x,
           Packing!Clamp(x, Least(f), Packing!One) = Packing!Float(sign, n, d),
           NEW u, u = Packing!Pack(f, x, mode)
    PROVE  \E k \in 0 .. Limit(f), off \in Int :
              /\ RoundedTo(N, D, mode, k, off)
              /\ u % 2 = k % 2
              /\ u = WithSign(sign, k) % WordsOf(f.w)
              /\ ValueOfWord(f, u) = WithSign(sign, k)
<1>1. f.kind \in {"snorm", "unorm"} /\ f.w \in {8, 16} /\ Limit(f) \in {127, 255, 32767, 65535}
  BY NormFacts
<1>2. PICK M \in Nat : M = Limit(f)
  BY <1>1
<1>0. /\ Packing!Float32(Packing!Times(Packing!Float(sign, n, d), M)) = Packing!Float(sign, N, D)
      /\ D > 0 /\ UpTo(N, D, M) /\ (n = 0 => N = 0)
  BY <1>2 DEF RoundedFor
<1>3. PICK k \in Nat, off \in Int :
         Packing!Round(Packing!Float(sign, N, D), mode) = sign * k /\ RoundedTo(N, D, mode, k, off)
  BY <1>0, Rounds
<1>4. k \in 0 .. M /\ (N = 0 => k = 0)
  BY <1>0, <1>3, RoundedUpTo
<1>5. Packing!RoundFloat(Packing!Times(Packing!Float(sign, n, d), M), mode) = WithSign(sign, k)
  BY <1>0, <1>3 DEF Packing!RoundFloat, WithSign
<1>6. CASE f.kind = "snorm"
  <2>1. u = WithSign(sign, k) % WordsOf(f.w)
    BY <1>2, <1>5, <1>6 DEF Packing!Pack, Packing!PackSnorm, WordsOf, Limit, Least
  <2>2. u % 2 = k % 2 /\ Packing!Signed(f.w, u) = WithSign(sign, k)
    <3>1. k \in 0 .. Packing!SnormMax(f.w)
      BY <1>2, <1>4, <1>6 DEF Limit
    <3> QED BY <1>1, <2>1, <3>1, SnormWord
  <2> QED BY <1>2, <1>3, <1>4, <1>6, <2>1, <2>2 DEF ValueOfWord
<1>7. CASE f.kind = "unorm"
  <2>1. u = WithSign(sign, k) % WordsOf(f.w)
    BY <1>2, <1>5, <1>7 DEF Packing!Pack, Packing!PackUnorm, WordsOf, Limit, Least
  <2>2. u = k /\ u = WithSign(sign, k)
    <3>1. k \in 0 .. WordsOf(f.w) - 1 /\ (sign = 1 \/ k = 0)
      BY <1>0, <1>2, <1>4, <1>7 DEF Limit
    <3> QED BY <1>1, <2>1, <3>1, UnormWord
  <2> QED BY <1>2, <1>3, <1>4, <1>7, <2>1, <2>2 DEF ValueOfWord
<1> QED BY <1>1, <1>6, <1>7

\* m/d is within one half and 1/2S of k.
Near(m, d, S, k) == \E X \in Int : X = m - k * d /\ 2 * (S * X) <= (S + 1) * d /\ -((S + 1) * d) <= 2 * (S * X)

\* A number is near to what it is rounded to by way of N/D.
LEMMA TwiceRounded ==
    ASSUME NEW m \in Nat, NEW d \in Nat, NEW N \in Nat, NEW D \in Nat, NEW S \in Nat, S > 0, d > 0,
           ConvertedTo(m, d, S, N, D),
           NEW mode, NEW k \in Nat, NEW off2 \in Int, RoundedTo(N, D, mode, k, off2)
    PROVE  Near(m, d, S, k)
<1>0. PICK t \in Nat, off \in Int : t > 0 /\ D = S * t /\ RoundedTo(m * D, d, "even", N, off)
  BY DEF ConvertedTo
<1>1. PICK X \in Int, p \in Int : p = k * d /\ X = m - p
  <2>1. k * d \in Int
    BY SMT
  <2> QED BY <2>1
<1>2. D > 0
  <2>1. S * t > 0
    BY <1>0, SMT
  <2> QED BY <1>0, <2>1
<1>3. D * X = off + d * off2
  <2>1. D * X = m * D - (k * d) * D
    BY <1>1, SMT
  <2>2. m * D - N * d = off /\ N - k * D = off2
    BY <1>0 DEF RoundedTo
  <2>3. d * (N - k * D) = N * d - (k * d) * D
    BY SMT
  <2> QED BY <2>1, <2>2, <2>3
<1>4. /\ 2 * off <= d /\ -d <= 2 * off
      /\ 2 * off2 <= D /\ -D <= 2 * off2
  BY <1>0 DEF RoundedTo
<1>5. 2 * (d * off2) <= d * D /\ -(d * D) <= 2 * (d * off2)
  <2>1. d * (2 * off2) <= d * D /\ d * (-D) <= d * (2 * off2)
    BY <1>4, SMT
  <2>2. d * (2 * off2) = 2 * (d * off2) /\ d * (-D) = -(d * D)
    BY SMT
  <2> QED BY <2>1, <2>2
<1>6. 2 * (D * X) <= d + d * D /\ -(d + d * D) <= 2 * (D * X)
  <2>1. d * off2 \in Int /\ d * D \in Int /\ D * X \in Int
    BY SMT
  <2> QED BY <1>3, <1>4, <1>5, <2>1
<1>7. d + d * D <= t * ((S + 1) * d)
  <2>1. t * ((S + 1) * d) = (S * t) * d + t * d
    BY SMT
  <2>2. t * d >= d
    BY <1>0, SMT
  <2>3. (S * t) * d = d * D
    BY <1>0, SMT
  <2>4. d * D \in Int /\ t * d \in Int
    BY SMT
  <2> QED BY <2>1, <2>2, <2>3, <2>4
<1>8. 2 * (D * X) = t * (2 * (S * X))
  <2>1. (S * t) * X = t * (S * X)
    BY SMT
  <2>2. t * (2 * (S * X)) = 2 * (t * (S * X))
    BY SMT
  <2> QED BY <1>0, <2>1, <2>2
<1>9. PICK a \in Int, b \in Int : a = 2 * (S * X) /\ b = (S + 1) * d
  <2>1. 2 * (S * X) \in Int /\ (S + 1) * d \in Int
    BY SMT
  <2> QED BY <2>1
<1>10. t * a <= t * b /\ t * (-b) <= t * a
  <2>1. t * (-b) = -(t * b)
    BY SMT
  <2>2. t * a \in Int /\ t * b \in Int /\ d + d * D \in Int
    BY SMT
  <2> QED BY <1>6, <1>7, <1>8, <1>9, <2>1, <2>2
<1>11. a <= b /\ -b <= a
  <2>1. -b \in Int
    OBVIOUS
  <2> QED BY <1>0, <1>10, <2>1, Cancel
<1> QED BY <1>1, <1>9, <1>11 DEF Near

\* A component packed in either way, against the definitions PackingSound uses.
LEMMA NearestOne ==
    ASSUME NEW f \in NormFunctions, NEW x \in Floats, NEW mode \in RoundingModes
    PROVE  Packing!Nearest(f, x, Packing!Pack(f, x, mode))
<1>1. /\ f.kind \in {"snorm", "unorm"} /\ Limit(f) \in {127, 255, 32767, 65535}
      /\ Twos[PlacesOf(f)] \in {256, 65536}
  BY NormFacts
<1>2. Least(f) \in {Packing!Minus(Packing!One), Packing!Zero} /\ (f.kind = "unorm" => Least(f) = Packing!Zero)
  BY <1>1 DEF Least
<1>3. PICK sign \in Packing!Signs, n \in Nat, d \in Nat :
         /\ Packing!Clamp(x, Least(f), Packing!One) = Packing!Float(sign, n, d)
         /\ d > 0 /\ n <= d
         /\ f.kind = "unorm" => sign = 1 \/ n = 0
  BY <1>2, Clamped
<1>4. PICK N \in Nat, D \in Nat : RoundedFor(f, sign, n, d, N, D)
  BY <1>3, Product
<1>5. PICK M \in Nat, S \in Nat : M = Limit(f) /\ S = Twos[PlacesOf(f)] /\ S > 0
  BY <1>1
<1> DEFINE u == Packing!Pack(f, x, mode)
<1>7. PICK k \in 0 .. Limit(f), off2 \in Int :
         RoundedTo(N, D, mode, k, off2) /\ ValueOfWord(f, u) = WithSign(sign, k)
  <2>0. u = Packing!Pack(f, x, mode)
    OBVIOUS
  <2> HIDE DEF u
  <2> QED BY <2>0, <1>3, <1>4, PackedWord
<1> HIDE DEF u
<1>6. PICK m \in Nat : m = n * M /\ ConvertedTo(m, d, S, N, D)
  BY <1>4, <1>5 DEF RoundedFor
<1>8. PICK p \in Nat : p = k * d /\ k \in Nat
  <2>1. k \in Nat
    BY <1>1
  <2>2. k * d \in Nat
    BY <2>1, SMT
  <2> QED BY <2>1, <2>2
<1>9. PICK X \in Int : X = m - p /\ 2 * (S * X) <= (S + 1) * d /\ -((S + 1) * d) <= 2 * (S * X)
  <2>1. Near(m, d, S, k)
    BY <1>3, <1>5, <1>6, <1>7, <1>8, TwiceRounded
  <2> QED BY <1>8, <2>1 DEF Near
<1>10. PICK Y \in Int : Y = 2 * (S * Packing!Distance(sign * m, sign * p)) /\ Y <= (S + 1) * d
  <2>1. Packing!Distance(sign * m, sign * p) \in {X, -X}
    BY <1>9 DEF Packing!Distance, Packing!Signs
  <2>2. S * (-X) = -(S * X)
    BY SMT
  <2>3. S * X \in Int /\ (S + 1) * d \in Int
    BY SMT
  <2> QED BY <1>9, <2>1, <2>2, <2>3
<1>11. (sign * n) * M = sign * m /\ WithSign(sign, k) * d = sign * p
  <2>1. (sign * n) * M = sign * (n * M) /\ (sign * k) * d = sign * (k * d)
    BY <1>8, SMT DEF Packing!Signs
  <2> QED BY <1>6, <1>8, <2>1 DEF WithSign
<1>12. Packing!NearestWord(f, x, u)
  <2> DEFINE c == Packing!Float(sign, n, d)
  <2>1. c = Packing!Clamp(x, IF f.kind = "snorm" THEN Packing!Minus(Packing!One) ELSE Packing!Zero, Packing!One)
    BY <1>3 DEF Least
  <2>2. Packing!Num(c) = sign * n /\ c.d = d
    BY DEF Packing!Num, Packing!Float
  <2>3. M = IF f.kind = "snorm" THEN Packing!SnormMax(f.w) ELSE 2^f.w - 1
    BY <1>5 DEF Limit, WordsOf
  <2>4. ValueOfWord(f, u) = IF f.kind = "snorm" THEN Packing!Signed(f.w, u) ELSE u
    BY DEF ValueOfWord
  <2>5. S = Packing!TwoTo[24 - f.w]
    BY <1>5 DEF Twos, PlacesOf
  <2> HIDE DEF c
  <2>6. Packing!NearestWord(f, x, u)
        <=> 2 * (S * Packing!Distance(Packing!Num(c) * M, ValueOfWord(f, u) * c.d)) <= (S + 1) * c.d
    BY <2>1, <2>3, <2>4, <2>5, Zenon DEF Packing!NearestWord
  <2> QED BY <1>7, <1>10, <1>11, <2>2, <2>6
<1> QED BY <1>1, <1>12 DEF Packing!Nearest, u

\* Two words are nearest only to what is half way between them.
LEMMA EvenOne ==
    ASSUME NEW a \in Int, NEW d \in Nat, d > 0, NEW k \in Nat, NEW l \in Nat, k # l,
           NEW off \in Int, RoundedTo(a, d, "even", k, off),
           NEW off2 \in Int, RoundedTo(a, d, "nearest", l, off2)
    PROVE  k % 2 = 0 /\ l % 2 = 1
<1>1. PICK p \in Int, q \in Int : p = k * d /\ q = l * d
  <2>1. k * d \in Int /\ l * d \in Int
    BY SMT
  <2> QED BY <2>1
<1>2. /\ a - p = off /\ 2 * off <= d /\ -d <= 2 * off /\ (2 * off = d => k % 2 = 0)
      /\ a - q = off2 /\ 2 * off2 <= d /\ -d <= 2 * off2 /\ 2 * off2 # d
  BY <1>1 DEF RoundedTo
<1>3. l >= k + 1 => q >= p + d
  <2>1. l >= k + 1 => l * d >= k * d + d
    BY SMT
  <2> QED BY <1>1, <2>1
<1>4. l >= k + 2 => q >= p + 2 * d
  <2>1. l >= k + 2 => l * d >= k * d + 2 * d
    BY SMT
  <2> QED BY <1>1, <2>1
<1>5. k >= l + 1 => p >= q + d
  <2>1. k >= l + 1 => k * d >= l * d + d
    BY SMT
  <2> QED BY <1>1, <2>1
<1>6. l = k + 1 /\ k % 2 = 0
  BY <1>2, <1>3, <1>4, <1>5
<1> QED BY <1>6, Parity

\* The words that the tests of the packing functions of snorms and unorms accept of
\* any float, infinities included, are within one half and half the unit of a float32 of it
\* (FuncOpts.round converts before it rounds), and where two are accepted the first is the
\* even one (gen_builtin_packing_tests.py, pack_snorm_1x8 to pack_unorm_1x16).
THEOREM WordsAreNearest ==
    ASSUME NEW f \in NormFunctions, NEW x \in Floats
    PROVE  Packing!RightlyPacked(f, x, [m \in 1 .. 2 |-> Packing!Pack(f, x, Packing!Modes[m])])
<1> DEFINE u == Packing!Pack(f, x, "even")
           v == Packing!Pack(f, x, "nearest")
<1>1. [m \in 1 .. 2 |-> Packing!Pack(f, x, Packing!Modes[m])] = <<u, v>>
  <2>1. Packing!Modes[1] = "even" /\ Packing!Modes[2] = "nearest"
    BY DEF Packing!Modes
  <2> HIDE DEF u, v
  <2>2. [m \in 1 .. 2 |-> Packing!Pack(f, x, Packing!Modes[m])][1] = u
    BY <2>1 DEF u
  <2>3. [m \in 1 .. 2 |-> Packing!Pack(f, x, Packing!Modes[m])][2] = v
    BY <2>1 DEF v
  <2> QED BY <2>2, <2>3
<1>2. Packing!Nearest(f, x, u) /\ Packing!Nearest(f, x, v)
  BY NearestOne DEF RoundingModes
<1>3. (Packing!Even(u) /\ ~ Packing!Even(v)) \/ u = v
  <2>1. f.kind \in {"snorm", "unorm"} /\ Limit(f) \in {127, 255, 32767, 65535}
    BY NormFacts
  <2>2. Least(f) \in {Packing!Minus(Packing!One), Packing!Zero} /\ (f.kind = "unorm" => Least(f) = Packing!Zero)
    BY <2>1 DEF Least
  <2>3. PICK sign \in Packing!Signs, n \in Nat, d \in Nat :
           /\ Packing!Clamp(x, Least(f), Packing!One) = Packing!Float(sign, n, d)
           /\ d > 0 /\ n <= d
           /\ f.kind = "unorm" => sign = 1 \/ n = 0
    BY <2>2, Clamped
  <2>8. PICK N \in Nat, D \in Nat : RoundedFor(f, sign, n, d, N, D)
    BY <2>3, Product
  <2>4. PICK k \in 0 .. Limit(f), off \in Int :
           /\ RoundedTo(N, D, "even", k, off)
           /\ u % 2 = k % 2 /\ u = WithSign(sign, k) % WordsOf(f.w)
    <3>1. "even" \in RoundingModes
      BY DEF RoundingModes
    <3> QED BY <2>3, <2>8, <3>1, PackedWord
  <2>5. PICK l \in 0 .. Limit(f), off2 \in Int :
           /\ RoundedTo(N, D, "nearest", l, off2)
           /\ v % 2 = l % 2 /\ v = WithSign(sign, l) % WordsOf(f.w)
    <3>1. "nearest" \in RoundingModes
      BY DEF RoundingModes
    <3> QED BY <2>3, <2>8, <3>1, PackedWord
  <2> HIDE DEF u, v
  <2>6. CASE k = l
    BY <2>4, <2>5, <2>6
  <2>7. CASE k # l
    <3>3. k \in Nat /\ l \in Nat
      BY <2>1
    <3>4. k % 2 = 0 /\ l % 2 = 1
      <4>1. D > 0 /\ N \in Int /\ RoundedTo(N, D, "even", k, off) /\ RoundedTo(N, D, "nearest", l, off2)
        BY <2>4, <2>5, <2>8 DEF RoundedFor
      <4> QED BY <2>7, <3>3, <4>1, EvenOne
    <3> QED BY <2>4, <2>5, <3>4 DEF Packing!Even
  <2> QED BY <2>6, <2>7
<1> HIDE DEF u, v
<1>4. Packing!RightlyPacked(f, x, <<u, v>>)
  <2>1. Packing!ToSet(<<u, v>>) = {u, v}
    BY DEF Packing!ToSet
  <2> QED BY <1>2, <1>3, <2>1 DEF Packing!RightlyPacked
<1> QED BY <1>1, <1>4

\* n/d is within half a unit of k/M.
Within(k, M, n, d) == 2 * (k * d - n * M) <= M /\ -M <= 2 * (k * d - n * M)

\* A fraction up to 1 is converted to one with 23 places at least.
LEMMA UnitConverted ==
    ASSUME NEW sign \in Packing!Signs, NEW k \in Nat, NEW M \in Nat, M > 0, k <= M
    PROVE  \E n \in Nat, d \in Nat :
              /\ Packing!Float32(Packing!Float(sign, k, M)) = Packing!Float(sign, n, d)
              /\ d >= 8388608 /\ n <= d
              /\ Within(k, M, n, d)
              /\ k = M => n = d
<1>1. PICK S \in Nat : S = Twos[23] /\ S = 8388608 /\ Pow(24) = 2 * S
  BY SomeTwos, SMT
<1>2. Room(k, M, 23)
  <2>1. k * S <= M * S
    BY SMT
  <2>2. M * S < M * (2 * S)
    BY <1>1, SMT
  <2>3. k * S \in Int /\ M * S \in Int /\ M * (2 * S) \in Int
    BY SMT
  <2> QED BY <1>1, <2>1, <2>2, <2>3 DEF Room
<1>3. PICK n \in Nat, d \in Nat :
         /\ Packing!Float32(Packing!Float(sign, k, M)) = Packing!Float(sign, n, d)
         /\ ConvertedTo(k, M, Twos[23], n, d)
  <2>1. 23 \in 0 .. 149
    OBVIOUS
  <2> QED BY <1>2, <2>1, Converted
<1>4. PICK t \in Nat, off \in Int : t > 0 /\ d = S * t /\ RoundedTo(k * d, M, "even", n, off)
  <2>1. ConvertedTo(k, M, S, n, d)
    BY <1>1, <1>3
  <2> QED BY <2>1 DEF ConvertedTo
<1>9. d >= 8388608
  BY <1>1, <1>4, SMT
<1>5. k * d - n * M = off /\ 2 * off <= M /\ -M <= 2 * off
  BY <1>4 DEF RoundedTo
<1>6. k * d \in Nat /\ n * M \in Nat /\ d * M \in Nat /\ k * d <= d * M /\ (k = M => k * d = d * M)
  BY SMT
<1>7. n <= d
  <2>1. n * M < d * M + M
    BY <1>5, <1>6
  <2> QED BY <2>1, BelowNext
<1>8. k = M => d <= n
  <2>1. k = M => d * M < n * M + M
    BY <1>5, <1>6
  <2> QED BY <2>1, BelowNext
<1>10. Within(k, M, n, d)
  BY <1>5 DEF Within
<1> QED BY <1>3, <1>7, <1>8, <1>9, <1>10

\* The word of a value, which is that of its successor for the least snorm.
Restored(f, u) == IF f.kind = "snorm" /\ u = SignBit(f.w) THEN u + 1 ELSE u

\* What a word stands for: a magnitude with a sign, and for the least snorm -1 as for its
\* successor.
LEMMA Represented ==
    ASSUME NEW f \in NormFunctions, NEW u \in 0 .. WordsOf(f.w) - 1
    PROVE  \E sign \in Packing!Signs, k \in 0 .. Limit(f) :
              /\ \/ Packing!Unpack(f, u) = Packing!Float32(Packing!Float(sign, k, Limit(f)))
                 \/ k = Limit(f) /\ Packing!Unpack(f, u) = Packing!Float32(Packing!Float(sign, 1, 1))
              /\ f.kind = "unorm" => sign = 1
              /\ WithSign(sign, k) % WordsOf(f.w) = Restored(f, u)
<1>1. f.kind \in {"snorm", "unorm"} /\ f.w \in {8, 16} /\ Limit(f) \in {127, 255, 32767, 65535}
  BY NormFacts
<1>2. PICK M \in {127, 32767}, W \in {256, 65536} :
         /\ Packing!SnormMax(f.w) = M /\ SignBit(f.w) = M + 1
         /\ WordsOf(f.w) = W /\ W = 2 * M + 2
  BY <1>1, Widths
<1>3. CASE f.kind = "unorm"
  <2>1. Packing!Unpack(f, u) = Packing!Float32(Packing!Float(1, u, Limit(f))) /\ Limit(f) = W - 1
    BY <1>2, <1>3 DEF Packing!Unpack, Packing!UnpackUnorm, Limit, WordsOf
  <2>2. u \in 0 .. W - 1
    BY <1>2
  <2>3. WithSign(1, u) % WordsOf(f.w) = u
    BY <1>2, <2>2 DEF WithSign
  <2>4. 1 \in Packing!Signs /\ u \in 0 .. Limit(f)
    BY <1>2, <2>1, <2>2 DEF Packing!Signs
  <2> QED BY <1>3, <2>1, <2>3, <2>4 DEF Restored
<1>4. CASE f.kind = "snorm"
  <2> DEFINE i == Packing!Signed(f.w, u)
             y == IF i < 0 THEN Packing!Float(-1, -i, M) ELSE Packing!Float(1, i, M)
  <2>1. Packing!Unpack(f, u) = Packing!Float32(Packing!Clamp(y, Packing!Minus(Packing!One), Packing!One)) /\ Limit(f) = M
    BY <1>2, <1>4 DEF Packing!Unpack, Packing!UnpackSnorm, Limit
  <2>2. u \in 0 .. W - 1 /\ i = IF u < M + 1 THEN u ELSE u - W
    BY <1>2 DEF Packing!Signed, SignBit, WordsOf
  <2> HIDE DEF i
  <2>3. CASE u <= M
    <3>1. y = Packing!Float(1, u, M)
      BY <1>2, <2>2, <2>3
    <3>2. WithSign(1, u) % W = u
      BY <1>2, <2>2 DEF WithSign
    <3>3. 1 \in Packing!Signs /\ u \in Nat /\ M \in Nat /\ u \in 0 .. M
      BY <2>2, <2>3 DEF Packing!Signs
    <3>4. Packing!Clamp(Packing!Float(1, u, M), Packing!Minus(Packing!One), Packing!One) = Packing!Float(1, u, M)
      BY <2>3, <3>3, Unclamped
    <3>5. u # SignBit(f.w)
      BY <1>2, <2>2, <2>3
    <3> QED BY <1>2, <1>4, <2>1, <2>3, <3>1, <3>2, <3>3, <3>4, <3>5 DEF Restored
  <2>4. CASE u = M + 1
    <3>1. y = Packing!Float(-1, M + 1, M)
      BY <1>2, <2>2, <2>4
    <3>2. Packing!Below(Packing!Float(-1, M + 1, M), Packing!Minus(Packing!One))
      BY SmallFloats DEF Packing!Below, Packing!Num, Packing!Float
    <3>3. Packing!Clamp(y, Packing!Minus(Packing!One), Packing!One) = Packing!Float(-1, 1, 1)
      BY <3>1, <3>2, SmallFloats DEF Packing!Clamp
    <3>4. WithSign(-1, M) % W = M + 2
      BY <1>2 DEF WithSign
    <3>5. -1 \in Packing!Signs /\ M \in 0 .. M
      BY DEF Packing!Signs
    <3> HIDE DEF y
    <3> QED BY <1>2, <1>4, <2>1, <2>4, <3>3, <3>4, <3>5 DEF Restored
  <2>5. CASE u > M + 1
    <3>1. y = Packing!Float(-1, W - u, M)
      <4>1. i = u - W /\ i < 0 /\ -i = W - u
        BY <1>2, <2>2, <2>5
      <4> QED BY <4>1
    <3>2. WithSign(-1, W - u) % W = u
      <4>1. -1 * (W - u) = u - W
        BY <2>2
      <4>2. (u - W) % W = u
        BY <1>2, <2>2
      <4> QED BY <4>1, <4>2 DEF WithSign
    <3>3. -1 \in Packing!Signs /\ W - u \in Nat /\ M \in Nat /\ W - u \in 0 .. M
      BY <1>2, <2>2, <2>5 DEF Packing!Signs
    <3>4. Packing!Clamp(Packing!Float(-1, W - u, M), Packing!Minus(Packing!One), Packing!One) = Packing!Float(-1, W - u, M)
      BY <3>3, Unclamped
    <3>5. u # SignBit(f.w)
      BY <1>2, <2>2, <2>5
    <3> HIDE DEF y
    <3> QED BY <1>2, <1>4, <2>1, <3>1, <3>2, <3>3, <3>4, <3>5 DEF Restored
  <2> QED BY <2>2, <2>3, <2>4, <2>5
<1> QED BY <1>1, <1>3, <1>4

\* The units 1/d and 1/S are as small as they are for words of 16 bits at most.
SmallUnits(M, S, d) == M > 0 /\ S >= 256 /\ M * S < 16777216 /\ d >= 8388608

\* What is rounded twice from k/M, with units 1/d and then 1/S, and back to M is k again.
LEMMA SameAgain ==
    ASSUME NEW M \in Nat, NEW k \in Nat, NEW l \in Nat, NEW n \in Nat, NEW d \in Nat, NEW S \in Nat,
           SmallUnits(M, S, d), Within(k, M, n, d), NEW m, Near(m, d, S, l), m = n * M
    PROVE  k = l
<1>0. M > 0 /\ S >= 256 /\ M * S < 16777216 /\ d >= 8388608
  BY DEF SmallUnits
<1>1. PICK a \in Nat, b \in Nat, c \in Nat : a = k * d /\ b = n * M /\ c = l * d
  <2>1. k * d \in Nat /\ n * M \in Nat /\ l * d \in Nat
    BY SMT
  <2> QED BY <2>1
<1>2. PICK A \in Int, B \in Int, P \in Int, Q \in Int :
         A = S * (a - b) /\ B = S * (b - c) /\ P = M * S /\ Q = S * d
  <2>1. S * (a - b) \in Int /\ S * (b - c) \in Int /\ M * S \in Int /\ S * d \in Int
    BY SMT
  <2> QED BY <2>1
<1>3. 2 * A <= P /\ -P <= 2 * A
  <2>0. 2 * (a - b) <= M /\ -M <= 2 * (a - b)
    BY <1>1 DEF Within
  <2>1. S * (2 * (a - b)) <= S * M /\ S * (-M) <= S * (2 * (a - b))
    BY <2>0, SMT
  <2>2. S * (2 * (a - b)) = 2 * (S * (a - b)) /\ S * (-M) = -(M * S) /\ S * M = M * S
    BY SMT
  <2> QED BY <1>2, <2>1, <2>2
<1>4. 2 * B <= Q + d /\ -(Q + d) <= 2 * B
  <2>1. (S + 1) * d = S * d + d
    BY SMT
  <2>2. 2 * (S * (b - c)) <= (S + 1) * d /\ -((S + 1) * d) <= 2 * (S * (b - c))
    BY <1>1 DEF Near
  <2> QED BY <1>2, <2>1, <2>2
<1>5. 2 * (S * (a - c)) <= P + Q + d /\ -(P + Q + d) <= 2 * (S * (a - c))
  <2>1. S * (a - c) = A + B
    <3>1. S * (a - c) = S * (a - b) + S * (b - c)
      BY SMT
    <3> QED BY <1>2, <3>1
  <2> QED BY <1>3, <1>4, <2>1
<1>6. Q >= P + d + 1
  <2>1. Q >= 256 * d
    BY <1>0, <1>2, SMT
  <2> QED BY <1>0, <1>2, <2>1
<1>7. ASSUME k >= l + 1 PROVE FALSE
  <2>1. a >= c + d
    <3>1. k * d >= l * d + d
      BY <1>7, SMT
    <3> QED BY <1>1, <3>1
  <2>2. S * (a - c) >= S * d
    BY <2>1, SMT
  <2> QED BY <1>0, <1>2, <1>5, <1>6, <2>2
<1>8. ASSUME l >= k + 1 PROVE FALSE
  <2>1. c >= a + d
    <3>1. l * d >= k * d + d
      BY <1>8, SMT
    <3> QED BY <1>1, <3>1
  <2>2. S * (a - c) <= S * (-d)
    BY <2>1, SMT
  <2>3. S * (-d) = -(S * d)
    BY SMT
  <2> QED BY <1>0, <1>2, <1>5, <1>6, <2>2, <2>3
<1> QED BY <1>7, <1>8

\* The float that the tests of the unpacking functions expect of any word packs into that
\* word again, in either way, but for the least snorm (unpack_snorm_1x8 to
\* unpack_unorm_1x16): what float32() loses on the way there and back is never enough for
\* another word.
THEOREM WordsRepack ==
    ASSUME NEW f \in NormFunctions, NEW u \in 0 .. 2^f.w - 1
    PROVE  Packing!RightlyUnpacked(f, Packing!Unpack(f, u), u)
<1>1. f.kind \in {"snorm", "unorm"} /\ Limit(f) \in {127, 255, 32767, 65535}
  BY NormFacts
<1>2. u \in 0 .. WordsOf(f.w) - 1
  BY DEF WordsOf
<1> DEFINE y == Packing!Unpack(f, u)
<1>3. PICK sign \in Packing!Signs, k \in 0 .. Limit(f) :
         /\ \/ y = Packing!Float32(Packing!Float(sign, k, Limit(f)))
            \/ k = Limit(f) /\ y = Packing!Float32(Packing!Float(sign, 1, 1))
         /\ f.kind = "unorm" => sign = 1
         /\ WithSign(sign, k) % WordsOf(f.w) = Restored(f, u)
  BY <1>2, Represented
<1> HIDE DEF y
<1>4. PICK M \in Nat, S \in Nat : M = Limit(f) /\ S = Twos[PlacesOf(f)] /\ M > 0 /\ S >= 256 /\ M * S < 16777216 /\ k \in Nat /\ k <= M
  BY <1>1, NormFacts, SomeTwos, SMT
<1>5. PICK n \in Nat, d \in Nat :
         /\ y = Packing!Float(sign, n, d)
         /\ d >= 8388608 /\ n <= d
         /\ Within(k, M, n, d)
  <2>1. CASE y = Packing!Float32(Packing!Float(sign, k, Limit(f)))
    BY <1>4, <2>1, UnitConverted
  <2>2. CASE k = Limit(f) /\ y = Packing!Float32(Packing!Float(sign, 1, 1))
    <3>1. PICK n \in Nat, d \in Nat : y = Packing!Float(sign, n, d) /\ d >= 8388608 /\ n = d
      BY <2>2, UnitConverted
    <3>2. k * d - n * M = 0
      <4>1. M * d = d * M /\ M * d \in Int
        BY SMT
      <4> QED BY <1>4, <2>2, <3>1, <4>1
    <3>3. Within(k, M, n, d)
      BY <1>4, <3>2 DEF Within
    <3> QED BY <3>1, <3>3
  <2> QED BY <1>3, <2>1, <2>2
<1>6. Packing!Clamp(y, Least(f), Packing!One) = Packing!Float(sign, n, d)
  <2>1. CASE f.kind = "snorm"
    BY <1>5, <2>1, Unclamped DEF Least
  <2>2. CASE f.kind = "unorm"
    BY <1>3, <1>5, <2>2, Unclamped DEF Least
  <2> QED BY <1>1, <2>1, <2>2
<1>7. PICK N \in Nat, D \in Nat : RoundedFor(f, sign, n, d, N, D)
  <2>1. d > 0
    BY <1>5
  <2> QED BY <1>5, <2>1, Product
<1>8. PICK m \in Nat : m = n * M /\ ConvertedTo(m, d, S, N, D)
  BY <1>4, <1>7 DEF RoundedFor
<1>9. ASSUME NEW mode \in RoundingModes
      PROVE  Packing!Pack(f, y, mode) = Restored(f, u)
  <2> DEFINE v == Packing!Pack(f, y, mode)
  <2>1. PICK l \in 0 .. Limit(f), off2 \in Int :
           RoundedTo(N, D, mode, l, off2) /\ v = WithSign(sign, l) % WordsOf(f.w)
    BY <1>3, <1>6, <1>7, PackedWord
  <2> HIDE DEF v
  <2>2. l \in Nat
    BY <1>1
  <2>4. Near(m, d, S, l)
    <3>1. S > 0 /\ d > 0
      BY <1>4, <1>5
    <3> QED BY <1>8, <2>1, <2>2, <3>1, TwiceRounded
  <2>5. k = l
    <3>1. SmallUnits(M, S, d)
      BY <1>4, <1>5 DEF SmallUnits
    <3>2. Within(k, M, n, d) /\ m = n * M /\ k \in Nat
      BY <1>4, <1>5, <1>8
    <3> QED BY <2>2, <2>4, <3>1, <3>2, SameAgain
  <2> QED BY <1>3, <2>1, <2>5 DEF v
<1>10. \A i \in DOMAIN Packing!Modes : Packing!Modes[i] \in RoundingModes
  BY DEF Packing!Modes, RoundingModes
<1> QED BY <1>9, <1>10 DEF Packing!RightlyUnpacked, SignBit, Restored, y

-----------------------------------------------------------------------------
(***************************************************************************)
(* Powers of two, and halves as multiples of steps, counted in quarters of *)
(* the least half.                                                         *)
(***************************************************************************)

\* A greater power is twice the lesser at least.
LEMMA PowGrows ==
    ASSUME NEW i \in 0 .. 32, NEW j \in 0 .. 32, i < j
    PROVE  Pow(j) >= 2 * Pow(i)
<1> DEFINE T == {k \in Nat : k <= 32 /\ \E h \in Nat : h < k /\ ~ (Pow(k) >= 2 * Pow(h))}
<1>1. ASSUME NEW k \in T PROVE \E l \in T : l < k
  <2>1. PICK h \in Nat : h < k /\ ~ (Pow(k) >= 2 * Pow(h))
    OBVIOUS
  <2>2. k - 1 \in 0 .. 31 /\ Pow((k - 1) + 1) = 2 * Pow(k - 1) /\ (k - 1) + 1 = k /\ Pow(k - 1) \in Nat
    BY <2>1, Powers
  <2>3. h \in 0 .. 31 /\ Pow(h) \in Nat
    BY <2>1, Powers
  <2>4. h # k - 1 /\ ~ (Pow(k - 1) >= 2 * Pow(h))
    BY <2>1, <2>2, <2>3
  <2>5. k - 1 \in T
    BY <2>1, <2>2, <2>4
  <2> QED BY <2>5
<1>2. T = {}
  <2> HIDE DEF T
  <2>1. T \subseteq Nat
    BY DEF T
  <2> QED BY <1>1, <2>1, NoLeast
<1> QED BY <1>2

\* The power of a sum.
LEMMA PowSum ==
    ASSUME NEW i \in Nat, NEW j \in Nat, i + j <= 32
    PROVE  Pow(i + j) = Pow(i) * Pow(j)
<1> DEFINE T == {k \in Nat : i + k <= 32 /\ Pow(i + k) # Pow(i) * Pow(k)}
<1>1. ASSUME NEW k \in T PROVE \E l \in T : l < k
  <2>1. PICK p \in Nat : p = Pow(i)
    <3>1. i \in 0 .. 31 \/ i = 32
      OBVIOUS
    <3> QED BY <3>1, Powers
  <2>2. k # 0
    BY <2>1, Powers
  <2>3. k - 1 \in 0 .. 31 /\ i + (k - 1) \in 0 .. 31 /\ (k - 1) + 1 = k /\ (i + (k - 1)) + 1 = i + k
    BY <2>2
  <2>4. Pow(k) = 2 * Pow(k - 1) /\ Pow(i + k) = 2 * Pow(i + (k - 1)) /\ Pow(k - 1) \in Nat
    BY <2>3, Powers
  <2>5. PICK q \in Nat : q = Pow(k - 1)
    BY <2>4
  <2>6. p * (2 * q) = 2 * (p * q)
    BY SMT
  <2>7. Pow(i + (k - 1)) # p * q
    BY <2>1, <2>4, <2>5, <2>6
  <2>8. k - 1 \in T
    BY <2>1, <2>3, <2>5, <2>7
  <2> QED BY <2>8
<1>2. T = {}
  <2> HIDE DEF T
  <2>1. T \subseteq Nat
    BY DEF T
  <2> QED BY <1>1, <2>1, NoLeast
<1> QED BY <1>2

\* n/d is rounded to k, and n/d is n2/d2.
Rounded(n, d, mode, k) == \E off \in Int : RoundedTo(n, d, mode, k, off)
SameRatio(n, d, n2, d2) == \E p, q \in Nat : p > 0 /\ q > 0 /\ p * n = q * n2 /\ p * d = q * d2

\* The same fraction is rounded in the same way.
LEMMA Rescaled ==
    ASSUME NEW n \in Int, NEW d \in Nat, NEW n2 \in Int, NEW d2 \in Nat, SameRatio(n, d, n2, d2),
           NEW mode \in RoundingModes, NEW k \in Nat, Rounded(n, d, mode, k)
    PROVE  Rounded(n2, d2, mode, k)
<1>0. PICK p \in Nat, q \in Nat, off \in Int :
         p > 0 /\ q > 0 /\ p * n = q * n2 /\ p * d = q * d2 /\ RoundedTo(n, d, mode, k, off)
  BY DEF SameRatio, Rounded
<1>1. PICK off2 \in Int : off2 = n2 - k * d2
  <2>1. k * d2 \in Int
    BY SMT
  <2> QED BY <2>1
<1>2. q * off2 = p * off
  <2>1. q * off2 = q * n2 - k * (q * d2)
    BY <1>1, SMT
  <2>2. p * (n - k * d) = p * n - k * (p * d)
    BY SMT
  <2> QED BY <1>0, <2>1, <2>2 DEF RoundedTo
<1>3. /\ q * (2 * off2) = p * (2 * off)
      /\ q * (-d2) = p * (-d)
  <2>1. q * (2 * off2) = 2 * (q * off2) /\ p * (2 * off) = 2 * (p * off)
    BY SMT
  <2>2. q * (-d2) = -(q * d2) /\ p * (-d) = -(p * d)
    BY SMT
  <2> QED BY <1>0, <1>2, <2>1, <2>2
<1>4. ASSUME NEW a \in Int, NEW b \in Int, NEW a2 \in Int, NEW b2 \in Int,
             q * a2 = p * a, q * b2 = p * b
      PROVE  (a <= b => a2 <= b2) /\ (a2 = b2 => a = b)
  <2>1. a <= b => p * a <= p * b
    BY <1>0, SMT
  <2>2. a2 = b2 => p * a = p * b
    BY <1>4
  <2> QED BY <1>0, <1>4, <2>1, <2>2, Cancel
<1>5. 2 * off \in Int /\ 2 * off2 \in Int /\ -d \in Int /\ -d2 \in Int
  OBVIOUS
<1>6. (2 * off <= d => 2 * off2 <= d2) /\ (2 * off2 = d2 => 2 * off = d)
  BY <1>3, <1>4, <1>5
<1>7. (-d <= 2 * off => -d2 <= 2 * off2) /\ (2 * off2 = -d2 => 2 * off = -d)
  <2>1. (-d2 = 2 * off2 => -d = 2 * off)
    BY <1>3, <1>4, <1>5
  <2> QED BY <1>3, <1>4, <1>5, <2>1
<1> QED BY <1>0, <1>1, <1>6, <1>7 DEF RoundedTo, Rounded

\* Every half is a multiple of its step in quarters of the least one, from Low(e) steps on.
Step(e) == IF e = 0 THEN 4 ELSE Pow(e + 1)
Low(e) == IF e = 0 THEN 0 ELSE 1024
ValueOf(e, m) == (Low(e) + m) * Step(e)
Infinite == Pow(26) * Pow(16)

\* n/d is N quarters of the least half.
Worth(n, d, N) == \E c \in Nat : d * c = Pow(26) /\ N = n * c

\* What lies between the halves of the exponent e and the first of the next.
Binade(N, e) == Low(e) * Step(e) <= N /\ N < (Low(e) + 1024) * Step(e)

HalfFloats == {x \in [sign : Packing!Signs, n : Nat, d : Nat \ {0}] :
                  \E N \in Nat : Worth(x.n, x.d, N) /\ N < Pow(26) * Pow(27)}
              \cup Packing!Infinities

\* The constants of a half with 5 bits of exponent and 10 of mantissa.
LEMMA HalfConstants ==
    /\ Packing!Mantissa = 10 /\ Packing!Bias = 15 /\ Packing!TopExponent = 31 /\ Packing!Shift = 27
    /\ Packing!QuarterSteps = Pow(26) /\ Packing!QuarterSteps * 2^(Packing!Bias + 1) = Infinite
    /\ \A k \in Int : Packing!Up(k) = Pow(IF k > 0 THEN k ELSE 0)
<1>1. Packing!Mantissa = 10 /\ Packing!Bias = 15
  BY DEF Packing!Mantissa, Packing!Bias
<1>2. Packing!TopExponent = 31 /\ Packing!Shift = 27
  BY <1>1 DEF Packing!TopExponent, Packing!Shift
<1>3. Packing!QuarterSteps = Pow(26) /\ 2^(Packing!Bias + 1) = Pow(16)
  BY <1>1 DEF Packing!QuarterSteps, Pow
<1>4. \A k \in Int : Packing!Up(k) = Pow(IF k > 0 THEN k ELSE 0)
  BY DEF Packing!Up, Pow
<1> QED BY <1>1, <1>2, <1>3, <1>4 DEF Infinite

\* 2^k above and below the line.
LEMMA UpFacts ==
    ASSUME NEW k \in -32 .. 31
    PROVE  /\ Packing!Up(k) \in Nat /\ Packing!Up(k) > 0
           /\ Packing!Up(k + 1) = IF k >= 0 THEN 2 * Packing!Up(k) ELSE 1
           /\ k <= 0 => Packing!Up(k) = 1
           /\ k >= 0 => Packing!Up(k) = Pow(k)
<1>1. k \in Int /\ k + 1 \in Int
  OBVIOUS
<1>2. Packing!Up(k) = Pow(IF k > 0 THEN k ELSE 0) /\ Packing!Up(k + 1) = Pow(IF k + 1 > 0 THEN k + 1 ELSE 0)
  BY <1>1, HalfConstants
<1>3. CASE k >= 0
  <2>1. k \in 0 .. 31
    BY <1>3
  <2>2. Pow(k) \in Nat /\ Pow(k) > 0 /\ Pow(k + 1) = 2 * Pow(k)
    BY <2>1, Powers
  <2> QED BY <1>2, <1>3, <2>2, Powers
<1>4. CASE k < 0
  BY <1>2, <1>4, Powers
<1> QED BY <1>3, <1>4

\* frexp: N quarters are d and n of a float, which has the exponent E.
Between(N, E) == /\ Pow(26) * Packing!Up(E) <= 2 * (N * Packing!Up(-E))
                 /\ N * Packing!Up(-E) < Pow(26) * Packing!Up(E)

\* Any number in the range has an exponent.
LEMMA SomeExponent ==
    ASSUME NEW N \in Nat, N >= 1, N < Pow(26) * Pow(27)
    PROVE  \E E \in -27 .. 27 : Between(N, E)
<1> DEFINE IsLess(E) == N * Packing!Up(-E) < Pow(26) * Packing!Up(E)
           T == {k \in Nat : k <= 54 /\ IsLess(k - 27)}
<1>1. 54 \in T
  <2>1. Packing!Up(27) = Pow(27) /\ Packing!Up(-27) = 1
    BY UpFacts
  <2> QED BY <2>1
<1>2. PICK k \in T : \A l \in T : ~ (l < k)
  <2>1. T \subseteq Nat /\ T # {}
    BY <1>1
  <2> HIDE DEF T
  <2> QED BY <2>1, NoLeast
<1>3. k # 0
  <2>1. Packing!Up(-27) = 1 /\ Packing!Up(27) = Pow(27)
    BY UpFacts
  <2>2. Pow(27) \in Nat /\ Pow(27) = 2 * Pow(26) /\ Pow(26) \in Nat
    <3>1. 26 \in 0 .. 31 /\ 26 + 1 = 27
      OBVIOUS
    <3>2. 27 \in 0 .. 31
      OBVIOUS
    <3> QED BY <3>1, <3>2, Powers
  <2>3. ~ IsLess(-27)
    <3>1. N * Pow(27) >= Pow(27) /\ Pow(27) > Pow(26)
      BY <2>2, Powers
    <3> QED BY <2>1, <2>2, <3>1
  <2> QED BY <2>3
<1> DEFINE E == k - 27
<1>4. E \in -26 .. 27 /\ E - 1 \in -27 .. 26 /\ -E \in -27 .. 26 /\ -(E - 1) \in -26 .. 27
  BY <1>3
<1>5. IsLess(E) /\ ~ IsLess(E - 1)
  <2>1. k - 1 \in Nat /\ k - 1 <= 54 /\ k - 1 < k /\ (k - 1) - 27 = E - 1
    BY <1>3
  <2>2. k - 1 \notin T
    BY <1>2, <2>1
  <2> QED BY <1>2, <2>1, <2>2
<1>6. PICK a \in Nat, b \in Nat, a1 \in Nat, b1 \in Nat :
         /\ a = Packing!Up(E) /\ b = Packing!Up(-E)
         /\ a1 = Packing!Up(E - 1) /\ b1 = Packing!Up(-(E - 1))
         /\ IF E >= 1 THEN a = 2 * a1 /\ b = 1 /\ b1 = 1 ELSE a = 1 /\ a1 = 1 /\ b1 = 2 * b
  <2>1. /\ Packing!Up(E) \in Nat /\ Packing!Up(-E) \in Nat /\ Packing!Up(E - 1) \in Nat
        /\ Packing!Up(-(E - 1)) \in Nat
    BY <1>4, UpFacts
  <2>2. Packing!Up((E - 1) + 1) = IF E - 1 >= 0 THEN 2 * Packing!Up(E - 1) ELSE 1
    BY <1>4, UpFacts
  <2>3. Packing!Up((-E) + 1) = IF -E >= 0 THEN 2 * Packing!Up(-E) ELSE 1
    BY <1>4, UpFacts
  <2>4. (E - 1) + 1 = E /\ (-E) + 1 = -(E - 1)
    BY <1>4
  <2>5. (E >= 1 => Packing!Up(-E) = 1) /\ (E <= 0 => Packing!Up(E - 1) = 1)
    BY <1>4, UpFacts
  <2> HIDE DEF E
  <2> QED BY <1>4, <2>1, <2>2, <2>3, <2>4, <2>5
<1>7. E \in -27 .. 27
  BY <1>4
<1>8. Between(N, E)
  <2>1. N * b1 >= Pow(26) * a1 /\ N * b < Pow(26) * a
    BY <1>5, <1>6, Powers
  <2>2. Pow(26) * a <= 2 * (N * b)
    <3>1. CASE E >= 1
      BY <1>6, <2>1, <3>1, Powers
    <3>2. CASE ~ (E >= 1)
      <4>1. N * (2 * b) = 2 * (N * b)
        BY SMT
      <4> QED BY <1>6, <2>1, <3>2, <4>1, Powers
    <3> QED BY <3>1, <3>2
  <2> HIDE DEF E
  <2> QED BY <1>6, <2>1, <2>2 DEF Between
<1> QED BY <1>7, <1>8

\* The exponent that frexp chooses for a float is that of its quarters.
LEMMA ExponentFits ==
    ASSUME NEW sign \in Packing!Signs, NEW n \in Nat, NEW d \in Nat, NEW N \in Nat, Worth(n, d, N),
           N >= 1, N < Pow(26) * Pow(27)
    PROVE  /\ Packing!Exponent(Packing!Float(sign, n, d)) \in -27 .. 27
           /\ Between(N, Packing!Exponent(Packing!Float(sign, n, d)))
<1> DEFINE x == Packing!Float(sign, n, d)
           Frexp(E) == /\ x.d * Packing!Up(E) <= 2 * (x.n * Packing!Up(-E))
                      /\ x.n * Packing!Up(-E) < x.d * Packing!Up(E)
<1>1. x.n = n /\ x.d = d
  BY DEF Packing!Float
<1>0. PICK c \in Nat : d * c = Pow(26) /\ N = n * c
  BY DEF Worth
<1>2. c > 0
  BY <1>0, Powers
<1>3. ASSUME NEW E \in -27 .. 27 PROVE Frexp(E) <=> Between(N, E)
  <2>1. PICK a \in Nat, b \in Nat : a = Packing!Up(E) /\ b = Packing!Up(-E)
    <3>1. E \in -32 .. 31 /\ -E \in -32 .. 31
      OBVIOUS
    <3> QED BY <3>1, UpFacts
  <2>2. PICK p \in Nat, q \in Nat : p = d * a /\ q = n * b
    <3>1. d * a \in Nat /\ n * b \in Nat
      BY SMT
    <3> QED BY <3>1
  <2>3. c * p = Pow(26) * a /\ c * q = N * b /\ c * (2 * q) = 2 * (N * b)
    <3>1. c * (d * a) = (d * c) * a /\ c * (n * b) = (n * c) * b
      BY SMT
    <3>2. c * p = Pow(26) * a /\ c * q = N * b
      BY <1>0, <2>2, <3>1
    <3>3. c * (2 * q) = 2 * (c * q)
      BY SMT
    <3> QED BY <3>2, <3>3
  <2>4. (p <= 2 * q <=> c * p <= c * (2 * q)) /\ (q < p <=> c * q < c * p)
    BY <1>2, SMT
  <2>5. Frexp(E) <=> p <= 2 * q /\ q < p
    BY <1>1, <2>1, <2>2
  <2> HIDE DEF Fits
  <2> QED BY <2>1, <2>3, <2>4, <2>5 DEF Between
<1>4. PICK E \in -27 .. 27 : Frexp(E)
  BY <1>3, SomeExponent
<1>5. Packing!Exponent(x) = CHOOSE F \in -27 .. 27 : Frexp(F)
  BY HalfConstants DEF Packing!Exponent
<1> HIDE DEF Frexp, x
<1>6. (CHOOSE F \in -27 .. 27 : Frexp(F)) \in -27 .. 27 /\ Frexp(CHOOSE F \in -27 .. 27 : Frexp(F))
  BY <1>4
<1>7. Packing!Exponent(x) \in -27 .. 27 /\ Between(N, Packing!Exponent(x))
  BY <1>3, <1>5, <1>6
<1> QED BY <1>7 DEF x

\* The steps are positive, and the exponents follow on each other without a gap.
LEMMA Steps ==
    /\ \A e \in 0 .. 31 : Step(e) \in Nat /\ Step(e) > 0 /\ Low(e) \in Nat
    /\ \A e \in 0 .. 30 : ValueOf(e, 1024) = ValueOf(e + 1, 0)
    /\ ValueOf(31, 0) = Infinite /\ Infinite \in Nat
<1>1. \A e \in 0 .. 31 : Step(e) \in Nat /\ Step(e) > 0 /\ Low(e) \in Nat
  <2> TAKE e \in 0 .. 31
  <2>1. e = 31 \/ e + 1 \in 0 .. 31
    OBVIOUS
  <2>2. Pow(e + 1) \in Nat /\ Pow(e + 1) > 0
    BY <2>1, Powers
  <2> QED BY <2>2 DEF Step, Low
<1>2. ASSUME NEW e \in 0 .. 30 PROVE ValueOf(e, 1024) = ValueOf(e + 1, 0)
  <2>1. CASE e = 0
    BY <2>1, Powers DEF ValueOf, Step, Low
  <2>2. CASE e # 0
    <3>1. e + 1 \in 0 .. 31 /\ (e + 1) + 1 \in Int
      OBVIOUS
    <3>2. PICK p \in Nat : Pow(e + 1) = p /\ Pow((e + 1) + 1) = 2 * p
      BY <3>1, Powers
    <3>3. ValueOf(e, 1024) = (1024 + 1024) * p /\ ValueOf(e + 1, 0) = (1024 + 0) * (2 * p)
      BY <2>2, <3>2 DEF ValueOf, Step, Low
    <3> QED BY <3>3
  <2> QED BY <2>1, <2>2
<1>3. ValueOf(31, 0) = Infinite /\ Infinite \in Nat
  <2>1. ValueOf(31, 0) = 1024 * Pow(32) /\ Pow(32) = Pow(16) * Pow(16) /\ Pow(26) = 1024 * Pow(16)
    <3>1. Pow(16 + 16) = Pow(16) * Pow(16) /\ Pow(10 + 16) = Pow(10) * Pow(16)
      BY PowSum
    <3>2. 16 + 16 = 32 /\ 10 + 16 = 26 /\ 31 + 1 = 32
      OBVIOUS
    <3> QED BY <3>1, <3>2, Powers DEF ValueOf, Step, Low
  <2>2. PICK p \in Nat : p = Pow(16)
    <3>1. 16 \in 0 .. 31
      OBVIOUS
    <3> QED BY <3>1, Powers
  <2>3. 1024 * (p * p) = (1024 * p) * p /\ (1024 * p) * p \in Nat
    BY SMT
  <2> QED BY <2>1, <2>2, <2>3 DEF Infinite
<1> QED BY <1>1, <1>2, <1>3

\* A greater exponent begins where the one before it ends, or later.
LEMMA StepsGrow ==
    ASSUME NEW e \in 0 .. 31, NEW g \in 0 .. 31, e < g
    PROVE  /\ Low(g) = 1024 /\ Step(e) <= Step(g)
           /\ Low(e) # 0 => 2 * Step(e) <= Step(g)
           /\ ValueOf(e, 1024) <= ValueOf(g, 0)
<1>1. Low(g) = 1024 /\ Step(g) = Pow(g + 1)
  BY DEF Low, Step
<1>2. PICK p \in Nat, q \in Nat : Step(e) = p /\ Step(g) = q
  BY Steps
<1>3. CASE e = 0
  <2>1. q >= 4
    <3>1. g = 1 => q = 4
      BY <1>1, <1>2, Powers
    <3>2. g > 1 => q >= 2 * Pow(2)
      <4>1. g > 1 => g + 1 \in 0 .. 32 /\ 2 < g + 1
        OBVIOUS
      <4> QED BY <1>1, <1>2, <4>1, PowGrows
    <3> QED BY <3>1, <3>2, Powers
  <2>2. p = 4 /\ Low(e) = 0
    BY <1>2, <1>3 DEF Step, Low
  <2> QED BY <1>1, <1>2, <2>1, <2>2 DEF ValueOf
<1>4. CASE e # 0
  <2>1. e + 1 \in 0 .. 32 /\ g + 1 \in 0 .. 32 /\ e + 1 < g + 1
    OBVIOUS
  <2>2. Pow(g + 1) >= 2 * Pow(e + 1)
    BY <2>1, PowGrows
  <2>3. p = Pow(e + 1) /\ Low(e) = 1024
    BY <1>2, <1>4 DEF Step, Low
  <2> QED BY <1>1, <1>2, <2>2, <2>3 DEF ValueOf
<1> QED BY <1>3, <1>4

\* A number is between the halves of one exponent only.
LEMMA OneBinade ==
    ASSUME NEW N \in Nat, NEW e \in 0 .. 30, NEW g \in 0 .. 30, Binade(N, e)
    PROVE  N < Infinite /\ (Binade(N, g) => e = g)
<1>1. /\ ValueOf(e, 1024) \in Nat /\ ValueOf(g, 1024) \in Nat /\ ValueOf(e, 0) \in Nat /\ ValueOf(g, 0) \in Nat
      /\ Infinite \in Nat
  <2>1. PICK p \in Nat, q \in Nat : Step(e) = p /\ Step(g) = q
    BY Steps
  <2>2. Low(e) \in Nat /\ Low(g) \in Nat
    BY Steps
  <2>3. (Low(e) + 1024) * p \in Nat /\ (Low(g) + 1024) * q \in Nat /\ (Low(e) + 0) * p \in Nat /\ (Low(g) + 0) * q \in Nat
    BY <2>2, SMT
  <2> QED BY <2>1, <2>3, Steps DEF ValueOf
<1>2. ValueOf(e, 0) <= N /\ N < ValueOf(e, 1024) /\ (Binade(N, g) => ValueOf(g, 0) <= N /\ N < ValueOf(g, 1024))
  <2>1. Low(e) + 0 = Low(e) /\ Low(g) + 0 = Low(g)
    BY Steps
  <2> QED BY <2>1 DEF Binade, ValueOf
<1>3. e < g => ValueOf(e, 1024) <= ValueOf(g, 0)
  BY StepsGrow
<1>4. g < e => ValueOf(g, 1024) <= ValueOf(e, 0)
  BY StepsGrow
<1>5. ValueOf(e, 1024) <= Infinite
  <2>1. e < 31 /\ 31 \in 0 .. 31
    OBVIOUS
  <2> QED BY <2>1, Steps, StepsGrow
<1> QED BY <1>1, <1>2, <1>3, <1>4, <1>5

\* Where the exponent that frexp finds leads.
LEMMA Binades ==
    ASSUME NEW N \in Nat, NEW E \in -27 .. 27, Between(N, E)
    PROVE  /\ E < -13 => Binade(N, 0)
           /\ E \in -13 .. 16 => Binade(N, E + 14)
           /\ E > 16 => N >= Infinite
<1>1. PICK a \in Nat, b \in Nat :
         /\ Packing!Up(E) = a /\ Packing!Up(-E) = b /\ a > 0 /\ b > 0
         /\ E >= 0 => a = Pow(E) /\ b = 1
         /\ E <= 0 => b = Pow(-E) /\ a = 1
  <2>1. E \in -32 .. 31 /\ -E \in -32 .. 31
    OBVIOUS
  <2>2. Packing!Up(E) \in Nat /\ Packing!Up(E) > 0 /\ (E <= 0 => Packing!Up(E) = 1) /\ (E >= 0 => Packing!Up(E) = Pow(E))
    BY <2>1, UpFacts
  <2>3. /\ Packing!Up(-E) \in Nat /\ Packing!Up(-E) > 0 /\ (-E <= 0 => Packing!Up(-E) = 1)
        /\ (-E >= 0 => Packing!Up(-E) = Pow(-E))
    BY <2>1, UpFacts
  <2> QED BY <2>2, <2>3
<1>2. PICK Q \in Nat : Q = N * b
  <2>1. N * b \in Nat
    BY SMT
  <2> QED BY <2>1
<1>3. Pow(26) * a <= 2 * Q /\ Q < Pow(26) * a
  BY <1>1, <1>2 DEF Between
<1>4. CASE E < -13
  <2>1. b >= Pow(14)
    <3>1. E = -14 => b = Pow(14)
      BY <1>1
    <3>2. E < -14 => b >= 2 * Pow(14)
      <4>1. E < -14 => -E \in 0 .. 32 /\ 14 \in 0 .. 32 /\ 14 < -E
        OBVIOUS
      <4> QED BY <1>1, <4>1, PowGrows
    <3>3. Pow(14) \in Nat
      <4>1. 14 \in 0 .. 31
        OBVIOUS
      <4> QED BY <4>1, Powers
    <3> QED BY <1>4, <3>1, <3>2, <3>3
  <2>2. PICK p \in Nat : p = Pow(14) /\ p > 0 /\ Pow(26) = p * 4096
    <3>1. 14 \in 0 .. 31 /\ 14 + 12 = 26
      OBVIOUS
    <3>2. Pow(14 + 12) = Pow(14) * Pow(12)
      BY PowSum
    <3> QED BY <3>1, <3>2, Powers
  <2>3. p * N <= Q
    <3>1. p * N <= b * N /\ b * N = N * b
      BY <2>1, <2>2, SMT
    <3> QED BY <1>2, <3>1
  <2>4. p * N < p * 4096
    <3>1. a = 1 /\ p * N \in Nat
      BY <1>1, <1>4
    <3> QED BY <1>3, <2>2, <2>3, <3>1
  <2>5. N < 4096
    BY <2>2, <2>4, Cancel
  <2> QED BY <1>4, <2>5 DEF Binade, Low, Step
<1>5. CASE E \in -13 .. 16
  <2>1. Low(E + 14) = 1024 /\ Step(E + 14) = Pow(E + 15)
    <3>1. E + 14 # 0 /\ (E + 14) + 1 = E + 15
      BY <1>5
    <3> QED BY <3>1 DEF Low, Step
  <2>2. PICK s \in Nat : s = Pow(E + 15)
    <3>1. E + 15 \in 0 .. 31
      BY <1>5
    <3> QED BY <3>1, Powers
  <2>3. Pow(26) * a = b * (2048 * s)
    <3>1. CASE E <= 0
      <4>1. Pow((E + 15) + (-E)) = Pow(E + 15) * Pow(-E) /\ (E + 15) + (-E) = 15
        <5>1. E + 15 \in Nat /\ -E \in Nat /\ (E + 15) + (-E) <= 32 /\ (E + 15) + (-E) = 15
          BY <1>5, <3>1
        <5> QED BY <5>1, PowSum
      <4>2. s * b = 32768 /\ b * (2048 * s) = 2048 * (s * b)
        <5>1. b * (2048 * s) = 2048 * (s * b)
          BY SMT
        <5> QED BY <1>1, <2>2, <3>1, <4>1, <5>1, Powers
      <4> QED BY <1>1, <3>1, <4>2, Powers
    <3>2. CASE E > 0
      <4>1. Pow(15 + E) = Pow(15) * Pow(E)
        BY <1>5, <3>2, PowSum
      <4>2. s = 32768 * a
        BY <1>1, <2>2, <3>2, <4>1, Powers
      <4> QED BY <1>1, <3>2, <4>2, Powers
    <3> QED BY <3>1, <3>2
  <2>4. b * (1024 * s) <= b * N /\ b * N < b * (2048 * s)
    <3>1. b * (2048 * s) = 2 * (b * (1024 * s)) /\ b * N = N * b /\ b * (1024 * s) \in Nat
      BY SMT
    <3> QED BY <1>2, <1>3, <2>3, <3>1
  <2>5. 1024 * s <= N /\ N < 2048 * s
    BY <1>1, <2>4, Cancel
  <2> QED BY <1>5, <2>1, <2>2, <2>5 DEF Binade
<1>6. CASE E > 16
  <2>1. b = 1 /\ a = Pow(E) /\ a >= 2 * Pow(16)
    <3>1. E \in 0 .. 32 /\ 16 \in 0 .. 32 /\ 16 < E
      BY <1>6
    <3> QED BY <1>1, <1>6, <3>1, PowGrows
  <2>2. PICK p \in Nat : p = Pow(16)
    <3>1. 16 \in 0 .. 31
      OBVIOUS
    <3> QED BY <3>1, Powers
  <2>3. N >= 67108864 * p
    BY <1>2, <1>3, <2>1, <2>2, Powers
  <2> QED BY <1>6, <2>2, <2>3, Powers DEF Infinite
<1> QED BY <1>4, <1>5, <1>6

-----------------------------------------------------------------------------
(***************************************************************************)
(* pack_half_1x16.                                                         *)
(***************************************************************************)

\* A magnitude less than 1024 steps is rounded to 1024 of them at most, and
\* whole steps below it change nothing.
LEMMA FewSteps ==
    ASSUME NEW N \in Nat, NEW s \in Nat, s > 0, N < 1024 * s, NEW mode \in RoundingModes, NEW k \in Nat, Rounded(N, s, mode, k)
    PROVE  k \in Nat /\ k <= 1024
<1>1. k >= 1025 => k * s >= 1025 * s
  BY SMT
<1>2. k * s \in Int
  BY SMT
<1> QED BY <1>1, <1>2 DEF RoundedTo, Rounded

\* What is rounded above the first half of an exponent is rounded from zero.
LEMMA OnTop ==
    ASSUME NEW N \in Int, NEW s \in Nat, NEW mode \in RoundingModes, NEW k \in Nat, Rounded(N - 1024 * s, s, mode, k)
    PROVE  Rounded(N, s, mode, 1024 + k)
<1>1. (1024 + k) * s = 1024 * s + k * s /\ k * s \in Int
  BY SMT
<1>2. k % 2 = 0 => (1024 + k) % 2 = 0
  BY SMT
<1> QED BY <1>1, <1>2 DEF RoundedTo, Rounded

\* FuncOpts.round of a positive fraction.
LEMMA Magnitude ==
    ASSUME NEW n \in Nat, NEW d \in Nat, d > 0, NEW mode \in RoundingModes,
           NEW r, r = Packing!Round(Packing!Float(1, n, d), mode)
    PROVE  r \in Nat /\ Rounded(n, d, mode, r)
<1>1. 1 \in Packing!Signs
  BY DEF Packing!Signs
<1>2. PICK k \in Nat, off \in Int :
         Packing!Round(Packing!Float(1, n, d), mode) = 1 * k /\ RoundedTo(n, d, mode, k, off)
  BY <1>1, Rounds
<1>3. r = k
  BY <1>2
<1> QED BY <1>2, <1>3 DEF Rounded

\* A mantissa that is rounded as n/d is that of N quarters in steps of s.
LEMMA SameSteps ==
    ASSUME NEW n \in Nat, NEW d \in Nat, NEW N \in Nat, NEW s \in Nat, SameRatio(n, d, N, s),
           s > 0, N < 1024 * s, NEW mode \in RoundingModes, NEW k \in Nat, Rounded(n, d, mode, k)
    PROVE  k \in Nat /\ k <= 1024 /\ Rounded(N, s, mode, k)
<1>1. Rounded(N, s, mode, k)
  BY n \in Int, N \in Int, Rescaled
<1> QED BY <1>1, FewSteps

\* A float in the binade of subnormals, and in another.
LEMMA PackedSmall ==
    ASSUME NEW n \in Nat, NEW d \in Nat, NEW N \in Nat, Worth(n, d, N),
           N < 4096, NEW mode \in RoundingModes,
           NEW r, r = Packing!Round(Packing!Float(1, n * Pow(24), d), mode)
    PROVE  r \in Nat /\ r <= 1024 /\ Rounded(N, 4, mode, r)
<1>00. PICK c \in Nat : d * c = Pow(26) /\ N = n * c
  BY DEF Worth
<1>0. d * c = Pow(26) /\ N = n * c /\ d > 0 /\ c > 0
  BY <1>00, Powers
<1>1. PICK q \in Nat : q = Pow(24) /\ q > 0 /\ Pow(26) = q * 4
  BY Powers
<1>2. PICK nq \in Nat : nq = n * q
  <2>1. n * q \in Nat
    BY SMT
  <2> QED BY <2>1
<1>3. c * nq = q * N /\ c * d = q * 4
  <2>1. c * (n * q) = q * (n * c) /\ c * d = d * c
    BY SMT
  <2> QED BY <1>0, <1>1, <1>2, <2>1
<1>4. PICK k \in Nat : k = r /\ Rounded(nq, d, mode, k)
  <2>1. r = Packing!Round(Packing!Float(1, nq, d), mode)
    BY <1>1, <1>2
  <2> QED BY <1>0, <2>1, Magnitude
<1>5. PICK s \in Nat : s = 4 /\ SameRatio(nq, d, N, s)
  BY <1>0, <1>1, <1>3 DEF SameRatio
<1>6. N < 1024 * s /\ s > 0
  BY <1>5
<1>7. k \in Nat /\ k <= 1024 /\ Rounded(N, s, mode, k)
  BY <1>4, <1>5, <1>6, SameSteps
<1> QED BY <1>4, <1>5, <1>7

NormalStep(E, s) == s = Pow(E + 15)

\* And one in the binade of any other exponent (pack_half_1x16).
LEMMA PackedNormal ==
    ASSUME NEW sign \in Packing!Signs, NEW n \in Nat, NEW d \in Nat, NEW N \in Nat, Worth(n, d, N),
           NEW E \in Int, -13 <= E, E <= 16, NEW s \in Nat, NormalStep(E, s),
           1024 * s <= N, N < 2048 * s, NEW mode \in RoundingModes,
           NEW r, r = Packing!NormalMantissa(Packing!Float(sign, n, d), E, mode)
    PROVE  r \in Nat /\ r <= 1024 /\ Rounded(N, s, mode, 1024 + r)
<1>00. PICK c \in Nat : d * c = Pow(26) /\ N = n * c
  BY DEF Worth
<1>0. d * c = Pow(26) /\ N = n * c /\ d > 0 /\ c > 0
  BY <1>00, Powers
<1>. USE DEF NormalStep
<1>1. PICK a \in Nat, b \in Nat :
         /\ a = Packing!Up(11 - E) /\ b = Packing!Up(E - 11) /\ a > 0 /\ b > 0
         /\ E >= 11 => a = 1 /\ b = Pow(E - 11)
         /\ E < 11 => a = Pow(11 - E) /\ b = 1
  <2>1. E - 11 \in -32 .. 31 /\ 11 - E \in -32 .. 31
    OBVIOUS
  <2>2. /\ Packing!Up(E - 11) \in Nat /\ Packing!Up(E - 11) > 0
        /\ E - 11 <= 0 => Packing!Up(E - 11) = 1
        /\ E - 11 >= 0 => Packing!Up(E - 11) = Pow(E - 11)
    BY <2>1, UpFacts
  <2>3. /\ Packing!Up(11 - E) \in Nat /\ Packing!Up(11 - E) > 0
        /\ 11 - E <= 0 => Packing!Up(11 - E) = 1
        /\ 11 - E >= 0 => Packing!Up(11 - E) = Pow(11 - E)
    BY <2>1, UpFacts
  <2> QED BY <2>2, <2>3
<1>2. a * s = Pow(26) * b
  <2>1. CASE E >= 11
    <3>1. E - 11 \in Nat /\ 26 + (E - 11) = E + 15 /\ 26 + (E - 11) <= 32
      BY <2>1
    <3>2. Pow(E + 15) = Pow(26) * Pow(E - 11)
      BY <3>1, PowSum
    <3> QED BY <1>1, <2>1, <3>2, Powers
  <2>2. CASE E < 11
    <3>1. 11 - E \in Nat /\ E + 15 \in Nat /\ (11 - E) + (E + 15) = 26
      BY <2>2
    <3>2. Pow((11 - E) + (E + 15)) = Pow(11 - E) * Pow(E + 15)
      BY <3>1, PowSum
    <3> QED BY <1>1, <2>2, <3>1, <3>2, Powers
  <2> QED BY <2>1, <2>2
<1>3. s > 0
  <2>1. E + 15 \in 0 .. 31
    OBVIOUS
  <2> QED BY <2>1, Powers
<1>4. PICK dd \in Nat, nn \in Int : dd = d * b /\ nn = n * a - dd * 1024 /\ dd > 0
  <2>1. d * b \in Nat /\ n * a \in Nat /\ d * b > 0
    BY <1>0, <1>1, SMT
  <2>2. n * a - (d * b) * 1024 \in Int
    BY <2>1
  <2> QED BY <2>1, <2>2
<1>5. c * dd = a * s
  <2>1. c * (d * b) = (d * c) * b
    BY SMT
  <2> QED BY <1>0, <1>2, <1>4, <2>1
<1>6. c * nn = a * (N - 1024 * s)
  <2>1. c * (n * a - dd * 1024) = (n * c) * a - 1024 * (c * dd)
    BY SMT
  <2>2. a * (N - 1024 * s) = N * a - 1024 * (a * s)
    BY SMT
  <2> QED BY <1>0, <1>4, <1>5, <2>1, <2>2
<1>7. nn \in Nat
  <2>1. a * (N - 1024 * s) >= 0
    <3>1. N - 1024 * s \in Nat
      OBVIOUS
    <3> QED BY <3>1, SMT
  <2>2. c * 0 <= c * nn
    BY <1>6, <2>1
  <2>3. 0 <= nn
    BY <1>0, <2>2, Cancel
  <2> QED BY <2>3
<1>8. Packing!NormalMantissa(Packing!Float(sign, n, d), E, mode) = Packing!Round(Packing!Float(1, nn, dd), mode)
  <2>1. Packing!Float(sign, n, d).n = n /\ Packing!Float(sign, n, d).d = d
    BY DEF Packing!Float
  <2>2. Packing!Up(E - Packing!Mantissa - 1) = b /\ Packing!Up(Packing!Mantissa + 1 - E) = a /\ 2^Packing!Mantissa = 1024
    <3>1. Packing!Mantissa = 10
      BY HalfConstants
    <3>2. E - 10 - 1 = E - 11 /\ 10 + 1 - E = 11 - E
      OBVIOUS
    <3>3. 2^Packing!Mantissa = 1024
      BY <3>1
    <3> QED BY <1>1, <3>1, <3>2, <3>3
  <2> QED BY <1>4, <2>1, <2>2 DEF Packing!NormalMantissa
<1>9. PICK k \in Nat : k = r /\ Rounded(nn, dd, mode, k)
  BY <1>4, <1>7, <1>8, Magnitude
<1>10. PICK rest \in Nat : rest = N - 1024 * s /\ rest < 1024 * s
  OBVIOUS
<1>11. SameRatio(nn, dd, rest, s)
  BY <1>0, <1>1, <1>5, <1>6, <1>10 DEF SameRatio
<1>12. nn \in Nat /\ dd \in Nat /\ rest \in Nat /\ s \in Nat /\ s > 0 /\ rest < 1024 * s
  BY <1>3, <1>7, <1>10
<1>13. k \in Nat /\ k <= 1024 /\ Rounded(rest, s, mode, k)
  BY <1>9, <1>11, <1>12, SameSteps
<1>14. Rounded(N, s, mode, 1024 + k)
  BY <1>10, <1>13, OnTop
<1> QED BY <1>9, <1>13, <1>14

\* What PackHalf makes of a float: of its binade, or infinity.
\* A number packed in its binade, a carry being left to Carried, or as an infinity.
PackedAs(sign, N, mode, w) ==
    \/ N >= Infinite /\ w = Packing!HalfWord(sign, 31, 0)
    \/ \E e \in Int, k \in Nat :
          /\ 0 <= e /\ e <= 30 /\ Binade(N, e)
          /\ k <= 1024 /\ Rounded(N, Step(e), mode, Low(e) + k)
          /\ w = Packing!Carried(sign, e, k)

\* A float other than zero is packed so.
LEMMA PackedHalf ==
    ASSUME NEW sign \in Packing!Signs, NEW n \in Nat, NEW d \in Nat, NEW N \in Nat, Worth(n, d, N),
           N >= 1, N < Pow(26) * Pow(27), NEW mode \in RoundingModes,
           NEW w, w = Packing!PackHalf(Packing!Float(sign, n, d), mode)
    PROVE  PackedAs(sign, N, mode, w)
<1> DEFINE x == Packing!Float(sign, n, d)
           E == Packing!Exponent(x)
<1>1. x.n = n /\ x.d = d /\ x.sign = sign
  BY DEF Packing!Float
<1>2. d > 0 /\ n # 0
  <2>1. PICK c \in Nat : d * c = Pow(26) /\ N = n * c
    BY DEF Worth
  <2> QED BY <2>1, Powers
<1>3. E \in -27 .. 27 /\ Between(N, E)
  BY ExponentFits
<1>4. Packing!PackHalf(x, mode) =
         CASE E < -13 -> Packing!Carried(sign, 0, Packing!Round(Packing!Float(1, n * Pow(24), d), mode))
           [] E \in -13 .. 16 -> Packing!Carried(sign, E + 14, Packing!NormalMantissa(x, E, mode))
           [] OTHER -> Packing!HalfWord(sign, 31, 0)
  <2>1. 2 - Packing!Bias = -13 /\ Packing!Bias + 1 = 16 /\ E + Packing!Bias - 1 = E + 14 /\ Packing!TopExponent = 31
    BY <1>3, HalfConstants
  <2>2. 2^(Packing!Bias + Packing!Mantissa - 1) = Pow(24)
    BY HalfConstants DEF Pow
  <2> HIDE DEF x
  <2>3. E \in Int /\ x.d # 0 /\ x.n # 0
    BY <1>1, <1>2, <1>3
  <2> QED BY <1>1, <2>1, <2>2, <2>3 DEF Packing!PackHalf, Packing!PackHalfUpTo
<1> HIDE DEF x, E
<1>5. CASE E < -13
  <2>1. Binade(N, 0)
    BY <1>3, <1>5, Binades
  <2>2. N < 4096
    BY <2>1 DEF Binade, Low, Step
  <2>3. PICK k : k = Packing!Round(Packing!Float(1, n * Pow(24), d), mode)
    OBVIOUS
  <2>7. k \in Nat /\ k <= 1024 /\ Rounded(N, 4, mode, k)
    BY <1>2, <2>2, <2>3, PackedSmall
  <2>4. Packing!PackHalf(x, mode) = Packing!Carried(sign, 0, k)
    BY <1>4, <1>5, <2>3
  <2>5. Rounded(N, Step(0), mode, Low(0) + k)
    BY <2>7 DEF Step, Low
  <2>6. w = Packing!Carried(sign, 0, k)
    BY <2>4 DEF x
  <2> QED BY <2>1, <2>5, <2>6, <2>7 DEF PackedAs
<1>6. CASE E \in -13 .. 16
  <2>1. PICK F \in Int : F = E /\ -13 <= F /\ F <= 16
    BY <1>6
  <2>2. F + 14 \in 0 .. 30 /\ Binade(N, F + 14)
    BY <1>3, <1>6, <2>1, Binades
  <2>3. Low(F + 14) = 1024 /\ Step(F + 14) = Pow(F + 15)
    <3>1. F + 14 # 0 /\ (F + 14) + 1 = F + 15
      BY <1>6, <2>1
    <3> QED BY <3>1 DEF Low, Step
  <2>4. PICK s \in Nat : s = Pow(F + 15)
    <3>1. F + 15 \in 0 .. 31
      BY <2>1
    <3> QED BY <3>1, Powers
  <2>5. 1024 * s <= N /\ N < 2048 * s
    BY <2>2, <2>3, <2>4 DEF Binade
  <2>11. NormalStep(F, s)
    BY <2>4 DEF NormalStep
  <2>6. PICK k : k = Packing!NormalMantissa(Packing!Float(sign, n, d), F, mode)
    OBVIOUS
  <2>7. k \in Nat /\ k <= 1024 /\ Rounded(N, s, mode, 1024 + k)
    BY <1>2, <2>1, <2>11, <2>5, <2>6, PackedNormal
  <2>8. Packing!PackHalf(x, mode) = Packing!Carried(sign, F + 14, k)
    BY <1>4, <1>6, <2>1, <2>6 DEF x
  <2>9. Rounded(N, Step(F + 14), mode, Low(F + 14) + k)
    BY <2>3, <2>4, <2>7
  <2>10. w = Packing!Carried(sign, F + 14, k) /\ F + 14 \in Int /\ 0 <= F + 14 /\ F + 14 <= 30
    BY <2>1, <2>8 DEF x
  <2> QED BY <2>2, <2>7, <2>9, <2>10, Zenon DEF PackedAs
<1>7. CASE E > 16
  <2>1. N >= Infinite /\ Infinite \in Nat
    BY <1>3, <1>7, Binades, Steps
  <2>2. Packing!PackHalf(x, mode) = Packing!HalfWord(sign, 31, 0)
    BY <1>3, <1>4, <1>7
  <2> QED BY <2>1, <2>2 DEF x, PackedAs
<1> QED BY <1>3, <1>5, <1>6, <1>7

-----------------------------------------------------------------------------
(***************************************************************************)
(* unpack_half_1x16, and the halves next to a float.                       *)
(***************************************************************************)

\* The halves there are: the infinite exponent has the mantissa 0.
IsHalf(e, m) == (e \in 0 .. 30 /\ m <= 1023) \/ (e = 31 /\ m = 0)

\* The float a half is unpacked to (unpack_half_1x16), and its last bit.
LEMMA HalfWords ==
    ASSUME NEW sign \in Packing!Signs, NEW e \in Int, 0 <= e, e <= 31, NEW m \in Nat, m <= 1023,
           NEW u, u = Packing!HalfWord(sign, e, m)
    PROVE  /\ Packing!UnpackHalf(u) =
                CASE e = 0 -> Packing!Float(sign, m, Pow(24))
                  [] e \in 1 .. 30 -> Packing!Float(sign, (1024 + m) * Pow(e - 1), Pow(24))
                  [] OTHER -> Packing!Infinity(sign)
           /\ u % 2 = m % 2
<1>1. u = (IF sign < 0 THEN 32768 ELSE 0) + e * 1024 + m
  <2>1. 2^(16 - 1) = 32768 /\ 2^Packing!Mantissa = 1024
    <3>1. Packing!Mantissa = 10
      BY HalfConstants
    <3> QED BY <3>1
  <2> QED BY <2>1 DEF Packing!HalfWord
<1>2. sign \in {1, -1}
  BY DEF Packing!Signs
<1>3. PICK v \in Nat : v = u
  BY <1>1, <1>2
<1>4. /\ v >= 32768 <=> sign = -1
      /\ v % 1024 = m /\ (v \div 1024) % 32 = e
      /\ v % 2 = m % 2
  <2>1. PICK h \in {0, 32} : v = 1024 * (h + e) + m /\ (h = 32 <=> sign = -1)
    BY <1>1, <1>2, <1>3
  <2>2. v % 1024 = m /\ v \div 1024 = h + e
    BY <2>1
  <2>3. (h + e) % 32 = e
    BY <2>1
  <2>4. v >= 32768 <=> h = 32
    BY <2>1
  <2>5. v % 2 = m % 2
    BY <2>1
  <2> QED BY <2>1, <2>2, <2>3, <2>4, <2>5
<1>5. Packing!UnpackHalf(u) =
        CASE e = 0 -> Packing!Float(sign, m, Pow(24))
          [] e \in 1 .. 30 -> Packing!Float(sign, (1024 + m) * Pow(e - 1), Pow(24))
          [] OTHER -> Packing!Infinity(sign)
  <2>1. Packing!Bias = 15 /\ Packing!Mantissa = 10 /\ Packing!TopExponent = 31
    BY HalfConstants
  <2>2. 2^(16 - 1) = 32768 /\ 2^Packing!Mantissa = 1024 /\ 2^5 = 32 /\ 2^(Packing!Bias + Packing!Mantissa - 1) = Pow(24)
    BY <2>1 DEF Pow
  <2>3. (IF u >= 2^(16 - 1) THEN -1 ELSE 1) = sign /\ (u \div 2^Packing!Mantissa) % 2^5 = e /\ u % 2^Packing!Mantissa = m
    BY <1>2, <1>3, <1>4, <2>2
  <2> QED BY <2>1, <2>2, <2>3 DEF Packing!UnpackHalf, Pow
<1> QED BY <1>3, <1>4, <1>5

\* The quarters that the model counts are those a float is worth.
LEMMA QuartersAre ==
    ASSUME NEW sign \in Packing!Signs, NEW n \in Nat, NEW d \in Nat, NEW N \in Nat, Worth(n, d, N)
    PROVE  Packing!Quarters(Packing!Float(sign, n, d)) = N
<1>1. PICK c \in Nat : d * c = Pow(26) /\ N = n * c
  BY DEF Worth
<1>2. d > 0 /\ Pow(26) \in Nat
  BY <1>1, Powers
<1>3. PICK P \in Nat : P = Pow(26)
  BY <1>2
<1>4. P \div d = c
  <2>1. P \div d \in Nat /\ P % d \in 0 .. d - 1 /\ P = d * (P \div d) + (P % d)
    BY <1>2, Quotient
  <2>2. PICK q \in Nat, r \in Nat : q = P \div d /\ r < d /\ d * c = d * q + r
    BY <1>1, <1>3, <2>1
  <2>3. q >= c + 1 => d * q >= d * c + d
    BY SMT
  <2>4. c >= q + 1 => d * c >= d * q + d
    BY SMT
  <2>5. q = c
    BY <1>2, <2>2, <2>3, <2>4
  <2> QED BY <2>2, <2>5
<1>5. Packing!QuarterSteps = P
  BY <1>3, HalfConstants
<1> QED BY <1>1, <1>2, <1>4, <1>5 DEF Packing!Quarters, Packing!Float

\* A finite half is worth its value in quarters.
LEMMA UnpackedFinite ==
    ASSUME NEW sign \in Packing!Signs, NEW e \in Int, 0 <= e, e <= 30, NEW m \in Nat, m <= 1023,
           NEW y, y = Packing!UnpackHalf(Packing!HalfWord(sign, e, m))
    PROVE  \E n \in Nat :
              /\ y = Packing!Float(sign, n, Pow(24)) /\ ValueOf(e, m) \in Nat /\ Worth(n, Pow(24), ValueOf(e, m))
              /\ Packing!Quarters(y) = ValueOf(e, m)
<1>0. y = CASE e = 0 -> Packing!Float(sign, m, Pow(24))
            [] e \in 1 .. 30 -> Packing!Float(sign, (1024 + m) * Pow(e - 1), Pow(24))
            [] OTHER -> Packing!Infinity(sign)
  BY HalfWords
<1>1. Pow(24) \in Nat /\ Pow(24) * 4 = Pow(26)
  BY Powers
<1>2. PICK n \in Nat : y = Packing!Float(sign, n, Pow(24)) /\ ValueOf(e, m) = n * 4
  <2>1. CASE e = 0
    <3>1. y = Packing!Float(sign, m, Pow(24))
      BY <1>0, <2>1
    <3>2. ValueOf(e, m) = m * 4
      BY <2>1 DEF ValueOf, Low, Step
    <3> QED BY <3>1, <3>2
  <2>2. CASE e # 0
    <3>1. y = Packing!Float(sign, (1024 + m) * Pow(e - 1), Pow(24))
      <4>1. e \in 1 .. 30
        BY <2>2
      <4> QED BY <1>0, <2>2, <4>1
    <3>2. PICK p \in Nat : Pow(e - 1) = p /\ Pow(e + 1) = 4 * p
      <4>1. e - 1 \in 0 .. 31 /\ e \in 0 .. 31 /\ (e - 1) + 1 = e
        BY <2>2
      <4> QED BY <4>1, Powers
    <3>3. PICK n \in Nat : n = (1024 + m) * p
      <4>1. (1024 + m) * p \in Nat
        BY SMT
      <4> QED BY <4>1
    <3>4. ValueOf(e, m) = n * 4
      <4>1. (1024 + m) * (4 * p) = ((1024 + m) * p) * 4
        BY SMT
      <4> QED BY <2>2, <3>2, <3>3, <4>1 DEF ValueOf, Low, Step
    <3> QED BY <3>1, <3>2, <3>3, <3>4
  <2> QED BY <2>1, <2>2
<1>3. PICK V \in Nat, D \in Nat : V = ValueOf(e, m) /\ D = Pow(24)
  BY <1>1, <1>2
<1>4. Worth(n, D, V)
  <2>1. 4 \in Nat /\ D * 4 = Pow(26) /\ V = n * 4
    BY <1>1, <1>2, <1>3
  <2> QED BY <2>1 DEF Worth
<1>5. Packing!Quarters(Packing!Float(sign, n, D)) = V
  BY <1>4, QuartersAre
<1> QED BY <1>2, <1>3, <1>4, <1>5

\* A half unpacked.
LEMMA Unpacked ==
    ASSUME NEW sign \in Packing!Signs, NEW e \in Int, NEW m \in Nat, IsHalf(e, m),
           NEW y, y = Packing!UnpackHalf(Packing!HalfWord(sign, e, m))
    PROVE  /\ y.sign = sign /\ ValueOf(e, m) \in Nat /\ Packing!Quarters(y) = ValueOf(e, m)
           /\ e = 31 => y.d = 0
<1>1. CASE e \in 0 .. 30
  <2>1. m <= 1023
    BY <1>1 DEF IsHalf
  <2>2. PICK n \in Nat : /\ y = Packing!Float(sign, n, Pow(24)) /\ ValueOf(e, m) \in Nat
                         /\ Packing!Quarters(y) = ValueOf(e, m)
    BY <1>1, <2>1, UnpackedFinite
  <2> QED BY <1>1, <2>2 DEF Packing!Float
<1>2. CASE e = 31
  <2>1. m = 0
    BY <1>2 DEF IsHalf
  <2>2. y = Packing!Infinity(sign)
    BY <1>2, <2>1, HalfWords
  <2>3. y.sign = sign /\ y.d = 0
    BY <2>2 DEF Packing!Infinity, Packing!Float
  <2> QED BY <1>2, <2>1, <2>3, Steps, HalfConstants DEF Packing!Quarters
<1> QED BY <1>1, <1>2 DEF IsHalf

\* A carry is the first half of the next exponent.
LEMMA CarriedIs ==
    ASSUME NEW sign \in Packing!Signs, NEW e \in Int, 0 <= e, e <= 30, NEW k \in Nat, k <= 1024
    PROVE  \E g \in Int, m \in Nat :
              /\ Packing!Carried(sign, e, k) = Packing!HalfWord(sign, g, m)
              /\ IsHalf(g, m) /\ ValueOf(g, m) = ValueOf(e, k) /\ m % 2 = k % 2
<1>1. 2^Packing!Mantissa = 1024
  <2>1. Packing!Mantissa = 10
    BY HalfConstants
  <2> QED BY <2>1
<1>2. CASE k = 1024
  <2>1. Packing!Carried(sign, e, k) = Packing!HalfWord(sign, e + 1, 0)
    BY <1>1, <1>2 DEF Packing!Carried
  <2>2. IsHalf(e + 1, 0)
    BY DEF IsHalf
  <2>3. ValueOf(e + 1, 0) = ValueOf(e, k)
    BY <1>2, Steps
  <2>4. 0 % 2 = k % 2 /\ e + 1 \in Int /\ 0 \in Nat
    BY <1>2
  <2> QED BY <2>1, <2>2, <2>3, <2>4
<1>3. CASE k # 1024
  <2>1. Packing!Carried(sign, e, k) = Packing!HalfWord(sign, e, k)
    BY <1>1, <1>3 DEF Packing!Carried
  <2>2. IsHalf(e, k)
    BY <1>3 DEF IsHalf
  <2> QED BY <2>1, <2>2
<1> QED BY <1>2, <1>3

\* No multiple of a step is nearer than the one rounded to.
LEMMA Closest ==
    ASSUME NEW N \in Nat, NEW s \in Nat, s > 0, NEW mode \in RoundingModes, NEW k \in Nat, Rounded(N, s, mode, k),
           NEW j \in Nat
    PROVE  Packing!Distance(N, k * s) <= Packing!Distance(N, j * s)
<1>1. PICK p \in Nat, q \in Nat : p = k * s /\ q = j * s
  <2>1. k * s \in Nat /\ j * s \in Nat
    BY SMT
  <2> QED BY <2>1
<1>2. j >= k + 1 => q >= p + s
  <2>1. j >= k + 1 => j * s >= k * s + s
    BY SMT
  <2> QED BY <1>1, <2>1
<1>3. k >= j + 1 => p >= q + s
  <2>1. k >= j + 1 => k * s >= j * s + s
    BY SMT
  <2> QED BY <1>1, <2>1
<1>4. 2 * (N - p) <= s /\ -s <= 2 * (N - p)
  <2>1. PICK off \in Int : RoundedTo(N, s, mode, k, off)
    BY DEF Rounded
  <2> QED BY <1>1, <2>1 DEF RoundedTo
<1>5. j = k => p = q
  BY <1>1
<1>6. Packing!Distance(N, p) <= Packing!Distance(N, q)
  BY <1>2, <1>3, <1>4, <1>5 DEF Packing!Distance
<1> QED BY <1>1, <1>6

\* Within a binade no half is nearer than all multiples of its step, the two ends
\* included.
LEMMA Grid ==
    ASSUME NEW N \in Nat, NEW e \in Int, 0 <= e, e <= 30, Binade(N, e),
           NEW g \in Int, NEW m \in Nat, IsHalf(g, m)
    PROVE  \E j \in Nat : Packing!Distance(N, j * Step(e)) <= Packing!Distance(N, ValueOf(g, m))
<1>1. e \in 0 .. 31 /\ g \in 0 .. 31 /\ m <= 1023
  BY DEF IsHalf
<1>2. PICK s \in Nat, t \in Nat, l \in Nat, h \in Nat :
         s = Step(e) /\ t = Step(g) /\ l = Low(e) /\ h = Low(g) /\ s > 0 /\ t > 0
  BY <1>1, Steps
<1>3. PICK a \in Nat, b \in Nat, v \in Nat, v0 \in Nat, v1 \in Nat :
         /\ a = l * s /\ b = (l + 1024) * s
         /\ v = (h + m) * t /\ v0 = h * t /\ v1 = (h + 1024) * t
         /\ v0 <= v /\ v <= v1
  <2>1. l * s \in Nat /\ (l + 1024) * s \in Nat /\ (h + m) * t \in Nat /\ h * t \in Nat /\ (h + 1024) * t \in Nat
    BY SMT
  <2>2. h * t <= (h + m) * t /\ (h + m) * t <= (h + 1024) * t
    BY <1>1, SMT
  <2> QED BY <2>1, <2>2
<1>4. a <= N /\ N < b
  BY <1>2, <1>3 DEF Binade
<1>5. /\ ValueOf(e, 0) = a /\ ValueOf(e, 1024) = b
      /\ ValueOf(g, m) = v /\ ValueOf(g, 0) = v0 /\ ValueOf(g, 1024) = v1
  <2>1. l + 0 = l /\ h + 0 = h
    OBVIOUS
  <2> QED BY <1>2, <1>3, <2>1 DEF ValueOf
<1>6. CASE g < e
  <2>1. v1 <= a
    BY <1>1, <1>5, <1>6, StepsGrow
  <2>2. Packing!Distance(N, l * s) <= Packing!Distance(N, v)
    BY <1>3, <1>4, <2>1 DEF Packing!Distance
  <2> QED BY <1>2, <1>5, <2>2
<1>7. CASE g > e
  <2>1. b <= v0
    BY <1>1, <1>5, <1>7, StepsGrow
  <2>2. Packing!Distance(N, b) <= Packing!Distance(N, v)
    BY <1>3, <1>4, <2>1 DEF Packing!Distance
  <2>3. l + 1024 \in Nat /\ b = (l + 1024) * s
    BY <1>3
  <2> QED BY <1>2, <1>5, <2>2, <2>3
<1>8. CASE g = e
  <2>1. l + m \in Nat /\ ValueOf(g, m) = (l + m) * Step(e)
    BY <1>2, <1>8 DEF ValueOf
  <2>2. v <= v
    BY <1>3
  <2> HIDE DEF Packing!Distance
  <2>3. Packing!Distance(N, v) \in Int
    BY DEF Packing!Distance
  <2> QED BY <1>5, <2>1, <2>3
<1> QED BY <1>6, <1>7, <1>8

\* Any float but the infinities is packed so, zeros too.
LEMMA PackedAny ==
    ASSUME NEW sign \in Packing!Signs, NEW n \in Nat, NEW d \in Nat, NEW N \in Nat, Worth(n, d, N),
           N < Pow(26) * Pow(27), NEW mode \in RoundingModes,
           NEW w, w = Packing!PackHalf(Packing!Float(sign, n, d), mode)
    PROVE  PackedAs(sign, N, mode, w)
<1>0. PICK c \in Nat : d * c = Pow(26) /\ N = n * c
  BY DEF Worth
<1>1. d > 0 /\ c > 0
  BY <1>0, Powers
<1>2. CASE N = 0
  <2>1. n = 0
    <3>1. n > 0 => n * c > 0
      BY <1>1, SMT
    <3> QED BY <1>0, <1>2, <3>1
  <2>2. w = Packing!HalfWord(sign, 0, 0)
    BY <1>1, <2>1 DEF Packing!PackHalf, Packing!PackHalfUpTo, Packing!Float
  <2>3. Step(0) = 4 /\ Low(0) = 0
    BY DEF Step, Low
  <2>4. Binade(N, 0)
    BY <1>2, <2>3 DEF Binade
  <2>5. Rounded(N, 4, mode, 0)
    <3>1. RoundedTo(0, 4, mode, 0, 0)
      BY DEF RoundedTo
    <3> QED BY <1>2, <3>1 DEF Rounded
  <2>6. Packing!Carried(sign, 0, 0) = Packing!HalfWord(sign, 0, 0)
    <3>1. 2^Packing!Mantissa = 1024
      <4>1. Packing!Mantissa = 10
        BY HalfConstants
      <4> QED BY <4>1
    <3> QED BY <3>1 DEF Packing!Carried
  <2>7. 0 \in Nat /\ 0 \in Int /\ Rounded(N, Step(0), mode, Low(0) + 0)
    BY <2>3, <2>5
  <2> QED BY <2>2, <2>4, <2>6, <2>7 DEF PackedAs
<1>3. CASE N # 0
  <2>1. N >= 1
    BY <1>3
  <2> QED BY <2>1, PackedHalf
<1> QED BY <1>2, <1>3

\* A half for N quarters: the infinite one for what is too large, else the rounded
\* multiple of the step of its binade.
HalfFor(N, mode, g, m) ==
    \/ N >= Infinite /\ g = 31 /\ m = 0
    \/ \E e \in Int, k \in Nat :
          /\ 0 <= e /\ e <= 30 /\ Binade(N, e)
          /\ k <= 1024 /\ Rounded(N, Step(e), mode, Low(e) + k)
          /\ ValueOf(g, m) = ValueOf(e, k)

\* Any float is packed into such a half.
LEMMA PackedTo ==
    ASSUME NEW sign \in Packing!Signs, NEW n \in Nat, NEW d \in Nat, NEW N \in Nat, Worth(n, d, N),
           N < Pow(26) * Pow(27), NEW mode \in RoundingModes,
           NEW w, w = Packing!PackHalf(Packing!Float(sign, n, d), mode)
    PROVE  \E g \in Int, m \in Nat : IsHalf(g, m) /\ w = Packing!HalfWord(sign, g, m) /\ HalfFor(N, mode, g, m)
<1>1. PackedAs(sign, N, mode, w)
  BY PackedAny
<1>2. CASE N >= Infinite /\ w = Packing!HalfWord(sign, 31, 0)
  <2>1. IsHalf(31, 0) /\ HalfFor(N, mode, 31, 0) /\ 31 \in Int /\ 0 \in Nat
    BY <1>2 DEF IsHalf, HalfFor
  <2> QED BY <1>2, <2>1
<1>3. ASSUME NEW e \in Int, NEW k \in Nat, 0 <= e, e <= 30, Binade(N, e),
             k <= 1024, Rounded(N, Step(e), mode, Low(e) + k), w = Packing!Carried(sign, e, k)
      PROVE  \E g \in Int, m \in Nat : IsHalf(g, m) /\ w = Packing!HalfWord(sign, g, m) /\ HalfFor(N, mode, g, m)
  <2>1. PICK g \in Int, m \in Nat :
           /\ Packing!Carried(sign, e, k) = Packing!HalfWord(sign, g, m)
           /\ IsHalf(g, m) /\ ValueOf(g, m) = ValueOf(e, k) /\ m % 2 = k % 2
    BY <1>3, CarriedIs
  <2>2. HalfFor(N, mode, g, m)
    BY <1>3, <2>1, Zenon DEF HalfFor
  <2> QED BY <1>3, <2>1, <2>2, Zenon
<1> QED BY <1>1, <1>2, <1>3 DEF PackedAs

\* No half is nearer to N quarters.
LEMMA NoneNearer ==
    ASSUME NEW N \in Nat, NEW mode \in RoundingModes, NEW g \in Int, NEW m \in Nat, HalfFor(N, mode, g, m),
           NEW h \in Int, NEW l \in Nat, IsHalf(h, l)
    PROVE  Packing!Distance(N, ValueOf(g, m)) <= Packing!Distance(N, ValueOf(h, l))
<1>1. CASE N >= Infinite /\ g = 31 /\ m = 0
  <2>1. ValueOf(g, m) = Infinite /\ Infinite \in Nat
    BY <1>1, Steps
  <2>2. ValueOf(h, l) \in Nat /\ ValueOf(h, l) <= Infinite
    <3>1. h \in 0 .. 31 /\ l <= 1023
      BY DEF IsHalf
    <3>2. CASE h = 31
      BY <2>1, <1>1, <3>2, Steps DEF IsHalf
    <3>3. CASE h # 31
      <4>1. h < 31 /\ 31 \in 0 .. 31
        BY <3>1, <3>3
      <4>2. ValueOf(h, 1024) <= ValueOf(31, 0)
        BY <3>1, <4>1, StepsGrow
      <4>3. PICK s \in Nat, b \in Nat : s = Step(h) /\ b = Low(h)
        BY <3>1, Steps
      <4>4. (b + l) * s \in Nat /\ (b + l) * s <= (b + 1024) * s /\ (b + 1024) * s \in Nat
        BY <3>1, SMT
      <4> QED BY <1>1, <2>1, <4>2, <4>3, <4>4 DEF ValueOf
    <3> QED BY <3>2, <3>3
  <2> QED BY <1>1, <2>1, <2>2 DEF Packing!Distance
<1>2. ASSUME NEW e \in Int, NEW k \in Nat, 0 <= e, e <= 30, Binade(N, e),
             Rounded(N, Step(e), mode, Low(e) + k), ValueOf(g, m) = ValueOf(e, k)
      PROVE  Packing!Distance(N, ValueOf(g, m)) <= Packing!Distance(N, ValueOf(h, l))
  <2>1. PICK s \in Nat, b \in Nat : s = Step(e) /\ b = Low(e) /\ s > 0
    <3>1. e \in 0 .. 31
      BY <1>2
    <3> QED BY <3>1, Steps
  <2>2. PICK j \in Nat : Packing!Distance(N, j * Step(e)) <= Packing!Distance(N, ValueOf(h, l))
    BY <1>2, Grid
  <2>3. PICK c \in Nat : c = b + k
    OBVIOUS
  <2>4. Packing!Distance(N, c * s) <= Packing!Distance(N, j * s)
    <3>1. Rounded(N, s, mode, c)
      BY <1>2, <2>1, <2>3
    <3> QED BY <2>1, <3>1, Closest
  <2>5. ValueOf(g, m) = c * s
    BY <1>2, <2>1, <2>3 DEF ValueOf
  <2>6. PICK v \in Nat, o \in Nat : v = c * s /\ o = j * s
    <3>1. c * s \in Nat /\ j * s \in Nat
      BY SMT
    <3> QED BY <3>1
  <2>7. PICK z \in Nat : z = ValueOf(h, l)
    <3>1. h \in 0 .. 31
      BY DEF IsHalf
    <3>2. PICK t \in Nat, a \in Nat : t = Step(h) /\ a = Low(h)
      BY <3>1, Steps
    <3>3. (a + l) * t \in Nat
      BY SMT
    <3> QED BY <3>2, <3>3 DEF ValueOf
  <2> QED BY <2>1, <2>2, <2>4, <2>5, <2>6, <2>7 DEF Packing!Distance
<1> QED BY <1>1, <1>2 DEF HalfFor

\* The halves a float is compared with.
LEMMA OtherHalves ==
    ASSUME NEW sign \in Packing!Signs,
           NEW v \in {Packing!HalfWord(sign, e, m) : e \in 0 .. (Packing!TopExponent - 1), m \in 0 .. (2^Packing!Mantissa - 1)}
                     \cup {Packing!HalfWord(sign, Packing!TopExponent, 0)}
    PROVE  \E h \in Int, l \in Nat : IsHalf(h, l) /\ v = Packing!HalfWord(sign, h, l)
<1>1. PICK T \in Nat, M \in Nat : T = Packing!TopExponent /\ M = 2^Packing!Mantissa /\ T = 31 /\ M = 1024
  <2>1. 2^Packing!Mantissa = 1024 /\ Packing!TopExponent = 31
    <3>1. Packing!Mantissa = 10 /\ Packing!TopExponent = 31
      BY HalfConstants
    <3> QED BY <3>1
  <2> QED BY <2>1
<1>2. CASE v = Packing!HalfWord(sign, T, 0)
  <2>1. IsHalf(T, 0) /\ T \in Int /\ 0 \in Nat
    BY <1>1 DEF IsHalf
  <2> QED BY <1>2, <2>1
<1>3. CASE \E e \in 0 .. (T - 1), m \in 0 .. (M - 1) : v = Packing!HalfWord(sign, e, m)
  <2>1. PICK e \in Int, m \in Nat : e \in 0 .. (T - 1) /\ m <= M - 1 /\ v = Packing!HalfWord(sign, e, m)
    BY <1>3
  <2>2. IsHalf(e, m)
    BY <1>1, <2>1 DEF IsHalf
  <2> QED BY <2>1, <2>2
<1> QED BY <1>1, <1>2, <1>3

\* A float is packed into the nearest half.
LEMMA HalfIsNearest ==
    ASSUME NEW x \in HalfFloats, NEW mode \in RoundingModes
    PROVE  Packing!NearestHalf(x, Packing!PackHalf(x, mode))
<1> DEFINE u == Packing!PackHalf(x, mode)
           Off(v) == Packing!Distance(Packing!Quarters(x), Packing!Quarters(Packing!UnpackHalf(v)))
<1>1. CASE x \in Packing!Infinities
  <2>1. PICK sign \in Packing!Signs : x = Packing!Infinity(sign)
    BY <1>1 DEF Packing!Infinities
  <2>2. x.d = 0 /\ x.sign = sign
    BY <2>1 DEF Packing!Infinity, Packing!Float
  <2>3. u = Packing!HalfWord(sign, 31, 0)
    BY <2>2, HalfConstants DEF Packing!PackHalf, Packing!PackHalfUpTo
  <2>4. IsHalf(31, 0) /\ 31 \in Int /\ 0 \in Nat
    BY DEF IsHalf
  <2>5. PICK y : y = Packing!UnpackHalf(Packing!HalfWord(sign, 31, 0))
    OBVIOUS
  <2>6. y.sign = sign /\ y.d = 0
    BY <2>4, <2>5, Unpacked
  <2> QED BY <2>2, <2>3, <2>5, <2>6 DEF Packing!NearestHalf
<1>2. CASE x \notin Packing!Infinities
  <2>1. PICK sign \in Packing!Signs, n \in Nat, d \in Nat, N \in Nat :
           /\ x = Packing!Float(sign, n, d) /\ d # 0 /\ Worth(n, d, N) /\ N < Pow(26) * Pow(27)
    BY <1>2 DEF HalfFloats, Packing!Float
  <2>2. x.sign = sign /\ x.d # 0
    BY <2>1 DEF Packing!Float
  <2>3. Packing!Quarters(x) = N
    BY <2>1, QuartersAre
  <2>4. PICK g \in Int, m \in Nat : IsHalf(g, m) /\ u = Packing!HalfWord(sign, g, m) /\ HalfFor(N, mode, g, m)
    BY <2>1, PackedTo
  <2> HIDE DEF u
  <2>5. Packing!UnpackHalf(u).sign = sign /\ Packing!Quarters(Packing!UnpackHalf(u)) = ValueOf(g, m)
    BY <2>4, Unpacked
  <2>6. ASSUME NEW h \in Int, NEW l \in Nat, IsHalf(h, l), NEW v, v = Packing!HalfWord(sign, h, l)
        PROVE  Off(u) <= Off(v)
    <3>1. Packing!Quarters(Packing!UnpackHalf(v)) = ValueOf(h, l)
      BY <2>6, Unpacked
    <3>2. Packing!Distance(N, ValueOf(g, m)) <= Packing!Distance(N, ValueOf(h, l))
      BY <2>4, <2>6, NoneNearer
    <3> QED BY <2>3, <2>5, <3>1, <3>2
  <2> DEFINE others == {Packing!HalfWord(x.sign, e, k) : e \in 0 .. (Packing!TopExponent - 1), k \in 0 .. (2^Packing!Mantissa - 1)}
                       \cup {Packing!HalfWord(x.sign, Packing!TopExponent, 0)}
  <2>7. \A v \in others : Off(u) <= Off(v)
    <3> TAKE v \in others
    <3> HIDE DEF Off
    <3>1. PICK h \in Int, l \in Nat : IsHalf(h, l) /\ v = Packing!HalfWord(sign, h, l)
      BY <2>2, OtherHalves
    <3> QED BY <2>6, <3>1
  <2>8. Packing!NearestHalf(x, u)
    BY <2>2, <2>5, <2>7, SMT DEF Packing!NearestHalf
  <2> QED BY <2>8 DEF u
<1> QED BY <1>1, <1>2

\* Where the modes differ the first rounds to the even half.
LEMMA EvenHalf ==
    ASSUME NEW sign \in Packing!Signs, NEW N \in Nat,
           NEW w, PackedAs(sign, N, "even", w), NEW v, PackedAs(sign, N, "nearest", v), w # v
    PROVE  w % 2 = 0 /\ v % 2 = 1
<1>1. PICK e \in Int, k \in Nat, g \in Int, l \in Nat :
         /\ 0 <= e /\ e <= 30 /\ Binade(N, e) /\ k <= 1024 /\ Rounded(N, Step(e), "even", Low(e) + k)
         /\ w = Packing!Carried(sign, e, k)
         /\ 0 <= g /\ g <= 30 /\ Binade(N, g) /\ l <= 1024 /\ Rounded(N, Step(g), "nearest", Low(g) + l)
         /\ v = Packing!Carried(sign, g, l)
  <2>1. ASSUME NEW e \in Int, 0 <= e, e <= 30, Binade(N, e) PROVE ~ (N >= Infinite)
    <3>1. e \in 0 .. 30
      BY <2>1
    <3>2. N < Infinite
      BY <2>1, <3>1, OneBinade
    <3> QED BY <3>2, Steps
  <2> QED BY <2>1 DEF PackedAs
<1>2. g = e
  <2>1. e \in 0 .. 30 /\ g \in 0 .. 30
    BY <1>1
  <2> QED BY <1>1, <2>1, OneBinade
<1>3. PICK s \in Nat, b \in Nat : s = Step(e) /\ b = Low(e) /\ s > 0 /\ b \in {0, 1024}
  <2>1. e \in 0 .. 31
    BY <1>1
  <2> QED BY <2>1, Steps DEF Low
<1>4. PICK o \in Int, p \in Int : RoundedTo(N, s, "even", b + k, o) /\ RoundedTo(N, s, "nearest", b + l, p)
  BY <1>1, <1>2, <1>3 DEF Rounded
<1>5. PICK i \in Nat, j \in Nat : i = b + k /\ j = b + l /\ i # j
  BY <1>1, <1>2
<1>6. i % 2 = 0 /\ j % 2 = 1
  <2>1. PICK a \in Int : a = N
    OBVIOUS
  <2>2. RoundedTo(a, s, "even", i, o) /\ RoundedTo(a, s, "nearest", j, p) /\ s > 0 /\ i # j
    BY <1>3, <1>4, <1>5, <2>1
  <2> QED BY <2>2, EvenOne
<1>7. k % 2 = 0 /\ l % 2 = 1
  BY <1>3, <1>5, <1>6
<1>8. ASSUME NEW n \in Nat, n <= 1024, NEW c, c = Packing!Carried(sign, e, n) PROVE c % 2 = n % 2
  <2>1. PICK h \in Int, m \in Nat : c = Packing!HalfWord(sign, h, m) /\ IsHalf(h, m) /\ m % 2 = n % 2
    <3>1. 0 <= e /\ e <= 30
      BY <1>1
    <3>2. PICK h \in Int, m \in Nat :
             /\ Packing!Carried(sign, e, n) = Packing!HalfWord(sign, h, m)
             /\ IsHalf(h, m) /\ ValueOf(h, m) = ValueOf(e, n) /\ m % 2 = n % 2
      BY <1>8, <3>1, CarriedIs
    <3> QED BY <1>8, <3>2, Zenon
  <2>2. 0 <= h /\ h <= 31 /\ m <= 1023
    BY <2>1 DEF IsHalf
  <2> QED BY <2>1, <2>2, HalfWords
<1> QED BY <1>1, <1>2, <1>7, <1>8

\* The value of a half packs into that half again, in either mode.
LEMMA HalfRepacks ==
    ASSUME NEW sign \in Packing!Signs, NEW e \in Int, NEW m \in Nat, IsHalf(e, m), NEW mode \in RoundingModes
    PROVE  Packing!PackHalf(Packing!UnpackHalf(Packing!HalfWord(sign, e, m)), mode) = Packing!HalfWord(sign, e, m)
<1> DEFINE u == Packing!HalfWord(sign, e, m)
           y == Packing!UnpackHalf(u)
<1>1. CASE e = 31
  <2>1. m = 0 /\ m <= 1023 /\ 0 <= e /\ e <= 31
    BY <1>1 DEF IsHalf
  <2>2. y = Packing!Infinity(sign)
    BY <1>1, <2>1, HalfWords
  <2>3. y.d = 0 /\ y.sign = sign
    BY <2>2 DEF Packing!Infinity, Packing!Float
  <2> HIDE DEF y
  <2>4. Packing!PackHalf(y, mode) = Packing!HalfWord(sign, 31, 0)
    BY <2>3, HalfConstants DEF Packing!PackHalf, Packing!PackHalfUpTo
  <2> QED BY <1>1, <2>1, <2>4 DEF y
<1>2. CASE e # 31
  <2>1. 0 <= e /\ e <= 30 /\ m <= 1023 /\ e \in 0 .. 30
    BY <1>2 DEF IsHalf
  <2>2. PICK n \in Nat : y = Packing!Float(sign, n, Pow(24)) /\ ValueOf(e, m) \in Nat /\ Worth(n, Pow(24), ValueOf(e, m))
    BY <2>1, UnpackedFinite
  <2>3. PICK N \in Nat, s \in Nat, b \in Nat : N = ValueOf(e, m) /\ s = Step(e) /\ b = Low(e) /\ s > 0
    <3>1. e \in 0 .. 31
      BY <2>1
    <3> QED BY <2>2, <3>1, Steps
  <2>4. N = (b + m) * s
    BY <2>3 DEF ValueOf
  <2>5. Binade(N, e)
    <3>1. b * s <= (b + m) * s /\ (b + m) * s < (b + 1024) * s
      BY <2>1, <2>3, SMT
    <3> QED BY <2>3, <2>4, <3>1 DEF Binade
  <2>6. N < Infinite /\ N < Pow(26) * Pow(27)
    <3>1. N < Infinite
      BY <2>1, <2>5, OneBinade
    <3>2. PICK p \in Nat, q \in Nat : p = Pow(16) /\ q = Pow(27) /\ p <= q
      <4>1. 16 \in 0 .. 31 /\ 27 \in 0 .. 31 /\ 16 \in 0 .. 32 /\ 27 \in 0 .. 32 /\ 16 < 27
        OBVIOUS
      <4>2. Pow(16) \in Nat /\ Pow(27) \in Nat /\ Pow(27) >= 2 * Pow(16)
        BY <4>1, Powers, PowGrows
      <4> QED BY <4>2
    <3> QED BY <3>1, <3>2, Powers DEF Infinite
  <2> DEFINE w == Packing!PackHalf(y, mode)
  <2>7. PackedAs(sign, N, mode, w)
    <3>1. Pow(24) \in Nat
      BY Powers
    <3> QED BY <2>2, <2>3, <2>6, <3>1, PackedAny
  <2> HIDE DEF w
  <2>8. PICK g \in Int, k \in Nat :
           /\ 0 <= g /\ g <= 30 /\ Binade(N, g) /\ Rounded(N, Step(g), mode, Low(g) + k)
           /\ w = Packing!Carried(sign, g, k)
    BY <2>6, <2>7, Steps DEF PackedAs
  <2>9. g = e
    <3>1. g \in 0 .. 30
      BY <2>8
    <3> QED BY <2>1, <2>5, <2>8, <3>1, OneBinade
  <2>10. k = m
    <3>1. PICK o \in Int : RoundedTo(N, s, mode, b + k, o)
      BY <2>3, <2>8, <2>9 DEF Rounded
    <3>2. k >= m + 1 => (b + k) * s >= (b + m) * s + s
      BY SMT
    <3>3. m >= k + 1 => (b + m) * s >= (b + k) * s + s
      BY SMT
    <3>4. (b + m) * s \in Int /\ (b + k) * s \in Int
      BY SMT
    <3> QED BY <2>3, <2>4, <3>1, <3>2, <3>3, <3>4 DEF RoundedTo
  <2>11. Packing!Carried(sign, e, m) = u
    <3>1. 2^Packing!Mantissa = 1024
      <4>1. Packing!Mantissa = 10
        BY HalfConstants
      <4> QED BY <4>1
    <3> QED BY <2>1, <3>1 DEF Packing!Carried
  <2> QED BY <2>8, <2>9, <2>10, <2>11 DEF w
<1> QED BY <1>1, <1>2

-----------------------------------------------------------------------------
(***************************************************************************)
(* The theorems about components, and the test vectors they are in.        *)
(***************************************************************************)

HalfFunctions == {f \in Packing!Functions : f.kind = "half"}

\* The words expected of two modes, listed.
LEMMA TwoWords ==
    ASSUME NEW f, NEW x
    PROVE  [m \in 1 .. 2 |-> Packing!Pack(f, x, Packing!Modes[m])] = <<Packing!Pack(f, x, "even"), Packing!Pack(f, x, "nearest")>>
<1> DEFINE u == Packing!Pack(f, x, "even")
           v == Packing!Pack(f, x, "nearest")
<1>1. Packing!Modes[1] = "even" /\ Packing!Modes[2] = "nearest"
  BY DEF Packing!Modes
<1> HIDE DEF u, v
<1>2. [m \in 1 .. 2 |-> Packing!Pack(f, x, Packing!Modes[m])][1] = u
  BY <1>1 DEF u
<1>3. [m \in 1 .. 2 |-> Packing!Pack(f, x, Packing!Modes[m])][2] = v
  BY <1>1 DEF v
<1>4. [m \in 1 .. 2 |-> Packing!Pack(f, x, Packing!Modes[m])] = <<u, v>>
  BY <1>2, <1>3
<1> QED BY <1>4 DEF u, v

\* The words that the tests of packHalf2x16 accept of a float, infinities included,
\* are nearest to it among all halves, and where two are nearest the first is the even
\* one (gen_builtin_packing_tests.py, pack_half_1x16).
THEOREM HalvesAreNearest ==
    ASSUME NEW f \in HalfFunctions, NEW x \in HalfFloats
    PROVE  Packing!RightlyPacked(f, x, [m \in 1 .. 2 |-> Packing!Pack(f, x, Packing!Modes[m])])
<1> DEFINE u == Packing!PackHalf(x, "even")
           v == Packing!PackHalf(x, "nearest")
<1>1. f.kind = "half"
  BY DEF HalfFunctions
<1>2. [m \in 1 .. 2 |-> Packing!Pack(f, x, Packing!Modes[m])] = <<u, v>>
  BY <1>1, TwoWords DEF Packing!Pack
<1>3. Packing!Nearest(f, x, u) /\ Packing!Nearest(f, x, v)
  <2>1. "even" \in RoundingModes /\ "nearest" \in RoundingModes
    BY DEF RoundingModes
  <2> QED BY <1>1, <2>1, HalfIsNearest DEF Packing!Nearest
<1>4. (Packing!Even(u) /\ ~ Packing!Even(v)) \/ u = v
  <2>1. CASE x \in Packing!Infinities
    <3>1. x.d = 0
      BY <2>1 DEF Packing!Infinities, Packing!Infinity, Packing!Float
    <3> QED BY <3>1 DEF Packing!PackHalf, Packing!PackHalfUpTo
  <2>2. CASE x \notin Packing!Infinities
    <3>1. PICK sign \in Packing!Signs, n \in Nat, d \in Nat, N \in Nat :
             x = Packing!Float(sign, n, d) /\ Worth(n, d, N) /\ N < Pow(26) * Pow(27)
      BY <2>2 DEF HalfFloats, Packing!Float
    <3>2. "even" \in RoundingModes /\ "nearest" \in RoundingModes
      BY DEF RoundingModes
    <3> HIDE DEF u, v
    <3>3. PackedAs(sign, N, "even", u)
      <4>1. u = Packing!PackHalf(Packing!Float(sign, n, d), "even")
        BY <3>1 DEF u
      <4> QED BY <3>1, <3>2, <4>1, PackedAny
    <3>4. PackedAs(sign, N, "nearest", v)
      <4>1. v = Packing!PackHalf(Packing!Float(sign, n, d), "nearest")
        BY <3>1 DEF v
      <4> QED BY <3>1, <3>2, <4>1, PackedAny
    <3>5. u # v => u % 2 = 0 /\ v % 2 = 1
      BY <3>3, <3>4, EvenHalf
    <3> QED BY <3>5 DEF Packing!Even
  <2> QED BY <2>1, <2>2
<1> HIDE DEF u, v
<1>5. Packing!RightlyPacked(f, x, <<u, v>>)
  <2>1. Packing!ToSet(<<u, v>>) = {u, v}
    BY DEF Packing!ToSet
  <2> QED BY <1>3, <1>4, <2>1 DEF Packing!RightlyPacked
<1> QED BY <1>2, <1>5

\* What the tests of unpackHalf2x16 expect of a half, the infinite ones included, packs
\* into that half again in either mode (unpack_half_1x16).
THEOREM HalvesRepack ==
    ASSUME NEW f \in HalfFunctions, NEW sign \in Packing!Signs, NEW e \in Int, NEW m \in Nat, IsHalf(e, m),
           NEW u, u = Packing!HalfWord(sign, e, m)
    PROVE  Packing!RightlyUnpacked(f, Packing!Unpack(f, u), u)
<1>1. f.kind = "half"
  BY DEF HalfFunctions
<1>2. \A mode \in RoundingModes : Packing!PackHalf(Packing!UnpackHalf(u), mode) = u
  BY HalfRepacks
<1>3. \A i \in DOMAIN Packing!Modes : Packing!Modes[i] \in RoundingModes
  BY DEF Packing!Modes, RoundingModes
<1> QED BY <1>1, <1>2, <1>3 DEF Packing!RightlyUnpacked, Packing!Pack, Packing!Unpack

\* The floats whose components are packed.
FloatsOf(f) == IF f.kind = "half" THEN HalfFloats ELSE Floats

\* The functions pack words of 8 and 16 bits.
LEMMA FunctionFacts ==
    ASSUME NEW f \in Packing!Functions
    PROVE  /\ f.w \in {8, 16}
           /\ IF f.kind = "half" THEN f.w = 16 /\ f \in HalfFunctions ELSE f \in NormFunctions
BY DEF NormFunctions, HalfFunctions, Packing!Functions, Packing!Function

\* A half is a word of 16 bits.
LEMMA HalfFits ==
    ASSUME NEW sign \in Packing!Signs, NEW e \in Int, NEW m \in Nat, IsHalf(e, m)
    PROVE  Packing!HalfWord(sign, e, m) \in 0 .. WordsOf(16) - 1
<1>1. 2^(16 - 1) = 32768 /\ 2^Packing!Mantissa = 1024 /\ WordsOf(16) = 65536
  <2>1. Packing!Mantissa = 10
    BY HalfConstants
  <2> QED BY <2>1 DEF WordsOf
<1>2. 0 <= e /\ e <= 31 /\ m <= 1023
  BY DEF IsHalf
<1>3. PICK w \in Int : w = Packing!HalfWord(sign, e, m) /\ w = (IF sign < 0 THEN 32768 ELSE 0) + e * 1024 + m
  BY <1>1 DEF Packing!HalfWord
<1>4. 0 <= w /\ w <= 65535
  BY <1>2, <1>3
<1> QED BY <1>1, <1>3, <1>4

\* A packed component is a word of its width.
LEMMA PackedFits ==
    ASSUME NEW f \in Packing!Functions, NEW x \in FloatsOf(f), NEW mode \in RoundingModes
    PROVE  Packing!Pack(f, x, mode) \in 0 .. WordsOf(f.w) - 1
<1> DEFINE u == Packing!Pack(f, x, mode)
<1>1. CASE f.kind = "half"
  <2>1. u = Packing!PackHalf(x, mode) /\ f.w = 16 /\ x \in HalfFloats
    BY <1>1, FunctionFacts DEF Packing!Pack, FloatsOf
  <2> HIDE DEF u
  <2>2. \E sign \in Packing!Signs, e \in Int, m \in Nat : IsHalf(e, m) /\ u = Packing!HalfWord(sign, e, m)
    <3>1. CASE x \in Packing!Infinities
      <4>1. PICK sign \in Packing!Signs : x = Packing!Infinity(sign)
        BY <3>1 DEF Packing!Infinities
      <4>2. x.d = 0 /\ x.sign = sign
        BY <4>1 DEF Packing!Infinity, Packing!Float
      <4>3. u = Packing!HalfWord(sign, 31, 0)
        BY <2>1, <4>2, HalfConstants DEF Packing!PackHalf, Packing!PackHalfUpTo
      <4>4. IsHalf(31, 0) /\ 31 \in Int /\ 0 \in Nat
        BY DEF IsHalf
      <4> QED BY <4>3, <4>4
    <3>2. CASE x \notin Packing!Infinities
      <4>1. PICK sign \in Packing!Signs, n \in Nat, d \in Nat, N \in Nat :
               x = Packing!Float(sign, n, d) /\ Worth(n, d, N) /\ N < Pow(26) * Pow(27)
        BY <2>1, <3>2 DEF HalfFloats, Packing!Float
      <4>2. PICK e \in Int, m \in Nat : IsHalf(e, m) /\ u = Packing!HalfWord(sign, e, m)
        BY <2>1, <4>1, PackedTo
      <4> QED BY <4>2
    <3> QED BY <3>1, <3>2
  <2>3. u \in 0 .. WordsOf(16) - 1
    BY <2>2, HalfFits
  <2> QED BY <2>1, <2>3 DEF u
<1>2. CASE f.kind # "half"
  <2>1. f \in NormFunctions /\ x \in Floats /\ f.w \in {8, 16}
    BY <1>2, FunctionFacts DEF FloatsOf
  <2>2. f.kind \in {"snorm", "unorm"} /\ Limit(f) \in {127, 255, 32767, 65535}
    BY <2>1, NormFacts
  <2>3. Least(f) \in {Packing!Minus(Packing!One), Packing!Zero} /\ (f.kind = "unorm" => Least(f) = Packing!Zero)
    BY <2>2 DEF Least
  <2>4. PICK sign \in Packing!Signs, n \in Nat, d \in Nat :
           /\ Packing!Clamp(x, Least(f), Packing!One) = Packing!Float(sign, n, d)
           /\ d > 0 /\ n <= d
           /\ f.kind = "unorm" => sign = 1 \/ n = 0
    BY <2>1, <2>3, Clamped
  <2>5. PICK k \in Int : u = WithSign(sign, k) % WordsOf(f.w)
    <3>1. PICK N \in Nat, D \in Nat : RoundedFor(f, sign, n, d, N, D)
      BY <2>1, <2>4, Product
    <3>2. PICK k \in 0 .. Limit(f) : u = WithSign(sign, k) % WordsOf(f.w)
      BY <2>1, <2>4, <3>1, PackedWord
    <3> QED BY <2>2, <3>2
  <2> HIDE DEF u
  <2>6. PICK i \in Int, W \in {256, 65536} : i = WithSign(sign, k) /\ W = WordsOf(f.w)
    BY <2>1, Widths DEF WithSign, Packing!Signs
  <2>7. i % W \in 0 .. W - 1
    BY <2>6
  <2> QED BY <2>5, <2>6, <2>7 DEF u
<1> QED BY <1>1, <1>2

\* What is above and below a number of bits.
LEMMA Digits ==
    ASSUME NEW W \in {256, 65536, 16777216}, NEW high \in Nat, NEW low \in Nat, low < W,
           NEW n \in Nat, n = high * W + low
    PROVE  n % W = low /\ n \div W = high
<1>1. CASE W = 256
  BY <1>1, SMT
<1>2. CASE W = 65536
  BY <1>2, SMT
<1>3. CASE W = 16777216
  BY <1>3, SMT
<1> QED BY <1>1, <1>2, <1>3, SMT

\* Two fields of 16 bits, and four of 8.
LEMMA TwoFields ==
    ASSUME NEW a \in Nat, NEW b \in Nat, a < 65536, b < 65536, NEW u \in Nat, u = b * 65536 + a
    PROVE  u % 65536 = a /\ (u \div 65536) % 65536 = b
<1>1. u % 65536 = a /\ u \div 65536 = b
  BY Digits, SMT
<1>2. b % 65536 = b
  BY SMT
<1> QED BY <1>1, <1>2, SMT

LEMMA FourFields ==
    ASSUME NEW a \in Nat, NEW b \in Nat, NEW c \in Nat, NEW d \in Nat, a < 256, b < 256, c < 256, d < 256,
           NEW u \in Nat, u = d * 16777216 + c * 65536 + b * 256 + a
    PROVE  /\ u % 256 = a /\ (u \div 256) % 256 = b
           /\ (u \div 65536) % 256 = c /\ (u \div 16777216) % 256 = d
<1>1. PICK p \in Nat, q \in Nat, r \in Nat, s \in Nat :
         p = d * 256 + c /\ q = p * 256 + b /\ r = b * 256 + a /\ s = c * 65536 + r
  <2>1. d * 256 + c \in Nat /\ (d * 256 + c) * 256 + b \in Nat /\ b * 256 + a \in Nat /\ c * 65536 + (b * 256 + a) \in Nat
    BY SMT
  <2> QED BY <2>1, SMT
<1>2. r < 65536 /\ s < 16777216 /\ u = q * 256 + a /\ u = p * 65536 + r /\ u = d * 16777216 + s
  BY <1>1, SMT
<1>3. u % 256 = a /\ u \div 256 = q
  BY <1>2, Digits, SMT
<1>4. u \div 65536 = p
  BY <1>2, Digits, SMT
<1>5. u \div 16777216 = d
  BY <1>2, Digits, SMT
<1>6. q % 256 = b /\ p % 256 = c
  BY <1>1, Digits, SMT
<1>7. d % 256 = d
  BY SMT
<1> QED BY <1>3, <1>4, <1>5, <1>6, <1>7, SMT

\* The fields of a word are the components it was put together from.
LEMMA FieldOfWord ==
    ASSUME NEW f, f.w \in {8, 16}, NEW us \in Seq(Nat), Len(us) = (IF f.w = 16 THEN 2 ELSE 4),
           \A i \in DOMAIN us : us[i] \in 0 .. WordsOf(f.w) - 1
    PROVE  \A i \in DOMAIN us : Packing!FieldOf(f, Packing!Word(f, us), i) = us[i]
<1>1. CASE f.w = 16
  <2>1. DOMAIN us = {1, 2} /\ WordsOf(16) = 65536
    BY <1>1, SMT DEF WordsOf
  <2>2. PICK a \in Nat, b \in Nat : a = us[1] /\ b = us[2] /\ a < 65536 /\ b < 65536
    BY <1>1, <2>1, SMT
  <2>3. PICK u \in Nat : u = b * 65536 + a
    BY SMT
  <2>4. Packing!Word(f, us) = u
    BY <1>1, <2>2, <2>3, SMT DEF Packing!Word
  <2>5. u % 65536 = a /\ (u \div 65536) % 65536 = b
    <3>1. a < 65536 /\ b < 65536
      BY <2>2, SMT
    <3> QED BY <2>3, <3>1, TwoFields, SMT
  <2>6. Packing!FieldOf(f, u, 1) = a /\ Packing!FieldOf(f, u, 2) = b
    BY <1>1, <2>5, SMT DEF Packing!FieldOf
  <2> QED BY <2>1, <2>2, <2>4, <2>6, SMT
<1>2. CASE f.w = 8
  <2>1. DOMAIN us = {1, 2, 3, 4} /\ WordsOf(8) = 256
    BY <1>2, SMT DEF WordsOf
  <2>2. PICK a \in Nat, b \in Nat, c \in Nat, d \in Nat :
           /\ a = us[1] /\ b = us[2] /\ c = us[3] /\ d = us[4]
           /\ a < 256 /\ b < 256 /\ c < 256 /\ d < 256
    BY <1>2, <2>1, SMT
  <2>3. PICK u \in Nat : u = d * 16777216 + c * 65536 + b * 256 + a
    BY SMT
  <2>4. Packing!Word(f, us) = u
    BY <1>2, <2>2, <2>3, SMT DEF Packing!Word
  <2>5. /\ u % 256 = a /\ (u \div 256) % 256 = b
        /\ (u \div 65536) % 256 = c /\ (u \div 16777216) % 256 = d
    <3>1. a < 256 /\ b < 256 /\ c < 256 /\ d < 256
      BY <2>2, Zenon
    <3> QED BY <2>3, <3>1, FourFields, SMT
  <2>6. /\ Packing!FieldOf(f, u, 1) = a /\ Packing!FieldOf(f, u, 2) = b
        /\ Packing!FieldOf(f, u, 3) = c /\ Packing!FieldOf(f, u, 4) = d
    BY <1>2, <2>5, SMT DEF Packing!FieldOf
  <2> QED BY <2>1, <2>2, <2>4, <2>6, SMT
<1> QED BY <1>1, <1>2

\* A packed component is right, and so is an unpacked one.
LEMMA PackedRight ==
    ASSUME NEW f \in Packing!Functions, NEW x \in FloatsOf(f)
    PROVE  Packing!RightlyPacked(f, x, [m \in 1 .. 2 |-> Packing!Pack(f, x, Packing!Modes[m])])
<1>1. CASE f.kind = "half"
  <2>1. f \in HalfFunctions /\ x \in HalfFloats
    BY <1>1, FunctionFacts DEF FloatsOf
  <2> QED BY <2>1, HalvesAreNearest
<1>2. CASE f.kind # "half"
  <2>1. f \in NormFunctions /\ x \in Floats
    BY <1>2, FunctionFacts DEF FloatsOf
  <2> QED BY <2>1, WordsAreNearest
<1> QED BY <1>1, <1>2

\* The words that the tests unpack are words of their width, and halves if halves.
LEMMA WordInputsFit ==
    ASSUME NEW f \in Packing!Functions, NEW u \in Packing!WordInputs(f)
    PROVE  /\ u \in 0 .. WordsOf(f.w) - 1
           /\ f.kind = "half" => \E sign \in Packing!Signs, e \in Int, m \in Nat : IsHalf(e, m) /\ u = Packing!HalfWord(sign, e, m)
<1>1. CASE f.kind = "half"
  <2>1. 2^Packing!Mantissa = 1024 /\ Packing!TopExponent = 31
    <3>1. Packing!Mantissa = 10 /\ Packing!TopExponent = 31
      BY HalfConstants
    <3> QED BY <3>1
  <2>2. PICK sign \in Packing!Signs, e \in Int, m \in Nat : IsHalf(e, m) /\ u = Packing!HalfWord(sign, e, m)
    <3>1. PICK sign \in Packing!Signs,
               b \in ({0} \X {0, 1, 2, 2^Packing!Mantissa - 2, 2^Packing!Mantissa - 1}) \cup ({1} \X {0, 1})
                     \cup ({Packing!TopExponent - 1} \X {2^Packing!Mantissa - 2, 2^Packing!Mantissa - 1})
                     \cup {<<Packing!TopExponent, 0>>} :
             u = Packing!HalfWord(sign, b[1], b[2])
      BY <1>1 DEF Packing!WordInputs
    <3>2. b[1] \in Int /\ b[2] \in Nat /\ IsHalf(b[1], b[2])
      BY <2>1, <3>1 DEF IsHalf
    <3> QED BY <3>1, <3>2
  <2>3. u \in 0 .. WordsOf(16) - 1
    BY <2>2, HalfFits
  <2>4. f.w = 16
    BY <1>1, FunctionFacts
  <2> QED BY <2>2, <2>3, <2>4
<1>2. CASE f.kind # "half"
  <2>1. u \in (0 .. 3) \cup {2^(f.w - 1) - 1, 2^(f.w - 1), 2^(f.w - 1) + 1, 2^f.w - 1}
    BY <1>2 DEF Packing!WordInputs
  <2>2. CASE f.w = 8
    <3>1. 2^(f.w - 1) = 128 /\ 2^f.w = 256 /\ WordsOf(f.w) = 256
      BY <2>2 DEF WordsOf
    <3> QED BY <1>2, <2>1, <3>1
  <2>3. CASE f.w = 16
    <3>1. 2^(f.w - 1) = 32768 /\ 2^f.w = 65536 /\ WordsOf(f.w) = 65536
      BY <2>3 DEF WordsOf
    <3> QED BY <1>2, <2>1, <3>1
  <2> QED BY <2>2, <2>3, FunctionFacts
<1> QED BY <1>1, <1>2

\* What is expected of the words the tests unpack is right.
LEMMA UnpackedRight ==
    ASSUME NEW f \in Packing!Functions, NEW u \in Packing!WordInputs(f)
    PROVE  Packing!RightlyUnpacked(f, Packing!Unpack(f, u), u)
<1>1. CASE f.kind = "half"
  <2>1. f \in HalfFunctions
    BY <1>1, FunctionFacts
  <2>2. PICK sign \in Packing!Signs, e \in Int, m \in Nat : IsHalf(e, m) /\ u = Packing!HalfWord(sign, e, m)
    BY <1>1, WordInputsFit
  <2> QED BY <2>1, <2>2, HalvesRepack
<1>2. CASE f.kind # "half"
  <2>1. f \in NormFunctions
    BY <1>2, FunctionFacts
  <2>2. u \in 0 .. 2^f.w - 1
    BY WordInputsFit DEF WordsOf
  <2> QED BY <2>1, <2>2, WordsRepack
<1> QED BY <1>1, <1>2

\* The floats that the tests pack are floats of the function's kind.
LEMMA HalfInputsFit ==
    ASSUME NEW sign \in Packing!Signs, NEW k \in Nat, k < Pow(26) * Pow(27)
    PROVE  Packing!Float(sign, k, Packing!QuarterSteps) \in HalfFloats
<1>1. PICK P \in Nat : P = Pow(26) /\ P > 0 /\ Packing!QuarterSteps = P
  BY Powers, HalfConstants
<1>2. Worth(k, P, k)
  <2>1. 1 \in Nat /\ P * 1 = Pow(26) /\ k = k * 1
    BY <1>1
  <2> QED BY <2>1 DEF Worth
<1>3. Packing!Float(sign, k, P) \in [sign : Packing!Signs, n : Nat, d : Nat \ {0}]
  BY <1>1 DEF Packing!Float
<1>4. Packing!Float(sign, k, P).n = k /\ Packing!Float(sign, k, P).d = P
  BY DEF Packing!Float
<1> QED BY <1>1, <1>2, <1>3, <1>4 DEF HalfFloats

\* A float of BothSigns is one of the set with a sign.
LEMMA SignsOf ==
    ASSUME NEW S, NEW x \in Packing!BothSigns(S)
    PROVE  \E y \in S, sign \in Packing!Signs : x = [y EXCEPT !.sign = sign]
BY DEF Packing!BothSigns

\* What float32() makes of tenths is a fraction.
LEMMA TenthConverted ==
    ASSUME NEW k \in 0 .. 11
    PROVE  \E N \in Nat, D \in Nat : Packing!Float32(Packing!Float(1, k, 10)) = Packing!Float(1, N, D) /\ D > 0
<1>1. Room(k, 10, 8)
  BY SomeTwos, SMT DEF Room
<1>2. 1 \in Packing!Signs /\ k \in Nat /\ 10 \in Nat /\ 10 > 0 /\ 8 \in 0 .. 149
  BY DEF Packing!Signs
<1> QED BY <1>1, <1>2, Converted

\* The inputs of full_input_table and reduced_input_table are such floats.
LEMMA FloatInputsFit ==
    ASSUME NEW f \in Packing!Functions, NEW x \in Packing!FloatInputs(f) \cup Packing!ReducedInputs(f)
    PROVE  x \in FloatsOf(f)
<1>1. CASE x \in Packing!Infinities
  BY <1>1 DEF FloatsOf, HalfFloats, Floats
<1>2. CASE f.kind # "half" /\ x \notin Packing!Infinities
  <2>1. \E T \in SUBSET (0 .. 11) : x \in Packing!Tenths(T)
    <3>1. f.kind = "snorm" \/ f.kind = "unorm"
      BY <1>2, FunctionFacts, NormFacts
    <3>2. x \in Packing!Tenths({0, 1, 9, 10, 11}) \/ x \in Packing!Tenths({0, 1}) \/ x \in Packing!Tenths({9, 10, 11})
      BY <1>2, <3>1 DEF Packing!FloatInputs, Packing!ReducedInputs
    <3>3. /\ {0, 1, 9, 10, 11} \in SUBSET (0 .. 11) /\ {0, 1} \in SUBSET (0 .. 11)
          /\ {9, 10, 11} \in SUBSET (0 .. 11)
      OBVIOUS
    <3> QED BY <3>2, <3>3
  <2>2. PICK k \in 0 .. 11, sign \in Packing!Signs :
           x = [Packing!Float32(Packing!Float(1, k, 10)) EXCEPT !.sign = sign]
    BY <2>1, SignsOf DEF Packing!Tenths
  <2>3. PICK N \in Nat, D \in Nat : Packing!Float32(Packing!Float(1, k, 10)) = Packing!Float(1, N, D) /\ D > 0
    BY TenthConverted
  <2>4. x = Packing!Float(sign, N, D)
    BY <2>2, <2>3 DEF Packing!Float
  <2> QED BY <1>2, <2>3, <2>4 DEF FloatsOf, Floats, Packing!Float
<1>3. CASE f.kind = "half" /\ x \in Packing!ReducedInputs(f) /\ x \notin Packing!Infinities
  <2>1. x \in Packing!BothSigns({Packing!Float(1, k, 1) : k \in 0 .. 2})
    BY <1>3 DEF Packing!ReducedInputs
  <2>2. PICK k \in 0 .. 2, sign \in Packing!Signs : x = [Packing!Float(1, k, 1) EXCEPT !.sign = sign]
    BY <2>1, SignsOf
  <2>3. x = Packing!Float(sign, k, 1)
    BY <2>2 DEF Packing!Float
  <2>4. PICK P \in Nat, Q \in Nat : P = Pow(26) /\ Q = Pow(27) /\ Q = 2 * P /\ P = 67108864
    <3>1. 26 \in 0 .. 31 /\ 26 + 1 = 27 /\ 27 \in 0 .. 31
      OBVIOUS
    <3> QED BY <3>1, Powers
  <2>5. k \in Nat /\ k * P \in Nat /\ k * P < P * Q /\ Worth(k, 1, k * P)
    <3>1. k * P \in Nat /\ 1 * P = P
      BY <2>4
    <3>2. k * P < P * Q
      BY <2>4
    <3> QED BY <2>4, <3>1, <3>2 DEF Worth
  <2>6. x \in [sign : Packing!Signs, n : Nat, d : Nat \ {0}] /\ x.n = k /\ x.d = 1
    BY <2>3, <2>5 DEF Packing!Float
  <2>7. x \in HalfFloats
    BY <2>4, <2>5, <2>6 DEF HalfFloats
  <2> QED BY <1>3, <2>7 DEF FloatsOf
<1>4. CASE f.kind = "half" /\ x \in Packing!FloatInputs(f) /\ x \notin Packing!Infinities
  <2> DEFINE units == 2^Packing!Mantissa
             normalMin == 4 * units
             maxStep == (Packing!QuarterSteps * 2^Packing!Bias) \div units
             normalMax == Packing!QuarterSteps * 2^(Packing!Bias + 1) - maxStep
             Ks == (0 .. 12) \cup ((normalMin - 8) .. (normalMin + 8)) \cup {2 * normalMin + i : i \in 2 .. 4}
                   \cup {Packing!QuarterSteps \div 2, Packing!QuarterSteps, (3 * Packing!QuarterSteps) \div 2}
                   \cup {normalMax + (i * maxStep) \div 4 : i \in (-8 .. 4) \cup {8}}
  <2>1. /\ units = 1024 /\ Packing!QuarterSteps = 67108864 /\ normalMin = 4096
        /\ maxStep = 2147483648 /\ normalMax = 4395899027456
    <3>1. Packing!Mantissa = 10 /\ Packing!Bias = 15 /\ Packing!QuarterSteps = Pow(26)
      BY HalfConstants
    <3>2. units = 1024 /\ Packing!QuarterSteps = 67108864 /\ 2^Packing!Bias = 32768 /\ 2^(Packing!Bias + 1) = 65536
      BY <3>1, Powers, SMT
    <3> QED BY <3>2, SMT
  <2>2. x \in Packing!BothSigns({Packing!Float(1, k, Packing!QuarterSteps) : k \in Ks})
    <3>1. x \in Packing!HalfInputs
      BY <1>4 DEF Packing!FloatInputs
    <3>2. Packing!HalfInputs = Packing!BothSigns({Packing!Float(1, k, Packing!QuarterSteps) : k \in Ks}) \cup Packing!Infinities
      BY DEF Packing!HalfInputs
    <3> HIDE DEF Ks, units, normalMin, maxStep, normalMax
    <3> QED BY <1>4, <3>1, <3>2
  <2> HIDE DEF units, normalMin, maxStep, normalMax
  <2>3. PICK k \in Ks, sign \in Packing!Signs : x = [Packing!Float(1, k, Packing!QuarterSteps) EXCEPT !.sign = sign]
    <3> HIDE DEF Ks
    <3> QED BY <2>2, SignsOf, SMT
  <2>4. k \in Nat /\ k <= 4402341478400
    BY <2>1, SMT
  <2>5. x = Packing!Float(sign, k, Packing!QuarterSteps)
    BY <2>3, SMT DEF Packing!Float
  <2>6. k < Pow(26) * Pow(27)
    <3>1. 26 \in 0 .. 31 /\ 26 + 1 = 27
      BY SMT
    <3>2. Pow(26) = 67108864 /\ Pow(27) = 134217728
      BY <3>1, Powers, SMT
    <3> QED BY <2>4, <3>2, SMT
  <2>7. x \in HalfFloats
    BY <2>4, <2>5, <2>6, HalfInputsFit, SMT
  <2> QED BY <1>4, <2>7, Zenon DEF FloatsOf
<1> QED BY <1>1, <1>2, <1>3, <1>4

Components(f) == IF f.w = 16 THEN 2 ELSE 4

\* Pairs and quadruples are sequences.
LEMMA Tuples ==
    ASSUME NEW T, NEW a \in T, NEW b \in T, NEW c \in T, NEW d \in T
    PROVE  /\ <<a, b>> \in Seq(T) /\ Len(<<a, b>>) = 2
           /\ <<a, b, c, d>> \in Seq(T) /\ Len(<<a, b, c, d>>) = 4
OBVIOUS

\* The inputs of a test are sequences of components.
LEMMA ArrangedFacts ==
    ASSUME NEW f \in Packing!Functions, NEW T, NEW x \in T, NEW y \in T, NEW xs \in Packing!Arranged(f, x, y)
    PROVE  xs \in Seq(T) /\ Len(xs) = Components(f)
<1>1. CASE f.w = 16
  <2>1. xs = <<x, y>> \/ xs = <<y, x>>
    BY <1>1 DEF Packing!Arranged
  <2> QED BY <1>1, <2>1, Tuples DEF Components
<1>2. CASE f.w # 16
  <2>1. xs = <<x, y, x, y>> \/ xs = <<x, x, y, y>>
    BY <1>2 DEF Packing!Arranged
  <2> QED BY <1>2, <2>1, Tuples DEF Components
<1> QED BY <1>1, <1>2

\* The inputs of the tests that pack are sequences of floats of the kind.
LEMMA PackInputsFit ==
    ASSUME NEW f \in Packing!Functions, NEW xs \in Packing!PackInputs(f)
    PROVE  xs \in Seq(FloatsOf(f)) /\ Len(xs) = Components(f)
<1>1. PICK x \in Packing!FloatInputs(f), y \in Packing!ReducedInputs(f) : xs \in Packing!Arranged(f, x, y)
  BY DEF Packing!PackInputs
<1>2. x \in FloatsOf(f) /\ y \in FloatsOf(f)
  BY FloatInputsFit
<1> QED BY <1>1, <1>2, ArrangedFacts

\* Those of the tests that unpack are sequences of such words.
LEMMA UnpackInputsFit ==
    ASSUME NEW f \in Packing!Functions, NEW us \in Packing!UnpackInputs(f)
    PROVE  us \in Seq(Packing!WordInputs(f)) /\ Len(us) = Components(f)
<1>1. PICK x \in Packing!WordInputs(f), y \in Packing!WordInputs(f) :
         us \in IF f.w = 16 THEN {<<x, y>>} ELSE Packing!Arranged(f, x, y)
  BY DEF Packing!UnpackInputs
<1>2. us \in Packing!Arranged(f, x, y)
  BY <1>1 DEF Packing!Arranged
<1> QED BY <1>2, ArrangedFacts

\* Words are natural numbers.
LEMMA WordsAreNat ==
    ASSUME NEW f \in Packing!Functions
    PROVE  0 .. WordsOf(f.w) - 1 \subseteq Nat
BY Widths, FunctionFacts

\* The words expected of a packed component are those it is packed into.
LEMMA PackedComponent ==
    ASSUME NEW f \in Packing!Functions, NEW xs \in Packing!PackInputs(f), NEW i \in DOMAIN xs, NEW mode \in RoundingModes
    PROVE  Packing!FieldOf(f, Packing!Word(f, [j \in DOMAIN xs |-> Packing!Pack(f, xs[j], mode)]), i) = Packing!Pack(f, xs[i], mode)
<1> DEFINE us == [j \in DOMAIN xs |-> Packing!Pack(f, xs[j], mode)]
<1>1. xs \in Seq(FloatsOf(f)) /\ Len(xs) = Components(f)
  BY PackInputsFit
<1>2. \A j \in DOMAIN xs : us[j] \in 0 .. WordsOf(f.w) - 1
  BY <1>1, PackedFits
<1>3. us \in Seq(Nat) /\ Len(us) = Components(f) /\ DOMAIN us = DOMAIN xs
  <2>1. \A j \in DOMAIN xs : us[j] \in Nat
    BY <1>2, WordsAreNat
  <2>2. us = [j \in 1 .. Len(xs) |-> Packing!Pack(f, xs[j], mode)] /\ DOMAIN xs = 1 .. Len(xs) /\ Len(xs) \in Nat
    BY <1>1
  <2> QED BY <1>1, <2>1, <2>2
<1> HIDE DEF us
<1>4. Packing!FieldOf(f, Packing!Word(f, us), i) = us[i]
  <2>1. f.w \in {8, 16} /\ Len(us) = (IF f.w = 16 THEN 2 ELSE 4)
    BY <1>3, FunctionFacts DEF Components
  <2> QED BY <1>2, <1>3, <2>1, FieldOfWord
<1> QED BY <1>4 DEF us

\* And the components unpacked are those the word was put together from.
LEMMA UnpackedComponent ==
    ASSUME NEW f \in Packing!Functions, NEW us \in Packing!UnpackInputs(f), NEW i \in DOMAIN us
    PROVE  us[i] \in Packing!WordInputs(f) /\ Packing!FieldOf(f, Packing!Word(f, us), i) = us[i]
<1>1. us \in Seq(Packing!WordInputs(f)) /\ Len(us) = Components(f)
  BY UnpackInputsFit
<1>2. \A j \in DOMAIN us : us[j] \in 0 .. WordsOf(f.w) - 1
  BY <1>1, WordInputsFit
<1>3. us \in Seq(Nat)
  <2>1. \A u \in Packing!WordInputs(f) : u \in Nat
    BY WordInputsFit, WordsAreNat
  <2> QED BY <1>1, <2>1
<1>4. Packing!FieldOf(f, Packing!Word(f, us), i) = us[i]
  <2>1. f.w \in {8, 16} /\ Len(us) = (IF f.w = 16 THEN 2 ELSE 4)
    BY <1>1, FunctionFacts DEF Components
  <2> QED BY <1>2, <1>3, <2>1, FieldOfWord
<1> QED BY <1>1, <1>4

\* What a function's test vectors give of their component i.
ComponentRight(f, io, i) ==
    LET words == [m \in DOMAIN io.words |-> Packing!FieldOf(f, io.words[m], i)]
    IN  IF f.pack THEN Packing!RightlyPacked(f, io.floats[i], words) ELSE Packing!RightlyUnpacked(f, io.floats[i], words[1])

\* Every component of every test vector is right.
LEMMA InoutsRight ==
    ASSUME NEW f \in Packing!Functions, NEW io \in Packing!Inouts(f), NEW i \in DOMAIN io.floats
    PROVE  ComponentRight(f, io, i)
<1>1. CASE f.pack
  <2>1. PICK xs \in Packing!PackInputs(f) :
           io = [floats |-> xs, words |-> [m \in 1 .. 2 |-> Packing!Word(f, [j \in DOMAIN xs |-> Packing!Pack(f, xs[j], Packing!Modes[m])])]]
    BY <1>1 DEF Packing!Inouts
  <2>2. i \in DOMAIN xs /\ io.floats[i] = xs[i] /\ DOMAIN io.words = 1 .. 2
    BY <2>1
  <2>3. ASSUME NEW m \in 1 .. 2
        PROVE  Packing!FieldOf(f, io.words[m], i) = Packing!Pack(f, xs[i], Packing!Modes[m])
    <3>1. Packing!Modes[m] \in RoundingModes
      BY DEF Packing!Modes, RoundingModes
    <3>2. io.words[m] = Packing!Word(f, [j \in DOMAIN xs |-> Packing!Pack(f, xs[j], Packing!Modes[m])])
      BY <2>1
    <3> QED BY <2>2, <3>1, <3>2, PackedComponent
  <2>4. [m \in DOMAIN io.words |-> Packing!FieldOf(f, io.words[m], i)] = [m \in 1 .. 2 |-> Packing!Pack(f, xs[i], Packing!Modes[m])]
    BY <2>2, <2>3
  <2>5. xs[i] \in FloatsOf(f)
    BY <2>2, PackInputsFit
  <2>6. Packing!RightlyPacked(f, xs[i], [m \in 1 .. 2 |-> Packing!Pack(f, xs[i], Packing!Modes[m])])
    BY <2>5, PackedRight
  <2> QED BY <1>1, <2>2, <2>4, <2>6 DEF ComponentRight
<1>2. CASE ~ f.pack
  <2>1. PICK us \in Packing!UnpackInputs(f) :
           io = [floats |-> [j \in DOMAIN us |-> Packing!Unpack(f, Packing!FieldOf(f, Packing!Word(f, us), j))], words |-> <<Packing!Word(f, us)>>]
    BY <1>2 DEF Packing!Inouts
  <2>2. i \in DOMAIN us /\ DOMAIN io.words = {1} /\ io.words[1] = Packing!Word(f, us)
    BY <2>1
  <2>3. us[i] \in Packing!WordInputs(f) /\ Packing!FieldOf(f, Packing!Word(f, us), i) = us[i]
    BY <2>2, UnpackedComponent
  <2>4. io.floats[i] = Packing!Unpack(f, us[i])
    BY <2>1, <2>2, <2>3
  <2>5. [m \in DOMAIN io.words |-> Packing!FieldOf(f, io.words[m], i)][1] = us[i]
    BY <2>2, <2>3
  <2>6. Packing!RightlyUnpacked(f, Packing!Unpack(f, us[i]), us[i])
    BY <2>3, UnpackedRight
  <2> QED BY <1>2, <2>4, <2>5, <2>6 DEF ComponentRight
<1> QED BY <1>1, <1>2

\* The test vectors that are there are those of a function.
EntriesOf(f) == {[function |-> f, floats |-> io.floats, words |-> io.words] : io \in Packing!Inouts(f)}
FromInouts == /\ made \subseteq Packing!Functions
              /\ \A io \in inouts : \E f \in Packing!Functions : io \in EntriesOf(f)

\* Where all test vectors are of functions, PackingSound holds.
LEMMA EntriesRight == FromInouts => Packing!PackingSound
<1> SUFFICES ASSUME FromInouts PROVE Packing!PackingSound
  OBVIOUS
<1>1. ASSUME NEW io \in inouts, NEW i \in DOMAIN io.floats
      PROVE  LET words == [m \in DOMAIN io.words |-> Packing!FieldOf(io.function, io.words[m], i)]
             IN  IF io.function.pack THEN Packing!RightlyPacked(io.function, io.floats[i], words)
                 ELSE Packing!RightlyUnpacked(io.function, io.floats[i], words[1])
  <2>0. PICK f \in Packing!Functions : io \in EntriesOf(f)
    BY DEF FromInouts
  <2>1. PICK e \in Packing!Inouts(f) : io = [function |-> f, floats |-> e.floats, words |-> e.words]
    BY <2>0 DEF EntriesOf
  <2>2. io.function = f /\ io.floats = e.floats /\ io.words = e.words
    BY <2>1
  <2>3. ComponentRight(f, e, i)
    BY <2>2, InoutsRight
  <2> QED BY <2>2, <2>3 DEF ComponentRight
<1> QED BY <1>1 DEF Packing!PackingSound

\* The widths there are: of the words of a component, of the exponent of a half and of
\* float32.
RealWidths == Bits8 = 8 /\ Bits16 = 16 /\ ExponentBits = 5 /\ FloatBits = 24 /\ FloatPlaces = 149

\* There, the numbers the tests are made from are those of Packing.
LEMMA RealConstants ==
    ASSUME RealWidths
    PROVE  /\ Mantissa = Packing!Mantissa /\ Bias = Packing!Bias /\ TopExponent = Packing!TopExponent
           /\ Shift = Packing!Shift /\ QuarterSteps = Packing!QuarterSteps
           /\ 2^(Bits16 - 1) = 2^(16 - 1)
BY DEF RealWidths, Mantissa, Packing!Mantissa, Bias, Packing!Bias, TopExponent, Packing!TopExponent,
       Shift, Packing!Shift, QuarterSteps, Packing!QuarterSteps

\* Floats and their roundings are whatever the widths.
LEMMA RealFloats ==
    /\ Signs = Packing!Signs /\ Infinities = Packing!Infinities
    /\ One = Packing!One /\ Zero = Packing!Zero
    /\ \A sign, n, d : Float(sign, n, d) = Packing!Float(sign, n, d)
    /\ \A sign : Infinity(sign) = Packing!Infinity(sign)
    /\ \A x : Minus(x) = Packing!Minus(x) /\ Num(x) = Packing!Num(x)
    /\ \A x, min, max : Clamp(x, min, max) = Packing!Clamp(x, min, max)
    /\ \A x, mode : Round(x, mode) = Packing!Round(x, mode)
    /\ \A k : Up(k) = Packing!Up(k)
    /\ Modes = Packing!Modes
BY DEF Signs, Packing!Signs, Infinities, Packing!Infinities, One, Packing!One, Zero, Packing!Zero,
       Float, Packing!Float, Infinity, Packing!Infinity, Minus, Packing!Minus, Num, Packing!Num,
       Clamp, Packing!Clamp, Below, Packing!Below, Round, Packing!Round, Up, Packing!Up, Modes, Packing!Modes

\* And so is float32.
LEMMA RealConversion ==
    ASSUME RealWidths
    PROVE  TwoTo = Packing!TwoTo /\ \A x : Float32(x) = Packing!Float32(x)
<1>1. TwoTo = Packing!TwoTo
  <2>1. ASSUME NEW S, NEW T, S = T
        PROVE  (CHOOSE g : g = [p \in 0 .. S |-> IF p = 0 THEN 1 ELSE 2 * g[p - 1]])
               = (CHOOSE g : g = [p \in 0 .. T |-> IF p = 0 THEN 1 ELSE 2 * g[p - 1]])
    BY <2>1, Zenon
  <2>2. TwoTo = CHOOSE g : g = [p \in 0 .. FloatPlaces |-> IF p = 0 THEN 1 ELSE 2 * g[p - 1]]
    BY Zenon DEF TwoTo
  <2>3. Packing!TwoTo = CHOOSE g : g = [p \in 0 .. 149 |-> IF p = 0 THEN 1 ELSE 2 * g[p - 1]]
    BY Zenon DEF Packing!TwoTo
  <2>4. FloatPlaces = 149
    BY DEF RealWidths
  <2> QED BY <2>1, <2>2, <2>3, <2>4, Zenon
<1>2. ASSUME NEW x, NEW p
      PROVE  (Fits(x, p) <=> Packing!Fits(x, p)) /\ InPlaces(x, p) = Packing!InPlaces(x, p)
  <2>1. FloatBits = 24
    BY DEF RealWidths
  <2>2. Fits(x, p) <=> Packing!Fits(x, p)
    BY <1>1, <2>1, Zenon DEF Fits, Packing!Fits
  <2>3. InPlaces(x, p) = Packing!InPlaces(x, p)
    BY <1>1, RealFloats, Zenon DEF InPlaces, Packing!InPlaces
  <2> QED BY <2>2, <2>3
<1>3. ASSUME NEW x
      PROVE  Places(x) = Packing!Places(x)
  <2>1. FloatPlaces = 149
    BY DEF RealWidths
  <2> QED BY <1>2, <2>1, Zenon DEF Places, Packing!Places
<1>4. ASSUME NEW x
      PROVE  Float32(x) = Packing!Float32(x)
  BY <1>2, <1>3, Zenon DEF Float32, Packing!Float32
<1> QED BY <1>1, <1>4

\* The functions from and to snorms and unorms depend on no width but their own.
LEMMA RealNorms ==
    ASSUME RealWidths, NEW w, NEW x, NEW mode
    PROVE  /\ PackSnorm(w, x, mode) = Packing!PackSnorm(w, x, mode) /\ UnpackSnorm(w, x) = Packing!UnpackSnorm(w, x)
           /\ PackUnorm(w, x, mode) = Packing!PackUnorm(w, x, mode) /\ UnpackUnorm(w, x) = Packing!UnpackUnorm(w, x)
<1>1. \A y, k : Times(y, k) = Packing!Times(y, k)
  BY DEF Times, Packing!Times
<1>2. SnormMax(w) = Packing!SnormMax(w)
  BY DEF SnormMax, Packing!SnormMax
<1>3. \A y, m : RoundFloat(y, m) = Packing!RoundFloat(y, m)
  BY RealFloats, RealConversion DEF RoundFloat, Packing!RoundFloat
<1>4. \A u : Signed(w, u) = Packing!Signed(w, u)
  BY DEF Signed, Packing!Signed
<1>5. PackSnorm(w, x, mode) = Packing!PackSnorm(w, x, mode) /\ PackUnorm(w, x, mode) = Packing!PackUnorm(w, x, mode)
  BY <1>1, <1>2, <1>3, RealFloats DEF PackSnorm, Packing!PackSnorm, PackUnorm, Packing!PackUnorm
<1>6. UnpackSnorm(w, x) = Packing!UnpackSnorm(w, x) /\ UnpackUnorm(w, x) = Packing!UnpackUnorm(w, x)
  BY <1>2, <1>4, RealFloats, RealConversion DEF UnpackSnorm, Packing!UnpackSnorm, UnpackUnorm, Packing!UnpackUnorm
<1> QED BY <1>5, <1>6

\* The exponents that frexp chooses from are the same.
LEMMA RealExponent ==
    ASSUME RealWidths, NEW x
    PROVE  Exponent(x) = Packing!Exponent(x)
<1>1. ASSUME NEW S, NEW T, S = T
      PROVE  (CHOOSE E \in (-S) .. S : x.d * Packing!Up(E) <= 2 * (x.n * Packing!Up(-E)) /\ x.n * Packing!Up(-E) < x.d * Packing!Up(E))
             = (CHOOSE E \in (-T) .. T : x.d * Packing!Up(E) <= 2 * (x.n * Packing!Up(-E)) /\ x.n * Packing!Up(-E) < x.d * Packing!Up(E))
  BY <1>1, Zenon
<1>2. Shift = Packing!Shift
  BY RealConstants
<1>3. Exponent(x) = CHOOSE E \in (-Shift) .. Shift : x.d * Packing!Up(E) <= 2 * (x.n * Packing!Up(-E)) /\ x.n * Packing!Up(-E) < x.d * Packing!Up(E)
  BY Zenon DEF Exponent, Up, Packing!Up
<1> QED BY <1>1, <1>2, <1>3, Zenon DEF Packing!Exponent

\* And so are halves.
LEMMA RealHalves ==
    ASSUME RealWidths
    PROVE  /\ \A sign, e, m : HalfWord(sign, e, m) = Packing!HalfWord(sign, e, m)
           /\ \A x, mode : PackHalf(x, mode) = Packing!PackHalf(x, mode)
           /\ \A u : UnpackHalf(u) = Packing!UnpackHalf(u)
<1>1. ASSUME NEW sign, NEW e, NEW m
      PROVE  /\ HalfWord(sign, e, m) = Packing!HalfWord(sign, e, m)
             /\ Carried(sign, e, m) = Packing!Carried(sign, e, m)
  BY RealConstants DEF HalfWord, Packing!HalfWord, Carried, Packing!Carried
<1>2. ASSUME NEW x, NEW E, NEW mode
      PROVE  NormalMantissa(x, E, mode) = Packing!NormalMantissa(x, E, mode)
  BY RealConstants, RealFloats DEF NormalMantissa, Packing!NormalMantissa
<1>3. ASSUME NEW x, NEW mode
      PROVE  PackHalf(x, mode) = Packing!PackHalf(x, mode)
  BY <1>1, <1>2, RealConstants, RealFloats, RealExponent DEF PackHalf, Packing!PackHalf, PackHalfUpTo, Packing!PackHalfUpTo
<1>4. ASSUME NEW u
      PROVE  UnpackHalf(u) = Packing!UnpackHalf(u)
  BY RealConstants, RealFloats DEF UnpackHalf, Packing!UnpackHalf, RealWidths
<1> QED BY <1>1, <1>3, <1>4

\* The functions are those of Packing, and take and return the same.
LEMMA RealFunctions ==
    ASSUME RealWidths
    PROVE  /\ Functions = Packing!Functions
           /\ \A f, x, mode : Pack(f, x, mode) = Packing!Pack(f, x, mode)
           /\ \A f, u : Unpack(f, u) = Packing!Unpack(f, u)
           /\ \A f, us : Word(f, us) = Packing!Word(f, us)
           /\ \A f, u, i : FieldOf(f, u, i) = Packing!FieldOf(f, u, i)
<1>1. Functions = Packing!Functions
  BY DEF RealWidths, Functions, Packing!Functions, Function, Packing!Function
<1>2. ASSUME NEW f, NEW x, NEW mode
      PROVE  Pack(f, x, mode) = Packing!Pack(f, x, mode)
  BY RealNorms, RealHalves DEF Pack, Packing!Pack
<1>3. ASSUME NEW f, NEW u
      PROVE  Unpack(f, u) = Packing!Unpack(f, u)
  BY RealNorms, RealHalves DEF Unpack, Packing!Unpack
<1>4. ASSUME NEW f, NEW us
      PROVE  Word(f, us) = Packing!Word(f, us)
  BY DEF RealWidths, Word, Packing!Word
<1>5. ASSUME NEW f, NEW u, NEW i
      PROVE  FieldOf(f, u, i) = Packing!FieldOf(f, u, i)
  BY DEF FieldOf, Packing!FieldOf
<1> QED BY <1>1, <1>2, <1>3, <1>4, <1>5

\* The inputs are the same.
LEMMA RealInputs ==
    ASSUME RealWidths, NEW f
    PROVE  PackInputs(f) = Packing!PackInputs(f) /\ UnpackInputs(f) = Packing!UnpackInputs(f)
<1>1. \A S : BothSigns(S) = Packing!BothSigns(S)
  BY RealFloats DEF BothSigns, Packing!BothSigns
<1>2. \A S : Tenths(S) = Packing!Tenths(S)
  BY <1>1, RealFloats, RealConversion DEF Tenths, Packing!Tenths
<1>3. HalfInputs = Packing!HalfInputs
  BY <1>1, RealConstants, RealFloats DEF HalfInputs, Packing!HalfInputs
<1>4. FloatInputs(f) = Packing!FloatInputs(f) /\ ReducedInputs(f) = Packing!ReducedInputs(f)
  BY <1>1, <1>2, <1>3, RealFloats DEF FloatInputs, Packing!FloatInputs, ReducedInputs, Packing!ReducedInputs
<1>5. WordInputs(f) = Packing!WordInputs(f)
  <2> DEFINE Halves(mantissa, top) ==
               ({0} \X {0, 1, 2, 2^mantissa - 2, 2^mantissa - 1}) \cup ({1} \X {0, 1})
               \cup ({top - 1} \X {2^mantissa - 2, 2^mantissa - 1}) \cup {<<top, 0>>}
  <2>1. Halves(Mantissa, TopExponent) = Halves(Packing!Mantissa, Packing!TopExponent)
    BY RealConstants
  <2> HIDE DEF Halves
  <2> DEFINE Here == {HalfWord(s, b[1], b[2]) : s \in Signs, b \in Halves(Mantissa, TopExponent)}
             There == {Packing!HalfWord(s, b[1], b[2]) :
                          s \in Packing!Signs, b \in Halves(Packing!Mantissa, Packing!TopExponent)}
  <2>2. Here = There
    BY <2>1, RealFloats, RealHalves
  <2>3. CASE f.kind = "half"
    <3>1. WordInputs(f) = Here
      BY <2>3, SMT DEF Halves, WordInputs
    <3>2. Packing!WordInputs(f) = There
      BY <2>3, SMT DEF Halves, Packing!WordInputs
    <3> HIDE DEF Here, There
    <3> QED BY <2>2, <3>1, <3>2
  <2>4. CASE f.kind # "half"
    BY <2>4, SMT DEF WordInputs, Packing!WordInputs
  <2> QED BY <2>3, <2>4
<1>6. ASSUME NEW x, NEW y
      PROVE  Arranged(f, x, y) = Packing!Arranged(f, x, y)
  BY DEF RealWidths, Arranged, Packing!Arranged
<1>7. PackInputs(f) = Packing!PackInputs(f)
  BY <1>4, <1>6 DEF PackInputs, Packing!PackInputs
<1>8. UnpackInputs(f) = Packing!UnpackInputs(f)
  BY <1>5, <1>6 DEF RealWidths, UnpackInputs, Packing!UnpackInputs
<1> QED BY <1>7, <1>8

\* Every test vector is one of Packing's.
LEMMA RealInouts ==
    ASSUME RealWidths, NEW f, NEW io \in Inouts(f)
    PROVE  io \in Packing!Inouts(f)
<1>1. CASE f.pack
  <2>1. PICK xs \in Packing!PackInputs(f) :
           io = [floats |-> xs, words |-> [m \in 1 .. 2 |-> Word(f, [i \in DOMAIN xs |-> Pack(f, xs[i], Modes[m])])]]
    BY <1>1, RealInputs DEF Inouts
  <2>2. ASSUME NEW m
        PROVE  [i \in DOMAIN xs |-> Pack(f, xs[i], Modes[m])] = [i \in DOMAIN xs |-> Packing!Pack(f, xs[i], Packing!Modes[m])]
    BY RealFunctions, RealFloats
  <2>3. ASSUME NEW m
        PROVE  Word(f, [i \in DOMAIN xs |-> Pack(f, xs[i], Modes[m])]) = Packing!Word(f, [i \in DOMAIN xs |-> Packing!Pack(f, xs[i], Packing!Modes[m])])
    BY <2>2, RealFunctions
  <2>4. io = [floats |-> xs, words |-> [m \in 1 .. 2 |-> Packing!Word(f, [i \in DOMAIN xs |-> Packing!Pack(f, xs[i], Packing!Modes[m])])]]
    BY <2>1, <2>3
  <2> QED BY <1>1, <2>4 DEF Packing!Inouts
<1>2. CASE ~ f.pack
  <2>1. PICK us \in Packing!UnpackInputs(f) :
           io = [floats |-> [i \in DOMAIN us |-> Unpack(f, FieldOf(f, Word(f, us), i))], words |-> <<Word(f, us)>>]
    BY <1>2, RealInputs DEF Inouts
  <2>2. io = [floats |-> [i \in DOMAIN us |-> Packing!Unpack(f, Packing!FieldOf(f, Packing!Word(f, us), i))], words |-> <<Packing!Word(f, us)>>]
    BY <2>1, RealFunctions
  <2> QED BY <1>2, <2>2 DEF Packing!Inouts
<1> QED BY <1>1, <1>2

\* What is right at these widths is what Packing takes for right.
LEMMA RealRight ==
    ASSUME RealWidths, NEW f, NEW x
    PROVE  /\ \A us : RightlyPacked(f, x, us) <=> Packing!RightlyPacked(f, x, us)
           /\ \A u : RightlyUnpacked(f, x, u) <=> Packing!RightlyUnpacked(f, x, u)
<1>1. ASSUME NEW u
      PROVE  NearestHalf(x, u) <=> Packing!NearestHalf(x, u)
  <2>1. \A y : Quarters(y) = Packing!Quarters(y)
    BY RealConstants DEF Quarters, Packing!Quarters
  <2>2. \A m, n : Distance(m, n) = Packing!Distance(m, n)
    BY DEF Distance, Packing!Distance
  <2> QED BY <2>1, <2>2, RealConstants, RealHalves DEF NearestHalf, Packing!NearestHalf
<1>2. ASSUME NEW u
      PROVE  NearestWord(f, x, u) <=> Packing!NearestWord(f, x, u)
  <2>1. \A m, n : Distance(m, n) = Packing!Distance(m, n)
    BY DEF Distance, Packing!Distance
  <2>2. TwoTo[FloatBits - f.w] = Packing!TwoTo[24 - f.w]
    BY RealConversion DEF RealWidths
  <2>3. \A w, v : Signed(w, v) = Packing!Signed(w, v) /\ SnormMax(w) = Packing!SnormMax(w)
    BY DEF Signed, Packing!Signed, SnormMax, Packing!SnormMax
  <2> QED BY <2>1, <2>2, <2>3, RealFloats DEF NearestWord, Packing!NearestWord
<1>3. ASSUME NEW us
      PROVE  RightlyPacked(f, x, us) <=> Packing!RightlyPacked(f, x, us)
  <2>1. \A u : Nearest(f, x, u) <=> Packing!Nearest(f, x, u)
    BY <1>1, <1>2 DEF Nearest, Packing!Nearest
  <2>2. (\A u \in ToSet(us) : Nearest(f, x, u)) <=> (\A u \in ToSet(us) : Packing!Nearest(f, x, u))
    BY <2>1, Zenon
  <2> QED BY <2>2, Zenon DEF RightlyPacked, Packing!RightlyPacked, ToSet, Packing!ToSet, Even, Packing!Even
<1>4. ASSUME NEW u
      PROVE  RightlyUnpacked(f, x, u) <=> Packing!RightlyUnpacked(f, x, u)
  BY RealFloats, RealFunctions DEF RightlyUnpacked, Packing!RightlyUnpacked
<1> QED BY <1>3, <1>4

\* There, PackingSound is what it is for Packing.
LEMMA RealSound == RealWidths /\ Packing!PackingSound => PackingSound
<1> SUFFICES ASSUME RealWidths, Packing!PackingSound PROVE PackingSound
  OBVIOUS
<1>1. \A f, u, i : FieldOf(f, u, i) = Packing!FieldOf(f, u, i)
  BY RealFunctions
<1>2. ASSUME NEW io \in inouts, NEW i \in DOMAIN io.floats
      PROVE  LET words == [m \in DOMAIN io.words |-> FieldOf(io.function, io.words[m], i)]
             IN  IF io.function.pack THEN RightlyPacked(io.function, io.floats[i], words)
                 ELSE RightlyUnpacked(io.function, io.floats[i], words[1])
  <2>1. LET words == [m \in DOMAIN io.words |-> Packing!FieldOf(io.function, io.words[m], i)]
        IN  IF io.function.pack THEN Packing!RightlyPacked(io.function, io.floats[i], words)
            ELSE Packing!RightlyUnpacked(io.function, io.floats[i], words[1])
    <3> DEFINE Component(e, j) == [function |-> e.function, float |-> e.floats[j],
                                   words |-> [m \in DOMAIN e.words |-> Packing!FieldOf(e.function, e.words[m], j)]]
               Right(c) == IF c.function.pack THEN Packing!RightlyPacked(c.function, c.float, c.words)
                           ELSE Packing!RightlyUnpacked(c.function, c.float, c.words[1])
    <3>1. \A c \in UNION {{Component(e, j) : j \in DOMAIN e.floats} : e \in inouts} : Right(c)
      BY Zenon DEF Packing!PackingSound
    <3>2. Component(io, i) \in UNION {{Component(e, j) : j \in DOMAIN e.floats} : e \in inouts}
      <4> HIDE DEF Component
      <4> QED OBVIOUS
    <3>3. Right(Component(io, i))
      <4> HIDE DEF Component, Right
      <4> QED BY <3>1, <3>2
    <3> QED BY <3>3
  <2>2. [m \in DOMAIN io.words |-> FieldOf(io.function, io.words[m], i)]
        = [m \in DOMAIN io.words |-> Packing!FieldOf(io.function, io.words[m], i)]
    BY <1>1
  <2> QED BY <2>1, <2>2, RealRight, Zenon
<1> QED BY <1>2 DEF PackingSound

\* What the tests of all packing functions expect is right, at the widths there are and
\* whatever has been generated (main, inout_table).
THEOREM ExpectedWordsAreRight ==
    ASSUME Bits8 = 8, Bits16 = 16, ExponentBits = 5, FloatBits = 24, FloatPlaces = 149
    PROVE  PackingSpec => []PackingSound
<1> DEFINE Inv == RealWidths /\ FromInouts
<1>1. PackingInit => Inv
  BY DEF PackingInit, FromInouts, RealWidths
<1>2. Inv /\ [PackingNext]_packingVars => Inv'
  <2> SUFFICES ASSUME RealWidths, FromInouts, [PackingNext]_packingVars PROVE RealWidths' /\ FromInouts'
    OBVIOUS
  <2>1. RealWidths'
    BY DEF RealWidths
  <2>2. CASE MakeInouts
    <3>1. Functions = Packing!Functions
      BY RealFunctions
    <3> DEFINE f == CHOOSE f \in Functions : f \notin made
    <3>2. f \in Packing!Functions
      BY <2>2, <3>1 DEF FromInouts, MakeInouts
    <3>3. made' = made \cup {f} /\ inouts' = {[function |-> f, floats |-> io.floats, words |-> io.words] : io \in Inouts(f)}
      BY <2>2 DEF MakeInouts
    <3> HIDE DEF f
    <3>4. \A io \in inouts' : io \in EntriesOf(f)
      BY <3>3, RealInouts DEF EntriesOf
    <3> QED BY <2>1, <3>2, <3>3, <3>4 DEF FromInouts
  <2>3. CASE WriteFile
    BY <2>1, <2>3 DEF FromInouts, WriteFile
  <2>4. CASE UNCHANGED packingVars
    BY <2>1, <2>4 DEF FromInouts, packingVars
  <2> QED BY <2>2, <2>3, <2>4 DEF PackingNext
<1>3. Inv => PackingSound
  BY EntriesRight, RealSound
<1> QED BY <1>1, <1>2, <1>3, PTL DEF PackingSpec
-----------------------------------------------------------------------------
(***************************************************************************)
(* The built-in functions: what the functions that simulate GLSL return    *)
(* for the arguments that the filters let through, at the real 32 bits.    *)
(***************************************************************************)
CONSTANT Samples

Builtins == INSTANCE BuiltinVectors WITH Width <- 32

\* The types of GLSL: a vector is one column, a matrix is of floats and has two rows
\* at least.
Types == {t \in [base : STRING, cols : 1 .. 4, rows : 1 .. 4] :
             t.cols = 1 \/ (t.rows # 1 /\ t.base \in {"float", "double"})}
Values == [type : Types, v : Seq(Int)]

\* The operators on two arguments, with the filters of their calls.
Filtered(op, filter) == \/ op \in {"+", "-", "/", "%", "both"} /\ filter \in {"binop", "assign"}
                        \/ op = "*" /\ filter \in {"multiply", "assign-multiply"}
                        \/ op \in {"<<", ">>"} /\ filter = "shift"

\* A product of matrices has the columns of the second and the rows of the first.
LEMMA DotType ==
    ASSUME NEW x \in Values, NEW y \in Values
    PROVE  LET p == x.type   q == y.type
           IN  Builtins!Dot(x, y).type =
                  IF Builtins!IsScalar(p) \/ Builtins!IsScalar(q)
                  THEN IF Builtins!IsScalar(p) THEN Builtins!Type(p.base, q.cols, q.rows) ELSE Builtins!Type(p.base, p.cols, p.rows)
                  ELSE IF (IF Builtins!IsVector(p) THEN p.rows ELSE p.cols) # q.rows THEN Builtins!Type("mismatch", 0, 0)
                  ELSE IF (IF Builtins!IsVector(p) THEN 1 ELSE p.rows) = 1 THEN Builtins!Type(p.base, 1, q.cols)
                  ELSE Builtins!Type(p.base, q.cols, p.rows)
<1> DEFINE p == x.type
           q == y.type
<1>1. CASE Builtins!IsScalar(p) \/ Builtins!IsScalar(q)
  BY <1>1 DEF Builtins!Dot, Builtins!Each, Builtins!Value, Builtins!Shape
<1>2. CASE ~ (Builtins!IsScalar(p) \/ Builtins!IsScalar(q))
  BY <1>2 DEF Builtins!Dot, Builtins!Value
<1> QED BY <1>1, <1>2

\* What GLSL says of the type of a product.
LEMMA RightProduct ==
    ASSUME NEW a, NEW t
    PROVE  LET p == a[1].type   q == a[2].type
           IN  Builtins!RightType("*", a, t) <=>
                  IF Builtins!IsScalar(p) THEN t = q
                  ELSE IF Builtins!IsScalar(q) THEN t = p
                  ELSE IF Builtins!IsVector(p) /\ Builtins!IsVector(q) THEN t = p /\ t = q
                  ELSE IF Builtins!IsVector(p) THEN t = Builtins!Type(p.base, 1, q.cols)
                  ELSE t = [q EXCEPT !.rows = p.rows]
BY DEF Builtins!RightType
\* The type of a product, and of an operator on each component.
LEMMA ProductType ==
    ASSUME NEW x \in Values, NEW y \in Values, Builtins!MatchMultiply(x.type, y.type), NEW a, a[1] = x, a[2] = y
    PROVE  Builtins!RightType("*", a, Builtins!Multiply(x, y).type)
<1> DEFINE p == x.type
           q == y.type
<1>1. p \in Types /\ q \in Types /\ p.base = q.base
  BY DEF Values, Builtins!MatchMultiply
<1>2. CASE Builtins!IsVector(p) /\ Builtins!IsVector(q)
  <2>1. p = q
    BY <1>2 DEF Builtins!MatchMultiply, Builtins!Conform, Builtins!IsVector, Builtins!IsScalar, Builtins!IsMatrix
  <2>2. Builtins!Multiply(x, y).type = Builtins!Type(p.base, p.cols, p.rows)
    BY <1>2 DEF Builtins!Multiply, Builtins!Each, Builtins!Value, Builtins!Shape, Builtins!IsVector, Builtins!IsScalar
  <2>3. Builtins!Type(p.base, p.cols, p.rows) = p
    BY <1>1 DEF Types, Builtins!Type
  <2> QED BY <1>2, <2>1, <2>2, <2>3, RightProduct DEF Builtins!IsVector, Builtins!IsScalar
<1>3. CASE ~ (Builtins!IsVector(p) /\ Builtins!IsVector(q))
  <2>1. Builtins!Multiply(x, y) = Builtins!Dot(x, y)
    BY <1>3, Zenon DEF Builtins!Multiply
  <2>2. Builtins!RightType("*", a, Builtins!Dot(x, y).type)
    <3>1. Builtins!Type(p.base, p.cols, p.rows) = p /\ Builtins!Type(p.base, q.cols, q.rows) = q
      BY <1>1 DEF Types, Builtins!Type
    <3>2. [q EXCEPT !.rows = p.rows] = Builtins!Type(p.base, q.cols, p.rows)
      BY <1>1 DEF Types, Builtins!Type
    <3> QED BY <1>1, <1>3, <3>1, <3>2, DotType, RightProduct DEF Types, Builtins!MatchMultiply, Builtins!Conform,
               Builtins!IsVector, Builtins!IsScalar, Builtins!IsMatrix
  <2> QED BY <2>1, <2>2
<1> QED BY <1>2, <1>3

\* The functions that the operators name.
LEMMA Applied ==
    ASSUME NEW a
    PROVE  /\ Builtins!Apply("+", a) = Builtins!Plus(a[1], a[2]) /\ Builtins!Apply("-", a) = Builtins!Minus(a[1], a[2])
           /\ Builtins!Apply("*", a) = Builtins!Multiply(a[1], a[2]) /\ Builtins!Apply("/", a) = Builtins!Divide(a[1], a[2])
           /\ Builtins!Apply("%", a) = Builtins!Modulus(a[1], a[2])
           /\ Builtins!Apply("both", a) = Builtins!Like(Builtins!Shape(a[1], a[2]))
           /\ Builtins!Apply("<<", a) = Builtins!LShift(a[1], a[2]) /\ Builtins!Apply(">>", a) = Builtins!RShift(a[1], a[2])
<1>1. Builtins!Apply("+", a) = Builtins!Plus(a[1], a[2])
  BY DEF Builtins!Apply, Builtins!Compare, Builtins!Each
<1>2. Builtins!Apply("-", a) = Builtins!Minus(a[1], a[2])
  BY DEF Builtins!Apply, Builtins!Compare, Builtins!Each
<1>3. Builtins!Apply("*", a) = Builtins!Multiply(a[1], a[2])
  BY DEF Builtins!Apply, Builtins!Compare, Builtins!Each
<1>4. Builtins!Apply("/", a) = Builtins!Divide(a[1], a[2])
  BY DEF Builtins!Apply, Builtins!Compare, Builtins!Each
<1>5. Builtins!Apply("%", a) = Builtins!Modulus(a[1], a[2])
  BY DEF Builtins!Apply, Builtins!Compare, Builtins!Each
<1>6. Builtins!Apply("both", a) = Builtins!Like(Builtins!Shape(a[1], a[2]))
  BY DEF Builtins!Apply, Builtins!Compare, Builtins!Each
<1>7. Builtins!Apply("<<", a) = Builtins!LShift(a[1], a[2])
  BY DEF Builtins!Apply, Builtins!Compare, Builtins!Each
<1>8. Builtins!Apply(">>", a) = Builtins!RShift(a[1], a[2])
  BY DEF Builtins!Apply, Builtins!Compare, Builtins!Each
<1> QED BY <1>1, <1>2, <1>3, <1>4, <1>5, <1>6, <1>7, <1>8

\* What an operator makes of each component has the type of the argument that is no
\* scalar.
LEMMA EachType ==
    ASSUME NEW x \in Values, NEW y \in Values, Builtins!MatchSimpleBinop(x.type, y.type)
    PROVE  LET z == Builtins!Type(x.type.base, Builtins!Shape(x, y).cols, Builtins!Shape(x, y).rows)
               t == IF Builtins!IsScalar(x.type) THEN y.type ELSE x.type
           IN  /\ z = t /\ Builtins!Shape(x, y) = t
               /\ Builtins!Plus(x, y).type = z /\ Builtins!Minus(x, y).type = z
               /\ Builtins!Divide(x, y) # Builtins!Undefined => Builtins!Divide(x, y).type = z
               /\ Builtins!Modulus(x, y) # Builtins!Undefined => Builtins!Modulus(x, y).type = z
               /\ Builtins!Like(Builtins!Shape(x, y)).type = t
<1>1. x.type \in Types /\ y.type \in Types /\ x.type.base = y.type.base
  BY DEF Values, Builtins!MatchSimpleBinop
<1>2. Builtins!Shape(x, y) = IF Builtins!IsScalar(x.type) THEN y.type ELSE x.type
  BY DEF Builtins!Shape
<1>3. Builtins!Type(x.type.base, Builtins!Shape(x, y).cols, Builtins!Shape(x, y).rows) = Builtins!Shape(x, y)
  BY <1>1, <1>2 DEF Types, Builtins!Type
<1>4. /\ Builtins!Plus(x, y).type = Builtins!Type(x.type.base, Builtins!Shape(x, y).cols, Builtins!Shape(x, y).rows)
      /\ Builtins!Minus(x, y).type = Builtins!Type(x.type.base, Builtins!Shape(x, y).cols, Builtins!Shape(x, y).rows)
  BY DEF Builtins!Plus, Builtins!Minus, Builtins!Each, Builtins!Value
<1>5. Builtins!Divide(x, y) # Builtins!Undefined =>
         Builtins!Divide(x, y).type = Builtins!Type(x.type.base, Builtins!Shape(x, y).cols, Builtins!Shape(x, y).rows)
  BY DEF Builtins!Divide, Builtins!Each, Builtins!Value
<1>6. Builtins!Modulus(x, y) # Builtins!Undefined =>
         Builtins!Modulus(x, y).type = Builtins!Type(x.type.base, Builtins!Shape(x, y).cols, Builtins!Shape(x, y).rows)
  BY DEF Builtins!Modulus, Builtins!Each, Builtins!Value
<1>7. Builtins!Like(Builtins!Shape(x, y)).type = Builtins!Shape(x, y)
  BY DEF Builtins!Like, Builtins!Value
<1> QED BY <1>2, <1>3, <1>4, <1>5, <1>6, <1>7

\* A shifted value keeps its type: what it is shifted by is made an integer of a sign
\* with which numpy does not widen it.
LEMMA ShiftType ==
    ASSUME NEW x \in Values, NEW y \in Values, Builtins!MatchShift(x.type, y.type)
    PROVE  /\ Builtins!LShift(x, y) # Builtins!Undefined => Builtins!LShift(x, y).type = x.type
           /\ Builtins!RShift(x, y) # Builtins!Undefined => Builtins!RShift(x, y).type = x.type
<1> DEFINE b == x.type.base
           shiftType == CASE b = "int64_t" -> "int" [] b = "uint64_t" -> "uint" [] OTHER -> b
           z == IF y.type.base # shiftType THEN Builtins!ChangeSignedness(y) ELSE y
<1>1. /\ x.type \in Types /\ y.type \in Types
      /\ b \in {"int", "uint", "int64_t", "uint64_t"} /\ y.type.base \in {"int", "uint"}
      /\ Builtins!IsScalar(y.type) \/ x.type.rows = y.type.rows
  BY DEF Values, Builtins!MatchShift, Builtins!Signed, Builtins!Unsigned
<1>2. x.type.cols = 1 /\ y.type.cols = 1
  BY <1>1 DEF Types
<1>3. z.type.base = shiftType /\ z.type.cols = y.type.cols /\ z.type.rows = y.type.rows
  <2>1. shiftType \in {"int", "uint"}
    BY <1>1
  <2> HIDE DEF shiftType
  <2>2. CASE y.type.base = shiftType
    BY <2>2
  <2>3. CASE y.type.base # shiftType
    <3>1. y.type \in [base : STRING, cols : 1 .. 4, rows : 1 .. 4]
      BY <1>1 DEF Types
    <3> QED BY <1>1, <2>1, <2>3, <3>1 DEF Builtins!ChangeSignedness, Builtins!Value
  <2> QED BY <2>2, <2>3
<1>4. Builtins!Promoted(b, shiftType) = b
  BY <1>1 DEF Builtins!Promoted
<1>5. Builtins!IsScalar(x.type) => z.type.cols = x.type.cols /\ z.type.rows = x.type.rows
  BY <1>1, <1>2, <1>3 DEF Builtins!IsScalar
<1>6. Builtins!Type(b, x.type.cols, x.type.rows) = x.type
  BY <1>1 DEF Types, Builtins!Type
<1> HIDE DEF shiftType
<1>7. Builtins!Type(Builtins!Promoted(b, z.type.base), Builtins!Shape(x, z).cols, Builtins!Shape(x, z).rows) = x.type
  <2> HIDE DEF z
  <2> QED BY <1>3, <1>4, <1>5, <1>6 DEF Builtins!Shape
<1> USE DEF shiftType
<1>8. Builtins!LShift(x, y) # Builtins!Undefined =>
         Builtins!LShift(x, y).type = Builtins!Type(Builtins!Promoted(b, z.type.base), Builtins!Shape(x, z).cols, Builtins!Shape(x, z).rows)
  BY DEF Builtins!LShift, Builtins!Shift, Builtins!Each, Builtins!Value
<1>9. Builtins!RShift(x, y) # Builtins!Undefined =>
         Builtins!RShift(x, y).type = Builtins!Type(Builtins!Promoted(b, z.type.base), Builtins!Shape(x, z).cols, Builtins!Shape(x, z).rows)
  BY DEF Builtins!RShift, Builtins!Shift, Builtins!Each, Builtins!Value
<1> QED BY <1>7, <1>8, <1>9

\* The filters let operators have arguments only that give a result of the type GLSL
\* says, whatever the values are (the first part of OverloadsSound: match_simple_binop,
\* match_multiply, match_shift and the filters of assignments).
THEOREM OperatorsGiveTheirType ==
    ASSUME NEW op, NEW filter, Filtered(op, filter), NEW a \in Seq(Values), Len(a) = 2,
           Builtins!Matches(filter, a), Builtins!Apply(op, a) # Builtins!Undefined
    PROVE  Builtins!RightType(op, a, Builtins!Apply(op, a).type)
<1> DEFINE p == a[1].type
           q == a[2].type
           z == Builtins!Apply(op, a)
<1>0. a[1] \in Values /\ a[2] \in Values /\ p \in Types /\ q \in Types
  <2>1. a[1] \in Values /\ a[2] \in Values
    OBVIOUS
  <2> QED BY <2>1 DEF Values
<1>1. CASE op \in {"+", "-", "/", "%", "both"}
  <2>1. Builtins!MatchSimpleBinop(p, q)
    <3>1. filter = "binop" \/ filter = "assign"
      BY <1>1 DEF Filtered
    <3>2. Builtins!MatchSimpleBinop(p, q) \/ Builtins!MatchAssignmentOperators(p, q)
      BY <3>1, <1>0, Zenon DEF Builtins!Matches
    <3> QED BY <3>2 DEF Builtins!MatchSimpleBinop, Builtins!MatchAssignmentOperators
  <2>2. z.type = IF Builtins!IsScalar(p) THEN q ELSE p
    BY <1>0, <1>1, <2>1, Applied, EachType
  <2> QED BY <1>0, <1>1, <2>2 DEF Builtins!RightType
<1>2. CASE op = "*"
  <2>1. Builtins!MatchMultiply(p, q)
    <3>1. filter = "multiply" \/ filter = "assign-multiply"
      BY <1>2 DEF Filtered
    <3>2. Builtins!MatchMultiply(p, q) \/ Builtins!MatchAssignmentMultiply(p, q)
      BY <3>1, <1>0, Zenon DEF Builtins!Matches
    <3> QED BY <3>2 DEF Builtins!MatchMultiply, Builtins!MatchAssignmentMultiply
  <2> QED BY <1>0, <1>2, <2>1, Applied, ProductType
<1>3. CASE op \in {"<<", ">>"}
  <2>1. Builtins!MatchShift(p, q)
    <3>1. filter = "shift"
      BY <1>3 DEF Filtered
    <3> QED BY <3>1, <1>0, Zenon DEF Builtins!Matches
  <2>2. z.type = p
    BY <1>0, <1>3, <2>1, Applied, ShiftType
  <2> QED BY <1>0, <1>3, <2>2 DEF Builtins!RightType
<1> QED BY <1>1, <1>2, <1>3 DEF Filtered

\* What the filters of assignments let through can be assigned: the result has the
\* type of the variable (the second part of OverloadsSound: match_assignment_operators,
\* match_assignment_multiply, match_shift).
THEOREM AssignmentsKeepTheType ==
    ASSUME NEW op, NEW filter, Filtered(op, filter), filter \in {"assign", "assign-multiply", "shift"},
           NEW a \in Seq(Values), Len(a) = 2,
           Builtins!Matches(filter, a), Builtins!Apply(op, a) # Builtins!Undefined
    PROVE  Builtins!Apply(op, a).type = a[1].type
<1> DEFINE p == a[1].type
           q == a[2].type
           t == Builtins!Apply(op, a).type
<1>0. a[1] \in Values /\ a[2] \in Values /\ p \in Types /\ q \in Types
  <2>1. a[1] \in Values /\ a[2] \in Values
    OBVIOUS
  <2> QED BY <2>1 DEF Values
<1>1. Builtins!RightType(op, a, t)
  BY OperatorsGiveTheirType
<1> HIDE DEF t
<1>2. CASE op \in {"+", "-", "/", "%", "both"}
  <2>1. Builtins!MatchAssignmentOperators(p, q)
    <3>1. filter = "assign"
      BY <1>2 DEF Filtered
    <3> QED BY <3>1, <1>0, Zenon DEF Builtins!Matches
  <2>2. t = IF Builtins!IsScalar(p) THEN q ELSE p
    BY <1>0, <1>1, <1>2 DEF Builtins!RightType
  <2>3. Builtins!IsScalar(p) => p = q
    BY <1>0, <2>1 DEF Builtins!MatchAssignmentOperators, Builtins!IsScalar, Types
  <2> QED BY <2>2, <2>3 DEF t
<1>3. CASE op = "*"
  <2>1. Builtins!MatchAssignmentMultiply(p, q)
    <3>1. filter = "assign-multiply"
      BY <1>3 DEF Filtered
    <3> QED BY <3>1, <1>0, Zenon DEF Builtins!Matches
  <2>2. IF Builtins!IsScalar(p) THEN t = q
        ELSE IF Builtins!IsScalar(q) THEN t = p
        ELSE IF Builtins!IsVector(p) /\ Builtins!IsVector(q) THEN t = p /\ t = q
        ELSE IF Builtins!IsVector(p) THEN t = Builtins!Type(p.base, 1, q.cols)
        ELSE t = [q EXCEPT !.rows = p.rows]
    BY <1>1, <1>3, RightProduct
  <2>3. t = p
    <3>1. [q EXCEPT !.rows = p.rows] = Builtins!Type(q.base, q.cols, p.rows)
      BY <1>0 DEF Types, Builtins!Type
    <3>2. p = Builtins!Type(p.base, p.cols, p.rows) /\ q = Builtins!Type(q.base, q.cols, q.rows)
      BY <1>0 DEF Types, Builtins!Type
    <3> QED BY <1>0, <2>1, <2>2, <3>1, <3>2 DEF Types, Builtins!MatchAssignmentMultiply, Builtins!Conform,
               Builtins!IsVector, Builtins!IsScalar, Builtins!IsMatrix
  <2> QED BY <2>3 DEF t
<1>4. CASE op \in {"<<", ">>"}
  BY <1>0, <1>1, <1>4 DEF Builtins!RightType, t
<1> QED BY <1>2, <1>3, <1>4 DEF Filtered

\* The integers of 32 bits that are inputs, the least int excepted: it has no absolute
\* value.
Integer(b) == IF b = "int" THEN (1 - Pow(31)) .. (Pow(31) - 1) ELSE 0 .. (Pow(32) - 1)
Integers32(b) == {x \in Values : /\ x.type.base = b /\ Len(x.v) = x.type.cols * x.type.rows
                                 /\ \A i \in 1 .. Len(x.v) : x.v[i] \in Integer(b)}

\* A number below the divisor is its own rest.
LEMMA SmallRest ==
    ASSUME NEW n \in Nat, NEW d \in Nat, d > 0, n < d
    PROVE  n % d = n
BY SMT

\* An integer of these is not changed by the width.
LEMMA WrapKeeps ==
    ASSUME NEW b \in {"int", "uint"}, NEW n \in Integer(b)
    PROVE  Builtins!Wrap(b, n) = n /\ n \in Int
<1>1. Builtins!Bits(b) = 32 /\ Builtins!Bits(b) - 1 = 31
  BY DEF Builtins!Bits
<1>2. 2^Builtins!Bits(b) = Pow(32) /\ 2^(Builtins!Bits(b) - 1) = Pow(31)
  BY <1>1, Zenon DEF Pow
<1>3. PICK H \in Nat : H > 0 /\ H = Pow(31) /\ Pow(32) = 2 * H
  BY Powers
<1>4. CASE b = "int"
  <2>0. Builtins!Wrap(b, n) = ((n + 2^(Builtins!Bits(b) - 1)) % 2^Builtins!Bits(b)) - 2^(Builtins!Bits(b) - 1)
    BY <1>4, SMT DEF Builtins!Wrap, Builtins!Signed, Builtins!Unsigned
  <2>1. Builtins!Wrap(b, n) = ((n + Pow(31)) % Pow(32)) - Pow(31)
    BY <1>2, <2>0, Zenon
  <2>2. n \in (1 - Pow(31)) .. (Pow(31) - 1)
    BY <1>4, Zenon DEF Integer
  <2>3. n \in Int /\ n + H \in Nat /\ 2 * H \in Nat /\ 2 * H > 0 /\ n + H < 2 * H
    BY <1>3, <2>2, SMT
  <2>4. (n + H) % (2 * H) = n + H
    BY <2>3, SmallRest
  <2> QED BY <1>3, <2>1, <2>3, <2>4, SMT
<1>5. CASE b = "uint"
  <2>1. Builtins!Wrap(b, n) = n % Pow(32)
    BY <1>2, <1>5, Zenon DEF Builtins!Wrap, Builtins!Signed, Builtins!Unsigned
  <2>2. n \in 0 .. (Pow(32) - 1)
    BY <1>5, Zenon DEF Integer
  <2>3. n \in Nat /\ 2 * H \in Nat /\ 2 * H > 0 /\ n < 2 * H
    BY <1>3, <2>2, SMT
  <2>4. n % (2 * H) = n
    BY <2>3, SmallRest
  <2> QED BY <1>3, <2>1, <2>3, <2>4, SMT
<1> QED BY <1>4, <1>5

\* The components of an argument that numpy pairs with those of another.
LEMMA Component ==
    ASSUME NEW b, NEW x \in Integers32(b), NEW t \in Types,
           Builtins!IsScalar(x.type) \/ (x.type.cols = t.cols /\ x.type.rows = t.rows),
           NEW i \in 1 .. (t.cols * t.rows)
    PROVE  Builtins!At(x, i) \in Integer(b) /\ \E j \in DOMAIN x.v : Builtins!At(x, i) = x.v[j]
<1>1. x.v \in Seq(Int) /\ x.type.cols \in 1 .. 4 /\ x.type.rows \in 1 .. 4 /\ t.cols \in 1 .. 4 /\ t.rows \in 1 .. 4
  BY DEF Integers32, Values, Types
<1>2. Len(x.v) = x.type.cols * x.type.rows /\ \A j \in 1 .. Len(x.v) : x.v[j] \in Integer(b)
  BY DEF Integers32
<1>3. CASE Builtins!IsScalar(x.type)
  <2>1. Len(x.v) = 1
    BY <1>2, <1>3 DEF Builtins!IsScalar
  <2>2. 1 \in DOMAIN x.v
    BY <1>1, <2>1
  <2> QED BY <1>2, <1>3, <2>1, <2>2 DEF Builtins!At
<1>4. CASE ~ Builtins!IsScalar(x.type)
  <2>1. i \in 1 .. Len(x.v) /\ i \in DOMAIN x.v
    BY <1>1, <1>2, <1>4
  <2> QED BY <1>2, <1>4, <2>1 DEF Builtins!At
<1> QED BY <1>3, <1>4

\* An integer is its sign and its absolute value.
LEMMA SignFacts ==
    ASSUME NEW m \in Int
    PROVE  /\ Builtins!Sgn(m) \in {-1, 0, 1} /\ m * Builtins!Sgn(m) \in Nat
           /\ m = Builtins!Sgn(m) * (m * Builtins!Sgn(m))
           /\ m # 0 => m * Builtins!Sgn(m) > 0 /\ Builtins!Sgn(m) * Builtins!Sgn(m) = 1
           /\ m = 0 => Builtins!Sgn(m) = 0
           /\ m > 0 => Builtins!Sgn(m) = 1
           /\ m < 0 => Builtins!Sgn(m) = -1
BY SMT DEF Builtins!Sgn

\* A sign distributes over a sum.
LEMMA SignedSum ==
    ASSUME NEW s \in {-1, 0, 1}, NEW a \in Nat, NEW k \in Nat, NEW t \in Nat, a = k + t
    PROVE  s * k \in Int /\ s * a = s * k + s * t
<1>1. CASE s = 1
  BY <1>1, SMT
<1>2. CASE s = 0
  BY <1>2, SMT
<1>3. CASE s = -1
  BY <1>3, SMT
<1> QED BY <1>1, <1>2, <1>3

\* The quotient of the absolute values with the sign of both is that rounded toward zero.
LEMMA Truncated ==
    ASSUME NEW m \in Int, NEW n \in Int, n # 0
    PROVE  LET q == ((m * Builtins!Sgn(m)) \div (n * Builtins!Sgn(n))) * (Builtins!Sgn(m) * Builtins!Sgn(n))
               r == m - q * n
           IN  /\ q \in Int /\ q <= m * Builtins!Sgn(m) /\ -(m * Builtins!Sgn(m)) <= q
               /\ Builtins!Sgn(r) \in {0, Builtins!Sgn(m)} /\ r * Builtins!Sgn(r) < n * Builtins!Sgn(n)
<1>1. PICK s \in {-1, 0, 1}, A \in Nat : s = Builtins!Sgn(m) /\ A = m * Builtins!Sgn(m) /\ m = s * A /\ (m = 0 => s = 0) /\ (m > 0 => s = 1) /\ (m < 0 => s = -1)
  BY SignFacts
<1>2. PICK p \in {-1, 1}, B \in Nat : p = Builtins!Sgn(n) /\ B = n * Builtins!Sgn(n) /\ n = p * B /\ B > 0
  BY SignFacts
<1>3. PICK k \in Nat, t \in Nat : k = A \div B /\ A = B * k + t /\ t < B
  <2>1. A \div B \in Nat /\ A % B \in 0 .. B - 1 /\ A = B * (A \div B) + (A % B)
    BY <1>2, Quotient
  <2>2. A % B \in Nat /\ A % B < B
    BY <1>2, <2>1
  <2> QED BY <2>1, <2>2, Zenon
<1> DEFINE q == k * (s * p)
           r == m - q * n
<1>4. q \in Int /\ q <= A /\ -A <= q
  <2>1. k <= A
    <3>1. B * k \in Nat /\ B * k >= k
      BY <1>2
    <3> QED BY <1>3, <3>1
  <2>2. s * p = 1 \/ s * p = -1 \/ s * p = 0
    BY <1>1, <1>2
  <2> QED BY <2>1, <2>2
<1>5. r = s * t
  <2>1. p * p = 1
    BY <1>2
  <2>2. q * n = (s * (B * k)) * (p * p)
    <3>1. q * n = (k * (s * p)) * (p * B)
      BY <1>2
    <3>2. (k * (s * p)) * (p * B) = (s * (B * k)) * (p * p)
      BY <1>1, <1>2
    <3> QED BY <3>1, <3>2
  <2>3. s * (B * k) \in Int /\ s * A = s * (B * k) + s * t
    <3>1. B * k \in Nat /\ A = B * k + t
      BY <1>2, <1>3
    <3>2. PICK K \in Nat : K = B * k
      BY <3>1
    <3>3. A = K + t
      BY <3>1, <3>2, Zenon
    <3>4. s * K \in Int /\ s * A = s * K + s * t
      BY ONLY <3>3, s \in {-1, 0, 1}, A \in Nat, t \in Nat, K \in Nat, SignedSum, SMT
    <3> QED BY <3>2, <3>4, Zenon
  <2> QED BY <1>1, <2>1, <2>2, <2>3
<1>6. Builtins!Sgn(r) \in {0, s} /\ r * Builtins!Sgn(r) < B
  <2> HIDE DEF r
  <2>1. r \in Int /\ (r = t \/ r = -t \/ r = 0) /\ (r > 0 => s = 1) /\ (r < 0 => s = -1)
    <3>1. s = 1 \/ s = 0 \/ s = -1
      BY <1>1
    <3>2. CASE s = 1
      BY <1>5, <3>2
    <3>3. CASE s = 0
      BY <1>5, <3>3
    <3>4. CASE s = -1
      BY <1>5, <3>4
    <3> QED BY <3>1, <3>2, <3>3, <3>4
  <2>2. Builtins!Sgn(r) \in {0, s}
    BY <2>1, SignFacts
  <2>3. r * Builtins!Sgn(r) < B
    <3>1. r * Builtins!Sgn(r) = r \/ r * Builtins!Sgn(r) = -r \/ r * Builtins!Sgn(r) = 0
      <4>1. Builtins!Sgn(r) = 1 \/ Builtins!Sgn(r) = 0 \/ Builtins!Sgn(r) = -1
        BY <2>1, SignFacts
      <4> QED BY <2>1, <4>1
    <3> QED BY <1>2, <1>3, <2>1, <3>1
  <2> QED BY <2>2, <2>3
<1> QED BY <1>1, <1>2, <1>3, <1>4, <1>6

\* An int of these has an absolute value, which the width does not change.
LEMMA AbsoluteKeeps ==
    ASSUME NEW n \in Integer("int")
    PROVE  n \in Int /\ Builtins!Absolute("int", n) = n * Builtins!Sgn(n) /\ n * Builtins!Sgn(n) \in 0 .. (Pow(31) - 1)
<1>1. PICK H \in Nat : H = Pow(31)
  BY Powers
<1>2. n \in Int /\ 1 - H <= n /\ n <= H - 1
  BY <1>1 DEF Integer
<1>3. n * Builtins!Sgn(n) \in 0 .. (H - 1)
  BY <1>2 DEF Builtins!Sgn
<1>4. n * Builtins!Sgn(n) \in Integer("int")
  <2> HIDE DEF Builtins!Sgn
  <2>1. \A k \in 0 .. (H - 1) : k \in (1 - H) .. (H - 1)
    BY SMT
  <2> QED BY <1>1, <1>3, <2>1, Zenon DEF Integer
<1> QED BY <1>1, <1>2, <1>3, <1>4, WrapKeeps, Zenon DEF Builtins!Absolute

\* The quotient that divide gives for a component.
Divided(b, m, n) == CASE b \in Builtins!Signed -> Builtins!Wrap(b, (Builtins!Absolute(b, m) \div Builtins!Absolute(b, n))
                                                                    * (Builtins!Sgn(m) * Builtins!Sgn(n)))
                      [] b \in Builtins!Unsigned -> m \div n
                      [] OTHER -> Builtins!Real

\* It is rounded toward zero.
LEMMA DividedRight ==
    ASSUME NEW b \in {"int", "uint"}, NEW m \in Integer(b), NEW n \in Integer(b), n # 0
    PROVE  LET r == m - Divided(b, m, n) * n
           IN  Builtins!Sgn(r) \in {0, Builtins!Sgn(m)} /\ r * Builtins!Sgn(r) < n * Builtins!Sgn(n)
<1>1. CASE b = "int"
  <2> DEFINE q == ((m * Builtins!Sgn(m)) \div (n * Builtins!Sgn(n))) * (Builtins!Sgn(m) * Builtins!Sgn(n))
  <2>1. Divided(b, m, n) = Builtins!Wrap(b, (Builtins!Absolute(b, m) \div Builtins!Absolute(b, n))
                                             * (Builtins!Sgn(m) * Builtins!Sgn(n)))
    BY <1>1, SMT DEF Divided, Builtins!Signed, Builtins!Unsigned
  <2>2. /\ m \in Int /\ n \in Int
        /\ Builtins!Absolute(b, m) = m * Builtins!Sgn(m) /\ m * Builtins!Sgn(m) \in 0 .. (Pow(31) - 1)
        /\ Builtins!Absolute(b, n) = n * Builtins!Sgn(n)
    BY <1>1, AbsoluteKeeps, Zenon
  <2>3. Divided(b, m, n) = Builtins!Wrap(b, q)
    BY <2>1, <2>2, Zenon
  <2> HIDE DEF q
  <2>4. /\ q \in Int /\ q <= m * Builtins!Sgn(m) /\ -(m * Builtins!Sgn(m)) <= q
        /\ Builtins!Sgn(m - q * n) \in {0, Builtins!Sgn(m)}
        /\ (m - q * n) * Builtins!Sgn(m - q * n) < n * Builtins!Sgn(n)
    BY <2>2, Truncated DEF q
  <2>5. q \in Integer(b)
    <3>1. PICK H \in Nat : H = Pow(31)
      BY Powers
    <3>2. PICK A \in 0 .. (H - 1) : A = m * Builtins!Sgn(m)
      BY <2>2, <3>1, Zenon
    <3>3. q \in Int /\ q <= A /\ -A <= q
      BY <2>4, <3>2, Zenon
    <3>4. q \in (1 - H) .. (H - 1)
      BY ONLY <3>3, A \in 0 .. (H - 1), H \in Nat, SMT
    <3> QED BY <1>1, <3>1, <3>4, Zenon DEF Integer
  <2>6. Divided(b, m, n) = q
    BY <2>3, <2>5, WrapKeeps, Zenon
  <2> QED BY <2>4, <2>6, Zenon
<1>2. CASE b = "uint"
  <2>1. Divided(b, m, n) = m \div n
    BY <1>2, SMT DEF Divided, Builtins!Signed, Builtins!Unsigned
  <2>2. m \in Nat /\ n \in Nat /\ n > 0
    <3>1. PICK H \in Nat : H = Pow(32)
      BY Powers
    <3>2. m \in 0 .. (H - 1) /\ n \in 0 .. (H - 1)
      BY <1>2, <3>1, Zenon DEF Integer
    <3> QED BY <3>2, SMT
  <2>3. m \div n \in Nat /\ m % n \in 0 .. n - 1 /\ m = n * (m \div n) + (m % n)
    BY <2>2, Quotient
  <2>4. PICK q \in Nat, r \in Nat : q = m \div n /\ r < n /\ m = n * q + r
    BY <2>2, <2>3
  <2>5. m - q * n = r
    BY <2>2, <2>4
  <2>6. Builtins!Sgn(r) \in {0, Builtins!Sgn(m)} /\ r * Builtins!Sgn(r) < n * Builtins!Sgn(n)
    <3>1. r > 0 => m > 0
      <4>1. n * q \in Nat
        BY <2>2, <2>4
      <4> QED BY <2>4, <4>1
    <3>2. r * Builtins!Sgn(r) = r /\ n * Builtins!Sgn(n) = n
      BY <2>2, <2>4 DEF Builtins!Sgn
    <3>3. Builtins!Sgn(r) \in {0, Builtins!Sgn(m)}
      BY <2>2, <2>4, <3>1 DEF Builtins!Sgn
    <3> QED BY <2>4, <3>2, <3>3
  <2> QED BY <2>1, <2>4, <2>5, <2>6, Zenon
<1> QED BY <1>1, <1>2

\* What is asked of a quotient and of what is shifted to the right.
LEMMA RightQuotient ==
    ASSUME NEW x, NEW y, NEW z,
           \A i \in DOMAIN z.v : LET m == Builtins!At(x, i)
                                     n == Builtins!At(y, i)
                                     r == m - z.v[i] * n
                                 IN  Builtins!Sgn(r) \in {0, Builtins!Sgn(m)} /\ r * Builtins!Sgn(r) < n * Builtins!Sgn(n)
    PROVE  Builtins!RightValue("/", x, y, z)
<1> HIDE DEF Builtins!Sgn, Builtins!At
<1> QED BY SMT DEF Builtins!RightValue

\* The second of them.
LEMMA RightShifted ==
    ASSUME NEW x, NEW y, NEW z,
           \A i \in DOMAIN z.v : LET m == Builtins!At(x, i)
                                     n == Builtins!At(y, i)
                                 IN  \E k \in 0 .. (2^n - 1) : m = z.v[i] * 2^n + k
    PROVE  Builtins!RightValue(">>", x, y, z)
BY SMT DEF Builtins!RightValue

\* So divide rounds every component toward zero.
LEMMA DivisionRounds ==
    ASSUME NEW b \in {"int", "uint"}, NEW x \in Integers32(b), NEW y \in Integers32(b),
           Builtins!MatchSimpleBinop(x.type, y.type), NEW z, z = Builtins!Divide(x, y), z # Builtins!Undefined
    PROVE  Builtins!RightValue("/", x, y, z)
<1> DEFINE t == Builtins!Shape(x, y)
           N == 1 .. (t.cols * t.rows)
<1>1. x \in Values /\ y \in Values /\ x.type \in Types /\ y.type \in Types /\ x.type.base = b
  BY DEF Integers32, Values
<1>2. t \in Types
  BY <1>1 DEF Builtins!Shape
<1>3. /\ Builtins!IsScalar(x.type) \/ (x.type.cols = t.cols /\ x.type.rows = t.rows)
      /\ Builtins!IsScalar(y.type) \/ (y.type.cols = t.cols /\ y.type.rows = t.rows)
  BY DEF Builtins!Shape, Builtins!MatchSimpleBinop
<1>4. /\ \A i \in DOMAIN y.v : y.v[i] # 0
      /\ z.v = [i \in N |-> Divided(b, Builtins!At(x, i), Builtins!At(y, i))]
  BY <1>1 DEF Builtins!Divide, Builtins!Each, Builtins!Value, Divided
<1>5. ASSUME NEW i \in DOMAIN z.v
      PROVE  LET m == Builtins!At(x, i)
                 n == Builtins!At(y, i)
                 r == m - z.v[i] * n
             IN  Builtins!Sgn(r) \in {0, Builtins!Sgn(m)} /\ r * Builtins!Sgn(r) < n * Builtins!Sgn(n)
  <2> HIDE DEF t
  <2>1. i \in N /\ z.v[i] = Divided(b, Builtins!At(x, i), Builtins!At(y, i))
    BY <1>4
  <2>2. Builtins!At(x, i) \in Integer(b) /\ Builtins!At(y, i) \in Integer(b)
    BY <1>2, <1>3, <2>1, Component, Zenon
  <2>3. Builtins!At(y, i) # 0
    BY <1>2, <1>3, <1>4, <2>1, Component, Zenon
  <2> QED BY <2>1, <2>2, <2>3, DividedRight, Zenon
<1> QED BY <1>5, RightQuotient, Zenon

\* A shift to the right rounds down.
LEMMA Halved ==
    ASSUME NEW m \in Int, NEW d \in Nat, d > 0
    PROVE  m \div d \in Int /\ \E k \in 0 .. (d - 1) : m = (m \div d) * d + k
<1>1. m \div d \in Int /\ m % d \in 0 .. (d - 1) /\ m = d * (m \div d) + (m % d)
  BY SMT
<1>2. d * (m \div d) = (m \div d) * d
  BY <1>1
<1> QED BY <1>1, <1>2, Zenon

\* The amount of a shift, of whichever sign it is made.
LEMMA Amount ==
    ASSUME NEW b \in {"int", "uint"}, NEW n \in 0 .. 31
    PROVE  n \in Integer(b) /\ Builtins!Wrap(b, n) = n
<1>1. PICK H \in Nat : H = Pow(31) /\ Pow(32) = 2 * H /\ 31 < H
  <2>1. Pow(5) = 32 /\ Pow(6) = 2 * Pow(5) /\ Pow(31) \in Nat /\ Pow(32) = 2 * Pow(31)
    BY Powers
  <2>2. 31 < Pow(31)
    BY DEF Pow
  <2> QED BY <2>1, <2>2
<1>2. n \in Integer(b)
  BY <1>1 DEF Integer
<1> QED BY <1>2, WrapKeeps, Zenon

\* So rshift rounds every component down.
LEMMA ShiftRounds ==
    ASSUME NEW b \in {"int", "uint"}, NEW c \in {"int", "uint"}, NEW x \in Integers32(b), NEW y \in Integers32(c),
           Builtins!MatchShift(x.type, y.type), NEW z, z = Builtins!RShift(x, y), z # Builtins!Undefined
    PROVE  Builtins!RightValue(">>", x, y, z)
<1> DEFINE w == IF c # b THEN Builtins!ChangeSignedness(y) ELSE y
           t == Builtins!Shape(x, w)
           N == 1 .. (t.cols * t.rows)
<1>1. /\ x \in Values /\ y \in Values /\ x.type \in Types /\ y.type \in Types
      /\ x.type.base = b /\ y.type.base = c /\ Len(y.v) = y.type.cols * y.type.rows /\ y.v \in Seq(Int)
  BY DEF Integers32, Values
<1>2. /\ w.type.cols = y.type.cols /\ w.type.rows = y.type.rows /\ DOMAIN w.v = DOMAIN y.v
      /\ \A i \in DOMAIN y.v : w.v[i] = IF c # b THEN Builtins!Wrap(b, y.v[i]) ELSE y.v[i]
  <2>1. y.type \in [base : STRING, cols : 1 .. 4, rows : 1 .. 4]
    BY <1>1 DEF Types
  <2> QED BY <1>1, <2>1 DEF Builtins!ChangeSignedness, Builtins!Value
<1>3. Builtins!Bits(b) = 32
  BY DEF Builtins!Bits
<1>4. (\A i \in DOMAIN y.v : y.v[i] \in 0 .. (Builtins!Bits(b) - 1)) /\ z.v = [i \in N |-> Builtins!At(x, i) \div (2^Builtins!At(w, i))]
  <2> DEFINE shiftType == CASE x.type.base = "int64_t" -> "int" [] x.type.base = "uint64_t" -> "uint" [] OTHER -> x.type.base
             u == IF y.type.base # shiftType THEN Builtins!ChangeSignedness(y) ELSE y
  <2>1. shiftType = b
    BY <1>1
  <2>2. u = w
    BY <1>1, <2>1, Zenon
  <2>3. /\ \A i \in DOMAIN y.v : y.v[i] \in 0 .. (Builtins!Bits(x.type.base) - 1)
        /\ z.v = [i \in 1 .. (Builtins!Shape(x, u).cols * Builtins!Shape(x, u).rows) |->
                     Builtins!At(x, i) \div (2^Builtins!At(u, i))]
    BY SMT DEF Builtins!RShift, Builtins!Shift, Builtins!Each, Builtins!Value
  <2> HIDE DEF u, w
  <2> QED BY <1>1, <2>2, <2>3, Zenon
<1>5. \A i \in DOMAIN y.v : y.v[i] \in 0 .. 31 /\ w.v[i] = y.v[i]
  <2> HIDE DEF w
  <2>1. \A i \in DOMAIN y.v : y.v[i] \in 0 .. 31
    BY <1>3, <1>4
  <2> QED BY <1>2, <2>1, Amount
<1>6. /\ t.cols \in 1 .. 4 /\ t.rows \in 1 .. 4
      /\ Builtins!IsScalar(x.type) \/ (x.type.cols = t.cols /\ x.type.rows = t.rows)
      /\ Builtins!IsScalar(y.type) \/ (y.type.cols = t.cols /\ y.type.rows = t.rows)
  <2> HIDE DEF w
  <2>1. /\ x.type.cols \in 1 .. 4 /\ x.type.rows \in 1 .. 4 /\ y.type.cols = 1 /\ y.type.rows \in 1 .. 4 /\ x.type.cols = 1
        /\ Builtins!IsScalar(y.type) \/ x.type.rows = y.type.rows
    BY <1>1 DEF Types, Builtins!MatchShift
  <2> QED BY <1>2, <2>1 DEF Builtins!Shape, Builtins!IsScalar
<1>7. ASSUME NEW i \in DOMAIN z.v
      PROVE  LET m == Builtins!At(x, i)
                 n == Builtins!At(y, i)
             IN  \E k \in 0 .. (2^n - 1) : m = z.v[i] * 2^n + k
  <2> HIDE DEF t, w
  <2>1. i \in N /\ z.v[i] = Builtins!At(x, i) \div (2^Builtins!At(w, i))
    BY <1>4
  <2>2. Builtins!At(x, i) \in Int
    <3>1. CASE Builtins!IsScalar(x.type)
      BY <1>1, <3>1 DEF Builtins!At, Builtins!IsScalar, Integers32, Values
    <3>2. CASE ~ Builtins!IsScalar(x.type)
      BY <1>6, <2>1, <3>2 DEF Builtins!At, Integers32, Values
    <3> QED BY <3>1, <3>2
  <2>3. Builtins!At(y, i) \in 0 .. 31 /\ Builtins!At(w, i) = Builtins!At(y, i)
    <3>1. Builtins!IsScalar(w.type) <=> Builtins!IsScalar(y.type)
      BY <1>2 DEF Builtins!IsScalar
    <3>2. CASE Builtins!IsScalar(y.type)
      <4>1. Len(y.v) = 1
        BY <1>1, <3>2 DEF Builtins!IsScalar
      <4>2. 1 \in DOMAIN y.v
        BY <1>1, <4>1
      <4> QED BY <1>5, <3>1, <3>2, <4>2, Zenon DEF Builtins!At
    <3>3. CASE ~ Builtins!IsScalar(y.type)
      <4>1. Len(y.v) = t.cols * t.rows
        BY <1>1, <1>6, <3>3, Zenon
      <4>2. i \in DOMAIN y.v
        BY <1>1, <1>6, <2>1, <4>1
      <4> QED BY <1>5, <3>1, <3>3, <4>2, Zenon DEF Builtins!At
    <3> QED BY <3>2, <3>3
  <2>4. PICK d \in Nat : d > 0 /\ d = 2^Builtins!At(y, i)
    <3>1. PICK n \in 0 .. 31 : n = Builtins!At(y, i)
      BY <2>3
    <3>2. Pow(n) \in Nat /\ Pow(n) > 0
      BY Powers
    <3> QED BY <3>1, <3>2, Zenon DEF Pow
  <2>5. z.v[i] = Builtins!At(x, i) \div d
    BY <2>1, <2>3, <2>4, Zenon
  <2>6. \E k \in 0 .. (d - 1) : Builtins!At(x, i) = (Builtins!At(x, i) \div d) * d + k
    BY <2>2, <2>4, Halved
  <2> QED BY <2>4, <2>5, <2>6, Zenon
<1> QED BY <1>7, RightShifted, Zenon

\* Integer division rounds toward zero and a shift to the right down, for every two
\* arguments of 32 bits that their filters let through (divide, rshift; RightValue in
\* OverloadsSound states it of the samples).
THEOREM IntegersRoundRight ==
    ASSUME NEW b \in {"int", "uint"}, NEW c \in {"int", "uint"}, NEW x \in Integers32(b), NEW y \in Integers32(c),
           NEW op, \/ op = "/" /\ Builtins!Matches("binop", <<x, y>>)
                   \/ op = ">>" /\ Builtins!Matches("shift", <<x, y>>),
           Builtins!Apply(op, <<x, y>>) # Builtins!Undefined
    PROVE  Builtins!RightValue(op, x, y, Builtins!Apply(op, <<x, y>>))
<1> DEFINE a == <<x, y>>
<1>1. a[1] = x /\ a[2] = y
  OBVIOUS
<1> HIDE DEF a
<1>2. CASE op = "/"
  <2>1. Builtins!MatchSimpleBinop(x.type, y.type)
    BY <1>1, <1>2, Zenon DEF Builtins!Matches, a
  <2>2. b = c
    BY <2>1 DEF Builtins!MatchSimpleBinop, Integers32
  <2> QED BY <1>1, <1>2, <2>1, <2>2, Applied, DivisionRounds, Zenon DEF a
<1>3. CASE op = ">>"
  <2>1. Builtins!MatchShift(x.type, y.type)
    BY <1>1, <1>3, Zenon DEF Builtins!Matches, a
  <2> QED BY <1>1, <1>3, <2>1, Applied, ShiftRounds, Zenon DEF a
<1> QED BY <1>2, <1>3
=============================================================================
