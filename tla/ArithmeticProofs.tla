-------------------------- MODULE ArithmeticProofs --------------------------
(***************************************************************************)
(* That the evaluation of $((...)) is right: what is printed is what the   *)
(* expression means, for expressions of any length and nesting, well formed  *)
(* or not, numbers of any size and ints of any width.                      *)
(*                                                                         *)
(* The code never evaluates an expression with a sign before a (, and of   *)
(* all others the meaning is the plain one, in which such signs have no    *)
(* part: most of the proof is about that one.                              *)
(*                                                                         *)
(* Induction over data is by the least number that something fails of, as  *)
(* a set of numbers that is not empty has a least one (Least).             *)
(***************************************************************************)
EXTENDS Meaning, FiniteSetTheorems, SequenceTheorems, TLAPS

----------------------------------------------------------------------------
(* The meaning without signs before parentheses                            *)

PlainReading(s, of, lo, hi) ==
  IF Signed(s, lo, hi) THEN Just(SignOf(s, lo, hi) * s[hi].nb)
  ELSE IF Enclosed(s, lo, hi) THEN of[<<lo + 1, hi - 1>>]
  ELSE IF Binary(s, Operators, lo, hi) = {} THEN NoSense
  ELSE LET at == Split(s, lo, hi) IN Apply(s[at].op, of[<<lo, at - 1>>], of[<<at + 1, hi>>])

PlainMeanings(s) == LET of[span \in Spans(s)] == PlainReading(s, of, span[1], span[2]) IN of
PlainMeaning(s) == PlainMeanings(s)[<<1, Len(s)>>]

\* Where no sign is before a (, it is the meaning.
LEMMA PlainIs ==
  ASSUME NEW s \in Seq(Token), ~SignedGroup(s)
  PROVE  PlainMeaning(s) = Meaning(s)
<1>1. ASSUME NEW lo \in 1..Len(s)+1, NEW hi \in 0..Len(s) PROVE Group(s, lo, hi) = {}
  <2> SUFFICES ASSUME NEW m \in Group(s, lo, hi) PROVE FALSE
    OBVIOUS
  <2>1. Len(s) \in Nat /\ m \in lo+1..hi /\ s[m].op = "(" /\ \A i \in lo..m-1 : IsSignAt(s, i)
    BY DEF Group, Enclosed
  <2>2. m \in 2..Len(s) /\ m - 1 \in lo..m-1
    BY <2>1
  <2> QED
    BY <2>1, <2>2 DEF SignedGroup
<1>2. ASSUME NEW h, NEW x \in Spans(s)
      PROVE  PlainReading(s, h, x[1], x[2]) = Reading(s, h, x[1], x[2])
  <2>1. x[1] \in 1..Len(s)+1 /\ x[2] \in 0..Len(s)
    BY DEF Spans
  <2>2. Group(s, x[1], x[2]) = {}
    BY <1>1, <2>1
  <2> QED
    BY <2>2 DEF PlainReading, Reading
<1> DEFINE P(h) == h = [x \in Spans(s) |-> PlainReading(s, h, x[1], x[2])]
           R(h) == h = [x \in Spans(s) |-> Reading(s, h, x[1], x[2])]
<1>3. \A h : P(h) <=> R(h)
  <2>1. \A h : [x \in Spans(s) |-> PlainReading(s, h, x[1], x[2])]
                  = [x \in Spans(s) |-> Reading(s, h, x[1], x[2])]
    BY <1>2
  <2> QED
    BY <2>1
<1>4. PlainMeanings(s) = (CHOOSE h : P(h)) /\ Meanings(s) = (CHOOSE h : R(h))
  BY DEF PlainMeanings, Meanings
<1> HIDE DEF P, R
<1>5. (CHOOSE h : P(h)) = (CHOOSE h : R(h))
  BY <1>3, Zenon
<1> QED
  BY <1>4, <1>5 DEF PlainMeaning, Meaning

PrintedPlainly ==
  phase = "printed" =>
    LET m == PlainMeaning(input)
    IN (m.how = "value" /\ result = Itoa(Truncate(m.value))) \/ (m.how = "bad" /\ Lenient)

EndsPlainly ==
  phase \in {"exit", "crashed"} =>
    /\ PlainMeaning(input).how # "value"
    /\ PlainMeaning(input).how = "divides" => code = 127

----------------------------------------------------------------------------
(* Numbers: induction and recursion without an operator as a parameter     *)

\* Less is well-founded on the numbers.
LEMMA LessWF == \E R : /\ IsWellFoundedOn(R, Nat)
                       /\ \A i, j \in Nat : <<i, j>> \in R <=> i < j
<1>1. IsWellFoundedOn(OpToRel(<,Nat), Nat)
  BY NatLessThanWellFounded
<1>2. \A i, j \in Nat : <<i, j>> \in OpToRel(<,Nat) <=> i < j
  BY DEF OpToRel
<1> QED
  BY <1>1, <1>2

\* A set of numbers that has one has a least one.
LEMMA Least ==
  ASSUME NEW T, T \subseteq Nat, T # {}
  PROVE \E x \in T : \A y \in T : x <= y
<1>1. PICK R : /\ IsWellFoundedOn(R, Nat)
               /\ \A i, j \in Nat : <<i, j>> \in R <=> i < j
  BY LessWF
<1>2. \E x \in T : \A y \in T : ~(<<y, x>> \in R)
  <2>1. IsWellFoundedOn(R, Nat)
    BY <1>1
  <2> QED
    BY <2>1, WFMin
<1>3. PICK x \in T : \A y \in T : ~(<<y, x>> \in R)
  BY <1>2
<1>4. ASSUME NEW y \in T PROVE x <= y
  <2>1. x \in Nat /\ y \in Nat
    OBVIOUS
  <2>2. ~(y < x)
    BY <1>1, <1>3, <2>1
  <2> QED
    BY <2>1, <2>2
<1> QED
  BY <1>4

\* Induction, with the set of numbers that something holds of in place of a formula
LEMMA Induct ==
  ASSUME NEW S, 0 \in S, \A n \in Nat : n \in S => n + 1 \in S
  PROVE  \A n \in Nat : n \in S
<1> SUFFICES ASSUME NEW n \in Nat, n \notin S PROVE FALSE
  OBVIOUS
<1> DEFINE T == {k \in Nat : k \notin S}
<1>1. T \subseteq Nat /\ T # {}
  OBVIOUS
<1>2. PICK x \in T : \A y \in T : x <= y
  BY <1>1, Least
<1>3. x # 0 /\ x \in Nat
  BY <1>2
<1>4. x - 1 \in Nat /\ x - 1 \notin T
  BY <1>2, <1>3
<1>5. (x - 1) + 1 \in S
  BY <1>4
<1> QED
  BY <1>3, <1>5

\* Induction over the length of spans
LEMMA SpanInduct ==
  ASSUME NEW n \in Nat, NEW S,
         \A lo \in 1..n+1, hi \in 0..n :
           (\A l \in 1..n+1, h \in 0..n : h - l < hi - lo => <<l, h>> \in S) => <<lo, hi>> \in S
  PROVE  \A lo \in 1..n+1, hi \in 0..n : <<lo, hi>> \in S
<1> SUFFICES ASSUME NEW a \in 1..n+1, NEW b \in 0..n, <<a, b>> \notin S PROVE FALSE
  OBVIOUS
<1> DEFINE T == {k \in Nat : \E lo \in 1..n+1, hi \in 0..n : <<lo, hi>> \notin S /\ k = hi - lo + n + 1}
<1>1. T \subseteq Nat /\ b - a + n + 1 \in T
  <2>1. b - a + n + 1 \in Nat
    OBVIOUS
  <2> QED
    BY <2>1
<1>2. PICK x \in T : \A y \in T : x <= y
  BY <1>1, Least, ZenonT(40)
<1>3. PICK lo \in 1..n+1, hi \in 0..n : <<lo, hi>> \notin S /\ x = hi - lo + n + 1
  OBVIOUS
<1>4. ASSUME NEW l \in 1..n+1, NEW h \in 0..n, h - l < hi - lo
      PROVE  <<l, h>> \in S
  <2>1. h - l + n + 1 \in Nat /\ ~(x <= h - l + n + 1)
    BY <1>3, <1>4
  <2>2. h - l + n + 1 \notin T
    BY <1>2, <2>1
  <2> QED
    BY <2>1, <2>2
<1> QED
  BY <1>3, <1>4

\* The greatest of a bounded set of numbers
LEMMA MaxIs ==
  ASSUME NEW T, NEW lo \in Int, NEW hi \in Int, T \subseteq lo..hi, T # {}
  PROVE  Max(T) \in T /\ \A y \in T : y <= Max(T)
<1> DEFINE R == {k \in Nat : \E i \in T : k = hi - i}
<1>1. R \subseteq Nat /\ R # {}
  <2>1. PICK i \in T : TRUE
    OBVIOUS
  <2>2. hi - i \in R
    OBVIOUS
  <2> QED
    BY <2>2
<1>2. PICK x \in R : \A y \in R : x <= y
  BY <1>1, Least
<1>3. PICK i \in T : x = hi - i
  OBVIOUS
<1>4. ASSUME NEW y \in T PROVE i >= y
  <2>1. hi - y \in R
    OBVIOUS
  <2>2. i \in Int /\ y \in Int /\ hi - i <= hi - y
    BY <1>2, <1>3, <2>1
  <2> QED
    BY <2>2
<1>5. \E x1 \in T : \A y \in T : x1 >= y
  BY <1>4
<1>6. Max(T) \in T /\ \A y \in T : Max(T) >= y
  BY <1>5 DEF Max
<1> QED
  BY <1>6

\* Primitive recursion over an initial piece of the numbers
LEMMA Recursion ==
  ASSUME NEW N \in Nat, NEW c \in Int, NEW h \in [(0..N) \X Int -> Int]
  PROVE  \E w \in [0..N -> Int] :
           w[0] = c /\ \A i \in 1..N : w[i] = h[<<i, w[i - 1]>>]
<1> DEFINE P(k, w) == w \in [0..N -> Int] /\ w[0] = c
                      /\ \A i \in 1..N : i <= k => w[i] = h[<<i, w[i - 1]>>]
           S == {k \in Nat : \E w : P(k, w)}
<1>1. 0 \in S
  <2>1. P(0, [i \in 0..N |-> c])
    OBVIOUS
  <2> QED
    BY <2>1
<1>2. ASSUME NEW k \in Nat, k \in S PROVE k + 1 \in S
  <2>1. PICK w : P(k, w)
    BY <1>2
  <2>2. CASE k + 1 > N
    <3>1. P(k + 1, w)
      BY <2>1, <2>2
    <3> QED
      BY <3>1, SMTT(40)
  <2>3. CASE k + 1 <= N
    <3>0. k \in 0..N /\ k + 1 \in 0..N /\ w \in [0..N -> Int]
      BY <2>1, <2>3
    <3>1. w[k] \in Int /\ h[<<k + 1, w[k]>>] \in Int
      BY <3>0
    <3>a. PICK x \in Int : x = h[<<k + 1, w[k]>>]
      BY <3>1
    <3> DEFINE v == [w EXCEPT ![k + 1] = x]
    <3>2. v \in [0..N -> Int] /\ v[0] = c /\ v[k + 1] = x /\ \A i \in 0..N : i # k + 1 => v[i] = w[i]
      BY <2>1, <3>0
    <3>3. ASSUME NEW i \in 1..N, i <= k + 1 PROVE v[i] = h[<<i, v[i - 1]>>]
      <4>1. CASE i = k + 1
        <5>1. v[i - 1] = w[k]
          BY <3>0, <3>2, <4>1
        <5> QED
          BY <3>a, <3>2, <4>1, <5>1
      <4>2. CASE i # k + 1
        <5>1. i <= k /\ i \in 0..N /\ i - 1 \in 0..N /\ i - 1 # k + 1
          BY <3>3, <4>2
        <5> QED
          BY <2>1, <3>2, <4>2, <5>1
      <4> QED
        BY <4>1, <4>2
    <3>4. P(k + 1, v)
      BY <3>2, <3>3
    <3> HIDE DEF v, P
    <3> QED
      BY <3>4
  <2> QED
    BY <2>2, <2>3
<1>3. N \in S
  <2> HIDE DEF S
  <2> QED
    BY <1>1, <1>2, Induct
<1>4. PICK w : P(N, w)
  BY <1>3
<1> QED
  BY <1>4

\* The powers of two are numbers, and each is twice the one before.
LEMMA PowerIs ==
  /\ Power \in [0..Width -> Nat \ {0}]
  /\ \A i \in 1..Width : Power[i] = 2 * Power[i - 1]
<1> DEFINE P(f) == f = [i \in 0..Width |-> IF i = 0 THEN 1 ELSE 2 * f[i - 1]]
           h == [x \in (0..Width) \X Int |-> 2 * x[2]]
<1>0. Width \in Nat \ {0}
  BY InputAssumption
<1>1. PICK w \in [0..Width -> Int] : w[0] = 1 /\ \A i \in 1..Width : w[i] = h[<<i, w[i - 1]>>]
  <2>1. h \in [(0..Width) \X Int -> Int]
    OBVIOUS
  <2>2. Width \in Nat /\ 1 \in Int
    BY <1>0
  <2> HIDE DEF h
  <2> QED
    BY <2>1, <2>2, Recursion, ZenonT(40)
<1>2. \A i \in 1..Width : w[i] = 2 * w[i - 1]
  <2> SUFFICES ASSUME NEW i \in 1..Width PROVE w[i] = 2 * w[i - 1]
    OBVIOUS
  <2>1. <<i, w[i - 1]>> \in (0..Width) \X Int
    BY <1>0, <1>1
  <2>2. h[<<i, w[i - 1]>>] = 2 * w[i - 1]
    BY <2>1
  <2> QED
    BY <1>1, <2>2
<1>3. P(w)
  BY <1>0, <1>1, <1>2
<1>4. P(Power)
  <2>1. Power = CHOOSE f : P(f)
    BY DEF Power
  <2> HIDE DEF P
  <2> QED
    BY <1>3, <2>1
<1>5. \A i \in 0..Width : Power[i] = IF i = 0 THEN 1 ELSE 2 * Power[i - 1]
  BY <1>4
<1>6. Power = [i \in 0..Width |-> Power[i]]
  BY <1>4
<1> DEFINE S == {k \in Nat : k <= Width => Power[k] \in Nat \ {0}}
<1>7. 0 \in S
  BY <1>0, <1>5
<1>8. ASSUME NEW k \in Nat, k \in S PROVE k + 1 \in S
  <2>1. CASE k + 1 <= Width
    <3>1. Power[k] \in Nat \ {0}
      BY <1>0, <1>8, <2>1
    <3>2. k + 1 \in 0..Width /\ k + 1 # 0 /\ (k + 1) - 1 = k
      BY <1>0, <2>1
    <3>3. Power[k + 1] = 2 * Power[k]
      BY <1>5, <3>2
    <3> QED
      BY <3>1, <3>3
  <2> QED
    BY <2>1
<1>9. \A k \in Nat : k \in S
  <2> HIDE DEF S
  <2> QED
    BY <1>7, <1>8, Induct
<1>10. \A k \in 0..Width : Power[k] \in Nat \ {0}
  BY <1>0, <1>9
<1>11. Power \in [0..Width -> Nat \ {0}]
  BY <1>6, <1>10
<1> QED
  BY <1>0, <1>5, <1>11, SMTT(40)

\* A long becomes an int.
LEMMA TruncateIs ==
  ASSUME NEW v \in Int
  PROVE  IntMin \in Int /\ IntMax \in Int /\ IntMin <= IntMax
         /\ Truncate(v) \in IntMin..IntMax
<1>1. Width \in Nat /\ Width >= 1
  BY InputAssumption
<1>2. PICK p \in Nat \ {0} : p = Power[Width - 1]
  BY <1>1, PowerIs
<1>3. Power[Width] = 2 * p
  BY <1>1, <1>2, PowerIs
<1>4. IntMin = -p /\ IntMax = p - 1
  BY <1>2 DEF IntMin, IntMax
<1>5. (v - IntMin) % (2 * p) \in 0..(2 * p)-1
  BY <1>2, <1>4
<1>6. Truncate(v) = ((v - IntMin) % (2 * p)) + IntMin
  BY <1>3 DEF Truncate
<1> QED
  BY <1>2, <1>4, <1>5, <1>6

\* So does a double.
LEMMA ToIntIs ==
  ASSUME NEW v \in Int
  PROVE  ToInt(v) \in Int
BY TruncateIs DEF ToInt

\* A bit is 0 or 1.
LEMMA BitIs ==
  ASSUME NEW v \in Int, NEW i \in 0..Width
  PROVE  Bit(v, i) \in 0..1
<1>1. PICK p \in Nat \ {0} : p = Power[i]
  BY PowerIs
<1>2. v \div p \in Int
  BY <1>1
<1>3. Bit(v, i) = (v \div p) % 2
  BY <1>1 DEF Bit
<1> QED
  BY <1>2, <1>3

\* What bit_operations() computes of any two longs is an int.
LEMMA BitOperationsIs ==
  ASSUME NEW op \in {"^", "&", "|"}, NEW left \in Int, NEW right \in Int
  PROVE  BitOperations(op, left, right) \in Int
<1> DEFINE B(i) == BitOf(op, Bit(ToInt(left), i), Bit(ToInt(right), i))
           P(f) == f = [n \in 0..Width |-> IF n = 0 THEN 0 ELSE f[n - 1] + Power[n - 1] * B(n - 1)]
           h == [x \in (0..Width) \X Int |-> x[2] + (IF x[1] = 0 THEN 0 ELSE Power[x[1] - 1] * B(x[1] - 1))]
<1>0. Width \in Nat /\ Width >= 1 /\ 0 \in Int
  BY InputAssumption
<1>1. ASSUME NEW i \in 0..Width PROVE B(i) \in Int
  <2>1. Bit(ToInt(left), i) \in 0..1 /\ Bit(ToInt(right), i) \in 0..1
    BY ToIntIs, BitIs
  <2> QED
    BY <2>1 DEF BitOf
<1>2. ASSUME NEW i \in 0..Width PROVE Power[i] * B(i) \in Int
  <2>1. Power[i] \in Int
    BY PowerIs
  <2> QED
    BY <1>1, <2>1
<1> HIDE DEF B
<1>3. h \in [(0..Width) \X Int -> Int]
  <2>1. ASSUME NEW x \in (0..Width) \X Int
        PROVE x[2] + (IF x[1] = 0 THEN 0 ELSE Power[x[1] - 1] * B(x[1] - 1)) \in Int
    <3>1. x[1] \in 0..Width /\ x[2] \in Int
      OBVIOUS
    <3>2. CASE x[1] = 0
      BY <3>1, <3>2
    <3>3. CASE x[1] # 0
      <4>1. x[1] - 1 \in 0..Width
        BY <1>0, <3>1, <3>3
      <4>2. PICK y \in Int : y = Power[x[1] - 1] * B(x[1] - 1)
        BY <4>1, <1>2
      <4> QED
        BY <3>1, <3>3, <4>2
    <3> QED
      BY <3>2, <3>3
  <2> QED
    BY <2>1
<1>4. PICK w \in [0..Width -> Int] : w[0] = 0 /\ \A i \in 1..Width : w[i] = h[<<i, w[i - 1]>>]
  <2> HIDE DEF h
  <2> QED
    BY <1>0, <1>3, Recursion, ZenonT(40)
<1>5. ASSUME NEW i \in 1..Width PROVE w[i] = w[i - 1] + Power[i - 1] * B(i - 1)
  <2>1. <<i, w[i - 1]>> \in (0..Width) \X Int
    BY <1>0, <1>4
  <2>2. i # 0
    BY <1>0
  <2>3. h[<<i, w[i - 1]>>] = w[i - 1] + Power[i - 1] * B(i - 1)
    BY <2>1, <2>2
  <2> QED
    BY <1>4, <2>3
<1> HIDE DEF h
<1>6. P(w)
  <2>1. ASSUME NEW i \in 0..Width
        PROVE  w[i] = IF i = 0 THEN 0 ELSE w[i - 1] + Power[i - 1] * B(i - 1)
    BY <1>0, <1>4, <1>5
  <2> QED
    BY <1>4, <2>1
<1> DEFINE u == CHOOSE f : P(f)
<1>7. P(u)
  <2> HIDE DEF P
  <2> QED
    BY <1>6
<1>8. u[0] = 0 /\ \A i \in 1..Width : u[i] = u[i - 1] + Power[i - 1] * B(i - 1)
  <2> HIDE DEF u
  <2> QED
    BY <1>0, <1>7
<1>9. BitOperations(op, left, right) = Truncate(u[Width])
  BY DEF BitOperations, B
<1> HIDE DEF u
<1> DEFINE S == {k \in Nat : k <= Width => u[k] \in Int}
<1>10. 0 \in S
  BY <1>8
<1>11. ASSUME NEW k \in Nat, k \in S PROVE k + 1 \in S
  <2>1. CASE k + 1 <= Width
    <3>1. k + 1 \in 1..Width /\ k \in 0..Width /\ (k + 1) - 1 = k
      BY <1>0, <2>1
    <3>2. u[k] \in Int /\ u[k + 1] = u[k] + Power[k] * B(k)
      BY <1>0, <1>8, <1>11, <3>1
    <3>3. u[k + 1] \in Int
      BY <1>2, <3>1, <3>2
    <3> QED
      BY <3>3
  <2> QED
    BY <2>1
<1>12. Width \in S
  <2> HIDE DEF S
  <2> QED
    BY <1>0, <1>10, <1>11, Induct
<1>13. u[Width] \in Int
  BY <1>0, <1>12
<1>14. Truncate(u[Width]) \in Int
  <2>1. \A v \in Int : Truncate(v) \in IntMin..IntMax /\ IntMin \in Int
    BY TruncateIs
  <2> QED
    BY <1>13, <2>1
<1> QED
  BY <1>9, <1>14

\* The division of C leaves less than the divisor, on the dividend's side of 0.
LEMMA DivideIs ==
  ASSUME NEW l \in Int, NEW r \in Int, r # 0
  PROVE  /\ Divide(l, r) \in -Abs(l)..Abs(l)
         /\ Abs(l - Divide(l, r) * r) < Abs(r)
         /\ (l - Divide(l, r) * r) * l >= 0
<1> DEFINE a == Abs(l) b == Abs(r) k == a \div b m == a % b
<1>1. a \in Nat /\ b \in Nat \ {0} /\ (a = l \/ a = -l) /\ (b = r \/ b = -r)
  BY DEF Abs
<1>2. k \in Nat /\ m \in 0..b-1 /\ a = (b * k) + m
  <2> HIDE DEF a, b
  <2>1. k \in Int /\ m \in 0..b-1 /\ a = (b * k) + m
    BY <1>1
  <2>2. k >= 0
    BY <1>1
  <2> QED
    BY <2>1, <2>2
<1>3. k <= a
  <2> HIDE DEF a, b, k, m
  <2>1. (b - 1) * k >= 0
    BY <1>1, <1>2
  <2>2. b * k = k + (b - 1) * k
    BY <1>1, <1>2
  <2> QED
    BY <1>1, <1>2, <2>1, <2>2
<1>4. Divide(l, r) = IF (l < 0) = (r < 0) THEN k ELSE -k
  BY DEF Divide
<1>5. l - Divide(l, r) * r = IF l < 0 THEN -m ELSE m
  <2>1. (l < 0 => a = -l) /\ (~(l < 0) => a = l) /\ (r < 0 => b = -r) /\ (~(r < 0) => b = r)
    BY DEF Abs
  <2> HIDE DEF a, b, k, m
  <2>2. CASE l < 0 /\ r < 0
    BY <1>2, <1>4, <2>1, <2>2
  <2>3. CASE l < 0 /\ ~(r < 0)
    BY <1>2, <1>4, <2>1, <2>3
  <2>4. CASE ~(l < 0) /\ r < 0
    BY <1>2, <1>4, <2>1, <2>4
  <2>5. CASE ~(l < 0) /\ ~(r < 0)
    BY <1>2, <1>4, <2>1, <2>5
  <2> QED
    BY <2>2, <2>3, <2>4, <2>5
<1>6. Divide(l, r) \in -a..a
  <2> HIDE DEF a, k
  <2> QED
    BY <1>1, <1>2, <1>3, <1>4
<1>7. Abs(l - Divide(l, r) * r) < b
  <2> HIDE DEF b, m
  <2> QED
    BY <1>1, <1>2, <1>5 DEF Abs
<1>8. (l - Divide(l, r) * r) * l >= 0
  <2> HIDE DEF m, b
  <2>1. CASE l < 0
    <3>1. (-m) * l = m * (-l) /\ m * (-l) >= 0
      BY <1>2, <1>1, <2>1
    <3> QED
      BY <1>5, <2>1, <3>1
  <2>2. CASE ~(l < 0)
    <3>1. m * l >= 0
      BY <1>2, <1>1, <2>2
    <3> QED
      BY <1>5, <2>2, <3>1
  <2> QED
    BY <2>1, <2>2
<1> QED
  BY <1>6, <1>7, <1>8

\* There is one number that does, so it is the quotient of the reference.
LEMMA QuotientIs ==
  ASSUME NEW l \in Int, NEW r \in Int, r # 0
  PROVE  Divide(l, r) = Quotient(l, r) /\ Divide(l, r) \in Int
<1> DEFINE Is(q) == Abs(l - q * r) < Abs(r) /\ (l - q * r) * l >= 0
           T == -Abs(l)..Abs(l)
           d == Divide(l, r)
<1>1. d \in T /\ Is(d)
  BY DivideIs
<1>2. ASSUME NEW q \in T, Is(q), NEW p \in T, Is(p), p < q PROVE FALSE
  <2>0. Abs(l) \in Nat /\ q \in Int /\ p \in Int
    BY DEF Abs
  <2> DEFINE x == l - p * r y == l - q * r
  <2>1. x \in Int /\ y \in Int
    BY <2>0
  <2>2. x - y = (q - p) * r
    BY <2>0
  <2>3. Abs((q - p) * r) >= Abs(r)
    <3>1. CASE r > 0
      <4>1. (q - p - 1) * r >= 0
        BY <1>2, <2>0, <3>1
      <4>2. (q - p) * r = r + (q - p - 1) * r
        BY <2>0
      <4> QED
        BY <2>0, <3>1, <4>1, <4>2 DEF Abs
    <3>2. CASE r < 0
      <4>1. (q - p - 1) * (-r) >= 0
        BY <1>2, <2>0, <3>2
      <4>2. (q - p) * r = r - (q - p - 1) * (-r)
        BY <2>0
      <4> QED
        BY <2>0, <3>2, <4>1, <4>2 DEF Abs
    <3> QED
      BY <3>1, <3>2
  <2>4. Abs(x) < Abs(r) /\ Abs(y) < Abs(r) /\ x * l >= 0 /\ y * l >= 0
    BY <1>2
  <2> HIDE DEF x, y
  <2>5. CASE l > 0
    <3>1. x >= 0 /\ y >= 0
      BY <2>1, <2>4, <2>5
    <3> QED
      BY <2>1, <2>2, <2>3, <2>4, <3>1 DEF Abs
  <2>6. CASE l < 0
    <3>1. x <= 0 /\ y <= 0
      BY <2>1, <2>4, <2>6
    <3> QED
      BY <2>1, <2>2, <2>3, <2>4, <3>1 DEF Abs
  <2>7. CASE l = 0
    <3>1. Abs(l) = 0
      BY <2>7 DEF Abs
    <3> QED
      BY <1>2, <3>1
  <2> QED
    BY <2>5, <2>6, <2>7
<1>3. \A q \in T : Is(q) => q = d
  <2> SUFFICES ASSUME NEW q \in T, Is(q), q # d PROVE FALSE
    OBVIOUS
  <2>1. q \in Int /\ d \in Int
    BY <1>1 DEF Abs
  <2>2. q < d \/ d < q
    BY <2>1
  <2> HIDE DEF Is, T, d
  <2> QED
    BY <1>1, <1>2, <2>2
<1>4. Quotient(l, r) = CHOOSE q \in T : Is(q)
  BY DEF Quotient
<1>5. d = CHOOSE q \in T : Is(q)
  <2> HIDE DEF Is, T, d
  <2> QED
    BY <1>1, <1>3
<1>6. d \in Int
  BY <1>1 DEF Abs
<1> QED
  BY <1>4, <1>5, <1>6

\* compute() has a value, but for a division by zero.
LEMMA ComputeIs ==
  ASSUME NEW op \in Operators, NEW l \in Int, NEW r \in Int, ~(op = "/" /\ r = 0)
  PROVE  Compute(op, l, r) \in Int
<1>1. CASE op = "/"
  BY <1>1, QuotientIs DEF Compute
<1>2. CASE op \in {"^", "&", "|"}
  BY <1>2, BitOperationsIs DEF Compute
<1>3. CASE op \in {"+", "-", "*", "&&", "||"}
  <2>1. l * r \in Int
    OBVIOUS
  <2> QED
    BY <1>3, <2>1 DEF Compute
<1> QED
  BY <1>1, <1>2, <1>3 DEF Operators, Sums, Products

----------------------------------------------------------------------------
(* The reference: what a span means, and that the recursive definition has *)
(* one solution                                                            *)

Base(s, lo, hi) == Binary(s, Operators, lo, hi)

\* How many tokens of a kind there are, one token at a time
LEMMA CountIs ==
  ASSUME NEW s, NEW kind, NEW lo \in Int, NEW hi \in Int
  PROVE  /\ Count(s, kind, lo, hi) \in Nat
         /\ hi < lo => Count(s, kind, lo, hi) = 0
         /\ hi >= lo => Count(s, kind, lo, hi)
                          = Count(s, kind, lo, hi - 1) + (IF s[hi].op = kind THEN 1 ELSE 0)
<1> DEFINE A == {j \in lo..hi : s[j].op = kind}
           B == {j \in lo..hi-1 : s[j].op = kind}
<1>1. IsFiniteSet(A) /\ IsFiniteSet(B)
  <2>1. IsFiniteSet(lo..hi) /\ IsFiniteSet(lo..hi-1)
    BY FS_Interval
  <2>2. A \subseteq lo..hi /\ B \subseteq lo..hi-1
    OBVIOUS
  <2> QED
    BY <2>1, <2>2, FS_Subset
<1>2. Cardinality(A) \in Nat /\ Cardinality(B) \in Nat
  BY <1>1, FS_CardinalityType
<1>3. hi < lo => Cardinality(A) = 0
  <2>1. hi < lo => A = {}
    OBVIOUS
  <2> HIDE DEF A
  <2> QED
    BY <2>1, FS_EmptySet
<1>4. ASSUME hi >= lo, s[hi].op = kind PROVE Cardinality(A) = Cardinality(B) + 1
  <2>1. A = B \union {hi} /\ hi \notin B
    BY <1>4
  <2> HIDE DEF A, B
  <2> QED
    BY <1>1, <2>1, FS_AddElement
<1>5. ASSUME hi >= lo, s[hi].op # kind PROVE Cardinality(A) = Cardinality(B)
  <2>1. A = B
    BY <1>5
  <2> HIDE DEF A, B
  <2> QED
    BY <2>1
<1>6. /\ Cardinality(A) \in Nat
      /\ hi < lo => Cardinality(A) = 0
      /\ hi >= lo => Cardinality(A) = Cardinality(B) + (IF s[hi].op = kind THEN 1 ELSE 0)
  <2> HIDE DEF A, B
  <2> QED
    BY <1>2, <1>3, <1>4, <1>5
<1>7. Count(s, kind, lo, hi) = Cardinality(A) /\ Count(s, kind, lo, hi - 1) = Cardinality(B)
  BY DEF Count
<1> QED
  BY <1>6, <1>7

\* What a token is
LEMMA TokenIs ==
  ASSUME NEW s \in Seq(Token), NEW i \in 1..Len(s)
  PROVE  /\ s[i] \in Token
         /\ s[i].op \in Operators \union {"(", ")", "bad", "num"}
         /\ s[i].op = "num" => s[i].nb \in Nat
<1>1. s[i] \in Token
  OBVIOUS
<1>2. ASSUME NEW t \in Token
      PROVE  /\ t.op \in Operators \union {"(", ")", "bad", "num"}
             /\ t.op = "num" => t.nb \in Nat
  BY InputAssumption DEF Token, Node, Operators, Sums, Products
<1> QED
  BY <1>1, <1>2

\* How many parentheses are open, one token at a time
LEMMA DepthIs ==
  ASSUME NEW s
  PROVE  /\ Depth(s, 0) = 0
         /\ \A i \in Int : Depth(s, i) \in Int
         /\ \A i \in Nat \ {0} :
              Depth(s, i) = Depth(s, i - 1) + (IF s[i].op = "(" THEN 1 ELSE IF s[i].op = ")" THEN -1 ELSE 0)
<1> DEFINE A(i) == Count(s, "(", 1, i)
           B(i) == Count(s, ")", 1, i)
<1>1. ASSUME NEW i \in Int
      PROVE  /\ A(i) \in Nat /\ B(i) \in Nat
             /\ i < 1 => A(i) = 0 /\ B(i) = 0
             /\ i >= 1 => A(i) = A(i - 1) + (IF s[i].op = "(" THEN 1 ELSE 0)
                          /\ B(i) = B(i - 1) + (IF s[i].op = ")" THEN 1 ELSE 0)
  BY CountIs
<1>2. \A i \in Int : Depth(s, i) = A(i) - B(i)
  BY DEF Depth
<1> HIDE DEF A, B
<1>3. Depth(s, 0) = 0
  BY <1>1, <1>2
<1>4. \A i \in Int : Depth(s, i) \in Int
  BY <1>1, <1>2
<1>5. ASSUME NEW i \in Nat \ {0}
      PROVE Depth(s, i) = Depth(s, i - 1) + (IF s[i].op = "(" THEN 1 ELSE IF s[i].op = ")" THEN -1 ELSE 0)
  <2>1. i \in Int /\ i - 1 \in Int /\ i >= 1
    OBVIOUS
  <2>2. Depth(s, i) = A(i) - B(i) /\ Depth(s, i - 1) = A(i - 1) - B(i - 1)
    BY <1>2, <2>1
  <2>3. /\ A(i - 1) \in Nat /\ B(i - 1) \in Nat
        /\ A(i) = A(i - 1) + (IF s[i].op = "(" THEN 1 ELSE 0)
        /\ B(i) = B(i - 1) + (IF s[i].op = ")" THEN 1 ELSE 0)
    BY <1>1, <2>1
  <2> QED
    BY <2>2, <2>3
<1> QED
  BY <1>3, <1>4, <1>5

\* The precedence of an operator is that of the set it is in.
LEMMA PrecIs ==
  ASSUME NEW op \in Operators
  PROVE  /\ Prec(op) \in 1..2 /\ op # "(" /\ op # ")" /\ op # "num" /\ op # "bad"
         /\ Prec(op) = 1 <=> op \in Sums
         /\ Prec(op) = 2 <=> op \in Products
BY DEF Prec, Operators, Sums, Products

\* What the last of the weakest operators is
LEMMA SplitIs ==
  ASSUME NEW s, NEW lo \in Int, NEW hi \in Int, Base(s, lo, hi) # {}
  PROVE  /\ Split(s, lo, hi) \in Base(s, lo, hi)
         /\ \A i \in Base(s, lo, hi) :
              \/ Prec(s[Split(s, lo, hi)].op) < Prec(s[i].op)
              \/ Prec(s[Split(s, lo, hi)].op) = Prec(s[i].op) /\ i <= Split(s, lo, hi)
<1> DEFINE sums == Binary(s, Sums, lo, hi) prods == Binary(s, Products, lo, hi)
           at == Split(s, lo, hi)
<1>1. Base(s, lo, hi) = sums \union prods /\ sums \subseteq lo+1..hi-1 /\ prods \subseteq lo+1..hi-1
  BY DEF Base, Binary, Operators
<1>2. \A i \in sums : s[i].op \in Sums /\ s[i].op \in Operators
  BY DEF Binary, Operators
<1>3. \A i \in prods : s[i].op \in Products /\ s[i].op \in Operators
  BY DEF Binary, Operators
<1>4. at = Max(IF sums # {} THEN sums ELSE prods)
  BY DEF Split
<1> HIDE DEF sums, prods, at
<1>5. CASE sums # {}
  <2>0. at = Max(sums) /\ lo + 1 \in Int /\ hi - 1 \in Int
    BY <1>4, <1>5
  <2>1. at \in sums /\ \A y \in sums : y <= at
    BY <1>1, <1>5, <2>0, MaxIs
  <2>2. \A i \in sums : Prec(s[i].op) = 1
    BY <1>2, PrecIs
  <2>3. \A i \in prods : Prec(s[i].op) = 2
    BY <1>3, PrecIs
  <2>4. ASSUME NEW i \in Base(s, lo, hi)
        PROVE  Prec(s[at].op) < Prec(s[i].op) \/ (Prec(s[at].op) = Prec(s[i].op) /\ i <= at)
    <3>1. Prec(s[at].op) = 1
      BY <2>1, <2>2
    <3>2. CASE i \in sums
      BY <2>1, <2>2, <3>1, <3>2
    <3>3. CASE i \in prods
      <4>1. Prec(s[i].op) = 2
        BY <2>3, <3>3
      <4> QED
        BY <3>1, <4>1
    <3> QED
      BY <1>1, <3>2, <3>3
  <2> QED
    BY <1>1, <2>1, <2>4 DEF at
<1>6. CASE sums = {}
  <2>0. at = Max(prods) /\ lo + 1 \in Int /\ hi - 1 \in Int
    BY <1>4, <1>6
  <2>a. prods # {}
    BY <1>1, <1>6
  <2>1. at \in prods /\ \A y \in prods : y <= at
    BY <1>1, <2>0, <2>a, MaxIs
  <2>2. \A i \in prods : Prec(s[i].op) = 2
    BY <1>3, PrecIs
  <2>3. ASSUME NEW i \in Base(s, lo, hi)
        PROVE  Prec(s[at].op) < Prec(s[i].op) \/ (Prec(s[at].op) = Prec(s[i].op) /\ i <= at)
    BY <1>1, <1>6, <2>1, <2>2
  <2> QED
    BY <1>1, <2>1, <2>3 DEF at
<1> QED
  BY <1>5, <1>6

\* There is one such.
LEMMA SplitOnly ==
  ASSUME NEW s, NEW lo \in Int, NEW hi \in Int, NEW c \in Base(s, lo, hi),
         \A i \in Base(s, lo, hi) :
           Prec(s[c].op) < Prec(s[i].op) \/ (Prec(s[c].op) = Prec(s[i].op) /\ i <= c)
  PROVE  Split(s, lo, hi) = c
<1> DEFINE at == Split(s, lo, hi)
<1>1. /\ at \in Base(s, lo, hi)
      /\ \A i \in Base(s, lo, hi) :
           Prec(s[at].op) < Prec(s[i].op) \/ (Prec(s[at].op) = Prec(s[i].op) /\ i <= at)
  BY SplitIs
<1>2. s[c].op \in Operators /\ s[at].op \in Operators /\ c \in Int /\ at \in Int
  BY <1>1 DEF Base, Binary
<1>3. Prec(s[c].op) \in 1..2 /\ Prec(s[at].op) \in 1..2
  BY <1>2, PrecIs
<1> HIDE DEF at
<1>4. at = c
  BY <1>1, <1>2, <1>3
<1> QED
  BY <1>4 DEF at

\* A reading only looks at shorter spans.
LEMMA ReadingSame ==
  ASSUME NEW s \in Seq(Token), NEW f, NEW g, NEW lo \in 1..Len(s)+1, NEW hi \in 0..Len(s),
         \A l \in 1..Len(s)+1, h \in 0..Len(s) : h - l < hi - lo => f[<<l, h>>] = g[<<l, h>>]
  PROVE  PlainReading(s, f, lo, hi) = PlainReading(s, g, lo, hi)
<1>0. Len(s) \in Nat /\ lo \in Int /\ hi \in Int
  OBVIOUS
<1>1. CASE Signed(s, lo, hi)
  BY <1>1 DEF PlainReading
<1>2. CASE ~Signed(s, lo, hi) /\ Enclosed(s, lo, hi)
  <2>1. lo + 1 < hi
    BY <1>2 DEF Enclosed
  <2>2. lo + 1 \in 1..Len(s)+1 /\ hi - 1 \in 0..Len(s) /\ (hi - 1) - (lo + 1) < hi - lo
    BY <1>0, <2>1
  <2>3. f[<<lo + 1, hi - 1>>] = g[<<lo + 1, hi - 1>>]
    BY <2>2
  <2> QED
    BY <1>2, <2>3 DEF PlainReading
<1>3. CASE ~Signed(s, lo, hi) /\ ~Enclosed(s, lo, hi) /\ Base(s, lo, hi) = {}
  BY <1>3 DEF PlainReading, Base
<1>4. CASE ~Signed(s, lo, hi) /\ ~Enclosed(s, lo, hi) /\ Base(s, lo, hi) # {}
  <2> DEFINE at == Split(s, lo, hi)
  <2>1. at \in lo+1..hi-1
    <3>1. at \in Base(s, lo, hi)
      BY <1>0, <1>4, SplitIs
    <3> QED
      BY <3>1 DEF Base, Binary
  <2>2. PlainReading(s, f, lo, hi) = Apply(s[at].op, f[<<lo, at - 1>>], f[<<at + 1, hi>>])
    BY <1>4 DEF PlainReading, Base
  <2>3. PlainReading(s, g, lo, hi) = Apply(s[at].op, g[<<lo, at - 1>>], g[<<at + 1, hi>>])
    BY <1>4 DEF PlainReading, Base
  <2> HIDE DEF at
  <2>4. at - 1 \in 0..Len(s) /\ at + 1 \in 1..Len(s)+1 /\ (at - 1) - lo < hi - lo /\ hi - (at + 1) < hi - lo
    BY <1>0, <2>1
  <2>5. f[<<lo, at - 1>>] = g[<<lo, at - 1>>] /\ f[<<at + 1, hi>>] = g[<<at + 1, hi>>]
    BY <2>4
  <2> QED
    BY <2>2, <2>3, <2>5
<1> QED
  BY <1>1, <1>2, <1>3, <1>4

\* Nothing has no meaning.
LEMMA ReadingEmpty ==
  ASSUME NEW s, NEW f, NEW lo \in Int, NEW hi \in Int, hi < lo
  PROVE  PlainReading(s, f, lo, hi) = NoSense
<1>1. ~Signed(s, lo, hi) /\ ~Enclosed(s, lo, hi)
  BY DEF Signed, Enclosed
<1>2. Binary(s, Operators, lo, hi) = {}
  <2>1. lo+1..hi-1 = {}
    OBVIOUS
  <2> QED
    BY <2>1 DEF Binary
<1> QED
  BY <1>1, <1>2 DEF PlainReading

Reads0(s, m) ==
  \A lo \in 1..Len(s)+1, hi \in 0..Len(s) : m[<<lo, hi>>] = PlainReading(s, m, lo, hi)

\* The recursive definition has a solution.
LEMMA MeaningsAre ==
  ASSUME NEW s \in Seq(Token)
  PROVE  Reads0(s, PlainMeanings(s))
<1> DEFINE n == Len(s)
           Q(k, g) == \A lo \in 1..n+1, hi \in 0..n :
                        hi - lo + 1 <= k => g[<<lo, hi>>] = PlainReading(s, g, lo, hi)
           S == {k \in Nat : \E g : Q(k, g)}
<1>0. n \in Nat
  OBVIOUS
<1> HIDE DEF n
<1>1. 0 \in S
  <2> DEFINE g == [span \in (1..n+1) \X (0..n) |-> NoSense]
  <2>1. ASSUME NEW lo \in 1..n+1, NEW hi \in 0..n, hi - lo + 1 <= 0
        PROVE  g[<<lo, hi>>] = PlainReading(s, g, lo, hi)
    <3>1. g[<<lo, hi>>] = NoSense
      OBVIOUS
    <3> HIDE DEF g
    <3> QED
      BY <1>0, <2>1, <3>1, ReadingEmpty
  <2>2. Q(0, g)
    BY <2>1
  <2> HIDE DEF g, Q
  <2> QED
    BY <2>2
<1>2. ASSUME NEW k \in Nat, k \in S PROVE k + 1 \in S
  <2>1. PICK g : Q(k, g)
    BY <1>2
  <2> DEFINE f == [span \in (1..n+1) \X (0..n) |->
                     IF span[2] - span[1] + 1 <= k THEN g[span] ELSE PlainReading(s, g, span[1], span[2])]
  <2>2. ASSUME NEW lo \in 1..n+1, NEW hi \in 0..n
        PROVE  /\ hi - lo + 1 <= k => f[<<lo, hi>>] = g[<<lo, hi>>]
               /\ ~(hi - lo + 1 <= k) => f[<<lo, hi>>] = PlainReading(s, g, lo, hi)
    OBVIOUS
  <2> HIDE DEF f
  <2>3. ASSUME NEW lo \in 1..n+1, NEW hi \in 0..n, hi - lo + 1 <= k + 1
        PROVE  f[<<lo, hi>>] = PlainReading(s, f, lo, hi)
    <3>1. ASSUME NEW l \in 1..n+1, NEW h \in 0..n, h - l < hi - lo
          PROVE  g[<<l, h>>] = f[<<l, h>>]
      <4>1. h - l + 1 <= k
        BY <1>0, <2>3, <3>1
      <4> QED
        BY <2>2, <4>1
    <3>2. PlainReading(s, g, lo, hi) = PlainReading(s, f, lo, hi)
      BY <3>1, ReadingSame DEF n
    <3>3. f[<<lo, hi>>] = PlainReading(s, g, lo, hi)
      <4>1. CASE hi - lo + 1 <= k
        BY <2>1, <2>2, <4>1
      <4>2. CASE ~(hi - lo + 1 <= k)
        BY <2>2, <4>2
      <4> QED
        BY <4>1, <4>2
    <3> QED
      BY <3>2, <3>3
  <2>4. Q(k + 1, f)
    BY <2>3
  <2> HIDE DEF Q
  <2> QED
    BY <2>4
<1>3. n + 1 \in S
  <2> HIDE DEF S
  <2> QED
    BY <1>0, <1>1, <1>2, Induct
<1>4. PICK g : Q(n + 1, g)
  BY <1>3
<1> DEFINE P(f) == f = [span \in Spans(s) |-> PlainReading(s, f, span[1], span[2])]
           f == [span \in Spans(s) |-> g[span]]
<1>5. \A lo \in 1..n+1, hi \in 0..n : f[<<lo, hi>>] = g[<<lo, hi>>]
  BY DEF Spans, n
<1> HIDE DEF f
<1>6. ASSUME NEW lo \in 1..n+1, NEW hi \in 0..n
      PROVE  f[<<lo, hi>>] = PlainReading(s, f, lo, hi)
  <2>1. PlainReading(s, g, lo, hi) = PlainReading(s, f, lo, hi)
    BY <1>5, ReadingSame DEF n
  <2>2. hi - lo + 1 <= n + 1
    BY <1>0
  <2> QED
    BY <1>4, <1>5, <2>1, <2>2
<1>7. P(f)
  <2>1. ASSUME NEW x \in Spans(s) PROVE f[x] = PlainReading(s, f, x[1], x[2])
    <3>1. x = <<x[1], x[2]>> /\ x[1] \in 1..n+1 /\ x[2] \in 0..n
      BY DEF Spans, n
    <3>2. f[<<x[1], x[2]>>] = PlainReading(s, f, x[1], x[2])
      BY <1>6, <3>1
    <3> QED
      BY <3>1, <3>2
  <2>2. f = [x \in Spans(s) |-> f[x]]
    BY DEF f
  <2> QED
    BY <2>1, <2>2
<1>8. PlainMeanings(s) = CHOOSE h : P(h)
  BY DEF PlainMeanings
<1>9. P(PlainMeanings(s))
  <2> HIDE DEF P
  <2> QED
    BY <1>7, <1>8
<1>10. ASSUME NEW lo \in 1..Len(s)+1, NEW hi \in 0..Len(s)
       PROVE  PlainMeanings(s)[<<lo, hi>>] = PlainReading(s, PlainMeanings(s), lo, hi)
  <2> DEFINE m == PlainMeanings(s)
  <2>1. m = [span \in Spans(s) |-> PlainReading(s, m, span[1], span[2])]
    BY <1>9
  <2>2. <<lo, hi>> \in Spans(s) /\ <<lo, hi>>[1] = lo /\ <<lo, hi>>[2] = hi
    BY DEF Spans
  <2> HIDE DEF m
  <2>3. m[<<lo, hi>>] = PlainReading(s, m, lo, hi)
    BY <2>1, <2>2
  <2> QED
    BY <2>3 DEF m
<1> QED
  BY <1>10 DEF Reads0

\* An operand ends with token i.
Closes(s, i) == i > 0 /\ s[i].op \in Ends

\* What the tokens of a span with a meaning are like
WellFormed(s, lo, hi) ==
  /\ lo <= hi /\ s[hi].op \in Ends
  /\ s[lo].op \in Signs \union {"num", "("}
  /\ \A i \in lo..hi : s[i].op # "bad"
  /\ \A i \in lo..hi-1 :
       /\ s[i].op \in Ends => s[i + 1].op \in Operators \union {")"}
       /\ s[i].op \notin Ends => s[i + 1].op \in Signs \union {"num", "("}
       /\ s[i].op \in Signs /\ ~Closes(s, i - 1) => s[i + 1].op \in Signs \union {"num"}
  /\ \A i \in lo-1..hi : Depth(s, i) >= Depth(s, lo - 1)
  /\ Depth(s, hi) = Depth(s, lo - 1)

MeaningSet == {NoValue, NoSense} \union {Just(v) : v \in Int}

\* Signs and a number open and close nothing.
LEMMA FlatDepth ==
  ASSUME NEW s \in Seq(Token), NEW lo \in Nat \ {0}, NEW hi \in Nat,
         \A i \in lo..hi : s[i].op \notin {"(", ")"}
  PROVE  \A i \in lo-1..hi : Depth(s, i) = Depth(s, lo - 1)
<1> DEFINE S == {k \in Nat : lo - 1 + k <= hi => Depth(s, lo - 1 + k) = Depth(s, lo - 1)}
<1>1. 0 \in S
  OBVIOUS
<1>2. ASSUME NEW k \in Nat, k \in S PROVE k + 1 \in S
  <2>1. CASE lo + k <= hi
    <3>1. lo + k \in Nat \ {0} /\ lo + k \in lo..hi /\ (lo + k) - 1 = lo - 1 + k /\ lo - 1 + k + 1 = lo + k
      BY <2>1
    <3>2. Depth(s, lo + k) = Depth(s, (lo + k) - 1) + 0
      BY <3>1, DepthIs
    <3>3. Depth(s, lo - 1 + k) = Depth(s, lo - 1)
      BY <1>2, <3>1
    <3>4. lo - 1 \in Int
      OBVIOUS
    <3>5. Depth(s, lo - 1) \in Int
      BY <3>4, DepthIs
    <3>6. Depth(s, lo + k) = Depth(s, lo - 1)
      BY <3>1, <3>2, <3>3, <3>5
    <3> QED
      BY <3>1, <3>6
  <2> QED
    BY <2>1
<1>3. \A k \in Nat : k \in S
  <2> HIDE DEF S
  <2> QED
    BY <1>1, <1>2, Induct
<1>4. ASSUME NEW i \in lo-1..hi PROVE Depth(s, i) = Depth(s, lo - 1)
  <2>1. i - (lo - 1) \in Nat /\ lo - 1 + (i - (lo - 1)) = i
    OBVIOUS
  <2> DEFINE k == i - (lo - 1)
  <2>2. k \in Nat /\ lo - 1 + k = i /\ k \in S
    BY <1>3, <2>1
  <2> QED
    BY <2>2
<1> QED
  BY <1>4

\* Signs and a number are well formed.
LEMMA SignedFormed ==
  ASSUME NEW s \in Seq(Token), NEW lo \in 1..Len(s)+1, NEW hi \in 0..Len(s),
         Signed(s, lo, hi), ~Closes(s, lo - 1)
  PROVE  WellFormed(s, lo, hi) /\ Base(s, lo, hi) = {}
<1>0. Len(s) \in Nat /\ lo \in Nat \ {0} /\ hi \in Nat
  OBVIOUS
<1>1. lo <= hi /\ s[hi].op = "num" /\ \A i \in lo..hi-1 : s[i].op \in Signs
  BY DEF Signed
<1>2. \A i \in lo..hi : s[i].op \in Signs \union {"num"}
  BY <1>0, <1>1
<1>3. \A i \in lo..hi : s[i].op \notin {"(", ")", "bad"}
  BY <1>2 DEF Signs
<1>4. \A i \in lo-1..hi : Depth(s, i) = Depth(s, lo - 1)
  BY <1>0, <1>3, FlatDepth
<1>5. Depth(s, lo - 1) \in Int
  <2>1. lo - 1 \in Int
    OBVIOUS
  <2> QED
    BY <2>1, DepthIs
<1>6. \A i \in lo..hi-1 : s[i].op \notin Ends /\ s[i + 1].op \in Signs \union {"num"}
  <2> SUFFICES ASSUME NEW i \in lo..hi-1 PROVE s[i].op \notin Ends /\ s[i + 1].op \in Signs \union {"num"}
    OBVIOUS
  <2>1. i + 1 \in lo..hi
    BY <1>0
  <2> QED
    BY <1>1, <1>2, <2>1 DEF Ends, Signs
<1>7. s[lo].op \in Signs \union {"num"} /\ s[hi].op \in Ends
  BY <1>0, <1>1, <1>2 DEF Ends
<1>8. WellFormed(s, lo, hi)
  BY <1>0, <1>1, <1>3, <1>4, <1>5, <1>6, <1>7, SMTT(40) DEF WellFormed
<1>9. Base(s, lo, hi) = {}
  <2>1. ASSUME NEW i \in Base(s, lo, hi) PROVE FALSE
    <3>1. i \in lo+1..hi-1 /\ s[i - 1].op \in Ends
      BY DEF Base, Binary
    <3>2. i - 1 \in lo..hi-1
      BY <1>0, <3>1
    <3> QED
      BY <1>6, <3>1, <3>2
  <2> QED
    BY <2>1
<1> QED
  BY <1>8, <1>9

\* So is what is well formed with parentheses around it.
LEMMA EnclosedFormed ==
  ASSUME NEW s \in Seq(Token), NEW lo \in 1..Len(s)+1, NEW hi \in 0..Len(s),
         Enclosed(s, lo, hi), WellFormed(s, lo + 1, hi - 1)
  PROVE  WellFormed(s, lo, hi) /\ Base(s, lo, hi) = {}
<1>0. Len(s) \in Nat /\ lo \in Nat \ {0} /\ hi \in Nat
  OBVIOUS
<1>1. /\ lo + 1 < hi /\ s[lo].op = "(" /\ s[hi].op = ")"
      /\ \A i \in lo..hi-1 : Depth(s, i) > Depth(s, lo - 1)
  BY DEF Enclosed
<1>2. /\ lo + 1 <= hi - 1 /\ s[hi - 1].op \in Ends
      /\ s[lo + 1].op \in Signs \union {"num", "("}
      /\ \A i \in lo+1..hi-1 : s[i].op # "bad"
      /\ Depth(s, hi - 1) = Depth(s, lo)
  BY <1>0 DEF WellFormed
<1>3. \A i \in lo+1..hi-2 :
       /\ s[i].op \in Ends => s[i + 1].op \in Operators \union {")"}
       /\ s[i].op \notin Ends => s[i + 1].op \in Signs \union {"num", "("}
       /\ s[i].op \in Signs /\ ~Closes(s, i - 1) => s[i + 1].op \in Signs \union {"num"}
  BY <1>0 DEF WellFormed
<1>4. ASSUME NEW i \in lo..hi-1
      PROVE  /\ s[i].op \in Ends => s[i + 1].op \in Operators \union {")"}
             /\ s[i].op \notin Ends => s[i + 1].op \in Signs \union {"num", "("}
             /\ s[i].op \in Signs /\ ~Closes(s, i - 1) => s[i + 1].op \in Signs \union {"num"}
  <2>1. CASE i = lo
    BY <1>1, <1>2, <2>1 DEF Ends, Signs
  <2>2. CASE i = hi - 1
    <3>1. i + 1 = hi
      BY <1>0, <2>2
    <3> QED
      BY <1>1, <1>2, <2>2, <3>1 DEF Ends, Signs
  <2>3. CASE i \in lo+1..hi-2
    BY <1>3, <2>3
  <2> QED
    BY <1>0, <2>1, <2>2, <2>3
<1>5. Depth(s, lo - 1) \in Int /\ Depth(s, hi - 1) \in Int /\ Depth(s, lo) \in Int
      /\ \A i \in lo..hi-1 : Depth(s, i) \in Int
  <2>1. lo - 1 \in Int /\ hi - 1 \in Int /\ lo \in Int /\ lo..hi-1 \subseteq Int
    BY <1>0
  <2>2. \A i \in Int : Depth(s, i) \in Int
    BY DepthIs
  <2> QED
    BY <2>1, <2>2
<1>6. Depth(s, lo) = Depth(s, lo - 1) + 1
  BY <1>0, <1>1, <1>5, DepthIs
<1>7. Depth(s, hi) = Depth(s, hi - 1) - 1
  <2>1. hi \in Nat \ {0}
    BY <1>0, <1>1
  <2>2. Depth(s, hi) = Depth(s, hi - 1) + (-1)
    BY <1>1, <2>1, DepthIs
  <2> QED
    BY <1>5, <2>2
<1>8. Depth(s, hi) = Depth(s, lo - 1)
  BY <1>2, <1>5, <1>6, <1>7
<1>9. \A i \in lo-1..hi : Depth(s, i) >= Depth(s, lo - 1)
  <2> SUFFICES ASSUME NEW i \in lo-1..hi PROVE Depth(s, i) >= Depth(s, lo - 1)
    OBVIOUS
  <2>1. i = lo - 1 \/ i = hi \/ i \in lo..hi-1
    BY <1>0
  <2> QED
    BY <1>1, <1>5, <1>8, <2>1
<1>10. \A i \in lo..hi : s[i].op # "bad"
  <2> SUFFICES ASSUME NEW i \in lo..hi PROVE s[i].op # "bad"
    OBVIOUS
  <2>1. i = lo \/ i = hi \/ i \in lo+1..hi-1
    BY <1>0
  <2> QED
    BY <1>1, <1>2, <2>1
<1>11. WellFormed(s, lo, hi)
  <2>1. lo <= hi /\ s[hi].op \in Ends /\ s[lo].op \in Signs \union {"num", "("}
    BY <1>0, <1>1 DEF Ends
  <2> QED
    BY <1>4, <1>8, <1>9, <1>10, <2>1 DEF WellFormed
<1>12. Base(s, lo, hi) = {}
  <2>1. ASSUME NEW i \in Base(s, lo, hi) PROVE FALSE
    <3>1. i \in lo+1..hi-1 /\ Depth(s, i) = Depth(s, lo - 1)
      BY DEF Base, Binary
    <3> QED
      BY <1>0, <1>1, <1>5, <3>1
  <2> QED
    BY <2>1
<1> QED
  BY <1>11, <1>12

\* Two operands around an operator
LEMMA JoinedFormed ==
  ASSUME NEW s \in Seq(Token), NEW lo \in 1..Len(s)+1, NEW hi \in 0..Len(s),
         NEW c \in lo+1..hi-1, s[c].op \in Operators,
         WellFormed(s, lo, c - 1), WellFormed(s, c + 1, hi)
  PROVE  /\ WellFormed(s, lo, hi)
         /\ c \in Base(s, lo, hi) /\ Depth(s, c) = Depth(s, lo - 1)
         /\ \A i \in Base(s, lo, hi) : i = c \/ i \in Base(s, lo, c - 1) \/ i \in Base(s, c + 1, hi)
<1>0. Len(s) \in Nat /\ lo \in Nat \ {0} /\ hi \in Nat /\ c \in Nat \ {0}
  OBVIOUS
<1>1. /\ lo <= c - 1 /\ s[c - 1].op \in Ends /\ s[lo].op \in Signs \union {"num", "("}
      /\ \A i \in lo..c-1 : s[i].op # "bad"
      /\ \A i \in lo-1..c-1 : Depth(s, i) >= Depth(s, lo - 1)
      /\ Depth(s, c - 1) = Depth(s, lo - 1)
  BY DEF WellFormed
<1>2. /\ c + 1 <= hi /\ s[hi].op \in Ends /\ s[c + 1].op \in Signs \union {"num", "("}
      /\ \A i \in c+1..hi : s[i].op # "bad"
      /\ \A i \in c..hi : Depth(s, i) >= Depth(s, c)
      /\ Depth(s, hi) = Depth(s, c)
  BY <1>0 DEF WellFormed
<1>3. s[c].op \notin Ends /\ s[c].op # "bad" /\ s[c].op # "(" /\ s[c].op # ")"
  BY DEF Operators, Sums, Products, Ends
<1>4. \A i \in lo-1..hi : Depth(s, i) \in Int
  BY <1>0, DepthIs
<1>5. Depth(s, c) = Depth(s, lo - 1)
  <2>1. Depth(s, c) = Depth(s, c - 1) + 0
    BY <1>0, <1>3, DepthIs
  <2>2. c - 1 \in lo-1..hi
    BY <1>0
  <2> QED
    BY <1>1, <1>4, <2>1, <2>2
<1>6. \A i \in lo-1..hi : Depth(s, i) >= Depth(s, lo - 1)
  <2> SUFFICES ASSUME NEW i \in lo-1..hi PROVE Depth(s, i) >= Depth(s, lo - 1)
    OBVIOUS
  <2>1. i \in lo-1..c-1 \/ i \in c..hi
    BY <1>0
  <2> QED
    BY <1>1, <1>2, <1>5, <2>1
<1>7. \A i \in lo..hi : s[i].op # "bad"
  <2> SUFFICES ASSUME NEW i \in lo..hi PROVE s[i].op # "bad"
    OBVIOUS
  <2>1. i \in lo..c-1 \/ i = c \/ i \in c+1..hi
    BY <1>0
  <2> QED
    BY <1>1, <1>2, <1>3, <2>1
<1>8. ASSUME NEW i \in lo..hi-1
      PROVE  /\ s[i].op \in Ends => s[i + 1].op \in Operators \union {")"}
             /\ s[i].op \notin Ends => s[i + 1].op \in Signs \union {"num", "("}
             /\ s[i].op \in Signs /\ ~Closes(s, i - 1) => s[i + 1].op \in Signs \union {"num"}
  <2>1. CASE i = c
    <3>1. Closes(s, i - 1)
      BY <1>0, <1>1, <2>1 DEF Closes
    <3> QED
      BY <1>2, <1>3, <2>1, <3>1
  <2>2. CASE i = c - 1
    <3>1. i + 1 = c
      BY <1>0, <2>2
    <3> QED
      BY <1>1, <2>2, <3>1 DEF Ends, Signs
  <2>3. CASE i \in lo..c-2
    <3>1. i \in lo..(c-1)-1
      BY <1>0, <2>3
    <3> QED
      BY <3>1 DEF WellFormed
  <2>4. CASE i \in c+1..hi-1
    BY <2>4 DEF WellFormed
  <2>5. i = c \/ i = c - 1 \/ i \in lo..c-2 \/ i \in c+1..hi-1
    BY <1>0
  <2> QED
    BY <2>1, <2>2, <2>3, <2>4, <2>5
<1>9. WellFormed(s, lo, hi)
  BY <1>0, <1>1, <1>2, <1>5, <1>6, <1>7, <1>8 DEF WellFormed
<1>10. c \in Base(s, lo, hi)
  BY <1>0, <1>1, <1>5 DEF Base, Binary
<1>11. ASSUME NEW i \in Base(s, lo, hi), i # c, i \notin Base(s, lo, c - 1), i \notin Base(s, c + 1, hi)
       PROVE  FALSE
  <2>1. i \in lo+1..hi-1 /\ s[i].op \in Operators /\ s[i - 1].op \in Ends /\ Depth(s, i) = Depth(s, lo - 1)
    BY DEF Base, Binary
  <2>2. s[i].op \notin Ends
    BY <2>1 DEF Operators, Sums, Products, Ends
  <2>3. i # c - 1 /\ i # c + 1
    <3>1. i = c + 1 => i - 1 = c
      BY <1>0
    <3> QED
      BY <1>1, <1>3, <2>1, <2>2, <3>1
  <2>4. i \in lo+1..(c-1)-1 \/ i \in (c+1)+1..hi-1
    BY <1>0, <1>11, <2>1, <2>3
  <2>5. (c + 1) - 1 = c
    BY <1>0
  <2> QED
    BY <1>5, <1>11, <2>1, <2>4, <2>5 DEF Base, Binary
<1> QED
  BY <1>5, <1>9, <1>10, <1>11

\* A meaning is one of three kinds.
LEMMA MeaningSetIs ==
  /\ NoValue \in MeaningSet /\ NoSense \in MeaningSet
  /\ NoValue.how = "divides" /\ NoSense.how = "bad"
  /\ \A v \in Int : Just(v) \in MeaningSet /\ Just(v).how = "value" /\ Just(v).value = v
  /\ \A x \in MeaningSet : /\ x.how \in {"value", "divides", "bad"}
                           /\ x.how = "value" => x.value \in Int /\ x = Just(x.value)
                           /\ x.how = "divides" => x = NoValue
                           /\ x.how = "bad" => x = NoSense
<1>1. NoValue.how = "divides" /\ NoSense.how = "bad"
  BY DEF NoValue, NoSense
<1>2. \A v \in Int : Just(v).how = "value" /\ Just(v).value = v
  BY DEF Just
<1>3. NoValue \in MeaningSet /\ NoSense \in MeaningSet /\ \A v \in Int : Just(v) \in MeaningSet
  BY DEF MeaningSet
<1>4. \A x \in MeaningSet : x = NoValue \/ x = NoSense \/ \E v \in Int : x = Just(v)
  BY DEF MeaningSet
<1> QED
  BY <1>1, <1>2, <1>3, <1>4

\* What is applied to two meanings is a meaning.
LEMMA ApplyIs ==
  ASSUME NEW op \in Operators, NEW l \in MeaningSet, NEW r \in MeaningSet
  PROVE  /\ Apply(op, l, r) \in MeaningSet
         /\ Apply(op, l, r).how # "bad" => l.how # "bad" /\ r.how # "bad"
         /\ l.how # "bad" /\ r.how # "bad" /\ (l = NoValue \/ r = NoValue) => Apply(op, l, r) = NoValue
         /\ l.how = "value" /\ r.how = "value" =>
              Apply(op, l, r) = IF op = "/" /\ r.value = 0 THEN NoValue ELSE Just(Compute(op, l.value, r.value))
<1>1. CASE l.how = "bad" \/ r.how = "bad"
  <2>1. Apply(op, l, r) = NoSense
    BY <1>1 DEF Apply
  <2> QED
    BY <1>1, <2>1, MeaningSetIs
<1>2. CASE l.how # "bad" /\ r.how # "bad" /\ (l.how = "divides" \/ r.how = "divides")
  <2>1. Apply(op, l, r) = NoValue
    BY <1>2 DEF Apply
  <2> QED
    BY <1>2, <2>1, MeaningSetIs
<1>3. CASE l.how = "value" /\ r.how = "value"
  <2>1. l.value \in Int /\ r.value \in Int /\ l # NoValue /\ r # NoValue
    BY <1>3, MeaningSetIs
  <2>2. CASE op = "/" /\ r.value = 0
    <3>1. Apply(op, l, r) = NoValue
      BY <1>3, <2>2 DEF Apply
    <3> QED
      BY <1>3, <2>1, <2>2, <3>1, MeaningSetIs
  <2>3. CASE ~(op = "/" /\ r.value = 0)
    <3>1. Compute(op, l.value, r.value) \in Int
      BY <2>1, <2>3, ComputeIs
    <3>2. Apply(op, l, r) = Just(Compute(op, l.value, r.value))
      <4>1. CASE op = "/"
        <5>1. Quotient(l.value, r.value) = Divide(l.value, r.value)
          BY <2>1, <2>3, <4>1, QuotientIs
        <5>2. Compute(op, l.value, r.value) = Divide(l.value, r.value)
          BY <4>1 DEF Compute
        <5> QED
          BY <1>3, <2>3, <4>1, <5>1, <5>2 DEF Apply
      <4>2. CASE op # "/"
        BY <1>3, <4>2 DEF Apply
      <4> QED
        BY <4>1, <4>2
    <3> QED
      BY <1>3, <2>1, <2>3, <3>1, <3>2, MeaningSetIs
  <2> QED
    BY <2>2, <2>3
<1> QED
  BY <1>1, <1>2, <1>3, MeaningSetIs

Weakest(s, lo, hi, c) ==
  \A i \in Base(s, lo, hi) :
    Prec(s[c].op) < Prec(s[i].op) \/ (Prec(s[c].op) = Prec(s[i].op) /\ i <= c)

\* What a span means that is neither a number nor without sense
IsInner(s, m, lo, hi) ==
  /\ Enclosed(s, lo, hi) /\ lo + 1 \in 1..Len(s)+1 /\ hi - 1 \in 0..Len(s)
  /\ m[<<lo, hi>>] = m[<<lo + 1, hi - 1>>]

IsSplit(s, m, lo, hi, c) ==
  /\ c \in Base(s, lo, hi) /\ c - 1 \in 0..Len(s) /\ c + 1 \in 1..Len(s)+1
  /\ s[c].op \in Operators /\ s[c - 1].op \in Ends
  /\ Weakest(s, lo, hi, c)
  /\ m[<<lo, hi>>] = Apply(s[c].op, m[<<lo, c - 1>>], m[<<c + 1, hi>>])

\* The ways in which a span can have a meaning
LEMMA ReadingCases ==
  ASSUME NEW s \in Seq(Token), NEW m, Reads0(s, m),
         NEW lo \in 1..Len(s)+1, NEW hi \in 0..Len(s)
  PROVE  \/ Signed(s, lo, hi) /\ m[<<lo, hi>>] = Just(SignOf(s, lo, hi) * s[hi].nb)
         \/ IsInner(s, m, lo, hi)
         \/ m[<<lo, hi>>] = NoSense
         \/ \E c \in lo+1..hi-1 : IsSplit(s, m, lo, hi, c)
<1>0. Len(s) \in Nat /\ lo \in Int /\ hi \in Int
  OBVIOUS
<1>r. m[<<lo, hi>>] = PlainReading(s, m, lo, hi)
  BY DEF Reads0
<1>1. CASE Signed(s, lo, hi)
  BY <1>1, <1>r DEF PlainReading
<1>2. CASE ~Signed(s, lo, hi) /\ Enclosed(s, lo, hi)
  <2>1. lo + 1 < hi
    BY <1>2 DEF Enclosed
  <2>2. lo + 1 \in 1..Len(s)+1 /\ hi - 1 \in 0..Len(s)
    BY <1>0, <2>1
  <2> QED
    BY <1>2, <1>r, <2>2 DEF PlainReading, IsInner
<1>3. CASE ~Signed(s, lo, hi) /\ ~Enclosed(s, lo, hi) /\ Base(s, lo, hi) = {}
  BY <1>3, <1>r DEF PlainReading, Base
<1>4. CASE ~Signed(s, lo, hi) /\ ~Enclosed(s, lo, hi) /\ Base(s, lo, hi) # {}
  <2> DEFINE c == Split(s, lo, hi)
  <2>1. c \in Base(s, lo, hi) /\ Weakest(s, lo, hi, c)
    BY <1>0, <1>4, SplitIs DEF Weakest
  <2>2. m[<<lo, hi>>] = Apply(s[c].op, m[<<lo, c - 1>>], m[<<c + 1, hi>>])
    BY <1>4, <1>r DEF PlainReading, Base
  <2> HIDE DEF c
  <2>3. c \in lo+1..hi-1 /\ s[c].op \in Operators /\ s[c - 1].op \in Ends
    BY <2>1 DEF Base, Binary
  <2>4. c - 1 \in 0..Len(s) /\ c + 1 \in 1..Len(s)+1
    BY <1>0, <2>3
  <2> QED
    BY <2>1, <2>2, <2>3, <2>4 DEF IsSplit
<1> QED
  BY <1>1, <1>2, <1>3, <1>4

\* Every meaning is one.
LEMMA MeaningTyped ==
  ASSUME NEW s \in Seq(Token), NEW m, Reads0(s, m)
  PROVE  \A lo \in 1..Len(s)+1, hi \in 0..Len(s) : m[<<lo, hi>>] \in MeaningSet
<1> DEFINE n == Len(s)
           S == {x \in Spans(s) : m[x] \in MeaningSet}
<1>0. n \in Nat
  OBVIOUS
<1>1. ASSUME NEW lo \in 1..n+1, NEW hi \in 0..n,
             \A l \in 1..n+1, h \in 0..n : h - l < hi - lo => <<l, h>> \in S
      PROVE  <<lo, hi>> \in S
  <2>0. \A l \in 1..n+1, h \in 0..n : h - l < hi - lo => m[<<l, h>>] \in MeaningSet
    BY <1>1
  <2> HIDE DEF S
  <2>1. ASSUME Signed(s, lo, hi) PROVE Just(SignOf(s, lo, hi) * s[hi].nb) \in MeaningSet
    <3>1. lo <= hi /\ s[hi].op = "num"
      BY <2>1 DEF Signed
    <3>2. s[hi].nb \in Nat
      <4>1. hi \in 1..Len(s)
        BY <3>1
      <4> QED
        BY <3>1, <4>1, TokenIs
    <3>3. PICK v \in Int : v = SignOf(s, lo, hi) * s[hi].nb
      BY <3>2 DEF SignOf
    <3> QED
      BY <3>3, MeaningSetIs
  <2>2. ASSUME IsInner(s, m, lo, hi) PROVE m[<<lo, hi>>] \in MeaningSet
    <3>1. (hi - 1) - (lo + 1) < hi - lo
      BY <1>0
    <3> QED
      BY <2>0, <2>2, <3>1 DEF IsInner
  <2>3. ASSUME NEW c \in lo+1..hi-1, IsSplit(s, m, lo, hi, c) PROVE m[<<lo, hi>>] \in MeaningSet
    <3>1. /\ c - 1 \in 0..n /\ c + 1 \in 1..n+1 /\ s[c].op \in Operators
          /\ m[<<lo, hi>>] = Apply(s[c].op, m[<<lo, c - 1>>], m[<<c + 1, hi>>])
      BY <2>3 DEF IsSplit
    <3>2. (c - 1) - lo < hi - lo /\ hi - (c + 1) < hi - lo
      BY <1>0
    <3>3. m[<<lo, c - 1>>] \in MeaningSet /\ m[<<c + 1, hi>>] \in MeaningSet
      BY <2>0, <3>1, <3>2
    <3>4. Apply(s[c].op, m[<<lo, c - 1>>], m[<<c + 1, hi>>]) \in MeaningSet
      BY <3>1, <3>3, ApplyIs
    <3> QED
      BY <3>1, <3>4
  <2>5. m[<<lo, hi>>] \in MeaningSet
    BY <2>1, <2>2, <2>3, ReadingCases, MeaningSetIs
  <2> QED
    BY <2>5 DEF S, Spans
<1>2. \A lo \in 1..n+1, hi \in 0..n : <<lo, hi>> \in S
  <2> HIDE DEF S
  <2> QED
    BY <1>0, <1>1, SpanInduct
<1> QED
  BY <1>2

\* What has a meaning is well formed.
LEMMA MeaningFormed ==
  ASSUME NEW s \in Seq(Token), NEW m, Reads0(s, m)
  PROVE  \A lo \in 1..Len(s)+1, hi \in 0..Len(s) :
           ~Closes(s, lo - 1) /\ m[<<lo, hi>>].how # "bad" => WellFormed(s, lo, hi)
<1> DEFINE n == Len(s)
           S == {x \in Spans(s) : ~Closes(s, x[1] - 1) /\ m[x].how # "bad" => WellFormed(s, x[1], x[2])}
<1>0. n \in Nat
  OBVIOUS
<1>1. ASSUME NEW lo \in 1..n+1, NEW hi \in 0..n,
             \A l \in 1..n+1, h \in 0..n : h - l < hi - lo => <<l, h>> \in S
      PROVE  <<lo, hi>> \in S
  <2>0. ASSUME NEW l \in 1..n+1, NEW h \in 0..n, h - l < hi - lo,
               ~Closes(s, l - 1), m[<<l, h>>].how # "bad"
        PROVE  WellFormed(s, l, h)
    <3>1. <<l, h>> \in S
      BY <1>1, <2>0
    <3> QED
      BY <2>0, <3>1
  <2> HIDE DEF S
  <2>a. ASSUME ~Closes(s, lo - 1), m[<<lo, hi>>].how # "bad"
        PROVE  WellFormed(s, lo, hi)
    <3>1. CASE Signed(s, lo, hi)
      BY <2>a, <3>1, SignedFormed
    <3>2. CASE IsInner(s, m, lo, hi)
      <4>1. s[lo].op = "(" /\ Enclosed(s, lo, hi)
        BY <3>2 DEF IsInner, Enclosed
      <4>2. ~Closes(s, (lo + 1) - 1)
        BY <4>1 DEF Closes, Ends
      <4>3. (hi - 1) - (lo + 1) < hi - lo
        BY <1>0
      <4>4. WellFormed(s, lo + 1, hi - 1)
        BY <2>0, <2>a, <3>2, <4>2, <4>3 DEF IsInner
      <4> QED
        BY <4>1, <4>4, EnclosedFormed
    <3>3. CASE m[<<lo, hi>>] = NoSense
      BY <2>a, <3>3, MeaningSetIs
    <3>4. CASE \E c \in lo+1..hi-1 : IsSplit(s, m, lo, hi, c)
      <4>1. PICK c \in lo+1..hi-1 : IsSplit(s, m, lo, hi, c)
        BY <3>4
      <4> DEFINE l == m[<<lo, c - 1>>] r == m[<<c + 1, hi>>]
      <4>a. /\ c - 1 \in 0..n /\ c + 1 \in 1..n+1 /\ s[c].op \in Operators
            /\ m[<<lo, hi>>] = Apply(s[c].op, l, r)
        BY <4>1 DEF IsSplit
      <4>2. (c - 1) - lo < hi - lo /\ hi - (c + 1) < hi - lo /\ (c + 1) - 1 = c
        BY <1>0, <4>1
      <4>3. l \in MeaningSet /\ r \in MeaningSet
        BY <4>a, MeaningTyped
      <4>4. l.how # "bad" /\ r.how # "bad"
        <5> HIDE DEF l, r
        <5>1. Apply(s[c].op, l, r).how # "bad"
          BY <2>a, <4>a
        <5>2. s[c].op \in Operators
          BY <4>a
        <5> QED
          BY <4>3, <5>1, <5>2, ApplyIs, ZenonT(40)
      <4>5. ~Closes(s, (c + 1) - 1)
        BY <4>a, <4>2 DEF Closes, Ends, Operators, Sums, Products
      <4>6. WellFormed(s, lo, c - 1)
        BY <2>0, <2>a, <4>a, <4>2, <4>4
      <4>7. WellFormed(s, c + 1, hi)
        BY <2>0, <4>a, <4>2, <4>4, <4>5
      <4> QED
        BY <4>a, <4>6, <4>7, JoinedFormed
    <3> QED
      BY <3>1, <3>2, <3>3, <3>4, ReadingCases
  <2> QED
    BY <2>a DEF S, Spans
<1>2. \A lo \in 1..n+1, hi \in 0..n : <<lo, hi>> \in S
  <2> HIDE DEF S
  <2> QED
    BY <1>0, <1>1, SpanInduct
<1>3. ASSUME NEW lo \in 1..n+1, NEW hi \in 0..n, ~Closes(s, lo - 1), m[<<lo, hi>>].how # "bad"
      PROVE  WellFormed(s, lo, hi)
  <2>1. <<lo, hi>> \in S
    BY <1>2
  <2> QED
    BY <1>3, <2>1
<1> QED
  BY <1>3

\* Signs and a number mean that number.
LEMMA NumberMeant ==
  ASSUME NEW s \in Seq(Token), NEW m, Reads0(s, m),
         NEW lo \in 1..Len(s)+1, NEW hi \in 0..Len(s), Signed(s, lo, hi)
  PROVE  m[<<lo, hi>>] = Just(SignOf(s, lo, hi) * s[hi].nb) /\ s[hi].nb \in Nat
         /\ SignOf(s, lo, hi) * s[hi].nb \in Int
<1>1. m[<<lo, hi>>] = PlainReading(s, m, lo, hi)
  BY DEF Reads0
<1>2. hi \in 1..Len(s) /\ s[hi].op = "num"
  BY DEF Signed
<1>3. s[hi].nb \in Nat
  BY <1>2, TokenIs
<1> QED
  BY <1>1, <1>3 DEF PlainReading, SignOf

\* What is in parentheses means the same with them.
LEMMA EnclosedMeant ==
  ASSUME NEW s \in Seq(Token), NEW m, Reads0(s, m),
         NEW lo \in 1..Len(s), NEW hi \in 1..Len(s), lo < hi,
         s[lo].op = "(", s[hi].op = ")", m[<<lo + 1, hi - 1>>].how # "bad"
  PROVE  m[<<lo, hi>>] = m[<<lo + 1, hi - 1>>] /\ Base(s, lo, hi) = {}
<1>0. Len(s) \in Nat /\ lo \in Nat \ {0} /\ hi \in Nat
      /\ lo + 1 \in 1..Len(s)+1 /\ hi - 1 \in 0..Len(s) /\ (lo + 1) - 1 = lo
      /\ lo \in 1..Len(s)+1 /\ hi \in 0..Len(s)
  OBVIOUS
<1>1. ~Closes(s, (lo + 1) - 1)
  BY <1>0 DEF Closes, Ends
<1>2. WellFormed(s, lo + 1, hi - 1)
  BY <1>0, <1>1, MeaningFormed
<1>3. lo + 1 <= hi - 1 /\ \A i \in lo..hi-1 : Depth(s, i) >= Depth(s, lo)
  BY <1>0, <1>2 DEF WellFormed
<1>4. Depth(s, lo) = Depth(s, lo - 1) + 1
  BY <1>0, DepthIs
<1>5. Depth(s, lo) \in Int /\ Depth(s, lo - 1) \in Int /\ \A i \in lo..hi-1 : Depth(s, i) \in Int
  <2>1. lo \in Int /\ lo - 1 \in Int /\ lo..hi-1 \subseteq Int
    BY <1>0
  <2>2. \A i \in Int : Depth(s, i) \in Int
    BY DepthIs
  <2> QED
    BY <2>1, <2>2
<1>6. Enclosed(s, lo, hi)
  BY <1>0, <1>3, <1>4, <1>5, SMTT(40) DEF Enclosed
<1>7. ~Signed(s, lo, hi)
  BY DEF Signed
<1>8. m[<<lo, hi>>] = m[<<lo + 1, hi - 1>>]
  BY <1>0, <1>6, <1>7 DEF Reads0, PlainReading
<1> QED
  BY <1>0, <1>2, <1>6, <1>8, EnclosedFormed

\* What two operands mean around an operator that binds weaker than those of the right
\* one, and not stronger than those of the left one.
LEMMA JoinedMeant ==
  ASSUME NEW s \in Seq(Token), NEW m, Reads0(s, m),
         NEW lo \in 1..Len(s)+1, NEW hi \in 0..Len(s), NEW c \in lo+1..hi-1,
         ~Closes(s, lo - 1), s[c].op \in Operators,
         m[<<lo, c - 1>>].how = "value", m[<<c + 1, hi>>].how = "value",
         \A i \in Base(s, lo, c - 1) : Prec(s[i].op) >= Prec(s[c].op),
         \A i \in Base(s, c + 1, hi) : Prec(s[i].op) > Prec(s[c].op)
  PROVE  /\ m[<<lo, hi>>] =
              IF s[c].op = "/" /\ m[<<c + 1, hi>>].value = 0 THEN NoValue
              ELSE Just(Compute(s[c].op, m[<<lo, c - 1>>].value, m[<<c + 1, hi>>].value))
         /\ \A i \in Base(s, lo, hi) : i = c \/ i \in Base(s, lo, c - 1) \/ i \in Base(s, c + 1, hi)
<1>0. Len(s) \in Nat /\ lo \in Nat \ {0} /\ hi \in Nat /\ c \in Nat \ {0}
      /\ c + 1 \in 1..Len(s)+1 /\ c - 1 \in 0..Len(s) /\ (c + 1) - 1 = c
  BY SMTT(40)
<1>1. ~Closes(s, (c + 1) - 1)
  BY <1>0 DEF Closes, Ends, Operators, Sums, Products
<1>2. WellFormed(s, lo, c - 1)
  BY <1>0, MeaningFormed
<1>3. WellFormed(s, c + 1, hi)
  BY <1>0, <1>1, MeaningFormed
<1>4. /\ c \in Base(s, lo, hi) /\ Depth(s, c) = Depth(s, lo - 1)
      /\ \A i \in Base(s, lo, hi) : i = c \/ i \in Base(s, lo, c - 1) \/ i \in Base(s, c + 1, hi)
  BY <1>2, <1>3, JoinedFormed
<1>5. ~Signed(s, lo, hi)
  <2>1. c - 1 \in lo..hi-1 /\ s[c - 1].op \in Ends
    BY <1>0, <1>2 DEF WellFormed
  <2> QED
    BY <2>1 DEF Signed, Signs, Ends
<1>6. ~Enclosed(s, lo, hi)
  <2>1. c \in lo..hi-1
    BY <1>0
  <2>2. Depth(s, c) \in Int
    BY <1>0, DepthIs
  <2> QED
    BY <1>4, <2>1, <2>2 DEF Enclosed
<1>7. \A i \in Base(s, lo, hi) :
        Prec(s[c].op) < Prec(s[i].op) \/ (Prec(s[c].op) = Prec(s[i].op) /\ i <= c)
  <2> SUFFICES ASSUME NEW i \in Base(s, lo, hi)
               PROVE  Prec(s[c].op) < Prec(s[i].op) \/ (Prec(s[c].op) = Prec(s[i].op) /\ i <= c)
    OBVIOUS
  <2>1. s[i].op \in Operators /\ i \in Int
    BY DEF Base, Binary
  <2>2. Prec(s[i].op) \in Int /\ Prec(s[c].op) \in Int
    BY <2>1, PrecIs, SMTT(40)
  <2>3. CASE i = c
    BY <2>2, <2>3, <1>0
  <2>4. CASE i \in Base(s, lo, c - 1)
    <3>1. i <= c
      BY <1>0, <2>4 DEF Base, Binary
    <3> QED
      BY <2>2, <2>4, <3>1
  <2>5. CASE i \in Base(s, c + 1, hi)
    BY <2>2, <2>5
  <2> QED
    BY <1>4, <2>3, <2>4, <2>5
<1>8. Split(s, lo, hi) = c
  <2>1. lo \in Int /\ hi \in Int
    BY <1>0
  <2> QED
    BY <1>4, <1>7, <2>1, SplitOnly
<1> DEFINE l == m[<<lo, c - 1>>] r == m[<<c + 1, hi>>]
<1>9. m[<<lo, hi>>] = Apply(s[c].op, l, r)
  <2>1. m[<<lo, hi>>] = PlainReading(s, m, lo, hi)
    BY DEF Reads0
  <2>2. Binary(s, Operators, lo, hi) # {}
    BY <1>4 DEF Base
  <2> QED
    BY <1>5, <1>6, <1>8, <2>1, <2>2 DEF PlainReading
<1>10. l \in MeaningSet /\ r \in MeaningSet /\ l.how = "value" /\ r.how = "value"
  BY <1>0, MeaningTyped
<1>11. Apply(s[c].op, l, r) = IF s[c].op = "/" /\ r.value = 0 THEN NoValue
                             ELSE Just(Compute(s[c].op, l.value, r.value))
  <2> HIDE DEF l, r
  <2> QED
    BY <1>10, ApplyIs
<1> QED
  BY <1>4, <1>9, <1>11

\* No operator before a span takes a part of it.
Before(s, a, b) ==
  \/ a = 1 \/ s[a - 1].op = "("
  \/ /\ s[a - 1].op \in Operators /\ Closes(s, a - 2)
     /\ \A i \in Base(s, a, b) : Prec(s[a - 1].op) < Prec(s[i].op)

\* Nor does one behind it.
Behind(s, a, b) ==
  \/ b = Len(s) \/ s[b + 1].op = ")"
  \/ /\ s[b + 1].op \in Operators
     /\ \A i \in Base(s, a, b) : Prec(s[b + 1].op) <= Prec(s[i].op)

\* A division by zero within what has a meaning is all that it means.
LEMMA Upward ==
  ASSUME NEW s \in Seq(Token), NEW m, Reads0(s, m),
         NEW a \in 1..Len(s)+1, NEW b \in 0..Len(s), ~Closes(s, a - 1), m[<<a, b>>] = NoValue,
         Before(s, a, b), Behind(s, a, b)
  PROVE  \A lo \in 1..a, hi \in b..Len(s) :
           ~Closes(s, lo - 1) /\ m[<<lo, hi>>].how # "bad" => m[<<lo, hi>>] = NoValue
<1> USE DEF Before, Behind
<1> DEFINE n == Len(s)
           S == {x \in Spans(s) :
                  x[1] <= a /\ b <= x[2] /\ ~Closes(s, x[1] - 1) /\ m[x].how # "bad" => m[x] = NoValue}
<1>0. n \in Nat /\ a \in Nat \ {0} /\ b \in Nat
  OBVIOUS
<1>f. WellFormed(s, a, b)
  BY MeaningFormed, MeaningSetIs
<1>g. a <= b /\ s[b].op \in Ends /\ \A i \in a-1..b : Depth(s, i) >= Depth(s, a - 1)
  BY <1>f DEF WellFormed
<1>d. \A i \in Int : Depth(s, i) \in Int
  BY DepthIs
<1>h. Depth(s, b) = Depth(s, a - 1)
  BY <1>f DEF WellFormed
<1>1. ASSUME NEW lo \in 1..n+1, NEW hi \in 0..n,
             \A l \in 1..n+1, h \in 0..n : h - l < hi - lo => <<l, h>> \in S
      PROVE  <<lo, hi>> \in S
  <2>0. ASSUME NEW l \in 1..n+1, NEW h \in 0..n, h - l < hi - lo,
               l <= a, b <= h, ~Closes(s, l - 1), m[<<l, h>>].how # "bad"
        PROVE  m[<<l, h>>] = NoValue
    <3>1. <<l, h>> \in S
      BY <1>1, <2>0
    <3> QED
      BY <2>0, <3>1
  <2> HIDE DEF S
  <2>a. ASSUME lo <= a, b <= hi, ~Closes(s, lo - 1), m[<<lo, hi>>].how # "bad"
        PROVE  m[<<lo, hi>>] = NoValue
    <3>f. WellFormed(s, lo, hi)
      BY <2>a, MeaningFormed
    <3>g. /\ s[hi].op \in Ends /\ \A i \in lo-1..hi : Depth(s, i) >= Depth(s, lo - 1)
          /\ Depth(s, hi) = Depth(s, lo - 1)
      BY <3>f DEF WellFormed
    <3>h. lo \in Int /\ hi \in Int /\ lo - 1 \in Int /\ a - 1 \in lo-1..hi
      BY <1>0, <1>g, <2>a, SMTT(40)
    <3>i. Depth(s, lo - 1) \in Int /\ Depth(s, a - 1) \in Int
      <4>1. lo - 1 \in Int /\ a - 1 \in Int
        BY <1>0, <3>h
      <4> QED
        BY <1>d, <4>1
    <3>1. CASE Signed(s, lo, hi)
      <4>1. \A i \in lo..hi-1 : s[i].op \in Signs
        BY <3>1 DEF Signed
      <4>2. b = hi
        <5>1. b \in lo..hi-1 => FALSE
          BY <1>g, <4>1 DEF Signs, Ends
        <5> QED
          BY <1>0, <1>g, <2>a, <5>1
      <4>3. Signed(s, a, b)
        BY <1>0, <1>g, <2>a, <3>1, <4>2 DEF Signed
      <4>4. m[<<a, b>>] = Just(SignOf(s, a, b) * s[b].nb) /\ SignOf(s, a, b) * s[b].nb \in Int
        BY <4>3, NumberMeant
      <4> QED
        BY <4>4, MeaningSetIs
    <3>2. CASE IsInner(s, m, lo, hi)
      <4>1. /\ lo + 1 \in 1..n+1 /\ hi - 1 \in 0..n /\ m[<<lo, hi>>] = m[<<lo + 1, hi - 1>>]
            /\ lo + 1 < hi /\ s[lo].op = "(" /\ \A i \in lo..hi-1 : Depth(s, i) > Depth(s, lo - 1)
        BY <3>2 DEF IsInner, Enclosed
      <4>2. CASE a = lo /\ b = hi
        BY <4>2
      <4>3. CASE a = lo /\ b # hi
        <5>1. b \in lo..hi-1 /\ Depth(s, b) = Depth(s, lo - 1)
          BY <1>0, <1>g, <1>h, <2>a, <4>3
        <5> QED
          BY <3>i, <4>1, <5>1
      <4>4. CASE a # lo /\ b = hi
        <5>1. a - 1 \in lo..hi-1 /\ Depth(s, a - 1) = Depth(s, lo - 1)
          BY <1>0, <1>g, <1>h, <2>a, <3>g, <4>4
        <5> QED
          BY <3>i, <4>1, <5>1
      <4>5. CASE a # lo /\ b # hi
        <5>1. lo + 1 <= a /\ b <= hi - 1 /\ (hi - 1) - (lo + 1) < hi - lo
          <6>1. lo \in Nat /\ hi \in Nat /\ lo <= a /\ b <= hi
            BY <1>0, <2>a
          <6> QED
            BY <1>0, <4>5, <6>1, SMTT(40)
        <5>2. ~Closes(s, (lo + 1) - 1)
          BY <3>h, <4>1 DEF Closes, Ends
        <5> QED
          BY <2>0, <2>a, <4>1, <5>1, <5>2
      <4> QED
        BY <4>2, <4>3, <4>4, <4>5
    <3>3. CASE m[<<lo, hi>>] = NoSense
      BY <2>a, <3>3, MeaningSetIs
    <3>4. CASE \E c \in lo+1..hi-1 : IsSplit(s, m, lo, hi, c)
      <4>1. PICK c \in lo+1..hi-1 : IsSplit(s, m, lo, hi, c)
        BY <3>4
      <4> DEFINE l == m[<<lo, c - 1>>] r == m[<<c + 1, hi>>]
      <4>a. /\ c \in Base(s, lo, hi) /\ c - 1 \in 0..n /\ c + 1 \in 1..n+1 /\ s[c].op \in Operators
            /\ s[c - 1].op \in Ends /\ Weakest(s, lo, hi, c)
            /\ m[<<lo, hi>>] = Apply(s[c].op, l, r)
        BY <4>1 DEF IsSplit
      <4>2. (c - 1) - lo < hi - lo /\ hi - (c + 1) < hi - lo /\ (c + 1) - 1 = c /\ c \in Int
        BY <1>0, <4>1, SMTT(40)
      <4>3. l \in MeaningSet /\ r \in MeaningSet
        BY <4>a, MeaningTyped
      <4>4. l.how # "bad" /\ r.how # "bad"
        <5> HIDE DEF l, r
        <5>1. Apply(s[c].op, l, r).how # "bad"
          BY <2>a, <4>a
        <5>2. s[c].op \in Operators
          BY <4>a
        <5> QED
          BY <4>3, <5>1, <5>2, ApplyIs
      <4>5. s[c].op \notin Ends /\ s[c].op # "("
        BY <4>a DEF Ends, Operators, Sums, Products
      <4>6. ~Closes(s, (c + 1) - 1)
        BY <4>2, <4>5 DEF Closes
      <4>7. CASE c < a
        <5>0. c + 1 <= a
          BY <1>0, <4>2, <4>7
        <5>1. r = NoValue
          BY <5>0, <2>0, <2>a, <4>a, <4>2, <4>4, <4>6, <4>7, <1>0
        <5> HIDE DEF l, r
        <5> QED
          BY <4>a, <4>3, <4>4, <5>1, ApplyIs
      <4>8. CASE c > b
        <5>1. l = NoValue
          BY <2>0, <2>a, <4>a, <4>2, <4>4, <4>8, <1>0
        <5> HIDE DEF l, r
        <5> QED
          BY <4>a, <4>3, <4>4, <5>1, ApplyIs
      <4>9. CASE a <= c /\ c <= b
        <5>1. Depth(s, c) = Depth(s, lo - 1) /\ c - 1 \in lo..hi
          BY <1>0, <4>1, <4>a DEF Base, Binary
        <5>2. Depth(s, a - 1) = Depth(s, lo - 1)
          <6>1. Depth(s, c) >= Depth(s, a - 1)
            BY <1>0, <1>g, <4>2, <4>9
          <6>2. Depth(s, a - 1) >= Depth(s, lo - 1)
            BY <3>g, <3>h
          <6>3. Depth(s, c) \in Int /\ Depth(s, a - 1) \in Int /\ Depth(s, lo - 1) \in Int
            <7>1. c \in Int
              BY <4>2
            <7> QED
              BY <1>d, <3>i, <7>1
          <6> QED
            BY <5>1, <6>1, <6>2, <6>3
        <5>3. c # b
          BY <1>g, <4>5
        <5>4. c # a
          <6>1. c = a => Closes(s, a - 1)
            BY <1>0, <4>a, <3>h, <4>1 DEF Closes
          <6> QED
            BY <6>1
        <5>5. c \in Base(s, a, b)
          <6>1. c \in a+1..b-1
            <7>1. a \in Int /\ b \in Int /\ c \in Int /\ a <= c /\ c <= b /\ c # a /\ c # b
              BY <1>0, <4>2, <4>9, <5>3, <5>4
            <7> HIDE DEF n
            <7> QED
              BY <7>1, SMTT(40)
          <6> QED
            BY <4>a, <5>1, <5>2, <6>1 DEF Base, Binary
        <5>6. a = lo
          <6> SUFFICES ASSUME a # lo PROVE FALSE
            OBVIOUS
          <6>1. a - 1 \in lo..hi-1 /\ a - 1 \in Nat \ {0} /\ (a - 1) - 1 = a - 2 /\ a - 2 \in lo-1..hi
            BY <1>0, <1>g, <2>a
          <6>2. Depth(s, a - 1) = Depth(s, a - 2) + (IF s[a - 1].op = "(" THEN 1 ELSE IF s[a - 1].op = ")" THEN -1 ELSE 0)
            BY <6>1, DepthIs
          <6>3. Depth(s, a - 2) >= Depth(s, lo - 1) /\ Depth(s, a - 2) \in Int /\ Depth(s, lo - 1) \in Int
            <7>1. a - 2 \in Int
              BY <1>0
            <7> QED
              BY <1>d, <3>g, <3>i, <6>1, <7>1
          <6>4. CASE s[a - 1].op = "("
            BY <5>2, <6>2, <6>3, <6>4
          <6>5. CASE /\ s[a - 1].op \in Operators /\ Closes(s, a - 2)
                     /\ \A i \in Base(s, a, b) : Prec(s[a - 1].op) < Prec(s[i].op)
            <7>1. a - 2 # lo - 1
              BY <2>a, <6>5
            <7>2. a - 1 \in lo+1..hi-1
              BY <1>0, <6>1, <7>1
            <7>3. s[(a - 1) - 1].op \in Ends
              BY <6>1, <6>5 DEF Closes
            <7>4. a - 1 \in Base(s, lo, hi)
              BY <5>2, <6>5, <7>2, <7>3 DEF Base, Binary
            <7>5. Prec(s[c].op) <= Prec(s[a - 1].op)
              <8>1. Prec(s[c].op) \in Int /\ Prec(s[a - 1].op) \in Int
                BY <4>a, <6>5, PrecIs, SMTT(40)
              <8>2. Prec(s[c].op) < Prec(s[a - 1].op) \/ Prec(s[c].op) = Prec(s[a - 1].op)
                BY <4>a, <7>4 DEF Weakest
              <8> QED
                BY <8>1, <8>2
            <7>6. Prec(s[a - 1].op) < Prec(s[c].op)
              BY <5>5, <6>5
            <7> QED
              BY <7>5, <7>6, <4>a, <6>5, PrecIs, SMTT(40)
          <6> QED
            BY <1>0, <2>a, <6>1, <6>4, <6>5
        <5>7. b = hi
          <6> SUFFICES ASSUME b # hi PROVE FALSE
            OBVIOUS
          <6>1. b + 1 \in lo..hi /\ b + 1 \in Nat \ {0} /\ (b + 1) - 1 = b /\ b # n
            BY <1>0, <1>g, <2>a
          <6>2. Depth(s, b + 1) = Depth(s, b) + (IF s[b + 1].op = "(" THEN 1 ELSE IF s[b + 1].op = ")" THEN -1 ELSE 0)
            BY <6>1, DepthIs
          <6>3. Depth(s, b + 1) >= Depth(s, lo - 1) /\ Depth(s, lo - 1) \in Int
                /\ Depth(s, b) = Depth(s, lo - 1)
            BY <1>0, <1>d, <1>h, <3>g, <3>h, <5>2, <6>1
          <6>4. CASE s[b + 1].op = ")"
            BY <6>2, <6>3, <6>4, SMTT(40)
          <6>5. CASE /\ s[b + 1].op \in Operators
                     /\ \A i \in Base(s, a, b) : Prec(s[b + 1].op) <= Prec(s[i].op)
            <7>1. s[b + 1].op \notin Ends /\ s[b + 1].op # "("
              BY <6>5 DEF Ends, Operators, Sums, Products
            <7>2. b + 1 # hi
              BY <3>g, <7>1
            <7>3. b + 1 \in lo+1..hi-1
              BY <1>0, <1>g, <2>a, <6>1, <7>2
            <7>4. Depth(s, b + 1) = Depth(s, lo - 1)
              BY <6>2, <6>3, <7>1 DEF Ends
            <7>5. b + 1 \in Base(s, lo, hi)
              BY <1>g, <6>1, <6>5, <7>3, <7>4 DEF Base, Binary
            <7>6. Prec(s[b + 1].op) <= Prec(s[c].op)
              BY <5>5, <6>5
            <7>7. Prec(s[c].op) \in Int /\ Prec(s[b + 1].op) \in Int
              BY <4>a, <6>5, PrecIs, SMTT(40)
            <7>8. b + 1 <= c
              BY <4>a, <7>5, <7>6, <7>7, SMTT(40) DEF Weakest
            <7> QED
              BY <1>0, <4>2, <4>9, <7>8
          <6> QED
            BY <6>1, <6>4, <6>5
        <5> QED
          BY <5>6, <5>7
      <4> QED
        BY <1>0, <4>2, <4>7, <4>8, <4>9
    <3> QED
      BY <3>1, <3>2, <3>3, <3>4, ReadingCases
  <2> QED
    BY <2>a DEF S, Spans
<1>2. \A lo \in 1..n+1, hi \in 0..n : <<lo, hi>> \in S
  <2> HIDE DEF S
  <2> QED
    BY <1>0, <1>1, SpanInduct
<1>3. ASSUME NEW lo \in 1..a, NEW hi \in b..n, ~Closes(s, lo - 1), m[<<lo, hi>>].how # "bad"
      PROVE  m[<<lo, hi>>] = NoValue
  <2>1. lo \in 1..n+1 /\ hi \in 0..n /\ lo <= a /\ b <= hi
    BY <1>0
  <2>2. <<lo, hi>> \in S
    BY <1>2, <2>1
  <2> QED
    BY <1>3, <2>1, <2>2
<1> QED
  BY <1>3

----------------------------------------------------------------------------
(* The stacks: where in the expression each pending operator and value is. *)
(* Laid says of the stacks at place p that the pending operators and       *)
(* parentheses are tokens of it, one behind the other (Chain), and that    *)
(* the values are what the spans between them mean (Filled); or, once a    *)
(* token was out of place (~ok), that there is a value less than there     *)
(* should be, which it never recovers from.                                *)

\* A stack without its top, and that
LEMMA FrontIs ==
  ASSUME NEW S, NEW s \in Seq(S), s # <<>>
  PROVE  /\ Front(s) \in Seq(S) /\ Len(Front(s)) = Len(s) - 1 /\ Len(s) \in Nat \ {0}
         /\ \A i \in 1..Len(s)-1 : Front(s)[i] = s[i]
         /\ Last(s) = s[Len(s)] /\ Last(s) \in S
<1>1. Len(s) \in Nat \ {0}
  OBVIOUS
<1>2. Front(s) = SubSeq(s, 1, Len(s) - 1) /\ Last(s) = s[Len(s)]
  BY DEF Front, Last
<1> DEFINE n == Len(s) - 1
<1>a. n \in Nat /\ 1 \in Int /\ n \in Int /\ \A i \in 1..n : s[i] \in S
  BY <1>1
<1>b. /\ (IF 1 <= n THEN n - 1 + 1 ELSE 0) = n /\ n - 1 + 1 = n
      /\ \A i \in 1..n : 1 + i - 1 = i
  <2>1. n \in Nat
    BY <1>a
  <2> HIDE DEF n
  <2> QED
    BY <2>1
<1> HIDE DEF n
<1>c. /\ SubSeq(s, 1, n) \in Seq(S) /\ Len(SubSeq(s, 1, n)) = (IF 1 <= n THEN n - 1 + 1 ELSE 0)
      /\ \A i \in 1..n - 1 + 1 : SubSeq(s, 1, n)[i] = s[1 + i - 1]
  BY <1>a, SubSeqProperties
<1> USE DEF n
<1>3. SubSeq(s, 1, Len(s) - 1) \in Seq(S) /\ Len(SubSeq(s, 1, Len(s) - 1)) = Len(s) - 1
  BY <1>b, <1>c
<1>4. \A i \in 1..Len(s)-1 : SubSeq(s, 1, Len(s) - 1)[i] = s[i]
  BY <1>b, <1>c
<1>5. s[Len(s)] \in S
  BY <1>1
<1> QED
  BY <1>1, <1>2, <1>3, <1>4, <1>5

\* A stack with one more
LEMMA AppendIs ==
  ASSUME NEW S, NEW s \in Seq(S), NEW x \in S
  PROVE  /\ Append(s, x) \in Seq(S) /\ Len(Append(s, x)) = Len(s) + 1 /\ Len(s) \in Nat
         /\ \A i \in 1..Len(s) : Append(s, x)[i] = s[i]
         /\ Append(s, x)[Len(s) + 1] = x /\ Last(Append(s, x)) = x /\ Append(s, x) # <<>>
BY DEF Last

OpSeq == Seq(Operators \union {"("})

\* The tokens behind which an operand or an operator may stand
Misplaced(s, i) == ~Closes(s, i - 1) /\ s[i].op \in {")"} \union (Operators \ Signs)
Right(s, p) == \A i \in 1..p : ~Misplaced(s, i)

Over(o, j) == IF j = 0 THEN 0 ELSE Prec(o[j])

Value(s, a, b, v, over, from) ==
  /\ a <= b /\ ~Closes(s, a - 1) /\ PlainMeanings(s)[<<a, b>>] = Just(v)
  /\ \A i \in Base(s, a, b) : Prec(s[i].op) > over /\ Prec(s[i].op) >= from

Pending(s, o, po, q, j) ==
  /\ po[j - 1] < po[j] /\ s[po[j]].op = o[j]
  /\ q[j] = q[j - 1] + (IF o[j] = "(" THEN 0 ELSE 1)
  /\ Depth(s, po[j]) = Depth(s, po[j - 1]) + (IF o[j] = "(" THEN 1 ELSE 0)

Chain(s, o, p, po, q) ==
  /\ po \in [0..Len(o) -> 0..Len(s)] /\ q \in [0..Len(o) -> Nat]
  /\ po[0] = 0 /\ q[0] = 0
  /\ \A j \in 1..Len(o) : Pending(s, o, po, q, j)
  /\ \A i \in 0..Len(o), j \in 0..Len(o) : i <= j => q[i] <= q[j]
  /\ \A j \in 0..Len(o) : Depth(s, po[j]) >= 0
  /\ po[Len(o)] <= p /\ Depth(s, p) = Depth(s, po[Len(o)])

Placed(s, o, st, po, q, j) ==
  IF o[j] = "(" THEN po[j] = po[j - 1] + 1
  ELSE Value(s, po[j - 1] + 1, po[j] - 1, st[q[j]], Over(o, j - 1), Prec(o[j]))

Topped(s, o, st, p, floor, po, q) ==
  IF Closes(s, p)
  THEN /\ Len(st) = q[Len(o)] + 1
       /\ Value(s, po[Len(o)] + 1, p, Last(st), Over(o, Len(o)), floor)
  ELSE Len(st) = q[Len(o)] /\ po[Len(o)] = p

Filled(s, o, st, p, ok, slack, floor, po, q) ==
  IF ok THEN /\ \A j \in 1..Len(o) : Placed(s, o, st, po, q, j)
             /\ Topped(s, o, st, p, floor, po, q)
  ELSE Len(st) < q[Len(o)] + slack

Laid(s, o, st, p, ok, slack, floor) ==
  \E po, q : Chain(s, o, p, po, q) /\ Filled(s, o, st, p, ok, slack, floor, po, q)

Extend(f, m, x) == [j \in 0..m+1 |-> IF j = m + 1 THEN x ELSE f[j]]
Cut(f, m) == [j \in 0..m-1 |-> f[j]]

\* A function on one number less
LEMMA CutIs ==
  ASSUME NEW m \in Nat \ {0}, NEW S, NEW f \in [0..m -> S]
  PROVE  /\ Cut(f, m) \in [0..m-1 -> S]
         /\ \A j \in 0..m-1 : Cut(f, m)[j] = f[j]
BY DEF Cut

\* One more pending operator or parenthesis
LEMMA ChainGrows ==
  ASSUME NEW s \in Seq(Token), NEW o \in OpSeq, NEW e \in 0..Len(s), NEW po, NEW q,
         Chain(s, o, e, po, q), e + 1 \in 1..Len(s),
         NEW op \in Operators \union {"("}, s[e + 1].op = op
  PROVE  Chain(s, Append(o, op), e + 1,
               Extend(po, Len(o), e + 1), Extend(q, Len(o), q[Len(o)] + (IF op = "(" THEN 0 ELSE 1)))
<1> DEFINE m == Len(o) o2 == Append(o, op) f == e + 1
           d == IF op = "(" THEN 0 ELSE 1
           po2 == Extend(po, m, f) q2 == Extend(q, m, q[m] + d)
<1>0. m \in Nat /\ e \in Nat /\ f \in 1..Len(s) /\ Len(s) \in Nat
  BY DEF OpSeq
<1>1. o2 \in OpSeq /\ Len(o2) = m + 1 /\ o2[m + 1] = op /\ \A j \in 1..m : o2[j] = o[j]
  <2>1. o \in Seq(Operators \union {"("})
    BY DEF OpSeq
  <2>2. /\ o2 \in Seq(Operators \union {"("}) /\ Len(o2) = m + 1 /\ o2[m + 1] = op
        /\ \A j \in 1..m : o2[j] = o[j]
    BY <2>1, AppendIs
  <2> QED
    BY <2>2 DEF OpSeq
<1>2. /\ po \in [0..m -> 0..Len(s)] /\ q \in [0..m -> Nat] /\ po[0] = 0 /\ q[0] = 0
      /\ \A j \in 1..m : Pending(s, o, po, q, j)
      /\ \A i \in 0..m, j \in 0..m : i <= j => q[i] <= q[j]
      /\ \A j \in 0..m : Depth(s, po[j]) >= 0
      /\ po[m] <= e /\ Depth(s, e) = Depth(s, po[m])
  BY DEF Chain
<1>3. q[m] + d \in Nat
  BY <1>0, <1>2
<1>4. po2 \in [0..m+1 -> 0..Len(s)] /\ po2[m + 1] = f /\ \A j \in 0..m : po2[j] = po[j]
  <2>1. f \in 0..Len(s) /\ m \in Nat /\ po \in [0..m -> 0..Len(s)]
    BY <1>0, <1>2
  <2> QED
    BY <2>1 DEF Extend
<1>5. q2 \in [0..m+1 -> Nat] /\ q2[m + 1] = q[m] + d /\ \A j \in 0..m : q2[j] = q[j]
  <2> DEFINE x == q[m] + d
  <2>1. x \in Nat /\ m \in Nat /\ q \in [0..m -> Nat]
    BY <1>0, <1>2, <1>3
  <2> HIDE DEF m, x
  <2>2. /\ Extend(q, m, x) \in [0..m+1 -> Nat] /\ Extend(q, m, x)[m + 1] = x
        /\ \A j \in 0..m : Extend(q, m, x)[j] = q[j]
    BY <2>1 DEF Extend
  <2> QED
    BY <2>2 DEF x
<1>6. Depth(s, f) = Depth(s, po[m]) + (IF op = "(" THEN 1 ELSE 0)
  <2>1. f \in Nat \ {0} /\ f - 1 = e
    BY <1>0
  <2>2. op # ")"
    BY DEF Operators, Sums, Products
  <2>3. Depth(s, f) = Depth(s, e) + (IF op = "(" THEN 1 ELSE 0)
    BY <2>1, <2>2, DepthIs
  <2> QED
    BY <1>2, <2>3
<1>7. Depth(s, po[m]) \in Int
  <2>1. po[m] \in Int
    BY <1>0, <1>2
  <2> QED
    BY <2>1, DepthIs
<1> HIDE DEF po2, q2, o2, m
<1>8. \A j \in 1..m+1 : Pending(s, o2, po2, q2, j)
  <2> SUFFICES ASSUME NEW j \in 1..m+1 PROVE Pending(s, o2, po2, q2, j)
    OBVIOUS
  <2>1. CASE j = m + 1
    <3>1. j - 1 = m /\ m \in 0..m
      BY <1>0, <2>1
    <3>2. po2[j] = f /\ po2[j - 1] = po[m] /\ q2[j] = q[m] + d /\ q2[j - 1] = q[m] /\ o2[j] = op
      BY <1>1, <1>4, <1>5, <2>1, <3>1
    <3>3. po[m] < f
      BY <1>0, <1>2
    <3> QED
      BY <1>6, <3>2, <3>3 DEF Pending
  <2>2. CASE j \in 1..m
    <3>1. j \in 0..m /\ j - 1 \in 0..m
      BY <1>0, <2>2
    <3>2. po2[j] = po[j] /\ po2[j - 1] = po[j - 1] /\ q2[j] = q[j] /\ q2[j - 1] = q[j - 1] /\ o2[j] = o[j]
      BY <1>1, <1>4, <1>5, <2>2, <3>1
    <3> QED
      BY <1>2, <2>2, <3>2 DEF Pending
  <2> QED
    BY <1>0, <2>1, <2>2
<1>9. \A i \in 0..m+1, j \in 0..m+1 : i <= j => q2[i] <= q2[j]
  <2> SUFFICES ASSUME NEW i \in 0..m+1, NEW j \in 0..m+1, i <= j PROVE q2[i] <= q2[j]
    OBVIOUS
  <2>1. CASE j \in 0..m
    <3>1. i \in 0..m
      BY <1>0, <2>1
    <3> QED
      BY <1>2, <1>5, <2>1, <3>1
  <2>2. CASE j = m + 1 /\ i \in 0..m
    <3>1. q[i] <= q[m] /\ q[i] \in Nat /\ q[m] \in Nat
      BY <1>0, <1>2, <2>2
    <3> QED
      BY <1>5, <2>2, <3>1
  <2>3. CASE j = m + 1 /\ i = m + 1
    BY <1>3, <1>5, <2>3
  <2> QED
    BY <1>0, <2>1, <2>2, <2>3
<1>10. \A j \in 0..m+1 : Depth(s, po2[j]) >= 0
  <2> SUFFICES ASSUME NEW j \in 0..m+1 PROVE Depth(s, po2[j]) >= 0
    OBVIOUS
  <2>1. CASE j = m + 1
    <3>1. Depth(s, po[m]) >= 0
      BY <1>0, <1>2
    <3> QED
      BY <1>4, <1>6, <1>7, <2>1, <3>1
  <2>2. CASE j \in 0..m
    BY <1>2, <1>4, <2>2
  <2> QED
    BY <1>0, <2>1, <2>2
<1>11. po2[0] = 0 /\ q2[0] = 0 /\ po2[m + 1] <= f
  BY <1>0, <1>2, <1>4, <1>5
<1>12. Chain(s, o2, f, po2, q2)
  BY <1>1, <1>4, <1>5, <1>8, <1>9, <1>10, <1>11 DEF Chain
<1> QED
  BY <1>12 DEF po2, q2, o2, m

\* One less
LEMMA ChainShrinks ==
  ASSUME NEW s \in Seq(Token), NEW o \in OpSeq, NEW p \in 0..Len(s), NEW po, NEW q,
         Chain(s, o, p, po, q), o # <<>>, NEW r \in p..Len(s),
         Depth(s, r) = Depth(s, po[Len(o) - 1])
  PROVE  Chain(s, Front(o), r, Cut(po, Len(o)), Cut(q, Len(o)))
<1> DEFINE m == Len(o) o2 == Front(o) po2 == Cut(po, m) q2 == Cut(q, m)
<1>1. m \in Nat \ {0} /\ Len(o2) = m - 1 /\ o2 \in OpSeq /\ \A j \in 1..m-1 : o2[j] = o[j]
  BY FrontIs DEF OpSeq
<1>2. /\ po \in [0..m -> 0..Len(s)] /\ q \in [0..m -> Nat] /\ po[0] = 0 /\ q[0] = 0
      /\ \A j \in 1..m : Pending(s, o, po, q, j)
      /\ \A i \in 0..m, j \in 0..m : i <= j => q[i] <= q[j]
      /\ \A j \in 0..m : Depth(s, po[j]) >= 0
      /\ po[m] <= p /\ Depth(s, p) = Depth(s, po[m])
  BY DEF Chain
<1>3. po2 \in [0..m-1 -> 0..Len(s)] /\ \A j \in 0..m-1 : po2[j] = po[j]
  <2>1. m \in Nat \ {0} /\ po \in [0..m -> 0..Len(s)]
    BY <1>1, <1>2
  <2> HIDE DEF m
  <2> QED
    BY <2>1, CutIs
<1>4. q2 \in [0..m-1 -> Nat] /\ \A j \in 0..m-1 : q2[j] = q[j]
  <2>1. m \in Nat \ {0} /\ q \in [0..m -> Nat]
    BY <1>1, <1>2
  <2> HIDE DEF m
  <2> QED
    BY <2>1, CutIs
<1> HIDE DEF po2, q2, o2, m
<1>5. ASSUME NEW j \in 1..m-1 PROVE Pending(s, o2, po2, q2, j)
  <2>1. j \in 0..m-1 /\ j - 1 \in 0..m-1 /\ j \in 1..m
    BY <1>1
  <2> QED
    BY <1>1, <1>2, <1>3, <1>4, <2>1, ZenonT(40) DEF Pending
<1>6. \A i \in 0..m-1, j \in 0..m-1 : i <= j => q2[i] <= q2[j]
  BY <1>1, <1>2, <1>4
<1>7. \A j \in 0..m-1 : Depth(s, po2[j]) >= 0
  BY <1>1, <1>2, <1>3
<1>8. po2[0] = 0 /\ q2[0] = 0 /\ po2[m - 1] <= r /\ Depth(s, r) = Depth(s, po2[m - 1])
  <2>1. m - 1 \in 0..m-1 /\ 0 \in 0..m-1 /\ m \in 1..m /\ m - 1 \in 0..m /\ m \in 0..m
    BY <1>1
  <2>2. po[m - 1] < po[m]
    BY <1>2, <2>1 DEF Pending
  <2>3. po[m - 1] \in Int /\ po[m] \in Int
    BY <1>2, <2>1
  <2>4. Depth(s, r) = Depth(s, po[m - 1])
    BY DEF m
  <2> QED
    BY <1>2, <1>3, <1>4, <2>1, <2>2, <2>3, <2>4
<1>9. Chain(s, o2, r, po2, q2)
  BY <1>1, <1>3, <1>4, <1>5, <1>6, <1>7, <1>8 DEF Chain
<1> QED
  BY <1>9 DEF po2, q2, o2, m

\* Where what is pending is
LEMMA ChainTyped ==
  ASSUME NEW s \in Seq(Token), NEW o \in OpSeq, NEW p \in 0..Len(s), NEW po, NEW q, Chain(s, o, p, po, q)
  PROVE  /\ Len(o) \in Nat /\ p \in Nat /\ Len(s) \in Nat
         /\ \A j \in 0..Len(o) : po[j] \in 0..Len(s) /\ q[j] \in Nat
         /\ \A j \in 1..Len(o) : /\ o[j] \in Operators \union {"("} /\ s[po[j]].op = o[j] /\ po[j - 1] < po[j]
                                 /\ po[j] \in 1..Len(s) /\ j - 1 \in 0..Len(o)
                                 /\ q[j] = q[j - 1] + (IF o[j] = "(" THEN 0 ELSE 1)
                                 /\ q[j] <= q[Len(o)]
         /\ po[Len(o)] <= p
<1>1. o \in Seq(Operators \union {"("}) /\ Len(o) \in Nat /\ p \in Nat /\ Len(s) \in Nat
  BY DEF OpSeq
<1>2. /\ po \in [0..Len(o) -> 0..Len(s)] /\ q \in [0..Len(o) -> Nat]
      /\ \A j \in 1..Len(o) : Pending(s, o, po, q, j)
      /\ \A i \in 0..Len(o), j \in 0..Len(o) : i <= j => q[i] <= q[j]
      /\ po[Len(o)] <= p
  BY DEF Chain
<1>3. ASSUME NEW j \in 1..Len(o)
      PROVE  /\ o[j] \in Operators \union {"("} /\ s[po[j]].op = o[j] /\ po[j - 1] < po[j]
             /\ po[j] \in 1..Len(s) /\ j - 1 \in 0..Len(o)
             /\ q[j] = q[j - 1] + (IF o[j] = "(" THEN 0 ELSE 1)
             /\ q[j] <= q[Len(o)]
  <2>1. j \in 0..Len(o) /\ j - 1 \in 0..Len(o) /\ Len(o) \in 0..Len(o) /\ j <= Len(o)
    BY <1>1
  <2>2. Pending(s, o, po, q, j) /\ po[j] \in 0..Len(s) /\ po[j - 1] \in 0..Len(s)
    BY <1>2, <2>1
  <2>3. po[j - 1] < po[j] /\ s[po[j]].op = o[j] /\ q[j] = q[j - 1] + (IF o[j] = "(" THEN 0 ELSE 1)
    BY <2>2 DEF Pending
  <2>4. po[j] \in 1..Len(s)
    BY <1>1, <2>2, <2>3
  <2>5. q[j] <= q[Len(o)]
    BY <1>2, <2>1
  <2>6. o[j] \in Operators \union {"("}
    BY <1>1
  <2> QED
    BY <2>1, <2>3, <2>4, <2>5, <2>6
<1> QED
  BY <1>1, <1>2, <1>3

\* A pending operator stays where it is.
LEMMA PlacedSame ==
  ASSUME NEW s, NEW o, NEW st, NEW po, NEW q, NEW o2, NEW st2, NEW po2, NEW q2, NEW j \in Nat \ {0},
         o2[j] = o[j], j > 1 => o2[j - 1] = o[j - 1], po2[j] = po[j], po2[j - 1] = po[j - 1],
         o[j] # "(" => q2[j] = q[j] /\ st2[q[j]] = st[q[j]],
         Placed(s, o, st, po, q, j)
  PROVE  Placed(s, o2, st2, po2, q2, j)
<1>1. Over(o2, j - 1) = Over(o, j - 1)
  BY DEF Over
<1>2. CASE o[j] = "("
  BY <1>2 DEF Placed
<1>3. CASE o[j] # "("
  BY <1>1, <1>3 DEF Placed
<1> QED
  BY <1>2, <1>3

\* Before everything nothing is pending.
LEMMA LaidInit ==
  ASSUME NEW s \in Seq(Token), NEW ok, ok, NEW slack, NEW floor
  PROVE  Laid(s, <<>>, <<>>, 0, ok, slack, floor)
<1> DEFINE z == [j \in 0..0 |-> 0]
<1>1. Len(<<>>) = 0 /\ Len(s) \in Nat /\ 0..0 = {0} /\ 1..0 = {} /\ z[0] = 0
  OBVIOUS
<1>2. z \in [0..0 -> 0..Len(s)] /\ z \in [0..0 -> Nat]
  BY <1>1
<1>3. Depth(s, 0) = 0
  BY DepthIs
<1> HIDE DEF z
<1>4. Chain(s, <<>>, 0, z, z)
  BY <1>1, <1>2, <1>3 DEF Chain
<1>5. Filled(s, <<>>, <<>>, 0, ok, slack, floor, z, z)
  BY <1>1 DEF Filled, Topped, Closes
<1> QED
  BY <1>4, <1>5 DEF Laid

\* A number
LEMMA LaidNumber ==
  ASSUME NEW s \in Seq(Token), NEW o \in OpSeq, NEW st \in Seq(Int), NEW e \in 0..Len(s), NEW ok \in BOOLEAN,
         NEW floor, NEW floor2, NEW f \in e+1..Len(s), NEW v \in Int, Laid(s, o, st, e, ok, 0, floor),
         ~Closes(s, e), Signed(s, e + 1, f), v = SignOf(s, e + 1, f) * s[f].nb
  PROVE  Laid(s, o, Append(st, v), f, ok, 1, floor2)
<1> DEFINE m == Len(o) st2 == Append(st, v)
<1>0. /\ e \in Nat /\ Len(s) \in Nat /\ f \in 1..Len(s) /\ f \in 0..Len(s) /\ e + 1 \in 1..Len(s)+1
      /\ (e + 1) - 1 = e /\ e + 1 <= f
  OBVIOUS
<1>1. PICK po, q : Chain(s, o, e, po, q) /\ Filled(s, o, st, e, ok, 0, floor, po, q)
  BY DEF Laid
<1>2. WellFormed(s, e + 1, f) /\ Base(s, e + 1, f) = {}
  BY <1>0, SignedFormed
<1>3. Depth(s, f) = Depth(s, e)
  BY <1>0, <1>2 DEF WellFormed
<1>4. Chain(s, o, f, po, q)
  <2>1. po[m] <= e /\ Depth(s, e) = Depth(s, po[m]) /\ po[m] \in 0..Len(s)
    BY <1>1, ChainTyped, SMTT(40) DEF Chain
  <2>2. po[m] <= f
    BY <1>0, <2>1
  <2> QED
    BY <1>1, <1>3, <2>1, <2>2 DEF Chain
<1>5. st2 \in Seq(Int) /\ Len(st2) = Len(st) + 1 /\ Len(st) \in Nat /\ Last(st2) = v
      /\ \A i \in 1..Len(st) : st2[i] = st[i]
  BY AppendIs
<1>6. Closes(s, f)
  BY <1>0 DEF Closes, Signed, Ends
<1> HIDE DEF st2
<1>7. CASE ok
  <2>1. /\ \A j \in 1..m : Placed(s, o, st, po, q, j)
        /\ Len(st) = q[m] /\ po[m] = e
    BY <1>1, <1>7 DEF Filled, Topped
  <2>2. ASSUME NEW j \in 1..m PROVE Placed(s, o, st2, po, q, j)
    <3>1. o[j] # "(" => q[j] \in 1..Len(st)
      <4>1. /\ q[j] \in Nat /\ q[j - 1] \in Nat /\ q[j] <= q[m] /\ j - 1 \in 0..m /\ m \in Nat
            /\ q[j] = q[j - 1] + (IF o[j] = "(" THEN 0 ELSE 1)
        <5>1. m \in Nat
          BY <1>1, ChainTyped
        <5>2. j \in 0..m /\ j - 1 \in 0..m
          BY <5>1
        <5> QED
          BY <1>1, <5>1, <5>2, ChainTyped, SMTT(40)
      <4> QED
        BY <1>5, <2>1, <4>1, SMTT(40)
    <3>2. o[j] # "(" => st2[q[j]] = st[q[j]]
      BY <1>5, <3>1
    <3>3. j \in Nat \ {0} /\ Placed(s, o, st, po, q, j)
      BY <2>1
    <3> QED
      BY <3>2, <3>3, PlacedSame
  <2>3. PlainMeanings(s)[<<e + 1, f>>] = Just(v)
    BY <1>0, MeaningsAre, NumberMeant
  <2>4. Value(s, po[m] + 1, f, v, Over(o, m), floor2)
    BY <1>0, <1>2, <2>1, <2>3 DEF Value
  <2>5. Topped(s, o, st2, f, floor2, po, q)
    BY <1>5, <1>6, <2>1, <2>4 DEF Topped
  <2>6. Filled(s, o, st2, f, ok, 1, floor2, po, q)
    BY <1>7, <2>2, <2>5 DEF Filled
  <2> QED
    BY <1>4, <2>6 DEF Laid, st2
<1>8. CASE ~ok
  <2>1. Len(st) < q[m] + 0 /\ q[m] \in Nat
    <3>1. m \in Nat
      BY <1>1, ChainTyped
    <3>2. m \in 0..m
      BY <3>1
    <3> QED
      BY <1>1, <1>8, <3>2, ChainTyped DEF Filled
  <2>2. Len(st2) < q[m] + 1
    BY <1>5, <2>1, SMTT(40)
  <2>3. Filled(s, o, st2, f, ok, 1, floor2, po, q)
    BY <1>8, <2>2 DEF Filled
  <2> QED
    BY <1>4, <2>3 DEF Laid, st2
<1> QED
  BY <1>7, <1>8

\* What is pending stays where it is below one more.
LEMMA Grows ==
  ASSUME NEW s \in Seq(Token), NEW o \in OpSeq, NEW e \in 0..Len(s), NEW po, NEW q,
         Chain(s, o, e, po, q), e + 1 \in 1..Len(s),
         NEW op \in Operators \union {"("}, s[e + 1].op = op, NEW st
  PROVE  \E po2, q2 :
           /\ Chain(s, Append(o, op), e + 1, po2, q2)
           /\ po2[Len(o) + 1] = e + 1 /\ po2[Len(o)] = po[Len(o)]
           /\ q2[Len(o) + 1] = q[Len(o)] + (IF op = "(" THEN 0 ELSE 1)
           /\ \A j \in 1..Len(o) : Placed(s, o, st, po, q, j) => Placed(s, Append(o, op), st, po2, q2, j)
<1> DEFINE m == Len(o) o2 == Append(o, op) f == e + 1 x == q[m] + (IF op = "(" THEN 0 ELSE 1)
           po2 == Extend(po, m, f) q2 == Extend(q, m, x)
<1>1. m \in Nat /\ f \in 0..Len(s) /\ m \in 0..m
  BY DEF OpSeq
<1>2. o2[m + 1] = op /\ \A j \in 1..m : o2[j] = o[j]
  <2>1. o \in Seq(Operators \union {"("})
    BY DEF OpSeq
  <2> QED
    BY <2>1, AppendIs
<1>3. po \in [0..m -> 0..Len(s)] /\ q \in [0..m -> Nat]
  BY DEF Chain
<1>4. x \in Nat
  BY <1>1, <1>3, SMTT(40)
<1>5. po2[m + 1] = f /\ \A j \in 0..m : po2[j] = po[j]
  <2> HIDE DEF m, f
  <2> QED
    BY <1>1, <1>3 DEF Extend
<1>6. q2[m + 1] = x /\ \A j \in 0..m : q2[j] = q[j]
  <2> HIDE DEF m, x
  <2> QED
    BY <1>1, <1>3, <1>4 DEF Extend
<1>7. Chain(s, o2, f, po2, q2)
  BY ChainGrows
<1> HIDE DEF po2, q2, o2
<1>8. ASSUME NEW j \in 1..m, Placed(s, o, st, po, q, j) PROVE Placed(s, o2, st, po2, q2, j)
  <2>1. j \in Nat \ {0} /\ j \in 0..m /\ j - 1 \in 0..m /\ (j > 1 => j - 1 \in 1..m)
    BY <1>1
  <2>2. o2[j] = o[j] /\ (j > 1 => o2[j - 1] = o[j - 1])
    BY <1>2, <2>1
  <2>3. po2[j] = po[j] /\ po2[j - 1] = po[j - 1] /\ q2[j] = q[j]
    BY <1>5, <1>6, <2>1
  <2> QED
    BY <1>8, <2>1, <2>2, <2>3, PlacedSame
<1> QED
  BY <1>1, <1>5, <1>6, <1>7, <1>8 DEF o2

\* A ( is put on top.
LEMMA LaidOpen ==
  ASSUME NEW s \in Seq(Token), NEW o \in OpSeq, NEW st \in Seq(Int), NEW e \in 0..Len(s), NEW ok \in BOOLEAN,
         NEW floor, NEW floor2, e + 1 \in 1..Len(s), s[e + 1].op = "(", ~Closes(s, e),
         Laid(s, o, st, e, ok, 0, floor)
  PROVE  Laid(s, Append(o, "("), st, e + 1, ok, 0, floor2)
<1> DEFINE m == Len(o) o2 == Append(o, "(") f == e + 1
<1>1. PICK po, q : Chain(s, o, e, po, q) /\ Filled(s, o, st, e, ok, 0, floor, po, q)
  BY DEF Laid
<1>2. m \in Nat /\ m \in 0..m /\ q[m] \in Nat
  <2>1. m \in Nat
    BY DEF OpSeq
  <2> QED
    BY <1>1, <2>1, ChainTyped
<1>3. PICK po2, q2 :
        /\ Chain(s, o2, f, po2, q2)
        /\ po2[m + 1] = f /\ po2[m] = po[m] /\ q2[m + 1] = q[m] + 0
        /\ \A j \in 1..m : Placed(s, o, st, po, q, j) => Placed(s, o2, st, po2, q2, j)
  BY <1>1, Grows, ZenonT(40)
<1>4. Len(o2) = m + 1 /\ o2[m + 1] = "("
  BY AppendIs DEF OpSeq
<1>5. ~Closes(s, f)
  BY DEF Closes, Ends
<1> HIDE DEF o2, m
<1>6. CASE ok
  <2>1. Len(st) = q[m] /\ po[m] = e /\ \A j \in 1..m : Placed(s, o2, st, po2, q2, j)
    BY <1>1, <1>3, <1>6 DEF Filled, Topped, m
  <2>2. Placed(s, o2, st, po2, q2, m + 1)
    <3>1. (m + 1) - 1 = m
      BY <1>2
    <3> QED
      BY <1>3, <1>4, <2>1, <3>1 DEF Placed
  <2>3. \A j \in 1..m+1 : j \in 1..m \/ j = m + 1
    BY <1>2
  <2>4. Topped(s, o2, st, f, floor2, po2, q2)
    BY <1>2, <1>3, <1>4, <1>5, <2>1 DEF Topped
  <2>5. Filled(s, o2, st, f, ok, 0, floor2, po2, q2)
    BY <1>4, <1>6, <2>1, <2>2, <2>3, <2>4 DEF Filled
  <2> QED
    BY <1>3, <2>5 DEF Laid, o2
<1>7. CASE ~ok
  <2>1. Len(st) < q2[Len(o2)] + 0
    BY <1>1, <1>2, <1>3, <1>4, <1>7 DEF Filled, m
  <2>2. Filled(s, o2, st, f, ok, 0, floor2, po2, q2)
    BY <1>7, <2>1 DEF Filled
  <2> QED
    BY <1>3, <2>2 DEF Laid, o2
<1> QED
  BY <1>6, <1>7

\* An operator is, above what binds weaker, and the value in front of it is its left one.
LEMMA LaidPush ==
  ASSUME NEW s \in Seq(Token), NEW o \in OpSeq, NEW st \in Seq(Int), NEW e \in 0..Len(s), NEW ok \in BOOLEAN,
         NEW floor \in Int, NEW floor2, e + 1 \in 1..Len(s), NEW op \in Operators, s[e + 1].op = op,
         ok => Closes(s, e), Prec(op) > Over(o, Len(o)), Prec(op) <= floor,
         Laid(s, o, st, e, ok, 1, floor)
  PROVE  Laid(s, Append(o, op), st, e + 1, ok, 0, floor2)
<1> DEFINE m == Len(o) o2 == Append(o, op) f == e + 1
<1>1. PICK po, q : Chain(s, o, e, po, q) /\ Filled(s, o, st, e, ok, 1, floor, po, q)
  BY DEF Laid
<1>2. m \in Nat /\ m \in 0..m /\ q[m] \in Nat
  <2>1. m \in Nat
    BY DEF OpSeq
  <2> QED
    BY <1>1, <2>1, ChainTyped
<1>o. op \in Operators \union {"("} /\ op # "("
  BY PrecIs
<1>3. PICK po2, q2 :
        /\ Chain(s, o2, f, po2, q2)
        /\ po2[m + 1] = f /\ po2[m] = po[m] /\ q2[m + 1] = q[m] + 1
        /\ \A j \in 1..m : Placed(s, o, st, po, q, j) => Placed(s, o2, st, po2, q2, j)
  BY <1>1, <1>o, Grows
<1>4. Len(o2) = m + 1 /\ o2[m + 1] = op /\ \A i \in 1..m : o2[i] = o[i]
  BY <1>o, AppendIs DEF OpSeq
<1>5. ~Closes(s, f)
  BY DEF Closes, Ends, Operators, Sums, Products
<1>6. Over(o2, m) = Over(o, m)
  BY <1>2, <1>4 DEF Over
<1> HIDE DEF o2, m
<1>7. CASE ok
  <2>1. /\ Len(st) = q[m] + 1 /\ Value(s, po[m] + 1, e, Last(st), Over(o, m), floor)
        /\ \A j \in 1..m : Placed(s, o2, st, po2, q2, j)
    BY <1>1, <1>3, <1>7 DEF Filled, Topped, m
  <2>2. Placed(s, o2, st, po2, q2, m + 1)
    <3>1. (m + 1) - 1 = m /\ f - 1 = e
      BY <1>2
    <3>2. Last(st) = st[q2[m + 1]]
      BY <1>3, <2>1 DEF Last
    <3>3. ASSUME NEW i \in Base(s, po[m] + 1, e), Prec(s[i].op) >= floor PROVE Prec(s[i].op) >= Prec(op)
      <4>1. s[i].op \in Operators
        BY DEF Base, Binary
      <4>2. Prec(s[i].op) \in Int /\ Prec(op) \in Int
        BY <4>1, PrecIs
      <4> QED
        BY <3>3, <4>2
    <3>4. Value(s, po[m] + 1, e, Last(st), Over(o, m), Prec(op))
      BY <2>1, <3>3 DEF Value
    <3> QED
      BY <1>o, <1>3, <1>4, <1>6, <3>1, <3>2, <3>4 DEF Placed
  <2>3. \A j \in 1..m+1 : j \in 1..m \/ j = m + 1
    BY <1>2
  <2>4. Topped(s, o2, st, f, floor2, po2, q2)
    BY <1>2, <1>3, <1>4, <1>5, <2>1 DEF Topped
  <2>5. Filled(s, o2, st, f, ok, 0, floor2, po2, q2)
    BY <1>4, <1>7, <2>1, <2>2, <2>3, <2>4 DEF Filled
  <2> QED
    BY <1>3, <2>5 DEF Laid, o2
<1>8. CASE ~ok
  <2>1. Len(st) < q2[Len(o2)] + 0
    BY <1>1, <1>2, <1>3, <1>4, <1>8 DEF Filled, m
  <2>2. Filled(s, o2, st, f, ok, 0, floor2, po2, q2)
    BY <1>8, <2>1 DEF Filled
  <2> QED
    BY <1>3, <2>2 DEF Laid, o2
<1> QED
  BY <1>7, <1>8

\* Before an operator, a ) or the end, what is on the way is either right or one value
\* short.
LEMMA LaidEnter ==
  ASSUME NEW s \in Seq(Token), NEW o \in OpSeq, NEW st \in Seq(Int), NEW e \in 0..Len(s), NEW ok \in BOOLEAN,
         NEW floor \in Int, NEW ok2 \in BOOLEAN, NEW floor2 \in Int, floor2 <= floor,
         ok2 => ok, ok /\ ~ok2 => ~Closes(s, e),
         Laid(s, o, st, e, ok, IF Closes(s, e) THEN 1 ELSE 0, floor)
  PROVE  Laid(s, o, st, e, ok2, 1, floor2)
<1> DEFINE m == Len(o)
<1>1. PICK po, q : /\ Chain(s, o, e, po, q)
                   /\ Filled(s, o, st, e, ok, IF Closes(s, e) THEN 1 ELSE 0, floor, po, q)
  BY DEF Laid
<1>2. m \in Nat /\ m \in 0..m /\ q[m] \in Nat
  <2>1. m \in Nat
    BY DEF OpSeq
  <2> QED
    BY <1>1, <2>1, ChainTyped
<1>3. CASE ok /\ ok2
  <2>1. Topped(s, o, st, e, floor, po, q)
    BY <1>1, <1>3 DEF Filled
  <2>2. ASSUME NEW i \in Base(s, po[m] + 1, e), Prec(s[i].op) >= floor PROVE Prec(s[i].op) >= floor2
    <3>1. Prec(s[i].op) \in Int
      BY PrecIs, SMTT(40) DEF Base, Binary
    <3> QED
      BY <2>2, <3>1
  <2>3. Value(s, po[m] + 1, e, Last(st), Over(o, m), floor) => Value(s, po[m] + 1, e, Last(st), Over(o, m), floor2)
    BY <2>2 DEF Value
  <2>4. Topped(s, o, st, e, floor2, po, q)
    BY <2>1, <2>3 DEF Topped
  <2> QED
    BY <1>1, <1>3, <2>4 DEF Filled, Laid
<1>4. CASE ok /\ ~ok2
  <2>1. Len(st) = q[m]
    BY <1>1, <1>4 DEF Filled, Topped
  <2>2. Len(st) < q[m] + 1
    BY <1>2, <2>1
  <2> QED
    BY <1>1, <1>4, <2>2 DEF Filled, Laid
<1>5. CASE ~ok
  <2>1. Len(st) < q[m] + (IF Closes(s, e) THEN 1 ELSE 0) /\ Len(st) \in Nat
    BY <1>1, <1>5 DEF Filled
  <2>2. Len(st) < q[m] + 1
    BY <1>2, <2>1
  <2> QED
    BY <1>1, <1>5, <2>2 DEF Filled, Laid
<1> QED
  BY <1>3, <1>4, <1>5

\* What is pending stays where it is when the top goes.
LEMMA Shrinks ==
  ASSUME NEW s \in Seq(Token), NEW o \in OpSeq, NEW p \in 0..Len(s), NEW po, NEW q,
         Chain(s, o, p, po, q), o # <<>>, NEW r \in p..Len(s),
         Depth(s, r) = Depth(s, po[Len(o) - 1]), NEW st, NEW st2,
         \A i \in 1..q[Len(o) - 1] : st2[i] = st[i]
  PROVE  \E po2, q2 :
           /\ Chain(s, Front(o), r, po2, q2)
           /\ po2[Len(o) - 1] = po[Len(o) - 1] /\ q2[Len(o) - 1] = q[Len(o) - 1]
           /\ \A j \in 1..Len(o) - 1 : Placed(s, o, st, po, q, j) => Placed(s, Front(o), st2, po2, q2, j)
<1> DEFINE m == Len(o) o2 == Front(o) po2 == Cut(po, m) q2 == Cut(q, m)
<1>1. m \in Nat \ {0} /\ m - 1 \in 0..m-1 /\ \A j \in 1..m-1 : o2[j] = o[j]
  <2>1. m \in Nat \ {0} /\ \A j \in 1..m-1 : o2[j] = o[j]
    BY FrontIs DEF OpSeq
  <2> QED
    BY <2>1
<1>2. /\ po \in [0..m -> 0..Len(s)] /\ q \in [0..m -> Nat]
      /\ \A i \in 0..m, j \in 0..m : i <= j => q[i] <= q[j]
  BY DEF Chain
<1>3. \A j \in 0..m-1 : po2[j] = po[j]
  <2> HIDE DEF m
  <2> QED
    BY <1>1, <1>2 DEF Cut
<1>4. \A j \in 0..m-1 : q2[j] = q[j]
  <2> HIDE DEF m
  <2> QED
    BY <1>1, <1>2 DEF Cut
<1>5. Chain(s, o2, r, po2, q2)
  BY ChainShrinks
<1> HIDE DEF po2, q2, o2
<1>6. ASSUME NEW j \in 1..m-1, Placed(s, o, st, po, q, j) PROVE Placed(s, o2, st2, po2, q2, j)
  <2>1. /\ j \in Nat \ {0} /\ j \in 0..m-1 /\ j - 1 \in 0..m-1 /\ (j > 1 => j - 1 \in 1..m-1)
        /\ j \in 1..m /\ j <= m - 1 /\ j \in 0..m /\ m - 1 \in 0..m /\ j - 1 \in 0..m
    BY <1>1
  <2>2. o2[j] = o[j] /\ (j > 1 => o2[j - 1] = o[j - 1])
    BY <1>1, <2>1
  <2>3. po2[j] = po[j] /\ po2[j - 1] = po[j - 1] /\ q2[j] = q[j]
    BY <1>3, <1>4, <2>1
  <2>4. o[j] # "(" => q[j] \in 1..q[m - 1]
    <3>1. q[j] = q[j - 1] + (IF o[j] = "(" THEN 0 ELSE 1)
      BY <2>1, ChainTyped
    <3>2. q[j] \in Nat /\ q[j - 1] \in Nat /\ q[m - 1] \in Nat /\ q[j] <= q[m - 1]
      BY <1>2, <2>1
    <3> QED
      BY <3>1, <3>2
  <2> QED
    BY <1>6, <2>1, <2>2, <2>3, <2>4, PlacedSame
<1> QED
  BY <1>1, <1>3, <1>4, <1>5, <1>6 DEF o2

\* What the top operator and the two values it is applied to mean
TopIs(s, o, st, p, po, q) ==
  /\ Len(st) = q[Len(o) - 1] + 2 /\ Len(st) > 1 /\ q[Len(o) - 1] \in Nat
  /\ po[Len(o) - 1] + 1 \in 1..Len(s)+1 /\ po[Len(o) - 1] + 1 <= p /\ ~Closes(s, po[Len(o) - 1])
  /\ PlainMeanings(s)[<<po[Len(o) - 1] + 1, p>>] =
       IF Last(o) = "/" /\ Last(st) = 0 THEN NoValue
       ELSE Just(Compute(Last(o), Last(Front(st)), Last(st)))
  /\ \A i \in Base(s, po[Len(o) - 1] + 1, p) :
       Prec(s[i].op) >= Prec(Last(o)) /\ Prec(s[i].op) > Over(o, Len(o) - 1)

\* The two last values are those of the spans around the operator on top.
LEMMA TopMeans ==
  ASSUME NEW s \in Seq(Token), NEW o \in OpSeq, NEW st \in Seq(Int), NEW p \in 0..Len(s), NEW ok, NEW slack, NEW floor,
         NEW po, NEW q, Chain(s, o, p, po, q), Filled(s, o, st, p, ok, slack, floor, po, q), ok, Closes(s, p), o # <<>>, Last(o) \in Operators,
         Over(o, Len(o) - 1) < Prec(Last(o))
  PROVE  TopIs(s, o, st, p, po, q)
<1> DEFINE m == Len(o) op == Last(o) a == po[m - 1] + 1 c == po[m] v == Over(o, m - 1)
           M == PlainMeanings(s)
<1>0. m \in Nat \ {0} /\ op = o[m]
  BY FrontIs DEF OpSeq
<1>1. /\ m \in Nat \ {0} /\ op = o[m] /\ m \in 1..m /\ m \in 0..m /\ m - 1 \in 0..m
      /\ (m # 1 => m - 1 \in 1..m) /\ m - 1 # m /\ (m = 1 <=> m - 1 = 0)
  <2> HIDE DEF m
  <2> QED
    BY <1>0
<1>l. Len(s) \in Nat /\ p \in Nat /\ p <= Len(s) /\ Len(st) \in Nat
  OBVIOUS
<1>2. /\ c \in 1..Len(s) /\ po[m - 1] \in 0..Len(s) /\ po[m - 1] < c /\ s[c].op = op
      /\ q[m] = q[m - 1] + 1 /\ q[m - 1] \in Nat /\ c <= p
  <2>1. op # "("
    BY PrecIs
  <2> QED
    BY <1>1, <2>1, ChainTyped, SMTT(40)
<1>3. Len(st) = q[m] + 1 /\ Value(s, c + 1, p, Last(st), Over(o, m), floor)
  BY DEF Filled, Topped
<1>4. Value(s, a, c - 1, st[q[m]], v, Prec(op))
  <2>1. op # "("
    BY PrecIs
  <2> QED
    BY <1>1, <2>1 DEF Filled, Placed
<1>5. Over(o, m) = Prec(op)
  BY <1>1 DEF Over
<1>6. Last(st) \in Int /\ st[q[m]] \in Int /\ st[q[m]] = Last(Front(st)) /\ Len(st) \in Nat
  <2>1. /\ st # <<>> /\ Len(st) \in Nat /\ Len(st) - 1 = q[m] /\ q[m] \in 1..Len(st) - 1
        /\ q[m] \in 1..Len(st)
    <3>1. Len(st) = q[m] + 1 /\ q[m] \in Nat \ {0}
      BY <1>2, <1>3, SMTT(40)
    <3> QED
      BY <1>l, <3>1, SMTT(40)
  <2>2. /\ Front(st) \in Seq(Int) /\ Len(Front(st)) = Len(st) - 1 /\ Last(st) \in Int
        /\ \A i \in 1..Len(st)-1 : Front(st)[i] = st[i]
    BY <2>1, FrontIs
  <2>3. Last(Front(st)) = Front(st)[q[m]] /\ Front(st)[q[m]] = st[q[m]]
    BY <2>1, <2>2 DEF Last
  <2> QED
    BY <2>1, <2>2, <2>3
<1>7. /\ a \in 1..Len(s)+1 /\ c \in a+1..p-1 /\ (a - 1) = po[m - 1] /\ a <= p
  <2>1. a <= c - 1 /\ c + 1 <= p
    BY <1>3, <1>4 DEF Value
  <2>2. po[m - 1] \in Nat /\ c \in Nat
    BY <1>2, <1>l
  <2>3. \A x \in Nat, y \in Nat :
          x + 1 <= y - 1 /\ y + 1 <= p =>
            x + 1 \in 1..Len(s)+1 /\ y \in (x + 1)+1..p-1 /\ (x + 1) - 1 = x /\ x + 1 <= p
    BY <1>l
  <2>4. po[m - 1] + 1 <= c - 1 /\ c + 1 <= p
    BY <2>1
  <2> HIDE DEF c, m
  <2> QED
    BY <2>2, <2>3, <2>4 DEF a
<1>8. /\ M[<<a, c - 1>>] = Just(st[q[m]]) /\ M[<<c + 1, p>>] = Just(Last(st))
      /\ ~Closes(s, a - 1)
      /\ \A i \in Base(s, a, c - 1) : Prec(s[i].op) > v /\ Prec(s[i].op) >= Prec(op)
      /\ \A i \in Base(s, c + 1, p) : Prec(s[i].op) > Prec(op)
  BY <1>3, <1>4, <1>5 DEF Value
<1>9. /\ M[<<a, c - 1>>].how = "value" /\ M[<<a, c - 1>>].value = st[q[m]]
      /\ M[<<c + 1, p>>].how = "value" /\ M[<<c + 1, p>>].value = Last(st)
  BY <1>6, <1>8, MeaningSetIs, SMTT(40)
<1> HIDE DEF M, a, c
<1>10. /\ M[<<a, p>>] = IF op = "/" /\ Last(st) = 0 THEN NoValue
                        ELSE Just(Compute(op, st[q[m]], Last(st)))
       /\ \A i \in Base(s, a, p) : i = c \/ i \in Base(s, a, c - 1) \/ i \in Base(s, c + 1, p)
  <2>1. Reads0(s, M)
    BY MeaningsAre DEF M
  <2>2. s[c].op = op /\ \A i \in Base(s, a, c - 1) : Prec(s[i].op) >= Prec(s[c].op)
    BY <1>2, <1>8 DEF c
  <2>3. \A i \in Base(s, c + 1, p) : Prec(s[i].op) > Prec(s[c].op)
    BY <1>8, <2>2
  <2>4. p \in 0..Len(s)
    OBVIOUS
  <2>5. s[c].op \in Operators
    BY <2>2
  <2> HIDE DEF op
  <2>6. /\ M[<<a, p>>] =
              IF s[c].op = "/" /\ M[<<c + 1, p>>].value = 0 THEN NoValue
              ELSE Just(Compute(s[c].op, M[<<a, c - 1>>].value, M[<<c + 1, p>>].value))
        /\ \A i \in Base(s, a, p) : i = c \/ i \in Base(s, a, c - 1) \/ i \in Base(s, c + 1, p)
    BY <1>7, <1>8, <1>9, <2>1, <2>2, <2>3, <2>4, <2>5, JoinedMeant, ZenonT(40)
  <2> QED
    BY <1>9, <2>2, <2>6
<1>11. ASSUME NEW i \in Base(s, a, p) PROVE Prec(s[i].op) >= Prec(op) /\ Prec(s[i].op) > v
  <2>1. Prec(s[i].op) \in Int /\ Prec(op) \in Int /\ v \in Int
    <3>1. s[i].op \in Operators
      BY DEF Base, Binary
    <3>2. v \in Int
      <4>1. CASE m = 1
        BY <4>1 DEF Over
      <4>2. CASE m # 1
        <5>1. m - 1 \in 1..m /\ m - 1 # 0
          BY <1>1, <4>2
        <5>2. o[m - 1] \in Operators \union {"("}
          BY <5>1, ChainTyped
        <5>3. Prec(o[m - 1]) \in Int
          BY <5>2, PrecIs DEF Prec
        <5> QED
          BY <5>1, <5>3 DEF Over
      <4> QED
        BY <4>1, <4>2
    <3> QED
      BY <3>1, <3>2, PrecIs
  <2>2. v < Prec(op)
    OBVIOUS
  <2>3. CASE i = c
    BY <1>2, <2>1, <2>2, <2>3, SMTT(40) DEF c
  <2>4. CASE i \in Base(s, a, c - 1)
    BY <1>8, <2>4
  <2>5. CASE i \in Base(s, c + 1, p)
    BY <1>8, <2>1, <2>2, <2>5
  <2> QED
    BY <1>10, <2>3, <2>4, <2>5
<1>12. Len(st) = q[m - 1] + 2 /\ Len(st) > 1 /\ ~Closes(s, po[m - 1])
  <2>1. Len(st) = q[m] + 1 /\ q[m] = q[m - 1] + 1 /\ q[m - 1] \in Nat
    BY <1>2, <1>3
  <2> HIDE DEF m
  <2>2. Len(st) = q[m - 1] + 2 /\ Len(st) > 1
    BY <2>1
  <2>3. ~Closes(s, po[m - 1])
    BY <1>7, <1>8
  <2> QED
    BY <2>2, <2>3
<1> QED
  BY <1>2, <1>6, <1>7, <1>10, <1>11, <1>12 DEF a, M, TopIs

\* The parentheses open at the top, and below it
LEMMA ChainTop ==
  ASSUME NEW s \in Seq(Token), NEW o \in OpSeq, NEW p \in 0..Len(s), NEW po, NEW q, Chain(s, o, p, po, q), o # <<>>
  PROVE  /\ Depth(s, po[Len(o)]) = Depth(s, po[Len(o) - 1]) + (IF Last(o) = "(" THEN 1 ELSE 0)
         /\ Depth(s, p) = Depth(s, po[Len(o)]) /\ Depth(s, po[Len(o) - 1]) >= 0 /\ Depth(s, po[Len(o) - 1]) \in Int
<1>0. Len(o) \in Nat \ {0} /\ Last(o) = o[Len(o)]
  BY FrontIs DEF OpSeq
<1>1. /\ Len(o) \in Nat \ {0} /\ Last(o) = o[Len(o)] /\ Len(o) \in 1..Len(o) /\ Len(o) - 1 \in 0..Len(o)
      /\ Len(o) \in 0..Len(o)
  BY <1>0
<1>2. po[Len(o) - 1] \in Int
  BY <1>1, ChainTyped
<1> QED
  BY <1>1, <1>2, DepthIs DEF Chain, Pending

\* The top operator is applied.
LEMMA LaidMerge ==
  ASSUME NEW s \in Seq(Token), NEW o \in OpSeq, NEW st \in Seq(Int), NEW p \in 0..Len(s), NEW ok \in BOOLEAN,
         NEW slack \in Int, NEW floor \in Int, Laid(s, o, st, p, ok, slack, floor), o # <<>>, Last(o) \in Operators,
         Over(o, Len(o) - 1) < Prec(Last(o)), ok => Closes(s, p), floor <= Prec(Last(o)),
         Len(st) > 1, ~(Last(o) = "/" /\ Last(st) = 0)
  PROVE  Laid(s, Front(o), Append(Front(Front(st)), Compute(Last(o), Last(Front(st)), Last(st))), p, ok, slack, floor)
<1> DEFINE m == Len(o) op == Last(o) x == Compute(op, Last(Front(st)), Last(st))
           o2 == Front(o) st2 == Append(Front(Front(st)), x)
<1>1. PICK po, q : Chain(s, o, p, po, q) /\ Filled(s, o, st, p, ok, slack, floor, po, q)
  BY DEF Laid
<1>2. m \in Nat \ {0} /\ Len(o2) = m - 1 /\ op = o[m] /\ op # "(" /\ \A j \in 1..m-1 : o2[j] = o[j]
  BY FrontIs, PrecIs DEF OpSeq
<1>3. /\ Len(st) \in Nat /\ st2 \in Seq(Int) /\ Len(st2) = Len(st) - 1 /\ Last(st2) = x
      /\ \A i \in 1..Len(st)-2 : st2[i] = st[i]
  <2>0. st # <<>> /\ Len(st) \in Nat
    OBVIOUS
  <2>1. /\ Front(st) \in Seq(Int) /\ Len(Front(st)) = Len(st) - 1 /\ Last(st) \in Int
        /\ \A i \in 1..Len(st)-1 : Front(st)[i] = st[i]
    BY <2>0, FrontIs
  <2>2. Front(st) # <<>>
    BY <2>0, <2>1
  <2>3. /\ Front(Front(st)) \in Seq(Int) /\ Len(Front(Front(st))) = Len(st) - 2 /\ Last(Front(st)) \in Int
        /\ \A i \in 1..Len(st)-2 : Front(Front(st))[i] = Front(st)[i]
    <3>1. /\ Front(Front(st)) \in Seq(Int) /\ Len(Front(Front(st))) = Len(Front(st)) - 1
          /\ Last(Front(st)) \in Int
          /\ \A i \in 1..Len(Front(st))-1 : Front(Front(st))[i] = Front(st)[i]
      BY <2>1, <2>2, FrontIs
    <3>2. Len(Front(st)) - 1 = Len(st) - 2
      BY <2>0, <2>1
    <3> QED
      BY <3>1, <3>2
  <2>4. x \in Int
    BY <2>1, <2>3, ComputeIs
  <2> HIDE DEF x
  <2>5. /\ st2 \in Seq(Int) /\ Len(st2) = Len(Front(Front(st))) + 1 /\ Last(st2) = x
        /\ \A i \in 1..Len(Front(Front(st))) : st2[i] = Front(Front(st))[i]
    BY <2>3, <2>4, AppendIs
  <2>6. Len(Front(Front(st))) + 1 = Len(st) - 1
    BY <2>0, <2>3
  <2>7. ASSUME NEW i \in 1..Len(st)-2 PROVE st2[i] = st[i]
    <3>1. i \in 1..Len(st)-1 /\ i \in 1..Len(Front(Front(st)))
      BY <2>0, <2>3
    <3> QED
      BY <2>1, <2>3, <2>5, <3>1
  <2> QED
    BY <2>0, <2>5, <2>6, <2>7
<1>4. /\ q[m] = q[m - 1] + 1 /\ q[m - 1] \in Nat /\ q[m] \in Nat /\ po[m - 1] \in 0..Len(s)
  <2>1. m \in 1..m /\ m \in 0..m /\ m - 1 \in 0..m
    BY <1>2
  <2> QED
    BY <1>1, <1>2, <2>1, ChainTyped, SMTT(40)
<1>5. Depth(s, p) = Depth(s, po[m - 1]) /\ p \in p..Len(s)
  <2>1. Depth(s, p) = Depth(s, po[m - 1])
    BY <1>1, <1>2, ChainTop
  <2> QED
    BY <2>1
<1> HIDE DEF o2, st2, x, op, m
<1>6. CASE ok
  <2>1. /\ \A j \in 1..Len(o) : Placed(s, o, st, po, q, j) /\ Topped(s, o, st, p, floor, po, q)
    BY <1>1, <1>6 DEF Filled
  <2>2. /\ Len(st) = q[m - 1] + 2
        /\ po[m - 1] + 1 <= p /\ ~Closes(s, po[m - 1])
        /\ PlainMeanings(s)[<<po[m - 1] + 1, p>>] = Just(x)
        /\ \A i \in Base(s, po[m - 1] + 1, p) : Prec(s[i].op) >= Prec(op) /\ Prec(s[i].op) > Over(o, m - 1)
    <3>1. Filled(s, o, st, p, ok, slack, floor, po, q)
      BY <1>1
    <3>2. Closes(s, p) /\ ok
      BY <1>6
    <3>3. /\ Len(st) = q[m - 1] + 2
          /\ po[m - 1] + 1 <= p /\ ~Closes(s, po[m - 1])
          /\ PlainMeanings(s)[<<po[m - 1] + 1, p>>] = (IF op = "/" /\ Last(st) = 0 THEN NoValue ELSE Just(x))
          /\ \A i \in Base(s, po[m - 1] + 1, p) : Prec(s[i].op) >= Prec(op) /\ Prec(s[i].op) > Over(o, m - 1)
      <4>1. Chain(s, o, p, po, q) /\ p \in 0..Len(s)
        BY <1>1
      <4>2. TopIs(s, o, st, p, po, q)
        BY <3>1, <3>2, <4>1, TopMeans
      <4> QED
        BY <4>2 DEF TopIs, m, op, x
    <3> QED
      BY <3>3 DEF op
  <2>3. \A i \in 1..q[m - 1] : st2[i] = st[i]
    BY <1>3, <1>4, <2>2, SMTT(40)
  <2>4. PICK po2, q2 :
          /\ Chain(s, o2, p, po2, q2)
          /\ po2[m - 1] = po[m - 1] /\ q2[m - 1] = q[m - 1]
          /\ \A j \in 1..m-1 : Placed(s, o, st, po, q, j) => Placed(s, o2, st2, po2, q2, j)
    BY <1>1, <1>5, <2>3, Shrinks DEF m, o2
  <2>5. Over(o2, m - 1) = Over(o, m - 1)
    BY <1>2 DEF Over
  <2>6. ASSUME NEW i \in Base(s, po[m - 1] + 1, p) PROVE Prec(s[i].op) >= floor
    <3>1. s[i].op \in Operators
      BY DEF Base, Binary
    <3>2. Prec(s[i].op) \in Int /\ Prec(op) \in Int
      BY <3>1, PrecIs DEF op
    <3>3. Prec(s[i].op) >= Prec(op) /\ floor <= Prec(op)
      BY <2>2 DEF op
    <3> QED
      BY <3>2, <3>3
  <2>7. Value(s, po[m - 1] + 1, p, x, Over(o2, m - 1), floor)
    <3>1. (po[m - 1] + 1) - 1 = po[m - 1]
      BY <1>4
    <3> QED
      BY <2>2, <2>5, <2>6, <3>1 DEF Value
  <2>8. Topped(s, o2, st2, p, floor, po2, q2)
    <3>1. Len(st2) = q[m - 1] + 1
      BY <1>3, <1>4, <2>2, SMTT(40)
    <3> QED
      BY <1>2, <1>3, <1>6, <2>4, <2>7, <3>1 DEF Topped
  <2>9. \A j \in 1..Len(o2) : Placed(s, o2, st2, po2, q2, j)
    <3>1. \A j \in 1..m-1 : j \in 1..m
      BY <1>2
    <3>2. \A j \in 1..m : Placed(s, o, st, po, q, j)
      BY <1>1, <1>6 DEF Filled, m
    <3> QED
      BY <1>2, <2>4, <3>1, <3>2
  <2>10. Filled(s, o2, st2, p, ok, slack, floor, po2, q2)
    BY <1>6, <2>8, <2>9 DEF Filled
  <2> QED
    BY <2>4, <2>10 DEF Laid, o2, st2, x, op
<1>7. CASE ~ok
  <2>1. PICK po2, q2 :
          /\ Chain(s, o2, p, po2, q2)
          /\ po2[m - 1] = po[m - 1] /\ q2[m - 1] = q[m - 1]
    BY <1>1, <1>5, Shrinks DEF m, o2
  <2>2. Len(st) < q[m] + slack
    BY <1>1, <1>7 DEF Filled, m
  <2>3. Len(st2) < q2[m - 1] + slack
    <3>1. Len(st2) = Len(st) - 1 /\ Len(st) \in Nat /\ Len(st) < q[m - 1] + 1 + slack /\ q[m - 1] \in Nat
      BY <1>3, <1>4, <2>2
    <3> QED
      BY <2>1, <3>1, SMTT(40)
  <2>4. Filled(s, o2, st2, p, ok, slack, floor, po2, q2)
    BY <1>2, <1>7, <2>3 DEF Filled
  <2> QED
    BY <2>1, <2>4 DEF Laid, o2, st2, x, op
<1> QED
  BY <1>6, <1>7

\* The top of what is pending
LEMMA ChainNonempty ==
  ASSUME NEW s \in Seq(Token), NEW o \in OpSeq, NEW p \in 0..Len(s), NEW po, NEW q, Chain(s, o, p, po, q), o # <<>>
  PROVE  /\ Len(o) \in Nat \ {0} /\ Last(o) = o[Len(o)] /\ Last(o) \in Operators \union {"("}
         /\ po[Len(o)] \in 1..Len(s) /\ po[Len(o) - 1] \in 0..Len(s) /\ po[Len(o) - 1] < po[Len(o)]
         /\ po[Len(o)] <= p /\ s[po[Len(o)]].op = Last(o)
         /\ q[Len(o)] = q[Len(o) - 1] + (IF Last(o) = "(" THEN 0 ELSE 1) /\ q[Len(o) - 1] \in Nat /\ q[Len(o)] \in Nat
<1>1. Len(o) \in Nat \ {0} /\ Last(o) = o[Len(o)]
  BY FrontIs DEF OpSeq
<1>2. Len(o) \in 1..Len(o) /\ Len(o) \in 0..Len(o) /\ Len(o) - 1 \in 0..Len(o)
  BY <1>1
<1> QED
  BY <1>1, <1>2, ChainTyped

\* A ( that is closed
LEMMA LaidClosed ==
  ASSUME NEW s \in Seq(Token), NEW o \in OpSeq, NEW st \in Seq(Int), NEW p \in 0..Len(s), NEW ok \in BOOLEAN,
         NEW floor, NEW floor2, Laid(s, o, st, p, ok, 1, floor), o # <<>>, Last(o) = "(",
         ok => Closes(s, p), p + 1 \in 1..Len(s), s[p + 1].op = ")"
  PROVE  Laid(s, Front(o), st, p + 1, ok, 1, floor2)
<1> DEFINE m == Len(o) o2 == Front(o) r == p + 1
<1>1. PICK po, q : Chain(s, o, p, po, q) /\ Filled(s, o, st, p, ok, 1, floor, po, q)
  BY DEF Laid
<1>2. /\ m \in Nat \ {0} /\ Len(o2) = m - 1 /\ o[m] = "(" /\ \A j \in 1..m-1 : o2[j] = o[j]
  BY FrontIs DEF OpSeq
<1>3. /\ q[m] = q[m - 1] /\ q[m - 1] \in Nat /\ po[m - 1] \in 0..Len(s) /\ po[m] \in 1..Len(s)
      /\ po[m] <= p /\ s[po[m]].op = "(" /\ po[m - 1] < po[m]
  BY <1>1, ChainNonempty
<1>4. Depth(s, r) = Depth(s, po[m - 1]) /\ r \in p..Len(s) /\ r \in 0..Len(s)
  <2>1. Depth(s, po[m]) = Depth(s, po[m - 1]) + 1 /\ Depth(s, p) = Depth(s, po[m]) /\ Depth(s, po[m - 1]) \in Int
    BY <1>1, ChainTop
  <2>2. r \in Nat \ {0} /\ r - 1 = p /\ r \in p..Len(s) /\ r \in 0..Len(s)
    OBVIOUS
  <2>3. Depth(s, r) = Depth(s, r - 1) + -1
    BY <2>2, DepthIs
  <2> QED
    BY <2>1, <2>2, <2>3
<1>5. PICK po2, q2 :
        /\ Chain(s, o2, r, po2, q2)
        /\ po2[m - 1] = po[m - 1] /\ q2[m - 1] = q[m - 1]
        /\ \A j \in 1..m-1 : Placed(s, o, st, po, q, j) => Placed(s, o2, st, po2, q2, j)
  BY <1>1, <1>4, Shrinks
<1>6. Closes(s, r)
  BY DEF Closes, Ends
<1> HIDE DEF m, o2, r
<1>7. CASE ok
  <2>1. Closes(s, p) /\ \A j \in 1..m : Placed(s, o, st, po, q, j)
    BY <1>1, <1>7 DEF Filled, m
  <2>2. Len(st) = q[m] + 1 /\ Value(s, po[m] + 1, p, Last(st), Over(o, m), floor)
    BY <1>1, <1>7, <2>1 DEF Filled, Topped, m
  <2>3. po[m] = po[m - 1] + 1
    <3>1. m \in 1..m
      BY <1>2
    <3> QED
      BY <1>2, <2>1, <3>1 DEF Placed
  <2>4. Last(st) \in Int
    <3>1. st # <<>>
      BY <1>3, <2>2
    <3> QED
      BY <3>1, FrontIs
  <2>5. /\ PlainMeanings(s)[<<po[m], r>>] = Just(Last(st)) /\ Base(s, po[m], r) = {} /\ po[m] <= r
    <3>1. po[m] \in 1..Len(s) /\ r \in 1..Len(s) /\ po[m] < r /\ r - 1 = p
      <4>1. r = p + 1 /\ r \in 1..Len(s) /\ p \in Nat
        BY DEF r
      <4> QED
        BY <1>3, <4>1
    <3>2. s[r].op = ")"
      BY DEF r
    <3>3. PlainMeanings(s)[<<po[m] + 1, r - 1>>] = Just(Last(st))
      BY <2>2, <3>1 DEF Value
    <3>4. PlainMeanings(s)[<<po[m] + 1, r - 1>>].how # "bad"
      BY <2>4, <3>3, MeaningSetIs
    <3>5. PlainMeanings(s)[<<po[m], r>>] = PlainMeanings(s)[<<po[m] + 1, r - 1>>] /\ Base(s, po[m], r) = {}
      BY <1>3, <3>1, <3>2, <3>4, MeaningsAre, EnclosedMeant
    <3> QED
      BY <3>1, <3>3, <3>5
  <2>6. ~Closes(s, po[m - 1]) /\ (po[m - 1] + 1) - 1 = po[m - 1]
    <3>1. CASE m = 1
      BY <1>1, <3>1 DEF Chain, Closes
    <3>2. CASE m # 1
      <4>1. m - 1 \in 1..m
        BY <1>2, <3>2
      <4>2. s[po[m - 1]].op = o[m - 1] /\ o[m - 1] \in Operators \union {"("}
        BY <1>1, <4>1, ChainTyped DEF m
      <4> QED
        BY <1>3, <4>2, SMTT(40) DEF Closes, Ends, Operators, Sums, Products
    <3> QED
      BY <3>1, <3>2
  <2>7. Value(s, po[m - 1] + 1, r, Last(st), Over(o2, m - 1), floor2)
    BY <2>3, <2>5, <2>6 DEF Value
  <2>8. Topped(s, o2, st, r, floor2, po2, q2)
    BY <1>2, <1>3, <1>5, <1>6, <2>2, <2>7 DEF Topped
  <2>9. \A j \in 1..Len(o2) : Placed(s, o2, st, po2, q2, j)
    <3>1. \A j \in 1..m-1 : j \in 1..m
      BY <1>2
    <3> QED
      BY <1>2, <1>5, <2>1, <3>1
  <2>10. Filled(s, o2, st, r, ok, 1, floor2, po2, q2)
    BY <1>7, <2>8, <2>9 DEF Filled
  <2> QED
    BY <1>5, <2>10 DEF Laid, o2, r
<1>8. CASE ~ok
  <2>1. Len(st) < q2[Len(o2)] + 1
    BY <1>1, <1>2, <1>3, <1>5, <1>8 DEF Filled, m
  <2>2. Filled(s, o2, st, r, ok, 1, floor2, po2, q2)
    BY <1>8, <2>1 DEF Filled
  <2> QED
    BY <1>5, <2>2 DEF Laid, o2, r
<1> QED
  BY <1>7, <1>8

\* Such a division is all that the whole means.
LEMMA UpwardWhole ==
  ASSUME NEW s \in Seq(Token), NEW a \in 1..Len(s)+1, NEW b \in 0..Len(s), a <= b, ~Closes(s, a - 1),
         PlainMeanings(s)[<<a, b>>] = NoValue, Before(s, a, b), Behind(s, a, b)
  PROVE  PlainMeaning(s).how # "bad" => PlainMeaning(s) = NoValue
<1> DEFINE M == PlainMeanings(s)
<1>1. Reads0(s, M)
  BY MeaningsAre
<1> HIDE DEF M
<1>2. M[<<a, b>>] = NoValue
  BY DEF M
<1>3. \A lo \in 1..a, hi \in b..Len(s) :
        ~Closes(s, lo - 1) /\ M[<<lo, hi>>].how # "bad" => M[<<lo, hi>>] = NoValue
  BY <1>1, <1>2, Upward
<1>4. 1 \in 1..a /\ Len(s) \in b..Len(s) /\ 1 - 1 = 0
  OBVIOUS
<1>5. ~Closes(s, 1 - 1)
  BY <1>4 DEF Closes
<1> QED
  BY <1>3, <1>4, <1>5 DEF PlainMeaning, M

\* A division by zero on top, behind which an operand ends
LEMMA LaidDivides ==
  ASSUME NEW s \in Seq(Token), NEW o \in OpSeq, NEW st \in Seq(Int), NEW p \in 0..Len(s), NEW ok, NEW slack, NEW floor,
         Laid(s, o, st, p, ok, slack, floor), ok, Closes(s, p), o # <<>>, Last(o) = "/", Last(st) = 0,
         Over(o, Len(o) - 1) < Prec(Last(o)),
         p = Len(s) \/ s[p + 1].op \in Operators \union {")"}
  PROVE  PlainMeaning(s).how # "bad" => PlainMeaning(s) = NoValue
<1> DEFINE m == Len(o)
<1>1. PICK po, q : Chain(s, o, p, po, q) /\ Filled(s, o, st, p, ok, slack, floor, po, q)
  BY DEF Laid
<1> DEFINE b == po[m - 1]
<1>2. Last(o) \in Operators /\ Prec(Last(o)) = 2
  BY DEF Operators, Products, Prec
<1>3. TopIs(s, o, st, p, po, q)
  BY <1>1, <1>2, TopMeans
<1>4. /\ b + 1 \in 1..Len(s)+1 /\ b + 1 <= p /\ ~Closes(s, b) /\ PlainMeanings(s)[<<b + 1, p>>] = NoValue
      /\ \A i \in Base(s, b + 1, p) : Prec(s[i].op) >= 2 /\ Prec(s[i].op) > Over(o, m - 1)
  BY <1>2, <1>3 DEF TopIs
<1>5. /\ m \in Nat \ {0} /\ b \in 0..Len(s) /\ (b + 1) - 1 = b /\ (b + 1) - 2 = b - 1 /\ Len(s) \in Nat
      /\ m - 1 \in 0..m /\ m \in 1..m /\ m - 2 \in Int
  <2>1. m \in Nat \ {0} /\ b \in 0..Len(s)
    BY <1>1, ChainNonempty
  <2> HIDE DEF m, b
  <2> QED
    BY <2>1
<1>6. \/ b + 1 = 1 \/ s[b].op = "("
      \/ /\ s[b].op \in Operators /\ Closes(s, b - 1)
         /\ \A i \in Base(s, b + 1, p) : Prec(s[b].op) < Prec(s[i].op)
  <2>1. CASE m = 1
    BY <1>1, <2>1 DEF Chain
  <2>2. CASE m # 1
    <3>1. m - 1 \in 1..m /\ m - 1 # 0
      <4>1. m \in Nat \ {0} /\ m # 1
        BY <1>5, <2>2
      <4> HIDE DEF m
      <4> QED
        BY <4>1
    <3>2. s[b].op = o[m - 1] /\ o[m - 1] \in Operators \union {"("} /\ po[(m - 1) - 1] < b /\ (m - 1) - 1 \in 0..m
      BY <1>1, <3>1, ChainTyped, SMTT(40)
    <3>3. CASE o[m - 1] \in Operators
      <4>1. Over(o, m - 1) = Prec(s[b].op)
        BY <3>1, <3>2 DEF Over
      <4>2. \A i \in Base(s, b + 1, p) : Prec(s[b].op) < Prec(s[i].op)
        <5> SUFFICES ASSUME NEW i \in Base(s, b + 1, p) PROVE Prec(s[b].op) < Prec(s[i].op)
          OBVIOUS
        <5>1. Prec(s[i].op) > Prec(s[b].op)
          BY <1>4, <4>1
        <5>2. Prec(s[i].op) \in Int /\ Prec(s[b].op) \in Int
          BY <3>2, <3>3, PrecIs, SMTT(40) DEF Base, Binary
        <5> QED
          BY <5>1, <5>2
      <4>3. Placed(s, o, st, po, q, m - 1)
        BY <1>1, <3>1 DEF Filled
      <4>4. o[m - 1] # "("
        BY <3>3, PrecIs
      <4> DEFINE c == po[(m - 1) - 1]
      <4>5. /\ c + 1 <= b - 1 /\ ~Closes(s, (c + 1) - 1)
            /\ PlainMeanings(s)[<<c + 1, b - 1>>] = Just(st[q[m - 1]])
        BY <4>3, <4>4 DEF Placed, Value
      <4>6. c \in 0..Len(s) /\ c + 1 \in 1..Len(s)+1 /\ b - 1 \in 0..Len(s) /\ b - 1 > 0
        <5>1. c \in 0..Len(s)
          BY <1>1, <3>2, ChainTyped
        <5> HIDE DEF c, b
        <5> QED
          BY <1>5, <4>5, <5>1
      <4>7. PlainMeanings(s)[<<c + 1, b - 1>>].how # "bad"
        BY <4>5 DEF Just
      <4>8. WellFormed(s, c + 1, b - 1)
        <5> HIDE DEF c, b
        <5> QED
          BY <4>5, <4>6, <4>7, MeaningsAre, MeaningFormed
      <4>9. Closes(s, b - 1)
        BY <4>6, <4>8 DEF WellFormed, Closes
      <4> QED
        BY <3>2, <3>3, <4>2, <4>9
    <3> QED
      BY <3>2, <3>3
  <2> QED
    BY <2>1, <2>2
<1>7. \/ p = Len(s) \/ s[p + 1].op = ")"
      \/ /\ s[p + 1].op \in Operators
         /\ \A i \in Base(s, b + 1, p) : Prec(s[p + 1].op) <= Prec(s[i].op)
  <2>1. CASE s[p + 1].op \in Operators
    <3> SUFFICES ASSUME NEW i \in Base(s, b + 1, p) PROVE Prec(s[p + 1].op) <= Prec(s[i].op)
      BY <2>1
    <3>1. Prec(s[i].op) >= 2
      BY <1>4
    <3>2. Prec(s[i].op) \in Int /\ Prec(s[p + 1].op) \in 1..2
      BY <2>1, PrecIs DEF Base, Binary
    <3> QED
      BY <3>1, <3>2
  <2> QED
    BY <2>1
<1> HIDE DEF b, m
<1>8. Before(s, b + 1, p) /\ Behind(s, b + 1, p)
  BY <1>5, <1>6, <1>7 DEF Before, Behind
<1>9. ASSUME NEW x \in 1..Len(s)+1, x <= p, ~Closes(s, x - 1), PlainMeanings(s)[<<x, p>>] = NoValue,
             Before(s, x, p), Behind(s, x, p)
      PROVE  PlainMeaning(s).how # "bad" => PlainMeaning(s) = NoValue
  BY <1>9, UpwardWhole
<1> QED
  BY <1>4, <1>5, <1>8, <1>9

\* There are as many values as what is pending asks for.
LEMMA LaidStack ==
  ASSUME NEW s \in Seq(Token), NEW o \in OpSeq, NEW st \in Seq(Int), NEW p \in 0..Len(s), NEW ok, NEW slack, NEW floor,
         Laid(s, o, st, p, ok, slack, floor), ok, Closes(s, p)
  PROVE  /\ st # <<>>
         /\ o # <<>> /\ Last(o) \in Operators => Len(st) > 1
<1>1. PICK po, q : Chain(s, o, p, po, q) /\ Filled(s, o, st, p, ok, slack, floor, po, q)
  BY DEF Laid
<1>2. Len(st) = q[Len(o)] + 1
  BY <1>1 DEF Filled, Topped
<1>3. Len(o) \in Nat /\ q[Len(o)] \in Nat
  <2>1. Len(o) \in Nat
    BY DEF OpSeq
  <2>2. Len(o) \in 0..Len(o)
    BY <2>1
  <2> QED
    BY <1>1, <2>1, <2>2, ChainTyped
<1>4. ASSUME o # <<>>, Last(o) \in Operators PROVE Len(st) > 1
  <2>1. q[Len(o)] = q[Len(o) - 1] + 1 /\ q[Len(o) - 1] \in Nat
    BY <1>1, <1>4, PrecIs, ChainNonempty
  <2> QED
    BY <1>2, <2>1
<1>5. st # <<>>
  BY <1>2, <1>3
<1> QED
  BY <1>4, <1>5

\* How many parentheses are open is what is left of them.
LEMMA LaidDepth ==
  ASSUME NEW s \in Seq(Token), NEW o \in OpSeq, NEW st, NEW p \in 0..Len(s), NEW ok, NEW slack, NEW floor,
         Laid(s, o, st, p, ok, slack, floor)
  PROVE  /\ o = <<>> => Depth(s, p) = 0
         /\ o # <<>> /\ Depth(s, p) = 0 => /\ Last(o) \in Operators
                                           /\ \E i \in 1..p : s[i].op = Last(o) /\ Depth(s, i) = 0
<1>1. PICK po, q : Chain(s, o, p, po, q) /\ Filled(s, o, st, p, ok, slack, floor, po, q)
  BY DEF Laid
<1>2. ASSUME o = <<>> PROVE Depth(s, p) = 0
  <2>1. Len(o) = 0
    BY <1>2
  <2> QED
    BY <1>1, <2>1, DepthIs DEF Chain
<1>3. ASSUME o # <<>>, Depth(s, p) = 0
      PROVE  Last(o) \in Operators /\ \E i \in 1..p : s[i].op = Last(o) /\ Depth(s, i) = 0
  <2>1. /\ Depth(s, po[Len(o)]) = Depth(s, po[Len(o) - 1]) + (IF Last(o) = "(" THEN 1 ELSE 0)
        /\ Depth(s, p) = Depth(s, po[Len(o)]) /\ Depth(s, po[Len(o) - 1]) >= 0 /\ Depth(s, po[Len(o) - 1]) \in Int
    BY <1>1, <1>3, ChainTop
  <2>2. Last(o) \in Operators \union {"("} /\ po[Len(o)] \in 1..Len(s) /\ po[Len(o)] <= p /\ s[po[Len(o)]].op = Last(o)
    BY <1>1, <1>3, ChainNonempty
  <2>3. Last(o) # "("
    <3> SUFFICES ASSUME Last(o) = "(" PROVE FALSE
      OBVIOUS
    <3>1. Depth(s, po[Len(o)]) = Depth(s, po[Len(o) - 1]) + 1
      BY <2>1
    <3> QED
      BY <1>3, <2>1, <3>1
  <2>4. po[Len(o)] \in 1..p
    BY <2>2
  <2>5. Depth(s, po[Len(o)]) = 0
    BY <1>3, <2>1
  <2> QED
    BY <2>2, <2>3, <2>4, <2>5
<1> QED
  BY <1>2, <1>3

\* What one value on the stack, or the top without operators, is at the end
LEMMA LaidPrinted ==
  ASSUME NEW s \in Seq(Token), NEW o \in OpSeq, NEW st \in Seq(Int), NEW p \in 0..Len(s), p = Len(s), NEW ok \in BOOLEAN,
         NEW floor, Laid(s, o, st, p, ok, 1, floor), Depth(s, p) = 0,
         s # <<>> => s[Len(s)].op \notin Operators, st # <<>>, Len(st) = 1 \/ o = <<>>
  PROVE  /\ ok => PlainMeaning(s) = Just(Last(st))
         /\ ~ok => \E i \in 1..Len(s) : s[i].op \in Operators /\ Depth(s, i) = 0
<1>1. PICK po, q : Chain(s, o, p, po, q) /\ Filled(s, o, st, p, ok, 1, floor, po, q)
  BY DEF Laid
<1>2. Len(o) \in Nat /\ q[Len(o)] \in Nat /\ Len(st) \in Nat \ {0}
  <2>1. Len(o) \in Nat
    BY DEF OpSeq
  <2>2. Len(o) \in 0..Len(o)
    BY <2>1
  <2> QED
    BY <1>1, <2>1, <2>2, ChainTyped
<1>3. q[0] = 0 /\ po[0] = 0
  BY <1>1 DEF Chain
<1>4. ASSUME o # <<>>
      PROVE  /\ Last(o) \in Operators /\ q[Len(o)] > 0 /\ s[po[Len(o)]].op = Last(o) /\ po[Len(o)] \in 1..Len(s)
             /\ \E i \in 1..p : s[i].op = Last(o) /\ Depth(s, i) = 0
  <2>1. Last(o) \in Operators /\ \E i \in 1..p : s[i].op = Last(o) /\ Depth(s, i) = 0
    BY <1>4, LaidDepth
  <2>2. q[Len(o)] = q[Len(o) - 1] + 1 /\ q[Len(o) - 1] \in Nat /\ s[po[Len(o)]].op = Last(o) /\ po[Len(o)] \in 1..Len(s)
    BY <1>1, <1>4, <2>1, PrecIs, ChainNonempty, SMTT(40)
  <2> QED
    BY <2>1, <2>2, SMTT(40)
<1>5. ASSUME ok PROVE PlainMeaning(s) = Just(Last(st))
  <2>1. Topped(s, o, st, p, floor, po, q)
    BY <1>1, <1>5 DEF Filled
  <2>2. CASE Closes(s, p)
    <3>1. Len(st) = q[Len(o)] + 1 /\ Value(s, po[Len(o)] + 1, p, Last(st), Over(o, Len(o)), floor)
      BY <2>1, <2>2 DEF Topped
    <3>2. o = <<>>
      BY <1>2, <1>4, <3>1
    <3>3. po[Len(o)] + 1 = 1
      BY <1>3, <3>2
    <3> QED
      BY <3>1, <3>3 DEF Value, PlainMeaning
  <2>3. CASE ~Closes(s, p)
    <3>1. Len(st) = q[Len(o)] /\ po[Len(o)] = p
      BY <2>1, <2>3 DEF Topped
    <3>2. o # <<>>
      BY <1>2, <1>3, <3>1
    <3>3. s # <<>> /\ s[Len(s)].op \in Operators
      BY <1>4, <3>1, <3>2
    <3> QED
      BY <3>3
  <2> QED
    BY <2>2, <2>3
<1>6. ASSUME ~ok PROVE \E i \in 1..Len(s) : s[i].op \in Operators /\ Depth(s, i) = 0
  <2>1. Len(st) < q[Len(o)] + 1
    BY <1>1, <1>6 DEF Filled
  <2>2. o # <<>>
    BY <1>2, <1>3, <2>1
  <2> QED
    BY <1>4, <2>2
<1> QED
  BY <1>5, <1>6

----------------------------------------------------------------------------
(* Types                                                                   *)

TypedStacks == stack \in Seq(Int) /\ ops \in Seq(Operators \union {"("}) /\ precedence \in 0..2

\* What remains below the top of a stack has its type.
LEMMA FrontAny ==
  ASSUME NEW S, NEW s \in Seq(S), s # <<>>
  PROVE  Front(s) \in Seq(S) /\ Last(s) \in S
BY FrontIs

\* So has a stack with one more.
LEMMA AppendAny ==
  ASSUME NEW S, NEW s \in Seq(S), NEW x \in S
  PROVE  Append(s, x) \in Seq(S) /\ Append(s, x) # <<>>
<1>1. Append(s, x) \in Seq(S) /\ Len(Append(s, x)) = Len(s) + 1 /\ Len(s) \in Nat
  BY AppendIs
<1> QED
  BY <1>1

\* Only a parenthesis has precedence 0.
LEMMA PrecAny ==
  ASSUME NEW op \in Operators \union {"("}
  PROVE  Prec(op) \in 0..2 /\ (op # "(" => op \in Operators /\ Prec(op) > 0) /\ (op = "(" => Prec(op) = 0)
BY DEF Prec, Operators, Sums, Products

\* So has the top of an empty stack.
LEMMA TopAny ==
  ASSUME NEW s \in Seq(Operators \union {"("})
  PROVE  Top(s) \in 0..2
<1>1. CASE s = <<>>
  BY <1>1 DEF Top
<1>2. CASE s # <<>>
  BY <1>2, FrontIs, PrecAny DEF Top
<1> QED
  BY <1>1, <1>2

\* Everything starts with its type.
LEMMA InitTyped == Init => TypeOK
<1> SUFFICES ASSUME Init PROVE TypeOK
  OBVIOUS
<1>1. input \in Seq(Token)
  BY InputAssumption DEF Init
<1>2. 0 \in IntMin..IntMax
  <2>1. Width - 1 \in 0..Width
    BY InputAssumption
  <2>2. Power[Width - 1] \in Nat \ {0}
    BY <2>1, PowerIs
  <2> QED
    BY <2>2 DEF IntMin, IntMax
<1> QED
  BY <1>1, <1>2 DEF Init, TypeOK, OpSeq

\* build_list() is at a token.
LEMMA TokenRead ==
  ASSUME TypeOK, phase = "build", index <= Len(input)
  PROVE  /\ index \in 1..Len(input) /\ index + 1 \in Nat \ {0} /\ index + 1 <= Len(input) + 1
         /\ Token1.op \in Operators \union {"(", ")", "bad", "num"}
         /\ Token1.op = "num" => Token1.nb \in Nat
<1>1. input \in Seq(Token) /\ index \in Nat \ {0}
  BY DEF TypeOK
<1>2. Len(input) \in Nat
  BY <1>1
<1>3. index \in 1..Len(input) /\ index + 1 \in Nat \ {0} /\ index + 1 <= Len(input) + 1
  BY <1>1, <1>2
<1> QED
  BY <1>1, <1>3, TokenIs DEF Token1

\* eval_list() is at an element of its list.
LEMMA ElementRead ==
  ASSUME TypeOK, phase \in {"eval", "pop", "close"}, index <= Len(list)
  PROVE  /\ index \in 1..Len(list) /\ index + 1 \in Nat \ {0} /\ index + 1 <= Len(list) + 1
         /\ Current.op \in Operators \union {"(", ")", "num"} /\ Current.nb \in Int
<1>1. list \in Seq(Element) /\ index \in Nat \ {0}
  BY DEF TypeOK
<1>2. Len(list) \in Nat
  BY <1>1
<1>3. index \in 1..Len(list) /\ index + 1 \in Nat \ {0} /\ index + 1 <= Len(list) + 1
  BY <1>1, <1>2
<1>4. list[index] \in Element
  BY <1>1, <1>3
<1> QED
  BY <1>3, <1>4 DEF Current, Element

\* What a step of build_list() leaves typed
LEMMA BuildTyped ==
  ASSUME TypeOK, phase = "build", input' = input, UNCHANGED evaluating,
         index' \in Nat \ {0}, sign' \in {-1, 0, 1}, parenthesis' \in Int,
         prev_op' \in Operators \union {"(", ")", "num", "none"}, list' \in Seq(Element),
         \/ phase' = "build" /\ index' <= Len(input) + 1 /\ code' = code /\ result' = result
         \/ phase' = "eval" /\ index' <= Len(list') + 1 /\ code' = code /\ result' = result
         \/ phase' = "exit" /\ code' = 1 /\ result' = result
  PROVE  TypeOK'
BY SMTT(40) DEF TypeOK, evaluating

\* The list gets one more element.
LEMMA AddsTyped ==
  ASSUME TypeOK, phase = "build", index <= Len(input), NEW op \in Operators \union {"(", ")", "num"}, NEW nb \in Int,
         Adds(Node(op, nb))
  PROVE  /\ list' \in Seq(Element) /\ prev_op' = op /\ sign' = 0 /\ index' \in Nat \ {0} /\ index' <= Len(input) + 1
         /\ list' = Append(list, Node(op, nb)) /\ index' = index + 1
<1>1. Node(op, nb) \in Element /\ Node(op, nb).op = op
  BY DEF Node, Element
<1>2. list \in Seq(Element)
  BY DEF TypeOK
<1> QED
  BY <1>1, <1>2, TokenRead DEF Adds

\* Every step of build_list() keeps the types.
LEMMA BuildPreservesType ==
  ASSUME TypeOK,
         \/ \E op \in Signs : ReadSign(op)
         \/ \E op \in Operators \union {"(", ")"} : ReadOperator(op)
         \/ ReadNumber \/ ReadBad \/ EndOfInput
  PROVE  TypeOK'
<1>1. /\ index \in Nat \ {0} /\ sign \in {-1, 0, 1} /\ parenthesis \in Int
      /\ prev_op \in Operators \union {"(", ")", "num", "none"} /\ list \in Seq(Element)
  BY DEF TypeOK
<1>r. ASSUME phase = "build", UNCHANGED evaluating, Refuses PROVE TypeOK'
  BY <1>1, <1>r, BuildTyped DEF Refuses, Error, building
<1>2. CASE \E op \in Signs : ReadSign(op)
  <2>1. PICK op \in Signs : ReadSign(op)
    BY <1>2
  <2>2. /\ phase = "build" /\ index <= Len(input) /\ UNCHANGED evaluating
        /\ sign' = (IF sign = 0 THEN 1 ELSE sign) * (IF op = "-" THEN -1 ELSE 1)
        /\ index' = index + 1 /\ phase' = "build" /\ UNCHANGED <<input, code, result, prev_op, parenthesis, list>>
    BY <2>1 DEF ReadSign, Reads, Goes
  <2>3. sign' \in {-1, 0, 1}
    BY <1>1, <2>2
  <2>4. index' \in Nat \ {0} /\ index' <= Len(input) + 1
    BY <2>2, TokenRead
  <2> QED
    BY <1>1, <2>2, <2>3, <2>4, BuildTyped
<1>3. CASE \E op \in Operators \union {"(", ")"} : ReadOperator(op)
  <2>1. PICK op \in Operators \union {"(", ")"} : ReadOperator(op)
    BY <1>3
  <2>2. phase = "build" /\ index <= Len(input) /\ UNCHANGED evaluating
    BY <2>1 DEF ReadOperator, Reads
  <2>3. CASE Refuses
    BY <1>r, <2>2, <2>3
  <2>4. CASE ~Refuses
    <3>1. /\ Adds(Node(op, 0)) /\ Goes("build")
          /\ parenthesis' = parenthesis + (CASE op = "(" -> 1 [] op = ")" -> -1 [] OTHER -> 0)
      BY <2>1, <2>4 DEF ReadOperator
    <3>2. parenthesis' \in Int
      BY <1>1, <3>1
    <3>3. /\ list' \in Seq(Element) /\ prev_op' = op /\ sign' = 0 /\ index' \in Nat \ {0} /\ index' <= Len(input) + 1
      BY <2>2, <3>1, AddsTyped
    <3> QED
      BY <1>1, <2>2, <3>1, <3>2, <3>3, BuildTyped DEF Goes
  <2> QED
    BY <2>3, <2>4
<1>4. CASE ReadNumber
  <2>1. phase = "build" /\ index <= Len(input) /\ UNCHANGED evaluating /\ Token1.op = "num"
    BY <1>4 DEF ReadNumber, Reads
  <2>2. CASE Refuses
    BY <1>r, <2>1, <2>2
  <2>3. CASE ~Refuses
    <3> DEFINE nb == (IF sign = 0 THEN 1 ELSE sign) * Token1.nb
    <3>1. Adds(Node("num", nb)) /\ Goes("build") /\ parenthesis' = parenthesis
      BY <1>4, <2>3 DEF ReadNumber
    <3>2. Token1.nb \in Nat
      BY <2>1, TokenRead
    <3>3. nb \in Int
      BY <1>1, <3>2
    <3> HIDE DEF nb
    <3>4. /\ list' \in Seq(Element) /\ prev_op' = "num" /\ sign' = 0 /\ index' \in Nat \ {0} /\ index' <= Len(input) + 1
      BY <2>1, <3>1, <3>3, AddsTyped
    <3> QED
      BY <1>1, <2>1, <3>1, <3>4, BuildTyped DEF Goes
  <2> QED
    BY <2>2, <2>3
<1>5. CASE ReadBad
  BY <1>5, <1>r DEF ReadBad, Reads
<1>6. CASE EndOfInput
  <2>1. /\ phase = "build" /\ index' = 1 /\ UNCHANGED <<building, evaluating>>
        /\ list' = (IF sign = 0 THEN list ELSE Append(list, Node("num", 0)))
        /\ IF parenthesis = 0 THEN Goes("eval") ELSE Error(1)
    BY <1>6 DEF EndOfInput
  <2>2. list' \in Seq(Element)
    <3>1. Node("num", 0) \in Element
      BY DEF Node, Element
    <3> DEFINE x == Node("num", 0)
    <3>2. list' = (IF sign = 0 THEN list ELSE Append(list, x)) /\ x \in Element
      BY <2>1, <3>1
    <3> HIDE DEF x
    <3> QED
      BY <1>1, <3>2
  <2>3. Len(list') \in Nat
    BY <2>2
  <2>4. index' <= Len(list') + 1 /\ index' \in Nat \ {0}
    BY <2>1, <2>3
  <2> QED
    BY <1>1, <2>1, <2>2, <2>4, BuildTyped DEF Goes, Error, building
<1> QED
  BY <1>2, <1>3, <1>4, <1>5, <1>6

TypedResult == code \in {0, 1, 127} /\ (result = Minus \/ result \in IntMin..IntMax)

\* What a step of eval_list() leaves typed
LEMMA EvalTyped ==
  ASSUME TypeOK, phase \in {"eval", "pop", "close"}, UNCHANGED <<building, list>>, input' = input,
         index' \in Nat \ {0}, TypedStacks', TypedResult',
         \/ phase' = "eval" /\ index' <= Len(list) + 1
         \/ phase' = "pop" /\ index' = index /\ index <= Len(list) /\ Current.op \in Operators
         \/ phase' = "close" /\ index' <= Len(list) /\ stack' # <<>>
         \/ phase' \in {"printed", "exit", "crashed"}
  PROVE  TypeOK'
BY SMTT(40) DEF TypeOK, building, TypedStacks, TypedResult, Current

\* The stacks have their types.
LEMMA StacksTyped ==
  ASSUME TypeOK
  PROVE  TypedStacks /\ TypedResult
BY DEF TypeOK, TypedStacks, TypedResult

\* eval_nodes() takes what is on top, and puts a number there.
LEMMA EvalNodesTyped ==
  ASSUME TypeOK, ops # <<>>, EvalNodes
  PROVE  /\ TypedStacks' /\ TypedResult' /\ phase' \in {phase, "exit", "crashed"} /\ input' = input
         /\ precedence' = precedence /\ (stack # <<>> => stack' # <<>>)
         /\ ops' \in {ops, Front(ops)}
<1>1. stack \in Seq(Int) /\ ops \in Seq(Operators \union {"("}) /\ precedence \in 0..2 /\ TypedResult
  BY DEF TypeOK, TypedResult
<1>2. Front(ops) \in Seq(Operators \union {"("}) /\ Last(ops) \in Operators \union {"("}
  BY <1>1, FrontAny
<1>3. CASE UNCHANGED evaluating /\ (Crash \/ Error(127))
  BY <1>1, <1>3 DEF evaluating, Crash, Error, TypedStacks, TypedResult
<1>4. CASE ops' = Front(ops) /\ UNCHANGED <<stack, precedence>> /\ Goes(phase)
  BY <1>1, <1>2, <1>4 DEF Goes, TypedStacks, TypedResult
<1>5. CASE /\ Len(stack) > 1 /\ Last(ops) # "(" /\ ~DividesByZero(Last(ops), Last(Front(stack)), Last(stack))
           /\ stack' = Append(Front(Front(stack)), Compute(Last(ops), Last(Front(stack)), Last(stack)))
           /\ ops' = Front(ops) /\ UNCHANGED precedence /\ Goes(phase)
  <2>1. stack # <<>> /\ Len(stack) \in Nat
    BY <1>1, <1>5
  <2>2. Front(stack) \in Seq(Int) /\ Last(stack) \in Int /\ Len(Front(stack)) = Len(stack) - 1
    BY <1>1, <2>1, FrontIs
  <2>3. Front(stack) # <<>>
    BY <1>5, <2>1, <2>2
  <2>4. Front(Front(stack)) \in Seq(Int) /\ Last(Front(stack)) \in Int
    BY <2>2, <2>3, FrontAny
  <2>5. Compute(Last(ops), Last(Front(stack)), Last(stack)) \in Int
    BY <1>2, <1>5, <2>2, <2>4, ComputeIs DEF DividesByZero
  <2>6. stack' \in Seq(Int) /\ stack' # <<>>
    BY <1>5, <2>4, <2>5, AppendAny
  <2> QED
    BY <1>1, <1>2, <1>5, <2>6 DEF Goes, TypedStacks, TypedResult
<1> QED
  BY <1>3, <1>4, <1>5 DEF EvalNodes

\* An operator is put on its stack.
LEMMA PushesTyped ==
  ASSUME TypeOK, NEW op \in Operators, Pushes(op)
  PROVE  /\ TypedStacks' /\ TypedResult' /\ phase' = "eval" /\ input' = input /\ index' = index + 1
         /\ stack' = stack /\ ops' = Append(ops, op) /\ precedence' = Prec(op)
<1>1. stack \in Seq(Int) /\ ops \in Seq(Operators \union {"("}) /\ TypedResult
  BY DEF TypeOK, TypedResult
<1>2. Append(ops, op) \in Seq(Operators \union {"("}) /\ Prec(op) \in 0..2
  BY <1>1, AppendAny, PrecAny
<1> QED
  BY <1>1, <1>2 DEF Pushes, Goes, TypedStacks, TypedResult

\* Every step of eval_list() keeps the types.
LEMMA EvalPreservesType ==
  ASSUME TypeOK,
         \/ \E op \in Operators : EvalOperator(op)
         \/ EvalNumber \/ EvalOpen \/ EvalClose \/ Pop \/ Close \/ Finish
  PROVE  TypeOK'
<1>1. /\ index \in Nat \ {0} /\ stack \in Seq(Int) /\ ops \in Seq(Operators \union {"("})
      /\ precedence \in 0..2 /\ TypedStacks /\ TypedResult
  BY StacksTyped DEF TypeOK
<1>2. CASE \E op \in Operators : EvalOperator(op)
  <2>1. PICK op \in Operators : EvalOperator(op)
    BY <1>2
  <2>2. phase = "eval" /\ index <= Len(list) /\ Current.op = op /\ UNCHANGED <<building, list>>
    BY <2>1 DEF EvalOperator, Evaluates
  <2>3. CASE Pushes(op)
    <3>1. index' \in Nat \ {0} /\ index' <= Len(list) + 1
      BY <2>2, <2>3, PushesTyped, ElementRead
    <3> QED
      BY <2>2, <2>3, <3>1, PushesTyped, EvalTyped
  <2>4. CASE UNCHANGED <<index, evaluating>> /\ (Error(127) \/ Goes("pop"))
    <3>1. TypedStacks' /\ TypedResult' /\ index' = index /\ input' = input /\ phase' \in {"exit", "pop"}
      BY <1>1, <2>4 DEF evaluating, Error, Goes, TypedStacks, TypedResult
    <3> QED
      BY <1>1, <2>2, <3>1, EvalTyped
  <2> QED
    BY <2>1, <2>3, <2>4 DEF EvalOperator
<1>3. CASE EvalNumber
  <2>1. /\ phase = "eval" /\ index <= Len(list) /\ UNCHANGED <<building, list>>
        /\ stack' = Append(stack, Current.nb) /\ index' = index + 1 /\ UNCHANGED <<ops, precedence>>
        /\ phase' = "eval" /\ UNCHANGED <<input, code, result>>
    BY <1>3 DEF EvalNumber, Evaluates, Goes
  <2>2. Current.nb \in Int /\ index' \in Nat \ {0} /\ index' <= Len(list) + 1
    BY <2>1, ElementRead
  <2>3. stack' \in Seq(Int)
    BY <1>1, <2>1, <2>2, AppendAny
  <2>4. TypedStacks' /\ TypedResult'
    BY <1>1, <2>1, <2>3 DEF TypedStacks, TypedResult
  <2> QED
    BY <2>1, <2>2, <2>4, EvalTyped
<1>4. CASE EvalOpen
  <2>1. /\ phase = "eval" /\ index <= Len(list) /\ UNCHANGED <<building, list>>
        /\ ops' = Append(ops, "(") /\ precedence' = 0 /\ index' = index + 1 /\ stack' = stack
        /\ phase' = "eval" /\ UNCHANGED <<input, code, result>>
    BY <1>4 DEF EvalOpen, Evaluates, Goes
  <2>2. index' \in Nat \ {0} /\ index' <= Len(list) + 1
    BY <2>1, ElementRead
  <2>3. ops' \in Seq(Operators \union {"("})
    BY <1>1, <2>1, AppendAny
  <2>4. TypedStacks' /\ TypedResult'
    BY <1>1, <2>1, <2>3 DEF TypedStacks, TypedResult
  <2> QED
    BY <2>1, <2>2, <2>4, EvalTyped
<1>5. CASE EvalClose
  <2>1. /\ phase = "eval" /\ index <= Len(list) /\ UNCHANGED <<building, list>>
        /\ UNCHANGED <<index, evaluating>>
        /\ Error(127) \/ Crash \/ (stack # <<>> /\ Goes("close"))
    BY <1>5 DEF EvalClose, Evaluates
  <2>2. TypedStacks' /\ TypedResult' /\ input' = input /\ stack' = stack
    BY <1>1, <2>1 DEF evaluating, Error, Crash, Goes, TypedStacks, TypedResult
  <2>3. phase' \in {"exit", "crashed"} \/ (phase' = "close" /\ stack # <<>>)
    BY <2>1 DEF Error, Crash, Goes
  <2> QED
    BY <1>1, <2>1, <2>2, <2>3, EvalTyped
<1>6. CASE Pop
  <2>1. phase = "pop" /\ UNCHANGED <<building, list>> /\ index <= Len(list) /\ Current.op \in Operators
    BY <1>6 DEF Pop, TypeOK
  <2>2. CASE Yields(Current.op) /\ EvalNodes /\ UNCHANGED index
    <3>1. ops # <<>>
      BY <2>2 DEF Yields
    <3> QED
      BY <1>1, <2>1, <2>2, <3>1, EvalNodesTyped, EvalTyped
  <2>3. CASE Pushes(Current.op)
    <3>1. index' \in Nat \ {0} /\ index' <= Len(list) + 1
      BY <2>1, <2>3, PushesTyped, ElementRead
    <3> QED
      BY <2>1, <2>3, <3>1, PushesTyped, EvalTyped
  <2> QED
    BY <1>6, <2>2, <2>3 DEF Pop
<1>7. CASE Close
  <2>1. phase = "close" /\ UNCHANGED <<building, list>> /\ index <= Len(list) /\ stack # <<>>
    BY <1>7 DEF Close, TypeOK
  <2>2. CASE Crash /\ UNCHANGED <<index, evaluating>>
    BY <1>1, <2>1, <2>2, EvalTyped DEF evaluating, Crash, TypedStacks, TypedResult
  <2>3. CASE ops # <<>> /\ Last(ops) # "(" /\ EvalNodes /\ UNCHANGED index
    BY <1>1, <2>1, <2>3, EvalNodesTyped, EvalTyped
  <2>4. CASE ops # <<>> /\ Closed /\ index' = index + 1 /\ UNCHANGED stack /\ Goes("eval")
    <3>1. index' \in Nat \ {0} /\ index' <= Len(list) + 1
      BY <2>1, <2>4, ElementRead
    <3>2. Front(ops) \in Seq(Operators \union {"("})
      BY <1>1, <2>4, FrontAny
    <3>3. Top(Front(ops)) \in 0..2
      BY <3>2, TopAny
    <3>4. TypedStacks' /\ TypedResult' /\ input' = input /\ phase' = "eval"
      BY <1>1, <2>4, <3>2, <3>3 DEF Closed, Goes, TypedStacks, TypedResult
    <3> QED
      BY <2>1, <3>1, <3>4, EvalTyped
  <2> QED
    BY <1>7, <2>2, <2>3, <2>4 DEF Close
<1>8. CASE Finish
  <2>1. phase = "eval" /\ index = Len(list) + 1 /\ UNCHANGED <<index, building, list>>
    BY <1>8 DEF Finish
  <2>2. CASE ops # <<>> /\ EvalNodes
    <3>1. TypedStacks' /\ TypedResult' /\ input' = input /\ phase' \in {"eval", "exit", "crashed"}
      BY <2>1, <2>2, EvalNodesTyped
    <3>2. index' <= Len(list) + 1
      BY <2>1 DEF TypeOK
    <3> QED
      BY <1>1, <2>1, <3>1, <3>2, EvalTyped
  <2>3. CASE Crash /\ UNCHANGED evaluating
    BY <1>1, <2>1, <2>3, EvalTyped DEF evaluating, Crash, TypedStacks, TypedResult
  <2>4. CASE /\ stack # <<>> /\ phase' = "printed" /\ result' = Itoa(Truncate(Last(stack)))
             /\ UNCHANGED <<input, code, evaluating>>
    <3>1. Truncate(Last(stack)) \in IntMin..IntMax
      BY <1>1, <2>4, FrontAny, TruncateIs
    <3>2. TypedStacks' /\ TypedResult'
      BY <1>1, <2>4, <3>1 DEF evaluating, Itoa, TypedStacks, TypedResult
    <3> QED
      BY <1>1, <2>1, <2>4, <3>2, EvalTyped
  <2> QED
    BY <1>8, <2>2, <2>3, <2>4 DEF Finish
<1> QED
  BY <1>2, <1>3, <1>4, <1>5, <1>6, <1>7, <1>8

\* So does every step.
LEMMA TypePreserved ==
  ASSUME TypeOK, [Next]_vars
  PROVE  TypeOK'
<1>1. CASE UNCHANGED vars
  BY <1>1 DEF vars, building, evaluating, TypeOK, Current
<1>2. CASE Next
  BY <1>2, BuildPreservesType, EvalPreservesType DEF Next
<1> QED
  BY <1>1, <1>2

\* Everything has its type at all times: what build_list() makes of any tokens, the
\* int it computes of longs and doubles, and what pop_stack() looks at.
THEOREM TypeCorrect == Spec => []TypeOK
<1>1. TypeOK /\ [Next]_vars => TypeOK'
  BY TypePreserved
<1> QED
  BY <1>1, InitTyped, PTL DEF Spec

----------------------------------------------------------------------------
(* The order of pending operators                                          *)

\* Pending operators bind ever stronger from one parenthesis on.
Ordered(o) == \A i \in 1..Len(o)-1 : o[i + 1] # "(" => Prec(o[i]) < Prec(o[i + 1])

\* So they do below the top.
LEMMA OrderedFront ==
  ASSUME NEW o \in OpSeq, o # <<>>, Ordered(o)
  PROVE  Ordered(Front(o))
<1>1. Len(Front(o)) = Len(o) - 1 /\ Len(o) \in Nat \ {0} /\ \A i \in 1..Len(o)-1 : Front(o)[i] = o[i]
  BY FrontIs DEF OpSeq
<1>2. ASSUME NEW i \in 1..Len(Front(o))-1, Front(o)[i + 1] # "("
      PROVE  Prec(Front(o)[i]) < Prec(Front(o)[i + 1])
  <2>1. i \in 1..Len(o)-1 /\ i + 1 \in 1..Len(o)-1
    BY <1>1
  <2> QED
    BY <1>1, <1>2, <2>1 DEF Ordered
<1> QED
  BY <1>2 DEF Ordered

\* The precedence of the top, by its place
LEMMA OverTop ==
  ASSUME NEW o \in OpSeq
  PROVE  /\ Over(o, Len(o)) = Top(o) /\ Top(o) \in 0..2
<1>0. o \in Seq(Operators \union {"("})
  BY DEF OpSeq
<1>1. CASE o = <<>>
  BY <1>1 DEF Over, Top
<1>2. CASE o # <<>>
  <2>1. Len(o) # 0 /\ Last(o) = o[Len(o)]
    BY <1>0, <1>2, FrontIs
  <2> QED
    BY <1>0, <1>2, <2>1, TopAny DEF Over, Top
<1> QED
  BY <1>1, <1>2

\* So they do with a ( on top, or what binds stronger.
LEMMA OrderedAppend ==
  ASSUME NEW o \in OpSeq, Ordered(o), NEW op \in Operators \union {"("}, op = "(" \/ Prec(op) > Top(o)
  PROVE  Append(o, op) \in OpSeq /\ Ordered(Append(o, op)) /\ Top(Append(o, op)) = Prec(op)
<1> DEFINE t == Append(o, op)
<1>1. /\ t \in OpSeq /\ Len(t) = Len(o) + 1 /\ Len(o) \in Nat /\ Last(t) = op
      /\ \A i \in 1..Len(o) : t[i] = o[i]
      /\ t[Len(o) + 1] = op
  BY AppendIs DEF OpSeq
<1>2. t # <<>>
  <2> HIDE DEF t
  <2> QED
    BY <1>1 DEF OpSeq
<1> HIDE DEF t
<1>3. ASSUME NEW i \in 1..Len(t)-1, t[i + 1] # "("
      PROVE  Prec(t[i]) < Prec(t[i + 1])
  <2>1. CASE i = Len(o)
    <3>1. o # <<>> /\ t[i + 1] = op /\ t[i] = o[Len(o)] /\ Len(o) # 0
      BY <1>1, <2>1
    <3>2. Prec(o[Len(o)]) = Top(o)
      BY <3>1, OverTop DEF Over
    <3> QED
      BY <1>3, <3>1, <3>2, OverTop, PrecAny
  <2>2. CASE i # Len(o)
    <3>1. i \in 1..Len(o)-1 /\ i \in 1..Len(o) /\ i + 1 \in 1..Len(o)
      BY <1>1, <2>2
    <3>2. t[i] = o[i] /\ t[i + 1] = o[i + 1]
      BY <1>1, <3>1
    <3> QED
      BY <1>3, <3>1, <3>2 DEF Ordered
  <2> QED
    BY <2>1, <2>2
<1>4. Ordered(t)
  BY <1>3 DEF Ordered
<1>5. Top(t) = Prec(op)
  BY <1>1, <1>2 DEF Top
<1> QED
  BY <1>1, <1>4, <1>5 DEF t

\* The operator below the top binds weaker.
LEMMA OrderedOver ==
  ASSUME NEW o \in OpSeq, Ordered(o), o # <<>>, Last(o) \in Operators
  PROVE  Over(o, Len(o) - 1) < Prec(Last(o))
<1>1. Len(o) \in Nat \ {0} /\ Last(o) = o[Len(o)]
  BY FrontIs DEF OpSeq
<1>2. CASE Len(o) = 1
  BY <1>1, <1>2, PrecIs DEF Over
<1>3. CASE Len(o) # 1
  <2>0. \A k \in Nat \ {0} : k # 1 => k - 1 \in 1..k-1 /\ (k - 1) + 1 = k /\ k - 1 # 0
    OBVIOUS
  <2>1. Len(o) - 1 \in 1..Len(o)-1 /\ (Len(o) - 1) + 1 = Len(o) /\ Len(o) - 1 # 0
    BY <1>1, <1>3, <2>0
  <2>2. Last(o) # "("
    BY PrecIs
  <2> QED
    BY <1>1, <2>1, <2>2 DEF Ordered, Over
<1> QED
  BY <1>2, <1>3

\* Nothing is evaluated before the list is built.
Fresh == phase = "build" => stack = <<>> /\ ops = <<>> /\ precedence = 0

\* Increasing, of the stack alone
LEMMA IncreasingIs ==
  ASSUME TypeOK
  PROVE  /\ ops \in OpSeq
         /\ Increasing <=> Ordered(ops) /\ (phase = "eval" /\ index <= Len(list) => precedence = Top(ops))
BY DEF TypeOK, OpSeq, Increasing, Ordered

\* The same behind a step
LEMMA IncreasingPrime ==
  ASSUME Ordered(ops'), phase' = "eval" /\ index' <= Len(list') => precedence' = Top(ops')
  PROVE  Increasing'
BY DEF Increasing, Ordered

\* Only the evaluation uses the stacks.
LEMMA FreshPreserved ==
  ASSUME Fresh, TypeOK, [Next]_vars
  PROVE  Fresh'
<1>1. CASE UNCHANGED vars
  BY <1>1 DEF vars, evaluating, Fresh
<1>2. CASE \/ \E op \in Signs : ReadSign(op)
           \/ \E op \in Operators \union {"(", ")"} : ReadOperator(op)
           \/ ReadNumber \/ ReadBad \/ EndOfInput
  <2>1. phase = "build" /\ UNCHANGED evaluating
    BY <1>2 DEF ReadSign, ReadOperator, ReadNumber, ReadBad, EndOfInput, Reads
  <2> QED
    BY <2>1 DEF Fresh, evaluating
<1>3. CASE \/ \E op \in Operators : EvalOperator(op)
           \/ EvalNumber \/ EvalOpen \/ EvalClose \/ Pop \/ Close \/ Finish
  <2>1. phase # "build"
    BY <1>3 DEF EvalOperator, EvalNumber, EvalOpen, EvalClose, Pop, Close, Finish, Evaluates
  <2>2. phase' # "build"
    <3>1. EvalNodes => phase' # "build"
      BY <2>1 DEF EvalNodes, Crash, Goes, Error
    <3> QED
      BY <1>3, <3>1 DEF EvalOperator, EvalNumber, EvalOpen, EvalClose, Pop, Close, Finish, Pushes, Crash, Goes, Error
  <2> QED
    BY <2>2 DEF Fresh
<1> QED
  BY <1>1, <1>2, <1>3 DEF Next

\* Every step keeps the stack ordered, and the precedence beside it that of its top.
LEMMA IncreasingPreserved ==
  ASSUME Fresh, TypeOK, Increasing, [Next]_vars
  PROVE  Increasing'
<1>0. ops \in OpSeq /\ Ordered(ops) /\ (phase = "eval" /\ index <= Len(list) => precedence = Top(ops))
  BY IncreasingIs
<1>p. ASSUME NEW op \in Operators, Pushes(op), Prec(op) > Top(ops) PROVE Increasing'
  <2>1. ops' = Append(ops, op) /\ precedence' = Prec(op)
    BY <1>p DEF Pushes
  <2> QED
    BY <1>0, <1>p, <2>1, OrderedAppend, IncreasingPrime
<1>n. ASSUME ops # <<>>, EvalNodes, UNCHANGED <<index, list>>, ~(phase = "eval" /\ index <= Len(list))
      PROVE  Increasing'
  <2>1. ops' \in {ops, Front(ops)} /\ phase' \in {phase, "exit", "crashed"}
    BY <1>n, EvalNodesTyped
  <2>2. Ordered(ops')
    BY <1>0, <1>n, <2>1, OrderedFront
  <2> QED
    BY <1>n, <2>1, <2>2, IncreasingPrime
<1>s. ASSUME ops' = ops, phase' # "eval" PROVE Increasing'
  BY <1>0, <1>s, IncreasingPrime
<1>1. CASE UNCHANGED vars
  BY <1>1 DEF vars, evaluating, Increasing
<1>2. CASE \/ \E op \in Signs : ReadSign(op)
           \/ \E op \in Operators \union {"(", ")"} : ReadOperator(op)
           \/ ReadNumber \/ ReadBad \/ EndOfInput
  <2>1. phase = "build" /\ UNCHANGED evaluating
    BY <1>2 DEF ReadSign, ReadOperator, ReadNumber, ReadBad, EndOfInput, Reads
  <2> QED
    BY <1>0, <2>1, IncreasingPrime DEF Fresh, evaluating, Top
<1>3. CASE \E op \in Operators : EvalOperator(op)
  <2>1. PICK op \in Operators : EvalOperator(op)
    BY <1>3
  <2>2. CASE Prec(op) > precedence /\ Pushes(op)
    BY <1>0, <1>p, <2>1, <2>2 DEF EvalOperator, Evaluates
  <2>3. CASE UNCHANGED <<index, evaluating>> /\ (Error(127) \/ Goes("pop"))
    BY <1>s, <2>3 DEF Error, Goes, evaluating
  <2> QED
    BY <2>1, <2>2, <2>3 DEF EvalOperator
<1>4. CASE EvalNumber
  <2>1. phase = "eval" /\ index <= Len(list) /\ UNCHANGED <<ops, precedence>>
    BY <1>4 DEF EvalNumber, Evaluates
  <2> QED
    BY <1>0, <2>1, IncreasingPrime
<1>5. CASE EvalOpen
  <2>1. ops' = Append(ops, "(") /\ precedence' = 0
    BY <1>5 DEF EvalOpen
  <2> QED
    BY <1>0, <2>1, OrderedAppend, IncreasingPrime, PrecAny
<1>6. CASE EvalClose
  BY <1>6, <1>s DEF EvalClose, evaluating, Error, Crash, Goes
<1>7. CASE Pop
  <2>1. phase = "pop" /\ UNCHANGED list /\ Current.op \in Operators
    BY <1>7 DEF Pop, TypeOK
  <2>2. CASE Yields(Current.op) /\ EvalNodes /\ UNCHANGED index
    BY <1>n, <2>1, <2>2 DEF Yields
  <2>3. CASE ~Yields(Current.op) /\ Pushes(Current.op)
    <3>1. Top(ops) \in 0..2 /\ Prec(Current.op) \in 0..2 /\ Prec(Current.op) > 0
      BY <1>0, <2>1, OverTop, PrecAny, PrecIs
    <3>2. Prec(Current.op) > Top(ops)
      BY <2>3, <3>1 DEF Yields, Top
    <3> QED
      BY <1>p, <2>1, <2>3, <3>2
  <2> QED
    BY <1>7, <2>2, <2>3 DEF Pop
<1>8. CASE Close
  <2>1. phase = "close" /\ UNCHANGED list
    BY <1>8 DEF Close
  <2>2. CASE Crash /\ UNCHANGED <<index, evaluating>>
    BY <1>s, <2>2 DEF Crash, evaluating
  <2>3. CASE ops # <<>> /\ EvalNodes /\ UNCHANGED index
    BY <1>n, <2>1, <2>3
  <2>4. CASE ops # <<>> /\ Closed
    BY <1>0, <2>4, OrderedFront, IncreasingPrime DEF Closed
  <2> QED
    BY <1>8, <2>2, <2>3, <2>4 DEF Close
<1>9. CASE Finish
  <2>1. phase = "eval" /\ index = Len(list) + 1 /\ UNCHANGED <<index, list>> /\ ~(index <= Len(list))
    <3>1. Len(list) \in Nat
      BY DEF TypeOK
    <3> QED
      BY <1>9, <3>1 DEF Finish
  <2>2. CASE ops # <<>> /\ EvalNodes
    BY <1>n, <2>1, <2>2
  <2>3. CASE Crash /\ UNCHANGED evaluating
    BY <1>s, <2>3 DEF Crash, evaluating
  <2>4. CASE phase' = "printed" /\ UNCHANGED evaluating
    BY <1>s, <2>4 DEF evaluating
  <2> QED
    BY <1>9, <2>2, <2>3, <2>4 DEF Finish
<1> QED
  BY <1>1, <1>2, <1>3, <1>4, <1>5, <1>6, <1>7, <1>8, <1>9 DEF Next

\* The precedence beside the stack is that of its top, and pending operators bind
\* ever stronger, whatever the expression is and however deep its parentheses nest.
THEOREM IncreasingAlways == Spec => []Increasing
<1> DEFINE Inv == Fresh /\ TypeOK /\ Increasing
<1>1. Init => Inv
  <2>1. Init => Fresh /\ Increasing
    BY DEF Init, Fresh, Increasing
  <2> QED
    BY <2>1, InitTyped
<1>2. Inv /\ [Next]_vars => Inv'
  BY FreshPreserved, IncreasingPreserved, TypePreserved
<1> QED
  BY <1>1, <1>2, PTL DEF Spec

----------------------------------------------------------------------------
(* The list: each element stands for a span of tokens                      *)

\* What build_list() lets through but no expression has: an operand behind a ), or an
\* operator at the end
Fits(s) ==
  /\ \A i \in 1..Len(s)-1 : s[i].op = ")" => s[i + 1].op \notin {"num", "("}
  /\ s # <<>> => s[Len(s)].op \notin Operators

\* What has a meaning has nothing of that, and every token at its place.
LEMMA MeantIs ==
  ASSUME NEW s \in Seq(Token), PlainMeaning(s).how # "bad"
  PROVE  /\ Fits(s) /\ Len(s) \in Nat \ {0} /\ Closes(s, Len(s)) /\ Depth(s, Len(s)) = 0
         /\ \A p \in 0..Len(s) : Right(s, p) /\ Depth(s, p) >= 0
         /\ \A i \in 1..Len(s) : s[i].op # "bad"
         /\ \A i \in 1..Len(s)-1 :
              /\ s[i].op \in Ends => s[i + 1].op \in Operators \union {")"}
              /\ s[i].op \in Signs /\ ~Closes(s, i - 1) => s[i + 1].op \in Signs \union {"num"}
<1> DEFINE n == Len(s)
<1>1. n \in Nat /\ 1 \in 1..n+1 /\ n \in 0..n /\ 1 - 1 = 0
  OBVIOUS
<1>2. WellFormed(s, 1, n)
  <2>1. ~Closes(s, 1 - 1)
    BY <1>1 DEF Closes
  <2> QED
    BY <1>1, <2>1, MeaningsAre, MeaningFormed DEF PlainMeaning
<1>3. /\ 1 <= n /\ s[n].op \in Ends /\ s[1].op \in Signs \union {"num", "("}
      /\ \A i \in 1..n : s[i].op # "bad"
      /\ \A i \in 1..n-1 :
           /\ s[i].op \in Ends => s[i + 1].op \in Operators \union {")"}
           /\ s[i].op \notin Ends => s[i + 1].op \in Signs \union {"num", "("}
           /\ s[i].op \in Signs /\ ~Closes(s, i - 1) => s[i + 1].op \in Signs \union {"num"}
      /\ \A i \in 0..n : Depth(s, i) >= 0
      /\ Depth(s, n) = 0
  BY <1>1, <1>2, DepthIs DEF WellFormed
<1>4. Fits(s)
  BY <1>3 DEF Fits, Ends, Operators, Sums, Products
<1>5. ASSUME NEW i \in 1..n PROVE ~Misplaced(s, i)
  <2>1. CASE i = 1
    BY <1>3, <2>1 DEF Misplaced, Signs, Operators, Sums, Products
  <2>2. CASE i # 1
    <3>1. i - 1 \in 1..n-1 /\ (i - 1) + 1 = i /\ i - 1 > 0
      BY <1>1, <2>2
    <3>2. s[i - 1].op \notin Ends => s[i].op \in Signs \union {"num", "("}
      BY <1>3, <3>1
    <3> QED
      BY <3>1, <3>2 DEF Misplaced, Closes, Signs, Operators, Sums, Products
  <2> QED
    BY <2>1, <2>2
<1>6. ASSUME NEW p \in 0..n PROVE Right(s, p)
  <2>1. \A i \in 1..p : i \in 1..n
    BY <1>1
  <2> QED
    BY <1>5, <2>1 DEF Right
<1> QED
  BY <1>1, <1>3, <1>4, <1>6 DEF Closes

\* The sign of a row of signs, one at a time
LEMMA SignOfIs ==
  ASSUME NEW s, NEW lo \in Int, NEW hi \in Int
  PROVE  /\ SignOf(s, lo, hi) \in {-1, 1}
         /\ hi < lo => SignOf(s, lo, hi) = 1
         /\ hi >= lo => SignOf(s, lo, hi) = SignOf(s, lo, hi - 1) * (IF s[hi].op = "-" THEN -1 ELSE 1)
<1> DEFINE a == Count(s, "-", lo, hi) b == Count(s, "-", lo, hi - 1)
<1>1. /\ a \in Nat /\ b \in Nat
      /\ hi < lo => a = 0
      /\ hi >= lo => a = b + (IF s[hi].op = "-" THEN 1 ELSE 0)
  BY CountIs
<1>2. SignOf(s, lo, hi) = (IF a % 2 = 1 THEN -1 ELSE 1) /\ SignOf(s, lo, hi - 1) = (IF b % 2 = 1 THEN -1 ELSE 1)
  BY DEF SignOf
<1> HIDE DEF a, b
<1>3. a % 2 \in 0..1 /\ b % 2 \in 0..1
  BY <1>1
<1>4. a = b + 1 => (a % 2 = 1 <=> b % 2 = 0)
  BY <1>1
<1> QED
  BY <1>1, <1>2, <1>3, <1>4

\* One more token at its place
LEMMA RightGrows ==
  ASSUME NEW s, NEW p \in Nat
  PROVE  Right(s, p + 1) <=> Right(s, p) /\ ~Misplaced(s, p + 1)
<1>1. \A i : i \in 1..p+1 <=> i \in 1..p \/ i = p + 1
  OBVIOUS
<1> QED
  BY <1>1 DEF Right

\* Nothing in a number is out of place.
LEMMA RightNumber ==
  ASSUME NEW s \in Seq(Token), NEW e \in 0..Len(s), NEW f \in e+1..Len(s), ~Closes(s, e), Signed(s, e + 1, f)
  PROVE  Right(s, f) <=> Right(s, e)
<1>1. ASSUME NEW i \in e+1..f PROVE ~Misplaced(s, i)
  <2>1. i \in e+1..f-1 \/ i = f
    OBVIOUS
  <2> QED
    BY <2>1 DEF Signed, Misplaced, Signs, Operators, Sums, Products
<1>2. \A i : i \in 1..f <=> i \in 1..e \/ i \in e+1..f
  OBVIOUS
<1> QED
  BY <1>1, <1>2 DEF Right

\* An element is what is between two places of the expression.
Covers(s, node, e, f) ==
  /\ e < f /\ node.op = s[f].op
  /\ IF node.op = "num"
     THEN ~Closes(s, e) /\ Signed(s, e + 1, f) /\ node.nb = SignOf(s, e + 1, f) * s[f].nb
     ELSE f = e + 1 /\ (node.op \in Signs => Closes(s, e)) /\ (node.op = "(" => ~Closes(s, e))

Follows(s, l, en) ==
  /\ en \in [0..Len(l) -> 0..Len(s)] /\ en[0] = 0
  /\ \A k \in 1..Len(l) : Covers(s, l[k], en[k - 1], en[k])

\* An empty list follows no token.
LEMMA FollowsInit ==
  ASSUME NEW s \in Seq(Token)
  PROVE  Follows(s, <<>>, [k \in 0..0 |-> 0])
<1>1. Len(s) \in Nat /\ Len(<<>>) = 0 /\ 1..0 = {}
  OBVIOUS
<1> QED
  BY <1>1 DEF Follows

\* One more element follows the tokens up to its end.
LEMMA FollowsGrows ==
  ASSUME NEW s \in Seq(Token), NEW l \in Seq(Element), NEW en, Follows(s, l, en), NEW node \in Element,
         NEW f \in 0..Len(s), Covers(s, node, en[Len(l)], f)
  PROVE  \E en2 : Follows(s, Append(l, node), en2) /\ en2[Len(l) + 1] = f
<1> DEFINE n == Len(l) l2 == Append(l, node) en2 == Extend(en, n, f)
<1>1. n \in Nat /\ Len(l2) = n + 1 /\ l2[n + 1] = node /\ \A k \in 1..n : l2[k] = l[k]
  BY AppendIs
<1>2. en \in [0..n -> 0..Len(s)] /\ en[0] = 0 /\ \A k \in 1..n : Covers(s, l[k], en[k - 1], en[k])
  BY DEF Follows
<1>3. en2 \in [0..n+1 -> 0..Len(s)] /\ en2[n + 1] = f /\ \A k \in 0..n : en2[k] = en[k]
  <2> HIDE DEF n
  <2> QED
    BY <1>1, <1>2 DEF Extend
<1>4. Covers(s, node, en[n], f)
  OBVIOUS
<1> HIDE DEF en2, l2, n
<1>5. ASSUME NEW k \in 1..n+1 PROVE Covers(s, l2[k], en2[k - 1], en2[k])
  <2>1. CASE k = n + 1
    <3>1. k - 1 = n /\ n \in 0..n
      BY <1>1, <2>1
    <3> QED
      BY <1>1, <1>3, <1>4, <2>1, <3>1
  <2>2. CASE k \in 1..n
    <3>1. k \in 0..n /\ k - 1 \in 0..n
      BY <1>1, <2>2
    <3> QED
      BY <1>1, <1>2, <1>3, <2>2, <3>1
  <2> QED
    BY <1>1, <2>1, <2>2
<1>6. en2[0] = 0
  BY <1>1, <1>2, <1>3
<1> QED
  BY <1>1, <1>3, <1>5, <1>6 DEF Follows, l2, n

----------------------------------------------------------------------------
(* The inductive invariant: Counted of the parentheses, Traced of          *)
(* build_list(), Stacked of eval_list()                                    *)

\* Parentheses are counted.
Counted ==
  /\ phase = "build" => parenthesis = Depth(input, index - 1)
  /\ phase \in {"eval", "pop", "close"} => Depth(input, Len(input)) = 0

\* Where build_list() is when its elements end with token e
Reached(s, i, sgn, prev, e) ==
  /\ prev = IF e = 0 THEN "none" ELSE s[e].op
  /\ IF sgn = 0 THEN e = i - 1
     ELSE /\ e < i - 1 /\ ~Closes(s, e) /\ \A k \in e+1..i-1 : s[k].op \in Signs
          /\ sgn = SignOf(s, e + 1, i - 1)

Traced ==
  phase = "build" /\ Fits(input) => \E en : Follows(input, list, en) /\ Reached(input, index, sign, prev_op, en[Len(list)])

Evaluation(en) ==
  LET p == en[index - 1] IN
  IF phase = "eval"
  THEN Laid(input, ops, stack, p, Right(input, p), IF Closes(input, p) THEN 1 ELSE 0,
            IF index <= Len(list) THEN 3 ELSE 0)
  ELSE /\ Laid(input, ops, stack, p, Right(input, en[index]), 1,
               IF phase = "pop" THEN Prec(Current.op) ELSE 0)
       /\ phase = "close" => Current.op = ")"

Stacked ==
  phase \in {"eval", "pop", "close"} /\ Fits(input) =>
    \E en : Follows(input, list, en) /\ en[Len(list)] = Len(input) /\ Evaluation(en)

BuildStep ==
  \/ \E op \in Signs : ReadSign(op)
  \/ \E op \in Operators \union {"(", ")"} : ReadOperator(op)
  \/ ReadNumber \/ ReadBad \/ EndOfInput

EvalStep ==
  \/ \E op \in Operators : EvalOperator(op)
  \/ EvalNumber \/ EvalOpen \/ EvalClose \/ Pop \/ Close \/ Finish

\* What no step of build_list() touches
LEMMA BuildKeeps ==
  ASSUME BuildStep
  PROVE  phase = "build" /\ UNCHANGED <<input, result>> /\ UNCHANGED evaluating /\ phase' \in {"build", "eval", "exit"}
BY DEF BuildStep, ReadSign, ReadOperator, ReadNumber, ReadBad, EndOfInput, Reads, Refuses, Error, Goes

\* What reading a token does
LEMMA ReadIs ==
  ASSUME TypeOK, BuildStep, phase' = "build"
  PROVE  /\ index \in 1..Len(input) /\ index' = index + 1
         /\ \/ \E op \in Signs :
                 /\ input[index].op = op /\ IsSign(op)
                 /\ sign' = (IF sign = 0 THEN 1 ELSE sign) * (IF op = "-" THEN -1 ELSE 1)
                 /\ UNCHANGED <<prev_op, parenthesis, list>>
            \/ \E op \in Operators \union {"(", ")"} :
                 /\ input[index].op = op /\ ~IsSign(op) /\ sign = 0 /\ ~(op = "(" /\ prev_op = "num")
                 /\ Adds(Node(op, 0))
                 /\ parenthesis' = parenthesis + (CASE op = "(" -> 1 [] op = ")" -> -1 [] OTHER -> 0)
            \/ /\ input[index].op = "num" /\ prev_op # "num"
               /\ Adds(Node("num", (IF sign = 0 THEN 1 ELSE sign) * input[index].nb))
               /\ UNCHANGED parenthesis
<1>1. CASE \E op \in Signs : ReadSign(op)
  BY <1>1, TokenRead DEF ReadSign, Reads, Token1
<1>2. CASE \E op \in Operators \union {"(", ")"} : ReadOperator(op)
  <2>1. PICK op \in Operators \union {"(", ")"} : ReadOperator(op)
    BY <1>2
  <2>2. phase = "build" /\ index <= Len(input) /\ input[index].op = op /\ ~IsSign(op) /\ ~Refuses
    BY <2>1 DEF ReadOperator, Reads, Token1, Refuses, Error
  <2>3. sign = 0 /\ ~(op = "(" /\ prev_op = "num") /\ Adds(Node(op, 0))
        /\ parenthesis' = parenthesis + (CASE op = "(" -> 1 [] op = ")" -> -1 [] OTHER -> 0)
    BY <2>1, <2>2 DEF ReadOperator
  <2>4. index' = index + 1 /\ index \in 1..Len(input)
    BY <2>2, <2>3, TokenRead DEF Adds
  <2> QED
    BY <2>2, <2>3, <2>4
<1>3. CASE ReadNumber
  <2>1. phase = "build" /\ index <= Len(input) /\ input[index].op = "num" /\ ~Refuses
    BY <1>3 DEF ReadNumber, Reads, Token1, Refuses, Error
  <2>2. prev_op # "num" /\ Adds(Node("num", (IF sign = 0 THEN 1 ELSE sign) * input[index].nb)) /\ UNCHANGED parenthesis
    BY <1>3, <2>1 DEF ReadNumber, Token1
  <2>3. index' = index + 1 /\ index \in 1..Len(input)
    BY <2>1, <2>2, TokenRead DEF Adds
  <2> QED
    BY <2>1, <2>2, <2>3
<1>4. CASE ReadBad \/ EndOfInput
  BY <1>4 DEF ReadBad, EndOfInput, Refuses, Error, Goes
<1> QED
  BY <1>1, <1>2, <1>3, <1>4 DEF BuildStep

\* What its end does
LEMMA EndIs ==
  ASSUME TypeOK, BuildStep, phase' = "eval"
  PROVE  /\ index = Len(input) + 1 /\ index' = 1 /\ parenthesis = 0
         /\ list' = IF sign = 0 THEN list ELSE Append(list, Node("num", 0))
BY DEF BuildStep, ReadSign, ReadOperator, ReadNumber, ReadBad, EndOfInput, Refuses, Error, Goes

\* build_list() counts parentheses as Depth does.
LEMMA CountedBuild ==
  ASSUME TypeOK, Counted, BuildStep
  PROVE  Counted'
<1>1. phase = "build" /\ input' = input /\ phase' \in {"build", "eval", "exit"}
  BY BuildKeeps
<1>2. input \in Seq(Token) /\ index \in Nat \ {0} /\ parenthesis \in Int /\ Len(input) \in Nat
  BY DEF TypeOK
<1>3. CASE phase' = "build"
  <2>1. index \in Nat \ {0} /\ index' - 1 = index
    BY <1>2, <1>3, ReadIs
  <2>2. /\ Depth(input, index) =
             Depth(input, index - 1) + (IF input[index].op = "(" THEN 1 ELSE IF input[index].op = ")" THEN -1 ELSE 0)
        /\ Depth(input, index - 1) \in Int
    BY <1>2, DepthIs
  <2>3. parenthesis = Depth(input, index - 1)
    BY <1>1 DEF Counted
  <2>4. parenthesis' = Depth(input, index)
    <3>1. CASE \E op \in Signs : input[index].op = op /\ UNCHANGED parenthesis
      BY <2>2, <2>3, <3>1 DEF Signs
    <3>2. CASE \E op \in Operators \union {"(", ")"} :
                 input[index].op = op
                 /\ parenthesis' = parenthesis + (CASE op = "(" -> 1 [] op = ")" -> -1 [] OTHER -> 0)
      BY <1>2, <2>2, <2>3, <3>2 DEF Operators, Sums, Products
    <3>3. CASE input[index].op = "num" /\ UNCHANGED parenthesis
      BY <2>2, <2>3, <3>3
    <3> QED
      BY <1>3, <3>1, <3>2, <3>3, ReadIs
  <2> QED
    BY <1>1, <1>3, <2>1, <2>4 DEF Counted
<1>4. CASE phase' = "eval"
  <2>1. index - 1 = Len(input) /\ parenthesis = 0
    BY <1>2, <1>4, EndIs
  <2> QED
    BY <1>1, <1>4, <2>1 DEF Counted
<1>5. CASE phase' = "exit"
  BY <1>5 DEF Counted
<1> QED
  BY <1>1, <1>3, <1>4, <1>5

\* Its list follows the expression, token by token, as long as that fits.
LEMMA TracedBuild ==
  ASSUME TypeOK, Traced, BuildStep
  PROVE  Traced'
<1> SUFFICES ASSUME phase' = "build", Fits(input)
             PROVE  \E en : Follows(input, list', en) /\ Reached(input, index', sign', prev_op', en[Len(list')])
  BY BuildKeeps DEF Traced
<1>1. phase = "build" /\ input' = input
  BY BuildKeeps
<1>2. /\ input \in Seq(Token) /\ index \in Nat \ {0} /\ list \in Seq(Element) /\ sign \in {-1, 0, 1}
      /\ Len(input) \in Nat /\ Len(list) \in Nat
  BY DEF TypeOK
<1>3. PICK en : Follows(input, list, en) /\ Reached(input, index, sign, prev_op, en[Len(list)])
  BY <1>1 DEF Traced
<1> DEFINE e == en[Len(list)]
<1>4. e \in 0..Len(input) /\ e \in Nat
  BY <1>2, <1>3 DEF Follows
<1>r. Reached(input, index, sign, prev_op, e)
  BY <1>3
<1>5. index \in 1..Len(input) /\ index' = index + 1 /\ index' - 1 = index
  BY ReadIs
<1> HIDE DEF e
<1>6. /\ e < index
      /\ SignOf(input, e + 1, index - 1) = (IF sign = 0 THEN 1 ELSE sign)
      /\ \A i \in e+1..index-1 : input[i].op \in Signs
      /\ sign # 0 => ~Closes(input, e)
      /\ sign = 0 => e = index - 1
  <2>1. CASE sign = 0
    <3>1. e = index - 1
      BY <1>r, <2>1 DEF Reached
    <3>2. index - 1 < e + 1 /\ e + 1 \in Int /\ index - 1 \in Int
      BY <1>2, <1>4, <3>1
    <3>3. SignOf(input, e + 1, index - 1) = 1
      BY <3>2, SignOfIs
    <3> QED
      BY <1>2, <1>4, <2>1, <3>1, <3>3
  <2>2. CASE sign # 0
    BY <1>2, <1>4, <1>r, <2>2 DEF Reached
  <2> QED
    BY <2>1, <2>2
<1>7. prev_op = IF e = 0 THEN "none" ELSE input[e].op
  BY <1>r DEF Reached
<1>8. SignOf(input, e + 1, index) = (IF sign = 0 THEN 1 ELSE sign) * (IF input[index].op = "-" THEN -1 ELSE 1)
  <2>1. e + 1 \in Int /\ index \in Int /\ index >= e + 1
    BY <1>2, <1>4, <1>6
  <2> QED
    BY <1>6, <2>1, SignOfIs
<1>9. ASSUME e = index - 1, e # 0, input[e].op = ")" PROVE input[index].op \notin {"num", "("}
  <2>1. e \in 1..Len(input)-1 /\ e + 1 = index
    BY <1>2, <1>4, <1>5, <1>9
  <2> QED
    BY <1>9, <2>1 DEF Fits
<1>10. CASE \E op \in Signs :
                 /\ input[index].op = op /\ IsSign(op)
                 /\ sign' = (IF sign = 0 THEN 1 ELSE sign) * (IF op = "-" THEN -1 ELSE 1)
                 /\ UNCHANGED <<prev_op, parenthesis, list>>
  <2>1. PICK op \in Signs :
                 /\ input[index].op = op /\ IsSign(op)
                 /\ sign' = (IF sign = 0 THEN 1 ELSE sign) * (IF op = "-" THEN -1 ELSE 1)
                 /\ UNCHANGED <<prev_op, parenthesis, list>>
    BY <1>10
  <2>2. sign' # 0 /\ sign' = SignOf(input, e + 1, index)
    BY <1>2, <1>8, <2>1
  <2>3. ~Closes(input, e)
    <3>1. CASE sign = 0
      BY <1>4, <1>7, <2>1, <3>1 DEF IsSign, Closes, Ends
    <3>2. CASE sign # 0
      BY <1>6, <3>2
    <3> QED
      BY <3>1, <3>2
  <2>4. \A i \in e+1..index : input[i].op \in Signs
    <3>1. \A i \in e+1..index : i \in e+1..index-1 \/ i = index
      BY <1>2, <1>4
    <3> QED
      BY <1>6, <2>1, <3>1
  <2>5. Reached(input, index', sign', prev_op', e)
    BY <1>1, <1>4, <1>5, <1>6, <1>7, <2>1, <2>2, <2>3, <2>4 DEF Reached
  <2> QED
    BY <1>1, <1>3, <2>1, <2>5 DEF e
<1>a. ASSUME NEW op \in Operators \union {"(", ")", "num"}, NEW nb \in Int, Adds(Node(op, nb)),
             input[index].op = op, Covers(input, Node(op, nb), e, index)
      PROVE  \E en2 : Follows(input, list', en2) /\ Reached(input, index', sign', prev_op', en2[Len(list')])
  <2>1. Node(op, nb) \in Element /\ Node(op, nb).op = op
    BY DEF Node, Element
  <2>2. list' = Append(list, Node(op, nb)) /\ prev_op' = op /\ sign' = 0 /\ Len(list') = Len(list) + 1
    <3>1. list' = Append(list, Node(op, nb)) /\ prev_op' = op /\ sign' = 0
      BY <1>a, <2>1 DEF Adds
    <3> QED
      BY <1>2, <2>1, <3>1, AppendIs
  <2>3. \E en2 : Follows(input, Append(list, Node(op, nb)), en2) /\ en2[Len(list) + 1] = index
    <3>1. index \in 0..Len(input)
      BY <1>5
    <3>2. Covers(input, Node(op, nb), en[Len(list)], index)
      BY <1>a DEF e
    <3> QED
      BY <1>2, <1>3, <2>1, <3>1, <3>2, FollowsGrows
  <2>4. PICK en2 : Follows(input, list', en2) /\ en2[Len(list')] = index
    BY <2>2, <2>3
  <2>5. Reached(input, index', sign', prev_op', index)
    BY <1>1, <1>2, <1>a, <1>5, <2>2 DEF Reached
  <2> QED
    BY <1>1, <2>4, <2>5
<1>11. CASE \E op \in Operators \union {"(", ")"} :
                 /\ input[index].op = op /\ ~IsSign(op) /\ sign = 0 /\ ~(op = "(" /\ prev_op = "num")
                 /\ Adds(Node(op, 0))
  <2>1. PICK op \in Operators \union {"(", ")"} :
                 /\ input[index].op = op /\ ~IsSign(op) /\ sign = 0 /\ ~(op = "(" /\ prev_op = "num")
                 /\ Adds(Node(op, 0))
    BY <1>11
  <2>2. e = index - 1 /\ index = e + 1
    BY <1>2, <1>4, <1>6, <2>1
  <2>3. op # "num" /\ Node(op, 0).op = op
    BY DEF Node, Operators, Sums, Products
  <2>4. op \in Signs => Closes(input, e)
    BY <1>4, <1>7, <2>1 DEF IsSign, Closes, Ends
  <2>5. op = "(" => ~Closes(input, e)
    BY <1>1, <1>4, <1>7, <1>9, <2>1, <2>2 DEF Closes, Ends
  <2>6. Covers(input, Node(op, 0), e, index)
    BY <1>6, <2>1, <2>2, <2>3, <2>4, <2>5 DEF Covers
  <2> QED
    BY <1>a, <2>1, <2>6
<1>12. CASE /\ input[index].op = "num" /\ prev_op # "num"
            /\ Adds(Node("num", (IF sign = 0 THEN 1 ELSE sign) * input[index].nb))
  <2> DEFINE nb == (IF sign = 0 THEN 1 ELSE sign) * input[index].nb
  <2>1. input[index].nb \in Nat
    BY <1>2, <1>5, <1>12, TokenIs
  <2>2. nb \in Int /\ nb = SignOf(input, e + 1, index) * input[index].nb
    <3>1. SignOf(input, e + 1, index) = (IF sign = 0 THEN 1 ELSE sign)
      BY <1>2, <1>8, <1>12
    <3> QED
      BY <1>2, <2>1, <3>1
  <2>3. ~Closes(input, e)
    BY <1>1, <1>4, <1>6, <1>7, <1>9, <1>12 DEF Closes, Ends
  <2>4. Signed(input, e + 1, index)
    BY <1>2, <1>4, <1>6, <1>12 DEF Signed
  <2>5. Node("num", nb).op = "num" /\ Node("num", nb).nb = nb
    BY DEF Node
  <2>6. Adds(Node("num", nb))
    BY <1>12
  <2> HIDE DEF nb
  <2>7. Covers(input, Node("num", nb), e, index)
    BY <1>6, <1>12, <2>2, <2>3, <2>4, <2>5 DEF Covers
  <2> QED
    BY <1>a, <1>12, <2>2, <2>6, <2>7
<1> QED
  BY <1>10, <1>11, <1>12, ReadIs

\* What is before the token it reads
LEMMA ReachedIs ==
  ASSUME NEW s \in Seq(Token), NEW i \in Nat \ {0}, NEW sgn, NEW prev, NEW e \in 0..Len(s),
         Reached(s, i, sgn, prev, e)
  PROVE  /\ prev = IF e = 0 THEN "none" ELSE s[e].op
         /\ sgn = 0 => e = i - 1
         /\ sgn # 0 => /\ e < i - 1 /\ i - 1 \in Nat \ {0} /\ s[i - 1].op \in Signs
                       /\ ~Closes(s, e) /\ ~Closes(s, (i - 1) - 1)
<1>1. CASE sgn = 0
  BY <1>1 DEF Reached
<1>2. CASE sgn # 0
  <2>1. e < i - 1 /\ ~Closes(s, e) /\ \A k \in e+1..i-1 : s[k].op \in Signs
    BY <1>2 DEF Reached
  <2>2. e \in Nat /\ i - 1 \in Nat \ {0} /\ i - 1 \in e+1..i-1
    BY <2>1
  <2>3. CASE e = i - 2
    <3>1. (i - 1) - 1 = e
      BY <2>2, <2>3
    <3> QED
      BY <1>2, <2>1, <2>2, <3>1 DEF Reached
  <2>4. CASE e # i - 2
    <3>1. (i - 1) - 1 \in e+1..i-1
      BY <2>1, <2>2, <2>4
    <3>2. ~Closes(s, (i - 1) - 1)
      BY <2>1, <3>1 DEF Closes, Ends, Signs
    <3> QED
      BY <1>2, <2>1, <2>2, <3>2 DEF Reached
  <2> QED
    BY <2>3, <2>4
<1> QED
  BY <1>1, <1>2

\* An error of build_list() is one of the expression.
LEMMA BuildRefuses ==
  ASSUME TypeOK, Traced, Counted, BuildStep, phase' = "exit"
  PROVE  PlainMeaning(input).how = "bad"
<1> SUFFICES ASSUME PlainMeaning(input).how # "bad" PROVE FALSE
  OBVIOUS
<1>1. phase = "build"
  BY BuildKeeps
<1>2. /\ input \in Seq(Token) /\ index \in Nat \ {0} /\ list \in Seq(Element)
      /\ Len(input) \in Nat /\ Len(list) \in Nat
  BY DEF TypeOK
<1>3. /\ Fits(input) /\ Depth(input, Len(input)) = 0
      /\ \A i \in 1..Len(input) : input[i].op # "bad"
      /\ \A i \in 1..Len(input)-1 :
           /\ input[i].op \in Ends => input[i + 1].op \in Operators \union {")"}
           /\ input[i].op \in Signs /\ ~Closes(input, i - 1) => input[i + 1].op \in Signs \union {"num"}
  BY <1>2, MeantIs
<1>4. PICK en : Follows(input, list, en) /\ Reached(input, index, sign, prev_op, en[Len(list)])
  BY <1>1, <1>3 DEF Traced
<1> DEFINE e == en[Len(list)]
<1>5. e \in 0..Len(input) /\ Reached(input, index, sign, prev_op, e)
  BY <1>2, <1>4 DEF Follows
<1> HIDE DEF e
<1>6. /\ prev_op = IF e = 0 THEN "none" ELSE input[e].op
      /\ sign = 0 => e = index - 1
      /\ sign # 0 => /\ index - 1 \in Nat \ {0} /\ input[index - 1].op \in Signs
                     /\ ~Closes(input, e) /\ ~Closes(input, (index - 1) - 1)
  BY <1>2, <1>5, ReachedIs
<1>7. \* behind a number
      ASSUME index <= Len(input), prev_op = "num" PROVE input[index].op \in Operators \union {")"}
  <2>1. e # 0 /\ input[e].op = "num"
    BY <1>6, <1>7
  <2>2. sign = 0
    BY <1>5, <1>6, <2>1 DEF Closes, Ends
  <2>3. e \in 1..Len(input)-1 /\ e + 1 = index
    BY <1>2, <1>5, <1>6, <1>7, <2>1, <2>2
  <2> QED
    BY <1>3, <2>1, <2>3 DEF Ends
<1>8. \* behind a sign of a number
      ASSUME index <= Len(input), sign # 0 PROVE input[index].op \in Signs \union {"num"}
  <2>1. index - 1 \in 1..Len(input)-1 /\ (index - 1) + 1 = index
    BY <1>2, <1>6, <1>8
  <2> QED
    BY <1>3, <1>6, <1>8, <2>1
<1>9. CASE \E op \in Operators \union {"(", ")"} : ReadOperator(op)
  <2>1. PICK op \in Operators \union {"(", ")"} : ReadOperator(op)
    BY <1>9
  <2>2. /\ index <= Len(input) /\ input[index].op = op /\ ~IsSign(op)
        /\ sign # 0 \/ (op = "(" /\ prev_op = "num")
    BY <2>1 DEF ReadOperator, Reads, Token1, Goes
  <2>3. CASE sign # 0
    BY <1>8, <2>2, <2>3 DEF IsSign, Operators, Sums, Products
  <2>4. CASE op = "(" /\ prev_op = "num"
    BY <1>7, <2>2, <2>4 DEF Operators, Sums, Products
  <2> QED
    BY <2>2, <2>3, <2>4
<1>10. CASE ReadNumber
  <2>1. index <= Len(input) /\ input[index].op = "num" /\ prev_op = "num"
    BY <1>10 DEF ReadNumber, Reads, Token1, Goes
  <2> QED
    BY <1>7, <2>1 DEF Operators, Sums, Products
<1>11. CASE ReadBad
  <2>1. index <= Len(input) /\ input[index].op = "bad"
    BY <1>11 DEF ReadBad, Reads, Token1
  <2> QED
    BY <1>2, <1>3, <2>1
<1>12. CASE EndOfInput
  <2>1. index = Len(input) + 1 /\ parenthesis # 0
    BY <1>12 DEF EndOfInput, Goes
  <2>2. index - 1 = Len(input)
    BY <1>2, <2>1
  <2> QED
    BY <1>1, <1>3, <2>1, <2>2 DEF Counted
<1>13. CASE \E op \in Signs : ReadSign(op)
  BY <1>13 DEF ReadSign, Goes
<1> QED
  BY <1>9, <1>10, <1>11, <1>12, <1>13 DEF BuildStep

\* At its end the list follows the whole of it, and the stacks are empty.
LEMMA StackedBuild ==
  ASSUME TypeOK, Fresh, Traced, BuildStep
  PROVE  Stacked'
<1>1. phase = "build" /\ input' = input /\ UNCHANGED evaluating /\ phase' \in {"build", "eval", "exit"}
  BY BuildKeeps
<1> SUFFICES ASSUME phase' = "eval", Fits(input)
             PROVE  \E en : Follows(input, list', en) /\ en[Len(list')] = Len(input) /\ Evaluation(en)'
  BY <1>1 DEF Stacked
<1>2. /\ input \in Seq(Token) /\ index \in Nat \ {0} /\ list \in Seq(Element)
      /\ Len(input) \in Nat /\ Len(list) \in Nat
  BY DEF TypeOK
<1>3. index = Len(input) + 1 /\ index' = 1 /\ list' = IF sign = 0 THEN list ELSE Append(list, Node("num", 0))
  BY EndIs
<1>4. PICK en : Follows(input, list, en) /\ Reached(input, index, sign, prev_op, en[Len(list)])
  BY <1>1 DEF Traced
<1> DEFINE e == en[Len(list)]
<1>5. e \in 0..Len(input) /\ Reached(input, index, sign, prev_op, e)
  BY <1>2, <1>4 DEF Follows
<1>6. sign = 0 /\ e = Len(input)
  <2> HIDE DEF e
  <2>1. index - 1 = Len(input)
    BY <1>2, <1>3
  <2>2. CASE sign # 0
    <3>1. Len(input) # 0 /\ input[Len(input)].op \in Signs
      BY <1>2, <1>5, <2>1, <2>2, ReachedIs
    <3>2. input # <<>>
      BY <3>1
    <3> QED
      BY <3>1, <3>2 DEF Fits, Signs, Operators, Sums, Products
  <2>3. CASE sign = 0
    BY <1>2, <1>5, <2>1, <2>3, ReachedIs
  <2> QED
    BY <2>2, <2>3
<1>7. list' = list /\ en[0] = 0
  BY <1>3, <1>4, <1>6 DEF Follows
<1>8. Evaluation(en)'
  <2>1. ops' = <<>> /\ stack' = <<>>
    BY <1>1 DEF Fresh, evaluating
  <2>2. Right(input, 0)
    BY DEF Right
  <2>3. index' - 1 = 0
    BY <1>3
  <2>4. Laid(input, <<>>, <<>>, 0, Right(input, 0), IF Closes(input, 0) THEN 1 ELSE 0,
             IF index' <= Len(list') THEN 3 ELSE 0)
    BY <1>2, <2>2, LaidInit
  <2> QED
    BY <1>1, <1>7, <2>1, <2>3, <2>4 DEF Evaluation
<1> QED
  BY <1>4, <1>6, <1>7, <1>8

----------------------------------------------------------------------------
(* The steps of eval_list()                                                *)

\* What is before and behind an element
LEMMA PlaceIs ==
  ASSUME NEW s \in Seq(Token), NEW l \in Seq(Element), NEW en, Follows(s, l, en), NEW k \in 1..Len(l),
         NEW p, NEW f, p = en[k - 1], f = en[k]
  PROVE  /\ p \in 0..Len(s) /\ f \in p+1..Len(s) /\ l[k].op = s[f].op
         /\ l[k].op = "num" => /\ ~Closes(s, p) /\ Signed(s, p + 1, f) /\ l[k].nb = SignOf(s, p + 1, f) * s[f].nb
                               /\ (Right(s, f) <=> Right(s, p)) /\ Closes(s, f)
         /\ l[k].op # "num" => /\ f = p + 1
                               /\ Right(s, f) => Right(s, p)
                               /\ Right(s, p) /\ ~Right(s, f) => ~Closes(s, p)
         /\ l[k].op = "(" => ~Closes(s, p) /\ ~Closes(s, f) /\ (Right(s, f) <=> Right(s, p))
         /\ l[k].op \in Operators => (Right(s, f) => Closes(s, p)) /\ ~Closes(s, f)
         /\ l[k].op = ")" => (Right(s, f) => Closes(s, p)) /\ Closes(s, f)
<1>1. Len(s) \in Nat /\ Len(l) \in Nat /\ k \in 0..Len(l) /\ k - 1 \in 0..Len(l)
  OBVIOUS
<1>2. p \in 0..Len(s) /\ f \in 0..Len(s) /\ Covers(s, l[k], p, f)
  BY <1>1 DEF Follows
<1>3. p \in Nat /\ f \in p+1..Len(s) /\ f > 0 /\ l[k].op = s[f].op
  BY <1>1, <1>2 DEF Covers
<1>4. CASE l[k].op = "num"
  <2>1. ~Closes(s, p) /\ Signed(s, p + 1, f) /\ l[k].nb = SignOf(s, p + 1, f) * s[f].nb
    BY <1>2, <1>4 DEF Covers
  <2>2. Right(s, f) <=> Right(s, p)
    BY <1>2, <1>3, <2>1, RightNumber
  <2>3. Closes(s, f)
    BY <1>3, <1>4 DEF Closes, Ends
  <2> QED
    BY <1>2, <1>3, <1>4, <2>1, <2>2, <2>3 DEF Operators, Sums, Products
<1>5. CASE l[k].op # "num"
  <2>1. f = p + 1 /\ (l[k].op \in Signs => Closes(s, p)) /\ (l[k].op = "(" => ~Closes(s, p))
    BY <1>2, <1>5 DEF Covers
  <2>2. Right(s, f) <=> Right(s, p) /\ ~Misplaced(s, f)
    BY <1>3, <2>1, RightGrows
  <2>3. f - 1 = p
    BY <1>3, <2>1
  <2>4. Misplaced(s, f) <=> ~Closes(s, p) /\ l[k].op \in {")"} \union (Operators \ Signs)
    BY <1>3, <2>3 DEF Misplaced
  <2>5. Closes(s, f) <=> l[k].op = ")"
    BY <1>3, <1>5 DEF Closes, Ends
  <2>6. "(" \notin Operators /\ ")" \notin Operators
    BY DEF Operators, Sums, Products
  <2> QED
    BY <1>2, <1>3, <1>5, <2>1, <2>2, <2>4, <2>5, <2>6
<1> QED
  BY <1>4, <1>5

\* What is in front of an operator is an operand, unless a token is out of place.
LEMMA BeforeOperator ==
  ASSUME NEW s \in Seq(Token), NEW l \in Seq(Element), NEW en, Follows(s, l, en), NEW k \in 1..Len(l),
         l[k].op \in Operators
  PROVE  /\ en[k - 1] \in 0..Len(s) /\ en[k] = en[k - 1] + 1 /\ en[k] \in 1..Len(s)
         /\ s[en[k]].op = l[k].op /\ ~Closes(s, en[k])
         /\ Right(s, en[k]) => Closes(s, en[k - 1])
<1>1. PICK p, f : p = en[k - 1] /\ f = en[k]
  OBVIOUS
<1>2. l[k].op # "num"
  BY PrecIs
<1>3. /\ p \in 0..Len(s) /\ f \in p+1..Len(s) /\ l[k].op = s[f].op
      /\ l[k].op # "num" => f = p + 1
      /\ l[k].op \in Operators => (Right(s, f) => Closes(s, p)) /\ ~Closes(s, f)
  BY <1>1, PlaceIs
<1>4. f \in 1..Len(s)
  BY <1>3
<1> QED
  BY <1>1, <1>2, <1>3, <1>4

\* In front of a ) it is, too.
LEMMA BeforeClose ==
  ASSUME NEW s \in Seq(Token), NEW l \in Seq(Element), NEW en, Follows(s, l, en), NEW k \in 1..Len(l),
         l[k].op = ")"
  PROVE  /\ en[k - 1] \in 0..Len(s) /\ en[k] = en[k - 1] + 1 /\ en[k] \in 1..Len(s)
         /\ s[en[k]].op = ")" /\ Closes(s, en[k])
         /\ Right(s, en[k]) => Closes(s, en[k - 1])
<1>1. PICK p, f : p = en[k - 1] /\ f = en[k]
  OBVIOUS
<1>3. /\ p \in 0..Len(s) /\ f \in p+1..Len(s) /\ l[k].op = s[f].op
      /\ l[k].op # "num" => f = p + 1
      /\ l[k].op = ")" => (Right(s, f) => Closes(s, p)) /\ Closes(s, f)
  BY <1>1, PlaceIs
<1>4. f \in 1..Len(s)
  BY <1>3
<1> QED
  BY <1>1, <1>3, <1>4

\* What no step of eval_list() touches
LEMMA EvalKeeps ==
  ASSUME EvalStep
  PROVE  /\ phase \in {"eval", "pop", "close"} /\ UNCHANGED <<input, list>>
         /\ phase' \in {"eval", "pop", "close", "printed", "exit", "crashed"}
<1>1. phase \in {"eval", "pop", "close"} /\ UNCHANGED list
  BY DEF EvalStep, EvalOperator, EvalNumber, EvalOpen, EvalClose, Pop, Close, Finish, Evaluates
<1>2. EvalNodes => UNCHANGED input /\ phase' \in {phase, "exit", "crashed"}
  BY DEF EvalNodes, Crash, Goes, Error
<1> QED
  BY <1>1, <1>2 DEF EvalStep, EvalOperator, EvalNumber, EvalOpen, EvalClose, Pop, Close, Finish, Pushes, Crash, Goes, Error

\* It counts no parentheses,
LEMMA CountedEval ==
  ASSUME Counted, EvalStep
  PROVE  Counted'
BY EvalKeeps DEF Counted

\* and builds nothing.
LEMMA TracedEval ==
  ASSUME EvalStep
  PROVE  Traced'
BY EvalKeeps DEF Traced

\* The step is one of the stacks over the same elements.
LEMMA StackedTo ==
  ASSUME EvalStep, NEW en, Follows(input, list, en), en[Len(list)] = Len(input), Evaluation(en)'
  PROVE  Stacked'
BY EvalKeeps DEF Stacked

\* Where eval_list() is behind a step
LEMMA InEval ==
  ASSUME NEW en, phase' = "eval", UNCHANGED <<input, list>>, NEW p, p = en[index' - 1],
         NEW floor, floor = IF index' <= Len(list) THEN 3 ELSE 0, NEW slack, slack = IF Closes(input, p) THEN 1 ELSE 0,
         Laid(input, ops', stack', p, Right(input, p), slack, floor)
  PROVE  Evaluation(en)'
BY DEF Evaluation

\* Where it is before one
LEMMA FromEval ==
  ASSUME NEW en, phase = "eval", Evaluation(en), NEW p, p = en[index - 1]
  PROVE  Laid(input, ops, stack, p, Right(input, p), IF Closes(input, p) THEN 1 ELSE 0, IF index <= Len(list) THEN 3 ELSE 0)
BY DEF Evaluation

\* EvalNumber keeps what the stacks are,
LEMMA StackedNumber ==
  ASSUME TypeOK, EvalNumber, NEW en, Follows(input, list, en), Evaluation(en)
  PROVE  Evaluation(en)'
<1> DEFINE p == en[index - 1] f == en[index]
<1>1. phase = "eval" /\ index <= Len(list) /\ Current.op = "num" /\ phase' = "eval" /\ UNCHANGED <<input, list>>
      /\ stack' = Append(stack, Current.nb) /\ index' = index + 1 /\ ops' = ops
  BY DEF EvalNumber, Evaluates, Goes
<1>2. input \in Seq(Token) /\ list \in Seq(Element) /\ ops \in OpSeq /\ stack \in Seq(Int)
  BY DEF TypeOK, OpSeq
<1>3. index \in 1..Len(list) /\ Current.nb \in Int
  BY <1>1, ElementRead
<1>4. /\ p \in 0..Len(input) /\ f \in p+1..Len(input)
      /\ ~Closes(input, p) /\ Signed(input, p + 1, f) /\ Current.nb = SignOf(input, p + 1, f) * input[f].nb
      /\ (Right(input, f) <=> Right(input, p)) /\ Closes(input, f)
  BY <1>1, <1>2, <1>3, PlaceIs DEF Current
<1>5. Laid(input, ops, stack, p, Right(input, p), 0, 3)
  BY <1>1, <1>4, FromEval
<1> DEFINE floor2 == IF index' <= Len(list) THEN 3 ELSE 0
<1>6. index' - 1 = index /\ f = en[index' - 1]
  BY <1>1, <1>3
<1> HIDE DEF p, f, floor2
<1>7. Right(input, p) \in BOOLEAN /\ Right(input, f) = Right(input, p)
  BY <1>4 DEF Right
<1>8. Laid(input, ops, Append(stack, Current.nb), f, Right(input, p), 1, floor2)
  BY <1>2, <1>3, <1>4, <1>5, <1>7, LaidNumber
<1>9. Laid(input, ops', stack', f, Right(input, f), 1, floor2)
  BY <1>1, <1>7, <1>8
<1> QED
  BY <1>1, <1>4, <1>6, <1>9, InEval DEF floor2

\* EvalOpen does,
LEMMA StackedOpen ==
  ASSUME TypeOK, EvalOpen, NEW en, Follows(input, list, en), Evaluation(en)
  PROVE  Evaluation(en)'
<1> DEFINE p == en[index - 1] f == en[index]
<1>1. phase = "eval" /\ index <= Len(list) /\ Current.op = "(" /\ phase' = "eval" /\ UNCHANGED <<input, list>>
      /\ ops' = Append(ops, "(") /\ index' = index + 1 /\ stack' = stack
  BY DEF EvalOpen, Evaluates, Goes
<1>2. input \in Seq(Token) /\ list \in Seq(Element) /\ ops \in OpSeq /\ stack \in Seq(Int)
  BY DEF TypeOK, OpSeq
<1>3. index \in 1..Len(list)
  BY <1>1, ElementRead
<1>4. /\ p \in 0..Len(input) /\ f \in p+1..Len(input) /\ f = p + 1 /\ input[f].op = "("
      /\ ~Closes(input, p) /\ ~Closes(input, f) /\ (Right(input, f) <=> Right(input, p))
  BY <1>1, <1>2, <1>3, PlaceIs, SMTT(40) DEF Current
<1>5. Laid(input, ops, stack, p, Right(input, p), 0, 3)
  BY <1>1, <1>4, FromEval
<1> DEFINE floor2 == IF index' <= Len(list) THEN 3 ELSE 0
<1>6. index' - 1 = index /\ f = en[index' - 1]
  BY <1>1, <1>3
<1> HIDE DEF p, f, floor2
<1>7. Right(input, p) \in BOOLEAN /\ Right(input, f) = Right(input, p) /\ p + 1 \in 1..Len(input)
  BY <1>4 DEF Right
<1>8. Laid(input, Append(ops, "("), stack, p + 1, Right(input, p), 0, floor2)
  BY <1>2, <1>4, <1>5, <1>7, LaidOpen
<1>9. Laid(input, ops', stack', f, Right(input, f), 0, floor2)
  BY <1>1, <1>4, <1>7, <1>8
<1> QED
  BY <1>1, <1>4, <1>6, <1>9, InEval DEF floor2

\* Where a loop of pop_stack() is behind a step
LEMMA InLoop ==
  ASSUME NEW en, phase' \in {"pop", "close"}, UNCHANGED <<input, list, index>>, NEW p, p = en[index - 1], NEW f, f = en[index],
         NEW floor, floor = IF phase' = "pop" THEN Prec(Current.op) ELSE 0,
         Laid(input, ops', stack', p, Right(input, f), 1, floor), phase' = "close" => Current.op = ")"
  PROVE  Evaluation(en)'
BY DEF Evaluation, Current

\* Where it is before one
LEMMA FromLoop ==
  ASSUME NEW en, phase \in {"pop", "close"}, Evaluation(en), NEW p, p = en[index - 1], NEW f, f = en[index]
  PROVE  /\ Laid(input, ops, stack, p, Right(input, f), 1, IF phase = "pop" THEN Prec(Current.op) ELSE 0)
         /\ phase = "close" => Current.op = ")"
BY DEF Evaluation

\* An operator goes on top of what binds weaker.
LEMMA Pushed ==
  ASSUME TypeOK, NEW en, Follows(input, list, en), Pushes(Current.op), UNCHANGED list, Current.op \in Operators,
         index \in 1..Len(list), NEW p, p = en[index - 1], NEW f, f = en[index],
         Laid(input, ops, stack, p, Right(input, f), 1, Prec(Current.op)), Prec(Current.op) > Top(ops)
  PROVE  Evaluation(en)'
<1>1. phase' = "eval" /\ UNCHANGED <<input, list>>
      /\ ops' = Append(ops, Current.op) /\ index' = index + 1 /\ stack' = stack
  BY DEF Pushes, Goes
<1>2. input \in Seq(Token) /\ list \in Seq(Element) /\ ops \in OpSeq /\ stack \in Seq(Int)
  BY DEF TypeOK, OpSeq
<1>3. /\ p \in 0..Len(input) /\ f \in p+1..Len(input) /\ f = p + 1 /\ input[f].op = Current.op
      /\ (Right(input, f) => Closes(input, p)) /\ ~Closes(input, f)
  <2>1. Current.op # "num"
    BY PrecIs
  <2> QED
    BY <1>2, <2>1, PlaceIs DEF Current
<1> DEFINE floor2 == IF index' <= Len(list) THEN 3 ELSE 0
<1>4. index' - 1 = index /\ f = en[index' - 1]
  BY <1>1
<1>5. p + 1 \in 1..Len(input) /\ Right(input, f) \in BOOLEAN
  BY <1>3 DEF Right
<1>6. Prec(Current.op) \in Int /\ Prec(Current.op) > Over(ops, Len(ops)) /\ Prec(Current.op) <= Prec(Current.op)
  BY <1>2, PrecIs, OverTop
<1> HIDE DEF floor2
<1>7. Laid(input, Append(ops, Current.op), stack, p + 1, Right(input, f), 0, floor2)
  BY <1>2, <1>3, <1>5, <1>6, LaidPush
<1>8. Laid(input, ops', stack', f, Right(input, f), 0, floor2)
  BY <1>1, <1>3, <1>7
<1> QED
  BY <1>1, <1>3, <1>4, <1>8, InEval DEF floor2

\* What is in front of an operator or a ) is complete where that is at its place.
LEMMA Entered ==
  ASSUME TypeOK, NEW en, Follows(input, list, en), Evaluation(en), phase = "eval", index \in 1..Len(list),
         Current.op \in Operators \union {")"}, NEW p, p = en[index - 1], NEW f, f = en[index], NEW floor \in 0..3
  PROVE  Laid(input, ops, stack, p, Right(input, f), 1, floor)
<1>2. input \in Seq(Token) /\ list \in Seq(Element) /\ ops \in OpSeq /\ stack \in Seq(Int)
  BY DEF TypeOK, OpSeq
<1>3. p \in 0..Len(input) /\ (Right(input, f) => Right(input, p)) /\ (Right(input, p) /\ ~Right(input, f) => ~Closes(input, p))
  <2>1. list[index].op # "num"
    BY PrecIs DEF Current
  <2>2. /\ p \in 0..Len(input)
        /\ list[index].op # "num" => /\ Right(input, f) => Right(input, p)
                                     /\ Right(input, p) /\ ~Right(input, f) => ~Closes(input, p)
    BY <1>2, PlaceIs, SMTT(40)
  <2> QED
    BY <2>1, <2>2
<1>4. Laid(input, ops, stack, p, Right(input, p), IF Closes(input, p) THEN 1 ELSE 0, 3)
  BY FromEval
<1>5. Right(input, p) \in BOOLEAN /\ Right(input, f) \in BOOLEAN
  BY DEF Right
<1>6. floor \in Int /\ 3 \in Int /\ floor <= 3
  OBVIOUS
<1> QED
  BY <1>2, <1>3, <1>4, <1>5, <1>6, LaidEnter

\* EvalOperator keeps what the stacks are,
LEMMA StackedOperator ==
  ASSUME TypeOK, Increasing, NEW op \in Operators, EvalOperator(op), NEW en, Follows(input, list, en), Evaluation(en),
         phase' \in {"eval", "pop", "close"}
  PROVE  Evaluation(en)'
<1> DEFINE p == en[index - 1] f == en[index]
<1>1. phase = "eval" /\ index <= Len(list) /\ Current.op = op /\ UNCHANGED list
  BY DEF EvalOperator, Evaluates
<1>2. index \in 1..Len(list)
  BY <1>1, ElementRead
<1>3. Prec(op) \in 0..3
  BY PrecIs
<1>4. Laid(input, ops, stack, p, Right(input, f), 1, Prec(op))
  BY <1>1, <1>2, <1>3, Entered
<1> HIDE DEF p, f
<1>5. CASE Prec(op) > precedence /\ Pushes(op)
  <2>1. Prec(Current.op) > Top(ops)
    BY <1>1, <1>5, IncreasingIs
  <2> QED
    BY <1>1, <1>2, <1>4, <1>5, <2>1, Pushed DEF p, f
<1>6. CASE UNCHANGED <<index, evaluating>> /\ Goes("pop")
  <2>1. phase' = "pop" /\ UNCHANGED <<input, list, index, ops, stack>>
    BY <1>1, <1>6 DEF Goes, evaluating
  <2> QED
    BY <1>1, <1>4, <2>1, InLoop DEF p, f
<1> QED
  BY <1>5, <1>6 DEF EvalOperator, Error

\* EvalClose does,
LEMMA StackedEvalClose ==
  ASSUME TypeOK, EvalClose, NEW en, Follows(input, list, en), Evaluation(en),
         phase' \in {"eval", "pop", "close"}
  PROVE  Evaluation(en)'
<1> DEFINE p == en[index - 1] f == en[index]
<1>1. phase = "eval" /\ index <= Len(list) /\ Current.op = ")" /\ phase' = "close" /\ UNCHANGED <<input, list, index, ops, stack>>
  BY DEF EvalClose, Evaluates, Goes, Error, Crash, evaluating
<1>2. index \in 1..Len(list)
  BY <1>1, ElementRead
<1>4. Laid(input, ops, stack, p, Right(input, f), 1, 0)
  BY <1>1, <1>2, Entered
<1> QED
  BY <1>1, <1>4, InLoop

\* The step applies the operator on top to the two last values.
Applies ==
  /\ Len(stack) > 1 /\ ~(Last(ops) = "/" /\ Last(stack) = 0)
  /\ stack' = Append(Front(Front(stack)), Compute(Last(ops), Last(Front(stack)), Last(stack)))
  /\ ops' = Front(ops) /\ phase' = phase /\ UNCHANGED <<input, code, result>>

\* What eval_nodes() does when it neither ends the shell nor drops a (
LEMMA AppliesIs ==
  ASSUME TypeOK, ops # <<>>, EvalNodes, phase' = phase, phase \in {"eval", "pop", "close"}, Last(ops) \in Operators
  PROVE  Applies
<1>1. Last(ops) # "("
  BY PrecIs
<1> QED
  BY <1>1 DEF EvalNodes, Applies, DividesByZero, Goes, Crash, Error

\* The operator on top is applied to what it is between.
LEMMA Applied ==
  ASSUME TypeOK, Increasing, Applies, ops # <<>>, Last(ops) \in Operators, NEW p \in 0..Len(input), NEW ok \in BOOLEAN,
         NEW slack \in Int, NEW floor \in Int, Laid(input, ops, stack, p, ok, slack, floor), ok => Closes(input, p),
         floor <= Prec(Last(ops))
  PROVE  Laid(input, ops', stack', p, ok, slack, floor)
<1>1. input \in Seq(Token) /\ ops \in OpSeq /\ stack \in Seq(Int)
  BY DEF TypeOK, OpSeq
<1>2. Over(ops, Len(ops) - 1) < Prec(Last(ops))
  BY <1>1, IncreasingIs, OrderedOver
<1>3. /\ Len(stack) > 1 /\ ~(Last(ops) = "/" /\ Last(stack) = 0)
      /\ stack' = Append(Front(Front(stack)), Compute(Last(ops), Last(Front(stack)), Last(stack)))
      /\ ops' = Front(ops)
  BY DEF Applies
<1>4. Laid(input, Front(ops), Append(Front(Front(stack)), Compute(Last(ops), Last(Front(stack)), Last(stack))), p, ok, slack, floor)
  BY <1>1, <1>2, <1>3, LaidMerge
<1> QED
  BY <1>3, <1>4

\* Where nothing is complete, what is on top is the last token.
LEMMA LaidEnd ==
  ASSUME NEW s \in Seq(Token), NEW o \in OpSeq, NEW st, NEW p \in 0..Len(s), NEW ok, NEW slack, NEW floor,
         Laid(s, o, st, p, ok, slack, floor), ok, ~Closes(s, p), o # <<>>
  PROVE  p \in 1..Len(s) /\ s[p].op = Last(o)
<1>1. PICK po, q : Chain(s, o, p, po, q) /\ Filled(s, o, st, p, ok, slack, floor, po, q)
  BY DEF Laid
<1>2. po[Len(o)] \in 1..Len(s) /\ s[po[Len(o)]].op = Last(o)
  BY <1>1, ChainNonempty
<1>3. po[Len(o)] = p
  BY <1>1 DEF Filled, Topped
<1> QED
  BY <1>2, <1>3

\* eval_nodes() stays in its loop or ends it all.
LEMMA NodesGo ==
  ASSUME EvalNodes, phase' \in {"eval", "pop", "close"}, phase \in {"eval", "pop", "close"}
  PROVE  phase' = phase
BY DEF EvalNodes, Goes, Crash, Error

\* Pop keeps what the stacks are,
LEMMA StackedPop ==
  ASSUME TypeOK, Increasing, Pop, NEW en, Follows(input, list, en), Evaluation(en),
         phase' \in {"eval", "pop", "close"}
  PROVE  Evaluation(en)'
<1> DEFINE p == en[index - 1] f == en[index]
<1>1. phase = "pop" /\ index <= Len(list) /\ Current.op \in Operators /\ UNCHANGED list
  BY DEF Pop, TypeOK
<1>2. index \in 1..Len(list)
  BY <1>1, ElementRead
<1>3. input \in Seq(Token) /\ list \in Seq(Element) /\ ops \in OpSeq /\ stack \in Seq(Int)
  BY DEF TypeOK, OpSeq
<1>4. Laid(input, ops, stack, p, Right(input, f), 1, Prec(Current.op))
  BY <1>1, FromLoop
<1>5. p \in 0..Len(input) /\ (Right(input, f) => Closes(input, p)) /\ Right(input, f) \in BOOLEAN
  <2>1. p \in 0..Len(input) /\ (Right(input, f) => Closes(input, p))
    BY <1>1, <1>2, <1>3, BeforeOperator DEF Current
  <2>2. Right(input, f) \in BOOLEAN
    BY DEF Right
  <2> QED
    BY <2>1, <2>2
<1>6. Prec(Current.op) \in Int /\ Prec(Current.op) > 0 /\ Top(ops) \in Int
  BY <1>1, <1>3, PrecIs, OverTop, SMTT(40)
<1> HIDE DEF p, f
<1>7. CASE Yields(Current.op) /\ EvalNodes /\ UNCHANGED index
  <2>1. phase' = phase /\ ops # <<>> /\ Prec(Last(ops)) >= Prec(Current.op)
    BY <1>1, <1>7, NodesGo DEF Yields, Top
  <2>2. Last(ops) \in Operators
    <3>1. Last(ops) \in Operators \union {"("}
      BY <1>3, <2>1, FrontIs DEF OpSeq
    <3> QED
      BY <1>6, <2>1, <3>1, PrecAny
  <2>3. Applies
    BY <1>1, <1>7, <2>1, <2>2, AppliesIs
  <2>4. Prec(Current.op) <= Prec(Last(ops))
    BY <1>6, <2>1, <2>2, PrecIs
  <2>5. Laid(input, ops', stack', p, Right(input, f), 1, Prec(Current.op))
    BY <1>4, <1>5, <1>6, <2>1, <2>2, <2>3, <2>4, Applied
  <2>6. UNCHANGED <<input, list, index>> /\ phase' = "pop"
    BY <1>1, <1>7, <2>1, <2>3 DEF Applies
  <2> QED
    BY <2>5, <2>6, InLoop DEF p, f
<1>8. CASE ~Yields(Current.op) /\ Pushes(Current.op)
  <2>1. Prec(Current.op) > Top(ops)
    BY <1>6, <1>8 DEF Yields, Top
  <2> QED
    BY <1>1, <1>2, <1>4, <1>8, <2>1, Pushed DEF p, f
<1> QED
  BY <1>7, <1>8 DEF Pop

\* Close does,
LEMMA StackedClose ==
  ASSUME TypeOK, Increasing, Close, NEW en, Follows(input, list, en), Evaluation(en),
         phase' \in {"eval", "pop", "close"}
  PROVE  Evaluation(en)'
<1> DEFINE p == en[index - 1] f == en[index]
<1>1. phase = "close" /\ index <= Len(list) /\ UNCHANGED list /\ ops # <<>>
  BY DEF Close, TypeOK, Crash
<1>2. index \in 1..Len(list)
  BY <1>1, ElementRead
<1>3. input \in Seq(Token) /\ list \in Seq(Element) /\ ops \in OpSeq /\ stack \in Seq(Int)
  BY DEF TypeOK, OpSeq
<1>4. Laid(input, ops, stack, p, Right(input, f), 1, 0) /\ Current.op = ")"
  BY <1>1, FromLoop
<1>5. /\ p \in 0..Len(input) /\ f \in 1..Len(input) /\ f = p + 1 /\ input[f].op = ")"
      /\ (Right(input, f) => Closes(input, p)) /\ Right(input, f) \in BOOLEAN /\ Closes(input, f)
  <2>1. /\ p \in 0..Len(input) /\ f \in 1..Len(input) /\ f = p + 1 /\ input[f].op = ")"
        /\ (Right(input, f) => Closes(input, p)) /\ Closes(input, f)
    BY <1>2, <1>3, <1>4, BeforeClose DEF Current
  <2>2. Right(input, f) \in BOOLEAN
    BY DEF Right
  <2> QED
    BY <2>1, <2>2
<1> HIDE DEF p, f
<1>7. CASE Last(ops) # "(" /\ EvalNodes /\ UNCHANGED index
  <2>1. phase' = phase
    BY <1>1, <1>7, NodesGo
  <2>2. Last(ops) \in Operators
    <3>1. Last(ops) \in Operators \union {"("}
      BY <1>1, <1>3, FrontIs DEF OpSeq
    <3> QED
      BY <1>7, <3>1
  <2>3. Applies
    BY <1>1, <1>7, <2>1, <2>2, AppliesIs
  <2>4. 0 <= Prec(Last(ops)) /\ 0 \in Int /\ 1 \in Int
    BY <2>2, PrecIs
  <2>5. Laid(input, ops', stack', p, Right(input, f), 1, 0)
    BY <1>1, <1>4, <1>5, <2>2, <2>3, <2>4, Applied
  <2>6. UNCHANGED <<input, list, index>> /\ phase' = "close"
    BY <1>1, <1>7, <2>1, <2>3 DEF Applies
  <2> QED
    BY <1>4, <2>5, <2>6, InLoop DEF p, f
<1>8. CASE Last(ops) = "(" /\ Closed /\ index' = index + 1 /\ UNCHANGED stack /\ Goes("eval")
  <2> DEFINE floor2 == IF index' <= Len(list) THEN 3 ELSE 0
  <2>1. ops' = Front(ops) /\ stack' = stack /\ phase' = "eval" /\ UNCHANGED <<input, list>>
    BY <1>1, <1>8 DEF Closed, Goes
  <2>2. index' - 1 = index /\ f = en[index' - 1]
    BY <1>2, <1>8 DEF f
  <2> HIDE DEF floor2
  <2>3. p + 1 \in 1..Len(input) /\ input[p + 1].op = ")"
    BY <1>5
  <2>4. Laid(input, Front(ops), stack, p + 1, Right(input, f), 1, floor2)
    BY <1>1, <1>3, <1>4, <1>5, <1>8, <2>3, LaidClosed
  <2>5. Laid(input, ops', stack', f, Right(input, f), 1, floor2)
    BY <1>5, <2>1, <2>4
  <2> QED
    BY <1>5, <2>1, <2>2, <2>5, InEval DEF floor2
<1> QED
  BY <1>1, <1>7, <1>8 DEF Close

\* The end of the list is that of the expression, and what is complete there is all.
LEMMA AtEnd ==
  ASSUME TypeOK, Counted, Fits(input), NEW en, Follows(input, list, en), en[Len(list)] = Len(input), Evaluation(en),
         phase = "eval", index = Len(list) + 1, NEW n, n = Len(input)
  PROVE  /\ n \in 0..Len(input) /\ n = en[index - 1] /\ Depth(input, n) = 0 /\ Right(input, n) \in BOOLEAN
         /\ Laid(input, ops, stack, n, Right(input, n), IF Closes(input, n) THEN 1 ELSE 0, 0)
         /\ ops # <<>> => Last(ops) \in Operators /\ (Right(input, n) => Closes(input, n))
<1>1. input \in Seq(Token) /\ list \in Seq(Element) /\ ops \in OpSeq /\ Len(list) \in Nat /\ Len(input) \in Nat
  BY DEF TypeOK, OpSeq
<1>2. n \in 0..Len(input) /\ index - 1 = Len(list) /\ n = en[index - 1] /\ ~(index <= Len(list)) /\ Depth(input, n) = 0
  BY <1>1 DEF Counted
<1>3. Right(input, n) \in BOOLEAN
  BY DEF Right
<1>4. Laid(input, ops, stack, n, Right(input, n), IF Closes(input, n) THEN 1 ELSE 0, 0)
  BY <1>2, FromEval
<1>5. ASSUME ops # <<>> PROVE Last(ops) \in Operators
  BY <1>1, <1>2, <1>4, <1>5, LaidDepth
<1>6. ASSUME ops # <<>>, Right(input, n), ~Closes(input, n) PROVE FALSE
  <2>1. n \in 1..Len(input) /\ input[n].op = Last(ops)
    BY <1>1, <1>2, <1>4, <1>6, LaidEnd
  <2>2. input # <<>>
    BY <2>1
  <2> QED
    BY <1>5, <1>6, <2>1, <2>2 DEF Fits
<1> QED
  BY <1>2, <1>3, <1>4, <1>5, <1>6

\* and Finish does.
LEMMA StackedFinish ==
  ASSUME TypeOK, Increasing, Counted, Fits(input), Finish, NEW en, Follows(input, list, en), en[Len(list)] = Len(input),
         Evaluation(en), phase' \in {"eval", "pop", "close"}
  PROVE  Evaluation(en)'
<1> DEFINE n == Len(input)
<1>1. phase = "eval" /\ index = Len(list) + 1 /\ UNCHANGED <<index, list>> /\ ops # <<>> /\ EvalNodes
  BY DEF Finish, Crash
<1>2. phase' = phase
  BY <1>1, NodesGo
<1>3. /\ n \in 0..Len(input) /\ n = en[index - 1] /\ Right(input, n) \in BOOLEAN
      /\ Laid(input, ops, stack, n, Right(input, n), IF Closes(input, n) THEN 1 ELSE 0, 0)
      /\ Last(ops) \in Operators /\ (Right(input, n) => Closes(input, n))
  BY <1>1, AtEnd
<1> HIDE DEF n
<1>4. Applies
  BY <1>1, <1>2, <1>3, AppliesIs
<1>5. 0 <= Prec(Last(ops)) /\ 0 \in Int /\ (IF Closes(input, n) THEN 1 ELSE 0) \in Int
  BY <1>3, PrecIs
<1> DEFINE slack == IF Closes(input, n) THEN 1 ELSE 0
<1>s. slack \in Int /\ Laid(input, ops, stack, n, Right(input, n), slack, 0)
  BY <1>3, <1>5
<1> HIDE DEF slack
<1>6. Laid(input, ops', stack', n, Right(input, n), slack, 0)
  BY <1>1, <1>3, <1>4, <1>5, <1>s, Applied
<1>7. UNCHANGED <<input, list, index>> /\ phase' = "eval" /\ n = en[index' - 1]
  BY <1>1, <1>2, <1>3, <1>4 DEF Applies
<1>8. 0 = IF index' <= Len(list) THEN 3 ELSE 0
  <2>1. Len(list) \in Nat
    BY DEF TypeOK
  <2> QED
    BY <1>1, <1>7, <2>1
<1> QED
  BY <1>6, <1>7, <1>8, InEval DEF slack

\* The stacks stay those of an expression that fits.
LEMMA StackedEval ==
  ASSUME TypeOK, Increasing, Counted, Stacked, EvalStep
  PROVE  Stacked'
<1>1. phase \in {"eval", "pop", "close"} /\ UNCHANGED <<input, list>>
  BY EvalKeeps
<1> SUFFICES ASSUME phase' \in {"eval", "pop", "close"}, Fits(input)
             PROVE  Stacked'
  BY <1>1 DEF Stacked
<1>2. PICK en : Follows(input, list, en) /\ en[Len(list)] = Len(input) /\ Evaluation(en)
  BY <1>1 DEF Stacked
<1>3. Evaluation(en)'
  BY <1>2, StackedOperator, StackedNumber, StackedOpen, StackedEvalClose, StackedPop, StackedClose, StackedFinish DEF EvalStep
<1> QED
  BY <1>2, <1>3, StackedTo

----------------------------------------------------------------------------
(* What is printed, and what ends the shell                                *)

\* What is printed is what the last step found.
LEMMA PrintedEval ==
  ASSUME TypeOK, Counted, Stacked, EvalStep, phase' = "printed"
  PROVE  PrintedPlainly'
<1> DEFINE n == Len(input)
<1>1. /\ phase = "eval" /\ index = Len(list) + 1 /\ input' = input
      /\ stack # <<>> /\ (Len(stack) = 1 \/ ops = <<>>) /\ result' = Itoa(Truncate(Last(stack)))
  <2>1. EvalNodes /\ phase \in {"eval", "pop", "close"} => phase' # "printed"
    BY DEF EvalNodes, Goes, Crash, Error
  <2>2. Finish
    BY <2>1 DEF EvalStep, EvalOperator, EvalNumber, EvalOpen, EvalClose, Pop, Close, Evaluates, Pushes, Goes, Crash, Error
  <2> QED
    BY <2>1, <2>2 DEF Finish, Crash
<1>2. input \in Seq(Token) /\ ops \in OpSeq /\ stack \in Seq(Int) /\ n \in Nat
  BY DEF TypeOK, OpSeq
<1>3. Depth(input, n) = 0
  BY <1>1 DEF Counted
<1> SUFFICES \/ PlainMeaning(input).how = "value" /\ result' = Itoa(Truncate(PlainMeaning(input).value))
             \/ PlainMeaning(input).how = "bad" /\ Lenient
  BY <1>1 DEF PrintedPlainly, Lenient
<1>4. CASE Fits(input)
  <2>1. PICK en : Follows(input, list, en) /\ en[Len(list)] = Len(input) /\ Evaluation(en)
    BY <1>1, <1>4 DEF Stacked
  <2>2. /\ n \in 0..Len(input) /\ Right(input, n) \in BOOLEAN
        /\ Laid(input, ops, stack, n, Right(input, n), IF Closes(input, n) THEN 1 ELSE 0, 0)
    BY <1>1, <1>4, <2>1, AtEnd
  <2>3. n = Len(input)
    OBVIOUS
  <2> HIDE DEF n
  <2>4. Laid(input, ops, stack, n, Right(input, n), 1, 0)
    <3>1. 0 \in Int /\ 0 <= 0
      OBVIOUS
    <3> QED
      BY <1>2, <2>2, <3>1, LaidEnter
  <2>5. input # <<>> => input[Len(input)].op \notin Operators
    BY <1>4 DEF Fits
  <2>6. /\ Right(input, n) => PlainMeaning(input) = Just(Last(stack))
        /\ ~Right(input, n) => \E i \in 1..Len(input) : input[i].op \in Operators /\ Depth(input, i) = 0
    BY <1>1, <1>2, <1>3, <2>2, <2>3, <2>4, <2>5, LaidPrinted
  <2>7. CASE Right(input, n)
    BY <1>1, <2>6, <2>7 DEF Just
  <2>8. CASE ~Right(input, n)
    <3>1. PlainMeaning(input).how = "bad"
      BY <1>2, <2>2, <2>8, MeantIs
    <3> QED
      BY <2>6, <2>8, <3>1 DEF Lenient
  <2> QED
    BY <2>7, <2>8
<1>5. CASE ~Fits(input)
  <2>1. PlainMeaning(input).how = "bad"
    BY <1>2, <1>5, MeantIs
  <2>2. Lenient
    <3>1. CASE \E i \in 1..Len(input)-1 : input[i].op = ")" /\ input[i + 1].op \in {"num", "("}
      BY <3>1 DEF Lenient
    <3>2. CASE input # <<>> /\ input[Len(input)].op \in Operators
      <4>1. n \in 1..Len(input)
        BY <1>2, <3>2
      <4> QED
        BY <1>3, <3>2, <4>1 DEF Lenient
    <3> QED
      BY <1>5, <3>1, <3>2 DEF Fits
  <2> QED
    BY <2>1, <2>2
<1> QED
  BY <1>4, <1>5

\* An operator that cannot be applied divides by zero, in an expression that means something.
LEMMA NodesEnd ==
  ASSUME TypeOK, Increasing, EvalNodes, ops # <<>>, Last(ops) \in Operators, phase' \notin {"eval", "pop", "close"},
         phase \in {"eval", "pop", "close"},
         NEW p \in 0..Len(input), NEW ok, ok, NEW slack, NEW floor, Laid(input, ops, stack, p, ok, slack, floor),
         Closes(input, p), p = Len(input) \/ input[p + 1].op \in Operators \union {")"}, PlainMeaning(input).how # "bad"
  PROVE  PlainMeaning(input) = NoValue /\ code' = 127
<1>1. input \in Seq(Token) /\ ops \in OpSeq /\ stack \in Seq(Int)
  BY DEF TypeOK, OpSeq
<1>2. Len(stack) > 1 /\ stack # <<>>
  BY <1>1, LaidStack
<1>3. Last(ops) # "(" /\ Len(stack) # 1
  <2>1. Last(ops) # "("
    BY PrecIs
  <2>2. ASSUME Len(stack) = 1 PROVE FALSE
    <3>1. 1 > 1
      BY <1>2, <2>2
    <3> QED
      BY <3>1
  <2> QED
    BY <2>1, <2>2
<1>4. Error(127) /\ Last(ops) = "/" /\ Last(stack) = 0
  BY <1>2, <1>3 DEF EvalNodes, DividesByZero, Goes
<1>5. Over(ops, Len(ops) - 1) < Prec(Last(ops))
  BY <1>1, IncreasingIs, OrderedOver
<1>6. PlainMeaning(input).how # "bad" => PlainMeaning(input) = NoValue
  BY <1>1, <1>4, <1>5, LaidDivides
<1> QED
  BY <1>4, <1>6 DEF Error

\* A ) that closes something was opened.
LEMMA OpenedBefore ==
  ASSUME NEW s \in Seq(Token), NEW o \in OpSeq, NEW st, NEW p \in 0..Len(s), NEW ok, NEW slack, NEW floor,
         Laid(s, o, st, p, ok, slack, floor), p + 1 \in 1..Len(s), s[p + 1].op = ")", Depth(s, p + 1) >= 0
  PROVE  o # <<>>
<1>1. SUFFICES ASSUME o = <<>> PROVE FALSE
  OBVIOUS
<1>2. Depth(s, p) = 0
  BY <1>1, LaidDepth
<1> DEFINE k == p + 1
<1>3. k \in Nat \ {0} /\ k - 1 = p /\ s[k].op = ")" /\ Depth(s, k) >= 0
  OBVIOUS
<1> HIDE DEF k
<1>4. Depth(s, k) = Depth(s, k - 1) + (IF s[k].op = "(" THEN 1 ELSE IF s[k].op = ")" THEN -1 ELSE 0)
  BY <1>3, DepthIs
<1>5. Depth(s, k) = -1
  BY <1>2, <1>3, <1>4
<1> QED
  BY <1>3, <1>5

\* Nor does the evaluation end the shell for another reason than a division by zero.
LEMMA EvalEnds ==
  ASSUME TypeOK, Increasing, Counted, Stacked, EvalStep, phase' \in {"exit", "crashed"}, PlainMeaning(input).how # "bad"
  PROVE  PlainMeaning(input) = NoValue /\ code' = 127
<1> DEFINE n == Len(input)
<1>1. phase \in {"eval", "pop", "close"} /\ phase' \notin {"eval", "pop", "close"}
  BY EvalKeeps
<1>2. /\ input \in Seq(Token) /\ list \in Seq(Element) /\ ops \in OpSeq /\ stack \in Seq(Int)
      /\ Len(list) \in Nat /\ n \in Nat
  BY DEF TypeOK, OpSeq
<1>3. /\ Fits(input) /\ n # 0 /\ Closes(input, n)
      /\ \A p \in 0..n : Right(input, p) /\ Depth(input, p) >= 0
  BY <1>2, MeantIs
<1>4. PICK en : Follows(input, list, en) /\ en[Len(list)] = Len(input) /\ Evaluation(en)
  BY <1>1, <1>3 DEF Stacked
<1> DEFINE p == en[index - 1] f == en[index]
<1>5. \* at an operator or a )
      ASSUME index \in 1..Len(list), Current.op \in Operators \union {")"}
      PROVE  /\ p \in 0..n /\ f \in 1..n /\ f = p + 1 /\ p + 1 \in 1..n /\ input[p + 1].op = Current.op
             /\ Right(input, f) /\ Closes(input, p) /\ Depth(input, p + 1) >= 0
  <2>1. Current.op # "num" /\ Current = list[index]
    BY <1>5, PrecIs DEF Current
  <2>2. p \in 0..Len(input) /\ f \in p+1..Len(input) /\ list[index].op = input[f].op
        /\ (list[index].op # "num" => f = p + 1)
        /\ (list[index].op \in Operators \union {")"} => (Right(input, f) => Closes(input, p)))
    <3> HIDE DEF p, f
    <3> QED
      BY <1>2, <1>4, <1>5, PlaceIs, SMTT(40) DEF p, f
  <2> HIDE DEF p, f
  <2>3. f \in 1..n /\ f = p + 1 /\ p + 1 \in 1..n /\ f \in 0..n
    BY <1>2, <2>1, <2>2
  <2> QED
    BY <1>3, <1>5, <2>1, <2>2, <2>3
<1> HIDE DEF p, f, n
<1>6. CASE phase = "eval" /\ index \in 1..Len(list) /\ Current.op \in Operators \union {")"}
  <2>1. Laid(input, ops, stack, p, Right(input, f), 1, 0)
    <3>1. 0 \in 0..3
      OBVIOUS
    <3> QED
      BY <1>4, <1>6, <3>1, Entered DEF p, f
  <2>2. stack # <<>>
    BY <1>2, <1>5, <1>6, <2>1, LaidStack DEF n
  <2>3. Current.op = ")" => ops # <<>>
    BY <1>2, <1>5, <1>6, <2>1, OpenedBefore DEF n
  <2>4. ~(\E op \in Operators : EvalOperator(op))
    BY <1>1, <2>2 DEF EvalOperator, Goes, Pushes
  <2>5. ~EvalClose
    BY <1>1, <2>2, <2>3 DEF EvalClose, Goes, Evaluates
  <2>6. ~Finish /\ ~EvalNumber /\ ~EvalOpen /\ ~Pop /\ ~Close
    BY <1>1, <1>2, <1>6 DEF Finish, EvalNumber, EvalOpen, Pop, Close, Goes
  <2> QED
    BY <2>4, <2>5, <2>6 DEF EvalStep
<1>7. CASE phase = "pop"
  <2>1. index \in 1..Len(list) /\ Current.op \in Operators
    BY <1>7, ElementRead DEF TypeOK
  <2>2. Pop
    BY <1>7 DEF EvalStep, EvalOperator, EvalNumber, EvalOpen, EvalClose, Close, Finish, Evaluates
  <2>3. Yields(Current.op) /\ EvalNodes
    BY <1>1, <2>2 DEF Pop, Pushes, Goes
  <2>4. ops # <<>> /\ Last(ops) \in Operators
    <3>1. ops # <<>> /\ Prec(Last(ops)) >= Prec(Current.op) /\ Prec(Current.op) > 0 /\ Prec(Current.op) \in Int
      BY <2>1, <2>3, PrecIs DEF Yields, Top
    <3>2. Last(ops) \in Operators \union {"("}
      BY <1>2, <3>1, FrontIs DEF OpSeq
    <3> QED
      BY <3>1, <3>2, PrecAny
  <2>5. Laid(input, ops, stack, p, Right(input, f), 1, Prec(Current.op))
    BY <1>4, <1>7, FromLoop DEF p, f
  <2> QED
    BY <1>1, <1>5, <2>1, <2>3, <2>4, <2>5, NodesEnd DEF n
<1>8. CASE phase = "close"
  <2>1. index \in 1..Len(list) /\ Current.op = ")" /\ Laid(input, ops, stack, p, Right(input, f), 1, 0)
    BY <1>4, <1>8, ElementRead, FromLoop DEF TypeOK, p, f
  <2>2. Close
    BY <1>8 DEF EvalStep, EvalOperator, EvalNumber, EvalOpen, EvalClose, Pop, Finish, Evaluates
  <2>3. ops # <<>>
    BY <1>2, <1>5, <2>1, OpenedBefore DEF n
  <2>4. Last(ops) # "(" /\ EvalNodes
    BY <1>1, <2>2, <2>3 DEF Close, Goes
  <2>5. Last(ops) \in Operators
    <3>1. Last(ops) \in Operators \union {"("}
      BY <1>2, <2>3, FrontIs DEF OpSeq
    <3> QED
      BY <2>4, <3>1
  <2> QED
    BY <1>1, <1>5, <2>1, <2>3, <2>4, <2>5, NodesEnd DEF n
<1>9. CASE phase = "eval" /\ index = Len(list) + 1
  <2>1. /\ n \in 0..Len(input) /\ Right(input, n)
        /\ Laid(input, ops, stack, n, Right(input, n), IF Closes(input, n) THEN 1 ELSE 0, 0)
        /\ ops # <<>> => Last(ops) \in Operators
    BY <1>2, <1>3, <1>4, <1>9, AtEnd DEF n
  <2>2. Finish
    BY <1>2, <1>9 DEF EvalStep, EvalOperator, EvalNumber, EvalOpen, EvalClose, Pop, Close, Evaluates
  <2>3. stack # <<>>
    BY <1>2, <1>3, <2>1, LaidStack
  <2>4. ops # <<>> /\ EvalNodes
    BY <1>1, <2>2, <2>3 DEF Finish
  <2> DEFINE slack == IF Closes(input, n) THEN 1 ELSE 0
  <2>5. Laid(input, ops, stack, n, Right(input, n), slack, 0)
    BY <2>1
  <2> HIDE DEF slack
  <2> QED
    BY <1>1, <1>3, <2>1, <2>4, <2>5, NodesEnd DEF n
<1>10. CASE phase = "eval" /\ index \in 1..Len(list) /\ Current.op \notin Operators \union {")"}
  <2>1. EvalNumber \/ EvalOpen
    BY <1>2, <1>10 DEF EvalStep, EvalOperator, EvalClose, Pop, Close, Finish, Evaluates
  <2> QED
    BY <1>1, <2>1 DEF EvalNumber, EvalOpen, Goes
<1>11. phase = "eval" => index \in 1..Len(list) \/ index = Len(list) + 1
  BY <1>2 DEF TypeOK
<1> QED
  BY <1>1, <1>6, <1>7, <1>8, <1>9, <1>10, <1>11

----------------------------------------------------------------------------
(* No sign is before a ( in what is evaluated.                             *)

Ungrouped ==
  /\ phase = "build" =>
       /\ \A i \in 2..index-1 : ~(input[i].op = "(" /\ IsSignAt(input, i - 1))
       /\ sign = 0 => /\ prev_op = IF index = 1 THEN "none" ELSE input[index - 1].op
                      /\ index # 1 => ~IsSignAt(input, index - 1)
  /\ phase \in {"eval", "close", "pop", "printed"} => ~SignedGroup(input)

LEMMA UngroupedBuild ==
  ASSUME TypeOK, Ungrouped, BuildStep
  PROVE  Ungrouped'
<1>1. phase = "build" /\ input' = input /\ phase' \in {"build", "eval", "exit"}
  BY BuildKeeps
<1>2. index \in Nat \ {0} /\ sign \in {-1, 0, 1}
  BY DEF TypeOK
<1>3. \A i \in 2..index-1 : ~(input[i].op = "(" /\ IsSignAt(input, i - 1))
  BY <1>1 DEF Ungrouped
<1>4. sign = 0 => /\ prev_op = IF index = 1 THEN "none" ELSE input[index - 1].op
                  /\ index # 1 => ~IsSignAt(input, index - 1)
  BY <1>1 DEF Ungrouped
<1>5. CASE phase' = "eval"
  <2>1. EndOfInput
    BY <1>1, <1>5 DEF BuildStep, ReadSign, ReadOperator, ReadNumber, ReadBad, Reads, Refuses, Error, Goes
  <2>2. index = Len(input) + 1
    BY <2>1 DEF EndOfInput
  <2>3. ~SignedGroup(input)
    <3>1. Len(input) \in Nat
      BY DEF TypeOK
    <3> QED
      BY <1>3, <2>2, <3>1 DEF SignedGroup
  <2> QED
    BY <1>1, <1>5, <2>3 DEF Ungrouped, SignedGroup, IsSignAt
<1>6. CASE phase' = "build"
  <2>1. index' = index + 1
    BY <1>6, ReadIs
  <2>2. \/ input[index].op \in Signs /\ sign' # 0
        \/ /\ input[index].op \in Operators \union {"(", ")", "num"} /\ sign' = 0
           /\ prev_op' = input[index].op
           /\ input[index].op \in Signs => sign = 0 /\ prev_op \in {"num", ")"}
           /\ input[index].op = "(" => sign = 0
    <3>1. CASE \E op \in Signs :
                 /\ input[index].op = op /\ IsSign(op)
                 /\ sign' = (IF sign = 0 THEN 1 ELSE sign) * (IF op = "-" THEN -1 ELSE 1)
      BY <1>2, <3>1
    <3>2. CASE \E op \in Operators \union {"(", ")"} :
                 input[index].op = op /\ ~IsSign(op) /\ sign = 0 /\ Adds(Node(op, 0))
      BY <3>2 DEF Adds, Node, IsSign
    <3>3. CASE /\ input[index].op = "num"
               /\ Adds(Node("num", (IF sign = 0 THEN 1 ELSE sign) * input[index].nb))
      BY <3>3 DEF Adds, Node, Signs
    <3> QED
      BY <1>6, <3>1, <3>2, <3>3, ReadIs
  <2>3. input[index].op = "(" /\ index # 1 => ~IsSignAt(input, index - 1)
    BY <1>4, <2>2 DEF Signs
  <2>4. \A i \in 2..index'-1 : ~(input[i].op = "(" /\ IsSignAt(input, i - 1))
    BY <1>2, <1>3, <2>1, <2>3
  <2>5. sign' = 0 => prev_op' = input[index].op /\ ~IsSignAt(input, index)
    BY <1>4, <2>2 DEF IsSignAt, Ends, Signs
  <2>6. index' # 1 /\ index' - 1 = index
    BY <1>2, <2>1
  <2> QED
    BY <1>1, <1>6, <2>4, <2>5, <2>6 DEF Ungrouped, IsSignAt
<1>7. CASE phase' = "exit"
  BY <1>7 DEF Ungrouped
<1> QED
  BY <1>1, <1>5, <1>6, <1>7

LEMMA UngroupedEval ==
  ASSUME Ungrouped, EvalStep
  PROVE  Ungrouped'
<1>1. phase \in {"eval", "pop", "close"} /\ input' = input /\ phase' # "build"
  <2>1. phase \in {"eval", "pop", "close"} /\ input' = input
    BY EvalKeeps
  <2>2. EvalNodes => phase' # "build"
    BY <2>1 DEF EvalNodes, Crash, Goes, Error
  <2> QED
    BY <2>1, <2>2 DEF EvalStep, EvalOperator, EvalNumber, EvalOpen, EvalClose, Pop, Close, Finish,
         Evaluates, Pushes, Crash, Goes, Error
<1>2. ~SignedGroup(input)
  BY <1>1 DEF Ungrouped
<1> QED
  BY <1>1, <1>2 DEF Ungrouped, SignedGroup, IsSignAt

----------------------------------------------------------------------------
(* The inductive invariant                                                 *)
IInv ==
  /\ TypeOK /\ Fresh /\ Increasing /\ Ungrouped
  /\ Counted /\ Traced /\ Stacked
  /\ PrintedPlainly /\ EndsPlainly

\* It holds at first.
LEMMA InitInv == Init => IInv
<1> SUFFICES ASSUME Init PROVE IInv
  OBVIOUS
<1>1. TypeOK
  BY InitTyped
<1>2. /\ phase = "build" /\ index = 1 /\ list = <<>> /\ sign = 0 /\ prev_op = "none" /\ parenthesis = 0
      /\ stack = <<>> /\ ops = <<>> /\ precedence = 0
  BY DEF Init
<1>3. Fresh /\ Increasing /\ Stacked /\ PrintedPlainly /\ EndsPlainly
  BY <1>2 DEF Fresh, Increasing, Stacked, PrintedPlainly, EndsPlainly
<1>6. Ungrouped
  BY <1>2 DEF Ungrouped
<1>4. Counted
  BY <1>2, DepthIs DEF Counted
<1>5. Traced
  <2> DEFINE en == [k \in 0..0 |-> 0]
  <2>1. Follows(input, <<>>, en)
    BY <1>1, FollowsInit DEF TypeOK
  <2>2. Len(<<>>) = 0 /\ en[0] = 0
    OBVIOUS
  <2>3. Reached(input, 1, 0, "none", 0)
    BY DEF Reached
  <2> HIDE DEF en
  <2> QED
    BY <1>2, <2>1, <2>2, <2>3 DEF Traced
<1> QED
  BY <1>1, <1>3, <1>4, <1>5, <1>6 DEF IInv

\* Every step keeps it, one that builds, one that evaluates or none.
LEMMA StepInv ==
  ASSUME IInv, [Next]_vars
  PROVE  IInv'
<1>0. TypeOK /\ Fresh /\ Increasing /\ Ungrouped /\ Counted /\ Traced /\ Stacked /\ PrintedPlainly /\ EndsPlainly
  BY DEF IInv
<1>1. TypeOK' /\ Fresh' /\ Increasing'
  BY <1>0, TypePreserved, FreshPreserved, IncreasingPreserved
<1>2. CASE BuildStep
  <2>1. phase = "build" /\ input' = input /\ phase' \in {"build", "eval", "exit"}
    BY <1>2, BuildKeeps
  <2>2. Counted' /\ Traced' /\ Stacked'
    BY <1>0, <1>2, CountedBuild, TracedBuild, StackedBuild
  <2>5. Ungrouped'
    BY <1>0, <1>2, UngroupedBuild
  <2>3. PrintedPlainly'
    BY <2>1 DEF PrintedPlainly
  <2>4. EndsPlainly'
    <3>1. phase' = "exit" => PlainMeaning(input).how = "bad"
      BY <1>0, <1>2, BuildRefuses
    <3> QED
      BY <2>1, <3>1 DEF EndsPlainly
  <2> QED
    BY <1>1, <2>2, <2>3, <2>4, <2>5 DEF IInv
<1>3. CASE EvalStep
  <2>1. input' = input
    BY <1>3, EvalKeeps
  <2>2. Counted' /\ Traced' /\ Stacked'
    BY <1>0, <1>3, CountedEval, TracedEval, StackedEval
  <2>5. Ungrouped'
    BY <1>0, <1>3, UngroupedEval
  <2>3. PrintedPlainly'
    <3>1. CASE phase' = "printed"
      BY <1>0, <1>3, <3>1, PrintedEval
    <3>2. CASE phase' # "printed"
      BY <3>2 DEF PrintedPlainly
    <3> QED
      BY <3>1, <3>2
  <2>4. EndsPlainly'
    <3>1. phase' \in {"exit", "crashed"} /\ PlainMeaning(input).how # "bad" => PlainMeaning(input) = NoValue /\ code' = 127
      BY <1>0, <1>3, EvalEnds
    <3> QED
      BY <2>1, <3>1 DEF EndsPlainly, NoValue
  <2> QED
    BY <1>1, <2>2, <2>3, <2>4, <2>5 DEF IInv
<1>4. CASE UNCHANGED vars
  <2>1. UNCHANGED <<phase, input, index, sign, prev_op, parenthesis, list, stack, ops, code, result>>
    BY <1>4 DEF vars, building, evaluating
  <2>2. Counted' /\ Traced' /\ Stacked'
    BY <1>0, <2>1 DEF Counted, Traced, Stacked, Evaluation, Current
  <2>3. PrintedPlainly' /\ EndsPlainly'
    BY <1>0, <2>1 DEF PrintedPlainly, EndsPlainly, Lenient
  <2>4. Ungrouped'
    BY <1>0, <2>1 DEF Ungrouped, SignedGroup, IsSignAt
  <2> QED
    BY <1>1, <2>2, <2>3, <2>4 DEF IInv
<1> QED
  BY <1>2, <1>3, <1>4 DEF Next, BuildStep, EvalStep

\* So it always holds.
LEMMA Invariant == Spec => []IInv
<1>1. IInv /\ [Next]_vars => IInv'
  BY StepInv
<1> QED
  BY <1>1, InitInv, PTL DEF Spec

\* What $((...)) prints is what the expression means, by recursion over its spans and
\* without stacks: for tokens of any number and nesting and ints of any width.  Of an
\* expression that means nothing, a number is only printed where an operand is behind
\* a ) or an operator is outside all parentheses.
THEOREM PrintedIsMeantAlways == Spec => []PrintedIsMeant
<1>1. IInv => PrintedIsMeant
  <2> SUFFICES ASSUME IInv, phase = "printed" PROVE PrintedIsMeant
    BY DEF PrintedIsMeant
  <2>1. PlainMeaning(input) = Meaning(input)
    BY PlainIs DEF IInv, TypeOK, Ungrouped
  <2> QED
    BY <2>1 DEF IInv, PrintedPlainly, PrintedIsMeant
<1> QED
  BY <1>1, Invariant, PTL

\* An expression that has a value and no sign before a ( never ends the shell, by an
\* error or by a crash on an empty stack, and one whose only fault is a division by
\* zero ends it with 127.
THEOREM EndsOnlyOnErrorsAlways == Spec => []EndsOnlyOnErrors
<1>1. IInv => EndsOnlyOnErrors
  <2> SUFFICES ASSUME IInv, phase \in {"exit", "crashed"}, ~SignedGroup(input)
               PROVE  EndsOnlyOnErrors
    BY DEF EndsOnlyOnErrors
  <2>1. PlainMeaning(input) = Meaning(input)
    BY PlainIs DEF IInv, TypeOK
  <2> QED
    BY <2>1 DEF IInv, EndsPlainly, EndsOnlyOnErrors
<1> QED
  BY <1>1, Invariant, PTL
============================================================================
