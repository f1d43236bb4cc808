------------------------------ MODULE Meaning ------------------------------
(***************************************************************************)
(* What an expression means, by recursion over its spans of tokens and     *)
(* without stacks: the reference that what $((...)) prints is held         *)
(* against.                                                                *)
(***************************************************************************)
EXTENDS Arithmetic

NoValue == [how |-> "divides", value |-> 0]
NoSense == [how |-> "bad", value |-> 0]
Just(v) == [how |-> "value", value |-> v]

\* How many tokens of a kind are in lo..hi
Count(s, kind, lo, hi) == Cardinality({i \in lo..hi : s[i].op = kind})

\* How many parentheses are open behind token i
Depth(s, i) == Count(s, "(", 1, i) - Count(s, ")", 1, i)

\* What an operand ends with
Ends == {"num", ")"}

\* Operators of a set between two operands, outside all parentheses in lo..hi
Binary(s, set, lo, hi) ==
  {i \in lo+1..hi-1 :
     s[i].op \in set /\ s[i - 1].op \in Ends /\ Depth(s, i) = Depth(s, lo - 1)}

\* The last of those that bind weakest
Split(s, lo, hi) ==
  LET sums == Binary(s, Sums, lo, hi)
  IN Max(IF sums # {} THEN sums ELSE Binary(s, Products, lo, hi))

\* Signs and a number
Signed(s, lo, hi) ==
  lo <= hi /\ s[hi].op = "num" /\ \A i \in lo..hi-1 : s[i].op \in Signs

SignOf(s, lo, hi) == IF Count(s, "-", lo, hi) % 2 = 1 THEN -1 ELSE 1

Enclosed(s, lo, hi) ==
  /\ lo + 1 < hi /\ s[lo].op = "(" /\ s[hi].op = ")"
  /\ \A i \in lo..hi-1 : Depth(s, i) > Depth(s, lo - 1)

\* A sign: no operand is before it.
IsSignAt(s, i) == s[i].op \in Signs /\ (i = 1 \/ s[i - 1].op \notin Ends)

\* Where parentheses open that are all there is in lo..hi, but for signs before them
Group(s, lo, hi) == {m \in lo+1..hi : Enclosed(s, m, hi) /\ \A i \in lo..m-1 : IsSignAt(s, i)}

\* Division leaves a rest that is less than the divisor, on the dividend's side of 0.
Quotient(l, r) ==
  CHOOSE q \in -Abs(l)..Abs(l) : Abs(l - q * r) < Abs(r) /\ (l - q * r) * l >= 0

Apply(op, l, r) ==
  IF l.how = "bad" \/ r.how = "bad" THEN NoSense
  ELSE IF l.how = "divides" \/ r.how = "divides" THEN NoValue
  ELSE IF op = "/" /\ r.value = 0 THEN NoValue
  ELSE IF op = "/" THEN Just(Quotient(l.value, r.value))
  ELSE Just(Compute(op, l.value, r.value))

\* The meaning of a span, given those of the shorter ones
Reading(s, of, lo, hi) ==
  IF Signed(s, lo, hi) THEN Just(SignOf(s, lo, hi) * s[hi].nb)
  ELSE IF Enclosed(s, lo, hi) THEN of[<<lo + 1, hi - 1>>]
  ELSE IF Group(s, lo, hi) # {}
    THEN LET m == CHOOSE m \in Group(s, lo, hi) : TRUE
         IN Apply("*", Just(SignOf(s, lo, m - 1)), of[<<m, hi>>])
  ELSE IF Binary(s, Operators, lo, hi) = {} THEN NoSense
  ELSE LET at == Split(s, lo, hi) IN Apply(s[at].op, of[<<lo, at - 1>>], of[<<at + 1, hi>>])

Spans(s) == (1..Len(s)+1) \X (0..Len(s))
Meanings(s) == LET of[span \in Spans(s)] == Reading(s, of, span[1], span[2]) IN of

Meaning(s) == Meanings(s)[<<1, Len(s)>>]

----------------------------------------------------------------------------
(* Properties.                                                             *)

\* An operand behind a ) and whatever operators are outside all parentheses are let
\* through: the code finds a value.
Lenient ==
  \/ \E i \in 1..Len(input)-1 : input[i].op = ")" /\ input[i + 1].op \in {"num", "("}
  \/ \E i \in 1..Len(input) : input[i].op \in Operators /\ Depth(input, i) = 0

\* What is printed is what the expression means: * and / before all others, those
\* from left to right, an int at the end, and - for the least.  Of what means
\* nothing, nothing else is printed than what is named above.
PrintedIsMeant ==
  phase = "printed" =>
    LET m == Meaning(input)
    IN (m.how = "value" /\ result = Itoa(Truncate(m.value))) \/ (m.how = "bad" /\ Lenient)

\* A sign stands before a (, as in the test plus_in_front_parenthesis.
SignedGroup(s) == \E i \in 2..Len(s) : s[i].op = "(" /\ IsSignAt(s, i - 1)

\* An expression that has a value never ends the shell, unless a sign is before a (:
\* set_number() takes only a number behind a sign, and what means something in a
\* shell, and is expected to by that test, is refused.
EndsOnlyOnErrors ==
  phase \in {"exit", "crashed"} /\ ~SignedGroup(input) =>
    /\ Meaning(input).how # "value"
    /\ Meaning(input).how = "divides" => code = 127
=============================================================================
