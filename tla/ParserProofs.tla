---------------------------- MODULE ParserProofs ----------------------------
(***************************************************************************)
(* That the grammar check is right about the constructs of a line, for     *)
(* every line of any length: where it finds an end, all that was opened is *)
(* closed, in the order of opening.                                        *)
(*                                                                         *)
(* A rule is told what the others make of the places behind it; if that    *)
(* leaves open what was (Fine, Later), so does what the rule makes of its  *)
(* own place (ResultsFine), and so it is at every place (ReadingsFine).    *)
(* The invariant of the behaviours adds where the list comes from.         *)
(***************************************************************************)
EXTENDS Parser, FiniteSetTheorems, SequenceTheorems, TLAPS

----------------------------------------------------------------------------
(* Numbers: induction without an operator as a parameter                   *)

\* Less is well-founded on the numbers.
LEMMA LessWF == \E R : /\ IsWellFoundedOn(R, Nat)
                       /\ \A i, j \in Nat : <<i, j>> \in R <=> i < j
<1>1. IsWellFoundedOn(OpToRel(<,Nat), Nat)
  BY NatLessThanWellFounded
<1>2. \A i, j \in Nat : <<i, j>> \in OpToRel(<,Nat) <=> i < j
  BY DEF OpToRel
<1> QED
  BY <1>1, <1>2

\* A set of numbers that has one has a least one.
LEMMA Least ==
  ASSUME NEW T, T \subseteq Nat, T # {}
  PROVE \E x \in T : \A y \in T : x <= y
<1>1. PICK R : /\ IsWellFoundedOn(R, Nat)
               /\ \A i, j \in Nat : <<i, j>> \in R <=> i < j
  BY LessWF
<1>2. \E x \in T : \A y \in T : ~(<<y, x>> \in R)
  <2>1. IsWellFoundedOn(R, Nat)
    BY <1>1
  <2> QED
    BY <2>1, WFMin
<1>3. PICK x \in T : \A y \in T : ~(<<y, x>> \in R)
  BY <1>2
<1>4. ASSUME NEW y \in T PROVE x <= y
  <2>1. x \in Nat /\ y \in Nat
    OBVIOUS
  <2>2. ~(y < x)
    BY <1>1, <1>3, <2>1
  <2> QED
    BY <2>1, <2>2
<1> QED
  BY <1>4

\* Induction, with the set of numbers that something holds of in place of a formula
LEMMA Induct ==
  ASSUME NEW S, 0 \in S, \A n \in Nat : n \in S => n + 1 \in S
  PROVE  \A n \in Nat : n \in S
<1> SUFFICES ASSUME NEW n \in Nat, n \notin S PROVE FALSE
  OBVIOUS
<1> DEFINE T == {k \in Nat : k \notin S}
<1>1. T \subseteq Nat /\ T # {}
  OBVIOUS
<1>2. PICK x \in T : \A y \in T : x <= y
  BY <1>1, Least
<1>3. x # 0 /\ x \in Nat
  BY <1>2
<1>4. x - 1 \in Nat /\ x - 1 \notin T
  BY <1>2, <1>3
<1>5. (x - 1) + 1 \in S
  BY <1>4
<1> QED
  BY <1>3, <1>5

\* The least of a set of numbers
LEMMA MinIs ==
  ASSUME NEW T, T \subseteq Nat, T # {}
  PROVE  Min(T) \in T /\ \A y \in T : Min(T) <= y
<1>1. \E x \in T : \A y \in T : x <= y
  BY Least
<1> QED
  BY <1>1 DEF Min

\* Past() finds the first token that is none of S, if there is one.
LEMMA PastIs ==
  ASSUME NEW t, Len(t) \in Nat, NEW i \in Nat, NEW S
  PROVE  \/ /\ Past(t, i, S) = NULL
            /\ \A k \in i..Len(t) : t[k] \in S
         \/ /\ Past(t, i, S) \in i..Len(t) /\ t[Past(t, i, S)] \notin S
            /\ \A k \in i..Past(t, i, S)-1 : t[k] \in S
<1> DEFINE rest == {j \in i..Len(t) : t[j] \notin S}
<1>0. Past(t, i, S) = IF rest = {} THEN NULL ELSE Min(rest)
  BY DEF Past
<1>1. CASE rest = {}
  BY <1>0, <1>1
<1>2. CASE rest # {}
  <2>1. Min(rest) \in rest /\ \A y \in rest : Min(rest) <= y
    BY <1>2, MinIs, SMTT(40)
  <2>2. Past(t, i, S) = Min(rest)
    BY <1>0, <1>2
  <2>3. PICK p \in rest : p = Min(rest)
    BY <2>1
  <2>4. p \in i..Len(t) /\ t[p] \notin S
    OBVIOUS
  <2>5. ASSUME NEW k \in i..p-1 PROVE t[k] \in S
    <3>1. k \in i..Len(t) /\ ~(p <= k)
      BY <2>4
    <3>2. k \notin rest
      BY <2>1, <2>3, <3>1
    <3> QED
      BY <3>1, <3>2
  <2> QED
    BY <2>2, <2>3, <2>4, <2>5
<1> QED
  BY <1>1, <1>2

\* The marks, one token after the other
LEMMA MarksIs ==
  ASSUME NEW t, Len(t) \in Nat
  PROVE  /\ Marks(t)[0] = <<>>
         /\ \A i \in 1..Len(t) : Marks(t)[i] = Mark(Marks(t)[i - 1], t[i])
<1> DEFINE N == Len(t)
           P(f) == f = [i \in 0..N |-> IF i = 0 THEN <<>> ELSE Mark(f[i - 1], t[i])]
           U(k, w) == w = [i \in 0..N |-> w[i]] /\ w[0] = <<>>
                      /\ \A i \in 1..N : i <= k => w[i] = Mark(w[i - 1], t[i])
           S == {k \in Nat : \E w : U(k, w)}
<1>0. N \in Nat
  OBVIOUS
<1>1. 0 \in S
  <2>1. U(0, [i \in 0..N |-> <<>>])
    BY <1>0
  <2> QED
    BY <2>1
<1>2. ASSUME NEW k \in Nat, k \in S PROVE k + 1 \in S
  <2>1. PICK w : U(k, w)
    BY <1>2
  <2> DEFINE v == [i \in 0..N |-> IF i = k + 1 THEN Mark(w[i - 1], t[i]) ELSE w[i]]
  <2>2. v[0] = <<>>
    BY <1>0, <2>1
  <2>3. ASSUME NEW i \in 1..N, i <= k + 1 PROVE v[i] = Mark(v[i - 1], t[i])
    <3>1. i \in 0..N /\ i - 1 \in 0..N /\ i - 1 # k + 1
      BY <1>0, <2>3
    <3>2. v[i - 1] = w[i - 1]
      BY <3>1
    <3>3. CASE i = k + 1
      BY <3>1, <3>2, <3>3
    <3>4. CASE i # k + 1
      <4>1. v[i] = w[i] /\ i <= k
        BY <2>3, <3>1, <3>4
      <4> QED
        BY <2>1, <3>2, <4>1
    <3> QED
      BY <3>3, <3>4
  <2>4. U(k + 1, v)
    <3>1. v = [i \in 0..N |-> v[i]]
      OBVIOUS
    <3> HIDE DEF v
    <3> QED
      BY <2>2, <2>3, <3>1
  <2> HIDE DEF v, U
  <2> QED
    BY <2>4
<1>3. N \in S
  <2> HIDE DEF S
  <2> QED
    BY <1>0, <1>1, <1>2, Induct
<1>4. PICK w : U(N, w)
  BY <1>3
<1>5. P(w)
  <2>1. ASSUME NEW i \in 0..N PROVE w[i] = IF i = 0 THEN <<>> ELSE Mark(w[i - 1], t[i])
    <3>1. CASE i = 0
      BY <1>4, <3>1
    <3>2. CASE i # 0
      <4>1. i \in 1..N /\ i <= N
        BY <1>0, <3>2
      <4> QED
        BY <1>4, <3>2, <4>1
    <3> QED
      BY <3>1, <3>2
  <2> QED
    BY <1>4, <2>1
<1>6. P(Marks(t))
  <2>1. Marks(t) = CHOOSE f : P(f)
    BY DEF Marks
  <2> HIDE DEF P
  <2> QED
    BY <1>5, <2>1
<1> QED
  BY <1>0, <1>6

\* The table of what the rules make of every place: each place from those behind it
Behindhand(t, i) == [j \in i+1..Len(t)+1 |-> Readings(t)[j]]

\* What the rules make of every place is what they make of it given the places behind.
LEMMA ReadingsIs ==
  ASSUME NEW t, Len(t) \in Nat
  PROVE  \A i \in 1..Len(t)+1 : Readings(t)[i] = Results(t, Behindhand(t, i), i)
<1> DEFINE N == Len(t) + 1
           L(f, i) == [j \in i+1..N |-> f[j]]
           P(f) == f = [i \in 1..N |-> Results(t, L(f, i), i)]
           U(k, w) == w = [i \in 1..N |-> w[i]]
                      /\ \A i \in 1..N : i > N - k => w[i] = Results(t, L(w, i), i)
           S == {k \in Nat : \E w : U(k, w)}
<1>0. N \in Nat
  OBVIOUS
<1>1. 0 \in S
  <2>1. U(0, [i \in 1..N |-> 0])
    BY <1>0
  <2> QED
    BY <2>1
<1>2. ASSUME NEW k \in Nat, k \in S PROVE k + 1 \in S
  <2>1. PICK w : U(k, w)
    BY <1>2
  <2> DEFINE p == N - k
             v == [i \in 1..N |-> IF i = p THEN Results(t, L(w, i), i) ELSE w[i]]
  <2>2. ASSUME NEW i \in 1..N, i >= p PROVE L(v, i) = L(w, i)
    <3>1. ASSUME NEW j \in i+1..N PROVE v[j] = w[j]
      <4>1. j \in 1..N /\ j # p
        BY <1>0, <2>2
      <4> QED
        BY <4>1
    <3> HIDE DEF v
    <3> QED
      BY <3>1
  <2>3. ASSUME NEW i \in 1..N, i > N - (k + 1) PROVE v[i] = Results(t, L(v, i), i)
    <3>1. i >= p
      BY <1>0, <2>3
    <3>2. L(v, i) = L(w, i)
      BY <2>2, <3>1
    <3>3. CASE i = p
      <4>1. v[i] = Results(t, L(w, i), i)
        BY <3>3
      <4> HIDE DEF v, L
      <4> QED
        BY <3>2, <4>1
    <3>4. CASE i # p
      <4>1. v[i] = w[i] /\ i > N - k
        BY <1>0, <3>1, <3>4
      <4>2. w[i] = Results(t, L(w, i), i)
        BY <2>1, <4>1
      <4> HIDE DEF v, L
      <4> QED
        BY <3>2, <4>1, <4>2
    <3> QED
      BY <3>3, <3>4
  <2>4. U(k + 1, v)
    <3>1. v = [i \in 1..N |-> v[i]]
      OBVIOUS
    <3> HIDE DEF v, L
    <3> QED
      BY <2>3, <3>1
  <2> HIDE DEF v, U
  <2> QED
    BY <2>4
<1>3. N \in S
  <2> HIDE DEF S
  <2> QED
    BY <1>0, <1>1, <1>2, Induct
<1>4. PICK w : U(N, w)
  BY <1>3
<1>5. P(w)
  <2>1. ASSUME NEW i \in 1..N PROVE w[i] = Results(t, L(w, i), i)
    <3>1. i > N - N
      BY <1>0
    <3> HIDE DEF L
    <3> QED
      BY <1>4, <3>1
  <2> HIDE DEF L
  <2> QED
    BY <1>4, <2>1
<1>6. P(Readings(t))
  <2>1. Readings(t) = CHOOSE f : P(f)
    BY DEF Readings
  <2> HIDE DEF P
  <2> QED
    BY <1>5, <2>1
<1>7. ASSUME NEW i \in 1..N PROVE Readings(t)[i] = Results(t, L(Readings(t), i), i)
  <2> HIDE DEF L
  <2> QED
    BY <1>6
<1>8. ASSUME NEW i \in 1..N PROVE L(Readings(t), i) = Behindhand(t, i)
  BY DEF Behindhand
<1> QED
  BY <1>7, <1>8

----------------------------------------------------------------------------
(* What is open at a place of the list                                     *)

\* A list as the lexer leaves it
Ended(t) == t \in Seq(Token) /\ t # <<>> /\ t[Len(t)] = "eof"
\* Up to n, every esac has a `;;' before it, newlines aside.
Claused(t, n) == \A k \in 2..n :
                   t[k] = "esac" /\ t[k - 1] \notin EndOf => t[k - 1] = ";;"

\* What opens, turns and closes nothing
Plain == Special \union Words \union EndOf \union {"assign", "in"}

\* What is open at a place is s, and is the same at both places: if every case
\* has a clause up to there.
Is(t, j, s) == Claused(t, j) => Marks(t)[j] = s
Same(t, i, j) == j \in i..Len(t) /\ Is(t, j, Marks(t)[i])

Open == Token \union {"error"}

\* The tokens a list is made of, and its length
LEMMA EndedIs ==
  ASSUME NEW t, Ended(t)
  PROVE  /\ Len(t) \in Nat \ {0} /\ DOMAIN t = 1..Len(t)
         /\ \A i \in 1..Len(t) : t[i] \in Token
         /\ t[Len(t)] = "eof"
BY DEF Ended

\* Where a list has a token
LEMMA AtIs ==
  ASSUME NEW t, Ended(t), NEW i, At(t, i) # "none"
  PROVE  i \in 1..Len(t) /\ At(t, i) = t[i]
BY EndedIs DEF At

\* The place of a token of the list
LEMMA AtOne ==
  ASSUME NEW t, Ended(t), NEW i \in Int, NEW x \in Token, At(t, i) = x
  PROVE  i \in 1..Len(t) /\ t[i] = x
<1>1. x # "none"
  BY DEF Token, Reserved, Special, Words, EndOf
<1> QED
  BY <1>1, AtIs

\* The end of the list is an "eof": no other token is the last.
LEMMA NotLast ==
  ASSUME NEW t, Ended(t), NEW i \in 1..Len(t), t[i] # "eof"
  PROVE  i + 1 \in 1..Len(t) /\ i < Len(t)
<1>1. i # Len(t) /\ Len(t) \in Nat
  BY EndedIs
<1> QED
  BY <1>1

\* A mark is a token or an error.
LEMMA MarkTyped ==
  ASSUME NEW s \in Seq(Open), NEW tok \in Token
  PROVE  Mark(s, tok) \in Seq(Open)
<1>1. tok \in Open /\ "error" \in Open
  BY DEF Open
<1>2. Append(s, tok) \in Seq(Open) /\ <<"error">> \in Seq(Open)
  BY <1>1
<1>3. s # <<>> => Front(s) \in Seq(Open)
  BY DEF Front
<1>4. s # <<>> => Append(Front(s), tok) \in Seq(Open)
  BY <1>1, <1>3
<1> QED
  BY <1>2, <1>3, <1>4 DEF Mark

\* At every place, what is open is a list of marks.
LEMMA MarksTyped ==
  ASSUME NEW t, Ended(t)
  PROVE  \A i \in 0..Len(t) : Marks(t)[i] \in Seq(Open)
<1> DEFINE S == {k \in Nat : k <= Len(t) => Marks(t)[k] \in Seq(Open)}
<1>0. /\ Len(t) \in Nat /\ Marks(t)[0] = <<>>
      /\ \A i \in 1..Len(t) : t[i] \in Token /\ Marks(t)[i] = Mark(Marks(t)[i - 1], t[i])
  <2>1. Len(t) \in Nat
    BY EndedIs
  <2> QED
    BY <2>1, EndedIs, MarksIs
<1>1. 0 \in S
  <2>1. <<>> \in Seq(Open)
    OBVIOUS
  <2> QED
    BY <1>0, <2>1
<1>2. ASSUME NEW k \in Nat, k \in S PROVE k + 1 \in S
  <2>1. CASE k + 1 <= Len(t)
    <3>1. k + 1 \in 1..Len(t) /\ (k + 1) - 1 = k /\ Marks(t)[k] \in Seq(Open)
      BY <1>0, <1>2, <2>1
    <3>2. t[k + 1] \in Token /\ Marks(t)[k + 1] = Mark(Marks(t)[k], t[k + 1])
      BY <1>0, <3>1
    <3> QED
      BY <3>1, <3>2, MarkTyped
  <2> QED
    BY <2>1
<1>3. \A k \in Nat : k \in S
  <2> HIDE DEF S
  <2> QED
    BY <1>1, <1>2, Induct
<1> QED
  BY <1>0, <1>3

\* What follows what, word by word
LEMMA FollowsIs ==
  /\ DOMAIN Follows = {"then", "elif", "else", "fi", "do", "done", "esac"}
  /\ Follows["then"] = {"if", "elif"} /\ Follows["elif"] = {"then"}
  /\ Follows["else"] = {"then"} /\ Follows["fi"] = {"then", "else"}
  /\ Follows["do"] = {"while", "until", "for"} /\ Follows["done"] = {"do"}
  /\ Follows["esac"] = {"case"}
BY DEF Follows

\* What opens, turns and closes nothing
LEMMA MarkPlain ==
  ASSUME NEW s, NEW tok \in Plain
  PROVE  Mark(s, tok) = s
<1>1. tok \notin Openers /\ tok \notin DOMAIN Follows
  BY FollowsIs DEF Plain, Openers, Special, Words, EndOf
<1> QED
  BY <1>1 DEF Mark

\* What opens a construct
LEMMA MarkOpens ==
  ASSUME NEW s, NEW tok \in Openers
  PROVE  Mark(s, tok) = Append(s, tok)
BY DEF Mark

\* A word of a construct takes the place of the one before it.
LEMMA MarkTurns ==
  ASSUME NEW s \in Seq(Open), NEW x \in Open, NEW tok \in {"then", "elif", "else", "do"},
         x \in Follows[tok]
  PROVE  Mark(Append(s, x), tok) = Append(s, tok)
<1>1. /\ Append(s, x) # <<>> /\ Last(Append(s, x)) = x /\ Front(Append(s, x)) = s
  BY SMTT(40) DEF Last, Front
<1>2. tok \notin Openers /\ tok \in DOMAIN Follows /\ tok \notin Closers
  BY FollowsIs DEF Openers, Closers
<1> QED
  BY <1>1, <1>2 DEF Mark

\* The last word of a construct
LEMMA MarkCloses ==
  ASSUME NEW s \in Seq(Open), NEW x \in Open, NEW tok \in Closers, x \in Follows[tok]
  PROVE  Mark(Append(s, x), tok) = s
<1>1. /\ Append(s, x) # <<>> /\ Last(Append(s, x)) = x /\ Front(Append(s, x)) = s
  BY DEF Last, Front
<1>2. tok \notin Openers /\ tok \in DOMAIN Follows
  BY FollowsIs DEF Openers, Closers
<1> QED
  BY <1>1, <1>2 DEF Mark

\* At one place the same is open.
LEMMA SameSelf ==
  ASSUME NEW t, Ended(t), NEW i \in 0..Len(t)
  PROVE  Same(t, i, i)
BY EndedIs DEF Same, Is

\* Where every case has a clause up to a place, it has one up to those before.
LEMMA ClausedOn ==
  ASSUME NEW t, NEW j \in Int, NEW i \in Int, i <= j, Claused(t, j)
  PROVE  Claused(t, i)
<1>1. \A k \in 2..i : k \in 2..j
  OBVIOUS
<1> QED
  BY <1>1 DEF Claused

\* What is open further on
LEMMA SameIs ==
  ASSUME NEW t, Ended(t), NEW i \in 0..Len(t), NEW j, Same(t, i, j), NEW s, Is(t, i, s)
  PROVE  Is(t, j, s)
<1>1. Len(t) \in Nat /\ j \in i..Len(t) /\ Is(t, j, Marks(t)[i])
  BY EndedIs DEF Same
<1>2. Claused(t, j) => Claused(t, i)
  BY <1>1, ClausedOn
<1> QED
  BY <1>1, <1>2 DEF Is

\* The other way round
LEMMA IsSame ==
  ASSUME NEW t, NEW i, NEW j \in i..Len(t), Is(t, j, Marks(t)[i])
  PROVE  Same(t, i, j)
BY DEF Same

\* From one place to the next and on to a third
LEMMA SameTrans ==
  ASSUME NEW t, Ended(t), NEW i \in 0..Len(t), NEW j, NEW k, Same(t, i, j), Same(t, j, k)
  PROVE  Same(t, i, k) /\ j \in 0..Len(t) /\ k \in 0..Len(t)
<1>1. Len(t) \in Nat /\ j \in i..Len(t) /\ k \in j..Len(t) /\ Is(t, j, Marks(t)[i])
  BY EndedIs DEF Same
<1>2. j \in 0..Len(t) /\ k \in 0..Len(t) /\ k \in i..Len(t)
  BY <1>1
<1>3. Is(t, k, Marks(t)[i])
  BY <1>1, <1>2, SameIs
<1> QED
  BY <1>2, <1>3 DEF Same

\* A token that opens, turns and closes nothing leaves what is open alone,
LEMMA SameStep ==
  ASSUME NEW t, Ended(t), NEW i \in 1..Len(t), t[i] \in Plain
  PROVE  Same(t, i - 1, i) /\ i - 1 \in 0..Len(t)
<1>1. Len(t) \in Nat
  BY EndedIs
<1>2. Marks(t)[i] = Mark(Marks(t)[i - 1], t[i])
  BY <1>1, MarksIs
<1>3. Marks(t)[i] = Marks(t)[i - 1]
  BY <1>2, MarkPlain
<1> QED
  BY <1>1, <1>3 DEF Same, Is

\* and so do many of them.
LEMMA SameRun ==
  ASSUME NEW t, Ended(t), NEW i \in 0..Len(t), NEW j \in i..Len(t),
         \A k \in i+1..j : t[k] \in Plain
  PROVE  Same(t, i, j)
<1> DEFINE S == {k \in Nat : i + k <= j => Same(t, i, i + k)}
<1>0. Len(t) \in Nat /\ i \in Nat /\ j \in Nat
  BY EndedIs
<1>1. 0 \in S
  BY <1>0, SameSelf
<1>2. ASSUME NEW k \in Nat, k \in S PROVE k + 1 \in S
  <2>1. CASE i + (k + 1) <= j
    <3>1. /\ i + k + 1 \in i+1..j /\ i + k + 1 \in 1..Len(t) /\ (i + k + 1) - 1 = i + k
          /\ i + k + 1 = i + (k + 1) /\ i + k <= j
      BY <1>0, <2>1
    <3>2. Same(t, i, i + k) /\ t[i + k + 1] \in Plain
      BY <1>2, <3>1
    <3>3. Same(t, i + k, i + k + 1)
      BY <3>1, <3>2, SameStep
    <3>4. Same(t, i, i + (k + 1))
      BY <3>1, <3>2, <3>3, SameTrans
    <3> QED
      BY <3>4
  <2> QED
    BY <2>1
<1>3. \A k \in Nat : k \in S
  <2> HIDE DEF S
  <2> QED
    BY <1>1, <1>2, Induct
<1>4. j - i \in Nat /\ i + (j - i) = j
  BY <1>0
<1>5. Same(t, i, i + (j - i))
  BY <1>0, <1>3, <1>4, SMTT(40)
<1> QED
  BY <1>4, <1>5

\* So does what Past() passes over.
LEMMA PastSame ==
  ASSUME NEW t, Ended(t), NEW i \in 1..Len(t)+1, NEW S, S \subseteq Plain, Past(t, i, S) # NULL
  PROVE  /\ Past(t, i, S) \in i..Len(t) /\ Past(t, i, S) \in 1..Len(t)
         /\ t[Past(t, i, S)] \notin S
         /\ Same(t, i - 1, Past(t, i, S) - 1) /\ i - 1 \in 0..Len(t)
         /\ Past(t, i, S) - 1 \in 0..Len(t)
<1>1. Len(t) \in Nat /\ i \in Nat
  BY EndedIs
<1>2. PICK p : p = Past(t, i, S)
  OBVIOUS
<1>3. p \in i..Len(t) /\ t[p] \notin S /\ \A k \in i..p-1 : t[k] \in S
  BY <1>1, <1>2, PastIs
<1>4. i - 1 \in 0..Len(t) /\ p - 1 \in i-1..Len(t) /\ (i - 1) + 1 = i /\ p \in 1..Len(t)
      /\ p - 1 \in 0..Len(t)
  BY <1>1, <1>3
<1>5. Same(t, i - 1, p - 1)
  BY <1>3, <1>4, SameRun
<1> QED
  BY <1>2, <1>3, <1>4, <1>5

\* So do the newlines that Skip() passes over.
LEMMA SkipSame ==
  ASSUME NEW t, Ended(t), NEW i \in 1..Len(t)+1, Skip(t, i) # NULL
  PROVE  /\ Skip(t, i) \in i..Len(t) /\ Skip(t, i) \in 1..Len(t)
         /\ t[Skip(t, i)] \notin EndOf
         /\ Same(t, i - 1, Skip(t, i) - 1) /\ i - 1 \in 0..Len(t)
         /\ Skip(t, i) - 1 \in 0..Len(t)
<1>1. EndOf \subseteq Plain
  BY DEF Plain
<1> QED
  BY <1>1, PastSame DEF Skip

\* What is found is a place, or none.
LEMMA SkipTyped ==
  ASSUME NEW t, Ended(t), NEW i \in 1..Len(t)+1
  PROVE  Skip(t, i) \in 0..Len(t)
<1>1. Len(t) \in Nat
  BY EndedIs
<1>2. CASE Skip(t, i) = NULL
  BY <1>1, <1>2 DEF NULL
<1>3. CASE Skip(t, i) # NULL
  BY <1>1, <1>3, SkipSame
<1> QED
  BY <1>2, <1>3

----------------------------------------------------------------------------
(* What the rules answer                                                   *)

\* A construct is opened,
LEMMA OpensAt ==
  ASSUME NEW t, Ended(t), NEW i \in 1..Len(t), t[i] \in Openers
  PROVE  /\ Marks(t)[i - 1] \in Seq(Open) /\ t[i] \in Open
         /\ Is(t, i, Append(Marks(t)[i - 1], t[i]))
<1>1. Len(t) \in Nat /\ t[i] \in Token /\ i - 1 \in 0..Len(t)
  BY EndedIs
<1>2. Marks(t)[i] = Mark(Marks(t)[i - 1], t[i])
  BY <1>1, MarksIs
<1>3. Marks(t)[i - 1] \in Seq(Open)
  BY <1>1, MarksTyped
<1> QED
  BY <1>1, <1>2, <1>3, MarkOpens DEF Open, Is

\* goes on,
LEMMA TurnsAt ==
  ASSUME NEW t, Ended(t), NEW i \in 1..Len(t), NEW s \in Seq(Open), NEW x \in Open,
         Is(t, i - 1, Append(s, x)), t[i] \in {"then", "elif", "else", "do"},
         x \in Follows[t[i]]
  PROVE  Is(t, i, Append(s, t[i]))
<1> SUFFICES ASSUME Claused(t, i) PROVE Marks(t)[i] = Append(s, t[i])
  BY DEF Is
<1>1. Len(t) \in Nat /\ Claused(t, i - 1)
  BY EndedIs, ClausedOn
<1>2. Marks(t)[i] = Mark(Append(s, x), t[i])
  BY <1>1, MarksIs DEF Is
<1> QED
  BY <1>2, MarkTurns

\* and is closed.
LEMMA ClosesAt ==
  ASSUME NEW t, Ended(t), NEW i \in 1..Len(t), NEW s \in Seq(Open), NEW x \in Open,
         Is(t, i - 1, Append(s, x)), t[i] \in Closers, x \in Follows[t[i]]
  PROVE  Is(t, i, s)
<1> SUFFICES ASSUME Claused(t, i) PROVE Marks(t)[i] = s
  BY DEF Is
<1>1. Len(t) \in Nat /\ Claused(t, i - 1)
  BY EndedIs, ClausedOn
<1>2. Marks(t)[i] = Mark(Append(s, x), t[i])
  BY <1>1, MarksIs DEF Is
<1> QED
  BY <1>2, MarkCloses

\* What a rule answers that starts at i: no place, or the last of tokens that
\* leave open what was.
Answer(t, i, j) == j \in Int /\ (j > 0 => j >= i /\ Same(t, i - 1, j))
\* What a loop answers that goes on behind i
Onward(t, i, j) == j \in Int /\ (j > 0 => Same(t, i, j))
\* Behind a `then', the rest of the branch may be an else.
Branches(t, i, j) ==
  j \in Int /\ (j > 0 => j \in i..Len(t) /\
    \A s \in Seq(Open) : Is(t, i - 1, Append(s, "then")) =>
                           \E x \in {"then", "else"} : Is(t, j, Append(s, x)))
\* The end of a line is a newline or an "eof".
Line(t, i, j) == j \in Int /\ (j > 0 => j \in i..Len(t) /\ t[j] \in EndOf /\ Same(t, i - 1, j - 1))

\* The results of the rules that start at i
Fine(t, i, f) ==
  /\ \A r \in {"PrefixRun", "ElementRun", "Redirected"} : Same(t, i - 1, f[r])
  /\ i <= Len(t) =>
       /\ Same(t, i, f["Patterns"])
       /\ \A r \in {"Piped", "AndOr", "CompoundItems", "CaseItems"} : Onward(t, i, f[r])
  /\ Answer(t, i, f["g_compoundlist"])
  /\ Branches(t, i, f["g_elseclause"])
  /\ Line(t, i, f["g_list"])

\* All that a rule is told of the places behind i
Later(t, g, i) == \A j \in i+1..Len(t)+1 : Fine(t, j, g[j])

\* What is told of the places behind i holds further on.
LEMMA LaterOn ==
  ASSUME NEW t, Ended(t), NEW g, NEW i \in Nat, Later(t, g, i), NEW j \in Int, j >= i
  PROVE  Later(t, g, j)
<1>1. Len(t) \in Nat
  BY EndedIs
<1>2. \A k \in j+1..Len(t)+1 : k \in i+1..Len(t)+1
  BY <1>1
<1> QED
  BY <1>2 DEF Later

\* What is behind a token is the compound list there, or
LEMMA CompoundLater ==
  ASSUME NEW t, Ended(t), NEW g, NEW i \in 0..Len(t), Later(t, g, i)
  PROVE  /\ g[i + 1]["g_compoundlist"] \in Int
         /\ g[i + 1]["g_compoundlist"] > 0 =>
              Same(t, i, g[i + 1]["g_compoundlist"]) /\ g[i + 1]["g_compoundlist"] \in i+1..Len(t)
<1>1. Len(t) \in Nat /\ i + 1 \in i+1..Len(t)+1 /\ (i + 1) - 1 = i
  BY EndedIs
<1>2. Fine(t, i + 1, g[i + 1])
  BY <1>1 DEF Later
<1>3. PICK j : j = g[i + 1]["g_compoundlist"]
  OBVIOUS
<1>4. Answer(t, i + 1, j)
  BY <1>2, <1>3 DEF Fine
<1>5. j \in Int /\ (j > 0 => j >= i + 1 /\ Same(t, i, j))
  BY <1>1, <1>4 DEF Answer
<1>6. j > 0 => j \in i+1..Len(t)
  BY <1>1, <1>5 DEF Same
<1> QED
  BY <1>3, <1>5, <1>6

\* The list between i and a closing token
LEMMA EnclosedIs ==
  ASSUME NEW t, Ended(t), NEW g, NEW i \in 0..Len(t), Later(t, g, i), NEW close \in Token
  PROVE  /\ Enclosed(t, g, i, close) \in Int
         /\ Enclosed(t, g, i, close) > 0 =>
              /\ Enclosed(t, g, i, close) \in i+1..Len(t)
              /\ t[Enclosed(t, g, i, close)] = close
              /\ Same(t, i, Enclosed(t, g, i, close) - 1)
<1>1. PICK j : j = g[i + 1]["g_compoundlist"]
  OBVIOUS
<1>2. j \in Int /\ (j > 0 => Same(t, i, j) /\ j \in i+1..Len(t))
  BY <1>1, CompoundLater
<1>3. Enclosed(t, g, i, close) =
        IF j <= 0 THEN j ELSE IF At(t, j + 1) = close THEN j + 1 ELSE NULL
  BY <1>1 DEF Enclosed, Then
<1>4. CASE j <= 0
  BY <1>2, <1>3, <1>4
<1>5. CASE j > 0 /\ At(t, j + 1) # close
  BY <1>2, <1>3, <1>5 DEF NULL
<1>6. CASE j > 0 /\ At(t, j + 1) = close
  <2>1. j + 1 \in 1..Len(t) /\ t[j + 1] = close
    BY <1>2, <1>6, AtOne
  <2>2. Enclosed(t, g, i, close) = j + 1 /\ (j + 1) - 1 = j /\ j + 1 \in i+1..Len(t)
        /\ j + 1 \in Int
    BY <1>2, <1>3, <1>6, <2>1
  <2> QED
    BY <1>2, <1>6, <2>1, <2>2
<1> QED
  BY <1>2, <1>4, <1>5, <1>6

----------------------------------------------------------------------------
(* Simple commands (grammar_command.c)                                     *)

\* What is no place
LEMMA NullIs == NULL = 0 /\ HANG = -1
BY DEF NULL, HANG

\* A redirection is two tokens that open nothing.
LEMMA RedirectionIs ==
  ASSUME NEW t, Ended(t), NEW i \in 1..Len(t)+1
  PROVE  \/ g_redirection(t, i) = NULL
         \/ /\ g_redirection(t, i) \in i..Len(t)
            /\ Same(t, i - 1, g_redirection(t, i))
<1>0. Len(t) \in Nat
  BY EndedIs
<1>1. CASE At(t, i) = "redir" /\ At(t, i + 1) = "word"
  <2>1. "redir" \in Token /\ "word" \in Token /\ "redir" \in Plain /\ "word" \in Plain
    BY DEF Token, Special, Words, Plain
  <2>2. i \in 1..Len(t) /\ t[i] = "redir" /\ i + 1 \in 1..Len(t) /\ t[i + 1] = "word"
        /\ (i + 1) - 1 = i
    BY <1>0, <1>1, <2>1, AtOne
  <2>3. Same(t, i - 1, i) /\ Same(t, i, i + 1) /\ i - 1 \in 0..Len(t)
    BY <2>1, <2>2, SameStep
  <2>4. Same(t, i - 1, i + 1) /\ i + 1 \in i..Len(t)
    BY <2>2, <2>3, SameTrans
  <2> QED
    BY <1>1, <2>4 DEF g_redirection
<1>2. CASE ~(At(t, i) = "redir" /\ At(t, i + 1) = "word")
  BY <1>2 DEF g_redirection
<1> QED
  BY <1>1, <1>2

\* One element, prefix or redirection opens nothing,
LEMMA OneIs ==
  ASSUME NEW t, Ended(t),
         NEW i \in 1..Len(t)+1, NEW j \in {g_prefix(t, i), g_element(t, i), g_redirection(t, i)}
  PROVE  j = NULL \/ (j \in i..Len(t) /\ Same(t, i - 1, j))
<1>1. CASE j = g_redirection(t, i)
  BY <1>1, RedirectionIs
<1>2. CASE j = i /\ At(t, i) \in {"word", "assign"}
  <2>1. "word" \in Token /\ "assign" \in Token /\ "word" \in Plain /\ "assign" \in Plain
    BY DEF Token, Words, Plain
  <2>2. i \in 1..Len(t) /\ t[i] \in Plain
    BY <1>2, <2>1, AtOne
  <2>3. Same(t, i - 1, i) /\ i \in i..Len(t)
    BY <2>2, SameStep
  <2> QED
    BY <1>2, <2>3
<1> QED
  BY <1>1, <1>2 DEF g_prefix, g_element

\* A run goes on behind one of its elements.
LEMMA RunOn ==
  ASSUME NEW t, Ended(t), NEW g, NEW i \in 1..Len(t)+1, Later(t, g, i),
         NEW j \in i..Len(t), Same(t, i - 1, j), NEW r \in {"PrefixRun", "ElementRun", "Redirected"}
  PROVE  Same(t, i - 1, g[j + 1][r])
<1>1. Len(t) \in Nat /\ j + 1 \in i+1..Len(t)+1 /\ (j + 1) - 1 = j /\ i - 1 \in 0..Len(t)
  BY EndedIs
<1>2. Same(t, j, g[j + 1][r])
  BY <1>1 DEF Later, Fine
<1> QED
  BY <1>1, <1>2, SameTrans

\* none of them is no token at all,
LEMMA RunEmpty ==
  ASSUME NEW t, Ended(t), NEW i \in 1..Len(t)+1
  PROVE  Same(t, i - 1, i - 1)
<1>1. i - 1 \in 0..Len(t)
  BY EndedIs
<1> QED
  BY <1>1, SameSelf

\* and as many as there are open nothing.
LEMMA RunsAre ==
  ASSUME NEW t, Ended(t), NEW g, NEW i \in 1..Len(t)+1, Later(t, g, i)
  PROVE  /\ Same(t, i - 1, PrefixRun(t, g, i))
         /\ Same(t, i - 1, ElementRun(t, g, i))
         /\ Same(t, i - 1, Redirected(t, g, i))
<1>1. Same(t, i - 1, PrefixRun(t, g, i))
  <2>1. PICK j : j = g_prefix(t, i)
    OBVIOUS
  <2>2. PrefixRun(t, g, i) = IF j = NULL THEN i - 1 ELSE g[j + 1]["PrefixRun"]
    BY <2>1 DEF PrefixRun
  <2>3. CASE j = NULL
    BY <2>2, <2>3, RunEmpty
  <2>4. CASE j # NULL
    <3>1. j \in i..Len(t) /\ Same(t, i - 1, j)
      BY <2>1, <2>4, OneIs
    <3>2. Same(t, i - 1, g[j + 1]["PrefixRun"])
      BY <3>1, RunOn
    <3> QED
      BY <2>2, <2>4, <3>2
  <2> QED
    BY <2>3, <2>4
<1>2. Same(t, i - 1, ElementRun(t, g, i))
  <2>1. PICK j : j = g_element(t, i)
    OBVIOUS
  <2>2. ElementRun(t, g, i) = IF j = NULL THEN i - 1 ELSE g[j + 1]["ElementRun"]
    BY <2>1 DEF ElementRun
  <2>3. CASE j = NULL
    BY <2>2, <2>3, RunEmpty
  <2>4. CASE j # NULL
    <3>1. j \in i..Len(t) /\ Same(t, i - 1, j)
      BY <2>1, <2>4, OneIs
    <3>2. Same(t, i - 1, g[j + 1]["ElementRun"])
      BY <3>1, RunOn
    <3> QED
      BY <2>2, <2>4, <3>2
  <2> QED
    BY <2>3, <2>4
<1>3. Same(t, i - 1, Redirected(t, g, i))
  <2>1. PICK j : j = g_redirection(t, i)
    OBVIOUS
  <2>2. Redirected(t, g, i) = IF j = NULL THEN i - 1 ELSE g[j + 1]["Redirected"]
    BY <2>1 DEF Redirected
  <2>3. CASE j = NULL
    BY <2>2, <2>3, RunEmpty
  <2>4. CASE j # NULL
    <3>1. j \in i..Len(t) /\ Same(t, i - 1, j)
      BY <2>1, <2>4, OneIs
    <3>2. Same(t, i - 1, g[j + 1]["Redirected"])
      BY <3>1, RunOn
    <3> QED
      BY <2>2, <2>4, <3>2
  <2> QED
    BY <2>3, <2>4
<1> QED
  BY <1>1, <1>2, <1>3

\* A simple command leaves open what was.
LEMMA SimpleIs ==
  ASSUME NEW t, Ended(t), NEW g, NEW i \in 1..Len(t)+1, Later(t, g, i)
  PROVE  Answer(t, i, g_simplecommand(t, g, i))
<1>0. Len(t) \in Nat /\ i - 1 \in 0..Len(t)
  BY EndedIs
<1>1. PICK p : p = PrefixRun(t, g, i)
  OBVIOUS
<1>2. Same(t, i - 1, p) /\ p \in i-1..Len(t)
  BY <1>1, RunsAre DEF Same
<1>3. p + 1 \in 1..Len(t)+1 /\ p + 1 >= i /\ (p + 1) - 1 = p
  BY <1>0, <1>2
<1>4. Later(t, g, p + 1)
  BY <1>0, <1>3, LaterOn
<1>5. PICK last : last = ElementRun(t, g, p + 1)
  OBVIOUS
<1>6. Same(t, p, last)
  BY <1>3, <1>4, <1>5, RunsAre
<1>7. Same(t, i - 1, last) /\ last \in 0..Len(t)
  BY <1>0, <1>2, <1>6, SameTrans
<1>8. g_simplecommand(t, g, i) = IF last < i THEN NULL ELSE last
  BY <1>1, <1>5 DEF g_simplecommand
<1> QED
  BY <1>0, <1>7, <1>8, NullIs DEF Answer

----------------------------------------------------------------------------
(* Loops (grammar_rule.c, grammar_group.c)                                 *)

\* Tokens that open, turn and close nothing
LEMMA PlainIs ==
  /\ \A x \in {"word", "in", ";", ";;", "nl", "eof", "(", ")", "|", "&", "&&", "||",
               "!", "function"} : x \in Plain /\ x \in Token
  /\ EndOf \subseteq Plain /\ Words \subseteq Plain /\ Separators \subseteq Plain
  /\ Words \subseteq Token /\ EndOf \subseteq Token /\ Separators \subseteq Token
BY DEF Plain, Token, Reserved, Special, Words, EndOf, Separators

\* One more token that opens nothing
LEMMA SameMore ==
  ASSUME NEW t, Ended(t), NEW i \in 0..Len(t), NEW j, Same(t, i, j), NEW x \in Plain \cap Token,
         At(t, j + 1) = x
  PROVE  Same(t, i, j + 1) /\ j + 1 \in 1..Len(t) /\ t[j + 1] = x
<1>1. Len(t) \in Nat /\ j \in Int
  BY EndedIs DEF Same
<1>2. j + 1 \in 1..Len(t) /\ t[j + 1] = x
  BY <1>1, AtOne
<1>3. Same(t, (j + 1) - 1, j + 1) /\ (j + 1) - 1 = j
  BY <1>1, <1>2, SameStep
<1> QED
  BY <1>2, <1>3, SameTrans

\* And newlines behind it
LEMMA SameSkip ==
  ASSUME NEW t, Ended(t), NEW i \in 0..Len(t), NEW j, Same(t, i, j), Skip(t, j + 1) # NULL
  PROVE  /\ Skip(t, j + 1) \in j+1..Len(t) /\ Skip(t, j + 1) \in 1..Len(t)
         /\ t[Skip(t, j + 1)] \notin EndOf
         /\ Same(t, i, Skip(t, j + 1) - 1) /\ Skip(t, j + 1) - 1 \in 0..Len(t)
<1>1. Len(t) \in Nat /\ j \in i..Len(t)
  BY EndedIs DEF Same
<1>2. j + 1 \in 1..Len(t)+1 /\ (j + 1) - 1 = j
  BY <1>1
<1>3. PICK p : p = Skip(t, j + 1)
  OBVIOUS
<1>4. /\ p \in j+1..Len(t) /\ p \in 1..Len(t) /\ t[p] \notin EndOf
      /\ Same(t, j, p - 1) /\ p - 1 \in 0..Len(t)
  BY <1>2, <1>3, SkipSame
<1>5. Same(t, i, p - 1)
  BY <1>4, SameTrans
<1> QED
  BY <1>3, <1>4, <1>5

\* The do behind the words of a loop, and the done that closes it
LEMMA DoGroupIs ==
  ASSUME NEW t, Ended(t), NEW g, NEW i \in 1..Len(t)+1, Later(t, g, i),
         NEW s \in Seq(Open), NEW x \in {"while", "until", "for"}, Is(t, i - 1, Append(s, x))
  PROVE  /\ g_dogroup(t, g, i) \in Int
         /\ g_dogroup(t, g, i) > 0 =>
              g_dogroup(t, g, i) \in i..Len(t) /\ Is(t, g_dogroup(t, g, i), s)
<1>0. Len(t) \in Nat /\ "do" \in Token /\ "done" \in Token
  BY EndedIs DEF Token, Reserved
<1>1. CASE At(t, i) # "do"
  BY <1>1, NullIs DEF g_dogroup
<1>2. CASE At(t, i) = "do"
  <2>1. i \in 1..Len(t) /\ i \in 0..Len(t) /\ t[i] = "do"
    BY <1>0, <1>2, AtOne
  <2>2. x \in Open /\ "do" \in Open /\ x \in Follows["do"] /\ "do" \in Follows["done"]
        /\ "done" \in Closers
    BY FollowsIs DEF Open, Token, Reserved, Closers
  <2>3. Is(t, i, Append(s, "do"))
    BY <2>1, <2>2, TurnsAt
  <2>4. PICK d : d = Enclosed(t, g, i, "done")
    OBVIOUS
  <2>5. d \in Int /\ (d > 0 => d \in i+1..Len(t) /\ t[d] = "done" /\ Same(t, i, d - 1))
    BY <1>0, <2>1, <2>4, EnclosedIs
  <2>6. g_dogroup(t, g, i) = d
    BY <1>2, <2>4 DEF g_dogroup
  <2>7. ASSUME d > 0 PROVE d \in i..Len(t) /\ Is(t, d, s)
    <3>1. Is(t, d - 1, Append(s, "do"))
      BY <2>1, <2>3, <2>5, <2>7, SameIs
    <3>2. d \in 1..Len(t) /\ d \in i..Len(t)
      BY <1>0, <2>1, <2>5, <2>7
    <3> QED
      BY <2>2, <2>5, <2>7, <3>1, <3>2, ClosesAt
  <2> QED
    BY <2>5, <2>6, <2>7
<1> QED
  BY <1>1, <1>2

\* A loop leaves open what was: the do takes the place of while, the done that of do.
LEMMA RuleLoopIs ==
  ASSUME NEW t, Ended(t), NEW g, NEW i \in 1..Len(t), Later(t, g, i), t[i] \in {"while", "until"}
  PROVE  Answer(t, i, g_ruleloop(t, g, i))
<1>0. Len(t) \in Nat /\ i \in 0..Len(t) /\ t[i] \in Openers
  BY EndedIs DEF Openers
<1>1. PICK s \in Seq(Open) : s = Marks(t)[i - 1] /\ Is(t, i, Append(s, t[i]))
  BY <1>0, OpensAt
<1>2. PICK j : j = g[i + 1]["g_compoundlist"]
  OBVIOUS
<1>3. j \in Int /\ (j > 0 => Same(t, i, j) /\ j \in i+1..Len(t))
  BY <1>0, <1>2, CompoundLater
<1>4. g_ruleloop(t, g, i) = IF j <= 0 THEN j ELSE g_dogroup(t, g, j + 1)
  BY <1>2 DEF g_ruleloop, Then
<1>5. CASE j <= 0
  BY <1>3, <1>4, <1>5 DEF Answer
<1>6. CASE j > 0
  <2>1. /\ j + 1 \in 1..Len(t)+1 /\ j + 1 >= i /\ (j + 1) - 1 = j /\ j + 1 \in Int
        /\ Is(t, j, Append(s, t[i]))
    BY <1>0, <1>1, <1>3, <1>6, SameIs
  <2>2. Later(t, g, j + 1)
    BY <1>0, <2>1, LaterOn
  <2>3. PICK d : d = g_dogroup(t, g, j + 1)
    OBVIOUS
  <2>4. d \in Int /\ (d > 0 => d \in j+1..Len(t) /\ Is(t, d, s))
    BY <2>1, <2>2, <2>3, DoGroupIs
  <2>5. d > 0 => d \in i-1..Len(t) /\ d >= i
    BY <1>0, <2>1, <2>4
  <2>6. g_ruleloop(t, g, i) = d
    BY <1>3, <1>4, <1>6, <2>3
  <2> QED
    BY <1>1, <2>4, <2>5, <2>6, IsSame DEF Answer
<1> QED
  BY <1>3, <1>5, <1>6

\* Nothing in the words of a for opens anything.
LEMMA ForWordsIs ==
  ASSUME NEW t, Ended(t), NEW i \in 1..Len(t), At(t, i + 1) = "word"
  PROVE  /\ ForWords(t, i) \in Int
         /\ ForWords(t, i) > 0 => ForWords(t, i) \in i+1..Len(t)+1 /\ Same(t, i, ForWords(t, i) - 1)
<1>0. Len(t) \in Nat /\ i \in 0..Len(t) /\ Same(t, i, i) /\ (i + 1) + 1 = i + 2
  BY EndedIs, SameSelf
<1>1. Same(t, i, i + 1) /\ i + 1 \in 1..Len(t)
  BY <1>0, PlainIs, SameMore
<1>2. i + 2 \in 1..Len(t)+1 /\ (i + 2) - 1 = i + 1 /\ (i + 2) + 1 = i + 3 /\ (i + 3) - 1 = i + 2
  BY <1>0, <1>1
<1>3. CASE At(t, i + 2) = ";"
  <2>1. Same(t, i, i + 2) /\ i + 2 \in 1..Len(t)
    BY <1>0, <1>1, <1>3, PlainIs, SameMore
  <2>2. ForWords(t, i) = i + 3
    BY <1>3 DEF ForWords
  <2>3. i + 3 \in i+1..Len(t)+1
    BY <1>0, <2>1
  <2> QED
    BY <1>2, <2>1, <2>2, <2>3
<1>4. CASE At(t, i + 2) # ";" /\ At(t, Skip(t, i + 2)) = "in"
  <2>1. PICK p : p = Skip(t, i + 2)
    OBVIOUS
  <2>2. PICK w : w = Past(t, p + 1, {"word"})
    OBVIOUS
  <2>3. ForWords(t, i) = IF At(t, w) \in {";", "nl"} THEN w + 1 ELSE NULL
    BY <1>4, <2>1, <2>2 DEF ForWords
  <2>4. CASE At(t, w) \notin {";", "nl"}
    <3>1. ForWords(t, i) = NULL
      BY <2>3, <2>4
    <3> QED
      BY <3>1, NullIs
  <2>5. CASE At(t, w) \in {";", "nl"}
    <3>1. p \in Int
      BY <1>2, <2>1, SkipTyped
    <3>2. p \in 1..Len(t) /\ t[p] = "in" /\ p # NULL
      <4>1. At(t, p) = "in" /\ "in" \in Token
        BY <1>4, <2>1, PlainIs
      <4>2. p \in 1..Len(t) /\ t[p] = "in"
        BY <3>1, <4>1, AtOne
      <4> QED
        BY <4>2, NullIs
    <3>3. Same(t, i, p - 1) /\ p - 1 \in 0..Len(t) /\ p >= i
      <4>1. p = Skip(t, (i + 1) + 1)
        BY <1>0, <2>1
      <4>2. p \in (i + 1) + 1..Len(t) /\ Same(t, i, p - 1) /\ p - 1 \in 0..Len(t)
        BY <1>0, <1>1, <3>2, <4>1, SameSkip
      <4> QED
        BY <1>0, <4>2
    <3>4. Same(t, i, (p - 1) + 1) /\ (p - 1) + 1 = p
      <4>1. (p - 1) + 1 = p /\ At(t, (p - 1) + 1) = "in" /\ "in" \in Plain \cap Token
        <5>1. (p - 1) + 1 = p
          BY <3>1
        <5>2. At(t, p) = "in" /\ "in" \in Plain \cap Token
          BY <1>4, <2>1, PlainIs
        <5> QED
          BY <5>1, <5>2
      <4> QED
        BY <1>0, <3>3, <4>1, SameMore
    <3>5. p + 1 \in 1..Len(t)+1 /\ (p + 1) - 1 = p
      BY <1>0, <3>2
    <3>6. w # NULL
      <4>1. At(t, 0) = "none"
        BY EndedIs DEF At
      <4> QED
        BY <2>5, <4>1, NullIs
    <3>7. {"word"} \subseteq Plain
      BY PlainIs
    <3>8. w \in p+1..Len(t) /\ Same(t, p, w - 1) /\ w - 1 \in 0..Len(t)
      BY <2>2, <3>5, <3>6, <3>7, PastSame
    <3>9. Same(t, i, w - 1)
      BY <1>0, <3>4, <3>8, SameTrans
    <3>10. (w - 1) + 1 = w /\ (w + 1) - 1 = w
      BY <3>8
    <3>11. Same(t, i, w)
      <4>1. PICK x : x = At(t, w)
        OBVIOUS
      <4>2. x \in Plain \cap Token
        BY <2>5, <4>1, PlainIs
      <4>3. Same(t, i, (w - 1) + 1)
        BY <1>0, <3>9, <3>10, <4>1, <4>2, SameMore
      <4> QED
        BY <3>10, <4>3
    <3>12. w + 1 \in i+1..Len(t)+1 /\ w + 1 \in Int
      BY <1>0, <3>2, <3>3, <3>8
    <3> QED
      BY <2>3, <2>5, <3>10, <3>11, <3>12
  <2> QED
    BY <2>4, <2>5
<1>5. CASE ~(At(t, i + 2) = ";") /\ ~(At(t, i + 2) # ";" /\ At(t, Skip(t, i + 2)) = "in")
  <2>1. PICK p : p = Skip(t, i + 2)
    OBVIOUS
  <2>2. ForWords(t, i) = p
    BY <1>5, <2>1 DEF ForWords
  <2>3. p \in Int
    BY <1>2, <2>1, SkipTyped
  <2>4. ASSUME p # NULL PROVE p \in i+1..Len(t)+1 /\ Same(t, i, p - 1)
    <3>1. p \in i+2..Len(t) /\ Same(t, i, p - 1)
      BY <1>0, <1>1, <1>2, <2>1, <2>4, SameSkip
    <3> QED
      BY <1>0, <3>1
  <2> QED
    BY <2>2, <2>3, <2>4, NullIs
<1> QED
  BY <1>3, <1>4, <1>5

\* A for leaves open what was, as the other loops do.
LEMMA RuleForIs ==
  ASSUME NEW t, Ended(t), NEW g, NEW i \in 1..Len(t), Later(t, g, i), t[i] = "for"
  PROVE  Answer(t, i, g_rulefor(t, g, i))
<1>0. Len(t) \in Nat /\ i \in 0..Len(t) /\ t[i] \in Openers
  BY EndedIs DEF Openers
<1>1. PICK s \in Seq(Open) : s = Marks(t)[i - 1] /\ Is(t, i, Append(s, "for"))
  BY <1>0, OpensAt
<1>2. CASE At(t, i + 1) # "word"
  BY <1>2, NullIs DEF g_rulefor, Answer
<1>3. CASE At(t, i + 1) = "word"
  <2>1. PICK j : j = ForWords(t, i)
    OBVIOUS
  <2>2. j \in Int /\ (j > 0 => j \in i+1..Len(t)+1 /\ Same(t, i, j - 1))
    BY <1>3, <2>1, ForWordsIs
  <2>3. PICK d : d = Skip(t, j)
    OBVIOUS
  <2>4. g_rulefor(t, g, i) = IF j <= 0 THEN j ELSE IF d <= 0 THEN d ELSE g_dogroup(t, g, d)
    BY <1>3, <2>1, <2>3 DEF g_rulefor, Then
  <2>5. CASE j <= 0
    BY <2>2, <2>4, <2>5 DEF Answer
  <2>6. CASE j > 0
    <3>1. j \in 1..Len(t)+1 /\ (j - 1) + 1 = j
      BY <1>0, <2>2, <2>6
    <3>2. d \in 0..Len(t)
      BY <2>3, <3>1, SkipTyped
    <3>3. CASE d = 0
      BY <2>2, <2>4, <2>6, <3>3 DEF Answer
    <3>4. CASE d # 0
      <4>1. d \in j..Len(t) /\ Same(t, i, d - 1)
        BY <1>0, <2>2, <2>3, <2>6, <3>1, <3>4, SameSkip, NullIs
      <4>2. d \in 1..Len(t)+1 /\ d >= i /\ Is(t, d - 1, Append(s, "for")) /\ d > 0
        BY <1>0, <1>1, <2>2, <2>6, <4>1, SameIs
      <4>3. Later(t, g, d)
        BY <1>0, <4>2, LaterOn
      <4>4. PICK e : e = g_dogroup(t, g, d)
        OBVIOUS
      <4>5. e \in Int /\ (e > 0 => e \in d..Len(t) /\ Is(t, e, s))
        BY <4>2, <4>3, <4>4, DoGroupIs
      <4>6. e > 0 => e \in i-1..Len(t) /\ e >= i
        BY <1>0, <4>2, <4>5
      <4>7. g_rulefor(t, g, i) = e
        BY <2>2, <2>4, <2>6, <4>2, <4>4
      <4> QED
        BY <1>1, <4>5, <4>6, <4>7, IsSame DEF Answer
    <3> QED
      BY <3>3, <3>4
  <2> QED
    BY <2>2, <2>5, <2>6
<1> QED
  BY <1>2, <1>3

----------------------------------------------------------------------------
(* if (grammar_rule.c)                                                     *)

\* The condition between an if or elif and its then
LEMMA ThenIs ==
  ASSUME NEW t, Ended(t), NEW g, NEW i \in 1..Len(t), Later(t, g, i),
         NEW s \in Seq(Open), NEW x \in {"if", "elif"}, Is(t, i, Append(s, x))
  PROVE  /\ Enclosed(t, g, i, "then") \in Int
         /\ Enclosed(t, g, i, "then") > 0 =>
              /\ Enclosed(t, g, i, "then") \in i+1..Len(t)
              /\ Is(t, Enclosed(t, g, i, "then"), Append(s, "then"))
<1>0. Len(t) \in Nat /\ i \in 0..Len(t) /\ "then" \in Token /\ x \in Open /\ x \in Follows["then"]
  BY EndedIs, FollowsIs DEF Token, Reserved, Open
<1>1. PICK j : j = Enclosed(t, g, i, "then")
  OBVIOUS
<1>2. j \in Int /\ (j > 0 => j \in i+1..Len(t) /\ t[j] = "then" /\ Same(t, i, j - 1))
  BY <1>0, <1>1, EnclosedIs
<1>3. ASSUME j > 0 PROVE Is(t, j, Append(s, "then"))
  <2>1. j \in 1..Len(t) /\ Is(t, j - 1, Append(s, x))
    BY <1>0, <1>2, <1>3, SameIs
  <2> QED
    BY <1>0, <1>2, <1>3, <2>1, TurnsAt
<1> QED
  BY <1>1, <1>2, <1>3

\* The rest of a branch: its commands and an else, or none
LEMMA BranchIs ==
  ASSUME NEW t, Ended(t), NEW g, NEW i \in 1..Len(t), Later(t, g, i),
         NEW s \in Seq(Open), Is(t, i, Append(s, "then")),
         g[i + 1]["g_compoundlist"] > 0
  PROVE  LET b == g[i + 1]["g_compoundlist"]
             e == Else(g[b + 1]["g_elseclause"], b)
         IN /\ e \in Int
            /\ e > 0 => e \in i+1..Len(t) /\ \E x \in {"then", "else"} : Is(t, e, Append(s, x))
<1> DEFINE b == g[i + 1]["g_compoundlist"]
           c == g[b + 1]["g_elseclause"]
<1>0. Len(t) \in Nat /\ i \in 0..Len(t)
  BY EndedIs
<1>1. b \in i+1..Len(t) /\ Same(t, i, b)
  BY <1>0, CompoundLater
<1> HIDE DEF b
<1>2. b + 1 \in i+1..Len(t)+1 /\ (b + 1) - 1 = b /\ Is(t, b, Append(s, "then"))
  BY <1>0, <1>1, SameIs
<1>3. Branches(t, b + 1, c)
  BY <1>2 DEF Later, Fine
<1> HIDE DEF c
<1>4. c \in Int
      /\ (c > 0 => c \in b+1..Len(t) /\ \E x \in {"then", "else"} : Is(t, c, Append(s, x)))
  BY <1>2, <1>3 DEF Branches
<1>5. CASE c = NULL
  BY <1>1, <1>2, <1>5 DEF Else, b, c
<1>6. CASE c # NULL
  <2>1. Else(c, b) = c
    BY <1>6 DEF Else
  <2>2. c > 0 => c \in i+1..Len(t)
    BY <1>0, <1>1, <1>4
  <2> QED
    BY <1>4, <2>1, <2>2 DEF b, c
<1> QED
  BY <1>5, <1>6

\* An else, or an elif with the branches behind it
LEMMA ElseIs ==
  ASSUME NEW t, Ended(t), NEW g, NEW i \in 1..Len(t)+1, Later(t, g, i)
  PROVE  Branches(t, i, g_elseclause(t, g, i))
<1>0. Len(t) \in Nat /\ "else" \in Token /\ "elif" \in Token /\ "then" \in Open
  BY EndedIs DEF Token, Reserved, Open
<1>1. CASE At(t, i) = "else"
  <2>1. i \in 1..Len(t) /\ i \in 0..Len(t) /\ t[i] = "else" /\ "then" \in Follows["else"]
    BY <1>0, <1>1, AtOne, FollowsIs
  <2>2. PICK j : j = g[i + 1]["g_compoundlist"]
    OBVIOUS
  <2>3. j \in Int /\ (j > 0 => Same(t, i, j) /\ j \in i+1..Len(t))
    BY <2>1, <2>2, CompoundLater
  <2>4. g_elseclause(t, g, i) = j
    BY <1>1, <2>2 DEF g_elseclause
  <2>5. ASSUME j > 0, NEW s \in Seq(Open), Is(t, i - 1, Append(s, "then"))
        PROVE  Is(t, j, Append(s, "else"))
    <3>1. Is(t, i, Append(s, "else"))
      BY <1>0, <2>1, <2>5, TurnsAt
    <3> QED
      BY <2>1, <2>3, <2>5, <3>1, SameIs
  <2>6. j > 0 => j \in i..Len(t)
    BY <1>0, <2>1, <2>3
  <2> QED
    BY <2>3, <2>4, <2>5, <2>6 DEF Branches
<1>2. CASE At(t, i) = "elif"
  <2>1. i \in 1..Len(t) /\ i \in 0..Len(t) /\ t[i] = "elif" /\ "then" \in Follows["elif"]
    BY <1>0, <1>2, AtOne, FollowsIs
  <2>2. PICK j : j = Enclosed(t, g, i, "then")
    OBVIOUS
  <2>3. PICK b : b = g[j + 1]["g_compoundlist"]
    OBVIOUS
  <2>4. PICK e : e = Else(g[b + 1]["g_elseclause"], b)
    OBVIOUS
  <2>5. g_elseclause(t, g, i) = IF j <= 0 THEN j ELSE IF b <= 0 THEN b ELSE e
    BY <1>2, <2>2, <2>3, <2>4 DEF g_elseclause, Then
  <2>6. j \in Int /\ (j > 0 => j \in i+1..Len(t))
    BY <1>0, <2>1, <2>2, EnclosedIs DEF Token, Reserved
  <2>7. CASE j <= 0
    BY <2>5, <2>6, <2>7 DEF Branches
  <2>8. CASE j > 0
    <3>1. j \in 1..Len(t) /\ j \in 0..Len(t) /\ j >= i /\ j \in Int
      BY <1>0, <2>1, <2>6, <2>8
    <3>2. Later(t, g, j)
      BY <1>0, <2>1, <3>1, LaterOn
    <3>3. b \in Int
      BY <2>3, <3>1, <3>2, CompoundLater
    <3>4. CASE b <= 0
      <4>1. g_elseclause(t, g, i) = b /\ ~(b > 0)
        BY <2>5, <2>6, <2>8, <3>3, <3>4
      <4> QED
        BY <3>3, <4>1 DEF Branches
    <3>5. CASE b > 0
      <4>1. g_elseclause(t, g, i) = e
        BY <2>5, <2>6, <2>8, <3>3, <3>5
      <4>2. e \in Int /\ (e > 0 => e \in i..Len(t))
        <5>1. b \in j+1..Len(t)
          BY <2>3, <3>1, <3>2, <3>5, CompoundLater
        <5>2. b + 1 \in j+1..Len(t)+1
          BY <1>0, <3>1, <5>1
        <5>3. PICK c : c = g[b + 1]["g_elseclause"]
          OBVIOUS
        <5>4. Branches(t, b + 1, c)
          BY <3>2, <5>2, <5>3 DEF Later, Fine
        <5>5. c \in Int /\ (c > 0 => c \in b+1..Len(t))
          BY <5>4 DEF Branches
        <5>6. e = IF c = NULL THEN b ELSE c
          BY <2>4, <5>3 DEF Else
        <5> QED
          BY <1>0, <3>1, <5>1, <5>5, <5>6
      <4>3. ASSUME e > 0, NEW s \in Seq(Open), Is(t, i - 1, Append(s, "then"))
            PROVE  \E x \in {"then", "else"} : Is(t, e, Append(s, x))
        <5>1. Is(t, i, Append(s, "elif"))
          BY <1>0, <2>1, <4>3, TurnsAt
        <5>2. Is(t, j, Append(s, "then"))
          BY <2>1, <2>2, <2>8, <5>1, ThenIs
        <5> QED
          BY <2>3, <2>4, <3>1, <3>2, <3>5, <4>3, <5>2, BranchIs
      <4> QED
        BY <4>1, <4>2, <4>3 DEF Branches
    <3> QED
      BY <3>3, <3>4, <3>5
  <2> QED
    BY <2>6, <2>7, <2>8
<1>3. CASE At(t, i) # "else" /\ At(t, i) # "elif"
  <2>1. g_elseclause(t, g, i) = NULL
    BY <1>3 DEF g_elseclause
  <2> QED
    BY <2>1, NullIs DEF Branches
<1> QED
  BY <1>1, <1>2, <1>3

\* An if leaves open what was: its words take each other's place up to the fi.
LEMMA RuleIfIs ==
  ASSUME NEW t, Ended(t), NEW g, NEW i \in 1..Len(t), Later(t, g, i), t[i] = "if"
  PROVE  Answer(t, i, g_ruleif(t, g, i))
<1>0. Len(t) \in Nat /\ i \in 0..Len(t) /\ t[i] \in Openers /\ "fi" \in Token /\ "fi" \in Closers
  BY EndedIs DEF Openers, Token, Reserved, Closers
<1>1. PICK s \in Seq(Open) : s = Marks(t)[i - 1] /\ Is(t, i, Append(s, "if"))
  BY <1>0, OpensAt
<1>2. PICK j : j = Enclosed(t, g, i, "then")
  OBVIOUS
<1>3. PICK b : b = g[j + 1]["g_compoundlist"]
  OBVIOUS
<1>4. PICK e : e = Else(g[b + 1]["g_elseclause"], b)
  OBVIOUS
<1>5. g_ruleif(t, g, i) = IF j <= 0 THEN j ELSE IF b <= 0 THEN b ELSE IF e <= 0 THEN e
                          ELSE IF At(t, e + 1) = "fi" THEN e + 1 ELSE NULL
  BY <1>2, <1>3, <1>4 DEF g_ruleif, Then
<1>6. j \in Int /\ (j > 0 => j \in i+1..Len(t) /\ Is(t, j, Append(s, "then")))
  BY <1>1, <1>2, ThenIs
<1>7. CASE j <= 0
  BY <1>5, <1>6, <1>7 DEF Answer
<1>8. CASE j > 0
  <2>1. j \in 1..Len(t) /\ j \in 0..Len(t) /\ j >= i /\ j \in Int
    BY <1>0, <1>6, <1>8
  <2>2. Later(t, g, j)
    BY <1>0, <2>1, LaterOn
  <2>3. b \in Int
    BY <1>3, <2>1, <2>2, CompoundLater
  <2>4. CASE b <= 0
    <3>1. g_ruleif(t, g, i) = b /\ ~(b > 0)
      BY <1>5, <1>6, <1>8, <2>3, <2>4
    <3> QED
      BY <2>3, <3>1 DEF Answer
  <2>5. CASE b > 0
    <3>1. e \in Int
          /\ (e > 0 => e \in j+1..Len(t) /\ \E x \in {"then", "else"} : Is(t, e, Append(s, x)))
      BY <1>3, <1>4, <1>6, <1>8, <2>1, <2>2, <2>5, BranchIs
    <3>2. CASE e <= 0
      <4>1. g_ruleif(t, g, i) = e /\ ~(e > 0)
        BY <1>5, <1>6, <1>8, <2>3, <2>5, <3>1, <3>2
      <4> QED
        BY <3>1, <4>1 DEF Answer
    <3>3. CASE e > 0 /\ At(t, e + 1) # "fi"
      <4>1. g_ruleif(t, g, i) = NULL
        BY <1>5, <1>6, <1>8, <2>3, <2>5, <3>1, <3>3
      <4> QED
        BY <4>1, NullIs DEF Answer
    <3>4. CASE e > 0 /\ At(t, e + 1) = "fi"
      <4>1. g_ruleif(t, g, i) = e + 1
        BY <1>5, <1>6, <1>8, <2>3, <2>5, <3>1, <3>4
      <4>2. e + 1 \in 1..Len(t) /\ t[e + 1] = "fi" /\ (e + 1) - 1 = e
        BY <1>0, <3>1, <3>4, AtOne
      <4>3. PICK x \in {"then", "else"} : Is(t, e, Append(s, x))
        BY <3>1, <3>4
      <4>4. x \in Open /\ x \in Follows["fi"]
        BY FollowsIs DEF Open, Token, Reserved
      <4>5. Is(t, e + 1, s)
        BY <1>0, <4>2, <4>3, <4>4, ClosesAt
      <4>6. e + 1 \in i-1..Len(t) /\ e + 1 >= i /\ e + 1 \in Int
        BY <1>0, <2>1, <3>1, <3>4, <4>2
      <4> QED
        BY <1>1, <4>1, <4>5, <4>6, IsSame DEF Answer
    <3> QED
      BY <3>1, <3>2, <3>3, <3>4
  <2> QED
    BY <2>3, <2>4, <2>5
<1> QED
  BY <1>6, <1>7, <1>8

----------------------------------------------------------------------------
(* case (grammar_rule.c)                                                   *)

\* Where the places are
LEMMA SameBounds ==
  ASSUME NEW t, Ended(t), NEW i \in Int, i >= 0, NEW j, Same(t, i, j)
  PROVE  i \in 0..Len(t) /\ j \in 0..Len(t) /\ j >= i /\ j \in Int
BY EndedIs DEF Same

\* The patterns of a clause open nothing.
LEMMA PatternsIs ==
  ASSUME NEW t, Ended(t), NEW g, NEW i \in 1..Len(t), Later(t, g, i)
  PROVE  Same(t, i, Patterns(t, g, i))
<1>0. Len(t) \in Nat /\ i \in 0..Len(t) /\ Same(t, i, i) /\ (i + 1) + 1 = i + 2
  BY EndedIs, SameSelf
<1>1. CASE At(t, i + 1) = "|" /\ At(t, i + 2) \in {"word", "function"}
  <2>1. Same(t, i, i + 1)
    BY <1>0, <1>1, PlainIs, SameMore
  <2>2. Same(t, i, i + 2) /\ i + 2 \in 1..Len(t)
    BY <1>0, <1>1, <2>1, PlainIs, SameMore
  <2>3. i + 2 \in i+1..Len(t)+1 /\ i + 2 <= Len(t)
    BY <1>0, <2>2
  <2>4. Same(t, i + 2, g[i + 2]["Patterns"])
    BY <2>3 DEF Later, Fine
  <2>5. Same(t, i, g[i + 2]["Patterns"])
    BY <1>0, <2>2, <2>4, SameTrans
  <2> QED
    BY <1>1, <2>5 DEF Patterns
<1>2. CASE ~(At(t, i + 1) = "|" /\ At(t, i + 2) \in {"word", "function"})
  BY <1>0, <1>2 DEF Patterns
<1> QED
  BY <1>1, <1>2

\* A clause leaves open what was,
LEMMA CaseItemIs ==
  ASSUME NEW t, Ended(t), NEW g, NEW i \in 1..Len(t)+1, Later(t, g, i)
  PROVE  Answer(t, i, g_caseitem(t, g, i))
<1>0. Len(t) \in Nat /\ i - 1 \in 0..Len(t) /\ (i - 1) + 1 = i /\ Same(t, i - 1, i - 1)
  BY EndedIs, RunEmpty
<1>1. PICK first : first = IF At(t, i) = "(" THEN i + 1 ELSE i
  OBVIOUS
<1>2. PICK close : close = Patterns(t, g, first) + 1
  OBVIOUS
<1>3. PICK rest : rest = Past(t, close + 1, {"nl"})
  OBVIOUS
<1>4. PICK p : p = Skip(t, close + 1)
  OBVIOUS
<1>5. PICK c : c = g[rest]["g_compoundlist"]
  OBVIOUS
<1>6. g_caseitem(t, g, i) =
        IF At(t, first) \notin Words \/ At(t, close) # ")" THEN NULL
        ELSE IF c = NULL THEN (IF p = NULL THEN rest - 1 ELSE p - 1) ELSE c
  BY <1>1, <1>2, <1>3, <1>4, <1>5 DEF g_caseitem, Else
<1>7. CASE At(t, first) \notin Words \/ At(t, close) # ")"
  <2>1. g_caseitem(t, g, i) = NULL
    BY <1>6, <1>7
  <2> QED
    BY <2>1, NullIs DEF Answer
<1>8. CASE At(t, first) \in Words /\ At(t, close) = ")"
  <2>1. first \in Int /\ first >= i
    BY <1>1
  <2>2. first \in 1..Len(t) /\ t[first] \in Plain
    <3>1. At(t, first) \in Token /\ At(t, first) \in Plain
      BY <1>8, PlainIs
    <3> QED
      BY <2>1, <3>1, AtOne
  <2>3. Same(t, i - 1, first)
    <3>1. Same(t, i - 1, first - 1)
      <4>1. CASE At(t, i) = "("
        <5>1. Same(t, i - 1, i)
          BY <1>0, <4>1, PlainIs, SameMore
        <5> QED
          BY <1>1, <4>1, <5>1
      <4>2. CASE At(t, i) # "("
        BY <1>0, <1>1, <4>2
      <4> QED
        BY <4>1, <4>2
    <3>2. Same(t, first - 1, first)
      BY <2>2, SameStep
    <3> QED
      BY <1>0, <3>1, <3>2, SameTrans
  <2>4. Later(t, g, first)
    BY <1>0, <2>1, LaterOn
  <2>5. close - 1 = Patterns(t, g, first) /\ close \in Int /\ Same(t, i - 1, close - 1)
    <3>1. PICK q : q = Patterns(t, g, first)
      OBVIOUS
    <3>2. Same(t, first, q)
      BY <2>2, <2>4, <3>1, PatternsIs
    <3>3. Same(t, i - 1, q) /\ q \in 0..Len(t)
      BY <1>0, <2>3, <3>2, SameTrans
    <3>4. q + 1 - 1 = q /\ q + 1 \in Int
      BY <3>3
    <3> QED
      BY <1>2, <3>1, <3>3, <3>4, SMTT(40)
  <2>6. Same(t, i - 1, close) /\ close \in 1..Len(t) /\ t[close] = ")"
    <3>1. (close - 1) + 1 = close
      BY <2>5
    <3> QED
      BY <1>0, <1>8, <2>5, <3>1, PlainIs, SameMore
  <2>7. close >= i /\ close + 1 \in 1..Len(t) /\ close + 1 \in 1..Len(t)+1
        /\ (close + 1) - 1 = close
    <3>1. close >= i
      <4>1. close - 1 >= first
        <5>1. Same(t, first, close - 1)
          BY <2>2, <2>4, <2>5, PatternsIs
        <5> QED
          BY <2>1, <5>1 DEF Same
      <4> QED
        BY <2>1, <2>5, <4>1
    <3>2. close + 1 \in 1..Len(t)
      BY <2>6, NotLast
    <3> QED
      BY <1>0, <2>5, <3>1, <3>2
  <2>8. rest # NULL
    <3>1. t[Len(t)] = "eof" /\ Len(t) \in close+1..Len(t)
      BY <1>0, <2>7, EndedIs
    <3> QED
      BY <1>0, <1>3, <2>7, <3>1, PastIs, NullIs
  <2>9. rest \in close+1..Len(t) /\ Same(t, close, rest - 1) /\ rest - 1 \in 0..Len(t)
    <3>1. {"nl"} \subseteq Plain
      BY PlainIs
    <3> QED
      BY <1>3, <2>7, <2>8, <3>1, PastSame
  <2>10. Same(t, i - 1, rest - 1) /\ rest - 1 >= i /\ rest - 1 \in Int /\ (rest - 1) + 1 = rest
    <3>1. Same(t, i - 1, rest - 1)
      BY <1>0, <2>6, <2>9, SameTrans
    <3> QED
      BY <2>5, <2>7, <2>9, <3>1
  <2>11. CASE c = NULL /\ p = NULL
    <3>1. g_caseitem(t, g, i) = rest - 1
      BY <1>6, <1>8, <2>11
    <3> QED
      BY <2>10, <3>1 DEF Answer
  <2>12. CASE c = NULL /\ p # NULL
    <3>1. g_caseitem(t, g, i) = p - 1
      BY <1>6, <1>8, <2>12
    <3>2. Same(t, close, p - 1) /\ p \in close+1..Len(t)
      BY <1>4, <2>7, <2>12, SkipSame
    <3>3. Same(t, i - 1, p - 1)
      BY <1>0, <2>6, <3>2, SameTrans
    <3>4. p - 1 \in Int /\ p - 1 >= i
      BY <2>5, <2>7, <3>2
    <3> QED
      BY <3>1, <3>3, <3>4 DEF Answer
  <2>13. CASE c # NULL
    <3>1. g_caseitem(t, g, i) = c
      BY <1>6, <1>8, <2>13
    <3>2. Later(t, g, rest - 1)
      BY <1>0, <2>10, LaterOn
    <3>3. c \in Int /\ (c > 0 => Same(t, rest - 1, c) /\ c \in (rest - 1) + 1..Len(t))
      BY <1>5, <2>9, <2>10, <3>2, CompoundLater
    <3>4. c > 0 => Same(t, i - 1, c) /\ c >= i
      BY <1>0, <2>10, <3>3, SameTrans
    <3> QED
      BY <3>1, <3>3, <3>4 DEF Answer
  <2> QED
    BY <2>11, <2>12, <2>13
<1> QED
  BY <1>7, <1>8

\* A rule that starts where what is open is still the same
LEMMA AnswerOn ==
  ASSUME NEW t, Ended(t), NEW i \in 0..Len(t), NEW j \in Int, Same(t, i, j - 1),
         NEW k, Answer(t, j, k), k > 0
  PROVE  Same(t, i, k) /\ k >= j /\ k \in 1..Len(t)
<1>1. Same(t, j - 1, k) /\ k >= j /\ k \in Int
  BY DEF Answer
<1>2. Same(t, i, k) /\ k \in 0..Len(t)
  BY <1>1, SameTrans
<1> QED
  BY <1>1, <1>2

\* What is not a place is an answer, too.
LEMMA AnswerNone ==
  ASSUME NEW t, NEW i, NEW j \in Int, j <= 0
  PROVE  Answer(t, i, j) /\ Onward(t, i, j)
BY DEF Answer, Onward

\* Behind a rule, a loop that goes on from there
LEMMA AnswerLoop ==
  ASSUME NEW t, Ended(t), NEW i \in 0..Len(t), NEW g, Later(t, g, i), NEW j, Same(t, i, j), j > i,
         NEW r \in {"Piped", "AndOr", "CompoundItems", "CaseItems"}
  PROVE  Onward(t, i, g[j][r])
<1>1. Len(t) \in Nat /\ j \in i..Len(t)
  BY EndedIs DEF Same
<1>2. j \in i+1..Len(t)+1 /\ j <= Len(t) /\ j \in 0..Len(t)
  BY <1>1
<1>3. Onward(t, j, g[j][r])
  BY <1>2 DEF Later, Fine
<1>4. PICK k : k = g[j][r]
  OBVIOUS
<1>5. k \in Int /\ (k > 0 => Same(t, j, k))
  BY <1>3, <1>4 DEF Onward
<1>6. k > 0 => Same(t, i, k)
  BY <1>5, SameTrans
<1> QED
  BY <1>4, <1>5, <1>6 DEF Onward

\* and so do the clauses behind it,
LEMMA CaseItemsIs ==
  ASSUME NEW t, Ended(t), NEW g, NEW i \in 1..Len(t), Later(t, g, i)
  PROVE  Onward(t, i, CaseItems(t, g, i))
<1>0. Len(t) \in Nat /\ i \in 0..Len(t) /\ Same(t, i, i) /\ (i + 1) + 1 = i + 2
  BY EndedIs, SameSelf
<1>1. PICK next : next = Skip(t, i + 2)
  OBVIOUS
<1>2. PICK item : item = g_caseitem(t, g, next)
  OBVIOUS
<1>3. PICK more : more = g[item]["CaseItems"]
  OBVIOUS
<1>4. At(t, i + 1) = ";;" =>
        CaseItems(t, g, i) =
          IF next <= 0 THEN next
          ELSE IF item = NULL THEN next - 1 ELSE IF item <= 0 THEN item ELSE more
  BY <1>1, <1>2, <1>3 DEF CaseItems, Then, ThenOr
<1>5. CASE At(t, i + 1) # ";;"
  <2>1. CaseItems(t, g, i) = NULL
    BY <1>5 DEF CaseItems
  <2> QED
    BY <2>1, NullIs, AnswerNone
<1>6. CASE At(t, i + 1) = ";;"
  <2>1. Same(t, i, i + 1) /\ i + 1 \in 1..Len(t)
    BY <1>0, <1>6, PlainIs, SameMore
  <2>2. next \in Int
    <3>1. i + 2 \in 1..Len(t)+1
      BY <1>0, <2>1
    <3> QED
      BY <1>1, <3>1, SkipTyped
  <2>3. CASE next <= 0
    <3>1. CaseItems(t, g, i) = next
      BY <1>4, <1>6, <2>3
    <3> QED
      BY <2>2, <2>3, <3>1, AnswerNone
  <2>4. CASE next > 0
    <3>1. next \in i+2..Len(t) /\ next \in 1..Len(t) /\ Same(t, i, next - 1)
      BY <1>0, <1>1, <2>1, <2>2, <2>4, SameSkip, NullIs
    <3>2. next \in 1..Len(t)+1 /\ next >= i /\ next > i
      BY <1>0, <3>1
    <3>3. Answer(t, next, item)
      <4>1. Later(t, g, next)
        BY <1>0, <2>2, <3>2, LaterOn
      <4> QED
        BY <1>2, <3>2, <4>1, CaseItemIs
    <3>4. item \in Int
      BY <3>3 DEF Answer
    <3>5. CASE item = NULL
      <4>0. ~(next <= 0) /\ next - 1 \in Int
        BY <2>2, <2>4
      <4>1. CaseItems(t, g, i) = next - 1 /\ next - 1 \in Int
        BY <1>4, <1>6, <3>5, <4>0, Zenon
      <4> QED
        BY <3>1, <4>1 DEF Onward
    <3>6. CASE item # NULL /\ item <= 0
      <4>0. ~(next <= 0)
        BY <2>2, <2>4
      <4>1. CaseItems(t, g, i) = item
        BY <1>4, <1>6, <3>6, <4>0, Zenon
      <4> QED
        BY <3>4, <3>6, <4>1, AnswerNone
    <3>7. CASE item > 0
      <4>0. ~(next <= 0) /\ item # NULL /\ ~(item <= 0)
        BY <2>2, <2>4, <3>4, <3>7, NullIs
      <4>1. CaseItems(t, g, i) = more
        BY <1>4, <1>6, <4>0, Zenon
      <4>2. Same(t, i, item) /\ item >= next
        BY <1>0, <2>2, <3>1, <3>3, <3>7, AnswerOn
      <4>3. item > i
        BY <1>0, <2>2, <3>2, <3>4, <4>2
      <4> QED
        BY <1>0, <1>3, <4>1, <4>2, <4>3, AnswerLoop
    <3> QED
      BY <3>4, <3>5, <3>6, <3>7, NullIs
  <2> QED
    BY <2>2, <2>3, <2>4
<1> QED
  BY <1>5, <1>6

\* and all clauses of a case.
LEMMA CaseClauseIs ==
  ASSUME NEW t, Ended(t), NEW g, NEW i \in 1..Len(t)+1, Later(t, g, i)
  PROVE  Answer(t, i, g_caseclause(t, g, i))
<1>0. Len(t) \in Nat /\ i - 1 \in 0..Len(t) /\ Same(t, i - 1, i - 1)
  BY EndedIs, RunEmpty
<1>1. PICK j : j = g_caseitem(t, g, i)
  OBVIOUS
<1>2. Answer(t, i, j) /\ j \in Int
  BY <1>1, CaseItemIs DEF Answer
<1>3. g_caseclause(t, g, i) = IF j <= 0 THEN j ELSE CaseItems(t, g, j)
  BY <1>1 DEF g_caseclause, Then
<1>4. CASE j <= 0
  BY <1>2, <1>3, <1>4
<1>5. CASE j > 0
  <2>1. Same(t, i - 1, j) /\ j >= i /\ j \in 1..Len(t)
    BY <1>0, <1>2, <1>5, AnswerOn, SMTT(40)
  <2>2. Later(t, g, j)
    BY <1>0, <1>2, <2>1, LaterOn
  <2>3. PICK k : k = CaseItems(t, g, j)
    OBVIOUS
  <2>4. k \in Int /\ (k > 0 => Same(t, j, k))
    BY <2>1, <2>2, <2>3, CaseItemsIs DEF Onward
  <2>5. k > 0 => Same(t, i - 1, k) /\ k >= i
    <3> SUFFICES ASSUME k > 0 PROVE Same(t, i - 1, k) /\ k >= i
      OBVIOUS
    <3>1. Same(t, j, k)
      BY <2>4
    <3>2. Same(t, i - 1, k)
      BY <1>0, <2>1, <3>1, SameTrans
    <3> QED
      BY <1>0, <1>2, <2>1, <3>1, <3>2 DEF Same
  <2> QED
    BY <1>3, <1>2, <1>5, <2>3, <2>4, <2>5 DEF Answer
<1> QED
  BY <1>2, <1>4, <1>5

\* A case leaves open what was. Without a clause, what stands before esac is a `;;'.
LEMMA RuleCaseIs ==
  ASSUME NEW t, Ended(t), NEW g, NEW i \in 1..Len(t), Later(t, g, i), t[i] = "case"
  PROVE  Answer(t, i, g_rulecase(t, g, i))
<1>0. /\ Len(t) \in Nat /\ i \in 0..Len(t) /\ t[i] \in Openers
      /\ "esac" \in Token /\ "esac" \in Closers
      /\ Same(t, i, i) /\ (i + 1) + 1 = i + 2
  BY EndedIs, SameSelf DEF Openers, Token, Reserved, Closers
<1>1. PICK s \in Seq(Open) : s = Marks(t)[i - 1] /\ Is(t, i, Append(s, "case"))
  BY <1>0, OpensAt
<1>2. PICK in : in = Skip(t, i + 2)
  OBVIOUS
<1>3. PICK first : first = Skip(t, in + 1)
  OBVIOUS
<1>4. PICK c : c = g_caseclause(t, g, first)
  OBVIOUS
<1>5. PICK k : k = IF c = NULL THEN first ELSE c
  OBVIOUS
<1>6. g_rulecase(t, g, i) =
        IF At(t, i + 1) # "word" THEN NULL
        ELSE IF in <= 0 THEN in ELSE IF t[in] # "in" THEN NULL
        ELSE IF first <= 0 THEN first ELSE IF k <= 0 THEN k
        ELSE IF At(t, k + 1) = "esac" THEN k + 1 ELSE NULL
  BY <1>2, <1>3, <1>4, <1>5 DEF g_rulecase, Then, Else
<1>7. CASE At(t, i + 1) # "word"
  BY <1>6, <1>7, NullIs, AnswerNone
<1>8. CASE At(t, i + 1) = "word"
  <2>1. Same(t, i, i + 1) /\ i + 1 \in 1..Len(t) /\ i + 2 \in 1..Len(t)+1
    <3>1. Same(t, i, i + 1) /\ i + 1 \in 1..Len(t)
      BY <1>0, <1>8, PlainIs, SameMore
    <3> QED
      BY <1>0, <3>1
  <2>2. in \in Int
    BY <1>2, <2>1, SkipTyped
  <2>3. CASE in <= 0
    <3>1. g_rulecase(t, g, i) = in
      BY <1>6, <1>8, <2>3
    <3> QED
      BY <2>2, <2>3, <3>1, AnswerNone
  <2>4. CASE in > 0 /\ t[in] # "in"
    <3>1. g_rulecase(t, g, i) = NULL
      BY <1>6, <1>8, <2>2, <2>4
    <3> QED
      BY <3>1, NullIs, AnswerNone
  <2>5. CASE in > 0 /\ t[in] = "in"
    <3>1. in \in i+2..Len(t) /\ in \in 1..Len(t) /\ Same(t, i, in - 1)
      <4>1. in = Skip(t, (i + 1) + 1) /\ in # NULL
        BY <1>0, <1>2, <2>2, <2>5, NullIs
      <4>2. in \in (i + 1) + 1..Len(t) /\ in \in 1..Len(t) /\ Same(t, i, in - 1)
        BY <1>0, <2>1, <4>1, SameSkip
      <4> QED
        BY <1>0, <4>2
    <3>2. Same(t, i, in) /\ in + 1 \in 1..Len(t)+1
      <4>1. Same(t, in - 1, in)
        BY <2>5, <3>1, PlainIs, SameStep
      <4>2. Same(t, i, in)
        BY <1>0, <3>1, <4>1, SameTrans
      <4> QED
        BY <1>0, <3>1, <4>2
    <3>3. first \in Int
      BY <1>3, <3>2, SkipTyped
    <3>4. CASE first <= 0
      <4>1. g_rulecase(t, g, i) = first
        BY <1>6, <1>8, <2>2, <2>5, <3>4
      <4> QED
        BY <3>3, <3>4, <4>1, AnswerNone
    <3>5. CASE first > 0
      <4>1. /\ first \in in+1..Len(t) /\ first \in 1..Len(t) /\ Same(t, i, first - 1)
            /\ t[first] \notin EndOf
        BY <1>0, <1>3, <3>2, <3>3, <3>5, SameSkip, NullIs
      <4>2. first \in 1..Len(t)+1 /\ first > i
        BY <1>0, <3>1, <4>1
      <4>3. Answer(t, first, c)
        <5>1. Later(t, g, first)
          BY <1>0, <3>3, <4>2, LaterOn
        <5> QED
          BY <1>4, <4>2, <5>1, CaseClauseIs
      <4>4. c \in Int /\ k \in Int
        BY <1>5, <3>3, <4>3 DEF Answer
      <4>5. CASE k <= 0
        <5>1. g_rulecase(t, g, i) = k
          BY <1>6, <1>8, <2>2, <2>5, <3>3, <3>5, <4>5
        <5> QED
          BY <4>4, <4>5, <5>1, AnswerNone
      <4>6. CASE k > 0 /\ At(t, k + 1) # "esac"
        <5>1. g_rulecase(t, g, i) = NULL
          BY <1>6, <1>8, <2>2, <2>5, <3>3, <3>5, <4>4, <4>6
        <5> QED
          BY <5>1, NullIs, AnswerNone
      <4>7. CASE k > 0 /\ At(t, k + 1) = "esac"
        <5>1. g_rulecase(t, g, i) = k + 1
          BY <1>6, <1>8, <2>2, <2>5, <3>3, <3>5, <4>4, <4>7
        <5>2. k + 1 \in 1..Len(t) /\ t[k + 1] = "esac" /\ (k + 1) - 1 = k
          BY <1>0, <4>4, <4>7, AtOne
        <5>3. k >= first /\ (Claused(t, k + 1) => Same(t, i, k))
          <6>1. CASE c = NULL
            <7>1. k = first /\ k + 1 \in 2..Len(t) /\ k \in Int
              BY <1>0, <1>5, <3>3, <4>1, <5>2, <6>1
            <7>2. ASSUME Claused(t, k + 1) PROVE Same(t, i, k)
              <8>1. k + 1 \in 2..k+1
                BY <7>1
              <8>2. t[first] = ";;"
                BY <4>1, <5>2, <7>1, <7>2, <8>1 DEF Claused
              <8>3. Same(t, first - 1, first)
                BY <4>1, <8>2, PlainIs, SameStep
              <8> QED
                BY <1>0, <4>1, <7>1, <8>3, SameTrans
            <7> QED
              BY <7>1, <7>2
          <6>2. CASE c # NULL
            <7>1. k = c
              BY <1>5, <6>2
            <7> QED
              BY <1>0, <3>3, <4>1, <4>3, <4>7, <7>1, AnswerOn
          <6> QED
            BY <6>1, <6>2
        <5>4. "case" \in Open /\ "case" \in Follows["esac"]
          BY FollowsIs DEF Open, Token, Reserved
        <5>5. Is(t, k + 1, s)
          <6> SUFFICES ASSUME Claused(t, k + 1) PROVE Is(t, k + 1, s)
            BY DEF Is
          <6>1. Is(t, k, Append(s, "case"))
            BY <1>0, <1>1, <5>3, SameIs
          <6> QED
            BY <1>0, <5>2, <5>4, <6>1, ClosesAt
        <5>6. k + 1 \in i-1..Len(t) /\ k + 1 >= i /\ k + 1 \in Int
          BY <1>0, <4>2, <4>4, <5>2, <5>3
        <5> QED
          BY <1>1, <5>1, <5>5, <5>6, IsSame DEF Answer
      <4> QED
        BY <4>4, <4>5, <4>6, <4>7
    <3> QED
      BY <3>3, <3>4, <3>5
  <2> QED
    BY <2>2, <2>3, <2>4, <2>5
<1> QED
  BY <1>7, <1>8

----------------------------------------------------------------------------
(* Commands (grammar_command.c)                                            *)

\* A list in braces or parentheses
LEMMA GroupIs ==
  ASSUME NEW t, Ended(t), NEW g, NEW i \in 1..Len(t), Later(t, g, i), t[i] \in Plain,
         NEW close \in Plain \cap Token
  PROVE  Answer(t, i, Enclosed(t, g, i, close))
<1>0. Len(t) \in Nat /\ i \in 0..Len(t) /\ i - 1 \in 0..Len(t)
  BY EndedIs
<1>1. PICK e : e = Enclosed(t, g, i, close)
  OBVIOUS
<1>2. e \in Int /\ (e > 0 => e \in i+1..Len(t) /\ t[e] = close /\ Same(t, i, e - 1))
  BY <1>0, <1>1, EnclosedIs
<1>3. ASSUME e > 0 PROVE e >= i /\ Same(t, i - 1, e)
  <2>1. Same(t, i - 1, i)
    BY SameStep
  <2>2. e \in 1..Len(t) /\ e >= i
    BY <1>0, <1>2, <1>3
  <2>3. Same(t, e - 1, e)
    BY <1>2, <1>3, <2>2, SameStep
  <2>4. Same(t, i - 1, e - 1)
    BY <1>0, <1>2, <1>3, <2>1, SameTrans
  <2> QED
    BY <1>0, <2>2, <2>3, <2>4, SameTrans
<1> QED
  BY <1>1, <1>2, <1>3 DEF Answer

\* Every compound command leaves open what was,
LEMMA ShellIs ==
  ASSUME NEW t, Ended(t), NEW g, NEW i \in 1..Len(t)+1, Later(t, g, i)
  PROVE  Answer(t, i, g_shellcommand(t, g, i))
<1>0. /\ Len(t) \in Nat /\ i \in Int
      /\ \A x \in {"{", "}", "(", ")"} : x \in Plain /\ x \in Token
      /\ \A x \in {"for", "while", "until", "case", "if"} : x \in Token
  <2>1. Len(t) \in Nat /\ i \in Int
    BY EndedIs
  <2>2. {"{", "}", "(", ")"} \subseteq Special
    BY DEF Special
  <2>3. Special \subseteq Plain /\ Special \subseteq Token
    BY DEF Plain, Token
  <2>4. {"for", "while", "until", "case", "if"} \subseteq Reserved /\ Reserved \subseteq Token
    BY DEF Reserved, Token
  <2> QED
    BY <2>1, <2>2, <2>3, <2>4
<1>1. CASE At(t, i) = "{"
  <2>1. i \in 1..Len(t) /\ t[i] = "{"
    BY <1>0, <1>1, AtOne
  <2>2. Answer(t, i, Enclosed(t, g, i, "}"))
    BY <1>0, <2>1, GroupIs
  <2> QED
    BY <1>1, <2>2 DEF g_shellcommand
<1>2. CASE At(t, i) = "("
  <2>1. i \in 1..Len(t) /\ t[i] = "("
    BY <1>0, <1>2, AtOne
  <2>2. Answer(t, i, Enclosed(t, g, i, ")"))
    BY <1>0, <2>1, GroupIs
  <2> QED
    BY <1>2, <2>2 DEF g_shellcommand
<1>3. CASE At(t, i) = "for"
  <2>1. i \in 1..Len(t) /\ t[i] = "for"
    BY <1>0, <1>3, AtOne
  <2> QED
    BY <1>3, <2>1, RuleForIs DEF g_shellcommand
<1>4. CASE At(t, i) \in {"while", "until"}
  <2>1. i \in 1..Len(t) /\ t[i] \in {"while", "until"}
    BY <1>0, <1>4, AtOne
  <2>2. Answer(t, i, g_ruleloop(t, g, i))
    BY <2>1, RuleLoopIs
  <2> QED
    BY <1>4, <2>2 DEF g_shellcommand
<1>5. CASE At(t, i) = "case"
  <2>1. i \in 1..Len(t) /\ t[i] = "case"
    BY <1>0, <1>5, AtOne
  <2> QED
    BY <1>5, <2>1, RuleCaseIs DEF g_shellcommand
<1>6. CASE At(t, i) = "if"
  <2>1. i \in 1..Len(t) /\ t[i] = "if"
    BY <1>0, <1>6, AtOne
  <2> QED
    BY <1>6, <2>1, RuleIfIs DEF g_shellcommand
<1>7. CASE At(t, i) \notin {"{", "(", "for", "while", "until", "case", "if"}
  <2>1. g_shellcommand(t, g, i) = NULL
    BY <1>7 DEF g_shellcommand
  <2> QED
    BY <2>1, NullIs, AnswerNone
<1> QED
  BY <1>1, <1>2, <1>3, <1>4, <1>5, <1>6, <1>7

\* and so does the declaration of a function,
LEMMA FuncdecIs ==
  ASSUME NEW t, Ended(t), NEW g, NEW i \in 1..Len(t)+1, Later(t, g, i)
  PROVE  Answer(t, i, g_funcdec(t, g, i))
<1>0. Len(t) \in Nat /\ i - 1 \in 0..Len(t) /\ Same(t, i - 1, i - 1) /\ (i - 1) + 1 = i
  BY EndedIs, RunEmpty
<1>1. PICK name : name = IF At(t, i) = "function" THEN i + 1 ELSE i
  OBVIOUS
<1>2. PICK b : b = Skip(t, name + 3)
  OBVIOUS
<1>3. PICK a : a = IF b <= 0 THEN b ELSE g_shellcommand(t, g, b)
  OBVIOUS
<1> DEFINE Declared == /\ At(t, i) \in Words /\ At(t, name) \in Words
                       /\ At(t, name + 1) = "(" /\ At(t, name + 2) = ")"
<1>4. (Declared => g_funcdec(t, g, i) = a) /\ (~Declared => g_funcdec(t, g, i) = NULL)
  BY <1>1, <1>2, <1>3 DEF g_funcdec, Then
<1>5. CASE ~Declared
  <2>1. g_funcdec(t, g, i) = NULL
    BY <1>4, <1>5
  <2> QED
    BY <2>1, NullIs, AnswerNone
<1>6. CASE Declared
  <2>1. g_funcdec(t, g, i) = a
    BY <1>4, <1>6
  <2>2. At(t, i) \in Plain \cap Token /\ At(t, name) \in Plain \cap Token /\ name \in Int
        /\ name >= i
    <3>1. At(t, i) \in Words /\ At(t, name) \in Words /\ Words \subseteq Plain \cap Token
      BY <1>6, PlainIs
    <3>2. name \in Int /\ name >= i
      BY <1>0, <1>1
    <3> QED
      BY <3>1, <3>2
  <2>3. Same(t, i - 1, name) /\ name \in 1..Len(t)
    <3>1. Same(t, i - 1, i) /\ i \in 1..Len(t)
      BY <1>0, <2>2, SameMore
    <3>2. CASE name = i
      BY <3>1, <3>2
    <3>3. CASE name = i + 1
      BY <1>0, <2>2, <3>1, <3>3, SameMore
    <3> QED
      BY <1>1, <3>2, <3>3
  <2>4. Same(t, i - 1, name + 1) /\ name + 1 \in 1..Len(t)
    BY <1>0, <1>6, <2>3, PlainIs, SameMore, ZenonT(40)
  <2>5. Same(t, i - 1, name + 2) /\ name + 2 \in 1..Len(t)
    <3>1. (name + 1) + 1 = name + 2
      BY <2>2
    <3> QED
      BY <1>0, <1>6, <2>4, <3>1, PlainIs, SameMore, ZenonT(40)
  <2>6. b \in Int
    <3>1. name + 3 \in 1..Len(t)+1
      BY <1>0, <2>2, <2>5
    <3> QED
      BY <1>2, <3>1, SkipTyped
  <2>7. CASE b <= 0
    <3>1. a = b
      BY <1>3, <2>7
    <3> QED
      BY <2>1, <2>6, <2>7, <3>1, AnswerNone
  <2>8. CASE b > 0
    <3>1. b = Skip(t, (name + 2) + 1) /\ b # NULL
      BY <1>2, <2>2, <2>6, <2>8, NullIs
    <3>2. b \in (name + 2) + 1..Len(t) /\ Same(t, i - 1, b - 1)
      BY <1>0, <2>5, <3>1, SameSkip
    <3>3. b \in 1..Len(t)+1 /\ b >= i
      BY <1>0, <2>2, <2>8, <3>2
    <3>4. Later(t, g, b)
      BY <1>0, <2>6, <3>3, LaterOn
    <3>5. Answer(t, b, a)
      <4>1. a = g_shellcommand(t, g, b)
        BY <1>3, <2>6, <2>8
      <4> QED
        BY <3>3, <3>4, <4>1, ShellIs
    <3>6. a \in Int /\ (a > 0 => Same(t, i - 1, a) /\ a >= b)
      <4>1. a \in Int
        BY <3>5 DEF Answer
      <4> QED
        BY <1>0, <2>6, <3>2, <3>5, <4>1, AnswerOn
    <3>7. a > 0 => a >= i
      BY <1>0, <2>6, <3>3, <3>6
    <3> QED
      BY <2>1, <3>6, <3>7 DEF Answer
  <2> QED
    BY <2>6, <2>7, <2>8
<1> QED
  BY <1>5, <1>6

\* A command and the redirections behind it
LEMMA RedirectedOn ==
  ASSUME NEW t, Ended(t), NEW g, NEW i \in 1..Len(t)+1, Later(t, g, i), NEW j, Answer(t, i, j)
  PROVE  Answer(t, i, IF j <= 0 THEN j ELSE Redirected(t, g, j + 1))
<1>0. Len(t) \in Nat /\ i - 1 \in 0..Len(t) /\ j \in Int /\ Same(t, i - 1, i - 1)
  BY EndedIs, RunEmpty DEF Answer
<1>1. CASE j <= 0
  BY <1>1
<1>2. CASE j > 0
  <2>1. Same(t, i - 1, j) /\ j >= i /\ j \in 1..Len(t)
    BY <1>0, <1>2, AnswerOn, SMTT(40)
  <2>2. j + 1 \in 1..Len(t)+1 /\ j + 1 >= i /\ (j + 1) - 1 = j /\ j + 1 \in Int
    BY <1>0, <2>1
  <2>3. Later(t, g, j + 1)
    BY <1>0, <2>2, LaterOn
  <2>4. PICK k : k = Redirected(t, g, j + 1)
    OBVIOUS
  <2>5. Same(t, j, k)
    BY <2>2, <2>3, <2>4, RunsAre
  <2>6. Same(t, i - 1, k) /\ k \in 0..Len(t)
    BY <1>0, <2>1, <2>5, SameTrans
  <2>7. k >= i
    BY <2>1, <2>5, <1>0 DEF Same
  <2>8. (IF j <= 0 THEN j ELSE Redirected(t, g, j + 1)) = k
    BY <1>0, <1>2, <2>4
  <2>9. Answer(t, i, k)
    BY <2>6, <2>7 DEF Answer
  <2> QED
    BY <2>8, <2>9
<1> QED
  BY <1>0, <1>1, <1>2

\* and any command.
LEMMA CommandIs ==
  ASSUME NEW t, Ended(t), NEW g, NEW i \in 1..Len(t)+1, Later(t, g, i)
  PROVE  Answer(t, i, g_command(t, g, i))
<1>1. PICK f : f = g_funcdec(t, g, i)
  OBVIOUS
<1>2. PICK s : s = g_simplecommand(t, g, i)
  OBVIOUS
<1>3. PICK c : c = g_shellcommand(t, g, i)
  OBVIOUS
<1>4. Answer(t, i, f) /\ Answer(t, i, s) /\ Answer(t, i, c)
  BY <1>1, <1>2, <1>3, FuncdecIs, SimpleIs, ShellIs
<1>5. CASE f # NULL
  <2>1. g_command(t, g, i) = IF f <= 0 THEN f ELSE Redirected(t, g, f + 1)
    BY <1>1, <1>5 DEF g_command, Then, ThenOr
  <2> QED
    BY <1>4, <2>1, RedirectedOn
<1>6. CASE f = NULL /\ s # NULL
  <2>1. g_command(t, g, i) = s
    BY <1>1, <1>2, <1>6 DEF g_command, ThenOr, Else
  <2> QED
    BY <1>4, <2>1
<1>7. CASE f = NULL /\ s = NULL
  <2>1. g_command(t, g, i) = IF c <= 0 THEN c ELSE Redirected(t, g, c + 1)
    BY <1>1, <1>2, <1>3, <1>7 DEF g_command, Then, ThenOr, Else
  <2> QED
    BY <1>4, <2>1, RedirectedOn
<1> QED
  BY <1>5, <1>6, <1>7

----------------------------------------------------------------------------
(* Pipelines and lists (grammar_check.c)                                   *)

\* A command behind i, and what goes on behind it
LEMMA PipedIs ==
  ASSUME NEW t, Ended(t), NEW g, NEW i \in 1..Len(t), Later(t, g, i)
  PROVE  Onward(t, i, Piped(t, g, i))
<1>0. Len(t) \in Nat /\ i \in 0..Len(t) /\ Same(t, i, i)
  BY EndedIs, SameSelf
<1>1. PICK j : j = g_command(t, g, i + 2)
  OBVIOUS
<1>2. PICK more : more = g[j]["Piped"]
  OBVIOUS
<1>3. CASE At(t, i + 1) # "|"
  <2>1. Piped(t, g, i) = i
    BY <1>3 DEF Piped
  <2> QED
    BY <1>0, <2>1 DEF Onward
<1>4. CASE At(t, i + 1) = "|" /\ At(t, i + 2) \in EndOf
  <2>1. Piped(t, g, i) = HANG
    BY <1>4 DEF Piped
  <2> QED
    BY <2>1, NullIs, AnswerNone
<1>5. CASE At(t, i + 1) = "|" /\ At(t, i + 2) \notin EndOf
  <2>1. Piped(t, g, i) = IF j <= 0 THEN j ELSE more
    BY <1>1, <1>2, <1>5 DEF Piped, Then
  <2>2. Same(t, i, i + 1) /\ i + 1 \in 1..Len(t)
    BY <1>0, <1>5, PlainIs, SameMore
  <2>3. i + 2 \in 1..Len(t)+1 /\ (i + 2) - 1 = i + 1 /\ i + 2 \in Int /\ i + 2 >= i
    BY <1>0, <2>2
  <2>4. Answer(t, i + 2, j)
    <3>1. Later(t, g, i + 2)
      BY <1>0, <2>3, LaterOn
    <3> QED
      BY <1>1, <2>3, <3>1, CommandIs
  <2>5. j \in Int
    BY <2>4 DEF Answer
  <2>6. CASE j <= 0
    BY <2>1, <2>5, <2>6, AnswerNone
  <2>7. CASE j > 0
    <3>1. Same(t, i, j) /\ j >= i + 2
      BY <1>0, <2>2, <2>3, <2>4, <2>7, AnswerOn
    <3>2. j > i
      BY <1>0, <2>5, <3>1
    <3>3. Onward(t, i, more)
      BY <1>0, <1>2, <3>1, <3>2, AnswerLoop
    <3>4. Piped(t, g, i) = more
      BY <2>1, <2>5, <2>7
    <3> QED
      BY <3>3, <3>4
  <2> QED
    BY <2>5, <2>6, <2>7
<1> QED
  BY <1>3, <1>4, <1>5

\* A rule, and a loop that goes on behind it
LEMMA AnswerOnward ==
  ASSUME NEW t, Ended(t), NEW i \in 1..Len(t)+1, NEW j, Answer(t, i, j), NEW k,
         j > 0 => Onward(t, j, k)
  PROVE  Answer(t, i, IF j <= 0 THEN j ELSE k)
<1>0. Len(t) \in Nat /\ i - 1 \in 0..Len(t) /\ j \in Int /\ Same(t, i - 1, i - 1)
  BY EndedIs, RunEmpty DEF Answer
<1>1. CASE j <= 0
  BY <1>1
<1>2. CASE j > 0
  <2>1. Same(t, i - 1, j) /\ j >= i /\ j \in 1..Len(t)
    BY <1>0, <1>2, AnswerOn, SMTT(40)
  <2>2. k \in Int /\ (k > 0 => Same(t, j, k))
    BY <1>2 DEF Onward
  <2>3. k > 0 => Same(t, i - 1, k) /\ k >= i
    <3> SUFFICES ASSUME k > 0 PROVE Same(t, i - 1, k) /\ k >= i
      OBVIOUS
    <3>1. Same(t, j, k)
      BY <2>2
    <3>2. k >= i
      BY <1>0, <2>1, <3>1 DEF Same
    <3> QED
      BY <1>0, <2>1, <3>1, <3>2, SameTrans
  <2>4. (IF j <= 0 THEN j ELSE k) = k
    BY <1>0, <1>2
  <2> QED
    BY <2>2, <2>3, <2>4 DEF Answer
<1> QED
  BY <1>0, <1>1, <1>2

\* A pipeline
LEMMA PipelineIs ==
  ASSUME NEW t, Ended(t), NEW g, NEW i \in 1..Len(t)+1, Later(t, g, i)
  PROVE  Answer(t, i, g_pipeline(t, g, i))
<1>0. Len(t) \in Nat /\ i - 1 \in 0..Len(t) /\ Same(t, i - 1, i - 1) /\ (i - 1) + 1 = i
  BY EndedIs, RunEmpty
<1>1. PICK p : p = IF At(t, i) = "!" THEN i + 1 ELSE i
  OBVIOUS
<1>2. PICK j : j = g_command(t, g, p)
  OBVIOUS
<1>3. g_pipeline(t, g, i) = IF j <= 0 THEN j ELSE Piped(t, g, j)
  BY <1>1, <1>2 DEF g_pipeline, Then
<1>4. p \in 1..Len(t)+1 /\ p >= i /\ Same(t, i - 1, p - 1) /\ p \in Int
  <2>1. CASE At(t, i) = "!"
    <3>1. Same(t, i - 1, i) /\ i \in 1..Len(t)
      BY <1>0, <2>1, PlainIs, SameMore
    <3>2. p = i + 1 /\ (i + 1) - 1 = i
      BY <1>1, <2>1, <3>1
    <3> QED
      BY <1>0, <3>1, <3>2
  <2>2. CASE At(t, i) # "!"
    BY <1>0, <1>1, <2>2
  <2> QED
    BY <2>1, <2>2
<1>5. Answer(t, p, j)
  <2>1. Later(t, g, p)
    BY <1>0, <1>4, LaterOn
  <2> QED
    BY <1>2, <1>4, <2>1, CommandIs
<1>6. Answer(t, i, j)
  <2>1. j \in Int
    BY <1>5 DEF Answer
  <2>2. ASSUME j > 0 PROVE Same(t, i - 1, j) /\ j >= i
    <3>1. Same(t, i - 1, j) /\ j >= p
      BY <1>0, <1>4, <1>5, <2>2, AnswerOn
    <3> QED
      BY <1>0, <1>4, <2>1, <3>1
  <2> QED
    BY <2>1, <2>2 DEF Answer
<1>7. j > 0 => Onward(t, j, Piped(t, g, j))
  <2> SUFFICES ASSUME j > 0 PROVE Onward(t, j, Piped(t, g, j))
    OBVIOUS
  <2>1. j \in 1..Len(t) /\ j >= i /\ j \in Int
    BY <1>0, <1>6, AnswerOn
  <2>2. Later(t, g, j)
    BY <1>0, <2>1, LaterOn
  <2> QED
    BY <2>1, <2>2, PipedIs
<1> QED
  BY <1>3, <1>6, <1>7, AnswerOnward

\* The pipelines behind && and ||
LEMMA AndOrIs ==
  ASSUME NEW t, Ended(t), NEW g, NEW i \in 1..Len(t), Later(t, g, i)
  PROVE  Onward(t, i, AndOr(t, g, i))
<1>0. Len(t) \in Nat /\ i \in 0..Len(t) /\ Same(t, i, i) /\ (i + 1) + 1 = i + 2
  BY EndedIs, SameSelf
<1>1. PICK next : next = Skip(t, i + 2)
  OBVIOUS
<1>2. PICK j : j = g_pipeline(t, g, next)
  OBVIOUS
<1>3. PICK more : more = g[j]["AndOr"]
  OBVIOUS
<1>4. CASE At(t, i + 1) \notin {"&&", "||"}
  <2>1. AndOr(t, g, i) = i
    BY <1>4 DEF AndOr
  <2> QED
    BY <1>0, <2>1 DEF Onward
<1>5. CASE At(t, i + 1) \in {"&&", "||"}
  <2>1. AndOr(t, g, i) = IF next <= 0 THEN next ELSE IF j <= 0 THEN j ELSE more
    BY <1>1, <1>2, <1>3, <1>5 DEF AndOr, Then
  <2>2. Same(t, i, i + 1) /\ i + 1 \in 1..Len(t)
    <3>1. At(t, i + 1) \in Plain \cap Token
      BY <1>5, PlainIs
    <3> QED
      BY <1>0, <3>1, SameMore
  <2>3. next \in Int
    <3>1. i + 2 \in 1..Len(t)+1
      BY <1>0, <2>2
    <3> QED
      BY <1>1, <3>1, SkipTyped
  <2>4. CASE next <= 0
    <3>1. AndOr(t, g, i) = next
      BY <2>1, <2>4
    <3> QED
      BY <2>3, <2>4, <3>1, AnswerNone
  <2>5. CASE next > 0
    <3>1. next = Skip(t, (i + 1) + 1) /\ next # NULL
      BY <1>0, <1>1, <2>3, <2>5, NullIs
    <3>2. next \in (i + 1) + 1..Len(t) /\ Same(t, i, next - 1)
      BY <1>0, <2>2, <3>1, SameSkip
    <3>3. next \in 1..Len(t)+1 /\ next >= i /\ next > i
      BY <1>0, <3>2
    <3>4. Answer(t, next, j)
      <4>1. Later(t, g, next)
        BY <1>0, <2>3, <3>3, LaterOn
      <4> QED
        BY <1>2, <3>3, <4>1, PipelineIs
    <3>5. j \in Int
      BY <3>4 DEF Answer
    <3>6. CASE j <= 0
      <4>1. AndOr(t, g, i) = j
        BY <2>1, <2>3, <2>5, <3>6
      <4> QED
        BY <3>5, <3>6, <4>1, AnswerNone
    <3>7. CASE j > 0
      <4>1. Same(t, i, j) /\ j >= next
        BY <1>0, <2>3, <3>2, <3>4, <3>7, AnswerOn
      <4>2. j > i
        BY <1>0, <2>3, <3>3, <3>5, <4>1
      <4>3. Onward(t, i, more)
        BY <1>0, <1>3, <4>1, <4>2, AnswerLoop
      <4>4. AndOr(t, g, i) = more
        BY <2>1, <2>3, <2>5, <3>5, <3>7
      <4> QED
        BY <4>3, <4>4
    <3> QED
      BY <3>5, <3>6, <3>7
  <2> QED
    BY <2>3, <2>4, <2>5
<1> QED
  BY <1>4, <1>5

\* All of them
LEMMA GAndOrIs ==
  ASSUME NEW t, Ended(t), NEW g, NEW i \in 1..Len(t)+1, Later(t, g, i)
  PROVE  Answer(t, i, g_andor(t, g, i))
<1>0. Len(t) \in Nat /\ i - 1 \in 0..Len(t) /\ Same(t, i - 1, i - 1) /\ i \in Int
  BY EndedIs, RunEmpty
<1>1. PICK j : j = g_pipeline(t, g, i)
  OBVIOUS
<1>2. g_andor(t, g, i) = IF j <= 0 THEN j ELSE AndOr(t, g, j)
  BY <1>1 DEF g_andor, Then
<1>3. Answer(t, i, j)
  BY <1>1, PipelineIs
<1>4. j > 0 => Onward(t, j, AndOr(t, g, j))
  <2> SUFFICES ASSUME j > 0 PROVE Onward(t, j, AndOr(t, g, j))
    OBVIOUS
  <2>1. j \in 1..Len(t) /\ j >= i /\ j \in Int
    BY <1>0, <1>3, AnswerOn
  <2>2. Later(t, g, j)
    BY <1>0, <2>1, LaterOn
  <2> QED
    BY <2>1, <2>2, AndOrIs
<1> QED
  BY <1>2, <1>3, <1>4, AnswerOnward

\* The commands of a compound list, up to a separator that none follows
LEMMA CompoundItemsIs ==
  ASSUME NEW t, Ended(t), NEW g, NEW i \in 1..Len(t), Later(t, g, i)
  PROVE  Onward(t, i, CompoundItems(t, g, i))
<1>0. Len(t) \in Nat /\ i \in 0..Len(t) /\ Same(t, i, i) /\ (i + 1) + 1 = i + 2
  BY EndedIs, SameSelf
<1>1. PICK next : next = Skip(t, i + 2)
  OBVIOUS
<1>2. PICK item : item = g_andor(t, g, next)
  OBVIOUS
<1>3. PICK more : more = g[item]["CompoundItems"]
  OBVIOUS
<1>4. CASE At(t, i + 1) \notin Separators \union EndOf
  <2>1. CompoundItems(t, g, i) = i
    BY <1>4 DEF CompoundItems
  <2> QED
    BY <1>0, <2>1 DEF Onward
<1>5. CASE At(t, i + 1) \in Separators \union EndOf
  <2>1. CompoundItems(t, g, i) =
          IF next = NULL THEN NULL
          ELSE IF item = NULL THEN next - 1 ELSE IF item <= 0 THEN item ELSE more
    BY <1>1, <1>2, <1>3, <1>5 DEF CompoundItems, Then, ThenOr
  <2>2. Same(t, i, i + 1) /\ i + 1 \in 1..Len(t)
    <3>1. At(t, i + 1) \in Plain \cap Token
      BY <1>5, PlainIs
    <3> QED
      BY <1>0, <3>1, SameMore
  <2>3. next \in 0..Len(t)
    <3>1. i + 2 \in 1..Len(t)+1
      BY <1>0, <2>2
    <3> QED
      BY <1>1, <3>1, SkipTyped
  <2>4. CASE next = NULL
    BY <2>1, <2>4, NullIs, AnswerNone
  <2>5. CASE next # NULL
    <3>1. next = Skip(t, (i + 1) + 1)
      BY <1>0, <1>1
    <3>2. next \in (i + 1) + 1..Len(t) /\ Same(t, i, next - 1)
      BY <1>0, <2>2, <2>5, <3>1, SameSkip
    <3>3. next \in 1..Len(t)+1 /\ next >= i /\ next > i /\ next \in Int /\ next - 1 \in Int
      BY <1>0, <3>2
    <3>4. Answer(t, next, item)
      <4>1. Later(t, g, next)
        BY <1>0, <3>3, LaterOn
      <4> QED
        BY <1>2, <3>3, <4>1, GAndOrIs
    <3>5. item \in Int
      BY <3>4 DEF Answer
    <3>6. CASE item = NULL
      <4>1. CompoundItems(t, g, i) = next - 1
        BY <2>1, <2>5, <3>6, Zenon
      <4> QED
        BY <3>2, <3>3, <4>1 DEF Onward
    <3>7. CASE item # NULL /\ item <= 0
      <4>1. CompoundItems(t, g, i) = item
        BY <2>1, <2>5, <3>7, Zenon
      <4> QED
        BY <3>5, <3>7, <4>1, AnswerNone
    <3>8. CASE item > 0
      <4>1. Same(t, i, item) /\ item >= next
        BY <1>0, <3>2, <3>3, <3>4, <3>8, AnswerOn
      <4>2. item > i
        BY <1>0, <3>3, <3>5, <4>1
      <4>3. Onward(t, i, more)
        BY <1>0, <1>3, <4>1, <4>2, AnswerLoop
      <4>4. item # NULL /\ ~(item <= 0)
        BY <3>5, <3>8, NullIs
      <4>5. CompoundItems(t, g, i) = more
        BY <2>1, <2>5, <4>4, Zenon
      <4> QED
        BY <4>3, <4>5
    <3> QED
      BY <3>5, <3>6, <3>7, <3>8
  <2> QED
    BY <2>4, <2>5
<1> QED
  BY <1>4, <1>5

\* A compound list leaves open what was.
LEMMA CompoundListIs ==
  ASSUME NEW t, Ended(t), NEW g, NEW i \in 1..Len(t)+1, Later(t, g, i)
  PROVE  Answer(t, i, g_compoundlist(t, g, i))
<1>0. Len(t) \in Nat /\ i - 1 \in 0..Len(t) /\ i \in Int
  BY EndedIs
<1>1. PICK first : first = Skip(t, i)
  OBVIOUS
<1>2. PICK j : j = g_andor(t, g, first)
  OBVIOUS
<1>3. PICK k : k = IF At(t, j + 1) = "eof" THEN NULL ELSE CompoundItems(t, g, j)
  OBVIOUS
<1>4. g_compoundlist(t, g, i) = IF first <= 0 THEN first ELSE IF j <= 0 THEN j ELSE k
  BY <1>1, <1>2, <1>3 DEF g_compoundlist, Then
<1>5. first \in Int /\ (first > 0 => first \in i..Len(t) /\ Same(t, i - 1, first - 1))
  <2>1. first \in 0..Len(t)
    BY <1>1, SkipTyped
  <2>2. ASSUME first > 0 PROVE first \in i..Len(t) /\ Same(t, i - 1, first - 1)
    <3>1. first # NULL
      BY <2>1, <2>2, NullIs
    <3> QED
      BY <1>1, <3>1, SkipSame
  <2> QED
    BY <2>1, <2>2
<1>6. CASE first <= 0
  BY <1>4, <1>5, <1>6, AnswerNone
<1>7. CASE first > 0
  <2>1. first \in 1..Len(t)+1 /\ first >= i
    BY <1>0, <1>5, <1>7
  <2>2. Later(t, g, first)
    BY <1>0, <1>5, <2>1, LaterOn
  <2>3. Answer(t, first, j) /\ j \in Int
    BY <1>2, <2>1, <2>2, GAndOrIs DEF Answer
  <2>4. j > 0 => Onward(t, j, k)
    <3> SUFFICES ASSUME j > 0 PROVE Onward(t, j, k)
      OBVIOUS
    <3>1. j >= first /\ j \in 1..Len(t)
      BY <1>0, <1>5, <1>7, <2>3, AnswerOn
    <3>2. Later(t, g, j)
      BY <1>0, <1>5, <2>1, <2>2, <2>3, <3>1, LaterOn
    <3>3. Onward(t, j, CompoundItems(t, g, j)) /\ Onward(t, j, NULL)
      BY <3>1, <3>2, CompoundItemsIs, NullIs, AnswerNone
    <3> QED
      BY <1>3, <3>3
  <2>5. PICK l : l = IF j <= 0 THEN j ELSE k
    OBVIOUS
  <2>6. Answer(t, first, l)
    BY <2>1, <2>3, <2>4, <2>5, AnswerOnward
  <2>7. g_compoundlist(t, g, i) = l
    BY <1>4, <1>5, <1>7, <2>5
  <2>8. l \in Int
    BY <2>6 DEF Answer
  <2>9. ASSUME l > 0 PROVE l >= i /\ Same(t, i - 1, l)
    <3>1. l >= first /\ Same(t, i - 1, l)
      BY <1>0, <1>5, <1>7, <2>6, <2>9, AnswerOn
    <3> QED
      BY <1>0, <1>5, <2>1, <2>8, <3>1
  <2> QED
    BY <2>7, <2>8, <2>9 DEF Answer
<1> QED
  BY <1>5, <1>6, <1>7

\* A list ends at a newline or an "eof", and leaves open what was.
LEMMA ListIs ==
  ASSUME NEW t, Ended(t), NEW g, NEW i \in 1..Len(t)+1, Later(t, g, i)
  PROVE  Line(t, i, g_list(t, g, i))
<1>0. Len(t) \in Nat /\ i - 1 \in 0..Len(t) /\ i \in Int /\ Same(t, i - 1, i - 1)
  BY EndedIs, RunEmpty
<1>1. PICK j : j = g_andor(t, g, i)
  OBVIOUS
<1>2. PICK more : more = g[j + 2]["g_list"]
  OBVIOUS
<1>3. g_list(t, g, i) =
        IF j <= 0 THEN j
        ELSE IF At(t, j + 1) \in EndOf THEN j + 1
        ELSE IF At(t, j + 1) \notin Separators THEN NULL
        ELSE IF At(t, j + 2) \in EndOf THEN j + 2 ELSE more
  BY <1>1, <1>2 DEF g_list, Then
<1>4. Answer(t, i, j) /\ j \in Int
  BY <1>1, GAndOrIs DEF Answer
<1>5. CASE j <= 0
  BY <1>3, <1>4, <1>5 DEF Line
<1>6. CASE j > 0
  <2>1. Same(t, i - 1, j) /\ j >= i /\ j \in 1..Len(t) /\ (j + 1) + 1 = j + 2 /\ (j + 2) - 1 = j + 1
    BY <1>0, <1>4, <1>6, AnswerOn, SMTT(40)
  <2>2. CASE At(t, j + 1) \in EndOf
    <3>1. j + 1 \in 1..Len(t) /\ t[j + 1] \in EndOf /\ (j + 1) - 1 = j
      <4>1. PICK x \in Token : x = At(t, j + 1)
        BY <2>2, PlainIs
      <4>2. j + 1 \in Int /\ (j + 1) - 1 = j
        BY <1>4
      <4>3. j + 1 \in 1..Len(t) /\ t[j + 1] = x
        BY <4>1, <4>2, AtOne
      <4> QED
        BY <2>2, <4>1, <4>2, <4>3
    <3>2. g_list(t, g, i) = j + 1 /\ j + 1 \in i..Len(t)
      BY <1>0, <1>3, <1>4, <1>6, <2>1, <2>2, <3>1
    <3> QED
      BY <1>0, <2>1, <3>1, <3>2 DEF Line
  <2>3. CASE At(t, j + 1) \notin EndOf /\ At(t, j + 1) \notin Separators
    <3>1. g_list(t, g, i) = NULL
      BY <1>3, <1>4, <1>6, <2>3
    <3> QED
      BY <3>1, NullIs DEF Line
  <2>4. CASE At(t, j + 1) \notin EndOf /\ At(t, j + 1) \in Separators
    <3>1. Same(t, i - 1, j + 1) /\ j + 1 \in 1..Len(t)
      <4>1. At(t, j + 1) \in Plain \cap Token
        BY <2>4, PlainIs
      <4> QED
        BY <1>0, <2>1, <4>1, SameMore
    <3>2. CASE At(t, j + 2) \in EndOf
      <4>1. j + 2 \in 1..Len(t) /\ t[j + 2] \in EndOf
        <5>1. PICK x \in Token : x = At(t, j + 2)
          BY <3>2, PlainIs
        <5>2. j + 2 \in Int
          BY <1>4
        <5>3. j + 2 \in 1..Len(t) /\ t[j + 2] = x
          BY <5>1, <5>2, AtOne
        <5> QED
          BY <3>2, <5>1, <5>3
      <4>2. g_list(t, g, i) = j + 2 /\ j + 2 \in i..Len(t)
        BY <1>0, <1>3, <1>4, <1>6, <2>1, <2>4, <3>2, <4>1
      <4> QED
        BY <1>0, <2>1, <3>1, <4>1, <4>2 DEF Line
    <3>3. CASE At(t, j + 2) \notin EndOf
      <4>1. g_list(t, g, i) = more
        BY <1>3, <1>4, <1>6, <2>4, <3>3
      <4>2. j + 2 \in i+1..Len(t)+1
        BY <1>0, <2>1, <3>1
      <4>3. Line(t, j + 2, more)
        BY <1>2, <4>2 DEF Later, Fine
      <4>4. more \in Int
            /\ (more > 0 => more \in j+2..Len(t) /\ t[more] \in EndOf /\ Same(t, j + 1, more - 1))
        BY <2>1, <4>3 DEF Line
      <4>5. ASSUME more > 0 PROVE more \in i..Len(t) /\ Same(t, i - 1, more - 1)
        <5>1. Same(t, i - 1, more - 1)
          BY <1>0, <3>1, <4>4, <4>5, SameTrans
        <5> QED
          BY <1>0, <2>1, <4>4, <4>5, <5>1
      <4> QED
        BY <4>1, <4>4, <4>5 DEF Line
    <3> QED
      BY <3>2, <3>3
  <2> QED
    BY <2>2, <2>3, <2>4
<1> QED
  BY <1>4, <1>5, <1>6

\* Every rule, told of the places behind
LEMMA ResultsFine ==
  ASSUME NEW t, Ended(t), NEW g, NEW i \in 1..Len(t)+1, Later(t, g, i)
  PROVE  Fine(t, i, Results(t, g, i))
<1>1. PICK f : f = Results(t, g, i)
  OBVIOUS
<1>2. /\ f["PrefixRun"] = PrefixRun(t, g, i) /\ f["ElementRun"] = ElementRun(t, g, i)
      /\ f["Redirected"] = Redirected(t, g, i) /\ f["Piped"] = Piped(t, g, i)
  BY <1>1 DEF Results, Rules
<1>3. /\ f["AndOr"] = AndOr(t, g, i) /\ f["CompoundItems"] = CompoundItems(t, g, i)
      /\ f["g_compoundlist"] = g_compoundlist(t, g, i)
      /\ f["g_elseclause"] = g_elseclause(t, g, i)
  BY <1>1 DEF Results, Rules
<1>4. /\ f["Patterns"] = Patterns(t, g, i) /\ f["CaseItems"] = CaseItems(t, g, i)
      /\ f["g_list"] = g_list(t, g, i)
  BY <1>1 DEF Results, Rules
<1>5. \A r \in {"PrefixRun", "ElementRun", "Redirected"} : Same(t, i - 1, f[r])
  BY <1>2, RunsAre
<1>6. ASSUME i <= Len(t)
      PROVE  /\ Same(t, i, f["Patterns"])
             /\ \A r \in {"Piped", "AndOr", "CompoundItems", "CaseItems"} : Onward(t, i, f[r])
  <2>1. i \in 1..Len(t)
    BY <1>6, EndedIs
  <2> QED
    BY <1>2, <1>3, <1>4, <2>1, PatternsIs, PipedIs, AndOrIs, CompoundItemsIs, CaseItemsIs
<1>7. Answer(t, i, f["g_compoundlist"]) /\ Branches(t, i, f["g_elseclause"])
      /\ Line(t, i, f["g_list"])
  BY <1>3, <1>4, CompoundListIs, ElseIs, ListIs
<1> QED
  BY <1>1, <1>5, <1>6, <1>7 DEF Fine

\* So it is at every place, from the last one to the first.
LEMMA ReadingsFine ==
  ASSUME NEW t, Ended(t)
  PROVE  \A i \in 1..Len(t)+1 : Fine(t, i, Readings(t)[i])
<1> DEFINE N == Len(t) + 1
           S == {k \in Nat : \A i \in 1..N : i > N - k => Fine(t, i, Readings(t)[i])}
<1>0. N \in Nat /\ Len(t) \in Nat
  BY EndedIs
<1>1. 0 \in S
  BY <1>0
<1>2. ASSUME NEW k \in Nat, k \in S PROVE k + 1 \in S
  <2>1. ASSUME NEW i \in 1..N, i > N - (k + 1) PROVE Fine(t, i, Readings(t)[i])
    <3>1. ASSUME NEW j \in i+1..N PROVE Fine(t, j, Behindhand(t, i)[j])
      <4>1. j \in 1..N /\ j > N - k /\ Behindhand(t, i)[j] = Readings(t)[j]
        BY <1>0, <2>1 DEF Behindhand
      <4> QED
        BY <1>2, <4>1
    <3>2. Later(t, Behindhand(t, i), i)
      BY <3>1 DEF Later
    <3>3. Readings(t)[i] = Results(t, Behindhand(t, i), i)
      BY <1>0, ReadingsIs
    <3> QED
      BY <3>2, <3>3, ResultsFine
  <2> QED
    BY <2>1
<1>3. N \in S
  <2> HIDE DEF S
  <2> QED
    BY <1>0, <1>1, <1>2, Induct
<1>4. \A i \in 1..N : i > N - N
  BY <1>0
<1> QED
  BY <1>0, <1>3, <1>4

\* What grammar_check() answers: no end, or one that leaves open nothing
LEMMA GrammarCheckIs ==
  ASSUME NEW t, Ended(t)
  PROVE  /\ grammar_check(t) \in Int
         /\ grammar_check(t) > 0 =>
              /\ grammar_check(t) \in 1..Len(t) /\ t[grammar_check(t)] \in EndOf
              /\ Claused(t, grammar_check(t) - 1) => Marks(t)[grammar_check(t) - 1] = <<>>
<1>0. Len(t) \in Nat /\ 1 \in 1..Len(t) /\ 1 \in 1..Len(t)+1 /\ Marks(t)[0] = <<>>
  <2>1. Len(t) \in Nat \ {0}
    BY EndedIs
  <2> QED
    BY <2>1, MarksIs
<1>1. CASE t[1] \in EndOf
  <2>1. grammar_check(t) = 1
    BY <1>1 DEF grammar_check
  <2> QED
    BY <1>0, <1>1, <2>1
<1>2. CASE t[1] \notin EndOf
  <2>1. PICK e : e = Readings(t)[1]["g_list"]
    OBVIOUS
  <2>2. grammar_check(t) = e
    BY <1>2, <2>1 DEF grammar_check
  <2>3. Line(t, 1, e)
    BY <1>0, <2>1, ReadingsFine DEF Fine
  <2>4. e \in Int /\ (e > 0 => e \in 1..Len(t) /\ t[e] \in EndOf /\ Same(t, 0, e - 1))
    BY <2>3 DEF Line
  <2> QED
    BY <1>0, <2>2, <2>4 DEF Same, Is
<1> QED
  BY <1>1, <1>2

----------------------------------------------------------------------------
(* From what is typed to the list that is built from                       *)

\* The list up to a place without the "eof" of joined lines, token by token
LEMMA BeforeIs ==
  ASSUME NEW t, NEW e \in Nat \ {0}
  PROVE  \E K : /\ K[0] = <<>> /\ Before(t, e) = K[e - 1]
                /\ \A i \in 1..e-1 :
                     K[i] = IF t[i] = "eof" THEN K[i - 1] ELSE Append(K[i - 1], t[i])
<1> DEFINE N == e - 1
           P(f) == f = [i \in 0..N |-> IF i = 0 THEN <<>>
                                       ELSE IF t[i] = "eof" THEN f[i - 1]
                                       ELSE Append(f[i - 1], t[i])]
           More(s, i) == IF t[i] = "eof" THEN s ELSE Append(s, t[i])
           U(k, w) == w = [i \in 0..N |-> w[i]] /\ w[0] = <<>>
                      /\ \A i \in 1..N : i <= k => w[i] = More(w[i - 1], i)
           S == {k \in Nat : \E w : U(k, w)}
<1>0. N \in Nat
  OBVIOUS
<1>1. 0 \in S
  <2>1. U(0, [i \in 0..N |-> <<>>])
    BY <1>0
  <2> QED
    BY <2>1
<1>2. ASSUME NEW k \in Nat, k \in S PROVE k + 1 \in S
  <2>1. PICK w : U(k, w)
    BY <1>2
  <2> HIDE DEF More
  <2> DEFINE v == [i \in 0..N |-> IF i = k + 1 THEN More(w[i - 1], i) ELSE w[i]]
  <2>2. v[0] = <<>>
    BY <1>0, <2>1
  <2>3. ASSUME NEW i \in 1..N, i <= k + 1 PROVE v[i] = More(v[i - 1], i)
    <3>1. i \in 0..N /\ i - 1 \in 0..N /\ i - 1 # k + 1
      BY <1>0, <2>3
    <3>2. v[i - 1] = w[i - 1]
      BY <3>1
    <3>3. CASE i = k + 1
      BY <3>1, <3>2, <3>3
    <3>4. CASE i # k + 1
      <4>1. v[i] = w[i] /\ i <= k
        BY <2>3, <3>1, <3>4
      <4> QED
        BY <2>1, <3>2, <4>1
    <3> QED
      BY <3>3, <3>4
  <2>4. U(k + 1, v)
    <3>1. v = [i \in 0..N |-> v[i]]
      OBVIOUS
    <3> HIDE DEF v
    <3> QED
      BY <2>2, <2>3, <3>1
  <2> HIDE DEF v, U
  <2> QED
    BY <2>4
<1>3. N \in S
  <2> HIDE DEF S
  <2> QED
    BY <1>0, <1>1, <1>2, Induct
<1>4. PICK w : U(N, w)
  BY <1>3
<1>5. P(w)
  <2>1. ASSUME NEW i \in 0..N
        PROVE w[i] = IF i = 0 THEN <<>> ELSE IF t[i] = "eof" THEN w[i - 1]
                                        ELSE Append(w[i - 1], t[i])
    <3>1. CASE i = 0
      BY <1>4, <3>1
    <3>2. CASE i # 0
      <4>1. i \in 1..N /\ i <= N
        BY <1>0, <3>2
      <4>2. w[i] = More(w[i - 1], i)
        BY <1>4, <4>1
      <4> QED
        BY <3>2, <4>2
    <3> QED
      BY <3>1, <3>2
  <2> QED
    BY <1>4, <2>1
<1> DEFINE K == CHOOSE f : P(f)
<1>6. P(K)
  <2> HIDE DEF P
  <2> QED
    BY <1>5
<1>7. Before(t, e) = K[e - 1]
  BY DEF Before
<1> HIDE DEF K
<1>8. K[0] = <<>> /\ \A i \in 1..e-1 :
                       K[i] = IF t[i] = "eof" THEN K[i - 1] ELSE Append(K[i - 1], t[i])
  <2>1. 0 \in 0..N /\ \A i \in 1..e-1 : i \in 0..N /\ i # 0
    BY <1>0
  <2>2. K[0] = <<>>
    BY <1>6, <2>1
  <2>3. ASSUME NEW i \in 1..e-1
        PROVE K[i] = IF t[i] = "eof" THEN K[i - 1] ELSE Append(K[i - 1], t[i])
    BY <1>6, <2>1
  <2> QED
    BY <2>2, <2>3
<1> QED
  BY <1>7, <1>8

\* One token more, and the marks up to it are what they were.
LEMMA MarksAppend ==
  ASSUME NEW T, NEW s \in Seq(T), NEW x \in T
  PROVE  Marks(Append(s, x))[Len(s) + 1] = Mark(Marks(s)[Len(s)], x)
<1> DEFINE u == Append(s, x)
           S == {k \in Nat : k <= Len(s) => Marks(u)[k] = Marks(s)[k]}
<1>0. /\ Len(s) \in Nat /\ Len(u) = Len(s) + 1 /\ Len(u) \in Nat /\ u[Len(s) + 1] = x
      /\ \A k \in 1..Len(s) : u[k] = s[k]
  OBVIOUS
<1> HIDE DEF u
<1>1. 0 \in S
  BY <1>0, MarksIs
<1>2. ASSUME NEW k \in Nat, k \in S PROVE k + 1 \in S
  <2>1. CASE k + 1 <= Len(s)
    <3>1. k + 1 \in 1..Len(s) /\ k + 1 \in 1..Len(u) /\ (k + 1) - 1 = k /\ k <= Len(s)
      BY <1>0, <2>1
    <3>2. Marks(u)[k + 1] = Mark(Marks(u)[k], u[k + 1])
      BY <1>0, <3>1, MarksIs
    <3>3. Marks(s)[k + 1] = Mark(Marks(s)[k], s[k + 1])
      BY <1>0, <3>1, MarksIs
    <3> QED
      BY <1>0, <1>2, <3>1, <3>2, <3>3
  <2> QED
    BY <2>1
<1>3. Len(s) \in S
  <2> HIDE DEF S
  <2> QED
    BY <1>0, <1>1, <1>2, Induct
<1>4. Len(s) + 1 \in 1..Len(u) /\ (Len(s) + 1) - 1 = Len(s)
  BY <1>0
<1>5. Marks(u)[Len(s) + 1] = Mark(Marks(u)[Len(s)], u[Len(s) + 1])
  BY <1>0, <1>4, MarksIs
<1> QED
  BY <1>0, <1>3, <1>5 DEF u

\* What is kept has no "eof", and the marks of the list it was taken from; where no
\* esac in it lacks a clause, none does in that list.
LEMMA BeforeFine ==
  ASSUME NEW t, Ended(t), NEW e \in 1..Len(t)
  PROVE  /\ Before(t, e) \in Seq(Token \ {"eof"})
         /\ Marks(Before(t, e))[Len(Before(t, e))] = Marks(t)[e - 1]
         /\ (\A k \in 2..Len(Before(t, e)) : Before(t, e)[k] = "esac" => Before(t, e)[k - 1] = ";;")
              => Claused(t, e - 1)
<1>0. e \in Nat \ {0} /\ Len(t) \in Nat /\ \A i \in 1..e-1 : i \in 1..Len(t) /\ t[i] \in Token
  BY EndedIs
<1>1. PICK K : /\ K[0] = <<>> /\ Before(t, e) = K[e - 1]
               /\ \A i \in 1..e-1 :
                    K[i] = IF t[i] = "eof" THEN K[i - 1] ELSE Append(K[i - 1], t[i])
  BY <1>0, BeforeIs
<1> DEFINE N == e - 1
<1>2. N \in Nat
  BY <1>0
<1>3. \A i \in 0..N : K[i] \in Seq(Token \ {"eof"}) /\ Marks(K[i])[Len(K[i])] = Marks(t)[i]
  <2> DEFINE S == {i \in Nat : i <= N => /\ K[i] \in Seq(Token \ {"eof"})
                                         /\ Marks(K[i])[Len(K[i])] = Marks(t)[i]}
  <2>1. 0 \in S
    <3>1. K[0] \in Seq(Token \ {"eof"}) /\ Len(K[0]) = 0
      BY <1>1
    <3>2. Marks(K[0])[0] = <<>> /\ Marks(t)[0] = <<>>
      BY <1>0, <3>1, MarksIs
    <3> QED
      BY <3>1, <3>2
  <2>2. ASSUME NEW i \in Nat, i \in S PROVE i + 1 \in S
    <3> SUFFICES ASSUME i + 1 <= N
                 PROVE  /\ K[i + 1] \in Seq(Token \ {"eof"})
                        /\ Marks(K[i + 1])[Len(K[i + 1])] = Marks(t)[i + 1]
      OBVIOUS
    <3>1. i + 1 \in 1..e-1 /\ (i + 1) - 1 = i /\ i <= N /\ i + 1 \in 1..Len(t)
      BY <1>0, <1>2
    <3>2. K[i] \in Seq(Token \ {"eof"}) /\ Marks(K[i])[Len(K[i])] = Marks(t)[i]
      BY <2>2, <3>1
    <3>3. Marks(t)[i + 1] = Mark(Marks(t)[i], t[i + 1]) /\ t[i + 1] \in Token
      BY <1>0, <3>1, MarksIs
    <3>4. CASE t[i + 1] = "eof"
      <4>1. K[i + 1] = K[i]
        BY <1>1, <3>1, <3>4
      <4>2. Mark(Marks(t)[i], t[i + 1]) = Marks(t)[i]
        BY <3>4, PlainIs, MarkPlain
      <4> QED
        BY <3>2, <3>3, <4>1, <4>2
    <3>5. CASE t[i + 1] # "eof"
      <4>1. K[i + 1] = Append(K[i], t[i + 1]) /\ t[i + 1] \in Token \ {"eof"}
        BY <1>1, <3>1, <3>3, <3>5
      <4>2. K[i + 1] \in Seq(Token \ {"eof"}) /\ Len(K[i + 1]) = Len(K[i]) + 1
        BY <3>2, <4>1
      <4>3. Marks(K[i + 1])[Len(K[i]) + 1] = Mark(Marks(K[i])[Len(K[i])], t[i + 1])
        BY <3>2, <4>1, MarksAppend
      <4> QED
        BY <3>2, <3>3, <4>2, <4>3
    <3> QED
      BY <3>4, <3>5
  <2>3. \A i \in Nat : i \in S
    <3> HIDE DEF S
    <3> QED
      BY <2>1, <2>2, Induct
  <2> QED
    BY <1>2, <2>3
<1>4. ASSUME NEW i \in 0..N
      PROVE  /\ Len(K[i]) \in 0..Len(K[N])
             /\ \A m \in 1..Len(K[i]) : K[N][m] = K[i][m]
  <2> DEFINE S == {d \in Nat : i + d <= N => /\ Len(K[i]) \in 0..Len(K[i + d])
                                             /\ \A m \in 1..Len(K[i]) : K[i + d][m] = K[i][m]}
  <2>0. Len(K[i]) \in Nat /\ i \in Nat
    BY <1>2, <1>3
  <2>1. 0 \in S
    BY <2>0
  <2>2. ASSUME NEW d \in Nat, d \in S PROVE d + 1 \in S
    <3> SUFFICES ASSUME i + (d + 1) <= N
                 PROVE  /\ Len(K[i]) \in 0..Len(K[i + (d + 1)])
                        /\ \A m \in 1..Len(K[i]) : K[i + (d + 1)][m] = K[i][m]
      OBVIOUS
    <3>1. PICK p : p = i + d
      OBVIOUS
    <3>2. p \in 0..N /\ p + 1 \in 1..e-1 /\ (p + 1) - 1 = p /\ i + (d + 1) = p + 1 /\ i + d <= N
      BY <1>2, <2>0, <3>1
    <3>3. Len(K[i]) \in 0..Len(K[p]) /\ \A m \in 1..Len(K[i]) : K[p][m] = K[i][m]
      BY <2>2, <3>1, <3>2
    <3>4. K[p] \in Seq(Token \ {"eof"})
      BY <1>3, <3>2
    <3>5. Len(K[p]) \in 0..Len(K[p + 1]) /\ \A m \in 1..Len(K[p]) : K[p + 1][m] = K[p][m]
      <4>1. CASE t[p + 1] = "eof"
        <5>1. K[p + 1] = K[p]
          BY <1>1, <3>2, <4>1
        <5> QED
          BY <3>4, <5>1
      <4>2. CASE t[p + 1] # "eof"
        <5>1. K[p + 1] = Append(K[p], t[p + 1])
          BY <1>1, <3>2, <4>2
        <5> QED
          BY <3>4, <5>1, SMTT(40)
      <4> QED
        BY <4>1, <4>2
    <3>6. K[p + 1] \in Seq(Token \ {"eof"})
      BY <1>3, <1>2, <3>2
    <3>7. Len(K[i]) \in 0..Len(K[p + 1])
      BY <2>0, <3>3, <3>4, <3>5, <3>6, SMTT(40)
    <3>8. ASSUME NEW m \in 1..Len(K[i]) PROVE K[p + 1][m] = K[i][m]
      <4>1. m \in 1..Len(K[p])
        BY <2>0, <3>3, <3>4
      <4> QED
        BY <3>3, <3>5, <4>1
    <3> QED
      BY <3>2, <3>7, <3>8
  <2>3. N - i \in S
    <3>1. N - i \in Nat
      BY <1>2, <2>0
    <3> HIDE DEF S
    <3> QED
      BY <2>1, <2>2, <3>1, Induct
  <2>4. i + (N - i) = N
    BY <1>2, <2>0
  <2> QED
    BY <1>2, <2>3, <2>4
<1>5. ASSUME \A k \in 2..Len(K[N]) : K[N][k] = "esac" => K[N][k - 1] = ";;",
             NEW k \in 2..N, t[k] = "esac", t[k - 1] \notin EndOf
      PROVE  t[k - 1] = ";;"
  <2>1. /\ k \in 0..N /\ k \in 1..e-1 /\ k - 1 \in 1..e-1 /\ (k - 1) - 1 \in 0..N
        /\ k - 1 \in 0..N
    BY <1>2, <1>0
  <2>2. t[k] # "eof" /\ t[k - 1] # "eof"
    BY <1>5 DEF EndOf
  <2>3. PICK s \in Seq(Token \ {"eof"}) : s = K[(k - 1) - 1]
    BY <1>3, <2>1
  <2>4. K[k - 1] = Append(s, t[k - 1]) /\ t[k - 1] \in Token \ {"eof"}
    BY <1>0, <1>1, <2>1, <2>2, <2>3
  <2>5. K[k] = Append(Append(s, t[k - 1]), "esac")
    BY <1>1, <1>5, <2>1, <2>2, <2>4
  <2>6. /\ Len(s) \in Nat /\ Len(K[k]) = Len(s) + 2
        /\ K[k][Len(s) + 2] = "esac" /\ K[k][Len(s) + 1] = t[k - 1]
    <3>1. PICK r \in Seq(Token \ {"eof"}) : r = Append(s, t[k - 1])
      BY <2>4, SMTT(40)
    <3>2. Len(r) = Len(s) + 1 /\ r[Len(s) + 1] = t[k - 1] /\ Len(s) \in Nat
      BY <2>4, <3>1
    <3>3. "esac" \in Token \ {"eof"}
      BY DEF Token, Reserved
    <3>4. K[k] = Append(r, "esac")
      BY <2>5, <3>1
    <3>5. Len(K[k]) = Len(r) + 1 /\ K[k][Len(r) + 1] = "esac" /\ \A m \in 1..Len(r) : K[k][m] = r[m]
      BY <3>3, <3>4
    <3>6. Len(r) + 1 = Len(s) + 2 /\ Len(s) + 1 \in 1..Len(r)
      BY <3>2
    <3> QED
      BY <3>2, <3>5, <3>6
  <2>7. Len(K[N]) \in Nat
    BY <1>2, <1>3
  <2>8. Len(s) + 2 \in 2..Len(K[N]) /\ (Len(s) + 2) - 1 = Len(s) + 1
        /\ Len(s) + 2 \in 1..Len(K[k]) /\ Len(s) + 1 \in 1..Len(K[k])
    BY <1>4, <2>1, <2>6, <2>7
  <2>9. K[N][Len(s) + 2] = "esac" /\ K[N][Len(s) + 1] = t[k - 1]
    BY <1>4, <2>1, <2>6, <2>8
  <2> QED
    BY <1>5, <2>8, <2>9
<1>6. N \in 0..N
  BY <1>2
<1> QED
  BY <1>1, <1>3, <1>5, <1>6 DEF Claused

\* From the end that was found to the first "eof"
LEMMA RestIs ==
  ASSUME NEW t, Ended(t), NEW e \in 1..Len(t)
  PROVE  /\ Rest(t, e) \in Seq(Token) /\ Len(Rest(t, e)) > 0 /\ Rest(t, e)[1] = t[e]
         /\ \A k \in 1..Len(Rest(t, e)) : Rest(t, e)[k] = "eof" <=> k = Len(Rest(t, e))
<1>0. /\ Len(t) \in Nat /\ e \in Nat /\ t[Len(t)] = "eof" /\ t \in Seq(Token)
      /\ \A i \in 1..Len(t) : t[i] \in Token
  BY EndedIs DEF Ended
<1>1. PICK p : p = Past(t, e, Token \ {"eof"})
  OBVIOUS
<1>2. p \in e..Len(t) /\ t[p] \notin Token \ {"eof"} /\ \A k \in e..p-1 : t[k] \in Token \ {"eof"}
  <2>1. ~ \A k \in e..Len(t) : t[k] \in Token \ {"eof"}
    BY <1>0
  <2> QED
    BY <1>0, <1>1, <2>1, PastIs
<1>3. p \in 1..Len(t) /\ t[p] = "eof"
  BY <1>0, <1>2
<1>4. PICK r : r = SubSeq(t, e, p)
  OBVIOUS
<1>5. Rest(t, e) = r
  BY <1>1, <1>4 DEF Rest
<1>6. r \in Seq(Token) /\ Len(r) = p - e + 1 /\ \A k \in 1..p-e+1 : r[k] = t[e + k - 1]
  BY <1>0, <1>2, <1>3, <1>4
<1>7. Len(r) > 0 /\ r[1] = t[e]
  BY <1>0, <1>2, <1>6
<1>8. ASSUME NEW k \in 1..Len(r) PROVE r[k] = "eof" <=> k = Len(r)
  <2>1. r[k] = t[e + k - 1] /\ e + k - 1 \in e..p
    BY <1>0, <1>2, <1>6
  <2>2. CASE k = Len(r)
    BY <1>0, <1>2, <1>3, <1>6, <2>1, <2>2
  <2>3. CASE k # Len(r)
    <3>1. e + k - 1 \in e..p-1
      BY <1>0, <1>2, <1>6, <2>1, <2>3
    <3> QED
      BY <1>2, <2>1, <2>3, <3>1
  <2> QED
    BY <2>2, <2>3
<1> QED
  BY <1>5, <1>6, <1>7, <1>8

\* What is typed is a list of as many tokens, and the last is still the "eof".
LEMMA LexerIs ==
  ASSUME NEW s \in Seq(Token), s # <<>>, s[Len(s)] = "eof"
  PROVE  Ended(lexer_c(s))
<1>1. Len(s) \in Nat \ {0} /\ \A i \in 1..Len(s) : s[i] \in Token
  OBVIOUS
<1>2. "word" \in Token /\ "eof" \in EndOf /\ "eof" # "in"
  BY DEF Token, Words, EndOf
<1>3. \A c : \A x \in Token : Read(c, x).tok \in Token
  BY <1>2 DEF Read
<1>4. \A c : Read(c, "eof").tok = "eof"
  BY <1>2 DEF Read
<1>5. PICK r : r = lexer_c(s)
  OBVIOUS
<1>6. r = [i \in 1..Len(s) |-> Read(Contexts(s)[i - 1], s[i]).tok]
  BY <1>5 DEF lexer_c
<1>7. r \in [1..Len(s) -> Token]
  BY <1>1, <1>3, <1>6
<1>8. r \in Seq(Token) /\ Len(r) = Len(s)
  BY <1>1, <1>7
<1>9. r[Len(s)] = "eof"
  BY <1>1, <1>4, <1>6
<1> QED
  BY <1>1, <1>5, <1>8, <1>9 DEF Ended

----------------------------------------------------------------------------
(* The behaviours                                                          *)

\* The list as the lexer leaves it, and what a verdict leaves of it
Lexed == phase = "lexed" => Ended(toks)
Typed == typed \in Inputs /\ (phase = "typed" => toks = <<>>)
Unended == ~Accepted => end = NULL

Inv == TypeOK /\ AcceptedIsBalanced /\ Lexed /\ Typed /\ Unended

\* What is typed has not been looked at yet.
LEMMA InitInv == Init => Inv
<1> SUFFICES ASSUME Init PROVE Inv
  OBVIOUS
<1>1. typed \in Seq(Token) /\ Len(toks) = 0 /\ toks \in Seq(Token) /\ end \in 0..Len(toks)
  BY InputsAssumption, NullIs DEF Init
<1>2. phase = "typed" /\ ~Accepted
  BY DEF Init, Accepted
<1>3. TypeOK
  BY <1>1, <1>2 DEF TypeOK
<1> QED
  BY <1>2, <1>3 DEF Init, Inv, AcceptedIsBalanced, Lexed, Typed, Unended

\* The lexer leaves a list that ends with an "eof".
LEMMA LexInv ==
  ASSUME Inv, Lex
  PROVE  Inv'
<1>1. typed \in Seq(Token) /\ typed # <<>> /\ typed[Len(typed)] = "eof"
  BY InputsAssumption DEF Inv, Typed
<1>2. Ended(toks') /\ phase' = "lexed" /\ phase = "typed" /\ typed' = typed /\ end' = end
  BY <1>1, LexerIs DEF Lex
<1>3. ~Accepted' /\ ~Accepted
  BY <1>2 DEF Accepted
<1>4. end' = NULL /\ toks' \in Seq(Token) /\ toks' # <<>>
  BY <1>2, <1>3 DEF Inv, Unended, Ended
<1>5. end' \in 0..Len(toks')
  <2>1. Len(toks') \in Nat
    BY <1>4
  <2> QED
    BY <1>4, <2>1, NullIs
<1>6. TypeOK'
  BY <1>1, <1>2, <1>3, <1>4, <1>5 DEF TypeOK
<1>7. Typed'
  BY <1>2 DEF Inv, Typed
<1> QED
  BY <1>2, <1>3, <1>4, <1>6, <1>7 DEF Inv, AcceptedIsBalanced, Lexed, Unended

\* A line that is found to have an end: the list that is left of it
LEMMA CheckedIs ==
  ASSUME NEW t, Ended(t), NEW e \in 1..Len(t), t[e] \in EndOf,
         Claused(t, e - 1) => Marks(t)[e - 1] = <<>>,
         NEW u, u = Before(t, e) \o Rest(t, e), NEW n, n = Len(Before(t, e)) + 1
  PROVE  /\ u \in Seq(Token) /\ u # <<>> /\ n \in 1..Len(u) /\ u[n] \in EndOf
         /\ \A i \in 1..Len(u) : u[i] = "eof" <=> i = Len(u)
         /\ ~NoClause(u) => Balanced(SubSeq(u, 1, n - 1))
<1>1. PICK b : b = Before(t, e)
  OBVIOUS
<1>2. PICK r : r = Rest(t, e)
  OBVIOUS
<1>3. /\ b \in Seq(Token \ {"eof"}) /\ Marks(b)[Len(b)] = Marks(t)[e - 1]
      /\ (\A k \in 2..Len(b) : b[k] = "esac" => b[k - 1] = ";;") => Claused(t, e - 1)
  BY <1>1, BeforeFine
<1>4. /\ r \in Seq(Token) /\ Len(r) > 0 /\ r[1] = t[e]
      /\ \A k \in 1..Len(r) : r[k] = "eof" <=> k = Len(r)
  BY <1>2, RestIs
<1>5. /\ Len(b) \in Nat /\ Len(r) \in Nat /\ b \in Seq(Token) /\ u = b \o r /\ n = Len(b) + 1
      /\ \A k \in 1..Len(b) : b[k] \in Token /\ b[k] # "eof"
  <2>1. PICK T : T = Token \ {"eof"}
    OBVIOUS
  <2>2. T \subseteq Token /\ "eof" \notin T
    BY <2>1
  <2>3. b \in Seq(T)
    BY <1>3, <2>1
  <2>4. b \in Seq(Token) /\ Len(b) \in Nat /\ \A k \in 1..Len(b) : b[k] \in T
    BY <2>2, <2>3
  <2>5. Len(r) \in Nat
    BY <1>4
  <2> QED
    BY <1>1, <1>2, <2>2, <2>4, <2>5
<1>6. u \in Seq(Token) /\ Len(u) = Len(b) + Len(r)
  BY <1>4, <1>5
<1>7. /\ \A k \in 1..Len(b) : u[k] = b[k]
      /\ \A k \in Len(b)+1..Len(b)+Len(r) : u[k] = r[k - Len(b)]
  BY <1>4, <1>5
<1>8. u # <<>> /\ n \in 1..Len(u) /\ u[n] = r[1]
  BY <1>4, <1>5, <1>6, <1>7
<1>9. ASSUME NEW i \in 1..Len(u) PROVE u[i] = "eof" <=> i = Len(u)
  <2>1. CASE i <= Len(b)
    BY <1>4, <1>5, <1>6, <1>7, <2>1
  <2>2. CASE i > Len(b)
    <3>1. u[i] = r[i - Len(b)] /\ i - Len(b) \in 1..Len(r)
      BY <1>5, <1>6, <1>7, <2>2
    <3>2. i - Len(b) = Len(r) <=> i = Len(u)
      BY <1>5, <1>6
    <3> QED
      BY <1>4, <3>1, <3>2
  <2> QED
    BY <1>5, <2>1, <2>2
<1>10. ASSUME ~NoClause(u) PROVE Balanced(SubSeq(u, 1, n - 1))
  <2>1. ASSUME NEW k \in 2..Len(b), b[k] = "esac" PROVE b[k - 1] = ";;"
    <3>1. k \in 2..Len(u) /\ k \in 1..Len(b) /\ k - 1 \in 1..Len(b)
      BY <1>4, <1>5, <1>6
    <3>2. u[k] = "esac" /\ u[k - 1] = b[k - 1]
      BY <1>7, <2>1, <3>1
    <3> QED
      BY <1>10, <3>1, <3>2 DEF NoClause
  <2>2. Marks(b)[Len(b)] = <<>>
    BY <1>3, <2>1
  <2>3. SubSeq(u, 1, n - 1) = b
    <3>1. n - 1 = Len(b) /\ Len(b) <= Len(u)
      BY <1>5, <1>6
    <3>2. PICK w : w = SubSeq(u, 1, Len(b))
      OBVIOUS
    <3>3. w \in Seq(Token) /\ Len(w) = Len(b) /\ \A k \in 1..Len(b) : w[k] = u[k]
      BY <1>5, <1>6, <3>1, <3>2
    <3>4. w = b
      <4>1. \A k \in 1..Len(w) : w[k] = b[k]
        BY <1>7, <3>3
      <4> QED
        BY <1>5, <3>3, <4>1, SeqEqual
    <3> QED
      BY <3>1, <3>2, <3>4
  <2> QED
    BY <2>2, <2>3 DEF Balanced
<1> QED
  BY <1>4, <1>6, <1>8, <1>9, <1>10

\* grammar_check() refuses the list, or finds its end.
LEMMA CheckInv ==
  ASSUME Inv, Check
  PROVE  Inv'
<1>1. phase = "lexed" /\ Ended(toks) /\ typed' = typed /\ ~Accepted
  BY DEF Check, Inv, Lexed, Accepted
<1>2. PICK e : e = grammar_check(toks)
  OBVIOUS
<1>3. \/ /\ e > 0 /\ toks' = Before(toks, e) \o Rest(toks, e)
         /\ end' = Len(Before(toks, e)) + 1 /\ phase' = "checked"
      \/ /\ phase' \in {"hung", "refused"} /\ toks' = toks /\ end' = end
  BY <1>2 DEF Check
<1>4. /\ e \in Int
      /\ e > 0 => /\ e \in 1..Len(toks) /\ toks[e] \in EndOf
                  /\ Claused(toks, e - 1) => Marks(toks)[e - 1] = <<>>
  BY <1>1, <1>2, GrammarCheckIs
<1>5. typed' \in Seq(Token) /\ Typed'
  BY <1>1, <1>3 DEF Inv, Typed, TypeOK
<1>6. CASE /\ e > 0 /\ toks' = Before(toks, e) \o Rest(toks, e)
           /\ end' = Len(Before(toks, e)) + 1 /\ phase' = "checked"
  <2>1. PICK u, n : u = toks' /\ n = end'
    OBVIOUS
  <2>2. /\ u \in Seq(Token) /\ u # <<>> /\ n \in 1..Len(u) /\ u[n] \in EndOf
        /\ \A i \in 1..Len(u) : u[i] = "eof" <=> i = Len(u)
        /\ ~NoClause(u) => Balanced(SubSeq(u, 1, n - 1))
    BY <1>1, <1>4, <1>6, <2>1, CheckedIs
  <2>3. n \in 0..Len(u) /\ n # NULL /\ DOMAIN u = 1..Len(u)
    BY <2>2, NullIs
  <2>4. TypeOK'
    BY <1>5, <1>6, <2>1, <2>2, <2>3 DEF TypeOK
  <2>5. AcceptedIsBalanced'
    BY <2>1, <2>2 DEF AcceptedIsBalanced
  <2>6. Accepted' /\ Lexed'
    BY <1>6 DEF Accepted, Lexed
  <2> QED
    BY <1>5, <2>4, <2>5, <2>6 DEF Inv, Unended
<1>7. CASE phase' \in {"hung", "refused"} /\ toks' = toks /\ end' = end
  <2>1. ~Accepted' /\ Lexed'
    BY <1>7 DEF Accepted, Lexed
  <2>2. toks' \in Seq(Token) /\ toks' # <<>> /\ end' \in 0..Len(toks') /\ end' = NULL
    BY <1>1, <1>7 DEF Inv, TypeOK, Ended, Unended
  <2>3. TypeOK'
    BY <1>5, <1>7, <2>1, <2>2 DEF TypeOK
  <2> QED
    BY <1>5, <2>1, <2>2, <2>3 DEF Inv, Unended, AcceptedIsBalanced
<1> QED
  BY <1>3, <1>6, <1>7

\* The tree is built of the list as it is.
LEMMA BuildInv ==
  ASSUME Inv, Build
  PROVE  Inv'
<1>1. /\ phase = "checked" /\ phase' \in {"built", "crashed"}
      /\ typed' = typed /\ toks' = toks /\ end' = end
  BY DEF Build
<1>2. Accepted /\ Accepted'
  BY <1>1 DEF Accepted
<1>3. TypeOK'
  BY <1>1, <1>2 DEF Inv, TypeOK
<1>4. AcceptedIsBalanced'
  BY <1>1, <1>2 DEF Inv, AcceptedIsBalanced
<1> QED
  BY <1>1, <1>2, <1>3, <1>4 DEF Inv, Lexed, Typed, Unended

\* Every step keeps the invariant.
LEMMA NextInv == Inv /\ [Next]_vars => Inv'
<1> SUFFICES ASSUME Inv, [Next]_vars PROVE Inv'
  OBVIOUS
<1>1. CASE Lex
  BY <1>1, LexInv
<1>2. CASE Check
  BY <1>2, CheckInv
<1>3. CASE Build
  BY <1>3, BuildInv
<1>4. CASE UNCHANGED vars
  BY <1>4 DEF vars, Inv, TypeOK, AcceptedIsBalanced, Accepted, Lexed, Typed, Unended
<1> QED
  BY <1>1, <1>2, <1>3, <1>4 DEF Next

\* The invariant holds of every behaviour.
THEOREM InvAlways == Spec => []Inv
<1> QED
  BY InitInv, NextInv, PTL DEF Spec

\* Of every line that is accepted, the end is a newline or the only "eof": the list
\* build_ast() is given has one, and it is its last (src/grammar/grammar_check.c).
THEOREM TypeCorrect == Spec => []TypeOK
<1>1. Inv => TypeOK
  BY DEF Inv
<1> QED
  BY <1>1, InvAlways, PTL

\* Whatever is typed, however many lines are joined, a line that grammar_check()
\* accepts closes its constructs in the order it opened them (src/grammar).
THEOREM AcceptedAlwaysBalanced == Spec => []AcceptedIsBalanced
<1>1. Inv => AcceptedIsBalanced
  BY DEF Inv
<1> QED
  BY <1>1, InvAlways, PTL
=============================================================================
