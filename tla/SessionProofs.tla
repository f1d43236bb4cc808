--------------------------- MODULE SessionProofs ---------------------------
(***************************************************************************)
(* Theorems about aliases and the history file, for any number of lines,   *)
(* commands, kills and restarts, any names and buckets, and any other      *)
(* shell.                                                                  *)
(***************************************************************************)
EXTENDS Session, SequenceTheorems, TLAPS

----------------------------------------------------------------------------
(* The tables of Assignments.                                              *)

EntryOf(V) == [name : Name, value : V]
Table(V) == [chain : [Bucket -> Seq(EntryOf(V))], headless : SUBSET Bucket]

\* A name has one entry, in the bucket where it is looked for.
OneEach(c, b) ==
  \A i \in DOMAIN c : /\ hash[c[i].name] = b
                      /\ \A j \in DOMAIN c : c[i].name = c[j].name => i = j
Sorted(t) == \A b \in Bucket : OneEach(t.chain[b], b)

\* A bucket that lost its head is empty.
Headed(t) == \A b \in t.headless : t.chain[b] = <<>>

Names(t) == {n \in Name : Has(t, n)}

USE HashAssumption

\* A new table has no name.
LEMMA NewTableProperties ==
  ASSUME NEW V
  PROVE  NewTable \in Table(V) /\ Sorted(NewTable) /\ Headed(NewTable) /\ Names(NewTable) = {}
<1>1. NewTable \in Table(V)
  <2>1. <<>> \in Seq(EntryOf(V))
    OBVIOUS
  <2> QED
    BY <2>1 DEF NewTable, Table
<1>2. \A b \in Bucket : NewTable.chain[b] = <<>>
  BY DEF NewTable
<1>3. \A n \in Name : Chain(NewTable, n) = <<>>
  BY <1>2 DEF Chain
<1> QED
  <2>1. Sorted(NewTable)
    BY <1>2 DEF Sorted, OneEach
  <2>2. Headed(NewTable)
    BY DEF Headed, NewTable
  <2>3. Names(NewTable) = {}
    BY <1>3 DEF Names, Has
  <2> QED
    BY <1>1, <2>1, <2>2, <2>3

\* The chain a name is looked for in
LEMMA ChainType ==
  ASSUME NEW V, NEW t \in Table(V), NEW n \in Name
  PROVE  /\ hash[n] \in Bucket /\ Chain(t, n) = t.chain[hash[n]]
         /\ Chain(t, n) \in Seq(EntryOf(V)) /\ Len(Chain(t, n)) \in Nat
         /\ DOMAIN Chain(t, n) = 1..Len(Chain(t, n))
         /\ \A i \in DOMAIN Chain(t, n) : Chain(t, n)[i] \in EntryOf(V)
<1>1. hash[n] \in Bucket /\ t.chain[hash[n]] \in Seq(EntryOf(V))
  BY DEF Table
<1>2. Chain(t, n) = t.chain[hash[n]]
  BY DEF Chain
<1> HIDE DEF Table
<1> QED
  BY <1>1, <1>2

\* The search finds the only entry of a name.
LEMMA PlaceProperties ==
  ASSUME NEW V, NEW t \in Table(V), Sorted(t), NEW n \in Name, Has(t, n)
  PROVE  /\ Place(t, n) \in DOMAIN Chain(t, n) /\ Place(t, n) \in 1..Len(Chain(t, n))
         /\ Chain(t, n)[Place(t, n)] = [name |-> n, value |-> ValueOf(t, n)]
         /\ ValueOf(t, n) \in V
         /\ \A i \in DOMAIN Chain(t, n) : Chain(t, n)[i].name = n => i = Place(t, n)
<1> DEFINE c == Chain(t, n)
<1>1. /\ hash[n] \in Bucket /\ c = t.chain[hash[n]] /\ DOMAIN c = 1..Len(c) /\ Len(c) \in Nat
      /\ \A i \in DOMAIN c : c[i] \in EntryOf(V)
  BY ChainType
<1>2. \A i, j \in DOMAIN c : c[i].name = c[j].name => i = j
  BY <1>1 DEF Sorted, OneEach
<1>3. PICK k \in DOMAIN c : c[k].name = n
  BY DEF Has
<1>4. \A j \in 1..k-1 : c[j].name # n
  BY <1>1, <1>2, <1>3
<1>5. Place(t, n) \in DOMAIN c /\ c[Place(t, n)].name = n
  BY <1>3, <1>4 DEF Place
<1>6. c[Place(t, n)] \in EntryOf(V) /\ ValueOf(t, n) = c[Place(t, n)].value
  BY <1>1, <1>5 DEF ValueOf
<1> HIDE DEF c
<1>7. c[Place(t, n)] = [name |-> n, value |-> ValueOf(t, n)] /\ ValueOf(t, n) \in V
  BY <1>5, <1>6 DEF EntryOf
<1> QED
  BY <1>1, <1>2, <1>5, <1>7 DEF c

----------------------------------------------------------------------------
(* One chain is replaced by another.                                       *)

With(t, n, c, h) == [chain |-> [t.chain EXCEPT ![hash[n]] = c], headless |-> h]

\* What is found in u, which is t with the chain c in the bucket of n
SameBut(u, t, n, c) ==
  /\ u.chain[hash[n]] = c /\ \A b \in Bucket : b # hash[n] => u.chain[b] = t.chain[b]
  /\ \A k \in Name : hash[k] # hash[n] =>
       (Has(u, k) <=> Has(t, k)) /\ ValueOf(u, k) = ValueOf(t, k)
  /\ \A k \in Name : hash[k] = hash[n] =>
       /\ Has(u, k) <=> \E i \in DOMAIN c : c[i].name = k
       /\ \A i \in DOMAIN c : c[i].name = k => ValueOf(u, k) = c[i].value

LEMMA WithProperties ==
  ASSUME NEW V, NEW t \in Table(V), Sorted(t), NEW n \in Name, NEW c \in Seq(EntryOf(V)),
         NEW h \in SUBSET Bucket, OneEach(c, hash[n]), NEW u, u = With(t, n, c, h)
  PROVE  u \in Table(V) /\ Sorted(u) /\ u.headless = h /\ SameBut(u, t, n, c)
<1>1. hash[n] \in Bucket /\ t.chain \in [Bucket -> Seq(EntryOf(V))]
  BY DEF Table
<1>2. /\ u.headless = h /\ u.chain \in [Bucket -> Seq(EntryOf(V))] /\ u.chain[hash[n]] = c
      /\ \A b \in Bucket : b # hash[n] => u.chain[b] = t.chain[b]
  BY <1>1 DEF With
<1>3. u \in Table(V)
  BY <1>2 DEF Table, With
<1>4. \A k \in Name : Chain(u, k) = IF hash[k] = hash[n] THEN c ELSE Chain(t, k)
  BY <1>2 DEF Chain
<1>5. Sorted(u)
  <2>1. ASSUME NEW b \in Bucket PROVE OneEach(u.chain[b], b)
    <3>1. CASE b = hash[n]
      BY <1>2, <3>1
    <3>2. CASE b # hash[n]
      BY <1>2, <3>2 DEF Sorted
    <3> QED
      BY <3>1, <3>2
  <2> QED
    BY <2>1 DEF Sorted
<1>6. ASSUME NEW k \in Name, hash[k] # hash[n]
      PROVE  (Has(u, k) <=> Has(t, k)) /\ ValueOf(u, k) = ValueOf(t, k)
  <2>1. Chain(u, k) = Chain(t, k)
    BY <1>4, <1>6
  <2>2. Place(u, k) = Place(t, k)
    BY <2>1 DEF Place
  <2> QED
    BY <2>1, <2>2 DEF Has, ValueOf
<1>7. ASSUME NEW k \in Name, hash[k] = hash[n]
      PROVE  /\ Has(u, k) <=> \E i \in DOMAIN c : c[i].name = k
             /\ \A i \in DOMAIN c : c[i].name = k => ValueOf(u, k) = c[i].value
  <2>1. Chain(u, k) = c
    BY <1>4, <1>7
  <2>2. Has(u, k) <=> \E i \in DOMAIN c : c[i].name = k
    BY <2>1 DEF Has
  <2>3. ASSUME NEW i \in DOMAIN c, c[i].name = k
        PROVE  ValueOf(u, k) = c[i].value
    <3>1. Has(u, k)
      BY <2>2, <2>3
    <3>2. \A j \in DOMAIN Chain(u, k) : Chain(u, k)[j].name = k => j = Place(u, k)
      BY <1>3, <1>5, <3>1, PlaceProperties
    <3>3. i = Place(u, k)
      BY <2>1, <2>3, <3>2
    <3> QED
      BY <2>1, <3>3 DEF ValueOf
  <2> QED
    BY <2>2, <2>3
<1> QED
  BY <1>2, <1>3, <1>5, <1>6, <1>7 DEF SameBut

\* add_assignment() of a new name: the table has one name more.
LEMMA EnterProperties ==
  ASSUME NEW V, NEW t \in Table(V), Sorted(t), NEW n \in Name, ~Has(t, n), NEW v \in V
  PROVE  /\ Enter(t, n, v) \in Table(V) /\ Sorted(Enter(t, n, v))
         /\ Enter(t, n, v).headless = t.headless
         /\ \A b \in Bucket : b # hash[n] => Enter(t, n, v).chain[b] = t.chain[b]
         /\ Names(Enter(t, n, v)) = Names(t) \union {n}
         /\ \A k \in Names(t) : k # n /\ ValueOf(Enter(t, n, v), k) = ValueOf(t, k)
         /\ ValueOf(Enter(t, n, v), n) = v
<1> DEFINE e == [name |-> n, value |-> v]
           c == Append(Chain(t, n), e)
           u == With(t, n, c, t.headless)
<1>1. e \in EntryOf(V) /\ e.name = n /\ e.value = v
  BY DEF EntryOf
<1> HIDE DEF e
<1>2. /\ Chain(t, n) \in Seq(EntryOf(V)) /\ Chain(t, n) = t.chain[hash[n]] /\ hash[n] \in Bucket
      /\ DOMAIN Chain(t, n) = 1..Len(Chain(t, n)) /\ Len(Chain(t, n)) \in Nat
  BY ChainType
<1>3. /\ c \in Seq(EntryOf(V)) /\ DOMAIN c = 1..Len(Chain(t, n)) + 1
      /\ \A i \in 1..Len(Chain(t, n)) : c[i] = Chain(t, n)[i]
      /\ c[Len(Chain(t, n)) + 1] = e
  BY <1>1, <1>2, AppendProperties
<1>4. Enter(t, n, v) = u
  <2>1. t = [chain |-> t.chain, headless |-> t.headless]
    BY DEF Table
  <2>2. Enter(t, n, v) = [t EXCEPT !.chain = [t.chain EXCEPT ![hash[n]] = Append(t.chain[hash[n]], e)]]
    BY <1>2, <2>1 DEF Enter, e, Table
  <2> QED
    BY <1>2, <2>1, <2>2 DEF With
<1> HIDE DEF c
<1>5. \A i \in DOMAIN c : \/ /\ i \in DOMAIN Chain(t, n) /\ c[i] = Chain(t, n)[i]
                             /\ hash[c[i].name] = hash[n] /\ c[i].name # n
                          \/ i = Len(Chain(t, n)) + 1 /\ c[i] = e
  BY <1>2, <1>3 DEF Sorted, OneEach, Has
<1>6. OneEach(c, hash[n])
  BY <1>1, <1>2, <1>5 DEF Sorted, OneEach
<1>7. t.headless \in SUBSET Bucket
  BY DEF Table
<1>8. /\ u \in Table(V) /\ Sorted(u) /\ u.headless = t.headless
      /\ \A b \in Bucket : b # hash[n] => u.chain[b] = t.chain[b]
      /\ \A k \in Name : hash[k] # hash[n] =>
           (Has(u, k) <=> Has(t, k)) /\ ValueOf(u, k) = ValueOf(t, k)
      /\ \A k \in Name : hash[k] = hash[n] =>
           /\ Has(u, k) <=> \E i \in DOMAIN c : c[i].name = k
           /\ \A i \in DOMAIN c : c[i].name = k => ValueOf(u, k) = c[i].value
  <2>1. u \in Table(V) /\ Sorted(u) /\ u.headless = t.headless /\ SameBut(u, t, n, c)
    BY <1>3, <1>6, <1>7, WithProperties
  <2> QED
    BY <2>1 DEF SameBut
<1> HIDE DEF u
<1>9. Has(u, n) /\ ValueOf(u, n) = v
  BY <1>1, <1>2, <1>3, <1>8
<1>10. ASSUME NEW k \in Name, k # n, hash[k] = hash[n]
       PROVE  (Has(u, k) <=> Has(t, k)) /\ (Has(t, k) => ValueOf(u, k) = ValueOf(t, k))
  <2>1. Chain(t, k) = Chain(t, n)
    BY <1>10 DEF Chain
  <2>2. Has(u, k) => Has(t, k)
    BY <1>1, <1>5, <1>8, <1>10, <2>1 DEF Has
  <2>3. ASSUME Has(t, k) PROVE Has(u, k) /\ ValueOf(u, k) = ValueOf(t, k)
    <3>1. /\ Place(t, k) \in DOMAIN Chain(t, n)
          /\ Chain(t, n)[Place(t, k)] = [name |-> k, value |-> ValueOf(t, k)]
      BY <2>1, <2>3, PlaceProperties
    <3>2. Place(t, k) \in DOMAIN c /\ c[Place(t, k)] = [name |-> k, value |-> ValueOf(t, k)]
      BY <1>2, <1>3, <3>1
    <3> QED
      BY <1>8, <1>10, <3>2
  <2> QED
    BY <2>2, <2>3
<1>11. Names(u) = Names(t) \union {n} /\ \A k \in Names(t) : k # n /\ ValueOf(u, k) = ValueOf(t, k)
  BY <1>8, <1>9, <1>10 DEF Names
<1> QED
  BY <1>4, <1>8, <1>9, <1>11

\* An entry that gets another value: the names stay, and so do the other values.
LEMMA OverwriteProperties ==
  ASSUME NEW V, NEW t \in Table(V), Sorted(t), NEW n \in Name, Has(t, n), NEW v \in V
  PROVE  /\ Overwrite(t, n, v) \in Table(V) /\ Sorted(Overwrite(t, n, v))
         /\ Overwrite(t, n, v).headless = t.headless
         /\ \A b \in Bucket : b # hash[n] => Overwrite(t, n, v).chain[b] = t.chain[b]
         /\ Overwrite(t, n, v).chain[hash[n]] # <<>> /\ t.chain[hash[n]] # <<>>
         /\ Names(Overwrite(t, n, v)) = Names(t)
         /\ \A k \in Names(t) : k # n => ValueOf(Overwrite(t, n, v), k) = ValueOf(t, k)
         /\ ValueOf(Overwrite(t, n, v), n) = v
<1> DEFINE e == [name |-> n, value |-> v]
           l == Place(t, n)
           c == [Chain(t, n) EXCEPT ![l] = e]
           u == With(t, n, c, t.headless)
<1>1. e \in EntryOf(V) /\ e.name = n /\ e.value = v
  BY DEF EntryOf
<1> HIDE DEF e
<1>2. /\ Chain(t, n) \in Seq(EntryOf(V)) /\ Chain(t, n) = t.chain[hash[n]] /\ hash[n] \in Bucket
      /\ DOMAIN Chain(t, n) = 1..Len(Chain(t, n)) /\ Len(Chain(t, n)) \in Nat
  BY ChainType
<1>3. /\ l \in DOMAIN Chain(t, n) /\ l \in 1..Len(Chain(t, n)) /\ Chain(t, n)[l].name = n
      /\ \A i \in DOMAIN Chain(t, n) : Chain(t, n)[i].name = n => i = l
  <2>1. /\ Place(t, n) \in DOMAIN Chain(t, n) /\ Place(t, n) \in 1..Len(Chain(t, n))
        /\ Chain(t, n)[Place(t, n)] = [name |-> n, value |-> ValueOf(t, n)]
        /\ \A i \in DOMAIN Chain(t, n) : Chain(t, n)[i].name = n => i = Place(t, n)
    BY PlaceProperties
  <2> QED
    BY <2>1
<1>4. Overwrite(t, n, v) = u
  <2>1. t = [chain |-> t.chain, headless |-> t.headless]
    BY DEF Table
  <2>2. Overwrite(t, n, v) = [t EXCEPT !.chain = [t.chain EXCEPT ![hash[n]] = c]]
    BY <1>2, <2>1 DEF Overwrite, e, Table
  <2> QED
    BY <1>2, <2>1, <2>2 DEF With
<1> HIDE DEF l
<1>5. /\ c \in Seq(EntryOf(V)) /\ DOMAIN c = DOMAIN Chain(t, n) /\ c[l] = e
      /\ \A i \in DOMAIN c : i # l => c[i] = Chain(t, n)[i]
  BY <1>1, <1>2, <1>3, ExceptSeq
<1> HIDE DEF c
<1>6. \A i \in DOMAIN c : c[i].name = Chain(t, n)[i].name
  BY <1>1, <1>3, <1>5
<1>7. OneEach(c, hash[n])
  BY <1>2, <1>5, <1>6, SMTT(40) DEF Sorted, OneEach
<1>8. t.headless \in SUBSET Bucket
  BY DEF Table
<1>9. /\ u \in Table(V) /\ Sorted(u) /\ u.headless = t.headless /\ u.chain[hash[n]] = c
      /\ \A b \in Bucket : b # hash[n] => u.chain[b] = t.chain[b]
      /\ \A k \in Name : hash[k] # hash[n] =>
           (Has(u, k) <=> Has(t, k)) /\ ValueOf(u, k) = ValueOf(t, k)
      /\ \A k \in Name : hash[k] = hash[n] =>
           /\ Has(u, k) <=> \E i \in DOMAIN c : c[i].name = k
           /\ \A i \in DOMAIN c : c[i].name = k => ValueOf(u, k) = c[i].value
  <2>1. u \in Table(V) /\ Sorted(u) /\ u.headless = t.headless /\ SameBut(u, t, n, c)
    BY <1>5, <1>7, <1>8, WithProperties
  <2> QED
    BY <2>1 DEF SameBut
<1> HIDE DEF u
<1>10. Has(u, n) /\ ValueOf(u, n) = v
  BY <1>1, <1>3, <1>5, <1>9
<1>11. ASSUME NEW k \in Name, k # n, hash[k] = hash[n]
       PROVE  (Has(u, k) <=> Has(t, k)) /\ (Has(t, k) => ValueOf(u, k) = ValueOf(t, k))
  <2>1. Chain(t, k) = Chain(t, n)
    BY <1>11 DEF Chain
  <2>2. Has(u, k) <=> Has(t, k)
    BY <1>5, <1>6, <1>9, <1>11, <2>1 DEF Has
  <2>3. ASSUME Has(t, k) PROVE ValueOf(u, k) = ValueOf(t, k)
    <3>1. /\ Place(t, k) \in DOMAIN Chain(t, n)
          /\ Chain(t, n)[Place(t, k)] = [name |-> k, value |-> ValueOf(t, k)]
      BY <2>1, <2>3, PlaceProperties
    <3>2. Place(t, k) # l
      BY <1>3, <1>11, <3>1
    <3>3. Place(t, k) \in DOMAIN c /\ c[Place(t, k)] = [name |-> k, value |-> ValueOf(t, k)]
      BY <1>5, <3>1, <3>2
    <3> QED
      BY <1>9, <1>11, <3>3
  <2> QED
    BY <2>2, <2>3
<1>12. Names(u) = Names(t) /\ \A k \in Names(t) : k # n => ValueOf(u, k) = ValueOf(t, k)
  BY <1>9, <1>10, <1>11 DEF Names
<1>13. c # <<>> /\ t.chain[hash[n]] # <<>>
  BY <1>2, <1>3, <1>5
<1> QED
  BY <1>4, <1>9, <1>10, <1>12, <1>13

\* A sequence without what is between two places
Cut(c, p, q) == SubSeq(c, 1, p) \o SubSeq(c, q, Len(c))

WithoutPart(s, c, p, q) ==
  /\ Len(s) = p + (Len(c) - q + 1) /\ DOMAIN s = 1..p + (Len(c) - q + 1)
  /\ \A i \in 1..p : i \in DOMAIN s /\ s[i] = c[i]
  /\ \A i \in q..Len(c) : i - q + 1 + p \in DOMAIN s /\ s[i - q + 1 + p] = c[i]
  /\ \A i \in DOMAIN s : \/ i <= p /\ i \in 1..p /\ s[i] = c[i]
                         \/ i > p /\ i - p + q - 1 \in q..Len(c) /\ s[i] = c[i - p + q - 1]

LEMMA CutProperties ==
  ASSUME NEW S, NEW c \in Seq(S), NEW p \in 0..Len(c), NEW q \in p+1..Len(c)+1,
         NEW s, s = Cut(c, p, q)
  PROVE  s \in Seq(S) /\ WithoutPart(s, c, p, q)
<1>1. Len(c) \in Nat /\ DOMAIN c = 1..Len(c) /\ p \in Int /\ q \in Int /\ p >= 0 /\ q >= p + 1
      /\ q <= Len(c) + 1 /\ p <= Len(c) /\ q >= 1
  OBVIOUS
<1>2. (\A i \in 1..p : c[i] \in S) /\ (\A i \in q..Len(c) : c[i] \in S)
  BY <1>1
<1>3. PICK a : a = SubSeq(c, 1, p)
  OBVIOUS
<1>4. PICK b : b = SubSeq(c, q, Len(c))
  OBVIOUS
<1>5. a \in Seq(S) /\ Len(a) = p /\ \A i \in 1..p : a[i] = c[i]
  <2>1. /\ SubSeq(c, 1, p) \in Seq(S) /\ Len(SubSeq(c, 1, p)) = IF 1 <= p THEN p - 1 + 1 ELSE 0
        /\ \A i \in 1..p - 1 + 1 : SubSeq(c, 1, p)[i] = c[1 + i - 1]
    BY <1>1, <1>2, SubSeqProperties
  <2>2. p - 1 + 1 = p /\ \A i \in 1..p : 1 + i - 1 = i
    BY <1>1
  <2> QED
    BY <1>1, <1>3, <2>1, <2>2
<1>6. b \in Seq(S) /\ Len(b) = Len(c) - q + 1 /\ \A i \in 1..Len(c) - q + 1 : b[i] = c[q + i - 1]
  <2>1. /\ SubSeq(c, q, Len(c)) \in Seq(S)
        /\ Len(SubSeq(c, q, Len(c))) = IF q <= Len(c) THEN Len(c) - q + 1 ELSE 0
        /\ \A i \in 1..Len(c) - q + 1 : SubSeq(c, q, Len(c))[i] = c[q + i - 1]
    BY <1>1, <1>2, SubSeqProperties
  <2> QED
    BY <1>1, <1>4, <2>1
<1>8. /\ s \in Seq(S) /\ Len(s) = Len(a) + Len(b)
      /\ \A i \in 1..Len(a) + Len(b) : s[i] = IF i <= Len(a) THEN a[i] ELSE b[i - Len(a)]
  <2>1. s = a \o b
    BY <1>3, <1>4 DEF Cut
  <2>2. /\ a \o b \in Seq(S) /\ Len(a \o b) = Len(a) + Len(b)
        /\ \A i \in 1..Len(a) + Len(b) : (a \o b)[i] = IF i <= Len(a) THEN a[i] ELSE b[i - Len(a)]
    BY <1>5, <1>6, ConcatProperties
  <2> QED
    BY <2>1, <2>2
<1>9. Len(s) = p + (Len(c) - q + 1) /\ DOMAIN s = 1..p + (Len(c) - q + 1)
  BY <1>5, <1>6, <1>8
<1>10. ASSUME NEW i \in 1..p PROVE i \in DOMAIN s /\ s[i] = c[i]
  <2>1. i \in Int /\ i >= 1 /\ i <= p /\ a[i] = c[i]
    BY <1>1, <1>5
  <2>2. i \in 1..Len(a) + Len(b) /\ i <= Len(a) /\ i \in DOMAIN s
    BY <1>1, <1>5, <1>6, <1>9, <2>1
  <2> QED
    BY <1>8, <2>1, <2>2
<1>11. ASSUME NEW j \in Int, j >= 1, j <= Len(c) - q + 1
       PROVE  j + p \in DOMAIN s /\ s[j + p] = c[q + j - 1]
  <2>1. b[j] = c[q + j - 1]
    BY <1>1, <1>6, <1>11
  <2>2. /\ j + p \in 1..Len(a) + Len(b) /\ ~(j + p <= Len(a)) /\ j + p - Len(a) = j
        /\ j + p \in DOMAIN s
    BY <1>1, <1>5, <1>6, <1>9, <1>11
  <2>3. PICK k : k = j + p
    OBVIOUS
  <2>4. s[k] = b[k - Len(a)]
    BY <1>8, <2>2, <2>3
  <2>5. k - Len(a) = j
    BY <2>2, <2>3
  <2>6. s[k] = c[q + j - 1]
    BY <2>1, <2>4, <2>5, Zenon
  <2>7. k \in DOMAIN s
    BY <2>2, <2>3
  <2> QED
    BY <2>3, <2>6, <2>7, Zenon
<1>12. ASSUME NEW i \in q..Len(c) PROVE i - q + 1 + p \in DOMAIN s /\ s[i - q + 1 + p] = c[i]
  <2>1. PICK j \in Int : j = i - q + 1
    BY <1>1
  <2>2. j >= 1 /\ j <= Len(c) - q + 1 /\ i - q + 1 + p = j + p /\ q + j - 1 = i
    BY <1>1, <2>1
  <2> QED
    BY <1>11, <2>1, <2>2
<1>13. ASSUME NEW i \in DOMAIN s
       PROVE  \/ i <= p /\ i \in 1..p /\ s[i] = c[i]
              \/ i > p /\ i - p + q - 1 \in q..Len(c) /\ s[i] = c[i - p + q - 1]
  <2>1. i \in Int /\ i >= 1 /\ i <= p + (Len(c) - q + 1)
    BY <1>1, <1>9
  <2>2. CASE i <= p
    BY <1>1, <1>10, <2>1, <2>2
  <2>3. CASE ~(i <= p)
    <3>1. PICK j \in Int : j = i - p
      BY <1>1, <2>1
    <3>2. /\ j >= 1 /\ j <= Len(c) - q + 1 /\ j + p = i /\ q + j - 1 = i - p + q - 1
          /\ i - p + q - 1 \in q..Len(c) /\ i > p
      BY <1>1, <2>1, <2>3, <3>1, SMTT(40)
    <3>3. s[j + p] = c[q + j - 1]
      BY <1>11, <3>1, <3>2
    <3> QED
      BY <3>2, <3>3
  <2> QED
    BY <2>2, <2>3
<1> QED
  BY <1>8, <1>9, <1>10, <1>12, <1>13 DEF WithoutPart

\* u is t without the entries between p and q of the chain of n.
Less(u, t, n, p, q) ==
  /\ Len(u.chain[hash[n]]) = p + (Len(Chain(t, n)) - q + 1)
  /\ \A b \in Bucket : b # hash[n] => u.chain[b] = t.chain[b]
  /\ Names(u) = {k \in Names(t) : hash[k] = hash[n] => Place(t, k) \notin p+1..q-1}
  /\ \A k \in Names(u) : ValueOf(u, k) = ValueOf(t, k)

\* A chain some entries of which are gone, the others in their order
LEMMA CutTable ==
  ASSUME NEW V, NEW t \in Table(V), Sorted(t), NEW n \in Name, NEW h \in SUBSET Bucket,
         NEW c, c = Chain(t, n),
         NEW p \in 0..Len(c), NEW q \in p+1..Len(c)+1,
         NEW u, u = With(t, n, Cut(c, p, q), h)
  PROVE  u \in Table(V) /\ Sorted(u) /\ u.headless = h /\ Less(u, t, n, p, q)
<1>1. /\ c \in Seq(EntryOf(V)) /\ c = t.chain[hash[n]] /\ hash[n] \in Bucket
      /\ DOMAIN c = 1..Len(c) /\ Len(c) \in Nat
  BY ChainType
<1>2. PICK s : s = Cut(c, p, q)
  OBVIOUS
<1>3. /\ s \in Seq(EntryOf(V)) /\ Len(s) = p + (Len(c) - q + 1)
      /\ DOMAIN s = 1..p + (Len(c) - q + 1)
      /\ \A i \in 1..p : i \in DOMAIN s /\ s[i] = c[i]
      /\ \A i \in q..Len(c) : i - q + 1 + p \in DOMAIN s /\ s[i - q + 1 + p] = c[i]
      /\ \A i \in DOMAIN s : \/ i <= p /\ i \in 1..p /\ s[i] = c[i]
                             \/ i > p /\ i - p + q - 1 \in q..Len(c) /\ s[i] = c[i - p + q - 1]
  <2>1. s \in Seq(EntryOf(V)) /\ WithoutPart(s, c, p, q)
    BY <1>1, <1>2, CutProperties
  <2> QED
    BY <2>1 DEF WithoutPart
<1>4. \A i \in DOMAIN c : /\ hash[c[i].name] = hash[n]
                          /\ \A j \in DOMAIN c : c[i].name = c[j].name => i = j
  BY <1>1 DEF Sorted, OneEach
<1>5. p \in Int /\ q \in Int /\ p >= 0 /\ q >= p + 1 /\ q <= Len(c) + 1 /\ p <= Len(c)
  BY <1>1
<1>6. ASSUME NEW i \in DOMAIN s
      PROVE  /\ i \in Int
             /\ \/ i <= p /\ i \in DOMAIN c /\ s[i] = c[i]
                \/ /\ i > p /\ i - p + q - 1 \in DOMAIN c /\ i - p + q - 1 >= q
                   /\ s[i] = c[i - p + q - 1]
  <2>1. i \in Int
    BY <1>1, <1>3, <1>5
  <2>2. CASE i <= p /\ i \in 1..p /\ s[i] = c[i]
    BY <1>1, <1>5, <2>2
  <2>3. CASE i > p /\ i - p + q - 1 \in q..Len(c) /\ s[i] = c[i - p + q - 1]
    BY <1>1, <1>5, <2>1, <2>3
  <2> QED
    BY <1>3, <2>1, <2>2, <2>3
<1>14. ASSUME NEW i \in DOMAIN s
      PROVE  /\ hash[s[i].name] = hash[n]
             /\ \A j \in DOMAIN s : s[i].name = s[j].name => i = j
  <2>1. hash[s[i].name] = hash[n]
    BY <1>4, <1>6
  <2>2. ASSUME NEW j \in DOMAIN s, s[i].name = s[j].name PROVE i = j
    <3>1. CASE i <= p /\ i \in DOMAIN c /\ s[i] = c[i]
      <4>1. CASE j <= p /\ j \in DOMAIN c /\ s[j] = c[j]
        BY <1>4, <2>2, <3>1, <4>1
      <4>2. CASE j > p /\ j - p + q - 1 \in DOMAIN c /\ j - p + q - 1 >= q /\ s[j] = c[j - p + q - 1]
        <5>1. i = j - p + q - 1
          BY <1>4, <2>2, <3>1, <4>2
        <5> QED
          BY <1>5, <1>6, <3>1, <4>2, <5>1
      <4> QED
        BY <1>6, <4>1, <4>2
    <3>2. CASE i > p /\ i - p + q - 1 \in DOMAIN c /\ i - p + q - 1 >= q /\ s[i] = c[i - p + q - 1]
      <4>1. CASE j <= p /\ j \in DOMAIN c /\ s[j] = c[j]
        <5>1. j = i - p + q - 1
          BY <1>4, <2>2, <3>2, <4>1
        <5> QED
          BY <1>5, <1>6, <3>2, <4>1, <5>1
      <4>2. CASE j > p /\ j - p + q - 1 \in DOMAIN c /\ j - p + q - 1 >= q /\ s[j] = c[j - p + q - 1]
        <5>1. i - p + q - 1 = j - p + q - 1
          BY <1>4, <2>2, <3>2, <4>2
        <5> QED
          BY <1>5, <1>6, <5>1
      <4> QED
        BY <1>6, <4>1, <4>2
    <3> QED
      BY <1>6, <3>1, <3>2
  <2> QED
    BY <2>1, <2>2
<1>7. OneEach(s, hash[n])
  BY <1>14 DEF OneEach
<1>8. u = With(t, n, s, h)
  BY <1>2
<1>9. /\ u \in Table(V) /\ Sorted(u) /\ u.headless = h /\ u.chain[hash[n]] = s
      /\ \A b \in Bucket : b # hash[n] => u.chain[b] = t.chain[b]
      /\ \A k \in Name : hash[k] # hash[n] =>
           (Has(u, k) <=> Has(t, k)) /\ ValueOf(u, k) = ValueOf(t, k)
      /\ \A k \in Name : hash[k] = hash[n] =>
           /\ Has(u, k) <=> \E i \in DOMAIN s : s[i].name = k
           /\ \A i \in DOMAIN s : s[i].name = k => ValueOf(u, k) = s[i].value
  <2>1. u \in Table(V) /\ Sorted(u) /\ u.headless = h /\ SameBut(u, t, n, s)
    BY <1>3, <1>7, <1>8, WithProperties
  <2> QED
    BY <2>1 DEF SameBut
<1>10. ASSUME NEW k \in Name, hash[k] = hash[n]
       PROVE  /\ Has(u, k) <=> (Has(t, k) /\ Place(t, k) \notin p+1..q-1)
              /\ Has(u, k) => ValueOf(u, k) = ValueOf(t, k)
  <2>1. Chain(t, k) = c
    BY <1>10 DEF Chain
  <2>2. ASSUME Has(t, k)
        PROVE  /\ Place(t, k) \in DOMAIN c
               /\ c[Place(t, k)].name = k /\ c[Place(t, k)].value = ValueOf(t, k)
               /\ \A i \in DOMAIN c : c[i].name = k => i = Place(t, k)
    <3>1. /\ Place(t, k) \in DOMAIN Chain(t, k)
          /\ Chain(t, k)[Place(t, k)] = [name |-> k, value |-> ValueOf(t, k)]
          /\ \A i \in DOMAIN Chain(t, k) : Chain(t, k)[i].name = k => i = Place(t, k)
      BY <2>2, PlaceProperties
    <3> QED
      BY <2>1, <3>1
  <2>3. ASSUME Has(u, k)
        PROVE  Has(t, k) /\ Place(t, k) \notin p+1..q-1 /\ ValueOf(u, k) = ValueOf(t, k)
    <3>1. PICK i \in DOMAIN s : s[i].name = k
      BY <1>9, <1>10, <2>3
    <3>2. PICK j \in DOMAIN c : c[j] = s[i] /\ j \notin p+1..q-1
      <4>1. CASE i <= p /\ i \in DOMAIN c /\ s[i] = c[i]
        BY <1>5, <1>6, <4>1
      <4>2. CASE i > p /\ i - p + q - 1 \in DOMAIN c /\ i - p + q - 1 >= q /\ s[i] = c[i - p + q - 1]
        BY <1>5, <1>6, <4>2
      <4> QED
        BY <1>6, <3>1, <4>1, <4>2
    <3>3. Has(t, k)
      BY <2>1, <3>1, <3>2 DEF Has
    <3>4. j = Place(t, k) /\ c[j].value = ValueOf(t, k)
      BY <2>2, <3>1, <3>2, <3>3
    <3>5. ValueOf(u, k) = s[i].value
      BY <1>9, <1>10, <3>1
    <3> QED
      BY <3>2, <3>3, <3>4, <3>5
  <2>4. ASSUME Has(t, k), Place(t, k) \notin p+1..q-1 PROVE Has(u, k)
    <3>1. PICK j \in DOMAIN c : j = Place(t, k) /\ c[j].name = k
      BY <2>2, <2>4
    <3>2. j \in 1..p \/ j \in q..Len(c)
      BY <1>1, <1>5, <2>4, <3>1
    <3>3. \E i \in DOMAIN s : s[i].name = k
      <4>1. CASE j \in 1..p
        BY <1>3, <3>1, <4>1
      <4>2. CASE j \in q..Len(c)
        BY <1>3, <3>1, <4>2, ZenonT(40)
      <4> QED
        BY <3>2, <4>1, <4>2
    <3> QED
      BY <1>9, <1>10, <3>3
  <2> QED
    BY <2>3, <2>4
<1>11. Names(u) = {k \in Names(t) : hash[k] = hash[n] => Place(t, k) \notin p+1..q-1}
  BY <1>9, <1>10 DEF Names
<1>12. \A k \in Names(u) : ValueOf(u, k) = ValueOf(t, k)
  BY <1>9, <1>10 DEF Names
<1> QED
  BY <1>3, <1>9, <1>11, <1>12 DEF Less

HIDE HashAssumption

----------------------------------------------------------------------------
(* The history file keeps its lines.                                       *)

\* A file that was found is never taken away, and only a shell that found none
\* comes to create one.
HistoryInv ==
  /\ lines \in Nat
  /\ file = NULL \/ file \in Seq(Nat)
  /\ found => file # NULL
  /\ phase = "create" => ~found

\* What HistoryKept says of a step
Kept1 ==
  found /\ ~rival =>
    /\ file # NULL /\ file' # NULL /\ Len(file) <= Len(file')
    /\ SubSeq(file', 1, Len(file)) = file

\* A line is added behind a file.
LEMMA Added ==
  ASSUME NEW s \in Seq(Nat), NEW l \in Nat
  PROVE  /\ Append(s, l) \in Seq(Nat) /\ Len(s) <= Len(Append(s, l))
         /\ SubSeq(Append(s, l), 1, Len(s)) = s /\ SubSeq(s, 1, Len(s)) = s
         /\ Len(s) <= Len(s)
<1>1. Append(s, l) \in Seq(Nat) /\ Len(Append(s, l)) = Len(s) + 1 /\ Len(s) \in Nat
  OBVIOUS
<1>2. SubSeq(s, 1, Len(s)) = s
  OBVIOUS
<1>3. SubSeq(Append(s, l), 1, Len(s)) = s
  OBVIOUS
<1> QED
  BY <1>1, <1>2, <1>3

LEMMA HistoryInit == Init => HistoryInv
<1> SUFFICES ASSUME Init PROVE HistoryInv
  OBVIOUS
<1>1. <<>> \in Seq(Nat)
  OBVIOUS
<1> QED
  BY <1>1 DEF Init, HistoryInv

\* A step that leaves the file and found alone, and does not enter create
LEMMA Untouched ==
  ASSUME HistoryInv, UNCHANGED <<file, found>>, lines' \in Nat,
         phase' = "create" => phase = "create"
  PROVE  HistoryInv' /\ Kept1
<1>1. HistoryInv'
  BY DEF HistoryInv
<1>2. ASSUME found PROVE file \in Seq(Nat)
  BY <1>2 DEF HistoryInv
<1>3. ASSUME found
      PROVE  /\ file # NULL /\ file' # NULL /\ Len(file) <= Len(file')
             /\ SubSeq(file', 1, Len(file)) = file
  BY <1>2, <1>3, Added, 0 \in Nat DEF HistoryInv
<1> QED
  BY <1>1, <1>3 DEF Kept1

\* One that creates the file when it is not there
LEMMA Touched ==
  ASSUME HistoryInv, file' = Opened, UNCHANGED found, lines' \in Nat, phase' # "create"
  PROVE  HistoryInv' /\ Kept1
<1>1. CASE file = NULL
  <2>1. file' = <<>> /\ <<>> \in Seq(Nat) /\ ~found
    BY <1>1 DEF Opened, HistoryInv
  <2>2. HistoryInv'
    BY <2>1 DEF HistoryInv
  <2> QED
    BY <2>1, <2>2 DEF Kept1
<1>2. CASE file # NULL
  <2>1. UNCHANGED file
    BY <1>2 DEF Opened
  <2> QED
    BY <2>1, Untouched
<1> QED
  BY <1>1, <1>2

\* One that adds a line
LEMMA Longer ==
  ASSUME HistoryInv, NEW l \in Nat, file' = Append(Opened, l),
         found' = found, lines' \in Nat, phase' # "create" \/ phase' = phase
  PROVE  HistoryInv' /\ Kept1
<1> DEFINE s == Opened
<1>1. s \in Seq(Nat) /\ file' = Append(s, l)
  BY DEF HistoryInv, Opened
<1>2. found => s = file /\ file # NULL
  BY DEF HistoryInv, Opened
<1> HIDE DEF s
<1>3. Append(s, l) \in Seq(Nat) /\ Len(s) <= Len(Append(s, l))
      /\ SubSeq(Append(s, l), 1, Len(s)) = s
  BY <1>1, Added
<1>4. file' # NULL /\ file' \in Seq(Nat)
  BY <1>1, <1>3, SessionAssumption
<1>5. HistoryInv'
  BY <1>4 DEF HistoryInv
<1>6. Kept1
  BY <1>1, <1>2, <1>3, <1>4 DEF Kept1
<1> QED
  BY <1>5, <1>6

LEMMA HistoryStep == HistoryInv /\ [Next]_vars => HistoryInv' /\ [Kept1]_vars
<1> SUFFICES ASSUME HistoryInv, [Next]_vars PROVE HistoryInv' /\ Kept1
  OBVIOUS
<1>1. lines \in Nat /\ lines + 1 \in Nat
  BY DEF HistoryInv
<1>2. CASE UNCHANGED vars
  BY <1>1, <1>2, Untouched DEF vars, world, counts
<1>3. CASE Open
  <2>1. found' = (file # NULL) /\ file' = file /\ lines' = lines
    BY <1>3 DEF Open, world, counts
  <2>2. phase' = "create" => file = NULL
    BY <1>3 DEF Open, Goes
  <2>3. HistoryInv'
    BY <1>1, <2>1, <2>2 DEF HistoryInv
  <2>4. found => file \in Seq(Nat) /\ file # NULL
    BY DEF HistoryInv
  <2>5. Kept1
    BY <2>1, <2>4, Added, 0 \in Nat DEF Kept1
  <2> QED
    BY <2>3, <2>5
<1>4. CASE Create
  <2>1. ~found /\ phase' = "rc" /\ found' = found /\ lines' = lines
    BY <1>4 DEF Create, HistoryInv, Goes, counts
  <2>2. file' = <<>> \/ file' = file
    BY <1>4 DEF Create
  <2>3. <<>> \in Seq(Nat)
    OBVIOUS
  <2>4. HistoryInv'
    BY <1>1, <2>1, <2>2, <2>3 DEF HistoryInv
  <2> QED
    BY <2>1, <2>4 DEF Kept1
<1>5. CASE Record
  <2>1. found' = found /\ lines' = lines /\ phase' \in {"run", "prompt"}
    BY <1>5 DEF Record, Written, Goes
  <2>2. CASE UNCHANGED file
    BY <1>1, <2>1, <2>2, Untouched
  <2>3. CASE file' = Append(Opened, lines) \/ file' = Append(Opened, 0)
    BY <1>1, <2>1, <2>3, Longer, 0 \in Nat
  <2>4. CASE file' = Opened
    BY <1>1, <2>1, <2>4, Touched
  <2> QED
    BY <1>5, <2>2, <2>3, <2>4 DEF Record, Written
<1>6. CASE Rival
  <2>1. found' = found /\ lines' = lines /\ phase' = phase
    BY <1>6 DEF Rival, counts
  <2>2. CASE UNCHANGED file
    BY <1>1, <2>1, <2>2, Untouched
  <2>3. CASE rival /\ file' = <<>>
    <3>1. <<>> \in Seq(Nat)
      OBVIOUS
    <3>2. HistoryInv'
      BY <1>1, <2>1, <2>3, <3>1, SessionAssumption DEF HistoryInv
    <3> QED
      BY <2>3, <3>2 DEF Kept1
  <2>4. CASE file # NULL /\ file' = Append(file, 0)
    BY <1>1, <2>1, <2>4, Longer, 0 \in Nat DEF Opened
  <2> QED
    BY <1>6, <2>2, <2>3, <2>4 DEF Rival
<1>7. CASE Refuse \/ Accept \/ ReadScript
  BY <1>1, <1>7, Untouched DEF Refuse, Accept, ReadScript, Types, Goes, Stops, world
<1>8. CASE Rc \/ EndOfLine \/ Exit \/ Kill \/ Restart
  <2>1. UNCHANGED <<file, found, lines>>
    BY <1>8 DEF Rc, EndOfLine, Exit, Kill, Restart, world, counts
  <2>2. Release(aliases) # "create"
    BY DEF Release
  <2>3. phase' # "create"
    BY <1>8, <2>2 DEF Rc, EndOfLine, Exit, Kill, Restart, Goes, Stops
  <2> QED
    BY <1>1, <2>1, <2>3, Untouched
<1>9. CASE \/ \E n \in Name : (\E t \in Text : DoAlias(n, t)) \/ DoUnalias(n) \/ Use(n)
           \/ ShowAliases \/ DoUnaliasAll
  <2>1. Command
    BY <1>9 DEF DoAlias, DoUnalias, Use, ShowAliases, DoUnaliasAll, Looks, Changes
  <2>2. UNCHANGED <<file, found, lines>> /\ phase = "run"
    BY <2>1 DEF Command, world
  <2>3. ASSUME NEW al PROVE ShowAll(al).how # "create" /\ UnaliasAll(al).how # "create"
    BY DEF ShowAll, UnaliasAll, Kept, Fatal
  <2>4. ASSUME NEW al, NEW n PROVE Unalias(al, n).how # "create"
    BY DEF Unalias, RemoveAssignment, Kept, Fatal
  <2>5. ASSUME NEW r, r.how # "create", Becomes(r) PROVE phase' # "create"
    BY <2>2, <2>5 DEF Becomes, Stops
  <2>6. ASSUME NEW n \in Name, NEW t \in Text, DoAlias(n, t) PROVE phase' # "create"
    <3>1. Alias(aliases, n, t).how # "create"
      BY DEF Alias, Kept
    <3> QED
      BY <2>5, <2>6, <3>1 DEF DoAlias
  <2>7. ASSUME NEW n \in Name, DoUnalias(n) PROVE phase' # "create"
    BY <2>4, <2>5, <2>7 DEF DoUnalias
  <2>8. ASSUME NEW n \in Name, Use(n) PROVE phase' # "create"
    BY <2>8 DEF Use, Goes, Stops
  <2>9. ASSUME ShowAliases \/ DoUnaliasAll PROVE phase' # "create"
    BY <2>3, <2>5, <2>9 DEF ShowAliases, DoUnaliasAll
  <2>10. phase' # "create"
    BY <1>9, <2>6, <2>7, <2>8, <2>9
  <2> QED
    BY <1>1, <2>2, <2>10, Untouched
<1> QED
  BY <1>2, <1>3, <1>4, <1>5, <1>6, <1>7, <1>8, <1>9 DEF Next

\* A history file that is there when a shell starts keeps every line in every step,
\* whichever shells are killed, started again or write beside it.
THEOREM HistoryAlwaysKept == Spec => HistoryKept
<1>1. Kept1 =>
        (found /\ ~rival =>
           /\ file # NULL /\ file' # NULL /\ Len(file) <= Len(file')
           /\ SubSeq(file', 1, Len(file)) = file)
  BY DEF Kept1
<1> QED
  BY <1>1, HistoryInit, HistoryStep, PTL DEF Spec, HistoryKept

----------------------------------------------------------------------------
(* What the operations on aliases do                                       *)

AliasTables ==
  [table : Table(Text), pending : Seq(Definition), dangling : SUBSET Bucket]

\* Every name has one entry, and the buckets that dangle are empty.
Sound(al) ==
  al \in AliasTables /\ Sorted(al.table) /\ \A b \in al.dangling : al.table.chain[b] = <<>>

\* Each alias stands for what is given, but for some names.
Agrees(al, given, but) == \A n \in Names(al.table) \ but : ValueOf(al.table, n) = given[n]

\* So does the last definition that waits for a name.
LastOf(p, given) ==
  \A i \in DOMAIN p :
    (\A j \in DOMAIN p : j > i => p[j].name # p[i].name) => p[i].text = given[p[i].name]

\* What is to be known of aliases between any two commands
Remembers(al, given, older) ==
  /\ Sound(al)
  /\ given \in [Name -> Text \union {NULL}] /\ older \subseteq Name
  /\ Agrees(al, given, Waiting(al) \union older) /\ LastOf(al.pending, given)

\* A record of these fields
LEMMA AliasFields ==
  ASSUME NEW al \in AliasTables
  PROVE  /\ al.table \in Table(Text) /\ al.pending \in Seq(Definition)
         /\ al.dangling \in SUBSET Bucket
<1> HIDE DEF Table, Definition
<1> QED
  BY DEF AliasTables

LEMMA NoAliasesSound ==
  Sound(NoAliases) /\ Names(NoAliases.table) = {} /\ NoAliases.pending = <<>>
<1>1. NewTable \in Table(Text) /\ Sorted(NewTable) /\ Names(NewTable) = {}
  BY NewTableProperties
<1>2. <<>> \in Seq(Definition)
  OBVIOUS
<1> QED
  BY <1>1, <1>2 DEF NoAliases, Sound, AliasTables

\* The definitions that wait but for the first
LEMMA TailProperties ==
  ASSUME NEW S, NEW p \in Seq(S), p # <<>>, NEW q, q = Tail(p)
  PROVE  /\ q \in Seq(S) /\ 1 \in DOMAIN p /\ p[1] \in S
         /\ \A i \in DOMAIN q : i \in Int /\ i >= 1 /\ i + 1 \in DOMAIN p /\ q[i] = p[i + 1]
         /\ \A i \in DOMAIN p : i \in Int /\ (i = 1 \/ (i > 1 /\ i - 1 \in DOMAIN q /\ q[i - 1] = p[i]))
<1>1. q \in Seq(S) /\ Len(q) = Len(p) - 1 /\ Len(p) \in Nat /\ Len(p) >= 1
  OBVIOUS
<1>2. DOMAIN p = 1..Len(p) /\ DOMAIN q = 1..Len(q)
  BY <1>1
<1>3. \A i \in 1..Len(p) - 1 : q[i] = p[i + 1]
  OBVIOUS
<1>4. 1 \in DOMAIN p /\ p[1] \in S
  BY <1>1, <1>2
<1>5. ASSUME NEW i \in DOMAIN q
      PROVE  i \in Int /\ i >= 1 /\ i + 1 \in DOMAIN p /\ q[i] = p[i + 1]
  BY <1>1, <1>2, <1>3
<1>6. ASSUME NEW i \in DOMAIN p
      PROVE  i \in Int /\ (i = 1 \/ (i > 1 /\ i - 1 \in DOMAIN q /\ q[i - 1] = p[i]))
  <2>1. i \in Int /\ i >= 1 /\ i <= Len(p)
    BY <1>1, <1>2
  <2>2. CASE i = 1
    BY <2>1, <2>2
  <2>3. CASE i # 1
    <3>1. PICK k \in Int : k = i - 1
      BY <2>1
    <3>2. k \in DOMAIN q /\ k + 1 = i
      BY <1>1, <1>2, <2>1, <2>3, <3>1
    <3> QED
      BY <1>5, <2>1, <2>3, <3>1, <3>2
  <2> QED
    BY <2>2, <2>3
<1> QED
  BY <1>1, <1>4, <1>5, <1>6

LEMMA LastOfTail ==
  ASSUME NEW S, NEW p \in Seq(S), p # <<>>, NEW given, LastOf(p, given)
  PROVE  LastOf(Tail(p), given)
<1>1. PICK q : q = Tail(p)
  OBVIOUS
<1>2. /\ \A i \in DOMAIN q : i \in Int /\ i >= 1 /\ i + 1 \in DOMAIN p /\ q[i] = p[i + 1]
      /\ \A i \in DOMAIN p : i \in Int /\ (i = 1 \/ (i > 1 /\ i - 1 \in DOMAIN q /\ q[i - 1] = p[i]))
  BY <1>1, TailProperties
<1>3. ASSUME NEW i \in DOMAIN q, \A j \in DOMAIN q : j > i => q[j].name # q[i].name
      PROVE  q[i].text = given[q[i].name]
  <2>1. PICK k \in DOMAIN p : k = i + 1 /\ q[i] = p[k]
    BY <1>2
  <2>2. ASSUME NEW j \in DOMAIN p, j > k PROVE p[j].name # p[k].name
    <3>1. i \in Int /\ i >= 1 /\ j \in Int /\ j > i + 1
      BY <1>2, <2>1, <2>2
    <3>2. j - 1 \in DOMAIN q /\ q[j - 1] = p[j] /\ j - 1 > i
      BY <1>2, <3>1
    <3> QED
      BY <1>3, <2>1, <3>2
  <2>3. p[k].text = given[p[k].name]
    BY <2>2 DEF LastOf
  <2> QED
    BY <2>1, <2>3
<1> QED
  BY <1>1, <1>3 DEF LastOf

NamesOf(p) == {p[i].name : i \in DOMAIN p}

\* A definition that is one more to wait
LEMMA LastOfAppend ==
  ASSUME NEW p \in Seq(Definition), NEW d \in Definition, NEW given, LastOf(p, given),
         NEW g, g[d.name] = d.text, \A k \in Name : k # d.name => g[k] = given[k]
  PROVE  /\ LastOf(Append(p, d), g)
         /\ NamesOf(Append(p, d)) = NamesOf(p) \union {d.name}
<1>1. PICK q, n, t : q = Append(p, d) /\ n = d.name /\ t = d.text
  OBVIOUS
<1>2. /\ Len(p) \in Nat /\ DOMAIN p = 1..Len(p) /\ DOMAIN q = 1..Len(p)+1 /\ q[Len(p)+1] = d
      /\ \A i \in 1..Len(p) : q[i] = p[i] /\ p[i] \in Definition
  <2>1. /\ Len(p) \in Nat /\ DOMAIN p = 1..Len(p) /\ \A i \in 1..Len(p) : p[i] \in Definition
    OBVIOUS
  <2>2. /\ DOMAIN q = 1..Len(p)+1 /\ q[Len(p)+1] = d /\ \A i \in 1..Len(p) : q[i] = p[i]
    BY <1>1
  <2> QED
    BY <2>1, <2>2
<1>3. d.name = n /\ d.text = t
  BY <1>1
<1>4. \A i \in DOMAIN q : (i \in DOMAIN p /\ q[i] = p[i]) \/ (i = Len(p)+1 /\ q[i] = d)
  BY <1>2
<1>5. \A i \in DOMAIN p : i \in DOMAIN q /\ q[i] = p[i] /\ i < Len(p)+1 /\ p[i].name \in Name
  BY <1>2 DEF Definition
<1>6. Len(p)+1 \in DOMAIN q
  BY <1>2
<1>8. g[n] = t /\ \A k \in Name : k # n => g[k] = given[k]
  BY <1>1
<1>9. ASSUME NEW i \in DOMAIN q, \A j \in DOMAIN q : j > i => q[j].name # q[i].name
      PROVE  q[i].text = g[q[i].name]
  <2>1. CASE i \in DOMAIN p /\ q[i] = p[i]
    <3>1. p[i].name # n
      BY <1>2, <1>3, <1>5, <1>6, <1>9, <2>1
    <3>2. \A j \in DOMAIN p : j > i => p[j].name # p[i].name
      BY <1>5, <1>9, <2>1
    <3>3. p[i].text = given[p[i].name]
      BY <2>1, <3>2 DEF LastOf
    <3> QED
      BY <1>5, <1>8, <2>1, <3>1, <3>3
  <2>2. CASE i = Len(p)+1 /\ q[i] = d
    BY <1>3, <1>8, <2>2
  <2> QED
    BY <1>4, <2>1, <2>2
<1>10. NamesOf(q) = NamesOf(p) \union {n}
  <2>1. ASSUME NEW i \in DOMAIN q PROVE q[i].name \in NamesOf(p) \union {n}
    BY <1>3, <1>4 DEF NamesOf
  <2>2. ASSUME NEW i \in DOMAIN p PROVE p[i].name \in NamesOf(q)
    BY <1>5 DEF NamesOf
  <2>3. n \in NamesOf(q)
    BY <1>2, <1>3, <1>6 DEF NamesOf
  <2> QED
    BY <2>1, <2>2, <2>3 DEF NamesOf
<1> QED
  BY <1>1, <1>9, <1>10 DEF LastOf

\* add_aliases(): the name gets what the line says, every other name keeps what
\* it stands for.
LEMMA CommitProperties ==
  ASSUME NEW al, Sound(al), al.pending # <<>>, NEW d, d = al.pending[1]
  PROVE  /\ d \in Definition /\ Sound(Commit(al)) /\ Commit(al).pending = Tail(al.pending)
         /\ Names(Commit(al).table) = Names(al.table) \union {d.name}
         /\ ValueOf(Commit(al).table, d.name) = d.text
         /\ \A k \in Names(al.table) :
              k # d.name => ValueOf(Commit(al).table, k) = ValueOf(al.table, k)
<1>1. /\ al.table \in Table(Text) /\ al.pending \in Seq(Definition)
      /\ al.dangling \in SUBSET Bucket /\ Sorted(al.table)
      /\ \A b \in al.dangling : al.table.chain[b] = <<>>
  BY AliasFields DEF Sound
<1>2. d \in Definition /\ Tail(al.pending) \in Seq(Definition)
  BY <1>1
<1>3. d.name \in Name /\ d.text \in Text
  BY <1>2 DEF Definition
<1>4. PICK u : u = Commit(al).table
  OBVIOUS
<1>5. PICK n \in Name : n = d.name
  BY <1>3
<1>6. PICK v \in Text : v = d.text
  BY <1>3
<1>7. /\ u = IF Has(al.table, n) THEN Overwrite(al.table, n, v) ELSE Enter(al.table, n, v)
      /\ Commit(al).pending = Tail(al.pending)
      /\ Commit(al).dangling =
           IF Chain(al.table, n) = <<>> THEN al.dangling \ {hash[n]} ELSE al.dangling
      /\ Commit(al) = [table |-> u, pending |-> Commit(al).pending,
                       dangling |-> Commit(al).dangling]
  BY <1>4, <1>5, <1>6 DEF Commit
<1>8. /\ u \in Table(Text) /\ Sorted(u)
      /\ \A b \in Bucket : b # hash[n] => u.chain[b] = al.table.chain[b]
      /\ Names(u) = Names(al.table) \union {n} /\ ValueOf(u, n) = v
      /\ \A k \in Names(al.table) : k # n => ValueOf(u, k) = ValueOf(al.table, k)
  <2>1. CASE Has(al.table, n)
    <3>1. n \in Names(al.table)
      BY <2>1 DEF Names
    <3>2. u = Overwrite(al.table, n, v)
      BY <1>7, <2>1
    <3> QED
      BY <1>1, <2>1, <3>1, <3>2, OverwriteProperties
  <2>2. CASE ~Has(al.table, n)
    <3>1. u = Enter(al.table, n, v)
      BY <1>7, <2>2
    <3> QED
      BY <1>1, <2>2, <3>1, EnterProperties
  <2> QED
    BY <2>1, <2>2
<1>9. Commit(al).dangling \in SUBSET Bucket
  BY <1>1, <1>7
<1>10. Commit(al) \in AliasTables
  BY <1>2, <1>7, <1>8, <1>9 DEF AliasTables
<1>11. ASSUME NEW b \in Commit(al).dangling PROVE u.chain[b] = <<>>
  <2>1. b \in al.dangling /\ b \in Bucket /\ al.table.chain[b] = <<>>
    BY <1>1, <1>7
  <2>2. b # hash[n]
    BY <1>7, <2>1 DEF Chain
  <2> QED
    BY <1>8, <2>1, <2>2
<1>12. Sound(Commit(al))
  BY <1>4, <1>8, <1>10, <1>11 DEF Sound
<1> QED
  BY <1>2, <1>4, <1>5, <1>6, <1>7, <1>8, <1>12

\* What is to be known stays known when the first definition is made.
LEMMA CommitRemembers ==
  ASSUME NEW al, NEW given, NEW older, Remembers(al, given, older), al.pending # <<>>
  PROVE  Remembers(Commit(al), given, older)
<1>1. Sound(al) /\ Agrees(al, given, Waiting(al) \union older) /\ LastOf(al.pending, given)
  BY DEF Remembers
<1>2. PICK p \in Seq(Definition) : p = al.pending /\ p # <<>>
  BY <1>1, AliasFields DEF Sound
<1>3. PICK q : q = Tail(p)
  OBVIOUS
<1>4. PICK d \in Definition : d = p[1]
  BY <1>1, <1>2, CommitProperties
<1>5. /\ Sound(Commit(al)) /\ Commit(al).pending = q
      /\ Names(Commit(al).table) = Names(al.table) \union {d.name}
      /\ ValueOf(Commit(al).table, d.name) = d.text
      /\ \A k \in Names(al.table) :
           k # d.name => ValueOf(Commit(al).table, k) = ValueOf(al.table, k)
  BY <1>1, <1>2, <1>3, <1>4, CommitProperties
<1>6. /\ 1 \in DOMAIN p
      /\ \A i \in DOMAIN p : i \in Int /\ (i = 1 \/ (i > 1 /\ i - 1 \in DOMAIN q /\ q[i - 1] = p[i]))
  BY <1>2, <1>3, TailProperties
<1>7. LastOf(q, given)
  BY <1>1, <1>2, <1>3, LastOfTail
<1>8. ASSUME NEW n \in Names(Commit(al).table), n \notin Waiting(Commit(al)), n \notin older
      PROVE  ValueOf(Commit(al).table, n) = given[n]
  <2>1. \A i \in DOMAIN q : q[i].name # n
    BY <1>5, <1>8 DEF Waiting
  <2>2. \A i \in DOMAIN p : i = 1 \/ (i > 1 /\ p[i].name # n)
    BY <1>6, <2>1
  <2>3. CASE n = d.name
    <3>1. \A j \in DOMAIN p : j > 1 => p[j].name # p[1].name
      BY <1>4, <2>2, <2>3
    <3>2. d.text = given[d.name]
      BY <1>1, <1>2, <1>4, <1>6, <3>1 DEF LastOf
    <3> QED
      BY <1>5, <2>3, <3>2
  <2>4. CASE n # d.name
    <3>1. n \notin Waiting(al)
      BY <1>2, <1>4, <2>2, <2>4 DEF Waiting
    <3>2. n \in Names(al.table)
      BY <1>5, <1>8, <2>4
    <3> QED
      BY <1>1, <1>5, <1>8, <2>4, <3>1, <3>2 DEF Agrees
  <2> QED
    BY <2>3, <2>4
<1> QED
  BY <1>5, <1>7, <1>8 DEF Remembers, Agrees

\* The entries that are gone when the loop of remove_assignment() saw the i-th
Gone(i) == IF i = 1 THEN {1} ELSE {i - 1, i}

\* Only entries at odd places are seen.
LEMMA SeenIsOne ==
  ASSUME NEW al, Sound(al), NEW n \in Name, NEW i \in Seen(al, n)
  PROVE  /\ Has(al.table, n) /\ i = Place(al.table, n) /\ i \in 1..Len(Chain(al.table, n))
         /\ i # 2
<1>1. al.table \in Table(Text) /\ Sorted(al.table)
  BY AliasFields DEF Sound
<1>2. /\ i \in DOMAIN Chain(al.table, n) /\ Chain(al.table, n)[i].name = n /\ i % 2 = 1
  BY DEF Seen
<1>3. Has(al.table, n)
  BY <1>2 DEF Has
<1>4. i \in 1..Len(Chain(al.table, n))
  BY <1>1, <1>2, ChainType
<1>5. i = Place(al.table, n)
  BY <1>1, <1>2, <1>3, PlaceProperties
<1>6. i # 2
  BY <1>2
<1> QED
  BY <1>3, <1>4, <1>5, <1>6

LEMMA DroppedIsCut ==
  ASSUME NEW S, NEW c \in Seq(S), NEW i \in 1..Len(c), i # 2
  PROVE  Dropped(c, i) = IF i = 1 THEN Cut(c, 0, 2) ELSE Cut(c, i - 2, i + 1)
<1>1. CASE i = 1
  <2>1. SubSeq(c, 1, 0) = <<>>
    OBVIOUS
  <2>2. c # <<>> /\ Len(c) \in Nat
    BY <1>1
  <2>3. Tail(c) = SubSeq(c, 2, Len(c)) /\ Tail(c) \in Seq(S)
    BY <2>2
  <2>4. <<>> \o Tail(c) = Tail(c)
    BY <2>3
  <2> QED
    BY <1>1, <2>1, <2>3, <2>4 DEF Dropped, Cut
<1>2. CASE i # 1
  BY <1>2 DEF Dropped, Cut
<1> QED
  BY <1>1, <1>2

\* u is al without n, or without an entry before it in its bucket.
Removed(u, al, n) ==
  /\ Names(u.table) \subseteq Names(al.table)
  /\ \A k \in Names(u.table) : ValueOf(u.table, k) = ValueOf(al.table, k)
  /\ \A k \in Names(al.table) : k \notin Names(u.table) =>
       \/ k = n
       \/ /\ Has(al.table, n) /\ hash[k] = hash[n] /\ Place(al.table, k) > 1
          /\ Place(al.table, k) + 1 = Place(al.table, n)

LEMMA RemovedNothing ==
  ASSUME NEW al, NEW u, u.table = al.table, NEW n
  PROVE  Removed(u, al, n)
BY DEF Removed

LEMMA DroppedProperties ==
  ASSUME NEW al, Sound(al), NEW n \in Name, NEW i \in Seen(al, n),
         NEW u, u = [al EXCEPT !.table.chain[hash[n]] = Dropped(Chain(al.table, n), i)]
  PROVE  Sound(u) /\ u.pending = al.pending /\ Removed(u, al, n)
<1>1. /\ al \in AliasTables /\ al.table \in Table(Text) /\ Sorted(al.table)
      /\ al.dangling \in SUBSET Bucket
      /\ \A b \in al.dangling : al.table.chain[b] = <<>>
  BY AliasFields DEF Sound
<1>2. PICK c : c = Chain(al.table, n)
  OBVIOUS
<1>3. /\ c \in Seq(EntryOf(Text)) /\ hash[n] \in Bucket /\ c = al.table.chain[hash[n]]
      /\ al.table.headless \in SUBSET Bucket
  BY <1>1, <1>2, ChainType DEF Table
<1>4. /\ Has(al.table, n) /\ i = Place(al.table, n) /\ i \in 1..Len(c) /\ i # 2
  BY <1>2, SeenIsOne
<1>5. PICK p \in Int, q \in Int : /\ p = (IF i = 1 THEN 0 ELSE i - 2)
                                /\ q = (IF i = 1 THEN 2 ELSE i + 1)
  <2>1. (IF i = 1 THEN 0 ELSE i - 2) \in Int /\ (IF i = 1 THEN 2 ELSE i + 1) \in Int
    BY <1>4
  <2> QED
    BY <2>1
<1>6. p \in 0..Len(c) /\ q \in p+1..Len(c)+1
  BY <1>3, <1>4, <1>5
<1>7. Dropped(c, i) = Cut(c, p, q)
  <2>1. Dropped(c, i) = IF i = 1 THEN Cut(c, 0, 2) ELSE Cut(c, i - 2, i + 1)
    BY <1>3, <1>4, DroppedIsCut
  <2> QED
    BY <1>5, <2>1
<1>8. PICK t : t = With(al.table, n, Cut(c, p, q), al.table.headless)
  OBVIOUS
<1>9. t \in Table(Text) /\ Sorted(t) /\ Less(t, al.table, n, p, q)
  <2>1. al.table \in Table(Text) /\ Sorted(al.table) /\ al.table.headless \in SUBSET Bucket
    BY <1>1, <1>3
  <2> QED
    BY <1>2, <1>6, <1>8, <2>1, CutTable
<1>10. u = [al EXCEPT !.table = t]
  <2>1. al.table = [chain |-> al.table.chain, headless |-> al.table.headless]
    BY <1>1 DEF Table
  <2>2. [al.table EXCEPT !.chain = [al.table.chain EXCEPT ![hash[n]] = Dropped(c, i)]] = t
    BY <1>7, <1>8, <2>1 DEF With
  <2>3. u = [al EXCEPT !.table = [al.table EXCEPT !.chain = [al.table.chain EXCEPT
                                                              ![hash[n]] = Dropped(c, i)]]]
    BY <1>2
  <2> QED
    BY <2>2, <2>3
<1>11. /\ u \in AliasTables /\ u.table = t /\ u.pending = al.pending
       /\ u.dangling = al.dangling
  <2>1. al \in AliasTables /\ t \in Table(Text)
    BY <1>1, <1>9
  <2> QED
    BY <2>1, <1>10 DEF AliasTables
<1>12. /\ \A b \in Bucket : b # hash[n] => t.chain[b] = al.table.chain[b]
       /\ Names(t) = {k \in Names(al.table) :
                        hash[k] = hash[n] => Place(al.table, k) \notin p+1..q-1}
       /\ \A k \in Names(t) : ValueOf(t, k) = ValueOf(al.table, k)
  BY <1>9 DEF Less
<1>13. ASSUME NEW b \in al.dangling PROVE t.chain[b] = <<>>
  <2>1. b # hash[n] /\ b \in Bucket /\ al.table.chain[b] = <<>>
    BY <1>1, <1>3, <1>4
  <2> QED
    BY <1>12, <2>1
<1>14. Sound(u)
  BY <1>9, <1>11, <1>13 DEF Sound
<1>15. ASSUME NEW k \in Names(al.table), k \notin Names(t)
       PROVE  \/ k = n
              \/ /\ Has(al.table, n) /\ hash[k] = hash[n] /\ Place(al.table, k) > 1
                 /\ Place(al.table, k) + 1 = Place(al.table, n)
  <2>1. hash[k] = hash[n] /\ Place(al.table, k) \in p+1..q-1
    BY <1>12, <1>15
  <2>2. /\ k \in Name /\ Has(al.table, k) /\ Chain(al.table, k) = c
    BY <1>2, <1>15, <2>1 DEF Names, Chain
  <2>3. /\ c[Place(al.table, k)] = [name |-> k, value |-> ValueOf(al.table, k)]
    BY <1>1, <2>2, PlaceProperties
  <2>4. c[i] = [name |-> n, value |-> ValueOf(al.table, n)]
    BY <1>1, <1>2, <1>4, PlaceProperties
  <2>5. CASE Place(al.table, k) = i
    BY <2>3, <2>4, <2>5
  <2>6. CASE Place(al.table, k) # i
    BY <1>4, <1>5, <2>1, <2>6
  <2> QED
    BY <2>5, <2>6
<1>16. Removed(u, al, n)
  BY <1>11, <1>12, <1>15 DEF Removed
<1> QED
  BY <1>11, <1>14, <1>16

\* unalias n: no other name goes but the one whose entry stands before that of n,
\* and the names that stay keep what they stand for.
LEMMA UnaliasProperties ==
  ASSUME NEW al, Sound(al), NEW n \in Name
  PROVE  /\ Unalias(al, n).how \in {"run", "crashed"}
         /\ Unalias(al, n).how = "run" =>
              /\ Sound(Unalias(al, n).aliases) /\ Removed(Unalias(al, n).aliases, al, n)
              /\ \/ Unalias(al, n).aliases.pending = al.pending
                 \/ /\ al.pending # <<>>
                    /\ Unalias(al, n).aliases.pending = Tail(al.pending)
<1>1. al \in AliasTables /\ al.pending \in Seq(Definition)
  BY AliasFields DEF Sound
<1>2. CASE Waits(al, n)
  <2>1. Tail(al.pending) \in Seq(Definition)
    BY <1>1, <1>2 DEF Waits
  <2>2. PICK u : u = [al EXCEPT !.pending = Tail(al.pending)]
    OBVIOUS
  <2>3. /\ u \in AliasTables /\ u.table = al.table /\ u.dangling = al.dangling
        /\ u.pending = Tail(al.pending)
    <3>1. al \in AliasTables
      BY <1>1
    <3> QED
      BY <2>1, <2>2, <3>1 DEF AliasTables
  <2>4. Sound(u) /\ Removed(u, al, n)
    BY <2>3, RemovedNothing DEF Sound
  <2>5. Unalias(al, n) = [how |-> "run", aliases |-> u] /\ al.pending # <<>>
    BY <1>2, <2>2 DEF Unalias, Kept, Waits
  <2> QED
    BY <2>3, <2>4, <2>5
<1>3. CASE ~Waits(al, n) /\ Seen(al, n) # {}
  <2>1. PICK i : i = CHOOSE k \in Seen(al, n) : \A j \in Seen(al, n) : k <= j
    OBVIOUS
  <2>2. i \in Seen(al, n)
    <3>1. PICK k \in Seen(al, n) : TRUE
      BY <1>3
    <3>2. \A j \in Seen(al, n) : j = k /\ j \in 1..Len(Chain(al.table, n))
      BY SeenIsOne
    <3>3. \A j \in Seen(al, n) : k <= j
      BY <3>2
    <3> QED
      BY <2>1, <3>1, <3>3
  <2>3. PICK u : u = [al EXCEPT !.table.chain[hash[n]] = Dropped(Chain(al.table, n), i)]
    OBVIOUS
  <2>4. Sound(u) /\ Removed(u, al, n) /\ u.pending = al.pending
    BY <2>2, <2>3, DroppedProperties
  <2>5. Unalias(al, n) = [how |-> "run", aliases |-> u]
    BY <1>3, <2>1, <2>3 DEF Unalias, RemoveAssignment, Kept
  <2> QED
    BY <2>4, <2>5
<1>4. CASE ~Waits(al, n) /\ Seen(al, n) = {}
  <2>1. Unalias(al, n) = IF Len(Chain(al.table, n)) % 2 = 1 THEN Fatal("crashed") ELSE Kept(al)
    BY <1>4 DEF Unalias, RemoveAssignment
  <2>2. CASE Len(Chain(al.table, n)) % 2 = 1
    BY <2>1, <2>2 DEF Fatal
  <2>3. CASE ~(Len(Chain(al.table, n)) % 2 = 1)
    BY <2>1, <2>3, RemovedNothing DEF Kept
  <2> QED
    BY <2>2, <2>3
<1> QED
  BY <1>2, <1>3, <1>4

\* unalias -a: no name is left.
LEMMA UnaliasAllProperties ==
  ASSUME NEW al, Sound(al)
  PROVE  /\ UnaliasAll(al).how \in {"run", "undefined"}
         /\ UnaliasAll(al).how = "run" =>
              /\ Sound(UnaliasAll(al).aliases) /\ Names(UnaliasAll(al).aliases.table) = {}
              /\ UnaliasAll(al).aliases.pending = al.pending
<1>1. CASE al.dangling # {}
  BY <1>1 DEF UnaliasAll, Fatal
<1>2. CASE al.dangling = {}
  <2>1. PICK D : D = {b \in Bucket : Len(al.table.chain[b]) > 1}
    OBVIOUS
  <2>2. PICK u : u = [al EXCEPT !.table = NewTable, !.dangling = D]
    OBVIOUS
  <2>3. /\ NewTable \in Table(Text) /\ Sorted(NewTable) /\ Names(NewTable) = {}
        /\ \A b \in Bucket : NewTable.chain[b] = <<>>
    BY NewTableProperties DEF NewTable
  <2>4. /\ u.table = NewTable /\ u.dangling = D /\ u \in AliasTables
        /\ u.pending = al.pending
    <3> HIDE DEF Table, Definition
    <3>1. PICK N \in Table(Text) : N = NewTable
      BY <2>3
    <3>2. u = [al EXCEPT !.table = N, !.dangling = D] /\ D \in SUBSET Bucket
      BY <2>1, <2>2, <3>1
    <3>3. /\ u.table = N /\ u.dangling = D /\ u \in AliasTables
          /\ u.pending = al.pending
      BY <3>2 DEF Sound, AliasTables
    <3> QED
      BY <3>1, <3>3
  <2>5. Sound(u) /\ Names(u.table) = {}
    BY <2>1, <2>3, <2>4 DEF Sound
  <2>6. UnaliasAll(al) = [how |-> "run", aliases |-> u]
    BY <1>2, <2>1, <2>2 DEF UnaliasAll, Kept
  <2> QED
    BY <2>4, <2>5, <2>6
<1> QED
  BY <1>1, <1>2

----------------------------------------------------------------------------
(* The inductive invariant: every name is an alias once, of what latest    *)
(* says but for the names that wait or are undone, of which the last       *)
(* definition that waits does, and a line that is to be recorded has a     *)
(* number.                                                                 *)

Live == {"start", "create", "rc", "prompt", "record", "script", "run", "commit"}

World ==
  /\ phase \in Ended \union Live
  /\ terminal \in BOOLEAN /\ home \in BOOLEAN /\ rival \in BOOLEAN /\ lost \in BOOLEAN
  /\ found \in BOOLEAN
  /\ file = NULL \/ file \in Seq(0..MaxLines)
  /\ lines \in 0..MaxLines /\ commands \in 0..MaxCommands
  /\ ran \in Seq(1..MaxLines) /\ failed \subseteq 1..MaxLines
  /\ phase = "record" => lines >= 1

Memory ==
  /\ Remembers(aliases, latest, undone)
  /\ phase \notin {"run", "commit"} => aliases.pending = <<>>

Inv == World /\ Memory

LEMMA InvIsTypeOK == Inv => TypeOK
BY DEF Inv, World, Memory, Remembers, Live, TypeOK, Sound, AliasTables, Table, EntryOf

LEMMA InvIsLatest == Inv => AliasIsLatest
<1> SUFFICES ASSUME Inv, NEW n \in Name
             PROVE  /\ Has(aliases.table, n) /\ n \notin Waiting(aliases) \union undone
                         => ValueOf(aliases.table, n) = latest[n]
                    /\ \A i, j \in DOMAIN Chain(aliases.table, n) :
                         Chain(aliases.table, n)[i].name = Chain(aliases.table, n)[j].name => i = j
  BY DEF AliasIsLatest
<1>1. aliases.table \in Table(Text) /\ Sorted(aliases.table)
  BY AliasFields DEF Inv, Memory, Remembers, Sound
<1>2. Has(aliases.table, n) /\ n \notin Waiting(aliases) \union undone
        => ValueOf(aliases.table, n) = latest[n]
  BY DEF Inv, Memory, Remembers, Agrees, Names
<1>3. hash[n] \in Bucket /\ Chain(aliases.table, n) = aliases.table.chain[hash[n]]
  BY <1>1, ChainType
<1> QED
  BY <1>1, <1>2, <1>3 DEF Sorted, OneEach

\* The ways a step leaves the aliases
LEMMA StopsKeeps ==
  ASSUME NEW how, Stops(how)
  PROVE  Memory'
<1>1. Sound(NoAliases) /\ Names(NoAliases.table) = {} /\ NoAliases.pending = <<>>
  BY NoAliasesSound
<1>2. aliases' = NoAliases /\ latest' \in [Name -> Text \union {NULL}] /\ undone' = {}
  BY DEF Stops
<1> QED
  BY <1>1, <1>2 DEF Memory, Remembers, Agrees, LastOf

LEMMA GoesKeeps ==
  ASSUME Memory, NEW next, Goes(next), next \in {"run", "commit"} \/ aliases.pending = <<>>
  PROVE  Memory'
BY DEF Goes, said, Memory, Remembers

LEMMA BecomesKeeps ==
  ASSUME Memory, phase = "run", NEW r, Becomes(r),
         r.how = "run" /\ phase' = "run" => Remembers(r.aliases, latest', undone')
  PROVE  Memory'
<1>1. CASE r.how # "run"
  BY <1>1, StopsKeeps DEF Becomes
<1>2. CASE r.how = "run"
  BY <1>2 DEF Becomes, Memory, Remembers
<1> QED
  BY <1>1, <1>2

LEMMA BecomesWorld ==
  ASSUME World, phase = "run", UNCHANGED <<lines, ran, failed, found, world>>,
         commands' \in 0..MaxCommands,
         NEW r, Becomes(r), r.how \in Ended \union {"run"}
  PROVE  World'
<1>1. phase' \in Ended \union {"run"} /\ terminal' = terminal /\ home' = home
  BY DEF Becomes, Stops
<1>2. UNCHANGED <<file, rival, lost>>
  BY DEF world
<1> QED
  BY <1>1, <1>2 DEF World, Ended, Live

LEMMA MemoryInit == Init => Memory
<1>1. Sound(NoAliases) /\ Names(NoAliases.table) = {} /\ NoAliases.pending = <<>>
  BY NoAliasesSound
<1>2. ASSUME Init
      PROVE  aliases = NoAliases /\ latest \in [Name -> Text \union {NULL}] /\ undone = {}
  BY <1>2 DEF Init
<1> QED
  BY <1>1, <1>2 DEF Memory, Remembers, Agrees, LastOf

LEMMA WorldInit == Init => World
<1> SUFFICES ASSUME Init PROVE World
  OBVIOUS
<1>1. <<>> \in Seq(1..MaxLines) /\ <<>> \in Seq(0..MaxLines)
  OBVIOUS
<1>2. /\ phase = "start" /\ ran = <<>> /\ file \in {NULL, <<>>}
      /\ lines = 0 /\ commands = 0 /\ failed = {}
  BY DEF Init
<1>3. lines \in 0..MaxLines /\ commands \in 0..MaxCommands /\ failed \subseteq 1..MaxLines
  BY <1>2, SessionAssumption
<1>4. ran \in Seq(1..MaxLines) /\ (file = NULL \/ file \in Seq(0..MaxLines))
  BY <1>1, <1>2
<1>5. /\ terminal \in BOOLEAN /\ home \in BOOLEAN /\ rival \in BOOLEAN /\ lost \in BOOLEAN
      /\ found \in BOOLEAN
  BY DEF Init
<1> QED
  BY <1>2, <1>3, <1>4, <1>5 DEF World, Live

\* The commands of a line
LEMMA AliasSound ==
  ASSUME NEW al, Sound(al), NEW n \in Name, NEW t \in Text
  PROVE  /\ Sound(Alias(al, n, t).aliases) /\ Alias(al, n, t).aliases.table = al.table
         /\ Alias(al, n, t).aliases.pending = Append(al.pending, [name |-> n, text |-> t])
<1>1. [name |-> n, text |-> t] \in Definition
  BY DEF Definition
<1>2. PICK d \in Definition : d = [name |-> n, text |-> t]
  BY <1>1
<1>3. al \in AliasTables /\ al.pending \in Seq(Definition)
  BY AliasFields DEF Sound
<1>4. PICK p \in Seq(Definition) : p = Append(al.pending, d)
  <2>1. PICK s \in Seq(Definition) : s = al.pending
    BY <1>3
  <2>2. Append(s, d) \in Seq(Definition)
    OBVIOUS
  <2> QED
    BY <2>1, <2>2
<1>5. PICK u : u = [al EXCEPT !.pending = p]
  OBVIOUS
<1>6. u \in AliasTables /\ u.table = al.table /\ u.dangling = al.dangling /\ u.pending = p
  BY <1>3, <1>5 DEF AliasTables
<1>7. Alias(al, n, t).aliases = u
  BY <1>2, <1>4, <1>5 DEF Alias, Kept
<1> QED
  BY <1>2, <1>4, <1>6, <1>7 DEF Sound

\* What is to be known when one more definition waits
LEMMA AliasRemembers ==
  ASSUME NEW al, NEW given, NEW older, Remembers(al, given, older), NEW n \in Name, NEW t \in Text
  PROVE  Remembers(Alias(al, n, t).aliases, [given EXCEPT ![n] = t], older \ {n})
<1>1. PICK u : u = Alias(al, n, t).aliases
  OBVIOUS
<1>2. /\ Sound(al) /\ given \in [Name -> Text \union {NULL}] /\ older \subseteq Name
      /\ Agrees(al, given, Waiting(al) \union older) /\ LastOf(al.pending, given)
  BY DEF Remembers
<1>3. /\ Sound(u) /\ u.table = al.table
      /\ u.pending = Append(al.pending, [name |-> n, text |-> t])
  BY <1>1, <1>2, AliasSound
<1>4. al.pending \in Seq(Definition)
  BY <1>2, AliasFields DEF Sound
<1>5. PICK g : g = [given EXCEPT ![n] = t]
  OBVIOUS
<1>6. g \in [Name -> Text \union {NULL}] /\ g[n] = t /\ \A k \in Name : k # n => g[k] = given[k]
  BY <1>2, <1>5
<1>7. LastOf(u.pending, g) /\ Waiting(u) = Waiting(al) \union {n}
  <2>1. PICK p, q : p \in Seq(Definition) /\ p = al.pending /\ q = u.pending
    BY <1>4
  <2>2. /\ LastOf(q, g)
        /\ NamesOf(q) = NamesOf(p) \union {n}
    <3>1. PICK d : d = [name |-> n, text |-> t]
      OBVIOUS
    <3>2. d \in Definition /\ d.name = n /\ d.text = t
      BY <3>1 DEF Definition
    <3>3. q = Append(p, d) /\ LastOf(p, given)
      BY <1>2, <1>3, <2>1, <3>1
    <3>4. g[d.name] = d.text /\ \A k \in Name : k # d.name => g[k] = given[k]
      BY <1>6, <3>2
    <3>5. /\ LastOf(Append(p, d), g)
          /\ NamesOf(Append(p, d)) = NamesOf(p) \union {d.name}
      BY <2>1, <3>2, <3>3, <3>4, LastOfAppend
    <3> QED
      BY <3>2, <3>3, <3>5
  <2>3. Waiting(u) = NamesOf(q) /\ Waiting(al) = NamesOf(p)
    BY <2>1 DEF Waiting, NamesOf
  <2> QED
    BY <2>1, <2>2, <2>3
<1>8. Agrees(u, g, Waiting(u) \union (older \ {n}))
  BY <1>2, <1>3, <1>6, <1>7 DEF Agrees, Names
<1> QED
  BY <1>1, <1>2, <1>3, <1>5, <1>6, <1>7, <1>8 DEF Remembers

\* And when `unalias' removed a name, or a definition that waited
LEMMA UnaliasRemembers ==
  ASSUME NEW al, NEW given, NEW older, Remembers(al, given, older), NEW n \in Name,
         Unalias(al, n).how = "run", NEW u, u = Unalias(al, n).aliases
  PROVE  Remembers(u, given, (older \union (Waiting(al) \ Waiting(u))) \intersect Names(u.table))
<1>1. /\ Sound(al) /\ given \in [Name -> Text \union {NULL}] /\ older \subseteq Name
      /\ Agrees(al, given, Waiting(al) \union older) /\ LastOf(al.pending, given)
  BY DEF Remembers
<1>2. /\ Sound(u) /\ Removed(u, al, n)
      /\ u.pending = al.pending \/ (al.pending # <<>> /\ u.pending = Tail(al.pending))
  BY <1>1, UnaliasProperties
<1>3. al.pending \in Seq(Definition)
  BY <1>1, AliasFields DEF Sound
<1>4. LastOf(u.pending, given)
  BY <1>1, <1>2, <1>3, LastOfTail
<1>5. PICK less : less = (older \union (Waiting(al) \ Waiting(u))) \intersect Names(u.table)
  OBVIOUS
<1>6. less \subseteq Name
  BY <1>5 DEF Names
<1>7. ASSUME NEW k \in Names(u.table), k \notin Waiting(u) \union less
      PROVE  ValueOf(u.table, k) = given[k]
  <2>1. k \notin Waiting(al) \union older
    BY <1>5, <1>7
  <2>2. k \in Names(al.table) /\ ValueOf(u.table, k) = ValueOf(al.table, k)
    BY <1>2 DEF Removed
  <2> QED
    BY <1>1, <2>1, <2>2 DEF Agrees
<1>8. Agrees(u, given, Waiting(u) \union less)
  BY <1>7 DEF Agrees
<1> QED
  BY <1>1, <1>2, <1>4, <1>5, <1>6, <1>8 DEF Remembers

LEMMA DoAliasKeeps ==
  ASSUME Inv, NEW n \in Name, NEW t \in Text, DoAlias(n, t)
  PROVE  Inv' /\ Defined \subseteq Defined'
<1>1. PICK r : r = Alias(aliases, n, t)
  OBVIOUS
<1>2. r.how = "run"
  BY <1>1 DEF Alias, Kept
<1>3. /\ r.aliases.table = aliases.table
      /\ Remembers(r.aliases, [latest EXCEPT ![n] = t], undone \ {n})
  <2>1. Sound(aliases) /\ Remembers(aliases, latest, undone)
    BY DEF Inv, Memory, Remembers
  <2> QED
    BY <1>1, <2>1, AliasSound, AliasRemembers
<1>4. Becomes(r) /\ phase = "run" /\ UNCHANGED <<lines, ran, failed, found, world>>
  BY <1>1 DEF DoAlias, Changes, Command
<1>5. commands' \in 0..MaxCommands
  BY SessionAssumption DEF DoAlias, Changes, Inv, World
<1>6. World'
  BY <1>2, <1>4, <1>5, BecomesWorld DEF Inv
<1>7. Memory'
  <2>1. latest' = [latest EXCEPT ![n] = t] /\ undone' = undone \ {n}
    BY DEF DoAlias
  <2> QED
    BY <1>3, <1>4, <2>1, BecomesKeeps DEF Inv
<1>8. aliases' = r.aliases
  BY <1>2, <1>4 DEF Becomes
<1> QED
  BY <1>3, <1>6, <1>7, <1>8 DEF Inv, Defined

LEMMA ShowAliasesKeeps ==
  ASSUME Inv, ShowAliases
  PROVE  Inv' /\ (Defined \subseteq Defined' \/ phase' \in Ended)
<1>1. PICK r : r = ShowAll(aliases)
  OBVIOUS
<1>2. r.how \in {"run", "undefined"} /\ (r.how = "run" => r.aliases = aliases)
  BY <1>1 DEF ShowAll, Kept, Fatal
<1>3. /\ Becomes(r) /\ phase = "run" /\ UNCHANGED <<lines, ran, failed, found, world>>
      /\ UNCHANGED commands
  BY <1>1 DEF ShowAliases, Looks, Command
<1>4. World'
  BY <1>2, <1>3, BecomesWorld DEF Inv, World, Ended
<1>5. Memory'
  <2>1. phase' = "run" => latest' = latest /\ undone' = undone
    BY DEF ShowAliases, said
  <2> QED
    BY <1>2, <1>3, <2>1, BecomesKeeps DEF Inv, Memory
<1>6. Defined \subseteq Defined' \/ phase' \in Ended
  BY <1>2, <1>3 DEF Becomes, Defined, Stops, Ended
<1> QED
  BY <1>4, <1>5, <1>6 DEF Inv

LEMMA UseKeeps ==
  ASSUME Inv, NEW n \in Name, Use(n)
  PROVE  Inv' /\ (Defined \subseteq Defined' \/ phase' \in Ended)
<1>1. /\ phase = "run" /\ UNCHANGED <<lines, ran, failed, found, world, commands>>
      /\ Stops("crashed") \/ Goes("run")
  BY DEF Use, Looks, Command
<1>2. World'
  BY <1>1 DEF Inv, World, Stops, Goes, Ended, Live, world
<1>3. Memory'
  BY <1>1, StopsKeeps, GoesKeeps DEF Inv
<1>4. Defined \subseteq Defined' \/ phase' \in Ended
  BY <1>1 DEF Stops, Goes, Defined, Ended
<1> QED
  BY <1>2, <1>3, <1>4 DEF Inv

LEMMA DoUnaliasKeeps ==
  ASSUME Inv, NEW n \in Name, DoUnalias(n)
  PROVE  /\ Inv'
         /\ phase' \in Ended
            \/ Defined \ Defined' \subseteq
                 IF Place(aliases.table, n) <= 2 THEN {n} ELSE {m \in Name : hash[m] = hash[n]}
<1>1. PICK r : r = Unalias(aliases, n)
  OBVIOUS
<1>2. Sound(aliases) /\ Remembers(aliases, latest, undone)
  BY DEF Inv, Memory, Remembers
<1>3. /\ r.how \in {"run", "crashed"}
      /\ r.how = "run" => Sound(r.aliases) /\ Removed(r.aliases, aliases, n)
  BY <1>1, <1>2, UnaliasProperties
<1>4. Becomes(r) /\ phase = "run" /\ UNCHANGED <<lines, ran, failed, found, world>>
  BY <1>1 DEF DoUnalias, Changes, Command
<1>5. commands' \in 0..MaxCommands
  BY SessionAssumption DEF DoUnalias, Changes, Inv, World
<1>6. World'
  BY <1>3, <1>4, <1>5, BecomesWorld DEF Inv, Ended
<1>7. ASSUME r.how = "run", phase' = "run" PROVE Remembers(r.aliases, latest', undone')
  <2>1. aliases' = r.aliases /\ Defined' = Names(r.aliases.table) /\ latest' = latest
    BY <1>4, <1>7 DEF Becomes, DoUnalias, Defined, Names
  <2>2. undone' = (undone \union (Waiting(aliases) \ Waiting(r.aliases)))
                    \intersect Names(r.aliases.table)
    BY <1>7, <2>1 DEF DoUnalias
  <2> QED
    BY <1>1, <1>2, <1>7, <2>1, <2>2, UnaliasRemembers
<1>8. Memory'
  BY <1>4, <1>7, BecomesKeeps DEF Inv
<1>9. CASE r.how = "run"
  <2>1. aliases' = r.aliases
    BY <1>4, <1>9 DEF Becomes
  <2>2. Defined = Names(aliases.table) /\ Defined' = Names(r.aliases.table)
    BY <2>1 DEF Defined, Names
  <2>3. ASSUME NEW k \in Defined, k \notin Defined', k # n
        PROVE  hash[k] = hash[n] /\ ~(Place(aliases.table, n) <= 2)
    <3>1. /\ Has(aliases.table, n) /\ hash[k] = hash[n] /\ Place(aliases.table, k) > 1
          /\ Place(aliases.table, k) + 1 = Place(aliases.table, n)
      BY <1>3, <1>9, <2>2, <2>3 DEF Removed
    <3>2. aliases.table \in Table(Text) /\ Sorted(aliases.table) /\ k \in Name
      BY <1>2, AliasFields DEF Sound, Defined
    <3>3. Place(aliases.table, k) \in Nat
      <4>1. Has(aliases.table, k)
        BY <2>3 DEF Defined
      <4>2. Place(aliases.table, k) \in 1..Len(Chain(aliases.table, k))
        BY <3>2, <4>1, PlaceProperties
      <4>3. Len(Chain(aliases.table, k)) \in Nat
        BY <3>2, ChainType
      <4> QED
        BY <4>2, <4>3
    <3> QED
      BY <3>1, <3>3
  <2>4. Defined \subseteq Name
    BY DEF Defined
  <2> QED
    BY <1>6, <1>8, <2>3, <2>4 DEF Inv
<1>10. CASE r.how # "run"
  BY <1>3, <1>4, <1>6, <1>8, <1>10 DEF Inv, Becomes, Stops, Ended
<1> QED
  BY <1>9, <1>10

LEMMA DoUnaliasAllKeeps ==
  ASSUME Inv, DoUnaliasAll
  PROVE  Inv'
<1>1. PICK r : r = UnaliasAll(aliases)
  OBVIOUS
<1>2. Sound(aliases) /\ Remembers(aliases, latest, undone)
  BY DEF Inv, Memory, Remembers
<1>3. /\ r.how \in {"run", "undefined"}
      /\ r.how = "run" =>
           /\ Sound(r.aliases) /\ Names(r.aliases.table) = {}
           /\ r.aliases.pending = aliases.pending
  BY <1>1, <1>2, UnaliasAllProperties
<1>4. Becomes(r) /\ phase = "run" /\ UNCHANGED <<lines, ran, failed, found, world>>
  BY <1>1 DEF DoUnaliasAll, Changes, Command
<1>5. commands' \in 0..MaxCommands
  BY SessionAssumption DEF DoUnaliasAll, Changes, Inv, World
<1>6. World'
  BY <1>3, <1>4, <1>5, BecomesWorld DEF Inv, Ended
<1>7. Memory'
  <2>1. phase' = "run" => latest' = latest /\ undone' = undone
    BY DEF DoUnaliasAll, said
  <2>2. r.how = "run" /\ phase' = "run" => Remembers(r.aliases, latest', undone')
    BY <1>2, <1>3, <2>1 DEF Remembers, Agrees
  <2> QED
    BY <1>4, <2>2, BecomesKeeps DEF Inv
<1> QED
  BY <1>6, <1>7 DEF Inv

LEMMA EndOfLineKeeps ==
  ASSUME Inv, EndOfLine
  PROVE  Inv' /\ (Defined \subseteq Defined' \/ phase' \in Ended)
<1>1. /\ UNCHANGED <<found, world, counts>>
      /\ Sound(aliases) /\ Remembers(aliases, latest, undone)
  BY DEF EndOfLine, Inv, Memory, Remembers
<1>2. CASE /\ aliases.pending # <<>>
           /\ phase' = "commit" /\ aliases' = Commit(aliases)
           /\ UNCHANGED <<terminal, home, said>>
  <2>1. PICK d : d = aliases.pending[1]
    OBVIOUS
  <2>2. Names(Commit(aliases).table) = Names(aliases.table) \union {d.name}
    BY <1>1, <1>2, <2>1, CommitProperties
  <2>3. Remembers(Commit(aliases), latest, undone)
    BY <1>1, <1>2, CommitRemembers
  <2>4. /\ aliases' = Commit(aliases) /\ latest' = latest /\ undone' = undone
        /\ phase' = "commit"
    BY <1>2 DEF said
  <2>5. Remembers(aliases', latest', undone')
    BY <2>3, <2>4
  <2>7. Memory'
    BY <2>4, <2>5 DEF Memory, Remembers
  <2>8. World'
    BY <1>1, <1>2 DEF Inv, World, Live, world, counts
  <2>9. Defined = Names(aliases.table) /\ Defined' = Names(Commit(aliases).table)
    BY <1>2 DEF Defined, Names
  <2> QED
    BY <2>2, <2>7, <2>8, <2>9 DEF Inv
<1>3. CASE aliases.pending = <<>> /\ terminal /\ Goes("prompt")
  <2>1. Memory'
    BY <1>3, GoesKeeps DEF Inv
  <2>2. World'
    BY <1>1, <1>3 DEF Inv, World, Live, Goes, world, counts
  <2>3. Defined' = Defined
    BY <1>3 DEF Goes, Defined
  <2> QED
    BY <2>1, <2>2, <2>3 DEF Inv
<1>4. CASE Stops(Release(aliases))
  <2>1. Memory'
    BY <1>4, StopsKeeps
  <2>2. phase' \in Ended /\ UNCHANGED <<terminal, home>>
    BY <1>4 DEF Stops, Release, Ended
  <2>3. World'
    BY <1>1, <2>2 DEF Inv, World, Live, Ended, world, counts
  <2> QED
    BY <2>1, <2>2, <2>3 DEF Inv
<1> QED
  BY <1>2, <1>3, <1>4 DEF EndOfLine

\* The steps that leave the aliases alone, and those after which none are left
LEMMA RestKeeps ==
  ASSUME Inv,
         \/ Open \/ Create \/ Rc \/ Refuse \/ Accept \/ Record \/ ReadScript
         \/ Exit \/ Kill \/ Restart \/ Rival
  PROVE  Memory' /\ (Defined \subseteq Defined' \/ phase' \in Ended)
<1>1. CASE \E how \in Ended : Stops(how)
  BY <1>1, StopsKeeps DEF Stops
<1>2. CASE \E next \in Live : Goes(next) /\ (next = "run" \/ aliases.pending = <<>>)
  <2>1. Defined' = Defined
    BY <1>2 DEF Goes, Defined
  <2> QED
    BY <1>2, <2>1, GoesKeeps DEF Inv
<1>3. CASE Restart \/ Rival
  <2>1. UNCHANGED <<aliases, latest, undone>> /\ (phase' = phase \/ (phase \in Ended /\ phase' = "start"))
    BY <1>3 DEF Restart, Rival, said
  <2>2. Defined' = Defined
    BY <2>1 DEF Defined
  <2> QED
    BY <2>1, <2>2 DEF Inv, Memory, Remembers, Ended
<1>4. phase \notin {"run", "commit"} => aliases.pending = <<>>
  BY DEF Inv, Memory
<1>5. CASE Open \/ Create \/ Rc \/ Refuse \/ Accept \/ Record \/ ReadScript
  <2>1. phase \in {"start", "create", "rc", "prompt", "record", "script"}
    BY <1>5 DEF Open, Create, Rc, Refuse, Accept, Record, ReadScript
  <2>2. \/ Stops("ended")
        \/ \E next \in {"create", "rc", "prompt", "script", "record", "run"} : Goes(next)
    BY <1>5 DEF Open, Create, Rc, Refuse, Accept, Record, Written, ReadScript
  <2> QED
    BY <1>1, <1>2, <1>4, <2>1, <2>2 DEF Live, Ended
<1>6. CASE Exit \/ Kill
  <2>1. Release(aliases) \in Ended
    BY DEF Release, Ended
  <2> QED
    BY <1>1, <1>6, <2>1 DEF Exit, Kill, Ended
<1> QED
  BY <1>3, <1>5, <1>6

LEMMA RecordWorld ==
  ASSUME World, Record
  PROVE  World'
<1>1. /\ phase = "record" /\ lines \in 0..MaxLines /\ lines \in 1..MaxLines
      /\ ran \in Seq(1..MaxLines)
  BY SessionAssumption DEF World, Record
<1>2. PICK s : s = Opened
  OBVIOUS
<1>3. <<>> \in Seq(0..MaxLines) /\ 0 \in 0..MaxLines
  BY SessionAssumption
<1>4. s \in Seq(0..MaxLines)
  BY <1>2, <1>3 DEF World, Opened
<1>5. Append(s, lines) \in Seq(0..MaxLines) /\ Append(s, 0) \in Seq(0..MaxLines)
  BY <1>1, <1>3, <1>4
<1>6. Append(ran, lines) \in Seq(1..MaxLines)
  BY <1>1
<1>7. /\ file' \in {Append(s, lines), Append(s, 0), s, file}
      /\ ran' = Append(ran, lines) \/ ran' = ran
      /\ failed' = failed \union {lines} \/ failed' = failed
      /\ phase' \in {"run", "prompt"}
      /\ UNCHANGED <<terminal, home, rival, found, lost, lines, commands>>
  BY <1>2 DEF Record, Written, Goes
<1>8. /\ file' = NULL \/ file' \in Seq(0..MaxLines)
      /\ ran' \in Seq(1..MaxLines) /\ failed' \subseteq 1..MaxLines
  BY <1>1, <1>4, <1>5, <1>6, <1>7 DEF World
<1> QED
  BY <1>7, <1>8 DEF World, Live

LEMMA RivalWorld ==
  ASSUME World, Rival
  PROVE  World'
<1>1. UNCHANGED <<phase, terminal, home, found, counts>>
  BY DEF Rival
<1>2. <<>> \in Seq(0..MaxLines) /\ 0 \in 0..MaxLines
  BY SessionAssumption
<1>3. file # NULL => Append(file, 0) \in Seq(0..MaxLines)
  BY <1>2 DEF World
<1>4. file' = NULL \/ file' \in Seq(0..MaxLines)
  <2>1. file' = file \/ file' = <<>> \/ (file # NULL /\ file' = Append(file, 0))
    BY DEF Rival
  <2> QED
    BY <1>2, <1>3, <2>1 DEF World
<1>5. rival' \in BOOLEAN /\ lost' \in BOOLEAN
  BY DEF Rival, World
<1> QED
  BY <1>1, <1>4, <1>5 DEF World, counts

LEMMA RestWorld ==
  ASSUME World,
         \/ Open \/ Create \/ Rc \/ Refuse \/ Accept \/ ReadScript
         \/ Exit \/ Kill \/ Restart
  PROVE  World'
<1>1. Release(aliases) \in Ended
  BY DEF Release, Ended
<1>2. CASE Open
  BY <1>2 DEF Open, Goes, World, Live, world, counts
<1>3. CASE Create
  <2>1. <<>> \in Seq(0..MaxLines)
    OBVIOUS
  <2>2. /\ file' = file \/ file' = <<>>
        /\ lost' \in BOOLEAN /\ phase' = "rc"
        /\ UNCHANGED <<terminal, home, rival, found, counts>>
    BY <1>3 DEF Create, Goes, World
  <2>3. file' = NULL \/ file' \in Seq(0..MaxLines)
    BY <2>1, <2>2 DEF World
  <2> QED
    BY <2>2, <2>3 DEF World, Live, counts
<1>4. CASE Rc \/ Exit \/ Kill
  <2>1. /\ phase' \in Ended \union {"prompt", "script"}
        /\ UNCHANGED <<terminal, home, found, world, counts>>
    BY <1>1, <1>4 DEF Rc, Exit, Kill, Goes, Stops, Ended
  <2> QED
    BY <2>1 DEF World, Live, Ended, world, counts
<1>5. CASE Refuse \/ Accept \/ ReadScript
  <2>1. /\ Types /\ UNCHANGED <<terminal, home>>
        /\ phase' \in {"prompt", "record", "run", "ended"}
    BY <1>5 DEF Refuse, Accept, ReadScript, Goes, Stops
  <2>2. lines' \in 0..MaxLines /\ lines' >= 1
    BY <2>1, SessionAssumption DEF Types, World
  <2> QED
    BY <2>1, <2>2 DEF Types, World, Live, Ended, world
<1>6. CASE Restart
  BY <1>6 DEF Restart, World, Live, world, counts
<1> QED
  BY <1>2, <1>3, <1>4, <1>5, <1>6

\* What OthersStay says of a step
Stay ==
  \/ Defined \subseteq Defined' \/ phase' \in Ended \/ DoUnaliasAll
  \/ \E n \in Name :
       /\ DoUnalias(n)
       /\ Defined \ Defined' \subseteq
            IF Place(aliases.table, n) <= 2 THEN {n} ELSE {m \in Name : hash[m] = hash[n]}

LEMMA InvNext == Inv /\ [Next]_vars => Inv' /\ (Stay \/ UNCHANGED vars)
<1> SUFFICES ASSUME Inv, [Next]_vars PROVE Inv' /\ (Stay \/ UNCHANGED vars)
  OBVIOUS
<1>1. CASE UNCHANGED vars
  BY <1>1 DEF vars, said, world, counts, Inv, World, Memory, Remembers
<1>2. CASE \/ Open \/ Create \/ Rc \/ Refuse \/ Accept \/ Record \/ ReadScript
           \/ Exit \/ Kill \/ Restart \/ Rival
  <2>1. Memory' /\ (Defined \subseteq Defined' \/ phase' \in Ended)
    BY <1>2, RestKeeps
  <2>2. World'
    BY <1>2, RecordWorld, RivalWorld, RestWorld DEF Inv
  <2> QED
    BY <2>1, <2>2 DEF Inv, Stay
<1>3. ASSUME NEW n \in Name, NEW t \in Text, DoAlias(n, t) PROVE Inv' /\ Stay
  BY <1>3, DoAliasKeeps DEF Stay
<1>4. ASSUME NEW n \in Name, DoUnalias(n) PROVE Inv' /\ Stay
  BY <1>4, DoUnaliasKeeps DEF Stay
<1>5. ASSUME NEW n \in Name, Use(n) PROVE Inv' /\ Stay
  BY <1>5, UseKeeps DEF Stay
<1>6. CASE ShowAliases
  BY <1>6, ShowAliasesKeeps DEF Stay
<1>7. CASE DoUnaliasAll
  BY <1>7, DoUnaliasAllKeeps DEF Stay
<1>8. CASE EndOfLine
  BY <1>8, EndOfLineKeeps DEF Stay
<1> QED
  BY <1>1, <1>2, <1>3, <1>4, <1>5, <1>6, <1>7, <1>8 DEF Next

LEMMA InvAlways == Spec => []Inv
<1>1. Init => Inv
  BY WorldInit, MemoryInit DEF Inv
<1> QED
  BY <1>1, InvNext, PTL DEF Spec

\* Type correctness; between two lines no definition of an alias waits to be made,
\* and a bucket whose head still points to a released entry is empty, whatever is
\* defined and removed in whatever order.
THEOREM TypeCorrect == Spec => []TypeOK
BY InvAlways, InvIsTypeOK, PTL

\* For any names, however they share buckets, and through any lines, an alias has
\* one entry and stands for what the last `alias' said of it, unless that still
\* waits for the end of its line, or an `unalias' of it, or of a name it begins,
\* took it back there.
THEOREM AliasIsAlwaysLatest == Spec => []AliasIsLatest
BY InvAlways, InvIsLatest, PTL

\* No command removes an alias but the one it names, if that stands first or second
\* in its bucket, and none of another bucket in any case.
THEOREM OthersStayAlways == Spec => OthersStay
<1>1. Stay =>
        \/ Defined \subseteq Defined' \/ phase' \in Ended \/ DoUnaliasAll
        \/ \E n \in Name :
             /\ DoUnalias(n)
             /\ Defined \ Defined' \subseteq
                  IF Place(aliases.table, n) <= 2 THEN {n} ELSE {m \in Name : hash[m] = hash[n]}
  BY DEF Stay
<1> QED
  BY <1>1, InvAlways, InvNext, PTL DEF Spec, OthersStay

----------------------------------------------------------------------------
(* What was run is recorded.                                               *)

\* The lines of this shell stand in the order they were typed, and none is still
\* to come.
Increasing(s) == \A i, j \in DOMAIN s : i < j /\ s[i] > 0 /\ s[j] > 0 => s[i] < s[j]
UpTo(s, l) == \A i \in DOMAIN s : s[i] <= l

\* s holds what is in r, but for what is in f.
Contains(s, r, f) == \A i \in DOMAIN r : r[i] \in f \/ \E j \in DOMAIN s : s[j] = r[i]

RecordInv ==
  /\ phase = "create" => ~found
  /\ file # NULL => Increasing(file) /\ UpTo(file, IF phase = "record" THEN lines - 1 ELSE lines)
  /\ ~lost /\ ran # <<>> => file # NULL /\ Contains(file, ran, failed)

\* u is s with the line l behind the others.
Behind(u, s, l) ==
  /\ Increasing(u)
  /\ \A k \in Int : l <= k /\ UpTo(s, k) => UpTo(u, k)
  /\ \A r, f : Contains(s, r, f) => Contains(u, r, f)
  /\ \E j \in DOMAIN u : u[j] = l

LEMMA AppendKeeps ==
  ASSUME NEW S, S \subseteq Int, NEW s \in Seq(S), Increasing(s), NEW l \in S,
         l = 0 \/ UpTo(s, l - 1), NEW u, u = Append(s, l)
  PROVE  Behind(u, s, l)
<1>1. /\ Len(s) \in Nat /\ DOMAIN s = 1..Len(s) /\ DOMAIN u = 1..Len(s)+1
      /\ \A i \in 1..Len(s) : u[i] = s[i] /\ s[i] \in Int
      /\ l \in Int
      /\ u[Len(s)+1] = l
  <2>1. Len(s) \in Nat /\ DOMAIN s = 1..Len(s) /\ \A i \in 1..Len(s) : s[i] \in S
    OBVIOUS
  <2>2. Len(u) = Len(s) + 1 /\ u \in Seq(S)
    OBVIOUS
  <2>3. \A i \in 1..Len(s) : u[i] = s[i]
    OBVIOUS
  <2>4. u[Len(s)+1] = l
    OBVIOUS
  <2>5. DOMAIN u = 1..Len(u)
    BY <2>2
  <2>6. \A i \in 1..Len(s) : s[i] \in Int
    BY <2>1
  <2>7. l \in Int
    OBVIOUS
  <2> QED
    BY <2>1, <2>2, <2>3, <2>4, <2>5, <2>6, <2>7
<1>2. \A i \in DOMAIN u : i \in DOMAIN s \/ i = Len(s) + 1
  BY <1>1
<1>3. Increasing(u)
  <2> SUFFICES ASSUME NEW i \in DOMAIN u, NEW j \in DOMAIN u, i < j, u[i] > 0, u[j] > 0
               PROVE  u[i] < u[j]
    BY DEF Increasing
  <2>1. i \in DOMAIN s /\ u[i] = s[i] /\ i \in 1..Len(s)
    BY <1>1
  <2>2. CASE j \in DOMAIN s
    BY <1>1, <2>1, <2>2 DEF Increasing
  <2>3. CASE j = Len(s) + 1
    BY <1>1, <2>1, <2>3 DEF UpTo
  <2> QED
    BY <1>2, <2>2, <2>3
<1>4. ASSUME NEW k \in Int, l <= k, UpTo(s, k) PROVE UpTo(u, k)
  BY <1>1, <1>2, <1>4 DEF UpTo
<1>5. ASSUME NEW r, NEW f, Contains(s, r, f) PROVE Contains(u, r, f)
  BY <1>1, <1>5 DEF Contains
<1>6. \E j \in DOMAIN u : u[j] = l
  BY <1>1
<1> QED
  BY <1>3, <1>4, <1>5, <1>6 DEF Behind

\* A step that adds nothing, or empties the file
LEMMA FileKept ==
  ASSUME World, RecordInv, UNCHANGED <<file, ran, failed, lost>>, lines' \in 0..MaxLines,
         lines <= lines',
         phase' = "create" => ~found',
         phase' = "record" => (phase = "record" /\ lines' = lines) \/ lines' = lines + 1
  PROVE  RecordInv'
<1>1. ASSUME file # NULL
      PROVE  UpTo(file, IF phase' = "record" THEN lines' - 1 ELSE lines')
  <2>1. file \in Seq(0..MaxLines) /\ lines \in 0..MaxLines
    BY <1>1 DEF World
  <2>2. /\ \A i \in DOMAIN file : file[i] \in 0..MaxLines
        /\ UpTo(file, lines) /\ (phase = "record" => UpTo(file, lines - 1))
    BY <1>1, <2>1, SessionAssumption DEF RecordInv, UpTo
  <2>3. lines \in Int /\ lines' \in Int /\ \A i \in DOMAIN file : file[i] \in Int
    BY <2>1, <2>2, SessionAssumption
  <2> QED
    BY <2>2, <2>3 DEF UpTo
<1> QED
  BY <1>1 DEF RecordInv

LEMMA FileEmptied ==
  ASSUME World, RecordInv, file' = <<>>, ~lost' => ~lost /\ file \in {NULL, <<>>},
         UNCHANGED <<ran, failed, lines>>, phase' # "create" \/ (phase' = phase /\ found' = found)
  PROVE  RecordInv'
<1>1. <<>> # NULL
  <2>1. <<>> \in Seq(Nat)
    OBVIOUS
  <2> QED
    BY <2>1, SessionAssumption
<1>2. Increasing(<<>>) /\ \A l : UpTo(<<>>, l)
  BY DEF Increasing, UpTo
<1>3. ASSUME ~lost', ran # <<>> PROVE Contains(<<>>, ran, failed)
  BY <1>1, <1>3 DEF RecordInv
<1> QED
  BY <1>1, <1>2, <1>3 DEF RecordInv

LEMMA ContainsMore ==
  ASSUME NEW S, NEW r \in Seq(S), NEW l, NEW u, NEW f, NEW g, f \subseteq g, Contains(u, r, f),
         l \in g \/ \E j \in DOMAIN u : u[j] = l
  PROVE  Contains(u, Append(r, l), g)
<1>1. /\ DOMAIN r = 1..Len(r) /\ DOMAIN Append(r, l) = 1..Len(r)+1 /\ Len(r) \in Nat
      /\ Append(r, l)[Len(r)+1] = l /\ \A i \in 1..Len(r) : Append(r, l)[i] = r[i]
  OBVIOUS
<1>2. \A i \in DOMAIN Append(r, l) : i \in DOMAIN r \/ i = Len(r)+1
  BY <1>1
<1> QED
  BY <1>1, <1>2 DEF Contains

\* What Record finds, or creates
LEMMA OpenedProperties ==
  ASSUME World, RecordInv, NEW s, s = Opened, NEW m, m = IF phase = "record" THEN lines - 1 ELSE lines
  PROVE  /\ s \in Seq(0..MaxLines) /\ s # NULL /\ Increasing(s) /\ UpTo(s, m)
         /\ ~lost => Contains(s, ran, failed)
<1>1. <<>> \in Seq(0..MaxLines) /\ Increasing(<<>>) /\ \A k : UpTo(<<>>, k)
  BY DEF Increasing, UpTo
<1>2. s \in Seq(0..MaxLines)
  BY <1>1 DEF World, Opened
<1>3. s \in Seq(Nat)
  BY <1>2, SessionAssumption
<1>4. Increasing(s) /\ UpTo(s, m)
  BY <1>1 DEF RecordInv, Opened
<1>5. ASSUME ~lost PROVE Contains(s, ran, failed)
  <2>1. CASE ran = <<>>
    BY <2>1 DEF Contains
  <2>2. CASE ran # <<>>
    BY <1>5, <2>2 DEF RecordInv, Opened
  <2> QED
    BY <2>1, <2>2
<1> QED
  BY <1>2, <1>3, <1>4, <1>5, SessionAssumption

\* A line of which nothing is written
LEMMA NotWritten ==
  ASSUME World, RecordInv, phase = "record", phase' = "run", UNCHANGED <<lost, lines>>,
         file' = Opened, ran' = Append(ran, lines), failed' = failed \union {lines}
  PROVE  RecordInv'
<1>1. PICK s : s = Opened
  OBVIOUS
<1>2. /\ s \in Seq(0..MaxLines) /\ s # NULL /\ Increasing(s) /\ UpTo(s, lines - 1)
      /\ ~lost => Contains(s, ran, failed)
  BY <1>1, OpenedProperties
<1>3. UpTo(s, lines)
  <2>1. lines \in Int /\ \A i \in DOMAIN s : s[i] \in Int
    BY <1>2, SessionAssumption DEF World
  <2> QED
    BY <1>2, <2>1 DEF UpTo
<1>4. ~lost => Contains(s, ran', failed')
  <2>1. ran \in Seq(1..MaxLines) /\ failed \subseteq failed' /\ lines \in failed'
    BY DEF World
  <2> QED
    BY <1>2, <2>1, ContainsMore
<1> QED
  BY <1>1, <1>2, <1>3, <1>4 DEF RecordInv

\* A line that is written, a part of one, or a line of another shell
LEMMA FileAppended ==
  ASSUME World, RecordInv, NEW l \in 0..MaxLines, l = 0 \/ phase = "record",
         l = lines \/ l = 0,
         file' = Append(Opened, l),
         UNCHANGED <<lost, lines>>, failed \subseteq failed',
         ran' = ran \/ (ran' = Append(ran, lines) /\ (l = lines \/ lines \in failed')),
         phase' # "create" \/ (phase' = phase /\ found' = found),
         phase' = "record" => phase = "record" /\ l = 0 /\ lines >= 1
  PROVE  RecordInv'
<1>1. PICK s : s = Opened
  OBVIOUS
<1>4. PICK m : m = IF phase = "record" THEN lines - 1 ELSE lines
  OBVIOUS
<1>5. /\ s \in Seq(0..MaxLines) /\ Increasing(s) /\ UpTo(s, m)
      /\ ~lost => Contains(s, ran, failed)
  BY <1>1, <1>4, OpenedProperties
<1>3. s \in Seq(0..MaxLines) /\ lines \in 0..MaxLines
  BY <1>5 DEF World
<1>6. PICK u : u = Append(s, l) /\ u = file'
  BY <1>1
<1>7. l = 0 \/ UpTo(s, l - 1)
  BY <1>4, <1>5
<1>8. Behind(u, s, l)
  <2>1. PICK S : S = 0..MaxLines
    OBVIOUS
  <2>2. S \subseteq Int /\ s \in Seq(S) /\ l \in S
    BY <1>3, <2>1, SessionAssumption
  <2> QED
    BY <1>5, <1>6, <1>7, <2>2, AppendKeeps
<1>0. /\ Increasing(u)
      /\ \A k \in Int : l <= k /\ UpTo(s, k) => UpTo(u, k)
      /\ \A r, f : Contains(s, r, f) => Contains(u, r, f)
      /\ \E j \in DOMAIN u : u[j] = l
  BY <1>8 DEF Behind
<1>9. UpTo(u, IF phase' = "record" THEN lines' - 1 ELSE lines')
  <2>1. \A i \in DOMAIN s : s[i] \in Int
    BY <1>3, SessionAssumption
  <2>2. lines \in Int /\ MaxLines \in Int /\ lines >= 0 /\ lines <= MaxLines
    BY <1>3, SessionAssumption
  <2>3. CASE phase' = "record"
    <3>1. lines - 1 \in Int /\ l <= lines - 1 /\ m = lines - 1
      BY <1>4, <2>2, <2>3
    <3> QED
      BY <1>5, <1>0, <2>3, <3>1
  <2>4. CASE phase' # "record"
    <3>1. UpTo(s, lines)
      BY <1>4, <1>5, <2>1, <2>2 DEF UpTo
    <3>2. l <= lines
      BY <2>2
    <3> QED
      BY <1>0, <2>2, <2>4, <3>1, <3>2
  <2> QED
    BY <2>3, <2>4
<1>10. file' # NULL
  <2>1. Append(s, l) \in Seq(0..MaxLines)
    BY <1>3
  <2>2. Append(s, l) \in Seq(Nat)
    BY <2>1, SessionAssumption
  <2> QED
    BY <1>6, <2>2, SessionAssumption
<1>11. ASSUME ~lost', ran' # <<>> PROVE Contains(u, ran', failed')
  <2>1. Contains(u, ran, failed)
    BY <1>0, <1>5, <1>11
  <2>2. CASE ran' = ran
    BY <2>1, <2>2 DEF Contains
  <2>3. CASE ran' = Append(ran, lines) /\ (l = lines \/ lines \in failed')
    <3>1. ran \in Seq(1..MaxLines)
      BY DEF World
    <3> QED
      BY <1>0, <2>1, <2>3, <3>1, ContainsMore
  <2> QED
    BY <2>2, <2>3
<1> QED
  BY <1>6, <1>0, <1>9, <1>10, <1>11 DEF RecordInv

LEMMA RecordInit == Init => RecordInv
<1>1. Increasing(<<>>) /\ \A k : UpTo(<<>>, k)
  BY DEF Increasing, UpTo
<1> QED
  BY <1>1 DEF Init, RecordInv

LEMMA RecordNext == Inv /\ RecordInv /\ [Next]_vars => RecordInv'
<1> SUFFICES ASSUME World, RecordInv, [Next]_vars PROVE RecordInv'
  BY DEF Inv
<1>1. lines \in 0..MaxLines /\ lines <= lines /\ 0 \in 0..MaxLines
  BY SessionAssumption DEF World
<1>2. CASE UNCHANGED vars
  BY <1>1, <1>2, FileKept DEF vars, world, counts, RecordInv
<1>3. CASE Open
  <2>1. UNCHANGED <<file, ran, failed, lost, lines>> /\ phase' \in {"create", "rc"}
    BY <1>3 DEF Open, world, counts, Goes
  <2>2. phase' = "create" => ~found'
    BY <1>3 DEF Open, Goes
  <2> QED
    BY <1>1, <2>1, <2>2, FileKept
<1>4. CASE Create
  <2>1. UNCHANGED <<ran, failed, lines, found>> /\ phase' = "rc" /\ ~found
    BY <1>4 DEF Create, counts, Goes, RecordInv
  <2>2. CASE UNCHANGED <<file, lost>>
    BY <1>1, <2>1, <2>2, FileKept
  <2>3. CASE file' = <<>> /\ lost' = (lost \/ (~found /\ file \notin {NULL, <<>>}))
    BY <2>1, <2>3, FileEmptied
  <2> QED
    BY <1>4, <2>2, <2>3 DEF Create
<1>5. CASE Record
  <2>1. UNCHANGED <<lost, lines>> /\ phase = "record" /\ phase' \in {"run", "prompt"}
    BY <1>5 DEF Record, Written, Goes
  <2>2. CASE UNCHANGED <<file, ran, failed>>
    BY <1>1, <2>1, <2>2, FileKept
  <2>3. CASE /\ file' = Append(Opened, lines)
             /\ UNCHANGED failed /\ ran' = Append(ran, lines) /\ phase' = "run"
    BY <1>1, <2>1, <2>3, FileAppended
  <2>4. CASE /\ file' = Opened
             /\ failed' = failed \union {lines} /\ ran' = Append(ran, lines) /\ phase' = "run"
    BY <2>1, <2>4, NotWritten
  <2>5. CASE /\ file' = Append(Opened, 0)
             /\ failed' = failed \union {lines} /\ ran' = Append(ran, lines) /\ phase' = "run"
    BY <1>1, <2>1, <2>5, FileAppended
  <2> QED
    BY <1>5, <2>2, <2>3, <2>4, <2>5 DEF Record, Written, Goes
<1>6. CASE Rival
  <2>1. UNCHANGED <<phase, found, ran, failed, lines>>
    BY <1>6 DEF Rival, counts
  <2>2. CASE UNCHANGED <<file, lost>>
    BY <1>1, <2>1, <2>2, FileKept DEF RecordInv
  <2>3. CASE file' = <<>> /\ lost' = (lost \/ file \notin {NULL, <<>>})
    BY <2>1, <2>3, FileEmptied
  <2>4. CASE file # NULL /\ file' = Append(file, 0) /\ UNCHANGED lost
    <3>1. phase' = "record" => lines >= 1
      BY <2>1 DEF World
    <3>2. file' = Append(Opened, 0)
      BY <2>4 DEF Opened
    <3> QED
      BY <1>1, <2>1, <2>4, <3>1, <3>2, FileAppended
  <2> QED
    BY <1>6, <2>2, <2>3, <2>4 DEF Rival
<1>7. CASE Refuse \/ Accept \/ ReadScript
  <2>1. /\ UNCHANGED <<file, ran, failed, lost, found>>
        /\ lines' = lines + 1 /\ lines < MaxLines
        /\ phase' # "create"
    BY <1>7 DEF Refuse, Accept, ReadScript, Types, Goes, Stops, world
  <2>2. lines' \in 0..MaxLines /\ lines <= lines'
    BY <1>1, <2>1, SessionAssumption
  <2> QED
    BY <2>1, <2>2, FileKept
<1>8. CASE \/ Rc \/ EndOfLine \/ Exit \/ Kill \/ Restart \/ ShowAliases \/ DoUnaliasAll
           \/ \E n \in Name : (\E t \in Text : DoAlias(n, t)) \/ DoUnalias(n) \/ Use(n)
  <2>1. UNCHANGED <<file, ran, failed, lost, found, lines>>
    BY <1>8 DEF Rc, EndOfLine, Exit, Kill, Restart, ShowAliases, DoUnaliasAll, DoAlias,
         DoUnalias, Use, Looks, Changes, Command, world, counts
  <2>2. phase' \notin {"create", "record"}
    <3>1. Release(aliases) \notin {"create", "record"}
      BY DEF Release
    <3>2. CASE Rc \/ EndOfLine \/ Exit \/ Kill \/ Restart
      BY <3>1, <3>2 DEF Rc, EndOfLine, Exit, Kill, Restart, Goes, Stops
    <3>3. ASSUME NEW r, Becomes(r), phase = "run", r.how \notin {"create", "record"}
          PROVE  phase' \notin {"create", "record"}
      BY <3>3 DEF Becomes, Stops
    <3>4. ASSUME NEW al, NEW n
          PROVE  /\ ShowAll(al).how \notin {"create", "record"}
                 /\ UnaliasAll(al).how \notin {"create", "record"}
                 /\ Unalias(al, n).how \notin {"create", "record"}
      BY DEF ShowAll, UnaliasAll, Unalias, RemoveAssignment, Kept, Fatal
    <3>5. CASE ShowAliases \/ DoUnaliasAll
      BY <3>3, <3>4, <3>5 DEF ShowAliases, DoUnaliasAll, Looks, Changes, Command
    <3>6. ASSUME NEW n \in Name, DoUnalias(n) PROVE phase' \notin {"create", "record"}
      BY <3>3, <3>4, <3>6 DEF DoUnalias, Changes, Command
    <3>7. ASSUME NEW n \in Name, NEW t \in Text, DoAlias(n, t)
          PROVE  phase' \notin {"create", "record"}
      <4>1. Alias(aliases, n, t).how = "run"
        BY DEF Alias, Kept
      <4> QED
        BY <3>3, <3>7, <4>1 DEF DoAlias, Changes, Command
    <3>8. ASSUME NEW n \in Name, Use(n) PROVE phase' \notin {"create", "record"}
      BY <3>8 DEF Use, Goes, Stops
    <3> QED
      BY <1>8, <3>2, <3>5, <3>6, <3>7, <3>8
  <2> QED
    BY <1>1, <2>1, <2>2, FileKept
<1> QED
  BY <1>2, <1>3, <1>4, <1>5, <1>6, <1>7, <1>8 DEF Next

\* What was run in a terminal is in the history in the order it was typed, however
\* often shells are killed and started again, unless two that started at once for
\* the first time emptied it, and but for the lines whose own writing failed.
THEOREM RanIsAlwaysRecorded == Spec => []RanIsRecorded
<1>1. RecordInv => RanIsRecorded
  BY DEF RecordInv, RanIsRecorded, InOrder, Increasing, Contains
<1> QED
  BY <1>1, InvAlways, RecordInit, RecordNext, PTL DEF Spec
=============================================================================
