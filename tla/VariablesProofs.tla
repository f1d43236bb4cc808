-------------------------- MODULE VariablesProofs --------------------------
(***************************************************************************)
(* Theorems of Variables.  What an assignment, an export or a removal does *)
(* is a function from a memory to a memory; the lemmas say what it leaves, *)
(* of the entries as the names find them.                                  *)
(***************************************************************************)
EXTENDS Variables, SequenceTheorems, TLAPS

----------------------------------------------------------------------------
(* The tables.                                                             *)

EntryOf(V) == [name : Name, value : V]
Table(V) == [chain : [Bucket -> Seq(EntryOf(V))], headless : SUBSET Bucket]

\* A name has one entry, in the bucket where it is looked for.
OneEach(c, b) ==
  \A i \in DOMAIN c : /\ hash[c[i].name] = b
                      /\ \A j \in DOMAIN c : c[i].name = c[j].name => i = j
Sorted(t) == \A b \in Bucket : OneEach(t.chain[b], b)

\* A bucket that lost its head is empty.
Headed(t) == \A b \in t.headless : t.chain[b] = <<>>

Names(t) == {n \in Name : Has(t, n)}

USE HashAssumption

\* A new table has no name.
LEMMA NewTableProperties ==
  ASSUME NEW V
  PROVE  NewTable \in Table(V) /\ Sorted(NewTable) /\ Headed(NewTable) /\ Names(NewTable) = {}
<1>1. NewTable \in Table(V)
  <2>1. <<>> \in Seq(EntryOf(V))
    OBVIOUS
  <2> QED
    BY <2>1 DEF NewTable, Table
<1>2. \A b \in Bucket : NewTable.chain[b] = <<>>
  BY DEF NewTable
<1>3. \A n \in Name : Chain(NewTable, n) = <<>>
  BY <1>2 DEF Chain
<1> QED
  <2>1. Sorted(NewTable)
    BY <1>2 DEF Sorted, OneEach
  <2>2. Headed(NewTable)
    BY DEF Headed, NewTable
  <2>3. Names(NewTable) = {}
    BY <1>3 DEF Names, Has
  <2> QED
    BY <1>1, <2>1, <2>2, <2>3

\* The chain a name is looked for in
LEMMA ChainType ==
  ASSUME NEW V, NEW t \in Table(V), NEW n \in Name
  PROVE  /\ hash[n] \in Bucket /\ Chain(t, n) = t.chain[hash[n]]
         /\ Chain(t, n) \in Seq(EntryOf(V)) /\ Len(Chain(t, n)) \in Nat
         /\ DOMAIN Chain(t, n) = 1..Len(Chain(t, n))
         /\ \A i \in DOMAIN Chain(t, n) : Chain(t, n)[i] \in EntryOf(V)
<1>1. hash[n] \in Bucket /\ t.chain[hash[n]] \in Seq(EntryOf(V))
  BY DEF Table
<1>2. Chain(t, n) = t.chain[hash[n]]
  BY DEF Chain
<1> HIDE DEF Table
<1> QED
  BY <1>1, <1>2

\* The search finds the only entry of a name.
LEMMA PlaceProperties ==
  ASSUME NEW V, NEW t \in Table(V), Sorted(t), NEW n \in Name, Has(t, n)
  PROVE  /\ Place(t, n) \in DOMAIN Chain(t, n) /\ Place(t, n) \in 1..Len(Chain(t, n))
         /\ Chain(t, n)[Place(t, n)] = [name |-> n, value |-> ValueOf(t, n)]
         /\ ValueOf(t, n) \in V
         /\ \A i \in DOMAIN Chain(t, n) : Chain(t, n)[i].name = n => i = Place(t, n)
<1> DEFINE c == Chain(t, n)
<1>1. /\ hash[n] \in Bucket /\ c = t.chain[hash[n]] /\ DOMAIN c = 1..Len(c) /\ Len(c) \in Nat
      /\ \A i \in DOMAIN c : c[i] \in EntryOf(V)
  BY ChainType
<1>2. \A i, j \in DOMAIN c : c[i].name = c[j].name => i = j
  BY <1>1 DEF Sorted, OneEach
<1>3. PICK k \in DOMAIN c : c[k].name = n
  BY DEF Has
<1>4. \A j \in 1..k-1 : c[j].name # n
  BY <1>1, <1>2, <1>3
<1>5. Place(t, n) \in DOMAIN c /\ c[Place(t, n)].name = n
  BY <1>3, <1>4 DEF Place
<1>6. c[Place(t, n)] \in EntryOf(V) /\ ValueOf(t, n) = c[Place(t, n)].value
  BY <1>1, <1>5 DEF ValueOf
<1> HIDE DEF c
<1>7. c[Place(t, n)] = [name |-> n, value |-> ValueOf(t, n)] /\ ValueOf(t, n) \in V
  BY <1>5, <1>6 DEF EntryOf
<1> QED
  BY <1>1, <1>2, <1>5, <1>7 DEF c

\* Every entry is what the search for its name finds.
LEMMA EntryIsFound ==
  ASSUME NEW V, NEW t \in Table(V), Sorted(t), NEW b \in Bucket, NEW i \in DOMAIN t.chain[b]
  PROVE  /\ t.chain[b][i] \in EntryOf(V) /\ t.chain[b][i].name \in Names(t)
         /\ hash[t.chain[b][i].name] = b /\ Place(t, t.chain[b][i].name) = i
         /\ t.chain[b][i].value = ValueOf(t, t.chain[b][i].name)
<1> DEFINE n == t.chain[b][i].name
<1>1. t.chain[b] \in Seq(EntryOf(V))
  BY DEF Table
<1>2. t.chain[b][i] \in EntryOf(V)
  BY <1>1
<1>3. n \in Name /\ hash[n] = b
  <2>1. n \in Name
    BY <1>2 DEF EntryOf
  <2>2. hash[n] = b
    BY DEF Sorted, OneEach
  <2> QED
    BY <2>1, <2>2
<1>4. Chain(t, n) = t.chain[b]
  BY <1>3 DEF Chain
<1>5. Has(t, n)
  BY <1>4 DEF Has
<1>6. t.chain[b][i].name = n
  OBVIOUS
<1> HIDE DEF n
<1>7. \A j \in DOMAIN Chain(t, n) : Chain(t, n)[j].name = n => j = Place(t, n)
  BY <1>3, <1>5, PlaceProperties
<1>8. Place(t, n) = i
  BY <1>4, <1>6, <1>7
<1>9. n \in Names(t) /\ t.chain[b][i].value = ValueOf(t, n)
  BY <1>3, <1>4, <1>5, <1>8 DEF Names, ValueOf
<1> QED
  BY <1>2, <1>3, <1>6, <1>8, <1>9

----------------------------------------------------------------------------
(* One chain is replaced by another.                                       *)

With(t, n, c, h) == [chain |-> [t.chain EXCEPT ![hash[n]] = c], headless |-> h]

\* What is found in u, which is t with the chain c in the bucket of n
SameBut(u, t, n, c) ==
  /\ u.chain[hash[n]] = c /\ \A b \in Bucket : b # hash[n] => u.chain[b] = t.chain[b]
  /\ \A k \in Name : hash[k] # hash[n] =>
       (Has(u, k) <=> Has(t, k)) /\ ValueOf(u, k) = ValueOf(t, k)
  /\ \A k \in Name : hash[k] = hash[n] =>
       /\ Has(u, k) <=> \E i \in DOMAIN c : c[i].name = k
       /\ \A i \in DOMAIN c : c[i].name = k => ValueOf(u, k) = c[i].value

LEMMA WithProperties ==
  ASSUME NEW V, NEW t \in Table(V), Sorted(t), NEW n \in Name, NEW c \in Seq(EntryOf(V)),
         NEW h \in SUBSET Bucket, OneEach(c, hash[n]), NEW u, u = With(t, n, c, h)
  PROVE  u \in Table(V) /\ Sorted(u) /\ u.headless = h /\ SameBut(u, t, n, c)
<1>1. hash[n] \in Bucket /\ t.chain \in [Bucket -> Seq(EntryOf(V))]
  BY DEF Table
<1>2. /\ u.headless = h /\ u.chain \in [Bucket -> Seq(EntryOf(V))] /\ u.chain[hash[n]] = c
      /\ \A b \in Bucket : b # hash[n] => u.chain[b] = t.chain[b]
  BY <1>1 DEF With
<1>3. u \in Table(V)
  BY <1>2 DEF Table, With
<1>4. \A k \in Name : Chain(u, k) = IF hash[k] = hash[n] THEN c ELSE Chain(t, k)
  BY <1>2 DEF Chain
<1>5. Sorted(u)
  <2>1. ASSUME NEW b \in Bucket PROVE OneEach(u.chain[b], b)
    <3>1. CASE b = hash[n]
      BY <1>2, <3>1
    <3>2. CASE b # hash[n]
      BY <1>2, <3>2 DEF Sorted
    <3> QED
      BY <3>1, <3>2
  <2> QED
    BY <2>1 DEF Sorted
<1>6. ASSUME NEW k \in Name, hash[k] # hash[n]
      PROVE  (Has(u, k) <=> Has(t, k)) /\ ValueOf(u, k) = ValueOf(t, k)
  <2>1. Chain(u, k) = Chain(t, k)
    BY <1>4, <1>6
  <2>2. Place(u, k) = Place(t, k)
    BY <2>1 DEF Place
  <2> QED
    BY <2>1, <2>2 DEF Has, ValueOf
<1>7. ASSUME NEW k \in Name, hash[k] = hash[n]
      PROVE  /\ Has(u, k) <=> \E i \in DOMAIN c : c[i].name = k
             /\ \A i \in DOMAIN c : c[i].name = k => ValueOf(u, k) = c[i].value
  <2>1. Chain(u, k) = c
    BY <1>4, <1>7
  <2>2. Has(u, k) <=> \E i \in DOMAIN c : c[i].name = k
    BY <2>1 DEF Has
  <2>3. ASSUME NEW i \in DOMAIN c, c[i].name = k
        PROVE  ValueOf(u, k) = c[i].value
    <3>1. Has(u, k)
      BY <2>2, <2>3
    <3>2. \A j \in DOMAIN Chain(u, k) : Chain(u, k)[j].name = k => j = Place(u, k)
      BY <1>3, <1>5, <3>1, PlaceProperties
    <3>3. i = Place(u, k)
      BY <2>1, <2>3, <3>2
    <3> QED
      BY <2>1, <3>3 DEF ValueOf
  <2> QED
    BY <2>2, <2>3
<1> QED
  BY <1>2, <1>3, <1>5, <1>6, <1>7 DEF SameBut

\* add_assignment() of a new name: the table has one name more.
LEMMA EnterProperties ==
  ASSUME NEW V, NEW t \in Table(V), Sorted(t), NEW n \in Name, ~Has(t, n), NEW v \in V
  PROVE  /\ Enter(t, n, v) \in Table(V) /\ Sorted(Enter(t, n, v))
         /\ Enter(t, n, v).headless = t.headless
         /\ \A b \in Bucket : b # hash[n] => Enter(t, n, v).chain[b] = t.chain[b]
         /\ Names(Enter(t, n, v)) = Names(t) \union {n}
         /\ \A k \in Names(t) : k # n /\ ValueOf(Enter(t, n, v), k) = ValueOf(t, k)
         /\ ValueOf(Enter(t, n, v), n) = v
<1> DEFINE e == [name |-> n, value |-> v]
           c == Append(Chain(t, n), e)
           u == With(t, n, c, t.headless)
<1>1. e \in EntryOf(V) /\ e.name = n /\ e.value = v
  BY DEF EntryOf
<1> HIDE DEF e
<1>2. /\ Chain(t, n) \in Seq(EntryOf(V)) /\ Chain(t, n) = t.chain[hash[n]] /\ hash[n] \in Bucket
      /\ DOMAIN Chain(t, n) = 1..Len(Chain(t, n)) /\ Len(Chain(t, n)) \in Nat
  BY ChainType
<1>3. /\ c \in Seq(EntryOf(V)) /\ DOMAIN c = 1..Len(Chain(t, n)) + 1
      /\ \A i \in 1..Len(Chain(t, n)) : c[i] = Chain(t, n)[i]
      /\ c[Len(Chain(t, n)) + 1] = e
  BY <1>1, <1>2, AppendProperties
<1>4. Enter(t, n, v) = u
  <2>1. t = [chain |-> t.chain, headless |-> t.headless]
    BY DEF Table
  <2>2. Enter(t, n, v) = [t EXCEPT !.chain = [t.chain EXCEPT ![hash[n]] = Append(t.chain[hash[n]], e)]]
    BY <1>2, <2>1 DEF Enter, e, Table
  <2> QED
    BY <1>2, <2>1, <2>2 DEF With
<1> HIDE DEF c
<1>5. \A i \in DOMAIN c : \/ /\ i \in DOMAIN Chain(t, n) /\ c[i] = Chain(t, n)[i]
                             /\ hash[c[i].name] = hash[n] /\ c[i].name # n
                          \/ i = Len(Chain(t, n)) + 1 /\ c[i] = e
  BY <1>2, <1>3 DEF Sorted, OneEach, Has
<1>6. OneEach(c, hash[n])
  BY <1>1, <1>2, <1>5 DEF Sorted, OneEach
<1>7. t.headless \in SUBSET Bucket
  BY DEF Table
<1>8. /\ u \in Table(V) /\ Sorted(u) /\ u.headless = t.headless
      /\ \A b \in Bucket : b # hash[n] => u.chain[b] = t.chain[b]
      /\ \A k \in Name : hash[k] # hash[n] =>
           (Has(u, k) <=> Has(t, k)) /\ ValueOf(u, k) = ValueOf(t, k)
      /\ \A k \in Name : hash[k] = hash[n] =>
           /\ Has(u, k) <=> \E i \in DOMAIN c : c[i].name = k
           /\ \A i \in DOMAIN c : c[i].name = k => ValueOf(u, k) = c[i].value
  <2>1. u \in Table(V) /\ Sorted(u) /\ u.headless = t.headless /\ SameBut(u, t, n, c)
    BY <1>3, <1>6, <1>7, WithProperties
  <2> QED
    BY <2>1 DEF SameBut
<1> HIDE DEF u
<1>9. Has(u, n) /\ ValueOf(u, n) = v
  BY <1>1, <1>2, <1>3, <1>8
<1>10. ASSUME NEW k \in Name, k # n, hash[k] = hash[n]
       PROVE  (Has(u, k) <=> Has(t, k)) /\ (Has(t, k) => ValueOf(u, k) = ValueOf(t, k))
  <2>1. Chain(t, k) = Chain(t, n)
    BY <1>10 DEF Chain
  <2>2. Has(u, k) => Has(t, k)
    BY <1>1, <1>5, <1>8, <1>10, <2>1 DEF Has
  <2>3. ASSUME Has(t, k) PROVE Has(u, k) /\ ValueOf(u, k) = ValueOf(t, k)
    <3>1. /\ Place(t, k) \in DOMAIN Chain(t, n)
          /\ Chain(t, n)[Place(t, k)] = [name |-> k, value |-> ValueOf(t, k)]
      BY <2>1, <2>3, PlaceProperties
    <3>2. Place(t, k) \in DOMAIN c /\ c[Place(t, k)] = [name |-> k, value |-> ValueOf(t, k)]
      BY <1>2, <1>3, <3>1
    <3> QED
      BY <1>8, <1>10, <3>2
  <2> QED
    BY <2>2, <2>3
<1>11. Names(u) = Names(t) \union {n} /\ \A k \in Names(t) : k # n /\ ValueOf(u, k) = ValueOf(t, k)
  BY <1>8, <1>9, <1>10 DEF Names
<1> QED
  BY <1>4, <1>8, <1>9, <1>11

\* An entry that gets another value: the names stay, and so do the other values.
LEMMA OverwriteProperties ==
  ASSUME NEW V, NEW t \in Table(V), Sorted(t), NEW n \in Name, Has(t, n), NEW v \in V
  PROVE  /\ Overwrite(t, n, v) \in Table(V) /\ Sorted(Overwrite(t, n, v))
         /\ Overwrite(t, n, v).headless = t.headless
         /\ \A b \in Bucket : b # hash[n] => Overwrite(t, n, v).chain[b] = t.chain[b]
         /\ Overwrite(t, n, v).chain[hash[n]] # <<>> /\ t.chain[hash[n]] # <<>>
         /\ Names(Overwrite(t, n, v)) = Names(t)
         /\ \A k \in Names(t) : k # n => ValueOf(Overwrite(t, n, v), k) = ValueOf(t, k)
         /\ ValueOf(Overwrite(t, n, v), n) = v
<1> DEFINE e == [name |-> n, value |-> v]
           l == Place(t, n)
           c == [Chain(t, n) EXCEPT ![l] = e]
           u == With(t, n, c, t.headless)
<1>1. e \in EntryOf(V) /\ e.name = n /\ e.value = v
  BY DEF EntryOf
<1> HIDE DEF e
<1>2. /\ Chain(t, n) \in Seq(EntryOf(V)) /\ Chain(t, n) = t.chain[hash[n]] /\ hash[n] \in Bucket
      /\ DOMAIN Chain(t, n) = 1..Len(Chain(t, n)) /\ Len(Chain(t, n)) \in Nat
  BY ChainType
<1>3. /\ l \in DOMAIN Chain(t, n) /\ l \in 1..Len(Chain(t, n)) /\ Chain(t, n)[l].name = n
      /\ \A i \in DOMAIN Chain(t, n) : Chain(t, n)[i].name = n => i = l
  <2>1. /\ Place(t, n) \in DOMAIN Chain(t, n) /\ Place(t, n) \in 1..Len(Chain(t, n))
        /\ Chain(t, n)[Place(t, n)] = [name |-> n, value |-> ValueOf(t, n)]
        /\ \A i \in DOMAIN Chain(t, n) : Chain(t, n)[i].name = n => i = Place(t, n)
    BY PlaceProperties
  <2> QED
    BY <2>1
<1>4. Overwrite(t, n, v) = u
  <2>1. t = [chain |-> t.chain, headless |-> t.headless]
    BY DEF Table
  <2>2. Overwrite(t, n, v) = [t EXCEPT !.chain = [t.chain EXCEPT ![hash[n]] = c]]
    BY <1>2, <2>1 DEF Overwrite, e, Table
  <2> QED
    BY <1>2, <2>1, <2>2 DEF With
<1> HIDE DEF l
<1>5. /\ c \in Seq(EntryOf(V)) /\ DOMAIN c = DOMAIN Chain(t, n) /\ c[l] = e
      /\ \A i \in DOMAIN c : i # l => c[i] = Chain(t, n)[i]
  BY <1>1, <1>2, <1>3, ExceptSeq
<1> HIDE DEF c
<1>6. \A i \in DOMAIN c : c[i].name = Chain(t, n)[i].name
  BY <1>1, <1>3, <1>5
<1>7. OneEach(c, hash[n])
  BY <1>2, <1>5, <1>6, SMTT(40) DEF Sorted, OneEach
<1>8. t.headless \in SUBSET Bucket
  BY DEF Table
<1>9. /\ u \in Table(V) /\ Sorted(u) /\ u.headless = t.headless /\ u.chain[hash[n]] = c
      /\ \A b \in Bucket : b # hash[n] => u.chain[b] = t.chain[b]
      /\ \A k \in Name : hash[k] # hash[n] =>
           (Has(u, k) <=> Has(t, k)) /\ ValueOf(u, k) = ValueOf(t, k)
      /\ \A k \in Name : hash[k] = hash[n] =>
           /\ Has(u, k) <=> \E i \in DOMAIN c : c[i].name = k
           /\ \A i \in DOMAIN c : c[i].name = k => ValueOf(u, k) = c[i].value
  <2>1. u \in Table(V) /\ Sorted(u) /\ u.headless = t.headless /\ SameBut(u, t, n, c)
    BY <1>5, <1>7, <1>8, WithProperties
  <2> QED
    BY <2>1 DEF SameBut
<1> HIDE DEF u
<1>10. Has(u, n) /\ ValueOf(u, n) = v
  BY <1>1, <1>3, <1>5, <1>9
<1>11. ASSUME NEW k \in Name, k # n, hash[k] = hash[n]
       PROVE  (Has(u, k) <=> Has(t, k)) /\ (Has(t, k) => ValueOf(u, k) = ValueOf(t, k))
  <2>1. Chain(t, k) = Chain(t, n)
    BY <1>11 DEF Chain
  <2>2. Has(u, k) <=> Has(t, k)
    BY <1>5, <1>6, <1>9, <1>11, <2>1 DEF Has
  <2>3. ASSUME Has(t, k) PROVE ValueOf(u, k) = ValueOf(t, k)
    <3>1. /\ Place(t, k) \in DOMAIN Chain(t, n)
          /\ Chain(t, n)[Place(t, k)] = [name |-> k, value |-> ValueOf(t, k)]
      BY <2>1, <2>3, PlaceProperties
    <3>2. Place(t, k) # l
      BY <1>3, <1>11, <3>1
    <3>3. Place(t, k) \in DOMAIN c /\ c[Place(t, k)] = [name |-> k, value |-> ValueOf(t, k)]
      BY <1>5, <3>1, <3>2
    <3> QED
      BY <1>9, <1>11, <3>3
  <2> QED
    BY <2>2, <2>3
<1>12. Names(u) = Names(t) /\ \A k \in Names(t) : k # n => ValueOf(u, k) = ValueOf(t, k)
  BY <1>9, <1>10, <1>11 DEF Names
<1>13. c # <<>> /\ t.chain[hash[n]] # <<>>
  BY <1>2, <1>3, <1>5
<1> QED
  BY <1>4, <1>9, <1>10, <1>12, <1>13

\* A sequence without what is between two places
Cut(c, p, q) == SubSeq(c, 1, p) \o SubSeq(c, q, Len(c))

WithoutPart(s, c, p, q) ==
  /\ Len(s) = p + (Len(c) - q + 1) /\ DOMAIN s = 1..p + (Len(c) - q + 1)
  /\ \A i \in 1..p : i \in DOMAIN s /\ s[i] = c[i]
  /\ \A i \in q..Len(c) : i - q + 1 + p \in DOMAIN s /\ s[i - q + 1 + p] = c[i]
  /\ \A i \in DOMAIN s : \/ i <= p /\ i \in 1..p /\ s[i] = c[i]
                         \/ i > p /\ i - p + q - 1 \in q..Len(c) /\ s[i] = c[i - p + q - 1]

LEMMA CutProperties ==
  ASSUME NEW S, NEW c \in Seq(S), NEW p \in 0..Len(c), NEW q \in p+1..Len(c)+1,
         NEW s, s = Cut(c, p, q)
  PROVE  s \in Seq(S) /\ WithoutPart(s, c, p, q)
<1>1. Len(c) \in Nat /\ DOMAIN c = 1..Len(c) /\ p \in Int /\ q \in Int /\ p >= 0 /\ q >= p + 1
      /\ q <= Len(c) + 1 /\ p <= Len(c) /\ q >= 1
  OBVIOUS
<1>2. (\A i \in 1..p : c[i] \in S) /\ (\A i \in q..Len(c) : c[i] \in S)
  BY <1>1
<1>3. PICK a : a = SubSeq(c, 1, p)
  OBVIOUS
<1>4. PICK b : b = SubSeq(c, q, Len(c))
  OBVIOUS
<1>5. a \in Seq(S) /\ Len(a) = p /\ \A i \in 1..p : a[i] = c[i]
  <2>1. /\ SubSeq(c, 1, p) \in Seq(S) /\ Len(SubSeq(c, 1, p)) = IF 1 <= p THEN p - 1 + 1 ELSE 0
        /\ \A i \in 1..p - 1 + 1 : SubSeq(c, 1, p)[i] = c[1 + i - 1]
    BY <1>1, <1>2, SubSeqProperties
  <2>2. p - 1 + 1 = p /\ \A i \in 1..p : 1 + i - 1 = i
    BY <1>1
  <2> QED
    BY <1>1, <1>3, <2>1, <2>2
<1>6. b \in Seq(S) /\ Len(b) = Len(c) - q + 1 /\ \A i \in 1..Len(c) - q + 1 : b[i] = c[q + i - 1]
  <2>1. /\ SubSeq(c, q, Len(c)) \in Seq(S)
        /\ Len(SubSeq(c, q, Len(c))) = IF q <= Len(c) THEN Len(c) - q + 1 ELSE 0
        /\ \A i \in 1..Len(c) - q + 1 : SubSeq(c, q, Len(c))[i] = c[q + i - 1]
    BY <1>1, <1>2, SubSeqProperties
  <2> QED
    BY <1>1, <1>4, <2>1
<1>8. /\ s \in Seq(S) /\ Len(s) = Len(a) + Len(b)
      /\ \A i \in 1..Len(a) + Len(b) : s[i] = IF i <= Len(a) THEN a[i] ELSE b[i - Len(a)]
  <2>1. s = a \o b
    BY <1>3, <1>4 DEF Cut
  <2>2. /\ a \o b \in Seq(S) /\ Len(a \o b) = Len(a) + Len(b)
        /\ \A i \in 1..Len(a) + Len(b) : (a \o b)[i] = IF i <= Len(a) THEN a[i] ELSE b[i - Len(a)]
    BY <1>5, <1>6, ConcatProperties
  <2> QED
    BY <2>1, <2>2
<1>9. Len(s) = p + (Len(c) - q + 1) /\ DOMAIN s = 1..p + (Len(c) - q + 1)
  BY <1>5, <1>6, <1>8
<1>10. ASSUME NEW i \in 1..p PROVE i \in DOMAIN s /\ s[i] = c[i]
  <2>1. i \in Int /\ i >= 1 /\ i <= p /\ a[i] = c[i]
    BY <1>1, <1>5
  <2>2. i \in 1..Len(a) + Len(b) /\ i <= Len(a) /\ i \in DOMAIN s
    BY <1>1, <1>5, <1>6, <1>9, <2>1
  <2> QED
    BY <1>8, <2>1, <2>2
<1>11. ASSUME NEW j \in Int, j >= 1, j <= Len(c) - q + 1
       PROVE  j + p \in DOMAIN s /\ s[j + p] = c[q + j - 1]
  <2>1. b[j] = c[q + j - 1]
    BY <1>1, <1>6, <1>11
  <2>2. /\ j + p \in 1..Len(a) + Len(b) /\ ~(j + p <= Len(a)) /\ j + p - Len(a) = j
        /\ j + p \in DOMAIN s
    BY <1>1, <1>5, <1>6, <1>9, <1>11
  <2>3. PICK k : k = j + p
    OBVIOUS
  <2>4. s[k] = b[k - Len(a)]
    BY <1>8, <2>2, <2>3
  <2>5. k - Len(a) = j
    BY <2>2, <2>3
  <2>6. s[k] = c[q + j - 1]
    BY <2>1, <2>4, <2>5, Zenon
  <2>7. k \in DOMAIN s
    BY <2>2, <2>3
  <2> QED
    BY <2>3, <2>6, <2>7, Zenon
<1>12. ASSUME NEW i \in q..Len(c) PROVE i - q + 1 + p \in DOMAIN s /\ s[i - q + 1 + p] = c[i]
  <2>1. PICK j \in Int : j = i - q + 1
    BY <1>1
  <2>2. j >= 1 /\ j <= Len(c) - q + 1 /\ i - q + 1 + p = j + p /\ q + j - 1 = i
    BY <1>1, <2>1
  <2> QED
    BY <1>11, <2>1, <2>2
<1>13. ASSUME NEW i \in DOMAIN s
       PROVE  \/ i <= p /\ i \in 1..p /\ s[i] = c[i]
              \/ i > p /\ i - p + q - 1 \in q..Len(c) /\ s[i] = c[i - p + q - 1]
  <2>1. i \in Int /\ i >= 1 /\ i <= p + (Len(c) - q + 1)
    BY <1>1, <1>9
  <2>2. CASE i <= p
    BY <1>1, <1>10, <2>1, <2>2
  <2>3. CASE ~(i <= p)
    <3>1. PICK j \in Int : j = i - p
      BY <1>1, <2>1
    <3>2. /\ j >= 1 /\ j <= Len(c) - q + 1 /\ j + p = i /\ q + j - 1 = i - p + q - 1
          /\ i - p + q - 1 \in q..Len(c) /\ i > p
      BY <1>1, <2>1, <2>3, <3>1, SMTT(40)
    <3>3. s[j + p] = c[q + j - 1]
      BY <1>11, <3>1, <3>2
    <3> QED
      BY <3>2, <3>3
  <2> QED
    BY <2>2, <2>3
<1> QED
  BY <1>8, <1>9, <1>10, <1>12, <1>13 DEF WithoutPart

\* u is t without the entries between p and q of the chain of n.
Less(u, t, n, p, q) ==
  /\ Len(u.chain[hash[n]]) = p + (Len(Chain(t, n)) - q + 1)
  /\ \A b \in Bucket : b # hash[n] => u.chain[b] = t.chain[b]
  /\ Names(u) = {k \in Names(t) : hash[k] = hash[n] => Place(t, k) \notin p+1..q-1}
  /\ \A k \in Names(u) : ValueOf(u, k) = ValueOf(t, k)

\* A chain some entries of which are gone, the others in their order
LEMMA CutTable ==
  ASSUME NEW V, NEW t \in Table(V), Sorted(t), NEW n \in Name, NEW h \in SUBSET Bucket,
         NEW c, c = Chain(t, n),
         NEW p \in 0..Len(c), NEW q \in p+1..Len(c)+1,
         NEW u, u = With(t, n, Cut(c, p, q), h)
  PROVE  u \in Table(V) /\ Sorted(u) /\ u.headless = h /\ Less(u, t, n, p, q)
<1>1. /\ c \in Seq(EntryOf(V)) /\ c = t.chain[hash[n]] /\ hash[n] \in Bucket
      /\ DOMAIN c = 1..Len(c) /\ Len(c) \in Nat
  BY ChainType
<1>2. PICK s : s = Cut(c, p, q)
  OBVIOUS
<1>3. /\ s \in Seq(EntryOf(V)) /\ Len(s) = p + (Len(c) - q + 1)
      /\ DOMAIN s = 1..p + (Len(c) - q + 1)
      /\ \A i \in 1..p : i \in DOMAIN s /\ s[i] = c[i]
      /\ \A i \in q..Len(c) : i - q + 1 + p \in DOMAIN s /\ s[i - q + 1 + p] = c[i]
      /\ \A i \in DOMAIN s : \/ i <= p /\ i \in 1..p /\ s[i] = c[i]
                             \/ i > p /\ i - p + q - 1 \in q..Len(c) /\ s[i] = c[i - p + q - 1]
  <2>1. s \in Seq(EntryOf(V)) /\ WithoutPart(s, c, p, q)
    BY <1>1, <1>2, CutProperties
  <2> QED
    BY <2>1 DEF WithoutPart
<1>4. \A i \in DOMAIN c : /\ hash[c[i].name] = hash[n]
                          /\ \A j \in DOMAIN c : c[i].name = c[j].name => i = j
  BY <1>1 DEF Sorted, OneEach
<1>5. p \in Int /\ q \in Int /\ p >= 0 /\ q >= p + 1 /\ q <= Len(c) + 1 /\ p <= Len(c)
  BY <1>1
<1>6. ASSUME NEW i \in DOMAIN s
      PROVE  /\ i \in Int
             /\ \/ i <= p /\ i \in DOMAIN c /\ s[i] = c[i]
                \/ /\ i > p /\ i - p + q - 1 \in DOMAIN c /\ i - p + q - 1 >= q
                   /\ s[i] = c[i - p + q - 1]
  <2>1. i \in Int
    BY <1>1, <1>3, <1>5
  <2>2. CASE i <= p /\ i \in 1..p /\ s[i] = c[i]
    BY <1>1, <1>5, <2>2
  <2>3. CASE i > p /\ i - p + q - 1 \in q..Len(c) /\ s[i] = c[i - p + q - 1]
    BY <1>1, <1>5, <2>1, <2>3
  <2> QED
    BY <1>3, <2>1, <2>2, <2>3
<1>14. ASSUME NEW i \in DOMAIN s
      PROVE  /\ hash[s[i].name] = hash[n]
             /\ \A j \in DOMAIN s : s[i].name = s[j].name => i = j
  <2>1. hash[s[i].name] = hash[n]
    BY <1>4, <1>6
  <2>2. ASSUME NEW j \in DOMAIN s, s[i].name = s[j].name PROVE i = j
    <3>1. CASE i <= p /\ i \in DOMAIN c /\ s[i] = c[i]
      <4>1. CASE j <= p /\ j \in DOMAIN c /\ s[j] = c[j]
        BY <1>4, <2>2, <3>1, <4>1
      <4>2. CASE j > p /\ j - p + q - 1 \in DOMAIN c /\ j - p + q - 1 >= q /\ s[j] = c[j - p + q - 1]
        <5>1. i = j - p + q - 1
          BY <1>4, <2>2, <3>1, <4>2
        <5> QED
          BY <1>5, <1>6, <3>1, <4>2, <5>1
      <4> QED
        BY <1>6, <4>1, <4>2
    <3>2. CASE i > p /\ i - p + q - 1 \in DOMAIN c /\ i - p + q - 1 >= q /\ s[i] = c[i - p + q - 1]
      <4>1. CASE j <= p /\ j \in DOMAIN c /\ s[j] = c[j]
        <5>1. j = i - p + q - 1
          BY <1>4, <2>2, <3>2, <4>1
        <5> QED
          BY <1>5, <1>6, <3>2, <4>1, <5>1
      <4>2. CASE j > p /\ j - p + q - 1 \in DOMAIN c /\ j - p + q - 1 >= q /\ s[j] = c[j - p + q - 1]
        <5>1. i - p + q - 1 = j - p + q - 1
          BY <1>4, <2>2, <3>2, <4>2
        <5> QED
          BY <1>5, <1>6, <5>1
      <4> QED
        BY <1>6, <4>1, <4>2
    <3> QED
      BY <1>6, <3>1, <3>2
  <2> QED
    BY <2>1, <2>2
<1>7. OneEach(s, hash[n])
  BY <1>14 DEF OneEach
<1>8. u = With(t, n, s, h)
  BY <1>2
<1>9. /\ u \in Table(V) /\ Sorted(u) /\ u.headless = h /\ u.chain[hash[n]] = s
      /\ \A b \in Bucket : b # hash[n] => u.chain[b] = t.chain[b]
      /\ \A k \in Name : hash[k] # hash[n] =>
           (Has(u, k) <=> Has(t, k)) /\ ValueOf(u, k) = ValueOf(t, k)
      /\ \A k \in Name : hash[k] = hash[n] =>
           /\ Has(u, k) <=> \E i \in DOMAIN s : s[i].name = k
           /\ \A i \in DOMAIN s : s[i].name = k => ValueOf(u, k) = s[i].value
  <2>1. u \in Table(V) /\ Sorted(u) /\ u.headless = h /\ SameBut(u, t, n, s)
    BY <1>3, <1>7, <1>8, WithProperties
  <2> QED
    BY <2>1 DEF SameBut
<1>10. ASSUME NEW k \in Name, hash[k] = hash[n]
       PROVE  /\ Has(u, k) <=> (Has(t, k) /\ Place(t, k) \notin p+1..q-1)
              /\ Has(u, k) => ValueOf(u, k) = ValueOf(t, k)
  <2>1. Chain(t, k) = c
    BY <1>10 DEF Chain
  <2>2. ASSUME Has(t, k)
        PROVE  /\ Place(t, k) \in DOMAIN c
               /\ c[Place(t, k)].name = k /\ c[Place(t, k)].value = ValueOf(t, k)
               /\ \A i \in DOMAIN c : c[i].name = k => i = Place(t, k)
    <3>1. /\ Place(t, k) \in DOMAIN Chain(t, k)
          /\ Chain(t, k)[Place(t, k)] = [name |-> k, value |-> ValueOf(t, k)]
          /\ \A i \in DOMAIN Chain(t, k) : Chain(t, k)[i].name = k => i = Place(t, k)
      BY <2>2, PlaceProperties
    <3> QED
      BY <2>1, <3>1
  <2>3. ASSUME Has(u, k)
        PROVE  Has(t, k) /\ Place(t, k) \notin p+1..q-1 /\ ValueOf(u, k) = ValueOf(t, k)
    <3>1. PICK i \in DOMAIN s : s[i].name = k
      BY <1>9, <1>10, <2>3
    <3>2. PICK j \in DOMAIN c : c[j] = s[i] /\ j \notin p+1..q-1
      <4>1. CASE i <= p /\ i \in DOMAIN c /\ s[i] = c[i]
        BY <1>5, <1>6, <4>1
      <4>2. CASE i > p /\ i - p + q - 1 \in DOMAIN c /\ i - p + q - 1 >= q /\ s[i] = c[i - p + q - 1]
        BY <1>5, <1>6, <4>2
      <4> QED
        BY <1>6, <3>1, <4>1, <4>2
    <3>3. Has(t, k)
      BY <2>1, <3>1, <3>2 DEF Has
    <3>4. j = Place(t, k) /\ c[j].value = ValueOf(t, k)
      BY <2>2, <3>1, <3>2, <3>3
    <3>5. ValueOf(u, k) = s[i].value
      BY <1>9, <1>10, <3>1
    <3> QED
      BY <3>2, <3>3, <3>4, <3>5
  <2>4. ASSUME Has(t, k), Place(t, k) \notin p+1..q-1 PROVE Has(u, k)
    <3>1. PICK j \in DOMAIN c : j = Place(t, k) /\ c[j].name = k
      BY <2>2, <2>4
    <3>2. j \in 1..p \/ j \in q..Len(c)
      BY <1>1, <1>5, <2>4, <3>1
    <3>3. \E i \in DOMAIN s : s[i].name = k
      <4>1. CASE j \in 1..p
        BY <1>3, <3>1, <4>1
      <4>2. CASE j \in q..Len(c)
        BY <1>3, <3>1, <4>2, ZenonT(40)
      <4> QED
        BY <3>2, <4>1, <4>2
    <3> QED
      BY <1>9, <1>10, <3>3
  <2> QED
    BY <2>3, <2>4
<1>11. Names(u) = {k \in Names(t) : hash[k] = hash[n] => Place(t, k) \notin p+1..q-1}
  BY <1>9, <1>10 DEF Names
<1>12. \A k \in Names(u) : ValueOf(u, k) = ValueOf(t, k)
  BY <1>9, <1>10 DEF Names
<1> QED
  BY <1>3, <1>9, <1>11, <1>12 DEF Less

\* remove_assignment() of a name the table has: the table has one name less.
LEMMA UnlinkProperties ==
  ASSUME NEW V, NEW t \in Table(V), Sorted(t), Headed(t), NEW n \in Name, Has(t, n)
  PROVE  /\ Unlink(t, n) \in Table(V) /\ Sorted(Unlink(t, n)) /\ Headed(Unlink(t, n))
         /\ Names(Unlink(t, n)) = Names(t) \ {n}
         /\ \A k \in Names(t) : k # n => ValueOf(Unlink(t, n), k) = ValueOf(t, k)
<1>1. /\ Chain(t, n) \in Seq(EntryOf(V)) /\ Chain(t, n) = t.chain[hash[n]] /\ hash[n] \in Bucket
      /\ DOMAIN Chain(t, n) = 1..Len(Chain(t, n)) /\ Len(Chain(t, n)) \in Nat
  BY ChainType
<1>2. /\ Place(t, n) \in 1..Len(Chain(t, n))
      /\ Chain(t, n)[Place(t, n)] = [name |-> n, value |-> ValueOf(t, n)]
      /\ \A i \in DOMAIN Chain(t, n) : Chain(t, n)[i].name = n => i = Place(t, n)
  BY PlaceProperties
<1>3. PICK h : h = IF Len(Chain(t, n)) = 1 THEN t.headless \union {hash[n]} ELSE t.headless
  OBVIOUS
<1>4. h \in SUBSET Bucket
  BY <1>1, <1>3 DEF Table
<1>5. PICK c : c = Chain(t, n)
  OBVIOUS
<1>6. PICK p \in Int : p = Place(t, n) - 1
  BY <1>1, <1>2
<1>7. PICK q \in Int : q = Place(t, n) + 1
  BY <1>1, <1>2
<1>8. p \in 0..Len(c) /\ q \in p+1..Len(c)+1 /\ p+1..q-1 = {Place(t, n)}
  BY <1>1, <1>2, <1>5, <1>6, <1>7
<1>9. Unlink(t, n) = With(t, n, Cut(c, p, q), h)
  BY <1>1, <1>3, <1>5, <1>6, <1>7 DEF Unlink, With, Without, Cut
<1>10. PICK u : u = Unlink(t, n)
  OBVIOUS
<1>0. u = With(t, n, Cut(c, p, q), h)
  BY <1>9, <1>10
<1>15. u \in Table(V) /\ Sorted(u) /\ u.headless = h /\ Less(u, t, n, p, q)
  BY <1>0, <1>4, <1>5, <1>8, CutTable
<1>11. /\ Len(u.chain[hash[n]]) = p + (Len(c) - q + 1)
       /\ \A b \in Bucket : b # hash[n] => u.chain[b] = t.chain[b]
       /\ Names(u) = {k \in Names(t) : hash[k] = hash[n] => Place(t, k) \notin p+1..q-1}
       /\ \A k \in Names(u) : ValueOf(u, k) = ValueOf(t, k)
  BY <1>5, <1>15 DEF Less
<1>12. ASSUME NEW k \in Names(t), hash[k] = hash[n]
       PROVE  Place(t, k) = Place(t, n) <=> k = n
  <2>1. k \in Name /\ Has(t, k) /\ Chain(t, k) = Chain(t, n)
    BY <1>12 DEF Names, Chain
  <2>2. Chain(t, k)[Place(t, k)] = [name |-> k, value |-> ValueOf(t, k)]
    BY <2>1, PlaceProperties
  <2> QED
    BY <1>2, <2>1, <2>2
<1>13. Names(u) = Names(t) \ {n}
  BY <1>8, <1>11, <1>12
<1>14. ASSUME NEW b \in h PROVE u.chain[b] = <<>>
  <2>1. CASE b = hash[n] /\ Len(c) = 1
    <3>1. Len(u.chain[b]) = 0
      BY <1>1, <1>2, <1>5, <1>6, <1>7, <1>11, <2>1
    <3>2. u.chain[b] \in Seq(EntryOf(V))
      BY <1>1, <1>15, <2>1 DEF Table
    <3> QED
      BY <3>1, <3>2
  <2>2. CASE b \in t.headless
    <3>1. t.chain[b] = <<>> /\ b \in Bucket
      BY <2>2 DEF Headed, Table
    <3>2. b # hash[n]
      BY <1>1, <1>2, <3>1
    <3> QED
      BY <1>11, <3>1, <3>2
  <2> QED
    BY <1>3, <1>5, <2>1, <2>2
<1> QED
  BY <1>10, <1>11, <1>13, <1>14, <1>15 DEF Headed

HIDE HashAssumption

----------------------------------------------------------------------------
(* The memory.                                                             *)

USE CellAssumption, TextAssumption, BoundAssumption

Phase == {"run", "exited", "crashed", "undefined"}
Memory == [how : Phase, table : [Tables -> Table(Value)],
           text : [Cell -> Text \union {Released}], shared : BOOLEAN]

Well(m) ==
  m \in Memory /\ \A w \in Tables : Sorted(m.table[w]) /\ Headed(m.table[w])

\* The value that is found for k in the table w
At(m, w, k) == ValueOf(m.table[w], k)

\* One table of r is that of m with the value v for n.
Written(r, m, w, n, v) ==
  /\ \A x \in Tables : x # w => r.table[x] = m.table[x]
  /\ Names(r.table[w]) = Names(m.table[w]) \union {n} /\ At(r, w, n) = v
  /\ \A k \in Names(m.table[w]) : k # n => At(r, w, k) = At(m, w, k)

\* What a step may rely on while no string has two owners: the values of
\* variables can be read, and so can the parameters of the call that goes on.
Held(m, w) == \A k \in Names(m.table[w]) : At(m, w, k) # NULL => Allocated(m, At(m, w, k))
Usable(m) ==
  /\ \A k \in Names(m.table["var"]) : At(m, "var", k) # NULL => Readable(m, At(m, "var", k))
  /\ \A c \in Arguments : Allocated(m, c)
Calling == live \/ (param = <<>> /\ depth = 0)

\* No string has two owners: the entries of the tables, and the strings in args
Alone(m) ==
  \A w, x \in Tables : \A k \in Names(m.table[w]), l \in Names(m.table[x]) :
    At(m, w, k) # NULL /\ At(m, w, k) = At(m, x, l) => w = x /\ k = l
Apart(m, args) ==
  \A c \in args : /\ Allocated(m, c)
                  /\ \A w \in Tables : \A k \in Names(m.table[w]) : At(m, w, k) # c
Good(m, args) == (\A w \in Tables : Held(m, w)) /\ Alone(m) /\ Apart(m, args)

----------------------------------------------------------------------------
(* Tables and strings of a memory.                                         *)

LEMMA PutTable ==
  ASSUME NEW m \in Memory, NEW w \in Tables, NEW t \in Table(Value),
         NEW r, r = [m EXCEPT !.table[w] = t]
  PROVE  /\ r \in Memory /\ r.how = m.how /\ r.text = m.text /\ r.shared = m.shared
         /\ r.table[w] = t /\ \A x \in Tables : x # w => r.table[x] = m.table[x]
BY DEF Memory

LEMMA AllocShape ==
  ASSUME NEW m \in Memory, NEW c, NEW t \in Text, NEW r, r = Alloc(m, c, t)
  PROVE  /\ r \in Memory /\ r.how = m.how /\ r.table = m.table /\ r.shared = m.shared
         /\ \A d \in Cell : r.text[d] = IF d = c THEN t ELSE m.text[d]
BY DEF Memory, Alloc

LEMMA FreeShape ==
  ASSUME NEW m \in Memory, NEW c, NEW r, r = Free(m, c)
  PROVE  /\ r \in Memory /\ r.how = m.how /\ r.table = m.table /\ r.shared = m.shared
         /\ \A d \in Cell : r.text[d] = IF d = c THEN Released ELSE m.text[d]
BY DEF Memory, Free

LEMMA PutHow ==
  ASSUME NEW m \in Memory, NEW h \in Phase, NEW r, r = Ends(m, h)
  PROVE  /\ r \in Memory /\ r.how = h /\ r.table = m.table /\ r.text = m.text
         /\ r.shared = m.shared
BY DEF Memory, Ends

LEMMA PutShared ==
  ASSUME NEW m \in Memory, NEW b \in BOOLEAN, NEW r, r = [m EXCEPT !.shared = b]
  PROVE  /\ r \in Memory /\ r.how = m.how /\ r.table = m.table /\ r.text = m.text
         /\ r.shared = b
BY DEF Memory

LEMMA WellTables ==
  ASSUME NEW m, Well(m), NEW w \in Tables
  PROVE  /\ m \in Memory /\ m.table[w] \in Table(Value) /\ m.how \in Phase
         /\ m.text \in [Cell -> Text \union {Released}] /\ m.shared \in BOOLEAN
         /\ Sorted(m.table[w]) /\ Headed(m.table[w])
BY DEF Well, Memory

\* A name that is found in a table, and its value
LEMMA NameIsFound ==
  ASSUME NEW m, Well(m), NEW w \in Tables, NEW k \in Names(m.table[w])
  PROVE  k \in Name /\ At(m, w, k) \in Value
<1>1. k \in Name /\ Has(m.table[w], k)
  BY DEF Names
<1> QED
  BY <1>1, WellTables, PlaceProperties DEF At

\* A new entry
LEMMA InsertShape ==
  ASSUME NEW m, Well(m), m.how = "run", NEW w \in Tables, NEW n \in Name, NEW v \in Value,
         ~Has(m.table[w], n), NEW r, r = Insert(m, w, n, v)
  PROVE  /\ Well(r) /\ r.text = m.text /\ r.shared = m.shared
         /\ r.how \in {"run", "crashed"}
         /\ r.how = "run" => Written(r, m, w, n, v)
<1>1. CASE hash[n] \in m.table[w].headless
  <2>1. r \in Memory /\ r.how = "crashed" /\ r.table = m.table /\ r.text = m.text /\ r.shared = m.shared
    BY <1>1, WellTables, PutHow DEF Insert, Phase
  <2> QED
    BY <2>1 DEF Well
<1>2. CASE hash[n] \notin m.table[w].headless
  <2>1. PICK t : t = Enter(m.table[w], n, v)
    OBVIOUS
  <2>2. r = [m EXCEPT !.table[w] = t]
    BY <1>2, <2>1 DEF Insert
  <2>3. /\ t \in Table(Value) /\ Sorted(t) /\ t.headless = m.table[w].headless
        /\ \A b \in Bucket : b # hash[n] => t.chain[b] = m.table[w].chain[b]
        /\ Names(t) = Names(m.table[w]) \union {n}
        /\ \A k \in Names(m.table[w]) : k # n /\ ValueOf(t, k) = ValueOf(m.table[w], k)
        /\ ValueOf(t, n) = v
    BY <2>1, WellTables, EnterProperties
  <2>4. Headed(t)
    <3>1. Headed(m.table[w]) /\ t.headless \subseteq Bucket
      BY <2>3, WellTables DEF Table
    <3> QED
      BY <1>2, <2>3, <3>1 DEF Headed
  <2>5. /\ r \in Memory /\ r.how = m.how /\ r.text = m.text /\ r.shared = m.shared
        /\ r.table[w] = t /\ \A x \in Tables : x # w => r.table[x] = m.table[x]
    BY <2>2, <2>3, WellTables, PutTable
  <2>6. Well(r)
    BY <2>3, <2>4, <2>5 DEF Well
  <2>7. Written(r, m, w, n, v)
    BY <2>3, <2>5 DEF Written, At
  <2> QED
    BY <2>5, <2>6, <2>7
<1> QED
  BY <1>1, <1>2

\* Another value for a name that has an entry: what it had may be released.
LEMMA ReplaceShape ==
  ASSUME NEW m, Well(m), m.how = "run", NEW w \in Tables, NEW n \in Name, NEW v \in Value,
         Has(m.table[w], n), NEW r, r = Replace(m, w, n, v)
  PROVE  /\ Well(r) /\ r.shared = m.shared /\ r.how \in {"run", "undefined"}
         /\ r.how = "undefined" => ~(Held(m, w) /\ Calling)
         /\ r.how = "run" =>
              /\ Written(r, m, w, n, v)
              /\ \A c \in Cell : r.text[c] = m.text[c] \/ (c = At(m, w, n) /\ r.text[c] = Released)
<1> DEFINE old == ValueOf(m.table[w], n)
           frees == old # NULL /\ (param = <<>> \/ \E i \in DOMAIN param : param[i] = old)
           bad == \/ old # NULL /\ param # <<>> /\ ~live
                  \/ frees /\ ~Allocated(m, old)
<1>1. PICK t : t = Overwrite(m.table[w], n, v)
  OBVIOUS
<1>2. PICK done : done = [m EXCEPT !.table[w] = t]
  OBVIOUS
<1>3. r = IF bad THEN Ends(m, "undefined") ELSE IF frees THEN Free(done, old) ELSE done
  BY <1>1, <1>2 DEF Replace
<1> HIDE DEF frees, bad
<1>4. /\ t \in Table(Value) /\ Sorted(t) /\ t.headless = m.table[w].headless
      /\ \A b \in Bucket : b # hash[n] => t.chain[b] = m.table[w].chain[b]
      /\ m.table[w].chain[hash[n]] # <<>>
      /\ Names(t) = Names(m.table[w])
      /\ \A k \in Names(m.table[w]) : k # n => ValueOf(t, k) = ValueOf(m.table[w], k)
      /\ ValueOf(t, n) = v
  BY <1>1, WellTables, OverwriteProperties
<1>5. Headed(t)
  <2>1. Headed(m.table[w]) /\ t.headless \subseteq Bucket
    BY <1>4, WellTables DEF Table
  <2> QED
    BY <1>4, <2>1 DEF Headed
<1>6. /\ done \in Memory /\ done.how = m.how /\ done.text = m.text /\ done.shared = m.shared
      /\ done.table[w] = t /\ \A x \in Tables : x # w => done.table[x] = m.table[x]
  BY <1>2, <1>4, WellTables, PutTable
<1>7. Well(done)
  BY <1>4, <1>5, <1>6 DEF Well
<1>8. n \in Names(m.table[w])
  BY DEF Names
<1>9. Written(done, m, w, n, v)
  BY <1>4, <1>6, <1>8 DEF Written, At
<1>10. CASE bad
  <2>1. r \in Memory /\ r.how = "undefined" /\ r.table = m.table /\ r.text = m.text /\ r.shared = m.shared
    BY <1>3, <1>10, WellTables, PutHow DEF Phase
  <2>2. old # NULL /\ ((param # <<>> /\ ~live) \/ ~Allocated(m, old))
    BY <1>10 DEF bad, frees
  <2>3. ~(Held(m, w) /\ Calling)
    BY <1>8, <2>2 DEF Held, At, Calling
  <2> QED
    BY <2>1, <2>3 DEF Well
<1>11. CASE ~bad /\ ~frees
  BY <1>3, <1>6, <1>7, <1>9, <1>11
<1>12. CASE ~bad /\ frees
  <2>1. /\ r \in Memory /\ r.how = done.how /\ r.table = done.table /\ r.shared = done.shared
        /\ \A d \in Cell : r.text[d] = IF d = old THEN Released ELSE done.text[d]
    <3>1. r = Free(done, old) /\ done \in Memory
      BY <1>3, <1>6, <1>12
    <3> HIDE DEF old
    <3> QED
      BY <3>1, FreeShape
  <2>2. Well(r)
    BY <1>7, <2>1 DEF Well
  <2>3. Written(r, m, w, n, v)
    BY <1>9, <2>1 DEF Written, At
  <2> QED
    BY <1>6, <2>1, <2>2, <2>3 DEF At
<1> QED
  BY <1>10, <1>11, <1>12

----------------------------------------------------------------------------
(* What a name stands for.                                                 *)

\* The search follows names that have a value, and ends at one of them.
LEMMA GetAssignVarShape ==
  ASSUME NEW m, Well(m), NEW x \in Name, NEW r, r = GetAssignVar(m, x)
  PROVE  /\ r.how \in {"run", "crashed", "undefined"} /\ r.value \in Value
         /\ r.how = "run" /\ r.value # NULL =>
              /\ Readable(m, r.value)
              /\ \E k \in Names(m.table["var"]) : r.value = At(m, "var", k)
         /\ r.how = "undefined" =>
              \E k \in Names(m.table["var"]) :
                At(m, "var", k) # NULL /\ ~Readable(m, At(m, "var", k))
<1> DEFINE ends == {k \in Path(m, x) : Onward(m, k) = {}}
           last == CHOOSE k \in ends : TRUE
           v == ValueOf(m.table["var"], last)
<1>1. r = IF ~Stands(m, x) THEN Found(NULL)
          ELSE IF ends = {} THEN Lost("crashed")
          ELSE IF Readable(m, v) THEN Found(v) ELSE Lost("undefined")
  BY DEF GetAssignVar
<1>2. NULL \in Value
  BY DEF Value
<1>3. CASE ~Stands(m, x) \/ ends = {}
  BY <1>1, <1>2, <1>3 DEF Found, Lost
<1>4. CASE Stands(m, x) /\ ends # {}
  <2>1. last \in ends
    BY <1>4
  <2>2. last \in Path(m, x)
    BY <2>1
  <2>3. Stands(m, last) /\ last \in Name
    <3>1. PICK s : s = {k \in Name : Stands(m, k)}
      OBVIOUS
    <3>2. \A k \in s : Onward(m, k) \subseteq s
      BY <3>1 DEF Onward
    <3>3. x \in s /\ s \in SUBSET Name
      BY <1>4, <3>1
    <3>4. last \in s
      BY <2>2, <3>2, <3>3 DEF Path
    <3> QED
      BY <3>1, <3>4
  <2>4. "var" \in Tables
    BY DEF Tables
  <2>5. last \in Names(m.table["var"]) /\ v = At(m, "var", last) /\ v # NULL
    BY <2>3 DEF Stands, Names, At
  <2>6. v \in Value
    BY <2>4, <2>5, NameIsFound
  <2> HIDE DEF v, last, ends
  <2>7. CASE Readable(m, v)
    <3>1. r = Found(v)
      BY <1>1, <1>4, <2>7
    <3> QED
      BY <2>5, <2>6, <2>7, <3>1 DEF Found
  <2>8. CASE ~Readable(m, v)
    <3>1. r = Lost("undefined")
      BY <1>1, <1>4, <2>8
    <3> QED
      BY <1>2, <2>5, <2>8, <3>1 DEF Lost
  <2> QED
    BY <2>7, <2>8
<1> QED
  BY <1>3, <1>4

LEMMA GetAssignShape ==
  ASSUME NEW m, Well(m), param \in Seq(Cell), NEW x \in Name \union {First},
         NEW r, r = GetAssign(m, x)
  PROVE  /\ r.how \in {"run", "crashed", "undefined"} /\ r.value \in Value
         /\ r.how = "run" /\ r.value # NULL =>
              \/ r.value = Literal
              \/ r.value \in Arguments
              \/ \E k \in Names(m.table["var"]) : r.value = At(m, "var", k)
         /\ Usable(m) /\ Calling =>
              /\ r.how # "undefined"
              /\ r.how = "run" /\ r.value # NULL => Readable(m, r.value)
<1>1. CASE x = First
  <2>1. r = IF param = <<>> THEN Found(Literal)
            ELSE IF ~live THEN Lost("undefined") ELSE Found(param[1])
    BY <1>1 DEF GetAssign, GetParam
  <2>2. CASE param = <<>>
    BY <2>1, <2>2 DEF Found, Value, Readable
  <2>3. CASE param # <<>> /\ ~live
    BY <2>1, <2>3 DEF Lost, Value, Calling
  <2>4. CASE param # <<>> /\ live
    <3>1. 1 \in DOMAIN param /\ param[1] \in Cell
      BY <2>4
    <3> QED
      BY <2>1, <2>4, <3>1 DEF Found, Value, Usable, Readable, Arguments
  <2> QED
    BY <2>2, <2>3, <2>4
<1>2. CASE x # First
  <2>1. x \in Name /\ r = GetAssignVar(m, x)
    BY <1>2 DEF GetAssign
  <2> QED
    BY <2>1, GetAssignVarShape DEF Usable
<1> QED
  BY <1>1, <1>2

\* The words of a command
LEMMA WordShape ==
  ASSUME Well(Now), param \in Seq(Cell), NEW t \in Text, NEW r, r = Word(t)
  PROVE  /\ r.how \in {"run", "crashed", "undefined"}
         /\ r.how = "run" => r.value \in Text
         /\ Usable(Now) /\ Calling => r.how # "undefined"
<1>1. CASE t \notin Refs
  BY <1>1 DEF Word, Found
<1>2. CASE t \in Refs
  <2>1. PICK y \in Name \union {First} : t = Ref(y)
    BY <1>2 DEF Refs
  <2>2. t.ref = y
    BY <2>1 DEF Ref
  <2>3. PICK g : g = GetAssign(Now, y)
    OBVIOUS
  <2>4. r = IF g.how # "run" THEN g
            ELSE IF g.value = NULL THEN Found(Empty)
            ELSE IF ~Readable(Now, g.value) THEN Lost("undefined")
            ELSE Found(TextOf(Now, g.value))
    BY <1>2, <2>2, <2>3 DEF Word
  <2>5. /\ g.how \in {"run", "crashed", "undefined"} /\ g.value \in Value
        /\ Usable(Now) /\ Calling =>
             /\ g.how # "undefined"
             /\ g.how = "run" /\ g.value # NULL => Readable(Now, g.value)
    BY <2>1, <2>3, GetAssignShape
  <2>6. CASE g.how # "run" \/ g.value = NULL
    BY <2>4, <2>5, <2>6 DEF Found, Text
  <2>7. CASE g.how = "run" /\ g.value # NULL /\ ~Readable(Now, g.value)
    BY <2>4, <2>5, <2>7 DEF Lost
  <2>8. CASE g.how = "run" /\ g.value # NULL /\ Readable(Now, g.value)
    <3>1. r = Found(TextOf(Now, g.value))
      BY <2>4, <2>8
    <3>2. TextOf(Now, g.value) \in Text
      <4>1. Now.text \in [Cell -> Text \union {Released}]
        BY DEF Well, Memory
      <4> QED
        BY <2>8, <4>1 DEF TextOf, Readable, Allocated, Text
    <3> QED
      BY <3>1, <3>2 DEF Found
  <2> QED
    BY <2>6, <2>7, <2>8
<1> QED
  BY <1>1, <1>2

----------------------------------------------------------------------------
(* What add_assignment() leaves.                                           *)

\* to_assign(): the new entry has the value, or what a reference stands for.
LEMMA AssignedShape ==
  ASSUME NEW m, Well(m), m.how = "run", param \in Seq(Cell), NEW w \in Tables,
         NEW n \in Name, NEW v \in Value, ~Has(m.table[w], n), NEW r, r = Assigned(m, w, n, v)
  PROVE  /\ Well(r) /\ r.how \in {"run", "crashed", "undefined"} /\ (m.shared => r.shared)
         /\ r.how = "undefined" =>
              v # NULL /\ ~(Readable(m, v) /\ Usable(m) /\ Calling)
         /\ r.how = "run" =>
              \/ /\ Written(r, m, w, n, v) /\ r.text = m.text /\ r.shared = m.shared
                 /\ v = NULL \/ TextOf(m, v) \notin Refs
              \/ \E x \in Name \union {First} : \E y \in Value :
                   /\ Written(r, m, w, n, y) /\ v # NULL /\ Readable(m, v)
                   /\ TextOf(m, v) = Ref(x) /\ TextOf(m, v) \in Refs
                   /\ GetAssign(m, x) = Found(y) /\ (r.shared <=> m.shared \/ y # NULL)
                   /\ \A c \in Cell : r.text[c] = IF c = v THEN Released ELSE m.text[c]
<1>1. CASE v = NULL \/ (Readable(m, v) /\ TextOf(m, v) \notin Refs)
  <2>1. r = Insert(m, w, n, v)
    BY <1>1 DEF Assigned
  <2>2. /\ Well(r) /\ r.text = m.text /\ r.shared = m.shared
        /\ r.how \in {"run", "crashed"}
        /\ r.how = "run" => Written(r, m, w, n, v)
    BY <2>1, InsertShape
  <2> QED
    BY <1>1, <2>2
<1>2. CASE v # NULL /\ ~Readable(m, v)
  <2>1. r = Ends(m, "undefined")
    BY <1>2 DEF Assigned
  <2>2. r \in Memory /\ r.how = "undefined" /\ r.table = m.table /\ r.shared = m.shared
    BY <2>1, WellTables, PutHow DEF Phase, Well
  <2> QED
    BY <1>2, <2>2 DEF Well
<1>3. CASE v # NULL /\ Readable(m, v) /\ TextOf(m, v) \in Refs
  <2>1. PICK x \in Name \union {First} : TextOf(m, v) = Ref(x)
    BY <1>3 DEF Refs
  <2>2. TextOf(m, v).ref = x
    BY <2>1 DEF Ref
  <2>3. PICK g : g = GetAssign(m, x)
    OBVIOUS
  <2>4. PICK f : f = [Free(m, v) EXCEPT !.shared = @ \/ g.value # NULL]
    OBVIOUS
  <2>5. r = IF g.how # "run" THEN Ends(m, g.how) ELSE Insert(f, w, n, g.value)
    BY <1>3, <2>2, <2>3, <2>4 DEF Assigned
  <2>6. /\ g.how \in {"run", "crashed", "undefined"} /\ g.value \in Value
        /\ Usable(m) /\ Calling => g.how # "undefined"
    BY <2>3, GetAssignShape
  <2>7. CASE g.how # "run"
    <3>1. r \in Memory /\ r.how = g.how /\ r.table = m.table /\ r.shared = m.shared
      BY <2>5, <2>6, <2>7, WellTables, PutHow DEF Phase, Well
    <3> QED
      BY <1>3, <2>6, <2>7, <3>1 DEF Well
  <2>8. CASE g.how = "run"
    <3>1. PICK e : e = Free(m, v)
      OBVIOUS
    <3>2. /\ e \in Memory /\ e.how = "run" /\ e.table = m.table /\ e.shared = m.shared
          /\ \A c \in Cell : e.text[c] = IF c = v THEN Released ELSE m.text[c]
      <4>1. m \in Memory
        BY DEF Well
      <4> QED
        BY <3>1, <4>1, FreeShape
    <3>3. PICK b \in BOOLEAN : b = (e.shared \/ g.value # NULL)
      BY <3>2 DEF Memory
    <3>4. f = [e EXCEPT !.shared = b]
      BY <2>4, <3>1, <3>3
    <3>5. /\ f \in Memory /\ f.how = "run" /\ f.table = m.table /\ f.text = e.text
          /\ f.shared = b
      BY <3>2, <3>4, PutShared
    <3>6. Well(f) /\ ~Has(f.table[w], n)
      BY <3>5 DEF Well
    <3>7. r = Insert(f, w, n, g.value)
      BY <2>5, <2>8
    <3>8. /\ Well(r) /\ r.text = f.text /\ r.shared = f.shared
          /\ r.how \in {"run", "crashed"}
          /\ r.how = "run" => Written(r, f, w, n, g.value)
      BY <2>6, <3>5, <3>6, <3>7, InsertShape
    <3>9. Written(r, f, w, n, g.value) => Written(r, m, w, n, g.value)
      BY <3>5 DEF Written, At
    <3>10. g = Found(g.value)
      <4>1. \E u : g = Found(u) \/ (\E h : g = Lost(h))
        BY <2>3 DEF GetAssign, GetParam, GetAssignVar
      <4> QED
        BY <4>1, <2>8 DEF Found, Lost
    <3> QED
      BY <1>3, <2>1, <2>3, <2>6, <3>2, <3>3, <3>5, <3>8, <3>9, <3>10
  <2> QED
    BY <2>7, <2>8
<1> QED
  BY <1>1, <1>2, <1>3

\* add_assignment(): whatever the memory, n has an entry then, and the other
\* names of that table and the other table are as they were.
LEMMA AddShape ==
  ASSUME NEW m, Well(m), param \in Seq(Cell), NEW w \in Tables,
         NEW n \in Name, NEW v \in Value, NEW r, r = Add(m, w, n, v)
  PROVE  /\ Well(r) /\ (m.shared => r.shared)
         /\ m.how = "run" => r.how \in {"run", "crashed", "undefined"}
         /\ m.how # "run" => r = m
         /\ r.how = "run" => \E y \in Value : Written(r, m, w, n, y)
<1>1. CASE m.how # "run"
  BY <1>1 DEF Add
<1>2. CASE m.how = "run" /\ Has(m.table[w], n)
  <2>1. r = Replace(m, w, n, v)
    BY <1>2 DEF Add
  <2>2. /\ Well(r) /\ r.shared = m.shared /\ r.how \in {"run", "undefined"}
        /\ r.how = "run" => Written(r, m, w, n, v)
    BY <1>2, <2>1, ReplaceShape
  <2> QED
    BY <1>2, <2>2
<1>3. CASE m.how = "run" /\ ~Has(m.table[w], n)
  <2>1. r = Assigned(m, w, n, v)
    BY <1>3 DEF Add
  <2>2. /\ Well(r) /\ r.how \in {"run", "crashed", "undefined"} /\ (m.shared => r.shared)
        /\ r.how = "run" => \E y \in Value : Written(r, m, w, n, y)
    BY <1>3, <2>1, AssignedShape
  <2> QED
    BY <1>3, <2>2
<1> QED
  BY <1>1, <1>2, <1>3

\* It uses no released string when none has two owners.
LEMMA AddUsable ==
  ASSUME NEW m, Well(m), m.how = "run", param \in Seq(Cell), NEW w \in Tables,
         NEW n \in Name, NEW v \in Value, NEW r, r = Add(m, w, n, v),
         Usable(m), Held(m, w), Calling, v = NULL \/ Readable(m, v)
  PROVE  r.how # "undefined"
<1>1. CASE Has(m.table[w], n)
  <2>1. r = Replace(m, w, n, v)
    BY <1>1 DEF Add
  <2> QED
    BY <1>1, <2>1, ReplaceShape
<1>2. CASE ~Has(m.table[w], n)
  <2>1. r = Assigned(m, w, n, v)
    BY <1>2 DEF Add
  <2> QED
    BY <1>2, <2>1, AssignedShape
<1> QED
  BY <1>1, <1>2

\* The strings of m for all entries but that of n in the table w
Kept(r, m, w, n) ==
  \A x \in Tables : \A k \in Names(m.table[x]) : ~(x = w /\ k = n) =>
    /\ k \in Names(r.table[x]) /\ At(r, x, k) = At(m, x, k)
    /\ At(m, x, k) # NULL => r.text[At(m, x, k)] = m.text[At(m, x, k)]

\* A string nobody has yet
New(m, args, v) ==
  \/ v = NULL
  \/ /\ v \in Cell /\ m.text[v] \in Text /\ v \notin args
     /\ \A w \in Tables : \A k \in Names(m.table[w]) : At(m, w, k) # v

\* An entry gets a new value, and one string is released that nobody else has.
LEMMA WrittenGood ==
  ASSUME NEW m, NEW r, Well(m), Well(r), NEW args \in SUBSET Cell, Good(m, args),
         NEW w \in Tables, NEW n \in Name, NEW y, New(m, args, y), Written(r, m, w, n, y),
         NEW z, z \notin args, z # y \/ y = NULL,
         \A x \in Tables : \A k \in Names(m.table[x]) :
           At(m, x, k) = z => z = NULL \/ (x = w /\ k = n),
         \A c \in Cell : c # z => r.text[c] = m.text[c]
  PROVE  Good(r, args) /\ Kept(r, m, w, n) /\ (y # NULL => r.text[y] = m.text[y])
<1>1. y # NULL => y \in Cell /\ y # z /\ r.text[y] = m.text[y] /\ m.text[y] # Released
  BY DEF New
<1>2. ASSUME NEW x \in Tables, NEW k \in Names(m.table[x]), ~(x = w /\ k = n)
      PROVE  /\ k \in Names(r.table[x]) /\ At(r, x, k) = At(m, x, k)
             /\ At(m, x, k) # NULL => /\ At(m, x, k) \in Cell /\ m.text[At(m, x, k)] # Released
                                      /\ r.text[At(m, x, k)] = m.text[At(m, x, k)]
  <2>1. k \in Names(r.table[x]) /\ At(r, x, k) = At(m, x, k)
    BY <1>2 DEF Written, At
  <2>2. At(m, x, k) # NULL => Allocated(m, At(m, x, k)) /\ At(m, x, k) # z
    BY <1>2 DEF Good, Held
  <2> QED
    BY <2>1, <2>2 DEF Allocated
<1>3. ASSUME NEW x \in Tables, NEW k \in Names(r.table[x])
      PROVE  \/ x = w /\ k = n /\ At(r, x, k) = y
             \/ ~(x = w /\ k = n) /\ k \in Names(m.table[x]) /\ At(r, x, k) = At(m, x, k)
  BY <1>2, <1>3 DEF Written
<1>4. ASSUME NEW x \in Tables PROVE Held(r, x)
  BY <1>1, <1>2, <1>3 DEF Held, Allocated
<1>5. Alone(r)
  <2>1. ASSUME NEW x \in Tables, NEW u \in Tables, NEW k \in Names(r.table[x]),
               NEW l \in Names(r.table[u]), At(r, x, k) # NULL, At(r, x, k) = At(r, u, l)
        PROVE  x = u /\ k = l
    <3>4. /\ \/ x = w /\ k = n /\ At(r, x, k) = y
             \/ k \in Names(m.table[x]) /\ At(r, x, k) = At(m, x, k)
          /\ \/ u = w /\ l = n /\ At(r, u, l) = y
             \/ l \in Names(m.table[u]) /\ At(r, u, l) = At(m, u, l)
      BY <1>3
    <3>5. y # NULL => \A j \in Tables : \A i \in Names(m.table[j]) : At(m, j, i) # y
      BY DEF New
    <3>1. CASE x = w /\ k = n /\ At(r, x, k) = y
      BY <2>1, <3>1, <3>4, <3>5
    <3>2. CASE u = w /\ l = n /\ At(r, u, l) = y
      BY <2>1, <3>2, <3>4, <3>5
    <3>3. CASE /\ k \in Names(m.table[x]) /\ At(r, x, k) = At(m, x, k)
               /\ l \in Names(m.table[u]) /\ At(r, u, l) = At(m, u, l)
      <4>1. At(m, x, k) # NULL /\ At(m, x, k) = At(m, u, l)
        BY <2>1, <3>3
      <4>2. Alone(m)
        BY DEF Good
      <4> QED
        BY <3>3, <4>1, <4>2 DEF Alone
    <3> QED
      BY <3>1, <3>2, <3>3, <3>4
  <2> QED
    BY <2>1 DEF Alone
<1>6. Apart(r, args)
  <2>1. ASSUME NEW c \in args
        PROVE  /\ Allocated(r, c)
               /\ \A x \in Tables : \A k \in Names(r.table[x]) : At(r, x, k) # c
    <3>1. Allocated(m, c) /\ c # z /\ c # y
      BY DEF Good, Apart, New, Allocated
    <3>2. Allocated(r, c)
      BY <3>1 DEF Allocated
    <3>3. \A x \in Tables : \A k \in Names(m.table[x]) : At(m, x, k) # c
      BY DEF Good, Apart
    <3> QED
      BY <1>3, <3>1, <3>2, <3>3
  <2> QED
    BY <2>1 DEF Apart
<1> QED
  BY <1>1, <1>2, <1>4, <1>5, <1>6 DEF Good, Kept

\* add_assignment(), when no string has two owners, then or before: the entry
\* has the new string, or null when that was a reference to nothing.
LEMMA AddGood ==
  ASSUME NEW m, Well(m), m.how = "run", param \in Seq(Cell), NEW w \in Tables,
         NEW n \in Name, NEW v \in Value, NEW r, r = Add(m, w, n, v), r.how = "run", ~r.shared,
         Good(m, Arguments), New(m, Arguments, v)
  PROVE  /\ Good(r, Arguments) /\ Kept(r, m, w, n)
         /\ \/ Written(r, m, w, n, v) /\ (v # NULL => r.text[v] = m.text[v])
            \/ Written(r, m, w, n, NULL) /\ v # NULL /\ m.text[v] \in Refs
<1>1. Arguments \in SUBSET Cell
  BY DEF Arguments
<1>2. NULL \notin Arguments /\ New(m, Arguments, NULL)
  BY <1>1 DEF New
<1>3. CASE Has(m.table[w], n)
  <2>1. r = Replace(m, w, n, v)
    BY <1>3 DEF Add
  <2>2. /\ Well(r) /\ Written(r, m, w, n, v)
        /\ \A c \in Cell : r.text[c] = m.text[c] \/ (c = At(m, w, n) /\ r.text[c] = Released)
    BY <1>3, <2>1, ReplaceShape
  <2>3. n \in Names(m.table[w])
    BY <1>3 DEF Names
  <2>4. PICK z : z = At(m, w, n)
    OBVIOUS
  <2>5. z \notin Arguments
    BY <2>3, <2>4 DEF Good, Apart
  <2>6. z # v \/ v = NULL
    BY <2>3, <2>4 DEF New
  <2>7. \A x \in Tables : \A k \in Names(m.table[x]) :
          At(m, x, k) = z => z = NULL \/ (x = w /\ k = n)
    BY <2>3, <2>4 DEF Good, Alone
  <2>8. \A c \in Cell : c # z => r.text[c] = m.text[c]
    BY <2>2, <2>4
  <2> QED
    BY <1>1, <2>2, <2>5, <2>6, <2>7, <2>8, WrittenGood
<1>4. CASE ~Has(m.table[w], n)
  <2>1. r = Assigned(m, w, n, v)
    BY <1>4 DEF Add
  <2>2. Well(r)
    BY <1>4, <2>1, AssignedShape
  <2>3. CASE Written(r, m, w, n, v) /\ r.text = m.text
    BY <1>1, <1>2, <2>2, <2>3, WrittenGood
  <2>4. CASE /\ Written(r, m, w, n, NULL) /\ v # NULL /\ TextOf(m, v) \in Refs
             /\ \A c \in Cell : r.text[c] = IF c = v THEN Released ELSE m.text[c]
    <3>1. v \in Cell /\ v \notin Arguments /\ m.text[v] \in Refs
      BY <2>4 DEF New, TextOf
    <3>2. \A x \in Tables : \A k \in Names(m.table[x]) : At(m, x, k) # v
      BY <2>4 DEF New
    <3>3. \A c \in Cell : c # v => r.text[c] = m.text[c]
      BY <2>4
    <3>4. Good(r, Arguments) /\ Kept(r, m, w, n)
      BY <1>1, <1>2, <2>2, <2>4, <3>1, <3>2, <3>3, WrittenGood
    <3> QED
      BY <2>4, <3>1, <3>4
  <2>5. \/ Written(r, m, w, n, v) /\ r.text = m.text
        \/ \E y \in Value : /\ Written(r, m, w, n, y) /\ v # NULL /\ TextOf(m, v) \in Refs
                            /\ (r.shared <=> m.shared \/ y # NULL)
                            /\ \A c \in Cell : r.text[c] = IF c = v THEN Released ELSE m.text[c]
    BY <1>4, <2>1, AssignedShape
  <2> QED
    BY <2>3, <2>4, <2>5
<1> QED
  BY <1>3, <1>4

\* What can still be read after an assignment that gave a string to two entries
LEMMA AddLeaves ==
  ASSUME NEW m, Well(m), m.how = "run", param \in Seq(Cell), NEW n \in Name,
         NEW v \in Value, NEW r, r = Add(m, "var", n, v), r.how = "run",
         ~m.shared, Good(m, Arguments), New(m, Arguments, v), Calling
  PROVE  Usable(r) /\ Held(r, "export")
<1>1. "var" \in Tables /\ "export" \in Tables
  BY DEF Tables
<1>2. Usable(m)
  BY <1>1 DEF Usable, Good, Held, Apart, Readable
<1>3. CASE ~r.shared
  <2>1. Good(r, Arguments)
    BY <1>1, <1>3, AddGood
  <2> QED
    BY <1>1, <2>1 DEF Usable, Good, Held, Apart, Readable
<1>4. CASE r.shared
  <2>1. ~Has(m.table["var"], n)
    BY <1>1, <1>4, ReplaceShape DEF Add
  <2>2. r = Assigned(m, "var", n, v)
    BY <2>1 DEF Add
  <2>3. PICK x \in Name \union {First}, y \in Value :
          /\ Written(r, m, "var", n, y) /\ v # NULL /\ GetAssign(m, x) = Found(y)
          /\ \A c \in Cell : r.text[c] = IF c = v THEN Released ELSE m.text[c]
    BY <1>1, <1>4, <2>1, <2>2, AssignedShape
  <2>4. /\ v \in Cell /\ v \notin Arguments
        /\ \A w \in Tables : \A k \in Names(m.table[w]) : At(m, w, k) # v
    BY <2>3 DEF New
  <2>5. y # NULL => Readable(m, y) /\ y # v
    <3>1. GetAssign(m, x).how = "run" /\ GetAssign(m, x).value = y
      BY <2>3 DEF Found
    <3>2. y # NULL => /\ Readable(m, y)
                      /\ \/ y = Literal \/ y \in Arguments
                         \/ \E k \in Names(m.table["var"]) : y = At(m, "var", k)
      BY <1>2, <3>1, GetAssignShape
    <3> QED
      BY <1>1, <2>4, <3>2
  <2>6. \A c : Allocated(m, c) /\ c # v => Allocated(r, c)
    BY <2>3 DEF Allocated
  <2>7. \A c : Readable(m, c) /\ c # v => Readable(r, c)
    BY <2>6 DEF Readable
  <2>8. Held(r, "export")
    <3>1. r.table["export"] = m.table["export"] /\ Held(m, "export")
      BY <1>1, <2>3 DEF Written, Good
    <3> QED
      BY <1>1, <2>4, <2>6, <3>1 DEF Held, At
  <2>9. ASSUME NEW k \in Names(r.table["var"]), At(r, "var", k) # NULL
        PROVE  Readable(r, At(r, "var", k))
    <3>1. CASE k = n
      BY <2>3, <2>5, <2>7, <2>9, <3>1 DEF Written
    <3>2. CASE k # n
      <4>1. k \in Names(m.table["var"]) /\ At(r, "var", k) = At(m, "var", k)
        BY <2>3, <3>2 DEF Written
      <4> QED
        BY <1>1, <1>2, <2>4, <2>7, <2>9, <4>1 DEF Usable
    <3> QED
      BY <3>1, <3>2
  <2>10. \A c \in Arguments : Allocated(r, c)
    BY <1>2, <2>4, <2>6 DEF Usable
  <2> QED
    BY <2>8, <2>9, <2>10 DEF Usable
<1> QED
  BY <1>3, <1>4

\* The entry of an exported name and its string are released.
LEMMA DropShape ==
  ASSUME NEW m, Well(m), NEW n \in Name, NEW r, r = Drop(m, n)
  PROVE  /\ Well(r) /\ r.shared = m.shared /\ (m.how # "run" => r = m)
         /\ m.how = "run" => r.how \in {"run", "undefined"}
         /\ Held(m, "export") /\ m.how = "run" => r.how = "run"
         /\ r.how = "run" =>
              /\ r.table["var"] = m.table["var"]
              /\ Names(r.table["export"]) = Names(m.table["export"]) \ {n}
              /\ \A k \in Names(r.table["export"]) : At(r, "export", k) = At(m, "export", k)
              /\ \A c \in Cell : \/ r.text[c] = m.text[c]
                                 \/ n \in Names(m.table["export"]) /\ c = At(m, "export", n)
<1>1. "var" \in Tables /\ "export" \in Tables /\ "var" # "export"
  BY DEF Tables
<1>2. CASE m.how # "run" \/ ~Has(m.table["export"], n)
  <2>1. r = m
    BY <1>2 DEF Drop
  <2>2. m.how = "run" => n \notin Names(m.table["export"])
    BY <1>2 DEF Names
  <2> QED
    BY <2>1, <2>2
<1>3. CASE m.how = "run" /\ Has(m.table["export"], n)
  <2>1. PICK v : v = At(m, "export", n)
    OBVIOUS
  <2>2. PICK t : t = Unlink(m.table["export"], n)
    OBVIOUS
  <2>3. PICK done : done = [m EXCEPT !.table["export"] = t]
    OBVIOUS
  <2>4. r = IF v = NULL THEN done
            ELSE IF ~Allocated(m, v) THEN Ends(m, "undefined") ELSE Free(done, v)
    BY <1>3, <2>1, <2>2, <2>3 DEF Drop, At
  <2>5. /\ t \in Table(Value) /\ Sorted(t) /\ Headed(t)
        /\ Names(t) = Names(m.table["export"]) \ {n}
        /\ \A k \in Names(m.table["export"]) : k # n => ValueOf(t, k) = ValueOf(m.table["export"], k)
    BY <1>1, <1>3, <2>2, WellTables, UnlinkProperties
  <2>6. /\ done \in Memory /\ done.how = m.how /\ done.text = m.text /\ done.shared = m.shared
        /\ done.table["export"] = t /\ \A x \in Tables : x # "export" => done.table[x] = m.table[x]
    BY <1>1, <2>3, <2>5, WellTables, PutTable
  <2>7. Well(done)
    BY <2>5, <2>6 DEF Well
  <2>8. n \in Names(m.table["export"])
    BY <1>3 DEF Names
  <2>9. CASE v = NULL
    BY <1>1, <1>3, <2>4, <2>5, <2>6, <2>7, <2>9 DEF At
  <2>10. CASE v # NULL /\ ~Allocated(m, v)
    <3>1. r = Ends(m, "undefined")
      BY <2>4, <2>10
    <3>2. r \in Memory /\ r.how = "undefined" /\ r.table = m.table /\ r.shared = m.shared
      BY <1>1, <3>1, WellTables, PutHow DEF Phase
    <3>3. ~Held(m, "export")
      BY <2>1, <2>8, <2>10 DEF Held
    <3> QED
      BY <1>3, <3>2, <3>3 DEF Well
  <2>11. CASE v # NULL /\ Allocated(m, v)
    <3>1. r = Free(done, v)
      BY <2>4, <2>11
    <3>2. /\ r \in Memory /\ r.how = done.how /\ r.table = done.table /\ r.shared = done.shared
          /\ \A d \in Cell : r.text[d] = IF d = v THEN Released ELSE done.text[d]
      BY <2>6, <3>1, FreeShape
    <3>3. Well(r)
      BY <2>7, <3>2 DEF Well
    <3> QED
      BY <1>1, <1>3, <2>1, <2>5, <2>6, <2>8, <3>2, <3>3 DEF At
  <2> QED
    BY <2>9, <2>10, <2>11
<1> QED
  BY <1>2, <1>3

\* The other strings keep their owners.
LEMMA DropGood ==
  ASSUME NEW m, Well(m), NEW n \in Name, NEW r, r = Drop(m, n), r.how = "run",
         NEW args \in SUBSET Cell, Good(m, args)
  PROVE  /\ Good(r, args) /\ r.table["var"] = m.table["var"]
         /\ \A k \in Names(m.table["var"]) :
              At(m, "var", k) # NULL => r.text[At(m, "var", k)] = m.text[At(m, "var", k)]
<1>1. "var" \in Tables /\ "export" \in Tables /\ "var" # "export"
  BY DEF Tables
<1>2. /\ Well(r) /\ r.table["var"] = m.table["var"]
      /\ Names(r.table["export"]) = Names(m.table["export"]) \ {n}
      /\ \A k \in Names(r.table["export"]) : At(r, "export", k) = At(m, "export", k)
      /\ \A c \in Cell : \/ r.text[c] = m.text[c]
                         \/ n \in Names(m.table["export"]) /\ c = At(m, "export", n)
  BY DropShape
<1>3. ASSUME NEW w \in Tables, NEW k \in Names(r.table[w])
      PROVE  /\ k \in Names(m.table[w]) /\ At(r, w, k) = At(m, w, k)
             /\ ~(w = "export" /\ k = n)
  <2>1. w = "var" \/ w = "export"
    BY DEF Tables
  <2> QED
    BY <1>2, <2>1 DEF At
<1>4. ASSUME NEW w \in Tables, NEW k \in Names(m.table[w]), ~(w = "export" /\ k = n), At(m, w, k) # NULL
      PROVE  r.text[At(m, w, k)] = m.text[At(m, w, k)] /\ Allocated(r, At(m, w, k))
  <2>1. Allocated(m, At(m, w, k))
    BY <1>4 DEF Good, Held
  <2>2. n \in Names(m.table["export"]) => At(m, w, k) # At(m, "export", n)
    BY <1>1, <1>4 DEF Good, Alone
  <2> QED
    BY <1>2, <2>1, <2>2 DEF Allocated
<1>5. \A w \in Tables : Held(r, w)
  BY <1>3, <1>4 DEF Held
<1>6. Alone(r)
  <2>1. ASSUME NEW w \in Tables, NEW x \in Tables, NEW k \in Names(r.table[w]),
               NEW l \in Names(r.table[x]), At(r, w, k) # NULL, At(r, w, k) = At(r, x, l)
        PROVE  w = x /\ k = l
    <3>1. /\ k \in Names(m.table[w]) /\ At(r, w, k) = At(m, w, k)
          /\ l \in Names(m.table[x]) /\ At(r, x, l) = At(m, x, l)
      BY <1>3
    <3> QED
      <4>1. At(m, w, k) # NULL /\ At(m, w, k) = At(m, x, l)
        BY <2>1, <3>1
      <4>2. Alone(m)
        BY DEF Good
      <4> QED
        BY <3>1, <4>1, <4>2 DEF Alone
  <2> QED
    BY <2>1 DEF Alone
<1>7. Apart(r, args)
  <2>1. ASSUME NEW c \in args
        PROVE  /\ Allocated(r, c)
               /\ \A w \in Tables : \A k \in Names(r.table[w]) : At(r, w, k) # c
    <3>1. Allocated(m, c) /\ \A w \in Tables : \A k \in Names(m.table[w]) : At(m, w, k) # c
      BY DEF Good, Apart
    <3>2. Allocated(r, c)
      BY <1>1, <1>2, <3>1 DEF Allocated
    <3> QED
      BY <1>3, <3>1, <3>2
  <2> QED
    BY <2>1 DEF Apart
<1> QED
  BY <1>1, <1>2, <1>4, <1>5, <1>6, <1>7 DEF Good

----------------------------------------------------------------------------
(* The invariant, and the end of a line that leaves the memory m.          *)

\* The entry of a variable is what it was last assigned.
Matches(m, g) ==
  \A n \in Name :
    IF n \in Names(m.table["var"])
      THEN IF At(m, "var", n) = NULL THEN g[n] \in Refs ELSE m.text[At(m, "var", n)] = g[n]
      ELSE g[n] = NULL

Inv ==
  /\ TypeOK
  /\ \A w \in Tables : Sorted(table[w])
  /\ ~shared => Good(Now, Arguments)
  /\ UsesOnlyOwned
  /\ phase = "run" /\ ~shared => Matches(Now, given)

LEMMA WellNow ==
  ASSUME TypeOK, \A w \in Tables : Sorted(table[w])
  PROVE  Well(Now) /\ param \in Seq(Cell) /\ Arguments \in SUBSET Cell
<1>1. table \in [Tables -> Table(Value)]
  BY DEF TypeOK, Table, EntryOf, Entered
<1>2. Now \in Memory
  BY <1>1 DEF TypeOK, Now, Memory, Phase
<1>3. \A w \in Tables : Headed(table[w])
  BY DEF TypeOK, Headed
<1>4. param \in Seq(Cell) /\ Arguments \in SUBSET Cell
  BY DEF TypeOK, Arguments
<1> QED
  BY <1>2, <1>3, <1>4 DEF Well, Now

\* The strings of the tables are the values of the names.
LEMMA StringsAreValues ==
  ASSUME NEW m, Well(m), NEW c
  PROVE  c \in Strings(m.table) <=> \E w \in Tables : \E k \in Names(m.table[w]) : At(m, w, k) = c
<1>1. ASSUME c \in Strings(m.table)
      PROVE  \E w \in Tables : \E k \in Names(m.table[w]) : At(m, w, k) = c
  <2>1. PICK w \in Tables, b \in Bucket : \E i \in DOMAIN m.table[w].chain[b] : c = m.table[w].chain[b][i].value
    BY <1>1 DEF Strings
  <2>2. PICK i \in DOMAIN m.table[w].chain[b] : c = m.table[w].chain[b][i].value
    BY <2>1
  <2>3. m.table[w] \in Table(Value) /\ Sorted(m.table[w])
    BY <2>1, WellTables
  <2>4. PICK k : k = m.table[w].chain[b][i].name
    OBVIOUS
  <2>5. k \in Names(m.table[w]) /\ m.table[w].chain[b][i].value = ValueOf(m.table[w], k)
    BY <2>1, <2>2, <2>3, <2>4, EntryIsFound
  <2> QED
    BY <2>1, <2>2, <2>5 DEF At
<1>2. ASSUME NEW w \in Tables, NEW k \in Names(m.table[w]), At(m, w, k) = c
      PROVE  c \in Strings(m.table)
  <2>1. m.table[w] \in Table(Value) /\ Sorted(m.table[w]) /\ k \in Name /\ Has(m.table[w], k)
    BY WellTables DEF Names
  <2>2. /\ Place(m.table[w], k) \in DOMAIN Chain(m.table[w], k)
        /\ Chain(m.table[w], k)[Place(m.table[w], k)] = [name |-> k, value |-> ValueOf(m.table[w], k)]
    BY <2>1, PlaceProperties
  <2>3. hash[k] \in Bucket /\ Chain(m.table[w], k) = m.table[w].chain[hash[k]]
    BY <2>1, HashAssumption DEF Chain
  <2>4. PICK i \in DOMAIN m.table[w].chain[hash[k]] :
          m.table[w].chain[hash[k]][i] = [name |-> k, value |-> ValueOf(m.table[w], k)]
    BY <2>2, <2>3
  <2>5. m.table[w].chain[hash[k]][i].value = c
    BY <1>2, <2>4 DEF At
  <2>6. c \in Value
    BY <1>2, NameIsFound
  <2> QED
    BY <2>3, <2>4, <2>5, <2>6 DEF Strings
<1> QED
  BY <1>1, <1>2

\* The memory after a line: the strings nobody refers to are gone.
LEMMA BecomesShape ==
  ASSUME TypeOK, NEW m, Well(m), m.how = "run", Becomes(m)
  PROVE  /\ phase' = "run" /\ table' = m.table /\ shared' = m.shared
         /\ text' \in [Cell -> Text \union {Released}]
         /\ Arguments' = Arguments
         /\ \A c \in Arguments : text'[c] = m.text[c]
         /\ \A w \in Tables : \A k \in Names(m.table[w]) :
              At(m, w, k) \in Cell => text'[At(m, w, k)] = m.text[At(m, w, k)]
<1>1. /\ phase' = "run" /\ table' = m.table /\ shared' = m.shared
      /\ text' = Reached(m, Strings(m.table) \union Arguments)
      /\ UNCHANGED calls
  BY DEF Becomes
<1>2. m.text \in [Cell -> Text \union {Released}]
  BY DEF Well, Memory
<1>3. Arguments' = Arguments /\ Arguments \in SUBSET Cell
  BY <1>1 DEF Arguments, calls, TypeOK
<1>4. \A c \in Cell : c \in Strings(m.table) \union Arguments => text'[c] = m.text[c]
  BY <1>1 DEF Reached
<1>5. \A w \in Tables : \A k \in Names(m.table[w]) : At(m, w, k) \in Strings(m.table)
  BY StringsAreValues
<1> QED
  BY <1>1, <1>2, <1>3, <1>4, <1>5 DEF Reached

LEMMA GoodEnd ==
  ASSUME TypeOK, NEW m, Well(m), m.how = "run", Becomes(m), Good(m, Arguments),
         NEW g, Matches(m, g)
  PROVE  Good(Now', Arguments') /\ Matches(Now', g)
<1> DEFINE q == Now'
<1>1. /\ q.table = m.table /\ q.text = text' /\ Arguments' = Arguments
      /\ \A c \in Arguments : q.text[c] = m.text[c]
      /\ \A w \in Tables : \A k \in Names(m.table[w]) :
           At(m, w, k) \in Cell => q.text[At(m, w, k)] = m.text[At(m, w, k)]
  BY BecomesShape DEF Now
<1> HIDE DEF q
<1>2. \A w, k : At(q, w, k) = At(m, w, k)
  BY <1>1 DEF At
<1>3. \A w \in Tables : Held(q, w)
  BY <1>1, <1>2 DEF Good, Held, Allocated
<1>4. Alone(q)
  BY <1>1, <1>2 DEF Good, Alone
<1>5. Apart(q, Arguments)
  BY <1>1, <1>2 DEF Good, Apart, Allocated
<1>6. "var" \in Tables
  BY DEF Tables
<1>7. \A n \in Names(m.table["var"]) : At(m, "var", n) # NULL => At(m, "var", n) \in Cell
  BY <1>6 DEF Good, Held, Allocated
<1>8. Matches(q, g)
  BY <1>1, <1>2, <1>6, <1>7 DEF Matches
<1> QED
  BY <1>1, <1>3, <1>4, <1>5, <1>8 DEF Good, q

\* A line keeps the invariant when the memory it leaves is as it should be.
LEMMA LineKeeps ==
  ASSUME Inv, Goes, NEW m, Well(m), m.how \in {"run", "crashed", "undefined"}, Becomes(m),
         NEW g, Records(g), m.how = "run" => g \in [Name -> Text \union {NULL}],
         shared => m.shared,
         ~shared /\ Calling => m.how # "undefined",
         m.how = "run" /\ ~m.shared => Good(m, Arguments) /\ Matches(m, g)
  PROVE  Inv'
<1>1. TypeOK /\ phase = "run" /\ lines' \in 0..MaxLines /\ phase' = m.how
      /\ param' = param /\ live' = live /\ depth' = depth
  BY DEF Inv, Goes, TypeOK, Becomes, calls
<1>2. CASE m.how = "run"
  <2>1. /\ phase' = "run" /\ table' = m.table /\ shared' = m.shared
        /\ text' \in [Cell -> Text \union {Released}]
    BY <1>1, <1>2, BecomesShape
  <2>2. given' = IF shared' THEN [n \in Name |-> NULL] ELSE g
    BY <2>1 DEF Records
  <2>3. given' \in [Name -> Text \union {NULL}]
    BY <1>2, <2>2
  <2>4. /\ table' \in [Tables -> Table(Value)] /\ shared' \in BOOLEAN
        /\ \A w \in Tables : Sorted(table'[w]) /\ Headed(table'[w])
    BY <2>1 DEF Well, Memory
  <2>5. TypeOK'
    <3>1. table' \in [Tables -> [chain : [Bucket -> Seq(Entered)], headless : SUBSET Bucket]]
      BY <2>4 DEF Table, EntryOf, Entered
    <3>2. \A w \in Tables : \A b \in table'[w].headless : table'[w].chain[b] = <<>>
      BY <2>4 DEF Headed
    <3>3. /\ param' \in Seq(Cell) /\ live' \in BOOLEAN /\ depth' \in 0..MaxDepth
      BY <1>1 DEF TypeOK
    <3> QED
      BY <1>1, <2>1, <2>3, <2>4, <3>1, <3>2, <3>3 DEF TypeOK
  <2>6. ~shared' => Good(Now', Arguments') /\ Matches(Now', g)
    BY <1>1, <1>2, <2>1, GoodEnd
  <2>7. (\A w \in Tables : Sorted(table[w]))'
    BY <2>4
  <2>8. (~shared => Good(Now, Arguments))'
    BY <2>6
  <2>9. (phase = "run" /\ ~shared => Matches(Now, given))'
    BY <2>2, <2>6
  <2>10. UsesOnlyOwned'
    BY <2>1 DEF UsesOnlyOwned
  <2> QED
    BY <2>5, <2>7, <2>8, <2>9, <2>10 DEF Inv
<1>3. CASE m.how # "run"
  <2>1. phase' # "run" /\ table' = table /\ text' = text /\ shared' = shared
    BY <1>1, <1>3 DEF Becomes
  <2>2. given' = given
    BY <2>1 DEF Records
  <2>3. TypeOK'
    BY <1>1, <2>1, <2>2 DEF TypeOK
  <2>4. Arguments' = Arguments
    BY <1>1 DEF Arguments
  <2>5. (~shared => Good(Now, Arguments))'
    <3>1. \A w, k, c : /\ At(Now', w, k) = At(Now, w, k)
                       /\ Allocated(Now', c) <=> Allocated(Now, c)
      BY <2>1 DEF At, Now, Allocated
    <3>2. Now'.table = Now.table
      BY <2>1 DEF Now
    <3>3. ~shared => Good(Now, Arguments)
      BY DEF Inv
    <3>4. ASSUME ~shared' PROVE Good(Now', Arguments')
      <4>1. Good(Now, Arguments)
        BY <2>1, <3>3, <3>4
      <4>2. \A w \in Tables : Held(Now', w)
        BY <3>1, <3>2, <4>1 DEF Good, Held
      <4>3. Alone(Now')
        BY <3>1, <3>2, <4>1 DEF Good, Alone
      <4>4. Apart(Now', Arguments)
        BY <3>1, <3>2, <4>1 DEF Good, Apart
      <4> QED
        BY <2>4, <4>2, <4>3, <4>4 DEF Good
    <3> QED
      BY <3>4
  <2>6. UsesOnlyOwned'
    BY <1>1, <2>1 DEF UsesOnlyOwned, Calling, TypeOK
  <2> QED
    BY <2>1, <2>3, <2>5, <2>6 DEF Inv
<1> QED
  BY <1>2, <1>3

----------------------------------------------------------------------------
(* What each kind of line leaves.                                          *)

LEMMA FreshShape ==
  ASSUME Well(Now), NEW c, NEW d, Fresh(c, d)
  PROVE  /\ c \in Cell /\ d \in Cell /\ c # d /\ c \notin Arguments /\ d \notin Arguments
         /\ \A w \in Tables : \A k \in Names(table[w]) : At(Now, w, k) # c /\ At(Now, w, k) # d
<1> DEFINE unused == Cell \ (Strings(table) \union Arguments)
<1>1. c \in unused /\ d \in unused /\ c < d
  BY DEF Fresh
<1>2. c \in Cell /\ d \in Cell /\ c # d
  BY <1>1
<1>3. \A x : x \in Strings(table) <=> \E w \in Tables : \E k \in Names(table[w]) : At(Now, w, k) = x
  <2>1. Now.table = table
    BY DEF Now
  <2> QED
    BY <2>1, StringsAreValues
<1> QED
  BY <1>1, <1>2, <1>3

\* A string is allocated.
LEMMA AllocGood ==
  ASSUME NEW m, Well(m), NEW c \in Cell, NEW t \in Text, NEW r, r = Alloc(m, c, t)
  PROVE  /\ Well(r) /\ r.how = m.how /\ r.table = m.table /\ r.shared = m.shared
         /\ r.text[c] = t /\ Readable(r, c)
         /\ Usable(m) => Usable(r)
         /\ \A w \in Tables : Held(m, w) => Held(r, w)
         /\ \A args \in SUBSET Cell :
              /\ c \notin args
              /\ \A w \in Tables : \A k \in Names(m.table[w]) : At(m, w, k) # c
              => /\ New(r, args, c)
                 /\ Good(m, args) => Good(r, args) /\ \A g : Matches(m, g) => Matches(r, g)
<1>1. /\ r \in Memory /\ r.how = m.how /\ r.table = m.table /\ r.shared = m.shared
      /\ \A d \in Cell : r.text[d] = IF d = c THEN t ELSE m.text[d]
  BY AllocShape DEF Well
<1>2. Well(r) /\ \A w, k : At(r, w, k) = At(m, w, k)
  BY <1>1 DEF Well, At
<1>3. \A x : Allocated(m, x) => Allocated(r, x)
  BY <1>1 DEF Allocated
<1>4. \A x : Readable(m, x) => Readable(r, x)
  BY <1>3 DEF Readable
<1>5. Usable(m) => Usable(r)
  BY <1>1, <1>2, <1>3, <1>4 DEF Usable
<1>6. \A w \in Tables : Held(m, w) => Held(r, w)
  BY <1>1, <1>2, <1>3 DEF Held
<1>7. r.text[c] = t /\ Readable(r, c)
  BY <1>1 DEF Readable, Allocated
<1>8. ASSUME NEW args \in SUBSET Cell, c \notin args,
             \A w \in Tables : \A k \in Names(m.table[w]) : At(m, w, k) # c
      PROVE  /\ New(r, args, c)
             /\ Good(m, args) => Good(r, args) /\ \A g : Matches(m, g) => Matches(r, g)
  <2>1. New(r, args, c)
    BY <1>1, <1>2, <1>8 DEF New
  <2>2. Alone(m) => Alone(r)
    BY <1>1, <1>2 DEF Alone
  <2>3. Apart(m, args) => Apart(r, args)
    BY <1>1, <1>2, <1>3 DEF Apart
  <2>4. Good(m, args) => Good(r, args)
    BY <1>6, <2>2, <2>3 DEF Good
  <2>5. "var" \in Tables
    BY DEF Tables
  <2>6. ASSUME Good(m, args), NEW g, Matches(m, g) PROVE Matches(r, g)
    <3>1. ASSUME NEW n \in Names(m.table["var"]), At(m, "var", n) # NULL
          PROVE  r.text[At(m, "var", n)] = m.text[At(m, "var", n)]
      <4>1. At(m, "var", n) \in Cell
        BY <2>5, <2>6, <3>1 DEF Good, Held, Allocated
      <4> QED
        BY <1>1, <1>8, <2>5, <4>1
    <3>2. ASSUME NEW n \in Name
          PROVE  IF n \in Names(r.table["var"])
                   THEN IF At(r, "var", n) = NULL THEN g[n] \in Refs ELSE r.text[At(r, "var", n)] = g[n]
                   ELSE g[n] = NULL
      <4>1. r.table["var"] = m.table["var"] /\ At(r, "var", n) = At(m, "var", n)
        BY <1>1, <1>2
      <4> QED
        BY <2>6, <3>1, <4>1 DEF Matches
    <3> QED
      BY <3>2 DEF Matches
  <2> QED
    BY <2>1, <2>4, <2>6
<1> QED
  BY <1>1, <1>2, <1>5, <1>6, <1>7, <1>8

\* The values of r are those of m, v and null.
Adds(r, m, v) ==
  \A w \in Tables : \A k \in Names(r.table[w]) :
    At(r, w, k) \in {v, NULL} \/ (k \in Names(m.table[w]) /\ At(r, w, k) = At(m, w, k))
Nobodys(m, v) == \A w \in Tables : \A k \in Names(m.table[w]) : At(m, w, k) # v

\* The variable n is assigned the new string v.
LEMMA AssignGood ==
  ASSUME NEW m, Well(m), m.how = "run", param \in Seq(Cell), NEW n \in Name,
         NEW v \in Cell, NEW r, r = Add(m, "var", n, v), r.how = "run", ~r.shared,
         Good(m, Arguments), New(m, Arguments, v),
         NEW g \in [Name -> Text \union {NULL}], Matches(m, g)
  PROVE  /\ Good(r, Arguments) /\ Matches(r, [g EXCEPT ![n] = m.text[v]])
         /\ Adds(r, m, v)
<1>1. "var" \in Tables /\ v \in Value /\ v # NULL
  BY DEF Tables, Value
<1>2. /\ Good(r, Arguments) /\ Kept(r, m, "var", n)
      /\ \/ Written(r, m, "var", n, v) /\ r.text[v] = m.text[v]
         \/ Written(r, m, "var", n, NULL) /\ m.text[v] \in Refs
  BY <1>1, AddGood
<1>3. PICK h : h = [g EXCEPT ![n] = m.text[v]]
  OBVIOUS
<1>4. h[n] = m.text[v] /\ \A k \in Name : k # n => h[k] = g[k]
  BY <1>3
<1>5. n \in Names(r.table["var"]) /\ Names(r.table["var"]) = Names(m.table["var"]) \union {n}
  BY <1>2 DEF Written
<1>6. IF At(r, "var", n) = NULL THEN h[n] \in Refs ELSE r.text[At(r, "var", n)] = h[n]
  BY <1>1, <1>2, <1>4 DEF Written
<1>7. ASSUME NEW k \in Name, k # n
      PROVE  IF k \in Names(r.table["var"])
               THEN IF At(r, "var", k) = NULL THEN h[k] \in Refs ELSE r.text[At(r, "var", k)] = h[k]
               ELSE h[k] = NULL
  <2>1. k \in Names(m.table["var"]) =>
          /\ At(r, "var", k) = At(m, "var", k)
          /\ At(m, "var", k) # NULL => r.text[At(m, "var", k)] = m.text[At(m, "var", k)]
    BY <1>1, <1>2, <1>7 DEF Kept
  <2>2. k \in Names(r.table["var"]) <=> k \in Names(m.table["var"])
    BY <1>5, <1>7
  <2> QED
    BY <1>4, <1>7, <2>1, <2>2 DEF Matches
<1>8. Matches(r, h)
  BY <1>5, <1>6, <1>7 DEF Matches
<1>9. ASSUME NEW w \in Tables, NEW k \in Names(r.table[w])
      PROVE  \/ At(r, w, k) \in {v, NULL}
             \/ k \in Names(m.table[w]) /\ At(r, w, k) = At(m, w, k)
  <2>1. PICK y \in {v, NULL} : Written(r, m, "var", n, y)
    BY <1>2
  <2>2. CASE w = "var"
    BY <2>1, <2>2 DEF Written
  <2>3. CASE w # "var"
    BY <2>1, <2>3 DEF Written, At
  <2> QED
    BY <2>2, <2>3
<1> QED
  BY <1>2, <1>3, <1>8, <1>9 DEF Adds

\* A variable keeps its value when another table is written.
LEMMA ExportGood ==
  ASSUME NEW m, Well(m), m.how = "run", param \in Seq(Cell), NEW n \in Name,
         NEW v \in Value, NEW r, r = Add(m, "export", n, v), r.how = "run", ~r.shared,
         Good(m, Arguments), New(m, Arguments, v), NEW g, Matches(m, g)
  PROVE  Good(r, Arguments) /\ Matches(r, g)
<1>1. "var" \in Tables /\ "export" \in Tables /\ "var" # "export"
  BY DEF Tables
<1>2. /\ Good(r, Arguments) /\ Kept(r, m, "export", n)
      /\ Written(r, m, "export", n, v) \/ Written(r, m, "export", n, NULL)
  BY <1>1, AddGood
<1>3. r.table["var"] = m.table["var"]
  BY <1>1, <1>2 DEF Written
<1>4. \A k \in Names(m.table["var"]) :
        At(m, "var", k) # NULL => r.text[At(m, "var", k)] = m.text[At(m, "var", k)]
  BY <1>1, <1>2 DEF Kept
<1>5. \A k : At(r, "var", k) = At(m, "var", k)
  BY <1>3 DEF At
<1> QED
  BY <1>2, <1>3, <1>4, <1>5 DEF Matches

LEMMA DropMatches ==
  ASSUME NEW m, Well(m), NEW n \in Name, NEW r, r = Drop(m, n), r.how = "run",
         NEW args \in SUBSET Cell, Good(m, args), NEW g, Matches(m, g)
  PROVE  Good(r, args) /\ Matches(r, g)
<1>1. /\ Good(r, args) /\ r.table["var"] = m.table["var"]
      /\ \A k \in Names(m.table["var"]) :
           At(m, "var", k) # NULL => r.text[At(m, "var", k)] = m.text[At(m, "var", k)]
  BY DropGood
<1>2. \A k : At(r, "var", k) = At(m, "var", k)
  BY <1>1 DEF At
<1> QED
  BY <1>1, <1>2 DEF Matches

\* While no string has two owners
LEMMA SoundNow ==
  ASSUME Inv, phase = "run"
  PROVE  /\ TypeOK /\ Well(Now) /\ param \in Seq(Cell) /\ Arguments \in SUBSET Cell
         /\ Now.how = "run" /\ Now.table = table /\ Now.shared = shared
         /\ given \in [Name -> Text \union {NULL}]
         /\ ~shared => /\ Good(Now, Arguments) /\ Matches(Now, given) /\ Usable(Now)
                       /\ Held(Now, "var") /\ Held(Now, "export")
<1>1. "var" \in Tables /\ "export" \in Tables
  BY DEF Tables
<1>2. Well(Now) /\ param \in Seq(Cell) /\ Arguments \in SUBSET Cell
  BY WellNow DEF Inv
<1>3. given \in [Name -> Text \union {NULL}] /\ TypeOK
  BY DEF Inv, TypeOK
<1>4. ~shared => Good(Now, Arguments) /\ Matches(Now, given)
  BY DEF Inv
<1>5. \A m : Good(m, Arguments) => Usable(m) /\ Held(m, "var") /\ Held(m, "export")
  BY <1>1 DEF Good, Usable, Held, Apart, Readable
<1> QED
  BY <1>2, <1>3, <1>4, <1>5 DEF Now

\* The memory in which the new string c holds t
LEMMA FreshGood ==
  ASSUME Inv, phase = "run", NEW c, NEW d, Fresh(c, d), NEW t \in Text,
         NEW a, a = Alloc(Now, c, t)
  PROVE  /\ Well(a) /\ a.how = "run" /\ a.table = table /\ a.shared = shared
         /\ a.text[c] = t /\ Readable(a, c) /\ c \in Cell /\ c \in Value
         /\ ~shared => /\ Good(a, Arguments) /\ New(a, Arguments, c) /\ Matches(a, given)
                       /\ Usable(a) /\ Held(a, "var") /\ Held(a, "export")
<1>1. "var" \in Tables /\ "export" \in Tables
  BY DEF Tables
<1>2. /\ Well(Now) /\ Now.how = "run" /\ Now.table = table /\ Now.shared = shared
      /\ Arguments \in SUBSET Cell
      /\ ~shared => /\ Good(Now, Arguments) /\ Matches(Now, given) /\ Usable(Now)
                    /\ Held(Now, "var") /\ Held(Now, "export")
  BY SoundNow
<1>3. /\ c \in Cell /\ c \notin Arguments
      /\ \A w \in Tables : \A k \in Names(table[w]) : At(Now, w, k) # c
  BY <1>2, FreshShape
<1>4. /\ Well(a) /\ a.how = Now.how /\ a.table = Now.table /\ a.shared = Now.shared
      /\ a.text[c] = t /\ Readable(a, c)
      /\ Usable(Now) => Usable(a)
      /\ \A w \in Tables : Held(Now, w) => Held(a, w)
  BY <1>2, <1>3, AllocGood
<1>5. /\ New(a, Arguments, c)
      /\ Good(Now, Arguments) => Good(a, Arguments) /\ \A g : Matches(Now, g) => Matches(a, g)
  BY <1>2, <1>3, AllocGood
<1> QED
  BY <1>1, <1>2, <1>3, <1>4, <1>5 DEF Value

\* n=t
LEMMA AssignKeeps ==
  ASSUME Inv, NEW c \in Cell, NEW d \in Cell, Fresh(c, d), NEW n \in Name, NEW t \in Texts,
         Assign(n, t, c)
  PROVE  Inv'
<1>1. Goes /\ phase = "run" /\ t \in Text /\ t # NULL /\ "var" \in Tables
  BY DEF Assign, Goes, Tables
<1>2. PICK a : a = Alloc(Now, c, t)
  OBVIOUS
<1>3. PICK m : m = Add(a, "var", n, c)
  OBVIOUS
<1>4. PICK g : g = [given EXCEPT ![n] = t]
  OBVIOUS
<1>5. Becomes(m) /\ Records(g)
  BY <1>2, <1>3, <1>4 DEF Assign, Gives
<1>6. /\ Well(a) /\ a.how = "run" /\ a.shared = shared /\ a.text[c] = t /\ Readable(a, c)
      /\ c \in Value
      /\ ~shared => /\ Good(a, Arguments) /\ New(a, Arguments, c) /\ Matches(a, given)
                    /\ Usable(a) /\ Held(a, "var") /\ Held(a, "export")
  BY <1>1, <1>2, FreshGood
<1>7. param \in Seq(Cell) /\ given \in [Name -> Text \union {NULL}]
  BY <1>1, SoundNow
<1>8. Well(m) /\ (shared => m.shared) /\ m.how \in {"run", "crashed", "undefined"}
  BY <1>1, <1>3, <1>6, <1>7, AddShape
<1>9. ~shared /\ Calling => m.how # "undefined"
  BY <1>1, <1>3, <1>6, <1>7, AddUsable
<1>10. m.how = "run" /\ ~m.shared => Good(m, Arguments) /\ Matches(m, g)
  BY <1>3, <1>4, <1>6, <1>7, <1>8, AssignGood
<1>11. g \in [Name -> Text \union {NULL}]
  BY <1>1, <1>4, <1>7
<1> QED
  BY <1>1, <1>5, <1>8, <1>9, <1>10, <1>11, LineKeeps

\* export n
LEMMA ExportNameKeeps ==
  ASSUME Inv, NEW n \in Name, ExportName(n)
  PROVE  Inv'
<1>1. /\ Goes /\ phase = "run" /\ Records(given) /\ "export" \in Tables /\ "var" \in Tables
      /\ n \in Name \union {First}
  BY DEF ExportName, Goes, Tables
<1>2. /\ Well(Now) /\ param \in Seq(Cell) /\ Arguments \in SUBSET Cell
      /\ Now.how = "run" /\ Now.shared = shared /\ given \in [Name -> Text \union {NULL}]
      /\ ~shared => /\ Good(Now, Arguments) /\ Matches(Now, given) /\ Usable(Now)
                    /\ Held(Now, "var") /\ Held(Now, "export")
  BY <1>1, SoundNow
<1>3. PICK r : r = GetAssign(Now, n)
  OBVIOUS
<1>4. /\ r.how \in {"run", "crashed", "undefined"} /\ r.value \in Value
      /\ Usable(Now) /\ Calling =>
           /\ r.how # "undefined"
           /\ r.how = "run" /\ r.value # NULL => Readable(Now, r.value)
  BY <1>1, <1>2, <1>3, GetAssignShape
<1>5. CASE r.how # "run"
  <2>1. PICK m : m = Ends(Now, r.how)
    OBVIOUS
  <2>2. Becomes(m)
    BY <1>3, <1>5, <2>1 DEF ExportName
  <2>3. r.how \in Phase /\ Now \in Memory
    BY <1>2, <1>4 DEF Phase, Well
  <2>4. m \in Memory /\ m.how = r.how /\ m.table = Now.table /\ m.shared = Now.shared
    BY <2>1, <2>3, PutHow
  <2>5. Well(m)
    BY <1>2, <2>4 DEF Well
  <2> QED
    BY <1>1, <1>2, <1>4, <1>5, <2>2, <2>4, <2>5, LineKeeps
<1>6. CASE r.how = "run"
  <2>1. PICK b \in BOOLEAN : b = (Now.shared \/ r.value # NULL)
    BY <1>2, WellTables, <1>1
  <2>2. PICK a : a = [Now EXCEPT !.shared = b]
    OBVIOUS
  <2>3. /\ a \in Memory /\ a.how = "run" /\ a.table = Now.table /\ a.text = Now.text
        /\ a.shared = b
    BY <1>2, <2>2, PutShared DEF Well
  <2>4. Well(a)
    BY <1>2, <2>3 DEF Well
  <2>5. PICK m : m = Add(a, "export", n, r.value)
    OBVIOUS
  <2>6. Becomes(m)
    BY <1>3, <1>6, <2>1, <2>2, <2>5 DEF ExportName
  <2>7. Well(m) /\ (b => m.shared) /\ m.how \in {"run", "crashed", "undefined"}
    BY <1>1, <1>2, <1>4, <2>3, <2>4, <2>5, AddShape
  <2>8. \A w, k, c : /\ At(a, w, k) = At(Now, w, k) /\ (Allocated(a, c) <=> Allocated(Now, c))
                     /\ (Readable(a, c) <=> Readable(Now, c))
    BY <2>3 DEF At, Allocated, Readable
  <2>9. ~shared => Usable(a) /\ Held(a, "export")
    BY <1>2, <2>3, <2>8 DEF Usable, Held
  <2>10. ~shared /\ Calling => m.how # "undefined"
    BY <1>1, <1>2, <1>4, <1>6, <2>3, <2>4, <2>5, <2>8, <2>9, AddUsable
  <2>11. ASSUME m.how = "run", ~m.shared PROVE Good(m, Arguments) /\ Matches(m, given)
    <3>1. ~b /\ r.value = NULL /\ ~shared
      BY <1>2, <2>1, <2>7, <2>11
    <3>2. Good(a, Arguments)
      BY <1>2, <2>3, <2>8, <3>1 DEF Good, Held, Alone, Apart
    <3>3. Matches(a, given)
      BY <1>2, <2>3, <2>8, <3>1 DEF Matches
    <3>4. New(a, Arguments, r.value)
      BY <3>1 DEF New
    <3> QED
      BY <1>2, <1>4, <2>3, <2>4, <2>5, <2>11, <3>2, <3>3, <3>4, ExportGood
  <2> QED
    BY <1>1, <1>2, <2>1, <2>6, <2>7, <2>10, <2>11, LineKeeps
<1> QED
  BY <1>5, <1>6

\* export -n n
LEMMA UnexportKeeps ==
  ASSUME Inv, NEW n \in Name, Unexport(n)
  PROVE  Inv'
<1>1. Goes /\ phase = "run" /\ Records(given) /\ "export" \in Tables
  BY DEF Unexport, Goes, Tables
<1>2. /\ Well(Now) /\ Arguments \in SUBSET Cell
      /\ Now.how = "run" /\ Now.shared = shared /\ given \in [Name -> Text \union {NULL}]
      /\ ~shared => /\ Good(Now, Arguments) /\ Matches(Now, given) /\ Held(Now, "export")
  BY <1>1, SoundNow
<1>3. PICK m : m = Drop(Now, n)
  OBVIOUS
<1>4. Becomes(m)
  BY <1>3 DEF Unexport
<1>5. /\ Well(m) /\ m.shared = shared /\ m.how \in {"run", "undefined"}
      /\ Held(Now, "export") => m.how = "run"
  BY <1>2, <1>3, DropShape
<1>6. m.how = "run" /\ ~m.shared => Good(m, Arguments) /\ Matches(m, given)
  BY <1>2, <1>3, <1>5, DropMatches
<1> QED
  BY <1>1, <1>2, <1>4, <1>5, <1>6, LineKeeps

\* A builtin's word t is expanded, then n is assigned the string c.
LEMMA WordAssigned ==
  ASSUME Inv, phase = "run", NEW c \in Cell, NEW d \in Cell, Fresh(c, d), NEW n \in Name,
         NEW t \in Texts, Word(t).how = "run",
         NEW a, a = Alloc(Now, c, Word(t).value), NEW b, b = Add(a, "var", n, c),
         NEW g, g = [given EXCEPT ![n] = Word(t).value]
  PROVE  /\ Well(b) /\ (shared => b.shared) /\ b.how \in {"run", "crashed", "undefined"}
         /\ g \in [Name -> Text \union {NULL}] /\ Word(t).value \in Text
         /\ ~shared /\ Calling => b.how # "undefined"
         /\ ~shared /\ Calling /\ b.how = "run" => Usable(b) /\ Held(b, "export")
         /\ b.how = "run" /\ ~b.shared =>
              /\ Good(b, Arguments) /\ Matches(b, g)
              /\ Nobodys(b, d)
<1>1. t \in Text /\ "var" \in Tables /\ "export" \in Tables /\ NULL \notin Cell
  BY DEF Tables
<1>2. /\ Well(Now) /\ param \in Seq(Cell) /\ given \in [Name -> Text \union {NULL}]
  BY SoundNow
<1>3. Word(t).value \in Text
  BY <1>1, <1>2, WordShape
<1>4. PICK u \in Text : u = Word(t).value
  BY <1>3
<1>5. g \in [Name -> Text \union {NULL}]
  BY <1>2, <1>3
<1>6. /\ Well(a) /\ a.how = "run" /\ a.table = table /\ a.shared = shared
      /\ a.text[c] = u /\ Readable(a, c) /\ c \in Value
      /\ ~shared => /\ Good(a, Arguments) /\ New(a, Arguments, c) /\ Matches(a, given)
                    /\ Usable(a) /\ Held(a, "var") /\ Held(a, "export")
  BY <1>4, FreshGood
<1>7. Well(b) /\ (shared => b.shared) /\ b.how \in {"run", "crashed", "undefined"}
  BY <1>1, <1>2, <1>6, AddShape
<1>8. ~shared /\ Calling => b.how # "undefined"
  BY <1>1, <1>2, <1>6, AddUsable
<1>9. ~shared /\ Calling /\ b.how = "run" => Usable(b) /\ Held(b, "export")
  BY <1>2, <1>6, AddLeaves
<1>10. ASSUME b.how = "run", ~b.shared
       PROVE  Good(b, Arguments) /\ Matches(b, g) /\ Nobodys(b, d)
  <2>1. g = [given EXCEPT ![n] = a.text[c]]
    BY <1>4, <1>6
  <2>2. /\ Good(b, Arguments) /\ Matches(b, g)
        /\ \A w \in Tables : \A k \in Names(b.table[w]) :
             \/ At(b, w, k) \in {c, NULL}
             \/ k \in Names(a.table[w]) /\ At(b, w, k) = At(a, w, k)
    <3>1. ~shared
      BY <1>7, <1>10
    <3>2. /\ Good(b, Arguments) /\ Matches(b, [given EXCEPT ![n] = a.text[c]])
          /\ Adds(b, a, c)
      BY <1>2, <1>6, <1>7, <1>10, <3>1, AssignGood
    <3> QED
      BY <2>1, <3>2 DEF Adds
  <2>3. /\ d \in Cell /\ c # d
        /\ \A w \in Tables : \A k \in Names(table[w]) : At(Now, w, k) # d
    BY <1>2, FreshShape
  <2>4. \A w, k : At(a, w, k) = At(Now, w, k)
    BY <1>6 DEF At, Now
  <2> QED
    BY <1>1, <1>6, <2>2, <2>3, <2>4 DEF Nobodys
<1> QED
  BY <1>3, <1>5, <1>7, <1>8, <1>9, <1>10

\* A line whose word cannot be expanded ends the run.
LEMMA LostWordKeeps ==
  ASSUME Inv, Goes, NEW t \in Texts, Word(t).how # "run",
         Becomes(Ends(Now, Word(t).how)), NEW g, Records(g)
  PROVE  Inv'
<1>1. phase = "run" /\ t \in Text /\ "var" \in Tables
  BY DEF Goes, Tables
<1>2. /\ Well(Now) /\ param \in Seq(Cell) /\ (~shared => Usable(Now)) /\ Now.shared = shared
  BY <1>1, SoundNow
<1>3. PICK h : h = Word(t).how
  OBVIOUS
<1>4. h \in {"crashed", "undefined"} /\ (Usable(Now) /\ Calling => h # "undefined")
  BY <1>1, <1>2, <1>3, WordShape
<1>5. PICK m : m = Ends(Now, h)
  OBVIOUS
<1>6. m \in Memory /\ m.how = h /\ m.table = Now.table /\ m.shared = Now.shared
  BY <1>2, <1>4, <1>5, PutHow DEF Well, Phase
<1>7. Well(m)
  BY <1>2, <1>6 DEF Well
<1>8. Becomes(m)
  BY <1>3, <1>5
<1> QED
  BY <1>2, <1>4, <1>6, <1>7, <1>8, LineKeeps

\* export n=t
LEMMA ExportValueKeeps ==
  ASSUME Inv, NEW c \in Cell, NEW d \in Cell, Fresh(c, d), NEW n \in Name, NEW t \in Texts,
         ExportValue(n, t, c, d)
  PROVE  Inv'
<1>1. Goes /\ phase = "run" /\ "export" \in Tables /\ "var" \in Tables /\ d \in Value
  BY DEF ExportValue, Goes, Tables, Value
<1>2. PICK u : u = Word(t).value
  OBVIOUS
<1>3. PICK g : g = [given EXCEPT ![n] = u]
  OBVIOUS
<1>4. Records(g)
  BY <1>2, <1>3 DEF ExportValue, Gives
<1>5. PICK a : a = Alloc(Now, c, u)
  OBVIOUS
<1>6. PICK b : b = Add(a, "var", n, c)
  OBVIOUS
<1>7. PICK e : e = Alloc(b, d, u)
  OBVIOUS
<1>8. PICK m : m = Add(e, "export", n, d)
  OBVIOUS
<1>9. CASE Word(t).how # "run"
  <2>1. Becomes(Ends(Now, Word(t).how))
    BY <1>9 DEF ExportValue
  <2> QED
    BY <1>1, <1>4, <1>9, <2>1, LostWordKeeps
<1>10. CASE Word(t).how = "run"
  <2>1. Becomes(m)
    BY <1>2, <1>5, <1>6, <1>7, <1>8, <1>10 DEF ExportValue
  <2>2. /\ Well(b) /\ (shared => b.shared) /\ b.how \in {"run", "crashed", "undefined"}
        /\ g \in [Name -> Text \union {NULL}] /\ u \in Text
        /\ ~shared /\ Calling => b.how # "undefined"
        /\ ~shared /\ Calling /\ b.how = "run" => Usable(b) /\ Held(b, "export")
        /\ b.how = "run" /\ ~b.shared =>
             /\ Good(b, Arguments) /\ Matches(b, g)
             /\ Nobodys(b, d)
    <3>1. a = Alloc(Now, c, Word(t).value) /\ g = [given EXCEPT ![n] = Word(t).value]
      BY <1>2, <1>3, <1>5
    <3> QED
      BY <1>1, <1>2, <1>6, <1>10, <3>1, WordAssigned
  <2>3. /\ Well(Now) /\ param \in Seq(Cell) /\ Arguments \in SUBSET Cell
    BY <1>1, SoundNow
  <2>4. d \notin Arguments
    BY <2>3, FreshShape
  <2>5. /\ Well(e) /\ e.how = b.how /\ e.table = b.table /\ e.shared = b.shared
        /\ e.text[d] = u /\ Readable(e, d)
        /\ Usable(b) => Usable(e)
        /\ \A w \in Tables : Held(b, w) => Held(e, w)
    <3>1. Well(b) /\ u \in Text
      BY <2>2
    <3> QED
      BY <1>7, <3>1, AllocGood
  <2>6. ASSUME b.how = "run", ~b.shared
        PROVE  New(e, Arguments, d) /\ Good(e, Arguments) /\ Matches(e, g)
    BY <1>7, <2>2, <2>3, <2>4, <2>6, AllocGood DEF Nobodys
  <2>7. /\ Well(m) /\ (e.shared => m.shared)
        /\ e.how = "run" => m.how \in {"run", "crashed", "undefined"}
        /\ e.how # "run" => m = e
    BY <1>1, <1>8, <2>3, <2>5, AddShape
  <2>8. ASSUME ~shared, Calling PROVE m.how # "undefined"
    <3>1. CASE b.how # "run"
      BY <2>2, <2>5, <2>7, <2>8, <3>1
    <3>2. CASE b.how = "run"
      BY <1>1, <1>8, <2>2, <2>3, <2>5, <2>8, <3>2, AddUsable
    <3> QED
      BY <3>1, <3>2
  <2>9. ASSUME m.how = "run", ~m.shared PROVE Good(m, Arguments) /\ Matches(m, g)
    <3>1. b.how = "run" /\ ~b.shared /\ e.how = "run"
      BY <2>5, <2>7, <2>9
    <3> QED
      BY <1>1, <1>8, <2>3, <2>5, <2>6, <2>9, <3>1, ExportGood
  <2>10. m.how \in {"run", "crashed", "undefined"} /\ (shared => m.shared)
    BY <2>2, <2>5, <2>7
  <2> QED
    BY <1>1, <1>4, <2>1, <2>2, <2>7, <2>8, <2>9, <2>10, LineKeeps
<1> QED
  BY <1>9, <1>10

\* export -n n=t
LEMMA UnexportValueKeeps ==
  ASSUME Inv, NEW c \in Cell, NEW d \in Cell, Fresh(c, d), NEW n \in Name, NEW t \in Texts,
         UnexportValue(n, t, c)
  PROVE  Inv'
<1>1. Goes /\ phase = "run" /\ "export" \in Tables
  BY DEF UnexportValue, Goes, Tables
<1>2. PICK u : u = Word(t).value
  OBVIOUS
<1>3. PICK g : g = [given EXCEPT ![n] = u]
  OBVIOUS
<1>4. Records(g)
  BY <1>2, <1>3 DEF UnexportValue, Gives
<1>5. PICK a : a = Alloc(Now, c, u)
  OBVIOUS
<1>6. PICK b : b = Add(a, "var", n, c)
  OBVIOUS
<1>7. PICK m : m = Drop(b, n)
  OBVIOUS
<1>9. CASE Word(t).how # "run"
  <2>1. Becomes(Ends(Now, Word(t).how))
    BY <1>9 DEF UnexportValue
  <2> QED
    BY <1>1, <1>4, <1>9, <2>1, LostWordKeeps
<1>10. CASE Word(t).how = "run"
  <2>1. Becomes(m)
    BY <1>2, <1>5, <1>6, <1>7, <1>10 DEF UnexportValue
  <2>2. /\ Well(b) /\ (shared => b.shared) /\ b.how \in {"run", "crashed", "undefined"}
        /\ g \in [Name -> Text \union {NULL}]
        /\ ~shared /\ Calling => b.how # "undefined"
        /\ ~shared /\ Calling /\ b.how = "run" => Usable(b) /\ Held(b, "export")
        /\ b.how = "run" /\ ~b.shared => Good(b, Arguments) /\ Matches(b, g)
    <3>1. a = Alloc(Now, c, Word(t).value) /\ g = [given EXCEPT ![n] = Word(t).value]
      BY <1>2, <1>3, <1>5
    <3> QED
      BY <1>1, <1>2, <1>6, <1>10, <3>1, WordAssigned
  <2>3. Arguments \in SUBSET Cell
    BY <1>1, SoundNow
  <2>4. /\ Well(m) /\ m.shared = b.shared /\ (b.how # "run" => m = b)
        /\ b.how = "run" => m.how \in {"run", "undefined"}
        /\ Held(b, "export") /\ b.how = "run" => m.how = "run"
    BY <1>7, <2>2, DropShape
  <2>5. m.how \in {"run", "crashed", "undefined"} /\ (shared => m.shared)
    BY <2>2, <2>4
  <2>6. ~shared /\ Calling => m.how # "undefined"
    BY <2>2, <2>4
  <2>7. ASSUME m.how = "run", ~m.shared PROVE Good(m, Arguments) /\ Matches(m, g)
    <3>1. b.how = "run" /\ ~b.shared
      BY <2>4, <2>7
    <3> QED
      BY <1>7, <2>2, <2>3, <2>7, <3>1, DropMatches
  <2> QED
    BY <1>1, <1>4, <2>1, <2>2, <2>4, <2>5, <2>6, <2>7, LineKeeps
<1> QED
  BY <1>9, <1>10

----------------------------------------------------------------------------
(* Calls, returns and what changes no table.                               *)

\* The strings of the entries stay what they are, and args are nobody else's.
LEMMA Settled ==
  ASSUME NEW m, NEW q, q.table = m.table, NEW args, Good(m, {}),
         \A w \in Tables : \A k \in Names(m.table[w]) :
           At(m, w, k) \in Cell => q.text[At(m, w, k)] = m.text[At(m, w, k)],
         \A c \in args : Allocated(q, c) /\ Nobodys(m, c)
  PROVE  Good(q, args) /\ \A g : Matches(m, g) => Matches(q, g)
<1>1. \A w, k : At(q, w, k) = At(m, w, k)
  BY DEF At
<1>2. \A w \in Tables : Held(q, w)
  BY <1>1 DEF Good, Held, Allocated
<1>3. Alone(q)
  BY <1>1 DEF Good, Alone
<1>4. Apart(q, args)
  BY <1>1 DEF Apart, Nobodys
<1>5. "var" \in Tables
  BY DEF Tables
<1>6. \A n \in Names(m.table["var"]) : At(m, "var", n) # NULL => At(m, "var", n) \in Cell
  BY <1>5 DEF Good, Held, Allocated
<1>7. ASSUME NEW g, Matches(m, g) PROVE Matches(q, g)
  BY <1>1, <1>5, <1>6, <1>7 DEF Matches
<1> QED
  BY <1>2, <1>3, <1>4, <1>7 DEF Good

LEMMA GoodAlone ==
  ASSUME NEW m, NEW args, Good(m, args)
  PROVE  Good(m, {}) /\ \A c \in args : Allocated(m, c) /\ Nobodys(m, c)
BY DEF Good, Apart, Nobodys

LEMMA GoodIsOwned ==
  ASSUME Inv, ~shared
  PROVE  Owned
<1>1. Well(Now) /\ Good(Now, Arguments)
  BY WellNow DEF Inv
<1>2. \A w \in Tables : table[w] \in Table(Value) /\ Sorted(table[w])
  BY <1>1, WellTables DEF Now
<1>3. ASSUME NEW w \in Tables, NEW b \in Bucket, NEW i \in DOMAIN table[w].chain[b]
      PROVE  LET e == table[w].chain[b][i]
             IN /\ e.name \in Names(table[w]) /\ hash[e.name] = b /\ Place(table[w], e.name) = i
                /\ e.value = At(Now, w, e.name)
  <2>1. table[w] \in Table(Value) /\ Sorted(table[w])
    BY <1>2
  <2>2. At(Now, w, table[w].chain[b][i].name) = ValueOf(table[w], table[w].chain[b][i].name)
    BY DEF At, Now
  <2> QED
    BY <2>1, <2>2, EntryIsFound
<1>4. Now.table = table
  BY DEF Now
<1>5. ASSUME NEW w \in Tables, NEW b \in Bucket, NEW i \in DOMAIN table[w].chain[b],
             Entry(w, b, i).value # NULL
      PROVE  /\ Allocated(Now, Entry(w, b, i).value)
             /\ \A x \in Tables, a \in Bucket : \A j \in DOMAIN table[x].chain[a] :
                  Entry(x, a, j).value = Entry(w, b, i).value => x = w /\ a = b /\ j = i
  <2>1. PICK n : n = table[w].chain[b][i].name
    OBVIOUS
  <2>2. /\ n \in Names(table[w]) /\ hash[n] = b /\ Place(table[w], n) = i
        /\ Entry(w, b, i).value = At(Now, w, n)
    BY <1>3, <2>1 DEF Entry
  <2>3. Allocated(Now, Entry(w, b, i).value)
    BY <1>1, <1>4, <1>5, <2>2 DEF Good, Held
  <2>4. ASSUME NEW x \in Tables, NEW a \in Bucket, NEW j \in DOMAIN table[x].chain[a],
               Entry(x, a, j).value = Entry(w, b, i).value
        PROVE  x = w /\ a = b /\ j = i
    <3>1. PICK k : k = table[x].chain[a][j].name
      OBVIOUS
    <3>2. /\ k \in Names(table[x]) /\ hash[k] = a /\ Place(table[x], k) = j
          /\ Entry(x, a, j).value = At(Now, x, k)
      BY <1>3, <3>1 DEF Entry
    <3>3. Alone(Now)
      BY <1>1 DEF Good
    <3>4. At(Now, w, n) # NULL /\ At(Now, w, n) = At(Now, x, k)
      BY <1>5, <2>2, <2>4, <3>2
    <3>5. w = x /\ n = k
      BY <1>4, <2>2, <3>2, <3>3, <3>4 DEF Alone
    <3> QED
      BY <2>2, <3>2, <3>5
  <2> QED
    BY <2>3, <2>4
<1> QED
  BY <1>5 DEF Owned

\* A step that changes no table
LEMMA QuietKeeps ==
  ASSUME Inv, phase = "run", phase' \in Phase, UNCHANGED <<table, shared, given>>,
         text' \in [Cell -> Text \union {Released}], param' \in Seq(Cell),
         live' \in BOOLEAN, depth' \in 0..MaxDepth, lines' \in 0..MaxLines,
         ~shared => Good(Now', Arguments') /\ \A g : Matches(Now, g) => Matches(Now', g),
         ~shared /\ phase' = "undefined" => ~live' /\ (param' # <<>> \/ depth' > 0)
  PROVE  Inv'
<1>1. TypeOK'
  BY DEF Inv, TypeOK, Phase
<1>2. (\A w \in Tables : Sorted(table[w]))'
  BY DEF Inv
<1>3. (~shared => Good(Now, Arguments))'
  OBVIOUS
<1>4. UsesOnlyOwned'
  BY DEF UsesOnlyOwned
<1>5. (phase = "run" /\ ~shared => Matches(Now, given))'
  BY DEF Inv
<1> QED
  BY <1>1, <1>2, <1>3, <1>4, <1>5 DEF Inv

LEMMA CallKeeps ==
  ASSUME Inv, NEW c \in Cell, NEW d \in Cell, Fresh(c, d), NEW args \in Arg, Call(args, c)
  PROVE  Inv'
<1>1. /\ phase = "run" /\ lines' \in 0..MaxLines /\ depth' \in 0..MaxDepth /\ live' = TRUE
      /\ phase' = phase /\ UNCHANGED <<table, shared, given>>
  BY DEF Call, Goes, Inv, TypeOK
<1>2. /\ TypeOK /\ Well(Now) /\ Now.how = "run" /\ Now.table = table /\ Now.shared = shared
      /\ Now.text = text /\ text \in [Cell -> Text \union {Released}]
      /\ ~shared => Good(Now, Arguments)
  BY <1>1, SoundNow DEF TypeOK, Now
<1>3. /\ c \notin Arguments
      /\ \A w \in Tables : \A k \in Names(table[w]) : At(Now, w, k) # c
  BY <1>2, FreshShape
<1>4. PICK kept : kept = Strings(table) \union {param'[i] : i \in DOMAIN param'}
  OBVIOUS
<1>5. Now'.table = table /\ Now'.text = text'
  BY <1>1 DEF Now
<1>6. \A w \in Tables : \A k \in Names(table[w]) : At(Now, w, k) \in Strings(table)
  BY <1>2, StringsAreValues
<1>7. CASE args = <<>>
  <2>1. param' = <<>> /\ param' \in Seq(Cell) /\ text' = Reached(Now, kept)
    BY <1>4, <1>7 DEF Call
  <2>2. text' \in [Cell -> Text \union {Released}]
    BY <1>2, <2>1 DEF Reached
  <2>3. Arguments' = {}
    BY <2>1 DEF Arguments
  <2>4. \A w \in Tables : \A k \in Names(table[w]) :
          At(Now, w, k) \in Cell => text'[At(Now, w, k)] = text[At(Now, w, k)]
    BY <1>2, <1>4, <1>6, <2>1 DEF Reached
  <2>5. ~shared => Good(Now', Arguments') /\ \A g : Matches(Now, g) => Matches(Now', g)
    BY <1>2, <1>5, <2>3, <2>4, GoodAlone, Settled
  <2> QED
    BY <1>1, <2>1, <2>2, <2>5, QuietKeeps DEF Phase
<1>8. CASE args # <<>>
  <2>1. PICK t \in Texts : args = <<t>>
    BY <1>8 DEF Arg
  <2>2. PICK a : a = Alloc(Now, c, t)
    OBVIOUS
  <2>3. param' = <<c>> /\ param' \in Seq(Cell) /\ text' = Reached(a, kept)
    BY <1>4, <1>8, <2>1, <2>2 DEF Call
  <2>4. /\ a \in Memory /\ \A x \in Cell : a.text[x] = IF x = c THEN t ELSE text[x]
    BY <1>2, <2>2, AllocShape DEF Well
  <2>5. text' \in [Cell -> Text \union {Released}]
    BY <2>3, <2>4 DEF Reached, Memory
  <2>6. Arguments' = {c} /\ c \in kept
    <3>1. {param'[i] : i \in DOMAIN param'} = {c}
      BY <2>3
    <3> QED
      BY <1>1, <1>4, <3>1 DEF Arguments
  <2>7. text'[c] = t /\ t # Released
    BY <2>3, <2>4, <2>6 DEF Reached
  <2>8. \A w \in Tables : \A k \in Names(table[w]) :
          At(Now, w, k) \in Cell => text'[At(Now, w, k)] = text[At(Now, w, k)]
    BY <1>3, <1>4, <1>6, <2>3, <2>4 DEF Reached
  <2>9. Allocated(Now', c) /\ Nobodys(Now, c)
    BY <1>2, <1>3, <1>5, <2>7 DEF Allocated, Nobodys
  <2>10. ~shared => Good(Now', Arguments') /\ \A g : Matches(Now, g) => Matches(Now', g)
    BY <1>2, <1>5, <2>6, <2>8, <2>9, GoodAlone, Settled
  <2> QED
    BY <1>1, <2>3, <2>5, <2>10, QuietKeeps DEF Phase
<1> QED
  BY <1>7, <1>8

LEMMA ReturnKeeps ==
  ASSUME Inv, Return
  PROVE  Inv'
<1>1. /\ phase = "run" /\ lines' \in 0..MaxLines /\ depth > 0
      /\ param' = param /\ UNCHANGED <<table, shared, given>>
  BY DEF Return, Goes, Inv, TypeOK
<1>2. /\ TypeOK /\ Well(Now) /\ Now.table = table /\ Now.text = text
      /\ text \in [Cell -> Text \union {Released}] /\ param \in Seq(Cell) /\ live \in BOOLEAN
      /\ depth \in 0..MaxDepth
      /\ ~shared => Good(Now, Arguments)
  BY <1>1, SoundNow DEF TypeOK, Now
<1>3. Now'.table = table /\ Now'.text = text'
  BY <1>1 DEF Now
<1>4. CASE /\ live /\ text' = [c \in Cell |-> IF c \in Arguments THEN Released ELSE text[c]]
           /\ live' = FALSE /\ depth' = depth - 1 /\ phase' = phase
  <2>1. Arguments' = {}
    BY <1>4 DEF Arguments
  <2>2. text' \in [Cell -> Text \union {Released}] /\ depth' \in 0..MaxDepth
    BY <1>1, <1>2, <1>4
  <2>3. ASSUME ~shared
        PROVE  \A w \in Tables : \A k \in Names(table[w]) :
                 At(Now, w, k) \in Cell => text'[At(Now, w, k)] = text[At(Now, w, k)]
    <3>1. \A c \in Arguments : Nobodys(Now, c)
      BY <1>2, <2>3, GoodAlone
    <3> QED
      BY <1>2, <1>4, <3>1 DEF Nobodys
  <2>4. ~shared => Good(Now', Arguments') /\ \A g : Matches(Now, g) => Matches(Now', g)
    BY <1>2, <1>3, <2>1, <2>3, GoodAlone, Settled
  <2> QED
    BY <1>1, <1>2, <1>4, <2>2, <2>4, QuietKeeps DEF Phase
<1>5. CASE /\ ~live \/ \E i \in DOMAIN param : ~Allocated(Now, param[i])
           /\ phase' = "undefined" /\ UNCHANGED <<text, live, depth>>
  <2>1. Arguments' = Arguments
    BY <1>1, <1>5 DEF Arguments
  <2>2. ~shared => ~live
    BY <1>2, <1>5, GoodAlone DEF Arguments
  <2>3. ASSUME ~shared PROVE Good(Now', Arguments') /\ \A g : Matches(Now, g) => Matches(Now', g)
    <3>1. Arguments = {}
      BY <2>2, <2>3 DEF Arguments
    <3> QED
      BY <1>2, <1>3, <1>5, <2>1, <2>3, <3>1, GoodAlone, Settled
  <2> QED
    BY <1>1, <1>2, <1>5, <2>2, <2>3, QuietKeeps DEF Phase
<1> QED
  BY <1>4, <1>5 DEF Return

\* A step that only looks at the memory
LEMMA LookKeeps ==
  ASSUME Inv, phase = "run", phase' \in Phase,
         UNCHANGED <<table, text, shared, calls, lines, given>>,
         ~shared /\ Calling => phase' # "undefined"
  PROVE  Inv'
<1>1. UNCHANGED <<table, text, shared, param, live, depth, lines, given>>
  BY DEF calls
<1>2. /\ TypeOK /\ text \in [Cell -> Text \union {Released}] /\ param \in Seq(Cell)
      /\ live \in BOOLEAN /\ depth \in 0..MaxDepth /\ lines \in 0..MaxLines
      /\ ~shared => Good(Now, Arguments)
  BY DEF Inv, TypeOK
<1>3. Now'.table = Now.table /\ Now'.text = Now.text /\ Arguments' = Arguments
  BY <1>1 DEF Now, Arguments
<1>4. ASSUME ~shared PROVE Good(Now', Arguments') /\ \A g : Matches(Now, g) => Matches(Now', g)
  <2>1. Good(Now, {}) /\ \A c \in Arguments : Allocated(Now, c) /\ Nobodys(Now, c)
    BY <1>2, <1>4, GoodAlone
  <2>2. \A c \in Arguments : Allocated(Now', c)
    BY <1>3, <2>1 DEF Allocated
  <2> QED
    BY <1>3, <2>1, <2>2, Settled
<1>5. ~shared /\ phase' = "undefined" => ~live' /\ (param' # <<>> \/ depth' > 0)
  BY <1>1, <1>2 DEF Calling
<1> QED
  BY <1>1, <1>2, <1>4, <1>5, QuietKeeps

LEMMA PrintKeeps ==
  ASSUME Inv, PrintExports
  PROVE  Inv'
<1>1. phase = "run" /\ phase' \in Phase /\ "export" \in Tables
  BY DEF PrintExports, Phase, Tables
<1>2. /\ Well(Now) /\ Now.table = table /\ (~shared => Held(Now, "export"))
  BY <1>1, SoundNow
<1>3. ASSUME ~shared, NEW b \in Bucket, NEW i \in DOMAIN table["export"].chain[b]
      PROVE  LET v == table["export"].chain[b][i].value IN v = NULL \/ Readable(Now, v)
  <2>1. table["export"] \in Table(Value) /\ Sorted(table["export"])
    BY <1>1, <1>2, WellTables
  <2>2. PICK k : k = table["export"].chain[b][i].name
    OBVIOUS
  <2>3. /\ k \in Names(table["export"])
        /\ table["export"].chain[b][i].value = ValueOf(table["export"], k)
    BY <2>1, <2>2, EntryIsFound
  <2>4. table["export"].chain[b][i].value = At(Now, "export", k)
    BY <1>2, <2>3 DEF At
  <2> QED
    BY <1>2, <1>3, <2>3, <2>4 DEF Held, Readable
<1>4. ~shared => phase' # "undefined"
  BY <1>3 DEF PrintExports
<1> QED
  BY <1>1, <1>4, LookKeeps DEF PrintExports

LEMMA ExpandKeeps ==
  ASSUME Inv, NEW x \in Name \union {First}, Expand(x)
  PROVE  Inv'
<1>1. phase = "run" /\ phase' = Word(Ref(x)).how
  BY DEF Expand
<1>2. Ref(x) \in Text
  BY DEF Text, Refs
<1>3. Well(Now) /\ param \in Seq(Cell) /\ (~shared => Usable(Now))
  BY <1>1, SoundNow
<1>4. /\ phase' \in {"run", "crashed", "undefined"}
      /\ Usable(Now) /\ Calling => phase' # "undefined"
  BY <1>1, <1>2, <1>3, WordShape
<1> QED
  BY <1>1, <1>3, <1>4, LookKeeps DEF Expand, Phase

LEMMA ExitKeeps ==
  ASSUME Inv, Exit
  PROVE  Inv'
<1>1. phase = "run" /\ phase' \in Phase /\ (Owned => phase' # "undefined")
  BY DEF Exit, Phase
<1> QED
  BY <1>1, GoodIsOwned, LookKeeps DEF Exit

----------------------------------------------------------------------------
(* The theorems.                                                           *)

LEMMA InvInit == Init => Inv
<1> SUFFICES ASSUME Init PROVE Inv
  OBVIOUS
<1>1. \A w \in Tables : table[w] = NewTable
  BY DEF Init
<1>2. NewTable \in Table(Value) /\ Sorted(NewTable) /\ Headed(NewTable) /\ Names(NewTable) = {}
  BY NewTableProperties
<1>3. table \in [Tables -> [chain : [Bucket -> Seq(Entered)], headless : SUBSET Bucket]]
  BY <1>2 DEF Init, Table, EntryOf, Entered
<1>4. \A w \in Tables : \A b \in table[w].headless : table[w].chain[b] = <<>>
  BY <1>1, <1>2 DEF Headed
<1>5. /\ param \in Seq(Cell) /\ live \in BOOLEAN /\ depth \in 0..MaxDepth /\ lines \in 0..MaxLines
      /\ given \in [Name -> Text \union {NULL}] /\ shared \in BOOLEAN
      /\ text \in [Cell -> Text \union {Released}]
  <2>1. param \in Seq(Cell) /\ live \in BOOLEAN /\ shared \in BOOLEAN
    <3>1. param = <<>> /\ live \in BOOLEAN /\ shared \in BOOLEAN
      BY DEF Init
    <3>2. <<>> \in Seq(Cell)
      OBVIOUS
    <3> QED
      BY <3>1, <3>2
  <2>2. depth \in 0..MaxDepth /\ lines \in 0..MaxLines
    BY DEF Init
  <2>3. given \in [Name -> Text \union {NULL}] /\ text \in [Cell -> Text \union {Released}]
    BY DEF Init
  <2> QED
    BY <2>1, <2>2, <2>3
<1>6. TypeOK
  BY <1>3, <1>4, <1>5 DEF Init, TypeOK
<1>7. \A w \in Tables : Sorted(table[w]) /\ Names(table[w]) = {}
  BY <1>1, <1>2
<1>8. Now.table = table /\ Arguments = {} /\ "var" \in Tables
  BY DEF Now, Arguments, Init, Tables
<1>9. Good(Now, Arguments)
  BY <1>7, <1>8 DEF Good, Held, Alone, Apart
<1>10. Matches(Now, given)
  BY <1>7, <1>8 DEF Matches, Init
<1>11. UsesOnlyOwned
  BY DEF Init, UsesOnlyOwned
<1> QED
  BY <1>6, <1>7, <1>9, <1>10, <1>11 DEF Inv

LEMMA InvNext == Inv /\ [Next]_vars => Inv'
<1> SUFFICES ASSUME Inv, [Next]_vars PROVE Inv'
  OBVIOUS
<1>1. ASSUME NEW c \in Cell, NEW d \in Cell, Fresh(c, d), NEW n \in Name, NEW t \in Texts,
             Assign(n, t, c) \/ ExportValue(n, t, c, d) \/ UnexportValue(n, t, c)
      PROVE  Inv'
  BY <1>1, AssignKeeps, ExportValueKeeps, UnexportValueKeeps
<1>2. ASSUME NEW c \in Cell, NEW d \in Cell, Fresh(c, d), NEW args \in Arg, Call(args, c)
      PROVE  Inv'
  BY <1>2, CallKeeps
<1>3. ASSUME NEW n \in Name, ExportName(n) \/ Unexport(n) PROVE Inv'
  BY <1>3, ExportNameKeeps, UnexportKeeps
<1>4. ASSUME NEW x \in Name \union {First}, Expand(x) PROVE Inv'
  BY <1>4, ExpandKeeps
<1>5. ASSUME Return \/ PrintExports \/ Exit PROVE Inv'
  BY <1>5, ReturnKeeps, PrintKeeps, ExitKeeps
<1>6. CASE UNCHANGED vars
  <2>1. /\ UNCHANGED <<phase, table, text, param, live, depth, lines, shared, given>>
    BY <1>6 DEF vars, calls
  <2>2. TypeOK' /\ (\A w \in Tables : Sorted(table[w]))' /\ UsesOnlyOwned'
    BY <2>1 DEF Inv, TypeOK, UsesOnlyOwned
  <2>3. Now' = Now /\ Arguments' = Arguments
    BY <2>1 DEF Now, Arguments
  <2>4. (~shared => Good(Now, Arguments))'
    BY <2>1, <2>3 DEF Inv
  <2>5. (phase = "run" /\ ~shared => Matches(Now, given))'
    BY <2>1, <2>3 DEF Inv
  <2> QED
    BY <2>2, <2>4, <2>5 DEF Inv
<1> QED
  BY <1>1, <1>2, <1>3, <1>4, <1>5, <1>6 DEF Next

LEMMA Invariance == Spec => []Inv
  BY InvInit, InvNext, PTL DEF Spec

\* The tables, strings and calls are what they are declared to be, whatever the
\* names, the hash function and the number of strings.
THEOREM TypeCorrect == Spec => []TypeOK
<1>1. Inv => TypeOK
  BY DEF Inv
<1> QED
  BY <1>1, Invariance, PTL

\* add_assignment() and remove_assignment() never leave a name two entries in a
\* table, nor one in a chain it is not looked for in.
THEOREM OneEntryAlways == Spec => []OneEntry
<1>1. Inv => OneEntry
  BY DEF Inv, Sorted, OneEach, OneEntry, Entry
<1> QED
  BY <1>1, Invariance, PTL

\* Every string of a table has one owner, and is allocated, as long as no entry
\* was given a string that had one.
THEOREM OwnedAlways == Spec => []OwnedUnlessShared
<1>1. Inv => OwnedUnlessShared
  BY GoodIsOwned DEF OwnedUnlessShared
<1> QED
  BY <1>1, Invariance, PTL

\* A released string is used only after two entries shared one, or through the
\* parameters of a function that returned.
THEOREM UsesOnlyOwnedAlways == Spec => []UsesOnlyOwned
<1>1. Inv => UsesOnlyOwned
  BY DEF Inv
<1> QED
  BY <1>1, Invariance, PTL

\* What a variable holds is what it was last assigned, as long as no string has
\* two owners: nothing done to the names that share its bucket, to exported names
\* or to parameters changes it.
THEOREM LastAssignedAlways == Spec => []LastAssigned
<1>1. ASSUME Inv PROVE LastAssigned
  <2>1. ASSUME phase = "run", ~shared, NEW n \in Name
        PROVE  IF Has(table["var"], n)
                 THEN LET v == ValueOf(table["var"], n)
                      IN IF v = NULL THEN given[n] \in Refs ELSE TextOf(Now, v) = given[n]
                 ELSE given[n] = NULL
    <3>1. Matches(Now, given) /\ Good(Now, Arguments) /\ "var" \in Tables
      BY <1>1, <2>1 DEF Inv, Tables
    <3>2. Now.table["var"] = table["var"] /\ Now.text = text
      BY DEF Now
    <3>3. Has(table["var"], n) <=> n \in Names(table["var"])
      BY DEF Names
    <3>4. At(Now, "var", n) = ValueOf(table["var"], n)
      BY <3>2 DEF At
    <3>5. /\ n \in Names(table["var"]) /\ ValueOf(table["var"], n) # NULL
          => ValueOf(table["var"], n) # Literal
      BY <3>1, <3>2, <3>4 DEF Good, Held, Allocated
    <3> QED
      BY <3>1, <3>2, <3>3, <3>4, <3>5 DEF Matches, TextOf
  <2> QED
    BY <2>1 DEF LastAssigned
<1> QED
  BY <1>1, Invariance, PTL

----------------------------------------------------------------------------
(* The names a line leaves in the tables.                                  *)

\* A step that comes to its end leaves in r every name m has.
Grows(r, m) ==
  r.how = "run" =>
    m.how = "run" /\ \A x \in Tables : Names(m.table[x]) \subseteq Names(r.table[x])

LEMMA AddGrows ==
  ASSUME NEW m, Well(m), param \in Seq(Cell), NEW w \in Tables,
         NEW n \in Name, NEW v \in Value
  PROVE  Grows(Add(m, w, n, v), m)
<1> SUFFICES ASSUME Add(m, w, n, v).how = "run"
             PROVE  /\ m.how = "run"
                    /\ \A x \in Tables : Names(m.table[x]) \subseteq Names(Add(m, w, n, v).table[x])
  BY DEF Grows
<1>1. m.how # "run" => Add(m, w, n, v) = m
  BY AddShape
<1>2. m.how = "run"
  BY <1>1
<1>3. PICK y \in Value : Written(Add(m, w, n, v), m, w, n, y)
  BY <1>2, AddShape
<1> QED
  BY <1>2, <1>3 DEF Written

LEMMA AddWell ==
  ASSUME NEW m, Well(m), param \in Seq(Cell), NEW w \in Tables,
         NEW n \in Name, NEW v \in Value
  PROVE  Well(Add(m, w, n, v))
BY AddShape

\* No variable is lost, and of the exported names only those in gone.
Stay(gone) ==
  /\ Names(table["var"]) \subseteq Names(table'["var"])
  /\ Names(table["export"]) \subseteq Names(table'["export"]) \union gone

LEMMA LineStays ==
  ASSUME NEW m, Becomes(m), NEW gone,
         m.how = "run" => /\ Names(table["var"]) \subseteq Names(m.table["var"])
                          /\ Names(table["export"]) \subseteq Names(m.table["export"]) \union gone
  PROVE  Stay(gone)
BY DEF Becomes, Stay

LEMMA AssignStays ==
  ASSUME Inv, NEW c \in Cell, NEW d \in Cell, Fresh(c, d), NEW n \in Name, NEW t \in Texts,
         Assign(n, t, c)
  PROVE  Stay({})
<1>1. phase = "run" /\ t \in Text /\ "var" \in Tables /\ "export" \in Tables
  BY DEF Assign, Goes, Tables
<1>2. PICK a : a = Alloc(Now, c, t)
  OBVIOUS
<1>3. PICK m : m = Add(a, "var", n, c)
  OBVIOUS
<1>4. Well(a) /\ a.table = table /\ c \in Value /\ param \in Seq(Cell)
  BY <1>1, <1>2, FreshGood, SoundNow
<1>5. Grows(Add(a, "var", n, c), a)
  BY <1>1, <1>4, AddGrows
<1>6. Becomes(m)
  BY <1>2, <1>3 DEF Assign
<1>7. m.how = "run" => \A x \in Tables : Names(a.table[x]) \subseteq Names(m.table[x])
  BY <1>3, <1>5 DEF Grows
<1> QED
  BY <1>1, <1>4, <1>6, <1>7, LineStays

LEMMA WordGrows ==
  ASSUME Inv, phase = "run", NEW c \in Cell, NEW d \in Cell, Fresh(c, d), NEW n \in Name,
         NEW t \in Texts, Word(t).how = "run",
         NEW a, a = Alloc(Now, c, Word(t).value), NEW b, b = Add(a, "var", n, c)
  PROVE  /\ Well(b) /\ Word(t).value \in Text
         /\ b.how = "run" => \A x \in Tables : Names(table[x]) \subseteq Names(b.table[x])
<1>1. t \in Text /\ "var" \in Tables
  BY DEF Tables
<1>2. Well(Now) /\ param \in Seq(Cell)
  BY SoundNow
<1>3. Word(t).value \in Text
  BY <1>1, <1>2, WordShape
<1>4. PICK u \in Text : u = Word(t).value
  BY <1>3
<1>5. Well(a) /\ a.table = table /\ c \in Value
  BY <1>4, FreshGood
<1>6. Grows(Add(a, "var", n, c), a)
  BY <1>1, <1>2, <1>5, AddGrows
<1>7. Well(Add(a, "var", n, c))
  BY <1>1, <1>2, <1>5, AddWell
<1>8. b.how = "run" => \A x \in Tables : Names(a.table[x]) \subseteq Names(b.table[x])
  BY <1>6 DEF Grows
<1> QED
  BY <1>3, <1>5, <1>7, <1>8

LEMMA ExportValueStays ==
  ASSUME Inv, NEW c \in Cell, NEW d \in Cell, Fresh(c, d), NEW n \in Name, NEW t \in Texts,
         ExportValue(n, t, c, d)
  PROVE  Stay({})
<1>1. phase = "run" /\ "var" \in Tables /\ "export" \in Tables /\ d \in Value
  BY DEF ExportValue, Goes, Tables, Value
<1>2. param \in Seq(Cell) /\ Now.how = "run"
  BY <1>1, SoundNow
<1>3. CASE Word(t).how # "run"
  <2>1. Becomes(Ends(Now, Word(t).how))
    BY <1>3 DEF ExportValue
  <2>2. Ends(Now, Word(t).how).how # "run"
    BY <1>3 DEF Ends, Now
  <2> QED
    BY <2>1, <2>2, LineStays
<1>4. CASE Word(t).how = "run"
  <2>1. PICK a : a = Alloc(Now, c, Word(t).value)
    OBVIOUS
  <2>2. PICK b : b = Add(a, "var", n, c)
    OBVIOUS
  <2>3. PICK u : u = Word(t).value
    OBVIOUS
  <2>4. /\ Well(b) /\ u \in Text
        /\ b.how = "run" => \A x \in Tables : Names(table[x]) \subseteq Names(b.table[x])
    BY <1>1, <1>4, <2>1, <2>2, <2>3, WordGrows
  <2>5. PICK e : e = Alloc(b, d, u)
    OBVIOUS
  <2>6. PICK m : m = Add(e, "export", n, d)
    OBVIOUS
  <2>7. Well(e) /\ e.how = b.how /\ e.table = b.table
    BY <2>4, <2>5, AllocGood
  <2>8. Grows(Add(e, "export", n, d), e)
    BY <1>1, <1>2, <2>7, AddGrows
  <2>9. Becomes(m)
    BY <1>4, <2>1, <2>2, <2>3, <2>5, <2>6 DEF ExportValue
  <2>10. m.how = "run" => /\ e.how = "run"
                          /\ \A x \in Tables : Names(e.table[x]) \subseteq Names(m.table[x])
    BY <2>6, <2>8 DEF Grows
  <2> QED
    BY <1>1, <2>4, <2>7, <2>9, <2>10, LineStays
<1> QED
  BY <1>3, <1>4

LEMMA ExportNameStays ==
  ASSUME Inv, NEW n \in Name, ExportName(n)
  PROVE  Stay({})
<1>1. phase = "run" /\ "export" \in Tables /\ "var" \in Tables /\ n \in Name \union {First}
  BY DEF ExportName, Goes, Tables
<1>2. Well(Now) /\ param \in Seq(Cell) /\ Now.how = "run" /\ Now.table = table
  BY <1>1, SoundNow
<1>3. PICK r : r = GetAssign(Now, n)
  OBVIOUS
<1>4. r.value \in Value
  BY <1>1, <1>2, <1>3, GetAssignShape
<1>5. CASE r.how # "run"
  <2>1. Becomes(Ends(Now, r.how))
    BY <1>3, <1>5 DEF ExportName
  <2>2. Ends(Now, r.how).how # "run"
    BY <1>5 DEF Ends, Now
  <2> QED
    BY <2>1, <2>2, LineStays
<1>6. CASE r.how = "run"
  <2>1. PICK b \in BOOLEAN : b = (Now.shared \/ r.value # NULL)
    BY <1>1, <1>2, WellTables
  <2>2. PICK a : a = [Now EXCEPT !.shared = b]
    OBVIOUS
  <2>3. a \in Memory /\ a.table = Now.table
    BY <1>2, <2>2, PutShared DEF Well
  <2>4. Well(a)
    BY <1>2, <2>3 DEF Well
  <2>5. PICK m : m = Add(a, "export", n, r.value)
    OBVIOUS
  <2>6. Grows(Add(a, "export", n, r.value), a)
    BY <1>1, <1>2, <1>4, <2>4, AddGrows
  <2>7. Becomes(m)
    BY <1>3, <1>6, <2>1, <2>2, <2>5 DEF ExportName
  <2>8. m.how = "run" => \A x \in Tables : Names(a.table[x]) \subseteq Names(m.table[x])
    BY <2>5, <2>6 DEF Grows
  <2> QED
    BY <1>1, <1>2, <2>3, <2>7, <2>8, LineStays
<1> QED
  BY <1>5, <1>6

LEMMA UnexportStays ==
  ASSUME Inv, NEW n \in Name, Unexport(n)
  PROVE  Stay({n})
<1>1. phase = "run"
  BY DEF Unexport, Goes
<1>2. Well(Now) /\ Now.how = "run" /\ Now.table = table
  BY <1>1, SoundNow
<1>3. PICK m : m = Drop(Now, n)
  OBVIOUS
<1>4. m.how = "run" => /\ m.table["var"] = table["var"]
                       /\ Names(m.table["export"]) = Names(table["export"]) \ {n}
  BY <1>2, <1>3, DropShape
<1>5. Becomes(m)
  BY <1>3 DEF Unexport
<1> QED
  BY <1>4, <1>5, LineStays

LEMMA UnexportValueStays ==
  ASSUME Inv, NEW c \in Cell, NEW d \in Cell, Fresh(c, d), NEW n \in Name, NEW t \in Texts,
         UnexportValue(n, t, c)
  PROVE  Stay({n})
<1>1. phase = "run" /\ "var" \in Tables /\ "export" \in Tables
  BY DEF UnexportValue, Goes, Tables
<1>2. CASE Word(t).how # "run"
  <2>1. Becomes(Ends(Now, Word(t).how))
    BY <1>2 DEF UnexportValue
  <2>2. Ends(Now, Word(t).how).how # "run"
    BY <1>2 DEF Ends, Now
  <2> QED
    BY <2>1, <2>2, LineStays
<1>3. CASE Word(t).how = "run"
  <2>1. PICK a : a = Alloc(Now, c, Word(t).value)
    OBVIOUS
  <2>2. PICK b : b = Add(a, "var", n, c)
    OBVIOUS
  <2>3. /\ Well(b)
        /\ b.how = "run" => \A x \in Tables : Names(table[x]) \subseteq Names(b.table[x])
    BY <1>1, <1>3, <2>1, <2>2, WordGrows
  <2>4. PICK m : m = Drop(b, n)
    OBVIOUS
  <2>5. m.how = "run" => /\ b.how = "run" /\ m.table["var"] = b.table["var"]
                         /\ Names(m.table["export"]) = Names(b.table["export"]) \ {n}
    <3>1. b.how # "run" => m = b
      BY <2>3, <2>4, DropShape
    <3> QED
      BY <2>3, <2>4, <3>1, DropShape
  <2>6. Becomes(m)
    BY <1>3, <2>1, <2>2, <2>4 DEF UnexportValue
  <2> QED
    BY <1>1, <2>3, <2>5, <2>6, LineStays
<1> QED
  BY <1>2, <1>3

\* No sequence of assignments, exports, removals, calls and returns loses a
\* variable, and a name stays exported until it is the one that is removed, also
\* when its entry shares its bucket with others.
THEOREM OthersStayAlways == Spec => OthersStay
<1>1. ASSUME Inv, [Next]_vars
      PROVE  [/\ Defined \subseteq Defined'
              /\ \A n \in Exported \ Exported' :
                   Unexport(n) \/ \E t \in Texts, c \in Cell : UnexportValue(n, t, c)]_vars
  <2>1. Defined = Names(table["var"]) /\ Exported = Names(table["export"])
    BY DEF Defined, Exported, Names
  <2>2. Defined' = Names(table'["var"]) /\ Exported' = Names(table'["export"])
    BY DEF Defined, Exported, Names
  <2>3. CASE UNCHANGED vars
    BY <2>3
  <2>4. CASE Stay({})
    BY <2>1, <2>2, <2>4 DEF Stay
  <2>5. ASSUME NEW n \in Name, Stay({n}),
               Unexport(n) \/ \E t \in Texts, c \in Cell : UnexportValue(n, t, c)
        PROVE  /\ Defined \subseteq Defined'
               /\ \A k \in Exported \ Exported' :
                    Unexport(k) \/ \E t \in Texts, c \in Cell : UnexportValue(k, t, c)
    <3>1. \A k \in Exported \ Exported' : k = n
      BY <2>1, <2>2, <2>5 DEF Stay
    <3> QED
      BY <2>1, <2>2, <2>5, <3>1 DEF Stay
  <2>6. ASSUME NEW c \in Cell, NEW d \in Cell, Fresh(c, d), NEW n \in Name, NEW t \in Texts,
               Assign(n, t, c) \/ ExportValue(n, t, c, d)
        PROVE  Stay({})
    BY <1>1, <2>6, AssignStays, ExportValueStays
  <2>7. ASSUME NEW c \in Cell, NEW d \in Cell, Fresh(c, d), NEW n \in Name, NEW t \in Texts,
               UnexportValue(n, t, c)
        PROVE  Stay({n})
    BY <1>1, <2>7, UnexportValueStays
  <2>8. ASSUME NEW n \in Name, ExportName(n) PROVE Stay({})
    BY <1>1, <2>8, ExportNameStays
  <2>9. ASSUME NEW n \in Name, Unexport(n) PROVE Stay({n})
    BY <1>1, <2>9, UnexportStays
  <2>10. ASSUME \/ \E c \in Cell, args \in Arg : Call(args, c)
                \/ \E x \in Name \union {First} : Expand(x)
                \/ Return \/ PrintExports \/ Exit
         PROVE  Stay({})
    <3>1. table' = table
      BY <2>10 DEF Call, Expand, Return, PrintExports, Exit
    <3> QED
      BY <3>1 DEF Stay
  <2> QED
    BY <1>1, <2>3, <2>4, <2>5, <2>6, <2>7, <2>8, <2>9, <2>10 DEF Next
<1> QED
  BY <1>1, Invariance, PTL DEF Spec, OthersStay
=============================================================================
