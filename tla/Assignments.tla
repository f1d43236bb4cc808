---------------------------- MODULE Assignments ----------------------------
(***************************************************************************)
(* The hash tables variables, exported names and aliases are kept in       *)
(* (src/execution/assignement.c): one chain of entries per bucket.  A new  *)
(* table has an entry without a name at the head of each chain, which the  *)
(* first name replaces: that chain is empty here.  A chain that lost its   *)
(* last entry has no head at all; its bucket is in `headless'.             *)
(***************************************************************************)
EXTENDS Integers, Sequences

CONSTANTS
  Name,    \* the names of variables
  Bucket,  \* the indices of a table
  hash     \* hash_function()

ASSUME HashAssumption == hash \in [Name -> Bucket]

\* init_assignment()
NewTable == [chain |-> [b \in Bucket |-> <<>>], headless |-> {}]

Chain(t, n) == t.chain[hash[n]]

\* Mutant of Has: the search does not go on behind the head.
HasAtHead(t, n) == Chain(t, n) # <<>> /\ Chain(t, n)[1].name = n

\* The search along a chain, and what it finds.
Has(t, n) == \E i \in DOMAIN Chain(t, n) : Chain(t, n)[i].name = n
Place(t, n) ==
  CHOOSE i \in DOMAIN Chain(t, n) :
    Chain(t, n)[i].name = n /\ \A j \in 1..i-1 : Chain(t, n)[j].name # n
ValueOf(t, n) == Chain(t, n)[Place(t, n)].value

\* A chain grows at its end; an entry gets its new value in place.
Enter(t, n, v) ==
  [t EXCEPT !.chain[hash[n]] = Append(@, [name |-> n, value |-> v])]
Overwrite(t, n, v) ==
  [t EXCEPT !.chain[hash[n]] = [@ EXCEPT ![Place(t, n)] = [name |-> n, value |-> v]]]

Without(c, i) == SubSeq(c, 1, i - 1) \o SubSeq(c, i + 1, Len(c))

\* Mutants of Unlink: the bucket of a first entry is emptied; the head is taken
\* for lost although another entry follows.
UnlinkChain(t, n) ==
  [chain |-> [t.chain EXCEPT ![hash[n]] =
                IF Place(t, n) = 1 THEN <<>> ELSE Without(@, Place(t, n))],
   headless |-> t.headless]
UnlinkHead(t, n) ==
  [chain |-> [t.chain EXCEPT ![hash[n]] = Without(@, Place(t, n))],
   headless |-> IF Place(t, n) = 1 THEN t.headless \union {hash[n]} ELSE t.headless]

Unlink(t, n) ==
  [chain |-> [t.chain EXCEPT ![hash[n]] = Without(@, Place(t, n))],
   headless |-> IF Len(Chain(t, n)) = 1 THEN t.headless \union {hash[n]}
                ELSE t.headless]
=============================================================================
