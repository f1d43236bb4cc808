------------------------------- MODULE Aliases -------------------------------
(***************************************************************************)
(* The builtins alias and unalias (src/builtins/my_alias.c, my_unalias.c): *)
(* data->alias_tab, a table as in Assignments, and global.aliastab, the    *)
(* definitions that wait for the end of their line.                        *)
(*                                                                         *)
(* The head of a bucket that `unalias -a' emptied still points to the      *)
(* second entry, which was released: such buckets are `dangling'.  What    *)
(* an alias stands for is a name, which may be an alias, or another text.  *)
(***************************************************************************)
EXTENDS Assignments

CONSTANTS
  Text,    \* what aliases stand for; never the empty text
  prefix   \* pairs of names, the first of which the second begins with

ASSUME PrefixAssumption ==
  prefix \subseteq Name \X Name /\ \A n \in Name : <<n, n>> \in prefix

NoAliases == [table |-> NewTable, pending |-> <<>>, dangling |-> {}]

Kept(al) == [how |-> "run", aliases |-> al]
Fatal(how) == [how |-> how, aliases |-> NoAliases]

----------------------------------------------------------------------------
(* my_alias.c                                                              *)

\* alias n=t
Alias(al, n, t) == Kept([al EXCEPT !.pending = Append(@, [name |-> n, text |-> t])])

\* alias, alias -p: every chain is followed to its end.
ShowAll(al) == IF al.dangling = {} THEN Kept(al) ELSE Fatal("undefined")

\* Mutant of Commit: a name that is an alias keeps what it stands for.
CommitNew(al) ==
  LET p == al.pending[1]
  IN [table    |-> IF Has(al.table, p.name) THEN al.table ELSE Enter(al.table, p.name, p.text),
      pending  |-> Tail(al.pending),
      dangling |-> al.dangling \ {hash[p.name]}]

\* One round of the loop of add_aliases(): a nameless head is released, and what
\* it points to is forgotten.
Commit(al) ==
  LET p == al.pending[1]
  IN [table    |-> IF Has(al.table, p.name) THEN Overwrite(al.table, p.name, p.text)
                   ELSE Enter(al.table, p.name, p.text),
      pending  |-> Tail(al.pending),
      dangling |-> IF Chain(al.table, p.name) = <<>> THEN al.dangling \ {hash[p.name]}
                   ELSE al.dangling]

----------------------------------------------------------------------------
(* my_unalias.c                                                            *)

\* The names a definition waits for
Waiting(al) == {al.pending[i].name : i \in DOMAIN al.pending}

\* removed_vec(): only the first definition that waits is compared, and every
\* name that begins with its name is taken for it.
Waits(al, n) == al.pending # <<>> /\ <<al.pending[1].name, n>> \in prefix

\* remove_assignment(): its loop moves on twice a round, and sees every other
\* entry only.
Seen(al, n) == {i \in DOMAIN Chain(al.table, n) : i % 2 = 1 /\ Chain(al.table, n)[i].name = n}

\* Mutant of Dropped: a new head takes the place of the first entry in any case,
\* not only when nothing follows it.
DroppedRest(c, i) ==
  IF i = 1 THEN <<>> ELSE SubSeq(c, 1, i - 2) \o SubSeq(c, i + 1, Len(c))

\* What is left: the entry it links past is the one behind the last it saw.
Dropped(c, i) ==
  IF i = 1 THEN Tail(c) ELSE SubSeq(c, 1, i - 2) \o SubSeq(c, i + 1, Len(c))

RemoveAssignment(al, n) ==
  LET c == Chain(al.table, n)
  IN IF Seen(al, n) # {}
       THEN LET i == CHOOSE i \in Seen(al, n) : \A j \in Seen(al, n) : i <= j
            IN Kept([al EXCEPT !.table.chain[hash[n]] = Dropped(c, i)])
     ELSE IF Len(c) % 2 = 1 THEN Fatal("crashed") ELSE Kept(al)

\* unalias n
Unalias(al, n) ==
  IF Waits(al, n) THEN Kept([al EXCEPT !.pending = Tail(@)]) ELSE RemoveAssignment(al, n)

\* unalias -a: remove_all() leaves what waits.
UnaliasAll(al) ==
  IF al.dangling # {} THEN Fatal("undefined")
  ELSE Kept([al EXCEPT !.table = NewTable,
                       !.dangling = {b \in Bucket : Len(al.table.chain[b]) > 1}])

----------------------------------------------------------------------------
(* Elsewhere                                                               *)

\* get_assign_var() on a command's name follows what names stand for, and on a
\* circle it never comes back: the stack ends.
Circular(al, n) ==
  LET walk[seen \in SUBSET Name, m \in Name] ==
        /\ Has(al.table, m)
        /\ \/ m \in seen
           \/ /\ ValueOf(al.table, m) \in Name
              /\ walk[seen \union {m}, ValueOf(al.table, m)]
  IN walk[{}, n]

\* free_assignments(), at the end of the shell
Release(al) == IF al.dangling = {} THEN "ended" ELSE "undefined"
=============================================================================
