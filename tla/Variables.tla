----------------------------- MODULE Variables -----------------------------
(***************************************************************************)
(* Variables, exported names and the parameters of functions, with the     *)
(* strings they are made of: add_assignment(), get_assign(), my_export()   *)
(* and what func_execution() does to data->param.                          *)
(*                                                                         *)
(* A value is a pointer: null, a string in memory (a cell), or the empty   *)
(* string literal get_param() returns.  What a cell holds is a text: a     *)
(* name, as a value is looked up again as a name (one without a variable   *)
(* stands for any other text), a reference `$...', or nothing.  Using a    *)
(* released cell ends the run.                                             *)
(***************************************************************************)
EXTENDS Assignments

CONSTANTS
  Cell,      \* the strings that can be allocated at a time: numbers
  NULL,      \* the null pointer
  Literal,   \* the literal "" in get_param()
  First,     \* the name of the first parameter, 1
  Empty,     \* the text of the literal
  Released,  \* what a cell holds that was released, or that nobody refers to
  Texts,     \* the texts that are written in lines
  MaxDepth,  \* bound on the calls of functions inside each other
  MaxLines   \* bound on the lines that change something

Ref(x) == [ref |-> x]
Refs == {Ref(x) : x \in Name \union {First}}
Text == Name \union Refs \union {Empty}
Value == Cell \union {NULL, Literal}
Tables == {"var", "export"}

ASSUME CellAssumption == Cell \subseteq Nat /\ NULL \notin Cell /\ Literal \notin Cell
ASSUME TextAssumption ==
  Released \notin Text /\ NULL \notin Text /\ First \notin Name /\ Texts \subseteq Text
ASSUME BoundAssumption == MaxDepth \in Nat /\ MaxLines \in Nat

VARIABLES
  phase,    \* run, or how it ended: exited, crashed, undefined
  table,    \* data->var_tab and data->export_tab
  text,     \* what each cell holds
  param,    \* data->param; its length is data->nbparam
  live,     \* whether data->param is allocated
  depth,    \* calls of functions that have not returned
  lines,    \* lines that changed something, up to MaxLines
  shared,   \* history: whether an entry was given a string that has an owner
  given     \* history: the text each variable was last assigned until then

calls == <<param, live, depth>>
vars == <<phase, table, text, calls, lines, shared, given>>

Init ==
  /\ phase = "run"
  /\ table = [w \in Tables |-> NewTable]
  /\ text = [c \in Cell |-> Released]
  /\ param = <<>> /\ live = FALSE /\ depth = 0 /\ lines = 0
  /\ given = [n \in Name |-> NULL] /\ shared = FALSE

----------------------------------------------------------------------------
(* Memory, as the steps of a builtin leave it to one another.              *)

Now == [how |-> phase, table |-> table, text |-> text, shared |-> shared]

Strings(tables) ==
  {v \in Value : \E w \in Tables, b \in Bucket : \E i \in DOMAIN tables[w].chain[b] :
                   tables[w].chain[b][i].value = v}
Arguments == IF live THEN {param[i] : i \in DOMAIN param} ELSE {}
Reached(m, held) == [c \in Cell |-> IF c \in held THEN m.text[c] ELSE Released]

\* The step ends in m; no line follows one that used a released string or
\* exhausted the stack, and nothing is said of the state it leaves.
Becomes(m) ==
  /\ phase' = m.how
  /\ IF m.how = "run"
       THEN /\ table' = m.table /\ shared' = m.shared
            /\ text' = Reached(m, Strings(m.table) \union Arguments)
       ELSE UNCHANGED <<table, text, shared>>
  /\ UNCHANGED calls

Records(g) ==
  given' = IF phase' # "run" THEN given
           ELSE IF shared' THEN [n \in Name |-> NULL] ELSE g
Gives(n, t) == Records([given EXCEPT ![n] = t])

Ends(m, how) == [m EXCEPT !.how = how]
Allocated(m, v) == v \in Cell /\ m.text[v] # Released
Readable(m, v) == v = Literal \/ Allocated(m, v)
TextOf(m, v) == IF v = Literal THEN Empty ELSE m.text[v]
Free(m, v) == [m EXCEPT !.text[v] = Released]
Alloc(m, c, t) == [m EXCEPT !.text[c] = t]

\* The next two cells malloc() returns: the lowest ones nobody refers to.
Fresh(c, d) ==
  LET unused == Cell \ (Strings(table) \union Arguments)
  IN c < d /\ d \in unused /\ {e \in unused : e < d} = {c}

----------------------------------------------------------------------------
(* get_assignement.c                                                       *)

Found(v) == [how |-> "run", value |-> v]
Lost(how) == [how |-> how, value |-> NULL]

\* A variable that has a value, and the one among them that value is the name of
Stands(m, n) == Has(m.table["var"], n) /\ ValueOf(m.table["var"], n) # NULL
Onward(m, n) ==
  {k \in Name : /\ Stands(m, n) /\ Stands(m, k)
                /\ Readable(m, ValueOf(m.table["var"], n))
                /\ TextOf(m, ValueOf(m.table["var"], n)) = k}
Path(m, n) ==
  {k \in Name : \A s \in SUBSET Name :
     n \in s /\ (\A x \in s : Onward(m, x) \subseteq s) => k \in s}

\* get_assign_var(): a value is looked up in its turn, and that of the last name
\* is found; on a circle it never comes back, and the stack ends.
GetAssignVar(m, name) ==
  LET ends == {k \in Path(m, name) : Onward(m, k) = {}}
      v == ValueOf(m.table["var"], CHOOSE k \in ends : TRUE)
  IN IF ~Stands(m, name) THEN Found(NULL)
     ELSE IF ends = {} THEN Lost("crashed")
     ELSE IF Readable(m, v) THEN Found(v) ELSE Lost("undefined")

GetParam ==
  IF param = <<>> THEN Found(Literal)
  ELSE IF ~live THEN Lost("undefined") ELSE Found(param[1])

\* get_assign()
GetAssign(m, x) == IF x = First THEN GetParam ELSE GetAssignVar(m, x)

\* set_string(): what a word of a command is that consists of the text t
Word(t) ==
  IF t \notin Refs THEN Found(t)
  ELSE LET r == GetAssign(Now, t.ref)
       IN IF r.how # "run" THEN r
          ELSE IF r.value = NULL THEN Found(Empty)
          ELSE IF ~Readable(Now, r.value) THEN Lost("undefined")
          ELSE Found(TextOf(Now, r.value))

----------------------------------------------------------------------------
(* assignement.c                                                           *)

\* Mutants of Replace: the entry keeps the old value that was released; the
\* new value is dropped.
ReplaceKeepsOld(m, w, n, v) ==
  LET old == ValueOf(m.table[w], n)
  IN IF old # NULL /\ param = <<>> THEN Free(m, old)
     ELSE [m EXCEPT !.table[w] = Overwrite(@, n, v)]
ReplaceDropsNew(m, w, n, v) == m

\* already_exists() when it does: the old value is released, in a function only
\* when it is one of its parameters.
Replace(m, w, n, v) ==
  LET old == ValueOf(m.table[w], n)
      frees == old # NULL /\ (param = <<>> \/ \E i \in DOMAIN param : param[i] = old)
      done == [m EXCEPT !.table[w] = Overwrite(@, n, v)]
  IN IF \/ old # NULL /\ param # <<>> /\ ~live
        \/ frees /\ ~Allocated(m, old)
       THEN Ends(m, "undefined")
     ELSE IF frees THEN Free(done, old) ELSE done

\* A new entry, in a bucket that has lost its head or not
Insert(m, w, n, v) ==
  IF hash[n] \in m.table[w].headless THEN Ends(m, "crashed")
  ELSE [m EXCEPT !.table[w] = Enter(@, n, v)]

\* to_assign(): only a new entry gets what a reference stands for.
Assigned(m, w, n, v) ==
  IF v = NULL THEN Insert(m, w, n, v)
  ELSE IF ~Readable(m, v) THEN Ends(m, "undefined")
  ELSE IF TextOf(m, v) \notin Refs THEN Insert(m, w, n, v)
  ELSE LET r == GetAssign(m, TextOf(m, v).ref)
       IN IF r.how # "run" THEN Ends(m, r.how)
          ELSE Insert([Free(m, v) EXCEPT !.shared = @ \/ r.value # NULL], w, n, r.value)

\* add_assignment() and add_assignment_split(), on a value that is a pointer
Add(m, w, n, v) ==
  IF m.how # "run" THEN m
  ELSE IF Has(m.table[w], n) THEN Replace(m, w, n, v) ELSE Assigned(m, w, n, v)

----------------------------------------------------------------------------
(* What a line may do.                                                     *)

Goes == phase = "run" /\ lines < MaxLines /\ lines' = lines + 1

\* n=t, and a round of a for loop over n when t is not a reference
Assign(n, t, c) ==
  /\ Goes
  /\ Becomes(Add(Alloc(Now, c, t), "var", n, c))
  /\ Gives(n, t)

\* export n=t: its words are expanded first, as those of every command.
ExportValue(n, t, c, d) ==
  /\ Goes
  /\ LET m == Add(Alloc(Now, c, Word(t).value), "var", n, c)
     IN Becomes(IF Word(t).how # "run" THEN Ends(Now, Word(t).how)
                ELSE Add(Alloc(m, d, Word(t).value), "export", n, d))
  /\ Gives(n, Word(t).value)

\* export n: the entry gets the variable's own string.
ExportName(n) ==
  /\ Goes
  /\ LET r == GetAssign(Now, n)
     IN Becomes(IF r.how # "run" THEN Ends(Now, r.how)
                ELSE Add([Now EXCEPT !.shared = @ \/ r.value # NULL], "export", n, r.value))
  /\ Records(given)

\* The entry of n and its value are released.
Drop(m, n) ==
  IF m.how # "run" \/ ~Has(m.table["export"], n) THEN m
  ELSE LET v == ValueOf(m.table["export"], n)
           done == [m EXCEPT !.table["export"] = Unlink(@, n)]
       IN IF v = NULL THEN done
          ELSE IF ~Allocated(m, v) THEN Ends(m, "undefined") ELSE Free(done, v)

\* export -n n, export -n n=t
Unexport(n) ==
  /\ Goes
  /\ Becomes(Drop(Now, n))
  /\ Records(given)
UnexportValue(n, t, c) ==
  /\ Goes
  /\ Becomes(IF Word(t).how # "run" THEN Ends(Now, Word(t).how)
             ELSE Drop(Add(Alloc(Now, c, Word(t).value), "var", n, c), n))
  /\ Gives(n, Word(t).value)

\* export: every value is printed.
PrintExports ==
  /\ phase = "run"
  /\ phase' = IF \A b \in Bucket : \A i \in DOMAIN table["export"].chain[b] :
                   LET v == table["export"].chain[b][i].value
                   IN v = NULL \/ Readable(Now, v)
                THEN "run" ELSE "undefined"
  /\ UNCHANGED <<table, text, shared, calls, lines, given>>

\* $x in the words of a command
Expand(x) ==
  /\ phase = "run"
  /\ phase' = Word(Ref(x)).how
  /\ UNCHANGED <<table, text, shared, calls, lines, given>>

\* A function is called with one argument or none: the caller's parameters are
\* forgotten.
Call(args, c) ==
  /\ Goes /\ depth < MaxDepth
  /\ param' = IF args = <<>> THEN <<>> ELSE <<c>>
  /\ text' = Reached(IF args = <<>> THEN Now ELSE Alloc(Now, c, args[1]),
                     Strings(table) \union {param'[i] : i \in DOMAIN param'})
  /\ live' = TRUE /\ depth' = depth + 1
  /\ UNCHANGED <<phase, table, shared, given>>

\* It returns: free_command() releases the parameters and the list of them, which
\* may be those of another call.
Return ==
  /\ Goes /\ depth > 0
  /\ \/ /\ live /\ \A i \in DOMAIN param : Allocated(Now, param[i])
        /\ text' = [c \in Cell |-> IF c \in Arguments THEN Released ELSE text[c]]
        /\ live' = FALSE /\ depth' = depth - 1
        /\ UNCHANGED phase
     \/ /\ ~live \/ \E i \in DOMAIN param : ~Allocated(Now, param[i])
        /\ phase' = "undefined"
        /\ UNCHANGED <<text, live, depth>>
  /\ UNCHANGED <<table, shared, param, given>>

Entry(w, b, i) == table[w].chain[b][i]

\* Every value is a string that nothing else holds, or null.
Owned ==
  \A w \in Tables, b \in Bucket : \A i \in DOMAIN table[w].chain[b] :
    LET v == Entry(w, b, i).value
    IN v # NULL =>
         /\ Allocated(Now, v)
         /\ \A x \in Tables, a \in Bucket : \A j \in DOMAIN table[x].chain[a] :
              Entry(x, a, j).value = v => x = w /\ a = b /\ j = i

\* free_assignments() for both tables, at the end of the shell
Exit ==
  /\ phase = "run"
  /\ phase' = IF Owned THEN "exited" ELSE "undefined"
  /\ UNCHANGED <<table, text, shared, calls, lines, given>>

Arg == {<<>>} \union {<<t>> : t \in Texts \ Refs}

Next ==
  \/ \E c, d \in Cell :
       /\ Fresh(c, d)
       /\ \/ \E n \in Name, t \in Texts :
               Assign(n, t, c) \/ ExportValue(n, t, c, d) \/ UnexportValue(n, t, c)
          \/ \E args \in Arg : Call(args, c)
  \/ \E n \in Name : ExportName(n) \/ Unexport(n)
  \/ \E x \in Name \union {First} : Expand(x)
  \/ Return \/ PrintExports \/ Exit

Spec == Init /\ [][Next]_vars

----------------------------------------------------------------------------
(* Properties.                                                             *)

Entered == [name : Name, value : Value]

\* Type invariant; a bucket that lost its head is empty.
TypeOK ==
  /\ phase \in {"run", "exited", "crashed", "undefined"}
  /\ table \in [Tables -> [chain : [Bucket -> Seq(Entered)], headless : SUBSET Bucket]]
  /\ \A w \in Tables : \A b \in table[w].headless : table[w].chain[b] = <<>>
  /\ text \in [Cell -> Text \union {Released}]
  /\ param \in Seq(Cell) /\ live \in BOOLEAN
  /\ depth \in 0..MaxDepth /\ lines \in 0..MaxLines
  /\ given \in [Name -> Text \union {NULL}] /\ shared \in BOOLEAN

\* A name has at most one entry in a table, in the bucket where it is looked for,
\* through any sequence of assignments, exports and removals.
OneEntry ==
  \A w \in Tables, b \in Bucket : \A i \in DOMAIN table[w].chain[b] :
    /\ hash[Entry(w, b, i).name] = b
    /\ \A j \in DOMAIN table[w].chain[b] :
         Entry(w, b, i).name = Entry(w, b, j).name => i = j

\* Strings stay with their entry, and are released with it, as long as no entry
\* was given the string of another one or of a parameter: by `x=$y' when x is
\* new, or by `export x'.
OwnedUnlessShared == ~shared => Owned

\* Nothing that was released is used again but in two ways: by the other entry of
\* a string that was given two, and through the parameters of a function that
\* returned, by what follows it or by the call it was nested in.
UsesOnlyOwned ==
  phase = "undefined" => shared \/ (~live /\ (param # <<>> \/ depth > 0))

\* Until then the value of a variable is what it was last assigned, whatever
\* happened to the names in the same bucket.  It is null when the first thing
\* it was assigned was the value of a variable that has none.
LastAssigned ==
  phase = "run" /\ ~shared =>
    \A n \in Name :
      IF Has(table["var"], n)
        THEN LET v == ValueOf(table["var"], n)
             IN IF v = NULL THEN given[n] \in Refs ELSE TextOf(Now, v) = given[n]
        ELSE given[n] = NULL

\* Variables are never lost, and a name is exported until it is the one that is
\* removed: export never removes or adds another one that shares its bucket.
Exported == {n \in Name : Has(table["export"], n)}
Defined == {n \in Name : Has(table["var"], n)}
OthersStay ==
  [][/\ Defined \subseteq Defined'
     /\ \A n \in Exported \ Exported' :
          Unexport(n) \/ \E t \in Texts, c \in Cell : UnexportValue(n, t, c)]_vars
=============================================================================
