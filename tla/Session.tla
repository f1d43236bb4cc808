------------------------------- MODULE Session -------------------------------
(***************************************************************************)
(* main() and interactive_mode() (src/42sh.c) with the history file        *)
(* (src/history/history.c): how a shell starts, what becomes of each line, *)
(* and how it ends, is killed and is started again.  Lines are numbers;    *)
(* what they do to aliases is the module Aliases, what else they do is in  *)
(* other modules.  In the file of the history, 0 is what another shell     *)
(* wrote, which may start for the first time while this one does, or what  *)
(* was written of a line before the disk was full.                         *)
(***************************************************************************)
EXTENDS Aliases, FiniteSets

CONSTANTS
  NULL,         \* no file; not an alias
  MaxLines,     \* bound on the lines that are typed
  MaxCommands,  \* bound on those of their commands that change aliases
  MaxOthers     \* bound on what is in the file besides whole lines of this shell

ASSUME SessionAssumption ==
  /\ NULL \notin Text /\ NULL \notin Seq(Nat)
  /\ MaxLines \in Nat /\ MaxCommands \in Nat /\ MaxOthers \in Nat

VARIABLES
  phase,      \* of the shell, or how it ended
  terminal,   \* whether its input is a terminal
  home,       \* whether HOME is set
  file,       \* the history file, or NULL
  aliases,    \* the aliases of the shell
  lines,      \* the last line that was typed
  commands,   \* commands that changed aliases, up to MaxCommands
  rival,      \* the other shell found no file, and will create it
  ran,        \* history: the lines that were run in a terminal
  found,      \* history: whether there was a file when the shell started
  lost,       \* history: whether a shell that found none emptied one
  failed,     \* history: the lines that were not written whole
  latest,     \* history: what `alias' last said of each name, or NULL
  undone      \* history: the names `unalias' left at an older meaning than that

said == <<latest, undone>>
world == <<file, rival, lost>>
counts == <<lines, commands, ran, failed>>
vars == <<phase, terminal, home, aliases, said, found, world, counts>>

Ended == {"ended", "crashed", "undefined"}

Init ==
  /\ phase = "start"
  /\ terminal \in BOOLEAN /\ home \in BOOLEAN
  /\ file \in {NULL, <<>>}
  /\ aliases = NoAliases /\ latest = [n \in Name |-> NULL] /\ undone = {}
  /\ lines = 0 /\ commands = 0 /\ ran = <<>> /\ failed = {}
  /\ rival = FALSE /\ lost = FALSE /\ found = FALSE

\* Nothing is left of a shell that ended but the file.
Stops(how) ==
  /\ phase' = how
  /\ aliases' = NoAliases /\ latest' = [n \in Name |-> NULL] /\ undone' = {}
  /\ UNCHANGED <<terminal, home>>

Goes(next) == phase' = next /\ UNCHANGED <<terminal, home, aliases, said>>

----------------------------------------------------------------------------
(* The start                                                               *)

\* Mutant of Open: the file is created whether it is there or not.
OpenNew ==
  /\ phase = "start"
  /\ found' = (file # NULL)
  /\ Goes(IF home THEN "create" ELSE "rc")
  /\ UNCHANGED <<world, counts>>

\* set_history(): fopen(path, "r+")
Open ==
  /\ phase = "start"
  /\ found' = (file # NULL)
  /\ Goes(IF home /\ file = NULL THEN "create" ELSE "rc")
  /\ UNCHANGED <<world, counts>>

\* Then fopen(path, "w+"), which empties what is there by now, or fails.
Create ==
  /\ phase = "create"
  /\ Goes("rc")
  /\ \/ file' = <<>> /\ lost' = (lost \/ (~found /\ file \notin {NULL, <<>>}))
     \/ UNCHANGED <<file, lost>>
  /\ UNCHANGED <<rival, found, counts>>

\* norc_opt(): the rc files are run by other processes, and leave nothing here.
\* When fork() fails the shell ends.
Rc ==
  /\ phase = "rc"
  /\ \/ Goes(IF terminal THEN "prompt" ELSE "script")
     \/ home /\ Stops("ended")
  /\ UNCHANGED <<found, world, counts>>

----------------------------------------------------------------------------
(* Lines                                                                   *)

Types ==
  /\ lines < MaxLines /\ lines' = lines + 1
  /\ UNCHANGED <<commands, ran, failed, found, world>>

\* A line of a terminal that grammar_check() refuses
Refuse == phase = "prompt" /\ Types /\ Goes("prompt")

\* One that it accepts
Accept == phase = "prompt" /\ Types /\ Goes("record")

\* fopen(path, "a") creates the file when it is not there.
Opened == IF file = NULL THEN <<>> ELSE file

Others == Cardinality({i \in DOMAIN Opened : Opened[i] = 0})

\* fwrite() and fclose(), of which no result is looked at: the line is written, or
\* nothing of it is, or a part.  It is run in any case.
Written ==
  /\ home
  /\ \/ file' = Append(Opened, lines) /\ UNCHANGED failed
     \/ /\ \/ file' = Opened
           \/ Others < MaxOthers /\ file' = Append(Opened, 0)
        /\ failed' = failed \union {lines}
  /\ Goes("run") /\ ran' = Append(ran, lines)

\* Mutant of Record: the line is run although the file was not opened.
RecordOrNot ==
  /\ phase = "record"
  /\ \/ Written
     \/ Goes("run") /\ ran' = Append(ran, lines) /\ UNCHANGED <<file, failed>>
  /\ UNCHANGED <<rival, found, lost, lines, commands>>

\* It is written to the history.  Without HOME, or when the file cannot be opened,
\* the loop goes on to the next line.
Record ==
  /\ phase = "record"
  /\ \/ Written
     \/ Goes("prompt") /\ UNCHANGED <<file, ran, failed>>
  /\ UNCHANGED <<rival, found, lost, lines, commands>>

\* A script is one line, of which no history is kept; when it is refused the
\* shell ends.
ReadScript ==
  /\ phase = "script"
  /\ Types
  /\ Goes("run") \/ Stops("ended")

Defined == {n \in Name : Has(aliases.table, n)}

\* A command of the line, given what it leaves of the aliases
Becomes(r) ==
  IF r.how # "run" THEN Stops(r.how)
  ELSE phase' = phase /\ aliases' = r.aliases /\ UNCHANGED <<terminal, home>>

Command == phase = "run" /\ UNCHANGED <<lines, ran, failed, found, world>>
Looks == Command /\ UNCHANGED commands
Changes == Command /\ commands < MaxCommands /\ commands' = commands + 1

DoAlias(n, t) ==
  /\ Changes /\ Becomes(Alias(aliases, n, t))
  /\ latest' = [latest EXCEPT ![n] = t] /\ undone' = undone \ {n}

ShowAliases ==
  Looks /\ Becomes(ShowAll(aliases)) /\ (phase' = "run" => UNCHANGED said)

\* It may take back a definition that waits of a name with an older one.
DoUnalias(n) ==
  /\ Changes /\ Becomes(Unalias(aliases, n))
  /\ phase' = "run" =>
       /\ undone' = (undone \union (Waiting(aliases) \ Waiting(aliases'))) \intersect Defined'
       /\ UNCHANGED latest

DoUnaliasAll ==
  Changes /\ Becomes(UnaliasAll(aliases)) /\ (phase' = "run" => UNCHANGED said)

\* Any other command, whose name is looked up
Use(n) ==
  /\ Looks
  /\ IF Circular(aliases, n) THEN Stops("crashed") ELSE Goes("run")

\* exit, and the end of the input at a prompt
Exit ==
  /\ phase \in {"run", "prompt"}
  /\ Stops(Release(aliases))
  /\ UNCHANGED <<found, world, counts>>

\* Mutant of EndOfLine: the next prompt comes before the definitions are made.
EndOfLineEarly ==
  /\ phase \in {"run", "commit"}
  /\ UNCHANGED <<found, world, counts>>
  /\ \/ terminal /\ Goes("prompt")
     \/ ~terminal /\ Stops(Release(aliases))

\* The end of a line: add_aliases()
EndOfLine ==
  /\ phase \in {"run", "commit"}
  /\ UNCHANGED <<found, world, counts>>
  /\ \/ /\ aliases.pending # <<>>
        /\ phase' = "commit" /\ aliases' = Commit(aliases)
        /\ UNCHANGED <<terminal, home, said>>
     \/ aliases.pending = <<>> /\ terminal /\ Goes("prompt")
     \/ aliases.pending = <<>> /\ ~terminal /\ Stops(Release(aliases))

----------------------------------------------------------------------------
(* The world around it                                                     *)

\* The shell is killed at any point.
Kill == phase \notin Ended /\ Stops("ended") /\ UNCHANGED <<found, world, counts>>

\* Another one is started.
Restart ==
  /\ phase \in Ended
  /\ phase' = "start" /\ terminal' \in BOOLEAN
  /\ UNCHANGED <<home, aliases, said, found, world, counts>>

\* Another shell: set_history() and Record there
Rival ==
  /\ \/ file = NULL /\ ~rival /\ rival' = TRUE /\ UNCHANGED <<file, lost>>
     \/ /\ rival /\ rival' = FALSE /\ file' = <<>>
        /\ lost' = (lost \/ file \notin {NULL, <<>>})
     \/ /\ file # NULL /\ Others < MaxOthers
        /\ file' = Append(file, 0)
        /\ UNCHANGED <<rival, lost>>
  /\ UNCHANGED <<phase, terminal, home, aliases, said, found, counts>>

Next ==
  \/ Open \/ Create \/ Rc
  \/ Refuse \/ Accept \/ Record \/ ReadScript
  \/ \E n \in Name : (\E t \in Text : DoAlias(n, t)) \/ DoUnalias(n) \/ Use(n)
  \/ ShowAliases \/ DoUnaliasAll \/ EndOfLine \/ Exit
  \/ Kill \/ Restart \/ Rival

Spec == Init /\ [][Next]_vars

----------------------------------------------------------------------------
(* Properties.                                                             *)

Definition == [name : Name, text : Text]

\* Type invariant; no definition waits between two lines, and no alias's bucket
\* is dangling.
TypeOK ==
  /\ phase \in Ended \union {"start", "create", "rc", "prompt", "record", "script", "run", "commit"}
  /\ terminal \in BOOLEAN /\ home \in BOOLEAN /\ rival \in BOOLEAN /\ lost \in BOOLEAN
  /\ found \in BOOLEAN
  /\ file = NULL \/ file \in Seq(0..MaxLines)
  /\ aliases \in
       [table : [chain : [Bucket -> Seq([name : Name, value : Text])], headless : SUBSET Bucket],
        pending : Seq(Definition), dangling : SUBSET Bucket]
  /\ phase \notin {"run", "commit"} => aliases.pending = <<>>
  /\ \A b \in aliases.dangling : aliases.table.chain[b] = <<>>
  /\ lines \in 0..MaxLines /\ commands \in 0..MaxCommands
  /\ ran \in Seq(1..MaxLines) /\ failed \subseteq 1..MaxLines
  /\ latest \in [Name -> Text \union {NULL}] /\ undone \subseteq Name

\* Through lines that define, redefine and remove names of one bucket an alias has
\* one entry, and stands for what the last `alias' said of it, unless that waits
\* for the end of its line or an `unalias' took it back on that line: the name's
\* own, or that of another name which begins with it (my_unalias.c:117).  After
\* that an older meaning stays.
AliasIsLatest ==
  \A n \in Name :
    /\ Has(aliases.table, n) /\ n \notin Waiting(aliases) \union undone
         => ValueOf(aliases.table, n) = latest[n]
    /\ \A i, j \in DOMAIN Chain(aliases.table, n) :
         Chain(aliases.table, n)[i].name = Chain(aliases.table, n)[j].name => i = j

\* A command removes no alias but the one it names, as long as that is the first or
\* the second of its bucket.  Of one further behind the claim is only that other
\* buckets keep theirs: remove_assignment() takes the alias before it along.
OthersStay ==
  [][\/ Defined \subseteq Defined' \/ phase' \in Ended \/ DoUnaliasAll
     \/ \E n \in Name :
          /\ DoUnalias(n)
          /\ Defined \ Defined' \subseteq
               IF Place(aliases.table, n) <= 2 THEN {n}
               ELSE {m \in Name : hash[m] = hash[n]}]_vars

\* What was run in a terminal is in the history, once and in order, across kills
\* and restarts, unless two shells started at once for the first time, and but for
\* the lines whose own writing failed: those are run all the same.
InOrder == \A i, j \in DOMAIN file : i < j /\ file[i] > 0 /\ file[j] > 0 => file[i] < file[j]
RanIsRecorded ==
  ~lost /\ ran # <<>> =>
    /\ file # NULL /\ InOrder
    /\ \A i \in DOMAIN ran : ran[i] \in failed \/ \E j \in DOMAIN file : file[j] = ran[i]

\* A history that is there when the shell starts keeps every line, whatever ends
\* this shell and whichever comes next.
HistoryKept ==
  [][found /\ ~rival =>
       file # NULL /\ file' # NULL /\ Len(file) <= Len(file')
       /\ SubSeq(file', 1, Len(file)) = file]_vars
=============================================================================
