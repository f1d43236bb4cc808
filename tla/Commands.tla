------------------------------ MODULE Commands ------------------------------
(***************************************************************************)
(* Simple commands one after the other: instr_execution() of a command     *)
(* that no pipe follows, with changing_fd(), exec_command() and            *)
(* close_fds() (src/execution/execution_ast.c, helper_exec.c).             *)
(*                                                                         *)
(* Every command prints one line, its number in the session.  A builtin    *)
(* prints through the shell's stdio buffer, which a child gets a copy of;  *)
(* standard output is not a terminal, as in the test suite, so the buffer  *)
(* holds lines until somebody flushes it (it is taken to be large enough). *)
(***************************************************************************)
EXTENDS Descriptors, Sequences

CONSTANTS
  File,     \* the files redirections name
  Forms,    \* the commands a session is made of
  MaxLines  \* bound on the commands of a session

\* echo flushes, print (alias, shopt, export) does not; a program returns or is
\* killed; a missing one cannot be executed.  "<>" stands for the redirections
\* the grammar accepts and changing_fd() does not know: <> >| <& >&.
Form == [run : {"echo", "print", "program", "missing"},
         op : {"none", ">", ">>", "<", "<>"}, file : File]

ASSUME FormsAssumption == Forms \subseteq Form
ASSUME MaxLinesAssumption == MaxLines \in Nat

\* What descriptors refer to: the shell's own input and output, or a file.
In == "in"
Out == "out"
Target == File \union {In, Out}
Place == File \union {Out}
ASSUME PlaceAssumption == {In, Out} \intersect File = {}

\* Raw wait statuses: exit codes, and death by signal 9.
Killed == 9
RawStatus == {0, 256, 65280, Killed}

VARIABLES
  pc,       \* where instr_execution() is
  session,  \* the commands so far, the last one is being run
  table,    \* the shell's descriptor table
  buffer,   \* lines in the shell's stdio buffer
  cbuffer,  \* lines in the copy of the child
  held,     \* what each place holds: a sequence of lines
  stdout,   \* history: what descriptor 1 was when each command ran
  raw,      \* the raw wait status of the child
  res       \* what exec_command() returned

vars == <<pc, session, table, buffer, cbuffer, held, stdout, raw, res>>

Terminal == [d \in 0..2 |-> IF d = 0 THEN In ELSE Out]
Now == Len(session)
Cmd == session[Now]

Init ==
  /\ pc = "next" /\ session = <<>>
  /\ table = Terminal
  /\ buffer = <<>> /\ cbuffer = <<>>
  /\ held = [p \in Place |-> <<>>]
  /\ stdout = <<>>
  /\ raw = 0 /\ res = 0

----------------------------------------------------------------------------
Truncates(op) == op \in {">", "<"}

\* changing_fd() for a file that can be opened: `<' empties it like `>' does,
\* and only the output is ever put in place.  The grammar lets no `<<' through.
Redirected(t, c) ==
  LET d == CHOOSE e \in 0..3 : LowestFree(t, e)
      u == Open(t, d, c.file)
  IN IF c.op \in {">", ">>"} THEN Dup2(u, d, 1) ELSE u

Begin(c) ==
  /\ pc = "next" /\ Now < MaxLines
  /\ session' = Append(session, c)
  /\ pc' = "run"
  /\ \/ /\ c.op \notin {"none", "<>"}
        /\ table' = Redirected(table, c)
        /\ held' = IF Truncates(c.op) THEN [held EXCEPT ![c.file] = <<>>] ELSE held
     \/ UNCHANGED <<table, held>>    \* nothing to open, or open() failed
  /\ stdout' = Append(stdout, table'[1])
  /\ UNCHANGED <<buffer, cbuffer, raw, res>>

Put(lines) == held' = [held EXCEPT ![table[1]] = @ \o lines]

\* Mutant of Builtin: echo leaves its line in the buffer.
BuiltinUnflushed ==
  /\ pc = "run" /\ Cmd.run \in {"echo", "print"}
  /\ buffer' = Append(buffer, Now)
  /\ res' = 0 /\ pc' = "close"
  /\ UNCHANGED <<session, table, cbuffer, held, stdout, raw>>

Builtin ==
  /\ pc = "run" /\ Cmd.run \in {"echo", "print"}
  /\ IF Cmd.run = "echo"
       THEN Put(Append(buffer, Now)) /\ buffer' = <<>>
       ELSE buffer' = Append(buffer, Now) /\ UNCHANGED held
  /\ res' = 0 /\ pc' = "close"
  /\ UNCHANGED <<session, table, cbuffer, stdout, raw>>

Fork ==
  /\ pc = "run" /\ Cmd.run \in {"program", "missing"}
  /\ cbuffer' = buffer
  /\ pc' = "child"
  /\ UNCHANGED <<session, table, buffer, held, stdout, raw, res>>

\* execvp() drops the copy of the buffer with the rest of the memory.
Exec ==
  /\ pc = "child" /\ Cmd.run = "program"
  /\ Put(<<Now>>)
  /\ cbuffer' = <<>>
  /\ raw' \in RawStatus
  /\ pc' = "wait"
  /\ UNCHANGED <<session, table, buffer, stdout, res>>

\* execvp() failed: exit(-1) flushes the copy.
ExecFails ==
  /\ pc = "child" /\ Cmd.run = "missing"
  /\ Put(cbuffer)
  /\ cbuffer' = <<>>
  /\ raw' = 65280
  /\ pc' = "wait"
  /\ UNCHANGED <<session, table, buffer, stdout, res>>

\* Mutant of Decode: WEXITSTATUS() is forgotten.
DecodeRaw(w) == IF w = 65280 THEN 127 ELSE w
Decode(w) == IF w = 65280 THEN 127 ELSE w \div 256

Wait ==
  /\ pc = "wait"
  /\ res' = Decode(raw)
  /\ pc' = "close"
  /\ UNCHANGED <<session, table, buffer, cbuffer, held, stdout, raw>>

\* Mutant of CloseAfter: the file stays open.
CloseNothing ==
  /\ pc = "close"
  /\ pc' = "next"
  /\ UNCHANGED <<session, table, buffer, cbuffer, held, stdout, raw, res>>

CloseAfter ==
  /\ pc = "close"
  /\ table' = IF Cmd.op = "none" THEN table ELSE CloseFds(table)
  /\ pc' = "next"
  /\ UNCHANGED <<session, buffer, cbuffer, held, stdout, raw, res>>

\* Mutant of Exit: _exit(), which does not flush.
ExitUnflushed ==
  /\ pc = "next"
  /\ buffer' = <<>>
  /\ pc' = "exited"
  /\ UNCHANGED <<session, table, cbuffer, held, stdout, raw, res>>

\* The end of the session: exit() flushes.
Exit ==
  /\ pc = "next"
  /\ Put(buffer)
  /\ buffer' = <<>>
  /\ pc' = "exited"
  /\ UNCHANGED <<session, table, cbuffer, stdout, raw, res>>

ForkFails ==
  /\ pc = "run" /\ Cmd.run \in {"program", "missing"}
  /\ Put(buffer)
  /\ buffer' = <<>>
  /\ pc' = "failed"
  /\ UNCHANGED <<session, table, cbuffer, stdout, raw, res>>

Next ==
  \/ \E c \in Forms : Begin(c)
  \/ Builtin \/ Fork \/ Exec \/ ExecFails \/ Wait \/ CloseAfter \/ Exit \/ ForkFails

Spec == Init /\ [][Next]_vars

----------------------------------------------------------------------------
(* Properties.                                                             *)

Line == 1..MaxLines

\* Type invariant.
TypeOK ==
  /\ pc \in {"next", "run", "child", "wait", "close", "exited", "failed"}
  /\ session \in Seq(Forms) /\ Now <= MaxLines
  /\ DOMAIN table \subseteq 0..3 /\ \A d \in DOMAIN table : table[d] \in Target
  /\ buffer \in Seq(Line) /\ cbuffer \in Seq(Line)
  /\ held \in [Place -> Seq(Line)]
  /\ stdout \in Seq(Target) /\ Len(stdout) = Now
  /\ raw \in RawStatus /\ res \in 0..255

\* Whatever was redirected, and whether or not the file could be opened, the
\* shell has its three descriptors between two commands and when it exits, and
\* still reads its own input.  The test suite looks for "FILE DESCRIPTORS: 3
\* open at exit." (tests/test_suite/conftest.py).
ThreeOpen ==
  pc \in {"next", "exited"} =>
    DOMAIN table = 0..2 /\ table[0] = In /\ table[2] = Out

HasLine(p, i) == \E a \in DOMAIN held[p] : held[p][a] = i

\* Through fork(), exec failures, redirections and the exit of the shell, the
\* line of a command that ran is somewhere, or still in the shell's buffer, or a
\* redirection that came later emptied a file.
NothingLost ==
  \A i \in 1..Now :
    session[i].run # "missing" /\ (i < Now \/ pc \in {"wait", "close", "next", "exited"}) =>
      \/ \E p \in Place : HasLine(p, i)
      \/ \E a \in DOMAIN buffer : buffer[a] = i
      \/ \E j \in i+1..Now : Truncates(session[j].op)

\* The line of an echo or a program is never found behind the line of a later
\* command: echo flushes the shell's buffer before a child can print.
InOrder ==
  \A p \in Place : \A a, b \in DOMAIN held[p] :
    a < b /\ session[held[p][b]].run \in {"echo", "program"} => held[p][a] <= held[p][b]

\* "Siblings must be executed with a redirection between them" (ast.h): the
\* redirection is for the command it is written after, and a command without one
\* prints where the shell prints.
RedirectionIsLocal ==
  \A i \in DOMAIN stdout : session[i].op \notin {">", ">>"} => stdout[i] = Out
=============================================================================
