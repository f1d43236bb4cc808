------------------------------ MODULE Pipeline ------------------------------
(***************************************************************************)
(* One pipeline of N commands: pipe_handling(), pipe_aux() and close_fds() *)
(* (src/execution/execution_ast.c), as the shell and one process per       *)
(* command running concurrently.                                           *)
(*                                                                         *)
(* pipe_aux() calls itself for the next command before it waits for its    *)
(* own child.  Frame k of that recursion is stage k; `k' and `pc' say      *)
(* which frame the shell is in, and where.  A process is its descriptor    *)
(* table and what its program still has to write and to read; pipes hold   *)
(* at most Cap units.                                                      *)
(***************************************************************************)
EXTENDS Descriptors

CONSTANTS
  N,        \* commands of the pipeline
  Cap,      \* units a pipe holds
  Programs  \* the programs a command may be

All == -1

\* A program writes `makes' units, then reads `reads' units or all there are,
\* and writes each one again if it is a filter; a builtin reads nothing, and a
\* program that cannot be executed exits with 255.
Program == [makes : Nat, reads : Nat \union {All}, filter : BOOLEAN, code : 0..255]

ASSUME NAssumption == N \in Nat /\ N >= 2
ASSUME CapAssumption == Cap \in Nat \ {0}
ASSUME ProgramsAssumption == Programs \subseteq Program

Stage == 1..N
Shell == 0
Proc  == 0..N

\* The ends of pipe i; pipe 0 stands for the terminal.
Reading(i) == [pipe |-> i, side |-> "r"]
Writing(i) == [pipe |-> i, side |-> "w"]
Terminal == [d \in 0..2 |-> IF d = 0 THEN Reading(0) ELSE Writing(0)]

SIGPIPE == 13
RawStatus == {256 * c : c \in 0..255} \union {SIGPIPE}

VARIABLES
  pc,      \* fork, close, wait, closefds: in pipe_aux(); done; exited
  k,       \* the frame of pipe_aux() the shell is in
  fdnext,  \* fdnext[i]: fd_next of frame i; the fd argument of frame i+1
  status,  \* what the frame the shell is in returns
  table,   \* the descriptor table of each process
  proc,    \* none, setup, run, zombie, reaped: the life of each child
  prog,    \* what each command is
  out,     \* units its process has to write before it goes on
  need,    \* units it still has to read
  raw,     \* its raw wait status once it has ended
  buf      \* units in each pipe; none stay in pipe 0, the terminal

shell == <<pc, k, fdnext, status>>
programs == <<prog, out, need>>
vars == <<pc, k, fdnext, status, table, proc, prog, out, need, raw, buf>>

Holds(p, e) == \E d \in DOMAIN table[p] : table[p][d] = e

Init ==
  /\ pc = "fork" /\ k = 1 /\ status = 0
  /\ fdnext = [i \in Proc |-> <<0, 1>>]
  /\ table = [p \in Proc |-> IF p = Shell THEN Terminal ELSE NoTable]
  /\ proc = [i \in Stage |-> "none"]
  /\ prog \in [Stage -> Programs]
  /\ out = [i \in Stage |-> prog[i].makes]
  /\ need = [i \in Stage |-> prog[i].reads]
  /\ raw = [i \in Stage |-> 0]
  /\ buf = [i \in Proc |-> 0]

----------------------------------------------------------------------------
(* The shell.                                                              *)

\* pipe() and fork(): the child starts with a copy of the table.
Fork ==
  /\ pc = "fork"
  /\ \E r, w \in 0..N+3 :
       LET t == Open(Open(table[Shell], r, Reading(k)), w, Writing(k))
       IN /\ LowestFree(table[Shell], r)
          /\ LowestFree(Open(table[Shell], r, Reading(k)), w)
          /\ fdnext' = [fdnext EXCEPT ![k] = <<r, w>>]
          /\ table' = [table EXCEPT ![Shell] = t, ![k] = t]
  /\ proc' = [proc EXCEPT ![k] = "setup"]
  /\ pc' = "close"
  /\ UNCHANGED <<k, status, programs, raw, buf>>

ForkFails ==
  /\ pc = "fork"
  /\ pc' = "exited"
  /\ table' = [table EXCEPT ![Shell] = NoTable]
  /\ UNCHANGED <<k, fdnext, status, proc, programs, raw, buf>>

\* Mutant of CloseWriteEnd: the parent keeps the write end.
KeepWriteEnd ==
  /\ pc = "close"
  /\ IF k < N THEN pc' = "fork" /\ k' = k + 1 ELSE pc' = "wait" /\ k' = k
  /\ UNCHANGED <<fdnext, status, table, proc, programs, raw, buf>>

\* Mutant of CloseWriteEnd: the parent closes the read end along with it, before
\* the command that is to read it is forked.
CloseBothEnds ==
  /\ pc = "close"
  /\ table' = [table EXCEPT ![Shell] = Close(Close(@, fdnext[k][1]), fdnext[k][2])]
  /\ IF k < N THEN pc' = "fork" /\ k' = k + 1 ELSE pc' = "wait" /\ k' = k
  /\ UNCHANGED <<fdnext, status, proc, programs, raw, buf>>

\* The parent after fork(); it calls itself for the next command, if any.
CloseWriteEnd ==
  /\ pc = "close"
  /\ table' = [table EXCEPT ![Shell] = Close(@, fdnext[k][2])]
  /\ IF k < N THEN pc' = "fork" /\ k' = k + 1 ELSE pc' = "wait" /\ k' = k
  /\ UNCHANGED <<fdnext, status, proc, programs, raw, buf>>

\* Mutant of Wait: it waits for the last command only.
WaitForLast ==
  /\ pc = "wait" /\ proc[k] = "zombie"
  /\ proc' = [proc EXCEPT ![k] = "reaped"]
  /\ status' = raw[k]
  /\ pc' = "closefds" /\ k' = 1
  /\ UNCHANGED <<fdnext, table, programs, raw, buf>>

\* Mutant of Wait: waitpid() is not given the address of status.
WaitUnread ==
  /\ pc = "wait" /\ proc[k] = "zombie"
  /\ proc' = [proc EXCEPT ![k] = "reaped"]
  /\ UNCHANGED status
  /\ IF k > 1 THEN pc' = "wait" /\ k' = k - 1 ELSE pc' = "closefds" /\ k' = 1
  /\ UNCHANGED <<fdnext, table, programs, raw, buf>>

\* waitpid() in frame k, over what the call for the later stages returned.
Wait ==
  /\ pc = "wait" /\ proc[k] = "zombie"
  /\ proc' = [proc EXCEPT ![k] = "reaped"]
  /\ status' = raw[k]
  /\ IF k > 1 THEN pc' = "wait" /\ k' = k - 1 ELSE pc' = "closefds" /\ k' = 1
  /\ UNCHANGED <<fdnext, table, programs, raw, buf>>

\* instr_execution() once pipe_handling() has returned
Finish ==
  /\ pc = "closefds"
  /\ table' = [table EXCEPT ![Shell] = CloseFds(@)]
  /\ pc' = "done"
  /\ UNCHANGED <<k, fdnext, status, proc, programs, raw, buf>>

----------------------------------------------------------------------------
(* The children.                                                           *)

\* Mutant of Plumb: fd[1] is closed last.
PlumbClosesLast(i, t) ==
  LET in == Dup2(t, fdnext[i-1][1], 0)
      ends == IF i < N
                THEN Close(Dup2(Close(in, fdnext[i][1]), fdnext[i][2], 1), fdnext[i][2])
                ELSE in
  IN Close(ends, fdnext[i-1][2])

\* What child i does to its table before it runs the command.  fd[1] is a
\* number its parent closed before it made this child's own pipe.
Plumb(i, t) ==
  LET in == Close(Dup2(t, fdnext[i-1][1], 0), fdnext[i-1][2])
  IN IF i < N
       THEN Close(Dup2(Close(in, fdnext[i][1]), fdnext[i][2], 1), fdnext[i][2])
       ELSE in

Setup(i) ==
  /\ proc[i] = "setup"
  /\ table' = [table EXCEPT ![i] = Plumb(i, @)]
  /\ proc' = [proc EXCEPT ![i] = "run"]
  /\ UNCHANGED <<shell, programs, raw, buf>>

Ends(i, w) ==
  /\ proc' = [proc EXCEPT ![i] = "zombie"]
  /\ raw' = [raw EXCEPT ![i] = w]
  /\ table' = [table EXCEPT ![i] = NoTable]

\* Writing to the terminal never blocks; on a pipe it blocks while the pipe is
\* full, and kills the process when nobody holds the other end.
Write(i) ==
  /\ proc[i] = "run" /\ out[i] > 0
  /\ LET j == table[i][1].pipe
     IN IF j # 0 /\ ~\E p \in Proc : Holds(p, Reading(j))
          THEN Ends(i, SIGPIPE) /\ UNCHANGED <<out, buf>>
          ELSE /\ buf[j] < Cap
               /\ out' = [out EXCEPT ![i] = @ - 1]
               /\ buf' = IF j = 0 THEN buf ELSE [buf EXCEPT ![j] = @ + 1]
               /\ UNCHANGED <<proc, raw, table>>
  /\ UNCHANGED <<shell, prog, need>>

\* The terminal is at its end; a pipe is when it is empty and nobody holds the
\* other end.
AtEnd(j) == j = 0 \/ (buf[j] = 0 /\ ~\E p \in Proc : Holds(p, Writing(j)))

\* Mutant of Read: a program that reads everything counts what it read.
ReadCountsDown(i) ==
  /\ proc[i] = "run" /\ out[i] = 0 /\ need[i] # 0
  /\ LET j == table[i][0].pipe
     IN IF AtEnd(j)
          THEN need' = [need EXCEPT ![i] = 0] /\ UNCHANGED <<out, buf>>
          ELSE /\ buf[j] > 0
               /\ buf' = [buf EXCEPT ![j] = @ - 1]
               /\ need' = [need EXCEPT ![i] = @ - 1]
               /\ out' = [out EXCEPT ![i] = IF prog[i].filter THEN 1 ELSE 0]
  /\ UNCHANGED <<shell, table, proc, prog, raw>>

Read(i) ==
  /\ proc[i] = "run" /\ out[i] = 0 /\ need[i] # 0
  /\ LET j == table[i][0].pipe
     IN IF AtEnd(j)
          THEN need' = [need EXCEPT ![i] = 0] /\ UNCHANGED <<out, buf>>
          ELSE /\ buf[j] > 0
               /\ buf' = [buf EXCEPT ![j] = @ - 1]
               /\ need' = [need EXCEPT ![i] = IF @ = All THEN All ELSE @ - 1]
               /\ out' = [out EXCEPT ![i] = IF prog[i].filter THEN 1 ELSE 0]
  /\ UNCHANGED <<shell, table, proc, prog, raw>>

Exit(i) ==
  /\ proc[i] = "run" /\ out[i] = 0 /\ need[i] = 0
  /\ Ends(i, 256 * prog[i].code)
  /\ UNCHANGED <<shell, programs, buf>>

----------------------------------------------------------------------------
ShellStep == Fork \/ CloseWriteEnd \/ Wait \/ Finish
Child(i) == Setup(i) \/ Write(i) \/ Read(i) \/ Exit(i)

Next == ShellStep \/ ForkFails \/ \E i \in Stage : Child(i)

\* The system schedules every process that can take a step.
Fairness == WF_vars(ShellStep) /\ \A i \in Stage : WF_vars(Child(i))

Spec == Init /\ [][Next]_vars /\ Fairness

----------------------------------------------------------------------------
(* Properties.                                                             *)

End == [pipe : Proc, side : {"r", "w"}]

\* Type invariant.
TypeOK ==
  /\ pc \in {"fork", "close", "wait", "closefds", "done", "exited"}
  /\ k \in Stage /\ status \in RawStatus
  /\ fdnext \in [Proc -> (0..N+3) \X (0..N+3)]
  /\ DOMAIN table = Proc
  /\ \A p \in Proc : /\ DOMAIN table[p] \subseteq 0..N+3
                     /\ \A d \in DOMAIN table[p] : table[p][d] \in End
  /\ proc \in [Stage -> {"none", "setup", "run", "zombie", "reaped"}]
  /\ prog \in [Stage -> Programs]
  /\ out \in [Stage -> Nat] /\ need \in [Stage -> Nat \union {All}]
  /\ raw \in [Stage -> RawStatus]
  /\ buf \in [Proc -> 0..Cap]

\* A command runs with its standard input on the pipe before it and its output
\* on the pipe after it, and the ends of the pipeline are the shell's own:
\* through dup2() and close() on numbers that have been given out again.
Wired ==
  \A i \in Stage : proc[i] = "run" =>
    /\ {0, 1, 2} \subseteq DOMAIN table[i]
    /\ table[i][0] = Reading(i - 1)
    /\ table[i][1] = IF i < N THEN Writing(i) ELSE Writing(0)
    /\ table[i][2] = Writing(0)

\* Only the command before a pipe can write to it, apart from the shell right
\* after the fork.  That is why the command after it sees the end of its input.
OneWriter ==
  \A i \in Stage, p \in Proc :
    Holds(p, Writing(i)) => p = i \/ (p = Shell /\ pc = "close" /\ k = i)

\* A command is told that nobody reads what it writes only when that is so: the
\* command after it has ended, or will never be, as its fork() failed and took
\* the shell along.  It never loses a reader that is still to come or to read.
SigpipeOnlyUnread ==
  \A i \in Stage : raw[i] = SIGPIPE =>
    /\ i < N
    /\ \/ proc[i+1] \in {"zombie", "reaped"}
       \/ proc[i+1] = "none" /\ pc = "exited"

\* When the pipeline returns there is no process of it left, not even a zombie,
\* and the shell's table is what it was.
CleanReturn ==
  pc = "done" => /\ \A i \in Stage : proc[i] = "reaped"
                 /\ table[Shell] = Terminal

\* pipe_aux() implements the contract.
Forked == {i \in Stage : proc[i] # "none"}
Dead == {i \in Stage : proc[i] \in {"zombie", "reaped"}}

Contract == INSTANCE PipelineContract
              WITH started <- Forked,
                   wstatus <- [i \in Dead |-> raw[i]],
                   outcome <- IF pc = "done" THEN {status} ELSE {}
ImplementsContract == Contract!Spec

\* With readers that read all their input, the shell gets its prompt back.
Drained == \A i \in 2..N : prog[i].reads = All
DrainedReturns == Drained ~> pc \in {"done", "exited"}

\* "pipe commands": a pipeline of commands that end by themselves ends.
EveryPipelineReturns == <>(pc \in {"done", "exited"})
=============================================================================
