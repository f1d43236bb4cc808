--------------------------- MODULE PipelineProofs ---------------------------
(***************************************************************************)
(* Theorems about Pipeline, for pipelines of any length, pipes of any      *)
(* capacity and any programs.                                              *)
(***************************************************************************)
EXTENDS Pipeline, TLAPS

----------------------------------------------------------------------------
(* The tables that occur.                                                  *)

\* The shell's, with the read ends of the first n pipes.
Kept(n) ==
  [d \in 0..n+2 |-> IF d = 0 THEN Reading(0)
                    ELSE IF d <= 2 THEN Writing(0) ELSE Reading(d - 2)]

\* And with the write end of the last one, between fork() and close().
WithEnd(n) == [d \in 0..n+3 |-> IF d = n + 3 THEN Writing(n) ELSE Kept(n)[d]]

\* That of a command: the last one has both ends of a pipe nobody uses, minus
\* the read end, whose number was fd[1].
Numbers(i) == IF i < N THEN 0..i+1 ELSE 0..N+1 \union {N + 3}

Plumbed(i) ==
  [d \in Numbers(i) |->
     IF d = 0 THEN Reading(i - 1)
     ELSE IF d = 1 THEN (IF i < N THEN Writing(i) ELSE Writing(0))
     ELSE IF d = 2 THEN Writing(0)
     ELSE IF d = N + 3 THEN Writing(N)
     ELSE Reading(d - 2)]

----------------------------------------------------------------------------
(* The inductive invariant.                                                *)

\* What does not mention the tables.
DataOK ==
  /\ pc \in {"fork", "close", "wait", "closefds", "done", "exited"}
  /\ k \in Stage /\ status \in RawStatus
  /\ proc \in [Stage -> {"none", "setup", "run", "zombie", "reaped"}]
  /\ prog \in [Stage -> Programs]
  /\ out \in [Stage -> Nat] /\ need \in [Stage -> Nat \union {All}]
  /\ raw \in [Stage -> RawStatus]
  /\ buf \in [Proc -> 0..Cap]

\* Where the shell is says which children were forked and which were waited for.
Lives ==
  /\ \A i \in Stage : proc[i] = "none" <=>
       (pc \in {"fork", "exited"} /\ i >= k) \/ (pc = "close" /\ i > k)
  /\ \A i \in Stage : proc[i] = "reaped" <=>
       pc \in {"closefds", "done"} \/ (pc = "wait" /\ i > k)
  /\ pc \in {"closefds", "done"} => status = raw[1]

ShellTable ==
  /\ pc = "fork" => table[Shell] = Kept(k - 1)
  /\ pc = "close" => table[Shell] = WithEnd(k)
  /\ pc \in {"wait", "closefds"} => table[Shell] = Kept(N)
  /\ pc = "done" => table[Shell] = Kept(0)
  /\ pc = "exited" => table[Shell] = NoTable

StageTable(i) ==
  /\ proc[i] = "setup" => table[i] = WithEnd(i)
  /\ proc[i] = "run" => table[i] = Plumbed(i)
  /\ proc[i] \in {"none", "zombie", "reaped"} => table[i] = NoTable

Tables ==
  /\ DOMAIN table = Proc
  /\ fdnext \in [Proc -> (0..N+3) \X (0..N+3)]
  /\ fdnext[0] = <<0, 1>>
  /\ \A i \in Stage : proc[i] # "none" => fdnext[i] = <<i + 2, i + 3>>
  /\ ShellTable
  /\ \A i \in Stage : StageTable(i)

\* Who gets SIGPIPE does so after the shell is gone, which keeps every read end
\* until it has waited for everybody, and after its reader is.
Signalled ==
  \A i \in Stage : raw[i] = SIGPIPE =>
    /\ pc = "exited" /\ i < N
    /\ proc[i+1] \notin {"setup", "run"}

IInv == DataOK /\ Lives /\ Tables /\ Signalled

----------------------------------------------------------------------------
(* Lemmas about descriptor tables.                                         *)

USE NAssumption, CapAssumption, ProgramsAssumption

\* pipe() gives stage n the numbers n+2 and n+3.
LEMMA PipeNumbers ==
  ASSUME NEW n \in Stage, NEW r \in 0..N+3, NEW w \in 0..N+3,
         LowestFree(Kept(n - 1), r),
         LowestFree(Open(Kept(n - 1), r, Reading(n)), w)
  PROVE  /\ r = n + 2 /\ w = n + 3
         /\ Open(Open(Kept(n - 1), r, Reading(n)), w, Writing(n)) = WithEnd(n)
<1>1. DOMAIN Kept(n - 1) = 0..n+1
  BY DEF Kept, Stage
<1>2. r = n + 2
  <2>1. r \notin 0..n+1 /\ \A e \in 0..r-1 : e \in 0..n+1
    BY <1>1 DEF LowestFree
  <2>2. ~(r > n + 2)
    <3> SUFFICES ASSUME r > n + 2 PROVE FALSE
      OBVIOUS
    <3>1. n + 2 \in 0..r-1
      BY DEF Stage
    <3> QED
      BY <2>1, <3>1 DEF Stage
  <2> QED
    BY <2>1, <2>2 DEF Stage
<1>3. DOMAIN Open(Kept(n - 1), r, Reading(n)) = 0..n+2
  BY <1>1, <1>2 DEF Open, Stage
<1>4. w = n + 3
  <2>1. w \notin 0..n+2 /\ \A e \in 0..w-1 : e \in 0..n+2
    BY <1>3 DEF LowestFree
  <2>2. ~(w > n + 3)
    <3> SUFFICES ASSUME w > n + 3 PROVE FALSE
      OBVIOUS
    <3>1. n + 3 \in 0..w-1
      BY DEF Stage
    <3> QED
      BY <2>1, <3>1 DEF Stage
  <2> QED
    BY <2>1, <2>2 DEF Stage
<1>5. Open(Open(Kept(n - 1), r, Reading(n)), w, Writing(n)) = WithEnd(n)
  BY <1>1, <1>2, <1>3, <1>4 DEF Open, Kept, WithEnd, Stage
<1> QED
  BY <1>2, <1>4, <1>5

\* The parent is left with one read end more.
LEMMA CloseEnd ==
  ASSUME NEW n \in Stage
  PROVE  Close(WithEnd(n), n + 3) = Kept(n)
<1>1. DOMAIN WithEnd(n) \ {n + 3} = 0..n+2
  BY DEF WithEnd, Stage
<1> QED
  BY <1>1 DEF Close, WithEnd, Kept, Stage

\* close_fds() closes every read end: their numbers leave no gap.
LEMMA CloseAll == CloseFds(Kept(N)) = Kept(0)
<1>1. DOMAIN Kept(N) = 0..N+2
  BY DEF Kept
<1>2. {e \in DOMAIN Kept(N) : e < 3 \/ \E h \in 3..e : h \notin DOMAIN Kept(N)} = 0..2
  BY <1>1
<1> QED
  BY <1>1, <1>2 DEF CloseFds, Kept

\* What a child does with its copy, whatever the numbers have been before.
LEMMA PlumbLemma ==
  ASSUME NEW i \in Stage, fdnext[i] = <<i + 2, i + 3>>,
         fdnext[i-1] = IF i = 1 THEN <<0, 1>> ELSE <<i + 1, i + 2>>
  PROVE  Plumb(i, WithEnd(i)) = Plumbed(i)
<1> DEFINE t == WithEnd(i)
           a == Dup2(t, fdnext[i-1][1], 0)
           b == Close(a, fdnext[i-1][2])
           c == Close(b, i + 2)
           e == Dup2(c, i + 3, 1)
           f == Close(e, i + 3)
<1>1. i \in Nat /\ i >= 1 /\ i <= N
  BY DEF Stage
<1>2. DOMAIN t = 0..i+3 /\ \A d \in 0..i+3 : t[d] =
        IF d = 0 THEN Reading(0) ELSE IF d <= 2 THEN Writing(0)
        ELSE IF d = i + 3 THEN Writing(i) ELSE Reading(d - 2)
  BY <1>1 DEF WithEnd, Kept
<1> HIDE DEF t
<1>3. /\ DOMAIN a = 0..i+3
      /\ a[0] = Reading(i - 1) /\ \A d \in 1..i+3 : a[d] = t[d]
  <2>1. CASE i = 1
    BY <1>2, <2>1 DEF Dup2
  <2>2. CASE i > 1
    <3>1. fdnext[i-1][1] = i + 1 /\ i + 1 \in 0..i+3
      BY <1>1, <2>2
    <3>2. t[i + 1] = Reading(i - 1)
      BY <1>1, <1>2, <2>2, <3>1
    <3>3. a = [x \in (0..i+3) \union {0} |-> IF x = 0 THEN t[i + 1] ELSE t[x]]
      BY <1>2, <3>1 DEF Dup2
    <3>4. (0..i+3) \union {0} = 0..i+3
      BY <1>1
    <3>5. DOMAIN a = 0..i+3 /\ a[0] = t[i + 1]
      BY <1>1, <3>3, <3>4
    <3>6. \A d \in 1..i+3 : a[d] = t[d]
      BY <1>1, <3>3, <3>4
    <3> QED
      BY <3>2, <3>5, <3>6
  <2> QED
    BY <1>1, <2>1, <2>2
<1> HIDE DEF a
<1>4. /\ DOMAIN b = (0..i+3) \ {IF i = 1 THEN 1 ELSE i + 2}
      /\ \A d \in DOMAIN b : b[d] = a[d]
  BY <1>1, <1>3 DEF Close
<1> HIDE DEF b
<1>5. CASE i < N
  <2>1. /\ DOMAIN c = (0..i+3) \ {IF i = 1 THEN 1 ELSE i + 2, i + 2}
        /\ \A d \in DOMAIN c : c[d] = a[d]
    BY <1>1, <1>4 DEF Close
  <2> HIDE DEF c
  <2>2. i + 3 \in DOMAIN c /\ c[i + 3] = Writing(i)
    BY <1>1, <1>2, <1>3, <2>1
  <2>3. /\ DOMAIN e = (0..i+3) \ {i + 2}
        /\ e[1] = Writing(i) /\ \A d \in DOMAIN e : d # 1 => e[d] = a[d]
    BY <1>1, <2>1, <2>2 DEF Dup2
  <2> HIDE DEF e
  <2>4. /\ DOMAIN f = 0..i+1
        /\ f[1] = Writing(i) /\ \A d \in 0..i+1 : d # 1 => f[d] = a[d]
    BY <1>1, <2>3 DEF Close
  <2>5. f = [d \in DOMAIN f |-> f[d]]
    BY DEF Close
  <2> HIDE DEF f
  <2>6. \A d \in 0..i+1 : f[d] = Plumbed(i)[d]
    BY <1>1, <1>2, <1>3, <1>5, <2>4 DEF Plumbed, Numbers
  <2>7. Plumbed(i) = [d \in 0..i+1 |-> Plumbed(i)[d]]
    BY <1>5 DEF Plumbed, Numbers
  <2>8. f = Plumbed(i)
    BY <2>4, <2>5, <2>6, <2>7
  <2>9. Plumb(i, WithEnd(i)) = f
    BY <1>5 DEF Plumb, a, b, c, e, f, t
  <2> QED
    BY <2>8, <2>9
<1>6. CASE i = N
  <2>1. DOMAIN b = Numbers(i)
    BY <1>1, <1>4, <1>6 DEF Numbers
  <2>2. b = [d \in DOMAIN b |-> b[d]]
    BY DEF Close, b
  <2>3. \A d \in Numbers(i) : b[d] = Plumbed(i)[d]
    <3> SUFFICES ASSUME NEW d \in Numbers(i) PROVE b[d] = Plumbed(i)[d]
      OBVIOUS
    <3>1. d \in 0..i+3 /\ b[d] = a[d] /\ (d <= N + 1 \/ d = N + 3)
      BY <1>1, <1>4, <1>6, <2>1 DEF Numbers
    <3>2. Plumbed(i)[d] =
            IF d = 0 THEN Reading(i - 1) ELSE IF d = 1 THEN Writing(0)
            ELSE IF d = 2 THEN Writing(0) ELSE IF d = N + 3 THEN Writing(N)
            ELSE Reading(d - 2)
      BY <1>6 DEF Plumbed
    <3>3. d # 0 => a[d] = t[d]
      BY <1>3, <3>1
    <3> QED
      BY <1>1, <1>2, <1>3, <1>6, <3>1, <3>2, <3>3
  <2>4. Plumbed(i) = [d \in Numbers(i) |-> Plumbed(i)[d]]
    BY DEF Plumbed
  <2>5. b = Plumbed(i)
    BY <2>1, <2>2, <2>3, <2>4
  <2>6. Plumb(i, WithEnd(i)) = b
    BY <1>6 DEF Plumb, a, b, t
  <2> QED
    BY <2>5, <2>6
<1> QED
  BY <1>1, <1>5, <1>6

----------------------------------------------------------------------------
(* IInv is inductive.                                                      *)

LEMMA InitInv == Init => IInv
<1> SUFFICES ASSUME Init PROVE IInv
  OBVIOUS
<1>1. 1 \in Stage /\ Stage \subseteq Proc /\ 0 \in Proc /\ Shell \notin Stage
  BY DEF Stage, Proc, Shell
<1>2. prog \in [Stage -> Programs] /\ \A i \in Stage : prog[i] \in Program
  BY DEF Init
<1>3. /\ out \in [Stage -> Nat] /\ need \in [Stage -> Nat \union {All}]
  BY <1>2 DEF Init, Program
<1>4. 0 \in RawStatus /\ 0 # SIGPIPE
  BY DEF RawStatus, SIGPIPE
<1>5. /\ raw \in [Stage -> RawStatus] /\ buf \in [Proc -> 0..Cap]
      /\ proc \in [Stage -> {"none", "setup", "run", "zombie", "reaped"}]
      /\ \A i \in Stage : raw[i] = 0 /\ proc[i] = "none" /\ i >= 1
  BY <1>4 DEF Init, Stage
<1>6. DataOK
  BY <1>1, <1>2, <1>3, <1>4, <1>5 DEF Init, DataOK
<1>7. Lives /\ Signalled
  <2>1. pc = "fork" /\ k = 1
    BY DEF Init
  <2> QED
    BY <1>4, <1>5, <2>1 DEF Lives, Signalled
<1>8. Terminal = Kept(0)
  BY DEF Terminal, Kept
<1>9. Tables
  <2>1. table[Shell] = Kept(0) /\ DOMAIN table = Proc
    BY <1>1, <1>8 DEF Init, Shell
  <2>2. pc = "fork" /\ k - 1 = 0
    BY DEF Init
  <2>3. ShellTable
    BY <2>1, <2>2 DEF ShellTable
  <2>4. \A i \in Stage : table[i] = NoTable
    BY <1>1 DEF Init
  <2>5. \A i \in Stage : StageTable(i)
    BY <1>5, <2>4 DEF StageTable
  <2>6. /\ fdnext \in [Proc -> (0..N+3) \X (0..N+3)]
        /\ fdnext[0] = <<0, 1>>
    <3>1. 0 \in 0..N+3 /\ 1 \in 0..N+3
      OBVIOUS
    <3> QED
      BY <1>1, <3>1 DEF Init
  <2> QED
    BY <1>5, <2>1, <2>3, <2>5, <2>6 DEF Tables
<1> QED
  BY <1>6, <1>7, <1>9 DEF IInv

\* pipe() and fork().
LEMMA ForkInv ==
  ASSUME IInv, Fork
  PROVE  IInv'
<1>1. k \in Stage /\ k \in Proc /\ Shell \in Proc /\ k # Shell /\ pc = "fork"
  BY DEF IInv, DataOK, Fork, Stage, Proc, Shell
<1>2. table[Shell] = Kept(k - 1) /\ DOMAIN table = Proc
  BY <1>1 DEF IInv, Tables, ShellTable
<1>3. PICK r \in 0..N+3, w \in 0..N+3 :
        LET t == Open(Open(table[Shell], r, Reading(k)), w, Writing(k))
        IN /\ LowestFree(table[Shell], r)
           /\ LowestFree(Open(table[Shell], r, Reading(k)), w)
           /\ fdnext' = [fdnext EXCEPT ![k] = <<r, w>>]
           /\ table' = [table EXCEPT ![Shell] = t, ![k] = t]
  BY DEF Fork
<1>4. /\ r = k + 2 /\ w = k + 3
      /\ Open(Open(table[Shell], r, Reading(k)), w, Writing(k)) = WithEnd(k)
  BY <1>1, <1>2, <1>3, PipeNumbers
<1>5. /\ fdnext' = [fdnext EXCEPT ![k] = <<k + 2, k + 3>>]
      /\ table' = [table EXCEPT ![Shell] = WithEnd(k), ![k] = WithEnd(k)]
      /\ proc' = [proc EXCEPT ![k] = "setup"] /\ pc' = "close"
      /\ UNCHANGED <<k, status, programs, raw, buf>>
  BY <1>3, <1>4 DEF Fork
<1>6. DataOK'
  BY <1>5 DEF IInv, DataOK, programs
<1>9. \A i \in Stage : proc'[i] = IF i = k THEN "setup" ELSE proc[i]
  BY <1>5 DEF IInv, DataOK
<1>10. \A i \in Stage : /\ proc[i] = "none" <=> i >= k
                        /\ proc[i] # "reaped"
  BY <1>1 DEF IInv, Lives
<1>7. Lives' /\ Signalled'
  <2>1. \A i \in Stage : proc'[i] # "reaped" /\ (proc'[i] = "none" <=> i > k)
    BY <1>1, <1>9, <1>10 DEF Stage
  <2>2. Signalled'
    BY <1>1, <1>5 DEF IInv, Signalled
  <2> QED
    BY <1>5, <2>1, <2>2 DEF Lives
<1>8. Tables'
  <2>1. /\ DOMAIN table' = Proc /\ fdnext'[0] = <<0, 1>>
        /\ \A i \in Stage : i # k => table'[i] = table[i] /\ proc'[i] = proc[i]
                                     /\ fdnext'[i] = fdnext[i]
        /\ table'[k] = WithEnd(k) /\ table'[Shell] = WithEnd(k)
        /\ fdnext'[k] = <<k + 2, k + 3>> /\ proc'[k] = "setup"
    <3>1. \A i \in Stage : i \in Proc /\ i # Shell /\ i # 0
      BY DEF Stage, Proc, Shell
    <3>2. DOMAIN fdnext = Proc /\ fdnext[0] = <<0, 1>> /\ 0 \in Proc
      BY DEF IInv, Tables, Proc
    <3>3. DOMAIN table' = Proc /\ DOMAIN fdnext' = Proc
      BY <1>2, <1>5, <3>2
    <3>4. \A p \in Proc : table'[p] = IF p = k \/ p = Shell THEN WithEnd(k) ELSE table[p]
      BY <1>1, <1>2, <1>5
    <3>5. \A p \in Proc : fdnext'[p] = IF p = k THEN <<k + 2, k + 3>> ELSE fdnext[p]
      BY <1>1, <1>5, <3>2
    <3> QED
      BY <1>1, <1>9, <3>1, <3>2, <3>3, <3>4, <3>5
  <2>2. fdnext' \in [Proc -> (0..N+3) \X (0..N+3)]
    BY <1>1, <1>5 DEF IInv, Tables, Stage
  <2>3. ShellTable'
    BY <1>5, <2>1 DEF ShellTable
  <2>4. \A i \in Stage : StageTable(i)'
    BY <2>1 DEF IInv, Tables, StageTable
  <2> QED
    BY <2>1, <2>2, <2>3, <2>4 DEF IInv, Tables
<1> QED
  BY <1>6, <1>7, <1>8 DEF IInv

\* A step that changes the shell's table only, and no child.
LEMMA ShellOnly ==
  ASSUME IInv, NEW t, table' = [table EXCEPT ![Shell] = t],
         UNCHANGED <<fdnext, proc>>, ShellTable'
  PROVE  Tables' /\ table'[Shell] = t
<1>1. Shell \in Proc /\ \A i \in Stage : i # Shell /\ i \in Proc
  BY DEF Shell, Proc, Stage
<1>2. DOMAIN table = Proc
  BY DEF IInv, Tables
<1>3. \A i \in Stage : StageTable(i)'
  BY <1>1, <1>2 DEF IInv, Tables, StageTable
<1>4. DOMAIN table' = Proc /\ table'[Shell] = t
  BY <1>1, <1>2
<1> QED
  BY <1>3, <1>4 DEF IInv, Tables

LEMMA ForkFailsInv ==
  ASSUME IInv, ForkFails
  PROVE  IInv'
<1>1. /\ pc = "fork" /\ pc' = "exited" /\ table' = [table EXCEPT ![Shell] = NoTable]
      /\ UNCHANGED <<k, fdnext, status, proc, programs, raw, buf>>
  BY DEF ForkFails
<1>2. DataOK'
  BY <1>1 DEF IInv, DataOK, programs
<1>3. Lives' /\ Signalled'
  BY <1>1 DEF IInv, Lives, Signalled
<1>4. ShellTable'
  BY <1>1 DEF ShellTable, IInv, Tables, Shell, Proc
<1> QED
  BY <1>1, <1>2, <1>3, <1>4, ShellOnly DEF IInv

LEMMA CloseWriteEndInv ==
  ASSUME IInv, CloseWriteEnd
  PROVE  IInv'
<1>1. /\ pc = "close" /\ k \in Stage /\ Shell \in Proc
      /\ table[Shell] = WithEnd(k) /\ DOMAIN table = Proc
  BY DEF IInv, DataOK, Tables, ShellTable, CloseWriteEnd, Shell, Proc
<1>2. proc[k] # "none"
  <2>1. ~(k > k)
    BY <1>1 DEF Stage
  <2> QED
    BY <1>1, <2>1 DEF IInv, Lives
<1>3. fdnext[k] = <<k + 2, k + 3>>
  BY <1>1, <1>2 DEF IInv, Tables
<1>4. Close(table[Shell], fdnext[k][2]) = Kept(k)
  BY <1>1, <1>3, CloseEnd
<1>5. /\ table' = [table EXCEPT ![Shell] = Kept(k)]
      /\ IF k < N THEN pc' = "fork" /\ k' = k + 1 ELSE pc' = "wait" /\ k' = k
      /\ UNCHANGED <<fdnext, status, proc, programs, raw, buf>>
  BY <1>4 DEF CloseWriteEnd
<1>6. DataOK'
  BY <1>1, <1>5 DEF IInv, DataOK, programs, Stage
<1>7. Lives' /\ Signalled'
  <2>1. \A i \in Stage : proc[i] # "reaped" /\ (proc[i] = "none" <=> i > k)
    <3>1. \A i \in Stage : proc[i] # "reaped"
      BY <1>1 DEF IInv, Lives
    <3> QED
      BY <1>1, <3>1 DEF IInv, Lives
  <2>2. Signalled'
    BY <1>1, <1>5 DEF IInv, Signalled
  <2>3. CASE k < N
    BY <1>1, <1>5, <2>1, <2>2, <2>3 DEF Lives, Stage
  <2>4. CASE ~(k < N)
    BY <1>1, <1>5, <2>1, <2>2, <2>4 DEF Lives, Stage
  <2> QED
    BY <2>3, <2>4
<1>8. ShellTable'
  <2>1. table'[Shell] = Kept(k)
    BY <1>1, <1>5
  <2>2. CASE k < N
    BY <1>1, <1>5, <2>1, <2>2 DEF ShellTable, Stage
  <2>3. CASE ~(k < N)
    <3>1. k = N
      BY <1>1, <2>3 DEF Stage
    <3> QED
      BY <1>5, <2>1, <2>3, <3>1 DEF ShellTable
  <2> QED
    BY <2>2, <2>3
<1> QED
  BY <1>5, <1>6, <1>7, <1>8, ShellOnly DEF IInv

LEMMA WaitInv ==
  ASSUME IInv, Wait
  PROVE  IInv'
<1>1. /\ pc = "wait" /\ k \in Stage /\ proc[k] = "zombie"
      /\ proc' = [proc EXCEPT ![k] = "reaped"] /\ status' = raw[k]
      /\ UNCHANGED <<fdnext, table, programs, raw, buf>>
  BY DEF IInv, DataOK, Wait
<1>2. \/ k > 1 /\ pc' = "wait" /\ k' = k - 1
      \/ k = 1 /\ pc' = "closefds" /\ k' = 1
  BY <1>1 DEF Wait, Stage
<1>3. DataOK'
  BY <1>1, <1>2 DEF IInv, DataOK, programs, Stage
<1>4. Lives'
  <2>1. \A i \in Stage : proc'[i] = IF i = k THEN "reaped" ELSE proc[i]
    BY <1>1 DEF IInv, DataOK
  <2>2. \A i \in Stage : proc'[i] # "none"
    BY <1>1, <2>1 DEF IInv, Lives
  <2>3. \A i \in Stage : proc'[i] = "reaped" <=>
          pc' \in {"closefds", "done"} \/ (pc' = "wait" /\ i > k')
    <3>1. \A i \in Stage : proc[i] = "reaped" <=> i > k
      BY <1>1 DEF IInv, Lives
    <3> QED
      BY <1>1, <1>2, <2>1, <3>1 DEF Stage
  <2>4. pc' \in {"closefds", "done"} => status' = raw'[1]
    BY <1>1, <1>2
  <2> QED
    BY <1>2, <2>2, <2>3, <2>4 DEF Lives
<1>5. Signalled'
  BY <1>1, <1>2 DEF IInv, Signalled
<1>6. Tables'
  <2>1. ShellTable'
    BY <1>1, <1>2 DEF IInv, Tables, ShellTable
  <2>2. \A i \in Stage : StageTable(i)'
    BY <1>1 DEF IInv, DataOK, Tables, StageTable
  <2>3. \A i \in Stage : proc'[i] # "none" => proc[i] # "none"
    BY <1>1 DEF IInv, DataOK
  <2> QED
    BY <1>1, <2>1, <2>2, <2>3 DEF IInv, Tables
<1> QED
  BY <1>3, <1>4, <1>5, <1>6 DEF IInv

LEMMA FinishInv ==
  ASSUME IInv, Finish
  PROVE  IInv'
<1>1. /\ pc = "closefds" /\ table[Shell] = Kept(N) /\ DOMAIN table = Proc /\ Shell \in Proc
  BY DEF IInv, Tables, ShellTable, Finish, Shell, Proc
<1>2. /\ table' = [table EXCEPT ![Shell] = Kept(0)] /\ pc' = "done"
      /\ UNCHANGED <<k, fdnext, status, proc, programs, raw, buf>>
  BY <1>1, CloseAll DEF Finish
<1>3. DataOK'
  BY <1>2 DEF IInv, DataOK, programs
<1>4. Lives' /\ Signalled'
  BY <1>1, <1>2 DEF IInv, Lives, Signalled
<1>5. ShellTable'
  BY <1>1, <1>2 DEF ShellTable
<1> QED
  BY <1>2, <1>3, <1>4, <1>5, ShellOnly DEF IInv

\* A child that starts to run its command, or ends.
StartsOrEnds(i) ==
  \/ proc' = [proc EXCEPT ![i] = "run"] /\ table' = [table EXCEPT ![i] = Plumbed(i)]
  \/ proc' = [proc EXCEPT ![i] = "zombie"] /\ table' = [table EXCEPT ![i] = NoTable]

LEMMA ChildOnly ==
  ASSUME IInv, NEW i \in Stage, proc[i] \in {"setup", "run"}, StartsOrEnds(i),
         UNCHANGED shell
  PROVE  /\ Tables'
         /\ proc' \in [Stage -> {"none", "setup", "run", "zombie", "reaped"}]
         /\ \A j \in Stage : /\ proc'[j] = "none" <=> proc[j] = "none"
                             /\ proc'[j] = "reaped" <=> proc[j] = "reaped"
<1>1. i \in Proc /\ i # Shell /\ Shell \in Proc /\ \A j \in Stage : j \in Proc
  BY DEF Stage, Proc, Shell
<1>2. DOMAIN table = Proc
  BY DEF IInv, Tables
<1>3. \/ \A j \in Stage : proc'[j] = IF j = i THEN "run" ELSE proc[j]
      \/ \A j \in Stage : proc'[j] = IF j = i THEN "zombie" ELSE proc[j]
  BY DEF IInv, DataOK, StartsOrEnds
<1>4. \A p \in Proc : p # i => table'[p] = table[p]
  BY <1>2 DEF StartsOrEnds
<1>5. \A j \in Stage : /\ proc'[j] = "none" <=> proc[j] = "none"
                       /\ proc'[j] = "reaped" <=> proc[j] = "reaped"
  BY <1>3
<1>6. DOMAIN table' = Proc
  BY <1>2 DEF StartsOrEnds
<1>7. ShellTable'
  BY <1>1, <1>4 DEF IInv, Tables, ShellTable, shell
<1>8. \A j \in Stage : StageTable(j)'
  <2>1. ASSUME NEW j \in Stage, j # i
        PROVE  StageTable(j)'
    BY <1>1, <1>3, <1>4, <2>1 DEF IInv, Tables, StageTable
  <2>2. StageTable(i)'
    BY <1>1, <1>2 DEF IInv, DataOK, StageTable, StartsOrEnds
  <2> QED
    BY <2>1, <2>2
<1>9. Tables'
  BY <1>5, <1>6, <1>7, <1>8 DEF IInv, Tables, shell
<1>10. proc' \in [Stage -> {"none", "setup", "run", "zombie", "reaped"}]
  BY DEF IInv, DataOK, StartsOrEnds
<1> QED
  BY <1>5, <1>9, <1>10

\* Once everybody has been waited for no child runs, so a running child finds
\* that the shell still reads every pipe or is gone.
LEMMA ReaderHeld ==
  ASSUME IInv, NEW i \in Stage, proc[i] = "run", pc # "exited"
  PROVE  /\ 1 \in DOMAIN table[i]
         /\ table[i][1].pipe \in 0..i
         /\ table[i][1].pipe # 0 =>
              \E p \in Proc : Holds(p, Reading(table[i][1].pipe))
<1>1. table[i] = Plumbed(i) /\ pc \in {"fork", "close", "wait"}
  BY DEF IInv, DataOK, Lives, Tables, StageTable
<1>2. 1 \in DOMAIN table[i] /\ table[i][1] = IF i < N THEN Writing(i) ELSE Writing(0)
  BY <1>1 DEF Plumbed, Numbers, Stage
<1>3. table[i][1].pipe = IF i < N THEN i ELSE 0
  BY <1>2 DEF Writing
<1>4. ASSUME i < N
      PROVE  i + 2 \in DOMAIN table[Shell] /\ table[Shell][i + 2] = Reading(i)
  <2>1. CASE pc = "fork"
    <3>1. i < k /\ k \in Nat
      <4>1. ~(i >= k)
        BY <2>1 DEF IInv, Lives
      <4> QED
        BY <4>1 DEF IInv, DataOK, Stage
    <3>2. table[Shell] = Kept(k - 1)
      BY <2>1 DEF IInv, Tables, ShellTable
    <3> QED
      BY <3>1, <3>2 DEF Kept, Stage
  <2>2. CASE pc = "close"
    <3>1. i <= k /\ k \in Nat
      <4>1. ~(i > k)
        BY <2>2 DEF IInv, Lives
      <4> QED
        BY <4>1 DEF IInv, DataOK, Stage
    <3>2. table[Shell] = WithEnd(k)
      BY <2>2 DEF IInv, Tables, ShellTable
    <3> QED
      BY <3>1, <3>2 DEF WithEnd, Kept, Stage
  <2>3. CASE pc = "wait"
    <3>1. table[Shell] = Kept(N)
      BY <2>3 DEF IInv, Tables, ShellTable
    <3> QED
      BY <3>1 DEF Kept, Stage
  <2> QED
    BY <1>1, <2>1, <2>2, <2>3
<1>5. i < N => Holds(Shell, Reading(i)) /\ Shell \in Proc
  BY <1>4 DEF Holds, Shell, Proc
<1> QED
  BY <1>2, <1>3, <1>5 DEF Stage

\* The command after a pipe holds its read end as long as it lives.
LEMMA ReaderAlive ==
  ASSUME IInv, NEW i \in Stage, i < N, proc[i+1] \in {"setup", "run"}
  PROVE  i + 1 \in Proc /\ Holds(i + 1, Reading(i))
<1>1. i + 1 \in Stage /\ i + 1 \in Proc /\ i \in Nat /\ i >= 1
  BY DEF Stage, Proc
<1>2. CASE proc[i+1] = "setup"
  <2>1. table[i+1] = WithEnd(i + 1)
    BY <1>1, <1>2 DEF IInv, Tables, StageTable
  <2>2. i + 2 \in DOMAIN WithEnd(i + 1) /\ WithEnd(i + 1)[i + 2] = Reading(i)
    BY <1>1 DEF WithEnd, Kept
  <2> QED
    BY <1>1, <2>1, <2>2 DEF Holds
<1>3. CASE proc[i+1] = "run"
  <2>1. table[i+1] = Plumbed(i + 1)
    BY <1>1, <1>3 DEF IInv, Tables, StageTable
  <2>2. 0 \in DOMAIN Plumbed(i + 1) /\ Plumbed(i + 1)[0] = Reading(i)
    BY <1>1 DEF Plumbed, Numbers
  <2> QED
    BY <1>1, <2>1, <2>2 DEF Holds
<1> QED
  BY <1>2, <1>3

LEMMA ChildInv ==
  ASSUME IInv, NEW i \in Stage, Child(i)
  PROVE  IInv'
<1>1. UNCHANGED shell
  BY DEF Child, Setup, Write, Read, Exit
<1>2. CASE Setup(i)
  <2>1. /\ proc[i] = "setup" /\ table' = [table EXCEPT ![i] = Plumb(i, table[i])]
        /\ proc' = [proc EXCEPT ![i] = "run"]
        /\ UNCHANGED <<shell, programs, raw, buf>>
    BY <1>2 DEF Setup
  <2>2. table[i] = WithEnd(i) /\ fdnext[i] = <<i + 2, i + 3>>
    BY <2>1 DEF IInv, Tables, StageTable
  <2>3. fdnext[i-1] = IF i = 1 THEN <<0, 1>> ELSE <<i + 1, i + 2>>
    <3>1. CASE i = 1
      BY <3>1 DEF IInv, Tables
    <3>2. CASE i # 1
      <4>1. i - 1 \in Stage /\ (i - 1) + 2 = i + 1 /\ (i - 1) + 3 = i + 2
        BY <3>2 DEF Stage
      <4>2. k \in Int /\ (i - 1 >= k => i >= k) /\ (i - 1 > k => i > k)
        BY DEF IInv, DataOK, Stage
      <4>3. proc[i-1] # "none"
        BY <2>1, <4>1, <4>2 DEF IInv, Lives
      <4> QED
        BY <3>2, <4>1, <4>3 DEF IInv, Tables
    <3> QED
      BY <3>1, <3>2
  <2>4. Plumb(i, table[i]) = Plumbed(i)
    BY <2>2, <2>3, PlumbLemma
  <2>5. table' = [table EXCEPT ![i] = Plumbed(i)]
    BY <2>1, <2>4
  <2>6. /\ Tables'
        /\ proc' \in [Stage -> {"none", "setup", "run", "zombie", "reaped"}]
        /\ \A j \in Stage : /\ proc'[j] = "none" <=> proc[j] = "none"
                            /\ proc'[j] = "reaped" <=> proc[j] = "reaped"
    BY <1>1, <2>1, <2>5, ChildOnly DEF StartsOrEnds
  <2>7. DataOK'
    BY <1>1, <2>1, <2>6 DEF IInv, DataOK, shell, programs
  <2>9. Signalled'
    <3>1. \A j \in Stage : j # i => proc'[j] = proc[j]
      BY <2>1
    <3> QED
      BY <1>1, <2>1, <3>1 DEF IInv, Signalled, Stage, shell
  <2>8. Lives'
    BY <1>1, <2>1, <2>6 DEF IInv, Lives, shell
  <2> QED
    BY <2>6, <2>7, <2>8, <2>9 DEF IInv
<1>3. ASSUME NEW w \in RawStatus, Ends(i, w), proc[i] = "run",
             w = SIGPIPE => /\ pc = "exited" /\ i < N
                            /\ proc[i+1] \notin {"setup", "run"},
             UNCHANGED <<shell, programs, buf>>
      PROVE  IInv'
  <2>1. /\ proc' = [proc EXCEPT ![i] = "zombie"] /\ raw' = [raw EXCEPT ![i] = w]
        /\ table' = [table EXCEPT ![i] = NoTable]
    BY <1>3 DEF Ends
  <2>2. /\ Tables'
        /\ proc' \in [Stage -> {"none", "setup", "run", "zombie", "reaped"}]
        /\ \A j \in Stage : /\ proc'[j] = "none" <=> proc[j] = "none"
                            /\ proc'[j] = "reaped" <=> proc[j] = "reaped"
    BY <1>1, <1>3, <2>1, ChildOnly DEF StartsOrEnds
  <2>3. raw' \in [Stage -> RawStatus] /\ \A j \in Stage : raw'[j] = IF j = i THEN w ELSE raw[j]
    BY <1>3, <2>1 DEF IInv, DataOK
  <2>4. DataOK'
    BY <1>3, <2>2, <2>3 DEF IInv, DataOK, shell, programs
  <2>5. Signalled'
    <3>1. \A j \in Stage : j # i => proc'[j] = proc[j]
      BY <2>1
    <3>2. proc'[i] = "zombie"
      BY <2>1 DEF IInv, DataOK
    <3> QED
      BY <1>3, <2>3, <3>1, <3>2 DEF IInv, Signalled, Stage, shell
  <2>6. Lives'
    <3>1. pc \notin {"closefds", "done"}
      BY <1>3 DEF IInv, Lives
    <3> QED
      BY <1>3, <2>2, <3>1 DEF IInv, Lives, shell
  <2> QED
    BY <2>2, <2>4, <2>5, <2>6 DEF IInv
<1>4. ASSUME UNCHANGED <<shell, table, proc, prog, raw>>,
             out' \in [Stage -> Nat], need' \in [Stage -> Nat \union {All}],
             buf' \in [Proc -> 0..Cap]
      PROVE  IInv'
  <2>1. DataOK' /\ Signalled'
    BY <1>4 DEF IInv, DataOK, Signalled, shell
  <2>2. Lives'
    BY <1>4 DEF IInv, Lives, shell
  <2>3. Tables'
    BY <1>4 DEF IInv, Tables, ShellTable, StageTable, shell
  <2> QED
    BY <2>1, <2>2, <2>3 DEF IInv
<1>5. CASE Write(i)
  <2> DEFINE j == table[i][1].pipe
  <2>1. /\ proc[i] = "run" /\ out[i] > 0 /\ UNCHANGED <<shell, prog, need>>
        /\ IF j # 0 /\ ~\E p \in Proc : Holds(p, Reading(j))
             THEN Ends(i, SIGPIPE) /\ UNCHANGED <<out, buf>>
             ELSE /\ buf[j] < Cap
                  /\ out' = [out EXCEPT ![i] = @ - 1]
                  /\ buf' = IF j = 0 THEN buf ELSE [buf EXCEPT ![j] = @ + 1]
                  /\ UNCHANGED <<proc, raw, table>>
    BY <1>5 DEF Write
  <2>2. CASE j # 0 /\ ~\E p \in Proc : Holds(p, Reading(j))
    <3>1. pc = "exited"
      BY <2>1, <2>2, ReaderHeld
    <3>2. SIGPIPE \in RawStatus /\ UNCHANGED <<shell, programs, buf>>
      BY <2>1, <2>2 DEF RawStatus, programs
    <3>3. i < N /\ j = i
      <4>1. table[i] = Plumbed(i)
        BY <2>1 DEF IInv, Tables, StageTable
      <4>2. table[i][1] = IF i < N THEN Writing(i) ELSE Writing(0)
        BY <4>1 DEF Plumbed, Numbers, Stage
      <4> QED
        BY <2>2, <4>2 DEF Writing
    <3>4. proc[i+1] \notin {"setup", "run"}
      BY <2>2, <3>3, ReaderAlive
    <3> QED
      BY <1>3, <2>1, <2>2, <3>1, <3>2, <3>3, <3>4
  <2>3. CASE ~(j # 0 /\ ~\E p \in Proc : Holds(p, Reading(j)))
    <3>1. j \in Proc
      <4>1. table[i] = Plumbed(i)
        BY <2>1 DEF IInv, Tables, StageTable
      <4>2. table[i][1] = IF i < N THEN Writing(i) ELSE Writing(0)
        BY <4>1 DEF Plumbed, Numbers, Stage
      <4> QED
        BY <4>2 DEF Writing, Stage, Proc
    <3> HIDE DEF j
    <3>2. out' \in [Stage -> Nat]
      BY <2>1, <2>3 DEF IInv, DataOK
    <3>3. buf' \in [Proc -> 0..Cap]
      BY <2>1, <2>3, <3>1 DEF IInv, DataOK
    <3>4. need' \in [Stage -> Nat \union {All}]
      BY <2>1 DEF IInv, DataOK
    <3> QED
      BY <1>4, <2>1, <2>3, <3>2, <3>3, <3>4
  <2> QED
    BY <2>2, <2>3
<1>6. CASE Read(i)
  <2> DEFINE j == table[i][0].pipe
  <2>1. /\ proc[i] = "run" /\ need[i] # 0 /\ UNCHANGED <<shell, table, proc, prog, raw>>
        /\ IF AtEnd(j)
             THEN need' = [need EXCEPT ![i] = 0] /\ UNCHANGED <<out, buf>>
             ELSE /\ buf[j] > 0
                  /\ buf' = [buf EXCEPT ![j] = @ - 1]
                  /\ need' = [need EXCEPT ![i] = IF need[i] = All THEN All ELSE need[i] - 1]
                  /\ out' = [out EXCEPT ![i] = IF prog[i].filter THEN 1 ELSE 0]
    BY <1>6 DEF Read
  <2>2. j \in Proc
    <3>1. table[i] = Plumbed(i)
      BY <2>1 DEF IInv, Tables, StageTable
    <3>2. table[i][0] = Reading(i - 1)
      BY <3>1 DEF Plumbed, Numbers, Stage
    <3> QED
      BY <3>2 DEF Reading, Stage, Proc
  <2> HIDE DEF j
  <2>3. /\ out \in [Stage -> Nat] /\ need \in [Stage -> Nat \union {All}]
        /\ buf \in [Proc -> 0..Cap]
    BY DEF IInv, DataOK
  <2>4. need' \in [Stage -> Nat \union {All}]
    BY <2>1, <2>3 DEF All
  <2>5. out' \in [Stage -> Nat] /\ buf' \in [Proc -> 0..Cap]
    BY <2>1, <2>2, <2>3
  <2> QED
    BY <1>4, <2>1, <2>4, <2>5
<1>7. CASE Exit(i)
  <2> DEFINE w == 256 * prog[i].code
  <2>1. /\ proc[i] = "run" /\ Ends(i, w) /\ UNCHANGED <<shell, programs, buf>>
    BY <1>7 DEF Exit
  <2>2. prog[i].code \in 0..255
    BY DEF IInv, DataOK, Program
  <2>3. w \in RawStatus /\ w # SIGPIPE
    BY <2>2 DEF RawStatus, SIGPIPE
  <2> QED
    BY <1>3, <2>1, <2>3
<1> QED
  BY <1>2, <1>5, <1>6, <1>7 DEF Child

LEMMA NextInv ==
  ASSUME IInv, [Next]_vars
  PROVE  IInv'
<1>1. CASE ShellStep
  BY <1>1, ForkInv, CloseWriteEndInv, WaitInv, FinishInv DEF ShellStep
<1>2. CASE ForkFails
  BY <1>2, ForkFailsInv
<1>3. CASE \E i \in Stage : Child(i)
  BY <1>3, ChildInv
<1>4. CASE UNCHANGED vars
  BY <1>4 DEF vars, IInv, DataOK, Lives, Tables, ShellTable, StageTable, Signalled
<1> QED
  BY <1>1, <1>2, <1>3, <1>4 DEF Next

----------------------------------------------------------------------------
(* What the invariant implies.                                             *)

LEMMA TypeLemma == IInv => TypeOK
<1> SUFFICES ASSUME IInv PROVE TypeOK
  OBVIOUS
<1>1. \A n \in 0..N : /\ DOMAIN Kept(n) \subseteq 0..N+3
                      /\ \A d \in DOMAIN Kept(n) : Kept(n)[d] \in End
  BY DEF Kept, End, Reading, Writing, Proc
<1>2. \A n \in Stage : /\ DOMAIN WithEnd(n) \subseteq 0..N+3
                       /\ \A d \in DOMAIN WithEnd(n) : WithEnd(n)[d] \in End
  <2> TAKE n \in Stage
  <2>1. DOMAIN WithEnd(n) = 0..n+3 /\ DOMAIN Kept(n) = 0..n+2 /\ n \in 0..N
    BY DEF WithEnd, Kept, Stage
  <2>2. Writing(n) \in End
    BY DEF Writing, End, Stage, Proc
  <2> QED
    BY <1>1, <2>1, <2>2 DEF WithEnd, Stage
<1>3. \A n \in Stage : /\ DOMAIN Plumbed(n) \subseteq 0..N+3
                       /\ \A d \in DOMAIN Plumbed(n) : Plumbed(n)[d] \in End
  BY DEF Plumbed, Numbers, End, Reading, Writing, Proc, Stage
<1>4. DOMAIN NoTable = {}
  BY DEF NoTable
<1>5. ASSUME NEW p \in Proc
      PROVE  /\ DOMAIN table[p] \subseteq 0..N+3
             /\ \A d \in DOMAIN table[p] : table[p][d] \in End
  <2>1. CASE p = Shell
    <3>1. k - 1 \in 0..N /\ N \in 0..N /\ 0 \in 0..N
      BY DEF IInv, DataOK, Stage
    <3> QED
      BY <1>1, <1>2, <1>4, <2>1, <3>1 DEF IInv, DataOK, Tables, ShellTable
  <2>2. CASE p \in Stage
    BY <1>2, <1>3, <1>4, <2>2 DEF IInv, DataOK, Tables, StageTable
  <2> QED
    BY <2>1, <2>2 DEF Shell, Stage, Proc
<1> QED
  BY <1>5 DEF IInv, DataOK, Tables, TypeOK

LEMMA WiredLemma == IInv => Wired
<1> SUFFICES ASSUME IInv, NEW i \in Stage, proc[i] = "run"
             PROVE  /\ {0, 1, 2} \subseteq DOMAIN table[i]
                    /\ table[i][0] = Reading(i - 1)
                    /\ table[i][1] = IF i < N THEN Writing(i) ELSE Writing(0)
                    /\ table[i][2] = Writing(0)
  BY DEF Wired
<1>1. table[i] = Plumbed(i)
  BY DEF IInv, Tables, StageTable
<1>2. {0, 1, 2} \subseteq Numbers(i)
  BY DEF Numbers, Stage
<1> QED
  BY <1>1, <1>2 DEF Plumbed

LEMMA OneWriterLemma == IInv => OneWriter
<1> SUFFICES ASSUME IInv, NEW i \in Stage, NEW p \in Proc,
                    NEW d \in DOMAIN table[p], table[p][d] = Writing(i)
             PROVE  p = i \/ (p = Shell /\ pc = "close" /\ k = i)
  BY DEF OneWriter, Holds
<1>1. /\ \A n : Writing(i) # Reading(n) /\ Writing(i) # Writing(0)
      /\ \A n : Writing(i) = Writing(n) => n = i
  BY DEF Writing, Reading, Stage
<1>2. \A n \in 0..N : \A e \in DOMAIN Kept(n) : Kept(n)[e] # Writing(i)
  BY <1>1 DEF Kept
<1>3. \A n \in Stage : \A e \in DOMAIN WithEnd(n) : WithEnd(n)[e] = Writing(i) => n = i
  <2> TAKE n \in Stage
  <2>1. DOMAIN WithEnd(n) = 0..n+3 /\ DOMAIN Kept(n) = 0..n+2 /\ n \in 0..N
    BY DEF WithEnd, Kept, Stage
  <2> QED
    BY <1>1, <1>2, <2>1 DEF WithEnd, Stage
<1>4. \A n \in Stage : \A e \in DOMAIN Plumbed(n) : Plumbed(n)[e] = Writing(i) => n = i
  BY <1>1 DEF Plumbed, Numbers, Stage
<1>5. CASE p = Shell
  <2>1. k - 1 \in 0..N /\ N \in 0..N /\ 0 \in 0..N /\ k \in Stage
    BY DEF IInv, DataOK, Stage
  <2>2. pc = "close"
    BY <1>2, <1>5, <2>1 DEF IInv, DataOK, Tables, ShellTable, NoTable
  <2> QED
    BY <1>3, <1>5, <2>1, <2>2 DEF IInv, Tables, ShellTable
<1>6. CASE p \in Stage
  <2>1. proc[p] \in {"setup", "run"}
    <3>1. table[p] # NoTable
      BY DEF NoTable
    <3>2. proc[p] \in {"none", "setup", "run", "zombie", "reaped"}
      BY <1>6 DEF IInv, DataOK
    <3> QED
      BY <1>6, <3>1, <3>2 DEF IInv, Tables, StageTable
  <2> QED
    BY <1>3, <1>4, <1>6, <2>1 DEF IInv, Tables, StageTable
<1> QED
  BY <1>5, <1>6 DEF Shell, Stage, Proc

LEMMA CleanLemma == IInv => CleanReturn
<1>1. Terminal = Kept(0)
  BY DEF Terminal, Kept
<1> QED
  BY <1>1 DEF IInv, Lives, Tables, ShellTable, CleanReturn

----------------------------------------------------------------------------
(* The theorems.                                                           *)

LEMMA Invariance == Spec => []IInv
<1>1. Init => IInv
  BY InitInv
<1>2. IInv /\ [Next]_vars => IInv'
  BY NextInv
<1> QED
  BY <1>1, <1>2, PTL DEF Spec

\* The tables of all processes stay within the numbers 0 to N+3.
THEOREM TypeCorrect == Spec => []TypeOK
<1>1. IInv => TypeOK
  BY TypeLemma
<1> QED
  BY <1>1, Invariance, PTL

\* However long the pipeline is, and in whatever order its processes run, each
\* command reads from the one before it and writes to the one after it.
THEOREM WiredAlways == Spec => []Wired
<1>1. IInv => Wired
  BY WiredLemma
<1> QED
  BY <1>1, Invariance, PTL

\* No process but the command before a pipe keeps its reader waiting.
THEOREM OneWriterAlways == Spec => []OneWriter
<1>1. IInv => OneWriter
  BY OneWriterLemma
<1> QED
  BY <1>1, Invariance, PTL

\* No command gets SIGPIPE while the command that is to read its output, or the
\* shell that is still to start it, is there.
THEOREM SigpipeOnlyUnreadAlways == Spec => []SigpipeOnlyUnread
<1>1. IInv => SigpipeOnlyUnread
  <2> SUFFICES ASSUME IInv, NEW i \in Stage, raw[i] = SIGPIPE
               PROVE  /\ i < N
                      /\ \/ proc[i+1] \in {"zombie", "reaped"}
                         \/ proc[i+1] = "none" /\ pc = "exited"
    BY DEF SigpipeOnlyUnread
  <2>1. pc = "exited" /\ i < N /\ proc[i+1] \notin {"setup", "run"}
    BY DEF IInv, Signalled
  <2>2. proc[i+1] \in {"none", "setup", "run", "zombie", "reaped"}
    BY <2>1 DEF IInv, DataOK, Stage
  <2> QED
    BY <2>1, <2>2
<1> QED
  BY <1>1, Invariance, PTL

\* The pipeline leaves neither processes nor descriptors behind.
THEOREM CleanReturnAlways == Spec => []CleanReturn
<1>1. IInv => CleanReturn
  BY CleanLemma
<1> QED
  BY <1>1, Invariance, PTL

----------------------------------------------------------------------------
(* Refinement.                                                             *)

wst == [i \in Dead |-> raw[i]]

LEMMA ContractInit == Init => Contract!Init
<1> SUFFICES ASSUME Init PROVE Contract!Init
  OBVIOUS
<1>1. \A i \in Stage : proc[i] = "none"
  BY DEF Init
<1>2. Forked = {} /\ Dead = {}
  BY <1>1 DEF Forked, Dead
<1>3. wst = [i \in {} |-> 0]
  BY <1>2 DEF wst
<1> QED
  BY <1>2, <1>3 DEF Init, Contract!Init, wst

\* Every step is a step of the contract or changes nothing it speaks of.
LEMMA ContractNext ==
  ASSUME IInv, IInv', [Next]_vars
  PROVE  [Contract!Next]_(Contract!cvars)
<1> DEFINE oc == IF pc = "done" THEN {status} ELSE {}
<1>0. Contract!Stage = Stage
  BY DEF Contract!Stage, Stage
<1>1. proc \in [Stage -> {"none", "setup", "run", "zombie", "reaped"}] /\ k \in Stage
  BY DEF IInv, DataOK
<1>2. ASSUME Forked' = Forked, Dead' = Dead, raw' = raw, oc' = oc
      PROVE  UNCHANGED Contract!cvars
  BY <1>2 DEF Contract!cvars
<1>3. CASE Fork
  <2>1. /\ pc = "fork" /\ pc' = "close" /\ proc' = [proc EXCEPT ![k] = "setup"]
        /\ raw' = raw
    BY <1>3 DEF Fork
  <2>2. /\ proc[k] = "none" /\ \A j \in 1..k-1 : j \in Stage /\ proc[j] # "none"
    BY <1>1, <2>1 DEF IInv, Lives, Stage
  <2>3. Forked' = Forked \union {k} /\ Dead' = Dead
    BY <1>1, <2>1, <2>2 DEF Forked, Dead
  <2>4. k \notin Forked /\ \A j \in 1..k-1 : j \in Forked
    BY <2>2 DEF Forked
  <2>5. Contract!Start(k)
    BY <2>1, <2>3, <2>4 DEF Contract!Start
  <2> QED
    BY <1>0, <1>1, <2>5 DEF Contract!Next
<1>4. CASE CloseWriteEnd \/ ForkFails
  <2>1. UNCHANGED <<proc, raw>> /\ pc # "done" /\ pc' # "done"
    BY <1>4 DEF CloseWriteEnd, ForkFails
  <2>2. Forked' = Forked /\ Dead' = Dead
    BY <2>1 DEF Forked, Dead
  <2> QED
    BY <1>2, <2>1, <2>2
<1>5. CASE Wait
  <2>1. /\ proc[k] = "zombie" /\ proc' = [proc EXCEPT ![k] = "reaped"]
        /\ raw' = raw /\ pc # "done" /\ pc' # "done"
    BY <1>5 DEF Wait
  <2>2. Forked' = Forked /\ Dead' = Dead
    BY <1>1, <2>1 DEF Forked, Dead
  <2> QED
    BY <1>2, <2>1, <2>2
<1>6. CASE Finish
  <2>1. pc = "closefds" /\ pc' = "done" /\ UNCHANGED <<proc, raw, status>>
    BY <1>6 DEF Finish
  <2>2. (\A i \in Stage : proc[i] = "reaped") /\ status = raw[1] /\ 1 \in Stage
    BY <2>1 DEF IInv, Lives, Stage
  <2>3. Forked' = Forked /\ Dead' = Dead /\ Dead = Stage
    BY <2>1, <2>2 DEF Forked, Dead
  <2>4. DOMAIN wst = Stage /\ wst[1] = status /\ wst' = wst
    BY <2>1, <2>2, <2>3 DEF wst
  <2>6. oc = {} /\ oc' = {wst[1]}
    BY <2>1, <2>4
  <2>5. Contract!Return
    BY <1>0, <2>2, <2>3, <2>4, <2>6 DEF Contract!Return, Contract!Ended, wst
  <2> QED
    BY <2>5 DEF Contract!Next
<1>7. ASSUME NEW i \in Stage, Setup(i) \/ Read(i)
      PROVE  UNCHANGED Contract!cvars
  <2>1. UNCHANGED <<shell, raw>> /\ \/ proc' = proc
                                    \/ proc[i] = "setup" /\ proc' = [proc EXCEPT ![i] = "run"]
    BY <1>7 DEF Setup, Read
  <2>2. Forked' = Forked /\ Dead' = Dead
    BY <1>1, <2>1 DEF Forked, Dead
  <2> QED
    BY <1>2, <2>1, <2>2 DEF shell
<1>8. ASSUME NEW i \in Stage, NEW w \in RawStatus, Ends(i, w), proc[i] = "run",
             UNCHANGED shell
      PROVE  Contract!Next
  <2>1. proc' = [proc EXCEPT ![i] = "zombie"] /\ raw' = [raw EXCEPT ![i] = w]
    BY <1>8 DEF Ends
  <2>2. /\ Forked' = Forked /\ Dead' = Dead \union {i}
        /\ i \in Forked \ Dead
    BY <1>1, <1>8, <2>1 DEF Forked, Dead
  <2>3. \A j \in Stage : raw'[j] = IF j = i THEN w ELSE raw[j]
    BY <2>1 DEF IInv, DataOK
  <2>4. wst' = [j \in Dead \union {i} |-> IF j = i THEN w ELSE wst[j]]
    BY <2>2, <2>3 DEF wst, Dead
  <2>5. DOMAIN wst = Dead /\ oc' = oc
    BY <1>8 DEF wst, shell
  <2>6. Contract!End(i, w)
    BY <2>2, <2>4, <2>5 DEF Contract!End, Contract!Ended, wst
  <2> QED
    BY <1>0, <2>6 DEF Contract!Next
<1>9. ASSUME NEW i \in Stage, Write(i)
      PROVE  Contract!Next \/ UNCHANGED Contract!cvars
  <2>1. CASE Ends(i, SIGPIPE)
    <3>1. SIGPIPE \in RawStatus /\ proc[i] = "run" /\ UNCHANGED shell
      BY <1>9 DEF Write, RawStatus
    <3> QED
      BY <1>8, <2>1, <3>1
  <2>2. CASE UNCHANGED <<proc, raw, table>>
    <3>1. UNCHANGED shell
      BY <1>9 DEF Write
    <3>2. Forked' = Forked /\ Dead' = Dead
      BY <2>2 DEF Forked, Dead
    <3> QED
      BY <1>2, <2>2, <3>1, <3>2 DEF shell
  <2> QED
    BY <1>9, <2>1, <2>2 DEF Write
<1>10. ASSUME NEW i \in Stage, Exit(i)
       PROVE  Contract!Next
  <2> DEFINE w == 256 * prog[i].code
  <2>1. proc[i] = "run" /\ Ends(i, w) /\ UNCHANGED shell
    BY <1>10 DEF Exit
  <2>2. prog[i].code \in 0..255
    BY DEF IInv, DataOK, Program
  <2>3. w \in RawStatus
    BY <2>2 DEF RawStatus
  <2> QED
    BY <1>8, <2>1, <2>3
<1>11. CASE UNCHANGED vars
  <2>1. UNCHANGED <<proc, raw, pc, status>>
    BY <1>11 DEF vars
  <2>2. Forked' = Forked /\ Dead' = Dead
    BY <2>1 DEF Forked, Dead
  <2> QED
    BY <1>2, <2>1, <2>2
<1> QED
  BY <1>3, <1>4, <1>5, <1>6, <1>7, <1>9, <1>10, <1>11 DEF Next, ShellStep, Child

\* pipe_aux() starts every command once and in order, returns only after all
\* of them ended, and returns the raw status of one of them.
THEOREM PipelineImplementsContract == Spec => ImplementsContract
<1>1. Init => Contract!Init
  BY ContractInit
<1>2. IInv /\ IInv' /\ [Next]_vars => [Contract!Next]_(Contract!cvars)
  BY ContractNext
<1> QED
  BY <1>1, <1>2, Invariance, PTL DEF Spec, ImplementsContract, Contract!Spec
=============================================================================
