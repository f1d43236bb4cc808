--------------------------- MODULE CommandsProofs ---------------------------
(***************************************************************************)
(* Theorems about Commands, for sessions of any length over any files.     *)
(***************************************************************************)
EXTENDS Commands, SequenceTheorems, TLAPS

Busy == {"run", "child", "wait", "close"}

\* The shell's table: only a redirection that is being executed has a fourth
\* descriptor, and nothing ever replaces the input or the error output.
TableInv ==
  /\ DOMAIN table \in {0..2, 0..3}
  /\ table[0] = In /\ table[1] \in Place /\ table[2] = Out
  /\ 3 \in DOMAIN table => table[3] \in File
  /\ 3 \in DOMAIN table => pc \in Busy \union {"failed"} /\ Cmd.op # "none"
  /\ pc \in Busy => Now \in Line

IInv == TypeOK /\ TableInv

USE MaxLinesAssumption, PlaceAssumption

\* changing_fd() gets descriptor 3, and leaves 0 and 2 alone.
LEMMA RedirectedTable ==
  ASSUME NEW t, DOMAIN t = 0..2, t[0] = In, t[1] \in Place, t[2] = Out,
         NEW c \in Form
  PROVE  LET u == Redirected(t, c)
         IN /\ DOMAIN u = 0..3
            /\ u[0] = In /\ u[1] \in Place /\ u[2] = Out /\ u[3] \in File
<1> DEFINE d == CHOOSE e \in 0..3 : LowestFree(t, e)
<1>1. LowestFree(t, 3)
  BY DEF LowestFree
<1>2. d \in 0..3 /\ LowestFree(t, d)
  BY <1>1
<1>3. d = 3
  BY <1>2 DEF LowestFree
<1> HIDE DEF d
<1> DEFINE u == Open(t, d, c.file)
<1>4. c.file \in File /\ c.file \in Place
  BY DEF Form, Place
<1>5. /\ DOMAIN u = 0..3
      /\ u[0] = In /\ u[1] \in Place /\ u[2] = Out /\ u[3] = c.file
  BY <1>3 DEF Open
<1> HIDE DEF u
<1>6. LET v == Dup2(u, d, 1)
      IN /\ DOMAIN v = 0..3
         /\ v[0] = In /\ v[1] \in Place /\ v[2] = Out /\ v[3] \in File
  BY <1>3, <1>4, <1>5 DEF Dup2
<1>7. Redirected(t, c) = IF c.op \in {">", ">>"} THEN Dup2(u, d, 1) ELSE u
  BY DEF Redirected, u, d
<1> QED
  BY <1>4, <1>5, <1>6, <1>7

\* close_fds() takes the fourth descriptor away again.
LEMMA ClosedTable ==
  ASSUME NEW t, DOMAIN t \in {0..2, 0..3}
  PROVE  DOMAIN CloseFds(t) = 0..2 /\ \A e \in 0..2 : CloseFds(t)[e] = t[e]
<1>1. {e \in DOMAIN t : e < 3 \/ \E h \in 3..e : h \notin DOMAIN t} = 0..2
  OBVIOUS
<1> QED
  BY <1>1 DEF CloseFds

LEMMA InitInv == Init => IInv
<1> SUFFICES ASSUME Init PROVE IInv
  OBVIOUS
<1>1. DOMAIN table = 0..2 /\ table[0] = In /\ table[1] = Out /\ table[2] = Out
  BY DEF Init, Terminal
<1>2. \A d \in DOMAIN table : table[d] \in Target
  BY <1>1 DEF Target
<1>3. TypeOK
  BY <1>1, <1>2 DEF Init, TypeOK, Now, RawStatus
<1>4. TableInv
  BY <1>1 DEF Init, TableInv, Busy, Place
<1> QED
  BY <1>3, <1>4 DEF IInv

\* The table as TableInv wants it has the types TypeOK wants.
LEMMA TargetLemma ==
  ASSUME NEW t, DOMAIN t \in {0..2, 0..3}, t[0] = In, t[1] \in Place, t[2] = Out,
         3 \in DOMAIN t => t[3] \in File
  PROVE  DOMAIN t \subseteq 0..3 /\ \A d \in DOMAIN t : t[d] \in Target
BY DEF Place, Target

LEMMA BeginInv ==
  ASSUME IInv, NEW c \in Forms, Begin(c)
  PROVE  IInv'
<1>1. /\ pc = "next" /\ Now < MaxLines /\ Now \in Nat
      /\ session' = Append(session, c) /\ pc' = "run"
      /\ stdout' = Append(stdout, table'[1])
      /\ UNCHANGED <<buffer, cbuffer, raw, res>>
  BY DEF Begin, Now, IInv, TypeOK
<1>2. /\ session' \in Seq(Forms) /\ Now' = Now + 1 /\ Now' \in Line
      /\ Cmd' = c /\ c \in Form /\ Now' <= MaxLines
  BY <1>1, FormsAssumption DEF IInv, TypeOK, Now, Cmd, Line
<1>3. DOMAIN table = 0..2 /\ table[0] = In /\ table[1] \in Place /\ table[2] = Out
  <2>1. 3 \notin DOMAIN table
    BY <1>1 DEF IInv, TableInv, Busy
  <2> QED
    BY <2>1 DEF IInv, TableInv
<1>4. /\ DOMAIN table' \in {0..2, 0..3}
      /\ table'[0] = In /\ table'[1] \in Place /\ table'[2] = Out
      /\ 3 \in DOMAIN table' => table'[3] \in File /\ c.op # "none"
      /\ held' \in [Place -> Seq(Line)]
  <2>1. CASE UNCHANGED <<table, held>>
    BY <1>3, <2>1 DEF IInv, TypeOK
  <2>2. CASE /\ c.op \notin {"none", "<>"}
             /\ table' = Redirected(table, c)
             /\ held' = IF Truncates(c.op) THEN [held EXCEPT ![c.file] = <<>>] ELSE held
    <3>1. /\ DOMAIN table' = 0..3 /\ table'[0] = In /\ table'[1] \in Place
          /\ table'[2] = Out /\ table'[3] \in File
      BY <1>2, <1>3, <2>2, RedirectedTable
    <3>2. held \in [Place -> Seq(Line)] /\ <<>> \in Seq(Line)
      BY DEF IInv, TypeOK
    <3>3. [held EXCEPT ![c.file] = <<>>] \in [Place -> Seq(Line)]
      BY <3>2
    <3>4. held' \in [Place -> Seq(Line)]
      <4>1. CASE Truncates(c.op)
        BY <2>2, <3>3, <4>1
      <4>2. CASE ~Truncates(c.op)
        BY <2>2, <3>2, <4>2
      <4> QED
        BY <4>1, <4>2
    <3> QED
      BY <2>2, <3>1, <3>4
  <2> QED
    BY <2>1, <2>2 DEF Begin
<1>5. DOMAIN table' \subseteq 0..3 /\ \A d \in DOMAIN table' : table'[d] \in Target
  BY <1>4, TargetLemma
<1>6. stdout' \in Seq(Target) /\ Len(stdout') = Now'
  BY <1>1, <1>2, <1>4 DEF IInv, TypeOK, Place, Target
<1>7. TypeOK'
  BY <1>1, <1>2, <1>4, <1>5, <1>6 DEF IInv, TypeOK
<1>8. TableInv'
  BY <1>1, <1>2, <1>4 DEF TableInv, Busy
<1> QED
  BY <1>7, <1>8 DEF IInv

\* Every other step leaves the session as it is, and the table too but for
\* close_fds().
LEMMA StepInv ==
  ASSUME IInv,
         Builtin \/ Fork \/ Exec \/ ExecFails \/ Wait \/ Exit \/ ForkFails
  PROVE  IInv'
<1>1. /\ UNCHANGED <<session, table, stdout>>
      /\ pc \in Busy \/ (pc = "next" /\ pc' = "exited")
      /\ pc' \in Busy \union {"exited", "failed"}
      /\ pc' = "exited" => pc = "next"
  BY DEF Builtin, Fork, Exec, ExecFails, Wait, Exit, ForkFails, Busy
<1>2. \A s \in Seq(Line) : Put(s) => held' \in [Place -> Seq(Line)]
  BY DEF Put, IInv, TypeOK, TableInv
<1>3. buffer \in Seq(Line) /\ cbuffer \in Seq(Line) /\ <<>> \in Seq(Line)
      /\ held \in [Place -> Seq(Line)]
  BY DEF IInv, TypeOK
<1>4. pc \in Busy => /\ <<Now>> \in Seq(Line) /\ Append(buffer, Now) \in Seq(Line)
  BY <1>3 DEF IInv, TableInv
<1>5. /\ held' \in [Place -> Seq(Line)] /\ buffer' \in Seq(Line)
      /\ cbuffer' \in Seq(Line)
  <2>1. CASE Builtin
    BY <1>2, <1>3, <1>4, <2>1 DEF Builtin, Busy
  <2>2. CASE Exec
    BY <1>2, <1>3, <1>4, <2>2 DEF Exec, Busy
  <2>3. CASE ExecFails
    BY <1>2, <1>3, <2>3 DEF ExecFails
  <2>4. CASE Exit \/ ForkFails
    BY <1>2, <1>3, <2>4 DEF Exit, ForkFails
  <2>5. CASE Fork \/ Wait
    BY <1>3, <2>5 DEF Fork, Wait
  <2> QED
    BY <2>1, <2>2, <2>3, <2>4, <2>5
<1>6. raw' \in RawStatus /\ res' \in 0..255
  <2>1. raw' \in RawStatus
    BY DEF Builtin, Fork, Exec, ExecFails, Wait, Exit, ForkFails, IInv, TypeOK, RawStatus
  <2>2. Decode(raw) \in 0..255
    <3>1. 0 \div 256 = 0 /\ 9 \div 256 = 0 /\ 256 \div 256 = 1
      OBVIOUS
    <3>2. raw \in {0, 256, 65280, 9}
      BY DEF IInv, TypeOK, RawStatus, Killed
    <3> QED
      BY <3>1, <3>2 DEF Decode
  <2>3. res' \in {res, 0, Decode(raw)}
    BY DEF Builtin, Fork, Exec, ExecFails, Wait, Exit, ForkFails
  <2>4. res \in 0..255 /\ 0 \in 0..255
    BY DEF IInv, TypeOK
  <2>5. res' \in 0..255
    BY <2>2, <2>3, <2>4
  <2> QED
    BY <2>1, <2>5
<1>7. Now' = Now /\ Cmd' = Cmd
  BY <1>1 DEF Now, Cmd
<1>8. TypeOK'
  BY <1>1, <1>5, <1>6, <1>7 DEF IInv, TypeOK, Busy
<1>9. TableInv'
  BY <1>1, <1>7 DEF IInv, TableInv, Busy
<1> QED
  BY <1>8, <1>9 DEF IInv

LEMMA CloseAfterInv ==
  ASSUME IInv, CloseAfter
  PROVE  IInv'
<1>1. /\ pc = "close" /\ pc' = "next"
      /\ table' = IF Cmd.op = "none" THEN table ELSE CloseFds(table)
      /\ UNCHANGED <<session, buffer, cbuffer, held, stdout, raw, res>>
  BY DEF CloseAfter
<1>2. /\ DOMAIN table' = 0..2
      /\ table'[0] = In /\ table'[1] \in Place /\ table'[2] = Out
  <2>1. CASE Cmd.op = "none"
    BY <1>1, <2>1 DEF IInv, TableInv
  <2>2. CASE Cmd.op # "none"
    BY <1>1, <2>2, ClosedTable DEF IInv, TableInv
  <2> QED
    BY <2>1, <2>2
<1>3. DOMAIN table' \subseteq 0..3 /\ \A d \in DOMAIN table' : table'[d] \in Target
  BY <1>2, TargetLemma
<1>4. TypeOK'
  BY <1>1, <1>3 DEF IInv, TypeOK, Now
<1>5. TableInv'
  BY <1>1, <1>2 DEF TableInv, Busy
<1> QED
  BY <1>4, <1>5 DEF IInv

LEMMA Invariance == Spec => []IInv
<1>1. Init => IInv
  BY InitInv
<1>2. IInv /\ [Next]_vars => IInv'
  <2> SUFFICES ASSUME IInv, [Next]_vars PROVE IInv'
    OBVIOUS
  <2>1. CASE UNCHANGED vars
    BY <2>1 DEF vars, IInv, TypeOK, TableInv, Now, Cmd
  <2> QED
    BY <2>1, BeginInv, StepInv, CloseAfterInv DEF Next
<1> QED
  BY <1>1, <1>2, PTL DEF Spec

\* Types, for every session.
THEOREM TypeCorrect == Spec => []TypeOK
<1>1. IInv => TypeOK
  BY DEF IInv
<1> QED
  BY <1>1, Invariance, PTL

\* No sequence of commands and redirections, of files that can be opened or
\* cannot, makes the shell run out of descriptors or lose its own.
THEOREM ThreeOpenAlways == Spec => []ThreeOpen
<1>1. IInv => ThreeOpen
  BY DEF IInv, TableInv, ThreeOpen, Busy
<1> QED
  BY <1>1, Invariance, PTL

----------------------------------------------------------------------------
(* Where the lines are.                                                    *)

\* Lines belong to commands of the session, and what waits in a buffer was printed
\* by a builtin that does not flush.
Waiting(s) == \A a \in DOMAIN s : s[a] \in 1..Now /\ session[s[a]].run = "print"

LinesInv ==
  /\ Waiting(buffer) /\ Waiting(cbuffer)
  /\ \A p \in Place : \A a \in DOMAIN held[p] : held[p][a] \in 1..Now
  /\ InOrder /\ NothingLost

\* What write() leaves: everything that was there, and behind it what is new.
LEMMA PutLines ==
  ASSUME IInv, NEW s \in Seq(Line), Put(s)
  PROVE  /\ held' \in [Place -> Seq(Line)] /\ table[1] \in Place
         /\ \A p \in Place : p # table[1] => held'[p] = held[p]
         /\ Len(held'[table[1]]) = Len(held[table[1]]) + Len(s)
         /\ \A a \in 1..Len(held[table[1]]) : held'[table[1]][a] = held[table[1]][a]
         /\ \A a \in 1..Len(s) : held'[table[1]][Len(held[table[1]]) + a] = s[a]
         /\ \A a \in DOMAIN held'[table[1]] :
              \/ a \in DOMAIN held[table[1]] /\ held'[table[1]][a] = held[table[1]][a]
              \/ /\ a > Len(held[table[1]]) /\ a - Len(held[table[1]]) \in DOMAIN s
                 /\ held'[table[1]][a] = s[a - Len(held[table[1]])]
<1> DEFINE q == table[1]
           h == held[q]
<1>1. q \in Place /\ held \in [Place -> Seq(Line)] /\ h \in Seq(Line)
  BY DEF IInv, TableInv, TypeOK
<1>2. held' = [held EXCEPT ![q] = h \o s]
  BY DEF Put
<1>3. /\ h \o s \in Seq(Line) /\ Len(h \o s) = Len(h) + Len(s)
      /\ \A a \in 1..Len(h) + Len(s) :
           (h \o s)[a] = IF a <= Len(h) THEN h[a] ELSE s[a - Len(h)]
  BY <1>1, ConcatProperties
<1>4. held'[q] = h \o s /\ held' \in [Place -> Seq(Line)]
      /\ \A p \in Place : p # q => held'[p] = held[p]
  BY <1>1, <1>2, <1>3
<1>5. Len(h) \in Nat /\ Len(s) \in Nat /\ DOMAIN h = 1..Len(h) /\ DOMAIN s = 1..Len(s)
      /\ DOMAIN (h \o s) = 1..Len(h) + Len(s)
  BY <1>1, <1>3
<1> HIDE DEF q, h
<1>6. \A a \in 1..Len(h) : (h \o s)[a] = h[a]
  BY <1>3, <1>5
<1>7. \A a \in 1..Len(s) : (h \o s)[Len(h) + a] = s[a]
  <2> SUFFICES ASSUME NEW a \in 1..Len(s) PROVE (h \o s)[Len(h) + a] = s[a]
    OBVIOUS
  <2>1. Len(h) + a \in 1..Len(h) + Len(s) /\ ~(Len(h) + a <= Len(h)) /\ Len(h) + a - Len(h) = a
    BY <1>5
  <2> QED
    BY <1>3, <2>1
<1>8. ASSUME NEW a \in 1..Len(h) + Len(s)
      PROVE  \/ a \in 1..Len(h) /\ (h \o s)[a] = h[a]
             \/ a > Len(h) /\ a - Len(h) \in 1..Len(s) /\ (h \o s)[a] = s[a - Len(h)]
  BY <1>3, <1>5
<1> QED
  BY <1>1, <1>3, <1>4, <1>5, <1>6, <1>7, <1>8 DEF q, h

\* Lines of commands that do not flush may be written behind anything; so may the
\* line of the last command.
LEMMA PutInOrder ==
  ASSUME IInv, LinesInv, NEW s \in Seq(Line), Put(s), UNCHANGED session, Now \in Nat,
         \A a \in DOMAIN s : s[a] = Now \/ (s[a] \in 1..Now /\ session[s[a]].run = "print"),
         Len(s) = 0 \/ Now \in 1..Now
  PROVE  /\ InOrder'
         /\ \A p \in Place : \A a \in DOMAIN held'[p] : held'[p][a] \in 1..Now
<1> DEFINE q == table[1]
           New(a) == /\ a > Len(held[q]) /\ a - Len(held[q]) \in DOMAIN s
                     /\ held'[q][a] = s[a - Len(held[q])]
           Old(a) == a \in DOMAIN held[q] /\ held'[q][a] = held[q][a]
<1>1. /\ held' \in [Place -> Seq(Line)] /\ q \in Place
      /\ \A p \in Place : p # q => held'[p] = held[p]
      /\ \A a \in DOMAIN held'[q] : Old(a) \/ New(a)
  BY PutLines
<1>2. held \in [Place -> Seq(Line)] /\ s # <<>> => Now \in 1..Now
  BY DEF IInv, TypeOK
<1>3. \A p \in Place : \A a \in DOMAIN held'[p] : held'[p][a] \in 1..Now
  <2> SUFFICES ASSUME NEW p \in Place, NEW a \in DOMAIN held'[p]
               PROVE  held'[p][a] \in 1..Now
    OBVIOUS
  <2>1. CASE p # q
    BY <1>1, <2>1 DEF LinesInv
  <2>2. CASE p = q /\ Old(a)
    BY <1>1, <2>2 DEF LinesInv
  <2>3. CASE p = q /\ New(a)
    <3>1. a - Len(held[q]) \in DOMAIN s /\ DOMAIN s = 1..Len(s)
      BY <2>3
    <3>2. Len(s) # 0
      BY <3>1
    <3> QED
      BY <2>3, <3>1, <3>2
  <2> HIDE DEF Old, New
  <2> QED
    BY <1>1, <2>1, <2>2, <2>3
<1>4. ASSUME NEW p \in Place, NEW a \in DOMAIN held'[p], NEW b \in DOMAIN held'[p], a < b,
             session[held'[p][b]].run \in {"echo", "program"}
      PROVE  held'[p][a] <= held'[p][b]
  <2>1. CASE p # q
    BY <1>1, <1>4, <2>1 DEF LinesInv, InOrder
  <2>2. CASE p = q /\ Old(b)
    <3>1. DOMAIN held[q] = 1..Len(held[q]) /\ DOMAIN held'[q] = 1..Len(held'[q])
          /\ Len(held[q]) \in Nat /\ Len(held'[q]) \in Nat
      BY <1>1, <1>2
    <3>2. ~New(a)
      BY <1>4, <2>2, <3>1
    <3>3. Old(a)
      BY <1>1, <2>2, <3>2
    <3> QED
      BY <1>1, <1>4, <2>2, <3>3 DEF LinesInv, InOrder
  <2>3. CASE p = q /\ New(b)
    <3>1. held'[p][b] = Now
      BY <1>4, <2>3
    <3>2. held'[p][a] \in 1..Now
      BY <1>3
    <3> QED
      BY <3>1, <3>2
  <2> HIDE DEF Old, New
  <2> QED
    BY <1>1, <2>1, <2>2, <2>3
<1>5. InOrder'
  BY <1>4 DEF InOrder
<1> QED
  BY <1>3, <1>5

\* What NothingLost asks of the places
Written(h, l) == \E p \in Place : \E a \in DOMAIN h[p] : h[p][a] = l

\* What was in a place stays in it, and what is written gets into one.
LEMMA PutKeeps ==
  ASSUME IInv, NEW s \in Seq(Line), Put(s), NEW l
  PROVE  /\ Written(held, l) => Written(held', l)
         /\ (\E a \in DOMAIN s : s[a] = l) => Written(held', l)
<1> DEFINE q == table[1]
<1>1. /\ held' \in [Place -> Seq(Line)] /\ q \in Place
      /\ held \in [Place -> Seq(Line)]
      /\ \A p \in Place : p # q => held'[p] = held[p]
      /\ Len(held'[q]) = Len(held[q]) + Len(s)
      /\ \A a \in 1..Len(held[q]) : held'[q][a] = held[q][a]
      /\ \A a \in 1..Len(s) : held'[q][Len(held[q]) + a] = s[a]
  BY PutLines DEF IInv, TypeOK
<1>2. /\ DOMAIN held'[q] = 1..Len(held[q]) + Len(s) /\ DOMAIN held[q] = 1..Len(held[q])
      /\ DOMAIN s = 1..Len(s) /\ Len(held[q]) \in Nat /\ Len(s) \in Nat
  BY <1>1
<1>3. ASSUME Written(held, l) PROVE Written(held', l)
  <2>1. PICK p \in Place : \E a \in DOMAIN held[p] : held[p][a] = l
    BY <1>3 DEF Written
  <2>2. PICK a \in DOMAIN held[p] : held[p][a] = l
    BY <2>1
  <2>3. a \in DOMAIN held'[p] /\ held'[p][a] = l
    <3>1. CASE p # q
      BY <1>1, <2>2, <3>1
    <3>2. CASE p = q
      <4>1. a \in 1..Len(held[q]) /\ a \in 1..Len(held[q]) + Len(s)
        BY <1>2, <2>2, <3>2
      <4>2. a \in DOMAIN held'[q] /\ held'[q][a] = held[q][a]
        BY <1>1, <1>2, <4>1
      <4> QED
        BY <2>2, <3>2, <4>2
    <3> QED
      BY <3>1, <3>2
  <2> QED
    BY <2>1, <2>3 DEF Written
<1>4. ASSUME NEW a \in DOMAIN s, s[a] = l PROVE Written(held', l)
  <2>1. Len(held[q]) + a \in DOMAIN held'[q] /\ held'[q][Len(held[q]) + a] = l
    BY <1>1, <1>2, <1>4
  <2> QED
    BY <1>1, <2>1 DEF Written
<1> QED
  BY <1>3, <1>4

\* The numbers of the session stay what they are.
LEMMA SessionKept ==
  ASSUME IInv, UNCHANGED session
  PROVE  Now' = Now /\ Now \in Nat /\ session \in Seq(Form)
BY FormsAssumption DEF Now, IInv, TypeOK

LEMMA BeginLines ==
  ASSUME IInv, LinesInv, NEW c \in Forms, Begin(c)
  PROVE  LinesInv'
<1>1. /\ session \in Seq(Forms) /\ session' = Append(session, c) /\ Now \in Nat
      /\ Now = Len(session) /\ UNCHANGED <<buffer, cbuffer>>
      /\ pc = "next" /\ pc' = "run"
  BY DEF Begin, IInv, TypeOK, Now
<1>2. /\ Now' = Now + 1 /\ session'[Now + 1] = c
      /\ \A l \in 1..Now : session'[l] = session[l] /\ l \in 1..Now'
  BY <1>1, AppendProperties DEF Now
<1>3. ASSUME NEW s, Waiting(s)
      PROVE  \A a \in DOMAIN s : s[a] \in 1..Now' /\ session'[s[a]].run = "print"
  BY <1>2, <1>3 DEF Waiting
<1>4. Waiting(buffer)' /\ Waiting(cbuffer)'
  BY <1>1, <1>3 DEF Waiting, LinesInv
<1>5. \/ held' = held
      \/ /\ Truncates(c.op) /\ c.file \in Place /\ held' = [held EXCEPT ![c.file] = <<>>]
  <2>1. c.file \in Place
    BY FormsAssumption DEF Form, Place
  <2> QED
    BY <2>1 DEF Begin
<1>6. \A p \in Place : held'[p] = held[p] \/ held'[p] = <<>>
  BY <1>5 DEF IInv, TypeOK
<1>7. \A p \in Place : \A a \in DOMAIN held'[p] : held'[p][a] = held[p][a] /\ a \in DOMAIN held[p]
  BY <1>6
<1>8. \A p \in Place : \A a \in DOMAIN held'[p] : held'[p][a] \in 1..Now'
  BY <1>2, <1>7 DEF LinesInv
<1>9. InOrder'
  <2> SUFFICES ASSUME NEW p \in Place, NEW a \in DOMAIN held'[p], NEW b \in DOMAIN held'[p],
                      a < b, session'[held'[p][b]].run \in {"echo", "program"}
               PROVE  held'[p][a] <= held'[p][b]
    BY DEF InOrder
  <2>1. session'[held[p][b]] = session[held[p][b]]
    BY <1>2, <1>7 DEF LinesInv
  <2> QED
    BY <1>7, <2>1 DEF LinesInv, InOrder
<1>10. NothingLost'
  <2> SUFFICES ASSUME NEW l \in 1..Now', session'[l].run # "missing",
                      l < Now' \/ pc' \in {"wait", "close", "next", "exited"}
               PROVE  \/ Written(held', l)
                      \/ \E a \in DOMAIN buffer' : buffer'[a] = l
                      \/ \E j \in l+1..Now' : Truncates(session'[j].op)
    BY DEF NothingLost, Written, HasLine, Truncates
  <2>1. l \in 1..Now /\ session'[l] = session[l] /\ Now + 1 \in l+1..Now'
    BY <1>1, <1>2
  <2>2. CASE Truncates(c.op)
    BY <1>2, <2>1, <2>2
  <2>3. CASE held' = held
    <3>1. \/ Written(held, l)
          \/ \E a \in DOMAIN buffer : buffer[a] = l
          \/ \E j \in l+1..Now : Truncates(session[j].op)
      BY <1>1, <2>1 DEF LinesInv, NothingLost, Written, HasLine
    <3>2. \A j \in l+1..Now : j \in l+1..Now' /\ session'[j] = session[j]
      BY <1>1, <1>2
    <3> QED
      BY <1>1, <2>3, <3>1, <3>2 DEF Written
  <2> QED
    BY <1>5, <2>2, <2>3
<1> QED
  BY <1>4, <1>8, <1>9, <1>10 DEF LinesInv

\* A step within a command, or the last one, that loses no line
LEMMA StepLines ==
  ASSUME IInv, LinesInv, UNCHANGED session, Waiting(buffer)', Waiting(cbuffer)', InOrder',
         \A p \in Place : \A a \in DOMAIN held'[p] : held'[p][a] \in 1..Now,
         \A l \in 1..Now : Written(held, l) => Written(held', l),
         \A a \in DOMAIN buffer : \/ \E b \in DOMAIN buffer' : buffer'[b] = buffer[a]
                                  \/ Written(held', buffer[a]),
         \/ pc \in {"wait", "close", "next", "exited"}
         \/ pc' \notin {"wait", "close", "next", "exited"}
         \/ Now = 0 \/ Cmd.run = "missing"
         \/ \E b \in DOMAIN buffer' : buffer'[b] = Now
         \/ Written(held', Now)
  PROVE  LinesInv'
<1>1. Now' = Now /\ Now \in Nat
  BY SessionKept
<1>2. NothingLost'
  <2> SUFFICES ASSUME NEW l \in 1..Now, session[l].run # "missing",
                      l < Now \/ pc' \in {"wait", "close", "next", "exited"}
               PROVE  \/ Written(held', l)
                      \/ \E a \in DOMAIN buffer' : buffer'[a] = l
                      \/ \E j \in l+1..Now : Truncates(session[j].op)
    BY <1>1 DEF NothingLost, Written, HasLine, Truncates
  <2>1. CASE l < Now \/ pc \in {"wait", "close", "next", "exited"}
    <3>1. \/ Written(held, l)
          \/ \E a \in DOMAIN buffer : buffer[a] = l
          \/ \E j \in l+1..Now : Truncates(session[j].op)
      BY <2>1 DEF LinesInv, NothingLost, Written, HasLine
    <3> QED
      BY <3>1
  <2>2. CASE ~(l < Now) /\ pc \notin {"wait", "close", "next", "exited"}
    BY <1>1, <2>2 DEF Cmd
  <2> QED
    BY <2>1, <2>2
<1> QED
  BY <1>1, <1>2 DEF LinesInv

\* One that writes nothing
LEMMA QuietLines ==
  ASSUME IInv, LinesInv, UNCHANGED <<session, held>>, Waiting(buffer)', Waiting(cbuffer)',
         \A a \in DOMAIN buffer : \E b \in DOMAIN buffer' : buffer'[b] = buffer[a],
         \/ pc \in {"wait", "close", "next", "exited"}
         \/ pc' \notin {"wait", "close", "next", "exited"}
         \/ \E b \in DOMAIN buffer' : buffer'[b] = Now
  PROVE  LinesInv'
<1>1. InOrder'
  BY DEF LinesInv, InOrder
<1>2. \A p \in Place : \A a \in DOMAIN held'[p] : held'[p][a] \in 1..Now
  BY DEF LinesInv
<1>3. \A l : Written(held, l) => Written(held', l)
  BY DEF Written
<1> QED
  BY <1>1, <1>2, <1>3, StepLines

\* One that writes s
LEMMA WriteLines ==
  ASSUME IInv, LinesInv, NEW s \in Seq(Line), Put(s), UNCHANGED session,
         \A a \in DOMAIN s : s[a] = Now \/ (s[a] \in 1..Now /\ session[s[a]].run = "print"),
         Len(s) = 0 \/ Now \in 1..Now, Waiting(buffer)', Waiting(cbuffer)',
         buffer' = buffer \/ \A a \in DOMAIN buffer : \E b \in DOMAIN s : s[b] = buffer[a],
         \/ pc \in {"wait", "close", "next", "exited"}
         \/ pc' \notin {"wait", "close", "next", "exited"}
         \/ Cmd.run = "missing" \/ \E a \in DOMAIN s : s[a] = Now
  PROVE  LinesInv'
<1>1. Now \in Nat
  BY SessionKept
<1>2. InOrder' /\ \A p \in Place : \A a \in DOMAIN held'[p] : held'[p][a] \in 1..Now
  BY <1>1, PutInOrder
<1>3. \A l : Written(held, l) => Written(held', l)
  BY PutKeeps
<1>4. \A l : (\E a \in DOMAIN s : s[a] = l) => Written(held', l)
  BY PutKeeps
<1>5. \A a \in DOMAIN buffer : \/ \E b \in DOMAIN buffer' : buffer'[b] = buffer[a]
                               \/ Written(held', buffer[a])
  BY <1>4
<1> QED
  BY <1>2, <1>3, <1>4, <1>5, StepLines

\* Each step is one of these.
LEMMA CommandLines ==
  ASSUME IInv, LinesInv, Builtin
  PROVE  LinesInv'
<1>1. /\ pc = "run" /\ Now \in 1..Now /\ Now \in Line /\ buffer \in Seq(Line) /\ Now \in Nat
      /\ UNCHANGED <<session, cbuffer>> /\ Now' = Now /\ Cmd = session[Now]
  BY SessionKept DEF Builtin, IInv, TypeOK, TableInv, Busy, Cmd, Line
<1>2. Waiting(cbuffer)'
  BY <1>1 DEF LinesInv, Waiting
<1> DEFINE s == Append(buffer, Now)
<1>3. /\ s \in Seq(Line) /\ Len(s) = Len(buffer) + 1 /\ DOMAIN s = 1..Len(buffer) + 1
      /\ \A a \in 1..Len(buffer) : s[a] = buffer[a]
      /\ s[Len(buffer) + 1] = Now /\ DOMAIN buffer = 1..Len(buffer) /\ Len(buffer) \in Nat
  BY <1>1, AppendProperties
<1>4. \A a \in DOMAIN buffer : buffer[a] \in 1..Now /\ session[buffer[a]].run = "print"
  BY DEF LinesInv, Waiting
<1> HIDE DEF s
<1>5. (\E a \in DOMAIN s : s[a] = Now) /\ \A a \in DOMAIN buffer : \E b \in DOMAIN s : s[b] = buffer[a]
  BY <1>3
<1>6. \A a \in DOMAIN s : s[a] = Now \/ (s[a] \in 1..Now /\ session[s[a]].run = "print")
  <2> SUFFICES ASSUME NEW a \in DOMAIN s, s[a] # Now
               PROVE  s[a] \in 1..Now /\ session[s[a]].run = "print"
    OBVIOUS
  <2>1. a \in DOMAIN buffer /\ s[a] = buffer[a]
    BY <1>3
  <2> QED
    BY <1>4, <2>1
<1>7. CASE Cmd.run = "echo"
  <2>1. Put(s) /\ buffer' = <<>>
    BY <1>7 DEF Builtin, s
  <2>2. Waiting(buffer)'
    BY <2>1 DEF Waiting
  <2> QED
    BY <1>1, <1>2, <1>3, <1>5, <1>6, <2>1, <2>2, WriteLines
<1>8. CASE Cmd.run # "echo"
  <2>1. buffer' = s /\ held' = held /\ Cmd.run = "print"
    BY <1>8 DEF Builtin, s
  <2>2. Waiting(buffer)'
    BY <1>1, <1>6, <2>1 DEF Waiting
  <2> QED
    BY <1>1, <1>2, <1>5, <2>1, <2>2, QuietLines
<1> QED
  BY <1>7, <1>8

LEMMA ChildLines ==
  ASSUME IInv, LinesInv, Fork \/ Exec \/ ExecFails \/ Wait \/ CloseAfter
  PROVE  LinesInv'
<1>1. UNCHANGED <<session, buffer>>
  BY DEF Fork, Exec, ExecFails, Wait, CloseAfter
<1>2. /\ Now' = Now /\ Now \in Nat /\ buffer \in Seq(Line) /\ cbuffer \in Seq(Line)
      /\ pc = "child" => Now \in 1..Now /\ Now \in Line
  BY <1>1, SessionKept DEF IInv, TypeOK, TableInv, Busy, Line
<1>3. Waiting(buffer)' /\ Waiting(<<>>)' /\ (Waiting(cbuffer) => \A x : x = cbuffer => Waiting(x)')
  BY <1>1, <1>2 DEF LinesInv, Waiting
<1>4. CASE Fork \/ Wait \/ CloseAfter
  <2>1. held' = held /\ cbuffer' \in {buffer, cbuffer}
        /\ (pc \in {"wait", "close"} \/ pc' = "child")
    BY <1>4 DEF Fork, Wait, CloseAfter
  <2>2. Waiting(cbuffer)'
    BY <1>1, <1>2, <2>1 DEF LinesInv, Waiting
  <2> QED
    BY <1>1, <1>3, <2>1, <2>2, QuietLines
<1>5. CASE Exec
  <2>1. Put(<<Now>>) /\ cbuffer' = <<>> /\ pc = "child"
    BY <1>5 DEF Exec
  <2>2. Waiting(cbuffer)'
    BY <2>1 DEF Waiting
  <2>3. <<Now>> \in Seq(Line) /\ DOMAIN <<Now>> = {1} /\ <<Now>>[1] = Now
    BY <1>2, <2>1
  <2> QED
    BY <1>1, <1>2, <1>3, <2>1, <2>2, <2>3, WriteLines
<1>6. CASE ExecFails
  <2>1. Put(cbuffer) /\ cbuffer' = <<>> /\ pc = "child" /\ Cmd.run = "missing"
    BY <1>6 DEF ExecFails
  <2>2. Waiting(cbuffer)'
    BY <2>1 DEF Waiting
  <2>3. \A a \in DOMAIN cbuffer : cbuffer[a] \in 1..Now /\ session[cbuffer[a]].run = "print"
    BY DEF LinesInv, Waiting
  <2> QED
    BY <1>1, <1>2, <1>3, <2>1, <2>2, <2>3, WriteLines
<1> QED
  BY <1>4, <1>5, <1>6

LEMMA LastLines ==
  ASSUME IInv, LinesInv, Exit \/ ForkFails
  PROVE  LinesInv'
<1>1. /\ UNCHANGED <<session, cbuffer>> /\ Put(buffer) /\ buffer' = <<>>
      /\ pc = "next" \/ pc' = "failed"
  BY DEF Exit, ForkFails
<1>2. Now' = Now /\ Now \in Nat /\ buffer \in Seq(Line)
  BY <1>1, SessionKept DEF IInv, TypeOK
<1>3. \A a \in DOMAIN buffer : buffer[a] \in 1..Now /\ session[buffer[a]].run = "print"
  BY DEF LinesInv, Waiting
<1>4. Waiting(buffer)' /\ Waiting(cbuffer)'
  BY <1>1, <1>2 DEF LinesInv, Waiting
<1>5. Len(buffer) = 0 \/ Now \in 1..Now
  <2>1. Len(buffer) # 0 => 1 \in DOMAIN buffer
    BY <1>2
  <2> QED
    BY <1>2, <1>3, <2>1
<1> QED
  BY <1>1, <1>2, <1>3, <1>4, <1>5, WriteLines

LEMMA LinesInvariance == Spec => []LinesInv
<1>1. Init => LinesInv
  BY DEF Init, LinesInv, Waiting, InOrder, NothingLost, Now
<1>2. IInv /\ LinesInv /\ [Next]_vars => LinesInv'
  <2> SUFFICES ASSUME IInv, LinesInv, [Next]_vars PROVE LinesInv'
    OBVIOUS
  <2>1. CASE UNCHANGED vars
    BY <2>1 DEF vars, LinesInv, Waiting, InOrder, NothingLost, HasLine, Truncates, Now
  <2> QED
    BY <2>1, BeginLines, CommandLines, ChildLines, LastLines DEF Next
<1> QED
  BY <1>1, <1>2, Invariance, PTL DEF Spec

\* For every session, over any files: no fork(), failed execution, redirection or
\* exit loses the line of a command that ran, but a redirection that empties a file.
THEOREM NothingLostAlways == Spec => []NothingLost
<1>1. LinesInv => NothingLost
  BY DEF LinesInv
<1> QED
  BY <1>1, LinesInvariance, PTL

\* For every session: no place has the line of an echo or of a program behind that
\* of a later command.
THEOREM InOrderAlways == Spec => []InOrder
<1>1. LinesInv => InOrder
  BY DEF LinesInv
<1> QED
  BY <1>1, LinesInvariance, PTL
=============================================================================
