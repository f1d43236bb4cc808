-------------------------- MODULE TraversalProofs --------------------------
(***************************************************************************)
(* Theorems about Traversal, for every tree, every session and every       *)
(* behaviour of the commands it runs.                                      *)
(***************************************************************************)
EXTENDS Traversal, SequenceTheorems, TLAPS

----------------------------------------------------------------------------
(* The inductive invariant.                                                *)

\* What the recursion of traversal_ast() builds: depths count the loop frames,
\* the condition of a loop is evaluated right above its loop frame, and only a
\* function is called from a condition.
Shape(s) ==
  \A i \in 1..Len(s) :
    /\ s[i].depth = (IF i = 1 THEN 0 ELSE s[i-1].depth)
                      + (IF s[i].k = "loop" THEN 1 ELSE 0)
    /\ s[i].k = "cond" /\ kind[s[i].node] \in {"while", "until"}
         => i > 1 /\ s[i-1].k = "loop"
    /\ s[i].k = "cond" /\ i < Len(s) => s[i+1].k = "func"

\* brk counts at most the loops no break has cut and what negative operands have
\* added since, and is negative only between the end of a loop and the next call
\* of traversal_ast().
Counters ==
  /\ CounterBounds
  /\ broken <= Depth(stack)
  /\ brk <= Depth(stack) - broken + raised
  /\ InCond(stack) => brk >= 0

IInv == TypeOK /\ Shape(stack) /\ Counters

----------------------------------------------------------------------------
(* Lemmas about the stack.                                                 *)

\* Pushing a frame where traversal_ast() or if_cond() pushes one keeps the
\* shape, and adds one to the depth when the frame is a loop.
LEMMA PushShape ==
  ASSUME NEW s \in Seq(Frame), Shape(s),
         NEW k \in FrameKind, NEW n \in Node, NEW v \in Nat,
         InCond(s) => k = "func",
         k = "cond" /\ kind[n] \in {"while", "until"}
           => s # <<>> /\ s[Len(s)].k = "loop"
  PROVE  /\ Push(s, k, n, v) \in Seq(Frame)
         /\ Shape(Push(s, k, n, v))
         /\ Depth(s) \in Nat
         /\ Depth(Push(s, k, n, v)) = Depth(s) + (IF k = "loop" THEN 1 ELSE 0)
         /\ InCond(Push(s, k, n, v)) <=> k = "cond"
<1> DEFINE t == Push(s, k, n, v)
           fr == [k |-> k, node |-> n, v |-> v,
                  depth |-> Depth(s) + (IF k = "loop" THEN 1 ELSE 0)]
<1>1. Depth(s) \in Nat
  <2>1. s # <<>> => s[Len(s)] \in Frame
    OBVIOUS
  <2> QED
    BY <2>1 DEF Depth, Frame
<1>2. fr \in Frame
  BY <1>1 DEF Frame
<1>3. t = Append(s, fr)
  BY DEF Push
<1>4. t \in Seq(Frame) /\ Len(t) = Len(s) + 1 /\ t[Len(t)] = fr
  BY <1>2, <1>3
<1>5. \A i \in 1..Len(s) : t[i] = s[i]
  BY <1>2, <1>3
<1>6. Depth(t) = Depth(s) + (IF k = "loop" THEN 1 ELSE 0)
  BY <1>4 DEF Depth
<1>7. InCond(t) <=> k = "cond"
  BY <1>4 DEF InCond
<1>8. Shape(t)
  <2> SUFFICES ASSUME NEW i \in 1..Len(t)
               PROVE  /\ t[i].depth = (IF i = 1 THEN 0 ELSE t[i-1].depth)
                                        + (IF t[i].k = "loop" THEN 1 ELSE 0)
                      /\ t[i].k = "cond" /\ kind[t[i].node] \in {"while", "until"}
                           => i > 1 /\ t[i-1].k = "loop"
                      /\ t[i].k = "cond" /\ i < Len(t) => t[i+1].k = "func"
    BY DEF Shape
  <2>1. CASE i = Len(t)
    <3>1. t[i] = fr
      BY <1>4, <2>1
    <3>2. Depth(s) = IF i = 1 THEN 0 ELSE t[i-1].depth
      BY <1>4, <1>5, <2>1 DEF Depth
    <3>3. i > 1 => t[i-1] = s[Len(s)]
      BY <1>4, <1>5, <2>1
    <3> QED
      BY <1>4, <2>1, <3>1, <3>2, <3>3
  <2>2. CASE i # Len(t)
    <3>1. i \in 1..Len(s) /\ t[i] = s[i] /\ (i > 1 => t[i-1] = s[i-1])
      BY <1>4, <1>5, <2>2
    <3>2. i < Len(s) => t[i+1] = s[i+1]
      BY <1>5, <3>1
    <3>3. i = Len(s) => t[i+1] = fr
      BY <1>4
    <3>4. t[i].k = "cond" => t[i+1].k = "func"
      BY <3>1, <3>2, <3>3 DEF Shape, InCond
    <3> QED
      BY <3>1, <3>4 DEF Shape
  <2> QED
    BY <2>1, <2>2
<1> QED
  BY <1>1, <1>4, <1>6, <1>7, <1>8

\* Popping keeps the shape, and takes one from the depth when the top is a loop.
LEMMA PopShape ==
  ASSUME NEW s \in Seq(Frame), Shape(s), s # <<>>
  PROVE  /\ s[Len(s)] \in Frame
         /\ Pop(s) \in Seq(Frame)
         /\ Shape(Pop(s))
         /\ Depth(Pop(s)) \in Nat
         /\ Depth(s) = Depth(Pop(s)) + (IF s[Len(s)].k = "loop" THEN 1 ELSE 0)
         /\ InCond(Pop(s)) => s[Len(s)].k = "func"
         /\ s[Len(s)].k = "cond" /\ kind[s[Len(s)].node] \in {"while", "until"}
              => Pop(s) # <<>> /\ Pop(s)[Len(Pop(s))].k = "loop"
<1> DEFINE t == Pop(s)
<1>0. Len(s) \in Nat /\ Len(s) > 0
  OBVIOUS
<1>1. Len(s) \in Nat /\ Len(s) > 0 /\ s[Len(s)] \in Frame
  OBVIOUS
<1>2. /\ t \in Seq(Frame) /\ Len(t) = Len(s) - 1
      /\ \A i \in 1..Len(s) - 1 : t[i] = s[i]
  <2>0. \A l \in Nat : l > 0 => l - 1 \in Nat
    OBVIOUS
  <2> DEFINE m == Len(s) - 1
  <2>1. m \in Nat
    BY <1>0, <2>0
  <2>2. \A i \in 1..m : s[i] \in Frame
    <3>1. \A i \in 1..Len(s) : s[i] \in Frame
      OBVIOUS
    <3> QED
      BY <1>1, <3>1
  <2> HIDE DEF m
  <2>3. /\ SubSeq(s, 1, m) \in Seq(Frame)
        /\ Len(SubSeq(s, 1, m)) = IF 1 <= m THEN m - 1 + 1 ELSE 0
        /\ \A i \in 1..m - 1 + 1 : SubSeq(s, 1, m)[i] = s[1 + i - 1]
    BY <2>1, <2>2, SubSeqProperties
  <2>4. m - 1 + 1 = m /\ \A i \in 1..m : 1 + i - 1 = i
    BY <2>1
  <2>5. t = SubSeq(s, 1, m)
    BY DEF m, Pop
  <2>6. t \in Seq(Frame) /\ Len(t) = m /\ \A i \in 1..m : t[i] = s[i]
    BY <2>1, <2>3, <2>4, <2>5
  <2> QED
    BY <2>6 DEF m
<1> HIDE DEF t
<1>3. \A i \in 1..Len(t) : t[i] = s[i]
  BY <1>1, <1>2
<1>4. Shape(t)
  <2> SUFFICES ASSUME NEW i \in 1..Len(t)
               PROVE  /\ t[i].depth = (IF i = 1 THEN 0 ELSE t[i-1].depth)
                                        + (IF t[i].k = "loop" THEN 1 ELSE 0)
                      /\ t[i].k = "cond" /\ kind[t[i].node] \in {"while", "until"}
                           => i > 1 /\ t[i-1].k = "loop"
                      /\ t[i].k = "cond" /\ i < Len(t) => t[i+1].k = "func"
    BY DEF Shape
  <2>1. i \in 1..Len(s) /\ t[i] = s[i] /\ (i > 1 => t[i-1] = s[i-1])
    BY <1>1, <1>2
  <2>2. i < Len(t) => i < Len(s) /\ t[i+1] = s[i+1]
    BY <1>1, <1>2
  <2> QED
    BY <2>1, <2>2 DEF Shape
<1>5. Depth(t) = (IF Len(s) = 1 THEN 0 ELSE s[Len(s) - 1].depth)
  BY <1>1, <1>2, <1>3 DEF Depth
<1>6. Depth(t) \in Nat
  <2>1. t # <<>> => t[Len(t)] \in Frame
    BY <1>2
  <2> QED
    BY <2>1 DEF Depth, Frame
<1>7. Depth(s) = Depth(t) + (IF s[Len(s)].k = "loop" THEN 1 ELSE 0)
  <2>1. Len(s) \in 1..Len(s)
    BY <1>0
  <2>2. Depth(s) = s[Len(s)].depth
    BY <1>0 DEF Depth
  <2>3. s[Len(s)].depth = (IF Len(s) = 1 THEN 0 ELSE s[Len(s) - 1].depth)
                            + (IF s[Len(s)].k = "loop" THEN 1 ELSE 0)
    BY <2>1 DEF Shape
  <2> QED
    BY <1>5, <2>2, <2>3
<1>8. InCond(t) => s[Len(s)].k = "func"
  <2> SUFFICES ASSUME t # <<>>, t[Len(t)].k = "cond"
               PROVE  s[Len(s)].k = "func"
    BY DEF InCond
  <2> DEFINE i == Len(s) - 1
  <2>1. i \in 1..Len(s) /\ i = Len(t) /\ i < Len(s) /\ i + 1 = Len(s)
    BY <1>1, <1>2
  <2>2. s[i].k = "cond"
    BY <1>2, <2>1
  <2> HIDE DEF i
  <2> QED
    BY <2>1, <2>2 DEF Shape
<1>9. ASSUME s[Len(s)].k = "cond",
             kind[s[Len(s)].node] \in {"while", "until"}
      PROVE  t # <<>> /\ t[Len(t)].k = "loop"
  BY <1>1, <1>2, <1>3, <1>9 DEF Shape
<1> QED
  BY <1>1, <1>2, <1>4, <1>6, <1>7, <1>8, <1>9 DEF t

----------------------------------------------------------------------------
(* Lemmas about single operators.                                          *)

\* get_next_node() returns a node or null.
LEMMA NextNodeType ==
  ASSUME NEW o \in Link, NEW r
  PROVE  GetNextNode(o, r) \in Link
<1>1. CASE o = Nil
  BY <1>1 DEF GetNextNode, Link
<1>2. CASE o \in Node
  <2>1. next[o] \in Link /\ OperFrom(next[o]) \in Link /\ o # Nil
    BY <1>2, TreeType DEF OperFrom, Link
  <2>2. kind[o] = "redir" => next[next[o]] \in Link
    BY <1>2, <2>1, TreeType, TreeShape DEF Link
  <2>3. kind[o] = "and" => GetNextNode(o, r) \in Link
    BY <2>1 DEF GetNextNode
  <2>4. kind[o] = "or" => GetNextNode(o, r) \in Link
    BY <2>1 DEF GetNextNode
  <2> QED
    BY <2>1, <2>2, <2>3, <2>4 DEF GetNextNode
<1> QED
  BY <1>1, <1>2 DEF Link

\* So do the three tests of if_cond(), when they do not dereference null.
LEMMA CondNextType ==
  ASSUME NEW c \in Link, NEW r, ~CondFaults(c, r)
  PROVE  CondNext(c, r) \in Link
<1>1. CASE c = Nil
  BY <1>1 DEF CondNext, Link
<1>2. CASE c # Nil
  <2>1. PassAnd(c, r) \in Link
    BY NextNodeType DEF PassAnd
  <2>2. PassOr(PassAnd(c, r), r) \in Link
    BY <2>1, NextNodeType DEF PassOr
  <2>3. PassOr(PassAnd(c, r), r) \in Node
    BY <1>2, <2>2 DEF CondFaults, Link
  <2> QED
    BY <1>2, <2>3, TreeType DEF CondNext, PassSemi, Link
<1> QED
  BY <1>1, <1>2

\* What every instruction leaves, whichever function called it.
LEMMA ProceedType ==
  ASSUME NEW c \in Link, NEW r \in Nat, NEW s, Proceed(c, r, s)
  PROVE  /\ cur' \in Link /\ phase' \in {"run", "crashed"}
         /\ res' \in Nat /\ stack' = s
<1>1. cur' \in Link /\ phase' \in {"run", "crashed"}
  <2>1. CASE InCond(s) /\ CondFaults(c, r)
    BY <2>1 DEF Proceed, Link
  <2>2. CASE ~(InCond(s) /\ CondFaults(c, r))
    BY <2>2, CondNextType DEF Proceed
  <2> QED
    BY <2>1, <2>2
<1> QED
  BY <1>1 DEF Proceed

\* traversal_ast() starts with a brk that is not negative, and that obeys the
\* bounds brk obeyed.
LEMMA EnteredBounds ==
  ASSUME IInv
  PROVE  /\ Entered \in Nat /\ Depth(stack) \in Nat
         /\ nbparent <= Entered
         /\ Entered <= Depth(stack) - broken + raised
<1>1. Depth(stack) \in Nat
  <2>1. stack # <<>> => stack[Len(stack)] \in Frame
    BY DEF IInv, TypeOK
  <2> QED
    BY <2>1 DEF Depth, Frame
<1>2. /\ brk \in Int /\ nbparent \in Int /\ broken \in Nat /\ raised \in Nat
      /\ nbparent <= brk /\ broken <= Depth(stack)
      /\ brk <= Depth(stack) - broken + raised
      /\ InCond(stack) => brk >= 0
  BY DEF IInv, TypeOK, Counters, CounterBounds
<1>3. CASE brk < 0
  BY <1>1, <1>2, <1>3 DEF Entered
<1>4. CASE brk >= 0
  BY <1>1, <1>2, <1>4 DEF Entered
<1> QED
  BY <1>2, <1>3, <1>4

\* A step that neither opens nor closes a loop and only enters traversal_ast().
LEMMA KeepsCounters ==
  ASSUME IInv, brk' = Entered, UNCHANGED <<nbparent, broken, raised>>,
         Depth(stack') = Depth(stack)
  PROVE  Counters'
<1>1. /\ Entered \in Nat /\ Depth(stack) \in Nat
      /\ nbparent <= Entered /\ Entered <= Depth(stack) - broken + raised
  BY EnteredBounds
<1>2. -1 <= nbparent /\ nbparent \in Int /\ broken \in Nat /\ raised \in Nat /\ broken <= Depth(stack)
  BY DEF IInv, TypeOK, Counters, CounterBounds
<1>3. Counters' <=>
        /\ -1 <= nbparent' /\ nbparent' <= brk' /\ brk' <= Depth(stack') + raised'
        /\ broken' <= Depth(stack') /\ brk' <= Depth(stack') - broken' + raised'
        /\ InCond(stack') => brk' >= 0
  BY DEF Counters, CounterBounds, Depth, InCond
<1>4. 0 <= Entered /\ Entered <= Depth(stack) + raised
  BY <1>1, <1>2
<1> QED
  BY <1>1, <1>2, <1>3, <1>4

----------------------------------------------------------------------------
(* IInv is inductive: one lemma per group of actions.                      *)

\* Where the step leaves stack as it is, or only replaces the node under work.
LEMMA StackKept ==
  ASSUME IInv, stack' = stack, brk' = Entered, UNCHANGED <<nbparent, broken, raised>>
  PROVE  Shape(stack)' /\ Counters'
<1>1. Depth(stack') = Depth(stack)
  OBVIOUS
<1> QED
  BY <1>1, KeepsCounters DEF IInv, Shape

\* Where it pushes a frame that is not a loop.
LEMMA StackPushed ==
  ASSUME IInv, NEW k \in FrameKind \ {"loop"}, NEW n \in Node, NEW v \in Nat,
         InCond(stack) => k = "func",
         k = "cond" /\ kind[n] \in {"while", "until"}
           => stack # <<>> /\ stack[Len(stack)].k = "loop",
         stack' = Push(stack, k, n, v), brk' = Entered, UNCHANGED <<nbparent, broken, raised>>
  PROVE  stack' \in Seq(Frame) /\ Shape(stack)' /\ Counters'
<1>1. stack \in Seq(Frame) /\ Shape(stack)
  BY DEF IInv, TypeOK
<1>2. /\ stack' \in Seq(Frame) /\ Shape(stack')
      /\ Depth(stack) \in Nat /\ Depth(stack') = Depth(stack)
  BY <1>1, PushShape
<1> QED
  BY <1>2, KeepsCounters DEF Shape

\* Where it pops a frame that is not a loop.
LEMMA StackPopped ==
  ASSUME IInv, stack # <<>>, Top.k # "loop",
         stack' = Pop(stack), brk' = Entered, UNCHANGED <<nbparent, broken, raised>>
  PROVE  stack' \in Seq(Frame) /\ Shape(stack)' /\ Counters'
<1>1. stack \in Seq(Frame) /\ Shape(stack)
  BY DEF IInv, TypeOK
<1>2. /\ stack' \in Seq(Frame) /\ Shape(stack')
      /\ Depth(stack) \in Nat /\ Depth(stack') = Depth(stack)
  BY <1>1, PopShape DEF Top
<1> QED
  BY <1>2, KeepsCounters DEF Shape

\* Instructions: a command, nothing, exit, break, continue, a call, a declaration.
LEMMA InstructionInv ==
  ASSUME IInv, Instruction
  PROVE  IInv'
<1>1. /\ cur \in Node /\ stack \in Seq(Frame) /\ phase = "run" /\ res \in Nat
      /\ nbparam \in Nat /\ live \in BOOLEAN /\ funcs \in [Name -> Link]
      /\ line \in Lines /\ broken \in Nat /\ raised \in Nat /\ nbparent \in Int
      /\ name[cur] \in Name /\ body[cur] \in Link /\ next[cur] \in Link
      /\ oper[cur] \in Link /\ pipeEnd[cur] \in Link
  BY TreeType DEF IInv, TypeOK, Instruction, ExecCommand, RunsCommand, ExecNothing,
     ExecExit, Break, Continue, Call, Declare, At, Link
<1>2. Entered \in Nat
  BY EnteredBounds
<1>3. CASE ExecCommand
  <2>1. PICK r \in Status : Proceed(GetNextNode(pipeEnd[cur], r), r, stack)
    BY <1>3 DEF ExecCommand
  <2>2. r \in Nat /\ GetNextNode(pipeEnd[cur], r) \in Link
    BY <1>1, NextNodeType, TreeType
  <2>3. /\ cur' \in Link /\ phase' \in {"run", "crashed"}
        /\ res' \in Nat /\ stack' = stack
    BY <2>1, <2>2, ProceedType
  <2>4. brk' = Entered /\ UNCHANGED <<nbparent, broken, raised, params, funcs, line>>
    BY <1>3 DEF ExecCommand
  <2>5. TypeOK'
    BY <1>1, <1>2, <2>3, <2>4 DEF TypeOK, params
  <2> QED
    BY <2>3, <2>4, <2>5, StackKept DEF IInv
<1>4. CASE ExecNothing
  <2>1. TypeOK'
    BY <1>1, <1>2, <1>4 DEF TypeOK, params, ExecNothing, Crash, Link
  <2> QED
    BY <1>4, <2>1, StackKept DEF IInv, ExecNothing, Crash
<1>5. CASE ExecExit
  <2>1. TypeOK'
    BY <1>1, <1>2, <1>5 DEF TypeOK, params, ExecExit, Link
  <2> QED
    BY <1>5, <2>1, StackKept DEF IInv, ExecExit
<1>6. CASE Break
  <2>1. Nil \in Link /\ Proceed(Nil, 0, stack) /\ UNCHANGED <<params, funcs, line>>
    BY <1>6 DEF Break, Link
  <2>2. /\ cur' \in Link /\ phase' \in {"run", "crashed"}
        /\ res' \in Nat /\ stack' = stack
    BY <2>1, ProceedType
  <2>3. count[cur] \in Int
    BY <1>1, TreeType
  <2>4. BreakCounters(count[cur], Entered)
    BY <1>6 DEF Break
  <2>5. /\ Entered \in Nat /\ Depth(stack) \in Nat
        /\ nbparent <= Entered /\ Entered <= Depth(stack) - broken + raised
    BY EnteredBounds
  <2>6. /\ brk' \in Nat /\ nbparent' \in Int /\ broken' \in Nat /\ raised' \in Nat
        /\ -1 <= nbparent' /\ nbparent' <= brk'
        /\ broken' <= Depth(stack) /\ brk' <= Depth(stack) - broken' + raised'
    <3>1. -1 <= nbparent /\ broken <= Depth(stack)
      BY DEF IInv, Counters, CounterBounds
    <3>2. CASE nbparent = 0
      BY <1>1, <2>4, <2>5, <3>1, <3>2 DEF BreakCounters
    <3>3. CASE nbparent # 0 /\ count[cur] < nbparent
      <4> DEFINE k == count[cur]
      <4>1. /\ brk' = Entered - k /\ nbparent' = nbparent - k
            /\ raised' = Raise(k) /\ broken' = broken
        BY <2>4, <3>3 DEF BreakCounters
      <4>2. k \in Int /\ k < nbparent
        BY <2>3, <3>3
      <4> HIDE DEF k
      <4>3. CASE k < 0
        BY <1>1, <2>5, <3>1, <4>1, <4>2, <4>3 DEF Raise
      <4>4. CASE k >= 0
        BY <1>1, <2>5, <3>1, <4>1, <4>2, <4>4 DEF Raise
      <4> QED
        BY <4>2, <4>3, <4>4
    <3>4. CASE nbparent # 0 /\ ~(count[cur] < nbparent)
      BY <1>1, <2>4, <2>5, <3>1, <3>4 DEF BreakCounters
    <3> QED
      BY <3>2, <3>3, <3>4
  <2>7. TypeOK'
    BY <1>1, <2>1, <2>2, <2>6 DEF TypeOK, params
  <2>8. Counters'
    BY <2>2, <2>5, <2>6 DEF Counters, CounterBounds
  <2> QED
    BY <2>2, <2>7, <2>8 DEF IInv
<1>7. CASE Continue
  <2>1. /\ Nil \in Link /\ Proceed(Nil, 0, stack)
        /\ brk' = Entered /\ UNCHANGED <<nbparent, broken, raised, params, funcs, line>>
    BY <1>7 DEF Continue, Link
  <2>2. /\ cur' \in Link /\ phase' \in {"run", "crashed"}
        /\ res' \in Nat /\ stack' = stack
    BY <2>1, ProceedType
  <2>3. TypeOK'
    BY <1>1, <1>2, <2>1, <2>2 DEF TypeOK, params
  <2> QED
    BY <2>1, <2>2, <2>3, StackKept DEF IInv
<1>8. CASE Call
  <2>1. /\ stack' = Push(stack, "func", cur, 0) /\ brk' = Entered
        /\ UNCHANGED <<phase, res, nbparent, broken, raised, funcs, line>>
        /\ cur' = funcs[name[cur]] /\ nbparam' = count[cur] /\ live' = TRUE
        /\ kind[cur] = "call"
    BY <1>8 DEF Call, At
  <2>2. "func" \in FrameKind \ {"loop"}
    BY DEF FrameKind
  <2>3. stack' \in Seq(Frame) /\ Shape(stack)' /\ Counters'
    BY <1>1, <2>1, <2>2, StackPushed
  <2>4. count[cur] \in Nat /\ funcs[name[cur]] \in Link
    BY <1>1, <2>1, TreeType
  <2>5. TypeOK'
    BY <1>1, <1>2, <2>1, <2>3, <2>4 DEF TypeOK
  <2> QED
    BY <2>3, <2>5 DEF IInv
<1>9. CASE Declare
  <2>1. /\ stack' = stack /\ brk' = Entered
        /\ UNCHANGED <<res, nbparent, broken, raised, params, line>>
    BY <1>9 DEF Declare
  <2>2. /\ phase' \in {"run", "undefined"} /\ cur' \in Link
        /\ funcs' \in [Name -> Link]
    BY <1>1, <1>9, TreeType DEF Declare, Link
  <2>3. TypeOK'
    BY <1>1, <1>2, <2>1, <2>2 DEF TypeOK, params
  <2> QED
    BY <2>1, <2>3, StackKept DEF IInv
<1> QED
  BY <1>3, <1>4, <1>5, <1>6, <1>7, <1>8, <1>9 DEF Instruction

\* A loop frame is pushed: brk and the depth go up together.
LEMMA LoopPushed ==
  ASSUME IInv, NEW n \in Node, NEW v \in Nat, ~InCond(stack)
  PROVE  /\ Push(stack, "loop", n, v) \in Seq(Frame)
         /\ Shape(Push(stack, "loop", n, v))
         /\ Depth(Push(stack, "loop", n, v)) = Depth(stack) + 1
         /\ ~InCond(Push(stack, "loop", n, v))
         /\ Push(stack, "loop", n, v) # <<>>
         /\ Push(stack, "loop", n, v)[Len(Push(stack, "loop", n, v))].k = "loop"
<1>1. stack \in Seq(Frame) /\ Shape(stack) /\ "loop" \in FrameKind
  BY DEF IInv, TypeOK, FrameKind
<1> DEFINE fr == [k |-> "loop", node |-> n, v |-> v, depth |-> Depth(stack) + 1]
<1>2. fr \in Frame
  BY <1>1, EnteredBounds DEF Frame
<1>3. Push(stack, "loop", n, v) = Append(stack, fr)
  BY DEF Push
<1>4. /\ Push(stack, "loop", n, v) # <<>>
      /\ Push(stack, "loop", n, v)[Len(Push(stack, "loop", n, v))] = fr
  BY <1>1, <1>2, <1>3
<1>5. /\ Push(stack, "loop", n, v) \in Seq(Frame)
      /\ Shape(Push(stack, "loop", n, v))
      /\ Depth(Push(stack, "loop", n, v)) = Depth(stack) + (IF "loop" = "loop" THEN 1 ELSE 0)
      /\ InCond(Push(stack, "loop", n, v)) <=> "loop" = "cond"
  BY <1>1, PushShape
<1> QED
  BY <1>4, <1>5

\* The bounds after a loop was entered, whatever is pushed above its frame.
LEMMA LoopEnterCounters ==
  ASSUME IInv, LoopEnter, Depth(stack') = Depth(stack) + 1
  PROVE  Counters' /\ brk' \in Nat /\ nbparent' \in Int /\ broken' \in Nat /\ raised' \in Nat
<1>1. /\ Entered \in Nat /\ Depth(stack) \in Nat
      /\ nbparent <= Entered /\ Entered <= Depth(stack) - broken + raised
  BY EnteredBounds
<1>2. -1 <= nbparent /\ nbparent \in Int /\ broken \in Nat /\ raised \in Nat /\ broken <= Depth(stack)
  BY DEF IInv, TypeOK, Counters, CounterBounds
<1>3. /\ brk' = Entered + 1 /\ nbparent' = nbparent + 1
      /\ broken' = broken /\ raised' = raised
  BY DEF LoopEnter
<1>4. Counters' <=>
        /\ -1 <= nbparent' /\ nbparent' <= brk' /\ brk' <= Depth(stack') + raised'
        /\ broken' <= Depth(stack') /\ brk' <= Depth(stack') - broken' + raised'
        /\ InCond(stack') => brk' >= 0
  BY DEF Counters, CounterBounds, Depth, InCond
<1>5. Entered <= Depth(stack) + raised
  BY <1>1, <1>2
<1> QED
  BY <1>1, <1>2, <1>3, <1>4, <1>5

\* The nodes traversal_ast() handles without instr_execution().
LEMMA VisitInv ==
  ASSUME IInv, Visit
  PROVE  IInv'
<1>0. phase = "run" /\ cur # Nil /\ ~InCond(stack)
  BY DEF Visit, AndOrNode, PassNode, Step, IfEnter, CaseEnter, WhileEnter, ForEnter, At
<1>1. /\ cur \in Node /\ stack \in Seq(Frame) /\ phase = "run" /\ res \in Nat
      /\ nbparam \in Nat /\ live \in BOOLEAN /\ funcs \in [Name -> Link]
      /\ line \in Lines /\ broken \in Nat /\ raised \in Nat /\ nbparent \in Int
      /\ ~InCond(stack) /\ Shape(stack)
      /\ body[cur] \in Link /\ next[cur] \in Link /\ cond[cur] \in Link
      /\ arms[cur] \subseteq Node
  BY <1>0, TreeType DEF IInv, TypeOK, Link
<1>2. Entered \in Nat
  BY EnteredBounds
<1>3. CASE AndOrNode \/ PassNode
  <2>1. /\ stack' = stack /\ brk' = Entered
        /\ UNCHANGED <<phase, res, nbparent, broken, raised, params, funcs, line>>
    BY <1>3 DEF AndOrNode, PassNode, Step
  <2>2. cur' = GetNextNode(cur, res) \/ cur' = next[cur]
    BY <1>3 DEF AndOrNode, PassNode, Step
  <2>3. cur' \in Link
    BY <1>1, <2>2, NextNodeType DEF Link
  <2>4. TypeOK'
    BY <1>1, <1>2, <2>1, <2>3 DEF TypeOK, params
  <2> QED
    BY <2>1, <2>4, StackKept DEF IInv
<1>4. CASE IfEnter
  <2>1. /\ stack' = Push(stack, "cond", cur, res) /\ brk' = Entered
        /\ cur' = cond[cur] /\ res' = 0
        /\ UNCHANGED <<phase, nbparent, broken, raised, params, funcs, line>>
        /\ kind[cur] = "if"
    BY <1>4 DEF IfEnter, At
  <2>2. "cond" \in FrameKind \ {"loop"}
    BY DEF FrameKind
  <2>3. stack' \in Seq(Frame) /\ Shape(stack)' /\ Counters'
    BY <1>1, <2>1, <2>2, StackPushed
  <2>4. TypeOK'
    BY <1>1, <1>2, <2>1, <2>3 DEF TypeOK, params
  <2> QED
    BY <2>3, <2>4 DEF IInv
<1>5. CASE CaseEnter
  <2>1. /\ stack' = Push(stack, "seq", cur, 0) /\ brk' = Entered
        /\ cur' \in arms[cur] \union {Nil}
        /\ UNCHANGED <<phase, res, nbparent, broken, raised, params, funcs, line>>
    BY <1>5 DEF CaseEnter
  <2>2. "seq" \in FrameKind \ {"loop"}
    BY DEF FrameKind
  <2>3. stack' \in Seq(Frame) /\ Shape(stack)' /\ Counters'
    BY <1>1, <2>1, <2>2, StackPushed
  <2>4. TypeOK'
    BY <1>1, <1>2, <2>1, <2>3 DEF TypeOK, params, Link
  <2> QED
    BY <2>3, <2>4 DEF IInv
<1>6. CASE WhileEnter
  <2> DEFINE s == Push(stack, "loop", cur, 0)
  <2>1. /\ stack' = Push(s, "cond", cur, res) /\ LoopEnter
        /\ cur' = cond[cur] /\ res' = 0 /\ phase' = phase
    BY <1>6 DEF WhileEnter
  <2>2. /\ s \in Seq(Frame) /\ Shape(s) /\ Depth(s) = Depth(stack) + 1
        /\ ~InCond(s) /\ s # <<>> /\ s[Len(s)].k = "loop"
    BY <1>1, LoopPushed
  <2> HIDE DEF s
  <2>3. "cond" \in FrameKind
    BY DEF FrameKind
  <2>4. /\ stack' \in Seq(Frame) /\ Shape(stack')
        /\ Depth(s) \in Nat
        /\ Depth(stack') = Depth(s) + (IF "cond" = "loop" THEN 1 ELSE 0)
    BY <1>1, <2>1, <2>2, <2>3, PushShape
  <2>5. Counters' /\ brk' \in Nat /\ nbparent' \in Int /\ broken' \in Nat /\ raised' \in Nat
    BY <2>1, <2>2, <2>4, LoopEnterCounters
  <2>6. UNCHANGED <<broken, raised, params, funcs, line>>
    BY <2>1 DEF LoopEnter
  <2>7. TypeOK'
    BY <1>1, <2>1, <2>4, <2>5, <2>6 DEF TypeOK, params
  <2> QED
    BY <2>4, <2>5, <2>7 DEF IInv, Shape
<1>7. CASE ForEnter
  <2>1. /\ stack' = Push(stack, "loop", cur, Words(cur)) /\ LoopEnter
        /\ cur' = Nil /\ res' = res /\ phase' \in {"run", "undefined"}
        /\ kind[cur] = "for"
    BY <1>7 DEF ForEnter, At
  <2>2. Words(cur) \in Nat
    BY <1>1, <2>1, TreeType DEF Words
  <2> DEFINE w == Words(cur)
  <2> HIDE DEF w
  <2>7. w \in Nat /\ stack' = Push(stack, "loop", cur, w)
    BY <2>1, <2>2 DEF w
  <2>3. /\ stack' \in Seq(Frame) /\ Shape(stack')
        /\ Depth(stack') = Depth(stack) + 1
    BY <1>1, <2>7, LoopPushed
  <2>4. Counters' /\ brk' \in Nat /\ nbparent' \in Int /\ broken' \in Nat /\ raised' \in Nat
    BY <2>1, <2>3, LoopEnterCounters
  <2>5. UNCHANGED <<broken, raised, params, funcs, line>>
    BY <2>1 DEF LoopEnter
  <2>6. TypeOK'
    BY <1>1, <2>1, <2>3, <2>4, <2>5 DEF TypeOK, params, Link
  <2> QED
    BY <2>3, <2>4, <2>6 DEF IInv, Shape
<1> QED
  BY <1>3, <1>4, <1>5, <1>6, <1>7 DEF Visit

\* A loop frame is popped, leaving stack t and brk b.
LEMMA LoopLeft ==
  ASSUME IInv, NEW t \in Seq(Frame), Shape(t), Depth(t) \in Nat,
         Depth(stack) = Depth(t) + 1, ~InCond(t), LoopLeave(t),
         NEW b \in Nat, nbparent <= b, b <= Depth(stack) - broken + raised,
         brk' = b - 1 \/ (b = 0 /\ brk' = 0)
  PROVE  /\ Counters' /\ Shape(stack)' /\ stack' \in Seq(Frame)
         /\ brk' \in Int /\ nbparent' \in Int /\ broken' \in Nat /\ raised' \in Nat
<1>1. /\ -1 <= nbparent /\ nbparent \in Int /\ broken \in Nat /\ raised \in Nat
      /\ broken <= Depth(stack)
  BY DEF IInv, TypeOK, Counters, CounterBounds
<1>2. /\ nbparent' = IF nbparent >= 0 THEN nbparent - 1 ELSE nbparent
      /\ broken' = IF broken > Depth(t) THEN Depth(t) ELSE broken
      /\ stack' = t /\ raised' = raised
  BY DEF LoopLeave
<1>3. brk' \in Int /\ nbparent' \in Int /\ broken' \in Nat /\ raised' \in Nat
  BY <1>1, <1>2
<1>4. broken' <= Depth(t) /\ broken' >= 0
  BY <1>1, <1>2
<1>5. -1 <= nbparent' /\ nbparent' <= brk'
  <2>1. CASE nbparent >= 0
    BY <1>1, <1>2, <2>1
  <2>2. CASE nbparent < 0
    BY <1>1, <1>2, <2>2
  <2> QED
    BY <1>1, <2>1, <2>2
<1>6. brk' <= Depth(t) - broken' + raised'
  <2>1. CASE broken > Depth(t)
    BY <1>1, <1>2, <2>1
  <2>2. CASE ~(broken > Depth(t))
    BY <1>1, <1>2, <2>2
  <2> QED
    BY <2>1, <2>2
<1>7. Counters' <=>
        /\ -1 <= nbparent' /\ nbparent' <= brk' /\ brk' <= Depth(stack') + raised'
        /\ broken' <= Depth(stack') /\ brk' <= Depth(stack') - broken' + raised'
        /\ InCond(stack') => brk' >= 0
  BY DEF Counters, CounterBounds, Depth, InCond
<1>8. brk' <= Depth(t) + raised'
  BY <1>3, <1>4, <1>6
<1> QED
  BY <1>2, <1>3, <1>4, <1>5, <1>6, <1>7, <1>8 DEF Shape

\* A call returns to its caller, or the line ends.
LEMMA ReturnInv ==
  ASSUME IInv, Return
  PROVE  IInv'
<1>0. /\ phase = "run" /\ cur = Nil /\ stack \in Seq(Frame) /\ Shape(stack)
      /\ res \in Nat /\ nbparam \in Nat /\ live \in BOOLEAN
      /\ funcs \in [Name -> Link] /\ line \in Lines
      /\ broken \in Nat /\ raised \in Nat /\ nbparent \in Int /\ brk \in Int
  BY DEF Return, SeqReturn, FuncReturn, FuncReturnAgain, IfBranch, WhileIterate,
         WhileExit, WhileAgain,
     ForIterate, ForExit, LineEnd, Returns, IInv, TypeOK
<1>1. /\ Entered \in Nat /\ Depth(stack) \in Nat
      /\ nbparent <= Entered /\ Entered <= Depth(stack) - broken + raised
  BY EnteredBounds
<1>2. CASE LineEnd
  <2>1. /\ stack' = stack /\ brk' = Entered /\ phase' = "idle"
        /\ UNCHANGED <<cur, res, nbparent, broken, raised, params, funcs, line>>
    BY <1>2 DEF LineEnd
  <2>2. TypeOK'
    BY <1>0, <1>1, <2>1 DEF TypeOK, params, Link
  <2> QED
    BY <2>1, <2>2, StackKept DEF IInv
<1>3. ASSUME stack # <<>>, ~LineEnd
      PROVE  IInv'
  <2> DEFINE p == Pop(stack)
  <2>1. /\ Top \in Frame /\ p \in Seq(Frame) /\ Shape(p) /\ Depth(p) \in Nat
        /\ Depth(stack) = Depth(p) + (IF Top.k = "loop" THEN 1 ELSE 0)
        /\ InCond(p) => Top.k = "func"
        /\ Top.k = "cond" /\ kind[Top.node] \in {"while", "until"}
             => p # <<>> /\ p[Len(p)].k = "loop"
    BY <1>0, <1>3, PopShape DEF Top
  <2>2. /\ Top.node \in Node /\ Top.v \in Nat
        /\ next[Top.node] \in Link /\ body[Top.node] \in Link
        /\ els[Top.node] \in Link /\ cond[Top.node] \in Link
        /\ oper[Top.node] \in Link
    BY <2>1, TreeType DEF Frame
  <2>3. CASE SeqReturn
    <3>1. /\ stack' = p /\ brk' = Entered /\ cur' = next[Top.node]
          /\ UNCHANGED <<phase, res, nbparent, broken, raised, params, funcs, line>>
          /\ Top.k # "loop"
      BY <2>3 DEF SeqReturn, Returns
    <3>2. stack' \in Seq(Frame) /\ Shape(stack)' /\ Counters'
      BY <1>3, <3>1, StackPopped
    <3>3. TypeOK'
      BY <1>0, <1>1, <2>2, <3>1, <3>2 DEF TypeOK, params
    <3> QED
      BY <3>2, <3>3 DEF IInv
  <2>4. CASE FuncReturn
    <3> DEFINE c == FuncNext(oper[Top.node], res)
    <3>1. /\ Proceed(c, res, p) /\ brk' = Entered /\ live' = FALSE
          /\ UNCHANGED <<nbparam, nbparent, broken, raised, funcs, line>>
          /\ Top.k # "loop"
      BY <2>4 DEF FuncReturn, Returns
    <3>2. c \in Link
      BY <2>2, TreeType DEF FuncNext, Link
    <3> HIDE DEF c
    <3>3. /\ cur' \in Link /\ phase' \in {"run", "crashed"}
          /\ res' \in Nat /\ stack' = p
      BY <1>0, <3>1, <3>2, ProceedType
    <3>4. stack' \in Seq(Frame) /\ Shape(stack)' /\ Counters'
      BY <1>3, <3>1, <3>3, StackPopped
    <3>5. live' \in BOOLEAN
      BY <3>1
    <3>6. TypeOK'
      BY <1>0, <1>1, <3>1, <3>3, <3>4, <3>5 DEF TypeOK
    <3> QED
      BY <3>4, <3>6 DEF IInv
  <2>11. CASE FuncReturnAgain
    <3>1. /\ stack' = stack /\ brk' = Entered /\ phase' = "undefined"
          /\ UNCHANGED <<cur, res, nbparent, broken, raised, params, funcs, line>>
      BY <2>11 DEF FuncReturnAgain
    <3>2. TypeOK'
      BY <1>0, <1>1, <3>1 DEF TypeOK, params, Link
    <3> QED
      BY <3>1, <3>2, StackKept DEF IInv
  <2>5. CASE IfBranch
    <3>1. /\ stack' = Push(p, "seq", Top.node, 0) /\ res' = 0
          /\ cur' = IF res = 0 THEN body[Top.node] ELSE els[Top.node]
          /\ UNCHANGED <<phase, counters, params, funcs, line>>
          /\ Top.k = "cond" /\ "seq" \in FrameKind
      BY <2>5 DEF IfBranch, Returns, FrameKind
    <3> HIDE DEF p
    <3>2. /\ stack' \in Seq(Frame) /\ Shape(stack')
          /\ Depth(stack') = Depth(p) + (IF "seq" = "loop" THEN 1 ELSE 0)
          /\ InCond(stack') <=> "seq" = "cond"
      BY <2>1, <2>2, <3>1, PushShape
    <3>3. Depth(stack') = Depth(stack)
      BY <2>1, <3>1, <3>2
    <3>4. Counters'
      BY <3>1, <3>2, <3>3 DEF IInv, Counters, CounterBounds, counters
    <3>5. TypeOK'
      BY <1>0, <2>2, <3>1, <3>2 DEF TypeOK, params, counters
    <3> QED
      BY <3>2, <3>4, <3>5 DEF IInv, Shape
  <2>6. CASE WhileIterate
    <3>1. /\ stack' = p /\ res' = Top.v /\ cur' = body[Top.node]
          /\ UNCHANGED <<phase, counters, params, funcs, line>>
          /\ Top.k = "cond"
      BY <2>6 DEF WhileIterate, Returns
    <3>2. Depth(stack') = Depth(stack) /\ ~InCond(stack')
      BY <2>1, <3>1
    <3>3. Counters'
      BY <3>1, <3>2 DEF IInv, Counters, CounterBounds, counters
    <3>4. TypeOK'
      BY <1>0, <2>1, <2>2, <3>1 DEF TypeOK, params, counters
    <3> QED
      BY <2>1, <3>1, <3>3, <3>4 DEF IInv, Shape
  <2>7. CASE WhileExit
    <3> DEFINE t == Pop(p)
    <3>1. /\ LoopLeave(t) /\ brk' = brk - 1
          /\ res' = Top.v /\ cur' = next[Top.node]
          /\ Top.k = "cond" /\ kind[Top.node] \in {"while", "until"}
      BY <2>7 DEF WhileExit, Returns
    <3>2. p # <<>> /\ p[Len(p)].k = "loop" /\ InCond(stack)
      BY <1>3, <2>1, <3>1 DEF InCond, Top
    <3>3. /\ t \in Seq(Frame) /\ Shape(t) /\ Depth(t) \in Nat
          /\ Depth(p) = Depth(t) + (IF p[Len(p)].k = "loop" THEN 1 ELSE 0)
          /\ InCond(t) => p[Len(p)].k = "func"
      BY <2>1, <3>2, PopShape
    <3> HIDE DEF t, p
    <3>4. Depth(stack) = Depth(t) + 1 /\ ~InCond(t)
      BY <2>1, <3>1, <3>2, <3>3
    <3>5. brk \in Nat /\ nbparent <= brk /\ brk <= Depth(stack) - broken + raised
      BY <1>0, <3>2 DEF IInv, Counters, CounterBounds
    <3>6. /\ Counters' /\ Shape(stack)' /\ stack' \in Seq(Frame)
          /\ brk' \in Int /\ nbparent' \in Int /\ broken' \in Nat /\ raised' \in Nat
      BY <3>1, <3>3, <3>4, <3>5, LoopLeft
    <3>7. UNCHANGED <<phase, raised, params, funcs, line>>
      BY <3>1 DEF LoopLeave
    <3>8. TypeOK'
      BY <1>0, <2>2, <3>1, <3>6, <3>7 DEF TypeOK, params
    <3> QED
      BY <3>6, <3>8 DEF IInv
  <2>8. CASE WhileAgain
    <3>1. /\ stack' = Push(stack, "cond", Top.node, res) /\ res' = 0
          /\ cur' = cond[Top.node] /\ brk' = Entered
          /\ UNCHANGED <<phase, nbparent, broken, raised, params, funcs, line>>
          /\ Top.k = "loop" /\ "cond" \in FrameKind \ {"loop"}
      BY <2>8 DEF WhileAgain, Returns, FrameKind
    <3>2. ~InCond(stack) /\ stack[Len(stack)].k = "loop"
      BY <3>1 DEF InCond, Top
    <3>3. stack' \in Seq(Frame) /\ Shape(stack)' /\ Counters'
      BY <1>0, <1>3, <2>2, <3>1, <3>2, StackPushed
    <3>4. TypeOK'
      BY <1>0, <1>1, <2>2, <3>1, <3>3 DEF TypeOK, params
    <3> QED
      BY <3>3, <3>4 DEF IInv
  <2>9. CASE ForIterate
    <3> DEFINE w == Top.v - 1
    <3>1. /\ stack' = Push(p, "loop", Top.node, w) /\ brk' = Entered
          /\ cur' = body[Top.node] /\ Top.k = "loop" /\ "loop" \in FrameKind
          /\ UNCHANGED <<phase, res, nbparent, broken, raised, params, funcs, line>>
          /\ Top.v > 0
      BY <2>9 DEF ForIterate, Returns, FrameKind
    <3>2. w \in Nat
      BY <2>2, <3>1
    <3> HIDE DEF w, p
    <3>3. /\ stack' \in Seq(Frame) /\ Shape(stack')
          /\ Depth(stack') = Depth(p) + (IF "loop" = "loop" THEN 1 ELSE 0)
      BY <2>1, <2>2, <3>1, <3>2, PushShape
    <3>4. Depth(stack') = Depth(stack)
      BY <2>1, <3>1, <3>3
    <3>5. Counters'
      BY <3>1, <3>4, KeepsCounters
    <3>6. TypeOK'
      BY <1>0, <1>1, <2>2, <3>1, <3>3 DEF TypeOK, params
    <3> QED
      BY <3>3, <3>5, <3>6 DEF IInv, Shape
  <2>10. CASE ForExit
    <3>1. /\ LoopLeave(p) /\ brk' = IF Entered # 0 THEN Entered - 1 ELSE 0
          /\ cur' = next[Top.node] /\ res' = res /\ Top.k = "loop"
      BY <2>10 DEF ForExit, Returns
    <3> HIDE DEF p
    <3>2. Depth(stack) = Depth(p) + 1 /\ ~InCond(p)
      BY <2>1, <3>1
    <3>3. brk' = Entered - 1 \/ (Entered = 0 /\ brk' = 0)
      BY <3>1
    <3>4. /\ Counters' /\ Shape(stack)' /\ stack' \in Seq(Frame)
          /\ brk' \in Int /\ nbparent' \in Int /\ broken' \in Nat /\ raised' \in Nat
      BY <1>1, <2>1, <3>1, <3>2, <3>3, LoopLeft
    <3>5. UNCHANGED <<phase, raised, params, funcs, line>>
      BY <3>1 DEF LoopLeave
    <3>6. TypeOK'
      BY <1>0, <2>2, <3>1, <3>4, <3>5 DEF TypeOK, params
    <3> QED
      BY <3>4, <3>6 DEF IInv
  <2> QED
    BY <1>3, <2>3, <2>4, <2>5, <2>6, <2>7, <2>8, <2>9, <2>10, <2>11 DEF Return
<1>4. stack = <<>> => LineEnd
  BY DEF Return, SeqReturn, FuncReturn, FuncReturnAgain, IfBranch, WhileIterate,
         WhileExit, WhileAgain,
     ForIterate, ForExit, Returns
<1> QED
  BY <1>2, <1>3, <1>4

\* The shell starts with no loop, and reads the next line only at the top.
LEMMA InitInv == Init => IInv
<1> SUFFICES ASSUME Init PROVE IInv
  OBVIOUS
<1>1. TypeOK
  <2>1. live \in BOOLEAN
    BY DEF Init
  <2>2. stack \in Seq(Frame) /\ funcs \in [Name -> Link] /\ cur \in Link
    BY DEF Init, Link
  <2> QED
    BY <2>1, <2>2 DEF Init, TypeOK
<1>2. Shape(stack) /\ Depth(stack) = 0 /\ ~InCond(stack)
  BY DEF Init, Shape, Depth, InCond
<1>3. Counters
  BY <1>2 DEF Init, Counters, CounterBounds
<1> QED
  BY <1>1, <1>2, <1>3 DEF IInv

LEMMA NextInv ==
  ASSUME IInv, [Next]_vars
  PROVE  IInv'
<1>1. CASE LineStart
  <2>1. /\ line' \in Lines /\ cur' = line' /\ res' = 0 /\ phase' = "run"
        /\ UNCHANGED <<stack, counters, params, funcs>>
    BY <1>1 DEF LineStart
  <2>2. TypeOK'
    BY <2>1, TreeType DEF IInv, TypeOK, counters, params, Link
  <2>3. Counters'
    BY <2>1 DEF IInv, Counters, CounterBounds, counters, Depth, InCond
  <2> QED
    BY <2>1, <2>2, <2>3 DEF IInv, Shape
<1>2. CASE Interpret
  BY <1>2, InstructionInv, VisitInv, ReturnInv DEF Interpret
<1>3. CASE UNCHANGED vars
  BY <1>3 DEF vars, IInv, TypeOK, Shape, Counters, CounterBounds, Depth, InCond
<1> QED
  BY <1>1, <1>2, <1>3 DEF Next

----------------------------------------------------------------------------
(* The theorems.                                                           *)

\* In every session over every tree, whatever the commands return, the state
\* of the interpreter keeps its types: no table or counter of stored_data is
\* used at a value its declaration does not foresee.
THEOREM TypeCorrect == Spec => []TypeOK
<1>1. Init => IInv
  BY InitInv
<1>2. IInv /\ [Next]_vars => IInv'
  BY NextInv
<1>3. IInv => TypeOK
  BY DEF IInv
<1> QED
  BY <1>1, <1>2, <1>3, PTL DEF Spec

\* nbparent and brk never claim more loops than are open and negative operands
\* have added, however loops, functions and breaks nest and whatever their
\* operands are and the lines before left.
THEOREM CountersBounded == Spec => []CounterBounds
<1>1. Init => IInv
  BY InitInv
<1>2. IInv /\ [Next]_vars => IInv'
  BY NextInv
<1>3. IInv => CounterBounds
  BY DEF IInv, Counters
<1> QED
  BY <1>1, <1>2, <1>3, PTL DEF Spec

\* A loop a break has cut never runs its body again, whatever the operands of the
\* breaks, unless a negative one was obeyed in between.
THEOREM BrokenLoopsStopped == Spec => BrokenLoopsStop
<1>1. Init => IInv
  BY InitInv
<1>2. IInv /\ [Next]_vars => IInv'
  BY NextInv
<1>3. ASSUME IInv, WhileIterate \/ ForIterate
      PROVE  Depth(stack) > broken \/ raised > 0
  <2>1. /\ Entered \in Nat /\ Depth(stack) \in Nat
        /\ Entered <= Depth(stack) - broken + raised
    BY <1>3, EnteredBounds
  <2>2. broken \in Nat /\ raised \in Nat /\ brk \in Int
    BY <1>3 DEF IInv, TypeOK
  <2>3. Entered > 0
    BY <1>3, <2>2 DEF WhileIterate, ForIterate, Entered
  <2> QED
    BY <2>1, <2>2, <2>3
<1>4. IInv => [WhileIterate \/ ForIterate => Depth(stack) > broken \/ raised > 0]_vars
  BY <1>3
<1> QED
  BY <1>1, <1>2, <1>4, PTL DEF Spec, BrokenLoopsStop

----------------------------------------------------------------------------
(* The operators between commands.                                         *)

\* A node the walk may reach with status r
Respects(n, r) ==
  n \in Node /\ kind[n] # "redir" =>
    \A o \in Node :
      next[o] = n /\ (\A d \in Node : kind[d] = "def" => oper[d] # o) =>
        /\ kind[o] = "and" => r = 0
        /\ kind[o] = "or" => r # 0

\* Only an if or a case goes on with its sibling from a frame of its own, and what
\* a name is declared as is the body of a declaration.
Siblings(s) == \A i \in 1..Len(s) : s[i].k = "seq" => kind[s[i].node] \in {"if", "case"}
Bodies(fs) == \A f \in Name : fs[f] = Nil \/ \E p \in Node : fs[f] = body[p]

Walk == (phase = "run" => Respects(cur, res)) /\ Siblings(stack) /\ Bodies(funcs)

\* Nothing leads to the null pointer, to the first node of a line, a body, a
\* condition or an else part.
LEMMA FirstRespects ==
  ASSUME NEW n, NEW r,
         \/ n = Nil \/ n \in Lines
         \/ \E p \in Node : n = cond[p] \/ n = body[p] \/ n = els[p] \/ n \in arms[p]
  PROVE  Respects(n, r)
BY TreeType, TreeShape DEF Respects

\* Nor does && or || lead to what follows another node.
LEMMA NextRespects ==
  ASSUME NEW m \in Node, NEW r,
         kind[m] = "and" => r = 0, kind[m] = "or" => r # 0
  PROVE  Respects(next[m], r)
BY TreeType, TreeShape DEF Respects

\* What a declaration steps over is not asked for a status.
LEMMA DeclaredRespects ==
  ASSUME NEW m \in Node, kind[m] = "def", oper[m] # Nil, NEW r
  PROVE  Respects(next[oper[m]], r)
BY TreeType, TreeShape DEF Respects, Link

\* The operator the walk skips to comes behind a command, or is a redirection.
LEMMA SkipRespects ==
  ASSUME NEW m \in Node, kind[m] \in Operators, NEW r
  PROVE  Respects(OperFrom(next[m]), r)
<1>1. CASE next[m] = Nil
  BY <1>1, FirstRespects DEF OperFrom
<1>2. CASE next[m] # Nil
  <2>1. next[m] \in Node /\ OperFrom(next[m]) = oper[next[m]]
    BY <1>2, TreeType DEF Link, OperFrom
  <2>2. PICK n \in Node : n = next[m]
    BY <2>1
  <2>3. CASE oper[n] = Nil
    BY <2>1, <2>2, <2>3, FirstRespects
  <2>4. CASE oper[n] = n
    <3>1. kind[n] \in Operators
      BY <1>2, <2>2, <2>4, OperAssumption, TreeType
    <3>2. kind[n] = "redir"
      BY <1>2, <2>2, <3>1, TreeShape
    <3> QED
      BY <2>1, <2>2, <2>4, <3>2 DEF Respects
  <2>5. CASE oper[n] \notin {n, Nil}
    <3>1. PICK p \in Node : next[p] = oper[n] /\ kind[p] \notin Operators
      BY <2>5, OperAssumption
    <3>2. Respects(next[p], r)
      BY <3>1, NextRespects DEF Operators
    <3> QED
      BY <2>1, <2>2, <3>1, <3>2
  <2> QED
    BY <2>3, <2>4, <2>5
<1> QED
  BY <1>1, <1>2

LEMMA NextNodeRespects ==
  ASSUME NEW o \in Link, NEW r
  PROVE  Respects(GetNextNode(o, r), r)
<1>1. CASE o = Nil
  BY <1>1, FirstRespects DEF GetNextNode
<1>2. CASE o \in Node
  <2>2. o # Nil /\ next[o] \in Link
    BY <1>2, TreeType
  <2>3. CASE kind[o] = "and"
    <3>1. GetNextNode(o, r) = IF r # 0 THEN OperFrom(next[o]) ELSE next[o]
      BY <2>2, <2>3 DEF GetNextNode
    <3>2. r = 0 => Respects(next[o], r)
      BY <1>2, <2>3, NextRespects
    <3>3. Respects(OperFrom(next[o]), r)
      BY <1>2, <2>3, SkipRespects DEF Operators
    <3> QED
      BY <3>1, <3>2, <3>3
  <2>4. CASE kind[o] = "or"
    <3>1. GetNextNode(o, r) = IF r = 0 THEN OperFrom(next[o]) ELSE next[o]
      BY <2>2, <2>4 DEF GetNextNode
    <3>2. r # 0 => Respects(next[o], r)
      BY <1>2, <2>4, NextRespects
    <3>3. Respects(OperFrom(next[o]), r)
      BY <1>2, <2>4, SkipRespects DEF Operators
    <3> QED
      BY <3>1, <3>2, <3>3
  <2>5. CASE kind[o] = "redir"
    <3>1. GetNextNode(o, r) = next[next[o]]
      BY <2>2, <2>5 DEF GetNextNode
    <3>2. next[o] \in Node
      BY <1>2, <2>2, <2>5, TreeShape DEF Link
    <3>3. kind[next[o]] \notin {"and", "or"}
      BY <1>2, <2>5, <3>2, TreeShape, TreeType DEF Operators
    <3> QED
      BY <3>1, <3>2, <3>3, NextRespects
  <2>6. CASE kind[o] \notin {"and", "or", "redir"}
    <3>1. GetNextNode(o, r) = next[o]
      BY <2>2, <2>6 DEF GetNextNode
    <3> QED
      BY <1>2, <2>6, <3>1, NextRespects
  <2> QED
    BY <2>3, <2>4, <2>5, <2>6
<1> QED
  BY <1>1, <1>2 DEF Link

\* The three tests of if_cond()
LEMMA CondNextRespects ==
  ASSUME NEW c \in Link, NEW r, Respects(c, r), ~CondFaults(c, r)
  PROVE  Respects(CondNext(c, r), r)
<1>1. CASE c = Nil
  BY <1>1 DEF CondNext
<1>2. CASE c # Nil
  <2>1. PICK a : a = PassAnd(c, r)
    OBVIOUS
  <2>2. a \in Link /\ Respects(a, r)
    BY <2>1, NextNodeType, NextNodeRespects DEF PassAnd
  <2>3. PICK b : b = PassOr(a, r)
    OBVIOUS
  <2>4. b \in Link /\ Respects(b, r)
    BY <2>2, <2>3, NextNodeType, NextNodeRespects DEF PassOr
  <2>5. b \in Node /\ CondNext(c, r) = PassSemi(b)
    BY <1>2, <2>1, <2>3, <2>4 DEF CondFaults, CondNext, Link
  <2>6. kind[b] = "semi" => Respects(next[b], r)
    BY <2>5, NextRespects
  <2> QED
    BY <2>4, <2>5, <2>6 DEF PassSemi
<1> QED
  BY <1>1, <1>2

LEMMA ProceedRespects ==
  ASSUME NEW c \in Link, NEW r, Respects(c, r), NEW s, Proceed(c, r, s)
  PROVE  phase' = "run" => Respects(cur', res')
<1>1. CASE InCond(s) /\ CondFaults(c, r)
  BY <1>1 DEF Proceed
<1>2. CASE InCond(s) /\ ~CondFaults(c, r)
  BY <1>2, CondNextRespects DEF Proceed
<1>3. CASE ~InCond(s)
  BY <1>3 DEF Proceed
<1> QED
  BY <1>1, <1>2, <1>3

\* The frames a step pushes or pops
LEMMA PushSiblings ==
  ASSUME NEW s \in Seq(Frame), Siblings(s),
         NEW k \in FrameKind, NEW n \in Node, NEW v \in Nat,
         k = "seq" => kind[n] \in {"if", "case"}
  PROVE  Siblings(Push(s, k, n, v))
<1>1. PICK fr : fr = [k |-> k, node |-> n, v |-> v,
                      depth |-> Depth(s) + (IF k = "loop" THEN 1 ELSE 0)]
  OBVIOUS
<1>2. Push(s, k, n, v) = Append(s, fr) /\ fr.k = k /\ fr.node = n
  BY <1>1 DEF Push
<1>3. /\ Len(Append(s, fr)) = Len(s) + 1 /\ Append(s, fr)[Len(s) + 1] = fr
      /\ \A i \in 1..Len(s) : Append(s, fr)[i] = s[i]
      /\ Len(s) \in Nat
  OBVIOUS
<1>4. \A i \in 1..Len(s) + 1 : i \in 1..Len(s) \/ i = Len(s) + 1
  BY <1>3
<1> QED
  BY <1>2, <1>3, <1>4 DEF Siblings

LEMMA PopSiblings ==
  ASSUME NEW s \in Seq(Frame), Siblings(s), s # <<>>
  PROVE  /\ Pop(s) \in Seq(Frame) /\ Siblings(Pop(s))
         /\ s[Len(s)] \in Frame
         /\ s[Len(s)].k = "seq" => kind[s[Len(s)].node] \in {"if", "case"}
<1>1. Len(s) \in Nat /\ Len(s) > 0 /\ s[Len(s)] \in Frame
  OBVIOUS
<1>2. PICK m \in Nat : m = Len(s) - 1
  BY <1>1
<1>3. \A i \in 1..m : s[i] \in Frame
  <2>1. \A i \in 1..Len(s) : s[i] \in Frame
    OBVIOUS
  <2> QED
    BY <1>1, <1>2, <2>1
<1>4. /\ SubSeq(s, 1, m) \in Seq(Frame)
      /\ Len(SubSeq(s, 1, m)) = IF 1 <= m THEN m - 1 + 1 ELSE 0
      /\ \A i \in 1..m - 1 + 1 : SubSeq(s, 1, m)[i] = s[1 + i - 1]
  BY <1>3, SubSeqProperties
<1>5. m - 1 + 1 = m /\ \A i \in 1..m : 1 + i - 1 = i
  OBVIOUS
<1>6. /\ Pop(s) \in Seq(Frame) /\ Len(Pop(s)) = m
      /\ \A i \in 1..m : Pop(s)[i] = s[i]
  BY <1>2, <1>4, <1>5 DEF Pop
<1>7. \A i \in 1..m : i \in 1..Len(s)
  BY <1>1, <1>2
<1>8. Len(s) \in 1..Len(s)
  BY <1>1
<1> QED
  BY <1>1, <1>6, <1>7, <1>8 DEF Siblings

\* The steps that neither push nor pop, and lead to where they may
LEMMA WalkKept ==
  ASSUME Walk, UNCHANGED <<stack, funcs>>, phase' = "run" => Respects(cur', res')
  PROVE  Walk'
BY DEF Walk

LEMMA InstructionWalk ==
  ASSUME IInv, Walk, Instruction
  PROVE  Walk'
<1>1. /\ cur \in Node /\ stack \in Seq(Frame) /\ phase = "run" /\ res \in Nat
      /\ name[cur] \in Name /\ body[cur] \in Link /\ next[cur] \in Link
      /\ oper[cur] \in Link /\ pipeEnd[cur] \in Link /\ funcs \in [Name -> Link]
  BY TreeType DEF IInv, TypeOK, Instruction, ExecCommand, RunsCommand, ExecNothing,
     ExecExit, Break, Continue, Call, Declare, At, Link
<1>2. CASE ExecCommand
  <2>1. PICK r \in Status : Proceed(GetNextNode(pipeEnd[cur], r), r, stack)
    BY <1>2 DEF ExecCommand
  <2>2. /\ GetNextNode(pipeEnd[cur], r) \in Link
        /\ Respects(GetNextNode(pipeEnd[cur], r), r)
    BY <1>1, NextNodeType, NextNodeRespects
  <2>3. phase' = "run" => Respects(cur', res')
    BY <2>1, <2>2, ProceedRespects
  <2>4. UNCHANGED <<stack, funcs>>
    BY <1>2, <2>1 DEF ExecCommand, Proceed
  <2> QED
    BY <2>3, <2>4, WalkKept
<1>3. CASE ExecNothing \/ ExecExit
  BY <1>3, WalkKept DEF ExecNothing, Crash, ExecExit
<1>4. CASE Break \/ Continue
  <2>1. Proceed(Nil, 0, stack) /\ UNCHANGED funcs
    BY <1>4 DEF Break, Continue
  <2>2. Respects(Nil, 0) /\ Nil \in Link
    BY FirstRespects DEF Link
  <2>3. phase' = "run" => Respects(cur', res')
    BY <2>1, <2>2, ProceedRespects
  <2>4. stack' = stack
    BY <2>1 DEF Proceed
  <2> QED
    BY <2>1, <2>3, <2>4, WalkKept
<1>5. CASE Call
  <2>1. /\ stack' = Push(stack, "func", cur, 0) /\ cur' = funcs[name[cur]]
        /\ UNCHANGED <<res, funcs>> /\ "func" \in FrameKind /\ 0 \in Nat
    BY <1>5 DEF Call, FrameKind
  <2>2. Siblings(stack')
    BY <1>1, <2>1, PushSiblings DEF Walk
  <2>3. cur' = Nil \/ \E p \in Node : cur' = body[p]
    BY <1>1, <2>1 DEF Walk, Bodies
  <2>4. Respects(cur', res')
    BY <2>3, FirstRespects
  <2> QED
    BY <2>1, <2>2, <2>4 DEF Walk
<1>6. CASE Declare
  <2>1. kind[cur] = "def" /\ UNCHANGED <<stack, res>>
    BY <1>6 DEF Declare, At
  <2>2. CASE Running(name[cur])
    BY <1>6, <2>1, <2>2, WalkKept DEF Declare
  <2>3. CASE ~Running(name[cur])
    <3>1. /\ funcs' = [funcs EXCEPT ![name[cur]] = body[cur]]
          /\ cur' = IF oper[cur] = Nil THEN Nil ELSE next[oper[cur]]
      BY <1>6, <2>3 DEF Declare
    <3>2. Respects(cur', res')
      BY <1>1, <2>1, <3>1, FirstRespects, DeclaredRespects
    <3>3. \A f \in Name : funcs'[f] = funcs[f] \/ funcs'[f] = body[cur]
      BY <1>1, <3>1
    <3>4. Bodies(funcs')
      BY <1>1, <3>3 DEF Walk, Bodies
    <3> QED
      BY <2>1, <3>2, <3>4 DEF Walk
  <2> QED
    BY <2>2, <2>3
<1> QED
  BY <1>2, <1>3, <1>4, <1>5, <1>6 DEF Instruction

LEMMA VisitWalk ==
  ASSUME IInv, Walk, Visit
  PROVE  Walk'
<1>1. /\ cur \in Node /\ stack \in Seq(Frame) /\ phase = "run" /\ res \in Nat
      /\ nbparam \in Nat
  BY DEF IInv, TypeOK, Visit, AndOrNode, PassNode, Step, IfEnter, CaseEnter,
     WhileEnter, ForEnter, At, Link
<1>2. {"cond", "seq", "loop"} \subseteq FrameKind /\ 0 \in Nat
  BY DEF FrameKind
<1>3. CASE AndOrNode
  <2>1. cur' = GetNextNode(cur, res) /\ UNCHANGED <<stack, res, funcs>>
    BY <1>3 DEF AndOrNode, Step
  <2>2. Respects(GetNextNode(cur, res), res)
    BY <1>1, NextNodeRespects DEF Link
  <2> QED
    BY <2>1, <2>2, WalkKept
<1>4. CASE PassNode
  <2>1. cur' = next[cur] /\ UNCHANGED <<stack, res, funcs>> /\ kind[cur] \notin {"and", "or"}
    BY <1>4 DEF PassNode, Step, At
  <2>2. Respects(next[cur], res)
    BY <1>1, <2>1, NextRespects
  <2> QED
    BY <2>1, <2>2, WalkKept
<1>5. CASE IfEnter
  <2>1. stack' = Push(stack, "cond", cur, res) /\ cur' = cond[cur] /\ UNCHANGED funcs
    BY <1>5 DEF IfEnter
  <2>2. Siblings(stack')
    BY <1>1, <1>2, <2>1, PushSiblings DEF Walk
  <2>3. Respects(cur', res')
    BY <1>1, <2>1, FirstRespects
  <2> QED
    BY <2>1, <2>2, <2>3 DEF Walk
<1>6. CASE CaseEnter
  <2>1. /\ stack' = Push(stack, "seq", cur, 0) /\ cur' \in arms[cur] \union {Nil}
        /\ UNCHANGED funcs /\ kind[cur] = "case"
    BY <1>6 DEF CaseEnter, At
  <2>2. Siblings(stack')
    BY <1>1, <1>2, <2>1, PushSiblings DEF Walk
  <2>3. Respects(cur', res')
    BY <1>1, <2>1, FirstRespects
  <2> QED
    BY <2>1, <2>2, <2>3 DEF Walk
<1>7. CASE WhileEnter
  <2>1. PICK t : t = Push(stack, "loop", cur, 0)
    OBVIOUS
  <2>2. stack' = Push(t, "cond", cur, res) /\ cur' = cond[cur] /\ UNCHANGED funcs
    BY <1>7, <2>1 DEF WhileEnter, LoopEnter
  <2>3. Siblings(t)
    BY <1>1, <1>2, <2>1, PushSiblings DEF Walk
  <2>4. t \in Seq(Frame)
    BY <1>1, <1>2, <1>7, <2>1, PushShape DEF IInv, WhileEnter
  <2>5. Siblings(stack')
    BY <1>1, <1>2, <2>2, <2>3, <2>4, PushSiblings
  <2>6. Respects(cur', res')
    BY <1>1, <2>2, FirstRespects
  <2> QED
    BY <2>2, <2>5, <2>6 DEF Walk
<1>8. CASE ForEnter
  <2>1. /\ stack' = Push(stack, "loop", cur, Words(cur)) /\ cur' = Nil /\ UNCHANGED funcs
        /\ kind[cur] = "for"
    BY <1>8 DEF ForEnter, LoopEnter, At
  <2>2. Words(cur) \in Nat
    BY <1>1, <2>1, TreeType DEF Words, AllParams
  <2>3. Siblings(stack')
    BY <1>1, <1>2, <2>1, <2>2, PushSiblings DEF Walk
  <2>4. Respects(cur', res')
    BY <2>1, FirstRespects
  <2> QED
    BY <2>1, <2>3, <2>4 DEF Walk
<1> QED
  BY <1>3, <1>4, <1>5, <1>6, <1>7, <1>8 DEF Visit

LEMMA ReturnWalk ==
  ASSUME IInv, Walk, Return
  PROVE  Walk'
<1>1. stack \in Seq(Frame) /\ res \in Nat /\ Siblings(stack) /\ Shape(stack)
  BY DEF IInv, TypeOK, Walk
<1>2. CASE LineEnd \/ FuncReturnAgain
  BY <1>2, WalkKept DEF LineEnd, FuncReturnAgain
<1>3. CASE ~(LineEnd \/ FuncReturnAgain)
  <2>0. stack # <<>>
    BY <1>3 DEF Return, SeqReturn, FuncReturn, IfBranch, WhileIterate, WhileExit,
       WhileAgain, ForIterate, ForExit, Returns
  <2>1. PICK p : p = Pop(stack)
    OBVIOUS
  <2>2. /\ p \in Seq(Frame) /\ Siblings(p) /\ Top \in Frame
        /\ Top.k = "seq" => kind[Top.node] \in {"if", "case"}
    BY <1>1, <2>0, <2>1, PopSiblings DEF Top
  <2>3. Top.node \in Node /\ Top.v \in Nat /\ oper[Top.node] \in Link
    BY <2>2, TreeType DEF Frame
  <2>4. {"cond", "seq", "loop"} \subseteq FrameKind /\ 0 \in Nat
    BY DEF FrameKind
  <2>5. CASE SeqReturn
    <3>1. /\ stack' = p /\ cur' = next[Top.node] /\ UNCHANGED <<res, funcs>>
          /\ kind[Top.node] \in {"if", "case"}
      BY <2>1, <2>2, <2>5 DEF SeqReturn, Returns
    <3>2. Respects(cur', res')
      BY <2>3, <3>1, NextRespects
    <3> QED
      BY <2>2, <3>1, <3>2 DEF Walk
  <2>6. CASE FuncReturn
    <3>1. PICK o \in Link : o = oper[Top.node]
      BY <2>3
    <3>2. PICK c : c = FuncNext(o, res)
      OBVIOUS
    <3>3. Proceed(c, res, p) /\ UNCHANGED funcs
      BY <2>1, <2>6, <3>1, <3>2 DEF FuncReturn
    <3>4. c \in Link /\ Respects(c, res)
      <4>1. CASE c = Nil
        BY <4>1, FirstRespects DEF Link
      <4>2. CASE c # Nil
        <5>1. /\ c = next[o] /\ o \in Node
              /\ kind[o] = "and" => res = 0
              /\ kind[o] = "or" => res # 0
          BY <3>2, <4>2 DEF FuncNext, Link
        <5> QED
          BY <5>1, NextRespects, TreeType
      <4> QED
        BY <4>1, <4>2
    <3>5. phase' = "run" => Respects(cur', res')
      BY <3>3, <3>4, ProceedRespects
    <3>6. stack' = p
      BY <3>3 DEF Proceed
    <3> QED
      BY <2>2, <3>3, <3>5, <3>6 DEF Walk
  <2>7. CASE IfBranch
    <3>1. /\ stack' = Push(p, "seq", Top.node, 0) /\ UNCHANGED funcs
          /\ cur' = body[Top.node] \/ cur' = els[Top.node]
          /\ kind[Top.node] = "if"
      BY <2>1, <2>7 DEF IfBranch
    <3>2. Siblings(stack')
      BY <2>2, <2>3, <2>4, <3>1, PushSiblings
    <3>3. Respects(cur', res')
      BY <2>3, <3>1, FirstRespects
    <3> QED
      BY <3>1, <3>2, <3>3 DEF Walk
  <2>8. CASE WhileIterate
    <3>1. stack' = p /\ cur' = body[Top.node] /\ UNCHANGED funcs
      BY <2>1, <2>8 DEF WhileIterate
    <3>2. Respects(cur', res')
      BY <2>3, <3>1, FirstRespects
    <3> QED
      BY <2>2, <3>1, <3>2 DEF Walk
  <2>9. CASE WhileExit
    <3>1. /\ stack' = Pop(p) /\ cur' = next[Top.node] /\ UNCHANGED funcs
          /\ kind[Top.node] \in {"while", "until"} /\ Top.k = "cond"
      BY <2>1, <2>9 DEF WhileExit, LoopLeave, Returns
    <3>2. p # <<>>
      BY <1>1, <2>0, <2>1, <3>1, PopShape DEF Top
    <3>3. Siblings(stack')
      BY <2>2, <3>1, <3>2, PopSiblings
    <3>4. Respects(cur', res')
      BY <2>3, <3>1, NextRespects
    <3> QED
      BY <3>1, <3>3, <3>4 DEF Walk
  <2>10. CASE WhileAgain
    <3>1. stack' = Push(stack, "cond", Top.node, res) /\ cur' = cond[Top.node] /\ UNCHANGED funcs
      BY <2>10 DEF WhileAgain
    <3>2. Siblings(stack')
      BY <1>1, <2>3, <2>4, <3>1, PushSiblings
    <3>3. Respects(cur', res')
      BY <2>3, <3>1, FirstRespects
    <3> QED
      BY <3>1, <3>2, <3>3 DEF Walk
  <2>11. CASE ForIterate
    <3>1. PICK v \in Nat : v = Top.v - 1
      BY <2>3, <2>11 DEF ForIterate
    <3>2. stack' = Push(p, "loop", Top.node, v) /\ cur' = body[Top.node] /\ UNCHANGED funcs
      BY <2>1, <2>11, <3>1 DEF ForIterate
    <3>3. Siblings(stack')
      BY <2>2, <2>3, <2>4, <3>2, PushSiblings
    <3>4. Respects(cur', res')
      BY <2>3, <3>2, FirstRespects
    <3> QED
      BY <3>2, <3>3, <3>4 DEF Walk
  <2>12. CASE ForExit
    <3>1. stack' = p /\ cur' = next[Top.node] /\ UNCHANGED funcs /\ kind[Top.node] = "for"
      BY <2>1, <2>12 DEF ForExit, LoopLeave
    <3>2. Respects(cur', res')
      BY <2>3, <3>1, NextRespects
    <3> QED
      BY <2>2, <3>1, <3>2 DEF Walk
  <2> QED
    BY <1>3, <2>5, <2>6, <2>7, <2>8, <2>9, <2>10, <2>11, <2>12 DEF Return
<1> QED
  BY <1>2, <1>3

LEMMA WalkNext ==
  ASSUME IInv, Walk, [Next]_vars
  PROVE  Walk'
<1>1. CASE LineStart
  <2>1. line' \in Lines /\ cur' = line' /\ UNCHANGED <<stack, funcs>>
    BY <1>1 DEF LineStart
  <2>2. Respects(cur', res')
    BY <2>1, FirstRespects
  <2> QED
    BY <2>1, <2>2, WalkKept
<1>2. CASE Interpret
  BY <1>2, InstructionWalk, VisitWalk, ReturnWalk DEF Interpret
<1>3. CASE UNCHANGED vars
  BY <1>3 DEF vars, Walk
<1> QED
  BY <1>1, <1>2, <1>3 DEF Next

\* Whatever the tree and whatever its commands return, and across functions,
\* conditions and loops, the command directly behind && is reached only with
\* status 0 and the one directly behind || only with another one.
THEOREM AndOrAlwaysRespected == Spec => []AndOrRespected
<1>1. Init => IInv
  BY InitInv
<1>2. Init => Walk
  BY DEF Init, Walk, Siblings, Bodies
<1>3. IInv /\ [Next]_vars => IInv'
  BY NextInv
<1>4. IInv /\ Walk /\ [Next]_vars => Walk'
  BY WalkNext
<1>5. IInv /\ Walk => AndOrRespected
  BY DEF IInv, TypeOK, Walk, Respects, AndOrRespected, Link
<1> QED
  BY <1>1, <1>2, <1>3, <1>4, <1>5, PTL DEF Spec
=============================================================================
