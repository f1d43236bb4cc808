----------------------------- MODULE Traversal -----------------------------
(***************************************************************************)
(* The interpreter of 42sh: execution_ast() and what it calls to walk the  *)
(* tree of a command line (src/execution/execution_ast.c, functions.c and  *)
(* builtins/break.c), one step per tree node.                              *)
(*                                                                         *)
(* The tree is a constant, so that what is proved holds for every tree.    *)
(* The words of one simple command are one node; the operator that ends it *)
(* is the node `next' leads to.  What a child process does is its exit     *)
(* status, any element of Status.  The C stack of the mutually recursive   *)
(* functions is the variable `stack': traversal_ast() mostly calls itself  *)
(* last, so a frame is pushed only where a call has something left to do.  *)
(***************************************************************************)
EXTENDS Integers, Sequences

CONSTANTS
  Node,    \* the nodes of the trees built from the lines of a session
  Nil,     \* the null pointer
  Lines,   \* the first node of each line the shell may read
  Name,    \* the names functions are declared under
  Status,  \* the exit statuses a child process may have
  kind,    \* kind[n]: what n is, one of the sets below
  next,    \* next[n]: its right sibling
  oper,    \* oper[n]: what get_oper_node(n) finds
  pipeEnd, \* pipeEnd[n]: the first operator from n on that is not a PIPE
  cond,    \* cond[n]: first node of the condition of an if, while, until
  body,    \* body[n]: first node of the then, do or function body
  els,     \* els[n]: the elif node or the first node of the else part
  arms,    \* arms[n]: the bodies of the clauses of a case
  name,    \* name[n]: the function a def declares and a call names
  count,   \* count[n]: operand of a break, words of a for, arguments of a call
  MaxRaised \* bound: no line is read once breaks have raised the counters so far

Operators == {"and", "or", "semi", "amp", "pipe", "redir"}
Simple    == {"cmd", "empty", "exit", "break", "continue", "call"}
\* handled by traversal_ast() itself; an elif is an if
Statement == {"assign", "if", "while", "until", "for", "case", "def"}

\* `for x in $@': the words are the parameters of the current function.
AllParams == -1

Link == Node \union {Nil}

ASSUME TreeType ==
  /\ Nil \notin Node
  /\ Lines \subseteq Node
  /\ Status \subseteq Nat
  /\ kind \in [Node -> Operators \union Simple \union Statement]
  /\ next \in [Node -> Link]
  /\ oper \in [Node -> Link]
  /\ pipeEnd \in [Node -> Link]
  /\ cond \in [Node -> Link]
  /\ body \in [Node -> Link]
  /\ els \in [Node -> Link]
  /\ arms \in [Node -> SUBSET Node]
  /\ name \in [Node -> Name]
  /\ count \in [Node -> Int]
  /\ \A n \in Node : /\ kind[n] = "call" => count[n] >= 0
                     /\ kind[n] = "for" => count[n] >= 0 \/ count[n] = AllParams

\* The loops of get_oper_node() and instr_execution(), as the equations their
\* results satisfy; on a finite tree they have one solution.  What is found is an
\* operator, and when it is not n itself it was reached from a node that is none.
ASSUME OperAssumption ==
  \A n \in Node :
    /\ oper[n] = IF kind[n] \in Operators THEN n
                 ELSE IF next[n] = Nil THEN Nil ELSE oper[next[n]]
    /\ pipeEnd[n] = IF oper[n] = Nil \/ kind[oper[n]] # "pipe" THEN oper[n]
                    ELSE IF next[oper[n]] = Nil THEN Nil
                    ELSE pipeEnd[next[oper[n]]]
    /\ oper[n] # Nil => kind[oper[n]] \in Operators
    /\ oper[n] \notin {n, Nil} =>
         \E p \in Node : next[p] = oper[n] /\ kind[p] \notin Operators

\* Nodes have one place in the tree; the grammar puts no operator but a redirection
\* right after another one, and wants a file after a redirection.
ASSUME TreeShape ==
  /\ \A n \in Node : kind[n] = "redir" => next[n] # Nil
  /\ \A m, n \in Node : next[m] = next[n] /\ next[m] # Nil => m = n
  /\ \A n \in Node : kind[n] \in Operators /\ next[n] # Nil
                       => kind[next[n]] \notin Operators \ {"redir"}
  /\ \A m, n \in Node : next[m] = n =>
       /\ n \notin Lines
       /\ \A p \in Node : n # cond[p] /\ n # body[p] /\ n # els[p] /\ n \notin arms[p]

VARIABLES
  phase,    \* idle between lines; run; or how the shell ended
  cur,      \* the node the current call works on, Nil when it returns
  stack,    \* the calls that are waiting for it
  res,      \* *res of that call
  brk,      \* data->brk
  nbparent, \* data->nbparent
  nbparam,  \* data->nbparam
  live,     \* whether data->param is allocated
  funcs,    \* data->f_tab: the first node of the body, Nil when undeclared
  line,     \* history: the line being executed
  broken,   \* history: loops open when a break last cut all of them
  raised    \* history: what negative operands have added to brk since

vars == <<phase, cur, stack, res, brk, nbparent, nbparam, live, funcs, line, broken,
          raised>>
counters == <<brk, nbparent, broken, raised>>
params == <<nbparam, live>>

----------------------------------------------------------------------------
(* Frames.  "loop": while_/until/for with v words left; "cond": if_cond()  *)
(* with the caller's *res in v; "seq": an if or case whose next sibling    *)
(* follows; "func": func_execution().  depth counts the loop frames up to  *)
(* and including this one.                                                 *)

FrameKind == {"loop", "cond", "seq", "func"}

Frame == [k : FrameKind, node : Node, v : Nat, depth : Nat]

Top == stack[Len(stack)]
Pop(s) == SubSeq(s, 1, Len(s) - 1)
Depth(s) == IF s = <<>> THEN 0 ELSE s[Len(s)].depth

Push(s, k, n, v) ==
  Append(s, [k |-> k, node |-> n, v |-> v,
             depth |-> Depth(s) + (IF k = "loop" THEN 1 ELSE 0)])

InCond(s) == s # <<>> /\ s[Len(s)].k = "cond"

Init ==
  /\ phase = "idle" /\ cur = Nil /\ stack = <<>> /\ res = 0
  /\ brk = 0 /\ nbparent = 0 /\ broken = 0 /\ raised = 0
  /\ nbparam = 0 /\ live = FALSE
  /\ funcs = [f \in Name |-> Nil]
  /\ line \in Lines

----------------------------------------------------------------------------
(* Which node comes next.                                                  *)

OperFrom(n) == IF n = Nil THEN Nil ELSE oper[n]

\* get_next_node()
GetNextNode(o, r) ==
  IF o = Nil THEN Nil
  ELSE CASE kind[o] = "and"   -> IF r # 0 THEN OperFrom(next[o]) ELSE next[o]
         [] kind[o] = "or"    -> IF r = 0 THEN OperFrom(next[o]) ELSE next[o]
         [] kind[o] = "redir" -> next[next[o]]
         [] OTHER             -> next[o]

\* The three tests if_cond() makes on what instr_execution() returned: at &&,
\* then at ||, then at `;'.  Each dereferences what the one before left.
PassAnd(c, r) == IF kind[c] # "and" THEN c ELSE GetNextNode(c, r)
PassOr(c, r)  == IF c = Nil \/ kind[c] # "or" THEN c ELSE GetNextNode(c, r)
PassSemi(c)   == IF kind[c] = "semi" THEN next[c] ELSE c

CondNext(c, r) == IF c = Nil THEN Nil ELSE PassSemi(PassOr(PassAnd(c, r), r))
CondFaults(c, r) == c # Nil /\ PassOr(PassAnd(c, r), r) = Nil

\* What follows an instruction that returned node c with status r: the caller
\* is if_cond() when the frame on top of s says so, traversal_ast() otherwise.
Proceed(c, r, s) ==
  /\ stack' = s
  /\ res' = r
  /\ IF InCond(s) /\ CondFaults(c, r)
       THEN phase' = "crashed" /\ cur' = Nil
       ELSE phase' = "run" /\ cur' = IF InCond(s) THEN CondNext(c, r) ELSE c

\* traversal_ast() starts by forgetting a negative brk.
Entered == IF ~InCond(stack) /\ brk < 0 THEN 0 ELSE brk

----------------------------------------------------------------------------
(* instr_execution(), on a node that holds the words of a command.         *)

At(K) == phase = "run" /\ cur # Nil /\ kind[cur] \in K

Crash ==
  /\ phase' = "crashed" /\ cur' = Nil /\ brk' = Entered
  /\ UNCHANGED <<stack, res, nbparent, broken, raised, params, funcs, line>>

\* A command run by a child process or a builtin.  The condition of an if or
\* a loop runs whatever node it holds as a command.
RunsCommand ==
  \/ At({"cmd"})
  \/ At({"call"}) /\ funcs[name[cur]] = Nil
  \/ At(Statement) /\ InCond(stack)

ExecCommand ==
  /\ RunsCommand
  /\ \E s \in Status : Proceed(GetNextNode(pipeEnd[cur], s), s, stack)
  /\ brk' = Entered
  /\ UNCHANGED <<nbparent, broken, raised, params, funcs, line>>

\* All words expand to nothing, or the node is an operator: command_call[0] is
\* a null pointer when it is compared with "break".
ExecNothing ==
  /\ \/ At({"empty", "amp"})
     \/ At(Operators) /\ InCond(stack)
  /\ Crash

ExecExit ==
  /\ At({"exit"})
  /\ phase' = "exited" /\ brk' = Entered
  /\ UNCHANGED <<cur, stack, res, nbparent, broken, raised, params, funcs, line>>

Raise(n) == IF n < 0 THEN raised - n ELSE raised

\* Mutant of BreakCounters: a break of every level leaves brk alone.
BreakKeepsBrk(n, b) ==
  IF nbparent # 0 /\ n < nbparent
    THEN /\ brk' = b - n
         /\ nbparent' = nbparent - n
         /\ raised' = Raise(n)
         /\ UNCHANGED broken
    ELSE /\ brk' = b
         /\ nbparent' = 0
         /\ broken' = IF nbparent = 0 THEN broken ELSE Depth(stack)
         /\ raised' = IF nbparent = 0 THEN raised ELSE 0

\* break_execution(), with brk as traversal_ast() left it in b.  The operand is
\* what atoi() reads, of any sign: a negative one raises both counters.
BreakCounters(n, b) ==
  CASE nbparent = 0 -> /\ brk' = b /\ UNCHANGED <<nbparent, broken, raised>>
    [] nbparent # 0 /\ n < nbparent ->
         /\ brk' = b - n
         /\ nbparent' = nbparent - n
         /\ raised' = Raise(n)
         /\ UNCHANGED broken
    [] OTHER ->
         /\ brk' = 0 /\ nbparent' = 0
         /\ broken' = Depth(stack) /\ raised' = 0

Break ==
  /\ At({"break"})
  /\ BreakCounters(count[cur], Entered)
  /\ Proceed(Nil, 0, stack)
  /\ UNCHANGED <<params, funcs, line>>

Continue ==
  /\ At({"continue"})
  /\ brk' = Entered
  /\ Proceed(Nil, 0, stack)
  /\ UNCHANGED <<nbparent, broken, raised, params, funcs, line>>

----------------------------------------------------------------------------
(* Functions.                                                              *)

Running(f) == \E i \in 1..Len(stack) : stack[i].k = "func" /\ name[stack[i].node] = f

\* get_function_param() and the call of traversal_ast() in func_execution()
Call ==
  /\ At({"call"}) /\ funcs[name[cur]] # Nil
  /\ nbparam' = count[cur] /\ live' = TRUE
  /\ stack' = Push(stack, "func", cur, 0)
  /\ cur' = funcs[name[cur]]
  /\ brk' = Entered
  /\ UNCHANGED <<phase, res, nbparent, broken, raised, funcs, line>>

\* func_execution() after the body; the mutant forgets what && asks of *res
FuncNextAnyStatus(o, r) ==
  IF o # Nil /\ kind[o] \in {"and", "or", "semi", "amp"} THEN next[o] ELSE Nil
FuncNext(o, r) ==
  IF o # Nil /\ \/ kind[o] = "and" /\ r = 0
                \/ kind[o] = "or" /\ r # 0
                \/ kind[o] \in {"semi", "amp"}
    THEN next[o] ELSE Nil

\* function_store(): a declaration replaces the body in place, and releases
\* the old one even when it is being executed.
Declare ==
  /\ At({"def"}) /\ ~InCond(stack)
  /\ IF Running(name[cur])
       THEN phase' = "undefined" /\ UNCHANGED <<cur, funcs>>
       ELSE /\ funcs' = [funcs EXCEPT ![name[cur]] = body[cur]]
            /\ cur' = IF oper[cur] = Nil THEN Nil ELSE next[oper[cur]]
            /\ UNCHANGED phase
  /\ brk' = Entered
  /\ UNCHANGED <<stack, res, nbparent, broken, raised, params, line>>

----------------------------------------------------------------------------
(* traversal_ast() on the other nodes.                                     *)

\* && || ; reached as nodes of their own, a | or > that was returned in place
\* of one, and an assignment
Step(K, n) ==
  /\ At(K) /\ ~InCond(stack)
  /\ cur' = n
  /\ brk' = Entered
  /\ UNCHANGED <<phase, stack, res, nbparent, broken, raised, params, funcs, line>>

AndOrNode == Step({"and", "or"}, GetNextNode(cur, res))
PassNode  == Step({"semi", "pipe", "redir", "assign"}, next[cur])

IfEnter ==
  /\ At({"if"}) /\ ~InCond(stack)
  /\ stack' = Push(stack, "cond", cur, res)
  /\ cur' = cond[cur] /\ res' = 0 /\ brk' = Entered
  /\ UNCHANGED <<phase, nbparent, broken, raised, params, funcs, line>>

\* The word matches the pattern of some clause or of none.
CaseEnter ==
  /\ At({"case"}) /\ ~InCond(stack)
  /\ stack' = Push(stack, "seq", cur, 0)
  /\ cur' \in arms[cur] \union {Nil}
  /\ brk' = Entered
  /\ UNCHANGED <<phase, res, nbparent, broken, raised, params, funcs, line>>

LoopEnter ==
  /\ brk' = Entered + 1
  /\ nbparent' = nbparent + 1
  /\ UNCHANGED <<broken, raised, params, funcs, line>>

WhileEnter ==
  /\ At({"while", "until"}) /\ ~InCond(stack)
  /\ LoopEnter
  /\ stack' = Push(Push(stack, "loop", cur, 0), "cond", cur, res)
  /\ cur' = cond[cur] /\ res' = 0
  /\ UNCHANGED phase

\* get_instruction_for(): the words are expanded once, before the first round.
\* The mutant takes `$@' for one more kind of word.
WordsUnexpanded(n) == count[n]
Words(n) == IF count[n] = AllParams THEN nbparam ELSE count[n]
ReadsReleased(n) == count[n] = AllParams /\ nbparam > 0 /\ ~live

ForEnter ==
  /\ At({"for"}) /\ ~InCond(stack)
  /\ LoopEnter
  /\ stack' = Push(stack, "loop", cur, Words(cur))
  /\ cur' = Nil
  /\ phase' = IF ReadsReleased(cur) THEN "undefined" ELSE "run"
  /\ UNCHANGED res

----------------------------------------------------------------------------
(* A call returns: what its caller does next.                              *)

Returns(k) == phase = "run" /\ cur = Nil /\ stack # <<>> /\ Top.k = k

SeqReturn ==
  /\ Returns("seq")
  /\ cur' = next[Top.node]
  /\ stack' = Pop(stack)
  /\ brk' = Entered
  /\ UNCHANGED <<phase, res, nbparent, broken, raised, params, funcs, line>>

FuncReturn ==
  /\ Returns("func") /\ live
  /\ live' = FALSE
  /\ Proceed(FuncNext(oper[Top.node], res), res, Pop(stack))
  /\ brk' = Entered
  /\ UNCHANGED <<nbparam, nbparent, broken, raised, funcs, line>>

\* It called another function, whose parameters are released a second time.
FuncReturnAgain ==
  /\ Returns("func") /\ ~live
  /\ phase' = "undefined" /\ brk' = Entered
  /\ UNCHANGED <<cur, stack, res, nbparent, broken, raised, params, funcs, line>>

\* if_execution()
IfBranch ==
  /\ Returns("cond") /\ kind[Top.node] = "if"
  /\ stack' = Push(Pop(stack), "seq", Top.node, 0)
  /\ cur' = IF res = 0 THEN body[Top.node] ELSE els[Top.node]
  /\ res' = 0
  /\ UNCHANGED <<phase, counters, params, funcs, line>>

CondHolds == IF kind[Top.node] = "while" THEN res = 0 ELSE res # 0

WhileIterate ==
  /\ Returns("cond") /\ kind[Top.node] \in {"while", "until"}
  /\ CondHolds /\ brk > 0
  /\ stack' = Pop(stack)
  /\ res' = Top.v /\ cur' = body[Top.node]
  /\ UNCHANGED <<phase, counters, params, funcs, line>>

\* Mutant of LoopLeave: nbparent goes down in any case.
LoopLeaveUntested(s) ==
  /\ nbparent' = nbparent - 1
  /\ broken' = IF broken > Depth(s) THEN Depth(s) ELSE broken
  /\ stack' = s
  /\ UNCHANGED <<phase, raised, params, funcs, line>>

\* A loop frame leaves the stack: nbparent goes down unless it is negative
\* already, and the history variable forgets the loop.
LoopLeave(s) ==
  /\ nbparent' = IF nbparent >= 0 THEN nbparent - 1 ELSE nbparent
  /\ broken' = IF broken > Depth(s) THEN Depth(s) ELSE broken
  /\ stack' = s
  /\ UNCHANGED <<phase, raised, params, funcs, line>>

WhileExit ==
  /\ Returns("cond") /\ kind[Top.node] \in {"while", "until"}
  /\ ~(CondHolds /\ brk > 0)
  /\ LoopLeave(Pop(Pop(stack)))
  /\ brk' = brk - 1
  /\ res' = Top.v /\ cur' = next[Top.node]

\* The body is done: the condition is evaluated again, before brk is looked at.
WhileAgain ==
  /\ Returns("loop") /\ kind[Top.node] \in {"while", "until"}
  /\ stack' = Push(stack, "cond", Top.node, res)
  /\ cur' = cond[Top.node] /\ res' = 0 /\ brk' = Entered
  /\ UNCHANGED <<phase, nbparent, broken, raised, params, funcs, line>>

\* Mutant of ForIterate: the index into the words is not advanced.
ForIterateSameWord ==
  /\ Returns("loop") /\ kind[Top.node] = "for"
  /\ Top.v > 0 /\ Entered > 0
  /\ cur' = body[Top.node] /\ brk' = Entered
  /\ UNCHANGED <<phase, stack, res, nbparent, broken, raised, params, funcs, line>>

ForIterate ==
  /\ Returns("loop") /\ kind[Top.node] = "for"
  /\ Top.v > 0 /\ Entered > 0
  /\ stack' = Push(Pop(stack), "loop", Top.node, Top.v - 1)
  /\ cur' = body[Top.node] /\ brk' = Entered
  /\ UNCHANGED <<phase, res, nbparent, broken, raised, params, funcs, line>>

ForExit ==
  /\ Returns("loop") /\ kind[Top.node] = "for"
  /\ ~(Top.v > 0 /\ Entered > 0)
  /\ LoopLeave(Pop(stack))
  /\ brk' = IF Entered # 0 THEN Entered - 1 ELSE 0
  /\ cur' = next[Top.node]
  /\ UNCHANGED res

LineEnd ==
  /\ phase = "run" /\ cur = Nil /\ stack = <<>>
  /\ phase' = "idle"
  /\ brk' = Entered
  /\ UNCHANGED <<cur, stack, res, nbparent, broken, raised, params, funcs, line>>

\* execution_ast(), on the next line that was read: *data is kept from the
\* line before, res is not.
LineStart ==
  /\ phase = "idle" /\ raised < MaxRaised
  /\ line' \in Lines
  /\ cur' = line' /\ res' = 0 /\ phase' = "run"
  /\ UNCHANGED <<stack, counters, params, funcs>>

----------------------------------------------------------------------------
Instruction == ExecCommand \/ ExecNothing \/ ExecExit \/ Break \/ Continue \/ Call \/ Declare
Visit == AndOrNode \/ PassNode \/ IfEnter \/ CaseEnter \/ WhileEnter \/ ForEnter
Return == SeqReturn \/ FuncReturn \/ FuncReturnAgain \/ IfBranch \/ WhileIterate
            \/ WhileExit \/ WhileAgain \/ ForIterate \/ ForExit \/ LineEnd

Interpret == Instruction \/ Visit \/ Return
Next == LineStart \/ Interpret

\* The shell is one thread: while a line runs, its next step is always taken.
Spec == Init /\ [][Next]_vars /\ WF_vars(Interpret)

----------------------------------------------------------------------------
(* Properties.                                                             *)

\* Type invariant: the types of stored_data's counters and tables, and of the
\* frames the recursion of traversal_ast() leaves; a for loop never has less
\* than no word left.
TypeOK ==
  /\ phase \in {"idle", "run", "exited", "crashed", "undefined"}
  /\ cur \in Link /\ stack \in Seq(Frame) /\ res \in Nat
  /\ brk \in Int /\ nbparent \in Int /\ broken \in Nat /\ raised \in Nat
  /\ nbparam \in Nat /\ live \in BOOLEAN
  /\ funcs \in [Name -> Link]
  /\ line \in Lines

\* Through any nesting of loops, functions and breaks and over any number of
\* lines, the counters break works on claim at most the loops that are open and
\* what negative operands have added since a break last cut every level; nbparent
\* drifts below brk, never above it and never below -1.
CounterBounds ==
  /\ -1 <= nbparent /\ nbparent <= brk
  /\ brk <= Depth(stack) + raised

\* Once a break has cut every level, none of the loops open at that moment
\* runs its body again, whatever loops and functions run before it is left,
\* unless a break with a negative operand has been obeyed in the meantime: that
\* one gives the loop its rounds back (break_negative, test_builtins.yml:303).
BrokenLoopsStop ==
  [][WhileIterate \/ ForIterate => Depth(stack) > broken \/ raised > 0]_vars

\* The command directly behind && is reached only with status 0 and the one
\* directly behind || only with another status, whichever of get_next_node(),
\* traversal_ast(), if_cond() and func_execution() the walk comes from.  Of a
\* right side that is a pipeline this is the first command alone: get_oper_node()
\* stops at `|', so in `false && a | b' the walk goes on with b.  Not after a
\* function declaration, whose operator next_node() steps over, nor when the right
\* side starts with a redirection, which is the operator the walk skips to.
AndOrRespected ==
  phase = "run" /\ cur # Nil /\ kind[cur] # "redir" =>
    \A o \in Node :
      next[o] = cur /\ (\A d \in Node : kind[d] = "def" => oper[d] # o) =>
        /\ kind[o] = "and" => res = 0
        /\ kind[o] = "or" => res # 0

\* break.c prints "break: only meaningful in a loop" and does nothing when
\* nbparent is 0: that refusal is for a break no loop encloses.
RefusedOnlyOutsideLoops ==
  At({"break"}) /\ nbparent = 0 => Depth(stack) = 0
=============================================================================
