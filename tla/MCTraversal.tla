---------------------------- MODULE MCTraversal ----------------------------
(***************************************************************************)
(* Lines for Traversal that mix its constructs.  A line is a sequence of   *)
(* tree nodes that name one another by their place in it, 0 for none; its  *)
(* first node is the first one executed.                                   *)
(***************************************************************************)
EXTENDS Traversal

CONSTANTS f, g

Nd(k, nx) == [k |-> k, nx |-> nx, c |-> 0, b |-> 0, e |-> 0, a |-> {},
              nm |-> f, ct |-> 0]
Cmd(nx) == Nd("cmd", nx)
BreakBy(n) == [Nd("break", 0) EXCEPT !.ct = n]
If(nx, c, b, e) == [Nd("if", nx) EXCEPT !.c = c, !.b = b, !.e = e]
Loop(k, nx, c, b) == [Nd(k, nx) EXCEPT !.c = c, !.b = b]
For(nx, words, b) == [Nd("for", nx) EXCEPT !.ct = words, !.b = b]
Case(nx, a) == [Nd("case", nx) EXCEPT !.a = a]
Def(nx, fn, b) == [Nd("def", nx) EXCEPT !.nm = fn, !.b = b]
CallOf(nx, fn, args) == [Nd("call", nx) EXCEPT !.nm = fn, !.ct = args]

Session == [
  \* while c; do while c; do case w in 1) break 1;; 2) break 2;; 3) continue;;
  \*   4) break 0;; esac; c; done; c; done; c
  nested |-> <<
    Loop("while", 2, 4, 5), Nd("semi", 3), Cmd(0), Cmd(0),
    Loop("while", 6, 8, 9), Nd("semi", 7), Cmd(0), Cmd(0),
    Case(14, {10, 11, 12, 13}), BreakBy(1), BreakBy(2), Nd("continue", 0), BreakBy(0),
    Nd("semi", 15), Cmd(0) >>,
  \* f() { for i in $@; do c && break 2; c; done }; c
  declare |-> <<
    Def(2, f, 4), Nd("semi", 3), Cmd(0), For(0, AllParams, 5),
    Cmd(6), Nd("and", 7), BreakBy(2) >>,
  \* for i in 1 2; do f a && continue || c; until c || f a b; do f a; break; done; done
  calls |-> <<
    For(0, 2, 2), CallOf(3, f, 1), Nd("and", 4), Nd("continue", 5), Nd("or", 6),
    Cmd(7), Nd("semi", 8), Loop("until", 0, 9, 12), Cmd(10), Nd("or", 11),
    CallOf(0, f, 2), CallOf(13, f, 1), Nd("semi", 14), BreakBy(1) >>,
  \* x=1; c && c | c && c > c || c; for i in $@; do for j in 1 2; do break; done; f a b; done
  lists |-> <<
    Nd("assign", 2), Nd("semi", 3), Cmd(4), Nd("and", 5), Cmd(6), Nd("pipe", 7),
    Cmd(8), Nd("and", 9), Cmd(10), Nd("redir", 11), Cmd(12), Nd("or", 13), Cmd(14),
    Nd("semi", 15), For(0, AllParams, 16), For(18, 2, 17), BreakBy(1), Nd("semi", 19),
    CallOf(0, f, 2) >>,
  \* if c && c || c && c && c
  \* then case w in 1) exit;; 2) $u;; esac; elif c || c; then f a > c; else c; fi && c & c
  branches |-> <<
    If(2, 6, 15, 18), Nd("and", 3), Cmd(4), Nd("amp", 5), Cmd(0),
    Cmd(7), Nd("and", 8), Cmd(9), Nd("or", 10), Cmd(11), Nd("and", 12), Cmd(13),
    Nd("and", 14), Cmd(0), Case(0, {16, 17}), Nd("exit", 0), Nd("empty", 0),
    If(0, 19, 22, 25), Cmd(20), Nd("or", 21), Cmd(0), CallOf(23, f, 1),
    Nd("redir", 24), Cmd(0), Cmd(0) >>,
  \* c && > f c | > f c; c
  prefixed |-> <<
    Cmd(2), Nd("and", 3), Nd("redir", 4), Cmd(5), Cmd(6), Nd("pipe", 7),
    Nd("redir", 8), Cmd(9), Cmd(10), Nd("semi", 11), Cmd(0) >>,
  \* for i in 1; do g() { f a; c; }; g && c; done; c
  inner |-> <<
    For(2, 1, 4), Nd("semi", 3), Cmd(0), Def(5, g, 8), Nd("semi", 6), CallOf(7, g, 0),
    Nd("and", 11), CallOf(9, f, 1), Nd("semi", 10), Cmd(0), Cmd(0) >>,
  \* for i in 1 2; do if c; then break; fi; for j in 1; do break -1; done; done; c
  negative |-> <<
    For(2, 2, 4), Nd("semi", 3), Cmd(0), If(5, 6, 7, 0), Nd("semi", 8), Cmd(0),
    BreakBy(1), For(0, 1, 9), BreakBy(-1) >>,
  \* g() { g() { c; }; }; g
  redeclare |-> << Def(2, g, 4), Nd("semi", 3), CallOf(0, g, 0), Def(0, g, 5), Cmd(0) >>
]

MCNode == UNION {{l} \X (1..Len(Session[l])) : l \in DOMAIN Session}
Nodes(l, ids) == {<<l, i>> : i \in ids}
Ref(n, i) == IF i = 0 THEN Nil ELSE <<n[1], i>>
Entry(n) == Session[n[1]][n[2]]

MCLines == {<<l, 1>> : l \in DOMAIN Session}
MCKind == [n \in MCNode |-> Entry(n).k]
MCNext == [n \in MCNode |-> Ref(n, Entry(n).nx)]
MCCond == [n \in MCNode |-> Ref(n, Entry(n).c)]
MCBody == [n \in MCNode |-> Ref(n, Entry(n).b)]
MCEls == [n \in MCNode |-> Ref(n, Entry(n).e)]
MCArms == [n \in MCNode |-> Nodes(n[1], Entry(n).a)]
MCName == [n \in MCNode |-> Entry(n).nm]
MCCount == [n \in MCNode |-> Entry(n).ct]

MCOper[n \in MCNode] ==
  IF Entry(n).k \in Operators THEN n
  ELSE IF Entry(n).nx = 0 THEN Nil ELSE MCOper[Ref(n, Entry(n).nx)]
MCPipeEnd[n \in MCNode] ==
  LET o == MCOper[n]
  IN IF o = Nil \/ MCKind[o] # "pipe" THEN o
     ELSE IF MCNext[o] = Nil THEN Nil ELSE MCPipeEnd[MCNext[o]]

\* Lines whose only loops are for loops, and whose functions have no others.
ForLines == {<<l, 1>> : l \in {"declare", "lists", "branches", "inner", "negative"}}

\* Such a line ends, or ends the shell, whatever the counters the lines before
\* it left behind: no break, refused or accepted, and no `$@' keeps it going.
ForLinesEnd ==
  \A l \in ForLines : phase = "run" /\ line = l ~> phase # "run"
=============================================================================
