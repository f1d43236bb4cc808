----------------------------- MODULE ParsedTree -----------------------------
(***************************************************************************)
(* What the tree of an accepted line is compared with: the line as it was  *)
(* read, and what the interpreter takes for granted.                       *)
(***************************************************************************)
EXTENDS Parser

\* How many constructs are open at i.
Opened(t, i) ==
  Cardinality({j \in 1..i-1 : t[j] \in Openers})
    - Cardinality({j \in 1..i-1 : t[j] \in Closers})

\* What the interpreter walks: words and operators.
Joints == {"&&", "||", "|", ";", "&", "redir"}
Code == Joints \union {"word", "!", "assign"}

\* The place of each in the list and the number of constructs around it, as the
\* list has them and as the tree has them.
Spelled == SelectSeq([i \in 1..end-1 |-> <<i, Opened(toks, i)>>],
                     LAMBDA w : toks[w[1]] \in Code)

RECURSIVE Leaves(_, _)
Leaves(kids, depth) ==
  FlattenSeq([k \in DOMAIN kids |->
    (IF kids[k].tok \in Code THEN <<<<kids[k].pos, depth>>>> ELSE <<>>) \o
    Leaves(kids[k].kids, IF kids[k].tok \in Openers THEN depth + 1 ELSE depth)])

\* The lines whose tree is not what the list says.  The builder has no node for
\* a group in braces or parentheses;
Group(t) == \E i \in DOMAIN t :
  \/ t[i] = "{" /\ At(t, i - 1) \notin {")", "nl"}
  \/ t[i] = "(" /\ t[i + 1] # ")" /\ At(t, i - 1) \notin {"in", ";;", "nl"}
\* it takes all that follows for the body of a function without braces;
BareBody(t) == \E i \in 1..Len(t)-2 :
  t[i] = "(" /\ t[i + 1] = ")" /\ At(t, Skip(t, i + 2)) # "{"
\* it looks for clauses unless `esac' comes right after a `;;' (NoClause);
\* it takes the pattern `function' for a declaration;
FunctionWord(t) == \E i \in DOMAIN t :
  t[i] = "function" /\ ~(At(t, i + 1) \in Words /\ At(t, i + 2) = "(")
\* with `fi fi', `fi else' and `fi elif' the inner `if' takes both words;
ClosedTwice(t) == \E i \in 1..Len(t)-1 : t[i] = "fi" /\ t[i + 1] \in {"fi", "else", "elif"}
\* and it stops at the first newline that is not in a construct or a function,
\* even behind && or ||.
BrokenList(t) == \E i \in 1..end-1 :
  /\ t[i] = "nl" /\ Opened(t, i) = 0
  /\ ~\E j \in 1..i-2 : /\ t[j] = "(" /\ t[j + 1] = ")"
                        /\ \A h \in j..i : t[h] # "}"

Odd(t) == Group(t) \/ BareBody(t) \/ NoClause(t) \/ FunctionWord(t)
            \/ ClosedTwice(t) \/ BrokenList(t)

\* No operator stands right after another one, but for a redirection, and a
\* redirection has its file: what the interpreter takes for granted (TreeShape
\* in Traversal).  The words of a for and the patterns of a case are not code.
RECURSIVE Shaped(_)
Shaped(kids) ==
  /\ \A k \in DOMAIN kids :
       /\ kids[k].tok = "redir" => k < Len(kids) /\ kids[k + 1].tok = "word"
       /\ kids[k].tok \in Joints /\ k < Len(kids) =>
            kids[k + 1].tok \notin Joints \ {"redir"}
  /\ \A k \in DOMAIN kids :
       Shaped(IF kids[k].tok \in {"for", "clause"} THEN Tail(kids[k].kids)
              ELSE kids[k].kids)

----------------------------------------------------------------------------
(* Properties.                                                             *)

\* build_ast() reads an accepted line to the end grammar_check() found, and
\* keeps each word and operator, in order and inside the same constructs.
TreeIsTheLine ==
  phase \in {"built", "crashed"} /\ ~Odd(toks) =>
    phase = "built" /\ Leaves(tree, 0) = Spelled

\* The interpreter is given what it takes for granted.
TreeIsShaped == phase = "built" => Shaped(tree)
=============================================================================
