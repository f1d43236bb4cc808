-------------------------------- MODULE Tree --------------------------------
(***************************************************************************)
(* build_ast() (src/ast/ast.c): the tree of a list of tokens that          *)
(* grammar_check() accepted.  It does not follow the rules that accepted   *)
(* the list but reads it again, from one closing word to the next.         *)
(*                                                                         *)
(* A node is the token it was made from, its place in the list (0 for a    *)
(* node no token stands for) and its children.  What a call builds is the  *)
(* children and the place it returns, NULL when it ran over the end of the *)
(* list.                                                                   *)
(***************************************************************************)
EXTENDS Grammar

Branch(tok, i, kids) == [tok |-> tok, pos |-> i, kids |-> kids]
Built(i, kids) == [at |-> i, kids |-> kids]

\* What is built from where b ended goes behind, or is lost when that is nowhere.
Joined(b, more) == Built(more.at, b.kids \o more.kids)
Behind(b, F(_)) == IF b.at = NULL THEN b ELSE Joined(b, F(b.at))

\* tok->next, behind what was built: nothing comes after the end of the list.
NextTo(t, b) ==
  IF b.at = NULL THEN b ELSE Built(IF t[b.at] = "eof" THEN NULL ELSE b.at + 1, b.kids)

\* The word behind b is taken as well if it is one of S.
Over(t, b, S) ==
  IF b.at # NULL /\ t[b.at] \in S THEN Built(b.at + 1, b.kids) ELSE b

\* The words that end the children of an A_CONDITION, an A_BODY, an A_EBODY.
EndsCondition == {"then", "do", ")"}
EndsEBody == {"elif", "else", "done", "fi", ";;", ")", "}"}
EndsBody == EndsEBody \union {"esac", "eof"}
Ends == [condition |-> EndsCondition, body |-> EndsBody, ebody |-> EndsEBody,
         root |-> EndOf]

\* build_aux() calls itself, always from a place further on: u[j][k] is what it
\* builds there for a node or a list of children of kind k, for the places behind
\* the one it was called at.
Kinds == {"def", "if", "while", "until", "for", "case", "then", "do", "else", "elif",
          "clauses"} \union DOMAIN Ends

\* Nothing is built at the end of the list, whatever the node is.
Unless(t, i, b) == IF t[i] = "eof" THEN Built(i, <<>>) ELSE b

IsFunction(t, i) ==
  \/ t[i] = "function"
  \/ t[i] \in Words /\ At(t, i + 1) = "(" /\ At(t, i + 2) = ")"

\* build_aux() for the node that new_node() makes of token i, on what follows.
Node(t, u, i) ==
  LET tok == IF IsFunction(t, i) THEN "def" ELSE t[i]
      b   == IF tok \in Kinds THEN u[i + 1][tok] ELSE Built(i + 1, <<>>)
      below == Unless(t, i + 1, b)
  IN IF t[i] = "eof" THEN Built(NULL, <<>>)
     ELSE Built(below.at, <<Branch(tok, i, below.kids)>>)

\* The children up to the first word that ends them.  Newlines are dropped.
Children(t, u, i, kind) ==
  IF t[i] \in Ends[kind] THEN Built(i, <<>>)
  ELSE IF t[i] = "nl" THEN u[i + 1][kind]
  ELSE Behind(Node(t, u, i), LAMBDA j : u[j][kind])

Under(tok, b) == Built(b.at, <<Branch(tok, 0, b.kids)>>)

Condition(t, u, i) ==
  Under("condition", Unless(t, i, Children(t, u, i, "condition")))

\* Mutant of Body: the word that ends it is left where it is.
BodyStays(t, u, i) == Under("body", Unless(t, i, Children(t, u, i, "body")))

Body(t, u, i) ==
  Under("body", Over(t, Children(t, u, i, "body"), Token \ {"elif", "else", "eof"}))
EBody(t, u, i) == Under("body", Unless(t, i, Children(t, u, i, "ebody")))

\* The elif or else that follows a then; its words are the rest of the branch.
ElsePart(t, u, i, B(_, _, _)) ==
  CASE t[i] = "elif" -> Under("elif", Unless(t, i + 1, u[i + 1]["elif"]))
    [] t[i] = "else" -> B(t, u, i + 1)
    [] OTHER -> Built(i, <<>>)

Elif(t, u, i) ==
  Behind(NextTo(t, Condition(t, u, i)), LAMBDA j :
    Behind(EBody(t, u, j), LAMBDA k : ElsePart(t, u, k, EBody)))

If(t, u, i) ==
  Over(t, Behind(NextTo(t, Condition(t, u, i)), LAMBDA j :
            Behind(Body(t, u, j), LAMBDA k : ElsePart(t, u, k, Body))), {"fi"})

Loop(t, u, i) == Behind(NextTo(t, Condition(t, u, i)), LAMBDA j : Body(t, u, j))

\* The first place from j on that is no newline and not in S
From(t, j, S) == Built(Past(t, j, EndOf \union S), <<>>)

\* Every clause up to `esac' is a condition and a body.
Clauses(t, u, i) ==
  IF t[i] = "esac" THEN Built(i + 1, <<>>)
  ELSE Behind(Under("clause", Behind(Behind(Condition(t, u, i),
                LAMBDA j : From(t, j, {")"})), LAMBDA j : Body(t, u, j))),
              LAMBDA j : u[j]["clauses"])

CaseOf(t, u, i) ==
  Joined(Built(i, <<Branch(t[i], i, <<>>)>>),
         Behind(From(t, i + 1, {"in", "("}), LAMBDA j : Clauses(t, u, j)))

Function(t, u, i) ==
  LET name == IF t[i] = "(" THEN i - 1 ELSE i
  IN Joined(Built(name, <<Branch(t[name], name, <<>>)>>),
            Behind(Built(Past(t, name + 1, {"(", ")", "{"}), <<>>), LAMBDA j : Body(t, u, j)))

Inner(t, u, i) ==
  [k \in Kinds |->
     CASE k = "def" -> Function(t, u, i)
       [] k = "if" -> If(t, u, i)
       [] k \in {"while", "until", "for"} -> Loop(t, u, i)
       [] k = "case" -> CaseOf(t, u, i)
       [] k \in {"then", "do"} -> Body(t, u, i)
       [] k = "else" -> EBody(t, u, i)
       [] k = "elif" -> Elif(t, u, i)
       [] k = "clauses" -> Clauses(t, u, i)
       [] k \in DOMAIN Ends -> Children(t, u, i, k)]

\* build_ast(): the root's children end at the first newline.
build_ast(t) ==
  LET u[i \in 1..Len(t)] == Inner(t, [j \in i+1..Len(t) |-> u[j]], i)
  IN u[1]["root"]
=============================================================================
