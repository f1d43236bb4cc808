------------------------------- MODULE Parser -------------------------------
(***************************************************************************)
(* A line on its way to the interpreter, as main() and interactive_mode()  *)
(* (src/42sh.c) take it there: lexer_c(), grammar_check(), build_ast().    *)
(***************************************************************************)
EXTENDS Tree

CONSTANT Inputs  \* what may be typed: the words of a line and of those after it

ASSUME InputsAssumption ==
  Inputs \subseteq Seq(Token) /\ \A s \in Inputs : s # <<>> /\ s[Len(s)] = "eof"

VARIABLES
  phase,  \* typed, lexed, checked, built; refused; hung or crashed
  typed,  \* the words as they are typed
  toks,   \* the list of tokens
  end,    \* where grammar_check() found the end of the line
  tree    \* the children of the root

vars == <<phase, typed, toks, end, tree>>

Init ==
  /\ phase = "typed" /\ typed \in Inputs
  /\ toks = <<>> /\ end = NULL /\ tree = <<>>

Lex ==
  /\ phase = "typed"
  /\ toks' = lexer_c(typed)
  /\ phase' = "lexed"
  /\ UNCHANGED <<typed, end, tree>>

\* Mutant of Before: the "eof" a line was joined at stays in the list.
BeforeKeepsEof(t, e) == SubSeq(t, 1, e - 1)

\* The list up to the end that was found, with the lines that were joined, and
\* from there to the first "eof": nothing behind that one has been read.
Before(t, e) ==
  LET kept[i \in 0..e-1] ==
        IF i = 0 THEN <<>>
        ELSE IF t[i] = "eof" THEN kept[i - 1] ELSE Append(kept[i - 1], t[i])
  IN kept[e - 1]
Rest(t, e) == SubSeq(t, e, Past(t, e, Token \ {"eof"}))

Check ==
  /\ phase = "lexed"
  /\ \E e \in {grammar_check(toks)} :
       \/ /\ e > 0
          /\ toks' = Before(toks, e) \o Rest(toks, e)
          /\ end' = Len(Before(toks, e)) + 1
          /\ phase' = "checked"
       \/ /\ e <= 0
          /\ phase' = IF e = HANG THEN "hung" ELSE "refused"
          /\ UNCHANGED <<toks, end>>
  /\ UNCHANGED <<typed, tree>>

Build ==
  /\ phase = "checked"
  /\ LET b == build_ast(toks)
     IN /\ tree' = b.kids
        /\ phase' = IF b.at = NULL THEN "crashed" ELSE "built"
  /\ UNCHANGED <<typed, toks, end>>

Next == Lex \/ Check \/ Build
Spec == Init /\ [][Next]_vars

----------------------------------------------------------------------------
(* What the properties ask about lists of tokens.                          *)

Openers == {"if", "while", "until", "for", "case"}
Closers == {"fi", "done", "esac"}

\* The reserved words that may follow one another in a construct, and the
\* reference for what is accepted: `state' is the last one of each construct
\* that is open.
Follows == [then |-> {"if", "elif"}, elif |-> {"then"}, else |-> {"then"},
            fi |-> {"then", "else"}, do |-> {"while", "until", "for"},
            done |-> {"do"}, esac |-> {"case"}]

Mark(state, tok) ==
  IF tok \in Openers THEN Append(state, tok)
  ELSE IF tok \notin DOMAIN Follows THEN state
  ELSE IF state = <<>> \/ Last(state) \notin Follows[tok] THEN <<"error">>
  ELSE IF tok \in Closers THEN Front(state)
  ELSE Append(Front(state), tok)

Marks(t) ==
  LET state[i \in 0..Len(t)] ==
        IF i = 0 THEN <<>> ELSE Mark(state[i - 1], t[i])
  IN state

Balanced(t) == Marks(t)[Len(t)] = <<>>

\* A case that ends without a clause behind a `;;'.
NoClause(t) == \E i \in 2..Len(t) : t[i] = "esac" /\ t[i - 1] # ";;"

----------------------------------------------------------------------------
(* Properties.                                                             *)

Accepted == phase \in {"checked", "built", "crashed"}

\* Type invariant: of an accepted line the end is a newline or the only "eof".
TypeOK ==
  /\ phase \in {"typed", "lexed", "checked", "built", "refused", "hung", "crashed"}
  /\ typed \in Seq(Token) /\ toks \in Seq(Token) /\ end \in 0..Len(toks)
  /\ phase # "typed" => toks # <<>>
  /\ Accepted => /\ end # NULL /\ toks[end] \in EndOf
                 /\ \A i \in DOMAIN toks : toks[i] = "eof" <=> i = Len(toks)

\* Whatever is typed, and however the lines are joined, the constructs of an
\* accepted line are closed in the order they were opened.  A case without a
\* clause is left out: grammar_check() takes any token for its clauses.
AcceptedIsBalanced ==
  Accepted /\ ~NoClause(toks) => Balanced(SubSeq(toks, 1, end - 1))

\* "its parser is able to check for the grammar-compliance of any sequence of
\* token given as an input" (README).
AnySequenceIsChecked == phase # "hung"
=============================================================================
