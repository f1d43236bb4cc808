------------------------------ MODULE Grammar ------------------------------
(***************************************************************************)
(* From the words of a line to the verdict on it: what check_context()     *)
(* makes of each word (src/lexer/lexer.c) and the recursive descent of     *)
(* grammar_check() (src/grammar).  A token is its type; a place in the     *)
(* list is its index, 0 the null pointer.                                  *)
(*                                                                         *)
(* A script is one list: newlines are tokens "nl" of it and "eof" is its   *)
(* last.  A terminal gives one list per line; where a rule runs into the   *)
(* "eof" and asks for more, handletty() reads the next line and takes the  *)
(* place of that token.  The lines to come are written behind the first:   *)
(* an "eof" with something behind it is one where a line can be joined.    *)
(***************************************************************************)
EXTENDS Integers, Sequences, SequencesExt, FiniteSetsExt

Reserved == {"if", "then", "else", "fi", "while", "for", "in", "until", "case",
             "do", "done", "esac", "elif"}
\* "redir" stands for > < >> >& <& >| <>; "heredoc" for << and <<-
Special == {"&&", "||", "|", ";", ";;", "&", "redir", "heredoc", "(", ")", "{", "}"}
\* "!" and "function" have the type of a word, and rules of their own
Words == {"word", "!", "function"}
Separators == {";", "&"}
EndOf == {"nl", "eof"}
Token == Reserved \union Special \union Words \union EndOf \union {"assign"}

NULL == 0
\* a rule that never returns
HANG == -1

----------------------------------------------------------------------------
(* The lexer.  context is WORD after a word, FOR after for and case, ENDOF *)
(* where a command may start: only there is a reserved word one.           *)

Context(tok) ==
  IF tok \in Words \union {"assign"} THEN "WORD"
  ELSE IF tok \in {"for", "case"} THEN "FOR" ELSE "ENDOF"

\* Mutant of Read: a reserved word is one wherever it stands.
ReadReserved(context, tok) == [tok |-> tok, context |-> Context(tok)]

\* check_context()
Read(context, tok) ==
  IF context = "FOR" /\ tok = "in" THEN [tok |-> tok, context |-> "ENDOF"]
  ELSE IF context = "ENDOF" \/ tok \in EndOf
    THEN [tok |-> tok, context |-> Context(tok)]
  ELSE IF tok \in Reserved \union {"assign"}
    THEN [tok |-> "word", context |-> context]
  ELSE [tok |-> tok, context |-> IF tok \in Words THEN context ELSE "ENDOF"]

\* The context behind every word; a line starts where a command may.
Contexts(typed) ==
  LET context[i \in 0..Len(typed)] ==
        IF i = 0 THEN "ENDOF" ELSE Read(context[i - 1], typed[i]).context
  IN context

lexer_c(typed) == [i \in 1..Len(typed) |-> Read(Contexts(typed)[i - 1], typed[i]).tok]

----------------------------------------------------------------------------
(* Places in the list.                                                     *)

At(t, i) == IF i \in DOMAIN t THEN t[i] ELSE "none"

\* The first token from i on that is not in S.
Past(t, i, S) ==
  LET rest == {j \in i..Len(t) : t[j] \notin S}
  IN IF rest = {} THEN NULL ELSE Min(rest)

\* The loops over newlines: at the last "eof", handletty() returns no line.
Skip(t, i) == Past(t, i, EndOf)

\* One rule after another, one rule if another does not apply, and both.
Then(i, F(_)) == IF i <= 0 THEN i ELSE F(i)
Else(i, j) == IF i = NULL THEN j ELSE i
ThenOr(i, F(_), j) == IF i = NULL THEN j ELSE Then(i, F)

----------------------------------------------------------------------------
(* grammar_command.c.  A rule that calls itself, in a loop or through      *)
(* others, does so from a place further on: g[j][r] is what rule r makes   *)
(* of the list from j on, for the places behind the one a rule starts at.  *)

g_redirection(t, i) ==
  IF At(t, i) = "redir" /\ At(t, i + 1) = "word" THEN i + 1 ELSE NULL

g_element(t, i) == IF At(t, i) = "word" THEN i ELSE g_redirection(t, i)
g_prefix(t, i) == IF At(t, i) = "assign" THEN i ELSE g_redirection(t, i)

\* The last place of the longest run of one of them; i - 1 when there is none.
PrefixRun(t, g, i) ==
  LET j == g_prefix(t, i) IN IF j = NULL THEN i - 1 ELSE g[j + 1]["PrefixRun"]
ElementRun(t, g, i) ==
  LET j == g_element(t, i) IN IF j = NULL THEN i - 1 ELSE g[j + 1]["ElementRun"]
Redirected(t, g, i) ==
  LET j == g_redirection(t, i) IN IF j = NULL THEN i - 1 ELSE g[j + 1]["Redirected"]

g_simplecommand(t, g, i) ==
  LET last == ElementRun(t, g, PrefixRun(t, g, i) + 1)
  IN IF last < i THEN NULL ELSE last

\* A compound list between i and a closing token.
Enclosed(t, g, i, close) ==
  Then(g[i + 1]["g_compoundlist"],
       LAMBDA j : IF At(t, j + 1) = close THEN j + 1 ELSE NULL)

----------------------------------------------------------------------------
(* grammar_rule.c and grammar_group.c                                      *)

\* Mutant of g_dogroup: done is not looked for.
UnclosedGroup(t, g, i) ==
  IF At(t, i) = "do" THEN Then(g[i + 1]["g_compoundlist"], LAMBDA j : j + 1) ELSE NULL

g_dogroup(t, g, i) == IF At(t, i) = "do" THEN Enclosed(t, g, i, "done") ELSE NULL

\* g_rulewhile() and g_ruleuntil()
g_ruleloop(t, g, i) == Then(g[i + 1]["g_compoundlist"], LAMBDA j : g_dogroup(t, g, j + 1))

\* Where the words of a for end, and the tokens behind them.
ForWords(t, i) ==
  LET words == Past(t, Skip(t, i + 2) + 1, {"word"})
  IN CASE At(t, i + 2) = ";" -> i + 3
       [] At(t, i + 2) # ";" /\ At(t, Skip(t, i + 2)) = "in" ->
            IF At(t, words) \in {";", "nl"} THEN words + 1 ELSE NULL
       [] OTHER -> Skip(t, i + 2)

g_rulefor(t, g, i) ==
  IF At(t, i + 1) # "word" THEN NULL
  ELSE Then(ForWords(t, i), LAMBDA j : Then(Skip(t, j), LAMBDA d : g_dogroup(t, g, d)))

g_elseclause(t, g, i) ==
  CASE At(t, i) = "else" -> g[i + 1]["g_compoundlist"]
    [] At(t, i) = "elif" ->
         Then(Enclosed(t, g, i, "then"), LAMBDA j : Then(g[j + 1]["g_compoundlist"],
           LAMBDA b : Else(g[b + 1]["g_elseclause"], b)))
    [] OTHER -> NULL

g_ruleif(t, g, i) ==
  Then(Enclosed(t, g, i, "then"), LAMBDA j : Then(g[j + 1]["g_compoundlist"],
    LAMBDA b : Then(Else(g[b + 1]["g_elseclause"], b),
      LAMBDA e : IF At(t, e + 1) = "fi" THEN e + 1 ELSE NULL)))

\* The pattern list ends before ")"; an empty clause is its ")" or newlines.
Patterns(t, g, i) ==
  IF At(t, i + 1) = "|" /\ At(t, i + 2) \in {"word", "function"}
    THEN g[i + 2]["Patterns"] ELSE i

g_caseitem(t, g, i) ==
  LET first == IF At(t, i) = "(" THEN i + 1 ELSE i
      close == Patterns(t, g, first) + 1
      rest  == Past(t, close + 1, {"nl"})
      empty == IF Skip(t, close + 1) = NULL THEN rest - 1 ELSE Skip(t, close + 1) - 1
  IN IF At(t, first) \notin Words \/ At(t, close) # ")" THEN NULL
     ELSE Else(g[rest]["g_compoundlist"], empty)

\* i is the last token of the clauses so far: another `;;' and clause, or the end
CaseItems(t, g, i) ==
  IF At(t, i + 1) # ";;" THEN NULL
  ELSE Then(Skip(t, i + 2), LAMBDA next :
         ThenOr(g_caseitem(t, g, next), LAMBDA j : g[j]["CaseItems"], next - 1))

g_caseclause(t, g, i) == Then(g_caseitem(t, g, i), LAMBDA j : CaseItems(t, g, j))

\* Without a clause, whatever token stands between `in' and `esac' is passed over.
g_rulecase(t, g, i) ==
  IF At(t, i + 1) # "word" THEN NULL
  ELSE Then(Skip(t, i + 2), LAMBDA in :
         IF t[in] # "in" THEN NULL
         ELSE Then(Skip(t, in + 1), LAMBDA first :
                Then(Else(g_caseclause(t, g, first), first),
                     LAMBDA j : IF At(t, j + 1) = "esac" THEN j + 1 ELSE NULL)))

g_shellcommand(t, g, i) ==
  CASE At(t, i) = "{" -> Enclosed(t, g, i, "}")
    [] At(t, i) = "(" -> Enclosed(t, g, i, ")")
    [] At(t, i) = "for" -> g_rulefor(t, g, i)
    [] At(t, i) \in {"while", "until"} -> g_ruleloop(t, g, i)
    [] At(t, i) = "case" -> g_rulecase(t, g, i)
    [] At(t, i) = "if" -> g_ruleif(t, g, i)
    [] OTHER -> NULL

----------------------------------------------------------------------------
(* Commands and lists (grammar_command.c, grammar_check.c).                *)

g_funcdec(t, g, i) ==
  LET name == IF At(t, i) = "function" THEN i + 1 ELSE i
  IN IF /\ At(t, i) \in Words /\ At(t, name) \in Words
        /\ At(t, name + 1) = "(" /\ At(t, name + 2) = ")"
       THEN Then(Skip(t, name + 3), LAMBDA b : g_shellcommand(t, g, b))
       ELSE NULL

g_command(t, g, i) ==
  ThenOr(g_funcdec(t, g, i), LAMBDA j : Redirected(t, g, j + 1),
    Else(g_simplecommand(t, g, i),
         Then(g_shellcommand(t, g, i), LAMBDA j : Redirected(t, g, j + 1))))

\* The loop over newlines behind a pipe starts again from the pipe each time.
Piped(t, g, i) ==
  IF At(t, i + 1) # "|" THEN i
  ELSE IF At(t, i + 2) \in EndOf THEN HANG
  ELSE Then(g_command(t, g, i + 2), LAMBDA j : g[j]["Piped"])

g_pipeline(t, g, i) ==
  Then(g_command(t, g, IF At(t, i) = "!" THEN i + 1 ELSE i), LAMBDA j : Piped(t, g, j))

AndOr(t, g, i) ==
  IF At(t, i + 1) \notin {"&&", "||"} THEN i
  ELSE Then(Skip(t, i + 2), LAMBDA next :
         Then(g_pipeline(t, g, next), LAMBDA j : g[j]["AndOr"]))

g_andor(t, g, i) == Then(g_pipeline(t, g, i), LAMBDA j : AndOr(t, g, j))

\* i is the last token of a list of commands so far; a separator that no command
\* follows ends it.
CompoundItems(t, g, i) ==
  IF At(t, i + 1) \notin Separators \union EndOf THEN i
  ELSE LET next == Skip(t, i + 2)
       IN IF next = NULL THEN NULL
          ELSE ThenOr(g_andor(t, g, next), LAMBDA j : g[j]["CompoundItems"], next - 1)

\* A list of one command is rejected when the line ends behind it.
g_compoundlist(t, g, i) ==
  Then(Skip(t, i), LAMBDA first : Then(g_andor(t, g, first), LAMBDA j :
    IF At(t, j + 1) = "eof" THEN NULL ELSE CompoundItems(t, g, j)))

\* Mutant of g_list: `;' and `&' are skipped wherever they are.
ListSkipping(t, g, i) ==
  Then(g_andor(t, g, i), LAMBDA j :
    IF At(t, j + 1) \in EndOf THEN j + 1
    ELSE IF At(t, j + 1) \notin Separators THEN NULL
    ELSE LET next == Past(t, j + 2, Separators)
         IN IF next = NULL \/ At(t, next) \in EndOf THEN next ELSE g[next]["g_list"])

g_list(t, g, i) ==
  Then(g_andor(t, g, i), LAMBDA j :
    IF At(t, j + 1) \in EndOf THEN j + 1
    ELSE IF At(t, j + 1) \notin Separators THEN NULL
    ELSE IF At(t, j + 2) \in EndOf THEN j + 2 ELSE g[j + 2]["g_list"])

----------------------------------------------------------------------------
(* The rules that call themselves, from every place.                       *)

Rules == {"PrefixRun", "ElementRun", "Redirected", "Piped", "AndOr", "CompoundItems",
          "g_compoundlist", "g_elseclause", "Patterns", "CaseItems", "g_list"}

Results(t, g, i) ==
  [r \in Rules |->
     CASE r = "PrefixRun" -> PrefixRun(t, g, i)
       [] r = "ElementRun" -> ElementRun(t, g, i)
       [] r = "Redirected" -> Redirected(t, g, i)
       [] r = "Piped" -> Piped(t, g, i)
       [] r = "AndOr" -> AndOr(t, g, i)
       [] r = "CompoundItems" -> CompoundItems(t, g, i)
       [] r = "g_compoundlist" -> g_compoundlist(t, g, i)
       [] r = "g_elseclause" -> g_elseclause(t, g, i)
       [] r = "Patterns" -> Patterns(t, g, i)
       [] r = "CaseItems" -> CaseItems(t, g, i)
       [] r = "g_list" -> g_list(t, g, i)]

Readings(t) ==
  LET g[i \in 1..Len(t)+1] == Results(t, [j \in i+1..Len(t)+1 |-> g[j]], i)
  IN g

\* grammar_check(): where the checked line ends, NULL or HANG.
grammar_check(t) == IF t[1] \in EndOf THEN 1 ELSE Readings(t)[1]["g_list"]
=============================================================================
