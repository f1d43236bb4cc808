------------------------------ MODULE MCParser ------------------------------
(***************************************************************************)
(* What is typed in Parser's runs: sentences of the shell's grammar, the   *)
(* lines one word away from some of them, and all short lines.             *)
(***************************************************************************)
EXTENDS ParsedTree

\* A command, some with a reserved word among the arguments; lists of commands.
Simple == {<<"word">>, <<"word", "done">>, <<"assign", "word", "redir", "word">>}
Short == Simple
  \union {a \o <<op>> \o <<"word", "in">> : a \in Simple, op \in {"&&", "||", "|", ";", "&"}}
  \union {<<"word", "&&", e, "word">> : e \in EndOf}
  \union {<<"!", "word", "|", "redir", "word", "word">>}

\* Constructs around the lists B and C, S what separates.
Constructs(B, C, S) ==
  {<<"if">> \o b \o s \o <<"then">> \o c \o s \o <<"fi">> : b \in B, c \in C, s \in S}
  \union {<<"if">> \o b \o s \o <<"then">> \o c \o s \o <<"elif">> \o c \o s
            \o <<"then">> \o b \o s \o <<"else">> \o b \o s \o <<"fi">> :
            b \in B, c \in C, s \in S}
  \union {<<loop>> \o c \o s \o <<"do">> \o b \o s \o <<"done">> :
            loop \in {"while", "until"}, b \in B, c \in C, s \in S}
  \union {<<"for", "if", "in", "word", "do">> \o s \o <<"do">> \o b \o s \o <<"done">> :
            b \in B, s \in S}
  \union {<<"case", "word", "in", "nl", "word", "|", "word", ")">> \o b
            \o <<";;", "(", "word", ")">> \o c \o s \o <<";;", "esac">> :
            b \in B, c \in C, s \in S}
  \union {<<"word", "(", ")", "{">> \o b \o s \o <<"}">> : b \in B, s \in S}

Inside == Constructs({<<"word", "&&", "word", "fi">>}, {<<"word">>}, {<<";">>, <<"nl">>})
Lists == Short \union Constructs(Short, Simple, {<<";">>, <<"nl">>})
  \union Constructs(Inside, {<<"word">>}, {<<";">>})
  \union Constructs({<<"word">>}, Inside, {<<";">>})
Sentences == {l \o after \o <<"eof">> : l \in Lists, after \in {<<>>, <<"&">>}}

Seeds == {
  <<"word", "&&", "word", "|", "word", ";", "word", "redir", "word", "eof">>,
  <<"if", "word", "nl", "then", "if", "word", ";", "then", "word", ";", "fi", ";",
    "elif", "word", ";", "then", "word", ";", "else", "word", ";", "fi", "eof">>,
  <<"while", "word", ";", "eof", "do", "for", "word", "in", "word", ";", "do", "word",
    ";", "done", ";", "done", "redir", "word", "eof">>,
  <<"case", "word", "in", "word", "|", "word", ")", "word", ";;", "word", ")",
    "word", ";", ";;", "esac", ";", "word", "eof">>,
  <<"word", "(", ")", "{", "word", ";", "(", "word", ";", ")", ";", "}", ";", "word",
    "nl", "word", "eof">> }

Cut(s, i) == SubSeq(s, 1, i - 1) \o SubSeq(s, i + 1, Len(s))
Edits(s) ==
  {Cut(s, i) : i \in 1..Len(s)-1}
  \union {InsertAt(s, i, x) : i \in 1..Len(s), x \in Token}
  \union {[s EXCEPT ![i] = x] : i \in 1..Len(s)-1, x \in Token}

MCInputs == Sentences \union UNION {Edits(s) : s \in Seeds}
  \union {<<x, y, z, "eof">> : x, y, z \in Token \ Reserved}

\* Every sentence is accepted: also with reserved words among the arguments, on
\* one line or on several, with constructs inside each other.
SentencesAreAccepted == typed \in Sentences => phase \notin {"refused", "hung"}
=============================================================================
