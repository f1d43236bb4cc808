---------------------------- MODULE MCArithmetic ----------------------------
(***************************************************************************)
(* The expressions that are evaluated and compared with their meaning:     *)
(* every one of up to MaxTokens tokens, and longer ones with operands      *)
(* where they belong.                                                      *)
(***************************************************************************)
EXTENDS Meaning

CONSTANTS MaxTokens, Zero, Few, Many

MCNumber == {Zero, Few, Many}

Op(op) == <<Node(op, 0)>>
Num(n) == <<Node("num", n)>>
Dollar(s) == Op("(") \o Op("(") \o s \o Op(")") \o Op(")")

Chosen == {Node(op, 0) : op \in {"+", "-", "*", "/", "||", "(", ")", "bad"}}
          \union {Node("num", n) : n \in {Zero, Few}}
Short == UNION {[1..n -> Chosen] : n \in 0..MaxTokens}
Behind == UNION {[1..n -> Chosen] : n \in 0..MaxTokens-1}

Some == {Few, Many}
Operand == {Num(n) : n \in Some} \union {Op("-") \o Num(n) : n \in Some}
Middle == {"+", "-", "*", "/"}
Long ==
  {l \o Op(o) \o m \o Op(p) \o r :
     l \in Operand, m \in Operand, r \in Operand, o \in Operators, p \in Operators}
  \union UNION {
    {l \o Op(o) \o Op("(") \o m \o Op(p) \o r \o Op(")") \o Op(q) \o l,
     Op("(") \o l \o Op(o) \o m \o Op(")") \o Op(p) \o r \o Op(q) \o l,
     l \o Op(o) \o m \o Op(p) \o r \o Op(q) \o l} :
     l \in {Num(n) : n \in Some}, m \in {Num(n) : n \in Some}, r \in {Num(n) : n \in Some},
     o \in Middle, p \in Middle, q \in Middle}

MCInput ==
  {Dollar(s) : s \in Short \union Long}
  \* text behind the closing parentheses
  \union {Dollar(Num(Few)) \o s : s \in Behind}
=============================================================================
