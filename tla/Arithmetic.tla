----------------------------- MODULE Arithmetic -----------------------------
(***************************************************************************)
(* $((...)): build_list() and eval_list() of src/execution/arithmetic.c,   *)
(* on the tokens of an expression; spaces are between them and change      *)
(* nothing.  A token and an element of the list is a bt_node: an operator  *)
(* and a number.  `**' never becomes a token, as get_op() finds `*' first. *)
(*                                                                         *)
(* The list is built, its parentheses are counted, and it is evaluated     *)
(* with a stack of values and one of operators, whose top is their end.    *)
(* An error calls exit in the shell itself.                                *)
(***************************************************************************)
EXTENDS Integers, Sequences, SequencesExt

CONSTANTS
  Input,   \* expressions, with the parentheses of $((...))
  Number,  \* the numbers in them
  Width,   \* the bits of an int
  Minus    \* a sign without a number, which is what itoa() makes of the least int

Sums == {"+", "-", "^", "&", "|", "&&", "||"}
Products == {"*", "/"}
Signs == {"+", "-"}
Operators == Sums \union Products
Node(op, nb) == [op |-> op, nb |-> nb]

\* "num" is NOT_AN_OP, "bad" a character that is not part of any token.
Token ==
  {Node(op, 0) : op \in Operators \union {"(", ")", "bad"}} \union {Node("num", n) : n \in Number}

ASSUME InputAssumption ==
  Number \subseteq Nat /\ Width \in Nat \ {0} /\ Input \subseteq Seq(Token)
ASSUME MinusAssumption == Minus \notin Int

VARIABLES
  phase,        \* build; eval, and close and pop: the loops of pop_stack(); how it ended
  input,        \* the expression
  index,        \* where build_list() is in it, and later eval_list() in the list
  sign,         \* of the number set_number() is at, 0 outside it
  prev_op,      \* the operator of the last element, "none" at first
  parenthesis,  \* how many more were opened than closed
  list,         \* the elements
  stack,        \* values
  ops,          \* operators_stack
  precedence,   \* of the operators it compares the next one with
  code,         \* the status the shell exits with
  result        \* what is printed

building == <<sign, prev_op, parenthesis>>
evaluating == <<stack, ops, precedence>>
vars == <<phase, input, index, building, list, evaluating, code, result>>

Init ==
  /\ phase = "build"
  /\ input \in Input /\ index = 1
  /\ sign = 0 /\ prev_op = "none" /\ parenthesis = 0
  /\ list = <<>> /\ stack = <<>> /\ ops = <<>> /\ precedence = 0
  /\ code = 0 /\ result = 0

\* my_exit() from within
Error(status) == phase' = "exit" /\ code' = status /\ UNCHANGED <<input, result>>
Crash == phase' = "crashed" /\ UNCHANGED <<input, code, result>>
Goes(next) == phase' = next /\ UNCHANGED <<input, code, result>>

----------------------------------------------------------------------------
(* build_list()                                                            *)

Token1 == input[index]
Reads(op) ==
  phase = "build" /\ index <= Len(input) /\ Token1.op = op /\ UNCHANGED evaluating

\* Mutant of IsSign: only a number before them is an operand.
IsSignBehindClose(op) == op \in Signs /\ (sign # 0 \/ prev_op # "num")

\* + and - belong to the number behind them unless an operand is before them.
IsSign(op) == op \in Signs /\ (sign # 0 \/ prev_op \notin {"num", ")"})

Adds(node) ==
  /\ list' = Append(list, node) /\ prev_op' = node.op /\ sign' = 0 /\ index' = index + 1

Refuses == Error(1) /\ UNCHANGED <<index, building, list>>

\* Mutant of ReadSign: the index stays where it is.
ReadSignAgain(op) ==
  /\ Reads(op) /\ IsSign(op)
  /\ sign' = (IF sign = 0 THEN 1 ELSE sign) * (IF op = "-" THEN -1 ELSE 1)
  /\ Goes("build") /\ UNCHANGED <<index, prev_op, parenthesis, list>>

\* set_number(): one of the signs before a number
ReadSign(op) ==
  /\ Reads(op) /\ IsSign(op)
  /\ sign' = (IF sign = 0 THEN 1 ELSE sign) * (IF op = "-" THEN -1 ELSE 1)
  /\ index' = index + 1
  /\ Goes("build") /\ UNCHANGED <<prev_op, parenthesis, list>>

\* A number; a second one in a row is an error, but not one behind a ).
ReadNumber ==
  /\ Reads("num")
  /\ \/ prev_op = "num" /\ Refuses
     \/ /\ prev_op # "num"
        /\ Adds(Node("num", (IF sign = 0 THEN 1 ELSE sign) * Token1.nb))
        /\ Goes("build") /\ UNCHANGED parenthesis

\* Anything else between a sign and its number is an error, and so is ( behind a
\* number.
ReadOperator(op) ==
  /\ Reads(op) /\ ~IsSign(op)
  /\ \/ (sign # 0 \/ (op = "(" /\ prev_op = "num")) /\ Refuses
     \/ /\ sign = 0 /\ ~(op = "(" /\ prev_op = "num")
        /\ Adds(Node(op, 0))
        /\ parenthesis' = parenthesis + (CASE op = "(" -> 1 [] op = ")" -> -1 [] OTHER -> 0)
        /\ Goes("build")

\* A character without a meaning is taken for a number 0 and found again.
ReadBad == Reads("bad") /\ Refuses

\* The end; signs that have no number behind them are a number 0.
EndOfInput ==
  /\ phase = "build" /\ index = Len(input) + 1 /\ index' = 1
  /\ list' = IF sign = 0 THEN list ELSE Append(list, Node("num", 0))
  /\ IF parenthesis = 0 THEN Goes("eval") ELSE Error(1)
  /\ UNCHANGED <<building, evaluating>>

----------------------------------------------------------------------------
(* eval_nodes()                                                            *)

\* Of two
Power[i \in 0..Width] == IF i = 0 THEN 1 ELSE 2 * Power[i - 1]

IntMin == -Power[Width - 1]
IntMax == Power[Width - 1] - 1

\* Mutant of Truncate: the result is printed as the long it is.
TruncateNot(v) == v

\* A long becomes an int.
Truncate(v) == ((v - IntMin) % Power[Width]) + IntMin

\* A double becomes an int: out of range, the conversion of the processor gives
\* the least.
ToInt(v) == IF v \in IntMin..IntMax THEN v ELSE IntMin

Bit(v, i) == (v \div Power[i]) % 2
BitOf(op, x, y) ==
  CASE op = "^" -> (x + y) % 2
    [] op = "&" -> x * y
    [] op = "|" -> IF x + y = 0 THEN 0 ELSE 1

\* bit_operations()
BitOperations(op, left, right) ==
  LET \* the last n bits
      word[n \in 0..Width] ==
        IF n = 0 THEN 0
        ELSE word[n - 1]
             + Power[n - 1] * BitOf(op, Bit(ToInt(left), n - 1), Bit(ToInt(right), n - 1))
  IN Truncate(word[Width])

Abs(v) == IF v < 0 THEN -v ELSE v
Divide(left, right) ==
  IF (left < 0) = (right < 0) THEN Abs(left) \div Abs(right) ELSE -(Abs(left) \div Abs(right))

\* compute(), whose double becomes a long
Compute(op, left, right) ==
  CASE op = "+" -> left + right
    [] op = "-" -> left - right
    [] op = "*" -> left * right
    [] op = "/" -> Divide(left, right)
    [] op = "&&" -> IF left # 0 /\ right # 0 THEN 1 ELSE 0
    [] op = "||" -> IF left # 0 \/ right # 0 THEN 1 ELSE 0
    [] OTHER -> BitOperations(op, left, right)

\* Mutant of DividesByZero: the other operand is compared.
DividesZero(op, left, right) == op = "/" /\ left = 0

DividesByZero(op, left, right) == op = "/" /\ right = 0

\* The operator on top is applied, or a ( is dropped; from a step of this phase
EvalNodes ==
  LET op == Last(ops) right == Last(stack) left == Last(Front(stack))
  IN \/ stack = <<>> /\ Crash /\ UNCHANGED evaluating
     \/ /\ stack # <<>> /\ op = "("
        /\ ops' = Front(ops) /\ UNCHANGED <<stack, precedence>>
        /\ Goes(phase)
     \/ /\ Len(stack) = 1 /\ op # "("
        /\ Error(127) /\ UNCHANGED evaluating
     \/ /\ Len(stack) > 1 /\ op # "("
        /\ \/ DividesByZero(op, left, right) /\ Error(127) /\ UNCHANGED evaluating
           \/ /\ ~DividesByZero(op, left, right)
              /\ stack' = Append(Front(Front(stack)), Compute(op, left, right))
              /\ ops' = Front(ops) /\ UNCHANGED precedence
              /\ Goes(phase)

----------------------------------------------------------------------------
(* eval_list() and pop_stack()                                             *)

\* get_precedence() of an operator, and of the top
Prec(op) == CASE op = "(" -> 0 [] op \in Products -> 2 [] OTHER -> 1
Top(s) == IF s = <<>> THEN 0 ELSE Prec(Last(s))

Current == list[index]
Evaluates(op) ==
  phase = "eval" /\ index <= Len(list) /\ Current.op = op /\ UNCHANGED <<building, list>>

EvalNumber ==
  /\ Evaluates("num")
  /\ stack' = Append(stack, Current.nb)
  /\ index' = index + 1 /\ UNCHANGED <<ops, precedence>>
  /\ Goes("eval")

EvalOpen ==
  /\ Evaluates("(")
  /\ ops' = Append(ops, "(") /\ precedence' = 0
  /\ index' = index + 1 /\ UNCHANGED stack
  /\ Goes("eval")

Pushes(op) ==
  /\ ops' = Append(ops, op) /\ precedence' = Prec(op)
  /\ index' = index + 1 /\ UNCHANGED stack
  /\ Goes("eval")

\* An operator that binds stronger than the last is put on top of it.
EvalOperator(op) ==
  /\ Evaluates(op)
  /\ \/ Prec(op) > precedence /\ Pushes(op)
     \/ /\ Prec(op) <= precedence /\ UNCHANGED <<index, evaluating>>
        /\ IF stack = <<>> THEN Error(127) ELSE Goes("pop")

Yields(op) == ops # <<>> /\ Top(ops) >= Prec(op)

\* Otherwise those that bind at least as strong go first.
Pop ==
  /\ phase = "pop" /\ UNCHANGED <<building, list>>
  /\ \/ Yields(Current.op) /\ EvalNodes /\ UNCHANGED index
     \/ ~Yields(Current.op) /\ Pushes(Current.op)

EvalClose ==
  /\ Evaluates(")") /\ UNCHANGED <<index, evaluating>>
  /\ IF stack = <<>> THEN Error(127) ELSE IF ops = <<>> THEN Crash ELSE Goes("close")

\* Mutant of Closed: the precedence of what was in the parentheses stays.
ClosedOnly == ops' = Front(ops) /\ UNCHANGED precedence

Closed == ops' = Front(ops) /\ precedence' = Top(Front(ops))

\* All that is behind the last ( is applied.
Close ==
  /\ phase = "close" /\ UNCHANGED <<building, list>>
  /\ \/ ops = <<>> /\ Crash /\ UNCHANGED <<index, evaluating>>
     \/ ops # <<>> /\ Last(ops) # "(" /\ EvalNodes /\ UNCHANGED index
     \/ /\ ops # <<>> /\ Last(ops) = "("
        /\ Closed /\ index' = index + 1 /\ UNCHANGED stack
        /\ Goes("eval")

\* itoa() of the least int, which has no opposite, is a sign alone.
Itoa(v) == IF v = IntMin THEN Minus ELSE v

\* Behind the list: what is left is applied until one value remains, or no
\* operator; then the top is printed.
Finish ==
  /\ phase = "eval" /\ index = Len(list) + 1 /\ UNCHANGED <<index, building, list>>
  /\ \/ Len(stack) # 1 /\ ops # <<>> /\ EvalNodes
     \/ stack = <<>> /\ ops = <<>> /\ Crash /\ UNCHANGED evaluating
     \/ /\ stack # <<>> /\ (Len(stack) = 1 \/ ops = <<>>)
        /\ phase' = "printed" /\ result' = Itoa(Truncate(Last(stack)))
        /\ UNCHANGED <<input, code, evaluating>>

Next ==
  \/ \E op \in Signs : ReadSign(op)
  \/ \E op \in Operators \union {"(", ")"} : ReadOperator(op)
  \/ ReadNumber \/ ReadBad \/ EndOfInput
  \/ \E op \in Operators : EvalOperator(op)
  \/ EvalNumber \/ EvalOpen \/ EvalClose \/ Pop \/ Close \/ Finish

\* One thread that runs
Spec == Init /\ [][Next]_vars /\ WF_vars(Next)

----------------------------------------------------------------------------
(* Properties.                                                             *)

Element == [op : Operators \union {"(", ")", "num"}, nb : Int]

\* Type invariant; what the loops of pop_stack() look at is there.
TypeOK ==
  /\ phase \in {"build", "eval", "close", "pop", "printed", "exit", "crashed"}
  /\ input \in Seq(Token)
  /\ index \in Nat \ {0}
  /\ phase = "build" => index <= Len(input) + 1
  /\ phase = "eval" => index <= Len(list) + 1
  /\ sign \in {-1, 0, 1} /\ parenthesis \in Int
  /\ prev_op \in Operators \union {"(", ")", "num", "none"}
  /\ list \in Seq(Element) /\ stack \in Seq(Int)
  /\ ops \in Seq(Operators \union {"("}) /\ precedence \in 0..2
  /\ phase = "pop" => index <= Len(list) /\ Current.op \in Operators
  /\ phase = "close" => index <= Len(list) /\ stack # <<>>
  /\ code \in {0, 1, 127}
  /\ result = Minus \/ result \in IntMin..IntMax

\* The precedence that is kept beside the stack is that of its top, through any
\* nesting of parentheses, and pending operators bind ever stronger, so that what
\* is on top may always be applied first.
Increasing ==
  /\ phase = "eval" /\ index <= Len(list) => precedence = Top(ops)
  /\ \A i \in 1..Len(ops)-1 : ops[i + 1] # "(" => Prec(ops[i]) < Prec(ops[i + 1])

\* Every expression is printed or ends the shell: no loop over tokens or stacks
\* goes on for ever.
Answers == <>(phase \in {"printed", "exit", "crashed"})
=============================================================================
