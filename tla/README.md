# 42sh: models and proofs

TLA+ modules of `42sh`, the shell in `src/`, with the configurations that check
them with TLC and theorems about them that TLAPS checks. Paths below are relative
to the repository; `X.c:n` is line n of a file under `src/src/`.

To check a module: `tlc -workers 2 -config Traversal.cfg MCTraversal`. To check a
proof: `tlapm TraversalProofs.tla`. `PROJECT.json` lists components, runs, mutants
(a plausible bug for each property, which the property must catch), the source lines
behind each definition (`map`), what the code is exposed to (`hazards`) and what the
failing runs show (`findings`).

## The system

One process reads a line, cuts it into tokens, checks them against the grammar, builds
a tree and walks it. All components share the structure `global.data`.

| component | state | operations | talks to |
|---|---|---|---|
| Session (`42sh.c`, `history/history.c`) | history file, `global` | `main`, `norc_opt`, `set_history`, `interactive_mode`: read a line, record it, run it, commit the aliases | everything below, in order; the file is shared with other shells |
| Lexer (`lexer/lexer.c`) | the list of tokens | `lexer_c`, `check_context`: which words are reserved | Session |
| Grammar check (`grammar/*.c`) | the same list, into which further lines are spliced | `grammar_check`, one function per rule; `handletty` for more lines | prompt, Lexer |
| Tree builder (`ast/ast.c`) | the tree | `build_ast`, `build_aux` | reads the accepted list again, with rules of its own |
| Interpreter (`execution/execution_ast.c`, `functions.c`, `builtins/break.c`) | `brk`, `nbparent`, `param`, `nbparam`, `f_tab`, the C stack | `traversal_ast`, `instr_execution`, `if_cond`, `func_execution`, `for_execution`, ... | commands, pipelines, variables |
| Pipelines (`execution_ast.c:67-130`) | descriptors, processes | `pipe_handling`, `pipe_aux`, `close_fds` | the kernel, the commands |
| Simple commands and redirections (`execution_ast.c`, `helper_exec.c`) | descriptors, stdio buffers, status | `changing_fd`, `exec_command`, `is_builtin` | the kernel, builtins |
| Variables, exports, parameters (`assignement.c`, `get_assignement.c`, `builtins/export.c`) | three hash tables of strings, `param` | `add_assignment`, `get_assign`, `my_export` | Interpreter, word expansion |
| Aliases (`builtins/my_alias.c`, `my_unalias.c`) | `alias_tab`, pending `global.aliastab` | `my_alias`, `add_aliases`, `my_unalias` | Session commits at the end of a line; word expansion looks names up, the Lexer does not |
| Word expansion (`helper_exec.c`) | none | `set_string`, `to_execute` | Variables |
| Arithmetic (`execution/arithmetic.c`) | two stacks | `build_list`, `eval_list` | Word expansion |
| Working directory (`builtins/cd.c`, `utils/globals.c`) | the process's directory, `PWD`, `OLDPWD` | `my_cd`, `find_path`, `change_pwd` | the kernel |
| Options, echo, history, prompt, script reading, containers, tree printer | flags, files, arrays | - | - |

### What is hard, and what makes each part correct

* **Interpreter.** `&&`, `||`, `;` are decided in four places (`get_next_node`,
  `traversal_ast`, `if_cond`, `func_execution`), each with its own way to skip. `break`
  works on two counters that every loop raises and lowers, and a break of all levels
  resets both while the loops are still on the stack. Its operand is whatever `atoi()`
  makes of a word, and a negative one raises the counters. Correct: the command behind
  an `&&` or `||` runs only with the right status; a broken loop does not go on, and the
  counters claim no loop that is not open, but for what negative operands add; a line of
  `for` loops ends.
* **Pipelines.** The only concurrency: the shell forks, closes and waits while the
  commands read, write and end. Correct: each command sits between its two pipes;
  nobody else can write to a pipe, or its reader waits for ever; nobody is told that a
  pipe is not read while it is; when the call returns nothing is left behind.
* **Commands.** `dup2()` onto the shell's own output, unflushed stdio that `fork()`
  copies, `open()` and `fork()` that fail. Correct: no descriptor is leaked, no line is
  lost, no line overtakes a later one.
* **Lexer, grammar, builder.** Three readings of one list. The builder trusts the
  grammar check, the interpreter trusts both. Correct: what is accepted is balanced,
  its tree is the line, and the tree has the shape the interpreter dereferences.
* **Variables.** Strings change owner without anything saying so: a value may be a
  parameter, another variable's string, an exported one's. Correct: one entry per
  name, a value is owned by one entry and released once, names that share a bucket do
  not disturb each other.
* **Session, Aliases.** A definition waits until its line ends; `unalias` looks at the
  first that waits and walks a bucket two entries a round; `unalias -a` leaves heads that
  point to released entries. A line is recorded before it is run, and not run when the
  file cannot be opened, but run when it cannot be written; the shell may be killed at any
  point and shares the file with other shells. Correct: an alias is what the last `alias`
  said of it, unless that was taken back; a command removes no alias but the one it names;
  what was run is recorded, and a history that is there is never shortened. Each of these
  has exceptions in the code, which the properties name.
* **Working directory.** `find_path` calls `chdir()` once per component and may stop half
  way, while other processes remove directories. Correct: after a `cd` that succeeded
  the names are those of the place the shell is in and came from; after one that failed
  they are unchanged.
* **Arithmetic.** Two stacks, a precedence kept beside one of them, and values that are
  longs, doubles and ints by turns. Correct: what is printed is what the expression
  means; only what means nothing ends the shell, or a sign before a parenthesis; every
  expression is answered.
  `power()` is never reached: `get_op()` compares `*` before it looks for `**`.

## Modules

| module | models | uses |
|---|---|---|
| `Traversal` | the walk of the tree, for any tree | - |
| `MCTraversal` | nine lines for it | `Traversal` |
| `TraversalProofs` | theorems | `Traversal` |
| `Descriptors` | the kernel's descriptor tables: `open`, `dup2`, `close`, `pipe`; `close_fds` | - |
| `PipelineContract` | what a pipeline promises its caller (abstract) | - |
| `Pipeline` | `pipe_handling`, `pipe_aux` and the children | `Descriptors`, `PipelineContract` by refinement |
| `MCPipeline`, `PipelineProofs` | programs; theorems | `Pipeline` |
| `Commands` | simple commands, redirections, stdio | `Descriptors` |
| `MCCommands`, `CommandsProofs` | commands; theorems | `Commands` |
| `Grammar` | `lexer_c` on words, `grammar_check` and its rules | - |
| `Tree` | `build_ast` | `Grammar` |
| `Parser`, `ParserProofs` | the three readings one after the other; theorems | `Tree` |
| `ParsedTree`, `MCParser` | what the tree owes the line and the interpreter; the lines | `Parser` |
| `Assignments` | the hash tables | - |
| `Variables`, `MCVariables`, `VariablesProofs` | assignments, exports, parameters, and their strings; theorems | `Assignments` |
| `Aliases` | the alias table, waiting definitions, the loops of `unalias` | `Assignments` |
| `Session`, `MCSession`, `SessionProofs` | start, history, lines, commit, end, kill, restart, another shell; theorems | `Aliases` |
| `WorkingDir`, `MCWorkingDir`, `WorkingDirProofs` | `cd`, `PWD`, `OLDPWD`; a tree; theorems | - |
| `Arithmetic` | `$((...))` | - |
| `Meaning` | what an expression means, by recursion over its spans (the reference) | `Arithmetic` |
| `MCArithmetic`, `ArithmeticProofs` | expressions; theorems | `Meaning` |

### Traversal

The tree is a constant (`kind`, `next`, `body`, ...), so the theorems hold for every
tree. `traversal_ast` and the functions it calls are mutually recursive and mostly call
themselves last; `stack` holds a frame only where a call has something left to do.
`cur` is the node the walk is at, `res` the variable of that name, `brk`, `nbparent`,
`nbparam`, `funcs` the members of `stored_data`; `live` says whether `data->param` is
still allocated. `broken` and `raised` are history variables: the number of loops that were
open when a break last cut all levels, and what negative operands have added to `brk`
since. With `break -1` the code raises both counters (break.c:14-18), which gives a broken
loop its rounds back: that is the exception `CounterBounds` and `BrokenLoopsStop` make, and
the only one. Each action is one node or one return:
the outcomes of `instr_execution` (`Instruction`), each kind of statement (`Visit`), each
kind of frame (`Return`). The status of a child is any of `Status`. Where the code reads
released memory the run ends in `phase = "undefined"`, where it follows a null pointer
in `"crashed"`.

The tree's three assumptions: `TreeType` gives types; `OperAssumption` states the
equations of the loops in `get_oper_node()` and `instr_execution()`, and two facts that
follow from them because a list of siblings ends; `TreeShape` is
what the grammar lets through, which `Parser`'s invariant `TreeIsShaped` checks of the
trees the builder makes.

### Pipeline

Processes are the shell and one per command; a process is its descriptor table and
what its program has to write and read. `pipe_aux` calls itself for the next command
before it waits for its own child: frame k of the recursion is stage k. The numbers in
`fd`, `fd_next` and `fd[1]` are kept as numbers, because the code closes some that have
been given out again; `Wired` holds in spite of it. `ForkFails` may happen at every
fork. `PipelineContract` is what the caller relies on: commands start in order, all
have ended when the call returns, the result is the raw wait status of one of them. Whose
it is, the contract leaves open: the code returns the first one's and a test of the
repository expects the last one's (see the divergences below). `SigpipeOnlyUnread` is the
safe half of how a writer loses its reader: never before the reader has ended. That in a
running shell it never loses one at all, as the shell keeps the read end, is the defect
`pipeline_returns` shows.

### Commands

Every command prints one line, its number in the session. A builtin prints into the
shell's stdio buffer; `echo` flushes, `alias`, `shopt` and `export` do not; `fork()`
copies the buffer, `execvp()` drops the copy and a failed `execvp()` prints it. Standard
output is not a terminal, as in the test suite. `Decode` is `exec_command`'s reading of
the raw wait status.

### Grammar, Tree, Parser, ParsedTree

Words are members of a small set of token types. The rules of `grammar_*.c` are
operators from a place in the list to the last place of what they matched (or `NULL`, or
`HANG` where the loop in `g_pipeline` never advances). The rules call one another, and
some of them themselves, always from a place further on: a rule takes the list, a table
`g` and a place, where `g[j][r]` is what rule `r` makes of a later place `j`, and
`Readings` is the recursive function on places that closes the circle. That way nothing
is a recursive operator and the proofs can speak of all of it. Lines a terminal adds are
the part of the input behind an `eof`. `Tree` follows `build_aux` loop by loop: from one
closing word to the next, without a stack, with a table `u` of what it builds at later
places. `Parser` runs `Lex`, `Check`, `Build` and states what the first two owe each other;
`ParsedTree` states what the tree owes the line. The lines whose tree is not what the list
says (`Odd`) are named one by one, with the reason. `ParsedTree` alone walks trees by
recursive operators.

### Assignments, Variables

A table is a chain of entries per bucket, and the set of buckets whose head was lost by
removing the last entry. A value is a pointer: null, a cell, or the literal `""` that
`get_param` returns. What a cell holds is a text: a name, a reference `$x`, or empty.
`Replace` is the half of `already_exists` that finds the name, `Assigned` is
`to_assign`, `Drop` the loop of `export -n`, `Return` is `free_command` on
`data->param`. `get_assign_var` follows a value as a name again: `Path` is the names it
comes by, the smallest set that is closed under `Onward`, and the value found is that of
the one where the path ends; a path without an end is the recursion that never comes
back. `shared` records that a string was given a second owner, which `x=$y`
(for a new x) and `export x` do; `given` is the text each variable was last assigned.

### Aliases, Session

`Aliases` has the operators of the two builtins on a record: `table` (as in
`Assignments`), `pending` (the vector `global.aliastab`), `dangling` (the buckets whose
nameless head still points to a released entry). `Seen` and `Dropped` are the loop of
`remove_assignment`, `Waiting` is what the vector holds, `Waits` is `removed_vec` with
its comparison by prefix, `Circular` is `get_assign_var` on a command's name.

`Session` is one shell after the other on one history file: `Open` and `Create` are the
two `fopen` of `set_history`, `Rc` is `norc_opt`, `Refuse`, `Accept`, `Record` the
branches of `interactive_mode`, `EndOfLine` the loop of `add_aliases`, one round a step.
In `Written`, which is the part of `Record` behind a successful `fopen`, `fwrite` and
`fclose` write the line, nothing, or a part of it (a 0 in `file`): the code looks at no
result (42sh.c:184-186) and runs the line in each case (42sh.c:189-193).
`Kill` may come at every point and `Restart` starts another shell. `Rival` is another
shell's `set_history` and its own record. `ran`, `found`, `lost`, `failed`, `latest` and
`undone` are history variables. `latest` is set where `alias` is run, not where its line
is committed; `undone` are the names for which an `unalias` took a later definition back
while an older one is in the table. Lines are numbers; which commands they hold is free.

### WorkingDir

`there` is the set of directories that exist, `entry` where a part of a path leads;
`Step` is one `chdir()` in the loop of `find_path`, so that `Remove` may come between any
two. `strtok` moves on but `chdir(first)` goes into the first part again: `cd a/b` is
modelled as the code does it, `a` twice. `env` is the environment, which `cd` without an
operand reads and nobody updates. `start` records what the last `cd` was and where it
started from.

### Arithmetic

The input is a sequence of tokens. `phase = "build"` is `build_list`, token by token
(`sign` is not 0 inside `set_number`); `eval` is the loop of `eval_list`, `pop` and `close`
the two loops of `pop_stack`, each round a step. `my_exit` from within is the phase
`exit`, a null pointer that is followed `crashed`. `Compute` has the conversions: the bit
operators work on ints, a division is rounded toward zero when the double becomes a
long, the result is cut to an int of `Width` bits, and `Minus` is what `itoa` makes of the
least int.

`Meaning` is the reference: a span of tokens is signs and a number, or is in
parentheses, with signs before them or none, or is split at the last operator that binds
weakest, by recursion and without a stack. It gives `+(2) - 5` the value -3, which the
code refuses: `SignedGroup` is the exception of `EndsOnlyOnErrors`. It uses the
precedence the code has (`*` and `/` before everything else, all others alike), not that
of C, and says by itself what a quotient is. It is a recursive function on spans, so
that the proofs can speak of it.

## Runs

| run | instance | size | what it shows |
|---|---|---|---|
| `traversal` | 9 lines in any order and number, statuses 0 and 1, two functions, `MaxRaised` 3 | 12850 states | types, `CounterBounds`, `AndOrRespected`, `BrokenLoopsStop`, `ForLinesEnd` |
| `refused_breaks` | the same | fails | inside a loop, a break is refused after an earlier broken loop |
| `pipeline` | 3 commands of 4 kinds, pipes of 1 unit | 8886 states | types, wiring, single writer, SIGPIPE only of what nobody reads, clean return, the contract, termination with readers that drain |
| `pipeline_returns` | the same | fails | a writer before a reader that stops early blocks for ever |
| `commands` | 3 commands, 4 kinds, 5 redirections, 1 file | 304656 states | three descriptors, no line lost, lines in order |
| `redirections` | the same | fails | a redirection outlives its command |
| `parser` | about 42000 lines | 41934 states | balance, tree = line, shape, sentences accepted |
| `parser_hangs` | the same | fails | `a \|` at the end of a line is never answered |
| `variables` | 2 names in one bucket, 5 lines, calls 2 deep | 224642 states | one entry per name, one owner per string, no use after release but in two ways, the last value, other names stay |
| `working_dir` | 4 directories, paths of 2 parts, any environment | 480272 states | names follow the shell, a failed `cd` is vain |
| `session` | 3 names in one bucket, 2 lines, 4 changes of aliases, 1 line of another shell or part of one | 1683351 states | aliases are the last ones, others stay, what ran is recorded, the history is kept |
| `arithmetic` | 5 bits; all expressions of 4 tokens, text of 3 behind one, some 6700 longer ones | 294801 states | printed = meant, ends only on errors, precedence, every expression is answered |

The failing runs check one property each, a statement of the README, the manual, a
header or a test; `findings` quotes it.

### Bounds, and why they are enough

* `Traversal`: no bound on the number of lines but one: `MaxRaised` lets no further line
  be read once negative operands have raised `brk` by that much, as each such line may
  raise it again; what the code does bounds the counters otherwise (`CounterBounds`). 3
  is enough for two lines with a negative operand behind each other. The lines nest
  every kind of loop in another, with breaks of -1, 0, 1, 2 levels (-1 in a loop inside
  one that is broken already), breaks in conditions, in functions and in cases, every
  operator before and after calls and redirections, functions that are declared while
  they run and called from each other. The proofs cover every tree.
* `Pipeline`: N = 3 has a first, an inner and a last stage; Cap = 1 makes a pipe full at
  once; the four programs are one that overfills a pipe, one that reads all, one that
  stops early and one that reads nothing. The proofs cover every N, Cap and program.
* `Commands`: three commands are enough for one that leaves something behind, one that
  uses it and one that sees the result. `MaxLines` bounds the session.
* `Parser`: all lines of three words, every line one insertion, deletion or replacement
  away from five scripts that use every construct, and every sentence with constructs
  two deep.
* `Variables`: both names share the bucket, so that each is head and tail; `MaxLines`
  bounds the lines that change something at 5, `MaxDepth` nested calls at 2. A string
  gets a second owner in two lines, loses one in the third and is used in the fourth.
  Seven cells are the most five lines can use. `Expand`, `PrintExports` and `Exit` are not
  counted.
* `WorkingDir`: a directory in a directory, and one whose own entry has its name, are
  what `cd a/b` and `..` tell apart; two parts have a first that works and a second that
  does not. The proofs cover every tree and path.
* `Session`: three names in a bucket are the least for which the double step of `unalias`
  has a first, a second and a third; one begins with another. `MaxCommands` allows all
  three to be defined and one removed, in any split over two lines; two lines are also
  what a kill and a restart between them take. `MaxOthers` bounds what is in the file
  besides whole lines of this shell, lines of another and cut ones together: one is
  enough to be lost.
* `Arithmetic`: 5 bits make sums and products of 0, 2, 7 and their opposites overflow;
  -16 is the least int. Four tokens have every pair of neighbours in a context; the longer
  ones have two and three operators of every precedence, with and without
  parentheses. The theorems cover every length and width.

### Fairness

* `Arithmetic`: weak fairness of its only thread, which nothing blocks.
* `Pipeline`: weak fairness of the shell and of each child: the kernel schedules every
  process that can run. Blocking reads, writes and waits are disabled actions. This is
  what termination rests on (`DrainedReturns`), and `EveryPipelineReturns` fails in
  spite of it.
* `Traversal`: weak fairness of the walk's own steps within a line: one thread that
  runs. Nothing is assumed of the statuses children return; `ForLinesEnd` is about
  lines without `while` and `until` for that reason. Whether another line is typed is
  nobody's obligation.
* `Commands`, `Parser`, `Variables`, `Session` and `WorkingDir` state safety only, without
  fairness: whether another line comes is nobody's obligation.

Deadlock is not checked where the system stops: at the end of a pipeline, of a session,
of a line, of an expression, and where a program blocks for ever (a property of its own).

## Proofs

All proofs are of `Spec => []I` or `Spec => [][A]_vars`, from an inductive invariant, and
hold for all values of the constants that satisfy the module's assumptions.

What a recursion computes for every input needs induction over data, and the induction
theorems of the library take a formula as a parameter, which the provers cannot
instantiate. Where it is needed (`ArithmeticProofs`, `ParserProofs`) the recursion is a
recursive function, and the induction is made with sets: what fails of some number fails of
a least one (`Least`, from the well-foundedness of `<` on the numbers), and the lemmas built
on it take the set of numbers for which the formula holds. That such a recursive function
exists is proved, not assumed.

* `TraversalProofs`, for every tree with operands of any sign: `TypeCorrect`,
  `CountersBounded`, `BrokenLoopsStopped`, `AndOrAlwaysRespected`. The invariant is
  `TypeOK /\ Shape(stack) /\ Counters`. `CounterBounds` alone is not inductive: after a
  break of all levels `nbparent` and `brk` restart from zero while the frames are still
  there. `Counters` says that `brk` never exceeds the loops entered since then and what
  was added by negative operands, `Depth(stack) - broken + raised`, and `nbparent` never
  `brk`; that brk is not positive when no such loop is open and nothing was added is
  what stops a broken one. `AndOrRespected` needs `Walk` besides, which says what the
  walk may come back to: a frame that goes on with a sibling is an `if`'s or a `case`'s,
  which is no operator (`Siblings`), and a function is the body of a declaration, which
  has nothing before it (`Bodies`). The other places are a line's first node, the start
  of a condition, body or branch, and what `get_next_node()` returns; for each a lemma
  says that its status may reach it. That uses two conjuncts of `OperAssumption`: what
  `get_oper_node()` finds is an operator, and one that is not the node itself stands
  behind a node that is none.
* `PipelineProofs`, for every N of at least 2: `TypeCorrect`, `WiredAlways`,
  `OneWriterAlways`, `SigpipeOnlyUnreadAlways`, `CleanReturnAlways`,
  `PipelineImplementsContract`. The invariant `DataOK /\ Lives /\ Tables /\ Signalled`
  gives the shell's table exactly, as a function of `pc` and `k`: which numbers
  `pipe()` returns, and so what `close(fd[1])` hits, follows from it alone. The
  refinement has one step per action: initial states map to initial states, and every
  step to a step of the contract or to a stutter.
* `CommandsProofs`: `TypeCorrect`, `ThreeOpenAlways`, from `TypeOK /\ TableInv`: which
  descriptors are open at each `pc`. `NothingLostAlways` and `InOrderAlways` add
  `LinesInv`: what waits in the shell's buffer or in a child's copy was printed by a
  builtin that does not flush, and no place has a line of a command still to come.
* `VariablesProofs`, for all names, hash functions and numbers of strings: `TypeCorrect`,
  `OneEntryAlways`, `OwnedAlways`, `UsesOnlyOwnedAlways`, `LastAssignedAlways`,
  `OthersStayAlways`. The invariant has these parts besides `TypeOK` and `UsesOnlyOwned`.
  `Sorted`: an entry is in the bucket of its name, and there once. `Good`, as long as no
  entry was given a string that has an owner: each string of a table is allocated and
  has one owner, the parameters of a call that goes on counted; `OwnedUnlessShared` alone
  leaves those out, whose strings `Return` releases. `Matches`: what each variable's
  string holds is `given`; an assignment to one name leaves the others' texts alone
  because their strings are others. `add_assignment` is a composition of `Assigned`,
  `Replace` and `Insert` on a memory: each has a lemma on what it leaves to the next,
  and `Grows` is what they come to.
* `WorkingDirProofs`, for every tree in which the dots lead somewhere: `TypeCorrect`,
  `NamesFollowAlways`, `FailedAlwaysVain`. The invariant adds to `TypeOK` what a walk
  has not touched: until it arrives, `PWD` is `start.pwd`; in a path of one part the
  directory is `start.cwd` or where that part leads.
* `ArithmeticProofs`, for every set of numbers, every sequence of tokens and every width:
  `TypeCorrect`, `IncreasingAlways`, `PrintedIsMeantAlways`, `EndsOnlyOnErrorsAlways`. This
  is partial correctness of the two stacks against the recursive `Meaning`; that they
  always come to an end (`Answers`) is model-checked. The argument:
  - *Numbers.* `Power` doubles, bits are 0 or 1, a long is cut to an int, and what `Divide`
    computes is the one quotient `Meaning` chooses.
  - *The reference.* `Meanings` has a solution (`MeaningsAre`); what has a meaning is
    `WellFormed`; the meaning of two spans around an operator that binds weaker than those
    at its right, and not stronger than those at its left, is the operator applied to
    theirs (`JoinedMeant`); a division by zero inside is one of the whole (`Upward`).
  - *The list.* `Follows`: each element stands for a span of tokens, one behind the other,
    a number for its signs too. `build_list` lets a little through that means nothing: an
    operand behind a `)`, an operator at the end. `Fits` says that the tokens have nothing
    of that; without it nothing is said of the stacks, and `PrintedIsMeant` holds by its
    second case.
  - *The stacks.* `Laid(s, o, st, p, ok, slack, floor)` says where in the tokens the stacks
    are when `p` of them have been taken: each pending operator or parenthesis is a token
    (`Chain`), each value is the meaning of the span between two of them, and what is on
    top binds at least as strong as `floor`. That is as long as each operator had an
    operand before it (`ok`); after the first that had none, there is a value less than
    the operators ask for, and no step makes up for it: that is how the code finds the
    error, or prints a number for operators outside all parentheses (`Lenient`). For each
    thing the code does with the stacks a lemma says that it keeps `Laid`.
  - *The invariant* is `TypeOK /\ Fresh /\ Increasing /\ Counted /\ Traced /\ Stacked` with the
    two properties for the plain meaning, in which a sign before a parenthesis has no part
    (`PlainMeaning`), and `Ungrouped`: what is evaluated has no such sign, because
    `build_list` refused it. Without one the two meanings are the same (`PlainIs`).
    `Counted`: `parenthesis` is the depth. `Traced` and `Stacked`: `Follows`
    while the list is built, `Laid` while it is evaluated. `Increasing` is what makes the
    operator on top the one to apply first.
* `ParserProofs`, for every set of inputs: lines of any length and nesting, with any number
  of lines joined behind them. `TypeCorrect`, `AcceptedAlwaysBalanced`. The argument:
  - *What is open.* `Marks` gives what is open behind each place; `Is(t, i, s)` says that it is
    `s`, `Same(t, i, j)` that it is the same at both places. A `case` that ends without a clause
    is the one way around it; both are therefore claimed of a place only if every case
    before it has a clause (`Claused`), and what is said of the places themselves always.
  - *Rules.* What the rules make of a place is `Fine` if each answer is a place of the list
    not before it, or `NULL` or `HANG`, and leaves open what was. If it is fine at all later
    places (`Later`), it is at this one (`ResultsFine`): one lemma per rule, from its opening
    word to its closing one.
  - *Places.* `ReadingsFine` goes from the last place down to the first, and `GrammarCheckIs`
    is what follows for `grammar_check`: the end it finds is a newline or an `eof` before which
    nothing is open.
  - *The list.* `Before` takes out each `eof` at which a line was joined, which changes nothing
    of what is open (`BeforeFine`), and `CheckedIs` says what list is left.
  - *The invariant* is `Inv == TypeOK /\ AcceptedIsBalanced /\ Lexed /\ Typed /\ Unended`. The
    properties speak of what is accepted only: `Typed` and `Lexed` say that before the check
    the list is what `lexer_c` makes of an input and ends with an `eof`, `Unended` that no end
    is set before one is found. It was checked by TLC on the instance of `parser` before it
    was proved.
* `SessionProofs`, for any bounds, names and hash function. `HistoryAlwaysKept`:
  `HistoryKept` is about steps; the invariant says that a file that was found stays and
  that the creating `fopen` is only reached when none was found. `TypeCorrect`,
  `AliasIsAlwaysLatest`, `OthersStayAlways`: the invariant `World /\ Memory` says that the
  table is sorted, that the bucket of a head that dangles is empty (`Sound`), that
  `latest` is what the table has, but for names that wait or are `undone` (`Agrees`), that
  of the definitions that wait the last of each name is `latest` (`LastOf`, without which a
  commit would prove nothing), and that they wait only while a line
  runs or is committed. `RanIsAlwaysRecorded`, with `RecordInv`: in the file this shell's
  lines increase and are lines already typed, so that the next one recorded stands
  behind them, and each that ran is there or among `failed`.

`VariablesProofs` and `SessionProofs` each begin with lemmas on what the operators of
`Assignments` keep of a table (one entry a name, each in its bucket, the values of all other
names), for the entries each of them has.

Model-checked only:

* liveness (`DrainedReturns`, `ForLinesEnd`, `Answers`), which is out of the prover's reach;
* `TreeIsTheLine` and `TreeIsShaped` of `ParsedTree`, which walk a tree by recursive operators
  (a tree has no places to make a function of), and `SentencesAreAccepted`, which is about a
  generated set of sentences. Of these lines the theorems say that they are
  balanced if they are accepted, not that they are accepted or what tree they get.

## What the models show besides

Where the code differs from what the repository expects of it, besides the findings. The
properties leave these cases open or name them as exceptions; none hides one:

* *The status of a pipeline* is the raw wait status of its first command
  (execution_ast.c:114-116). The test bad_2ndcommand (test_pipes.yml:56-62, `ls | mdr`,
  compared with bash) expects the last one's. `PipelineContract` leaves it open.
* *A sign before a parenthesis* ends the shell with status 1 (`set_number`,
  arithmetic.c:123-146). The test plus_in_front_parenthesis (test_arithmetic.yml:217-223,
  `echo $((+(2) - 5));`, compared with bash) expects -3. `SignedGroup` in
  `EndsOnlyOnErrors`; without it TLC finds such an expression at once.
* *A break with a negative operand* raises the counters instead of failing: `while true;
  do break -1; done` never ends, and in a nested loop it revives the loop around it that
  was broken. The test break_negative (test_builtins.yml:303-309, compared with bash)
  expects an end. `raised` in `CounterBounds` and `BrokenLoopsStop`.
* *`unalias` of the third name of a bucket* removes the second as well (my_unalias.c:39,
  54-55); 42sh.1:16 says of sh "Thus it follows its behaviour". `Place` in `OthersStay`.
* *`unalias ab` takes back a definition of `a`* that waits on the same line
  (my_unalias.c:117), and an older meaning of `a` stays. `undone` in `AliasIsLatest`.
* *A line is run that could not be written to the history* (42sh.c:184-193), where one
  whose file could not be opened is not. `failed` in `RanIsRecorded`.
* *In `false && a | b`*, b is run. `AndOrRespected` is about the command directly behind
  an operator.

Behaviours the models reproduce and no document speaks of, so that no property is
stated:

* A declaration `f() {...} || x` runs x whatever the status; `a > f > g` executes g;
  `> f cmd` runs f as a command. A call of a function
  followed by `|`, `>` or a failing `&&` drops the rest of the list.
* `break 1` in the inner of two loops leaves `brk = 1`, so the inner loop goes on.
  Statements behind an `if` or `case` whose branch breaks are still run. `break 0` in
  `while true` never ends.
* A command all of whose words are empty, `false && x & y` and `if ...; fi & b` follow a
  null pointer.
* After a function returned, `$1`, `$@` and the next assignment read its released
  parameters; when calls are nested, the outer return releases them again; a function
  that declares itself anew releases the body that is being walked.
* A value is looked up as a name again, so `x=x; echo $x` recurses without end.
* Removing the only entry of a bucket with `export -n` leaves it without a head, and
  the next export into it follows a null pointer.
* `case w in a) b;; newline esac` and a `case` without clauses are accepted and run the
  builder over the end of the list; so does a pattern `function`.
* After `x=1; x=$y` the value of x is the two characters `$y`; a new x gets what y is.
* `unalias` of the
  second name of two in a bucket says it is not found, and of one its loop does not see,
  in a bucket of one or three, follows a null pointer.
  `unalias -a` keeps what waits, and `alias` after it reads released entries. Aliases in a
  circle exhaust the stack.
* A line is not run when `HOME` is unset or the history file cannot be opened. Rc files
  are executed by child processes and leave nothing in the shell. Two shells that start
  at once for the first time may empty each other's history.
* `cd a/b` enters `a` twice; `cd /x` goes to `/`; `cd` stores the environment's `PWD` for
  the home directory, and returns 1 when there is none although it has gone there.
* `1 || 0 + 1` is 2, as all operators but `*` and `/` bind alike. `()`, `(1)2` and operators
  behind the last parenthesis are accepted.
* `<` empties the file and does not become the input; a command killed by a signal has
  status 0, one that exits with 255 has 127.

## Not modelled

* Character level work: cutting input into words (`lexer.c`), `set_string`, `echo`'s
  escapes, options of builtins, messages. The models start from words.
* `Arithmetic` starts from tokens: spaces (which end a token; a trailing one makes
  another number), numbers of more than 14 digits, for which the buffer is too small, and
  variables, which are expanded before. Powers are unreachable.
* `Aliases`: texts that begin with `$`, and the commit after a function with parameters
  was called, which has the hazards of `Variables`; what `alias` prints.
* `Session`: the choice of the input by options and `--norc` (with two operands on a
  terminal `main` goes on with a list it never set); the wording of a line in
  the history; the terminal's signals, which are ignored while a line is read.
* Options and `shopt`, the tree printer, containers, script reading, the prompt: tables,
  output or plumbing without a state of their own that other parts depend on. The
  containers are sequences where they are used.
* `Traversal`'s counters are integers: that an operand near the least int makes
  `brk -= break_nb` overflow is left out.
* `Session` keeps what was appended to the file, not its lines: a line that is written
  behind a part of one without its newline stands on the same line of the file.
* Memory that is merely not released, and `malloc` that fails.

## Plan

Done, in this order: the interpreter, because everything runs through it; pipelines,
for their concurrency, with the contract and its refinement; simple commands; lexer,
grammar and builder; variables; the working directory; aliases; sessions; arithmetic.

Next:

1. A composition of `Traversal` and `Variables`: parameters with their texts under
   the walk's own calls and returns.
2. `Aliases` against an abstract function from names to texts that a line changes at its
   end, for sequences without `unalias`.
3. Options and `shopt` as a table of flags that `main` and the builtins read.

Theorems worth proving next: that `Variables`, as long as no string has two owners,
implements a plain function from names to texts, and `Aliases` one that changes at the
end of a line (2 above); that what is in a buffer when the shell of `Commands` exits
reaches its standard output.
