---------------------------- MODULE MCPipeline ----------------------------
(***************************************************************************)
(* The commands for Pipeline's runs: a generator that overfills a pipe, a  *)
(* filter that reads all, one that stops early, a program that reads       *)
(* nothing (a builtin, or a command that is not found).                    *)
(***************************************************************************)
EXTENDS Pipeline

Generator == [makes |-> Cap + 2, reads |-> 0, filter |-> FALSE, code |-> 0]
Filter    == [makes |-> 0, reads |-> All, filter |-> TRUE, code |-> 1]
Head      == [makes |-> 0, reads |-> 1, filter |-> TRUE, code |-> 0]
Missing   == [makes |-> 0, reads |-> 0, filter |-> FALSE, code |-> 255]

MCPrograms == {Generator, Filter, Head, Missing}
===========================================================================
