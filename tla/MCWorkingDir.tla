---------------------------- MODULE MCWorkingDir ----------------------------
(***************************************************************************)
(* / with the directories a and b in it, and another a in a.               *)
(***************************************************************************)
EXTENDS WorkingDir

CONSTANTS top, a, b, aa

Inside == [d \in Dir |->
  CASE d = top -> [a |-> a, b |-> b]
    [] d = a   -> [a |-> aa, b |-> NULL]
    [] OTHER   -> [a |-> NULL, b |-> NULL]]

MCEntry == [d \in Dir |-> [p \in Part |->
  CASE p = "."  -> d
    [] p = ".." -> IF d = aa THEN a ELSE top
    [] p = "a"  -> Inside[d].a
    [] p = "b"  -> Inside[d].b]]
=============================================================================
