------------------------------ MODULE MCSession ------------------------------
(***************************************************************************)
(* Three names in one bucket, one of which begins with another.            *)
(***************************************************************************)
EXTENDS Session

CONSTANTS a, ab, x, plain

MCHash == [n \in Name |-> 1]
MCPrefix == {<<a, a>>, <<ab, ab>>, <<x, x>>, <<a, ab>>}
=============================================================================
