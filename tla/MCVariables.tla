---------------------------- MODULE MCVariables ----------------------------
(***************************************************************************)
(* Names that all share a bucket, and as many strings as they can need.    *)
(***************************************************************************)
EXTENDS Variables

CONSTANTS a, b

MCHash == [n \in Name |-> 1]
MCTexts == {b, Ref(a), Ref(First)}
=============================================================================
