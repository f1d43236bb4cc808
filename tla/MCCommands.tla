---------------------------- MODULE MCCommands ----------------------------
(***************************************************************************)
(* All commands over the given files.                                      *)
(***************************************************************************)
EXTENDS Commands

MCForms ==
  {[run |-> r, op |-> o, file |-> f] :
     r \in {"echo", "print", "program", "missing"},
     o \in {"none", ">", ">>", "<", "<>"}, f \in File}
===========================================================================
