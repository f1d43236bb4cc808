---------------------------- MODULE Descriptors ----------------------------
(***************************************************************************)
(* Tables of file descriptors, and the system calls the shell makes on     *)
(* them.  A table maps the open descriptor numbers to what they refer to.  *)
(* Closing a number that is not open fails and changes nothing, as the     *)
(* shell never looks at the result.                                        *)
(***************************************************************************)
EXTENDS Integers

NoTable == [d \in {} |-> d]

Close(t, d) == [e \in DOMAIN t \ {d} |-> t[e]]

Dup2(t, d, e) ==
  IF d \in DOMAIN t
    THEN [x \in DOMAIN t \union {e} |-> IF x = e THEN t[d] ELSE t[x]]
    ELSE t

\* open() and pipe() hand out the lowest numbers that are free.
Open(t, d, f) == [x \in DOMAIN t \union {d} |-> IF x = d THEN f ELSE t[x]]
LowestFree(t, d) == d \notin DOMAIN t /\ \A e \in 0..d-1 : e \in DOMAIN t

\* close_fds(): closes 3, 4, ... until a number is not open.  A number is left
\* alone when it is below 3 or when one between 3 and it is not open.
CloseFds(t) ==
  [d \in {e \in DOMAIN t : e < 3 \/ \E h \in 3..e : h \notin DOMAIN t} |-> t[d]]
=============================================================================
