-------------------------- MODULE PipelineContract --------------------------
(***************************************************************************)
(* What pipe_handling() promises its caller about N commands joined by     *)
(* pipes: each is started once, in order; the call returns when every one  *)
(* of them has ended, and none starts after that; what it returns is the   *)
(* raw wait status of one of them.  Which one is left open, as the code    *)
(* and its tests differ: pipe_aux() returns the first command's, the test  *)
(* bad_2ndcommand (test_pipes.yml:56-62) expects the last one's.           *)
(***************************************************************************)
EXTENDS Integers

CONSTANTS N, RawStatus

Stage == 1..N

VARIABLES
  started,  \* the stages forked so far
  wstatus,  \* the raw wait status of each stage that ended
  outcome   \* what the call returned: at most one element

cvars == <<started, wstatus, outcome>>

Ended == DOMAIN wstatus

Init ==
  /\ started = {}
  /\ wstatus = [i \in {} |-> 0]
  /\ outcome = {}

Start(i) ==
  /\ i \notin started /\ \A j \in 1..i-1 : j \in started
  /\ started' = started \union {i}
  /\ UNCHANGED <<wstatus, outcome>>

End(i, w) ==
  /\ i \in started \ Ended
  /\ wstatus' = [j \in Ended \union {i} |-> IF j = i THEN w ELSE wstatus[j]]
  /\ UNCHANGED <<started, outcome>>

Return ==
  /\ outcome = {}
  /\ Ended = Stage
  /\ \E i \in Stage : outcome' = {wstatus[i]}
  /\ UNCHANGED <<started, wstatus>>

Next ==
  \/ \E i \in Stage : Start(i) \/ \E w \in RawStatus : End(i, w)
  \/ Return

Spec == Init /\ [][Next]_cvars
=============================================================================
