------------------------------- MODULE OneCall -------------------------------
(***************************************************************************)
(* What a command of the dashboard promises, whatever it does on the wire: *)
(* the cluster is changed at most once, success is reported only of a      *)
(* change that was made, and every command is answered.  An error means    *)
(* that nothing was changed, or that the answer to the change was lost; a  *)
(* command that goes on behind its change may also fail there.             *)
(***************************************************************************)
EXTENDS Naturals

VARIABLES
  writes,    \* the command is one that changes the cluster
  goesOn,    \* it has more to do than its change
  changes,   \* how often it did
  result     \* what the dashboard is told

vars == <<writes, goesOn, changes, result>>

Init ==
  /\ writes \in BOOLEAN /\ goesOn \in BOOLEAN
  /\ changes = 0
  /\ result = "none"

\* The answer to a change may be lost.
Change ==
  /\ writes /\ changes = 0 /\ result = "none"
  /\ changes' = 1
  /\ result' \in {"none", "error"}
  /\ UNCHANGED <<writes, goesOn>>

Succeed ==
  /\ result = "none"
  /\ writes => changes = 1
  /\ result' = "ok"
  /\ UNCHANGED <<writes, goesOn, changes>>

Fail ==
  /\ result = "none"
  /\ changes = 0 \/ goesOn
  /\ result' = "error"
  /\ UNCHANGED <<writes, goesOn, changes>>

Next == Change \/ Succeed \/ Fail

\* The safety part, and the whole.
SafeSpec == Init /\ [][Next]_vars
Spec == SafeSpec /\ WF_vars(Succeed \/ Fail)
=============================================================================
