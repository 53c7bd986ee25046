-------------------------- MODULE WorkspaceIdentity --------------------------
(***************************************************************************)
(* What workspace.json promises: one identity, chosen once, and a Lamport  *)
(* counter that only moves forward.                                        *)
(***************************************************************************)
EXTENDS Naturals

CONSTANTS Ids, NoId

VARIABLES wid, lam

Init == wid \in Ids \cup {NoId} /\ lam \in Nat

\* The first boot chooses the workspace_id.
Create == wid = NoId /\ wid' \in Ids /\ lam' = lam

Advance == lam' \in Nat /\ lam' > lam /\ wid' = wid

Spec == Init /\ [][Create \/ Advance]_<<wid, lam>>
=============================================================================
