----------------------------- MODULE MCWorkspace -----------------------------
(***************************************************************************)
(* Constants of WorkspaceStore for TLC.                                    *)
(***************************************************************************)
EXTENDS WorkspaceStore

CONSTANT id1

\* A workspace whose counter is about to get a second digit.
MCPresent == {[wid |-> id1, lam |-> 8]}
MCFirstBoot == {Missing}
MCBoth == MCPresent \cup MCFirstBoot
=============================================================================
