----------------------------- MODULE MCMigrate ------------------------------
(* Instance of TrashMigrate for TLC: the request threads are alike, and so   *)
(* are the two threads that sweep.                                           *)
EXTENDS TrashMigrate, TLC

MCSymmetry == Permutations(Users) \cup Permutations(Sweepers)

\* Of two requests, a new version, a fault and a listing that has yet to enter
\* its row at most three come together; and TLC does not go on where a row has
\* been entered late, of which NoFalseFailure says nothing.
Extras == ops + (versions - 1) + faults + (IF seen THEN 1 ELSE 0)

MCBound == Extras <= 3 /\ ~overtaken
=============================================================================
