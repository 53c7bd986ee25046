----------------------------- MODULE MCLibrary -----------------------------
(***************************************************************************)
(* Constants of LibraryIndex for TLC.                                      *)
(***************************************************************************)
EXTENDS LibraryIndex, TLC

CONSTANTS lib, inc, x, x2

\* One transcript id in two directories.
MCTwoDirs == [p \in {x, x2} |-> IF p = x THEN lib ELSE inc]
\* inc, the incoming directory, lies below lib, the default one.
MCNested == [d \in {lib, inc} |-> IF d = lib THEN {lib, inc} ELSE {inc}]
MCSharedStem == [p \in {x, x2} |-> x]

\* Threads are interchangeable: no definition tells one from another.
ThreadSymmetry == Permutations(Threads)
=============================================================================
