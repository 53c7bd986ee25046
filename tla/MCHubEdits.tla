----------------------------- MODULE MCHubEdits -----------------------------
(***************************************************************************)
(* Constants of HubEdits and HubReplay for TLC.                            *)
(***************************************************************************)
EXTENDS HubReplay, TLC

\* A transcript migrated from another device: its title was set there under a
\* Lamport clock the hub's counter has never seen, and it has no speakers.
MCImported ==
  LET o == [op |-> OP_SET_TITLE, key |-> CHOOSE k \in TitleKeys : TRUE,
            value |-> CHOOSE v \in Values : TRUE, device |-> 2, lamport |-> 2]
      base == [vals |-> [k \in Keys |-> IF k \in SegmentKeys THEN Empty ELSE Null],
               clocks |-> [k \in Keys |-> NoClock],
               history |-> << >>, summary |-> Null]
  IN [base EXCEPT !.vals[o.key] = o.value, !.clocks[o.key] = ClockOf(o),
                  !.history = <<o>>]

MCImportDocs == {MCImported}

\* Threads are interchangeable: no definition tells one from another.
ThreadSymmetry == Permutations(Threads)
=============================================================================
