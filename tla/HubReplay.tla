------------------------------ MODULE HubReplay ------------------------------
(***************************************************************************)
(* replay_history: a document's clocks and values rebuilt from its log.    *)
(*                                                                         *)
(* Source: speechtotext/api/crdt.py.                                       *)
(***************************************************************************)
EXTENDS HubEdits

\* sorted(history, key=(lamport, device)): a stable sort
Before(h, i, j) ==
  \/ beats(ClockOf(h[j]), ClockOf(h[i]))
  \/ ClockOf(h[i]) = ClockOf(h[j]) /\ i < j

Rank(h, i) == Cardinality({j \in DOMAIN h : Before(h, j, i)})

SortedOps(h) ==
  [n \in DOMAIN h |-> h[CHOOSE i \in DOMAIN h : Rank(h, i) = n - 1]]

\* Fault: the sorted ops are applied without comparing clocks.
ReplayBlindly(st, o) ==
  [vals |-> [st.vals EXCEPT ![o.key] = Coerce(o.key, o.value)],
   clocks |-> [st.clocks EXCEPT ![o.key] = ClockOf(o)]]

ReplayOp(st, o) ==
  IF beats(ClockOf(o), st.clocks[o.key])
  THEN [vals |-> [st.vals EXCEPT ![o.key] = Coerce(o.key, o.value)],
        clocks |-> [st.clocks EXCEPT ![o.key] = ClockOf(o)]]
  ELSE st

EmptyState == [vals |-> [k \in Keys |-> Null], clocks |-> [k \in Keys |-> NoClock]]

\* The loop over the sorted ops: the state after the first n of them.
replay_history(h) ==
  LET state[n \in 0..Len(h)] ==
        IF n = 0 THEN EmptyState ELSE ReplayOp(state[n - 1], SortedOps(h)[n])
  IN state[Len(h)]

-----------------------------------------------------------------------------
\* "The resulting speakers/clocks match what live merging would have
\* produced": in whatever order ops reached a transcript, sorting its log by
\* (lamport, device) and replaying it gives every key the clock it has on
\* disk, and the title and every edited segment the text they have on disk.
\* Speakers are left out: a bulk relabel renames them without an op.
ReplayMatchesLive ==
  \A t \in Transcripts : docs[t] # NoDoc =>
    LET st == replay_history(docs[t].history) IN
    \A k \in Keys :
      /\ st.clocks[k] = docs[t].clocks[k]
      /\ k \notin SpeakerKeys /\ docs[t].clocks[k] # NoClock
           => st.vals[k] = docs[t].vals[k]
=============================================================================
