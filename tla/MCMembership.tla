---------------------------- MODULE MCMembership ----------------------------
(***************************************************************************)
(* Constants of HubMembership for TLC.                                     *)
(***************************************************************************)
EXTENDS HubMembership, TLC

CONSTANTS h1, h2, k1, k2, j1, j2, r1, r2

\* A token of each hub.
MCHubOf == (k1 :> h1) @@ (k2 :> h2)

\* The hubs change places with their tokens.
Swapped == (h1 :> h2) @@ (h2 :> h1) @@ (k1 :> k2) @@ (k2 :> k1)
Straight == (h1 :> h1) @@ (h2 :> h2) @@ (k1 :> k1) @@ (k2 :> k2)

\* No action tells the joining threads, the runtime threads, or the hubs with
\* their tokens, apart.
MCSymmetry ==
  {j @@ r @@ h : j \in Permutations({j1, j2}), r \in Permutations({r1, r2}),
                 h \in {Straight, Swapped}}

\* FilesAgree says nothing of tangled histories: of these, TLC goes on with the
\* joins alone, for TokenOnce.
MCBound == tangled => /\ \A l \in Leavers : lpc[l] = "idle"
                      /\ \A u \in Updaters : upc[u] \in {"off", "top"}
=============================================================================
