------------------------------- MODULE MCJobs -------------------------------
(***************************************************************************)
(* Constants of JobRunner for TLC.                                         *)
(***************************************************************************)
EXTENDS JobRunner

CONSTANTS old, j1, j2, s1, s2

\* Two connections to the same job, one to a job that registers its folder.
MCWatchers == [k \in Kinds |-> CASE k = "migrate" -> {s1, s2}
                               [] k = "record" -> {s1}
                               [] OTHER -> {}]

Requested(a, b) == (old :> "ask") @@ (j1 :> a) @@ (j2 :> b)

\* Two transcriptions on the main loop that need the one slot, and workers
\* with a loop of their own.
MCKinds == {Requested("upload", "upload"), Requested("record", "ask"),
            Requested("migrate", "summarize"), Requested("transcribe", "ask_hub")}
=============================================================================
