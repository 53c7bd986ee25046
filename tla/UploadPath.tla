----------------------------- MODULE UploadPath -----------------------------
(***************************************************************************)
(* A recording on its way from a laptop to the hub.                        *)
(*                                                                         *)
(* The capture routes put the audio and then a meta file into the outbox   *)
(* directory and poke the runtime thread; the runtime sweeps the outbox in *)
(* FIFO order and removes an entry once the hub has answered 2xx.  The hub *)
(* streams the body to a .partial file, verifies the signature (timestamp  *)
(* window, then nonce cache), renames the file and dispatches a job.       *)
(*                                                                         *)
(* Connections break, answers are lost, requests are delivered twice, both *)
(* processes die and restart.  Laptop and hub have a clock each: a         *)
(* timestamp is the laptop's, the test of it and the time for which its    *)
(* nonce is kept are the hub's.  MaxFaults bounds all this, and how often  *)
(* a request is signed by a clock that is off.                             *)
(*                                                                         *)
(* Source: speechtotext/client/upload_queue.py, hub_runtime.py,            *)
(* hub_client.py, speechtotext/api/routes_ingest.py, auth.py, app.py.      *)
(***************************************************************************)
EXTENDS Integers, FiniteSets, Sequences, SequencesExt

CONSTANTS
  Entries,    \* captures
  Refused,    \* captures whose file name the hub does not accept (400)
  Window,     \* _SIGNATURE_WINDOW_S, in seconds of the model
  Skews,      \* seconds by which the laptop's clock may be ahead of the hub's
  MaxTime,    \* bound on the clock
  MaxFaults   \* bound on failures

VARIABLES
  capture,   \* capture[e]: where the thread that enqueues e is
  order,     \* outbox names in their lexical order, that of the stamps
  audio,     \* entries whose audio file is in the outbox
  meta,      \* meta[e]: the meta file, "torn" between open and write
  job,       \* job[e]: the laptop's hub_upload record, "lost" after a restart
  wake,      \* HubRuntime._wake
  rt,        \* where the runtime thread is
  batch,     \* what pending() returned and is still to be uploaded
  sent,      \* entries uploaded in this sweep
  known,     \* entries whose job id pending() could read
  cur,       \* request the runtime waits for, 0 for one that was refused
  ans,       \* the answer to it
  reqs,      \* signed requests; the index stands for the nonce
  nonces,    \* NonceCache: request -> expiry
  stored,    \* requests whose audio is in the hub's incoming directory
  now,       \* whole seconds of the hub's clock
  faults,    \* failures so far
  tried      \* ghost: entries that the latest pending() has returned

outbox == <<capture, order, audio, meta, job>>
runtime == <<wake, rt, batch, sent, known, cur, ans, tried>>
hub == <<nonces, stored>>
vars == <<outbox, runtime, reqs, hub, now, faults>>

Ids == DOMAIN reqs

\* A signed request: its signature's time, where it is, how often this process
\* of the hub has accepted it, and (a ghost) whether it has done so before the
\* hub's clock had come to that time.
Req == [e : Entries, ts : Int, net : {"sent", "streaming", "over"}, accepted : Nat,
        early : BOOLEAN]

OutboxType ==
  /\ capture \in [Entries -> {"new", "copied", "meta", "poke", "done", "dead"}]
  /\ order \in Seq(Entries) /\ IsInjective(order)
  /\ audio \subseteq Entries
  /\ meta \in [Entries -> {"none", "torn", "full"}]
  /\ job \in [Entries -> {"pending", "complete", "lost"}]

RuntimeType ==
  /\ wake \in BOOLEAN
  /\ rt \in {"top", "pending", "sweep", "await", "unlink", "wait"}
  /\ batch \subseteq Entries /\ sent \subseteq Entries
  /\ known \subseteq Entries /\ tried \subseteq Entries
  /\ cur \in 0..Len(reqs)
  /\ ans \in {"none", "ok", "error"}

HubType ==
  /\ reqs \in Seq(Req)
  /\ \A i \in DOMAIN nonces : i \in Ids /\ nonces[i] \in Nat
  /\ stored \subseteq Ids

TypeOK ==
  /\ OutboxType /\ RuntimeType /\ HubType
  /\ now \in 0..MaxTime /\ faults \in 0..MaxFaults

Init ==
  /\ capture = [e \in Entries |-> "new"]
  /\ order = <<>> /\ audio = {}
  /\ meta = [e \in Entries |-> "none"]
  /\ job = [e \in Entries |-> "pending"]
  /\ wake = FALSE /\ rt = "top" /\ batch = {} /\ sent = {}
  /\ known = {} /\ cur = 0 /\ ans = "none" /\ tried = {}
  /\ reqs = <<>> /\ nonces = <<>> /\ stored = {}
  /\ now = 0 /\ faults = 0

Fault == faults < MaxFaults /\ faults' = faults + 1

-----------------------------------------------------------------------------
(* enqueue, in the thread of the capture route. *)

\* The stamp is taken and the audio copied.
Copy(e) ==
  /\ capture[e] = "new"
  /\ capture' = [capture EXCEPT ![e] = "copied"]
  /\ order' = Append(order, e)
  /\ audio' = audio \cup {e}
  /\ UNCHANGED <<meta, job, runtime, reqs, hub, now, faults>>

\* meta_path.write_text opens the file: pending() finds the entry from now on.
OpenMeta(e) ==
  /\ capture[e] = "copied"
  /\ capture' = [capture EXCEPT ![e] = "meta"]
  /\ meta' = [meta EXCEPT ![e] = "torn"]
  /\ UNCHANGED <<order, audio, job, runtime, reqs, hub, now, faults>>

\* The text is written; the sweep may have removed the file meanwhile.
WriteMeta(e) ==
  /\ capture[e] = "meta"
  /\ capture' = [capture EXCEPT ![e] = "poke"]
  /\ meta' = IF meta[e] = "torn" THEN [meta EXCEPT ![e] = "full"] ELSE meta
  /\ UNCHANGED <<order, audio, job, runtime, reqs, hub, now, faults>>

\* runtime.poke().
Poke(e) ==
  /\ capture[e] = "poke"
  /\ capture' = [capture EXCEPT ![e] = "done"]
  /\ wake' = TRUE
  /\ UNCHANGED <<order, audio, meta, job, rt, batch, sent, known, cur, ans, tried, reqs,
                 hub, now, faults>>

-----------------------------------------------------------------------------
(* The runtime thread. *)

\* _wake is cleared before the work of the cycle.
Clear ==
  /\ rt = "top"
  /\ wake' = FALSE
  /\ rt' = "pending"
  /\ UNCHANGED <<outbox, batch, sent, known, cur, ans, tried, reqs, hub, now, faults>>

\* pending(): the entries with a meta file.  A meta without audio is removed,
\* an unreadable one gives no job id.
Pending ==
  /\ rt = "pending"
  /\ LET listed == {e \in Entries : meta[e] # "none"} IN
     /\ meta' = [e \in Entries |-> IF e \in listed \ audio THEN "none" ELSE meta[e]]
     /\ batch' = listed \cap audio
     /\ known' = {e \in listed \cap audio : meta[e] = "full"}
     /\ tried' = listed \cap audio
  /\ sent' = {}
  /\ rt' = "sweep"
  /\ UNCHANGED <<capture, order, audio, job, wake, cur, ans, reqs, hub, now, faults>>

Before(f, e) == \E a, b \in DOMAIN order : a < b /\ order[a] = f /\ order[b] = e

\* Fault: the newest entry comes first.
Newest(e) == e \in batch /\ \A f \in batch : ~Before(e, f)

\* The loop of sweep() takes the entries in the order of their names.
Oldest(e) == e \in batch /\ \A f \in batch : ~Before(f, e)

\* signed_headers: the present second of the laptop's clock and a new nonce,
\* the request's index.
Signed(e, d) ==
  [e |-> e, ts |-> now + d, net |-> "sent", accepted |-> 0, early |-> FALSE]

\* upload_audio of the oldest entry.  The hub is sure to refuse a file name
\* it does not accept, and may refuse any request for its timestamp: the
\* clocks differ by the window or the body takes as long to arrive.  Of such
\* a request only the answer matters.
Send ==
  /\ rt = "sweep"
  /\ rt' = "await"
  /\ \E e \in Entries :
       /\ Oldest(e)
       /\ \/ cur' = 0 /\ UNCHANGED <<reqs, faults>>
          \/ /\ e \notin Refused
             /\ \/ reqs' = Append(reqs, Signed(e, 0)) /\ UNCHANGED faults
                \/ \E d \in Skews : reqs' = Append(reqs, Signed(e, d)) /\ Fault
             /\ cur' = Len(reqs')
  /\ UNCHANGED <<outbox, wake, batch, sent, known, ans, tried, hub, now>>

\* The entry of the request that has been answered.
Entry == reqs[cur].e

\* Fault: an entry is removed whatever the hub's answer was.
UnlinkAudioAnyAnswer ==
  /\ rt = "await" /\ ans # "none"
  /\ audio' = audio \ {Entry}
  /\ rt' = "unlink"
  /\ UNCHANGED <<capture, order, meta, job, wake, batch, sent, known, cur, ans, tried,
                 reqs, hub, now, faults>>

\* 2xx: the audio file is removed, and then the meta file.
UnlinkAudio ==
  /\ rt = "await" /\ ans = "ok"
  /\ audio' = audio \ {Entry}
  /\ rt' = "unlink"
  /\ UNCHANGED <<capture, order, meta, job, wake, batch, sent, known, cur, ans, tried,
                 reqs, hub, now, faults>>

UnlinkMeta ==
  /\ rt = "unlink"
  /\ meta' = [meta EXCEPT ![Entry] = "none"]
  /\ sent' = sent \cup {Entry}
  /\ batch' = batch \ {Entry}
  /\ cur' = 0 /\ ans' = "none"
  /\ rt' = "sweep"
  /\ UNCHANGED <<capture, order, audio, job, wake, known, tried, reqs, hub, now, faults>>

\* The hub has refused the request, or the connection is broken.
Failed == cur # 0 => reqs[cur].net = "over" /\ ans # "ok"

\* Fault: what was uploaded before the failure is forgotten.
AbortForgets ==
  /\ rt = "await"
  /\ IF Failed THEN UNCHANGED faults ELSE Fault
  /\ batch' = {}
  /\ sent' = {}
  /\ cur' = 0 /\ ans' = "none"
  /\ rt' = "sweep"
  /\ UNCHANGED <<outbox, wake, known, tried, reqs, hub, now>>

\* Any exception ends the sweep: an error status, a broken connection,
\* or no answer in time.
Abort ==
  /\ rt = "await"
  /\ IF Failed THEN UNCHANGED faults ELSE Fault
  /\ batch' = {}
  /\ cur' = 0 /\ ans' = "none"
  /\ rt' = "sweep"
  /\ UNCHANGED <<outbox, wake, sent, known, tried, reqs, hub, now>>

\* Fault: the flag is cleared before the wait.
TellClears ==
  /\ rt = "sweep" /\ batch = {}
  /\ job' = [e \in Entries |-> IF e \in sent \cap known /\ job[e] # "lost"
                               THEN "complete" ELSE job[e]]
  /\ wake' = FALSE
  /\ rt' = "wait"
  /\ UNCHANGED <<capture, order, audio, meta, batch, sent, known, cur, ans, tried,
                 reqs, hub, now, faults>>

\* The sweep is over and on_entry_sent completes the local records.
Tell ==
  /\ rt = "sweep" /\ batch = {}
  /\ job' = [e \in Entries |-> IF e \in sent \cap known /\ job[e] # "lost"
                               THEN "complete" ELSE job[e]]
  /\ rt' = "wait"
  /\ UNCHANGED <<capture, order, audio, meta, wake, batch, sent, known, cur, ans, tried,
                 reqs, hub, now, faults>>

\* _wake.wait(timeout=period) returns.
Wait ==
  /\ rt = "wait"
  /\ rt' = "top"
  /\ sent' = {} /\ known' = {} /\ tried' = {}
  /\ UNCHANGED <<outbox, wake, batch, cur, ans, reqs, hub, now, faults>>

\* The laptop's process dies, captures in progress with it, and restarts.
LaptopRestarts ==
  /\ Fault
  /\ capture' = [e \in Entries |-> IF capture[e] \in {"new", "done"} THEN capture[e] ELSE "dead"]
  /\ job' = [e \in Entries |-> IF capture[e] = "new" THEN job[e] ELSE "lost"]
  /\ wake' = FALSE /\ rt' = "top" /\ batch' = {} /\ sent' = {} /\ known' = {}
  /\ cur' = 0 /\ ans' = "none" /\ tried' = {}
  /\ UNCHANGED <<order, audio, meta, reqs, hub, now>>

-----------------------------------------------------------------------------
(* The hub. *)

\* post_upload begins to stream the body into a .partial file.
Receive(i) ==
  /\ reqs[i].net = "sent"
  /\ reqs' = [reqs EXCEPT ![i].net = "streaming"]
  /\ UNCHANGED <<outbox, runtime, hub, now, faults>>

\* The connection breaks: the .partial file is removed.
Break(i) ==
  /\ reqs[i].net \in {"sent", "streaming"} /\ Fault
  /\ reqs' = [reqs EXCEPT ![i].net = "over"]
  /\ UNCHANGED <<outbox, runtime, hub, now>>

\* The request reaches the hub once more.
Duplicate(i) ==
  /\ reqs[i].net = "over" /\ Fault
  /\ reqs' = [reqs EXCEPT ![i].net = "sent"]
  /\ UNCHANGED <<outbox, runtime, hub, now>>

\* The answer, which reaches the laptop while it still waits.
Answer(i, a) == ans' = IF i = cur THEN a ELSE ans

\* abs(time.time() - ts) > window, where time.time() is some fraction of a
\* second past now.
Stale(i) == now - reqs[i].ts >= Window \/ reqs[i].ts - now > Window

\* Fault: nonces are kept for a shorter time than a timestamp is good for.
RememberedShort == {i \in DOMAIN nonces : nonces[i] > now + 1}

\* check_and_store sweeps the expired nonces first.
Remembered == {i \in DOMAIN nonces : nonces[i] > now}

\* 401: the timestamp is out of the window by the time the body has arrived, or
\* the nonce is known.  The .partial file is removed.
Reject(i) ==
  /\ reqs[i].net = "streaming"
  /\ Stale(i) \/ i \in Remembered
  /\ reqs' = [reqs EXCEPT ![i].net = "over"]
  /\ Answer(i, "error")
  /\ UNCHANGED <<outbox, wake, rt, batch, sent, known, cur, tried, hub, now, faults>>

\* Verification succeeds: the nonce is stored, the file renamed, the job
\* created and dispatched.  When create raises the file stays and the answer
\* is 500; when the dispatch raises the file is removed.
Accept(i) ==
  /\ reqs[i].net = "streaming"
  /\ ~Stale(i) /\ i \notin Remembered
  /\ nonces' = [k \in Remembered \cup {i} |-> IF k = i THEN now + Window ELSE nonces[k]]
  /\ reqs' = [reqs EXCEPT ![i].net = "over", ![i].accepted = @ + 1,
                          ![i].early = @ \/ reqs[i].ts > now]
  /\ \/ Answer(i, "ok") /\ stored' = stored \cup {i} /\ UNCHANGED faults
     \/ Answer(i, "error") /\ stored' \in {stored, stored \cup {i}} /\ Fault
  /\ UNCHANGED <<outbox, wake, rt, batch, sent, known, cur, tried, now>>

\* The hub dies: open requests end, nonces are forgotten, and at start-up the
\* .partial files are swept.  The stored audio remains (its job does not).
HubRestarts ==
  /\ Fault
  /\ reqs' = [i \in Ids |-> [reqs[i] EXCEPT !.net = IF @ = "streaming" THEN "over" ELSE @,
                                            !.accepted = 0, !.early = FALSE]]
  /\ nonces' = <<>>
  /\ UNCHANGED <<outbox, runtime, stored, now>>

Tick ==
  /\ now < MaxTime
  /\ now' = now + 1
  /\ UNCHANGED <<outbox, runtime, reqs, hub, faults>>

-----------------------------------------------------------------------------
CaptureStep(e) == OpenMeta(e) \/ WriteMeta(e) \/ Poke(e)
RuntimeStep ==
  \/ Clear \/ Pending \/ Send \/ UnlinkAudio \/ UnlinkMeta \/ Abort \/ Tell \/ Wait
HubStep(i) == Receive(i) \/ Reject(i) \/ Accept(i)

Next ==
  \/ \E e \in Entries : Copy(e) \/ CaptureStep(e)
  \/ RuntimeStep \/ LaptopRestarts
  \/ \E i \in Ids : HubStep(i) \/ Break(i) \/ Duplicate(i)
  \/ HubRestarts \/ Tick

Spec == Init /\ [][Next]_vars

\* Threads and processes run, and a request that no failure hits arrives.
MaxReqs == Cardinality(Entries) + 2 * MaxFaults + MaxTime
FairSpec ==
  /\ Spec
  /\ \A e \in Entries : WF_vars(CaptureStep(e))
  /\ WF_vars(RuntimeStep)
  /\ \A i \in 1..MaxReqs : WF_vars(i \in Ids /\ HubStep(i))

-----------------------------------------------------------------------------
OnHub(e) == \E i \in stored : reqs[i].e = e

\* A recording whose enqueue has returned is in the outbox or on the hub's
\* disk, whatever breaks or restarts.
NoCaptureLost == \A e \in Entries : capture[e] \in {"poke", "done"} => e \in audio \/ OnHub(e)

\* _run: a poke is "never lost": while the runtime sleeps unwoken, an entry
\* still in the outbox has been tried since it was enqueued.
NoLostPoke ==
  rt = "wait" /\ ~wake =>
    \A e \in Entries : capture[e] = "done" /\ e \in audio => e \in tried

\* After a cycle the job of an entry that has left the outbox is complete,
\* unless its job id could not be read: a sweep that fails half-way has told
\* of what it sent.
UploaderTold == rt = "wait" => \A e \in known \ audio : job[e] # "pending"

\* A record is only completed for audio the hub has.
CompleteIsStored == \A e \in Entries : job[e] = "complete" => OnHub(e)

\* The window and the nonce cache together let a hub process accept a signed
\* request once, however often it is delivered, unless it has come before the
\* hub's clock had reached its timestamp: the nonce is kept for the window from
\* its arrival, the timestamp is good for as long from its own second on.
SignedOnce == \A i \in Ids : reqs[i].accepted <= 1 \/ reqs[i].early

\* The runtime waits for an answer that refuses a timestamp.
Untimely == rt = "await" /\ cur = 0 /\ \A e \in Refused : ~Oldest(e)

\* An entry with no refused entry ahead of it in the outbox reaches the hub, if
\* from some time on no request is refused for its timestamp: as long as the
\* clocks differ by the window or bodies take as long to arrive, every retry is.
Delivered ==
  <>[]~Untimely =>
    \A e \in Entries :
      (capture[e] = "done" /\ \A f \in Refused : f # e /\ ~Before(f, e))
        ~> OnHub(e)

\* The laptop's upload records say what has become of the recordings, neither
\* too much nor, after a cycle, too little.
RecordsTrue == TypeOK /\ UploaderTold /\ CompleteIsStored

ASSUME UploadAssumption ==
  /\ Refused \subseteq Entries
  /\ Skews \subseteq Int
  /\ Window \in Nat \ {0} /\ MaxTime \in Nat /\ MaxFaults \in Nat
=============================================================================
