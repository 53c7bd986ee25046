----------------------------- MODULE JobRunner -----------------------------
(***************************************************************************)
(* The job registry, the worker threads and the event streams.             *)
(*                                                                         *)
(* A route creates a record and starts a worker thread.  The worker posts  *)
(* events to an event loop and waits at most 5 s for each to be published; *)
(* publish updates the record and puts the event into the queue of every   *)
(* attached stream.  A job started from a synchronous route has a loop of  *)
(* its own, in another thread than the streams; an upload is published on  *)
(* the server's main loop, as the streams are.                             *)
(*                                                                         *)
(* Progress events only set the status; queues hold the last event and the *)
(* sentinel.                                                               *)
(*                                                                         *)
(* Source: speechtotext/api/jobs.py, runner.py, routes_jobs.py,            *)
(* routes_ask.py, routes_summarize.py.                                     *)
(***************************************************************************)
EXTENDS Naturals, FiniteSets, Sequences, SequencesExt

CONSTANTS
  Jobs,        \* jobs that may be requested
  Streams,     \* SSE connections
  Watchers,    \* Watchers[k]: connections that may ask for a job of kind k
  Pollers,     \* clients polling GET /jobs/{id} of a proxied ask
  Past,        \* jobs that completed before the behaviour starts
  KindChoices, \* functions that say of each job what is requested
  Slots,       \* LOCALLEXIS_MAX_CONCURRENT_TRANSCRIBE
  MaxJobs,     \* MAX_JOBS
  NoJob,
  NoReply

Kinds == {"transcribe", "upload", "record", "summarize", "migrate", "ask", "ask_hub"}

VARIABLES
  kind,      \* kind[j]; "upload" is a transcription started by POST /audio
  status,    \* JobRecord.status, "none" before create, "gone" once pruned
  result,    \* JobRecord.result has been stored
  order,     \* keys of _jobs, oldest first
  queues,    \* _queues[j]: streams in the order they attached
  snap,      \* keys the creating thread has yet to look at in _prune
  work,      \* where the route, and then the worker of a job is
  acquired,  \* jobs whose worker holds a slot
  sem,       \* value of _TRANSCRIBE_SEM
  armed,     \* keys of _CANCEL_EVENTS and _STOP_EVENTS
  flagged,   \* jobs whose event has been set
  mail,      \* mail[j]: events posted to the loop and not yet published
  pub,       \* pub[j]: the publish in progress
  inbox,     \* inbox[s]: the queue of a stream
  at,        \* at[s]: the job of a stream, NoJob before it attaches
  left,      \* streams that have ended
  hub,       \* hub[j]: state of the hub's own job for a proxied ask
  reply,     \* reply[p]: what the poller has fetched
  timely,    \* ghost: streams that attached before their job ended
  jolted,    \* ghost: jobs of which a stream left while publish iterated, or
             \* whose publish raised when the worker did not wait for it
  late,      \* ghost: jobs for which an emit has timed out or raised
  crossed    \* ghost: proxied asks of which two polls have overlapped

record == <<kind, status, result, order, queues>>
worker == <<work, acquired, sem, armed, flagged>>
client == <<inbox, at, left>>
remote == <<hub, reply>>
ghost == <<timely, jolted, late, crossed>>
vars == <<record, snap, worker, mail, pub, client, remote, ghost>>

Ended == {"complete", "failed"}
Idle == [ev |-> "none", step |-> "idle", i |-> 0]

RegistryType ==
  /\ kind \in [Jobs -> Kinds]
  /\ status \in [Jobs -> Ended \cup {"none", "pending", "running", "gone"}]
  /\ result \in [Jobs -> BOOLEAN]
  /\ order \in Seq(Jobs) /\ IsInjective(order)
  /\ queues \in [Jobs -> Seq(Streams)]
  /\ snap \in [Jobs -> Seq(Jobs)]

WorkerType ==
  /\ work \in [Jobs -> {"none", "create", "launched", "stage", "queued", "run",
                        "end", "except", "finally", "done", "raised"}]
  /\ acquired \subseteq Jobs /\ armed \subseteq Jobs /\ flagged \subseteq Jobs
  /\ sem \in 0..Slots

PublishType ==
  /\ mail \in [Jobs -> Seq({"stage", "complete", "failed"})]
  /\ pub \in [Jobs -> [ev : {"none"} \cup Ended, step : {"idle", "dir", "event", "end"},
                       i : Nat]]

ClientType ==
  /\ inbox \in [Streams -> Seq(Ended \cup {"None"})]
  /\ at \in [Streams -> Jobs \cup {NoJob}]
  /\ left \subseteq Streams
  /\ hub \in [Jobs -> {"running", "complete", "failed"}]
  /\ reply \in [Pollers -> {NoReply} \cup [job : Jobs, status : {"running", "lost"} \cup Ended]]
  /\ timely \subseteq Streams
  /\ jolted \subseteq Jobs /\ late \subseteq Jobs /\ crossed \subseteq Jobs

TypeOK == RegistryType /\ WorkerType /\ PublishType /\ ClientType

Init ==
  /\ kind \in KindChoices
  /\ status = [j \in Jobs |-> IF j \in Past THEN "complete" ELSE "none"]
  /\ result = [j \in Jobs |-> j \in Past]
  /\ order = SetToSeq(Past)
  /\ queues = [j \in Jobs |-> <<>>]
  /\ snap = [j \in Jobs |-> <<>>]
  /\ work = [j \in Jobs |-> IF j \in Past THEN "done" ELSE "none"]
  /\ acquired = {} /\ armed = {} /\ flagged = {}
  /\ sem = Slots
  /\ mail = [j \in Jobs |-> <<>>]
  /\ pub = [j \in Jobs |-> Idle]
  /\ inbox = [s \in Streams |-> <<>>]
  /\ at = [s \in Streams |-> NoJob]
  /\ left = {}
  /\ hub = [j \in Jobs |-> "running"]
  /\ reply = [p \in Pollers |-> NoReply]
  /\ timely = {} /\ jolted = {} /\ late = {} /\ crossed = {}

-----------------------------------------------------------------------------
(* Routes and registry. *)

Transcribes(j) == kind[j] \in {"transcribe", "upload"}
HasAudio(j) == kind[j] \in {"transcribe", "upload", "record"}
Answers(j) == kind[j] \in {"ask", "migrate"}
OwnLoop(j) == kind[j] # "upload"

Goto(j, where) == work' = [work EXCEPT ![j] = where]

\* create: a record, an empty list of queues, then _prune over a copy of the keys.
Create(j) ==
  /\ work[j] = "none"
  /\ status' = [status EXCEPT ![j] = "pending"]
  /\ order' = Append(order, j)
  /\ snap' = [snap EXCEPT ![j] = order']
  /\ Goto(j, "create")
  /\ UNCHANGED <<kind, result, queues, acquired, sem, armed, flagged, mail, pub,
                 client, remote, ghost>>

\* Fault: attached streams do not keep a record.
EvictableAny(j) == status[j] \in Ended

\* _prune drops ended jobs that no stream is attached to.
Evictable(j) == status[j] \in Ended /\ queues[j] = <<>>

\* One key of _prune.  A key that another _prune has deleted meanwhile raises
\* KeyError out of create: the request fails and its record stays pending.
PruneKey(j) ==
  /\ work[j] = "create"
  /\ Len(order) > MaxJobs /\ snap[j] # <<>>
  /\ snap' = [snap EXCEPT ![j] = Tail(@)]
  /\ LET k == Head(snap[j]) IN
     IF ~Contains(order, k)
     THEN Goto(j, "raised") /\ UNCHANGED <<status, order, queues>>
     ELSE /\ IF Evictable(k)
             THEN /\ status' = [status EXCEPT ![k] = "gone"]
                  /\ order' = RemoveFirst(order, k)
                  /\ queues' = [queues EXCEPT ![k] = <<>>]
             ELSE UNCHANGED <<status, order, queues>>
          /\ UNCHANGED work
  /\ UNCHANGED <<kind, result, acquired, sem, armed, flagged, mail, pub, client,
                 remote, ghost>>

\* create returns to the route.
Created(j) ==
  /\ work[j] = "create"
  /\ Len(order) <= MaxJobs \/ snap[j] = <<>>
  /\ snap' = [snap EXCEPT ![j] = <<>>]

\* run_*_job registers the event of the job and starts the worker.
Launch(j) ==
  /\ kind[j] # "ask_hub" /\ Created(j)
  /\ Goto(j, "launched")
  /\ armed' = IF HasAudio(j) THEN armed \cup {j} ELSE armed
  /\ UNCHANGED <<record, acquired, sem, flagged, mail, pub, client, remote, ghost>>

\* An ask forwarded to the hub has no worker, it is polled.
LaunchProxy(j) ==
  /\ kind[j] = "ask_hub" /\ Created(j)
  /\ Goto(j, "done")
  /\ status' = [status EXCEPT ![j] = "running"]
  /\ UNCHANGED <<kind, result, order, queues, acquired, sem, armed, flagged, mail,
                 pub, client, remote, ghost>>

\* cancel_transcribe_job and stop_record_job.
SetEvent(j) ==
  /\ j \in armed \ flagged
  /\ flagged' = flagged \cup {j}
  /\ UNCHANGED <<record, snap, work, acquired, sem, armed, mail, pub, client, remote,
                 ghost>>

-----------------------------------------------------------------------------
(* The worker. *)

Post(j, ev) == mail' = [mail EXCEPT ![j] = Append(@, ev)]

\* Every publish the worker has posted is over.
Published(j) == mail[j] = <<>> /\ pub[j].step = "idle"

\* A slot is tried without blocking; without one the stage is "queued".
Start(j) ==
  /\ work[j] = "launched"
  /\ IF Transcribes(j) /\ sem > 0
     THEN acquired' = acquired \cup {j} /\ sem' = sem - 1
     ELSE UNCHANGED <<acquired, sem>>
  /\ Post(j, "stage")
  /\ Goto(j, "stage")
  /\ UNCHANGED <<record, snap, armed, flagged, pub, client, remote, ghost>>

StageEmitted(j) ==
  /\ work[j] = "stage" /\ Published(j)
  /\ Goto(j, IF Transcribes(j) /\ j \notin acquired THEN "queued" ELSE "run")
  /\ UNCHANGED <<record, snap, acquired, sem, armed, flagged, mail, pub, client,
                 remote, ghost>>

AcquireQueued(j) ==
  /\ work[j] = "queued" /\ sem > 0
  /\ acquired' = acquired \cup {j}
  /\ sem' = sem - 1
  /\ Post(j, "stage")
  /\ Goto(j, "stage")
  /\ UNCHANGED <<record, snap, armed, flagged, pub, client, remote, ghost>>

\* Fault: after a cancellation the worker goes on.
CancelQueuedGoesOn(j) ==
  /\ work[j] = "queued" /\ j \in flagged
  /\ Post(j, "failed")
  /\ Goto(j, "stage")
  /\ UNCHANGED <<record, snap, acquired, sem, armed, flagged, pub, client, remote,
                 ghost>>

\* Fault: a cancelled worker returns without a last event.
CancelQueuedSilently(j) ==
  /\ work[j] = "queued" /\ j \in flagged
  /\ Goto(j, "finally")
  /\ UNCHANGED <<record, snap, acquired, sem, armed, flagged, mail, pub, client, remote,
                 ghost>>

\* Half a second without a slot, and the job has been cancelled.
CancelQueued(j) ==
  /\ work[j] = "queued" /\ j \in flagged
  /\ Post(j, "failed")
  /\ Goto(j, "end")
  /\ UNCHANGED <<record, snap, acquired, sem, armed, flagged, pub, client, remote,
                 ghost>>

\* Fault: the result is stored after the job is complete.
CompleteEarly(j, stored) ==
  /\ work[j] = "run"
  /\ Post(j, "complete")
  /\ Goto(j, "end")
  /\ UNCHANGED <<record, snap, acquired, sem, armed, flagged, pub, client, remote,
                 ghost>>

\* The result, if the job has one, and then the last event.
Complete(j, stored) ==
  /\ work[j] = "run"
  /\ result' = [result EXCEPT ![j] = stored]
  /\ Post(j, "complete")
  /\ Goto(j, "end")
  /\ UNCHANGED <<kind, status, order, queues, snap, acquired, sem, armed, flagged,
                 pub, client, remote, ghost>>

\* The pipeline has written its transcript.
Transcribed(j) == Transcribes(j) /\ Complete(j, FALSE)

\* A recording goes on until it is stopped.
Recorded(j) == kind[j] = "record" /\ j \in flagged /\ Complete(j, FALSE)

\* The summary is in the sidecar and the sidecar in the index.
Summarized(j) == kind[j] = "summarize" /\ Complete(j, FALSE)

\* sweep_local has returned its counts.
Migrated(j) == kind[j] = "migrate" /\ Complete(j, TRUE)

\* The provider has answered from the chunks found.
Answered(j) == kind[j] = "ask" /\ Complete(j, TRUE)

\* An exception (a cancelled pipeline and a later emit that times out
\* included), or nothing to answer from, which returns inside the try.
Fail(j) ==
  /\ work[j] = "run"
  /\ Post(j, "failed")
  /\ \/ Goto(j, "except")
     \/ Answers(j) /\ Goto(j, "end")
  /\ UNCHANGED <<record, snap, acquired, sem, armed, flagged, pub, client, remote,
                 ghost>>

LastEmitted(j) ==
  /\ work[j] \in {"end", "except"} /\ Published(j)
  /\ Goto(j, "finally")
  /\ UNCHANGED <<record, snap, acquired, sem, armed, flagged, mail, pub, client,
                 remote, ghost>>

\* The loop that publishes for j is inside _on_complete_dir, which waits for
\* the lock of the library database.
LoopStuck(j) ==
  \E k \in Jobs : pub[k].step = "dir" /\ (k = j \/ (~OwnLoop(k) /\ ~OwnLoop(j)))

\* result(timeout=5.0) expires.  Inside the try the error is reported by a
\* second emit; from the except clause the exception escapes.
EmitTimeout(j) ==
  /\ work[j] \in {"stage", "end", "except"}
  /\ ~Published(j) /\ LoopStuck(j)
  /\ late' = late \cup {j}
  /\ IF work[j] = "except"
     THEN Goto(j, "finally") /\ UNCHANGED mail
     ELSE Goto(j, "except") /\ Post(j, "failed")
  /\ UNCHANGED <<record, snap, acquired, sem, armed, flagged, pub, client, remote,
                 timely, jolted, crossed>>

\* Fault: the slot is given back only after a normal end.
FinallyKeepsSlot(j) ==
  /\ work[j] = "finally"
  /\ sem' = IF j \in acquired /\ j \notin flagged THEN sem + 1 ELSE sem
  /\ acquired' = acquired \ {j}
  /\ armed' = armed \ {j}
  /\ mail' = IF OwnLoop(j) THEN [mail EXCEPT ![j] = <<>>] ELSE mail
  /\ Goto(j, "done")
  /\ UNCHANGED <<record, snap, flagged, pub, client, remote, ghost>>

\* The slot is released and the event forgotten; a loop of the job's own
\* stops, and what it has not begun to publish is lost.
Finally(j) ==
  /\ work[j] = "finally"
  /\ sem' = IF j \in acquired THEN sem + 1 ELSE sem
  /\ acquired' = acquired \ {j}
  /\ armed' = armed \ {j}
  /\ mail' = IF OwnLoop(j) THEN [mail EXCEPT ![j] = <<>>] ELSE mail
  /\ Goto(j, "done")
  /\ UNCHANGED <<record, snap, flagged, pub, client, remote, ghost>>

-----------------------------------------------------------------------------
(* publish, on the loop of the job. *)

\* The main loop runs one coroutine at a time, and publish never suspends.
MainLoopFree == \A k \in Jobs : OwnLoop(k) \/ pub[k].step = "idle"

\* The record is updated.  publish of a pruned job raises KeyError, which
\* ends the worker's wait.
BeginPublish(j) ==
  /\ mail[j] # <<>> /\ pub[j].step = "idle"
  /\ OwnLoop(j) \/ MainLoopFree
  /\ mail' = [mail EXCEPT ![j] = Tail(@)]
  /\ LET ev == Head(mail[j]) IN
     /\ status' = IF status[j] = "gone" THEN status
                  ELSE [status EXCEPT ![j] = IF ev = "stage" THEN "running" ELSE ev]
     /\ pub' = IF status[j] = "gone" \/ ev = "stage" THEN pub
               ELSE [pub EXCEPT ![j] =
                       [ev |-> ev, i |-> 1,
                        step |-> IF ev = "complete" /\ HasAudio(j) THEN "dir" ELSE "event"]]
  /\ UNCHANGED <<kind, result, order, queues, snap, worker, client, remote, ghost>>

\* _on_complete_dir returns.
DirRegistered(j) ==
  /\ pub[j].step = "dir"
  /\ pub' = [pub EXCEPT ![j].step = "event"]
  /\ UNCHANGED <<record, snap, worker, mail, client, remote, ghost>>

\* _on_complete_dir raises (register_dir fails, no thread can be started) and
\* the exception leaves publish: no queue is served and a worker that still
\* waits reports the error, of a job that is complete.
DirRaises(j) ==
  /\ pub[j].step = "dir"
  /\ pub' = [pub EXCEPT ![j] = Idle]
  /\ late' = late \cup {j}
  /\ IF work[j] = "end"
     THEN Goto(j, "except") /\ Post(j, "failed") /\ UNCHANGED jolted
     ELSE jolted' = jolted \cup {j} /\ UNCHANGED <<work, mail>>
  /\ UNCHANGED <<record, snap, acquired, sem, armed, flagged, client, remote, timely,
                 crossed>>

\* The two loops over the list of queues: the event, then the sentinel.  The
\* list is live, a stream that leaves shifts those behind it.
Put(j) ==
  /\ pub[j].step \in {"event", "end"}
  /\ IF pub[j].i <= Len(queues[j])
     THEN /\ inbox' = [inbox EXCEPT ![queues[j][pub[j].i]] =
                         Append(@, IF pub[j].step = "event" THEN pub[j].ev ELSE "None")]
          /\ pub' = [pub EXCEPT ![j].i = @ + 1]
     ELSE /\ pub' = [pub EXCEPT ![j] = IF pub[j].step = "event"
                                       THEN [@ EXCEPT !.step = "end", !.i = 1]
                                       ELSE Idle]
          /\ UNCHANGED inbox
  /\ UNCHANGED <<record, snap, worker, mail, at, left, remote, ghost>>

-----------------------------------------------------------------------------
(* Streams and polls. *)

\* stream_job has found the job (it may be pruned by now); the generator
\* starts and subscribe appends a queue.
Attach(s, j) ==
  /\ s \in Watchers[kind[j]] /\ at[s] = NoJob /\ work[j] # "none" /\ MainLoopFree
  /\ at' = [at EXCEPT ![s] = j]
  /\ queues' = [queues EXCEPT ![j] = Append(@, s)]
  /\ timely' = IF status[j] \in {"pending", "running"} THEN timely \cup {s} ELSE timely
  /\ UNCHANGED <<kind, status, result, order, snap, worker, mail, pub, inbox, left,
                 remote, jolted, late, crossed>>

\* The finally clause of subscribe.
Leave(s) ==
  LET j == at[s] IN
  /\ left' = left \cup {s}
  /\ queues' = [queues EXCEPT ![j] = RemoveFirst(@, s)]
  /\ jolted' = IF pub[j].step \in {"event", "end"} THEN jolted \cup {j} ELSE jolted

\* q.get(): an event is sent on, the sentinel ends the stream.
Receive(s) ==
  /\ s \notin left /\ inbox[s] # <<>> /\ MainLoopFree
  /\ inbox' = [inbox EXCEPT ![s] = Tail(@)]
  /\ IF Head(inbox[s]) = "None" THEN Leave(s) ELSE UNCHANGED <<left, queues, jolted>>
  /\ UNCHANGED <<kind, status, result, order, snap, worker, mail, pub, at, remote,
                 timely, late, crossed>>

Disconnect(s) ==
  /\ s \notin left /\ at[s] # NoJob /\ MainLoopFree
  /\ Leave(s)
  /\ UNCHANGED <<kind, status, result, order, snap, worker, mail, pub, inbox, at,
                 remote, timely, late, crossed>>

\* The hub's own job ends.
HubEnds(j) ==
  /\ kind[j] = "ask_hub" /\ work[j] = "done" /\ hub[j] = "running"
  /\ \E e \in Ended : hub' = [hub EXCEPT ![j] = e]
  /\ UNCHANGED <<record, snap, worker, mail, pub, client, reply, ghost>>

\* get_job of a proxied ask that has not ended: the hub is asked, and it
\* answers or is not reached.
Poll(p, j) ==
  /\ reply[p] = NoReply
  /\ kind[j] = "ask_hub" /\ work[j] = "done" /\ status[j] = "running"
  /\ \E answer \in {hub[j], "lost"} :
       reply' = [reply EXCEPT ![p] = [job |-> j, status |-> answer]]
  /\ crossed' = IF \E q \in Pollers : reply[q] # NoReply /\ reply[q].job = j
                THEN crossed \cup {j} ELSE crossed
  /\ UNCHANGED <<record, snap, worker, mail, pub, client, hub, timely, jolted, late>>

\* The fields are overwritten with what the hub has sent: the result, which
\* is there once the hub's job is complete, and the status if it has ended.
\* Without an answer the job has failed.
PollApply(p) ==
  /\ reply[p] # NoReply
  /\ LET r == reply[p] IN
     /\ result' = IF r.status = "lost" THEN result
                  ELSE [result EXCEPT ![r.job] = r.status = "complete"]
     /\ status' = IF r.status = "running" \/ status[r.job] = "gone" THEN status
                  ELSE [status EXCEPT ![r.job] =
                          IF r.status = "complete" THEN "complete" ELSE "failed"]
  /\ reply' = [reply EXCEPT ![p] = NoReply]
  /\ UNCHANGED <<kind, order, queues, snap, worker, mail, pub, client, hub, ghost>>

-----------------------------------------------------------------------------
RouteStep(j) == PruneKey(j) \/ Launch(j) \/ LaunchProxy(j)
Run(j) ==
  \/ Transcribed(j) \/ Recorded(j) \/ Summarized(j) \/ Migrated(j) \/ Answered(j)
  \/ Fail(j)
WorkerStep(j) ==
  \/ Start(j) \/ StageEmitted(j) \/ CancelQueued(j) \/ Run(j)
  \/ LastEmitted(j) \/ EmitTimeout(j) \/ Finally(j)
LoopStep(j) == BeginPublish(j) \/ DirRegistered(j) \/ DirRaises(j) \/ Put(j)

Next ==
  \/ \E j \in Jobs :
       \/ Create(j) \/ RouteStep(j) \/ SetEvent(j) \/ WorkerStep(j) \/ AcquireQueued(j)
       \/ LoopStep(j) \/ HubEnds(j)
  \/ \E s \in Streams : Receive(s) \/ Disconnect(s)
  \/ \E s \in Streams, j \in Jobs : Attach(s, j)
  \/ \E p \in Pollers : PollApply(p)
  \/ \E p \in Pollers, j \in Jobs : Poll(p, j)

Spec == Init /\ [][Next]_vars

\* Threads and loops are scheduled, models finish, and the library lock is
\* given back.  A waiting semaphore is woken in turn.
FairSpec ==
  /\ Spec
  /\ \A j \in Jobs \ Past : /\ WF_vars(RouteStep(j)) /\ WF_vars(WorkerStep(j))
                            /\ WF_vars(LoopStep(j)) /\ SF_vars(AcquireQueued(j))

-----------------------------------------------------------------------------
\* The semaphore and the workers that hold a slot always add up, whatever
\* exceptions, cancellations and timeouts end the jobs: a leaked slot would
\* stop every later transcription.
SlotsAccounted == sem + Cardinality(acquired) = Slots

\* A GET that reports a finished ask or migration also has its result.  Two
\* overlapping polls of a proxied ask are excepted: the hub's older answer,
\* applied last, clears the result of a job that is complete, and a job that
\* has ended is not polled again, so that nothing heals it.
AnswerBeforeComplete ==
  \A j \in Jobs \ crossed :
    status[j] = "complete" /\ kind[j] \in {"ask", "migrate", "ask_hub"} => result[j]

\* _prune: "in-flight jobs and attached SSE streams are never disturbed".
PruneSpares ==
  \A s \in timely \ left : status[at[s]] # "gone"

\* A job that has ended does not run again, and a failure is final unless
\* polls of a proxied ask overlapped; else only a worker whose emit has timed
\* out, or whose job's folder could not be registered, turns a complete job
\* into a failed one.
StatusForward ==
  [][\A j \in Jobs \ crossed :
       /\ status[j] = "failed" => status'[j] \in {"failed", "gone"}
       /\ status[j] = "complete" =>
            \/ status'[j] \in {"complete", "gone"}
            \/ status'[j] = "failed" /\ j \in late]_vars

\* A job whose worker has been started ends, and its worker with it, unless
\* it is a recording nobody stops.
JobEnds ==
  \A j \in Jobs \ Past :
    (work[j] = "launched" /\ (kind[j] = "record" => j \in flagged))
      ~> (work[j] = "done" /\ status[j] \in Ended \cup {"gone"})

\* A stream that was attached before its job ended has the sentinel waiting
\* once nothing is left to publish, unless another stream left while the
\* queues were being served, or publish raised with no worker to report it.
StreamsServed ==
  \A s \in timely \ left :
    LET j == at[s] IN
      (status[j] \in Ended /\ Published(j) /\ kind[j] # "ask_hub" /\ j \notin jolted)
        => Contains(inbox[s], "None")

\* A stream that attached in time is neither pruned away nor left without its
\* end.
StreamsKept == TypeOK /\ PruneSpares /\ StreamsServed

ASSUME JobAssumption ==
  /\ Watchers \in [Kinds -> SUBSET Streams]
  /\ KindChoices \subseteq [Jobs -> Kinds]
  /\ Slots \in Nat \ {0} /\ MaxJobs \in Nat
  /\ NoJob \notin Jobs /\ Past \subseteq Jobs /\ IsFiniteSet(Past)
  /\ \A r \in [job : Jobs, status : {"running", "lost"} \cup Ended] : r # NoReply
=============================================================================
