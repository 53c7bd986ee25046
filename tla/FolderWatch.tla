---------------------------- MODULE FolderWatch ----------------------------
(***************************************************************************)
(* The folder watcher.                                                     *)
(*                                                                         *)
(* A request starts a thread that observes a directory.  Files that are    *)
(* created or modified wait in a queue until they have been quiet for the  *)
(* debounce time; the thread then hands each one over for transcription,   *)
(* or copies it into the hub's outbox, unless its sidecar is newer than    *)
(* the audio.  Jobs and edits write sidecars meanwhile (JobRunner,         *)
(* HubEdits); the clock is that of the file system.                        *)
(*                                                                         *)
(* Source: speechtotext/api/watcher.py, routes_watch.py, ingest/watch.py.  *)
(***************************************************************************)
EXTENDS Naturals, Sequences, SequencesExt

CONSTANTS
  Files,       \* audio files of the directory
  Runs,        \* POST /watch/start requests, and the threads they create
  Stoppers,    \* POST /watch/stop requests
  None,
  MaxTime,     \* bound: ticks of the file system's clock
  MaxWrites,   \* bound: versions of audio written
  MaxRacedWrites, \* bound: the same, once two starts have overlapped
  MaxFaults    \* bound: edits, removals and failures

VARIABLES
  now, writes, faults,
  audio,     \* audio[f]: [v, m], version and mtime; v = 0 when there is no file
  sidecar,   \* sidecar[f]: the version its transcript is of, and its mtime
  sent,      \* sent[f]: the version last copied to the outbox of the hub
  jobs,      \* transcriptions in progress, in the order they were created
  rpc,       \* rpc[w]: where the start request is
  th,        \* th[w]: the thread of the request
  flag,      \* threads whose stop event is set
  ctlStop,   \* the controller's _stop: the thread whose event it is
  ctlThread, \* the controller's _thread
  stopped,   \* stop requests that have been made
  events,    \* events[w]: file events the observer has not yet delivered
  pending,   \* pending[w]: keys of _pending, in order
  ripe,      \* ripe[w]: how many of them have been quiet for long enough
  batch,     \* batch[w]: what drain_ready returned
  owed,      \* ghost: files whose last version was written under a watcher
  raced      \* ghost: two starts have overlapped

disk == <<audio, sidecar, sent>>
control == <<rpc, th, flag, ctlStop, ctlThread, stopped>>
queue == <<events, pending, ripe, batch>>
bounds == <<now, writes, faults>>
watchVars == <<bounds, disk, jobs, control, queue, owed, raced>>

Stamp == [v : 0..MaxWrites, m : 0..MaxTime]
Nothing == [v |-> 0, m |-> 0]

WatchTypeOK ==
  /\ now \in 0..MaxTime /\ writes \in 0..MaxWrites /\ faults \in 0..MaxFaults
  /\ audio \in [Files -> Stamp] /\ sidecar \in [Files -> Stamp]
  /\ sent \in [Files -> 0..MaxWrites]
  /\ jobs \in Seq([f : Files, read : BOOLEAN, v : 0..MaxWrites])
  /\ rpc \in [Runs -> {"idle", "checked", "armed", "assigned", "over"}]
  /\ th \in [Runs -> {"none", "starting", "live", "ended"}]
  /\ flag \subseteq Runs
  /\ ctlStop \in Runs \cup {None} /\ ctlThread \in Runs \cup {None}
  /\ stopped \subseteq Stoppers
  /\ events \in [Runs -> SUBSET Files]
  /\ pending \in [Runs -> Seq(Files)] /\ batch \in [Runs -> Seq(Files)]
  /\ ripe \in [Runs -> Nat]
  /\ \A w \in Runs : IsInjective(pending[w]) /\ ripe[w] <= Len(pending[w])
  /\ owed \subseteq Files /\ raced \in BOOLEAN

\* Audio written before the watch begins is not looked at.
WatchInit ==
  /\ now = 0 /\ writes = 0 /\ faults = 0
  /\ audio = [f \in Files |-> Nothing] /\ sidecar = audio
  /\ sent = [f \in Files |-> 0]
  /\ jobs = <<>>
  /\ rpc = [w \in Runs |-> "idle"] /\ th = [w \in Runs |-> "none"]
  /\ flag = {} /\ ctlStop = None /\ ctlThread = None
  /\ stopped = {}
  /\ events = [w \in Runs |-> {}]
  /\ pending = [w \in Runs |-> <<>>] /\ batch = pending
  /\ ripe = [w \in Runs |-> 0]
  /\ owed = {} /\ raced = FALSE

Fault == faults < MaxFaults /\ faults' = faults + 1

Tick ==
  /\ now < MaxTime /\ now' = now + 1
  /\ UNCHANGED <<writes, faults, disk, jobs, control, queue, owed, raced>>

-----------------------------------------------------------------------------
(* The directory. *)

Alive == {w \in Runs : th[w] \in {"starting", "live"}}
Observing == {w \in Runs : th[w] = "live"}

\* A recorder creates or changes a file.
Write(f) ==
  /\ writes < (IF raced THEN MaxRacedWrites ELSE MaxWrites) /\ writes' = writes + 1
  /\ audio' = [audio EXCEPT ![f] = [v |-> writes', m |-> now]]
  /\ events' = [w \in Runs |-> IF w \in Observing THEN events[w] \cup {f} ELSE events[w]]
  /\ owed' = IF Observing # {} THEN owed \cup {f} ELSE owed \ {f}
  /\ UNCHANGED <<now, faults, sidecar, sent, jobs, control, pending, ripe, batch, raced>>

\* A deletion is no event the handler listens to.
Vanish(f) ==
  /\ audio[f].v # 0 /\ Fault
  /\ audio' = [audio EXCEPT ![f] = Nothing]
  /\ owed' = owed \ {f}
  /\ UNCHANGED <<now, writes, sidecar, sent, jobs, control, queue, raced>>

\* A PATCH, a relabel or a summary rewrites the sidecar.
Edit(f) ==
  /\ sidecar[f].v # 0 /\ Fault
  /\ sidecar' = [sidecar EXCEPT ![f].m = now]
  /\ UNCHANGED <<now, writes, audio, sent, jobs, control, queue, owed, raced>>

-----------------------------------------------------------------------------
(* POST /watch/start and /watch/stop. *)

Running == ctlThread # None /\ ctlThread \in Alive

\* Requests that have found no thread and not started theirs.
Starting == {w \in Runs : rpc[w] \in {"checked", "armed", "assigned"}}

\* Fault: start() does not look whether a watcher is running.
StartCheckNot(w) ==
  /\ rpc[w] = "idle"
  /\ rpc' = [rpc EXCEPT ![w] = "checked"]
  /\ raced' = (raced \/ Starting # {})
  /\ UNCHANGED <<bounds, disk, jobs, th, flag, ctlStop, ctlThread, stopped, queue, owed>>

\* start(): 409 while a thread is alive.  Nothing keeps a second request out
\* between this test and the start of the thread.
StartCheck(w) ==
  /\ rpc[w] = "idle"
  /\ rpc' = [rpc EXCEPT ![w] = IF Running THEN "over" ELSE "checked"]
  /\ raced' = (raced \/ (~Running /\ Starting # {}))
  /\ UNCHANGED <<bounds, disk, jobs, th, flag, ctlStop, ctlThread, stopped, queue, owed>>

StartArm(w) ==
  /\ rpc[w] = "checked"
  /\ rpc' = [rpc EXCEPT ![w] = "armed"]
  /\ ctlStop' = w
  /\ UNCHANGED <<bounds, disk, jobs, th, flag, ctlThread, stopped, queue, owed, raced>>

StartAssign(w) ==
  /\ rpc[w] = "armed"
  /\ rpc' = [rpc EXCEPT ![w] = "assigned"]
  /\ ctlThread' = w
  /\ UNCHANGED <<bounds, disk, jobs, th, flag, ctlStop, stopped, queue, owed, raced>>

\* self._thread.start(), of whatever thread is there now: a second start of
\* one thread is a RuntimeError (409).
StartThread(w) ==
  /\ rpc[w] = "assigned"
  /\ rpc' = [rpc EXCEPT ![w] = "over"]
  /\ th' = IF th[ctlThread] = "none" THEN [th EXCEPT ![ctlThread] = "starting"] ELSE th
  /\ UNCHANGED <<bounds, disk, jobs, flag, ctlStop, ctlThread, stopped, queue, owed, raced>>

\* stop() sets the event, if a thread is alive; the join has no effect.
Stop(u) ==
  /\ u \notin stopped /\ stopped' = stopped \cup {u}
  /\ flag' = IF Running /\ ctlStop # None THEN flag \cup {ctlStop} ELSE flag
  /\ UNCHANGED <<bounds, disk, jobs, rpc, th, ctlStop, ctlThread, queue, owed, raced>>

-----------------------------------------------------------------------------
(* The thread and its observer. *)

\* observer.start().
Observe(w) ==
  /\ th[w] = "starting"
  /\ th' = [th EXCEPT ![w] = "live"]
  /\ UNCHANGED <<bounds, disk, jobs, rpc, flag, ctlStop, ctlThread, stopped, queue, owed, raced>>

\* Fault: a file that is already waiting is entered again.
EnqueueTwice(w, f) == pending' = [pending EXCEPT ![w] = Append(@, f)] /\ UNCHANGED ripe

\* _pending[path] = now and move_to_end: the file is quiet anew.
Enqueue(w, f) ==
  /\ pending' = [pending EXCEPT ![w] = Append(RemoveFirst(@, f), f)]
  /\ ripe' = [ripe EXCEPT ![w] = IF \E i \in 1..@ : pending[w][i] = f THEN @ - 1 ELSE @]

\* on_created and on_modified.
Deliver(w, f) ==
  /\ th[w] = "live" /\ f \in events[w]
  /\ events' = [events EXCEPT ![w] = @ \ {f}]
  /\ Enqueue(w, f)
  /\ UNCHANGED <<bounds, disk, jobs, control, batch, owed, raced>>

\* The debounce time of the oldest waiting file is over.
Ripen(w) ==
  /\ ripe[w] < Len(pending[w])
  /\ ripe' = [ripe EXCEPT ![w] = @ + 1]
  /\ UNCHANGED <<bounds, disk, jobs, control, events, pending, batch, owed, raced>>

\* The thread ends, and what it was still to do is forgotten.
End(w) ==
  /\ th' = [th EXCEPT ![w] = "ended"]
  /\ events' = [events EXCEPT ![w] = {}]
  /\ pending' = [pending EXCEPT ![w] = <<>>] /\ ripe' = [ripe EXCEPT ![w] = 0]
  /\ batch' = [batch EXCEPT ![w] = <<>>]
  /\ owed' = owed \ (events[w] \cup ToSet(pending[w]) \cup ToSet(batch[w]))

StopSeen(w) ==
  /\ th[w] = "live" /\ batch[w] = <<>> /\ w \in flag
  /\ End(w)
  /\ UNCHANGED <<bounds, disk, jobs, rpc, flag, ctlStop, ctlThread, stopped, raced>>

\* Fault: everything is popped, and only what is ready returned.
DrainDrops(w) ==
  /\ th[w] = "live" /\ batch[w] = <<>> /\ w \notin flag /\ ripe[w] > 0
  /\ batch' = [batch EXCEPT ![w] = SubSeq(pending[w], 1, ripe[w])]
  /\ pending' = [pending EXCEPT ![w] = <<>>]
  /\ ripe' = [ripe EXCEPT ![w] = 0]
  /\ UNCHANGED <<bounds, disk, jobs, control, events, owed, raced>>

\* Fault: the last of the quiet files is left for the next one to come.
DrainLeavesLast(w) ==
  /\ th[w] = "live" /\ batch[w] = <<>> /\ w \notin flag /\ ripe[w] > 1
  /\ batch' = [batch EXCEPT ![w] = SubSeq(pending[w], 1, ripe[w] - 1)]
  /\ pending' = [pending EXCEPT ![w] = SubSeq(@, ripe[w], Len(@))]
  /\ ripe' = [ripe EXCEPT ![w] = 1]
  /\ UNCHANGED <<bounds, disk, jobs, control, events, owed, raced>>

\* drain_ready.
Drain(w) ==
  /\ th[w] = "live" /\ batch[w] = <<>> /\ w \notin flag /\ ripe[w] > 0
  /\ batch' = [batch EXCEPT ![w] = SubSeq(pending[w], 1, ripe[w])]
  /\ pending' = [pending EXCEPT ![w] = SubSeq(@, ripe[w] + 1, Len(@))]
  /\ ripe' = [ripe EXCEPT ![w] = 0]
  /\ UNCHANGED <<bounds, disk, jobs, control, events, owed, raced>>

\* should_process.
ShouldProcess(f) == sidecar[f].v = 0 \/ audio[f].m > sidecar[f].m

\* The sidecar is there and the audio is not: its stat raises.
StatFails(f) == sidecar[f].v # 0 /\ audio[f].v = 0

\* _on_ready: the file goes to the hub's outbox, or a job is created, or it
\* is up to date.
Handle(w) ==
  /\ batch[w] # <<>>
  /\ LET f == Head(batch[w]) IN
     /\ ~StatFails(f)
     /\ \/ /\ ShouldProcess(f) /\ audio[f].v # 0
           /\ sent' = [sent EXCEPT ![f] = audio[f].v]
           /\ UNCHANGED jobs
        \/ /\ ShouldProcess(f)
           /\ jobs' = Append(jobs, [f |-> f, read |-> FALSE, v |-> 0])
           /\ UNCHANGED sent
        \/ /\ ~ShouldProcess(f)
           /\ UNCHANGED <<sent, jobs>>
  /\ batch' = [batch EXCEPT ![w] = Tail(@)]
  /\ UNCHANGED <<bounds, audio, sidecar, control, events, pending, ripe, owed, raced>>

\* _on_ready raises, for a file that is gone or a job or a copy that cannot
\* be made: the thread ends with an error event.
Raise(w) ==
  /\ batch[w] # <<>>
  /\ IF StatFails(Head(batch[w])) THEN UNCHANGED faults ELSE Fault
  /\ End(w)
  /\ UNCHANGED <<now, writes, disk, jobs, rpc, flag, ctlStop, ctlThread, stopped, raced>>

-----------------------------------------------------------------------------
(* Transcriptions. *)

\* The audio is normalised; without it the job fails.
JobRead(i) ==
  /\ ~jobs[i].read
  /\ LET v == audio[jobs[i].f].v IN
     jobs' = IF v = 0 THEN RemoveAt(jobs, i)
             ELSE [jobs EXCEPT ![i].read = TRUE, ![i].v = v]
  /\ UNCHANGED <<bounds, disk, control, queue, owed, raced>>

JobWrite(i) ==
  /\ jobs[i].read
  /\ sidecar' = [sidecar EXCEPT ![jobs[i].f] = [v |-> jobs[i].v, m |-> now]]
  /\ jobs' = RemoveAt(jobs, i)
  /\ UNCHANGED <<bounds, audio, sent, control, queue, owed, raced>>

\* An error, or a cancellation: nothing tries again.
JobFails(i) ==
  /\ jobs[i].read /\ Fault
  /\ jobs' = RemoveAt(jobs, i)
  /\ owed' = IF jobs[i].v = audio[jobs[i].f].v THEN owed \ {jobs[i].f} ELSE owed
  /\ UNCHANGED <<now, writes, disk, control, queue, raced>>

-----------------------------------------------------------------------------
ThreadStep(w) == Observe(w) \/ Ripen(w) \/ StopSeen(w) \/ Drain(w) \/ Handle(w) \/ Raise(w)
JobStep == \E i \in DOMAIN jobs : JobRead(i) \/ JobWrite(i) \/ JobFails(i)

WatchNext ==
  \/ Tick
  \/ \E f \in Files : Write(f) \/ Vanish(f) \/ Edit(f)
  \/ \E w \in Runs : StartCheck(w) \/ StartArm(w) \/ StartAssign(w) \/ StartThread(w)
  \/ \E u \in Stoppers : Stop(u)
  \/ \E w \in Runs : ThreadStep(w) \/ \E f \in Files : Deliver(w, f)
  \/ JobStep

WatchSpec == WatchInit /\ [][WatchNext]_watchVars

\* Observer and watcher threads are scheduled, time passes, models finish.
FairWatchSpec ==
  /\ WatchSpec
  /\ \A w \in Runs : WF_watchVars(ThreadStep(w)) /\ \A f \in Files : WF_watchVars(Deliver(w, f))
  /\ WF_watchVars(JobStep)

-----------------------------------------------------------------------------
Current(f) == audio[f].v \in {sidecar[f].v, sent[f]}

\* The sidecar of an older version is no older than the audio: it was written,
\* or edited, after the audio had changed.
Masked(f) == ~Current(f) /\ sidecar[f].v # 0 /\ audio[f].m <= sidecar[f].m

InWork(f) ==
  \/ \E w \in Observing : f \in events[w] \cup ToSet(pending[w]) \cup ToSet(batch[w])
  \/ \E i \in DOMAIN jobs :
       /\ jobs[i].f = f
       /\ jobs[i].read => jobs[i].v = audio[f].v

\* The last version of a file written under a watcher is transcribed, sent to
\* the hub, or on its way there, whatever jobs, edits and other files do;
\* except when a sidecar of an older version was written after it, its own
\* job failed, or the watcher ended with the file waiting.
NoFileForgotten == \A f \in owed : Current(f) \/ Masked(f) \/ InWork(f)

\* ... and it gets there.
FileTranscribed == \A f \in Files : f \in owed ~> (f \notin owed \/ Current(f) \/ Masked(f))

\* A thread that nobody has told to stop is the one stop() reaches and start()
\* refuses to double; except after two overlapping starts.
ThreadControlled ==
  ~raced => \A w \in Alive \ flag : w = ctlThread /\ w = ctlStop

ASSUME WatchAssumption ==
  /\ MaxTime \in Nat /\ MaxWrites \in Nat /\ MaxRacedWrites \in 0..MaxWrites /\ MaxFaults \in Nat
  /\ None \notin Runs
=============================================================================
