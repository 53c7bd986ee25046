------------------------------ MODULE HubEdits ------------------------------
(***************************************************************************)
(* Edits of transcripts on the hub.                                        *)
(*                                                                         *)
(* Request threads of the API apply CRDT ops (PATCH /transcripts/{tid}),   *)
(* bulk relabels, summaries and imports to the JSON sidecars on disk.      *)
(* Every one of them is a read-modify-write of a file under the lock of    *)
(* its transcript; a transcription job writes the same files without the   *)
(* lock.  The Lamport counter of the workspace lives in workspace.json,    *)
(* which all transcripts share and no lock protects.                       *)
(*                                                                         *)
(* Sources: speechtotext/api/crdt.py, workspace.py, routes_transcripts.py, *)
(* routes_import.py, runner.py (summarize, transcribe), relabel.py,        *)
(* writer.py.                                                              *)
(***************************************************************************)
EXTENDS Integers, Sequences, FiniteSets

CONSTANTS
  Transcripts,    \* transcript ids (file stems)
  Existing,       \* the transcripts that have a sidecar at the start
  SpeakerKeys,    \* keys "speakers.<id>"
  TitleKeys,      \* the key "title"
  SegmentKeys,    \* keys "segments.<i>.text"
  Values,         \* texts a client may set
  Null,           \* JSON null, or no value at the key
  Empty,          \* the empty string
  Devices,        \* device ids, numbered in their string order
  Observed,       \* values of lamport_observed a client may send
  ImportDocs,     \* documents a device may import
  Threads,        \* request threads and job threads of the hub process
  NoThread, NoClock, NoDoc, NoJob,
  Disturbances,   \* which of "crash", "io", "transcribe" happen
  MaxOps          \* bound: requests started in a behaviour

Keys == SpeakerKeys \cup TitleKeys \cup SegmentKeys

OP_RELABEL == "relabel"
OP_SET_TITLE == "set_title"
OP_EDIT_SEGMENT == "edit_segment"
SUPPORTED_OPS == {OP_RELABEL, OP_SET_TITLE, OP_EDIT_SEGMENT}
OpNames == SUPPORTED_OPS \cup {"unsupported"}

Texts == Values \cup {Null, Empty}

\* Clock: the ts field is display only and left out.
Clock == [device : Devices, lamport : Nat]

\* Op: from_value and ts are informational and left out.
Op == [op : SUPPORTED_OPS, key : Keys, value : Values \cup {Null},
       device : Devices, lamport : Nat]

\* A sidecar: the value at each key (Null: no such speaker, title or
\* segment), _clocks, _history and summary.
Doc == [vals : [Keys -> Texts], clocks : [Keys -> Clock \cup {NoClock}],
        history : Seq(Op), summary : Values \cup {Null}]

\* A PATCH body with the verified device of the request.
OpRequest == [op : OpNames, key : Keys, value : Values \cup {Null},
              device : Devices, lamport_observed : Observed]

ClockOf(o) == [device |-> o.device, lamport |-> o.lamport]

\* Clock.beats
beats(c, other) ==
  \/ other = NoClock
  \/ c.lamport > other.lamport
  \/ c.lamport = other.lamport /\ c.device > other.device

\* The str() coercion of _apply_value: null clears a title and empties text.
Coerce(k, v) == IF v = Null /\ k \notin TitleKeys THEN Empty ELSE v

\* Fault: the key is checked and the op name is not.
ValidateKeyOnly(doc, r) ==
  r.key \in SegmentKeys => doc.vals[r.key] # Null

\* _validate_key and the checks at the top of merge_op
ValidateKey(doc, r) ==
  \/ r.op = OP_RELABEL /\ r.key \in SpeakerKeys
  \/ r.op = OP_SET_TITLE /\ r.key \in TitleKeys
  \/ r.op = OP_EDIT_SEGMENT /\ r.key \in SegmentKeys /\ doc.vals[r.key] # Null

\* max(hub_lamport, request.lamport_observed) + 1
NewLamport(hub, r) ==
  (IF hub > r.lamport_observed THEN hub ELSE r.lamport_observed) + 1

OpOf(r, lamport) ==
  [op |-> r.op, key |-> r.key, value |-> r.value, device |-> r.device,
   lamport |-> lamport]

\* Fault: an op that loses is not logged.
MergeUnlogged(doc, r, lamport) ==
  LET o == OpOf(r, lamport) IN
  IF beats(ClockOf(o), doc.clocks[r.key])
  THEN [doc EXCEPT !.vals[r.key] = Coerce(r.key, r.value),
                   !.clocks[r.key] = ClockOf(o), !.history = Append(@, o)]
  ELSE doc

\* Fault: an op that loses still changes the value.
MergeApplyLoser(doc, r, lamport) ==
  LET o == OpOf(r, lamport) IN
  [doc EXCEPT !.vals[r.key] = Coerce(r.key, r.value),
              !.clocks[r.key] = IF beats(ClockOf(o), @) THEN ClockOf(o) ELSE @,
              !.history = Append(@, o)]

\* merge_op: the new document.  Losing ops are logged and change nothing.
merge_op(doc, r, lamport) ==
  LET o == OpOf(r, lamport)
      apply == beats(ClockOf(o), doc.clocks[r.key])
  IN [vals    |-> IF apply THEN [doc.vals EXCEPT ![r.key] = Coerce(r.key, r.value)]
                           ELSE doc.vals,
      clocks  |-> IF apply THEN [doc.clocks EXCEPT ![r.key] = ClockOf(o)]
                           ELSE doc.clocks,
      history |-> Append(doc.history, o),
      summary |-> doc.summary]

\* relabel: the mapping m is written over the speakers; clocks and history
\* are not touched.
relabel(doc, m) ==
  [doc EXCEPT !.vals = [k \in Keys |-> IF k \in DOMAIN m THEN m[k] ELSE doc.vals[k]]]

Mappings == UNION {[ks -> Values] : ks \in SUBSET SpeakerKeys \ {{}}}

\* write_transcript: what a transcription of text v leaves in the sidecar.
FreshDoc(v) ==
  [vals    |-> [k \in Keys |-> IF k \in TitleKeys THEN Null ELSE v],
   clocks  |-> [k \in Keys |-> NoClock],
   history |-> << >>,
   summary |-> Null]

\* The .txt sidecar shows speakers and segments, and no title.
Render(doc) == [k \in Keys |-> IF k \in TitleKeys THEN Null ELSE doc.vals[k]]

VARIABLES
  docs,     \* docs[t]: the JSON sidecar on disk, NoDoc when there is none
  txt,      \* txt[t]: what the .txt sidecar on disk shows
  counter,  \* lamport_counter in workspace.json
  lock,     \* lock[t]: the thread that holds the lock of t
  pc,       \* pc[th]: where the thread is in its handler
  job,      \* job[th]: [kind, tid, req] of the request in progress
  new,      \* new[th]: the document read, and then the one to be written
  lam,      \* lam[th]: the Lamport assigned by merge_op
  cur,      \* cur[th]: the counter bump_lamport_to has loaded
  acked,    \* ops whose PATCH was answered, by transcript
  redone,   \* transcripts that a transcription has replaced
  ops       \* requests started

vars == <<docs, txt, counter, lock, pc, job, new, lam, cur, acked, redone, ops>>

Kinds == {"patch", "relabel", "summarize", "import", "transcribe"}
PCs == {"idle", "read", "merged", "bump", "json", "txt", "tjson"}
Job == [kind : Kinds, tid : Transcripts, req : OpRequest \cup {Null}]

TypeOK ==
  /\ docs \in [Transcripts -> Doc \cup {NoDoc}]
  /\ txt \in [Transcripts -> [Keys -> Texts] \cup {NoDoc}]
  /\ counter \in Nat
  /\ lock \in [Transcripts -> Threads \cup {NoThread}]
  /\ pc \in [Threads -> PCs]
  /\ job \in [Threads -> Job \cup {NoJob}]
  /\ new \in [Threads -> Doc \cup {NoDoc}]
  /\ lam \in [Threads -> Nat]
  /\ cur \in [Threads -> Nat]
  /\ acked \subseteq (Transcripts \X Op)
  /\ redone \subseteq Transcripts
  /\ ops \in Nat

Init ==
  /\ \E v \in Values :
       /\ docs = [t \in Transcripts |-> IF t \in Existing THEN FreshDoc(v) ELSE NoDoc]
       /\ txt = [t \in Transcripts |-> IF t \in Existing THEN Render(FreshDoc(v)) ELSE NoDoc]
  /\ counter = 0
  /\ lock = [t \in Transcripts |-> NoThread]
  /\ pc = [th \in Threads |-> "idle"]
  /\ job = [th \in Threads |-> NoJob]
  /\ new = [th \in Threads |-> NoDoc]
  /\ lam = [th \in Threads |-> 0]
  /\ cur = [th \in Threads |-> 0]
  /\ acked = {}
  /\ redone = {}
  /\ ops = 0

-----------------------------------------------------------------------------
\* Fault: the handler does not wait for the lock.
BeginUnlocked(th, kind, t, r, d, next) ==
  /\ pc[th] = "idle"
  /\ ops < MaxOps
  /\ lock' = [lock EXCEPT ![t] = th]
  /\ job' = [job EXCEPT ![th] = [kind |-> kind, tid |-> t, req |-> r]]
  /\ new' = [new EXCEPT ![th] = d]
  /\ pc' = [pc EXCEPT ![th] = next]
  /\ ops' = ops + 1
  /\ UNCHANGED <<docs, txt, counter, lam, cur, acked, redone>>

\* Taking the lock of t and beginning a request with document d in hand.
Begin(th, kind, t, r, d, next) ==
  /\ pc[th] = "idle"
  /\ ops < MaxOps
  /\ lock[t] = NoThread
  /\ lock' = [lock EXCEPT ![t] = th]
  /\ job' = [job EXCEPT ![th] = [kind |-> kind, tid |-> t, req |-> r]]
  /\ new' = [new EXCEPT ![th] = d]
  /\ pc' = [pc EXCEPT ![th] = next]
  /\ ops' = ops + 1
  /\ UNCHANGED <<docs, txt, counter, lam, cur, acked, redone>>

\* Leaving the handler: the "with lock" block is left, the thread is free.
Leave(th) ==
  /\ pc' = [pc EXCEPT ![th] = "idle"]
  /\ job' = [job EXCEPT ![th] = NoJob]
  /\ new' = [new EXCEPT ![th] = NoDoc]
  /\ lam' = [lam EXCEPT ![th] = 0]
  /\ cur' = [cur EXCEPT ![th] = 0]

Unlock(th) == lock' = [t \in Transcripts |-> IF lock[t] = th THEN NoThread ELSE lock[t]]

\* patch_transcript_op up to from_json: the sidecar is read under the lock.
PatchRead(th, t, r) ==
  /\ docs[t] # NoDoc
  /\ Begin(th, "patch", t, r, docs[t], "read")

\* Fault: the 400 answer leaves the lock taken.
PatchMergeLeak(th) ==
  /\ pc[th] = "read"
  /\ LET r == job[th].req IN
     \/ /\ ValidateKey(new[th], r)
        /\ lam' = [lam EXCEPT ![th] = NewLamport(counter, r)]
        /\ new' = [new EXCEPT ![th] = merge_op(new[th], r, NewLamport(counter, r))]
        /\ pc' = [pc EXCEPT ![th] = "merged"]
        /\ UNCHANGED <<job, cur>>
     \/ ~ValidateKey(new[th], r) /\ Leave(th)
  /\ UNCHANGED <<docs, txt, counter, lock, acked, redone, ops>>

\* merge_op with get_lamport(); an invalid op answers 400 and leaves.
PatchMerge(th) ==
  /\ pc[th] = "read"
  /\ LET r == job[th].req IN
     \/ /\ ValidateKey(new[th], r)
        /\ lam' = [lam EXCEPT ![th] = NewLamport(counter, r)]
        /\ new' = [new EXCEPT ![th] = merge_op(new[th], r, NewLamport(counter, r))]
        /\ pc' = [pc EXCEPT ![th] = "merged"]
        /\ UNCHANGED <<lock, job, cur>>
     \/ /\ ~ValidateKey(new[th], r)
        /\ Unlock(th)
        /\ Leave(th)
  /\ UNCHANGED <<docs, txt, counter, acked, redone, ops>>

\* Fault: the counter is not persisted before the file is written.
BumpSkipped(th) ==
  /\ pc[th] = "merged"
  /\ pc' = [pc EXCEPT ![th] = "json"]
  /\ UNCHANGED <<docs, txt, counter, lock, job, new, lam, cur, acked, redone, ops>>

\* bump_lamport_to, first half: workspace.json is loaded again.
BumpLoad(th) ==
  /\ pc[th] = "merged"
  /\ cur' = [cur EXCEPT ![th] = counter]
  /\ pc' = [pc EXCEPT ![th] = "bump"]
  /\ UNCHANGED <<docs, txt, counter, lock, job, new, lam, acked, redone, ops>>

\* bump_lamport_to, second half: the loaded record is saved with the new
\* counter when that is larger than the loaded one.
BumpSave(th) ==
  /\ pc[th] = "bump"
  /\ counter' = IF lam[th] > cur[th] THEN lam[th] ELSE counter
  /\ pc' = [pc EXCEPT ![th] = "json"]
  /\ UNCHANGED <<docs, txt, lock, job, new, lam, cur, acked, redone, ops>>

\* PATCH /transcripts/{tid}/relabel: every speaker of the mapping must exist.
\* relabel reads the sidecar twice, for the speakers and for the rest, both under the
\* lock; a transcription that writes between the two is taken to come before or after.
RelabelRead(th, t, m) ==
  /\ docs[t] # NoDoc
  /\ \A k \in DOMAIN m : docs[t].vals[k] # Null
  /\ Begin(th, "relabel", t, Null, relabel(docs[t], m), "json")

\* run_summarize_job: the sidecar is re-read under the lock, after the
\* provider has answered, and gets the summary.
SummarizeRead(th, t, s) ==
  /\ docs[t] # NoDoc
  /\ Begin(th, "summarize", t, Null, [docs[t] EXCEPT !.summary = s], "json")

\* post_import: a transcript that exists is left alone ("exists").
ImportBegin(th, t, d) ==
  /\ docs[t] = NoDoc
  /\ Begin(th, "import", t, Null, d, "json")

\* Fault: only the .json is written.
WriteJsonOnly(th) ==
  /\ pc[th] = "json"
  /\ docs' = [docs EXCEPT ![job[th].tid] = new[th]]
  /\ Unlock(th)
  /\ Leave(th)
  /\ UNCHANGED <<txt, counter, acked, redone, ops>>

\* _atomic_write_json, or the write of relabel and of the summary.  Only the
\* summary leaves the .txt as it is.
WriteJson(th) ==
  /\ pc[th] = "json"
  /\ docs' = [docs EXCEPT ![job[th].tid] = new[th]]
  /\ \/ /\ job[th].kind # "summarize"
        /\ pc' = [pc EXCEPT ![th] = "txt"]
        /\ UNCHANGED <<lock, job, new, lam, cur>>
     \/ /\ job[th].kind = "summarize"
        /\ Unlock(th)
        /\ Leave(th)
  /\ UNCHANGED <<txt, counter, acked, redone, ops>>

\* _rewrite_txt_sidecar, the end of the locked block, and the answer.
WriteTxt(th) ==
  LET t == job[th].tid IN
  /\ pc[th] = "txt"
  /\ txt' = [txt EXCEPT ![t] = Render(new[th])]
  /\ acked' = IF job[th].kind = "patch"
              THEN acked \cup {<<t, OpOf(job[th].req, lam[th])>>}
              ELSE acked
  /\ Unlock(th)
  /\ Leave(th)
  /\ UNCHANGED <<docs, counter, redone, ops>>

\* run_transcribe_job, write stage: the .txt first, then the .json, and no
\* lock is taken.
TranscribeTxt(th, t, v) ==
  /\ "transcribe" \in Disturbances
  /\ pc[th] = "idle"
  /\ ops < MaxOps
  /\ txt' = [txt EXCEPT ![t] = Render(FreshDoc(v))]
  /\ new' = [new EXCEPT ![th] = FreshDoc(v)]
  /\ job' = [job EXCEPT ![th] = [kind |-> "transcribe", tid |-> t, req |-> Null]]
  /\ pc' = [pc EXCEPT ![th] = "tjson"]
  /\ ops' = ops + 1
  /\ UNCHANGED <<docs, counter, lock, lam, cur, acked, redone>>

\* The second half of write_transcript: the sidecar is replaced, whatever
\* edits it had, and whoever holds its lock.
TranscribeJson(th) ==
  /\ pc[th] = "tjson"
  /\ docs' = [docs EXCEPT ![job[th].tid] = new[th]]
  /\ redone' = redone \cup {job[th].tid}
  /\ Leave(th)
  /\ UNCHANGED <<txt, counter, lock, acked, ops>>

\* A read or a write of a file fails (_load, _save, _atomic_write_json,
\* _rewrite_txt_sidecar): the handler raises, the lock is released, the
\* client gets a 500 or the job an error event.
Abort(th) ==
  /\ "io" \in Disturbances
  /\ pc[th] # "idle"
  /\ Unlock(th)
  /\ Leave(th)
  /\ UNCHANGED <<docs, txt, counter, acked, redone, ops>>

\* The hub process dies and is started again: the files stay.
Crash ==
  /\ "crash" \in Disturbances
  /\ \E th \in Threads : pc[th] # "idle"
  /\ lock' = [t \in Transcripts |-> NoThread]
  /\ pc' = [th \in Threads |-> "idle"]
  /\ job' = [th \in Threads |-> NoJob]
  /\ new' = [th \in Threads |-> NoDoc]
  /\ lam' = [th \in Threads |-> 0]
  /\ cur' = [th \in Threads |-> 0]
  /\ UNCHANGED <<docs, txt, counter, acked, redone, ops>>

Step(th) ==
  \/ PatchMerge(th)
  \/ BumpLoad(th)
  \/ BumpSave(th)
  \/ WriteJson(th)
  \/ WriteTxt(th)
  \/ TranscribeJson(th)

Request(th) ==
  \E t \in Transcripts :
    \/ \E r \in OpRequest : PatchRead(th, t, r)
    \/ \E m \in Mappings : RelabelRead(th, t, m)
    \/ \E s \in Values : SummarizeRead(th, t, s)
    \/ \E d \in ImportDocs : ImportBegin(th, t, d)
    \/ \E v \in Values : TranscribeTxt(th, t, v)

Next ==
  \/ \E th \in Threads : Step(th) \/ Request(th) \/ Abort(th)
  \/ Crash

Spec == Init /\ [][Next]_vars

\* Threads are scheduled by the OS: one inside a handler keeps running.
FairSpec == Spec /\ \A th \in Threads : WF_vars(Step(th))

-----------------------------------------------------------------------------
\* The op at position i of the history is the one whose clock the key k
\* carries: nothing else on k beats it, and of equal clocks the first counts.
Wins(doc, k, i) ==
  /\ doc.history[i].key = k
  /\ doc.clocks[k] = ClockOf(doc.history[i])
  /\ \A j \in 1..Len(doc.history) : doc.history[j].key = k =>
       /\ ~beats(ClockOf(doc.history[j]), doc.clocks[k])
       /\ j < i => ClockOf(doc.history[j]) # doc.clocks[k]

WellFormed(doc) ==
  \A k \in Keys :
    \/ /\ doc.clocks[k] = NoClock
       /\ \A j \in 1..Len(doc.history) : doc.history[j].key # k
    \/ \E i \in 1..Len(doc.history) :
         /\ Wins(doc, k, i)
         /\ k \notin SpeakerKeys => doc.vals[k] = Coerce(k, doc.history[i].value)

Extends(s, u) == Len(s) <= Len(u) /\ \A i \in 1..Len(s) : s[i] = u[i]

ASSUME NumbersAssumption ==
  Devices \subseteq Nat /\ Observed \subseteq Nat /\ MaxOps \in Nat

ASSUME NullsAssumption ==
  /\ NoThread \notin Threads
  /\ NoClock \notin Clock
  /\ NoDoc \notin Doc
  /\ NoJob \notin Job

\* A device exports documents that a hub or the writer has written.
ASSUME ImportAssumption == \A d \in ImportDocs : d \in Doc /\ WellFormed(d)

-----------------------------------------------------------------------------
\* Last writer wins: whatever threads interleave and wherever the process
\* stops, the clocks of every sidecar are those of the winning op of its
\* _history (merge_op, Clock.beats), and the title and the segments show that
\* op's value.  Speakers are excepted because relabel writes them without an
\* op.
HistoryDecides == \A t \in Transcripts : docs[t] # NoDoc => WellFormed(docs[t])

\* No acknowledged edit is lost: once PATCH has answered, its op stays in the
\* transcript's _history, whatever other handlers write to the same file
\* (the per-transcript lock) and wherever the hub stops.  Transcripts that a
\* transcription has replaced are outside this promise.
AckedInHistory ==
  \A a \in acked : a[1] \notin redone =>
    /\ docs[a[1]] # NoDoc
    /\ \E i \in 1..Len(docs[a[1]].history) : docs[a[1]].history[i] = a[2]

\* The audit log is append-only: no write of a sidecar drops or rewrites a
\* recorded op, except the transcription that starts an empty log.
HistoryAppendOnly ==
  [][\A t \in Transcripts :
       docs[t] # NoDoc =>
         /\ docs'[t] # NoDoc
         /\ \/ Extends(docs[t].history, docs'[t].history)
            \/ \E v \in Values : docs'[t] = FreshDoc(v)]_vars

\* With no crash, I/O error or transcription in the way, the .txt shows what
\* the .json holds whenever no handler holds the transcript's lock.
TxtMatchesJson ==
  \A t \in Transcripts :
    lock[t] = NoThread /\ docs[t] # NoDoc => txt[t] = Render(docs[t])

\* An op that came with an imported document.
Foreign(o) ==
  \E d \in ImportDocs : \E i \in 1..Len(d.history) : d.history[i] = o

\* The counter is persisted before the sidecar: with edits of one transcript,
\* which its lock puts in a row, it is at every moment (whenever the hub may
\* stop) at least every Lamport the hub has assigned to an op on disk, so the
\* next op beats them all.
CounterDominates ==
  \A t \in Transcripts : docs[t] # NoDoc =>
    \A i \in 1..Len(docs[t].history) :
      docs[t].history[i].lamport <= counter \/ Foreign(docs[t].history[i])

\* A lock that is taken is released again on every path of a handler, error
\* answers included.
LocksReleased == \A t \in Transcripts : lock[t] # NoThread ~> lock[t] = NoThread
=============================================================================
