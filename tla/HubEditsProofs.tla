--------------------------- MODULE HubEditsProofs ---------------------------
(***************************************************************************)
(* Proofs about HubEdits: type correctness, the append-only log, that the  *)
(* log decides what a sidecar shows, that no answered edit is lost, that   *)
(* the .txt follows the .json, that the counter is never behind a log and  *)
(* that replaying a log gives what merging its ops live has given.         *)
(***************************************************************************)
EXTENDS HubReplay, FiniteSetTheorems, FunctionTheorems, WellFoundedInduction, TLAPS

\* A thread inside a handler knows its transcript and has a document in hand;
\* only a PATCH merges, and it has been validated by then.
Control ==
  \A th \in Threads :
    /\ pc[th] # "idle" => job[th] \in Job /\ new[th] \in Doc
    /\ pc[th] \in {"read", "merged", "bump"} => job[th].kind = "patch"
    /\ pc[th] # "idle" /\ job[th].kind = "patch" => job[th].req \in OpRequest
    /\ pc[th] \in {"merged", "bump", "json", "txt"} /\ job[th].kind = "patch"
         => job[th].req.op \in SUPPORTED_OPS
    /\ pc[th] = "tjson" => \E v \in Values : new[th] = FreshDoc(v)

TypeInv == TypeOK /\ Control

\* A handler past its lock holds it, and the document in its hand has at
\* least the log that is on disk.
Owner ==
  \A th \in Threads : pc[th] \notin {"idle", "tjson"} =>
    /\ lock[job[th].tid] = th
    /\ docs[job[th].tid] # NoDoc =>
         Extends(docs[job[th].tid].history, new[th].history)

\* A merged op is in the log of the document in hand, and what is in hand
\* after the write is what is on disk.
Logged ==
  \A th \in Threads :
    /\ pc[th] \in {"merged", "bump", "json", "txt"} /\ job[th].kind = "patch" =>
         \E i \in 1..Len(new[th].history) :
            new[th].history[i] = OpOf(job[th].req, lam[th])
    /\ pc[th] = "txt" /\ job[th].tid \notin redone
         => docs[job[th].tid] = new[th]

\* Every document in hand is decided by its log as well.
InHand == \A th \in Threads : pc[th] # "idle" => WellFormed(new[th])

-----------------------------------------------------------------------------
\* merge_op returns a document whose log is the old one and the new op.
LEMMA MergeDoc ==
  ASSUME NEW d \in Doc, NEW r \in OpRequest, NEW n \in Nat, ValidateKey(d, r)
  PROVE  /\ merge_op(d, r, n) \in Doc
         /\ OpOf(r, n) \in Op
         /\ ClockOf(OpOf(r, n)) \in Clock
         /\ merge_op(d, r, n).history = Append(d.history, OpOf(r, n))
<1>1. r.op \in SUPPORTED_OPS
  BY DEF ValidateKey, SUPPORTED_OPS
<1>2. OpOf(r, n) \in Op
  BY <1>1 DEF OpOf, Op, OpRequest
<1>3. ClockOf(OpOf(r, n)) \in Clock
  BY DEF OpOf, ClockOf, Clock, OpRequest
<1>4. Coerce(r.key, r.value) \in Texts /\ r.key \in Keys
  BY DEF Coerce, Texts, OpRequest
<1>5. QED
  BY <1>2, <1>3, <1>4 DEF merge_op, Doc

LEMMA FreshDocType == \A v \in Values : FreshDoc(v) \in Doc /\ FreshDoc(v).history = << >>
  BY DEF FreshDoc, Doc, Texts

LEMMA RelabelDoc ==
  ASSUME NEW d \in Doc, NEW m \in Mappings
  PROVE  /\ relabel(d, m) \in Doc
         /\ relabel(d, m).history = d.history
         /\ relabel(d, m).clocks = d.clocks
         /\ \A k \in Keys \ SpeakerKeys : relabel(d, m).vals[k] = d.vals[k]
<1>1. \A k \in DOMAIN m : k \in SpeakerKeys /\ m[k] \in Values
  BY DEF Mappings
<1>2. QED
  BY <1>1 DEF relabel, Doc, Texts

LEMMA SummaryDoc ==
  ASSUME NEW d \in Doc, NEW s \in Values
  PROVE  /\ [d EXCEPT !.summary = s] \in Doc
         /\ [d EXCEPT !.summary = s].history = d.history
         /\ [d EXCEPT !.summary = s].clocks = d.clocks
         /\ [d EXCEPT !.summary = s].vals = d.vals
  BY DEF Doc

LEMMA RenderType == \A d \in Doc : Render(d) \in [Keys -> Texts]
  BY DEF Render, Doc, Texts

LEMMA NewLamportType ==
  ASSUME NEW n \in Nat, NEW r \in OpRequest
  PROVE  NewLamport(n, r) \in Nat
<1>1. r.lamport_observed \in Observed
  BY DEF OpRequest
<1>2. r.lamport_observed \in Nat
  BY <1>1, NumbersAssumption
<1>3. QED
  BY <1>2 DEF NewLamport

-----------------------------------------------------------------------------
\* Beginning a request keeps the types.
LEMMA BeginTypeInv ==
  ASSUME TypeInv, NEW th \in Threads, NEW kind \in Kinds, NEW t \in Transcripts,
         NEW r \in OpRequest \cup {Null}, NEW d \in Doc, NEW next \in {"read", "json"},
         next = "read" <=> kind = "patch", kind = "patch" => r \in OpRequest,
         Begin(th, kind, t, r, d, next)
  PROVE  TypeInv'
<1>1. [kind |-> kind, tid |-> t, req |-> r] \in Job
  BY DEF Job
<1>2. TypeOK'
  BY <1>1 DEF TypeInv, TypeOK, Begin, PCs
<1>3. Control'
  BY <1>1 DEF TypeInv, TypeOK, Control, Begin
<1>4. QED
  BY <1>2, <1>3 DEF TypeInv

\* So does leaving a handler.
LEMMA LeaveTypes ==
  ASSUME TypeInv, NEW th \in Threads, Leave(th)
  PROVE  /\ pc' \in [Threads -> PCs] /\ job' \in [Threads -> Job \cup {NoJob}]
         /\ new' \in [Threads -> Doc \cup {NoDoc}]
         /\ lam' \in [Threads -> Nat] /\ cur' \in [Threads -> Nat]
         /\ Control'
<1>1. /\ pc' \in [Threads -> PCs] /\ job' \in [Threads -> Job \cup {NoJob}]
      /\ new' \in [Threads -> Doc \cup {NoDoc}]
      /\ lam' \in [Threads -> Nat] /\ cur' \in [Threads -> Nat]
  BY DEF TypeInv, TypeOK, Leave, PCs
<1>2. Control'
  BY DEF TypeInv, TypeOK, Control, Leave
<1>3. QED
  BY <1>1, <1>2

LEMMA UnlockType ==
  ASSUME TypeInv, NEW th \in Threads, Unlock(th)
  PROVE  lock' \in [Transcripts -> Threads \cup {NoThread}]
  BY DEF TypeInv, TypeOK, Unlock

LEMMA InitTypeInv == Init => TypeInv
<1> SUFFICES ASSUME Init PROVE TypeInv
  OBVIOUS
<1>1. docs \in [Transcripts -> Doc \cup {NoDoc}] /\ txt \in [Transcripts -> [Keys -> Texts] \cup {NoDoc}]
  BY FreshDocType, RenderType DEF Init
<1>2. QED
  BY <1>1 DEF Init, TypeInv, TypeOK, Control, PCs

LEMMA NextTypeInv == TypeInv /\ [Next]_vars => TypeInv'
<1> SUFFICES ASSUME TypeInv, [Next]_vars PROVE TypeInv'
  OBVIOUS
<1>1. ASSUME NEW th \in Threads, PatchMerge(th) PROVE TypeInv'
  <2> DEFINE r == job[th].req
             n == NewLamport(counter, r)
  <2>1. r \in OpRequest /\ new[th] \in Doc /\ counter \in Nat /\ job[th] \in Job
    BY <1>1 DEF PatchMerge, TypeInv, TypeOK, Control
  <2>2. CASE ValidateKey(new[th], r)
    <3>1. n \in Nat
      BY <2>1, NewLamportType
    <3>2. merge_op(new[th], r, n) \in Doc
      BY <2>1, <2>2, <3>1, MergeDoc
    <3>3. r.op \in SUPPORTED_OPS
      BY <2>2 DEF ValidateKey, SUPPORTED_OPS
    <3>4. TypeOK'
      BY <1>1, <2>2, <3>1, <3>2 DEF PatchMerge, TypeInv, TypeOK, PCs
    <3>5. Control'
      BY <1>1, <2>1, <2>2, <3>2, <3>3 DEF PatchMerge, TypeInv, TypeOK, Control
    <3>6. QED
      BY <3>4, <3>5 DEF TypeInv
  <2>3. CASE ~ValidateKey(new[th], r)
    <3>1. Unlock(th) /\ Leave(th)
      BY <1>1, <2>3 DEF PatchMerge
    <3>2. TypeOK' /\ Control'
      BY <1>1, <3>1, UnlockType, LeaveTypes DEF PatchMerge, TypeInv, TypeOK
    <3>3. QED
      BY <3>2 DEF TypeInv
  <2>4. QED
    BY <2>2, <2>3
<1>2. ASSUME NEW th \in Threads, BumpLoad(th) PROVE TypeInv'
  <2>1. TypeOK'
    BY <1>2 DEF BumpLoad, TypeInv, TypeOK, PCs
  <2>2. Control'
    BY <1>2 DEF BumpLoad, TypeInv, TypeOK, Control
  <2>3. QED
    BY <2>1, <2>2 DEF TypeInv
<1>3. ASSUME NEW th \in Threads, BumpSave(th) PROVE TypeInv'
  <2>1. TypeOK'
    BY <1>3 DEF BumpSave, TypeInv, TypeOK, PCs
  <2>2. Control'
    BY <1>3 DEF BumpSave, TypeInv, TypeOK, Control
  <2>3. QED
    BY <2>1, <2>2 DEF TypeInv
<1>4. ASSUME NEW th \in Threads, WriteJson(th) PROVE TypeInv'
  <2>1. new[th] \in Doc /\ job[th].tid \in Transcripts
    BY <1>4 DEF WriteJson, TypeInv, Control, Job
  <2>2. docs' \in [Transcripts -> Doc \cup {NoDoc}]
    BY <1>4, <2>1 DEF WriteJson, TypeInv, TypeOK
  <2>3. CASE job[th].kind # "summarize"
    <3>1. TypeOK'
      BY <1>4, <2>2, <2>3 DEF WriteJson, TypeInv, TypeOK, PCs
    <3>2. Control'
      BY <1>4, <2>3 DEF WriteJson, TypeInv, TypeOK, Control
    <3>3. QED
      BY <3>1, <3>2 DEF TypeInv
  <2>4. CASE job[th].kind = "summarize"
    <3>1. Unlock(th) /\ Leave(th)
      BY <1>4, <2>4 DEF WriteJson
    <3>2. TypeOK' /\ Control'
      BY <1>4, <2>2, <3>1, UnlockType, LeaveTypes DEF WriteJson, TypeInv, TypeOK
    <3>3. QED
      BY <3>2 DEF TypeInv
  <2>5. QED
    BY <2>3, <2>4
<1>5. ASSUME NEW th \in Threads, WriteTxt(th) PROVE TypeInv'
  <2>1. new[th] \in Doc /\ job[th].tid \in Transcripts /\ lam[th] \in Nat
    BY <1>5 DEF WriteTxt, TypeInv, TypeOK, Control, Job
  <2>2. txt' \in [Transcripts -> [Keys -> Texts] \cup {NoDoc}]
    BY <1>5, <2>1, RenderType DEF WriteTxt, TypeInv, TypeOK
  <2>3. job[th].kind = "patch" => OpOf(job[th].req, lam[th]) \in Op
    BY <1>5, <2>1 DEF WriteTxt, TypeInv, Control, OpOf, Op, OpRequest
  <2>4. acked' \subseteq (Transcripts \X Op)
    BY <1>5, <2>1, <2>3 DEF WriteTxt, TypeInv, TypeOK
  <2>5. Unlock(th) /\ Leave(th)
    BY <1>5 DEF WriteTxt
  <2>6. TypeOK' /\ Control'
    BY <1>5, <2>2, <2>4, <2>5, UnlockType, LeaveTypes DEF WriteTxt, TypeInv, TypeOK
  <2>7. QED
    BY <2>6 DEF TypeInv
<1>6. ASSUME NEW th \in Threads, TranscribeJson(th) PROVE TypeInv'
  <2>1. new[th] \in Doc /\ job[th].tid \in Transcripts /\ Leave(th)
    BY <1>6 DEF TranscribeJson, TypeInv, Control, Job
  <2>2. docs' \in [Transcripts -> Doc \cup {NoDoc}]
    BY <1>6, <2>1 DEF TranscribeJson, TypeInv, TypeOK
  <2>3. TypeOK' /\ Control'
    BY <1>6, <2>1, <2>2, LeaveTypes DEF TranscribeJson, TypeInv, TypeOK
  <2>4. QED
    BY <2>3 DEF TypeInv
<1>7. ASSUME NEW th \in Threads, NEW t \in Transcripts, NEW r \in OpRequest, PatchRead(th, t, r)
      PROVE  TypeInv'
  <2>1. docs[t] \in Doc
    BY <1>7 DEF PatchRead, TypeInv, TypeOK
  <2>2. QED
    BY <1>7, <2>1, BeginTypeInv DEF PatchRead, Kinds
<1>8. ASSUME NEW th \in Threads, NEW t \in Transcripts, NEW m \in Mappings, RelabelRead(th, t, m)
      PROVE  TypeInv'
  <2>1. docs[t] \in Doc
    BY <1>8 DEF RelabelRead, TypeInv, TypeOK
  <2>2. QED
    BY <1>8, <2>1, RelabelDoc, BeginTypeInv DEF RelabelRead, Kinds
<1>9. ASSUME NEW th \in Threads, NEW t \in Transcripts, NEW s \in Values, SummarizeRead(th, t, s)
      PROVE  TypeInv'
  <2>1. docs[t] \in Doc
    BY <1>9 DEF SummarizeRead, TypeInv, TypeOK
  <2>2. QED
    BY <1>9, <2>1, SummaryDoc, BeginTypeInv DEF SummarizeRead, Kinds
<1>10. ASSUME NEW th \in Threads, NEW t \in Transcripts, NEW d \in ImportDocs, ImportBegin(th, t, d)
       PROVE  TypeInv'
  BY <1>10, ImportAssumption, BeginTypeInv DEF ImportBegin, Kinds
<1>11. ASSUME NEW th \in Threads, NEW t \in Transcripts, NEW v \in Values, TranscribeTxt(th, t, v)
       PROVE  TypeInv'
  <2>1. FreshDoc(v) \in Doc /\ Render(FreshDoc(v)) \in [Keys -> Texts]
    BY FreshDocType, RenderType
  <2>2. [kind |-> "transcribe", tid |-> t, req |-> Null] \in Job
    BY DEF Job, Kinds
  <2>3. TypeOK'
    BY <1>11, <2>1, <2>2 DEF TranscribeTxt, TypeInv, TypeOK, PCs
  <2>4. Control'
    BY <1>11, <2>1, <2>2 DEF TranscribeTxt, TypeInv, TypeOK, Control
  <2>5. QED
    BY <2>3, <2>4 DEF TypeInv
<1>12. ASSUME NEW th \in Threads, Abort(th) PROVE TypeInv'
  <2>1. TypeOK' /\ Control'
    BY <1>12, UnlockType, LeaveTypes DEF Abort, TypeInv, TypeOK
  <2>2. QED
    BY <2>1 DEF TypeInv
<1>13. CASE Crash
  BY <1>13 DEF Crash, TypeInv, TypeOK, Control, PCs
<1>14. CASE UNCHANGED vars
  BY <1>14 DEF vars, TypeInv, TypeOK, Control
<1>15. QED
  BY <1>1, <1>2, <1>3, <1>4, <1>5, <1>6, <1>7, <1>8, <1>9, <1>10, <1>11, <1>12,
     <1>13, <1>14 DEF Next, Step, Request

\* Every value the handlers of HubEdits leave on disk or hold in hand has the
\* shape the code expects, for every number of threads, transcripts and keys.
THEOREM TypeCorrect == Spec => []TypeOK
<1>1. Init => TypeInv
  BY InitTypeInv
<1>2. TypeInv /\ [Next]_vars => TypeInv'
  BY NextTypeInv
<1>3. TypeInv => TypeOK
  BY DEF TypeInv
<1>4. QED
  BY <1>1, <1>2, <1>3, PTL DEF Spec

-----------------------------------------------------------------------------
\* Clock.beats is a strict total order: a clock that beats x beats, and
\* differs from, everything that does not beat x.
LEMMA BeatsOrder ==
  ASSUME NEW a \in Clock, NEW c \in Clock, NEW x \in Clock,
         beats(c, x), ~beats(a, x)
  PROVE  ~beats(a, c) /\ a # c
<1>1. /\ a.lamport \in Nat /\ c.lamport \in Nat /\ x.lamport \in Nat
      /\ a.device \in Nat /\ c.device \in Nat /\ x.device \in Nat
  BY NumbersAssumption DEF Clock
<1>2. a # NoClock /\ c # NoClock /\ x # NoClock
  BY NullsAssumption
<1>3. QED
  BY <1>1, <1>2 DEF beats

LEMMA BeatsIrreflexive == ASSUME NEW c \in Clock PROVE ~beats(c, c)
<1>1. c.lamport \in Nat /\ c.device \in Nat
  BY NumbersAssumption DEF Clock
<1>2. QED
  BY <1>1, NullsAssumption DEF beats

LEMMA OpClock == \A o \in Op : ClockOf(o) \in Clock
  BY DEF Op, ClockOf, Clock

\* merge_op keeps a document decided by its log: the heart of the
\* last-writer-wins rule.
LEMMA MergeWellFormed ==
  ASSUME NEW d \in Doc, NEW r \in OpRequest, NEW n \in Nat, ValidateKey(d, r),
         WellFormed(d)
  PROVE  WellFormed(merge_op(d, r, n))
<1> DEFINE o == OpOf(r, n)
           c == ClockOf(o)
           m == merge_op(d, r, n)
           L == Len(d.history)
<1>1. /\ o \in Op /\ c \in Clock /\ o.key = r.key /\ o.value = r.value
      /\ m.history = Append(d.history, o) /\ r.key \in Keys
  BY MergeDoc DEF OpOf, OpRequest
<1>2. /\ d.history \in Seq(Op) /\ L \in Nat
      /\ d.clocks \in [Keys -> Clock \cup {NoClock}] /\ d.vals \in [Keys -> Texts]
  BY DEF Doc
<1>3. /\ Len(m.history) = L + 1 /\ m.history[L + 1] = o
      /\ \A j \in 1..L : m.history[j] = d.history[j] /\ ClockOf(d.history[j]) \in Clock
  BY <1>1, <1>2, OpClock
<1> HIDE DEF o, L
<1>4. ASSUME NEW k \in Keys, k # r.key
      PROVE  \/ /\ m.clocks[k] = NoClock
                /\ \A j \in 1..Len(m.history) : m.history[j].key # k
             \/ \E i \in 1..Len(m.history) :
                  /\ Wins(m, k, i)
                  /\ k \notin SpeakerKeys => m.vals[k] = Coerce(k, m.history[i].value)
  <2>1. m.clocks[k] = d.clocks[k] /\ m.vals[k] = d.vals[k]
    BY <1>2, <1>4 DEF merge_op
  <2> HIDE DEF m
  <2>2. CASE d.clocks[k] = NoClock /\ \A j \in 1..L : d.history[j].key # k
    BY <1>1, <1>2, <1>3, <1>4, <2>1, <2>2
  <2>3. ASSUME NEW i \in 1..L, Wins(d, k, i),
               k \notin SpeakerKeys => d.vals[k] = Coerce(k, d.history[i].value)
        PROVE  i \in 1..Len(m.history) /\ Wins(m, k, i)
               /\ (k \notin SpeakerKeys => m.vals[k] = Coerce(k, m.history[i].value))
    BY <1>1, <1>2, <1>3, <1>4, <2>1, <2>3 DEF Wins, L
  <2>4. QED
    BY <2>2, <2>3 DEF WellFormed, L
<1>5. CASE beats(c, d.clocks[r.key])
  <2> DEFINE k == r.key
  <2>1. m.clocks[k] = c /\ m.vals[k] = Coerce(k, o.value)
    BY <1>1, <1>2, <1>5 DEF merge_op, o
  <2> HIDE DEF m, c
  <2>2. ASSUME NEW j \in 1..L, d.history[j].key = k
        PROVE  ~beats(ClockOf(d.history[j]), c) /\ ClockOf(d.history[j]) # c
    <3>1. PICK i \in 1..L : Wins(d, k, i)
      BY <1>1, <2>2 DEF WellFormed, L
    <3>2. d.clocks[k] \in Clock /\ ~beats(ClockOf(d.history[j]), d.clocks[k])
      BY <1>3, <3>1, <2>2 DEF Wins, L
    <3>3. QED
      BY <1>1, <1>3, <1>5, <3>2, BeatsOrder
  <2>3. Wins(m, k, L + 1)
    BY <1>1, <1>2, <1>3, <2>1, <2>2, BeatsIrreflexive DEF Wins, c
  <2>4. L + 1 \in 1..Len(m.history)
    BY <1>2, <1>3
  <2>5. \E i \in 1..Len(m.history) :
           Wins(m, k, i) /\ (k \notin SpeakerKeys => m.vals[k] = Coerce(k, m.history[i].value))
    BY <1>3, <2>1, <2>3, <2>4
  <2>6. QED
    BY <1>4, <2>5 DEF WellFormed, m
<1>6. CASE ~beats(c, d.clocks[r.key])
  <2> DEFINE k == r.key
  <2>1. m.clocks[k] = d.clocks[k] /\ m.vals[k] = d.vals[k]
    BY <1>6 DEF merge_op, o
  <2> HIDE DEF m, c
  <2>2. d.clocks[k] # NoClock
    BY <1>6 DEF beats
  <2>3. PICK i \in 1..L : Wins(d, k, i) /\
                          (k \notin SpeakerKeys => d.vals[k] = Coerce(k, d.history[i].value))
    BY <1>1, <2>2 DEF WellFormed, L
  <2>4. Wins(m, k, i)
    BY <1>1, <1>2, <1>3, <1>6, <2>1, <2>3 DEF Wins, c, L
  <2>5. i \in 1..Len(m.history) /\ m.history[i] = d.history[i]
    BY <1>2, <1>3
  <2>6. \E q \in 1..Len(m.history) :
           Wins(m, k, q) /\ (k \notin SpeakerKeys => m.vals[k] = Coerce(k, m.history[q].value))
    BY <2>1, <2>3, <2>4, <2>5
  <2>7. QED
    BY <1>4, <2>6 DEF WellFormed, m
<1>7. QED
  BY <1>5, <1>6

\* So do the writers that leave the log alone.
LEMMA FreshWellFormed == \A v \in Values : WellFormed(FreshDoc(v))
  BY DEF FreshDoc, WellFormed

LEMMA SameLogWellFormed ==
  ASSUME NEW d \in Doc, NEW e \in Doc, WellFormed(d), e.history = d.history,
         e.clocks = d.clocks, \A k \in Keys \ SpeakerKeys : e.vals[k] = d.vals[k]
  PROVE  WellFormed(e)
  BY DEF WellFormed, Wins

-----------------------------------------------------------------------------
DecidesInv == TypeInv /\ HistoryDecides /\ InHand

LEMMA InitDecidesInv == Init => DecidesInv
<1> SUFFICES ASSUME Init PROVE DecidesInv
  OBVIOUS
<1>1. HistoryDecides
  BY FreshWellFormed DEF Init, HistoryDecides
<1>2. QED
  BY <1>1, InitTypeInv DEF Init, DecidesInv, InHand

\* A thread that takes a well-formed document in hand.
LEMMA TakeInHand ==
  ASSUME DecidesInv, NEW th \in Threads, NEW d, WellFormed(d),
         new' = [new EXCEPT ![th] = d], \A u \in Threads \ {th} : pc'[u] = pc[u],
         UNCHANGED docs
  PROVE  HistoryDecides' /\ InHand'
  BY DEF DecidesInv, TypeInv, TypeOK, HistoryDecides, InHand

LEMMA LeaveInHand ==
  ASSUME DecidesInv, NEW th \in Threads, Leave(th)
  PROVE  InHand'
  BY DEF DecidesInv, TypeInv, TypeOK, InHand, Leave

LEMMA NextDecidesInv == DecidesInv /\ [Next]_vars => DecidesInv'
<1> SUFFICES ASSUME DecidesInv, [Next]_vars PROVE HistoryDecides' /\ InHand'
  BY NextTypeInv DEF DecidesInv
<1> USE DEF DecidesInv
<1>1. ASSUME NEW th \in Threads, PatchMerge(th) PROVE HistoryDecides' /\ InHand'
  <2> DEFINE r == job[th].req
             n == NewLamport(counter, r)
  <2>1. r \in OpRequest /\ new[th] \in Doc /\ n \in Nat /\ WellFormed(new[th])
    BY <1>1, NewLamportType DEF PatchMerge, TypeInv, TypeOK, Control, InHand
  <2>2. CASE ValidateKey(new[th], r)
    <3>1. WellFormed(merge_op(new[th], r, n))
      BY <2>1, <2>2, MergeWellFormed
    <3>2. \A u \in Threads \ {th} : pc'[u] = pc[u]
      BY <1>1, <2>2 DEF PatchMerge, TypeInv, TypeOK
    <3>3. QED
      BY <1>1, <2>2, <3>1, <3>2, TakeInHand DEF PatchMerge
  <2>3. CASE ~ValidateKey(new[th], r)
    BY <1>1, <2>3, LeaveInHand DEF PatchMerge, HistoryDecides
  <2>4. QED
    BY <2>2, <2>3
<1>2. ASSUME NEW th \in Threads, BumpLoad(th) \/ BumpSave(th) PROVE HistoryDecides' /\ InHand'
  BY <1>2 DEF BumpLoad, BumpSave, TypeInv, TypeOK, HistoryDecides, InHand
<1>3. ASSUME NEW th \in Threads, WriteJson(th) PROVE HistoryDecides' /\ InHand'
  <2>1. WellFormed(new[th])
    BY <1>3 DEF WriteJson, InHand
  <2>2. HistoryDecides'
    BY <1>3, <2>1 DEF WriteJson, TypeInv, TypeOK, HistoryDecides
  <2>3. CASE job[th].kind # "summarize"
    BY <1>3, <2>2, <2>3 DEF WriteJson, TypeInv, TypeOK, InHand
  <2>4. CASE job[th].kind = "summarize"
    BY <1>3, <2>2, <2>4, LeaveInHand DEF WriteJson
  <2>5. QED
    BY <2>3, <2>4
<1>4. ASSUME NEW th \in Threads, WriteTxt(th) PROVE HistoryDecides' /\ InHand'
  BY <1>4, LeaveInHand DEF WriteTxt, HistoryDecides
<1>5. ASSUME NEW th \in Threads, TranscribeJson(th) PROVE HistoryDecides' /\ InHand'
  <2>1. WellFormed(new[th])
    BY <1>5 DEF TranscribeJson, InHand
  <2>2. HistoryDecides'
    BY <1>5, <2>1 DEF TranscribeJson, TypeInv, TypeOK, HistoryDecides
  <2>3. QED
    BY <1>5, <2>2, LeaveInHand DEF TranscribeJson
<1>6. ASSUME NEW th \in Threads, NEW t \in Transcripts, NEW r \in OpRequest, PatchRead(th, t, r)
      PROVE  HistoryDecides' /\ InHand'
  <2>1. WellFormed(docs[t]) /\ \A u \in Threads \ {th} : pc'[u] = pc[u]
    BY <1>6 DEF PatchRead, Begin, TypeInv, TypeOK, HistoryDecides
  <2>2. QED
    BY <1>6, <2>1, TakeInHand DEF PatchRead, Begin
<1>7. ASSUME NEW th \in Threads, NEW t \in Transcripts, NEW m \in Mappings, RelabelRead(th, t, m)
      PROVE  HistoryDecides' /\ InHand'
  <2>1. docs[t] \in Doc /\ WellFormed(docs[t])
    BY <1>7 DEF RelabelRead, TypeInv, TypeOK, HistoryDecides
  <2>2. WellFormed(relabel(docs[t], m)) /\ \A u \in Threads \ {th} : pc'[u] = pc[u]
    BY <1>7, <2>1, RelabelDoc, SameLogWellFormed DEF RelabelRead, Begin, TypeInv, TypeOK
  <2>3. QED
    BY <1>7, <2>2, TakeInHand DEF RelabelRead, Begin
<1>8. ASSUME NEW th \in Threads, NEW t \in Transcripts, NEW s \in Values, SummarizeRead(th, t, s)
      PROVE  HistoryDecides' /\ InHand'
  <2>1. docs[t] \in Doc /\ WellFormed(docs[t])
    BY <1>8 DEF SummarizeRead, TypeInv, TypeOK, HistoryDecides
  <2> DEFINE e == [docs[t] EXCEPT !.summary = s]
  <2>2. /\ e \in Doc /\ e.history = docs[t].history
        /\ e.clocks = docs[t].clocks /\ e.vals = docs[t].vals
    BY <2>1, SummaryDoc
  <2>3. \A u \in Threads \ {th} : pc'[u] = pc[u]
    BY <1>8 DEF SummarizeRead, Begin, TypeInv, TypeOK
  <2>4. new' = [new EXCEPT ![th] = e] /\ UNCHANGED docs
    BY <1>8 DEF SummarizeRead, Begin
  <2> HIDE DEF e
  <2>5. WellFormed(e)
    BY <2>1, <2>2, SameLogWellFormed
  <2>6. QED
    BY <2>3, <2>4, <2>5, TakeInHand
<1>9. ASSUME NEW th \in Threads, NEW t \in Transcripts, NEW d \in ImportDocs, ImportBegin(th, t, d)
      PROVE  HistoryDecides' /\ InHand'
  <2>1. WellFormed(d) /\ \A u \in Threads \ {th} : pc'[u] = pc[u]
    BY <1>9, ImportAssumption DEF ImportBegin, Begin, TypeInv, TypeOK
  <2>2. QED
    BY <1>9, <2>1, TakeInHand DEF ImportBegin, Begin
<1>10. ASSUME NEW th \in Threads, NEW t \in Transcripts, NEW v \in Values, TranscribeTxt(th, t, v)
       PROVE  HistoryDecides' /\ InHand'
  <2>1. WellFormed(FreshDoc(v)) /\ \A u \in Threads \ {th} : pc'[u] = pc[u]
    BY <1>10, FreshWellFormed DEF TranscribeTxt, TypeInv, TypeOK
  <2>2. QED
    BY <1>10, <2>1, TakeInHand DEF TranscribeTxt
<1>11. ASSUME NEW th \in Threads, Abort(th) PROVE HistoryDecides' /\ InHand'
  BY <1>11, LeaveInHand DEF Abort, HistoryDecides
<1>12. CASE Crash
  BY <1>12 DEF Crash, HistoryDecides, InHand
<1>13. CASE UNCHANGED vars
  BY <1>13 DEF vars, HistoryDecides, InHand
<1>14. QED
  BY <1>1, <1>2, <1>3, <1>4, <1>5, <1>6, <1>7, <1>8, <1>9, <1>10, <1>11, <1>12, <1>13
     DEF Next, Step, Request

\* The log decides: for every number of threads and transcripts, wherever the
\* hub crashes and whatever transcriptions run beside the edits, the clocks of
\* a sidecar are those of the winning op of its _history, and its title and
\* segments show that op's value.
THEOREM LogDecides == Spec => []HistoryDecides
<1>1. Init => DecidesInv
  BY InitDecidesInv
<1>2. DecidesInv /\ [Next]_vars => DecidesInv'
  BY NextDecidesInv
<1>3. DecidesInv => HistoryDecides
  BY DEF DecidesInv
<1>4. QED
  BY <1>1, <1>2, <1>3, PTL DEF Spec

-----------------------------------------------------------------------------
LogInv == TypeInv /\ Owner

LEMMA ExtendsReflexive == ASSUME NEW s \in Seq(Op) PROVE Extends(s, s)
  BY DEF Extends

LEMMA ExtendsAppend ==
  ASSUME NEW s \in Seq(Op), NEW u \in Seq(Op), NEW o \in Op, Extends(s, u)
  PROVE  Extends(s, Append(u, o))
  BY DEF Extends

LEMMA ExtendsEmpty == ASSUME NEW s \in Seq(Op) PROVE Extends(<< >>, s)
  BY DEF Extends

LEMMA DocHistory == \A d \in Doc : d.history \in Seq(Op)
  BY DEF Doc

\* A handler that begins takes a free lock, so nobody else owns it.
LEMMA BeginOwner ==
  ASSUME LogInv, NEW th \in Threads, NEW kind, NEW t \in Transcripts, NEW r, NEW d, NEW next,
         Begin(th, kind, t, r, d, next),
         docs[t] # NoDoc => Extends(docs[t].history, d.history)
  PROVE  Owner'
<1> SUFFICES ASSUME NEW u \in Threads, pc'[u] \notin {"idle", "tjson"}
             PROVE  /\ lock'[job'[u].tid] = u
                    /\ docs'[job'[u].tid] # NoDoc =>
                         Extends(docs'[job'[u].tid].history, new'[u].history)
  BY DEF Owner
<1>1. CASE u = th
  BY <1>1 DEF LogInv, TypeInv, TypeOK, Begin
<1>2. CASE u # th
  <2>1. pc'[u] = pc[u] /\ job'[u] = job[u] /\ new'[u] = new[u]
    BY <1>2 DEF LogInv, TypeInv, TypeOK, Begin
  <2>2. lock[job[u].tid] = u /\ job[u].tid \in Transcripts
    BY <2>1 DEF LogInv, TypeInv, Control, Owner, Job
  <2>3. job[u].tid # t
    BY <2>2, NullsAssumption DEF Begin
  <2>4. QED
    BY <2>1, <2>2, <2>3 DEF LogInv, TypeInv, TypeOK, Owner, Begin
<1>3. QED
  BY <1>1, <1>2

\* A handler that leaves frees only its own locks.
LEMMA LeaveOwner ==
  ASSUME LogInv, NEW th \in Threads, Leave(th), Unlock(th), UNCHANGED docs
  PROVE  Owner'
<1> SUFFICES ASSUME NEW u \in Threads, pc'[u] \notin {"idle", "tjson"}
             PROVE  /\ lock'[job'[u].tid] = u
                    /\ docs'[job'[u].tid] # NoDoc =>
                         Extends(docs'[job'[u].tid].history, new'[u].history)
  BY DEF Owner
<1>1. u # th /\ pc'[u] = pc[u] /\ job'[u] = job[u] /\ new'[u] = new[u]
  BY DEF LogInv, TypeInv, TypeOK, Leave
<1>2. lock[job[u].tid] = u /\ job[u].tid \in Transcripts
  BY <1>1 DEF LogInv, TypeInv, Control, Owner, Job
<1>3. QED
  BY <1>1, <1>2 DEF LogInv, Owner, Unlock

\* The step of a write: no other handler owns the transcript written.
LEMMA WriteOwner ==
  ASSUME LogInv, NEW th \in Threads, WriteJson(th)
  PROVE  Owner'
<1> SUFFICES ASSUME NEW u \in Threads, pc'[u] \notin {"idle", "tjson"}
             PROVE  /\ lock'[job'[u].tid] = u
                    /\ docs'[job'[u].tid] # NoDoc =>
                         Extends(docs'[job'[u].tid].history, new'[u].history)
  BY DEF Owner
<1> DEFINE t == job[th].tid
<1>1. t \in Transcripts /\ new[th] \in Doc /\ lock[t] = th
  BY DEF WriteJson, LogInv, TypeInv, Control, Owner, Job
<1>2. CASE u = th
  <2>1. job[th].kind # "summarize"
    BY <1>2 DEF WriteJson, Leave, LogInv, TypeInv, TypeOK
  <2>2. lock' = lock /\ job' = job /\ new' = new /\ docs'[t] = new[th]
    BY <1>1, <2>1 DEF WriteJson, LogInv, TypeInv, TypeOK
  <2>3. QED
    BY <1>1, <1>2, <2>2, DocHistory, ExtendsReflexive
<1>3. CASE u # th
  <2>1. pc'[u] = pc[u] /\ job'[u] = job[u] /\ new'[u] = new[u]
    BY <1>3 DEF WriteJson, Leave, LogInv, TypeInv, TypeOK
  <2>2. lock[job[u].tid] = u /\ job[u].tid \in Transcripts
    BY <2>1 DEF LogInv, TypeInv, Control, Owner, Job
  <2>3. docs'[job[u].tid] = docs[job[u].tid]
    BY <1>1, <1>3, <2>2 DEF WriteJson, LogInv, TypeInv, TypeOK
  <2>4. lock'[job[u].tid] = u
    BY <1>3, <2>2 DEF WriteJson, Unlock, LogInv, TypeInv, TypeOK
  <2>5. QED
    BY <2>1, <2>3, <2>4 DEF LogInv, Owner
<1>4. QED
  BY <1>2, <1>3

LEMMA NextLogInv == LogInv /\ [Next]_vars => LogInv'
<1> SUFFICES ASSUME LogInv, [Next]_vars PROVE Owner'
  BY NextTypeInv DEF LogInv
<1>1. ASSUME NEW th \in Threads, PatchMerge(th) PROVE Owner'
  <2> DEFINE r == job[th].req
             n == NewLamport(counter, r)
             t == job[th].tid
  <2>1. /\ r \in OpRequest /\ new[th] \in Doc /\ n \in Nat /\ t \in Transcripts
        /\ docs[t] # NoDoc => docs[t] \in Doc
    BY <1>1, NewLamportType DEF PatchMerge, LogInv, TypeInv, TypeOK, Control, Job
  <2>2. CASE ValidateKey(new[th], r)
    <3>1. docs[t] # NoDoc => Extends(docs[t].history, merge_op(new[th], r, n).history)
      <4>1. /\ merge_op(new[th], r, n).history = Append(new[th].history, OpOf(r, n))
            /\ OpOf(r, n) \in Op
        BY <2>1, <2>2, MergeDoc
      <4>2. docs[t] # NoDoc => Extends(docs[t].history, new[th].history)
        BY <1>1 DEF PatchMerge, LogInv, Owner
      <4> HIDE DEF n, r
      <4>3. QED
        BY <2>1, <4>1, <4>2, DocHistory, ExtendsAppend
    <3>2. /\ new' = [new EXCEPT ![th] = merge_op(new[th], r, n)]
          /\ lock' = lock /\ job' = job /\ docs' = docs
          /\ pc' = [pc EXCEPT ![th] = "merged"]
      BY <1>1, <2>2 DEF PatchMerge
    <3> HIDE DEF n, r
    <3>3. QED
      BY <1>1, <3>1, <3>2 DEF PatchMerge, LogInv, TypeInv, TypeOK, Owner
  <2>3. CASE ~ValidateKey(new[th], r)
    BY <1>1, <2>3, LeaveOwner DEF PatchMerge
  <2>4. QED
    BY <2>2, <2>3
<1>2. ASSUME NEW th \in Threads, BumpLoad(th) \/ BumpSave(th) PROVE Owner'
  BY <1>2 DEF BumpLoad, BumpSave, LogInv, TypeInv, TypeOK, Owner
<1>3. ASSUME NEW th \in Threads, WriteJson(th) PROVE Owner'
  BY <1>3, WriteOwner
<1>4. ASSUME NEW th \in Threads, WriteTxt(th) PROVE Owner'
  BY <1>4, LeaveOwner DEF WriteTxt
<1>5. ASSUME NEW th \in Threads, TranscribeJson(th) PROVE Owner'
  <2>1. new[th].history = << >> /\ job[th].tid \in Transcripts
    BY <1>5, FreshDocType DEF TranscribeJson, LogInv, TypeInv, Control, Job
  <2>2. ASSUME NEW u \in Threads, pc'[u] \notin {"idle", "tjson"}
        PROVE  /\ lock'[job'[u].tid] = u
               /\ docs'[job'[u].tid] # NoDoc =>
                    Extends(docs'[job'[u].tid].history, new'[u].history)
    <3>1. u # th /\ pc'[u] = pc[u] /\ job'[u] = job[u] /\ new'[u] = new[u] /\ lock' = lock
      BY <1>5, <2>2 DEF TranscribeJson, Leave, LogInv, TypeInv, TypeOK
    <3>2. lock[job[u].tid] = u /\ job[u].tid \in Transcripts /\ new[u] \in Doc
      BY <2>2, <3>1 DEF LogInv, TypeInv, Control, Owner, Job
    <3>3. CASE job[u].tid = job[th].tid
      BY <1>5, <2>1, <3>1, <3>2, <3>3, DocHistory, ExtendsEmpty
         DEF TranscribeJson, LogInv, TypeInv, TypeOK
    <3>4. CASE job[u].tid # job[th].tid
      BY <1>5, <2>2, <3>1, <3>2, <3>4 DEF TranscribeJson, LogInv, TypeInv, TypeOK, Owner
    <3>5. QED
      BY <3>3, <3>4
  <2>3. QED
    BY <2>2 DEF Owner
<1>6. ASSUME NEW th \in Threads, NEW t \in Transcripts, NEW r \in OpRequest, PatchRead(th, t, r)
      PROVE  Owner'
  <2>1. docs[t] \in Doc
    BY <1>6 DEF PatchRead, LogInv, TypeInv, TypeOK
  <2>2. QED
    BY <1>6, <2>1, DocHistory, ExtendsReflexive, BeginOwner DEF PatchRead
<1>7. ASSUME NEW th \in Threads, NEW t \in Transcripts, NEW m \in Mappings, RelabelRead(th, t, m)
      PROVE  Owner'
  <2>1. docs[t] \in Doc
    BY <1>7 DEF RelabelRead, LogInv, TypeInv, TypeOK
  <2>2. QED
    BY <1>7, <2>1, RelabelDoc, DocHistory, ExtendsReflexive, BeginOwner DEF RelabelRead
<1>8. ASSUME NEW th \in Threads, NEW t \in Transcripts, NEW s \in Values, SummarizeRead(th, t, s)
      PROVE  Owner'
  <2>1. docs[t] \in Doc
    BY <1>8 DEF SummarizeRead, LogInv, TypeInv, TypeOK
  <2>2. QED
    BY <1>8, <2>1, SummaryDoc, DocHistory, ExtendsReflexive, BeginOwner DEF SummarizeRead
<1>9. ASSUME NEW th \in Threads, NEW t \in Transcripts, NEW d \in ImportDocs, ImportBegin(th, t, d)
      PROVE  Owner'
  BY <1>9, BeginOwner DEF ImportBegin
<1>10. ASSUME NEW th \in Threads, NEW t \in Transcripts, NEW v \in Values, TranscribeTxt(th, t, v)
       PROVE  Owner'
  BY <1>10 DEF TranscribeTxt, LogInv, TypeInv, TypeOK, Owner
<1>11. ASSUME NEW th \in Threads, Abort(th) PROVE Owner'
  BY <1>11, LeaveOwner DEF Abort
<1>12. CASE Crash
  BY <1>12 DEF Crash, Owner
<1>13. CASE UNCHANGED vars
  BY <1>13 DEF vars, LogInv, Owner
<1>14. QED
  BY <1>1, <1>2, <1>3, <1>4, <1>5, <1>6, <1>7, <1>8, <1>9, <1>10, <1>11, <1>12, <1>13
     DEF Next, Step, Request

\* One step of the system extends a log, or a transcription starts a new one.
KeepsLog ==
  \A t \in Transcripts : docs[t] # NoDoc =>
    /\ docs'[t] # NoDoc
    /\ \/ Extends(docs[t].history, docs'[t].history)
       \/ \E v \in Values : docs'[t] = FreshDoc(v)

LEMMA NextKeepsLog == LogInv /\ [Next]_vars => KeepsLog
<1> SUFFICES ASSUME LogInv, [Next]_vars, NEW t \in Transcripts, docs[t] # NoDoc
             PROVE  /\ docs'[t] # NoDoc
                    /\ \/ Extends(docs[t].history, docs'[t].history)
                       \/ \E v \in Values : docs'[t] = FreshDoc(v)
  BY DEF KeepsLog
<1>1. docs[t] \in Doc /\ docs[t].history \in Seq(Op)
  BY DocHistory DEF LogInv, TypeInv, TypeOK
<1>2. ASSUME NEW th \in Threads, WriteJson(th), job[th].tid = t
      PROVE  docs'[t] # NoDoc /\ Extends(docs[t].history, docs'[t].history)
  BY <1>2, NullsAssumption DEF WriteJson, LogInv, TypeInv, TypeOK, Control, Owner
<1>3. ASSUME NEW th \in Threads, TranscribeJson(th), job[th].tid = t
      PROVE  docs'[t] # NoDoc /\ \E v \in Values : docs'[t] = FreshDoc(v)
  BY <1>3, NullsAssumption DEF TranscribeJson, LogInv, TypeInv, TypeOK, Control
<1>4. CASE docs'[t] = docs[t]
  BY <1>1, <1>4, ExtendsReflexive
<1>5. ASSUME NEW th \in Threads, WriteJson(th) \/ TranscribeJson(th), job[th].tid # t
      PROVE  docs'[t] = docs[t]
  BY <1>5 DEF WriteJson, TranscribeJson, LogInv, TypeInv, TypeOK
<1>6. \/ docs' = docs
      \/ \E th \in Threads : WriteJson(th) \/ TranscribeJson(th)
  BY DEF Next, Step, Request, PatchMerge, BumpLoad, BumpSave, WriteTxt, PatchRead,
         RelabelRead, SummarizeRead, ImportBegin, Begin, TranscribeTxt, Abort, Crash, vars
<1>7. QED
  BY <1>2, <1>3, <1>4, <1>5, <1>6

\* The audit log is append-only, for every number of threads: the lock of the
\* transcript is held from the read to the write, so no handler writes back a
\* log older than the one on disk.
THEOREM LogAppendOnly == Spec => HistoryAppendOnly
<1>1. Init => LogInv
  BY InitTypeInv DEF Init, LogInv, Owner
<1>2. LogInv /\ [Next]_vars => LogInv'
  BY NextLogInv
<1>3. LogInv /\ [Next]_vars => [KeepsLog]_vars
  BY NextKeepsLog
<1>4. Spec => [][KeepsLog]_vars
  BY <1>1, <1>2, <1>3, PTL DEF Spec
<1>5. QED
  BY <1>4 DEF HistoryAppendOnly, KeepsLog

-----------------------------------------------------------------------------
AckInv == LogInv /\ Logged /\ AckedInHistory

\* Where no lock owner moves, what the other threads have logged stays so.
LEMMA OthersLogged ==
  ASSUME AckInv, NEW th \in Threads, NEW u \in Threads, u # th,
         pc'[u] = pc[u], job'[u] = job[u], new'[u] = new[u], lam'[u] = lam[u],
         redone \subseteq redone',
         pc[u] = "txt" /\ job[u].tid \notin redone'
           => docs'[job[u].tid] = docs[job[u].tid]
  PROVE  /\ pc'[u] \in {"merged", "bump", "json", "txt"} /\ job'[u].kind = "patch" =>
              \E i \in 1..Len(new'[u].history) :
                 new'[u].history[i] = OpOf(job'[u].req, lam'[u])
         /\ pc'[u] = "txt" /\ job'[u].tid \notin redone'
              => docs'[job'[u].tid] = new'[u]
  BY DEF AckInv, Logged

LEMMA BeginLogged ==
  ASSUME AckInv, NEW th \in Threads, NEW kind, NEW t, NEW r, NEW d, NEW next,
         Begin(th, kind, t, r, d, next),
         kind = "patch" => next = "read", next \in {"read", "json"}
  PROVE  Logged' /\ AckedInHistory'
<1>1. AckedInHistory'
  BY DEF Begin, AckInv, AckedInHistory
<1>2. Logged'
  BY DEF Begin, AckInv, LogInv, TypeInv, TypeOK, Logged
<1>3. QED
  BY <1>1, <1>2

LEMMA LeaveLogged ==
  ASSUME AckInv, NEW th \in Threads, Leave(th), redone \subseteq redone',
         \A u \in Threads \ {th} :
            pc[u] = "txt" /\ job[u].tid \notin redone'
              => docs'[job[u].tid] = docs[job[u].tid]
  PROVE  Logged'
<1>1. ASSUME NEW u \in Threads, u # th
      PROVE  pc'[u] = pc[u] /\ job'[u] = job[u] /\ new'[u] = new[u] /\ lam'[u] = lam[u]
  BY <1>1 DEF AckInv, LogInv, TypeInv, TypeOK, Leave
<1>2. pc'[th] = "idle"
  BY DEF AckInv, LogInv, TypeInv, TypeOK, Leave
<1>3. QED
  BY <1>1, <1>2, OthersLogged DEF Logged

LEMMA NextAckInv == AckInv /\ [Next]_vars => AckInv'
<1> SUFFICES ASSUME AckInv, [Next]_vars PROVE Logged' /\ AckedInHistory'
  BY NextLogInv DEF AckInv
<1>1. ASSUME NEW th \in Threads, PatchMerge(th) PROVE Logged' /\ AckedInHistory'
  <2> DEFINE r == job[th].req
             n == NewLamport(counter, r)
  <2>1. r \in OpRequest /\ new[th] \in Doc /\ n \in Nat
    BY <1>1, NewLamportType DEF PatchMerge, AckInv, LogInv, TypeInv, TypeOK, Control
  <2>2. AckedInHistory'
    BY <1>1 DEF PatchMerge, AckInv, AckedInHistory
  <2>3. CASE ValidateKey(new[th], r)
    <3>1. /\ merge_op(new[th], r, n).history = Append(new[th].history, OpOf(r, n))
          /\ OpOf(r, n) \in Op /\ new[th].history \in Seq(Op)
      BY <2>1, <2>3, MergeDoc, DocHistory
    <3>2. \E i \in 1..Len(merge_op(new[th], r, n).history) :
             merge_op(new[th], r, n).history[i] = OpOf(r, n)
      <4>1. /\ Len(new[th].history) + 1 \in 1..Len(Append(new[th].history, OpOf(r, n)))
            /\ Append(new[th].history, OpOf(r, n))[Len(new[th].history) + 1] = OpOf(r, n)
        BY <3>1
      <4>2. QED
        BY <3>1, <4>1
    <3>3. /\ new' = [new EXCEPT ![th] = merge_op(new[th], r, n)]
          /\ lam' = [lam EXCEPT ![th] = n]
          /\ job' = job /\ docs' = docs /\ pc' = [pc EXCEPT ![th] = "merged"]
          /\ redone' = redone
      BY <1>1, <2>3 DEF PatchMerge
    <3>4. /\ new'[th] = merge_op(new[th], r, n) /\ lam'[th] = n /\ pc'[th] = "merged"
          /\ \A u \in Threads \ {th} :
                pc'[u] = pc[u] /\ job'[u] = job[u] /\ new'[u] = new[u] /\ lam'[u] = lam[u]
      BY <3>3 DEF AckInv, LogInv, TypeInv, TypeOK
    <3> HIDE DEF n
    <3>5. Logged'
      BY <3>2, <3>3, <3>4, OthersLogged DEF Logged
    <3>6. QED
      BY <2>2, <3>5
  <2>4. CASE ~ValidateKey(new[th], r)
    BY <1>1, <2>2, <2>4, LeaveLogged DEF PatchMerge
  <2>5. QED
    BY <2>3, <2>4
<1>2. ASSUME NEW th \in Threads, BumpLoad(th) \/ BumpSave(th) PROVE Logged' /\ AckedInHistory'
  <2>1. AckedInHistory'
    BY <1>2 DEF BumpLoad, BumpSave, AckInv, AckedInHistory
  <2>2. Logged'
    BY <1>2 DEF BumpLoad, BumpSave, AckInv, LogInv, TypeInv, TypeOK, Logged
  <2>3. QED
    BY <2>1, <2>2
<1>3. ASSUME NEW th \in Threads, WriteJson(th) PROVE Logged' /\ AckedInHistory'
  <2> DEFINE t == job[th].tid
  <2>1. /\ t \in Transcripts /\ new[th] \in Doc /\ lock[t] = th /\ docs'[t] = new[th]
        /\ \A q \in Transcripts \ {t} : docs'[q] = docs[q]
        /\ docs[t] # NoDoc => Extends(docs[t].history, new[th].history)
        /\ redone' = redone
    BY <1>3 DEF WriteJson, AckInv, LogInv, TypeInv, TypeOK, Control, Owner, Job
  <2>2. AckedInHistory'
    <3>1. ASSUME NEW a \in acked, a[1] \notin redone
          PROVE  /\ docs'[a[1]] # NoDoc
                 /\ \E i \in 1..Len(docs'[a[1]].history) : docs'[a[1]].history[i] = a[2]
      <4>1. a[1] \in Transcripts
        BY <3>1 DEF AckInv, LogInv, TypeInv, TypeOK
      <4>2. PICK i \in 1..Len(docs[a[1]].history) : docs[a[1]].history[i] = a[2]
        BY <3>1 DEF AckInv, AckedInHistory
      <4>3. docs[a[1]] # NoDoc /\ docs[a[1]] \in Doc
        BY <3>1, <4>1 DEF AckInv, AckedInHistory, LogInv, TypeInv, TypeOK
      <4>4. CASE a[1] = t
        <5>1. /\ docs[t].history \in Seq(Op) /\ new[th].history \in Seq(Op)
              /\ Extends(docs[t].history, new[th].history)
          BY <2>1, <4>3, <4>4, DocHistory
        <5>2. i \in 1..Len(new[th].history) /\ new[th].history[i] = a[2]
          BY <4>2, <4>4, <5>1 DEF Extends
        <5>3. QED
          BY <2>1, <4>4, <5>2, NullsAssumption
      <4>5. CASE a[1] # t
        BY <2>1, <4>1, <4>2, <4>3, <4>5
      <4>6. QED
        BY <4>4, <4>5
    <3>2. acked' = acked
      BY <1>3 DEF WriteJson
    <3>3. QED
      BY <2>1, <3>1, <3>2 DEF AckedInHistory
  <2>3. ASSUME NEW u \in Threads \ {th}, pc[u] = "txt"
        PROVE  docs'[job[u].tid] = docs[job[u].tid]
    BY <2>1, <2>3 DEF AckInv, LogInv, TypeInv, Control, Owner, Job
  <2>4. CASE job[th].kind # "summarize"
    <3>1. /\ new' = new /\ lam' = lam /\ job' = job /\ pc' = [pc EXCEPT ![th] = "txt"]
          /\ pc[th] = "json"
      BY <1>3, <2>4 DEF WriteJson
    <3>2. pc'[th] = "txt" /\ \A u \in Threads \ {th} : pc'[u] = pc[u]
      BY <3>1 DEF AckInv, LogInv, TypeInv, TypeOK
    <3>3. Logged'
      BY <2>1, <2>3, <3>1, <3>2, OthersLogged DEF AckInv, Logged
    <3>4. QED
      BY <2>2, <3>3
  <2>5. CASE job[th].kind = "summarize"
    BY <1>3, <2>2, <2>3, <2>5, LeaveLogged DEF WriteJson
  <2>6. QED
    BY <2>4, <2>5
<1>4. ASSUME NEW th \in Threads, WriteTxt(th) PROVE Logged' /\ AckedInHistory'
  <2>1. Logged'
    BY <1>4, LeaveLogged DEF WriteTxt
  <2> DEFINE t == job[th].tid
             o == OpOf(job[th].req, lam[th])
  <2>2. (t \notin redone => docs[t] = new[th]) /\ new[th] \in Doc
    BY <1>4 DEF WriteTxt, AckInv, Logged, LogInv, TypeInv, Control
  <2>3. job[th].kind = "patch" => \E i \in 1..Len(new[th].history) : new[th].history[i] = o
    BY <1>4 DEF WriteTxt, AckInv, Logged
  <2>4. acked' \subseteq acked \cup {<<t, o>>} /\ (job[th].kind # "patch" => acked' = acked)
        /\ docs' = docs /\ redone' = redone
    BY <1>4 DEF WriteTxt
  <2> HIDE DEF o, t
  <2>5. AckedInHistory'
    BY <2>2, <2>3, <2>4, NullsAssumption DEF AckInv, AckedInHistory
  <2>6. QED
    BY <2>1, <2>5
<1>5. ASSUME NEW th \in Threads, TranscribeJson(th) PROVE Logged' /\ AckedInHistory'
  <2> DEFINE t == job[th].tid
  <2>1. /\ t \in redone' /\ redone \subseteq redone' /\ acked' = acked
        /\ \A q \in Transcripts \ {t} : docs'[q] = docs[q]
    BY <1>5 DEF TranscribeJson, AckInv, LogInv, TypeInv, TypeOK
  <2>2. \A u \in Threads : pc[u] = "txt" => job[u].tid \in Transcripts
    BY DEF AckInv, LogInv, TypeInv, Control, Job
  <2>3. Logged'
    BY <1>5, <2>1, <2>2, LeaveLogged DEF TranscribeJson
  <2>4. \A a \in acked : a[1] \in Transcripts
    BY DEF AckInv, LogInv, TypeInv, TypeOK
  <2>5. AckedInHistory'
    BY <2>1, <2>4 DEF AckInv, AckedInHistory
  <2>6. QED
    BY <2>3, <2>5
<1>6. ASSUME NEW th \in Threads, NEW t \in Transcripts,
             \/ \E r \in OpRequest : PatchRead(th, t, r)
             \/ \E m \in Mappings : RelabelRead(th, t, m)
             \/ \E s \in Values : SummarizeRead(th, t, s)
             \/ \E d \in ImportDocs : ImportBegin(th, t, d)
             \/ \E v \in Values : TranscribeTxt(th, t, v)
      PROVE  Logged' /\ AckedInHistory'
  <2>1. CASE \E r \in OpRequest : PatchRead(th, t, r)
    BY <2>1, BeginLogged DEF PatchRead
  <2>2. CASE \E m \in Mappings : RelabelRead(th, t, m)
    BY <2>2, BeginLogged DEF RelabelRead
  <2>3. CASE \E s \in Values : SummarizeRead(th, t, s)
    BY <2>3, BeginLogged DEF SummarizeRead
  <2>4. CASE \E d \in ImportDocs : ImportBegin(th, t, d)
    BY <2>4, BeginLogged DEF ImportBegin
  <2>5. CASE \E v \in Values : TranscribeTxt(th, t, v)
    <3>1. AckedInHistory'
      BY <2>5 DEF TranscribeTxt, AckInv, AckedInHistory
    <3>2. Logged'
      BY <2>5 DEF TranscribeTxt, AckInv, LogInv, TypeInv, TypeOK, Logged
    <3>3. QED
      BY <3>1, <3>2
  <2>6. QED
    BY <1>6, <2>1, <2>2, <2>3, <2>4, <2>5
<1>7. ASSUME NEW th \in Threads, Abort(th) PROVE Logged' /\ AckedInHistory'
  BY <1>7, LeaveLogged DEF Abort, AckInv, AckedInHistory
<1>8. CASE Crash
  BY <1>8 DEF Crash, AckInv, Logged, AckedInHistory
<1>9. CASE UNCHANGED vars
  BY <1>9 DEF vars, AckInv, Logged, AckedInHistory
<1>10. QED
  BY <1>1, <1>2, <1>3, <1>4, <1>5, <1>6, <1>7, <1>8, <1>9 DEF Next, Step, Request

\* No acknowledged edit is lost, for every number of threads and transcripts,
\* over crashes and I/O errors, in the transcripts that no transcription has
\* replaced.
THEOREM AckedSafe == Spec => []AckedInHistory
<1>1. Init => AckInv
  BY InitTypeInv DEF Init, AckInv, LogInv, Owner, Logged, AckedInHistory
<1>2. AckInv /\ [Next]_vars => AckInv'
  BY NextAckInv
<1>3. AckInv => AckedInHistory
  BY DEF AckInv
<1>4. QED
  BY <1>1, <1>2, <1>3, PTL DEF Spec

-----------------------------------------------------------------------------
(* The two sidecars, when nothing fails. *)

Undisturbed == Disturbances \cap {"crash", "io", "transcribe"} = {}

\* The .txt shows the .json, unless a handler is about to write it.
Follows(t) == docs[t] # NoDoc => txt[t] = Render(docs[t])

Rendered ==
  /\ \A t \in Transcripts : Follows(t) \/ \E th \in Threads : pc[th] = "txt" /\ job[th].tid = t
  /\ \A th \in Threads :
       /\ pc[th] # "tjson"
       /\ pc[th] = "txt" => docs[job[th].tid] = new[th]
       /\ pc[th] = "json" /\ job[th].kind = "summarize" =>
            docs[job[th].tid] # NoDoc /\ Render(new[th]) = Render(docs[job[th].tid])

TxtInv == LogInv /\ Rendered

LEMMA BeginRendered ==
  ASSUME TxtInv, NEW th \in Threads, NEW kind, NEW t \in Transcripts, NEW r, NEW d, NEW next,
         Begin(th, kind, t, r, d, next), next \in {"read", "json"},
         kind = "summarize" => docs[t] # NoDoc /\ Render(d) = Render(docs[t])
  PROVE  Rendered'
<1>1. /\ pc[th] = "idle" /\ pc'[th] = next /\ new'[th] = d /\ job'[th].tid = t /\ job'[th].kind = kind
      /\ UNCHANGED <<docs, txt>>
  BY DEF Begin, TxtInv, LogInv, TypeInv, TypeOK
<1>2. \A u \in Threads \ {th} : pc'[u] = pc[u] /\ job'[u] = job[u] /\ new'[u] = new[u]
  BY DEF Begin, TxtInv, LogInv, TypeInv, TypeOK
<1>3. Rendered
  BY DEF TxtInv
<1> QED
  BY <1>1, <1>2, <1>3 DEF Rendered, Follows

\* A handler leaves with the files of its transcript in agreement.
LEMMA LeaveRendered ==
  ASSUME TxtInv, NEW th \in Threads, Leave(th), NEW tid \in Transcripts, job[th].tid = tid,
         \A t \in Transcripts \ {tid} : docs'[t] = docs[t] /\ txt'[t] = txt[t],
         Follows(tid)', pc[th] # "idle", pc[th] # "tjson"
  PROVE  Rendered'
<1>1. /\ pc'[th] = "idle"
      /\ \A u \in Threads \ {th} : pc'[u] = pc[u] /\ job'[u] = job[u] /\ new'[u] = new[u]
  BY DEF Leave, TxtInv, LogInv, TypeInv, TypeOK
<1>2. \A u \in Threads \ {th} : pc[u] \notin {"idle", "tjson"} =>
        job[u].tid # tid /\ job[u].tid \in Transcripts
  BY DEF TxtInv, LogInv, TypeInv, Control, Job, Owner
<1>3. ASSUME NEW t \in Transcripts PROVE (Follows(t) \/ \E u \in Threads : pc[u] = "txt" /\ job[u].tid = t)'
  <2>1. CASE t = tid
    BY <2>1
  <2>2. CASE t # tid
    <3>1. Follows(t) => Follows(t)'
      BY <2>2 DEF Follows
    <3>2. ASSUME NEW u \in Threads, pc[u] = "txt", job[u].tid = t PROVE pc'[u] = "txt" /\ job'[u].tid = t
      BY <1>1, <2>2, <3>2
    <3> QED
      BY <3>1, <3>2 DEF TxtInv, Rendered
  <2> QED
    BY <2>1, <2>2
<1>4. ASSUME NEW u \in Threads
      PROVE  /\ pc'[u] # "tjson"
             /\ pc'[u] = "txt" => docs'[job'[u].tid] = new'[u]
             /\ pc'[u] = "json" /\ job'[u].kind = "summarize" =>
                  docs'[job'[u].tid] # NoDoc /\ Render(new'[u]) = Render(docs'[job'[u].tid])
  <2>1. CASE u = th
    BY <1>1, <2>1
  <2>2. CASE u # th
    <3>1. pc'[u] = pc[u] /\ job'[u] = job[u] /\ new'[u] = new[u]
      BY <1>1, <2>2
    <3>2. pc[u] \in {"txt", "json"} => docs'[job[u].tid] = docs[job[u].tid]
      BY <1>2, <2>2
    <3> QED
      BY <3>1, <3>2 DEF TxtInv, Rendered
  <2> QED
    BY <2>1, <2>2
<1> QED
  BY <1>3, <1>4 DEF Rendered, Follows, Render

LEMMA NextTxtInv ==
  ASSUME Undisturbed, TxtInv, [Next]_vars
  PROVE  TxtInv'
<1> SUFFICES Rendered'
  BY NextLogInv DEF TxtInv
<1>0. /\ DOMAIN pc = Threads /\ DOMAIN job = Threads /\ DOMAIN new = Threads
      /\ DOMAIN docs = Transcripts /\ DOMAIN txt = Transcripts /\ Rendered
  BY DEF TxtInv, LogInv, TypeInv, TypeOK
<1>a. ASSUME NEW th \in Threads, pc[th] \notin {"idle", "tjson"}
      PROVE  /\ job[th].tid \in Transcripts /\ new[th] \in Doc
             /\ pc[th] # "txt" => Follows(job[th].tid)
  <2>1. job[th].tid \in Transcripts /\ new[th] \in Doc /\ lock[job[th].tid] = th
    BY <1>a DEF TxtInv, LogInv, TypeInv, Control, Job, Owner
  <2>2. \A u \in Threads \ {th} : ~(pc[u] = "txt" /\ job[u].tid = job[th].tid)
    BY <2>1 DEF TxtInv, LogInv, Owner
  <2> QED
    BY <1>0, <2>1, <2>2 DEF Rendered
<1>1. ASSUME NEW th \in Threads, PatchMerge(th) PROVE Rendered'
  <2>1. CASE Leave(th)
    <3>1. PICK t \in Transcripts : t = job[th].tid /\ Follows(t)
      BY <1>1, <1>a DEF PatchMerge
    <3>2. Follows(t)'
      BY <1>1, <3>1 DEF PatchMerge, Follows
    <3> QED
      BY <1>1, <2>1, <3>1, <3>2, LeaveRendered DEF PatchMerge
  <2>2. CASE ~Leave(th)
    <3>1. /\ pc' = [pc EXCEPT ![th] = "merged"] /\ UNCHANGED <<docs, txt, job>> /\ pc[th] = "read"
          /\ \A u \in Threads \ {th} : new'[u] = new[u]
      BY <1>0, <1>1, <2>2 DEF PatchMerge
    <3> QED
      BY <1>0, <3>1 DEF Rendered, Follows
  <2> QED
    BY <2>1, <2>2
<1>2. ASSUME NEW th \in Threads, BumpLoad(th) \/ BumpSave(th) PROVE Rendered'
  <2>1. /\ UNCHANGED <<docs, txt, job, new>> /\ pc[th] \in {"merged", "bump"} /\ pc'[th] \in {"bump", "json"}
        /\ \A u \in Threads \ {th} : pc'[u] = pc[u]
        /\ job[th].kind = "patch"
    BY <1>0, <1>2 DEF BumpLoad, BumpSave, TxtInv, LogInv, TypeInv, Control
  <2> QED
    BY <1>0, <2>1 DEF Rendered, Follows
<1>3. ASSUME NEW th \in Threads, WriteJson(th) PROVE Rendered'
  <2>0. /\ job[th].tid \in Transcripts /\ Follows(job[th].tid) /\ docs'[job[th].tid] = new[th]
        /\ pc[th] = "json" /\ UNCHANGED txt
        /\ \A t \in Transcripts \ {job[th].tid} : docs'[t] = docs[t]
    BY <1>0, <1>3, <1>a DEF WriteJson
  <2>1. CASE job[th].kind = "summarize"
    <3>1. PICK t \in Transcripts : t = job[th].tid
      BY <2>0
    <3>2. Follows(t)'
      BY <1>0, <2>0, <2>1, <3>1 DEF Rendered, Follows
    <3> QED
      BY <1>3, <2>0, <2>1, <3>1, <3>2, LeaveRendered DEF WriteJson
  <2>2. CASE job[th].kind # "summarize"
    <3>1. UNCHANGED <<job, new>> /\ pc'[th] = "txt" /\ \A u \in Threads \ {th} : pc'[u] = pc[u]
      BY <1>0, <1>3, <2>2 DEF WriteJson
    <3>2. \A u \in Threads \ {th} : pc[u] \notin {"idle", "tjson"} =>
            job[u].tid # job[th].tid /\ job[u].tid \in Transcripts
      BY <2>0 DEF TxtInv, LogInv, TypeInv, Control, Job, Owner
    <3> QED
      BY <1>0, <2>0, <3>1, <3>2 DEF Rendered, Follows
  <2> QED
    BY <2>1, <2>2
<1>4. ASSUME NEW th \in Threads, WriteTxt(th) PROVE Rendered'
  <2>1. PICK t \in Transcripts : t = job[th].tid
    BY <1>4, <1>a DEF WriteTxt
  <2>2. txt'[t] = Render(new[th]) /\ docs'[t] = new[th]
    BY <1>0, <1>4, <2>1 DEF WriteTxt, Rendered
  <2>3. Follows(t)'
    BY <2>2 DEF Follows
  <2> QED
    BY <1>0, <1>4, <2>1, <2>3, LeaveRendered DEF WriteTxt
<1>5. ASSUME NEW th \in Threads, NEW t \in Transcripts,
             \/ \E r \in OpRequest : PatchRead(th, t, r)
             \/ \E m \in Mappings : RelabelRead(th, t, m)
             \/ \E d \in ImportDocs : ImportBegin(th, t, d)
      PROVE  Rendered'
  BY <1>5, BeginRendered DEF PatchRead, RelabelRead, ImportBegin
<1>6. ASSUME NEW th \in Threads, NEW t \in Transcripts, NEW s \in Values, SummarizeRead(th, t, s)
      PROVE  Rendered'
  <2>1. docs[t] \in Doc /\ docs[t] # NoDoc
    BY <1>6 DEF SummarizeRead, TxtInv, LogInv, TypeInv, TypeOK
  <2>2. Render([docs[t] EXCEPT !.summary = s]) = Render(docs[t])
    BY <2>1, SummaryDoc DEF Render
  <2> QED
    BY <1>6, <2>1, <2>2, BeginRendered DEF SummarizeRead
<1>7. ASSUME NEW th \in Threads, TranscribeJson(th) PROVE FALSE
  BY <1>0, <1>7 DEF TranscribeJson, Rendered
<1>8. ASSUME NEW th \in Threads, NEW t \in Transcripts, NEW v \in Values, TranscribeTxt(th, t, v) \/ Abort(th) \/ Crash
      PROVE  FALSE
  BY <1>8 DEF TranscribeTxt, Abort, Crash, Undisturbed
<1>9. ASSUME UNCHANGED vars PROVE Rendered'
  BY <1>0, <1>9 DEF vars, Rendered, Follows
<1> QED
  BY <1>1, <1>2, <1>3, <1>4, <1>5, <1>6, <1>7, <1>8, <1>9 DEF Next, Step, Request, Abort, Crash, Undisturbed

\* The .txt and the .json agree whenever nobody holds the transcript's lock, for
\* every number of threads and transcripts, as long as no crash, I/O error or
\* transcription comes in between: each handler that changes what the .txt shows
\* rewrites it before it releases the lock.
THEOREM TxtFollowsJson ==
  ASSUME Undisturbed
  PROVE  Spec => []TxtMatchesJson
<1>1. Init => TxtInv
  <2>1. Init => LogInv
    BY InitTypeInv DEF Init, LogInv, Owner
  <2>2. Init => Rendered
    BY DEF Init, Rendered, Follows
  <2> QED
    BY <2>1, <2>2 DEF TxtInv
<1>2. TxtInv /\ [Next]_vars => TxtInv'
  BY NextTxtInv
<1>3. TxtInv => TxtMatchesJson
  <2> SUFFICES ASSUME TxtInv, NEW t \in Transcripts, lock[t] = NoThread, docs[t] # NoDoc
               PROVE  txt[t] = Render(docs[t])
    BY DEF TxtMatchesJson
  <2>1. \A th \in Threads : ~(pc[th] = "txt" /\ job[th].tid = t)
    BY NullsAssumption DEF TxtInv, LogInv, Owner
  <2> QED
    BY <2>1 DEF TxtInv, Rendered, Follows
<1>4. QED
  BY <1>1, <1>2, <1>3, PTL DEF Spec

-----------------------------------------------------------------------------
(* The Lamport counter, with edits of one transcript. *)

OneTranscript == \A t, u \in Transcripts : t = u

\* Every op of log h has a Lamport up to n, or came with an import.
UpTo(h, n) == \A i \in 1..Len(h) : h[i].lamport <= n \/ Foreign(h[i])

\* A log in hand is as far as the counter, or as far as the Lamport that the
\* handler is about to make the counter.
Stamped ==
  \A th \in Threads :
    /\ pc[th] \in {"read", "json"} => UpTo(new[th].history, counter)
    /\ pc[th] \in {"merged", "bump"} => UpTo(new[th].history, lam[th]) /\ counter < lam[th]
    /\ pc[th] = "bump" => cur[th] = counter

CounterInv == LogInv /\ Stamped /\ CounterDominates

LEMMA UpToGrows ==
  ASSUME NEW h \in Seq(Op), NEW m \in Nat, NEW n \in Nat, m <= n, UpTo(h, m)
  PROVE  UpTo(h, n)
<1>1. ASSUME NEW i \in 1..Len(h) PROVE h[i].lamport \in Nat
  <2>1. h[i] \in Op
    BY <1>1
  <2> QED
    BY <2>1 DEF Op
<1> QED
  BY <1>1 DEF UpTo

LEMMA BeginStamped ==
  ASSUME CounterInv, NEW th \in Threads, NEW kind, NEW t \in Transcripts, NEW r, NEW d, NEW next,
         Begin(th, kind, t, r, d, next), next \in {"read", "json"}, UpTo(d.history, counter)
  PROVE  Stamped' /\ CounterDominates'
<1>1. /\ pc'[th] = next /\ new'[th] = d /\ UNCHANGED <<counter, docs, lam, cur>>
      /\ \A u \in Threads \ {th} : pc'[u] = pc[u] /\ new'[u] = new[u]
  BY DEF Begin, CounterInv, LogInv, TypeInv, TypeOK
<1>2. Stamped'
  BY <1>1 DEF CounterInv, Stamped
<1> QED
  BY <1>1, <1>2 DEF CounterInv, CounterDominates

LEMMA LeaveStamped ==
  ASSUME CounterInv, NEW th \in Threads, Leave(th), UNCHANGED counter
  PROVE  Stamped'
<1>1. /\ pc'[th] = "idle"
      /\ \A u \in Threads \ {th} : pc'[u] = pc[u] /\ new'[u] = new[u] /\ lam'[u] = lam[u] /\ cur'[u] = cur[u]
  BY DEF Leave, CounterInv, LogInv, TypeInv, TypeOK
<1> QED
  BY <1>1 DEF CounterInv, Stamped

LEMMA NextCounterInv ==
  ASSUME OneTranscript, CounterInv, [Next]_vars
  PROVE  CounterInv'
<1> SUFFICES Stamped' /\ CounterDominates'
  BY NextLogInv DEF CounterInv
<1>0. /\ DOMAIN pc = Threads /\ DOMAIN lam = Threads /\ DOMAIN cur = Threads /\ DOMAIN new = Threads
      /\ DOMAIN docs = Transcripts /\ counter \in Nat /\ Stamped /\ CounterDominates
      /\ \A th \in Threads : lam[th] \in Nat
  BY DEF CounterInv, LogInv, TypeInv, TypeOK
<1>a. ASSUME NEW t \in Transcripts, docs[t] # NoDoc
      PROVE  docs[t] \in Doc /\ UpTo(docs[t].history, counter)
  BY <1>a DEF CounterInv, LogInv, TypeInv, TypeOK, CounterDominates, UpTo
<1>b. ASSUME UNCHANGED <<docs, counter>> PROVE CounterDominates'
  BY <1>0, <1>b DEF CounterDominates
<1>c. ASSUME NEW th \in Threads, pc[th] \notin {"idle", "tjson"}, NEW u \in Threads \ {th}
      PROVE  pc[u] \in {"idle", "tjson"}
  <2>1. job[th].tid \in Transcripts /\ lock[job[th].tid] = th
    BY <1>c DEF CounterInv, LogInv, TypeInv, Control, Job, Owner
  <2>2. ASSUME pc[u] \notin {"idle", "tjson"} PROVE job[u].tid \in Transcripts /\ lock[job[u].tid] = u
    BY <2>2 DEF CounterInv, LogInv, TypeInv, Control, Job, Owner
  <2> QED
    BY <2>1, <2>2 DEF OneTranscript
<1>1. ASSUME NEW th \in Threads, PatchMerge(th) PROVE Stamped' /\ CounterDominates'
  <2>1. CASE Leave(th)
    BY <1>1, <1>b, <2>1, LeaveStamped DEF PatchMerge
  <2>2. CASE ~Leave(th)
    <3> DEFINE r == job[th].req
               n == NewLamport(counter, r)
    <3>1. /\ r \in OpRequest /\ new[th] \in Doc /\ n \in Nat /\ ValidateKey(new[th], r) /\ pc[th] = "read"
      BY <1>1, <2>2, NewLamportType DEF PatchMerge, CounterInv, LogInv, TypeInv, TypeOK, Control
    <3>2. counter < n
      <4>1. r.lamport_observed \in Nat
        BY <3>1, NumbersAssumption DEF OpRequest
      <4> QED
        BY <1>0, <4>1 DEF NewLamport
    <3>3. /\ merge_op(new[th], r, n).history = Append(new[th].history, OpOf(r, n))
          /\ OpOf(r, n).lamport = n /\ new[th].history \in Seq(Op) /\ OpOf(r, n) \in Op
      BY <3>1, MergeDoc, DocHistory DEF OpOf
    <3>4. /\ pc'[th] = "merged" /\ new'[th] = merge_op(new[th], r, n) /\ lam'[th] = n /\ UNCHANGED <<docs, counter, cur>>
          /\ \A u \in Threads \ {th} : pc'[u] = pc[u]
      BY <1>0, <1>1, <2>2 DEF PatchMerge
    <3> HIDE DEF r, n
    <3>5. UpTo(new'[th].history, n)
      <4>1. UpTo(new[th].history, n)
        BY <1>0, <3>1, <3>2, <3>3, UpToGrows DEF Stamped
      <4>2. UpTo(Append(new[th].history, OpOf(r, n)), n)
        BY <3>1, <3>3, <4>1 DEF UpTo
      <4> QED
        BY <3>3, <3>4, <4>2
    <3>6. Stamped'
      BY <1>c, <3>1, <3>2, <3>4, <3>5 DEF Stamped, UpTo
    <3> QED
      BY <1>b, <3>4, <3>6
  <2> QED
    BY <2>1, <2>2
<1>2. ASSUME NEW th \in Threads, BumpLoad(th) PROVE Stamped' /\ CounterDominates'
  <2>1. /\ pc[th] = "merged" /\ pc'[th] = "bump" /\ cur'[th] = counter /\ UNCHANGED <<docs, counter, new, lam>>
        /\ \A u \in Threads \ {th} : pc'[u] = pc[u] /\ cur'[u] = cur[u]
    BY <1>0, <1>2 DEF BumpLoad
  <2>2. Stamped'
    BY <1>0, <2>1 DEF Stamped
  <2> QED
    BY <1>b, <2>1, <2>2
<1>3. ASSUME NEW th \in Threads, BumpSave(th) PROVE Stamped' /\ CounterDominates'
  <2>1. /\ pc[th] = "bump" /\ pc'[th] = "json" /\ UNCHANGED <<docs, new>>
        /\ \A u \in Threads \ {th} : pc'[u] = pc[u]
    BY <1>0, <1>3 DEF BumpSave
  <2>2. counter' = lam[th] /\ counter < lam[th] /\ UpTo(new[th].history, lam[th])
    BY <1>0, <1>3, <2>1 DEF BumpSave, Stamped
  <2>3. Stamped'
    BY <1>c, <2>1, <2>2 DEF Stamped
  <2>4. CounterDominates'
    <3>1. ASSUME NEW t \in Transcripts, docs[t] # NoDoc PROVE UpTo(docs[t].history, counter')
      BY <1>0, <1>a, <2>2, <3>1, DocHistory, UpToGrows
    <3> QED
      BY <2>1, <3>1 DEF CounterDominates, UpTo
  <2> QED
    BY <2>3, <2>4
<1>d. ASSUME NEW th \in Threads, NEW t \in Transcripts, UNCHANGED counter, docs' = [docs EXCEPT ![t] = new[th]],
             UpTo(new[th].history, counter)
      PROVE  CounterDominates'
  <2>1. ASSUME NEW w \in Transcripts, docs'[w] # NoDoc PROVE UpTo(docs'[w].history, counter)
    BY <1>0, <1>a, <1>d, <2>1
  <2> QED
    BY <1>d, <2>1 DEF CounterDominates, UpTo
<1>4. ASSUME NEW th \in Threads, WriteJson(th) PROVE Stamped' /\ CounterDominates'
  <2>1. job[th].tid \in Transcripts /\ UpTo(new[th].history, counter)
    BY <1>0, <1>4 DEF WriteJson, Stamped, CounterInv, LogInv, TypeInv, Control, Job
  <2>2. CounterDominates'
    BY <1>4, <1>d, <2>1 DEF WriteJson
  <2>3. CASE Leave(th)
    BY <1>4, <2>2, <2>3, LeaveStamped DEF WriteJson
  <2>4. CASE ~Leave(th)
    <3>1. pc'[th] = "txt" /\ UNCHANGED <<counter, new, lam, cur>> /\ \A u \in Threads \ {th} : pc'[u] = pc[u]
      BY <1>0, <1>4, <2>4 DEF WriteJson
    <3> QED
      BY <1>0, <2>2, <3>1 DEF Stamped
  <2> QED
    BY <2>3, <2>4
<1>5. ASSUME NEW th \in Threads, TranscribeJson(th) PROVE Stamped' /\ CounterDominates'
  <2>1. job[th].tid \in Transcripts /\ new[th].history = << >>
    BY <1>5, FreshDocType DEF TranscribeJson, CounterInv, LogInv, TypeInv, Control, Job
  <2>2. UpTo(new[th].history, counter)
    BY <2>1 DEF UpTo
  <2> QED
    BY <1>5, <1>d, <2>1, <2>2, LeaveStamped DEF TranscribeJson
<1>6. ASSUME NEW th \in Threads, WriteTxt(th) \/ Abort(th) PROVE Stamped' /\ CounterDominates'
  BY <1>6, <1>b, LeaveStamped DEF WriteTxt, Abort
<1>7. ASSUME NEW th \in Threads, NEW t \in Transcripts, NEW r \in OpRequest, PatchRead(th, t, r)
      PROVE  Stamped' /\ CounterDominates'
  BY <1>7, <1>a, BeginStamped DEF PatchRead
<1>8. ASSUME NEW th \in Threads, NEW t \in Transcripts, NEW m \in Mappings, RelabelRead(th, t, m)
      PROVE  Stamped' /\ CounterDominates'
  BY <1>8, <1>a, RelabelDoc, BeginStamped DEF RelabelRead
<1>9. ASSUME NEW th \in Threads, NEW t \in Transcripts, NEW s \in Values, SummarizeRead(th, t, s)
      PROVE  Stamped' /\ CounterDominates'
  <2> DEFINE d == [docs[t] EXCEPT !.summary = s]
  <2>1. docs[t] # NoDoc /\ Begin(th, "summarize", t, Null, d, "json")
    BY <1>9 DEF SummarizeRead
  <2>2. d.history = docs[t].history /\ UpTo(docs[t].history, counter)
    BY <1>a, <2>1, SummaryDoc
  <2> HIDE DEF d
  <2> QED
    BY <2>1, <2>2, BeginStamped
<1>10. ASSUME NEW th \in Threads, NEW t \in Transcripts, NEW d \in ImportDocs, ImportBegin(th, t, d)
       PROVE  Stamped' /\ CounterDominates'
  <2>1. UpTo(d.history, counter)
    BY DEF UpTo, Foreign
  <2> QED
    BY <1>10, <2>1, BeginStamped DEF ImportBegin
<1>11. ASSUME NEW th \in Threads, NEW t \in Transcripts, NEW v \in Values, TranscribeTxt(th, t, v)
       PROVE  Stamped' /\ CounterDominates'
  <2>1. /\ pc'[th] = "tjson" /\ UNCHANGED <<docs, counter, lam, cur>>
        /\ \A u \in Threads \ {th} : pc'[u] = pc[u] /\ new'[u] = new[u]
    BY <1>0, <1>11 DEF TranscribeTxt
  <2> QED
    BY <1>0, <1>b, <2>1 DEF Stamped
<1>12. ASSUME Crash PROVE Stamped' /\ CounterDominates'
  BY <1>12, <1>b DEF Crash, Stamped
<1>13. ASSUME UNCHANGED vars PROVE Stamped' /\ CounterDominates'
  BY <1>0, <1>13, <1>b DEF vars, Stamped
<1> QED
  BY <1>1, <1>2, <1>3, <1>4, <1>5, <1>6, <1>7, <1>8, <1>9, <1>10, <1>11, <1>12, <1>13
     DEF Next, Step, Request

\* The counter in workspace.json is never behind an op that the hub has logged, for
\* every number of threads and over crashes, I/O errors and transcriptions, as long
\* as one transcript is edited: its lock then covers get_lamport to bump_lamport_to.
THEOREM CounterNeverBehind ==
  ASSUME OneTranscript
  PROVE  Spec => []CounterDominates
<1>1. Init => CounterInv
  <2>1. Init => LogInv
    BY InitTypeInv DEF Init, LogInv, Owner
  <2>2. Init => Stamped /\ CounterDominates
    BY FreshDocType DEF Init, Stamped, CounterDominates
  <2> QED
    BY <2>1, <2>2 DEF CounterInv
<1>2. CounterInv /\ [Next]_vars => CounterInv'
  BY NextCounterInv
<1>3. CounterInv => CounterDominates
  BY DEF CounterInv
<1>4. QED
  BY <1>1, <1>2, <1>3, PTL DEF Spec

-----------------------------------------------------------------------------
\* Two clocks that do not beat each other are equal.
LEMMA BeatsTotal ==
  ASSUME NEW a \in Clock, NEW c \in Clock, ~beats(a, c), ~beats(c, a)
  PROVE  a = c
<1>1. /\ a.lamport \in Nat /\ c.lamport \in Nat /\ a.device \in Nat /\ c.device \in Nat
  BY NumbersAssumption DEF Clock
<1>2. a.lamport = c.lamport /\ a.device = c.device
  BY <1>1 DEF beats
<1>3. a = [device |-> a.device, lamport |-> a.lamport] /\ c = [device |-> c.device, lamport |-> c.lamport]
  BY DEF Clock
<1>4. QED
  BY <1>2, <1>3

\* Clock.beats is transitive.
LEMMA BeatsAcross ==
  ASSUME NEW a \in Clock, NEW b \in Clock, NEW c \in Clock, beats(b, a), beats(c, b)
  PROVE  beats(c, a)
<1>1. /\ a.lamport \in Nat /\ b.lamport \in Nat /\ c.lamport \in Nat
      /\ a.device \in Nat /\ b.device \in Nat /\ c.device \in Nat
  BY NumbersAssumption DEF Clock
<1>2. QED
  BY <1>1, NullsAssumption DEF beats

\* The order of sorted() is a strict total order on the positions of a log.
LEMMA BeforeOrder ==
  ASSUME NEW h \in Seq(Op)
  PROVE  /\ \A i \in DOMAIN h : ~Before(h, i, i)
         /\ \A i, j \in DOMAIN h : i # j => Before(h, i, j) \/ Before(h, j, i)
         /\ \A i, j, k \in DOMAIN h : Before(h, i, j) /\ Before(h, j, k) => Before(h, i, k)
<1>1. \A i \in DOMAIN h : i \in Nat /\ h[i] \in Op /\ ClockOf(h[i]) \in Clock
  BY OpClock
<1>2. ASSUME NEW i \in DOMAIN h PROVE ~Before(h, i, i)
  BY <1>1, BeatsIrreflexive DEF Before
<1>3. ASSUME NEW i \in DOMAIN h, NEW j \in DOMAIN h, i # j
      PROVE  Before(h, i, j) \/ Before(h, j, i)
  BY <1>1, <1>3, BeatsTotal DEF Before
<1>4. ASSUME NEW i \in DOMAIN h, NEW j \in DOMAIN h, NEW k \in DOMAIN h,
             Before(h, i, j), Before(h, j, k)
      PROVE  Before(h, i, k)
  <2> DEFINE a == ClockOf(h[i])
             b == ClockOf(h[j])
             c == ClockOf(h[k])
  <2>1. /\ a \in Clock /\ b \in Clock /\ c \in Clock /\ i \in Nat /\ j \in Nat /\ k \in Nat
        /\ beats(b, a) \/ (a = b /\ i < j)
        /\ beats(c, b) \/ (b = c /\ j < k)
    BY <1>1, <1>4 DEF Before
  <2> HIDE DEF a, b, c
  <2>2. beats(c, a) \/ (a = c /\ i < k)
    <3>1. CASE beats(b, a) /\ beats(c, b)
      BY <2>1, <3>1, BeatsAcross
    <3>2. CASE a = b \/ b = c
      BY <2>1, <3>2
    <3> QED
      BY <2>1, <3>1, <3>2
  <2> QED
    BY <2>2 DEF Before, a, c
<1> QED
  BY <1>2, <1>3, <1>4

\* Sorting by rank loses no op and repeats none: each place of the sorted log
\* is that of one position of the log, and an op that comes before another in
\* the order has the lower place.
LEMMA RankSorts ==
  ASSUME NEW h \in Seq(Op)
  PROVE  /\ \A i \in DOMAIN h : Rank(h, i) \in 0..Len(h) - 1
         /\ \A i, j \in DOMAIN h : Before(h, i, j) => Rank(h, i) < Rank(h, j)
         /\ \A n \in 1..Len(h) : \E i \in DOMAIN h : Rank(h, i) = n - 1
<1> DEFINE D == DOMAIN h
           L == Len(h)
           Under(i) == {j \in D : Before(h, j, i)}
<1>1. D = 1..L /\ L \in Nat /\ IsFiniteSet(D) /\ Cardinality(D) = L
  <2>1. D = 1..L /\ L \in Nat
    OBVIOUS
  <2> HIDE DEF D, L
  <2>2. IsFiniteSet(1..L) /\ Cardinality(1..L) = IF 1 > L THEN 0 ELSE L - 1 + 1
    BY <2>1, FS_Interval
  <2> QED
    BY <2>1, <2>2
<1>2. ASSUME NEW i \in D
      PROVE  IsFiniteSet(Under(i)) /\ Rank(h, i) \in 0..L - 1
  <2>1. Under(i) \in SUBSET D /\ i \in D /\ i \notin Under(i)
    BY <1>2, BeforeOrder
  <2>2. IsFiniteSet(Under(i)) /\ Cardinality(Under(i)) <= Cardinality(D)
        /\ Cardinality(Under(i)) # Cardinality(D) /\ Cardinality(Under(i)) \in Nat
    BY <1>1, <2>1, FS_Subset, FS_CardinalityType
  <2>3. Rank(h, i) = Cardinality(Under(i))
    BY DEF Rank
  <2> HIDE DEF D, L, Under
  <2> QED
    BY <1>1, <2>2, <2>3
<1>3. ASSUME NEW i \in D, NEW j \in D, Before(h, i, j)
      PROVE  Rank(h, i) < Rank(h, j)
  <2>1. Under(i) \in SUBSET Under(j) /\ i \in Under(j) /\ i \notin Under(i)
    BY <1>3, BeforeOrder
  <2>2. IsFiniteSet(Under(j))
    BY <1>2
  <2>3. Rank(h, i) = Cardinality(Under(i)) /\ Rank(h, j) = Cardinality(Under(j))
    BY DEF Rank
  <2>4. Rank(h, i) \in 0..L - 1 /\ Rank(h, j) \in 0..L - 1
    BY <1>2
  <2> HIDE DEF Under
  <2>5. Cardinality(Under(i)) <= Cardinality(Under(j)) /\ Cardinality(Under(i)) # Cardinality(Under(j))
    BY <2>1, <2>2, FS_Subset
  <2> QED
    BY <1>1, <2>3, <2>4, <2>5
<1>4. ASSUME NEW n \in 1..L PROVE \E i \in D : Rank(h, i) = n - 1
  <2> DEFINE f == [i \in D |-> Rank(h, i)]
             T == 0..L - 1
  <2>1. IsFiniteSet(T) /\ Cardinality(T) = L
    <3>1. L \in Nat
      BY <1>1
    <3> HIDE DEF L
    <3>2. IsFiniteSet(0..L - 1) /\ Cardinality(0..L - 1) = IF 0 > L - 1 THEN 0 ELSE L - 1 - 0 + 1
      BY <3>1, FS_Interval
    <3> QED
      BY <3>1, <3>2
  <2>2. f \in [D -> T]
    BY <1>2
  <2>3. \A i, j \in D : f[i] = f[j] => i = j
    <3> SUFFICES ASSUME NEW i \in D, NEW j \in D, Rank(h, i) = Rank(h, j), i # j PROVE FALSE
      OBVIOUS
    <3>1. Rank(h, i) \in 0..L - 1 /\ Rank(h, j) \in 0..L - 1
      BY <1>2
    <3>2. Before(h, i, j) \/ Before(h, j, i)
      BY BeforeOrder
    <3>3. Rank(h, i) < Rank(h, j) \/ Rank(h, j) < Rank(h, i)
      BY <1>3, <3>2
    <3> HIDE DEF D, L
    <3> QED
      BY <1>1, <3>1, <3>3
  <2> HIDE DEF f, T
  <2>4. f \in Injection(D, T)
    BY <2>2, <2>3, Fun_IsInj
  <2>5. f \in Surjection(D, T)
    BY <1>1, <2>1, <2>4, FS_Injection
  <2>6. n - 1 \in T
    BY <1>1, <1>4 DEF T
  <2>7. \E i \in D : f[i] = n - 1
    BY <2>5, <2>6 DEF Surjection
  <2> QED
    BY <2>7 DEF f
<1> QED
  BY <1>1, <1>2, <1>3, <1>4

\* What the place n of the sorted log holds: the op at a position of the log
\* of that rank; and each op of the log is there, at the place of its rank.
LEMMA SortedPlaces ==
  ASSUME NEW h \in Seq(Op), NEW n \in 1..Len(h)
  PROVE  \E i \in DOMAIN h : Rank(h, i) = n - 1 /\ SortedOps(h)[n] = h[i]
<1>1. n \in DOMAIN h
  OBVIOUS
<1>2. \E i \in DOMAIN h : Rank(h, i) = n - 1
  BY RankSorts
<1> QED
  BY <1>1, <1>2 DEF SortedOps

LEMMA SortedHas ==
  ASSUME NEW h \in Seq(Op), NEW i \in DOMAIN h
  PROVE  Rank(h, i) + 1 \in 1..Len(h) /\ SortedOps(h)[Rank(h, i) + 1] = h[i]
<1> DEFINE n == Rank(h, i) + 1
<1>1. Rank(h, i) \in 0..Len(h) - 1 /\ Len(h) \in Nat
  BY RankSorts
<1>2. n \in 1..Len(h) /\ n - 1 = Rank(h, i)
  BY <1>1
<1> HIDE DEF n
<1>3. PICK j \in DOMAIN h : Rank(h, j) = n - 1 /\ SortedOps(h)[n] = h[j]
  BY <1>2, SortedPlaces
<1>4. j = i
  <2> SUFFICES ASSUME j # i PROVE FALSE
    OBVIOUS
  <2>1. Rank(h, i) < Rank(h, j) \/ Rank(h, j) < Rank(h, i)
    BY BeforeOrder, RankSorts
  <2> QED
    BY <1>1, <1>2, <1>3, <2>1
<1> QED
  BY <1>2, <1>3, <1>4 DEF n

\* A nonempty set of numbers has a least one.
LEMMA LeastNumber ==
  ASSUME NEW I \in SUBSET Nat, I # {}
  PROVE  \E n \in I : \A m \in I : n <= m
<1> DEFINE R == OpToRel(<, Nat)
<1>1. \A x, y \in Nat : x < y => <<x, y>> \in R
  <2> SUFFICES ASSUME NEW x \in Nat, NEW y \in Nat, x < y PROVE <<x, y>> \in R
    OBVIOUS
  <2>1. <<x, y>> \in Nat \X Nat /\ <<x, y>>[1] < <<x, y>>[2]
    OBVIOUS
  <2> QED BY <2>1, Zenon DEF OpToRel
<1>2. IsWellFoundedOn(R, Nat)
  BY NatLessThanWellFounded
<1> HIDE DEF R
<1>3. PICK n \in I : \A m \in I : ~(<<m, n>> \in R)
  BY <1>2, WFMin
<1>4. ASSUME NEW m \in I PROVE n <= m
  <2>1. m \in Nat /\ n \in Nat /\ ~(m < n)
    BY <1>1, <1>3
  <2> QED
    BY <2>1
<1> QED
  BY <1>4

\* The loop of replay_history is defined for every log.
LEMMA LoopDefined ==
  ASSUME NEW h \in Seq(Op), NEW n \in Nat
  PROVE  \E f : f = [m \in 0..n |-> IF m = 0 THEN EmptyState ELSE ReplayOp(f[m - 1], SortedOps(h)[m])]
<1> DEFINE Body(f, m) == IF m = 0 THEN EmptyState ELSE ReplayOp(f[m - 1], SortedOps(h)[m])
           Bad == {k \in Nat : ~\E f : f = [m \in 0..k |-> Body(f, m)]}
<1>1. SUFFICES ASSUME Bad # {} PROVE FALSE
  OBVIOUS
<1>2. PICK k \in Bad : \A j \in Bad : k <= j
  BY <1>1, LeastNumber
<1>3. CASE k = 0
  <2> DEFINE f == [m \in 0..0 |-> EmptyState]
  <2>1. f = [m \in 0..0 |-> Body(f, m)]
    OBVIOUS
  <2> QED
    BY <1>2, <1>3, <2>1
<1>4. CASE k # 0
  <2>0. k \in Nat /\ \A j \in Bad : j \in Nat /\ k <= j
    BY <1>2
  <2> HIDE DEF Bad
  <2>1. k \in Nat /\ k - 1 \in Nat /\ k - 1 \notin Bad
    BY <1>4, <2>0
  <2>2. PICK f : f = [m \in 0..k - 1 |-> Body(f, m)]
    BY <2>1 DEF Bad
  <2> DEFINE g == [m \in 0..k |-> IF m = k THEN ReplayOp(f[k - 1], SortedOps(h)[k]) ELSE f[m]]
  <2>3. \A m \in 0..k - 1 : g[m] = f[m] /\ f[m] = Body(f, m)
    BY <2>1, <2>2
  <2>4. ASSUME NEW m \in 0..k PROVE g[m] = Body(g, m)
    <3>1. CASE m = 0
      <4>1. m \in 0..k - 1
        BY <2>1, <3>1
      <4> QED
        BY <2>3, <3>1, <4>1
    <3>2. CASE m # 0 /\ m # k
      <4>1. m \in 0..k - 1 /\ m - 1 \in 0..k - 1
        BY <2>1, <3>2
      <4> QED
        BY <2>3, <3>2, <4>1
    <3>3. CASE m = k
      <4>1. k - 1 \in 0..k - 1
        BY <2>1
      <4>2. g[k - 1] = f[k - 1]
        BY <2>3, <4>1
      <4> QED
        BY <1>4, <3>3, <4>2
    <3> QED
      BY <3>1, <3>2, <3>3
  <2>5. g = [m \in 0..k |-> Body(g, m)]
    BY <2>4
  <2> HIDE DEF g, Body
  <2>6. k \notin Bad
    BY <2>5 DEF Bad
  <2> QED
    BY <1>2, <2>6
<1> QED
  BY <1>3, <1>4

\* replay_history unfolded.
LEMMA ReplayLoop ==
  ASSUME NEW h \in Seq(Op)
  PROVE  \E state :
           /\ replay_history(h) = state[Len(h)] /\ state[0] = EmptyState
           /\ \A n \in 1..Len(h) : state[n] = ReplayOp(state[n - 1], SortedOps(h)[n])
<1> DEFINE L == Len(h)
           Body(g) == [m \in 0..L |-> IF m = 0 THEN EmptyState
                                             ELSE ReplayOp(g[m - 1], SortedOps(h)[m])]
           f == CHOOSE g : g = Body(g)
<1>1. f = Body(f)
  <2>1. L \in Nat
    OBVIOUS
  <2> HIDE DEF L
  <2>2. \E g : g = Body(g)
    BY <2>1, LoopDefined
  <2> HIDE DEF Body
  <2> QED
    BY <2>2
<1>2. replay_history(h) = f[L]
  BY DEF replay_history
<1> HIDE DEF f
<1>3. L \in Nat
  OBVIOUS
<1>4. f[0] = EmptyState
  BY <1>1, <1>3
<1>5. ASSUME NEW n \in 1..L PROVE f[n] = ReplayOp(f[n - 1], SortedOps(h)[n])
  <2>1. n \in 0..L /\ n # 0
    BY <1>3
  <2> QED
    BY <1>1, <2>1
<1> QED
  BY <1>2, <1>4, <1>5

\* Every place of the sorted log holds an op.
LEMMA SortedType ==
  ASSUME NEW h \in Seq(Op)
  PROVE  \A n \in 1..Len(h) : SortedOps(h)[n] \in Op
<1> SUFFICES ASSUME NEW n \in 1..Len(h) PROVE SortedOps(h)[n] \in Op
  OBVIOUS
<1>1. PICK i \in DOMAIN h : SortedOps(h)[n] = h[i]
  BY SortedPlaces
<1> QED
  BY <1>1

\* The state st after the first n ops of q: every key has the clock and the
\* value of the first of its ops that none of its other ops beats.
Tracks(q, st, n) ==
  /\ st.clocks \in [Keys -> Clock \cup {NoClock}] /\ st.vals \in [Keys -> Texts]
  /\ \A k \in Keys :
       \/ st.clocks[k] = NoClock /\ \A j \in 1..n : q[j].key # k
       \/ \E i \in 1..n :
            /\ q[i].key = k /\ st.clocks[k] = ClockOf(q[i])
            /\ st.vals[k] = Coerce(k, q[i].value)
            /\ \A j \in 1..n : q[j].key = k =>
                 /\ ~beats(ClockOf(q[j]), st.clocks[k])
                 /\ j < i => ClockOf(q[j]) # st.clocks[k]

\* One more turn of the loop.
LEMMA TracksStep ==
  ASSUME NEW q, NEW st, NEW n \in Nat, \A j \in 1..n + 1 : q[j] \in Op, Tracks(q, st, n)
  PROVE  Tracks(q, ReplayOp(st, q[n + 1]), n + 1)
<1> DEFINE o == q[n + 1]
           c == ClockOf(o)
           u == ReplayOp(st, o)
<1>1. /\ o \in Op /\ c \in Clock /\ o.key \in Keys /\ o.value \in Values \cup {Null}
      /\ \A j \in 1..n : q[j] \in Op /\ ClockOf(q[j]) \in Clock
      /\ n + 1 \in 1..n + 1 /\ \A j \in 1..n : j \in 1..n + 1 /\ j < n + 1
      /\ \A j \in 1..n + 1 : j \in 1..n \/ j = n + 1
  <2>1. n + 1 \in 1..n + 1 /\ \A j \in 1..n : j \in 1..n + 1 /\ j < n + 1
    OBVIOUS
  <2>2. \A j \in 1..n + 1 : j \in 1..n \/ j = n + 1
    OBVIOUS
  <2>3. o \in Op /\ o.key \in Keys /\ o.value \in Values \cup {Null}
    BY <2>1 DEF Op
  <2> QED
    BY <2>1, <2>2, <2>3, OpClock
<1>2. st.clocks \in [Keys -> Clock \cup {NoClock}] /\ st.vals \in [Keys -> Texts]
  BY DEF Tracks
<1>3. Coerce(o.key, o.value) \in Texts
  BY <1>1 DEF Coerce, Texts
<1> HIDE DEF o, c
<1>4. CASE beats(c, st.clocks[o.key])
  <2>1. /\ u.vals = [st.vals EXCEPT ![o.key] = Coerce(o.key, o.value)]
        /\ u.clocks = [st.clocks EXCEPT ![o.key] = c]
    BY <1>4 DEF ReplayOp, c
  <2> HIDE DEF u
  <2>2. u.clocks \in [Keys -> Clock \cup {NoClock}] /\ u.vals \in [Keys -> Texts]
    BY <1>1, <1>2, <1>3, <2>1
  <2>3. /\ u.clocks[o.key] = c /\ u.vals[o.key] = Coerce(o.key, o.value)
        /\ \A k \in Keys : k # o.key => u.clocks[k] = st.clocks[k] /\ u.vals[k] = st.vals[k]
    BY <1>1, <1>2, <2>1
  <2>4. ASSUME NEW j \in 1..n, q[j].key = o.key
        PROVE  ~beats(ClockOf(q[j]), c) /\ ClockOf(q[j]) # c
    <3>1. st.clocks[o.key] \in Clock /\ ~beats(ClockOf(q[j]), st.clocks[o.key])
      BY <1>1, <1>2, <2>4 DEF Tracks
    <3> QED
      BY <1>1, <1>4, <3>1, BeatsOrder
  <2>5. ~beats(c, c)
    BY <1>1, BeatsIrreflexive
  <2>6. ASSUME NEW k \in Keys, k # o.key
        PROVE  \/ u.clocks[k] = NoClock /\ \A j \in 1..n + 1 : q[j].key # k
               \/ \E i \in 1..n + 1 :
                    /\ q[i].key = k /\ u.clocks[k] = ClockOf(q[i])
                    /\ u.vals[k] = Coerce(k, q[i].value)
                    /\ \A j \in 1..n + 1 : q[j].key = k =>
                         /\ ~beats(ClockOf(q[j]), u.clocks[k])
                         /\ j < i => ClockOf(q[j]) # u.clocks[k]
    <3>1. u.clocks[k] = st.clocks[k] /\ u.vals[k] = st.vals[k]
      BY <2>3, <2>6
    <3>2. \A j \in 1..n + 1 : q[j].key = k => j \in 1..n
      BY <1>1, <2>6 DEF o
    <3>3. CASE st.clocks[k] = NoClock /\ \A j \in 1..n : q[j].key # k
      BY <3>1, <3>2, <3>3
    <3>4. CASE \E i \in 1..n :
                 /\ q[i].key = k /\ st.clocks[k] = ClockOf(q[i])
                 /\ st.vals[k] = Coerce(k, q[i].value)
                 /\ \A j \in 1..n : q[j].key = k =>
                      /\ ~beats(ClockOf(q[j]), st.clocks[k])
                      /\ j < i => ClockOf(q[j]) # st.clocks[k]
      BY <1>1, <3>1, <3>2, <3>4
    <3> QED
      BY <3>3, <3>4 DEF Tracks
  <2>7. /\ q[n + 1].key = o.key /\ u.clocks[o.key] = ClockOf(q[n + 1])
        /\ u.vals[o.key] = Coerce(o.key, q[n + 1].value)
        /\ \A j \in 1..n + 1 : q[j].key = o.key =>
             /\ ~beats(ClockOf(q[j]), u.clocks[o.key])
             /\ j < n + 1 => ClockOf(q[j]) # u.clocks[o.key]
    <3>1. ~(n + 1 < n + 1)
      OBVIOUS
    <3>2. o = q[n + 1] /\ c = ClockOf(q[n + 1])
      BY DEF o, c
    <3> QED
      BY <1>1, <2>3, <2>4, <2>5, <3>1, <3>2
  <2>8. Tracks(q, u, n + 1)
    BY <1>1, <2>2, <2>6, <2>7 DEF Tracks
  <2> QED
    BY <2>8 DEF u, o
<1>5. CASE ~beats(c, st.clocks[o.key])
  <2>1. u = st
    BY <1>5 DEF ReplayOp, c
  <2>2. st.clocks[o.key] # NoClock
    BY <1>5 DEF beats
  <2>3. ASSUME NEW k \in Keys, NEW i \in 1..n,
               /\ q[i].key = k /\ st.clocks[k] = ClockOf(q[i])
               /\ \A j \in 1..n : q[j].key = k =>
                    /\ ~beats(ClockOf(q[j]), st.clocks[k])
                    /\ j < i => ClockOf(q[j]) # st.clocks[k]
        PROVE  \A j \in 1..n + 1 : q[j].key = k =>
                    /\ ~beats(ClockOf(q[j]), st.clocks[k])
                    /\ j < i => ClockOf(q[j]) # st.clocks[k]
    <3> SUFFICES ASSUME NEW j \in 1..n + 1, q[j].key = k
                 PROVE  /\ ~beats(ClockOf(q[j]), st.clocks[k])
                        /\ j < i => ClockOf(q[j]) # st.clocks[k]
      OBVIOUS
    <3>1. CASE j \in 1..n
      BY <2>3, <3>1
    <3>2. CASE j = n + 1
      <4>1. ~(j < i)
        BY <3>2
      <4>2. k = o.key /\ ClockOf(q[j]) = c
        BY <3>2 DEF o, c
      <4> QED
        BY <1>5, <4>1, <4>2
    <3> QED
      BY <1>1, <3>1, <3>2
  <2>4. ASSUME NEW k \in Keys, st.clocks[k] = NoClock
        PROVE  \A j \in 1..n : q[j].key # k
    BY <1>1, <2>4, NullsAssumption DEF Tracks
  <2>5. ASSUME NEW k \in Keys, st.clocks[k] = NoClock
        PROVE  \A j \in 1..n + 1 : q[j].key # k
    BY <1>1, <2>2, <2>4, <2>5 DEF o
  <2>6. Tracks(q, st, n + 1)
    BY <1>1, <1>2, <2>3, <2>5 DEF Tracks
  <2> QED
    BY <2>1, <2>6 DEF u, o
<1> QED
  BY <1>4, <1>5

\* The whole loop, by the least number of turns after which it would fail.
LEMMA ReplayTracks ==
  ASSUME NEW h \in Seq(Op)
  PROVE  Tracks(SortedOps(h), replay_history(h), Len(h))
<1> DEFINE L == Len(h)
           q == SortedOps(h)
<1>0. L \in Nat /\ \A j \in 1..L : q[j] \in Op
  BY SortedType
<1>1. PICK state :
        /\ replay_history(h) = state[L] /\ state[0] = EmptyState
        /\ \A n \in 1..L : state[n] = ReplayOp(state[n - 1], q[n])
  BY ReplayLoop
<1> HIDE DEF L, q
<1> DEFINE Bad == {n \in 0..L : ~Tracks(q, state[n], n)}
<1>2. SUFFICES ASSUME Bad # {} PROVE FALSE
  BY <1>0, <1>1 DEF L, q
<1>3. PICK n \in Bad : \A m \in Bad : n <= m
  <2>1. Bad \in SUBSET Nat
    BY <1>0
  <2> HIDE DEF Bad
  <2> QED
    BY <1>2, <2>1, LeastNumber
<1>4. n \in 0..L /\ ~Tracks(q, state[n], n) /\ n \in Nat
  BY <1>0, <1>3
<1>5. CASE n = 0
  <2>1. Null \in Texts /\ 1..0 = {}
    BY DEF Texts
  <2>2. Tracks(q, EmptyState, 0)
    BY <2>1 DEF Tracks, EmptyState
  <2> QED
    BY <1>1, <1>4, <1>5, <2>2
<1>6. CASE n # 0
  <2>1. n - 1 \in 0..L /\ n - 1 \in Nat /\ ~(n <= n - 1) /\ n \in 1..L /\ n - 1 + 1 = n
    BY <1>0, <1>4, <1>6
  <2>2. Tracks(q, state[n - 1], n - 1)
    BY <1>3, <2>1
  <2>3. \A j \in 1..n - 1 + 1 : q[j] \in Op
    BY <1>0, <2>1
  <2>4. Tracks(q, ReplayOp(state[n - 1], q[n - 1 + 1]), n - 1 + 1)
    BY <2>1, <2>2, <2>3, TracksStep
  <2> QED
    BY <1>1, <1>4, <2>1, <2>4
<1> QED
  BY <1>5, <1>6

\* A sidecar that its log decides is what replaying that log gives.
LEMMA ReplayAgrees ==
  ASSUME NEW d \in Doc, WellFormed(d), NEW k \in Keys
  PROVE  /\ replay_history(d.history).clocks[k] = d.clocks[k]
         /\ k \notin SpeakerKeys /\ d.clocks[k] # NoClock
              => replay_history(d.history).vals[k] = d.vals[k]
<1> DEFINE h == d.history
           L == Len(h)
           q == SortedOps(h)
           st == replay_history(h)
<1>1. h \in Seq(Op) /\ L \in Nat /\ DOMAIN h = 1..L
  BY DEF Doc
<1>2. \A i \in 1..L : h[i] \in Op /\ ClockOf(h[i]) \in Clock
  BY <1>1, OpClock
<1>3. Tracks(q, st, L)
  BY <1>1, ReplayTracks
<1>4. \A n \in 1..L : \E i \in 1..L : Rank(h, i) = n - 1 /\ q[n] = h[i]
  BY <1>1, SortedPlaces
<1>5. \A i \in 1..L : Rank(h, i) + 1 \in 1..L /\ q[Rank(h, i) + 1] = h[i]
  BY <1>1, SortedHas
<1>6. /\ \A i, j \in 1..L : Before(h, i, j) => Rank(h, i) < Rank(h, j)
      /\ \A i \in 1..L : Rank(h, i) \in Nat
  <2>1. \A i \in 1..L : Rank(h, i) \in 0..L - 1
    BY <1>1, RankSorts
  <2>2. \A i, j \in 1..L : Before(h, i, j) => Rank(h, i) < Rank(h, j)
    BY <1>1, RankSorts
  <2> QED
    BY <2>1, <2>2
<1> HIDE DEF L, q, st
<1>7. CASE \A i \in 1..L : h[i].key # k
  <2>1. d.clocks[k] = NoClock
    BY <1>7 DEF WellFormed, Wins, L
  <2>2. \A n \in 1..L : q[n].key # k
    BY <1>4, <1>7
  <2>3. st.clocks[k] = NoClock
    BY <1>3, <2>2 DEF Tracks
  <2> QED
    BY <2>1, <2>3 DEF st
<1>8. CASE \E i \in 1..L : h[i].key = k
  <2>1. PICK i \in 1..L :
          /\ Wins(d, k, i)
          /\ k \notin SpeakerKeys => d.vals[k] = Coerce(k, h[i].value)
    BY <1>8 DEF WellFormed, L
  <2>2. PICK n \in 1..L :
          /\ q[n].key = k /\ st.clocks[k] = ClockOf(q[n])
          /\ st.vals[k] = Coerce(k, q[n].value)
          /\ \A j \in 1..L : q[j].key = k =>
               /\ ~beats(ClockOf(q[j]), st.clocks[k])
               /\ j < n => ClockOf(q[j]) # st.clocks[k]
    <3>1. ~\A j \in 1..L : q[j].key # k
      BY <1>5, <1>8
    <3> QED
      BY <1>3, <3>1 DEF Tracks
  <2>3. PICK p \in 1..L : Rank(h, p) = n - 1 /\ q[n] = h[p]
    BY <1>4
  <2>4. /\ h[i].key = k /\ d.clocks[k] = ClockOf(h[i])
        /\ \A j \in 1..L : h[j].key = k =>
             /\ ~beats(ClockOf(h[j]), d.clocks[k])
             /\ j < i => ClockOf(h[j]) # d.clocks[k]
    BY <2>1 DEF Wins, L
  <2>5. ClockOf(h[i]) = ClockOf(h[p])
    <3>1. ~beats(ClockOf(h[p]), ClockOf(h[i]))
      BY <2>2, <2>3, <2>4
    <3>2. ~beats(ClockOf(h[i]), ClockOf(h[p]))
      BY <1>5, <2>2, <2>3, <2>4
    <3> QED
      BY <1>2, <3>1, <3>2, BeatsTotal
  <2>6. i = p
    <3>1. ~(p < i)
      BY <2>2, <2>3, <2>4, <2>5
    <3>2. ~(i < p)
      <4> SUFFICES ASSUME i < p PROVE FALSE
        OBVIOUS
      <4>1. Before(h, i, p)
        BY <2>5 DEF Before
      <4>2. Rank(h, i) < Rank(h, p) /\ Rank(h, i) \in Nat
        BY <1>6, <4>1
      <4>3. Rank(h, i) + 1 < n
        BY <1>1, <2>3, <4>2 DEF L
      <4> QED
        BY <1>5, <2>2, <2>3, <2>4, <2>5, <4>3
    <3> QED
      BY <1>1, <3>1, <3>2 DEF L
  <2> QED
    BY <2>1, <2>2, <2>3, <2>4, <2>6 DEF st
<1> QED
  BY <1>7, <1>8

\* "The resulting speakers/clocks match what live merging would have
\* produced" (crdt.py, replay_history): after any interleaving of edits,
\* crashes, failed writes and transcriptions, sorting the log of a sidecar and
\* replaying it gives the clocks, and the title and the texts of edited
\* segments, that are on disk.
THEOREM ReplayGivesDisk == Spec => []ReplayMatchesLive
<1>1. Init => DecidesInv
  BY InitDecidesInv
<1>2. DecidesInv /\ [Next]_vars => DecidesInv'
  BY NextDecidesInv
<1>3. DecidesInv => ReplayMatchesLive
  <2> SUFFICES ASSUME DecidesInv, NEW t \in Transcripts, docs[t] # NoDoc, NEW k \in Keys
               PROVE  /\ replay_history(docs[t].history).clocks[k] = docs[t].clocks[k]
                      /\ k \notin SpeakerKeys /\ docs[t].clocks[k] # NoClock
                           => replay_history(docs[t].history).vals[k] = docs[t].vals[k]
    BY DEF ReplayMatchesLive
  <2>1. docs[t] \in Doc /\ WellFormed(docs[t])
    BY DEF DecidesInv, TypeInv, TypeOK, HistoryDecides
  <2> QED
    BY <2>1, ReplayAgrees
<1>4. QED
  BY <1>1, <1>2, <1>3, PTL DEF Spec
=============================================================================
