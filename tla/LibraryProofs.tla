---------------------------- MODULE LibraryProofs ----------------------------
(***************************************************************************)
(* No recording is lost on its way to the hub, no poke, and no signature   *)
(* is accepted twice unless it has come early: proofs about UploadPath.    *)
(*                                                                         *)
(* What the runtime thread believes about the entry in its hands ties the  *)
(* four results together: a positive answer belongs to a stored request of *)
(* that entry (Waiting), so the audio that is unlinked is on the hub       *)
(* (Held), and so is everything told of as sent (SentStored, Reported).    *)
(*                                                                         *)
(* And about the library that the uploads end in: a row with its file's    *)
(* mtime has its text, and a listing answers what the disk held when the   *)
(* request got its turn.  A walk may be overtaken by a change of a file;   *)
(* its directory then has a newer mtime than the one the reconciler        *)
(* remembers, and the next walk looks again.                               *)
(***************************************************************************)
EXTENDS UploadPath, LibraryIndex, FiniteSetTheorems, TLAPS

\* Once copied, a recording is in the outbox or on the hub.
Held == \A e \in Entries : capture[e] # "new" => e \in audio \/ OnHub(e)

\* Nothing is known of a recording that has not been made.
Begun ==
  /\ \A k \in DOMAIN order : capture[order[k]] # "new"
  /\ \A e \in Entries : meta[e] # "none" \/ e \in batch => capture[e] # "new"
  /\ \A i \in Ids : capture[reqs[i].e] # "new"

\* What the runtime thread waits for.
Waiting ==
  /\ rt \notin {"await", "unlink"} => cur = 0
  /\ cur = 0 => ans = "none"
  /\ ans = "ok" => cur \in stored
  /\ rt = "unlink" => cur \in stored /\ reqs[cur].e \notin audio

\* A recording in the outbox whose meta file was begun is found by pending().
Listed == \A e \in audio : capture[e] \in {"meta", "poke", "done"} => meta[e] # "none"

\* After pending() an entry it did not return has poked the runtime since.
Tried ==
  rt \in {"sweep", "await", "unlink", "wait"} /\ ~wake =>
    \A e \in audio : capture[e] = "done" => e \in tried

\* An entry that has left the outbox in this sweep will be told of.
Reported ==
  /\ rt \in {"top", "pending"} => known = {}
  /\ rt \in {"sweep", "await", "unlink"} =>
       \A e \in known \ audio : e \in sent \/ (rt = "unlink" /\ e = reqs[cur].e)
  /\ UploaderTold

SentStored == \A e \in sent : OnHub(e)

\* A request that has been accepted, and not early, is too old, or its nonce
\* is kept for as long as its timestamp is good.
Signatures ==
  \A i \in Ids : ~reqs[i].early =>
    /\ reqs[i].accepted \in {0, 1}
    /\ reqs[i].accepted = 1 =>
         \/ now >= reqs[i].ts + Window
         \/ i \in DOMAIN nonces /\ nonces[i] >= reqs[i].ts + Window

IInv ==
  /\ TypeOK /\ Held /\ Begun /\ Waiting /\ Listed /\ Tried /\ Reported /\ SentStored
  /\ CompleteIsStored /\ Signatures

-----------------------------------------------------------------------------
(* The two sides. *)

\* A request for e is signed.
Appends(e) == \E d \in Int : reqs' = Append(reqs, Signed(e, d))

HubActs ==
  \/ \E i \in Ids : HubStep(i) \/ Break(i) \/ Duplicate(i)
  \/ HubRestarts \/ Tick

LaptopActs ==
  \/ \E e \in Entries : Copy(e) \/ CaptureStep(e)
  \/ RuntimeStep \/ LaptopRestarts

\* The hub touches nothing of the laptop but the answer.
LEMMA HubFrame ==
  ASSUME HubActs
  PROVE  UNCHANGED <<outbox, wake, rt, batch, sent, known, cur, tried>>
BY DEF HubActs, HubStep, Break, Duplicate, HubRestarts, Tick, Receive, Reject, Accept, runtime

\* The laptop touches nothing of the hub but by a new request.
LEMMA LaptopFrame ==
  ASSUME LaptopActs
  PROVE  /\ UNCHANGED <<hub, now>>
         /\ UNCHANGED reqs \/ (rt = "sweep" /\ \E e \in Entries :
              Oldest(e) /\ Appends(e) /\ cur' = Len(reqs'))
BY UploadAssumption
   DEF LaptopActs, CaptureStep, Copy, OpenMeta, WriteMeta, Poke, RuntimeStep, Clear, Pending,
       Send, UnlinkAudio, UnlinkMeta, Abort, Tell, Wait, LaptopRestarts, Appends

LEMMA Sides == ASSUME Next PROVE HubActs \/ LaptopActs
BY DEF Next, HubActs, LaptopActs

\* What the hub does to the requests.
LEMMA HubReqs ==
  ASSUME HubType, HubActs
  PROVE  /\ Ids' = Ids /\ Len(reqs') = Len(reqs)
         /\ \A i \in Ids : reqs'[i].e = reqs[i].e /\ reqs'[i].ts = reqs[i].ts
         /\ stored \subseteq stored'
<1>0. /\ reqs \in Seq(Req) /\ Ids = 1..Len(reqs) /\ Len(reqs) \in Nat
      /\ \A i \in Ids : reqs[i] \in Req
  BY DEF HubType, Ids
<1> DEFINE Goal == /\ Ids' = Ids /\ Len(reqs') = Len(reqs)
                   /\ \A i \in Ids : reqs'[i].e = reqs[i].e /\ reqs'[i].ts = reqs[i].ts
                   /\ stored \subseteq stored'
<1>1. ASSUME UNCHANGED <<reqs, stored>> PROVE Goal
  BY <1>1 DEF Ids
<1>2. ASSUME NEW i \in Ids, NEW n, reqs' = [reqs EXCEPT ![i].net = n], UNCHANGED stored
      PROVE  Goal
  BY <1>0, <1>2 DEF Ids, Req
<1>3. ASSUME NEW i \in Ids, Accept(i) PROVE Goal
  <2>1. /\ reqs' = [reqs EXCEPT ![i].net = "over", ![i].accepted = @ + 1,
                                ![i].early = @ \/ reqs[i].ts > now]
        /\ stored \subseteq stored'
    BY <1>3 DEF Accept
  <2> QED
    BY <1>0, <2>1 DEF Ids, Req
<1>4. ASSUME HubRestarts PROVE Goal
  <2>1. /\ reqs' = [i \in Ids |-> [reqs[i] EXCEPT !.net = IF @ = "streaming" THEN "over" ELSE @,
                                                  !.accepted = 0, !.early = FALSE]]
        /\ stored' = stored
    BY <1>4 DEF HubRestarts
  <2>2. DOMAIN reqs' = 1..Len(reqs)
    BY <1>0, <2>1
  <2>3. Len(reqs') = Len(reqs)
    BY <1>0, <2>2
  <2> QED
    BY <1>0, <2>1, <2>2, <2>3 DEF Ids, Req
<1>5. ASSUME NEW i \in Ids, HubStep(i) \/ Break(i) \/ Duplicate(i) PROVE Goal
  <2>1. \/ Accept(i)
        \/ UNCHANGED stored /\ \E n : reqs' = [reqs EXCEPT ![i].net = n]
    BY <1>5 DEF HubStep, Break, Duplicate, Receive, Reject, hub
  <2> QED
    BY <1>2, <1>3, <2>1
<1>6. ASSUME Tick PROVE Goal
  BY <1>1, <1>6 DEF Tick, hub
<1> HIDE DEF Goal
<1>7. Goal
  BY <1>4, <1>5, <1>6 DEF HubActs
<1> QED
  BY <1>7 DEF Goal

\* Requests are never forgotten, and what is stored stays stored.
LEMMA Kept ==
  ASSUME HubType, [Next]_vars
  PROVE  /\ Ids \subseteq Ids' /\ stored \subseteq stored'
         /\ \A i \in Ids : reqs'[i].e = reqs[i].e /\ reqs'[i].ts = reqs[i].ts
<1>1. CASE HubActs
  BY <1>1, HubReqs
<1>2. CASE LaptopActs
  <2>1. UNCHANGED hub /\ (UNCHANGED reqs \/ \E e \in Entries : Appends(e))
    BY <1>2, LaptopFrame
  <2>2. reqs \in Seq(Req) /\ UNCHANGED stored
    BY <2>1 DEF HubType, hub
  <2>3. CASE UNCHANGED reqs
    BY <2>2, <2>3 DEF Ids
  <2>4. ASSUME NEW e \in Entries, NEW d \in Int, reqs' = Append(reqs, Signed(e, d))
        PROVE  Ids \subseteq Ids' /\ \A i \in Ids : reqs'[i] = reqs[i]
    BY <2>2, <2>4 DEF Ids
  <2> QED
    BY <2>1, <2>2, <2>3, <2>4 DEF Appends
<1>3. CASE UNCHANGED vars
  BY <1>3 DEF vars, hub, Ids
<1> QED
  BY <1>1, <1>2, <1>3, Sides

LEMMA OnHubKept ==
  ASSUME HubType, [Next]_vars
  PROVE  \A e : OnHub(e) => OnHub(e)'
<1>1. \A i \in stored : i \in stored' /\ reqs'[i].e = reqs[i].e
  BY Kept DEF HubType
<1> QED
  BY <1>1 DEF OnHub

-----------------------------------------------------------------------------
(* Types. *)

LEMMA OutboxTypeStep ==
  ASSUME OutboxType, RuntimeType, HubType, Begun, Waiting, [Next]_vars
  PROVE  OutboxType'
<1>0. /\ DOMAIN capture = Entries /\ DOMAIN meta = Entries /\ DOMAIN job = Entries
      /\ order \in Seq(Entries) /\ IsInjective(order)
  BY DEF OutboxType
<1>1. ASSUME UNCHANGED outbox PROVE OutboxType'
  BY <1>1 DEF OutboxType, outbox
<1>2. ASSUME NEW e \in Entries, Copy(e) PROVE OutboxType'
  <2>1. order' = Append(order, e) /\ \A k \in DOMAIN order : order[k] # e
    BY <1>2 DEF Copy, Begun
  <2>2. order' \in Seq(Entries) /\ IsInjective(order')
    BY <1>0, <2>1 DEF IsInjective
  <2> QED
    BY <1>2, <2>2 DEF Copy, OutboxType
<1>3. ASSUME NEW e \in Entries, CaptureStep(e) PROVE OutboxType'
  <2>1. UNCHANGED <<order, audio, job>>
    BY <1>3 DEF CaptureStep, OpenMeta, WriteMeta, Poke
  <2>2. /\ capture' \in [Entries -> {"new", "copied", "meta", "poke", "done", "dead"}]
        /\ meta' \in [Entries -> {"none", "torn", "full"}]
    BY <1>3 DEF CaptureStep, OpenMeta, WriteMeta, Poke, OutboxType
  <2> QED
    BY <2>1, <2>2 DEF OutboxType
<1>4. ASSUME Pending PROVE OutboxType'
  BY <1>4 DEF Pending, OutboxType
<1>5. ASSUME UnlinkAudio PROVE OutboxType'
  BY <1>5 DEF UnlinkAudio, OutboxType
<1>6. ASSUME UnlinkMeta PROVE OutboxType'
  BY <1>6 DEF UnlinkMeta, OutboxType
<1>7. ASSUME Tell PROVE OutboxType'
  BY <1>7 DEF Tell, OutboxType
<1>8. ASSUME LaptopRestarts PROVE OutboxType'
  BY <1>8 DEF LaptopRestarts, OutboxType
<1>9. ASSUME RuntimeStep PROVE OutboxType'
  <2>1. CASE Clear \/ Send \/ Abort \/ Wait
    BY <1>1, <2>1 DEF Clear, Send, Abort, Wait
  <2> QED
    BY <1>4, <1>5, <1>6, <1>7, <1>9, <2>1 DEF RuntimeStep
<1>10. ASSUME UNCHANGED vars \/ HubActs PROVE OutboxType'
  BY <1>1, <1>10, HubFrame DEF vars
<1> QED
  BY <1>2, <1>3, <1>8, <1>9, <1>10, Sides DEF LaptopActs

LEMMA RuntimeTypeStep ==
  ASSUME OutboxType, RuntimeType, HubType, Waiting, [Next]_vars
  PROVE  RuntimeType'
<1>0. reqs \in Seq(Req) /\ Len(reqs) \in Nat /\ \A i \in Ids : reqs[i].e \in Entries
  <2>1. reqs \in Seq(Req) /\ Len(reqs) \in Nat /\ \A i \in Ids : reqs[i] \in Req
    BY DEF HubType, Ids
  <2> QED
    BY <2>1 DEF Req
<1>1. ASSUME UNCHANGED <<runtime, reqs>> PROVE RuntimeType'
  BY <1>1 DEF RuntimeType, runtime
<1>2. ASSUME HubActs PROVE RuntimeType'
  <2>1. ans' \in {"none", "ok", "error"}
    BY <1>2 DEF HubActs, HubStep, Break, Duplicate, HubRestarts, Tick, Receive, Reject, Accept,
                runtime, Answer, RuntimeType
  <2>2. Len(reqs') = Len(reqs)
    BY <1>2, HubReqs
  <2> QED
    BY <1>2, <2>1, <2>2, HubFrame DEF RuntimeType
<1>3. ASSUME NEW e \in Entries, Copy(e) \/ CaptureStep(e) PROVE RuntimeType'
  BY <1>3 DEF CaptureStep, Copy, OpenMeta, WriteMeta, Poke, RuntimeType, runtime
<1>4. ASSUME Send PROVE RuntimeType'
  <2>1. cur' \in 0..Len(reqs')
    BY <1>0, <1>4 DEF Send, Signed
  <2> QED
    BY <1>4, <2>1 DEF Send, RuntimeType
<1>5. ASSUME UnlinkMeta PROVE RuntimeType'
  <2>1. Entry \in Entries
    BY <1>0, <1>5 DEF UnlinkMeta, Waiting, HubType, Entry
  <2>2. cur' \in 0..Len(reqs')
    BY <1>0, <1>5 DEF UnlinkMeta
  <2> QED
    BY <1>5, <2>1, <2>2 DEF UnlinkMeta, RuntimeType
<1>6. ASSUME Clear \/ Pending \/ UnlinkAudio \/ Abort \/ Tell \/ Wait \/ LaptopRestarts
      PROVE RuntimeType'
  <2>1. UNCHANGED reqs /\ (cur' = cur \/ cur' = 0)
    BY <1>6 DEF Clear, Pending, UnlinkAudio, Abort, Tell, Wait, LaptopRestarts
  <2>2. cur' \in 0..Len(reqs')
    BY <1>0, <2>1 DEF RuntimeType
  <2> QED
    BY <1>6, <2>2 DEF Clear, Pending, UnlinkAudio, Abort, Tell, Wait, LaptopRestarts, RuntimeType
<1>7. ASSUME UNCHANGED vars PROVE RuntimeType'
  BY <1>1, <1>7 DEF vars
<1> QED
  BY <1>2, <1>3, <1>4, <1>5, <1>6, <1>7, Sides DEF LaptopActs, RuntimeStep

LEMMA HubTypeStep ==
  ASSUME TypeOK, [Next]_vars
  PROVE  HubType' /\ now' \in 0..MaxTime /\ faults' \in 0..MaxFaults
<1>0. /\ reqs \in Seq(Req) /\ Ids = 1..Len(reqs) /\ Len(reqs) \in Nat /\ stored \subseteq Ids
      /\ \A i \in Ids : reqs[i] \in Req
      /\ \A i \in DOMAIN nonces : i \in Ids /\ nonces[i] \in Nat
      /\ now \in 0..MaxTime /\ faults \in 0..MaxFaults
      /\ MaxTime \in Nat /\ MaxFaults \in Nat /\ Window \in Nat
  BY UploadAssumption DEF TypeOK, HubType, Ids
<1>1. now' \in 0..MaxTime
  <2>1. CASE HubActs
    <3>1. UNCHANGED now \/ (now < MaxTime /\ now' = now + 1)
      BY <2>1 DEF HubActs, HubStep, Break, Duplicate, HubRestarts, Tick, Receive, Reject, Accept
    <3> QED
      BY <1>0, <3>1
  <2>2. CASE LaptopActs
    BY <1>0, <2>2, LaptopFrame
  <2> QED
    BY <1>0, <2>1, <2>2, Sides DEF vars
<1>2. faults' \in 0..MaxFaults
  <2>1. faults' = faults \/ Fault
    BY DEF Next, vars, CaptureStep, Copy, OpenMeta, WriteMeta, Poke, RuntimeStep, Clear, Pending,
           Send, UnlinkAudio, UnlinkMeta, Abort, Tell, Wait, LaptopRestarts, HubStep, Break,
           Duplicate, HubRestarts, Tick, Receive, Reject, Accept
  <2> QED
    BY <1>0, <2>1 DEF Fault
<1>3. ASSUME UNCHANGED <<reqs, nonces, stored>> PROVE HubType'
  BY <1>3 DEF TypeOK, HubType, Ids
<1>4. ASSUME LaptopActs PROVE HubType'
  <2>1. UNCHANGED hub /\ (UNCHANGED reqs \/ \E e \in Entries : Appends(e))
    BY <1>4, LaptopFrame
  <2>2. ASSUME NEW e \in Entries, NEW d \in Int, reqs' = Append(reqs, Signed(e, d))
        PROVE  HubType'
    <3>1. Signed(e, d) \in Req
      BY <1>0 DEF Signed, Req
    <3>2. reqs' \in Seq(Req) /\ Ids \subseteq Ids'
      BY <1>0, <2>2, <3>1 DEF Ids
    <3> QED
      BY <1>0, <2>1, <3>2 DEF HubType, hub
  <2> QED
    BY <1>3, <2>1, <2>2 DEF hub, Appends
<1>5. ASSUME NEW i \in Ids, NEW n \in {"sent", "streaming", "over"},
             reqs' = [reqs EXCEPT ![i].net = n], UNCHANGED hub
      PROVE  HubType'
  <2>1. [reqs[i] EXCEPT !.net = n] \in Req
    BY <1>0 DEF Req
  <2>2. reqs' \in Seq(Req) /\ DOMAIN reqs' = DOMAIN reqs
    BY <1>0, <1>5, <2>1
  <2> QED
    BY <1>0, <1>5, <2>2 DEF HubType, Ids, hub
<1>6. ASSUME NEW i \in Ids, Accept(i) PROVE HubType'
  <2> DEFINE r == [reqs[i] EXCEPT !.net = "over", !.accepted = @ + 1,
                                  !.early = @ \/ reqs[i].ts > now]
  <2>1. r \in Req
    <3>1. reqs[i] \in Req /\ reqs[i].accepted + 1 \in Nat
      BY <1>0 DEF Req
    <3> QED
      BY <3>1 DEF Req
  <2>0. reqs' = [reqs EXCEPT ![i] = r]
    BY <1>6 DEF Accept
  <2> HIDE DEF r
  <2>2. reqs' \in Seq(Req) /\ DOMAIN reqs' = DOMAIN reqs
    BY <1>0, <2>0, <2>1
  <2>3. stored' \subseteq Ids
    BY <1>0, <1>6 DEF Accept
  <2>4. \A k \in DOMAIN nonces' : k \in Ids /\ nonces'[k] \in Nat
    BY <1>0, <1>6 DEF Accept, Remembered
  <2> QED
    BY <2>2, <2>3, <2>4 DEF HubType, Ids
<1>7. ASSUME HubRestarts PROVE HubType'
  <2> DEFINE r(i) == [reqs[i] EXCEPT !.net = IF @ = "streaming" THEN "over" ELSE @,
                                     !.accepted = 0, !.early = FALSE]
  <2>1. \A i \in Ids : r(i) \in Req
    BY <1>0 DEF Req
  <2>2. reqs' = [i \in Ids |-> r(i)] /\ UNCHANGED stored /\ nonces' = <<>>
    BY <1>7 DEF HubRestarts
  <2> HIDE DEF r
  <2>3. reqs' \in [1..Len(reqs) -> Req]
    BY <1>0, <2>1, <2>2
  <2>4. reqs' \in Seq(Req) /\ DOMAIN reqs' = DOMAIN reqs
    BY <1>0, <2>3
  <2> QED
    BY <1>0, <2>2, <2>4 DEF HubType, Ids
<1>8. ASSUME HubActs PROVE HubType'
  <2>1. ASSUME NEW i \in Ids, HubStep(i) \/ Break(i) \/ Duplicate(i) PROVE HubType'
    <3>1. \/ Accept(i)
          \/ /\ UNCHANGED hub
             /\ \E n \in {"sent", "streaming", "over"} : reqs' = [reqs EXCEPT ![i].net = n]
      BY <2>1 DEF HubStep, Break, Duplicate, Receive, Reject
    <3> QED
      BY <1>5, <1>6, <3>1
  <2> QED
    BY <1>3, <1>7, <1>8, <2>1 DEF HubActs, Tick, hub
<1>9. HubType'
  BY <1>3, <1>4, <1>8, Sides DEF vars, hub
<1> QED
  BY <1>1, <1>2, <1>9

-----------------------------------------------------------------------------
(* The recording and the runtime's picture of it. *)

LEMMA BegunStep ==
  ASSUME TypeOK, TypeOK', Begun, [Next]_vars
  PROVE  Begun'
<1>0. /\ DOMAIN capture = Entries /\ DOMAIN meta = Entries
      /\ order \in Seq(Entries) /\ reqs \in Seq(Req) /\ \A i \in Ids : reqs[i].e \in Entries
      /\ \A k \in DOMAIN order : order[k] \in Entries
  <2>1. /\ order \in Seq(Entries) /\ reqs \in Seq(Req) /\ \A i \in Ids : reqs[i] \in Req
        /\ DOMAIN capture = Entries /\ DOMAIN meta = Entries
    BY DEF TypeOK, OutboxType, HubType, Ids
  <2> QED
    BY <2>1 DEF Req
<1>1. ASSUME \A e \in Entries : capture[e] # "new" => capture'[e] # "new",
             UNCHANGED <<order, reqs>>,
             \A e \in Entries : meta'[e] # "none" \/ e \in batch' => capture'[e] # "new"
      PROVE  Begun'
  BY <1>0, <1>1 DEF Begun, Ids
<1>2. ASSUME NEW e \in Entries, Copy(e) PROVE Begun'
  <2>1. /\ capture' = [capture EXCEPT ![e] = "copied"] /\ order' = Append(order, e)
        /\ UNCHANGED <<meta, batch, reqs>>
    BY <1>2 DEF Copy, runtime
  <2>2. \A f \in Entries : capture[f] # "new" => capture'[f] # "new"
    BY <1>0, <2>1
  <2>3. \A k \in DOMAIN order' : order'[k] = e \/ \E j \in DOMAIN order : order'[k] = order[j]
    BY <1>0, <2>1
  <2>4. capture'[e] # "new"
    BY <1>0, <2>1
  <2>5. \A k \in DOMAIN order' : capture'[order'[k]] # "new"
    BY <1>0, <2>2, <2>3, <2>4 DEF Begun
  <2> QED
    BY <1>0, <2>1, <2>2, <2>5 DEF Begun, Ids
<1>3. ASSUME NEW e \in Entries, CaptureStep(e) PROVE Begun'
  <2>1. /\ UNCHANGED <<order, reqs, batch>>
        /\ capture[e] # "new"
        /\ \E c \in {"meta", "poke", "done"} : capture' = [capture EXCEPT ![e] = c]
        /\ \A f \in Entries \ {e} : meta'[f] = meta[f]
    BY <1>0, <1>3 DEF CaptureStep, OpenMeta, WriteMeta, Poke, runtime
  <2>2. \A f \in Entries : capture[f] # "new" => capture'[f] # "new"
    BY <1>0, <2>1
  <2>3. \A f \in Entries : meta'[f] # "none" \/ f \in batch' => capture'[f] # "new"
    BY <2>1, <2>2 DEF Begun
  <2> QED
    BY <1>1, <2>1, <2>2, <2>3
<1>4. ASSUME LaptopRestarts PROVE Begun'
  <2>1. \A e \in Entries : capture[e] # "new" => capture'[e] # "new"
    BY <1>0, <1>4 DEF LaptopRestarts
  <2>2. \A e \in Entries : meta'[e] # "none" \/ e \in batch' => capture'[e] # "new"
    BY <1>4, <2>1 DEF LaptopRestarts, Begun
  <2> QED
    BY <1>1, <1>4, <2>1, <2>2 DEF LaptopRestarts
<1>5. ASSUME Send PROVE Begun'
  <2>1. /\ UNCHANGED <<capture, meta, order, batch>>
        /\ UNCHANGED reqs \/ \E e \in Entries : e \in batch /\ Appends(e)
    BY <1>5, UploadAssumption DEF Send, Oldest, outbox, Appends
  <2>2. CASE UNCHANGED reqs
    BY <1>1, <2>1, <2>2 DEF Begun
  <2>3. ASSUME NEW e \in Entries, NEW d \in Int, e \in batch, reqs' = Append(reqs, Signed(e, d))
        PROVE  Begun'
    <3>1. \A i \in Ids' : reqs'[i] = Signed(e, d) \/ (i \in Ids /\ reqs'[i] = reqs[i])
      BY <1>0, <2>3 DEF Ids
    <3>2. Signed(e, d).e = e /\ capture[e] # "new"
      BY <2>3 DEF Signed, Begun
    <3> QED
      BY <2>1, <3>1, <3>2 DEF Begun
  <2> QED
    BY <2>1, <2>2, <2>3 DEF Appends
<1>6. ASSUME Pending PROVE Begun'
  BY <1>0, <1>1, <1>6 DEF Pending, Begun
<1>7. ASSUME UnlinkMeta PROVE Begun'
  <2>1. \A e \in Entries : meta'[e] = meta[e] \/ meta'[e] = "none"
    BY <1>0, <1>7 DEF UnlinkMeta
  <2> QED
    BY <1>1, <1>7, <2>1 DEF UnlinkMeta, Begun
<1>8. ASSUME Clear \/ UnlinkAudio \/ Abort \/ Tell \/ Wait PROVE Begun'
  BY <1>1, <1>8 DEF Clear, UnlinkAudio, Abort, Tell, Wait, Begun, outbox
<1>9. ASSUME HubActs PROVE Begun'
  <2>1. UNCHANGED <<capture, order, meta, batch>>
    BY <1>9, HubFrame DEF outbox
  <2>2. Ids' = Ids /\ \A i \in Ids : reqs'[i].e = reqs[i].e
    BY <1>9, HubReqs DEF TypeOK
  <2> QED
    BY <2>1, <2>2 DEF Begun
<1>10. ASSUME UNCHANGED vars PROVE Begun'
  BY <1>1, <1>10 DEF vars, outbox, runtime, Begun
<1> QED
  BY <1>2, <1>3, <1>4, <1>5, <1>6, <1>7, <1>8, <1>9, <1>10, Sides DEF LaptopActs, RuntimeStep

\* A positive answer is that of a stored request.
LEMMA WaitingStep ==
  ASSUME TypeOK, Begun, Waiting, [Next]_vars
  PROVE  Waiting'
<1>0. reqs \in Seq(Req) /\ Ids = 1..Len(reqs) /\ Len(reqs) \in Nat /\ stored \subseteq Ids
  BY DEF TypeOK, HubType, Ids
<1>1. ASSUME UNCHANGED <<rt, cur, ans, reqs, stored>>, rt = "unlink" => reqs[cur].e \notin audio'
      PROVE  Waiting'
  BY <1>1 DEF Waiting
<1>2. ASSUME cur' = 0, ans' = "none", rt' \notin {"await", "unlink"} PROVE Waiting'
  BY <1>2 DEF Waiting
<1>3. ASSUME HubActs PROVE Waiting'
  <2>1. /\ UNCHANGED <<audio, rt, cur>> /\ stored \subseteq stored'
        /\ \A i \in Ids : reqs'[i].e = reqs[i].e
    BY <1>3, HubFrame, HubReqs DEF TypeOK, outbox
  <2>2. \/ ans' = ans
        \/ cur # 0 /\ ans' = "error"
        \/ cur # 0 /\ ans' = "ok" /\ cur \in stored'
    <3>1. ASSUME NEW i \in Ids, Reject(i) PROVE ans' = ans \/ (cur # 0 /\ ans' = "error")
      BY <1>0, <3>1 DEF Reject, Answer
    <3>2. ASSUME NEW i \in Ids, Accept(i)
          PROVE  \/ ans' = ans
                 \/ cur # 0 /\ ans' = "error"
                 \/ cur # 0 /\ ans' = "ok" /\ cur \in stored'
      <4>1. \/ (ans' = IF i = cur THEN "ok" ELSE ans) /\ i \in stored'
            \/ (ans' = IF i = cur THEN "error" ELSE ans)
        BY <3>2 DEF Accept, Answer
      <4>2. i # 0
        BY <1>0
      <4> QED
        BY <4>1, <4>2
    <3> QED
      BY <1>3, <3>1, <3>2 DEF HubActs, HubStep, Break, Duplicate, HubRestarts, Tick, Receive, runtime
  <2> QED
    BY <1>0, <2>1, <2>2 DEF Waiting
<1>4. ASSUME NEW e \in Entries, Copy(e) PROVE Waiting'
  <2>1. UNCHANGED <<rt, cur, ans, reqs, stored>> /\ audio' = audio \cup {e} /\ capture[e] = "new"
    BY <1>4 DEF Copy, runtime, hub
  <2>2. rt = "unlink" => reqs[cur].e # e
    BY <1>0, <2>1 DEF Waiting, Begun
  <2> QED
    BY <1>1, <2>1, <2>2 DEF Waiting
<1>5. ASSUME NEW e \in Entries, CaptureStep(e) PROVE Waiting'
  <2>1. UNCHANGED <<rt, cur, ans, reqs, stored, audio>>
    BY <1>5 DEF CaptureStep, OpenMeta, WriteMeta, Poke, runtime, hub
  <2> QED
    BY <1>1, <2>1 DEF Waiting
<1>6. ASSUME Send PROVE Waiting'
  <2>1. rt' = "await" /\ UNCHANGED <<ans, stored>> /\ cur = 0 /\ ans = "none"
    BY <1>6 DEF Send, Waiting, hub
  <2> QED
    BY <2>1 DEF Waiting
<1>7. ASSUME UnlinkAudio PROVE Waiting'
  BY <1>7 DEF UnlinkAudio, Waiting, hub, Entry
<1>8. ASSUME UnlinkMeta \/ Abort \/ LaptopRestarts PROVE Waiting'
  BY <1>2, <1>8 DEF UnlinkMeta, Abort, LaptopRestarts
<1>9. ASSUME Clear \/ Pending \/ Tell \/ Wait PROVE Waiting'
  <2>1. cur' = cur /\ ans' = ans /\ rt \notin {"await", "unlink"} /\ rt' \notin {"await", "unlink"}
    BY <1>9 DEF Clear, Pending, Tell, Wait
  <2> QED
    BY <1>2, <2>1 DEF Waiting
<1>10. ASSUME UNCHANGED vars PROVE Waiting'
  BY <1>1, <1>10 DEF vars, outbox, runtime, hub, Waiting
<1> QED
  BY <1>3, <1>4, <1>5, <1>6, <1>7, <1>8, <1>9, <1>10, Sides DEF LaptopActs, RuntimeStep

\* The audio that is removed is that of a stored request.
LEMMA HeldStep ==
  ASSUME TypeOK, Held, Waiting, [Next]_vars
  PROVE  Held'
<1>0. DOMAIN capture = Entries /\ \A e : OnHub(e) => OnHub(e)'
  BY OnHubKept DEF TypeOK, OutboxType
<1>1. ASSUME audio \subseteq audio', \A e \in Entries : capture'[e] # "new" => capture[e] # "new"
      PROVE  Held'
  BY <1>0, <1>1 DEF Held
<1>2. ASSUME NEW e \in Entries, Copy(e) PROVE Held'
  <2>1. e \in audio' /\ audio \subseteq audio' /\ \A f \in Entries \ {e} : capture'[f] = capture[f]
    BY <1>0, <1>2 DEF Copy
  <2> QED
    BY <1>0, <2>1 DEF Held
<1>3. ASSUME NEW e \in Entries, CaptureStep(e) PROVE Held'
  <2>1. UNCHANGED audio /\ capture[e] # "new" /\ \A f \in Entries \ {e} : capture'[f] = capture[f]
    BY <1>0, <1>3 DEF CaptureStep, OpenMeta, WriteMeta, Poke
  <2> QED
    BY <1>1, <2>1
<1>4. ASSUME UnlinkAudio PROVE Held'
  <2>1. UNCHANGED capture /\ audio' = audio \ {Entry} /\ OnHub(Entry)
    BY <1>4 DEF UnlinkAudio, Waiting, OnHub, Entry
  <2> QED
    BY <1>0, <2>1 DEF Held
<1>5. ASSUME Clear \/ Pending \/ Send \/ UnlinkMeta \/ Abort \/ Tell \/ Wait \/ LaptopRestarts
      PROVE  Held'
  <2>1. UNCHANGED audio /\ \A e \in Entries : capture'[e] # "new" => capture[e] # "new"
    BY <1>0, <1>5 DEF Clear, Pending, Send, UnlinkMeta, Abort, Tell, Wait, LaptopRestarts, outbox
  <2> QED
    BY <1>1, <2>1
<1>6. ASSUME HubActs \/ UNCHANGED vars PROVE Held'
  <2>1. UNCHANGED <<audio, capture>>
    BY <1>6, HubFrame DEF vars, outbox
  <2> QED
    BY <1>1, <2>1
<1> QED
  BY <1>2, <1>3, <1>4, <1>5, <1>6, Sides DEF LaptopActs, RuntimeStep

\* pending() misses no entry in the outbox whose enqueue has returned.
LEMMA ListedStep ==
  ASSUME TypeOK, Waiting, Listed, [Next]_vars
  PROVE  Listed'
<1>0. DOMAIN capture = Entries /\ DOMAIN meta = Entries /\ audio \subseteq Entries
  BY DEF TypeOK, OutboxType
<1>1. ASSUME audio' \subseteq audio, UNCHANGED <<capture, meta>> PROVE Listed'
  BY <1>1 DEF Listed
<1>2. ASSUME NEW e \in Entries, Copy(e) PROVE Listed'
  BY <1>0, <1>2 DEF Copy, Listed
<1>3. ASSUME NEW e \in Entries, OpenMeta(e) PROVE Listed'
  BY <1>0, <1>3 DEF OpenMeta, Listed
<1>4. ASSUME NEW e \in Entries, WriteMeta(e) PROVE Listed'
  BY <1>0, <1>4 DEF WriteMeta, Listed
<1>5. ASSUME NEW e \in Entries, Poke(e) PROVE Listed'
  BY <1>0, <1>5 DEF Poke, Listed
<1>6. ASSUME Pending PROVE Listed'
  BY <1>0, <1>6 DEF Pending, Listed
<1>7. ASSUME UnlinkMeta PROVE Listed'
  BY <1>0, <1>7 DEF UnlinkMeta, Listed, Waiting, Entry
<1>8. ASSUME LaptopRestarts PROVE Listed'
  BY <1>0, <1>8 DEF LaptopRestarts, Listed
<1>9. ASSUME Clear \/ Send \/ UnlinkAudio \/ Abort \/ Tell \/ Wait \/ HubActs \/ UNCHANGED vars
      PROVE  Listed'
  <2>1. audio' \subseteq audio /\ UNCHANGED <<capture, meta>>
    BY <1>9, HubFrame DEF Clear, Send, UnlinkAudio, Abort, Tell, Wait, vars, outbox
  <2> QED
    BY <1>1, <2>1
<1> QED
  BY <1>2, <1>3, <1>4, <1>5, <1>6, <1>7, <1>8, <1>9, Sides DEF LaptopActs, CaptureStep, RuntimeStep

LEMMA TriedStep ==
  ASSUME TypeOK, Listed, Tried, [Next]_vars
  PROVE  Tried'
<1>0. DOMAIN capture = Entries /\ audio \subseteq Entries
  BY DEF TypeOK, OutboxType
<1>1. ASSUME audio' \subseteq audio, UNCHANGED <<capture, wake, tried>>,
             rt' \in {"top", "pending"} \/ rt \in {"sweep", "await", "unlink", "wait"}
      PROVE  Tried'
  BY <1>1 DEF Tried
<1>2. ASSUME NEW e \in Entries, Copy(e) PROVE Tried'
  <2>1. /\ UNCHANGED <<rt, wake, tried>> /\ audio' = audio \cup {e}
        /\ capture'[e] = "copied" /\ \A f \in Entries \ {e} : capture'[f] = capture[f]
    BY <1>0, <1>2 DEF Copy, runtime
  <2> QED
    BY <1>0, <2>1 DEF Tried
<1>3. ASSUME NEW e \in Entries, OpenMeta(e) \/ WriteMeta(e) PROVE Tried'
  <2>1. /\ UNCHANGED <<rt, wake, tried, audio>>
        /\ capture'[e] # "done" /\ \A f \in Entries \ {e} : capture'[f] = capture[f]
    BY <1>0, <1>3 DEF OpenMeta, WriteMeta, runtime
  <2> QED
    BY <1>0, <2>1 DEF Tried
<1>4. ASSUME NEW e \in Entries, Poke(e) PROVE Tried'
  BY <1>4 DEF Poke, Tried
<1>5. ASSUME Clear \/ Wait \/ LaptopRestarts PROVE Tried'
  BY <1>5 DEF Clear, Wait, LaptopRestarts, Tried
<1>6. ASSUME Pending PROVE Tried'
  <2>1. UNCHANGED <<audio, capture>> /\ tried' = {e \in Entries : meta[e] # "none"} \cap audio
    BY <1>6 DEF Pending
  <2> QED
    BY <1>0, <2>1 DEF Tried, Listed
<1>7. ASSUME Send \/ UnlinkAudio \/ UnlinkMeta \/ Abort \/ Tell \/ HubActs \/ UNCHANGED vars
      PROVE  Tried'
  <2>1. /\ audio' \subseteq audio /\ UNCHANGED <<capture, wake, tried>>
        /\ rt \in {"sweep", "await", "unlink", "wait"} \/ rt' = rt
    BY <1>7, HubFrame DEF Send, UnlinkAudio, UnlinkMeta, Abort, Tell, vars, outbox, runtime
  <2> QED
    BY <1>1, <2>1 DEF TypeOK, RuntimeType
<1> QED
  BY <1>2, <1>3, <1>4, <1>5, <1>6, <1>7, Sides DEF LaptopActs, CaptureStep, RuntimeStep

\* A sweep tells of all it has sent, also when it fails half-way.
LEMMA ReportedStep ==
  ASSUME TypeOK, Waiting, Reported, [Next]_vars
  PROVE  Reported'
<1>0. /\ DOMAIN job = Entries /\ known \subseteq Entries /\ stored \subseteq Ids
      /\ job \in [Entries -> {"pending", "complete", "lost"}]
  BY DEF TypeOK, OutboxType, RuntimeType, HubType
<1>1. ASSUME audio \subseteq audio', UNCHANGED <<known, sent, rt, job>>,
             rt = "unlink" => reqs'[cur'].e = reqs[cur].e
      PROVE  Reported'
  BY <1>1 DEF Reported, UploaderTold
<1>2. ASSUME known' = {} PROVE Reported'
  BY <1>2 DEF Reported, UploaderTold
<1>3. ASSUME NEW e \in Entries, Copy(e) \/ CaptureStep(e) PROVE Reported'
  <2>1. audio \subseteq audio' /\ UNCHANGED <<known, sent, rt, job, reqs, cur>>
    BY <1>3 DEF CaptureStep, Copy, OpenMeta, WriteMeta, Poke, runtime
  <2> QED
    BY <1>1, <2>1
<1>4. ASSUME Clear \/ Wait \/ LaptopRestarts PROVE Reported'
  <2>1. known' = {}
    BY <1>4 DEF Clear, Wait, LaptopRestarts, Reported
  <2> QED
    BY <1>2, <2>1
<1>5. ASSUME Pending PROVE Reported'
  <2>1. UNCHANGED audio /\ known' \subseteq audio /\ rt' = "sweep"
    BY <1>5 DEF Pending
  <2> QED
    BY <2>1 DEF Reported, UploaderTold
<1>6. ASSUME Send \/ Abort PROVE Reported'
  <2>1. /\ UNCHANGED <<audio, known, sent>> /\ rt \in {"sweep", "await"}
        /\ rt' \in {"sweep", "await"}
    BY <1>6 DEF Send, Abort, outbox
  <2> QED
    BY <2>1 DEF Reported, UploaderTold
<1>7. ASSUME UnlinkAudio PROVE Reported'
  <2>1. /\ UNCHANGED <<known, sent, reqs, cur>> /\ rt = "await" /\ rt' = "unlink"
        /\ audio' = audio \ {reqs[cur].e}
    BY <1>7 DEF UnlinkAudio, Entry
  <2> QED
    BY <2>1 DEF Reported, UploaderTold
<1>8. ASSUME UnlinkMeta PROVE Reported'
  <2>1. /\ UNCHANGED <<known, audio>> /\ rt = "unlink" /\ rt' = "sweep"
        /\ sent' = sent \cup {reqs[cur].e}
    BY <1>8 DEF UnlinkMeta, Entry
  <2> QED
    BY <2>1 DEF Reported, UploaderTold
<1>9. ASSUME Tell PROVE Reported'
  <2>1. /\ UNCHANGED <<known, audio>> /\ rt = "sweep" /\ rt' = "wait"
        /\ \A e \in known \ audio : e \in sent
    BY <1>9 DEF Tell, Reported
  <2>2. \A e \in Entries : e \in sent \cap known => job'[e] # "pending"
    BY <1>0, <1>9 DEF Tell
  <2> QED
    BY <1>0, <2>1, <2>2 DEF Reported, UploaderTold
<1>10. ASSUME HubActs PROVE Reported'
  <2>1. UNCHANGED <<audio, known, sent, rt, job, cur>>
    BY <1>10, HubFrame DEF outbox
  <2>2. \A i \in Ids : reqs'[i].e = reqs[i].e
    BY <1>10, HubReqs DEF TypeOK
  <2> QED
    BY <1>0, <1>1, <2>1, <2>2 DEF Waiting
<1>11. ASSUME UNCHANGED vars PROVE Reported'
  BY <1>1, <1>11 DEF vars, outbox, runtime
<1> QED
  BY <1>3, <1>4, <1>5, <1>6, <1>7, <1>8, <1>9, <1>10, <1>11, Sides DEF LaptopActs, RuntimeStep

\* What is told of as sent is on the hub.
LEMMA StoredStep ==
  ASSUME TypeOK, Waiting, SentStored, CompleteIsStored, [Next]_vars
  PROVE  SentStored' /\ CompleteIsStored'
<1>0. DOMAIN job = Entries /\ \A e : OnHub(e) => OnHub(e)'
  BY OnHubKept DEF TypeOK, OutboxType
<1> DEFINE Goal == SentStored' /\ CompleteIsStored'
<1>1. ASSUME sent' \subseteq sent \/ \E e : OnHub(e) /\ sent' = sent \cup {e},
             \A e \in Entries : job'[e] = "complete" => job[e] = "complete" \/ e \in sent
      PROVE  Goal
  BY <1>0, <1>1 DEF SentStored, CompleteIsStored
<1>2. ASSUME Tell PROVE Goal
  <2>1. UNCHANGED sent /\ \A e \in Entries : job'[e] = "complete" => job[e] = "complete" \/ e \in sent
    BY <1>0, <1>2 DEF Tell
  <2> QED
    BY <1>1, <2>1
<1>3. ASSUME UnlinkMeta PROVE Goal
  <2>1. UNCHANGED job /\ sent' = sent \cup {Entry} /\ OnHub(Entry)
    BY <1>3 DEF UnlinkMeta, Waiting, OnHub, Entry
  <2> QED
    BY <1>1, <2>1
<1>4. ASSUME LaptopRestarts PROVE Goal
  <2>1. sent' = {} /\ \A e \in Entries : job'[e] = "complete" => job[e] = "complete"
    BY <1>0, <1>4 DEF LaptopRestarts
  <2> QED
    BY <1>1, <2>1
<1>5. ASSUME \/ Clear \/ Pending \/ Send \/ UnlinkAudio \/ Abort \/ Wait
             \/ HubActs \/ UNCHANGED vars \/ \E e \in Entries : Copy(e) \/ CaptureStep(e)
      PROVE  Goal
  <2>1. UNCHANGED job /\ sent' \subseteq sent
    BY <1>5, HubFrame DEF Clear, Pending, Send, UnlinkAudio, Abort, Wait, vars, CaptureStep, Copy,
                          OpenMeta, WriteMeta, Poke, outbox, runtime
  <2> QED
    BY <1>1, <2>1
<1> HIDE DEF Goal
<1>6. Goal
  BY <1>2, <1>3, <1>4, <1>5, Sides DEF LaptopActs, RuntimeStep
<1> QED
  BY <1>6 DEF Goal

-----------------------------------------------------------------------------
(* The signatures. *)

LEMMA SignaturesStep ==
  ASSUME TypeOK, Signatures, [Next]_vars
  PROVE  Signatures'
<1>0. /\ reqs \in Seq(Req) /\ Ids = 1..Len(reqs) /\ Len(reqs) \in Nat
      /\ \A i \in Ids : reqs[i] \in Req /\ reqs[i].ts \in Int
      /\ \A i \in DOMAIN nonces : i \in Ids /\ nonces[i] \in Nat
      /\ now \in Nat /\ Window \in Nat
  <2>1. /\ reqs \in Seq(Req) /\ Ids = 1..Len(reqs) /\ Len(reqs) \in Nat
        /\ \A i \in Ids : reqs[i] \in Req
        /\ \A i \in DOMAIN nonces : i \in Ids /\ nonces[i] \in Nat
        /\ now \in 0..MaxTime /\ Window \in Nat /\ MaxTime \in Nat
    BY UploadAssumption DEF TypeOK, HubType, Ids
  <2> QED
    BY <2>1 DEF Req
<1>1. ASSUME UNCHANGED nonces, now' \in Nat, now' >= now, Ids' = Ids,
             \A i \in Ids : /\ reqs'[i].ts = reqs[i].ts /\ reqs'[i].accepted = reqs[i].accepted
                            /\ reqs'[i].early = reqs[i].early
      PROVE  Signatures'
  BY <1>0, <1>1 DEF Signatures
<1>2. ASSUME LaptopActs PROVE Signatures'
  <2>1. /\ UNCHANGED <<nonces, now>>
        /\ UNCHANGED reqs \/ \E e \in Entries : Appends(e)
    BY <1>2, LaptopFrame DEF hub
  <2>2. ASSUME NEW e \in Entries, NEW d \in Int, reqs' = Append(reqs, Signed(e, d))
        PROVE  Signatures'
    <3>1. \A i \in Ids' : reqs'[i] = Signed(e, d) \/ (i \in Ids /\ reqs'[i] = reqs[i])
      BY <1>0, <2>2 DEF Ids
    <3>2. Signed(e, d).accepted = 0
      BY DEF Signed
    <3> QED
      BY <1>0, <2>1, <3>1, <3>2 DEF Signatures
  <2> QED
    BY <1>0, <1>1, <2>1, <2>2 DEF Ids, Appends
<1>3. ASSUME NEW i \in Ids, NEW n, reqs' = [reqs EXCEPT ![i].net = n], UNCHANGED <<nonces, now>>
      PROVE  Signatures'
  <2>1. /\ Ids' = Ids
        /\ \A k \in Ids : /\ reqs'[k].ts = reqs[k].ts /\ reqs'[k].accepted = reqs[k].accepted
                          /\ reqs'[k].early = reqs[k].early
    BY <1>0, <1>3 DEF Ids, Req
  <2> QED
    BY <1>0, <1>1, <1>3, <2>1
<1>4. ASSUME NEW i \in Ids, Accept(i) PROVE Signatures'
  <2>1. /\ UNCHANGED now
        /\ reqs' = [reqs EXCEPT ![i].net = "over", ![i].accepted = @ + 1,
                                ![i].early = @ \/ reqs[i].ts > now]
        /\ DOMAIN nonces' = Remembered \cup {i} /\ nonces'[i] = now + Window
        /\ \A k \in Remembered \ {i} : nonces'[k] = nonces[k]
    BY <1>4 DEF Accept
  <2>2. /\ Ids' = Ids /\ reqs'[i].ts = reqs[i].ts /\ reqs'[i].accepted = reqs[i].accepted + 1
        /\ ~reqs'[i].early => ~reqs[i].early /\ reqs[i].ts <= now
        /\ \A k \in Ids \ {i} : reqs'[k] = reqs[k]
    BY <1>0, <2>1 DEF Ids, Req
  <2>3. ~reqs[i].early => reqs[i].accepted = 0
    <3>1. now < reqs[i].ts + Window /\ i \notin Remembered
      BY <1>0, <1>4 DEF Accept, Stale
    <3>2. i \in DOMAIN nonces => nonces[i] <= now
      BY <1>0, <3>1 DEF Remembered
    <3> QED
      BY <1>0, <3>1, <3>2 DEF Signatures
  <2>4. \A k \in DOMAIN nonces : k \notin Remembered => nonces[k] <= now
    BY <1>0 DEF Remembered
  <2>5. ASSUME NEW k \in Ids \ {i}, ~reqs[k].early, reqs[k].accepted = 1
        PROVE  \/ now >= reqs[k].ts + Window
               \/ k \in DOMAIN nonces' /\ nonces'[k] >= reqs[k].ts + Window
    BY <1>0, <2>1, <2>4, <2>5 DEF Signatures
  <2> QED
    BY <1>0, <2>1, <2>2, <2>3, <2>5 DEF Signatures
<1>5. ASSUME HubRestarts PROVE Signatures'
  <2>1. /\ UNCHANGED now
        /\ reqs' = [i \in Ids |-> [reqs[i] EXCEPT !.net = IF @ = "streaming" THEN "over" ELSE @,
                                                  !.accepted = 0, !.early = FALSE]]
    BY <1>5 DEF HubRestarts
  <2>2. Ids' = Ids /\ \A i \in Ids : reqs'[i].accepted = 0
    BY <1>0, <2>1 DEF Ids, Req
  <2> QED
    BY <2>2 DEF Signatures
<1>6. ASSUME Tick PROVE Signatures'
  BY <1>0, <1>1, <1>6 DEF Tick, Ids, hub
<1>7. ASSUME NEW i \in Ids, HubStep(i) \/ Break(i) \/ Duplicate(i) PROVE Signatures'
  <2>1. \/ Accept(i)
        \/ UNCHANGED <<nonces, now>> /\ \E n : reqs' = [reqs EXCEPT ![i].net = n]
    BY <1>7 DEF HubStep, Break, Duplicate, Receive, Reject, hub
  <2>2. ASSUME NEW n, reqs' = [reqs EXCEPT ![i].net = n], UNCHANGED <<nonces, now>>
        PROVE  Signatures'
    BY <1>3, <2>2
  <2> QED
    BY <1>4, <2>1, <2>2
<1>8. ASSUME UNCHANGED vars PROVE Signatures'
  BY <1>0, <1>1, <1>8 DEF vars, hub, Ids
<1> QED
  BY <1>2, <1>5, <1>6, <1>7, <1>8, Sides DEF HubActs

-----------------------------------------------------------------------------
LEMMA InvInit == Init => IInv
<1> SUFFICES ASSUME Init PROVE IInv
  OBVIOUS
<1> USE UploadAssumption
<1>1. Ids = {} /\ reqs = <<>> /\ Len(reqs) = 0
  BY DEF Init, Ids
<1>2. OutboxType
  BY DEF Init, OutboxType, IsInjective
<1>3. RuntimeType
  <2>1. cur \in 0..Len(reqs)
    BY <1>1 DEF Init
  <2>2. wake \in BOOLEAN
    BY Zenon DEF Init
  <2> QED
    BY <2>1, <2>2 DEF Init, RuntimeType
<1>4. HubType
  <2>1. DOMAIN nonces = {}
    BY DEF Init
  <2> QED
    BY <1>1, <2>1 DEF Init, HubType
<1>5. TypeOK
  BY <1>2, <1>3, <1>4 DEF Init, TypeOK
<1>6. Held /\ Waiting /\ Listed /\ Tried /\ Reported /\ SentStored /\ CompleteIsStored
  BY DEF Init, Held, Waiting, Listed, Tried, Reported, UploaderTold, SentStored, CompleteIsStored
<1>7. Begun /\ Signatures
  BY <1>1 DEF Init, Begun, Signatures
<1> QED
  BY <1>5, <1>6, <1>7 DEF IInv

LEMMA InvStep == IInv /\ [Next]_vars => IInv'
<1> SUFFICES ASSUME IInv, [Next]_vars PROVE IInv'
  OBVIOUS
<1>1. /\ TypeOK /\ OutboxType /\ RuntimeType /\ HubType /\ Held /\ Begun /\ Waiting /\ Listed
      /\ Tried /\ Reported /\ SentStored /\ CompleteIsStored /\ Signatures
  BY DEF IInv, TypeOK
<1>2. TypeOK'
  BY <1>1, OutboxTypeStep, RuntimeTypeStep, HubTypeStep DEF TypeOK
<1>3. Begun' /\ Waiting' /\ Held'
  BY <1>1, <1>2, BegunStep, WaitingStep, HeldStep
<1>4. Listed' /\ Tried' /\ Reported'
  BY <1>1, ListedStep, TriedStep, ReportedStep
<1>5. SentStored' /\ CompleteIsStored' /\ Signatures'
  BY <1>1, StoredStep, SignaturesStep
<1> QED
  BY <1>2, <1>3, <1>4, <1>5 DEF IInv

\* enqueue, sweep and post_upload: a recording whose enqueue has returned is
\* in the outbox or on the hub's disk, for any number of captures and
\* failures.
THEOREM CapturesKept == Spec => []NoCaptureLost
<1>1. IInv => NoCaptureLost
  BY DEF IInv, Held, NoCaptureLost
<1> QED
  BY <1>1, InvInit, InvStep, PTL DEF Spec

\* HubRuntime._run clears the flag before it looks: an entry in the outbox of
\* which it has not been woken again has been tried.
THEOREM PokesKept == Spec => []NoLostPoke
<1>1. IInv => NoLostPoke
  BY DEF IInv, Tried, NoLostPoke
<1> QED
  BY <1>1, InvInit, InvStep, PTL DEF Spec

\* _on_entry_sent: the laptop's record is completed for audio the hub has, and
\* for every entry that a sweep, complete or not, has removed.
THEOREM UploadsReported == Spec => []RecordsTrue
<1>1. IInv => RecordsTrue
  BY DEF IInv, Reported, RecordsTrue
<1> QED
  BY <1>1, InvInit, InvStep, PTL DEF Spec

\* Timestamp window and NonceCache: one process of the hub accepts a signed
\* request once, however long the window, however the clocks differ and however
\* often it is delivered, unless it has come before its timestamp's second.
THEOREM AcceptedOnce == Spec => []SignedOnce
<1>1. IInv => SignedOnce
  BY DEF IInv, Signatures, SignedOnce
<1> QED
  BY <1>1, InvInit, InvStep, PTL DEF Spec

-----------------------------------------------------------------------------
(* The library index. *)

\* What a step of one thread leaves to the others.
Others(th) ==
  \A u \in Threads : u # th => role'[u] = role[u] /\ pc'[u] = pc[u] /\ my'[u] = my[u]

LibFiles == <<clock, file, trash, changed, dirTime>>
Shared == <<LibFiles, row, seen, rlock, lock, ops, loose, hidden>>

\* Parts of its locals that a step may leave alone.
SameTimes(th) == my'[th].start = my[th].start /\ my'[th].snap = my[th].snap
SameHand(th) == my'[th].path = my[th].path /\ my'[th].stat = my[th].stat /\ my'[th].text = my[th].text
SameScan(th) == /\ my'[th].dirs = my[th].dirs /\ my'[th].left = my[th].left
                /\ my'[th].disk = my[th].disk /\ my'[th].todo = my[th].todo
                /\ my'[th].gone = my[th].gone

LEMMA LocalFacts ==
  ASSUME IndexTypeOK, NEW th \in Threads
  PROVE  my[th] \in Local
BY DEF IndexTypeOK

LEMMA LocalFields ==
  ASSUME NEW l \in Local
  PROVE  /\ l.snap \in [Dirs -> Nat] /\ l.dirs \subseteq Dirs /\ l.left \subseteq Dirs
         /\ l.disk \subseteq Paths /\ l.todo \subseteq Paths /\ l.gone \subseteq Paths
         /\ l.stat \in Nat /\ l.text \in Nat /\ l.start \in Nat
BY DEF Local

LEMMA BlankLocal == Blank \in Local /\ NoTimes \in [Dirs -> Nat]
BY DEF Blank, Local, NoTimes

LEMMA StartFacts ==
  ASSUME IndexTypeOK, NEW th \in Threads, NEW r, NEW l, NEW where, Start(th, r, l, where)
  PROVE  /\ Others(th) /\ pc[th] = "idle" /\ r \in Roles
         /\ role'[th] = r /\ my'[th] = l /\ pc'[th] = where
         /\ ~loose' => /\ ~loose
                       /\ \A u \in Threads : u # th /\ pc[u] # "idle" =>
                            r \notin Loose /\ role[u] \notin Loose
         /\ role' = [role EXCEPT ![th] = r] /\ my' = [my EXCEPT ![th] = l]
         /\ pc' = [pc EXCEPT ![th] = where] /\ ops' = ops + 1 /\ loose' \in BOOLEAN
BY DEF IndexTypeOK, Start, Goto, Others

LEMMA StopFacts ==
  ASSUME IndexTypeOK, NEW th \in Threads, Stop(th)
  PROVE  /\ Others(th) /\ pc'[th] = "idle" /\ role'[th] = "none" /\ my'[th] = Blank
         /\ role' = [role EXCEPT ![th] = "none"] /\ my' = [my EXCEPT ![th] = Blank]
         /\ pc' = [pc EXCEPT ![th] = "idle"]
BY DEF IndexTypeOK, Stop, Goto, Others

LEMMA StatDirFacts ==
  ASSUME IndexTypeOK, NEW th \in Threads, NEW d \in Dirs, StatDir(th, d)
  PROVE  /\ Others(th) /\ UNCHANGED <<Shared, role>>
         /\ pc[th] = "stat" /\ d \in my[th].left
         /\ my'[th] = [my[th] EXCEPT !.snap = [@ EXCEPT ![d] = dirTime[d]], !.left = @ \ {d}]
         /\ pc'[th] = IF my[th].left = {d} THEN "gate" ELSE "stat"
         /\ my' = [my EXCEPT ![th] = my'[th]] /\ pc' = [pc EXCEPT ![th] = pc'[th]]
BY LocalFacts DEF IndexTypeOK, StatDir, Goto, files, Others, LibFiles, Shared, Local

LEMMA StatDirFields ==
  ASSUME IndexTypeOK, NEW th \in Threads, NEW d \in Dirs, StatDir(th, d)
  PROVE  /\ SameHand(th) /\ my'[th].start = my[th].start
         /\ my'[th].snap = [my[th].snap EXCEPT ![d] = dirTime[d]] /\ my'[th].left = my[th].left \ {d}
         /\ my'[th].dirs = my[th].dirs /\ my'[th].disk = my[th].disk
         /\ my'[th].todo = my[th].todo /\ my'[th].gone = my[th].gone
<1>1. my[th] \in Local
  BY LocalFacts
<1>2. my'[th] = [my[th] EXCEPT !.snap = [my[th].snap EXCEPT ![d] = dirTime[d]], !.left = my[th].left \ {d}]
  BY StatDirFacts
<1> QED
  BY <1>1, <1>2 DEF Local, SameTimes, SameHand, SameScan

LEMMA GateFacts ==
  ASSUME IndexTypeOK, NEW th \in Threads, Gate(th)
  PROVE  /\ Others(th) /\ UNCHANGED <<LibFiles, row, seen, lock, ops, loose, hidden, role>>
         /\ pc[th] = "gate"
         /\ \/ /\ my[th].snap = seen /\ pc'[th] = "served" /\ rlock' = NoThread /\ my'[th] = my[th]
            \/ /\ pc'[th] = "walk" /\ UNCHANGED rlock
               /\ my'[th] = [my[th] EXCEPT !.dirs = Dirs, !.left = Dirs]
         /\ my' = [my EXCEPT ![th] = my'[th]] /\ pc' = [pc EXCEPT ![th] = pc'[th]]
BY LocalFacts DEF IndexTypeOK, Gate, Goto, files, Others, LibFiles, Local

LEMMA GateFields ==
  ASSUME IndexTypeOK, NEW th \in Threads, Gate(th)
  PROVE  /\ SameTimes(th) /\ SameHand(th)
         /\ my'[th].disk = my[th].disk /\ my'[th].todo = my[th].todo /\ my'[th].gone = my[th].gone
         /\ pc'[th] = "walk" => my'[th].dirs = Dirs /\ my'[th].left = Dirs
<1>1. my[th] \in Local
  BY LocalFacts
<1>2. CASE pc'[th] = "served" /\ my'[th] = my[th]
  BY <1>2 DEF SameTimes, SameHand
<1>3. CASE my'[th] = [my[th] EXCEPT !.dirs = Dirs, !.left = Dirs]
  BY <1>1, <1>3 DEF Local, SameTimes, SameHand
<1> QED
  BY <1>2, <1>3, GateFacts

\* The steps of a walk that change nothing but the locals of the thread.
Found(d) == {p \in Paths : DirOf[p] = d /\ file[p] # Absent}

LEMMA GlobFacts ==
  ASSUME IndexTypeOK, NEW th \in Threads, NEW d \in Dirs, Glob(th, d)
  PROVE  /\ Others(th) /\ UNCHANGED <<Shared, role, pc>>
         /\ pc[th] = "walk" /\ my[th].todo = {} /\ d \in my[th].left
         /\ my'[th] = [my[th] EXCEPT !.left = @ \ {d}, !.todo = Found(d), !.disk = @ \cup Found(d)]
         /\ my' = [my EXCEPT ![th] = my'[th]]
BY LocalFacts DEF IndexTypeOK, Glob, files, Others, LibFiles, Shared, Found, Local

LEMMA GlobFields ==
  ASSUME IndexTypeOK, NEW th \in Threads, NEW d \in Dirs, Glob(th, d)
  PROVE  /\ SameTimes(th) /\ SameHand(th)
         /\ my'[th].left = my[th].left \ {d} /\ my'[th].todo = Found(d)
         /\ my'[th].disk = my[th].disk \cup Found(d)
         /\ my'[th].dirs = my[th].dirs /\ my'[th].gone = my[th].gone
<1>1. my[th] \in Local
  BY LocalFacts
<1>2. my'[th] = [my[th] EXCEPT !.left = my[th].left \ {d}, !.todo = Found(d), !.disk = my[th].disk \cup Found(d)]
  BY GlobFacts
<1> QED
  BY <1>1, <1>2 DEF Local, SameTimes, SameHand, SameScan

LEMMA StatFileFacts ==
  ASSUME IndexTypeOK, NEW th \in Threads, NEW p \in Paths, StatFile(th, p)
  PROVE  /\ Others(th) /\ UNCHANGED <<Shared, role>>
         /\ pc[th] = "walk" /\ p \in my[th].todo
         /\ my'[th] = [my[th] EXCEPT !.todo = @ \ {p}, !.path = p, !.stat = file[p]]
         /\ pc'[th] = IF file[p] = Absent THEN "walk" ELSE "select"
         /\ my' = [my EXCEPT ![th] = my'[th]] /\ pc' = [pc EXCEPT ![th] = pc'[th]]
BY LocalFacts DEF IndexTypeOK, StatFile, Goto, files, Others, LibFiles, Shared, Local

LEMMA StatFileFields ==
  ASSUME IndexTypeOK, NEW th \in Threads, NEW p \in Paths, StatFile(th, p)
  PROVE  /\ SameTimes(th)
         /\ my'[th].todo = my[th].todo \ {p} /\ my'[th].path = p /\ my'[th].stat = file[p]
         /\ my'[th].dirs = my[th].dirs /\ my'[th].left = my[th].left
         /\ my'[th].disk = my[th].disk /\ my'[th].gone = my[th].gone
<1>1. my[th] \in Local
  BY LocalFacts
<1>2. my'[th] = [my[th] EXCEPT !.todo = my[th].todo \ {p}, !.path = p, !.stat = file[p]]
  BY StatFileFacts
<1> QED
  BY <1>1, <1>2 DEF Local, SameTimes, SameHand, SameScan

LEMMA SelectFacts ==
  ASSUME IndexTypeOK, NEW th \in Threads, Select(th)
  PROVE  /\ Others(th) /\ UNCHANGED <<Shared, role, my>>
         /\ pc[th] = "select"
         /\ pc'[th] = IF UpToDate(my[th].path, my[th].stat) THEN "walk" ELSE "upsert"
         /\ pc' = [pc EXCEPT ![th] = pc'[th]]
BY DEF IndexTypeOK, Select, Goto, files, Others, LibFiles, Shared

LEMMA SelectFields ==
  ASSUME IndexTypeOK, NEW th \in Threads, Select(th)
  PROVE  /\ SameTimes(th) /\ SameHand(th) /\ SameScan(th)
BY LocalFacts, SelectFacts DEF Local, SameTimes, SameHand, SameScan

Vanished(th) ==
  {p \in Paths \ my[th].disk :
     /\ \E d \in my[th].dirs : DirOf[p] \in Under[d]
     /\ \E s \in Stems : row[s] # NoRow /\ row[s].path = p}

LEMMA PruneQueryFacts ==
  ASSUME IndexTypeOK, NEW th \in Threads, PruneQuery(th)
  PROVE  /\ Others(th) /\ UNCHANGED <<Shared, role>>
         /\ pc[th] = "walk" /\ my[th].todo = {} /\ my[th].left = {}
         /\ my'[th] = [my[th] EXCEPT !.gone = Vanished(th)]
         /\ pc'[th] = "prune"
         /\ my' = [my EXCEPT ![th] = my'[th]] /\ pc' = [pc EXCEPT ![th] = pc'[th]]
BY LocalFacts DEF IndexTypeOK, PruneQuery, Goto, files, Others, LibFiles, Shared, Vanished, Local

LEMMA PruneQueryFields ==
  ASSUME IndexTypeOK, NEW th \in Threads, PruneQuery(th)
  PROVE  /\ SameTimes(th) /\ SameHand(th) /\ my'[th].gone = Vanished(th)
         /\ my'[th].dirs = my[th].dirs /\ my'[th].left = my[th].left
         /\ my'[th].disk = my[th].disk /\ my'[th].todo = my[th].todo
<1>1. my[th] \in Local
  BY LocalFacts
<1>2. my'[th] = [my[th] EXCEPT !.gone = Vanished(th)]
  BY PruneQueryFacts
<1> QED
  BY <1>1, <1>2 DEF Local, SameTimes, SameHand, SameScan

LEMMA UpsertReadFacts ==
  ASSUME IndexTypeOK, NEW th \in Threads, UpsertRead(th)
  PROVE  /\ Others(th) /\ UNCHANGED <<Shared, role>>
         /\ pc[th] = "read" /\ pc'[th] = "commit"
         /\ my'[th] = [my[th] EXCEPT !.text = file[my[th].path]]
         /\ my' = [my EXCEPT ![th] = my'[th]] /\ pc' = [pc EXCEPT ![th] = pc'[th]]
BY LocalFacts DEF IndexTypeOK, UpsertRead, Goto, files, Others, LibFiles, Shared, Local

LEMMA UpsertReadFields ==
  ASSUME IndexTypeOK, NEW th \in Threads, UpsertRead(th)
  PROVE  /\ SameTimes(th) /\ SameScan(th) /\ my'[th].text = file[my[th].path]
         /\ my'[th].path = my[th].path /\ my'[th].stat = my[th].stat
<1>1. my[th] \in Local
  BY LocalFacts
<1>2. my'[th] = [my[th] EXCEPT !.text = file[my[th].path]]
  BY UpsertReadFacts
<1> QED
  BY <1>1, <1>2 DEF Local, SameTimes, SameHand, SameScan

\* After an upsert the walk goes on, or the handler gives its lock back and ends.
WalkOn(th) ==
  /\ role[th] \in {"list", "scan", "transcribe"}
  /\ pc'[th] = "walk" /\ my'[th] = my[th] /\ role'[th] = role[th] /\ UNCHANGED lock

Ended(th) ==
  /\ pc'[th] = "idle" /\ my'[th] = Blank /\ role'[th] = "none"
  /\ lock' = [s \in Stems |-> IF lock[s] = th THEN NoThread ELSE lock[s]]

LEMMA AfterUpsertFacts ==
  ASSUME IndexTypeOK, NEW th \in Threads, AfterUpsert(th)
  PROVE  /\ Others(th)
         /\ WalkOn(th) \/ (role[th] \in {"relabel", "patch", "import", "restore"} /\ Ended(th))
         /\ my' = [my EXCEPT ![th] = my'[th]] /\ pc' = [pc EXCEPT ![th] = pc'[th]]
         /\ role' = [role EXCEPT ![th] = role'[th]]
BY StopFacts DEF IndexTypeOK, AfterUpsert, Goto, Release, Others, WalkOn, Ended

LEMMA UpsertStatFacts ==
  ASSUME IndexTypeOK, NEW th \in Threads, UpsertStat(th)
  PROVE  /\ Others(th) /\ UNCHANGED <<LibFiles, row, seen, rlock, ops, loose, hidden>>
         /\ pc[th] = "upsert"
         /\ \/ file[my[th].path] = Absent /\ AfterUpsert(th)
            \/ /\ file[my[th].path] # Absent
               /\ my'[th] = [my[th] EXCEPT !.stat = file[my[th].path]]
               /\ pc'[th] = "read" /\ UNCHANGED <<lock, role>>
               /\ my' = [my EXCEPT ![th] = my'[th]] /\ pc' = [pc EXCEPT ![th] = pc'[th]]
<1>1. pc[th] = "upsert" /\ UNCHANGED <<LibFiles, row, seen, rlock, ops, loose, hidden>>
  BY DEF UpsertStat, files, LibFiles
<1>2. CASE file[my[th].path] = Absent /\ AfterUpsert(th)
  BY <1>1, <1>2, AfterUpsertFacts
<1>3. CASE ~(file[my[th].path] = Absent /\ AfterUpsert(th))
  <2>1. /\ file[my[th].path] # Absent
        /\ my' = [my EXCEPT ![th].stat = file[my[th].path]]
        /\ pc' = [pc EXCEPT ![th] = "read"] /\ UNCHANGED <<lock, role>>
    BY <1>3 DEF UpsertStat, Goto
  <2>2. /\ my \in [Threads -> Local] /\ DOMAIN my = Threads /\ DOMAIN pc = Threads
    BY DEF IndexTypeOK
  <2>3. my'[th] = [my[th] EXCEPT !.stat = file[my[th].path]] /\ pc'[th] = "read"
    BY <2>1, <2>2
  <2>4. my' = [my EXCEPT ![th] = my'[th]] /\ pc' = [pc EXCEPT ![th] = pc'[th]]
    BY <2>1, <2>2, <2>3
  <2>5. Others(th)
    BY <2>1, <2>2 DEF Others
  <2> QED
    BY <1>1, <2>1, <2>3, <2>4, <2>5
<1> QED
  BY <1>2, <1>3

LEMMA UpsertStatFields ==
  ASSUME IndexTypeOK, NEW th \in Threads, UpsertStat(th)
  PROVE  /\ ~AfterUpsert(th) =>
              /\ SameTimes(th) /\ SameScan(th) /\ my'[th].stat = file[my[th].path]
              /\ my'[th].path = my[th].path /\ my'[th].text = my[th].text
<1>1. my[th] \in Local
  BY LocalFacts
<1>2. ~AfterUpsert(th) => my'[th] = [my[th] EXCEPT !.stat = file[my[th].path]]
  BY UpsertStatFacts
<1>3. PICK n : n = file[my[th].path]
  OBVIOUS
<1>4. CASE my'[th] = [my[th] EXCEPT !.stat = n]
  BY <1>1, <1>3, <1>4 DEF Local, SameTimes, SameScan
<1> QED
  BY <1>2, <1>3, <1>4

LEMMA UpsertCommitFacts ==
  ASSUME IndexTypeOK, NEW th \in Threads, UpsertCommit(th)
  PROVE  /\ UNCHANGED <<LibFiles, seen, rlock, ops, loose>> /\ hidden' = hidden \ {my[th].path}
         /\ pc[th] = "commit" /\ AfterUpsert(th)
         /\ row' = [row EXCEPT ![StemOf[my[th].path]] =
                        [path |-> my[th].path, mtime |-> my[th].stat, text |-> my[th].text]]
BY DEF UpsertCommit, files, LibFiles

LEMMA EndWalkFacts ==
  ASSUME IndexTypeOK, NEW th \in Threads, EndWalk(th)
  PROVE  /\ Others(th) /\ UNCHANGED <<LibFiles, row, lock, ops, loose, hidden>>
         /\ pc[th] = "prune" /\ my[th].gone = {}
         /\ \/ /\ role[th] = "list" /\ seen' = my[th].snap /\ rlock' = NoThread
               /\ pc'[th] = "served" /\ UNCHANGED <<role, my>> /\ pc' = [pc EXCEPT ![th] = pc'[th]]
            \/ role[th] # "list" /\ Stop(th) /\ UNCHANGED <<seen, rlock>>
BY StopFacts DEF IndexTypeOK, EndWalk, Goto, files, Others, LibFiles

LEMMA DropRowFacts ==
  ASSUME IndexTypeOK, NEW th \in Threads, DropRow(th)
  PROVE  /\ Others(th) /\ UNCHANGED <<LibFiles, seen, rlock, ops, loose, hidden>>
         /\ pc[th] = "drop" /\ DeleteRow(my[th].path) /\ Ended(th) /\ Stop(th)
BY StopFacts DEF DropRow, Release, files, LibFiles, Ended

LEMMA PruneRowFacts ==
  ASSUME IndexTypeOK, NEW th \in Threads, NEW p \in Paths, PruneRow(th, p)
  PROVE  /\ Others(th) /\ UNCHANGED <<LibFiles, seen, rlock, lock, ops, loose, role, pc>>
         /\ pc[th] = "prune" /\ p \in my[th].gone /\ DeleteRow(p)
         /\ my'[th] = [my[th] EXCEPT !.gone = @ \ {p}] /\ my' = [my EXCEPT ![th] = my'[th]]
         /\ hidden' = IF DirOf[p] \in my[th].dirs THEN hidden ELSE hidden \cup {p}
BY LocalFacts DEF IndexTypeOK, PruneRow, files, Others, LibFiles, Local

LEMMA PruneRowFields ==
  ASSUME IndexTypeOK, NEW th \in Threads, NEW p \in Paths, PruneRow(th, p)
  PROVE  /\ SameTimes(th) /\ SameHand(th) /\ my'[th].gone = my[th].gone \ {p}
         /\ my'[th].dirs = my[th].dirs /\ my'[th].left = my[th].left
         /\ my'[th].disk = my[th].disk /\ my'[th].todo = my[th].todo
<1>1. my[th] \in Local
  BY LocalFacts
<1>2. my'[th] = [my[th] EXCEPT !.gone = my[th].gone \ {p}]
  BY PruneRowFacts
<1> QED
  BY <1>1, <1>2 DEF Local, SameTimes, SameHand, SameScan

LEMMA AnswerFacts ==
  ASSUME IndexTypeOK, NEW th \in Threads, AnswerList(th)
  PROVE  UNCHANGED Shared /\ pc[th] = "served" /\ Stop(th)
BY DEF AnswerList, files, LibFiles, Shared

\* The thread begins an operation.
Starts(th, r, where) ==
  /\ Others(th) /\ pc[th] = "idle" /\ r \in Roles
  /\ role'[th] = r /\ pc'[th] = where
  /\ ~loose' => /\ ~loose
                /\ \A u \in Threads : u # th /\ pc[u] # "idle" =>
                     r \notin Loose /\ role[u] \notin Loose

LEMMA ListFacts ==
  ASSUME IndexTypeOK, NEW th \in Threads, List(th)
  PROVE  /\ UNCHANGED <<LibFiles, row, seen, lock, hidden>> /\ rlock = NoThread /\ rlock' = th
         /\ Starts(th, "list", "stat")
         /\ \E l : /\ l = [Blank EXCEPT !.start = clock, !.left = Dirs]
                  /\ my'[th] = l /\ Start(th, "list", l, "stat")
<1>1. PICK l : /\ l = [Blank EXCEPT !.start = clock, !.left = Dirs]
               /\ Start(th, "list", l, "stat")
  BY DEF List
<1> QED
  BY <1>1, StartFacts DEF List, files, LibFiles, Starts

LEMMA ScanFacts ==
  ASSUME IndexTypeOK, NEW th \in Threads, NEW ds, Scan(th, ds)
  PROVE  /\ UNCHANGED <<LibFiles, row, seen, rlock, lock, hidden>>
         /\ Starts(th, "scan", "walk")
         /\ \E l : /\ l = [Blank EXCEPT !.dirs = ds, !.left = ds]
                  /\ my'[th] = l /\ Start(th, "scan", l, "walk")
<1>1. PICK l : /\ l = [Blank EXCEPT !.dirs = ds, !.left = ds]
               /\ Start(th, "scan", l, "walk")
  BY DEF Scan
<1> QED
  BY <1>1, StartFacts DEF Scan, files, LibFiles, Starts

\* A handler that changes the file p, which gets the mtime m; the thread then
\* has role r.
Changes(th, p, m, r) ==
  /\ clock' = clock + 1
  /\ file' = [file EXCEPT ![p] = m]
  /\ changed' = [changed EXCEPT ![p] = clock + 1]
  /\ dirTime' = [dirTime EXCEPT ![DirOf[p]] = clock + 1]
  /\ UNCHANGED <<row, seen, rlock, hidden>>
  /\ \/ r = "transcribe" /\ m = clock + 1 /\ UNCHANGED <<trash, lock>>
        /\ Start(th, r, [Blank EXCEPT !.dirs = {DirOf[p]}, !.left = {DirOf[p]}], "walk")
     \/ /\ lock[StemOf[p]] = NoThread
        /\ \/ r = "patch" /\ UNCHANGED lock
           \/ r \in {"relabel", "import", "delete", "restore"} /\ lock' = [lock EXCEPT ![StemOf[p]] = th]
        /\ \/ r \in {"relabel", "import", "patch"} /\ m = clock + 1 /\ UNCHANGED trash
           \/ /\ r = "delete" /\ m = Absent /\ file[p] # Absent
              /\ trash' = [trash EXCEPT ![p] = file[p]]
           \/ /\ r = "restore" /\ m = trash[p] /\ trash[p] # Absent /\ file[p] = Absent
              /\ trash' = [trash EXCEPT ![p] = Absent]
        /\ Start(th, r, [Blank EXCEPT !.path = p], IF r = "delete" THEN "drop" ELSE "upsert")

LEMMA ChangeFacts ==
  ASSUME NEW th \in Threads, NEW p \in Paths, Change(th, p), clock \in Nat
  PROVE  \E m, r : Changes(th, p, m, r)
<1>1. CASE Relabel(th, p)
  <2>1. Changes(th, p, clock + 1, "relabel")
    BY <1>1 DEF Relabel, PutFile, Changes
  <2> QED
    BY <2>1
<1>2. CASE Patch(th, p)
  <2>1. Changes(th, p, clock + 1, "patch")
    BY <1>2 DEF Patch, PutFile, Changes
  <2> QED
    BY <2>1
<1>3. CASE Import(th, p)
  <2>1. Changes(th, p, clock + 1, "import")
    BY <1>3 DEF Import, PutFile, Changes
  <2> QED
    BY <2>1
<1>4. CASE Transcribe(th, p)
  <2>1. Changes(th, p, clock + 1, "transcribe")
    BY <1>4 DEF Transcribe, PutFile, Changes
  <2> QED
    BY <2>1
<1>5. CASE Delete(th, p)
  <2>1. Changes(th, p, Absent, "delete")
    BY <1>5 DEF Delete, PutFile, Changes
  <2> QED
    BY <2>1
<1>6. CASE Restore(th, p)
  <2>1. Changes(th, p, trash[p], "restore")
    BY <1>6 DEF Restore, PutFile, Changes
  <2> QED
    BY <2>1
<1> QED
  BY <1>1, <1>2, <1>3, <1>4, <1>5, <1>6 DEF Change

LEMMA ChangeBegun ==
  ASSUME IndexTypeOK, NEW th \in Threads, NEW p, NEW m, NEW r, Changes(th, p, m, r)
  PROVE  \/ /\ r = "transcribe" /\ Starts(th, r, "walk")
            /\ my'[th].dirs = {DirOf[p]} /\ my'[th].left = {DirOf[p]}
         \/ /\ r \in {"relabel", "patch", "import", "restore"} /\ Starts(th, r, "upsert")
            /\ my'[th].path = p
         \/ /\ r = "delete" /\ Starts(th, r, "drop")
            /\ my'[th].path = p
<1>1. ASSUME NEW l, NEW where, Start(th, r, l, where)
      PROVE  Starts(th, r, where) /\ my'[th] = l
  BY <1>1, StartFacts DEF Starts
<1>2. [Blank EXCEPT !.path = p].path = p
  BY DEF Blank
<1>0. \A l : l = [Blank EXCEPT !.dirs = {DirOf[p]}, !.left = {DirOf[p]}]
               => l.dirs = {DirOf[p]} /\ l.left = {DirOf[p]}
  BY DEF Blank
<1>3. CASE Start(th, r, [Blank EXCEPT !.dirs = {DirOf[p]}, !.left = {DirOf[p]}], "walk") /\ r = "transcribe"
  BY <1>0, <1>1, <1>3
<1>4. CASE /\ Start(th, r, [Blank EXCEPT !.path = p], IF r = "delete" THEN "drop" ELSE "upsert")
           /\ r \in {"relabel", "patch", "import", "restore", "delete"}
  <2>1. Starts(th, r, IF r = "delete" THEN "drop" ELSE "upsert") /\ my'[th] = [Blank EXCEPT !.path = p]
    BY <1>1, <1>4
  <2> QED
    BY <1>2, <1>4, <2>1
<1> QED
  BY <1>3, <1>4 DEF Changes

\* A thread at a file knows which.
PathKnown ==
  \A th \in Threads :
    pc[th] \in {"select", "upsert", "read", "commit", "drop"} => my[th].path \in Paths

LEMMA HiddenStep ==
  ASSUME hidden \subseteq Paths, [IndexNext]_indexVars
  PROVE  hidden' \subseteq Paths
<1>1. ASSUME NEW th \in Threads, Walk(th) \/ Upsert(th) PROVE hidden' \subseteq Paths
  BY <1>1 DEF Walk, StatDir, Glob, StatFile, PruneRow, Gate, Select, PruneQuery, EndWalk, Upsert,
              UpsertStat, UpsertRead, UpsertCommit
<1>2. ASSUME NEW th \in Threads, NEW p \in Paths, Change(th, p) PROVE hidden' \subseteq Paths
  BY <1>2 DEF Change, Relabel, Patch, Import, Transcribe, Delete, Restore
<1> QED
  BY <1>1, <1>2 DEF IndexNext, List, Scan, DropRow, AnswerList, Restart, indexVars

LEMMA LibTypeStep ==
  ASSUME LibraryAssumption, IndexTypeOK, PathKnown, [IndexNext]_indexVars
  PROVE  IndexTypeOK' /\ PathKnown'
<1> DEFINE FileTypes == /\ clock \in Nat /\ file \in [Paths -> Nat] /\ trash \in [Paths -> Nat]
                        /\ changed \in [Paths -> Nat] /\ dirTime \in [Dirs -> Nat]
           RowTypes == row \in [Stems -> Row \cup {NoRow}]
           SeenTypes == seen \in [Dirs -> Nat]
           LockTypes == rlock \in Threads \cup {NoThread} /\ lock \in [Stems -> Threads \cup {NoThread}]
           ThreadTypes == /\ role \in [Threads -> AllRoles \cup {"none"}] /\ pc \in [Threads -> PCs]
                          /\ my \in [Threads -> Local]
           Ghosts == ops \in Nat /\ loose \in BOOLEAN
<1>0. FileTypes /\ RowTypes /\ SeenTypes /\ LockTypes /\ ThreadTypes /\ Ghosts
  BY DEF IndexTypeOK
<1>h. hidden' \subseteq Paths
  BY HiddenStep DEF IndexTypeOK
<1>00. FileTypes' /\ RowTypes' /\ SeenTypes' /\ LockTypes' /\ ThreadTypes' /\ Ghosts' => IndexTypeOK'
  BY <1>h DEF IndexTypeOK
<1>a. /\ DirOf \in [Paths -> Dirs] /\ StemOf \in [Paths -> Stems] /\ Roles \subseteq AllRoles
  BY DEF LibraryAssumption
<1>p. ASSUME NEW th \in Threads, Others(th),
             pc'[th] \in {"select", "upsert", "read", "commit", "drop"} => my'[th].path \in Paths
      PROVE  PathKnown'
  BY <1>p DEF PathKnown, Others
<1>b. ASSUME NEW th \in Threads, my' = [my EXCEPT ![th] = my'[th]], my'[th] \in Local
      PROVE  my' \in [Threads -> Local]
  BY <1>0, <1>b
<1>c. ASSUME NEW th \in Threads, pc' = [pc EXCEPT ![th] = pc'[th]], pc'[th] \in PCs
      PROVE  pc' \in [Threads -> PCs]
  BY <1>0, <1>c
<1>d. ASSUME NEW th \in Threads PROVE my[th] \in Local
  BY LocalFacts
<1>q. {"idle", "stat", "gate", "walk", "select", "upsert", "read", "commit", "prune", "drop", "served"} = PCs
  BY DEF PCs
<1>r. "none" \in AllRoles \cup {"none"}
  OBVIOUS
<1>s. ASSUME NEW th \in Threads, NEW r, NEW l \in Local, NEW where \in PCs, Start(th, r, l, where)
      PROVE  ThreadTypes' /\ Ghosts'
  <2>1. r \in AllRoles
    BY <1>a, <1>s, StartFacts
  <2> QED
    BY <1>0, <1>s, <2>1, StartFacts
<1>t. ASSUME NEW th \in Threads, Stop(th) PROVE ThreadTypes' /\ PathKnown'
  <2>1. Others(th) /\ pc'[th] = "idle"
    BY <1>t, StopFacts
  <2> QED
    BY <1>0, <1>p, <1>q, <1>t, <2>1, StopFacts, BlankLocal
<1>f. ASSUME UNCHANGED LibFiles PROVE FileTypes'
  BY <1>0, <1>f DEF LibFiles
<1>1. ASSUME NEW th \in Threads, List(th) PROVE IndexTypeOK' /\ PathKnown'
  <2>1. [Blank EXCEPT !.start = clock, !.left = Dirs] \in Local
    BY <1>0, BlankLocal DEF Local, Blank
  <2>2. ThreadTypes' /\ Ghosts'
    BY <1>1, <1>q, <1>s, <2>1, ListFacts
  <2>3. PathKnown'
    <3>1. Others(th) /\ pc'[th] = "stat"
      BY <1>1, ListFacts DEF Starts
    <3> QED
      BY <1>p, <3>1
  <2> QED
    BY <1>0, <1>00, <1>1, <1>f, <2>2, <2>3, ListFacts
<1>2. ASSUME NEW th \in Threads, NEW ds \in SUBSET Dirs, Scan(th, ds) PROVE IndexTypeOK' /\ PathKnown'
  <2>1. [Blank EXCEPT !.dirs = ds, !.left = ds] \in Local
    BY <1>0, BlankLocal DEF Local, Blank
  <2>2. ThreadTypes' /\ Ghosts'
    <3>1. PICK l : l = [Blank EXCEPT !.dirs = ds, !.left = ds] /\ Start(th, "scan", l, "walk")
      BY <1>2, ScanFacts
    <3> QED
      BY <1>q, <1>s, <2>1, <3>1
  <2>3. PathKnown'
    <3>1. Others(th) /\ pc'[th] = "walk"
      BY <1>2, ScanFacts DEF Starts
    <3> QED
      BY <1>p, <3>1
  <2> QED
    BY <1>0, <1>00, <1>2, <1>f, <2>2, <2>3, ScanFacts
<1>3. ASSUME NEW th \in Threads, NEW p \in Paths, Change(th, p) PROVE IndexTypeOK' /\ PathKnown'
  <2>1. PICK m, r : Changes(th, p, m, r)
    BY <1>0, <1>3, ChangeFacts
  <2>2. clock + 1 \in Nat /\ trash[p] \in Nat /\ file[p] \in Nat /\ Absent \in Nat /\ DirOf[p] \in Dirs
    BY <1>0, <1>a DEF Absent
  <2>3. m \in Nat
    BY <2>1, <2>2 DEF Changes
  <2>4. FileTypes'
    BY <1>0, <2>1, <2>2, <2>3 DEF Changes
  <2>5. LockTypes'
    BY <1>0, <1>a, <2>1 DEF Changes
  <2>6. /\ [Blank EXCEPT !.dirs = {DirOf[p]}, !.left = {DirOf[p]}] \in Local
        /\ [Blank EXCEPT !.path = p] \in Local
        /\ [Blank EXCEPT !.path = p].path = p
    BY <2>2, BlankLocal DEF Local, Blank
  <2>7. PICK l \in Local : \E where \in PCs :
          /\ Start(th, r, l, where)
          /\ where \in {"select", "upsert", "read", "commit", "drop"} => l.path \in Paths
    BY <1>q, <2>1, <2>6 DEF Changes
  <2>8. ThreadTypes' /\ Ghosts' /\ PathKnown'
    BY <1>p, <1>s, <2>7, StartFacts
  <2> QED
    BY <1>0, <1>00, <2>1, <2>4, <2>5, <2>8 DEF Changes
<1>4. ASSUME NEW th \in Threads, NEW d \in Dirs, StatDir(th, d) PROVE IndexTypeOK' /\ PathKnown'
  <2>1. my'[th] \in Local
    <3>1. my[th] \in Local /\ [my[th].snap EXCEPT ![d] = dirTime[d]] \in [Dirs -> Nat]
          /\ my[th].left \ {d} \in SUBSET Dirs
      BY <1>0, <1>d, LocalFields
    <3>2. my'[th] = [my[th] EXCEPT !.snap = [my[th].snap EXCEPT ![d] = dirTime[d]], !.left = my[th].left \ {d}]
      BY <1>4, StatDirFacts
    <3> QED
      BY <3>1, <3>2 DEF Local
  <2>2. pc'[th] \in PCs /\ PathKnown'
    BY <1>4, <1>p, <1>q, StatDirFacts
  <2> QED
    BY <1>0, <1>00, <1>4, <1>b, <1>c, <2>1, <2>2, StatDirFacts DEF Shared, LibFiles
<1>5. ASSUME NEW th \in Threads, Gate(th) PROVE IndexTypeOK' /\ PathKnown'
  <2>1. my'[th] \in Local
    <3>1. my[th] \in Local
      BY <1>d
    <3>2. my'[th] = my[th] \/ my'[th] = [my[th] EXCEPT !.dirs = Dirs, !.left = Dirs]
      BY <1>5, GateFacts
    <3> QED
      BY <3>1, <3>2 DEF Local
  <2>2. pc'[th] \in PCs /\ PathKnown'
    BY <1>5, <1>p, <1>q, GateFacts
  <2>3. LockTypes'
    BY <1>0, <1>5, GateFacts
  <2> QED
    BY <1>0, <1>00, <1>5, <1>b, <1>c, <2>1, <2>2, <2>3, GateFacts DEF LibFiles
<1>6. ASSUME NEW th \in Threads, NEW d \in Dirs, Glob(th, d) PROVE IndexTypeOK' /\ PathKnown'
  <2>1. my'[th] \in Local
    <3>1. /\ my[th] \in Local /\ my[th].left \ {d} \in SUBSET Dirs
          /\ Found(d) \in SUBSET Paths /\ my[th].disk \cup Found(d) \in SUBSET Paths
      BY <1>d, LocalFields DEF Found
    <3>2. my'[th] = [my[th] EXCEPT !.left = my[th].left \ {d}, !.todo = Found(d), !.disk = my[th].disk \cup Found(d)]
      BY <1>6, GlobFacts
    <3> QED
      BY <3>1, <3>2 DEF Local
  <2>2. pc'[th] = "walk"
    BY <1>6, GlobFacts
  <2>3. PathKnown'
    BY <1>6, <1>p, <2>2, GlobFacts
  <2> QED
    BY <1>0, <1>00, <1>6, <1>b, <2>1, <2>3, GlobFacts DEF Shared, LibFiles
<1>7. ASSUME NEW th \in Threads, NEW p \in Paths, StatFile(th, p) PROVE IndexTypeOK' /\ PathKnown'
  <2>1. my'[th] \in Local /\ my'[th].path = p
    <3>1. my[th] \in Local /\ my[th].todo \ {p} \in SUBSET Paths /\ file[p] \in Nat
      BY <1>0, <1>d, LocalFields
    <3>2. my'[th] = [my[th] EXCEPT !.todo = my[th].todo \ {p}, !.path = p, !.stat = file[p]]
      BY <1>7, StatFileFacts
    <3> QED
      BY <3>1, <3>2 DEF Local
  <2>2. pc'[th] \in PCs /\ PathKnown'
    BY <1>7, <1>p, <1>q, <2>1, StatFileFacts
  <2> QED
    BY <1>0, <1>00, <1>7, <1>b, <1>c, <2>1, <2>2, StatFileFacts DEF Shared, LibFiles
<1>8. ASSUME NEW th \in Threads, Select(th) PROVE IndexTypeOK' /\ PathKnown'
  <2>1. pc'[th] \in PCs /\ my[th].path \in Paths /\ my'[th].path \in Paths
    BY <1>8, <1>q, SelectFacts DEF PathKnown
  <2>2. PathKnown'
    BY <1>8, <1>p, <2>1, SelectFacts
  <2> QED
    BY <1>0, <1>00, <1>8, <1>c, <2>1, <2>2, SelectFacts DEF Shared, LibFiles
<1>9. ASSUME NEW th \in Threads, PruneQuery(th) PROVE IndexTypeOK' /\ PathKnown'
  <2>1. my'[th] \in Local
    <3>1. my[th] \in Local /\ Vanished(th) \in SUBSET Paths
      BY <1>d DEF Vanished
    <3>2. my'[th] = [my[th] EXCEPT !.gone = Vanished(th)]
      BY <1>9, PruneQueryFacts
    <3> QED
      BY <3>1, <3>2 DEF Local
  <2>2. pc'[th] \in PCs /\ PathKnown'
    BY <1>9, <1>p, <1>q, PruneQueryFacts
  <2> QED
    BY <1>0, <1>00, <1>9, <1>b, <1>c, <2>1, <2>2, PruneQueryFacts DEF Shared, LibFiles
<1>e. ASSUME NEW p, DeleteRow(p) PROVE RowTypes'
  BY <1>0, <1>e DEF DeleteRow
<1>10. ASSUME NEW th \in Threads, NEW p \in Paths, PruneRow(th, p) PROVE IndexTypeOK' /\ PathKnown'
  <2>1. my'[th] \in Local
    <3>1. my[th] \in Local /\ my[th].gone \ {p} \in SUBSET Paths
      BY <1>d, LocalFields
    <3>2. my'[th] = [my[th] EXCEPT !.gone = my[th].gone \ {p}]
      BY <1>10, PruneRowFacts
    <3> QED
      BY <3>1, <3>2 DEF Local
  <2>2. PathKnown'
    BY <1>10, <1>p, PruneRowFacts
  <2> QED
    BY <1>0, <1>00, <1>10, <1>b, <1>e, <1>f, <2>1, <2>2, PruneRowFacts
<1>11. ASSUME NEW th \in Threads, EndWalk(th) PROVE IndexTypeOK' /\ PathKnown'
  <2>1. CASE role[th] # "list"
    <3>1. Stop(th) /\ UNCHANGED <<seen, rlock>>
      BY <1>11, <2>1, EndWalkFacts
    <3> QED
      BY <1>0, <1>00, <1>11, <1>f, <1>t, <3>1, EndWalkFacts
  <2>2. CASE role[th] = "list"
    <3>1. /\ seen' = my[th].snap /\ rlock' = NoThread /\ pc'[th] = "served" /\ UNCHANGED <<role, my>>
          /\ pc' = [pc EXCEPT ![th] = pc'[th]] /\ Others(th)
      BY <1>11, <2>2, EndWalkFacts
    <3>2. SeenTypes' /\ LockTypes' /\ PathKnown' /\ pc' \in [Threads -> PCs]
      BY <1>0, <1>11, <1>c, <1>d, <1>p, <1>q, <3>1, EndWalkFacts DEF Local
    <3> QED
      BY <1>0, <1>00, <1>11, <1>f, <3>1, <3>2, EndWalkFacts
  <2> QED
    BY <2>1, <2>2
<1>g. ASSUME NEW th \in Threads, Ended(th) PROVE lock' \in [Stems -> Threads \cup {NoThread}]
  BY <1>0, <1>g DEF Ended
<1>12. ASSUME NEW th \in Threads, AfterUpsert(th)
       PROVE  ThreadTypes' /\ lock' \in [Stems -> Threads \cup {NoThread}] /\ PathKnown'
  <2>1. pc'[th] \in PCs /\ my'[th] \in Local /\ role'[th] \in AllRoles \cup {"none"}
    BY <1>0, <1>12, <1>q, AfterUpsertFacts, BlankLocal DEF WalkOn, Ended
  <2>2. PathKnown'
    BY <1>12, <1>p, AfterUpsertFacts DEF WalkOn, Ended
  <2>3. role' \in [Threads -> AllRoles \cup {"none"}]
    BY <1>0, <1>12, <2>1, AfterUpsertFacts
  <2>4. lock' \in [Stems -> Threads \cup {NoThread}]
    BY <1>0, <1>12, <1>g, AfterUpsertFacts DEF WalkOn
  <2> QED
    BY <1>12, <1>b, <1>c, <2>1, <2>2, <2>3, <2>4, AfterUpsertFacts
<1>13. ASSUME NEW th \in Threads, UpsertStat(th) PROVE IndexTypeOK' /\ PathKnown'
  <2>0. Others(th) /\ UNCHANGED <<LibFiles, row, seen, rlock, ops, loose, hidden>> /\ pc[th] = "upsert"
    BY <1>13, UpsertStatFacts
  <2>1. CASE AfterUpsert(th)
    BY <1>0, <1>00, <1>12, <1>f, <2>0, <2>1
  <2>2. CASE ~AfterUpsert(th)
    <3>1. /\ my'[th] = [my[th] EXCEPT !.stat = file[my[th].path]]
          /\ pc'[th] = "read" /\ UNCHANGED <<lock, role>>
          /\ my' = [my EXCEPT ![th] = my'[th]] /\ pc' = [pc EXCEPT ![th] = pc'[th]]
      BY <1>13, <2>2, UpsertStatFacts
    <3>2. my[th].path \in Paths /\ file[my[th].path] \in Nat
      BY <1>0, <2>0 DEF PathKnown
    <3>3. my'[th] \in Local /\ my'[th].path = my[th].path
      <4>1. my[th] \in Local
        BY <1>d
      <4> QED
        BY <3>1, <3>2, <4>1 DEF Local
    <3>4. PathKnown'
      BY <1>p, <2>0, <3>2, <3>3
    <3> QED
      BY <1>0, <1>00, <1>b, <1>c, <1>f, <1>q, <2>0, <3>1, <3>3, <3>4
  <2> QED
    BY <2>1, <2>2
<1>14. ASSUME NEW th \in Threads, UpsertRead(th) PROVE IndexTypeOK' /\ PathKnown'
  <2>1. my[th].path \in Paths /\ file[my[th].path] \in Nat
    BY <1>0, <1>14, UpsertReadFacts DEF PathKnown
  <2>2. my'[th] \in Local /\ my'[th].path = my[th].path
    <3>1. my[th] \in Local
      BY <1>d
    <3>2. my'[th] = [my[th] EXCEPT !.text = file[my[th].path]]
      BY <1>14, UpsertReadFacts
    <3> QED
      BY <2>1, <3>1, <3>2 DEF Local
  <2>3. pc'[th] \in PCs /\ PathKnown'
    BY <1>14, <1>p, <1>q, <2>1, <2>2, UpsertReadFacts
  <2>4. my' \in [Threads -> Local] /\ pc' \in [Threads -> PCs]
    BY <1>14, <1>b, <1>c, <2>2, <2>3, UpsertReadFacts
  <2>5. UNCHANGED <<LibFiles, row, seen, rlock, lock, ops, loose, role>>
    BY <1>14, UpsertReadFacts DEF Shared
  <2> QED
    BY <1>0, <1>00, <1>f, <2>3, <2>4, <2>5
<1>15. ASSUME NEW th \in Threads, UpsertCommit(th) PROVE IndexTypeOK' /\ PathKnown'
  <2>1. my[th].path \in Paths /\ my[th].stat \in Nat /\ my[th].text \in Nat
    BY <1>15, <1>d, UpsertCommitFacts DEF PathKnown, Local
  <2>2. [path |-> my[th].path, mtime |-> my[th].stat, text |-> my[th].text] \in Row
    BY <2>1 DEF Row
  <2>3. RowTypes'
    BY <1>0, <1>15, <2>2, UpsertCommitFacts
  <2> QED
    BY <1>0, <1>00, <1>12, <1>15, <1>f, <2>3, UpsertCommitFacts
<1>16. ASSUME NEW th \in Threads, DropRow(th) PROVE IndexTypeOK' /\ PathKnown'
  BY <1>0, <1>00, <1>16, <1>e, <1>f, <1>g, <1>t, DropRowFacts
<1>17. ASSUME NEW th \in Threads, AnswerList(th) PROVE IndexTypeOK' /\ PathKnown'
  BY <1>0, <1>00, <1>17, <1>f, <1>t, AnswerFacts DEF Shared
<1>18. CASE Restart
  <2>1. SeenTypes' /\ LockTypes' /\ Ghosts' /\ ThreadTypes'
    BY <1>0, <1>18, BlankLocal, <1>q DEF Restart
  <2>2. PathKnown'
    BY <1>18 DEF Restart, PathKnown
  <2> QED
    BY <1>0, <1>00, <1>18, <2>1, <2>2 DEF Restart, files
<1>19. CASE UNCHANGED indexVars
  <2>1. PathKnown'
    BY <1>19 DEF PathKnown, indexVars
  <2> QED
    BY <1>0, <1>00, <1>19, <2>1 DEF indexVars, files
<1> QED
  BY <1>1, <1>2, <1>3, <1>4, <1>5, <1>6, <1>7, <1>8, <1>9, <1>10, <1>11, <1>13, <1>14, <1>15, <1>16,
     <1>17, <1>18, <1>19 DEF IndexNext, Walk, Upsert

Walkers == {"list", "scan", "transcribe"}
Writers == {"relabel", "patch", "import", "restore"}

\* What a thread is doing and where it can then be.
Consistent(r, c) ==
  /\ r = "none" <=> c = "idle"
  /\ c \in {"stat", "gate", "served"} => r = "list"
  /\ c \in {"walk", "select", "prune"} => r \in Walkers
  /\ c \in {"upsert", "read", "commit"} => r \in Walkers \cup Writers
  /\ c = "drop" <=> r = "delete"

RolePc == \A th \in Threads : Consistent(role[th], pc[th])

LEMMA RoleStep ==
  ASSUME LibraryAssumption, IndexTypeOK, RolePc, [IndexNext]_indexVars
  PROVE  RolePc'
<1>a. ASSUME NEW th \in Threads, Others(th), Consistent(role'[th], pc'[th]) PROVE RolePc'
  BY <1>a DEF RolePc, Others
<1>b. ASSUME NEW th \in Threads PROVE Consistent(role[th], pc[th])
  BY DEF RolePc
<1>c. ASSUME UNCHANGED <<role, pc>> PROVE RolePc'
  BY <1>c DEF RolePc
<1>d. ASSUME NEW th \in Threads, Stop(th) PROVE RolePc'
  BY <1>a, <1>d, StopFacts DEF Consistent, Walkers, Writers
<1>1. ASSUME NEW th \in Threads, List(th) PROVE RolePc'
  BY <1>1, <1>a, ListFacts DEF Starts, Consistent, Walkers, Writers
<1>2. ASSUME NEW th \in Threads, NEW ds, Scan(th, ds) PROVE RolePc'
  BY <1>2, <1>a, ScanFacts DEF Starts, Consistent, Walkers, Writers
<1>3. ASSUME NEW th \in Threads, NEW p \in Paths, Change(th, p) PROVE RolePc'
  <2>1. PICK m, r : Changes(th, p, m, r)
    BY <1>3, ChangeFacts DEF IndexTypeOK
  <2>2. PICK where : /\ Starts(th, r, where)
                     /\ \/ r = "transcribe" /\ where = "walk"
                        \/ r \in Writers /\ where = "upsert"
                        \/ r = "delete" /\ where = "drop"
    BY <2>1, ChangeBegun DEF Writers
  <2>3. Others(th) /\ role'[th] = r /\ pc'[th] = where
    BY <2>2 DEF Starts
  <2>4. Consistent(r, where)
    BY <2>2 DEF Consistent, Walkers, Writers
  <2> QED
    BY <1>a, <2>3, <2>4
<1>4. ASSUME NEW th \in Threads, NEW d \in Dirs, StatDir(th, d) PROVE RolePc'
  BY <1>4, <1>a, <1>b, StatDirFacts DEF Consistent
<1>5. ASSUME NEW th \in Threads, Gate(th) PROVE RolePc'
  BY <1>5, <1>a, <1>b, GateFacts DEF Consistent, Walkers
<1>6. ASSUME NEW th \in Threads, NEW d \in Dirs, Glob(th, d) PROVE RolePc'
  BY <1>6, <1>c, GlobFacts
<1>7. ASSUME NEW th \in Threads, NEW p \in Paths, StatFile(th, p) PROVE RolePc'
  BY <1>7, <1>a, <1>b, StatFileFacts DEF Consistent, Walkers
<1>8. ASSUME NEW th \in Threads, Select(th) PROVE RolePc'
  BY <1>8, <1>a, <1>b, SelectFacts DEF Consistent, Walkers
<1>9. ASSUME NEW th \in Threads, PruneQuery(th) PROVE RolePc'
  BY <1>9, <1>a, <1>b, PruneQueryFacts DEF Consistent, Walkers
<1>10. ASSUME NEW th \in Threads, NEW p \in Paths, PruneRow(th, p) PROVE RolePc'
  BY <1>10, <1>c, PruneRowFacts
<1>11. ASSUME NEW th \in Threads, EndWalk(th) PROVE RolePc'
  BY <1>11, <1>a, <1>b, <1>d, EndWalkFacts DEF Consistent, Walkers
<1>12. ASSUME NEW th \in Threads, AfterUpsert(th), pc[th] \in {"upsert", "commit"} PROVE RolePc'
  BY <1>12, <1>a, AfterUpsertFacts DEF WalkOn, Ended, Consistent, Walkers
<1>13. ASSUME NEW th \in Threads, UpsertStat(th) PROVE RolePc'
  <2>1. CASE AfterUpsert(th)
    BY <1>12, <1>13, <2>1, UpsertStatFacts
  <2>2. CASE ~AfterUpsert(th)
    BY <1>13, <1>a, <1>b, <2>2, UpsertStatFacts DEF Consistent
  <2> QED
    BY <2>1, <2>2
<1>14. ASSUME NEW th \in Threads, UpsertRead(th) PROVE RolePc'
  BY <1>14, <1>a, <1>b, UpsertReadFacts DEF Consistent, Shared
<1>15. ASSUME NEW th \in Threads, UpsertCommit(th) PROVE RolePc'
  BY <1>12, <1>15, UpsertCommitFacts
<1>16. ASSUME NEW th \in Threads, DropRow(th) PROVE RolePc'
  BY <1>16, <1>d, DropRowFacts
<1>17. ASSUME NEW th \in Threads, AnswerList(th) PROVE RolePc'
  BY <1>17, <1>d, AnswerFacts
<1>18. CASE Restart
  BY <1>18 DEF Restart, RolePc, Consistent, Walkers, Writers
<1>19. CASE UNCHANGED indexVars
  BY <1>19, <1>c DEF indexVars
<1> QED
  BY <1>1, <1>2, <1>3, <1>4, <1>5, <1>6, <1>7, <1>8, <1>9, <1>10, <1>11, <1>13, <1>14, <1>15, <1>16,
     <1>17, <1>18, <1>19 DEF IndexNext, Walk, Upsert

\* A handler that changes a file holds the lock of its transcript until it
\* ends, except for a PATCH; a listing has the reconciler's lock until it is
\* served.
LocksHeld ==
  \A th \in Threads :
    /\ role[th] \in {"relabel", "import", "restore", "delete"} => lock[StemOf[my[th].path]] = th
    /\ role[th] = "list" /\ pc[th] # "served" => rlock = th

LEMMA LockStep ==
  ASSUME LibraryAssumption, IndexTypeOK, PathKnown, RolePc, LocksHeld, [IndexNext]_indexVars
  PROVE  LocksHeld'
<1> DEFINE Own(th) ==
      /\ role[th] \in {"relabel", "import", "restore", "delete"} => lock[StemOf[my[th].path]] = th
      /\ role[th] = "list" /\ pc[th] # "served" => rlock = th
<1>0. /\ lock \in [Stems -> Threads \cup {NoThread}] /\ rlock \in Threads \cup {NoThread}
      /\ StemOf \in [Paths -> Stems] /\ NoThread \notin Threads
  BY DEF IndexTypeOK, LibraryAssumption
<1>w. \A th \in Threads : Own(th)
  BY DEF LocksHeld
<1>p. \A th \in Threads : role[th] \in {"relabel", "import", "restore", "delete"} => my[th].path \in Paths
  BY DEF RolePc, Consistent, PathKnown, Walkers, IndexTypeOK, PCs, AllRoles
<1>x. ASSUME \A th \in Threads : Own(th)' PROVE LocksHeld'
  BY <1>x DEF LocksHeld
<1>a. ASSUME NEW th \in Threads, Others(th), UNCHANGED <<rlock, lock>>, Own(th)' PROVE LocksHeld'
  BY <1>a, <1>w, <1>x DEF Others
<1>b. ASSUME NEW th \in Threads, Others(th), UNCHANGED <<rlock, lock, role>>,
             my'[th].path = my[th].path, pc'[th] # "served", pc[th] # "served"
      PROVE  LocksHeld'
  BY <1>a, <1>b, <1>w
<1>c. ASSUME NEW th \in Threads, Others(th), role'[th] = "none", UNCHANGED rlock,
             UNCHANGED lock \/ lock' = [s \in Stems |-> IF lock[s] = th THEN NoThread ELSE lock[s]]
      PROVE  LocksHeld'
  <2>1. ASSUME NEW u \in Threads, u # th PROVE Own(u)'
    <3>1. Own(u) /\ (role[u] \in {"relabel", "import", "restore", "delete"} => my[u].path \in Paths)
      BY <1>p, <1>w
    <3>2. \A s \in Stems : lock[s] = u => lock'[s] = u
      BY <1>0, <1>c, <2>1
    <3> QED
      BY <1>0, <1>c, <2>1, <3>1, <3>2 DEF Others
  <2>2. Own(th)'
    BY <1>c
  <2> QED
    BY <1>x, <2>1, <2>2
<1>1. ASSUME NEW th \in Threads, List(th) PROVE LocksHeld'
  <2>1. Others(th) /\ role'[th] = "list" /\ rlock = NoThread /\ rlock' = th /\ UNCHANGED lock
    BY <1>1, ListFacts DEF Starts
  <2>2. ASSUME NEW u \in Threads, u # th PROVE Own(u)'
    BY <1>0, <1>w, <2>1, <2>2 DEF Others
  <2> QED
    BY <1>x, <2>1, <2>2
<1>2. ASSUME NEW th \in Threads, NEW ds, Scan(th, ds) PROVE LocksHeld'
  BY <1>2, <1>a, ScanFacts DEF Starts
<1>3. ASSUME NEW th \in Threads, NEW p \in Paths, Change(th, p) PROVE LocksHeld'
  <2>1. PICK m, r : Changes(th, p, m, r)
    BY <1>3, ChangeFacts DEF IndexTypeOK
  <2>2. Others(th) /\ role'[th] = r /\ UNCHANGED rlock
    BY <2>1, ChangeBegun DEF Changes, Starts
  <2>3. /\ r # "list"
        /\ r \in {"relabel", "import", "restore", "delete"} => my'[th].path = p
    BY <2>1, ChangeBegun
  <2>4. \/ UNCHANGED lock /\ r \notin {"relabel", "import", "restore", "delete"}
        \/ lock[StemOf[p]] = NoThread /\ lock' = [lock EXCEPT ![StemOf[p]] = th]
    BY <2>1 DEF Changes
  <2>5. ASSUME NEW u \in Threads, u # th PROVE Own(u)'
    <3>1. Own(u) /\ (role[u] \in {"relabel", "import", "restore", "delete"} => my[u].path \in Paths)
      BY <1>p, <1>w
    <3>2. \A s \in Stems : lock[s] = u => lock'[s] = u
      BY <1>0, <2>4
    <3> QED
      BY <1>0, <2>2, <2>5, <3>1, <3>2 DEF Others
  <2>6. Own(th)'
    BY <1>0, <2>2, <2>3, <2>4
  <2> QED
    BY <1>x, <2>5, <2>6
<1>4. ASSUME NEW th \in Threads, NEW d \in Dirs, StatDir(th, d) PROVE LocksHeld'
  BY <1>4, <1>b, StatDirFacts, StatDirFields DEF SameHand, Shared
<1>5. ASSUME NEW th \in Threads, Gate(th) PROVE LocksHeld'
  <2>0. /\ Others(th) /\ role'[th] = role[th] /\ role[th] = "list" /\ UNCHANGED lock
        /\ rlock = th
    BY <1>5, <1>w, GateFacts DEF RolePc, Consistent
  <2>1. CASE pc'[th] = "served" /\ rlock' = NoThread
    <3>1. \A u \in Threads : u # th => Own(u)'
      BY <1>w, <2>0, <2>1 DEF Others
    <3> QED
      BY <1>x, <2>0, <2>1, <3>1
  <2>2. CASE pc'[th] = "walk" /\ UNCHANGED rlock
    BY <1>a, <2>0, <2>2
  <2>3. \/ pc'[th] = "served" /\ rlock' = NoThread
        \/ pc'[th] = "walk" /\ UNCHANGED rlock
    BY <1>5, GateFacts
  <2> QED
    BY <2>1, <2>2, <2>3
<1>6. ASSUME NEW th \in Threads, NEW d \in Dirs, Glob(th, d) PROVE LocksHeld'
  <2>1. Others(th) /\ UNCHANGED <<rlock, lock, role>> /\ pc[th] = "walk" /\ pc'[th] = "walk"
    BY <1>6, GlobFacts DEF Shared
  <2>2. my'[th].path = my[th].path
    BY <1>6, GlobFields DEF SameHand
  <2> QED
    BY <1>b, <2>1, <2>2
<1>7. ASSUME NEW th \in Threads, NEW p \in Paths, StatFile(th, p) PROVE LocksHeld'
  <2>1. Others(th) /\ UNCHANGED <<rlock, lock, role>> /\ pc[th] = "walk"
    BY <1>7, StatFileFacts DEF Shared
  <2>2. role[th] \in Walkers
    BY <2>1 DEF RolePc, Consistent
  <2>3. role'[th] \notin {"relabel", "import", "restore", "delete"}
    BY <2>1, <2>2 DEF Walkers
  <2>4. role[th] = "list" => rlock = th
    BY <1>w, <2>1
  <2>5. Own(th)'
    BY <2>1, <2>3, <2>4
  <2> QED
    BY <1>a, <2>1, <2>5
<1>8. ASSUME NEW th \in Threads, Select(th) PROVE LocksHeld'
  <2>1. Others(th) /\ UNCHANGED <<rlock, lock, role>> /\ pc[th] = "select" /\ pc'[th] \in {"walk", "upsert"}
    BY <1>8, SelectFacts DEF Shared
  <2>2. my'[th].path = my[th].path
    BY <1>8, SelectFields DEF SameHand
  <2> QED
    BY <1>b, <2>1, <2>2
<1>9. ASSUME NEW th \in Threads, PruneQuery(th) PROVE LocksHeld'
  <2>1. Others(th) /\ UNCHANGED <<rlock, lock, role>> /\ pc[th] = "walk" /\ pc'[th] \in {"prune"}
    BY <1>9, PruneQueryFacts DEF Shared
  <2>2. my'[th].path = my[th].path
    BY <1>9, PruneQueryFields DEF SameHand
  <2> QED
    BY <1>b, <2>1, <2>2
<1>10. ASSUME NEW th \in Threads, NEW p \in Paths, PruneRow(th, p) PROVE LocksHeld'
  <2>1. Others(th) /\ UNCHANGED <<rlock, lock, role>> /\ pc[th] = "prune" /\ pc'[th] \in {"prune"}
    BY <1>10, PruneRowFacts
  <2>2. my'[th].path = my[th].path
    BY <1>10, PruneRowFields DEF SameHand
  <2> QED
    BY <1>b, <2>1, <2>2
<1>11. ASSUME NEW th \in Threads, EndWalk(th) PROVE LocksHeld'
  <2>1. CASE role[th] = "list"
    <3>0. /\ Others(th) /\ role'[th] = role[th] /\ UNCHANGED lock /\ rlock = th
          /\ pc'[th] = "served" /\ rlock' = NoThread
      BY <1>11, <1>w, <2>1, EndWalkFacts
    <3>1. \A u \in Threads : u # th => Own(u)'
      BY <1>w, <3>0 DEF Others
    <3> QED
      BY <1>x, <2>1, <3>0, <3>1
  <2>2. CASE role[th] # "list"
    BY <1>11, <1>c, <2>2, EndWalkFacts, StopFacts
  <2> QED
    BY <2>1, <2>2
<1>12. ASSUME NEW th \in Threads, AfterUpsert(th), UNCHANGED rlock, pc[th] \in {"upsert", "commit"}
       PROVE  LocksHeld'
  <2>1. CASE WalkOn(th)
    <3>1. Own(th) /\ role'[th] = role[th] /\ my'[th] = my[th] /\ pc'[th] = "walk" /\ UNCHANGED lock
      BY <1>w, <2>1 DEF WalkOn
    <3>2. Own(th)'
      BY <1>12, <3>1
    <3> QED
      BY <1>12, <1>a, <3>1, <3>2, AfterUpsertFacts
  <2>2. CASE Ended(th)
    BY <1>12, <1>c, <2>2, AfterUpsertFacts DEF Ended
  <2> QED
    BY <1>12, <2>1, <2>2, AfterUpsertFacts
<1>13. ASSUME NEW th \in Threads, UpsertStat(th) PROVE LocksHeld'
  <2>1. CASE AfterUpsert(th)
    BY <1>12, <1>13, <2>1, UpsertStatFacts
  <2>2. CASE ~AfterUpsert(th)
    BY <1>13, <1>b, <2>2, UpsertStatFacts, UpsertStatFields DEF SameHand
  <2> QED
    BY <2>1, <2>2
<1>14. ASSUME NEW th \in Threads, UpsertRead(th) PROVE LocksHeld'
  <2>1. Others(th) /\ UNCHANGED <<rlock, lock, role>> /\ pc[th] = "read" /\ pc'[th] \in {"commit"}
    BY <1>14, UpsertReadFacts DEF Shared
  <2>2. my'[th].path = my[th].path
    BY <1>14, UpsertReadFields
  <2> QED
    BY <1>b, <2>1, <2>2
<1>15. ASSUME NEW th \in Threads, UpsertCommit(th) PROVE LocksHeld'
  BY <1>12, <1>15, UpsertCommitFacts
<1>16. ASSUME NEW th \in Threads, DropRow(th) PROVE LocksHeld'
  BY <1>16, <1>c, DropRowFacts DEF Ended
<1>17. ASSUME NEW th \in Threads, AnswerList(th) PROVE LocksHeld'
  BY <1>17, <1>c, AnswerFacts, StopFacts DEF Shared
<1>18. CASE Restart
  BY <1>18 DEF Restart, LocksHeld
<1>19. CASE UNCHANGED indexVars
  BY <1>19 DEF indexVars, LocksHeld
<1> QED
  BY <1>1, <1>2, <1>3, <1>4, <1>5, <1>6, <1>7, <1>8, <1>9, <1>10, <1>11, <1>13, <1>14, <1>15, <1>16,
     <1>17, <1>18, <1>19 DEF IndexNext, Walk, Upsert

\* The mtime m is one that the file p cannot have, now or later: the file has
\* another, and what the trash would bring back is overwritten before it can.
Dead(p, m) == m # file[p] /\ (trash[p] = m => file[p] # Absent)

\* A text read under the stat m of p: that of the file with this mtime, or
\* none, or the mtime is dead.
TextOf(p, m, t) == m \in 1..clock /\ (t \in {m, 0} \/ Dead(p, m))

\* Rows and the texts in hand are such texts; a row is that of its path's stem.
TextsTrue ==
  /\ \A p \in Paths : file[p] <= clock /\ trash[p] <= clock
  /\ \A s \in Stems : row[s] # NoRow =>
       /\ StemOf[row[s].path] = s
       /\ TextOf(row[s].path, row[s].mtime, row[s].text)
  /\ \A th \in Threads :
       /\ pc[th] = "read" => my[th].stat \in 1..clock
       /\ pc[th] = "commit" => TextOf(my[th].path, my[th].stat, my[th].text)

LEMMA ClockMoves ==
  ASSUME LibraryAssumption, IndexTypeOK, TextsTrue,
         NEW th \in Threads, NEW p \in Paths, NEW m, NEW r, Changes(th, p, m, r)
  PROVE  /\ clock' = clock + 1 /\ \A q \in Paths : file'[q] <= clock' /\ trash'[q] <= clock'
         /\ \A q \in Paths, n \in 1..clock : Dead(q, n) => Dead(q, n)'
         /\ \A n \in 1..clock : n \in 1..clock'
<1>0. /\ clock \in Nat /\ file \in [Paths -> Nat] /\ trash \in [Paths -> Nat]
      /\ \A q \in Paths : file[q] <= clock /\ trash[q] <= clock
  BY DEF IndexTypeOK, TextsTrue
<1>1. clock' = clock + 1 /\ file' = [file EXCEPT ![p] = m]
  BY DEF Changes
<1>2. \/ m = clock + 1 /\ UNCHANGED trash
      \/ m = 0 /\ file[p] # 0 /\ trash' = [trash EXCEPT ![p] = file[p]]
      \/ m = trash[p] /\ trash[p] # 0 /\ file[p] = 0 /\ trash' = [trash EXCEPT ![p] = 0]
  BY DEF Changes, Absent
<1>3. ASSUME NEW q \in Paths PROVE file'[q] <= clock' /\ trash'[q] <= clock'
  <2>1. /\ file[q] \in Nat /\ trash[q] \in Nat /\ file[q] <= clock /\ trash[q] <= clock
        /\ file[p] \in Nat /\ trash[p] \in Nat /\ file[p] <= clock /\ trash[p] <= clock
    BY <1>0
  <2>2. file'[q] \in {file[q], m} /\ trash'[q] \in {trash[q], file[p], 0}
    BY <1>0, <1>1, <1>2
  <2>3. m \in {clock + 1, 0, trash[p]}
    BY <1>2
  <2> QED
    BY <1>0, <1>1, <2>1, <2>2, <2>3
<1>4. ASSUME NEW q \in Paths, NEW n \in 1..clock, Dead(q, n) PROVE Dead(q, n)'
  <2>0. n # 0 /\ n # clock + 1 /\ n # file[q] /\ (trash[q] = n => file[q] # 0)
    BY <1>0, <1>4 DEF Dead, Absent
  <2>1. CASE q # p
    <3>1. file'[q] = file[q] /\ trash'[q] = trash[q]
      BY <1>0, <1>1, <1>2, <2>1
    <3> QED
      BY <2>0, <3>1 DEF Dead, Absent
  <2>2. CASE q = p
    <3>1. file'[p] = m
      BY <1>0, <1>1
    <3>2. CASE m = clock + 1 /\ UNCHANGED trash
      BY <1>0, <2>0, <2>2, <3>1, <3>2 DEF Dead, Absent
    <3>3. CASE m = 0 /\ file[p] # 0 /\ trash' = [trash EXCEPT ![p] = file[p]]
      <4>1. trash'[p] = file[p]
        BY <1>0, <3>3
      <4> QED
        BY <2>0, <2>2, <3>1, <3>3, <4>1 DEF Dead, Absent
    <3>4. CASE m = trash[p] /\ trash[p] # 0 /\ file[p] = 0 /\ trash' = [trash EXCEPT ![p] = 0]
      <4>1. trash'[p] = 0
        BY <1>0, <3>4
      <4> QED
        BY <2>0, <2>2, <3>1, <3>4, <4>1 DEF Dead, Absent
    <3> QED
      BY <1>2, <3>2, <3>3, <3>4
  <2> QED
    BY <2>1, <2>2
<1> QED
  BY <1>0, <1>1, <1>3, <1>4

\* delete_by_path leaves every row as it was or takes it away.
LEMMA DeleteRowFacts ==
  ASSUME IndexTypeOK, NEW p, DeleteRow(p)
  PROVE  /\ \A s \in Stems : row'[s] # NoRow => row'[s] = row[s] /\ row[s].path # p
         /\ \A s \in Stems : row[s] # NoRow /\ row[s].path # p => row'[s] = row[s]
BY DEF IndexTypeOK, DeleteRow

LEMMA CommitFacts ==
  ASSUME LibraryAssumption, IndexTypeOK, PathKnown, NEW th \in Threads, UpsertCommit(th)
  PROVE  LET p == my[th].path IN
         /\ p \in Paths /\ StemOf[p] \in Stems
         /\ row'[StemOf[p]] = [path |-> p, mtime |-> my[th].stat, text |-> my[th].text]
         /\ \A s \in Stems : s # StemOf[p] => row'[s] = row[s]
<1>1. my[th].path \in Paths
  BY UpsertCommitFacts DEF PathKnown
<1> QED
  BY <1>1, UpsertCommitFacts DEF IndexTypeOK, LibraryAssumption

LEMMA TextStep ==
  ASSUME LibraryAssumption, IndexTypeOK, PathKnown, TextsTrue, [IndexNext]_indexVars
  PROVE  TextsTrue'
<1> DEFINE Limits == \A p \in Paths : file[p] <= clock /\ trash[p] <= clock
           RowTrue(s) == row[s] # NoRow =>
                           /\ StemOf[row[s].path] = s
                           /\ TextOf(row[s].path, row[s].mtime, row[s].text)
           ReadTrue(th) == /\ pc[th] = "read" => my[th].stat \in 1..clock
                           /\ pc[th] = "commit" => TextOf(my[th].path, my[th].stat, my[th].text)
<1>0. Limits /\ (\A s \in Stems : RowTrue(s)) /\ \A th \in Threads : ReadTrue(th)
  BY DEF TextsTrue
<1>x. ASSUME Limits', \A s \in Stems : RowTrue(s)', \A th \in Threads : ReadTrue(th)' PROVE TextsTrue'
  BY <1>x DEF TextsTrue
<1>l. clock \in Nat /\ file \in [Paths -> Nat] /\ StemOf \in [Paths -> Stems] /\ Absent = 0
  BY DEF IndexTypeOK, LibraryAssumption, Absent
<1>a. ASSUME UNCHANGED <<LibFiles, row>>, NEW th \in Threads, Others(th), ReadTrue(th)' PROVE TextsTrue'
  <2>1. Limits' /\ \A s \in Stems : RowTrue(s)'
    BY <1>0, <1>a DEF LibFiles, TextOf, Dead
  <2>2. \A u \in Threads : ReadTrue(u)'
    BY <1>0, <1>a DEF LibFiles, TextOf, Dead, Others
  <2> QED
    BY <1>x, <2>1, <2>2
<1>b. ASSUME UNCHANGED <<LibFiles, row>>, NEW th \in Threads, Others(th), pc'[th] \notin {"read", "commit"}
      PROVE  TextsTrue'
  BY <1>a, <1>b
<1>c. ASSUME UNCHANGED LibFiles, NEW th \in Threads, Others(th), pc'[th] \notin {"read", "commit"},
             \A s \in Stems : RowTrue(s)'
      PROVE  TextsTrue'
  <2>1. Limits'
    BY <1>0, <1>c DEF LibFiles
  <2>2. \A u \in Threads : ReadTrue(u)'
    BY <1>0, <1>c DEF LibFiles, TextOf, Dead, Others
  <2> QED
    BY <1>c, <1>x, <2>1, <2>2
<1>d. ASSUME UNCHANGED LibFiles, NEW p, DeleteRow(p) PROVE \A s \in Stems : RowTrue(s)'
  BY <1>0, <1>d, DeleteRowFacts DEF LibFiles, TextOf, Dead
<1>1. ASSUME NEW th \in Threads, List(th) PROVE TextsTrue'
  BY <1>1, <1>b, ListFacts DEF Starts
<1>2. ASSUME NEW th \in Threads, NEW ds, Scan(th, ds) PROVE TextsTrue'
  BY <1>2, <1>b, ScanFacts DEF Starts
<1>3. ASSUME NEW th \in Threads, NEW p \in Paths, Change(th, p) PROVE TextsTrue'
  <2>1. PICK m, r : Changes(th, p, m, r)
    BY <1>3, ChangeFacts DEF IndexTypeOK
  <2>2. Others(th) /\ pc'[th] \notin {"read", "commit"} /\ UNCHANGED row
    BY <2>1, ChangeBegun DEF Starts, Changes
  <2>3. Limits'
    BY <2>1, ClockMoves
  <2>4. ASSUME NEW q \in Paths, NEW n \in Nat, NEW t \in Nat, TextOf(q, n, t) PROVE TextOf(q, n, t)'
    <3>1. n \in 1..clock /\ (t \in {n, 0} \/ Dead(q, n))
      BY <2>4 DEF TextOf
    <3>2. n \in 1..clock' /\ (Dead(q, n) => Dead(q, n)')
      BY <2>1, <3>1, ClockMoves
    <3> QED
      BY <3>1, <3>2 DEF TextOf
  <2>5. ASSUME NEW s \in Stems PROVE RowTrue(s)'
    <3>1. row[s] # NoRow => row[s].path \in Paths /\ row[s].mtime \in Nat /\ row[s].text \in Nat
      BY DEF IndexTypeOK, Row
    <3> QED
      BY <1>0, <2>2, <2>4, <3>1
  <2>6. ASSUME NEW u \in Threads PROVE ReadTrue(u)'
    <3>1. CASE u = th
      BY <2>2, <3>1
    <3>2. CASE u # th
      <4>1. pc'[u] = pc[u] /\ my'[u] = my[u]
        BY <2>2, <3>2 DEF Others
      <4>2. CASE pc[u] = "read"
        <5>1. my[u].stat \in 1..clock
          BY <1>0, <4>2
        <5>2. my[u].stat \in 1..clock'
          BY <2>1, <5>1, ClockMoves
        <5> QED
          BY <4>1, <4>2, <5>2
      <4>3. CASE pc[u] = "commit"
        <5>1. my[u].path \in Paths /\ my[u].stat \in Nat /\ my[u].text \in Nat
          BY <4>3, LocalFacts, LocalFields DEF PathKnown
        <5> QED
          BY <1>0, <2>4, <4>1, <4>3, <5>1
      <4> QED
        BY <4>1, <4>2, <4>3
    <3> QED
      BY <3>1, <3>2
  <2> QED
    BY <1>x, <2>3, <2>5, <2>6
<1>4. ASSUME NEW th \in Threads, NEW d \in Dirs, StatDir(th, d) PROVE TextsTrue'
  BY <1>4, <1>b, StatDirFacts DEF Shared
<1>5. ASSUME NEW th \in Threads, Gate(th) PROVE TextsTrue'
  BY <1>5, <1>b, GateFacts
<1>6. ASSUME NEW th \in Threads, NEW d \in Dirs, Glob(th, d) PROVE TextsTrue'
  BY <1>6, <1>b, GlobFacts DEF Shared
<1>7. ASSUME NEW th \in Threads, NEW p \in Paths, StatFile(th, p) PROVE TextsTrue'
  BY <1>7, <1>b, StatFileFacts DEF Shared
<1>8. ASSUME NEW th \in Threads, Select(th) PROVE TextsTrue'
  BY <1>8, <1>b, SelectFacts DEF Shared
<1>9. ASSUME NEW th \in Threads, PruneQuery(th) PROVE TextsTrue'
  BY <1>9, <1>b, PruneQueryFacts DEF Shared
<1>10. ASSUME NEW th \in Threads, NEW p \in Paths, PruneRow(th, p) PROVE TextsTrue'
  BY <1>10, <1>c, <1>d, PruneRowFacts
<1>11. ASSUME NEW th \in Threads, EndWalk(th) PROVE TextsTrue'
  BY <1>11, <1>b, EndWalkFacts, StopFacts
<1>12. ASSUME NEW th \in Threads, AfterUpsert(th)
       PROVE  Others(th) /\ pc'[th] \notin {"read", "commit"}
  BY <1>12, AfterUpsertFacts DEF WalkOn, Ended
<1>13. ASSUME NEW th \in Threads, UpsertStat(th) PROVE TextsTrue'
  <2>1. CASE AfterUpsert(th)
    BY <1>12, <1>13, <1>b, <2>1, UpsertStatFacts
  <2>2. CASE ~AfterUpsert(th)
    <3>1. /\ pc[th] = "upsert" /\ pc'[th] = "read" /\ file[my[th].path] # 0 /\ Others(th)
          /\ my'[th].stat = file[my[th].path] /\ UNCHANGED <<LibFiles, row>>
      BY <1>13, <1>l, <2>2, UpsertStatFacts, UpsertStatFields
    <3>2. my[th].path \in Paths
      BY <3>1 DEF PathKnown
    <3>3. file[my[th].path] \in 1..clock
      BY <1>0, <1>l, <3>1, <3>2
    <3> QED
      BY <1>a, <3>1, <3>3 DEF LibFiles
  <2> QED
    BY <2>1, <2>2
<1>14. ASSUME NEW th \in Threads, UpsertRead(th) PROVE TextsTrue'
  <2>1. /\ pc[th] = "read" /\ pc'[th] = "commit" /\ Others(th) /\ UNCHANGED <<LibFiles, row>>
        /\ my'[th].text = file[my[th].path] /\ my'[th].path = my[th].path /\ my'[th].stat = my[th].stat
    BY <1>14, UpsertReadFacts, UpsertReadFields DEF Shared
  <2>2. my[th].stat \in 1..clock
    BY <1>0, <2>1
  <2>3. TextOf(my[th].path, my[th].stat, file[my[th].path])
    BY <1>l, <2>2 DEF TextOf, Dead
  <2>4. ReadTrue(th)'
    BY <2>1, <2>3 DEF TextOf, Dead, LibFiles
  <2> QED
    BY <1>a, <2>1, <2>4
<1>15. ASSUME NEW th \in Threads, UpsertCommit(th) PROVE TextsTrue'
  <2>1. pc[th] = "commit" /\ UNCHANGED LibFiles /\ AfterUpsert(th)
    BY <1>15, UpsertCommitFacts
  <2>2. PICK q, n, t : q = my[th].path /\ n = my[th].stat /\ t = my[th].text
    OBVIOUS
  <2>3. /\ StemOf[q] \in Stems /\ row'[StemOf[q]] = [path |-> q, mtime |-> n, text |-> t]
        /\ \A s \in Stems : s # StemOf[q] => row'[s] = row[s]
    BY <1>15, <2>2, CommitFacts
  <2>4. TextOf(q, n, t) /\ (TextOf(q, n, t) => TextOf(q, n, t)')
    BY <1>0, <2>1, <2>2 DEF TextOf, Dead, LibFiles
  <2>5. ASSUME NEW s \in Stems PROVE RowTrue(s)'
    <3>1. CASE s = StemOf[q]
      <4>1. row'[s].path = q /\ row'[s].mtime = n /\ row'[s].text = t
        BY <2>3, <3>1
      <4> QED
        BY <2>4, <3>1, <4>1 DEF TextOf, Dead
    <3>2. CASE s # StemOf[q]
      BY <1>0, <2>1, <2>3, <3>2 DEF LibFiles, TextOf, Dead
    <3> QED
      BY <3>1, <3>2
  <2>6. Others(th) /\ pc'[th] \notin {"read", "commit"}
    BY <1>12, <2>1
  <2> QED
    BY <1>c, <2>1, <2>5, <2>6
<1>16. ASSUME NEW th \in Threads, DropRow(th) PROVE TextsTrue'
  BY <1>16, <1>c, <1>d, DropRowFacts DEF Ended
<1>17. ASSUME NEW th \in Threads, AnswerList(th) PROVE TextsTrue'
  BY <1>17, <1>b, AnswerFacts, StopFacts DEF Shared
<1>18. CASE Restart
  <2>1. UNCHANGED <<LibFiles, row>> /\ \A th \in Threads : pc'[th] = "idle"
    BY <1>18 DEF Restart, files, LibFiles
  <2>2. Limits' /\ \A s \in Stems : RowTrue(s)'
    BY <1>0, <2>1 DEF LibFiles, TextOf, Dead
  <2>3. \A th \in Threads : ReadTrue(th)'
    BY <2>1
  <2> QED
    BY <1>x, <2>2, <2>3
<1>19. CASE UNCHANGED indexVars
  <2>1. UNCHANGED <<LibFiles, row, pc, my>>
    BY <1>19 DEF indexVars, files, LibFiles
  <2>2. Limits' /\ (\A s \in Stems : RowTrue(s)') /\ \A th \in Threads : ReadTrue(th)'
    BY <1>0, <2>1 DEF LibFiles, TextOf, Dead
  <2> QED
    BY <1>x, <2>2
<1> QED
  BY <1>1, <1>2, <1>3, <1>4, <1>5, <1>6, <1>7, <1>8, <1>9, <1>10, <1>11, <1>13, <1>14, <1>15, <1>16,
     <1>17, <1>18, <1>19 DEF IndexNext, Walk, Upsert

\* A listing has the mtime of the directory d.
Statted(th, d) == role[th] = "list" /\ (pc[th] = "stat" => d \notin my[th].left)

\* The mtimes a listing read: none is of the future or older than what the
\* reconciler has seen, until the listing is served; then what was seen is as
\* new as they are.  They cover every change that came before its turn.
ListTimes(th) ==
  role[th] = "list" =>
    /\ my[th].start <= clock
    /\ \A d \in Dirs : my[th].snap[d] <= dirTime[d]
    /\ \A d \in Dirs : Statted(th, d) /\ pc[th] # "served" => seen[d] <= my[th].snap[d]
    /\ \A d \in Dirs : pc[th] = "served" => my[th].snap[d] <= seen[d]
    /\ \A p \in Paths : Statted(th, DirOf[p]) /\ changed[p] <= my[th].start
                          => changed[p] <= my[th].snap[DirOf[p]]

FileTimes ==
  /\ \A p \in Paths : 1 <= changed[p] /\ changed[p] <= dirTime[DirOf[p]]
  /\ \A d \in Dirs : dirTime[d] <= clock /\ seen[d] <= dirTime[d]

Times == FileTimes /\ \A th \in Threads : ListTimes(th)

LEMMA TimeStep ==
  ASSUME LibraryAssumption, IndexTypeOK, RolePc, LocksHeld, Times, [IndexNext]_indexVars
  PROVE  Times'
<1>0. FileTimes /\ \A th \in Threads : ListTimes(th)
  BY DEF Times
<1>l. /\ clock \in Nat /\ dirTime \in [Dirs -> Nat] /\ changed \in [Paths -> Nat] /\ seen \in [Dirs -> Nat]
      /\ DirOf \in [Paths -> Dirs]
  BY DEF IndexTypeOK, LibraryAssumption
<1>m. ASSUME NEW th \in Threads PROVE my[th].snap \in [Dirs -> Nat] /\ my[th].start \in Nat
  BY LocalFacts, LocalFields
<1>a. ASSUME UNCHANGED <<LibFiles, seen>>, NEW th \in Threads, Others(th), ListTimes(th)' PROVE Times'
  <2>1. FileTimes'
    BY <1>0, <1>a DEF FileTimes, LibFiles
  <2>2. \A u \in Threads : u # th => ListTimes(u)'
    BY <1>0, <1>a DEF ListTimes, Statted, LibFiles, Others
  <2> QED
    BY <1>a, <2>1, <2>2 DEF Times
<1>b. ASSUME UNCHANGED <<LibFiles, seen>>, NEW th \in Threads, Others(th), role'[th] # "list" PROVE Times'
  BY <1>a, <1>b DEF ListTimes
<1>c. ASSUME UNCHANGED <<LibFiles, seen>>, NEW th \in Threads, Others(th), role'[th] = role[th], SameTimes(th),
             pc[th] # "stat", pc[th] # "served", pc'[th] # "stat", pc'[th] # "served"
      PROVE  Times'
  <2>1. ListTimes(th)
    BY <1>0
  <2>2. ListTimes(th)'
    BY <1>c, <2>1 DEF ListTimes, Statted, LibFiles, SameTimes
  <2> QED
    BY <1>a, <1>c, <2>2
<1>1. ASSUME NEW th \in Threads, List(th) PROVE Times'
  <2>1. /\ UNCHANGED <<LibFiles, seen>> /\ Others(th) /\ role'[th] = "list" /\ pc'[th] = "stat"
        /\ my'[th] = [Blank EXCEPT !.start = clock, !.left = Dirs]
    BY <1>1, ListFacts DEF Starts
  <2>2. my'[th].start = clock /\ my'[th].left = Dirs /\ \A d \in Dirs : my'[th].snap[d] = 0
    BY <2>1 DEF Blank, NoTimes
  <2>3. \A d \in Dirs : ~Statted(th, d)'
    BY <2>1, <2>2 DEF Statted
  <2>4. ListTimes(th)'
    BY <1>l, <2>1, <2>2, <2>3 DEF ListTimes, LibFiles
  <2> QED
    BY <1>a, <2>1, <2>4
<1>2. ASSUME NEW th \in Threads, NEW ds, Scan(th, ds) PROVE Times'
  BY <1>2, <1>b, ScanFacts DEF Starts
<1>3. ASSUME NEW th \in Threads, NEW p \in Paths, Change(th, p) PROVE Times'
  <2>1. PICK m, r : Changes(th, p, m, r)
    BY <1>3, <1>l, ChangeFacts
  <2>2. /\ clock' = clock + 1 /\ changed' = [changed EXCEPT ![p] = clock + 1]
        /\ dirTime' = [dirTime EXCEPT ![DirOf[p]] = clock + 1] /\ UNCHANGED seen
    BY <2>1 DEF Changes
  <2>3. Others(th) /\ role'[th] # "list"
    BY <2>1, ChangeBegun DEF Starts
  <2>4. /\ \A q \in Paths : changed'[q] = IF q = p THEN clock + 1 ELSE changed[q]
        /\ \A d \in Dirs : dirTime'[d] = IF d = DirOf[p] THEN clock + 1 ELSE dirTime[d]
    BY <1>l, <2>2
  <2>5. FileTimes'
    BY <1>0, <1>l, <2>2, <2>4 DEF FileTimes
  <2>6. ASSUME NEW u \in Threads, u # th PROVE ListTimes(u)'
    <3>1. role'[u] = role[u] /\ pc'[u] = pc[u] /\ my'[u] = my[u] /\ ListTimes(u)
      BY <1>0, <2>3, <2>6 DEF Others
    <3>2. \A d \in Dirs : dirTime[d] \in Nat /\ dirTime[d] <= clock /\ dirTime[d] <= dirTime'[d]
      BY <1>0, <1>l, <2>4 DEF FileTimes
    <3>3. my[u].snap \in [Dirs -> Nat] /\ my[u].start \in Nat
      BY <1>m
    <3>4. \A d \in Dirs : my[u].snap[d] <= dirTime[d] => my[u].snap[d] <= dirTime'[d]
      BY <1>l, <2>4, <3>2, <3>3
    <3>5. \A q \in Paths : my[u].start <= clock /\ changed'[q] <= my[u].start => changed'[q] = changed[q]
      BY <1>l, <2>4, <3>3
    <3>6. \A d \in Dirs : Statted(u, d)' <=> Statted(u, d)
      BY <3>1 DEF Statted
    <3>7. my[u].start <= clock => my[u].start <= clock'
      BY <1>l, <2>2, <3>3
    <3>8. \A q \in Paths : DirOf[q] \in Dirs
      BY <1>l
    <3> QED
      BY <2>2, <3>1, <3>4, <3>5, <3>6, <3>7, <3>8 DEF ListTimes
  <2>7. ListTimes(th)'
    BY <2>3 DEF ListTimes
  <2> QED
    BY <2>5, <2>6, <2>7 DEF Times
<1>4. ASSUME NEW th \in Threads, NEW d \in Dirs, StatDir(th, d) PROVE Times'
  <2>1. /\ UNCHANGED <<LibFiles, seen>> /\ Others(th) /\ role'[th] = role[th] /\ pc[th] = "stat"
        /\ pc'[th] = IF my[th].left = {d} THEN "gate" ELSE "stat"
    BY <1>4, StatDirFacts DEF Shared
  <2>2. /\ my'[th].start = my[th].start /\ my'[th].left = my[th].left \ {d}
        /\ my'[th].snap = [my[th].snap EXCEPT ![d] = dirTime[d]]
    BY <1>4, StatDirFields
  <2>3. role[th] = "list" /\ ListTimes(th)
    BY <1>0, <2>1 DEF RolePc, Consistent
  <2>4. \A e \in Dirs : my'[th].snap[e] = IF e = d THEN dirTime[d] ELSE my[th].snap[e]
    BY <1>m, <2>2
  <2>5. \A e \in Dirs : Statted(th, e)' => e = d \/ Statted(th, e)
    BY <2>1, <2>2 DEF Statted
  <2>6. pc'[th] # "served" /\ pc[th] # "served"
    BY <2>1
  <2>7. /\ \A e \in Dirs : my'[th].snap[e] <= dirTime[e]
        /\ \A e \in Dirs : Statted(th, e)' => seen[e] <= my'[th].snap[e]
    BY <1>0, <1>l, <2>3, <2>4, <2>5, <2>6 DEF FileTimes, ListTimes
  <2>8. \A p \in Paths : Statted(th, DirOf[p])' /\ changed[p] <= my[th].start => changed[p] <= my'[th].snap[DirOf[p]]
    BY <1>0, <1>l, <2>3, <2>4, <2>5 DEF FileTimes, ListTimes
  <2>9. ListTimes(th)'
    BY <2>1, <2>2, <2>3, <2>6, <2>7, <2>8 DEF ListTimes, LibFiles
  <2> QED
    BY <1>a, <2>1, <2>9
<1>5. ASSUME NEW th \in Threads, Gate(th) PROVE Times'
  <2>1. /\ UNCHANGED <<LibFiles, seen>> /\ Others(th) /\ role'[th] = role[th] /\ pc[th] = "gate"
        /\ SameTimes(th)
    BY <1>5, GateFacts, GateFields
  <2>2. CASE pc'[th] = "walk"
    BY <1>c, <2>1, <2>2
  <2>3. CASE my[th].snap = seen /\ pc'[th] = "served" /\ my'[th] = my[th]
    <3>1. ListTimes(th) /\ \A d \in Dirs : Statted(th, d) <=> role[th] = "list"
      BY <1>0, <2>1 DEF Statted
    <3>2. \A d \in Dirs : Statted(th, d)' <=> role[th] = "list"
      BY <2>1, <2>3 DEF Statted
    <3>3. \A d \in Dirs : my[th].snap[d] <= seen[d]
      BY <1>l, <2>3
    <3>4. \A p \in Paths : DirOf[p] \in Dirs
      BY <1>l
    <3>5. ListTimes(th)'
      BY <2>1, <2>3, <3>1, <3>2, <3>3, <3>4 DEF ListTimes, LibFiles
    <3> QED
      BY <1>a, <2>1, <3>5
  <2> QED
    BY <1>5, <2>2, <2>3, GateFacts
<1>6. ASSUME NEW th \in Threads, NEW d \in Dirs, Glob(th, d) PROVE Times'
  BY <1>6, <1>c, GlobFacts, GlobFields DEF Shared
<1>7. ASSUME NEW th \in Threads, NEW p \in Paths, StatFile(th, p) PROVE Times'
  BY <1>7, <1>c, StatFileFacts, StatFileFields DEF Shared
<1>8. ASSUME NEW th \in Threads, Select(th) PROVE Times'
  BY <1>8, <1>c, SelectFacts, SelectFields DEF Shared
<1>9. ASSUME NEW th \in Threads, PruneQuery(th) PROVE Times'
  BY <1>9, <1>c, PruneQueryFacts, PruneQueryFields DEF Shared
<1>10. ASSUME NEW th \in Threads, NEW p \in Paths, PruneRow(th, p) PROVE Times'
  BY <1>10, <1>c, PruneRowFacts, PruneRowFields DEF Shared
<1>11. ASSUME NEW th \in Threads, EndWalk(th) PROVE Times'
  <2>1. CASE role[th] # "list"
    BY <1>11, <1>b, <2>1, EndWalkFacts, StopFacts
  <2>2. CASE role[th] = "list"
    <3>1. /\ UNCHANGED LibFiles /\ Others(th) /\ pc[th] = "prune" /\ seen' = my[th].snap
          /\ pc'[th] = "served" /\ my'[th] = my[th] /\ role'[th] = role[th]
      BY <1>11, <2>2, EndWalkFacts
    <3>2. ListTimes(th) /\ (\A d \in Dirs : Statted(th, d)) /\ (\A d \in Dirs : Statted(th, d)')
      BY <1>0, <2>2, <3>1 DEF Statted
    <3>3. \A d \in Dirs : seen[d] <= seen'[d] /\ seen'[d] = my[th].snap[d] /\ seen'[d] <= dirTime[d]
      BY <2>2, <3>1, <3>2 DEF ListTimes
    <3>4. FileTimes'
      BY <1>0, <1>l, <3>1, <3>3 DEF FileTimes, LibFiles
    <3>5. ListTimes(th)'
      <4>1. \A d \in Dirs : my[th].snap[d] <= seen'[d]
        BY <1>m, <3>3
      <4> QED
        BY <1>l, <2>2, <3>1, <3>2, <4>1 DEF ListTimes, LibFiles
    <3>6. ASSUME NEW u \in Threads, u # th PROVE ListTimes(u)'
      <4>1. role'[u] = role[u] /\ pc'[u] = pc[u] /\ my'[u] = my[u] /\ ListTimes(u)
        BY <1>0, <3>1, <3>6 DEF Others
      <4>2. role[u] = "list" => pc[u] = "served"
        BY <2>2, <3>1, <3>6 DEF LocksHeld
      <4>3. \A d \in Dirs : my[u].snap[d] <= seen[d] => my[u].snap[d] <= seen'[d]
        BY <1>l, <1>m, <3>1, <3>3
      <4> QED
        BY <3>1, <4>1, <4>2, <4>3 DEF ListTimes, Statted, LibFiles
    <3> QED
      BY <3>4, <3>5, <3>6 DEF Times
  <2> QED
    BY <2>1, <2>2
<1>12. ASSUME NEW th \in Threads, AfterUpsert(th), UNCHANGED <<LibFiles, seen>>, pc[th] \in {"upsert", "commit"}
       PROVE  Times'
  <2>1. CASE WalkOn(th)
    <3>1. Others(th) /\ role'[th] = role[th] /\ SameTimes(th) /\ pc'[th] = "walk"
      BY <1>12, <2>1, AfterUpsertFacts DEF WalkOn, SameTimes
    <3> QED
      BY <1>12, <1>c, <3>1
  <2>2. CASE Ended(th)
    BY <1>12, <1>b, <2>2, AfterUpsertFacts DEF Ended
  <2> QED
    BY <1>12, <2>1, <2>2, AfterUpsertFacts
<1>13. ASSUME NEW th \in Threads, UpsertStat(th) PROVE Times'
  <2>1. CASE AfterUpsert(th)
    BY <1>12, <1>13, <2>1, UpsertStatFacts
  <2>2. CASE ~AfterUpsert(th)
    BY <1>13, <1>c, <2>2, UpsertStatFacts, UpsertStatFields
  <2> QED
    BY <2>1, <2>2
<1>14. ASSUME NEW th \in Threads, UpsertRead(th) PROVE Times'
  BY <1>14, <1>c, UpsertReadFacts, UpsertReadFields DEF Shared
<1>15. ASSUME NEW th \in Threads, UpsertCommit(th) PROVE Times'
  BY <1>12, <1>15, UpsertCommitFacts
<1>16. ASSUME NEW th \in Threads, DropRow(th) PROVE Times'
  BY <1>16, <1>b, DropRowFacts DEF Ended
<1>17. ASSUME NEW th \in Threads, AnswerList(th) PROVE Times'
  BY <1>17, <1>b, AnswerFacts, StopFacts DEF Shared
<1>18. CASE Restart
  <2>1. UNCHANGED LibFiles /\ (\A d \in Dirs : seen'[d] = 0) /\ \A th \in Threads : role'[th] # "list"
    BY <1>18 DEF Restart, files, LibFiles, NoTimes
  <2> QED
    BY <1>0, <1>l, <2>1 DEF Times, FileTimes, ListTimes, LibFiles
<1>19. CASE UNCHANGED indexVars
  <2>1. UNCHANGED <<LibFiles, seen, role, pc, my>>
    BY <1>19 DEF indexVars, files, LibFiles
  <2> QED
    BY <1>0, <2>1 DEF Times, FileTimes, ListTimes, Statted, LibFiles
<1> QED
  BY <1>1, <1>2, <1>3, <1>4, <1>5, <1>6, <1>7, <1>8, <1>9, <1>10, <1>11, <1>13, <1>14, <1>15, <1>16,
     <1>17, <1>18, <1>19 DEF IndexNext, Walk, Upsert

-----------------------------------------------------------------------------
\* While no operation of Loose has overlapped another: what the locks keep apart.

\* An operation of Loose is alone.
Apart == \A th, u \in Threads : role[th] \in Loose /\ u # th => role[u] = "none"

\* The file p has changed since the listing read the mtime of its directory.
Moved(th, p) == role[th] = "list" /\ changed[p] > my[th].snap[DirOf[p]]

\* The file a thread is at: there, with the mtime and the text in hand, unless
\* a listing has been overtaken by a change of it.
HandTrue(th) ==
  /\ pc[th] = "upsert" /\ role[th] \in Writers => file[my[th].path] # 0
  /\ pc[th] \in {"select", "read", "commit"} =>
       \/ Moved(th, my[th].path)
       \/ /\ my[th].stat = file[my[th].path] /\ my[th].stat # 0
          /\ pc[th] = "commit" => my[th].text = my[th].stat
  /\ pc[th] = "drop" => file[my[th].path] = 0
  /\ pc[th] = "commit" /\ file[my[th].path] = my[th].stat => my[th].text = my[th].stat

\* The files a walk has listed are there, and the others of the directories it
\* has listed are not, in the same sense; nor are those of these directories
\* whose rows it deletes.
ScanTrue(th) ==
  /\ role[th] = "list" =>
       /\ pc[th] \in {"walk", "select", "upsert", "read", "commit", "prune"} => my[th].dirs = Dirs
       /\ pc[th] \in {"stat", "gate"} => my[th].disk = {}
       /\ \A p \in my[th].disk : file[p] # 0 \/ Moved(th, p)
  /\ role[th] \in Walkers /\ pc[th] \in {"walk", "select", "upsert", "read", "commit", "prune"} =>
       \A p \in Paths \ my[th].disk :
         DirOf[p] \in my[th].dirs \ my[th].left => file[p] = 0 \/ Moved(th, p)
  /\ pc[th] = "prune" =>
       /\ my[th].left = {} /\ my[th].todo = {}
       /\ \A p \in my[th].gone : DirOf[p] \in my[th].dirs => file[p] = 0 \/ Moved(th, p)

Hands == \A th \in Threads : HandTrue(th) /\ ScanTrue(th)

\* While loose stays FALSE it was.
LEMMA StaysOrderly ==
  ASSUME IndexTypeOK, [IndexNext]_indexVars, ~loose'
  PROVE  ~loose
<1>1. ASSUME NEW th \in Threads, Walk(th) PROVE UNCHANGED loose
  BY <1>1, StatDirFacts, GlobFacts, StatFileFacts, PruneRowFacts, GateFacts, SelectFacts, PruneQueryFacts,
     EndWalkFacts DEF Walk, Shared
<1>2. ASSUME NEW th \in Threads, Upsert(th) PROVE UNCHANGED loose
  BY <1>2, UpsertStatFacts, UpsertReadFacts, UpsertCommitFacts DEF Upsert, Shared
<1>3. ASSUME NEW th \in Threads, NEW p \in Paths, Change(th, p) PROVE ~loose
  <2>1. PICK m, r : Changes(th, p, m, r)
    BY <1>3, ChangeFacts DEF IndexTypeOK
  <2> QED
    BY <2>1, ChangeBegun DEF Starts
<1>4. ASSUME NEW th \in Threads, NEW ds \in SUBSET Dirs, Scan(th, ds) PROVE ~loose
  BY <1>4, ScanFacts DEF Starts
<1>5. ASSUME NEW th \in Threads, List(th) PROVE ~loose
  BY <1>5, ListFacts DEF Starts
<1>6. ASSUME NEW th \in Threads, DropRow(th) \/ AnswerList(th) PROVE UNCHANGED loose
  BY <1>6, DropRowFacts, AnswerFacts DEF Shared
<1>7. ASSUME Restart PROVE ~loose
  BY <1>7 DEF Restart, IndexTypeOK
<1>8. ASSUME UNCHANGED indexVars PROVE UNCHANGED loose
  BY <1>8 DEF indexVars
<1> QED
  BY <1>1, <1>2, <1>3, <1>4, <1>5, <1>6, <1>7, <1>8 DEF IndexNext

\* A step either begins an operation of a thread or lets it keep its role or
\* have none.
LEMMA RoleMoves ==
  ASSUME LibraryAssumption, IndexTypeOK, [IndexNext]_indexVars
  PROVE  \/ \E th \in Threads : \E r, where : Starts(th, r, where)
         \/ \A th \in Threads : role'[th] \in {role[th], "none"}
<1>a. ASSUME NEW th \in Threads, Others(th), role'[th] \in {role[th], "none"}
      PROVE  \A u \in Threads : role'[u] \in {role[u], "none"}
  BY <1>a DEF Others
<1>1. ASSUME NEW th \in Threads, Walk(th) PROVE Others(th) /\ role'[th] \in {role[th], "none"}
  <2>1. CASE EndWalk(th)
    BY <2>1, EndWalkFacts, StopFacts
  <2> QED
    BY <1>1, <2>1, StatDirFacts, GlobFacts, StatFileFacts, PruneRowFacts, GateFacts, SelectFacts,
       PruneQueryFacts DEF Walk
<1>2. ASSUME NEW th \in Threads, Upsert(th) PROVE Others(th) /\ role'[th] \in {role[th], "none"}
  <2>1. CASE AfterUpsert(th)
    BY <2>1, AfterUpsertFacts DEF WalkOn, Ended
  <2> QED
    BY <1>2, <2>1, UpsertStatFacts, UpsertReadFacts, UpsertCommitFacts DEF Upsert
<1>3. ASSUME NEW th \in Threads, NEW p \in Paths, Change(th, p) PROVE \E r, where : Starts(th, r, where)
  <2>1. PICK m, r : Changes(th, p, m, r)
    BY <1>3, ChangeFacts DEF IndexTypeOK
  <2> QED
    BY <2>1, ChangeBegun
<1>4. ASSUME NEW th \in Threads, List(th) PROVE \E r, where : Starts(th, r, where)
  BY <1>4, ListFacts
<1>5. ASSUME NEW th \in Threads, NEW ds, Scan(th, ds) PROVE \E r, where : Starts(th, r, where)
  BY <1>5, ScanFacts
<1>6. ASSUME NEW th \in Threads, DropRow(th) \/ AnswerList(th) PROVE Others(th) /\ role'[th] = "none"
  BY <1>6, DropRowFacts, AnswerFacts, StopFacts
<1>7. ASSUME Restart PROVE \A th \in Threads : role'[th] = "none"
  BY <1>7 DEF Restart
<1>8. ASSUME UNCHANGED indexVars PROVE UNCHANGED role
  BY <1>8 DEF indexVars
<1>9. CASE \E th \in Threads : \/ List(th)
                               \/ \E ds \in SUBSET Dirs \ {{}} : Scan(th, ds)
                               \/ \E p \in Paths : Change(th, p)
  BY <1>3, <1>4, <1>5, <1>9
<1>10. CASE \E th \in Threads : Walk(th) \/ Upsert(th) \/ DropRow(th) \/ AnswerList(th)
  BY <1>1, <1>10, <1>2, <1>6, <1>a
<1> QED
  BY <1>10, <1>7, <1>8, <1>9 DEF IndexNext

LEMMA ApartStep ==
  ASSUME LibraryAssumption, IndexTypeOK, RolePc, Apart, [IndexNext]_indexVars, ~loose'
  PROVE  Apart'
<1>1. "none" \notin Loose
  BY DEF Loose
<1>2. ASSUME \A th \in Threads : role'[th] \in {role[th], "none"} PROVE Apart'
  BY <1>1, <1>2 DEF Apart
<1>3. ASSUME NEW th \in Threads, NEW r, NEW where, Starts(th, r, where) PROVE Apart'
  <2>1. \A u \in Threads : u # th => role'[u] = role[u]
    BY <1>3 DEF Starts, Others
  <2>2. \A u \in Threads : role[u] = "none" <=> pc[u] = "idle"
    BY DEF RolePc, Consistent
  <2>3. \A u \in Threads : u # th /\ pc[u] # "idle" => role'[th] \notin Loose /\ role[u] \notin Loose
    BY <1>3 DEF Starts
  <2>4. ASSUME NEW x \in Threads, NEW u \in Threads, role'[x] \in Loose, u # x PROVE role'[u] = "none"
    <3>1. CASE x = th
      BY <2>1, <2>2, <2>3, <2>4, <3>1
    <3>2. CASE x # th
      BY <1>1, <2>1, <2>2, <2>3, <2>4, <3>2
    <3> QED
      BY <3>1, <3>2
  <2> QED
    BY <2>4 DEF Apart
<1> QED
  BY <1>2, <1>3, RoleMoves

\* What a change of the file p finds the other threads at: nothing, a listing,
\* or a handler at a file of another transcript.
LEMMA ChangeAlone ==
  ASSUME LibraryAssumption, IndexTypeOK, RolePc, LocksHeld,
         NEW th \in Threads, NEW p \in Paths, NEW m, NEW r, Changes(th, p, m, r), ~loose',
         NEW u \in Threads, u # th
  PROVE  /\ role'[u] = role[u] /\ pc'[u] = pc[u] /\ my'[u] = my[u]
         /\ \/ role[u] = "none" /\ pc[u] = "idle"
            \/ role[u] = "list"
            \/ /\ role[u] \in {"relabel", "import", "delete"} /\ StemOf[my[u].path] # StemOf[p]
               /\ r \notin Loose
<1>1. PICK where : Starts(th, r, where)
  BY ChangeBegun
<1>2. role'[u] = role[u] /\ pc'[u] = pc[u] /\ my'[u] = my[u]
  BY <1>1 DEF Starts, Others
<1>3. Consistent(role[u], pc[u]) /\ role[u] \in AllRoles \cup {"none"}
  BY DEF RolePc, IndexTypeOK
<1>4. CASE pc[u] = "idle"
  BY <1>2, <1>3, <1>4 DEF Consistent
<1>5. CASE pc[u] # "idle"
  <2>1. r \notin Loose /\ role[u] \notin Loose
    BY <1>1, <1>5 DEF Starts
  <2>2. r \in {"relabel", "import", "delete"} /\ lock[StemOf[p]] = NoThread
    BY <2>1 DEF Changes, Loose
  <2>3. role[u] \in {"list", "relabel", "import", "delete", "restart"}
    BY <1>3, <1>5, <2>1 DEF AllRoles, Loose, Consistent
  <2>4. role[u] # "restart"
    BY <1>3, <1>5 DEF Consistent, Walkers, Writers, IndexTypeOK, PCs
  <2>5. role[u] \in {"relabel", "import", "delete"} => lock[StemOf[my[u].path]] = u
    BY DEF LocksHeld
  <2>6. NoThread \notin Threads
    BY DEF LibraryAssumption
  <2> QED
    BY <1>2, <2>1, <2>2, <2>3, <2>4, <2>5, <2>6
<1> QED
  BY <1>4, <1>5

LEMMA HandStep ==
  ASSUME LibraryAssumption, IndexTypeOK, PathKnown, RolePc, LocksHeld, TextsTrue, Times, Hands,
         [IndexNext]_indexVars, ~loose'
  PROVE  Hands'
<1>0. \A th \in Threads : HandTrue(th) /\ ScanTrue(th)
  BY DEF Hands
<1>l. /\ clock \in Nat /\ file \in [Paths -> Nat] /\ changed \in [Paths -> Nat]
      /\ StemOf \in [Paths -> Stems] /\ DirOf \in [Paths -> Dirs] /\ Absent = 0
  BY DEF IndexTypeOK, LibraryAssumption, Absent
<1>r. ASSUME NEW th \in Threads PROVE Consistent(role[th], pc[th])
  BY DEF RolePc
<1>m. ASSUME NEW th \in Threads
      PROVE  /\ my[th].snap \in [Dirs -> Nat] /\ my[th].dirs \subseteq Dirs /\ my[th].left \subseteq Dirs
             /\ my[th].disk \subseteq Paths /\ my[th].todo \subseteq Paths /\ my[th].gone \subseteq Paths
  BY LocalFacts, LocalFields
<1>a. ASSUME UNCHANGED LibFiles, NEW th \in Threads, Others(th), HandTrue(th)', ScanTrue(th)' PROVE Hands'
  <2>1. UNCHANGED <<file, changed>>
    BY <1>a DEF LibFiles
  <2>2. ASSUME NEW u \in Threads, u # th PROVE HandTrue(u)' /\ ScanTrue(u)'
    <3>1. HandTrue(u) /\ ScanTrue(u) /\ role'[u] = role[u] /\ pc'[u] = pc[u] /\ my'[u] = my[u]
      BY <1>0, <1>a, <2>2 DEF Others
    <3>2. HandTrue(u)'
      BY <2>1, <3>1 DEF HandTrue, Moved
    <3>3. ScanTrue(u)'
      BY <2>1, <3>1 DEF ScanTrue, Moved
    <3> QED
      BY <3>2, <3>3
  <2> QED
    BY <1>a, <2>2 DEF Hands
<1>b. ASSUME UNCHANGED LibFiles, NEW th \in Threads, Others(th),
             pc'[th] \notin {"select", "upsert", "read", "commit", "drop", "prune"}, ScanTrue(th)'
      PROVE  Hands'
  <2>1. HandTrue(th)'
    BY <1>b DEF HandTrue
  <2> QED
    BY <1>a, <1>b, <2>1
<1>c. ASSUME UNCHANGED LibFiles, NEW th \in Threads, Others(th), role'[th] = "none", pc'[th] = "idle"
      PROVE  Hands'
  <2>1. ScanTrue(th)'
    BY <1>c DEF ScanTrue, Walkers
  <2> QED
    BY <1>b, <1>c, <2>1
\* A step that keeps what was scanned, on the way from one file to the next.
<1>d. ASSUME UNCHANGED LibFiles, NEW th \in Threads, role'[th] = role[th], SameTimes(th),
             my'[th].dirs = my[th].dirs, my'[th].left = my[th].left, my'[th].disk = my[th].disk,
             pc[th] \in {"walk", "select", "upsert", "read", "commit", "prune"},
             pc'[th] \in {"walk", "select", "upsert", "read", "commit"}
      PROVE  ScanTrue(th)'
  <2>1. ScanTrue(th) /\ UNCHANGED <<file, changed>>
    BY <1>0, <1>d DEF LibFiles
  <2>2. \A p : Moved(th, p)' <=> Moved(th, p)
    BY <1>d, <2>1 DEF Moved, SameTimes
  <2>3. pc'[th] # "prune" /\ pc'[th] \notin {"stat", "gate"}
    BY <1>d
  <2> QED
    BY <1>d, <2>1, <2>2, <2>3 DEF ScanTrue
<1>1. ASSUME NEW th \in Threads, List(th) PROVE Hands'
  <2>1. /\ UNCHANGED LibFiles /\ Others(th) /\ role'[th] = "list" /\ pc'[th] = "stat"
        /\ my'[th] = [Blank EXCEPT !.start = clock, !.left = Dirs]
    BY <1>1, ListFacts DEF Starts
  <2>2. my'[th].disk = {}
    BY <2>1 DEF Blank
  <2>3. ScanTrue(th)'
    BY <2>1, <2>2 DEF ScanTrue
  <2> QED
    BY <1>b, <2>1, <2>3
<1>2. ASSUME NEW th \in Threads, NEW ds, Scan(th, ds) PROVE Hands'
  <2>1. /\ UNCHANGED LibFiles /\ Others(th) /\ role'[th] = "scan" /\ pc'[th] = "walk"
        /\ my'[th] = [Blank EXCEPT !.dirs = ds, !.left = ds]
    BY <1>2, ScanFacts DEF Starts
  <2>2. my'[th].dirs = my'[th].left
    BY <2>1 DEF Blank
  <2>3. ScanTrue(th)'
    BY <2>1, <2>2 DEF ScanTrue
  <2> QED
    BY <1>b, <2>1, <2>3
<1>3. ASSUME NEW th \in Threads, NEW p \in Paths, Change(th, p) PROVE Hands'
  <2>1. PICK m, r : Changes(th, p, m, r)
    BY <1>3, <1>l, ChangeFacts
  <2>2. /\ file' = [file EXCEPT ![p] = m] /\ changed' = [changed EXCEPT ![p] = clock + 1]
    BY <2>1 DEF Changes
  <2>3. /\ file'[p] = m /\ changed'[p] = clock + 1
        /\ \A q \in Paths : q # p => file'[q] = file[q] /\ changed'[q] = changed[q]
    BY <1>l, <2>2
  <2>4. ASSUME NEW u \in Threads, u # th PROVE HandTrue(u)' /\ ScanTrue(u)'
    <3>1. /\ role'[u] = role[u] /\ pc'[u] = pc[u] /\ my'[u] = my[u]
          /\ \/ role[u] = "none" /\ pc[u] = "idle"
             \/ role[u] = "list"
             \/ /\ role[u] \in {"relabel", "import", "delete"} /\ StemOf[my[u].path] # StemOf[p]
                /\ r \notin Loose
      BY <2>1, <2>4, ChangeAlone
    <3>2. HandTrue(u) /\ ScanTrue(u) /\ Consistent(role[u], pc[u])
      BY <1>0, <1>r
    <3>3. pc[u] \in {"select", "upsert", "read", "commit", "drop"} => my[u].path \in Paths
      BY DEF PathKnown
    <3>4. CASE role[u] = "none" /\ pc[u] = "idle"
      BY <3>1, <3>4 DEF HandTrue, ScanTrue, Walkers
    <3>5. CASE role[u] = "list"
      <4>1. \A q \in Paths : my[u].snap[DirOf[q]] <= clock /\ my[u].snap[DirOf[q]] \in Nat
        <5>1. \A d \in Dirs : my[u].snap[d] <= dirTime[d] /\ dirTime[d] <= clock /\ dirTime[d] \in Nat
          BY <3>5 DEF Times, FileTimes, ListTimes, IndexTypeOK
        <5>2. \A d \in Dirs : my[u].snap[d] \in Nat
          BY <1>m
        <5>3. \A d \in Dirs : my[u].snap[d] <= clock
          BY <1>l, <5>1, <5>2
        <5> QED
          BY <1>l, <5>2, <5>3
      <4>2. Moved(u, p)'
        BY <1>l, <2>3, <3>1, <3>5, <4>1 DEF Moved
      <4>3. \A q \in Paths : q # p => (Moved(u, q)' <=> Moved(u, q))
        BY <2>3, <3>1 DEF Moved
      <4>4. pc[u] # "drop" /\ role[u] \notin Writers
        BY <3>2, <3>5 DEF Consistent, Writers
      <4>5. HandTrue(u)'
        <5>1. CASE pc[u] \in {"select", "read", "commit"} /\ my[u].path = p
          <6>1. pc[u] = "commit" => my[u].stat \in 1..clock
            BY DEF TextsTrue, TextOf
          <6>2. m = clock + 1 \/ m = 0
            <7>1. r \in Loose => role[u] = "none"
              <8>1. PICK where : Starts(th, r, where)
                BY <2>1, ChangeBegun
              <8> QED
                BY <2>4, <3>2, <8>1 DEF Starts, Consistent
            <7> QED
              BY <1>l, <2>1, <3>5, <7>1 DEF Changes, Loose
          <6>3. pc[u] = "commit" => file'[p] # my[u].stat
            BY <1>l, <2>3, <6>1, <6>2
          <6> QED
            BY <3>1, <4>2, <4>4, <5>1, <6>3 DEF HandTrue
        <5>2. CASE pc[u] \in {"select", "read", "commit"} /\ my[u].path # p
          BY <2>3, <3>1, <3>2, <3>3, <4>3, <4>4, <5>2 DEF HandTrue
        <5>3. CASE pc[u] \notin {"select", "read", "commit"}
          BY <3>1, <4>4, <5>3 DEF HandTrue
        <5> QED
          BY <5>1, <5>2, <5>3
      <4>6. ASSUME NEW q \in Paths PROVE /\ file[q] # 0 \/ Moved(u, q) => file'[q] # 0 \/ Moved(u, q)'
                                         /\ file[q] = 0 \/ Moved(u, q) => file'[q] = 0 \/ Moved(u, q)'
        BY <2>3, <4>2, <4>3
      <4>7. my[u].disk \subseteq Paths /\ my[u].gone \subseteq Paths
        BY <1>m
      <4>8. ScanTrue(u)'
        BY <3>1, <3>2, <4>6, <4>7 DEF ScanTrue
      <4> QED
        BY <4>5, <4>8
    <3>6. CASE role[u] \in {"relabel", "import", "delete"} /\ StemOf[my[u].path] # StemOf[p]
      <4>1. my[u].path # p /\ pc[u] \notin {"walk", "select", "prune", "stat", "gate"} /\ role[u] \notin Walkers
        BY <3>2, <3>6 DEF Consistent, Walkers
      <4>2. pc[u] \in {"select", "upsert", "read", "commit", "drop"} => file'[my[u].path] = file[my[u].path]
        BY <2>3, <3>3, <4>1
      <4>3. \A q : ~Moved(u, q) /\ ~Moved(u, q)'
        BY <3>1, <3>6 DEF Moved
      <4>4. HandTrue(u)'
        BY <3>1, <3>2, <4>2, <4>3 DEF HandTrue
      <4>5. ScanTrue(u)'
        BY <3>1, <3>6, <4>1 DEF ScanTrue
      <4> QED
        BY <4>4, <4>5
    <3> QED
      BY <3>1, <3>4, <3>5, <3>6
  <2>5. HandTrue(th)' /\ ScanTrue(th)'
    <3>1. CASE r = "transcribe"
      <4>0. Starts(th, r, "walk") /\ my'[th].dirs = {DirOf[p]} /\ my'[th].left = {DirOf[p]}
        BY <2>1, <3>1, ChangeBegun
      <4>1. role'[th] = r /\ pc'[th] = "walk"
        BY <4>0 DEF Starts
      <4>2. my'[th].dirs = my'[th].left
        BY <4>0
      <4> QED
        BY <3>1, <4>1, <4>2 DEF HandTrue, ScanTrue
    <3>2. CASE r \in {"relabel", "patch", "import", "restore"}
      <4>1. role'[th] = r /\ pc'[th] = "upsert" /\ my'[th].path = p
        BY <2>1, <3>2, ChangeBegun DEF Starts
      <4>2. m # 0
        BY <1>l, <2>1, <3>2 DEF Changes
      <4> QED
        BY <2>3, <3>2, <4>1, <4>2 DEF HandTrue, ScanTrue, Walkers
    <3>3. CASE r = "delete"
      <4>1. role'[th] = r /\ pc'[th] = "drop" /\ my'[th].path = p
        BY <2>1, <3>3, ChangeBegun DEF Starts
      <4>2. m = 0
        BY <1>l, <2>1, <3>3 DEF Changes
      <4> QED
        BY <2>3, <3>3, <4>1, <4>2 DEF HandTrue, ScanTrue, Walkers
    <3> QED
      BY <2>1, <3>1, <3>2, <3>3, ChangeBegun
  <2> QED
    BY <2>4, <2>5 DEF Hands
<1>4. ASSUME NEW th \in Threads, NEW d \in Dirs, StatDir(th, d) PROVE Hands'
  <2>1. /\ UNCHANGED LibFiles /\ Others(th) /\ role'[th] = role[th] /\ pc[th] = "stat"
        /\ pc'[th] \in {"stat", "gate"}
    BY <1>4, StatDirFacts DEF Shared
  <2>2. role[th] = "list" /\ my[th].disk = {}
    BY <1>0, <1>r, <2>1 DEF Consistent, ScanTrue
  <2>3. my'[th].disk = {}
    BY <1>4, <2>2, StatDirFields
  <2>4. ScanTrue(th)'
    BY <2>1, <2>2, <2>3 DEF ScanTrue
  <2> QED
    BY <1>b, <2>1, <2>4
<1>5. ASSUME NEW th \in Threads, Gate(th) PROVE Hands'
  <2>1. UNCHANGED LibFiles /\ Others(th) /\ role'[th] = role[th] /\ pc[th] = "gate" /\ pc'[th] \in {"served", "walk"}
    BY <1>5, GateFacts
  <2>2. role[th] = "list" /\ my[th].disk = {}
    BY <1>0, <1>r, <2>1 DEF Consistent, ScanTrue
  <2>3. my'[th].disk = {} /\ (pc'[th] = "walk" => my'[th].dirs = Dirs /\ my'[th].left = Dirs)
    BY <1>5, <2>2, GateFields
  <2>4. ScanTrue(th)'
    BY <2>1, <2>2, <2>3 DEF ScanTrue
  <2> QED
    BY <1>b, <2>1, <2>4
<1>6. ASSUME NEW th \in Threads, NEW d \in Dirs, Glob(th, d) PROVE Hands'
  <2>1. UNCHANGED LibFiles /\ Others(th) /\ role'[th] = role[th] /\ pc[th] = "walk" /\ pc'[th] = "walk"
    BY <1>6, GlobFacts DEF Shared
  <2>2. /\ SameTimes(th) /\ my'[th].left = my[th].left \ {d} /\ my'[th].disk = my[th].disk \cup Found(d)
        /\ my'[th].dirs = my[th].dirs
    BY <1>6, GlobFields
  <2>3. \A p \in Paths : DirOf[p] = d => (p \in Found(d) <=> file[p] # 0)
    BY <1>l DEF Found
  <2>4. UNCHANGED <<file, changed>>
    BY <2>1 DEF LibFiles
  <2>5. \A p : Moved(th, p)' <=> Moved(th, p)
    BY <2>1, <2>2, <2>4 DEF Moved, SameTimes
  <2>6. ScanTrue(th) /\ Found(d) \subseteq Paths /\ \A p \in Found(d) : file[p] # 0
    BY <1>0, <1>l DEF Found
  <2>7. role[th] = "list" => /\ my'[th].dirs = Dirs
                             /\ \A p \in my'[th].disk : file[p] # 0 \/ Moved(th, p)
    BY <2>1, <2>2, <2>6 DEF ScanTrue
  <2>8. role[th] \in Walkers => \A p \in Paths \ my'[th].disk :
          DirOf[p] \in my'[th].dirs \ my'[th].left => file[p] = 0 \/ Moved(th, p)
    BY <2>1, <2>2, <2>3, <2>6 DEF ScanTrue
  <2>9. ScanTrue(th)'
    BY <2>1, <2>4, <2>5, <2>7, <2>8 DEF ScanTrue
  <2> QED
    BY <1>b, <2>1, <2>9
<1>7. ASSUME NEW th \in Threads, NEW p \in Paths, StatFile(th, p) PROVE Hands'
  <2>1. /\ UNCHANGED LibFiles /\ Others(th) /\ role'[th] = role[th] /\ pc[th] = "walk"
        /\ pc'[th] = IF file[p] = 0 THEN "walk" ELSE "select"
    BY <1>7, <1>l, StatFileFacts DEF Shared
  <2>2. /\ SameTimes(th) /\ my'[th].dirs = my[th].dirs /\ my'[th].left = my[th].left
        /\ my'[th].disk = my[th].disk /\ my'[th].path = p /\ my'[th].stat = file[p]
    BY <1>7, StatFileFields
  <2>3. ScanTrue(th)'
    BY <1>d, <2>1, <2>2
  <2>4. HandTrue(th)'
    <3>1. file'[p] = file[p]
      BY <2>1 DEF LibFiles
    <3> QED
      BY <2>1, <2>2, <3>1 DEF HandTrue
  <2> QED
    BY <1>a, <2>1, <2>3, <2>4
<1>8. ASSUME NEW th \in Threads, Select(th) PROVE Hands'
  <2>1. /\ UNCHANGED LibFiles /\ Others(th) /\ role'[th] = role[th] /\ pc[th] = "select"
        /\ pc'[th] \in {"walk", "upsert"} /\ role[th] \in Walkers
    BY <1>8, <1>r, SelectFacts DEF Shared, Consistent
  <2>2. SameTimes(th) /\ SameScan(th)
    BY <1>8, SelectFields
  <2>3. ScanTrue(th)'
    BY <1>d, <2>1, <2>2 DEF SameScan
  <2>4. HandTrue(th)'
    BY <2>1 DEF HandTrue, Walkers, Writers
  <2> QED
    BY <1>a, <2>1, <2>3, <2>4
<1>9. ASSUME NEW th \in Threads, PruneQuery(th) PROVE Hands'
  <2>1. /\ UNCHANGED LibFiles /\ Others(th) /\ role'[th] = role[th] /\ pc[th] = "walk" /\ pc'[th] = "prune"
        /\ my[th].todo = {} /\ my[th].left = {} /\ role[th] \in Walkers
    BY <1>9, <1>r, PruneQueryFacts DEF Shared, Consistent
  <2>2. /\ SameTimes(th) /\ my'[th].gone = Vanished(th) /\ my'[th].dirs = my[th].dirs
        /\ my'[th].left = my[th].left /\ my'[th].disk = my[th].disk /\ my'[th].todo = my[th].todo
    BY <1>9, PruneQueryFields
  <2>3. ScanTrue(th)
    BY <1>0
  <2>4. UNCHANGED <<file, changed>> /\ \A p : Moved(th, p)' <=> Moved(th, p)
    BY <2>1, <2>2 DEF Moved, SameTimes, LibFiles
  <2>5. \A p \in Vanished(th) : DirOf[p] \in my[th].dirs => file[p] = 0 \/ Moved(th, p)
    BY <2>1, <2>3 DEF Vanished, ScanTrue
  <2>6. ScanTrue(th)'
    BY <2>1, <2>2, <2>3, <2>4, <2>5 DEF ScanTrue
  <2>7. HandTrue(th)'
    BY <2>1 DEF HandTrue
  <2> QED
    BY <1>a, <2>1, <2>6, <2>7
<1>10. ASSUME NEW th \in Threads, NEW p \in Paths, PruneRow(th, p) PROVE Hands'
  <2>1. /\ UNCHANGED LibFiles /\ Others(th) /\ role'[th] = role[th] /\ pc[th] = "prune" /\ pc'[th] = "prune"
    BY <1>10, PruneRowFacts
  <2>2. /\ SameTimes(th) /\ my'[th].gone = my[th].gone \ {p} /\ my'[th].dirs = my[th].dirs
        /\ my'[th].left = my[th].left /\ my'[th].disk = my[th].disk /\ my'[th].todo = my[th].todo
    BY <1>10, PruneRowFields
  <2>3. ScanTrue(th)
    BY <1>0
  <2>4. UNCHANGED <<file, changed>> /\ \A q : Moved(th, q)' <=> Moved(th, q)
    BY <2>1, <2>2 DEF Moved, SameTimes, LibFiles
  <2>5. ScanTrue(th)'
    BY <2>1, <2>2, <2>3, <2>4 DEF ScanTrue
  <2>6. HandTrue(th)'
    BY <2>1 DEF HandTrue
  <2> QED
    BY <1>a, <2>1, <2>5, <2>6
<1>11. ASSUME NEW th \in Threads, EndWalk(th) PROVE Hands'
  <2>1. UNCHANGED LibFiles /\ Others(th) /\ pc[th] = "prune"
    BY <1>11, EndWalkFacts
  <2>2. CASE role[th] # "list"
    BY <1>11, <1>c, <2>1, <2>2, EndWalkFacts, StopFacts
  <2>3. CASE role[th] = "list"
    <3>1. role'[th] = "list" /\ pc'[th] = "served" /\ my'[th] = my[th]
      BY <1>11, <2>3, EndWalkFacts
    <3>2. ScanTrue(th) /\ UNCHANGED <<file, changed>> /\ \A q : Moved(th, q)' <=> Moved(th, q)
      BY <1>0, <2>1, <2>3, <3>1 DEF LibFiles, Moved
    <3>3. ScanTrue(th)'
      BY <2>3, <3>1, <3>2 DEF ScanTrue
    <3> QED
      BY <1>b, <2>1, <3>1, <3>3
  <2> QED
    BY <2>2, <2>3
<1>12. ASSUME NEW th \in Threads, AfterUpsert(th), UNCHANGED LibFiles, pc[th] \in {"upsert", "commit"}
       PROVE  Hands'
  <2>1. CASE WalkOn(th)
    <3>1. Others(th) /\ role'[th] = role[th] /\ my'[th] = my[th] /\ pc'[th] = "walk"
      BY <1>12, <2>1, AfterUpsertFacts DEF WalkOn
    <3>2. ScanTrue(th)'
      BY <1>12, <1>d, <3>1 DEF SameTimes
    <3> QED
      BY <1>12, <1>b, <3>1, <3>2
  <2>2. CASE Ended(th)
    BY <1>12, <1>c, <2>2, AfterUpsertFacts DEF Ended
  <2> QED
    BY <1>12, <2>1, <2>2, AfterUpsertFacts
<1>13. ASSUME NEW th \in Threads, UpsertStat(th) PROVE Hands'
  <2>1. CASE AfterUpsert(th)
    BY <1>12, <1>13, <2>1, UpsertStatFacts
  <2>2. CASE ~AfterUpsert(th)
    <3>1. /\ UNCHANGED LibFiles /\ Others(th) /\ role'[th] = role[th] /\ pc[th] = "upsert" /\ pc'[th] = "read"
          /\ file[my[th].path] # 0
      BY <1>13, <1>l, <2>2, UpsertStatFacts
    <3>2. SameTimes(th) /\ SameScan(th) /\ my'[th].stat = file[my[th].path] /\ my'[th].path = my[th].path
      BY <1>13, <2>2, UpsertStatFields
    <3>3. ScanTrue(th)'
      BY <1>d, <3>1, <3>2 DEF SameScan
    <3>4. HandTrue(th)'
      BY <3>1, <3>2 DEF HandTrue, LibFiles
    <3> QED
      BY <1>a, <3>1, <3>3, <3>4
  <2> QED
    BY <2>1, <2>2
<1>14. ASSUME NEW th \in Threads, UpsertRead(th) PROVE Hands'
  <2>1. /\ UNCHANGED LibFiles /\ Others(th) /\ role'[th] = role[th] /\ pc[th] = "read" /\ pc'[th] = "commit"
    BY <1>14, UpsertReadFacts DEF Shared
  <2>2. /\ SameTimes(th) /\ SameScan(th) /\ my'[th].stat = my[th].stat /\ my'[th].path = my[th].path
        /\ my'[th].text = file[my[th].path]
    BY <1>14, UpsertReadFields
  <2>3. ScanTrue(th)'
    BY <1>d, <2>1, <2>2 DEF SameScan
  <2>4. HandTrue(th) /\ UNCHANGED <<file, changed>> /\ (Moved(th, my[th].path)' <=> Moved(th, my[th].path))
    BY <1>0, <2>1, <2>2 DEF LibFiles, Moved, SameTimes
  <2>5. HandTrue(th)'
    BY <2>1, <2>2, <2>4 DEF HandTrue, Moved, SameTimes
  <2> QED
    BY <1>a, <2>1, <2>3, <2>5
<1>15. ASSUME NEW th \in Threads, UpsertCommit(th) PROVE Hands'
  BY <1>12, <1>15, UpsertCommitFacts
<1>16. ASSUME NEW th \in Threads, DropRow(th) PROVE Hands'
  BY <1>16, <1>c, DropRowFacts DEF Ended
<1>17. ASSUME NEW th \in Threads, AnswerList(th) PROVE Hands'
  BY <1>17, <1>c, AnswerFacts, StopFacts DEF Shared
<1>18. CASE Restart
  <2>1. \A th \in Threads : role'[th] = "none" /\ pc'[th] = "idle"
    BY <1>18 DEF Restart
  <2> QED
    BY <2>1 DEF Hands, HandTrue, ScanTrue, Walkers
<1>19. CASE UNCHANGED indexVars
  <2>1. UNCHANGED <<file, changed, role, pc, my>>
    BY <1>19 DEF indexVars, files
  <2>2. ASSUME NEW u \in Threads PROVE HandTrue(u)' /\ ScanTrue(u)'
    <3>1. HandTrue(u)'
      BY <1>0, <2>1 DEF HandTrue, Moved
    <3>2. ScanTrue(u)'
      BY <1>0, <2>1 DEF ScanTrue, Moved
    <3> QED
      BY <3>1, <3>2
  <2> QED
    BY <2>2 DEF Hands
<1> QED
  BY <1>1, <1>2, <1>3, <1>4, <1>5, <1>6, <1>7, <1>8, <1>9, <1>10, <1>11, <1>13, <1>14, <1>15, <1>16,
     <1>17, <1>18, <1>19 DEF IndexNext, Walk, Upsert

-----------------------------------------------------------------------------
\* The rows, while no operation of Loose has overlapped another.

\* A row that has its file's mtime and not its text is of a file that is being
\* restored.
Stubs ==
  \A s \in Stems :
    row[s] # NoRow /\ row[s].mtime = file[row[s].path] /\ row[s].text # row[s].mtime =>
      \E th \in Threads : role[th] = "restore" /\ my[th].path = row[s].path

\* With respect to the mtimes b of directories: p has not changed since; p is
\* the only file of its transcript, neither it nor another has, and no scan of a
\* directory above has dropped its row; and a row of a file that is gone, and has
\* not changed since.
Settled(p, b) == changed[p] <= b[DirOf[p]]

Sole(p, b) ==
  /\ file[p] # 0 /\ Settled(p, b) /\ p \notin hidden
  /\ \A q \in Paths \ {p} : StemOf[q] = StemOf[p] => file[q] = 0 /\ Settled(q, b)

Ghost(s, b) == row[s] # NoRow /\ file[row[s].path] = 0 /\ Settled(row[s].path, b)

\* What the reconciler has seen is in the index.
Reflected ==
  /\ \A p \in Paths : Sole(p, seen) => Current(p)
  /\ \A s \in Stems : ~Ghost(s, seen)

\* The file a walk is at.
AtFile(th) == IF pc[th] \in {"select", "upsert", "read", "commit"} THEN {my[th].path} ELSE {}

\* What a listing has walked is in the index, and before the walk ends the rows
\* of files that are gone are those it still has to delete.
Progress(th) ==
  role[th] = "list" /\ pc[th] \in {"walk", "select", "upsert", "read", "commit", "prune"} =>
    /\ \A p \in Paths \ (my[th].todo \cup AtFile(th)) :
         DirOf[p] \notin my[th].left /\ Sole(p, my[th].snap) => Current(p)
    /\ pc[th] = "prune" => \A s \in Stems : Ghost(s, my[th].snap) => row[s].path \in my[th].gone

Advancing == \A th \in Threads : Progress(th)

Orderly == ~loose => Apart /\ Hands /\ Stubs /\ Reflected /\ Advancing

LibInv == /\ IndexTypeOK /\ PathKnown /\ RolePc /\ LocksHeld /\ TextsTrue /\ Times
          /\ Orderly

\* Three steps that disturb rows or files, with respect to the mtimes b.
LEMMA ChangeKeeps ==
  ASSUME LibraryAssumption, IndexTypeOK, NEW th \in Threads, NEW p \in Paths, NEW m, NEW r, Changes(th, p, m, r),
         NEW b \in [Dirs -> Nat], \A d \in Dirs : b[d] <= clock
  PROVE  /\ \A q \in Paths : Sole(q, b)' => Sole(q, b) /\ (Current(q) => Current(q)')
         /\ \A s \in Stems : Ghost(s, b)' => Ghost(s, b)
<1>0. /\ clock \in Nat /\ file \in [Paths -> Nat] /\ changed \in [Paths -> Nat]
      /\ StemOf \in [Paths -> Stems] /\ DirOf \in [Paths -> Dirs]
      /\ \A s \in Stems : row[s] # NoRow => row[s].path \in Paths
  BY DEF IndexTypeOK, LibraryAssumption, Row
<1>1. /\ file' = [file EXCEPT ![p] = m] /\ changed' = [changed EXCEPT ![p] = clock + 1]
      /\ UNCHANGED <<row, hidden>>
  BY DEF Changes
<1>2. \A q \in Paths : q # p => file'[q] = file[q] /\ changed'[q] = changed[q]
  BY <1>0, <1>1
<1>3. ~Settled(p, b)'
  BY <1>0, <1>1 DEF Settled
<1>4. \A q \in Paths : q # p => (Settled(q, b)' <=> Settled(q, b))
  BY <1>2 DEF Settled
<1>5. ASSUME NEW q \in Paths, Sole(q, b)' PROVE Sole(q, b) /\ (Current(q) => Current(q)')
  <2>1. q # p /\ StemOf[q] # StemOf[p]
    BY <1>3, <1>5 DEF Sole
  <2>2. Sole(q, b)
    BY <1>1, <1>2, <1>4, <1>5, <2>1 DEF Sole
  <2>3. Current(q) => Current(q)'
    BY <1>1, <1>2, <2>1 DEF Current
  <2> QED
    BY <2>2, <2>3
<1>6. ASSUME NEW s \in Stems, Ghost(s, b)' PROVE Ghost(s, b)
  <2>1. row[s] # NoRow /\ row'[s] = row[s] /\ row[s].path \in Paths
    BY <1>0, <1>1, <1>6 DEF Ghost
  <2>2. PICK q \in Paths : q = row[s].path
    BY <2>1
  <2>3. file'[q] = 0 /\ Settled(q, b)'
    BY <1>6, <2>1, <2>2 DEF Ghost, Settled
  <2>4. q # p
    BY <1>3, <2>3
  <2> QED
    BY <1>2, <1>4, <2>1, <2>2, <2>3, <2>4 DEF Ghost
<1> QED
  BY <1>5, <1>6

LEMMA DropKeeps ==
  ASSUME LibraryAssumption, IndexTypeOK, NEW p \in Paths, DeleteRow(p), UNCHANGED LibFiles,
         NEW b, hidden \subseteq hidden', file[p] = 0 \/ ~Settled(p, b) \/ p \in hidden'
  PROVE  /\ \A q \in Paths : Sole(q, b)' => Sole(q, b) /\ (Current(q) => Current(q)')
         /\ \A s \in Stems : Ghost(s, b)' => Ghost(s, b) /\ row'[s] = row[s] /\ row[s].path # p
<1>0. StemOf \in [Paths -> Stems]
  BY DEF LibraryAssumption
<1>1. UNCHANGED <<file, changed>>
  BY DEF LibFiles
<1>2. ASSUME NEW q \in Paths, Sole(q, b)' PROVE Sole(q, b) /\ (Current(q) => Current(q)')
  <2>1. Sole(q, b) /\ q # p
    BY <1>1, <1>2 DEF Sole, Settled
  <2>2. ASSUME Current(q) PROVE Current(q)'
    <3>1. row[StemOf[q]] = [path |-> q, mtime |-> file[q], text |-> file[q]] /\ StemOf[q] \in Stems
      BY <1>0, <2>2 DEF Current
    <3>2. row[StemOf[q]].path # p
      BY <2>1, <3>1
    <3>3. row'[StemOf[q]] = row[StemOf[q]]
      BY <3>1, <3>2 DEF DeleteRow
    <3> QED
      BY <1>1, <3>1, <3>3 DEF Current
  <2> QED
    BY <2>1, <2>2
<1>3. ASSUME NEW s \in Stems, Ghost(s, b)'
      PROVE  Ghost(s, b) /\ row'[s] = row[s] /\ row[s].path # p
  <2>1. row'[s] = row[s] /\ row[s].path # p
    BY <1>3, DeleteRowFacts DEF Ghost
  <2> QED
    BY <1>1, <1>3, <2>1 DEF Ghost, Settled
<1> QED
  BY <1>2, <1>3

\* The row committed is of a file that has changed since b, or true.
LEMMA CommitKeeps ==
  ASSUME LibraryAssumption, IndexTypeOK, PathKnown, NEW th \in Threads, UpsertCommit(th),
         NEW b, \/ ~Settled(my[th].path, b)
                \/ my[th].stat = file[my[th].path] /\ my[th].stat # 0 /\ my[th].text = my[th].stat
  PROVE  /\ \A q \in Paths : Sole(q, b)' =>
              (q = my[th].path \/ Sole(q, b)) /\ (q = my[th].path \/ Current(q) => Current(q)')
         /\ \A s \in Stems : Ghost(s, b)' => Ghost(s, b) /\ row'[s] = row[s]
<1>0. PICK p, n, t : p = my[th].path /\ n = my[th].stat /\ t = my[th].text
  OBVIOUS
<1>1. /\ p \in Paths /\ StemOf[p] \in Stems /\ row'[StemOf[p]] = [path |-> p, mtime |-> n, text |-> t]
      /\ \A s \in Stems : s # StemOf[p] => row'[s] = row[s]
  BY <1>0, CommitFacts
<1>2. UNCHANGED <<file, changed>> /\ hidden' = hidden \ {p} /\ StemOf \in [Paths -> Stems]
  BY <1>0, UpsertCommitFacts DEF LibFiles, LibraryAssumption
<1>3. ~Settled(p, b) \/ (n = file[p] /\ n # 0 /\ t = n)
  BY <1>0
<1>4. ASSUME NEW q \in Paths, Sole(q, b)'
      PROVE  (q = p \/ Sole(q, b)) /\ (q = p \/ Current(q) => Current(q)')
  <2>1. file[q] # 0 /\ Settled(q, b) /\ (q = p \/ Sole(q, b))
    BY <1>2, <1>4 DEF Sole, Settled
  <2>2. CASE StemOf[q] # StemOf[p]
    <3>1. row'[StemOf[q]] = row[StemOf[q]]
      BY <1>1, <1>2, <2>2
    <3> QED
      BY <1>2, <2>1, <2>2, <3>1 DEF Current
  <2>3. CASE StemOf[q] = StemOf[p] /\ q # p
    <3>1. file[p] = 0 /\ Settled(p, b)
      BY <1>1, <2>1, <2>3 DEF Sole
    <3> QED
      BY <1>3, <3>1
  <2>4. CASE q = p
    <3>1. n = file'[p] /\ t = file'[p]
      BY <1>2, <1>3, <2>1, <2>4
    <3> QED
      BY <1>1, <2>1, <2>4, <3>1 DEF Current
  <2> QED
    BY <2>2, <2>3, <2>4
<1>5. ASSUME NEW s \in Stems, Ghost(s, b)' PROVE Ghost(s, b) /\ row'[s] = row[s]
  <2>1. CASE s # StemOf[p]
    BY <1>1, <1>2, <1>5, <2>1 DEF Ghost, Settled
  <2>2. CASE s = StemOf[p]
    <3>1. row'[s].path = p
      BY <1>1, <2>2
    <3>2. file[p] = 0 /\ Settled(p, b)
      BY <1>2, <1>5, <3>1 DEF Ghost, Settled
    <3> QED
      BY <1>3, <3>2
  <2> QED
    BY <2>1, <2>2
<1> QED
  BY <1>0, <1>4, <1>5

LEMMA StubStep ==
  ASSUME LibraryAssumption, LibInv, [IndexNext]_indexVars, ~loose'
  PROVE  Stubs'
<1>0. /\ IndexTypeOK /\ PathKnown /\ RolePc /\ LocksHeld /\ TextsTrue /\ Times
      /\ ~loose /\ Hands /\ Stubs
  BY StaysOrderly DEF LibInv, Orderly
<1>l. /\ clock \in Nat /\ file \in [Paths -> Nat] /\ StemOf \in [Paths -> Stems] /\ Absent = 0
      /\ \A s \in Stems : row[s] # NoRow =>
           /\ row[s].path \in Paths /\ StemOf[row[s].path] = s /\ row[s].mtime \in 1..clock
  BY <1>0 DEF IndexTypeOK, LibraryAssumption, Row, Absent, TextsTrue, TextOf
<1>r. ASSUME NEW th \in Threads PROVE Consistent(role[th], pc[th])
  BY <1>0 DEF RolePc
<1>a. ASSUME UNCHANGED LibFiles, \A s \in Stems : row'[s] \in {row[s], NoRow},
             \A u \in Threads : role[u] = "restore" => role'[u] = "restore" /\ my'[u].path = my[u].path
      PROVE  Stubs'
  <2>1. UNCHANGED file
    BY <1>a DEF LibFiles
  <2>2. ASSUME NEW s \in Stems, row'[s] # NoRow, row'[s].mtime = file'[row'[s].path],
               row'[s].text # row'[s].mtime
        PROVE  \E th \in Threads : role'[th] = "restore" /\ my'[th].path = row'[s].path
    <3>1. row'[s] = row[s]
      BY <1>a, <2>2
    <3>2. PICK th \in Threads : role[th] = "restore" /\ my[th].path = row[s].path
      BY <1>0, <2>1, <2>2, <3>1 DEF Stubs
    <3> QED
      BY <1>a, <3>1, <3>2
  <2> QED
    BY <2>2 DEF Stubs
<1>b. ASSUME UNCHANGED <<LibFiles, row>>, NEW th \in Threads, Others(th),
             role[th] # "restore" \/ (role'[th] = role[th] /\ my'[th].path = my[th].path)
      PROVE  Stubs'
  BY <1>a, <1>b DEF Others
<1>c. ASSUME NEW th \in Threads, NEW p, UNCHANGED LibFiles, DeleteRow(p), Others(th), role[th] # "restore"
      PROVE  Stubs'
  <2>1. \A s \in Stems : row'[s] \in {row[s], NoRow}
    BY <1>0, <1>c, DeleteRowFacts
  <2> QED
    BY <1>a, <1>c, <2>1 DEF Others
<1>1. ASSUME NEW th \in Threads, NEW r, NEW where, Starts(th, r, where), UNCHANGED <<LibFiles, row>> PROVE Stubs'
  BY <1>1, <1>b, <1>r DEF Starts, Consistent
<1>2. ASSUME NEW th \in Threads, Walk(th), UNCHANGED <<LibFiles, row>> PROVE Stubs'
  <2>1. Others(th)
    BY <1>0, <1>2, StatDirFacts, GlobFacts, StatFileFacts, PruneRowFacts, GateFacts, SelectFacts, PruneQueryFacts,
       EndWalkFacts DEF Walk
  <2>2. pc[th] \in {"stat", "gate", "walk", "select", "prune"}
    BY <1>0, <1>2, StatDirFacts, GlobFacts, StatFileFacts, PruneRowFacts, GateFacts, SelectFacts, PruneQueryFacts,
       EndWalkFacts DEF Walk
  <2>3. role[th] # "restore"
    BY <1>r, <2>2 DEF Consistent, Walkers
  <2> QED
    BY <1>2, <1>b, <2>1, <2>3
<1>3. ASSUME NEW th \in Threads, NEW p \in Paths, PruneRow(th, p) PROVE Stubs'
  <2>1. UNCHANGED LibFiles /\ Others(th) /\ DeleteRow(p) /\ pc[th] = "prune"
    BY <1>0, <1>3, PruneRowFacts
  <2>2. role[th] # "restore"
    BY <1>r, <2>1 DEF Consistent, Walkers
  <2> QED
    BY <1>c, <2>1, <2>2
<1>4. ASSUME NEW th \in Threads, DropRow(th) PROVE Stubs'
  <2>1. UNCHANGED LibFiles /\ Others(th) /\ DeleteRow(my[th].path) /\ pc[th] = "drop"
    BY <1>0, <1>4, DropRowFacts
  <2>2. role[th] # "restore"
    BY <1>r, <2>1 DEF Consistent
  <2> QED
    BY <1>c, <2>1, <2>2
<1>5. ASSUME NEW th \in Threads, UpsertStat(th) PROVE Stubs'
  <2>0. Others(th) /\ UNCHANGED <<LibFiles, row>> /\ pc[th] = "upsert"
    BY <1>0, <1>5, UpsertStatFacts
  <2>1. CASE AfterUpsert(th) /\ file[my[th].path] = 0
    <3>1. role[th] \notin Writers
      BY <1>0, <2>0, <2>1 DEF Hands, HandTrue
    <3> QED
      BY <1>b, <2>0, <3>1 DEF Writers
  <2>2. CASE ~AfterUpsert(th)
    BY <1>0, <1>5, <1>b, <2>0, <2>2, UpsertStatFacts, UpsertStatFields
  <2>3. CASE AfterUpsert(th) /\ file[my[th].path] # 0
    <3>1. /\ my'[th] = [my[th] EXCEPT !.stat = file[my[th].path]] /\ UNCHANGED role
      BY <1>0, <1>5, <1>l, <2>3, UpsertStatFacts
    <3>2. my'[th].path = my[th].path
      <4>1. my[th] \in Local
        BY <1>0, LocalFacts
      <4> QED
        BY <3>1, <4>1 DEF Local
    <3> QED
      BY <1>b, <2>0, <3>1, <3>2
  <2> QED
    BY <2>1, <2>2, <2>3
<1>6. ASSUME NEW th \in Threads, UpsertRead(th) PROVE Stubs'
  BY <1>0, <1>6, <1>b, UpsertReadFacts, UpsertReadFields DEF Shared
<1>7. ASSUME NEW th \in Threads, UpsertCommit(th) PROVE Stubs'
  <2>0. pc[th] = "commit" /\ UNCHANGED LibFiles /\ AfterUpsert(th)
    BY <1>0, <1>7, UpsertCommitFacts
  <2>1. Others(th) /\ UNCHANGED file
    BY <1>0, <2>0, AfterUpsertFacts DEF LibFiles
  <2>2. PICK p, n, t : p = my[th].path /\ n = my[th].stat /\ t = my[th].text
    OBVIOUS
  <2>3. /\ row'[StemOf[p]] = [path |-> p, mtime |-> n, text |-> t]
        /\ \A s \in Stems : s # StemOf[p] => row'[s] = row[s]
    BY <1>0, <1>7, <2>2, CommitFacts
  <2>4. file[p] = n => t = n
    BY <1>0, <2>0, <2>2 DEF Hands, HandTrue
  <2>5. ASSUME NEW s \in Stems, row'[s] # NoRow, row'[s].mtime = file'[row'[s].path],
               row'[s].text # row'[s].mtime
        PROVE  \E u \in Threads : role'[u] = "restore" /\ my'[u].path = row'[s].path
    <3>1. s # StemOf[p]
      BY <2>1, <2>3, <2>4, <2>5
    <3>2. row'[s] = row[s]
      BY <2>3, <3>1
    <3>3. PICK u \in Threads : role[u] = "restore" /\ my[u].path = row[s].path
      BY <1>0, <2>1, <2>5, <3>2 DEF Stubs
    <3>4. StemOf[row[s].path] = s
      BY <1>l, <2>5, <3>2
    <3>5. u # th
      BY <2>2, <3>1, <3>3, <3>4
    <3> QED
      BY <2>1, <3>2, <3>3, <3>5 DEF Others
  <2> QED
    BY <2>5 DEF Stubs
<1>8. ASSUME NEW th \in Threads, NEW p \in Paths, Change(th, p) PROVE Stubs'
  <2>1. PICK m, r : Changes(th, p, m, r)
    BY <1>8, <1>l, ChangeFacts
  <2>2. file' = [file EXCEPT ![p] = m] /\ UNCHANGED row
    BY <2>1 DEF Changes
  <2>3. PICK where : Starts(th, r, where)
    BY <1>0, <2>1, ChangeBegun
  <2>4. Others(th) /\ role[th] # "restore" /\ role'[th] = r
    BY <1>r, <2>3 DEF Starts, Consistent
  <2>5. r = "restore" => my'[th].path = p
    BY <1>0, <2>1, ChangeBegun
  <2>6. r # "restore" => m \in {clock + 1, 0}
    BY <1>l, <2>1 DEF Changes
  <2>7. ASSUME NEW s \in Stems, row'[s] # NoRow, row'[s].mtime = file'[row'[s].path],
               row'[s].text # row'[s].mtime
        PROVE  \E u \in Threads : role'[u] = "restore" /\ my'[u].path = row'[s].path
    <3>1. row'[s] = row[s] /\ row[s].path \in Paths /\ row[s].mtime \in 1..clock
      BY <1>l, <2>2, <2>7
    <3>2. CASE row[s].path = p
      <4>1. file'[p] = m
        BY <1>l, <2>2
      <4>2. r = "restore"
        BY <1>l, <2>6, <2>7, <3>1, <3>2, <4>1
      <4> QED
        BY <2>4, <2>5, <3>1, <3>2, <4>2
    <3>3. CASE row[s].path # p
      <4>1. file'[row[s].path] = file[row[s].path]
        BY <1>l, <2>2, <3>1, <3>3
      <4>2. PICK u \in Threads : role[u] = "restore" /\ my[u].path = row[s].path
        BY <1>0, <2>7, <3>1, <4>1 DEF Stubs
      <4> QED
        BY <2>4, <3>1, <4>2 DEF Others
    <3> QED
      BY <3>2, <3>3
  <2> QED
    BY <2>7 DEF Stubs
<1>9. ASSUME NEW th \in Threads, AnswerList(th) PROVE Stubs'
  <2>1. Others(th) /\ UNCHANGED <<LibFiles, row>> /\ pc[th] = "served"
    BY <1>0, <1>9, AnswerFacts, StopFacts DEF Shared
  <2>2. role[th] # "restore"
    BY <1>r, <2>1 DEF Consistent
  <2> QED
    BY <1>b, <2>1, <2>2
<1>10. CASE Restart
  <2>1. UNCHANGED <<LibFiles, row>> /\ \A th \in Threads : role[th] # "restore"
    BY <1>10 DEF Restart, files, LibFiles
  <2> QED
    BY <1>a, <2>1
<1>11. CASE UNCHANGED indexVars
  <2>1. UNCHANGED <<LibFiles, row, role, my>>
    BY <1>11 DEF indexVars, files, LibFiles
  <2> QED
    BY <1>a, <2>1
<1>12. ASSUME NEW th \in Threads, Walk(th) PROVE Stubs'
  <2>1. CASE \E p \in Paths : PruneRow(th, p)
    BY <1>3, <2>1
  <2>2. CASE ~\E p \in Paths : PruneRow(th, p)
    <3>1. UNCHANGED <<LibFiles, row>>
      BY <1>0, <1>12, <2>2, StatDirFacts, GlobFacts, StatFileFacts, GateFacts, SelectFacts, PruneQueryFacts,
         EndWalkFacts DEF Walk, Shared
    <3> QED
      BY <1>12, <1>2, <3>1
  <2> QED
    BY <2>1, <2>2
<1>13. ASSUME NEW th \in Threads, List(th) PROVE Stubs'
  BY <1>0, <1>1, <1>13, ListFacts
<1>14. ASSUME NEW th \in Threads, NEW ds, Scan(th, ds) PROVE Stubs'
  BY <1>0, <1>1, <1>14, ScanFacts
<1> QED
  BY <1>4, <1>5, <1>6, <1>7, <1>8, <1>9, <1>10, <1>11, <1>12, <1>13, <1>14 DEF IndexNext, Upsert

LEMMA RowStep ==
  ASSUME LibraryAssumption, LibInv, [IndexNext]_indexVars, ~loose'
  PROVE  Reflected' /\ Advancing'
<1>0. /\ IndexTypeOK /\ PathKnown /\ RolePc /\ LocksHeld /\ TextsTrue /\ Times
      /\ ~loose /\ Apart /\ Hands /\ Stubs /\ Reflected /\ Advancing
  BY StaysOrderly DEF LibInv, Orderly
<1>l. /\ clock \in Nat /\ file \in [Paths -> Nat] /\ changed \in [Paths -> Nat] /\ seen \in [Dirs -> Nat]
      /\ dirTime \in [Dirs -> Nat] /\ DirOf \in [Paths -> Dirs] /\ StemOf \in [Paths -> Stems] /\ Absent = 0
  BY <1>0 DEF IndexTypeOK, LibraryAssumption, Absent
<1>r. ASSUME NEW th \in Threads PROVE Consistent(role[th], pc[th]) /\ Progress(th) /\ HandTrue(th) /\ ScanTrue(th)
  BY <1>0 DEF RolePc, Advancing, Hands
<1>m. ASSUME NEW th \in Threads PROVE my[th].snap \in [Dirs -> Nat]
  BY <1>0, LocalFacts, LocalFields
\* The mtimes are not of the future, and a listing's are as new as those seen.
<1>t. /\ \A d \in Dirs : seen[d] <= clock
      /\ \A th \in Threads : role[th] = "list" => \A d \in Dirs : my[th].snap[d] <= clock
  <2>1. \A d \in Dirs : dirTime[d] <= clock /\ seen[d] <= dirTime[d]
    BY <1>0 DEF Times, FileTimes
  <2>2. ASSUME NEW th \in Threads, role[th] = "list", NEW d \in Dirs PROVE my[th].snap[d] <= clock
    <3>1. my[th].snap[d] <= dirTime[d]
      BY <1>0, <2>2 DEF Times, ListTimes
    <3> QED
      BY <1>l, <1>m, <2>1, <3>1
  <2>3. \A d \in Dirs : seen[d] <= clock
    BY <1>l, <2>1
  <2> QED
    BY <2>2, <2>3
<1>u. ASSUME NEW th \in Threads, pc[th] \notin {"stat", "served"}, NEW p \in Paths, Moved(th, p)
      PROVE  ~Settled(p, seen) /\ ~Settled(p, my[th].snap)
  <2>1. role[th] = "list" /\ changed[p] > my[th].snap[DirOf[p]]
    BY <1>u DEF Moved
  <2>2. DirOf[p] \in Dirs
    BY <1>l
  <2>3. seen[DirOf[p]] <= my[th].snap[DirOf[p]]
    BY <1>0, <1>u, <2>1, <2>2 DEF Times, ListTimes, Statted
  <2>4. changed[p] \in Nat /\ my[th].snap[DirOf[p]] \in Nat /\ seen[DirOf[p]] \in Nat
    BY <1>l, <1>m, <2>2
  <2> QED
    BY <2>1, <2>3, <2>4 DEF Settled
\* One listing at a time walks.
<1>w. ASSUME NEW th \in Threads, NEW u \in Threads, u # th, role[th] = "list", pc[th] # "served", role[u] = "list"
      PROVE  pc[u] = "served"
  BY <1>0, <1>w DEF LocksHeld
<1>a. ASSUME UNCHANGED <<LibFiles, row, seen, hidden>>, NEW th \in Threads, Others(th), Progress(th)'
      PROVE  Reflected' /\ Advancing'
  <2>1. UNCHANGED <<file, changed, row, seen, hidden>>
    BY <1>a DEF LibFiles
  <2>2. Reflected'
    BY <1>0, <2>1 DEF Reflected, Sole, Ghost, Settled, Current
  <2>3. ASSUME NEW u \in Threads, u # th PROVE Progress(u)'
    <3>1. Progress(u) /\ role'[u] = role[u] /\ pc'[u] = pc[u] /\ my'[u] = my[u]
      BY <1>a, <1>r, <2>3 DEF Others
    <3> QED
      BY <2>1, <3>1 DEF Progress, AtFile, Sole, Ghost, Settled, Current
  <2> QED
    BY <1>a, <2>2, <2>3 DEF Advancing
<1>b. ASSUME UNCHANGED <<LibFiles, row, seen, hidden>>, NEW th \in Threads, Others(th),
             role'[th] # "list" \/ pc'[th] \in {"stat", "gate", "served"}
      PROVE  Reflected' /\ Advancing'
  <2>1. Progress(th)'
    BY <1>b DEF Progress
  <2> QED
    BY <1>a, <1>b, <2>1
\* A walk goes on with a file done, or with more files to come.
<1>c. ASSUME UNCHANGED <<LibFiles, row, seen, hidden>>, NEW th \in Threads, Others(th), role'[th] = role[th], SameTimes(th),
             pc[th] \in {"walk", "select", "upsert", "read", "commit"},
             pc'[th] \in {"walk", "select", "upsert", "read", "commit"},
             \A p \in Paths : /\ role[th] = "list" /\ Sole(p, my[th].snap)
                              /\ DirOf[p] \notin my'[th].left /\ p \notin my'[th].todo \cup AtFile(th)'
                              => Current(p) \/ (DirOf[p] \notin my[th].left /\ p \notin my[th].todo \cup AtFile(th))
      PROVE  Reflected' /\ Advancing'
  <2>1. UNCHANGED <<file, changed, row, hidden>> /\ Progress(th) /\ my'[th].snap = my[th].snap
    BY <1>c, <1>r DEF LibFiles, SameTimes
  <2>2. ASSUME role[th] = "list", NEW p \in Paths, p \notin my'[th].todo \cup AtFile(th)',
               DirOf[p] \notin my'[th].left, Sole(p, my[th].snap)'
        PROVE  Current(p)'
    <3>1. Sole(p, my[th].snap)
      BY <2>1, <2>2 DEF Sole, Settled
    <3>2. Current(p)
      BY <1>c, <2>1, <2>2, <3>1 DEF Progress
    <3> QED
      BY <2>1, <3>2 DEF Current
  <2>3. Progress(th)'
    BY <1>c, <2>2 DEF Progress
  <2> QED
    BY <1>a, <1>c, <2>3
<1>1. ASSUME NEW th \in Threads, List(th) PROVE Reflected' /\ Advancing'
  BY <1>0, <1>1, <1>b, ListFacts DEF Starts
<1>2. ASSUME NEW th \in Threads, NEW ds, Scan(th, ds) PROVE Reflected' /\ Advancing'
  BY <1>0, <1>2, <1>b, ScanFacts DEF Starts
<1>3. ASSUME NEW th \in Threads, NEW p \in Paths, Change(th, p) PROVE Reflected' /\ Advancing'
  <2>1. PICK m, r : Changes(th, p, m, r)
    BY <1>3, <1>l, ChangeFacts
  <2>2. UNCHANGED <<row, seen, hidden>>
    BY <2>1 DEF Changes
  <2>3. Others(th) /\ role'[th] # "list"
    BY <1>0, <2>1, ChangeBegun DEF Starts
  <2>4. ASSUME NEW b \in [Dirs -> Nat], \A d \in Dirs : b[d] <= clock
        PROVE  /\ \A q \in Paths : Sole(q, b)' => Sole(q, b) /\ (Current(q) => Current(q)')
               /\ \A s \in Stems : Ghost(s, b)' => Ghost(s, b)
    BY <1>0, <2>1, <2>4, ChangeKeeps
  <2>5. Reflected'
    <3>1. PICK b \in [Dirs -> Nat] : b = seen
      BY <1>l
    <3>2. \A d \in Dirs : b[d] <= clock
      BY <1>t, <3>1
    <3>3. seen' = b
      BY <2>2, <3>1
    <3>4. /\ \A q \in Paths : Sole(q, seen)' => Sole(q, b)'
          /\ \A s \in Stems : Ghost(s, seen)' => Ghost(s, b)'
      BY <3>3 DEF Sole, Ghost, Settled
    <3> QED
      BY <1>0, <2>4, <3>1, <3>2, <3>4 DEF Reflected
  <2>6. ASSUME NEW u \in Threads, u # th PROVE Progress(u)'
    <3>0. Progress(u) /\ role'[u] = role[u] /\ pc'[u] = pc[u] /\ my'[u] = my[u]
      BY <1>r, <2>3, <2>6 DEF Others
    <3>1. PICK b \in [Dirs -> Nat] : b = my[u].snap
      BY <1>m
    <3>2. role[u] = "list" => \A d \in Dirs : b[d] <= clock
      BY <1>t, <3>1
    <3>3. my'[u].snap = b /\ row' = row
      BY <2>2, <3>0, <3>1
    <3>4. /\ \A q \in Paths : Sole(q, my[u].snap)' => Sole(q, b)'
          /\ \A s \in Stems : Ghost(s, my[u].snap)' => Ghost(s, b)'
      BY <3>3 DEF Sole, Ghost, Settled
    <3> QED
      BY <2>4, <3>0, <3>1, <3>2, <3>3, <3>4 DEF Progress, AtFile
  <2>7. Progress(th)'
    BY <2>3 DEF Progress
  <2> QED
    BY <2>5, <2>6, <2>7 DEF Advancing
<1>4. ASSUME NEW th \in Threads, NEW d \in Dirs, StatDir(th, d) PROVE Reflected' /\ Advancing'
  BY <1>0, <1>4, <1>b, StatDirFacts DEF Shared
<1>5. ASSUME NEW th \in Threads, Gate(th) PROVE Reflected' /\ Advancing'
  <2>1. UNCHANGED <<LibFiles, row, seen, hidden>> /\ Others(th)
    BY <1>0, <1>5, GateFacts
  <2>2. CASE pc'[th] = "served"
    BY <1>b, <2>1, <2>2
  <2>3. CASE pc'[th] = "walk"
    <3>1. my'[th].left = Dirs
      BY <1>0, <1>5, <2>3, GateFields
    <3>2. \A p \in Paths : DirOf[p] \in Dirs
      BY <1>l
    <3>3. Progress(th)'
      BY <2>3, <3>1, <3>2 DEF Progress
    <3> QED
      BY <1>a, <2>1, <3>3
  <2> QED
    BY <1>0, <1>5, <2>2, <2>3, GateFacts
<1>6. ASSUME NEW th \in Threads, NEW d \in Dirs, Glob(th, d) PROVE Reflected' /\ Advancing'
  <2>1. /\ UNCHANGED <<LibFiles, row, seen, hidden>> /\ Others(th) /\ role'[th] = role[th]
        /\ pc[th] = "walk" /\ pc'[th] = "walk" /\ my[th].todo = {}
    BY <1>0, <1>6, GlobFacts DEF Shared
  <2>2. SameTimes(th) /\ my'[th].left = my[th].left \ {d} /\ my'[th].todo = Found(d)
    BY <1>0, <1>6, GlobFields
  <2>3. ASSUME NEW p \in Paths, Sole(p, my[th].snap), DirOf[p] \notin my'[th].left, p \notin my'[th].todo
        PROVE  DirOf[p] \notin my[th].left
    <3>1. file[p] # 0
      BY <2>3 DEF Sole
    <3>2. DirOf[p] # d
      BY <1>l, <2>2, <2>3, <3>1 DEF Found
    <3> QED
      BY <2>2, <2>3, <3>2
  <2>4. AtFile(th) = {}
    BY <2>1 DEF AtFile
  <2> QED
    BY <1>c, <2>1, <2>2, <2>3, <2>4
<1>7. ASSUME NEW th \in Threads, NEW p \in Paths, StatFile(th, p) PROVE Reflected' /\ Advancing'
  <2>1. /\ UNCHANGED <<LibFiles, row, seen, hidden>> /\ Others(th) /\ role'[th] = role[th]
        /\ pc[th] = "walk" /\ pc'[th] = IF file[p] = 0 THEN "walk" ELSE "select"
    BY <1>0, <1>7, <1>l, StatFileFacts DEF Shared
  <2>2. SameTimes(th) /\ my'[th].left = my[th].left /\ my'[th].todo = my[th].todo \ {p} /\ my'[th].path = p
    BY <1>0, <1>7, StatFileFields
  <2>3. AtFile(th) = {} /\ AtFile(th)' = IF file[p] = 0 THEN {} ELSE {p}
    BY <2>1, <2>2 DEF AtFile
  <2>4. ASSUME NEW q \in Paths, Sole(q, my[th].snap), q \notin my'[th].todo \cup AtFile(th)'
        PROVE  q \notin my[th].todo \cup AtFile(th)
    <3>1. file[q] # 0
      BY <2>4 DEF Sole
    <3> QED
      BY <2>2, <2>3, <2>4, <3>1
  <2>5. pc'[th] \in {"walk", "select"}
    BY <2>1
  <2> QED
    BY <1>c, <2>1, <2>2, <2>4, <2>5
<1>8. ASSUME NEW th \in Threads, Select(th) PROVE Reflected' /\ Advancing'
  <2>1. /\ UNCHANGED <<LibFiles, row, seen, hidden>> /\ Others(th) /\ role'[th] = role[th] /\ pc[th] = "select"
        /\ pc'[th] = IF UpToDate(my[th].path, my[th].stat) THEN "walk" ELSE "upsert"
    BY <1>0, <1>8, SelectFacts DEF Shared
  <2>2. SameTimes(th) /\ my'[th].left = my[th].left /\ my'[th].todo = my[th].todo /\ my'[th].path = my[th].path
    BY <1>0, <1>8, SelectFields DEF SameScan, SameHand
  <2>3. PICK q \in Paths : q = my[th].path
    BY <1>0, <2>1 DEF PathKnown
  <2>4. ASSUME role[th] = "list", UpToDate(q, my[th].stat), Sole(q, my[th].snap) PROVE Current(q)
    <3>1. Settled(q, my[th].snap)
      BY <2>4 DEF Sole
    <3>2. ~Moved(th, q)
      BY <1>u, <2>1, <3>1
    <3>3. my[th].stat = file[q]
      BY <1>r, <2>1, <2>3, <3>2 DEF HandTrue
    <3>4. PICK s \in Stems : s = StemOf[q]
      BY <1>l
    <3>5. row[s] # NoRow /\ row[s].path = q /\ row[s].mtime = file[q]
      BY <2>4, <3>3, <3>4 DEF UpToDate
    <3>6. ASSUME NEW u \in Threads, role[u] = "restore" PROVE FALSE
      <4>1. u # th /\ role[u] \in Loose
        BY <2>4, <3>6 DEF Loose
      <4>2. role[th] = "none"
        BY <1>0, <4>1 DEF Apart
      <4> QED
        BY <2>4, <4>2
    <3>7. row[s].text = row[s].mtime
      BY <1>0, <3>5, <3>6 DEF Stubs
    <3>8. row[s] \in Row
      BY <1>0, <3>5 DEF IndexTypeOK
    <3>9. row[s] = [path |-> q, mtime |-> file[q], text |-> file[q]]
      BY <3>5, <3>7, <3>8 DEF Row
    <3> QED
      BY <3>4, <3>9 DEF Current
  <2>5. AtFile(th) = {q} /\ AtFile(th)' = IF UpToDate(q, my[th].stat) THEN {} ELSE {q}
    BY <2>1, <2>2, <2>3 DEF AtFile
  <2>6. pc'[th] \in {"walk", "upsert"}
    BY <2>1
  <2>7. ASSUME NEW p \in Paths, role[th] = "list", Sole(p, my[th].snap), p \notin my'[th].todo \cup AtFile(th)'
        PROVE  Current(p) \/ p \notin my[th].todo \cup AtFile(th)
    BY <2>2, <2>4, <2>5, <2>7
  <2> QED
    BY <1>c, <2>1, <2>2, <2>6, <2>7
<1>9. ASSUME NEW th \in Threads, PruneQuery(th) PROVE Reflected' /\ Advancing'
  <2>1. /\ UNCHANGED <<LibFiles, row, seen, hidden>> /\ Others(th) /\ role'[th] = role[th] /\ pc[th] = "walk"
        /\ pc'[th] = "prune"
    BY <1>0, <1>9, PruneQueryFacts DEF Shared
  <2>2. /\ SameTimes(th) /\ my'[th].gone = Vanished(th) /\ my'[th].left = my[th].left /\ my'[th].todo = my[th].todo
        /\ my[th].left = {}
    BY <1>0, <1>9, PruneQueryFacts, PruneQueryFields
  <2>3. UNCHANGED <<file, changed, row, hidden>> /\ my'[th].snap = my[th].snap
    BY <2>1, <2>2 DEF LibFiles, SameTimes
  <2>4. AtFile(th) = {} /\ AtFile(th)' = {} /\ Progress(th)
    BY <1>r, <2>1 DEF AtFile
  <2>5. ASSUME role[th] = "list", NEW s \in Stems, Ghost(s, my[th].snap) PROVE row[s].path \in Vanished(th)
    <3>0. PICK p : p = row[s].path
      OBVIOUS
    <3>1. row[s] # NoRow /\ p \in Paths /\ file[p] = 0 /\ Settled(p, my[th].snap)
      BY <1>0, <2>5, <3>0 DEF Ghost, IndexTypeOK, Row
    <3>2. ~Moved(th, p)
      BY <1>u, <2>1, <3>1
    <3>3. p \notin my[th].disk /\ my[th].dirs = Dirs
      BY <1>r, <2>1, <2>5, <3>1, <3>2 DEF ScanTrue
    <3>4. DirOf[p] \in Dirs
      BY <1>l, <3>1
    <3> QED
      BY <3>0, <3>1, <3>3, <3>4 DEF Vanished
  <2>6. Progress(th)'
    <3>1. ASSUME role[th] = "list", NEW p \in Paths, p \notin my[th].todo, Sole(p, my[th].snap) PROVE Current(p)
      BY <2>1, <2>2, <2>4, <3>1 DEF Progress
    <3>2. /\ \A p \in Paths : Sole(p, my[th].snap)' <=> Sole(p, my[th].snap)
          /\ \A p \in Paths : Current(p)' <=> Current(p)
          /\ \A s \in Stems : Ghost(s, my[th].snap)' <=> Ghost(s, my[th].snap)
      BY <2>3 DEF Sole, Settled, Ghost, Current
    <3> QED
      BY <2>1, <2>2, <2>3, <2>5, <3>1, <3>2 DEF Progress
  <2> QED
    BY <1>a, <2>1, <2>6
<1>k. ASSUME NEW th \in Threads, NEW p \in Paths, DeleteRow(p), UNCHANGED <<LibFiles, seen>>, Others(th),
             hidden \subseteq hidden',
             file[p] = 0 \/ p \in hidden' \/ (Moved(th, p) /\ pc[th] = "prune"), Progress(th)'
      PROVE  Reflected' /\ Advancing'
  <2>1. ASSUME NEW b, file[p] = 0 \/ ~Settled(p, b) \/ p \in hidden'
        PROVE  /\ \A q \in Paths : Sole(q, b)' => Sole(q, b) /\ (Current(q) => Current(q)')
               /\ \A s \in Stems : Ghost(s, b)' => Ghost(s, b) /\ row'[s] = row[s]
    BY <1>0, <1>k, <2>1, DropKeeps
  <2>2. Reflected'
    <3>1. PICK b : b = seen
      OBVIOUS
    <3>2. file[p] = 0 \/ ~Settled(p, b) \/ p \in hidden'
      BY <1>k, <1>u, <3>1
    <3>3. /\ \A q \in Paths : Sole(q, seen)' => Sole(q, b)'
          /\ \A s \in Stems : Ghost(s, seen)' => Ghost(s, b)'
      BY <1>k, <3>1 DEF Sole, Ghost, Settled
    <3> QED
      BY <1>0, <2>1, <3>1, <3>2, <3>3 DEF Reflected
  <2>3. ASSUME NEW u \in Threads, u # th PROVE Progress(u)'
    <3>0. Progress(u) /\ role'[u] = role[u] /\ pc'[u] = pc[u] /\ my'[u] = my[u]
      BY <1>k, <1>r, <2>3 DEF Others
    <3>1. CASE role[u] # "list" \/ pc[u] = "served"
      BY <3>0, <3>1 DEF Progress
    <3>2. CASE role[u] = "list" /\ pc[u] # "served"
      <4>1. PICK b : b = my[u].snap
        OBVIOUS
      <4>2. file[p] = 0 \/ p \in hidden'
        BY <1>k, <1>w, <2>3, <3>2 DEF Moved
      <4>3. /\ \A q \in Paths : Sole(q, my[u].snap)' => Sole(q, b)'
            /\ \A s \in Stems : Ghost(s, my[u].snap)' => Ghost(s, b)'
        BY <3>0, <4>1 DEF Sole, Ghost, Settled
      <4>4. /\ \A q \in Paths : Sole(q, b)' => Sole(q, b) /\ (Current(q) => Current(q)')
            /\ \A s \in Stems : Ghost(s, b)' => Ghost(s, b) /\ row'[s] = row[s]
        BY <2>1, <4>2
      <4> QED
        BY <3>0, <4>1, <4>3, <4>4 DEF Progress, AtFile
    <3> QED
      BY <3>1, <3>2
  <2> QED
    BY <1>k, <2>2, <2>3 DEF Advancing
<1>10. ASSUME NEW th \in Threads, NEW p \in Paths, PruneRow(th, p) PROVE Reflected' /\ Advancing'
  <2>1. /\ UNCHANGED <<LibFiles, seen>> /\ Others(th) /\ DeleteRow(p) /\ pc[th] = "prune" /\ pc'[th] = "prune"
        /\ role'[th] = role[th] /\ p \in my[th].gone
    BY <1>0, <1>10, PruneRowFacts
  <2>2. /\ SameTimes(th) /\ my'[th].gone = my[th].gone \ {p} /\ my'[th].left = my[th].left
        /\ my'[th].todo = my[th].todo
    BY <1>0, <1>10, PruneRowFields
  <2>3. hidden \subseteq hidden' /\ (file[p] = 0 \/ p \in hidden' \/ Moved(th, p))
    <3>1. hidden' = IF DirOf[p] \in my[th].dirs THEN hidden ELSE hidden \cup {p}
      BY <1>0, <1>10, PruneRowFacts
    <3> QED
      BY <1>r, <2>1, <3>1 DEF ScanTrue
  <2>4. Progress(th)'
    <3>0. PICK b : b = my[th].snap
      OBVIOUS
    <3>1. file[p] = 0 \/ ~Settled(p, b) \/ p \in hidden'
      BY <1>u, <2>1, <2>3, <3>0
    <3>2. /\ \A q \in Paths : Sole(q, b)' => Sole(q, b) /\ (Current(q) => Current(q)')
          /\ \A s \in Stems : Ghost(s, b)' => Ghost(s, b) /\ row'[s] = row[s] /\ row[s].path # p
      BY <1>0, <2>1, <2>3, <3>1, DropKeeps
    <3>3. my'[th].snap = b
      BY <2>2, <3>0 DEF SameTimes
    <3>4. /\ \A q \in Paths : Sole(q, my[th].snap)' => Sole(q, b)'
          /\ \A s \in Stems : Ghost(s, my[th].snap)' => Ghost(s, b)'
      BY <3>3 DEF Sole, Ghost, Settled
    <3>5. Progress(th) /\ AtFile(th) = {} /\ AtFile(th)' = {}
      BY <1>r, <2>1 DEF AtFile
    <3>6. role[th] = "list" => \A q \in Paths \ my'[th].todo :
            DirOf[q] \notin my'[th].left /\ Sole(q, my[th].snap)' => Current(q)'
      BY <2>1, <2>2, <3>0, <3>2, <3>4, <3>5 DEF Progress
    <3>7. role[th] = "list" => \A s \in Stems : Ghost(s, my[th].snap)' => row'[s].path \in my'[th].gone
      BY <2>1, <2>2, <3>0, <3>2, <3>4, <3>5 DEF Progress
    <3> QED
      BY <2>1, <3>5, <3>6, <3>7 DEF Progress
  <2> QED
    BY <1>k, <2>1, <2>3, <2>4
<1>11. ASSUME NEW th \in Threads, EndWalk(th) PROVE Reflected' /\ Advancing'
  <2>1. UNCHANGED <<LibFiles, row, hidden>> /\ Others(th) /\ pc[th] = "prune" /\ my[th].gone = {}
    BY <1>0, <1>11, EndWalkFacts
  <2>2. CASE role[th] # "list"
    <3>1. UNCHANGED seen /\ role'[th] # "list"
      BY <1>0, <1>11, <2>2, EndWalkFacts, StopFacts
    <3> QED
      BY <1>b, <2>1, <3>1
  <2>3. CASE role[th] = "list"
    <3>1. seen' = my[th].snap /\ pc'[th] = "served"
      BY <1>0, <1>11, <2>3, EndWalkFacts
    <3>2. UNCHANGED <<file, changed, row, hidden>>
      BY <2>1 DEF LibFiles
    <3>3. my[th].left = {} /\ my[th].todo = {} /\ AtFile(th) = {} /\ Progress(th)
      BY <1>r, <2>1 DEF ScanTrue, AtFile
    <3>4. /\ \A p \in Paths : Sole(p, my[th].snap) => Current(p)
          /\ \A s \in Stems : ~Ghost(s, my[th].snap)
      BY <2>1, <2>3, <3>3 DEF Progress
    <3>5. Reflected'
      BY <3>1, <3>2, <3>4 DEF Reflected, Sole, Ghost, Settled, Current
    <3>6. ASSUME NEW u \in Threads, u # th PROVE Progress(u)'
      <4>1. role'[u] = role[u] /\ pc'[u] = pc[u]
        BY <2>1, <3>6 DEF Others
      <4>2. role[u] = "list" => pc[u] = "served"
        BY <1>w, <2>1, <2>3, <3>6
      <4> QED
        BY <4>1, <4>2 DEF Progress
    <3>7. Progress(th)'
      BY <3>1 DEF Progress
    <3> QED
      BY <3>5, <3>6, <3>7 DEF Advancing
  <2> QED
    BY <2>2, <2>3
<1>13. ASSUME NEW th \in Threads, UpsertStat(th) PROVE Reflected' /\ Advancing'
  <2>0. Others(th) /\ UNCHANGED <<LibFiles, row, seen, hidden>> /\ pc[th] = "upsert" /\ AtFile(th) = {my[th].path}
    BY <1>0, <1>13, UpsertStatFacts DEF AtFile
  <2>1. CASE file[my[th].path] # 0
    <3>1. /\ pc'[th] = "read" /\ UNCHANGED role
          /\ my'[th] = [my[th] EXCEPT !.stat = file[my[th].path]]
      BY <1>0, <1>13, <1>l, <2>1, UpsertStatFacts
    <3>2. /\ SameTimes(th) /\ my'[th].left = my[th].left /\ my'[th].todo = my[th].todo
          /\ my'[th].path = my[th].path
      <4>1. my[th] \in Local
        BY <1>0, LocalFacts
      <4> QED
        BY <3>1, <4>1 DEF Local, SameTimes
    <3>3. AtFile(th)' = {my[th].path}
      BY <3>1, <3>2 DEF AtFile
    <3> QED
      BY <1>c, <2>0, <3>1, <3>2, <3>3
  <2>2. CASE file[my[th].path] = 0
    <3>0. AfterUpsert(th)
      BY <1>0, <1>13, <1>l, <2>2, UpsertStatFacts
    <3>1. CASE WalkOn(th)
      <4>1. pc'[th] = "walk" /\ my'[th] = my[th] /\ role'[th] = role[th] /\ SameTimes(th)
        BY <3>1 DEF WalkOn, SameTimes
      <4>2. \A p \in Paths : Sole(p, my[th].snap) => p # my[th].path
        BY <2>2 DEF Sole
      <4> QED
        BY <1>c, <2>0, <4>1, <4>2
    <3>2. CASE Ended(th)
      BY <1>b, <2>0, <3>2 DEF Ended
    <3> QED
      BY <1>0, <3>0, <3>1, <3>2, AfterUpsertFacts
  <2> QED
    BY <2>1, <2>2
<1>14. ASSUME NEW th \in Threads, UpsertRead(th) PROVE Reflected' /\ Advancing'
  <2>1. /\ UNCHANGED <<LibFiles, row, seen, hidden>> /\ Others(th) /\ role'[th] = role[th] /\ pc[th] = "read"
        /\ pc'[th] = "commit"
    BY <1>0, <1>14, UpsertReadFacts DEF Shared
  <2>2. SameTimes(th) /\ my'[th].left = my[th].left /\ my'[th].todo = my[th].todo /\ my'[th].path = my[th].path
    BY <1>0, <1>14, UpsertReadFields DEF SameScan
  <2>3. AtFile(th)' = AtFile(th)
    BY <2>1, <2>2 DEF AtFile
  <2> QED
    BY <1>c, <2>1, <2>2, <2>3
<1>15. ASSUME NEW th \in Threads, UpsertCommit(th) PROVE Reflected' /\ Advancing'
  <2>0. UNCHANGED <<LibFiles, seen>> /\ pc[th] = "commit" /\ AfterUpsert(th) /\ my[th].path \in Paths
    BY <1>0, <1>15, UpsertCommitFacts, CommitFacts
  <2>1. PICK p \in Paths : p = my[th].path
    BY <2>0
  <2>2. \/ Moved(th, p)
        \/ my[th].stat = file[p] /\ my[th].stat # 0 /\ my[th].text = my[th].stat
    BY <1>r, <2>0, <2>1 DEF HandTrue
  <2>3. ASSUME NEW b, Moved(th, p) => ~Settled(p, b)
        PROVE  /\ \A q \in Paths : Sole(q, b)' => (q = p \/ Sole(q, b)) /\ (q = p \/ Current(q) => Current(q)')
               /\ \A s \in Stems : Ghost(s, b)' => Ghost(s, b) /\ row'[s] = row[s]
    <3>1. \/ ~Settled(my[th].path, b)
          \/ my[th].stat = file[my[th].path] /\ my[th].stat # 0 /\ my[th].text = my[th].stat
      BY <2>1, <2>2, <2>3
    <3>2. /\ \A q \in Paths : Sole(q, b)' =>
              (q = my[th].path \/ Sole(q, b)) /\ (q = my[th].path \/ Current(q) => Current(q)')
          /\ \A s \in Stems : Ghost(s, b)' => Ghost(s, b) /\ row'[s] = row[s]
      BY <1>0, <1>15, <3>1, CommitKeeps
    <3> QED
      BY <2>1, <3>2
  <2>4. Moved(th, p) => ~Settled(p, seen) /\ ~Settled(p, my[th].snap)
    BY <1>u, <2>0
  <2>5. Others(th)
    BY <1>0, <2>0, AfterUpsertFacts
  <2>6. Reflected'
    <3>1. PICK b : b = seen
      OBVIOUS
    <3>2. /\ \A q \in Paths : Sole(q, b)' => (q = p \/ Sole(q, b)) /\ (q = p \/ Current(q) => Current(q)')
          /\ \A s \in Stems : Ghost(s, b)' => Ghost(s, b) /\ row'[s] = row[s]
      BY <2>3, <2>4, <3>1
    <3>3. /\ \A q \in Paths : Sole(q, seen)' => Sole(q, b)'
          /\ \A s \in Stems : Ghost(s, seen)' => Ghost(s, b)'
      BY <2>0, <3>1 DEF Sole, Ghost, Settled
    <3> QED
      BY <1>0, <3>1, <3>2, <3>3 DEF Reflected
  <2>7. ASSUME NEW u \in Threads, u # th PROVE Progress(u)'
    <3>0. Progress(u) /\ role'[u] = role[u] /\ pc'[u] = pc[u] /\ my'[u] = my[u]
      BY <1>r, <2>5, <2>7 DEF Others
    <3>1. CASE role[u] # "list" \/ pc[u] = "served"
      BY <3>0, <3>1 DEF Progress
    <3>2. CASE role[u] = "list" /\ pc[u] # "served"
      <4>1. PICK b : b = my[u].snap
        OBVIOUS
      <4>2. ~Moved(th, p)
        BY <1>w, <2>0, <2>7, <3>2 DEF Moved
      <4>3. /\ \A q \in Paths : Sole(q, my[u].snap)' => Sole(q, b)'
            /\ \A s \in Stems : Ghost(s, my[u].snap)' => Ghost(s, b)'
        BY <3>0, <4>1 DEF Sole, Ghost, Settled
      <4>4. /\ \A q \in Paths : Sole(q, b)' => (q = p \/ Sole(q, b)) /\ (q = p \/ Current(q) => Current(q)')
            /\ \A s \in Stems : Ghost(s, b)' => Ghost(s, b) /\ row'[s] = row[s]
        BY <2>3, <4>2
      <4> QED
        BY <3>0, <4>1, <4>3, <4>4 DEF Progress, AtFile
    <3> QED
      BY <3>1, <3>2
  <2>8. Progress(th)'
    <3>1. CASE Ended(th)
      BY <3>1 DEF Ended, Progress
    <3>2. CASE WalkOn(th)
      <4>1. pc'[th] = "walk" /\ my'[th] = my[th] /\ role'[th] = role[th]
        BY <3>2 DEF WalkOn
      <4>2. PICK b : b = my[th].snap
        OBVIOUS
      <4>3. /\ \A q \in Paths : Sole(q, b)' => (q = p \/ Sole(q, b)) /\ (q = p \/ Current(q) => Current(q)')
            /\ \A s \in Stems : Ghost(s, b)' => Ghost(s, b) /\ row'[s] = row[s]
        BY <2>3, <2>4, <4>2
      <4>4. \A q \in Paths : Sole(q, my[th].snap)' => Sole(q, b)'
        BY <4>1, <4>2 DEF Sole, Settled
      <4>5. Progress(th) /\ AtFile(th) = {p}
        BY <1>r, <2>0, <2>1 DEF AtFile
      <4>6. ASSUME role[th] = "list", NEW q \in Paths, q \notin my[th].todo, DirOf[q] \notin my[th].left,
                   Sole(q, my[th].snap)'
            PROVE  Current(q)'
        <5>1. (q = p \/ Sole(q, b)) /\ (q = p \/ Current(q) => Current(q)')
          BY <4>3, <4>4, <4>6
        <5>2. q = p \/ Current(q)
          BY <2>0, <4>2, <4>5, <4>6, <5>1 DEF Progress
        <5> QED
          BY <5>1, <5>2
      <4> QED
        BY <4>1, <4>6 DEF Progress
    <3> QED
      BY <1>0, <2>0, <3>1, <3>2, AfterUpsertFacts
  <2> QED
    BY <2>6, <2>7, <2>8 DEF Advancing
<1>16. ASSUME NEW th \in Threads, DropRow(th) PROVE Reflected' /\ Advancing'
  <2>1. UNCHANGED <<LibFiles, seen>> /\ Others(th) /\ DeleteRow(my[th].path) /\ pc[th] = "drop" /\ Ended(th)
    BY <1>0, <1>16, DropRowFacts
  <2>5. UNCHANGED hidden
    BY <1>0, <1>16, DropRowFacts
  <2>2. PICK p \in Paths : p = my[th].path
    BY <1>0, <2>1 DEF PathKnown
  <2>3. file[p] = 0
    BY <1>r, <2>1, <2>2 DEF HandTrue
  <2>4. Progress(th)'
    BY <2>1 DEF Ended, Progress
  <2> QED
    BY <1>k, <2>1, <2>2, <2>3, <2>4, <2>5
<1>17. ASSUME NEW th \in Threads, AnswerList(th) PROVE Reflected' /\ Advancing'
  BY <1>0, <1>17, <1>b, AnswerFacts, StopFacts DEF Shared
<1>18. CASE Restart
  <2>1. /\ UNCHANGED LibFiles /\ (\A d \in Dirs : seen'[d] = 0)
        /\ \A th \in Threads : role'[th] = "none"
    BY <1>18 DEF Restart, files, LibFiles, NoTimes
  <2>2. \A p \in Paths : changed'[p] >= 1 /\ changed'[p] \in Nat /\ DirOf[p] \in Dirs
    BY <1>0, <1>l, <2>1 DEF Times, FileTimes, LibFiles
  <2>3. \A p \in Paths : ~Settled(p, seen)'
    BY <2>1, <2>2 DEF Settled
  <2>4. \A s \in Stems : row'[s] # NoRow => row'[s].path \in Paths
    BY <1>0, <1>18 DEF Restart, IndexTypeOK, Row
  <2>5. Reflected'
    BY <2>3, <2>4 DEF Reflected, Sole, Ghost, Settled
  <2>6. Advancing'
    BY <2>1 DEF Advancing, Progress
  <2> QED
    BY <2>5, <2>6
<1>19. CASE UNCHANGED indexVars
  <2>1. UNCHANGED <<file, changed, row, seen, hidden, role, pc, my>>
    BY <1>19 DEF indexVars, files
  <2>2. Reflected'
    BY <1>0, <2>1 DEF Reflected, Sole, Ghost, Settled, Current
  <2>3. ASSUME NEW u \in Threads PROVE Progress(u)'
    BY <1>r, <2>1 DEF Progress, AtFile, Sole, Ghost, Settled, Current
  <2> QED
    BY <2>2, <2>3 DEF Advancing
<1> QED
  BY <1>1, <1>2, <1>3, <1>4, <1>5, <1>6, <1>7, <1>8, <1>9, <1>10, <1>11, <1>13, <1>14, <1>15, <1>16,
     <1>17, <1>18, <1>19 DEF IndexNext, Walk, Upsert

LEMMA LibInvStep ==
  ASSUME LibraryAssumption, LibInv, [IndexNext]_indexVars
  PROVE  LibInv'
<1>1. /\ IndexTypeOK /\ PathKnown /\ RolePc /\ LocksHeld /\ TextsTrue /\ Times
      /\ ~loose => Apart /\ Hands
  BY DEF LibInv, Orderly
<1>2. IndexTypeOK' /\ PathKnown' /\ RolePc' /\ LocksHeld' /\ TextsTrue' /\ Times'
  BY <1>1, LibTypeStep, RoleStep, LockStep, TextStep, TimeStep
<1>3. ASSUME ~loose' PROVE Apart' /\ Hands' /\ Stubs' /\ Reflected' /\ Advancing'
  <2>1. ~loose
    BY <1>1, <1>3, StaysOrderly
  <2> QED
    BY <1>1, <1>3, <2>1, ApartStep, HandStep, StubStep, RowStep
<1> QED
  BY <1>2, <1>3 DEF LibInv, Orderly

LEMMA LibInvInit ==
  ASSUME LibraryAssumption, IndexInit
  PROVE  LibInv
<1>0. /\ clock = 1 /\ file \in [Paths -> {0, 1}] /\ trash = [p \in Paths |-> 0]
      /\ changed = [p \in Paths |-> 1] /\ dirTime = [d \in Dirs |-> 1]
      /\ row = [s \in Stems |-> NoRow] /\ seen = [d \in Dirs |-> 0]
      /\ rlock = NoThread /\ lock = [s \in Stems |-> NoThread]
      /\ role = [th \in Threads |-> "none"] /\ pc = [th \in Threads |-> "idle"]
      /\ my = [th \in Threads |-> Blank] /\ ops = 0 /\ loose = FALSE /\ hidden = {}
  BY DEF IndexInit, Absent, NoTimes
<1>1. IndexTypeOK
  <2>1. /\ clock \in Nat /\ file \in [Paths -> Nat] /\ trash \in [Paths -> Nat]
        /\ changed \in [Paths -> Nat] /\ dirTime \in [Dirs -> Nat] /\ seen \in [Dirs -> Nat]
    BY <1>0
  <2>2. /\ row \in [Stems -> Row \cup {NoRow}] /\ rlock \in Threads \cup {NoThread}
        /\ lock \in [Stems -> Threads \cup {NoThread}]
    BY <1>0
  <2>3. /\ role \in [Threads -> AllRoles \cup {"none"}] /\ pc \in [Threads -> PCs]
        /\ my \in [Threads -> Local] /\ ops \in Nat /\ loose \in BOOLEAN /\ hidden \subseteq Paths
    BY <1>0, BlankLocal DEF PCs
  <2> QED
    BY <2>1, <2>2, <2>3 DEF IndexTypeOK
<1>2. \A th \in Threads : role[th] = "none" /\ pc[th] = "idle"
  BY <1>0
<1>3. PathKnown /\ RolePc /\ LocksHeld
  BY <1>2 DEF PathKnown, RolePc, Consistent, Walkers, Writers, LocksHeld
<1>4. \A p \in Paths : file[p] <= clock /\ trash[p] <= clock
  <2>1. ASSUME NEW p \in Paths PROVE file[p] \in {0, 1} /\ trash[p] = 0
    BY <1>0
  <2> QED
    BY <1>0, <2>1
<1>5. TextsTrue
  BY <1>0, <1>2, <1>4 DEF TextsTrue
<1>6. DirOf \in [Paths -> Dirs]
  BY DEF LibraryAssumption
<1>7. Times
  BY <1>0, <1>2, <1>6 DEF Times, FileTimes, ListTimes
<1>8. \A p \in Paths : ~Settled(p, seen)
  BY <1>0, <1>6 DEF Settled
<1>9. Apart /\ Hands
  BY <1>2 DEF Apart, Loose, Hands, HandTrue, ScanTrue, Walkers
<1>10. Stubs /\ Reflected /\ Advancing
  BY <1>0, <1>2, <1>8 DEF Stubs, Reflected, Sole, Ghost, Advancing, Progress
<1> QED
  BY <1>1, <1>3, <1>5, <1>7, <1>9, <1>10 DEF LibInv, Orderly

LEMMA LibInvariant ==
  ASSUME LibraryAssumption
  PROVE  IndexSpec => []LibInv
<1>1. IndexInit => LibInv
  BY LibInvInit
<1>2. LibInv /\ [IndexNext]_indexVars => LibInv'
  BY LibInvStep
<1> QED
  BY <1>1, <1>2, PTL DEF IndexSpec

\* The short cut of sync_dirs: a row with its file's path and mtime has the
\* file's text, or none if the file came back from the trash.
LEMMA TextsSound ==
  ASSUME LibraryAssumption, LibInv
  PROVE  SkipSound
<1>1. ASSUME NEW p \in Paths, file[p] # 0, UpToDate(p, file[p])
      PROVE  row[StemOf[p]].text \in {file[p], 0}
  <2>1. PICK s \in Stems : s = StemOf[p]
    BY DEF LibraryAssumption
  <2>2. row[s] # NoRow /\ row[s].path = p /\ row[s].mtime = file[p]
    BY <1>1, <2>1 DEF UpToDate
  <2>3. TextOf(p, file[p], row[s].text)
    BY <2>2 DEF LibInv, TextsTrue
  <2>4. ~Dead(p, file[p])
    BY DEF Dead
  <2> QED
    BY <2>1, <2>3, <2>4 DEF TextOf
<1> QED
  BY <1>1 DEF SkipSound, Absent

\* Every change older than its turn was seen by a listing that is served.
LEMMA TurnSeen ==
  ASSUME LibraryAssumption, LibInv, NEW th \in Threads, pc[th] = "served",
         NEW p \in Paths, changed[p] <= my[th].start
  PROVE  Settled(p, seen)
<1>1. /\ IndexTypeOK /\ role[th] = "list" /\ DirOf[p] \in Dirs /\ ListTimes(th)
  BY DEF LibInv, RolePc, Consistent, LibraryAssumption, Times
<1>2. changed[p] <= my[th].snap[DirOf[p]] /\ my[th].snap[DirOf[p]] <= seen[DirOf[p]]
  BY <1>1 DEF ListTimes, Statted
<1>3. my[th].snap \in [Dirs -> Nat] /\ changed[p] \in Nat /\ seen[DirOf[p]] \in Nat
  BY <1>1, LocalFacts, LocalFields DEF IndexTypeOK
<1>4. my[th].snap[DirOf[p]] \in Nat
  BY <1>1, <1>3
<1> QED
  BY <1>2, <1>3, <1>4 DEF Settled

LEMMA AnswersSound ==
  ASSUME LibraryAssumption, LibInv
  PROVE  ListedCurrent /\ NoGhostRows
<1>0. ~loose => Reflected
  BY DEF LibInv, Orderly
<1>1. ASSUME ~loose, NEW th \in Threads, pc[th] = "served", NEW p \in Paths, file[p] # Absent,
             changed[p] <= my[th].start, Alone(p, my[th].start), p \notin hidden
      PROVE  Current(p)
  <2>1. \A q \in Paths : changed[q] <= my[th].start => Settled(q, seen)
    BY <1>1, TurnSeen
  <2>2. Sole(p, seen)
    BY <1>1, <2>1 DEF Sole, Alone, Absent
  <2> QED
    BY <1>0, <1>1, <2>2 DEF Reflected
<1>2. ASSUME ~loose, NEW th \in Threads, pc[th] = "served", NEW s \in Stems, row[s] # NoRow,
             file[row[s].path] = Absent
      PROVE  changed[row[s].path] > my[th].start
  <2>1. PICK p \in Paths : p = row[s].path
    BY <1>2 DEF LibInv, IndexTypeOK, Row
  <2>2. ~Settled(p, seen)
    BY <1>0, <1>2, <2>1 DEF Reflected, Ghost, Absent
  <2>3. ~(changed[p] <= my[th].start)
    BY <1>2, <2>2, TurnSeen
  <2>4. changed[p] \in Nat /\ my[th].start \in Nat
    BY LocalFacts, LocalFields DEF LibInv, IndexTypeOK
  <2> QED
    BY <2>1, <2>3, <2>4
<1>3. ListedCurrent
  BY <1>1 DEF ListedCurrent
<1>4. NoGhostRows
  BY <1>2 DEF NoGhostRows
<1> QED
  BY <1>3, <1>4

\* The short cut of sync_dirs is sound: a row with a file's path and mtime has
\* that file's text, whoever wrote the row and however late, or it is the stub
\* of a file that came back from the trash (library_db.py).
THEOREM SkippingSound ==
  ASSUME LibraryAssumption
  PROVE  IndexSpec => []SkipSound
<1>1. LibInv => SkipSound
  BY TextsSound
<1> QED
  BY <1>1, LibInvariant, PTL

\* A listing or a delta answers what the disk held when its request got its
\* turn, as long as no operation that indexes outside the locks has overlapped
\* another (reconcile.py, library_db.py).
THEOREM AnswersMatchDisk ==
  ASSUME LibraryAssumption
  PROVE  IndexSpec => []AnswerMatchesDisk
<1>1. LibInv => AnswerMatchesDisk
  BY AnswersSound DEF LibInv, AnswerMatchesDisk
<1> QED
  BY <1>1, LibInvariant, PTL
=============================================================================
