----------------------------- MODULE JobProofs -----------------------------
(***************************************************************************)
(* Proofs about the job registry, for any number of jobs, streams, pollers *)
(* and slots: no slot leaks, no answer is reported before it is stored, a  *)
(* stream attached in time gets its end, and a status moves only forward.  *)
(*                                                                         *)
(* The invariant says of each worker what it can still have posted (what   *)
(* makes a status final), of each proxied ask who may still write to it,   *)
(* and of each stream where the loop of publish is in the live list that   *)
(* the stream is in.                                                       *)
(*                                                                         *)
(* And about the folder watcher, which creates jobs of its own: it forgets *)
(* no file, and no thread of it escapes its controller.                    *)
(***************************************************************************)
EXTENDS JobRunner, FolderWatch, FiniteSetTheorems, SequenceTheorems, WellFoundedInduction, TLAPS

\* A nonempty set of positions has a least one.
LEMMA MinPosition ==
  ASSUME NEW I \in SUBSET Nat, I # {}
  PROVE  Min(I) \in I
<1>0. \E x \in I : \A y \in I : x <= y
  <2> DEFINE R == OpToRel(<, Nat)
  <2>0. \A x, y \in Nat : x < y => <<x, y>> \in R
    <3> SUFFICES ASSUME NEW x \in Nat, NEW y \in Nat, x < y PROVE <<x, y>> \in R
       OBVIOUS
    <3>1. <<x, y>> \in Nat \X Nat /\ <<x, y>>[1] < <<x, y>>[2]
      OBVIOUS
    <3> QED BY <3>1, Zenon DEF OpToRel
  <2>4. IsWellFoundedOn(R, Nat)
    BY NatLessThanWellFounded
  <2> HIDE DEF R
  <2>1. \E x \in I : \A y \in I : ~(<<y, x>> \in R)
    BY <2>4, WFMin
  <2>2. PICK x \in I : \A y \in I : ~(<<y, x>> \in R)
    BY <2>1
  <2>3. \A y \in I : x <= y
    <3> SUFFICES ASSUME NEW y \in I, y < x PROVE FALSE
      OBVIOUS
    <3>1. <<y, x>> \in R
      BY <2>0
    <3> QED BY <3>1, <2>2
  <2> QED
    BY <2>3
<1> QED
  BY <1>0 DEF Min

\* The sequence without its element m.
LEMMA RemoveAtFacts ==
  ASSUME NEW S, NEW q \in Seq(S), NEW m \in 1..Len(q)
  PROVE  LET r == RemoveAt(q, m) IN
         /\ r \in Seq(S) /\ Len(r) = Len(q) - 1
         /\ \A i \in 1..Len(r) : r[i] = IF i < m THEN q[i] ELSE q[i + 1]
<1> DEFINE a == SubSeq(q, 1, m - 1)
           b == SubSeq(q, m + 1, Len(q))
           r == a \o b
<1>0. RemoveAt(q, m) = r
  BY DEF RemoveAt
<1>1. a \in Seq(S) /\ Len(a) = m - 1 /\ \A i \in 1..m - 1 : a[i] = q[i]
  OBVIOUS
<1>2. b \in Seq(S) /\ Len(b) = Len(q) - m /\ \A i \in 1..Len(q) - m : b[i] = q[m + i]
  OBVIOUS
<1>3. r = a \o b
  OBVIOUS
<1> HIDE DEF a, b, r
<1>4. /\ a \o b \in Seq(S) /\ Len(a \o b) = Len(a) + Len(b)
      /\ \A k \in 1..Len(a) + Len(b) :
           (a \o b)[k] = IF k <= Len(a) THEN a[k] ELSE b[k - Len(a)]
  BY <1>1, <1>2, ConcatProperties
<1>5. Len(q) \in Nat /\ m \in Nat /\ 1 <= m /\ m <= Len(q)
  OBVIOUS
<1>6. r \in Seq(S) /\ Len(r) = Len(q) - 1
  BY <1>1, <1>2, <1>3, <1>4, <1>5
<1>7. ASSUME NEW i \in 1..Len(r) PROVE r[i] = IF i < m THEN q[i] ELSE q[i + 1]
  <2>0. i \in Nat /\ 1 <= i /\ i <= Len(q) - 1 /\ i \in 1..Len(a) + Len(b)
    BY <1>1, <1>2, <1>5, <1>6
  <2>1. CASE i < m
    <3>1. i <= Len(a) /\ i \in 1..m - 1
      BY <1>1, <1>5, <2>0, <2>1
    <3> QED
      BY <1>1, <1>3, <1>4, <2>0, <2>1, <3>1
  <2>2. CASE ~(i < m)
    <3>1. ~(i <= Len(a)) /\ i - Len(a) \in 1..Len(q) - m /\ m + (i - Len(a)) = i + 1
      BY <1>1, <1>5, <2>0, <2>2
    <3>2. r[i] = b[i - Len(a)] /\ b[i - Len(a)] = q[m + (i - Len(a))]
      BY <1>2, <1>3, <1>4, <2>0, <3>1
    <3> QED
      BY <2>2, <3>1, <3>2
  <2> QED
    BY <2>1, <2>2
<1> QED
  BY <1>0, <1>6, <1>7

\* It has the other elements and no new ones.
LEMMA RemoveAtKeeps ==
  ASSUME NEW S, NEW q \in Seq(S), NEW m \in 1..Len(q)
  PROVE  LET r == RemoveAt(q, m) IN
         /\ \A k \in 1..Len(q) : k # m => \E i \in 1..Len(r) : r[i] = q[k]
         /\ \A i \in 1..Len(r) : \E k \in 1..Len(q) : k # m /\ r[i] = q[k]
         /\ IsInjective(q) => IsInjective(r)
<1> DEFINE r == RemoveAt(q, m)
<1>1. /\ r \in Seq(S) /\ Len(r) = Len(q) - 1
      /\ \A i \in 1..Len(r) : r[i] = IF i < m THEN q[i] ELSE q[i + 1]
  BY RemoveAtFacts
<1>2. Len(q) \in Nat /\ m \in Nat /\ 1 <= m /\ m <= Len(q)
  OBVIOUS
<1> HIDE DEF r
<1> DEFINE up(i) == IF i < m THEN i ELSE i + 1
<1>3. \A i \in 1..Len(r) : up(i) \in 1..Len(q) /\ up(i) # m /\ r[i] = q[up(i)]
  BY <1>1, <1>2
<1>4. \A i, k \in 1..Len(r) : up(i) = up(k) => i = k
  BY <1>1, <1>2
<1>5. ASSUME NEW k \in 1..Len(q), k # m PROVE \E i \in 1..Len(r) : r[i] = q[k]
  <2>1. CASE k < m
    <3>1. k \in 1..Len(r) /\ r[k] = q[k]
      BY <1>1, <1>2, <2>1
    <3> QED
      BY <3>1
  <2>2. CASE k > m
    <3>1. k - 1 \in 1..Len(r) /\ ~(k - 1 < m) /\ (k - 1) + 1 = k
      BY <1>1, <1>2, <2>2
    <3>2. r[k - 1] = q[k]
      BY <1>1, <3>1
    <3> QED
      BY <3>1, <3>2
  <2> QED
    BY <1>2, <1>5, <2>1, <2>2
<1>6. DOMAIN q = 1..Len(q) /\ DOMAIN r = 1..Len(r)
  BY <1>1
<1> HIDE DEF up
<1>7. IsInjective(q) => IsInjective(r)
  BY <1>3, <1>4, <1>6 DEF IsInjective
<1> QED
  BY <1>3, <1>5, <1>7 DEF r

\* list.remove: the sequence without the first e; nothing else is dropped.
LEMMA RemoveFirstFacts ==
  ASSUME NEW S, NEW q \in Seq(S), NEW e
  PROVE  /\ RemoveFirst(q, e) \in Seq(S) /\ Len(RemoveFirst(q, e)) + 1 >= Len(q)
         /\ \A x : x # e /\ Contains(q, x) => Contains(RemoveFirst(q, e), x)
         /\ \A x : Contains(RemoveFirst(q, e), x) => Contains(q, x)
         /\ IsInjective(q) => /\ IsInjective(RemoveFirst(q, e))
                              /\ ~Contains(RemoveFirst(q, e), e)
<1>1. CASE ~\E i \in 1..Len(q) : q[i] = e
  BY <1>1 DEF RemoveFirst, Contains
<1>2. CASE \E i \in 1..Len(q) : q[i] = e
  <2> DEFINE I == {i \in 1..Len(q) : q[i] = e}
             m == Min(I)
             r == RemoveAt(q, m)
  <2>1. m \in 1..Len(q) /\ q[m] = e
    <3>1. I \in SUBSET Nat /\ I # {}
      BY <1>2
    <3>2. m \in I
      BY <3>1, MinPosition
    <3> QED
      BY <3>2
  <2>2. RemoveFirst(q, e) = r
    BY <1>2 DEF RemoveFirst, SelectInSeq
  <2> HIDE DEF m
  <2>3. /\ r \in Seq(S) /\ Len(r) = Len(q) - 1
        /\ \A k \in 1..Len(q) : k # m => \E i \in 1..Len(r) : r[i] = q[k]
        /\ \A i \in 1..Len(r) : \E k \in 1..Len(q) : k # m /\ r[i] = q[k]
        /\ IsInjective(q) => IsInjective(r)
    BY <2>1, RemoveAtFacts, RemoveAtKeeps
  <2> HIDE DEF r
  <2>4. \A x : x # e /\ Contains(q, x) => Contains(r, x)
    BY <2>1, <2>3 DEF Contains
  <2>5. \A x : Contains(r, x) => Contains(q, x)
    BY <2>3 DEF Contains
  <2>6. IsInjective(q) => ~Contains(r, e)
    <3>1. DOMAIN q = 1..Len(q)
      OBVIOUS
    <3> QED
      BY <2>1, <2>3, <3>1 DEF Contains, IsInjective
  <2>7. Len(r) + 1 >= Len(q)
    BY <2>3
  <2> QED
    BY <2>2, <2>3, <2>4, <2>5, <2>6, <2>7
<1> QED
  BY <1>1, <1>2
-----------------------------------------------------------------------------
(* The inductive invariant. *)

\* A slot is held between Start or AcquireQueued and Finally, and never by a
\* worker that waits for one.
SlotsHeld ==
  /\ IsFiniteSet(acquired)
  /\ \A j \in acquired : work[j] \in {"stage", "run", "end", "except", "finally"}
  /\ SlotsAccounted

\* The registry lists jobs that have been created.
OrderKnown == \A i \in DOMAIN order : work[order[i]] # "none"

\* Before it posts, a worker has nothing posted or being published.
Early == {"none", "create", "launched", "queued", "run", "raised"}
Unposted(j) ==
  /\ work[j] \in Early => mail[j] = <<>>
  /\ work[j] = "stage" => \A i \in DOMAIN mail[j] : mail[j][i] = "stage"
  /\ work[j] \in Early \cup {"stage"} =>
       pub[j].step = "idle" /\ status[j] \in {"none", "pending", "running"}

\* After a last event only failures are posted, and after a complete job only
\* by a worker whose emit has timed out or raised.
OnlyFailuresFollow(j) ==
  /\ \A i, k \in DOMAIN mail[j] :
       i < k /\ mail[j][i] \in Ended =>
         mail[j][k] = "failed" /\ (mail[j][i] = "complete" => j \in late)
  /\ status[j] \in Ended => \A k \in DOMAIN mail[j] : mail[j][k] = "failed"
  /\ status[j] = "complete" /\ mail[j] # <<>> => j \in late

MailSound == \A j \in Jobs : Unposted(j) /\ OnlyFailuresFollow(j)

\* A proxied ask has no worker; while polls do not overlap one reply at most
\* is on its way, and the job runs until it is applied.
ProxyPolled ==
  /\ \A j \in Jobs : kind[j] = "ask_hub" =>
       work[j] \in {"none", "create", "raised", "done"} /\ mail[j] = <<>>
  /\ \A p \in Pollers : reply[p] # NoReply =>
       /\ kind[reply[p].job] = "ask_hub" /\ work[reply[p].job] = "done"
       /\ reply[p].job \notin crossed => status[reply[p].job] = "running"
  /\ \A p, q \in Pollers :
       reply[p] # NoReply /\ reply[q] # NoReply /\ reply[p].job = reply[q].job
         /\ reply[p].job \notin crossed => p = q

\* A complete job, or one whose last event is on its way, has its result.
ResultStored ==
  /\ \A j \in Jobs : Answers(j) =>
       (status[j] = "complete" \/ Contains(mail[j], "complete") => result[j])
  /\ AnswerBeforeComplete

\* The queues of a job are those of streams attached to it, only they are
\* put to, and what is put is the last event.
QueuesAttached ==
  /\ \A j \in Jobs : \A i \in DOMAIN queues[j] : at[queues[j][i]] = j
  /\ \A s \in Streams : inbox[s] # <<>> => at[s] # NoJob
  /\ \A j \in Jobs : pub[j].step # "idle" => pub[j].ev \in Ended /\ pub[j].i >= 1

\* A stream that has not left is in the list of its job's queues.
StreamListed ==
  \A s \in Streams \ left : at[s] # NoJob => Contains(queues[at[s]], s)

\* A stream in time stays listed, and once its job has ended it has the
\* sentinel, or the loop that puts it has not come to the stream yet.
Awaits(s, j) ==
  \/ pub[j].step \in {"dir", "event"}
  \/ /\ pub[j].step = "end"
     /\ \E n \in DOMAIN queues[j] :
          queues[j][n] = s /\ (n < pub[j].i => Contains(inbox[s], "None"))
  \/ Contains(inbox[s], "None")
\* Or a failure is still to be published: the loop of the job's own, if it has
\* one, does not stop as long as the worker waits for it.
Reported(j) == mail[j] # <<>> /\ (OwnLoop(j) => work[j] = "except")
StreamAwaits ==
  \A s \in timely \ left :
    /\ at[s] # NoJob
    /\ status[at[s]] # "gone"
    /\ status[at[s]] \in Ended /\ kind[at[s]] # "ask_hub" /\ at[s] \notin jolted
         => Awaits(s, at[s]) \/ Reported(at[s])
IInv ==
  /\ TypeOK /\ SlotsHeld /\ OrderKnown /\ MailSound
  /\ ProxyPolled /\ ResultStored /\ QueuesAttached /\ StreamListed /\ StreamAwaits
-----------------------------------------------------------------------------
(* The initial state. *)

\* The keys of a finite registry can be listed, each once.
LEMMA PastListed == SetToSeq(Past) \in Seq(Past) /\ IsInjective(SetToSeq(Past))
<1> DEFINE n == Cardinality(Past)
<1>1. n \in Nat /\ ExistsBijection(1..n, Past)
  BY JobAssumption, FS_CardinalityType
<1>2. PICK f \in [1..n -> Past] : \A a, b \in 1..n : f[a] = f[b] => a = b
  BY <1>1 DEF ExistsBijection, Bijection, Injection, IsInjective
<1>3. IsInjective(f)
  BY <1>2 DEF IsInjective
<1> HIDE DEF n
<1>4. SetToSeq(Past) \in [1..n -> Past] /\ IsInjective(SetToSeq(Past))
  BY <1>3 DEF SetToSeq, n
<1> QED
  BY <1>1, <1>4

\* The registry at the start: jobs that are over, and no one at work.
LEMMA InitInv == Init => IInv
<1> SUFFICES ASSUME Init PROVE IInv
  OBVIOUS
<1>1. TypeOK
  <2>1. order \in Seq(Jobs) /\ IsInjective(order)
    BY PastListed, JobAssumption DEF Init
  <2> QED
    BY <2>1, JobAssumption DEF Init, TypeOK, RegistryType, WorkerType, PublishType, ClientType, Ended, Idle
<1>2. SlotsHeld
  BY JobAssumption, FS_EmptySet DEF Init, SlotsHeld, SlotsAccounted
<1>3. OrderKnown
  BY PastListed, JobAssumption DEF Init, OrderKnown
<1>4. MailSound
  BY DEF Init, MailSound, Unposted, OnlyFailuresFollow, Early, Ended, Idle
<1>5. ProxyPolled
  BY DEF Init, ProxyPolled
<1>6. ResultStored
  <2>1. ASSUME NEW j \in Jobs, status[j] = "complete" \/ Contains(mail[j], "complete")
        PROVE  result[j]
    <3>1. ~Contains(mail[j], "complete")
      BY DEF Init, Contains
    <3>2. j \in Past
      BY <2>1, <3>1 DEF Init
    <3> QED
      BY <3>2, Zenon DEF Init
  <2> QED
    BY <2>1 DEF ResultStored, AnswerBeforeComplete
<1>7. QueuesAttached /\ StreamListed /\ StreamAwaits
  BY DEF Init, Idle, QueuesAttached, StreamListed, StreamAwaits
<1> QED
  BY <1>1, <1>2, <1>3, <1>4, <1>5, <1>6, <1>7 DEF IInv

-----------------------------------------------------------------------------
(* The slots. *)

\* A step of the loops, the streams, the polls and the hub moves no worker,
\* but for a publish that raises.
LEMMA WorkerFrame ==
  ASSUME \/ \E j \in Jobs : \/ SetEvent(j) \/ BeginPublish(j) \/ DirRegistered(j) \/ Put(j)
                            \/ HubEnds(j)
         \/ \E s \in Streams : Receive(s) \/ Disconnect(s)
         \/ \E s \in Streams, j \in Jobs : Attach(s, j)
         \/ \E p \in Pollers : PollApply(p)
         \/ \E p \in Pollers, j \in Jobs : Poll(p, j)
         \/ UNCHANGED vars
  PROVE  UNCHANGED <<work, acquired, sem>>
BY DEF SetEvent, BeginPublish, DirRegistered, Put, HubEnds, Receive, Disconnect,
       Attach, Poll, PollApply, vars, worker

\* Every way a worker ends gives back the slot it has, and only that.
LEMMA SlotsStep ==
  ASSUME TypeOK, SlotsHeld, [Next]_vars
  PROVE  SlotsHeld'
<1> USE DEF SlotsHeld, SlotsAccounted
<1>0. /\ sem \in Nat /\ Cardinality(acquired) \in Nat
      /\ DOMAIN work = Jobs /\ acquired \subseteq Jobs
  <2>1. Cardinality(acquired) \in Nat
    BY FS_CardinalityType
  <2> QED
    BY <2>1, JobAssumption DEF TypeOK, WorkerType
<1>1. ASSUME UNCHANGED <<work, acquired, sem>> PROVE SlotsHeld'
  BY <1>1
<1>2. ASSUME NEW j \in Jobs, UNCHANGED <<acquired, sem>>,
             \/ j \notin acquired /\ \E w : Goto(j, w)
             \/ \E w \in {"stage", "run", "end", "except", "finally"} : Goto(j, w)
      PROVE  SlotsHeld'
  BY <1>0, <1>2 DEF Goto
<1>3. ASSUME NEW j \in Jobs, Create(j) \/ RouteStep(j) PROVE SlotsHeld'
  <2>1. j \notin acquired /\ UNCHANGED <<acquired, sem>>
    BY <1>3 DEF Create, RouteStep, PruneKey, Launch, LaunchProxy, Created
  <2>2. UNCHANGED work \/ \E w : Goto(j, w)
    <3>1. CASE PruneKey(j)
      BY <3>1 DEF PruneKey
    <3> QED
      BY <1>3, <3>1 DEF Create, RouteStep, Launch, LaunchProxy
  <2> QED
    BY <2>1, <2>2, <1>1, <1>2
<1>4. ASSUME NEW j \in Jobs, j \notin acquired, sem > 0,
             acquired' = acquired \cup {j}, sem' = sem - 1, Goto(j, "stage")
      PROVE  SlotsHeld'
  <2>1. IsFiniteSet(acquired') /\ Cardinality(acquired') = Cardinality(acquired) + 1
    BY <1>4, FS_AddElement
  <2>2. \A k \in acquired' : work'[k] \in {"stage", "run", "end", "except", "finally"}
    BY <1>0, <1>4 DEF Goto
  <2> QED
    BY <2>1, <2>2, <1>0, <1>4
<1>5. ASSUME NEW j \in Jobs, Start(j) PROVE SlotsHeld'
  <2>1. j \notin acquired /\ Goto(j, "stage")
    BY <1>5 DEF Start
  <2>2. \/ acquired' = acquired \cup {j} /\ sem' = sem - 1 /\ sem > 0
        \/ UNCHANGED <<acquired, sem>>
    BY <1>5 DEF Start
  <2> QED
    BY <2>1, <2>2, <1>2, <1>4
<1>6. ASSUME NEW j \in Jobs, AcquireQueued(j) PROVE SlotsHeld'
  BY <1>4, <1>6 DEF AcquireQueued
<1>7. ASSUME NEW j \in Jobs,
             StageEmitted(j) \/ CancelQueued(j) \/ Run(j) \/ LastEmitted(j) \/ EmitTimeout(j)
      PROVE  SlotsHeld'
  <2>1. UNCHANGED <<acquired, sem>>
    BY <1>7 DEF StageEmitted, CancelQueued, Run, Transcribed, Recorded, Summarized, Migrated,
                Answered, Complete, Fail, LastEmitted, EmitTimeout
  <2>2. \/ j \notin acquired /\ \E w : Goto(j, w)
        \/ \E w \in {"stage", "run", "end", "except", "finally"} : Goto(j, w)
    <3>1. CASE StageEmitted(j)
      BY <3>1 DEF StageEmitted
    <3>2. CASE CancelQueued(j) \/ LastEmitted(j) \/ EmitTimeout(j)
      BY <3>2 DEF CancelQueued, LastEmitted, EmitTimeout
    <3>3. CASE Run(j)
      BY <3>3 DEF Run, Transcribed, Recorded, Summarized, Migrated, Answered, Complete, Fail
    <3> QED
      BY <1>7, <3>1, <3>2, <3>3
  <2> QED
    BY <2>1, <2>2, <1>2
<1>8. ASSUME NEW j \in Jobs, Finally(j) PROVE SlotsHeld'
  <2>1. IsFiniteSet(acquired') /\ sem' + Cardinality(acquired') = Slots
    <3>1. acquired' = acquired \ {j} /\ sem' = IF j \in acquired THEN sem + 1 ELSE sem
      BY <1>8 DEF Finally
    <3>2. /\ IsFiniteSet(acquired \ {j})
          /\ Cardinality(acquired \ {j}) =
               IF j \in acquired THEN Cardinality(acquired) - 1 ELSE Cardinality(acquired)
      BY FS_RemoveElement
    <3> QED
      BY <3>1, <3>2, <1>0
  <2>2. \A k \in acquired' : work'[k] \in {"stage", "run", "end", "except", "finally"}
    BY <1>0, <1>8 DEF Finally, Goto
  <2> QED
    BY <2>1, <2>2
<1>9. ASSUME NEW j \in Jobs, DirRaises(j) PROVE SlotsHeld'
  <2>1. UNCHANGED <<acquired, sem>> /\ (UNCHANGED work \/ Goto(j, "except"))
    BY <1>9 DEF DirRaises
  <2> QED
    BY <2>1, <1>1, <1>2
<1> QED
  BY <1>1, <1>3, <1>5, <1>6, <1>7, <1>8, <1>9, WorkerFrame DEF Next, WorkerStep, LoopStep

-----------------------------------------------------------------------------
(* Type correctness, by groups of variables. *)

\* Workers leave the records alone, but for the result they store.
LEMMA RegistryFrame ==
  ASSUME \/ \E j \in Jobs : \/ Launch(j) \/ SetEvent(j) \/ Start(j) \/ StageEmitted(j)
                            \/ AcquireQueued(j) \/ CancelQueued(j) \/ Fail(j) \/ LastEmitted(j)
                            \/ EmitTimeout(j) \/ Finally(j) \/ DirRegistered(j) \/ Put(j)
                            \/ DirRaises(j) \/ HubEnds(j)
         \/ \E p \in Pollers, j \in Jobs : Poll(p, j)
         \/ UNCHANGED vars
  PROVE  UNCHANGED record
BY DEF Launch, SetEvent, Start, StageEmitted, AcquireQueued, CancelQueued, Fail, LastEmitted,
       EmitTimeout, Finally, DirRegistered, DirRaises, Put, HubEnds, Poll, vars

\* create copies the keys, _prune takes them one by one.
LEMMA SnapStep ==
  ASSUME TypeOK, [Next]_vars
  PROVE  snap' \in [Jobs -> Seq(Jobs)]
<1> DEFINE Snap == snap' \in [Jobs -> Seq(Jobs)]
<1>0. snap \in [Jobs -> Seq(Jobs)] /\ order \in Seq(Jobs)
  BY DEF TypeOK, RegistryType
<1>1. ASSUME NEW j \in Jobs, Create(j) PROVE Snap
  BY <1>0, <1>1 DEF Create
<1>2. ASSUME NEW j \in Jobs, PruneKey(j) PROVE Snap
  <2>1. Tail(snap[j]) \in Seq(Jobs)
    BY <1>0, <1>2 DEF PruneKey
  <2> QED
    BY <1>0, <1>2, <2>1 DEF PruneKey
<1>3. ASSUME NEW j \in Jobs, Launch(j) \/ LaunchProxy(j) PROVE Snap
  <2>1. snap' = [snap EXCEPT ![j] = <<>>]
    BY <1>3 DEF Launch, LaunchProxy, Created
  <2> QED
    BY <1>0, <2>1
<1>4. ASSUME \/ \E j \in Jobs : \/ SetEvent(j) \/ WorkerStep(j) \/ AcquireQueued(j)
                                \/ LoopStep(j) \/ HubEnds(j)
             \/ \E s \in Streams : Receive(s) \/ Disconnect(s)
             \/ \E s \in Streams, j \in Jobs : Attach(s, j)
             \/ \E p \in Pollers : PollApply(p)
             \/ \E p \in Pollers, j \in Jobs : Poll(p, j)
             \/ UNCHANGED vars
      PROVE  Snap
  <2>1. UNCHANGED snap
    BY <1>4 DEF SetEvent, WorkerStep, Start, StageEmitted, CancelQueued, Run, Transcribed,
        Recorded, Summarized, Migrated, Answered, Complete, Fail, LastEmitted, EmitTimeout,
        Finally, AcquireQueued, LoopStep, BeginPublish, DirRegistered, DirRaises, Put, HubEnds,
        Receive, Disconnect, Attach, Poll, PollApply, vars
  <2> QED
    BY <1>0, <2>1
<1> HIDE DEF Snap
<1>5. ASSUME Next PROVE Snap
  BY <1>1, <1>2, <1>3, <1>4, <1>5 DEF Next, RouteStep
<1>6. Snap
  BY <1>4, <1>5
<1> QED
  BY <1>6 DEF Snap

\* The registry lists each job it knows once: a job is created once.
LEMMA RegistryStep ==
  ASSUME TypeOK, OrderKnown, QueuesAttached, [Next]_vars
  PROVE  RegistryType' /\ OrderKnown'
<1> DEFINE Goal == RegistryType' /\ OrderKnown'
<1>0. snap' \in [Jobs -> Seq(Jobs)]
  BY SnapStep
<1>00. RegistryType /\ DOMAIN work = Jobs
  BY DEF TypeOK, WorkerType
<1>1. ASSUME NEW j \in Jobs, UNCHANGED <<kind, order>>,
             UNCHANGED work \/ \E w : w # "none" /\ Goto(j, w),
             status' \in [Jobs -> Ended \cup {"none", "pending", "running", "gone"}],
             result' \in [Jobs -> BOOLEAN], queues' \in [Jobs -> Seq(Streams)]
      PROVE  Goal
  <2>1. OrderKnown'
    <3>1. \A i \in DOMAIN order : order[i] \in Jobs
      BY <1>00 DEF RegistryType
    <3>2. \A k \in Jobs : work[k] # "none" => work'[k] # "none"
      BY <1>00, <1>1 DEF Goto
    <3> QED
      BY <1>1, <3>1, <3>2 DEF OrderKnown
  <2> QED
    BY <1>0, <1>00, <1>1, <2>1 DEF RegistryType
<1>2. ASSUME NEW j \in Jobs, UNCHANGED record,
             UNCHANGED work \/ \E w : w # "none" /\ Goto(j, w)
      PROVE  Goal
  BY <1>00, <1>1, <1>2 DEF RegistryType, record
<1>3. ASSUME NEW j \in Jobs, Create(j) PROVE Goal
  <2>1. /\ order' \in Seq(Jobs) /\ Len(order') = Len(order) + 1
        /\ \A i \in 1..Len(order) : order'[i] = order[i]
        /\ order'[Len(order) + 1] = j
    BY <1>00, <1>3 DEF Create, RegistryType
  <2>2. ASSUME NEW i \in 1..Len(order)
        PROVE  work[order[i]] # "none" /\ order[i] # j /\ order[i] \in Jobs
    BY <1>00, <1>3 DEF Create, OrderKnown, RegistryType
  <2>3. order \in Seq(Jobs) /\ IsInjective(order)
    BY <1>00 DEF RegistryType
  <2>4. IsInjective(order')
    <3> SUFFICES ASSUME NEW a \in 1..Len(order) + 1, NEW b \in 1..Len(order) + 1,
                        order'[a] = order'[b]
                 PROVE  a = b
      BY <2>1 DEF IsInjective
    <3>1. CASE a = Len(order) + 1 \/ b = Len(order) + 1
      BY <3>1, <2>1, <2>2, <2>3
    <3>2. CASE a \in 1..Len(order) /\ b \in 1..Len(order)
      BY <3>2, <2>1, <2>3 DEF IsInjective
    <3> QED
      BY <3>1, <3>2, <2>3
  <2>5. work' = [work EXCEPT ![j] = "create"]
    BY <1>3 DEF Create, Goto
  <2>6. OrderKnown'
    <3> SUFFICES ASSUME NEW i \in 1..Len(order) + 1 PROVE work'[order'[i]] # "none"
      BY <2>1, <2>3 DEF OrderKnown
    <3>1. CASE i = Len(order) + 1
      BY <3>1, <2>1, <2>5, <1>00
    <3>2. CASE i \in 1..Len(order)
      BY <3>2, <2>1, <2>2, <2>5, <1>00
    <3> QED
      BY <3>1, <3>2, <2>3
  <2> QED
    BY <1>0, <1>00, <1>3, <2>1, <2>4, <2>6 DEF Create, RegistryType
<1>4. ASSUME NEW j \in Jobs, PruneKey(j) PROVE Goal
  <2> DEFINE k == Head(snap[j])
  <2>1. k \in Jobs
    BY <1>00, <1>4 DEF PruneKey, RegistryType
  <2> HIDE DEF k
  <2>2. order' = order \/ order' = RemoveFirst(order, k)
    BY <1>4 DEF PruneKey, k
  <2>3. order \in Seq(Jobs) /\ IsInjective(order)
    BY <1>00 DEF RegistryType
  <2>4. /\ order' \in Seq(Jobs) /\ IsInjective(order')
        /\ \A x : Contains(order', x) => Contains(order, x)
    BY <2>2, <2>3, RemoveFirstFacts
  <2>5. /\ status' = status \/ status' = [status EXCEPT ![k] = "gone"]
        /\ queues' = queues \/ queues' = [queues EXCEPT ![k] = <<>>]
        /\ work' = work \/ work' = [work EXCEPT ![j] = "raised"]
    <3>1. CASE Contains(order, k)
      BY <1>4, <3>1 DEF PruneKey, k
    <3>2. CASE ~Contains(order, k)
      BY <1>4, <3>2 DEF PruneKey, Goto, k
    <3> QED
      BY <2>1, <3>1, <3>2
  <2>6. OrderKnown'
    <3> SUFFICES ASSUME NEW i \in DOMAIN order' PROVE work'[order'[i]] # "none"
      BY DEF OrderKnown
    <3>1. order'[i] \in Jobs /\ Contains(order', order'[i])
      BY <2>4 DEF Contains
    <3>2. PICK n \in 1..Len(order) : order[n] = order'[i]
      BY <2>4, <3>1 DEF Contains
    <3>3. work[order'[i]] # "none"
      BY <3>2, <2>3 DEF OrderKnown
    <3> QED
      BY <3>1, <3>3, <2>5, <1>00
  <2>7. UNCHANGED <<kind, result>>
    BY <1>4 DEF PruneKey
  <2>8. status' \in [Jobs -> Ended \cup {"none", "pending", "running", "gone"}]
    BY <1>00, <2>1, <2>5 DEF RegistryType
  <2>9. queues' \in [Jobs -> Seq(Streams)]
    <3>1. queues \in [Jobs -> Seq(Streams)]
      BY <1>00 DEF RegistryType
    <3>2. CASE queues' = [queues EXCEPT ![k] = <<>>]
      BY <2>1, <3>1, <3>2
    <3> QED
      BY <3>1, <3>2, <2>5
  <2> QED
    BY <1>0, <1>00, <2>4, <2>6, <2>7, <2>8, <2>9 DEF RegistryType
<1>5. ASSUME NEW j \in Jobs, LaunchProxy(j) PROVE Goal
  BY <1>00, <1>1, <1>5 DEF LaunchProxy, RegistryType
<1>6. ASSUME NEW j \in Jobs,
             \/ Launch(j) \/ Start(j) \/ StageEmitted(j) \/ AcquireQueued(j) \/ CancelQueued(j)
             \/ Fail(j) \/ LastEmitted(j) \/ EmitTimeout(j) \/ Finally(j)
      PROVE  Goal
  <2>1. \E w : w # "none" /\ Goto(j, w)
    BY <1>6 DEF Launch, Start, StageEmitted, AcquireQueued, CancelQueued, Fail, LastEmitted,
                EmitTimeout, Finally
  <2>2. UNCHANGED record
    BY <1>6, RegistryFrame
  <2> QED
    BY <2>1, <2>2, <1>2
<1>7. ASSUME NEW j \in Jobs, NEW stored \in BOOLEAN, Complete(j, stored) PROVE Goal
  BY <1>00, <1>1, <1>7 DEF Complete, RegistryType
<1>8. ASSUME NEW j \in Jobs, Run(j) PROVE Goal
  BY <1>6, <1>7, <1>8 DEF Run, Transcribed, Recorded, Summarized, Migrated, Answered
<1>9. ASSUME NEW j \in Jobs, BeginPublish(j) PROVE Goal
  <2>1. status' \in [Jobs -> Ended \cup {"none", "pending", "running", "gone"}]
    <3>1. Head(mail[j]) \in {"stage"} \cup Ended
      BY <1>9 DEF BeginPublish, TypeOK, PublishType, Ended
    <3> QED
      BY <1>00, <1>9, <3>1 DEF BeginPublish, RegistryType
  <2> QED
    BY <1>00, <1>1, <1>9, <2>1 DEF BeginPublish, RegistryType, worker
<1>10. ASSUME NEW s \in Streams, NEW j \in Jobs, Attach(s, j) PROVE Goal
  <2>1. queues' \in [Jobs -> Seq(Streams)]
    BY <1>00, <1>10 DEF Attach, RegistryType
  <2> QED
    BY <1>00, <1>1, <1>10, <2>1 DEF Attach, RegistryType, worker
<1>11. ASSUME NEW s \in Streams, Receive(s) \/ Disconnect(s) PROVE Goal
  <2>1. at[s] \in Jobs
    BY <1>11 DEF Receive, Disconnect, QueuesAttached, TypeOK, ClientType
  <2>2. queues' = queues \/ queues' = [queues EXCEPT ![at[s]] = RemoveFirst(@, s)]
    BY <1>11 DEF Receive, Disconnect, Leave
  <2>3. queues' \in [Jobs -> Seq(Streams)]
    <3>1. RemoveFirst(queues[at[s]], s) \in Seq(Streams)
      BY <1>00, <2>1, RemoveFirstFacts DEF RegistryType
    <3> QED
      BY <1>00, <2>1, <2>2, <3>1 DEF RegistryType
  <2> QED
    BY <1>00, <1>1, <1>11, <2>1, <2>3 DEF Receive, Disconnect, RegistryType, worker
<1>12. ASSUME NEW p \in Pollers, PollApply(p) PROVE Goal
  <2>1. reply[p].job \in Jobs
    BY <1>12 DEF PollApply, TypeOK, ClientType
  <2>2. /\ status' \in [Jobs -> Ended \cup {"none", "pending", "running", "gone"}]
        /\ result' \in [Jobs -> BOOLEAN]
    BY <1>00, <1>12, <2>1 DEF PollApply, RegistryType, Ended
  <2> QED
    BY <1>00, <1>1, <1>12, <2>1, <2>2 DEF PollApply, RegistryType, worker
<1>13. ASSUME \/ \E j \in Jobs : SetEvent(j) \/ DirRegistered(j) \/ Put(j) \/ HubEnds(j)
              \/ \E p \in Pollers, j \in Jobs : Poll(p, j)
              \/ UNCHANGED vars
       PROVE  Goal
  <2>1. UNCHANGED record
    BY <1>13, RegistryFrame
  <2>2. UNCHANGED work
    BY <1>13, WorkerFrame
  <2> QED
    BY <2>1, <2>2, <1>0, <1>00 DEF RegistryType, OrderKnown, record
<1>15. ASSUME NEW j \in Jobs, DirRaises(j) PROVE Goal
  <2>1. UNCHANGED record
    BY <1>15, RegistryFrame
  <2>2. UNCHANGED work \/ (work[j] = "end" /\ work' = [work EXCEPT ![j] = "except"])
    BY <1>15 DEF DirRaises, Goto
  <2>3. \A k \in Jobs : work[k] # "none" => work'[k] # "none"
    BY <2>2, <1>00 DEF RegistryType, TypeOK, WorkerType
  <2> QED
    BY <2>1, <2>3, <1>0, <1>00 DEF RegistryType, OrderKnown, record
<1> HIDE DEF Goal
<1>14. Goal
  BY <1>3, <1>4, <1>5, <1>6, <1>8, <1>9, <1>10, <1>11, <1>12, <1>13, <1>15
  DEF Next, RouteStep, WorkerStep, LoopStep
<1> QED
  BY <1>14 DEF Goal

\* The semaphore stays within its range, as every release follows an acquire.
LEMMA WorkerTypeStep ==
  ASSUME TypeOK, SlotsHeld, SlotsHeld', [Next]_vars
  PROVE  WorkerType'
<1>0. WorkerType
  BY DEF TypeOK
<1>1. ASSUME UNCHANGED <<work, acquired, sem, armed>>, flagged' \subseteq Jobs PROVE WorkerType'
  BY <1>0, <1>1 DEF WorkerType
<1>2. ASSUME NEW j \in Jobs, UNCHANGED <<acquired, sem, flagged>>, armed' \subseteq Jobs,
             \/ UNCHANGED work
             \/ \E w \in {"create", "launched", "queued", "run", "end", "except", "finally",
                          "done", "raised"} : Goto(j, w)
      PROVE  WorkerType'
  BY <1>0, <1>2 DEF WorkerType, Goto
<1>3. ASSUME NEW j \in Jobs, Create(j) \/ Launch(j) \/ LaunchProxy(j) PROVE WorkerType'
  <2>1. UNCHANGED <<acquired, sem, flagged>> /\ armed' \subseteq Jobs
    BY <1>0, <1>3 DEF Create, Launch, LaunchProxy, WorkerType
  <2> QED
    BY <1>2, <1>3, <2>1 DEF Create, Launch, LaunchProxy
<1>4. ASSUME NEW j \in Jobs, PruneKey(j) PROVE WorkerType'
  <2>1. UNCHANGED work \/ Goto(j, "raised")
    BY <1>4 DEF PruneKey
  <2> QED
    BY <1>0, <1>2, <1>4, <2>1 DEF PruneKey, WorkerType
<1>5. ASSUME NEW j \in Jobs, Start(j) \/ AcquireQueued(j) PROVE WorkerType'
  <2>1. sem \in 0..Slots /\ Slots \in Nat
    BY <1>0, JobAssumption DEF WorkerType
  <2>2. sem' = sem \/ (sem > 0 /\ sem' = sem - 1)
    BY <1>5 DEF Start, AcquireQueued
  <2>3. sem' \in 0..Slots
    BY <2>1, <2>2
  <2>4. acquired' = acquired \/ acquired' = acquired \cup {j}
    BY <1>5 DEF Start, AcquireQueued
  <2>5. Goto(j, "stage") /\ UNCHANGED <<armed, flagged>>
    BY <1>5 DEF Start, AcquireQueued
  <2> QED
    BY <1>0, <2>3, <2>4, <2>5 DEF WorkerType, Goto
<1>6. ASSUME NEW j \in Jobs, StageEmitted(j) \/ CancelQueued(j) \/ LastEmitted(j) PROVE WorkerType'
  <2>1. UNCHANGED <<acquired, sem, flagged, armed>>
    BY <1>6 DEF StageEmitted, CancelQueued, LastEmitted
  <2>2. \E w \in {"queued", "run", "end", "finally"} : Goto(j, w)
    BY <1>6 DEF StageEmitted, CancelQueued, LastEmitted
  <2> QED
    BY <1>0, <1>2, <2>1, <2>2 DEF WorkerType
<1>7. ASSUME NEW j \in Jobs, Run(j) \/ EmitTimeout(j) PROVE WorkerType'
  <2>1. UNCHANGED <<acquired, sem, flagged, armed>>
    BY <1>7 DEF EmitTimeout, Run, Transcribed, Recorded, Summarized, Migrated, Answered,
                Complete, Fail
  <2>2. \E w \in {"except", "end", "finally"} : Goto(j, w)
    BY <1>7 DEF EmitTimeout, Run, Transcribed, Recorded, Summarized, Migrated, Answered,
                Complete, Fail
  <2> QED
    BY <1>0, <1>2, <2>1, <2>2 DEF WorkerType
<1>8. ASSUME NEW j \in Jobs, Finally(j) PROVE WorkerType'
  <2>1. Cardinality(acquired') \in Nat /\ sem' + Cardinality(acquired') = Slots
    BY FS_CardinalityType DEF SlotsHeld, SlotsAccounted
  <2>2. sem' \in Nat
    BY <1>0, <1>8, JobAssumption DEF Finally, WorkerType
  <2>3. sem' \in 0..Slots
    BY <2>1, <2>2, JobAssumption
  <2>4. acquired' \subseteq Jobs /\ armed' \subseteq Jobs /\ flagged' = flagged /\ Goto(j, "done")
    BY <1>0, <1>8 DEF Finally, WorkerType
  <2> QED
    BY <1>0, <2>3, <2>4 DEF WorkerType, Goto
<1>9. ASSUME \/ \E j \in Jobs : \/ SetEvent(j) \/ BeginPublish(j) \/ DirRegistered(j) \/ Put(j)
                                \/ HubEnds(j)
             \/ \E s \in Streams : Receive(s) \/ Disconnect(s)
             \/ \E s \in Streams, j \in Jobs : Attach(s, j)
             \/ \E p \in Pollers : PollApply(p)
             \/ \E p \in Pollers, j \in Jobs : Poll(p, j)
             \/ UNCHANGED vars
      PROVE  WorkerType'
  <2>1. UNCHANGED <<work, acquired, sem>>
    BY <1>9, WorkerFrame
  <2>2. UNCHANGED armed /\ flagged' \subseteq Jobs
    BY <1>0, <1>9 DEF SetEvent, BeginPublish, DirRegistered, Put, HubEnds, Receive,
       Disconnect, Attach, Poll, PollApply, vars, worker, WorkerType
  <2> QED
    BY <1>1, <2>1, <2>2
<1>10. ASSUME NEW j \in Jobs, DirRaises(j) PROVE WorkerType'
  <2>1. /\ UNCHANGED <<acquired, sem, armed, flagged>>
        /\ UNCHANGED work \/ work' = [work EXCEPT ![j] = "except"]
    BY <1>10 DEF DirRaises, Goto
  <2> QED
    BY <1>0, <2>1 DEF WorkerType
<1> QED
  BY <1>3, <1>4, <1>5, <1>6, <1>7, <1>8, <1>9, <1>10 DEF Next, RouteStep, WorkerStep, LoopStep

\* The mail and the publish in progress keep their types.
LEMMA PublishTypeStep ==
  ASSUME TypeOK, QueuesAttached, [Next]_vars
  PROVE  PublishType'
<1> DEFINE Pubs == [Jobs -> [ev : {"none"} \cup Ended, step : {"idle", "dir", "event", "end"},
                             i : Nat]]
           Mails == [Jobs -> Seq({"stage", "complete", "failed"})]
<1>0. pub \in Pubs /\ mail \in Mails
  BY DEF TypeOK, PublishType
<1>00. pub' \in Pubs /\ mail' \in Mails => PublishType'
  BY DEF PublishType
<1>1. ASSUME UNCHANGED <<mail, pub>> PROVE PublishType'
  BY <1>0, <1>00, <1>1
<1>2. ASSUME NEW j \in Jobs, NEW ev \in {"stage", "complete", "failed"}, Post(j, ev), UNCHANGED pub
      PROVE  PublishType'
  <2>1. mail' \in Mails
    BY <1>0, <1>2 DEF Post
  <2> QED
    BY <1>0, <1>00, <1>2, <2>1
<1>3. ASSUME \/ \E j \in Jobs : \/ Create(j) \/ RouteStep(j) \/ SetEvent(j) \/ StageEmitted(j)
                                \/ LastEmitted(j) \/ HubEnds(j)
             \/ \E s \in Streams : Receive(s) \/ Disconnect(s)
             \/ \E s \in Streams, j \in Jobs : Attach(s, j)
             \/ \E p \in Pollers : PollApply(p)
             \/ \E p \in Pollers, j \in Jobs : Poll(p, j)
             \/ UNCHANGED vars
      PROVE  UNCHANGED <<mail, pub>>
  BY <1>3 DEF Create, RouteStep, PruneKey, Launch, LaunchProxy, SetEvent, StageEmitted,
     LastEmitted, HubEnds, Receive, Disconnect, Attach, Poll, PollApply, vars
<1>4. ASSUME NEW j \in Jobs, \/ Start(j) \/ AcquireQueued(j) \/ CancelQueued(j) \/ Run(j)
                             \/ EmitTimeout(j)
      PROVE  PublishType'
  <2>1. UNCHANGED pub
    BY <1>4 DEF Start, AcquireQueued, CancelQueued, EmitTimeout, Run, Transcribed, Recorded,
       Summarized, Migrated, Answered, Complete, Fail
  <2>2. UNCHANGED mail \/ \E ev \in {"stage", "complete", "failed"} : Post(j, ev)
    BY <1>4 DEF Start, AcquireQueued, CancelQueued, EmitTimeout, Run, Transcribed, Recorded,
       Summarized, Migrated, Answered, Complete, Fail
  <2> QED
    BY <1>1, <1>2, <2>1, <2>2
<1>5. ASSUME NEW j \in Jobs, Finally(j) PROVE PublishType'
  <2>1. mail' = mail \/ mail' = [mail EXCEPT ![j] = <<>>]
    BY <1>5 DEF Finally
  <2>2. mail' \in Mails
    <3>1. CASE mail' = [mail EXCEPT ![j] = <<>>]
      BY <1>0, <3>1
    <3> QED
      BY <1>0, <2>1, <3>1
  <2> QED
    BY <1>0, <1>00, <1>5, <2>2 DEF Finally
<1>6. ASSUME NEW j \in Jobs, BeginPublish(j) PROVE PublishType'
  <2>1. Head(mail[j]) \in {"stage"} \cup Ended /\ Tail(mail[j]) \in Seq({"stage", "complete", "failed"})
    BY <1>0, <1>6 DEF BeginPublish, Ended
  <2>2. mail' \in Mails
    BY <1>0, <1>6, <2>1 DEF BeginPublish
  <2>3. pub' \in Pubs
    <3>1. UNCHANGED pub \/ \E ev \in Ended, step \in {"dir", "event"} :
                             pub' = [pub EXCEPT ![j] = [ev |-> ev, i |-> 1, step |-> step]]
      BY <1>6, <2>1 DEF BeginPublish
    <3>2. ASSUME NEW ev \in Ended, NEW step \in {"dir", "event"},
                 pub' = [pub EXCEPT ![j] = [ev |-> ev, i |-> 1, step |-> step]]
          PROVE  pub' \in Pubs
      <4>1. [ev |-> ev, i |-> 1, step |-> step]
              \in [ev : {"none"} \cup Ended, step : {"idle", "dir", "event", "end"}, i : Nat]
        OBVIOUS
      <4> QED
        BY <1>0, <3>2, <4>1
    <3> QED
      BY <1>0, <3>1, <3>2
  <2> QED
    BY <1>00, <2>2, <2>3
<1>7. ASSUME NEW j \in Jobs, DirRegistered(j) PROVE PublishType'
  <2>1. pub' \in Pubs
    BY <1>0, <1>7 DEF DirRegistered
  <2> QED
    BY <1>0, <1>00, <1>7, <2>1 DEF DirRegistered
<1>8. ASSUME NEW j \in Jobs, Put(j) PROVE PublishType'
  <2>0. pub[j] \in [ev : {"none"} \cup Ended, step : {"idle", "dir", "event", "end"}, i : Nat]
    BY <1>0
  <2>1. CASE pub[j].i <= Len(queues[j])
    <3>1. pub' = [pub EXCEPT ![j].i = @ + 1] /\ UNCHANGED mail
      BY <1>8, <2>1 DEF Put
    <3> QED
      BY <1>0, <1>00, <3>1, <2>0
  <2>2. CASE ~(pub[j].i <= Len(queues[j]))
    <3>1. /\ UNCHANGED mail
          /\ \/ pub' = [pub EXCEPT ![j] = [@ EXCEPT !.step = "end", !.i = 1]]
             \/ pub' = [pub EXCEPT ![j] = Idle]
      BY <1>8, <2>2 DEF Put
    <3>2. [pub[j] EXCEPT !.step = "end", !.i = 1]
            \in [ev : {"none"} \cup Ended, step : {"idle", "dir", "event", "end"}, i : Nat]
      BY <2>0
    <3>3. Idle \in [ev : {"none"} \cup Ended, step : {"idle", "dir", "event", "end"}, i : Nat]
      BY DEF Idle
    <3>4. pub' \in Pubs
      BY <1>0, <3>1, <3>2, <3>3
    <3> QED
      BY <1>0, <1>00, <3>1, <3>4
  <2> QED
    BY <2>1, <2>2
<1>9. ASSUME NEW j \in Jobs, DirRaises(j) PROVE PublishType'
  <2>1. Idle \in [ev : {"none"} \cup Ended, step : {"idle", "dir", "event", "end"}, i : Nat]
    BY DEF Idle
  <2>2. pub' \in Pubs
    BY <1>0, <1>9, <2>1 DEF DirRaises
  <2>3. UNCHANGED mail \/ Post(j, "failed")
    BY <1>9 DEF DirRaises
  <2>4. mail' \in Mails
    <3>1. CASE Post(j, "failed")
      BY <1>0, <3>1 DEF Post
    <3> QED
      BY <1>0, <2>3, <3>1
  <2> QED
    BY <1>00, <2>2, <2>4
<1> QED
  BY <1>1, <1>3, <1>4, <1>5, <1>6, <1>7, <1>8, <1>9 DEF Next, WorkerStep, LoopStep

\* Streams, replies and the history variables keep their types.
LEMMA ClientTypeStep ==
  ASSUME TypeOK, QueuesAttached, [Next]_vars
  PROVE  ClientType'
<1>0. ClientType
  BY DEF TypeOK
<1>1. ASSUME \/ \E j \in Jobs : \/ Create(j) \/ RouteStep(j) \/ SetEvent(j) \/ Start(j)
                                \/ StageEmitted(j) \/ CancelQueued(j) \/ Run(j) \/ LastEmitted(j)
                                \/ Finally(j) \/ AcquireQueued(j) \/ BeginPublish(j)
                                \/ DirRegistered(j)
             \/ UNCHANGED vars
      PROVE  UNCHANGED <<client, remote, ghost>>
  BY <1>1 DEF Create, RouteStep, PruneKey, Launch, LaunchProxy, SetEvent, Start, StageEmitted,
     CancelQueued, Run, Transcribed, Recorded, Summarized, Migrated, Answered, Complete, Fail,
     LastEmitted, Finally, AcquireQueued, BeginPublish, DirRegistered, vars
<1>2. ASSUME UNCHANGED <<client, remote, ghost>> PROVE ClientType'
  BY <1>0, <1>2 DEF ClientType, client, remote, ghost
<1>3. ASSUME NEW j \in Jobs, EmitTimeout(j) \/ DirRaises(j) PROVE ClientType'
  BY <1>0, <1>3 DEF EmitTimeout, DirRaises, ClientType, client, remote
<1>4. ASSUME NEW j \in Jobs, Put(j) PROVE ClientType'
  <2>1. inbox' \in [Streams -> Seq(Ended \cup {"None"})]
    <3>0. inbox \in [Streams -> Seq(Ended \cup {"None"})]
      BY <1>0 DEF ClientType
    <3>1. CASE pub[j].i <= Len(queues[j])
      <4> DEFINE s == queues[j][pub[j].i]
                 ev == IF pub[j].step = "event" THEN pub[j].ev ELSE "None"
      <4>1. pub[j].step \in {"event", "end"} /\ pub[j].i >= 1 /\ pub[j].ev \in Ended
        BY <1>4 DEF Put, QueuesAttached
      <4>2. pub[j].i \in Nat /\ queues[j] \in Seq(Streams)
        BY DEF TypeOK, PublishType, RegistryType
      <4>3. s \in Streams /\ ev \in Ended \cup {"None"}
        BY <4>1, <4>2, <3>1
      <4>4. inbox' = [inbox EXCEPT ![s] = Append(@, ev)]
        BY <1>4, <3>1 DEF Put
      <4> HIDE DEF s, ev
      <4> QED
        BY <3>0, <4>3, <4>4
    <3>2. CASE ~(pub[j].i <= Len(queues[j]))
      BY <1>4, <3>0, <3>2 DEF Put
    <3> QED
      BY <3>1, <3>2
  <2> QED
    BY <1>0, <1>4, <2>1 DEF Put, ClientType, remote, ghost
<1>5. ASSUME NEW j \in Jobs, HubEnds(j) PROVE ClientType'
  BY <1>0, <1>5 DEF HubEnds, Ended, ClientType, client, ghost
<1>6. ASSUME NEW s \in Streams, NEW j \in Jobs, Attach(s, j) PROVE ClientType'
  BY <1>0, <1>6 DEF Attach, ClientType, remote
<1>7. ASSUME NEW s \in Streams, Receive(s) \/ Disconnect(s) PROVE ClientType'
  <2>1. at[s] \in Jobs
    BY <1>0, <1>7 DEF Receive, Disconnect, QueuesAttached, ClientType
  <2>2. left' \subseteq Streams /\ jolted' \subseteq Jobs
    BY <1>0, <1>7, <2>1 DEF Receive, Disconnect, Leave, ClientType
  <2>3. inbox' \in [Streams -> Seq(Ended \cup {"None"})]
    <3>0. inbox \in [Streams -> Seq(Ended \cup {"None"})]
      BY <1>0 DEF ClientType
    <3>1. CASE Receive(s)
      <4>1. Tail(inbox[s]) \in Seq(Ended \cup {"None"})
        BY <3>0, <3>1 DEF Receive
      <4>2. inbox' = [inbox EXCEPT ![s] = Tail(@)]
        BY <3>1 DEF Receive
      <4> QED
        BY <3>0, <4>1, <4>2
    <3>2. CASE Disconnect(s)
      BY <3>0, <3>2 DEF Disconnect
    <3> QED
      BY <1>7, <3>1, <3>2
  <2>4. UNCHANGED <<at, remote, timely, late, crossed>>
    BY <1>7 DEF Receive, Disconnect
  <2> QED
    BY <1>0, <2>2, <2>3, <2>4 DEF ClientType, remote
<1>8. ASSUME NEW p \in Pollers, NEW j \in Jobs, Poll(p, j) PROVE ClientType'
  <2>1. crossed' \subseteq Jobs
    BY <1>0, <1>8 DEF Poll, ClientType
  <2>2. hub[j] \in {"running", "complete", "failed"}
    BY <1>0 DEF ClientType
  <2>3. PICK answer \in {hub[j], "lost"} : reply' = [reply EXCEPT ![p] = [job |-> j, status |-> answer]]
    BY <1>8 DEF Poll
  <2>4. reply' \in [Pollers -> {NoReply} \cup [job : Jobs, status : {"running", "lost"} \cup Ended]]
    BY <1>0, <2>2, <2>3 DEF ClientType, Ended
  <2> QED
    BY <1>0, <1>8, <2>1, <2>4 DEF Poll, ClientType, client
<1>9. ASSUME NEW p \in Pollers, PollApply(p) PROVE ClientType'
  BY <1>0, <1>9 DEF PollApply, ClientType, client, ghost
<1> QED
  BY <1>1, <1>2, <1>3, <1>4, <1>5, <1>6, <1>7, <1>8, <1>9 DEF Next, WorkerStep, LoopStep

-----------------------------------------------------------------------------
(* The mail of a worker, and the status of its job. *)

\* What a step leaves alone stays sound.
LEMMA MailKept ==
  ASSUME NEW j \in Jobs, Unposted(j), OnlyFailuresFollow(j), late \subseteq late',
         work'[j] = work[j], mail'[j] = mail[j], pub'[j] = pub[j], status'[j] = status[j]
  PROVE  Unposted(j)' /\ OnlyFailuresFollow(j)'
BY DEF Unposted, OnlyFailuresFollow

\* A worker that posts its first event, or one after everything before has
\* been published.
LEMMA MailPosted ==
  ASSUME TypeOK, NEW j \in Jobs, NEW ev \in {"stage", "complete", "failed"}, NEW w,
         Unposted(j), work[j] \in Early, Post(j, ev), Goto(j, w),
         pub'[j] = pub[j], status'[j] = status[j],
         (ev = "stage" /\ w = "stage") \/ w \in {"end", "except"}
  PROVE  Unposted(j)' /\ OnlyFailuresFollow(j)'
<1>1. mail[j] = <<>> /\ status[j] \in {"none", "pending", "running"} /\ pub[j].step = "idle"
  BY DEF Unposted
<1>2. mail'[j] = <<ev>> /\ work'[j] = w
  BY <1>1 DEF Post, Goto, TypeOK, PublishType, WorkerType
<1> QED
  BY <1>1, <1>2 DEF Unposted, OnlyFailuresFollow, Early, Ended

\* A worker that goes on without posting has been published.
LEMMA MailMoved ==
  ASSUME TypeOK, NEW j \in Jobs, NEW w, Unposted(j), OnlyFailuresFollow(j), Goto(j, w),
         mail'[j] = mail[j], pub'[j] = pub[j], status'[j] \in {status[j], "pending", "running"},
         late \subseteq late',
         \/ mail[j] = <<>> /\ pub[j].step = "idle" /\ status[j] \in {"none", "pending", "running"}
         \/ w \notin Early \cup {"stage"} /\ status'[j] = status[j]
  PROVE  Unposted(j)' /\ OnlyFailuresFollow(j)'
<1>1. work'[j] = w
  BY DEF Goto, TypeOK, WorkerType
<1> QED
  BY <1>1 DEF Unposted, OnlyFailuresFollow, Ended

\* What a worker may still have posted, action by action.
LEMMA MailStep ==
  ASSUME TypeOK, MailSound, ProxyPolled, [Next]_vars
  PROVE  MailSound'
<1> DEFINE Sound(k) == Unposted(k)' /\ OnlyFailuresFollow(k)'
<1>0. /\ \A k \in Jobs : Unposted(k) /\ OnlyFailuresFollow(k)
      /\ DOMAIN work = Jobs /\ DOMAIN mail = Jobs /\ DOMAIN pub = Jobs /\ DOMAIN status = Jobs
      /\ \A k \in Jobs : mail[k] \in Seq({"stage", "complete", "failed"})
  BY DEF MailSound, TypeOK, RegistryType, WorkerType, PublishType
<1>00. (\A k \in Jobs : Sound(k)) => MailSound'
  BY DEF MailSound
<1>1. ASSUME UNCHANGED <<work, mail, pub, status, late>> PROVE MailSound'
  BY <1>0, <1>00, <1>1, MailKept
<1>2. ASSUME NEW j \in Jobs, Sound(j), late \subseteq late',
             \A k \in Jobs \ {j} : /\ work'[k] = work[k] /\ mail'[k] = mail[k]
                                   /\ pub'[k] = pub[k] /\ status'[k] = status[k]
      PROVE  MailSound'
  <2>1. ASSUME NEW k \in Jobs, k # j PROVE Sound(k)
    BY <1>0, <1>2, <2>1, MailKept
  <2> HIDE DEF Sound
  <2> QED
    BY <1>00, <1>2, <2>1
<1>3. ASSUME NEW j \in Jobs, Create(j) PROVE MailSound'
  <2>1. /\ Goto(j, "create") /\ work[j] = "none" /\ UNCHANGED <<mail, pub, late>>
        /\ status' = [status EXCEPT ![j] = "pending"]
    BY <1>3 DEF Create, ghost
  <2>2. mail[j] = <<>> /\ pub[j].step = "idle" /\ status[j] \in {"none", "pending", "running"}
    BY <1>0, <2>1 DEF Unposted, Early
  <2>3. status'[j] = "pending"
    BY <1>0, <2>1
  <2>4. Sound(j)
    BY <1>0, <2>1, <2>2, <2>3, MailMoved
  <2> QED
    BY <1>0, <1>2, <2>1, <2>4 DEF Goto
<1>4. ASSUME NEW j \in Jobs, Launch(j) \/ LaunchProxy(j) PROVE MailSound'
  <2>1. /\ work[j] = "create" /\ UNCHANGED <<mail, pub, late>>
        /\ Goto(j, "launched") \/ Goto(j, "done")
        /\ status' = status \/ status' = [status EXCEPT ![j] = "running"]
    BY <1>4 DEF Launch, LaunchProxy, Created, record, ghost
  <2>2. mail[j] = <<>> /\ pub[j].step = "idle" /\ status[j] \in {"none", "pending", "running"}
    BY <1>0, <2>1 DEF Unposted, Early
  <2>3. status'[j] \in {status[j], "running"}
    BY <1>0, <2>1
  <2>4. Sound(j)
    BY <1>0, <2>1, <2>2, <2>3, MailMoved
  <2> QED
    BY <1>0, <1>2, <2>1, <2>4 DEF Goto
<1>5. ASSUME NEW j \in Jobs, PruneKey(j) PROVE MailSound'
  <2>0. PICK h : h = Head(snap[j])
    OBVIOUS
  <2>1. /\ work[j] = "create" /\ UNCHANGED <<mail, pub, late>>
        /\ UNCHANGED work \/ (Goto(j, "raised") /\ UNCHANGED status)
        /\ UNCHANGED status \/ (status[h] \in Ended /\ status' = [status EXCEPT ![h] = "gone"])
    BY <1>5, <2>0 DEF PruneKey, Evictable, ghost
  <2>2. CASE Goto(j, "raised") /\ UNCHANGED status
    <3>1. mail[j] = <<>> /\ pub[j].step = "idle" /\ status[j] \in {"none", "pending", "running"}
      BY <1>0, <2>1 DEF Unposted, Early
    <3>2. Sound(j)
      BY <1>0, <2>1, <2>2, <3>1, MailMoved
    <3> QED
      BY <1>0, <1>2, <2>1, <2>2, <3>2 DEF Goto
  <2>3. CASE UNCHANGED work /\ status[h] \in Ended /\ status' = [status EXCEPT ![h] = "gone"]
    <3>1. h \in Jobs
      BY <1>5, <2>0 DEF PruneKey, TypeOK, RegistryType
    <3>2. Sound(h)
      BY <1>0, <2>1, <2>3, <3>1 DEF Unposted, OnlyFailuresFollow, Ended
    <3> QED
      BY <1>0, <1>2, <2>1, <2>3, <3>1, <3>2
  <2> QED
    BY <2>1, <2>2, <2>3, <1>1
<1>6. ASSUME NEW j \in Jobs,
             \/ Start(j) \/ AcquireQueued(j) \/ CancelQueued(j) \/ Fail(j)
             \/ \E stored \in BOOLEAN : Complete(j, stored)
      PROVE  MailSound'
  <2>1. work[j] \in Early /\ UNCHANGED <<pub, status, late>>
    BY <1>6 DEF Start, AcquireQueued, CancelQueued, Fail, Complete, Early, record, ghost
  <2>2. PICK ev \in {"stage", "complete", "failed"} :
          \E w : Post(j, ev) /\ Goto(j, w) /\ ((ev = "stage" /\ w = "stage") \/ w \in {"end", "except"})
    BY <1>6 DEF Start, AcquireQueued, CancelQueued, Fail, Complete
  <2>3. PICK w : Post(j, ev) /\ Goto(j, w) /\ ((ev = "stage" /\ w = "stage") \/ w \in {"end", "except"})
    BY <2>2
  <2>4. Sound(j)
    BY <1>0, <2>1, <2>3, MailPosted
  <2> QED
    BY <1>0, <1>2, <2>1, <2>3, <2>4 DEF Post, Goto
<1>7. ASSUME NEW j \in Jobs, StageEmitted(j) PROVE MailSound'
  <2>1. work[j] = "stage" /\ UNCHANGED <<mail, pub, status, late>> /\ mail[j] = <<>> /\ \E w : Goto(j, w)
    BY <1>7 DEF StageEmitted, Published, record, ghost
  <2>2. mail[j] = <<>> /\ pub[j].step = "idle" /\ status[j] \in {"none", "pending", "running"}
    BY <1>0, <2>1 DEF Unposted
  <2>3. PICK w : Goto(j, w)
    BY <2>1
  <2>4. Sound(j)
    BY <1>0, <2>1, <2>2, <2>3, MailMoved
  <2> QED
    BY <1>0, <1>2, <2>1, <2>3, <2>4 DEF Goto
<1>8. ASSUME NEW j \in Jobs, LastEmitted(j) PROVE MailSound'
  <2>1. UNCHANGED <<mail, pub, status, late>> /\ Goto(j, "finally")
    BY <1>8 DEF LastEmitted, record, ghost
  <2>2. Sound(j)
    BY <1>0, <2>1, MailMoved DEF Early
  <2> QED
    BY <1>0, <1>2, <2>1, <2>2 DEF Goto
\* A worker whose emit has timed out or raised posts the failure.
<1>16. ASSUME NEW j \in Jobs, UNCHANGED status, late' = late \cup {j},
              Goto(j, "except"), Post(j, "failed"),
              \A k \in Jobs \ {j} : pub'[k] = pub[k]
       PROVE  MailSound'
  <2>1. /\ mail'[j] = Append(mail[j], "failed") /\ work'[j] = "except"
        /\ mail[j] \in Seq({"stage", "complete", "failed"})
    BY <1>0, <1>16 DEF Post, Goto
  <2>2. /\ DOMAIN mail'[j] = 1..Len(mail[j]) + 1 /\ mail'[j][Len(mail[j]) + 1] = "failed"
        /\ \A i \in 1..Len(mail[j]) : mail'[j][i] = mail[j][i]
    BY <2>1
  <2>3. Unposted(j)'
    BY <2>1 DEF Unposted, Early
  <2>4. OnlyFailuresFollow(j)'
    <3>1. ASSUME NEW i \in DOMAIN mail'[j], NEW k \in DOMAIN mail'[j], i < k, mail'[j][i] \in Ended
          PROVE  mail'[j][k] = "failed" /\ j \in late'
      <4>1. i \in 1..Len(mail[j])
        BY <3>1, <2>1, <2>2
      <4>2. CASE k \in 1..Len(mail[j])
        BY <4>1, <4>2, <3>1, <2>1, <2>2, <1>0, <1>16 DEF OnlyFailuresFollow
      <4> QED
        BY <4>1, <4>2, <3>1, <2>1, <2>2, <1>16
    <3>2. ASSUME status[j] \in Ended, NEW k \in DOMAIN mail'[j] PROVE mail'[j][k] = "failed"
      <4>1. CASE k \in 1..Len(mail[j])
        BY <3>2, <4>1, <2>1, <2>2, <1>0 DEF OnlyFailuresFollow
      <4> QED
        BY <4>1, <3>2, <2>1, <2>2
    <3> QED
      BY <3>1, <3>2, <1>16 DEF OnlyFailuresFollow
  <2> QED
    BY <1>0, <1>2, <1>16, <2>3, <2>4 DEF Goto, Post
<1>9. ASSUME NEW j \in Jobs, EmitTimeout(j) PROVE MailSound'
  <2>1. UNCHANGED <<pub, status>> /\ late' = late \cup {j}
    BY <1>9 DEF EmitTimeout, record
  <2>2. CASE Goto(j, "finally") /\ UNCHANGED mail
    <3>1. Sound(j)
      BY <1>0, <2>1, <2>2, MailMoved DEF Early
    <3> QED
      BY <1>0, <1>2, <2>1, <2>2, <3>1 DEF Goto
  <2>3. CASE Goto(j, "except") /\ Post(j, "failed")
    BY <1>16, <2>1, <2>3
  <2> QED
    BY <1>9, <2>2, <2>3 DEF EmitTimeout
<1>10. ASSUME NEW j \in Jobs, Finally(j) PROVE MailSound'
  <2>1. UNCHANGED <<pub, status, late>> /\ Goto(j, "done") /\ (mail' = mail \/ mail' = [mail EXCEPT ![j] = <<>>])
    BY <1>10 DEF Finally, record, ghost
  <2>2. mail'[j] = mail[j] \/ mail'[j] = <<>>
    BY <1>0, <2>1
  <2>3. work'[j] = "done"
    BY <1>0, <2>1 DEF Goto
  <2>4. Sound(j)
    BY <1>0, <2>1, <2>2, <2>3 DEF Unposted, OnlyFailuresFollow, Early
  <2> QED
    BY <1>0, <1>2, <2>1, <2>4 DEF Goto
<1>11. ASSUME NEW j \in Jobs, BeginPublish(j) PROVE MailSound'
  <2> DEFINE ev == Head(mail[j])
  <2>1. /\ mail[j] # <<>> /\ mail' = [mail EXCEPT ![j] = Tail(@)] /\ UNCHANGED <<work, late>>
        /\ status' = IF status[j] = "gone" THEN status
                     ELSE [status EXCEPT ![j] = IF ev = "stage" THEN "running" ELSE ev]
        /\ ev = "stage" => pub' = pub
        /\ \A k \in Jobs \ {j} : pub'[k] = pub[k]
    BY <1>0, <1>11 DEF BeginPublish, worker, ghost
  <2>2. /\ Len(mail[j]) >= 1 /\ mail[j][1] = ev /\ mail'[j] = Tail(mail[j])
        /\ Tail(mail[j]) \in Seq({"stage", "complete", "failed"})
        /\ \A i \in DOMAIN mail'[j] : i + 1 \in DOMAIN mail[j] /\ mail'[j][i] = mail[j][i + 1]
        /\ \A i \in DOMAIN mail'[j] : i \in Nat /\ i >= 1
        /\ 1 \in DOMAIN mail[j]
    BY <1>0, <2>1
  <2>3. /\ status'[j] = IF status[j] = "gone" THEN "gone" ELSE IF ev = "stage" THEN "running" ELSE ev
        /\ \A k \in Jobs \ {j} : status'[k] = status[k]
    BY <1>0, <2>1
  <2> HIDE DEF ev
  <2>4. Unposted(j) /\ OnlyFailuresFollow(j)
    BY <1>0
  <2>5. work[j] \notin Early /\ (work[j] = "stage" => ev = "stage")
    BY <2>1, <2>2, <2>4 DEF Unposted
  <2>6. Unposted(j)'
    <3>1. CASE work[j] = "stage"
      BY <2>1, <2>2, <2>3, <2>4, <2>5, <3>1 DEF Unposted, Early
    <3>2. CASE work[j] # "stage"
      BY <2>1, <2>5, <3>2 DEF Unposted
    <3> QED
      BY <3>1, <3>2
  <2>7. OnlyFailuresFollow(j)'
    <3>1. ASSUME NEW i \in DOMAIN mail'[j], NEW k \in DOMAIN mail'[j], i < k, mail'[j][i] \in Ended
          PROVE  mail'[j][k] = "failed" /\ (mail'[j][i] = "complete" => j \in late')
      <4>1. i + 1 < k + 1
        BY <3>1, <2>2
      <4> QED
        BY <4>1, <3>1, <2>1, <2>2, <2>4 DEF OnlyFailuresFollow
    <3>2. ASSUME status'[j] \in Ended, NEW k \in DOMAIN mail'[j]
          PROVE  mail'[j][k] = "failed" /\ (status'[j] = "complete" => j \in late')
      <4>1. ev \in Ended /\ status'[j] = ev
        BY <3>2, <2>3 DEF Ended
      <4>2. 1 < k + 1
        BY <3>2, <2>2
      <4> QED
        BY <4>1, <4>2, <3>2, <2>1, <2>2, <2>4 DEF OnlyFailuresFollow
    <3>3. mail'[j] # <<>> => \E k \in DOMAIN mail'[j] : TRUE
      BY <2>2
    <3>4. status'[j] = "complete" /\ mail'[j] # <<>> => j \in late'
      BY <3>2, <3>3 DEF Ended
    <3> QED
      BY <3>1, <3>2, <3>4 DEF OnlyFailuresFollow
  <2> QED
    BY <1>0, <1>2, <2>1, <2>3, <2>6, <2>7
<1>12. ASSUME NEW j \in Jobs, DirRegistered(j) \/ Put(j) PROVE MailSound'
  <2>1. /\ pub[j].step # "idle" /\ UNCHANGED <<work, mail, status, late>>
        /\ \A k \in Jobs \ {j} : pub'[k] = pub[k]
    BY <1>0, <1>12 DEF DirRegistered, Put, worker, record, ghost
  <2>2. work[j] \notin Early \cup {"stage"}
    BY <1>0, <2>1 DEF Unposted
  <2>3. Sound(j)
    BY <1>0, <2>1, <2>2 DEF Unposted, OnlyFailuresFollow
  <2> QED
    BY <1>2, <2>1, <2>3
<1>17. ASSUME NEW j \in Jobs, DirRaises(j) PROVE MailSound'
  <2>1. /\ pub[j].step # "idle" /\ UNCHANGED status /\ late' = late \cup {j}
        /\ \A k \in Jobs \ {j} : pub'[k] = pub[k]
    BY <1>0, <1>17 DEF DirRaises, record
  <2>2. CASE Goto(j, "except") /\ Post(j, "failed")
    BY <1>16, <2>1, <2>2
  <2>3. CASE UNCHANGED <<work, mail>>
    <3>1. work[j] \notin Early \cup {"stage"}
      BY <1>0, <2>1 DEF Unposted
    <3>2. Sound(j)
      BY <1>0, <2>1, <2>3, <3>1 DEF Unposted, OnlyFailuresFollow
    <3> QED
      BY <1>2, <2>1, <2>3, <3>2
  <2> QED
    BY <1>17, <2>2, <2>3 DEF DirRaises
<1>13. ASSUME NEW p \in Pollers, PollApply(p) PROVE MailSound'
  <2>0. PICK j : j = reply[p].job
    OBVIOUS
  <2>1. j \in Jobs /\ kind[j] = "ask_hub" /\ work[j] = "done" /\ mail[j] = <<>>
    BY <1>13, <2>0 DEF PollApply, ProxyPolled, TypeOK, ClientType
  <2>2. UNCHANGED <<work, mail, pub, late>> /\ \A k \in Jobs \ {j} : status'[k] = status[k]
    BY <1>0, <1>13, <2>0 DEF PollApply, worker, ghost
  <2>3. work'[j] = "done" /\ mail'[j] = <<>>
    BY <2>1, <2>2
  <2>4. Sound(j)
    BY <2>3 DEF Unposted, OnlyFailuresFollow, Early
  <2> QED
    BY <1>2, <2>1, <2>2, <2>4
<1>14. ASSUME \/ \E j \in Jobs : SetEvent(j) \/ HubEnds(j)
              \/ \E s \in Streams : Receive(s) \/ Disconnect(s)
              \/ \E s \in Streams, j \in Jobs : Attach(s, j)
              \/ \E p \in Pollers, j \in Jobs : Poll(p, j)
              \/ UNCHANGED vars
       PROVE  UNCHANGED <<work, mail, pub, status, late>>
  BY <1>14 DEF SetEvent, HubEnds, Receive, Disconnect, Attach, Poll, vars, record, worker, ghost
<1>15. ASSUME NEW j \in Jobs, Run(j) PROVE MailSound'
  BY <1>6, <1>15 DEF Run, Transcribed, Recorded, Summarized, Migrated, Answered
<1> QED
  BY <1>1, <1>3, <1>4, <1>5, <1>6, <1>7, <1>8, <1>9, <1>10, <1>11, <1>12, <1>13, <1>14, <1>15,
     <1>17
  DEF Next, RouteStep, WorkerStep, LoopStep

-----------------------------------------------------------------------------
(* Polls, and results. *)

\* Only the one poll under way writes to a proxied ask that is not crossed.
LEMMA ProxyStep ==
  ASSUME TypeOK, MailSound, ProxyPolled, [Next]_vars
  PROVE  ProxyPolled'
<1> DEFINE Alone(j) == work[j] \in {"none", "create", "raised", "done"} /\ mail[j] = <<>>
           Proxies == \A j \in Jobs : kind[j] = "ask_hub" => Alone(j)
           Asked(p) == reply[p] # NoReply =>
             /\ kind[reply[p].job] = "ask_hub" /\ work[reply[p].job] = "done"
             /\ reply[p].job \notin crossed => status[reply[p].job] = "running"
           Single == \A p, q \in Pollers :
             reply[p] # NoReply /\ reply[q] # NoReply /\ reply[p].job = reply[q].job
               /\ reply[p].job \notin crossed => p = q
<1>0. /\ Proxies /\ (\A p \in Pollers : Asked(p)) /\ Single
      /\ DOMAIN work = Jobs /\ DOMAIN mail = Jobs /\ DOMAIN status = Jobs
      /\ \A p \in Pollers : reply[p] # NoReply => reply[p].job \in Jobs
  BY DEF ProxyPolled, TypeOK, RegistryType, WorkerType, PublishType, ClientType
<1>00. Proxies' /\ (\A p \in Pollers : Asked(p)') /\ Single' => ProxyPolled'
  BY DEF ProxyPolled
\* A step of a worker whose job is no proxied ask.
<1>1. ASSUME NEW j \in Jobs, kind[j] # "ask_hub", UNCHANGED <<kind, reply, crossed>>,
             \A k \in Jobs \ {j} : /\ work'[k] = work[k] /\ mail'[k] = mail[k]
                                   /\ status'[k] = status[k]
      PROVE  ProxyPolled'
  <2>1. Proxies'
    BY <1>0, <1>1
  <2>2. ASSUME NEW p \in Pollers PROVE Asked(p)'
    BY <1>0, <1>1
  <2>3. Single'
    BY <1>0, <1>1
  <2> QED
    BY <1>00, <2>1, <2>2, <2>3
\* A step of the route of a job no poller has asked for.
<1>2. ASSUME NEW j \in Jobs, work[j] # "done", UNCHANGED <<kind, reply, crossed, mail>>,
             \E w \in {"create", "raised", "launched", "done"} :
               Goto(j, w) /\ (kind[j] = "ask_hub" => w # "launched"),
             \A k \in Jobs \ {j} : status'[k] = status[k]
      PROVE  ProxyPolled'
  <2>1. Proxies'
    BY <1>0, <1>2 DEF Goto
  <2>2. ASSUME NEW p \in Pollers PROVE Asked(p)'
    BY <1>0, <1>2 DEF Goto
  <2>3. Single'
    BY <1>0, <1>2
  <2> QED
    BY <1>00, <2>1, <2>2, <2>3
<1>3. ASSUME UNCHANGED <<kind, reply, crossed, work, mail, status>> PROVE ProxyPolled'
  <2>1. Proxies' /\ Single' /\ \A p \in Pollers : Asked(p)'
    BY <1>0, <1>3
  <2> QED
    BY <1>00, <2>1
<1>4. ASSUME NEW j \in Jobs, Create(j) \/ Launch(j) \/ LaunchProxy(j) PROVE ProxyPolled'
  <2>1. work[j] # "done" /\ UNCHANGED <<kind, reply, crossed, mail>>
    BY <1>4 DEF Create, Launch, LaunchProxy, Created, record, remote, ghost
  <2>2. \E w \in {"create", "raised", "launched", "done"} :
          Goto(j, w) /\ (kind[j] = "ask_hub" => w # "launched")
    BY <1>4 DEF Create, Launch, LaunchProxy
  <2>3. \A k \in Jobs \ {j} : status'[k] = status[k]
    BY <1>0, <1>4 DEF Create, Launch, LaunchProxy, record
  <2> QED
    BY <1>2, <2>1, <2>2, <2>3
<1>5. ASSUME NEW j \in Jobs, PruneKey(j) PROVE ProxyPolled'
  <2>0. PICK h : h = Head(snap[j])
    OBVIOUS
  <2>1. /\ work[j] = "create" /\ UNCHANGED <<kind, reply, crossed, mail>>
        /\ UNCHANGED work \/ (Goto(j, "raised") /\ UNCHANGED status)
        /\ UNCHANGED status \/ (status[h] \in Ended /\ status' = [status EXCEPT ![h] = "gone"])
    BY <1>5, <2>0 DEF PruneKey, Evictable, remote, ghost
  <2>2. CASE Goto(j, "raised") /\ UNCHANGED status
    BY <1>2, <2>1, <2>2
  <2>3. CASE UNCHANGED work /\ status[h] \in Ended /\ status' = [status EXCEPT ![h] = "gone"]
    <3>1. Proxies' /\ Single'
      BY <1>0, <2>1, <2>3
    <3>2. ASSUME NEW p \in Pollers PROVE Asked(p)'
      BY <1>0, <2>1, <2>3 DEF Ended
    <3> QED
      BY <1>00, <3>1, <3>2
  <2> QED
    BY <1>3, <2>1, <2>2, <2>3
<1>6. ASSUME NEW j \in Jobs, WorkerStep(j) \/ AcquireQueued(j) PROVE ProxyPolled'
  <2>1. kind[j] # "ask_hub"
    BY <1>0, <1>6 DEF WorkerStep, Start, StageEmitted, CancelQueued, Run, Transcribed, Recorded,
       Summarized, Migrated, Answered, Complete, Fail, LastEmitted, EmitTimeout, Finally,
       AcquireQueued
  <2>2. UNCHANGED <<kind, reply, crossed, status>>
    BY <1>6 DEF WorkerStep, Start, StageEmitted, CancelQueued, Run, Transcribed, Recorded,
       Summarized, Migrated, Answered, Complete, Fail, LastEmitted, EmitTimeout, Finally,
       AcquireQueued, record, remote, ghost
  <2>3. \A k \in Jobs \ {j} : work'[k] = work[k]
    BY <1>0, <1>6 DEF WorkerStep, Start, StageEmitted, CancelQueued, Run, Transcribed, Recorded,
       Summarized, Migrated, Answered, Complete, Fail, LastEmitted, EmitTimeout, Finally,
       AcquireQueued, Goto
  <2>4. \A k \in Jobs \ {j} : mail'[k] = mail[k]
    BY <1>0, <1>6 DEF WorkerStep, Start, StageEmitted, CancelQueued, Run, Transcribed, Recorded,
       Summarized, Migrated, Answered, Complete, Fail, LastEmitted, EmitTimeout, Finally,
       AcquireQueued, Post
  <2> QED
    BY <1>1, <2>1, <2>2, <2>3, <2>4
<1>7. ASSUME NEW j \in Jobs, BeginPublish(j) PROVE ProxyPolled'
  <2>1. kind[j] # "ask_hub"
    BY <1>0, <1>7 DEF BeginPublish
  <2>2. UNCHANGED <<kind, reply, crossed, work>>
    BY <1>7 DEF BeginPublish, worker, remote, ghost
  <2>3. \A k \in Jobs \ {j} : mail'[k] = mail[k] /\ status'[k] = status[k]
    BY <1>0, <1>7 DEF BeginPublish
  <2> QED
    BY <1>1, <2>1, <2>2, <2>3
<1>8. ASSUME NEW p \in Pollers, NEW j \in Jobs, Poll(p, j) PROVE ProxyPolled'
  <2>1. /\ reply[p] = NoReply /\ kind[j] = "ask_hub" /\ work[j] = "done" /\ status[j] = "running"
        /\ UNCHANGED <<kind, work, mail, status>>
    BY <1>8 DEF Poll, record, worker
  <2>2. PICK answer : reply' = [reply EXCEPT ![p] = [job |-> j, status |-> answer]]
    BY <1>8 DEF Poll
  <2>3. /\ reply'[p].job = j
        /\ \A q \in Pollers \ {p} : reply'[q] = reply[q]
    BY <2>2 DEF TypeOK, ClientType
  <2>4. /\ crossed \subseteq crossed'
        /\ (\E q \in Pollers : reply[q] # NoReply /\ reply[q].job = j) => j \in crossed'
    BY <1>8 DEF Poll
  <2>5. Proxies'
    BY <1>0, <2>1
  <2>6. ASSUME NEW q \in Pollers PROVE Asked(q)'
    BY <1>0, <2>1, <2>3, <2>4
  <2>7. Single'
    BY <1>0, <2>1, <2>3, <2>4
  <2> QED
    BY <1>00, <2>5, <2>6, <2>7
<1>9. ASSUME NEW p \in Pollers, PollApply(p) PROVE ProxyPolled'
  <2>0. PICK j : j = reply[p].job
    OBVIOUS
  <2>1. /\ reply[p] # NoReply /\ UNCHANGED <<kind, work, mail, crossed>>
        /\ reply' = [reply EXCEPT ![p] = NoReply]
        /\ \A k \in Jobs \ {j} : status'[k] = status[k]
    BY <1>0, <1>9, <2>0 DEF PollApply, worker, ghost
  <2>2. reply'[p] = NoReply /\ \A q \in Pollers \ {p} : reply'[q] = reply[q]
    BY <2>1 DEF TypeOK, ClientType
  <2>3. Proxies' /\ Single'
    BY <1>0, <2>1, <2>2
  <2>4. ASSUME NEW q \in Pollers PROVE Asked(q)'
    BY <1>0, <2>0, <2>1, <2>2
  <2> QED
    BY <1>00, <2>3, <2>4
<1>10. ASSUME \/ \E j \in Jobs : SetEvent(j) \/ HubEnds(j) \/ DirRegistered(j) \/ Put(j)
              \/ \E s \in Streams : Receive(s) \/ Disconnect(s)
              \/ \E s \in Streams, j \in Jobs : Attach(s, j)
              \/ UNCHANGED vars
       PROVE  UNCHANGED <<kind, reply, crossed, work, mail, status>>
  BY <1>10 DEF SetEvent, HubEnds, DirRegistered, Put, Receive, Disconnect, Attach, vars, record,
     worker, remote, ghost
<1>11. ASSUME NEW j \in Jobs, DirRaises(j) PROVE ProxyPolled'
  <2>1. UNCHANGED <<kind, reply, crossed, status>>
    BY <1>11 DEF DirRaises, record, remote
  <2>2. CASE UNCHANGED <<work, mail>>
    BY <1>3, <2>1, <2>2
  <2>3. CASE work[j] = "end" /\ Goto(j, "except") /\ Post(j, "failed")
    <3>1. kind[j] # "ask_hub"
      BY <1>0, <2>3
    <3>2. \A k \in Jobs \ {j} : work'[k] = work[k] /\ mail'[k] = mail[k] /\ status'[k] = status[k]
      BY <1>0, <2>1, <2>3 DEF Goto, Post
    <3> QED
      BY <1>1, <2>1, <3>1, <3>2
  <2> QED
    BY <1>11, <2>2, <2>3 DEF DirRaises
<1> QED
  BY <1>3, <1>4, <1>5, <1>6, <1>7, <1>8, <1>9, <1>10, <1>11 DEF Next, RouteStep, LoopStep

\* What a step leaves alone keeps its result; a mail that gets no complete
\* event and a status that does not become complete ask for nothing.
LEMMA ResultStep ==
  ASSUME TypeOK, MailSound, ProxyPolled, ResultStored, [Next]_vars
  PROVE  ResultStored'
<1> DEFINE Ask(j) == kind[j] \in {"ask", "migrate"}
           Due(j) == status[j] = "complete" \/ Contains(mail[j], "complete")
           Hub(j) == kind[j] = "ask_hub" /\ j \notin crossed /\ status[j] = "complete"
           Stored(j) == (Ask(j) /\ Due(j)) \/ Hub(j) => result[j]
<1>0. /\ \A j \in Jobs : Stored(j)
      /\ DOMAIN status = Jobs /\ DOMAIN mail = Jobs /\ DOMAIN result = Jobs
      /\ \A j \in Jobs : mail[j] \in Seq({"stage", "complete", "failed"})
      /\ kind \in [Jobs -> Kinds]
  BY DEF ResultStored, AnswerBeforeComplete, Answers, TypeOK, RegistryType, PublishType
<1>00. (\A j \in Jobs : Stored(j)') => ResultStored'
  BY DEF ResultStored, AnswerBeforeComplete, Answers
<1>1. ASSUME UNCHANGED <<kind, result>>, crossed \subseteq crossed',
             \A j \in Jobs : (status'[j] = "complete" => status[j] = "complete")
                             /\ (Contains(mail'[j], "complete") => Contains(mail[j], "complete"))
      PROVE  ResultStored'
  BY <1>0, <1>00, <1>1
<1>2. ASSUME NEW j \in Jobs, NEW ev \in {"stage", "failed"}, Post(j, ev)
      PROVE  \A k \in Jobs : Contains(mail'[k], "complete") => Contains(mail[k], "complete")
  <2>1. /\ mail'[j] = Append(mail[j], ev) /\ mail[j] \in Seq({"stage", "complete", "failed"})
        /\ \A k \in Jobs \ {j} : mail'[k] = mail[k]
    BY <1>0, <1>2 DEF Post
  <2>2. Contains(mail'[j], "complete") => Contains(mail[j], "complete")
    BY <2>1 DEF Contains
  <2> QED
    BY <2>1, <2>2
<1>3. ASSUME NEW j \in Jobs, \/ Create(j) \/ RouteStep(j) \/ SetEvent(j) \/ StageEmitted(j)
                             \/ LastEmitted(j) \/ DirRegistered(j) \/ Put(j) \/ HubEnds(j)
      PROVE  ResultStored'
  <2>1. UNCHANGED <<kind, result, crossed, mail>>
    BY <1>3 DEF Create, RouteStep, PruneKey, Launch, LaunchProxy, SetEvent, StageEmitted,
       LastEmitted, DirRegistered, Put, HubEnds, record, ghost
  <2>2. \/ UNCHANGED status
        \/ \E k, st : status' = [status EXCEPT ![k] = st] /\ st \in {"pending", "gone", "running"}
    <3>1. CASE PruneKey(j)
      BY <3>1 DEF PruneKey
    <3> QED
      BY <1>3, <3>1 DEF Create, RouteStep, Launch, LaunchProxy, SetEvent, StageEmitted,
         LastEmitted, DirRegistered, Put, HubEnds, record
  <2>3. \A k \in Jobs : status'[k] = "complete" => status[k] = "complete"
    BY <1>0, <2>2
  <2> QED
    BY <1>1, <2>1, <2>3
<1>4. ASSUME NEW j \in Jobs, \/ Start(j) \/ AcquireQueued(j) \/ CancelQueued(j) \/ Fail(j)
                             \/ EmitTimeout(j) \/ DirRaises(j)
      PROVE  ResultStored'
  <2>1. UNCHANGED <<kind, result, crossed, status>>
    BY <1>4 DEF Start, AcquireQueued, CancelQueued, Fail, EmitTimeout, DirRaises, record, ghost
  <2>2. UNCHANGED mail \/ Post(j, "stage") \/ Post(j, "failed")
    BY <1>4 DEF Start, AcquireQueued, CancelQueued, Fail, EmitTimeout, DirRaises
  <2> QED
    BY <1>1, <1>2, <2>1, <2>2
<1>5. ASSUME NEW j \in Jobs, Finally(j) PROVE ResultStored'
  <2>1. UNCHANGED <<kind, result, crossed, status>>
    BY <1>5 DEF Finally, record, ghost
  <2>2. \A k \in Jobs : mail'[k] = mail[k] \/ mail'[k] = <<>>
    BY <1>0, <1>5 DEF Finally
  <2>3. ~Contains(<<>>, "complete")
    BY DEF Contains
  <2> QED
    BY <1>1, <2>1, <2>2, <2>3
<1>6. ASSUME NEW j \in Jobs, NEW stored \in BOOLEAN, Complete(j, stored), Ask(j) => stored
      PROVE  ResultStored'
  <2>1. /\ result' = [result EXCEPT ![j] = stored] /\ UNCHANGED <<kind, status, crossed>>
        /\ \A k \in Jobs \ {j} : mail'[k] = mail[k]
        /\ work[j] = "run"
    BY <1>0, <1>6 DEF Complete, Post, ghost
  <2>2. kind[j] # "ask_hub"
    BY <2>1 DEF ProxyPolled
  <2>3. result'[j] = stored /\ \A k \in Jobs \ {j} : result'[k] = result[k]
    BY <1>0, <2>1
  <2>4. Stored(j)'
    BY <1>6, <2>1, <2>2, <2>3
  <2>5. ASSUME NEW k \in Jobs \ {j} PROVE Stored(k)'
    BY <1>0, <2>1, <2>3
  <2> QED
    BY <1>00, <2>4, <2>5
<1>7. ASSUME NEW j \in Jobs, Run(j) PROVE ResultStored'
  <2>1. Transcribed(j) \/ Recorded(j) \/ Summarized(j) => ~Ask(j) /\ Complete(j, FALSE)
    BY DEF Transcribed, Transcribes, Recorded, Summarized
  <2>2. Migrated(j) \/ Answered(j) => Complete(j, TRUE)
    BY DEF Migrated, Answered
  <2> QED
    BY <1>4, <1>6, <1>7, <2>1, <2>2 DEF Run
<1>8. ASSUME NEW j \in Jobs, BeginPublish(j) PROVE ResultStored'
  <2>1. /\ UNCHANGED <<kind, result, crossed>> /\ mail[j] # <<>>
        /\ mail' = [mail EXCEPT ![j] = Tail(@)]
        /\ status' = IF status[j] = "gone" THEN status
                     ELSE [status EXCEPT ![j] = IF Head(mail[j]) = "stage" THEN "running"
                                                ELSE Head(mail[j])]
    BY <1>8 DEF BeginPublish, ghost
  <2>2. kind[j] # "ask_hub"
    BY <2>1 DEF ProxyPolled
  <2>3. /\ \A k \in Jobs \ {j} : status'[k] = status[k] /\ mail'[k] = mail[k]
        /\ mail'[j] = Tail(mail[j])
        /\ status'[j] = "complete" => Head(mail[j]) = "complete"
    BY <1>0, <2>1
  <2>4. Due(j)' => Contains(mail[j], "complete")
    BY <1>0, <2>1, <2>3 DEF Contains
  <2>5. Stored(j)'
    BY <1>0, <2>1, <2>2, <2>4
  <2>6. ASSUME NEW k \in Jobs \ {j} PROVE Stored(k)'
    BY <1>0, <2>1, <2>3
  <2> QED
    BY <1>00, <2>5, <2>6
<1>9. ASSUME NEW p \in Pollers, PollApply(p) PROVE ResultStored'
  <2>0. PICK r : r = reply[p]
    OBVIOUS
  <2>1. /\ r \in [job : Jobs, status : {"running", "lost"} \cup Ended]
        /\ kind[r.job] = "ask_hub" /\ (r.job \notin crossed => status[r.job] = "running")
    BY <1>9, <2>0 DEF PollApply, ProxyPolled, TypeOK, ClientType
  <2>2. /\ UNCHANGED <<kind, mail, crossed>>
        /\ result' = IF r.status = "lost" THEN result
                     ELSE [result EXCEPT ![r.job] = r.status = "complete"]
        /\ status' = IF r.status = "running" \/ status[r.job] = "gone" THEN status
                     ELSE [status EXCEPT ![r.job] =
                             IF r.status = "complete" THEN "complete" ELSE "failed"]
    BY <1>9, <2>0 DEF PollApply, ghost
  <2>3. \A k \in Jobs \ {r.job} : status'[k] = status[k] /\ result'[k] = result[k]
    BY <1>0, <2>1, <2>2
  <2>4. r.job \notin crossed /\ status'[r.job] = "complete" => r.status = "complete"
    BY <1>0, <2>1, <2>2
  <2>5. r.status = "complete" => result'[r.job]
    BY <1>0, <2>1, <2>2
  <2>6. Stored(r.job)'
    BY <2>1, <2>2, <2>4, <2>5
  <2>7. ASSUME NEW k \in Jobs \ {r.job} PROVE Stored(k)'
    BY <1>0, <2>2, <2>3
  <2> QED
    BY <1>00, <2>6, <2>7
<1>10. ASSUME \/ \E s \in Streams : Receive(s) \/ Disconnect(s)
              \/ \E s \in Streams, j \in Jobs : Attach(s, j)
              \/ \E p \in Pollers, j \in Jobs : Poll(p, j)
              \/ UNCHANGED vars
       PROVE  ResultStored'
  <2>1. UNCHANGED <<kind, result, mail, status>> /\ crossed \subseteq crossed'
    BY <1>10 DEF Receive, Disconnect, Attach, Poll, vars, record, ghost
  <2> QED
    BY <1>1, <2>1
<1> QED
  BY <1>3, <1>4, <1>5, <1>7, <1>8, <1>9, <1>10 DEF Next, WorkerStep, LoopStep

\* The status of a job that has ended changes only to "gone", or to "failed"
\* after an emit that timed out.
LEMMA StatusStep ==
  ASSUME TypeOK, MailSound, ProxyPolled, [Next]_vars, NEW j \in Jobs \ crossed
  PROVE  /\ status[j] = "failed" => status'[j] \in {"failed", "gone"}
         /\ status[j] = "complete" =>
              \/ status'[j] \in {"complete", "gone"}
              \/ status'[j] = "failed" /\ j \in late
<1> DEFINE Forward == /\ status[j] = "failed" => status'[j] \in {"failed", "gone"}
                      /\ status[j] = "complete" =>
                           \/ status'[j] \in {"complete", "gone"}
                           \/ status'[j] = "failed" /\ j \in late
<1>0. DOMAIN status = Jobs /\ Unposted(j) /\ OnlyFailuresFollow(j)
  BY DEF TypeOK, RegistryType, MailSound
<1>1. ASSUME status'[j] \in {status[j], "gone"} PROVE Forward
  BY <1>1
<1>2. ASSUME NEW k \in Jobs, Create(k) \/ RouteStep(k) PROVE Forward
  <2>1. CASE Create(k) \/ LaunchProxy(k)
    <3>1. CASE k = j
      <4>1. status[j] \notin Ended
        BY <1>0, <2>1, <3>1 DEF Create, LaunchProxy, Created, Unposted, Early, Ended
      <4> QED
        BY <4>1 DEF Ended
    <3>2. CASE k # j
      BY <1>0, <1>1, <2>1, <3>2 DEF Create, LaunchProxy
    <3> QED
      BY <3>1, <3>2
  <2>2. CASE PruneKey(k)
    <3>1. UNCHANGED status \/ \E h : status' = [status EXCEPT ![h] = "gone"]
      BY <2>2 DEF PruneKey
    <3> QED
      BY <1>0, <1>1, <3>1
  <2>3. CASE Launch(k)
    BY <1>1, <2>3 DEF Launch, record
  <2> QED
    BY <1>2, <2>1, <2>2, <2>3 DEF RouteStep
<1>3. ASSUME NEW k \in Jobs, BeginPublish(k) PROVE Forward
  <2>1. CASE k = j
    <3>1. /\ mail[j] # <<>> /\ mail[j] \in Seq({"stage", "complete", "failed"})
          /\ status' = IF status[j] = "gone" THEN status
                       ELSE [status EXCEPT ![j] = IF Head(mail[j]) = "stage" THEN "running"
                                                  ELSE Head(mail[j])]
      BY <1>3, <2>1 DEF BeginPublish, TypeOK, PublishType
    <3>2. 1 \in DOMAIN mail[j] /\ Head(mail[j]) = mail[j][1]
      BY <3>1
    <3>3. status[j] \in Ended => Head(mail[j]) = "failed" /\ (status[j] = "complete" => j \in late)
      BY <1>0, <3>1, <3>2 DEF OnlyFailuresFollow
    <3>4. status[j] \in Ended => status'[j] = "failed"
      BY <1>0, <3>1, <3>3 DEF Ended
    <3> QED
      BY <3>3, <3>4 DEF Ended
  <2>2. CASE k # j
    BY <1>0, <1>1, <1>3, <2>2 DEF BeginPublish
  <2> QED
    BY <2>1, <2>2
<1>4. ASSUME NEW p \in Pollers, PollApply(p) PROVE Forward
  <2>1. CASE reply[p].job = j
    <3>1. status[j] = "running"
      BY <1>4, <2>1 DEF PollApply, ProxyPolled
    <3> QED
      BY <3>1
  <2>2. CASE reply[p].job # j
    BY <1>0, <1>1, <1>4, <2>2 DEF PollApply
  <2> QED
    BY <2>1, <2>2
<1>5. ASSUME \/ \E k \in Jobs : \/ SetEvent(k) \/ WorkerStep(k) \/ AcquireQueued(k) \/ HubEnds(k)
                                \/ DirRegistered(k) \/ DirRaises(k) \/ Put(k)
             \/ \E s \in Streams : Receive(s) \/ Disconnect(s)
             \/ \E s \in Streams, k \in Jobs : Attach(s, k)
             \/ \E p \in Pollers, k \in Jobs : Poll(p, k)
             \/ UNCHANGED vars
      PROVE  Forward
  <2>1. UNCHANGED status
    BY <1>5, ZenonT(60) DEF SetEvent, WorkerStep, Start, StageEmitted, CancelQueued, Run, Transcribed,
       Recorded, Summarized, Migrated, Answered, Complete, Fail, LastEmitted, EmitTimeout,
       Finally, AcquireQueued, HubEnds, DirRegistered, DirRaises, Put, Receive, Disconnect,
       Attach, Poll, vars, record
  <2> QED
    BY <1>1, <2>1
<1> HIDE DEF Forward
<1>6. Forward
  BY <1>2, <1>3, <1>4, <1>5 DEF Next, LoopStep
<1> QED
  BY <1>6 DEF Forward

-----------------------------------------------------------------------------
(* Streams. *)

\* Workers and polls do not touch the streams and what they are put.
LEMMA StreamFrame ==
  ASSUME \/ \E j \in Jobs : \/ Create(j) \/ Launch(j) \/ LaunchProxy(j) \/ SetEvent(j)
                            \/ WorkerStep(j) \/ AcquireQueued(j) \/ HubEnds(j)
         \/ \E p \in Pollers : PollApply(p)
         \/ \E p \in Pollers, j \in Jobs : Poll(p, j)
         \/ UNCHANGED vars
  PROVE  UNCHANGED <<kind, queues, at, left, inbox, pub, timely, jolted>>
BY DEF Create, Launch, LaunchProxy, SetEvent, WorkerStep, Start, StageEmitted, CancelQueued,
   Run, Transcribed, Recorded, Summarized, Migrated, Answered, Complete, Fail, LastEmitted,
   EmitTimeout, Finally, AcquireQueued, HubEnds, Poll, PollApply, vars, record, client, ghost

\* Of a step of publish: the stream that is put to is one of the job's.
LEMMA PutTo ==
  ASSUME TypeOK, QueuesAttached, NEW j \in Jobs, Put(j), pub[j].i <= Len(queues[j])
  PROVE  /\ pub[j].i \in DOMAIN queues[j] /\ queues[j][pub[j].i] \in Streams
         /\ at[queues[j][pub[j].i]] = j
<1>1. pub[j].i \in Nat /\ pub[j].i >= 1 /\ queues[j] \in Seq(Streams)
  BY DEF TypeOK, RegistryType, PublishType, QueuesAttached, Put
<1> QED
  BY <1>1 DEF QueuesAttached

\* A stream is only ever listed under the job it attached to.
LEMMA QueuesStep ==
  ASSUME TypeOK, QueuesAttached, [Next]_vars
  PROVE  QueuesAttached'
<1> DEFINE Attached == \A j \in Jobs : \A i \in DOMAIN queues[j] : at[queues[j][i]] = j
           Boxes == \A s \in Streams : inbox[s] # <<>> => at[s] # NoJob
           Events == \A j \in Jobs : pub[j].step # "idle" => pub[j].ev \in Ended /\ pub[j].i >= 1
<1>0. /\ Attached /\ Boxes /\ Events
      /\ queues \in [Jobs -> Seq(Streams)]
      /\ DOMAIN at = Streams /\ DOMAIN inbox = Streams
      /\ pub \in [Jobs -> [ev : {"none"} \cup Ended, step : {"idle", "dir", "event", "end"},
                           i : Nat]]
  BY DEF QueuesAttached, TypeOK, RegistryType, ClientType, PublishType
<1>00. Attached' /\ Boxes' /\ Events' => QueuesAttached'
  BY DEF QueuesAttached
<1>1. ASSUME UNCHANGED <<queues, at, inbox, pub>> PROVE QueuesAttached'
  BY <1>1 DEF QueuesAttached
<1>2. ASSUME NEW j \in Jobs, PruneKey(j) PROVE QueuesAttached'
  <2>1. /\ UNCHANGED <<at, inbox, pub>>
        /\ UNCHANGED queues \/ \E k : queues' = [queues EXCEPT ![k] = <<>>]
    BY <1>2 DEF PruneKey, client
  <2>2. \A k \in Jobs : queues'[k] = queues[k] \/ queues'[k] = <<>>
    BY <1>0, <2>1
  <2>3. Attached'
    BY <1>0, <2>1, <2>2
  <2> QED
    BY <1>0, <1>00, <2>1, <2>3
<1>3. ASSUME NEW j \in Jobs, BeginPublish(j) PROVE QueuesAttached'
  <2>1. UNCHANGED <<queues, at, inbox>>
    BY <1>3 DEF BeginPublish, client
  <2>2. Head(mail[j]) \in {"stage"} \cup Ended
    BY <1>3 DEF BeginPublish, TypeOK, PublishType, Ended
  <2>3. UNCHANGED pub \/ \E ev \in Ended, step \in {"dir", "event"} :
                           pub' = [pub EXCEPT ![j] = [ev |-> ev, i |-> 1, step |-> step]]
    BY <1>3, <2>2 DEF BeginPublish
  <2>5. ASSUME UNCHANGED pub PROVE Events'
    BY <1>0, <2>5
  <2>6. ASSUME NEW ev \in Ended, NEW step \in {"dir", "event"},
               pub' = [pub EXCEPT ![j] = [ev |-> ev, i |-> 1, step |-> step]]
        PROVE  Events'
    <3>1. pub'[j].ev = ev /\ pub'[j].i = 1 /\ \A k \in Jobs \ {j} : pub'[k] = pub[k]
      BY <1>0, <2>6
    <3> QED
      BY <1>0, <3>1
  <2>4. Events'
    BY <2>3, <2>5, <2>6
  <2> QED
    BY <1>0, <1>00, <2>1, <2>4
<1>9. ASSUME NEW j \in Jobs, DirRaises(j) PROVE QueuesAttached'
  <2>1. UNCHANGED <<queues, at, inbox>> /\ pub' = [pub EXCEPT ![j] = Idle]
    BY <1>9 DEF DirRaises, record, client
  <2>2. Events'
    BY <1>0, <2>1 DEF Idle
  <2> QED
    BY <1>0, <1>00, <2>1, <2>2
<1>4. ASSUME NEW j \in Jobs, DirRegistered(j) PROVE QueuesAttached'
  <2>1. UNCHANGED <<queues, at, inbox>> /\ pub[j].step = "dir" /\ pub' = [pub EXCEPT ![j].step = "event"]
    BY <1>4 DEF DirRegistered, record, client
  <2>2. Events'
    BY <1>0, <2>1
  <2> QED
    BY <1>0, <1>00, <2>1, <2>2
<1>5. ASSUME NEW j \in Jobs, Put(j) PROVE QueuesAttached'
  <2>1. UNCHANGED <<queues, at>> /\ pub[j].step # "idle"
    BY <1>5 DEF Put, record
  <2>2. CASE pub[j].i <= Len(queues[j])
    <3>1. PICK s : s = queues[j][pub[j].i]
      OBVIOUS
    <3>2. s \in Streams /\ at[s] = j
      BY <1>5, <2>2, <3>1, PutTo
    <3>3. pub' = [pub EXCEPT ![j].i = @ + 1] /\ \E ev : inbox' = [inbox EXCEPT ![s] = ev]
      BY <1>5, <2>2, <3>1 DEF Put
    <3>4. Events'
      BY <1>0, <2>1, <3>3
    <3>5. Boxes'
      BY <1>0, <2>1, <3>2, <3>3, JobAssumption
    <3> QED
      BY <1>0, <1>00, <2>1, <3>4, <3>5
  <2>3. CASE ~(pub[j].i <= Len(queues[j]))
    <3>1. /\ UNCHANGED inbox
          /\ \/ pub' = [pub EXCEPT ![j] = [@ EXCEPT !.step = "end", !.i = 1]]
             \/ pub' = [pub EXCEPT ![j] = Idle]
      BY <1>5, <2>3 DEF Put
    <3>2. pub[j].ev \in Ended
      BY <1>0, <2>1
    <3>3. Events'
      <4>1. /\ \A k \in Jobs \ {j} : pub'[k] = pub[k]
            /\ \/ pub'[j] = [pub[j] EXCEPT !.step = "end", !.i = 1]
               \/ pub'[j] = Idle
        BY <1>0, <3>1
      <4>2. pub'[j].step # "idle" => pub'[j].ev \in Ended /\ pub'[j].i >= 1
        <5>0. pub[j] \in [ev : {"none"} \cup Ended, step : {"idle", "dir", "event", "end"},
                          i : Nat]
          BY <1>0
        <5>1. ASSUME pub'[j] = [pub[j] EXCEPT !.step = "end", !.i = 1]
              PROVE  pub'[j].ev = pub[j].ev /\ pub'[j].i = 1
          BY <5>0, <5>1
        <5>2. ASSUME pub'[j] = Idle PROVE pub'[j].step = "idle"
          BY <5>2 DEF Idle
        <5> QED
          BY <3>2, <4>1, <5>1, <5>2
      <4>3. ASSUME NEW k \in Jobs, k # j
            PROVE  pub'[k].step # "idle" => pub'[k].ev \in Ended /\ pub'[k].i >= 1
        BY <1>0, <4>1, <4>3
      <4> QED
        BY <4>2, <4>3
    <3> QED
      BY <1>0, <1>00, <2>1, <3>1, <3>3
  <2> QED
    BY <2>2, <2>3
<1>6. ASSUME NEW s \in Streams, NEW j \in Jobs, Attach(s, j) PROVE QueuesAttached'
  <2>1. /\ UNCHANGED <<inbox, pub>> /\ at[s] = NoJob /\ at' = [at EXCEPT ![s] = j]
        /\ queues' = [queues EXCEPT ![j] = Append(@, s)]
    BY <1>6 DEF Attach
  <2>2. at'[s] = j /\ \A t \in Streams \ {s} : at'[t] = at[t]
    BY <1>0, <2>1
  <2>3. /\ \A k \in Jobs \ {j} : queues'[k] = queues[k]
        /\ queues'[j] = Append(queues[j], s) /\ queues[j] \in Seq(Streams)
    BY <1>0, <2>1
  <2>4. \A k \in Jobs : \A i \in DOMAIN queues[k] : queues[k][i] # s /\ queues[k][i] \in Streams
    BY <1>0, <2>1, JobAssumption
  <2>5. ASSUME NEW k \in Jobs, NEW i \in DOMAIN queues'[k] PROVE at'[queues'[k][i]] = k
    <3>1. CASE k # j
      BY <1>0, <2>2, <2>3, <2>4, <2>5, <3>1
    <3>2. CASE k = j /\ i \in DOMAIN queues[j]
      <4>1. queues'[j][i] = queues[j][i]
        BY <2>3, <3>2
      <4>2. queues[j][i] \in Streams \ {s} /\ at[queues[j][i]] = j
        BY <1>0, <2>4, <3>2
      <4> QED
        BY <2>2, <3>2, <4>1, <4>2
    <3>3. CASE k = j /\ i \notin DOMAIN queues[j]
      BY <2>2, <2>3, <2>5, <3>3
    <3> QED
      BY <3>1, <3>2, <3>3
  <2>6. Boxes'
    BY <1>0, <2>1, <2>2, JobAssumption
  <2> QED
    BY <1>0, <1>00, <2>1, <2>5, <2>6
<1>7. ASSUME NEW s \in Streams, Receive(s) \/ Disconnect(s) PROVE QueuesAttached'
  <2>1. UNCHANGED <<at, pub>>
    BY <1>7 DEF Receive, Disconnect
  <2>2. UNCHANGED queues \/ queues' = [queues EXCEPT ![at[s]] = RemoveFirst(@, s)]
    BY <1>7 DEF Receive, Disconnect, Leave
  <2>3. inbox' = inbox \/ (inbox[s] # <<>> /\ inbox' = [inbox EXCEPT ![s] = Tail(@)])
    BY <1>7 DEF Receive, Disconnect
  <2>4. Boxes'
    BY <1>0, <2>1, <2>3
  <2>5. ASSUME NEW k \in Jobs, NEW i \in DOMAIN queues'[k] PROVE at'[queues'[k][i]] = k
    <3>1. CASE queues'[k] = queues[k]
      BY <1>0, <2>1, <2>5, <3>1
    <3>2. CASE queues'[k] = RemoveFirst(queues[k], s)
      <4>1. /\ queues'[k] \in Seq(Streams)
            /\ \A x : Contains(queues'[k], x) => Contains(queues[k], x)
        BY <1>0, <3>2, RemoveFirstFacts
      <4>3. Contains(queues'[k], queues'[k][i])
        BY <2>5, <4>1 DEF Contains
      <4>2. Contains(queues[k], queues'[k][i])
        BY <4>1, <4>3
      <4> QED
        BY <1>0, <2>1, <4>2 DEF Contains
    <3> QED
      BY <1>0, <2>2, <3>1, <3>2
  <2> QED
    BY <1>0, <1>00, <2>1, <2>4, <2>5
<1>8. ASSUME \/ \E j \in Jobs : \/ Create(j) \/ Launch(j) \/ LaunchProxy(j) \/ SetEvent(j)
                                \/ WorkerStep(j) \/ AcquireQueued(j) \/ HubEnds(j)
             \/ \E p \in Pollers : PollApply(p)
             \/ \E p \in Pollers, j \in Jobs : Poll(p, j)
             \/ UNCHANGED vars
      PROVE  QueuesAttached'
  BY <1>1, <1>8, StreamFrame
<1> QED
  BY <1>2, <1>3, <1>4, <1>5, <1>6, <1>7, <1>8, <1>9 DEF Next, RouteStep, LoopStep

\* What a stream's step does to the queues, and to its own place in them.
LEMMA StreamLeaves ==
  ASSUME TypeOK, QueuesAttached, NEW s \in Streams, Receive(s) \/ Disconnect(s)
  PROVE  /\ at[s] \in Jobs /\ s \notin left
         /\ UNCHANGED <<status, kind, pub, at, timely>>
         /\ \/ /\ UNCHANGED <<left, queues, jolted>>
               /\ inbox[s] # <<>> /\ Head(inbox[s]) # "None"
               /\ inbox' = [inbox EXCEPT ![s] = Tail(@)]
            \/ /\ left' = left \cup {s}
               /\ queues' = [queues EXCEPT ![at[s]] = RemoveFirst(@, s)]
               /\ jolted' = IF pub[at[s]].step \in {"event", "end"} THEN jolted \cup {at[s]}
                            ELSE jolted
               /\ \A t \in Streams \ {s} : inbox'[t] = inbox[t]
<1>0. at \in [Streams -> Jobs \cup {NoJob}] /\ DOMAIN inbox = Streams
  BY DEF TypeOK, ClientType
<1>1. CASE Receive(s)
  <2>1. at[s] # NoJob
    BY <1>1 DEF Receive, QueuesAttached
  <2> QED
    BY <1>0, <1>1, <2>1 DEF Receive, Leave
<1>2. CASE Disconnect(s)
  BY <1>0, <1>2 DEF Disconnect, Leave
<1> QED
  BY <1>1, <1>2

\* No one but the stream itself takes it off the list.
LEMMA ListedStep ==
  ASSUME TypeOK, QueuesAttached, StreamListed, [Next]_vars
  PROVE  StreamListed'
<1>0. /\ queues \in [Jobs -> Seq(Streams)]
      /\ at \in [Streams -> Jobs \cup {NoJob}] /\ left \subseteq Streams
  BY DEF TypeOK, RegistryType, ClientType
<1>1. ASSUME UNCHANGED <<at, left>>,
             \A k \in Jobs : \A t \in Streams : Contains(queues[k], t) => Contains(queues'[k], t)
      PROVE  StreamListed'
  BY <1>0, <1>1 DEF StreamListed
<1>2. ASSUME UNCHANGED <<at, left, queues>> PROVE StreamListed'
  BY <1>2 DEF StreamListed
<1>3. ASSUME NEW j \in Jobs, PruneKey(j) PROVE StreamListed'
  <2>1. UNCHANGED <<at, left>>
    BY <1>3 DEF PruneKey, client
  <2>2. UNCHANGED queues \/ \E k : queues[k] = <<>> /\ queues' = [queues EXCEPT ![k] = <<>>]
    BY <1>3 DEF PruneKey, Evictable
  <2>3. \A k \in Jobs : queues'[k] = queues[k]
    BY <1>0, <2>2
  <2> QED
    BY <1>1, <2>1, <2>3
<1>4. ASSUME NEW j \in Jobs, BeginPublish(j) \/ DirRegistered(j) \/ DirRaises(j) \/ Put(j)
      PROVE  StreamListed'
  BY <1>2, <1>4 DEF BeginPublish, DirRegistered, DirRaises, Put, record, client
<1>5. ASSUME NEW s \in Streams, NEW j \in Jobs, Attach(s, j) PROVE StreamListed'
  <2>1. /\ UNCHANGED left /\ at' = [at EXCEPT ![s] = j]
        /\ queues' = [queues EXCEPT ![j] = Append(@, s)]
    BY <1>5 DEF Attach
  <2>2. /\ \A k \in Jobs \ {j} : queues'[k] = queues[k]
        /\ queues'[j] = Append(queues[j], s) /\ queues[j] \in Seq(Streams)
    BY <1>0, <2>1
  <2>3. Contains(queues'[j], s) /\ \A t : Contains(queues[j], t) => Contains(queues'[j], t)
    <3> DEFINE q == queues[j]
               r == queues'[j]
    <3>0. q \in Seq(Streams) /\ r = Append(q, s)
      BY <2>2
    <3> HIDE DEF q, r
    <3>1. /\ Len(r) = Len(q) + 1 /\ r[Len(q) + 1] = s /\ Len(q) \in Nat
          /\ \A i \in 1..Len(q) : r[i] = q[i]
      BY <3>0
    <3>2. Contains(r, s) /\ \A t : Contains(q, t) => Contains(r, t)
      BY <3>1 DEF Contains
    <3> QED
      BY <3>2 DEF q, r
  <2>4. \A t \in Streams \ {s} : at'[t] = at[t]
    BY <1>0, <2>1
  <2>5. at'[s] = j
    BY <1>0, <2>1
  <2>6. ASSUME NEW t \in Streams, t \notin left, t # s, at[t] # NoJob
        PROVE  Contains(queues'[at[t]], t)
    <3>1. Contains(queues[at[t]], t) /\ at[t] \in Jobs
      BY <1>0, <2>6 DEF StreamListed
    <3> QED
      BY <2>2, <2>3, <3>1
  <2> QED
    BY <2>1, <2>3, <2>4, <2>5, <2>6 DEF StreamListed
<1>6. ASSUME NEW s \in Streams, Receive(s) \/ Disconnect(s) PROVE StreamListed'
  <2>1. /\ at[s] \in Jobs /\ UNCHANGED at
        /\ \/ UNCHANGED <<left, queues>>
           \/ left' = left \cup {s} /\ queues' = [queues EXCEPT ![at[s]] = RemoveFirst(@, s)]
    BY <1>6, StreamLeaves
  <2>2. CASE left' = left \cup {s} /\ queues' = [queues EXCEPT ![at[s]] = RemoveFirst(@, s)]
    <3>1. ASSUME NEW t \in Streams, t \notin left, t # s, at[t] # NoJob
          PROVE  Contains(queues'[at[t]], t)
      <4>1. Contains(queues[at[t]], t) /\ at[t] \in Jobs /\ queues[at[t]] \in Seq(Streams)
        BY <1>0, <3>1 DEF StreamListed
      <4>2. Contains(RemoveFirst(queues[at[t]], s), t)
        BY <3>1, <4>1, RemoveFirstFacts
      <4>3. queues'[at[t]] = queues[at[t]] \/ queues'[at[t]] = RemoveFirst(queues[at[t]], s)
        BY <1>0, <2>1, <2>2, <4>1
      <4> QED
        BY <4>1, <4>2, <4>3
    <3> QED
      BY <2>1, <2>2, <3>1 DEF StreamListed
  <2> QED
    BY <1>2, <2>1, <2>2
<1>7. ASSUME \/ \E j \in Jobs : \/ Create(j) \/ Launch(j) \/ LaunchProxy(j) \/ SetEvent(j)
                                \/ WorkerStep(j) \/ AcquireQueued(j) \/ HubEnds(j)
             \/ \E p \in Pollers : PollApply(p)
             \/ \E p \in Pollers, j \in Jobs : Poll(p, j)
             \/ UNCHANGED vars
      PROVE  StreamListed'
  BY <1>2, <1>7, StreamFrame
<1> QED
  BY <1>3, <1>4, <1>5, <1>6, <1>7 DEF Next, RouteStep, LoopStep

\* What one step of publish does to the queue of a stream: it only grows.
LEMMA PutGrows ==
  ASSUME TypeOK, QueuesAttached, NEW j \in Jobs, Put(j), NEW s \in Streams,
         Contains(inbox[s], "None")
  PROVE  Contains(inbox'[s], "None")
<1>0. inbox \in [Streams -> Seq(Ended \cup {"None"})] /\ Ended \in SUBSET Ended
  BY DEF TypeOK, ClientType
<1>1. CASE pub[j].i <= Len(queues[j])
  <2>1. PICK t, e : inbox' = [inbox EXCEPT ![t] = Append(@, e)]
    BY <1>1 DEF Put
  <2>2. CASE s # t
    BY <1>0, <2>1, <2>2
  <2>3. CASE s = t
    <3>1. PICK q : q = inbox[s]
      OBVIOUS
    <3>2. q \in Seq(Ended \cup {"None"}) /\ inbox'[s] = Append(q, e) /\ Contains(q, "None")
      BY <1>0, <2>1, <2>3, <3>1
    <3>3. /\ Len(Append(q, e)) = Len(q) + 1 /\ Len(q) \in Nat
          /\ \A i \in 1..Len(q) : Append(q, e)[i] = q[i]
      BY <3>2
    <3>4. Contains(Append(q, e), "None")
      BY <3>2, <3>3 DEF Contains
    <3> QED
      BY <3>2, <3>4
  <2> QED
    BY <2>2, <2>3
<1>2. CASE ~(pub[j].i <= Len(queues[j]))
  BY <1>2 DEF Put
<1> QED
  BY <1>1, <1>2

\* publish works through the list: a stream that has been passed has the
\* sentinel, one that has not is still ahead.
LEMMA PutServes ==
  ASSUME TypeOK, QueuesAttached, NEW j \in Jobs, Put(j), NEW s \in Streams,
         Contains(queues[j], s), Awaits(s, j)
  PROVE  Awaits(s, j)'
<1>0. /\ queues \in [Jobs -> Seq(Streams)] /\ inbox \in [Streams -> Seq(Ended \cup {"None"})]
      /\ pub \in [Jobs -> [ev : {"none"} \cup Ended, step : {"idle", "dir", "event", "end"},
                           i : Nat]]
  BY DEF TypeOK, RegistryType, ClientType, PublishType
<1>1. UNCHANGED queues /\ pub[j].step \in {"event", "end"}
  BY DEF Put, record
<1>2. CASE Contains(inbox[s], "None")
  BY <1>2, PutGrows DEF Awaits
<1>3. PICK i : i = pub[j].i
  OBVIOUS
<1>4. i \in Nat /\ pub[j] \in [ev : {"none"} \cup Ended,
                               step : {"idle", "dir", "event", "end"}, i : Nat]
  BY <1>0, <1>3
<1>5. CASE pub[j].step = "event" /\ i <= Len(queues[j])
  <2>1. pub' = [pub EXCEPT ![j].i = @ + 1]
    BY <1>3, <1>5 DEF Put
  <2>2. pub'[j].step = "event"
    BY <1>0, <1>5, <2>1
  <2> QED
    BY <2>2 DEF Awaits
<1>6. CASE pub[j].step = "event" /\ ~(i <= Len(queues[j]))
  <2>1. pub' = [pub EXCEPT ![j] = [@ EXCEPT !.step = "end", !.i = 1]]
    BY <1>3, <1>6 DEF Put
  <2>2. pub'[j] = [pub[j] EXCEPT !.step = "end", !.i = 1]
    BY <1>0, <2>1
  <2>3. pub'[j].step = "end" /\ pub'[j].i = 1
    BY <1>4, <2>2
  <2>4. PICK n \in 1..Len(queues[j]) : queues[j][n] = s
    BY DEF Contains
  <2>5. n \in DOMAIN queues'[j] /\ queues'[j][n] = s /\ ~(n < pub'[j].i)
    BY <1>0, <1>1, <2>3, <2>4
  <2> QED
    BY <2>3, <2>5 DEF Awaits
<1>7. CASE pub[j].step = "end" /\ i <= Len(queues[j]) /\ ~Contains(inbox[s], "None")
  <2>1. PICK n \in DOMAIN queues[j] : queues[j][n] = s /\ ~(n < i)
    BY <1>3, <1>7 DEF Awaits
  <2>2. /\ pub' = [pub EXCEPT ![j].i = @ + 1]
        /\ inbox' = [inbox EXCEPT ![queues[j][i]] = Append(@, "None")]
    BY <1>3, <1>7 DEF Put
  <2>3. CASE n = i
    <3>1. PICK q : q = inbox[s]
      OBVIOUS
    <3>2. q \in Seq(Ended \cup {"None"}) /\ inbox'[s] = Append(q, "None")
      BY <1>0, <2>1, <2>2, <2>3, <3>1
    <3>3. Len(Append(q, "None")) = Len(q) + 1 /\ Len(q) \in Nat
          /\ Append(q, "None")[Len(q) + 1] = "None"
      BY <3>2
    <3>4. Contains(Append(q, "None"), "None")
      BY <3>3 DEF Contains
    <3> QED
      BY <3>2, <3>4 DEF Awaits
  <2>4. CASE n # i
    <3>1. pub'[j] = [pub[j] EXCEPT !.i = i + 1]
      BY <1>0, <1>3, <2>2
    <3>2. pub'[j].step = "end" /\ pub'[j].i = i + 1
      BY <1>4, <1>7, <3>1
    <3>3. n \in DOMAIN queues'[j] /\ queues'[j][n] = s /\ ~(n < pub'[j].i)
      BY <1>0, <1>1, <1>4, <2>1, <2>4, <3>2
    <3> QED
      BY <3>2, <3>3 DEF Awaits
  <2> QED
    BY <2>3, <2>4
<1>8. CASE pub[j].step = "end" /\ ~(i <= Len(queues[j])) /\ ~Contains(inbox[s], "None")
  <2>1. PICK n \in DOMAIN queues[j] : queues[j][n] = s /\ ~(n < i)
    BY <1>3, <1>8 DEF Awaits
  <2> QED
    BY <1>0, <1>4, <1>8, <2>1
<1> QED
  BY <1>1, <1>2, <1>5, <1>6, <1>7, <1>8

\* A failure that is posted stays so until publish takes it up.
LEMMA ReportedStep ==
  ASSUME TypeOK, [Next]_vars, NEW j \in Jobs, Reported(j), status[j] # "gone"
  PROVE  \/ Reported(j)' \/ pub'[j].step \in {"dir", "event"} \/ status'[j] \notin Ended
<1> DEFINE Goal == Reported(j)' \/ pub'[j].step \in {"dir", "event"} \/ status'[j] \notin Ended
<1>0. /\ DOMAIN work = Jobs /\ DOMAIN pub = Jobs /\ DOMAIN status = Jobs
      /\ mail \in [Jobs -> Seq({"stage", "complete", "failed"})]
      /\ mail[j] # <<>> /\ (OwnLoop(j) => work[j] = "except")
  BY DEF TypeOK, RegistryType, WorkerType, PublishType, Reported
<1>1. ASSUME kind' = kind, work'[j] = work[j], mail'[j] = mail[j] PROVE Goal
  BY <1>0, <1>1 DEF Reported, OwnLoop
<1>2. ASSUME NEW k \in Jobs, kind' = kind, UNCHANGED mail \/ \E ev : Post(k, ev),
             UNCHANGED work \/ \E w : Goto(k, w), k = j => ~OwnLoop(j)
      PROVE  Goal
  <2>1. CASE k # j
    <3>1. work'[j] = work[j] /\ mail'[j] = mail[j]
      BY <1>0, <1>2, <2>1 DEF Goto, Post
    <3> QED
      BY <1>1, <1>2, <3>1
  <2>2. CASE k = j
    <3>1. mail'[j] # <<>>
      BY <1>0, <1>2, <2>2 DEF Post
    <3> QED
      BY <1>2, <2>2, <3>1 DEF Reported, OwnLoop
  <2> QED
    BY <2>1, <2>2
<1>3. ASSUME NEW k \in Jobs, Create(k) \/ RouteStep(k) \/ Start(k) \/ AcquireQueued(k)
                             \/ StageEmitted(k) \/ CancelQueued(k) \/ Run(k) PROVE Goal
  <2>1. kind' = kind /\ work[k] # "except"
    BY <1>3 DEF Create, RouteStep, PruneKey, Launch, LaunchProxy, Created, Start, AcquireQueued,
       StageEmitted, CancelQueued, Run, Transcribed, Recorded, Summarized, Migrated, Answered,
       Complete, Fail, record
  <2>2. UNCHANGED mail \/ \E ev : Post(k, ev)
    BY <1>3 DEF Create, RouteStep, PruneKey, Launch, LaunchProxy, Start, AcquireQueued,
       StageEmitted, CancelQueued, Run, Transcribed, Recorded, Summarized, Migrated, Answered,
       Complete, Fail
  <2>3. UNCHANGED work \/ \E w : Goto(k, w)
    <3>1. CASE PruneKey(k)
      BY <3>1 DEF PruneKey
    <3>2. CASE Create(k) \/ Launch(k) \/ LaunchProxy(k)
      BY <3>2 DEF Create, Launch, LaunchProxy
    <3>3. CASE Start(k) \/ AcquireQueued(k) \/ StageEmitted(k) \/ CancelQueued(k)
      BY <3>3 DEF Start, AcquireQueued, StageEmitted, CancelQueued
    <3>4. CASE Run(k)
      BY <3>4 DEF Run, Transcribed, Recorded, Summarized, Migrated, Answered, Complete, Fail
    <3> QED
      BY <1>3, <3>1, <3>2, <3>3, <3>4 DEF RouteStep
  <2>4. k = j => ~OwnLoop(j)
    BY <1>0, <2>1
  <2> HIDE DEF Goal
  <2> QED
    BY <1>2, <2>1, <2>2, <2>3, <2>4
<1>4. ASSUME NEW k \in Jobs, LastEmitted(k) PROVE Goal
  <2>1. k # j /\ kind' = kind /\ UNCHANGED mail /\ Goto(k, "finally")
    BY <1>0, <1>4 DEF LastEmitted, Published, record
  <2> QED
    BY <1>2, <2>1
<1>5. ASSUME NEW k \in Jobs, EmitTimeout(k) PROVE Goal
  <2>1. kind' = kind /\ UNCHANGED pub
    BY <1>5 DEF EmitTimeout, record
  <2>3. (UNCHANGED mail \/ Post(k, "failed")) /\ \E w : Goto(k, w)
    BY <1>5 DEF EmitTimeout
  <2>2. CASE k = j /\ OwnLoop(j)
    <3>1. pub[j].step = "dir"
      BY <1>5, <2>2 DEF EmitTimeout, LoopStuck
    <3>2. pub'[j].step \in {"dir", "event"}
      BY <2>1, <3>1
    <3> QED
      BY <3>2
  <2> HIDE DEF Goal
  <2> QED
    BY <1>2, <2>1, <2>2, <2>3
<1>6. ASSUME NEW k \in Jobs, Finally(k) PROVE Goal
  <2>1. /\ kind' = kind /\ work[k] = "finally" /\ Goto(k, "done")
        /\ mail' = IF OwnLoop(k) THEN [mail EXCEPT ![k] = <<>>] ELSE mail
    BY <1>6 DEF Finally, record
  <2>2. CASE k # j
    <3>1. work'[j] = work[j] /\ mail'[j] = mail[j]
      BY <1>0, <2>1, <2>2 DEF Goto
    <3> QED
      BY <1>1, <2>1, <3>1
  <2>3. CASE k = j
    <3>1. ~OwnLoop(j)
      BY <1>0, <2>1, <2>3
    <3> QED
      BY <1>2, <2>1, <2>3, <3>1
  <2> QED
    BY <2>2, <2>3
<1>7. ASSUME NEW k \in Jobs, BeginPublish(k) PROVE Goal
  <2>1. UNCHANGED <<kind, work>>
    BY <1>7 DEF BeginPublish, worker
  <2>2. CASE k # j
    <3>1. mail'[j] = mail[j]
      BY <1>0, <1>7, <2>2 DEF BeginPublish
    <3> QED
      BY <1>1, <2>1, <3>1
  <2>3. CASE k = j
    <3>1. PICK ev : ev = Head(mail[j])
      OBVIOUS
    <3>2. CASE ev = "stage"
      BY <1>0, <1>7, <2>3, <3>1, <3>2 DEF BeginPublish, Ended
    <3>3. CASE ev # "stage"
      <4>1. \E t \in {"dir", "event"} : pub' = [pub EXCEPT ![j] = [ev |-> ev, i |-> 1, step |-> t]]
        BY <1>7, <2>3, <3>1, <3>3 DEF BeginPublish
      <4> QED
        BY <1>0, <4>1
    <3> QED
      BY <3>2, <3>3
  <2> QED
    BY <2>2, <2>3
<1>8. ASSUME NEW k \in Jobs, DirRaises(k) PROVE Goal
  <2>1. /\ kind' = kind
        /\ \/ work[k] = "end" /\ Goto(k, "except") /\ Post(k, "failed")
           \/ UNCHANGED <<work, mail>>
    BY <1>8 DEF DirRaises, record
  <2>2. k = j /\ OwnLoop(j) => work[k] # "end"
    BY <1>0
  <2>3. CASE UNCHANGED <<work, mail>>
    BY <1>1, <2>1, <2>3
  <2> HIDE DEF Goal
  <2> QED
    BY <1>2, <2>1, <2>2, <2>3
<1>9. ASSUME \/ \E k \in Jobs : SetEvent(k) \/ DirRegistered(k) \/ Put(k) \/ HubEnds(k)
             \/ \E s \in Streams : Receive(s) \/ Disconnect(s)
             \/ \E s \in Streams, k \in Jobs : Attach(s, k)
             \/ \E p \in Pollers : PollApply(p)
             \/ \E p \in Pollers, k \in Jobs : Poll(p, k)
             \/ UNCHANGED vars
      PROVE  Goal
  <2>1. UNCHANGED <<kind, work, mail>>
    BY <1>9 DEF SetEvent, DirRegistered, Put, HubEnds, Receive, Disconnect, Attach, Poll,
       PollApply, vars, record, worker
  <2> QED
    BY <1>1, <2>1
<1> HIDE DEF Goal
<1>10. Goal
  BY <1>3, <1>4, <1>5, <1>6, <1>7, <1>8, <1>9 DEF Next, WorkerStep, LoopStep
<1> QED
  BY <1>10 DEF Goal

\* From the last status on, publish is on its way to the stream.
LEMMA AwaitsStep ==
  ASSUME TypeOK, ProxyPolled, QueuesAttached, StreamListed, StreamAwaits, [Next]_vars
  PROVE  StreamAwaits'
<1> DEFINE Kept(s) ==
             /\ at[s] # NoJob
             /\ status[at[s]] # "gone"
             /\ status[at[s]] \in Ended /\ kind[at[s]] # "ask_hub" /\ at[s] \notin jolted
                  => Awaits(s, at[s]) \/ Reported(at[s])
<1>0. /\ queues \in [Jobs -> Seq(Streams)] /\ DOMAIN status = Jobs
      /\ at \in [Streams -> Jobs \cup {NoJob}] /\ left \subseteq Streams /\ timely \subseteq Streams
      /\ inbox \in [Streams -> Seq(Ended \cup {"None"})]
      /\ pub \in [Jobs -> [ev : {"none"} \cup Ended, step : {"idle", "dir", "event", "end"},
                           i : Nat]]
  BY DEF TypeOK, RegistryType, ClientType, PublishType
<1>00. /\ \A s \in timely \ left : Kept(s)
       /\ (\A s \in timely' \ left' : Kept(s)') => StreamAwaits'
  BY DEF StreamAwaits
<1>01. \A s \in timely \ left : at[s] \in Jobs /\ Contains(queues[at[s]], s)
  BY <1>0, <1>00 DEF StreamListed
<1>02. \A s \in timely \ left :
         status[at[s]] \in Ended /\ kind[at[s]] # "ask_hub" /\ at[s] \notin jolted
           => Awaits(s, at[s]) \/ Reported(at[s])
  BY <1>00
<1>03. \A s \in timely \ left :
         at'[s] = at[s] /\ Reported(at[s]) =>
           Reported(at[s])' \/ Awaits(s, at[s])' \/ status'[at[s]] \notin Ended
  <2> SUFFICES ASSUME NEW s \in timely \ left, at'[s] = at[s], Reported(at[s])
               PROVE  Reported(at[s])' \/ Awaits(s, at[s])' \/ status'[at[s]] \notin Ended
    OBVIOUS
  <2>1. PICK j \in Jobs : j = at[s]
    BY <1>01
  <2>2. Reported(j) /\ status[j] # "gone"
    BY <1>00, <2>1
  <2>3. Reported(j)' \/ pub'[j].step \in {"dir", "event"} \/ status'[j] \notin Ended
    BY <2>2, ReportedStep
  <2>4. Reported(j)' => Reported(at[s])'
    BY <2>1
  <2>5. pub'[j].step \in {"dir", "event"} => Awaits(s, at[s])'
    BY <2>1 DEF Awaits
  <2> QED
    BY <2>1, <2>3, <2>4, <2>5
<1>1. ASSUME UNCHANGED <<kind, queues, at, left, inbox, pub, timely, jolted>>,
             \A k \in Jobs : \/ status'[k] = status[k] \/ status'[k] \in {"pending", "running"}
                             \/ kind[k] = "ask_hub" /\ (status'[k] = "gone" => status[k] = "gone")
      PROVE  StreamAwaits'
  <2> SUFFICES ASSUME NEW s \in timely \ left PROVE Kept(s)'
    BY <1>00, <1>1
  <2>1. at[s] \in Jobs /\ Kept(s) /\ at'[s] = at[s]
    BY <1>00, <1>01, <1>1
  <2>2. status'[at[s]] # "gone"
    BY <1>1, <2>1
  <2>3. ASSUME status'[at[s]] \in Ended, kind[at[s]] # "ask_hub", at[s] \notin jolted
        PROVE  Awaits(s, at[s]) \/ Reported(at[s])
    BY <1>1, <2>1, <2>3 DEF Ended
  <2>4. Awaits(s, at[s]) => Awaits(s, at[s])'
    BY <1>1, <2>1 DEF Awaits
  <2> QED
    BY <1>03, <1>1, <2>1, <2>2, <2>3, <2>4
<1>2. ASSUME \/ \E j \in Jobs : \/ Launch(j) \/ SetEvent(j) \/ WorkerStep(j)
                                \/ AcquireQueued(j) \/ HubEnds(j)
             \/ \E p \in Pollers, j \in Jobs : Poll(p, j)
             \/ UNCHANGED vars
      PROVE  StreamAwaits'
  <2>1. UNCHANGED status
    BY <1>2 DEF Launch, SetEvent, WorkerStep, Start, StageEmitted, CancelQueued, Run,
       Transcribed, Recorded, Summarized, Migrated, Answered, Complete, Fail, LastEmitted,
       EmitTimeout, Finally, AcquireQueued, HubEnds, Poll, vars, record
  <2>2. UNCHANGED <<kind, queues, at, left, inbox, pub, timely, jolted>>
    BY <1>2, StreamFrame
  <2> QED
    BY <1>1, <2>1, <2>2
<1>3. ASSUME NEW j \in Jobs, Create(j) \/ LaunchProxy(j) PROVE StreamAwaits'
  <2>1. UNCHANGED <<kind, queues, at, left, inbox, pub, timely, jolted>>
    BY <1>3, StreamFrame
  <2>2. \E x \in {"pending", "running"} : status' = [status EXCEPT ![j] = x]
    BY <1>3 DEF Create, LaunchProxy
  <2>3. \A k \in Jobs : status'[k] = status[k] \/ status'[k] \in {"pending", "running"}
    BY <1>0, <2>2
  <2> QED
    BY <1>1, <2>1, <2>3
<1>4. ASSUME NEW p \in Pollers, PollApply(p) PROVE StreamAwaits'
  <2>1. UNCHANGED <<kind, queues, at, left, inbox, pub, timely, jolted>>
    BY <1>4, StreamFrame
  <2>2. /\ kind[reply[p].job] = "ask_hub"
        /\ UNCHANGED status \/ \E x \in Ended : status' = [status EXCEPT ![reply[p].job] = x]
    BY <1>4 DEF PollApply, ProxyPolled, Ended
  <2>3. \A k \in Jobs : \/ status'[k] = status[k]
                        \/ kind[k] = "ask_hub" /\ status'[k] \in Ended
    BY <1>0, <2>2
  <2> QED
    BY <1>1, <2>1, <2>3 DEF Ended
<1>5. ASSUME NEW j \in Jobs, PruneKey(j) PROVE StreamAwaits'
  <2>1. /\ UNCHANGED <<kind, at, left, inbox, pub, timely, jolted>>
        /\ \/ UNCHANGED <<status, queues>>
           \/ \E k : /\ queues[k] = <<>> /\ status' = [status EXCEPT ![k] = "gone"]
                     /\ queues' = [queues EXCEPT ![k] = <<>>]
    BY <1>5 DEF PruneKey, Evictable, client, ghost
  <2>2. \A k \in Jobs : queues'[k] = queues[k] /\ (status'[k] # status[k] => queues[k] = <<>>)
    BY <1>0, <2>1
  <2> SUFFICES ASSUME NEW s \in timely \ left PROVE Kept(s)'
    BY <1>00, <2>1
  <2>3. at[s] \in Jobs /\ Kept(s) /\ queues[at[s]] # <<>>
    BY <1>00, <1>01 DEF Contains
  <2>4. status'[at[s]] = status[at[s]] /\ at'[s] = at[s]
    BY <2>1, <2>2, <2>3
  <2>5. Awaits(s, at[s]) => Awaits(s, at[s])'
    BY <2>1, <2>2, <2>3 DEF Awaits
  <2> QED
    BY <1>03, <2>1, <2>3, <2>4, <2>5
<1>6. ASSUME NEW j \in Jobs, BeginPublish(j) \/ DirRegistered(j) PROVE StreamAwaits'
  <2>1. UNCHANGED <<kind, queues, at, left, inbox, timely, jolted>>
    BY <1>6 DEF BeginPublish, DirRegistered, record, client, ghost
  <2>2. \A k \in Jobs \ {j} : pub'[k] = pub[k] /\ status'[k] = status[k]
    BY <1>0, <1>6 DEF BeginPublish, DirRegistered, record
  <2>3. \/ status'[j] = status[j] /\ pub'[j] = pub[j] /\ status[j] = "gone"
        \/ status'[j] = "running"
        \/ pub'[j].step \in {"dir", "event"} /\ (status'[j] = "gone" => status[j] = "gone")
    <3>1. CASE BeginPublish(j)
      <4>1. Head(mail[j]) \in {"stage", "complete", "failed"}
        BY <3>1 DEF BeginPublish, TypeOK, PublishType
      <4>2. CASE status[j] = "gone"
        BY <3>1, <4>2 DEF BeginPublish
      <4>3. CASE status[j] # "gone" /\ Head(mail[j]) = "stage"
        BY <1>0, <3>1, <4>3 DEF BeginPublish
      <4>4. CASE status[j] # "gone" /\ Head(mail[j]) # "stage"
        <5>1. PICK e : e = Head(mail[j])
          OBVIOUS
        <5>2. \E t \in {"dir", "event"} :
                pub' = [pub EXCEPT ![j] = [ev |-> e, i |-> 1, step |-> t]]
          BY <3>1, <4>4, <5>1 DEF BeginPublish
        <5>3. pub'[j].step \in {"dir", "event"}
          BY <1>0, <5>2
        <5>4. status' = [status EXCEPT ![j] = e]
          BY <3>1, <4>4, <5>1 DEF BeginPublish
        <5> QED
          BY <1>0, <4>1, <5>1, <5>3, <5>4
      <4> QED
        BY <4>2, <4>3, <4>4
    <3>2. CASE DirRegistered(j)
      <4>1. pub' = [pub EXCEPT ![j].step = "event"] /\ UNCHANGED status
        BY <3>2 DEF DirRegistered, record
      <4>2. pub'[j].step = "event"
        BY <1>0, <4>1
      <4> QED
        BY <4>1, <4>2
    <3> QED
      BY <1>6, <3>1, <3>2
  <2> SUFFICES ASSUME NEW s \in timely \ left PROVE Kept(s)'
    BY <1>00, <2>1
  <2>4. at[s] \in Jobs /\ Kept(s) /\ at'[s] = at[s]
    BY <1>00, <1>01, <2>1
  <2>5. CASE at[s] # j
    <3>1. pub'[at[s]] = pub[at[s]] /\ status'[at[s]] = status[at[s]]
      BY <2>2, <2>4, <2>5
    <3>2. Awaits(s, at[s]) => Awaits(s, at[s])'
      BY <2>1, <2>4, <3>1 DEF Awaits
    <3> QED
      BY <1>03, <2>1, <2>4, <3>1, <3>2
  <2>6. CASE at[s] = j
    <3>1. status[j] # "gone"
      BY <2>4, <2>6
    <3>2. CASE status'[j] = "running"
      BY <2>4, <2>6, <3>2 DEF Ended
    <3>3. CASE pub'[j].step \in {"dir", "event"} /\ status'[j] # "gone"
      <4>1. Awaits(s, j)'
        BY <3>3 DEF Awaits
      <4> QED
        BY <2>4, <2>6, <3>3, <4>1
    <3> QED
      BY <2>3, <3>1, <3>2, <3>3
  <2> QED
    BY <2>5, <2>6
<1>10. ASSUME NEW j \in Jobs, DirRaises(j) PROVE StreamAwaits'
  <2>1. /\ UNCHANGED <<kind, status, queues, at, left, inbox, timely>> /\ jolted \subseteq jolted'
        /\ \A k \in Jobs \ {j} : pub'[k] = pub[k]
    BY <1>0, <1>10 DEF DirRaises, record, client
  <2>2. j \in jolted' \/ Reported(j)'
    <3>1. CASE work[j] = "end"
      <4>1. Post(j, "failed") /\ Goto(j, "except")
        BY <1>10, <3>1 DEF DirRaises
      <4>2. mail'[j] # <<>> /\ work'[j] = "except"
        BY <4>1 DEF Post, Goto, TypeOK, PublishType, WorkerType
      <4> QED
        BY <4>2 DEF Reported
    <3> QED
      BY <1>10, <3>1 DEF DirRaises
  <2> SUFFICES ASSUME NEW s \in timely \ left PROVE Kept(s)'
    BY <1>00, <2>1
  <2>3. at[s] \in Jobs /\ Kept(s) /\ at'[s] = at[s]
    BY <1>00, <1>01, <2>1
  <2>4. CASE at[s] = j
    <3>1. Reported(j)' => Reported(at[s])'
      BY <2>3, <2>4
    <3> QED
      BY <2>1, <2>2, <2>3, <2>4, <3>1
  <2>5. CASE at[s] # j
    <3>1. Awaits(s, at[s]) => Awaits(s, at[s])'
      BY <2>1, <2>3, <2>5 DEF Awaits
    <3> QED
      BY <1>03, <2>1, <2>3, <3>1
  <2> QED
    BY <2>4, <2>5
<1>7. ASSUME NEW j \in Jobs, Put(j) PROVE StreamAwaits'
  <2>1. UNCHANGED <<kind, status, queues, at, left, timely, jolted>>
    BY <1>7 DEF Put, record, ghost
  <2>2. \A k \in Jobs \ {j} : pub'[k] = pub[k]
    BY <1>0, <1>7 DEF Put
  <2> SUFFICES ASSUME NEW s \in timely \ left PROVE Kept(s)'
    BY <1>00, <2>1
  <2>3. at[s] \in Jobs /\ Kept(s) /\ at'[s] = at[s] /\ s \in Streams
    BY <1>0, <1>00, <1>01, <2>1
  <2>4. Awaits(s, at[s]) => Awaits(s, at[s])'
    <3>1. CASE at[s] = j
      <4>1. Contains(queues[j], s)
        BY <1>01, <3>1
      <4>2. Awaits(s, j) => Awaits(s, j)'
        BY <1>7, <2>3, <4>1, PutServes
      <4> QED
        BY <2>1, <3>1, <4>2
    <3>2. CASE at[s] # j
      <4>1. pub'[at[s]] = pub[at[s]]
        BY <2>2, <2>3, <3>2
      <4>2. Contains(inbox[s], "None") => Contains(inbox'[s], "None")
        BY <1>7, <2>3, PutGrows
      <4> QED
        BY <2>1, <4>1, <4>2 DEF Awaits
    <3> QED
      BY <3>1, <3>2
  <2> QED
    BY <1>03, <2>1, <2>3, <2>4
<1>8. ASSUME NEW t \in Streams, NEW j \in Jobs, Attach(t, j) PROVE StreamAwaits'
  <2>1. /\ UNCHANGED <<kind, status, pub, inbox, left, jolted>>
        /\ at[t] = NoJob /\ at' = [at EXCEPT ![t] = j]
        /\ queues' = [queues EXCEPT ![j] = Append(@, t)]
        /\ timely' = IF status[j] \in {"pending", "running"} THEN timely \cup {t} ELSE timely
    BY <1>8 DEF Attach
  <2> SUFFICES ASSUME NEW s \in timely' \ left' PROVE Kept(s)'
    BY <1>00
  <2>2. CASE s = t
    <3>1. s \notin timely \ left
      BY <1>00, <2>1, <2>2
    <3>2. status[j] \in {"pending", "running"}
      BY <2>1, <3>1
    <3>3. at'[s] = j /\ status'[j] \in {"pending", "running"}
      BY <1>0, <2>1, <2>2, <3>2
    <3> QED
      BY <3>3, JobAssumption DEF Ended
  <2>3. CASE s # t
    <3>1. s \in timely \ left /\ at'[s] = at[s] /\ at[s] \in Jobs /\ Kept(s)
      BY <1>0, <1>00, <1>01, <2>1, <2>3
    <3>2. PICK q : q = queues[at[s]]
      OBVIOUS
    <3>3. q \in Seq(Streams) /\ (queues'[at[s]] = q \/ queues'[at[s]] = Append(q, t))
      BY <1>0, <2>1, <3>1, <3>2
    <3>4. \A n \in DOMAIN q : n \in DOMAIN queues'[at[s]] /\ queues'[at[s]][n] = q[n]
      BY <3>3
    <3>5. Awaits(s, at[s]) => Awaits(s, at[s])'
      BY <2>1, <3>1, <3>2, <3>4 DEF Awaits
    <3> QED
      BY <1>03, <2>1, <3>1, <3>5
  <2> QED
    BY <2>2, <2>3
<1>9. ASSUME NEW t \in Streams, Receive(t) \/ Disconnect(t) PROVE StreamAwaits'
  <2>1. /\ at[t] \in Jobs /\ UNCHANGED <<status, kind, pub, at, timely>>
    BY <1>9, StreamLeaves
  <2>2. CASE /\ UNCHANGED <<left, queues, jolted>>
             /\ inbox[t] # <<>> /\ Head(inbox[t]) # "None"
             /\ inbox' = [inbox EXCEPT ![t] = Tail(@)]
    <3> SUFFICES ASSUME NEW s \in timely \ left PROVE Kept(s)'
      BY <1>00, <2>1, <2>2
    <3>1. at[s] \in Jobs /\ Kept(s) /\ at'[s] = at[s] /\ s \in Streams
      BY <1>0, <1>00, <1>01, <2>1
    <3>2. Contains(inbox[s], "None") => Contains(inbox'[s], "None")
      <4>1. CASE s # t
        BY <1>0, <2>2, <3>1, <4>1
      <4>2. CASE s = t
        <5>1. PICK q : q = inbox[s]
          OBVIOUS
        <5>2. /\ q \in Seq(Ended \cup {"None"}) /\ q # <<>> /\ q[1] # "None"
              /\ inbox'[s] = Tail(q)
          BY <1>0, <2>2, <3>1, <4>2, <5>1
        <5>3. ASSUME NEW n \in 1..Len(q), q[n] = "None" PROVE Contains(Tail(q), "None")
          <6>1. n - 1 \in 1..Len(Tail(q)) /\ Tail(q)[n - 1] = "None"
            BY <5>2, <5>3
          <6> QED
            BY <6>1 DEF Contains
        <5> QED
          BY <5>1, <5>2, <5>3 DEF Contains
      <4> QED
        BY <4>1, <4>2
    <3>3. Awaits(s, at[s]) => Awaits(s, at[s])'
      BY <2>1, <2>2, <3>1, <3>2 DEF Awaits
    <3> QED
      BY <1>03, <2>1, <2>2, <3>1, <3>3
  <2>3. CASE /\ left' = left \cup {t}
             /\ queues' = [queues EXCEPT ![at[t]] = RemoveFirst(@, t)]
             /\ jolted' = IF pub[at[t]].step \in {"event", "end"} THEN jolted \cup {at[t]}
                          ELSE jolted
             /\ \A s \in Streams \ {t} : inbox'[s] = inbox[s]
    <3> SUFFICES ASSUME NEW s \in timely \ left, s # t PROVE Kept(s)'
      BY <1>00, <2>1, <2>3
    <3>1. at[s] \in Jobs /\ Kept(s) /\ at'[s] = at[s] /\ inbox'[s] = inbox[s]
      BY <1>0, <1>00, <1>01, <2>1, <2>3
    <3>2. CASE at[s] # at[t]
      <4>1. queues'[at[s]] = queues[at[s]]
        BY <1>0, <2>3, <3>1, <3>2
      <4>2. Awaits(s, at[s]) => Awaits(s, at[s])'
        BY <2>1, <3>1, <4>1 DEF Awaits
      <4> QED
        BY <1>03, <2>1, <2>3, <3>1, <4>2
    <3>3. CASE at[s] = at[t] /\ pub[at[t]].step \in {"event", "end"}
      <4>1. at[s] \in jolted'
        BY <2>3, <3>3
      <4> QED
        BY <2>1, <3>1, <4>1
    <3>4. CASE at[s] = at[t] /\ ~(pub[at[t]].step \in {"event", "end"})
      <4>1. Awaits(s, at[s]) => Awaits(s, at[s])'
        BY <2>1, <3>1, <3>4 DEF Awaits
      <4> QED
        BY <1>03, <2>1, <2>3, <3>1, <3>4, <4>1
    <3> QED
      BY <3>2, <3>3, <3>4
  <2> QED
    BY <1>9, <2>2, <2>3, StreamLeaves
<1> QED
  BY <1>2, <1>3, <1>4, <1>5, <1>6, <1>7, <1>8, <1>9, <1>10 DEF Next, RouteStep, LoopStep
-----------------------------------------------------------------------------
(* The theorems. *)

\* The invariant is inductive.
LEMMA NextInv == IInv /\ [Next]_vars => IInv'
<1> SUFFICES ASSUME IInv, [Next]_vars PROVE IInv'
  OBVIOUS
<1>0. /\ TypeOK /\ SlotsHeld /\ OrderKnown /\ MailSound
      /\ ProxyPolled /\ ResultStored /\ QueuesAttached /\ StreamListed /\ StreamAwaits
  BY DEF IInv
<1>1. SlotsHeld'
  BY <1>0, SlotsStep
<1>2. RegistryType' /\ OrderKnown' /\ WorkerType' /\ PublishType' /\ ClientType'
  BY <1>0, <1>1, RegistryStep, WorkerTypeStep, PublishTypeStep, ClientTypeStep
<1>3. MailSound' /\ ProxyPolled' /\ ResultStored'
  BY <1>0, MailStep, ProxyStep, ResultStep
<1>4. QueuesAttached' /\ StreamListed' /\ StreamAwaits'
  BY <1>0, QueuesStep, ListedStep, AwaitsStep
<1> QED
  BY <1>1, <1>2, <1>3, <1>4 DEF IInv, TypeOK

\* It holds in every reachable state.
LEMMA Invariance == Spec => []IInv
BY InitInv, NextInv, PTL DEF Spec

\* The semaphore and the workers that hold one of its slots add up, for any
\* number of jobs and slots and whatever cancels, fails or delays a worker.
THEOREM SlotsNeverLeak == Spec => []SlotsAccounted
<1>1. IInv => SlotsAccounted
  BY DEF IInv, SlotsHeld
<1> QED
  BY <1>1, Invariance, PTL

\* A GET that reports a finished ask or migration has its result, unless two
\* polls of a proxied ask have overlapped.
THEOREM AnswersStored == Spec => []AnswerBeforeComplete
<1>1. IInv => AnswerBeforeComplete
  BY DEF IInv, ResultStored
<1> QED
  BY <1>1, Invariance, PTL

\* Whatever streams come and go and however many jobs prune the registry, a
\* stream attached in time keeps its record, and it has its end of stream once
\* the last event has been published.
THEOREM StreamsAreKept == Spec => []StreamsKept
<1>1. IInv => StreamsKept
  <2> SUFFICES ASSUME IInv PROVE PruneSpares /\ StreamsServed
    BY DEF IInv, StreamsKept
  <2>1. PruneSpares
    BY DEF IInv, StreamAwaits, PruneSpares
  <2>2. ASSUME NEW s \in timely \ left, status[at[s]] \in Ended, Published(at[s]),
               kind[at[s]] # "ask_hub", at[s] \notin jolted
        PROVE  Contains(inbox[s], "None")
    <3>1. Awaits(s, at[s]) \/ Reported(at[s])
      BY <2>2 DEF IInv, StreamAwaits
    <3> QED
      BY <2>2, <3>1 DEF Awaits, Reported, Published
  <2> QED
    BY <2>1, <2>2 DEF StreamsServed
<1> QED
  BY <1>1, Invariance, PTL

\* The status of a job only moves forward: what has failed stays failed, and
\* what is complete is only turned into a failure by a worker whose emit timed
\* out or raised, or where two polls of a proxied ask overlapped.
THEOREM StatusMovesForward == Spec => StatusForward
<1> DEFINE Forward ==
      \A j \in Jobs \ crossed :
        /\ status[j] = "failed" => status'[j] \in {"failed", "gone"}
        /\ status[j] = "complete" =>
             \/ status'[j] \in {"complete", "gone"}
             \/ status'[j] = "failed" /\ j \in late
<1>1. IInv /\ [Next]_vars => [Forward]_vars
  BY StatusStep DEF IInv
<1>2. Spec => [][Forward]_vars
  BY <1>1, Invariance, PTL DEF Spec
<1> QED
  BY <1>2 DEF StatusForward
-----------------------------------------------------------------------------
(* The folder watcher. *)

\* _pending[path] = now and move_to_end.
LEMMA EnqueueFacts ==
  ASSUME NEW S, NEW q \in Seq(S), IsInjective(q), NEW f \in S
  PROVE  LET p == Append(RemoveFirst(q, f), f) IN
         /\ p \in Seq(S) /\ IsInjective(p) /\ Len(p) >= Len(q)
         /\ ToSet(p) = ToSet(q) \cup {f}
<1> DEFINE r == RemoveFirst(q, f)
           p == Append(r, f)
<1>1. /\ r \in Seq(S) /\ Len(r) + 1 >= Len(q)
      /\ \A x : x # f /\ Contains(q, x) => Contains(r, x)
      /\ \A x : Contains(r, x) => Contains(q, x)
      /\ IsInjective(r) /\ ~Contains(r, f)
  BY RemoveFirstFacts
<1> HIDE DEF r
<1>2. /\ p \in Seq(S) /\ Len(p) = Len(r) + 1 /\ p[Len(p)] = f
      /\ \A i \in 1..Len(r) : p[i] = r[i]
  BY <1>1, AppendProperties
<1> HIDE DEF p
<1>3. /\ DOMAIN p = 1..Len(p) /\ DOMAIN r = 1..Len(r) /\ DOMAIN q = 1..Len(q)
      /\ Len(r) \in Nat
  BY <1>1, <1>2
<1>4. \A i \in 1..Len(p) : i = Len(p) \/ i \in 1..Len(r)
  BY <1>2, <1>3
<1>5. IsInjective(p)
  BY <1>1, <1>2, <1>3, <1>4 DEF IsInjective, Contains
<1>6. Len(p) \in 1..Len(p) /\ \A i \in 1..Len(r) : i \in 1..Len(p)
  BY <1>2, <1>3
<1>7. ASSUME NEW x PROVE x \in ToSet(p) <=> x \in ToSet(q) \cup {f}
  <2>1. x \in ToSet(p) <=> x = f \/ Contains(r, x)
    BY <1>2, <1>3, <1>4, <1>6 DEF ToSet, Contains
  <2>2. x \in ToSet(q) <=> Contains(q, x)
    BY <1>3 DEF ToSet, Contains
  <2> QED
    BY <1>1, <2>1, <2>2
<1> QED
  BY <1>1, <1>2, <1>5, <1>7 DEF p, r

\* drain_ready: the first n of the waiting files are taken out.
LEMMA DrainFacts ==
  ASSUME NEW S, NEW q \in Seq(S), IsInjective(q), NEW n \in Nat, n <= Len(q)
  PROVE  LET a == SubSeq(q, 1, n)
             b == SubSeq(q, n + 1, Len(q)) IN
         /\ a \in Seq(S) /\ b \in Seq(S) /\ IsInjective(b)
         /\ ToSet(q) \subseteq ToSet(a) \cup ToSet(b)
<1> DEFINE a == SubSeq(q, 1, n)
           b == SubSeq(q, n + 1, Len(q))
<1>0. Len(q) \in Nat /\ DOMAIN q = 1..Len(q)
  OBVIOUS
<1>1. a \in Seq(S) /\ Len(a) = n /\ \A i \in 1..n : a[i] = q[i]
  BY <1>0
<1>2. b \in Seq(S) /\ Len(b) = Len(q) - n /\ \A i \in 1..Len(q) - n : b[i] = q[n + i]
  <2>1. n + 1 \in Int /\ Len(q) \in Int /\ \A i \in n + 1..Len(q) : q[i] \in S
    BY <1>0
  <2>2. /\ b \in Seq(S) /\ Len(b) = IF n + 1 <= Len(q) THEN Len(q) - (n + 1) + 1 ELSE 0
        /\ \A i \in 1..Len(q) - (n + 1) + 1 : b[i] = q[n + 1 + i - 1]
    BY <2>1, SubSeqProperties
  <2> HIDE DEF b
  <2>3. Len(b) = Len(q) - n
    <3>1. CASE n = Len(q)
      BY <1>0, <2>2, <3>1
    <3>2. CASE n # Len(q)
      <4>0. \A l, k \in Nat : k <= l /\ k # l => k + 1 <= l /\ l - (k + 1) + 1 = l - k
        OBVIOUS
      <4>1. n + 1 <= Len(q) /\ Len(q) - (n + 1) + 1 = Len(q) - n
        BY <1>0, <3>2, <4>0
      <4> QED
        BY <2>2, <4>1
    <3> QED
      BY <3>1, <3>2
  <2>4. ASSUME NEW i \in 1..Len(q) - n PROVE b[i] = q[n + i]
    <3>1. i \in 1..Len(q) - (n + 1) + 1 /\ n + 1 + i - 1 = n + i
      BY <1>0
    <3> QED
      BY <2>2, <3>1
  <2> QED
    BY <2>2, <2>3, <2>4
<1> HIDE DEF a, b
<1>3. DOMAIN a = 1..n /\ DOMAIN b = 1..Len(q) - n
  BY <1>1, <1>2
<1>4. \A i, k \in 1..Len(q) - n :
        n + i \in 1..Len(q) /\ n + k \in 1..Len(q) /\ (n + i = n + k => i = k)
  BY <1>0
<1>5. ASSUME NEW i \in DOMAIN b, NEW k \in DOMAIN b, b[i] = b[k] PROVE i = k
  <2>1. /\ n + i \in DOMAIN q /\ n + k \in DOMAIN q /\ (n + i = n + k => i = k)
        /\ q[n + i] = q[n + k]
    BY <1>0, <1>2, <1>3, <1>4, <1>5
  <2>2. n + i = n + k
    BY <2>1 DEF IsInjective
  <2> QED
    BY <2>1, <2>2
<1>8. IsInjective(b)
  BY <1>5 DEF IsInjective
<1>6. ASSUME NEW i \in 1..Len(q) PROVE q[i] \in ToSet(a) \cup ToSet(b)
  <2>1. CASE i <= n
    <3>1. i \in 1..n
      BY <2>1
    <3> QED
      BY <1>1, <1>3, <3>1 DEF ToSet
  <2>2. CASE ~(i <= n)
    <3>1. i - n \in 1..Len(q) - n /\ n + (i - n) = i
      BY <1>0, <2>2
    <3>2. b[i - n] = q[i]
      BY <1>2, <3>1
    <3> QED
      BY <1>3, <3>1, <3>2 DEF ToSet
  <2> QED
    BY <2>1, <2>2
<1>7. ToSet(q) \subseteq ToSet(a) \cup ToSet(b)
  BY <1>0, <1>6 DEF ToSet
<1> QED
  BY <1>1, <1>2, <1>8, <1>7 DEF a, b

\* The head of a batch and the rest.
LEMMA TailFacts ==
  ASSUME NEW S, NEW q \in Seq(S), q # << >>
  PROVE  /\ Head(q) \in S /\ Tail(q) \in Seq(S)
         /\ ToSet(q) \subseteq {Head(q)} \cup ToSet(Tail(q))
<1>0. Len(q) \in Nat \ {0} /\ DOMAIN q = 1..Len(q) /\ Head(q) = q[1] /\ q[1] \in S
  OBVIOUS
<1>1. /\ Tail(q) \in Seq(S) /\ Len(Tail(q)) = Len(q) - 1
      /\ \A i \in 1..Len(q) - 1 : Tail(q)[i] = q[i + 1]
  OBVIOUS
<1>2. ASSUME NEW i \in 1..Len(q) PROVE q[i] \in {Head(q)} \cup ToSet(Tail(q))
  <2>1. CASE i = 1
    BY <1>0, <2>1
  <2>2. CASE i # 1
    <3>1. i - 1 \in 1..Len(q) - 1 /\ (i - 1) + 1 = i /\ DOMAIN Tail(q) = 1..Len(q) - 1
      BY <1>0, <1>1, <2>2
    <3>2. Tail(q)[i - 1] = q[i]
      BY <1>1, <3>1
    <3> QED
      BY <3>1, <3>2 DEF ToSet
  <2> QED
    BY <2>1, <2>2
<1> QED
  BY <1>0, <1>1, <1>2 DEF ToSet

LEMMA WatchTypeStep ==
  ASSUME WatchAssumption, WatchTypeOK, [WatchNext]_watchVars
  PROVE  WatchTypeOK'
<1> DEFINE Limits == now \in 0..MaxTime /\ writes \in 0..MaxWrites /\ faults \in 0..MaxFaults
           Disk == /\ audio \in [Files -> Stamp] /\ sidecar \in [Files -> Stamp]
                   /\ sent \in [Files -> 0..MaxWrites]
           Job == [f : Files, read : BOOLEAN, v : 0..MaxWrites]
           JobType == jobs \in Seq(Job)
           Control ==
             /\ rpc \in [Runs -> {"idle", "checked", "armed", "assigned", "over"}]
             /\ th \in [Runs -> {"none", "starting", "live", "ended"}]
             /\ flag \subseteq Runs
             /\ ctlStop \in Runs \cup {None} /\ ctlThread \in Runs \cup {None}
             /\ stopped \subseteq Stoppers
           Queue == /\ events \in [Runs -> SUBSET Files] /\ ripe \in [Runs -> Nat]
                    /\ pending \in [Runs -> Seq(Files)] /\ batch \in [Runs -> Seq(Files)]
                    /\ \A w \in Runs : IsInjective(pending[w]) /\ ripe[w] <= Len(pending[w])
           Ghosts == owed \subseteq Files /\ raced \in BOOLEAN
<1>0. Limits /\ Disk /\ JobType /\ Control /\ Queue /\ Ghosts
  BY DEF WatchTypeOK
<1>00. Limits' /\ Disk' /\ JobType' /\ Control' /\ Queue' /\ Ghosts' => WatchTypeOK'
  BY DEF WatchTypeOK
<1>a. /\ MaxTime \in Nat /\ MaxWrites \in Nat /\ MaxFaults \in Nat
      /\ MaxRacedWrites \in Nat /\ MaxRacedWrites <= MaxWrites /\ None \notin Runs
  BY DEF WatchAssumption
<1>b. ASSUME Fault PROVE faults' \in 0..MaxFaults
  BY <1>0, <1>a, <1>b DEF Fault
<1>c. jobs \in Seq(Job)
  BY <1>0
<1>d. Job = [f : Files, read : BOOLEAN, v : 0..MaxWrites]
  OBVIOUS
<1> HIDE DEF JobType, Job
<1>1. CASE Tick
  <2>1. now' \in 0..MaxTime
    BY <1>0, <1>a, <1>1 DEF Tick
  <2> QED
    BY <1>0, <1>00, <1>1, <2>1 DEF Tick, disk, control, queue, JobType
<1>2. ASSUME NEW f \in Files, Write(f) PROVE WatchTypeOK'
  <2>1. writes' \in 0..MaxWrites
    BY <1>0, <1>a, <1>2 DEF Write
  <2>2. [v |-> writes', m |-> now] \in Stamp
    BY <1>0, <2>1 DEF Stamp
  <2>3. Disk'
    BY <1>0, <1>2, <2>2 DEF Write
  <2>4. Queue'
    BY <1>0, <1>2 DEF Write
  <2> QED
    BY <1>0, <1>00, <1>2, <2>1, <2>3, <2>4 DEF Write, control, JobType
<1>3. ASSUME NEW f \in Files, Vanish(f) PROVE WatchTypeOK'
  <2>1. Nothing \in Stamp
    BY <1>a DEF Nothing, Stamp
  <2>2. Disk'
    BY <1>0, <1>3, <2>1 DEF Vanish
  <2> QED
    BY <1>0, <1>00, <1>3, <1>b, <2>2 DEF Vanish, control, queue, JobType
<1>4. ASSUME NEW f \in Files, Edit(f) PROVE WatchTypeOK'
  <2>1. [sidecar[f] EXCEPT !.m = now] \in Stamp
    <3>1. sidecar[f] \in [v : 0..MaxWrites, m : 0..MaxTime] /\ now \in 0..MaxTime
      BY <1>0 DEF Stamp
    <3> QED
      BY <3>1 DEF Stamp
  <2>2. Disk'
    BY <1>0, <1>4, <2>1 DEF Edit
  <2> QED
    BY <1>0, <1>00, <1>4, <1>b, <2>2 DEF Edit, control, queue, JobType
<1>5. ASSUME NEW w \in Runs, StartCheck(w) \/ StartArm(w) \/ StartAssign(w) \/ StartThread(w)
      PROVE  WatchTypeOK'
  <2>1. Control'
    BY <1>0, <1>5 DEF StartCheck, StartArm, StartAssign, StartThread
  <2>2. Ghosts'
    BY <1>0, <1>5 DEF StartCheck, StartArm, StartAssign, StartThread
  <2> QED
    BY <1>0, <1>00, <1>5, <2>1, <2>2 DEF StartCheck, StartArm, StartAssign, StartThread,
       bounds, disk, queue, JobType
<1>6. ASSUME NEW u \in Stoppers, Stop(u) PROVE WatchTypeOK'
  <2>1. Control'
    BY <1>0, <1>6 DEF Stop
  <2> QED
    BY <1>0, <1>00, <1>6, <2>1 DEF Stop, bounds, disk, queue, JobType
<1>7. ASSUME NEW w \in Runs, Observe(w) PROVE WatchTypeOK'
  <2>1. Control'
    BY <1>0, <1>7 DEF Observe
  <2> QED
    BY <1>0, <1>00, <1>7, <2>1 DEF Observe, bounds, disk, queue, JobType
<1>8. ASSUME NEW w \in Runs, Ripen(w) PROVE WatchTypeOK'
  <2>1. ripe[w] \in Nat /\ Len(pending[w]) \in Nat /\ ripe[w] + 1 <= Len(pending[w])
    BY <1>0, <1>8 DEF Ripen
  <2>2. Queue'
    BY <1>0, <1>8, <2>1 DEF Ripen
  <2> QED
    BY <1>0, <1>00, <1>8, <2>2 DEF Ripen, bounds, disk, control, JobType
<1>e. ASSUME NEW w \in Runs, End(w) PROVE Queue' /\ owed' \subseteq Files /\ th' \in [Runs -> {"none", "starting", "live", "ended"}]
  <2>1. IsInjective(<< >>) /\ << >> \in Seq(Files) /\ Len(<< >>) = 0
    BY DEF IsInjective
  <2>2. \A u \in Runs : pending'[u] = (IF u = w THEN << >> ELSE pending[u])
                     /\ ripe'[u] = (IF u = w THEN 0 ELSE ripe[u])
    BY <1>0, <1>e DEF End
  <2>3. /\ events' \in [Runs -> SUBSET Files] /\ ripe' \in [Runs -> Nat]
        /\ pending' \in [Runs -> Seq(Files)] /\ batch' \in [Runs -> Seq(Files)]
    BY <1>0, <1>e, <2>1 DEF End
  <2>5. ASSUME NEW u \in Runs PROVE IsInjective(pending'[u]) /\ ripe'[u] <= Len(pending'[u])
    <3>1. CASE u = w
      BY <2>1, <2>2, <3>1
    <3>2. CASE u # w
      BY <1>0, <2>2, <3>2
    <3> QED
      BY <3>1, <3>2
  <2>4. Queue'
    BY <2>3, <2>5
  <2> QED
    BY <1>0, <1>e, <2>4 DEF End
<1>9. ASSUME NEW w \in Runs, StopSeen(w) PROVE WatchTypeOK'
  BY <1>0, <1>00, <1>9, <1>e DEF StopSeen, bounds, disk, JobType
<1>10. ASSUME NEW w \in Runs, Raise(w) PROVE WatchTypeOK'
  BY <1>0, <1>00, <1>10, <1>b, <1>e DEF Raise, disk, JobType
<1>11. ASSUME NEW w \in Runs, Drain(w) PROVE WatchTypeOK'
  <2>1. /\ SubSeq(pending[w], 1, ripe[w]) \in Seq(Files)
        /\ SubSeq(pending[w], ripe[w] + 1, Len(pending[w])) \in Seq(Files)
        /\ IsInjective(SubSeq(pending[w], ripe[w] + 1, Len(pending[w])))
        /\ Len(SubSeq(pending[w], ripe[w] + 1, Len(pending[w]))) \in Nat
    <3>1. pending[w] \in Seq(Files) /\ IsInjective(pending[w]) /\ ripe[w] \in Nat /\ ripe[w] <= Len(pending[w])
      BY <1>0
    <3> QED
      BY <3>1, DrainFacts
  <2> DEFINE rest == SubSeq(pending[w], ripe[w] + 1, Len(pending[w]))
  <2> HIDE DEF rest
  <2>a. rest \in Seq(Files) /\ IsInjective(rest) /\ Len(rest) \in Nat
    BY <2>1 DEF rest
  <2>b. /\ \A u \in Runs : pending'[u] = (IF u = w THEN rest ELSE pending[u])
                         /\ ripe'[u] = (IF u = w THEN 0 ELSE ripe[u])
        /\ events' \in [Runs -> SUBSET Files] /\ ripe' \in [Runs -> Nat]
        /\ pending' \in [Runs -> Seq(Files)] /\ batch' \in [Runs -> Seq(Files)]
    BY <1>0, <1>11, <2>1, <2>a DEF Drain, rest
  <2>c. ASSUME NEW u \in Runs PROVE IsInjective(pending'[u]) /\ ripe'[u] <= Len(pending'[u])
    <3>1. CASE u = w
      <4>1. pending'[u] = rest /\ ripe'[u] = 0
        BY <2>b, <3>1
      <4> QED
        BY <2>a, <4>1
    <3>2. CASE u # w
      BY <1>0, <2>b, <3>2
    <3> QED
      BY <3>1, <3>2
  <2>2. Queue'
    BY <2>b, <2>c
  <2> QED
    BY <1>0, <1>00, <1>11, <2>2 DEF Drain, bounds, disk, control, JobType
<1>12. ASSUME NEW w \in Runs, NEW f \in Files, Deliver(w, f) PROVE WatchTypeOK'
  <2> DEFINE p == Append(RemoveFirst(pending[w], f), f)
  <2>1. p \in Seq(Files) /\ IsInjective(p) /\ Len(p) >= Len(pending[w])
    BY <1>0, EnqueueFacts
  <2>2. /\ pending' = [pending EXCEPT ![w] = p] /\ events' = [events EXCEPT ![w] = @ \ {f}]
        /\ ripe' = [ripe EXCEPT ![w] = IF \E i \in 1..@ : pending[w][i] = f THEN @ - 1 ELSE @]
        /\ UNCHANGED batch
    BY <1>12 DEF Deliver, Enqueue
  <2> HIDE DEF p
  <2>a. ripe[w] \in Nat /\ pending[w] \in Seq(Files) /\ ripe[w] <= Len(pending[w])
    BY <1>0
  <2>b. Len(pending[w]) \in Nat /\ Len(p) \in Nat
    BY <2>1, <2>a
  <2>c. (\E i \in 1..ripe[w] : pending[w][i] = f) => ripe[w] - 1 \in Nat
    BY <2>a
  <2>d. ripe'[w] = IF \E i \in 1..ripe[w] : pending[w][i] = f THEN ripe[w] - 1 ELSE ripe[w]
    BY <1>0, <2>2
  <2>4. ripe'[w] \in Nat /\ ripe'[w] <= Len(p)
    BY <2>1, <2>a, <2>b, <2>c, <2>d
  <2>5. ripe' \in [Runs -> Nat] /\ \A u \in Runs : ripe'[u] = IF u = w THEN ripe'[w] ELSE ripe[u]
    BY <1>0, <2>2, <2>4
  <2>6. Queue'
    BY <1>0, <2>1, <2>2, <2>4, <2>5
  <2> QED
    BY <1>0, <1>00, <1>12, <2>6 DEF Deliver, bounds, disk, control, JobType
<1>13. ASSUME NEW w \in Runs, Handle(w) PROVE WatchTypeOK'
  <2>1. Head(batch[w]) \in Files /\ Tail(batch[w]) \in Seq(Files)
    BY <1>0, <1>13, TailFacts DEF Handle
  <2>2. Queue'
    BY <1>0, <1>13, <2>1 DEF Handle
  <2>3. audio[Head(batch[w])].v \in 0..MaxWrites
    BY <1>0, <2>1 DEF Stamp
  <2>4. Disk'
    BY <1>0, <1>13, <2>1, <2>3 DEF Handle
  <2>5. [f |-> Head(batch[w]), read |-> FALSE, v |-> 0] \in Job
    BY <1>a, <1>d, <2>1
  <2>6. JobType'
    <3>1. Append(jobs, [f |-> Head(batch[w]), read |-> FALSE, v |-> 0]) \in Seq(Job)
      BY <1>c, <2>5
    <3> QED
      BY <1>c, <1>13, <3>1 DEF Handle, JobType
  <2> QED
    BY <1>0, <1>00, <1>13, <2>2, <2>4, <2>6 DEF Handle, bounds, control
<1>14. ASSUME NEW i \in DOMAIN jobs, JobRead(i) \/ JobWrite(i) \/ JobFails(i) PROVE WatchTypeOK'
  <2>1. jobs \in Seq(Job) /\ i \in 1..Len(jobs) /\ jobs[i] \in Job
    BY <1>c
  <2>2. RemoveAt(jobs, i) \in Seq(Job)
    BY <2>1, RemoveAtFacts
  <2>3. ASSUME NEW v \in 0..MaxWrites PROVE [jobs EXCEPT ![i].read = TRUE, ![i].v = v] \in Seq(Job)
    <3> DEFINE j == [jobs[i] EXCEPT !.read = TRUE, !.v = v]
    <3>1. j \in Job
      BY <1>d, <2>1
    <3>2. [jobs EXCEPT ![i].read = TRUE, ![i].v = v] = [jobs EXCEPT ![i] = j]
      BY <2>1
    <3> HIDE DEF j
    <3>3. /\ [jobs EXCEPT ![i] = j] \in Seq(Job)
      BY <2>1, <3>1, ExceptSeq
    <3> QED
      BY <3>2, <3>3
  <2>4. audio[jobs[i].f].v \in 0..MaxWrites /\ jobs[i].f \in Files /\ jobs[i].v \in 0..MaxWrites
    BY <1>0, <1>d, <2>1 DEF Stamp
  <2>5. JobType'
    BY <1>14, <2>2, <2>3, <2>4 DEF JobRead, JobWrite, JobFails, JobType
  <2>6. [v |-> jobs[i].v, m |-> now] \in Stamp
    BY <1>0, <2>4 DEF Stamp
  <2>7. Disk'
    <3>1. /\ UNCHANGED <<audio, sent>>
          /\ \/ UNCHANGED sidecar
             \/ sidecar' = [sidecar EXCEPT ![jobs[i].f] = [v |-> jobs[i].v, m |-> now]]
      BY <1>14 DEF JobRead, JobWrite, JobFails, disk
    <3>2. sidecar' \in [Files -> Stamp]
      BY <1>0, <2>4, <2>6, <3>1
    <3> QED
      BY <1>0, <3>1, <3>2
  <2>8. Limits' /\ Ghosts'
    BY <1>0, <1>14, <1>b DEF JobRead, JobWrite, JobFails, bounds
  <2> QED
    BY <1>0, <1>00, <1>14, <2>5, <2>7, <2>8 DEF JobRead, JobWrite, JobFails, control, queue
<1>15. CASE UNCHANGED watchVars
  BY <1>0, <1>00, <1>15 DEF watchVars, bounds, disk, control, queue, JobType
<1> QED
  BY <1>1, <1>2, <1>3, <1>4, <1>5, <1>6, <1>7, <1>8, <1>9, <1>10, <1>11, <1>12, <1>13, <1>14, <1>15
     DEF WatchNext, ThreadStep, JobStep

\* Outside an overlap of two starts: only one request is between its test and
\* the start of its thread, every thread alive then has been told to stop, and
\* what the request has stored in the controller is its own.
StartsApart ==
  ~raced =>
    /\ \A u, w \in Starting : u = w
    /\ Starting # {} => Alive \subseteq flag
    /\ \A w \in Runs :
         /\ rpc[w] # "over" => th[w] = "none"
         /\ rpc[w] \in {"armed", "assigned"} => ctlStop = w
         /\ rpc[w] = "assigned" => ctlThread = w

\* A batch is in the hands of a thread that runs.
BatchOfLive == \A w \in Runs : batch[w] # << >> => th[w] = "live"

ControlInv == ThreadControlled /\ StartsApart /\ BatchOfLive

LEMMA BatchOfLiveStep ==
  ASSUME WatchAssumption, WatchTypeOK, BatchOfLive, [WatchNext]_watchVars
  PROVE  BatchOfLive'
<1>0. /\ th \in [Runs -> {"none", "starting", "live", "ended"}] /\ batch \in [Runs -> Seq(Files)]
      /\ ctlThread \in Runs \cup {None}
  BY DEF WatchTypeOK
<1>1. ASSUME UNCHANGED <<th, batch>> PROVE BatchOfLive'
  BY <1>1 DEF BatchOfLive
<1>2. CASE Tick
  BY <1>1, <1>2 DEF Tick, control, queue
<1>3. ASSUME NEW f \in Files, Write(f) \/ Vanish(f) \/ Edit(f) PROVE BatchOfLive'
  BY <1>1, <1>3 DEF Write, Vanish, Edit, control, queue
<1>4. ASSUME NEW w \in Runs, StartCheck(w) \/ StartArm(w) \/ StartAssign(w) PROVE BatchOfLive'
  BY <1>1, <1>4 DEF StartCheck, StartArm, StartAssign, queue
<1>5. ASSUME NEW w \in Runs, StartThread(w) PROVE BatchOfLive'
  <2>1. UNCHANGED batch /\ \A u \in Runs : th[u] = "live" => th'[u] = "live"
    BY <1>0, <1>5 DEF StartThread, queue
  <2> QED
    BY <2>1 DEF BatchOfLive
<1>6. ASSUME NEW u \in Stoppers, Stop(u) PROVE BatchOfLive'
  BY <1>1, <1>6 DEF Stop, queue
<1>7. ASSUME NEW w \in Runs, Observe(w) PROVE BatchOfLive'
  <2>1. UNCHANGED batch /\ \A u \in Runs : th[u] = "live" => th'[u] = "live"
    BY <1>0, <1>7 DEF Observe, queue
  <2> QED
    BY <2>1 DEF BatchOfLive
<1>8. ASSUME NEW w \in Runs, Ripen(w) \/ \E f \in Files : Deliver(w, f) PROVE BatchOfLive'
  BY <1>1, <1>8 DEF Ripen, Deliver, control
<1>9. ASSUME NEW w \in Runs, StopSeen(w) \/ Raise(w) PROVE BatchOfLive'
  BY <1>0, <1>9 DEF StopSeen, Raise, End, BatchOfLive
<1>10. ASSUME NEW w \in Runs, Drain(w) \/ Handle(w) PROVE BatchOfLive'
  <2>1. UNCHANGED th /\ th[w] = "live"
    BY <1>10 DEF Drain, Handle, control, BatchOfLive
  <2>2. \A u \in Runs : u # w => batch'[u] = batch[u]
    BY <1>0, <1>10 DEF Drain, Handle
  <2> QED
    BY <2>1, <2>2 DEF BatchOfLive
<1>11. ASSUME NEW i \in DOMAIN jobs, JobRead(i) \/ JobWrite(i) \/ JobFails(i) PROVE BatchOfLive'
  BY <1>1, <1>11 DEF JobRead, JobWrite, JobFails, control, queue
<1>12. CASE UNCHANGED watchVars
  BY <1>1, <1>12 DEF watchVars, control, queue
<1> QED
  BY <1>2, <1>3, <1>4, <1>5, <1>6, <1>7, <1>8, <1>9, <1>10, <1>11, <1>12
     DEF WatchNext, ThreadStep, JobStep

LEMMA ControlStep ==
  ASSUME WatchAssumption, WatchTypeOK, ControlInv, [WatchNext]_watchVars
  PROVE  ThreadControlled' /\ StartsApart'
<1>0. /\ rpc \in [Runs -> {"idle", "checked", "armed", "assigned", "over"}]
      /\ th \in [Runs -> {"none", "starting", "live", "ended"}]
      /\ ctlStop \in Runs \cup {None} /\ ctlThread \in Runs \cup {None}
      /\ flag \subseteq Runs /\ raced \in BOOLEAN
  BY DEF WatchTypeOK
<1> DEFINE Waits(r) == {w \in Runs : r[w] \in {"checked", "armed", "assigned"}}
           Lives(t) == {w \in Runs : t[w] \in {"starting", "live"}}
           Safe(x, r, t, g, s, c) ==
             ~x => /\ \A w \in Lives(t) \ g : w = c /\ w = s
                   /\ \A u, w \in Waits(r) : u = w
                   /\ Waits(r) # {} => Lives(t) \subseteq g
                   /\ \A w \in Runs :
                        /\ r[w] # "over" => t[w] = "none"
                        /\ r[w] \in {"armed", "assigned"} => s = w
                        /\ r[w] = "assigned" => c = w
<1>a. Safe(raced, rpc, th, flag, ctlStop, ctlThread)
  BY DEF ControlInv, ThreadControlled, StartsApart, Starting, Alive
<1>b. ASSUME Safe(raced', rpc', th', flag', ctlStop', ctlThread')
      PROVE  ThreadControlled' /\ StartsApart'
  BY <1>b DEF ThreadControlled, StartsApart, Starting, Alive
<1>1. ASSUME UNCHANGED <<rpc, th, flag, ctlStop, ctlThread, raced>>
      PROVE  ThreadControlled' /\ StartsApart'
  <2>1. Safe(raced', rpc', th', flag', ctlStop', ctlThread')
    BY <1>a, <1>1
  <2> QED
    BY <1>b, <2>1
<1>2. CASE Tick
  BY <1>1, <1>2 DEF Tick, control
<1>3. ASSUME NEW f \in Files, Write(f) \/ Vanish(f) \/ Edit(f)
      PROVE  ThreadControlled' /\ StartsApart'
  BY <1>1, <1>3 DEF Write, Vanish, Edit, control
<1>4. ASSUME NEW w \in Runs, StartCheck(w) PROVE ThreadControlled' /\ StartsApart'
  <2>1. /\ UNCHANGED <<th, flag, ctlStop, ctlThread>> /\ rpc[w] = "idle"
        /\ rpc'[w] = IF Running THEN "over" ELSE "checked"
        /\ \A u \in Runs : u # w => rpc'[u] = rpc[u]
        /\ ~raced' => ~raced /\ (Running \/ Waits(rpc) = {})
    BY <1>0, <1>4 DEF StartCheck, Starting
  <2> SUFFICES ASSUME ~raced' PROVE Safe(raced', rpc', th', flag', ctlStop', ctlThread')
    BY <1>b
  <2>2. CASE Running
    <3>1. Waits(rpc') = Waits(rpc)
      BY <2>1, <2>2
    <3> QED
      BY <1>a, <2>1, <2>2, <3>1
  <2>3. CASE ~Running
    <3>1. Waits(rpc') = {w}
      BY <2>1, <2>3
    <3>2. Lives(th) \subseteq flag
      BY <1>0, <1>a, <2>1, <2>3 DEF Running, Alive, WatchAssumption
    <3> QED
      BY <1>a, <2>1, <2>3, <3>1, <3>2
  <2> QED
    BY <2>2, <2>3
<1>5. ASSUME NEW w \in Runs, StartArm(w) \/ StartAssign(w)
      PROVE  ThreadControlled' /\ StartsApart'
  <2>1. /\ UNCHANGED <<th, flag, raced>> /\ rpc[w] \in {"checked", "armed"}
        /\ \A u \in Runs : u # w => rpc'[u] = rpc[u]
        /\ \/ rpc'[w] = "armed" /\ ctlStop' = w /\ ctlThread' = ctlThread
           \/ rpc[w] = "armed" /\ rpc'[w] = "assigned" /\ ctlStop' = ctlStop /\ ctlThread' = w
    BY <1>0, <1>5 DEF StartArm, StartAssign
  <2> SUFFICES ASSUME ~raced' PROVE Safe(raced', rpc', th', flag', ctlStop', ctlThread')
    BY <1>b
  <2>2. w \in Waits(rpc) /\ Waits(rpc') = Waits(rpc)
    BY <2>1
  <2>3. Waits(rpc) = {w} /\ Lives(th) \subseteq flag
    BY <1>a, <2>1, <2>2
  <2>4. \A u \in Runs : u # w => rpc[u] \notin {"checked", "armed", "assigned"}
    BY <2>3
  <2> QED
    BY <1>a, <2>1, <2>2, <2>3, <2>4
<1>6. ASSUME NEW w \in Runs, StartThread(w) PROVE ThreadControlled' /\ StartsApart'
  <2>1. /\ UNCHANGED <<flag, ctlStop, ctlThread, raced>> /\ rpc[w] = "assigned" /\ rpc'[w] = "over"
        /\ \A u \in Runs : u # w => rpc'[u] = rpc[u]
        /\ th' = IF th[ctlThread] = "none" THEN [th EXCEPT ![ctlThread] = "starting"] ELSE th
    BY <1>0, <1>6 DEF StartThread
  <2> SUFFICES ASSUME ~raced' PROVE Safe(raced', rpc', th', flag', ctlStop', ctlThread')
    BY <1>b
  <2>2. ctlThread = w /\ ctlStop = w /\ th[w] = "none" /\ Waits(rpc) = {w} /\ Lives(th) \subseteq flag
    BY <1>a, <2>1
  <2>3. th'[w] = "starting" /\ \A u \in Runs : u # w => th'[u] = th[u]
    BY <1>0, <2>1, <2>2
  <2>4. Waits(rpc') = {}
    BY <2>1, <2>2
  <2>5. Lives(th') = Lives(th) \cup {w}
    BY <2>3
  <2> QED
    BY <1>a, <2>1, <2>2, <2>3, <2>4, <2>5
<1>7. ASSUME NEW u \in Stoppers, Stop(u) PROVE ThreadControlled' /\ StartsApart'
  <2>1. UNCHANGED <<rpc, th, ctlStop, ctlThread, raced>> /\ flag \subseteq flag'
    BY <1>7 DEF Stop
  <2>2. Safe(raced', rpc', th', flag', ctlStop', ctlThread')
    BY <1>a, <2>1
  <2> QED
    BY <1>b, <2>2
<1>8. ASSUME NEW w \in Runs, Observe(w) \/ StopSeen(w) \/ Raise(w)
      PROVE  ThreadControlled' /\ StartsApart'
  <2>1. /\ UNCHANGED <<rpc, flag, ctlStop, ctlThread, raced>>
        /\ th[w] \in {"starting", "live"} /\ \A u \in Runs : u # w => th'[u] = th[u]
    BY <1>0, <1>8 DEF Observe, StopSeen, Raise, End, ControlInv, BatchOfLive
  <2>2. Lives(th') \subseteq Lives(th)
    BY <2>1
  <2>3. Safe(raced', rpc', th', flag', ctlStop', ctlThread')
    BY <1>a, <2>1, <2>2
  <2> QED
    BY <1>b, <2>3
<1>9. ASSUME NEW w \in Runs, Ripen(w) \/ Drain(w) \/ Handle(w) \/ \E f \in Files : Deliver(w, f)
      PROVE  ThreadControlled' /\ StartsApart'
  BY <1>1, <1>9 DEF Ripen, Drain, Handle, Deliver, control
<1>10. ASSUME NEW i \in DOMAIN jobs, JobRead(i) \/ JobWrite(i) \/ JobFails(i)
       PROVE  ThreadControlled' /\ StartsApart'
  BY <1>1, <1>10 DEF JobRead, JobWrite, JobFails, control
<1>11. CASE UNCHANGED watchVars
  BY <1>1, <1>11 DEF watchVars, control
<1> QED
  BY <1>2, <1>3, <1>4, <1>5, <1>6, <1>7, <1>8, <1>9, <1>10, <1>11
     DEF WatchNext, ThreadStep, JobStep

\* Audio is no newer than the clock; what is owed is there; a job that has
\* read its audio has found some.
Written ==
  /\ \A f \in Files : audio[f].m <= now
  /\ \A f \in owed : audio[f].v # 0
  /\ \A i \in DOMAIN jobs : jobs[i].read => jobs[i].v # 0

\* What a step makes of the jobs.
LEMMA JobFields ==
  ASSUME WatchTypeOK, NEW i \in DOMAIN jobs
  PROVE  /\ jobs[i] \in [f : Files, read : BOOLEAN, v : 0..MaxWrites]
         /\ i \in 1..Len(jobs) /\ DOMAIN jobs = 1..Len(jobs)
<1> DEFINE Job == [f : Files, read : BOOLEAN, v : 0..MaxWrites]
<1>1. jobs \in Seq(Job)
  BY DEF WatchTypeOK
<1> HIDE DEF Job
<1>2. i \in 1..Len(jobs) /\ DOMAIN jobs = 1..Len(jobs) /\ jobs[i] \in Job
  BY <1>1
<1> QED
  BY <1>2 DEF Job

LEMMA JobRemoved ==
  ASSUME WatchTypeOK, NEW i \in DOMAIN jobs, jobs' = RemoveAt(jobs, i)
  PROVE  /\ \A k \in DOMAIN jobs : k # i => \E n \in DOMAIN jobs' : jobs'[n] = jobs[k]
         /\ \A n \in DOMAIN jobs' : \E k \in DOMAIN jobs : jobs'[n] = jobs[k]
<1> DEFINE Job == [f : Files, read : BOOLEAN, v : 0..MaxWrites]
           r == RemoveAt(jobs, i)
<1>1. jobs \in Seq(Job)
  BY DEF WatchTypeOK
<1>2. i \in 1..Len(jobs) /\ DOMAIN jobs = 1..Len(jobs)
  BY JobFields
<1>3. jobs' = r
  OBVIOUS
<1> HIDE DEF Job
<1>4. /\ r \in Seq(Job)
      /\ \A k \in 1..Len(jobs) : k # i => \E n \in 1..Len(r) : r[n] = jobs[k]
      /\ \A n \in 1..Len(r) : \E k \in 1..Len(jobs) : k # i /\ r[n] = jobs[k]
  BY <1>1, <1>2, RemoveAtFacts, RemoveAtKeeps
<1> HIDE DEF r
<1>5. DOMAIN r = 1..Len(r)
  BY <1>4
<1> QED
  BY <1>2, <1>3, <1>4, <1>5

LEMMA JobMarked ==
  ASSUME WatchTypeOK, NEW i \in DOMAIN jobs, NEW v,
         jobs' = [jobs EXCEPT ![i].read = TRUE, ![i].v = v]
  PROVE  /\ DOMAIN jobs' = DOMAIN jobs
         /\ jobs'[i].f = jobs[i].f /\ jobs'[i].v = v
         /\ \A k \in DOMAIN jobs : k # i => jobs'[k] = jobs[k]
BY JobFields

LEMMA WrittenStep ==
  ASSUME WatchAssumption, WatchTypeOK, WatchTypeOK', Written, [WatchNext]_watchVars
  PROVE  Written'
<1> DEFINE Stamps == \A f \in Files : audio[f].m <= now
           There == \A f \in owed : audio[f].v # 0
           Read == \A i \in DOMAIN jobs : jobs[i].read => jobs[i].v # 0
<1>a. Stamps /\ There /\ Read
  BY DEF Written
<1>b. Stamps' /\ There' /\ Read' => Written'
  BY DEF Written
<1>t. /\ now \in 0..MaxTime /\ writes \in 0..MaxWrites /\ owed \subseteq Files
      /\ audio \in [Files -> [v : 0..MaxWrites, m : 0..MaxTime]]
  BY DEF WatchTypeOK, Stamp
<1>u. MaxTime \in Nat /\ MaxWrites \in Nat
  BY DEF WatchAssumption
<1>0. /\ now \in Nat /\ writes \in Nat
      /\ audio \in [Files -> [v : 0..MaxWrites, m : 0..MaxTime]] /\ owed \subseteq Files
      /\ MaxTime \in Nat /\ MaxWrites \in Nat
  BY <1>t, <1>u
<1>c. ASSUME UNCHANGED <<now, audio>> PROVE Stamps'
  BY <1>a, <1>c
<1>d. ASSUME UNCHANGED audio, owed' \subseteq owed PROVE There'
  BY <1>a, <1>d
<1>e. ASSUME UNCHANGED jobs PROVE Read'
  BY <1>a, <1>e
<1>1. CASE Tick
  <2>1. \A m \in 0..MaxTime : m <= now => m <= now + 1
    BY <1>0
  <2>2. \A f \in Files : audio[f].m \in 0..MaxTime
    BY <1>0
  <2>3. Stamps'
    BY <1>a, <1>1, <2>1, <2>2 DEF Tick, disk
  <2> QED
    BY <1>b, <1>d, <1>e, <1>1, <2>3 DEF Tick, disk
<1>2. ASSUME NEW f \in Files, Write(f) PROVE Written'
  <2>1. /\ audio' = [audio EXCEPT ![f] = [v |-> writes + 1, m |-> now]]
        /\ UNCHANGED <<now, jobs>> /\ owed' \subseteq owed \cup {f} /\ now <= now /\ writes + 1 # 0
    BY <1>0, <1>2 DEF Write
  <2>2. Stamps' /\ There'
    BY <1>0, <1>a, <2>1
  <2> QED
    BY <1>b, <1>e, <2>1, <2>2
<1>3. ASSUME NEW f \in Files, Vanish(f) PROVE Written'
  <2>1. /\ audio' = [audio EXCEPT ![f] = [v |-> 0, m |-> 0]]
        /\ UNCHANGED <<now, jobs>> /\ owed' = owed \ {f} /\ 0 <= now
    BY <1>0, <1>3 DEF Vanish, Nothing
  <2>2. Stamps' /\ There'
    BY <1>0, <1>a, <2>1
  <2> QED
    BY <1>b, <1>e, <2>1, <2>2
<1>4. ASSUME NEW f \in Files, Edit(f) PROVE Written'
  BY <1>b, <1>c, <1>d, <1>e, <1>4 DEF Edit
<1>5. ASSUME NEW w \in Runs, StartCheck(w) \/ StartArm(w) \/ StartAssign(w) \/ StartThread(w)
      PROVE  Written'
  BY <1>b, <1>c, <1>d, <1>e, <1>5
     DEF StartCheck, StartArm, StartAssign, StartThread, bounds, disk
<1>6. ASSUME NEW u \in Stoppers, Stop(u) PROVE Written'
  BY <1>b, <1>c, <1>d, <1>e, <1>6 DEF Stop, bounds, disk
<1>7. ASSUME NEW w \in Runs,
             Observe(w) \/ Ripen(w) \/ Drain(w) \/ \E f \in Files : Deliver(w, f)
      PROVE  Written'
  BY <1>b, <1>c, <1>d, <1>e, <1>7 DEF Observe, Ripen, Drain, Deliver, bounds, disk
<1>8. ASSUME NEW w \in Runs, StopSeen(w) \/ Raise(w) PROVE Written'
  BY <1>b, <1>c, <1>d, <1>e, <1>8 DEF StopSeen, Raise, End, bounds, disk
<1>9. ASSUME NEW w \in Runs, Handle(w) PROVE Written'
  <2>1. jobs \in Seq([f : Files, read : BOOLEAN, v : 0..MaxWrites]) /\ jobs' \in Seq([f : Files, read : BOOLEAN, v : 0..MaxWrites])
    BY DEF WatchTypeOK
  <2>2. \/ UNCHANGED jobs
        \/ jobs' = Append(jobs, [f |-> Head(batch[w]), read |-> FALSE, v |-> 0])
    BY <1>9 DEF Handle
  <2>3. Read'
    <3>1. CASE UNCHANGED jobs
      BY <1>e, <3>1
    <3>2. CASE jobs' = Append(jobs, [f |-> Head(batch[w]), read |-> FALSE, v |-> 0])
      <4> DEFINE j == [f |-> Head(batch[w]), read |-> FALSE, v |-> 0]
      <4>1. j.read = FALSE
        OBVIOUS
      <4> HIDE DEF j
      <4>2. \A i \in DOMAIN jobs' : jobs'[i] = j \/ (i \in DOMAIN jobs /\ jobs'[i] = jobs[i])
        <5>1. jobs' = Append(jobs, j)
          BY <3>2 DEF j
        <5> QED
          BY <2>1, <5>1
      <4> QED
        BY <1>a, <4>1, <4>2
    <3> QED
      BY <2>2, <3>1, <3>2
  <2> QED
    BY <1>b, <1>c, <1>d, <1>9, <2>3 DEF Handle, bounds
<1>10. ASSUME NEW i \in DOMAIN jobs, JobRead(i) \/ JobWrite(i) \/ JobFails(i) PROVE Written'
  <2>1. UNCHANGED <<now, audio>> /\ owed' \subseteq owed
    BY <1>10 DEF JobRead, JobWrite, JobFails, bounds, disk
  <2>2. CASE jobs' = RemoveAt(jobs, i)
    <3>1. \A n \in DOMAIN jobs' : \E k \in DOMAIN jobs : jobs'[n] = jobs[k]
      BY <2>2, JobRemoved
    <3>2. Read'
      BY <1>a, <3>1
    <3> QED
      BY <1>b, <1>c, <1>d, <2>1, <3>2
  <2>3. ASSUME NEW v \in 0..MaxWrites, v # 0, jobs' = [jobs EXCEPT ![i].read = TRUE, ![i].v = v]
        PROVE  Written'
    <3>1. DOMAIN jobs' = DOMAIN jobs /\ jobs'[i].v = v /\ \A k \in DOMAIN jobs : k # i => jobs'[k] = jobs[k]
      BY <2>3, JobMarked
    <3>2. Read'
      BY <1>a, <2>3, <3>1
    <3> QED
      BY <1>b, <1>c, <1>d, <2>1, <3>2
  <2>4. jobs[i].f \in Files /\ audio[jobs[i].f].v \in 0..MaxWrites
    BY <1>0, JobFields
  <2>5. \/ jobs' = RemoveAt(jobs, i)
        \/ \E v \in 0..MaxWrites : v # 0 /\ jobs' = [jobs EXCEPT ![i].read = TRUE, ![i].v = v]
    <3>1. CASE JobRead(i)
      BY <2>4, <3>1 DEF JobRead
    <3>2. CASE JobWrite(i) \/ JobFails(i)
      BY <3>2 DEF JobWrite, JobFails
    <3> QED
      BY <1>10, <3>1, <3>2
  <2> QED
    BY <2>2, <2>3, <2>5
<1>11. CASE UNCHANGED watchVars
  BY <1>b, <1>c, <1>d, <1>e, <1>11 DEF watchVars, bounds, disk
<1> QED
  BY <1>1, <1>2, <1>3, <1>4, <1>5, <1>6, <1>7, <1>8, <1>9, <1>10, <1>11
     DEF WatchNext, ThreadStep, JobStep

LEMMA ForgottenStep ==
  ASSUME WatchAssumption, WatchTypeOK, WatchTypeOK', BatchOfLive, Written, Written',
         NoFileForgotten, [WatchNext]_watchVars
  PROVE  NoFileForgotten'
<1> DEFINE Job == [f : Files, read : BOOLEAN, v : 0..MaxWrites]
           Settled(f) == \/ audio[f].v = sidecar[f].v \/ audio[f].v = sent[f]
                         \/ sidecar[f].v # 0 /\ audio[f].m <= sidecar[f].m
           Held(w, f) == f \in events[w] \/ f \in ToSet(pending[w]) \/ f \in ToSet(batch[w])
           Waits(f) == \E w \in Runs : th[w] = "live" /\ Held(w, f)
           Carries(j, f) == j.f = f /\ (j.read => j.v = audio[f].v)
           Worked(f) == \E i \in DOMAIN jobs : Carries(jobs[i], f)
           Kept(f) == Settled(f) \/ Waits(f) \/ Worked(f)
<1>a. \A f \in owed : Kept(f)
  BY DEF NoFileForgotten, Current, Masked, InWork, Observing
<1>b. ASSUME \A f \in owed' : Kept(f)' PROVE NoFileForgotten'
  BY <1>b DEF NoFileForgotten, Current, Masked, InWork, Observing
<1>0. /\ now \in 0..MaxTime /\ now' \in 0..MaxTime /\ owed \subseteq Files /\ owed' \subseteq Files
      /\ audio \in [Files -> [v : 0..MaxWrites, m : 0..MaxTime]]
      /\ sidecar \in [Files -> [v : 0..MaxWrites, m : 0..MaxTime]]
      /\ sent \in [Files -> 0..MaxWrites]
      /\ th \in [Runs -> {"none", "starting", "live", "ended"}]
      /\ events \in [Runs -> SUBSET Files]
      /\ pending \in [Runs -> Seq(Files)] /\ batch \in [Runs -> Seq(Files)] /\ ripe \in [Runs -> Nat]
      /\ \A w \in Runs : IsInjective(pending[w]) /\ ripe[w] <= Len(pending[w])
      /\ MaxTime \in Nat /\ MaxWrites \in Nat
  BY DEF WatchTypeOK, Stamp, WatchAssumption
<1>j. jobs \in Seq(Job) /\ jobs' \in Seq(Job)
  BY DEF WatchTypeOK
\* What stays as it is.
<1>c. ASSUME NEW f, UNCHANGED <<audio, sidecar, sent>>, Settled(f) PROVE Settled(f)'
  BY <1>c
<1>d. ASSUME NEW f, UNCHANGED <<events, pending, batch>>, \A w \in Runs : th[w] = "live" => th'[w] = "live",
             Waits(f)
      PROVE  Waits(f)'
  BY <1>d
<1>e. ASSUME NEW f, UNCHANGED <<audio, jobs>>, Worked(f) PROVE Worked(f)'
  BY <1>e
<1>f. ASSUME UNCHANGED <<audio, sidecar, sent, events, pending, batch, jobs, owed>>,
             \A w \in Runs : th[w] = "live" => th'[w] = "live"
      PROVE  NoFileForgotten'
  <2> HIDE DEF Settled, Waits, Worked
  <2> QED
    BY <1>a, <1>b, <1>c, <1>d, <1>e, <1>f
<1>1. CASE Tick
  BY <1>f, <1>1 DEF Tick, disk, control, queue
<1>2. ASSUME NEW f \in Files, Write(f) PROVE NoFileForgotten'
  <2>0. \A g \in Files : g # f => audio'[g] = audio[g]
    BY <1>0, <1>2 DEF Write
  <2>1. UNCHANGED <<sidecar, sent, jobs, th, pending, batch>>
    BY <1>2 DEF Write, control
  <2>2. \A w \in Runs : /\ events[w] \subseteq events'[w]
                        /\ th[w] = "live" => f \in events'[w]
    BY <1>0, <1>2 DEF Write, Observing
  <2>3. f \in owed' => \E w \in Runs : th[w] = "live"
    BY <1>2 DEF Write, Observing
  <2>4. owed' \subseteq owed \cup {f}
    BY <1>2 DEF Write
  <2>5. f \in owed' => Waits(f)'
    BY <2>1, <2>2, <2>3
  <2>6. ASSUME NEW g \in owed, g # f PROVE Kept(g)'
    <3>1. audio'[g] = audio[g]
      BY <1>0, <2>0, <2>6
    <3>2. Settled(g) => Settled(g)'
      BY <2>1, <3>1
    <3>3. Waits(g) => Waits(g)'
      BY <2>1, <2>2
    <3>4. Worked(g) => Worked(g)'
      BY <2>1, <3>1
    <3> HIDE DEF Settled, Waits, Worked
    <3> QED
      BY <1>a, <2>6, <3>2, <3>3, <3>4
  <2> HIDE DEF Settled, Waits, Worked
  <2> QED
    BY <1>b, <2>4, <2>5, <2>6
<1>3. ASSUME NEW f \in Files, Vanish(f) PROVE NoFileForgotten'
  <2>0. \A g \in Files : g # f => audio'[g] = audio[g]
    BY <1>0, <1>3 DEF Vanish
  <2>1. UNCHANGED <<sidecar, sent, jobs, th, events, pending, batch>> /\ owed' = owed \ {f}
    BY <1>3 DEF Vanish, control, queue
  <2>2. ASSUME NEW g \in owed, g # f PROVE Kept(g)'
    <3>1. audio'[g] = audio[g]
      BY <1>0, <2>0, <2>2
    <3>2. Settled(g) => Settled(g)'
      BY <2>1, <3>1
    <3>3. Waits(g) => Waits(g)'
      BY <2>1
    <3>4. Worked(g) => Worked(g)'
      BY <2>1, <3>1
    <3> HIDE DEF Settled, Waits, Worked
    <3> QED
      BY <1>a, <2>2, <3>2, <3>3, <3>4
  <2> HIDE DEF Settled, Waits, Worked
  <2> QED
    BY <1>b, <2>1, <2>2
<1>4. ASSUME NEW f \in Files, Edit(f) PROVE NoFileForgotten'
  <2>1. /\ UNCHANGED <<audio, sent, jobs, th, events, pending, batch, owed>>
        /\ sidecar[f].v # 0 /\ sidecar'[f].v = sidecar[f].v /\ sidecar'[f].m = now
        /\ \A g \in Files : g # f => sidecar'[g] = sidecar[g]
    BY <1>0, <1>4 DEF Edit, control, queue
  <2>2. audio[f].m <= now
    BY DEF Written
  <2>3. ASSUME NEW g \in owed PROVE Kept(g)'
    <3>1. CASE g = f
      BY <2>1, <2>2, <3>1
    <3>2. CASE g # f
      <4>1. Settled(g) => Settled(g)'
        BY <1>0, <2>1, <2>3, <3>2
      <4> HIDE DEF Settled, Waits, Worked
      <4> QED
        BY <1>a, <1>d, <1>e, <2>1, <2>3, <4>1
    <3> QED
      BY <3>1, <3>2
  <2> QED
    BY <1>b, <2>1, <2>3
<1>5. ASSUME NEW w \in Runs, StartCheck(w) \/ StartArm(w) \/ StartAssign(w)
      PROVE  NoFileForgotten'
  BY <1>f, <1>5 DEF StartCheck, StartArm, StartAssign, disk, queue
<1>6. ASSUME NEW w \in Runs, StartThread(w) \/ Observe(w) PROVE NoFileForgotten'
  <2>1. \A u \in Runs : th[u] = "live" => th'[u] = "live"
    BY <1>0, <1>6 DEF StartThread, Observe
  <2> QED
    BY <1>f, <1>6, <2>1 DEF StartThread, Observe, disk, queue
<1>7. ASSUME NEW u \in Stoppers, Stop(u) PROVE NoFileForgotten'
  BY <1>f, <1>7 DEF Stop, disk, queue
<1>8. ASSUME NEW w \in Runs, Ripen(w) PROVE NoFileForgotten'
  BY <1>f, <1>8 DEF Ripen, disk, control
\* Files change hands in a thread: nothing it holds is let go.
<1>g. ASSUME NEW w \in Runs, UNCHANGED <<audio, sidecar, sent, jobs, th, owed>>,
             \A u \in Runs : u # w => /\ events'[u] = events[u]
                                      /\ pending'[u] = pending[u] /\ batch'[u] = batch[u],
             \A f \in Files : Held(w, f) => Held(w, f)'
      PROVE  NoFileForgotten'
  <2>1. ASSUME NEW f \in Files, Waits(f) PROVE Waits(f)'
    <3>1. PICK u \in Runs : th[u] = "live" /\ Held(u, f)
      BY <2>1
    <3>2. CASE u = w
      BY <1>g, <2>1, <3>1, <3>2
    <3>3. CASE u # w
      BY <1>g, <3>1, <3>3
    <3> QED
      BY <3>2, <3>3
  <2> HIDE DEF Settled, Waits, Worked
  <2> QED
    BY <1>0, <1>a, <1>b, <1>c, <1>e, <1>g, <2>1
<1>9. ASSUME NEW w \in Runs, NEW g \in Files, Deliver(w, g) PROVE NoFileForgotten'
  <2> DEFINE p == Append(RemoveFirst(pending[w], g), g)
  <2>1. ToSet(p) = ToSet(pending[w]) \cup {g}
    BY <1>0, EnqueueFacts
  <2>2. /\ pending' = [pending EXCEPT ![w] = p] /\ events' = [events EXCEPT ![w] = @ \ {g}]
        /\ UNCHANGED <<audio, sidecar, sent, jobs, th, batch, owed>>
    BY <1>9 DEF Deliver, Enqueue, disk, control
  <2> HIDE DEF p
  <2>3. pending'[w] = p /\ events'[w] = events[w] \ {g} /\ batch'[w] = batch[w]
    BY <1>0, <2>2
  <2>4. \A f \in Files : Held(w, f) => Held(w, f)'
    BY <2>1, <2>3
  <2>5. \A u \in Runs : u # w => events'[u] = events[u] /\ pending'[u] = pending[u] /\ batch'[u] = batch[u]
    BY <1>0, <2>2
  <2> HIDE DEF Held
  <2> QED
    BY <1>g, <2>2, <2>4, <2>5
<1>10. ASSUME NEW w \in Runs, Drain(w) PROVE NoFileForgotten'
  <2> DEFINE a == SubSeq(pending[w], 1, ripe[w])
             b == SubSeq(pending[w], ripe[w] + 1, Len(pending[w]))
  <2>1. ToSet(pending[w]) \subseteq ToSet(a) \cup ToSet(b)
    BY <1>0, DrainFacts
  <2>2. /\ batch' = [batch EXCEPT ![w] = a] /\ pending' = [pending EXCEPT ![w] = b]
        /\ UNCHANGED <<audio, sidecar, sent, jobs, th, events, owed>> /\ batch[w] = << >>
    BY <1>10 DEF Drain, disk, control
  <2> HIDE DEF a, b
  <2>3. pending'[w] = b /\ events'[w] = events[w] /\ batch'[w] = a /\ ToSet(batch[w]) = {}
    BY <1>0, <2>2 DEF ToSet
  <2>4. \A f \in Files : Held(w, f) => Held(w, f)'
    BY <2>1, <2>3
  <2>5. \A u \in Runs : u # w => events'[u] = events[u] /\ pending'[u] = pending[u] /\ batch'[u] = batch[u]
    BY <1>0, <2>2
  <2> HIDE DEF Held
  <2> QED
    BY <1>g, <2>2, <2>4, <2>5
<1>11. ASSUME NEW w \in Runs, StopSeen(w) \/ Raise(w) PROVE NoFileForgotten'
  <2>1. /\ UNCHANGED <<audio, sidecar, sent, jobs>>
        /\ \A f : f \in owed' => f \in owed /\ ~Held(w, f)
        /\ \A u \in Runs : u # w => /\ th'[u] = th[u] /\ events'[u] = events[u]
                                    /\ pending'[u] = pending[u] /\ batch'[u] = batch[u]
    BY <1>0, <1>11 DEF StopSeen, Raise, End, disk
  <2>2. ASSUME NEW f \in owed', Waits(f) PROVE Waits(f)'
    <3>1. PICK u \in Runs : th[u] = "live" /\ Held(u, f)
      BY <2>2
    <3>2. u # w
      BY <2>1, <2>2, <3>1
    <3> QED
      BY <2>1, <3>1, <3>2
  <2> HIDE DEF Settled, Waits, Worked, Held
  <2> QED
    BY <1>a, <1>b, <1>c, <1>e, <2>1, <2>2
<1>12. ASSUME NEW w \in Runs, Handle(w) PROVE NoFileForgotten'
  <2>0. PICK f \in Files : f = Head(batch[w])
    BY <1>0, <1>12, TailFacts DEF Handle
  <2>1. ToSet(batch[w]) \subseteq {f} \cup ToSet(Tail(batch[w]))
    BY <1>0, <1>12, <2>0, TailFacts DEF Handle
  <2> DEFINE j == [f |-> f, read |-> FALSE, v |-> 0]
  <2>2. /\ UNCHANGED <<audio, sidecar, th, events, pending, owed>>
        /\ batch' = [batch EXCEPT ![w] = Tail(batch[w])]
        /\ \/ sent' = [sent EXCEPT ![f] = audio[f].v] /\ UNCHANGED jobs
           \/ jobs' = Append(jobs, j) /\ UNCHANGED sent
           \/ /\ ~ShouldProcess(f) /\ UNCHANGED <<sent, jobs>>
    BY <1>12, <2>0 DEF Handle, control
  <2>a. j.f = f /\ j.read = FALSE
    OBVIOUS
  <2> HIDE DEF j
  <2>3. ASSUME NEW g \in owed, g # f, Waits(g) PROVE Waits(g)'
    <3>1. PICK u \in Runs : th[u] = "live" /\ Held(u, g)
      BY <2>3
    <3>2. \A x \in Runs : x # w => batch'[x] = batch[x]
      BY <1>0, <2>2
    <3>3. batch'[w] = Tail(batch[w])
      BY <1>0, <2>2
    <3>4. Held(u, g)'
      BY <2>1, <2>2, <2>3, <3>1, <3>2, <3>3
    <3> QED
      BY <2>2, <3>1, <3>4
  <2>4. /\ \A i \in DOMAIN jobs : i \in DOMAIN jobs' /\ jobs'[i] = jobs[i]
        /\ jobs' = Append(jobs, j) => \E i \in DOMAIN jobs' : jobs'[i] = j
    <3>1. CASE UNCHANGED jobs
      BY <1>j, <3>1, AppendProperties
    <3>2. CASE jobs' = Append(jobs, j)
      <4>1. j \in Job
        BY <1>0, <2>1 DEF j
      <4>2. /\ Len(Append(jobs, j)) = Len(jobs) + 1 /\ Append(jobs, j)[Len(jobs) + 1] = j
            /\ \A i \in 1..Len(jobs) : Append(jobs, j)[i] = jobs[i]
        BY <1>j, <4>1, AppendProperties
      <4>3. Len(jobs) \in Nat /\ DOMAIN jobs = 1..Len(jobs) /\ DOMAIN jobs' = 1..Len(jobs')
        BY <1>j
      <4>4. DOMAIN jobs' = 1..Len(jobs) + 1
        BY <3>2, <4>2, <4>3
      <4> QED
        BY <3>2, <4>2, <4>3, <4>4
    <3> QED
      BY <2>2, <3>1, <3>2
  <2>5. \A g : Worked(g) => Worked(g)'
    BY <2>2, <2>4
  <2>6. ASSUME NEW g \in owed, g # f, Settled(g) PROVE Settled(g)'
    <3>1. g \in Files /\ sent'[g] = sent[g]
      BY <1>0, <2>2, <2>6
    <3> QED
      BY <2>2, <2>6, <3>1
  <2>7. f \in owed => Kept(f)'
    <3>1. CASE sent' = [sent EXCEPT ![f] = audio[f].v]
      <4>1. sent'[f] = audio'[f].v
        BY <1>0, <2>2, <3>1
      <4> QED
        BY <4>1
    <3>2. CASE jobs' = Append(jobs, j)
      <4>1. PICK i \in DOMAIN jobs' : jobs'[i] = j
        BY <2>4, <3>2
      <4>2. jobs'[i].f = f /\ ~jobs'[i].read
        BY <2>a, <4>1
      <4> QED
        BY <4>2
    <3>3. CASE ~ShouldProcess(f)
      <4>1. sidecar[f].v # 0 /\ audio[f].m <= sidecar[f].m
        <5>1. audio[f].m \in Nat /\ sidecar[f].m \in Nat
          BY <1>0, <2>1
        <5> QED
          BY <3>3, <5>1 DEF ShouldProcess
      <4> QED
        BY <2>2, <4>1
    <3> QED
      BY <2>2, <3>1, <3>2, <3>3
  <2> HIDE DEF Settled, Waits, Worked
  <2> QED
    BY <1>a, <1>b, <2>2, <2>3, <2>5, <2>6, <2>7
<1>13. ASSUME NEW i \in DOMAIN jobs, JobRead(i) PROVE NoFileForgotten'
  <2>1. PICK f \in Files : f = jobs[i].f
    BY JobFields
  <2>2. /\ UNCHANGED <<audio, sidecar, sent, th, events, pending, batch, owed>>
        /\ jobs' = IF audio[f].v = 0 THEN RemoveAt(jobs, i)
                   ELSE [jobs EXCEPT ![i].read = TRUE, ![i].v = audio[f].v]
    BY <1>13, <2>1 DEF JobRead, disk, control, queue
  <2>3. ASSUME NEW g \in owed, Worked(g) PROVE Worked(g)'
    <3>1. PICK k \in DOMAIN jobs : Carries(jobs[k], g)
      BY <2>3
    <3>2. CASE audio[f].v = 0
      <4>1. g # f
        BY <2>3, <3>2 DEF Written
      <4>2. k # i
        BY <2>1, <3>1, <4>1
      <4>r. jobs' = RemoveAt(jobs, i)
        BY <2>2, <3>2
      <4>3. \E n \in DOMAIN jobs' : jobs'[n] = jobs[k]
        BY <4>r, <4>2, JobRemoved
      <4> QED
        BY <2>2, <3>1, <4>3
    <3>3. CASE audio[f].v # 0
      <4>1. /\ DOMAIN jobs' = DOMAIN jobs
            /\ jobs'[i].f = f /\ jobs'[i].v = audio[f].v
            /\ \A n \in DOMAIN jobs : n # i => jobs'[n] = jobs[n]
        <5>1. jobs' = [jobs EXCEPT ![i].read = TRUE, ![i].v = audio[f].v]
          BY <2>2, <3>3
        <5> QED
          BY <2>1, <5>1, JobMarked
      <4>2. CASE k = i
        BY <2>1, <2>2, <3>1, <4>1, <4>2
      <4>3. CASE k # i
        BY <2>2, <3>1, <4>1, <4>3
      <4> QED
        BY <4>2, <4>3
    <3> QED
      BY <3>2, <3>3
  <2> HIDE DEF Settled, Waits, Worked
  <2> QED
    BY <1>a, <1>b, <1>c, <1>d, <2>2, <2>3
<1>14. ASSUME NEW i \in DOMAIN jobs, JobWrite(i) PROVE NoFileForgotten'
  <2>0. PICK f \in Files : f = jobs[i].f
    BY JobFields
  <2>1. jobs[i].v # 0 /\ audio[f].m <= now
    BY <1>14 DEF Written, JobWrite
  <2>2. /\ UNCHANGED <<audio, sent, th, events, pending, batch, owed>>
        /\ sidecar' = [sidecar EXCEPT ![f] = [v |-> jobs[i].v, m |-> now]]
        /\ jobs' = RemoveAt(jobs, i)
    BY <1>14, <2>0 DEF JobWrite, control, queue
  <2>3. Settled(f)'
    <3>1. sidecar'[f].v = jobs[i].v /\ sidecar'[f].m = now /\ audio' = audio
      BY <1>0, <2>2
    <3> QED
      BY <2>1, <3>1
  <2>4. ASSUME NEW g \in owed, g # f PROVE Kept(g)'
    <3>1. Settled(g) => Settled(g)'
      <4>1. sidecar'[g] = sidecar[g]
        BY <1>0, <2>2, <2>4
      <4> QED
        BY <2>2, <4>1
    <3>2. ASSUME Worked(g) PROVE Worked(g)'
      <4>1. PICK k \in DOMAIN jobs : Carries(jobs[k], g)
        BY <3>2
      <4>3. k # i
        BY <2>0, <2>4, <4>1
      <4>2. \E n \in DOMAIN jobs' : jobs'[n] = jobs[k]
        BY <2>2, <4>3, JobRemoved
      <4> QED
        BY <2>2, <4>1, <4>2
    <3> HIDE DEF Settled, Waits, Worked
    <3> QED
      BY <1>a, <1>d, <2>2, <2>4, <3>1, <3>2
  <2> HIDE DEF Settled, Waits, Worked
  <2> QED
    BY <1>b, <2>2, <2>3, <2>4
<1>15. ASSUME NEW i \in DOMAIN jobs, JobFails(i) PROVE NoFileForgotten'
  <2>0. PICK f \in Files : f = jobs[i].f
    BY JobFields
  <2>1. /\ UNCHANGED <<audio, sidecar, sent, th, events, pending, batch>>
        /\ jobs[i].read /\ jobs' = RemoveAt(jobs, i) /\ owed' \subseteq owed
        /\ f \in owed' => jobs[i].v # audio[f].v
    BY <1>15, <2>0 DEF JobFails, disk, control, queue
  <2>2. ASSUME NEW g \in owed', Worked(g) PROVE Worked(g)'
    <3>1. PICK k \in DOMAIN jobs : Carries(jobs[k], g)
      BY <2>2
    <3>2. k # i
      BY <2>0, <2>1, <2>2, <3>1
    <3>3. \E n \in DOMAIN jobs' : jobs'[n] = jobs[k]
      BY <2>1, <3>2, JobRemoved
    <3> QED
      BY <2>1, <3>1, <3>3
  <2> HIDE DEF Settled, Waits, Worked
  <2> QED
    BY <1>a, <1>b, <1>c, <1>d, <2>1, <2>2
<1>16. CASE UNCHANGED watchVars
  BY <1>f, <1>16 DEF watchVars, disk, control, queue
<1> QED
  BY <1>1, <1>2, <1>3, <1>4, <1>5, <1>6, <1>7, <1>8, <1>9, <1>10, <1>11, <1>12, <1>13, <1>14,
     <1>15, <1>16
     DEF WatchNext, ThreadStep, JobStep

WatchInv == WatchTypeOK /\ ControlInv /\ Written /\ NoFileForgotten

LEMMA WatchInvariant ==
  ASSUME WatchAssumption
  PROVE  WatchSpec => []WatchInv
<1>1. ASSUME WatchInit PROVE WatchInv
  <2>1. IsInjective(<< >>) /\ << >> \in Seq(Files) /\ Len(<< >>) = 0 /\ DOMAIN << >> = {}
    BY DEF IsInjective
  <2>2. Nothing \in Stamp
    BY DEF Nothing, Stamp, WatchAssumption
  <2>3. jobs \in Seq([f : Files, read : BOOLEAN, v : 0..MaxWrites])
    BY <1>1, <2>1 DEF WatchInit
  <2>a. /\ now \in 0..MaxTime /\ writes \in 0..MaxWrites /\ faults \in 0..MaxFaults
        /\ sent \in [Files -> 0..MaxWrites]
    BY <1>1 DEF WatchInit, WatchAssumption
  <2>b. audio \in [Files -> Stamp] /\ sidecar \in [Files -> Stamp]
    BY <1>1, <2>2 DEF WatchInit
  <2>c. /\ events \in [Runs -> SUBSET Files] /\ ripe \in [Runs -> Nat]
        /\ pending \in [Runs -> Seq(Files)] /\ batch \in [Runs -> Seq(Files)]
    BY <1>1, <2>1 DEF WatchInit
  <2>d. \A w \in Runs : IsInjective(pending[w]) /\ ripe[w] <= Len(pending[w])
    <3>1. IsInjective(<< >>)
      BY <2>1
    <3>2. \A w \in Runs : pending[w] = << >> /\ ripe[w] = 0
      BY <1>1 DEF WatchInit
    <3>3. 0 <= Len(<< >>)
      BY <2>1
    <3> QED
      BY <3>1, <3>2, <3>3
  <2>4. WatchTypeOK
    BY <1>1, <2>3, <2>a, <2>b, <2>c, <2>d DEF WatchInit, WatchTypeOK
  <2>5. ControlInv
    BY <1>1 DEF WatchInit, ControlInv, ThreadControlled, StartsApart, BatchOfLive, Alive, Starting
  <2>6. Written
    BY <1>1, <2>1 DEF WatchInit, Written, Nothing
  <2>7. NoFileForgotten
    BY <1>1 DEF WatchInit, NoFileForgotten
  <2> QED
    BY <2>4, <2>5, <2>6, <2>7 DEF WatchInv
<1>2. ASSUME WatchInv, [WatchNext]_watchVars PROVE WatchInv'
  <2>1. WatchTypeOK'
    BY <1>2, WatchTypeStep DEF WatchInv
  <2>2. ControlInv'
    BY <1>2, ControlStep, BatchOfLiveStep DEF WatchInv, ControlInv
  <2>3. Written'
    BY <1>2, <2>1, WrittenStep DEF WatchInv
  <2>4. NoFileForgotten'
    BY <1>2, <2>1, <2>3, ForgottenStep DEF WatchInv, ControlInv
  <2> QED
    BY <2>1, <2>2, <2>3, <2>4 DEF WatchInv
<1> QED
  BY <1>1, <1>2, PTL DEF WatchSpec

\* Types: the queue of a watcher names no file twice, and no more of its files
\* are quiet than wait in it.
THEOREM WatchTyped ==
  ASSUME WatchAssumption
  PROVE  WatchSpec => []WatchTypeOK
<1>1. WatchInv => WatchTypeOK
  BY DEF WatchInv
<1> QED
  BY <1>1, WatchInvariant, PTL

\* The last version of a file written under a watcher is transcribed, sent, on
\* its way, or masked by a sidecar written after it (watcher.py, ingest/watch.py).
THEOREM FilesNotForgotten ==
  ASSUME WatchAssumption
  PROVE  WatchSpec => []NoFileForgotten
<1>1. WatchInv => NoFileForgotten
  BY DEF WatchInv
<1> QED
  BY <1>1, WatchInvariant, PTL

\* Unless two starts have overlapped, a thread that nobody has told to stop is
\* the one that stop() reaches and start() refuses to double.
THEOREM WatcherControlled ==
  ASSUME WatchAssumption
  PROVE  WatchSpec => []ThreadControlled
<1>1. WatchInv => ThreadControlled
  BY DEF WatchInv, ControlInv
<1> QED
  BY <1>1, WatchInvariant, PTL
=============================================================================
