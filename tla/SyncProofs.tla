----------------------------- MODULE SyncProofs -----------------------------
(***************************************************************************)
(* The cursor passes no version the laptop lacks: proofs about SyncFeed.   *)
(*                                                                         *)
(* The invariant says, for a transcript that is not exposed, where its     *)
(* present version is while the cursor, or the next cursor of a pull that  *)
(* is under way, is at or past its file time (Safe).  A rename that is not *)
(* late makes the file newer than everything seen so far (Bounded), and    *)
(* the file time names the transcript (Alone): of two transcripts with one *)
(* file time, a delta that ends between them would skip one.               *)
(***************************************************************************)
EXTENDS SyncFeed, TLAPS

\* A new file is younger than what it replaces.
Times ==
  \A t \in Tids :
    /\ file[t].m <= now /\ trash[t].m <= now /\ tmp[t].m <= now
    /\ tmp[t] # Nothing => 1 <= tmp[t].m /\ 1 <= tmp[t].v
                           /\ file[t].m <= tmp[t].m /\ trash[t].m <= tmp[t].m
    /\ file[t] # Nothing => 1 <= file[t].m /\ 1 <= file[t].v
    /\ trash[t] # Nothing => 1 <= trash[t].m /\ 1 <= trash[t].v

\* A version not yet renamed is nowhere else.
Fresh ==
  /\ \A t \in Tids :
       file[t].v <= writes /\ trash[t].v <= writes /\ tmp[t].v <= writes /\ dev[t] <= writes
  /\ \A p \in Pullers : \A d \in docs[p] : d[2] <= writes
  /\ \A t \in Tids : tmp[t] # Nothing =>
       /\ tmp[t].v # file[t].v /\ tmp[t].v # trash[t].v /\ tmp[t].v # dev[t]
       /\ \A p \in Pullers : <<t, tmp[t].v>> \notin docs[p]

\* A time no later than that of some file, in its place or in the trash.
Reached(m) == m = 0 \/ \E u \in Tids : m <= file[u].m \/ m <= trash[u].m

Bounded ==
  /\ Reached(cursor) /\ \A t \in Tids : Reached(row[t])
  /\ \A p \in Pullers :
       /\ Reached(since[p]) /\ Reached(next[p])
       /\ \A d \in rows[p] : Reached(d[2])

\* What a pull holds at its stages, at most one entry for each transcript.
Stages ==
  \A p \in Pullers :
    /\ rows[p] # {} => pc[p] = "read"
    /\ docs[p] # {} => pc[p] \in {"read", "apply"}
    /\ \A d, e \in docs[p] : d[1] = e[1] => d = e
    /\ \A d, e \in rows[p] : d[1] = e[1] => d = e
    /\ \A d \in rows[p], e \in docs[p] : d[1] # e[1]

\* No other transcript has, or had in the index, the file time of t.
Alone(t) ==
  \A u \in Tids \ {t} :
    /\ file[u].m # file[t].m /\ trash[u].m # file[t].m /\ row[u] # file[t].m
    /\ \A p \in Pullers : <<u, file[t].m>> \notin rows[p]

Arrived(t) == dev[t] = file[t].v

\* A pull under way will not save a cursor past a version that is missing.
Minded(p, t) ==
  /\ file[t].m <= since[p] => Arrived(t)
  /\ file[t].m <= next[p] => Arrived(t) \/ <<t, file[t].v>> \in docs[p]
  /\ \A d \in rows[p] :
       file[t].m <= d[2] => \/ Arrived(t)
                            \/ <<t, file[t].v>> \in docs[p]
                            \/ <<t, file[t].m>> \in rows[p]
  /\ \A d \in docs[p] : d[1] = t /\ d[2] # file[t].v => ~Arrived(t)

Safe(t) ==
  /\ file[t].m <= cursor => Arrived(t)
  /\ \A p \in Pullers : pc[p] # "idle" => Minded(p, t)

Shown == \A t \in Tids \ exposed : file[t] # Nothing => Alone(t) /\ Safe(t)

IInv == TypeOK /\ Times /\ Fresh /\ Bounded /\ Stages /\ Shown

-----------------------------------------------------------------------------
(* Types. *)

LEMMA Typed ==
  ASSUME TypeOK
  PROVE  /\ DOMAIN tmp = Tids /\ DOMAIN file = Tids /\ DOMAIN trash = Tids /\ DOMAIN row = Tids
         /\ DOMAIN dev = Tids /\ DOMAIN pc = Pullers /\ DOMAIN since = Pullers
         /\ DOMAIN next = Pullers /\ DOMAIN rows = Pullers /\ DOMAIN docs = Pullers
         /\ \A t \in Tids : /\ tmp[t] \in Version /\ file[t] \in Version /\ trash[t] \in Version
                            /\ row[t] \in Nat /\ dev[t] \in Nat
         /\ \A r \in Version : r.v \in Nat /\ r.m \in Nat
         /\ Nothing \in Version /\ Nothing.v = 0 /\ Nothing.m = 0
         /\ now \in Nat /\ writes \in Nat /\ cursor \in Nat
         /\ \A p \in Pullers : since[p] \in Nat /\ next[p] \in Nat
         /\ \A p \in Pullers : \A d \in rows[p] : d[1] \in Tids /\ d[2] \in Nat /\ d = <<d[1], d[2]>>
         /\ \A p \in Pullers : \A d \in docs[p] : d[1] \in Tids /\ d[2] \in Nat /\ d = <<d[1], d[2]>>
<1>1. MaxTime \in Nat /\ MaxWrites \in Nat
  BY SyncAssumption
<1>2. \A r \in Version : r.v \in Nat /\ r.m \in Nat
  BY <1>1 DEF Version
<1>3. Nothing \in Version /\ Nothing.v = 0 /\ Nothing.m = 0
  BY <1>1 DEF Version, Nothing
<1>4. /\ \A p \in Pullers : rows[p] \subseteq Tids \X (0..MaxTime)
      /\ \A p \in Pullers : docs[p] \subseteq Tids \X (1..MaxWrites)
  BY DEF TypeOK, PullType
<1>5. /\ \A p \in Pullers : \A d \in rows[p] : d[1] \in Tids /\ d[2] \in Nat /\ d = <<d[1], d[2]>>
      /\ \A p \in Pullers : \A d \in docs[p] : d[1] \in Tids /\ d[2] \in Nat /\ d = <<d[1], d[2]>>
  BY <1>1, <1>4
<1> QED
  BY <1>1, <1>2, <1>3, <1>5 DEF TypeOK, HubType, PullType

\* A writer touches no pull.
LEMMA HubFrame ==
  ASSUME NEW t \in Tids, HubWrite(t)
  PROVE  UNCHANGED <<now, cursor, dev, pc, since, rows, docs, next>>
BY DEF HubWrite, WriteTmp, Rename, Index, Delete, Restore, pull

\* A pull touches no file.
LEMMA PullFrame ==
  ASSUME NEW p \in Pullers, PullStep(p) \/ Lost(p)
  PROVE  UNCHANGED <<now, tmp, file, trash, writes>>
BY DEF PullStep, Begin, Reconcile, List, Read, Answer, AnswerMax, Apply, Save, Lost, hub

LEMMA HubTypeStep ==
  ASSUME TypeOK, [Next]_vars
  PROVE  HubType' /\ faults' \in 0..MaxFaults /\ exposed' \subseteq Tids
<1>0. /\ MaxTime \in Nat /\ MaxWrites \in Nat /\ MaxFaults \in Nat
      /\ DOMAIN tmp = Tids /\ DOMAIN file = Tids /\ DOMAIN trash = Tids /\ DOMAIN row = Tids
      /\ \A r \in Version : r.m \in 0..MaxTime
      /\ Nothing \in Version /\ now \in 1..MaxTime /\ writes \in 0..MaxWrites
  BY SyncAssumption, Typed DEF TypeOK, HubType, Version
<1>1. ASSUME UNCHANGED hub PROVE HubType'
  BY <1>1 DEF TypeOK, HubType, hub
<1>2. ASSUME Tick PROVE HubType'
  <2>1. now' \in 1..MaxTime
    BY <1>0, <1>2 DEF Tick
  <2> QED
    BY <1>2, <2>1 DEF Tick, TypeOK, HubType
<1>3. ASSUME NEW t \in Tids, WriteTmp(t) PROVE HubType'
  <2>1. writes' \in 0..MaxWrites /\ [v |-> writes', m |-> now] \in Version
    BY <1>0, <1>3 DEF WriteTmp, Version
  <2> QED
    BY <1>3, <2>1 DEF WriteTmp, TypeOK, HubType
<1>4. ASSUME NEW t \in Tids, Rename(t) \/ Index(t) \/ Delete(t) \/ Restore(t) PROVE HubType'
  <2>1. file[t].m \in 0..MaxTime /\ trash[t].m \in 0..MaxTime
    BY <1>0 DEF TypeOK, HubType
  <2>2. 0 \in 0..MaxTime
    BY <1>0
  <2>3. CASE Rename(t)
    BY <1>0, <2>1, <2>2, <2>3 DEF Rename, TypeOK, HubType
  <2>4. CASE Index(t)
    BY <1>0, <2>1, <2>2, <2>4 DEF Index, TypeOK, HubType
  <2>5. CASE Delete(t)
    BY <1>0, <2>1, <2>2, <2>5 DEF Delete, TypeOK, HubType
  <2>6. CASE Restore(t)
    BY <1>0, <2>1, <2>2, <2>6 DEF Restore, TypeOK, HubType
  <2> QED
    BY <1>4, <2>3, <2>4, <2>5, <2>6
<1>5. ASSUME NEW p \in Pullers, Reconcile(p) PROVE HubType'
  <2>1. \A t \in Tids : file[t].m \in 0..MaxTime
    BY <1>0 DEF TypeOK, HubType
  <2> QED
    BY <1>5, <2>1 DEF Reconcile, TypeOK, HubType
<1>6. HubType'
  BY <1>1, <1>2, <1>3, <1>4, <1>5
     DEF Next, vars, HubWrite, PullStep, Begin, List, Read, Answer, AnswerMax, Apply, Save, Lost
<1>7. faults' \in 0..MaxFaults
  <2>1. UNCHANGED faults \/ Fault
    BY DEF Next, vars, Tick, HubWrite, WriteTmp, Rename, Index, Delete, Restore, PullStep, Begin,
           Reconcile, List, Read, Answer, AnswerMax, Apply, Save, Lost
  <2> QED
    BY <1>0, <2>1 DEF Fault, TypeOK
<1>8. exposed' \subseteq Tids
  <2>1. ASSUME NEW t \in Tids, HubWrite(t) PROVE exposed' \subseteq Tids
    BY <2>1 DEF HubWrite, WriteTmp, Rename, Index, Delete, Restore, TypeOK
  <2>2. ASSUME NEW p \in Pullers, PullStep(p) \/ Lost(p) PROVE exposed' \subseteq Tids
    <3>1. \A d \in rows[p] \cup docs[p] : d[1] \in Tids
      BY Typed
    <3> QED
      BY <2>2, <3>1 DEF PullStep, Begin, Reconcile, List, Read, Answer, AnswerMax, Apply, Save,
                        Lost, TypeOK
  <2> QED
    BY <2>1, <2>2 DEF Next, vars, Tick, TypeOK
<1> QED
  BY <1>6, <1>7, <1>8

LEMMA PullTypeStep ==
  ASSUME TypeOK, Times, [Next]_vars
  PROVE  PullType'
<1>0. /\ MaxTime \in Nat /\ MaxWrites \in Nat
      /\ \A t \in Tids : row[t] \in 0..MaxTime
      /\ \A t \in Tids : file[t] # Nothing => file[t].v \in 1..MaxWrites
      /\ \A p \in Pullers : rows[p] \subseteq Tids \X (0..MaxTime)
      /\ \A p \in Pullers : docs[p] \subseteq Tids \X (1..MaxWrites)
  <2>1. \A r \in Version : r.v \in 0..MaxWrites
    BY DEF Version
  <2> QED
    BY <2>1, SyncAssumption DEF TypeOK, HubType, PullType, Times
<1>1. ASSUME UNCHANGED <<cursor, dev, pull>> PROVE PullType'
  BY <1>1 DEF TypeOK, PullType, pull
<1>2. ASSUME NEW p \in Pullers, Begin(p) \/ Reconcile(p) \/ Answer(p) \/ Save(p) \/ Lost(p)
      PROVE  PullType'
  BY <1>2 DEF Begin, Reconcile, Answer, Save, Lost, Goto, TypeOK, PullType
<1>3. ASSUME NEW p \in Pullers, List(p) PROVE PullType'
  <2>1. PICK page \in SUBSET {<<t, row[t]>> : t \in Tids} : rows' = [rows EXCEPT ![p] = page]
    BY <1>3 DEF List
  <2>2. {<<t, row[t]>> : t \in Tids} \subseteq Tids \X (0..MaxTime)
    BY <1>0
  <2>3. page \in SUBSET (Tids \X (0..MaxTime))
    BY <2>2
  <2>4. rows' \in [Pullers -> SUBSET (Tids \X (0..MaxTime))]
    BY <2>1, <2>3 DEF TypeOK, PullType
  <2> QED
    BY <1>3, <2>4 DEF List, Goto, TypeOK, PullType
<1>4. ASSUME NEW p \in Pullers, Read(p) PROVE PullType'
  <2>1. PICK d \in rows[p] :
           /\ rows' = [rows EXCEPT ![p] = @ \ {d}]
           /\ \/ /\ file[d[1]] # Nothing /\ next' = [next EXCEPT ![p] = d[2]]
                 /\ docs' = [docs EXCEPT ![p] = @ \cup {<<d[1], file[d[1]].v>>}]
              \/ UNCHANGED <<docs, next>>
    BY <1>4 DEF Read
  <2>2. d[1] \in Tids /\ d[2] \in 0..MaxTime
    BY <1>0
  <2>3. rows' \in [Pullers -> SUBSET (Tids \X (0..MaxTime))]
    BY <1>0, <2>1 DEF TypeOK, PullType
  <2>4. next' \in [Pullers -> 0..MaxTime]
    BY <2>1, <2>2 DEF TypeOK, PullType
  <2>5. docs' \in [Pullers -> SUBSET (Tids \X (1..MaxWrites))]
    BY <1>0, <2>1, <2>2 DEF TypeOK, PullType
  <2> QED
    BY <1>4, <2>3, <2>4, <2>5 DEF Read, TypeOK, PullType
<1>5. ASSUME NEW p \in Pullers, AnswerMax(p) PROVE PullType'
  <2>1. next' \in [Pullers -> 0..MaxTime]
    BY <1>5 DEF AnswerMax, TypeOK, PullType
  <2> QED
    BY <1>5, <2>1 DEF AnswerMax, Goto, TypeOK, PullType
<1>6. ASSUME NEW p \in Pullers, Apply(p) PROVE PullType'
  <2>1. PICK d \in docs[p] :
           dev' = [dev EXCEPT ![d[1]] = d[2]] /\ docs' = [docs EXCEPT ![p] = @ \ {d}]
    BY <1>6 DEF Apply
  <2>2. d[1] \in Tids /\ d[2] \in 0..MaxWrites
    BY <1>0
  <2>3. dev' \in [Tids -> 0..MaxWrites]
    BY <2>1, <2>2 DEF TypeOK, PullType
  <2>4. docs' \in [Pullers -> SUBSET (Tids \X (1..MaxWrites))]
    BY <1>0, <2>1 DEF TypeOK, PullType
  <2> QED
    BY <1>6, <2>3, <2>4 DEF Apply, TypeOK, PullType
<1>7. ASSUME Tick \/ UNCHANGED vars \/ \E t \in Tids : HubWrite(t) PROVE PullType'
  <2>1. UNCHANGED <<cursor, dev, pull>>
    BY <1>7, HubFrame DEF Tick, vars, pull
  <2> QED
    BY <1>1, <2>1
<1> QED
  BY <1>2, <1>3, <1>4, <1>5, <1>6, <1>7 DEF Next, PullStep

-----------------------------------------------------------------------------
(* File times and versions. *)

LEMMA TimesStep ==
  ASSUME TypeOK, Times, [Next]_vars
  PROVE  Times'
<1>0. /\ DOMAIN tmp = Tids /\ DOMAIN file = Tids /\ DOMAIN trash = Tids
      /\ \A t \in Tids : /\ tmp[t].m \in Nat /\ file[t].m \in Nat /\ trash[t].m \in Nat
                         /\ tmp[t].v \in Nat /\ file[t].v \in Nat /\ trash[t].v \in Nat
      /\ Nothing.v = 0 /\ Nothing.m = 0 /\ now \in Nat /\ now >= 1 /\ writes \in Nat
  <2>1. now \in 1..MaxTime /\ MaxTime \in Nat
    BY SyncAssumption DEF TypeOK, HubType
  <2> QED
    BY <2>1, Typed
<1>1. ASSUME UNCHANGED <<tmp, file, trash>>, now' \in Nat, now <= now' PROVE Times'
  BY <1>0, <1>1 DEF Times
<1>2. ASSUME Tick PROVE Times'
  BY <1>0, <1>1, <1>2 DEF Tick
<1>3. ASSUME NEW t \in Tids, WriteTmp(t) PROVE Times'
  <2>1. /\ UNCHANGED <<file, trash, now>>
        /\ tmp'[t] = [v |-> writes + 1, m |-> now] /\ \A u \in Tids \ {t} : tmp'[u] = tmp[u]
    BY <1>0, <1>3 DEF WriteTmp
  <2>2. tmp'[t].m = now /\ tmp'[t].v = writes + 1
    BY <2>1
  <2> QED
    BY <1>0, <2>1, <2>2 DEF Times
<1>4. ASSUME NEW t \in Tids, Rename(t) PROVE Times'
  <2>1. /\ UNCHANGED <<trash, now>> /\ tmp[t] # Nothing
        /\ file'[t] = tmp[t] /\ \A u \in Tids \ {t} : file'[u] = file[u]
        /\ tmp'[t] = Nothing /\ \A u \in Tids \ {t} : tmp'[u] = tmp[u]
    BY <1>0, <1>4 DEF Rename
  <2> QED
    BY <1>0, <2>1 DEF Times
<1>5. ASSUME NEW t \in Tids, Delete(t) PROVE Times'
  <2>1. /\ UNCHANGED <<tmp, now>> /\ file[t] # Nothing
        /\ file'[t] = Nothing /\ \A u \in Tids \ {t} : file'[u] = file[u]
        /\ trash'[t] = file[t] /\ \A u \in Tids \ {t} : trash'[u] = trash[u]
    BY <1>0, <1>5 DEF Delete
  <2> QED
    BY <1>0, <2>1 DEF Times
<1>6. ASSUME NEW t \in Tids, Restore(t) PROVE Times'
  <2>1. /\ UNCHANGED <<tmp, now>> /\ trash[t] # Nothing
        /\ file'[t] = trash[t] /\ \A u \in Tids \ {t} : file'[u] = file[u]
        /\ trash'[t] = Nothing /\ \A u \in Tids \ {t} : trash'[u] = trash[u]
    BY <1>0, <1>6 DEF Restore
  <2> QED
    BY <1>0, <2>1 DEF Times
<1>7. ASSUME UNCHANGED vars \/ (\E t \in Tids : Index(t))
             \/ \E p \in Pullers : PullStep(p) \/ Lost(p)
      PROVE  Times'
  <2>1. UNCHANGED <<tmp, file, trash, now>>
    BY <1>7, PullFrame DEF vars, hub, Index
  <2> QED
    BY <1>0, <1>1, <2>1
<1> QED
  BY <1>2, <1>3, <1>4, <1>5, <1>6, <1>7 DEF Next, HubWrite

LEMMA FreshStep ==
  ASSUME TypeOK, Times, Fresh, [Next]_vars
  PROVE  Fresh'
<1>0. /\ DOMAIN tmp = Tids /\ DOMAIN file = Tids /\ DOMAIN trash = Tids /\ DOMAIN dev = Tids
      /\ DOMAIN docs = Pullers
      /\ \A t \in Tids : tmp[t].v \in Nat /\ file[t].v \in Nat /\ trash[t].v \in Nat /\ dev[t] \in Nat
      /\ \A p \in Pullers : \A d \in docs[p] : d[1] \in Tids /\ d[2] \in Nat /\ d = <<d[1], d[2]>>
      /\ Nothing.v = 0 /\ writes \in Nat
  BY Typed
<1>1. ASSUME UNCHANGED <<tmp, file, trash, writes, dev>>, \A p \in Pullers : docs'[p] \subseteq docs[p]
      PROVE  Fresh'
  BY <1>1 DEF Fresh
<1>2. ASSUME NEW t \in Tids, WriteTmp(t) PROVE Fresh'
  <2>1. /\ UNCHANGED <<file, trash, dev, docs>> /\ writes' = writes + 1
        /\ tmp'[t] = [v |-> writes + 1, m |-> now] /\ \A u \in Tids \ {t} : tmp'[u] = tmp[u]
    BY <1>0, <1>2, HubFrame DEF WriteTmp, HubWrite
  <2>2. tmp'[t].v = writes + 1
    BY <2>1
  <2>3. ASSUME NEW p \in Pullers, <<t, writes + 1>> \in docs[p] PROVE FALSE
    <3>1. <<t, writes + 1>>[2] <= writes
      BY <2>3 DEF Fresh
    <3> QED
      BY <1>0, <3>1
  <2>4. \A p \in Pullers : \A d \in docs'[p] : d[2] <= writes'
    BY <1>0, <2>1 DEF Fresh
  <2>5. \A u \in Tids : /\ file[u].v <= writes' /\ trash[u].v <= writes' /\ dev[u] <= writes'
                        /\ tmp'[u].v <= writes'
    BY <1>0, <2>1, <2>2 DEF Fresh
  <2>6. /\ tmp'[t].v # file[t].v /\ tmp'[t].v # trash[t].v /\ tmp'[t].v # dev[t]
        /\ \A p \in Pullers : <<t, tmp'[t].v>> \notin docs[p]
    BY <1>0, <2>2, <2>3 DEF Fresh
  <2> QED
    BY <2>1, <2>4, <2>5, <2>6 DEF Fresh
<1>3. ASSUME NEW t \in Tids, Rename(t) PROVE Fresh'
  <2>1. /\ UNCHANGED <<trash, writes, dev, docs>>
        /\ file'[t] = tmp[t] /\ \A u \in Tids \ {t} : file'[u] = file[u]
        /\ tmp'[t] = Nothing /\ \A u \in Tids \ {t} : tmp'[u] = tmp[u]
    BY <1>0, <1>3, HubFrame DEF Rename, HubWrite
  <2>2. \A u \in Tids : file'[u].v <= writes /\ tmp'[u].v <= writes
    BY <1>0, <2>1 DEF Fresh
  <2> QED
    BY <2>1, <2>2 DEF Fresh
<1>4. ASSUME NEW t \in Tids, Delete(t) \/ Restore(t) PROVE Fresh'
  <2>1. /\ UNCHANGED <<tmp, writes, dev, docs>>
        /\ \A u \in Tids \ {t} : file'[u] = file[u] /\ trash'[u] = trash[u]
        /\ file'[t] \in {Nothing, trash[t]} /\ trash'[t] \in {Nothing, file[t]}
    BY <1>0, <1>4, HubFrame DEF Delete, Restore, HubWrite
  <2>2. tmp[t] # Nothing => tmp[t].v # 0
    BY DEF Times
  <2> QED
    BY <1>0, <2>1, <2>2 DEF Fresh
<1>5. ASSUME NEW p \in Pullers, Read(p) PROVE Fresh'
  <2>1. PICK d \in rows[p] :
          \A q \in Pullers : docs'[q] \subseteq docs[q] \cup {<<d[1], file[d[1]].v>>}
    BY <1>0, <1>5 DEF Read
  <2>2. d[1] \in Tids /\ UNCHANGED <<tmp, file, trash, writes, dev>>
    BY <1>5, Typed DEF Read, hub
  <2>3. \A q \in Pullers : \A e \in docs'[q] : e \in docs[q] \/ e = <<d[1], file[d[1]].v>>
    BY <2>1
  <2>4. \A q \in Pullers : \A e \in docs'[q] : e[2] <= writes
    <3>1. <<d[1], file[d[1]].v>>[2] <= writes
      BY <2>2 DEF Fresh
    <3> QED
      BY <2>3, <3>1 DEF Fresh
  <2>5. ASSUME NEW t \in Tids, tmp[t] # Nothing, NEW q \in Pullers
        PROVE  <<t, tmp[t].v>> \notin docs'[q]
    BY <2>2, <2>3, <2>5 DEF Fresh
  <2> QED
    BY <2>2, <2>4, <2>5 DEF Fresh
<1>6. ASSUME NEW p \in Pullers, Apply(p) PROVE Fresh'
  <2>1. PICK d \in docs[p] :
           dev' = [dev EXCEPT ![d[1]] = d[2]] /\ docs' = [docs EXCEPT ![p] = @ \ {d}]
    BY <1>6 DEF Apply
  <2>2. /\ d[1] \in Tids /\ UNCHANGED <<tmp, file, trash, writes>> /\ d = <<d[1], d[2]>>
        /\ \A q \in Pullers : docs'[q] \subseteq docs[q]
        /\ \A t \in Tids : dev'[t] = dev[t] \/ (t = d[1] /\ dev'[t] = d[2])
    BY <1>0, <1>6, <2>1 DEF Apply, hub
  <2> QED
    BY <2>2 DEF Fresh
<1>7. ASSUME \/ UNCHANGED vars \/ Tick \/ \E t \in Tids : Index(t)
             \/ \E p \in Pullers : \/ Begin(p) \/ Reconcile(p) \/ List(p) \/ Answer(p)
                                   \/ AnswerMax(p) \/ Save(p) \/ Lost(p)
      PROVE  Fresh'
  <2>1. UNCHANGED <<tmp, file, trash, writes, dev>>
    BY <1>7 DEF vars, hub, Tick, Index, Begin, Reconcile, List, Answer, AnswerMax, Save, Lost
  <2>2. UNCHANGED docs \/ \E p \in Pullers : docs' = [docs EXCEPT ![p] = {}]
    BY <1>7 DEF vars, pull, Tick, Index, Begin, Reconcile, List, Answer, AnswerMax, Save, Lost
  <2>3. \A p \in Pullers : docs'[p] \subseteq docs[p]
    BY <1>0, <2>2
  <2> QED
    BY <1>1, <2>1, <2>3
<1> QED
  BY <1>2, <1>3, <1>4, <1>5, <1>6, <1>7 DEF Next, HubWrite, PullStep

\* The largest file time never falls.
LEMMA ReachedKept ==
  ASSUME TypeOK, Times, [Next]_vars
  PROVE  \A m \in Nat : Reached(m) => Reached(m)'
<1>0. /\ DOMAIN file = Tids /\ DOMAIN trash = Tids
      /\ \A t \in Tids : tmp[t].m \in Nat /\ file[t].m \in Nat /\ trash[t].m \in Nat
      /\ Nothing.m = 0
  BY Typed
<1> SUFFICES ASSUME NEW m \in Nat, Reached(m), m # 0 PROVE \E u \in Tids : m <= file'[u].m \/ m <= trash'[u].m
  BY DEF Reached
<1>1. PICK u \in Tids : m <= file[u].m \/ m <= trash[u].m
  BY DEF Reached
<1>2. ASSUME NEW t \in Tids, Rename(t) PROVE m <= file'[u].m \/ m <= trash'[u].m
  <2>1. /\ UNCHANGED trash /\ file[t].m <= tmp[t].m
        /\ file'[t] = tmp[t] /\ \A x \in Tids \ {t} : file'[x] = file[x]
    BY <1>0, <1>2 DEF Rename, Times
  <2> QED
    BY <1>0, <1>1, <2>1
<1>3. ASSUME NEW t \in Tids, Delete(t) \/ Restore(t) PROVE m <= file'[u].m \/ m <= trash'[u].m
  <2>1. /\ \A x \in Tids \ {t} : file'[x] = file[x] /\ trash'[x] = trash[x]
        /\ \/ trash[t] = Nothing /\ trash'[t] = file[t]
           \/ file[t] = Nothing /\ file'[t] = trash[t]
    BY <1>0, <1>3 DEF Delete, Restore
  <2> QED
    BY <1>0, <1>1, <2>1
<1>4. ASSUME UNCHANGED <<file, trash>> PROVE m <= file'[u].m \/ m <= trash'[u].m
  BY <1>1, <1>4
<1>5. UNCHANGED <<file, trash>> \/ \E t \in Tids : Rename(t) \/ Delete(t) \/ Restore(t)
  BY PullFrame DEF Next, vars, hub, HubWrite, Tick, WriteTmp, Index
<1> QED
  BY <1>2, <1>3, <1>4, <1>5

LEMMA BoundedStep ==
  ASSUME TypeOK, Times, Bounded, [Next]_vars
  PROVE  Bounded'
<1> DEFINE Later(m) == m = 0 \/ \E u \in Tids : m <= file'[u].m \/ m <= trash'[u].m
<1>0. /\ DOMAIN file = Tids /\ DOMAIN row = Tids /\ DOMAIN since = Pullers /\ DOMAIN next = Pullers
      /\ DOMAIN rows = Pullers
      /\ \A t \in Tids : row[t] \in Nat /\ file[t].m \in Nat /\ trash[t].m \in Nat
      /\ \A p \in Pullers : \A d \in rows[p] : d[1] \in Tids /\ d[2] \in Nat /\ d = <<d[1], d[2]>>
  BY Typed
\* What was bounded before the step is so after it.
<1>1. /\ Later(0) /\ Later(cursor) /\ \A t \in Tids : Later(row[t])
      /\ \A p \in Pullers : Later(since[p]) /\ Later(next[p]) /\ \A d \in rows[p] : Later(d[2])
  <2>1. \A m \in Nat : Reached(m) => Later(m)
    BY ReachedKept DEF Reached
  <2>2. cursor \in Nat /\ \A p \in Pullers : since[p] \in Nat /\ next[p] \in Nat
    BY Typed
  <2> HIDE DEF Later
  <2>3. Later(0)
    BY DEF Later
  <2> QED
    BY <1>0, <2>1, <2>2, <2>3 DEF Bounded
<1>2. ASSUME Later(cursor'), \A t \in Tids : Later(row'[t]),
             \A p \in Pullers : /\ Later(since'[p]) /\ Later(next'[p])
                                /\ \A d \in rows'[p] : Later(d[2])
      PROVE  Bounded'
  BY <1>2 DEF Bounded, Reached
<1>3. ASSUME UNCHANGED <<cursor, since, next>>, \A p \in Pullers : rows'[p] \subseteq rows[p],
             \A t \in Tids : Later(row'[t])
      PROVE  Bounded'
  <2> HIDE DEF Later
  <2> QED
    BY <1>1, <1>2, <1>3
<1>4. ASSUME UNCHANGED <<row, cursor, since, next>>, \A p \in Pullers : rows'[p] \subseteq rows[p]
      PROVE  Bounded'
  <2> HIDE DEF Later
  <2> QED
    BY <1>1, <1>3, <1>4
<1>5. ASSUME NEW t \in Tids, HubWrite(t) PROVE Bounded'
  <2>1. UNCHANGED <<cursor, since, rows, next>>
    BY <1>5, HubFrame
  <2>2. \A u \in Tids : Later(row'[u])
    <3>1. CASE WriteTmp(t) \/ Rename(t)
      BY <1>1, <3>1 DEF WriteTmp, Rename
    <3>2. CASE Index(t)
      <4>1. UNCHANGED file /\ \A u \in Tids : row'[u] = row[u] \/ row'[u] = file[u].m
        BY <1>0, <3>2 DEF Index
      <4>2. \A u \in Tids : Later(file[u].m)
        BY <1>0, <4>1
      <4> HIDE DEF Later
      <4> QED
        BY <1>1, <4>1, <4>2
    <3>3. CASE Delete(t)
      <4>1. \A u \in Tids : row'[u] = row[u] \/ row'[u] = 0
        BY <1>0, <3>3 DEF Delete
      <4> HIDE DEF Later
      <4> QED
        BY <1>1, <4>1
    <3>4. CASE Restore(t)
      <4>1. file'[t] = trash[t] /\ \A u \in Tids : row'[u] = row[u] \/ row'[u] = trash[t].m
        BY <1>0, <3>4 DEF Restore
      <4>2. Later(trash[t].m)
        BY <1>0, <4>1
      <4> HIDE DEF Later
      <4> QED
        BY <1>1, <4>1, <4>2
    <3> QED
      BY <1>5, <3>1, <3>2, <3>3, <3>4 DEF HubWrite
  <2> HIDE DEF Later
  <2> QED
    BY <1>3, <2>1, <2>2
<1>6. ASSUME NEW p \in Pullers, Begin(p) PROVE Bounded'
  <2>1. /\ UNCHANGED <<row, cursor, rows>>
        /\ \A q \in Pullers : /\ since'[q] = since[q] \/ since'[q] = cursor
                              /\ next'[q] = next[q] \/ next'[q] = cursor
    BY <1>0, <1>6 DEF Begin, hub
  <2> HIDE DEF Later
  <2> QED
    BY <1>1, <1>2, <2>1
<1>7. ASSUME NEW p \in Pullers, Reconcile(p) PROVE Bounded'
  <2>1. UNCHANGED <<file, cursor, since, next, rows>> /\ \A t \in Tids : row'[t] = file[t].m
    BY <1>7 DEF Reconcile
  <2>2. \A t \in Tids : Later(row'[t])
    BY <1>0, <2>1
  <2> HIDE DEF Later
  <2> QED
    BY <1>3, <2>1, <2>2
<1>8. ASSUME NEW p \in Pullers, List(p) PROVE Bounded'
  <2>1. /\ UNCHANGED <<row, cursor, since, next>>
        /\ \A q \in Pullers : \A d \in rows'[q] : d \in rows[q] \/ \E t \in Tids : d = <<t, row[t]>>
    BY <1>0, <1>8 DEF List, hub
  <2> HIDE DEF Later
  <2>2. \A q \in Pullers : \A d \in rows'[q] : Later(d[2])
    BY <1>1, <2>1
  <2> QED
    BY <1>1, <1>2, <2>1, <2>2
<1>9. ASSUME NEW p \in Pullers, Read(p) PROVE Bounded'
  <2>1. PICK d \in rows[p] : /\ rows' = [rows EXCEPT ![p] = @ \ {d}]
                             /\ next' = [next EXCEPT ![p] = d[2]] \/ UNCHANGED next
    BY <1>9 DEF Read
  <2>2. UNCHANGED <<row, cursor, since>> /\ \A q \in Pullers : rows'[q] \subseteq rows[q]
    BY <1>0, <1>9, <2>1 DEF Read, hub
  <2>3. \A q \in Pullers : next'[q] = next[q] \/ next'[q] = d[2]
    BY <1>0, <2>1
  <2> HIDE DEF Later
  <2> QED
    BY <1>1, <1>2, <2>2, <2>3
<1>10. ASSUME NEW p \in Pullers, AnswerMax(p) PROVE Bounded'
  <2>1. PICK m \in 0..MaxTime : /\ MaxMtime(m)
           /\ next' = [next EXCEPT ![p] = IF m > since[p] THEN m ELSE since[p]]
    BY <1>10 DEF AnswerMax
  <2>2. UNCHANGED <<row, cursor, since, rows>>
    BY <1>10 DEF AnswerMax, hub
  <2>3. \A q \in Pullers : next'[q] = next[q] \/ next'[q] = since[p] \/ next'[q] = m
    BY <1>0, <2>1
  <2>4. m = 0 \/ \E t \in Tids : m = row[t]
    BY <2>1 DEF MaxMtime
  <2> HIDE DEF Later
  <2> QED
    BY <1>1, <1>2, <2>2, <2>3, <2>4
<1>11. ASSUME NEW p \in Pullers, Save(p) PROVE Bounded'
  <2>1. UNCHANGED <<row, since, next, rows>> /\ (cursor' = cursor \/ cursor' = next[p])
    BY <1>11 DEF Save, hub
  <2> HIDE DEF Later
  <2> QED
    BY <1>1, <1>2, <2>1
<1>12. ASSUME UNCHANGED vars \/ Tick \/ \E p \in Pullers : Answer(p) \/ Apply(p) \/ Lost(p)
       PROVE  Bounded'
  <2>1. UNCHANGED <<row, cursor, since, next>>
    BY <1>12 DEF vars, hub, pull, Tick, Answer, Apply, Lost
  <2>2. UNCHANGED rows \/ \E p \in Pullers : rows' = [rows EXCEPT ![p] = {}]
    BY <1>12 DEF vars, pull, Tick, Answer, Apply, Lost
  <2>3. \A p \in Pullers : rows'[p] \subseteq rows[p]
    BY <1>0, <2>2
  <2> QED
    BY <1>4, <2>1, <2>3
<1> QED
  BY <1>5, <1>6, <1>7, <1>8, <1>9, <1>10, <1>11, <1>12 DEF Next, PullStep

LEMMA StagesStep ==
  ASSUME TypeOK, Stages, [Next]_vars
  PROVE  Stages'
<1>0. /\ DOMAIN pc = Pullers /\ DOMAIN rows = Pullers /\ DOMAIN docs = Pullers
      /\ \A p \in Pullers : \A d \in rows[p] : d[1] \in Tids /\ d[2] \in Nat /\ d = <<d[1], d[2]>>
  BY Typed
<1> DEFINE Sound(p) ==
      /\ rows'[p] # {} => pc'[p] = "read"
      /\ docs'[p] # {} => pc'[p] \in {"read", "apply"}
      /\ \A d, e \in docs'[p] : d[1] = e[1] => d = e
      /\ \A d, e \in rows'[p] : d[1] = e[1] => d = e
      /\ \A d \in rows'[p], e \in docs'[p] : d[1] # e[1]
<1>1. ASSUME NEW p \in Pullers, Sound(p),
             \A q \in Pullers \ {p} : pc'[q] = pc[q] /\ rows'[q] = rows[q] /\ docs'[q] = docs[q]
      PROVE  Stages'
  BY <1>1 DEF Stages
<1>2. ASSUME UNCHANGED <<pc, rows, docs>> PROVE Stages'
  BY <1>2 DEF Stages
<1>3. ASSUME NEW p \in Pullers, Begin(p) \/ Reconcile(p) \/ AnswerMax(p) \/ Save(p) \/ Lost(p)
      PROVE  Stages'
  <2>1. /\ \A q \in Pullers \ {p} : pc'[q] = pc[q] /\ rows'[q] = rows[q] /\ docs'[q] = docs[q]
        /\ rows'[p] = {} /\ docs'[p] = {}
    BY <1>0, <1>3 DEF Begin, Reconcile, AnswerMax, Save, Lost, Goto, Stages
  <2> QED
    BY <1>1, <2>1
<1>4. ASSUME NEW p \in Pullers, List(p) PROVE Stages'
  <2>1. /\ \A q \in Pullers \ {p} : pc'[q] = pc[q] /\ rows'[q] = rows[q] /\ docs'[q] = docs[q]
        /\ pc'[p] = "read" /\ docs'[p] = {}
        /\ \A d \in rows'[p] : \E t \in Tids : d = <<t, row[t]>>
    BY <1>0, <1>4 DEF List, Goto, Stages
  <2>2. Sound(p)
    BY <2>1
  <2> HIDE DEF Sound
  <2> QED
    BY <1>1, <2>1, <2>2
<1>5. ASSUME NEW p \in Pullers, Read(p) PROVE Stages'
  <2>1. PICK d \in rows[p] : /\ rows' = [rows EXCEPT ![p] = @ \ {d}]
                             /\ \/ docs' = [docs EXCEPT ![p] = @ \cup {<<d[1], file[d[1]].v>>}]
                                \/ UNCHANGED docs
    BY <1>5 DEF Read
  <2>2. /\ pc' = pc /\ pc[p] = "read"
        /\ \A q \in Pullers \ {p} : rows'[q] = rows[q] /\ docs'[q] = docs[q]
        /\ rows'[p] = rows[p] \ {d}
        /\ \A e \in docs'[p] : e \in docs[p] \/ e = <<d[1], file[d[1]].v>>
    BY <1>0, <1>5, <2>1 DEF Read
  <2>3. \A e \in docs[p] : e[1] # d[1]
    BY DEF Stages
  <2>4. \A e \in rows'[p] : e[1] # d[1]
    BY <2>2 DEF Stages
  <2>5. \A a, b \in docs'[p] : a[1] = b[1] => a = b
    BY <2>2, <2>3 DEF Stages
  <2>6. \A a \in rows'[p], b \in docs'[p] : a[1] # b[1]
    BY <2>2, <2>4 DEF Stages
  <2>7. Sound(p)
    BY <2>2, <2>5, <2>6 DEF Stages
  <2> HIDE DEF Sound
  <2> QED
    BY <1>1, <2>2, <2>7
<1>6. ASSUME NEW p \in Pullers, Answer(p) PROVE Stages'
  <2>1. /\ \A q \in Pullers \ {p} : pc'[q] = pc[q]
        /\ UNCHANGED <<rows, docs>> /\ rows[p] = {}
        /\ docs[p] # {} => pc'[p] = "apply"
    BY <1>0, <1>6 DEF Answer, Goto
  <2> QED
    BY <1>1, <2>1 DEF Stages
<1>7. ASSUME NEW p \in Pullers, Apply(p) PROVE Stages'
  <2>1. /\ UNCHANGED <<rows, pc>> /\ docs'[p] \subseteq docs[p]
        /\ \A q \in Pullers \ {p} : docs'[q] = docs[q]
    BY <1>0, <1>7 DEF Apply
  <2> QED
    BY <1>1, <2>1 DEF Stages
<1>8. ASSUME UNCHANGED vars \/ Tick \/ \E t \in Tids : HubWrite(t) PROVE Stages'
  <2>1. UNCHANGED <<pc, rows, docs>>
    BY <1>8, HubFrame DEF vars, pull, Tick
  <2> QED
    BY <1>2, <2>1
<1> QED
  BY <1>3, <1>4, <1>5, <1>6, <1>7, <1>8 DEF Next, PullStep

-----------------------------------------------------------------------------
(* Transcripts that are not exposed. *)

\* A pull exposes transcripts and never withdraws one.
LEMMA PullExposes ==
  ASSUME NEW p \in Pullers, PullStep(p) \/ Lost(p)
  PROVE  exposed \subseteq exposed'
BY DEF PullStep, Begin, Reconcile, List, Read, Answer, AnswerMax, Apply, Save, Lost

\* A file that is renamed in time is newer than every time seen so far.
LEMMA NewestIsNew ==
  ASSUME TypeOK, Times, Bounded, NEW t \in Tids, tmp[t] # Nothing,
         \A u \in Tids : file[u].m < tmp[t].m /\ trash[u].m < tmp[t].m
  PROVE  /\ cursor < tmp[t].m /\ \A u \in Tids : row[u] < tmp[t].m
         /\ \A p \in Pullers : /\ since[p] < tmp[t].m /\ next[p] < tmp[t].m
                               /\ \A d \in rows[p] : d[2] < tmp[t].m
<1>0. /\ \A u \in Tids : file[u].m \in Nat /\ trash[u].m \in Nat /\ row[u] \in Nat
      /\ cursor \in Nat /\ tmp[t].m \in Nat
      /\ \A p \in Pullers : since[p] \in Nat /\ next[p] \in Nat /\ \A d \in rows[p] : d[2] \in Nat
  BY Typed
<1>1. \A m \in Nat : Reached(m) => m < tmp[t].m
  BY <1>0 DEF Reached, Times
<1> QED
  BY <1>0, <1>1 DEF Bounded

LEMMA AloneStep ==
  ASSUME TypeOK, Times, Bounded, Shown, [Next]_vars,
         NEW t \in Tids, t \notin exposed', file'[t] # Nothing
  PROVE  Alone(t)'
<1>0. /\ DOMAIN file = Tids /\ DOMAIN trash = Tids /\ DOMAIN row = Tids /\ DOMAIN rows = Pullers
      /\ \A u \in Tids : /\ file[u].m \in Nat /\ trash[u].m \in Nat /\ tmp[u].m \in Nat
                         /\ row[u] \in Nat
      /\ Nothing.m = 0
  BY Typed
<1> DEFINE Goal == Alone(t)'
\* The times that appear are those of the same transcript's file, trash or row.
<1>1. ASSUME t \notin exposed, file'[t] = file[t],
             \A u \in Tids \ {t} : /\ file'[u].m \in {0, file[u].m, trash[u].m}
                                   /\ trash'[u].m \in {0, file[u].m, trash[u].m}
                                   /\ row'[u] \in {0, row[u], file[u].m, trash[u].m},
             \A p \in Pullers, u \in Tids, m \in Nat :
                <<u, m>> \in rows'[p] => <<u, m>> \in rows[p] \/ m = row[u]
      PROVE  Goal
  <2>1. file[t].m >= 1 /\ Alone(t)
    BY <1>1 DEF Times, Shown
  <2> QED
    BY <1>0, <1>1, <2>1 DEF Alone
<1>2. ASSUME NEW w \in Tids, Rename(w) PROVE Goal
  <2>1. /\ UNCHANGED <<trash, row, rows>> /\ tmp[w] # Nothing
        /\ file'[w] = tmp[w] /\ \A u \in Tids \ {w} : file'[u] = file[u]
    BY <1>0, <1>2, HubFrame DEF Rename, HubWrite
  <2>2. ASSUME t = w PROVE Goal
    <3>1. \A u \in Tids : file[u].m < tmp[t].m /\ trash[u].m < tmp[t].m
      BY <1>0, <1>2, <2>2 DEF Rename
    <3>2. /\ \A u \in Tids : row[u] < tmp[t].m
          /\ \A p \in Pullers : \A d \in rows[p] : d[2] < tmp[t].m
      BY <2>1, <2>2, <3>1, NewestIsNew
    <3>3. ASSUME NEW p \in Pullers, NEW u \in Tids, <<u, tmp[t].m>> \in rows[p] PROVE FALSE
      <4>1. <<u, tmp[t].m>>[2] < tmp[t].m
        BY <3>2, <3>3
      <4> QED
        BY <1>0, <4>1
    <3> QED
      BY <1>0, <2>1, <2>2, <3>1, <3>2, <3>3 DEF Alone
  <2>3. ASSUME t # w PROVE Goal
    <3>1. t \notin exposed /\ tmp[w].m # file[t].m
      BY <1>0, <1>2, <2>3 DEF Rename
    <3>2. Alone(t)
      BY <2>1, <2>3, <3>1 DEF Shown
    <3> QED
      BY <2>1, <2>3, <3>1, <3>2 DEF Alone
  <2> QED
    BY <2>2, <2>3
<1>3. ASSUME NEW w \in Tids, WriteTmp(w) \/ Index(w) \/ Delete(w) \/ Restore(w) PROVE Goal
  <2>1. UNCHANGED rows /\ t \notin exposed
    BY <1>3, HubFrame DEF HubWrite, WriteTmp, Index, Delete, Restore
  <2>2. file'[t] = file[t]
    BY <1>0, <1>3 DEF WriteTmp, Index, Delete, Restore
  <2>3. \A u \in Tids : /\ file'[u] \in {Nothing, file[u], trash[u]}
                        /\ trash'[u] \in {Nothing, file[u], trash[u]}
                        /\ row'[u] \in {0, row[u], file[u].m, trash[u].m}
    BY <1>0, <1>3 DEF WriteTmp, Index, Delete, Restore
  <2> QED
    BY <1>0, <1>1, <2>1, <2>2, <2>3
<1>4. ASSUME NEW p \in Pullers, PullStep(p) \/ Lost(p) PROVE Goal
  <2>1. UNCHANGED <<file, trash>> /\ t \notin exposed
    BY <1>4, PullFrame, PullExposes
  <2>2. UNCHANGED row \/ \A u \in Tids : row'[u] = file[u].m
    BY <1>4 DEF PullStep, Begin, Reconcile, List, Read, Answer, AnswerMax, Apply, Save, Lost, hub
  <2>3. \A q \in Pullers : \A d \in rows'[q] : d \in rows[q] \/ \E u \in Tids : d = <<u, row[u]>>
    BY <1>0, <1>4 DEF PullStep, Begin, Reconcile, List, Read, Answer, AnswerMax, Apply, Save, Lost
  <2> QED
    BY <1>0, <1>1, <2>1, <2>2, <2>3
<1>5. ASSUME UNCHANGED vars \/ Tick PROVE Goal
  <2>1. UNCHANGED <<file, trash, row, rows, exposed>>
    BY <1>5 DEF vars, hub, pull, Tick
  <2> QED
    BY <1>0, <1>1, <2>1
<1> HIDE DEF Goal
<1>6. Goal
  BY <1>2, <1>3, <1>4, <1>5 DEF Next, HubWrite
<1> QED
  BY <1>6 DEF Goal

\* One pull leaves what another one holds, and what the laptop has of the
\* transcripts it does not write.
LEMMA SafeAfterPull ==
  ASSUME TypeOK, Times, Stages, NEW p \in Pullers, PullStep(p) \/ Lost(p),
         NEW t \in Tids, t \notin exposed', file[t] # Nothing, Alone(t), Safe(t)
  PROVE  Safe(t)'
<1>0. /\ DOMAIN pc = Pullers /\ DOMAIN since = Pullers /\ DOMAIN next = Pullers
      /\ DOMAIN rows = Pullers /\ DOMAIN docs = Pullers /\ DOMAIN dev = Tids
      /\ \A u \in Tids : file[u].m \in Nat /\ file[u].v \in Nat /\ row[u] \in Nat
      /\ cursor \in Nat
      /\ \A q \in Pullers : since[q] \in Nat /\ next[q] \in Nat
      /\ \A q \in Pullers : \A d \in rows[q] : d[1] \in Tids /\ d[2] \in Nat /\ d = <<d[1], d[2]>>
      /\ \A q \in Pullers : \A d \in docs[q] : d[1] \in Tids /\ d[2] \in Nat /\ d = <<d[1], d[2]>>
  BY Typed
<1>f. UNCHANGED file
  BY PullFrame
<1> DEFINE Goal == Safe(t)'
           Others == \A q \in Pullers \ {p} :
                        /\ pc'[q] = pc[q] /\ since'[q] = since[q] /\ next'[q] = next[q]
                        /\ rows'[q] = rows[q] /\ docs'[q] = docs[q]
<1>1. ASSUME Others, cursor' = cursor, dev'[t] = dev[t], pc'[p] # "idle" => Minded(p, t)' PROVE Goal
  <2>1. ASSUME NEW q \in Pullers \ {p}, pc'[q] # "idle" PROVE Minded(q, t)'
    <3>1. Minded(q, t)
      BY <1>1, <2>1 DEF Safe
    <3> QED
      BY <1>1, <1>f, <2>1, <3>1 DEF Minded, Arrived
  <2> QED
    BY <1>1, <1>f, <2>1 DEF Safe, Arrived
<1>2. pc[p] # "idle" => Minded(p, t)
  BY DEF Safe
<1>3. ASSUME Begin(p) PROVE Goal
  <2>1. /\ Others /\ UNCHANGED <<cursor, dev>>
        /\ since'[p] = cursor /\ next'[p] = cursor /\ docs'[p] = {} /\ rows'[p] = {}
    BY <1>0, <1>3 DEF Begin, Goto, Stages
  <2>2. Minded(p, t)'
    BY <1>f, <2>1 DEF Minded, Safe, Arrived
  <2> QED
    BY <1>1, <2>1, <2>2
<1>4. ASSUME Reconcile(p) \/ Answer(p) PROVE Goal
  <2>1. Others /\ UNCHANGED <<cursor, dev, since, rows, docs, next>> /\ pc[p] # "idle"
    BY <1>0, <1>4 DEF Reconcile, Answer, Goto
  <2>2. Minded(p, t)'
    BY <1>2, <1>f, <2>1 DEF Minded, Arrived
  <2> QED
    BY <1>1, <2>1, <2>2
<1>5. ASSUME List(p) PROVE Goal
  <2>1. PICK page \in SUBSET {<<u, row[u]>> : u \in Tids} :
           Listed(p, page) /\ rows' = [rows EXCEPT ![p] = page]
    BY <1>5 DEF List
  <2>2. /\ Others /\ UNCHANGED <<cursor, dev, since, docs, next>> /\ pc[p] = "list"
        /\ rows'[p] = page /\ file[t].m = row[t] /\ docs[p] = {}
    BY <1>0, <1>5, <2>1 DEF List, Goto, Stages
  <2>3. Minded(p, t)
    BY <1>2, <2>2
  <2>4. ASSUME NEW d \in page, file[t].m <= d[2], ~Arrived(t) PROVE <<t, file[t].m>> \in page
    <3>1. row[t] > since[p]
      BY <1>0, <2>2, <2>3, <2>4 DEF Minded
    <3>2. <<t, row[t]>> \in page \/ Older(d, <<t, row[t]>>)
      BY <2>1, <2>4, <3>1 DEF Listed
    <3>3. PICK u \in Tids : d = <<u, row[u]>>
      BY <2>1
    <3>4. ASSUME Older(d, <<t, row[t]>>) PROVE u = t
      <4>1. row[u] = file[t].m
        BY <1>0, <2>2, <2>4, <3>3, <3>4 DEF Older
      <4> QED
        BY <4>1 DEF Alone
    <3> QED
      BY <2>2, <3>2, <3>3, <3>4
  <2>5. Minded(p, t)'
    BY <1>f, <2>2, <2>3, <2>4 DEF Minded, Arrived
  <2> QED
    BY <1>1, <2>2, <2>5
<1>6. ASSUME Read(p) PROVE Goal
  <2>1. PICK d \in rows[p] :
           /\ First(p, d) /\ rows' = [rows EXCEPT ![p] = @ \ {d}]
           /\ \/ /\ docs' = [docs EXCEPT ![p] = @ \cup {<<d[1], file[d[1]].v>>}]
                 /\ next' = [next EXCEPT ![p] = d[2]]
              \/ file[d[1]] = Nothing /\ UNCHANGED <<docs, next>>
              \/ exposed' = exposed \cup {d[1]} /\ UNCHANGED <<docs, next>>
    BY <1>6 DEF Read
  <2>2. /\ Others /\ UNCHANGED <<cursor, dev, since, pc>> /\ pc[p] = "read"
        /\ rows'[p] = rows[p] \ {d} /\ docs[p] \subseteq docs'[p]
        /\ \A e \in docs'[p] : e \in docs[p] \/ e = <<d[1], file[d[1]].v>>
        /\ next'[p] = next[p] \/ next'[p] = d[2]
    BY <1>0, <1>6, <2>1 DEF Read
  <2>3. Minded(p, t) /\ d = <<d[1], d[2]>> /\ d[1] \in Tids
    BY <1>0, <1>2, <2>2
  <2>4. ASSUME d[1] = t PROVE Minded(p, t)'
    <3>1. <<t, file[t].v>> \in docs'[p]
      BY <1>0, <2>1, <2>4
    <3> QED
      BY <1>f, <2>2, <2>3, <2>4, <3>1 DEF Minded, Arrived
  <2>5. ASSUME d[1] # t PROVE Minded(p, t)'
    <3>1. file[t].m <= d[2] => Arrived(t) \/ <<t, file[t].v>> \in docs[p]
      <4>1. ASSUME <<t, file[t].m>> \in rows[p], file[t].m <= d[2] PROVE FALSE
        <5>1. d[2] <= <<t, file[t].m>>[2]
          BY <2>1, <4>1 DEF First, Older
        <5>2. d[2] = file[t].m
          BY <1>0, <4>1, <5>1
        <5> QED
          BY <2>3, <2>5, <5>2 DEF Alone
      <4> QED
        BY <2>3, <4>1 DEF Minded
    <3>2. file[t].m <= next'[p] => Arrived(t) \/ <<t, file[t].v>> \in docs'[p]
      BY <2>2, <2>3, <3>1 DEF Minded
    <3>3. ASSUME NEW e \in rows'[p], file[t].m <= e[2]
          PROVE  Arrived(t) \/ <<t, file[t].v>> \in docs'[p] \/ <<t, file[t].m>> \in rows'[p]
      <4>1. <<t, file[t].m>> # d
        BY <2>3, <2>5
      <4> QED
        BY <2>2, <2>3, <3>3, <4>1 DEF Minded
    <3>4. ASSUME NEW e \in docs'[p], e[1] = t, e[2] # file[t].v PROVE ~Arrived(t)
      <4>1. e # <<d[1], file[d[1]].v>>
        BY <2>5, <3>4
      <4> QED
        BY <2>2, <2>3, <3>4, <4>1 DEF Minded
    <3>5. file[t].m <= since[p] => Arrived(t)
      BY <2>3 DEF Minded
    <3> QED
      BY <1>f, <2>2, <3>2, <3>3, <3>4, <3>5 DEF Minded, Arrived
  <2> QED
    BY <1>1, <2>2, <2>4, <2>5
<1>7. ASSUME AnswerMax(p) PROVE Goal
  <2>1. /\ Others /\ UNCHANGED <<cursor, dev, since, rows, docs>> /\ pc[p] = "max"
        /\ ~(file[t].m > since[p]) /\ docs[p] = {}
    BY <1>0, <1>7 DEF AnswerMax, Goto, Stages
  <2>2. Arrived(t)
    BY <1>0, <1>2, <2>1 DEF Minded
  <2>3. Minded(p, t)'
    BY <1>f, <2>1, <2>2 DEF Minded, Arrived
  <2> QED
    BY <1>1, <2>1, <2>3
<1>8. ASSUME Lost(p) PROVE Goal
  <2>1. Others /\ UNCHANGED <<cursor, dev>> /\ pc'[p] = "idle"
    BY <1>0, <1>8 DEF Lost, Goto
  <2> QED
    BY <1>1, <2>1
<1>9. ASSUME Apply(p) PROVE Goal
  <2>1. PICK d \in docs[p] :
           /\ dev' = [dev EXCEPT ![d[1]] = d[2]] /\ docs' = [docs EXCEPT ![p] = @ \ {d}]
           /\ exposed' = IF Overlapping(p) THEN exposed \cup {d[1]} ELSE exposed
    BY <1>9 DEF Apply
  <2>2. /\ Others /\ UNCHANGED <<cursor, since, rows, next, pc>> /\ pc[p] = "apply"
        /\ docs'[p] = docs[p] \ {d} /\ rows[p] = {}
        /\ d[1] \in Tids /\ d = <<d[1], d[2]>>
    BY <1>0, <1>9, <2>1 DEF Apply, Stages
  <2>3. Minded(p, t)
    BY <1>2, <2>2
  <2>4. ASSUME d[1] # t PROVE Goal
    <3>1. dev'[t] = dev[t] /\ <<t, file[t].v>> # d
      BY <1>0, <2>1, <2>2, <2>4
    <3>2. Minded(p, t)'
      BY <1>f, <2>2, <2>3, <3>1 DEF Minded, Arrived
    <3> QED
      BY <1>1, <2>2, <3>1, <3>2
  <2>5. ASSUME d[1] = t PROVE Goal
    <3>1. \A q \in Pullers \ {p} : pc'[q] = "idle"
      BY <2>1, <2>2, <2>5 DEF Overlapping
    <3>2. dev'[t] = d[2] /\ \A e \in docs'[p] : e[1] # t
      BY <1>0, <2>1, <2>2, <2>5 DEF Stages
    <3>3. ASSUME d[2] # file[t].v
          PROVE  ~(file[t].m <= cursor) /\ ~(file[t].m <= since[p]) /\ ~(file[t].m <= next[p])
      <4>1. ~Arrived(t)
        BY <2>3, <2>5, <3>3 DEF Minded
      <4>2. <<t, file[t].v>> \notin docs[p]
        <5>1. <<t, file[t].v>> # d
          BY <3>3
        <5> QED
          BY <2>2, <2>5, <3>2, <5>1
      <4> QED
        BY <2>3, <4>1, <4>2 DEF Minded, Safe
    <3>4. Minded(p, t)'
      BY <1>f, <2>2, <3>2, <3>3 DEF Minded, Arrived
    <3>5. file'[t].m <= cursor' => Arrived(t)'
      BY <1>f, <2>2, <3>2, <3>3 DEF Arrived
    <3> QED
      BY <3>1, <3>4, <3>5 DEF Safe
  <2> QED
    BY <2>4, <2>5
<1>10. ASSUME Save(p) PROVE Goal
  <2>1. /\ Others /\ UNCHANGED <<dev, since, rows, docs, next>>
        /\ pc[p] = "apply" /\ pc'[p] = "idle" /\ docs[p] = {}
        /\ cursor' = cursor \/ cursor' = next[p]
    BY <1>0, <1>10 DEF Save, Goto
  <2>2. file[t].m <= cursor' => Arrived(t)
    BY <1>2, <2>1 DEF Minded, Safe
  <2>3. ASSUME NEW q \in Pullers \ {p}, pc'[q] # "idle" PROVE Minded(q, t)'
    <3>1. Minded(q, t)
      BY <2>1, <2>3 DEF Safe
    <3> QED
      BY <1>f, <2>1, <3>1 DEF Minded, Arrived
  <2> QED
    BY <1>f, <2>1, <2>2, <2>3 DEF Safe, Arrived
<1> HIDE DEF Goal
<1>11. Goal
  BY <1>3, <1>4, <1>5, <1>6, <1>7, <1>8, <1>9, <1>10 DEF PullStep
<1> QED
  BY <1>11 DEF Goal

LEMMA ShownStep ==
  ASSUME TypeOK, Times, Fresh, Bounded, Stages, Shown, [Next]_vars
  PROVE  Shown'
<1> SUFFICES ASSUME NEW t \in Tids, t \notin exposed', file'[t] # Nothing PROVE Safe(t)'
  BY AloneStep DEF Shown
<1>0. DOMAIN file = Tids /\ \A u \in Tids : file[u].m \in Nat /\ trash[u].m \in Nat /\ tmp[u].m \in Nat
  BY Typed
<1> DEFINE Goal == Safe(t)'
<1>1. ASSUME t \notin exposed, file'[t] = file[t],
             UNCHANGED <<cursor, dev, pc, since, rows, docs, next>>
      PROVE  Goal
  <2>1. Safe(t)
    BY <1>1 DEF Shown
  <2>2. ASSUME NEW p \in Pullers, Minded(p, t) PROVE Minded(p, t)'
    BY <1>1, <2>2 DEF Minded, Arrived
  <2> QED
    BY <1>1, <2>1, <2>2 DEF Safe, Arrived
<1>2. ASSUME Rename(t) PROVE Goal
  <2>1. /\ UNCHANGED <<cursor, dev, pc, since, rows, docs, next>>
        /\ tmp[t] # Nothing /\ file'[t] = tmp[t]
    BY <1>0, <1>2, HubFrame DEF Rename, HubWrite
  <2>2. \A u \in Tids : file[u].m < tmp[t].m /\ trash[u].m < tmp[t].m
    BY <1>0, <1>2 DEF Rename
  <2>3. /\ ~(tmp[t].m <= cursor)
        /\ \A p \in Pullers : /\ ~(tmp[t].m <= since[p]) /\ ~(tmp[t].m <= next[p])
                              /\ \A d \in rows[p] : ~(tmp[t].m <= d[2])
    <3>1. cursor \in Nat /\ \A p \in Pullers : /\ since[p] \in Nat /\ next[p] \in Nat
                                               /\ \A d \in rows[p] : d[2] \in Nat
      BY Typed
    <3> QED
      BY <1>0, <2>1, <2>2, <3>1, NewestIsNew
  <2>4. dev[t] # tmp[t].v
    BY <2>1 DEF Fresh
  <2>5. \A p \in Pullers : Minded(p, t)'
    BY <2>1, <2>3, <2>4 DEF Minded, Arrived
  <2> QED
    BY <2>1, <2>3, <2>5 DEF Safe
<1>3. ASSUME NEW w \in Tids, HubWrite(w), ~Rename(t) PROVE Goal
  <2>1. t \notin exposed /\ file'[t] = file[t]
    BY <1>0, <1>3 DEF HubWrite, WriteTmp, Rename, Index, Delete, Restore
  <2> QED
    BY <1>1, <1>3, <2>1, HubFrame
<1>4. ASSUME NEW p \in Pullers, PullStep(p) \/ Lost(p) PROVE Goal
  <2>1. t \notin exposed /\ file[t] # Nothing
    BY <1>4, PullFrame, PullExposes
  <2>2. Alone(t) /\ Safe(t)
    BY <2>1 DEF Shown
  <2> QED
    BY <1>4, <2>1, <2>2, SafeAfterPull
<1>5. ASSUME UNCHANGED vars \/ Tick PROVE Goal
  <2>1. UNCHANGED <<file, exposed, cursor, dev, pc, since, rows, docs, next>>
    BY <1>5 DEF vars, hub, pull, Tick
  <2> QED
    BY <1>1, <2>1
<1> HIDE DEF Goal
<1>6. Goal
  BY <1>2, <1>3, <1>4, <1>5 DEF Next
<1> QED
  BY <1>6 DEF Goal

-----------------------------------------------------------------------------
(* The results. *)

LEMMA InvInit == Init => IInv
<1> SUFFICES ASSUME Init PROVE IInv
  OBVIOUS
<1>0. /\ MaxTime \in Nat \ {0} /\ MaxWrites \in Nat /\ MaxFaults \in Nat
      /\ Nothing.v = 0 /\ Nothing.m = 0
  BY SyncAssumption DEF Nothing
<1>1. Nothing \in Version /\ 1 \in 1..MaxTime /\ 0 \in 0..MaxTime /\ 0 \in 0..MaxWrites /\ 0 \in 0..MaxFaults
  BY <1>0 DEF Version, Nothing
<1>2. TypeOK
  BY <1>1 DEF Init, TypeOK, HubType, PullType
<1>3. Times /\ Fresh
  BY <1>0 DEF Init, Times, Fresh
<1>4. Bounded /\ Stages /\ Shown
  BY DEF Init, Bounded, Reached, Stages, Shown
<1> QED
  BY <1>2, <1>3, <1>4 DEF IInv

LEMMA InvStep == IInv /\ [Next]_vars => IInv'
<1> SUFFICES ASSUME IInv, [Next]_vars PROVE IInv'
  OBVIOUS
<1>1. TypeOK /\ Times /\ Fresh /\ Bounded /\ Stages /\ Shown
  BY DEF IInv
<1>2. TypeOK'
  BY <1>1, HubTypeStep, PullTypeStep DEF TypeOK
<1> QED
  BY <1>1, <1>2, TimesStep, FreshStep, BoundedStep, StagesStep, ShownStep DEF IInv

\* Every state of the hub and of the pulls has its type; a version is never
\* sent or written that the hub has not made (TypeOK of SyncFeed).
THEOREM FeedTyped == Spec => []TypeOK
<1>1. IInv => TypeOK
  BY DEF IInv
<1> QED
  BY InvInit, InvStep, <1>1, PTL DEF Spec

\* The cursor the laptop has saved never passes a transcript of which it lacks
\* the present version, for any number of transcripts, pulls and rows in a
\* delta, unless the transcript is exposed (pull_once and _build_delta).
THEOREM CursorNeverAhead == Spec => []NothingBehindCursor
<1>1. IInv => NothingBehindCursor
  BY DEF IInv, Shown, Safe, Arrived, NothingBehindCursor
<1> QED
  BY InvInit, InvStep, <1>1, PTL DEF Spec
=============================================================================
