----------------------------- MODULE EmbedProofs -----------------------------
(***************************************************************************)
(* Proofs about the semantic index: a stored vector belongs to the text of *)
(* its chunk, searches see present chunks only and all that are embedded,  *)
(* and an upgrade loses no transcript unless it is interrupted.            *)
(*                                                                         *)
(* The worker embeds with no lock held and stores by chunk id.  What makes *)
(* this safe is that an id is never given to a second chunk while the      *)
(* worker may hold the first: AUTOINCREMENT, and a worker that begins      *)
(* empty whenever the tables (and with them the counter) are dropped.      *)
(***************************************************************************)
EXTENDS EmbedIndex, FiniteSetTheorems, TLAPS

\* Ids of chunks are distinct and not larger than the counter.
IdsDistinct ==
  /\ lastId \in Nat
  /\ \A c \in chunk : c.id \in Nat /\ c.id <= lastId
  /\ \A c, d \in chunk : c.id = d.id => c = d

\* A chunk in the worker's hand has an id the counter has passed; what the
\* table has under this id now is the same chunk.
BatchCurrent ==
  \A b \in batch : /\ b.id \in Nat /\ b.id <= lastId
                   /\ \A c \in chunk : c.id = b.id => c = b

\* No embedding waits under an id that is still to be given out.
EmbeddingsBehind == \A e \in emb : e.id \in Nat /\ e.id <= lastId

\* The worker has nothing in hand while the tables are rebuilt.
IdleAtStart == ~Up => batch = {}

IInv == IdsDistinct /\ BatchCurrent /\ EmbeddingsBehind /\ IdleAtStart /\ VectorOfText

\* Initially there is one chunk and no embedding.
LEMMA InitInv == Init => IInv
BY DEF Init, IInv, IdsDistinct, BatchCurrent, EmbeddingsBehind, IdleAtStart, VectorOfText

\* upsert_path keeps the invariant: the new chunk's id is that of no other
\* chunk, of no embedding and of nothing in the worker's hand.
LEMMA UpsertInv ==
  ASSUME NEW i, IInv, Upsert(i), UNCHANGED batch
  PROVE  IdsDistinct' /\ BatchCurrent' /\ EmbeddingsBehind' /\ VectorOfText'
<1> DEFINE t == hand[i].t
           v == hand[i].v
<1>1. CASE v \in garbled \cup {0}
  BY <1>1 DEF Upsert, IInv, IdsDistinct, BatchCurrent, EmbeddingsBehind, VectorOfText
<1>2. CASE v \notin garbled \cup {0}
  <2> DEFINE new == [id |-> lastId + 1, t |-> t, v |-> v]
  <2>1. /\ lastId' = lastId + 1
        /\ chunk' = {c \in chunk : c.t # t} \cup {new}
        /\ emb' \subseteq emb
        /\ batch' = batch
    BY <1>2 DEF Upsert, Cascade
  <2>2. new.id = lastId + 1
    OBVIOUS
  <2> HIDE DEF new
  <2> QED
    BY <2>1, <2>2 DEF IInv, IdsDistinct, BatchCurrent, EmbeddingsBehind, VectorOfText
<1> QED
  BY <1>1, <1>2

\* Removing chunks and embeddings keeps it too.
LEMMA ShrinkInv ==
  ASSUME IInv, chunk' \subseteq chunk, emb' \subseteq emb, batch' \subseteq batch, lastId' = lastId
  PROVE  IdsDistinct' /\ BatchCurrent' /\ EmbeddingsBehind' /\ VectorOfText'
BY DEF IInv, IdsDistinct, BatchCurrent, EmbeddingsBehind, VectorOfText

\* store_embeddings: each vector goes to the chunk it was computed from.
LEMMA StoreInv == ASSUME IInv, Store PROVE IInv'
<1>1. IdsDistinct' /\ BatchCurrent' /\ IdleAtStart'
  BY DEF IInv, Store, IdsDistinct, BatchCurrent, IdleAtStart, Up
<1>2. CASE \A b \in batch : \E c \in chunk : c.id = b.id
  <2>1. /\ chunk' = chunk /\ lastId' = lastId
        /\ \A e \in emb' : e \in emb \/ \E b \in batch : e.id = b.id /\ e.v = b.v
    BY <1>2 DEF Store
  <2>2. EmbeddingsBehind'
    BY <2>1 DEF IInv, BatchCurrent, EmbeddingsBehind
  <2>3. VectorOfText'
    BY <2>1 DEF IInv, BatchCurrent, VectorOfText
  <2> QED
    BY <1>1, <2>2, <2>3 DEF IInv
<1>3. CASE ~ \A b \in batch : \E c \in chunk : c.id = b.id
  BY <1>1, <1>3 DEF IInv, Store, EmbeddingsBehind, VectorOfText
<1> QED
  BY <1>2, <1>3

\* A batch is a set of chunks the table has.
LEMMA DrainInv == ASSUME IInv, Drain PROVE IInv'
<1>1. batch' \subseteq chunk \/ batch' = batch
  BY DEF Drain, Pending, kSubset
<1>2. /\ UNCHANGED <<chunk, emb, lastId, phase>>
      /\ Up
  BY DEF Drain, tables, process
<1> QED
  BY <1>1, <1>2 DEF IInv, IdsDistinct, BatchCurrent, EmbeddingsBehind, IdleAtStart, VectorOfText, Up

\* Every step preserves the invariant.
LEMMA NextInv == ASSUME IInv, [Next]_vars PROVE IInv'
<1> USE DEF tables, process, worker, search
<1>1. CASE UNCHANGED <<chunk, emb, lastId, batch, phase>>
  BY <1>1 DEF IInv, IdsDistinct, BatchCurrent, EmbeddingsBehind, IdleAtStart, VectorOfText, Up
<1>2. ASSUME NEW i \in Indexers, Index(i) PROVE IInv'
  <2>1. UNCHANGED <<batch, phase>> /\ Upsert(i)
    BY <1>2 DEF Index
  <2> QED
    BY <2>1, UpsertInv DEF IInv, IdleAtStart, Up
<1>3. ASSUME NEW t \in Tids, Remove(t) PROVE IInv'
  <2>1. chunk' \subseteq chunk /\ emb' \subseteq emb /\ UNCHANGED <<batch, phase, lastId>>
    BY <1>3 DEF Remove, Cascade
  <2> QED
    BY <2>1, ShrinkInv DEF IInv, IdleAtStart, Up
<1>4. CASE Restart \/ EmbedFails
  <2>1. batch' = {} /\ UNCHANGED <<chunk, emb, lastId>>
    BY <1>4 DEF Restart, EmbedFails
  <2> QED
    BY <2>1, ShrinkInv DEF IInv, IdleAtStart
<1>5. CASE DropTables
  BY <1>5 DEF DropTables, IInv, IdsDistinct, BatchCurrent, EmbeddingsBehind, IdleAtStart, VectorOfText, Up
<1>6. CASE Boot \/ DropVersion \/ Create \/ Reindexed \/ Scanned
  <2>1. UNCHANGED <<chunk, emb, lastId, batch>> /\ (~Up' => ~Up)
    BY <1>6 DEF Boot, DropVersion, Create, Reindexed, Scanned, Up
  <2> QED
    BY <2>1, ShrinkInv DEF IInv, IdleAtStart
<1>7. ASSUME NEW t \in Tids,
             \/ Unfile(t) \/ Skip(t) \/ Look(t) \/ \E ok \in BOOLEAN : Save(t, ok)
             \/ \E i \in Indexers : Stat(i, t)
      PROVE  IInv'
  BY <1>1, <1>7 DEF Unfile, Save, Skip, Look, Stat
<1>8. ASSUME NEW s \in Searchers, Ask(s) \/ TopChunks(s) \/ Answer(s) PROVE IInv'
  BY <1>1, <1>8 DEF Ask, TopChunks, Answer
<1>9. CASE Wake
  BY <1>1, <1>9 DEF Wake
<1>10. CASE UNCHANGED vars
  BY <1>1, <1>10 DEF vars
<1>11. ASSUME NEW i \in Indexers, Read(i) PROVE IInv'
  BY <1>1, <1>11 DEF Read
<1> QED
  BY <1>2, <1>3, <1>4, <1>5, <1>6, <1>7, <1>8, <1>9, <1>10, <1>11, DrainInv, StoreInv DEF Next
-----------------------------------------------------------------------------
(* What searches see, and what an upgrade keeps. *)

\* What is in the index is not gone from it.
PastGone == \A c \in chunk : <<c.t, c.v>> \notin past

\* The cached matrix is about chunks that are there.
CacheCurrent ==
  /\ ~Up => cache = None
  /\ cache # None => \A h \in cache : \E c \in chunk : c.t = h.t /\ c.v = h.v

\* A search has found nothing before it has looked.
FoundNothing == \A s \in Searchers : spc[s] # "have" => top[s] = {}

\* Nothing is being indexed before the tables are those of the release.
HandsEmpty ==
  phase \in {"boot", "drop", "version", "create"} => \A i \in Indexers : hand[i] = None

\* Of a rebuild that is not interrupted every transcript is indexed or known; and
\* the start-up scan has not yet been at the known directories' that are owed.
OwedKnown ==
  /\ ~forgot =>
       /\ phase \in {"boot", "drop", "reindex", "scan", "serve"} => table
       /\ phase = "drop" => known = {t \in Tids : row[t] # 0}
       /\ \A t \in owed \ Below : phase \in {"version", "create", "reindex"} /\ t \in known
  /\ phase = "scan" => owed \cap Registered \subseteq known
  /\ phase = "serve" => owed \cap Registered = {}

JInv ==
  /\ IInv /\ TypeOK /\ IsFiniteSet(chunk)
  /\ PastGone /\ CacheCurrent /\ FoundNothing
  /\ SearchFresh /\ SearchComplete /\ HandsEmpty /\ OwedKnown

\* What the transaction of upsert_path does to the tables.
LEMMA UpsertFacts ==
  ASSUME TypeOK, NEW i \in Indexers, hand[i] # None, Upsert(i)
  PROVE  \E t \in Tids :
           /\ t = hand[i].t /\ hand[i].stat \in Version /\ row' = [row EXCEPT ![t] = hand[i].stat]
           /\ \/ UNCHANGED <<chunk, emb, lastId, cache, past, dead>>
              \/ \E n \in Chunk :
                   /\ n.t = t /\ chunk' = {c \in chunk : c.t # t} \cup {n}
                   /\ cache' = None /\ lastId' = lastId + 1
                   /\ emb' = {e \in emb : \A c \in chunk : c.t = t => c.id # e.id}
                   /\ past' = (past \cup {<<t, c.v>> : c \in {d \in chunk : d.t = t}})
                                \ {<<t, n.v>>}
                   /\ dead' = [s \in Searchers |-> dead[s] \ {<<t, n.v>>}]
<1>0. PICK h : h = hand[i]
  OBVIOUS
<1>1. h.t \in Tids /\ h.stat \in Version /\ h.v \in 0..MaxWrites
  <2>1. h \in InHand
    BY <1>0 DEF TypeOK, ProcessType
  <2> QED
    BY <2>1 DEF InHand
<1>2. CASE h.v \in garbled \cup {0}
  BY <1>0, <1>1, <1>2 DEF Upsert
<1>3. CASE h.v \notin garbled \cup {0}
  <2>1. lastId \in Nat
    BY DEF TypeOK, TableType
  <2>2. PICK n : n = [id |-> lastId + 1, t |-> h.t, v |-> h.v]
    OBVIOUS
  <2>3. n \in Chunk /\ n.t = h.t /\ n.v = h.v
    <3>1. h.v \in Version
      BY <1>1, <1>3, EmbedAssumption DEF Version
    <3> QED
      BY <1>1, <2>1, <2>2, <3>1 DEF Chunk, Ids
  <2>4. /\ chunk' = {c \in chunk : c.t # h.t} \cup {n}
        /\ cache' = None /\ lastId' = lastId + 1 /\ row' = [row EXCEPT ![h.t] = h.stat]
    BY <1>0, <1>3, <2>2 DEF Upsert
  <2>5. emb' = {e \in emb : \A c \in chunk : c.t = h.t => c.id # e.id}
    BY <1>0, <1>3 DEF Upsert, Cascade
  <2>6. /\ past' = (past \cup {<<h.t, c.v>> : c \in {d \in chunk : d.t = h.t}}) \ {<<h.t, n.v>>}
        /\ dead' = [s \in Searchers |-> dead[s] \ {<<h.t, n.v>>}]
    BY <1>0, <1>3, <2>3 DEF Upsert, Shown, Texts
  <2> QED
    BY <1>0, <1>1, <2>3, <2>4, <2>5, <2>6
<1> QED
  BY <1>2, <1>3

\* Searches, the worker's waits and start-up leave the tables alone.
LEMMA TableFrame ==
  ASSUME \/ \E s \in Searchers : Ask(s) \/ TopChunks(s) \/ Answer(s)
         \/ \E t \in Tids : Skip(t) \/ Look(t) \/ \E i \in Indexers : Stat(i, t)
         \/ \E i \in Indexers : Read(i)
         \/ Drain \/ EmbedFails \/ Wake \/ Boot \/ Reindexed \/ Scanned \/ UNCHANGED vars
  PROVE  UNCHANGED <<file, garbled, row, chunk, emb, lastId, schema, table, writes>>
BY DEF Ask, TopChunks, Answer, Skip, Look, Stat, Read, Drain, EmbedFails, Wake, Boot, Reindexed,
   Scanned, vars, tables

\* The tables keep their keys: one chunk of a transcript, one embedding of a
\* chunk, none without a chunk.
LEMMA TableStep ==
  ASSUME IInv, IInv', TypeOK, IsFiniteSet(chunk), [Next]_vars
  PROVE  TableType' /\ IsFiniteSet(chunk')
<1> DEFINE Keyed == /\ chunk \subseteq Chunk /\ \A c, d \in chunk : c.id = d.id \/ c.t = d.t => c = d
                    /\ emb \subseteq Embedding /\ \A e, f \in emb : e.id = f.id => e = f
                    /\ \A e \in emb : \E c \in chunk : c.id = e.id
                    /\ IsFiniteSet(chunk)
           Files == /\ file \in [Tids -> 0..MaxWrites] /\ garbled \subseteq Version
                    /\ writes \in 0..MaxWrites
           Rest == /\ schema \in {"none", "old", "new"} /\ table \in BOOLEAN
                   /\ faults \in 0..MaxFaults
<1>0. /\ Keyed /\ Files /\ Rest /\ row \in [Tids -> 0..MaxWrites]
      /\ MaxWrites \in Nat /\ MaxFaults \in Nat
  BY EmbedAssumption DEF TypeOK, TableType
<1>1. lastId' \in Nat
  BY DEF IInv, IdsDistinct
<1>2. Files'
  <2>1. ASSUME UNCHANGED <<file, garbled, writes>> PROVE Files'
    BY <1>0, <2>1
  <2>2. ASSUME NEW t \in Tids, NEW ok \in BOOLEAN, Save(t, ok) PROVE Files'
    <3>1. writes + 1 \in 1..MaxWrites /\ writes' = writes + 1
      BY <1>0, <2>2 DEF Save
    <3> QED
      BY <1>0, <2>2, <3>1 DEF Save, Version
  <2>3. ASSUME NEW t \in Tids, Unfile(t) PROVE Files'
    BY <1>0, <2>3 DEF Unfile
  <2>4. ASSUME \/ \E i \in Indexers : Index(i)
               \/ \E t \in Tids : Remove(t)
               \/ Store \/ Restart \/ DropTables \/ DropVersion \/ Create
        PROVE  Files'
    BY <2>1, <2>4 DEF Index, Remove, Store, Restart, DropTables, DropVersion, Create
  <2> HIDE DEF Files
  <2> QED
    BY <2>1, <2>2, <2>3, <2>4, TableFrame DEF Next
<1>3. Rest'
  <2>1. faults' = faults \/ (faults < MaxFaults /\ faults' = faults + 1)
    BY DEF Next, Save, Unfile, Stat, Read, Index, Remove, Skip, Look, Ask, TopChunks, Answer, Drain, EmbedFails,
       Store, Wake, Restart, Boot, DropTables, DropVersion, Create, Reindexed, Scanned, Fault, vars
  <2>2. faults' \in 0..MaxFaults
    BY <1>0, <2>1
  <2>3. /\ schema' = schema \/ schema' \in {"none", "old", "new"}
        /\ table' = table \/ table' \in BOOLEAN
    BY DEF Next, Save, Unfile, Stat, Read, Index, Remove, Skip, Look, Ask, TopChunks, Answer, Drain, EmbedFails,
       Store, Wake, Restart, Boot, DropTables, DropVersion, Create, Reindexed, Scanned, vars, tables
  <2> QED
    BY <1>0, <2>2, <2>3
<1>4. Keyed' /\ row' \in [Tids -> 0..MaxWrites]
  <2> DEFINE Goal == Keyed' /\ row' \in [Tids -> 0..MaxWrites]
  <2>0. \A c, d \in chunk' : c.id = d.id => c = d
    BY DEF IInv, IdsDistinct
  <2>1. ASSUME UNCHANGED <<row, chunk, emb>> PROVE Goal
    BY <1>0, <2>1
  <2>2. ASSUME NEW i \in Indexers, Index(i) PROVE Goal
    <3>0. PICK t \in Tids :
            /\ t = hand[i].t /\ hand[i].stat \in Version /\ row' = [row EXCEPT ![t] = hand[i].stat]
            /\ \/ UNCHANGED <<chunk, emb>>
               \/ \E n \in Chunk :
                    /\ n.t = t /\ chunk' = {c \in chunk : c.t # t} \cup {n}
                    /\ emb' = {e \in emb : \A c \in chunk : c.t = t => c.id # e.id}
      BY <2>2, UpsertFacts DEF Index
    <3>1. row' \in [Tids -> 0..MaxWrites]
      BY <1>0, <3>0 DEF Version
    <3>2. CASE UNCHANGED <<chunk, emb>>
      BY <1>0, <3>1, <3>2
    <3>3. ASSUME NEW n \in Chunk, n.t = t, chunk' = {c \in chunk : c.t # t} \cup {n},
                 emb' = {e \in emb : \A c \in chunk : c.t = t => c.id # e.id}
          PROVE  Keyed'
      <4>1. chunk' \subseteq Chunk /\ \A c, d \in chunk' : c.t = d.t => c = d
        BY <1>0, <3>3
      <4>2. emb' \subseteq Embedding /\ \A e, f \in emb' : e.id = f.id => e = f
        BY <1>0, <3>3
      <4>3. ASSUME NEW e \in emb' PROVE \E c \in chunk' : c.id = e.id
        <5>1. PICK c \in chunk : c.id = e.id
          BY <1>0, <3>3, <4>3
        <5>2. c.t # t
          BY <3>3, <4>3, <5>1
        <5> QED
          BY <3>3, <5>1, <5>2
      <4>4. IsFiniteSet(chunk')
        <5>1. IsFiniteSet({c \in chunk : c.t # t})
          BY <1>0, FS_Subset
        <5> QED
          BY <3>3, <5>1, FS_AddElement
      <4> QED
        BY <2>0, <4>1, <4>2, <4>3, <4>4
    <3> QED
      BY <3>0, <3>1, <3>2, <3>3
  <2>4. ASSUME NEW t \in Tids, Remove(t) PROVE Goal
    <3>1. /\ row' = [row EXCEPT ![t] = 0] /\ chunk' = {c \in chunk : c.t # t}
          /\ emb' = {e \in emb : \A c \in chunk : c.t = t => c.id # e.id}
      BY <2>4 DEF Remove, Cascade
    <3>2. row' \in [Tids -> 0..MaxWrites] /\ chunk' \subseteq chunk /\ emb' \subseteq emb
      BY <1>0, <3>1
    <3>3. ASSUME NEW e \in emb' PROVE \E c \in chunk' : c.id = e.id
      <4>1. PICK c \in chunk : c.id = e.id
        BY <1>0, <3>1, <3>3
      <4> QED
        BY <3>1, <3>3, <4>1
    <3>4. IsFiniteSet(chunk')
      BY <1>0, <3>2, FS_Subset
    <3> QED
      BY <1>0, <3>2, <3>3, <3>4
  <2>5. ASSUME Store PROVE Goal
    <3>1. UNCHANGED <<row, chunk>>
      BY <2>5 DEF Store
    <3>2. CASE UNCHANGED emb
      BY <2>1, <3>1, <3>2
    <3>3. CASE /\ \A b \in batch : \E c \in chunk : c.id = b.id
               /\ emb' = {e \in emb : \A b \in batch : b.id # e.id}
                           \cup {[id |-> b.id, model |-> model, v |-> b.v] : b \in batch}
      <4>0. /\ batch \subseteq Chunk /\ model \in 1..2
            /\ \A b, d \in batch : b.id = d.id => b = d
        <5>1. \A b, d \in batch : b.id = d.id => b = d
          BY <3>3 DEF IInv, BatchCurrent
        <5> QED
          BY <5>1 DEF TypeOK, ProcessType
      <4>1. emb' \subseteq Embedding
        BY <1>0, <3>3, <4>0 DEF Embedding, Chunk
      <4>2. \A e, f \in emb' : e.id = f.id => e = f
        BY <1>0, <3>3, <4>0
      <4>3. \A e \in emb' : \E c \in chunk' : c.id = e.id
        BY <1>0, <3>1, <3>3
      <4> QED
        BY <1>0, <3>1, <4>1, <4>2, <4>3
    <3> QED
      BY <2>5, <3>2, <3>3 DEF Store
  <2>6. ASSUME DropTables PROVE Goal
    <3>1. row' = [t \in Tids |-> 0] /\ chunk' = {} /\ emb' = {}
      BY <2>6 DEF DropTables
    <3>2. IsFiniteSet(chunk')
      BY <3>1, FS_EmptySet
    <3> QED
      BY <1>0, <3>1, <3>2
  <2>7. ASSUME \/ \E t \in Tids : Unfile(t) \/ \E ok \in BOOLEAN : Save(t, ok)
               \/ Restart \/ DropVersion \/ Create
        PROVE  Goal
    <3>1. UNCHANGED <<row, chunk, emb>>
      BY <2>7 DEF Unfile, Save, Restart, DropVersion, Create, tables
    <3> QED
      BY <2>1, <3>1
  <2>8. Goal
    <3> HIDE DEF Goal
    <3> QED
      BY <2>1, <2>2, <2>4, <2>5, <2>6, <2>7, TableFrame DEF Next
  <2> QED
    BY <2>8
<1> QED
  BY <1>1, <1>2, <1>3, <1>4 DEF TableType

\* The cached matrix lists chunks and vectors of the index.
LEMMA MatrixType ==
  ASSUME TypeOK
  PROVE  /\ Matrix \subseteq Entry
         /\ \A h \in Matrix : \E c \in chunk : c.t = h.t /\ c.v = h.v
<1> SUFFICES ASSUME NEW h \in Matrix
             PROVE  h \in Entry /\ \E c \in chunk : c.t = h.t /\ c.v = h.v
  OBVIOUS
<1>1. PICK y \in chunk \X emb : h = [t |-> y[1].t, v |-> y[1].v, vec |-> y[2].v]
  BY DEF Matrix
<1>2. y[1] \in chunk /\ y[2] \in emb /\ y[1] \in Chunk /\ y[2] \in Embedding
  BY DEF TypeOK, TableType
<1>3. y[1].t \in Tids /\ y[1].v \in Version /\ y[2].v \in Version
  BY <1>2 DEF Chunk, Embedding
<1>4. h \in Entry /\ h.t = y[1].t /\ h.v = y[1].v
  BY <1>1, <1>3 DEF Entry
<1> QED
  BY <1>2, <1>4

\* A batch is as large as it may be.
LEMMA BatchSize ==
  ASSUME TypeOK, IsFiniteSet(chunk), Drain
  PROVE  batch' \subseteq Chunk /\ Cardinality(batch') <= Batch
<1>0. Pending \subseteq chunk /\ batch \subseteq Chunk /\ Cardinality(batch) <= Batch
  BY DEF Pending, TypeOK, ProcessType
<1>1. CASE UNCHANGED batch
  BY <1>0, <1>1
<1>2. CASE batch' \in kSubset(Min({Batch, Cardinality(Pending)}), Pending)
  <2>1. IsFiniteSet(Pending)
    BY <1>0, FS_Subset
  <2>2. PICK n \in Nat : n = Cardinality(Pending)
    BY <2>1, FS_CardinalityType
  <2>3. Min({Batch, n}) <= Batch
    <3>1. \E x \in {Batch, n} : \A y \in {Batch, n} : x <= y
      BY EmbedAssumption
    <3>2. \A y \in {Batch, n} : Min({Batch, n}) <= y
      BY <3>1 DEF Min
    <3> QED
      BY <3>2
  <2>4. batch' \subseteq Pending /\ Cardinality(batch') = Min({Batch, n})
    BY <1>2, <2>2 DEF kSubset
  <2> QED
    BY <1>0, <2>3, <2>4 DEF TypeOK, TableType
<1> QED
  BY <1>1, <1>2 DEF Drain

\* The state of the process keeps its types.
LEMMA ProcessStep ==
  ASSUME TypeOK, IsFiniteSet(chunk), [Next]_vars
  PROVE  ProcessType'
<1> DEFINE Phases == {"boot", "drop", "version", "create", "reindex", "scan", "serve"}
           Runs == /\ model \in 1..2 /\ known \subseteq Tids /\ phase \in Phases
                   /\ owed \subseteq Tids /\ forgot \in BOOLEAN
           Works == /\ wpc \in {"top", "embed", "wait"} /\ batch \subseteq Chunk
                    /\ Cardinality(batch) <= Batch
           Hands == hand \in [Indexers -> {None} \cup InHand]
           Finds == /\ cache = None \/ cache \subseteq Entry
                    /\ spc \in [Searchers -> {"idle", "query", "have"}]
                    /\ top \in [Searchers -> SUBSET Entry]
                    /\ past \subseteq Tids \X Version /\ dead \in [Searchers -> SUBSET past]
<1>0. Runs /\ Works /\ Hands /\ Finds /\ Batch \in Nat
  BY EmbedAssumption DEF TypeOK, ProcessType
<1>1. Runs'
  <2>1. /\ model' = model \/ model' \in model..2
        /\ phase' = phase \/ phase' \in Phases
    BY DEF Next, Save, Unfile, Stat, Read, Index, Remove, Skip, Look, Ask, TopChunks, Answer, Drain, EmbedFails,
       Store, Wake, Restart, Boot, DropTables, DropVersion, Create, Reindexed, Scanned, vars, process
  <2>2. /\ known' \subseteq known \/ known' = {t \in Tids : row[t] # 0} \/ known' = Registered
        /\ \/ owed' \subseteq owed
           \/ owed' = owed \cup {t \in Tids : row[t] # 0}
           \/ \E t \in Tids : owed' = owed \cup {t}
    BY DEF Next, Save, Unfile, Stat, Read, Index, Remove, Skip, Look, Ask, TopChunks, Answer, Drain, EmbedFails,
       Store, Wake, Restart, Boot, DropTables, DropVersion, Create, Reindexed, Scanned, vars, process
  <2>3. forgot' = forgot \/ forgot' \in BOOLEAN
    BY DEF Next, Save, Unfile, Stat, Read, Index, Remove, Skip, Look, Ask, TopChunks, Answer, Drain, EmbedFails,
       Store, Wake, Restart, Boot, DropTables, DropVersion, Create, Reindexed, Scanned, vars, process
  <2> QED
    BY <1>0, <2>1, <2>2, <2>3, EmbedAssumption
<1>2. Works'
  <2>1. CASE UNCHANGED <<wpc, batch>>
    BY <1>0, <2>1
  <2>2. ASSUME batch' = {} \/ UNCHANGED batch, wpc' \in {"top", "embed", "wait"} PROVE Works'
    <3>1. Cardinality({}) = 0
      BY FS_EmptySet
    <3>2. CASE batch' = {}
      <4>1. Cardinality(batch') = 0
        BY <3>1, <3>2, Zenon
      <4> QED
        BY <1>0, <2>2, <3>2, <4>1
    <3>3. CASE UNCHANGED batch
      BY <1>0, <2>2, <3>3
    <3> QED
      BY <2>2, <3>2, <3>3
  <2>3. ASSUME Drain PROVE Works'
    <3>1. wpc' \in {"top", "embed", "wait"}
      BY <2>3 DEF Drain
    <3> QED
      BY <2>3, <3>1, BatchSize
  <2>4. ASSUME EmbedFails \/ Store \/ Wake \/ Restart PROVE Works'
    BY <2>2, <2>4 DEF EmbedFails, Store, Wake, Restart
  <2>5. ASSUME \/ \E t \in Tids : \/ \E ok \in BOOLEAN : Save(t, ok)
                                  \/ Unfile(t) \/ Remove(t) \/ Skip(t) \/ Look(t)
                                  \/ \E i \in Indexers : Stat(i, t)
               \/ \E i \in Indexers : Read(i) \/ Index(i)
               \/ \E s \in Searchers : Ask(s) \/ TopChunks(s) \/ Answer(s)
               \/ Boot \/ DropTables \/ DropVersion \/ Create \/ Reindexed \/ Scanned
               \/ UNCHANGED vars
        PROVE  Works'
    <3>1. UNCHANGED <<wpc, batch>>
      BY <2>5 DEF Save, Unfile, Stat, Read, Index, Remove, Skip, Look, Ask, TopChunks, Answer, Boot, DropTables,
         DropVersion, Create, Reindexed, Scanned, vars, worker
    <3> QED
      BY <1>0, <3>1
  <2> HIDE DEF Works
  <2> QED
    BY <2>3, <2>4, <2>5 DEF Next
<1>3. Finds'
  <2>1. ASSUME UNCHANGED <<spc, top, dead>>, cache' = cache \/ cache' = None,
               past \subseteq past', past' \subseteq Tids \X Version
        PROVE  Finds'
    BY <1>0, <2>1
  <2>2. ASSUME NEW t \in Tids
        PROVE  {<<t, c.v>> : c \in {d \in chunk : d.t = t}} \subseteq Tids \X Version
    BY DEF TypeOK, TableType, Chunk
  <2>3. ASSUME NEW i \in Indexers, Index(i) PROVE Finds'
    <3>1. UNCHANGED <<spc, top>>
      BY <2>3 DEF Index
    <3>2. PICK t \in Tids :
            \/ UNCHANGED <<cache, past, dead>>
            \/ /\ cache' = None
               /\ \E n \in Chunk :
                    /\ past' = (past \cup {<<t, c.v>> : c \in {d \in chunk : d.t = t}})
                                 \ {<<t, n.v>>}
                    /\ dead' = [s \in Searchers |-> dead[s] \ {<<t, n.v>>}]
      BY <2>3, UpsertFacts DEF Index
    <3>3. CASE UNCHANGED <<cache, past, dead>>
      BY <1>0, <2>1, <3>1, <3>3
    <3>4. ASSUME cache' = None, NEW n \in Chunk,
                 past' = (past \cup {<<t, c.v>> : c \in {d \in chunk : d.t = t}}) \ {<<t, n.v>>},
                 dead' = [s \in Searchers |-> dead[s] \ {<<t, n.v>>}]
          PROVE  Finds'
      <4> DEFINE Old == {<<t, c.v>> : c \in {d \in chunk : d.t = t}}
      <4>1. Old \subseteq Tids \X Version
        BY <2>2
      <4>2. past' = (past \cup Old) \ {<<t, n.v>>}
        BY <3>4
      <4> HIDE DEF Old
      <4>3. past' \subseteq Tids \X Version
        BY <1>0, <4>1, <4>2
      <4>4. \A s \in Searchers : dead[s] \ {<<t, n.v>>} \in SUBSET past'
        BY <1>0, <4>2
      <4>5. dead' \in [Searchers -> SUBSET past']
        BY <3>4, <4>4
      <4> QED
        BY <1>0, <3>1, <3>4, <4>3, <4>5
    <3> QED
      BY <3>2, <3>3, <3>4
  <2>4. ASSUME NEW t \in Tids, Remove(t) PROVE Finds'
    <3> DEFINE Old == {<<t, c.v>> : c \in {d \in chunk : d.t = t}}
    <3>1. UNCHANGED <<spc, top, dead>> /\ cache' = None /\ past' = past \cup Old
      BY <2>4 DEF Remove, Texts, search
    <3>2. Old \subseteq Tids \X Version
      BY <2>2
    <3> HIDE DEF Old
    <3> QED
      BY <1>0, <2>1, <3>1, <3>2
  <2>5. ASSUME NEW s \in Searchers, Ask(s) PROVE Finds'
    BY <1>0, <2>5 DEF Ask
  <2>6. ASSUME NEW s \in Searchers, Answer(s) PROVE Finds'
    BY <1>0, <2>6 DEF Answer
  <2>7. ASSUME NEW s \in Searchers, TopChunks(s) PROVE Finds'
    <3>1. UNCHANGED <<past, dead>> /\ spc' = [spc EXCEPT ![s] = "have"]
          /\ top' = [top EXCEPT ![s] = cache']
      BY <2>7 DEF TopChunks
    <3>2. cache' \subseteq Entry
      BY <1>0, <2>7, MatrixType DEF TopChunks
    <3> QED
      BY <1>0, <3>1, <3>2
  <2>8. ASSUME Restart PROVE Finds'
    <3>1. /\ cache' = None /\ past' = {} /\ spc' = [s \in Searchers |-> "idle"]
          /\ top' = [s \in Searchers |-> {}] /\ dead' = [s \in Searchers |-> {}]
      BY <2>8 DEF Restart
    <3> QED
      BY <3>1
  <2>9. ASSUME \/ \E t \in Tids : \/ Unfile(t) \/ Skip(t) \/ Look(t)
                                  \/ \E ok \in BOOLEAN : Save(t, ok)
                                  \/ \E i \in Indexers : Stat(i, t)
               \/ \E i \in Indexers : Read(i)
               \/ Drain \/ EmbedFails \/ Store \/ Wake \/ Boot \/ DropTables \/ DropVersion
               \/ Create \/ Reindexed \/ Scanned \/ UNCHANGED vars
        PROVE  Finds'
    <3>1. UNCHANGED <<spc, top, dead, past>> /\ (cache' = cache \/ cache' = None)
      BY <2>9 DEF Unfile, Skip, Look, Save, Stat, Read, Drain, EmbedFails, Store, Wake, Boot, DropTables, DropVersion,
         Create, Reindexed, Scanned, vars, search
    <3> QED
      BY <1>0, <2>1, <3>1
  <2> HIDE DEF Finds
  <2> QED
    BY <2>3, <2>4, <2>5, <2>6, <2>7, <2>8, <2>9 DEF Next
<1>4. Hands'
  <2>1. ASSUME UNCHANGED hand PROVE Hands'
    BY <1>0, <2>1
  <2>2. ASSUME NEW i \in Indexers, NEW t \in Tids, Stat(i, t) PROVE Hands'
    <3>1. file[t] \in Version
      BY <2>2, EmbedAssumption DEF Stat, TypeOK, TableType, Version
    <3>2. [t |-> t, stat |-> file[t], read |-> FALSE, v |-> 0] \in InHand
      BY <3>1, EmbedAssumption DEF InHand
    <3> QED
      BY <1>0, <2>2, <3>2 DEF Stat
  <2>3. ASSUME NEW i \in Indexers, Read(i) PROVE Hands'
    <3>1. hand[i] \in InHand
      BY <1>0, <2>3 DEF Read
    <3>2. file[hand[i].t] \in 0..MaxWrites
      BY <3>1 DEF InHand, TypeOK, TableType
    <3>3. [hand[i] EXCEPT !.read = TRUE, !.v = file[hand[i].t]] \in InHand
      BY <3>1, <3>2 DEF InHand
    <3>4. hand' = [hand EXCEPT ![i] = [hand[i] EXCEPT !.read = TRUE, !.v = file[hand[i].t]]]
      BY <1>0, <2>3, <3>1 DEF Read, InHand
    <3> QED
      BY <1>0, <3>3, <3>4
  <2>4. ASSUME NEW i \in Indexers, Index(i) PROVE Hands'
    BY <1>0, <2>4 DEF Index
  <2>5. ASSUME Restart PROVE Hands'
    BY <2>5 DEF Restart
  <2>6. ASSUME \/ \E t \in Tids : \/ Unfile(t) \/ Skip(t) \/ Look(t) \/ Remove(t)
                                  \/ \E ok \in BOOLEAN : Save(t, ok)
               \/ \E s \in Searchers : Ask(s) \/ TopChunks(s) \/ Answer(s)
               \/ Drain \/ EmbedFails \/ Store \/ Wake \/ Boot \/ DropTables \/ DropVersion
               \/ Create \/ Reindexed \/ Scanned \/ UNCHANGED vars
        PROVE  UNCHANGED hand
    BY <2>6 DEF Unfile, Skip, Look, Remove, Save, Ask, TopChunks, Answer, Drain, EmbedFails, Store,
       Wake, Boot, DropTables, DropVersion, Create, Reindexed, Scanned, vars
  <2> HIDE DEF Hands
  <2> QED
    BY <2>1, <2>2, <2>3, <2>4, <2>5, <2>6 DEF Next
<1> QED
  BY <1>1, <1>2, <1>3, <1>4 DEF ProcessType

\* Text that leaves the index is marked, and text that enters it unmarked.
LEMMA PastStep ==
  ASSUME TypeOK, PastGone, [Next]_vars
  PROVE  PastGone'
<1>1. ASSUME UNCHANGED <<chunk, past>> PROVE PastGone'
  BY <1>1 DEF PastGone
<1>2. ASSUME NEW i \in Indexers, Index(i) PROVE PastGone'
  <2>1. PICK t \in Tids :
          \/ UNCHANGED <<chunk, past>>
          \/ \E n \in Chunk :
               /\ n.t = t /\ chunk' = {c \in chunk : c.t # t} \cup {n}
               /\ past' = (past \cup {<<t, c.v>> : c \in {d \in chunk : d.t = t}}) \ {<<t, n.v>>}
    BY <1>2, UpsertFacts DEF Index
  <2>2. ASSUME NEW n \in Chunk, n.t = t, chunk' = {c \in chunk : c.t # t} \cup {n},
               past' = (past \cup {<<t, c.v>> : c \in {d \in chunk : d.t = t}}) \ {<<t, n.v>>}
        PROVE  PastGone'
    <3> SUFFICES ASSUME NEW c \in chunk' PROVE <<c.t, c.v>> \notin past'
      BY DEF PastGone
    <3>1. CASE c = n
      BY <2>2, <3>1
    <3>2. CASE c \in chunk /\ c.t # t
      BY <2>2, <3>2 DEF PastGone
    <3> QED
      BY <2>2, <3>1, <3>2
  <2> QED
    BY <1>1, <2>1, <2>2
<1>3. ASSUME NEW t \in Tids, Remove(t) PROVE PastGone'
  <2>1. /\ chunk' = {c \in chunk : c.t # t}
        /\ past' = past \cup {<<t, c.v>> : c \in {d \in chunk : d.t = t}}
    BY <1>3 DEF Remove, Texts
  <2> QED
    BY <2>1 DEF PastGone
<1>4. ASSUME DropTables PROVE PastGone'
  BY <1>4 DEF DropTables, PastGone
<1>5. ASSUME Restart PROVE PastGone'
  BY <1>5 DEF Restart, PastGone
<1>6. ASSUME \/ \E t \in Tids : \/ Unfile(t) \/ Skip(t) \/ Look(t)
                                \/ \E ok \in BOOLEAN : Save(t, ok)
                                \/ \E i \in Indexers : Stat(i, t)
             \/ \E i \in Indexers : Read(i)
             \/ \E s \in Searchers : Ask(s) \/ TopChunks(s) \/ Answer(s)
             \/ Drain \/ EmbedFails \/ Store \/ Wake
             \/ Boot \/ DropVersion \/ Create \/ Reindexed \/ Scanned \/ UNCHANGED vars
      PROVE  UNCHANGED <<chunk, past>>
  BY <1>6 DEF Unfile, Skip, Look, Save, Stat, Read, Ask, TopChunks, Answer, Drain, EmbedFails,
     Store, Wake, Boot, DropVersion, Create, Reindexed, Scanned, vars, tables
<1> QED
  BY <1>1, <1>2, <1>3, <1>4, <1>5, <1>6 DEF Next

\* The cache is dropped by everything that changes chunks or embeddings.
LEMMA CacheStep ==
  ASSUME TypeOK, TypeOK', PastGone, CacheCurrent, FoundNothing, SearchFresh, SearchComplete,
         [Next]_vars
  PROVE  CacheCurrent' /\ SearchFresh' /\ SearchComplete'
<1> DEFINE Goal == CacheCurrent' /\ SearchFresh' /\ SearchComplete'
<1>1. ASSUME UNCHANGED <<top, dead>>, cache' = None PROVE Goal
  BY <1>1 DEF CacheCurrent, SearchFresh, SearchComplete
<1>2. ASSUME UNCHANGED <<chunk, emb, model, cache, top, dead>>, ~Up' => ~Up PROVE Goal
  <2>1. Matrix' = Matrix
    BY <1>2 DEF Matrix
  <2> QED
    BY <1>2, <2>1 DEF CacheCurrent, SearchFresh, SearchComplete
<1>3. ASSUME NEW i \in Indexers, Index(i) PROVE Goal
  <2>1. UNCHANGED <<top, model, phase>>
    BY <1>3 DEF Index
  <2>2. \/ UNCHANGED <<chunk, emb, cache, dead>>
        \/ /\ cache' = None
           /\ \E x : dead' = [s \in Searchers |-> dead[s] \ {x}]
    <3>1. PICK t \in Tids :
            \/ UNCHANGED <<chunk, emb, cache, dead>>
            \/ /\ cache' = None
               /\ \E n \in Chunk : dead' = [s \in Searchers |-> dead[s] \ {<<t, n.v>>}]
      BY <1>3, UpsertFacts DEF Index
    <3> QED
      BY <3>1
  <2>3. ASSUME cache' = None, NEW x, dead' = [s \in Searchers |-> dead[s] \ {x}] PROVE Goal
    BY <2>1, <2>3 DEF CacheCurrent, SearchFresh, SearchComplete
  <2> QED
    BY <1>2, <2>1, <2>2, <2>3 DEF Up
<1>4. ASSUME NEW t \in Tids, Remove(t) PROVE Goal
  BY <1>1, <1>4 DEF Remove, search
<1>5. ASSUME Store PROVE Goal
  <2>1. UNCHANGED <<top, dead, model, phase, chunk>>
    BY <1>5 DEF Store, search, process
  <2>2. cache' = None \/ UNCHANGED <<emb, cache>>
    BY <1>5 DEF Store
  <2> QED
    BY <1>1, <1>2, <2>1, <2>2 DEF Up
<1>6. ASSUME DropTables PROVE Goal
  <2>1. UNCHANGED <<top, dead, cache>> /\ cache = None
    BY <1>6 DEF DropTables, search, CacheCurrent, Up
  <2> QED
    BY <1>1, <2>1
<1>7. ASSUME Restart PROVE Goal
  <2>1. cache' = None /\ \A s \in Searchers : top'[s] = {}
    BY <1>7 DEF Restart
  <2> QED
    BY <2>1 DEF CacheCurrent, SearchFresh, SearchComplete
<1>8. ASSUME NEW s \in Searchers, TopChunks(s) PROVE Goal
  <2>0. /\ UNCHANGED <<chunk, emb, model, phase, dead>> /\ Up
        /\ cache' = (IF cache = None THEN Matrix ELSE cache)
        /\ top' = [top EXCEPT ![s] = cache']
        /\ top \in [Searchers -> SUBSET Entry] /\ dead \in [Searchers -> SUBSET past]
        /\ past \subseteq Tids \X Version
    BY <1>8 DEF TopChunks, tables, process, TypeOK, ProcessType
  <2>1. Matrix' = Matrix
    BY <2>0 DEF Matrix
  <2>2. \A h \in cache' : \E c \in chunk : c.t = h.t /\ c.v = h.v
    BY <2>0, MatrixType DEF CacheCurrent
  <2>3. CacheCurrent'
    BY <2>0, <2>2 DEF CacheCurrent, Up
  <2>4. SearchComplete'
    BY <2>0, <2>1 DEF SearchComplete
  <2>5. SearchFresh'
    <3> SUFFICES ASSUME NEW x \in Searchers, NEW h \in top'[x] PROVE <<h.t, h.v>> \notin dead[x]
      BY <2>0 DEF SearchFresh
    <3>1. CASE x # s
      <4>1. top'[x] = top[x]
        BY <2>0, <3>1
      <4> QED
        BY <4>1 DEF SearchFresh
    <3>2. CASE x = s
      <4>1. h \in cache'
        BY <2>0, <3>2
      <4>2. PICK c \in chunk : c.t = h.t /\ c.v = h.v
        BY <2>2, <4>1
      <4>3. <<c.t, c.v>> \notin past
        BY DEF PastGone
      <4>4. <<h.t, h.v>> \notin past
        BY <4>2, <4>3
      <4> QED
        BY <2>0, <4>4
    <3> QED
      BY <3>1, <3>2
  <2> QED
    BY <2>3, <2>4, <2>5
<1>9. ASSUME NEW s \in Searchers, Ask(s) \/ Answer(s) PROVE Goal
  <2>0. /\ UNCHANGED <<chunk, emb, model, phase, cache>>
        /\ DOMAIN top = Searchers /\ DOMAIN dead = Searchers
    BY <1>9 DEF Ask, Answer, tables, process, TypeOK, ProcessType
  <2>1. Matrix' = Matrix
    BY <2>0 DEF Matrix
  <2>2. SearchFresh'
    <3>1. CASE Answer(s)
      BY <2>0, <3>1 DEF Answer, SearchFresh
    <3>2. CASE Ask(s)
      <4>1. top[s] = {} /\ UNCHANGED top /\ dead' = [dead EXCEPT ![s] = past]
        BY <3>2 DEF Ask, FoundNothing
      <4> QED
        BY <2>0, <4>1 DEF SearchFresh
    <3> QED
      BY <1>9, <3>1, <3>2
  <2> QED
    BY <2>0, <2>1, <2>2 DEF CacheCurrent, SearchComplete, Up
<1>10. ASSUME \/ \E t \in Tids : \/ Unfile(t) \/ Skip(t) \/ Look(t)
                                 \/ \E ok \in BOOLEAN : Save(t, ok)
                                 \/ \E i \in Indexers : Stat(i, t)
              \/ \E i \in Indexers : Read(i)
              \/ Drain \/ EmbedFails \/ Wake
              \/ Boot \/ DropVersion \/ Create \/ Reindexed \/ Scanned \/ UNCHANGED vars
       PROVE  Goal
  <2>1. UNCHANGED <<chunk, emb, model, cache, top, dead>>
    BY <1>10 DEF Unfile, Skip, Look, Save, Stat, Read, Drain, EmbedFails, Wake, Boot, DropVersion,
       Create, Reindexed, Scanned, vars, tables, process, search
  <2>2. ~Up' => ~Up
    BY <1>10 DEF Unfile, Skip, Look, Save, Stat, Read, Drain, EmbedFails, Wake, Boot, DropVersion,
       Create, Reindexed, Scanned, vars, process, Up
  <2> QED
    BY <1>2, <2>1, <2>2
<1>11. Goal
  <2> HIDE DEF Goal
  <2> QED
    BY <1>3, <1>4, <1>5, <1>6, <1>7, <1>8, <1>9, <1>10 DEF Next
<1> QED
  BY <1>11

\* What a search has found is forgotten when it is over.
LEMMA FoundStep ==
  ASSUME TypeOK, FoundNothing, [Next]_vars
  PROVE  FoundNothing'
<1>0. DOMAIN spc = Searchers /\ DOMAIN top = Searchers
  BY DEF TypeOK, ProcessType
<1>1. ASSUME UNCHANGED <<spc, top>> PROVE FoundNothing'
  BY <1>1 DEF FoundNothing
<1>2. ASSUME NEW s \in Searchers, Ask(s) \/ TopChunks(s) \/ Answer(s) PROVE FoundNothing'
  <2>1. CASE Ask(s)
    BY <1>0, <2>1 DEF Ask, FoundNothing
  <2>2. CASE TopChunks(s)
    BY <1>0, <2>2 DEF TopChunks, FoundNothing
  <2>3. CASE Answer(s)
    BY <1>0, <2>3 DEF Answer, FoundNothing
  <2> QED
    BY <1>2, <2>1, <2>2, <2>3
<1>3. CASE Restart
  BY <1>3 DEF Restart, FoundNothing
<1>4. ASSUME \/ \E t \in Tids : \/ \E ok \in BOOLEAN : Save(t, ok)
                                \/ Unfile(t) \/ Remove(t) \/ Skip(t) \/ Look(t)
                                \/ \E i \in Indexers : Stat(i, t)
             \/ \E i \in Indexers : Read(i) \/ Index(i)
             \/ Drain \/ EmbedFails \/ Store \/ Wake
             \/ Boot \/ DropTables \/ DropVersion \/ Create \/ Reindexed \/ Scanned
             \/ UNCHANGED vars
      PROVE  FoundNothing'
  <2>1. UNCHANGED <<spc, top>>
    BY <1>4 DEF Save, Unfile, Stat, Read, Index, Remove, Skip, Look, Drain, EmbedFails, Store, Wake, Boot,
       DropTables, DropVersion, Create, Reindexed, Scanned, vars, search
  <2> QED
    BY <1>1, <2>1
<1> QED
  BY <1>2, <1>3, <1>4 DEF Next

\* Indexing begins with the rebuild's last part, and a restart ends it.
LEMMA HandsStep ==
  ASSUME TypeOK, HandsEmpty, [Next]_vars
  PROVE  HandsEmpty'
<1> DEFINE Early == {"boot", "drop", "version", "create"}
<1>1. ASSUME phase' \in Early => phase \in Early, UNCHANGED hand PROVE HandsEmpty'
  BY <1>1 DEF HandsEmpty
<1>2. ASSUME NEW i \in Indexers, Read(i) \/ Index(i) \/ \E t \in Tids : Stat(i, t)
      PROVE  HandsEmpty'
  <2>1. phase \notin Early /\ phase' = phase
    BY <1>2 DEF Read, Index, Stat, process, HandsEmpty, Up
  <2> QED
    BY <2>1 DEF HandsEmpty
<1>3. ASSUME Restart PROVE HandsEmpty'
  BY <1>3 DEF Restart, HandsEmpty
<1>4. ASSUME \/ \E t \in Tids : \/ Unfile(t) \/ Skip(t) \/ Look(t) \/ Remove(t)
                                \/ \E ok \in BOOLEAN : Save(t, ok)
             \/ \E s \in Searchers : Ask(s) \/ TopChunks(s) \/ Answer(s)
             \/ Drain \/ EmbedFails \/ Store \/ Wake \/ Boot \/ DropTables \/ DropVersion
             \/ Create \/ Reindexed \/ Scanned \/ UNCHANGED vars
      PROVE  UNCHANGED hand /\ (phase' \in Early => phase \in Early)
  BY <1>4 DEF Unfile, Skip, Look, Remove, Save, Ask, TopChunks, Answer, Drain, EmbedFails, Store,
     Wake, Boot, DropTables, DropVersion, Create, Reindexed, Scanned, vars, process
<1> HIDE DEF Early
<1> QED
  BY <1>1, <1>2, <1>3, <1>4 DEF Next

\* A rebuild that is not interrupted indexes everything the old index had.
LEMMA OwedStep ==
  ASSUME TypeOK, HandsEmpty, OwedKnown, [Next]_vars
  PROVE  OwedKnown'
<1> DEFINE Whole == /\ phase \in {"boot", "drop", "reindex", "scan", "serve"} => table
                    /\ phase = "drop" => known = {t \in Tids : row[t] # 0}
                    /\ \A t \in owed \ Below :
                         phase \in {"version", "create", "reindex"} /\ t \in known
           Over == /\ phase = "scan" => owed \cap Registered \subseteq known
                   /\ phase = "serve" => owed \cap Registered = {}
<1>0. /\ owed \subseteq Tids /\ forgot \in BOOLEAN /\ Below \cap Registered = {}
      /\ ~forgot => Whole
      /\ Over
  BY EmbedAssumption DEF OwedKnown, TypeOK, TableType, ProcessType
<1>00. (~forgot' => Whole') /\ Over' => OwedKnown'
  BY DEF OwedKnown
<1>1. ASSUME UNCHANGED <<row, table, phase, known, owed, forgot>> PROVE OwedKnown'
  BY <1>1 DEF OwedKnown
<1>2. ASSUME NEW i \in Indexers, Index(i) PROVE OwedKnown'
  <2>1. PICK t \in Tids :
          /\ UNCHANGED <<table, phase, forgot>> /\ phase # "drop" /\ owed' = owed \ {t}
          /\ known' = IF phase = "reindex" THEN known \ {t} ELSE known
    <3>1. phase # "drop"
      BY <1>2 DEF Index, HandsEmpty
    <3>2. hand[i].t \in Tids
      BY <1>2, UpsertFacts DEF Index
    <3> QED
      BY <1>2, <3>1, <3>2 DEF Index
  <2> QED
    BY <1>0, <1>00, <2>1
<1>3. ASSUME NEW t \in Tids, Remove(t) PROVE OwedKnown'
  <2>1. /\ UNCHANGED <<table, phase, known, forgot>> /\ phase # "drop"
        /\ owed' \subseteq owed \/ (t \in Below /\ owed' = owed \cup {t})
    BY <1>3 DEF Remove, Dropped, process, Up
  <2> QED
    BY <1>0, <1>00, <2>1
<1>4. ASSUME NEW t \in Tids, Skip(t) \/ Look(t) PROVE OwedKnown'
  <2>1. /\ UNCHANGED <<table, phase, forgot>> /\ phase # "drop"
        /\ known' = known \ {t} /\ owed' = owed \ {t}
    BY <1>4 DEF Skip, Look, tables
  <2> QED
    BY <1>0, <1>00, <2>1
<1>5. ASSUME Restart PROVE OwedKnown'
  <2>1. /\ UNCHANGED <<row, table, owed>> /\ phase' = "boot" /\ known' = {}
        /\ forgot' = (forgot \/ phase \in {"version", "create", "reindex"})
    BY <1>5 DEF Restart
  <2>2. ~forgot' => ~forgot /\ phase \in {"boot", "drop", "scan", "serve"}
    BY <1>0, <2>1 DEF TypeOK, ProcessType
  <2> QED
    BY <1>0, <1>00, <2>1, <2>2
<1>6. ASSUME Boot PROVE OwedKnown'
  <2>1. UNCHANGED <<row, table, owed, forgot>> /\ phase = "boot"
    BY <1>6 DEF Boot, tables
  <2>2. CASE schema = "old"
    <3>1. phase' = "drop" /\ (table => known' = {t \in Tids : row[t] # 0})
      BY <1>6, <2>2 DEF Boot
    <3> QED
      BY <1>0, <1>00, <2>1, <3>1
  <2>3. CASE schema # "old"
    <3>1. phase' = "create" \/ (phase' = "scan" /\ known' = Registered)
      BY <1>6, <2>3 DEF Boot, TypeOK, TableType
    <3> QED
      BY <1>0, <1>00, <2>1, <3>1
  <2> QED
    BY <2>2, <2>3
<1>7. ASSUME DropTables PROVE OwedKnown'
  <2>1. /\ phase = "drop" /\ phase' = "version" /\ UNCHANGED <<known, forgot>>
        /\ owed' = owed \cup {t \in Tids : row[t] # 0}
    BY <1>7 DEF DropTables
  <2>2. ~forgot' => \A t \in owed' \ Below : t \in known'
    BY <1>0, <2>1
  <2> QED
    BY <1>0, <1>00, <2>1, <2>2
<1>8. ASSUME DropVersion \/ Create PROVE OwedKnown'
  <2>1. /\ phase \in {"version", "create"} /\ phase' \in {"create", "reindex"}
        /\ phase' = "reindex" => table'
        /\ UNCHANGED <<row, owed, known, forgot>>
    BY <1>8 DEF DropVersion, Create
  <2> QED
    BY <1>0, <1>00, <2>1
<1>9. ASSUME Reindexed PROVE OwedKnown'
  <2>1. /\ phase = "reindex" /\ phase' = "scan" /\ known = {} /\ known' = Registered
        /\ UNCHANGED <<row, table, owed, forgot>>
    BY <1>9 DEF Reindexed, tables
  <2> QED
    BY <1>0, <1>00, <2>1
<1>10. ASSUME Scanned PROVE OwedKnown'
  <2>1. /\ phase = "scan" /\ phase' = "serve" /\ known = {}
        /\ UNCHANGED <<row, table, known, owed, forgot>>
    BY <1>10 DEF Scanned, tables
  <2> QED
    BY <1>0, <1>00, <2>1
<1>11. ASSUME \/ \E t \in Tids : \/ Unfile(t) \/ \E ok \in BOOLEAN : Save(t, ok)
                                 \/ \E i \in Indexers : Stat(i, t)
              \/ \E i \in Indexers : Read(i)
              \/ \E s \in Searchers : Ask(s) \/ TopChunks(s) \/ Answer(s)
              \/ Drain \/ EmbedFails \/ Store \/ Wake \/ UNCHANGED vars
       PROVE  OwedKnown'
  <2>1. UNCHANGED <<row, table, phase, known, owed, forgot>>
    BY <1>11 DEF Unfile, Save, Stat, Read, Ask, TopChunks, Answer, Drain, EmbedFails, Store, Wake,
       vars, tables, process
  <2> QED
    BY <1>1, <2>1
<1> QED
  BY <1>2, <1>3, <1>4, <1>5, <1>6, <1>7, <1>8, <1>9, <1>10, <1>11 DEF Next
-----------------------------------------------------------------------------
(* The theorems. *)

\* At start-up there is one chunk, nothing is cached and nothing owed.
LEMMA InitAll == Init => JInv
<1> SUFFICES ASSUME Init PROVE JInv
  OBVIOUS
<1>1. PICK t \in Tids : /\ file = [u \in Tids |-> IF u = t THEN 1 ELSE 0] /\ row = file
                        /\ chunk = {[id |-> 1, t |-> t, v |-> 1]}
                        /\ schema \in {"old", "new"} /\ table = TRUE
  BY DEF Init
<1>2. /\ garbled = {} /\ emb = {} /\ lastId = 1
      /\ model = 1 /\ phase = "boot" /\ known = {} /\ cache = None
      /\ wpc = "top" /\ batch = {} /\ hand = [i \in Indexers |-> None]
      /\ spc = [x \in Searchers |-> "idle"] /\ top = [x \in Searchers |-> {}]
      /\ writes = 1 /\ faults = 0 /\ past = {} /\ dead = [x \in Searchers |-> {}]
      /\ owed = {} /\ forgot = FALSE
  BY DEF Init
<1>3. TableType
  <2>1. [id |-> 1, t |-> t, v |-> 1] \in Chunk
    BY EmbedAssumption DEF Chunk, Ids, Version
  <2>2. file \in [Tids -> 0..MaxWrites] /\ 1 \in 0..MaxWrites /\ 0 \in 0..MaxFaults
    BY <1>1, EmbedAssumption
  <2> QED
    BY <1>1, <1>2, <2>1, <2>2 DEF TableType
<1>4. ProcessType
  <2>1. Cardinality(batch) <= Batch
    <3>1. Cardinality({}) = 0
      BY FS_EmptySet
    <3>2. Cardinality(batch) = 0
      BY <1>2, <3>1, Zenon
    <3> QED
      BY <3>2, EmbedAssumption
  <2>2. /\ spc \in [Searchers -> {"idle", "query", "have"}]
        /\ hand \in [Indexers -> {None} \cup InHand]
        /\ top \in [Searchers -> SUBSET Entry] /\ dead \in [Searchers -> SUBSET past]
    BY <1>2
  <2>3. forgot \in BOOLEAN
    BY <1>2, Zenon
  <2>5. model \in 1..2
    BY <1>2
  <2>4. batch \subseteq Chunk /\ past \subseteq Tids \X Version /\ owed \subseteq Tids
        /\ known \subseteq Tids
    BY <1>2
  <2> QED
    BY <1>2, <2>1, <2>2, <2>3, <2>4, <2>5 DEF ProcessType
<1>5. IsFiniteSet(chunk)
  BY <1>1, FS_Singleton
<1>6. PastGone /\ HandsEmpty
  BY <1>2 DEF PastGone, HandsEmpty
<1>7. CacheCurrent /\ FoundNothing /\ SearchFresh /\ SearchComplete
  BY <1>2 DEF CacheCurrent, FoundNothing, SearchFresh, SearchComplete
<1>8. OwedKnown
  BY <1>1, <1>2 DEF OwedKnown
<1> QED
  BY <1>3, <1>4, <1>5, <1>6, <1>7, <1>8, InitInv DEF JInv, TypeOK

\* The whole invariant is inductive.
LEMMA NextAll == JInv /\ [Next]_vars => JInv'
<1> SUFFICES ASSUME JInv, [Next]_vars PROVE JInv'
  OBVIOUS
<1>0. /\ IInv /\ TypeOK /\ IsFiniteSet(chunk)
      /\ PastGone /\ CacheCurrent /\ FoundNothing
      /\ SearchFresh /\ SearchComplete /\ HandsEmpty /\ OwedKnown
  BY DEF JInv
<1>1. IInv'
  BY <1>0, NextInv
<1>2. TypeOK' /\ IsFiniteSet(chunk')
  BY <1>0, <1>1, TableStep, ProcessStep DEF TypeOK
<1>3. PastGone' /\ HandsEmpty'
  BY <1>0, PastStep, HandsStep
<1>4. CacheCurrent' /\ SearchFresh' /\ SearchComplete' /\ FoundNothing'
  BY <1>0, <1>2, CacheStep, FoundStep
<1>5. OwedKnown'
  BY <1>0, OwedStep
<1> QED
  BY <1>1, <1>2, <1>3, <1>4, <1>5 DEF JInv

\* The vector stored for a chunk was computed from the chunk's text, for every
\* number of transcripts, searches and writes and whatever restarts, upgrades
\* and failures of the embedder there are.
THEOREM VectorsTrue == Spec => []VectorOfText
<1>1. JInv => VectorOfText
  BY DEF JInv, IInv
<1> QED
  BY <1>1, InitAll, NextAll, PTL DEF Spec

\* A search never returns text that was gone from the index when it began, and
\* misses no chunk that is embedded, for any number of searches and writes.
THEOREM SearchesExact == Spec => []SearchExact
<1>1. JInv => SearchExact
  BY DEF JInv, SearchExact
<1> QED
  BY <1>1, InitAll, NextAll, PTL DEF Spec

\* Once start-up is over every transcript of an index that was dropped is back,
\* for any number of upgrades, restarts and files written meanwhile; after an
\* interrupted rebuild this is so for the known directories.
THEOREM UpgradeRebuilds == Spec => []Rebuilt
<1>1. JInv => Rebuilt
  BY DEF JInv, OwedKnown, Rebuilt
<1> QED
  BY <1>1, InitAll, NextAll, PTL DEF Spec
=============================================================================
