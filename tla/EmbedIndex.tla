----------------------------- MODULE EmbedIndex -----------------------------
(***************************************************************************)
(* The semantic index: chunks, their embeddings and the vector cache.      *)
(*                                                                         *)
(* Indexing a transcript replaces its chunks; a background worker reads    *)
(* chunks without an embedding, embeds their text with no lock held, and   *)
(* stores the vectors by chunk id; searches and questions read a matrix    *)
(* that is cached until the next write.  At start-up the database may have *)
(* the schema of an older release: it is then dropped and rebuilt, one     *)
(* committed statement at a time.                                          *)
(*                                                                         *)
(* The text of a transcript is one chunk, named by the version of the file *)
(* it comes from.  A method of LibraryDB that holds its lock throughout is  *)
(* one step; upsert_path is three, because it takes the stat and reads the *)
(* text before the lock.                                                   *)
(*                                                                         *)
(* Source: speechtotext/api/library_db.py, embed_worker.py, runner.py      *)
(* (run_ask_job), routes_transcripts.py (semantic search).                 *)
(***************************************************************************)
EXTENDS Naturals, FiniteSets, FiniteSetsExt

CONSTANTS
  Tids,        \* transcripts
  Registered,  \* those in a directory the library knows: library_dirs
  Below,       \* those in a directory below one of these, not itself known
  Indexers,    \* threads that index: walks, handlers, start-up
  Searchers,   \* threads that search or ask
  None,        \* no cached matrix, nothing in hand
  Batch,       \* chunks the worker takes at a time (64)
  MaxWrites,   \* bound on the versions written
  MaxFaults    \* bound on restarts and failures of the embedder

ASSUME EmbedAssumption ==
  /\ Registered \subseteq Tids /\ Below \subseteq Tids \ Registered /\ Batch \in Nat \ {0}
  /\ MaxWrites \in Nat \ {0} /\ MaxFaults \in Nat

VARIABLES
  file,     \* file[t]: version of the json file, 0 if there is none
  garbled,  \* versions that do not parse
  hand,     \* hand[i]: what an upsert_path has read and not yet written
  row,      \* row[t]: version indexed, by its stat, 0 without a row
  chunk,    \* the chunks: records of id, transcript and version
  emb,      \* the embeddings: records of chunk id, model and version embedded
  lastId,   \* the AUTOINCREMENT counter of chunks
  schema,   \* the schema_version row: "none", "old" or "new"
  table,    \* the transcripts table exists
  model,    \* EMBED_MODEL of the running release
  phase,    \* where the process is
  known,    \* known_paths of _migrate; then what sync_dirs has yet to look at
  cache,    \* _vec_cache: None or the matrix
  wpc,      \* where the worker is
  batch,    \* the chunks it has read
  spc,      \* spc[s]: where a search is
  top,      \* top[s]: the chunks it has found
  writes, faults,
  past,     \* ghost: <<transcript, version>> of chunks this process has removed
            \* and not put back
  dead,     \* dead[s], ghost: past when the search began, less what has come back
  owed,     \* ghost: transcripts that start-up has dropped from the index, and
            \* that it has neither indexed again nor found gone
  forgot    \* ghost: a rebuild was interrupted

tables == <<row, chunk, emb, lastId, schema, table>>
process == <<model, phase, known>>
worker == <<wpc, batch>>
search == <<spc, top, dead>>
vars == <<file, garbled, hand, tables, process, cache, worker, search, writes, faults, past, owed, forgot>>

Version == 1..MaxWrites
Ids == Nat \ {0}
Chunk == [id : Ids, t : Tids, v : Version]
Embedding == [id : Ids, model : 1..2, v : Version]
InHand == [t : Tids, stat : Version, read : BOOLEAN, v : 0..MaxWrites]
Entry == [t : Tids, v : Version, vec : Version]

TableType ==
  /\ file \in [Tids -> 0..MaxWrites] /\ row \in [Tids -> 0..MaxWrites]
  /\ garbled \subseteq Version
  /\ chunk \subseteq Chunk /\ \A c, d \in chunk : c.id = d.id \/ c.t = d.t => c = d
  /\ emb \subseteq Embedding /\ \A e, f \in emb : e.id = f.id => e = f
  /\ \A e \in emb : \E c \in chunk : c.id = e.id
  /\ lastId \in Nat /\ schema \in {"none", "old", "new"} /\ table \in BOOLEAN
  /\ writes \in 0..MaxWrites /\ faults \in 0..MaxFaults

ProcessType ==
  /\ model \in 1..2 /\ known \subseteq Tids
  /\ phase \in {"boot", "drop", "version", "create", "reindex", "scan", "serve"}
  /\ cache = None \/ cache \subseteq Entry
  /\ wpc \in {"top", "embed", "wait"} /\ batch \subseteq Chunk /\ Cardinality(batch) <= Batch
  /\ hand \in [Indexers -> {None} \cup InHand]
  /\ spc \in [Searchers -> {"idle", "query", "have"}]
  /\ top \in [Searchers -> SUBSET Entry]
  /\ past \subseteq Tids \X Version /\ dead \in [Searchers -> SUBSET past]
  /\ owed \subseteq Tids /\ forgot \in BOOLEAN

TypeOK == TableType /\ ProcessType

\* One transcript is there and indexed; the database may be an older release's.
Init ==
  \E t \in Tids, s \in {"old", "new"} :
    /\ file = [u \in Tids |-> IF u = t THEN 1 ELSE 0] /\ row = file /\ garbled = {}
    /\ chunk = {[id |-> 1, t |-> t, v |-> 1]} /\ emb = {} /\ lastId = 1
    /\ schema = s /\ table = TRUE
    /\ model = 1 /\ phase = "boot" /\ known = {} /\ cache = None
    /\ wpc = "top" /\ batch = {} /\ hand = [i \in Indexers |-> None]
    /\ spc = [x \in Searchers |-> "idle"] /\ top = [x \in Searchers |-> {}]
    /\ writes = 1 /\ faults = 0 /\ past = {} /\ dead = [x \in Searchers |-> {}]
    /\ owed = {} /\ forgot = FALSE

Fault == faults < MaxFaults /\ faults' = faults + 1

Up == phase \in {"scan", "serve"}

-----------------------------------------------------------------------------
(* Files and their index. *)

Save(t, ok) ==
  /\ writes < MaxWrites /\ writes' = writes + 1
  /\ file' = [file EXCEPT ![t] = writes + 1]
  /\ garbled' = IF ok THEN garbled ELSE garbled \cup {writes + 1}
  /\ UNCHANGED <<hand, tables, process, cache, worker, search, faults, past, owed, forgot>>

Unfile(t) ==
  /\ file[t] # 0 /\ file' = [file EXCEPT ![t] = 0]
  /\ UNCHANGED <<garbled, hand, tables, process, cache, worker, search, writes, faults, past, owed, forgot>>

\* The stat of upsert_path.  Walks index the files of the known directories
\* that differ from their row, handlers those that have one; and start-up, alone,
\* the paths that it has carried over a rebuild.
Stat(i, t) ==
  /\ hand[i] = None /\ file[t] # 0
  /\ \/ Up /\ row[t] # file[t] /\ (t \in Registered \/ row[t] # 0)
     \/ phase = "reindex" /\ t \in known /\ \A k \in Indexers : hand[k] = None
  /\ hand' = [hand EXCEPT ![i] = [t |-> t, stat |-> file[t], read |-> FALSE, v |-> 0]]
  /\ UNCHANGED <<file, garbled, tables, process, cache, worker, search, writes, faults, past, owed, forgot>>

\* The text is read; 0 if the file has gone in the meantime.
Read(i) ==
  /\ hand[i] # None /\ ~hand[i].read
  /\ hand' = [hand EXCEPT ![i].read = TRUE, ![i].v = file[hand[i].t]]
  /\ UNCHANGED <<file, garbled, tables, process, cache, worker, search, writes, faults, past, owed, forgot>>

\* The foreign keys: the chunks of t go, and with them their embeddings.
Cascade(t) == emb' = {e \in emb : \A c \in chunk : c.t = t => c.id # e.id}

Texts(t) == {<<t, c.v>> : c \in {d \in chunk : d.t = t}}

\* The text v of t is in the index from now on.
Shown(t, v) ==
  /\ past' = (past \cup Texts(t)) \ {<<t, v>>}
  /\ dead' = [s \in Searchers |-> dead[s] \ {<<t, v>>}]

\* Mutant: ids without AUTOINCREMENT.
UpsertReusesIds(i) ==
  LET t == hand[i].t
      v == hand[i].v
  IN /\ row' = [row EXCEPT ![t] = hand[i].stat]
     /\ IF v \in garbled \cup {0}
          THEN UNCHANGED <<chunk, emb, lastId, cache, past, dead>>
          ELSE /\ lastId' = Max({0} \cup {c.id : c \in {d \in chunk : d.t # t}}) + 1
               /\ chunk' = {c \in chunk : c.t # t} \cup {[id |-> lastId', t |-> t, v |-> v]}
               /\ Cascade(t) /\ Shown(t, v) /\ cache' = None

\* The transaction of upsert_path.  A file that does not parse, or could not be
\* read, gets an error row (_upsert_error), which leaves the chunks of the
\* version before.
Upsert(i) ==
  LET t == hand[i].t
      v == hand[i].v
  IN /\ row' = [row EXCEPT ![t] = hand[i].stat]
     /\ IF v \in garbled \cup {0}
          THEN UNCHANGED <<chunk, emb, lastId, cache, past, dead>>
          ELSE /\ lastId' = lastId + 1
               /\ chunk' = {c \in chunk : c.t # t} \cup {[id |-> lastId + 1, t |-> t, v |-> v]}
               /\ Cascade(t) /\ Shown(t, v) /\ cache' = None

\* What was read is written, however old it is by now.
Index(i) ==
  /\ hand[i] # None /\ hand[i].read /\ Upsert(i)
  /\ hand' = [hand EXCEPT ![i] = None]
  /\ known' = IF phase = "reindex" THEN known \ {hand[i].t} ELSE known
  /\ owed' = owed \ {hand[i].t}
  /\ UNCHANGED <<file, garbled, schema, table, model, phase, worker, spc, top, writes, faults, forgot>>

\* A row that a walk of the known directories drops: its file is gone, or it is
\* in a directory below, which the walk does not look into.
Dropped(t) == row[t] # 0 /\ (file[t] = 0 \/ t \in Below)

\* Mutant: a deletion keeps the cached matrix.
RemoveKeepsCache(t) ==
  /\ Up /\ Dropped(t)
  /\ row' = [row EXCEPT ![t] = 0] /\ chunk' = {c \in chunk : c.t # t}
  /\ Cascade(t) /\ past' = past \cup Texts(t) /\ UNCHANGED cache
  /\ owed' = IF file[t] = 0 THEN owed \ {t} ELSE IF phase = "scan" THEN owed \cup {t} ELSE owed
  /\ UNCHANGED <<file, garbled, hand, lastId, schema, table, process, worker, search, writes, faults, forgot>>

\* delete_by_path, of a handler or of sync_dirs.
Remove(t) ==
  /\ Up /\ Dropped(t)
  /\ row' = [row EXCEPT ![t] = 0] /\ chunk' = {c \in chunk : c.t # t}
  /\ Cascade(t) /\ past' = past \cup Texts(t) /\ cache' = None
  /\ owed' = IF file[t] = 0 THEN owed \ {t} ELSE IF phase = "scan" THEN owed \cup {t} ELSE owed
  /\ UNCHANGED <<file, garbled, hand, lastId, schema, table, process, worker, search, writes, faults, forgot>>

-----------------------------------------------------------------------------
(* EmbedWorker. *)

\* pending_chunks: no embedding, or one of another model.
Pending == {c \in chunk : ~\E e \in emb : e.id = c.id /\ e.model = model}

\* _drain reads a batch; with nothing to do the worker waits.
Drain ==
  /\ Up /\ wpc = "top"
  /\ IF Pending = {}
       THEN wpc' = "wait" /\ UNCHANGED batch
       ELSE /\ batch' \in kSubset(Min({Batch, Cardinality(Pending)}), Pending)
            /\ wpc' = "embed"
  /\ UNCHANGED <<file, garbled, hand, tables, process, cache, search, writes, faults, past, owed, forgot>>

\* The model is not available, or the process cannot load it.
EmbedFails ==
  /\ Up /\ wpc = "embed" /\ Fault
  /\ wpc' = "wait" /\ batch' = {}
  /\ UNCHANGED <<file, garbled, hand, tables, process, cache, search, writes, past, owed, forgot>>

\* store_embeddings, by chunk id.  A chunk that has been replaced in the
\* meantime fails the foreign key, and with it the whole batch.
Store ==
  /\ Up /\ wpc = "embed"
  /\ IF \A b \in batch : \E c \in chunk : c.id = b.id
       THEN /\ emb' = {e \in emb : \A b \in batch : b.id # e.id}
                        \cup {[id |-> b.id, model |-> model, v |-> b.v] : b \in batch}
            /\ cache' = None /\ wpc' = "top"
       ELSE wpc' = "wait" /\ UNCHANGED <<emb, cache>>
  /\ batch' = {}
  /\ UNCHANGED <<file, garbled, hand, row, chunk, lastId, schema, table, process, search, writes,
                 faults, past, owed, forgot>>

\* Mutant: the wait has no timeout; nothing calls poke().
WakeOnPoke == FALSE /\ UNCHANGED vars

\* SWEEP_SECONDS have passed.
Wake ==
  /\ Up /\ wpc = "wait" /\ wpc' = "top"
  /\ UNCHANGED <<file, garbled, hand, tables, process, cache, batch, search, writes, faults, past, owed, forgot>>

-----------------------------------------------------------------------------
(* semantic_search and run_ask_job. *)

\* _vec_matrix: the embeddings of the model with their chunks.
Matrix ==
  {[t |-> x[1].t, v |-> x[1].v, vec |-> x[2].v] :
     x \in {y \in chunk \X emb : y[1].id = y[2].id /\ y[2].model = model}}

\* The query is embedded, with no lock held.
Ask(s) ==
  /\ Up /\ spc[s] = "idle"
  /\ spc' = [spc EXCEPT ![s] = "query"] /\ dead' = [dead EXCEPT ![s] = past]
  /\ UNCHANGED <<file, garbled, hand, tables, process, cache, worker, top, writes, faults, past, owed, forgot>>

\* top_chunks, of which all are near enough.
TopChunks(s) ==
  /\ Up /\ spc[s] = "query"
  /\ cache' = IF cache = None THEN Matrix ELSE cache
  /\ top' = [top EXCEPT ![s] = cache']
  /\ spc' = [spc EXCEPT ![s] = "have"]
  /\ UNCHANGED <<file, garbled, hand, tables, process, worker, dead, writes, faults, past, owed, forgot>>

\* The answer: for a search, without the transcripts whose row has vanished.
Answer(s) ==
  /\ Up /\ spc[s] = "have"
  /\ spc' = [spc EXCEPT ![s] = "idle"]
  /\ top' = [top EXCEPT ![s] = {}] /\ dead' = [dead EXCEPT ![s] = {}]
  /\ UNCHANGED <<file, garbled, hand, tables, process, cache, worker, writes, faults, past, owed, forgot>>

-----------------------------------------------------------------------------
(* Start-up: _migrate, then the reconciliation of the known directories. *)

\* The process ends, by a crash or not, and the same or a newer release starts.
Restart ==
  /\ Fault /\ phase' = "boot" /\ known' = {} /\ cache' = None /\ past' = {}
  /\ model' \in model..2
  /\ schema' \in {schema} \cup (IF schema = "new" THEN {"old"} ELSE {})
  /\ wpc' = "top" /\ batch' = {} /\ hand' = [i \in Indexers |-> None]
  /\ spc' = [s \in Searchers |-> "idle"] /\ top' = [s \in Searchers |-> {}]
  /\ dead' = [s \in Searchers |-> {}]
  /\ forgot' = (forgot \/ phase \in {"version", "create", "reindex"})
  /\ UNCHANGED <<file, garbled, row, chunk, emb, lastId, table, writes, owed>>

\* Mutant: the paths of the old index are not carried over.
BootForgets ==
  /\ phase = "boot"
  /\ phase' = CASE schema = "old" -> "drop" [] schema = "none" -> "create" [] OTHER -> "scan"
  /\ known' = IF schema = "new" THEN Registered ELSE {}
  /\ UNCHANGED <<file, garbled, hand, tables, model, cache, worker, search, writes, faults, past, owed, forgot>>

\* Of an older schema the paths are remembered, if the table is still there.
Boot ==
  /\ phase = "boot"
  /\ phase' = CASE schema = "old" -> "drop" [] schema = "none" -> "create" [] OTHER -> "scan"
  /\ known' = CASE schema = "old" -> IF table THEN {t \in Tids : row[t] # 0} ELSE {}
                [] schema = "none" -> {} [] OTHER -> Registered
  /\ UNCHANGED <<file, garbled, hand, tables, model, cache, worker, search, writes, faults, past, owed, forgot>>

\* DROP TABLE commits at once; the counter of the ids goes with the chunks.
DropTables ==
  /\ phase = "drop" /\ phase' = "version"
  /\ row' = [t \in Tids |-> 0] /\ chunk' = {} /\ emb' = {} /\ lastId' = 0 /\ table' = FALSE
  /\ owed' = owed \cup {t \in Tids : row[t] # 0}
  /\ UNCHANGED <<file, garbled, hand, schema, model, known, cache, worker, search, writes, faults, past, forgot>>

DropVersion ==
  /\ phase = "version" /\ phase' = "create" /\ schema' = "none"
  /\ UNCHANGED <<file, garbled, hand, row, chunk, emb, lastId, table, model, known, cache, worker,
                 search, writes, faults, past, owed, forgot>>

\* The tables, and last the version.
Create ==
  /\ phase = "create" /\ phase' = "reindex" /\ schema' = "new" /\ table' = TRUE
  /\ UNCHANGED <<file, garbled, hand, row, chunk, emb, lastId, model, known, cache, worker,
                 search, writes, faults, past, owed, forgot>>

\* A path that was carried over and whose file is gone is passed over.
Skip(t) ==
  /\ phase = "reindex" /\ t \in known /\ \A i \in Indexers : hand[i] = None
  /\ file[t] = 0 /\ known' = known \ {t} /\ owed' = owed \ {t}
  /\ UNCHANGED <<file, garbled, hand, tables, model, phase, cache, worker, search, writes, faults, past, forgot>>

Reindexed ==
  /\ phase = "reindex" /\ known = {} /\ phase' = "scan" /\ known' = Registered
  /\ UNCHANGED <<file, garbled, hand, tables, model, cache, worker, search, writes, faults,
                 past, owed, forgot>>

\* The sync_dirs of start-up is over with a transcript of a known directory: it
\* has a row by now, or no file.
Look(t) ==
  /\ phase = "scan" /\ t \in known /\ (row[t] # 0 \/ file[t] = 0)
  /\ known' = known \ {t} /\ owed' = owed \ {t}
  /\ UNCHANGED <<file, garbled, hand, tables, model, phase, cache, worker, search, writes, faults, past, forgot>>

Scanned ==
  /\ phase = "scan" /\ known = {} /\ phase' = "serve"
  /\ UNCHANGED <<file, garbled, hand, tables, model, known, cache, worker, search, writes, faults,
                 past, owed, forgot>>

Next ==
  \/ \E t \in Tids : \/ \E ok \in BOOLEAN : Save(t, ok)
                     \/ Unfile(t) \/ Remove(t) \/ Skip(t) \/ Look(t)
                     \/ \E i \in Indexers : Stat(i, t)
  \/ \E i \in Indexers : Read(i) \/ Index(i)
  \/ \E s \in Searchers : Ask(s) \/ TopChunks(s) \/ Answer(s)
  \/ Drain \/ EmbedFails \/ Store \/ Wake
  \/ Restart \/ Boot \/ DropTables \/ DropVersion \/ Create \/ Reindexed \/ Scanned

\* The worker thread and start-up go on; the timeout wakes the worker.
Fairness ==
  /\ WF_vars(Drain) /\ WF_vars(Store) /\ WF_vars(Wake)
  /\ WF_vars(Boot) /\ WF_vars(DropTables) /\ WF_vars(DropVersion) /\ WF_vars(Create)
  /\ WF_vars(Reindexed) /\ WF_vars(Scanned)
  /\ \A t \in Tids : /\ WF_vars(\E i \in Indexers : Stat(i, t))
                      /\ WF_vars(Remove(t)) /\ WF_vars(Skip(t)) /\ WF_vars(Look(t))
  /\ \A i \in Indexers : WF_vars(Read(i)) /\ WF_vars(Index(i))

Spec == Init /\ [][Next]_vars /\ Fairness

-----------------------------------------------------------------------------
(* Properties. *)

\* The vector stored for a chunk was computed from the text the chunk has, even
\* when the transcript was indexed anew while the worker was embedding.
VectorOfText == \A e \in emb : \A c \in chunk : c.id = e.id => e.v = c.v

\* Neither a search nor a question sees text that was gone from the index when
\* it began and has not come back: every write to the chunks drops the cached
\* matrix.  (Text can come back: an upsert_path commits what it read, even if a
\* newer version or a deletion has overtaken it.)
SearchFresh == \A s \in Searchers : \A h \in top[s] : <<h.t, h.v>> \notin dead[s]

\* And it sees every chunk that has been embedded.
SearchComplete == cache # None => Matrix \subseteq cache

\* Once start-up is over, every transcript it has dropped from the index has been
\* indexed again or found gone; except those in directories below known ones,
\* whose rows its own scan drops, and, when the rebuild itself was interrupted,
\* those outside the known directories.
Rebuilt ==
  phase = "serve" => \A t \in owed \ Below : forgot /\ t \notin Registered

\* Every chunk is embedded with the current model in the end.
EventuallyEmbedded == <>[](Up /\ Pending = {})

\* Searches work on the embeddings of the present chunks, all of them and no
\* others, although the matrix is cached.
SearchExact == TypeOK /\ SearchFresh /\ SearchComplete
=============================================================================
