------------------------------ MODULE SyncFeed ------------------------------
(***************************************************************************)
(* The sync feed: the hub's deltas by file time, and the laptop's pulls.   *)
(*                                                                         *)
(* A pull sends the saved cursor; the hub reconciles its index, lists the  *)
(* rows newer than the cursor, reads their files one by one and answers    *)
(* with the documents and a new cursor, the largest file time among them.  *)
(* The laptop writes the documents and then saves the cursor.  Neither end *)
(* is locked: transcripts are written while a delta is being built, and    *)
(* the runtime thread and a migration may pull at the same time.           *)
(*                                                                         *)
(* The cursor can pass a transcript it has not delivered.  exposed         *)
(* collects the transcripts for which one of the known ways has been taken *)
(* since they were last written; the properties are about all others.      *)
(*                                                                         *)
(* Source: speechtotext/api/routes_sync.py, library_db.py (list_since,     *)
(* max_mtime), speechtotext/client/sync_puller.py.                         *)
(***************************************************************************)
EXTENDS Naturals, FiniteSets

CONSTANTS
  Tids,       \* transcripts of the hub
  Pullers,    \* threads of the laptop that call pull_once
  Limit,      \* rows a delta holds at most (10000)
  MaxTime,    \* bound on the clock
  MaxWrites,  \* bound on the writes
  MaxFaults   \* bound on failures and deletions

VARIABLES
  now,      \* clock of the hub's file system
  tmp,      \* tmp[t]: a version written to the .tmp file, not yet renamed
  file,     \* file[t]: version and mtime of the hub's file, version 0 if none
  trash,    \* trash[t]: the same of a file in the trash
  row,      \* row[t]: json_mtime in the index, 0 without a row
  writes,   \* versions written so far
  cursor,   \* ClientState.cursor
  dev,      \* dev[t]: version in the laptop's synced directory
  pc,       \* pc[p]: where a pull is
  since,    \* since[p]: the cursor it has loaded
  rows,     \* rows[p]: rows the hub has listed and not read yet
  docs,     \* docs[p]: documents read, and then those not yet written
  next,     \* next[p]: the cursor of the answer
  faults,
  exposed   \* ghost: transcripts the cursor may pass

hub == <<now, tmp, file, trash, row, writes>>
pull == <<pc, since, rows, docs, next>>
vars == <<hub, cursor, dev, pull, faults, exposed>>

Nothing == [v |-> 0, m |-> 0]
Version == [v : 0..MaxWrites, m : 0..MaxTime]

HubType ==
  /\ now \in 1..MaxTime /\ writes \in 0..MaxWrites
  /\ tmp \in [Tids -> Version] /\ file \in [Tids -> Version] /\ trash \in [Tids -> Version]
  /\ row \in [Tids -> 0..MaxTime]

PullType ==
  /\ cursor \in 0..MaxTime /\ dev \in [Tids -> 0..MaxWrites]
  /\ pc \in [Pullers -> {"idle", "ask", "list", "read", "max", "apply"}]
  /\ since \in [Pullers -> 0..MaxTime] /\ next \in [Pullers -> 0..MaxTime]
  /\ rows \in [Pullers -> SUBSET (Tids \X (0..MaxTime))]
  /\ docs \in [Pullers -> SUBSET (Tids \X (1..MaxWrites))]

TypeOK == HubType /\ PullType /\ faults \in 0..MaxFaults /\ exposed \subseteq Tids

Init ==
  /\ now = 1 /\ writes = 0
  /\ tmp = [t \in Tids |-> Nothing] /\ file = [t \in Tids |-> Nothing]
  /\ trash = [t \in Tids |-> Nothing] /\ row = [t \in Tids |-> 0]
  /\ cursor = 0 /\ dev = [t \in Tids |-> 0]
  /\ pc = [p \in Pullers |-> "idle"]
  /\ since = [p \in Pullers |-> 0] /\ next = [p \in Pullers |-> 0]
  /\ rows = [p \in Pullers |-> {}] /\ docs = [p \in Pullers |-> {}]
  /\ faults = 0 /\ exposed = {}

Fault == faults < MaxFaults /\ faults' = faults + 1

-----------------------------------------------------------------------------
(* Transcripts of the hub. *)

Tick ==
  /\ now < MaxTime
  /\ now' = now + 1
  /\ UNCHANGED <<tmp, file, trash, row, writes, cursor, dev, pull, faults, exposed>>

\* A writer fills the .tmp file, which gives it its mtime.
WriteTmp(t) ==
  /\ writes < MaxWrites /\ tmp[t] = Nothing
  /\ writes' = writes + 1
  /\ tmp' = [tmp EXCEPT ![t] = [v |-> writes', m |-> now]]
  /\ UNCHANGED <<now, file, trash, row, cursor, dev, pull, faults, exposed>>

\* The rename keeps the mtime.  The feed only sees the new version reliably
\* when no file has this mtime or a later one; of files with one mtime, some
\* may not fit into a delta.
Rename(t) ==
  /\ tmp[t] # Nothing
  /\ file' = [file EXCEPT ![t] = tmp[t]]
  /\ tmp' = [tmp EXCEPT ![t] = Nothing]
  /\ LET twins == {u \in Tids : file[u].m = tmp[t].m}
         late == \E u \in Tids : file[u].m >= tmp[t].m \/ trash[u].m >= tmp[t].m
     IN  exposed' = IF late THEN exposed \cup twins \cup {t} ELSE exposed \ {t}
  /\ UNCHANGED <<now, trash, row, writes, cursor, dev, pull, faults>>

\* upsert_path by the handler that wrote the file.
Index(t) ==
  /\ file[t] # Nothing /\ row[t] # file[t].m
  /\ row' = [row EXCEPT ![t] = file[t].m]
  /\ UNCHANGED <<now, tmp, file, trash, writes, cursor, dev, pull, faults, exposed>>

\* DELETE moves the file into the trash and drops the row.
Delete(t) ==
  /\ file[t] # Nothing /\ trash[t] = Nothing /\ Fault
  /\ trash' = [trash EXCEPT ![t] = file[t]]
  /\ file' = [file EXCEPT ![t] = Nothing]
  /\ row' = [row EXCEPT ![t] = 0]
  /\ UNCHANGED <<now, tmp, writes, cursor, dev, pull, exposed>>

\* Restoring moves it back with its old mtime and indexes it.
Restore(t) ==
  /\ trash[t] # Nothing /\ file[t] = Nothing
  /\ file' = [file EXCEPT ![t] = trash[t]]
  /\ trash' = [trash EXCEPT ![t] = Nothing]
  /\ row' = [row EXCEPT ![t] = trash[t].m]
  /\ exposed' = exposed \cup {t}
  /\ UNCHANGED <<now, tmp, writes, cursor, dev, pull, faults>>

-----------------------------------------------------------------------------
(* One pull: pull_once on the laptop, _build_delta on the hub. *)

Goto(p, where) == pc' = [pc EXCEPT ![p] = where]

\* The state is loaded and the request made, /sync/snapshot for cursor 0.
Begin(p) ==
  /\ pc[p] = "idle"
  /\ since' = [since EXCEPT ![p] = cursor]
  /\ next' = [next EXCEPT ![p] = cursor]
  /\ docs' = [docs EXCEPT ![p] = {}]
  /\ Goto(p, "ask")
  /\ UNCHANGED <<hub, cursor, dev, rows, faults, exposed>>

\* library_reconciler.reconcile: the index is brought up to the disk.
Reconcile(p) ==
  /\ pc[p] = "ask"
  /\ row' = [t \in Tids |-> file[t].m]
  /\ Goto(p, "list")
  /\ UNCHANGED <<now, tmp, file, trash, writes, cursor, dev, since, rows, docs, next,
                 faults, exposed>>

Older(a, b) == a[2] <= b[2]

\* Rows newer than the cursor, the oldest ones, at most Limit.  Rows with one
\* mtime come in the order of their paths, which may be any.
Listed(p, page) ==
  LET new == {<<t, row[t]>> : t \in {t \in Tids : row[t] > since[p]}} IN
  /\ page \subseteq new
  /\ \A a \in page, b \in new \ page : Older(a, b)
  /\ IF Cardinality(new) < Limit THEN page = new ELSE Cardinality(page) = Limit

\* list_since.  A file written since the reconciliation and not yet indexed
\* is missing from the list.
List(p) ==
  /\ pc[p] = "list"
  /\ \E page \in SUBSET {<<t, row[t]>> : t \in Tids} :
       Listed(p, page) /\ rows' = [rows EXCEPT ![p] = page]
  /\ exposed' = exposed \cup {t \in Tids : file[t].m # row[t]}
  /\ Goto(p, "read")
  /\ UNCHANGED <<hub, cursor, dev, since, docs, next, faults>>

\* The row the loop has come to.
First(p, d) == d \in rows[p] /\ \A e \in rows[p] : Older(d, e)

\* Fault: a file that is gone is sent as an empty document.
ReadGone(p) ==
  /\ pc[p] = "read"
  /\ \E d \in rows[p] :
       /\ First(p, d)
       /\ docs' = [docs EXCEPT ![p] = @ \cup {<<d[1], file[d[1]].v>>}]
       /\ next' = [next EXCEPT ![p] = d[2]]
       /\ rows' = [rows EXCEPT ![p] = @ \ {d}]
  /\ UNCHANGED <<hub, cursor, dev, pc, since, faults, exposed>>

\* One listed file is read: it may be newer than its row.  A file that is
\* gone, or cannot be read or parsed now, is skipped.
Read(p) ==
  /\ pc[p] = "read"
  /\ \E d \in rows[p] :
       LET t == d[1] IN
       /\ First(p, d)
       /\ rows' = [rows EXCEPT ![p] = @ \ {d}]
       /\ \/ /\ file[t] # Nothing
             /\ docs' = [docs EXCEPT ![p] = @ \cup {<<t, file[t].v>>}]
             /\ next' = [next EXCEPT ![p] = d[2]]
             /\ UNCHANGED <<faults, exposed>>
          \/ /\ file[t] = Nothing
             /\ UNCHANGED <<docs, next, faults, exposed>>
          \/ /\ file[t] # Nothing /\ Fault
             /\ exposed' = exposed \cup {t}
             /\ UNCHANGED <<docs, next>>
  /\ UNCHANGED <<hub, cursor, dev, pc, since>>

\* The end of the loop.  Without documents the cursor becomes max_mtime, past
\* whatever has been indexed since list_since.
Answer(p) ==
  /\ pc[p] = "read" /\ rows[p] = {}
  /\ Goto(p, IF docs[p] = {} THEN "max" ELSE "apply")
  /\ UNCHANGED <<hub, cursor, dev, since, rows, docs, next, faults, exposed>>

\* SELECT MAX(json_mtime), 0 for no row.
MaxMtime(m) == (\A t \in Tids : row[t] <= m) /\ (m = 0 \/ \E t \in Tids : row[t] = m)

AnswerMax(p) ==
  /\ pc[p] = "max"
  /\ \E m \in 0..MaxTime :
       /\ MaxMtime(m)
       /\ next' = [next EXCEPT ![p] = IF m > since[p] THEN m ELSE since[p]]
  /\ exposed' = exposed \cup {t \in Tids : file[t].m > since[p]}
  /\ Goto(p, "apply")
  /\ UNCHANGED <<hub, cursor, dev, since, rows, docs, faults>>

\* The answer does not arrive, or the laptop's process dies: nothing of the
\* pull is left but the documents already written.
Lost(p) ==
  /\ pc[p] # "idle" /\ Fault
  /\ Goto(p, "idle")
  /\ rows' = [rows EXCEPT ![p] = {}]
  /\ docs' = [docs EXCEPT ![p] = {}]
  /\ UNCHANGED <<hub, cursor, dev, since, next, exposed>>

Overlapping(p) == \E q \in Pullers \ {p} : pc[q] # "idle"

\* One document is written to the synced directory.  Beside another pull it
\* may replace a newer version.
Apply(p) ==
  /\ pc[p] = "apply"
  /\ \E d \in docs[p] :
       /\ dev' = [dev EXCEPT ![d[1]] = d[2]]
       /\ docs' = [docs EXCEPT ![p] = @ \ {d}]
       /\ exposed' = IF Overlapping(p) THEN exposed \cup {d[1]} ELSE exposed
  /\ UNCHANGED <<hub, cursor, pc, since, rows, next, faults>>

\* Fault: the cursor is saved before the documents are written.
SaveEarly(p) ==
  /\ pc[p] = "apply"
  /\ cursor' = IF next[p] > since[p] THEN next[p] ELSE cursor
  /\ Goto(p, IF docs[p] = {} THEN "idle" ELSE "apply")
  /\ UNCHANGED <<hub, dev, since, rows, docs, next, faults, exposed>>

\* Fault: the cursor stays in memory.
SaveNothing(p) ==
  /\ pc[p] = "apply" /\ docs[p] = {}
  /\ Goto(p, "idle")
  /\ UNCHANGED <<hub, cursor, dev, since, rows, docs, next, faults, exposed>>

\* update_cursor, when the new cursor is larger than the one loaded.
Save(p) ==
  /\ pc[p] = "apply" /\ docs[p] = {}
  /\ cursor' = IF next[p] > since[p] THEN next[p] ELSE cursor
  /\ Goto(p, "idle")
  /\ UNCHANGED <<hub, dev, since, rows, docs, next, faults, exposed>>

-----------------------------------------------------------------------------
HubWrite(t) == WriteTmp(t) \/ Rename(t) \/ Index(t) \/ Delete(t) \/ Restore(t)
PullStep(p) ==
  \/ Begin(p) \/ Reconcile(p) \/ List(p) \/ Read(p) \/ Answer(p) \/ AnswerMax(p)
  \/ Apply(p) \/ Save(p)

Next ==
  \/ Tick
  \/ \E t \in Tids : HubWrite(t)
  \/ \E p \in Pullers : PullStep(p) \/ Lost(p)

Spec == Init /\ [][Next]_vars

\* A writer renames its .tmp file and the runtime keeps pulling.
FairSpec ==
  /\ Spec
  /\ \A t \in Tids : WF_vars(Rename(t))
  /\ \A p \in Pullers : WF_vars(PullStep(p))

-----------------------------------------------------------------------------
\* Between pulls the laptop has the hub's present version of every transcript
\* that its cursor has passed, unless the transcript is exposed: no
\* lost answer, crash, paging or order of writes makes the cursor run ahead.
NothingBehindCursor ==
  (\A p \in Pullers : pc[p] = "idle") =>
    \A t \in Tids \ exposed :
      file[t] # Nothing /\ file[t].m <= cursor => dev[t] = file[t].v

\* Once the hub is quiet the laptop gets the present version of everything
\* that is not exposed, and keeps it.
CatchesUp ==
  \A t \in Tids : <>[](t \notin exposed /\ file[t] # Nothing => dev[t] = file[t].v)

ASSUME SyncAssumption ==
  /\ Limit \in Nat \ {0} /\ MaxTime \in Nat \ {0}
  /\ MaxWrites \in Nat /\ MaxFaults \in Nat
=============================================================================
