---------------------------- MODULE LibraryIndex ----------------------------
(***************************************************************************)
(* The library index: rows of a SQLite table that follow the JSON files of *)
(* the library directories.                                                *)
(*                                                                         *)
(* Listings and sync requests first reconcile: under a lock of their own   *)
(* they compare the mtime of every directory with the one last seen and    *)
(* walk the files only when one differs.  Handlers that change a file      *)
(* index it themselves.  The startup scan and the scan after a job walk    *)
(* the same directories without the reconciler's lock.  Every file         *)
(* operation and every database transaction is a step.                     *)
(*                                                                         *)
(* Sources: speechtotext/api/reconcile.py, library_db.py, app.py,          *)
(* routes_transcripts.py, routes_import.py, routes_trash.py, trash.py.     *)
(***************************************************************************)
EXTENDS Naturals, FiniteSets

CONSTANTS
  Dirs,      \* library directories
  Paths,     \* JSON files the directories may hold
  Stems,     \* transcript ids
  DirOf,     \* DirOf[p]: the directory of p
  StemOf,    \* StemOf[p]: the transcript id of p
  Under,     \* Under[d]: the directories whose files match the pattern d/%
  Threads,   \* request threads and background threads
  NoThread, NoPath, NoRow,
  Roles,     \* what threads do, a subset of AllRoles
  MaxOps     \* bound: operations started in a behaviour

AllRoles == {"list", "scan", "transcribe", "relabel", "patch", "import",
             "delete", "restore", "restart"}

ASSUME LibraryAssumption ==
  /\ DirOf \in [Paths -> Dirs]
  /\ StemOf \in [Paths -> Stems]
  /\ Under \in [Dirs -> SUBSET Dirs] /\ \A d \in Dirs : d \in Under[d]
  /\ NoThread \notin Threads /\ NoPath \notin Paths
  /\ Roles \subseteq AllRoles
  /\ MaxOps \in Nat

\* A row: the file it was read from, the mtime of the file when the indexing
\* began and the text that was then read (0: the stub of an unreadable file).
Row == [path : Paths, mtime : Nat, text : Nat]

Absent == 0

\* Locals of a thread: the clock when its request got the reconciler's lock,
\* the directories it scans and those it has still to list, their mtimes, the
\* files listed and those still to be looked at, the file it is at with the
\* stat and the text it has got, and the rows it is about to delete.
Local == [start : Nat, dirs : SUBSET Dirs, left : SUBSET Dirs,
          snap : [Dirs -> Nat], disk : SUBSET Paths, todo : SUBSET Paths,
          path : Paths \cup {NoPath}, stat : Nat, text : Nat,
          gone : SUBSET Paths]

VARIABLES
  clock,     \* the time of the last change of a file
  file,      \* file[p]: the mtime of p, Absent when there is no such file
  trash,     \* trash[p]: the mtime of the copy of p in .trash
  changed,   \* changed[p]: when p was last written, moved away or moved back
  dirTime,   \* dirTime[d]: the mtime of the directory
  row,       \* row[s]: the row of the transcript in the index
  seen,      \* LibraryReconciler._seen
  rlock,     \* LibraryReconciler._lock
  lock,      \* lock[s]: the per-transcript lock
  role,      \* role[th]: what the thread is doing
  pc,        \* pc[th]: where it is
  my,        \* my[th]: its locals
  ops,       \* operations started
  loose,     \* history: an operation of Loose has overlapped another one, or
             \* the process ended during a restore
  hidden     \* history: the paths whose row was last dropped by a scan that had
             \* not looked into their directory

files == <<clock, file, trash, changed, dirTime>>
indexVars == <<files, row, seen, rlock, lock, role, pc, my, ops, loose, hidden>>

NoTimes == [d \in Dirs |-> 0]

Blank == [start |-> 0, dirs |-> {}, left |-> {}, snap |-> NoTimes,
          disk |-> {}, todo |-> {}, path |-> NoPath, stat |-> 0, text |-> 0,
          gone |-> {}]

PCs == {"idle", "stat", "gate", "walk", "select", "upsert", "read", "commit",
        "prune", "drop", "served"}

IndexTypeOK ==
  /\ clock \in Nat
  /\ file \in [Paths -> Nat] /\ trash \in [Paths -> Nat]
  /\ changed \in [Paths -> Nat]
  /\ dirTime \in [Dirs -> Nat] /\ seen \in [Dirs -> Nat]
  /\ row \in [Stems -> Row \cup {NoRow}]
  /\ rlock \in Threads \cup {NoThread}
  /\ lock \in [Stems -> Threads \cup {NoThread}]
  /\ role \in [Threads -> AllRoles \cup {"none"}]
  /\ pc \in [Threads -> PCs]
  /\ my \in [Threads -> Local]
  /\ ops \in Nat /\ loose \in BOOLEAN /\ hidden \subseteq Paths

\* The hub starts on directories whose files all date from time 1 and with an
\* index that has no rows yet.
IndexInit ==
  /\ clock = 1
  /\ \E old \in SUBSET Paths : file = [p \in Paths |-> IF p \in old THEN 1 ELSE Absent]
  /\ trash = [p \in Paths |-> Absent]
  /\ changed = [p \in Paths |-> 1]
  /\ dirTime = [d \in Dirs |-> 1]
  /\ row = [s \in Stems |-> NoRow]
  /\ seen = NoTimes
  /\ rlock = NoThread
  /\ lock = [s \in Stems |-> NoThread]
  /\ role = [th \in Threads |-> "none"]
  /\ pc = [th \in Threads |-> "idle"]
  /\ my = [th \in Threads |-> Blank]
  /\ ops = 0 /\ loose = FALSE /\ hidden = {}

-----------------------------------------------------------------------------
Goto(th, where) == pc' = [pc EXCEPT ![th] = where]

\* Operations that index outside the lock that orders the others: a scan that
\* is not the reconciler's, a transcription, a PATCH (it indexes after its lock
\* is released), and a restore, which brings an old mtime back.
Loose == {"scan", "transcribe", "patch", "restore"}

\* Beginning an operation, with locals l.
Start(th, r, l, where) ==
  /\ pc[th] = "idle"
  /\ r \in Roles
  /\ ops < MaxOps
  /\ role' = [role EXCEPT ![th] = r]
  /\ my' = [my EXCEPT ![th] = l]
  /\ Goto(th, where)
  /\ ops' = ops + 1
  /\ loose' = (loose \/ \E u \in Threads \ {th} :
                         pc[u] # "idle" /\ (r \in Loose \/ role[u] \in Loose))

Stop(th) ==
  /\ Goto(th, "idle")
  /\ role' = [role EXCEPT ![th] = "none"]
  /\ my' = [my EXCEPT ![th] = Blank]

\* Leaving the per-transcript lock, if it is held.
Release(th) == lock' = [s \in Stems |-> IF lock[s] = th THEN NoThread ELSE lock[s]]

\* p is replaced by a rename within its directory: it has mtime m, and the
\* directory that of now.
PutFile(p, m) ==
  /\ clock' = clock + 1
  /\ file' = [file EXCEPT ![p] = m]
  /\ changed' = [changed EXCEPT ![p] = clock']
  /\ dirTime' = [dirTime EXCEPT ![DirOf[p]] = clock']

\* The transaction of delete_by_path.
DeleteRow(p) ==
  row' = [s \in Stems |-> IF row[s] # NoRow /\ row[s].path = p THEN NoRow ELSE row[s]]

-----------------------------------------------------------------------------
\* LibraryReconciler.reconcile

\* GET /transcripts and /sync/...: the reconciler's lock is taken.
List(th) ==
  /\ rlock = NoThread
  /\ rlock' = th
  /\ Start(th, "list", [Blank EXCEPT !.start = clock, !.left = Dirs], "stat")
  /\ UNCHANGED <<files, row, seen, lock, hidden>>

StatDir(th, d) ==
  /\ pc[th] = "stat"
  /\ d \in my[th].left
  /\ my' = [my EXCEPT ![th].snap[d] = dirTime[d], ![th].left = @ \ {d}]
  /\ Goto(th, IF my[th].left = {d} THEN "gate" ELSE "stat")
  /\ UNCHANGED <<files, row, seen, rlock, lock, role, ops, loose, hidden>>

\* No directory has changed: the walk is skipped.  Otherwise sync_dirs.
Gate(th) ==
  /\ pc[th] = "gate"
  /\ \/ /\ my[th].snap = seen
        /\ rlock' = NoThread
        /\ Goto(th, "served")
        /\ my' = my
     \/ /\ my[th].snap # seen
        /\ my' = [my EXCEPT ![th].dirs = Dirs, ![th].left = Dirs]
        /\ Goto(th, "walk")
        /\ rlock' = rlock
  /\ UNCHANGED <<files, row, seen, lock, role, ops, loose, hidden>>

\* The rows are read and the answer is sent.
AnswerList(th) ==
  /\ pc[th] = "served"
  /\ Stop(th)
  /\ UNCHANGED <<files, row, seen, rlock, lock, ops, loose, hidden>>

-----------------------------------------------------------------------------
\* LibraryDB.sync_dirs

\* The scans that bypass the reconciler: _lifespan, _on_complete_dir,
\* _on_synced.
Scan(th, ds) ==
  /\ Start(th, "scan", [Blank EXCEPT !.dirs = ds, !.left = ds], "walk")
  /\ UNCHANGED <<files, row, seen, rlock, lock, hidden>>

\* d.glob("*.json")
Glob(th, d) ==
  /\ pc[th] = "walk"
  /\ my[th].todo = {}
  /\ d \in my[th].left
  /\ LET found == {p \in Paths : DirOf[p] = d /\ file[p] # Absent} IN
     my' = [my EXCEPT ![th].left = @ \ {d}, ![th].todo = found,
                      ![th].disk = @ \cup found]
  /\ UNCHANGED <<files, row, seen, rlock, lock, role, pc, ops, loose, hidden>>

\* The stat of one file; a file that is gone is passed over.
StatFile(th, p) ==
  /\ pc[th] = "walk"
  /\ p \in my[th].todo
  /\ my' = [my EXCEPT ![th].todo = @ \ {p}, ![th].path = p, ![th].stat = file[p]]
  /\ Goto(th, IF file[p] = Absent THEN "walk" ELSE "select")
  /\ UNCHANGED <<files, row, seen, rlock, lock, role, ops, loose, hidden>>

\* A row with the file's mtime is taken to be up to date.
UpToDate(p, m) ==
  LET r == row[StemOf[p]] IN r # NoRow /\ r.path = p /\ r.mtime = m

Select(th) ==
  /\ pc[th] = "select"
  /\ Goto(th, IF UpToDate(my[th].path, my[th].stat) THEN "walk" ELSE "upsert")
  /\ UNCHANGED <<files, row, seen, rlock, lock, role, my, ops, loose, hidden>>

\* The rows whose path begins with a scanned directory and whose file was not
\* listed.  LIKE 'd/%' takes the files of the directories below d as well,
\* which this scan need not have listed.
PruneQuery(th) ==
  /\ pc[th] = "walk"
  /\ my[th].todo = {} /\ my[th].left = {}
  /\ my' = [my EXCEPT ![th].gone =
              {p \in Paths \ my[th].disk :
                 /\ \E d \in my[th].dirs : DirOf[p] \in Under[d]
                 /\ \E s \in Stems : row[s] # NoRow /\ row[s].path = p}]
  /\ Goto(th, "prune")
  /\ UNCHANGED <<files, row, seen, rlock, lock, role, ops, loose, hidden>>

PruneRow(th, p) ==
  /\ pc[th] = "prune"
  /\ p \in my[th].gone
  /\ DeleteRow(p)
  /\ my' = [my EXCEPT ![th].gone = @ \ {p}]
  /\ hidden' = IF DirOf[p] \in my[th].dirs THEN hidden ELSE hidden \cup {p}
  /\ UNCHANGED <<files, seen, rlock, lock, role, pc, ops, loose>>

\* Fault: the reconciler remembers the directories' mtimes after the walk.
EndWalkLate(th) ==
  /\ pc[th] = "prune"
  /\ my[th].gone = {}
  /\ \/ /\ role[th] = "list"
        /\ seen' = dirTime
        /\ rlock' = NoThread
        /\ Goto(th, "served")
        /\ UNCHANGED <<role, my>>
     \/ /\ role[th] # "list"
        /\ Stop(th)
        /\ UNCHANGED <<seen, rlock>>
  /\ UNCHANGED <<files, row, lock, ops, loose, hidden>>

\* The reconciler remembers the mtimes it read before the walk.
EndWalk(th) ==
  /\ pc[th] = "prune"
  /\ my[th].gone = {}
  /\ \/ /\ role[th] = "list"
        /\ seen' = my[th].snap
        /\ rlock' = NoThread
        /\ Goto(th, "served")
        /\ UNCHANGED <<role, my>>
     \/ /\ role[th] # "list"
        /\ Stop(th)
        /\ UNCHANGED <<seen, rlock>>
  /\ UNCHANGED <<files, row, lock, ops, loose, hidden>>

-----------------------------------------------------------------------------
\* LibraryDB.upsert_path

\* What follows the call: the walk goes on, or the handler returns.
AfterUpsert(th) ==
  \/ /\ role[th] \in {"list", "scan", "transcribe"}
     /\ Goto(th, "walk")
     /\ UNCHANGED <<lock, role, my>>
  \/ /\ role[th] \in {"relabel", "patch", "import", "restore"}
     /\ Release(th)
     /\ Stop(th)

UpsertStat(th) ==
  LET p == my[th].path IN
  /\ pc[th] = "upsert"
  /\ \/ /\ file[p] = Absent
        /\ AfterUpsert(th)
     \/ /\ file[p] # Absent
        /\ my' = [my EXCEPT ![th].stat = file[p]]
        /\ Goto(th, "read")
        /\ UNCHANGED <<lock, role>>
  /\ UNCHANGED <<files, row, seen, rlock, ops, loose, hidden>>

\* A file that cannot be read (gone in the meantime) gets an error stub.
UpsertRead(th) ==
  /\ pc[th] = "read"
  /\ my' = [my EXCEPT ![th].text = file[my[th].path]]
  /\ Goto(th, "commit")
  /\ UNCHANGED <<files, row, seen, rlock, lock, role, ops, loose, hidden>>

\* Fault: the mtime is taken after the text was read.
UpsertCommitRestat(th) ==
  LET p == my[th].path IN
  /\ pc[th] = "commit"
  /\ row' = [row EXCEPT ![StemOf[p]] =
               [path |-> p, mtime |-> file[p], text |-> my[th].text]]
  /\ AfterUpsert(th)
  /\ hidden' = hidden \ {p}
  /\ UNCHANGED <<files, seen, rlock, ops, loose>>

\* INSERT ... ON CONFLICT(id) DO UPDATE, by upsert_path or _upsert_error.
UpsertCommit(th) ==
  LET p == my[th].path IN
  /\ pc[th] = "commit"
  /\ row' = [row EXCEPT ![StemOf[p]] =
               [path |-> p, mtime |-> my[th].stat, text |-> my[th].text]]
  /\ AfterUpsert(th)
  /\ hidden' = hidden \ {p}
  /\ UNCHANGED <<files, seen, rlock, ops, loose>>

-----------------------------------------------------------------------------
\* Handlers that change files.  The path is looked up before the lock is
\* taken; any existing file of the transcript may be the one it found.

\* PATCH .../relabel: the rewrite and the indexing are under the lock.
Relabel(th, p) ==
  /\ file[p] # Absent
  /\ lock[StemOf[p]] = NoThread
  /\ PutFile(p, clock + 1)
  /\ lock' = [lock EXCEPT ![StemOf[p]] = th]
  /\ Start(th, "relabel", [Blank EXCEPT !.path = p], "upsert")
  /\ UNCHANGED <<trash, row, seen, rlock, hidden>>

\* PATCH /transcripts/{tid} and summaries: the lock is released after the
\* write, and the indexing follows.
Patch(th, p) ==
  /\ file[p] # Absent
  /\ lock[StemOf[p]] = NoThread
  /\ PutFile(p, clock + 1)
  /\ Start(th, "patch", [Blank EXCEPT !.path = p], "upsert")
  /\ UNCHANGED <<trash, row, seen, rlock, lock, hidden>>

\* post_import: neither a row nor a file may exist.
Import(th, p) ==
  /\ file[p] = Absent
  /\ row[StemOf[p]] = NoRow
  /\ lock[StemOf[p]] = NoThread
  /\ PutFile(p, clock + 1)
  /\ lock' = [lock EXCEPT ![StemOf[p]] = th]
  /\ Start(th, "import", [Blank EXCEPT !.path = p], "upsert")
  /\ UNCHANGED <<trash, row, seen, rlock, hidden>>

\* run_transcribe_job writes without the lock; _on_complete_dir then scans
\* the directory.
Transcribe(th, p) ==
  /\ PutFile(p, clock + 1)
  /\ Start(th, "transcribe",
           [Blank EXCEPT !.dirs = {DirOf[p]}, !.left = {DirOf[p]}], "walk")
  /\ UNCHANGED <<trash, row, seen, rlock, lock, hidden>>

\* delete_transcript: the files are moved to .trash, then the row goes.
Delete(th, p) ==
  /\ file[p] # Absent
  /\ lock[StemOf[p]] = NoThread
  /\ PutFile(p, Absent)
  /\ trash' = [trash EXCEPT ![p] = file[p]]
  /\ lock' = [lock EXCEPT ![StemOf[p]] = th]
  /\ Start(th, "delete", [Blank EXCEPT !.path = p], "drop")
  /\ UNCHANGED <<row, seen, rlock, hidden>>

DropRow(th) ==
  /\ pc[th] = "drop"
  /\ DeleteRow(my[th].path)
  /\ Release(th)
  /\ Stop(th)
  /\ UNCHANGED <<files, seen, rlock, ops, loose, hidden>>

\* restore_item: the file comes back with the mtime it had.
Restore(th, p) ==
  /\ trash[p] # Absent
  /\ file[p] = Absent
  /\ lock[StemOf[p]] = NoThread
  /\ PutFile(p, trash[p])
  /\ trash' = [trash EXCEPT ![p] = Absent]
  /\ lock' = [lock EXCEPT ![StemOf[p]] = th]
  /\ Start(th, "restore", [Blank EXCEPT !.path = p], "upsert")
  /\ UNCHANGED <<row, seen, rlock, hidden>>

\* The process ends, at any point, and starts again: files and rows stay.
Restart ==
  /\ "restart" \in Roles
  /\ ops < MaxOps
  /\ seen' = NoTimes
  /\ rlock' = NoThread
  /\ lock' = [s \in Stems |-> NoThread]
  /\ role' = [th \in Threads |-> "none"]
  /\ pc' = [th \in Threads |-> "idle"]
  /\ my' = [th \in Threads |-> Blank]
  /\ ops' = ops + 1
  /\ loose' = (loose \/ \E th \in Threads : role[th] = "restore")
  /\ UNCHANGED <<files, row, hidden>>

-----------------------------------------------------------------------------
Change(th, p) ==
  \/ Relabel(th, p)
  \/ Patch(th, p)
  \/ Import(th, p)
  \/ Transcribe(th, p)
  \/ Delete(th, p)
  \/ Restore(th, p)

Walk(th) ==
  \/ \E d \in Dirs : StatDir(th, d) \/ Glob(th, d)
  \/ \E p \in Paths : StatFile(th, p) \/ PruneRow(th, p)
  \/ Gate(th)
  \/ Select(th)
  \/ PruneQuery(th)
  \/ EndWalk(th)

Upsert(th) == UpsertStat(th) \/ UpsertRead(th) \/ UpsertCommit(th)

IndexNext ==
  \/ \E th \in Threads :
       \/ List(th)
       \/ \E ds \in SUBSET Dirs \ {{}} : Scan(th, ds)
       \/ \E p \in Paths : Change(th, p)
       \/ Walk(th)
       \/ Upsert(th)
       \/ DropRow(th)
       \/ AnswerList(th)
  \/ Restart

IndexSpec == IndexInit /\ [][IndexNext]_indexVars

-----------------------------------------------------------------------------
\* No other file has, or had since the given time, the transcript id of p.
Alone(p, since) ==
  \A q \in Paths \ {p} : StemOf[q] = StemOf[p] => file[q] = Absent /\ changed[q] <= since

Current(p) ==
  row[StemOf[p]] = [path |-> p, mtime |-> file[p], text |-> file[p]]

\* list_transcripts and _build_delta reconcile "so the user sees rows matching
\* disk": when the answer is read from the index, every file that has not
\* changed since the request got its turn has a row, and the row shows the
\* file's present text.  The promise ends once an operation that indexes
\* outside the locks has overlapped another: its late commit puts an old row
\* back.  It ends, too, if the process ends between the rename of a restore and
\* its commit: the file is back with its old mtime, and an old row with this
\* mtime, the stub of a read that had found it gone, is taken to be current.
\* And it does not hold for a file whose row was dropped by a scan of a
\* directory above its own, until that file is indexed again: no directory has
\* changed, so the next listing does not walk.
ListedCurrent ==
  ~loose => \A th \in Threads : pc[th] = "served" =>
    \A p \in Paths :
      /\ file[p] # Absent
      /\ changed[p] <= my[th].start
      /\ Alone(p, my[th].start)
      /\ p \notin hidden
      => Current(p)

\* And no row of the answer is of a file that was gone when the request got
\* its turn, within the same limit.
NoGhostRows ==
  ~loose => \A th \in Threads : pc[th] = "served" =>
    \A s \in Stems :
      row[s] # NoRow /\ file[row[s].path] = Absent
        => changed[row[s].path] > my[th].start

\* The short cut of sync_dirs is sound: a row that has a file's path and mtime
\* has that file's text, whoever wrote the row and however late, so skipping
\* the file loses nothing. The exception is a file that came back from the
\* trash: the row may be the stub of a read that found it gone (text 0), under
\* the mtime that the file has again.
SkipSound ==
  \A p \in Paths :
    file[p] # Absent /\ UpToDate(p, file[p])
      => row[StemOf[p]].text \in {file[p], 0}

\* What a listing or a delta answers is what the disk held when the request
\* got its turn: nothing missing or outdated, and nothing that was gone.
AnswerMatchesDisk == IndexTypeOK /\ ListedCurrent /\ NoGhostRows
=============================================================================
