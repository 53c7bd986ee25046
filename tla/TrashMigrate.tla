---------------------------- MODULE TrashMigrate ----------------------------
(***************************************************************************)
(* The trash bin and the migration of local transcripts to the hub.        *)
(*                                                                         *)
(* One transcript of the laptop: the original (a json file and its txt     *)
(* sidecar; the audio is moved like the txt), the trash directory of its   *)
(* id, the copy in the synced directory, the copy on the hub, and the      *)
(* library row, which names the original or the synced copy.               *)
(*                                                                         *)
(* DELETE, restore, purge and PATCH hold the lock of the transcript.       *)
(* Emptying the trash and the migration's own move to the trash hold       *)
(* none; sweeps exclude each other by _sweep_lock.  Each file is moved by  *)
(* a rename of its own, rmtree removes one entry at a time, and a crash    *)
(* may come between any two steps.  upsert_path takes the stat and reads   *)
(* the file before it takes the lock of the library, so that a row may be  *)
(* entered for a file that has been moved away in the meantime.            *)
(*                                                                         *)
(* Source: speechtotext/client/migrate.py, speechtotext/api/trash.py,      *)
(* routes_trash.py, routes_transcripts.py (DELETE, PATCH), routes_import.py*)
(* and hub_client.py (import).                                             *)
(***************************************************************************)
EXTENDS Naturals

CONSTANTS
  Users,       \* request threads
  Sweepers,    \* threads that call sweep_local: the runtime and a job
  None,        \* no thread
  Requests,    \* what the users ask for
  MaxVersion,  \* bound on the versions of the transcript
  MaxOps,      \* bound on the requests
  MaxFaults    \* bound on crashes, refused renames and network failures

ASSUME TrashAssumption ==
  /\ Users \cap Sweepers = {} /\ None \notin Users \cup Sweepers
  /\ Requests \subseteq {"delete", "restore", "purge", "empty", "patch", "transcribe"}
  /\ MaxVersion \in Nat \ {0} /\ MaxOps \in Nat /\ MaxFaults \in Nat

VARIABLES
  orig,      \* orig[f]: version in the original's file f, 0 if there is none
  bin,       \* bin[f]: version of file f in the trash directory
  manifest,  \* files of the manifest (it always has "json"), {} without one, or Torn
  dir,       \* the trash directory exists
  synced,    \* version in the synced directory
  hub,       \* version on the hub
  row,       \* the place whose file the library row names: "none", "orig" or "synced"
  seen,      \* a listing has read the original and not yet entered its row
  lock,      \* holder of the transcript's lock
  sweepLock, \* holder of _sweep_lock
  pc,        \* pc[t]: where thread t is
  op,        \* op[t]: what it is doing
  moves,     \* moves[t]: renames still to do
  done,      \* done[t]: renames to undo on failure
  left,      \* left[t]: entries rmtree has still to remove
  doc,       \* doc[t]: version a PATCH or a sweep has read
  sent,      \* sent[t]: version in the import request
  core,      \* core[v]: what v has in segments, speakers and title
  versions, ops, faults,
  reached,   \* ghost: versions the hub has stored
  late,      \* ghost: versions put in the original's place while another thread was at it
  archived,  \* ghost: versions a sweep has moved to the trash
  current,   \* ghost: the last version written to the original
  gone,      \* ghost: versions removed on the user's request
  mixed,     \* ghost: see Goto and Crash
  crashed,   \* ghost: the process has died
  stuck,     \* ghost: a rename was refused in a roll-back
  overtaken, \* ghost: a row was entered for the original after a sweep had archived it
  trashed    \* ghost: the user has asked for a deletion or a restore

files == <<orig, bin, manifest, dir>>
places == <<synced, hub, row, seen>>
locks == <<lock, sweepLock>>
thread == <<pc, op, moves, done, left, doc, sent>>
counts == <<core, versions, ops, faults>>
marks == <<crashed, trashed, stuck, overtaken>>
ghosts == <<reached, late, archived, current, gone, mixed, marks>>
vars == <<files, places, locks, thread, counts, ghosts>>

Threads == Users \cup Sweepers
File == {"json", "txt"}

\* The manifest has been truncated and not been written.
Torn == {"torn"}
Version == 0..MaxVersion

FilesType ==
  /\ orig \in [File -> Version] /\ bin \in [File -> Version]
  /\ manifest \in {{}, Torn, {"json"}, File} /\ dir \in BOOLEAN

PlacesType ==
  /\ synced \in Version /\ hub \in Version /\ row \in {"none", "orig", "synced"}
  /\ seen \in BOOLEAN
  /\ core \in [Version -> Version]
  /\ versions \in 1..MaxVersion /\ ops \in 0..MaxOps /\ faults \in 0..MaxFaults

ThreadType ==
  /\ lock \in Users \cup {None} /\ sweepLock \in Sweepers \cup {None}
  /\ pc \in [Threads -> {"idle", "lock", "mkdir", "manifest", "write", "move", "undo",
                         "settle", "plan", "list", "unlink", "read", "json", "txt",
                         "upsert", "record", "import", "commit", "pull", "verify", "index"}]
  /\ op \in [Threads -> {"none", "delete", "restore", "purge", "empty", "patch",
                         "transcribe", "sweep"}]
  /\ moves \in [Threads -> SUBSET File] /\ done \in [Threads -> SUBSET File]
  /\ left \in [Threads -> SUBSET (File \cup {"manifest"})]
  /\ doc \in [Threads -> Version] /\ sent \in [Threads -> Version]

GhostType ==
  /\ reached \subseteq Version /\ late \subseteq Version /\ archived \subseteq Version
  /\ gone \subseteq Version /\ current \in Version
  /\ mixed \in BOOLEAN /\ crashed \in BOOLEAN /\ trashed \in BOOLEAN
  /\ stuck \in BOOLEAN /\ overtaken \in BOOLEAN

TypeOK == FilesType /\ PlacesType /\ ThreadType /\ GhostType

\* A transcribed original that the hub does not have.
Init ==
  /\ orig = [f \in File |-> 1] /\ bin = [f \in File |-> 0]
  /\ manifest = {} /\ dir = FALSE
  /\ synced = 0 /\ hub = 0 /\ row = "orig" /\ seen = FALSE
  /\ lock = None /\ sweepLock = None
  /\ pc = [t \in Threads |-> "idle"] /\ op = [t \in Threads |-> "none"]
  /\ moves = [t \in Threads |-> {}] /\ done = [t \in Threads |-> {}]
  /\ left = [t \in Threads |-> {}]
  /\ doc = [t \in Threads |-> 0] /\ sent = [t \in Threads |-> 0]
  /\ core = [v \in Version |-> v] /\ versions = 1 /\ ops = 0 /\ faults = 0
  /\ reached = {} /\ late = {} /\ archived = {} /\ current = 1 /\ gone = {}
  /\ mixed = FALSE /\ crashed = FALSE /\ trashed = FALSE /\ stuck = FALSE /\ overtaken = FALSE

Fault == faults < MaxFaults /\ faults' = faults + 1

\* Steps at which a thread changes the files of the transcript.
Moving == {"mkdir", "manifest", "write", "move", "undo", "list", "unlink", "json", "txt"}

\* Thread t goes to step s.  Recorded are two threads on the files at once, and
\* a deletion that comes too late and writes the manifest of an empty place.
Goto(t, s) ==
  /\ pc' = [pc EXCEPT ![t] = s]
  /\ mixed' = \/ mixed
              \/ s \in Moving /\ \E u \in Threads \ {t} : pc[u] \in Moving
              \/ s = "manifest" /\ orig["json"] = 0

\* Thread t has looked at the original and is not done with its files.
Busy(t) ==
  \/ op[t] = "sweep" /\ pc[t] \notin {"lock", "read", "settle"}
  \/ op[t] # "sweep" /\ pc[t] \in Moving

\* A json file, of version v, comes to the original's place by thread t.
Placed(t, v) == late' = IF \E u \in Threads \ {t} : Busy(u) THEN late \cup {v} ELSE late

\* Thread t returns: its locks are released and its local state is gone.
Return(t) ==
  /\ pc' = [pc EXCEPT ![t] = "idle"] /\ op' = [op EXCEPT ![t] = "none"]
  /\ moves' = [moves EXCEPT ![t] = {}] /\ done' = [done EXCEPT ![t] = {}]
  /\ left' = [left EXCEPT ![t] = {}]
  /\ doc' = [doc EXCEPT ![t] = 0] /\ sent' = [sent EXCEPT ![t] = 0]
  /\ lock' = IF lock = t THEN None ELSE lock
  /\ sweepLock' = IF sweepLock = t THEN None ELSE sweepLock

-----------------------------------------------------------------------------
(* Requests. *)

\* get_path, or else find_sidecar, which searches the library directories.
Resolved == IF row # "none" THEN row ELSE IF orig["json"] # 0 THEN "orig" ELSE "synced"

\* _iter_trash_dirs passes over a directory without a manifest.
InTrash == dir /\ manifest # {}

\* A handler resolves the path before it takes the lock.  A transcript of the
\* hub is not trashed here (409), and a PATCH of it is forwarded to the hub.
Request(u, o) ==
  /\ pc[u] = "idle" /\ ops < MaxOps
  /\ o \in {"delete", "patch"} => Resolved = "orig" /\ orig["json"] # 0
  /\ op' = [op EXCEPT ![u] = o] /\ ops' = ops + 1
  /\ o = "empty" => InTrash
  /\ Goto(u, IF o = "empty" THEN "list" ELSE IF o = "transcribe" THEN "txt" ELSE "lock")
  /\ trashed' = (trashed \/ o \in {"delete", "restore"})
  /\ UNCHANGED <<files, places, locks, moves, done, left, doc, sent, core, versions, faults,
                 reached, late, archived, current, gone, crashed, stuck, overtaken>>

\* First step of each handler under the lock.
FirstStep == [delete |-> "mkdir", restore |-> "plan", purge |-> "plan", patch |-> "read"]

Lock(u) ==
  /\ pc[u] = "lock" /\ u \in Users /\ lock = None
  /\ lock' = u /\ Goto(u, FirstStep[op[u]])
  /\ UNCHANGED <<files, places, sweepLock, op, moves, done, left, doc, sent, counts,
                 reached, late, archived, current, gone, marks>>

-----------------------------------------------------------------------------
(* trash_transcript: for DELETE, and for a sweep without the lock. *)

Mkdir(t) ==
  /\ pc[t] = "mkdir" /\ dir' = TRUE /\ Goto(t, "manifest")
  /\ UNCHANGED <<orig, bin, manifest, places, locks, op, moves, done, left, doc, sent,
                 counts, reached, late, archived, current, gone, marks>>

\* The manifest is written before anything moves, and first truncated.  An
\* OSError (the directory has been removed in the meantime) ends the operation.
Manifest(t) ==
  /\ pc[t] = "manifest"
  /\ IF dir
       THEN /\ moves' = [moves EXCEPT ![t] = {"json"} \cup {f \in File : orig[f] # 0}]
            /\ manifest' = Torn /\ Goto(t, "write")
       ELSE Goto(t, "undo") /\ UNCHANGED <<moves, manifest>>
  /\ UNCHANGED <<orig, bin, dir, places, locks, op, done, left, doc, sent, counts,
                 reached, late, archived, current, gone, marks>>

\* If an rmtree has removed it in the meantime it stays removed.
WriteManifest(t) ==
  /\ pc[t] = "write"
  /\ manifest' = IF manifest = {} THEN {} ELSE moves[t]
  /\ Goto(t, "move")
  /\ UNCHANGED <<orig, bin, dir, places, locks, op, moves, done, left, doc, sent, counts,
                 reached, late, archived, current, gone, marks>>

\* The disk is full.
WriteManifestFails(t) ==
  /\ pc[t] = "write" /\ Fault
  /\ moves' = [moves EXCEPT ![t] = {}] /\ Goto(t, "undo")
  /\ UNCHANGED <<files, places, locks, op, done, left, doc, sent, core, versions, ops,
                 reached, late, archived, current, gone, marks>>

\* The rename of f, to the trash or back; each replaces what is there.
ToTrash(f) == bin' = [bin EXCEPT ![f] = orig[f]] /\ orig' = [orig EXCEPT ![f] = 0]
ToOrigin(t, f) ==
  /\ orig' = [orig EXCEPT ![f] = bin[f]] /\ bin' = [bin EXCEPT ![f] = 0]
  /\ IF f = "json" THEN Placed(t, bin[f]) ELSE UNCHANGED late

\* Files are moved in the order of the manifest, the json file first, and
\* moved back in the reverse order.
FirstOf(fs) == IF "json" \in fs THEN "json" ELSE "txt"
LastOf(fs) == IF "txt" \in fs THEN "txt" ELSE "json"

\* _execute_moves.
Move(t) ==
  /\ pc[t] = "move" /\ moves[t] # {}
  /\ LET f == FirstOf(moves[t])
     IN /\ dir
        /\ IF op[t] = "restore" THEN bin[f] # 0 /\ ToOrigin(t, f)
                                ELSE orig[f] # 0 /\ ToTrash(f) /\ UNCHANGED late
        /\ done' = [done EXCEPT ![t] = @ \cup {f}]
        /\ archived' = IF op[t] = "sweep" /\ f = "json" THEN archived \cup {orig[f]}
                                                        ELSE archived
  /\ moves' = [moves EXCEPT ![t] = @ \ {FirstOf(@)}]
  /\ UNCHANGED <<manifest, dir, places, locks, pc, op, left, doc, sent, counts,
                 reached, current, gone, mixed, marks>>

\* Mutant: nothing is rolled back.
MoveFailsHalfway(t) ==
  /\ pc[t] = "move" /\ moves[t] # {}
  /\ LET f == FirstOf(moves[t])
     IN \/ (~dir \/ (IF op[t] = "restore" THEN bin ELSE orig)[f] = 0) /\ UNCHANGED faults
        \/ Fault
  /\ moves' = [moves EXCEPT ![t] = {}] /\ Goto(t, "undo")
  /\ done' = [done EXCEPT ![t] = {}]
  /\ UNCHANGED <<files, places, locks, op, left, doc, sent, core, versions, ops,
                 reached, late, archived, current, gone, marks>>

\* A rename fails: its source is gone, or the system refuses it.
MoveFails(t) ==
  /\ pc[t] = "move" /\ moves[t] # {}
  /\ LET f == FirstOf(moves[t])
     IN \/ (~dir \/ (IF op[t] = "restore" THEN bin ELSE orig)[f] = 0) /\ UNCHANGED faults
        \/ Fault
  /\ moves' = [moves EXCEPT ![t] = {}] /\ Goto(t, "undo")
  /\ UNCHANGED <<files, places, locks, op, done, left, doc, sent, core, versions, ops,
                 reached, late, archived, current, gone, marks>>

Moved(t) ==
  /\ pc[t] = "move" /\ moves[t] = {}
  /\ Goto(t, IF op[t] = "restore" THEN "list" ELSE "settle")
  /\ UNCHANGED <<files, places, locks, op, moves, done, left, doc, sent, counts,
                 reached, late, archived, current, gone, marks>>

\* The roll-back, in reverse; a file that is gone is passed over.
Undo(t) ==
  /\ pc[t] = "undo" /\ done[t] # {}
  /\ LET f == LastOf(done[t])
     IN IF op[t] = "restore"
          THEN (IF orig[f] # 0 /\ dir THEN ToTrash(f) ELSE UNCHANGED <<orig, bin>>) /\ UNCHANGED late
          ELSE IF bin[f] # 0 THEN ToOrigin(t, f) ELSE UNCHANGED <<orig, bin, late>>
  /\ done' = [done EXCEPT ![t] = @ \ {LastOf(@)}]
  /\ UNCHANGED <<manifest, dir, places, locks, pc, op, moves, left, doc, sent, counts,
                 reached, archived, current, gone, mixed, marks>>

\* What has refused a rename may refuse the way back too; the file then stays
\* where it is.
UndoRefused(t) ==
  /\ pc[t] = "undo" /\ done[t] # {} /\ faults > 0
  /\ done' = [done EXCEPT ![t] = @ \ {LastOf(@)}] /\ stuck' = TRUE
  /\ UNCHANGED <<files, places, locks, pc, op, moves, left, doc, sent, counts,
                 reached, late, archived, current, gone, mixed, crashed, trashed, overtaken>>

\* The error then ends a request (500); a sweep logs it and goes on.
Undone(t) ==
  /\ pc[t] = "undo" /\ done[t] = {}
  /\ IF op[t] = "sweep" THEN Goto(t, "settle") /\ UNCHANGED <<locks, op, moves, done, left, doc, sent>>
                        ELSE Return(t) /\ UNCHANGED mixed
  /\ UNCHANGED <<files, places, counts, reached, late, archived, current, gone, marks>>

\* delete_by_path(original), the last step of DELETE and of migrate_one.
Settle(t) ==
  /\ pc[t] = "settle"
  /\ row' = IF row = "orig" THEN "none" ELSE row
  /\ Return(t)
  /\ UNCHANGED <<files, synced, hub, seen, counts, ghosts>>

-----------------------------------------------------------------------------
(* restore and purge. *)

\* Files of the manifest that are in the trash.
Restorable == {f \in manifest \cap File : bin[f] # 0}

\* Mutant: an occupied path is not noticed.
PlanOverwrites(u) ==
  /\ pc[u] = "plan"
  /\ IF ~InTrash \/ (op[u] = "restore" /\ manifest = Torn)
       THEN Return(u) /\ UNCHANGED mixed
       ELSE /\ Goto(u, IF op[u] = "restore" THEN "move" ELSE "list")
            /\ moves' = [moves EXCEPT ![u] = IF op[u] = "restore" THEN Restorable ELSE {}]
            /\ UNCHANGED <<locks, op, done, left, doc, sent>>
  /\ UNCHANGED <<files, places, counts, reached, late, archived, current, gone, marks>>

\* 404 without a trash entry, 409 if an original path is occupied; and a torn
\* manifest cannot be read.
Plan(u) ==
  /\ pc[u] = "plan"
  /\ IF ~InTrash \/ (op[u] = "restore" /\ (manifest = Torn \/ \E f \in Restorable : orig[f] # 0))
       THEN Return(u) /\ UNCHANGED mixed
       ELSE /\ Goto(u, IF op[u] = "restore" THEN "move" ELSE "list")
            /\ moves' = [moves EXCEPT ![u] = IF op[u] = "restore" THEN Restorable ELSE {}]
            /\ UNCHANGED <<locks, op, done, left, doc, sent>>
  /\ UNCHANGED <<files, places, counts, reached, late, archived, current, gone, marks>>

Entries == {f \in File : bin[f] # 0} \cup (IF manifest # {} THEN {"manifest"} ELSE {})

\* shutil.rmtree reads the directory once ...
List(t) ==
  /\ pc[t] = "list"
  /\ IF dir
       THEN left' = [left EXCEPT ![t] = Entries] /\ Goto(t, "unlink")
            /\ UNCHANGED <<locks, op, moves, done, doc, sent>>
       ELSE Return(t) /\ UNCHANGED mixed
  /\ UNCHANGED <<files, places, counts, reached, late, archived, current, gone, marks>>

\* ... removes the entries it has seen ...
Unlink(t, e) ==
  /\ pc[t] = "unlink" /\ e \in left[t] /\ e \in Entries
  /\ left' = [left EXCEPT ![t] = @ \ {e}]
  /\ manifest' = IF e = "manifest" THEN {} ELSE manifest
  /\ bin' = IF e \in File THEN [bin EXCEPT ![e] = 0] ELSE bin
  /\ gone' = IF e = "json" /\ op[t] # "restore" THEN gone \cup {bin[e]} ELSE gone
  /\ UNCHANGED <<orig, dir, places, locks, pc, op, moves, done, doc, sent, counts,
                 reached, late, archived, current, mixed, marks>>

\* ... raises for one that is gone (Python 3.11, 3.12) or ignores it (3.13) ...
UnlinkGone(t, e) ==
  /\ pc[t] = "unlink" /\ e \in left[t] /\ e \notin Entries
  /\ \/ Return(t)
     \/ left' = [left EXCEPT ![t] = @ \ {e}] /\ UNCHANGED <<pc, op, moves, done, doc, sent, locks>>
  /\ UNCHANGED <<files, places, counts, ghosts>>

\* ... and the directory, which must be empty.
Rmdir(t) ==
  /\ pc[t] = "unlink" /\ left[t] = {}
  /\ dir' = (Entries # {})
  /\ IF op[t] = "restore" /\ Entries = {} /\ dir
       THEN Goto(t, "upsert") /\ UNCHANGED <<locks, op, moves, done, left, doc, sent>>
       ELSE Return(t) /\ UNCHANGED mixed
  /\ UNCHANGED <<orig, bin, manifest, places, counts, reached, late, archived, current,
                 gone, marks>>

\* upsert_path(original): nothing is recorded for a file that is gone ...
Upsert(u) ==
  /\ pc[u] = "upsert"
  /\ IF orig["json"] # 0 THEN Goto(u, "record") /\ UNCHANGED <<locks, op, moves, done, left, doc, sent>>
                         ELSE Return(u) /\ UNCHANGED mixed
  /\ UNCHANGED <<files, places, counts, reached, late, archived, current, gone, marks>>

\* ... but it may go before the row is entered.  If it went before it was read
\* the row has an error, and sweeps pass over it: as if there were none.
Enter ==
  /\ row' = "orig" \/ (orig["json"] = 0 /\ row' = "none")
  /\ overtaken' = \/ overtaken
                  \/ /\ row' = "orig" /\ orig["json"] = 0
                     /\ \A s \in Sweepers : pc[s] \notin {"move", "undo", "settle"}

Record(u) ==
  /\ pc[u] = "record" /\ Enter /\ Return(u)
  /\ UNCHANGED <<files, synced, hub, seen, counts, reached, late, archived, current, gone,
                 mixed, crashed, trashed, stuck>>

-----------------------------------------------------------------------------
(* A PATCH of the local transcript (HubEdits has what it computes), or a     *)
(* transcription that writes it anew, the sidecar first.                    *)

Read(t) ==
  /\ pc[t] = "read"
  /\ IF orig["json"] # 0
       THEN /\ doc' = [doc EXCEPT ![t] = orig["json"]]
            /\ Goto(t, IF op[t] = "sweep" THEN "import" ELSE "json")
            /\ UNCHANGED <<locks, op, moves, done, left, sent>>
       ELSE Return(t) /\ UNCHANGED mixed
  /\ UNCHANGED <<files, places, counts, reached, late, archived, current, gone, marks>>

\* The edit may leave the segments, the speakers and the title as they were.
WriteJson(u) ==
  LET v == versions + 1
  IN /\ pc[u] = "json" /\ versions < MaxVersion /\ versions' = v
     /\ orig' = [orig EXCEPT !["json"] = v] /\ current' = v
     /\ \E c \in {v} \cup (IF op[u] = "patch" THEN {core[doc[u]]} ELSE {}) :
          core' = [core EXCEPT ![v] = c]
     /\ Placed(u, v)
     /\ Goto(u, IF op[u] = "transcribe" THEN "upsert" ELSE "txt")
     /\ UNCHANGED <<bin, manifest, dir, places, locks, op, moves, done, left, doc, sent,
                    ops, faults, reached, archived, gone, marks>>

\* Of a sidecar it matters only that it is there.  The row is updated after the
\* lock is released.
WriteTxt(u) ==
  /\ pc[u] = "txt"
  /\ orig' = [orig EXCEPT !["txt"] = versions]
  /\ lock' = IF lock = u THEN None ELSE lock
  /\ Goto(u, IF op[u] = "transcribe" THEN "json" ELSE "upsert")
  /\ UNCHANGED <<bin, manifest, dir, places, sweepLock, op, moves, done, left, doc, sent,
                 counts, reached, late, archived, current, gone, marks>>

-----------------------------------------------------------------------------
(* sweep_local and migrate_one. *)

\* count_local_origin is asked without the lock, the rows are listed under it.
SweepBegin(s) ==
  /\ pc[s] = "idle" /\ row = "orig"
  /\ op' = [op EXCEPT ![s] = "sweep"] /\ Goto(s, "lock")
  /\ UNCHANGED <<files, places, locks, moves, done, left, doc, sent, counts,
                 reached, late, archived, current, gone, marks>>

\* Mutant: sweeps do not exclude each other.
SweepUnlocked(s) ==
  /\ pc[s] = "lock" /\ s \in Sweepers
  /\ IF row = "orig"
       THEN sweepLock' = s /\ Goto(s, "read") /\ UNCHANGED <<lock, op, moves, done, left, doc, sent>>
       ELSE Return(s) /\ UNCHANGED mixed
  /\ UNCHANGED <<files, places, counts, reached, late, archived, current, gone, marks>>

SweepLock(s) ==
  /\ pc[s] = "lock" /\ s \in Sweepers /\ sweepLock = None
  /\ IF row = "orig"
       THEN sweepLock' = s /\ Goto(s, "read") /\ UNCHANGED <<lock, op, moves, done, left, doc, sent>>
       ELSE Return(s) /\ UNCHANGED mixed
  /\ UNCHANGED <<files, places, counts, reached, late, archived, current, gone, marks>>

\* import_transcript reads the file again.
Import(s) ==
  /\ pc[s] = "import"
  /\ IF orig["json"] # 0
       THEN sent' = [sent EXCEPT ![s] = orig["json"]] /\ Goto(s, "commit")
            /\ UNCHANGED <<locks, op, moves, done, left, doc>>
       ELSE Return(s) /\ UNCHANGED mixed
  /\ UNCHANGED <<files, places, counts, reached, late, archived, current, gone, marks>>

\* POST /transcripts/import: a transcript the hub has is not replaced.
HubImport(s) ==
  /\ hub' = IF hub = 0 THEN sent[s] ELSE hub
  /\ reached' = reached \cup {hub'}

Commit(s) ==
  /\ pc[s] = "commit"
  /\ \/ HubImport(s) /\ Goto(s, "pull")
        /\ UNCHANGED <<faults, locks, op, moves, done, left, doc, sent>>
     \/ (HubImport(s) \/ UNCHANGED <<hub, reached>>) /\ Fault /\ Return(s) /\ UNCHANGED mixed
  /\ UNCHANGED <<files, synced, row, seen, core, versions, ops, late, archived, current, gone, marks>>

\* pull_once; SyncFeed has the ways in which the copy may not arrive.
SweepPull(s) ==
  /\ pc[s] = "pull"
  /\ \/ synced' = hub /\ Goto(s, "verify") /\ UNCHANGED <<faults, locks, op, moves, done, left, doc, sent>>
     \/ Fault /\ Goto(s, "verify") /\ UNCHANGED <<synced, locks, op, moves, done, left, doc, sent>>
     \/ Fault /\ Return(s) /\ UNCHANGED <<synced, mixed>>
  /\ UNCHANGED <<files, hub, row, seen, core, versions, ops, reached, late, archived, current, gone, marks>>

\* Mutant: the copy has arrived, whatever it holds.
VerifiedPresent(s) == synced # 0

\* segments, speakers and title of the copy and of the document read first.
Verified(s) == synced # 0 /\ core[synced] = core[doc[s]]

Verify(s) ==
  /\ pc[s] = "verify"
  /\ IF Verified(s)
       THEN Goto(s, "index") /\ UNCHANGED <<locks, op, moves, done, left, doc, sent>>
       ELSE Return(s) /\ UNCHANGED mixed
  /\ UNCHANGED <<files, places, counts, reached, late, archived, current, gone, marks>>

\* upsert_path of the copy, which nothing removes.
Index(s) ==
  /\ pc[s] = "index" /\ row' = "synced" /\ Goto(s, "mkdir")
  /\ UNCHANGED <<files, synced, hub, seen, locks, op, moves, done, left, doc, sent, counts,
                 reached, late, archived, current, gone, marks>>

-----------------------------------------------------------------------------
(* The rest of the system. *)

\* Another device edits the hub's copy.
HubEdit ==
  /\ hub # 0 /\ versions < MaxVersion
  /\ versions' = versions + 1 /\ hub' = versions + 1 /\ reached' = reached \cup {versions + 1}
  /\ UNCHANGED <<files, synced, row, seen, locks, thread, core, ops, faults, late, archived,
                 current, gone, mixed, marks>>

\* A pull of the runtime's cycle, and _on_synced, which indexes the directory.
RuntimePull ==
  /\ hub # 0 /\ synced # hub /\ \E s \in Sweepers : pc[s] = "idle"
  /\ synced' = hub /\ row' = "synced"
  /\ UNCHANGED <<files, hub, seen, locks, thread, counts, ghosts>>

\* sync_dirs over the library directories, before a listing and at start-up.  It
\* reads the original (also one that has not changed, as a handler's upsert_path
\* would) ...
Look ==
  /\ orig["json"] # 0 /\ ~seen /\ seen' = TRUE
  /\ UNCHANGED <<files, synced, hub, row, locks, thread, counts, ghosts>>

\* ... and some time later enters its row; of two files with one id the one that
\* is entered last has the row ...
Listed ==
  /\ seen /\ seen' = FALSE /\ Enter
  /\ UNCHANGED <<files, synced, hub, locks, thread, counts, reached, late, archived,
                 current, gone, mixed, crashed, trashed, stuck>>

ListCopy ==
  /\ synced # 0 /\ row' = "synced"
  /\ UNCHANGED <<files, synced, hub, seen, locks, thread, counts, ghosts>>

\* ... and drops the row of a file it has not seen.  How long ago it looked is
\* left open here (LibraryIndex has that).
Prune ==
  /\ row' = "none"
  /\ UNCHANGED <<files, synced, hub, seen, locks, thread, counts, ghosts>>

Crash ==
  /\ Fault /\ crashed' = TRUE /\ seen' = FALSE
  /\ pc' = [t \in Threads |-> "idle"] /\ op' = [t \in Threads |-> "none"]
  /\ moves' = [t \in Threads |-> {}] /\ done' = [t \in Threads |-> {}]
  /\ left' = [t \in Threads |-> {}]
  /\ doc' = [t \in Threads |-> 0] /\ sent' = [t \in Threads |-> 0]
  /\ lock' = None /\ sweepLock' = None
  /\ mixed' = (mixed \/ \E t \in Threads : pc[t] = "unlink")
  /\ UNCHANGED <<files, synced, hub, row, core, versions, ops, reached, late, archived, current,
                 gone, trashed, stuck, overtaken>>

Next ==
  \/ \E u \in Users :
       \/ \E o \in Requests : Request(u, o)
       \/ Lock(u) \/ Plan(u) \/ Upsert(u) \/ Record(u) \/ WriteJson(u) \/ WriteTxt(u)
  \/ \E s \in Sweepers :
       \/ SweepBegin(s) \/ SweepLock(s) \/ Import(s) \/ Commit(s) \/ SweepPull(s)
       \/ Verify(s) \/ Index(s)
  \/ \E t \in Threads :
       \/ Read(t) \/ Mkdir(t) \/ Manifest(t) \/ WriteManifest(t) \/ WriteManifestFails(t)
       \/ Move(t) \/ MoveFails(t) \/ Moved(t) \/ Undo(t) \/ UndoRefused(t) \/ Undone(t)
       \/ Settle(t) \/ List(t) \/ Rmdir(t)
       \/ \E e \in File \cup {"manifest"} : Unlink(t, e) \/ UnlinkGone(t, e)
  \/ HubEdit \/ RuntimePull \/ Look \/ Listed \/ ListCopy \/ Prune \/ Crash

Spec == Init /\ [][Next]_vars

-----------------------------------------------------------------------------
(* Properties. *)

\* migrate.py: "a local original is NEVER trashed before its hub copy has synced
\* back down and been verified".  What a sweep moves to the trash is, in the
\* segments, speakers and title, a version the hub has stored; except for a
\* version that took the original's place after the sweep had read it.
VerifiedBeforeTrashed ==
  \A v \in archived \ late : \E w \in reached : core[w] = core[v]

\* No sequence of deletions, restores, roll-backs, sweeps and crashes loses the
\* last version written to the original: it is in its place, in the trash or on
\* the hub unless the user purged it; except for a version written while another
\* thread was at the files (a roll-back or a restore may replace it, the rmtree
\* of a restore may remove it).
Kept ==
  \/ current \in late
  \/ \E v \in {orig["json"], bin["json"]} \cup reached \cup gone : core[v] = core[current]

Quiet == \A t \in Threads : op[t] = "none"

\* What is in the trash is listed there and can be restored, after a crash or a
\* refused rename too: the manifest comes before the first rename.  Except when
\* two threads were on the files at once, a crash cut an rmtree short, or a crash
\* or an error cut the writing of the manifest itself short.
TrashListed == Quiet /\ ~mixed /\ bin["json"] # 0 => manifest = Torn \/ "json" \in manifest

\* Deletion and restore are all-or-nothing when a rename is refused, if the
\* renames of the roll-back are not: the json file and the txt sidecar are in the
\* original's place together or not at all.
Together ==
  Quiet /\ ~mixed /\ ~crashed /\ ~stuck => (orig["json"] # 0 <=> orig["txt"] # 0)

\* The comment on _sweep_lock: a sweep whose work another sweep has just done
\* finds no row, rather than a row without a file and a false "failed"; unless a
\* listing or a handler, which had read the file before that sweep moved it, has
\* entered the row since.
NoFalseFailure ==
  \A s \in Sweepers :
    pc[s] = "read" /\ ~trashed /\ ~crashed /\ ~overtaken => orig["json"] # 0

\* restore: "Move a trashed transcript's files back to their original paths":
\* when nobody is at work, an original that is back has its sidecar.
RestoredWhole == Quiet /\ orig["json"] # 0 => orig["txt"] # 0

\* The trash holds whole transcripts, each of which can be restored.
TrashSound == TypeOK /\ TrashListed /\ Together
=============================================================================
