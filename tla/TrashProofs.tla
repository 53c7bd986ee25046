---------------------------- MODULE TrashProofs -----------------------------
(***************************************************************************)
(* Nothing is archived unverified, lost or left half moved: proofs about   *)
(* TrashMigrate.                                                           *)
(*                                                                         *)
(* The invariant has three parts.  Sweeps: what a thread at each step has  *)
(* read, which locks it holds (Program, Locked), and that the original it  *)
(* is about to move is the version it has verified or a late one.  Custody:*)
(* where the last version written is (Home).  And, as long as one thread   *)
(* at a time is on the files, what its manifest lists and how far its      *)
(* renames have come (InManifest, Halfway).                                *)
(***************************************************************************)
EXTENDS TrashMigrate, TLAPS

\* The steps of each operation and who takes them.
Program(t) ==
  \/ op[t] = "none" /\ pc[t] = "idle"
  \/ /\ t \in Users
     /\ \/ op[t] = "delete" /\ pc[t] \in {"lock", "mkdir", "manifest", "write", "move", "undo", "settle"}
        \/ op[t] = "restore" /\ pc[t] \in {"lock", "plan", "move", "undo", "list", "unlink", "upsert", "record"}
        \/ op[t] = "purge" /\ pc[t] \in {"lock", "plan", "list", "unlink"}
        \/ op[t] = "empty" /\ pc[t] \in {"list", "unlink"}
        \/ op[t] = "patch" /\ pc[t] \in {"lock", "read", "json", "txt", "upsert", "record"}
        \/ op[t] = "transcribe" /\ pc[t] \in {"txt", "json", "upsert", "record"}
  \/ /\ t \in Sweepers /\ op[t] = "sweep"
     /\ pc[t] \in {"lock", "read", "import", "commit", "pull", "verify", "index",
                   "mkdir", "manifest", "write", "move", "undo", "settle"}

\* Handlers under the transcript's lock, and the sweep under _sweep_lock.
Locked(t) ==
  /\ \/ op[t] \in {"delete", "restore", "purge"} /\ pc[t] # "lock"
     \/ op[t] = "patch" /\ pc[t] \in {"read", "json", "txt"}
     => lock = t
  /\ op[t] = "sweep" /\ pc[t] # "lock" => sweepLock = t

\* Nothing has been moved before the renames begin.
Unmoved(t) == done[t] = {} \/ pc[t] \in {"move", "undo", "settle", "list", "unlink", "upsert", "record"}

\* The json file is in every manifest.
Filled(t) == pc[t] = "write" => moves[t] \in {{"json"}, File}

Order == \A t \in Threads : Program(t) /\ Locked(t) /\ Unmoved(t) /\ Filled(t)

\* Versions in use have been made, and those on the hub were stored there.
Numbered ==
  /\ \A v \in {orig["json"], bin["json"], synced, hub} \cup reached \cup archived : v <= versions
  /\ \A t \in Threads : doc[t] <= versions /\ sent[t] <= versions
  /\ hub # 0 => hub \in reached
  /\ synced # 0 => synced \in reached

\* A sweep that has read the original will move that version or a late one,
\* and past Verify the hub has stored its like.
Checked ==
  \A t \in Threads : op[t] = "sweep" =>
    /\ pc[t] \in {"import", "commit", "pull", "verify", "index", "mkdir", "manifest", "write", "move"} =>
         orig["json"] \in {0, doc[t]} \cup late
    /\ pc[t] \in {"index", "mkdir", "manifest", "write", "move"} =>
         \E w \in reached : core[w] = core[doc[t]]

\* A row without a file is one that a sweep is about to remove.
Swept ==
  /\ ~trashed => \A t \in Threads : op[t] \notin {"delete", "restore"}
  /\ ~trashed /\ ~crashed /\ ~overtaken /\ row = "orig" /\ orig["json"] = 0 =>
       \E s \in Sweepers : op[s] = "sweep" /\ pc[s] \in {"move", "undo", "settle"}

-----------------------------------------------------------------------------
\* The last version written is excused, on the hub or removed on request.
Safe == current \in late \/ \E v \in reached \cup gone : core[v] = core[current]

\* Otherwise it is the original or, without an original, in the trash.
Home ==
  /\ current # 0
  /\ Safe \/ orig["json"] = current \/ (orig["json"] = 0 /\ bin["json"] = current)

\* What a rename to the original's place would replace came late, and what the
\* rmtree of a restore finds in the trash is not the only copy.
Clear(t) ==
  /\ op[t] = "restore" /\ pc[t] = "move" /\ "json" \in moves[t] => orig["json"] \in {0} \cup late
  /\ op[t] \in {"delete", "sweep"} /\ pc[t] \in {"move", "undo"} /\ "json" \in done[t] =>
       orig["json"] \in {0} \cup late
  /\ op[t] = "restore" /\ (pc[t] \in {"list", "unlink"} \/ (pc[t] = "move" /\ "json" \notin moves[t])) =>
       Safe \/ orig["json"] = current

Custody == Home /\ \A t \in Threads : Clear(t)

-----------------------------------------------------------------------------
\* One thread at a time is on the files.
Single == \A t, u \in Threads : pc[t] \in Moving /\ pc[u] \in Moving => t = u

InManifest ==
  /\ bin["json"] # 0 => "json" \in manifest \/ manifest = Torn \/ \E t \in Threads : pc[t] = "unlink"
  /\ \A t \in Threads :
       /\ pc[t] = "write" => manifest = Torn /\ "json" \in moves[t]
       /\ pc[t] = "move" \/ (pc[t] = "undo" /\ done[t] # {}) => "json" \in manifest
       /\ pc[t] = "unlink" => left[t] = Entries

\* The original is whole, or there is none.
Whole == orig["json"] # 0 <=> orig["txt"] # 0

\* So is the trash, except for the sidecar of an older version beside an original.
BinWhole == bin["json"] # 0 => bin["txt"] # 0
BinRest == bin["txt"] # 0 /\ bin["json"] = 0 => orig["json"] # 0

\* How far thread t has come with moving the files out or, in a restore, back.
Out(t) ==
  /\ done[t] \in {{}, {"json"}, File}
  /\ IF pc[t] = "move" THEN moves[t] = File \ done[t] ELSE done[t] # File
  /\ \A f \in File : IF f \in done[t] THEN orig[f] = 0 /\ bin[f] # 0 ELSE orig[f] # 0
  /\ done[t] = {} => BinWhole

Back(t) ==
  /\ dir
  /\ \/ pc[t] = "move" /\ moves[t] = {} /\ done[t] = {} /\ Whole /\ \A f \in File : bin[f] = 0
     \/ /\ pc[t] = "move" => moves[t] = File \ done[t]
        /\ \A f \in File : IF f \in done[t] THEN orig[f] # 0 /\ bin[f] = 0
                                            ELSE orig[f] = 0 /\ bin[f] # 0

\* Thread t has written one of the two files.
Writing(t) == pc[t] = "txt" \/ (op[t] = "transcribe" /\ pc[t] = "json")

Halfway ==
  /\ manifest \in {{}, Torn, File}
  /\ (\A t \in Threads : pc[t] \notin {"move", "undo"} /\ ~Writing(t)) => Whole
  /\ (\A t \in Threads : pc[t] \notin {"move", "undo", "unlink"}) => BinWhole /\ BinRest
  /\ \A t \in Threads :
       /\ pc[t] \in {"manifest", "write"} \/ (pc[t] = "txt" /\ op[t] # "transcribe") => orig["json"] # 0
       /\ pc[t] = "json" /\ op[t] = "transcribe" => orig["txt"] # 0
       /\ pc[t] = "write" => moves[t] = File
       /\ pc[t] \in {"move", "undo"} => IF op[t] = "restore" THEN Back(t) ELSE Out(t)

Sound == ~mixed => Single /\ InManifest /\ (~crashed /\ ~stuck => Halfway)

IInv == TypeOK /\ Order /\ Numbered /\ Checked /\ Swept /\ Custody /\ Sound /\ VerifiedBeforeTrashed /\ NoFalseFailure

-----------------------------------------------------------------------------
(* Types. *)

LEMMA Typed ==
  ASSUME TypeOK
  PROVE  /\ DOMAIN orig = File /\ DOMAIN bin = File /\ DOMAIN core = Version
         /\ DOMAIN pc = Threads /\ DOMAIN op = Threads /\ DOMAIN moves = Threads
         /\ DOMAIN done = Threads /\ DOMAIN left = Threads /\ DOMAIN doc = Threads
         /\ DOMAIN sent = Threads
         /\ \A f \in File : orig[f] \in Nat /\ bin[f] \in Nat
         /\ \A t \in Threads : doc[t] \in Nat /\ sent[t] \in Nat
         /\ \A t \in Threads : moves[t] \subseteq File /\ done[t] \subseteq File
         /\ \A v \in Version : core[v] \in Nat
         /\ "json" \in File /\ "txt" \in File
         /\ synced \in Nat /\ hub \in Nat /\ versions \in Nat /\ versions >= 1 /\ current \in Nat
         /\ reached \subseteq Nat /\ archived \subseteq Nat
         /\ manifest # {} /\ manifest # Torn => "json" \in manifest
<1>1. MaxVersion \in Nat
  BY TrashAssumption
<1>2. \A v \in Version : v \in Nat
  BY <1>1 DEF Version
<1>3. versions \in Nat /\ versions >= 1
  BY <1>1 DEF TypeOK, PlacesType
<1>4. "json" \in File /\ "txt" \in File
  BY DEF File
<1>5. \A f \in File : orig[f] \in Nat /\ bin[f] \in Nat
  BY <1>2 DEF TypeOK, FilesType
<1>6. \A t \in Threads : doc[t] \in Nat /\ sent[t] \in Nat /\ moves[t] \subseteq File /\ done[t] \subseteq File
  BY <1>2 DEF TypeOK, ThreadType
<1>7. \A v \in Version : core[v] \in Nat
  BY <1>2 DEF TypeOK, PlacesType
<1>8. synced \in Nat /\ hub \in Nat /\ current \in Nat /\ reached \subseteq Nat /\ archived \subseteq Nat
  BY <1>2 DEF TypeOK, PlacesType, GhostType
<1>9. manifest # {} /\ manifest # Torn => "json" \in manifest
  BY <1>4 DEF TypeOK, FilesType
<1>10. /\ DOMAIN orig = File /\ DOMAIN bin = File /\ DOMAIN core = Version
       /\ DOMAIN pc = Threads /\ DOMAIN op = Threads /\ DOMAIN moves = Threads
       /\ DOMAIN done = Threads /\ DOMAIN left = Threads /\ DOMAIN doc = Threads
       /\ DOMAIN sent = Threads
  BY DEF TypeOK, FilesType, PlacesType, ThreadType
<1> QED
  BY <1>3, <1>4, <1>5, <1>6, <1>7, <1>8, <1>9, <1>10

LEMMA FirstLast ==
  ASSUME NEW fs \in SUBSET File, fs # {}
  PROVE  FirstOf(fs) \in fs /\ LastOf(fs) \in fs
BY DEF FirstOf, LastOf, File

\* Steps that leave the files, and steps that leave the hub and the row.
FileStep(t) ==
  \/ Mkdir(t) \/ Manifest(t) \/ WriteManifest(t) \/ Move(t) \/ Undo(t) \/ Rmdir(t)
  \/ (t \in Users /\ (WriteJson(t) \/ WriteTxt(t)))
  \/ \E e \in File \cup {"manifest"} : Unlink(t, e)

QuietStep(t) ==
  \/ t \in Users /\ (\E o \in Requests : Request(t, o))
  \/ t \in Users /\ (Lock(t) \/ Plan(t) \/ Upsert(t) \/ Record(t))
  \/ t \in Sweepers /\ \/ SweepBegin(t) \/ SweepLock(t) \/ Import(t) \/ Commit(t) \/ SweepPull(t)
                       \/ Verify(t) \/ Index(t)
  \/ Read(t) \/ WriteManifestFails(t) \/ MoveFails(t) \/ Moved(t) \/ UndoRefused(t)
  \/ Undone(t) \/ Settle(t) \/ List(t)
  \/ \E e \in File \cup {"manifest"} : UnlinkGone(t, e)

OtherStep == HubEdit \/ RuntimePull \/ Look \/ Listed \/ ListCopy \/ Prune \/ Crash

LEMMA Steps ==
  ASSUME [Next]_vars
  PROVE  UNCHANGED vars \/ OtherStep \/ \E t \in Threads : FileStep(t) \/ QuietStep(t)
BY DEF Next, FileStep, QuietStep, OtherStep, Threads

LEMMA QuietFrame ==
  ASSUME NEW t, QuietStep(t) \/ OtherStep \/ UNCHANGED vars
  PROVE  UNCHANGED files
BY DEF QuietStep, OtherStep, vars, Request, Lock, Plan, Upsert, Record, SweepBegin, SweepLock,
    Import, Commit, SweepPull, Verify, Index, Read, MoveFails, WriteManifestFails, Moved,
    UndoRefused, Undone, Settle, List, UnlinkGone, HubEdit, RuntimePull, Look, Listed, ListCopy,
    Prune, Crash

LEMMA FilesTypeStep ==
  ASSUME TypeOK, Order, [Next]_vars
  PROVE  FilesType'
<1>0. /\ orig \in [File -> Version] /\ bin \in [File -> Version] /\ manifest \in {{}, Torn, {"json"}, File}
      /\ dir \in BOOLEAN /\ versions \in Nat /\ MaxVersion \in Nat
      /\ "json" \in File /\ "txt" \in File /\ 0 \in Version /\ versions \in Version
      /\ \A u \in Threads : moves[u] \subseteq File /\ done[u] \subseteq File
  <2>1. MaxVersion \in Nat /\ versions \in 1..MaxVersion
    BY TrashAssumption DEF TypeOK, PlacesType
  <2>2. 0 \in Version /\ versions \in Version /\ versions \in Nat
    BY <2>1 DEF Version
  <2> QED
    BY <2>1, <2>2, Typed DEF TypeOK, FilesType
<1>1. ASSUME NEW f \in File, ToTrash(f) PROVE orig' \in [File -> Version] /\ bin' \in [File -> Version]
  BY <1>0, <1>1 DEF ToTrash
<1>2. ASSUME NEW f \in File, NEW t, ToOrigin(t, f)
      PROVE  orig' \in [File -> Version] /\ bin' \in [File -> Version]
  BY <1>0, <1>2 DEF ToOrigin
<1>3. ASSUME NEW t \in Threads, Mkdir(t) \/ Rmdir(t) PROVE FilesType'
  <2>1. dir' \in BOOLEAN
    BY <1>3 DEF Mkdir, Rmdir
  <2> QED
    BY <1>0, <1>3, <2>1 DEF Mkdir, Rmdir, FilesType
<1>4. ASSUME NEW t \in Threads, Manifest(t) PROVE FilesType'
  <2>1. manifest' \in {{}, Torn, {"json"}, File}
    BY <1>0, <1>4 DEF Manifest
  <2> QED
    BY <1>0, <1>4, <2>1 DEF Manifest, FilesType
<1>11. ASSUME NEW t \in Threads, WriteManifest(t) PROVE FilesType'
  <2>1. moves[t] \in {{"json"}, File}
    BY <1>11 DEF WriteManifest, Order, Filled
  <2>2. manifest' \in {{}, Torn, {"json"}, File}
    BY <1>0, <1>11, <2>1 DEF WriteManifest
  <2> QED
    BY <1>0, <1>11, <2>2 DEF WriteManifest, FilesType
<1>5. ASSUME NEW t \in Threads, Move(t) PROVE FilesType'
  <2>1. PICK f \in File : ToTrash(f) \/ ToOrigin(t, f)
    BY <1>0, <1>5, FirstLast DEF Move
  <2>2. orig' \in [File -> Version] /\ bin' \in [File -> Version]
    BY <1>1, <1>2, <2>1
  <2> QED
    BY <1>0, <1>5, <2>2 DEF Move, FilesType
<1>6. ASSUME NEW t \in Threads, Undo(t) PROVE FilesType'
  <2>1. (UNCHANGED <<orig, bin>>) \/ \E f \in File : ToTrash(f) \/ ToOrigin(t, f)
    <3>1. LastOf(done[t]) \in File
      BY <1>0, <1>6, FirstLast DEF Undo
    <3> QED
      BY <1>6, <3>1 DEF Undo
  <2>2. orig' \in [File -> Version] /\ bin' \in [File -> Version]
    BY <1>0, <1>1, <1>2, <2>1
  <2> QED
    BY <1>0, <1>6, <2>2 DEF Undo, FilesType
<1>7. ASSUME NEW t \in Threads, NEW e \in File \cup {"manifest"}, Unlink(t, e) PROVE FilesType'
  BY <1>0, <1>7 DEF Unlink, FilesType
<1>8. ASSUME NEW u \in Users, WriteJson(u) \/ WriteTxt(u) PROVE FilesType'
  <2>1. versions + 1 \in Version \/ WriteTxt(u)
    BY <1>0, <1>8 DEF WriteJson, Version
  <2>2. orig' \in [File -> Version]
    BY <1>0, <1>8, <2>1 DEF WriteJson, WriteTxt
  <2> QED
    BY <1>0, <1>8, <2>2 DEF WriteJson, WriteTxt, FilesType
<1>9. ASSUME UNCHANGED files PROVE FilesType'
  BY <1>0, <1>9 DEF files, FilesType
<1> QED
  BY <1>3, <1>4, <1>5, <1>6, <1>7, <1>8, <1>9, <1>11, Steps, QuietFrame DEF FileStep

\* What a step may do to the counters, the hub's copy and the synced one.
LEMMA PlacesFrame ==
  ASSUME [Next]_vars
  PROVE  /\ (UNCHANGED faults) \/ Fault
         /\ (UNCHANGED ops) \/ (ops < MaxOps /\ ops' = ops + 1)
         /\ (UNCHANGED versions) \/ (versions < MaxVersion /\ versions' = versions + 1)
         /\ (UNCHANGED core) \/ \E u \in Users : WriteJson(u)
         /\ \/ UNCHANGED hub \/ (\E s \in Threads : hub' = sent[s])
            \/ (versions < MaxVersion /\ hub' = versions + 1)
         /\ (UNCHANGED synced) \/ synced' = hub
         /\ (UNCHANGED row) \/ row' \in {"none", "orig", "synced"}
         /\ (UNCHANGED seen) \/ seen' \in BOOLEAN
BY ZenonT(60) DEF Next, vars, Enter, counts, places, Threads, Request, Lock, Plan, Upsert,
    Record, WriteJson, WriteTxt, SweepBegin, SweepLock, Import, Commit, HubImport, SweepPull,
    Verify, Index, Read, Mkdir, Manifest, WriteManifest, Move, MoveFails, WriteManifestFails,
    Moved, Undo, UndoRefused, Undone, Settle, List, Rmdir, Unlink, UnlinkGone, HubEdit,
    RuntimePull, Look, Listed, ListCopy, Prune, Crash

LEMMA PlacesTypeStep ==
  ASSUME TypeOK, [Next]_vars
  PROVE  PlacesType'
<1>0. /\ MaxVersion \in Nat /\ MaxOps \in Nat /\ MaxFaults \in Nat
      /\ versions \in 1..MaxVersion /\ ops \in 0..MaxOps /\ faults \in 0..MaxFaults
      /\ core \in [Version -> Version] /\ synced \in Version /\ hub \in Version
      /\ row \in {"none", "orig", "synced"} /\ seen \in BOOLEAN
      /\ doc \in [Threads -> Version] /\ sent \in [Threads -> Version]
  BY TrashAssumption DEF TypeOK, PlacesType, ThreadType
<1>1. faults' \in 0..MaxFaults
  BY <1>0, PlacesFrame DEF Fault
<1>2. ops' \in 0..MaxOps
  BY <1>0, PlacesFrame
<1>3. versions' \in 1..MaxVersion
  BY <1>0, PlacesFrame
<1>4. core' \in [Version -> Version]
  <2>1. ASSUME NEW u \in Users, WriteJson(u) PROVE core' \in [Version -> Version]
    <3>1. versions + 1 \in Version /\ core[doc[u]] \in Version
      BY <1>0, <2>1 DEF WriteJson, Version, Threads
    <3>2. PICK c \in {versions + 1, core[doc[u]]} : core' = [core EXCEPT ![versions + 1] = c]
      BY <2>1 DEF WriteJson
    <3> QED
      BY <1>0, <3>1, <3>2
  <2> QED
    BY <1>0, <2>1, PlacesFrame
<1>5. hub' \in Version
  <2>1. versions < MaxVersion => versions + 1 \in Version
    BY <1>0 DEF Version
  <2> QED
    BY <1>0, <2>1, PlacesFrame
<1>6. synced' \in Version
  BY <1>0, PlacesFrame
<1>7. row' \in {"none", "orig", "synced"}
  BY <1>0, PlacesFrame
<1>8. seen' \in BOOLEAN
  BY <1>0, PlacesFrame
<1> QED
  BY <1>1, <1>2, <1>3, <1>4, <1>5, <1>6, <1>7, <1>8 DEF PlacesType

\* A thread leaves the locals of the others and the locks that others hold.
LEMMA OthersKept ==
  ASSUME TypeOK, NEW t \in Threads, FileStep(t) \/ QuietStep(t)
  PROVE  /\ \A u \in Threads \ {t} :
              /\ pc'[u] = pc[u] /\ op'[u] = op[u] /\ moves'[u] = moves[u] /\ done'[u] = done[u]
              /\ left'[u] = left[u] /\ doc'[u] = doc[u] /\ sent'[u] = sent[u]
         /\ lock' = lock \/ (lock = None /\ lock' = t) \/ (lock = t /\ lock' = None)
         /\ \/ sweepLock' = sweepLock \/ (sweepLock = None /\ sweepLock' = t)
            \/ (sweepLock = t /\ sweepLock' = None)
<1>0. /\ DOMAIN pc = Threads /\ DOMAIN op = Threads /\ DOMAIN moves = Threads
      /\ DOMAIN done = Threads /\ DOMAIN left = Threads /\ DOMAIN doc = Threads
      /\ DOMAIN sent = Threads
  BY Typed
<1>1. CASE FileStep(t)
  BY <1>0, <1>1 DEF FileStep, Mkdir, Manifest, WriteManifest, Move, Undo, Rmdir, WriteJson,
      WriteTxt, Unlink, Goto, Return, locks
<1>2. CASE QuietStep(t)
  BY <1>0, <1>2 DEF QuietStep, Request, Lock, Plan, Upsert, Record, SweepBegin, SweepLock,
      Import, Commit, SweepPull, Verify, Index, Read, MoveFails, WriteManifestFails, Moved,
      UndoRefused, Undone, Settle, List, UnlinkGone, Goto, Return, locks
<1> QED
  BY <1>1, <1>2

LEMMA OrderStep ==
  ASSUME TypeOK, Order, [Next]_vars
  PROVE  Order'
<1>0. /\ DOMAIN pc = Threads /\ DOMAIN op = Threads /\ DOMAIN done = Threads /\ DOMAIN moves = Threads
      /\ None \notin Threads /\ Users \cap Sweepers = {}
      /\ Requests \subseteq {"delete", "restore", "purge", "empty", "patch", "transcribe"}
  BY Typed, TrashAssumption DEF Threads
<1> DEFINE Own(t) == Program(t)' /\ Locked(t)' /\ Unmoved(t)' /\ Filled(t)'
<1>1. ASSUME NEW t \in Threads, FileStep(t) \/ QuietStep(t), Own(t) PROVE Order'
  <2>1. ASSUME NEW u \in Threads \ {t} PROVE Own(u)
    <3>1. /\ Program(u) /\ Locked(u) /\ Unmoved(u) /\ Filled(u) /\ u # None
          /\ pc'[u] = pc[u] /\ done'[u] = done[u] /\ op'[u] = op[u] /\ moves'[u] = moves[u]
          /\ lock = u => lock' = u
          /\ sweepLock = u => sweepLock' = u
      BY <1>0, <1>1, OthersKept DEF Order
    <3> QED
      BY <3>1 DEF Program, Locked, Unmoved, Filled
  <2> QED
    BY <1>1, <2>1 DEF Order
<1>2. ASSUME NEW t \in Threads, Return(t) PROVE Own(t)
  BY <1>0, <1>2 DEF Return, Program, Locked, Unmoved, Filled
<1>3. ASSUME NEW t \in Threads, FileStep(t) PROVE Own(t)
  <2>1. Program(t) /\ Locked(t) /\ Unmoved(t) /\ Filled(t)
    BY DEF Order
  <2>2. CASE Manifest(t)
    <3>1. {"json"} \cup {f \in File : orig[f] # 0} \in {{"json"}, File}
      BY DEF File
    <3>2. /\ pc'[t] = "undo" \/ (pc'[t] = "write" /\ moves'[t] \in {{"json"}, File})
          /\ op'[t] = op[t] /\ done'[t] = done[t] /\ UNCHANGED <<lock, sweepLock>> /\ pc[t] = "manifest"
      BY <1>0, <2>2, <3>1 DEF Manifest, Goto, locks
    <3> QED
      BY <2>1, <3>2 DEF Program, Locked, Unmoved, Filled
  <2>3. CASE Mkdir(t) \/ WriteManifest(t) \/ Move(t) \/ Undo(t)
    BY <1>0, <2>1, <2>3 DEF Mkdir, WriteManifest, Move, Undo, Goto, locks, Program, Locked,
        Unmoved, Filled
  <2>4. CASE Rmdir(t) \/ \E e \in File \cup {"manifest"} : Unlink(t, e)
    BY <1>0, <1>2, <2>1, <2>4 DEF Rmdir, Unlink, Goto, locks, Program, Locked, Unmoved, Filled
  <2>5. CASE t \in Users /\ (WriteJson(t) \/ WriteTxt(t))
    BY <1>0, <2>1, <2>5 DEF WriteJson, WriteTxt, Goto, locks, Program, Locked, Unmoved, Filled
  <2> HIDE DEF Own
  <2> QED
    BY <1>3, <2>2, <2>3, <2>4, <2>5 DEF FileStep
<1>4. ASSUME NEW t \in Threads, QuietStep(t) PROVE Own(t)
  <2>1. Program(t) /\ Locked(t) /\ Unmoved(t) /\ Filled(t)
    BY DEF Order
  <2>2. ASSUME Lock(t), t \in Users PROVE Own(t)
    <3>1. /\ op[t] \in {"delete", "restore", "purge", "patch"}
          /\ FirstStep["delete"] = "mkdir" /\ FirstStep["restore"] = "plan"
          /\ FirstStep["purge"] = "plan" /\ FirstStep["patch"] = "read"
      BY <1>0, <2>1, <2>2 DEF Lock, Program, FirstStep
    <3>2. pc'[t] = FirstStep[op[t]] /\ op'[t] = op[t] /\ lock' = t /\ done'[t] = {}
      BY <1>0, <2>1, <2>2 DEF Lock, Goto, Unmoved
    <3> QED
      BY <2>2, <3>1, <3>2 DEF Program, Locked, Unmoved, Filled
  <2>3. ASSUME NEW o \in Requests, Request(t, o), t \in Users PROVE Own(t)
    BY <1>0, <2>1, <2>3 DEF Request, Goto, Program, Locked, Unmoved, Filled
  <2>4. ASSUME Plan(t) \/ Upsert(t) \/ Record(t), t \in Users PROVE Own(t)
    BY <1>0, <1>2, <2>1, <2>4 DEF Plan, Upsert, Record, Goto, locks, Program, Locked, Unmoved,
        Filled
  <2>5. ASSUME t \in Sweepers, SweepBegin(t) \/ SweepLock(t)
        PROVE  Own(t)
    BY <1>0, <1>2, <2>1, <2>5 DEF SweepBegin, SweepLock, Goto, locks, Program, Locked, Unmoved, Filled
  <2>9. ASSUME t \in Sweepers, Import(t) \/ Commit(t) \/ SweepPull(t) \/ Verify(t) \/ Index(t)
        PROVE  Own(t)
    <3>1. \/ Return(t)
          \/ /\ op'[t] = op[t] /\ done'[t] = done[t] /\ UNCHANGED <<lock, sweepLock>>
             /\ pc[t] \in {"import", "commit", "pull", "verify", "index"}
             /\ pc'[t] \in {"commit", "pull", "verify", "index", "mkdir"}
      BY <1>0, <2>9 DEF Import, Commit, SweepPull, Verify, Index, Goto, locks
    <3> QED
      BY <1>0, <1>2, <2>1, <2>9, <3>1 DEF Program, Locked, Unmoved, Filled
  <2>6. ASSUME WriteManifestFails(t) \/ MoveFails(t) \/ Moved(t) \/ UndoRefused(t)
        PROVE  Own(t)
    BY <1>0, <2>1, <2>6 DEF MoveFails, WriteManifestFails, Moved, UndoRefused, Goto, locks,
                            Program, Locked, Unmoved, Filled
  <2>8. ASSUME Read(t) \/ Undone(t) \/ Settle(t) \/ List(t)
        PROVE  Own(t)
    <3>1. \/ Return(t)
          \/ /\ op'[t] = op[t] /\ done'[t] = done[t] /\ UNCHANGED <<lock, sweepLock>>
             /\ \/ pc[t] = "read" /\ pc'[t] = IF op[t] = "sweep" THEN "import" ELSE "json"
                \/ pc[t] = "undo" /\ pc'[t] = "settle" /\ op[t] = "sweep"
                \/ pc[t] = "list" /\ pc'[t] = "unlink"
      BY <1>0, <2>8 DEF Read, Undone, Settle, List, Goto, locks
    <3> QED
      BY <1>0, <1>2, <2>1, <2>8, <3>1 DEF Program, Locked, Unmoved, Filled
  <2>7. ASSUME NEW e \in File \cup {"manifest"}, UnlinkGone(t, e) PROVE Own(t)
    BY <1>0, <1>2, <2>1, <2>7 DEF UnlinkGone, locks, Program, Locked, Unmoved, Filled
  <2> HIDE DEF Own
  <2> QED
    BY <1>4, <2>2, <2>3, <2>4, <2>5, <2>6, <2>7, <2>8, <2>9 DEF QuietStep
<1>5. ASSUME UNCHANGED vars \/ OtherStep PROVE Order'
  <2>1. CASE Crash
    BY <2>1 DEF Crash, Order, Program, Locked, Unmoved, Filled
  <2>2. CASE UNCHANGED <<locks, thread>>
    BY <2>2 DEF locks, thread, Order, Program, Locked, Unmoved, Filled
  <2> QED
    BY <1>5, <2>1, <2>2 DEF OtherStep, vars, HubEdit, RuntimePull, Look, Listed, ListCopy, Prune
<1> HIDE DEF Own
<1> QED
  BY <1>1, <1>3, <1>4, <1>5, Steps

LEMMA ThreadTypeStep ==
  ASSUME TypeOK, Order, [Next]_vars
  PROVE  ThreadType'
<1>0. /\ Requests \subseteq {"delete", "restore", "purge", "empty", "patch", "transcribe"}
      /\ FilesType /\ ThreadType /\ 0 \in Version
      /\ \A f \in File : orig[f] \in Version
      /\ Entries \subseteq File \cup {"manifest"} /\ Restorable \subseteq File
  BY Typed, TrashAssumption DEF TypeOK, FilesType, Version, Entries, Restorable
<1>1. ASSUME NEW t \in Threads, Return(t) PROVE ThreadType'
  BY <1>0, <1>1 DEF Return, ThreadType
<1>2. ASSUME NEW t \in Threads, FileStep(t) PROVE ThreadType'
  <2>1. CASE Mkdir(t) \/ Rmdir(t) \/ (t \in Users /\ (WriteJson(t) \/ WriteTxt(t)))
    BY <1>0, <1>1, <2>1 DEF Mkdir, Rmdir, WriteJson, WriteTxt, Goto, locks, ThreadType
  <2>2. CASE Manifest(t)
    <3>1. {"json"} \cup {f \in File : orig[f] # 0} \subseteq File
      BY DEF File
    <3>2. /\ moves' = moves \/ moves' = [moves EXCEPT ![t] = {"json"} \cup {f \in File : orig[f] # 0}]
          /\ UNCHANGED <<lock, sweepLock, op, done, left, doc, sent>>
          /\ pc' = [pc EXCEPT ![t] = "write"] \/ pc' = [pc EXCEPT ![t] = "undo"]
      BY <2>2 DEF Manifest, Goto, locks
    <3> QED
      BY <1>0, <3>1, <3>2 DEF ThreadType
  <2>3. CASE Move(t) \/ Undo(t)
    <3>1. moves[t] \subseteq File /\ done[t] \subseteq File
      BY <1>0 DEF ThreadType
    <3>2. FirstOf(moves[t]) \in File \/ Undo(t)
      BY <2>3, <3>1, FirstLast DEF Move
    <3> QED
      BY <1>0, <2>3, <3>1, <3>2 DEF Move, Undo, locks, ThreadType
  <2>4. CASE \E e \in File \cup {"manifest"} : Unlink(t, e)
    BY <1>0, <2>4 DEF Unlink, locks, ThreadType
  <2>5. CASE WriteManifest(t)
    BY <1>0, <2>5 DEF WriteManifest, Goto, locks, ThreadType
  <2> QED
    BY <1>2, <2>1, <2>2, <2>3, <2>4, <2>5 DEF FileStep
<1>3. ASSUME NEW t \in Threads, QuietStep(t) PROVE ThreadType'
  <2>1. Program(t)
    BY DEF Order
  <2>2. CASE t \in Users /\ Lock(t)
    <3>1. FirstStep[op[t]] \in {"mkdir", "plan", "read"}
      <4>1. op[t] \in {"delete", "restore", "purge", "patch"}
        BY <2>1, <2>2, TrashAssumption DEF Lock, Program
      <4>2. /\ FirstStep["delete"] = "mkdir" /\ FirstStep["restore"] = "plan"
            /\ FirstStep["purge"] = "plan" /\ FirstStep["patch"] = "read"
        BY DEF FirstStep
      <4> QED
        BY <4>1, <4>2
    <3> QED
      BY <1>0, <2>2, <3>1 DEF Lock, Goto, ThreadType
  <2>3. CASE t \in Users /\ \E o \in Requests : Request(t, o)
    BY <1>0, <2>3 DEF Request, Goto, locks, ThreadType
  <2>4. CASE t \in Users /\ (Plan(t) \/ Upsert(t) \/ Record(t))
    <3>1. (IF op[t] = "restore" THEN Restorable ELSE {}) \in SUBSET File
      BY <1>0
    <3>2. ASSUME Plan(t), ~Return(t) PROVE ThreadType'
      <4>1. /\ moves' = [moves EXCEPT ![t] = IF op[t] = "restore" THEN Restorable ELSE {}]
            /\ UNCHANGED <<lock, sweepLock, op, done, left, doc, sent>>
            /\ pc' = [pc EXCEPT ![t] = "move"] \/ pc' = [pc EXCEPT ![t] = "list"]
        BY <3>2 DEF Plan, Goto, locks
      <4> QED
        BY <1>0, <3>1, <4>1 DEF ThreadType
    <3>3. ASSUME Upsert(t), ~Return(t) PROVE ThreadType'
      BY <1>0, <3>3 DEF Upsert, Goto, locks, ThreadType
    <3> QED
      BY <1>1, <2>4, <3>2, <3>3 DEF Record
  <2>5. CASE t \in Sweepers /\ \/ SweepBegin(t) \/ SweepLock(t) \/ Import(t) \/ Commit(t)
                                \/ SweepPull(t) \/ Verify(t) \/ Index(t)
    <3>1. orig["json"] \in Version
      BY <1>0, Typed
    <3>2. ASSUME ~Return(t) PROVE ThreadType'
      <4>1. /\ UNCHANGED <<lock, moves, done, left, doc>>
            /\ op' = op \/ op' = [op EXCEPT ![t] = "sweep"]
            /\ sent' = sent \/ sent' = [sent EXCEPT ![t] = orig["json"]]
            /\ sweepLock' = sweepLock \/ sweepLock' = t
            /\ \E s \in {"lock", "read", "commit", "pull", "verify", "index", "mkdir"} :
                  pc' = [pc EXCEPT ![t] = s]
        BY <2>5, <3>2 DEF SweepBegin, SweepLock, Import, Commit, SweepPull, Verify, Index, Goto,
            locks
      <4> QED
        BY <1>0, <2>5, <3>1, <4>1 DEF ThreadType
    <3> QED
      BY <1>1, <3>2
  <2>6. CASE \/ Read(t) \/ WriteManifestFails(t) \/ MoveFails(t) \/ Moved(t)
             \/ Undone(t) \/ Settle(t) \/ List(t)
    <3>1. orig["json"] \in Version
      BY <1>0, Typed
    <3>2. ASSUME ~Return(t) PROVE ThreadType'
      <4>1. /\ UNCHANGED <<lock, sweepLock, op, done, sent>>
            /\ doc' = doc \/ doc' = [doc EXCEPT ![t] = orig["json"]]
            /\ left' = left \/ left' = [left EXCEPT ![t] = Entries]
            /\ moves' = moves \/ moves' = [moves EXCEPT ![t] = {}]
            /\ \E s \in {"import", "json", "undo", "list", "settle", "unlink"} :
                  pc' = [pc EXCEPT ![t] = s]
        BY <2>6, <3>2 DEF Read, MoveFails, WriteManifestFails, Moved, UndoRefused, Undone,
            Settle, List, Goto, locks
      <4> QED
        BY <1>0, <3>1, <4>1 DEF ThreadType
    <3> QED
      BY <1>1, <3>2
  <2>7. CASE \E e \in File \cup {"manifest"} : UnlinkGone(t, e)
    BY <1>0, <1>1, <2>7 DEF UnlinkGone, locks, ThreadType
  <2>8. CASE UndoRefused(t)
    BY <1>0, <2>8 DEF UndoRefused, locks, ThreadType
  <2> QED
    BY <1>3, <2>2, <2>3, <2>4, <2>5, <2>6, <2>7, <2>8 DEF QuietStep
<1>4. ASSUME UNCHANGED vars \/ OtherStep PROVE ThreadType'
  <2>1. CASE Crash
    BY <1>0, <2>1 DEF Crash, ThreadType
  <2>2. CASE UNCHANGED <<locks, thread>>
    BY <1>0, <2>2 DEF locks, thread, ThreadType
  <2> QED
    BY <1>4, <2>1, <2>2 DEF OtherStep, vars, HubEdit, RuntimePull, Look, Listed, ListCopy, Prune
<1> QED
  BY <1>2, <1>3, <1>4, Steps

LEMMA EnterNotes ==
  ASSUME Enter
  PROVE  (overtaken => overtaken') /\ overtaken' \in BOOLEAN
<1>1. overtaken' = (overtaken \/ (/\ row' = "orig" /\ orig["json"] = 0
                                 /\ \A s \in Sweepers : pc[s] \notin {"move", "undo", "settle"}))
  BY DEF Enter
<1> QED
  BY <1>1

\* What a step may do to the record of the run.
LEMMA GhostFrame ==
  ASSUME [Next]_vars
  PROVE  /\ reached' = reached \/ reached' = reached \cup {hub'}
         /\ late' = late \/ (\E f \in File : late' = late \cup {bin[f]}) \/ late' = late \cup {versions'}
         /\ archived' = archived \/ archived' = archived \cup {orig["json"]}
         /\ gone' = gone \/ \E f \in File : gone' = gone \cup {bin[f]}
         /\ current' = current \/ current' = versions'
         /\ mixed' = mixed \/ mixed' \in BOOLEAN
         /\ crashed' = crashed \/ crashed' = TRUE
         /\ trashed' = trashed \/ trashed' \in BOOLEAN
         /\ stuck' = stuck \/ stuck' = TRUE
         /\ (overtaken => overtaken') /\ (overtaken' = overtaken \/ overtaken' \in BOOLEAN)
<1>1. ASSUME UNCHANGED vars \/ OtherStep
      PROVE  /\ reached' = reached \/ reached' = reached \cup {hub'}
             /\ UNCHANGED <<late, archived, gone, current, trashed, stuck>>
             /\ mixed' = mixed \/ mixed' \in BOOLEAN
             /\ crashed' = crashed \/ crashed' = TRUE
             /\ (UNCHANGED overtaken) \/ Enter
  BY <1>1 DEF OtherStep, vars, ghosts, marks, HubEdit, RuntimePull, Look, Listed, ListCopy,
      Prune, Crash
<1>2. ASSUME NEW t \in Threads, FileStep(t)
      PROVE  \/ late' = late \/ (\E f \in File : late' = late \cup {bin[f]})
             \/ late' = late \cup {versions'}
  <2>1. "json" \in File
    BY DEF File
  <2> QED
    BY <1>2, <2>1 DEF FileStep, Mkdir, Manifest, WriteManifest, Move, Undo, Rmdir, WriteJson,
        WriteTxt, Unlink, ToOrigin, Placed, ghosts, marks
<1>3. ASSUME NEW t \in Threads, FileStep(t)
      PROVE  /\ reached' = reached
             /\ archived' = archived \/ archived' = archived \cup {orig["json"]}
             /\ gone' = gone \/ \E f \in File : gone' = gone \cup {bin[f]}
             /\ current' = current \/ current' = versions'
             /\ mixed' = mixed \/ mixed' \in BOOLEAN
             /\ UNCHANGED marks
  <2>1. "json" \in File
    BY DEF File
  <2> QED
    BY <1>3, <2>1 DEF marks, FileStep, Mkdir, Manifest, WriteManifest, Move, Undo, Rmdir,
        WriteJson, WriteTxt, Unlink, Goto, ghosts, marks
<1>4. ASSUME NEW t \in Threads, QuietStep(t)
      PROVE  /\ reached' = reached \/ reached' = reached \cup {hub'}
             /\ UNCHANGED <<late, archived, gone, current, crashed>>
             /\ mixed' = mixed \/ mixed' \in BOOLEAN
             /\ trashed' = trashed \/ trashed' \in BOOLEAN
             /\ stuck' = stuck \/ stuck' = TRUE
             /\ (UNCHANGED overtaken) \/ Enter
  BY <1>4 DEF QuietStep, Request, Lock, Plan, Upsert, Record, SweepBegin, SweepLock, Import,
      Commit, HubImport, SweepPull, Verify, Index, Read, MoveFails, WriteManifestFails, Moved,
      UndoRefused, Undone, Settle, List, UnlinkGone, Goto, ghosts, marks
<1>5. (overtaken => overtaken') /\ (overtaken' = overtaken \/ overtaken' \in BOOLEAN)
  <2>1. (UNCHANGED overtaken) \/ Enter
    BY <1>1, <1>3, <1>4, Steps DEF marks
  <2> QED
    BY <2>1, EnterNotes
<1>6. /\ crashed' = crashed \/ crashed' = TRUE
      /\ trashed' = trashed \/ trashed' \in BOOLEAN
      /\ stuck' = stuck \/ stuck' = TRUE
      /\ mixed' = mixed \/ mixed' \in BOOLEAN
  BY <1>1, <1>3, <1>4, Steps DEF marks
<1> QED
  BY <1>1, <1>2, <1>3, <1>4, <1>5, <1>6, Steps

LEMMA GhostTypeStep ==
  ASSUME TypeOK, [Next]_vars
  PROVE  GhostType'
<1>1. /\ GhostType /\ \A f \in File : orig[f] \in Version /\ bin[f] \in Version
      /\ "json" \in File
  BY Typed DEF TypeOK, FilesType
<1>2. hub' \in Version /\ versions' \in Version
  <2>1. PlacesType' /\ MaxVersion \in Nat
    BY PlacesTypeStep, TrashAssumption
  <2> QED
    BY <2>1 DEF PlacesType, Version
<1>3. /\ mixed' \in BOOLEAN /\ crashed' \in BOOLEAN /\ trashed' \in BOOLEAN
      /\ stuck' \in BOOLEAN /\ overtaken' \in BOOLEAN
  BY <1>1, GhostFrame DEF GhostType
<1>4. /\ reached' \subseteq Version /\ late' \subseteq Version /\ archived' \subseteq Version
      /\ gone' \subseteq Version /\ current' \in Version
  BY <1>1, <1>2, GhostFrame DEF GhostType
<1> QED
  BY <1>3, <1>4 DEF GhostType

-----------------------------------------------------------------------------
(* What the sweeps verify. *)

\* Where versions come from.
LEMMA FilesFrame ==
  ASSUME TypeOK, [Next]_vars
  PROVE  /\ orig'["json"] \in {0, orig["json"], bin["json"], versions'}
         /\ bin'["json"] \in {0, bin["json"], orig["json"]}
<1>0. DOMAIN orig = File /\ DOMAIN bin = File /\ "json" \in File /\ "txt" \in File
      /\ \A u \in Threads : moves[u] \subseteq File /\ done[u] \subseteq File
  BY Typed
<1>1. ASSUME NEW t \in Threads, FileStep(t)
      PROVE  /\ orig'["json"] \in {0, orig["json"], bin["json"], versions'}
             /\ bin'["json"] \in {0, bin["json"], orig["json"]}
  BY <1>0, <1>1 DEF FileStep, Mkdir, Manifest, WriteManifest, Move, Undo, Rmdir, WriteJson,
      WriteTxt, Unlink, ToTrash, ToOrigin, files
<1> QED
  BY <1>1, Steps, QuietFrame DEF files

LEMMA ReadFrame ==
  ASSUME TypeOK, [Next]_vars
  PROVE  \A u \in Threads : /\ doc'[u] \in {0, doc[u], orig["json"]}
                            /\ sent'[u] \in {0, sent[u], orig["json"]}
<1>0. DOMAIN doc = Threads /\ DOMAIN sent = Threads
  BY Typed
<1>1. ASSUME NEW t \in Threads, FileStep(t) \/ QuietStep(t)
      PROVE  /\ doc'[t] \in {0, doc[t], orig["json"]}
             /\ sent'[t] \in {0, sent[t], orig["json"]}
  <2>1. CASE FileStep(t)
    BY <1>0, <2>1 DEF FileStep, Mkdir, Manifest, WriteManifest, Move, Undo, Rmdir, WriteJson,
        WriteTxt, Unlink, Return
  <2>2. CASE QuietStep(t)
    BY <1>0, <2>2 DEF QuietStep, Request, Lock, Plan, Upsert, Record, SweepBegin, SweepLock,
        Import, Commit, SweepPull, Verify, Index, Read, MoveFails, WriteManifestFails, Moved,
        UndoRefused, Undone, Settle, List, UnlinkGone, Return
  <2> QED
    BY <1>1, <2>1, <2>2
<1>2. ASSUME UNCHANGED vars \/ OtherStep, NEW t \in Threads
      PROVE  doc'[t] \in {0, doc[t]} /\ sent'[t] \in {0, sent[t]}
  BY <1>2 DEF OtherStep, vars, thread, HubEdit, RuntimePull, Look, Listed, ListCopy, Prune, Crash
<1> QED
  BY <1>1, <1>2, Steps, OthersKept

\* A version has its segments, speakers and title for good.
LEMMA CoreKept ==
  ASSUME TypeOK, [Next]_vars
  PROVE  /\ \A v \in Nat : v <= versions => core'[v] = core[v]
         /\ versions \in Nat /\ versions' \in Nat /\ versions <= versions'
<1>1. versions \in Nat /\ versions' \in Nat /\ versions <= versions'
  BY Typed, PlacesFrame
<1>2. ASSUME NEW u \in Users, WriteJson(u), NEW v \in Nat, v <= versions PROVE core'[v] = core[v]
  <2>1. PICK c : core' = [core EXCEPT ![versions + 1] = c]
    BY <1>2 DEF WriteJson
  <2>2. v # versions + 1 /\ v \in DOMAIN core
    <3>1. versions \in 1..MaxVersion /\ MaxVersion \in Nat /\ DOMAIN core = 0..MaxVersion
      BY Typed, TrashAssumption DEF TypeOK, PlacesType, Version
    <3> QED
      BY <1>2, <3>1
  <2> QED
    BY <2>1, <2>2
<1> QED
  BY <1>1, <1>2, PlacesFrame

LEMMA NumberedStep ==
  ASSUME TypeOK, Numbered, [Next]_vars
  PROVE  Numbered'
<1>0. /\ versions \in Nat /\ versions' \in Nat /\ versions <= versions'
      /\ orig["json"] \in Nat /\ bin["json"] \in Nat /\ synced \in Nat /\ hub \in Nat
      /\ reached \subseteq Nat /\ archived \subseteq Nat
      /\ \A t \in Threads : doc[t] \in Nat /\ sent[t] \in Nat
  BY Typed, CoreKept
<1>1. /\ orig["json"] <= versions' /\ bin["json"] <= versions' /\ synced <= versions'
      /\ hub <= versions' /\ 0 <= versions' /\ versions' <= versions'
      /\ \A v \in reached \cup archived : v <= versions'
      /\ \A t \in Threads : doc[t] <= versions' /\ sent[t] <= versions'
  BY <1>0 DEF Numbered
<1>2. \A t \in Threads : doc'[t] <= versions' /\ sent'[t] <= versions'
  BY <1>1, ReadFrame
<1>3. orig'["json"] <= versions' /\ bin'["json"] <= versions'
  BY <1>1, FilesFrame
<1>4. hub' <= versions' /\ synced' <= versions'
  <2>1. (UNCHANGED hub) \/ (\E s \in Threads : hub' = sent[s]) \/ hub' = versions'
    BY ZenonT(60) DEF Next, vars, places, Threads, Request, Lock, Plan, Upsert, Record,
        WriteJson, WriteTxt, SweepBegin, SweepLock, Import, Commit, HubImport, SweepPull,
        Verify, Index, Read, Mkdir, Manifest, WriteManifest, Move, MoveFails,
        WriteManifestFails, Moved, Undo, UndoRefused, Undone, Settle, List, Rmdir, Unlink,
        UnlinkGone, HubEdit, RuntimePull, Look, Listed, ListCopy, Prune, Crash
  <2> QED
    BY <1>1, <2>1, PlacesFrame
<1>5. \A v \in reached' \cup archived' : v <= versions'
  BY <1>1, <1>4, GhostFrame
<1>6. (hub' # 0 => hub' \in reached') /\ (synced' # 0 => synced' \in reached')
  <2>1. (UNCHANGED hub) \/ hub' \in reached'
    BY ZenonT(60) DEF Next, vars, places, Request, Lock, Plan, Upsert, Record, WriteJson,
        WriteTxt, SweepBegin, SweepLock, Import, Commit, HubImport, SweepPull, Verify, Index,
        Read, Mkdir, Manifest, WriteManifest, Move, MoveFails, WriteManifestFails, Moved, Undo,
        UndoRefused, Undone, Settle, List, Rmdir, Unlink, UnlinkGone, HubEdit, RuntimePull,
        Look, Listed, ListCopy, Prune, Crash
  <2>2. reached \subseteq reached'
    BY GhostFrame
  <2> QED
    BY <2>1, <2>2, PlacesFrame DEF Numbered
<1> QED
  BY <1>2, <1>3, <1>4, <1>5, <1>6 DEF Numbered

\* The original is replaced by nobody but WriteJson and a rename, which note it.
LEMMA JsonPlaced ==
  ASSUME TypeOK, NEW t \in Threads, FileStep(t)
  PROVE  /\ orig'["json"] \in {0, orig["json"]} \/ Placed(t, orig'["json"])
         /\ late \subseteq late'
<1>0. DOMAIN orig = File /\ DOMAIN bin = File /\ "json" \in File /\ "txt" \in File
      /\ \A u \in Threads : moves[u] \subseteq File /\ done[u] \subseteq File
  BY Typed
<1>1. late \subseteq late'
  BY DEF FileStep, Mkdir, Manifest, WriteManifest, Move, Undo, Rmdir, WriteJson, WriteTxt,
      Unlink, ToOrigin, Placed
<1>2. CASE Move(t) \/ Undo(t)
  BY <1>0, <1>1, <1>2 DEF Move, Undo, ToTrash, ToOrigin
<1>3. CASE Mkdir(t) \/ Manifest(t) \/ WriteManifest(t) \/ Rmdir(t) \/ \E e \in File \cup {"manifest"} : Unlink(t, e)
  BY <1>1, <1>3 DEF Mkdir, Manifest, WriteManifest, Rmdir, Unlink
<1>4. CASE WriteJson(t) \/ WriteTxt(t)
  BY <1>0, <1>1, <1>4 DEF WriteJson, WriteTxt
<1> QED
  BY <1>2, <1>3, <1>4 DEF FileStep

LEMMA CheckedStep ==
  ASSUME TypeOK, Order, Numbered, Checked, [Next]_vars
  PROVE  Checked'
<1>0. /\ DOMAIN pc = Threads /\ DOMAIN op = Threads /\ DOMAIN doc = Threads
      /\ DOMAIN orig = File /\ "json" \in File
      /\ \A u \in Threads : doc[u] \in Nat
      /\ reached \subseteq Nat /\ synced \in Nat
  BY Typed
<1>1. /\ late \subseteq late' /\ reached \subseteq reached'
      /\ \A v \in Nat : v <= versions => core'[v] = core[v]
  BY CoreKept, GhostFrame
<1> DEFINE First(u) == op'[u] = "sweep" /\ pc'[u] \in {"import", "commit", "pull", "verify", "index",
                            "mkdir", "manifest", "write", "move"} => orig'["json"] \in {0, doc'[u]} \cup late'
           Second(u) == op'[u] = "sweep" /\ pc'[u] \in {"index", "mkdir", "manifest", "write", "move"} =>
                            \E w \in reached' : core'[w] = core'[doc'[u]]
\* The version read and its like on the hub stay what they were.
<1>2. ASSUME NEW u \in Threads, doc'[u] = doc[u], op[u] = "sweep",
             pc[u] \in {"index", "mkdir", "manifest", "write", "move"}
      PROVE  Second(u)
  <2>1. PICK w \in reached : core[w] = core[doc[u]]
    BY <1>2 DEF Checked
  <2>2. w <= versions /\ doc[u] <= versions /\ w \in Nat
    BY <1>0 DEF Numbered
  <2> QED
    BY <1>0, <1>1, <1>2, <2>1, <2>2
<1>3. ASSUME NEW u \in Threads, NEW t \in Threads \ {u}, FileStep(t) \/ QuietStep(t)
      PROVE  First(u) /\ Second(u)
  <2>1. pc'[u] = pc[u] /\ op'[u] = op[u] /\ doc'[u] = doc[u]
    BY <1>3, OthersKept
  <2>2. First(u)
    <3>1. CASE QuietStep(t)
      BY <1>1, <2>1, <3>1, QuietFrame DEF files, Checked
    <3>2. CASE FileStep(t)
      BY <1>1, <1>3, <2>1, <3>2, JsonPlaced DEF Checked, Placed, Busy
    <3> QED
      BY <1>3, <3>1, <3>2
  <2> QED
    BY <1>2, <2>1, <2>2
<1>4. ASSUME NEW t \in Threads, FileStep(t) PROVE First(t) /\ Second(t)
  <2>1. Program(t)
    BY DEF Order
  <2>2. CASE Mkdir(t) \/ Manifest(t) \/ WriteManifest(t)
    <3>1. /\ UNCHANGED orig /\ op'[t] = op[t] /\ doc'[t] = doc[t] /\ pc[t] \in {"mkdir", "manifest", "write"}
      BY <2>2 DEF Mkdir, Manifest, WriteManifest
    <3> QED
      BY <1>1, <1>2, <3>1 DEF Checked
  <2>3. CASE Move(t) /\ op[t] = "sweep"
    <3>1. /\ orig'["json"] \in {0, orig["json"]} /\ op'[t] = op[t] /\ doc'[t] = doc[t] /\ pc[t] = "move"
      BY <1>0, <2>3 DEF Move, ToTrash
    <3> QED
      BY <1>1, <1>2, <3>1 DEF Checked
  <2>4. CASE Move(t) /\ op[t] # "sweep"
    BY <2>4 DEF Move
  <2>5. CASE Undo(t)
    BY <2>5 DEF Undo
  <2>6. CASE Rmdir(t) \/ WriteJson(t) \/ WriteTxt(t) \/ \E e \in File \cup {"manifest"} : Unlink(t, e)
    <3>1. op[t] # "sweep"
      BY <2>1, <2>6, TrashAssumption DEF Rmdir, WriteJson, WriteTxt, Unlink, Program
    <3>2. op'[t] # "sweep"
      BY <1>0, <2>6, <3>1 DEF Rmdir, WriteJson, WriteTxt, Unlink, Return
    <3> QED
      BY <3>2
  <2> QED
    BY <1>4, <2>2, <2>3, <2>4, <2>5, <2>6 DEF FileStep
<1>5. ASSUME NEW t \in Threads, QuietStep(t) PROVE First(t) /\ Second(t)
  <2>0. UNCHANGED <<orig, late>> /\ Program(t)
    <3>1. UNCHANGED late
      BY <1>5 DEF QuietStep, Request, Lock, Plan, Upsert, Record, SweepBegin, SweepLock, Import,
          Commit, SweepPull, Verify, Index, Read, MoveFails, WriteManifestFails, Moved,
          UndoRefused, Undone, Settle, List, UnlinkGone, ghosts, marks
    <3> QED
      BY <1>5, <3>1, QuietFrame DEF files, Order
  <2>1. CASE Read(t)
    BY <1>0, <2>0, <2>1 DEF Read, Goto, Return
  <2>2. CASE t \in Sweepers /\ (Import(t) \/ Commit(t) \/ SweepPull(t))
    <3>1. \/ op'[t] = "none"
          \/ /\ op'[t] = op[t] /\ doc'[t] = doc[t] /\ pc'[t] \notin {"index", "mkdir", "manifest", "write", "move"}
             /\ pc[t] \in {"import", "commit", "pull"}
      BY <1>0, <2>2 DEF Import, Commit, SweepPull, Goto, Return
    <3> QED
      BY <2>0, <3>1 DEF Checked
  <2>3. CASE t \in Sweepers /\ Verify(t)
    <3>1. \/ op'[t] = "none"
          \/ op'[t] = op[t] /\ doc'[t] = doc[t] /\ pc[t] = "verify" /\ Verified(t) /\ UNCHANGED <<core, reached>>
      BY <1>0, <2>3 DEF Verify, Goto, Return, counts
    <3> QED
      BY <2>0, <3>1 DEF Checked, Verified, Numbered
  <2>4. CASE t \in Sweepers /\ Index(t)
    <3>1. op'[t] = op[t] /\ doc'[t] = doc[t] /\ pc[t] = "index"
      BY <2>4 DEF Index
    <3> QED
      BY <1>2, <2>0, <3>1 DEF Checked
  <2>5. CASE \/ t \in Users /\ \E o \in Requests : Request(t, o)
             \/ t \in Users /\ (Lock(t) \/ Plan(t) \/ Upsert(t) \/ Record(t))
    <3>1. op'[t] # "sweep"
      BY <1>0, <2>0, <2>5, TrashAssumption
         DEF Request, Lock, Plan, Upsert, Record, Return, Program
    <3> QED
      BY <3>1
  <2>6. CASE \/ t \in Sweepers /\ (SweepBegin(t) \/ SweepLock(t))
             \/ WriteManifestFails(t) \/ MoveFails(t) \/ Moved(t) \/ UndoRefused(t)
             \/ Undone(t) \/ Settle(t) \/ List(t)
             \/ \E e \in File \cup {"manifest"} : UnlinkGone(t, e)
    <3>1. \/ op'[t] = "none"
          \/ pc'[t] \notin {"import", "commit", "pull", "verify", "index", "mkdir", "manifest", "write", "move"}
      BY <1>0, <2>6 DEF SweepBegin, SweepLock, MoveFails, WriteManifestFails, Moved,
          UndoRefused, Undone, Settle, List, UnlinkGone, Goto, Return
    <3> QED
      BY <3>1
  <2> HIDE DEF First, Second
  <2> QED
    BY <1>5, <2>1, <2>2, <2>3, <2>4, <2>5, <2>6 DEF QuietStep
<1>6. ASSUME UNCHANGED vars \/ OtherStep, NEW u \in Threads PROVE First(u) /\ Second(u)
  <2>1. CASE Crash
    BY <1>6, <2>1 DEF Crash
  <2>2. CASE UNCHANGED <<files, thread>>
    <3>1. UNCHANGED <<orig, pc, op, doc>>
      BY <2>2 DEF files, thread
    <3> QED
      BY <1>1, <1>2, <1>6, <3>1 DEF Checked
  <2> QED
    BY <1>6, <2>1, <2>2 DEF OtherStep, vars, HubEdit, RuntimePull, Look, Listed, ListCopy, Prune
<1>7. ASSUME NEW u \in Threads PROVE First(u) /\ Second(u)
  <2> HIDE DEF First, Second
  <2> QED
    BY <1>3, <1>4, <1>5, <1>6, <1>7, Steps
<1> QED
  BY <1>7 DEF Checked

\* What a sweep moves to the trash came late or has its like on the hub.
LEMMA SweepMoves ==
  ASSUME TypeOK, Checked, NEW t \in Threads, Move(t), op[t] = "sweep",
         FirstOf(moves[t]) = "json"
  PROVE  orig["json"] \in late \/ \E w \in reached : core[w] = core[orig["json"]]
BY DEF Move, Checked

LEMMA VerifiedStep ==
  ASSUME TypeOK, Numbered, Checked, VerifiedBeforeTrashed, [Next]_vars
  PROVE  VerifiedBeforeTrashed'
<1>1. /\ late \subseteq late' /\ reached \subseteq reached'
      /\ \A v \in Nat : v <= versions => core'[v] = core[v]
      /\ reached \subseteq Nat /\ archived \subseteq Nat /\ orig["json"] \in Nat
  BY CoreKept, GhostFrame, Typed
<1>2. ASSUME NEW v \in Nat, v <= versions, \E w \in reached : core[w] = core[v]
      PROVE  \E w \in reached' : core'[w] = core'[v]
  BY <1>1, <1>2 DEF Numbered
<1>3. \A v \in archived \ late' : \E w \in reached' : core'[w] = core'[v]
  BY <1>1, <1>2 DEF VerifiedBeforeTrashed, Numbered
<1>4. \/ archived' = archived
      \/ \E t \in Threads : /\ Move(t) /\ op[t] = "sweep" /\ FirstOf(moves[t]) = "json"
                            /\ archived' = archived \cup {orig["json"]}
  <2> DEFINE Moves(t) == /\ Move(t) /\ op[t] = "sweep" /\ FirstOf(moves[t]) = "json"
                         /\ archived' = archived \cup {orig["json"]}
  <2>1. ASSUME NEW u \in Users,
               \/ \E o \in Requests : Request(u, o)
               \/ Lock(u) \/ Plan(u) \/ Upsert(u) \/ Record(u) \/ WriteJson(u) \/ WriteTxt(u)
        PROVE  archived' = archived
    BY <2>1 DEF ghosts, marks, Request, Lock, Plan, Upsert, Record, WriteJson, WriteTxt
  <2>2. ASSUME NEW s \in Sweepers,
               \/ SweepBegin(s) \/ SweepLock(s) \/ Import(s) \/ Commit(s) \/ SweepPull(s)
               \/ Verify(s) \/ Index(s)
        PROVE  archived' = archived
    BY <2>2 DEF ghosts, marks, SweepBegin, SweepLock, Import, Commit, SweepPull, Verify, Index
  <2>3. ASSUME NEW t \in Threads, Move(t) PROVE archived' = archived \/ Moves(t)
    BY <2>3 DEF ghosts, marks, Move
  <2>4. ASSUME NEW t \in Threads,
               \/ Read(t) \/ Mkdir(t) \/ Manifest(t) \/ WriteManifest(t) \/ WriteManifestFails(t)
               \/ MoveFails(t) \/ Moved(t) \/ Undo(t) \/ UndoRefused(t) \/ Undone(t) \/ Settle(t) \/ List(t) \/ Rmdir(t)
               \/ \E e \in File \cup {"manifest"} : Unlink(t, e) \/ UnlinkGone(t, e)
        PROVE  archived' = archived
    BY <2>4 DEF ghosts, marks, Read, Mkdir, Manifest, WriteManifest, MoveFails,
        WriteManifestFails, Moved, Undo, UndoRefused, Undone, Settle, List, Rmdir, Unlink,
        UnlinkGone
  <2>5. ASSUME OtherStep \/ UNCHANGED vars
        PROVE  archived' = archived
    BY <2>5 DEF OtherStep, ghosts, marks, vars, HubEdit, RuntimePull, Look, Listed, ListCopy,
        Prune, Crash
  <2> HIDE DEF Moves
  <2>6. archived' = archived \/ \E t \in Threads : Moves(t)
    BY <2>1, <2>2, <2>3, <2>4, <2>5 DEF Next, OtherStep
  <2> QED
    BY <2>6 DEF Moves
<1>5. CASE archived' = archived
  BY <1>3, <1>5 DEF VerifiedBeforeTrashed
<1>6. CASE \E t \in Threads : /\ Move(t) /\ op[t] = "sweep" /\ FirstOf(moves[t]) = "json"
                              /\ archived' = archived \cup {orig["json"]}
  <2>1. orig["json"] \in late \/ \E w \in reached : core[w] = core[orig["json"]]
    BY <1>6, SweepMoves
  <2>2. orig["json"] \in late' \/ \E w \in reached' : core'[w] = core'[orig["json"]]
    BY <1>1, <1>2, <2>1 DEF Numbered
  <2> QED
    BY <1>3, <1>6, <2>2 DEF VerifiedBeforeTrashed
<1> QED
  BY <1>4, <1>5, <1>6

-----------------------------------------------------------------------------
(* Sweeps do not fail each other. *)

\* The original leaves its place by the renames of a deletion or a sweep, or
\* by the roll-back of a restore.
LEMMA JsonLost ==
  ASSUME TypeOK, Order, [Next]_vars, orig["json"] # 0, orig'["json"] = 0
  PROVE  \E t \in Threads : \/ Move(t) /\ op[t] \in {"delete", "sweep"}
                            \/ Undo(t) /\ op[t] = "restore"
<1>0. /\ DOMAIN orig = File /\ DOMAIN bin = File /\ "json" \in File /\ "txt" \in File
      /\ versions \in Nat
  BY Typed
<1>1. PICK t \in Threads : FileStep(t)
  BY Steps, QuietFrame DEF files
<1>2. Program(t)
  BY DEF Order
<1>3. CASE Move(t)
  <2>1. op[t] # "restore"
    BY <1>0, <1>3 DEF Move, ToOrigin
  <2> QED
    BY <1>2, <1>3, <2>1 DEF Move, Program
<1>4. CASE Undo(t)
  <2>1. op[t] = "restore"
    BY <1>0, <1>4 DEF Undo, ToOrigin
  <2> QED
    BY <1>4, <2>1
<1>5. CASE Mkdir(t) \/ Manifest(t) \/ WriteManifest(t) \/ Rmdir(t) \/ \E e \in File \cup {"manifest"} : Unlink(t, e)
  BY <1>5 DEF Mkdir, Manifest, WriteManifest, Rmdir, Unlink
<1>6. CASE WriteJson(t) \/ WriteTxt(t)
  BY <1>0, <1>6 DEF WriteJson, WriteTxt
<1> QED
  BY <1>1, <1>3, <1>4, <1>5, <1>6 DEF FileStep

\* What is known without a deletion, a restore and a crash stays known.
LEMMA TrashedFrame ==
  ASSUME TypeOK, Swept, [Next]_vars, ~trashed'
  PROVE  /\ ~trashed /\ (crashed => crashed') /\ (overtaken => overtaken')
         /\ \A t \in Threads : op[t] \notin {"delete", "restore"} /\ op'[t] \notin {"delete", "restore"}
<1>0. DOMAIN op = Threads
  BY Typed
<1>1. (crashed => crashed') /\ (overtaken => overtaken')
  <2>1. (overtaken => overtaken') /\ (crashed' = crashed \/ crashed' = TRUE)
    BY GhostFrame
  <2> QED
    BY <2>1
<1>2. ASSUME NEW t \in Threads, FileStep(t)
      PROVE  trashed' = trashed /\ op'[t] \in {op[t], "none"}
  BY <1>0, <1>2 DEF marks, FileStep, Mkdir, Manifest, WriteManifest, Move, Undo, Rmdir,
      WriteJson, WriteTxt, Unlink, Return
<1>3. ASSUME NEW t \in Threads, QuietStep(t)
      PROVE  ~trashed /\ (op'[t] \in {"delete", "restore"} => op'[t] = op[t])
  <2>1. ASSUME NEW o \in Requests, Request(t, o) PROVE ~trashed /\ o \notin {"delete", "restore"}
    BY <2>1 DEF Request
  <2>2. ASSUME NEW o \in Requests, Request(t, o) PROVE op'[t] = o
    BY <1>0, <2>2 DEF Request
  <2>3. CASE ~\E o \in Requests : Request(t, o)
    <3>1. op'[t] \in {op[t], "none", "sweep"}
      BY <1>0, <1>3, <2>3 DEF QuietStep, Lock, Plan, Upsert, Record, SweepBegin, SweepLock,
          Import, Commit, SweepPull, Verify, Index, Read, MoveFails, WriteManifestFails, Moved,
          UndoRefused, Undone, Settle, List, UnlinkGone, Return
    <3>2. trashed' = trashed
      BY <1>3, <2>3 DEF QuietStep, Lock, Plan, Upsert, Record, SweepBegin, SweepLock, Import,
          Commit, SweepPull, Verify, Index, Read, MoveFails, WriteManifestFails, Moved,
          UndoRefused, Undone, Settle, List, UnlinkGone, ghosts, marks
    <3> QED
      BY <3>1, <3>2
  <2> QED
    BY <2>1, <2>2, <2>3
<1>4. ASSUME UNCHANGED vars \/ OtherStep, NEW t \in Threads
      PROVE  trashed' = trashed /\ op'[t] \in {op[t], "none"}
  BY <1>4 DEF OtherStep, vars, thread, ghosts, marks, HubEdit, RuntimePull, Look, Listed,
      ListCopy, Prune, Crash
<1>5. ~trashed
  <2>1. Threads = {} => UNCHANGED trashed
    BY Steps DEF vars, ghosts, marks, OtherStep, HubEdit, RuntimePull, Look, Listed, ListCopy,
        Prune, Crash
  <2> QED
    BY <1>2, <1>3, <1>4, <2>1, Steps
<1> QED
  BY <1>1, <1>2, <1>3, <1>4, <1>5, Steps, OthersKept DEF Swept

\* The row names the original again after one has been read, and if that has left
\* its place in the meantime the sweep that moved it is still at work, or overtaken.
LEMMA RowFrame ==
  ASSUME [Next]_vars, row' = "orig", ~overtaken'
  PROVE  \/ row = "orig"
         \/ orig["json"] # 0 /\ UNCHANGED orig
         \/ \E s \in Sweepers : pc[s] \in {"move", "undo", "settle"}
<1>1. CASE Enter /\ UNCHANGED orig
  BY <1>1 DEF Enter
<1>2. (Enter /\ UNCHANGED orig) \/ row' = row \/ row' # "orig"
  <2>1. ASSUME NEW u \in Users, Record(u) PROVE Enter /\ UNCHANGED orig
    BY <2>1 DEF Record, files
  <2>2. ASSUME Listed PROVE Enter /\ UNCHANGED orig
    BY <2>2 DEF Listed, files
  <2>3. CASE ~Listed /\ ~\E u \in Users : Record(u)
    BY <2>3, ZenonT(60) DEF Next, vars, places, Request, Lock, Plan, Upsert, Record, WriteJson,
        WriteTxt, SweepBegin, SweepLock, Import, Commit, SweepPull, Verify, Index, Read, Mkdir,
        Manifest, WriteManifest, Move, MoveFails, WriteManifestFails, Moved, Undo, UndoRefused,
        Undone, Settle, List, Rmdir, Unlink, UnlinkGone, HubEdit, RuntimePull, Look, ListCopy,
        Prune, Crash
  <2> QED
    BY <2>1, <2>2, <2>3
<1> QED
  BY <1>1, <1>2

LEMMA SweptStep ==
  ASSUME TypeOK, Order, Swept, [Next]_vars
  PROVE  Swept'
<1>0. /\ DOMAIN pc = Threads /\ DOMAIN op = Threads /\ Sweepers \subseteq Threads
      /\ Users \cap Sweepers = {}
  BY Typed, TrashAssumption DEF Threads
<1>1. ~trashed' => \A t \in Threads : op'[t] \notin {"delete", "restore"}
  BY TrashedFrame
<1> SUFFICES ASSUME ~trashed', ~crashed', ~overtaken', row' = "orig", orig'["json"] = 0
             PROVE  \E s \in Sweepers : op'[s] = "sweep" /\ pc'[s] \in {"move", "undo", "settle"}
  BY <1>1 DEF Swept
<1>2. /\ ~trashed /\ ~crashed /\ ~overtaken
      /\ \A t \in Threads : op[t] \notin {"delete", "restore"} /\ op'[t] \notin {"delete", "restore"}
  BY TrashedFrame
<1>3. CASE orig["json"] # 0
  <2>1. PICK t \in Threads : Move(t) /\ op[t] = "sweep"
    BY <1>2, <1>3, JsonLost
  <2>2. t \in Sweepers /\ pc[t] = "move" /\ UNCHANGED <<pc, op>>
    BY <2>1 DEF Order, Program, Move
  <2> QED
    BY <2>1, <2>2
<1>4. CASE orig["json"] = 0
  <2>1. PICK s \in Sweepers : op[s] = "sweep" /\ pc[s] \in {"move", "undo", "settle"}
    <3>1. \E s \in Sweepers : pc[s] \in {"move", "undo", "settle"}
      BY <1>2, <1>4, RowFrame DEF Swept
    <3> QED
      BY <1>0, <3>1 DEF Order, Program
  <2>2. ASSUME NEW t \in Threads, FileStep(t) \/ QuietStep(t), t # s
        PROVE  op'[s] = op[s] /\ pc'[s] = pc[s]
    BY <1>0, <2>2, OthersKept
  <2>3. ASSUME FileStep(s) PROVE op'[s] = "sweep" /\ pc'[s] \in {"move", "undo", "settle"}
    BY <1>0, <2>1, <2>3 DEF FileStep, Mkdir, Manifest, WriteManifest, Move, Undo, Rmdir,
        WriteJson, WriteTxt, Unlink
  <2>4. ASSUME QuietStep(s) PROVE op'[s] = "sweep" /\ pc'[s] \in {"move", "undo", "settle"}
    <3>1. ~Settle(s)
      BY <2>1 DEF Settle
    <3> QED
      BY <1>0, <2>1, <2>4, <3>1 DEF QuietStep, Request, Lock, Plan, Upsert, Record, SweepBegin,
          SweepLock, Import, Commit, SweepPull, Verify, Index, Read, MoveFails,
          WriteManifestFails, Moved, UndoRefused, Undone, List, UnlinkGone, Goto
  <2>5. ASSUME UNCHANGED vars \/ OtherStep PROVE op'[s] = op[s] /\ pc'[s] = pc[s]
    BY <2>5 DEF OtherStep, vars, thread, HubEdit, RuntimePull, Look, Listed, ListCopy, Prune, Crash
  <2> QED
    BY <1>0, <2>1, <2>2, <2>3, <2>4, <2>5, Steps
<1> QED
  BY <1>3, <1>4

LEMMA NoFalseStep ==
  ASSUME TypeOK, Order, Swept, NoFalseFailure, [Next]_vars
  PROVE  NoFalseFailure'
<1>0. /\ DOMAIN pc = Threads /\ DOMAIN op = Threads /\ Sweepers \subseteq Threads
      /\ None \notin Threads /\ Users \cap Sweepers = {}
  BY Typed, TrashAssumption DEF Threads
<1> SUFFICES ASSUME NEW s \in Sweepers, pc'[s] = "read", ~trashed', ~crashed', ~overtaken', orig'["json"] = 0
             PROVE  FALSE
  BY DEF NoFalseFailure
<1>2. /\ ~trashed /\ ~crashed /\ ~overtaken
      /\ \A t \in Threads : op[t] \notin {"delete", "restore"}
  BY TrashedFrame
<1>3. CASE pc[s] = "read"
  <2>1. PICK t \in Threads : Move(t) /\ op[t] = "sweep"
    BY <1>2, <1>3, JsonLost DEF NoFalseFailure
  <2>2. pc[t] = "move" /\ op[s] = "sweep"
    BY <1>0, <1>3, <2>1 DEF Order, Program, Move
  <2> QED
    BY <1>0, <1>3, <2>1, <2>2 DEF Order, Locked
<1>4. CASE pc[s] # "read"
  <2>1. SweepLock(s)
    <3>1. ASSUME NEW t \in Threads, FileStep(t) \/ QuietStep(t) PROVE t = s
      BY <1>0, <1>4, <3>1, OthersKept
    <3>2. ~FileStep(s)
      BY <1>0, <1>4 DEF FileStep, Mkdir, Manifest, WriteManifest, Move, Undo, Rmdir, WriteJson,
          WriteTxt, Unlink, Goto, Return
    <3>3. ~(UNCHANGED vars \/ OtherStep)
      BY <1>0, <1>4 DEF OtherStep, vars, thread, HubEdit, RuntimePull, Look, Listed, ListCopy,
          Prune, Crash
    <3>4. QuietStep(s)
      BY <3>1, <3>2, <3>3, Steps
    <3> QED
      BY <1>0, <1>4, <3>4 DEF QuietStep, Request, Lock, Plan, Upsert, Record, SweepBegin,
          Import, Commit, SweepPull, Verify, Index, Read, MoveFails, WriteManifestFails, Moved,
          UndoRefused, Undone, Settle, List, UnlinkGone, Goto, Return
  <2>2. row = "orig" /\ sweepLock = None /\ UNCHANGED orig
    BY <1>0, <2>1 DEF SweepLock, Return, files
  <2>3. PICK r \in Sweepers : op[r] = "sweep" /\ pc[r] \in {"move", "undo", "settle"}
    BY <1>2, <2>2 DEF Swept
  <2> QED
    BY <1>0, <2>2, <2>3 DEF Order, Locked
<1> QED
  BY <1>3, <1>4

-----------------------------------------------------------------------------
(* Where the last version is. *)

LEMMA SafeKept ==
  ASSUME TypeOK, [Next]_vars, Safe, ~\E u \in Users : WriteJson(u)
  PROVE  Safe'
<1>1. UNCHANGED <<core, current>>
  BY ZenonT(60) DEF Next, vars, counts, ghosts, marks, Request, Lock, Plan, Upsert, Record,
      WriteTxt, SweepBegin, SweepLock, Import, Commit, SweepPull, Verify, Index, Read, Mkdir,
      Manifest, WriteManifest, Move, MoveFails, WriteManifestFails, Moved, Undo, UndoRefused,
      Undone, Settle, List, Rmdir, Unlink, UnlinkGone, HubEdit, RuntimePull, Look, Listed,
      ListCopy, Prune, Crash
<1>2. late \subseteq late' /\ reached \subseteq reached' /\ gone \subseteq gone'
  BY GhostFrame
<1> QED
  BY <1>1, <1>2 DEF Safe

LEMMA CurrentKept ==
  ASSUME [Next]_vars
  PROVE  (UNCHANGED current) \/ \E u \in Users : WriteJson(u)
BY ZenonT(60) DEF Next, vars, ghosts, marks, Request, Lock, Plan, Upsert, Record, WriteTxt,
    SweepBegin, SweepLock, Import, Commit, SweepPull, Verify, Index, Read, Mkdir, Manifest,
    WriteManifest, Move, MoveFails, WriteManifestFails, Moved, Undo, UndoRefused, Undone,
    Settle, List, Rmdir, Unlink, UnlinkGone, HubEdit, RuntimePull, Look, Listed, ListCopy,
    Prune, Crash

\* What the renames and unlinks of a thread do to the json file.
LEMMA JsonMoves ==
  ASSUME TypeOK, NEW t \in Threads, FileStep(t), ~WriteJson(t)
  PROVE  \/ orig'["json"] = orig["json"] /\ bin'["json"] = bin["json"]
         \/ /\ (Move(t) /\ op[t] # "restore" /\ FirstOf(moves[t]) = "json") \/ (Undo(t) /\ op[t] = "restore")
            /\ orig["json"] # 0 /\ bin'["json"] = orig["json"] /\ orig'["json"] = 0
         \/ /\ \/ Move(t) /\ op[t] = "restore" /\ "json" \in moves[t]
               \/ Undo(t) /\ op[t] # "restore" /\ "json" \in done[t]
            /\ bin["json"] # 0 /\ orig'["json"] = bin["json"] /\ bin'["json"] = 0
         \/ /\ pc[t] = "unlink" /\ UNCHANGED orig /\ bin'["json"] = 0
            /\ op[t] # "restore" => bin["json"] \in gone'
<1>0. /\ DOMAIN orig = File /\ DOMAIN bin = File /\ "json" \in File /\ "txt" \in File
      /\ \A u \in Threads : moves[u] \subseteq File /\ done[u] \subseteq File
  BY Typed
<1>1. CASE Move(t)
  <2>1. FirstOf(moves[t]) \in moves[t]
    BY <1>0, <1>1, FirstLast DEF Move
  <2> QED
    BY <1>0, <1>1, <2>1 DEF Move, ToTrash, ToOrigin
<1>2. CASE Undo(t)
  <2>1. LastOf(done[t]) \in done[t]
    BY <1>0, <1>2, FirstLast DEF Undo
  <2> QED
    BY <1>0, <1>2, <2>1 DEF Undo, ToTrash, ToOrigin
<1>3. CASE \E e \in File \cup {"manifest"} : Unlink(t, e)
  BY <1>0, <1>3 DEF Unlink
<1>4. CASE Mkdir(t) \/ Manifest(t) \/ WriteManifest(t) \/ Rmdir(t) \/ WriteTxt(t)
  BY <1>0, <1>4 DEF Mkdir, Manifest, WriteManifest, Rmdir, WriteTxt
<1> QED
  BY <1>1, <1>2, <1>3, <1>4 DEF FileStep

LEMMA HomeStep ==
  ASSUME TypeOK, Order, Custody, [Next]_vars
  PROVE  Home'
<1>0. /\ DOMAIN orig = File /\ "json" \in File /\ versions \in Nat /\ Home /\ \A t \in Threads : Clear(t)
  BY Typed DEF Custody
<1>1. CASE \E u \in Users : WriteJson(u)
  BY <1>0, <1>1 DEF WriteJson, Home
<1>2. CASE ~\E u \in Users : WriteJson(u)
  <2>1. current' = current /\ current # 0 /\ (Safe => Safe')
    BY <1>0, <1>2, CurrentKept, SafeKept DEF Home
  <2>2. CASE Safe
    BY <2>1, <2>2 DEF Home
  <2>3. CASE UNCHANGED files
    BY <1>0, <2>1, <2>3 DEF Home, files
  <2>4. ASSUME NEW t \in Threads, FileStep(t), ~Safe PROVE Home'
    <3>1. ~WriteJson(t)
      BY <1>2, <2>4 DEF FileStep, WriteJson, Order, Program
    <3>2. current \notin late /\ (current \in gone' => Safe')
      BY <2>1, <2>4 DEF Safe
    <3>3. Clear(t) /\ Program(t)
      BY <1>0 DEF Order
    <3> QED
      BY <1>0, <2>1, <2>4, <3>1, <3>2, <3>3, JsonMoves DEF Home, Clear, Move, Undo, Program
  <2> QED
    BY <2>2, <2>3, <2>4, Steps, QuietFrame
<1> QED
  BY <1>1, <1>2

LEMMA ClearStep ==
  ASSUME TypeOK, Order, Checked, Custody, [Next]_vars
  PROVE  \A u \in Threads : Clear(u)'
<1>0. /\ DOMAIN orig = File /\ "json" \in File /\ "txt" \in File
      /\ DOMAIN pc = Threads /\ DOMAIN op = Threads /\ DOMAIN moves = Threads /\ DOMAIN done = Threads
      /\ Home /\ (\A t \in Threads : Clear(t)) /\ (manifest # {} /\ manifest # Torn => "json" \in manifest)
      /\ \A u \in Threads : moves[u] \subseteq File /\ done[u] \subseteq File
  BY Typed DEF Custody
<1>1. late \subseteq late'
  BY GhostFrame
<1>2. ASSUME ~\E u \in Users : WriteJson(u) PROVE current' = current /\ (Safe => Safe')
  BY <1>2, CurrentKept, SafeKept
<1>10. ASSUME UNCHANGED versions PROVE ~\E u \in Users : WriteJson(u)
  <2>1. ASSUME NEW u \in Users, WriteJson(u) PROVE FALSE
    <3>1. versions' = versions + 1 /\ versions \in Nat
      BY <2>1, Typed DEF WriteJson
    <3> QED
      BY <1>10, <3>1
  <2> QED
    BY <2>1
<1>3. ASSUME NEW u \in Threads, NEW t \in Threads \ {u}, FileStep(t) PROVE Clear(u)'
  <2>0. /\ pc'[u] = pc[u] /\ op'[u] = op[u] /\ moves'[u] = moves[u] /\ done'[u] = done[u]
        /\ Clear(u) /\ Program(t) /\ Locked(t) /\ Locked(u) /\ Clear(t)
    BY <1>0, <1>3, OthersKept DEF Order
  <2>1. ASSUME op[u] = "restore", pc[u] = "move" PROVE orig'["json"] \in {0, orig["json"]} \cup late'
    BY <1>1, <1>3, <2>1, JsonPlaced DEF Placed, Busy, Moving
  <2>2. ASSUME op[u] \in {"delete", "sweep"}, pc[u] \in {"move", "undo"}
        PROVE  orig'["json"] \in {0, orig["json"]} \cup late'
    BY <1>1, <1>3, <2>2, JsonPlaced DEF Placed, Busy, Moving
  <2>3. ASSUME op[u] = "restore", pc[u] # "lock", Safe \/ orig["json"] = current
        PROVE  Safe' \/ orig'["json"] = current'
    <3>1. CASE WriteJson(t)
      BY <1>0, <3>1 DEF WriteJson
    <3>2. CASE ~WriteJson(t)
      <4>1. current' = current /\ (Safe => Safe')
        <5>1. ~\E v \in Users : WriteJson(v)
          <6>1. ASSUME NEW v \in Users, WriteJson(v), v # t PROVE FALSE
            <7>1. UNCHANGED pc \/ pc'[t] # pc[t] \/ pc'[v] = pc[v]
              BY <1>3, <6>1, OthersKept DEF Threads
            <7>2. v \in Threads /\ pc'[v] = pc[v] /\ pc[v] = "json" /\ pc'[v] \in {"txt", "upsert"}
              BY <1>0, <1>3, <6>1, OthersKept DEF WriteJson, Goto, Threads
            <7> QED
              BY <7>2
          <6> QED
            BY <3>2, <6>1
        <5> QED
          BY <1>2, <5>1
      <4>2. CASE Safe
        BY <4>1, <4>2
      <4>3. CASE ~Safe
        <5>1. current \notin late /\ orig["json"] = current /\ current # 0 /\ lock = u
          BY <1>0, <2>0, <2>3, <4>3 DEF Safe, Home, Locked
        <5>2. ~(Move(t) /\ op[t] # "restore" /\ FirstOf(moves[t]) = "json")
          <6>1. ~(Move(t) /\ op[t] = "sweep" /\ FirstOf(moves[t]) = "json")
            BY <4>3, <5>1, SweepMoves DEF Safe
          <6> QED
            BY <1>3, <2>0, <5>1, <6>1 DEF Move, Program, Locked
        <5>3. ~(Undo(t) /\ op[t] = "restore") /\ ~(Move(t) /\ op[t] = "restore")
          BY <1>3, <2>0, <5>1 DEF Undo, Move, Locked
        <5>4. ~(Undo(t) /\ op[t] # "restore" /\ "json" \in done[t])
          BY <2>0, <5>1 DEF Undo, Program, Clear
        <5> QED
          BY <1>3, <3>2, <4>1, <5>1, <5>2, <5>3, <5>4, JsonMoves
      <4> QED
        BY <4>2, <4>3
    <3> QED
      BY <3>1, <3>2
  <2> QED
    BY <1>1, <2>0, <2>1, <2>2, <2>3 DEF Clear
<1>4. ASSUME UNCHANGED <<orig, late>>, ~\E u \in Users : WriteJson(u), NEW u \in Threads,
             op'[u] = op[u], pc'[u] = pc[u], moves'[u] = moves[u], done'[u] = done[u]
      PROVE  Clear(u)'
  BY <1>0, <1>2, <1>4 DEF Clear
<1>5. ASSUME NEW t \in Threads, QuietStep(t) PROVE UNCHANGED <<orig, late>> /\ ~\E u \in Users : WriteJson(u)
  <2>1. UNCHANGED late /\ UNCHANGED orig
    BY <1>5, QuietFrame DEF files, QuietStep, Request, Lock, Plan, Upsert, Record, SweepBegin,
        SweepLock, Import, Commit, SweepPull, Verify, Index, Read, MoveFails,
        WriteManifestFails, Moved, UndoRefused, Undone, Settle, List, UnlinkGone, ghosts, marks
  <2>2. UNCHANGED versions
    BY <1>5 DEF QuietStep, Request, Lock, Plan, Upsert, Record, SweepBegin, SweepLock, Import,
        Commit, SweepPull, Verify, Index, Read, MoveFails, WriteManifestFails, Moved,
        UndoRefused, Undone, Settle, List, UnlinkGone, counts
  <2> QED
    BY <1>10, <2>1, <2>2
<1>6. ASSUME NEW t \in Threads, QuietStep(t) PROVE Clear(t)'
  <2>0. /\ UNCHANGED <<orig, late>> /\ current' = current /\ (Safe => Safe')
        /\ Clear(t) /\ Program(t) /\ Unmoved(t)
    BY <1>0, <1>2, <1>5, <1>6 DEF Order
  <2>1. CASE Plan(t)
    <3>1. ASSUME ~Return(t), op[t] = "restore"
          PROVE  /\ moves'[t] = Restorable /\ op'[t] = op[t] /\ pc'[t] = "move" /\ InTrash /\ manifest # Torn
                 /\ \A f \in Restorable : orig[f] = 0
      BY <1>0, <2>1, <3>1 DEF Plan, Goto
    <3>2. ASSUME "json" \notin Restorable, InTrash, manifest # Torn PROVE Safe \/ orig["json"] = current
      <4>1. bin["json"] = 0
        BY <1>0, <3>2 DEF Restorable, InTrash
      <4> QED
        BY <1>0, <4>1 DEF Home
    <3>3. CASE ~Return(t) /\ op[t] = "restore"
      BY <1>0, <2>0, <3>1, <3>2, <3>3 DEF Clear
    <3>4. CASE Return(t) \/ op[t] # "restore"
      <4>1. op'[t] \notin {"restore", "delete", "sweep"}
        BY <1>0, <2>0, <2>1, <3>4 DEF Plan, Return, Program
      <4> QED
        BY <4>1 DEF Clear
    <3> QED
      BY <3>3, <3>4
  <2>2. CASE WriteManifestFails(t) \/ MoveFails(t)
    <3>1. /\ op'[t] = op[t] /\ pc'[t] = "undo" /\ done'[t] = done[t]
          /\ pc[t] = "move" \/ (pc[t] = "write" /\ done[t] = {})
      BY <1>0, <2>0, <2>2 DEF WriteManifestFails, MoveFails, Goto, Unmoved
    <3> QED
      BY <2>0, <3>1 DEF Clear
  <2>7. CASE UndoRefused(t)
    <3>1. op'[t] = op[t] /\ pc'[t] = "undo" /\ pc[t] = "undo" /\ done'[t] \subseteq done[t]
      BY <1>0, <2>7 DEF UndoRefused
    <3> QED
      BY <2>0, <3>1 DEF Clear
  <2>3. CASE Moved(t) \/ List(t)
    <3>1. op'[t] \in {op[t], "none"} /\ pc'[t] \in {"list", "settle", "unlink", "idle"}
          /\ (pc[t] = "list" \/ (pc[t] = "move" /\ moves[t] = {}))
      BY <1>0, <2>3 DEF Moved, List, Goto, Return
    <3> QED
      BY <2>0, <3>1 DEF Clear
  <2>4. CASE \E e \in File \cup {"manifest"} : UnlinkGone(t, e)
    <3>1. op'[t] = "none" \/ (op'[t] = op[t] /\ pc'[t] = "unlink" /\ pc[t] = "unlink")
      BY <1>0, <2>4 DEF UnlinkGone, Return
    <3> QED
      BY <2>0, <3>1 DEF Clear
  <2>5. CASE t \in Users /\ \E o \in Requests : Request(t, o)
    <3>1. /\ pc'[t] = "lock" \/ op'[t] \notin {"restore", "delete", "sweep"}
      BY <1>0, <2>5 DEF Request, Goto
    <3> QED
      BY <3>1 DEF Clear
  <2>6. CASE \/ t \in Users /\ (Lock(t) \/ Upsert(t) \/ Record(t))
             \/ t \in Sweepers /\ \/ SweepBegin(t) \/ SweepLock(t) \/ Import(t) \/ Commit(t) \/ SweepPull(t)
                                  \/ Verify(t) \/ Index(t)
             \/ Read(t) \/ Undone(t) \/ Settle(t)
    <3>1. pc'[t] \notin {"move", "undo", "list", "unlink"}
      <4>1. Lock(t) /\ t \in Users => FirstStep[op[t]] \in {"mkdir", "plan", "read"}
        <5>1. Lock(t) /\ t \in Users => op[t] \in {"delete", "restore", "purge", "patch"}
          BY <2>0, TrashAssumption DEF Lock, Program
        <5>2. /\ FirstStep["delete"] = "mkdir" /\ FirstStep["restore"] = "plan"
              /\ FirstStep["purge"] = "plan" /\ FirstStep["patch"] = "read"
          BY DEF FirstStep
        <5> QED
          BY <5>1, <5>2
      <4> QED
        BY <1>0, <2>6, <4>1 DEF Lock, Upsert, Record, SweepBegin, SweepLock, Import, Commit,
            SweepPull, Verify, Index, Read, Undone, Settle, Goto, Return
    <3> QED
      BY <3>1 DEF Clear
  <2> QED
    BY <1>6, <2>1, <2>2, <2>3, <2>4, <2>5, <2>6, <2>7 DEF QuietStep
<1>7. ASSUME NEW t \in Threads, FileStep(t) PROVE Clear(t)'
  <2>0. Clear(t) /\ Program(t) /\ Unmoved(t)
    BY <1>0 DEF Order
  <2>1. CASE Move(t)
    <3>1. /\ pc'[t] = "move" /\ op'[t] = op[t] /\ pc[t] = "move" /\ moves[t] # {}
          /\ moves'[t] = moves[t] \ {FirstOf(moves[t])} /\ done'[t] = done[t] \cup {FirstOf(moves[t])}
      BY <1>0, <2>1 DEF Move
    <3>2. FirstOf(moves[t]) \in File /\ ("json" \in moves[t] <=> FirstOf(moves[t]) = "json")
      BY <1>0, <3>1, FirstLast DEF FirstOf
    <3>3. ~\E u \in Users : WriteJson(u)
      BY <1>10, <2>1 DEF Move, counts
    <3>4. CASE op[t] = "restore"
      <4>1. ASSUME "json" \in moves[t] PROVE Safe' \/ orig'["json"] = current'
        <5>1. orig'["json"] = bin["json"] /\ bin["json"] # 0
          BY <1>0, <2>1, <3>2, <3>4, <4>1 DEF Move, ToOrigin
        <5> QED
          BY <1>0, <1>2, <2>0, <3>1, <3>3, <3>4, <4>1, <5>1 DEF Clear, Home, Safe
      <4>2. ASSUME "json" \notin moves[t] PROVE Safe' \/ orig'["json"] = current'
        <5>1. orig'["json"] = orig["json"]
          BY <1>0, <2>1, <3>2, <3>4, <4>2 DEF Move, ToOrigin
        <5> QED
          BY <1>2, <2>0, <3>1, <3>3, <3>4, <4>2, <5>1 DEF Clear
      <4>3. "json" \notin moves'[t]
        BY <3>1, <3>2
      <4> QED
        BY <3>1, <3>4, <4>1, <4>2, <4>3 DEF Clear
    <3>5. CASE op[t] # "restore"
      <4>1. \/ orig'["json"] = 0
            \/ orig'["json"] = orig["json"] /\ FirstOf(moves[t]) # "json"
        BY <1>0, <2>1, <3>2, <3>5 DEF Move, ToTrash
      <4> QED
        BY <1>1, <2>0, <3>1, <3>5, <4>1 DEF Clear
    <3> QED
      BY <3>4, <3>5
  <2>2. CASE Undo(t)
    <3>1. /\ pc'[t] = "undo" /\ op'[t] = op[t] /\ pc[t] = "undo" /\ done[t] # {}
          /\ done'[t] = done[t] \ {LastOf(done[t])}
      BY <1>0, <2>2 DEF Undo
    <3>2. ASSUME "json" \in done'[t] PROVE orig'["json"] = orig["json"] /\ "json" \in done[t]
      <4>1. LastOf(done[t]) # "json"
        BY <3>1, <3>2
      <4> QED
        BY <1>0, <2>2, <3>1, <3>2, <4>1 DEF Undo, ToTrash, ToOrigin
    <3> QED
      BY <1>1, <2>0, <3>1, <3>2 DEF Clear
  <2>3. CASE \E e \in File \cup {"manifest"} : Unlink(t, e)
    <3>1. pc'[t] = "unlink" /\ op'[t] = op[t] /\ pc[t] = "unlink" /\ UNCHANGED orig
      BY <2>3 DEF Unlink
    <3>2. ~\E u \in Users : WriteJson(u)
      BY <1>10, <2>3 DEF Unlink, counts
    <3> QED
      BY <1>2, <2>0, <3>1, <3>2 DEF Clear
  <2>4. CASE Manifest(t) \/ WriteManifest(t)
    <3>1. op'[t] # "restore" /\ done'[t] = {}
      BY <2>0, <2>4 DEF Manifest, WriteManifest, Program, Unmoved
    <3> QED
      BY <3>1 DEF Clear
  <2>5. CASE Mkdir(t) \/ Rmdir(t) \/ WriteJson(t) \/ WriteTxt(t)
    <3>1. pc'[t] \notin {"move", "undo", "list", "unlink"}
      BY <1>0, <2>5 DEF Mkdir, Rmdir, WriteJson, WriteTxt, Goto, Return
    <3> QED
      BY <3>1 DEF Clear
  <2> QED
    BY <1>7, <2>1, <2>2, <2>3, <2>4, <2>5 DEF FileStep
<1>8. ASSUME UNCHANGED vars \/ OtherStep, NEW u \in Threads PROVE Clear(u)'
  <2>1. CASE Crash
    BY <1>8, <2>1 DEF Crash, Clear
  <2>2. CASE UNCHANGED <<orig, late, thread, current>>
    <3>1. ~\E v \in Users : WriteJson(v)
      <4>1. ASSUME NEW v \in Users, WriteJson(v) PROVE FALSE
        BY <1>0, <2>2, <4>1 DEF WriteJson, Goto, thread, Threads
      <4> QED
        BY <4>1
    <3> QED
      BY <1>4, <1>8, <2>2, <3>1 DEF thread
  <2> QED
    BY <1>8, <2>1, <2>2 DEF OtherStep, vars, files, ghosts, marks, HubEdit, RuntimePull, Look,
        Listed, ListCopy, Prune
<1> QED
  <2> SUFFICES ASSUME NEW u \in Threads PROVE Clear(u)'
    OBVIOUS
  <2>1. CASE UNCHANGED vars \/ OtherStep
    BY <1>8, <2>1
  <2>2. ASSUME NEW t \in Threads, FileStep(t) PROVE Clear(u)'
    BY <1>3, <1>7, <2>2
  <2>3. ASSUME NEW t \in Threads, QuietStep(t) PROVE Clear(u)'
    BY <1>4, <1>5, <1>6, <2>3, OthersKept
  <2> QED
    BY <2>1, <2>2, <2>3, Steps

-----------------------------------------------------------------------------
(* One thread at a time: what is in the trash can be restored. *)

LEMMA Remembered ==
  ASSUME TypeOK, [Next]_vars
  PROVE  (~mixed' => ~mixed) /\ (~crashed' => ~crashed) /\ (~stuck' => ~stuck)
<1>1. ASSUME NEW t, NEW s, Goto(t, s), ~mixed' PROVE ~mixed
  BY <1>1 DEF Goto
<1>2. ASSUME Crash, ~mixed' PROVE ~mixed
  BY <1>2 DEF Crash
<1>3. (UNCHANGED mixed) \/ Crash \/ \E t \in Threads : \E s : Goto(t, s)
  BY ZenonT(60) DEF Next, vars, ghosts, marks, Threads, Request, Lock, Plan, Upsert, Record,
      WriteJson, WriteTxt, SweepBegin, SweepLock, Import, Commit, SweepPull, Verify, Index,
      Read, Mkdir, Manifest, WriteManifest, Move, MoveFails, WriteManifestFails, Moved, Undo,
      UndoRefused, Undone, Settle, List, Rmdir, Unlink, UnlinkGone, HubEdit, RuntimePull, Look,
      Listed, ListCopy, Prune
<1>4. (crashed' = crashed \/ crashed' = TRUE) /\ (stuck' = stuck \/ stuck' = TRUE)
  BY GhostFrame
<1> QED
  BY <1>1, <1>2, <1>3, <1>4

\* A thread comes to the files when no other is there.
LEMMA Entering ==
  ASSUME TypeOK, NEW t \in Threads, FileStep(t) \/ QuietStep(t), ~mixed', pc'[t] \in Moving
  PROVE  pc'[t] = pc[t] \/ \A u \in Threads \ {t} : pc[u] \notin Moving
<1>0. DOMAIN pc = Threads
  BY Typed
<1>1. ASSUME NEW s, Goto(t, s) PROVE pc'[t] = s /\ (s \in Moving => \A u \in Threads \ {t} : pc[u] \notin Moving)
  BY <1>0, <1>1 DEF Goto
<1>2. ASSUME Return(t) PROVE pc'[t] \notin Moving
  BY <1>0, <1>2 DEF Return, Moving
<1>3. UNCHANGED pc \/ Return(t) \/ \E s : Goto(t, s)
  BY DEF FileStep, QuietStep, Request, Lock, Plan, Upsert, Record, WriteJson, WriteTxt,
      SweepBegin, SweepLock, Import, Commit, SweepPull, Verify, Index, Read, Mkdir, Manifest,
      WriteManifest, Move, MoveFails, WriteManifestFails, Moved, Undo, UndoRefused, Undone,
      Settle, List, Rmdir, Unlink, UnlinkGone
<1> QED
  BY <1>1, <1>2, <1>3

LEMMA SingleStep ==
  ASSUME TypeOK, Single, [Next]_vars, ~mixed'
  PROVE  Single'
<1>1. ASSUME NEW t \in Threads, FileStep(t) \/ QuietStep(t) PROVE Single'
  <2>1. \A u \in Threads \ {t} : pc'[u] = pc[u]
    BY <1>1, OthersKept
  <2>2. pc'[t] \in Moving => pc'[t] = pc[t] \/ \A u \in Threads \ {t} : pc[u] \notin Moving
    BY <1>1, Entering
  <2> QED
    BY <1>1, <2>1, <2>2 DEF Single
<1>2. ASSUME UNCHANGED vars \/ OtherStep PROVE Single'
  <2>1. CASE Crash
    BY <2>1 DEF Crash, Single, Moving
  <2>2. CASE UNCHANGED pc
    BY <2>2 DEF Single
  <2> QED
    BY <1>2, <2>1, <2>2 DEF OtherStep, vars, thread, HubEdit, RuntimePull, Look, Listed,
        ListCopy, Prune
<1> QED
  BY <1>1, <1>2, Steps

LEMMA Alone ==
  ASSUME TypeOK, Single, NEW t \in Threads, FileStep(t)
  PROVE  /\ pc[t] \in Moving
         /\ \A u \in Threads \ {t} : pc[u] \notin Moving /\ pc'[u] \notin Moving
<1>1. pc[t] \in Moving
  BY DEF FileStep, Mkdir, Manifest, WriteManifest, Move, Undo, Rmdir, WriteJson, WriteTxt,
      Unlink, Moving
<1> QED
  BY <1>1, OthersKept DEF Single

\* An rmtree finds every entry that it has seen.
LEMMA NothingGone ==
  ASSUME InManifest, NEW t \in Threads, NEW e, UnlinkGone(t, e)
  PROVE  FALSE
BY DEF InManifest, UnlinkGone

LEMMA InManifestStep ==
  ASSUME TypeOK, Order, Single, InManifest, [Next]_vars, ~mixed'
  PROVE  InManifest'
<1>0. /\ DOMAIN pc = Threads /\ DOMAIN op = Threads /\ DOMAIN moves = Threads /\ DOMAIN done = Threads
      /\ DOMAIN left = Threads /\ DOMAIN bin = File /\ DOMAIN orig = File /\ "json" \in File /\ "txt" \in File
      /\ (manifest # {} /\ manifest # Torn => "json" \in manifest) /\ "manifest" \notin File
  <2>1. "manifest" \notin File
    BY DEF File
  <2> QED
    BY <2>1, Typed
<1>1. ASSUME NEW t \in Threads, QuietStep(t) PROVE InManifest'
  <2>0. UNCHANGED <<bin, manifest>> /\ Entries' = Entries /\ Unmoved(t)
    BY <1>1, QuietFrame DEF files, Entries, Order
  <2>1. \A u \in Threads \ {t} : pc'[u] = pc[u] /\ done'[u] = done[u] /\ left'[u] = left[u]
    BY <1>1, OthersKept
  <2>2. pc[t] # "unlink"
    <3>1. ~\E e \in File \cup {"manifest"} : UnlinkGone(t, e)
      BY NothingGone
    <3> QED
      BY <1>1, <3>1 DEF QuietStep, Request, Lock, Plan, Upsert, Record, SweepBegin, SweepLock,
          Import, Commit, SweepPull, Verify, Index, Read, MoveFails, WriteManifestFails, Moved,
          UndoRefused, Undone, Settle, List
  <2>3. pc'[t] = "unlink" => left'[t] = Entries
    <3>1. CASE List(t)
      BY <1>0, <3>1 DEF List, Return
    <3>2. CASE Lock(t) /\ t \in Users
      <4>1. op[t] \in {"delete", "restore", "purge", "patch"}
        BY <3>2, TrashAssumption DEF Lock, Order, Program
      <4>2. FirstStep["delete"] # "unlink" /\ FirstStep["restore"] # "unlink"
            /\ FirstStep["purge"] # "unlink" /\ FirstStep["patch"] # "unlink"
        BY DEF FirstStep
      <4>3. pc'[t] = FirstStep[op[t]]
        BY <1>0, <3>2 DEF Lock, Goto
      <4> QED
        BY <4>1, <4>2, <4>3
    <3>3. CASE ~List(t) /\ ~(Lock(t) /\ t \in Users)
      <4>1. ~\E e \in File \cup {"manifest"} : UnlinkGone(t, e)
        BY NothingGone
      <4> QED
        BY <1>0, <1>1, <3>3, <4>1 DEF QuietStep, Request, Plan, Upsert, Record, SweepBegin,
            SweepLock, Import, Commit, SweepPull, Verify, Index, Read, MoveFails,
            WriteManifestFails, Moved, UndoRefused, Undone, Settle, Goto, Return
    <3> QED
      BY <3>1, <3>2, <3>3
  <2>4. pc'[t] = "move" \/ (pc'[t] = "undo" /\ done'[t] # {}) => "json" \in manifest
    <3>1. ASSUME Plan(t) PROVE pc'[t] \in {"move", "undo"} => manifest # {} /\ manifest # Torn
      <4>1. pc'[t] = "idle" \/ pc'[t] = "list" \/ (pc'[t] = "move" /\ InTrash /\ manifest # Torn)
        BY <1>0, <3>1 DEF Plan, Goto, Return
      <4> QED
        BY <4>1 DEF InTrash
    <3>2. ASSUME MoveFails(t) \/ UndoRefused(t) PROVE "json" \in manifest
      BY <3>2 DEF MoveFails, UndoRefused, InManifest
    <3>5. ASSUME WriteManifestFails(t) PROVE pc'[t] = "undo" /\ done'[t] = {}
      BY <1>0, <2>0, <3>5 DEF WriteManifestFails, Goto, Unmoved
    <3>3. ASSUME Lock(t), t \in Users PROVE pc'[t] \notin {"move", "undo"}
      <4>1. op[t] \in {"delete", "restore", "purge", "patch"}
        BY <3>3, TrashAssumption DEF Lock, Order, Program
      <4>2. FirstStep["delete"] = "mkdir" /\ FirstStep["restore"] = "plan"
            /\ FirstStep["purge"] = "plan" /\ FirstStep["patch"] = "read"
        BY DEF FirstStep
      <4>3. pc'[t] = FirstStep[op[t]]
        BY <1>0, <3>3 DEF Lock, Goto
      <4> QED
        BY <4>1, <4>2, <4>3
    <3>4. CASE /\ ~Plan(t) /\ ~MoveFails(t) /\ ~UndoRefused(t) /\ ~WriteManifestFails(t)
               /\ ~(Lock(t) /\ t \in Users)
      <4>1. ~\E e \in File \cup {"manifest"} : UnlinkGone(t, e)
        BY NothingGone
      <4>2. pc'[t] \notin {"move", "undo"}
        BY <1>0, <1>1, <3>4, <4>1 DEF QuietStep, Request, Upsert, Record, SweepBegin, SweepLock,
            Import, Commit, SweepPull, Verify, Index, Read, Moved, Undone, Settle, List, Goto,
            Return
      <4> QED
        BY <4>2
    <3> QED
      BY <1>0, <3>1, <3>2, <3>3, <3>4, <3>5
  <2>5. pc'[t] # "write"
    <3>1. CASE Lock(t) /\ t \in Users
      <4>1. op[t] \in {"delete", "restore", "purge", "patch"}
        BY <3>1, TrashAssumption DEF Lock, Order, Program
      <4>2. FirstStep["delete"] # "write" /\ FirstStep["restore"] # "write"
            /\ FirstStep["purge"] # "write" /\ FirstStep["patch"] # "write"
        BY DEF FirstStep
      <4>3. pc'[t] = FirstStep[op[t]]
        BY <1>0, <3>1 DEF Lock, Goto
      <4> QED
        BY <4>1, <4>2, <4>3
    <3>2. CASE ~(Lock(t) /\ t \in Users)
      <4>1. ~\E e \in File \cup {"manifest"} : UnlinkGone(t, e)
        BY NothingGone
      <4> QED
        BY <1>0, <1>1, <3>2, <4>1 DEF QuietStep, Request, Plan, Upsert, Record, SweepBegin,
            SweepLock, Import, Commit, SweepPull, Verify, Index, Read, MoveFails,
            WriteManifestFails, Moved, UndoRefused, Undone, Settle, List, Goto, Return
    <3> QED
      BY <3>1, <3>2
  <2>6. \A u \in Threads \ {t} : moves'[u] = moves[u]
    BY <1>1, OthersKept
  <2> QED
    BY <2>0, <2>1, <2>2, <2>3, <2>4, <2>5, <2>6 DEF InManifest
<1>2. ASSUME NEW t \in Threads, FileStep(t) PROVE InManifest'
  <2>0. /\ \A u \in Threads \ {t} : /\ pc[u] \notin {"write", "move", "undo", "unlink"}
                                    /\ pc'[u] \notin {"write", "move", "undo", "unlink"}
        /\ Unmoved(t)
    BY <1>2, Alone DEF Moving, Order
  <2>1. ASSUME pc[t] # "unlink", UNCHANGED <<bin, manifest>>, pc'[t] \notin {"write", "move", "unlink"},
               pc'[t] = "undo" => done'[t] = {}
        PROVE  InManifest'
    BY <2>0, <2>1 DEF InManifest
  <2>2. CASE Mkdir(t) \/ WriteJson(t) \/ WriteTxt(t)
    BY <1>0, <2>1, <2>2 DEF Mkdir, WriteJson, WriteTxt, Goto
  <2>3. CASE Manifest(t)
    <3>1. done'[t] = {} /\ UNCHANGED bin /\ pc[t] = "manifest"
      BY <2>0, <2>3 DEF Manifest, Unmoved
    <3>2. CASE dir
      <4>1. manifest' = Torn /\ pc'[t] = "write" /\ "json" \in moves'[t]
        BY <1>0, <2>3, <3>2 DEF Manifest, Goto
      <4> QED
        BY <2>0, <4>1 DEF InManifest
    <3>3. CASE ~dir
      BY <1>0, <2>1, <2>3, <3>1, <3>3 DEF Manifest, Goto
    <3> QED
      BY <3>2, <3>3
  <2>7. CASE WriteManifest(t)
    <3>1. /\ pc[t] = "write" /\ pc'[t] = "move" /\ manifest = Torn /\ "json" \in moves[t]
      BY <1>0, <2>7 DEF WriteManifest, Goto, InManifest
    <3>2. "json" \in manifest'
      BY <2>7, <3>1 DEF WriteManifest, Torn
    <3> QED
      BY <2>0, <3>1, <3>2 DEF InManifest
  <2>4. CASE Move(t) \/ Undo(t)
    <3>1. "json" \in manifest /\ UNCHANGED <<manifest, pc, left>>
      BY <2>4 DEF Move, Undo, InManifest
    <3>2. pc'[t] \notin {"write", "unlink"}
      BY <2>4, <3>1 DEF Move, Undo
    <3> QED
      BY <2>0, <3>1, <3>2 DEF InManifest
  <2>5. ASSUME NEW e \in File \cup {"manifest"}, Unlink(t, e) PROVE InManifest'
    <3>1. pc'[t] = "unlink" /\ left'[t] = left[t] \ {e} /\ left[t] = Entries
      BY <1>0, <2>5 DEF Unlink, InManifest
    <3>2. Entries' = Entries \ {e}
      BY <1>0, <2>5 DEF Unlink, Entries
    <3> QED
      BY <2>0, <3>1, <3>2 DEF InManifest
  <2>6. CASE Rmdir(t)
    <3>1. Entries = {} /\ UNCHANGED <<bin, manifest>>
      BY <2>6 DEF Rmdir, InManifest
    <3>2. bin["json"] = 0
      BY <1>0, <3>1 DEF Entries
    <3>3. pc'[t] \notin {"write", "move", "undo", "unlink"}
      BY <1>0, <2>6 DEF Rmdir, Goto, Return
    <3> QED
      BY <2>0, <3>1, <3>2, <3>3 DEF InManifest
  <2> QED
    BY <1>2, <2>2, <2>3, <2>4, <2>5, <2>6, <2>7 DEF FileStep
<1>3. ASSUME UNCHANGED vars \/ OtherStep PROVE InManifest'
  <2>1. CASE Crash
    <3>1. /\ \A t \in Threads : pc[t] # "unlink"
          /\ \A t \in Threads : pc'[t] = "idle"
          /\ UNCHANGED <<bin, manifest>>
      BY <2>1 DEF Crash, files
    <3> QED
      BY <3>1 DEF InManifest
  <2>2. CASE UNCHANGED <<bin, manifest, pc, moves, done, left>>
    BY <2>2 DEF InManifest, Entries
  <2> QED
    BY <1>3, <2>1, <2>2 DEF OtherStep, vars, files, thread, HubEdit, RuntimePull, Look, Listed,
        ListCopy, Prune
<1> QED
  BY <1>1, <1>2, <1>3, Steps

LEMMA HalfwayStep ==
  ASSUME TypeOK, Order, Single, InManifest, Halfway, [Next]_vars, ~mixed', ~crashed', ~stuck'
  PROVE  Halfway'
<1>0. /\ DOMAIN pc = Threads /\ DOMAIN op = Threads /\ DOMAIN moves = Threads /\ DOMAIN done = Threads
      /\ DOMAIN bin = File /\ DOMAIN orig = File /\ "json" \in File /\ "txt" \in File
      /\ (\A u \in Threads : moves[u] \subseteq File /\ done[u] \subseteq File)
      /\ versions \in Nat /\ versions >= 1 /\ File = {"json", "txt"}
  BY Typed DEF File
<1>1. ASSUME NEW t \in Threads, QuietStep(t) PROVE Halfway'
  <2>0. UNCHANGED <<orig, bin, manifest, dir>> /\ Unmoved(t) /\ Program(t)
    BY <1>1, QuietFrame DEF files, Order
  <2>1. \A u \in Threads \ {t} : pc'[u] = pc[u] /\ op'[u] = op[u] /\ moves'[u] = moves[u] /\ done'[u] = done[u]
    BY <1>1, OthersKept
  <2>2. ASSUME pc[t] \notin {"move", "undo", "unlink", "txt", "json"},
               pc'[t] \notin {"move", "undo", "manifest", "write"},
               pc'[t] = "txt" => op'[t] = "transcribe", pc'[t] = "json" => op'[t] # "transcribe"
        PROVE  Halfway'
    BY <2>0, <2>1, <2>2 DEF Halfway, Writing, Whole, BinWhole, BinRest, Out, Back
  <2>3. CASE Plan(t)
    <3>1. CASE Return(t) \/ op[t] # "restore"
      <4>1. pc[t] = "plan" /\ pc'[t] \in {"idle", "list"}
        BY <1>0, <2>3, <3>1 DEF Plan, Goto, Return
      <4> QED
        BY <2>2, <4>1
    <3>2. CASE ~Return(t) /\ op[t] = "restore"
      <4>1. /\ pc[t] = "plan" /\ pc'[t] = "move" /\ op'[t] = "restore" /\ done'[t] = done[t]
            /\ moves'[t] = Restorable /\ InTrash /\ manifest # Torn /\ \A f \in Restorable : orig[f] = 0
        BY <1>0, <2>3, <3>2 DEF Plan, Goto
      <4>2. \A u \in Threads \ {t} : pc[u] \notin {"move", "undo", "txt", "json", "manifest", "write", "unlink"}
        BY <1>1, <4>1, Entering DEF Moving
      <4>3. manifest = File /\ dir /\ Whole /\ BinWhole /\ BinRest /\ done'[t] = {}
        BY <2>0, <4>1, <4>2 DEF Halfway, Writing, InTrash, Unmoved
      <4>4. Restorable = {f \in File : bin[f] # 0}
        BY <4>3 DEF Restorable
      <4>5. CASE bin["json"] # 0
        <5>1. bin["txt"] # 0
          BY <4>3, <4>5 DEF BinWhole
        <5>2. Restorable = File
          BY <1>0, <4>4, <4>5, <5>1
        <5>3. Back(t)'
          BY <1>0, <2>0, <4>1, <4>3, <4>5, <5>1, <5>2 DEF Back
        <5> QED
          BY <2>0, <2>1, <4>1, <4>2, <4>3, <5>3 DEF Halfway, Writing
      <4>6. CASE bin["json"] = 0
        <5>1. bin["txt"] = 0
          BY <1>0, <4>1, <4>3, <4>4, <4>6 DEF BinRest, Whole
        <5>2. Restorable = {} /\ \A f \in File : bin[f] = 0
          BY <1>0, <4>4, <4>6, <5>1
        <5>3. Back(t)'
          BY <1>0, <2>0, <4>1, <4>3, <5>2 DEF Back, Whole
        <5> QED
          BY <2>0, <2>1, <4>1, <4>2, <4>3, <5>3 DEF Halfway, Writing
      <4> QED
        BY <4>5, <4>6
    <3> QED
      BY <3>1, <3>2
  <2>4. ASSUME pc[t] \in {"move", "undo"}
        PROVE  \A u \in Threads \ {t} : pc'[u] \notin {"move", "undo", "txt", "json", "manifest", "write", "unlink"}
    BY <2>1, <2>4 DEF Single, Moving
  <2>10. ~UndoRefused(t)
    BY DEF UndoRefused
  <2>11. CASE WriteManifestFails(t)
    <3>1. /\ pc[t] = "write" /\ pc'[t] = "undo" /\ op'[t] = op[t] /\ op[t] # "restore"
          /\ done[t] = {} /\ done'[t] = {}
      BY <1>0, <2>0, <2>11 DEF WriteManifestFails, Goto, Program, Unmoved
    <3>2. \A u \in Threads \ {t} : /\ pc[u] \notin {"move", "undo", "txt", "json", "manifest", "write", "unlink"}
                                    /\ pc'[u] = pc[u]
      BY <2>1, <3>1 DEF Single, Moving
    <3>3. Whole /\ BinWhole /\ orig["json"] # 0
      BY <3>1, <3>2 DEF Halfway, Writing
    <3>4. Out(t)'
      BY <1>0, <2>0, <3>1, <3>3 DEF Out, Whole, BinWhole
    <3> QED
      BY <2>0, <3>1, <3>2, <3>4 DEF Halfway, Writing
  <2>5. CASE MoveFails(t)
    <3>1. pc[t] = "move" /\ pc'[t] = "undo" /\ op'[t] = op[t] /\ done'[t] = done[t] /\ moves[t] # {}
      BY <1>0, <2>5 DEF MoveFails, Goto
    <3>2. IF op[t] = "restore" THEN Back(t)' ELSE Out(t)'
      <4>1. CASE op[t] = "restore"
        <5>1. Back(t)
          BY <3>1, <4>1 DEF Halfway, Writing
        <5> QED
          BY <2>0, <3>1, <4>1, <5>1 DEF Back
      <4>2. CASE op[t] # "restore"
        <5>1. Out(t)
          BY <3>1, <4>2 DEF Halfway, Writing
        <5>2. done[t] # File
          BY <3>1, <5>1 DEF Out
        <5> QED
          BY <2>0, <3>1, <4>2, <5>1, <5>2 DEF Out, BinWhole
      <4> QED
        BY <4>1, <4>2
    <3> QED
      BY <2>0, <2>4, <3>1, <3>2 DEF Halfway, Writing
  <2>6. CASE Moved(t) \/ Undone(t)
    <3>1. /\ pc'[t] \in {"list", "settle", "idle"}
          /\ (pc[t] = "move" /\ moves[t] = {}) \/ (pc[t] = "undo" /\ done[t] = {})
      BY <1>0, <2>6 DEF Moved, UndoRefused, Undone, Goto, Return
    <3>2. Whole /\ BinWhole /\ BinRest
      <4>1. CASE op[t] = "restore"
        <5>1. Back(t)
          BY <3>1, <4>1 DEF Halfway, Writing
        <5> QED
          BY <1>0, <3>1, <5>1 DEF Back, Whole, BinWhole, BinRest
      <4>2. CASE op[t] # "restore"
        <5>1. Out(t)
          BY <3>1, <4>2 DEF Halfway, Writing
        <5>2. CASE pc[t] = "move"
          <6>1. File \subseteq done[t]
            BY <3>1, <5>1, <5>2 DEF Out
          <6> QED
            BY <1>0, <5>1, <6>1 DEF Out, Whole, BinWhole, BinRest
        <5>3. CASE pc[t] = "undo" /\ done[t] = {}
          BY <1>0, <5>1, <5>3 DEF Out, Whole, BinRest
        <5> QED
          BY <3>1, <5>2, <5>3
      <4> QED
        BY <4>1, <4>2
    <3>3. (Whole /\ BinWhole /\ BinRest)'
      BY <2>0, <3>2 DEF Whole, BinWhole, BinRest
    <3> QED
      BY <2>0, <2>4, <3>1, <3>3 DEF Halfway, Writing
  <2>7. ~\E e \in File \cup {"manifest"} : UnlinkGone(t, e)
    BY NothingGone
  <2>8. CASE Lock(t) /\ t \in Users
    <3>1. op[t] \in {"delete", "restore", "purge", "patch"}
      BY <2>0, <2>8, TrashAssumption DEF Lock, Program
    <3>2. /\ FirstStep["delete"] = "mkdir" /\ FirstStep["restore"] = "plan"
          /\ FirstStep["purge"] = "plan" /\ FirstStep["patch"] = "read"
      BY DEF FirstStep
    <3>3. pc'[t] = FirstStep[op[t]] /\ pc[t] = "lock"
      BY <1>0, <2>8 DEF Lock, Goto
    <3> QED
      BY <2>2, <3>1, <3>2, <3>3
  <2>9. CASE t \in Users /\ \E q \in Requests : Request(t, q)
    <3>1. /\ pc[t] = "idle" /\ pc'[t] \in {"list", "txt", "lock"}
          /\ pc'[t] = "txt" => op'[t] = "transcribe"
      BY <1>0, <2>9 DEF Request, Goto
    <3> QED
      BY <2>2, <3>1
  <2>12. CASE Read(t)
    <3>1. /\ pc[t] = "read" /\ pc'[t] \in {"import", "json", "idle"}
          /\ op[t] # "transcribe" /\ op'[t] \in {op[t], "none"}
      BY <1>0, <2>0, <2>12 DEF Read, Goto, Return, Program
    <3> QED
      BY <2>2, <3>1
  <2>13. CASE /\ ~Plan(t) /\ ~WriteManifestFails(t) /\ ~MoveFails(t) /\ ~Moved(t) /\ ~Undone(t)
              /\ ~(Lock(t) /\ t \in Users) /\ ~(t \in Users /\ \E q \in Requests : Request(t, q)) /\ ~Read(t)
    <3>1. /\ pc[t] \notin {"move", "undo", "unlink", "txt", "json"}
          /\ pc'[t] \notin {"move", "undo", "manifest", "write", "txt", "json"}
      BY <1>0, <1>1, <2>7, <2>10, <2>13, ZenonT(60) DEF QuietStep, Upsert, Record, SweepBegin,
          SweepLock, Import, Commit, SweepPull, Verify, Index, Settle, List, Goto, Return
    <3> QED
      BY <2>2, <3>1
  <2> QED
    BY <2>3, <2>5, <2>6, <2>8, <2>9, <2>11, <2>12, <2>13
<1>2. ASSUME NEW t \in Threads, FileStep(t) PROVE Halfway'
  <2>0. /\ \A u \in Threads \ {t} : /\ pc[u] \notin {"move", "undo", "txt", "json", "manifest", "write", "unlink"}
                                    /\ pc'[u] \notin {"move", "undo", "txt", "json", "manifest", "write", "unlink"}
        /\ Unmoved(t) /\ Program(t)
    BY <1>2, Alone DEF Moving, Order
  <2>1. CASE Mkdir(t)
    <3>1. pc[t] = "mkdir" /\ pc'[t] = "manifest" /\ orig["json"] # 0 /\ UNCHANGED <<orig, bin, manifest>>
      BY <1>0, <2>1 DEF Mkdir, Goto
    <3>2. Whole /\ BinWhole /\ BinRest
      BY <2>0, <3>1 DEF Halfway, Writing
    <3>3. (Whole /\ BinWhole /\ BinRest)'
      BY <3>1, <3>2 DEF Whole, BinWhole, BinRest
    <3> QED
      BY <2>0, <3>1, <3>3 DEF Halfway, Writing
  <2>2. CASE Manifest(t)
    <3>1. /\ pc[t] = "manifest" /\ done'[t] = {} /\ op'[t] = op[t] /\ op[t] # "restore" /\ UNCHANGED <<orig, bin>>
          /\ \/ pc'[t] = "undo" /\ UNCHANGED manifest
             \/ /\ pc'[t] = "write" /\ manifest' = Torn
                /\ moves'[t] = {"json"} \cup {f \in File : orig[f] # 0}
      BY <1>0, <2>0, <2>2 DEF Manifest, Unmoved, Program, Goto
    <3>2. Whole /\ BinWhole /\ BinRest /\ orig["json"] # 0
      BY <2>0, <3>1 DEF Halfway, Writing
    <3>3. \A f \in File : orig[f] # 0
      BY <1>0, <3>2 DEF Whole
    <3>4. CASE pc'[t] = "undo"
      <4>1. Out(t)'
        BY <1>0, <3>1, <3>2, <3>3, <3>4 DEF Out, BinWhole
      <4> QED
        BY <2>0, <3>1, <3>4, <4>1 DEF Halfway, Writing
    <3>5. CASE pc'[t] = "write"
      <4>1. moves'[t] = File
        BY <1>0, <3>1, <3>3, <3>5
      <4>2. (Whole /\ BinWhole /\ BinRest)' /\ orig'["json"] # 0
        BY <3>1, <3>2 DEF Whole, BinWhole, BinRest
      <4> QED
        BY <2>0, <3>1, <3>5, <4>1, <4>2 DEF Halfway, Writing
    <3> QED
      BY <3>1, <3>4, <3>5
  <2>10. CASE WriteManifest(t)
    <3>1. /\ pc[t] = "write" /\ pc'[t] = "move" /\ done'[t] = {} /\ op'[t] = op[t] /\ op[t] # "restore"
          /\ UNCHANGED <<orig, bin, moves>>
      BY <1>0, <2>0, <2>10 DEF WriteManifest, Unmoved, Program, Goto
    <3>2. Whole /\ BinWhole /\ orig["json"] # 0 /\ moves[t] = File
      BY <2>0, <3>1 DEF Halfway, Writing
    <3>3. Out(t)'
      BY <1>0, <3>1, <3>2 DEF Out, Whole, BinWhole
    <3>4. manifest' \in {{}, File}
      BY <2>10, <3>2 DEF WriteManifest
    <3> QED
      BY <2>0, <3>1, <3>3, <3>4 DEF Halfway, Writing
  <2>3. ASSUME pc'[t] \in {"move", "undo"}, op'[t] = op[t], UNCHANGED manifest,
               IF op[t] = "restore" THEN Back(t)' ELSE Out(t)'
        PROVE  Halfway'
    BY <2>0, <2>3 DEF Halfway, Writing
  <2>4. CASE Move(t)
    <3>1. /\ pc[t] = "move" /\ UNCHANGED <<pc, op, manifest, dir>> /\ moves[t] # {}
          /\ moves'[t] = moves[t] \ {FirstOf(moves[t])} /\ done'[t] = done[t] \cup {FirstOf(moves[t])}
          /\ FirstOf(moves[t]) \in File /\ FirstOf(moves[t]) \in moves[t]
      BY <1>0, <2>4, FirstLast DEF Move
    <3>2. CASE op[t] = "restore"
      <4>1. /\ dir /\ moves[t] = File \ done[t]
            /\ \A f \in File : IF f \in done[t] THEN orig[f] # 0 /\ bin[f] = 0 ELSE orig[f] = 0 /\ bin[f] # 0
        BY <3>1, <3>2 DEF Halfway, Back
      <4>2. ToOrigin(t, FirstOf(moves[t]))
        BY <2>4, <3>2 DEF Move
      <4>3. Back(t)'
        <5>1. moves'[t] = File \ done'[t]
          BY <3>1, <4>1
        <5>2. \A f \in File : IF f \in done'[t] THEN orig'[f] # 0 /\ bin'[f] = 0 ELSE orig'[f] = 0 /\ bin'[f] # 0
          BY <1>0, <3>1, <4>1, <4>2 DEF ToOrigin
        <5> QED
          BY <3>1, <4>1, <5>1, <5>2 DEF Back
      <4> QED
        BY <2>3, <3>1, <3>2, <4>3
    <3>3. CASE op[t] # "restore"
      <4>1. Out(t)
        BY <3>1, <3>3 DEF Halfway, Writing
      <4>2. ToTrash(FirstOf(moves[t]))
        BY <2>4, <3>3 DEF Move
      <4>3. moves[t] = File \ done[t] /\ done[t] \in {{}, {"json"}}
        BY <1>0, <3>1, <4>1 DEF Out
      <4>4. \/ done[t] = {} /\ FirstOf(moves[t]) = "json"
            \/ done[t] = {"json"} /\ FirstOf(moves[t]) = "txt"
        BY <1>0, <4>3 DEF FirstOf
      <4>5. done'[t] \in {{"json"}, File} /\ done'[t] # {} /\ moves'[t] = File \ done'[t]
        BY <1>0, <3>1, <4>3, <4>4
      <4>6. \A f \in File : IF f \in done'[t] THEN orig'[f] = 0 /\ bin'[f] # 0 ELSE orig'[f] # 0
        BY <1>0, <3>1, <4>1, <4>2, <4>3 DEF Out, ToTrash
      <4>7. Out(t)'
        BY <3>1, <4>5, <4>6 DEF Out
      <4> QED
        BY <2>3, <3>1, <3>3, <4>7
    <3> QED
      BY <3>2, <3>3
  <2>5. CASE Undo(t)
    <3>1. /\ pc[t] = "undo" /\ UNCHANGED <<pc, op, manifest, dir>> /\ done[t] # {}
          /\ done'[t] = done[t] \ {LastOf(done[t])}
          /\ LastOf(done[t]) \in File /\ LastOf(done[t]) \in done[t]
      BY <1>0, <2>5, FirstLast DEF Undo
    <3>2. CASE op[t] = "restore"
      <4>1. /\ dir
            /\ \A f \in File : IF f \in done[t] THEN orig[f] # 0 /\ bin[f] = 0 ELSE orig[f] = 0 /\ bin[f] # 0
        BY <3>1, <3>2 DEF Halfway, Back
      <4>2. ToTrash(LastOf(done[t]))
        BY <2>5, <3>1, <3>2, <4>1 DEF Undo
      <4>3. \A f \in File : IF f \in done'[t] THEN orig'[f] # 0 /\ bin'[f] = 0 ELSE orig'[f] = 0 /\ bin'[f] # 0
        BY <1>0, <3>1, <4>1, <4>2 DEF ToTrash
      <4>4. Back(t)'
        BY <3>1, <4>1, <4>3 DEF Back
      <4> QED
        BY <2>3, <3>1, <3>2, <4>4
    <3>3. CASE op[t] # "restore"
      <4>1. Out(t)
        BY <3>1, <3>3 DEF Halfway, Writing
      <4>2. done[t] = {"json"} /\ LastOf(done[t]) = "json"
        BY <1>0, <3>1, <4>1 DEF Out, LastOf
      <4>3. ToOrigin(t, "json")
        BY <1>0, <2>5, <3>3, <4>1, <4>2 DEF Undo, Out
      <4>4. done'[t] = {} /\ bin'["json"] = 0 /\ orig'["json"] # 0 /\ orig'["txt"] = orig["txt"] /\ orig["txt"] # 0
        BY <1>0, <3>1, <4>1, <4>2, <4>3 DEF Out, ToOrigin
      <4>5. Out(t)'
        BY <1>0, <3>1, <4>4 DEF Out, BinWhole
      <4> QED
        BY <2>3, <3>1, <3>3, <4>5
    <3> QED
      BY <3>2, <3>3
  <2>6. CASE \E e \in File \cup {"manifest"} : Unlink(t, e)
    <3>1. pc[t] = "unlink" /\ pc'[t] = "unlink" /\ UNCHANGED orig /\ manifest' \in {{}, manifest}
      BY <2>6 DEF Unlink
    <3>2. Whole
      BY <2>0, <3>1 DEF Halfway, Writing
    <3>3. Whole'
      BY <3>1, <3>2 DEF Whole
    <3> QED
      BY <2>0, <3>1, <3>3 DEF Halfway, Writing
  <2>7. CASE Rmdir(t)
    <3>1. pc[t] = "unlink" /\ pc'[t] \in {"upsert", "idle"} /\ UNCHANGED <<orig, bin, manifest>> /\ Entries = {}
      BY <1>0, <2>7 DEF Rmdir, Goto, Return, InManifest
    <3>2. bin["json"] = 0 /\ bin["txt"] = 0
      BY <1>0, <3>1 DEF Entries
    <3>3. Whole
      BY <2>0, <3>1 DEF Halfway, Writing
    <3>4. (Whole /\ BinWhole /\ BinRest)'
      BY <3>1, <3>2, <3>3 DEF Whole, BinWhole, BinRest
    <3> QED
      BY <2>0, <3>1, <3>4 DEF Halfway, Writing
  <2>8. CASE WriteJson(t)
    <3>1. /\ pc[t] = "json" /\ op'[t] = op[t] /\ UNCHANGED <<bin, manifest>>
          /\ orig'["json"] # 0 /\ orig'["txt"] = orig["txt"]
          /\ pc'[t] = IF op[t] = "transcribe" THEN "upsert" ELSE "txt"
      BY <1>0, <2>8 DEF WriteJson, Goto
    <3>2. BinWhole /\ (op[t] = "transcribe" => orig["txt"] # 0)
      BY <2>0, <3>1 DEF Halfway
    <3>3. (BinWhole /\ BinRest)' /\ (op[t] = "transcribe" => Whole')
      BY <3>1, <3>2 DEF BinWhole, BinRest, Whole
    <3> QED
      BY <2>0, <3>1, <3>3 DEF Halfway, Writing
  <2>9. CASE WriteTxt(t)
    <3>1. /\ pc[t] = "txt" /\ op'[t] = op[t] /\ UNCHANGED <<bin, manifest>>
          /\ orig'["json"] = orig["json"] /\ orig'["txt"] # 0
          /\ pc'[t] = IF op[t] = "transcribe" THEN "json" ELSE "upsert"
      BY <1>0, <2>9 DEF WriteTxt, Goto
    <3>2. BinWhole /\ BinRest /\ (op[t] # "transcribe" => orig["json"] # 0)
      BY <2>0, <3>1 DEF Halfway
    <3>3. (BinWhole /\ BinRest)' /\ (op[t] # "transcribe" => Whole')
      BY <3>1, <3>2 DEF Whole, BinWhole, BinRest
    <3> QED
      BY <2>0, <3>1, <3>3 DEF Halfway, Writing
  <2> QED
    BY <1>2, <2>1, <2>2, <2>4, <2>5, <2>6, <2>7, <2>8, <2>9, <2>10 DEF FileStep
<1>3. ASSUME UNCHANGED vars \/ OtherStep PROVE Halfway'
  <2>1. ~Crash
    BY DEF Crash
  <2>2. UNCHANGED <<orig, bin, manifest, dir, pc, op, moves, done>>
    BY <1>3, <2>1 DEF OtherStep, vars, files, thread, HubEdit, RuntimePull, Look, Listed,
        ListCopy, Prune
  <2> QED
    BY <2>2 DEF Halfway, Writing, Whole, BinWhole, BinRest, Out, Back
<1> QED
  BY <1>1, <1>2, <1>3, Steps

LEMMA SoundStep ==
  ASSUME TypeOK, Order, Sound, [Next]_vars
  PROVE  Sound'
<1>1. ASSUME ~mixed' PROVE Single' /\ InManifest' /\ (~crashed' /\ ~stuck' => Halfway')
  <2>1. ~mixed /\ Single /\ InManifest /\ (~crashed /\ ~stuck => Halfway)
    BY <1>1, Remembered DEF Sound
  <2> QED
    BY <1>1, <2>1, SingleStep, InManifestStep, HalfwayStep, Remembered
<1> QED
  BY <1>1 DEF Sound

-----------------------------------------------------------------------------
LEMMA InvInit == Init => IInv
<1> SUFFICES ASSUME Init PROVE IInv
  OBVIOUS
<1>0. /\ MaxVersion \in Nat /\ 0 \in Version /\ 1 \in Version /\ "json" \in File /\ "txt" \in File
      /\ 0 \in 0..MaxOps /\ 0 \in 0..MaxFaults /\ 1 \in 1..MaxVersion
  BY TrashAssumption DEF Version, File
<1>1. TypeOK
  BY <1>0 DEF Init, TypeOK, FilesType, PlacesType, ThreadType, GhostType
<1>2. Order
  BY DEF Init, Order, Program, Locked, Unmoved, Filled
<1>3. Numbered
  BY <1>0 DEF Init, Numbered
<1>4. Checked /\ Swept
  BY <1>0 DEF Init, Checked, Swept
<1>5. Custody
  BY <1>0 DEF Init, Custody, Home, Clear
<1>6. Sound
  <2>1. Single /\ InManifest
    BY <1>0 DEF Init, Single, InManifest, Moving
  <2>2. Halfway
    BY <1>0 DEF Init, Halfway, Writing, Whole, BinWhole, BinRest
  <2> QED
    BY <2>1, <2>2 DEF Sound
<1>7. VerifiedBeforeTrashed /\ NoFalseFailure
  BY DEF Init, VerifiedBeforeTrashed, NoFalseFailure, Threads
<1> QED
  BY <1>1, <1>2, <1>3, <1>4, <1>5, <1>6, <1>7 DEF IInv

LEMMA InvStep == IInv /\ [Next]_vars => IInv'
<1> SUFFICES ASSUME IInv, [Next]_vars PROVE IInv'
  OBVIOUS
<1>0. /\ TypeOK /\ Order /\ Numbered /\ Checked /\ Swept /\ Custody /\ Sound
      /\ VerifiedBeforeTrashed /\ NoFalseFailure
  BY DEF IInv
<1>1. TypeOK'
  BY <1>0, FilesTypeStep, PlacesTypeStep, ThreadTypeStep, GhostTypeStep DEF TypeOK
<1>2. Order' /\ Numbered' /\ Checked' /\ Swept'
  BY <1>0, OrderStep, NumberedStep, CheckedStep, SweptStep
<1>3. Custody'
  BY <1>0, HomeStep, ClearStep DEF Custody
<1>4. Sound' /\ VerifiedBeforeTrashed' /\ NoFalseFailure'
  BY <1>0, SoundStep, VerifiedStep, NoFalseStep
<1> QED
  BY <1>1, <1>2, <1>3, <1>4 DEF IInv

LEMMA Invariance == Spec => []IInv
BY InvInit, InvStep, PTL DEF Spec

\* migrate_one never moves an original to the trash whose segments, speakers and
\* title the hub has not stored, with any number of users and sweeps, of crashes
\* and failed requests; except for one that took its place after the sweep read it.
THEOREM TrashedOnlyVerified == Spec => []VerifiedBeforeTrashed
<1>1. IInv => VerifiedBeforeTrashed
  BY DEF IInv
<1> QED
  BY <1>1, Invariance, PTL

\* trash_transcript, restore, purge, their roll-backs and the sweeps never lose the
\* last version written: it is in its place, in the trash, on the hub or purged.
THEOREM LastVersionKept == Spec => []Kept
<1>1. IInv => Kept
  BY DEF IInv, Custody, Home, Safe, Kept
<1> QED
  BY <1>1, Invariance, PTL

\* A sweep that waited for _sweep_lock finds a row with a file or no row: it reports
\* no "failed" for what another sweep has migrated, unless an upsert_path that had read
\* the file before has entered its row after the move.
THEOREM SweepsNeverFailFalsely == Spec => []NoFalseFailure
<1>1. IInv => NoFalseFailure
  BY DEF IInv
<1> QED
  BY <1>1, Invariance, PTL

\* What _execute_moves leaves behind, refused renames included, is listed in the trash
\* unless the manifest itself was cut short; and the two files of a transcript are there
\* together unless a rename of a roll-back was refused too.
THEOREM TrashIsSound == Spec => []TrashSound
<1>1. IInv => TrashSound
  <2> SUFFICES ASSUME IInv PROVE TrashSound
    OBVIOUS
  <2>1. TypeOK /\ Order /\ Sound
    BY DEF IInv
  <2>2. ASSUME Quiet PROVE \A t \in Threads : pc[t] = "idle"
    BY <2>1, <2>2 DEF Quiet, Order, Program
  <2>3. TrashListed
    BY <2>1, <2>2 DEF TrashListed, Sound, InManifest
  <2>4. Together
    BY <2>1, <2>2 DEF Together, Sound, Halfway, Writing, Whole
  <2> QED
    BY <2>1, <2>3, <2>4 DEF TrashSound
<1> QED
  BY <1>1, Invariance, PTL
=============================================================================
