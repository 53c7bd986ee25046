--------------------------- MODULE WorkspaceStore ---------------------------
(***************************************************************************)
(* workspace.json at the grain of its file operations.                     *)
(*                                                                         *)
(* _save writes workspace.json.tmp and renames it.  All threads use the    *)
(* same tmp name and no lock: a thread may truncate the tmp another is     *)
(* about to rename, and then goes on writing into what has become          *)
(* workspace.json.                                                         *)
(*                                                                         *)
(* Source: speechtotext/api/workspace.py.                                  *)
(***************************************************************************)
EXTENDS Naturals

CONSTANTS
  Writers,      \* threads that bump the counter (PATCH handlers)
  Readers,      \* threads that only read (sync, pairing, jobs)
  Ids,          \* workspace ids _new_workspace_id may generate
  InitFiles,    \* contents of workspace.json at the start
  Missing,      \* no such file
  Torn,         \* empty, or not the JSON of one record
  NoData,
  BumpValues,   \* Lamports a PATCH may assign
  Crashes       \* whether the process may die

Threads == Writers \cup Readers

\* workspace_id (device_id is generated and saved with it) and lamport_counter
Record == [wid : Ids, lam : Nat]

VARIABLES
  file,    \* workspace.json
  tmp,     \* workspace.json.tmp
  handle,  \* handle[th]: what the file the thread has open has become
  data,    \* data[th]: the record loaded, and then the one to be saved
  value,   \* value[th]: new_value of bump_lamport_to, 0 for a read
  pc,      \* pc[th]: where the thread is
  known,   \* workspace ids that callers have been given
  overlap  \* history: whether two threads were between their load and the end
           \* of their save at once ("save"), or so with no file ("create")

vars == <<file, tmp, handle, data, value, pc, known, overlap>>

TypeOK ==
  /\ file \in Record \cup {Missing, Torn}
  /\ tmp \in Record \cup {Missing, Torn}
  /\ handle \in [Threads -> {"none", "tmp", "file", "gone"}]
  /\ data \in [Threads -> Record \cup {NoData}]
  /\ value \in [Threads -> Nat]
  /\ pc \in [Threads -> {"idle", "ready", "open", "write", "replace"}]
  /\ known \subseteq Ids
  /\ overlap \in {"none", "save", "create"}

Init ==
  /\ file \in InitFiles
  /\ tmp = Missing
  /\ handle = [th \in Threads |-> "none"]
  /\ data = [th \in Threads |-> NoData]
  /\ value = [th \in Threads |-> 0]
  /\ pc = [th \in Threads |-> "idle"]
  /\ known = {}
  /\ overlap = "none"

-----------------------------------------------------------------------------
Goto(th, where) == pc' = [pc EXCEPT ![th] = where]

\* The call returns or raises.
Done(th) ==
  /\ Goto(th, "idle")
  /\ data' = [data EXCEPT ![th] = NoData]
  /\ value' = [value EXCEPT ![th] = 0]
  /\ handle' = [handle EXCEPT ![th] = "none"]

\* The thread has loaded a record that it may yet save.
Saving(th) ==
  \/ pc[th] \in {"open", "write", "replace"}
  \/ pc[th] = "ready" /\ value[th] > 0

\* Two threads overlap from the load of the second on.
Overlapping == \E t, u \in Threads : t # u /\ Saving(t) /\ Saving(u)

NoteOverlap ==
  overlap' = IF ~Overlapping' THEN overlap
             ELSE IF overlap = "create" \/ file = Missing THEN "create" ELSE "save"

\* Fault: a new identity is used and not saved.
LoadUnsaved(th, v) ==
  /\ pc[th] = "idle"
  /\ value' = [value EXCEPT ![th] = v]
  /\ \/ file \in Record /\ data' = [data EXCEPT ![th] = file]
     \/ file = Missing /\ \E id \in Ids : data' = [data EXCEPT ![th] = [wid |-> id, lam |-> 0]]
  /\ Goto(th, "ready")
  /\ NoteOverlap
  /\ UNCHANGED <<file, tmp, handle, known>>

\* Fault: a corrupt file is replaced by a new identity.
LoadRegenerate(th, v) ==
  /\ pc[th] = "idle"
  /\ value' = [value EXCEPT ![th] = v]
  /\ \/ /\ file \in Record
        /\ data' = [data EXCEPT ![th] = file]
        /\ Goto(th, "ready")
     \/ /\ file \notin Record
        /\ \E id \in Ids : data' = [data EXCEPT ![th] = [wid |-> id, lam |-> 0]]
        /\ Goto(th, "open")
  /\ NoteOverlap
  /\ UNCHANGED <<file, tmp, handle, known>>

\* _load: a corrupt file raises CorruptedWorkspaceError (no state changes); a
\* missing one gives a new identity, which _ensure saves.
Load(th, v) ==
  /\ pc[th] = "idle"
  /\ value' = [value EXCEPT ![th] = v]
  /\ \/ /\ file \in Record
        /\ data' = [data EXCEPT ![th] = file]
        /\ Goto(th, "ready")
     \/ /\ file = Missing
        /\ \E id \in Ids : data' = [data EXCEPT ![th] = [wid |-> id, lam |-> 0]]
        /\ Goto(th, "open")
  /\ NoteOverlap
  /\ UNCHANGED <<file, tmp, handle, known>>

\* Fault: the counter is saved whatever its present value.
ReturnOrBumpAlways(th) ==
  /\ pc[th] = "ready"
  /\ IF value[th] > 0
     THEN /\ data' = [data EXCEPT ![th].lam = value[th]]
          /\ Goto(th, "open")
          /\ UNCHANGED <<handle, value, known>>
     ELSE /\ known' = IF value[th] = 0 THEN known \cup {data[th].wid} ELSE known
          /\ Done(th)
  /\ UNCHANGED <<file, tmp, overlap>>

\* get_workspace_id and get_lamport return; bump_lamport_to compares, and
\* saves a larger value.
ReturnOrBump(th) ==
  /\ pc[th] = "ready"
  /\ IF value[th] > data[th].lam
     THEN /\ data' = [data EXCEPT ![th].lam = value[th]]
          /\ Goto(th, "open")
          /\ UNCHANGED <<handle, value, known>>
     ELSE /\ known' = IF value[th] = 0 THEN known \cup {data[th].wid} ELSE known
          /\ Done(th)
  /\ UNCHANGED <<file, tmp, overlap>>

\* Fault: workspace.json itself is opened for writing.
OpenInPlace(th) ==
  /\ pc[th] = "open"
  /\ file' = Torn
  /\ tmp' = Torn
  /\ handle' = [handle EXCEPT ![th] = "tmp"]
  /\ Goto(th, "write")
  /\ UNCHANGED <<data, value, known, overlap>>

\* tmp.write_text, first half: open for writing creates or truncates.
OpenTmp(th) ==
  /\ pc[th] = "open"
  /\ tmp' = Torn
  /\ handle' = [handle EXCEPT ![th] = "tmp"]
  /\ Goto(th, "write")
  /\ UNCHANGED <<file, data, value, known, overlap>>

\* The length of the JSON text: a new record has no lamport_counter yet, and
\* then the number of digits decides.
Digits(n) == IF n = 0 THEN 0 ELSE IF n < 10 THEN 1 ELSE 2

\* Text written at offset 0 of a file that another thread has filled since:
\* a shorter text leaves the end of the longer one behind.
Overwrite(old, new) ==
  IF old \in Record /\ Digits(old.lam) > Digits(new.lam) THEN Torn ELSE new

\* tmp.write_text, second half: write and close.  The open file may have
\* been renamed to workspace.json, or replaced there, in the meantime.
WriteTmp(th) ==
  /\ pc[th] = "write"
  /\ tmp' = IF handle[th] = "tmp" THEN Overwrite(tmp, data[th]) ELSE tmp
  /\ file' = IF handle[th] = "file" THEN Overwrite(file, data[th]) ELSE file
  /\ handle' = [handle EXCEPT ![th] = "none"]
  /\ Goto(th, "replace")
  /\ UNCHANGED <<data, value, known, overlap>>

\* What becomes of an open file when the tmp takes the place of workspace.json.
Renamed(h) == IF h = "tmp" THEN "file" ELSE IF h = "file" THEN "gone" ELSE h

\* os.replace(tmp, path), or FileNotFoundError when another thread has
\* already renamed the tmp.  _ensure then goes on to the counter.
Replace(th) ==
  /\ pc[th] = "replace"
  /\ \/ /\ tmp # Missing
        /\ file' = tmp
        /\ tmp' = Missing
        /\ handle' = [u \in Threads |-> Renamed(handle[u])]
        /\ Goto(th, "ready")
        /\ UNCHANGED <<data, value, known, overlap>>
     \/ /\ tmp = Missing
        /\ Done(th)
        /\ UNCHANGED <<file, tmp, known, overlap>>

\* The process dies between two file operations.
Crash ==
  /\ Crashes
  /\ pc # [th \in Threads |-> "idle"]
  /\ handle' = [th \in Threads |-> "none"]
  /\ data' = [th \in Threads |-> NoData]
  /\ value' = [th \in Threads |-> 0]
  /\ pc' = [th \in Threads |-> "idle"]
  /\ UNCHANGED <<file, tmp, known, overlap>>

Step(th) == ReturnOrBump(th) \/ OpenTmp(th) \/ WriteTmp(th) \/ Replace(th)

Next ==
  \/ \E th \in Threads : Load(th, 0) \/ Step(th)
  \/ \E th \in Writers, v \in BumpValues : Load(th, v)
  \/ Crash

Spec == Init /\ [][Next]_vars

-----------------------------------------------------------------------------
\* _ensure: "the file is always in one of two states: missing, or complete",
\* at every instant a reader or a restarted process may look at it, and wherever
\* the process died.  All threads save through one tmp file: it holds as long as
\* no two saves have overlapped.
WholeUnlessOverlapped == overlap = "none" => file # Torn

\* All callers are given the same workspace_id, before and after a crash: the
\* paired devices and synced transcripts of a workspace belong to one id.
\* Overlapping saves do not endanger it once the file exists; two threads that
\* both find no file at the first boot do.
OneIdentity == overlap # "create" => \A a, b \in known : a = b

\* The file operations implement the promise of WorkspaceIdentity: the
\* identity never changes and the counter never moves back, as long as no two
\* saves have overlapped.
Identity == INSTANCE WorkspaceIdentity WITH
              NoId <- Missing,
              wid <- IF file \in Record THEN file.wid ELSE file,
              lam <- IF file \in Record THEN file.lam ELSE 0

ImplementsIdentity ==
  Identity!Init /\ [][overlap' # "none" \/ Identity!Create \/ Identity!Advance]_file

\* What a reader or a restarted process finds is a workspace or no file.
FileSound == TypeOK /\ WholeUnlessOverlapped

ASSUME WorkspaceAssumption ==
  /\ Writers \cap Readers = {}
  /\ InitFiles \subseteq Record \cup {Missing}
  /\ BumpValues \subseteq Nat
  /\ Crashes \in BOOLEAN
  /\ Missing \notin Record /\ Torn \notin Record /\ NoData \notin Record
  /\ Missing # Torn /\ Missing \notin Ids /\ Torn \notin Ids
=============================================================================
