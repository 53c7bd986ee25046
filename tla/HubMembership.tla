---------------------------- MODULE HubMembership ----------------------------
(***************************************************************************)
(* Joining and leaving a hub, pairing tokens and the device registry.      *)
(*                                                                         *)
(* A laptop belongs to the hub named in its state file and signs with the  *)
(* key in its key file.  Join, leave, the runtime thread and the settings  *)
(* routes change the two files from different threads; only updates of     *)
(* single fields of the state take a lock.                                 *)
(*                                                                         *)
(* tangled records that a join or a leave has met another one, or a leave  *)
(* an update being written: the files may then disagree (the loser of two  *)
(* joins deletes the winner's key, an update writes a deleted state back). *)
(* strayed records that a leave has met a runtime cycle or a migration with*)
(* a client of the hub that is left: it goes on pulling from that hub, and *)
(* the cursor it brings may end up in the state of the next one.  keyLeft  *)
(* records that a crash, a state file that could not be saved or a key     *)
(* file that could not be deleted may have left a key behind.  The         *)
(* properties are about all other histories, restarts included.            *)
(*                                                                         *)
(* Source: speechtotext/client/join.py, state.py, identity.py, migrate.py, *)
(* sync_puller.py, hub_runtime.py, speechtotext/api/routes_client.py,      *)
(* runner.py, routes_pairing.py, pairing.py, devices.py.                   *)
(***************************************************************************)
EXTENDS Naturals, FiniteSets, Sequences

CONSTANTS
  Hubs,
  Tokens,     \* pairing tokens
  HubOf,      \* HubOf[t]: the hub that mints t
  Joiners,    \* threads in POST /client/hub/join
  Leavers,    \* threads in POST /client/hub/leave
  Runtimes,   \* runtime threads; a second one when stop() gives up on the first
  Migrators,  \* migration jobs
  Setters,    \* threads in POST offline-capture
  TTL,        \* TOKEN_TTL_SECONDS
  MaxTime,    \* bound on the clock
  MaxKeys,    \* bound on the keys generated
  MaxFaults,  \* bound on failures
  None

Updaters == Runtimes \cup Migrators \cup Setters

VARIABLES
  now,
  token,     \* token[t]: "new", "active" or "spent" in the hub's token store
  minted,    \* minted[t]: created_at
  devices,   \* rows of the hubs' registries; the index is the device id
  revoked,   \* device ids whose row has been deleted
  state,     \* the state file: hub, device id, and the hub its cursor is from
  key,       \* the key file: a key, or None
  keys,      \* number of keys generated
  jpc,       \* jpc[j]: where a join is
  jtok,      \* jtok[j]: the token of its pairing string
  jkey,      \* jkey[j]: the key it has generated
  jdev,      \* jdev[j]: the device id the hub has assigned
  lpc,       \* lpc[l]: where a leave is
  thread,    \* HubRuntime._thread
  stopping,  \* HubRuntime._stop
  upc,       \* upc[u]: where a runtime, migration or setter is
  uhub,      \* uhub[u]: the hub of u's client, whose cursor u brings
  copy,      \* copy[u]: the state an update has loaded
  lock,      \* holder of state._lock
  faults,
  keyLeft,   \* ghosts, see above
  tangled,
  strayed

pairing == <<token, minted, devices, revoked>>
files == <<state, key>>
joins == <<keys, jpc, jtok, jkey, jdev>>
updates == <<upc, uhub, copy, lock>>
background == <<thread, stopping>>
ghost == <<keyLeft, tangled, strayed>>
vars == <<now, pairing, files, joins, lpc, background, updates, faults, ghost>>

State == [hub : Hubs, dev : Nat, from : Hubs \cup {None}]

HubType ==
  /\ now \in 0..MaxTime
  /\ token \in [Tokens -> {"new", "active", "spent"}] /\ minted \in [Tokens -> 0..MaxTime]
  /\ devices \in Seq([hub : Hubs, key : 1..MaxKeys, tok : Tokens])
  /\ revoked \subseteq DOMAIN devices

JoinType ==
  /\ state \in State \cup {None} /\ key \in (1..MaxKeys) \cup {None} /\ keys \in 0..MaxKeys
  /\ jpc \in [Joiners -> {"idle", "generate", "pair", "store", "save", "rollback", "start"}]
  /\ jtok \in [Joiners -> Tokens \cup {None}]
  /\ jkey \in [Joiners -> 0..MaxKeys] /\ jdev \in [Joiners -> 0..Len(devices)]
  /\ lpc \in [Leavers -> {"idle", "stop", "state", "key"}]

UpdateType ==
  /\ thread \in Runtimes \cup {None} /\ stopping \in BOOLEAN
  /\ upc \in [Updaters -> {"off", "top", "pull", "update", "write"}]
  /\ uhub \in [Updaters -> Hubs \cup {None}] /\ copy \in [Updaters -> State \cup {None}]
  /\ lock \in Updaters \cup {None}
  /\ faults \in 0..MaxFaults
  /\ keyLeft \in BOOLEAN /\ tangled \in BOOLEAN /\ strayed \in BOOLEAN

TypeOK == HubType /\ JoinType /\ UpdateType

Init ==
  /\ now = 0
  /\ token = [t \in Tokens |-> "new"] /\ minted = [t \in Tokens |-> 0]
  /\ devices = <<>> /\ revoked = {}
  /\ state = None /\ key = None /\ keys = 0
  /\ jpc = [j \in Joiners |-> "idle"] /\ jtok = [j \in Joiners |-> None]
  /\ jkey = [j \in Joiners |-> 0] /\ jdev = [j \in Joiners |-> 0]
  /\ lpc = [l \in Leavers |-> "idle"]
  /\ thread = None /\ stopping = FALSE
  /\ upc = [u \in Updaters |-> "off"] /\ uhub = [u \in Updaters |-> None]
  /\ copy = [u \in Updaters |-> None] /\ lock = None
  /\ faults = 0 /\ keyLeft = FALSE /\ tangled = FALSE /\ strayed = FALSE

Fault == faults < MaxFaults /\ faults' = faults + 1

-----------------------------------------------------------------------------
(* The hub. *)

Mint(t) ==
  /\ token[t] = "new"
  /\ token' = [token EXCEPT ![t] = "active"]
  /\ minted' = [minted EXCEPT ![t] = now]
  /\ UNCHANGED <<now, devices, revoked, files, joins, lpc, background, updates, faults, ghost>>

Tick ==
  /\ now < MaxTime
  /\ now' = now + 1
  /\ UNCHANGED <<pairing, files, joins, lpc, background, updates, faults, ghost>>

Expired(t) == now - minted[t] >= TTL

\* purge_expired, when another token is minted: an expired token is spent.
Purge(t) ==
  /\ token[t] = "active" /\ Expired(t)
  /\ token' = [token EXCEPT ![t] = "spent"]
  /\ UNCHANGED <<now, minted, devices, revoked, files, joins, lpc, background, updates,
                 faults, ghost>>

\* The hub restarts: its tokens are lost, the registry is on disk.
HubRestarts(h) ==
  /\ Fault
  /\ token' = [t \in Tokens |-> IF HubOf[t] = h /\ token[t] = "active" THEN "spent" ELSE token[t]]
  /\ UNCHANGED <<now, minted, devices, revoked, files, joins, lpc, background, updates, ghost>>

\* DELETE /devices/paired/{id}.
Unpair(d) ==
  /\ d \notin revoked /\ Fault
  /\ revoked' = revoked \cup {d}
  /\ UNCHANGED <<now, token, minted, devices, files, joins, lpc, background, updates, ghost>>

-----------------------------------------------------------------------------
(* join_hub. *)

JoinOrLeave == \/ \E j \in Joiners : jpc[j] # "idle"
               \/ \E l \in Leavers : lpc[l] # "idle"

JGoto(j, where) == jpc' = [jpc EXCEPT ![j] = where]

\* The call returns or raises.
JDone(j) ==
  /\ JGoto(j, "idle")
  /\ jtok' = [jtok EXCEPT ![j] = None]
  /\ jkey' = [jkey EXCEPT ![j] = 0]
  /\ jdev' = [jdev EXCEPT ![j] = 0]

\* A laptop that has joined answers 409.
JoinBegin(j, t) ==
  /\ jpc[j] = "idle" /\ state = None /\ keys < MaxKeys /\ token[t] # "new"
  /\ jtok' = [jtok EXCEPT ![j] = t]
  /\ JGoto(j, "generate")
  /\ tangled' = (tangled \/ JoinOrLeave)
  /\ UNCHANGED <<now, pairing, files, keys, jkey, jdev, lpc, background, updates, faults,
                 keyLeft, strayed>>

\* identity.generate writes the key file.
Generate(j) ==
  /\ jpc[j] = "generate" /\ keys < MaxKeys
  /\ keys' = keys + 1
  /\ jkey' = [jkey EXCEPT ![j] = keys']
  /\ key' = keys'
  /\ JGoto(j, "pair")
  /\ UNCHANGED <<now, pairing, state, jtok, jdev, lpc, background, updates, faults, ghost>>

\* Fault: the token can be used again.
ConsumeKeeps(t) == token[t] = "active" /\ ~Expired(t) /\ UNCHANGED token

\* consume: single use, within the time to live.
Consume(t) == token[t] = "active" /\ ~Expired(t) /\ token' = [token EXCEPT ![t] = "spent"]

\* POST /pair succeeds on the hub; the answer may be lost on the way back.
Pair(j) ==
  /\ jpc[j] = "pair"
  /\ Consume(jtok[j])
  /\ devices' = Append(devices, [hub |-> HubOf[jtok[j]], key |-> jkey[j], tok |-> jtok[j]])
  /\ \/ /\ JGoto(j, "store")
        /\ jdev' = [jdev EXCEPT ![j] = Len(devices')]
        /\ UNCHANGED faults
     \/ JGoto(j, "rollback") /\ Fault /\ UNCHANGED jdev
  /\ UNCHANGED <<now, minted, revoked, files, keys, jtok, jkey, lpc, background, updates, ghost>>

\* The hub refuses the token (an expired one is spent), or is not reached.
PairFails(j) ==
  /\ jpc[j] = "pair"
  /\ LET t == jtok[j] IN
     \/ /\ token[t] # "active" \/ Expired(t)
        /\ token' = [token EXCEPT ![t] = "spent"]
        /\ UNCHANGED faults
     \/ Fault /\ UNCHANGED token
  /\ JGoto(j, "rollback")
  /\ UNCHANGED <<now, minted, devices, revoked, files, keys, jtok, jkey, jdev, lpc,
                 background, updates, ghost>>

\* identity.delete: whatever key is in the file; the unlink may be refused.
DropKey ==
  \/ key' = None /\ UNCHANGED <<faults, keyLeft>>
  \/ Fault /\ keyLeft' = TRUE /\ UNCHANGED key

\* The except clause.
Rollback(j) ==
  /\ jpc[j] = "rollback"
  /\ DropKey
  /\ JDone(j)
  /\ UNCHANGED <<now, pairing, state, keys, lpc, background, updates, tangled, strayed>>

\* store_workspace_key saves the identity of this join.
StoreKey(j) ==
  /\ jpc[j] = "store"
  /\ key' = jkey[j]
  /\ JGoto(j, "save")
  /\ UNCHANGED <<now, pairing, state, keys, jtok, jkey, jdev, lpc, background, updates,
                 faults, ghost>>

\* state.save, under the lock, with cursor 0.
SaveState(j) ==
  /\ jpc[j] = "save" /\ lock = None
  /\ state' = [hub |-> HubOf[jtok[j]], dev |-> jdev[j], from |-> None]
  /\ JGoto(j, "start")
  /\ UNCHANGED <<now, pairing, key, keys, jtok, jkey, jdev, lpc, background, updates,
                 faults, ghost>>

\* The state cannot be made of the answer, or not be written: this is outside
\* the try, so that the exception leaves the key that has just been stored.
SaveFails(j) ==
  /\ jpc[j] = "save" /\ Fault
  /\ JDone(j)
  /\ keyLeft' = TRUE
  /\ UNCHANGED <<now, pairing, files, keys, lpc, background, updates, tangled, strayed>>

ThreadLives == thread # None /\ upc[thread] # "off"

\* runtime.start(), without effect while the thread lives: _stop is cleared,
\* for a thread that has outlived a stop() too, and a thread is started.
StartRuntime(j) ==
  /\ jpc[j] = "start"
  /\ IF state = None \/ ThreadLives
     THEN UNCHANGED <<upc, thread, stopping>>
     ELSE /\ \E r \in Runtimes :
               upc[r] = "off" /\ upc' = [upc EXCEPT ![r] = "top"] /\ thread' = r
          /\ stopping' = FALSE
  /\ JDone(j)
  /\ UNCHANGED <<now, pairing, files, keys, lpc, uhub, copy, lock,
                 faults, ghost>>

-----------------------------------------------------------------------------
(* leave. *)

LGoto(l, where) == lpc' = [lpc EXCEPT ![l] = where]

\* runtime.stop() sets the flag.
LeaveBegin(l) ==
  /\ lpc[l] = "idle"
  /\ stopping' = TRUE
  /\ LGoto(l, "stop")
  /\ tangled' = (tangled \/ JoinOrLeave)
  /\ UNCHANGED <<now, pairing, files, joins, thread, updates, faults, keyLeft, strayed>>

\* The thread has ended, or five seconds have passed.
Stopped(l) ==
  /\ lpc[l] = "stop"
  /\ IF ThreadLives THEN Fault ELSE UNCHANGED faults
  /\ thread' = None
  /\ LGoto(l, "state")
  /\ UNCHANGED <<now, pairing, files, joins, stopping, updates, ghost>>

\* Fault: the key is deleted first.
DeleteStateKeyFirst(l) ==
  /\ lpc[l] = "state"
  /\ key' = None
  /\ LGoto(l, "key")
  /\ UNCHANGED <<now, pairing, state, joins, background, updates, faults, ghost>>

\* state.delete() does not take the lock.
DeleteState(l) ==
  /\ lpc[l] = "state"
  /\ state' = None
  /\ LGoto(l, "key")
  /\ tangled' = (tangled \/ \E u \in Updaters : upc[u] = "write")
  /\ strayed' = (strayed \/ \E u \in Updaters : uhub[u] # None)
  /\ UNCHANGED <<now, pairing, key, joins, background, updates, faults, keyLeft>>

DeleteKey(l) ==
  /\ lpc[l] = "key"
  /\ DropKey
  /\ LGoto(l, "idle")
  /\ UNCHANGED <<now, pairing, state, joins, background, updates, tangled, strayed>>

-----------------------------------------------------------------------------
(* The runtime thread, migrations and updates of single fields. *)

UGoto(u, where) == upc' = [upc EXCEPT ![u] = where]

\* A cycle begins: the thread ends when it is told to stop or has no state
\* or key, else it builds a client for the hub of the state.
Cycle(r) ==
  /\ upc[r] = "top"
  /\ IF stopping \/ state = None \/ key = None
     THEN UGoto(r, "off") /\ UNCHANGED uhub
     ELSE UGoto(r, "pull") /\ uhub' = [uhub EXCEPT ![r] = state.hub]
  /\ UNCHANGED <<now, pairing, files, joins, lpc, background, copy, lock, faults, ghost>>

\* The next cycle of a runtime, the end of another thread.
UDone(u) == /\ UGoto(u, IF u \in Runtimes THEN "top" ELSE "off")
            /\ uhub' = [uhub EXCEPT ![u] = None]

\* A sweep pulls for each transcript, all with the client it began with.
PullAgain(u) == uhub[u] # None /\ UGoto(u, "pull") /\ UNCHANGED uhub

\* run_migrate_job builds a client of the hub it is joined to.
MigrateBegin(m) ==
  /\ upc[m] = "off" /\ state # None /\ key # None
  /\ UGoto(m, "pull")
  /\ uhub' = [uhub EXCEPT ![m] = state.hub]
  /\ UNCHANGED <<now, pairing, files, joins, lpc, background, copy, lock, faults, ghost>>

\* pull_once: a request the client signs with the key it has loaded is
\* accepted, and the answer has a newer cursor; otherwise it is over.
Pull(u) ==
  /\ upc[u] = "pull"
  /\ \/ UGoto(u, "update") /\ UNCHANGED uhub
     \/ UDone(u)
  /\ UNCHANGED <<now, pairing, files, joins, lpc, background, copy, lock, faults, ghost>>

\* A migration in which nothing failed closes its client and sets migrated_at.
MigrateEnd(m) ==
  /\ upc[m] = "pull"
  /\ UGoto(m, "update")
  /\ uhub' = [uhub EXCEPT ![m] = None]
  /\ UNCHANGED <<now, pairing, files, joins, lpc, background, copy, lock, faults, ghost>>

\* offline-capture: 409 unless joined.
SetField(s) ==
  /\ upc[s] = "off" /\ state # None
  /\ UGoto(s, "update")
  /\ UNCHANGED <<now, pairing, files, joins, lpc, background, uhub, copy, lock, faults, ghost>>

\* update_fields takes the lock and loads; without a state it returns.
UpdateLoad(u) ==
  /\ upc[u] = "update" /\ lock = None
  /\ IF state = None
     THEN (UDone(u) \/ PullAgain(u)) /\ UNCHANGED <<copy, lock>>
     ELSE /\ UGoto(u, "write") /\ copy' = [copy EXCEPT ![u] = state] /\ lock' = u
          /\ UNCHANGED uhub
  /\ UNCHANGED <<now, pairing, files, joins, lpc, background, faults, ghost>>

\* The changed copy is written and the lock released: a client brings the
\* cursor of its hub, whatever hub the state is of, other updates keep it.
UpdateSave(u) ==
  /\ upc[u] = "write"
  /\ state' = [copy[u] EXCEPT !.from = IF uhub[u] # None THEN uhub[u] ELSE @]
  /\ copy' = [copy EXCEPT ![u] = None]
  /\ lock' = None
  /\ UDone(u) \/ PullAgain(u)
  /\ UNCHANGED <<now, pairing, key, joins, lpc, background, faults, ghost>>

\* The laptop's process dies; at start-up the runtime starts if joined.
LaptopRestarts ==
  /\ Fault
  /\ jpc' = [j \in Joiners |-> "idle"] /\ jtok' = [j \in Joiners |-> None]
  /\ jkey' = [j \in Joiners |-> 0] /\ jdev' = [j \in Joiners |-> 0]
  /\ lpc' = [l \in Leavers |-> "idle"]
  /\ stopping' = FALSE /\ keyLeft' = TRUE
  /\ uhub' = [u \in Updaters |-> None]
  /\ copy' = [u \in Updaters |-> None] /\ lock' = None
  /\ \E r \in Runtimes :
       /\ thread' = IF state = None THEN None ELSE r
       /\ upc' = [u \in Updaters |-> IF u = thread' THEN "top" ELSE "off"]
  /\ UNCHANGED <<now, pairing, files, keys, tangled, strayed>>

-----------------------------------------------------------------------------
JoinStep(j) ==
  \/ Generate(j) \/ Pair(j) \/ PairFails(j) \/ Rollback(j) \/ StoreKey(j) \/ SaveState(j)
  \/ SaveFails(j) \/ StartRuntime(j)
LeaveStep(l) == Stopped(l) \/ DeleteState(l) \/ DeleteKey(l)
UpdateStep(u) == UpdateLoad(u) \/ UpdateSave(u)
RuntimeStep(r) == Cycle(r) \/ Pull(r) \/ UpdateStep(r)
MigrateStep(m) == MigrateBegin(m) \/ Pull(m) \/ MigrateEnd(m) \/ UpdateStep(m)

Next ==
  \/ Tick \/ LaptopRestarts
  \/ \E t \in Tokens : Mint(t) \/ Purge(t)
  \/ \E h \in Hubs : HubRestarts(h)
  \/ \E d \in DOMAIN devices : Unpair(d)
  \/ \E j \in Joiners : JoinStep(j)
  \/ \E j \in Joiners, t \in Tokens : JoinBegin(j, t)
  \/ \E l \in Leavers : LeaveBegin(l) \/ LeaveStep(l)
  \/ \E r \in Runtimes : RuntimeStep(r)
  \/ \E m \in Migrators : MigrateStep(m)
  \/ \E s \in Setters : SetField(s) \/ UpdateStep(s)

Spec == Init /\ [][Next]_vars

-----------------------------------------------------------------------------
\* At every instant, and so after a crash too, a laptop with a state file can
\* sign for the device it names: the key file holds the key that the hub
\* registered under this device id.
JoinedCanSign ==
  state # None /\ ~tangled =>
    /\ state.dev \in DOMAIN devices
    /\ devices[state.dev].hub = state.hub /\ devices[state.dev].key = key

\* join_hub, up to the persisting of the state: "leaves no partial state",
\* "no orphan key file lingers".  With no join or leave in progress and no
\* state there is no key, unless keyLeft names what has left one.
NoOrphanKey ==
  state = None /\ ~JoinOrLeave /\ ~tangled /\ ~keyLeft => key = None

\* The cursor in the state is one that this hub has given out, over cycles,
\* migrations and hubs joined one after the other: another hub's would hide
\* its transcripts.  A client that outlives its hub's leave is the exception.
CursorOfThisHub ==
  state # None /\ ~tangled /\ ~strayed => state.from \in {None, state.hub}

\* A token registers one device, for all the joins that present it.
TokenOnce ==
  \A a, b \in DOMAIN devices : devices[a].tok = devices[b].tok => a = b

\* The state file, the key file and the hub's registry agree.
FilesAgree == TypeOK /\ JoinedCanSign /\ NoOrphanKey /\ CursorOfThisHub

ASSUME MembershipAssumption ==
  /\ HubOf \in [Tokens -> Hubs]
  /\ Runtimes \cap Migrators = {} /\ Setters \cap (Runtimes \cup Migrators) = {}
  /\ TTL \in Nat /\ MaxTime \in Nat /\ MaxKeys \in Nat /\ MaxFaults \in Nat
  /\ None \notin Hubs /\ None \notin Tokens /\ None \notin Updaters
  /\ None \notin State
=============================================================================
