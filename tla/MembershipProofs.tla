-------------------------- MODULE MembershipProofs --------------------------
(***************************************************************************)
(* Proofs about joining and leaving a hub, for any number of hubs, tokens, *)
(* joins, leaves and updates: a token registers one device, and while no   *)
(* two of them have met, the state file, the key file and the registry of  *)
(* the hub agree after every step, and so after a crash.                   *)
(*                                                                         *)
(* The argument: a join works alone and on a laptop without a state, so    *)
(* that the key it saves is the one it registered; an update being written *)
(* holds a copy of the present state, as only a join makes a state and     *)
(* only a leave, which then is tangled, takes it away.  Until a client has *)
(* outlived its hub's leave, all clients are of the hub of the state.      *)
(***************************************************************************)
EXTENDS HubMembership, TLAPS

\* The token of a device has been spent, and no other device has it.
TokensSpent == \A d \in DOMAIN devices : token[devices[d].tok] = "spent"

\* What a join has in hand: a token, from generate on a key, and once paired
\* the row that the hub has made of them.
JoinSound ==
  \A j \in Joiners :
    /\ jpc[j] # "idle" => jtok[j] \in Tokens
    /\ jpc[j] \in {"pair", "store", "save"} => jkey[j] >= 1
    /\ jpc[j] \in {"store", "save"} =>
         /\ jdev[j] \in DOMAIN devices
         /\ devices[jdev[j]].hub = HubOf[jtok[j]] /\ devices[jdev[j]].key = jkey[j]

\* A write has something to write.
CopyLoaded == \A u \in Updaters : upc[u] = "write" => copy[u] \in State

\* The rest holds as long as joins and leaves have not met.
Alone ==
  /\ \A i, j \in Joiners : jpc[i] # "idle" /\ jpc[j] # "idle" => i = j
  /\ \A l, m \in Leavers : lpc[l] # "idle" /\ lpc[m] # "idle" => l = m
  /\ \A j \in Joiners, l \in Leavers : jpc[j] = "idle" \/ lpc[l] = "idle"

\* A join works without a state until it saves one, a leave after it has
\* deleted it.
StateOwned ==
  /\ \A j \in Joiners :
       /\ jpc[j] \in {"generate", "pair", "store", "save", "rollback"} => state = None
       /\ jpc[j] = "save" => key = jkey[j]
       /\ jpc[j] = "start" => state # None
  /\ \A l \in Leavers : lpc[l] = "key" => state = None

\* An update being written has a copy of the present state.
CopyCurrent ==
  \A u \in Updaters : upc[u] = "write" =>
    state # None /\ copy[u].hub = state.hub /\ copy[u].dev = state.dev

\* Until a client has outlived its hub's leave, all clients are of the hub of
\* the state, and so is the cursor in it and in the copies of it.
CursorsOurs ==
  ~strayed =>
    /\ \A u \in Updaters :
         /\ uhub[u] # None => state # None /\ uhub[u] = state.hub
         /\ upc[u] = "write" => copy[u].from \in {None, state.hub}
    /\ state # None => state.from \in {None, state.hub}

\* A key without a state is that of a join or a leave under way.
KeyOwned ==
  state = None /\ ~keyLeft /\ key # None =>
    \/ \E j \in Joiners : jpc[j] \in {"pair", "store", "save", "rollback"}
    \/ \E l \in Leavers : lpc[l] = "key"

Signs ==
  state # None =>
    /\ state.dev \in DOMAIN devices
    /\ devices[state.dev].hub = state.hub /\ devices[state.dev].key = key

Untangled == Alone /\ StateOwned /\ CopyCurrent /\ CursorsOurs /\ KeyOwned /\ Signs

IInv ==
  /\ TypeOK /\ TokensSpent /\ TokenOnce /\ JoinSound /\ CopyLoaded
  /\ ~tangled => Untangled
-----------------------------------------------------------------------------
(* The hub. *)

\* The laptop works by itself but for Pair and PairFails.
LEMMA HubFrame ==
  ASSUME \/ LaptopRestarts
         \/ \E j \in Joiners : \/ Generate(j) \/ Rollback(j) \/ StoreKey(j) \/ SaveState(j)
                               \/ SaveFails(j) \/ StartRuntime(j)
                               \/ \E t \in Tokens : JoinBegin(j, t)
         \/ \E l \in Leavers : LeaveBegin(l) \/ LeaveStep(l)
         \/ \E r \in Runtimes : RuntimeStep(r)
         \/ \E m \in Migrators : MigrateStep(m)
         \/ \E s \in Setters : SetField(s) \/ UpdateStep(s)
         \/ UNCHANGED vars
  PROVE  UNCHANGED <<now, token, minted, devices, revoked>>
BY DEF LaptopRestarts, Generate, Rollback, DropKey, StoreKey, SaveState, SaveFails, StartRuntime,
   JoinBegin, LeaveBegin, LeaveStep, Stopped, DeleteState, DeleteKey, RuntimeStep, Cycle, Pull,
   MigrateStep, MigrateBegin, MigrateEnd, UpdateStep, UpdateLoad, UpdateSave, SetField, vars,
   pairing

\* A token is only ever spent by the row that is appended for it.
LEMMA HubStep ==
  ASSUME TypeOK, TokensSpent, TokenOnce, JoinSound, [Next]_vars
  PROVE  HubType' /\ TokensSpent' /\ TokenOnce'
<1> DEFINE Row == [hub : Hubs, key : 1..MaxKeys, tok : Tokens]
<1>0. /\ now \in 0..MaxTime
      /\ token \in [Tokens -> {"new", "active", "spent"}] /\ minted \in [Tokens -> 0..MaxTime]
      /\ devices \in Seq(Row) /\ revoked \subseteq DOMAIN devices
  BY DEF TypeOK, HubType
<1>01. \A d \in DOMAIN devices : devices[d].tok \in Tokens
  <2>1. \A row \in Row : row.tok \in Tokens
    OBVIOUS
  <2> HIDE DEF Row
  <2>2. \A d \in DOMAIN devices : devices[d] \in Row
    BY <1>0
  <2> QED
    BY <2>1, <2>2
<1>1. ASSUME UNCHANGED <<devices>>, now' \in 0..MaxTime, minted' \in [Tokens -> 0..MaxTime],
             token' \in [Tokens -> {"new", "active", "spent"}],
             \A t \in Tokens : token[t] = "spent" => token'[t] = "spent",
             revoked' \subseteq DOMAIN devices
      PROVE  HubType' /\ TokensSpent' /\ TokenOnce'
  <2>1. \A d \in DOMAIN devices : devices[d].tok \in Tokens
    BY <1>01
  <2>2. HubType' /\ TokenOnce'
    BY <1>0, <1>1 DEF HubType, TokenOnce
  <2>3. TokensSpent'
    BY <1>1, <2>1 DEF TokensSpent
  <2> QED
    BY <2>2, <2>3
<1>2. ASSUME UNCHANGED <<now, token, minted, devices, revoked>>
      PROVE  HubType' /\ TokensSpent' /\ TokenOnce'
  BY <1>0, <1>1, <1>2
<1>3. ASSUME NEW t \in Tokens, Mint(t) \/ Purge(t) PROVE HubType' /\ TokensSpent' /\ TokenOnce'
  <2>2. /\ UNCHANGED <<now, devices, revoked>>
        /\ \E x \in {"active", "spent"} : token' = [token EXCEPT ![t] = x]
        /\ token[t] # "spent"
        /\ minted' = minted \/ minted' = [minted EXCEPT ![t] = now]
    BY <1>3 DEF Mint, Purge
  <2>3. minted' \in [Tokens -> 0..MaxTime]
    BY <1>0, <2>2
  <2>4. token' \in [Tokens -> {"new", "active", "spent"}]
    BY <1>0, <2>2
  <2>5. \A u \in Tokens : token[u] = "spent" => token'[u] = "spent"
    BY <1>0, <2>2
  <2> QED
    BY <1>0, <1>1, <2>2, <2>3, <2>4, <2>5
<1>4. ASSUME Tick PROVE HubType' /\ TokensSpent' /\ TokenOnce'
  <2>1. UNCHANGED <<token, minted, devices, revoked>> /\ now' \in 0..MaxTime
    BY <1>0, <1>4, MembershipAssumption DEF Tick, pairing
  <2> QED
    BY <1>0, <1>1, <2>1
<1>5. ASSUME NEW h \in Hubs, HubRestarts(h) PROVE HubType' /\ TokensSpent' /\ TokenOnce'
  <2>1. /\ UNCHANGED <<now, minted, devices, revoked>>
        /\ token' = [t \in Tokens |-> IF HubOf[t] = h /\ token[t] = "active" THEN "spent"
                                      ELSE token[t]]
    BY <1>5 DEF HubRestarts
  <2> QED
    BY <1>0, <1>1, <2>1
<1>6. ASSUME NEW d \in DOMAIN devices, Unpair(d) PROVE HubType' /\ TokensSpent' /\ TokenOnce'
  <2>1. UNCHANGED <<now, token, minted, devices>> /\ revoked' = revoked \cup {d}
    BY <1>6 DEF Unpair
  <2> QED
    BY <1>0, <1>1, <2>1
<1>7. ASSUME NEW j \in Joiners, PairFails(j) PROVE HubType' /\ TokensSpent' /\ TokenOnce'
  <2>1. /\ UNCHANGED <<now, minted, devices, revoked>>
        /\ UNCHANGED token \/ token' = [token EXCEPT ![jtok[j]] = "spent"]
    BY <1>7 DEF PairFails
  <2> QED
    BY <1>0, <1>1, <2>1
<1>8. ASSUME NEW j \in Joiners, Pair(j) PROVE HubType' /\ TokensSpent' /\ TokenOnce'
  <2>1. PICK t : t = jtok[j]
    OBVIOUS
  <2>2. t \in Tokens /\ jkey[j] \in 1..MaxKeys
    <3>1. jpc[j] = "pair" /\ jkey[j] \in 0..MaxKeys
      BY <1>8 DEF Pair, TypeOK, JoinType
    <3> QED
      BY <2>1, <3>1 DEF JoinSound
  <2>3. PICK row \in Row : row = [hub |-> HubOf[t], key |-> jkey[j], tok |-> t]
    BY <2>2, MembershipAssumption
  <2>4. /\ token[t] = "active" /\ token' = [token EXCEPT ![t] = "spent"]
        /\ devices' = Append(devices, row) /\ UNCHANGED <<now, minted, revoked>>
    BY <1>8, <2>1, <2>3 DEF Pair, Consume
  <2>5. row.tok = t
    BY <2>3
  <2> HIDE DEF Row
  <2>6. /\ devices' \in Seq(Row) /\ Len(devices') = Len(devices) + 1 /\ Len(devices) \in Nat
        /\ DOMAIN devices = 1..Len(devices) /\ DOMAIN devices' = 1..Len(devices')
        /\ devices'[Len(devices) + 1] = row
        /\ \A d \in 1..Len(devices) : devices'[d] = devices[d]
    BY <1>0, <2>4
  <2>7. /\ token'[t] = "spent" /\ \A u \in Tokens : token[u] = "spent" => token'[u] = "spent"
        /\ token' \in [Tokens -> {"new", "active", "spent"}]
    BY <1>0, <2>2, <2>4
  <2>8. \A d \in 1..Len(devices) :
          /\ devices[d].tok \in Tokens /\ devices[d].tok # t
          /\ token'[devices[d].tok] = "spent"
    <3>1. \A d \in 1..Len(devices) : devices[d].tok \in Tokens
      BY <1>01, <2>6
    <3> QED
      BY <2>4, <2>6, <2>7, <3>1 DEF TokensSpent
  <2>9. TokensSpent'
    <3> SUFFICES ASSUME NEW d \in DOMAIN devices' PROVE token'[devices'[d].tok] = "spent"
      BY DEF TokensSpent
    <3>1. d \in 1..Len(devices) \/ d = Len(devices) + 1
      BY <2>6
    <3> QED
      BY <2>5, <2>6, <2>7, <2>8, <3>1
  <2>10. TokenOnce'
    <3> SUFFICES ASSUME NEW a \in DOMAIN devices', NEW b \in DOMAIN devices',
                        devices'[a].tok = devices'[b].tok
                 PROVE  a = b
      BY DEF TokenOnce
    <3>1. /\ a \in 1..Len(devices) \/ a = Len(devices) + 1
          /\ b \in 1..Len(devices) \/ b = Len(devices) + 1
      BY <2>6
    <3> QED
      BY <2>5, <2>6, <2>8, <3>1 DEF TokenOnce
  <2>11. revoked' \subseteq DOMAIN devices'
    BY <1>0, <2>4, <2>6
  <2> QED
    BY <1>0, <2>4, <2>6, <2>7, <2>9, <2>10, <2>11 DEF HubType, Row
<1>9. ASSUME \/ LaptopRestarts
             \/ \E j \in Joiners : \/ Generate(j) \/ Rollback(j) \/ StoreKey(j) \/ SaveState(j)
                                   \/ SaveFails(j) \/ StartRuntime(j)
                                   \/ \E t \in Tokens : JoinBegin(j, t)
             \/ \E l \in Leavers : LeaveBegin(l) \/ LeaveStep(l)
             \/ \E r \in Runtimes : RuntimeStep(r)
             \/ \E m \in Migrators : MigrateStep(m)
             \/ \E s \in Setters : SetField(s) \/ UpdateStep(s)
             \/ UNCHANGED vars
      PROVE  HubType' /\ TokensSpent' /\ TokenOnce'
  BY <1>2, <1>9, HubFrame
<1> QED
  BY <1>3, <1>4, <1>5, <1>6, <1>7, <1>8, <1>9 DEF Next, JoinStep
-----------------------------------------------------------------------------
(* Joins. *)

\* Everything else leaves the joins alone.
LEMMA JoinFrame ==
  ASSUME \/ Tick
         \/ \E t \in Tokens : Mint(t) \/ Purge(t)
         \/ \E h \in Hubs : HubRestarts(h)
         \/ \E d \in DOMAIN devices : Unpair(d)
         \/ \E l \in Leavers : LeaveBegin(l) \/ LeaveStep(l)
         \/ \E r \in Runtimes : RuntimeStep(r)
         \/ \E m \in Migrators : MigrateStep(m)
         \/ \E s \in Setters : SetField(s) \/ UpdateStep(s)
         \/ UNCHANGED vars
  PROVE  UNCHANGED <<keys, jpc, jtok, jkey, jdev, devices>>
BY DEF Tick, Mint, Purge, HubRestarts, Unpair, LeaveBegin, LeaveStep, Stopped, DeleteState,
   DeleteKey, RuntimeStep, Cycle, Pull, MigrateStep, MigrateBegin, MigrateEnd, UpdateStep,
   UpdateLoad, UpdateSave, SetField, vars, pairing, joins

\* What a join has in hand, step by step.
LEMMA JoinStepSound ==
  ASSUME TypeOK, JoinSound, [Next]_vars
  PROVE  /\ keys' \in 0..MaxKeys
         /\ jpc' \in [Joiners -> {"idle", "generate", "pair", "store", "save", "rollback",
                                  "start"}]
         /\ jtok' \in [Joiners -> Tokens \cup {None}]
         /\ jkey' \in [Joiners -> 0..MaxKeys] /\ jdev' \in [Joiners -> 0..Len(devices')]
         /\ JoinSound'
<1> DEFINE Places == {"idle", "generate", "pair", "store", "save", "rollback", "start"}
           Typed == /\ keys \in 0..MaxKeys /\ jpc \in [Joiners -> Places]
                    /\ jtok \in [Joiners -> Tokens \cup {None}]
                    /\ jkey \in [Joiners -> 0..MaxKeys] /\ jdev \in [Joiners -> 0..Len(devices)]
           Sound(j) ==
             /\ jpc[j] # "idle" => jtok[j] \in Tokens
             /\ jpc[j] \in {"pair", "store", "save"} => jkey[j] >= 1
             /\ jpc[j] \in {"store", "save"} =>
                  /\ jdev[j] \in DOMAIN devices
                  /\ devices[jdev[j]].hub = HubOf[jtok[j]] /\ devices[jdev[j]].key = jkey[j]
           Goal == Typed' /\ JoinSound'
<1>0. /\ Typed /\ \A j \in Joiners : Sound(j)
      /\ (\A j \in Joiners : Sound(j)') => JoinSound'
      /\ devices \in Seq([hub : Hubs, key : 1..MaxKeys, tok : Tokens])
      /\ Len(devices) \in Nat /\ MaxKeys \in Nat /\ DOMAIN devices = 1..Len(devices)
  BY MembershipAssumption DEF TypeOK, HubType, JoinType, JoinSound
<1>1. ASSUME UNCHANGED <<keys, jpc, jtok, jkey, jdev, devices>> PROVE Goal
  BY <1>0, <1>1
<1>2. ASSUME NEW j \in Joiners, NEW t \in Tokens, JoinBegin(j, t) PROVE Goal
  <2>1. /\ UNCHANGED <<keys, jkey, jdev, devices>> /\ jtok' = [jtok EXCEPT ![j] = t]
        /\ jpc' = [jpc EXCEPT ![j] = "generate"]
    BY <1>2 DEF JoinBegin, JGoto, pairing
  <2> QED
    BY <1>0, <2>1
<1>3. ASSUME NEW j \in Joiners, Generate(j) PROVE Goal
  <2>1. /\ UNCHANGED <<jtok, jdev, devices>> /\ keys < MaxKeys /\ keys' = keys + 1
        /\ jkey' = [jkey EXCEPT ![j] = keys + 1] /\ jpc[j] = "generate"
        /\ jpc' = [jpc EXCEPT ![j] = "pair"]
    BY <1>3 DEF Generate, JGoto, pairing
  <2>2. keys + 1 \in 1..MaxKeys
    BY <1>0, <2>1
  <2>3. Typed'
    BY <1>0, <2>1, <2>2
  <2>4. \A k \in Joiners : Sound(k)'
    BY <1>0, <2>1, <2>2
  <2> QED
    BY <1>0, <2>3, <2>4
<1>4. ASSUME NEW j \in Joiners, NEW w \in {"rollback", "save", "start"},
             UNCHANGED <<keys, jtok, jkey, jdev, devices>>,
             jpc[j] # "idle", w = "save" => jpc[j] = "store",
             jpc' = [jpc EXCEPT ![j] = w]
      PROVE  Goal
  <2>1. Typed'
    BY <1>0, <1>4
  <2>2. \A k \in Joiners : Sound(k)'
    BY <1>0, <1>4
  <2> QED
    BY <1>0, <2>1, <2>2
<1>5. ASSUME NEW j \in Joiners, PairFails(j) \/ StoreKey(j) \/ SaveState(j) PROVE Goal
  <2>1. UNCHANGED <<keys, jtok, jkey, jdev, devices>>
    BY <1>5 DEF PairFails, StoreKey, SaveState, pairing
  <2>2. \E w \in {"rollback", "save", "start"} :
          /\ jpc[j] # "idle" /\ (w = "save" => jpc[j] = "store")
          /\ jpc' = [jpc EXCEPT ![j] = w]
    BY <1>5 DEF PairFails, StoreKey, SaveState, JGoto
  <2> QED
    BY <1>4, <2>1, <2>2
<1>6. ASSUME NEW j \in Joiners, Rollback(j) \/ SaveFails(j) \/ StartRuntime(j) PROVE Goal
  <2>1. UNCHANGED <<keys, devices>> /\ JDone(j)
    BY <1>6 DEF Rollback, SaveFails, StartRuntime, pairing
  <2>2. Typed'
    BY <1>0, <2>1 DEF JDone, JGoto
  <2>3. \A k \in Joiners : Sound(k)'
    BY <1>0, <2>1 DEF JDone, JGoto
  <2> QED
    BY <1>0, <2>2, <2>3
<1>7. ASSUME NEW j \in Joiners, Pair(j) PROVE Goal
  <2>1. PICK row : row = [hub |-> HubOf[jtok[j]], key |-> jkey[j], tok |-> jtok[j]]
    OBVIOUS
  <2>2. devices' = Append(devices, row) /\ UNCHANGED <<keys, jtok, jkey>> /\ jpc[j] = "pair"
    BY <1>7, <2>1 DEF Pair
  <2>3. /\ Len(devices') = Len(devices) + 1 /\ DOMAIN devices' = 1..(Len(devices) + 1)
        /\ devices'[Len(devices) + 1] = row
        /\ \A d \in 1..Len(devices) : devices'[d] = devices[d]
    BY <1>0, <2>2
  <2>4. row.hub = HubOf[jtok[j]] /\ row.key = jkey[j]
    BY <2>1
  <2>5. \A k \in Joiners \ {j} : jpc'[k] = jpc[k] /\ jdev'[k] = jdev[k]
    BY <1>0, <1>7 DEF Pair, JGoto
  <2>6. \/ jpc'[j] = "store" /\ jdev'[j] = Len(devices) + 1
        \/ jpc'[j] = "rollback" /\ jdev' = jdev
    BY <1>0, <1>7, <2>3 DEF Pair, JGoto
  <2>7. ASSUME NEW k \in Joiners PROVE Sound(k)'
    <3>1. CASE k = j
      BY <1>0, <2>2, <2>3, <2>4, <2>6, <3>1
    <3>2. CASE k # j
      <4>0. k \in Joiners /\ Sound(k)
        BY <1>0, <2>7
      <4>1. jpc'[k] = jpc[k] /\ jdev'[k] = jdev[k] /\ jtok'[k] = jtok[k] /\ jkey'[k] = jkey[k]
        BY <2>2, <2>5, <2>7, <3>2
      <4>2. jpc[k] \in {"store", "save"} =>
              jdev[k] \in DOMAIN devices' /\ devices'[jdev[k]] = devices[jdev[k]]
        BY <1>0, <2>3, <4>0
      <4> QED
        BY <4>0, <4>1, <4>2
    <3> QED
      BY <3>1, <3>2
  <2>8. jpc' \in [Joiners -> Places]
    BY <1>0, <1>7 DEF Pair, JGoto
  <2>9. jdev' \in [Joiners -> 0..Len(devices')]
    <3>1. \A n \in 0..Len(devices) : n \in 0..Len(devices')
      BY <1>0, <2>3
    <3>2. Len(devices') \in 0..Len(devices')
      BY <1>0, <2>3
    <3>3. jdev' = jdev \/ jdev' = [jdev EXCEPT ![j] = Len(devices')]
      BY <1>7 DEF Pair
    <3> QED
      BY <1>0, <3>1, <3>2, <3>3
  <2> QED
    BY <1>0, <2>2, <2>7, <2>8, <2>9
<1>8. ASSUME LaptopRestarts PROVE Goal
  <2>1. /\ UNCHANGED <<keys, devices>> /\ jpc' = [j \in Joiners |-> "idle"]
        /\ jtok' = [j \in Joiners |-> None] /\ jkey' = [j \in Joiners |-> 0]
        /\ jdev' = [j \in Joiners |-> 0]
    BY <1>8 DEF LaptopRestarts, pairing
  <2> QED
    BY <1>0, <2>1
<1>9. ASSUME \/ Tick
             \/ \E t \in Tokens : Mint(t) \/ Purge(t)
             \/ \E h \in Hubs : HubRestarts(h)
             \/ \E d \in DOMAIN devices : Unpair(d)
             \/ \E l \in Leavers : LeaveBegin(l) \/ LeaveStep(l)
             \/ \E r \in Runtimes : RuntimeStep(r)
             \/ \E m \in Migrators : MigrateStep(m)
             \/ \E s \in Setters : SetField(s) \/ UpdateStep(s)
             \/ UNCHANGED vars
      PROVE  Goal
  BY <1>1, <1>9, JoinFrame
<1>10. Goal
  <2> HIDE DEF Goal
  <2> QED
    BY <1>2, <1>3, <1>5, <1>6, <1>7, <1>8, <1>9 DEF Next, JoinStep
<1> QED
  BY <1>10
-----------------------------------------------------------------------------
(* The files, leaves and updates: types. *)

\* The two files hold a state and a key, and leaves are somewhere.
LEMMA FilesStep ==
  ASSUME TypeOK, JoinSound, CopyLoaded, [Next]_vars
  PROVE  /\ state' \in State \cup {None} /\ key' \in (1..MaxKeys) \cup {None}
         /\ lpc' \in [Leavers -> {"idle", "stop", "state", "key"}]
<1> DEFINE Goal == /\ state' \in State \cup {None} /\ key' \in (1..MaxKeys) \cup {None}
                   /\ lpc' \in [Leavers -> {"idle", "stop", "state", "key"}]
<1>0. /\ state \in State \cup {None} /\ key \in (1..MaxKeys) \cup {None} /\ keys \in 0..MaxKeys
      /\ lpc \in [Leavers -> {"idle", "stop", "state", "key"}]
      /\ uhub \in [Updaters -> Hubs \cup {None}] /\ MaxKeys \in Nat
      /\ \A j \in Joiners : jkey[j] \in 0..MaxKeys /\ jdev[j] \in Nat
  <2>1. /\ jdev \in [Joiners -> 0..Len(devices)]
        /\ devices \in Seq([hub : Hubs, key : 1..MaxKeys, tok : Tokens])
    BY DEF TypeOK, HubType, JoinType
  <2>2. \A j \in Joiners : jdev[j] \in Nat
    BY <2>1
  <2> QED
    BY <2>2, MembershipAssumption DEF TypeOK, JoinType, UpdateType
<1>1. ASSUME UNCHANGED <<state, key, lpc>> PROVE Goal
  BY <1>0, <1>1
<1>2. ASSUME NEW j \in Joiners, Generate(j) \/ Rollback(j) \/ StoreKey(j) PROVE Goal
  <2>1. UNCHANGED <<state, lpc>>
    BY <1>2 DEF Generate, Rollback, StoreKey
  <2>2. key' \in (1..MaxKeys) \cup {None}
    <3>1. CASE Generate(j)
      BY <1>0, <3>1 DEF Generate
    <3>2. CASE Rollback(j)
      BY <1>0, <3>2 DEF Rollback, DropKey
    <3>3. CASE StoreKey(j)
      BY <1>0, <3>3 DEF StoreKey, JoinSound
    <3> QED
      BY <1>2, <3>1, <3>2, <3>3
  <2> QED
    BY <1>0, <2>1, <2>2
<1>3. ASSUME NEW j \in Joiners, SaveState(j) PROVE Goal
  <2>1. UNCHANGED <<key, lpc>> /\ state' = [hub |-> HubOf[jtok[j]], dev |-> jdev[j], from |-> None]
    BY <1>3 DEF SaveState
  <2>2. HubOf[jtok[j]] \in Hubs
    BY <1>3, MembershipAssumption DEF SaveState, JoinSound
  <2> QED
    BY <1>0, <2>1, <2>2 DEF State
<1>4. ASSUME NEW l \in Leavers, LeaveBegin(l) \/ LeaveStep(l) PROVE Goal
  <2>1. /\ state' \in {state, None} /\ key' \in {key, None}
        /\ \E w \in {"idle", "stop", "state", "key"} : lpc' = [lpc EXCEPT ![l] = w]
    BY <1>4 DEF LeaveBegin, LeaveStep, Stopped, DeleteState, DeleteKey, DropKey, LGoto, files
  <2> QED
    BY <1>0, <2>1
<1>5. ASSUME NEW u \in Updaters, UpdateSave(u) PROVE Goal
  <2>1. /\ UNCHANGED <<key, lpc>> /\ copy[u] \in State
        /\ \E h \in Hubs \cup {None} : state' = [copy[u] EXCEPT !.from = h]
    <3>1. copy[u] \in State
      BY <1>5 DEF UpdateSave, CopyLoaded
    <3>2. copy[u].from \in Hubs \cup {None}
      BY <3>1 DEF State
    <3> QED
      BY <1>0, <1>5, <3>1, <3>2 DEF UpdateSave
  <2>2. state' \in State
    BY <2>1 DEF State
  <2> QED
    BY <1>0, <2>1, <2>2
<1>6. ASSUME LaptopRestarts PROVE Goal
  <2>1. UNCHANGED <<state, key>> /\ lpc' = [l \in Leavers |-> "idle"]
    BY <1>6 DEF LaptopRestarts, files
  <2> QED
    BY <1>0, <2>1
<1>7. ASSUME \/ Tick
             \/ \E t \in Tokens : Mint(t) \/ Purge(t)
             \/ \E h \in Hubs : HubRestarts(h)
             \/ \E d \in DOMAIN devices : Unpair(d)
             \/ \E j \in Joiners : \/ Pair(j) \/ PairFails(j) \/ SaveFails(j) \/ StartRuntime(j)
                                   \/ \E t \in Tokens : JoinBegin(j, t)
             \/ \E r \in Runtimes : Cycle(r)
             \/ \E m \in Migrators : MigrateBegin(m) \/ MigrateEnd(m)
             \/ \E u \in Updaters : Pull(u)
             \/ \E s \in Setters : SetField(s)
             \/ \E u \in Updaters : UpdateLoad(u)
             \/ UNCHANGED vars
      PROVE  Goal
  <2>1. UNCHANGED <<state, key, lpc>>
    BY <1>7 DEF Tick, Mint, Purge, HubRestarts, Unpair, Pair, PairFails, SaveFails,
       StartRuntime, JoinBegin, Cycle, Pull, MigrateBegin, MigrateEnd, SetField, UpdateLoad,
       vars, files
  <2> QED
    BY <1>1, <2>1
<1>8. Goal
  <2> HIDE DEF Goal
  <2> QED
    BY <1>2, <1>3, <1>4, <1>5, <1>6, <1>7
       DEF Next, JoinStep, RuntimeStep, MigrateStep, UpdateStep, Updaters
<1> QED
  BY <1>8

\* The hub, joins and leaves do not touch the updates.
LEMMA UpdateFrame ==
  ASSUME \/ Tick
         \/ \E t \in Tokens : Mint(t) \/ Purge(t)
         \/ \E h \in Hubs : HubRestarts(h)
         \/ \E d \in DOMAIN devices : Unpair(d)
         \/ \E j \in Joiners : \/ Generate(j) \/ Pair(j) \/ PairFails(j) \/ Rollback(j)
                               \/ StoreKey(j) \/ SaveState(j) \/ SaveFails(j)
                               \/ \E t \in Tokens : JoinBegin(j, t)
         \/ \E l \in Leavers : LeaveBegin(l) \/ LeaveStep(l)
         \/ UNCHANGED vars
  PROVE  UNCHANGED <<upc, uhub, copy, lock>>
BY DEF Tick, Mint, Purge, HubRestarts, Unpair, Generate, Pair, PairFails, Rollback, StoreKey,
   SaveState, SaveFails, JoinBegin, LeaveBegin, LeaveStep, Stopped, DeleteState, DeleteKey,
   vars, updates

\* Threads, copies and the lock keep their types; a write has a copy.
LEMMA UpdateTypeStep ==
  ASSUME TypeOK, CopyLoaded, [Next]_vars
  PROVE  UpdateType' /\ CopyLoaded'
<1> DEFINE Pcs == {"off", "top", "pull", "update", "write"}
           Flags == /\ thread \in Runtimes \cup {None} /\ stopping \in BOOLEAN
                    /\ faults \in 0..MaxFaults /\ keyLeft \in BOOLEAN
                    /\ tangled \in BOOLEAN /\ strayed \in BOOLEAN
           Ups == /\ upc \in [Updaters -> Pcs]
                  /\ uhub \in [Updaters -> Hubs \cup {None}]
                  /\ copy \in [Updaters -> State \cup {None}]
                  /\ lock \in Updaters \cup {None} /\ CopyLoaded
<1>0. Flags /\ Ups /\ state \in State \cup {None} /\ MaxFaults \in Nat
      /\ Runtimes \subseteq Updaters /\ Migrators \subseteq Updaters
  BY MembershipAssumption DEF TypeOK, UpdateType, JoinType, Updaters
<1>1. Flags'
  <2>1. faults' = faults \/ (faults < MaxFaults /\ faults' = faults + 1)
    BY DEF Next, Tick, Mint, Purge, HubRestarts, Unpair, JoinStep, Generate, Pair, PairFails,
       Rollback, DropKey, StoreKey, SaveState, SaveFails, StartRuntime, JoinBegin, LeaveBegin,
       LeaveStep, Stopped, DeleteState, DeleteKey, RuntimeStep, Cycle, Pull, MigrateStep,
       MigrateBegin, MigrateEnd,
       SetField, UpdateStep, UpdateLoad,
       UpdateSave, LaptopRestarts, Fault, vars
  <2>2. faults' \in 0..MaxFaults
    BY <1>0, <2>1
  <2>3. /\ thread' = thread \/ thread' \in Runtimes \cup {None}
        /\ stopping' = stopping \/ stopping' \in BOOLEAN
    BY DEF Next, Tick, Mint, Purge, HubRestarts, Unpair, JoinStep, Generate, Pair, PairFails,
       Rollback, DropKey, StoreKey, SaveState, SaveFails, StartRuntime, JoinBegin, LeaveBegin,
       LeaveStep, Stopped, DeleteState, DeleteKey, RuntimeStep, Cycle, Pull, MigrateStep,
       MigrateBegin, MigrateEnd,
       SetField, UpdateStep, UpdateLoad,
       UpdateSave, LaptopRestarts, vars, background
  <2>4. /\ keyLeft' = keyLeft \/ keyLeft' \in BOOLEAN
        /\ tangled' = tangled \/ tangled' \in BOOLEAN
        /\ strayed' = strayed \/ strayed' \in BOOLEAN
    BY DEF Next, Tick, Mint, Purge, HubRestarts, Unpair, JoinStep, Generate, Pair, PairFails,
       Rollback, DropKey, StoreKey, SaveState, SaveFails, StartRuntime, JoinBegin, LeaveBegin,
       LeaveStep, Stopped, DeleteState, DeleteKey, RuntimeStep, Cycle, Pull, MigrateStep,
       MigrateBegin, MigrateEnd,
       SetField, UpdateStep, UpdateLoad,
       UpdateSave, LaptopRestarts, vars, ghost
  <2> QED
    BY <1>0, <2>2, <2>3, <2>4
<1>2. ASSUME UNCHANGED <<upc, uhub, copy, lock>> PROVE Ups'
  BY <1>0, <1>2 DEF CopyLoaded
<1>3. ASSUME NEW u \in Updaters, NEW w \in Pcs \ {"write"}, NEW h \in Hubs \cup {None},
             upc' = [upc EXCEPT ![u] = w], uhub' = uhub \/ uhub' = [uhub EXCEPT ![u] = h],
             \/ UNCHANGED <<copy, lock>>
             \/ copy' = [copy EXCEPT ![u] = None] /\ lock' = None
      PROVE  Ups'
  <2>1. upc' \in [Updaters -> Pcs] /\ uhub' \in [Updaters -> Hubs \cup {None}]
    BY <1>0, <1>3
  <2>2. copy' \in [Updaters -> State \cup {None}] /\ lock' \in Updaters \cup {None}
    BY <1>0, <1>3
  <2>3. CopyLoaded'
    BY <1>0, <1>3 DEF CopyLoaded
  <2> QED
    BY <2>1, <2>2, <2>3
<1>4. ASSUME NEW u \in Updaters, Cycle(u) \/ Pull(u) \/ MigrateBegin(u) \/ MigrateEnd(u)
      PROVE  Ups'
  <2>1. UNCHANGED <<copy, lock>>
    BY <1>4 DEF Cycle, Pull, MigrateBegin, MigrateEnd
  <2>2. \E w \in Pcs \ {"write"}, h \in Hubs \cup {None} :
          /\ upc' = [upc EXCEPT ![u] = w]
          /\ uhub' = uhub \/ uhub' = [uhub EXCEPT ![u] = h]
    BY <1>0, <1>4 DEF Cycle, Pull, MigrateBegin, MigrateEnd, UDone, UGoto, State
  <2> QED
    BY <1>0, <1>3, <2>1, <2>2
<1>5. ASSUME NEW s \in Setters, SetField(s) PROVE Ups'
  <2>1. UNCHANGED <<copy, lock, uhub>> /\ upc' = [upc EXCEPT ![s] = "update"] /\ s \in Updaters
    BY <1>5 DEF SetField, UGoto, Updaters
  <2> QED
    BY <1>3, <2>1
<1>6. ASSUME NEW u \in Updaters, UpdateSave(u) PROVE Ups'
  <2>1. /\ copy' = [copy EXCEPT ![u] = None] /\ lock' = None
        /\ uhub' = uhub \/ uhub' = [uhub EXCEPT ![u] = None]
        /\ \E w \in Pcs \ {"write"} : upc' = [upc EXCEPT ![u] = w]
    BY <1>6 DEF UpdateSave, UDone, PullAgain, UGoto
  <2> QED
    BY <1>3, <2>1
<1>7. ASSUME NEW u \in Updaters, UpdateLoad(u) PROVE Ups'
  <2>1. CASE state = None
    <3>1. /\ UNCHANGED <<copy, lock>>
          /\ uhub' = uhub \/ uhub' = [uhub EXCEPT ![u] = None]
          /\ \E w \in Pcs \ {"write"} : upc' = [upc EXCEPT ![u] = w]
      BY <1>7, <2>1 DEF UpdateLoad, UDone, PullAgain, UGoto
    <3> QED
      BY <1>3, <3>1
  <2>2. CASE state # None
    <3>1. /\ upc' = [upc EXCEPT ![u] = "write"] /\ copy' = [copy EXCEPT ![u] = state]
          /\ lock' = u /\ UNCHANGED uhub /\ state \in State
      BY <1>0, <1>7, <2>2 DEF UpdateLoad, UGoto
    <3>2. CopyLoaded'
      BY <1>0, <3>1 DEF CopyLoaded
    <3> QED
      BY <1>0, <3>1, <3>2
  <2> QED
    BY <2>1, <2>2
<1>8. ASSUME NEW j \in Joiners, StartRuntime(j) PROVE Ups'
  <2>1. /\ UNCHANGED <<uhub, copy, lock>>
        /\ UNCHANGED upc \/ \E r \in Runtimes : upc' = [upc EXCEPT ![r] = "top"]
    BY <1>8 DEF StartRuntime
  <2> QED
    BY <1>0, <1>2, <1>3, <2>1
<1>9. ASSUME LaptopRestarts PROVE Ups'
  <2>1. /\ uhub' = [u \in Updaters |-> None] /\ copy' = [u \in Updaters |-> None] /\ lock' = None
        /\ upc' = [u \in Updaters |-> IF u = thread' THEN "top" ELSE "off"]
    BY <1>9 DEF LaptopRestarts
  <2> QED
    BY <2>1 DEF CopyLoaded
<1>10. ASSUME \/ Tick
              \/ \E t \in Tokens : Mint(t) \/ Purge(t)
              \/ \E h \in Hubs : HubRestarts(h)
              \/ \E d \in DOMAIN devices : Unpair(d)
              \/ \E j \in Joiners : \/ Generate(j) \/ Pair(j) \/ PairFails(j) \/ Rollback(j)
                                    \/ StoreKey(j) \/ SaveState(j) \/ SaveFails(j)
                                    \/ \E t \in Tokens : JoinBegin(j, t)
              \/ \E l \in Leavers : LeaveBegin(l) \/ LeaveStep(l)
              \/ UNCHANGED vars
       PROVE  Ups'
  BY <1>2, <1>10, UpdateFrame
<1>11. Ups'
  <2> HIDE DEF Ups
  <2> QED
    BY <1>4, <1>5, <1>6, <1>7, <1>8, <1>9, <1>10
       DEF Next, JoinStep, RuntimeStep, MigrateStep, UpdateStep, Updaters
<1> QED
  BY <1>1, <1>11 DEF UpdateType
-----------------------------------------------------------------------------
(* The files agree as long as joins and leaves do not meet. *)

\* Once tangled, always tangled.
LEMMA TangledStays ==
  ASSUME [Next]_vars, ~tangled'
  PROVE  ~tangled
BY DEF Next, Tick, Mint, Purge, HubRestarts, Unpair, JoinStep, Generate, Pair, PairFails,
   Rollback, DropKey, StoreKey, SaveState, SaveFails, StartRuntime, JoinBegin, LeaveBegin,
   LeaveStep, Stopped, DeleteState, DeleteKey, RuntimeStep, Cycle, Pull, MigrateStep,
       MigrateBegin, MigrateEnd,
       SetField, UpdateStep, UpdateLoad,
   UpdateSave, LaptopRestarts, vars, ghost

\* A join that has begun is the only one, and there is no leave.
LEMMA JoinAlone ==
  ASSUME Alone, NEW j \in Joiners, jpc[j] # "idle"
  PROVE  /\ \A k \in Joiners \ {j} : jpc[k] = "idle"
         /\ \A l \in Leavers : lpc[l] = "idle"
BY DEF Alone

\* Steps before the state is saved: nobody else is at work, and nobody updates.
LEMMA JoiningInv ==
  ASSUME TypeOK, Untangled, NEW j \in Joiners,
         NEW w \in {"pair", "store", "save", "rollback", "idle"},
         jpc[j] \in {"generate", "pair", "store", "save", "rollback"},
         jpc' = [jpc EXCEPT ![j] = w],
         UNCHANGED <<state, lpc, upc, uhub, copy, strayed>>,
         (w = "save") => (key' = jkey'[j]), (w = "idle") => (key' = None) \/ keyLeft'
  PROVE  Untangled'
<1>0. /\ jpc \in [Joiners -> {"idle", "generate", "pair", "store", "save", "rollback", "start"}]
      /\ Alone /\ StateOwned /\ CopyCurrent /\ CursorsOurs
  BY DEF TypeOK, JoinType, Untangled
<1>1. /\ \A k \in Joiners \ {j} : jpc[k] = "idle" /\ jpc'[k] = "idle"
      /\ \A l \in Leavers : lpc[l] = "idle"
      /\ jpc'[j] = w /\ state = None
  <2>1. jpc[j] # "idle"
    OBVIOUS
  <2> QED
    BY <1>0, <2>1, JoinAlone DEF StateOwned
<1>2. Alone'
  BY <1>1 DEF Alone
<1>3. StateOwned'
  BY <1>1 DEF StateOwned
<1>4. CopyCurrent' /\ CursorsOurs'
  BY <1>0, <1>1 DEF CopyCurrent, CursorsOurs
<1>5. Signs'
  BY <1>1 DEF Signs
<1>6. KeyOwned'
  <2>1. CASE w = "idle"
    BY <2>1 DEF KeyOwned
  <2>2. CASE w \in {"pair", "store", "save", "rollback"}
    BY <1>1, <2>2 DEF KeyOwned
  <2> QED
    BY <2>1, <2>2
<1> QED
  BY <1>2, <1>3, <1>4, <1>5, <1>6 DEF Untangled

\* Cycles, migrations, pulls and requests to update leave the files alone; a
\* client that is built is of the hub of the state.
LEMMA BeginUpdateInv ==
  ASSUME TypeOK, Untangled, NEW u \in Updaters,
         UNCHANGED <<state, key, jpc, jkey, lpc, devices, keyLeft, strayed, copy>>,
         \A v \in Updaters \ {u} : upc'[v] = upc[v] /\ uhub'[v] = uhub[v],
         upc'[u] # "write",
         \/ uhub'[u] \in {None, uhub[u]}
         \/ state # None /\ uhub'[u] = state.hub
  PROVE  Untangled'
<1>0. Alone /\ StateOwned /\ CopyCurrent /\ CursorsOurs /\ KeyOwned /\ Signs
  BY DEF Untangled
<1>1. CopyCurrent'
  BY <1>0 DEF CopyCurrent
<1>2. CursorsOurs'
  BY <1>0 DEF CursorsOurs
<1> QED
  BY <1>0, <1>1, <1>2 DEF Untangled, Alone, StateOwned, KeyOwned, Signs

\* Updates change neither the hub nor the device of the state.
LEMMA UpdatingInv ==
  ASSUME TypeOK, CopyLoaded, Untangled, NEW u \in Updaters,
         UpdateLoad(u) \/ UpdateSave(u)
  PROVE  Untangled'
<1>0. /\ upc \in [Updaters -> {"off", "top", "pull", "update", "write"}]
      /\ DOMAIN copy = Updaters /\ DOMAIN uhub = Updaters
      /\ uhub \in [Updaters -> Hubs \cup {None}] /\ state \in State \cup {None}
      /\ Alone /\ StateOwned /\ CopyCurrent /\ CursorsOurs /\ KeyOwned /\ Signs
  BY DEF TypeOK, UpdateType, JoinType, Untangled
<1>1. UNCHANGED <<key, jpc, jkey, lpc, devices, keyLeft, strayed>>
  BY DEF UpdateLoad, UpdateSave, pairing, joins, files, ghost
<1>2. CASE UpdateLoad(u) /\ state = None
  <2>1. UNCHANGED <<state, copy>> /\ (UDone(u) \/ PullAgain(u))
    BY <1>2 DEF UpdateLoad, files
  <2>2. /\ \A v \in Updaters \ {u} : upc'[v] = upc[v] /\ uhub'[v] = uhub[v]
        /\ upc'[u] # "write" /\ uhub'[u] \in {None, uhub[u]}
    BY <1>0, <2>1 DEF UDone, PullAgain, UGoto
  <2> QED
    BY <1>1, <2>1, <2>2, BeginUpdateInv
<1>3. CASE UpdateLoad(u) /\ state # None
  <2>1. /\ upc' = [upc EXCEPT ![u] = "write"] /\ copy' = [copy EXCEPT ![u] = state]
        /\ UNCHANGED <<state, uhub>>
    BY <1>3 DEF UpdateLoad, UGoto, files
  <2>2. \A v \in Updaters \ {u} : upc'[v] = upc[v] /\ copy'[v] = copy[v]
    BY <1>0, <2>1
  <2>3. upc'[u] = "write" /\ copy'[u] = state
    BY <1>0, <2>1
  <2>4. CopyCurrent'
    BY <1>0, <1>3, <2>1, <2>2, <2>3 DEF CopyCurrent
  <2>5. CursorsOurs'
    BY <1>0, <1>1, <1>3, <2>1, <2>2, <2>3 DEF CursorsOurs
  <2> QED
    BY <1>0, <1>1, <2>1, <2>4, <2>5 DEF Untangled, Alone, StateOwned, KeyOwned, Signs
<1>4. CASE UpdateSave(u)
  <2>1. PICK c : c = copy[u]
    OBVIOUS
  <2>2. c \in State /\ state # None /\ c.hub = state.hub /\ c.dev = state.dev
    BY <1>0, <1>4, <2>1 DEF UpdateSave, CopyLoaded, CopyCurrent
  <2>3. PICK h \in Hubs \cup {None} :
          /\ state' = [c EXCEPT !.from = h]
          /\ ~strayed => h \in {None, state.hub}
    <3>1. ~strayed => c.from \in {None, state.hub} /\ uhub[u] \in {None, state.hub}
      BY <1>0, <1>4, <2>1 DEF UpdateSave, CursorsOurs
    <3>2. c.from \in Hubs \cup {None} /\ uhub[u] \in Hubs \cup {None}
      BY <1>0, <2>2 DEF State
    <3> QED
      BY <1>4, <2>1, <3>1, <3>2 DEF UpdateSave
  <2>4. /\ state' \in State /\ state'.hub = state.hub /\ state'.dev = state.dev
        /\ state'.from = h
    BY <2>2, <2>3 DEF State
  <2>5. state' # None
    BY <2>4, MembershipAssumption
  <2>6. /\ \A v \in Updaters \ {u} : upc'[v] = upc[v] /\ copy'[v] = copy[v] /\ uhub'[v] = uhub[v]
        /\ upc'[u] \in {"top", "off", "pull"} /\ uhub'[u] \in {None, uhub[u]}
    BY <1>0, <1>4 DEF UpdateSave, UDone, PullAgain, UGoto
  <2>7. CopyCurrent'
    BY <1>0, <2>4, <2>5, <2>6 DEF CopyCurrent
  <2>8. CursorsOurs'
    BY <1>0, <1>1, <2>2, <2>3, <2>4, <2>5, <2>6 DEF CursorsOurs
  <2>9. StateOwned' /\ Signs'
    BY <1>0, <1>1, <2>2, <2>4, <2>5 DEF StateOwned, Signs
  <2>10. Alone' /\ KeyOwned'
    BY <1>0, <1>1, <2>5 DEF Alone, KeyOwned
  <2> QED
    BY <2>7, <2>8, <2>9, <2>10 DEF Untangled
<1> QED
  BY <1>2, <1>3, <1>4

LEMMA UntangledStep ==
  ASSUME TypeOK, JoinSound, CopyLoaded, Untangled, [Next]_vars, ~tangled'
  PROVE  Untangled'
<1>0. /\ jpc \in [Joiners -> {"idle", "generate", "pair", "store", "save", "rollback", "start"}]
      /\ lpc \in [Leavers -> {"idle", "stop", "state", "key"}]
      /\ upc \in [Updaters -> {"off", "top", "pull", "update", "write"}]
      /\ DOMAIN uhub = Updaters /\ DOMAIN jkey = Joiners
      /\ state \in State \cup {None} /\ Runtimes \subseteq Updaters /\ Setters \subseteq Updaters
      /\ Alone /\ StateOwned /\ CopyCurrent /\ CursorsOurs /\ KeyOwned /\ Signs
      /\ Migrators \subseteq Updaters
  BY DEF TypeOK, UpdateType, JoinType, Untangled, Updaters
<1>1. ASSUME UNCHANGED <<state, key, jpc, jkey, lpc, upc, uhub, copy, devices, keyLeft, strayed>>
      PROVE  Untangled'
  BY <1>1 DEF Untangled, Alone, StateOwned, CopyCurrent, CursorsOurs, KeyOwned, Signs
<1>2. ASSUME NEW j \in Joiners, NEW t \in Tokens, JoinBegin(j, t) PROVE Untangled'
  <2>1. /\ ~JoinOrLeave /\ state = None /\ jpc' = [jpc EXCEPT ![j] = "generate"]
        /\ UNCHANGED <<state, key, jkey, lpc, upc, uhub, copy, devices, keyLeft, strayed>>
    BY <1>2 DEF JoinBegin, JGoto, pairing, files, updates
  <2>2. /\ \A k \in Joiners : jpc[k] = "idle" /\ (k # j => jpc'[k] = "idle")
        /\ \A l \in Leavers : lpc[l] = "idle"
        /\ jpc'[j] = "generate"
    BY <1>0, <2>1 DEF JoinOrLeave
  <2>3. Alone' /\ StateOwned'
    BY <2>1, <2>2 DEF Alone, StateOwned
  <2>4. KeyOwned'
    BY <1>0, <2>1, <2>2 DEF KeyOwned
  <2> QED
    BY <1>0, <2>1, <2>3, <2>4 DEF Untangled, CopyCurrent, CursorsOurs, Signs
<1>3. ASSUME NEW j \in Joiners,
             \/ Generate(j) \/ PairFails(j) \/ Rollback(j) \/ StoreKey(j) \/ Pair(j)
             \/ SaveFails(j)
      PROVE  Untangled'
  <2>1. UNCHANGED <<state, lpc, upc, uhub, copy, strayed>>
    BY <1>3 DEF Generate, PairFails, Rollback, StoreKey, Pair, SaveFails, files, updates, ghost
  <2>2. /\ jpc[j] \in {"generate", "pair", "store", "save", "rollback"}
        /\ \E w \in {"pair", "store", "save", "rollback", "idle"} :
             /\ jpc' = [jpc EXCEPT ![j] = w]
             /\ w = "save" => key' = jkey'[j]
             /\ w = "idle" => key' = None \/ keyLeft'
    BY <1>3 DEF Generate, PairFails, Rollback, DropKey, StoreKey, Pair, SaveFails, JGoto, JDone
  <2>3. ASSUME NEW w \in {"pair", "store", "save", "rollback", "idle"},
               jpc' = [jpc EXCEPT ![j] = w],
               w = "save" => key' = jkey'[j], w = "idle" => key' = None \/ keyLeft'
        PROVE  Untangled'
    <3>1. jpc[j] \in {"generate", "pair", "store", "save", "rollback"}
      BY <2>2
    <3> QED
      BY <2>1, <2>3, <3>1, JoiningInv
  <2> QED
    BY <2>2, <2>3
<1>4. ASSUME NEW j \in Joiners, SaveState(j) PROVE Untangled'
  <2>1. /\ UNCHANGED <<key, jkey, jdev, jtok, lpc, upc, uhub, copy, devices, keyLeft, strayed>>
        /\ jpc' = [jpc EXCEPT ![j] = "start"] /\ jpc[j] = "save"
        /\ state' = [hub |-> HubOf[jtok[j]], dev |-> jdev[j], from |-> None]
    BY <1>4 DEF SaveState, JGoto, pairing, updates, ghost
  <2>2. /\ \A k \in Joiners \ {j} : jpc[k] = "idle" /\ jpc'[k] = "idle"
        /\ \A l \in Leavers : lpc[l] = "idle"
        /\ jpc'[j] = "start" /\ state = None /\ key = jkey[j]
    <3>1. jpc[j] # "idle"
      BY <2>1
    <3> QED
      BY <1>0, <2>1, <3>1, JoinAlone DEF StateOwned
  <2>3. /\ state'.hub = HubOf[jtok[j]] /\ state'.dev = jdev[j] /\ state'.from = None
        /\ jdev[j] \in DOMAIN devices
        /\ devices[jdev[j]].hub = HubOf[jtok[j]] /\ devices[jdev[j]].key = jkey[j]
    BY <2>1 DEF JoinSound
  <2>4. state' # None
    <3>1. HubOf[jtok[j]] \in Hubs /\ jdev[j] \in Nat
      <4>1. jtok[j] \in Tokens /\ jdev[j] \in 0..Len(devices) /\ Len(devices) \in Nat
        BY <2>1 DEF JoinSound, TypeOK, JoinType, HubType
      <4> QED
        BY <4>1, MembershipAssumption
    <3>2. state' \in State
      BY <2>1, <3>1 DEF State
    <3> QED
      BY <3>2, MembershipAssumption
  <2>5. Alone' /\ StateOwned'
    BY <2>1, <2>2, <2>4 DEF Alone, StateOwned
  <2>6. CopyCurrent' /\ CursorsOurs' /\ KeyOwned'
    BY <1>0, <2>1, <2>2, <2>3, <2>4 DEF CopyCurrent, CursorsOurs, KeyOwned
  <2>7. Signs'
    BY <2>1, <2>2, <2>3 DEF Signs
  <2> QED
    BY <2>5, <2>6, <2>7 DEF Untangled
<1>5. ASSUME NEW j \in Joiners, StartRuntime(j) PROVE Untangled'
  <2>1. /\ UNCHANGED <<state, key, lpc, uhub, copy, devices, keyLeft, strayed>>
        /\ jpc[j] = "start" /\ jpc' = [jpc EXCEPT ![j] = "idle"]
        /\ UNCHANGED upc \/ \E r \in Runtimes : upc' = [upc EXCEPT ![r] = "top"]
    BY <1>5 DEF StartRuntime, JDone, JGoto, pairing, files, ghost
  <2>2. /\ \A k \in Joiners : jpc'[k] = "idle"
        /\ \A l \in Leavers : lpc[l] = "idle"
        /\ state # None
    <3>1. jpc[j] # "idle"
      BY <2>1
    <3> QED
      BY <1>0, <2>1, <3>1, JoinAlone DEF StateOwned
  <2>3. \A u \in Updaters : upc'[u] = upc[u] \/ upc'[u] = "top"
    BY <1>0, <2>1
  <2>4. Alone' /\ StateOwned'
    BY <2>1, <2>2 DEF Alone, StateOwned
  <2>5. CopyCurrent' /\ CursorsOurs'
    BY <1>0, <2>1, <2>3 DEF CopyCurrent, CursorsOurs
  <2>6. KeyOwned' /\ Signs'
    BY <1>0, <2>1, <2>2 DEF KeyOwned, Signs
  <2> QED
    BY <2>4, <2>5, <2>6 DEF Untangled
<1>6. ASSUME NEW l \in Leavers, LeaveBegin(l) PROVE Untangled'
  <2>1. /\ ~JoinOrLeave /\ lpc' = [lpc EXCEPT ![l] = "stop"]
        /\ UNCHANGED <<state, key, jpc, jkey, upc, uhub, copy, devices, keyLeft, strayed>>
    BY <1>6 DEF LeaveBegin, LGoto, pairing, files, joins, updates
  <2>2. /\ \A k \in Joiners : jpc[k] = "idle"
        /\ \A m \in Leavers : lpc[m] = "idle" /\ (m # l => lpc'[m] = "idle")
        /\ lpc'[l] = "stop"
    BY <1>0, <2>1 DEF JoinOrLeave
  <2>3. Alone' /\ StateOwned'
    BY <2>1, <2>2 DEF Alone, StateOwned
  <2>4. KeyOwned'
    BY <1>0, <2>1, <2>2 DEF KeyOwned
  <2> QED
    BY <1>0, <2>1, <2>3, <2>4 DEF Untangled, CopyCurrent, CursorsOurs, Signs
<1>7. ASSUME NEW l \in Leavers, LeaveStep(l) PROVE Untangled'
  <2>1. /\ UNCHANGED <<jpc, jkey, upc, uhub, copy, devices>> /\ lpc[l] # "idle"
        /\ \/ /\ lpc' = [lpc EXCEPT ![l] = "state"] /\ lpc[l] = "stop"
              /\ UNCHANGED <<state, key, keyLeft, strayed>>
           \/ /\ lpc' = [lpc EXCEPT ![l] = "key"] /\ state' = None /\ UNCHANGED <<key, keyLeft>>
              /\ \A u \in Updaters : upc[u] # "write"
              /\ ~strayed' => ~strayed /\ \A u \in Updaters : uhub[u] = None
           \/ /\ lpc[l] = "key" /\ lpc' = [lpc EXCEPT ![l] = "idle"]
              /\ (key' = None /\ UNCHANGED keyLeft) \/ keyLeft'
              /\ UNCHANGED <<state, strayed>>
    BY <1>7 DEF LeaveStep, Stopped, DeleteState, DeleteKey, DropKey, LGoto, pairing, files,
       joins, updates, ghost
  <2>2. /\ \A j \in Joiners : jpc[j] = "idle"
        /\ \A m \in Leavers \ {l} : lpc[m] = "idle" /\ lpc'[m] = "idle"
    BY <1>0, <2>1 DEF Alone
  <2>3. CASE /\ lpc' = [lpc EXCEPT ![l] = "state"] /\ lpc[l] = "stop"
             /\ UNCHANGED <<state, key, keyLeft, strayed>>
    <3>1. lpc'[l] = "state"
      BY <1>0, <2>3
    <3>2. Alone' /\ StateOwned'
      BY <2>1, <2>2, <2>3, <3>1 DEF Alone, StateOwned
    <3>3. KeyOwned'
      BY <1>0, <2>1, <2>2, <2>3, <3>1 DEF KeyOwned
    <3> QED
      BY <1>0, <2>1, <2>3, <3>2, <3>3 DEF Untangled, CopyCurrent, CursorsOurs, Signs
  <2>4. CASE /\ lpc' = [lpc EXCEPT ![l] = "key"] /\ state' = None /\ UNCHANGED <<key, keyLeft>>
             /\ \A u \in Updaters : upc[u] # "write"
             /\ ~strayed' => ~strayed /\ \A u \in Updaters : uhub[u] = None
    <3>1. lpc'[l] = "key"
      BY <1>0, <2>4
    <3>2. Alone' /\ StateOwned'
      BY <2>1, <2>2, <2>4, <3>1 DEF Alone, StateOwned
    <3>3. KeyOwned' /\ Signs'
      BY <2>4, <3>1 DEF KeyOwned, Signs
    <3>4. CopyCurrent' /\ CursorsOurs'
      BY <2>1, <2>4 DEF CopyCurrent, CursorsOurs
    <3> QED
      BY <3>2, <3>3, <3>4 DEF Untangled
  <2>5. CASE /\ lpc[l] = "key" /\ lpc' = [lpc EXCEPT ![l] = "idle"]
             /\ (key' = None /\ UNCHANGED keyLeft) \/ keyLeft'
             /\ UNCHANGED <<state, strayed>>
    <3>1. lpc'[l] = "idle" /\ state = None
      BY <1>0, <2>5 DEF StateOwned
    <3>2. Alone' /\ StateOwned'
      BY <2>1, <2>2, <2>5, <3>1 DEF Alone, StateOwned
    <3>3. KeyOwned' /\ Signs'
      BY <2>5, <3>1 DEF KeyOwned, Signs
    <3>4. CopyCurrent' /\ CursorsOurs'
      BY <1>0, <2>1, <2>5 DEF CopyCurrent, CursorsOurs
    <3> QED
      BY <3>2, <3>3, <3>4 DEF Untangled
  <2> QED
    BY <2>1, <2>3, <2>4, <2>5
<1>8. ASSUME NEW u \in Updaters,
             Cycle(u) \/ Pull(u) \/ MigrateBegin(u) \/ MigrateEnd(u) \/ SetField(u)
      PROVE  Untangled'
  <2>1. UNCHANGED <<state, key, jpc, jkey, lpc, devices, keyLeft, strayed, copy>>
    BY <1>8 DEF Cycle, Pull, MigrateBegin, MigrateEnd, SetField, pairing, files, joins, ghost
  <2>2. \A v \in Updaters \ {u} : upc'[v] = upc[v] /\ uhub'[v] = uhub[v]
    BY <1>0, <1>8 DEF Cycle, Pull, MigrateBegin, MigrateEnd, SetField, UDone, UGoto
  <2>3. /\ upc'[u] # "write"
        /\ \/ uhub'[u] \in {None, uhub[u]}
           \/ state # None /\ uhub'[u] = state.hub
    BY <1>0, <1>8 DEF Cycle, Pull, MigrateBegin, MigrateEnd, SetField, UDone, UGoto
  <2> QED
    BY <2>1, <2>2, <2>3, BeginUpdateInv
<1>9. ASSUME LaptopRestarts PROVE Untangled'
  <2>1. /\ UNCHANGED <<state, key, devices>> /\ keyLeft' = TRUE
        /\ jpc' = [j \in Joiners |-> "idle"] /\ lpc' = [l \in Leavers |-> "idle"]
        /\ UNCHANGED strayed
        /\ \A u \in Updaters : upc'[u] \in {"top", "off"} /\ uhub'[u] = None
    BY <1>9 DEF LaptopRestarts, pairing, files
  <2>2. Alone' /\ StateOwned'
    BY <2>1 DEF Alone, StateOwned
  <2>3. CopyCurrent' /\ CursorsOurs' /\ KeyOwned' /\ Signs'
    BY <1>0, <2>1 DEF CopyCurrent, CursorsOurs, KeyOwned, Signs
  <2> QED
    BY <2>2, <2>3 DEF Untangled
<1>10. ASSUME \/ Tick
              \/ \E t \in Tokens : Mint(t) \/ Purge(t)
              \/ \E h \in Hubs : HubRestarts(h)
              \/ \E d \in DOMAIN devices : Unpair(d)
              \/ UNCHANGED vars
       PROVE  Untangled'
  <2>1. UNCHANGED <<state, key, jpc, jkey, lpc, upc, uhub, copy, devices, keyLeft, strayed>>
    BY <1>10 DEF Tick, Mint, Purge, HubRestarts, Unpair, vars, pairing, files, joins, updates, ghost
  <2> QED
    BY <1>1, <2>1
<1>11. ASSUME NEW u \in Updaters, UpdateLoad(u) \/ UpdateSave(u) PROVE Untangled'
  BY <1>11, UpdatingInv
<1> QED
  BY <1>2, <1>3, <1>4, <1>5, <1>6, <1>7, <1>8, <1>9, <1>10, <1>11
     DEF Next, JoinStep, RuntimeStep, MigrateStep, UpdateStep, Updaters
-----------------------------------------------------------------------------
(* The theorems. *)

\* At first there is no device, no state and no key.
LEMMA InitInv == Init => IInv
<1> SUFFICES ASSUME Init PROVE IInv
  OBVIOUS
<1>1. TypeOK
  <2>1. HubType
    BY MembershipAssumption DEF Init, HubType
  <2>2. JoinType
    BY MembershipAssumption DEF Init, JoinType
  <2>3. UpdateType
    <3>1. /\ stopping \in BOOLEAN /\ keyLeft \in BOOLEAN /\ tangled \in BOOLEAN
          /\ strayed \in BOOLEAN /\ thread = None
      BY DEF Init
    <3>2. faults \in 0..MaxFaults /\ lock = None
      BY MembershipAssumption DEF Init
    <3>3. /\ upc \in [Updaters -> {"off", "top", "pull", "update", "write"}]
          /\ uhub \in [Updaters -> Hubs \cup {None}] /\ copy \in [Updaters -> State \cup {None}]
      BY DEF Init
    <3> QED
      BY <3>1, <3>2, <3>3 DEF UpdateType
  <2> QED
    BY <2>1, <2>2, <2>3 DEF TypeOK
<1>2. TokensSpent /\ TokenOnce /\ JoinSound /\ CopyLoaded
  BY DEF Init, TokensSpent, TokenOnce, JoinSound, CopyLoaded
<1>3. Untangled
  BY DEF Init, Untangled, Alone, StateOwned, CopyCurrent, CursorsOurs, KeyOwned, Signs
<1> QED
  BY <1>1, <1>2, <1>3 DEF IInv

\* The invariant is inductive.
LEMMA NextInv == IInv /\ [Next]_vars => IInv'
<1> SUFFICES ASSUME IInv, [Next]_vars PROVE IInv'
  OBVIOUS
<1>0. /\ TypeOK /\ TokensSpent /\ TokenOnce /\ JoinSound /\ CopyLoaded
      /\ ~tangled => Untangled
  BY DEF IInv
<1>1. HubType' /\ TokensSpent' /\ TokenOnce'
  BY <1>0, HubStep
<1>2. JoinType' /\ JoinSound'
  BY <1>0, JoinStepSound, FilesStep DEF JoinType
<1>3. UpdateType' /\ CopyLoaded'
  BY <1>0, UpdateTypeStep
<1>4. ~tangled' => Untangled'
  BY <1>0, TangledStays, UntangledStep
<1> QED
  BY <1>1, <1>2, <1>3, <1>4 DEF IInv, TypeOK

\* A pairing token registers one device, for any number of joins that present
\* it, answers that are lost and restarts of hub and laptop.
THEOREM TokensOnce == Spec => []TokenOnce
<1>1. IInv => TokenOnce
  BY DEF IInv
<1> QED
  BY <1>1, InitInv, NextInv, PTL DEF Spec

\* The state file, the key file and the registry of the hub agree at every
\* instant, unless joins, leaves and writes of updates have met; the cursor is
\* this hub's unless a client has outlived its hub, and no key is left but by
\* the failures that keyLeft names.
THEOREM FilesAlwaysAgree == Spec => []FilesAgree
<1>1. IInv => FilesAgree
  <2> SUFFICES ASSUME IInv PROVE FilesAgree
    OBVIOUS
  <2>1. TypeOK /\ (~tangled => Untangled)
    BY DEF IInv
  <2>2. JoinedCanSign /\ CursorOfThisHub
    BY <2>1 DEF Untangled, Signs, CursorsOurs, JoinedCanSign, CursorOfThisHub
  <2>3. NoOrphanKey
    BY <2>1 DEF Untangled, KeyOwned, NoOrphanKey, JoinOrLeave
  <2> QED
    BY <2>1, <2>2, <2>3 DEF FilesAgree
<1> QED
  BY <1>1, InitInv, NextInv, PTL DEF Spec
=============================================================================
