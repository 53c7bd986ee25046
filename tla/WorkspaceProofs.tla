--------------------------- MODULE WorkspaceProofs ---------------------------
(***************************************************************************)
(* workspace.json is whole, one identity, and implements WorkspaceIdentity *)
(* (proofs about WorkspaceStore).                                          *)
(*                                                                         *)
(* While no two saves have overlapped, the one thread that saves owns the  *)
(* tmp file, and the record it saves is ahead of the file it has read      *)
(* (Owned).  That gives the whole file and the refinement.  One identity   *)
(* needs less: once there is a file, every record in a thread, in the tmp  *)
(* or in the file has its workspace id, overlapping saves or not (Ident).  *)
(***************************************************************************)
EXTENDS WorkspaceStore, TLAPS

Busy(th) == pc[th] # "idle"

\* A call in progress holds a record.
Holds == \A th \in Threads : Busy(th) => data[th] \in Record

\* What a saving thread knows while it is the only one.
Owns(th) ==
  /\ file \in Record \cup {Missing}
  /\ pc[th] = "write" => handle[th] = "tmp" /\ tmp = Torn
  /\ pc[th] = "replace" => tmp = data[th]
  /\ file = Missing => pc[th] # "ready" /\ data[th].lam = 0
  /\ file \in Record /\ pc[th] = "ready" => data[th] = file
  /\ file \in Record /\ pc[th] # "ready" => data[th].wid = file.wid /\ data[th].lam > file.lam

Owned ==
  overlap = "none" =>
    /\ file # Torn
    /\ ~Overlapping
    /\ \A th \in Threads : Saving(th) => Owns(th)

\* Everything that may become workspace.json, or be told of, has one id.
SameId(w) ==
  /\ known \subseteq {w}
  /\ file \in Record => file.wid = w
  /\ tmp \in Record => tmp.wid = w
  /\ \A th \in Threads : Busy(th) => data[th].wid = w

Ident ==
  overlap # "create" =>
    IF file = Missing
    THEN overlap = "none" /\ known = {} /\ \A th \in Threads : pc[th] # "ready"
    ELSE \E w \in Ids : SameId(w)

IInv == TypeOK /\ Holds /\ Owned /\ Ident

-----------------------------------------------------------------------------
(* Types. *)

LEMMA Typed ==
  ASSUME TypeOK
  PROVE  /\ DOMAIN handle = Threads /\ DOMAIN data = Threads /\ DOMAIN value = Threads
         /\ DOMAIN pc = Threads
         /\ file \in Record \cup {Missing, Torn} /\ tmp \in Record \cup {Missing, Torn}
         /\ \A th \in Threads : value[th] \in Nat /\ data[th] \in Record \cup {NoData}
         /\ \A r \in Record : r.wid \in Ids /\ r.lam \in Nat
         /\ overlap \in {"none", "save", "create"}
         /\ Missing \notin Record /\ Torn \notin Record /\ Missing # Torn
BY WorkspaceAssumption DEF TypeOK, Record

\* What _load returns: the record of the file, or a new one with a new id.
LEMMA LoadEffect ==
  ASSUME TypeOK, NEW th \in Threads, NEW v, Load(th, v)
  PROVE  /\ pc[th] = "idle" /\ UNCHANGED <<file, tmp, handle, known>> /\ NoteOverlap
         /\ value' = [value EXCEPT ![th] = v]
         /\ \E r \in Record, where \in {"ready", "open"} :
              /\ data' = [data EXCEPT ![th] = r] /\ pc' = [pc EXCEPT ![th] = where]
              /\ \/ file \in Record /\ r = file /\ where = "ready"
                 \/ file = Missing /\ r.lam = 0 /\ where = "open"
<1>1. \A id \in Ids : [wid |-> id, lam |-> 0] \in Record /\ [wid |-> id, lam |-> 0].lam = 0
  BY DEF Record
<1>2. pc[th] = "idle" /\ UNCHANGED <<file, tmp, handle, known>> /\ NoteOverlap
      /\ value' = [value EXCEPT ![th] = v]
  BY DEF Load
<1> DEFINE Goal == \E r \in Record, where \in {"ready", "open"} :
              /\ data' = [data EXCEPT ![th] = r] /\ pc' = [pc EXCEPT ![th] = where]
              /\ \/ file \in Record /\ r = file /\ where = "ready"
                 \/ file = Missing /\ r.lam = 0 /\ where = "open"
<1>3. ASSUME file \in Record, data' = [data EXCEPT ![th] = file], Goto(th, "ready")
      PROVE  Goal
  <2>1. pc' = [pc EXCEPT ![th] = "ready"] /\ "ready" \in {"ready", "open"}
    BY <1>3 DEF Goto
  <2> QED
    BY <1>3, <2>1, Zenon
<1>4. ASSUME NEW id \in Ids, file = Missing, Goto(th, "open"),
             data' = [data EXCEPT ![th] = [wid |-> id, lam |-> 0]]
      PROVE  Goal
  <2> DEFINE r == [wid |-> id, lam |-> 0]
  <2>1. r \in Record /\ r.lam = 0 /\ data' = [data EXCEPT ![th] = r]
    BY <1>1, <1>4
  <2>2. pc' = [pc EXCEPT ![th] = "open"] /\ "open" \in {"ready", "open"}
    BY <1>4 DEF Goto
  <2> HIDE DEF r
  <2> QED
    BY <1>4, <2>1, <2>2, Zenon
<1> HIDE DEF Goal
<1>5. Goal
  BY <1>3, <1>4 DEF Load
<1> QED
  BY <1>2, <1>5 DEF Goal

\* The record bump_lamport_to saves.
LEMMA BumpEffect ==
  ASSUME TypeOK, Holds, NEW th \in Threads, ReturnOrBump(th)
  PROVE  /\ pc[th] = "ready" /\ data[th] \in Record /\ UNCHANGED <<file, tmp, overlap>>
         /\ \/ /\ value[th] > data[th].lam /\ UNCHANGED <<handle, value, known>>
               /\ pc' = [pc EXCEPT ![th] = "open"]
               /\ \E r \in Record : /\ data' = [data EXCEPT ![th] = r]
                                    /\ r.wid = data[th].wid /\ r.lam = value[th]
            \/ Done(th) /\ (known' = known \/ known' = known \cup {data[th].wid})
<1>1. pc[th] = "ready" /\ data[th] \in Record /\ UNCHANGED <<file, tmp, overlap>> /\ value[th] \in Nat
  BY DEF ReturnOrBump, Holds, Busy, TypeOK
<1>2. CASE value[th] > data[th].lam
  <2>1. /\ data' = [data EXCEPT ![th].lam = value[th]] /\ UNCHANGED <<handle, value, known>>
        /\ pc' = [pc EXCEPT ![th] = "open"]
    BY <1>2 DEF ReturnOrBump, Goto
  <2> DEFINE r == [data[th] EXCEPT !.lam = value[th]]
  <2>2. r \in Record /\ r.wid = data[th].wid /\ r.lam = value[th]
    BY <1>1 DEF Record
  <2>3. data' = [data EXCEPT ![th] = r]
    BY <2>1
  <2> HIDE DEF r
  <2> QED
    BY <1>1, <1>2, <2>1, <2>2, <2>3
<1>3. CASE ~(value[th] > data[th].lam)
  BY <1>1, <1>3 DEF ReturnOrBump
<1> QED
  BY <1>2, <1>3

LEMMA OverwriteType ==
  ASSUME NEW old, NEW new \in Record
  PROVE  Overwrite(old, new) \in {new, Torn} /\ (old \notin Record => Overwrite(old, new) = new)
BY DEF Overwrite

LEMMA WriteEffect ==
  ASSUME TypeOK, Holds, NEW th \in Threads, WriteTmp(th)
  PROVE  /\ pc[th] = "write" /\ data[th] \in Record /\ UNCHANGED <<data, value, known, overlap>>
         /\ pc' = [pc EXCEPT ![th] = "replace"] /\ handle' = [handle EXCEPT ![th] = "none"]
         /\ tmp' \in {tmp, data[th], Torn} /\ file' \in {file, data[th], Torn}
         /\ handle[th] = "tmp" => file' = file
         /\ handle[th] = "tmp" /\ tmp \notin Record => tmp' = data[th]
         /\ file = Missing => file' = file \/ handle[th] = "file"
<1>1. pc[th] = "write" /\ data[th] \in Record
  BY DEF WriteTmp, Holds, Busy
<1>2. /\ UNCHANGED <<data, value, known, overlap>> /\ pc' = [pc EXCEPT ![th] = "replace"]
      /\ handle' = [handle EXCEPT ![th] = "none"]
      /\ tmp' = IF handle[th] = "tmp" THEN Overwrite(tmp, data[th]) ELSE tmp
      /\ file' = IF handle[th] = "file" THEN Overwrite(file, data[th]) ELSE file
  BY DEF WriteTmp, Goto
<1> QED
  BY <1>1, <1>2, OverwriteType

LEMMA TypeStep ==
  ASSUME TypeOK, Holds, [Next]_vars
  PROVE  TypeOK' /\ Holds'
<1>0. /\ DOMAIN handle = Threads /\ DOMAIN data = Threads /\ DOMAIN value = Threads
      /\ DOMAIN pc = Threads
      /\ file \in Record \cup {Missing, Torn} /\ tmp \in Record \cup {Missing, Torn}
      /\ \A r \in Record : r.wid \in Ids
      /\ overlap \in {"none", "save", "create"}
  BY Typed
<1> DEFINE Goal == TypeOK' /\ Holds'
<1>1. ASSUME NEW th \in Threads, NEW v \in Nat, Load(th, v) PROVE Goal
  <2>1. overlap' \in {"none", "save", "create"}
    BY <1>0, <1>1 DEF Load, NoteOverlap
  <2>2. PICK r \in Record, where \in {"ready", "open"} :
           data' = [data EXCEPT ![th] = r] /\ pc' = [pc EXCEPT ![th] = where]
    BY <1>1, LoadEffect
  <2>3. UNCHANGED <<file, tmp, handle, known>> /\ value' = [value EXCEPT ![th] = v]
    BY <1>1, LoadEffect
  <2> QED
    BY <1>0, <2>1, <2>2, <2>3 DEF TypeOK, Holds, Busy
<1>2. ASSUME NEW th \in Threads, ReturnOrBump(th) PROVE Goal
  <2>1. data[th] \in Record /\ UNCHANGED <<file, tmp, overlap>>
    BY <1>2, BumpEffect
  <2>2. CASE Done(th)
    <3>1. known' \subseteq Ids
      BY <1>0, <1>2, <2>1 DEF ReturnOrBump, TypeOK
    <3> QED
      BY <1>0, <2>1, <2>2, <3>1 DEF Done, Goto, TypeOK, Holds, Busy
  <2>3. ASSUME NEW r \in Record, data' = [data EXCEPT ![th] = r],
               pc' = [pc EXCEPT ![th] = "open"], UNCHANGED <<handle, value, known>>
        PROVE  Goal
    BY <1>0, <2>1, <2>3 DEF TypeOK, Holds, Busy
  <2> HIDE DEF Goal
  <2> QED
    BY <1>2, <2>2, <2>3, BumpEffect
<1>3. ASSUME NEW th \in Threads, OpenTmp(th) PROVE Goal
  BY <1>0, <1>3 DEF OpenTmp, Goto, TypeOK, Holds, Busy
<1>4. ASSUME NEW th \in Threads, WriteTmp(th) PROVE Goal
  <2>1. /\ pc[th] = "write" /\ UNCHANGED <<data, value, known, overlap>>
        /\ pc' = [pc EXCEPT ![th] = "replace"] /\ handle' = [handle EXCEPT ![th] = "none"]
        /\ tmp' \in Record \cup {Missing, Torn} /\ file' \in Record \cup {Missing, Torn}
    BY <1>0, <1>4, WriteEffect
  <2> QED
    BY <1>0, <2>1 DEF TypeOK, Holds, Busy
<1>5. ASSUME NEW th \in Threads, Replace(th) PROVE Goal
  <2>1. CASE Done(th) /\ UNCHANGED <<file, tmp, known, overlap>>
    BY <1>0, <2>1 DEF Done, Goto, TypeOK, Holds, Busy
  <2>2. CASE /\ file' = tmp /\ tmp' = Missing /\ Goto(th, "ready")
             /\ handle' = [u \in Threads |-> Renamed(handle[u])]
             /\ UNCHANGED <<data, value, known, overlap>>
    <3>1. handle' \in [Threads -> {"none", "tmp", "file", "gone"}]
      BY <2>2 DEF Renamed, TypeOK
    <3>2. Holds'
      BY <1>0, <1>5, <2>2 DEF Holds, Busy, Goto, Replace
    <3> QED
      BY <1>0, <2>2, <3>1, <3>2 DEF Goto, TypeOK
  <2> QED
    BY <1>5, <2>1, <2>2 DEF Replace
<1>6. ASSUME Crash PROVE Goal
  BY <1>6 DEF Crash, TypeOK, Holds, Busy
<1>7. ASSUME UNCHANGED vars PROVE Goal
  BY <1>7 DEF vars, TypeOK, Holds, Busy
<1>8. 0 \in Nat /\ BumpValues \subseteq Nat /\ Writers \subseteq Threads
  BY WorkspaceAssumption DEF Threads
<1> HIDE DEF Goal
<1>9. Goal
  BY <1>1, <1>2, <1>3, <1>4, <1>5, <1>6, <1>7, <1>8 DEF Next, Step
<1> QED
  BY <1>9 DEF Goal

-----------------------------------------------------------------------------
(* One thread saves. *)

\* Only _load makes a thread one that saves.
LEMMA NobodyJoins ==
  ASSUME \A u \in Threads : Saving(u)' => Saving(u), ~Overlapping
  PROVE  ~Overlapping'
BY DEF Overlapping

LEMMA OwnedStep ==
  ASSUME TypeOK, Holds, Owned, [Next]_vars
  PROVE  Owned'
<1> SUFFICES ASSUME overlap' = "none"
             PROVE  /\ file' # Torn /\ ~Overlapping'
                    /\ \A u \in Threads : Saving(u)' => Owns(u)'
  BY DEF Owned
<1>0. /\ DOMAIN handle = Threads /\ DOMAIN data = Threads /\ DOMAIN value = Threads
      /\ DOMAIN pc = Threads
      /\ \A th \in Threads : value[th] \in Nat
      /\ \A r \in Record : r.lam \in Nat
      /\ Missing \notin Record /\ Torn \notin Record /\ Missing # Torn
  BY Typed
<1> DEFINE Goal == /\ file' # Torn /\ ~Overlapping'
                   /\ \A u \in Threads : Saving(u)' => Owns(u)'
<1>1. ASSUME overlap = "none"
      PROVE  /\ file # Torn /\ ~Overlapping /\ \A u \in Threads : Saving(u) => Owns(u)
  BY <1>1 DEF Owned
<1>2. ASSUME NEW u \in Threads, NEW th \in Threads, u # th, UNCHANGED <<file, tmp>>,
             Saving(u) => Owns(u),
             handle'[u] = handle[u], data'[u] = data[u], value'[u] = value[u], pc'[u] = pc[u]
      PROVE  Saving(u)' => Owns(u)'
  BY <1>2 DEF Saving, Owns
<1>3. ASSUME NEW th \in Threads, NEW v \in Nat, Load(th, v) PROVE Goal
  <2>1. /\ UNCHANGED <<file, tmp, handle>> /\ value' = [value EXCEPT ![th] = v]
        /\ overlap = "none" /\ ~Overlapping'
    BY <1>3, LoadEffect DEF NoteOverlap
  <2>2. PICK r \in Record, where \in {"ready", "open"} :
              /\ data' = [data EXCEPT ![th] = r] /\ pc' = [pc EXCEPT ![th] = where]
              /\ \/ file \in Record /\ r = file /\ where = "ready"
                 \/ file = Missing /\ r.lam = 0 /\ where = "open"
    BY <1>3, LoadEffect
  <2>3. ASSUME NEW u \in Threads \ {th} PROVE Saving(u)' => Owns(u)'
    BY <1>0, <1>1, <1>2, <2>1, <2>2
  <2>4. Owns(th)'
    <3>1. data'[th] = r /\ pc'[th] = where
      BY <1>0, <2>2
    <3> QED
      BY <1>0, <2>1, <2>2, <3>1 DEF Owns
  <2>5. file' # Torn
    BY <1>1, <2>1
  <2> QED
    BY <2>1, <2>3, <2>4, <2>5
<1>4. ASSUME NEW th \in Threads, Done(th), UNCHANGED <<file, tmp, overlap>> PROVE Goal
  <2>1. /\ pc'[th] = "idle"
        /\ \A u \in Threads \ {th} : /\ handle'[u] = handle[u] /\ data'[u] = data[u]
                                     /\ value'[u] = value[u] /\ pc'[u] = pc[u]
    BY <1>0, <1>4 DEF Done, Goto
  <2>2. \A u \in Threads \ {th} : Saving(u)' => Owns(u)'
    BY <1>1, <1>2, <1>4, <2>1
  <2>3. \A u \in Threads : Saving(u)' => Saving(u)
    BY <2>1 DEF Saving
  <2>4. ~Overlapping' /\ file' # Torn
    BY <1>1, <1>4, <2>3, NobodyJoins
  <2>5. ~Saving(th)'
    BY <2>1 DEF Saving
  <2> QED
    BY <2>2, <2>4, <2>5
\* The others do not save.
<1>5. ASSUME NEW th \in Threads, Saving(th), overlap = "none", file' # Torn, Owns(th)',
             \A u \in Threads \ {th} : pc'[u] = pc[u] /\ value'[u] = value[u]
      PROVE  Goal
  <2>1. \A u \in Threads \ {th} : ~Saving(u)
    BY <1>1, <1>5 DEF Overlapping
  <2>2. \A u \in Threads \ {th} : ~Saving(u)'
    BY <1>5, <2>1 DEF Saving
  <2> QED
    BY <1>5, <2>2 DEF Overlapping
<1>6. ASSUME NEW th \in Threads, ReturnOrBump(th) PROVE Goal
  <2>1. CASE Done(th)
    BY <1>4, <1>6, <2>1, BumpEffect
  <2>2. ASSUME NEW r \in Record, value[th] > data[th].lam, UNCHANGED <<handle, value>>,
               data' = [data EXCEPT ![th] = r], pc' = [pc EXCEPT ![th] = "open"],
               r.wid = data[th].wid, r.lam = value[th]
        PROVE  Goal
    <3>1. pc[th] = "ready" /\ data[th] \in Record /\ UNCHANGED <<file, tmp, overlap>>
      BY <1>6, BumpEffect
    <3>2. value[th] \in Nat /\ value[th] > 0
      BY <1>0, <2>2, <3>1
    <3>3. Saving(th)
      BY <3>1, <3>2 DEF Saving
    <3>4. file \in Record /\ data[th] = file
      BY <1>1, <3>1, <3>3 DEF Owns
    <3>5. data'[th] = r /\ pc'[th] = "open"
      BY <1>0, <2>2
    <3>6. Owns(th)'
      BY <1>0, <2>2, <3>1, <3>4, <3>5 DEF Owns
    <3>7. \A u \in Threads \ {th} : pc'[u] = pc[u] /\ value'[u] = value[u]
      BY <1>0, <2>2
    <3>8. file' # Torn /\ overlap = "none"
      BY <1>1, <3>1
    <3> QED
      BY <1>5, <3>3, <3>6, <3>7, <3>8
  <2> HIDE DEF Goal
  <2> QED
    BY <1>6, <2>1, <2>2, BumpEffect
<1>7. ASSUME NEW th \in Threads, OpenTmp(th) PROVE Goal
  <2>1. /\ pc[th] = "open" /\ tmp' = Torn /\ UNCHANGED <<file, data, value, overlap>>
        /\ handle'[th] = "tmp" /\ pc'[th] = "write" /\ \A u \in Threads \ {th} : pc'[u] = pc[u]
    BY <1>0, <1>7 DEF OpenTmp, Goto
  <2>2. Saving(th) /\ Owns(th) /\ file' # Torn
    BY <1>1, <2>1 DEF Saving
  <2>3. Owns(th)'
    BY <2>1, <2>2 DEF Owns
  <2> QED
    BY <1>5, <2>1, <2>2, <2>3
<1>8. ASSUME NEW th \in Threads, WriteTmp(th) PROVE Goal
  <2>1. /\ pc[th] = "write" /\ data[th] \in Record /\ UNCHANGED <<data, value, overlap>>
        /\ pc' = [pc EXCEPT ![th] = "replace"]
    BY <1>8, WriteEffect
  <2>2. Saving(th) /\ Owns(th) /\ file # Torn
    BY <1>1, <2>1 DEF Saving
  <2>3. handle[th] = "tmp" /\ tmp \notin Record
    BY <1>0, <2>1, <2>2 DEF Owns
  <2>4. file' = file /\ tmp' = data[th]
    BY <1>8, <2>3, WriteEffect
  <2>5. pc'[th] = "replace" /\ \A u \in Threads \ {th} : pc'[u] = pc[u]
    BY <1>0, <2>1
  <2>6. Owns(th)'
    BY <2>1, <2>2, <2>4, <2>5 DEF Owns
  <2> QED
    BY <1>5, <2>1, <2>2, <2>4, <2>5, <2>6
<1>9. ASSUME NEW th \in Threads, Replace(th) PROVE Goal
  <2>1. pc[th] = "replace" /\ UNCHANGED overlap
    BY <1>9 DEF Replace
  <2>2. Saving(th) /\ Owns(th) /\ data[th] \in Record
    BY <1>1, <2>1 DEF Saving, Holds, Busy
  <2>3. tmp = data[th] /\ tmp # Missing
    BY <1>0, <2>1, <2>2 DEF Owns
  <2>4. file' = data[th] /\ pc' = [pc EXCEPT ![th] = "ready"] /\ UNCHANGED <<data, value>>
    BY <1>9, <2>3 DEF Replace, Goto
  <2>5. pc'[th] = "ready" /\ \A u \in Threads \ {th} : pc'[u] = pc[u]
    BY <1>0, <2>4
  <2>6. Owns(th)' /\ file' # Torn
    BY <1>0, <2>2, <2>4, <2>5 DEF Owns
  <2> QED
    BY <1>5, <2>1, <2>2, <2>4, <2>5, <2>6
<1>10. ASSUME Crash PROVE Goal
  <2>1. \A u \in Threads : ~Saving(u)'
    BY <1>10 DEF Crash, Saving
  <2>2. file' # Torn
    BY <1>1, <1>10 DEF Crash
  <2> QED
    BY <2>1, <2>2 DEF Overlapping
<1>11. ASSUME UNCHANGED vars PROVE Goal
  BY <1>1, <1>11 DEF vars, Overlapping, Saving, Owns
<1>12. 0 \in Nat /\ BumpValues \subseteq Nat /\ Writers \subseteq Threads
  BY WorkspaceAssumption DEF Threads
<1> HIDE DEF Goal
<1>13. Goal
  BY <1>3, <1>6, <1>7, <1>8, <1>9, <1>10, <1>11, <1>12 DEF Next, Step
<1> QED
  BY <1>13 DEF Goal

\* A step that changes the file, while no two saves have overlapped, is the
\* replace of a thread that owns the tmp file.
LEMMA FileStep ==
  ASSUME TypeOK, Holds, Owned, [Next]_vars, overlap' = "none", file' # file
  PROVE  \/ file = Missing /\ file' \in Record /\ file'.lam = 0
         \/ /\ file \in Record /\ file' \in Record
            /\ file'.wid = file.wid /\ file'.lam > file.lam
<1>0. Missing \notin Record /\ Torn \notin Record /\ Missing # Torn
  BY Typed
<1>1. PICK th \in Threads : WriteTmp(th) \/ Replace(th)
  BY DEF Next, Step, vars, Load, ReturnOrBump, OpenTmp, Crash
<1>2. overlap = "none" /\ pc[th] \in {"write", "replace"}
  BY <1>1 DEF WriteTmp, Replace
<1>3. Owns(th) /\ data[th] \in Record
  BY <1>2 DEF Owned, Saving, Holds, Busy
<1>4. ~WriteTmp(th)
  <2> SUFFICES ASSUME WriteTmp(th) PROVE FALSE
    OBVIOUS
  <2>1. handle[th] = "tmp"
    BY <1>3 DEF WriteTmp, Owns
  <2> QED
    BY <2>1, WriteEffect
<1>5. pc[th] = "replace" /\ file' = data[th]
  <2>1. pc[th] = "replace" /\ (tmp = Missing \/ file' = tmp)
    BY <1>1, <1>4 DEF Replace
  <2> QED
    BY <1>0, <1>3, <2>1 DEF Owns
<1> QED
  BY <1>3, <1>5 DEF Owns

-----------------------------------------------------------------------------
(* One identity. *)

LEMMA IdentStep ==
  ASSUME TypeOK, Holds, Owned, Ident, [Next]_vars
  PROVE  Ident'
<1> SUFFICES ASSUME overlap' # "create"
             PROVE  IF file' = Missing
                    THEN overlap' = "none" /\ known' = {} /\ \A th \in Threads : pc'[th] # "ready"
                    ELSE \E w \in Ids : SameId(w)'
  BY DEF Ident
<1>0. /\ DOMAIN handle = Threads /\ DOMAIN data = Threads /\ DOMAIN pc = Threads
      /\ \A r \in Record : r.wid \in Ids
      /\ Missing \notin Record /\ Torn \notin Record /\ Missing # Torn
      /\ file \in Record \cup {Missing, Torn}
  BY Typed
<1> DEFINE Goal == IF file' = Missing
                   THEN overlap' = "none" /\ known' = {} /\ \A th \in Threads : pc'[th] # "ready"
                   ELSE \E w \in Ids : SameId(w)'
<1>1. overlap # "create"
  BY DEF Next, Step, vars, Load, NoteOverlap, ReturnOrBump, OpenTmp, WriteTmp, Replace, Crash
\* With no file yet there is at most one call, on its way to create it.
<1>2. ASSUME file = Missing
      PROVE  /\ overlap = "none" /\ known = {}
             /\ \A th \in Threads : pc[th] # "ready" /\ (Busy(th) => Saving(th) /\ Owns(th))
             /\ \A t, u \in Threads : Busy(t) /\ Busy(u) => t = u
  <2>1. overlap = "none" /\ known = {} /\ \A th \in Threads : pc[th] # "ready"
    BY <1>1, <1>2 DEF Ident
  <2>2. \A th \in Threads : Busy(th) => Saving(th)
    BY <2>1 DEF Busy, Saving, TypeOK
  <2> QED
    BY <2>1, <2>2 DEF Owned, Overlapping
<1>3. ASSUME NEW w \in Ids, SameId(w), file # Missing, NEW th \in Threads,
             Step(th) \/ \E v \in Nat : Load(th, v)
      PROVE  Goal
  <2>0. /\ known \subseteq {w}
        /\ file \in Record => file.wid = w
        /\ tmp \in Record => tmp.wid = w
        /\ \A u \in Threads : Busy(u) => data[u].wid = w
    BY <1>3 DEF SameId
  <2>1. ASSUME NEW v \in Nat, Load(th, v) PROVE SameId(w)' /\ UNCHANGED file
    <3>1. /\ UNCHANGED <<file, tmp, handle, known>>
          /\ \E where : data' = [data EXCEPT ![th] = file] /\ pc' = [pc EXCEPT ![th] = where]
                        /\ file \in Record
      BY <1>3, <2>1, LoadEffect
    <3>2. \A u \in Threads : Busy(u)' => data'[u].wid = w
      BY <1>0, <2>0, <3>1 DEF Busy
    <3> QED
      BY <2>0, <3>1, <3>2 DEF SameId
  <2>2. ASSUME ReturnOrBump(th) PROVE SameId(w)' /\ UNCHANGED file
    <3>1. pc[th] = "ready" /\ UNCHANGED <<file, tmp>> /\ data[th].wid = w
      BY <2>0, <2>2, BumpEffect DEF Busy
    <3>2. CASE Done(th) /\ (known' = known \/ known' = known \cup {data[th].wid})
      <4>1. \A u \in Threads : Busy(u)' => Busy(u) /\ data'[u] = data[u]
        BY <1>0, <3>2 DEF Done, Goto, Busy
      <4> QED
        BY <2>0, <3>1, <3>2, <4>1 DEF SameId
    <3>3. ASSUME NEW r \in Record, UNCHANGED known, r.wid = data[th].wid,
                 data' = [data EXCEPT ![th] = r], pc' = [pc EXCEPT ![th] = "open"]
          PROVE  SameId(w)'
      <4>1. \A u \in Threads : Busy(u)' => data'[u].wid = w
        BY <1>0, <2>0, <3>1, <3>3 DEF Busy
      <4> QED
        BY <2>0, <3>1, <3>3, <4>1 DEF SameId
    <3> QED
      BY <2>2, <3>1, <3>2, <3>3, BumpEffect
  <2>3. ASSUME OpenTmp(th) PROVE SameId(w)' /\ UNCHANGED file
    <3>1. tmp' = Torn /\ UNCHANGED <<file, data, known>> /\ \A u \in Threads : Busy(u)' => Busy(u)
      BY <1>0, <2>3 DEF OpenTmp, Goto, Busy
    <3> QED
      BY <1>0, <2>0, <3>1 DEF SameId
  <2>4. ASSUME WriteTmp(th) PROVE SameId(w)' /\ file' # Missing
    <3>1. /\ data[th].wid = w /\ UNCHANGED <<data, known>> /\ data[th] \in Record
          /\ tmp' \in {tmp, data[th], Torn} /\ file' \in {file, data[th], Torn}
          /\ \A u \in Threads : Busy(u)' => Busy(u)
      BY <1>0, <2>0, <2>4, WriteEffect DEF Busy
    <3> QED
      BY <1>0, <1>3, <2>0, <3>1 DEF SameId
  <2>5. ASSUME Replace(th) PROVE SameId(w)' /\ file' # Missing
    <3>1. CASE Done(th) /\ UNCHANGED <<file, tmp, known>>
      <4>1. \A u \in Threads : Busy(u)' => Busy(u) /\ data'[u] = data[u]
        BY <1>0, <3>1 DEF Done, Goto, Busy
      <4> QED
        BY <1>3, <2>0, <3>1, <4>1 DEF SameId
    <3>2. CASE tmp # Missing /\ file' = tmp /\ tmp' = Missing /\ UNCHANGED <<data, known>>
      <4>1. \A u \in Threads : Busy(u)' => Busy(u)
        BY <1>0, <2>5 DEF Replace, Goto, Done, Busy
      <4> QED
        BY <1>0, <2>0, <3>2, <4>1 DEF SameId
    <3> QED
      BY <2>5, <3>1, <3>2 DEF Replace
  <2>6. SameId(w)' /\ file' # Missing
    BY <1>3, <2>1, <2>2, <2>3, <2>4, <2>5 DEF Step
  <2> QED
    BY <2>6
<1>4. ASSUME file = Missing, NEW th \in Threads, NEW v \in Nat, Load(th, v) PROVE Goal
  <2>1. /\ UNCHANGED <<file, known>> /\ NoteOverlap
        /\ pc' = [pc EXCEPT ![th] = "open"]
    BY <1>0, <1>4, LoadEffect
  <2>2. overlap' = "none"
    BY <1>2, <1>4, <2>1 DEF NoteOverlap
  <2> QED
    BY <1>0, <1>2, <1>4, <2>1, <2>2
<1>5. ASSUME file = Missing, NEW th \in Threads, Step(th) PROVE Goal
  <2>1. /\ overlap = "none" /\ known = {} /\ \A u \in Threads : pc[u] # "ready"
        /\ \A u \in Threads : Busy(u) => u = th
        /\ Owns(th) /\ Busy(th)
    BY <1>2, <1>5 DEF Step, ReturnOrBump, OpenTmp, WriteTmp, Replace, Busy
  <2>2. CASE OpenTmp(th)
    <3>1. UNCHANGED <<file, known, overlap>> /\ pc' = [pc EXCEPT ![th] = "write"]
      BY <2>2 DEF OpenTmp, Goto
    <3> QED
      BY <1>0, <1>5, <2>1, <3>1
  <2>3. CASE WriteTmp(th)
    <3>1. UNCHANGED <<file, known, overlap>> /\ pc' = [pc EXCEPT ![th] = "replace"]
      BY <2>1, <2>3, WriteEffect DEF Owns
    <3> QED
      BY <1>0, <1>5, <2>1, <3>1
  <2>4. CASE Replace(th)
    <3>1. pc[th] = "replace" /\ data[th] \in Record /\ tmp = data[th]
      BY <2>1, <2>4 DEF Replace, Owns, Holds
    <3>2. file' = data[th] /\ tmp' = Missing /\ UNCHANGED <<data, known>>
          /\ pc' = [pc EXCEPT ![th] = "ready"]
      BY <1>0, <2>4, <3>1 DEF Replace, Goto
    <3>3. \A u \in Threads : Busy(u)' => u = th
      BY <1>0, <2>1, <3>2 DEF Busy
    <3>4. data[th].wid \in Ids /\ file' # Missing
      BY <1>0, <3>1, <3>2
    <3>5. \E w \in Ids : SameId(w)'
      <4>1. PICK x : x = data[th].wid
        OBVIOUS
      <4> QED
        BY <2>1, <3>1, <3>2, <3>3, <3>4, <4>1, <1>0 DEF SameId
    <3> QED
      BY <3>4, <3>5
  <2> QED
    BY <1>5, <2>1, <2>2, <2>3, <2>4 DEF Step, ReturnOrBump
<1>6. ASSUME Crash PROVE Goal
  <2>1. UNCHANGED <<file, tmp, known, overlap>> /\ \A th \in Threads : pc'[th] = "idle"
    BY <1>6 DEF Crash
  <2>2. CASE file = Missing
    BY <1>2, <2>1, <2>2
  <2>3. ASSUME NEW w \in Ids, SameId(w) PROVE SameId(w)'
    BY <2>1, <2>3 DEF SameId, Busy
  <2> QED
    BY <1>1, <2>1, <2>2, <2>3 DEF Ident
<1>7. ASSUME UNCHANGED vars PROVE Goal
  <2>1. CASE file = Missing
    BY <1>2, <1>7, <2>1 DEF vars
  <2>2. ASSUME NEW w \in Ids, SameId(w) PROVE SameId(w)'
    BY <1>7, <2>2 DEF vars, SameId, Busy
  <2> QED
    BY <1>1, <1>7, <2>1, <2>2 DEF Ident, vars
<1>8. ASSUME NEW th \in Threads, Step(th) \/ \E v \in Nat : Load(th, v) PROVE Goal
  <2>1. CASE file = Missing
    BY <1>4, <1>5, <1>8, <2>1
  <2>2. CASE file # Missing
    <3>1. PICK w \in Ids : SameId(w)
      BY <1>1, <2>2 DEF Ident
    <3> HIDE DEF Goal
    <3> QED
      BY <1>3, <1>8, <2>2, <3>1
  <2> QED
    BY <2>1, <2>2
<1>9. 0 \in Nat /\ BumpValues \subseteq Nat /\ Writers \subseteq Threads
  BY WorkspaceAssumption DEF Threads
<1> HIDE DEF Goal
<1>10. Goal
  BY <1>6, <1>7, <1>8, <1>9 DEF Next
<1> QED
  BY <1>10 DEF Goal

-----------------------------------------------------------------------------
LEMMA InvInit == Init => IInv
<1> SUFFICES ASSUME Init PROVE IInv
  OBVIOUS
<1>0. /\ file \in Record \cup {Missing} /\ Missing \notin Record /\ Torn \notin Record
      /\ Missing # Torn /\ tmp = Missing
      /\ \A th \in Threads : pc[th] = "idle"
  BY WorkspaceAssumption DEF Init
<1>1. TypeOK
  BY <1>0 DEF Init, TypeOK
<1>2. Holds /\ Owned
  BY <1>0 DEF Holds, Owned, Busy, Overlapping, Saving
<1>3. Ident
  <2>1. CASE file \in Record
    <3>1. file.wid \in Ids
      BY <2>1 DEF Record
    <3>2. SameId(file.wid)
      BY <1>0 DEF Init, SameId, Busy
    <3> QED
      BY <1>0, <2>1, <3>1, <3>2 DEF Ident
  <2> QED
    BY <1>0, <2>1 DEF Ident, Init
<1> QED
  BY <1>1, <1>2, <1>3 DEF IInv

LEMMA InvStep == IInv /\ [Next]_vars => IInv'
BY TypeStep, OwnedStep, IdentStep DEF IInv

\* _save: a reader or a restarted process finds a complete workspace.json or
\* none, wherever another process has died, for any number of threads whose
\* saves have not overlapped.
THEOREM FileIsSound == Spec => []FileSound
<1>1. IInv => FileSound
  BY DEF IInv, Owned, FileSound, WholeUnlessOverlapped
<1> QED
  BY <1>1, InvInit, InvStep, PTL DEF Spec

\* get_workspace_id: all callers are given one id, also across crashes and
\* overlapping saves, unless two threads were at the first boot at once.
THEOREM IdentityIsOne == Spec => []OneIdentity
<1>1. IInv => OneIdentity
  <2> SUFFICES ASSUME IInv, overlap # "create" PROVE \A a, b \in known : a = b
    BY DEF OneIdentity
  <2> QED
    BY DEF IInv, Ident, SameId
<1> QED
  BY <1>1, InvInit, InvStep, PTL DEF Spec

\* _load, _save, _ensure and bump_lamport_to implement WorkspaceIdentity: the
\* id is chosen once and the counter never moves back, while no two saves
\* overlap.
THEOREM StoreImplementsIdentity == Spec => ImplementsIdentity
<1>1. Init => Identity!Init
  <2> SUFFICES ASSUME Init PROVE Identity!Init
    OBVIOUS
  <2>1. file \in Record \cup {Missing}
    BY WorkspaceAssumption DEF Init
  <2>2. file \in Record => file.wid \in Ids /\ file.lam \in Nat
    BY DEF Record
  <2> QED
    BY <2>1, <2>2 DEF Identity!Init
<1>2. IInv /\ [Next]_vars => [overlap' # "none" \/ Identity!Create \/ Identity!Advance]_file
  <2> SUFFICES ASSUME IInv, [Next]_vars, file' # file, overlap' = "none"
               PROVE  Identity!Create \/ Identity!Advance
    OBVIOUS
  <2>1. \/ file = Missing /\ file' \in Record /\ file'.lam = 0
        \/ /\ file \in Record /\ file' \in Record
           /\ file'.wid = file.wid /\ file'.lam > file.lam
    BY FileStep DEF IInv
  <2>2. Missing \notin Record /\ \A r \in Record : r.wid \in Ids /\ r.lam \in Nat
    BY WorkspaceAssumption DEF Record
  <2>3. CASE file = Missing /\ file' \in Record /\ file'.lam = 0
    BY <2>2, <2>3 DEF Identity!Create
  <2>4. CASE file \in Record /\ file' \in Record /\ file'.wid = file.wid /\ file'.lam > file.lam
    BY <2>2, <2>4 DEF Identity!Advance
  <2> QED
    BY <2>1, <2>3, <2>4
<1> QED
  BY <1>1, <1>2, InvInit, InvStep, PTL DEF Spec, ImplementsIdentity
=============================================================================
