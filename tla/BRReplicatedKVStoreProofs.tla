--------------------- MODULE BRReplicatedKVStoreProofs ---------------------
(***************************************************************************)
(* Proofs about BRReplicatedKVStore, for any keys and any number of edits  *)
(* and failures: the state has its types, and a row that records the       *)
(* version the server has holds what the server has.  The invariant says   *)
(* what a call of _syncKey knows of the local row and of the server's, if  *)
(* each still has the version it saw: every write gives a new version.     *)
(***************************************************************************)
EXTENDS BRReplicatedKVStore, TLAPS

Copies == [ver : Nat, time : Nat, edit : Nat, deleted : BOOLEAN]
Rows == [ver : Nat, time : Nat, edit : Nat, deleted : BOOLEAN, rv : Nat]
Points == {"none", "todo", "sent", "answered", "ready"}
Calls == [at : Points, what : {"", "put", "del", "get", "erase"}, localVer : Nat,
          remoteVer : Nat, edit : Nat, deleted : BOOLEAN]

Typed ==
    /\ now \in Nat
    /\ local \in [Keys -> Rows] /\ server \in [Keys -> Copies] /\ listing \in [Keys -> Copies]
    /\ work \in [Keys -> Calls]

(* No time and no edit is later than now.                                  *)
Past ==
    \A k \in Keys :
        /\ local[k].time <= now /\ local[k].edit <= now
        /\ server[k].time <= now /\ server[k].edit <= now
        /\ listing[k].edit <= now /\ work[k].edit <= now

(* A sync that does not run has no calls.                                  *)
Staged ==
    /\ syncRunning \in BOOLEAN /\ (stage = "idle") = ~syncRunning
    /\ \A k \in Keys : work[k] # NoWork => stage = "fan" /\ k \in scope

(* What the listing holds, unless the server has a newer version.          *)
ListedIs(l, s) == l.ver <= s.ver /\ (l.ver = s.ver => l = s)

(* What a call knows: of the row that it puts or deletes, of the copy that *)
(* it was answered for, of the one that it takes.                          *)
Knows(w, row, copy) ==
    /\ w.at = "sent" => w.what \in {"put", "del", "get"}
    /\ w.at = "answered" => w.what \in {"put", "del", "get"}
    /\ w.at = "ready" => w.what \in {"put", "del", "erase"}
    /\ w.at \in {"sent", "answered", "ready"} =>
           /\ w.localVer <= row.ver
           /\ w.what = "put" /\ w.localVer = row.ver => row.edit = w.edit
           /\ w.what = "del" /\ w.localVer = row.ver => row.deleted = TRUE
    /\ w.at \in {"answered", "ready"} =>
           /\ w.remoteVer <= copy.ver
           /\ w.what \in {"put", "get"} /\ w.remoteVer = copy.ver => copy.edit = w.edit
           /\ w.what \in {"del", "erase"} /\ w.remoteVer = copy.ver => copy.deleted = TRUE

(* What a row that records a version knows of the server's.                *)
Records(row, copy) ==
    /\ row.rv <= copy.ver
    /\ row.rv > 0 /\ row.rv = copy.ver =>
           row.edit = copy.edit \/ (row.deleted = TRUE /\ copy.deleted = TRUE)

Agree(l, copy, w, row) == ListedIs(l, copy) /\ Knows(w, row, copy) /\ Records(row, copy)

KVInv ==
    /\ Typed /\ Past /\ Staged
    /\ \A k \in Keys : Agree(listing[k], server[k], work[k], local[k])

-----------------------------------------------------------------------------
(* What writes do to one key *)

(* A new row has a version that no call knows, and records nothing.        *)
LEMMA RowInserted ==
    ASSUME NEW l \in Copies, NEW copy \in Copies, NEW w \in Calls, NEW row \in Rows,
           Agree(l, copy, w, row),
           NEW new \in Rows, new.ver = row.ver + 1, new.rv = 0
    PROVE  Agree(l, copy, w, new)
<1>1. row.ver \in Nat /\ w.localVer \in Nat /\ copy.ver \in Nat
    BY DEF Rows, Calls, Copies
<1>2. ListedIs(l, copy) /\ Records(new, copy)
    BY <1>1 DEF Agree, Records
<1>3. w.at \in {"sent", "answered", "ready"} => w.localVer <= new.ver /\ w.localVer # new.ver
    BY <1>1 DEF Agree, Knows
<1>4. Knows(w, new, copy)
    BY <1>3 DEF Agree, Knows
<1> QED BY <1>2, <1>4 DEF Agree

(* A new copy has a version that is neither listed nor known nor recorded. *)
LEMMA CopyWritten ==
    ASSUME NEW l \in Copies, NEW copy \in Copies, NEW w \in Calls, NEW row \in Rows,
           Agree(l, copy, w, row),
           NEW new \in Copies, new.ver > copy.ver
    PROVE  Agree(l, new, w, row)
<1>1. /\ row.rv \in Nat /\ w.remoteVer \in Nat /\ l.ver \in Nat
      /\ copy.ver \in Nat /\ new.ver \in Nat /\ new.ver > copy.ver
    BY DEF Rows, Calls, Copies
<1>2. ListedIs(l, new) /\ Records(row, new)
    BY <1>1 DEF Agree, ListedIs, Records
<1>3. w.at \in {"answered", "ready"} => w.remoteVer <= new.ver /\ w.remoteVer # new.ver
    BY <1>1 DEF Agree, Knows
<1>4. Knows(w, row, new)
    BY <1>3 DEF Agree, Knows
<1> QED BY <1>2, <1>4 DEF Agree

(* A call that ended, or did not begin, knows nothing.                     *)
LEMMA NothingKnown ==
    ASSUME NEW l, NEW copy, NEW w, NEW row, Agree(l, copy, w, row),
           NEW v, v.at \in {"none", "todo"}
    PROVE  Agree(l, copy, v, row)
BY DEF Agree, Knows

LEMMA NoWorkTyped == /\ NoWork \in Calls /\ NoWork.at = "none" /\ NoWork.edit = 0
                     /\ Todo \in Calls /\ Todo.at = "todo" /\ Todo.edit = 0
BY DEF NoWork, Todo, Calls, Points

LEMMA InsertEffect ==
    ASSUME Typed, NEW k \in Keys, NEW edit \in Nat, NEW deleted \in BOOLEAN, NEW rv \in Nat,
           Insert(k, edit, deleted, rv)
    PROVE  /\ local' \in [Keys -> Rows]
           /\ \A j \in Keys \ {k} : local'[j] = local[j]
           /\ local'[k] = [ver |-> local[k].ver + 1, time |-> now + 1, edit |-> edit,
                           deleted |-> deleted, rv |-> rv]
<1>1. [ver |-> local[k].ver + 1, time |-> now + 1, edit |-> edit, deleted |-> deleted, rv |-> rv]
          \in Rows
    BY DEF Typed, Rows
<1> QED BY <1>1 DEF Insert, Typed

LEMMA EndEffect ==
    ASSUME Typed, NEW k \in Keys, End(k)
    PROVE  /\ work' \in [Keys -> Calls] /\ work'[k] = NoWork
           /\ \A j \in Keys \ {k} : work'[j] = work[j]
BY NoWorkTyped DEF End, Typed

(* A step that writes one key leaves the others as they are.               *)
LEMMA OneKey ==
    ASSUME KVInv, NEW k \in Keys, UNCHANGED listing,
           \A j \in Keys \ {k} : UNCHANGED <<local[j], server[j], work[j]>>,
           Agree(listing'[k], server'[k], work'[k], local'[k])
    PROVE  \A j \in Keys : Agree(listing'[j], server'[j], work'[j], local'[j])
BY DEF KVInv

(* Nothing that was written gets later as time passes.                     *)
LEMMA StaysPast ==
    ASSUME KVInv, NEW k \in Keys, now' \in Nat, now' >= now,
           UNCHANGED listing,
           \A j \in Keys \ {k} : UNCHANGED <<local[j], server[j], work[j]>>,
           local'[k].time <= now' /\ local'[k].edit <= now',
           server'[k].time <= now' /\ server'[k].edit <= now',
           work'[k].edit <= now'
    PROVE  Past'
<1> SUFFICES ASSUME NEW j \in Keys
             PROVE  /\ local'[j].time <= now' /\ local'[j].edit <= now'
                    /\ server'[j].time <= now' /\ server'[j].edit <= now'
                    /\ listing'[j].edit <= now' /\ work'[j].edit <= now'
    BY DEF Past
<1>1. /\ now \in Nat /\ local[j] \in Rows /\ server[j] \in Copies /\ listing[j] \in Copies
      /\ work[j] \in Calls
    BY DEF KVInv, Typed
<1>2. /\ local[j].time \in Nat /\ local[j].edit \in Nat /\ server[j].time \in Nat
      /\ server[j].edit \in Nat /\ listing[j].edit \in Nat /\ work[j].edit \in Nat
    BY <1>1 DEF Rows, Copies, Calls
<1>3. /\ local[j].time <= now /\ local[j].edit <= now
      /\ server[j].time <= now /\ server[j].edit <= now
      /\ listing[j].edit <= now /\ work[j].edit <= now
    BY DEF KVInv, Past
<1>4. listing'[j].edit <= now'
    BY <1>1, <1>2, <1>3
<1>5. CASE j = k
    BY <1>4, <1>5
<1>6. CASE j # k
    BY <1>1, <1>2, <1>3, <1>4, <1>6
<1> QED BY <1>5, <1>6

(* A local edit.                                                           *)
LEMMA LocalEditKeeps ==
    ASSUME KVInv, NEW k \in Keys, NEW deleted \in BOOLEAN, LocalEdit(k, deleted)
    PROVE  KVInv'
<1> USE DEF sync
<1>1. /\ Typed /\ now \in Nat /\ now + 1 \in Nat /\ now' = now + 1
      /\ UNCHANGED <<server, listing, work, syncRunning, stage, scope>>
      /\ Insert(k, now + 1, deleted, 0)
    BY DEF KVInv, Typed, LocalEdit, Tick
<1>2. /\ local' \in [Keys -> Rows] /\ \A j \in Keys \ {k} : local'[j] = local[j]
      /\ local'[k] = [ver |-> local[k].ver + 1, time |-> now + 1, edit |-> now + 1,
                      deleted |-> deleted, rv |-> 0]
    BY <1>1, InsertEffect
<1>3. Typed'
    BY <1>1, <1>2 DEF Typed
<1>4. local[k] \in Rows /\ server[k] \in Copies /\ work[k] \in Calls /\ listing[k] \in Copies
    BY <1>1 DEF Typed
<1>5. Agree(listing[k], server[k], work[k], local[k])
    BY DEF KVInv
<1>6. local'[k] \in Rows /\ local'[k].ver = local[k].ver + 1 /\ local'[k].rv = 0
    BY <1>2
<1>7. Agree(listing[k], server[k], work[k], local'[k])
    BY <1>4, <1>5, <1>6, RowInserted
<1>8. \A j \in Keys : Agree(listing'[j], server'[j], work'[j], local'[j])
    BY <1>1, <1>2, <1>7, OneKey
<1>9. /\ server[k].time <= now /\ server[k].edit <= now /\ work[k].edit <= now
      /\ server[k].time \in Nat /\ server[k].edit \in Nat /\ work[k].edit \in Nat
    BY <1>4 DEF KVInv, Past, Copies, Calls
<1>10. Past'
    BY <1>1, <1>2, <1>9, StaysPast
<1>11. Staged'
    BY <1>1 DEF KVInv, Staged
<1> QED BY <1>3, <1>8, <1>10, <1>11 DEF KVInv

(* An edit of another device.                                              *)
LEMMA ElsewhereKeeps ==
    ASSUME KVInv, NEW k \in Keys, NEW deleted \in BOOLEAN, Elsewhere(k, deleted)
    PROVE  KVInv'
<1> USE DEF sync
<1> DEFINE new == [ver |-> IF server[k].ver = 0 THEN 2 ELSE server[k].ver + 1,
                   time |-> now + 1, edit |-> now + 1, deleted |-> deleted]
<1>1. /\ Typed /\ now \in Nat /\ now + 1 \in Nat /\ now' = now + 1
      /\ UNCHANGED <<local, listing, work, syncRunning, stage, scope>>
      /\ server' = [server EXCEPT ![k] = new]
    BY DEF KVInv, Typed, Elsewhere, Tick
<1>2. local[k] \in Rows /\ server[k] \in Copies /\ work[k] \in Calls /\ listing[k] \in Copies
    BY <1>1 DEF Typed
<1>3. server[k].ver \in Nat
    BY <1>2 DEF Copies
<1>4. new \in Copies /\ new.ver > server[k].ver /\ new.time = now + 1 /\ new.edit = now + 1
    BY <1>1, <1>3 DEF Copies
<1> HIDE DEF new
<1>5. /\ server' \in [Keys -> Copies] /\ server'[k] = new
      /\ \A j \in Keys \ {k} : server'[j] = server[j]
    BY <1>1, <1>4 DEF Typed
<1>6. Typed'
    BY <1>1, <1>5 DEF Typed
<1>7. Agree(listing[k], server[k], work[k], local[k])
    BY DEF KVInv
<1>8. Agree(listing[k], server'[k], work[k], local[k])
    BY <1>2, <1>4, <1>5, <1>7, CopyWritten
<1>9. \A j \in Keys : Agree(listing'[j], server'[j], work'[j], local'[j])
    BY <1>1, <1>5, <1>8, OneKey
<1>10. /\ local[k].time <= now /\ local[k].edit <= now /\ work[k].edit <= now
       /\ local[k].time \in Nat /\ local[k].edit \in Nat /\ work[k].edit \in Nat
    BY <1>2 DEF KVInv, Past, Rows, Calls
<1>11. Past'
    BY <1>1, <1>4, <1>5, <1>10, StaysPast
<1>12. Staged'
    BY <1>1 DEF KVInv, Staged
<1> QED BY <1>6, <1>9, <1>11, <1>12 DEF KVInv

-----------------------------------------------------------------------------
(* What a call of _syncKey does *)

(* A call goes on, from one that was there, or ends.                       *)
LEMMA StillStaged ==
    ASSUME KVInv, NEW k \in Keys, UNCHANGED sync,
           \A j \in Keys \ {k} : work'[j] = work[j],
           work'[k] # NoWork => work[k] # NoWork
    PROVE  Staged'
BY DEF KVInv, Staged, sync

(* A call that goes on writes nothing.                                     *)
LEMMA CallGoesOn ==
    ASSUME KVInv, NEW k \in Keys, UNCHANGED <<now, local, server, sync>>,
           NEW v \in Calls, work' = [work EXCEPT ![k] = v],
           v # NoWork => work[k] # NoWork,
           v.edit <= now,
           Knows(v, local[k], server[k])
    PROVE  KVInv'
<1>1. /\ Typed /\ UNCHANGED listing
      /\ work' \in [Keys -> Calls] /\ work'[k] = v /\ \A j \in Keys \ {k} : work'[j] = work[j]
    BY DEF KVInv, Typed, sync
<1>2. Typed'
    BY <1>1 DEF Typed
<1>3. /\ local[k] \in Rows /\ server[k] \in Copies /\ now \in Nat
    BY <1>1 DEF Typed
<1>4. /\ local[k].time <= now /\ local[k].edit <= now
      /\ server[k].time <= now /\ server[k].edit <= now
    BY DEF KVInv, Past
<1>5. Past'
    BY <1>1, <1>3, <1>4, StaysPast
<1>6. Staged'
    BY <1>1, StillStaged
<1>7. Agree(listing[k], server[k], v, local[k])
    BY DEF KVInv, Agree
<1>8. \A j \in Keys : Agree(listing'[j], server'[j], work'[j], local'[j])
    BY <1>1, <1>7, OneKey
<1> QED BY <1>2, <1>5, <1>6, <1>8 DEF KVInv

(* A call that ends.                                                       *)
LEMMA CallEnds ==
    ASSUME KVInv, NEW k \in Keys, UNCHANGED <<now, local, server, sync>>, End(k)
    PROVE  KVInv'
<1>1. Knows(NoWork, local[k], server[k])
    BY NoWorkTyped DEF Knows
<1>2. NoWork.edit <= now
    BY NoWorkTyped DEF KVInv, Typed
<1> QED BY <1>1, <1>2, NoWorkTyped, CallGoesOn DEF End

(* The versions and times decide what to do.                               *)
LEMMA SyncKeyKeeps ==
    ASSUME KVInv, NEW k \in Keys, SyncKey(k)
    PROVE  KVInv'
<1>1. /\ work[k].at = "todo" /\ UNCHANGED <<now, local, server, sync>>
      /\ now \in Nat
      /\ local[k] \in Rows /\ server[k] \in Copies /\ listing[k] \in Copies
    BY DEF SyncKey, KVInv, Typed
<1>2. work[k] # NoWork
    BY <1>1, NoWorkTyped
<1>3. ASSUME NEW at \in {"sent", "ready"}, NEW what \in {"put", "del", "get", "erase"},
             NEW version \in Nat, Go(k, at, what, version),
             at = "sent" => what \in {"put", "del", "get"},
             what = "del" => local[k].deleted = TRUE,
             at = "ready" => /\ what \in {"del", "erase"} /\ version = listing[k].ver
                             /\ listing[k].deleted = TRUE
      PROVE  KVInv'
    <2> DEFINE v == [at |-> at, what |-> what, localVer |-> local[k].ver, remoteVer |-> version,
                     edit |-> local[k].edit, deleted |-> local[k].deleted]
    <2>1. work' = [work EXCEPT ![k] = v]
        BY <1>3 DEF Go
    <2>2. v \in Calls
        BY <1>1, <1>3 DEF Calls, Points, Rows
    <2>3. v.edit <= now
        BY DEF KVInv, Past
    <2>4. /\ v.at = at /\ v.what = what /\ v.localVer = local[k].ver /\ v.remoteVer = version
          /\ v.edit = local[k].edit
        OBVIOUS
    <2> HIDE DEF v
    <2>5. ListedIs(listing[k], server[k])
        BY DEF KVInv, Agree
    <2>6. at = "ready" =>
              version <= server[k].ver /\ (version = server[k].ver => server[k].deleted = TRUE)
        BY <1>3, <2>5 DEF ListedIs
    <2>7. local[k].ver <= local[k].ver
        BY <1>1 DEF Rows
    <2>8. Knows(v, local[k], server[k])
        BY <1>3, <2>4, <2>6, <2>7 DEF Knows
    <2> QED BY <1>1, <1>2, <2>1, <2>2, <2>3, <2>8, CallGoesOn
<1>4. CASE End(k)
    BY <1>1, <1>4, CallEnds
<1>5. listing[k].ver \in Nat /\ UseRemoteVer(k) \in Nat
    BY <1>1 DEF UseRemoteVer, Copies
<1>6. local[k].deleted \in BOOLEAN /\ listing[k].deleted \in BOOLEAN
    BY <1>1 DEF Rows, Copies
<1>7. CASE BothDeleted(k) /\ Go(k, "ready", "del", listing[k].ver)
    BY <1>3, <1>5, <1>6, <1>7 DEF BothDeleted
<1>8. CASE local[k].deleted /\ Go(k, "sent", "del", listing[k].ver)
    BY <1>3, <1>5, <1>6, <1>8
<1>9. CASE Go(k, "sent", "put", UseRemoteVer(k))
    BY <1>3, <1>5, <1>9
<1>10. CASE listing[k].deleted /\ Go(k, "ready", "erase", listing[k].ver)
    BY <1>3, <1>5, <1>6, <1>10
<1>11. CASE Go(k, "sent", "get", listing[k].ver)
    BY <1>3, <1>5, <1>11
<1> QED BY <1>4, <1>7, <1>8, <1>9, <1>10, <1>11 DEF SyncKey

(* A request or its answer is lost.                                        *)
LEMMA FailKeeps ==
    ASSUME KVInv, NEW k \in Keys, Fail(k)
    PROVE  KVInv'
BY CallEnds DEF Fail

(* The server takes a put or a del, and gives the key a new version.       *)
LEMMA ServeKeeps ==
    ASSUME KVInv, NEW k \in Keys, Serve(k)
    PROVE  KVInv'
<1>1. /\ work[k].at = "sent" /\ work[k].what \in {"put", "del"}
      /\ UNCHANGED <<local, sync, listing>> /\ Typed /\ now \in Nat
      /\ local[k] \in Rows /\ server[k] \in Copies /\ work[k] \in Calls /\ listing[k] \in Copies
    BY DEF Serve, KVInv, Typed, sync
<1>2. CASE End(k) /\ UNCHANGED <<now, server>>
    BY <1>1, <1>2, CallEnds
<1> DEFINE w == work[k]
           new == Stored(k, w.what = "del")
           v == [w EXCEPT !.at = "answered", !.remoteVer = @ + 1]
<1>3. CASE /\ server[k].ver = 0 \/ Accepts(k)
           /\ server' = [server EXCEPT ![k] = new]
           /\ work' = [work EXCEPT ![k].at = "answered", ![k].remoteVer = @ + 1]
           /\ Tick
    <2>1. /\ w.remoteVer \in Nat /\ w.edit \in Nat /\ w.localVer \in Nat /\ server[k].ver \in Nat
          /\ w.remoteVer + 1 \in Nat /\ now + 1 \in Nat /\ now' = now + 1
        <3>1. w.remoteVer \in Nat /\ w.edit \in Nat /\ w.localVer \in Nat /\ server[k].ver \in Nat
            BY <1>1 DEF Calls, Copies
        <3>2. now + 1 \in Nat /\ now' = now + 1
            BY <1>1, <1>3 DEF Tick
        <3> QED BY <3>1, <3>2
    <2>2. w.remoteVer + 1 > server[k].ver
        BY <1>3, <2>1 DEF Accepts
    <2>3. /\ new \in Copies /\ new.ver = w.remoteVer + 1 /\ new.time = now + 1 /\ new.edit = w.edit
          /\ w.what = "del" => new.deleted = TRUE
        BY <1>1, <2>1 DEF Stored, Copies
    <2>4. /\ v \in Calls /\ v.at = "answered" /\ v.what = w.what /\ v.edit = w.edit
          /\ v.localVer = w.localVer /\ v.remoteVer = w.remoteVer + 1
        BY <1>1, <2>1 DEF Calls, Points
    <2>5. /\ work' \in [Keys -> Calls] /\ work'[k] = v
          /\ \A j \in Keys \ {k} : work'[j] = work[j]
        BY <1>1, <1>3, <2>4 DEF Typed
    <2>6. /\ server' \in [Keys -> Copies] /\ server'[k] = new
          /\ \A j \in Keys \ {k} : server'[j] = server[j]
        BY <1>1, <1>3, <2>3 DEF Typed
    <2> HIDE DEF v, new
    <2>7. Typed'
        BY <1>1, <2>1, <2>5, <2>6 DEF Typed
    <2>8. Agree(listing[k], server[k], w, local[k])
        BY DEF KVInv
    <2>9. Agree(listing[k], new, w, local[k])
        <3>1. new.ver > server[k].ver
            BY <2>2, <2>3
        <3> QED BY <1>1, <2>3, <2>8, <3>1, CopyWritten
    <2>10. Knows(v, local[k], new)
        <3>1. /\ w.localVer <= local[k].ver
              /\ w.what = "put" /\ w.localVer = local[k].ver => local[k].edit = w.edit
              /\ w.what = "del" /\ w.localVer = local[k].ver => local[k].deleted = TRUE
            BY <1>1, <2>8 DEF Agree, Knows
        <3>2. v.remoteVer <= new.ver
            BY <2>1, <2>3, <2>4
        <3> QED BY <1>1, <2>3, <2>4, <3>1, <3>2 DEF Knows
    <2>11. Agree(listing[k], new, v, local[k])
        BY <2>9, <2>10 DEF Agree
    <2>12. \A j \in Keys : Agree(listing'[j], server'[j], work'[j], local'[j])
        BY <1>1, <2>5, <2>6, <2>11, OneKey
    <2>13. /\ local[k].time <= now /\ local[k].edit <= now /\ w.edit <= now
           /\ local[k].time \in Nat /\ local[k].edit \in Nat
        BY <1>1 DEF KVInv, Past, Rows
    <2>14. Past'
        <3>1. /\ local'[k].time <= now' /\ local'[k].edit <= now' /\ work'[k].edit <= now'
              /\ server'[k].time <= now' /\ server'[k].edit <= now'
            BY <1>1, <2>1, <2>3, <2>4, <2>5, <2>6, <2>13
        <3> QED BY <1>1, <2>1, <2>5, <2>6, <3>1, StaysPast
    <2>15. work[k] # NoWork
        BY <1>1, NoWorkTyped
    <2>16. Staged'
        BY <1>1, <2>5, <2>15, StillStaged
    <2> QED BY <2>7, <2>12, <2>14, <2>16 DEF KVInv
<1> QED BY <1>2, <1>3 DEF Serve

(* The server answers a get with the copy it has.                          *)
LEMMA ServeGetKeeps ==
    ASSUME KVInv, NEW k \in Keys, ServeGet(k)
    PROVE  KVInv'
<1>1. /\ work[k].at = "sent" /\ work[k].what = "get"
      /\ UNCHANGED <<now, local, server, sync>>
      /\ now \in Nat /\ server[k] \in Copies /\ work[k] \in Calls
    BY DEF ServeGet, KVInv, Typed
<1>2. CASE End(k)
    BY <1>1, <1>2, CallEnds
<1> DEFINE v == [work[k] EXCEPT !.at = "answered", !.edit = server[k].edit, !.deleted = FALSE]
<1>3. CASE /\ Accepts(k)
           /\ work' = [work EXCEPT ![k].at = "answered", ![k].edit = server[k].edit,
                                   ![k].deleted = FALSE]
    <2>1. work' = [work EXCEPT ![k] = v]
        BY <1>3 DEF KVInv, Typed
    <2>2. server[k].edit \in Nat /\ server[k].ver \in Nat
        BY <1>1 DEF Copies
    <2>3. /\ v \in Calls /\ v.at = "answered" /\ v.what = "get" /\ v.edit = server[k].edit
          /\ v.localVer = work[k].localVer /\ v.remoteVer = work[k].remoteVer
        BY <1>1, <2>2 DEF Calls, Points
    <2> HIDE DEF v
    <2>4. v.edit <= now
        BY <2>3 DEF KVInv, Past
    <2>5. work[k].localVer <= local[k].ver
        BY <1>1 DEF KVInv, Agree, Knows
    <2>6. v.remoteVer <= server[k].ver
        BY <1>3, <2>2, <2>3 DEF Accepts
    <2>7. Knows(v, local[k], server[k])
        BY <2>3, <2>5, <2>6 DEF Knows
    <2>8. work[k] # NoWork
        BY <1>1, NoWorkTyped
    <2> QED BY <1>1, <2>1, <2>3, <2>4, <2>7, <2>8, CallGoesOn
<1> QED BY <1>2, <1>3 DEF ServeGet

(* The version that the server gave a row is recorded in a copy of it, if  *)
(* the row is still the one that was sent.                                 *)
LEMMA RecordKeeps ==
    ASSUME KVInv, NEW k \in Keys, Record(k)
    PROVE  KVInv'
<1>1. /\ work[k].at \in {"answered", "ready"} /\ work[k].what \in {"put", "del"}
      /\ End(k) /\ UNCHANGED <<server, sync, listing>> /\ Typed /\ now \in Nat
      /\ local[k] \in Rows /\ server[k] \in Copies /\ work[k] \in Calls /\ listing[k] \in Copies
    BY DEF Record, KVInv, Typed, sync
<1>2. CASE UNCHANGED <<now, local>>
    BY <1>1, <1>2, CallEnds
<1>3. CASE /\ Current(k)
           /\ Insert(k, local[k].edit, local[k].deleted, work[k].remoteVer)
           /\ Tick
    <2>1. /\ local[k].edit \in Nat /\ local[k].deleted \in BOOLEAN /\ local[k].ver \in Nat
          /\ work[k].remoteVer \in Nat /\ server[k].edit \in Nat /\ server[k].time \in Nat
        BY <1>1 DEF Rows, Calls, Copies
    <2>2. now + 1 \in Nat /\ now' = now + 1
        BY <1>1, <1>3 DEF Tick
    <2>3. /\ local' \in [Keys -> Rows] /\ \A j \in Keys \ {k} : local'[j] = local[j]
          /\ local'[k] = [ver |-> local[k].ver + 1, time |-> now + 1, edit |-> local[k].edit,
                          deleted |-> local[k].deleted, rv |-> work[k].remoteVer]
        BY <1>1, <1>3, <2>1, InsertEffect
    <2>4. /\ local'[k].time = now + 1 /\ local'[k].edit = local[k].edit
          /\ local'[k].deleted = local[k].deleted /\ local'[k].rv = work[k].remoteVer
        BY <2>3
    <2>5. /\ work' \in [Keys -> Calls] /\ work'[k] = NoWork
          /\ \A j \in Keys \ {k} : work'[j] = work[j]
        BY <1>1, EndEffect
    <2>6. Typed'
        BY <1>1, <2>2, <2>3, <2>5 DEF Typed
    <2>7. Agree(listing[k], server[k], work[k], local[k])
        BY DEF KVInv
    <2>8. /\ work[k].remoteVer <= server[k].ver
          /\ work[k].what = "put" /\ work[k].remoteVer = server[k].ver => server[k].edit = work[k].edit
          /\ work[k].what = "del" /\ work[k].remoteVer = server[k].ver => server[k].deleted = TRUE
          /\ work[k].what = "put" => local[k].edit = work[k].edit
          /\ work[k].what = "del" => local[k].deleted = TRUE
        BY <1>1, <1>3, <2>7 DEF Agree, Knows, Current
    <2>9. Records(local'[k], server[k])
        BY <1>1, <2>4, <2>8 DEF Records
    <2>10. Knows(NoWork, local'[k], server[k])
        BY NoWorkTyped DEF Knows
    <2>11. Agree(listing[k], server[k], NoWork, local'[k])
        BY <2>7, <2>9, <2>10 DEF Agree
    <2>12. \A j \in Keys : Agree(listing'[j], server'[j], work'[j], local'[j])
        BY <1>1, <2>3, <2>5, <2>11, OneKey
    <2>13. /\ local[k].edit <= now /\ server[k].time <= now /\ server[k].edit <= now
        BY DEF KVInv, Past
    <2>14. Past'
        <3>1. /\ local'[k].time <= now' /\ local'[k].edit <= now' /\ work'[k].edit <= now'
              /\ server'[k].time <= now' /\ server'[k].edit <= now'
            BY <1>1, <2>1, <2>2, <2>4, <2>5, <2>13, NoWorkTyped
        <3> QED BY <1>1, <2>2, <2>3, <2>5, <3>1, StaysPast
    <2>15. Staged'
        BY <1>1, <2>5, StillStaged
    <2> QED BY <2>6, <2>12, <2>14, <2>15 DEF KVInv
<1> QED BY <1>2, <1>3 DEF Record

(* What the server has replaces the row that the call knew; its version is *)
(* recorded next.                                                          *)
LEMMA TakeKeeps ==
    ASSUME KVInv, NEW k \in Keys, Take(k)
    PROVE  KVInv'
<1>1. /\ work[k].at \in {"answered", "ready"} /\ work[k].what \in {"get", "erase"}
      /\ UNCHANGED <<server, sync, listing>> /\ Typed /\ now \in Nat
      /\ local[k] \in Rows /\ server[k] \in Copies /\ work[k] \in Calls /\ listing[k] \in Copies
    BY DEF Take, KVInv, Typed, sync
<1>2. CASE End(k) /\ UNCHANGED <<now, local>>
    BY <1>1, <1>2, CallEnds
<1>3. /\ local[k].ver \in Nat /\ work[k].edit \in Nat /\ work[k].remoteVer \in Nat
      /\ server[k].edit \in Nat /\ server[k].time \in Nat /\ listing[k].edit \in Nat
    BY <1>1 DEF Rows, Calls, Copies
<1>4. Agree(listing[k], server[k], work[k], local[k])
    BY DEF KVInv
<1>5. /\ work[k].remoteVer <= server[k].ver
      /\ work[k].what = "get" /\ work[k].remoteVer = server[k].ver => server[k].edit = work[k].edit
      /\ work[k].what = "erase" /\ work[k].remoteVer = server[k].ver => server[k].deleted = TRUE
    BY <1>1, <1>4 DEF Agree, Knows
<1>6. /\ work[k].edit <= now /\ listing[k].edit <= now
      /\ server[k].time <= now /\ server[k].edit <= now
    BY DEF KVInv, Past
<1>7. ASSUME NEW edit \in Nat, NEW deleted \in BOOLEAN, NEW what \in {"put", "del"}, edit <= now,
             Insert(k, edit, deleted, 0),
             work' = [work EXCEPT ![k].at = "ready", ![k].what = what,
                                  ![k].localVer = local[k].ver + 1],
             Tick,
             what = "put" => work[k].what = "get" /\ edit = work[k].edit,
             what = "del" => work[k].what = "erase" /\ deleted = TRUE
      PROVE  KVInv'
    <2>1. now + 1 \in Nat /\ now' = now + 1
        BY <1>1, <1>7 DEF Tick
    <2>2. /\ local' \in [Keys -> Rows] /\ \A j \in Keys \ {k} : local'[j] = local[j]
          /\ local'[k] = [ver |-> local[k].ver + 1, time |-> now + 1, edit |-> edit,
                          deleted |-> deleted, rv |-> 0]
        BY <1>1, <1>7, InsertEffect
    <2>3. /\ local'[k].ver = local[k].ver + 1 /\ local'[k].time = now + 1
          /\ local'[k].edit = edit /\ local'[k].deleted = deleted /\ local'[k].rv = 0
        BY <2>2
    <2> DEFINE v == [work[k] EXCEPT !.at = "ready", !.what = what, !.localVer = local[k].ver + 1]
    <2>4. /\ v \in Calls /\ v.at = "ready" /\ v.what = what /\ v.localVer = local[k].ver + 1
          /\ v.edit = work[k].edit /\ v.remoteVer = work[k].remoteVer
        <3>1. local[k].ver + 1 \in Nat
            BY <1>3
        <3> QED BY <1>1, <3>1 DEF Calls, Points
    <2>5. /\ work' \in [Keys -> Calls] /\ work'[k] = v
          /\ \A j \in Keys \ {k} : work'[j] = work[j]
        BY <1>1, <1>7, <2>4 DEF Typed
    <2> HIDE DEF v
    <2>6. Typed'
        BY <1>1, <2>1, <2>2, <2>5 DEF Typed
    <2>7. ListedIs(listing[k], server[k]) /\ Records(local'[k], server[k])
        BY <1>3, <1>4, <2>3, <1>1 DEF Agree, Records, Copies
    <2>8. Knows(v, local'[k], server[k])
        <3>1. v.localVer <= local'[k].ver
            BY <1>3, <2>3, <2>4
        <3> QED BY <1>5, <1>7, <2>3, <2>4, <3>1 DEF Knows
    <2>9. Agree(listing[k], server[k], v, local'[k])
        BY <2>7, <2>8 DEF Agree
    <2>10. \A j \in Keys : Agree(listing'[j], server'[j], work'[j], local'[j])
        BY <1>1, <2>2, <2>5, <2>9, OneKey
    <2>11. Past'
        <3>1. /\ local'[k].time <= now' /\ local'[k].edit <= now' /\ work'[k].edit <= now'
              /\ server'[k].time <= now' /\ server'[k].edit <= now'
            BY <1>1, <1>3, <1>6, <1>7, <2>1, <2>3, <2>4, <2>5
        <3> QED BY <1>1, <2>1, <2>2, <2>5, <3>1, StaysPast
    <2>12. work[k] # NoWork
        BY <1>1, NoWorkTyped
    <2>13. Staged'
        BY <1>1, <2>5, <2>12, StillStaged
    <2> QED BY <2>6, <2>10, <2>11, <2>13 DEF KVInv
<1>8. CASE /\ IF work[k].what = "get"
              THEN Insert(k, work[k].edit, FALSE, 0)
              ELSE Insert(k, listing[k].edit, TRUE, 0)
           /\ work' = [work EXCEPT ![k].at = "ready", ![k].what = IF @ = "get" THEN "put" ELSE "del",
                                   ![k].localVer = local[k].ver + 1]
           /\ Tick
    <2>1. CASE work[k].what = "get"
        <3>1. work' = [work EXCEPT ![k].at = "ready", ![k].what = "put",
                                   ![k].localVer = local[k].ver + 1]
            BY <1>1, <1>8, <2>1 DEF Typed
        <3> QED BY <1>3, <1>6, <1>7, <1>8, <2>1, <3>1
    <2>2. CASE work[k].what = "erase"
        <3>1. work' = [work EXCEPT ![k].at = "ready", ![k].what = "del",
                                   ![k].localVer = local[k].ver + 1]
            BY <1>1, <1>8, <2>2 DEF Typed
        <3> QED BY <1>3, <1>6, <1>7, <1>8, <2>2, <3>1
    <2> QED BY <1>1, <2>1, <2>2
<1> QED BY <1>2, <1>8 DEF Take

-----------------------------------------------------------------------------
(* The sync of all keys *)

(* A step that writes no key, and leaves the calls or ends them all.       *)
LEMMA SyncKeeps ==
    ASSUME KVInv, UNCHANGED <<now, local, server>>,
           work' = work \/ (work' \in [Keys -> {NoWork, Todo}]),
           listing' = listing \/ listing' = server,
           Staged'
    PROVE  KVInv'
<1>1. Typed'
    BY NoWorkTyped DEF KVInv, Typed
<1>2. ASSUME NEW k \in Keys
      PROVE  /\ ListedIs(listing'[k], server[k]) /\ Knows(work'[k], local[k], server[k])
             /\ work'[k].edit <= now /\ listing'[k].edit <= now
    <2>1. server[k] \in Copies /\ now \in Nat
        BY DEF KVInv, Typed
    <2>2. server[k].ver <= server[k].ver /\ 0 <= now
        BY <2>1 DEF Copies
    <2>3. ListedIs(listing'[k], server[k]) /\ listing'[k].edit <= now
        BY <2>2 DEF KVInv, Agree, ListedIs, Past
    <2>4. CASE work' = work
        BY <2>3, <2>4 DEF KVInv, Agree, Past
    <2>5. CASE work' \in [Keys -> {NoWork, Todo}]
        <3>1. work'[k].at \in {"none", "todo"} /\ work'[k].edit = 0
            BY <2>5, NoWorkTyped
        <3> QED BY <2>2, <2>3, <3>1 DEF Knows
    <2> QED BY <2>4, <2>5
<1>3. Past'
    BY <1>2 DEF KVInv, Past
<1>4. \A k \in Keys : Agree(listing'[k], server'[k], work'[k], local'[k])
    BY <1>2 DEF KVInv, Agree
<1> QED BY <1>1, <1>3, <1>4 DEF KVInv

LEMMA KVInit == Init => KVInv
<1> SUFFICES ASSUME Init PROVE KVInv
    OBVIOUS
<1>1. NoRow \in Rows /\ Absent \in Copies /\ NoRow.rv = 0 /\ Absent.ver = 0
    BY DEF NoRow, Absent, Rows, Copies
<1>2. Typed
    BY <1>1, NoWorkTyped DEF Init, Typed
<1>3. NoRow.time = 0 /\ NoRow.edit = 0 /\ Absent.time = 0 /\ Absent.edit = 0
    BY DEF NoRow, Absent
<1>4. \A k \in Keys : /\ local[k] = NoRow /\ server[k] = Absent /\ listing[k] = Absent
                       /\ work[k] = NoWork
    BY DEF Init
<1>5. now = 0 /\ 0 <= 0 /\ ~(0 > 0)
    BY DEF Init
<1>6. Past
    BY <1>3, <1>4, <1>5, NoWorkTyped DEF Past
<1>7. Staged
    BY DEF Init, Staged
<1>8. Agree(Absent, Absent, NoWork, NoRow)
    BY <1>1, <1>5, NoWorkTyped DEF Agree, ListedIs, Knows, Records
<1> QED BY <1>2, <1>4, <1>6, <1>7, <1>8 DEF KVInv

(* Every step keeps the invariant.                                         *)
LEMMA KVStep ==
    ASSUME KVInv, [Next]_vars
    PROVE  KVInv'
<1> USE DEF sync
<1>1. Staged
    BY DEF KVInv
<1>2. ASSUME NEW S, Begin(S)
      PROVE  KVInv'
    <2>1. UNCHANGED <<now, local, server, listing, work>>
        BY <1>2 DEF Begin
    <2>2. ~syncRunning /\ syncRunning' = TRUE /\ stage' = "asked"
        BY <1>2 DEF Begin
    <2>3. \A k \in Keys : work'[k] = NoWork
        BY <1>1, <2>1, <2>2 DEF Staged
    <2>4. Staged'
        BY <2>2, <2>3 DEF Staged
    <2> QED BY <2>1, <2>4, SyncKeeps
<1>3. CASE List
    <2>1. UNCHANGED <<now, local, server, work, syncRunning>> /\ listing' = server
          /\ stage = "asked" /\ stage' = "listed"
        BY <1>3 DEF List
    <2>2. Staged'
        BY <1>1, <2>1 DEF Staged
    <2> QED BY <2>1, <2>2, SyncKeeps
<1>4. CASE ListFails \/ Finish
    <2>1. UNCHANGED <<now, local, server, work, listing, scope>>
          /\ stage' = "idle" /\ syncRunning' = FALSE
        BY <1>4 DEF ListFails, Finish, Stop
    <2>2. \A k \in Keys : work'[k] = NoWork
        BY <1>1, <1>4, <2>1 DEF ListFails, Finish, Staged
    <2>3. Staged'
        BY <2>1, <2>2 DEF Staged
    <2> QED BY <2>1, <2>3, SyncKeeps
<1>5. CASE Fan
    <2>1. /\ UNCHANGED <<now, local, server, listing, syncRunning, scope>>
          /\ stage = "listed" /\ stage' = "fan"
          /\ work' = [k \in Keys |-> IF k \in scope /\ (listing[k].ver > 0 \/ local[k].ver > 0)
                                     THEN Todo ELSE NoWork]
        BY <1>5 DEF Fan
    <2>2. work' \in [Keys -> {NoWork, Todo}]
        BY <2>1
    <2>3. \A k \in Keys : work'[k] # NoWork => k \in scope
        BY <2>1
    <2>4. Staged'
        BY <1>1, <2>1, <2>3 DEF Staged
    <2> QED BY <2>1, <2>2, <2>4, SyncKeeps
<1>6. CASE Kill
    <2>1. /\ UNCHANGED <<now, local, server, listing>>
          /\ stage' = "idle" /\ syncRunning' = FALSE /\ work' = [k \in Keys |-> NoWork]
        BY <1>6 DEF Kill
    <2>2. work' \in [Keys -> {NoWork, Todo}] /\ \A k \in Keys : work'[k] = NoWork
        BY <2>1
    <2>3. Staged'
        BY <2>1, <2>2 DEF Staged
    <2> QED BY <2>1, <2>2, <2>3, SyncKeeps
<1>7. CASE UNCHANGED vars
    <2>1. UNCHANGED <<now, local, server, listing, work, syncRunning, stage, scope>>
        BY <1>7 DEF vars
    <2>2. Staged'
        BY <1>1, <2>1 DEF Staged
    <2> QED BY <2>1, <2>2, SyncKeeps
<1> QED BY <1>2, <1>3, <1>4, <1>5, <1>6, <1>7, LocalEditKeeps, ElsewhereKeeps, SyncKeyKeeps,
           FailKeeps, ServeKeeps, ServeGetKeeps, RecordKeeps, TakeKeeps DEF Next, Reply

-----------------------------------------------------------------------------
(* The invariant of the store: its properties follow from it.              *)
THEOREM KVInvariant == Spec => []KVInv
<1>1. KVInv /\ [Next]_vars => KVInv'
    BY KVStep
<1> QED BY <1>1, KVInit, PTL DEF Spec

(* Times and edits are in the past, a row records no version that the      *)
(* server did not give, and only a sync that runs has calls.               *)
THEOREM KVTypeCorrect == Spec => []TypeOK
<1>1. KVInv => TypeOK
    <2> SUFFICES ASSUME KVInv PROVE TypeOK
        OBVIOUS
    <2>1. now \in Nat /\ Staged
        BY DEF KVInv, Typed
    <2>2. ASSUME NEW k \in Keys
          PROVE  /\ local[k].time \in 0..now /\ server[k].time \in 0..now
                 /\ local[k].edit \in 0..now /\ server[k].edit \in 0..now
                 /\ local[k].rv \in 0..server[k].ver
        <3>1. local[k] \in Rows /\ server[k] \in Copies
            BY DEF KVInv, Typed
        <3>2. /\ local[k].time \in Nat /\ local[k].edit \in Nat /\ local[k].rv \in Nat
              /\ server[k].time \in Nat /\ server[k].edit \in Nat /\ server[k].ver \in Nat
            BY <3>1 DEF Rows, Copies
        <3>3. /\ local[k].time <= now /\ local[k].edit <= now
              /\ server[k].time <= now /\ server[k].edit <= now
              /\ local[k].rv <= server[k].ver
            BY DEF KVInv, Past, Agree, Records
        <3> QED BY <2>1, <3>2, <3>3
    <2> QED BY <2>1, <2>2 DEF TypeOK, Staged
<1> QED BY <1>1, KVInvariant, PTL

(* A row that records the version the server has holds what the server     *)
(* has, whatever was edited, lost or killed meanwhile.                     *)
THEOREM RecordedAreEqual == Spec => []RecordedMeansEqual
<1>1. KVInv => RecordedMeansEqual
    BY DEF KVInv, Agree, Records, RecordedMeansEqual, Equal, Gone
<1> QED BY <1>1, KVInvariant, PTL


-----------------------------------------------------------------------------
(* Local edits *)

(* What is newer than a row by its time is so by its edit, if the row's    *)
(* edit was made while nothing was on its way.                             *)
Yields(row, copy) == copy.time > row.time => copy.edit >= row.edit

Keeps(edited, row, copy, l, w) ==
    row.edit \in edited =>
        /\ Yields(row, copy) /\ Yields(row, l)
        /\ w.at = "sent" /\ w.what \in {"put", "del"} => w.edit = row.edit

(* A call that replaces a row found it older than the listing.             *)
Chose(w, row, l) ==
    /\ w.at \in {"sent", "answered", "ready"} /\ w.what \in {"get", "erase"} /\ w.localVer = row.ver
           => row.time < l.time
    /\ w.at = "sent" /\ w.what = "get" => w.remoteVer = l.ver
    /\ w.at = "answered" /\ w.what = "get" => w.edit = l.edit

EditInv ==
    /\ calm \subseteq 1..now
    /\ \A k \in Keys : /\ listing[k].time <= now
                       /\ Keeps(calm, local[k], server[k], listing[k], work[k])
                       /\ Chose(work[k], local[k], listing[k])

(* What is known of a key.                                                 *)
LEMMA KeyFacts ==
    ASSUME KVInv, EditInv, NEW k \in Keys
    PROVE  /\ now \in Nat /\ local[k] \in Rows /\ server[k] \in Copies
           /\ listing[k] \in Copies /\ work[k] \in Calls
           /\ local[k].ver \in Nat /\ local[k].time \in Nat /\ local[k].edit \in Nat
           /\ server[k].time \in Nat /\ listing[k].time \in Nat /\ work[k].localVer \in Nat
           /\ server[k].edit \in Nat /\ listing[k].edit \in Nat /\ work[k].edit \in Nat
           /\ local[k].time <= now /\ local[k].edit <= now /\ server[k].time <= now
           /\ server[k].edit <= now /\ listing[k].time <= now
           /\ Agree(listing[k], server[k], work[k], local[k])
           /\ Keeps(calm, local[k], server[k], listing[k], work[k])
           /\ Chose(work[k], local[k], listing[k])
<1>1. /\ now \in Nat /\ local[k] \in Rows /\ server[k] \in Copies
      /\ listing[k] \in Copies /\ work[k] \in Calls
    BY DEF KVInv, Typed
<1>2. /\ local[k].ver \in Nat /\ local[k].time \in Nat /\ local[k].edit \in Nat
      /\ server[k].time \in Nat /\ listing[k].time \in Nat /\ work[k].localVer \in Nat
      /\ server[k].edit \in Nat /\ listing[k].edit \in Nat /\ work[k].edit \in Nat
    BY <1>1 DEF Rows, Copies, Calls
<1>3. /\ local[k].time <= now /\ local[k].edit <= now /\ server[k].time <= now
      /\ server[k].edit <= now /\ listing[k].time <= now
    BY DEF KVInv, Past, EditInv
<1>4. /\ Agree(listing[k], server[k], work[k], local[k])
      /\ Keeps(calm, local[k], server[k], listing[k], work[k])
      /\ Chose(work[k], local[k], listing[k])
    BY DEF KVInv, EditInv
<1> QED BY <1>1, <1>2, <1>3, <1>4

LEMMA InsertFields ==
    ASSUME Typed, NEW k \in Keys, NEW edit \in Nat, NEW deleted \in BOOLEAN, NEW rv \in Nat,
           Insert(k, edit, deleted, rv)
    PROVE  /\ \A j \in Keys \ {k} : local'[j] = local[j]
           /\ local'[k].ver = local[k].ver + 1 /\ local'[k].time = now + 1 /\ local'[k].edit = edit
<1>1. /\ \A j \in Keys \ {k} : local'[j] = local[j]
      /\ local'[k] = [ver |-> local[k].ver + 1, time |-> now + 1, edit |-> edit,
                      deleted |-> deleted, rv |-> rv]
    BY InsertEffect
<1> QED BY <1>1

(* A step that writes one key, and may add the edit of now.                *)
LEMMA OneKeyEdited ==
    ASSUME KVInv, EditInv, NEW k \in Keys, UNCHANGED listing,
           \/ now' = now /\ calm' = calm
           \/ now' = now + 1 /\ calm' \in {calm, calm \cup {now + 1}},
           \A j \in Keys \ {k} : UNCHANGED <<local[j], server[j], work[j]>>,
           Keeps(calm', local'[k], server'[k], listing[k], work'[k]),
           Chose(work'[k], local'[k], listing[k])
    PROVE  EditInv'
<1>1. now \in Nat /\ calm \subseteq 1..now
    BY DEF KVInv, Typed, EditInv
<1>2. calm' \subseteq 1..now'
    BY <1>1
<1>3. ASSUME NEW j \in Keys
      PROVE  /\ listing'[j].time <= now'
             /\ Keeps(calm', local'[j], server'[j], listing'[j], work'[j])
             /\ Chose(work'[j], local'[j], listing'[j])
    <2>1. listing'[j].time <= now'
        BY <1>1, KeyFacts
    <2>2. CASE j = k
        BY <2>1, <2>2
    <2>3. CASE j # k
        <3>1. local[j].edit \in calm' => local[j].edit \in calm
            BY <1>1, KeyFacts
        <3>2. Keeps(calm', local[j], server[j], listing[j], work[j])
            BY <3>1, KeyFacts DEF Keeps
        <3> QED BY <2>1, <2>3, <3>2, KeyFacts
    <2> QED BY <2>2, <2>3
<1> QED BY <1>2, <1>3 DEF EditInv

(* A row that is written has the time of now, and no call has its version. *)
LEMMA NewRowKeeps ==
    ASSUME KVInv, EditInv, NEW k \in Keys, NEW new, NEW w, NEW edited,
           new.time = now + 1,
           w.at = "sent" /\ w.what \in {"put", "del"} => new.edit \notin edited
    PROVE  Keeps(edited, new, server[k], listing[k], w)
<1>1. ~(server[k].time > now + 1) /\ ~(listing[k].time > now + 1)
    BY KeyFacts
<1> QED BY <1>1 DEF Keeps, Yields

LEMMA LocalEditYields ==
    ASSUME KVInv, EditInv, NEW k \in Keys, NEW deleted \in BOOLEAN, LocalEdit(k, deleted)
    PROVE  EditInv'
<1>1. /\ Typed /\ now \in Nat /\ now + 1 \in Nat /\ now' = now + 1
      /\ UNCHANGED <<server, listing, work>>
      /\ Insert(k, now + 1, deleted, 0)
      /\ calm' = IF OnItsWay(k) THEN calm ELSE calm \cup {now + 1}
    BY DEF KVInv, Typed, LocalEdit, Tick, sync
<1>2. /\ \A j \in Keys \ {k} : local'[j] = local[j]
      /\ local'[k].ver = local[k].ver + 1 /\ local'[k].time = now + 1 /\ local'[k].edit = now + 1
    BY <1>1, InsertFields
<1>3. now + 1 \notin calm
    BY <1>1 DEF EditInv
<1>4. Keeps(calm', local'[k], server[k], listing[k], work[k])
    BY <1>1, <1>2, <1>3, NewRowKeeps DEF OnItsWay
<1>5. Chose(work[k], local'[k], listing[k])
    <2>1. work[k].at \in {"sent", "answered", "ready"} => work[k].localVer # local'[k].ver
        <3>1. work[k].at \in {"sent", "answered", "ready"} => work[k].localVer <= local[k].ver
            BY KeyFacts DEF Agree, Knows
        <3>2. local[k].ver \in Nat /\ work[k].localVer \in Nat /\ local'[k].ver = local[k].ver + 1
            BY <1>2, KeyFacts
        <3> QED BY <3>1, <3>2
    <2>2. Chose(work[k], local[k], listing[k])
        BY KeyFacts
    <2> QED BY <2>1, <2>2 DEF Chose
<1> QED BY <1>1, <1>2, <1>4, <1>5, OneKeyEdited

LEMMA ElsewhereYields ==
    ASSUME KVInv, EditInv, NEW k \in Keys, NEW deleted \in BOOLEAN, Elsewhere(k, deleted)
    PROVE  EditInv'
<1>1. /\ UNCHANGED <<local, listing, work, calm>> /\ now' = now + 1
      /\ \A j \in Keys \ {k} : server'[j] = server[j]
      /\ server'[k].edit = now + 1
    BY DEF Elsewhere, KVInv, Typed, Tick, sync
<1>2. server'[k].edit >= local[k].edit
    BY <1>1, KeyFacts
<1>3. Keeps(calm, local[k], server'[k], listing[k], work[k]) /\ Chose(work[k], local[k], listing[k])
    BY <1>2, KeyFacts DEF Keeps, Yields
<1> QED BY <1>1, <1>3, OneKeyEdited

(* A call that goes on and writes nothing.                                 *)
LEMMA CallYields ==
    ASSUME KVInv, EditInv, NEW k \in Keys, UNCHANGED <<now, local, server, listing, calm>>,
           NEW v, work' = [work EXCEPT ![k] = v],
           v.at = "sent" /\ v.what \in {"put", "del"} => v.edit = local[k].edit,
           Chose(v, local[k], listing[k])
    PROVE  EditInv'
<1>1. work'[k] = v /\ \A j \in Keys \ {k} : work'[j] = work[j]
    BY DEF KVInv, Typed
<1>2. Keeps(calm, local[k], server[k], listing[k], v)
    BY KeyFacts DEF Keeps
<1> QED BY <1>1, <1>2, OneKeyEdited

LEMMA EndYields ==
    ASSUME KVInv, EditInv, NEW k \in Keys, UNCHANGED <<now, local, server, listing, calm>>, End(k)
    PROVE  EditInv'
BY CallYields, NoWorkTyped DEF End, Chose

LEMMA SyncKeyYields ==
    ASSUME KVInv, EditInv, NEW k \in Keys, SyncKey(k)
    PROVE  EditInv'
<1>1. UNCHANGED <<now, local, server, listing, calm>>
    BY DEF SyncKey, sync
<1>2. ASSUME NEW at, NEW what, NEW version, Go(k, at, what, version),
             what \in {"get", "erase"} => ~LocalNewer(k) /\ version = listing[k].ver,
             at # "answered"
      PROVE  EditInv'
    <2> DEFINE v == [at |-> at, what |-> what, localVer |-> local[k].ver, remoteVer |-> version,
                     edit |-> local[k].edit, deleted |-> local[k].deleted]
    <2>1. work' = [work EXCEPT ![k] = v]
        BY <1>2 DEF Go
    <2>2. v.at = at /\ v.what = what /\ v.remoteVer = version /\ v.edit = local[k].edit
        OBVIOUS
    <2> HIDE DEF v
    <2>3. what \in {"get", "erase"} => local[k].time < listing[k].time
        BY <1>2, KeyFacts DEF LocalNewer
    <2>4. Chose(v, local[k], listing[k])
        BY <1>2, <2>2, <2>3 DEF Chose
    <2> QED BY <1>1, <2>1, <2>2, <2>4, CallYields
<1> QED BY <1>1, <1>2, EndYields DEF SyncKey

LEMMA ServeYields ==
    ASSUME KVInv, EditInv, NEW k \in Keys, Serve(k)
    PROVE  EditInv'
<1>1. UNCHANGED <<local, listing, calm>> /\ work[k].at = "sent" /\ work[k].what \in {"put", "del"}
    BY DEF Serve, sync
<1>2. CASE End(k) /\ UNCHANGED <<now, server>>
    BY <1>1, <1>2, EndYields
<1>3. CASE /\ server' = [server EXCEPT ![k] = Stored(k, work[k].what = "del")]
           /\ work' = [work EXCEPT ![k].at = "answered", ![k].remoteVer = @ + 1]
           /\ Tick
    <2>1. /\ server'[k].edit = work[k].edit /\ now' = now + 1
          /\ \A j \in Keys \ {k} : server'[j] = server[j] /\ work'[j] = work[j]
        BY <1>3 DEF KVInv, Typed, Stored, Tick
    <2>2. work'[k].at = "answered" /\ work'[k].what = work[k].what
        BY <1>3 DEF KVInv, Typed, Calls
    <2>3. local[k].edit \in calm => server'[k].edit >= local[k].edit /\ Yields(local[k], listing[k])
        BY <1>1, <2>1, KeyFacts DEF Keeps
    <2>4. Keeps(calm, local[k], server'[k], listing[k], work'[k])
        BY <2>2, <2>3 DEF Keeps, Yields
    <2>5. Chose(work'[k], local[k], listing[k])
        BY <1>1, <2>2 DEF Chose
    <2> QED BY <1>1, <2>1, <2>4, <2>5, OneKeyEdited
<1> QED BY <1>2, <1>3 DEF Serve

LEMMA ServeGetYields ==
    ASSUME KVInv, EditInv, NEW k \in Keys, ServeGet(k)
    PROVE  EditInv'
<1>1. /\ UNCHANGED <<now, local, server, listing, calm>>
      /\ work[k].at = "sent" /\ work[k].what = "get"
    BY DEF ServeGet, sync
<1>2. CASE End(k)
    BY <1>1, <1>2, EndYields
<1>3. CASE /\ Accepts(k)
           /\ work' = [work EXCEPT ![k].at = "answered", ![k].edit = server[k].edit,
                                   ![k].deleted = FALSE]
    <2> DEFINE v == [work[k] EXCEPT !.at = "answered", !.edit = server[k].edit, !.deleted = FALSE]
    <2>1. work' = [work EXCEPT ![k] = v]
        BY <1>3 DEF KVInv, Typed
    <2>2. /\ v.at = "answered" /\ v.what = "get" /\ v.edit = server[k].edit
          /\ v.localVer = work[k].localVer
        BY <1>1, KeyFacts DEF Calls
    <2> HIDE DEF v
    <2>3. listing[k] = server[k]
        BY <1>1, <1>3, KeyFacts DEF Accepts, Chose, Agree, ListedIs
    <2>4. Chose(v, local[k], listing[k])
        BY <1>1, <2>2, <2>3, KeyFacts DEF Chose
    <2> QED BY <1>1, <2>1, <2>2, <2>4, CallYields
<1> QED BY <1>2, <1>3 DEF ServeGet

LEMMA RecordYields ==
    ASSUME KVInv, EditInv, NEW k \in Keys, Record(k)
    PROVE  EditInv'
<1>1. UNCHANGED <<server, listing, calm>> /\ End(k) /\ Typed
    BY DEF Record, sync, KVInv
<1>2. CASE UNCHANGED <<now, local>>
    BY <1>1, <1>2, EndYields
<1>3. CASE Insert(k, local[k].edit, local[k].deleted, work[k].remoteVer) /\ Tick
    <2>1. /\ local[k].edit \in Nat /\ local[k].deleted \in BOOLEAN /\ work[k].remoteVer \in Nat
        BY KeyFacts DEF Rows, Calls
    <2>2. /\ local'[k].time = now + 1 /\ now' = now + 1
          /\ \A j \in Keys \ {k} : local'[j] = local[j]
        BY <1>1, <1>3, <2>1, InsertFields DEF Tick
    <2>3. work'[k] = NoWork /\ \A j \in Keys \ {k} : work'[j] = work[j]
        BY <1>1, EndEffect
    <2>4. Keeps(calm, local'[k], server[k], listing[k], NoWork) /\ Chose(NoWork, local'[k], listing[k])
        BY <2>2, NewRowKeeps, NoWorkTyped DEF Chose
    <2> QED BY <1>1, <2>2, <2>3, <2>4, OneKeyEdited
<1> QED BY <1>2, <1>3 DEF Record

LEMMA TakeYields ==
    ASSUME KVInv, EditInv, NEW k \in Keys, Take(k)
    PROVE  EditInv' /\ \A j \in Keys : local'[j].edit < local[j].edit => local[j].edit \notin calm
<1>1. /\ UNCHANGED <<server, listing, calm>> /\ Typed
      /\ work[k].at \in {"answered", "ready"} /\ work[k].what \in {"get", "erase"}
    BY DEF Take, sync, KVInv
<1>2. CASE End(k) /\ UNCHANGED <<now, local>>
    <2>1. \A j \in Keys : ~(local'[j].edit < local[j].edit)
        BY <1>2, KeyFacts
    <2> QED BY <1>1, <1>2, <2>1, EndYields
<1>3. ASSUME NEW edit, NEW deleted \in BOOLEAN, NEW what \in {"put", "del"}, edit = listing[k].edit,
             Insert(k, edit, deleted, 0),
             work' = [work EXCEPT ![k].at = "ready", ![k].what = what,
                                  ![k].localVer = local[k].ver + 1],
             Tick, Current(k)
      PROVE  EditInv' /\ \A j \in Keys : local'[j].edit < local[j].edit => local[j].edit \notin calm
    <2>1. /\ local'[k].time = now + 1 /\ now' = now + 1 /\ local'[k].edit = listing[k].edit
          /\ \A j \in Keys \ {k} : local'[j] = local[j]
        BY <1>1, <1>3, InsertFields, KeyFacts DEF Tick
    <2>2. /\ work'[k].at = "ready" /\ work'[k].what = what
          /\ \A j \in Keys \ {k} : work'[j] = work[j]
        BY <1>1, <1>3 DEF Typed, Calls
    <2>3. Keeps(calm, local'[k], server[k], listing[k], work'[k]) /\ Chose(work'[k], local'[k], listing[k])
        BY <2>1, <2>2, NewRowKeeps DEF Chose
    <2>4. EditInv'
        BY <1>1, <2>1, <2>2, <2>3, OneKeyEdited
    <2>5. local[k].time < listing[k].time
        BY <1>1, <1>3, KeyFacts DEF Chose, Current
    <2>6. local[k].edit \in calm => listing[k].edit >= local[k].edit
        BY <2>5, KeyFacts DEF Keeps, Yields
    <2>7. \A j \in Keys : local'[j].edit < local[j].edit => local[j].edit \notin calm
        BY <2>1, <2>6, KeyFacts
    <2> QED BY <2>4, <2>7
<1>4. CASE /\ Current(k)
           /\ IF work[k].what = "get"
              THEN Insert(k, work[k].edit, FALSE, 0)
              ELSE Insert(k, listing[k].edit, TRUE, 0)
           /\ work' = [work EXCEPT ![k].at = "ready", ![k].what = IF @ = "get" THEN "put" ELSE "del",
                                   ![k].localVer = local[k].ver + 1]
           /\ Tick
    <2>1. CASE work[k].what = "get"
        <3>1. work' = [work EXCEPT ![k].at = "ready", ![k].what = "put",
                                   ![k].localVer = local[k].ver + 1]
            BY <1>1, <1>4, <2>1 DEF Typed
        <3>2. work[k].at = "answered"
            BY <1>1, <2>1, KeyFacts DEF Agree, Knows
        <3>3. work[k].edit = listing[k].edit
            BY <2>1, <3>2, KeyFacts DEF Chose
        <3> QED BY <1>3, <1>4, <2>1, <3>1, <3>3
    <2>2. CASE work[k].what = "erase"
        <3>1. work' = [work EXCEPT ![k].at = "ready", ![k].what = "del",
                                   ![k].localVer = local[k].ver + 1]
            BY <1>1, <1>4, <2>2 DEF Typed
        <3> QED BY <1>3, <1>4, <2>2, <3>1
    <2> QED BY <1>1, <2>1, <2>2
<1> QED BY <1>2, <1>4 DEF Take

(* A step of the sync that writes no key.                                  *)
LEMMA SyncYields ==
    ASSUME KVInv, EditInv, UNCHANGED <<now, local, server, calm>>,
           \/ work' = work /\ listing' = listing
           \/ (\A k \in Keys : work'[k].at \in {"none", "todo"}) /\ listing' \in {listing, server}
    PROVE  EditInv'
<1>1. ASSUME NEW k \in Keys
      PROVE  /\ listing'[k].time <= now
             /\ Keeps(calm, local[k], server[k], listing'[k], work'[k])
             /\ Chose(work'[k], local[k], listing'[k])
    BY KeyFacts DEF Keeps, Chose
<1> QED BY <1>1 DEF EditInv

LEMMA EditStep ==
    ASSUME KVInv, EditInv, [Next]_vars
    PROVE  EditInv' /\ \A k \in Keys : local'[k].edit < local[k].edit => local[k].edit \notin calm
<1> USE DEF sync
<1>1. ASSUME UNCHANGED local
      PROVE  \A k \in Keys : local'[k].edit < local[k].edit => local[k].edit \notin calm
    BY <1>1, KeyFacts
<1>2. ASSUME NEW k \in Keys, NEW deleted \in BOOLEAN, LocalEdit(k, deleted)
      PROVE  \A j \in Keys : local'[j].edit < local[j].edit => local[j].edit \notin calm
    <2>1. Insert(k, now + 1, deleted, 0) /\ now + 1 \in Nat /\ Typed
        BY <1>2 DEF LocalEdit, KVInv, Typed
    <2>2. local'[k].edit = now + 1 /\ \A j \in Keys \ {k} : local'[j] = local[j]
        BY <2>1, InsertFields
    <2> QED BY <2>2, KeyFacts
<1>3. ASSUME NEW k \in Keys, Record(k)
      PROVE  \A j \in Keys : local'[j].edit < local[j].edit => local[j].edit \notin calm
    <2>1. CASE UNCHANGED local
        BY <1>1, <2>1
    <2>2. CASE Insert(k, local[k].edit, local[k].deleted, work[k].remoteVer)
        <3>1. /\ local[k].edit \in Nat /\ local[k].deleted \in BOOLEAN /\ work[k].remoteVer \in Nat
              /\ Typed
            BY KeyFacts DEF Rows, Calls, KVInv
        <3>2. local'[k].edit = local[k].edit /\ \A j \in Keys \ {k} : local'[j] = local[j]
            BY <2>2, <3>1, InsertFields
        <3> QED BY <3>2, KeyFacts
    <2> QED BY <1>3, <2>1, <2>2 DEF Record
<1>4. ASSUME NEW k \in Keys, Fail(k)
      PROVE  EditInv' /\ UNCHANGED local
    BY <1>4, EndYields DEF Fail
<1>5. CASE \/ (\E S : Begin(S)) \/ List \/ ListFails \/ Fan \/ Finish \/ Kill \/ UNCHANGED vars
    <2>1. UNCHANGED <<now, local, server, calm>>
        BY <1>5 DEF Begin, List, ListFails, Fan, Finish, Kill, vars
    <2>2. List => \A k \in Keys : work'[k] = NoWork
        BY DEF List, KVInv, Staged
    <2>3. Fan \/ Kill => \A k \in Keys : work'[k] \in {NoWork, Todo}
        BY DEF Fan, Kill
    <2>4. \/ work' = work /\ listing' = listing
          \/ (\A k \in Keys : work'[k].at \in {"none", "todo"}) /\ listing' \in {listing, server}
        BY <1>5, <2>2, <2>3, NoWorkTyped DEF Begin, List, ListFails, Fan, Finish, Kill, vars
    <2> QED BY <1>1, <2>1, <2>4, SyncYields
<1>6. ASSUME NEW k \in Keys, SyncKey(k) \/ Serve(k) \/ ServeGet(k)
      PROVE  EditInv' /\ UNCHANGED local
    BY <1>6, SyncKeyYields, ServeYields, ServeGetYields DEF SyncKey, Serve, ServeGet
<1>7. ASSUME NEW k \in Keys, NEW deleted \in BOOLEAN, Elsewhere(k, deleted)
      PROVE  EditInv' /\ UNCHANGED local
    BY <1>7, ElsewhereYields DEF Elsewhere
<1> QED BY <1>1, <1>2, <1>3, <1>4, <1>5, <1>6, <1>7, LocalEditYields, RecordYields, TakeYields
        DEF Next, Reply

LEMMA EditInit == Init => EditInv
<1> SUFFICES ASSUME Init PROVE EditInv
    OBVIOUS
<1>1. calm = {} /\ now = 0
    BY DEF Init
<1>2. ASSUME NEW k \in Keys
      PROVE  /\ listing[k].time <= now
             /\ Keeps(calm, local[k], server[k], listing[k], work[k])
             /\ Chose(work[k], local[k], listing[k])
    BY <1>1, <1>2, NoWorkTyped DEF Init, Keeps, Chose, Absent
<1> QED BY <1>1, <1>2 DEF EditInv

(* A local edit gives way to a newer one only, whatever is lost, killed or *)
(* written elsewhere, unless it was made while a put or a deletion of its  *)
(* row was on its way: the server then dates the older one later.          *)
THEOREM EditsAreKept == Spec => EditKept
<1>1. KVInv /\ EditInv /\ [Next]_vars => EditInv'
    BY EditStep
<1>2. KVInv /\ EditInv /\ [Next]_vars
          => [\A k \in Keys : local'[k].edit < local[k].edit => local[k].edit \notin calm]_vars
    BY EditStep
<1> QED BY <1>1, <1>2, EditInit, KVInvariant, PTL DEF Spec, EditKept
=============================================================================
