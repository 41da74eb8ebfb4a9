------------------------ MODULE BRReplicatedKVStore ------------------------
(***************************************************************************)
(* The store of BRReplicatedKVStore.swift that keeps the wallet's notes:   *)
(* local rows with versions, a sync that compares them with a server, and  *)
(* other devices that write to the same server.                            *)
(*                                                                         *)
(* What a row holds is named by the time it was written, so that a greater *)
(* edit is a newer one; every write takes a moment of its own, on clocks   *)
(* that agree.  The server keeps an optimistic lock: it changes a key only *)
(* for a request with the version it has, and answers with what it made of *)
(* it.  A request whose answer is lost was served before or never.  Local  *)
(* reads and writes of the database do not fail, and a value decrypts.     *)
(***************************************************************************)
EXTENDS Integers

CONSTANTS
    Keys,           \* keys of the store
    MaxEdits,       \* bound: edits on this device and on others
    MaxFaults       \* bound: requests that fail, kills of the app

ASSUME KVAssumption == MaxEdits \in Nat /\ MaxFaults \in Nat

VARIABLES
    now,            \* Date()
    local,          \* the newest row of each key
    server,         \* the keys on the server
    syncRunning,
    stage,          \* of the sync: "idle", "asked", "listed", "fan"
    scope,          \* the keys it is for
    listing,        \* what the server said of them
    work,           \* the call of _syncKey for each key
    edits, faults,  \* how many there were
    calm            \* local edits made while no put or del was on its way

sync == <<syncRunning, stage, scope, listing>>
vars == <<now, local, server, sync, work, edits, faults, calm>>

(* A key that is not there has version and time 0.                         *)
Absent == [ver |-> 0, time |-> 0, edit |-> 0, deleted |-> FALSE]
NoRow == [ver |-> 0, time |-> 0, edit |-> 0, deleted |-> FALSE, rv |-> 0]

NoWork == [at |-> "none", what |-> "", localVer |-> 0, remoteVer |-> 0, edit |-> 0,
           deleted |-> FALSE]
Todo == [NoWork EXCEPT !.at = "todo"]

Tick == now' = now + 1
End(k) == work' = [work EXCEPT ![k] = NoWork]

-----------------------------------------------------------------------------
(* Writes *)

(* The row that is inserted: a version and a time of its own, and no       *)
(* remote version unless it is recorded.                                   *)
Insert(k, edit, deleted, rv) ==
    local' = [local EXCEPT ![k] = [ver |-> @.ver + 1, time |-> now + 1, edit |-> edit,
                                   deleted |-> deleted, rv |-> rv]]

OnItsWay(k) == work[k].at = "sent" /\ work[k].what \in {"put", "del"}

(* set and del, by a caller that knows the local version.                  *)
LocalEdit(k, deleted) ==
    /\ edits < MaxEdits /\ edits' = edits + 1
    /\ deleted => local[k].ver > 0
    /\ Insert(k, now + 1, deleted, 0) /\ Tick
    /\ calm' = IF OnItsWay(k) THEN calm ELSE calm \cup {now + 1}
    /\ UNCHANGED <<server, sync, work, faults>>

Elsewhere(k, deleted) ==
    /\ edits < MaxEdits /\ edits' = edits + 1
    /\ deleted => server[k].ver > 0
    /\ server' = [server EXCEPT ![k] = [ver |-> IF @.ver = 0 THEN 2 ELSE @.ver + 1,
                                        time |-> now + 1, edit |-> now + 1,
                                        deleted |-> deleted]]
    /\ Tick
    /\ UNCHANGED <<local, sync, work, faults, calm>>

-----------------------------------------------------------------------------
(* syncAllKeys, and syncKey for one of them *)

Begin(S) ==
    /\ ~syncRunning
    /\ syncRunning' = TRUE /\ stage' = "asked" /\ scope' = S
    /\ UNCHANGED <<now, local, server, listing, work, edits, faults, calm>>

List ==
    /\ stage = "asked"
    /\ listing' = server /\ stage' = "listed"
    /\ UNCHANGED <<now, local, server, syncRunning, scope, work, edits, faults, calm>>

Stop == syncRunning' = FALSE

ListFails ==
    /\ stage = "asked" /\ faults < MaxFaults
    /\ faults' = faults + 1 /\ stage' = "idle" /\ Stop
    /\ UNCHANGED <<now, local, server, scope, listing, work, edits, calm>>

(* The keys that the server has, and those that only we have.              *)
Fan ==
    /\ stage = "listed"
    /\ work' = [k \in Keys |->
                 IF k \in scope /\ (listing[k].ver > 0 \/ local[k].ver > 0) THEN Todo ELSE NoWork]
    /\ stage' = "fan"
    /\ UNCHANGED <<now, local, server, syncRunning, scope, listing, edits, faults, calm>>

Finish ==
    /\ stage = "fan" /\ \A k \in Keys : work[k] = NoWork
    /\ stage' = "idle" /\ syncRunning' = FALSE
    /\ UNCHANGED <<now, local, server, scope, listing, work, edits, faults, calm>>

-----------------------------------------------------------------------------
(* _syncKey *)

(* As if versions were compared, and the times as they are.                *)
LocalHasMore(k) == local[k].ver >= listing[k].ver
LocalNewer(k) == local[k].time >= listing[k].time

SameVersion(k) == listing[k].ver > 0 /\ local[k].rv = listing[k].ver
BothDeleted(k) == local[k].deleted /\ listing[k].deleted

(* As if every key were new; "1" creates one.                              *)
CreateVer(k) == IF listing[k].ver = 0 THEN 0 ELSE 1

UseRemoteVer(k) ==
    IF listing[k].ver = 0 \/ listing[k].ver < local[k].rv THEN 1 ELSE listing[k].ver

Go(k, at, what, version) ==
    work' = [work EXCEPT ![k] = [at |-> at, what |-> what, localVer |-> local[k].ver,
               remoteVer |-> version, edit |-> local[k].edit, deleted |-> local[k].deleted]]

SyncKey(k) ==
    /\ work[k].at = "todo"
    /\ \/ SameVersion(k) /\ End(k)
       \/ ~SameVersion(k) /\ BothDeleted(k) /\ Go(k, "ready", "del", listing[k].ver)
       \/ /\ ~SameVersion(k) /\ ~BothDeleted(k) /\ LocalNewer(k)
          /\ IF local[k].deleted
             THEN Go(k, "sent", "del", listing[k].ver)
             ELSE Go(k, "sent", "put", UseRemoteVer(k))
       \/ /\ ~SameVersion(k) /\ ~BothDeleted(k) /\ ~LocalNewer(k)
          /\ IF listing[k].deleted
             THEN Go(k, "ready", "erase", listing[k].ver)
             ELSE Go(k, "sent", "get", listing[k].ver)
    /\ UNCHANGED <<now, local, server, sync, edits, faults, calm>>

(* The server writes, if the version is the one it has, or the key is new. *)
Accepts(k) == work[k].remoteVer = server[k].ver

Stored(k, deleted) ==
    [ver |-> work[k].remoteVer + 1, time |-> now + 1, edit |-> work[k].edit, deleted |-> deleted]

Serve(k) ==
    /\ work[k].at = "sent" /\ work[k].what \in {"put", "del"}
    /\ IF IF server[k].ver = 0 THEN work[k].what = "put" ELSE Accepts(k)
       THEN /\ server' = [server EXCEPT ![k] = Stored(k, work[k].what = "del")]
            /\ work' = [work EXCEPT ![k].at = "answered", ![k].remoteVer = @ + 1]
            /\ Tick
       ELSE End(k) /\ UNCHANGED <<now, server>>
    /\ UNCHANGED <<local, sync, edits, faults, calm>>

ServeGet(k) ==
    /\ work[k].at = "sent" /\ work[k].what = "get"
    /\ IF Accepts(k) /\ ~server[k].deleted
       THEN work' = [work EXCEPT ![k].at = "answered", ![k].edit = server[k].edit,
                                 ![k].deleted = FALSE]
       ELSE End(k)
    /\ UNCHANGED <<now, local, server, sync, edits, faults, calm>>

(* As if the local version were not looked at, and as it is.               *)
AnyVersion(k) == local[k].ver > 0
Current(k) == work[k].localVer = local[k].ver

(* setRemoteVersion: a copy of the row, with the time of now.              *)
Record(k) ==
    /\ work[k].at \in {"answered", "ready"} /\ work[k].what \in {"put", "del"}
    /\ End(k)
    /\ IF Current(k) /\ local[k].ver > 0
       THEN Insert(k, local[k].edit, local[k].deleted, work[k].remoteVer) /\ Tick
       ELSE UNCHANGED <<now, local>>
    /\ UNCHANGED <<server, sync, edits, faults, calm>>

(* _set and _del with what the server has; setRemoteVersion follows in a   *)
(* transaction of its own.                                                 *)
Take(k) ==
    /\ work[k].at \in {"answered", "ready"} /\ work[k].what \in {"get", "erase"}
    /\ IF Current(k) /\ (work[k].what = "erase" => local[k].ver > 0)
       THEN /\ IF work[k].what = "get"
               THEN Insert(k, work[k].edit, FALSE, 0)
               ELSE Insert(k, listing[k].edit, TRUE, 0)
            /\ work' = [work EXCEPT ![k].at = "ready", ![k].what = IF @ = "get" THEN "put" ELSE "del",
                                    ![k].localVer = local[k].ver + 1]
            /\ Tick
       ELSE End(k) /\ UNCHANGED <<now, local>>
    /\ UNCHANGED <<server, sync, edits, faults, calm>>

(* A request fails, before or after the server served it.                  *)
Fail(k) ==
    /\ work[k].at \in {"sent", "answered"} /\ faults < MaxFaults
    /\ faults' = faults + 1 /\ End(k)
    /\ UNCHANGED <<now, local, server, sync, edits, calm>>

(* The app is killed and started again.                                    *)
Kill ==
    /\ faults < MaxFaults /\ syncRunning
    /\ faults' = faults + 1
    /\ syncRunning' = FALSE /\ stage' = "idle" /\ work' = [k \in Keys |-> NoWork]
    /\ UNCHANGED <<now, local, server, scope, listing, edits, calm>>

-----------------------------------------------------------------------------
(* Specification *)

Init ==
    /\ now = 0 /\ local = [k \in Keys |-> NoRow] /\ server = [k \in Keys |-> Absent]
    /\ syncRunning = FALSE /\ stage = "idle" /\ scope = {}
    /\ listing = [k \in Keys |-> Absent] /\ work = [k \in Keys |-> NoWork]
    /\ edits = 0 /\ faults = 0 /\ calm = {}

Reply(k) == SyncKey(k) \/ Serve(k) \/ ServeGet(k) \/ Record(k) \/ Take(k)

Next ==
    \/ \E k \in Keys, deleted \in BOOLEAN : LocalEdit(k, deleted) \/ Elsewhere(k, deleted)
    \/ Begin(Keys) \/ \E k \in Keys : Begin({k})
    \/ List \/ ListFails \/ Fan \/ Finish \/ Kill
    \/ \E k \in Keys : Reply(k) \/ Fail(k)

Spec == Init /\ [][Next]_vars

(* A sync of all keys has its turn between those of single keys, requests  *)
(* are answered and the calls for the keys go on.                          *)
FairSpec ==
    /\ Spec
    /\ SF_vars(Begin(Keys)) /\ WF_vars(List) /\ WF_vars(Fan) /\ WF_vars(Finish)
    /\ \A k \in Keys : WF_vars(Reply(k))

-----------------------------------------------------------------------------
(* Properties *)

Gone(row) == row.ver = 0 \/ row.deleted
Equal(k) == local[k].edit = server[k].edit \/ (Gone(local[k]) /\ Gone(server[k]))

TypeOK ==
    /\ now \in Nat /\ syncRunning \in BOOLEAN /\ (stage = "idle") = ~syncRunning
    /\ \A k \in Keys :
        /\ local[k].time \in 0..now /\ server[k].time \in 0..now
        /\ local[k].edit \in 0..now /\ server[k].edit \in 0..now
        /\ local[k].rv \in 0..server[k].ver
        /\ work[k] # NoWork => stage = "fan" /\ k \in scope

(* "if they match, there is nothing to do": a row that records the version *)
(* the server has holds what the server has (_syncKey, setRemoteVersion).  *)
RecordedMeansEqual ==
    \A k \in Keys : local[k].rv > 0 /\ local[k].rv = server[k].ver => Equal(k)

(* A local edit gives way to a newer one only, unless it was made while an *)
(* older one was on its way to the server (_syncKey, _set, _del).          *)
EditKept ==
    [][\A k \in Keys :
        local'[k].edit < local[k].edit => local[k].edit \notin calm]_vars

(* Once nobody writes and requests are answered, the device and the server *)
(* agree for good (syncAllKeys).                                           *)
Converges == <>[](\A k \in Keys : Equal(k))

(* Not so: "a basic last-write-wins strategy", what the server has gives   *)
(* way to a newer edit only.  Recording the remote version of a row gives  *)
(* it a new time (BRReplicatedKVStore.swift:384).                          *)
LastWriteWins == [][\A k \in Keys : server'[k].edit >= server[k].edit]_vars
=============================================================================
