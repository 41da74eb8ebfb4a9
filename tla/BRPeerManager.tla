--------------------------- MODULE BRPeerManager ---------------------------
(***************************************************************************)
(* The peer manager, BRPeerManager.c: connections to peers and their       *)
(* threads (BRPeer.c), the choice of a download peer, the start and the    *)
(* end of a sync, the one timer each peer has, the transactions the app    *)
(* publishes, and the calls of the app that race all of it.                *)
(*                                                                         *)
(* Every callback of a peer thread runs under manager->lock, and so does   *)
(* every call of the app: one such section is one step.  Where the code    *)
(* releases the lock and goes on, the step ends there, and a thread is     *)
(* left at a point of BRPeerManagerConnect.  Of the chain only the height  *)
(* of lastBlock is kept, and of the list of known peers nothing: DNS and   *)
(* other peers can put any address in it.                                  *)
(***************************************************************************)
EXTENDS Integers, Sequences, FiniteSets

CONSTANTS
    Peer,           \* addresses of peers
    NoPeer,         \* NULL
    Tx,             \* the transactions the app publishes
    Reported,       \* Reported[p]: the lastblock p reports in its handshake
    Unfit,          \* peers that lack a service the manager needs
    Lag,            \* how far behind a peer may be, 10 in the code
    MaxConnect,     \* maxConnectCount
    MaxFailures,    \* MAX_CONNECT_FAILURES
    MaxHeight,      \* bound: height of the chain
    MaxThreads,     \* bound: threads of peers, before and after they disconnected
    MaxPongs,       \* bound: outstanding pings of a peer
    MaxCalls,       \* bound: calls of the app to connect, disconnect and rescan
    MayRescan       \* bound: does the app rescan

ASSUME ManagerAssumption ==
    /\ NoPeer \notin Peer
    /\ IsFiniteSet(Peer)
    /\ Unfit \subseteq Peer
    /\ Lag \in Nat
    /\ MaxConnect \in Nat \ {0} /\ MaxFailures \in Nat \ {0}
    /\ MaxHeight \in Nat /\ MaxThreads \in Nat /\ MaxPongs \in Nat /\ MaxCalls \in Nat
    /\ MayRescan \in BOOLEAN
    /\ Reported \in [Peer -> 0..MaxHeight]

VARIABLES
    conn,           \* conn[p]: the connection to p and its thread
    downloadPeer,   \* manager->downloadPeer; isConnected is downloadPeer # NoPeer
    failures,       \* manager->connectFailureCount
    syncing,        \* manager->syncStartHeight > 0
    lastBlock,      \* manager->lastBlock->height
    estimated,      \* manager->estimatedHeight
    published,      \* published[t]: is t in publishedTx, and with a callback
    told,           \* told[t]: what the publish callback of t was called with
    sent,           \* transactions handed to a peer that asked for them
    threads,        \* threads[k]: how many threads are at point k of a Connect
    app,            \* what the app's thread is doing, a point or a call
    left,           \* the app disconnected and did not connect again
    calls,          \* how many calls the app made
    reachable       \* networkIsReachable()

syncVars    == <<failures, syncing, lastBlock, estimated>>
publishVars == <<published, told, sent>>
callVars    == <<threads, app, left, calls>>
vars == <<conn, downloadPeer, syncVars, publishVars, callVars, reachable>>

(* A connection is waiting for the network, opening (its thread has no     *)
(* socket yet), connecting (until the handshake is done), shaken (status   *)
(* Connected, but its callback did not run yet), connected, or leaving     *)
(* (its thread is out of its loop).                                        *)
Statuses == {"none", "waiting", "opening", "connecting", "shaken", "connected", "leaving"}
Errors   == {"none", "timeout", "protocol", "other"}
Pongs    == {"filterLoaded", "mempoolDone"}
Points   == {"connect", "started", "fill"}
Connections == [status : Statuses, shut : BOOLEAN, timer : BOOLEAN, sentMempool : BOOLEAN,
                awaiting : BOOLEAN, pongs : Seq(Pongs), offered : SUBSET Tx, error : Errors]

Closed == [status |-> "none", shut |-> FALSE, timer |-> FALSE, sentMempool |-> FALSE,
           awaiting |-> FALSE, pongs |-> <<>>, offered |-> {}, error |-> "none"]

Held      == {p \in Peer : conn[p].status # "none"}
Up        == {p \in Peer : conn[p].status \in {"shaken", "connected"}}
Sockets   == {p \in Peer : conn[p].status \in {"connecting", "shaken", "connected"}}
Listed(pub)  == {t \in Tx : pub[t] \in {"pending", "quiet"}}
Waiting(pub) == {t \in Tx : pub[t] = "pending"}
Pending      == Waiting(published)
Running   == threads["connect"] + threads["started"] + threads["fill"]

-----------------------------------------------------------------------------
(* What the manager does to connections *)

Each(c, S, Do(_)) == [p \in Peer |-> IF p \in S THEN Do(c[p]) ELSE c[p]]

(* BRPeerScheduleDisconnect with and without a time.  A peer has one timer *)
(* for its handshake, for the sync and for publishing.                     *)
Armed(c, S)    == Each(c, S, LAMBDA r : [r EXCEPT !.timer = TRUE])
Disarmed(c, S) == Each(c, S, LAMBDA r : [r EXCEPT !.timer = FALSE])

(* BRPeerDisconnect closes the socket, if there is one by now.             *)
Shut(c, S) == Each(c, S \cap Sockets, LAMBDA r : [r EXCEPT !.shut = TRUE])

(* _BRPeerManagerPublishPendingTx: an inv of all that is published, and a  *)
(* timeout if a callback waits.                                            *)
OfferedUntimed(c, S, pub) == Each(c, S, LAMBDA r : [r EXCEPT !.offered = @ \cup Listed(pub)])

Offered(c, S, pub) ==
    Each(c, S, LAMBDA r : [r EXCEPT !.offered = @ \cup Listed(pub),
                                    !.timer = @ \/ Waiting(pub) # {}])

(* BRPeerSendFilterload, and a ping to know when it is done.               *)
FilterSent(c, S) == Each(c, S, LAMBDA r : [r EXCEPT !.sentMempool = FALSE])
Pinged(c, S, k)  == Each(c, S, LAMBDA r : [r EXCEPT !.pongs = Append(@, k)])

(* BRPeerSendMempool: while a request is out, another fails at once.       *)
MempoolAsked(c, S) ==
    Each(c, S, LAMBDA r : [r EXCEPT !.sentMempool = TRUE, !.awaiting = @ \/ ~r.sentMempool])

(* _BRPeerManagerLoadMempools with download peer d: the others, and d too  *)
(* if its filter has degraded, get a new filter first.                     *)
LoadMempools(c, d, degraded, pub) ==
    LET up    == {p \in Peer : c[p].status \in {"shaken", "connected"}}
        first == IF degraded THEN up ELSE up \ {d}
    IN  MempoolAsked(Pinged(Offered(FilterSent(c, first), first, pub), first, "filterLoaded"),
                     up \ first)

(* _BRPeerManagerSyncStopped cancels the sync timeout, but not while a     *)
(* publish callback waits.                                                 *)
SyncStopped(c) ==
    /\ syncing' = FALSE
    /\ conn' = IF Pending = {} THEN Disarmed(c, {downloadPeer}) ELSE c

(* The thread a at point k of a call goes on to point l.                   *)
At(a, k) == IF a = "app" THEN app = k ELSE threads[k] > 0

GoOn(a, k, l) ==
    IF a = "app" THEN app' = l /\ UNCHANGED threads
    ELSE /\ threads' = [j \in Points |-> threads[j] + (IF j = l THEN 1 ELSE 0)
                                                    - (IF j = k THEN 1 ELSE 0)]
         /\ UNCHANGED app

-----------------------------------------------------------------------------
(* BRPeerManagerConnect, in the app's thread or in that of a peer that     *)
(* disconnected                                                            *)

(* BRPeerConnect: without a network the connection waits for another call. *)
Started(c, S) ==
    Each(c, S, LAMBDA r : [Closed EXCEPT !.status = IF reachable THEN "opening" ELSE "waiting",
                                         !.timer = reachable])

Woken == Started(conn, {p \in Peer : conn[p].status = "waiting"})

(* Free places are filled from the list of known peers.  With nobody to    *)
(* connect to, the sync is over.                                           *)
Fill(c, a, k) ==
    \E new \in SUBSET (Peer \ Held) :
        /\ Cardinality(Held \cup new) <= MaxConnect \/ new = {}
        /\ new = {} \/ Running + Cardinality(Held \cup new) <= MaxThreads
        /\ conn' = Started(c, new)
        /\ syncing' = (syncing /\ Held \cup new # {})
        /\ GoOn(a, k, "idle")

(* If too few peers are known, or they are too old, the lock is released   *)
(* for a DNS lookup before places are filled.                              *)
Open(a, k) ==
    \/ Fill(Woken, a, k)
    \/ /\ Cardinality(Held) < MaxConnect
       /\ conn' = Woken
       /\ GoOn(a, k, "fill")
       /\ UNCHANGED syncing

(* The lock is released for the app's syncStarted callback too.            *)
Connect(a) ==
    /\ At(a, "connect")
    /\ failures' = IF failures >= MaxFailures THEN 0 ELSE failures
    /\ IF (downloadPeer = NoPeer \/ lastBlock < estimated) /\ ~syncing
       THEN syncing' = TRUE /\ GoOn(a, "connect", "started") /\ UNCHANGED conn
       ELSE Open(a, "connect")
    /\ UNCHANGED <<downloadPeer, lastBlock, estimated, publishVars, left, calls, reachable>>

ConnectStarted(a) ==
    /\ At(a, "started")
    /\ Open(a, "started")
    /\ UNCHANGED <<downloadPeer, failures, lastBlock, estimated, publishVars, left, calls,
                   reachable>>

ConnectFill(a) ==
    /\ At(a, "fill")
    /\ Fill(conn, a, "fill")
    /\ UNCHANGED <<downloadPeer, failures, lastBlock, estimated, publishVars, left, calls,
                   reachable>>

-----------------------------------------------------------------------------
(* A peer's thread *)

(* The socket exists from the moment its connection is attempted.          *)
OpenSocket(p) ==
    /\ conn[p].status = "opening"
    /\ conn' = [conn EXCEPT ![p].status = "connecting"]
    /\ UNCHANGED <<downloadPeer, syncVars, publishVars, callVars, reachable>>

(* _BRPeerDidConnect, up to its callback.  No peer takes part in more than *)
(* MaxPongs handshakes without answering a ping.                           *)
Handshake(p) ==
    /\ conn[p].status = "connecting"
    /\ \A q \in Peer : Len(conn[q].pongs) < MaxPongs
    /\ conn' = [conn EXCEPT ![p].status = "shaken", ![p].timer = FALSE]
    /\ UNCHANGED <<downloadPeer, syncVars, publishVars, callVars, reachable>>

(* The peers that report the highest block among those that are up; ping   *)
(* times decide between them.                                              *)
HighestHeld == {q \in Held : \A r \in Held : Reported[r] <= Reported[q]}

Highest == {q \in Up : \A r \in Up : Reported[r] <= Reported[q]}

(* _peerConnected: a download peer at least as high as p stays; otherwise  *)
(* the highest peer becomes the download peer.                             *)
Reject(c, p) ==
    /\ conn' = Shut(c, {p})
    /\ UNCHANGED <<downloadPeer, failures, estimated>>

StickWithDownloadPeer(c, p) ==
    /\ IF lastBlock >= Reported[p]
       THEN /\ conn' = Pinged(Offered(FilterSent(c, {p}), {p}, published), {p}, "filterLoaded")
            /\ failures' = 0
       ELSE conn' = c /\ UNCHANGED failures
    /\ UNCHANGED <<downloadPeer, estimated>>

SelectDownloadPeer(c) ==
    \E q \in Highest :
        LET ready == Offered(FilterSent(Shut(c, {downloadPeer}), {q}), {q}, published)
        IN  /\ downloadPeer' = q
            /\ estimated' = Reported[q]
            /\ IF lastBlock < Reported[q]
               THEN conn' = Armed(ready, {q}) /\ UNCHANGED failures
               ELSE conn' = LoadMempools(ready, q, FALSE, published) /\ failures' = 0

PeerConnected(p) ==
    /\ conn[p].status = "shaken"
    /\ LET c == [conn EXCEPT ![p].status = "connected"]
       IN  IF p \in Unfit \/ Reported[p] + Lag < lastBlock THEN Reject(c, p)
           ELSE IF /\ downloadPeer # NoPeer
                   /\ Reported[downloadPeer] >= Reported[p] \/ lastBlock >= Reported[p]
           THEN StickWithDownloadPeer(c, p)
           ELSE SelectDownloadPeer(c)
    /\ UNCHANGED <<syncing, lastBlock, publishVars, callVars, reachable>>

(* _peerRelayedBlock, for a block that extends the main chain.  The        *)
(* transactions in it that are published leave the list; a peer relays the *)
(* transactions of a block before the block, so no callback waits for one  *)
(* of them.  The estimate that the block is compared with is the old one,  *)
(* and grows with the chain afterwards.  A peer whose socket was closed    *)
(* may still be in the middle of a message, here and below.                *)
ExtendChain(p) ==
    /\ conn[p].status = "connected"
    /\ p = downloadPeer \/ lastBlock >= Reported[p]
    /\ lastBlock < MaxHeight
    /\ \A q \in Peer : Len(conn[q].pongs) < MaxPongs
    /\ lastBlock' = lastBlock + 1
    /\ estimated' = IF lastBlock' > estimated THEN lastBlock' ELSE estimated
    /\ \E confirmed \in SUBSET {t \in Tx : published[t] = "quiet"} :
           published' = [t \in Tx |-> IF t \in confirmed THEN "none" ELSE published[t]]
    /\ LET behind == p = downloadPeer /\ lastBlock' < estimated
           c == IF behind THEN Armed(conn, {p}) ELSE conn
       IN  /\ failures' = IF behind THEN 0 ELSE failures
           /\ \E degraded \in BOOLEAN :
                  conn' = IF lastBlock' = estimated
                          THEN LoadMempools(c, downloadPeer, degraded, published') ELSE c
    /\ UNCHANGED <<downloadPeer, syncing, told, sent, callVars, reachable>>

(* The same while a filter update is pending: the block is dropped.        *)
DropBlock(p) ==
    /\ conn[p].status = "connected"
    /\ p = downloadPeer /\ lastBlock < estimated
    /\ conn' = Armed(conn, {p})
    /\ failures' = 0
    /\ UNCHANGED <<downloadPeer, syncing, lastBlock, estimated, publishVars, callVars, reachable>>

(* An invalid block, a rejected transaction with confirmed inputs, a       *)
(* filter that lets too much through: the peer is dropped.                 *)
Misbehave(p) ==
    /\ conn[p].status = "connected" /\ ~conn[p].shut
    /\ conn' = Shut(conn, {p})
    /\ UNCHANGED <<downloadPeer, syncVars, publishVars, callVars, reachable>>

(* The mempool was answered, or ten seconds have passed: one more ping.    *)
MempoolAnswered(p) ==
    /\ conn[p].status = "connected" /\ conn[p].awaiting
    /\ conn' = Pinged([conn EXCEPT ![p].awaiting = FALSE], {p}, "mempoolDone")
    /\ UNCHANGED <<downloadPeer, syncVars, publishVars, callVars, reachable>>

(* A pong, and what waits for it: _loadBloomFilterDone, _mempoolDone.      *)
Pong(p) ==
    /\ conn[p].status = "connected" /\ conn[p].pongs # <<>>
    /\ LET c == [conn EXCEPT ![p].pongs = Tail(@)]
       IN  IF Head(conn[p].pongs) = "filterLoaded"
           THEN conn' = MempoolAsked(c, {p}) /\ UNCHANGED syncing
           ELSE IF syncing THEN SyncStopped(c) ELSE conn' = c /\ UNCHANGED syncing
    /\ UNCHANGED <<downloadPeer, failures, lastBlock, estimated, publishVars, callVars, reachable>>

(* The thread leaves its loop: its socket was closed (and an error that it *)
(* was about to report stands), the time of its timer came, or something   *)
(* went wrong.                                                             *)
Leave(p, e) ==
    /\ conn' = [conn EXCEPT ![p] = [Closed EXCEPT !.status = "leaving", !.pongs = conn[p].pongs,
                                                  !.error = e]]
    /\ UNCHANGED <<downloadPeer, syncVars, publishVars, callVars, reachable>>

LeaveClosed(p) ==
    /\ conn[p].status \in {"connecting", "connected"} /\ conn[p].shut
    /\ \E e \in Errors : Leave(p, e)

TimeOut(p) ==
    /\ conn[p].status \in {"connecting", "connected"} /\ ~conn[p].shut
    /\ conn[p].timer
    /\ Leave(p, "timeout")

Fail(p) ==
    \/ conn[p].status = "opening" /\ Leave(p, "other")
    \/ /\ conn[p].status \in {"connecting", "connected"} /\ ~conn[p].shut
       /\ \E e \in Errors \ {"none"} : Leave(p, e)

(* Outstanding pings are answered with a failure; _loadBloomFilterDone of  *)
(* the download peer takes that for the end of the sync.                   *)
Flush(p) ==
    /\ conn[p].status = "leaving" /\ conn[p].pongs # <<>>
    /\ LET c == [conn EXCEPT ![p].pongs = Tail(@)]
       IN  IF Head(conn[p].pongs) = "filterLoaded" /\ p = downloadPeer THEN SyncStopped(c)
           ELSE conn' = c /\ UNCHANGED syncing
    /\ UNCHANGED <<downloadPeer, failures, lastBlock, estimated, publishVars, callVars, reachable>>

(* connectFailureCount once p has disconnected.  The download peer never   *)
(* leaves it above the number at which the manager gives up.               *)
Failed(p) == failures + (IF conn[p].error \in {"timeout", "other"} THEN 1 ELSE 0)

FailuresUncapped(p) == Failed(p)

FailuresAfter(p) ==
    IF p = downloadPeer /\ Failed(p) > MaxFailures THEN MaxFailures ELSE Failed(p)

(* _peerDisconnected.  A pending publish is told of a timeout that may be  *)
(* its own, or that the manager gives up; giving up ends the sync.  As     *)
(* long as it does not, another peer is connected to once the lock is      *)
(* released.                                                               *)
Disconnected(p) ==
    /\ conn[p].status = "leaving" /\ conn[p].pongs = <<>>
    /\ failures' = FailuresAfter(p)
    /\ LET gaveUp == downloadPeer \in {NoPeer, p} /\ failures' = MaxFailures
           cancel == \/ gaveUp
                     \/ /\ conn[p].error = "timeout"
                        /\ p # downloadPeer \/ ~syncing \/ Held = {p}
       IN  /\ downloadPeer' = IF p = downloadPeer THEN NoPeer ELSE downloadPeer
           /\ syncing' = (syncing /\ ~gaveUp)
           /\ published' = [t \in Tx |-> IF cancel /\ t \in Pending THEN "none" ELSE published[t]]
           /\ told' = [t \in Tx |-> IF cancel /\ t \in Pending THEN Append(told[t], "failed")
                                     ELSE told[t]]
           /\ threads' = [threads EXCEPT !["connect"] = @ + (IF failures' < MaxFailures THEN 1 ELSE 0)]
    /\ conn' = [conn EXCEPT ![p] = Closed]
    /\ UNCHANGED <<lastBlock, estimated, sent, app, left, calls, reachable>>

-----------------------------------------------------------------------------
(* Transactions.  The callback of a publish runs once the lock is          *)
(* released; told records the call when it is decided.                     *)

AnswerAgain(t, result) ==
    told' = IF t \in Listed(published) THEN [told EXCEPT ![t] = Append(@, result)] ELSE told

Answer(t, result) ==
    told' = IF t \in Pending THEN [told EXCEPT ![t] = Append(@, result)] ELSE told

(* A peer that talks about a transaction no longer needs the publish       *)
(* timeout, unless the callback of another one waits (not one of T), or    *)
(* its timer serves the sync.                                              *)
RelievedOfSync(p, T) == IF Pending \subseteq T THEN Disarmed(conn, {p}) ELSE conn

Relieved(p, T) ==
    IF Pending \subseteq T /\ (~syncing \/ p # downloadPeer) THEN Disarmed(conn, {p}) ELSE conn

(* _peerRelayedTx and _peerHasTx, for a transaction somebody was handed.   *)
HasTx(p, t) ==
    /\ conn[p].status = "connected"
    /\ t \in sent
    /\ Answer(t, "ok")
    /\ published' = [published EXCEPT ![t] = IF t \in Listed(published) THEN "quiet" ELSE @]
    /\ conn' = IF syncing /\ p = downloadPeer THEN Armed(conn, {p}) ELSE Relieved(p, {t})
    /\ UNCHANGED <<downloadPeer, syncVars, sent, callVars, reachable>>

(* The same for any other transaction; one of the wallet's shows that the  *)
(* sync goes on.                                                           *)
HasOtherTx(p) ==
    /\ conn[p].status = "connected"
    /\ conn' \in {Relieved(p, {})} \cup
                 (IF syncing /\ p = downloadPeer THEN {Armed(conn, {p})} ELSE {})
    /\ UNCHANGED <<downloadPeer, syncVars, publishVars, callVars, reachable>>

(* _peerRequestedTx: t may have become invalid since it was published.     *)
RequestTx(p, t) ==
    /\ conn[p].status = "connected"
    /\ t \in conn[p].offered \cup sent
    /\ t \in Listed(published)
    /\ conn' = Relieved(p, {t})
    /\ \/ /\ Answer(t, "ok")
          /\ published' = [published EXCEPT ![t] = "quiet"]
          /\ sent' = sent \cup {t}
       \/ /\ Answer(t, "failed")
          /\ published' = [published EXCEPT ![t] = "none"]
          /\ UNCHANGED sent
    /\ UNCHANGED <<downloadPeer, syncVars, callVars, reachable>>

-----------------------------------------------------------------------------
(* The app *)

AppConnect ==
    /\ app = "idle" /\ calls < MaxCalls
    /\ calls' = calls + 1
    /\ app' = "connect"
    /\ left' = FALSE
    /\ UNCHANGED <<conn, downloadPeer, syncVars, publishVars, threads, reachable>>

(* BRPeerManagerDisconnect, which then polls until nobody is connected.    *)
AppDisconnect ==
    /\ app = "idle" /\ calls < MaxCalls
    /\ calls' = calls + 1
    /\ app' = "leaving"
    /\ left' = TRUE
    /\ failures' = IF Held # {} THEN MaxFailures ELSE failures
    /\ conn' = Shut(conn, Held)
    /\ UNCHANGED <<downloadPeer, syncing, lastBlock, estimated, publishVars, threads, reachable>>

AppDisconnected ==
    /\ app = "leaving" /\ Held = {}
    /\ app' = "idle"
    /\ UNCHANGED <<conn, downloadPeer, syncVars, publishVars, threads, left, calls, reachable>>

(* BRPeerManagerRescan; the checkpoint it starts from has height 0.        *)
AppRescan ==
    /\ app = "idle" /\ calls < MaxCalls
    /\ MayRescan
    /\ downloadPeer # NoPeer
    /\ calls' = calls + 1
    /\ app' = "connect"
    /\ left' = FALSE
    /\ lastBlock' = 0
    /\ syncing' = FALSE
    /\ conn' = Shut(conn, {downloadPeer})
    /\ UNCHANGED <<downloadPeer, failures, estimated, publishVars, threads, reachable>>

(* BRPeerManagerPublishTx: all peers that are up but the download peer get *)
(* an inv, and the download peer if it is the only one.  (The pong of the  *)
(* ping that follows changes nothing here.)                                *)
Publish(t) ==
    LET to == IF Cardinality(Up) = 1 THEN Up ELSE Up \ {downloadPeer}
    IN  /\ published' = [published EXCEPT ![t] = "pending"]
        /\ conn' = Offered(conn, to, published')

AppPublish(t) ==
    /\ app = "idle"
    /\ published[t] = "none" /\ told[t] = <<>>
    /\ \/ /\ downloadPeer # NoPeer
          /\ Publish(t)
          /\ UNCHANGED <<told, app>>
       \/ /\ downloadPeer = NoPeer
          /\ failures >= MaxFailures \/ ~reachable
          /\ told' = [told EXCEPT ![t] = <<"failed">>]
          /\ UNCHANGED <<conn, published, app>>
       \/ /\ downloadPeer = NoPeer
          /\ failures < MaxFailures /\ reachable
          /\ published' = [published EXCEPT ![t] = "checked"]
          /\ app' = "publish"
          /\ UNCHANGED <<conn, told>>
    /\ UNCHANGED <<downloadPeer, syncVars, sent, threads, left, calls, reachable>>

(* The lock was released for the second check.                             *)
AppPublishes(t) ==
    /\ app = "publish"
    /\ published[t] = "checked"
    /\ Publish(t)
    /\ app' = "idle"
    /\ UNCHANGED <<downloadPeer, syncVars, told, sent, threads, left, calls, reachable>>

NetworkChanges ==
    /\ reachable' = ~reachable
    /\ UNCHANGED <<conn, downloadPeer, syncVars, publishVars, callVars>>

-----------------------------------------------------------------------------
Init ==
    /\ conn = [p \in Peer |-> Closed]
    /\ downloadPeer = NoPeer
    /\ failures = 0 /\ syncing = FALSE
    /\ lastBlock \in 0..MaxHeight /\ estimated = 0
    /\ published = [t \in Tx |-> "none"]
    /\ told = [t \in Tx |-> <<>>]
    /\ sent = {}
    /\ threads = [k \in Points |-> 0]
    /\ app = "idle" /\ left = FALSE /\ calls = 0
    /\ reachable = TRUE

Actors == {"app", "thread"}

Connecting(a) == Connect(a) \/ ConnectStarted(a) \/ ConnectFill(a)

PeerThread(p) ==
    \/ OpenSocket(p) \/ Handshake(p) \/ PeerConnected(p)
    \/ ExtendChain(p) \/ DropBlock(p) \/ Misbehave(p)
    \/ MempoolAnswered(p) \/ Pong(p)
    \/ \E t \in Tx : HasTx(p, t) \/ RequestTx(p, t)
    \/ HasOtherTx(p)
    \/ LeaveClosed(p) \/ TimeOut(p) \/ Fail(p) \/ Flush(p) \/ Disconnected(p)

App ==
    \/ AppConnect \/ AppDisconnect \/ AppDisconnected \/ AppRescan
    \/ \E t \in Tx : AppPublish(t) \/ AppPublishes(t)

Next ==
    \/ \E a \in Actors : Connecting(a)
    \/ \E p \in Peer : PeerThread(p)
    \/ App
    \/ NetworkChanges

Spec == Init /\ [][Next]_vars

(* Threads run: they take the lock when it is free, attempt a connection,  *)
(* notice that their socket is closed, and notice that the time of their   *)
(* timer has come, which it does unless it is put off for ever.  Nobody    *)
(* has to call, to answer, or to bring back the network.                   *)
Fairness ==
    /\ \A p \in Peer : /\ WF_vars(OpenSocket(p))
                       /\ WF_vars(PeerConnected(p))
                       /\ WF_vars(LeaveClosed(p))
                       /\ WF_vars(TimeOut(p))
                       /\ WF_vars(Flush(p))
                       /\ WF_vars(Disconnected(p))
    /\ \A a \in Actors : WF_vars(Connecting(a))
    /\ WF_vars(AppDisconnected)

FairSpec == Spec /\ Fairness

-----------------------------------------------------------------------------
(* Properties *)

TypeOK ==
    /\ conn \in [Peer -> Connections]
    /\ downloadPeer \in Peer \cup {NoPeer}
    /\ failures \in Nat
    /\ syncing \in BOOLEAN
    /\ lastBlock \in 0..MaxHeight
    /\ estimated \in 0..MaxHeight
    /\ published \in [Tx -> {"none", "checked", "pending", "quiet"}]
    /\ told \in [Tx -> Seq({"ok", "failed"})]
    /\ sent \subseteq Tx
    /\ threads \in [Points -> Nat]
    /\ app \in Points \cup {"idle", "leaving", "publish"}
    /\ left \in BOOLEAN
    /\ calls \in 0..MaxCalls
    /\ reachable \in BOOLEAN

(* The download peer is a peer the manager holds, and one that was up:     *)
(* _peerDisconnected frees peers, in whatever order they leave, are        *)
(* replaced, and are chosen by the callback of another.  The manager does  *)
(* not take its chain for complete before the height that very peer        *)
(* reported, whoever was the download peer before and whoever relayed      *)
(* blocks since.                                                           *)
DownloadPeerHeld ==
    downloadPeer # NoPeer =>
        /\ conn[downloadPeer].status \in {"shaken", "connected", "leaving"}
        /\ Reported[downloadPeer] <= estimated

(* Unless the app disconnected, a sync that was started and did not end    *)
(* has somebody to end it: a peer the manager holds, or a thread that is   *)
(* about to connect to one.                                                *)
SyncHasDriver ==
    syncing => left \/ Held # {} \/ Running > 0 \/ app \in Points

(* The callback of a publish is called at most once, and a transaction     *)
(* that was called failed is never handed to a peer, before or after.      *)
ToldOnce ==
    \A t \in Tx :
        /\ Len(told[t]) <= 1
        /\ told[t] = <<"failed">> => t \notin sent \cup Listed(published)

(* What the app knows of a transaction, by its answers and its place in    *)
(* publishedTx.                                                            *)
Outcome(answers, place) ==
    IF answers = <<>>
    THEN IF place = "none" THEN "new" ELSE "waiting"
    ELSE IF Len(answers) = 1 THEN Head(answers) ELSE "answered twice"

outcome == [t \in Tx |-> Outcome(told[t], published[t])]

Publishing == INSTANCE Publication WITH handed <- sent

(* Publishing keeps what it promises: each transaction is answered once,   *)
(* and failed ones are handed to nobody (_peerRequestedTx, _peerHasTx,     *)
(* _peerDisconnected, BRPeerManagerPublishTx).                             *)
PublicationKept == Publishing!Spec

(* A peer that was told of a transaction whose callback waits has its      *)
(* timer set, although the sync and other transactions set and cancel the  *)
(* same timer.                                                             *)
OfferIsTimed ==
    \A p \in Up : conn[p].offered \cap Pending # {} => conn[p].timer

(* A download peer that stalls while it is behind is dropped.              *)
StalledSyncIsReplaced ==
    \A p \in Peer : \A h \in 0..MaxHeight :
        (syncing /\ downloadPeer = p /\ lastBlock = h /\ h < estimated)
            ~> ~(syncing /\ downloadPeer = p /\ lastBlock = h /\ h < estimated)

(* A publish that was offered to a peer is answered, or the peer goes.     *)
OfferEnds ==
    \A p \in Peer : \A t \in Tx :
        (p \in Up /\ t \in conn[p].offered /\ t \in Pending)
            ~> ~(p \in Up /\ t \in conn[p].offered /\ t \in Pending)

-----------------------------------------------------------------------------
(* What comments of the code say and the code does not keep: TLC finds     *)
(* each of these violated (see the README).                                *)

(* "sync succeeded": the sync ends without an error only when the chain    *)
(* was downloaded.                                                         *)
SuccessMeansSynced ==
    [][\A p \in Peer : (Pong(p) \/ Flush(p)) /\ syncing /\ ~syncing'
          => lastBlock >= estimated]_vars

(* BRPeerManagerDisconnect is to "prevent futher automatic reconnect       *)
(* attempts": while it waits, nobody is connected to.                      *)
NoReconnect ==
    [][app = "leaving" => \A p \in Peer \ Held : p \notin Held']_vars

(* BRPeerManagerDisconnect "disconnects from bitcoin peer-to-peer network":*)
(* it closes every connection and returns, to a queue the app shares       *)
(* between all its calls.                                                  *)
DisconnectReturns == app = "leaving" ~> app = "idle"

(* "notify user of network problems after this many connect failures in a  *)
(* row": with more failures than that and no download peer, the sync has   *)
(* ended and no publish waits.                                             *)
FailuresAreNotified ==
    failures > MaxFailures /\ downloadPeer = NoPeer => ~syncing /\ Pending = {}
=============================================================================
