------------------------- MODULE BRPeerManagerProofs -------------------------
(***************************************************************************)
(* Proofs about the peer manager, for every set of peers and transactions, *)
(* every limit and every bound: the download peer is held, a sync has      *)
(* somebody to end it, and a publish is answered once and never waits      *)
(* without a timer at a peer that was told of it.                          *)
(***************************************************************************)
EXTENDS BRPeerManager, TLAPS

(* Why the properties are inductive.  A callback that waits was not called *)
(* yet, and nobody was handed its transaction.                             *)
Answers ==
    \A t \in Tx :
        /\ told[t] \in {<<>>, <<"ok">>, <<"failed">>}
        /\ published[t] \in {"checked", "pending"} => told[t] = <<>>
        /\ published[t] = "quiet" => told[t] = <<"ok">>
        /\ t \in sent => told[t] = <<"ok">>
        /\ told[t] = <<"failed">> => published[t] = "none"

(* Only peers that are up know of transactions, of such that were          *)
(* published: a transaction that is published now was offered to nobody.   *)
Known(c, pub, tl) ==
    \A p \in Peer :
        /\ c[p].status \notin {"shaken", "connected"} => c[p].offered = {}
        /\ \A t \in c[p].offered : pub[t] = "pending" \/ tl[t] # <<>>

Timely(c, pub) ==
    \A p \in Peer :
        c[p].status \in {"shaken", "connected"} /\ c[p].offered \cap Waiting(pub) # {} => c[p].timer

(* Once the manager gave up no sync is in progress, until the app leaves   *)
(* or asks for another try.                                                *)
GivenUp ==
    failures >= MaxFailures /\ downloadPeer = NoPeer /\ syncing => left \/ app = "connect"

ManagerInv ==
    /\ TypeOK
    /\ DownloadPeerHeld
    /\ Answers
    /\ Known(conn, published, told)
    /\ Timely(conn, published)
    /\ GivenUp
    /\ SyncHasDriver

-----------------------------------------------------------------------------

AreUp == {"shaken", "connected"}

(* What every step of the manager on connections it holds has in common:   *)
(* no status changes, no timer is cancelled, and a peer that is told of    *)
(* what is published gets a timer if a callback waits.                     *)
Offering(c, d, pub) ==
    /\ d \in [Peer -> Connections]
    /\ \A q \in Peer :
          /\ d[q].status = c[q].status
          /\ c[q].timer => d[q].timer
          /\ \/ d[q].offered = c[q].offered
             \/ /\ c[q].status \in AreUp
                /\ d[q].offered = c[q].offered \cup Listed(pub)
                /\ Waiting(pub) # {} => d[q].timer

(* The timer of some peers is cancelled, and nothing else happens.         *)
Quieting(c, d) ==
    /\ d \in [Peer -> Connections]
    /\ \A q \in Peer : d[q].status = c[q].status /\ d[q].offered = c[q].offered

(* Places are filled with new connections, and waiting ones are woken.     *)
Filling(c, d) ==
    /\ d \in [Peer -> Connections]
    /\ \A q \in Peer :
          \/ d[q] = c[q]
          \/ /\ c[q].status \in {"none", "waiting"}
             /\ d[q].status \in {"waiting", "opening"}
             /\ d[q].offered = {}

-----------------------------------------------------------------------------
(* Connections *)

(* A peer's record as BRPeerNew makes it is well formed.                   *)
LEMMA ClosedIsConnection == Closed \in Connections
BY DEF Closed, Connections, Statuses, Errors, Pongs

(* Steps that offer compose: _peerConnected and LoadMempools are several.  *)
LEMMA OfferingTransitive ==
    ASSUME NEW c, NEW d, NEW e, NEW pub, Offering(c, d, pub), Offering(d, e, pub)
    PROVE  Offering(c, e, pub)
BY DEF Offering

(* Doing nothing offers nothing.                                           *)
LEMMA OfferingReflexive ==
    ASSUME NEW c \in [Peer -> Connections], NEW pub
    PROVE  Offering(c, c, pub)
BY DEF Offering

(* BRPeerScheduleDisconnect with a time only sets timers.                  *)
LEMMA ArmedOffers ==
    ASSUME NEW c \in [Peer -> Connections], NEW S, NEW pub
    PROVE  Offering(c, Armed(c, S), pub)
BY DEF Offering, Armed, Each, Connections

(* BRPeerDisconnect changes no status: the peer's thread does, later.      *)
LEMMA ShutOffers ==
    ASSUME NEW c \in [Peer -> Connections], NEW S, NEW pub
    PROVE  Offering(c, Shut(c, S), pub)
BY DEF Offering, Shut, Each, Connections

(* Sending a filter tells no peer of a transaction.                        *)
LEMMA FilterSentOffers ==
    ASSUME NEW c \in [Peer -> Connections], NEW S, NEW pub
    PROVE  Offering(c, FilterSent(c, S), pub)
BY DEF Offering, FilterSent, Each, Connections

(* Nor does a ping.                                                        *)
LEMMA PingedOffers ==
    ASSUME NEW c \in [Peer -> Connections], NEW S, NEW k \in Pongs, NEW pub
    PROVE  Offering(c, Pinged(c, S, k), pub)
<1>1. \A s \in Seq(Pongs) : Append(s, k) \in Seq(Pongs)
    OBVIOUS
<1>2. \A r \in Connections : [r EXCEPT !.pongs = Append(r.pongs, k)] \in Connections
    BY <1>1 DEF Connections
<1>3. \A q \in Peer : Pinged(c, S, k)[q] \in Connections
    BY <1>2 DEF Pinged, Each
<1> QED BY <1>3 DEF Offering, Pinged, Each, Connections

(* Nor does a request for the mempool.                                     *)
LEMMA MempoolAskedOffers ==
    ASSUME NEW c \in [Peer -> Connections], NEW S, NEW pub
    PROVE  Offering(c, MempoolAsked(c, S), pub)
BY DEF Offering, MempoolAsked, Each, Connections

(* _BRPeerManagerPublishPendingTx sets a timer whenever a callback waits.  *)
LEMMA OfferedOffers ==
    ASSUME NEW c \in [Peer -> Connections], NEW S, NEW pub,
           \A q \in S : c[q].status \in AreUp
    PROVE  Offering(c, Offered(c, S, pub), pub)
BY DEF Offering, Offered, Each, Connections, Listed, Waiting

(* BRPeerScheduleDisconnect without a time only cancels timers.            *)
LEMMA DisarmedQuiets ==
    ASSUME NEW c \in [Peer -> Connections], NEW S
    PROVE  Quieting(c, Disarmed(c, S))
BY DEF Quieting, Disarmed, Each, Connections

(* BRPeerConnect starts threads of peers that have none.                   *)
LEMMA StartedFills ==
    ASSUME NEW c \in [Peer -> Connections], NEW S, reachable \in BOOLEAN,
           \A q \in S : c[q].status \in {"none", "waiting"}
    PROVE  Filling(c, Started(c, S))
<1>1. \A q \in Peer : Started(c, S)[q] \in Connections
    BY ClosedIsConnection DEF Started, Each, Connections, Statuses
<1>2. \A q \in Peer \ S : Started(c, S)[q] = c[q]
    BY DEF Started, Each
<1>3. \A q \in Peer \cap S : /\ Started(c, S)[q].status \in {"waiting", "opening"}
                             /\ Started(c, S)[q].offered = {}
    BY DEF Started, Each, Closed
<1>4. Started(c, S) \in [Peer -> Connections]
    BY <1>1 DEF Started, Each
<1> QED BY <1>2, <1>3, <1>4 DEF Filling

(* BRPeerManagerLoadMempools as a whole.                                   *)
LEMMA LoadMempoolsOffers ==
    ASSUME NEW c \in [Peer -> Connections], NEW d, NEW degraded, NEW pub
    PROVE  Offering(c, LoadMempools(c, d, degraded, pub), pub)
<1> DEFINE up    == {p \in Peer : c[p].status \in AreUp}
           first == IF degraded THEN up ELSE up \ {d}
           c1 == FilterSent(c, first)
           c2 == Offered(c1, first, pub)
           c3 == Pinged(c2, first, "filterLoaded")
           c4 == MempoolAsked(c3, up \ first)
<1>1. Offering(c, c1, pub)
    BY FilterSentOffers
<1>2. Offering(c1, c2, pub)
    <2>1. c1 \in [Peer -> Connections] /\ \A q \in first : c1[q].status \in AreUp
        BY <1>1 DEF Offering
    <2> QED BY <2>1, OfferedOffers
<1>3. Offering(c2, c3, pub)
    <2>1. c2 \in [Peer -> Connections] /\ "filterLoaded" \in Pongs
        BY <1>2 DEF Offering, Pongs
    <2> QED BY <2>1, PingedOffers
<1>4. Offering(c3, c4, pub)
    <2>1. c3 \in [Peer -> Connections]
        BY <1>3 DEF Offering
    <2> QED BY <2>1, MempoolAskedOffers
<1>5. c4 = LoadMempools(c, d, degraded, pub)
    BY DEF LoadMempools, AreUp
<1> HIDE DEF c1, c2, c3, c4
<1>6. Offering(c, c2, pub)
    BY <1>1, <1>2, OfferingTransitive
<1>7. Offering(c, c3, pub)
    BY <1>6, <1>3, OfferingTransitive
<1>8. Offering(c, c4, pub)
    BY <1>7, <1>4, OfferingTransitive
<1> QED BY <1>5, <1>8

(* What _peerConnected sends to a peer that is up: a filter, what is       *)
(* published, and perhaps a ping.                                          *)
LEMMA ReadyOffers ==
    ASSUME NEW c \in [Peer -> Connections], NEW q \in Peer, c[q].status \in AreUp
    PROVE  LET ready == Offered(FilterSent(c, {q}), {q}, published)
           IN  /\ Offering(c, ready, published)
               /\ Offering(c, Pinged(ready, {q}, "filterLoaded"), published)
<1> DEFINE c1 == FilterSent(c, {q})
           c2 == Offered(c1, {q}, published)
<1>1. Offering(c, c1, published)
    BY FilterSentOffers
<1>2. Offering(c1, c2, published)
    <2>1. c1 \in [Peer -> Connections] /\ \A p \in {q} : c1[p].status \in AreUp
        BY <1>1 DEF Offering
    <2> QED BY <2>1, OfferedOffers
<1>3. Offering(c2, Pinged(c2, {q}, "filterLoaded"), published)
    <2>1. c2 \in [Peer -> Connections] /\ "filterLoaded" \in Pongs
        BY <1>2 DEF Offering, Pongs
    <2> QED BY <2>1, PingedOffers
<1> HIDE DEF c1, c2
<1>4. Offering(c, c2, published)
    BY <1>1, <1>2, OfferingTransitive
<1>5. Offering(c, Pinged(c2, {q}, "filterLoaded"), published)
    BY <1>4, <1>3, OfferingTransitive
<1> QED BY <1>4, <1>5 DEF c1, c2

(* BRPeerManagerConnect goes on.                                           *)
LEMMA GoOnTyped ==
    ASSUME TypeOK, NEW a, NEW k \in Points, NEW l \in Points \cup {"idle"},
           At(a, k), GoOn(a, k, l)
    PROVE  /\ threads' \in [Points -> Nat]
           /\ app' \in Points \cup {"idle", "leaving", "publish"}
           /\ l \in Points => threads'[l] > 0 \/ app' = l
<1>1. CASE a = "app"
    BY <1>1 DEF GoOn, TypeOK
<1>2. CASE a # "app"
    <2>1. threads \in [Points -> Nat] /\ threads[k] > 0
        BY <1>2 DEF At, TypeOK
    <2>2. threads' = [j \in Points |-> threads[j] + (IF j = l THEN 1 ELSE 0)
                                                  - (IF j = k THEN 1 ELSE 0)]
        BY <1>2 DEF GoOn
    <2>3. \A j \in Points : threads'[j] \in Nat
        BY <2>1, <2>2
    <2>4. threads' \in [Points -> Nat]
        BY <2>2, <2>3
    <2>5. l \in Points /\ l # k => threads'[l] > 0
        BY <2>1, <2>2
    <2>6. l = k => threads'[l] > 0
        BY <2>1, <2>2
    <2>7. app' \in Points \cup {"idle", "leaving", "publish"}
        BY <1>2 DEF GoOn, TypeOK
    <2> QED BY <2>4, <2>5, <2>6, <2>7
<1> QED BY <1>1, <1>2

-----------------------------------------------------------------------------
(* What each action does to the connections *)

(* BRPeerManagerConnect fills free places.                                 *)
LEMMA FillEffect ==
    ASSUME TypeOK, NEW c, Filling(conn, c), \A q \in Peer \ Held : c[q] = conn[q],
           NEW a, NEW k \in Points, At(a, k), Fill(c, a, k)
    PROVE  /\ Filling(conn, conn')
           /\ threads' \in [Points -> Nat]
           /\ app' \in Points \cup {"idle", "leaving", "publish"}
           /\ syncing' \in BOOLEAN
<1>1. PICK new \in SUBSET (Peer \ Held) : conn' = Started(c, new) /\ GoOn(a, k, "idle")
                                          /\ syncing' = (syncing /\ Held \cup new # {})
    BY DEF Fill
<1>2. \A q \in new : q \in Peer /\ conn[q].status = "none"
    BY DEF Held
<1>3. \A q \in new : c[q].status \in {"none", "waiting"}
    BY <1>1, <1>2
<1>4. Filling(c, conn')
    BY <1>1, <1>3, StartedFills DEF Filling, TypeOK
<1>5. \A q \in Peer \ new : conn'[q] = c[q]
    BY <1>1 DEF Started, Each
<1>6. Filling(conn, conn')
    BY <1>2, <1>4, <1>5 DEF Filling
<1> QED BY <1>1, <1>6, GoOnTyped DEF TypeOK

(* BRPeerManagerConnect wakes the peers that wait for the network.         *)
LEMMA WokenFills ==
    ASSUME TypeOK
    PROVE  Filling(conn, Woken) /\ \A q \in Peer \ Held : Woken[q] = conn[q]
<1> DEFINE S == {p \in Peer : conn[p].status = "waiting"}
<1>1. Woken = Started(conn, S)
    BY DEF Woken
<1>2. Filling(conn, Started(conn, S))
    <2>1. /\ conn \in [Peer -> Connections] /\ reachable \in BOOLEAN
          /\ \A q \in S : conn[q].status \in {"none", "waiting"}
        BY DEF TypeOK
    <2> HIDE DEF S
    <2> QED BY <2>1, StartedFills
<1>3. \A q \in Peer \ Held : Started(conn, S)[q] = conn[q]
    BY DEF Held, Started, Each
<1> QED BY <1>1, <1>2, <1>3

(* The same, with or without a DNS lookup before.                          *)
LEMMA OpenEffect ==
    ASSUME TypeOK, NEW a, NEW k \in Points, At(a, k), Open(a, k)
    PROVE  /\ Filling(conn, conn')
           /\ threads' \in [Points -> Nat]
           /\ app' \in Points \cup {"idle", "leaving", "publish"}
           /\ syncing' \in BOOLEAN
<1>1. CASE Fill(Woken, a, k)
    BY <1>1, WokenFills, FillEffect
<1>2. CASE conn' = Woken /\ GoOn(a, k, "fill") /\ UNCHANGED syncing
    BY <1>2, WokenFills, GoOnTyped DEF Points, TypeOK
<1> QED BY <1>1, <1>2 DEF Open

(* BRPeerManagerConnect, from whichever point it goes on.                  *)
LEMMA ConnectingEffect ==
    ASSUME TypeOK, NEW a, Connecting(a)
    PROVE  /\ Filling(conn, conn')
           /\ threads' \in [Points -> Nat]
           /\ app' \in Points \cup {"idle", "leaving", "publish"}
           /\ syncing' \in BOOLEAN
           /\ UNCHANGED <<downloadPeer, lastBlock, estimated, publishVars, left, calls, reachable>>
           /\ failures' \in {0, failures}
<1>1. CASE Connect(a)
    <2>1. CASE syncing' = TRUE /\ GoOn(a, "connect", "started") /\ UNCHANGED conn
        <3>1. Filling(conn, conn')
            BY <2>1 DEF Filling, TypeOK
        <3> QED BY <1>1, <2>1, <3>1, GoOnTyped DEF Connect, Points
    <2>2. CASE Open(a, "connect")
        BY <1>1, <2>2, OpenEffect DEF Connect, Points
    <2> QED BY <1>1, <2>1, <2>2 DEF Connect
<1>2. CASE ConnectStarted(a)
    BY <1>2, OpenEffect DEF ConnectStarted, Points
<1>3. CASE ConnectFill(a)
    <2>1. Filling(conn, conn)
        BY DEF Filling, TypeOK
    <2> QED BY <1>3, <2>1, FillEffect DEF ConnectFill, Points
<1> QED BY <1>1, <1>2, <1>3 DEF Connecting

(* The callback of a peer that connected.                                  *)
LEMMA PeerConnectedEffect ==
    ASSUME TypeOK, NEW p \in Peer, PeerConnected(p)
    PROVE  /\ conn[p].status = "shaken"
           /\ Offering([conn EXCEPT ![p].status = "connected"], conn', published)
           /\ failures' \in {0, failures}
           /\ \/ UNCHANGED <<downloadPeer, estimated>>
              \/ /\ downloadPeer' \in Peer
                 /\ conn'[downloadPeer'].status \in AreUp
                 /\ estimated' = Reported[downloadPeer']
<1> DEFINE c == [conn EXCEPT ![p].status = "connected"]
<1>1. c \in [Peer -> Connections] /\ conn[p].status = "shaken" /\ c[p].status \in AreUp
    BY DEF PeerConnected, TypeOK, Connections, Statuses, AreUp
<1>2. CASE Reject(c, p)
    BY <1>1, <1>2, ShutOffers DEF Reject
<1>3. CASE StickWithDownloadPeer(c, p)
    <2>1. Offering(c, c, published)
        BY <1>1, OfferingReflexive
    <2>2. Offering(c, Pinged(Offered(FilterSent(c, {p}), {p}, published), {p}, "filterLoaded"),
                   published)
        BY <1>1, ReadyOffers
    <2> QED BY <1>1, <1>3, <2>1, <2>2 DEF StickWithDownloadPeer
<1>4. CASE SelectDownloadPeer(c)
    <2> DEFINE ready(q) == Offered(FilterSent(Shut(c, {downloadPeer}), {q}), {q}, published)
    <2>1. PICK q \in Highest :
              /\ downloadPeer' = q /\ estimated' = Reported[q]
              /\ \/ conn' = Armed(ready(q), {q}) /\ UNCHANGED failures
                 \/ conn' = LoadMempools(ready(q), q, FALSE, published) /\ failures' = 0
        BY <1>4 DEF SelectDownloadPeer
    <2>2. q \in Peer /\ c[q].status \in AreUp
        BY <1>1, <2>1 DEF Highest, Up, AreUp, TypeOK
    <2>3. Offering(c, Shut(c, {downloadPeer}), published)
        BY <1>1, ShutOffers
    <2>4. Shut(c, {downloadPeer}) \in [Peer -> Connections]
          /\ Shut(c, {downloadPeer})[q].status \in AreUp
        BY <2>2, <2>3 DEF Offering
    <2>5. Offering(Shut(c, {downloadPeer}), ready(q), published)
        BY <2>2, <2>4, ReadyOffers
    <2>6. ready(q) \in [Peer -> Connections]
        BY <2>5 DEF Offering
    <2> HIDE DEF ready, c
    <2>7. Offering(c, ready(q), published)
        BY <2>3, <2>5, OfferingTransitive
    <2>8. Offering(ready(q), conn', published)
        BY <2>1, <2>6, ArmedOffers, LoadMempoolsOffers
    <2>9. Offering(c, conn', published)
        BY <2>7, <2>8, OfferingTransitive
    <2>10. conn'[q].status \in AreUp
        BY <2>2, <2>9 DEF Offering
    <2> QED BY <1>1, <2>1, <2>2, <2>9, <2>10 DEF c
<1> QED BY <1>2, <1>3, <1>4 DEF PeerConnected

(* A block that extends the chain may load the mempools.                   *)
LEMMA ExtendChainEffect ==
    ASSUME TypeOK, NEW p \in Peer, ExtendChain(p)
    PROVE  Offering(conn, conn', published')
<1> DEFINE behind == p = downloadPeer /\ lastBlock' < estimated
           c == IF behind THEN Armed(conn, {p}) ELSE conn
<1>1. conn \in [Peer -> Connections]
    BY DEF TypeOK
<1>2. Offering(conn, c, published')
    BY <1>1, ArmedOffers, OfferingReflexive
<1>3. c \in [Peer -> Connections]
    BY <1>2 DEF Offering
<1>4. PICK degraded \in BOOLEAN :
          conn' = IF lastBlock' = estimated THEN LoadMempools(c, downloadPeer, degraded, published')
                  ELSE c
    BY DEF ExtendChain
<1> HIDE DEF c
<1>5. Offering(c, conn', published')
    BY <1>3, <1>4, LoadMempoolsOffers, OfferingReflexive
<1> QED BY <1>2, <1>5, OfferingTransitive

(* A peer answered the mempool request, or did not in time.                *)
LEMMA MempoolAnsweredEffect ==
    ASSUME TypeOK, NEW p \in Peer, MempoolAnswered(p)
    PROVE  Offering(conn, conn', published)
<1> DEFINE c == [conn EXCEPT ![p].awaiting = FALSE]
<1>1. Offering(conn, c, published)
    BY DEF Offering, TypeOK, Connections
<1>2. c \in [Peer -> Connections] /\ "mempoolDone" \in Pongs
    BY <1>1 DEF Offering, Pongs
<1>3. conn' = Pinged(c, {p}, "mempoolDone")
    BY DEF MempoolAnswered
<1> HIDE DEF c
<1>4. Offering(c, conn', published)
    BY <1>2, <1>3, PingedOffers
<1> QED BY <1>1, <1>4, OfferingTransitive

(* The next pong is taken off.                                             *)
LEMMA PongTaken ==
    ASSUME TypeOK, NEW p \in Peer, conn[p].pongs # <<>>
    PROVE  Offering(conn, [conn EXCEPT ![p].pongs = Tail(@)], published)
<1>1. conn[p] \in Connections /\ conn[p].pongs \in Seq(Pongs)
    BY DEF TypeOK, Connections
<1>2. Tail(conn[p].pongs) \in Seq(Pongs)
    BY <1>1
<1>3. [conn EXCEPT ![p].pongs = Tail(@)] \in [Peer -> Connections]
    BY <1>2 DEF TypeOK, Connections
<1> QED BY <1>3 DEF Offering, TypeOK, Connections

(* A pong, answered or not, cancels a timer only if no callback waits.     *)
LEMMA PongEffect ==
    ASSUME TypeOK, NEW p \in Peer, Pong(p) \/ Flush(p)
    PROVE  /\ \/ Offering(conn, conn', published)
              \/ Pending = {} /\ Quieting(conn, conn')
           /\ syncing' \in {syncing, FALSE}
<1> DEFINE c == [conn EXCEPT ![p].pongs = Tail(@)]
<1>1. Offering(conn, c, published)
    BY PongTaken DEF Pong, Flush
<1>2. c \in [Peer -> Connections]
    BY <1>1 DEF Offering
<1>3. \/ conn' = MempoolAsked(c, {p}) /\ UNCHANGED syncing
      \/ conn' = c /\ UNCHANGED syncing
      \/ SyncStopped(c)
    BY DEF Pong, Flush
<1> HIDE DEF c
<1>4. CASE conn' = MempoolAsked(c, {p}) /\ UNCHANGED syncing
    BY <1>1, <1>2, <1>4, MempoolAskedOffers, OfferingTransitive
<1>5. CASE conn' = c /\ UNCHANGED syncing
    BY <1>1, <1>5
<1>6. CASE SyncStopped(c)
    <2>1. CASE Pending = {}
        <3>1. conn' = Disarmed(c, {downloadPeer}) /\ syncing' = FALSE
            BY <1>6, <2>1 DEF SyncStopped
        <3>2. Quieting(c, conn')
            BY <1>2, <3>1, DisarmedQuiets
        <3>3. \A q \in Peer : c[q].status = conn[q].status /\ c[q].offered = conn[q].offered
            <4>1. c = [conn EXCEPT ![p].pongs = Tail(@)]
                BY DEF c
            <4> QED BY <4>1 DEF TypeOK, Connections
        <3> QED BY <2>1, <3>1, <3>2, <3>3 DEF Quieting
    <2>2. CASE Pending # {}
        BY <1>1, <1>6, <2>2 DEF SyncStopped
    <2> QED BY <2>1, <2>2
<1> QED BY <1>3, <1>4, <1>5, <1>6

(* A peer talks about a transaction.                                       *)
LEMMA RelievedEffect ==
    ASSUME TypeOK, NEW p, NEW T
    PROVE  \/ Relieved(p, T) = conn
           \/ Quieting(conn, Relieved(p, T)) /\ Pending \subseteq T
BY DisarmedQuiets DEF Relieved, TypeOK

(* A thread that leaves its loop forgets what it was told of.              *)
LEMMA LeaveEffect ==
    ASSUME TypeOK, NEW p \in Peer, NEW e \in Errors, Leave(p, e)
    PROVE  /\ conn' \in [Peer -> Connections]
           /\ conn'[p].status = "leaving" /\ conn'[p].offered = {}
           /\ \A q \in Peer \ {p} : conn'[q] = conn[q]
<1>1. conn' = [conn EXCEPT ![p] = [Closed EXCEPT !.status = "leaving", !.pongs = conn[p].pongs,
                                                 !.error = e]]
    BY DEF Leave
<1>2. [Closed EXCEPT !.status = "leaving", !.pongs = conn[p].pongs, !.error = e] \in Connections
    BY ClosedIsConnection DEF TypeOK, Connections, Statuses
<1>3. [Closed EXCEPT !.status = "leaving", !.pongs = conn[p].pongs, !.error = e].status = "leaving"
    BY DEF Closed
<1>4. [Closed EXCEPT !.status = "leaving", !.pongs = conn[p].pongs, !.error = e].offered = {}
    BY DEF Closed
<1> QED BY <1>1, <1>2, <1>3, <1>4 DEF TypeOK

(* BRPeerManagerPublishTx tells peers that are up.                         *)
LEMMA PublishEffect ==
    ASSUME TypeOK, NEW t \in Tx, Publish(t)
    PROVE  /\ published' = [published EXCEPT ![t] = "pending"]
           /\ Offering(conn, conn', published')
BY OfferedOffers DEF Publish, Up, AreUp, TypeOK

-----------------------------------------------------------------------------
(* The type invariant *)

(* Answers are recorded as such.                                           *)
LEMMA AnswerTyped ==
    ASSUME TypeOK, NEW t \in Tx, NEW r \in {"ok", "failed"}, Answer(t, r)
    PROVE  told' \in [Tx -> Seq({"ok", "failed"})]
<1>1. \A s \in Seq({"ok", "failed"}) : Append(s, r) \in Seq({"ok", "failed"})
    OBVIOUS
<1>2. told \in [Tx -> Seq({"ok", "failed"})]
    BY DEF TypeOK
<1> QED BY <1>1, <1>2 DEF Answer

(* The type invariant holds after BRPeerManagerNew.                        *)
LEMMA TypeInit ==
    ASSUME Init
    PROVE  TypeOK
<1>1. conn \in [Peer -> Connections]
    BY ClosedIsConnection DEF Init
<1>2. told \in [Tx -> Seq({"ok", "failed"})]
    <2>1. <<>> \in Seq({"ok", "failed"})
        OBVIOUS
    <2> QED BY <2>1 DEF Init
<1>3. estimated \in 0..MaxHeight /\ calls \in 0..MaxCalls
    BY ManagerAssumption DEF Init
<1>4. threads \in [Points -> Nat]
    BY DEF Init
<1> QED BY <1>1, <1>2, <1>3, <1>4 DEF Init, TypeOK

(* No handler of a peer's thread breaks it.                                *)
LEMMA TypeThread ==
    ASSUME TypeOK, NEW p \in Peer, PeerThread(p)
    PROVE  TypeOK'
<1> USE DEF syncVars, publishVars, callVars
<1>1. CASE OpenSocket(p)
    <2>1. conn' \in [Peer -> Connections]
        BY <1>1 DEF OpenSocket, TypeOK, Connections, Statuses
    <2> QED BY <1>1, <2>1 DEF OpenSocket, TypeOK
<1>2. CASE Handshake(p)
    <2>1. conn' \in [Peer -> Connections]
        <3>1. [conn[p] EXCEPT !.status = "shaken", !.timer = FALSE] \in Connections
            BY DEF TypeOK, Connections, Statuses
        <3>2. conn' = [conn EXCEPT ![p] = [conn[p] EXCEPT !.status = "shaken", !.timer = FALSE]]
            BY <1>2 DEF Handshake, TypeOK
        <3> QED BY <3>1, <3>2 DEF TypeOK
    <2> QED BY <1>2, <2>1 DEF Handshake, TypeOK
<1>3. CASE PeerConnected(p)
    <2>1. conn' \in [Peer -> Connections] /\ failures' \in Nat
        BY <1>3, PeerConnectedEffect DEF Offering, TypeOK
    <2>2. downloadPeer' \in Peer \cup {NoPeer} /\ estimated' \in 0..MaxHeight
        <3>1. \/ UNCHANGED <<downloadPeer, estimated>>
              \/ downloadPeer' \in Peer /\ estimated' = Reported[downloadPeer']
            BY <1>3, PeerConnectedEffect
        <3> QED BY <3>1, ManagerAssumption DEF TypeOK
    <2> QED BY <1>3, <2>1, <2>2 DEF PeerConnected, TypeOK
<1>4. CASE ExtendChain(p)
    <2>1. conn' \in [Peer -> Connections]
        BY <1>4, ExtendChainEffect DEF Offering
    <2>2. lastBlock' \in 0..MaxHeight /\ estimated' \in 0..MaxHeight /\ failures' \in Nat
        BY <1>4, ManagerAssumption DEF ExtendChain, TypeOK
    <2>3. published' \in [Tx -> {"none", "checked", "pending", "quiet"}]
        BY <1>4 DEF ExtendChain, TypeOK
    <2> QED BY <1>4, <2>1, <2>2, <2>3 DEF ExtendChain, TypeOK
<1>5. CASE DropBlock(p)
    <2>1. conn' \in [Peer -> Connections]
        BY <1>5, ArmedOffers DEF DropBlock, Offering, TypeOK
    <2> QED BY <1>5, <2>1 DEF DropBlock, TypeOK
<1>6. CASE Misbehave(p)
    <2>1. conn' \in [Peer -> Connections]
        BY <1>6, ShutOffers DEF Misbehave, Offering, TypeOK
    <2> QED BY <1>6, <2>1 DEF Misbehave, TypeOK
<1>7. CASE MempoolAnswered(p)
    <2>1. conn' \in [Peer -> Connections]
        BY <1>7, MempoolAnsweredEffect DEF Offering
    <2> QED BY <1>7, <2>1 DEF MempoolAnswered, TypeOK
<1>8. CASE Pong(p) \/ Flush(p)
    <2>1. conn' \in [Peer -> Connections] /\ syncing' \in BOOLEAN
        BY <1>8, PongEffect DEF Offering, Quieting, TypeOK
    <2> QED BY <1>8, <2>1 DEF Pong, Flush, TypeOK
<1>9. ASSUME NEW t \in Tx, HasTx(p, t)
      PROVE  TypeOK'
    <2>1. conn' \in [Peer -> Connections]
        BY <1>9, ArmedOffers, RelievedEffect DEF HasTx, Offering, Quieting, TypeOK
    <2>2. told' \in [Tx -> Seq({"ok", "failed"})]
        BY <1>9, AnswerTyped DEF HasTx
    <2>3. published' \in [Tx -> {"none", "checked", "pending", "quiet"}]
        BY <1>9 DEF HasTx, TypeOK
    <2> QED BY <1>9, <2>1, <2>2, <2>3 DEF HasTx, TypeOK
<1>10. ASSUME NEW t \in Tx, RequestTx(p, t)
       PROVE  TypeOK'
    <2>1. conn' \in [Peer -> Connections]
        BY <1>10, RelievedEffect DEF RequestTx, Quieting, TypeOK
    <2>2. told' \in [Tx -> Seq({"ok", "failed"})]
        BY <1>10, AnswerTyped DEF RequestTx
    <2>3. published' \in [Tx -> {"none", "checked", "pending", "quiet"}] /\ sent' \subseteq Tx
        BY <1>10 DEF RequestTx, TypeOK
    <2> QED BY <1>10, <2>1, <2>2, <2>3 DEF RequestTx, TypeOK
<1>11. CASE HasOtherTx(p)
    <2>1. conn' \in [Peer -> Connections]
        <3>1. conn' = Relieved(p, {}) \/ conn' = Armed(conn, {p})
            BY <1>11 DEF HasOtherTx
        <3>2. conn \in [Peer -> Connections]
            BY DEF TypeOK
        <3>3. Relieved(p, {}) \in [Peer -> Connections]
            BY <3>2, RelievedEffect DEF Quieting
        <3>4. Armed(conn, {p}) \in [Peer -> Connections]
            BY <3>2, ArmedOffers DEF Offering
        <3> QED BY <3>1, <3>3, <3>4
    <2> QED BY <1>11, <2>1 DEF HasOtherTx, TypeOK
<1>12. ASSUME NEW e \in Errors, Leave(p, e)
       PROVE  TypeOK'
    <2>1. conn' \in [Peer -> Connections]
        BY <1>12, LeaveEffect
    <2> QED BY <1>12, <2>1 DEF Leave, TypeOK
<1>13. CASE LeaveClosed(p) \/ TimeOut(p) \/ Fail(p)
    BY <1>12, <1>13 DEF LeaveClosed, TimeOut, Fail, Errors
<1>14. CASE Disconnected(p)
    <2>1. conn' \in [Peer -> Connections]
        BY <1>14, ClosedIsConnection DEF Disconnected, TypeOK
    <2>2. failures' \in Nat
        BY <1>14, ManagerAssumption DEF Disconnected, FailuresAfter, Failed, TypeOK
    <2>3. downloadPeer' \in Peer \cup {NoPeer} /\ syncing' \in BOOLEAN
        BY <1>14 DEF Disconnected, TypeOK
    <2>4. published' \in [Tx -> {"none", "checked", "pending", "quiet"}]
        BY <1>14 DEF Disconnected, TypeOK
    <2>5. told' \in [Tx -> Seq({"ok", "failed"})]
        <3>1. \A s \in Seq({"ok", "failed"}) : Append(s, "failed") \in Seq({"ok", "failed"})
            OBVIOUS
        <3>2. told \in [Tx -> Seq({"ok", "failed"})]
            BY DEF TypeOK
        <3> QED BY <1>14, <3>1, <3>2 DEF Disconnected
    <2>6. threads' \in [Points -> Nat]
        BY <1>14 DEF Disconnected, TypeOK, Points
    <2> QED BY <1>14, <2>1, <2>2, <2>3, <2>4, <2>5, <2>6 DEF Disconnected, TypeOK
<1> QED BY <1>1, <1>2, <1>3, <1>4, <1>5, <1>6, <1>7, <1>8, <1>9, <1>10, <1>11, <1>13, <1>14
        DEF PeerThread

(* No call of the app does.                                                *)
LEMMA TypeApp ==
    ASSUME TypeOK, App
    PROVE  TypeOK'
<1> USE DEF syncVars, publishVars, callVars
<1>1. CASE AppConnect
    <2>1. calls' \in 0..MaxCalls
        BY <1>1, ManagerAssumption DEF AppConnect, TypeOK
    <2>2. app' \in Points \cup {"idle", "leaving", "publish"}
        BY <1>1 DEF AppConnect, Points
    <2> QED BY <1>1, <2>1, <2>2 DEF AppConnect, TypeOK
<1>2. CASE AppDisconnect
    <2>1. conn' \in [Peer -> Connections] /\ failures' \in Nat
        BY <1>2, ShutOffers, ManagerAssumption DEF AppDisconnect, Offering, TypeOK
    <2> QED BY <1>2, <2>1, ManagerAssumption DEF AppDisconnect, TypeOK
<1>3. CASE AppDisconnected
    BY <1>3 DEF AppDisconnected, TypeOK
<1>4. CASE AppRescan
    <2>1. conn' \in [Peer -> Connections]
        BY <1>4, ShutOffers DEF AppRescan, Offering, TypeOK
    <2>2. calls' \in 0..MaxCalls /\ lastBlock' \in 0..MaxHeight
        BY <1>4, ManagerAssumption DEF AppRescan, TypeOK
    <2>3. app' \in Points \cup {"idle", "leaving", "publish"}
        BY <1>4 DEF AppRescan, Points
    <2> QED BY <1>4, <2>1, <2>2, <2>3 DEF AppRescan, TypeOK
<1>5. ASSUME NEW t \in Tx, Publish(t)
      PROVE  /\ conn' \in [Peer -> Connections]
             /\ published' \in [Tx -> {"none", "checked", "pending", "quiet"}]
    BY <1>5, PublishEffect DEF Offering, TypeOK
<1>6. ASSUME NEW t \in Tx, AppPublish(t)
      PROVE  TypeOK'
    <2>1. /\ conn' \in [Peer -> Connections]
          /\ published' \in [Tx -> {"none", "checked", "pending", "quiet"}]
        BY <1>5, <1>6 DEF AppPublish, TypeOK
    <2>2. told' \in [Tx -> Seq({"ok", "failed"})]
        <3>1. <<"failed">> \in Seq({"ok", "failed"})
            OBVIOUS
        <3> QED BY <1>6, <3>1 DEF AppPublish, TypeOK
    <2> QED BY <1>6, <2>1, <2>2 DEF AppPublish, TypeOK
<1>7. ASSUME NEW t \in Tx, AppPublishes(t)
      PROVE  TypeOK'
    BY <1>5, <1>7 DEF AppPublishes, TypeOK
<1> QED BY <1>1, <1>2, <1>3, <1>4, <1>6, <1>7 DEF App

(* No step does.                                                           *)
LEMMA TypeStep ==
    ASSUME TypeOK, [Next]_vars
    PROVE  TypeOK'
<1>1. ASSUME NEW a \in Actors, Connecting(a)
      PROVE  TypeOK'
    <2>1. conn' \in [Peer -> Connections] /\ failures' \in Nat
        BY <1>1, ConnectingEffect DEF Filling, TypeOK
    <2> QED BY <1>1, <2>1, ConnectingEffect DEF TypeOK, publishVars
<1>2. ASSUME NEW p \in Peer, PeerThread(p)
      PROVE  TypeOK'
    BY <1>2, TypeThread
<1>3. CASE App
    BY <1>3, TypeApp
<1>4. CASE NetworkChanges
    BY <1>4 DEF NetworkChanges, TypeOK, syncVars, publishVars, callVars
<1>5. CASE UNCHANGED vars
    BY <1>5 DEF vars, TypeOK, syncVars, publishVars, callVars
<1> QED BY <1>1, <1>2, <1>3, <1>4, <1>5 DEF Next

(* Every variable of the peer manager keeps its type.                      *)
THEOREM ManagerTypeCorrect == Spec => []TypeOK
<1>1. Init => TypeOK
    BY TypeInit
<1>2. TypeOK /\ [Next]_vars => TypeOK'
    BY TypeStep
<1> QED BY <1>1, <1>2, PTL DEF Spec

-----------------------------------------------------------------------------
(* The download peer *)

(* A peer's thread never leaves a download peer that is not held.          *)
LEMMA DownloadPeerThread ==
    ASSUME TypeOK, DownloadPeerHeld, NEW p \in Peer, PeerThread(p)
    PROVE  DownloadPeerHeld'
<1> USE DEF syncVars, publishVars, callVars
<1> DEFINE Holds(c) == c[downloadPeer].status \in {"shaken", "connected", "leaving"}
<1>1. ASSUME UNCHANGED <<downloadPeer, estimated>>, downloadPeer \in Peer /\ Holds(conn) => Holds(conn')
      PROVE  DownloadPeerHeld'
    BY <1>1 DEF DownloadPeerHeld, TypeOK
<1>2. CASE OpenSocket(p)
    <2>1. downloadPeer \in Peer /\ Holds(conn) => Holds(conn')
        BY <1>2 DEF OpenSocket, TypeOK
    <2> QED BY <1>1, <1>2, <2>1 DEF OpenSocket
<1>3. CASE Handshake(p)
    <2>1. downloadPeer \in Peer /\ Holds(conn) => Holds(conn')
        BY <1>3 DEF Handshake, TypeOK
    <2> QED BY <1>1, <1>3, <2>1 DEF Handshake
<1>4. CASE PeerConnected(p)
    <2>1. \A q \in Peer : conn'[q].status = [conn EXCEPT ![p].status = "connected"][q].status
        BY <1>4, PeerConnectedEffect DEF Offering
    <2>2. CASE UNCHANGED <<downloadPeer, estimated>>
        <3>1. downloadPeer \in Peer /\ Holds(conn) => Holds(conn')
            BY <2>1, <2>2 DEF TypeOK, Connections
        <3> QED BY <1>1, <2>2, <3>1
    <2>3. CASE /\ downloadPeer' \in Peer
               /\ conn'[downloadPeer'].status \in AreUp
               /\ estimated' = Reported[downloadPeer']
        BY <2>3, ManagerAssumption DEF DownloadPeerHeld, AreUp
    <2> QED BY <1>4, <2>2, <2>3, PeerConnectedEffect
<1>5. ASSUME NEW pub, Offering(conn, conn', pub), UNCHANGED <<downloadPeer, estimated>>
      PROVE  DownloadPeerHeld'
    BY <1>1, <1>5 DEF Offering
<1>6. ASSUME Quieting(conn, conn'), UNCHANGED <<downloadPeer, estimated>>
      PROVE  DownloadPeerHeld'
    BY <1>1, <1>6 DEF Quieting
<1>7. CASE ExtendChain(p)
    <2>1. downloadPeer' = downloadPeer /\ estimated' \in Int /\ estimated <= estimated'
        BY <1>7 DEF ExtendChain, TypeOK
    <2>2. \A q \in Peer : conn'[q].status = conn[q].status
        BY <1>7, ExtendChainEffect DEF Offering
    <2>3. \A q \in Peer : Reported[q] \in Int
        BY ManagerAssumption
    <2> QED BY <2>1, <2>2, <2>3 DEF DownloadPeerHeld, TypeOK
<1>8. CASE DropBlock(p)
    BY <1>5, <1>8, ArmedOffers DEF DropBlock, TypeOK
<1>9. CASE Misbehave(p)
    BY <1>5, <1>9, ShutOffers DEF Misbehave, TypeOK
<1>10. CASE MempoolAnswered(p)
    BY <1>5, <1>10, MempoolAnsweredEffect DEF MempoolAnswered
<1>11. CASE Pong(p) \/ Flush(p)
    <2>1. UNCHANGED <<downloadPeer, estimated>>
        BY <1>11 DEF Pong, Flush
    <2> QED BY <1>5, <1>6, <1>11, <2>1, PongEffect
<1>12. ASSUME NEW T, conn' \in {Relieved(p, T), Armed(conn, {p})},
              UNCHANGED <<downloadPeer, estimated>>
       PROVE  DownloadPeerHeld'
    <2>1. conn \in [Peer -> Connections]
        BY DEF TypeOK
    <2>2. CASE conn' = Armed(conn, {p})
        BY <1>5, <1>12, <2>1, <2>2, ArmedOffers
    <2>3. CASE conn' = Relieved(p, T)
        BY <1>1, <1>6, <1>12, <2>3, RelievedEffect
    <2> QED BY <1>12, <2>2, <2>3
<1>13. CASE \E t \in Tx : HasTx(p, t) \/ RequestTx(p, t)
    BY <1>12, <1>13 DEF HasTx, RequestTx
<1>14. CASE HasOtherTx(p)
    <2>1. conn' \in {Relieved(p, {}), Armed(conn, {p})} /\ UNCHANGED <<downloadPeer, estimated>>
        BY <1>14 DEF HasOtherTx
    <2> QED BY <1>12, <2>1
<1>15. ASSUME NEW e \in Errors, Leave(p, e)
       PROVE  DownloadPeerHeld'
    <2>1. downloadPeer \in Peer /\ Holds(conn) => Holds(conn')
        BY <1>15, LeaveEffect
    <2> QED BY <1>1, <1>15, <2>1 DEF Leave
<1>16. CASE LeaveClosed(p) \/ TimeOut(p) \/ Fail(p)
    BY <1>15, <1>16 DEF LeaveClosed, TimeOut, Fail, Errors
<1>17. CASE Disconnected(p)
    <2>1. CASE p = downloadPeer
        BY <1>17, <2>1 DEF Disconnected, DownloadPeerHeld
    <2>2. CASE p # downloadPeer
        <3>1. UNCHANGED <<downloadPeer, estimated>>
            BY <1>17, <2>2 DEF Disconnected
        <3>2. downloadPeer \in Peer => conn'[downloadPeer] = conn[downloadPeer]
            BY <1>17, <2>2 DEF Disconnected, TypeOK
        <3> QED BY <1>1, <3>1, <3>2
    <2> QED BY <2>1, <2>2
<1> QED BY <1>2, <1>3, <1>4, <1>7, <1>8, <1>9, <1>10, <1>11, <1>13, <1>14, <1>16, <1>17
        DEF PeerThread

(* No step does.                                                           *)
LEMMA DownloadPeerStep ==
    ASSUME TypeOK, DownloadPeerHeld, [Next]_vars
    PROVE  DownloadPeerHeld'
<1> USE DEF syncVars, publishVars, callVars
<1>1. ASSUME UNCHANGED <<downloadPeer, estimated>>,
             downloadPeer \in Peer /\ conn[downloadPeer].status \in {"shaken", "connected", "leaving"}
             => conn'[downloadPeer].status = conn[downloadPeer].status
      PROVE  DownloadPeerHeld'
    BY <1>1 DEF DownloadPeerHeld, TypeOK
<1>2. ASSUME NEW a \in Actors, Connecting(a)
      PROVE  DownloadPeerHeld'
    BY <1>1, <1>2, ConnectingEffect DEF Filling
<1>3. ASSUME NEW pub, Offering(conn, conn', pub), UNCHANGED <<downloadPeer, estimated>>
      PROVE  DownloadPeerHeld'
    BY <1>1, <1>3 DEF Offering
<1>4. CASE App
    <2>1. CASE AppConnect \/ AppDisconnected
        BY <1>1, <2>1 DEF AppConnect, AppDisconnected
    <2>2. CASE AppDisconnect
        BY <1>3, <2>2, ShutOffers DEF AppDisconnect, TypeOK
    <2>3. CASE AppRescan
        BY <1>3, <2>3, ShutOffers DEF AppRescan, TypeOK
    <2>4. ASSUME NEW t \in Tx, AppPublish(t) \/ AppPublishes(t)
          PROVE  DownloadPeerHeld'
        BY <1>1, <1>3, <2>4, PublishEffect DEF AppPublish, AppPublishes
    <2> QED BY <1>4, <2>1, <2>2, <2>3, <2>4 DEF App
<1>5. CASE NetworkChanges \/ UNCHANGED vars
    BY <1>1, <1>5 DEF NetworkChanges, vars
<1> QED BY <1>2, <1>4, <1>5, DownloadPeerThread DEF Next

-----------------------------------------------------------------------------
(* The answers to publishes *)

(* A callback that waits was not called yet.                               *)
LEMMA AppendsToNothing ==
    ASSUME NEW t \in Tx, NEW r \in {"ok", "failed"}, TypeOK, Answers, Answer(t, r)
    PROVE  /\ t \in Pending => told' = [told EXCEPT ![t] = <<r>>]
           /\ t \notin Pending => told' = told
<1>1. t \in Pending => told[t] = <<>>
    BY DEF Pending, Waiting, Answers
<1>2. Append(<<>>, r) = <<r>>
    OBVIOUS
<1> QED BY <1>1, <1>2 DEF Answer

(* The answers are three.                                                  *)
LEMMA DistinctAnswers == <<>> # <<"ok">> /\ <<>> # <<"failed">> /\ <<"ok">> # <<"failed">>
OBVIOUS

(* Every step keeps the answers consistent with what is sent.              *)
LEMMA AnswersStep ==
    ASSUME TypeOK, Answers, [Next]_vars
    PROVE  Answers'
<1> USE DEF syncVars, publishVars, callVars
<1>1. CASE UNCHANGED publishVars
    BY <1>1 DEF Answers
<1>2. ASSUME NEW p \in Peer, ExtendChain(p)
      PROVE  Answers'
    BY <1>2 DEF ExtendChain, Answers, TypeOK
<1>3. ASSUME NEW p \in Peer, NEW t \in Tx, HasTx(p, t)
      PROVE  Answers'
    <2>1. /\ Answer(t, "ok") /\ UNCHANGED sent
          /\ published' = [published EXCEPT ![t] = IF t \in Listed(published) THEN "quiet" ELSE @]
          /\ t \in sent
        BY <1>3 DEF HasTx
    <2>2. told[t] = <<"ok">>
        BY <2>1 DEF Answers
    <2>3. t \notin Pending
        BY <2>2, DistinctAnswers DEF Answers, Pending, Waiting
    <2>4. told' = told
        BY <2>1, <2>3, AppendsToNothing
    <2> QED BY <2>1, <2>2, <2>4, DistinctAnswers DEF Answers, TypeOK
<1>4. ASSUME NEW p \in Peer, NEW t \in Tx, RequestTx(p, t)
      PROVE  Answers'
    <2>1. published[t] \in {"pending", "quiet"} /\ (t \in Pending <=> published[t] = "pending")
        BY <1>4 DEF RequestTx, Listed, Pending, Waiting
    <2>2. CASE /\ Answer(t, "ok")
               /\ published' = [published EXCEPT ![t] = "quiet"]
               /\ sent' = sent \cup {t}
        <3>1. told' = [told EXCEPT ![t] = <<"ok">>]
            BY <2>1, <2>2, AppendsToNothing DEF Answers, TypeOK
        <3> QED BY <2>2, <3>1, DistinctAnswers DEF Answers, TypeOK
    <2>3. CASE /\ Answer(t, "failed")
               /\ published' = [published EXCEPT ![t] = "none"]
               /\ UNCHANGED sent
        <3>1. CASE published[t] = "pending"
            <4>1. told' = [told EXCEPT ![t] = <<"failed">>] /\ told[t] = <<>>
                BY <2>1, <2>3, <3>1, AppendsToNothing DEF Answers
            <4>2. t \notin sent
                BY <4>1, DistinctAnswers DEF Answers
            <4> QED BY <2>3, <4>1, <4>2, DistinctAnswers DEF Answers, TypeOK
        <3>2. CASE published[t] = "quiet"
            <4>1. told' = told
                BY <2>1, <2>3, <3>2, AppendsToNothing
            <4> QED BY <2>3, <3>2, <4>1, DistinctAnswers DEF Answers, TypeOK
        <3> QED BY <2>1, <3>1, <3>2
    <2> QED BY <1>4, <2>2, <2>3 DEF RequestTx
<1>5. ASSUME NEW p \in Peer, Disconnected(p)
      PROVE  Answers'
    <2>1. PICK cancel \in BOOLEAN :
              /\ published' = [t \in Tx |-> IF cancel /\ t \in Pending THEN "none" ELSE published[t]]
              /\ told' = [t \in Tx |-> IF cancel /\ t \in Pending THEN Append(told[t], "failed")
                                       ELSE told[t]]
              /\ UNCHANGED sent
        <3> DEFINE gaveUp == downloadPeer \in {NoPeer, p} /\ failures' = MaxFailures
                   c == \/ gaveUp
                        \/ /\ conn[p].error = "timeout"
                           /\ p # downloadPeer \/ ~syncing \/ Held = {p}
        <3>1. c \in BOOLEAN
            OBVIOUS
        <3>2. /\ published' = [t \in Tx |-> IF c /\ t \in Pending THEN "none" ELSE published[t]]
              /\ told' = [t \in Tx |-> IF c /\ t \in Pending THEN Append(told[t], "failed")
                                       ELSE told[t]]
              /\ UNCHANGED sent
            BY <1>5 DEF Disconnected
        <3> HIDE DEF c
        <3> QED BY <3>1, <3>2
    <2>2. Append(<<>>, "failed") = <<"failed">>
        OBVIOUS
    <2>3. ASSUME NEW t \in Tx, cancel, t \in Pending
          PROVE  published'[t] = "none" /\ told'[t] = <<"failed">> /\ t \notin sent'
        <3>1. told[t] = <<>>
            BY <2>3 DEF Answers, Pending, Waiting
        <3> QED BY <2>1, <2>2, <2>3, <3>1, DistinctAnswers DEF Answers
    <2>4. ASSUME NEW t \in Tx, ~(cancel /\ t \in Pending)
          PROVE  published'[t] = published[t] /\ told'[t] = told[t] /\ (t \in sent' <=> t \in sent)
        BY <2>1, <2>4
    <2> QED BY <2>3, <2>4, DistinctAnswers DEF Answers
<1>6. ASSUME NEW t \in Tx, Publish(t), told[t] = <<>>, UNCHANGED <<told, sent>>
      PROVE  Answers'
    <2>1. published' = [published EXCEPT ![t] = "pending"]
        BY <1>6 DEF Publish
    <2> QED BY <1>6, <2>1, DistinctAnswers DEF Answers, TypeOK
<1>7. ASSUME NEW t \in Tx, AppPublish(t)
      PROVE  Answers'
    <2>1. published[t] = "none" /\ told[t] = <<>> /\ UNCHANGED sent /\ t \notin sent
        BY <1>7, DistinctAnswers DEF AppPublish, Answers
    <2>2. CASE Publish(t) /\ UNCHANGED told
        BY <1>6, <2>1, <2>2
    <2>3. CASE told' = [told EXCEPT ![t] = <<"failed">>] /\ UNCHANGED published
        BY <2>1, <2>3, DistinctAnswers DEF Answers, TypeOK
    <2>4. CASE published' = [published EXCEPT ![t] = "checked"] /\ UNCHANGED told
        BY <2>1, <2>4, DistinctAnswers DEF Answers, TypeOK
    <2> QED BY <1>7, <2>2, <2>3, <2>4 DEF AppPublish
<1>8. ASSUME NEW t \in Tx, AppPublishes(t)
      PROVE  Answers'
    BY <1>6, <1>8 DEF AppPublishes, Answers
<1>9. CASE App
    BY <1>1, <1>7, <1>8, <1>9
    DEF App, AppConnect, AppDisconnect, AppDisconnected, AppRescan
<1>10. ASSUME NEW p \in Peer, PeerThread(p)
       PROVE  Answers'
    <2>1. CASE LeaveClosed(p) \/ TimeOut(p) \/ Fail(p)
        BY <1>1, <2>1 DEF LeaveClosed, TimeOut, Fail, Leave
    <2>2. CASE OpenSocket(p) \/ Handshake(p) \/ PeerConnected(p)
        BY <1>1, <2>2 DEF OpenSocket, Handshake, PeerConnected
    <2>3. CASE DropBlock(p) \/ Misbehave(p) \/ MempoolAnswered(p) \/ Pong(p) \/ Flush(p) \/ HasOtherTx(p)
        BY <1>1, <2>3 DEF DropBlock, Misbehave, MempoolAnswered, Pong, Flush, HasOtherTx
    <2> QED BY <1>2, <1>3, <1>4, <1>5, <1>10, <2>1, <2>2, <2>3 DEF PeerThread
<1>11. ASSUME NEW a \in Actors, Connecting(a)
       PROVE  Answers'
    BY <1>1, <1>11, ConnectingEffect
<1>12. CASE NetworkChanges \/ UNCHANGED vars
    BY <1>1, <1>12 DEF NetworkChanges, vars
<1> QED BY <1>9, <1>10, <1>11, <1>12 DEF Next

(* With the answers consistent, none is given twice.                       *)
LEMMA AnswersImplyToldOnce ==
    ASSUME TypeOK, Answers
    PROVE  ToldOnce
<1>1. \A t \in Tx : Len(told[t]) <= 1
    <2>1. Len(<<>>) <= 1 /\ Len(<<"ok">>) <= 1 /\ Len(<<"failed">>) <= 1
        OBVIOUS
    <2> QED BY <2>1 DEF Answers
<1> QED BY <1>1, DistinctAnswers DEF Answers, ToldOnce, Listed

-----------------------------------------------------------------------------
(* The timers of peers that were told of a publish *)

(* Offering leaves each peer that was told of a publish its timer.         *)
LEMMA OfferingKeepsTimers ==
    ASSUME NEW c \in [Peer -> Connections], NEW d, NEW pub, NEW tl,
           Offering(c, d, pub), Known(c, pub, tl), Timely(c, pub),
           \A t \in Tx : pub[t] = "quiet" => tl[t] # <<>>
    PROVE  Known(d, pub, tl) /\ Timely(d, pub)
<1>1. ASSUME NEW q \in Peer, d[q].offered = c[q].offered
      PROVE  /\ d[q].status \notin {"shaken", "connected"} => d[q].offered = {}
             /\ \A t \in d[q].offered : pub[t] = "pending" \/ tl[t] # <<>>
             /\ d[q].status \in {"shaken", "connected"} /\ d[q].offered \cap Waiting(pub) # {}
                => d[q].timer
    BY <1>1 DEF Offering, Known, Timely
<1>2. ASSUME NEW q \in Peer, c[q].status \in AreUp,
             d[q].offered = c[q].offered \cup Listed(pub), Waiting(pub) # {} => d[q].timer
      PROVE  /\ d[q].status \notin {"shaken", "connected"} => d[q].offered = {}
             /\ \A t \in d[q].offered : pub[t] = "pending" \/ tl[t] # <<>>
             /\ d[q].status \in {"shaken", "connected"} /\ d[q].offered \cap Waiting(pub) # {}
                => d[q].timer
    BY <1>2 DEF Offering, Known, AreUp, Listed
<1> QED BY <1>1, <1>2 DEF Offering, Known, Timely

(* With nobody waiting, timers may be cancelled.                           *)
LEMMA QuietingKeepsTimers ==
    ASSUME NEW c, NEW d, NEW pub, NEW tl, Quieting(c, d), Known(c, pub, tl), Waiting(pub) = {}
    PROVE  Known(d, pub, tl) /\ Timely(d, pub)
BY DEF Quieting, Known, Timely

(* Publishes that end leave the rest as it was.                            *)
LEMMA FewerWait ==
    ASSUME NEW c, NEW pub, NEW pub2, NEW tl, NEW tl2, Known(c, pub, tl), Timely(c, pub),
           c \in [Peer -> Connections],
           \A t \in Tx : /\ pub[t] = "pending" => pub2[t] = "pending" \/ tl2[t] # <<>>
                         /\ tl[t] # <<>> => tl2[t] # <<>>
                         /\ pub2[t] = "pending" => pub[t] = "pending"
    PROVE  Known(c, pub2, tl2) /\ Timely(c, pub2)
<1>1. \A q \in Peer : c[q].offered \subseteq Tx
    BY DEF Connections
<1>2. Waiting(pub2) \subseteq Waiting(pub)
    BY DEF Waiting
<1> QED BY <1>1, <1>2 DEF Known, Timely

(* A peer's thread never cancels a timer that a publish needs.             *)
LEMMA TimersThread ==
    ASSUME TypeOK, TypeOK', Answers, Answers', Known(conn, published, told), Timely(conn, published),
           NEW p \in Peer, PeerThread(p)
    PROVE  Known(conn', published', told') /\ Timely(conn', published')
<1> USE DEF syncVars, publishVars, callVars
<1> DEFINE Kept == Known(conn', published', told') /\ Timely(conn', published')
<1>t. conn \in [Peer -> Connections]
    BY DEF TypeOK
<1>q. /\ \A t \in Tx : published[t] = "quiet" => told[t] # <<>>
      /\ \A t \in Tx : published'[t] = "quiet" => told'[t] # <<>>
    BY DistinctAnswers DEF Answers
<1>1. ASSUME Offering(conn, conn', published), UNCHANGED <<published, told>>
      PROVE  Kept
    BY <1>1, <1>t, <1>q, OfferingKeepsTimers
<1>2. ASSUME Quieting(conn, conn'), Pending = {}, UNCHANGED <<published, told>>
      PROVE  Kept
    BY <1>2, QuietingKeepsTimers DEF Pending
<1>3. ASSUME UNCHANGED <<published, told>>, \A q \in Peer \ {p} : conn'[q] = conn[q],
             conn'[p].offered = {}
      PROVE  Kept
    BY <1>3 DEF Known, Timely
<1>4. CASE OpenSocket(p)
    <2>1. conn'[p].offered = {} /\ \A q \in Peer \ {p} : conn'[q] = conn[q]
        BY <1>4, <1>t DEF OpenSocket, Known, Connections
    <2> QED BY <1>3, <1>4, <2>1 DEF OpenSocket
<1>5. CASE Handshake(p)
    <2>1. conn[p].offered = {}
        BY <1>5 DEF Handshake, Known
    <2>2. conn'[p].offered = conn[p].offered /\ \A q \in Peer \ {p} : conn'[q] = conn[q]
        BY <1>5, <1>t DEF Handshake, Connections
    <2> QED BY <1>3, <1>5, <2>1, <2>2 DEF Handshake
<1>6. CASE PeerConnected(p)
    <2> DEFINE c == [conn EXCEPT ![p].status = "connected"]
    <2>1. conn[p].status = "shaken" /\ Offering(c, conn', published)
        BY <1>6, PeerConnectedEffect
    <2>2. c \in [Peer -> Connections]
        BY <1>t DEF Connections, Statuses
    <2>3. /\ \A q \in Peer : c[q].offered = conn[q].offered /\ c[q].timer = conn[q].timer
          /\ \A q \in Peer \ {p} : c[q].status = conn[q].status
          /\ c[p].status = "connected"
        BY <1>t DEF Connections
    <2> HIDE DEF c
    <2>4. Known(c, published, told) /\ Timely(c, published)
        BY <2>1, <2>3 DEF Known, Timely
    <2>5. Known(conn', published, told) /\ Timely(conn', published)
        BY <1>q, <2>1, <2>2, <2>4, OfferingKeepsTimers
    <2> QED BY <1>6, <2>5 DEF PeerConnected
<1>7. CASE ExtendChain(p)
    <2>1. Known(conn, published', told') /\ Timely(conn, published')
        <3>1. told' = told
            BY <1>7 DEF ExtendChain
        <3>2. \A t \in Tx : (published[t] = "pending") <=> (published'[t] = "pending")
            BY <1>7 DEF ExtendChain, TypeOK
        <3> QED BY <1>t, <3>1, <3>2, FewerWait
    <2> QED BY <1>7, <1>t, <1>q, <2>1, ExtendChainEffect, OfferingKeepsTimers
<1>8. CASE DropBlock(p)
    BY <1>1, <1>8, <1>t, ArmedOffers DEF DropBlock
<1>9. CASE Misbehave(p)
    BY <1>1, <1>9, <1>t, ShutOffers DEF Misbehave
<1>10. CASE MempoolAnswered(p)
    BY <1>1, <1>10, MempoolAnsweredEffect DEF MempoolAnswered
<1>11. CASE Pong(p) \/ Flush(p)
    <2>1. UNCHANGED <<published, told>>
        BY <1>11 DEF Pong, Flush
    <2> QED BY <1>1, <1>2, <1>11, <2>1, PongEffect
<1>12. ASSUME NEW T, Known(conn, published', told'), Timely(conn, published'),
              Waiting(published') \subseteq Pending \ T,
              conn' = Relieved(p, T) \/ conn' = Armed(conn, {p})
       PROVE  Kept
    <2>1. CASE conn' = Armed(conn, {p})
        <3>1. Offering(conn, conn', published')
            BY <1>t, <2>1, ArmedOffers
        <3> QED BY <1>12, <1>t, <1>q, <3>1, OfferingKeepsTimers
    <2>2. CASE conn' = Relieved(p, T)
        <3>1. CASE conn' = conn
            BY <1>12, <3>1
        <3>2. CASE Quieting(conn, conn') /\ Pending \subseteq T
            <4>1. Waiting(published') = {}
                BY <1>12, <3>2
            <4> QED BY <1>12, <3>2, <4>1, QuietingKeepsTimers
        <3> QED BY <2>2, <3>1, <3>2, RelievedEffect
    <2> QED BY <1>12, <2>1, <2>2
<1>13. ASSUME NEW t \in Tx, HasTx(p, t) \/ RequestTx(p, t)
       PROVE  Kept
    <2>1. \A u \in Tx \ {t} : published'[u] = published[u] /\ told'[u] = told[u]
        BY <1>13 DEF HasTx, RequestTx, Answer, TypeOK
    <2>2. published'[t] # "pending"
        BY <1>13 DEF HasTx, RequestTx, Listed, TypeOK
    <2>3. /\ published[t] = "pending" => told'[t] # <<>>
          /\ told[t] # <<>> => told'[t] # <<>>
        <3>1. CASE t \in Pending
            <4>1. told[t] = <<>> /\ \E r \in {"ok", "failed"} : Answer(t, r)
                BY <1>13, <3>1 DEF HasTx, RequestTx, Answers, Pending, Waiting
            <4>2. \E r \in {"ok", "failed"} : told'[t] = <<r>>
                BY <3>1, <4>1, AppendsToNothing DEF TypeOK
            <4> QED BY <4>2, DistinctAnswers
        <3>2. CASE t \notin Pending
            <4>1. told' = told
                BY <1>13, <3>2 DEF HasTx, RequestTx, Answer
            <4> QED BY <3>2, <4>1 DEF Pending, Waiting
        <3> QED BY <3>1, <3>2
    <2>4. Known(conn, published', told') /\ Timely(conn, published')
        BY <1>t, <2>1, <2>2, <2>3, FewerWait
    <2>5. Waiting(published') \subseteq Pending \ {t}
        BY <2>1, <2>2 DEF Waiting, Pending
    <2>6. conn' = Relieved(p, {t}) \/ conn' = Armed(conn, {p})
        BY <1>13 DEF HasTx, RequestTx
    <2> QED BY <1>12, <2>4, <2>5, <2>6
<1>14. CASE HasOtherTx(p)
    <2>1. UNCHANGED <<published, told>> /\ (conn' = Relieved(p, {}) \/ conn' = Armed(conn, {p}))
        BY <1>14 DEF HasOtherTx
    <2>2. Waiting(published') \subseteq Pending \ {}
        BY <2>1 DEF Pending
    <2> QED BY <1>12, <2>1, <2>2
<1>15. ASSUME NEW e \in Errors, Leave(p, e)
       PROVE  Kept
    BY <1>3, <1>15, LeaveEffect DEF Leave
<1>16. CASE LeaveClosed(p) \/ TimeOut(p) \/ Fail(p)
    BY <1>15, <1>16 DEF LeaveClosed, TimeOut, Fail, Errors
<1>17. CASE Disconnected(p)
    <2>1. conn'[p].offered = {} /\ \A q \in Peer \ {p} : conn'[q] = conn[q]
        BY <1>17, <1>t DEF Disconnected, Closed
    <2>2. ASSUME NEW t \in Tx
          PROVE  /\ published[t] = "pending" => published'[t] = "pending" \/ told'[t] # <<>>
                 /\ told[t] # <<>> => told'[t] # <<>>
                 /\ published'[t] = "pending" => published[t] = "pending"
        <3>1. \/ published'[t] = published[t] /\ told'[t] = told[t]
              \/ published'[t] = "none" /\ told'[t] = Append(told[t], "failed") /\ told[t] = <<>>
            BY <1>17 DEF Disconnected, Answers, Pending, Waiting
        <3>2. Append(<<>>, "failed") # <<>>
            OBVIOUS
        <3> QED BY <3>1, <3>2
    <2>3. Known(conn, published', told') /\ Timely(conn, published')
        BY <1>t, <2>2, FewerWait
    <2> QED BY <2>1, <2>3 DEF Known, Timely
<1> QED BY <1>4, <1>5, <1>6, <1>7, <1>8, <1>9, <1>10, <1>11, <1>13, <1>14, <1>16, <1>17
        DEF PeerThread

(* No step does.                                                           *)
LEMMA TimersStep ==
    ASSUME TypeOK, TypeOK', Answers, Answers', Known(conn, published, told), Timely(conn, published),
           [Next]_vars
    PROVE  Known(conn', published', told') /\ Timely(conn', published')
<1> USE DEF syncVars, publishVars, callVars
<1> DEFINE Kept == Known(conn', published', told') /\ Timely(conn', published')
<1>t. conn \in [Peer -> Connections]
    BY DEF TypeOK
<1>q. /\ \A t \in Tx : published[t] = "quiet" => told[t] # <<>>
      /\ \A t \in Tx : published'[t] = "quiet" => told'[t] # <<>>
    BY DistinctAnswers DEF Answers
<1>1. ASSUME NEW a \in Actors, Connecting(a)
      PROVE  Kept
    <2>1. Filling(conn, conn') /\ UNCHANGED <<published, told>>
        BY <1>1, ConnectingEffect
    <2> QED BY <2>1 DEF Filling, Known, Timely
<1>2. ASSUME Offering(conn, conn', published), UNCHANGED <<published, told>>
      PROVE  Kept
    BY <1>2, <1>t, <1>q, OfferingKeepsTimers
<1>3. CASE AppConnect \/ AppDisconnected \/ NetworkChanges \/ UNCHANGED vars
    BY <1>3 DEF AppConnect, AppDisconnected, NetworkChanges, vars
<1>4. CASE AppDisconnect
    BY <1>2, <1>4, <1>t, ShutOffers DEF AppDisconnect
<1>5. CASE AppRescan
    BY <1>2, <1>5, <1>t, ShutOffers DEF AppRescan
<1>6. ASSUME NEW t \in Tx, Publish(t), published[t] # "pending", told[t] = <<>>, UNCHANGED told
      PROVE  Kept
    <2>1. published' = [published EXCEPT ![t] = "pending"] /\ Offering(conn, conn', published')
        BY <1>6, PublishEffect
    <2>2. \A q \in Peer : t \notin conn[q].offered /\ conn[q].offered \subseteq Tx
        BY <1>6, <1>t DEF Known, Connections
    <2>3. \A u \in Tx \ {t} : published'[u] = published[u]
        BY <2>1 DEF TypeOK
    <2>4. Waiting(published') \subseteq Waiting(published) \cup {t}
        BY <2>3 DEF Waiting
    <2>5. Known(conn, published', told')
        BY <1>6, <2>2, <2>3 DEF Known
    <2>6. Timely(conn, published')
        BY <2>2, <2>4 DEF Timely
    <2> QED BY <1>t, <1>q, <2>1, <2>5, <2>6, OfferingKeepsTimers
<1>7. ASSUME NEW t \in Tx, AppPublish(t)
      PROVE  Kept
    <2>1. published[t] = "none" /\ told[t] = <<>>
        BY <1>7 DEF AppPublish
    <2>2. CASE Publish(t) /\ UNCHANGED told
        BY <1>6, <2>1, <2>2
    <2>3. CASE told' = [told EXCEPT ![t] = <<"failed">>] /\ UNCHANGED <<conn, published>>
        <3>1. \A u \in Tx : told[u] # <<>> => told'[u] # <<>>
            BY <2>3, DistinctAnswers DEF TypeOK
        <3> QED BY <1>t, <2>3, <3>1, FewerWait
    <2>4. CASE published' = [published EXCEPT ![t] = "checked"] /\ UNCHANGED <<conn, told>>
        <3>1. \A u \in Tx : (published[u] = "pending") <=> (published'[u] = "pending")
            BY <2>1, <2>4 DEF TypeOK
        <3> QED BY <1>t, <2>4, <3>1, FewerWait
    <2> QED BY <1>7, <2>2, <2>3, <2>4 DEF AppPublish
<1>8. ASSUME NEW t \in Tx, AppPublishes(t)
      PROVE  Kept
    BY <1>6, <1>8 DEF AppPublishes, Answers
<1> QED BY <1>1, <1>3, <1>4, <1>5, <1>7, <1>8, TimersThread DEF Next, App

(* The property, for the current state.                                    *)
LEMMA TimelyImpliesOfferIsTimed ==
    ASSUME Timely(conn, published)
    PROVE  OfferIsTimed
BY DEF Timely, OfferIsTimed, Up, Pending

-----------------------------------------------------------------------------
(* Syncs that are in progress *)

(* As long as its Connect goes on, a sync has somebody to drive it.        *)
LEMMA FillDrives ==
    ASSUME TypeOK, NEW c, Filling(conn, c), \A q \in Peer \ Held : c[q] = conn[q],
           NEW a, NEW k \in Points, At(a, k), Fill(c, a, k)
    PROVE  syncing' => syncing /\ Held' # {}
<1>1. PICK new \in SUBSET (Peer \ Held) : conn' = Started(c, new)
                                          /\ syncing' = (syncing /\ Held \cup new # {})
    BY DEF Fill
<1>2. Filling(conn, conn')
    BY FillEffect
<1>3. \A q \in new : q \in Peer /\ conn'[q].status \in {"waiting", "opening"}
    BY <1>1 DEF Started, Each, Closed
<1>4. \A q \in Held : q \in Peer /\ conn'[q].status # "none"
    BY <1>2 DEF Filling, Held
<1>5. Held \cup new \subseteq Held'
    BY <1>3, <1>4 DEF Held
<1> QED BY <1>1, <1>5

(* A Connect that released the lock is at one of its points.               *)
LEMMA GoneOnDrives ==
    ASSUME TypeOK, TypeOK', NEW a, NEW k \in Points, NEW l \in Points, At(a, k), GoOn(a, k, l)
    PROVE  Running' > 0 \/ app' \in Points
<1>1. threads'[l] > 0 \/ app' = l
    BY GoOnTyped
<1>2. threads' \in [Points -> Nat]
    BY DEF TypeOK
<1>3. CASE threads'[l] > 0
    BY <1>2, <1>3 DEF Running, Points
<1> QED BY <1>1, <1>3

(* The same, with or without a DNS lookup before.                          *)
LEMMA OpenDrives ==
    ASSUME TypeOK, TypeOK', NEW a, NEW k \in Points, At(a, k), Open(a, k)
    PROVE  syncing' => syncing /\ (Held' # {} \/ Running' > 0 \/ app' \in Points)
<1>1. CASE Fill(Woken, a, k)
    BY <1>1, WokenFills, FillDrives
<1>2. CASE GoOn(a, k, "fill") /\ UNCHANGED syncing
    BY <1>2, GoneOnDrives DEF Points
<1> QED BY <1>1, <1>2 DEF Open

(* BRPeerManagerConnect leaves a sync a driver, or ends it.                *)
LEMMA ConnectingDrives ==
    ASSUME TypeOK, TypeOK', NEW a, Connecting(a), GivenUp
    PROVE  /\ syncing' => Held' # {} \/ Running' > 0 \/ app' \in Points
           /\ GivenUp'
<1>0. UNCHANGED <<downloadPeer, left>>
    BY ConnectingEffect
<1>1. CASE Connect(a)
    <2>1. failures' < MaxFailures
        BY <1>1, ManagerAssumption DEF Connect, TypeOK
    <2>2. GivenUp'
        BY <2>1, ManagerAssumption DEF GivenUp, TypeOK
    <2>3. At(a, "connect") /\ {"connect", "started"} \subseteq Points
        BY <1>1 DEF Connect, Points
    <2>4. CASE GoOn(a, "connect", "started")
        BY <2>2, <2>3, <2>4, GoneOnDrives
    <2>5. CASE Open(a, "connect")
        BY <2>2, <2>3, <2>5, OpenDrives
    <2> QED BY <1>1, <2>4, <2>5 DEF Connect
<1>2. ASSUME NEW k \in {"started", "fill"}, At(a, k), UNCHANGED failures, syncing' => syncing,
             \E l \in Points \cup {"idle"} : GoOn(a, k, l)
      PROVE  GivenUp'
    BY <1>0, <1>2 DEF GivenUp, At, GoOn
<1>3. CASE ConnectStarted(a)
    <2>1. Open(a, "started") /\ At(a, "started") /\ UNCHANGED failures
        BY <1>3 DEF ConnectStarted
    <2>2. \E l \in Points \cup {"idle"} : GoOn(a, "started", l)
        BY <2>1 DEF Open, Fill, Points
    <2> QED BY <1>2, <2>1, <2>2, OpenDrives DEF Points
<1>4. CASE ConnectFill(a)
    <2>1. Fill(conn, a, "fill") /\ At(a, "fill") /\ UNCHANGED failures
        BY <1>4 DEF ConnectFill
    <2>2. \E l \in Points \cup {"idle"} : GoOn(a, "fill", l)
        BY <2>1 DEF Fill
    <2>3. Filling(conn, conn)
        BY DEF Filling, TypeOK
    <2> QED BY <1>2, <2>1, <2>2, <2>3, FillDrives DEF Points
<1> QED BY <1>1, <1>3, <1>4 DEF Connecting

(* A peer's thread ends a sync when it gives up, or leaves one to drive it. *)
LEMMA DisconnectedDrives ==
    ASSUME TypeOK, TypeOK', DownloadPeerHeld, GivenUp, SyncHasDriver,
           NEW p \in Peer, Disconnected(p)
    PROVE  SyncHasDriver' /\ GivenUp'
<1> DEFINE gaveUp == downloadPeer \in {NoPeer, p} /\ failures' = MaxFailures
<1>1. /\ syncing' = (syncing /\ ~gaveUp)
      /\ downloadPeer' = (IF p = downloadPeer THEN NoPeer ELSE downloadPeer)
      /\ threads' = [threads EXCEPT !["connect"] = @ + (IF failures' < MaxFailures THEN 1 ELSE 0)]
      /\ failures' = FailuresAfter(p)
      /\ UNCHANGED <<app, left>>
      /\ conn' = [conn EXCEPT ![p] = Closed]
    BY DEF Disconnected
<1>2. failures \in Nat /\ failures' \in Nat /\ MaxFailures \in Nat \ {0} /\ NoPeer \notin Peer
    BY ManagerAssumption DEF TypeOK
<1>3. /\ failures' > MaxFailures => p # downloadPeer
      /\ p # downloadPeer => failures' <= failures + 1
    BY <1>1, <1>2 DEF FailuresAfter, Failed
<1>4. GivenUp'
    <2> SUFFICES ASSUME failures' >= MaxFailures, downloadPeer' = NoPeer, syncing'
                 PROVE  left \/ app = "connect"
        BY <1>1 DEF GivenUp
    <2>1. downloadPeer \in {NoPeer, p} /\ syncing
        BY <1>1
    <2>2. failures' > MaxFailures
        <3>1. failures' # MaxFailures
            BY <1>1, <2>1
        <3> QED BY <1>2, <3>1
    <2>3. downloadPeer = NoPeer /\ failures >= MaxFailures
        BY <1>2, <1>3, <2>1, <2>2
    <2> QED BY <2>1, <2>3 DEF GivenUp
<1>5. SyncHasDriver'
    <2> SUFFICES ASSUME syncing', ~left, app \notin Points
                 PROVE  Held' # {} \/ Running' > 0
        BY <1>1 DEF SyncHasDriver
    <2>1. CASE failures' < MaxFailures
        <3>1. threads \in [Points -> Nat] /\ threads' \in [Points -> Nat] /\ "connect" \in Points
            BY DEF TypeOK, Points
        <3>2. threads'["connect"] > 0
            BY <1>1, <2>1, <3>1
        <3> QED BY <3>1, <3>2 DEF Running, Points
    <2>2. CASE failures' >= MaxFailures
        <3>1. downloadPeer' # NoPeer
            BY <1>1, <1>4, <2>2 DEF GivenUp, Points
        <3>2. downloadPeer \in Peer \ {p}
            BY <1>1, <3>1 DEF TypeOK
        <3>3. conn'[downloadPeer].status # "none"
            BY <1>1, <1>2, <3>2 DEF DownloadPeerHeld, TypeOK
        <3> QED BY <3>2, <3>3 DEF Held
    <2> QED BY <1>2, <2>1, <2>2
<1> QED BY <1>4, <1>5

(* What else a peer's thread does starts no sync, and keeps who is held.   *)
LEMMA ThreadDrives ==
    ASSUME TypeOK, TypeOK', DownloadPeerHeld, DownloadPeerHeld', GivenUp, SyncHasDriver,
           NEW p \in Peer, PeerThread(p)
    PROVE  SyncHasDriver' /\ GivenUp'
<1> USE DEF syncVars, publishVars, callVars
<1>t. conn \in [Peer -> Connections]
    BY DEF TypeOK
<1>1. ASSUME syncing' => syncing, \A q \in Held : q \in Held',
             UNCHANGED callVars, failures' \in {0, failures}, downloadPeer' \in {downloadPeer} \cup Peer
      PROVE  SyncHasDriver' /\ GivenUp'
    <2>1. SyncHasDriver'
        BY <1>1 DEF SyncHasDriver, Running
    <2>2. GivenUp'
        BY <1>1, ManagerAssumption DEF GivenUp, TypeOK
    <2> QED BY <2>1, <2>2
<1>2. ASSUME NEW c, \A q \in Held : c[q].status # "none",
             \A q \in Peer : conn'[q].status = c[q].status
      PROVE  \A q \in Held : q \in Held'
    BY <1>2 DEF Held
<1>3. CASE OpenSocket(p)
    <2>1. \A q \in Held : q \in Held'
        BY <1>3, <1>t DEF OpenSocket, Held, Connections
    <2> QED BY <1>1, <1>3, <2>1 DEF OpenSocket
<1>4. CASE Handshake(p)
    <2>1. \A q \in Held : q \in Held'
        BY <1>4, <1>t DEF Handshake, Held, Connections
    <2> QED BY <1>1, <1>4, <2>1 DEF Handshake
<1>5. CASE PeerConnected(p)
    <2> DEFINE c == [conn EXCEPT ![p].status = "connected"]
    <2>1. \A q \in Held : c[q].status # "none"
        BY <1>t DEF Held, Connections
    <2>2. \A q \in Peer : conn'[q].status = c[q].status
        BY <1>5, PeerConnectedEffect DEF Offering
    <2> HIDE DEF c
    <2>3. \A q \in Held : q \in Held'
        BY <1>2, <2>1, <2>2
    <2> QED BY <1>1, <1>5, <2>3, PeerConnectedEffect DEF PeerConnected
<1>6. ASSUME NEW pub, Offering(conn, conn', pub) \/ Quieting(conn, conn')
      PROVE  \A q \in Held : q \in Held'
    BY <1>6 DEF Offering, Quieting, Held
<1>7. CASE ExtendChain(p)
    BY <1>1, <1>6, <1>7, ExtendChainEffect DEF ExtendChain
<1>8. CASE DropBlock(p)
    BY <1>1, <1>6, <1>8, <1>t, ArmedOffers DEF DropBlock
<1>9. CASE Misbehave(p)
    BY <1>1, <1>6, <1>9, <1>t, ShutOffers DEF Misbehave
<1>10. CASE MempoolAnswered(p)
    BY <1>1, <1>6, <1>10, MempoolAnsweredEffect DEF MempoolAnswered
<1>11. CASE Pong(p) \/ Flush(p)
    <2>1. \A q \in Held : q \in Held'
        BY <1>6, <1>11, PongEffect
    <2>2. syncing' => syncing
        BY <1>11, PongEffect
    <2> QED BY <1>1, <1>11, <2>1, <2>2 DEF Pong, Flush
<1>12. CASE HasOtherTx(p) \/ \E t \in Tx : HasTx(p, t) \/ RequestTx(p, t)
    <2>1. PICK T : conn' = Relieved(p, T) \/ conn' = Armed(conn, {p})
        BY <1>12 DEF HasOtherTx, HasTx, RequestTx
    <2>2. \A q \in Held : q \in Held'
        <3>1. CASE conn' = Armed(conn, {p})
            BY <1>6, <1>t, <3>1, ArmedOffers
        <3>2. CASE conn' = Relieved(p, T)
            BY <1>6, <3>2, RelievedEffect DEF Held
        <3> QED BY <2>1, <3>1, <3>2
    <2> QED BY <1>1, <1>12, <2>2 DEF HasOtherTx, HasTx, RequestTx
<1>13. ASSUME NEW e \in Errors, Leave(p, e)
       PROVE  SyncHasDriver' /\ GivenUp'
    <2>1. \A q \in Held : q \in Held'
        BY <1>13, LeaveEffect DEF Held
    <2> QED BY <1>1, <1>13, <2>1 DEF Leave
<1>14. CASE LeaveClosed(p) \/ TimeOut(p) \/ Fail(p)
    BY <1>13, <1>14 DEF LeaveClosed, TimeOut, Fail, Errors
<1> QED BY <1>3, <1>4, <1>5, <1>7, <1>8, <1>9, <1>10, <1>11, <1>12, <1>14, DisconnectedDrives
        DEF PeerThread

(* No call of the app leaves a sync alone, unless it disconnects.          *)
LEMMA AppDrives ==
    ASSUME TypeOK, TypeOK', GivenUp, SyncHasDriver, App
    PROVE  SyncHasDriver' /\ GivenUp'
<1> USE DEF syncVars, publishVars, callVars
<1>t. conn \in [Peer -> Connections]
    BY DEF TypeOK
<1>1. ASSUME NEW pub, Offering(conn, conn', pub), UNCHANGED <<syncing, threads, left>>,
             app' \in {app, "publish", "idle"}, app \notin Points,
             UNCHANGED <<failures, downloadPeer>>
      PROVE  SyncHasDriver' /\ GivenUp'
    <2>1. \A q \in Held : q \in Held'
        BY <1>1 DEF Offering, Held
    <2> QED BY <1>1, <2>1 DEF SyncHasDriver, GivenUp, Running, Points
<1>2. CASE AppConnect
    BY <1>2 DEF AppConnect, SyncHasDriver, GivenUp, Points
<1>3. CASE AppDisconnect
    BY <1>3 DEF AppDisconnect, SyncHasDriver, GivenUp
<1>4. CASE AppDisconnected
    BY <1>1, <1>4, <1>t, OfferingReflexive DEF AppDisconnected, Points
<1>5. CASE AppRescan
    BY <1>5 DEF AppRescan, SyncHasDriver, GivenUp
<1>6. ASSUME NEW t \in Tx, AppPublish(t)
      PROVE  SyncHasDriver' /\ GivenUp'
    <2>1. \E pub : Offering(conn, conn', pub)
        BY <1>6, <1>t, PublishEffect, OfferingReflexive DEF AppPublish
    <2>2. app = "idle" /\ app' \in {app, "publish", "idle"}
        BY <1>6 DEF AppPublish
    <2> QED BY <1>1, <1>6, <2>1, <2>2 DEF AppPublish, Points
<1>7. ASSUME NEW t \in Tx, AppPublishes(t)
      PROVE  SyncHasDriver' /\ GivenUp'
    <2>1. Offering(conn, conn', published')
        BY <1>7, PublishEffect DEF AppPublishes
    <2> QED BY <1>1, <1>7, <2>1 DEF AppPublishes, Points
<1> QED BY <1>2, <1>3, <1>4, <1>5, <1>6, <1>7 DEF App

-----------------------------------------------------------------------------
(* The invariant of the peer manager *)

(* The invariant holds after BRPeerManagerNew.                             *)
LEMMA ManagerInit ==
    ASSUME Init
    PROVE  ManagerInv
<1>1. TypeOK
    BY TypeInit
<1>2. Answers
    BY DistinctAnswers DEF Init, Answers
<1>3. Known(conn, published, told) /\ Timely(conn, published)
    BY DEF Init, Known, Timely, Closed
<1> QED BY <1>1, <1>2, <1>3
        DEF Init, ManagerInv, DownloadPeerHeld, GivenUp, SyncHasDriver

(* Every step keeps the invariant.                                         *)
LEMMA ManagerStep ==
    ASSUME ManagerInv, [Next]_vars
    PROVE  ManagerInv'
<1> USE DEF ManagerInv
<1>1. TypeOK'
    BY TypeStep
<1>2. DownloadPeerHeld'
    BY DownloadPeerStep
<1>3. Answers'
    BY AnswersStep
<1>4. Known(conn', published', told') /\ Timely(conn', published')
    BY <1>1, <1>3, TimersStep
<1>5. SyncHasDriver' /\ GivenUp'
    <2>1. ASSUME NEW a \in Actors, Connecting(a)
          PROVE  SyncHasDriver' /\ GivenUp'
        BY <1>1, <2>1, ConnectingDrives DEF SyncHasDriver
    <2>2. CASE App
        BY <1>1, <2>2, AppDrives
    <2>3. ASSUME NEW p \in Peer, PeerThread(p)
          PROVE  SyncHasDriver' /\ GivenUp'
        BY <1>1, <1>2, <2>3, ThreadDrives
    <2>4. CASE NetworkChanges \/ UNCHANGED vars
        BY <2>4 DEF NetworkChanges, vars, syncVars, publishVars, callVars, SyncHasDriver, GivenUp,
                    Held, Running
    <2> QED BY <2>1, <2>2, <2>3, <2>4 DEF Next
<1> QED BY <1>1, <1>2, <1>3, <1>4, <1>5

(* The invariant of the peer manager: its properties follow from it.       *)
THEOREM ManagerInvariant == Spec => []ManagerInv
<1>1. Init => ManagerInv
    BY ManagerInit
<1>2. ManagerInv /\ [Next]_vars => ManagerInv'
    BY ManagerStep
<1> QED BY <1>1, <1>2, PTL DEF Spec

(* The download peer is one the manager holds, whichever peers left, were  *)
(* replaced or were chosen by another's callback, and the estimated height *)
(* is no lower than what that peer reported.                               *)
THEOREM DownloadPeerIsHeld == Spec => []DownloadPeerHeld
<1>1. ManagerInv => DownloadPeerHeld
    BY DEF ManagerInv
<1> QED BY <1>1, ManagerInvariant, PTL

(* Unless the app disconnected, a sync in progress has a peer, or a thread *)
(* about to connect to one.                                                *)
THEOREM SyncsHaveDrivers == Spec => []SyncHasDriver
<1>1. ManagerInv => SyncHasDriver
    BY DEF ManagerInv
<1> QED BY <1>1, ManagerInvariant, PTL

(* A publish is answered once, and one that failed is handed to nobody.    *)
THEOREM PublishesAreToldOnce == Spec => []ToldOnce
<1>1. ManagerInv => ToldOnce
    BY AnswersImplyToldOnce DEF ManagerInv
<1> QED BY <1>1, ManagerInvariant, PTL

(* A peer that knows of a publish whose callback waits has its timer set.  *)
THEOREM OffersAreTimed == Spec => []OfferIsTimed
<1>1. ManagerInv => OfferIsTimed
    BY TimelyImpliesOfferIsTimed DEF ManagerInv
<1> QED BY <1>1, ManagerInvariant, PTL

-----------------------------------------------------------------------------
(* Publishing implements Publication *)

(* The answer to a publish is what the app knows of it.                    *)
LEMMA OutcomeOf ==
    /\ \A place : Outcome(<<>>, place) = IF place = "none" THEN "new" ELSE "waiting"
    /\ \A place : Outcome(<<"ok">>, place) = "ok"
    /\ \A place : Outcome(<<"failed">>, place) = "failed"
<1>1. Len(<<"ok">>) = 1 /\ Head(<<"ok">>) = "ok" /\ <<"ok">> # <<>>
    OBVIOUS
<1>2. Len(<<"failed">>) = 1 /\ Head(<<"failed">>) = "failed" /\ <<"failed">> # <<>>
    OBVIOUS
<1> QED BY <1>1, <1>2 DEF Outcome

(* Nothing changes for the app unless the answer is another, or the        *)
(* transaction is published, or forgotten, before there is one.            *)
LEMMA SameOutcome ==
    ASSUME NEW t \in Tx, Answers, told'[t] = told[t],
           told[t] = <<>> => (published'[t] = "none" <=> published[t] = "none")
    PROVE  outcome'[t] = outcome[t]
<1>1. told[t] \in {<<>>, <<"ok">>, <<"failed">>}
    BY DEF Answers
<1>2. CASE told[t] = <<>>
    BY <1>2, OutcomeOf DEF outcome
<1>3. CASE told[t] \in {<<"ok">>, <<"failed">>}
    BY <1>3, OutcomeOf DEF outcome
<1> QED BY <1>1, <1>2, <1>3

(* Steps that change nobody's outcome stutter, and such as answer          *)
(* publishes with a failure refuse them.                                   *)
LEMMA PublicationRefuses ==
    ASSUME Answers, UNCHANGED sent,
           \A t \in Tx : \/ outcome'[t] = outcome[t]
                         \/ outcome[t] \in {"new", "waiting"} /\ outcome'[t] = "failed"
    PROVE  Publishing!Next
<1>1. \A t \in Tx : outcome[t] \in {"new", "waiting", "ok", "failed"}
    BY OutcomeOf DEF outcome, Answers
<1>2. \A t \in Tx : outcome'[t] \in {"new", "waiting", "ok", "failed"}
    BY <1>1
<1>3. outcome' \in [Tx -> {"new", "waiting", "ok", "failed"}]
    BY <1>2 DEF outcome
<1>4. Publishing!Refuse
    BY <1>3 DEF Publishing!Refuse, Publishing!Outcomes, Publishing!Open
<1> QED BY <1>4 DEF Publishing!Next

(* A step that changes one outcome accepts a transaction, or hands one.    *)
LEMMA PublicationChangesOne ==
    ASSUME NEW t \in Tx, \A u \in Tx \ {t} : outcome'[u] = outcome[u]
    PROVE  /\ outcome[t] = "new" /\ outcome'[t] = "waiting" /\ UNCHANGED sent
              => Publishing!Next
           /\ outcome[t] \in {"waiting", "ok"} /\ outcome'[t] = "ok" /\ sent' = sent \cup {t}
              => Publishing!Next
<1>1. ASSUME NEW o, outcome'[t] = o
      PROVE  outcome' = [outcome EXCEPT ![t] = o]
    BY <1>1 DEF outcome
<1>2. ASSUME outcome[t] = "new", outcome'[t] = "waiting", UNCHANGED sent
      PROVE  Publishing!Accept(t)
    BY <1>1, <1>2 DEF Publishing!Accept
<1>3. ASSUME outcome[t] \in {"waiting", "ok"}, outcome'[t] = "ok", sent' = sent \cup {t}
      PROVE  Publishing!Hand(t)
    BY <1>1, <1>3 DEF Publishing!Hand
<1> QED BY <1>2, <1>3 DEF Publishing!Next

(* A publish that is made, or answered at once, as the app asks for it.    *)
LEMMA PublishRefines ==
    ASSUME NEW t \in Tx, TypeOK, Answers, AppPublish(t) \/ AppPublishes(t)
    PROVE  Publishing!Next
<1>1. \A place : Outcome(<<>>, place) = IF place = "none" THEN "new" ELSE "waiting"
    BY OutcomeOf
<1>2. CASE AppPublish(t)
    <2>1. published[t] = "none" /\ told[t] = <<>> /\ UNCHANGED sent
        BY <1>2 DEF AppPublish
    <2>2. outcome[t] = "new"
        BY <1>1, <2>1 DEF outcome
    <2>3. CASE \E place \in {"pending", "checked"} :
                   published' = [published EXCEPT ![t] = place] /\ UNCHANGED told
        <3>1. published'[t] # "none" /\ told'[t] = <<>>
            BY <2>1, <2>3 DEF TypeOK
        <3>2. outcome'[t] = "waiting"
            BY <1>1, <3>1 DEF outcome
        <3>3. \A u \in Tx \ {t} : outcome'[u] = outcome[u]
            BY <2>3, SameOutcome DEF TypeOK
        <3> QED BY <2>1, <2>2, <3>2, <3>3, PublicationChangesOne
    <2>4. CASE told' = [told EXCEPT ![t] = <<"failed">>] /\ UNCHANGED published
        <3>1. told'[t] = <<"failed">>
            BY <2>4 DEF TypeOK
        <3>2. outcome'[t] = "failed"
            BY <3>1, OutcomeOf DEF outcome
        <3>3. \A u \in Tx \ {t} : outcome'[u] = outcome[u]
            BY <2>4, SameOutcome DEF TypeOK
        <3> QED BY <2>1, <2>2, <3>2, <3>3, PublicationRefuses
    <2> QED BY <1>2, <2>3, <2>4 DEF AppPublish, Publish
<1>3. CASE AppPublishes(t)
    <2>1. /\ published[t] = "checked" /\ published' = [published EXCEPT ![t] = "pending"]
          /\ UNCHANGED <<told, sent>>
        BY <1>3 DEF AppPublishes, Publish
    <2>2. \A u \in Tx : outcome'[u] = outcome[u]
        BY <2>1, SameOutcome DEF TypeOK
    <2> QED BY <2>1, <2>2, PublicationRefuses
<1> QED BY <1>2, <1>3

(* A peer that asks for a transaction is handed it, or it fails.           *)
LEMMA RequestRefines ==
    ASSUME NEW p \in Peer, NEW t \in Tx, TypeOK, Answers, RequestTx(p, t)
    PROVE  Publishing!Next
<1>1. published[t] \in {"pending", "quiet"} /\ (t \in Pending <=> published[t] = "pending")
    BY DEF RequestTx, Listed, Pending, Waiting
<1>2. /\ published[t] = "pending" => told[t] = <<>>
      /\ published[t] = "quiet" => told[t] = <<"ok">>
    BY DEF Answers
<1>3. outcome[t] = IF published[t] = "pending" THEN "waiting" ELSE "ok"
    BY <1>1, <1>2, OutcomeOf DEF outcome
<1>4. ASSUME NEW place, published' = [published EXCEPT ![t] = place],
             \A u \in Tx \ {t} : told'[u] = told[u]
      PROVE  \A u \in Tx \ {t} : outcome'[u] = outcome[u]
    BY <1>4, SameOutcome DEF TypeOK
<1>5. CASE /\ Answer(t, "ok")
           /\ published' = [published EXCEPT ![t] = "quiet"]
           /\ sent' = sent \cup {t}
    <2>1. told'[t] = <<"ok">> /\ \A u \in Tx \ {t} : told'[u] = told[u]
        BY <1>1, <1>2, <1>5, AppendsToNothing DEF TypeOK
    <2>2. outcome'[t] = "ok"
        BY <2>1, OutcomeOf DEF outcome
    <2>3. \A u \in Tx \ {t} : outcome'[u] = outcome[u]
        BY <1>4, <1>5, <2>1
    <2> QED BY <1>3, <1>5, <2>2, <2>3, PublicationChangesOne
<1>6. CASE /\ Answer(t, "failed")
           /\ published' = [published EXCEPT ![t] = "none"]
           /\ UNCHANGED sent
    <2>1. \A u \in Tx \ {t} : told'[u] = told[u]
        BY <1>6, AppendsToNothing DEF TypeOK
    <2>2. \A u \in Tx \ {t} : outcome'[u] = outcome[u]
        BY <1>4, <1>6, <2>1
    <2>3. CASE published[t] = "pending"
        <3>1. told'[t] = <<"failed">>
            BY <1>1, <1>6, <2>3, AppendsToNothing DEF TypeOK
        <3>2. outcome'[t] = "failed"
            BY <3>1, OutcomeOf DEF outcome
        <3> QED BY <1>3, <1>6, <2>2, <2>3, <3>2, PublicationRefuses
    <2>4. CASE published[t] = "quiet"
        <3>1. told'[t] = told[t] /\ told[t] # <<>>
            BY <1>1, <1>2, <1>6, <2>4, AppendsToNothing, DistinctAnswers
        <3>2. outcome'[t] = outcome[t]
            BY <3>1, SameOutcome
        <3> QED BY <1>6, <2>2, <3>2, PublicationRefuses
    <2> QED BY <1>1, <2>3, <2>4
<1> QED BY <1>5, <1>6 DEF RequestTx

(* A peer that disconnects leaves the publishes that wait, or fails them.  *)
LEMMA DisconnectedRefines ==
    ASSUME NEW p \in Peer, TypeOK, Answers, Disconnected(p)
    PROVE  Publishing!Next
<1>1. PICK cancel \in BOOLEAN :
          /\ published' = [t \in Tx |-> IF cancel /\ t \in Pending THEN "none" ELSE published[t]]
          /\ told' = [t \in Tx |-> IF cancel /\ t \in Pending THEN Append(told[t], "failed")
                                   ELSE told[t]]
          /\ UNCHANGED sent
    <2> DEFINE gaveUp == downloadPeer \in {NoPeer, p} /\ failures' = MaxFailures
               c == \/ gaveUp
                    \/ /\ conn[p].error = "timeout"
                       /\ p # downloadPeer \/ ~syncing \/ Held = {p}
    <2>1. c \in BOOLEAN
        OBVIOUS
    <2>2. /\ published' = [t \in Tx |-> IF c /\ t \in Pending THEN "none" ELSE published[t]]
          /\ told' = [t \in Tx |-> IF c /\ t \in Pending THEN Append(told[t], "failed")
                                   ELSE told[t]]
          /\ UNCHANGED sent
        BY DEF Disconnected
    <2> HIDE DEF c
    <2> QED BY <2>1, <2>2
<1>2. Append(<<>>, "failed") = <<"failed">>
    OBVIOUS
<1>3. ASSUME NEW t \in Tx, cancel, t \in Pending
      PROVE  outcome[t] = "waiting" /\ outcome'[t] = "failed"
    <2>1. told[t] = <<>> /\ published[t] = "pending"
        BY <1>3 DEF Answers, Pending, Waiting
    <2>2. told'[t] = <<"failed">>
        BY <1>1, <1>2, <1>3, <2>1
    <2> QED BY <2>1, <2>2, OutcomeOf DEF outcome
<1>4. ASSUME NEW t \in Tx, ~(cancel /\ t \in Pending)
      PROVE  outcome'[t] = outcome[t]
    <2>1. told'[t] = told[t] /\ published'[t] = published[t]
        BY <1>1, <1>4
    <2> QED BY <2>1, SameOutcome
<1> QED BY <1>1, <1>3, <1>4, PublicationRefuses

(* Every step of the peer manager is one of publishing, or none.           *)
LEMMA PublicationStep ==
    ASSUME TypeOK, Answers, [Next]_vars
    PROVE  [Publishing!Next]_<<outcome, sent>>
<1> USE DEF syncVars, publishVars, callVars
<1>1. CASE UNCHANGED publishVars
    BY <1>1, SameOutcome, PublicationRefuses
<1>2. ASSUME NEW p \in Peer, ExtendChain(p)
      PROVE  Publishing!Next
    <2>1. PICK confirmed \in SUBSET {t \in Tx : published[t] = "quiet"} :
              published' = [t \in Tx |-> IF t \in confirmed THEN "none" ELSE published[t]]
        BY <1>2 DEF ExtendChain
    <2>2. UNCHANGED <<told, sent>>
        BY <1>2 DEF ExtendChain
    <2>3. ASSUME NEW t \in Tx
          PROVE  outcome'[t] = outcome[t]
        <3>1. told[t] = <<>> => published'[t] = published[t]
            BY <2>1, DistinctAnswers DEF Answers
        <3> QED BY <2>2, <3>1, SameOutcome
    <2> QED BY <2>2, <2>3, PublicationRefuses
<1>3. ASSUME NEW p \in Peer, NEW t \in Tx, HasTx(p, t)
      PROVE  Publishing!Next
    <2>1. /\ Answer(t, "ok") /\ UNCHANGED sent
          /\ published' = [published EXCEPT ![t] = IF t \in Listed(published) THEN "quiet" ELSE @]
          /\ t \in sent
        BY <1>3 DEF HasTx
    <2>2. told[t] = <<"ok">>
        BY <2>1 DEF Answers
    <2>3. t \notin Pending
        BY <2>2, DistinctAnswers DEF Answers, Pending, Waiting
    <2>4. told' = told
        BY <2>1, <2>3, AppendsToNothing
    <2>5. ASSUME NEW u \in Tx
          PROVE  outcome'[u] = outcome[u]
        <3>1. told[u] = <<>> => published'[u] = published[u]
            BY <2>1, <2>2, DistinctAnswers DEF TypeOK
        <3> QED BY <2>4, <3>1, SameOutcome
    <2> QED BY <2>1, <2>5, PublicationRefuses
<1>4. CASE App
    BY <1>1, <1>4, PublishRefines
    DEF App, AppConnect, AppDisconnect, AppDisconnected, AppRescan
<1>5. ASSUME NEW p \in Peer, PeerThread(p)
      PROVE  [Publishing!Next]_<<outcome, sent>>
    <2>1. CASE LeaveClosed(p) \/ TimeOut(p) \/ Fail(p)
        BY <1>1, <2>1 DEF LeaveClosed, TimeOut, Fail, Leave
    <2>2. CASE OpenSocket(p) \/ Handshake(p) \/ PeerConnected(p)
        BY <1>1, <2>2 DEF OpenSocket, Handshake, PeerConnected
    <2>3. CASE DropBlock(p) \/ Misbehave(p) \/ MempoolAnswered(p) \/ Pong(p) \/ Flush(p) \/ HasOtherTx(p)
        BY <1>1, <2>3 DEF DropBlock, Misbehave, MempoolAnswered, Pong, Flush, HasOtherTx
    <2> QED BY <1>2, <1>3, <1>5, <2>1, <2>2, <2>3, RequestRefines, DisconnectedRefines DEF PeerThread
<1>6. ASSUME NEW a \in Actors, Connecting(a)
      PROVE  [Publishing!Next]_<<outcome, sent>>
    BY <1>1, <1>6, ConnectingEffect
<1>7. CASE NetworkChanges \/ UNCHANGED vars
    BY <1>1, <1>7 DEF NetworkChanges, vars
<1> QED BY <1>4, <1>5, <1>6, <1>7 DEF Next

(* The peer manager implements Publication: whatever peers, threads and    *)
(* timers do, each publish is answered at most once, with success only     *)
(* when a peer was handed it, and one that failed is handed to nobody.     *)
THEOREM PublicationIsKept == Spec => PublicationKept
<1>1. Init => Publishing!Init
    BY OutcomeOf DEF Init, Publishing!Init, outcome
<1>2. ManagerInv /\ [Next]_vars => [Publishing!Next]_<<outcome, sent>>
    BY PublicationStep DEF ManagerInv
<1> QED BY <1>1, <1>2, ManagerInvariant, PTL DEF Spec, PublicationKept, Publishing!Spec
=============================================================================
