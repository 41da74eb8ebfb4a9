----------------------------- MODULE BRTxRelays -----------------------------
(***************************************************************************)
(* Which peers have which unconfirmed transaction (txRelays), which were   *)
(* asked for one (txRequests), and what BRPeerManager.c does to the wallet *)
(* because of it: a transaction that enough peers relay is verified, one   *)
(* that no peer has is removed, with everything that spends it.            *)
(*                                                                         *)
(* The wallet is that of BRWallet, called through its operations; so are   *)
(* the blocks, mined and tip.  A handler that calls the wallet more than   *)
(* once holds manager->lock all the while: section is what the thread that *)
(* holds the lock has still to do, and no other step that takes the lock   *)
(* comes in between.  A node answers what it is sent from the mempool it   *)
(* has then, and announces what it gets; in[p] is what it sent and the     *)
(* peer's thread has not read.  All peers report the same block, one       *)
(* filter matches everything, and an empty inv stands for the end of the   *)
(* wait for a mempool.                                                     *)
(***************************************************************************)
EXTENDS BRWallet, FiniteSets

CONSTANTS
    Peer,
    NoPeer,
    MaxConnect,     \* maxConnectCount
    Stored,         \* the unconfirmed transactions the app may load at start, oldest first
    MaxEvents       \* bound: connections, blocks, and changes that mempools undergo by themselves

ASSUME RelayAssumption ==
    /\ NoPeer \notin Peer /\ IsFiniteSet(Peer)
    /\ MaxConnect \in Nat \ {0}
    /\ MaxEvents \in Nat

(* What is stored was in the wallet's array: it is there once, and pays the *)
(* wallet or spends what paid it.                                          *)
FullChains == [c \in Chains |-> MaxChain]

Ours(t, S) ==
    \/ \E o \in OutPoints(t) : IsWalletOutput(o, AddrsOf(FullChains))
    \/ \E o \in Inputs[t] : o[1] \in S /\ IsWalletOutput(o, AddrsOf(FullChains))

ASSUME StoredAssumption ==
    \A txs \in Stored :
        /\ txs \in Seq(Tx)
        /\ \A i, j \in 1..Len(txs) : txs[i] = txs[j] => i = j
        /\ \A t \in ToSet(txs) : Ours(t, ToSet(txs))

VARIABLES
    status,         \* status[p]: "off", "connecting", "up" or "leaving"
    synced,         \* the peers with PEER_FLAG_SYNCED
    mempool,        \* mempool[p]: no filter "none", "loaded", mempool "waiting" or "answered"
    known,          \* known[p]: knownTxHashes
    in,             \* in[p]: messages on their way from p
    pool,           \* pool[p]: the mempool of the node at p
    downloadPeer,
    syncing,        \* syncStartHeight > 0
    behind,         \* lastBlock->height < estimatedHeight
    publishedTx,
    waiting,        \* those of publishedTx whose callback was not called
    txRelays, txRequests,
    section,        \* what the thread with manager->lock has still to do
    missed,         \* history: missed[p]: what p has and was not counted for
    events          \* how many there were, for the bound

chain == <<mined, tip>>
links == <<status, synced, mempool, known>>
sync == <<downloadPeer, syncing, behind>>
lists == <<publishedTx, waiting, txRelays, txRequests>>
relaysVars == <<walletVars, chain, links, in, pool, sync, lists, section, missed, events>>

-----------------------------------------------------------------------------
(* Peers and messages *)

Up    == {p \in Peer : status[p] = "up"}
Held  == {p \in Peer : status[p] # "off"}

Msg(type, S) == [type |-> type, txs |-> S, done |-> "-"]
PongOf(callback) == [type |-> "pong", txs |-> {}, done |-> callback]

Head1(p, type) == status[p] = "up" /\ in[p] # <<>> /\ Head(in[p]).type = type
Is(p, type, t) == Head1(p, type) /\ t \in Head(in[p]).txs

(* What is left of the messages of p when t of the first was handled.      *)
Rest(p, t) ==
    LET left == Head(in[p]).txs \ {t}
    IN  IF left = {} THEN Tail(in[p]) ELSE <<Msg(Head(in[p]).type, left)>> \o Tail(in[p])

(* The node's answer to a getdata for S, and to an inv of S.               *)
Answer(p, S) ==
    LET one(type, A) == IF A = {} THEN <<>> ELSE <<Msg(type, A)>>
    IN  one("tx", S \cap pool[p]) \o one("notfound", S \ pool[p])

Wanted(p, S) == IF S \subseteq pool[p] THEN <<>> ELSE <<Msg("getdata", S \ pool[p])>>

Free == section.do = "nothing"
Nothing == [do |-> "nothing", txs |-> <<>>, stamp |-> 0]
Unlocked == section' = Nothing
Then(what, txs, ts) ==
    section' = IF txs = <<>> THEN Nothing ELSE [do |-> what, txs |-> txs, stamp |-> ts]

Happens == events < MaxEvents /\ events' = events + 1

Unconfirmed == {t \in ToSet(transactions) : height[t] = TX_UNCONFIRMED}

-----------------------------------------------------------------------------
(* The lists *)

Added(list, t, p)   == [list EXCEPT ![t] = @ \cup {p}]
Dropped(list, S, p) == [t \in Tx |-> IF t \in S THEN list[t] \ {p} ELSE list[t]]

(* _BRPeerManagerAddTxToPublishList: with the unconfirmed transactions it  *)
(* spends, up to those that are listed.                                    *)
Listing(t, all) ==
    LET add[u \in Tx] ==
          IF u \in publishedTx \/ height[u] # TX_UNCONFIRMED THEN {}
          ELSE {u} \cup UNION {add[v] : v \in Parents(u) \cap all}
    IN  add[t]

AmountSent(t) ==
    \E o \in Inputs[t] : o[1] \in allTx /\ IsWalletOutput(o, allAddrs)

Register(t) == IF t \in allTx THEN UNCHANGED walletVars ELSE RegisterTransaction(t)

(* _BRPeerManagerRequestUnrelayedTx, and the ping behind it                *)
Unrelayed(p) == {t \in Unconfirmed : p \notin txRelays[t] \cup txRequests[t]}

Requests(p, S, queue) ==
    /\ txRequests' = [t \in Tx |-> txRequests[t] \cup (IF t \in S THEN {p} ELSE {})]
    /\ IF S = {}
       THEN synced' = synced \cup {p} /\ in' = [in EXCEPT ![p] = queue]
       ELSE /\ in' = [in EXCEPT ![p] = queue \o (IF status[p] # "up" THEN <<>> ELSE Answer(p, S))
                                   \o (IF p \in synced THEN <<>> ELSE <<PongOf("getdata")>>)]
            /\ UNCHANGED synced

RequestUnrelayedTx(p, queue) == Requests(p, Unrelayed(p), queue)

(* A transaction that enough peers have and that is not verified yet       *)
Verify(t, relayCount) ==
    IF relayCount >= MaxConnect /\ height[t] = TX_UNCONFIRMED /\ timestamp[t] = 0
    THEN Then("update", <<t>>, 1) ELSE Unlocked

-----------------------------------------------------------------------------
Loads(txs) ==
    /\ allTx = ToSet(txs) /\ transactions = txs
    /\ height = [t \in Tx |-> TX_UNCONFIRMED]
    /\ timestamp = [t \in Tx |-> IF t \in ToSet(txs) THEN 1 ELSE 0]
    /\ blockHeight = 0
    /\ chainLen = FullChains
    /\ ledger = UpdateBalance(txs, height, 0)
    /\ saved = [t \in Tx |-> IF t \in ToSet(txs) THEN TX_UNCONFIRMED ELSE NotSaved]

RelaysInit ==
    /\ \E txs \in Stored : Loads(txs)
    /\ mined = [t \in Tx |-> TX_UNCONFIRMED] /\ tip = 0
    /\ status = [p \in Peer |-> "off"]
    /\ synced = {}
    /\ mempool = [p \in Peer |-> "none"]
    /\ known = [p \in Peer |-> {}]
    /\ in = [p \in Peer |-> <<>>]
    /\ \E S \in {S \in SUBSET Tx : \A t \in S : Parents(t) \subseteq S \cup {Foreign}} :
           pool \in [Peer -> {{}, S}]
    /\ downloadPeer = NoPeer /\ syncing = FALSE /\ behind \in BOOLEAN
    /\ publishedTx = {} /\ waiting = {}
    /\ txRelays = [t \in Tx |-> {}] /\ txRequests = [t \in Tx |-> {}]
    /\ section = Nothing
    /\ missed = [p \in Peer |-> {}]
    /\ events = 0

-----------------------------------------------------------------------------
(* Connections *)

(* BRPeerManagerConnect takes p from the list of peers.                    *)
Connect(p) ==
    /\ Free
    /\ status[p] = "off" /\ Cardinality(Held) < MaxConnect
    /\ Happens
    /\ status' = [status EXCEPT ![p] = "connecting"]
    /\ syncing' = (syncing \/ downloadPeer = NoPeer \/ behind)
    /\ UNCHANGED <<walletVars, chain, synced, mempool, known, in, pool, downloadPeer, behind, lists,
                   section, missed>>

(* BRPeerSendMempool, and a new filter with a publish and a ping           *)
Mempool(p) ==
    IF mempool[p] \in {"waiting", "answered"} THEN [mem |-> mempool[p], kn |-> known[p], msgs |-> <<>>]
    ELSE [mem |-> "waiting", kn |-> known[p] \cup publishedTx, msgs |-> <<Msg("inv", pool[p])>>]

Load(p) ==
    [mem |-> IF mempool[p] = "none" THEN "loaded" ELSE mempool[p],
     kn |-> known[p] \cup publishedTx,
     msgs |-> Wanted(p, publishedTx \ known[p]) \o <<PongOf("load")>>]

Sends(news) ==
    /\ mempool' = [p \in Peer |-> IF p \in DOMAIN news THEN news[p].mem ELSE mempool[p]]
    /\ known' = [p \in Peer |-> IF p \in DOMAIN news THEN news[p].kn ELSE known[p]]
    /\ in' = [p \in Peer |-> IF p \in DOMAIN news THEN in[p] \o news[p].msgs ELSE in[p]]

(* _BRPeerManagerLoadMempools with download peer d                         *)
LoadMempools(S, d) == Sends([p \in S |-> IF p = d THEN Mempool(p) ELSE Load(p)])

(* The new download peer was sent its filter, and an inv, before its       *)
(* mempool is asked for.                                                   *)
DownloadFrom(d, S) ==
    LET first == Wanted(d, publishedTx \ known[d])
        mem   == Mempool(d)
        begun == [mem |-> IF mempool[d] = "none" THEN "loaded" ELSE mempool[d],
                  kn |-> known[d] \cup publishedTx, msgs |-> first]
    IN  /\ downloadPeer' = d
        /\ IF behind THEN Sends([q \in {d} |-> begun])
           ELSE Sends([p \in S |-> IF p = d THEN [mem EXCEPT !.kn = begun.kn, !.msgs = first \o @]
                                   ELSE Load(p)])

PeerConnected(p) ==
    /\ Free /\ status[p] = "connecting"
    /\ status' = [status EXCEPT ![p] = "up"]
    /\ IF downloadPeer # NoPeer
       THEN /\ IF behind THEN UNCHANGED <<mempool, known, in>> ELSE Sends([q \in {p} |-> Load(q)])
            /\ UNCHANGED downloadPeer
       ELSE \E d \in Up \cup {p} : DownloadFrom(d, Up \cup {p})
    /\ UNCHANGED <<walletVars, chain, synced, pool, syncing, behind, lists, section, missed, events>>

(* The last block the download peer reported was relayed.                  *)
CatchUp ==
    /\ Free /\ behind /\ downloadPeer \in Up
    /\ behind' = FALSE
    /\ LoadMempools(Up, downloadPeer)
    /\ UNCHANGED <<walletVars, chain, status, synced, pool, downloadPeer, syncing, lists, section,
                   missed, events>>

(* The thread of p leaves its loop: what it did not read is lost, and its  *)
(* outstanding pings are called back.                                      *)
Leave(p) ==
    /\ status[p] \in {"connecting", "up"}
    /\ status' = [status EXCEPT ![p] = "leaving"]
    /\ in' = [in EXCEPT ![p] = Without(@, {m \in ToSet(@) : m.type # "pong"})]
    /\ UNCHANGED <<walletVars, chain, synced, mempool, known, pool, sync, lists, section, missed, events>>

(* The flags of a peer end with its connection.                            *)
StillFlagged(p) == synced

Unflagged(p) == synced \ {p}

(* _peerDisconnected; how it ended, and how often others failed before,    *)
(* decides whether publishes and the sync end with it (BRPeerManager).     *)
Disconnected(p, ended) ==
    /\ Free /\ status[p] = "leaving" /\ in[p] = <<>>
    /\ status' = [status EXCEPT ![p] = "off"]
    /\ synced' = Unflagged(p)
    /\ mempool' = [mempool EXCEPT ![p] = "none"]
    /\ known' = [known EXCEPT ![p] = {}]
    /\ txRelays' = Dropped(txRelays, Tx, p)
    /\ downloadPeer' = IF downloadPeer = p THEN NoPeer ELSE downloadPeer
    /\ ended = "failure" => downloadPeer' = NoPeer
    /\ syncing' = (syncing /\ ended # "failure")
    /\ IF ended = "left" THEN UNCHANGED <<publishedTx, waiting>>
       ELSE publishedTx' = publishedTx \ waiting /\ waiting' = {}
    /\ missed' = [missed EXCEPT ![p] = {}]
    /\ UNCHANGED <<walletVars, chain, in, pool, behind, txRequests, section, events>>

-----------------------------------------------------------------------------
(* Messages of a peer, and its outstanding pings *)

(* The message names t, which is on the list of published transactions:    *)
(* its callback is called.                                                 *)
Called(t) == waiting' = waiting \ {t}

(* A transaction of the wallet's that p has counts unless a sync goes on,  *)
(* a listed one always.                                                    *)
Counts(t, held) == t \in publishedTx \/ (held /\ ~syncing)

Count(p, t, held) ==
    IF Counts(t, held)
    THEN /\ txRelays' = Added(txRelays, t, p)
         /\ missed' = [missed EXCEPT ![p] = @ \ {t}]
    ELSE /\ missed' = [missed EXCEPT ![p] = @ \cup {t}]
         /\ UNCHANGED txRelays

(* _peerRelayedTx: a transaction that was sent in full                     *)
RelayedTx(p, t) ==
    /\ Free /\ Is(p, "tx", t)
    /\ in' = [in EXCEPT ![p] = Rest(p, t)]
    /\ Called(t)
    /\ IF ~syncing \/ ContainsTx(allTx, t)
       THEN Register(t) ELSE UNCHANGED walletVars
    /\ LET held == t \in allTx'
       IN  /\ Count(p, t, held)
           /\ txRequests' = IF held THEN Dropped(txRequests, {t}, p) ELSE txRequests
           /\ publishedTx' = publishedTx \cup
                 (IF held /\ AmountSent(t) /\ TransactionIsValid(t)' THEN Listing(t, allTx) ELSE {})
           /\ IF held /\ Counts(t, held) THEN Verify(t, Cardinality(txRelays'[t])) ELSE Unlocked
    /\ UNCHANGED <<chain, links, pool, sync, events>>

(* An inv: what is known is had by the peer (_peerHasTx), the rest is      *)
(* asked for, and if the mempool was asked for a ping follows.             *)
HasTx(p, t) ==
    /\ Free /\ Is(p, "inv", t) /\ t \in known[p]
    /\ in' = [in EXCEPT ![p] = <<Msg("inv", Head(@).txs \ {t})>> \o Tail(@)]
    /\ Called(t)
    /\ IF t \in allTx \cup publishedTx
       THEN /\ Register(t)
            /\ Count(p, t, TRUE)
            /\ txRequests' = Dropped(txRequests, {t}, p)
            /\ IF Counts(t, TRUE) THEN Verify(t, Cardinality(txRelays'[t])) ELSE Unlocked
       ELSE /\ missed' = [missed EXCEPT ![p] = @ \cup {t}]
            /\ UNCHANGED <<walletVars, txRelays, txRequests, section>>
    /\ UNCHANGED <<chain, links, pool, sync, publishedTx, events>>

InvHandled(p) ==
    /\ Free /\ Head1(p, "inv") /\ Head(in[p]).txs \cap known[p] = {}
    /\ known' = [known EXCEPT ![p] = @ \cup Head(in[p]).txs]
    /\ mempool' = [mempool EXCEPT ![p] = IF @ = "waiting" THEN "answered" ELSE @]
    /\ in' = [in EXCEPT ![p] = Tail(@) \o Answer(p, Head(@).txs)
                  \o (IF mempool[p] = "waiting" THEN <<PongOf("mempool")>> ELSE <<>>)]
    /\ UNCHANGED <<walletVars, chain, status, synced, pool, sync, lists, section, missed, events>>

(* _peerRequestedTx: the node gets a listed transaction, and even one that *)
(* is invalid if the wallet has it, and takes it or turns it down.         *)
RequestedTx(p, t, accepts) ==
    /\ Free /\ Is(p, "getdata", t)
    /\ Called(t)
    /\ LET sent == t \in publishedTx /\ TransactionIsValid(t)
           returned == sent \/ (t \in publishedTx /\ t \in allTx)
           taken == \/ t \in pool[p]
                    \/ accepts /\ Parents(t) \subseteq pool[p] \cup {Foreign} \cup OnBestChain
       IN  /\ publishedTx' = IF sent THEN publishedTx ELSE publishedTx \ {t}
           /\ txRelays' = IF sent THEN Added(txRelays, t, p) ELSE txRelays
           /\ IF sent THEN Register(t) ELSE UNCHANGED walletVars
           /\ pool' = IF returned /\ taken THEN [pool EXCEPT ![p] = @ \cup {t}] ELSE pool
           /\ in' = [in EXCEPT ![p] = Rest(p, t) \o
                        (IF returned /\ ~taken THEN <<Msg("reject", {t})>> ELSE <<>>)]
           /\ missed' = IF returned /\ taken /\ ~sent THEN [missed EXCEPT ![p] = @ \cup {t}]
                        ELSE missed
    /\ UNCHANGED <<chain, links, sync, txRequests, section, events>>

(* _peerRejectedTx.  The peer that rejects is not dropped for it.          *)
RejectedTx(p, t) ==
    /\ Free /\ Is(p, "reject", t)
    /\ in' = [in EXCEPT ![p] = Rest(p, t)]
    /\ txRequests' = Dropped(txRequests, {t}, p)
    /\ txRelays' = IF t \in allTx THEN Dropped(txRelays, {t}, p) ELSE txRelays
    /\ IF t \in allTx /\ p \in txRelays[t] /\ height[t] = TX_UNCONFIRMED
       THEN Then("update", <<t>>, 0) ELSE Unlocked
    /\ UNCHANGED <<walletVars, chain, links, pool, sync, publishedTx, waiting, missed, events>>

(* _peerDataNotfound                                                       *)
NotFound(p) ==
    /\ Free /\ Head1(p, "notfound")
    /\ in' = [in EXCEPT ![p] = Tail(@)]
    /\ txRelays' = Dropped(txRelays, Head(in[p]).txs, p)
    /\ txRequests' = Dropped(txRequests, Head(in[p]).txs, p)
    /\ missed' = [missed EXCEPT ![p] = @ \cup {t \in Head(in[p]).txs : p \in txRelays[t]}]
    /\ UNCHANGED <<walletVars, chain, links, pool, sync, publishedTx, waiting, section, events>>

(* A pong, or the end of the thread, calls a callback back.                *)
CallsBack(p, callback, success) ==
    /\ Free /\ in[p] # <<>> /\ Head(in[p]).type = "pong" /\ Head(in[p]).done = callback
    /\ status[p] = IF success THEN "up" ELSE "leaving"

(* _loadBloomFilterDone                                                    *)
LoadDone(p) ==
    /\ CallsBack(p, "load", TRUE)
    /\ LET mem == Mempool(p)
       IN  /\ mempool' = [mempool EXCEPT ![p] = mem.mem]
           /\ known' = [known EXCEPT ![p] = mem.kn]
           /\ in' = [in EXCEPT ![p] = Tail(@) \o mem.msgs]
    /\ UNCHANGED <<walletVars, chain, status, synced, pool, sync, lists, section, missed, events>>

(* _mempoolDone                                                            *)
MempoolDone(p) ==
    /\ CallsBack(p, "mempool", TRUE)
    /\ syncing' = FALSE
    /\ RequestUnrelayedTx(p, Tail(in[p]))
    /\ UNCHANGED <<walletVars, chain, status, mempool, known, pool, downloadPeer, behind, publishedTx,
                   waiting, txRelays, section, missed, events>>

(* Both do nothing of this module's but end the sync of a download peer.   *)
LoadFailed(p) ==
    /\ \E callback \in {"load", "mempool"} :
           /\ CallsBack(p, callback, FALSE)
           /\ syncing' = (syncing /\ ~(callback = "load" /\ p = downloadPeer))
    /\ in' = [in EXCEPT ![p] = Tail(@)]
    /\ UNCHANGED <<walletVars, chain, links, pool, downloadPeer, behind, lists, section, missed, events>>

(* _publishTxInvDone, which does not look whether it succeeded             *)
PublishInvDone(p) ==
    /\ \E success \in BOOLEAN : CallsBack(p, "publish", success)
    /\ RequestUnrelayedTx(p, Tail(in[p]))
    /\ UNCHANGED <<walletVars, chain, status, mempool, known, pool, sync, publishedTx, waiting,
                   txRelays, section, missed, events>>

SomeSynced(S) == Up \cap S # {}

AllSynced(S) == Held \subseteq S

(* _requestUnrelayedTxGetdataDone: if MaxConnect peers are connected and   *)
(* no peer is without the flag, its loop begins on a copy of the array.    *)
GetdataDone(p) ==
    /\ \E success \in BOOLEAN :
           /\ CallsBack(p, "getdata", success)
           /\ synced' = IF success THEN synced \cup {p} ELSE synced
    /\ in' = [in EXCEPT ![p] = Tail(@)]
    /\ IF AllSynced(synced') /\ Cardinality(Up) >= MaxConnect
       THEN Then("sweep", Without(transactions, Tx \ Unconfirmed), 0)
       ELSE Unlocked
    /\ UNCHANGED <<walletVars, chain, status, mempool, known, pool, sync, lists, missed, events>>

(* One turn of that loop, from the end of the copy: a transaction that no  *)
(* peer has or is asked for is removed, one that too few have is marked.   *)
Unwanted(t) == t \notin waiting /\ txRelays[t] = {} /\ txRequests[t] = {}

Sweep ==
    /\ section.do = "sweep"
    /\ LET t == Last(section.txs)
       IN  IF Unwanted(t)
           THEN IF t \in allTx THEN RemoveTransaction(t) ELSE UNCHANGED walletVars
           ELSE IF t \notin waiting /\ Cardinality(txRelays[t]) < MaxConnect
           THEN UpdateTransactions(<<t>>, TX_UNCONFIRMED, 0)
           ELSE UNCHANGED walletVars
    /\ Then("sweep", Front(section.txs), 0)
    /\ UNCHANGED <<chain, links, in, pool, sync, lists, missed, events>>

Update ==
    /\ section.do = "update"
    /\ UpdateTransactions(section.txs, TX_UNCONFIRMED, section.stamp)
    /\ Unlocked
    /\ UNCHANGED <<chain, links, in, pool, sync, lists, missed, events>>

-----------------------------------------------------------------------------
(* The app publishes a payment it made of unspent outputs; the download    *)
(* peer is left out if there is another (BRPeerManagerPublishTx).          *)
AppPublish(t) ==
    /\ Free /\ downloadPeer # NoPeer
    /\ t \notin allTx \cup publishedTx /\ Inputs[t] \subseteq ledger.utxos
    /\ \A p \in Peer : t \notin pool[p]
    /\ timestamp' = [timestamp EXCEPT ![t] = 1]
    /\ publishedTx' = publishedTx \cup Listing(t, allTx)
    /\ waiting' = waiting \cup {t}
    /\ LET to == IF Cardinality(Up) = 1 THEN Up ELSE Up \ {downloadPeer}
       IN  /\ known' = [p \in Peer |-> known[p] \cup (IF p \in to THEN publishedTx' ELSE {})]
           /\ in' = [p \in Peer |->
                 IF p \notin to THEN in[p]
                 ELSE in[p] \o Wanted(p, publishedTx' \ known[p]) \o <<PongOf("publish")>>]
    /\ UNCHANGED <<allTx, transactions, height, blockHeight, chainLen, ledger, saved, chain, status,
                   synced, mempool, pool, sync, txRelays, txRequests, section, missed, events>>

(* A block of the download peer confirms t.                                *)
RelayedBlock(t) ==
    /\ Free /\ downloadPeer \in Up
    /\ t \in allTx /\ <<t>> \in Blocks
    /\ Happens
    /\ ConnectBlock(<<t>>)
    /\ publishedTx' = publishedTx \ {t} /\ waiting' = waiting \ {t}
    /\ txRelays' = [txRelays EXCEPT ![t] = {}]
    /\ pool' = [p \in Peer |-> pool[p] \ {t}]
    /\ UNCHANGED <<links, in, sync, txRequests, section, missed>>

(* A node gets t from another, and announces it to those that loaded a     *)
(* filter; or it loses some, with what spends them.                        *)
PoolGains(p, t) ==
    /\ t \notin pool[p] /\ mined[t] = TX_UNCONFIRMED
    /\ t \in waiting => \E q \in Peer : t \in pool[q]
    /\ Parents(t) \subseteq pool[p] \cup {Foreign} \cup OnBestChain
    /\ Happens
    /\ pool' = [pool EXCEPT ![p] = @ \cup {t}]
    /\ in' = IF status[p] = "up" /\ mempool[p] # "none"
             THEN [in EXCEPT ![p] = Append(@, Msg("inv", {t}))] ELSE in
    /\ UNCHANGED <<walletVars, chain, links, sync, lists, section, missed>>

PoolLoses(p, S) ==
    /\ S # {} /\ \A u \in pool[p] : Parents(u) \cap S # {} => u \in S
    /\ Happens
    /\ pool' = [pool EXCEPT ![p] = @ \ S]
    /\ UNCHANGED <<walletVars, chain, links, in, sync, lists, section, missed>>

RelaysNext ==
    \/ \E p \in Peer : Connect(p) \/ PeerConnected(p) \/ Leave(p)
    \/ \E p \in Peer, ended \in {"left", "timeout", "failure"} : Disconnected(p, ended)
    \/ CatchUp
    \/ \E p \in Peer, t \in Tx : RelayedTx(p, t) \/ HasTx(p, t) \/ RejectedTx(p, t)
    \/ \E p \in Peer, t \in Tx, accepts \in BOOLEAN : RequestedTx(p, t, accepts)
    \/ \E p \in Peer : InvHandled(p) \/ NotFound(p)
    \/ \E p \in Peer : LoadDone(p) \/ MempoolDone(p) \/ LoadFailed(p) \/ PublishInvDone(p)
    \/ \E p \in Peer : GetdataDone(p)
    \/ Sweep \/ Update
    \/ \E t \in Tx : AppPublish(t) \/ RelayedBlock(t)
    \/ \E p \in Peer : \/ \E t \in Tx : PoolGains(p, t)
                       \/ \E S \in SUBSET pool[p] : PoolLoses(p, S)

RelaysSpec == RelaysInit /\ [][RelaysNext]_relaysVars

-----------------------------------------------------------------------------
(* Properties *)

RelaysTypeOK ==
    /\ TypeOK
    /\ status \in [Peer -> {"off", "connecting", "up", "leaving"}]
    /\ synced \subseteq Held
    /\ mempool \in [Peer -> {"none", "loaded", "waiting", "answered"}]
    /\ known \in [Peer -> SUBSET Tx] /\ pool \in [Peer -> SUBSET Tx]
    /\ downloadPeer \in Peer \cup {NoPeer} /\ syncing \in BOOLEAN /\ behind \in BOOLEAN
    /\ waiting \subseteq publishedTx /\ publishedTx \subseteq Tx
    /\ txRelays \in [Tx -> SUBSET Held] /\ txRequests \in [Tx -> SUBSET Peer]
    /\ section.do \in {"nothing", "update", "sweep"} /\ section.txs \in Seq(Tx)

(* News that p has t is under way; or it was missed: p showed t while a    *)
(* sync went on, or when t was neither kept nor published, which does not  *)
(* count; or a notfound that overtook it withdrew the count; or p got t    *)
(* from the wallet although it is invalid.  Or the ping of a publish       *)
(* flagged p before its mempool was asked for.                             *)
UnderWay(p, t) == \E i \in DOMAIN in[p] : in[p][i].type \in {"inv", "tx"} /\ t \in in[p][i].txs

AskedMempool(p) == mempool[p] \in {"waiting", "answered"}

Late(p, t) == UnderWay(p, t) \/ t \in missed[p] \/ (p \in synced /\ ~AskedMempool(p))

(* t and what it spends, directly or not                                   *)
Lineage(t) ==
    {u \in Tx : \A D \in SUBSET Tx :
        t \in D /\ (\A d \in D : Parents(d) \ {Foreign} \subseteq D) => u \in D}

(* "unconfirmed transactions that aren't in the mempools of any of         *)
(* connected peers" are removed, and what spends them: an unconfirmed      *)
(* transaction that a connected peer has stays, unless the news of it, or  *)
(* of one in its lineage that is removed with it, is late.                 *)
CountedAreKept ==
    [][\A t \in allTx \ allTx' : \A p \in Up :
          t \in pool[p] /\ mined'[t] = TX_UNCONFIRMED =>
              \E u \in Lineage(t) \cap (allTx \ allTx') : Late(p, u)]_relaysVars

-----------------------------------------------------------------------------
(* What comments of the code say and the code does not keep: TLC finds     *)
(* each of these violated (see the README).                                *)

(* The same without an excuse: no connected peer has what is removed.      *)
NoneHasIt == [][\A t \in allTx \ allTx' : \A p \in Up : t \notin pool[p]]_relaysVars

(* The peer answered for its mempool, and _mempoolDone was called.         *)
Finished(p) ==
    mempool[p] = "answered" /\ \A i \in DOMAIN in[p] : in[p][i] # PongOf("mempool")

(* Nothing is removed until "all peers have finished relaying their        *)
(* mempools".                                                              *)
MempoolsFirst == section.do = "sweep" => \A p \in Up : Finished(p)

(* Only peers that are held can have been asked: a transaction that a      *)
(* peer was asked for and did not answer for is never removed.             *)
RequestsAreHeld == \A t \in Tx : txRequests[t] \subseteq Held

(* A transaction that enough peers have is verified.                       *)
EnoughAreVerified ==
    Free => \A t \in Unconfirmed : Cardinality(txRelays[t]) >= MaxConnect => timestamp[t] # 0

(* What is removed, and freed, is not on the list of published             *)
(* transactions.                                                           *)
FreedAreUnlisted == [][(allTx \ allTx') \cap publishedTx' = {}]_relaysVars

(* The copy the loop goes through names no transaction that an earlier     *)
(* turn removed.                                                           *)
CopyIsHeld == section.do = "sweep" => ToSet(section.txs) \subseteq allTx
=============================================================================
