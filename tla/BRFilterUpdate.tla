--------------------------- MODULE BRFilterUpdate ---------------------------
(***************************************************************************)
(* The bloom filter during a chain download: when _peerRelayedTx finds     *)
(* that the filter misses the next unused addresses of the wallet, how     *)
(* BRPeerManager.c replaces it with two pings and a third one, which       *)
(* blocks it drops meanwhile, and how they are asked for again; with the   *)
(* inventory messages and the pong callbacks of BRPeer.c.                  *)
(*                                                                         *)
(* The chain is a line of blocks 1, 2, ...; block b pays the wallet's      *)
(* address number Pays[b], or no address of the wallet if that is 0.  A    *)
(* filter is the number of addresses it was made with.  A peer is a node   *)
(* that takes the messages of one connection in their order and answers    *)
(* each, as bitcoind does.  Mempools, publishing and false positives are   *)
(* left out; the lock is released between the callback of a transaction    *)
(* and the callback of its block.                                          *)
(***************************************************************************)
EXTENDS Integers, Sequences, FiniteSets, FiniteSetsExt

CONSTANTS
    Peer,           \* the peers
    NoPeer,         \* NULL
    MaxConnect,     \* manager->maxConnectCount, 1 with a fixed peer
    FirstTip,       \* the height of the network when the app starts
    MaxTip,         \* bound: the height it reaches
    Pays,           \* Pays[b]: the address that block b pays
    Gap,            \* SEQUENCE_GAP_LIMIT_*: addresses that must be watched
    Spare,          \* SEQUENCE_GAP_LIMIT_* + 100: addresses a new filter watches
    Degraded,       \* blocks after which the rate of false positives is too high
    MaxLosses       \* bound: connections that are lost

ASSUME FilterAssumption ==
    /\ NoPeer \notin Peer
    /\ FirstTip \in Nat /\ MaxTip \in Nat /\ FirstTip <= MaxTip
    /\ Pays \in [1..MaxTip -> Nat]
    /\ Gap \in Nat \ {0} /\ Spare \in Nat /\ Gap <= Spare
    /\ Degraded \subseteq 1..MaxTip
    /\ MaxConnect \in Nat \ {0} /\ MaxLosses \in Nat

VARIABLES
    tip,            \* the height of the network
    lastBlock,      \* manager->lastBlock, its height
    estimated,      \* manager->estimatedHeight
    orphans,        \* manager->orphans
    lastOrphan,     \* manager->lastOrphan, 0 for NULL
    wallet,         \* the blocks whose transaction the wallet holds
    downloadPeer,   \* manager->downloadPeer
    filter,         \* manager->bloomFilter, 0 for NULL
    status,         \* the status of each peer
    ctx,            \* its BRPeerContext
    out,            \* the messages on their way to the node
    in,             \* the messages on their way from it
    watched,        \* the filter the node has, 0 for none
    losses,         \* how many connections were lost
    shared          \* whether two peers were connected at once

managerVars == <<lastBlock, estimated, orphans, lastOrphan, wallet, downloadPeer, filter>>
wireVars == <<status, ctx, out, in, watched>>
vars == <<tip, managerVars, wireVars, losses, shared>>

Connected == {p \in Peer : status[p] = "connected"}

Syncing == lastBlock < estimated

-----------------------------------------------------------------------------
(* Messages *)

Filterload(n) == [type |-> "filterload", blocks |-> <<>>, n |-> n]
Getdata(s)    == [type |-> "getdata", blocks |-> s, n |-> 0]
Getblocks(h)  == [type |-> "getblocks", blocks |-> <<>>, n |-> h]
Ping          == [type |-> "ping", blocks |-> <<>>, n |-> 0]
Pong          == [type |-> "pong", blocks |-> <<>>, n |-> 0]
Inv(s)        == [type |-> "inv", blocks |-> s, n |-> 0]
Merkle(b, n)  == [type |-> "merkleblock", blocks |-> <<b>>, n |-> n]

From(a, b) == [i \in 1..(b - a + 1) |-> a + i - 1]

Closed == [reported |-> 0, needs |-> FALSE, known |-> <<>>, lastHash |-> 0, sent |-> FALSE,
           pongs |-> <<>>, current |-> 0]

(* What a call of the manager sends; it changes both functions at once.    *)
Send(w, p, m) == [w EXCEPT !.out[p] = Append(@, m)]

SendPing(w, p, callback) ==
    [w EXCEPT !.out[p] = Append(@, Ping), !.ctx[p].pongs = Append(@, callback)]

SendGetblocks(w, p, h) ==
    [w EXCEPT !.out[p] = Append(@, Getblocks(h)), !.ctx[p].sent = TRUE]

Wire == [ctx |-> ctx, out |-> out]

Sends(w) == ctx' = w.ctx /\ out' = w.out

-----------------------------------------------------------------------------
(* The filter *)

Used(set) == Max({0} \cup {Pays[b] : b \in set})

(* The wallet gives its addresses out in their order: no block pays one    *)
(* further than Gap past those used before it.                             *)
ASSUME PaysAssumption == \A b \in 1..MaxTip : Pays[b] <= Used(1..(b - 1)) + Gap

(* _BRPeerManagerLoadBloomFilter for each of some peers: new addresses are *)
(* generated first, and orphans of the old filter forgotten.               *)
NewFilter == Used(wallet) + Spare

Load(P) ==
    IF P = {} THEN UNCHANGED <<filter, orphans, lastOrphan>>
    ELSE filter' = NewFilter /\ orphans' = {} /\ lastOrphan' = 0

Loading(w, P) ==
    [ctx |-> [p \in Peer |-> IF p \in P THEN [w.ctx[p] EXCEPT !.sent = TRUE] ELSE w.ctx[p]],
     out |-> [p \in Peer |-> IF p \in P THEN Append(w.out[p], Filterload(NewFilter))
                             ELSE w.out[p]]]

(* As if no update were ever started.                                      *)
NoUpdate(w) == w

(* _BRPeerManagerUpdateFilter: once, until the update is done.             *)
UpdateFilter(w) ==
    IF downloadPeer = NoPeer \/ w.ctx[downloadPeer].needs THEN w
    ELSE SendPing([w EXCEPT !.ctx[downloadPeer].needs = TRUE], downloadPeer,
                  [kind |-> "update", peer |-> downloadPeer])

(* As if only the used addresses had to be in the filter.                  *)
MatchesUsed(f, set) == Used(set) <= f

(* The next Gap unused addresses are in the filter.                        *)
Matches(f, set) == Used(set) + Gap <= f

-----------------------------------------------------------------------------
(* Connections *)

(* Of the connected peers the one that reports most, or this one.          *)
Candidates(p) ==
    LET P == Connected \cup {p}
        h(q) == IF q = p THEN tip ELSE ctx[q].reported
    IN  {q \in P : \A r \in P : h(r) <= h(q)}

(* _peerConnected, for a node that is not behind.                          *)
Sticks == downloadPeer # NoPeer /\ (ctx[downloadPeer].reported >= tip \/ lastBlock >= tip)

PeerConnected(p) ==
    /\ status[p] = "none"
    /\ Cardinality({q \in Peer : status[q] # "none"}) < MaxConnect
    /\ LET w == [Wire EXCEPT !.ctx[p] = [Closed EXCEPT !.reported = tip]] IN
       \/ /\ Sticks
          /\ status' = [status EXCEPT ![p] = "connected"]
          /\ LET P == IF lastBlock >= tip THEN {p} ELSE {} IN
             /\ Load(P)
             /\ Sends(Loading(w, P))
          /\ UNCHANGED <<downloadPeer, estimated>>
       \/ /\ ~Sticks
          /\ \E d \in Candidates(p) :
             /\ status' = [q \in Peer |-> IF q = downloadPeer THEN "closing"
                                          ELSE IF q = p THEN "connected" ELSE status[q]]
             /\ downloadPeer' = d
             /\ estimated' = tip
             /\ Load({d})
             /\ IF lastBlock < tip
                THEN Sends(SendGetblocks(Loading(w, {d}), d, lastBlock))
                ELSE Sends(Loading(Loading(w, {d}), (Connected \cup {p}) \ {d, downloadPeer}))
    /\ shared' = (shared \/ \E q \in Peer : status[q] # "none")
    /\ UNCHANGED <<tip, lastBlock, wallet, in, watched, losses>>

(* The thread of a peer ends: its pongs fail, which changes nothing here,  *)
(* and _peerDisconnected gives up the download peer.                       *)
Disconnected(p) ==
    /\ status' = [status EXCEPT ![p] = "none"]
    /\ ctx' = [ctx EXCEPT ![p] = Closed]
    /\ out' = [out EXCEPT ![p] = <<>>] /\ in' = [in EXCEPT ![p] = <<>>]
    /\ watched' = [watched EXCEPT ![p] = 0]
    /\ downloadPeer' = IF p = downloadPeer THEN NoPeer ELSE downloadPeer
    /\ UNCHANGED <<tip, lastBlock, estimated, orphans, lastOrphan, wallet, filter, shared>>

Lose(p) ==
    /\ p \in Connected /\ ctx[p].current = 0
    /\ losses < MaxLosses
    /\ losses' = losses + 1
    /\ Disconnected(p)

Leave(p) ==
    /\ status[p] = "closing" /\ ctx[p].current = 0
    /\ Disconnected(p)
    /\ UNCHANGED losses

(* A download peer that sends nothing for PROTOCOL_TIMEOUT is dropped.     *)
TimeOut(p) ==
    /\ p \in Connected /\ p = downloadPeer /\ Syncing
    /\ out[p] = <<>> /\ in[p] = <<>> /\ ctx[p].current = 0
    /\ Disconnected(p)
    /\ UNCHANGED losses

-----------------------------------------------------------------------------
(* The node *)

(* A merkle block names the transactions that match the filter, and they   *)
(* follow it at once: n of them.                                           *)
Matching(p, b) == IF Pays[b] \in 1..watched[p] THEN 1 ELSE 0

Answers(p, s) == [i \in 1..Len(s) |-> Merkle(s[i], Matching(p, s[i]))]

Replies(p, m) ==
    CASE m.type = "ping"      -> <<Pong>>
      [] m.type = "getblocks" -> IF m.n < tip THEN <<Inv(From(m.n + 1, tip))>> ELSE <<>>
      [] m.type = "getdata"   -> Answers(p, m.blocks)
      [] OTHER                -> <<>>

Serve(p) ==
    /\ p \in Connected /\ out[p] # <<>>
    /\ LET m == Head(out[p]) IN
       /\ in' = [in EXCEPT ![p] = @ \o Replies(p, m)]
       /\ watched' = IF m.type = "filterload" THEN [watched EXCEPT ![p] = m.n] ELSE watched
    /\ out' = [out EXCEPT ![p] = Tail(@)]
    /\ UNCHANGED <<tip, managerVars, status, ctx, losses, shared>>

(* A block is mined, and announced.                                        *)
Mine ==
    /\ tip < MaxTip
    /\ tip' = tip + 1
    /\ in' = [p \in Peer |-> IF p \in Connected THEN Append(in[p], Inv(<<tip + 1>>)) ELSE in[p]]
    /\ UNCHANGED <<managerVars, status, ctx, out, watched, losses, shared>>

-----------------------------------------------------------------------------
(* Messages of a peer *)

Received(p, type) ==
    /\ p \in Connected /\ ctx[p].current = 0
    /\ in[p] # <<>> /\ Head(in[p]).type = type
    /\ in' = [in EXCEPT ![p] = Tail(@)]
    /\ UNCHANGED <<tip, status, watched, losses, shared>>

(* _BRPeerAcceptInvMessage: blocks are remembered, and asked for unless a  *)
(* filter update is needed.  The last single block is not asked for twice. *)
Again(p, s) == Len(s) = 1 /\ s[1] = ctx[p].lastHash

InvHandled(p) ==
    /\ Received(p, "inv")
    /\ LET s == Head(in[p]).blocks
           listed == IF ~ctx[p].sent \/ Again(p, s) THEN <<>> ELSE s
           w == [Wire EXCEPT !.ctx[p].known = @ \o listed,
                             !.ctx[p].lastHash = IF Len(listed) = 1 THEN s[1] ELSE @]
       IN  Sends(IF listed = <<>> \/ ctx[p].needs THEN w ELSE Send(w, p, Getdata(listed)))
    /\ UNCHANGED managerVars

(* _BRPeerAcceptMerkleblockMessage: the block waits for its transaction.   *)
Awaits(p) == Head(in[p]).n > 0

MerkleHandled(p) ==
    /\ Received(p, "merkleblock") /\ ~Awaits(p)
    /\ ctx' = [ctx EXCEPT ![p].current = Head(in[p]).blocks[1]]
    /\ UNCHANGED <<managerVars, out>>

(* The transaction of a merkle block: _peerRelayedTx.                      *)
RelayedTx(p) ==
    /\ Received(p, "merkleblock") /\ Awaits(p)
    /\ LET b == Head(in[p]).blocks[1]
           w == [Wire EXCEPT !.ctx[p].current = b]
       IN  /\ wallet' = wallet \cup {b}
           /\ IF filter = 0 \/ Matches(filter, wallet')
              THEN Sends(w) /\ UNCHANGED filter
              ELSE Sends(UpdateFilter(w)) /\ filter' = 0
    /\ UNCHANGED <<lastBlock, estimated, orphans, lastOrphan, downloadPeer>>

(* _peerRelayedBlock.  An orphan that waited for the block is next.        *)
Next_(n, set) == IF n + 1 \in set THEN n + 1 ELSE 0

Rate(p, b, w) == IF p = downloadPeer /\ b \in Degraded THEN UpdateFilter(w) ELSE w

Dropped(p, w) ==
    /\ filter = 0
    /\ Sends(w)
    /\ UNCHANGED managerVars

Orphaned(p, b, w) ==
    /\ filter # 0 /\ b > lastBlock + 1
    /\ orphans' = orphans \cup {b}
    /\ lastOrphan' = b
    /\ IF lastBlock >= ctx[p].reported /\ (lastOrphan = 0 \/ lastOrphan # b - 1)
       THEN Sends(SendGetblocks(w, p, lastBlock)) ELSE Sends(w)
    /\ UNCHANGED <<lastBlock, estimated, wallet, downloadPeer, filter>>

Existing(p, b, w) ==
    /\ filter # 0 /\ b <= lastBlock
    /\ Sends([w EXCEPT !.ctx[p].current = Next_(b, orphans)])
    /\ orphans' = orphans \ {b + 1}
    /\ lastOrphan' = IF lastOrphan = b THEN 0 ELSE lastOrphan
    /\ UNCHANGED <<lastBlock, estimated, wallet, downloadPeer, filter>>

(* At the estimated height every other peer gets a filter, and with the    *)
(* first of these the orphans are gone.                                    *)
Extends(p, b, w) ==
    /\ filter # 0 /\ b = lastBlock + 1
    /\ lastBlock' = b
    /\ estimated' = Max({estimated, b})
    /\ LET P == IF b = estimated THEN Connected \ {downloadPeer} ELSE {} IN
       IF P # {}
       THEN Load(P) /\ Sends(Loading(w, P))
       ELSE /\ Sends([w EXCEPT !.ctx[p].current = Next_(b, orphans)])
            /\ orphans' = orphans \ {b + 1}
            /\ UNCHANGED <<filter, lastOrphan>>
    /\ UNCHANGED <<wallet, downloadPeer>>

RelayedBlock(p) ==
    /\ ctx[p].current # 0
    /\ LET b == ctx[p].current
           w == Rate(p, b, [Wire EXCEPT !.ctx[p].current = 0])
       IN  Dropped(p, w) \/ Orphaned(p, b, w) \/ Existing(p, b, w) \/ Extends(p, b, w)
    /\ UNCHANGED <<tip, status, in, watched, losses, shared>>

(* As if a callback waited for every pong that comes.                      *)
StillWaiting(p) == Wire

(* A pong calls the first of the callbacks that wait.                      *)
Called(p, kind) ==
    /\ Received(p, "pong")
    /\ ctx[p].pongs[1].kind = kind

Answered(p) == [Wire EXCEPT !.ctx[p].pongs = Tail(@)]

(* _updateFilterPingDone: everything sent with the old filter has come.    *)
UpdateFilterPingDone(p) ==
    /\ Called(p, "update")
    /\ IF Syncing /\ downloadPeer = NoPeer
       THEN Sends(Answered(p)) /\ filter' = 0 /\ UNCHANGED <<orphans, lastOrphan>>
       ELSE LET P == IF Syncing THEN {downloadPeer} ELSE Connected
                w == Loading(Answered(p), P)
                asker(q) == IF Syncing THEN ctx[p].pongs[1].peer ELSE q
            IN  /\ Load(P)
                /\ ctx' = [q \in Peer |-> IF q \notin P THEN w.ctx[q]
                             ELSE [w.ctx[q] EXCEPT !.pongs =
                                     Append(@, [kind |-> "load", peer |-> asker(q)])]]
                /\ out' = [q \in Peer |-> IF q \in P THEN Append(w.out[q], Ping) ELSE w.out[q]]
    /\ UNCHANGED <<lastBlock, estimated, wallet, downloadPeer>>

(* BRPeerRerequestBlocks, from a block that the peer has announced.        *)
Forgotten(known, h) ==
    LET S == {i \in DOMAIN known : known[i] = h} IN
    IF S = {} THEN known ELSE SubSeq(known, Max(S), Len(known))

Rerequest(w, p, h) ==
    IF \E i \in DOMAIN w.ctx[p].known : w.ctx[p].known[i] = h
    THEN [w EXCEPT !.ctx[p].known = Forgotten(@, h),
                   !.out[p] = Append(@, Getdata(Forgotten(w.ctx[p].known, h)))]
    ELSE w

(* _updateFilterLoadDone: the node has the new filter.                     *)
UpdateFilterLoadDone(p) ==
    /\ Called(p, "load")
    /\ LET q == ctx[p].pongs[1].peer
           w == [Answered(p) EXCEPT !.ctx[q].needs = FALSE]
       IN  IF Syncing
           THEN /\ downloadPeer # NoPeer
                /\ Sends(SendPing(Rerequest(w, downloadPeer, lastBlock), downloadPeer,
                                  [kind |-> "rerequest", peer |-> q]))
           ELSE Sends(w)
    /\ UNCHANGED managerVars

(* _updateFilterRerequestDone: and what it sent again has come.            *)
UpdateFilterRerequestDone(p) ==
    /\ Called(p, "rerequest")
    /\ LET q == ctx[p].pongs[1].peer IN
       Sends(IF ctx[q].needs THEN Answered(p) ELSE SendGetblocks(Answered(p), q, lastBlock))
    /\ UNCHANGED managerVars

-----------------------------------------------------------------------------
Init ==
    /\ tip = FirstTip /\ lastBlock = 0 /\ estimated = 0
    /\ orphans = {} /\ lastOrphan = 0 /\ wallet = {}
    /\ downloadPeer = NoPeer /\ filter = 0
    /\ status = [p \in Peer |-> "none"] /\ ctx = [p \in Peer |-> Closed]
    /\ out = [p \in Peer |-> <<>>] /\ in = [p \in Peer |-> <<>>]
    /\ watched = [p \in Peer |-> 0] /\ losses = 0 /\ shared = FALSE

Handle(p) ==
    \/ InvHandled(p) \/ MerkleHandled(p) \/ RelayedTx(p) \/ RelayedBlock(p)
    \/ UpdateFilterPingDone(p) \/ UpdateFilterLoadDone(p) \/ UpdateFilterRerequestDone(p)

Next ==
    \/ \E p \in Peer : \/ PeerConnected(p) \/ Lose(p) \/ Leave(p) \/ TimeOut(p)
                       \/ Serve(p) \/ Handle(p)
    \/ Mine

Spec == Init /\ [][Next]_vars

(* Nodes answer, threads read what they are sent, and the manager goes on  *)
(* connecting; no block has to be mined, and no sync has to time out.      *)
FairSpec ==
    /\ Spec
    /\ \A p \in Peer : /\ WF_vars(PeerConnected(p)) /\ WF_vars(Leave(p))
                       /\ WF_vars(Serve(p)) /\ WF_vars(Handle(p))

-----------------------------------------------------------------------------
(* Properties *)

TypeOK ==
    /\ tip \in FirstTip..MaxTip /\ lastBlock \in 0..tip /\ estimated \in 0..tip
    /\ orphans \subseteq 1..tip /\ lastOrphan \in 0..tip /\ wallet \subseteq 1..tip
    /\ downloadPeer \in Connected \cup {NoPeer}
    /\ filter \in Nat /\ watched \in [Peer -> Nat]
    /\ status \in [Peer -> {"none", "connected", "closing"}] /\ shared \in BOOLEAN
    /\ \A p \in Peer :
          /\ ctx[p].needs \in BOOLEAN /\ ctx[p].current \in 0..tip
          /\ Len(ctx[p].pongs) =
                Cardinality({i \in DOMAIN out[p] : out[p][i].type = "ping"})
                + Cardinality({i \in DOMAIN in[p] : in[p][i].type = "pong"})

(* Every block of the chain that was accepted and that pays the wallet has *)
(* its transaction in the wallet, as long as one peer at a time was        *)
(* connected: whichever blocks were dropped while the filter was replaced  *)
(* came again, also over a lost connection, and none came through with a   *)
(* filter that was too old for it.                                         *)
AllScanned == \A b \in 1..lastBlock : Pays[b] # 0 => b \in wallet

ScanComplete == ~shared => AllScanned

(* A pong that comes finds the peer that its callback is about, and, while *)
(* a sync goes on, the download peer to which _updateFilterLoadDone turns: *)
(* the code uses both without a look.  It does not hold: a pong to one     *)
(* peer can outlive the connection of the other.                           *)
Answering(p) == p \in Connected /\ in[p] # <<>> /\ Head(in[p]).type = "pong"

CallbacksFindPeers ==
    \A p \in Peer : Answering(p) =>
        LET call == ctx[p].pongs[1] IN
        /\ status[call.peer] # "none"
        /\ call.kind = "load" /\ Syncing => downloadPeer # NoPeer

(* The height the network had at the start is reached, however often a     *)
(* filter is replaced or a connection is lost: blocks that were dropped,   *)
(* and announcements that were not followed, are asked for again.          *)
CatchesUp == <>(lastBlock >= FirstTip)

(* Blocks are dropped for as long as there is no filter: there is one      *)
(* again.                                                                  *)
FilterComesBack == (filter = 0) ~> (filter # 0)
=============================================================================
