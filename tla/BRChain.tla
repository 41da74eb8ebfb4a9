------------------------------ MODULE BRChain -------------------------------
(***************************************************************************)
(* The chain of merkle blocks: _peerRelayedBlock of BRPeerManager.c, what  *)
(* it keeps in manager->blocks and manager->orphans, how the wallet's      *)
(* heights follow it, what of it the app saves (saveBlocks and txUpdated,  *)
(* WalletManager.swift, which write on a queue of their own) and what      *)
(* BRPeerManagerNew makes of the saved rows.                               *)
(*                                                                         *)
(* Blocks are members of a tree that is given; a block that is relayed     *)
(* carries the hashes of its transactions, and these were registered in    *)
(* the wallet before.  The handler runs under manager->lock; it writes     *)
(* rows and goes on with an orphan that waited for the block after it      *)
(* released the lock, and these are steps of their own.                    *)
(***************************************************************************)
EXTENDS Integers, Sequences, FiniteSets, FiniteSetsExt

CONSTANTS
    Block,          \* the blocks of all branches
    NoBlock,        \* NULL
    Parent,         \* Parent[b]: the block b->prevBlock names
    Height,         \* Height[b]: how far b is from the first block
    Checkpoint,     \* params->checkpoints
    Interval,       \* BLOCK_DIFFICULTY_INTERVAL, 500 in the code
    Old,            \* blocks that are more than a week old
    Tx,             \* the wallet's transactions
    MinedIn,        \* MinedIn[t]: the blocks that hold t, one on each branch at most
    Unconfirmed,    \* TX_UNCONFIRMED
    Peer,
    LastOf,         \* LastOf[p]: the height p reported, BRPeerLastBlock
    MaxQueue,       \* bound: writes that wait in walletQueue
    MaxBreaks       \* bound: how often the app is started again, or rescans

ASSUME ChainAssumption ==
    /\ NoBlock \notin Block
    /\ IsFiniteSet(Block) /\ IsFiniteSet(Tx)
    /\ Parent \in [Block -> Block \cup {NoBlock}]
    /\ Height \in [Block -> Nat]
    /\ \A b \in Block : Parent[b] \in Block => Height[b] = Height[Parent[b]] + 1
    /\ \A b \in Block : Parent[b] = NoBlock => b \in Checkpoint
    /\ Checkpoint \subseteq Block /\ Checkpoint # {} /\ Old \subseteq Block
    /\ Interval \in Nat \ {0}
    /\ MinedIn \in [Tx -> SUBSET Block]
    /\ Unconfirmed \in Nat /\ \A b \in Block : Height[b] < Unconfirmed
    /\ LastOf \in [Peer -> Nat]
    /\ MaxQueue \in Nat \ {0} /\ MaxBreaks \in Nat

VARIABLES
    start,          \* the last checkpoint a week before earliestKeyTime
    blocks,         \* manager->blocks
    stubs,          \* those of them that are checkpoints, with no prevBlock
    orphans,        \* manager->orphans, by their prevBlock
    lastBlock,      \* manager->lastBlock
    estimated,      \* manager->estimatedHeight
    height,         \* height[t]: the block height of t in the wallet
    todo,           \* what the thread of a peer does once the lock is released
    queue,          \* the writes in walletQueue
    rows,           \* the rows of ZBRMERKLEBLOCKENTITY
    txRows,         \* the heights in ZBRTXMETADATAENTITY
    rejected,       \* blocks that were taken for invalid
    restarts,       \* how often the app was started again
    rescans         \* how often it scanned again

chainVars == <<blocks, stubs, orphans, lastBlock, rejected>>
savedVars == <<queue, rows, txRows>>
vars == <<start, chainVars, estimated, height, todo, savedVars, restarts, rescans>>

-----------------------------------------------------------------------------
(* Walks along prevBlock *)

LineFrom[b \in Block] == {b} \cup (IF Parent[b] = NoBlock THEN {} ELSE LineFrom[Parent[b]])

Line == [b \in Block |-> LineFrom[b]]

AncestorAt(b, h) == CHOOSE a \in Line[b] : Height[a] = h

(* The checkpoints are blocks of one branch, thousands of blocks apart.    *)
ASSUME CheckpointAssumption ==
    /\ \A c, d \in Checkpoint : c \in Line[d] \/ d \in Line[c]
    /\ \A c \in Checkpoint : Parent[c] \notin Checkpoint

(* From b, BRSetGet of one prevBlock after the other comes down to h.      *)
WalksIn(known, b, h) ==
    /\ \E a \in Line[b] : Height[a] = h
    /\ \A a \in Line[b] : h <= Height[a] /\ Height[a] < Height[b] =>
          a \in known /\ (a \in stubs => Height[a] = h)

Walks(b, h) == WalksIn(blocks, b, h)

IsTransition(b) == Height[b] % Interval = 0

(* _BRPeerManagerVerifyBlock: at a transition the previous one must be     *)
(* there, and what is older than that is freed.  A block at the height of  *)
(* a checkpoint must be the checkpoint.  The old blocks are gone even if   *)
(* the checkpoint differs.                                                 *)
MissesBeyond(b) == IsTransition(b) /\ ~Walks(b, Height[b] - Interval - 1)

MissesTransition(b) == IsTransition(b) /\ ~Walks(b, Height[b] - Interval)

DiffersFromCheckpoint(b) == \E c \in Checkpoint : Height[c] = Height[b] /\ c # b

Valid(b) == ~MissesTransition(b) /\ ~DiffersFromCheckpoint(b)

AllOlder(b) ==
    IF ~IsTransition(b) \/ MissesTransition(b) THEN {}
    ELSE {a \in Line[b] : /\ Height[a] < Height[b]
                          /\ Walks(b, Height[a])
                          /\ ~IsTransition(a)}

PrunedTransitions(b) ==
    IF ~IsTransition(b) \/ MissesTransition(b) THEN {}
    ELSE {a \in Line[b] : Height[a] < Height[b] - Interval /\ Walks(b, Height[a])}

Pruned(b) == {a \in AllOlder(b) : Height[a] < Height[b] - Interval}

KeptNewest(b) == blocks \ (Pruned(b) \cup PrunedTransitions(b))

(* What verifying b leaves in the set; every way on from there adds to it, *)
(* and but for invalid blocks and old forks takes an orphan out.           *)
Kept(b) == blocks \ Pruned(b)

KeptStubs(b) == stubs \ Pruned(b)

-----------------------------------------------------------------------------
(* What the handler leaves to be done without the lock *)

Idle == [replace |-> FALSE, save |-> {}, next |-> NoBlock]

(* The orphan whose prevBlock is b, if there is one.                       *)
Adoptee(b) == IF \E o \in orphans : Parent[o] = b THEN CHOOSE o \in orphans : Parent[o] = b
              ELSE NoBlock

AddOrphan(o, set) == {x \in set : Parent[x] # Parent[o]} \cup {o}

(* The count blocks up to b, cut so that they begin at a transition.       *)
SaveUntrimmed(b, count, known) ==
    {a \in Line[b] : /\ Height[a] > Height[b] - count
                     /\ \A x \in Line[b] : Height[a] <= Height[x] /\ x # b =>
                            x \in known /\ (x \in stubs => x = a)}

Trimmed(S) ==
    {a \in S : \E x \in S : IsTransition(x) /\ Height[x] <= Height[a]}

SaveBlocks(b, count, known) == Trimmed(SaveUntrimmed(b, count, known))

(* How many blocks are saved when b has become lastBlock.                  *)
SaveCount(b, extends) ==
    IF Height[b] = estimated THEN (Height[b] % Interval) + Interval + 1
    ELSE IF extends /\ IsTransition(b) THEN 1 ELSE 0

(* The end of _peerRelayedBlock, for a block whose height is known.        *)
Finish(p, b, count, known) ==
    LET save == SaveBlocks(b, count, known) IN
    /\ estimated' = Max({estimated, Height[b]})
    /\ todo' = [todo EXCEPT ![p] = [replace |-> Cardinality(save) > 1, save |-> save,
                                    next |-> Adoptee(b)]]

FinishQuietly(p) ==
    /\ todo' = [todo EXCEPT ![p] = Idle]
    /\ UNCHANGED estimated

(* The height of b's transactions, in the wallet and in a write.           *)
TxIn(b) == {t \in Tx : b \in MinedIn[t]}

SetHeights(f, T, h) == [t \in Tx |-> IF t \in T THEN h ELSE f[t]]

HeightsOp(T, h) == [kind |-> "heights", txs |-> T, height |-> h, replace |-> FALSE, blocks |-> {}]
BlocksOp(r, S)  == [kind |-> "blocks", txs |-> {}, height |-> 0, replace |-> r, blocks |-> S]

Queued(q, T, h) == IF T = {} THEN q ELSE Append(q, HeightsOp(T, h))

Confirm(b) ==
    /\ height' = SetHeights(height, TxIn(b), Height[b])
    /\ queue' = Queued(queue, TxIn(b), Height[b])

-----------------------------------------------------------------------------
(* _peerRelayedBlock, one action for each of its branches *)

(* The block is an orphan; one that is more than a week old is ignored.    *)
RelayOrphan(p, b) ==
    /\ Parent[b] \notin blocks
    /\ orphans' = IF b \in Old THEN orphans ELSE AddOrphan(b, orphans)
    /\ FinishQuietly(p)
    /\ UNCHANGED <<blocks, stubs, lastBlock, rejected, height, queue>>

(* What is freed while it is verified does not come back.                  *)
RelayInvalid(p, b) ==
    /\ Parent[b] \in blocks
    /\ ~Valid(b)
    /\ rejected' = rejected \cup {b}
    /\ blocks' = Kept(b) /\ stubs' = KeptStubs(b)
    /\ FinishQuietly(p)
    /\ UNCHANGED <<orphans, lastBlock, height, queue>>

Verified(b) == Parent[b] \in blocks /\ Valid(b)

RelayExtension(p, b) ==
    /\ Verified(b)
    /\ Parent[b] = lastBlock
    /\ blocks' = Kept(b) \cup {b}
    /\ stubs' = KeptStubs(b) \ {b}
    /\ orphans' = orphans \ {Adoptee(b)}
    /\ lastBlock' = b
    /\ Confirm(b)
    /\ Finish(p, b, SaveCount(b, TRUE), blocks')
    /\ UNCHANGED rejected

(* A block that is there already: if it is on the main chain, its          *)
(* transactions get their heights.                                         *)
OnMainChain(b) ==
    /\ Height[b] <= Height[lastBlock]
    /\ WalksIn(Kept(b), lastBlock, Height[b])
    /\ b \in Line[lastBlock]

RelayExisting(p, b) ==
    /\ Verified(b)
    /\ Parent[b] # lastBlock
    /\ b \in Kept(b)
    /\ blocks' = Kept(b)
    /\ stubs' = KeptStubs(b) \ {b}
    /\ orphans' = orphans \ {Adoptee(b)}
    /\ IF OnMainChain(b) THEN Confirm(b) ELSE UNCHANGED <<height, queue>>
    /\ Finish(p, b, 0, blocks')
    /\ UNCHANGED <<lastBlock, rejected>>

New(p, b) ==
    /\ Verified(b)
    /\ Parent[b] # lastBlock
    /\ b \notin Kept(b)

(* "new block mined durring rescan"                                        *)
MinedDuringRescan(p, b) ==
    Height[lastBlock] < LastOf[p] /\ Height[b] > Height[lastBlock] + 1

RelayDuringRescan(p, b) ==
    /\ New(p, b) /\ MinedDuringRescan(p, b)
    /\ blocks' = Kept(b) /\ stubs' = KeptStubs(b)
    /\ orphans' = AddOrphan(b, orphans) \ {Adoptee(b)}
    /\ Finish(p, b, 0, blocks')
    /\ UNCHANGED <<lastBlock, rejected, height, queue>>

OldFork(b) == Height[b] <= Max({Height[c] : c \in Checkpoint})

RelayOldFork(p, b) ==
    /\ New(p, b) /\ ~MinedDuringRescan(p, b)
    /\ OldFork(b)
    /\ blocks' = Kept(b) /\ stubs' = KeptStubs(b)
    /\ FinishQuietly(p)
    /\ UNCHANGED <<orphans, lastBlock, rejected, height, queue>>

(* A fork that is not longer than the main chain is kept beside it.        *)
Fork(p, b) == New(p, b) /\ ~MinedDuringRescan(p, b) /\ ~OldFork(b)

RelayFork(p, b) ==
    /\ Fork(p, b)
    /\ Height[b] <= Height[lastBlock]
    /\ blocks' = Kept(b) \cup {b} /\ stubs' = KeptStubs(b)
    /\ orphans' = orphans \ {Adoptee(b)}
    /\ Finish(p, b, 0, blocks')
    /\ UNCHANGED <<lastBlock, rejected, height, queue>>

(* The two walks of a reorganisation stop where they meet, or where one    *)
(* of them comes to a block that is not there.                             *)
Join(b) ==
    Max({h \in 0..Height[lastBlock] :
            \/ ~WalksIn(Kept(b), lastBlock, h) \/ ~WalksIn(Kept(b), b, h)
            \/ AncestorAt(b, h) = AncestorAt(lastBlock, h)})

Joined(b, h) == WalksIn(Kept(b), b, h) /\ WalksIn(Kept(b), lastBlock, h)

(* BRWalletSetTxUnconfirmedAfter, then BRWalletUpdateTransactions for the  *)
(* blocks of the new main chain from the newest to the oldest, unless the  *)
(* old one's walk came to an end.                                          *)
Unconfirming(h) == {t \in Tx : height[t] > h}

KeptHeights(b, h) ==
    [t \in Tx |->
        LET found == {a \in MinedIn[t] \cap Line[b] : Height[a] > h}
        IN  IF Joined(b, h) /\ found # {} THEN Min({Height[a] : a \in found}) ELSE height[t]]

NewHeights(b, h) ==
    [t \in Tx |->
        LET found == {a \in MinedIn[t] \cap Line[b] : Height[a] > h}
        IN  IF Joined(b, h) /\ found # {} THEN Min({Height[a] : a \in found})
            ELSE IF t \in Unconfirming(h) THEN Unconfirmed ELSE height[t]]

UnconfirmWrites(b, h) == Queued(queue, Unconfirming(h), Unconfirmed)

WritesOf(b, n, q) ==
    LET a == AncestorAt(b, Height[b] - n + 1) IN Queued(q, TxIn(a), Height[a])

NewestWrites(b, q) ==
    LET newest[n \in Nat] == IF n = 0 THEN q ELSE WritesOf(b, n, newest[n - 1]) IN newest

Writes(b, h) ==
    NewestWrites(b, UnconfirmWrites(b, h))[IF Joined(b, h) THEN Height[b] - h ELSE 0]

Reorganize(p, b) ==
    /\ Fork(p, b)
    /\ Height[b] > Height[lastBlock]
    /\ WalksIn(Kept(b), b, Join(b))     \* the block it ends at is used unchecked
    /\ blocks' = Kept(b) \cup {b} /\ stubs' = KeptStubs(b)
    /\ orphans' = orphans \ {Adoptee(b)}
    /\ lastBlock' = b
    /\ height' = NewHeights(b, Join(b))
    /\ queue' = Writes(b, Join(b))
    /\ Finish(p, b, SaveCount(b, FALSE), blocks')
    /\ UNCHANGED rejected

Relayed(p, b) ==
    \/ RelayOrphan(p, b) \/ RelayInvalid(p, b)
    \/ RelayExtension(p, b) \/ RelayExisting(p, b)
    \/ RelayDuringRescan(p, b) \/ RelayOldFork(p, b)
    \/ RelayFork(p, b) \/ Reorganize(p, b)

-----------------------------------------------------------------------------
(* Steps *)

(* A peer sends a block; none sends a checkpoint of height 0.              *)
Relay(p, b) ==
    /\ todo[p] = Idle
    /\ Parent[b] # NoBlock
    /\ lastBlock \in blocks
    /\ Len(queue) < MaxQueue
    /\ Relayed(p, b)
    /\ UNCHANGED <<start, rows, txRows, restarts, rescans>>

(* saveBlocks is called, and puts the write into the queue.                *)
Save(p) ==
    /\ todo[p].save # {}
    /\ queue' = Append(queue, BlocksOp(todo[p].replace, todo[p].save))
    /\ todo' = [todo EXCEPT ![p].save = {}, ![p].replace = FALSE]
    /\ UNCHANGED <<start, chainVars, estimated, height, rows, txRows, restarts, rescans>>

(* The orphan that waited for the block is relayed in its turn.            *)
Adopt(p) ==
    /\ todo[p].save = {} /\ todo[p].next # NoBlock
    /\ lastBlock \in blocks
    /\ Relayed(p, todo[p].next)
    /\ UNCHANGED <<start, rows, txRows, restarts, rescans>>

(* Another peer becomes the download peer.                                 *)
SelectDownloadPeer(p) ==
    /\ estimated' = LastOf[p]
    /\ UNCHANGED <<start, chainVars, height, todo, savedVars, restarts, rescans>>

(* The app's queue writes.                                                 *)
Write ==
    /\ queue # <<>>
    /\ LET op == Head(queue) IN
       /\ txRows' = SetHeights(txRows, op.txs, op.height)
       /\ rows' = IF op.kind = "heights" THEN rows
                  ELSE (IF op.replace THEN {} ELSE rows) \cup op.blocks
    /\ queue' = Tail(queue)
    /\ UNCHANGED <<start, chainVars, estimated, height, todo, restarts, rescans>>

(* BRPeerManagerRescan: the checkpoint is taken from the set of blocks.    *)
Rescan ==
    /\ restarts + rescans < MaxBreaks
    /\ rescans' = rescans + 1
    /\ lastBlock' = IF start \in blocks THEN start ELSE NoBlock
    /\ UNCHANGED <<start, blocks, stubs, orphans, rejected, estimated, height, todo, savedVars,
                   restarts>>

(* BRPeerManagerNew with what the rows hold.  Of two rows with the same    *)
(* parent one stays among the orphans.                                     *)
Restored(loaded, top) ==
    {a \in loaded \cup {top} :
        top \in Line[a] /\ \A x \in Line[a] : Height[x] > Height[top] => x \in loaded}

NewestLoaded == {t \in rows : \A x \in rows : Height[x] <= Height[t]}

LastTransitions ==
    {t \in rows : /\ IsTransition(t)
                  /\ \A x \in rows : IsTransition(x) => Height[x] <= Height[t]}

New_(loaded) ==
    IF LastTransitions # {}
    THEN \E top \in LastTransitions :
            /\ LET chain == Restored(loaded, top) IN
               /\ blocks' = Checkpoint \cup chain
               /\ stubs' = Checkpoint \ chain
               /\ orphans' = {o \in loaded : \A a \in chain : Parent[a] # Parent[o]}
               /\ lastBlock' = CHOOSE a \in chain : \A x \in chain : Height[x] <= Height[a]
    ELSE /\ blocks' = Checkpoint /\ stubs' = Checkpoint
         /\ orphans' = loaded
         /\ lastBlock' = start

Restart ==
    /\ restarts + rescans < MaxBreaks
    /\ restarts' = restarts + 1
    /\ queue' = <<>>
    /\ todo' = [p \in Peer |-> Idle]
    /\ height' = txRows
    /\ estimated' = 0
    /\ \E loaded \in SUBSET rows :
          /\ \A r \in rows : \E o \in loaded : Parent[o] = Parent[r]
          /\ \A o, r \in loaded : Parent[o] = Parent[r] => o = r
          /\ New_(loaded)
    /\ UNCHANGED <<start, rejected, rows, txRows, rescans>>

Init ==
    /\ start \in Checkpoint
    /\ blocks = Checkpoint /\ stubs = Checkpoint
    /\ orphans = {} /\ rejected = {}
    /\ lastBlock = start
    /\ estimated = 0
    /\ height = [t \in Tx |-> Unconfirmed] /\ txRows = height
    /\ todo = [p \in Peer |-> Idle]
    /\ queue = <<>> /\ rows = {}
    /\ restarts = 0 /\ rescans = 0

Next ==
    \/ \E p \in Peer : \/ \E b \in Block : Relay(p, b)
                       \/ Save(p) \/ Adopt(p) \/ SelectDownloadPeer(p)
    \/ Write \/ Rescan \/ Restart

Spec == Init /\ [][Next]_vars

-----------------------------------------------------------------------------
(* Properties *)

Ops == [kind : {"heights", "blocks"}, txs : SUBSET Tx, height : Nat, replace : BOOLEAN,
        blocks : SUBSET Block]

TypeOK ==
    /\ start \in Checkpoint
    /\ blocks \subseteq Block /\ stubs \subseteq blocks /\ orphans \subseteq Block
    /\ lastBlock \in Block \cup {NoBlock}
    /\ estimated \in Nat
    /\ height \in [Tx -> Nat] /\ txRows \in [Tx -> Nat]
    /\ todo \in [Peer -> [replace : BOOLEAN, save : SUBSET Block, next : Block \cup {NoBlock}]]
    /\ queue \in Seq(Ops)
    /\ rows \subseteq Block /\ rejected \subseteq Block
    /\ restarts \in Nat /\ rescans \in Nat /\ restarts + rescans <= MaxBreaks

(* Unless the app scans again, lastBlock is one of the blocks that are     *)
(* kept, and so are its ancestors down to the transition before the last,  *)
(* or to the checkpoint or the saved transition the chain started from:    *)
(* pruning, forks and restarts leave what the next transition, a           *)
(* reorganisation and the locators walk along.                             *)
LastBlockRooted ==
    rescans = 0 =>
        /\ lastBlock \in blocks
        /\ \E r \in Line[lastBlock] :
              /\ r \in stubs \/ IsTransition(r)
              /\ Walks(lastBlock, Height[r])

(* No block of the chain is taken for invalid, whatever the order of       *)
(* blocks, pruning and restarts: the peer that sent it would be dropped    *)
(* for misbehaving, and the sync would not get past it.                    *)
HonestAccepted ==
    \A b \in rejected : DiffersFromCheckpoint(b)

(* On the branch that has the most blocks in the end, a transaction in a   *)
(* block between the start and lastBlock has the height of that block,     *)
(* whether the block extended the chain, was relayed again, came with a    *)
(* reorganisation, or was read from the rows after the app was killed:     *)
(* rows of blocks and of transactions are written by callbacks of          *)
(* different threads.  (Off that branch a restart may go back to a block   *)
(* whose transactions were unconfirmed since.)                             *)
Best == {b \in Block : \A x \in Block : Height[x] <= Height[b]}

MinedHaveHeights ==
    rescans = 0 /\ lastBlock \in blocks /\ (\E x \in Best : lastBlock \in Line[x]) =>
        \A t \in Tx : \A b \in MinedIn[t] :
            b \in Line[lastBlock] /\ Height[b] > Height[start] => height[t] = Height[b]

(* A reorganisation whose walks meet leaves no transaction confirmed in a  *)
(* block of the branch it left: what had the height of its block on the    *)
(* old branch has that of its block on the new one, or none.  (What a      *)
(* restart left confirmed on neither branch may stay so, and the walk on   *)
(* the old branch ends early where a transition has freed its blocks.)     *)
HeightIsMined(t, h, b) ==
    Height[start] < h /\ h <= Height[b] => AncestorAt(b, h) \in MinedIn[t]

ReorgUnconfirms ==
    [][ /\ lastBlock \in blocks /\ lastBlock' \in blocks' /\ restarts' = restarts
        /\ lastBlock \notin Line[lastBlock'] /\ lastBlock' \notin Line[lastBlock]
        /\ Joined(lastBlock', Join(lastBlock'))
        => \A t \in Tx : HeightIsMined(t, height[t], lastBlock) =>
                           HeightIsMined(t, height'[t], lastBlock')]_vars

-----------------------------------------------------------------------------
(* What comments of the code say and the code does not keep *)

(* A block mined during a rescan is an "orphan until rescan completes".    *)
LastBlockKnown == lastBlock \in blocks

(* A transaction whose height is at most that of lastBlock is in a block   *)
(* of the chain at that height.                                            *)
ConfirmedAreMined ==
    lastBlock \in blocks =>
        \A t \in Tx : height[t] <= Height[lastBlock] /\ height[t] > Height[start] =>
            AncestorAt(lastBlock, height[t]) \in MinedIn[t]
=============================================================================
