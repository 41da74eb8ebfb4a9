------------------------------ MODULE BRWallet ------------------------------
(***************************************************************************)
(* The ledger of the wallet, BRWallet.c: which transactions it holds, in   *)
(* which order, which of them it considers invalid or pending, and the     *)
(* balance, unspent outputs and history it computes from them.             *)
(*                                                                         *)
(* Every function that changes the wallet is called by the peer manager    *)
(* with the manager's lock held, so one call is one step.  Next is made of *)
(* those calls, driven by an honest chain of blocks (mined, tip) that      *)
(* grows and is reorganised, and by peers that relay, vouch for or drop    *)
(* unconfirmed transactions in any order.                                  *)
(***************************************************************************)
EXTENDS BRTransactions

CONSTANTS
    GapLimit,   \* SEQUENCE_GAP_LIMIT_INTERNAL and _EXTERNAL, by chain
    MaxTip,     \* bound: height of the highest block
    MaxBlockTx, \* bound: transactions of one block
    MaxChain    \* bound: addresses of one chain

ASSUME WalletAssumption ==
    /\ MaxTip \in Nat /\ MaxTip < TX_UNCONFIRMED
    /\ MaxBlockTx \in Nat
    /\ MaxChain \in Nat
    /\ GapLimit \in [Chains -> 1..MaxChain]

VARIABLES
    allTx,          \* every transaction the wallet keeps, its own or not
    transactions,   \* the wallet's own, oldest first
    height,         \* height[t]: tx->blockHeight
    timestamp,      \* timestamp[t]: tx->timestamp, 0 unverified, 1 some time
    blockHeight,    \* wallet->blockHeight
    chainLen,       \* how many addresses of each chain were generated
    ledger,         \* what _BRWalletUpdateBalance last computed
    saved,          \* saved[t]: the height of t the app was last told, or NotSaved
    mined,          \* mined[t]: height of the block of the best chain that holds t
    tip             \* height of the best chain

walletVars == <<allTx, transactions, height, timestamp, blockHeight, chainLen, ledger, saved>>
vars == <<allTx, transactions, height, timestamp, blockHeight, chainLen, ledger, saved, mined, tip>>

NotSaved  == TX_UNCONFIRMED + 1
Heights   == (0..MaxTip) \cup {TX_UNCONFIRMED}

AddrsOf(len) == UNION {{<<c, i>> : i \in 0..(len[c] - 1)} : c \in Chains}
allAddrs     == AddrsOf(chainLen)

-----------------------------------------------------------------------------
(* Order of the transactions array *)

(* Equal heights: t1 comes after t2 if it spends t2, directly or through   *)
(* ancestors of the same height that the wallet knows; an ancestor of      *)
(* another height decides by that height.                                  *)
SameHeightAscending(all, hgt, t1, t2) ==
    LET asc[t \in Tx] ==
          \/ hgt[t] > hgt[t2]
          \/ /\ hgt[t] = hgt[t2]
             /\ \/ t2 \in Parents(t)
                \/ /\ t \notin Parents(t2)
                   /\ \E p \in Parents(t) \cap all : asc[p]
    IN  asc[t1]

TxIsAscending(all, hgt, t1, t2) ==
    \/ hgt[t1] > hgt[t2]
    \/ hgt[t1] = hgt[t2] /\ SameHeightAscending(all, hgt, t1, t2)

(* Positions in chain c of the addresses t pays to, and the last of them.  *)
Positions(t, c)      == {i \in 0..(chainLen[c] - 1) : <<c, i>> \in Addresses(t)}
TxChainIndex(t, c)   == Max(Positions(t, c))
OnChain(t, c)        == Positions(t, c) # {}

ChainIndexAfter(t1, t2) ==
    LET c == IF OnChain(t1, "internal") THEN "internal" ELSE "external"
    IN  /\ OnChain(t1, c) /\ OnChain(t2, c)
        /\ TxChainIndex(t1, c) > TxChainIndex(t2, c)

(* _BRWalletTxCompare(t1, t2) > 0 *)
TxAfter(all, hgt, t1, t2) ==
    \/ TxIsAscending(all, hgt, t1, t2)
    \/ ~TxIsAscending(all, hgt, t2, t1) /\ ChainIndexAfter(t1, t2)

(* The insertion sort walks back over the transactions that belong after t *)
(* and stops at the first that does not.                                   *)
InsertPosition(all, hgt, txs, t) ==
    CHOOSE i \in 0..Len(txs) :
        /\ i > 0 => ~TxAfter(all, hgt, txs[i], t)
        /\ \A j \in (i + 1)..Len(txs) : TxAfter(all, hgt, txs[j], t)

InsertTx(all, hgt, txs, t) == InsertAt(txs, InsertPosition(all, hgt, txs, t) + 1, t)

(* txs with the transactions of D taken out *)
Without(txs, D) ==
    LET keep[i \in 0..Len(txs)] ==
          IF i = 0 THEN <<>>
          ELSE IF txs[i] \in D THEN keep[i - 1] ELSE Append(keep[i - 1], txs[i])
    IN  keep[Len(txs)]

-----------------------------------------------------------------------------
(* What the wallet concludes from its transactions *)

IsWalletOutput(o, addrs) == Exists(o) /\ Address(o) \in addrs

(* _BRWalletContainsTx: t pays the wallet, or spends an output of a known  *)
(* transaction that does.                                                  *)
ContainsTx(all, t) ==
    \/ \E o \in OutPoints(t) : IsWalletOutput(o, allAddrs)
    \/ \E o \in Inputs[t] : o[1] \in all /\ IsWalletOutput(o, allAddrs)

EmptyLedger ==
    [spentOutputs |-> {}, invalidTx |-> {}, pendingTx |-> {}, usedAddrs |-> {}, utxos |-> {},
     balance |-> 0, balanceHist |-> <<>>, totalSent |-> 0, totalReceived |-> 0]

SpendsLostChildOnly(l, t) == Parents(t) \cap l.invalidTx # {}

SpendsLost(l, t) ==
    \/ Inputs[t] \cap l.spentOutputs # {}
    \/ Parents(t) \cap l.invalidTx # {}

MustWait(l, bh, t) ==
    \/ t \in Postdated
    \/ LockHeight[t] > bh + 1
    \/ Parents(t) \cap l.pendingTx # {}

WithHist(l) == [l EXCEPT !.balanceHist = Append(@, l.balance)]

(* The outputs that stop being unspent when t counts: spent by t, or spent *)
(* by a transaction that was ordered before the one that created them.     *)
GoneByInputs(l, t, paid) == l.utxos \cap Inputs[t]

Gone(l, t, paid) == (l.utxos \cup paid) \cap (l.spentOutputs \cup Inputs[t])

(* t counts: its outputs to the wallet are unspent from now on, unless a   *)
(* transaction of the wallet already spends them.                          *)
Applied(l, t) ==
    LET spent == l.spentOutputs \cup Inputs[t]
        paid  == {o \in OutPoints(t) : Address(o) \in allAddrs}
        gone  == Gone(l, t, paid)
        after == l.balance + Total(paid) - Total(gone)
    IN  [l EXCEPT !.spentOutputs = spent,
                  !.usedAddrs = @ \cup Addresses(t),
                  !.utxos = (@ \cup paid) \ gone,
                  !.balance = after,
                  !.balanceHist = Append(@, after),
                  !.totalReceived = @ + (IF after > l.balance THEN after - l.balance ELSE 0),
                  !.totalSent = @ + (IF after < l.balance THEN l.balance - after ELSE 0)]

(* One turn of the loop of _BRWalletUpdateBalance *)
Account(l, hgt, bh, t) ==
    IF hgt[t] = TX_UNCONFIRMED /\ SpendsLost(l, t)
    THEN WithHist([l EXCEPT !.invalidTx = @ \cup {t}])
    ELSE IF hgt[t] = TX_UNCONFIRMED /\ MustWait(l, bh, t)
    THEN WithHist([l EXCEPT !.spentOutputs = @ \cup Inputs[t], !.pendingTx = @ \cup {t}])
    ELSE Applied(l, t)

UpdateBalance(txs, hgt, bh) ==
    LET led[i \in 0..Len(txs)] ==
          IF i = 0 THEN EmptyLedger ELSE Account(led[i - 1], hgt, bh, txs[i])
    IN  led[Len(txs)]

(* BRWalletUnusedAddrs: the chain grows one address at a time until its    *)
(* last gap addresses are all unused.                                      *)
Enough(n, used, c, gap) ==
    n >= gap /\ \A i \in (n - gap)..(n - 1) : <<c, i>> \notin used

Grown(len, used, c, gap) ==
    CHOOSE n \in len..MaxChain :
        /\ Enough(n, used, c, gap) \/ n = MaxChain
        /\ \A m \in len..(n - 1) : ~Enough(m, used, c, gap)

-----------------------------------------------------------------------------
(* The operations *)

Init ==
    /\ allTx = {}
    /\ transactions = <<>>
    /\ height = [t \in Tx |-> TX_UNCONFIRMED]
    /\ timestamp = [t \in Tx |-> 0]
    /\ blockHeight = 0
    /\ chainLen = GapLimit
    /\ ledger = EmptyLedger
    /\ saved = [t \in Tx |-> NotSaved]
    /\ mined = [t \in Tx |-> TX_UNCONFIRMED]
    /\ tip = 0

(* A transaction that is no business of the wallet's is kept as long as it *)
(* is unconfirmed; one that is enters the ledger, then the address chains  *)
(* grow past the addresses it used, then the callbacks run.                *)
RegisterTransaction(t) ==
    /\ t \notin allTx
    /\ allTx' = allTx \cup {t}
    /\ IF ContainsTx(allTx, t)
       THEN /\ transactions' = InsertTx(allTx', height, transactions, t)
            /\ ledger' = UpdateBalance(transactions', height, blockHeight)
            /\ chainLen' = [c \in Chains |->
                              Grown(chainLen[c], ledger'.usedAddrs, c, GapLimit[c])]
            /\ saved' = [saved EXCEPT ![t] = height[t]]
       ELSE UNCHANGED <<transactions, ledger, chainLen, saved>>
    /\ UNCHANGED <<height, timestamp, blockHeight>>

(* The transactions of the wallet that RemoveTransaction(t) takes with t:  *)
(* its scan for spenders starts at the newest and ends at the first        *)
(* transaction older than t.                                               *)
Dependents(t) ==
    {transactions[i] : i \in {j \in 1..Len(transactions) :
        /\ \A k \in j..Len(transactions) : height[transactions[k]] >= height[t]
        /\ t \in Parents(transactions[j])}}

(* t, its dependents, theirs, and so on: what every set does that holds t  *)
(* and, with a transaction, its dependents.                                *)
Removed(t) ==
    LET dependents == [d \in allTx |-> Dependents(d)]
        closed == {D \in SUBSET allTx : t \in D /\ \A d \in D : dependents[d] \subseteq D}
    IN  {u \in allTx : \A D \in closed : u \in D}

RemoveTransaction(t) ==
    /\ t \in allTx
    /\ \E gone \in {Removed(t)} :
           /\ allTx' = allTx \ gone
           /\ transactions' = Without(transactions, gone)
           /\ height' = [u \in Tx |-> IF u \in gone THEN TX_UNCONFIRMED ELSE height[u]]
           /\ timestamp' = [u \in Tx |-> IF u \in gone THEN 0 ELSE timestamp[u]]
           /\ saved' = [u \in Tx |-> IF u \in gone THEN NotSaved ELSE saved[u]]
    /\ ledger' = UpdateBalance(transactions', height', blockHeight)
    /\ UNCHANGED <<blockHeight, chainLen>>

(* The txUpdated callback: the rows the app has for S get height h.        *)
ToldIfFlagged(S, h) ==
    [t \in Tx |-> IF t \in S \cap (ledger.pendingTx \cup ledger.invalidTx) THEN h ELSE saved[t]]

Told(S, h) == [t \in Tx |-> IF t \in S /\ saved[t] # NotSaved THEN h ELSE saved[t]]

FlaggedPending(t) == t \in ledger.pendingTx

Flagged(t) == t \in ledger.pendingTx \cup ledger.invalidTx

(* One turn of the loop of BRWalletUpdateTransactions *)
MovedInPlace(all, hgt, txs, t) == txs

MovedTwice(all, hgt, txs, t) ==
    IF t \in ToSet(txs) THEN InsertTx(all, hgt, txs, t) ELSE txs

Moved(all, hgt, txs, t) ==
    IF t \in ToSet(txs) THEN InsertTx(all, hgt, Without(txs, {t}), t) ELSE txs

Updated(u, t, h, ts) ==
    IF t \notin u.all \/ (u.hgt[t] = h /\ u.stamp[t] = ts) THEN u
    ELSE IF ContainsTx(u.all, t)
    THEN LET hgt == [u.hgt EXCEPT ![t] = h]
         IN  [u EXCEPT !.hgt = hgt, !.stamp[t] = ts,
                       !.txs = Moved(u.all, hgt, @, t),
                       !.told = @ \cup {t},
                       !.stale = @ \/ Flagged(t)]
    ELSE IF h # TX_UNCONFIRMED
    THEN [u EXCEPT !.all = @ \ {t}, !.hgt[t] = TX_UNCONFIRMED, !.stamp[t] = 0]
    ELSE [u EXCEPT !.hgt[t] = h, !.stamp[t] = ts]

UpdateTransactions(hashes, h, ts) ==
    LET run[i \in 0..Len(hashes)] ==
          IF i = 0
          THEN [all |-> allTx, txs |-> transactions, hgt |-> height, stamp |-> timestamp,
                told |-> {}, stale |-> FALSE]
          ELSE Updated(run[i - 1], hashes[i], h, ts)
        end == run[Len(hashes)]
    IN  /\ blockHeight' = IF h > blockHeight THEN h ELSE blockHeight
        /\ allTx' = end.all
        /\ transactions' = end.txs
        /\ height' = end.hgt
        /\ timestamp' = end.stamp
        /\ ledger' = IF end.stale THEN UpdateBalance(end.txs, end.hgt, blockHeight') ELSE ledger
        /\ saved' = Told(end.told, h)
        /\ UNCHANGED chainLen

(* The transactions at the end of the array, while they are above h        *)
AfterNext(h) == {transactions[i] : i \in {j \in 1..Len(transactions) :
                   \A k \in j..Len(transactions) : height[transactions[k]] > h + 1}}

After(h) == {transactions[i] : i \in {j \in 1..Len(transactions) :
                \A k \in j..Len(transactions) : height[transactions[k]] > h}}

SetTxUnconfirmedAfter(h) ==
    /\ blockHeight' = h
    /\ height' = [t \in Tx |-> IF t \in After(h) THEN TX_UNCONFIRMED ELSE height[t]]
    /\ saved' = Told(After(h), TX_UNCONFIRMED)
    /\ ledger' = IF After(h) # {} THEN UpdateBalance(transactions, height', h) ELSE ledger
    /\ UNCHANGED <<allTx, transactions, timestamp, chainLen>>

UnusedAddrs(c, gap) ==
    /\ chainLen' = [chainLen EXCEPT ![c] = Grown(@, ledger.usedAddrs, c, gap)]
    /\ UNCHANGED <<allTx, transactions, height, timestamp, blockHeight, ledger, saved>>

-----------------------------------------------------------------------------
(* The calls the peer manager makes *)

(* _peerRelayedTx, _peerHasTx, _peerRequestedTx: peers relay transactions  *)
(* that are in no block yet.                                               *)
RelayTx(t) ==
    /\ mined[t] = TX_UNCONFIRMED
    /\ RegisterTransaction(t)
    /\ UNCHANGED <<mined, tip>>

(* Enough peers relay t, or too few do: it becomes verified or unverified. *)
(* A timestamp of 1 stands for the time of the call.                       *)
VerifyTx(t, ts) ==
    /\ t \in allTx /\ height[t] = TX_UNCONFIRMED
    /\ UpdateTransactions(<<t>>, TX_UNCONFIRMED, ts)
    /\ UNCHANGED <<mined, tip>>

(* No peer has t any more.                                                 *)
DropTx(t) ==
    /\ t \in ToSet(transactions) /\ height[t] = TX_UNCONFIRMED
    /\ RemoveTransaction(t)
    /\ UNCHANGED <<mined, tip>>

(* The blocks an honest chain can continue with: parents come first, no    *)
(* output is spent twice, and a peer sends the transactions that match the *)
(* filter before it sends the block that holds them.                       *)
OnBestChain == {t \in Tx : mined[t] # TX_UNCONFIRMED}

Blocks == UNION {{b \in [1..n -> Tx \ OnBestChain] :
    \A i \in 1..n :
        LET before == OnBestChain \cup {b[j] : j \in 1..(i - 1)}
        IN  /\ b[i] \notin before
            /\ Parents(b[i]) \subseteq before \cup {Foreign}
            /\ b[i] \in allTx \/ ~ContainsTx(allTx, b[i])
            /\ \A t \in before : Inputs[t] \cap Inputs[b[i]] = {}} : n \in 0..MaxBlockTx}

ConnectBlock(b) ==
    /\ tip < MaxTip
    /\ tip' = tip + 1
    /\ mined' = [t \in Tx |-> IF t \in ToSet(b) THEN tip + 1 ELSE mined[t]]
    /\ IF b = <<>> THEN UNCHANGED walletVars ELSE UpdateTransactions(b, tip + 1, 1)

(* The chain forks at height h: blocks above it are no longer part of it.  *)
Reorganize(h) ==
    /\ h < tip
    /\ tip' = h
    /\ mined' = [t \in Tx |-> IF mined[t] > h THEN TX_UNCONFIRMED ELSE mined[t]]
    /\ SetTxUnconfirmedAfter(h)

(* A receive address for the user (gap 1), or the addresses for a bloom    *)
(* filter, more than the gap limit.                                        *)
GenerateAddrs(c, gap) == UnusedAddrs(c, gap) /\ UNCHANGED <<mined, tip>>

Next ==
    \/ \E t \in Tx : RelayTx(t)
    \/ \E t \in Tx, ts \in {0, 1} : VerifyTx(t, ts)
    \/ \E t \in Tx : DropTx(t)
    \/ \E b \in Blocks : ConnectBlock(b)
    \/ \E h \in 0..MaxTip : Reorganize(h)
    \/ \E c \in Chains : \E gap \in {1, GapLimit[c] + 1} : GenerateAddrs(c, gap)

Spec == Init /\ [][Next]_vars

-----------------------------------------------------------------------------
(* Properties *)

TypeOK ==
    /\ allTx \subseteq Tx
    /\ transactions \in Seq(Tx)
    /\ height \in [Tx -> Heights]
    /\ timestamp \in [Tx -> {0, 1}]
    /\ blockHeight \in Heights
    /\ chainLen \in [Chains -> 0..MaxChain]
    /\ saved \in [Tx -> Heights \cup {NotSaved}]
    /\ mined \in [Tx -> Heights]
    /\ tip \in 0..MaxTip

(* The transactions array stays sorted by height, however transactions are *)
(* confirmed, reorganised away, dropped and registered.  The loops of      *)
(* BRWalletTxUnconfirmedBefore, BRWalletSetTxUnconfirmedAfter and          *)
(* BRWalletRemoveTransaction stop at the first height that does not match, *)
(* so they miss transactions if it is not.                                 *)
SortedByHeight ==
    \A i, j \in 1..Len(transactions) : i < j => height[transactions[i]] <= height[transactions[j]]

(* The array holds each of its transactions once, and only transactions    *)
(* the wallet still keeps: BRWalletUpdateTransactions and                  *)
(* BRWalletRemoveTransaction free what they take out of allTx.             *)
NoDangling ==
    /\ ToSet(transactions) \subseteq allTx
    /\ \A i, j \in 1..Len(transactions) : transactions[i] = transactions[j] => i = j

(* Only unconfirmed transactions of the wallet are flagged invalid or      *)
(* pending, and none is both, although BRWalletUpdateTransactions does not *)
(* always recompute the flags.                                             *)
FlaggedAreUnconfirmed ==
    /\ \A t \in ledger.invalidTx \cup ledger.pendingTx :
          t \in ToSet(transactions) /\ height[t] = TX_UNCONFIRMED
    /\ ledger.invalidTx \cap ledger.pendingTx = {}

(* Of two transactions of the wallet that spend the same output at most    *)
(* one counts, whichever of them arrives, is confirmed or is dropped first.*)
DoubleSpendsExcluded ==
    \A t, u \in ToSet(transactions) \ ledger.invalidTx :
        t # u => Inputs[t] \cap Inputs[u] = {}

(* balance is the sum of the unspent outputs, which are outputs to the     *)
(* wallet of transactions of the wallet that count, and which no           *)
(* transaction that counts spends, even one that stands before the one it  *)
(* spends; it is what was received less what was sent; and it has a        *)
(* history entry for every transaction, the assertion at the end of        *)
(* _BRWalletUpdateBalance.                                                 *)
BalanceIsUnspent ==
    LET counted == ToSet(transactions) \ (ledger.invalidTx \cup ledger.pendingTx)
    IN  /\ ledger.balance = Total(ledger.utxos)
        /\ ledger.balance = ledger.totalReceived - ledger.totalSent
        /\ Len(ledger.balanceHist) = Len(transactions)
        /\ \A o \in ledger.utxos :
              /\ o[1] \in counted
              /\ Address(o) \in allAddrs
              /\ \A t \in counted : o \notin Inputs[t]

(* The app was told the height of every transaction of the wallet, and of  *)
(* no other: the callbacks are all that is left after a restart.           *)
SavedMatches ==
    \A t \in Tx : saved[t] = IF t \in ToSet(transactions) THEN height[t] ELSE NotSaved

(* Whatever blocks were connected and disconnected, the wallet has each of *)
(* its transactions at the height of the block of the best chain that      *)
(* holds it, and unconfirmed if none does.                                 *)
HeightsFollowChain ==
    \A t \in ToSet(transactions) : height[t] = mined[t]

-----------------------------------------------------------------------------
(* What comments of the code say and the code does not keep: TLC finds     *)
(* each of these violated (see the README).                                *)

(* BRWalletRegisterTransaction "adds a transaction to the wallet, or       *)
(* returns false if it isn't associated with the wallet": no transaction   *)
(* that was registered is associated with the wallet and not in it.        *)
AssociatedAreHeld ==
    \A t \in allTx : ContainsTx(allTx, t) => t \in ToSet(transactions)

(* BRWalletUTXOs "writes unspent outputs", and _BRWalletUpdateBalance is   *)
(* to "check the entire UTXO set against the entire spent output set".     *)
UtxosAreUnspent == ledger.utxos \cap ledger.spentOutputs = {}

(* BRWalletTransactionIsValid, of a transaction the wallet keeps.          *)
TransactionIsValid(t) ==
    LET valid[u \in Tx] ==
          height[u] = TX_UNCONFIRMED =>
             /\ u \notin ledger.invalidTx
             /\ \A p \in Parents(u) \cap allTx : valid[p]
    IN  valid[t]

(* BRWalletBalance is the "current wallet balance, not including           *)
(* transactions known to be invalid": what counts is valid according to    *)
(* BRWalletTransactionIsValid.                                             *)
BalanceIsValid == \A o \in ledger.utxos : TransactionIsValid(o[1])

(* An unconfirmed transaction with a "future lockTime" is pending: its     *)
(* lock height is beyond the next block and the wallet does not count it.  *)
LockedArePending ==
    \A t \in ToSet(transactions) :
        height[t] = TX_UNCONFIRMED /\ LockHeight[t] > tip + 1 =>
            t \in ledger.pendingTx \cup ledger.invalidTx
=============================================================================
