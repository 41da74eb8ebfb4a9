--------------------------- MODULE BRTransactions ---------------------------
(***************************************************************************)
(* The universe of transactions that the wallet, the peer manager and the  *)
(* network talk about.  A transaction is an opaque value; what the code    *)
(* reads of a BRTransaction that never changes (its inputs, its outputs,   *)
(* whether a relay policy delays it, its lock height) is a constant        *)
(* function of it.  What the code writes (blockHeight, timestamp) is state *)
(* of the modules that extend this one.                                    *)
(***************************************************************************)
EXTENDS Integers, Sequences, SequencesExt

CONSTANTS
    Tx,             \* the transactions that exist
    Foreign,        \* the txHash of every transaction outside Tx
    Inputs,         \* Inputs[t]: the outpoints <<txHash, n>> that t spends
    Outputs,        \* Outputs[t]: the sequence of outputs [addr, amount] of t
    Postdated,      \* transactions over TX_MAX_SIZE, with a dust output, or replaceable by fee
    LockHeight,     \* LockHeight[t]: lockTime of t as a height, 0 if its inputs are final
    TX_UNCONFIRMED  \* the block height of a transaction in no block

(* The two address chains of the wallet.  The i-th address of chain c is   *)
(* <<c, i>>; a pair with another first component is somebody else's.       *)
Chains == {"internal", "external"}

ASSUME TxAssumption ==
    /\ Foreign \notin Tx
    /\ Postdated \subseteq Tx
    /\ TX_UNCONFIRMED \in Nat
    /\ Inputs \in [Tx -> SUBSET ((Tx \cup {Foreign}) \X Nat)]
    /\ LockHeight \in [Tx -> Nat]
    /\ DOMAIN Outputs = Tx
    /\ \A t \in Tx : /\ IsFiniteSet(DOMAIN Outputs[t])
                     /\ \A n \in DOMAIN Outputs[t] : Outputs[t][n].amount \in Nat

(* Hashes commit to parents: no set of transactions spends itself in a     *)
(* circle.                                                                 *)
ASSUME TxAcyclic ==
    \A S \in SUBSET Tx : S # {} => \E t \in S : \A o \in Inputs[t] : o[1] \notin S

-----------------------------------------------------------------------------
Parents(t) == {o[1] : o \in Inputs[t]}

(* The outpoints t creates (n counts from 1), and what is known of one.    *)
OutPoints(t) == {<<t, n>> : n \in DOMAIN Outputs[t]}
Exists(o)    == o[1] \in Tx /\ o[2] \in DOMAIN Outputs[o[1]]
Address(o)   == Outputs[o[1]][o[2]].addr
Amount(o)    == Outputs[o[1]][o[2]].amount
Total(S)     == MapThenSumSet(Amount, S)

Addresses(t) == {Address(o) : o \in OutPoints(t)}
=============================================================================
