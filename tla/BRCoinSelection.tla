--------------------------- MODULE BRCoinSelection ---------------------------
(***************************************************************************)
(* How BRWallet.c makes an unsigned payment: the fee for a size, the least *)
(* output that is worth its fee, the most that can be sent, and the choice *)
(* of coins in BRWalletCreateTxForOutputs, which starts again with smaller *)
(* outputs when the transaction gets too large.                            *)
(*                                                                         *)
(* The app calls from one thread at a time.  Meanwhile the threads of the  *)
(* peers change the coins and raise the fee, whenever that call does not   *)
(* hold wallet->lock, which is only while it takes coins.  Of the wallet   *)
(* this module keeps what the choice reads; the ledger is BRWallet.        *)
(***************************************************************************)
EXTENDS Integers, Sequences, FiniteSets

CONSTANTS
    TX_FEE_PER_KB, TX_OUTPUT_SIZE, TX_INPUT_SIZE, TX_MAX_SIZE,
    Coin,           \* the amounts that unspent outputs can have
    Rate,           \* the values feePerKb can have
    Wanted,         \* the amounts a user enters
    OpsFee,         \* tieredOpsFee
    MaxCoins,       \* bound: unspent outputs at a time
    MaxChanges      \* bound: changes of the wallet during a call

ASSUME SelectionAssumption ==
    /\ {TX_FEE_PER_KB, TX_OUTPUT_SIZE, TX_INPUT_SIZE, TX_MAX_SIZE, OpsFee} \subseteq Nat \ {0}
    /\ Coin \subseteq Nat /\ Rate \subseteq Nat /\ Wanted \subseteq Nat \ {0}
    /\ MaxCoins \in Nat /\ MaxChanges \in Nat

TX_MIN_OUTPUT_AMOUNT == (TX_FEE_PER_KB * 3 * (TX_OUTPUT_SIZE + TX_INPUT_SIZE)) \div 1000
MIN_FEE_PER_KB       == (TX_FEE_PER_KB * 1000 + 190) \div 191

VARIABLES
    utxos,          \* the amounts of wallet->utxos
    balance,        \* wallet->balance
    feePerKb,       \* wallet->feePerKb
    at,             \* where the call is: "idle", "called", "locking", "taking", "chosen", "returned"
                    \* or, when an assertion stopped the app, "aborted"
    outputs,        \* the amounts of the outputs it was called with
    minAmount, inputs, sum, feeAmount,  \* its locals: the coins in transaction, and balance
    tx,             \* what it returned: a sequence of a transaction, or of none
    asked,          \* history: the outputs the app asked for
    changes,        \* history: how often the wallet changed since
    rate            \* history: feePerKb when the coins were taken

wallet == <<utxos, balance, feePerKb>>
locals == <<minAmount, inputs, sum, feeAmount, rate>>
vars == <<wallet, at, outputs, locals, tx, asked, changes>>

-----------------------------------------------------------------------------
(* Sizes and fees *)

BRVarIntSize(n) == IF n < 253 THEN 1 ELSE IF n <= 65535 THEN 3 ELSE 5

(* BRTransactionSize, of an unsigned transaction with outputs to addresses.*)
Size(ins, outs) ==
    8 + BRVarIntSize(ins) + BRVarIntSize(outs) + ins * TX_INPUT_SIZE + outs * TX_OUTPUT_SIZE

Higher(a, b) == IF a > b THEN a ELSE b

StandardFee(size) == ((size + 999) \div 1000) * TX_FEE_PER_KB
FeeByRate(r, size) == (((size * r) \div 1000 + 99) \div 100) * 100
TxFee(r, size)    == Higher(FeeByRate(r, size), StandardFee(size))

MinOutputAmount(r) ==
    Higher((TX_MIN_OUTPUT_AMOUNT * r + MIN_FEE_PER_KB - 1) \div MIN_FEE_PER_KB, TX_MIN_OUTPUT_AMOUNT)

(* The sum of a sequence of amounts.                                       *)
Amount(s) ==
    LET upTo[n \in 0..Len(s)] == IF n = 0 THEN 0 ELSE upTo[n - 1] + s[n]
    IN  upTo[Len(s)]

(* As if only one output were paid for.                                    *)
MaxForOneOutput ==
    LET fee == TxFee(feePerKb, Size(Len(utxos), 1))
    IN  IF Amount(utxos) > fee THEN Amount(utxos) - fee ELSE 0

(* All coins but the fee for a transaction with all of them, an output and *)
(* one more.                                                               *)
MaxOutputAmount ==
    LET fee == TxFee(feePerKb, Size(Len(utxos), 2))
    IN  IF Amount(utxos) > fee THEN Amount(utxos) - fee ELSE 0

-----------------------------------------------------------------------------
(* BRWalletCreateTxForOutputs *)

Ready ==
    /\ minAmount' = 0 /\ inputs' = <<>> /\ sum' = 0 /\ feeAmount' = 0 /\ rate' = 0
    /\ tx' = <<>>

Calls(outs) ==
    /\ at' = IF outs = <<>> THEN "aborted" ELSE "called"
    /\ outputs' = outs
    /\ Ready

ReadMinOutput ==
    /\ at = "called"
    /\ minAmount' = MinOutputAmount(feePerKb)
    /\ at' = "locking"
    /\ UNCHANGED <<wallet, outputs, inputs, sum, feeAmount, rate, tx, asked, changes>>

(* As if the change output were not paid for.                              *)
FeeWithoutChange(n) == TxFee(feePerKb, Size(n, Len(outputs)))

(* The fee with so many coins and a change output.                         *)
FeeWith(n) == TxFee(feePerKb, Size(n, Len(outputs)) + TX_OUTPUT_SIZE)

Begin ==
    /\ at = "locking"
    /\ at' = "taking"
    /\ feeAmount' = FeeWith(0)
    /\ rate' = feePerKb
    /\ UNCHANGED <<wallet, outputs, minAmount, inputs, sum, tx, asked, changes>>

(* As if the rest were rounded up.                                         *)
RoundUp(rest) == IF rest > 0 THEN 100 - (rest % 100) ELSE 0

(* What rounds the rest of the wallet's balance off.                       *)
RoundOff(rest) == IF rest > 0 THEN rest % 100 ELSE 0

IsEnough(total, needed) == total = needed \/ total >= needed + minAmount

(* The loop goes on, is over, and takes a coin more than the limit allows. *)
Another  == at = "taking" /\ Len(inputs) < Len(utxos)
TakenAll == at = "taking" /\ Len(inputs) = Len(utxos)
TooLarge == Size(Len(inputs) + 1, Len(outputs)) + TX_OUTPUT_SIZE > TX_MAX_SIZE

TakeCoin ==
    LET n == Len(inputs) + 1
        fee == FeeWith(n)
    IN
    /\ Another /\ ~TooLarge
    /\ inputs' = Append(inputs, utxos[n])
    /\ sum' = sum + utxos[n]
    /\ feeAmount' = fee + RoundOff(balance - (Amount(outputs) + fee))
    /\ at' = IF IsEnough(sum', Amount(outputs) + feeAmount') THEN "chosen" ELSE "taking"
    /\ UNCHANGED <<wallet, outputs, minAmount, rate, tx, asked, changes>>

CanAfford ==
    LET n == Len(utxos)
    IN  balance >= Amount(outputs) + TxFee(feePerKb, 10 + n * TX_INPUT_SIZE
                                                        + (Len(outputs) + 1) * TX_OUTPUT_SIZE)

Refuse ==
    /\ \/ TakenAll /\ sum < Amount(outputs) + feeAmount
       \/ Another /\ TooLarge /\ ~CanAfford
    /\ at' = "returned"
    /\ tx' = <<>>
    /\ UNCHANGED <<wallet, outputs, locals, asked, changes>>

(* The call calls itself, with a smaller last output or without it, and    *)
(* returns what that call returns.                                         *)
Shrink ==
    LET n == Len(outputs)
        short == Amount(outputs) + feeAmount - sum
        reduced == [outputs EXCEPT ![n] = @ - short]
    IN
    /\ Another /\ TooLarge /\ CanAfford
    /\ Calls(IF outputs[n] > short + minAmount THEN reduced ELSE SubSeq(outputs, 1, n - 1))
    /\ UNCHANGED <<wallet, asked, changes>>

(* With a change output, if it is more than minAmount.                     *)
Return ==
    LET left == sum - (Amount(outputs) + feeAmount)
    IN
    /\ at = "chosen" \/ TakenAll
    /\ left >= 0
    /\ tx' = <<[inputs |-> inputs, outputs |-> outputs,
                change |-> IF left > minAmount THEN left ELSE 0]>>
    /\ at' = "returned"
    /\ UNCHANGED <<wallet, outputs, locals, asked, changes>>

-----------------------------------------------------------------------------
(* The app: its checks, and the calls of BRWalletCreateTransaction,        *)
(* BRWalletCreateOpsTransaction and BRWalletFeeForTxAmount.                *)

Asks(outs) ==
    /\ at = "idle"
    /\ Calls(outs)
    /\ asked' = outs
    /\ changes' = 0
    /\ UNCHANGED wallet

MayBeSent(amount) == MinOutputAmount(feePerKb) <= amount /\ amount <= MaxOutputAmount

Send(amount) == MayBeSent(amount) /\ Asks(<<amount>>)

SendWithOpsOutput(amount) == MayBeSent(amount + OpsFee) /\ Asks(<<OpsFee, amount>>)

FeeForTxAmount(amount) == Asks(<<IF amount < MaxOutputAmount THEN amount ELSE MaxOutputAmount>>)

(* The app has what it asked for.                                          *)
AppTakes ==
    /\ at = "returned"
    /\ at' = "idle"
    /\ outputs' = <<>> /\ Ready /\ asked' = <<>> /\ changes' = 0
    /\ UNCHANGED wallet

AppAsks ==
    \E amount \in Wanted \cup {MaxOutputAmount} :
        \/ Send(amount)
        \/ SendWithOpsOutput(amount)
        \/ FeeForTxAmount(amount)

-----------------------------------------------------------------------------
(* Other threads, between calls and until the call has the lock; what they *)
(* do after it let the lock go is not read any more.                       *)

Changes ==
    /\ \/ at = "idle" /\ UNCHANGED changes
       \/ at \in {"called", "locking"} /\ changes < MaxChanges /\ changes' = changes + 1
    /\ UNCHANGED <<at, outputs, locals, tx, asked>>

Receive(coin) ==
    /\ Len(utxos) < MaxCoins
    /\ utxos' = Append(utxos, coin)
    /\ balance' = balance + coin
    /\ Changes
    /\ UNCHANGED feePerKb

(* A transaction from elsewhere spends a coin, or one is found invalid.    *)
Lose(i) ==
    /\ utxos' = SubSeq(utxos, 1, i - 1) \o SubSeq(utxos, i + 1, Len(utxos))
    /\ balance' = balance - utxos[i]
    /\ Changes
    /\ UNCHANGED feePerKb

SetFeePerKb(r) ==
    /\ feePerKb' = r
    /\ Changes
    /\ UNCHANGED <<utxos, balance>>

-----------------------------------------------------------------------------

Init ==
    /\ utxos = <<>> /\ balance = 0
    /\ feePerKb \in Rate
    /\ at = "idle" /\ outputs = <<>>
    /\ minAmount = 0 /\ inputs = <<>> /\ sum = 0 /\ feeAmount = 0 /\ rate = 0
    /\ tx = <<>>
    /\ asked = <<>> /\ changes = 0

Step == ReadMinOutput \/ Begin \/ TakeCoin \/ Refuse \/ Shrink \/ Return

Next ==
    \/ Step
    \/ AppAsks \/ AppTakes
    \/ \E coin \in Coin : Receive(coin)
    \/ \E i \in DOMAIN utxos : Lose(i)
    \/ \E r \in Rate : SetFeePerKb(r)

Spec == Init /\ [][Next]_vars

FairSpec == Spec /\ WF_vars(Step)

-----------------------------------------------------------------------------
(* Properties *)

Amounts == Seq(Nat)

Transactions == [inputs : Amounts, outputs : Amounts, change : Nat]

(* No amount falls below zero, where uint64_t would wrap to a fortune: not *)
(* the last output when it is reduced, nor the change.                     *)
TypeOK ==
    /\ utxos \in Amounts /\ balance \in Nat /\ balance = Amount(utxos)
    /\ feePerKb \in Nat
    /\ at \in {"idle", "called", "locking", "taking", "chosen", "returned", "aborted"}
    /\ outputs \in Amounts /\ asked \in Amounts
    /\ minAmount \in Nat /\ feeAmount \in Nat /\ rate \in Nat
    /\ inputs \in Amounts /\ sum = Amount(inputs)
    /\ tx \in Seq(Transactions) /\ Len(tx) <= 1
    /\ changes \in Nat

(* BRWalletFeeForTx, and the size that nodes will see.                     *)
FeeForTx(t) == Amount(t.inputs) - Amount(t.outputs) - t.change
SizeOf(t)   == Size(Len(t.inputs), Len(t.outputs) + (IF t.change > 0 THEN 1 ELSE 0))

(* A payment is small enough to be relayed, pays for its size at the rate  *)
(* when its coins were taken, also when it got change, and overpays by     *)
(* less than the rounding and an output not worth its fee (the loop of     *)
(* BRWalletCreateTxForOutputs, although minAmount is from before the lock). *)
FeeIsRight ==
    at = "returned" /\ tx # <<>> =>
        LET t == tx[1] IN
        /\ SizeOf(t) <= TX_MAX_SIZE
        /\ TxFee(rate, SizeOf(t)) <= FeeForTx(t)
        /\ FeeForTx(t) <= TxFee(rate, Size(Len(t.inputs), Len(t.outputs) + 1)) + 99
                              + (IF t.change > 0 THEN 0 ELSE minAmount)

(* The call refuses only what all coins together cannot pay for with the   *)
(* fee for all of them: neither the rounding of the fee nor an early end   *)
(* of the loop makes a payment impossible.                                 *)
RefusedOnlyIfShort ==
    [][ at # "returned" /\ at' = "returned" /\ tx' = <<>> =>
            balance < Amount(outputs) + FeeWith(Len(utxos))
      ]_vars

(* What BRWalletMaxOutputAmount says can be sent to an address can be: if  *)
(* the wallet stays as it is, and all coins fit a transaction, an amount   *)
(* up to it is sent, and sent in full.                                     *)
MaxIsSendable ==
    at = "returned" /\ changes = 0 /\ Len(asked) = 1 /\ Amount(asked) \in 1..MaxOutputAmount
        /\ Size(Len(utxos), 2) <= TX_MAX_SIZE
    => tx # <<>> /\ tx[1].outputs = asked

(* Not so: a transaction that gets too large is replaced by a smaller one  *)
(* (BRWallet.c:640).  The rounding of the smaller payment's fee is not the *)
(* one it was reduced by, so it gets too large in its turn, without end.   *)
CallReturns == at = "called" ~> at \in {"returned", "aborted"}

(* Not so: there are outputs to pay (BRWallet.c:608).                      *)
HasOutputs == at # "aborted"
=============================================================================
