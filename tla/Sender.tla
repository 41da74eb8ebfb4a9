------------------------------- MODULE Sender -------------------------------
(***************************************************************************)
(* Sending a payment: Sender.swift with the send screen that drives it,    *)
(* the PIN, the biometric limit of WalletManager+Auth.swift, and what the  *)
(* peer manager does with the transaction it is given.                     *)
(*                                                                         *)
(* Three threads meet: the main thread shows the screen, and blocks for at *)
(* most 30 seconds while a PIN is checked; walletQueue runs jobs in order; *)
(* a peer's thread asks for the transaction or gives up on it.  A payment  *)
(* spends the first unspent coin, so that two payments made while no other *)
(* is registered spend the same one; coins that arrive go last.  Use of    *)
(* freed memory either finds it as it was or ends the process (Crash).     *)
(* One send screen is open at a time; a PIN is either right or wrong.      *)
(***************************************************************************)
EXTENDS Integers, Sequences, FiniteSets, FiniteSetsExt

CONSTANTS
    MaxPayments,    \* bound: the transactions that are created
    Limit,          \* SPEND_LIMIT_AMOUNT
    Amounts,        \* the amounts that are sent
    MaxScreens,     \* bound: how often the send screen is opened
    MaxTimeouts     \* bound: how often walletQueue takes 30 seconds or longer

ASSUME SenderAssumption ==
    /\ MaxPayments \in Nat
    /\ Limit \in Nat /\ Amounts \subseteq Nat \ {0} /\ IsFiniteSet(Amounts)
    /\ MaxScreens \in Nat /\ MaxTimeouts \in Nat

None == 0
Payments == 1..MaxPayments

VARIABLES
    ui,             \* what the main thread shows or does
    screen,         \* the number of the send screen
    transaction,    \* Sender.transaction
    made,           \* the payments made: their amount, coin and screen
    queue,          \* walletQueue
    spendLimit,     \* the keychain item
    signed,         \* how a payment was signed, "no" before
    listed,         \* publishedTx of the peer manager
    pending,        \* those of them whose callback is to be called
    dropped,        \* those with a callback that never will be
    registered,     \* in the wallet
    freed,          \* BRTransactionFree was called
    answers,        \* results on their way to the main thread
    told,           \* results that reached it
    timeouts,       \* how often the main thread stopped waiting
    counted         \* the payments by biometrics since the last right PIN

form == <<ui, screen, transaction, made>>
keys == <<spendLimit, signed>>
network == <<listed, pending, dropped, registered, freed>>
vars == <<form, queue, keys, network, answers, told, timeouts, counted>>

Job(what, p, right, awaited) == [do |-> what, tx |-> p, right |-> right, awaited |-> awaited]
Enqueue(what, p) == queue' = Append(queue, Job(what, p, FALSE, FALSE))

Created == DOMAIN made
Amount(p) == made[p].amount
Total(S) == MapThenSumSet(Amount, S)
totalSent == Total(registered)
Unspent == Cardinality(registered) + 1

(* As if any screen would do, and as it is: the screen of the payment is   *)
(* the one that is shown.                                                  *)
SomeShown(p) == ui # "closed" /\ p \in Created
Shown(p) == ui # "closed" /\ p \in Created /\ made[p].screen = screen

(* What keeps the Sender of a payment: its screen, a job with a strong     *)
(* self, a callback that was not called.                                   *)
HeldByQueue(p) ==
    \E i \in DOMAIN queue :
        queue[i].do = "sign" /\ made[queue[i].tx].screen = made[p].screen

(* As if every self were strong, and as it is.                             *)
StrongSelf(p) == p \in Created

Alive(p) ==
    \/ Shown(p)
    \/ HeldByQueue(p)
    \/ \E q \in pending \cup dropped : made[q].screen = made[p].screen

Busy(what) == queue # <<>> /\ Head(queue).do = what

-----------------------------------------------------------------------------
(* The screen, on the main thread *)

Open ==
    /\ ui = "closed" /\ screen < MaxScreens
    /\ ui' = "edit" /\ screen' = screen + 1 /\ transaction' = None
    /\ UNCHANGED <<made, queue, keys, network, answers, told, timeouts, counted>>

(* The button does nothing while there is a transaction.                   *)
Tap(a) ==
    /\ ui = "edit" /\ transaction = None
    /\ Len(made) + 1 \in Payments
    /\ made' = Append(made, [amount |-> a, coin |-> Unspent, screen |-> screen])
    /\ transaction' = Len(made) + 1
    /\ ui' = "confirm"
    /\ UNCHANGED <<screen, queue, keys, network, answers, told, timeouts, counted>>

CancelConfirm ==
    /\ ui = "confirm"
    /\ ui' = "edit" /\ transaction' = None
    /\ UNCHANGED <<screen, made, queue, keys, network, answers, told, timeouts, counted>>

AboveEach(p) == Amount(p) <= spendLimit

WithinLimit(p) == Amount(p) + totalSent <= spendLimit

Confirm ==
    /\ ui = "confirm"
    /\ IF WithinLimit(transaction)
       THEN ui' = "edit" /\ Enqueue("touch", transaction)
       ELSE ui' = "pin" /\ UNCHANGED queue
    /\ UNCHANGED <<screen, transaction, made, keys, network, answers, told, timeouts, counted>>

(* The biometric prompt: success, cancel, or failure and fallback.         *)
Touch(answer) ==
    /\ ui = "touch"
    /\ \/ /\ answer = "success"
          /\ ui' = "edit"
          /\ signed' = [signed EXCEPT ![transaction] = "touch"]
          /\ Enqueue("publish", transaction)
       \/ answer = "cancel" /\ ui' = "edit" /\ UNCHANGED <<signed, queue>>
       \/ answer = "fallback" /\ ui' = "pin" /\ UNCHANGED <<signed, queue>>
    /\ UNCHANGED <<screen, transaction, made, spendLimit, network, answers, told, timeouts,
                   counted>>

EnterPin(right) ==
    /\ ui = "pin"
    /\ queue' = Append(queue, Job("sign", transaction, right, TRUE))
    /\ ui' = "waiting"
    /\ UNCHANGED <<screen, transaction, made, keys, network, answers, told, timeouts, counted>>

(* The PIN counts as wrong, its job stays in the queue.                    *)
WaitTimesOut ==
    /\ ui = "waiting" /\ timeouts < MaxTimeouts
    /\ timeouts' = timeouts + 1
    /\ queue' = [i \in DOMAIN queue |-> [queue[i] EXCEPT !.awaited = FALSE]]
    /\ ui' = "pin"
    /\ UNCHANGED <<screen, transaction, made, keys, network, answers, told, counted>>

CancelPin ==
    /\ ui = "pin"
    /\ ui' = "edit"
    /\ UNCHANGED <<screen, transaction, made, queue, keys, network, answers, told, timeouts,
                   counted>>

Close ==
    /\ ui = "edit"
    /\ ui' = "closed" /\ transaction' = None
    /\ UNCHANGED <<screen, made, queue, keys, network, answers, told, timeouts, counted>>

(* authenticationSuccess, the right PIN was entered: what may be sent      *)
(* without it starts anew, if the user set an amount.                      *)
Renew ==
    /\ spendLimit' = IF Limit > 0 THEN totalSent + Limit ELSE spendLimit
    /\ counted' = {}

(* authenticate(pin:) succeeds elsewhere, to unlock the wallet.            *)
Unlock ==
    /\ ui = "closed"
    /\ Renew
    /\ UNCHANGED <<form, queue, signed, network, answers, told, timeouts>>

-----------------------------------------------------------------------------
(* walletQueue *)

TouchJob ==
    /\ Busy("touch")
    /\ queue' = Tail(queue)
    /\ LET p == Head(queue).tx IN
        ui' = IF ~Shown(p) THEN ui ELSE IF WithinLimit(p) THEN "touch" ELSE "pin"
    /\ UNCHANGED <<screen, transaction, made, keys, network, answers, told, timeouts, counted>>

SignJob ==
    /\ Busy("sign")
    /\ LET job == Head(queue) IN
        /\ ui' = IF ~job.awaited THEN ui ELSE IF job.right THEN "edit" ELSE "pin"
        /\ IF job.right
           THEN /\ Renew
                /\ signed' = [signed EXCEPT ![job.tx] = "pin"]
                /\ queue' = Append(Tail(queue), Job("publish", job.tx, FALSE, FALSE))
           ELSE queue' = Tail(queue) /\ UNCHANGED <<keys, counted>>
    /\ UNCHANGED <<screen, transaction, made, network, answers, told, timeouts>>

(* As if nobody were told, and as it is.                                   *)
Silent(p) == answers
Refused(p) == answers \cup {<<p, "failure">>}

(* A transaction that is in the list keeps its place and its callback.     *)
Publish(p) ==
    IF p \in listed
    THEN dropped' = dropped \cup {p} /\ UNCHANGED <<listed, pending>>
    ELSE listed' = listed \cup {p} /\ pending' = pending \cup {p} /\ UNCHANGED dropped

(* BRPeerManagerPublishTx: without a network the transaction is freed.     *)
PublishJob ==
    /\ Busy("publish")
    /\ queue' = Tail(queue)
    /\ LET p == Head(queue).tx IN
        \/ ~Alive(p) /\ UNCHANGED <<network, answers>>
        \/ Alive(p) /\ Publish(p) /\ UNCHANGED <<registered, freed, answers>>
        \/ /\ Alive(p)
           /\ freed' = freed \cup {p}
           /\ answers' = Refused(p)
           /\ UNCHANGED <<listed, pending, dropped, registered>>
    /\ UNCHANGED <<form, keys, told, timeouts, counted>>

-----------------------------------------------------------------------------
(* A peer's thread *)

Answer(S, result) == answers' = answers \cup {<<p, result>> : p \in S \cap pending}

(* BRWalletTransactionIsValid, and what would be without it.               *)
Always(p) == p \in Payments
Valid(p) == \A q \in registered \ {p} : made[q].coin # made[p].coin

(* _peerRequestedTx; once it is in the wallet nothing changes any more.    *)
Requested(p) ==
    /\ p \in listed \ (registered \ pending) /\ ui # "dead"
    /\ pending' = pending \ {p}
    /\ \/ /\ Valid(p)
          /\ registered' = registered \cup {p}
          /\ Answer({p}, "success")
          /\ counted' = IF signed[p] = "touch" THEN counted \cup {p} ELSE counted
          /\ UNCHANGED <<listed, freed>>
       \/ /\ ~Valid(p)
          /\ listed' = listed \ {p}
          /\ freed' = freed \cup {p}
          /\ Answer({p}, "failure")
          /\ UNCHANGED <<registered, counted>>
    /\ UNCHANGED <<form, queue, keys, dropped, told, timeouts>>

(* As if they stayed in the list, and as it is.                            *)
Nothing == {}
Callbacks == pending

(* _peerDisconnected, when no peer asked in time or none is left.          *)
Canceled ==
    /\ pending # {} /\ ui # "dead"
    /\ listed' = listed \ Callbacks
    /\ freed' = freed \cup pending
    /\ pending' = {}
    /\ Answer(pending, "failure")
    /\ UNCHANGED <<form, queue, keys, dropped, registered, told, timeouts, counted>>

(* The result is shown, by the main thread when it is not blocked, on the  *)
(* screen it belongs to.                                                   *)
Answered(answer) ==
    /\ answer \in answers /\ ui \notin {"waiting", "dead"}
    /\ answers' = answers \ {answer}
    /\ told' = told \cup {answer}
    /\ IF answer[2] = "success" /\ Shown(answer[1])
       THEN ui' = "closed" /\ transaction' = None
       ELSE UNCHANGED <<ui, transaction>>
    /\ UNCHANGED <<screen, made, queue, keys, network, timeouts, counted>>

UsesFreed ==
    \/ Busy("sign") /\ Head(queue).tx \in freed
    \/ Busy("publish") /\ Head(queue).tx \in freed /\ Alive(Head(queue).tx)
    \/ freed \cap (listed \cup registered) # {}

Crash ==
    /\ UsesFreed /\ ui # "dead"
    /\ ui' = "dead" /\ queue' = <<>>
    /\ UNCHANGED <<screen, transaction, made, keys, network, answers, told, timeouts, counted>>

-----------------------------------------------------------------------------
(* Specification *)

Init ==
    /\ ui = "closed" /\ screen = 0 /\ transaction = None /\ made = <<>> /\ queue = <<>>
    /\ spendLimit \in {0, Limit} /\ signed = [p \in Payments |-> "no"]
    /\ listed = {} /\ pending = {} /\ dropped = {} /\ registered = {} /\ freed = {}
    /\ answers = {} /\ told = {} /\ timeouts = 0 /\ counted = {}

RunJob == TouchJob \/ SignJob \/ PublishJob

Results == {"success", "failure"}

Next ==
    \/ Open \/ CancelConfirm \/ Confirm \/ WaitTimesOut \/ CancelPin \/ Close \/ Unlock
    \/ \E a \in Amounts : Tap(a)
    \/ \E answer \in {"success", "cancel", "fallback"} : Touch(answer)
    \/ \E right \in BOOLEAN : EnterPin(right)
    \/ RunJob
    \/ \E p \in Payments : Requested(p)
    \/ Canceled
    \/ \E answer \in Payments \X Results : Answered(answer)
    \/ Crash

Spec == Init /\ [][Next]_vars

(* walletQueue goes on, a peer asks for what is published or the publish   *)
(* timeout disconnects it, and the main thread takes up what is sent to it *)
(* between two things the user does.                                       *)
FairSpec ==
    /\ Spec
    /\ WF_vars(RunJob)
    /\ WF_vars(Canceled)
    /\ SF_vars(\E answer \in answers : Answered(answer))

-----------------------------------------------------------------------------
(* Properties *)

(* What is asked about a payment is asked on the screen that made it: no   *)
(* prompt or PIN dialog is shown without a transaction of that screen.     *)
TypeOK ==
    /\ ui \in {"closed", "edit", "confirm", "touch", "pin", "waiting", "dead"}
    /\ screen \in 0..MaxScreens /\ timeouts \in 0..MaxTimeouts
    /\ Created \subseteq Payments /\ spendLimit \in Nat
    /\ transaction \in Created \cup {None}
    /\ transaction # None => made[transaction].screen = screen
    /\ ui \in {"confirm", "touch", "pin", "waiting"} => transaction # None
    /\ listed \cup freed \cup registered \subseteq {p \in Created : signed[p] # "no"}
    /\ pending \subseteq listed \ registered /\ dropped \subseteq Created
    /\ answers \cup told \subseteq Payments \X Results

(* What is sent by biometrics between two right PINs stays within the      *)
(* limit, although it is checked against payments that others, waiting for *)
(* a peer, are not yet part of (canUseBiometrics, signTransaction).        *)
LimitKept == Total(counted) <= Limit

(* A payment that the user was told failed is not sent after all, as long  *)
(* as no PIN took 30 seconds (publishTx, _peerDisconnected).               *)
FailureIsFinal ==
    timeouts = 0 => \A p \in registered : <<p, "failure">> \notin told \cup answers

(* A payment whose screen was closed before it was handed over is not      *)
(* handed over later, whatever is still queued for it, if at most one PIN  *)
(* took 30 seconds (weak self in publish).                                 *)
ClosedIsOver ==
    [][\A p \in listed' \ listed : timeouts <= 1 => Shown(p)]_vars

(* A payment that was signed is answered, unless its screen is closed or   *)
(* the process ends.                                                       *)
SendIsAnswered ==
    \A p \in Payments :
        p \in Created /\ signed[p] # "no"
            ~> (\E r \in Results : <<p, r>> \in told) \/ ~Shown(p) \/ ui = "dead"

(* What is freed is neither to be sent nor in the wallet: publishing takes *)
(* the transaction over for good (BRPeerManagerPublishTx).                 *)
FreedIsUnlinked == freed \cap (listed \cup registered) = {}

(* The sender is there when the transaction is published, as publish()     *)
(* asserts.                                                                *)
SenderExists == Busy("publish") => Alive(Head(queue).tx)

(* The button finds no transaction when the form can be filled in.         *)
FormHasNoTransaction ==
    ui = "edit" /\ queue = <<>> /\ pending = {} /\ answers = {} => transaction = None
=============================================================================
