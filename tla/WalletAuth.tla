----------------------------- MODULE WalletAuth -----------------------------
(***************************************************************************)
(* The PIN and the seed of WalletManager+Auth.swift: how attempts are      *)
(* counted, delayed and end in a wipe, how a PIN and a recovery phrase are *)
(* set, and what is left when a call stops between two of its writes.      *)
(*                                                                         *)
(* A call writes keychain items one after another; a write can throw,      *)
(* which ends the call, and the app can be killed at any moment, which     *)
(* leaves the keychain and loses the memory.  A phrase stands for the seed *)
(* and for the master public key derived from it.  Calls come one at a     *)
(* time.  The spending limit is in Sender; the other items are left out.   *)
(***************************************************************************)
EXTENDS Integers, Sequences, FiniteSets

CONSTANTS
    Pin,            \* the PINs that are entered
    NoPin,          \* no PIN on the keychain
    Phrase,         \* recovery phrases
    NoPhrase,       \* none
    MaxFailures,    \* 8: failed attempts before the wallet is wiped
    Free,           \* 3: failed attempts before authentication is disabled
    Base,           \* 6: each further failure makes the delay as many times longer
    MaxTime,        \* bound: on the clock
    MaxFaults       \* bound: kills, and writes that throw

ASSUME AuthAssumption ==
    /\ NoPin \notin Pin /\ NoPhrase \notin Phrase
    /\ IsFiniteSet(Pin)
    /\ MaxFailures \in Nat \ {0} /\ Free \in Nat \ {0} /\ Free <= MaxFailures
    /\ MaxTime \in Nat /\ MaxFaults \in Nat
    /\ Base \in Nat \ {0}

VARIABLES
    keychain,       \* the items on the keychain
    failedPins,     \* WalletManager.failedPins, in memory
    masterPubKey,   \* the key in memory
    didInitWallet,  \* the wallet was used
    now,            \* Date()
    call,           \* the call in progress
    todo,           \* the items it writes before it goes on
    faults,         \* how often something failed
    tried,          \* the wrong PINs that were compared since the last success
    lastTry,        \* when the last new one of them was
    cut,            \* whether a call was cut short since the last success
    owned           \* the phrase the user has of the wallet on the keychain

memory == <<failedPins, masterPubKey, didInitWallet>>
history == <<tried, lastTry, cut, owned>>
vars == <<keychain, memory, now, call, todo, faults, history>>

Idle == [at |-> "idle", pin |-> NoPin, new |-> NoPin, phrase |-> NoPhrase]

Set(key, value) == [key |-> key, value |-> value]

ClearFailures == <<Set("pinFailTime", 0), Set("pinFailCount", 0)>>

(* As if the seed went first.                                              *)
WipeSeedFirst ==
    <<Set("mnemonic", NoPhrase), Set("masterPubKey", NoPhrase), Set("pin", NoPin)>>
    \o ClearFailures

(* The items of wipeWallet(), the seed last.                               *)
WipeWrites ==
    ClearFailures \o
    <<Set("pin", NoPin), Set("masterPubKey", NoPhrase), Set("mnemonic", NoPhrase)>>

(* As if the memory knew.                                                  *)
NeverUsed == ~didInitWallet

(* True if no wallet exists, as far as the memory or the keychain shows.   *)
NoWallet == ~didInitWallet /\ keychain.masterPubKey = NoPhrase

Ready == call = Idle

-----------------------------------------------------------------------------
(* Writes, and what stops them *)

Write ==
    /\ todo # <<>>
    /\ keychain' = [keychain EXCEPT ![Head(todo).key] = Head(todo).value]
    /\ todo' = Tail(todo)
    /\ UNCHANGED <<memory, now, call, faults, history>>

Return == call' = Idle /\ todo' = <<>>

(* A write throws.  So may the removal of the key-value store, the first   *)
(* thing that wipeWallet does to what is stored.                           *)
Throw ==
    /\ todo # <<>> /\ faults < MaxFaults
    /\ faults' = faults + 1 /\ cut' = TRUE
    /\ Return
    /\ UNCHANGED <<keychain, memory, now, tried, lastTry, owned>>

(* The app is killed; the next process reads the keychain.                 *)
Kill ==
    /\ faults < MaxFaults
    /\ faults' = faults + 1 /\ cut' = (cut \/ ~Ready)
    /\ Return
    /\ failedPins' = {} /\ masterPubKey' = keychain.masterPubKey /\ didInitWallet' = FALSE
    /\ UNCHANGED <<keychain, now, tried, lastTry, owned>>

Tick ==
    /\ Ready /\ now < MaxTime
    /\ now' = now + 1
    /\ UNCHANGED <<keychain, memory, call, todo, faults, history>>

(* The wallet of the key in memory is used for the first time.             *)
UseWallet ==
    /\ Ready /\ masterPubKey # NoPhrase /\ ~didInitWallet
    /\ didInitWallet' = TRUE
    /\ UNCHANGED <<keychain, failedPins, masterPubKey, now, call, todo, faults, history>>

-----------------------------------------------------------------------------
(* authenticate(pin:), alone or for changePin(newPin:pin:) *)

(* pow(6, failCount - 3) minutes.                                          *)
pow[n \in Nat] == IF n = 0 THEN 1 ELSE Base * pow[n - 1]
Delay(n) == pow[n - Free]

(* As if one more attempt were free.                                       *)
LockedOutLater ==
    /\ keychain.pinFailCount > Free
    /\ now < keychain.pinFailTime + Delay(keychain.pinFailCount)

LockedOut ==
    /\ keychain.pinFailCount >= Free
    /\ now < keychain.pinFailTime + Delay(keychain.pinFailCount)

(* As if only known PINs were counted.                                     *)
CountingKnown(p) ==
    IF p \in failedPins THEN <<Set("pinFailCount", keychain.pinFailCount + 1)>> ELSE <<>>

(* Unique attempts are counted before success is checked.                  *)
Counting(p) ==
    IF p \in failedPins THEN <<>> ELSE <<Set("pinFailCount", keychain.pinFailCount + 1)>>

Try(p, new) ==
    /\ ~LockedOut
    /\ todo' = Counting(p)
    /\ call' = [Idle EXCEPT !.at = "compare", !.pin = p, !.new = new]
    /\ UNCHANGED <<keychain, memory, now, faults, history>>

Authenticate(p, new) ==
    /\ Ready /\ keychain.masterPubKey # NoPhrase
    /\ Try(p, new)

Comparing == call.at = "compare" /\ todo = <<>>

(* authenticationSuccess()                                                 *)
Success(next) ==
    /\ failedPins' = {} /\ tried' = {} /\ cut' = FALSE
    /\ todo' = ClearFailures
    /\ call' = [call EXCEPT !.at = next]
    /\ UNCHANGED <<keychain, masterPubKey, didInitWallet, now, faults, lastTry, owned>>

RightPin ==
    /\ Comparing /\ call.pin = keychain.pin
    /\ Success(IF call.new = NoPin THEN "done" ELSE "change")

(* wipeWallet(): first what is in memory.  The user gives the wallet up.   *)
Wipe ==
    /\ masterPubKey' = NoPhrase /\ didInitWallet' = FALSE
    /\ todo' = WipeWrites
    /\ call' = [Idle EXCEPT !.at = "wipe"]
    /\ owned' = NoPhrase

WrongPin ==
    /\ Comparing /\ call.pin # keychain.pin
    /\ UNCHANGED <<keychain, now, faults, cut>>
    /\ \/ /\ call.pin \in failedPins
          /\ Return
          /\ UNCHANGED <<memory, tried, lastTry, owned>>
       \/ /\ call.pin \notin failedPins
          /\ failedPins' = failedPins \cup {call.pin}
          /\ lastTry' = now
          /\ \/ /\ keychain.pinFailCount >= MaxFailures
                /\ Wipe
                /\ tried' = {}
             \/ /\ keychain.pinFailCount < MaxFailures
                /\ tried' = tried \cup {call.pin}
                /\ todo' = IF now > keychain.pinFailTime THEN <<Set("pinFailTime", now)>> ELSE <<>>
                /\ call' = [call EXCEPT !.at = "done"]
                /\ UNCHANGED <<masterPubKey, didInitWallet, owned>>

(* The new PIN of changePin, once the old one was right.                   *)
ChangePin ==
    /\ call.at = "change" /\ todo = <<>>
    /\ todo' = <<Set("pin", call.new)>>
    /\ call' = [call EXCEPT !.at = "done"]
    /\ UNCHANGED <<keychain, memory, now, faults, history>>

-----------------------------------------------------------------------------
(* forceSetPin(newPin:seedPhrase:) *)

Replace(new, then) ==
    /\ todo' = <<Set("pin", new)>>
    /\ call' = [Idle EXCEPT !.at = "force", !.new = new, !.phrase = then]
    /\ UNCHANGED <<keychain, memory, now, faults, history>>

(* With the phrase: a recovered wallet gets its PIN, or a PIN is reset.    *)
ForceSetPin(new, phrase) ==
    /\ Ready /\ phrase # NoPhrase /\ keychain.masterPubKey = phrase
    /\ Replace(new, NoPhrase)

(* A new wallet starts with its PIN, unless one is there, and goes on to   *)
(* its phrase.                                                             *)
CreatePin(new, phrase) ==
    /\ Ready /\ NoWallet
    /\ \/ keychain.pin # NoPin /\ Try(new, NoPin)
       \/ keychain.pin = NoPin /\ Replace(new, phrase)

Forced ==
    /\ call.at = "force" /\ todo = <<>>
    /\ Success(IF call.phrase = NoPhrase THEN "done" ELSE "create")

-----------------------------------------------------------------------------
(* setSeedPhrase(_:), for the random phrase of a new wallet or for one of  *)
(* a wallet that is recovered.                                             *)
SetSeed(phrase) ==
    /\ NoWallet
    /\ todo' = <<Set("mnemonic", phrase)>>
    /\ call' = [Idle EXCEPT !.at = "derive", !.phrase = phrase]
    /\ UNCHANGED <<keychain, memory, now, faults, history>>

Derive ==
    /\ call.at = "derive" /\ todo = <<>>
    /\ masterPubKey' = call.phrase
    /\ todo' = <<Set("masterPubKey", call.phrase)>>
    /\ call' = [call EXCEPT !.at = "seed"]
    /\ UNCHANGED <<keychain, failedPins, didInitWallet, now, faults, history>>

SetRandomSeedPhrase ==
    /\ call.at = "create" /\ todo = <<>>
    /\ SetSeed(call.phrase)

Recover(phrase) == Ready /\ SetSeed(phrase)

(* The phrase is returned.                                                 *)
SeedSet ==
    /\ call.at = "seed" /\ todo = <<>>
    /\ owned' = call.phrase
    /\ Return
    /\ UNCHANGED <<keychain, memory, now, faults, tried, lastTry, cut>>

-----------------------------------------------------------------------------
(* The user wipes the wallet, with its phrase.                             *)
UserWipes ==
    /\ Ready /\ owned # NoPhrase
    /\ Wipe
    /\ tried' = {}
    /\ UNCHANGED <<keychain, failedPins, now, faults, lastTry, cut>>

Done ==
    /\ call.at \in {"done", "wipe"} /\ todo = <<>>
    /\ Return
    /\ UNCHANGED <<keychain, memory, now, faults, history>>

-----------------------------------------------------------------------------
Init ==
    /\ keychain = [pin |-> NoPin, pinFailCount |-> 0, pinFailTime |-> 0,
                   mnemonic |-> NoPhrase, masterPubKey |-> NoPhrase]
    /\ failedPins = {} /\ masterPubKey = NoPhrase /\ didInitWallet = FALSE
    /\ now = 0 /\ call = Idle /\ todo = <<>> /\ faults = 0
    /\ tried = {} /\ lastTry = 0 /\ cut = FALSE /\ owned = NoPhrase

(* What a call does before it returns.                                     *)
Continue ==
    \/ Write \/ RightPin \/ WrongPin \/ ChangePin \/ Forced
    \/ SetRandomSeedPhrase \/ Derive \/ SeedSet \/ Done

Next ==
    \/ Continue \/ Throw \/ Kill \/ Tick \/ UseWallet \/ UserWipes
    \/ \E p \in Pin, new \in Pin \cup {NoPin} : Authenticate(p, new)
    \/ \E p \in Pin, phrase \in Phrase : ForceSetPin(p, phrase) \/ CreatePin(p, phrase)
    \/ \E phrase \in Phrase : Recover(phrase)

Spec == Init /\ [][Next]_vars

-----------------------------------------------------------------------------
(* Properties *)

Item == [pin : Pin \cup {NoPin}, pinFailCount : Nat, pinFailTime : Nat,
         mnemonic : Phrase \cup {NoPhrase}, masterPubKey : Phrase \cup {NoPhrase}]

TypeOK ==
    /\ keychain \in Item
    /\ failedPins \subseteq Pin /\ tried \subseteq Pin
    /\ masterPubKey \in Phrase \cup {NoPhrase} /\ owned \in Phrase \cup {NoPhrase}
    /\ didInitWallet \in BOOLEAN /\ cut \in BOOLEAN
    /\ now \in Nat /\ lastTry \in 0..now /\ faults \in Nat

(* Whatever is killed, throws or is forgotten in between, every wrong PIN  *)
(* that was compared since the last success is counted on the keychain.    *)
AttemptsCounted == Cardinality(tried) <= keychain.pinFailCount

(* A wallet that the app shows can be signed for, after any call that was  *)
(* cut short: a master public key on the keychain has its seed there.      *)
SeedBehindKey ==
    keychain.masterPubKey # NoPhrase => keychain.mnemonic = keychain.masterPubKey

(* The wallet of a phrase that was handed to the user stays until it is    *)
(* wiped: no later call replaces its seed.                                 *)
PhraseKept ==
    owned # NoPhrase => keychain.mnemonic = owned /\ keychain.masterPubKey = owned

(* After Free wrong PINs the next PIN is compared only when the delay for  *)
(* as many has passed since the last, unless a call was cut short, which   *)
(* can leave the time of that attempt unwritten.                           *)
LockoutHolds ==
    [][RightPin \/ WrongPin =>
         cut \/ Cardinality(tried) < Free \/ now >= lastTry + Delay(Cardinality(tried))]_vars

-----------------------------------------------------------------------------
(* What a comment says and the code does not keep: the wallet is wiped     *)
(* after MaxFailures unique failed attempts only.  The PINs that failed    *)
(* are kept in memory, so that after a restart they count again.           *)
WipeNeedsUnique ==
    [][WrongPin /\ call'.at = "wipe" => Cardinality(tried) + 1 >= MaxFailures]_vars
=============================================================================
