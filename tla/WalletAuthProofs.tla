-------------------------- MODULE WalletAuthProofs --------------------------
(***************************************************************************)
(* Proofs about WalletAuth, for any PINs, phrases, limits and delays: the  *)
(* state has its types, wrong attempts stay counted, and a wallet that is  *)
(* shown has its seed, whichever write throws and whenever the app is      *)
(* killed.  The invariant says, for each point of a call, what is left to  *)
(* write there and what was written before.                                *)
(***************************************************************************)
EXTENDS WalletAuth, FiniteSetTheorems, WellFoundedInduction, SequenceTheorems, TLAPS

(* A set of naturals that is not empty has a least member.                 *)
LEMMA LeastNat ==
    ASSUME NEW S \in SUBSET Nat, S # {}
    PROVE  \E n \in S : \A m \in S : n <= m
<1> DEFINE U == {1..n : n \in S}
<1>1. U \subseteq FiniteSubsetsOf(Nat)
    <2>1. \A n \in Nat : 1..n \subseteq Nat /\ IsFiniteSet(1..n)
        BY FS_Interval
    <2>2. QED BY <2>1 DEF FiniteSubsetsOf
<1>2. PICK x \in U : \A y \in U : ~(<<y, x>> \in StrictSubsetOrdering(Nat))
    <2>1. U # {}
        OBVIOUS
    <2>2. IsWellFoundedOn(StrictSubsetOrdering(Nat), FiniteSubsetsOf(Nat))
        BY FS_StrictSubsetOrderingWellFounded
    <2> HIDE DEF U
    <2> QED BY <1>1, <2>1, <2>2, WFMin
<1>3. PICK n \in S : x = 1..n
    OBVIOUS
<1>4. ASSUME NEW m \in S PROVE n <= m
    <2>1. SUFFICES ASSUME m < n PROVE FALSE
        OBVIOUS
    <2>2. 1..m \in U /\ 1..m \subseteq 1..n /\ 1..m # 1..n
        BY <2>1
    <2>3. 1..m \in SUBSET Nat /\ 1..n \in SUBSET Nat
        OBVIOUS
    <2>4. <<1..m, 1..n>> \in StrictSubsetOrdering(Nat)
        BY <2>2, <2>3 DEF StrictSubsetOrdering
    <2>5. QED BY <2>2, <2>4, <1>2, <1>3
<1>5. QED BY <1>4

(* Induction over the naturals, for a set in place of a predicate.         *)
LEMMA NatSetInduction ==
    ASSUME NEW S, 0 \in S, \A n \in Nat : n \in S => n + 1 \in S
    PROVE  Nat \subseteq S
<1>1. SUFFICES ASSUME Nat \ S # {} PROVE FALSE
    OBVIOUS
<1>2. PICK n \in Nat \ S : \A m \in Nat \ S : n <= m
    BY <1>1, LeastNat
<1>3. n - 1 \in Nat /\ n - 1 \in S
    BY <1>2
<1>4. QED BY <1>2, <1>3

-----------------------------------------------------------------------------
Points == {"idle", "compare", "change", "done", "force", "create", "derive", "seed", "wipe"}

Calls == [at : Points, pin : Pin \cup {NoPin}, new : Pin \cup {NoPin},
          phrase : Phrase \cup {NoPhrase}]

Settings ==
    [key : {"pin"}, value : Pin \cup {NoPin}]
    \cup [key : {"pinFailCount", "pinFailTime"}, value : Nat]
    \cup [key : {"mnemonic", "masterPubKey"}, value : Phrase \cup {NoPhrase}]

Typed ==
    /\ TypeOK
    /\ call \in Calls
    /\ todo \in Seq(Settings)
    /\ call.at = "compare" => call.pin \in Pin
    /\ call.at \in {"create", "derive", "seed"} => call.phrase \in Phrase

(* A PIN that is compared was counted, unless it failed before.            *)
Counted ==
    /\ AttemptsCounted
    /\ \A i \in 1..Len(todo) :
           todo[i].key = "pinFailCount" => Cardinality(tried) <= todo[i].value
    /\ call.at = "compare" =>
           \/ call.pin \in failedPins
           \/ Len(todo) = 0 /\ Cardinality(tried) + 1 <= keychain.pinFailCount
           \/ /\ Len(todo) = 1 /\ todo[1].key = "pinFailCount"
              /\ Cardinality(tried) + 1 <= todo[1].value

(* Only setSeedPhrase and wipeWallet write the seed or the key, the first  *)
(* when there is no wallet, the second when nobody owns it: the seed is    *)
(* the first to be written and the last to go.                             *)
Seeded ==
    /\ SeedBehindKey
    /\ PhraseKept
    /\ call.at = "derive" =>
           /\ owned = NoPhrase /\ keychain.masterPubKey = NoPhrase
           /\ \/ Len(todo) = 1 /\ todo[1] = Set("mnemonic", call.phrase)
              \/ Len(todo) = 0 /\ keychain.mnemonic = call.phrase
    /\ call.at = "seed" =>
           /\ owned = NoPhrase /\ keychain.mnemonic = call.phrase
           /\ \/ Len(todo) = 1 /\ todo[1] = Set("masterPubKey", call.phrase)
              \/ Len(todo) = 0 /\ keychain.masterPubKey = call.phrase
    /\ call.at = "wipe" =>
           /\ owned = NoPhrase
           /\ \A i \in 1..Len(todo) :
                  /\ todo[i].key = "masterPubKey" => todo[i].value = NoPhrase
                  /\ todo[i].key = "mnemonic" => i = Len(todo)
           /\ \/ keychain.masterPubKey = NoPhrase
              \/ \E i \in 1..Len(todo) : todo[i].key = "masterPubKey"
    /\ call.at \notin {"derive", "seed", "wipe"} =>
           \A i \in 1..Len(todo) : todo[i].key \notin {"mnemonic", "masterPubKey"}

(* The delay for as many wrong PINs has passed since the last.             *)
Waited == cut \/ Cardinality(tried) < Free \/ now >= lastTry + Delay(Cardinality(tried))

(* The time of the last wrong PIN is on the keychain, or the next thing to *)
(* be written, unless a call was cut short.                                *)
Timed ==
    /\ \/ cut \/ tried = {}
       \/ keychain.pinFailTime >= lastTry
       \/ call.at = "done" /\ Len(todo) = 1 /\ todo[1] = Set("pinFailTime", lastTry)
    /\ \A i \in 1..Len(todo) :
           todo[i].key = "pinFailTime" => tried = {} \/ todo[i].value >= lastTry
    /\ call.at = "compare" => Waited

AuthInv == Typed /\ Counted /\ Seeded /\ Timed

-----------------------------------------------------------------------------
(* What is written *)

LEMMA Constants ==
    /\ NoPin \notin Pin /\ NoPhrase \notin Phrase
    /\ MaxFailures \in Nat /\ Free \in Nat /\ IsFiniteSet(Pin)
BY AuthAssumption

(* Nothing is left, or one thing, when one thing is written.               *)
LEMMA OneSetting ==
    ASSUME NEW s \in Settings
    PROVE  <<s>> \in Seq(Settings) /\ Len(<<s>>) = 1 /\ <<s>>[1] = s
OBVIOUS

LEMMA NoSetting == <<>> \in Seq(Settings) /\ Len(<<>>) = 0
OBVIOUS

(* An item and what follows it.                                            *)
LEMMA HeadAndTail ==
    ASSUME NEW s \in Seq(Settings), s # <<>>
    PROVE  /\ Head(s) = s[1] /\ Head(s) \in Settings /\ Len(s) \in Nat \ {0}
           /\ Tail(s) \in Seq(Settings) /\ Len(Tail(s)) = Len(s) - 1
           /\ \A i \in 1..Len(Tail(s)) : Tail(s)[i] = s[i + 1]
OBVIOUS

LEMMA TwoThenThree ==
    ASSUME NEW s \in Seq(Settings), NEW t \in Seq(Settings), Len(s) = 2, Len(t) = 3
    PROVE  /\ s \o t \in Seq(Settings) /\ Len(s \o t) = 5
           /\ (s \o t)[1] = s[1] /\ (s \o t)[2] = s[2]
           /\ (s \o t)[3] = t[1] /\ (s \o t)[4] = t[2] /\ (s \o t)[5] = t[3]
<1> DEFINE u == s \o t
<1>1. u \in Seq(Settings) /\ Len(u) = Len(s) + Len(t)
    BY ConcatProperties
<1>2. \A i \in 1..(Len(s) + Len(t)) : u[i] = IF i <= Len(s) THEN s[i] ELSE t[i - Len(s)]
    BY ConcatProperties
<1> HIDE DEF u
<1>3. \A i \in 1..5 : u[i] = IF i <= 2 THEN s[i] ELSE t[i - 2]
    BY <1>2
<1>4. /\ u \in Seq(Settings) /\ Len(u) = 5
      /\ u[1] = s[1] /\ u[2] = s[2] /\ u[3] = t[1] /\ u[4] = t[2] /\ u[5] = t[3]
    BY <1>1, <1>3
<1> QED BY <1>4 DEF u

LEMMA ClearedFailures ==
    /\ ClearFailures \in Seq(Settings) /\ Len(ClearFailures) = 2
    /\ ClearFailures[1] = Set("pinFailTime", 0) /\ ClearFailures[2] = Set("pinFailCount", 0)
<1>1. Set("pinFailTime", 0) \in Settings /\ Set("pinFailCount", 0) \in Settings
    BY DEF Set, Settings
<1> QED BY <1>1 DEF ClearFailures

LEMMA WipedItems ==
    /\ WipeWrites \in Seq(Settings) /\ Len(WipeWrites) = 5
    /\ WipeWrites[1] = Set("pinFailTime", 0) /\ WipeWrites[2] = Set("pinFailCount", 0)
    /\ WipeWrites[3] = Set("pin", NoPin) /\ WipeWrites[4] = Set("masterPubKey", NoPhrase)
    /\ WipeWrites[5] = Set("mnemonic", NoPhrase)
<1> DEFINE rest == <<Set("pin", NoPin), Set("masterPubKey", NoPhrase), Set("mnemonic", NoPhrase)>>
<1>1. /\ Set("pin", NoPin) \in Settings /\ Set("masterPubKey", NoPhrase) \in Settings
      /\ Set("mnemonic", NoPhrase) \in Settings
    BY DEF Set, Settings
<1>2. /\ rest \in Seq(Settings) /\ Len(rest) = 3
      /\ rest[1] = Set("pin", NoPin) /\ rest[2] = Set("masterPubKey", NoPhrase)
      /\ rest[3] = Set("mnemonic", NoPhrase)
    BY <1>1
<1>3. WipeWrites = ClearFailures \o rest
    BY DEF WipeWrites
<1> HIDE DEF rest
<1> QED BY <1>2, <1>3, ClearedFailures, TwoThenThree

(* A write puts the first item on the keychain and leaves the others.      *)
LEMMA WriteEffect ==
    ASSUME Typed, Write
    PROVE  /\ todo[1] \in Settings /\ Len(todo) \in Nat \ {0}
           /\ keychain' = [keychain EXCEPT ![todo[1].key] = todo[1].value]
           /\ keychain' \in Item
           /\ todo' \in Seq(Settings) /\ Len(todo') = Len(todo) - 1
           /\ \A i \in 1..Len(todo') : i + 1 \in 1..Len(todo) /\ todo'[i] = todo[i + 1]
<1>1. /\ todo # <<>> /\ todo' = Tail(todo)
      /\ keychain' = [keychain EXCEPT ![Head(todo).key] = Head(todo).value]
    BY DEF Write
<1>2. todo \in Seq(Settings) /\ keychain \in Item
    BY DEF Typed, TypeOK
<1>3. /\ Head(todo) = todo[1] /\ todo[1] \in Settings /\ Len(todo) \in Nat \ {0}
      /\ todo' \in Seq(Settings) /\ Len(todo') = Len(todo) - 1
      /\ \A i \in 1..Len(todo') : todo'[i] = todo[i + 1]
    BY <1>1, <1>2, HeadAndTail
<1>4. keychain' = [keychain EXCEPT ![todo[1].key] = todo[1].value]
    BY <1>1, <1>3
<1>5. keychain' \in Item
    <2>1. CASE todo[1] \in [key : {"pin"}, value : Pin \cup {NoPin}]
        BY <1>2, <1>4, <2>1 DEF Item
    <2>2. CASE todo[1] \in [key : {"pinFailCount", "pinFailTime"}, value : Nat]
        BY <1>2, <1>4, <2>2 DEF Item
    <2>3. CASE todo[1] \in [key : {"mnemonic", "masterPubKey"}, value : Phrase \cup {NoPhrase}]
        BY <1>2, <1>4, <2>3 DEF Item
    <2> QED BY <1>3, <2>1, <2>2, <2>3 DEF Settings
<1> QED BY <1>3, <1>4, <1>5

-----------------------------------------------------------------------------
(* Types *)

LEMMA TypedInit == Init => Typed
<1> SUFFICES ASSUME Init PROVE Typed
    OBVIOUS
<1>1. todo \in Seq(Settings)
    BY NoSetting DEF Init
<1>2. keychain \in Item
    BY DEF Init, Item
<1>3. TypeOK
    <2>1. didInitWallet \in BOOLEAN /\ cut \in BOOLEAN
        BY DEF Init
    <2>2. /\ failedPins \subseteq Pin /\ tried \subseteq Pin
          /\ masterPubKey \in Phrase \cup {NoPhrase} /\ owned \in Phrase \cup {NoPhrase}
          /\ now \in Nat /\ lastTry \in 0..now /\ faults \in Nat
        BY DEF Init
    <2> QED BY <1>2, <2>1, <2>2 DEF TypeOK
<1>4. call \in Calls /\ call.at = "idle"
    BY DEF Init, Idle, Calls, Points
<1> QED BY <1>1, <1>3, <1>4 DEF Typed

(* A call that goes on writes items of the keychain.                       *)
LEMMA TypedStep ==
    ASSUME Typed, [Next]_vars
    PROVE  Typed'
<1> USE DEF memory, history
<1>1. /\ keychain \in Item /\ call \in Calls /\ todo \in Seq(Settings) /\ now \in Nat
    BY DEF Typed, TypeOK
<1>2. Idle \in Calls /\ Idle.at = "idle"
    BY DEF Idle, Calls, Points
<1>3. CASE Write
    <2>1. keychain' \in Item /\ todo' \in Seq(Settings)
        BY <1>3, WriteEffect
    <2>2. UNCHANGED <<failedPins, masterPubKey, didInitWallet, now, call, faults, tried, lastTry, cut, owned>>
        BY <1>3 DEF Write
    <2> QED BY <2>1, <2>2 DEF Typed, TypeOK
<1>4. CASE Throw \/ Kill \/ Done \/ SeedSet
    <2>1. todo' \in Seq(Settings) /\ call' \in Calls /\ call'.at = "idle"
        BY <1>2, <1>4, NoSetting DEF Throw, Kill, Done, SeedSet, Return
    <2>2. UNCHANGED keychain
        BY <1>4 DEF Throw, Kill, Done, SeedSet
    <2>3. didInitWallet' \in BOOLEAN /\ cut' \in BOOLEAN
        BY <1>4 DEF Throw, Kill, Done, SeedSet, Typed, TypeOK
    <2>4. masterPubKey' \in Phrase \cup {NoPhrase} /\ owned' \in Phrase \cup {NoPhrase}
        BY <1>1, <1>4 DEF Throw, Kill, Done, SeedSet, Typed, TypeOK, Item, Calls
    <2>5. /\ failedPins' \subseteq Pin /\ tried' \subseteq Pin /\ now' \in Nat
          /\ lastTry' \in 0..now' /\ faults' \in Nat
        BY <1>4 DEF Throw, Kill, Done, SeedSet, Typed, TypeOK
    <2>6. TypeOK'
        BY <1>1, <2>2, <2>3, <2>4, <2>5 DEF TypeOK
    <2> QED BY <2>1, <2>6 DEF Typed
<1>5. CASE Tick \/ UseWallet
    <2>1. UNCHANGED <<keychain, call, todo>>
        BY <1>5 DEF Tick, UseWallet
    <2>2. didInitWallet' \in BOOLEAN
        BY <1>5 DEF Tick, UseWallet, Typed, TypeOK
    <2>3. now' \in Nat /\ lastTry' \in 0..now'
        BY <1>5 DEF Tick, UseWallet, Typed, TypeOK
    <2>4. UNCHANGED <<failedPins, tried, masterPubKey, owned, cut, faults>>
        BY <1>5 DEF Tick, UseWallet
    <2>5. TypeOK'
        BY <2>1, <2>2, <2>3, <2>4 DEF Typed, TypeOK
    <2> QED BY <2>1, <2>5 DEF Typed
<1>6. ASSUME NEW p \in Pin, NEW new \in Pin \cup {NoPin}, Try(p, new)
      PROVE  Typed'
    <2>1. Counting(p) \in Seq(Settings)
        <3>1. Set("pinFailCount", keychain.pinFailCount + 1) \in Settings
            BY <1>1 DEF Set, Settings, Item
        <3> QED BY <3>1, OneSetting, NoSetting DEF Counting
    <2>2. call' \in Calls /\ call'.at = "compare"
        BY <1>6 DEF Try, Idle, Calls, Points
    <2>3. TypeOK'
        BY <1>6 DEF Try, Typed, TypeOK
    <2> QED BY <1>6, <2>1, <2>2, <2>3 DEF Try, Typed
<1>7. ASSUME NEW next \in {"done", "change"} \cup {IF call.phrase = NoPhrase THEN "done" ELSE "create"},
             Success(next)
      PROVE  Typed'
    <2>1. call' = [call EXCEPT !.at = next] /\ todo' = ClearFailures
        BY <1>7 DEF Success
    <2>2. todo' \in Seq(Settings)
        BY <2>1, ClearedFailures
    <2>3. call' \in Calls /\ call'.at = next /\ call'.phrase = call.phrase
        BY <1>1, <1>7, <2>1 DEF Calls, Points
    <2>4. call'.at \in {"create", "derive", "seed"} => call'.phrase \in Phrase
        BY <1>1, <1>7, <2>3 DEF Calls
    <2>5. TypeOK'
        BY <1>7 DEF Success, Typed, TypeOK
    <2> QED BY <2>2, <2>3, <2>4, <2>5 DEF Typed
<1>8. CASE RightPin \/ Forced
    BY <1>7, <1>8 DEF RightPin, Forced
<1>9. ASSUME Wipe, UNCHANGED <<keychain, now, faults, cut>>, failedPins' \subseteq Pin,
             tried' \subseteq Pin, lastTry' \in 0..now
      PROVE  Typed'
    <2>1. todo' \in Seq(Settings)
        BY <1>9, WipedItems DEF Wipe
    <2>2. call' \in Calls /\ call'.at = "wipe"
        BY <1>9 DEF Wipe, Idle, Calls, Points
    <2>3. TypeOK'
        BY <1>9 DEF Wipe, Typed, TypeOK
    <2> QED BY <2>1, <2>2, <2>3 DEF Typed
<1>10. CASE UserWipes
    BY <1>9, <1>10 DEF UserWipes, Typed, TypeOK
<1>11. CASE WrongPin
    <2>1. CASE call.pin \in failedPins /\ Return /\ UNCHANGED <<memory, tried, lastTry, owned>>
        <3>1. todo' \in Seq(Settings) /\ call' \in Calls /\ call'.at = "idle"
            BY <1>2, <2>1, NoSetting DEF Return
        <3>2. TypeOK'
            BY <1>11, <2>1 DEF WrongPin, Typed, TypeOK
        <3> QED BY <3>1, <3>2 DEF Typed
    <2>2. call.pin \in Pin
        BY <1>11 DEF WrongPin, Comparing, Typed
    <2>3. CASE Wipe /\ tried' = {} /\ failedPins' = failedPins \cup {call.pin} /\ lastTry' = now
        <3>1. failedPins' \subseteq Pin /\ tried' \subseteq Pin /\ lastTry' \in 0..now
            BY <1>1, <2>2, <2>3 DEF Typed, TypeOK
        <3> QED BY <1>9, <1>11, <2>3, <3>1 DEF WrongPin
    <2>4. CASE /\ failedPins' = failedPins \cup {call.pin} /\ lastTry' = now
               /\ tried' = tried \cup {call.pin}
               /\ todo' = IF now > keychain.pinFailTime THEN <<Set("pinFailTime", now)>> ELSE <<>>
               /\ call' = [call EXCEPT !.at = "done"]
               /\ UNCHANGED <<masterPubKey, didInitWallet, owned>>
        <3>1. Set("pinFailTime", now) \in Settings
            BY <1>1 DEF Set, Settings
        <3>2. todo' \in Seq(Settings)
            BY <2>4, <3>1, OneSetting, NoSetting
        <3>3. call' \in Calls /\ call'.at = "done"
            BY <1>1, <2>4 DEF Calls, Points
        <3>4. failedPins' \subseteq Pin /\ tried' \subseteq Pin /\ lastTry' \in 0..now
            BY <1>1, <2>2, <2>4 DEF Typed, TypeOK
        <3>5. TypeOK'
            BY <1>11, <2>4, <3>4 DEF WrongPin, Typed, TypeOK
        <3> QED BY <3>2, <3>3, <3>5 DEF Typed
    <2> QED BY <1>11, <2>1, <2>3, <2>4 DEF WrongPin
<1>12. ASSUME NEW item \in Settings, todo' = <<item>>, call' \in Calls,
              call'.at \in {"done", "force", "derive", "seed"},
              call'.at \in {"derive", "seed"} => call'.phrase \in Phrase,
              masterPubKey' \in Phrase \cup {NoPhrase},
              UNCHANGED <<keychain, failedPins, didInitWallet, now, faults, history>>
       PROVE  Typed'
    <2>1. todo' \in Seq(Settings)
        BY <1>12, OneSetting
    <2>2. TypeOK'
        BY <1>12 DEF Typed, TypeOK
    <2> QED BY <1>12, <2>1, <2>2 DEF Typed
<1>13. CASE ChangePin
    <2>1. Set("pin", call.new) \in Settings
        BY <1>1 DEF Calls, Set, Settings
    <2>2. call' \in Calls /\ call'.at = "done"
        BY <1>1, <1>13 DEF ChangePin, Calls, Points
    <2> QED BY <1>12, <1>13, <2>1, <2>2 DEF ChangePin, Typed, TypeOK
<1>14. ASSUME NEW new \in Pin \cup {NoPin}, NEW then \in Phrase \cup {NoPhrase}, Replace(new, then)
       PROVE  Typed'
    <2>1. Set("pin", new) \in Settings
        BY DEF Set, Settings
    <2>2. call' \in Calls /\ call'.at = "force"
        BY <1>14 DEF Replace, Idle, Calls, Points
    <2> QED BY <1>12, <1>14, <2>1, <2>2 DEF Replace, Typed, TypeOK
<1>15. ASSUME NEW phrase \in Phrase, SetSeed(phrase)
       PROVE  Typed'
    <2>1. Set("mnemonic", phrase) \in Settings
        BY DEF Set, Settings
    <2>2. call' \in Calls /\ call'.at = "derive" /\ call'.phrase = phrase
        BY <1>15 DEF SetSeed, Idle, Calls, Points
    <2> QED BY <1>12, <1>15, <2>1, <2>2 DEF SetSeed, Typed, TypeOK
<1>16. CASE SetRandomSeedPhrase
    BY <1>15, <1>16 DEF SetRandomSeedPhrase, Typed
<1>17. CASE Derive
    <2>1. call.phrase \in Phrase
        BY <1>17 DEF Derive, Typed
    <2>2. Set("masterPubKey", call.phrase) \in Settings
        BY <2>1 DEF Set, Settings
    <2>3. call' \in Calls /\ call'.at = "seed" /\ call'.phrase = call.phrase
        BY <1>1, <1>17 DEF Derive, Calls, Points
    <2> QED BY <1>12, <1>17, <2>1, <2>2, <2>3 DEF Derive
<1>18. ASSUME NEW p \in Pin, NEW new \in Pin \cup {NoPin}, Authenticate(p, new)
       PROVE  Typed'
    BY <1>6, <1>18 DEF Authenticate
<1>19. ASSUME NEW p \in Pin, NEW phrase \in Phrase, ForceSetPin(p, phrase) \/ CreatePin(p, phrase)
       PROVE  Typed'
    BY <1>6, <1>14, <1>19 DEF ForceSetPin, CreatePin
<1>20. CASE \E phrase \in Phrase : Recover(phrase)
    BY <1>15, <1>20 DEF Recover
<1>21. CASE UNCHANGED vars
    BY <1>21 DEF vars, Typed, TypeOK
<1> QED BY <1>3, <1>4, <1>5, <1>8, <1>10, <1>11, <1>13, <1>16, <1>17, <1>18, <1>19, <1>20, <1>21
        DEF Next, Continue

(* The variables have their types in every reachable state.                *)
THEOREM AuthTypeCorrect == Spec => []TypeOK
<1>1. Typed /\ [Next]_vars => Typed'
    BY TypedStep
<1>2. Typed => TypeOK
    BY DEF Typed
<1> QED BY <1>1, <1>2, TypedInit, PTL DEF Spec

-----------------------------------------------------------------------------
(* The failed attempts *)

LEMMA CardinalityTyped == Typed => Cardinality(tried) \in Nat
BY FS_Subset, FS_CardinalityType, AuthAssumption DEF Typed, TypeOK

LEMMA CountedInit == Init => Counted
<1> SUFFICES ASSUME Init PROVE Counted
    OBVIOUS
<1>1. Cardinality(tried) = 0 /\ Len(todo) = 0 /\ call.at = "idle" /\ keychain.pinFailCount = 0
    BY FS_EmptySet, NoSetting DEF Init, Idle
<1> QED BY <1>1 DEF Counted, AttemptsCounted

(* Each wrong PIN was counted before it was compared, and the count is     *)
(* cleared only when no attempt is to be counted.                          *)
LEMMA CountedStep ==
    ASSUME Typed, Counted, [Next]_vars
    PROVE  Counted'
<1> USE DEF memory, history, AttemptsCounted
<1>1. /\ keychain \in Item /\ todo \in Seq(Settings) /\ Len(todo) \in Nat
      /\ keychain.pinFailCount \in Nat /\ Cardinality(tried) \in Nat
    BY CardinalityTyped DEF Typed, TypeOK, Item
<1>2. CASE Write
    <2>1. UNCHANGED <<tried, call, failedPins>>
        BY <1>2 DEF Write
    <2>2. /\ todo[1] \in Settings
          /\ keychain' = [keychain EXCEPT ![todo[1].key] = todo[1].value]
          /\ Len(todo) \in Nat \ {0} /\ Len(todo') = Len(todo) - 1
          /\ \A i \in 1..Len(todo') : i + 1 \in 1..Len(todo) /\ todo'[i] = todo[i + 1]
        BY <1>2, WriteEffect
    <2>3. keychain'.pinFailCount
              = IF todo[1].key = "pinFailCount" THEN todo[1].value ELSE keychain.pinFailCount
        BY <1>1, <2>2 DEF Item
    <2>4. Cardinality(tried') <= keychain'.pinFailCount
        BY <2>1, <2>2, <2>3 DEF Counted
    <2>5. \A i \in 1..Len(todo') :
              todo'[i].key = "pinFailCount" => Cardinality(tried') <= todo'[i].value
        BY <2>1, <2>2 DEF Counted
    <2>6. call.at = "compare" =>
              \/ call.pin \in failedPins
              \/ Len(todo') = 0 /\ Cardinality(tried) + 1 <= keychain'.pinFailCount
        BY <2>2, <2>3 DEF Counted
    <2> QED BY <2>1, <2>4, <2>5, <2>6 DEF Counted
<1>3. ASSUME keychain'.pinFailCount = keychain.pinFailCount, tried' = tried \/ tried' = {}, call'.at # "compare",
             \A i \in 1..Len(todo') : todo'[i].key = "pinFailCount" => tried' = {} /\ todo'[i].value = 0
      PROVE  Counted'
    <2>1. tried' = {} => Cardinality(tried') = 0
        BY FS_EmptySet, Zenon
    <2>2. Cardinality(tried') <= keychain'.pinFailCount
        <3>1. CASE tried' = {}
            BY <1>1, <1>3, <2>1, <3>1
        <3>2. CASE tried' = tried
            BY <1>3, <3>2 DEF Counted
        <3> QED BY <1>3, <3>1, <3>2
    <2>3. \A i \in 1..Len(todo') :
              todo'[i].key = "pinFailCount" => Cardinality(tried') <= todo'[i].value
        <3> SUFFICES ASSUME NEW i \in 1..Len(todo'), todo'[i].key = "pinFailCount"
                     PROVE  Cardinality(tried') <= todo'[i].value
            OBVIOUS
        <3>1. tried' = {} /\ todo'[i].value = 0
            BY <1>3
        <3> QED BY <2>1, <3>1
    <2> QED BY <1>3, <2>2, <2>3 DEF Counted
<1>4. CASE Throw \/ Kill \/ Done \/ SeedSet
    <2>1. todo' = <<>> /\ call'.at = "idle" /\ UNCHANGED <<keychain, tried>>
        BY <1>4 DEF Throw, Kill, Done, SeedSet, Return, Idle
    <2> QED BY <1>3, <2>1, NoSetting
<1>5. CASE Tick \/ UseWallet
    <2>1. UNCHANGED <<keychain, tried, call, todo, failedPins>>
        BY <1>5 DEF Tick, UseWallet
    <2> QED BY <2>1 DEF Counted
<1>6. ASSUME NEW p \in Pin, NEW new \in Pin \cup {NoPin}, Try(p, new)
      PROVE  Counted'
    <2>1. UNCHANGED <<keychain, tried, failedPins>> /\ todo' = Counting(p)
        BY <1>6 DEF Try
    <2>2. call'.at = "compare" /\ call'.pin = p
        BY <1>6 DEF Try, Idle
    <2> DEFINE item == Set("pinFailCount", keychain.pinFailCount + 1)
    <2>3. item \in Settings /\ item.key = "pinFailCount" /\ item.value = keychain.pinFailCount + 1
        BY <1>1 DEF Set, Settings
    <2> HIDE DEF item
    <2>4. CASE p \in failedPins
        <3>1. todo' = <<>>
            BY <2>1, <2>4 DEF Counting
        <3> QED BY <2>1, <2>2, <2>4, <3>1, NoSetting DEF Counted
    <2>5. CASE p \notin failedPins
        <3>1. todo' = <<item>>
            BY <2>1, <2>5 DEF Counting, item
        <3>2. Len(todo') = 1 /\ todo'[1] = item
            BY <2>3, <3>1, OneSetting
        <3> QED BY <1>1, <2>1, <2>2, <2>3, <3>2 DEF Counted
    <2> QED BY <2>4, <2>5
<1>7. ASSUME NEW next \in {"done", "change", "create"}, Success(next)
      PROVE  Counted'
    <2>1. tried' = {} /\ todo' = ClearFailures /\ UNCHANGED keychain
        BY <1>7 DEF Success
    <2>2. call'.at # "compare"
        BY <1>7 DEF Success, Typed, Calls
    <2>3. \A i \in 1..Len(todo') : todo'[i].value = 0
        BY <2>1, ClearedFailures DEF Set
    <2> QED BY <1>3, <2>1, <2>2, <2>3
<1>8. CASE RightPin \/ Forced
    BY <1>7, <1>8 DEF RightPin, Forced
<1>9. ASSUME Wipe, UNCHANGED keychain, tried' = {}
      PROVE  Counted'
    <2>1. todo' = WipeWrites /\ call'.at = "wipe"
        BY <1>9 DEF Wipe, Idle
    <2>2. \A i \in 1..Len(todo') : todo'[i].key = "pinFailCount" => todo'[i].value = 0
        BY <2>1, WipedItems DEF Set
    <2> QED BY <1>3, <1>9, <2>1, <2>2
<1>10. CASE UserWipes
    BY <1>9, <1>10 DEF UserWipes
<1>11. CASE WrongPin
    <2>1. call.at = "compare" /\ todo = <<>> /\ UNCHANGED keychain
        BY <1>11 DEF WrongPin, Comparing
    <2>2. CASE Return /\ UNCHANGED tried
        <3>1. todo' = <<>> /\ call'.at = "idle"
            BY <2>2 DEF Return, Idle
        <3> QED BY <1>3, <2>1, <2>2, <3>1, NoSetting
    <2>3. CASE Wipe /\ tried' = {}
        BY <1>9, <2>1, <2>3
    <2>4. CASE /\ call.pin \notin failedPins
               /\ tried' = tried \cup {call.pin}
               /\ todo' = IF now > keychain.pinFailTime THEN <<Set("pinFailTime", now)>> ELSE <<>>
               /\ call' = [call EXCEPT !.at = "done"]
        <3>1. Cardinality(tried) + 1 <= keychain.pinFailCount
            BY <2>1, <2>4, NoSetting DEF Counted
        <3>2. IsFiniteSet(tried)
            BY FS_Subset, AuthAssumption DEF Typed, TypeOK
        <3>3. Cardinality(tried') <= Cardinality(tried) + 1 /\ Cardinality(tried') \in Nat
            <4>1. Cardinality(tried \cup {call.pin})
                      = IF call.pin \in tried THEN Cardinality(tried) ELSE Cardinality(tried) + 1
                BY <3>2, FS_AddElement
            <4>2. Cardinality(tried') = Cardinality(tried \cup {call.pin})
                BY <2>4, Zenon
            <4> QED BY <1>1, <4>1, <4>2
        <3>4. call'.at = "done"
            BY <2>4 DEF Typed, Calls
        <3>5. Set("pinFailTime", now) \in Settings /\ Set("pinFailTime", now).key = "pinFailTime"
            BY DEF Set, Settings, Typed, TypeOK
        <3>6. \A i \in 1..Len(todo') : todo'[i].key # "pinFailCount"
            BY <2>4, <3>5, OneSetting, NoSetting
        <3> QED BY <1>1, <2>1, <3>1, <3>3, <3>4, <3>6 DEF Counted
    <2> QED BY <1>11, <2>2, <2>3, <2>4 DEF WrongPin
<1>12. ASSUME NEW item \in Settings, item.key # "pinFailCount", todo' = <<item>>,
              call'.at # "compare", UNCHANGED <<keychain, tried>>
       PROVE  Counted'
    BY <1>3, <1>12, OneSetting
<1>13. CASE ChangePin
    <2>1. Set("pin", call.new) \in Settings /\ Set("pin", call.new).key = "pin"
        BY DEF Typed, Calls, Set, Settings
    <2>2. call'.at = "done"
        BY <1>13 DEF ChangePin, Typed, Calls
    <2> QED BY <1>12, <1>13, <2>1, <2>2 DEF ChangePin
<1>14. ASSUME NEW new \in Pin \cup {NoPin}, NEW then, Replace(new, then)
       PROVE  Counted'
    <2>1. Set("pin", new) \in Settings /\ Set("pin", new).key = "pin"
        BY DEF Set, Settings
    <2>2. call'.at = "force"
        BY <1>14 DEF Replace, Idle
    <2> QED BY <1>12, <1>14, <2>1, <2>2 DEF Replace
<1>15. ASSUME NEW phrase \in Phrase, SetSeed(phrase)
       PROVE  Counted'
    <2>1. Set("mnemonic", phrase) \in Settings /\ Set("mnemonic", phrase).key = "mnemonic"
        BY DEF Set, Settings
    <2>2. call'.at = "derive"
        BY <1>15 DEF SetSeed, Idle
    <2> QED BY <1>12, <1>15, <2>1, <2>2 DEF SetSeed
<1>16. CASE SetRandomSeedPhrase \/ \E phrase \in Phrase : Recover(phrase)
    BY <1>15, <1>16 DEF SetRandomSeedPhrase, Recover, Typed
<1>17. CASE Derive
    <2>1. call.phrase \in Phrase
        BY <1>17 DEF Derive, Typed
    <2>2. /\ Set("masterPubKey", call.phrase) \in Settings
          /\ Set("masterPubKey", call.phrase).key = "masterPubKey"
        BY <2>1 DEF Set, Settings
    <2>3. call'.at = "seed"
        BY <1>17 DEF Derive, Typed, Calls
    <2> QED BY <1>12, <1>17, <2>2, <2>3 DEF Derive
<1>18. ASSUME NEW p \in Pin, NEW new \in Pin \cup {NoPin}, Authenticate(p, new)
       PROVE  Counted'
    BY <1>6, <1>18 DEF Authenticate
<1>19. ASSUME NEW p \in Pin, NEW phrase \in Phrase, ForceSetPin(p, phrase) \/ CreatePin(p, phrase)
       PROVE  Counted'
    BY <1>6, <1>14, <1>19 DEF ForceSetPin, CreatePin
<1>20. CASE UNCHANGED vars
    BY <1>20 DEF vars, Counted
<1> QED BY <1>2, <1>4, <1>5, <1>8, <1>10, <1>11, <1>13, <1>16, <1>17, <1>18, <1>19, <1>20
        DEF Next, Continue

(* Every wrong PIN that was compared since the last success is counted on  *)
(* the keychain, whatever throws or is killed.                             *)
THEOREM AttemptsStayCounted == Spec => []AttemptsCounted
<1>1. Typed /\ Counted /\ [Next]_vars => (Typed /\ Counted)'
    BY TypedStep, CountedStep
<1>2. Counted => AttemptsCounted
    BY DEF Counted
<1>3. Init => Typed /\ Counted
    BY TypedInit, CountedInit
<1> QED BY <1>1, <1>2, <1>3, PTL DEF Spec

-----------------------------------------------------------------------------
(* The seed and the key *)

LEMMA SeededInit == Init => Seeded
<1> SUFFICES ASSUME Init PROVE Seeded
    OBVIOUS
<1>1. /\ keychain.masterPubKey = NoPhrase /\ owned = NoPhrase
      /\ Len(todo) = 0 /\ call.at = "idle"
    BY NoSetting DEF Init, Idle
<1> QED BY <1>1 DEF Seeded, SeedBehindKey, PhraseKept

(* Where other items are written, the seed and the key stay.               *)
LEMMA OthersWritten ==
    ASSUME Typed, Seeded, UNCHANGED <<keychain, owned>>,
           call'.at \notin {"derive", "seed", "wipe"},
           \A i \in 1..Len(todo') : todo'[i].key \notin {"mnemonic", "masterPubKey"}
    PROVE  Seeded'
BY DEF Seeded, SeedBehindKey, PhraseKept

(* One write keeps them together, at whatever point of a call it is.       *)
LEMMA SeededWrite ==
    ASSUME Typed, Seeded, Write
    PROVE  Seeded'
<1>1. keychain \in Item /\ call \in Calls /\ Len(todo) \in Nat
    BY DEF Typed, TypeOK
<1>2. UNCHANGED <<call, owned>>
    BY DEF Write, history
<1>3. /\ todo[1] \in Settings /\ Len(todo) \in Nat \ {0} /\ 1 \in 1..Len(todo)
      /\ keychain' = [keychain EXCEPT ![todo[1].key] = todo[1].value]
      /\ Len(todo') = Len(todo) - 1
      /\ \A i \in 1..Len(todo') : i + 1 \in 1..Len(todo) /\ todo'[i] = todo[i + 1]
    BY WriteEffect
<1>4. /\ keychain'.mnemonic = IF todo[1].key = "mnemonic" THEN todo[1].value ELSE keychain.mnemonic
      /\ keychain'.masterPubKey
            = IF todo[1].key = "masterPubKey" THEN todo[1].value ELSE keychain.masterPubKey
    BY <1>1, <1>3 DEF Item
<1>5. CASE call.at = "derive"
    <2>1. Len(todo) = 1 /\ todo[1] = Set("mnemonic", call.phrase) /\ owned = NoPhrase
          /\ keychain.masterPubKey = NoPhrase
        BY <1>3, <1>5 DEF Seeded
    <2>2. keychain'.mnemonic = call.phrase /\ keychain'.masterPubKey = NoPhrase /\ Len(todo') = 0
        BY <1>3, <1>4, <2>1 DEF Set
    <2> QED BY <1>2, <1>5, <2>1, <2>2 DEF Seeded, SeedBehindKey, PhraseKept
<1>6. CASE call.at = "seed"
    <2>1. Len(todo) = 1 /\ todo[1] = Set("masterPubKey", call.phrase) /\ owned = NoPhrase
          /\ keychain.mnemonic = call.phrase
        BY <1>3, <1>6 DEF Seeded
    <2>2. keychain'.mnemonic = call.phrase /\ keychain'.masterPubKey = call.phrase /\ Len(todo') = 0
        BY <1>3, <1>4, <2>1 DEF Set
    <2> QED BY <1>2, <1>6, <2>1, <2>2 DEF Seeded, SeedBehindKey, PhraseKept
<1>7. CASE call.at = "wipe"
    <2>1. /\ owned = NoPhrase
          /\ \A i \in 1..Len(todo) :
                 /\ todo[i].key = "masterPubKey" => todo[i].value = NoPhrase
                 /\ todo[i].key = "mnemonic" => i = Len(todo)
          /\ \/ keychain.masterPubKey = NoPhrase
             \/ \E i \in 1..Len(todo) : todo[i].key = "masterPubKey"
        BY <1>7 DEF Seeded
    <2>2. \A i \in 1..Len(todo') :
              /\ todo'[i].key = "masterPubKey" => todo'[i].value = NoPhrase
              /\ todo'[i].key = "mnemonic" => i = Len(todo')
        BY <1>3, <2>1
    <2>3. \/ keychain'.masterPubKey = NoPhrase
          \/ \E i \in 1..Len(todo') : todo'[i].key = "masterPubKey"
        <3>1. CASE keychain.masterPubKey = NoPhrase
            BY <1>3, <1>4, <2>1, <3>1
        <3>2. ASSUME NEW i \in 1..Len(todo), todo[i].key = "masterPubKey"
              PROVE  \/ keychain'.masterPubKey = NoPhrase
                     \/ \E j \in 1..Len(todo') : todo'[j].key = "masterPubKey"
            <4>1. CASE i = 1
                BY <1>3, <1>4, <2>1, <3>2, <4>1
            <4>2. CASE i # 1
                <5>1. i - 1 \in 1..Len(todo') /\ todo'[i - 1] = todo[i]
                    BY <1>3, <4>2
                <5> QED BY <3>2, <5>1
            <4> QED BY <4>1, <4>2
        <3> QED BY <2>1, <3>1, <3>2
    <2>4. SeedBehindKey'
        <3>1. CASE todo[1].key = "mnemonic"
            <4>1. Len(todo) = 1
                BY <1>3, <2>1, <3>1
            <4>2. keychain.masterPubKey = NoPhrase
                BY <2>1, <3>1, <4>1
            <4> QED BY <1>4, <3>1, <4>2 DEF SeedBehindKey
        <3>2. CASE todo[1].key # "mnemonic"
            BY <1>3, <1>4, <2>1, <3>2 DEF Seeded, SeedBehindKey
        <3> QED BY <3>1, <3>2
    <2> QED BY <1>2, <1>7, <2>1, <2>2, <2>3, <2>4 DEF Seeded, PhraseKept
<1>8. CASE call.at \notin {"derive", "seed", "wipe"}
    <2>1. \A i \in 1..Len(todo) : todo[i].key \notin {"mnemonic", "masterPubKey"}
        BY <1>8 DEF Seeded
    <2>2. keychain'.mnemonic = keychain.mnemonic /\ keychain'.masterPubKey = keychain.masterPubKey
        BY <1>3, <1>4, <2>1
    <2>3. \A i \in 1..Len(todo') : todo'[i].key \notin {"mnemonic", "masterPubKey"}
        BY <1>3, <2>1
    <2> QED BY <1>2, <1>8, <2>2, <2>3 DEF Seeded, SeedBehindKey, PhraseKept
<1> QED BY <1>5, <1>6, <1>7, <1>8

(* A wallet is set where there is none, and gone once nobody owns it.      *)
LEMMA SeededStep ==
    ASSUME Typed, Seeded, [Next]_vars
    PROVE  Seeded'
<1> USE DEF memory, history
<1>1. /\ keychain \in Item /\ call \in Calls /\ todo \in Seq(Settings) /\ Len(todo) \in Nat
    BY DEF Typed, TypeOK
<1>2. CASE Write
    BY <1>2, SeededWrite
<1>3. CASE Throw \/ Kill \/ Done
    <2>1. todo' = <<>> /\ call'.at = "idle" /\ UNCHANGED <<keychain, owned>>
        BY <1>3 DEF Throw, Kill, Done, Return, Idle
    <2> QED BY <2>1, NoSetting, OthersWritten
<1>4. CASE SeedSet
    <2>1. /\ call.at = "seed" /\ todo = <<>> /\ todo' = <<>> /\ call'.at = "idle"
          /\ UNCHANGED keychain /\ owned' = call.phrase
        BY <1>4 DEF SeedSet, Return, Idle
    <2>2. keychain.mnemonic = call.phrase /\ keychain.masterPubKey = call.phrase
        BY <2>1, NoSetting DEF Seeded
    <2> QED BY <2>1, <2>2, NoSetting DEF Seeded, SeedBehindKey, PhraseKept
<1>5. CASE Tick \/ UseWallet
    <2>1. UNCHANGED <<keychain, call, todo, owned>>
        BY <1>5 DEF Tick, UseWallet
    <2> QED BY <2>1 DEF Seeded, SeedBehindKey, PhraseKept
<1>6. ASSUME NEW p \in Pin, NEW new \in Pin \cup {NoPin}, Try(p, new)
      PROVE  Seeded'
    <2>1. UNCHANGED <<keychain, owned>> /\ todo' = Counting(p) /\ call'.at = "compare"
        BY <1>6 DEF Try, Idle
    <2>2. /\ Set("pinFailCount", keychain.pinFailCount + 1) \in Settings
          /\ Set("pinFailCount", keychain.pinFailCount + 1).key = "pinFailCount"
        BY <1>1 DEF Set, Settings, Item
    <2>3. \A i \in 1..Len(todo') : todo'[i].key = "pinFailCount"
        BY <2>1, <2>2, OneSetting, NoSetting DEF Counting
    <2> QED BY <2>1, <2>3, OthersWritten
<1>7. ASSUME NEW next \in {"done", "change", "create"}, Success(next), UNCHANGED owned
      PROVE  Seeded'
    <2>1. todo' = ClearFailures /\ UNCHANGED keychain /\ call'.at = next
        BY <1>1, <1>7 DEF Success, Calls
    <2>2. \A i \in 1..Len(todo') : todo'[i].key \in {"pinFailTime", "pinFailCount"}
        BY <2>1, ClearedFailures DEF Set
    <2> QED BY <1>7, <2>1, <2>2, OthersWritten
<1>8. CASE RightPin \/ Forced
    BY <1>7, <1>8 DEF RightPin, Forced, Success
<1>9. ASSUME Wipe, UNCHANGED keychain
      PROVE  Seeded'
    <2>1. todo' = WipeWrites /\ call'.at = "wipe" /\ owned' = NoPhrase
        BY <1>9 DEF Wipe, Idle
    <2>2. \A i \in 1..Len(todo') :
              /\ todo'[i].key = "masterPubKey" => todo'[i].value = NoPhrase
              /\ todo'[i].key = "mnemonic" => i = Len(todo')
        BY <2>1, WipedItems DEF Set
    <2>3. 4 \in 1..Len(todo') /\ todo'[4].key = "masterPubKey"
        BY <2>1, WipedItems DEF Set
    <2> QED BY <1>9, <2>1, <2>2, <2>3 DEF Seeded, SeedBehindKey, PhraseKept
<1>10. CASE UserWipes
    BY <1>9, <1>10 DEF UserWipes
<1>11. CASE WrongPin
    <2>1. UNCHANGED keychain
        BY <1>11 DEF WrongPin
    <2>2. CASE Return /\ UNCHANGED owned
        <3>1. todo' = <<>> /\ call'.at = "idle"
            BY <2>2 DEF Return, Idle
        <3> QED BY <2>1, <2>2, <3>1, NoSetting, OthersWritten
    <2>3. CASE Wipe
        BY <1>9, <2>1, <2>3
    <2>4. CASE /\ todo' = IF now > keychain.pinFailTime THEN <<Set("pinFailTime", now)>> ELSE <<>>
               /\ call' = [call EXCEPT !.at = "done"]
               /\ UNCHANGED owned
        <3>1. Set("pinFailTime", now) \in Settings /\ Set("pinFailTime", now).key = "pinFailTime"
            BY DEF Set, Settings, Typed, TypeOK
        <3>2. \A i \in 1..Len(todo') : todo'[i].key = "pinFailTime"
            BY <2>4, <3>1, OneSetting, NoSetting
        <3>3. call'.at = "done"
            BY <1>1, <2>4 DEF Calls
        <3> QED BY <2>1, <2>4, <3>2, <3>3, OthersWritten
    <2> QED BY <1>11, <2>2, <2>3, <2>4 DEF WrongPin
<1>12. ASSUME NEW item \in Settings, item.key = "pin", todo' = <<item>>,
              call'.at \in {"done", "force"}, UNCHANGED <<keychain, owned>>
       PROVE  Seeded'
    BY <1>12, OneSetting, OthersWritten
<1>13. CASE ChangePin
    <2>1. Set("pin", call.new) \in Settings /\ Set("pin", call.new).key = "pin"
        BY <1>1 DEF Calls, Set, Settings
    <2>2. call'.at = "done"
        BY <1>1, <1>13 DEF ChangePin, Calls
    <2> QED BY <1>12, <1>13, <2>1, <2>2 DEF ChangePin
<1>14. ASSUME NEW new \in Pin \cup {NoPin}, NEW then, Replace(new, then)
       PROVE  Seeded'
    <2>1. Set("pin", new) \in Settings /\ Set("pin", new).key = "pin"
        BY DEF Set, Settings
    <2>2. call'.at = "force"
        BY <1>14 DEF Replace, Idle
    <2> QED BY <1>12, <1>14, <2>1, <2>2 DEF Replace
<1>15. ASSUME NEW phrase \in Phrase, SetSeed(phrase)
       PROVE  Seeded'
    <2>1. /\ keychain.masterPubKey = NoPhrase /\ UNCHANGED <<keychain, owned>>
          /\ call'.at = "derive" /\ call'.phrase = phrase
          /\ todo' = <<Set("mnemonic", phrase)>>
        BY <1>15 DEF SetSeed, NoWallet, Idle
    <2>2. owned = NoPhrase
        BY <2>1 DEF Seeded, PhraseKept
    <2>3. Set("mnemonic", phrase) \in Settings
        BY DEF Set, Settings
    <2>4. Len(todo') = 1 /\ todo'[1] = Set("mnemonic", phrase)
        BY <2>1, <2>3, OneSetting
    <2> QED BY <2>1, <2>2, <2>4 DEF Seeded, SeedBehindKey, PhraseKept
<1>16. CASE SetRandomSeedPhrase \/ \E phrase \in Phrase : Recover(phrase)
    BY <1>15, <1>16 DEF SetRandomSeedPhrase, Recover, Typed
<1>17. CASE Derive
    <2>1. call.phrase \in Phrase /\ call.at = "derive" /\ todo = <<>> /\ UNCHANGED <<keychain, owned>>
        BY <1>17 DEF Derive, Typed
    <2>2. owned = NoPhrase /\ keychain.masterPubKey = NoPhrase /\ keychain.mnemonic = call.phrase
        BY <2>1, NoSetting DEF Seeded
    <2>3. Set("masterPubKey", call.phrase) \in Settings
        BY <2>1 DEF Set, Settings
    <2>4. Len(todo') = 1 /\ todo'[1] = Set("masterPubKey", call.phrase)
        BY <1>17, <2>3, OneSetting DEF Derive
    <2>5. call'.at = "seed" /\ call'.phrase = call.phrase
        BY <1>1, <1>17 DEF Derive, Calls
    <2> QED BY <2>1, <2>2, <2>4, <2>5 DEF Seeded, SeedBehindKey, PhraseKept
<1>18. ASSUME NEW p \in Pin, NEW new \in Pin \cup {NoPin}, Authenticate(p, new)
       PROVE  Seeded'
    BY <1>6, <1>18 DEF Authenticate
<1>19. ASSUME NEW p \in Pin, NEW phrase \in Phrase, ForceSetPin(p, phrase) \/ CreatePin(p, phrase)
       PROVE  Seeded'
    BY <1>6, <1>14, <1>19 DEF ForceSetPin, CreatePin
<1>20. CASE UNCHANGED vars
    BY <1>20 DEF vars, Seeded, SeedBehindKey, PhraseKept
<1> QED BY <1>2, <1>3, <1>4, <1>5, <1>8, <1>10, <1>11, <1>13, <1>16, <1>17, <1>18, <1>19, <1>20
        DEF Next, Continue

(* The delay: pow is defined, and grows with the number of attempts. *)

IsPow(f, S) == \A n \in S : f[n] = IF n = 0 THEN 1 ELSE Base * f[n - 1]

LEMMA PowExists == \E f : f = [n \in Nat |-> IF n = 0 THEN 1 ELSE Base * f[n - 1]]
<1> DEFINE Defined == {n \in Nat : \E f : IsPow(f, 0..n)}
           P(n) == CHOOSE f : IsPow(f, 0..n)
           g == [n \in Nat |-> P(n)[n]]
<1>1. 0 \in Defined
    <2>1. IsPow([n \in {0} |-> 1], 0..0)
        BY DEF IsPow
    <2>2. QED BY <2>1
<1>2. ASSUME NEW n \in Nat, n \in Defined PROVE n + 1 \in Defined
    <2>1. PICK f : IsPow(f, 0..n)
        BY <1>2
    <2> DEFINE h == [m \in 0..(n + 1) |-> IF m = n + 1 THEN Base * f[n] ELSE f[m]]
    <2>2. ASSUME NEW m \in 0..(n + 1) PROVE h[m] = IF m = 0 THEN 1 ELSE Base * h[m - 1]
        <3>1. CASE m = n + 1
            <4>1. h[m] = Base * f[n] /\ h[m - 1] = f[n] /\ m # 0
                BY <3>1
            <4>2. QED BY <3>1, <4>1
        <3>2. CASE m \in 0..n
            <4>1. h[m] = f[m] /\ (m # 0 => h[m - 1] = f[m - 1])
                BY <3>2
            <4>2. f[m] = IF m = 0 THEN 1 ELSE Base * f[m - 1]
                BY <2>1, <3>2 DEF IsPow
            <4> HIDE DEF h
            <4>3. QED BY <4>1, <4>2
        <3>3. QED BY <3>1, <3>2
    <2> HIDE DEF h
    <2>3. IsPow(h, 0..(n + 1))
        BY <2>2 DEF IsPow
    <2>4. QED BY <2>3
<1>3. ASSUME NEW n \in Nat PROVE IsPow(P(n), 0..n)
    <2>1. n \in Defined
        <3> HIDE DEF Defined
        <3> QED BY <1>1, <1>2, NatSetInduction
    <2>2. QED BY <2>1
<1>4. ASSUME NEW n \in Nat, n # 0 PROVE P(n)[n - 1] = P(n - 1)[n - 1]
    <2> DEFINE a == P(n)
               b == P(n - 1)
               Same == {m \in Nat : m <= n - 1 => a[m] = b[m]}
    <2>1. IsPow(a, 0..n) /\ IsPow(b, 0..(n - 1))
        BY <1>3, <1>4
    <2> HIDE DEF a, b
    <2>2. 0 \in Same
        BY <2>1, <1>4 DEF IsPow
    <2>3. ASSUME NEW m \in Nat, m \in Same PROVE m + 1 \in Same
        <3>1. SUFFICES ASSUME m + 1 <= n - 1 PROVE a[m + 1] = b[m + 1]
            OBVIOUS
        <3>2. /\ m + 1 \in 0..n /\ m + 1 \in 0..(n - 1) /\ (m + 1) - 1 = m /\ m + 1 # 0
              /\ m <= n - 1
            BY <3>1
        <3>3. a[m + 1] = Base * a[m] /\ b[m + 1] = Base * b[m]
            BY <2>1, <3>2 DEF IsPow
        <3>4. a[m] = b[m]
            BY <2>3, <3>2
        <3>5. QED BY <3>3, <3>4
    <2>4. n - 1 \in Same
        <3> HIDE DEF Same
        <3> QED BY <1>4, <2>2, <2>3, NatSetInduction
    <2>5. a[n - 1] = b[n - 1]
        BY <1>4, <2>4
    <2>6. QED BY <2>5 DEF a, b
<1>5. ASSUME NEW n \in Nat PROVE g[n] = IF n = 0 THEN 1 ELSE Base * g[n - 1]
    <2>1. n \in 0..n
        OBVIOUS
    <2>2. P(n)[n] = IF n = 0 THEN 1 ELSE Base * P(n)[n - 1]
        BY <1>3, <2>1 DEF IsPow
    <2>3. n # 0 => n - 1 \in Nat
        OBVIOUS
    <2>4. n # 0 => P(n)[n - 1] = P(n - 1)[n - 1]
        BY <1>4
    <2> HIDE DEF P
    <2>5. QED BY <2>2, <2>3, <2>4
<1>6. g = [n \in Nat |-> g[n]]
    OBVIOUS
<1> HIDE DEF g
<1>7. QED BY <1>5, <1>6

LEMMA PowGrows ==
    /\ \A n \in Nat : pow[n] \in Nat
    /\ \A m, n \in Nat : m <= n => pow[m] <= pow[n]
<1>1. pow = [n \in Nat |-> IF n = 0 THEN 1 ELSE Base * pow[n - 1]]
    BY PowExists DEF pow
<1>2. /\ pow[0] = 1 /\ Base \in Nat \ {0}
      /\ \A n \in Nat : pow[n + 1] = Base * pow[n]
    <2>1. \A n \in Nat : n + 1 \in Nat /\ n + 1 # 0 /\ (n + 1) - 1 = n
        OBVIOUS
    <2>2. QED BY <1>1, <2>1, AuthAssumption
<1>3. \A x \in Nat : Base * x \in Nat /\ x <= Base * x
    BY <1>2
<1>4. \A n \in Nat : pow[n] \in Nat
    <2> DEFINE S == {n \in Nat : pow[n] \in Nat}
    <2>1. 0 \in S /\ \A n \in Nat : n \in S => n + 1 \in S
        BY <1>2, <1>3
    <2>2. Nat \subseteq S
        <3> HIDE DEF S
        <3> QED BY <2>1, NatSetInduction
    <2>3. QED BY <2>2
<1>5. ASSUME NEW m \in Nat PROVE \A n \in Nat : m <= n => pow[m] <= pow[n]
    <2> DEFINE S == {n \in Nat : m <= n => pow[m] <= pow[n]}
    <2>1. 0 \in S
        BY <1>4
    <2>2. ASSUME NEW n \in Nat, n \in S PROVE n + 1 \in S
        <3>1. pow[n] \in Nat /\ pow[m] \in Nat /\ pow[n + 1] \in Nat
            BY <1>4
        <3>2. pow[n] <= pow[n + 1]
            BY <1>2, <1>3, <3>1
        <3>3. QED BY <2>2, <3>1, <3>2
    <2>3. Nat \subseteq S
        <3> HIDE DEF S
        <3> QED BY <2>1, <2>2, NatSetInduction
    <2>4. QED BY <2>3
<1>6. QED BY <1>4, <1>5

(* Who gets to compare has waited: the count on the keychain is not below  *)
(* the number of wrong PINs, nor its time before the last of them.         *)
LEMMA WaitedFor ==
    ASSUME Typed, Counted, Timed, ~LockedOut, call.at = "idle"
    PROVE  Waited
<1> SUFFICES ASSUME ~cut, Cardinality(tried) >= Free
             PROVE  now >= lastTry + Delay(Cardinality(tried))
    BY CardinalityTyped, AuthAssumption DEF Waited
<1>1. /\ Cardinality(tried) \in Nat /\ keychain.pinFailCount \in Nat /\ keychain.pinFailTime \in Nat
      /\ now \in Nat /\ lastTry \in Nat /\ Free \in Nat \ {0}
      /\ Cardinality(tried) <= keychain.pinFailCount
    BY CardinalityTyped, AuthAssumption DEF Typed, TypeOK, Item, Counted, AttemptsCounted
<1>2. keychain.pinFailTime >= lastTry
    <2>1. tried # {}
        BY <1>1, FS_EmptySet
    <2>2. QED BY <2>1 DEF Timed
<1>3. now >= keychain.pinFailTime + Delay(keychain.pinFailCount)
    <2>1. Delay(keychain.pinFailCount) \in Nat
        BY <1>1, PowGrows DEF Delay
    <2>2. QED BY <1>1, <2>1 DEF LockedOut
<1>4. /\ Delay(Cardinality(tried)) <= Delay(keychain.pinFailCount)
      /\ Delay(Cardinality(tried)) \in Nat /\ Delay(keychain.pinFailCount) \in Nat
    <2>1. /\ Cardinality(tried) - Free \in Nat /\ keychain.pinFailCount - Free \in Nat
          /\ Cardinality(tried) - Free <= keychain.pinFailCount - Free
        BY <1>1
    <2>2. QED BY <2>1, PowGrows DEF Delay
<1>5. QED BY <1>1, <1>2, <1>3, <1>4

LEMMA TimedInit == Init => Timed
BY NoSetting DEF Init, Timed, Idle

LEMMA TimedStep ==
    ASSUME Typed, Counted, Timed, [Next]_vars
    PROVE  Timed'
<1> USE DEF memory, history
<1>1. /\ keychain \in Item /\ todo \in Seq(Settings) /\ Len(todo) \in Nat
      /\ keychain.pinFailTime \in Nat /\ now \in Nat /\ lastTry \in Nat
    BY DEF Typed, TypeOK, Item
<1>2. CASE Write
    <2>1. UNCHANGED <<tried, lastTry, cut, now, call>>
        BY <1>2 DEF Write
    <2>2. /\ todo[1] \in Settings
          /\ keychain' = [keychain EXCEPT ![todo[1].key] = todo[1].value]
          /\ Len(todo) \in Nat \ {0} /\ Len(todo') = Len(todo) - 1
          /\ \A i \in 1..Len(todo') : i + 1 \in 1..Len(todo) /\ todo'[i] = todo[i + 1]
        BY <1>2, WriteEffect
    <2>3. keychain'.pinFailTime
              = IF todo[1].key = "pinFailTime" THEN todo[1].value ELSE keychain.pinFailTime
        BY <1>1, <2>2 DEF Item
    <2>4. todo[1].key = "pinFailTime" => tried = {} \/ todo[1].value >= lastTry
        BY <2>2 DEF Timed
    <2>5. todo[1] = Set("pinFailTime", lastTry) => todo[1].key = "pinFailTime" /\ todo[1].value >= lastTry
        BY <1>1 DEF Set
    <2>6. cut' \/ tried' = {} \/ keychain'.pinFailTime >= lastTry'
        BY <2>1, <2>3, <2>4, <2>5 DEF Timed
    <2>7. \A i \in 1..Len(todo') :
              todo'[i].key = "pinFailTime" => tried' = {} \/ todo'[i].value >= lastTry'
        BY <2>1, <2>2 DEF Timed
    <2>8. call'.at = "compare" => Waited'
        BY <2>1 DEF Timed, Waited
    <2> QED BY <2>6, <2>7, <2>8 DEF Timed
<1>3. ASSUME cut' \/ tried' = {} \/ (call.at # "done" /\ UNCHANGED <<cut, tried, lastTry, keychain>>),
             call'.at # "compare",
             tried' = {} \/ \A i \in 1..Len(todo') : todo'[i].key # "pinFailTime"
      PROVE  Timed'
    BY <1>3 DEF Timed
<1>4. CASE Throw \/ Kill \/ SeedSet
    <2>1. todo' = <<>> /\ call'.at = "idle"
        BY <1>4 DEF Throw, Kill, SeedSet, Return, Idle
    <2>2. Ready => call.at = "idle"
        BY DEF Ready, Idle
    <2>3. cut' \/ (call.at # "done" /\ UNCHANGED <<cut, tried, lastTry, keychain>>)
        BY <1>4, <2>2 DEF Throw, Kill, SeedSet, Typed, TypeOK
    <2> QED BY <1>3, <2>1, <2>3, NoSetting
<1>5. CASE Done
    <2>1. todo = <<>> /\ todo' = <<>> /\ call'.at = "idle" /\ UNCHANGED <<cut, tried, lastTry, keychain>>
        BY <1>5 DEF Done, Return, Idle
    <2> QED BY <2>1, NoSetting DEF Timed
<1>6. CASE Tick \/ UseWallet
    <2>1. call.at = "idle" /\ UNCHANGED <<keychain, tried, lastTry, cut, call, todo>>
        BY <1>6 DEF Tick, UseWallet, Ready, Idle
    <2> QED BY <2>1 DEF Timed
<1>7. ASSUME NEW p \in Pin, NEW new \in Pin \cup {NoPin}, Ready, Try(p, new)
      PROVE  Timed'
    <2>1. UNCHANGED <<keychain, tried, lastTry, cut, now>> /\ call.at = "idle" /\ call'.at = "compare"
        BY <1>7 DEF Try, Ready, Idle
    <2>2. Waited'
        <3>1. Waited
            BY <1>7, <2>1, WaitedFor DEF Try
        <3>2. QED BY <2>1, <3>1 DEF Waited
    <2>3. \A i \in 1..Len(todo') : todo'[i].key # "pinFailTime"
        <3>1. /\ Set("pinFailCount", keychain.pinFailCount + 1) \in Settings
              /\ Set("pinFailCount", keychain.pinFailCount + 1).key = "pinFailCount"
            BY <1>1 DEF Set, Settings, Item
        <3>2. todo' = <<>> \/ todo' = <<Set("pinFailCount", keychain.pinFailCount + 1)>>
            BY <1>7 DEF Try, Counting
        <3>3. QED BY <3>1, <3>2, OneSetting, NoSetting
    <2> QED BY <2>1, <2>2, <2>3 DEF Timed
<1>8. ASSUME NEW next \in {"done", "change", "create"}, Success(next)
      PROVE  Timed'
    <2>1. tried' = {} /\ call'.at # "compare"
        BY <1>8 DEF Success, Typed, Calls
    <2> QED BY <1>3, <2>1
<1>9. CASE RightPin \/ Forced
    BY <1>8, <1>9 DEF RightPin, Forced
<1>10. ASSUME Wipe, tried' = {}
       PROVE  Timed'
    BY <1>3, <1>10 DEF Wipe, Idle
<1>11. CASE UserWipes
    BY <1>10, <1>11 DEF UserWipes
<1>12. CASE WrongPin
    <2>1. call.at = "compare" /\ UNCHANGED <<keychain, cut, now>>
        BY <1>12 DEF WrongPin, Comparing
    <2>2. CASE Return /\ UNCHANGED <<tried, lastTry>>
        <3>1. todo' = <<>> /\ call'.at = "idle"
            BY <2>2 DEF Return, Idle
        <3> QED BY <1>3, <2>1, <2>2, <3>1, NoSetting
    <2>3. CASE Wipe /\ tried' = {}
        BY <1>10, <2>3
    <2>4. CASE /\ lastTry' = now
               /\ todo' = IF now > keychain.pinFailTime THEN <<Set("pinFailTime", now)>> ELSE <<>>
               /\ call' = [call EXCEPT !.at = "done"]
        <3>1. call'.at = "done"
            BY <2>4 DEF Typed, Calls
        <3>2. /\ Set("pinFailTime", now) \in Settings /\ Set("pinFailTime", now).key = "pinFailTime"
              /\ Set("pinFailTime", now).value = now
            BY <1>1 DEF Set, Settings
        <3>3. CASE now > keychain.pinFailTime
            <4>1. Len(todo') = 1 /\ todo'[1] = Set("pinFailTime", now)
                BY <2>4, <3>2, <3>3, OneSetting
            <4>2. \A i \in 1..Len(todo') : todo'[i].value >= lastTry'
                BY <1>1, <2>4, <3>2, <4>1
            <4>3. todo'[1] = Set("pinFailTime", lastTry')
                BY <2>4, <4>1 DEF Set
            <4> QED BY <3>1, <4>1, <4>2, <4>3 DEF Timed
        <3>4. CASE ~(now > keychain.pinFailTime)
            <4>1. Len(todo') = 0 /\ keychain'.pinFailTime >= lastTry'
                BY <1>1, <2>1, <2>4, <3>4, NoSetting
            <4> QED BY <3>1, <4>1 DEF Timed
        <3> QED BY <3>3, <3>4
    <2> QED BY <1>12, <2>2, <2>3, <2>4 DEF WrongPin
<1>13. ASSUME NEW item \in Settings, item.key # "pinFailTime", todo' = <<item>>, call.at # "done",
              call'.at # "compare", UNCHANGED <<keychain, cut, tried, lastTry>>
       PROVE  Timed'
    BY <1>3, <1>13, OneSetting
<1>14. CASE ChangePin
    <2>1. Set("pin", call.new) \in Settings /\ Set("pin", call.new).key = "pin"
        BY DEF Typed, Calls, Set, Settings
    <2>2. call.at = "change" /\ call'.at = "done"
        BY <1>14 DEF ChangePin, Typed, Calls
    <2> QED BY <1>13, <1>14, <2>1, <2>2 DEF ChangePin
<1>15. ASSUME NEW new \in Pin \cup {NoPin}, NEW then, Ready, Replace(new, then)
       PROVE  Timed'
    <2>1. Set("pin", new) \in Settings /\ Set("pin", new).key = "pin"
        BY DEF Set, Settings
    <2>2. call.at = "idle" /\ call'.at = "force"
        BY <1>15 DEF Replace, Ready, Idle
    <2> QED BY <1>13, <1>15, <2>1, <2>2 DEF Replace
<1>16. ASSUME NEW phrase \in Phrase, SetSeed(phrase), call.at # "done"
       PROVE  Timed'
    <2>1. Set("mnemonic", phrase) \in Settings /\ Set("mnemonic", phrase).key = "mnemonic"
        BY DEF Set, Settings
    <2>2. call'.at = "derive"
        BY <1>16 DEF SetSeed, Idle
    <2> QED BY <1>13, <1>16, <2>1, <2>2 DEF SetSeed
<1>17. CASE SetRandomSeedPhrase \/ \E phrase \in Phrase : Recover(phrase)
    BY <1>16, <1>17 DEF SetRandomSeedPhrase, Recover, Typed, Ready, Idle
<1>18. CASE Derive
    <2>1. call.phrase \in Phrase
        BY <1>18 DEF Derive, Typed
    <2>2. /\ Set("masterPubKey", call.phrase) \in Settings
          /\ Set("masterPubKey", call.phrase).key = "masterPubKey"
        BY <2>1 DEF Set, Settings
    <2>3. call.at = "derive" /\ call'.at = "seed"
        BY <1>18 DEF Derive, Typed, Calls
    <2> QED BY <1>13, <1>18, <2>2, <2>3 DEF Derive
<1>19. ASSUME NEW p \in Pin, NEW new \in Pin \cup {NoPin}, Authenticate(p, new)
       PROVE  Timed'
    BY <1>7, <1>19 DEF Authenticate
<1>20. ASSUME NEW p \in Pin, NEW phrase \in Phrase, ForceSetPin(p, phrase) \/ CreatePin(p, phrase)
       PROVE  Timed'
    BY <1>7, <1>15, <1>20 DEF ForceSetPin, CreatePin
<1>21. CASE UNCHANGED vars
    BY <1>21 DEF vars, Timed, Waited
<1> QED BY <1>2, <1>4, <1>5, <1>6, <1>9, <1>11, <1>12, <1>14, <1>17, <1>18, <1>19, <1>20, <1>21
        DEF Next, Continue

-----------------------------------------------------------------------------
(* The invariant of the PIN and the seed: its properties follow from it.   *)
THEOREM AuthInvariant == Spec => []AuthInv
<1>1. Init => AuthInv
    BY TypedInit, CountedInit, SeededInit, TimedInit DEF AuthInv
<1>2. AuthInv /\ [Next]_vars => AuthInv'
    BY TypedStep, CountedStep, SeededStep, TimedStep DEF AuthInv
<1> QED BY <1>1, <1>2, PTL DEF Spec

(* Whichever write throws and whenever the app is killed, a key that shows *)
(* a wallet has its seed beside it.                                        *)
THEOREM SeedsAreBehindKeys == Spec => []SeedBehindKey
<1>1. AuthInv => SeedBehindKey
    BY DEF AuthInv, Seeded
<1> QED BY <1>1, AuthInvariant, PTL

(* The seed of a phrase that the user was given is not replaced until the  *)
(* wallet is wiped.                                                        *)
THEOREM PhrasesAreKept == Spec => []PhraseKept
<1>1. AuthInv => PhraseKept
    BY DEF AuthInv, Seeded
<1> QED BY <1>1, AuthInvariant, PTL

(* After Free wrong PINs the next one is compared only when the delay has  *)
(* passed, through any number of restarts, unless a call was cut short.    *)
THEOREM DelaysAreKept == Spec => LockoutHolds
<1>1. AuthInv /\ [Next]_vars
        => [RightPin \/ WrongPin =>
              cut \/ Cardinality(tried) < Free \/ now >= lastTry + Delay(Cardinality(tried))]_vars
    BY DEF AuthInv, Timed, Waited, RightPin, WrongPin, Comparing
<1> QED BY <1>1, AuthInvariant, PTL DEF Spec, LockoutHolds
=============================================================================
