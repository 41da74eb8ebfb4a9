---------------------------- MODULE Publication ----------------------------
(***************************************************************************)
(* What publishing promises the app, whatever peers do meanwhile: each     *)
(* transaction is answered at most once, with success when a peer is       *)
(* handed it and not before, and one that failed is handed to nobody.      *)
(* BRPeerManager implements this.                                          *)
(***************************************************************************)

CONSTANT Tx         \* the transactions the app publishes

VARIABLES
    outcome,        \* outcome[t]: what the app knows of t
    handed          \* transactions that were handed to a peer

Outcomes == {"new", "waiting", "ok", "failed"}

Open == {"new", "waiting"}

Init == outcome = [t \in Tx |-> "new"] /\ handed = {}

(* The app publishes t and waits for its answer.                           *)
Accept(t) ==
    /\ outcome[t] = "new"
    /\ outcome' = [outcome EXCEPT ![t] = "waiting"]
    /\ UNCHANGED handed

(* A peer is handed t: the first one answers the publish.                  *)
Hand(t) ==
    /\ outcome[t] \in {"waiting", "ok"}
    /\ outcome' = [outcome EXCEPT ![t] = "ok"]
    /\ handed' = handed \cup {t}

(* Those that wait, or were just published, fail together.                 *)
Refuse ==
    /\ UNCHANGED handed
    /\ outcome' \in [Tx -> Outcomes]
    /\ \A t \in Tx :
        outcome'[t] # outcome[t] => outcome[t] \in Open /\ outcome'[t] = "failed"

Next == Refuse \/ \E t \in Tx : Accept(t) \/ Hand(t)

Spec == Init /\ [][Next]_<<outcome, handed>>
=============================================================================
