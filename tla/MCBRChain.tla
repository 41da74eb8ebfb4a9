----------------------------- MODULE MCBRChain ------------------------------
(* An instance of BRChain: a chain of two intervals with a side branch     *)
(* that has a transition, and a checkpoint in between.                     *)
EXTENDS BRChain, TLC

CONSTANTS g0, a1, a2, a3, b3, b4, b5, t1, t2, p1, p2

MCBlock == {g0, a1, a2, a3, b3, b4, b5}
MCParent == (g0 :> NoBlock) @@ (a1 :> g0) @@ (a2 :> a1) @@ (a3 :> a2)
            @@ (b3 :> a2) @@ (b4 :> b3) @@ (b5 :> b4)
MCHeight == (g0 :> 0) @@ (a1 :> 1) @@ (a2 :> 2) @@ (a3 :> 3) @@ (b3 :> 3) @@ (b4 :> 4)
            @@ (b5 :> 5)
MCMinedIn == [t \in Tx |-> IF t = t1 THEN {a3, b4} ELSE {a3}]

(* The same without g0, for a wallet that starts from a1.                  *)
TailBlock == MCBlock \ {g0}
TailParent == [b \in TailBlock |-> IF b = a1 THEN NoBlock ELSE MCParent[b]]
TailHeight == [b \in TailBlock |-> MCHeight[b]]

(* The peers are alike.                                                    *)
MCLastOf == [p \in Peer |-> 5]

Peers == Permutations(Peer)
=============================================================================
