---------------------------- MODULE MCBRTxRelays ----------------------------
(* An instance of BRTxRelays: a payment to the wallet and one that spends  *)
(* it, with change.                                                        *)
EXTENDS BRTxRelays, TLC

CONSTANTS pay, spend

MCTx == {pay, spend}
MCInputs == (pay :> {<<Foreign, 1>>}) @@ (spend :> {<<pay, 1>>})
MCOutputs == (pay :> <<[addr |-> <<"external", 0>>, amount |-> 8]>>)
    @@ (spend :> <<[addr |-> <<"other", 0>>, amount |-> 5], [addr |-> <<"internal", 0>>, amount |-> 2]>>)
MCLock == [t \in MCTx |-> 0]
MCGapLimit == [c \in Chains |-> 1]
Peers == Permutations(Peer)
MCStored == {<<>>, <<pay, spend>>}
=============================================================================
