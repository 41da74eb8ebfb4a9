----------------------------- MODULE MCBRWallet -----------------------------
(***************************************************************************)
(* Small universes of transactions for BRWallet.                           *)
(*                                                                         *)
(*   fund   pays the wallet from outside                                   *)
(*   spend  spends fund, with change to the wallet                         *)
(*   rival  spends fund too, paying the wallet back at another address     *)
(*   child  spends rival's output to the wallet and sends it away          *)
(***************************************************************************)
EXTENDS BRWallet

MCGapLimit == [c \in Chains |-> 1]

In(t)  == <<"internal", t>>
Ext(t) == <<"external", t>>
Other  == <<"other", 0>>
Pay(a, n) == [addr |-> a, amount |-> n]

LedgerTx == {"fund", "spend", "rival", "child"}
LedgerInputs ==
    [t \in LedgerTx |->
        CASE t = "fund"  -> {<<"foreign", 1>>}
          [] t = "spend" -> {<<"fund", 1>>}
          [] t = "rival" -> {<<"fund", 1>>}
          [] t = "child" -> {<<"rival", 1>>}]
LedgerOutputs ==
    [t \in LedgerTx |->
        CASE t = "fund"  -> <<Pay(Ext(0), 8)>>
          [] t = "spend" -> <<Pay(Other, 5), Pay(In(0), 2)>>
          [] t = "rival" -> <<Pay(Ext(1), 7)>>
          [] t = "child" -> <<Pay(Other, 6)>>]
LedgerLock == [t \in LedgerTx |-> 0]

(* The same outputs, except that the child pays the wallet.                *)
FamilyOutputs == [LedgerOutputs EXCEPT !["child"] = <<Pay(In(0), 6)>>]

(* For LockedArePending: fund alone, locked until after the highest block. *)
FundTx     == {"fund"}
FundInputs == [t \in FundTx |-> LedgerInputs[t]]
FundOutputs == [t \in FundTx |-> LedgerOutputs[t]]
FundLock   == [t \in FundTx |-> 4]
=============================================================================
