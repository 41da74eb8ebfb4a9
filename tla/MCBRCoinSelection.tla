-------------------------- MODULE MCBRCoinSelection --------------------------
(* An instance of BRCoinSelection: coins not worth their fee and larger    *)
(* ones, of which three fit into a transaction with one output.            *)
EXTENDS BRCoinSelection

MCCoin == {600, 12345, 30070, 100000}
MCRate == {1000, 50000}
MCWanted == {6000, 20000, 60000}
=============================================================================
