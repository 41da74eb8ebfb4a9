---------------------------- MODULE MCWalletAuth ----------------------------
(* An instance of WalletAuth: the second failure disables for one unit of  *)
(* time, and the third wipes.                                              *)
EXTENDS WalletAuth
=============================================================================
