----------------------- MODULE MCBRReplicatedKVStore -----------------------
(* Instances of BRReplicatedKVStore.                                       *)
EXTENDS BRReplicatedKVStore
=============================================================================
