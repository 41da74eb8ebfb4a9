--------------------------- MODULE MCBRPeerManager ---------------------------
(***************************************************************************)
(* Two peers and a published transaction for BRPeerManager.                *)
(***************************************************************************)
EXTENDS BRPeerManager

(* One peer is a block ahead of the other, or both report the same block.  *)
Ahead == [p \in Peer |-> IF p = "low" THEN 1 ELSE 2]
Equal == [p \in Peer |-> 1]
=============================================================================
