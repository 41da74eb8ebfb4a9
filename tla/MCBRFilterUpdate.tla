------------------------ MODULE MCBRFilterUpdate ----------------------------
(* An instance of BRFilterUpdate: each filter watches two addresses more   *)
(* than were used, and the blocks use them faster than that.               *)
EXTENDS BRFilterUpdate

MCPays == <<1, 2, 3, 4>>
=============================================================================
