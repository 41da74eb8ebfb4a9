------------------------------ MODULE MCSender ------------------------------
(* Instances of Sender.                                                    *)
EXTENDS Sender
=============================================================================
