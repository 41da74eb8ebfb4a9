------------------------------ MODULE MCBRSet ------------------------------
(* An instance of BRSet: five keys, one of them of two items, that hash    *)
(* near the end of the tables, which grow twice.                           *)
EXTENDS BRSet

MCKey == [x \in 1..6 |-> IF x = 6 THEN 1 ELSE x]
MCSizes == <<1, 3, 5, 7>>
MCHashes == [1..5 -> {4, 6}]
MCOthers == {<<2>>, <<6, 3, 4>>}
=============================================================================
