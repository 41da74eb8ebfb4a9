------------------------------ MODULE ItemSet ------------------------------
(***************************************************************************)
(* What a BRSet promises its callers: a set that holds at most one item of *)
(* each key, and that returns the item that it replaces, removes or has.   *)
(***************************************************************************)
EXTENDS Sequences

CONSTANTS
    Item,           \* what is put into sets
    Key,            \* Key[x]: items are equal if their keys are
    NULL,
    Others          \* other sets: their items in the order of their tables

VARIABLES
    members,
    result          \* what the last call returned

Like(S, x) == {y \in S : Key[y] = Key[x]}

Without(S, T) == {y \in S : Like(T, y) = {}}

Returns(x) == result' \in IF Like(members, x) = {} THEN {NULL} ELSE Like(members, x)

Init == members = {} /\ result = NULL

Add(x) == Returns(x) /\ members' = Without(members, {x}) \cup {x}

Remove(x) == Returns(x) /\ members' = Without(members, {x})

Get(x) == Returns(x) /\ UNCHANGED members

Clear == members' = {} /\ UNCHANGED result

(* The other set is given by its items in the order of its table.          *)
ItemsOf(other) == {other[i] : i \in DOMAIN other}

Union(other) == members' = Without(members, ItemsOf(other)) \cup ItemsOf(other) /\ UNCHANGED result

Minus(other) == members' = Without(members, ItemsOf(other)) /\ UNCHANGED result

Intersect(other) == members' = members \ Without(members, ItemsOf(other)) /\ UNCHANGED result

Next ==
    \/ \E x \in Item : Add(x) \/ Remove(x) \/ Get(x)
    \/ Clear
    \/ \E other \in Others : Union(other) \/ Minus(other) \/ Intersect(other)

Spec == Init /\ [][Next]_<<members, result>>
=============================================================================
