------------------------------- MODULE BRSet -------------------------------
(***************************************************************************)
(* The hash table of BRSet.c, which holds the wallet's transactions, the   *)
(* spent outputs, the blocks and the orphans: open addressing with linear  *)
(* probing, growth when it is two thirds full, and removal that puts the   *)
(* rest of the run of buckets in again.  A call is one step: every caller  *)
(* holds the lock of what the set belongs to.                              *)
(***************************************************************************)
EXTENDS Integers, Sequences, FiniteSets

CONSTANTS
    Item,           \* what is put into the set
    Key,            \* eq(x, y) is Key[x] = Key[y]
    NULL,
    TableSizes,     \* tableSizes
    Hashes,         \* the hash functions, of the keys
    Others          \* other sets: their items in the order of their tables

(* The number of items that a table of n buckets holds.                    *)
Limit(n) == ((n + 2) \div 3) * 2

(* Tables keep a bucket empty, grow to hold more than before (the first    *)
(* size is that of no table), and the largest, of some four thousand       *)
(* million buckets, has room for all there is.                             *)
ASSUME SetAssumption ==
    /\ NULL \notin Item /\ IsFiniteSet(Item)
    /\ TableSizes \in Seq(Nat \ {0}) /\ Len(TableSizes) >= 2
    /\ \A i \in 2..Len(TableSizes) :
          Limit(TableSizes[i]) < TableSizes[i] /\ TableSizes[i - 1] < TableSizes[i]
    /\ \A i \in 3..Len(TableSizes) : Limit(TableSizes[i - 1]) < Limit(TableSizes[i])
    /\ Cardinality({Key[x] : x \in Item}) <= Limit(TableSizes[Len(TableSizes)])
    /\ \A x \in Item : \A h \in Hashes : h[Key[x]] \in Nat
    /\ \A other \in Others :
          /\ other \in Seq(Item)
          /\ \A i, j \in DOMAIN other : Key[other[i]] = Key[other[j]] => i = j

VARIABLES
    hash,           \* set->hash
    set,            \* set->table (its buckets counted from 1), set->size and set->itemCount
    result          \* what the last call returned

setVars == <<hash, set, result>>

Buckets(n) == 1..n

Sizes == {TableSizes[i] : i \in 2..Len(TableSizes)}

Tables == [table : Seq(Item \cup {NULL}), size : Sizes, itemCount : Nat]

Occupied(s) == {b \in Buckets(s.size) : s.table[b] # NULL}

Items(s) == {s.table[b] : b \in Occupied(s)}

(* A loop over tables: turn[k][t] is what its k-th turn makes of t.        *)
Loop(turn, s) ==
    LET after[k \in Nat] == IF k = 0 THEN s ELSE turn[k][after[k - 1]] IN after

(* _BRSetInit: the size after the first that holds so many items.          *)
Empty(capacity) ==
    LET i == CHOOSE i \in DOMAIN TableSizes :
                TableSizes[i] >= capacity /\ \A j \in 1..(i - 1) : TableSizes[j] < capacity
        n == TableSizes[i + 1]
    IN  [table |-> [b \in Buckets(n) |-> NULL], size |-> n, itemCount |-> 0]

(* The buckets that are probed for x, one after the other, up to the first *)
(* that is empty or holds an equal item.                                   *)
Probed(s, x, d) == 1 + (((hash[Key[x]] % s.size) + d) % s.size)

Ends(s, x, d) ==
    LET t == s.table[Probed(s, x, d)] IN t = NULL \/ Key[t] = Key[x]

Probe(s, x) ==
    Probed(s, x, CHOOSE d \in 0..(s.size - 1) : Ends(s, x, d) /\ \A e \in 0..(d - 1) : ~Ends(s, x, e))

Found(s, x) == s.table[Probe(s, x)]

-----------------------------------------------------------------------------
(* BRSetAdd *)

(* As if an equal item stayed, and as it is replaced.                      *)
PutUnlessThere(s, x) ==
    IF Found(s, x) # NULL THEN s
    ELSE [s EXCEPT !.table = [@ EXCEPT ![Probe(s, x)] = x], !.itemCount = @ + 1]

Put(s, x) ==
    [table |-> [s.table EXCEPT ![Probe(s, x)] = x],
     size |-> s.size,
     itemCount |-> IF Found(s, x) = NULL THEN s.itemCount + 1 ELSE s.itemCount]

(* BRSetUnion into a larger table, which need not grow in its turn.        *)
Grow(s) ==
    Loop([k \in Buckets(s.size) |-> [t \in Tables |->
              IF s.table[k] = NULL THEN t ELSE Put(t, s.table[k])]],
         Empty(s.size))[s.size]

(* As if it grew when there is no room, and as it does.                    *)
Overfull(s) == s.itemCount > s.size
Full(s) == s.itemCount > Limit(s.size)

Added(s, x) == LET new == Put(s, x) IN IF Full(new) THEN Grow(new) ELSE new

(* BRSetRemove: the items of the run after bucket b go in again, one after *)
(* the other.                                                              *)
TakeOut(s, b) ==
    [table |-> [s.table EXCEPT ![b] = NULL], size |-> s.size, itemCount |-> s.itemCount - 1]

After(s, b, k) == 1 + ((b - 1 + k) % s.size)

Cleanup(s, b) ==
    LET again(t, c) == Added(TakeOut(t, c), t.table[c])
        turns == Loop([k \in Nat |-> [t \in Tables |-> again(t, After(s, b, k))]], s)
        last(k) == turns[k].table[After(s, b, k + 1)] = NULL
    IN  turns[CHOOSE k \in 0..(s.size - 1) : last(k) /\ \A j \in 0..(k - 1) : ~last(j)]

Removed(s, x) ==
    IF Found(s, x) = NULL THEN s ELSE Cleanup(TakeOut(s, Probe(s, x)), Probe(s, x))

(* BRSetIntersect looks at a bucket again after it removed an item there:  *)
(* a turn of its loop removes one or goes on to the next bucket.           *)
Lacks(other, x) == \A i \in DOMAIN other : Key[other[i]] # Key[x]

Scanned(b, t, other) ==
    IF b > t.size THEN <<b, t>>
    ELSE IF t.table[b] # NULL /\ Lacks(other, t.table[b]) THEN <<b, Removed(t, t.table[b])>>
    ELSE <<b + 1, t>>

Intersected(s, other) ==
    Loop([k \in Nat |-> [at \in Nat \X Tables |-> Scanned(at[1], at[2], other)]],
         <<1, s>>)[s.size + s.itemCount][2]

-----------------------------------------------------------------------------
(* The calls *)

SetInit ==
    /\ hash \in Hashes
    /\ set = Empty(0)
    /\ result = NULL

Add(x) ==
    /\ set' = Added(set, x)
    /\ result' = Found(set, x)
    /\ UNCHANGED hash

Remove(x) ==
    /\ set' = Removed(set, x)
    /\ result' = Found(set, x)
    /\ UNCHANGED hash

Get(x) ==
    /\ result' = Found(set, x)
    /\ UNCHANGED <<hash, set>>

Clear ==
    /\ set' = [table |-> [b \in Buckets(set.size) |-> NULL], size |-> set.size, itemCount |-> 0]
    /\ UNCHANGED <<hash, result>>

Union(other) ==
    /\ set' = Loop([k \in DOMAIN other |-> [t \in Tables |-> Added(t, other[k])]], set)[Len(other)]
    /\ UNCHANGED <<hash, result>>

Minus(other) ==
    /\ set' = Loop([k \in DOMAIN other |-> [t \in Tables |-> Removed(t, other[k])]], set)[Len(other)]
    /\ UNCHANGED <<hash, result>>

Intersect(other) ==
    /\ set' = Intersected(set, other)
    /\ UNCHANGED <<hash, result>>

SetNext ==
    \/ \E x \in Item : Add(x) \/ Remove(x) \/ Get(x)
    \/ Clear
    \/ \E other \in Others : Union(other) \/ Minus(other) \/ Intersect(other)

SetSpec == SetInit /\ [][SetNext]_setVars

-----------------------------------------------------------------------------
(* Properties *)

(* The count is that of the items, no two of which are equal, and a bucket *)
(* is empty after any history of growth and removal: probing for an item   *)
(* that is not there stops nowhere else (BRSetAdd, BRSetRemove, BRSetGet). *)
SetTypeOK ==
    /\ hash \in Hashes
    /\ set \in Tables /\ set.table \in [Buckets(set.size) -> Item \cup {NULL}]
    /\ set.itemCount = Cardinality(Items(set)) /\ set.itemCount = Cardinality(Occupied(set))
    /\ set.itemCount < set.size
    /\ result \in Item \cup {NULL}

(* Every call does to the table what it promises of a set, and finds what  *)
(* is in it, although items lie in buckets that are not their own, past    *)
(* the end of the table, and move when another is removed.                 *)
Abstract == INSTANCE ItemSet WITH members <- Items(set)

SetKept == Abstract!Spec
=============================================================================
