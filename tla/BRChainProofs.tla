--------------------------- MODULE BRChainProofs ----------------------------
(***************************************************************************)
(* Proofs about BRChain: the type invariant, and that the chain stays      *)
(* rooted, whatever the tree of blocks, the checkpoints and the peers; and *)
(* about BRSet, which holds the blocks: its tables implement ItemSet.      *)
(***************************************************************************)
EXTENDS BRChain, BRSet, FiniteSetTheorems, WellFoundedInduction, SequenceTheorems, TLAPS

(* A set of naturals that is not empty has a least member.                 *)
LEMMA LeastNat ==
    ASSUME NEW S \in SUBSET Nat, S # {}
    PROVE  \E n \in S : \A m \in S : n <= m
<1> DEFINE U == {1..n : n \in S}
<1>1. U \subseteq FiniteSubsetsOf(Nat)
    <2>1. \A n \in Nat : 1..n \subseteq Nat /\ IsFiniteSet(1..n)
        BY FS_Interval
    <2>2. QED BY <2>1 DEF FiniteSubsetsOf
<1>2. PICK x \in U : \A y \in U : ~(<<y, x>> \in StrictSubsetOrdering(Nat))
    <2>1. U # {}
        OBVIOUS
    <2>2. IsWellFoundedOn(StrictSubsetOrdering(Nat), FiniteSubsetsOf(Nat))
        BY FS_StrictSubsetOrderingWellFounded
    <2> HIDE DEF U
    <2> QED BY <1>1, <2>1, <2>2, WFMin
<1>3. PICK n \in S : x = 1..n
    OBVIOUS
<1>4. ASSUME NEW m \in S PROVE n <= m
    <2>1. SUFFICES ASSUME m < n PROVE FALSE
        OBVIOUS
    <2>2. 1..m \in U /\ 1..m \subseteq 1..n /\ 1..m # 1..n
        BY <2>1
    <2>3. 1..m \in SUBSET Nat /\ 1..n \in SUBSET Nat
        OBVIOUS
    <2>4. <<1..m, 1..n>> \in StrictSubsetOrdering(Nat)
        BY <2>2, <2>3 DEF StrictSubsetOrdering
    <2>5. QED BY <2>2, <2>4, <1>2, <1>3
<1>5. QED BY <1>4

(* Induction over the naturals, for a set in place of a predicate.         *)
LEMMA NatSetInduction ==
    ASSUME NEW S, 0 \in S, \A n \in Nat : n \in S => n + 1 \in S
    PROVE  Nat \subseteq S
<1>1. SUFFICES ASSUME Nat \ S # {} PROVE FALSE
    OBVIOUS
<1>2. PICK n \in Nat \ S : \A m \in Nat \ S : n <= m
    BY <1>1, LeastNat
<1>3. n - 1 \in Nat /\ n - 1 \in S
    BY <1>2
<1>4. QED BY <1>2, <1>3

-----------------------------------------------------------------------------
(* Lines of ancestors *)

(* What is reached from b: the least set that holds b and the parents of   *)
(* its members.                                                            *)
Closed(S) == \A x \in S : Parent[x] \in Block => Parent[x] \in S

(* The recursion that defines Line has a solution, so Line satisfies it.   *)
LEMMA LineStep ==
    \A b \in Block : Line[b] = {b} \cup (IF Parent[b] = NoBlock THEN {} ELSE Line[Parent[b]])
<1> DEFINE Reach(b) == {a \in Block : \A S \in SUBSET Block : b \in S /\ Closed(S) => a \in S}
           g == [b \in Block |-> Reach(b)]
<1>1. ASSUME NEW b \in Block
      PROVE  Reach(b) = {b} \cup (IF Parent[b] = NoBlock THEN {} ELSE Reach(Parent[b]))
    <2>1. CASE Parent[b] = NoBlock
        <3>1. Closed({b})
            BY <2>1, ChainAssumption DEF Closed
        <3>2. QED BY <2>1, <3>1
    <2>2. CASE Parent[b] # NoBlock
        <3>1. Parent[b] \in Block
            BY <2>2, ChainAssumption
        <3> DEFINE T == {b} \cup Reach(Parent[b])
        <3>2. Closed(T) /\ b \in T /\ T \in SUBSET Block
            BY <3>1 DEF Closed
        <3>3. Reach(b) \subseteq T
            <4> HIDE DEF T
            <4> QED BY <3>2
        <3>4. T \subseteq Reach(b)
            BY <3>1 DEF Closed
        <3>5. QED BY <2>2, <3>3, <3>4
    <2>3. QED BY <2>1, <2>2
<1>2. g = [b \in Block |-> {b} \cup (IF Parent[b] = NoBlock THEN {} ELSE g[Parent[b]])]
    <2>1. \A b \in Block : Parent[b] # NoBlock => Parent[b] \in Block
        BY ChainAssumption
    <2> HIDE DEF Reach
    <2>2. \A b \in Block :
              Reach(b) = {b} \cup (IF Parent[b] = NoBlock THEN {} ELSE g[Parent[b]])
        BY <1>1, <2>1
    <2> QED BY <2>2
<1> HIDE DEF g
<1>3. LineFrom = [b \in Block |-> {b} \cup (IF Parent[b] = NoBlock THEN {}
                                            ELSE LineFrom[Parent[b]])]
    BY <1>2 DEF LineFrom
<1>4. \A b \in Block : Line[b] = LineFrom[b]
    BY DEF Line
<1>5. \A b \in Block : Parent[b] # NoBlock => Parent[b] \in Block
    BY ChainAssumption
<1>6. QED BY <1>3, <1>4, <1>5

(* What holds of a block whenever it holds of its parent holds of each.    *)
LEMMA HeightInduction ==
    ASSUME NEW S,
           \A b \in Block : (Parent[b] \in Block => Parent[b] \in S) => b \in S
    PROVE  Block \subseteq S
<1>1. SUFFICES ASSUME Block \ S # {} PROVE FALSE
    OBVIOUS
<1> DEFINE H == {Height[b] : b \in Block \ S}
<1>2. H \in SUBSET Nat /\ H # {}
    BY <1>1, ChainAssumption
<1>3. PICK n \in H : \A m \in H : n <= m
    <2> HIDE DEF H
    <2> QED BY <1>2, LeastNat
<1>4. PICK b \in Block \ S : Height[b] = n
    BY <1>3
<1>5. ASSUME Parent[b] \in Block PROVE Parent[b] \in S
    <2>1. Height[b] = Height[Parent[b]] + 1 /\ Height[Parent[b]] \in Nat
        BY <1>5, ChainAssumption
    <2>2. Parent[b] \in Block \ S => Height[Parent[b]] \in H
        OBVIOUS
    <2> HIDE DEF H
    <2>3. QED BY <1>3, <1>4, <1>5, <2>1, <2>2
<1>6. QED BY <1>4, <1>5

(* A line ends at its block, and goes up by one at each step.              *)
LineOK(b) ==
    /\ Line[b] \subseteq Block
    /\ b \in Line[b]
    /\ \A a \in Line[b] : a = b \/ (Height[a] < Height[b] /\ Parent[b] \in Block /\ a \in Line[Parent[b]])
    /\ \A a \in Line[b] : Line[a] \subseteq Line[b]
    /\ \A a, c \in Line[b] : Height[a] <= Height[c] => a \in Line[c]
    /\ \A a \in Line[b], k \in Nat :
          Height[a] <= k /\ k <= Height[b] => \E x \in Line[b] : Height[x] = k

LEMMA Lines == \A b \in Block : LineOK(b)
<1> DEFINE S == {b \in Block : LineOK(b)}
<1>1. ASSUME NEW b \in Block, Parent[b] \in Block => Parent[b] \in S
      PROVE  b \in S
    <2>1. CASE Parent[b] = NoBlock
        <3>1. Line[b] = {b} /\ Height[b] \in Nat
            BY <2>1, LineStep, ChainAssumption
        <3>2. QED BY <3>1 DEF LineOK
    <2>2. CASE Parent[b] \in Block
        <3> DEFINE q == Parent[b]
        <3>1. /\ q \in Block /\ LineOK(q) /\ Line[b] = {b} \cup Line[q]
              /\ Height[b] = Height[q] + 1 /\ Height[q] \in Nat /\ Height[b] \in Nat
            <4>1. q # NoBlock
                BY <2>2, ChainAssumption
            <4>2. QED BY <1>1, <2>2, <4>1, LineStep, ChainAssumption
        <3> HIDE DEF q
        <3>2. \A a \in Line[q] : a \in Block /\ Height[a] \in Nat /\ Height[a] <= Height[q]
            BY <3>1, ChainAssumption DEF LineOK
        <3>3. \A a \in Line[b] : a = b \/ (Height[a] < Height[b] /\ a \in Line[q])
            BY <3>1, <3>2
        <3>4. \A a \in Line[b] : Line[a] \subseteq Line[b]
            BY <3>1 DEF LineOK
        <3>5. \A a, c \in Line[b] : Height[a] <= Height[c] => a \in Line[c]
            <4>1. SUFFICES ASSUME NEW a \in Line[b], NEW c \in Line[b], Height[a] <= Height[c]
                           PROVE  a \in Line[c]
                OBVIOUS
            <4>2. CASE c = b
                BY <4>2
            <4>3. CASE c \in Line[q] /\ a \in Line[q]
                BY <4>1, <4>3, <3>1 DEF LineOK
            <4>4. CASE c \in Line[q] /\ a = b
                BY <4>1, <4>4, <3>1, <3>2
            <4>5. QED BY <4>2, <4>3, <4>4, <3>1
        <3>6. ASSUME NEW a \in Line[b], NEW k \in Nat, Height[a] <= k, k <= Height[b]
              PROVE  \E x \in Line[b] : Height[x] = k
            <4>1. CASE k = Height[b]
                BY <4>1, <3>1
            <4>2. CASE k <= Height[q]
                <5>1. a \in Line[q]
                    BY <4>2, <3>1, <3>3, <3>6
                <5>2. QED BY <5>1, <4>2, <3>1, <3>6 DEF LineOK
            <4>3. QED BY <4>1, <4>2, <3>1, <3>6
        <3>7. Line[b] \subseteq Block /\ b \in Line[b] /\ q = Parent[b]
            BY <3>1, <3>2 DEF q
        <3>8. QED BY <2>2, <3>3, <3>4, <3>5, <3>6, <3>7 DEF LineOK
    <2>3. QED BY <2>1, <2>2, ChainAssumption
<1>2. QED
    <2> HIDE DEF S
    <2>1. Block \subseteq S
        BY <1>1, HeightInduction
    <2>2. QED BY <2>1 DEF S

(* At each height a line has one block at most.                            *)
LEMMA OneAtEachHeight ==
    ASSUME NEW b \in Block, NEW a \in Line[b], NEW c \in Line[b], Height[a] = Height[c]
    PROVE  a = c
<1>1. c \in Block /\ a \in Line[c] /\ LineOK(c) /\ Height[a] \in Nat /\ Height[c] \in Nat
    BY Lines, ChainAssumption DEF LineOK
<1>2. QED BY <1>1 DEF LineOK

LEMMA Ancestors ==
    ASSUME NEW b \in Block, NEW a \in Line[b]
    PROVE  AncestorAt(b, Height[a]) = a
<1>1. AncestorAt(b, Height[a]) \in Line[b] /\ Height[AncestorAt(b, Height[a])] = Height[a]
    BY DEF AncestorAt
<1>2. QED BY <1>1, OneAtEachHeight

(* A block agrees with the checkpoints if none of the same height differs  *)
(* from it; the checkpoints agree with each other.                         *)
Agrees(b) == ~DiffersFromCheckpoint(b)

LEMMA CheckpointsAgree ==
    /\ \A c \in Checkpoint : c \in Block /\ Agrees(c)
    /\ \A b \in Block, c \in Checkpoint : Agrees(b) /\ Height[b] = Height[c] => b = c
<1>1. ASSUME NEW c \in Checkpoint, NEW d \in Checkpoint, Height[c] = Height[d] PROVE c = d
    <2>1. c \in Block /\ d \in Block
        BY ChainAssumption
    <2>2. c \in Line[c] /\ d \in Line[d]
        BY <2>1, Lines DEF LineOK
    <2>3. c \in Line[d] \/ d \in Line[c]
        BY CheckpointAssumption
    <2>4. QED BY <1>1, <2>1, <2>2, <2>3, OneAtEachHeight
<1>2. QED BY <1>1, ChainAssumption DEF Agrees, DiffersFromCheckpoint

(* A set of naturals with a bound has a greatest member.                   *)
LEMMA MaxOfNats ==
    ASSUME NEW S \in SUBSET Nat, S # {}, NEW bound \in Nat, \A x \in S : x <= bound
    PROVE  Max(S) \in S /\ \A x \in S : x <= Max(S)
<1> DEFINE U == {bound - x : x \in S}
<1>1. U \in SUBSET Nat /\ U # {}
    <2>1. \A x \in S : bound - x \in Nat
        OBVIOUS
    <2>2. QED BY <2>1
<1>2. PICK n \in U : \A m \in U : n <= m
    <2> HIDE DEF U
    <2> QED BY <1>1, LeastNat
<1>3. PICK x \in S : n = bound - x
    OBVIOUS
<1>4. \A y \in S : x >= y
    BY <1>2, <1>3
<1>5. Max(S) \in S /\ \A y \in S : Max(S) >= y
    BY <1>4 DEF Max
<1>6. QED BY <1>5

LEMMA MinOfNats ==
    ASSUME NEW S \in SUBSET Nat, S # {}
    PROVE  Min(S) \in S /\ \A x \in S : Min(S) <= x
BY LeastNat DEF Min

(* The heights of a set of blocks have a greatest: the blocks are finite.  *)
LEMMA HeightsBounded == \E n \in Nat : \A b \in Block : Height[b] <= n
    BY ChainAssumption

LEMMA HighestOf ==
    ASSUME NEW S \in SUBSET Block, S # {}
    PROVE  \E a \in S : \A x \in S : Height[x] <= Height[a]
<1> DEFINE H == {Height[b] : b \in S}
<1>1. H \in SUBSET Nat /\ H # {}
    BY ChainAssumption
<1>2. PICK n \in Nat : \A b \in Block : Height[b] <= n
    BY HeightsBounded
<1>3. \A h \in H : h <= n
    BY <1>2
<1>4. Max(H) \in H /\ \A h \in H : h <= Max(H)
    <2> HIDE DEF H
    <2> QED BY <1>1, <1>3, MaxOfNats
<1>5. QED BY <1>4

-----------------------------------------------------------------------------
(* Walks along prevBlock *)

LEMMA WalkEnd ==
    ASSUME NEW known, NEW b \in Block, NEW h, WalksIn(known, b, h)
    PROVE  /\ AncestorAt(b, h) \in Line[b] /\ Height[AncestorAt(b, h)] = h
           /\ h \in Nat /\ h <= Height[b]
<1>1. PICK a \in Line[b] : Height[a] = h
    BY DEF WalksIn
<1>2. a \in Block /\ Height[a] \in Nat /\ Height[b] \in Nat /\ LineOK(b)
    BY Lines, ChainAssumption DEF LineOK
<1>3. Height[a] <= Height[b]
    BY <1>2 DEF LineOK
<1>4. QED BY <1>1, <1>2, <1>3, Ancestors

(* A walk that is not at its end yet has met no stub, and what is left of  *)
(* it when it turns to a block of the line is a walk from that block.      *)
LEMMA WalkHigher ==
    ASSUME NEW known, NEW b \in Block, NEW h, WalksIn(known, b, h),
           NEW k \in Nat, h <= k, k <= Height[b]
    PROVE  /\ WalksIn(known, b, k)
           /\ h < k /\ k < Height[b] => AncestorAt(b, k) \in known \ stubs
<1>1. h \in Nat /\ LineOK(b) /\ Height[b] \in Nat
    BY WalkEnd, Lines, ChainAssumption
<1>2. PICK a \in Line[b] : Height[a] = h
    BY DEF WalksIn
<1>3. PICK x \in Line[b] : Height[x] = k
    BY <1>1, <1>2 DEF LineOK
<1>4. \A y \in Line[b] : Height[y] \in Nat
    BY <1>1, ChainAssumption DEF LineOK
<1>5. WalksIn(known, b, k)
    BY <1>1, <1>3, <1>4 DEF WalksIn
<1>6. AncestorAt(b, k) = x
    BY <1>3, Ancestors
<1>7. QED BY <1>1, <1>3, <1>4, <1>5, <1>6 DEF WalksIn

(* One interval below a transition is a transition.                        *)
LEMMA Multiples ==
    ASSUME NEW n \in Nat, n % Interval = 0
    PROVE  \E k \in Int : n = Interval * k
<1>1. Interval \in Nat /\ Interval > 0
    BY ChainAssumption
<1>2. QED BY ONLY <1>1, n \in Nat, n % Interval = 0

LEMMA IntervalBelow ==
    ASSUME NEW n \in Nat, n % Interval = 0, n - Interval \in Nat
    PROVE  (n - Interval) % Interval = 0
<1>1. Interval \in Nat /\ Interval > 0
    BY ChainAssumption
<1>2. PICK k \in Int : n = Interval * k
    BY Multiples
<1>3. n - Interval = Interval * (k - 1)
    BY <1>1, <1>2
<1>4. QED BY <1>1, <1>3

-----------------------------------------------------------------------------
(* The type invariant *)

Todo == [replace : BOOLEAN, save : SUBSET Block, next : Block \cup {NoBlock}]

(* The writes of a reorganisation are those of one block more, and those   *)
(* of the newer ones before them: the recursion has a solution.            *)
IsWrites(f, b, q, S) == \A n \in S : f[n] = IF n = 0 THEN q ELSE WritesOf(b, n, f[n - 1])

LEMMA WritesStep ==
    ASSUME NEW b, NEW q
    PROVE  \A n \in Nat : NewestWrites(b, q)[n] =
                              IF n = 0 THEN q ELSE WritesOf(b, n, NewestWrites(b, q)[n - 1])
<1> DEFINE Defined == {n \in Nat : \E f : IsWrites(f, b, q, 0..n)}
           P(n) == CHOOSE f : IsWrites(f, b, q, 0..n)
           g == [n \in Nat |-> P(n)[n]]
<1>1. 0 \in Defined
    <2>1. IsWrites([n \in {0} |-> q], b, q, 0..0)
        BY DEF IsWrites
    <2>2. QED BY <2>1
<1>2. ASSUME NEW n \in Nat, n \in Defined PROVE n + 1 \in Defined
    <2>1. PICK f : IsWrites(f, b, q, 0..n)
        BY <1>2
    <2> DEFINE h == [m \in 0..(n + 1) |-> IF m = n + 1 THEN WritesOf(b, m, f[n]) ELSE f[m]]
    <2>2. ASSUME NEW m \in 0..(n + 1)
          PROVE  h[m] = IF m = 0 THEN q ELSE WritesOf(b, m, h[m - 1])
        <3>1. CASE m = n + 1
            <4>1. h[m] = WritesOf(b, m, f[n]) /\ h[m - 1] = f[n] /\ m # 0
                BY <3>1
            <4>2. QED BY <3>1, <4>1
        <3>2. CASE m \in 0..n
            <4>1. h[m] = f[m] /\ (m # 0 => h[m - 1] = f[m - 1])
                BY <3>2
            <4>2. f[m] = IF m = 0 THEN q ELSE WritesOf(b, m, f[m - 1])
                BY <2>1, <3>2 DEF IsWrites
            <4> HIDE DEF h
            <4>3. QED BY <4>1, <4>2
        <3>3. QED BY <3>1, <3>2
    <2> HIDE DEF h
    <2>3. IsWrites(h, b, q, 0..(n + 1))
        BY <2>2 DEF IsWrites
    <2>4. QED BY <2>3
<1>3. ASSUME NEW n \in Nat PROVE IsWrites(P(n), b, q, 0..n)
    <2>1. n \in Defined
        <3> HIDE DEF Defined
        <3> QED BY <1>1, <1>2, NatSetInduction
    <2>2. QED BY <2>1
<1>4. ASSUME NEW n \in Nat, n # 0 PROVE P(n)[n - 1] = P(n - 1)[n - 1]
    <2> DEFINE f == P(n)
               h == P(n - 1)
               Same == {m \in Nat : m <= n - 1 => f[m] = h[m]}
    <2>1. IsWrites(f, b, q, 0..n) /\ IsWrites(h, b, q, 0..(n - 1))
        BY <1>3, <1>4
    <2> HIDE DEF f, h
    <2>2. 0 \in Same
        BY <2>1, <1>4 DEF IsWrites
    <2>3. ASSUME NEW m \in Nat, m \in Same PROVE m + 1 \in Same
        <3>1. SUFFICES ASSUME m + 1 <= n - 1 PROVE f[m + 1] = h[m + 1]
            OBVIOUS
        <3>2. /\ m + 1 \in 0..n /\ m + 1 \in 0..(n - 1) /\ (m + 1) - 1 = m /\ m + 1 # 0
              /\ m <= n - 1
            BY <3>1
        <3>3. f[m + 1] = WritesOf(b, m + 1, f[m]) /\ h[m + 1] = WritesOf(b, m + 1, h[m])
            BY <2>1, <3>2 DEF IsWrites
        <3>4. f[m] = h[m]
            BY <2>3, <3>2
        <3>5. QED BY <3>3, <3>4
    <2>4. n - 1 \in Same
        <3> HIDE DEF Same
        <3> QED BY <1>4, <2>2, <2>3, NatSetInduction
    <2>5. f[n - 1] = h[n - 1]
        BY <1>4, <2>4
    <2>6. QED BY <2>5 DEF f, h
<1>5. ASSUME NEW n \in Nat PROVE g[n] = IF n = 0 THEN q ELSE WritesOf(b, n, g[n - 1])
    <2>1. n \in 0..n
        OBVIOUS
    <2>2. P(n)[n] = IF n = 0 THEN q ELSE WritesOf(b, n, P(n)[n - 1])
        BY <1>3, <2>1 DEF IsWrites
    <2>3. n # 0 => n - 1 \in Nat
        OBVIOUS
    <2>4. n # 0 => P(n)[n - 1] = P(n - 1)[n - 1]
        BY <1>4
    <2> HIDE DEF P
    <2>5. QED BY <2>2, <2>3, <2>4
<1>6. g = [n \in Nat |-> g[n]]
    OBVIOUS
<1> HIDE DEF g
<1>7. \E f : f = [n \in Nat |-> IF n = 0 THEN q ELSE WritesOf(b, n, f[n - 1])]
    BY <1>5, <1>6
<1> DEFINE w == NewestWrites(b, q)
<1>8. w = [n \in Nat |-> IF n = 0 THEN q ELSE WritesOf(b, n, w[n - 1])]
    BY <1>7 DEF NewestWrites
<1> HIDE DEF w
<1>9. \A n \in Nat : w[n] = IF n = 0 THEN q ELSE WritesOf(b, n, w[n - 1])
    BY <1>8
<1>10. QED BY <1>9 DEF w

(* The writes of heights, and the writes that hold no block that differs   *)
(* from a checkpoint.                                                      *)
HeightsOps == {HeightsOp(T, h) : T \in SUBSET Tx, h \in Nat}

AgreeingOps == {op \in Ops : \A b \in op.blocks : Agrees(b)}

LEMMA HeightsOpsType == HeightsOps \subseteq AgreeingOps /\ HeightsOps \subseteq Ops
<1>1. ASSUME NEW T \in SUBSET Tx, NEW h \in Nat
      PROVE  HeightsOp(T, h) \in Ops /\ HeightsOp(T, h).blocks = {}
    BY DEF HeightsOp, Ops
<1>2. ASSUME NEW T \in SUBSET Tx, NEW h \in Nat PROVE HeightsOp(T, h) \in AgreeingOps
    BY <1>1 DEF AgreeingOps
<1>3. QED BY <1>1, <1>2 DEF HeightsOps

LEMMA QueuedType ==
    ASSUME NEW Q, HeightsOps \subseteq Q, NEW q \in Seq(Q), NEW T \in SUBSET Tx, NEW h \in Nat
    PROVE  Queued(q, T, h) \in Seq(Q)
<1>1. HeightsOp(T, h) \in Q
    BY DEF HeightsOps
<1>2. Append(q, HeightsOp(T, h)) \in Seq(Q)
    <2> DEFINE op == HeightsOp(T, h)
    <2> HIDE DEF op
    <2> QED BY <1>1 DEF op
<1>3. QED BY <1>2 DEF Queued

LEMMA WritesType ==
    ASSUME NEW b \in Block, NEW h, NEW q, q = Writes(b, h),
           NEW Q, HeightsOps \subseteq Q, queue \in Seq(Q)
    PROVE  q \in Seq(Q)
<1> DEFINE first == UnconfirmWrites(b, h)
           f == NewestWrites(b, first)
           last == IF Joined(b, h) THEN Height[b] - h ELSE 0
           S == {n \in Nat : n <= last => f[n] \in Seq(Q)}
<1>1. q = f[last]
    BY DEF Writes
<1>2. \A n \in Nat : f[n] = IF n = 0 THEN first ELSE WritesOf(b, n, f[n - 1])
    BY WritesStep
<1>3. first \in Seq(Q)
    <2>1. Unconfirming(h) \in SUBSET Tx /\ Unconfirmed \in Nat
        BY ChainAssumption DEF Unconfirming
    <2>2. QED BY <2>1, QueuedType DEF UnconfirmWrites
<1>4. last \in Nat
    <2>1. CASE Joined(b, h)
        <3>1. h \in Nat /\ h <= Height[b] /\ Height[b] \in Nat
            BY <2>1, WalkEnd, ChainAssumption DEF Joined
        <3>2. QED BY <3>1
    <2>2. QED BY <2>1
<1> HIDE DEF f, first
<1>5. 0 \in S
    BY <1>2, <1>3
<1>6. ASSUME NEW n \in Nat, n \in S PROVE n + 1 \in S
    <2>1. SUFFICES ASSUME n + 1 <= last PROVE f[n + 1] \in Seq(Q)
        OBVIOUS
    <2>2. f[n] \in Seq(Q)
        BY <1>4, <1>6, <2>1
    <2> DEFINE k == Height[b] - (n + 1) + 1
               a == AncestorAt(b, k)
    <2>3. Joined(b, h)
        BY <2>1
    <2>4. h \in Nat /\ Height[b] \in Nat /\ last = Height[b] - h
        BY <2>3, WalkEnd, ChainAssumption DEF Joined
    <2>5. k \in Nat /\ h <= k /\ k <= Height[b]
        BY <2>1, <2>4
    <2>6. a \in Line[b]
        <3> HIDE DEF last, k
        <3>1. WalksIn(Kept(b), b, k)
            BY <2>3, <2>5, WalkHigher DEF Joined
        <3>2. QED BY <3>1, WalkEnd
    <2>7. a \in Block /\ Height[a] \in Nat /\ TxIn(a) \in SUBSET Tx
        BY <2>6, Lines, ChainAssumption DEF LineOK, TxIn
    <2>8. WritesOf(b, n + 1, f[n]) \in Seq(Q)
        <3> HIDE DEF last
        <3> QED BY <2>2, <2>7, QueuedType DEF WritesOf
    <2>9. f[n + 1] = WritesOf(b, n + 1, f[n])
        BY <1>2
    <2>10. QED BY <2>8, <2>9
<1>7. last \in S
    <2> HIDE DEF S, last
    <2> QED BY <1>4, <1>5, <1>6, NatSetInduction
<1>8. QED BY <1>1, <1>4, <1>7

LEMMA AdopteeType ==
    ASSUME NEW b, orphans \subseteq Block
    PROVE  Adoptee(b) \in Block \cup {NoBlock}
BY DEF Adoptee

LEMMA SavedType ==
    ASSUME NEW b \in Block, NEW count, NEW known
    PROVE  SaveBlocks(b, count, known) \in SUBSET Block
<1>1. Line[b] \subseteq Block
    BY Lines DEF LineOK
<1>2. QED BY <1>1 DEF SaveBlocks, Trimmed, SaveUntrimmed

LEMMA FinishType ==
    ASSUME TypeOK, NEW p \in Peer, NEW b \in Block, NEW count, NEW known,
           Finish(p, b, count, known)
    PROVE  estimated' \in Nat /\ todo' \in [Peer -> Todo]
<1>1. Height[b] \in Nat /\ estimated \in Nat
    BY ChainAssumption DEF TypeOK
<1>2. estimated' \in Nat
    <2> DEFINE S == {estimated, Height[b]}
    <2>1. S \in SUBSET Nat /\ S # {} /\ \A x \in S : x <= estimated + Height[b]
        BY <1>1
    <2>2. estimated + Height[b] \in Nat
        BY <1>1
    <2>3. Max(S) \in Nat
        <3> HIDE DEF S
        <3> QED BY <2>1, <2>2, MaxOfNats
    <2>4. estimated' = Max(S)
        BY DEF Finish
    <2>5. QED BY <2>3, <2>4
<1>3. todo' \in [Peer -> Todo]
    <2> DEFINE save == SaveBlocks(b, count, known)
               new == [replace |-> Cardinality(save) > 1, save |-> save, next |-> Adoptee(b)]
    <2>1. save \in SUBSET Block /\ Adoptee(b) \in Block \cup {NoBlock}
        BY SavedType, AdopteeType DEF TypeOK
    <2>2. new \in Todo
        <3> HIDE DEF save
        <3> QED BY <2>1 DEF Todo
    <2>3. todo' = [todo EXCEPT ![p] = new]
        BY DEF Finish
    <2>4. todo \in [Peer -> Todo]
        BY DEF TypeOK, Todo
    <2> HIDE DEF new
    <2>5. QED BY <2>2, <2>3, <2>4
<1>4. QED BY <1>2, <1>3

LEMMA QuietType ==
    ASSUME TypeOK, NEW p \in Peer, FinishQuietly(p)
    PROVE  estimated' \in Nat /\ todo' \in [Peer -> Todo]
<1>1. Idle \in Todo
    BY DEF Idle, Todo
<1>2. todo \in [Peer -> Todo]
    BY DEF TypeOK, Todo
<1>3. QED BY <1>1, <1>2 DEF FinishQuietly, TypeOK

LEMMA ConfirmType ==
    ASSUME TypeOK, NEW b \in Block, Confirm(b)
    PROVE  height' \in [Tx -> Nat] /\ queue' \in Seq(Ops)
<1>1. Height[b] \in Nat /\ TxIn(b) \in SUBSET Tx
    BY ChainAssumption DEF TxIn
<1>2. queue' \in Seq(Ops)
    BY <1>1, HeightsOpsType, QueuedType DEF Confirm, TypeOK
<1>3. QED BY <1>1, <1>2 DEF Confirm, SetHeights, TypeOK

LEMMA NewHeightsType ==
    ASSUME TypeOK, NEW b \in Block, NEW h
    PROVE  NewHeights(b, h) \in [Tx -> Nat]
<1> DEFINE found(t) == {a \in MinedIn[t] \cap Line[b] : Height[a] > h}
<1>1. ASSUME NEW t \in Tx, found(t) # {} PROVE Min({Height[a] : a \in found(t)}) \in Nat
    <2> DEFINE S == {Height[a] : a \in found(t)}
    <2>1. found(t) \subseteq Block
        BY Lines DEF LineOK
    <2>2. S \in SUBSET Nat /\ S # {}
        BY <1>1, <2>1, ChainAssumption
    <2>3. QED
        <3> HIDE DEF S
        <3>1. Min(S) \in Nat
            BY <2>2, MinOfNats
        <3> QED BY <3>1 DEF S
<1>2. \A t \in Tx : height[t] \in Nat /\ Unconfirmed \in Nat
    BY ChainAssumption DEF TypeOK
<1>3. QED BY <1>1, <1>2 DEF NewHeights

LEMMA RelayedType ==
    ASSUME TypeOK, NEW p \in Peer, NEW b \in Block, lastBlock \in blocks, Relayed(p, b)
    PROVE  /\ blocks' \subseteq Block /\ stubs' \subseteq blocks' /\ orphans' \subseteq Block
           /\ lastBlock' \in Block /\ rejected' \subseteq Block
           /\ estimated' \in Nat /\ todo' \in [Peer -> Todo]
           /\ height' \in [Tx -> Nat] /\ queue' \in Seq(Ops)
<1>1. /\ blocks \subseteq Block /\ stubs \subseteq blocks /\ orphans \subseteq Block
      /\ lastBlock \in Block /\ rejected \subseteq Block
      /\ height \in [Tx -> Nat] /\ queue \in Seq(Ops)
    BY DEF TypeOK
<1>2. Kept(b) \subseteq Block /\ KeptStubs(b) \subseteq Kept(b)
    BY <1>1 DEF Kept, KeptStubs
<1>3. AddOrphan(b, orphans) \subseteq Block
    BY <1>1 DEF AddOrphan
<1>4. CASE RelayOrphan(p, b)
    BY <1>1, <1>3, <1>4, QuietType DEF RelayOrphan
<1>5. CASE RelayInvalid(p, b)
    BY <1>1, <1>2, <1>5, QuietType DEF RelayInvalid
<1>6. CASE RelayExtension(p, b)
    BY <1>1, <1>2, <1>6, FinishType, ConfirmType DEF RelayExtension
<1>7. CASE RelayExisting(p, b)
    <2>1. height' \in [Tx -> Nat] /\ queue' \in Seq(Ops)
        BY <1>1, <1>7, ConfirmType DEF RelayExisting
    <2>2. /\ blocks' = Kept(b) /\ stubs' = KeptStubs(b) \ {b} /\ orphans' \subseteq orphans
          /\ UNCHANGED <<lastBlock, rejected>> /\ Finish(p, b, 0, blocks')
        BY <1>7 DEF RelayExisting
    <2>3. estimated' \in Nat /\ todo' \in [Peer -> Todo]
        BY <2>2, FinishType
    <2>4. b \in Kept(b)
        BY <1>7 DEF RelayExisting
    <2>5. QED BY <1>1, <1>2, <2>1, <2>2, <2>3
<1>8. CASE RelayDuringRescan(p, b)
    BY <1>1, <1>2, <1>3, <1>8, FinishType DEF RelayDuringRescan
<1>9. CASE RelayOldFork(p, b)
    BY <1>1, <1>2, <1>9, QuietType DEF RelayOldFork
<1>10. CASE RelayFork(p, b)
    BY <1>1, <1>2, <1>10, FinishType DEF RelayFork
<1>11. CASE Reorganize(p, b)
    <2>1. height' \in [Tx -> Nat]
        BY <1>11, NewHeightsType DEF Reorganize
    <2>2. queue' \in Seq(Ops)
        BY <1>1, <1>11, HeightsOpsType, WritesType DEF Reorganize
    <2>3. /\ blocks' = Kept(b) \cup {b} /\ stubs' = KeptStubs(b) /\ orphans' \subseteq orphans
          /\ lastBlock' = b /\ UNCHANGED rejected /\ Finish(p, b, SaveCount(b, FALSE), blocks')
        BY <1>11 DEF Reorganize
    <2>4. estimated' \in Nat /\ todo' \in [Peer -> Todo]
        BY <2>3, FinishType
    <2>5. QED BY <1>1, <1>2, <2>1, <2>2, <2>3, <2>4
<1>12. QED BY <1>4, <1>5, <1>6, <1>7, <1>8, <1>9, <1>10, <1>11 DEF Relayed

(* A start from the rows: what the blocks, the stubs, the orphans and      *)
(* lastBlock are then.                                                     *)
LEMMA RestoredBlocks ==
    ASSUME TypeOK, NEW loaded \in SUBSET rows, NEW top \in rows
    PROVE  /\ Restored(loaded, top) \subseteq rows
           /\ top \in Restored(loaded, top)
           /\ \A last : last = (CHOOSE a \in Restored(loaded, top) :
                                   \A x \in Restored(loaded, top) : Height[x] <= Height[a])
                 => /\ last \in Restored(loaded, top)
                    /\ \A x \in Restored(loaded, top) : Height[x] <= Height[last]
<1> DEFINE chain == Restored(loaded, top)
<1>1. chain \subseteq rows /\ rows \subseteq Block
    BY DEF TypeOK, Restored
<1>2. top \in chain
    <2>1. top \in Block /\ LineOK(top)
        BY <1>1, Lines
    <2>2. top \in Line[top] /\ \A x \in Line[top] : ~(Height[x] > Height[top])
        BY <2>1, ChainAssumption DEF LineOK
    <2>3. QED BY <2>2 DEF Restored
<1>3. \E a \in chain : \A x \in chain : Height[x] <= Height[a]
    <2> HIDE DEF chain
    <2> QED BY <1>1, <1>2, HighestOf
<1> HIDE DEF chain
<1>4. \A last : last = (CHOOSE a \in chain : \A x \in chain : Height[x] <= Height[a])
          => last \in chain /\ \A x \in chain : Height[x] <= Height[last]
    BY <1>3
<1>5. QED BY <1>1, <1>2, <1>4 DEF chain

LEMMA NewType ==
    ASSUME TypeOK, NEW loaded \in SUBSET rows, New_(loaded)
    PROVE  /\ blocks' \subseteq Block /\ stubs' \subseteq blocks' /\ orphans' \subseteq Block
           /\ lastBlock' \in Block
<1>1. rows \subseteq Block /\ start \in Block /\ Checkpoint \subseteq Block
    BY ChainAssumption DEF TypeOK
<1>2. CASE LastTransitions # {}
    <2>1. PICK top \in LastTransitions :
              LET chain == Restored(loaded, top) IN
              /\ blocks' = Checkpoint \cup chain
              /\ stubs' = Checkpoint \ chain
              /\ orphans' = {o \in loaded : \A a \in chain : Parent[a] # Parent[o]}
              /\ lastBlock' = CHOOSE a \in chain : \A x \in chain : Height[x] <= Height[a]
        BY <1>2 DEF New_
    <2>2. top \in rows
        BY DEF LastTransitions
    <2>3. Restored(loaded, top) \subseteq rows /\ lastBlock' \in Restored(loaded, top)
        BY <2>1, <2>2, RestoredBlocks
    <2>4. QED BY <1>1, <2>1, <2>3
<1>3. CASE LastTransitions = {}
    BY <1>1, <1>3 DEF New_
<1>4. QED BY <1>2, <1>3

(* Every block, height and write that the handler, the app's queue and a   *)
(* start from the rows leave is one.                                       *)
THEOREM TypeInvariant == Spec => []TypeOK
<1>1. Init => TypeOK
    <2>1. SUFFICES ASSUME Init PROVE TypeOK
        OBVIOUS
    <2>2. [t \in Tx |-> Unconfirmed] \in [Tx -> Nat] /\ Checkpoint \subseteq Block
        BY ChainAssumption
    <2>3. <<>> \in Seq(Ops)
        OBVIOUS
    <2>4. Idle \in Todo
        BY DEF Idle, Todo
    <2>5. restarts + rescans <= MaxBreaks /\ restarts \in Nat /\ rescans \in Nat
        BY <2>1, ChainAssumption DEF Init
    <2>6. QED BY <2>1, <2>2, <2>3, <2>4, <2>5 DEF Init, TypeOK, Todo
<1>2. TypeOK /\ [Next]_vars => TypeOK'
    <2>1. SUFFICES ASSUME TypeOK, [Next]_vars PROVE TypeOK'
        OBVIOUS
    <2> USE DEF Todo
    <2>2. \A p \in Peer : todo[p] \in Todo
        BY <2>1 DEF TypeOK
    <2>3. ASSUME NEW p \in Peer, NEW b \in Block, Relay(p, b) PROVE TypeOK'
        BY <2>1, <2>3, RelayedType DEF TypeOK, Relay
    <2>4. ASSUME NEW p \in Peer, Adopt(p) PROVE TypeOK'
        <3>1. todo[p].next \in Block
            BY <2>2, <2>4 DEF Adopt
        <3>2. QED BY <2>1, <2>4, <3>1, RelayedType DEF TypeOK, Adopt
    <2>5. ASSUME NEW p \in Peer, Save(p) PROVE TypeOK'
        <3>1. BlocksOp(todo[p].replace, todo[p].save) \in Ops
            BY <2>2 DEF BlocksOp, Ops
        <3>2. queue' \in Seq(Ops)
            <4> DEFINE op == BlocksOp(todo[p].replace, todo[p].save)
            <4>1. queue \in Seq(Ops) /\ queue' = Append(queue, op)
                BY <2>1, <2>5 DEF TypeOK, Save
            <4> HIDE DEF op, Ops
            <4>2. QED BY <3>1, <4>1 DEF op
        <3>3. todo' \in [Peer -> Todo]
            BY <2>1, <2>2, <2>5 DEF TypeOK, Save
        <3>4. UNCHANGED <<start, chainVars, estimated, height, rows, txRows, restarts, rescans>>
            BY <2>5 DEF Save
        <3>5. QED BY <2>1, <3>2, <3>3, <3>4 DEF TypeOK, chainVars
    <2>6. ASSUME NEW p \in Peer, SelectDownloadPeer(p) PROVE TypeOK'
        <3>1. LastOf[p] \in Nat
            BY ChainAssumption
        <3>2. QED BY <2>1, <2>6, <3>1 DEF TypeOK, SelectDownloadPeer, chainVars, savedVars
    <2>7. CASE Write
        <3>1. queue \in Seq(Ops) /\ queue # <<>>
            BY <2>1, <2>7 DEF TypeOK, Write
        <3>2. Head(queue) \in Ops /\ Tail(queue) \in Seq(Ops)
            BY <3>1, HeadTailProperties
        <3> DEFINE op == Head(queue)
        <3>3. op.txs \subseteq Tx /\ op.height \in Nat /\ op.blocks \subseteq Block
            BY <3>2 DEF Ops
        <3>4. /\ txRows' = SetHeights(txRows, op.txs, op.height)
              /\ rows' \subseteq rows \cup op.blocks
              /\ queue' = Tail(queue)
              /\ UNCHANGED <<start, chainVars, estimated, height, todo, restarts, rescans>>
            BY <2>7 DEF Write
        <3> HIDE DEF op
        <3>5. txRows' \in [Tx -> Nat] /\ rows' \subseteq Block
            BY <2>1, <3>3, <3>4 DEF TypeOK, SetHeights
        <3>6. QED BY <2>1, <3>2, <3>4, <3>5 DEF TypeOK, chainVars
    <2>8. CASE Rescan
        <3>1. restarts + rescans' <= MaxBreaks /\ rescans' \in Nat
            BY <2>1, <2>8, ChainAssumption DEF TypeOK, Rescan
        <3>2. start \in Block
            BY <2>1, ChainAssumption DEF TypeOK
        <3>3. QED BY <2>1, <2>8, <3>1, <3>2 DEF TypeOK, Rescan, savedVars
    <2>9. CASE Restart
        <3>1. PICK loaded \in SUBSET rows : New_(loaded)
            BY <2>9 DEF Restart
        <3>2. /\ blocks' \subseteq Block /\ stubs' \subseteq blocks' /\ orphans' \subseteq Block
              /\ lastBlock' \in Block
            BY <2>1, <3>1, NewType
        <3>3. restarts' + rescans <= MaxBreaks /\ restarts' \in Nat
            BY <2>1, <2>9, ChainAssumption DEF TypeOK, Restart
        <3>4. Idle \in Todo /\ <<>> \in Seq(Ops)
            BY DEF Idle
        <3>5. /\ queue' = <<>> /\ todo' = [p \in Peer |-> Idle] /\ height' = txRows
              /\ estimated' = 0 /\ UNCHANGED <<start, rejected, rows, txRows, rescans>>
            BY <2>9 DEF Restart
        <3>6. queue' \in Seq(Ops) /\ todo' \in [Peer -> Todo]
            BY <3>4, <3>5
        <3>7. QED BY <2>1, <3>2, <3>3, <3>5, <3>6 DEF TypeOK
    <2>10. CASE UNCHANGED vars
        BY <2>1, <2>10 DEF TypeOK, vars, chainVars, savedVars
    <2>11. QED
        BY <2>1, <2>3, <2>4, <2>5, <2>6, <2>7, <2>8, <2>9, <2>10 DEF Next
<1>3. QED BY <1>1, <1>2, PTL DEF Spec

-----------------------------------------------------------------------------
(* What is kept and saved agrees with the checkpoints *)

Agree ==
    /\ stubs \subseteq Checkpoint
    /\ \A b \in blocks \cup rows : Agrees(b)
    /\ \A p \in Peer : \A b \in todo[p].save : Agrees(b)
    /\ queue \in Seq(AgreeingOps)

LEMMA SavedAgrees ==
    ASSUME TypeOK, Agree, NEW p \in Peer, NEW b \in Block, NEW count, NEW known,
           Agrees(b), \A a \in known : Agrees(a), Finish(p, b, count, known)
    PROVE  \A x \in Peer : \A a \in todo'[x].save : Agrees(a)
<1> DEFINE save == SaveBlocks(b, count, known)
<1>1. save \subseteq known \cup {b}
    <2>1. ASSUME NEW a \in save PROVE a = b \/ a \in known
        <3>1. a \in Line[b] /\ Height[a] <= Height[a]
            BY Lines, ChainAssumption DEF SaveBlocks, Trimmed, SaveUntrimmed, LineOK
        <3>2. QED BY <3>1 DEF SaveBlocks, Trimmed, SaveUntrimmed
    <2>2. QED BY <2>1
<1>2. \A a \in save : Agrees(a)
    BY <1>1
<1>3. \A x \in Peer : todo'[x].save = IF x = p THEN save ELSE todo[x].save
    BY DEF Finish, TypeOK
<1> HIDE DEF save
<1>4. QED BY <1>2, <1>3 DEF Agree

LEMMA QuietAgrees ==
    ASSUME TypeOK, Agree, NEW p \in Peer, FinishQuietly(p)
    PROVE  \A x \in Peer : \A a \in todo'[x].save : Agrees(a)
BY DEF FinishQuietly, Idle, TypeOK, Agree

LEMMA ConfirmAgrees ==
    ASSUME Agree, NEW b \in Block, Confirm(b)
    PROVE  queue' \in Seq(AgreeingOps)
<1>1. Height[b] \in Nat /\ TxIn(b) \in SUBSET Tx
    BY ChainAssumption DEF TxIn
<1>2. QED BY <1>1, HeightsOpsType, QueuedType DEF Confirm, Agree

LEMMA RelayedAgrees ==
    ASSUME TypeOK, Agree, NEW p \in Peer, NEW b \in Block, Relayed(p, b),
           UNCHANGED rows
    PROVE  Agree'
<1>1. Verified(b) => Agrees(b)
    BY DEF Verified, Valid, Agrees
<1>2. Kept(b) \subseteq blocks /\ KeptStubs(b) \subseteq stubs
    BY DEF Kept, KeptStubs
<1>3. /\ stubs \subseteq Checkpoint /\ queue \in Seq(AgreeingOps)
      /\ \A a \in blocks \cup rows : Agrees(a)
      /\ \A a \in Kept(b) : Agrees(a)
    BY <1>2 DEF Agree
<1>4. SUFFICES /\ stubs' \subseteq Checkpoint /\ queue' \in Seq(AgreeingOps)
               /\ \A a \in blocks' : Agrees(a)
               /\ \A x \in Peer : \A a \in todo'[x].save : Agrees(a)
    <2>1. \A a \in rows' : Agrees(a)
        BY <1>3
    <2>2. QED BY <2>1 DEF Agree, Agrees, DiffersFromCheckpoint
<1>5. CASE RelayOrphan(p, b)
    BY <1>3, <1>5, QuietAgrees DEF RelayOrphan
<1>6. CASE RelayInvalid(p, b)
    BY <1>2, <1>3, <1>6, QuietAgrees DEF RelayInvalid
<1>7. CASE RelayExtension(p, b)
    <2>1. \A a \in blocks' : Agrees(a)
        BY <1>1, <1>3, <1>7 DEF RelayExtension
    <2>2. Finish(p, b, SaveCount(b, TRUE), blocks') /\ Agrees(b) /\ Confirm(b)
        BY <1>1, <1>7 DEF RelayExtension
    <2>3. \A x \in Peer : \A a \in todo'[x].save : Agrees(a)
        BY <2>1, <2>2, SavedAgrees
    <2>4. QED BY <1>2, <1>3, <1>7, <2>1, <2>2, <2>3, ConfirmAgrees DEF RelayExtension
<1>8. CASE RelayExisting(p, b)
    <2>1. /\ blocks' = Kept(b) /\ stubs' = KeptStubs(b) \ {b} /\ Agrees(b)
          /\ Finish(p, b, 0, blocks')
        BY <1>1, <1>8 DEF RelayExisting
    <2>2. \A x \in Peer : \A a \in todo'[x].save : Agrees(a)
        BY <1>3, <2>1, SavedAgrees
    <2>3. queue' \in Seq(AgreeingOps)
        BY <1>3, <1>8, ConfirmAgrees DEF RelayExisting
    <2>4. QED BY <1>2, <1>3, <2>1, <2>2, <2>3
<1>9. CASE RelayDuringRescan(p, b)
    <2>1. /\ blocks' = Kept(b) /\ stubs' = KeptStubs(b) /\ Agrees(b)
          /\ Finish(p, b, 0, blocks') /\ UNCHANGED queue
        BY <1>1, <1>9 DEF RelayDuringRescan, New
    <2>2. \A x \in Peer : \A a \in todo'[x].save : Agrees(a)
        BY <1>3, <2>1, SavedAgrees
    <2>3. QED BY <1>2, <1>3, <2>1, <2>2
<1>10. CASE RelayOldFork(p, b)
    BY <1>2, <1>3, <1>10, QuietAgrees DEF RelayOldFork
<1>11. CASE RelayFork(p, b)
    <2>1. /\ blocks' = Kept(b) \cup {b} /\ stubs' = KeptStubs(b) /\ Agrees(b)
          /\ Finish(p, b, 0, blocks') /\ UNCHANGED queue
        BY <1>1, <1>11 DEF RelayFork, Fork, New
    <2>2. \A a \in blocks' : Agrees(a)
        BY <1>3, <2>1
    <2>3. \A x \in Peer : \A a \in todo'[x].save : Agrees(a)
        BY <2>1, <2>2, SavedAgrees
    <2>4. QED BY <1>2, <1>3, <2>1, <2>2, <2>3
<1>12. CASE Reorganize(p, b)
    <2>1. /\ blocks' = Kept(b) \cup {b} /\ stubs' = KeptStubs(b) /\ Agrees(b)
          /\ Finish(p, b, SaveCount(b, FALSE), blocks') /\ queue' = Writes(b, Join(b))
        BY <1>1, <1>12 DEF Reorganize, Fork, New
    <2>2. \A a \in blocks' : Agrees(a)
        BY <1>3, <2>1
    <2>3. \A x \in Peer : \A a \in todo'[x].save : Agrees(a)
        BY <2>1, <2>2, SavedAgrees
    <2>4. queue' \in Seq(AgreeingOps)
        BY <1>3, <2>1, HeightsOpsType, WritesType
    <2>5. QED BY <1>2, <1>3, <2>1, <2>2, <2>3, <2>4
<1>13. QED BY <1>5, <1>6, <1>7, <1>8, <1>9, <1>10, <1>11, <1>12 DEF Relayed

LEMMA AgreeInvariant ==
    ASSUME TypeOK, TypeOK', Agree, [Next]_vars
    PROVE  Agree'
<1>1. ASSUME NEW p \in Peer, NEW b \in Block, Relay(p, b) PROVE Agree'
    BY <1>1, RelayedAgrees DEF Relay
<1>2. ASSUME NEW p \in Peer, Adopt(p) PROVE Agree'
    <2>1. todo[p].next \in Block
        BY <1>2 DEF Adopt, TypeOK
    <2>2. QED BY <1>2, <2>1, RelayedAgrees DEF Adopt
<1>3. ASSUME NEW p \in Peer, Save(p) PROVE Agree'
    <2> DEFINE op == BlocksOp(todo[p].replace, todo[p].save)
    <2>1. op \in AgreeingOps
        <3>1. todo[p].replace \in BOOLEAN /\ todo[p].save \subseteq Block
            BY DEF TypeOK
        <3>2. op \in Ops /\ op.blocks = todo[p].save
            BY <3>1 DEF BlocksOp, Ops
        <3>3. QED BY <3>2 DEF AgreeingOps, Agree
    <2>2. queue' = Append(queue, op) /\ queue \in Seq(AgreeingOps)
        BY <1>3 DEF Save, Agree
    <2> HIDE DEF op
    <2>3. queue' \in Seq(AgreeingOps)
        BY <2>1, <2>2
    <2>4. \A x \in Peer : todo'[x].save \subseteq todo[x].save
        BY <1>3 DEF Save, TypeOK
    <2>5. UNCHANGED <<stubs, blocks, rows>>
        BY <1>3 DEF Save, chainVars
    <2>6. QED BY <2>3, <2>4, <2>5 DEF Agree, Agrees, DiffersFromCheckpoint
<1>4. ASSUME NEW p \in Peer, SelectDownloadPeer(p) PROVE Agree'
    BY <1>4 DEF Agree, Agrees, DiffersFromCheckpoint, SelectDownloadPeer, chainVars, savedVars
<1>5. CASE Write
    <2>1. queue \in Seq(AgreeingOps) /\ queue # <<>>
        BY <1>5 DEF Agree, Write
    <2>2. Head(queue) \in AgreeingOps /\ Tail(queue) \in Seq(AgreeingOps)
        BY <2>1, HeadTailProperties
    <2> DEFINE op == Head(queue)
    <2>3. /\ rows' \subseteq rows \cup op.blocks /\ queue' = Tail(queue)
          /\ UNCHANGED <<stubs, blocks, todo>>
        BY <1>5 DEF Write, chainVars
    <2>4. \A b \in op.blocks : Agrees(b)
        BY <2>2 DEF AgreeingOps
    <2> HIDE DEF op
    <2>5. QED BY <2>2, <2>3, <2>4 DEF Agree, Agrees, DiffersFromCheckpoint
<1>6. CASE Rescan
    BY <1>6 DEF Agree, Agrees, DiffersFromCheckpoint, Rescan, savedVars
<1>7. CASE Restart
    <2>1. PICK loaded \in SUBSET rows : New_(loaded)
        BY <1>7 DEF Restart
    <2>2. blocks' \subseteq Checkpoint \cup rows /\ stubs' \subseteq Checkpoint
        <3>1. CASE LastTransitions # {}
            <4>1. PICK top \in LastTransitions :
                      LET chain == Restored(loaded, top) IN
                      blocks' = Checkpoint \cup chain /\ stubs' = Checkpoint \ chain
                BY <2>1, <3>1 DEF New_
            <4>2. Restored(loaded, top) \subseteq rows
                BY <4>1, RestoredBlocks DEF LastTransitions
            <4>3. QED BY <4>1, <4>2
        <3>2. QED BY <2>1, <3>1 DEF New_
    <2>3. /\ queue' = <<>> /\ todo' = [p \in Peer |-> Idle] /\ UNCHANGED rows
        BY <1>7 DEF Restart
    <2>4. \A p \in Peer : todo'[p].save = {}
        BY <2>3 DEF Idle
    <2>5. queue' \in Seq(AgreeingOps)
        BY <2>3
    <2>6. \A b \in blocks' \cup rows' : Agrees(b)
        BY <2>2, <2>3, CheckpointsAgree DEF Agree
    <2>7. QED BY <2>2, <2>4, <2>5, <2>6 DEF Agree, Agrees, DiffersFromCheckpoint
<1>8. CASE UNCHANGED vars
    BY <1>8 DEF Agree, Agrees, DiffersFromCheckpoint, vars, chainVars, savedVars
<1>9. QED BY <1>1, <1>2, <1>3, <1>4, <1>5, <1>6, <1>7, <1>8 DEF Next

-----------------------------------------------------------------------------
(* The chain is rooted *)

(* LastBlockRooted for any set of blocks, of stubs, and last block.        *)
RootOf(B, S, l, r) ==
    /\ r \in Line[l]
    /\ r \in S \/ IsTransition(r)
    /\ \A a \in Line[l] : Height[r] <= Height[a] /\ Height[a] < Height[l] =>
          a \in B /\ (a \in S => Height[a] = Height[r])

(* What keeps it so.  What is higher than the last block is a stub: a      *)
(* checkpoint that is not reached yet.  And the block below a stub is      *)
(* known only if it is the last one, so that a checkpoint that is relayed  *)
(* stops to be a stub only when it extends the chain.                      *)
Rooted(B, S, l) ==
    /\ l \in B
    /\ \E r \in Block : RootOf(B, S, l, r)
    /\ \A b \in B : Height[b] > Height[l] => b \in S
    /\ \A s \in S : Parent[s] \in B => Parent[s] = l

RootedInv == rescans = 0 => Rooted(blocks, stubs, lastBlock)

(* A last block that is a stub is its own root.                            *)
LEMMA NearestRoot ==
    ASSUME NEW B, NEW S, NEW l \in Block, NEW q \in Block, RootOf(B, S, l, q)
    PROVE  \E r \in Block : RootOf(B, S, l, r) /\ (l \in S => r = l)
<1>1. CASE l \in S
    <2>1. l \in Line[l] /\ \A a \in Line[l] : ~(Height[l] <= Height[a] /\ Height[a] < Height[l])
        BY Lines, ChainAssumption DEF LineOK
    <2>2. RootOf(B, S, l, l)
        BY <1>1, <2>1 DEF RootOf
    <2>3. QED BY <2>2
<1>2. QED BY <1>1

LEMMA LineHeights ==
    ASSUME NEW b \in Block
    PROVE  /\ LineOK(b) /\ Height[b] \in Nat /\ Interval \in Nat /\ Interval > 0
           /\ \A a \in Line[b] : a \in Block /\ Height[a] \in Nat /\ Height[a] <= Height[b]
<1>1. LineOK(b) /\ Height[b] \in Nat /\ Interval \in Nat /\ Interval > 0
    BY Lines, ChainAssumption
<1>2. \A a \in Line[b] : a \in Block /\ Height[a] \in Nat
    BY <1>1, ChainAssumption DEF LineOK
<1>3. QED BY <1>1, <1>2 DEF LineOK

(* What a block frees is lower than the transition before it, and is       *)
(* reached from it.                                                        *)
LEMMA PrunedBlocks ==
    ASSUME NEW b \in Block, NEW a \in Pruned(b)
    PROVE  /\ a \in Line[b] /\ WalksIn(blocks, b, Height[a])
           /\ WalksIn(blocks, b, Height[b] - Interval)
           /\ IsTransition(b)
           /\ Height[a] < Height[b] - Interval
BY DEF Pruned, AllOlder, MissesTransition, Walks

LEMMA PruningKeepsRoot ==
    ASSUME TypeOK, Rooted(blocks, stubs, lastBlock), NEW b \in Block
    PROVE  Rooted(Kept(b), KeptStubs(b), lastBlock)
<1> DEFINE l == lastBlock
           t == Height[b] - Interval
<1>1. l \in Block /\ l \in blocks /\ Height[l] \in Nat
    BY ChainAssumption DEF Rooted, TypeOK
<1>2. CASE \A a \in Pruned(b) : Height[a] > Height[l]
    <2>1. PICK r \in Block : RootOf(blocks, stubs, l, r)
        BY DEF Rooted
    <2>2. \A a \in Line[l] : a \in Block /\ Height[a] \in Nat /\ Height[a] <= Height[l]
        BY <1>1, LineHeights
    <2>3. \A a \in Line[l] : a \notin Pruned(b)
        BY <1>1, <1>2, <2>2
    <2>4. l \in Kept(b)
        BY <1>1, <1>2 DEF Kept
    <2>5. RootOf(Kept(b), KeptStubs(b), l, r)
        BY <2>1, <2>3 DEF RootOf, Kept, KeptStubs
    <2>6. QED BY <2>4, <2>5 DEF Rooted, Kept, KeptStubs
<1>3. CASE \E a \in Pruned(b) : ~(Height[a] > Height[l])
    <2>1. PICK a \in Pruned(b) : ~(Height[a] > Height[l])
        BY <1>3
    <2>2. /\ a \in Line[b] /\ WalksIn(blocks, b, Height[a]) /\ IsTransition(b)
          /\ Height[a] < t /\ WalksIn(blocks, b, t)
        BY <2>1, PrunedBlocks
    <2>3. /\ a \in Block /\ Height[a] \in Nat /\ Height[b] \in Nat
          /\ Interval \in Nat /\ Interval > 0 /\ Height[a] <= Height[l]
        BY <1>1, <2>1, <2>2, LineHeights
    <2>4. t \in Nat
        BY <2>2, WalkEnd
    <2>5. t <= Height[l]
        <3>1. SUFFICES ASSUME Height[l] + 1 <= t PROVE FALSE
            BY <1>1, <2>4
        <3> DEFINE k == Height[l] + 1
        <3>2. k \in Nat /\ Height[a] < k /\ k < Height[b]
            BY <1>1, <2>3, <3>1
        <3>3. AncestorAt(b, k) \in blocks \ stubs /\ WalksIn(blocks, b, k)
            <4>1. Height[a] <= k /\ k <= Height[b]
                BY <2>3, <3>2
            <4> HIDE DEF k
            <4> QED BY <2>2, <3>2, <4>1, WalkHigher
        <3>4. Height[AncestorAt(b, k)] = k
            <4> HIDE DEF k
            <4> QED BY <3>3, WalkEnd
        <3>5. Height[AncestorAt(b, k)] > Height[l]
            BY <1>1, <3>4
        <3>6. QED BY <3>3, <3>5 DEF Rooted
    <2> HIDE DEF t
    <2>6. \A x \in Pruned(b) : Height[x] < t
        BY PrunedBlocks DEF t
    <2>7. \A x \in Line[l] : x \in Block /\ Height[x] \in Nat /\ Height[x] <= Height[l]
        BY <1>1, LineHeights
    <2>8. l \in Kept(b)
        BY <1>1, <2>4, <2>5, <2>6 DEF Kept
    <2>9. PICK r \in Block : RootOf(blocks, stubs, l, r)
        BY DEF Rooted
    <2>10. r \in Line[l] /\ Height[r] \in Nat
        BY <2>7, <2>9 DEF RootOf
    <2>11. CASE t <= Height[r]
        <3>1. \A x \in Line[l] : Height[r] <= Height[x] => x \notin Pruned(b)
            BY <2>4, <2>6, <2>7, <2>10, <2>11
        <3>2. r \in stubs => r \in KeptStubs(b)
            BY <2>4, <2>6, <2>10, <2>11 DEF KeptStubs
        <3>3. RootOf(Kept(b), KeptStubs(b), l, r)
            BY <2>9, <3>1, <3>2 DEF RootOf, Kept, KeptStubs
        <3>4. QED BY <2>8, <3>3 DEF Rooted, Kept, KeptStubs
    <2>12. CASE Height[r] < t
        <3>1. PICK q \in Line[l] : Height[q] = t
            <4>1. LineOK(l)
                BY <1>1, LineHeights
            <4>2. Height[r] <= t
                BY <2>4, <2>10, <2>12
            <4>3. QED BY <2>4, <2>5, <2>10, <4>1, <4>2 DEF LineOK
        <3>2. IsTransition(q)
            BY <2>2, <2>3, <2>4, <3>1, IntervalBelow DEF IsTransition, t
        <3>3. ASSUME NEW x \in Line[l], t <= Height[x], Height[x] < Height[l]
              PROVE  x \in blocks /\ x \notin Pruned(b) /\ x \notin stubs
            <4>1. Height[r] <= Height[x] /\ Height[x] # Height[r]
                BY <2>4, <2>7, <2>10, <2>12, <3>3
            <4>2. x \notin Pruned(b)
                BY <2>4, <2>6, <2>7, <3>3
            <4>3. QED BY <2>9, <3>3, <4>1, <4>2 DEF RootOf
        <3>4. RootOf(Kept(b), KeptStubs(b), l, q)
            BY <3>1, <3>2, <3>3 DEF RootOf, Kept, KeptStubs
        <3>5. q \in Block
            BY <2>7, <3>1
        <3>6. QED BY <2>8, <3>4, <3>5 DEF Rooted, Kept, KeptStubs
    <2>13. QED BY <2>4, <2>10, <2>11, <2>12
<1>4. QED BY <1>2, <1>3

(* A transition that is valid is rooted in the one before it.              *)
LEMMA TransitionRooted ==
    ASSUME TypeOK, NEW b \in Block, IsTransition(b), Valid(b), NEW S, S \subseteq stubs,
           NEW B, Kept(b) \subseteq B
    PROVE  \E r \in Block : RootOf(B, S, b, r)
<1> DEFINE t == Height[b] - Interval
<1>1. WalksIn(blocks, b, t)
    BY DEF Valid, MissesTransition, Walks
<1>2. /\ Height[b] \in Nat /\ Interval \in Nat /\ Interval > 0 /\ t \in Nat
      /\ \A a \in Line[b] : a \in Block /\ Height[a] \in Nat
    BY <1>1, WalkEnd, LineHeights
<1>3. PICK r \in Line[b] : Height[r] = t
    BY <1>1 DEF WalksIn
<1>4. IsTransition(r)
    BY <1>2, <1>3, IntervalBelow DEF IsTransition
<1>5. ASSUME NEW a \in Line[b], t <= Height[a], Height[a] < Height[b]
      PROVE  a \in B /\ (a \in S => Height[a] = t)
    <2>1. a \in blocks /\ (a \in stubs => Height[a] = t)
        BY <1>1, <1>5 DEF WalksIn
    <2>2. a \notin Pruned(b)
        <3> HIDE DEF t
        <3>1. a \in Pruned(b) => Height[a] < t
            BY PrunedBlocks DEF t
        <3>2. QED BY <1>2, <1>5, <3>1
    <2>3. QED BY <2>1, <2>2 DEF Kept
<1>6. RootOf(B, S, b, r)
    BY <1>3, <1>4, <1>5 DEF RootOf
<1>7. QED BY <1>2, <1>3, <1>6

(* A block that is no transition frees nothing.                            *)
LEMMA NothingPruned ==
    ASSUME TypeOK, NEW b, ~IsTransition(b)
    PROVE  Kept(b) = blocks /\ KeptStubs(b) = stubs
BY DEF Kept, KeptStubs, Pruned, AllOlder

(* A block that is not an old fork is higher than the checkpoints.         *)
LEMMA AboveCheckpoints ==
    ASSUME NEW b \in Block, ~OldFork(b), NEW d \in Checkpoint
    PROVE  Height[d] < Height[b]
<1> DEFINE H == {Height[c] : c \in Checkpoint}
<1>1. H \in SUBSET Nat /\ H # {} /\ Height[b] \in Nat /\ Height[d] \in H
    BY ChainAssumption
<1>2. PICK n \in Nat : \A h \in H : h <= n
    BY HeightsBounded, ChainAssumption
<1>3. ~(Height[b] <= Max(H))
    BY Zenon DEF OldFork
<1> HIDE DEF H
<1>4. Max(H) \in H /\ Height[d] <= Max(H)
    BY <1>1, <1>2, MaxOfNats
<1> DEFINE m == Max(H)
<1>5. m \in Nat /\ Height[d] \in Nat /\ Height[d] <= m /\ ~(Height[b] <= m) /\ Height[b] \in Nat
    BY <1>1, <1>3, <1>4
<1> HIDE DEF m
<1>6. QED BY <1>5

LEMMA ExtensionKeepsRoot ==
    ASSUME TypeOK, Agree, Rooted(blocks, stubs, lastBlock),
           NEW p \in Peer, NEW b \in Block, RelayExtension(p, b)
    PROVE  Rooted(blocks', stubs', lastBlock')
<1> DEFINE l == lastBlock
           B == Kept(b) \cup {b}
           S == KeptStubs(b) \ {b}
<1>1. /\ blocks' = B /\ stubs' = S /\ lastBlock' = b /\ Parent[b] = l /\ l \in blocks
      /\ Valid(b) /\ Agrees(b)
    BY DEF RelayExtension, Verified, Valid, Agrees, Rooted
<1>2. /\ l \in Block /\ Height[l] \in Nat /\ Height[b] = Height[l] + 1 /\ Line[b] = {b} \cup Line[l]
      /\ LineOK(b) /\ LineOK(l)
    <2>1. l \in Block
        BY <1>1 DEF TypeOK
    <2>2. l # NoBlock
        BY <2>1, ChainAssumption
    <2>3. QED BY <1>1, <2>1, <2>2, LineStep, LineHeights, ChainAssumption
<1>3. Rooted(Kept(b), KeptStubs(b), l)
    BY PruningKeepsRoot
<1>4. \E r \in Block : RootOf(B, S, b, r)
    <2>1. CASE IsTransition(b)
        BY <1>1, <2>1, TransitionRooted DEF KeptStubs
    <2>2. CASE ~IsTransition(b)
        <3>1. Kept(b) = blocks /\ KeptStubs(b) = stubs
            BY <2>2, NothingPruned
        <3>2. PICK r \in Block : RootOf(blocks, stubs, l, r) /\ (l \in stubs => r = l)
            BY <1>2, NearestRoot DEF Rooted
        <3>3. \A a \in Line[l] : a \in Block /\ Height[a] \in Nat /\ Height[a] <= Height[l]
            BY <1>2, LineHeights
        <3>4. r \in Line[b] /\ r # b /\ (r \in S \/ IsTransition(r))
            BY <1>2, <3>1, <3>2, <3>3 DEF RootOf
        <3>5. ASSUME NEW a \in Line[b], Height[r] <= Height[a], Height[a] < Height[b]
              PROVE  a \in B /\ (a \in S => Height[a] = Height[r])
            <4>1. a \in Line[l]
                BY <1>2, <3>5
            <4>2. CASE Height[a] < Height[l]
                BY <3>1, <3>2, <3>5, <4>1, <4>2 DEF RootOf
            <4>3. CASE Height[a] = Height[l]
                <5>1. a = l
                    BY <1>2, <4>1, <4>3, OneAtEachHeight DEF LineOK
                <5>2. QED BY <1>1, <3>1, <3>2, <5>1
            <4>4. QED BY <1>2, <3>3, <4>1, <4>2, <4>3
        <3>6. QED BY <3>4, <3>5 DEF RootOf
    <2>3. QED BY <2>1, <2>2
<1>5. ASSUME NEW x \in B, Height[x] > Height[b] PROVE x \in S
    <2>1. x \in Kept(b) /\ x # b /\ x \in Block
        BY <1>2, <1>5 DEF Kept, TypeOK
    <2>2. Height[x] > Height[l]
        BY <1>2, <1>5, <2>1, ChainAssumption
    <2>3. QED BY <1>3, <2>1, <2>2 DEF Rooted
<1>6. ASSUME NEW s \in S, Parent[s] \in B PROVE Parent[s] = b
    <2>1. SUFFICES ASSUME Parent[s] # b PROVE FALSE
        OBVIOUS
    <2>2. Parent[s] = l
        BY <1>3, <1>6, <2>1 DEF Rooted
    <2>3. s \in Checkpoint /\ s \in Block
        BY ChainAssumption DEF Agree, KeptStubs
    <2>4. Height[s] = Height[b]
        BY <1>2, <2>2, <2>3, ChainAssumption
    <2>5. s = b
        BY <1>1, <2>3, <2>4, CheckpointsAgree
    <2>6. QED BY <2>5
<1> HIDE DEF B, S
<1>7. b \in B
    BY DEF B
<1>8. QED BY <1>1, <1>4, <1>5, <1>6, <1>7 DEF Rooted

LEMMA ForkKeepsRoot ==
    ASSUME TypeOK, Agree, Rooted(blocks, stubs, lastBlock),
           NEW p \in Peer, NEW b \in Block, RelayFork(p, b)
    PROVE  Rooted(blocks', stubs', lastBlock')
<1> DEFINE l == lastBlock
           B == Kept(b) \cup {b}
           S == KeptStubs(b)
<1>1. /\ blocks' = B /\ stubs' = S /\ lastBlock' = l /\ Height[b] <= Height[l] /\ ~OldFork(b)
    BY DEF RelayFork, Fork
<1>2. Rooted(Kept(b), S, l)
    BY PruningKeepsRoot
<1>3. l \in Block /\ Height[l] \in Nat /\ Height[b] \in Nat
    BY ChainAssumption DEF Rooted, TypeOK
<1>4. \E r \in Block : RootOf(B, S, l, r)
    BY <1>2 DEF Rooted, RootOf
<1>5. \A x \in B : Height[x] > Height[l] => x \in S
    BY <1>1, <1>2, <1>3 DEF Rooted
<1>6. ASSUME NEW s \in S, Parent[s] \in B PROVE Parent[s] = l
    <2>1. CASE Parent[s] = b
        <3>1. s \in Checkpoint /\ s \in Block
            BY ChainAssumption DEF Agree, KeptStubs
        <3>2. Height[s] = Height[b] + 1
            BY <2>1, <3>1, ChainAssumption
        <3>3. Height[s] < Height[b]
            BY <1>1, <3>1, AboveCheckpoints
        <3>4. QED BY <1>3, <3>2, <3>3
    <2>2. QED BY <1>2, <1>6, <2>1 DEF Rooted
<1>7. l \in B
    BY <1>2 DEF Rooted
<1> HIDE DEF B, S
<1>8. QED BY <1>1, <1>4, <1>5, <1>6, <1>7 DEF Rooted

(* The walks of a reorganisation end: at the height of the first block,    *)
(* at the latest, they have met.                                           *)
LEMMA JoinIsFound ==
    ASSUME TypeOK, NEW b \in Block, lastBlock \in Block
    PROVE  /\ Join(b) \in Nat /\ Join(b) <= Height[lastBlock]
           /\ \/ ~WalksIn(Kept(b), lastBlock, Join(b)) \/ ~WalksIn(Kept(b), b, Join(b))
              \/ AncestorAt(b, Join(b)) = AncestorAt(lastBlock, Join(b))
<1> DEFINE End(h) == \/ ~WalksIn(Kept(b), lastBlock, h) \/ ~WalksIn(Kept(b), b, h)
                     \/ AncestorAt(b, h) = AncestorAt(lastBlock, h)
           H == {h \in 0..Height[lastBlock] : End(h)}
<1>1. Height[lastBlock] \in Nat
    BY ChainAssumption
<1>2. End(0)
    <2>1. SUFFICES ASSUME WalksIn(Kept(b), lastBlock, 0), WalksIn(Kept(b), b, 0)
                   PROVE  AncestorAt(b, 0) = AncestorAt(lastBlock, 0)
        OBVIOUS
    <2> DEFINE x == AncestorAt(b, 0)
               y == AncestorAt(lastBlock, 0)
    <2>2. x \in Line[b] /\ Height[x] = 0 /\ y \in Line[lastBlock] /\ Height[y] = 0
        BY <2>1, WalkEnd
    <2>3. x \in Block /\ y \in Block
        BY <2>2, LineHeights
    <2> HIDE DEF x, y
    <2>4. \A a \in Block : Height[a] = 0 => a \in Checkpoint
        BY ChainAssumption
    <2>5. x = y
        BY <2>2, <2>3, <2>4, CheckpointsAgree
    <2>6. QED BY <2>5 DEF x, y
<1>3. H \in SUBSET Nat /\ H # {} /\ \A h \in H : h <= Height[lastBlock]
    <2> HIDE DEF End
    <2> QED BY <1>1, <1>2
<1>4. Join(b) = Max(H)
    BY DEF Join
<1>5. Join(b) \in H
    <2> HIDE DEF H
    <2> QED BY <1>1, <1>3, <1>4, MaxOfNats
<1>6. QED BY <1>1, <1>5

LEMMA ReorganizeKeepsRoot ==
    ASSUME TypeOK, Agree, Rooted(blocks, stubs, lastBlock),
           NEW p \in Peer, NEW b \in Block, Reorganize(p, b)
    PROVE  Rooted(blocks', stubs', lastBlock')
<1> DEFINE l == lastBlock
           B == Kept(b) \cup {b}
           S == KeptStubs(b)
           j == Join(b)
<1>1. /\ blocks' = B /\ stubs' = S /\ lastBlock' = b /\ Valid(b) /\ ~OldFork(b)
      /\ Height[b] > Height[l] /\ WalksIn(Kept(b), b, j)
    BY DEF Reorganize, Fork, New, Verified
<1>2. Rooted(Kept(b), S, l)
    BY PruningKeepsRoot
<1>3. /\ l \in Block /\ l \in blocks /\ Height[l] \in Nat /\ Height[b] \in Nat
      /\ LineOK(l) /\ LineOK(b)
    BY LineHeights DEF Rooted, TypeOK
<1>4. /\ j \in Nat /\ j <= Height[l]
      /\ ~WalksIn(Kept(b), l, j) \/ AncestorAt(b, j) = AncestorAt(l, j)
    BY <1>1, <1>3, JoinIsFound
<1>5. \A a \in Line[b] : a \in Block /\ Height[a] \in Nat /\ Height[a] <= Height[b]
    BY LineHeights
<1>6. \A a \in Line[l] : a \in Block /\ Height[a] \in Nat /\ Height[a] <= Height[l]
    BY <1>3, LineHeights
<1> HIDE DEF j
<1>7. ASSUME NEW a \in Line[b], j < Height[a], Height[a] < Height[b]
      PROVE  a \in Kept(b) /\ a \notin stubs /\ a \in blocks
    <2>1. j <= Height[a] /\ Height[a] # j
        BY <1>4, <1>5, <1>7
    <2>2. QED BY <1>1, <1>7, <2>1 DEF WalksIn, Kept
(* No checkpoint between the two ends of the walk is a stub.               *)
<1>8. ASSUME NEW c \in Checkpoint, j < Height[c], Height[c] < Height[b]
      PROVE  c \notin stubs
    <2>1. c \in Block /\ Height[c] \in Nat /\ j <= Height[c] /\ Height[c] <= Height[b]
        BY <1>3, <1>4, <1>8, ChainAssumption
    <2>2. WalksIn(Kept(b), b, Height[c])
        BY <1>1, <2>1, WalkHigher
    <2>3. PICK a \in Line[b] : Height[a] = Height[c]
        BY <2>2 DEF WalksIn
    <2>4. a \notin stubs /\ a \in blocks /\ a \in Block
        BY <1>5, <1>7, <1>8, <2>3
    <2>5. a = c
        BY <2>3, <2>4, CheckpointsAgree DEF Agree
    <2>6. QED BY <2>4, <2>5
<1>9. \E r \in Block : RootOf(B, S, b, r)
    <2>1. CASE IsTransition(b)
        BY <1>1, <2>1, TransitionRooted DEF KeptStubs
    <2>2. CASE ~IsTransition(b)
        <3>1. Kept(b) = blocks /\ S = stubs
            BY <2>2, NothingPruned
        <3>2. PICK r \in Block : RootOf(blocks, stubs, l, r) /\ (l \in stubs => r = l)
            BY <1>3, NearestRoot DEF Rooted
        <3>3. r \in Line[l] /\ Height[r] \in Nat /\ Height[r] <= Height[l]
            BY <1>6, <3>2 DEF RootOf
        <3>4. CASE Height[r] <= j
            <4>1. WalksIn(blocks, l, Height[r])
                BY <3>2, <3>3 DEF RootOf, WalksIn
            <4>2. WalksIn(blocks, l, j)
                BY <1>3, <1>4, <3>4, <4>1, WalkHigher
            <4> DEFINE m == AncestorAt(b, j)
            <4>3. m \in Line[b] /\ m \in Line[l] /\ Height[m] = j
                BY <1>1, <1>3, <1>4, <3>1, <4>2, WalkEnd
            <4> HIDE DEF m
            <4>4. r \in Line[m] /\ Line[m] \subseteq Line[b] /\ Line[m] \subseteq Line[l]
                BY <1>3, <3>3, <3>4, <4>3 DEF LineOK
            <4>5. ASSUME NEW a \in Line[b], Height[r] <= Height[a], Height[a] < Height[b]
                  PROVE  a \in blocks /\ (a \in stubs => Height[a] = Height[r])
                <5>1. CASE j < Height[a]
                    BY <1>7, <4>5, <5>1
                <5>2. CASE Height[a] <= j
                    <6>1. a \in Line[m]
                        BY <1>3, <4>3, <5>2 DEF LineOK
                    <6>2. a \in Line[l]
                        BY <4>4, <6>1
                    <6>3. CASE Height[a] < Height[l]
                        BY <3>2, <4>5, <6>2, <6>3 DEF RootOf
                    <6>4. CASE Height[a] = Height[l]
                        <7>1. a = l
                            BY <1>3, <6>2, <6>4, OneAtEachHeight DEF LineOK
                        <7>2. QED BY <1>3, <3>2, <7>1
                    <6>5. QED BY <1>3, <1>6, <6>2, <6>3, <6>4
                <5>3. QED BY <1>4, <1>5, <4>5, <5>1, <5>2
            <4>6. RootOf(B, S, b, r)
                BY <3>1, <3>2, <4>4, <4>5 DEF RootOf
            <4>7. QED BY <4>6
        <3>5. CASE j < Height[r]
            <4>1. WalksIn(Kept(b), b, Height[r])
                BY <1>1, <1>3, <1>4, <3>3, <3>5, WalkHigher
            <4>2. PICK q \in Line[b] : Height[q] = Height[r]
                BY <4>1 DEF WalksIn
            <4>3. IsTransition(r)
                <5>1. r \in stubs => r \in Checkpoint
                    BY DEF Agree
                <5>2. Height[r] < Height[b]
                    BY <1>1, <1>3, <3>3
                <5>3. r \notin stubs
                    BY <1>8, <3>5, <5>1, <5>2
                <5>4. QED BY <3>2, <5>3 DEF RootOf
            <4>4. IsTransition(q)
                BY <4>2, <4>3 DEF IsTransition
            <4>5. ASSUME NEW a \in Line[b], Height[q] <= Height[a], Height[a] < Height[b]
                  PROVE  a \in blocks /\ a \notin stubs
                <5>1. j < Height[a]
                    BY <1>4, <1>5, <3>3, <3>5, <4>2, <4>5
                <5>2. QED BY <1>7, <4>5, <5>1
            <4>6. RootOf(B, S, b, q)
                BY <3>1, <4>2, <4>4, <4>5 DEF RootOf
            <4>7. QED BY <1>5, <4>2, <4>6
        <3>6. QED BY <1>4, <3>3, <3>4, <3>5
    <2>3. QED BY <2>1, <2>2
<1>10. ASSUME NEW x \in B, Height[x] > Height[b] PROVE x \in S
    <2>1. x \in Kept(b) /\ x \in Block
        BY <1>3, <1>10 DEF Kept, TypeOK
    <2>2. Height[x] > Height[l]
        BY <1>1, <1>3, <1>10, <2>1, ChainAssumption
    <2>3. QED BY <1>2, <2>1, <2>2 DEF Rooted
<1>11. ASSUME NEW s \in S, Parent[s] \in B PROVE Parent[s] = b
    <2>1. SUFFICES ASSUME Parent[s] # b PROVE FALSE
        OBVIOUS
    <2>2. Parent[s] = l
        BY <1>2, <1>11, <2>1 DEF Rooted
    <2>3. s \in Checkpoint /\ s \in Block /\ s \in stubs
        BY ChainAssumption DEF Agree, KeptStubs
    <2>4. Height[s] = Height[l] + 1
        BY <1>3, <2>2, <2>3, ChainAssumption
    <2>5. Height[s] < Height[b]
        BY <1>1, <2>3, AboveCheckpoints
    <2>6. j < Height[s]
        BY <1>3, <1>4, <2>4
    <2>7. QED BY <1>8, <2>3, <2>5, <2>6
<1> HIDE DEF B, S
<1>12. b \in B
    BY DEF B
<1>13. QED BY <1>1, <1>9, <1>10, <1>11, <1>12 DEF Rooted

LEMMA CheckpointsRooted ==
    ASSUME NEW c \in Checkpoint
    PROVE  Rooted(Checkpoint, Checkpoint, c)
<1>1. c \in Block /\ c \in Line[c]
    BY ChainAssumption, Lines DEF LineOK
<1>2. \A a \in Line[c] : ~(Height[c] <= Height[a] /\ Height[a] < Height[c])
    BY <1>1, LineHeights
<1>3. RootOf(Checkpoint, Checkpoint, c, c)
    BY <1>1, <1>2 DEF RootOf
<1>4. QED BY <1>1, <1>3, CheckpointsAgree, CheckpointAssumption DEF Rooted

(* What is restored goes all the way down to its top.                      *)
LEMMA RestoredLine ==
    ASSUME TypeOK, NEW loaded \in SUBSET rows, NEW top \in rows,
           NEW a \in Restored(loaded, top), NEW x \in Line[a], Height[top] <= Height[x]
    PROVE  x \in Restored(loaded, top)
<1>1. /\ a \in Block /\ top \in Block /\ top \in Line[a]
      /\ \A y \in Line[a] : Height[y] > Height[top] => y \in loaded
    BY DEF Restored, TypeOK
<1>2. LineOK(a) /\ \A y \in Line[a] : y \in Block /\ Height[y] \in Nat
    BY <1>1, LineHeights
<1>3. top \in Line[x] /\ Line[x] \subseteq Line[a]
    BY <1>1, <1>2 DEF LineOK
<1>4. x \in loaded \cup {top}
    <2>1. CASE Height[x] > Height[top]
        BY <1>1, <2>1
    <2>2. CASE Height[x] = Height[top]
        BY <1>1, <2>2, OneAtEachHeight
    <2>3. QED BY <1>1, <1>2, <2>1, <2>2
<1>5. QED BY <1>1, <1>3, <1>4 DEF Restored

(* And since no two of the loaded blocks have the same parent, it is one   *)
(* line.                                                                   *)
LEMMA RestoredAtEachHeight ==
    ASSUME TypeOK, NEW loaded \in SUBSET rows, NEW top \in rows,
           \A o, r \in loaded : Parent[o] = Parent[r] => o = r,
           NEW a \in Restored(loaded, top), NEW c \in Restored(loaded, top),
           Height[a] = Height[c]
    PROVE  a = c
<1> DEFINE chain == Restored(loaded, top)
           S == {x \in Block : \A y \in chain : x \in chain /\ Height[x] = Height[y] => x = y}
<1>1. ASSUME NEW x \in Block, Parent[x] \in Block => Parent[x] \in S PROVE x \in S
    <2>1. SUFFICES ASSUME NEW y \in chain, x \in chain, Height[x] = Height[y] PROVE x = y
        OBVIOUS
    <2>2. ASSUME NEW z \in chain
          PROVE  /\ z \in Block /\ top \in Line[z] /\ Height[z] \in Nat /\ Height[top] \in Nat
                 /\ LineOK(z) /\ z \in Line[z]
                 /\ Height[z] > Height[top] => z \in loaded
                 /\ Height[z] = Height[top] => z = top
                 /\ Height[top] <= Height[z]
        <3>1. z \in Block /\ top \in Line[z]
            BY <2>2 DEF Restored, TypeOK
        <3>2. LineOK(z) /\ z \in Line[z]
            BY <3>1, Lines DEF LineOK
        <3>3. Height[z] > Height[top] => z \in loaded
            BY <2>2, <3>2 DEF Restored
        <3>4. Height[z] = Height[top] => z = top
            BY <3>1, <3>2, OneAtEachHeight
        <3>5. QED BY <3>1, <3>2, <3>3, <3>4, LineHeights
    <2>3. CASE Height[x] = Height[top]
        BY <2>1, <2>2, <2>3
    <2>4. CASE Height[x] > Height[top]
        <3>1. ASSUME NEW z \in chain, Height[z] > Height[top]
              PROVE  /\ Parent[z] \in Block /\ Parent[z] \in chain /\ z \in loaded
                     /\ Height[z] = Height[Parent[z]] + 1 /\ Height[Parent[z]] \in Nat
            <4>1. Parent[z] \in Block /\ top \in Line[Parent[z]] /\ z \in loaded
                <5>1. top # z
                    BY <2>2, <3>1
                <5>2. QED BY <2>2, <3>1, <5>1 DEF LineOK
            <4>2. Parent[z] \in Line[z]
                <5>1. Parent[z] # NoBlock /\ Parent[z] \in Line[Parent[z]]
                    BY <4>1, Lines, ChainAssumption DEF LineOK
                <5>2. QED BY <2>2, <4>1, <5>1, LineStep
            <4>3. Height[top] <= Height[Parent[z]]
                BY <4>1, LineHeights
            <4>4. Parent[z] \in chain
                BY <3>1, <4>2, <4>3, RestoredLine
            <4>5. QED BY <2>2, <4>1, <4>4, ChainAssumption
        <3>2. Height[y] > Height[top]
            BY <2>1, <2>4
        <3>3. Height[Parent[x]] = Height[Parent[y]]
            <4> DEFINE px == Parent[x]
                       py == Parent[y]
            <4>1. /\ Height[x] = Height[px] + 1 /\ Height[y] = Height[py] + 1
                  /\ Height[px] \in Nat /\ Height[py] \in Nat
                BY <2>1, <2>4, <3>1, <3>2
            <4> HIDE DEF px, py
            <4>2. Height[x] = Height[y]
                BY <2>1
            <4>3. Height[px] = Height[py]
                BY ONLY <4>1, <4>2
            <4>4. QED BY <4>3 DEF px, py
        <3>4. Parent[x] = Parent[y]
            BY <1>1, <2>1, <2>4, <3>1, <3>2, <3>3
        <3>5. QED BY <2>1, <2>4, <3>1, <3>2, <3>4
    <2>5. QED BY <2>1, <2>2, <2>3, <2>4
<1>2. Block \subseteq S
    <2> HIDE DEF S
    <2> QED BY <1>1, HeightInduction
<1>3. a \in Block
    BY DEF Restored, TypeOK
<1>4. QED BY <1>2, <1>3

LEMMA RestoredKeepsRoot ==
    ASSUME TypeOK, Agree, NEW loaded \in SUBSET rows,
           \A o, r \in loaded : Parent[o] = Parent[r] => o = r,
           NEW top \in rows, IsTransition(top),
           NEW last \in Restored(loaded, top),
           \A x \in Restored(loaded, top) : Height[x] <= Height[last]
    PROVE  Rooted(Checkpoint \cup Restored(loaded, top), Checkpoint \ Restored(loaded, top), last)
<1> DEFINE chain == Restored(loaded, top)
           B == Checkpoint \cup chain
           S == Checkpoint \ chain
<1>1. /\ chain \subseteq Block /\ last \in chain /\ top \in chain /\ top \in Line[last]
      /\ \A x \in chain : Height[x] <= Height[last]
      /\ \A x \in chain : Agrees(x)
    <2>1. chain \subseteq rows /\ top \in chain
        BY RestoredBlocks
    <2>2. QED BY <2>1 DEF TypeOK, Agree, Restored
<1>2. /\ last \in Block /\ top \in Block /\ LineOK(last) /\ Height[last] \in Nat
      /\ \A x \in Line[last] : x \in Block /\ Height[x] \in Nat
    BY <1>1, LineHeights
<1>3. \A x \in Line[last] : Height[top] <= Height[x] => x \in chain
    BY RestoredLine
<1>4. \A x, y \in chain : Height[x] = Height[y] => x = y
    BY RestoredAtEachHeight
<1> HIDE DEF chain
<1>5. RootOf(B, S, last, top)
    BY <1>1, <1>3 DEF RootOf
<1>6. ASSUME NEW b \in B, Height[b] > Height[last] PROVE b \in S
    <2>1. b \notin chain
        BY <1>1, <1>2, <1>6, ChainAssumption
    <2>2. QED BY <2>1
<1>7. ASSUME NEW s \in S, Parent[s] \in B PROVE Parent[s] = last
    <2> DEFINE q == Parent[s]
    <2>1. q \in chain /\ q \in Block /\ s \in Checkpoint /\ s \in Block
        BY <1>1, <1>7, CheckpointAssumption, ChainAssumption
    <2>2. Height[s] = Height[q] + 1 /\ Height[q] \in Nat
        BY <2>1, ChainAssumption
    <2> HIDE DEF q
    <2>3. SUFFICES ASSUME Height[q] < Height[last] PROVE FALSE
        <3>1. Height[q] <= Height[last]
            BY <1>1, <2>1
        <3>2. Height[q] = Height[last] => q = last
            BY <1>1, <1>4, <2>1
        <3>3. q = last
            BY <1>2, <2>2, <2>3, <3>1, <3>2
        <3>4. QED BY <3>3 DEF q
    <2>4. Height[top] <= Height[q]
        <3>1. top \in Line[q]
            BY <2>1 DEF chain, Restored
        <3>2. QED BY <2>1, <3>1, LineHeights
    <2>5. /\ Height[top] <= Height[s] /\ Height[s] <= Height[last] /\ Height[s] \in Nat
        BY <1>2, <2>2, <2>3, <2>4, ChainAssumption
    <2>6. PICK x \in Line[last] : Height[x] = Height[s]
        BY <1>1, <1>2, <2>5 DEF LineOK
    <2>7. x \in chain
        BY <1>3, <2>5, <2>6
    <2>8. x = s
        BY <1>1, <2>1, <2>6, <2>7, CheckpointsAgree
    <2>9. QED BY <1>7, <2>7, <2>8
<1>8. QED BY <1>1, <1>2, <1>5, <1>6, <1>7 DEF Rooted, chain

LEMMA NewKeepsRoot ==
    ASSUME TypeOK, Agree, NEW loaded \in SUBSET rows,
           \A o, r \in loaded : Parent[o] = Parent[r] => o = r, New_(loaded)
    PROVE  Rooted(blocks', stubs', lastBlock')
<1>1. CASE LastTransitions # {}
    <2>1. PICK top \in LastTransitions :
              LET chain == Restored(loaded, top) IN
              /\ blocks' = Checkpoint \cup chain
              /\ stubs' = Checkpoint \ chain
              /\ lastBlock' = CHOOSE a \in chain : \A x \in chain : Height[x] <= Height[a]
        BY <1>1 DEF New_
    <2>2. top \in rows /\ IsTransition(top)
        BY DEF LastTransitions
    <2>3. /\ lastBlock' \in Restored(loaded, top)
          /\ \A x \in Restored(loaded, top) : Height[x] <= Height[lastBlock']
        BY <2>1, <2>2, RestoredBlocks
    <2>4. PICK last \in Restored(loaded, top) : last = lastBlock'
        BY <2>3
    <2>5. Rooted(Checkpoint \cup Restored(loaded, top), Checkpoint \ Restored(loaded, top), last)
        BY <2>2, <2>3, <2>4, RestoredKeepsRoot
    <2>6. QED BY <2>1, <2>4, <2>5
<1>2. CASE LastTransitions = {}
    BY <1>2, CheckpointsRooted DEF New_, TypeOK
<1>3. QED BY <1>1, <1>2

LEMMA RelayedKeepsRoot ==
    ASSUME TypeOK, Agree, Rooted(blocks, stubs, lastBlock),
           NEW p \in Peer, NEW b \in Block, Relayed(p, b)
    PROVE  Rooted(blocks', stubs', lastBlock')
<1>1. Rooted(Kept(b), KeptStubs(b), lastBlock)
    BY PruningKeepsRoot
<1>2. CASE RelayOrphan(p, b)
    BY <1>2 DEF RelayOrphan
<1>3. CASE RelayInvalid(p, b) \/ RelayDuringRescan(p, b) \/ RelayOldFork(p, b)
    BY <1>1, <1>3 DEF RelayInvalid, RelayDuringRescan, RelayOldFork
<1>4. CASE RelayExisting(p, b)
    <2>1. /\ blocks' = Kept(b) /\ stubs' = KeptStubs(b) \ {b} /\ lastBlock' = lastBlock
          /\ Parent[b] \in blocks /\ Parent[b] # lastBlock
        BY <1>4 DEF RelayExisting, Verified
    <2>2. b \notin stubs
        BY <2>1 DEF Rooted
    <2>3. stubs' = KeptStubs(b)
        BY <2>1, <2>2 DEF KeptStubs
    <2>4. QED BY <1>1, <2>1, <2>3
<1>5. QED BY <1>2, <1>3, <1>4, ExtensionKeepsRoot, ForkKeepsRoot, ReorganizeKeepsRoot DEF Relayed

LEMMA RootedStep ==
    ASSUME TypeOK, TypeOK', Agree, RootedInv, [Next]_vars
    PROVE  RootedInv'
<1>1. SUFFICES ASSUME rescans' = 0 PROVE Rooted(blocks', stubs', lastBlock')
    BY DEF RootedInv, Rooted, RootOf, IsTransition
<1>2. ASSUME NEW p \in Peer, NEW b \in Block, Relay(p, b)
      PROVE  Rooted(blocks', stubs', lastBlock')
    BY <1>1, <1>2, RelayedKeepsRoot DEF Relay, RootedInv
<1>3. ASSUME NEW p \in Peer, Adopt(p) PROVE Rooted(blocks', stubs', lastBlock')
    <2>1. todo[p].next \in Block
        BY <1>3 DEF Adopt, TypeOK
    <2>2. QED BY <1>1, <1>3, <2>1, RelayedKeepsRoot DEF Adopt, RootedInv
<1>4. ASSUME NEW p \in Peer, Save(p) \/ SelectDownloadPeer(p)
      PROVE  Rooted(blocks', stubs', lastBlock')
    BY <1>1, <1>4 DEF Save, SelectDownloadPeer, chainVars, RootedInv
<1>5. CASE Write
    BY <1>1, <1>5 DEF Write, chainVars, RootedInv
<1>6. CASE Rescan
    BY <1>1, <1>6 DEF Rescan, TypeOK
<1>7. CASE Restart
    <2>1. PICK loaded \in SUBSET rows :
              (\A o, r \in loaded : Parent[o] = Parent[r] => o = r) /\ New_(loaded)
        BY <1>7 DEF Restart
    <2>2. QED BY <2>1, NewKeepsRoot
<1>8. CASE UNCHANGED vars
    BY <1>1, <1>8 DEF vars, chainVars, RootedInv
<1>9. QED BY <1>2, <1>3, <1>4, <1>5, <1>6, <1>7, <1>8 DEF Next

(* Unless the app scans again, lastBlock is kept, and so are its ancestors *)
(* down to a stub or a transition: freeing old blocks, forks, orphans,     *)
(* reorganisations and restarts leave what the next transition, a          *)
(* reorganisation and the locators walk along.                             *)
THEOREM ChainRooted == Spec => []LastBlockRooted
<1>1. Init => Agree /\ RootedInv
    <2>1. SUFFICES ASSUME Init PROVE Agree /\ RootedInv
        OBVIOUS
    <2>2. /\ blocks = Checkpoint /\ stubs = Checkpoint /\ start \in Checkpoint
          /\ lastBlock = start /\ queue = <<>> /\ rows = {} /\ todo = [p \in Peer |-> Idle]
        BY <2>1 DEF Init
    <2>3. \A p \in Peer : todo[p].save = {}
        BY <2>2 DEF Idle
    <2>4. queue \in Seq(AgreeingOps)
        BY <2>2
    <2>5. Agree
        BY <2>2, <2>3, <2>4, CheckpointsAgree DEF Agree
    <2>6. RootedInv
        BY <2>2, CheckpointsRooted DEF RootedInv
    <2>7. QED BY <2>5, <2>6
<1>2. TypeOK /\ TypeOK' /\ Agree /\ RootedInv /\ [Next]_vars => Agree' /\ RootedInv'
    BY AgreeInvariant, RootedStep
<1>3. TypeOK /\ RootedInv => LastBlockRooted
    <2>1. SUFFICES ASSUME TypeOK, RootedInv, rescans = 0
                   PROVE  /\ lastBlock \in blocks
                          /\ \E r \in Line[lastBlock] : /\ r \in stubs \/ IsTransition(r)
                                                        /\ Walks(lastBlock, Height[r])
        BY DEF LastBlockRooted
    <2>2. lastBlock \in blocks
        BY <2>1 DEF RootedInv, Rooted
    <2>3. PICK r \in Block : RootOf(blocks, stubs, lastBlock, r)
        BY <2>1 DEF RootedInv, Rooted
    <2>4. Walks(lastBlock, Height[r])
        BY <2>3 DEF RootOf, Walks, WalksIn
    <2>5. QED BY <2>2, <2>3, <2>4 DEF RootOf
<1>4. QED BY <1>1, <1>2, <1>3, TypeInvariant, PTL DEF Spec

-----------------------------------------------------------------------------
(* Reorganisations *)

(* There is one first block, on every line: it is a checkpoint.            *)
LEMMA FirstBlock ==
    ASSUME NEW b \in Block, NEW c \in Block
    PROVE  \E a \in Line[b] : a \in Line[c] /\ Height[a] <= Height[c]
<1> DEFINE S == {x \in Block : \E a \in Line[x] : a \in Checkpoint /\ Line[a] = {a}}
<1>1. ASSUME NEW x \in Block, Parent[x] \in Block => Parent[x] \in S PROVE x \in S
    <2>1. CASE Parent[x] \in Block
        <3>1. PICK a \in Line[Parent[x]] : a \in Checkpoint /\ Line[a] = {a}
            BY <1>1, <2>1
        <3>2. Parent[x] # NoBlock
            BY <2>1, ChainAssumption
        <3>3. a \in Line[x]
            BY <3>1, <3>2, LineStep
        <3>4. QED BY <3>1, <3>3
    <2>2. CASE Parent[x] = NoBlock
        <3>1. Line[x] = {x} /\ x \in Checkpoint
            BY <2>2, LineStep, ChainAssumption
        <3>2. QED BY <3>1
    <2>3. QED BY <2>1, <2>2, ChainAssumption
<1>2. Block \subseteq S
    <2> HIDE DEF S
    <2> QED BY <1>1, HeightInduction
<1>3. PICK a \in Line[b] : a \in Checkpoint /\ Line[a] = {a}
    BY <1>2
<1>4. PICK d \in Line[c] : d \in Checkpoint /\ Line[d] = {d}
    BY <1>2
<1>5. a = d
    BY <1>3, <1>4, CheckpointAssumption
<1>6. QED BY <1>3, <1>4, <1>5, LineHeights

(* Where the walks meet, and below, the lines are the same.                *)
LEMMA SameBelowJoin ==
    ASSUME TypeOK, NEW b \in Block, lastBlock \in Block, Joined(b, Join(b)),
           NEW k \in Nat, Height[start] < k, k <= Join(b)
    PROVE  AncestorAt(b, k) = AncestorAt(lastBlock, k) /\ AncestorAt(b, k) \in Line[b]
<1> DEFINE l == lastBlock
           j == Join(b)
           m == AncestorAt(b, j)
<1>1. WalksIn(Kept(b), b, j) /\ WalksIn(Kept(b), l, j)
    BY DEF Joined
<1>2. j \in Nat /\ j <= Height[l] /\ m = AncestorAt(l, j)
    BY <1>1, JoinIsFound
<1>3. m \in Line[b] /\ m \in Line[l] /\ Height[m] = j /\ m \in Block
    <2>1. m \in Line[b] /\ Height[m] = j
        BY <1>1, WalkEnd
    <2>2. m \in Line[l]
        BY <1>1, <1>2, WalkEnd
    <2>3. QED BY <2>1, <2>2, LineHeights
<1> HIDE DEF m, j
<1>4. start \in Block /\ Height[start] \in Nat
    BY ChainAssumption DEF TypeOK
<1>5. PICK a \in Line[m] : a \in Line[start] /\ Height[a] <= Height[start]
    BY <1>3, <1>4, FirstBlock
<1>6. LineOK(m) /\ LineOK(b) /\ LineOK(l) /\ Height[a] \in Nat
    BY <1>3, <1>5, LineHeights
<1>7. Height[a] <= k /\ k <= Height[m]
    BY <1>3, <1>4, <1>5, <1>6 DEF j
<1>8. PICK x \in Line[m] : Height[x] = k
    BY <1>5, <1>6, <1>7 DEF LineOK
<1>9. x \in Line[b] /\ x \in Line[l]
    BY <1>3, <1>6, <1>8 DEF LineOK
<1>10. AncestorAt(b, k) = x /\ AncestorAt(l, k) = x
    BY <1>8, <1>9, Ancestors
<1>11. QED BY <1>9, <1>10

LEMMA NewHeightsMined ==
    ASSUME TypeOK, NEW b \in Block, lastBlock \in Block, Joined(b, Join(b)), NEW t \in Tx,
           HeightIsMined(t, height[t], lastBlock)
    PROVE  HeightIsMined(t, NewHeights(b, Join(b))[t], b)
<1> DEFINE j == Join(b)
           found == {a \in MinedIn[t] \cap Line[b] : Height[a] > j}
           h == NewHeights(b, j)[t]
<1>1. j \in Nat /\ j <= Height[lastBlock] /\ height[t] \in Nat /\ Height[b] \in Nat
    BY JoinIsFound, ChainAssumption DEF TypeOK
<1>2. h = IF found # {} THEN Min({Height[a] : a \in found})
          ELSE IF t \in Unconfirming(j) THEN Unconfirmed ELSE height[t]
    BY DEF NewHeights
<1>3. CASE found # {}
    <2> DEFINE S == {Height[a] : a \in found}
    <2>1. S \in SUBSET Nat /\ S # {}
        BY <1>3, LineHeights
    <2>2. Min(S) \in S
        <3> HIDE DEF S
        <3> QED BY <2>1, MinOfNats
    <2>3. h \in S
        BY <1>2, <1>3, <2>2
    <2>4. PICK a \in found : h = Height[a]
        BY <2>3
    <2>5. AncestorAt(b, h) = a
        BY <2>4, Ancestors
    <2>6. QED BY <2>4, <2>5 DEF HeightIsMined
<1>4. CASE found = {} /\ t \in Unconfirming(j)
    <2>1. h = Unconfirmed /\ Height[b] < Unconfirmed /\ Unconfirmed \in Nat
        BY <1>2, <1>4, ChainAssumption
    <2>2. QED BY <1>1, <2>1 DEF HeightIsMined
<1>5. CASE found = {} /\ t \notin Unconfirming(j)
    <2>1. h = height[t] /\ ~(height[t] > j)
        BY <1>2, <1>5 DEF Unconfirming
    <2>2. SUFFICES ASSUME Height[start] < height[t]
                   PROVE  AncestorAt(b, height[t]) \in MinedIn[t]
        BY <2>1 DEF HeightIsMined
    <2> HIDE DEF j
    <2>3. height[t] <= j /\ height[t] <= Height[lastBlock]
        <3>1. Height[lastBlock] \in Nat
            BY ChainAssumption
        <3>2. QED BY <1>1, <2>1, <3>1
    <2>4. AncestorAt(b, height[t]) = AncestorAt(lastBlock, height[t])
        BY <1>1, <2>2, <2>3, SameBelowJoin DEF j
    <2>5. QED BY <2>2, <2>3, <2>4 DEF HeightIsMined
<1>6. QED BY <1>3, <1>4, <1>5 DEF j

(* A reorganisation whose walks meet leaves no transaction confirmed in a  *)
(* block of the branch it left; every other step stays on a line, goes     *)
(* back to the start, or is a restart.                                     *)
THEOREM ReorganisationUnconfirms == Spec => ReorgUnconfirms
<1> DEFINE Step ==
        /\ lastBlock \in blocks /\ lastBlock' \in blocks' /\ restarts' = restarts
        /\ lastBlock \notin Line[lastBlock'] /\ lastBlock' \notin Line[lastBlock]
        /\ Joined(lastBlock', Join(lastBlock'))
        => \A t \in Tx : HeightIsMined(t, height[t], lastBlock) =>
                         HeightIsMined(t, height'[t], lastBlock')
<1>1. TypeOK /\ TypeOK' /\ [Next]_vars => Step
    <2>1. SUFFICES ASSUME TypeOK, TypeOK', [Next]_vars, lastBlock \in blocks,
                          lastBlock' \in blocks', restarts' = restarts,
                          lastBlock \notin Line[lastBlock'], lastBlock' \notin Line[lastBlock],
                          Joined(lastBlock', Join(lastBlock')),
                          NEW t \in Tx, HeightIsMined(t, height[t], lastBlock)
                   PROVE  HeightIsMined(t, height'[t], lastBlock')
        OBVIOUS
    <2>2. lastBlock \in Block /\ lastBlock' \in Block
        BY <2>1 DEF TypeOK
    <2>3. lastBlock' # lastBlock
        BY <2>1, <2>2, Lines DEF LineOK
    <2>4. ASSUME NEW p \in Peer, NEW b \in Block, Relayed(p, b)
          PROVE  HeightIsMined(t, height'[t], lastBlock')
        <3>1. CASE RelayExtension(p, b)
            <4>1. lastBlock' = b /\ Parent[b] = lastBlock /\ lastBlock # NoBlock
                BY <2>2, <3>1, ChainAssumption DEF RelayExtension
            <4>2. lastBlock \in Line[lastBlock']
                BY <2>2, <4>1, LineStep, Lines DEF LineOK
            <4>3. QED BY <2>1, <4>2
        <3>2. CASE Reorganize(p, b)
            <4>1. lastBlock' = b /\ height' = NewHeights(b, Join(b))
                BY <3>2 DEF Reorganize
            <4>2. QED BY <2>1, <2>2, <4>1, NewHeightsMined
        <3>3. QED
            BY <2>3, <2>4, <3>1, <3>2 DEF Relayed, RelayOrphan, RelayInvalid, RelayExisting,
               RelayDuringRescan, RelayOldFork, RelayFork
    <2>5. ASSUME NEW p \in Peer, NEW b \in Block, Relay(p, b)
          PROVE  HeightIsMined(t, height'[t], lastBlock')
        BY <2>4, <2>5 DEF Relay
    <2>6. ASSUME NEW p \in Peer, Adopt(p) PROVE HeightIsMined(t, height'[t], lastBlock')
        <3>1. todo[p].next \in Block
            BY <2>1, <2>6 DEF Adopt, TypeOK
        <3>2. QED BY <2>4, <2>6, <3>1 DEF Adopt
    <2>7. CASE Rescan
        <3>1. lastBlock' = start /\ height' = height
            BY <2>1, <2>2, <2>7, ChainAssumption DEF Rescan
        <3>2. Height[start] \in Nat /\ height[t] \in Nat
            BY <2>1, ChainAssumption DEF TypeOK
        <3>3. QED BY <3>1, <3>2 DEF HeightIsMined
    <2>8. CASE Restart
        BY <2>1, <2>8 DEF Restart, TypeOK
    <2>9. QED
        BY <2>1, <2>3, <2>5, <2>6, <2>7, <2>8 DEF Next, Save, SelectDownloadPeer, Write, vars,
           chainVars
<1>2. TypeOK /\ TypeOK' /\ [Next]_vars => [Step]_vars
    BY <1>1
<1> HIDE DEF Step
<1>3. Spec => [][Step]_vars
    BY <1>1, TypeInvariant, PTL DEF Spec
<1>4. QED BY <1>3 DEF Step, ReorgUnconfirms

(* No block that differs from a checkpoint is kept or saved, nor is one    *)
(* restored: rows and waiting writes hold none either.                     *)
THEOREM CheckpointsHold == Spec => [](\A b \in blocks \cup rows : Agrees(b))
<1>1. Init => Agree
    <2>1. SUFFICES ASSUME Init PROVE Agree
        OBVIOUS
    <2>2. /\ blocks = Checkpoint /\ stubs = Checkpoint
          /\ queue = <<>> /\ rows = {} /\ todo = [p \in Peer |-> Idle]
        BY <2>1 DEF Init
    <2>3. queue \in Seq(AgreeingOps) /\ \A p \in Peer : todo[p].save = {}
        BY <2>2 DEF Idle
    <2>4. QED BY <2>2, <2>3, CheckpointsAgree DEF Agree
<1>2. TypeOK /\ TypeOK' /\ Agree /\ [Next]_vars => Agree'
    BY AgreeInvariant
<1>3. Agree => \A b \in blocks \cup rows : Agrees(b)
    BY DEF Agree
<1>4. QED BY <1>1, <1>2, <1>3, TypeInvariant, PTL DEF Spec

-----------------------------------------------------------------------------
(* The hash table: manager->blocks and manager->orphans are sets of BRSet, *)
(* which keep what is put into them.                                       *)

(* A loop's table after k turns is what the k-th makes of the one before:  *)
(* the recursion has a solution.                                           *)
IsLoop(f, turn, s, S) == \A n \in S : f[n] = IF n = 0 THEN s ELSE turn[n][f[n - 1]]

LEMMA LoopStep ==
    ASSUME NEW turn, NEW s
    PROVE  /\ Loop(turn, s)[0] = s
           /\ \A n \in Nat : Loop(turn, s)[n + 1] = turn[n + 1][Loop(turn, s)[n]]
<1> DEFINE Defined == {n \in Nat : \E f : IsLoop(f, turn, s, 0..n)}
           P(n) == CHOOSE f : IsLoop(f, turn, s, 0..n)
           g == [n \in Nat |-> P(n)[n]]
<1>1. 0 \in Defined
    <2>1. IsLoop([n \in {0} |-> s], turn, s, 0..0)
        BY DEF IsLoop
    <2>2. QED BY <2>1
<1>2. ASSUME NEW n \in Nat, n \in Defined PROVE n + 1 \in Defined
    <2>1. PICK f : IsLoop(f, turn, s, 0..n)
        BY <1>2
    <2> DEFINE h == [m \in 0..(n + 1) |-> IF m = n + 1 THEN turn[m][f[n]] ELSE f[m]]
    <2>2. ASSUME NEW m \in 0..(n + 1)
          PROVE  h[m] = IF m = 0 THEN s ELSE turn[m][h[m - 1]]
        <3>1. CASE m = n + 1
            <4>1. h[m] = turn[m][f[n]] /\ h[m - 1] = f[n] /\ m # 0
                BY <3>1
            <4>2. QED BY <3>1, <4>1
        <3>2. CASE m \in 0..n
            <4>1. h[m] = f[m] /\ (m # 0 => h[m - 1] = f[m - 1])
                BY <3>2
            <4>2. f[m] = IF m = 0 THEN s ELSE turn[m][f[m - 1]]
                BY <2>1, <3>2 DEF IsLoop
            <4> HIDE DEF h
            <4>3. QED BY <4>1, <4>2
        <3>3. QED BY <3>1, <3>2
    <2> HIDE DEF h
    <2>3. IsLoop(h, turn, s, 0..(n + 1))
        BY <2>2 DEF IsLoop
    <2>4. QED BY <2>3
<1>3. ASSUME NEW n \in Nat PROVE IsLoop(P(n), turn, s, 0..n)
    <2>1. n \in Defined
        <3> HIDE DEF Defined
        <3> QED BY <1>1, <1>2, NatSetInduction
    <2>2. QED BY <2>1
<1>4. ASSUME NEW n \in Nat, n # 0 PROVE P(n)[n - 1] = P(n - 1)[n - 1]
    <2> DEFINE f == P(n)
               h == P(n - 1)
               Same == {m \in Nat : m <= n - 1 => f[m] = h[m]}
    <2>1. IsLoop(f, turn, s, 0..n) /\ IsLoop(h, turn, s, 0..(n - 1))
        BY <1>3, <1>4
    <2> HIDE DEF f, h
    <2>2. 0 \in Same
        BY <2>1, <1>4 DEF IsLoop
    <2>3. ASSUME NEW m \in Nat, m \in Same PROVE m + 1 \in Same
        <3>1. SUFFICES ASSUME m + 1 <= n - 1 PROVE f[m + 1] = h[m + 1]
            OBVIOUS
        <3>2. /\ m + 1 \in 0..n /\ m + 1 \in 0..(n - 1) /\ (m + 1) - 1 = m /\ m + 1 # 0
              /\ m <= n - 1
            BY <3>1
        <3>3. f[m + 1] = turn[m + 1][f[m]] /\ h[m + 1] = turn[m + 1][h[m]]
            BY <2>1, <3>2 DEF IsLoop
        <3>4. f[m] = h[m]
            BY <2>3, <3>2
        <3>5. QED BY <3>3, <3>4
    <2>4. n - 1 \in Same
        <3> HIDE DEF Same
        <3> QED BY <1>4, <2>2, <2>3, NatSetInduction
    <2>5. f[n - 1] = h[n - 1]
        BY <1>4, <2>4
    <2>6. QED BY <2>5 DEF f, h
<1>5. ASSUME NEW n \in Nat PROVE g[n] = IF n = 0 THEN s ELSE turn[n][g[n - 1]]
    <2>1. n \in 0..n
        OBVIOUS
    <2>2. P(n)[n] = IF n = 0 THEN s ELSE turn[n][P(n)[n - 1]]
        BY <1>3, <2>1 DEF IsLoop
    <2>3. n # 0 => n - 1 \in Nat
        OBVIOUS
    <2>4. n # 0 => P(n)[n - 1] = P(n - 1)[n - 1]
        BY <1>4
    <2> HIDE DEF P
    <2>5. QED BY <2>2, <2>3, <2>4
<1>6. g = [n \in Nat |-> g[n]]
    OBVIOUS
<1> HIDE DEF g
<1>7. \E f : f = [n \in Nat |-> IF n = 0 THEN s ELSE turn[n][f[n - 1]]]
    BY <1>5, <1>6
<1> DEFINE w == Loop(turn, s)
<1>8. w = [n \in Nat |-> IF n = 0 THEN s ELSE turn[n][w[n - 1]]]
    BY <1>7 DEF Loop
<1> HIDE DEF w
<1>9. \A n \in Nat : w[n] = IF n = 0 THEN s ELSE turn[n][w[n - 1]]
    BY <1>8
<1>10. \A n \in Nat : n + 1 \in Nat /\ n + 1 # 0 /\ (n + 1) - 1 = n
    OBVIOUS
<1>11. w[0] = s /\ \A n \in Nat : w[n + 1] = turn[n + 1][w[n]]
    BY <1>9, <1>10
<1>12. QED BY <1>11 DEF w

Turns(f, turn, s) == f[0] = s /\ \A n \in Nat : f[n + 1] = turn[n + 1][f[n]]

LEMMA LoopIs ==
    ASSUME NEW turn, NEW s
    PROVE  Turns(Loop(turn, s), turn, s)
BY LoopStep DEF Turns

(* Around the table: buckets and offsets stay in the table.                *)
LEMMA Around ==
    ASSUME NEW n \in Nat \ {0}, NEW a \in 0..(n - 1), NEW d \in 0..n
    PROVE  (a + d) % n = IF a + d < n THEN a + d ELSE a + d - n
<1>1. CASE a + d < n
    BY <1>1
<1>2. CASE ~(a + d < n)
    BY <1>2
<1>3. QED BY <1>1, <1>2

LEMMA SizeFacts ==
    ASSUME NEW n \in Sizes
    PROVE  n \in Nat \ {0} /\ Limit(n) \in Nat /\ Limit(n) < n
<1>1. PICK i \in 2..Len(TableSizes) : n = TableSizes[i]
    BY DEF Sizes
<1>2. i \in DOMAIN TableSizes
    BY SetAssumption
<1>3. n \in Nat \ {0}
    BY <1>1, <1>2, SetAssumption
<1>4. Limit(n) < n
    BY <1>1, SetAssumption
<1>5. QED BY <1>3, <1>4 DEF Limit

(* The hash of an item is in the table.                                    *)
LEMMA HomeInTable ==
    ASSUME hash \in Hashes, NEW x \in Item, NEW n \in Nat \ {0}
    PROVE  hash[Key[x]] % n \in 0..(n - 1)
<1>1. hash[Key[x]] \in Nat
    BY SetAssumption
<1>2. QED BY <1>1

(* What a table is, whichever items are reached; whether a bucket of it is *)
(* empty; and where probing ends.                                          *)
Typed(s) ==
    s \in Tables /\ s.table \in [Buckets(s.size) -> Item \cup {NULL}] /\ s.size \in Nat \ {0}

Room(s) == \E b \in Buckets(s.size) : s.table[b] = NULL

EndsAt(s, x, d) ==
    d \in 0..(s.size - 1) /\ Ends(s, x, d) /\ \A e \in 0..(d - 1) : ~Ends(s, x, e)

LEMMA ProbedIs ==
    ASSUME hash \in Hashes, NEW s, Typed(s), NEW x \in Item, NEW d \in 0..(s.size - 1)
    PROVE  /\ Probed(s, x, d) \in Buckets(s.size)
           /\ Probed(s, x, d) = 1 + IF (hash[Key[x]] % s.size) + d < s.size
                                    THEN (hash[Key[x]] % s.size) + d
                                    ELSE (hash[Key[x]] % s.size) + d - s.size
<1> DEFINE n == s.size
           h == hash[Key[x]] % n
<1>1. n \in Nat \ {0}
    BY DEF Typed
<1>2. h \in 0..(n - 1)
    BY <1>1, HomeInTable
<1> HIDE DEF n, h
<1>3. d \in 0..n
    BY <1>1 DEF n
<1>4. (h + d) % n = IF h + d < n THEN h + d ELSE h + d - n
    BY <1>1, <1>2, <1>3, Around
<1>5. Probed(s, x, d) = 1 + ((h + d) % n)
    BY DEF Probed, h, n
<1>6. d \in 0..(n - 1)
    BY DEF n
<1>7. Probed(s, x, d) = 1 + (IF h + d < n THEN h + d ELSE h + d - n) /\ Probed(s, x, d) \in 1..n
    BY <1>1, <1>2, <1>4, <1>5, <1>6
<1>8. QED BY <1>7 DEF h, n, Buckets

LEMMA ProbedAll ==
    ASSUME hash \in Hashes, NEW s, Typed(s), NEW x \in Item, NEW b \in Buckets(s.size)
    PROVE  \E d \in 0..(s.size - 1) : Probed(s, x, d) = b
<1> DEFINE n == s.size
           h == hash[Key[x]] % n
           d == IF h < b THEN b - 1 - h ELSE b - 1 - h + n
<1>1. n \in Nat \ {0}
    BY DEF Typed
<1>2. h \in 0..(n - 1)
    BY <1>1, HomeInTable
<1>3. b \in 1..n
    BY DEF Buckets
<1> HIDE DEF n, h
<1>4. d \in 0..(n - 1) /\ b = 1 + IF h + d < n THEN h + d ELSE h + d - n
    BY <1>1, <1>2, <1>3
<1> HIDE DEF d
<1>5. Probed(s, x, d) = 1 + IF h + d < n THEN h + d ELSE h + d - n
    BY <1>4, ProbedIs DEF h, n
<1>6. QED BY <1>4, <1>5 DEF n

(* Probing ends as long as a bucket is empty.                              *)
LEMMA ProbeEnds ==
    ASSUME hash \in Hashes, NEW s, Typed(s), Room(s), NEW x \in Item
    PROVE  \E d : EndsAt(s, x, d) /\ Probe(s, x) = Probed(s, x, d) /\ Probe(s, x) \in Buckets(s.size)
<1> DEFINE D == {d \in 0..(s.size - 1) : Ends(s, x, d)}
<1>1. s.size \in Nat \ {0}
    BY DEF Typed
<1>2. D # {}
    <2>1. PICK b \in Buckets(s.size) : s.table[b] = NULL
        BY DEF Room
    <2>2. PICK d \in 0..(s.size - 1) : Probed(s, x, d) = b
        BY ProbedAll
    <2>3. d \in D
        BY <2>1, <2>2 DEF Ends
    <2>4. QED BY <2>3
<1>3. D \in SUBSET Nat
    BY <1>1
<1>4. PICK d \in D : \A m \in D : d <= m
    <2> HIDE DEF D
    <2> QED BY <1>2, <1>3, LeastNat
<1>5. d \in 0..(s.size - 1) /\ Ends(s, x, d) /\ \A e \in 0..(d - 1) : ~Ends(s, x, e)
    <2>1. ASSUME NEW e \in 0..(d - 1), Ends(s, x, e) PROVE FALSE
        <3>1. e \in D
            BY <1>1, <2>1
        <3>2. QED BY <1>1, <1>4, <3>1
    <2>2. QED BY <2>1
<1> DEFINE c == CHOOSE e \in 0..(s.size - 1) : Ends(s, x, e) /\ \A f \in 0..(e - 1) : ~Ends(s, x, f)
<1>6. EndsAt(s, x, c)
    BY <1>5 DEF EndsAt
<1>7. Probe(s, x) = Probed(s, x, c)
    BY DEF Probe
<1> HIDE DEF c
<1>8. Probed(s, x, c) \in Buckets(s.size)
    BY <1>6, ProbedIs DEF EndsAt
<1>9. QED BY <1>6, <1>7, <1>8

(* An item is found where it is: from the bucket of its hash on, none is   *)
(* empty up to its own.                                                    *)
Reached(s, b) ==
    \E d \in 0..(s.size - 1) :
        Probed(s, s.table[b], d) = b /\ \A e \in 0..(d - 1) : s.table[Probed(s, s.table[b], e)] # NULL

(* No two items of a table are equal; each is counted, and found.          *)
Distinct(s) == \A b, c \in Occupied(s) : Key[s.table[b]] = Key[s.table[c]] => b = c

Counted(s) == s.itemCount = Cardinality(Occupied(s))

Sound(s) ==
    Typed(s) /\ Distinct(s) /\ Counted(s) /\ \A b \in Occupied(s) : Reached(s, b)

Good(s) == Sound(s) /\ s.itemCount <= Limit(s.size)

(* An item is found if it is there, and none if it is not.                 *)
LEMMA FoundIs ==
    ASSUME hash \in Hashes, NEW s, Sound(s), Room(s), NEW x \in Item
    PROVE  /\ Found(s, x) = NULL => \A b \in Occupied(s) : Key[s.table[b]] # Key[x]
           /\ Found(s, x) # NULL => Probe(s, x) \in Occupied(s) /\ Key[Found(s, x)] = Key[x]
<1>1. Typed(s)
    BY DEF Sound
<1>2. PICK d : EndsAt(s, x, d) /\ Probe(s, x) = Probed(s, x, d) /\ Probe(s, x) \in Buckets(s.size)
    BY <1>1, ProbeEnds
<1>3. s.size \in Nat \ {0} /\ d \in 0..(s.size - 1)
    BY <1>1, <1>2 DEF Typed, EndsAt
<1>4. ASSUME NEW b \in Occupied(s), Key[s.table[b]] = Key[x], Found(s, x) = NULL PROVE FALSE
    <2>1. PICK e \in 0..(s.size - 1) :
              /\ Probed(s, s.table[b], e) = b
              /\ \A f \in 0..(e - 1) : s.table[Probed(s, s.table[b], f)] # NULL
        BY DEF Sound, Reached
    <2>2. \A f : Probed(s, s.table[b], f) = Probed(s, x, f)
        BY <1>4 DEF Probed
    <2>3. Ends(s, x, e)
        BY <1>4, <2>1, <2>2 DEF Ends
    <2>4. ~(e < d)
        BY <1>2, <1>3, <2>3 DEF EndsAt
    <2>5. s.table[Probed(s, x, d)] = NULL
        BY <1>2, <1>4 DEF Found
    <2>6. e # d
        BY <2>1, <2>2, <2>5 DEF Occupied
    <2>7. d \in 0..(e - 1)
        BY <1>3, <2>1, <2>4, <2>6
    <2>8. QED BY <2>1, <2>2, <2>5, <2>7
<1>5. ASSUME Found(s, x) # NULL PROVE Probe(s, x) \in Occupied(s) /\ Key[Found(s, x)] = Key[x]
    BY <1>2, <1>5 DEF EndsAt, Ends, Found, Occupied
<1>6. QED BY <1>4, <1>5

LEMMA UpTo ==
    ASSUME NEW n \in Nat
    PROVE  IsFiniteSet(1..n) /\ Cardinality(1..n) = n
BY FS_Interval

LEMMA OccupiedFinite ==
    ASSUME NEW s, Typed(s)
    PROVE  /\ IsFiniteSet(Occupied(s)) /\ Cardinality(Occupied(s)) \in Nat
           /\ Cardinality(Occupied(s)) < s.size => Room(s)
<1>1. s.size \in Nat \ {0}
    BY DEF Typed
<1>2. IsFiniteSet(1..s.size) /\ Cardinality(1..s.size) = s.size
    BY <1>1, FS_Interval
<1>3. Occupied(s) \subseteq 1..s.size
    BY DEF Occupied, Buckets
<1>4. IsFiniteSet(Occupied(s)) /\ Cardinality(Occupied(s)) \in Nat
    BY <1>2, <1>3, FS_Subset, FS_CardinalityType
<1>5. ASSUME ~Room(s) PROVE Occupied(s) = 1..s.size
    BY <1>5 DEF Room, Occupied, Buckets
<1>6. ASSUME Cardinality(Occupied(s)) < s.size, ~Room(s) PROVE FALSE
    BY <1>1, <1>2, <1>4, <1>5, <1>6
<1>7. QED BY <1>4, <1>6

(* What fills buckets keeps what is reached.                               *)
LEMMA ReachGrows ==
    ASSUME NEW s, NEW u, u.size = s.size,
           \A c \in Buckets(s.size) : s.table[c] # NULL => u.table[c] # NULL,
           hash \in Hashes, Typed(s),
           NEW b \in Occupied(s), u.table[b] = s.table[b], Reached(s, b)
    PROVE  Reached(u, b)
<1>1. PICK d \in 0..(s.size - 1) :
          /\ Probed(s, s.table[b], d) = b
          /\ \A e \in 0..(d - 1) : s.table[Probed(s, s.table[b], e)] # NULL
    BY DEF Reached
<1>2. \A e : Probed(u, u.table[b], e) = Probed(s, s.table[b], e)
    BY DEF Probed
<1>3. s.table[b] \in Item /\ s.size \in Nat \ {0}
    BY DEF Typed, Occupied
<1>4. \A e \in 0..(d - 1) : Probed(s, s.table[b], e) \in Buckets(s.size)
    <2>1. \A e \in 0..(d - 1) : e \in 0..(s.size - 1)
        BY <1>1, <1>3
    <2>2. QED BY <1>3, <2>1, ProbedIs
<1>5. \A e \in 0..(d - 1) : u.table[Probed(u, u.table[b], e)] # NULL
    BY <1>1, <1>2, <1>4
<1>6. QED BY <1>1, <1>2, <1>5 DEF Reached

(* A table of which one bucket is other.                                   *)
LEMMA Written ==
    ASSUME NEW s, Typed(s), NEW b \in Buckets(s.size), NEW x \in Item \cup {NULL}, NEW n \in Nat
    PROVE  Typed([table |-> [s.table EXCEPT ![b] = x], size |-> s.size, itemCount |-> n])
<1> DEFINE f == [s.table EXCEPT ![b] = x]
           u == [table |-> f, size |-> s.size, itemCount |-> n]
<1>1. f \in [Buckets(s.size) -> Item \cup {NULL}]
    BY DEF Typed
<1>2. s.size \in Sizes /\ s.size \in Nat \ {0}
    BY DEF Typed, Tables
<1> HIDE DEF f
<1>3. f \in Seq(Item \cup {NULL})
    BY <1>1, <1>2 DEF Buckets
<1>4. u \in Tables
    BY <1>2, <1>3 DEF Tables
<1>5. QED BY <1>1, <1>2, <1>4 DEF Typed, f

(* What an item that is put into a table changes.                          *)
LEMMA PutIs ==
    ASSUME hash \in Hashes, NEW s, Typed(s), Counted(s), Room(s), NEW x \in Item,
           NEW u, u = Put(s, x), NEW p, p = Probe(s, x)
    PROVE  /\ Typed(u) /\ Counted(u) /\ u.size = s.size
           /\ p \in Buckets(s.size) /\ u.table = [s.table EXCEPT ![p] = x]
           /\ u.itemCount = IF Found(s, x) = NULL THEN s.itemCount + 1 ELSE s.itemCount
           /\ Occupied(u) = Occupied(s) \cup {p}
           /\ Reached(u, p)
           /\ \A b \in Occupied(s) : b # p /\ Reached(s, b) => Reached(u, b)
<1>1. PICK d : EndsAt(s, x, d) /\ p = Probed(s, x, d) /\ p \in Buckets(s.size)
    BY ProbeEnds
<1>2. /\ u.table = [s.table EXCEPT ![p] = x] /\ u.size = s.size
      /\ u.itemCount = IF Found(s, x) = NULL THEN s.itemCount + 1 ELSE s.itemCount
    BY DEF Put
<1>3. s.itemCount \in Nat /\ s.table \in [Buckets(s.size) -> Item \cup {NULL}] /\ x # NULL
    BY SetAssumption DEF Typed, Tables
<1>4. u.itemCount \in Nat
    BY <1>2, <1>3
<1>5. Typed(u)
    BY <1>1, <1>4, Written DEF Put
<1>6. Occupied(u) = Occupied(s) \cup {p}
    BY <1>1, <1>2, <1>3 DEF Occupied
<1>7. Counted(u)
    <2>1. Found(s, x) = NULL <=> p \notin Occupied(s)
        BY <1>1 DEF Found, Occupied
    <2>2. IsFiniteSet(Occupied(s))
        BY OccupiedFinite
    <2>3. Cardinality(Occupied(s) \cup {p}) =
              IF p \in Occupied(s) THEN Cardinality(Occupied(s)) ELSE Cardinality(Occupied(s)) + 1
        BY <2>2, FS_AddElement
    <2>4. QED BY <1>2, <1>6, <2>1, <2>3 DEF Counted
<1>8. \A c \in Buckets(s.size) : s.table[c] # NULL => u.table[c] # NULL
    BY <1>1, <1>2, <1>3
<1>9. Reached(u, p)
    <2>1. \A e : Probed(u, u.table[p], e) = Probed(s, x, e)
        BY <1>1, <1>2, <1>3 DEF Probed
    <2>2. ASSUME NEW e \in 0..(d - 1) PROVE u.table[Probed(u, u.table[p], e)] # NULL
        <3>1. s.table[Probed(s, x, e)] # NULL
            BY <1>1, <2>2 DEF EndsAt, Ends
        <3>2. e \in 0..(s.size - 1)
            BY <1>1, <2>2, <1>5, <1>2 DEF EndsAt, Typed
        <3>3. Probed(s, x, e) \in Buckets(s.size)
            BY <3>2, ProbedIs
        <3>4. QED BY <1>8, <2>1, <3>1, <3>3
    <2>3. d \in 0..(u.size - 1)
        BY <1>1, <1>2 DEF EndsAt
    <2>4. QED BY <1>1, <2>1, <2>2, <2>3 DEF Reached
<1>10. ASSUME NEW b \in Occupied(s), b # p, Reached(s, b) PROVE Reached(u, b)
    <2>1. u.table[b] = s.table[b]
        BY <1>2, <1>3, <1>10 DEF Occupied
    <2>2. QED BY <1>2, <1>8, <1>10, <2>1, ReachGrows
<1>11. QED BY <1>1, <1>2, <1>5, <1>6, <1>7, <1>9, <1>10

(* The items but those equal to x, with x.                                 *)
Unlike(S, x) == {y \in S : Key[y] # Key[x]}

LEMMA PutKeeps ==
    ASSUME hash \in Hashes, NEW s, Sound(s), Room(s), NEW x \in Item
    PROVE  /\ Sound(Put(s, x)) /\ Put(s, x).size = s.size
           /\ Put(s, x).itemCount = IF Found(s, x) = NULL THEN s.itemCount + 1 ELSE s.itemCount
           /\ Items(Put(s, x)) = Unlike(Items(s), x) \cup {x}
<1> DEFINE u == Put(s, x)
           p == Probe(s, x)
<1>1. Typed(s) /\ Counted(s) /\ Distinct(s)
    BY DEF Sound
<1> HIDE DEF u, p
<1>2. /\ Typed(u) /\ Counted(u) /\ u.size = s.size
      /\ p \in Buckets(s.size) /\ u.table = [s.table EXCEPT ![p] = x]
      /\ u.itemCount = IF Found(s, x) = NULL THEN s.itemCount + 1 ELSE s.itemCount
      /\ Occupied(u) = Occupied(s) \cup {p}
      /\ Reached(u, p)
      /\ \A b \in Occupied(s) : b # p /\ Reached(s, b) => Reached(u, b)
    BY <1>1, PutIs DEF u, p
<1>3. s.table \in [Buckets(s.size) -> Item \cup {NULL}] /\ Occupied(s) \subseteq Buckets(s.size)
    BY <1>1 DEF Typed, Occupied
<1>4. \A b \in Occupied(s) : b # p => u.table[b] = s.table[b] /\ Key[s.table[b]] # Key[x]
    <2>1. ASSUME NEW b \in Occupied(s), b # p, Key[s.table[b]] = Key[x] PROVE FALSE
        <3>1. Found(s, x) # NULL
            BY <2>1, FoundIs
        <3>2. p \in Occupied(s) /\ Key[s.table[p]] = Key[x]
            BY <3>1, FoundIs DEF p, Found
        <3>3. QED BY <1>1, <2>1, <3>2 DEF Distinct
    <2>2. QED BY <1>2, <1>3, <2>1
<1>5. u.table[p] = x
    BY <1>2, <1>3
<1>6. Distinct(u)
    BY <1>1, <1>2, <1>4, <1>5 DEF Distinct
<1>7. \A b \in Occupied(u) : Reached(u, b)
    BY <1>2 DEF Sound
<1>8. Items(u) = Unlike(Items(s), x) \cup {x}
    <2>1. ASSUME NEW y \in Items(u) PROVE y \in Unlike(Items(s), x) \cup {x}
        <3>1. PICK b \in Occupied(u) : y = u.table[b]
            BY DEF Items
        <3>2. QED BY <1>2, <1>4, <1>5, <3>1 DEF Items, Unlike
    <2>2. ASSUME NEW y \in Unlike(Items(s), x) PROVE y \in Items(u)
        <3>1. PICK b \in Occupied(s) : y = s.table[b]
            BY DEF Items, Unlike
        <3>2. b # p
            <4>1. SUFFICES ASSUME p \in Occupied(s) PROVE Key[s.table[p]] = Key[x]
                BY <3>1 DEF Unlike
            <4>2. Found(s, x) # NULL
                BY <4>1 DEF Found, Occupied, p
            <4>3. QED BY <4>2, FoundIs DEF Found, p
        <3>3. QED BY <1>2, <1>4, <3>1, <3>2 DEF Items
    <2>3. x \in Items(u)
        BY <1>2, <1>5 DEF Items
    <2>4. QED BY <2>1, <2>2, <2>3
<1>9. QED BY <1>2, <1>6, <1>7, <1>8 DEF Sound, u

(* The sizes of tables increase.                                           *)
LEMMA SizesIncrease ==
    \A m \in 1..Len(TableSizes) : \A j \in 1..(m - 1) : TableSizes[j] < TableSizes[m]
<1> DEFINE L == Len(TableSizes)
           S == {m \in Nat : m \in 1..L => \A j \in 1..(m - 1) : TableSizes[j] < TableSizes[m]}
<1>1. L \in Nat /\ DOMAIN TableSizes = 1..L /\ \A i \in 1..L : TableSizes[i] \in Nat \ {0}
    BY SetAssumption
<1> HIDE DEF L
<1>2. 0 \in S
    OBVIOUS
<1>3. ASSUME NEW m \in Nat, m \in S PROVE m + 1 \in S
    <2>1. SUFFICES ASSUME m + 1 \in 1..L, NEW j \in 1..m PROVE TableSizes[j] < TableSizes[m + 1]
        OBVIOUS
    <2>2. m \in 1..L /\ m + 1 \in 2..L /\ (m + 1) - 1 = m
        BY <1>1, <2>1
    <2>3. TableSizes[m] < TableSizes[m + 1]
        BY <2>2, SetAssumption DEF L
    <2>4. CASE j = m
        BY <2>3, <2>4
    <2>5. CASE j \in 1..(m - 1)
        <3>1. TableSizes[j] < TableSizes[m] /\ j \in 1..L
            BY <1>1, <1>3, <2>2, <2>5
        <3>2. QED BY <1>1, <2>1, <2>2, <2>3, <3>1
    <2>6. QED BY <2>4, <2>5
<1>4. Nat \subseteq S
    <2> HIDE DEF S
    <2> QED BY <1>2, <1>3, NatSetInduction
<1>5. QED BY <1>1, <1>4 DEF L

LEMMA EmptyIs ==
    ASSUME NEW cap \in Nat, NEW i \in 1..(Len(TableSizes) - 1),
           TableSizes[i] >= cap, \A j \in 1..(i - 1) : TableSizes[j] < cap
    PROVE  /\ Good(Empty(cap)) /\ Empty(cap).size = TableSizes[i + 1]
           /\ Empty(cap).itemCount = 0 /\ Occupied(Empty(cap)) = {} /\ Items(Empty(cap)) = {}
<1> DEFINE L == Len(TableSizes)
           c == CHOOSE m \in DOMAIN TableSizes :
                    TableSizes[m] >= cap /\ \A j \in 1..(m - 1) : TableSizes[j] < cap
           n == TableSizes[i + 1]
           f == [b \in Buckets(n) |-> NULL]
           u == Empty(cap)
<1>1. L \in Nat /\ DOMAIN TableSizes = 1..L /\ \A m \in 1..L : TableSizes[m] \in Nat \ {0}
    BY SetAssumption
<1>2. i \in DOMAIN TableSizes
    BY <1>1
<1>3. c \in DOMAIN TableSizes /\ TableSizes[c] >= cap /\ \A j \in 1..(c - 1) : TableSizes[j] < cap
    BY <1>2
<1>4. c = i
    <2> HIDE DEF c, L
    <2>1. CASE c < i
        <3>1. c \in 1..(i - 1)
            BY <1>1, <1>3, <2>1
        <3>2. TableSizes[c] < cap /\ TableSizes[c] \in Nat
            BY <1>1, <1>3, <3>1
        <3>3. QED BY <1>3, <3>2
    <2>2. CASE i < c
        <3>1. i \in 1..(c - 1)
            BY <1>1, <1>3, <2>2
        <3>2. TableSizes[i] < cap /\ TableSizes[i] \in Nat
            BY <1>1, <1>2, <1>3, <3>1
        <3>3. QED BY <3>2
    <2>3. QED BY <1>1, <1>2, <1>3, <2>1, <2>2
<1>5. u = [table |-> f, size |-> n, itemCount |-> 0]
    BY <1>4 DEF Empty
<1>6. i + 1 \in 2..L
    BY <1>1
<1>7. n \in Sizes
    BY <1>6 DEF Sizes
<1>8. n \in Nat \ {0} /\ Limit(n) \in Nat
    BY <1>7, SizeFacts
<1>9. f \in [1..n -> Item \cup {NULL}]
    BY DEF Buckets
<1> HIDE DEF n
<1>10. \A b \in Buckets(n) : f[b] = NULL
    OBVIOUS
<1> HIDE DEF f, u
<1>11. f \in Seq(Item \cup {NULL})
    BY <1>8, <1>9
<1>12. u \in Tables
    BY <1>5, <1>7, <1>11 DEF Tables
<1>13. Typed(u)
    BY <1>5, <1>8, <1>9, <1>12 DEF Typed, Buckets
<1>14. Occupied(u) = {}
    BY <1>5, <1>10 DEF Occupied
<1>15. Good(u)
    BY <1>5, <1>8, <1>13, <1>14, FS_EmptySet DEF Good, Sound, Distinct, Counted
<1>16. QED BY <1>5, <1>14, <1>15 DEF Items, u, n

(* A table that grows keeps its items, and has room for one more.          *)
LEMMA GrowKeeps ==
    ASSUME hash \in Hashes, NEW s, Typed(s), Counted(s), Distinct(s),
           NEW i \in 2..(Len(TableSizes) - 1), s.size = TableSizes[i],
           s.itemCount <= Limit(s.size) + 1
    PROVE  Good(Grow(s)) /\ Items(Grow(s)) = Items(s)
<1> DEFINE n == s.size
           m == TableSizes[i + 1]
           turn == [k \in Buckets(n) |-> [t \in Tables |->
                        IF s.table[k] = NULL THEN t ELSE Put(t, s.table[k])]]
           g == Loop(turn, Empty(n))
           Part(k) == {b \in Occupied(s) : b <= k}
           Inv(k) == /\ Sound(g[k]) /\ g[k].size = m
                     /\ Items(g[k]) = {s.table[b] : b \in Part(k)}
                     /\ g[k].itemCount = Cardinality(Part(k))
           S == {k \in Nat : k <= n => Inv(k)}
<1>1. n \in Nat \ {0} /\ Occupied(s) \subseteq 1..n /\ s.table \in [1..n -> Item \cup {NULL}]
    BY DEF Typed, Occupied, Buckets
<1>2. IsFiniteSet(Occupied(s)) /\ Cardinality(Occupied(s)) <= Limit(n) + 1
    BY OccupiedFinite DEF Counted
<1>3. m \in Sizes /\ Limit(n) + 1 <= Limit(m) /\ Limit(m) < m /\ m \in Nat /\ Limit(m) \in Nat
      /\ Limit(n) \in Nat
    <2>1. i + 1 \in 3..Len(TableSizes) /\ i + 1 \in 2..Len(TableSizes)
        BY SetAssumption
    <2>2. m \in Sizes /\ n \in Sizes
        BY <2>1 DEF Sizes, Typed, Tables
    <2>3. Limit(n) < Limit(m)
        <3>1. Limit(TableSizes[(i + 1) - 1]) < Limit(TableSizes[i + 1])
            BY ONLY <2>1, SetAssumption
        <3>2. (i + 1) - 1 = i
            OBVIOUS
        <3>3. QED BY <3>1, <3>2
    <2> HIDE DEF m, n
    <2>4. QED BY <2>2, <2>3, SizeFacts
<1>4. /\ Good(Empty(n)) /\ Empty(n).size = m /\ Empty(n).itemCount = 0
      /\ Items(Empty(n)) = {}
    <2>1. n \in Nat /\ i \in 1..(Len(TableSizes) - 1) /\ TableSizes[i] >= n
        BY <1>1
    <2>2. \A j \in 1..(i - 1) : TableSizes[j] < n
        <3>1. i \in 1..Len(TableSizes)
            BY SetAssumption
        <3>2. QED BY <3>1, SizesIncrease
    <2>3. QED BY <2>1, <2>2, EmptyIs
<1>5. g[0] = Empty(n) /\ \A k \in Nat : g[k + 1] = turn[k + 1][g[k]]
    <2> HIDE DEF turn
    <2>1. Turns(g, turn, Empty(n))
        BY LoopIs
    <2> HIDE DEF g
    <2>2. QED BY <2>1 DEF Turns
<1> HIDE DEF g, m, n
<1>6. 0 \in S
    <2>1. Part(0) = {}
        BY <1>1
    <2>2. Inv(0)
        BY <1>4, <1>5, <2>1, FS_EmptySet DEF Good
    <2>3. QED BY <2>2
<1>7. ASSUME NEW k \in Nat, k \in S PROVE k + 1 \in S
    <2>1. SUFFICES ASSUME k + 1 <= n PROVE Inv(k + 1)
        OBVIOUS
    <2> DEFINE t == g[k]
               x == s.table[k + 1]
    <2>2. /\ Sound(t) /\ t.size = m /\ Items(t) = {s.table[b] : b \in Part(k)}
          /\ t.itemCount = Cardinality(Part(k))
        BY <1>1, <1>7, <2>1
    <2>3. t \in Tables /\ k + 1 \in Buckets(n)
        BY <1>1, <2>1, <2>2 DEF Sound, Typed, Buckets
    <2>4. g[k + 1] = IF x = NULL THEN t ELSE Put(t, x)
        BY <1>5, <2>3
    <2> HIDE DEF t
    <2>5. Part(k + 1) = IF x = NULL THEN Part(k) ELSE Part(k) \cup {k + 1}
        BY <1>1, <2>1 DEF Occupied, Buckets, n
    <2>6. CASE x = NULL
        BY <2>2, <2>4, <2>5, <2>6
    <2>7. CASE x # NULL
        <3>1. x \in Item
            BY <1>1, <2>1, <2>7
        <3>2. IsFiniteSet(Part(k)) /\ Cardinality(Part(k)) <= Cardinality(Occupied(s))
            BY <1>2, FS_Subset
        <3>3. Room(t)
            <4>1. Cardinality(Occupied(t)) < t.size
                <5>1. Cardinality(Part(k)) \in Nat /\ Cardinality(Occupied(s)) \in Nat
                    BY <1>2, <3>2, FS_CardinalityType
                <5>2. Cardinality(Occupied(t)) = Cardinality(Part(k))
                    BY <2>2 DEF Sound, Counted
                <5>3. QED BY <1>1, <1>2, <1>3, <2>2, <3>2, <5>1, <5>2
            <4>2. QED BY <2>2, <4>1, OccupiedFinite DEF Sound
        <3>4. \A y \in Items(t) : Key[y] # Key[x]
            <4>1. ASSUME NEW b \in Part(k), Key[s.table[b]] = Key[x] PROVE FALSE
                <5>1. k + 1 \in Occupied(s) /\ b \in Occupied(s) /\ b <= k
                    BY <2>3, <2>7 DEF Occupied, n
                <5>2. b = k + 1
                    BY <4>1, <5>1 DEF Distinct
                <5>3. QED BY <5>1, <5>2
            <4>2. QED BY <2>2, <4>1
        <3>5. Found(t, x) = NULL
            <4>1. SUFFICES ASSUME Found(t, x) # NULL PROVE FALSE
                OBVIOUS
            <4>2. Probe(t, x) \in Occupied(t) /\ Key[Found(t, x)] = Key[x]
                BY <2>2, <3>1, <3>3, <4>1, FoundIs
            <4>3. Found(t, x) \in Items(t)
                BY <4>2 DEF Found, Items
            <4>4. QED BY <3>4, <4>2, <4>3
        <3>6. /\ Sound(Put(t, x)) /\ Put(t, x).size = m
              /\ Put(t, x).itemCount = t.itemCount + 1
              /\ Items(Put(t, x)) = Unlike(Items(t), x) \cup {x}
            <4> HIDE DEF x
            <4> QED BY <2>2, <3>1, <3>3, <3>5, PutKeeps
        <3>7. Unlike(Items(t), x) = Items(t)
            BY <3>4 DEF Unlike
        <3>8. Items(Put(t, x)) = {s.table[b] : b \in Part(k + 1)}
            BY <2>2, <2>5, <2>7, <3>6, <3>7
        <3>9. Cardinality(Part(k + 1)) = Cardinality(Part(k)) + 1
            <4>1. k + 1 \notin Part(k)
                OBVIOUS
            <4>2. QED BY <2>5, <2>7, <3>2, <4>1, FS_AddElement
        <3>10. QED BY <2>2, <2>4, <2>7, <3>6, <3>8, <3>9
    <2>8. QED BY <2>6, <2>7
<1>8. Nat \subseteq S
    <2> HIDE DEF S
    <2> QED BY <1>6, <1>7, NatSetInduction
<1>9. Inv(n)
    <2>1. n \in S
        BY <1>1, <1>8
    <2>2. QED BY <1>1, <2>1
<1>10. Part(n) = Occupied(s)
    BY <1>1
<1>11. Grow(s) = g[n]
    BY DEF Grow, g, n
<1>12. g[n].itemCount <= Limit(m)
    <2>1. Cardinality(Occupied(s)) \in Nat
        BY <1>2, FS_CardinalityType
    <2>2. g[n].itemCount = Cardinality(Occupied(s))
        BY <1>9, <1>10
    <2>3. QED BY <1>1, <1>2, <1>3, <2>1, <2>2
<1>13. QED BY <1>9, <1>10, <1>11, <1>12 DEF Good, Items

(* No table holds more items than there are keys.                          *)
LEMMA KeysBound ==
    ASSUME NEW s, Typed(s), Counted(s), Distinct(s)
    PROVE  s.itemCount <= Limit(TableSizes[Len(TableSizes)])
<1> DEFINE K == {Key[x] : x \in Item}
           O == Occupied(s)
           f == [b \in O |-> Key[s.table[b]]]
           g == [x \in Item |-> Key[x]]
<1>1. IsFiniteSet(Item) /\ Cardinality(K) <= Limit(TableSizes[Len(TableSizes)])
    BY SetAssumption
<1>2. g \in Surjection(Item, K)
    BY DEF Surjection
<1>3. IsFiniteSet(K)
    <2> HIDE DEF g, K
    <2> QED BY <1>1, <1>2, FS_Surjection
<1>4. IsFiniteSet(O) /\ Cardinality(O) \in Nat
    BY OccupiedFinite
<1>5. f \in [O -> K]
    BY DEF Typed, Occupied
<1>6. \A b, c \in O : f[b] = f[c] => b = c
    BY DEF Distinct
<1>7. Cardinality(K) \in Nat
    BY <1>3, FS_CardinalityType
<1>8. ~(Cardinality(K) < Cardinality(O))
    <2> HIDE DEF K, O, f
    <2> QED BY <1>3, <1>4, <1>5, <1>6, FS_PigeonHole
<1>9. s.itemCount = Cardinality(O)
    BY DEF Counted
<1>10. Limit(TableSizes[Len(TableSizes)]) \in Nat
    <2>1. Len(TableSizes) \in 2..Len(TableSizes)
        BY SetAssumption
    <2>2. QED BY <2>1, SizeFacts DEF Sizes
<1> HIDE DEF K, O
<1>11. QED BY <1>1, <1>4, <1>7, <1>8, <1>9, <1>10

(* An item goes into the table in place of any equal one.                  *)
LEMMA AddedKeeps ==
    ASSUME hash \in Hashes, NEW s, Good(s), NEW x \in Item
    PROVE  Good(Added(s, x)) /\ Items(Added(s, x)) = Unlike(Items(s), x) \cup {x}
<1> DEFINE u == Put(s, x)
<1>1. s.size \in Sizes /\ s.itemCount \in Nat /\ s.itemCount <= Limit(s.size) /\ Sound(s)
    BY DEF Good, Sound, Typed, Tables
<1>2. Room(s)
    <2>1. s.itemCount < s.size
        BY <1>1, SizeFacts
    <2>2. QED BY <1>1, <2>1, OccupiedFinite DEF Sound, Counted
<1>3. /\ Sound(u) /\ u.size = s.size /\ Items(u) = Unlike(Items(s), x) \cup {x}
      /\ u.itemCount = IF Found(s, x) = NULL THEN s.itemCount + 1 ELSE s.itemCount
    BY <1>1, <1>2, PutKeeps
<1>4. Added(s, x) = IF Full(u) THEN Grow(u) ELSE u
    BY DEF Added
<1> HIDE DEF u
<1>5. u.itemCount \in Nat /\ Limit(u.size) \in Nat
    BY <1>1, <1>3, SizeFacts DEF Sound, Typed, Tables
<1>6. u.itemCount <= Limit(u.size) + 1
    BY <1>1, <1>3, <1>5
<1>7. CASE Full(u)
    <2>1. PICK i \in 2..Len(TableSizes) : u.size = TableSizes[i]
        BY <1>1, <1>3 DEF Sizes
    <2>2. Typed(u) /\ Counted(u) /\ Distinct(u)
        BY <1>3 DEF Sound
    <2>3. i # Len(TableSizes)
        BY <1>5, <1>7, <2>1, <2>2, KeysBound DEF Full
    <2>4. i \in 2..(Len(TableSizes) - 1)
        BY <2>3, SetAssumption
    <2>5. Good(Grow(u)) /\ Items(Grow(u)) = Items(u)
        BY <1>6, <2>1, <2>2, <2>4, GrowKeeps
    <2>6. QED BY <1>3, <1>4, <1>7, <2>5
<1>8. CASE ~Full(u)
    BY <1>3, <1>4, <1>5, <1>8 DEF Good, Full
<1>9. QED BY <1>7, <1>8

(* The buckets after another are those of the table, and each comes once.  *)
LEMMA AfterIs ==
    ASSUME NEW s, s.size \in Nat \ {0}, NEW p \in Buckets(s.size)
    PROVE  /\ \A k \in 0..s.size : /\ After(s, p, k) \in Buckets(s.size)
                                   /\ After(s, p, k) = IF p + k <= s.size THEN p + k ELSE p + k - s.size
           /\ \A j, k \in 0..(s.size - 1) : After(s, p, j) = After(s, p, k) => j = k
           /\ \A b \in Buckets(s.size) : \E k \in 0..(s.size - 1) : After(s, p, k) = b
<1> DEFINE n == s.size
<1>1. n \in Nat \ {0} /\ p \in 1..n
    BY DEF Buckets
<1>2. \A k \in 0..n : After(s, p, k) = 1 + ((p - 1 + k) % n)
    BY DEF After
<1> HIDE DEF n
<1>3. ASSUME NEW k \in 0..n
      PROVE  After(s, p, k) \in 1..n /\ After(s, p, k) = IF p + k <= n THEN p + k ELSE p + k - n
    <2>1. p - 1 \in 0..(n - 1)
        BY <1>1
    <2> DEFINE a == (p - 1 + k) % n
    <2>2. a = IF p - 1 + k < n THEN p - 1 + k ELSE p - 1 + k - n
        BY <1>1, <2>1, Around
    <2>3. After(s, p, k) = 1 + a
        BY <1>2
    <2> HIDE DEF a
    <2>4. QED BY <1>1, <2>2, <2>3
<1>4. ASSUME NEW j \in 0..(n - 1), NEW k \in 0..(n - 1), After(s, p, j) = After(s, p, k) PROVE j = k
    <2>1. j \in 0..n /\ k \in 0..n
        BY <1>1
    <2>2. QED BY <1>1, <1>3, <1>4, <2>1
<1>5. ASSUME NEW b \in 1..n PROVE \E k \in 0..(n - 1) : After(s, p, k) = b
    <2> DEFINE k == IF b >= p THEN b - p ELSE b - p + n
    <2>1. k \in 0..(n - 1) /\ k \in 0..n /\ b = IF p + k <= n THEN p + k ELSE p + k - n
        BY <1>1
    <2> HIDE DEF k
    <2>2. QED BY <1>3, <2>1
<1>6. QED BY <1>3, <1>4, <1>5 DEF n, Buckets

LEMMA WalksMeetAt ==
    ASSUME NEW n \in Nat, NEW h \in 0..(n - 1), NEW p \in 1..n, NEW e \in Nat, NEW j \in Nat,
           NEW i \in Nat, e + i < n, j + i < n,
           (1 + IF h + e < n THEN h + e ELSE h + e - n) = IF p + j <= n THEN p + j ELSE p + j - n
    PROVE  (1 + IF h + (e + i) < n THEN h + (e + i) ELSE h + (e + i) - n)
              = IF p + (j + i) <= n THEN p + (j + i) ELSE p + (j + i) - n
OBVIOUS

(* Two walks around the table that meet go on together.                    *)
LEMMA WalksMeet ==
    ASSUME hash \in Hashes, NEW s, Typed(s), NEW p \in Buckets(s.size), NEW x \in Item,
           NEW e \in 0..(s.size - 1), NEW j \in 0..(s.size - 1), Probed(s, x, e) = After(s, p, j),
           NEW i \in Nat, e + i < s.size, j + i < s.size
    PROVE  Probed(s, x, e + i) = After(s, p, j + i)
<1> DEFINE n == s.size
           h == hash[Key[x]] % n
<1>1. n \in Nat \ {0} /\ p \in 1..n
    BY DEF Typed, Buckets
<1>2. h \in 0..(n - 1)
    BY <1>1, HomeInTable
<1>3. e + i \in 0..(n - 1) /\ j + i \in 0..n /\ j \in 0..n
    BY <1>1
<1>4. \A d \in 0..(n - 1) : Probed(s, x, d) = 1 + IF h + d < n THEN h + d ELSE h + d - n
    BY ProbedIs
<1>5. \A d \in 0..n : After(s, p, d) = IF p + d <= n THEN p + d ELSE p + d - n
    BY <1>1, AfterIs
<1> HIDE DEF n, h
<1>6. /\ Probed(s, x, e) = 1 + IF h + e < n THEN h + e ELSE h + e - n
      /\ Probed(s, x, e + i) = 1 + IF h + (e + i) < n THEN h + (e + i) ELSE h + (e + i) - n
      /\ After(s, p, j) = IF p + j <= n THEN p + j ELSE p + j - n
      /\ After(s, p, j + i) = IF p + (j + i) <= n THEN p + (j + i) ELSE p + (j + i) - n
    BY <1>3, <1>4, <1>5 DEF n
<1>7. e \in 0..(n - 1) /\ j \in 0..(n - 1) /\ e + i < n /\ j + i < n
    BY DEF n
<1>8. (1 + IF h + e < n THEN h + e ELSE h + e - n) = IF p + j <= n THEN p + j ELSE p + j - n
    BY <1>6
<1>9. QED BY <1>1, <1>2, <1>6, <1>7, <1>8, WalksMeetAt

(* Emptying a bucket: what is reached still is, but for what lies between  *)
(* it and the next empty one.                                              *)
Between(s, p, j, r) == {After(s, p, i) : i \in (j + 1)..(r - 1)}

LEMMA StillReached ==
    ASSUME hash \in Hashes, NEW t, Typed(t), NEW p \in Buckets(t.size),
           NEW r \in 0..(t.size - 1), NEW j \in 0..(r - 1), t.table[After(t, p, r)] = NULL,
           NEW w, w.size = t.size, w.table = [t.table EXCEPT ![After(t, p, j)] = NULL],
           NEW b \in Occupied(w), b \notin Between(t, p, j, r), Reached(t, b)
    PROVE  Reached(w, b)
<1> DEFINE n == t.size
           x == t.table[b]
           c == After(t, p, j)
<1>1. n \in Nat \ {0} /\ t.table \in [Buckets(n) -> Item \cup {NULL}]
    BY DEF Typed
<1>2. c \in Buckets(n)
    BY <1>1, AfterIs
<1>3. b \in Buckets(n) /\ b # c /\ w.table[b] = x /\ x \in Item
    BY <1>1, <1>2 DEF Occupied
<1>4. PICK d \in 0..(n - 1) :
          Probed(t, x, d) = b /\ \A e \in 0..(d - 1) : t.table[Probed(t, x, e)] # NULL
    BY DEF Reached
<1>5. \A e : Probed(w, w.table[b], e) = Probed(t, x, e)
    BY <1>3 DEF Probed
<1>6. ASSUME NEW e \in 0..(d - 1), Probed(t, x, e) = c PROVE FALSE
    <2>1. e \in 0..(n - 1) /\ j \in 0..(n - 1) /\ e < d
        BY <1>1, <1>4
    <2>2. \A i \in Nat : e + i < n /\ j + i < n => Probed(t, x, e + i) = After(t, p, j + i)
        BY <1>3, <1>6, <2>1, WalksMeet
    <2>3. CASE e + (r - j) <= d
        <3>1. r - j \in Nat /\ e + (r - j) < n /\ j + (r - j) < n /\ j + (r - j) = r
            BY <1>1, <1>4, <2>1, <2>3
        <3>2. Probed(t, x, e + (r - j)) = After(t, p, r)
            BY <2>2, <3>1
        <3>3. e + (r - j) = d
            BY <1>4, <2>1, <2>3, <3>1, <3>2
        <3>4. QED BY <1>3, <1>4, <3>2, <3>3, SetAssumption
    <2>4. CASE d < e + (r - j)
        <3>1. d - e \in Nat /\ e + (d - e) < n /\ j + (d - e) < n /\ e + (d - e) = d
              /\ j + (d - e) \in (j + 1)..(r - 1)
            BY <1>1, <1>4, <2>1, <2>4
        <3>2. Probed(t, x, d) = After(t, p, j + (d - e))
            BY <2>2, <3>1
        <3>3. QED BY <1>4, <3>1, <3>2 DEF Between
    <2>5. QED BY <1>1, <1>4, <2>1, <2>3, <2>4
<1>7. ASSUME NEW e \in 0..(d - 1) PROVE w.table[Probed(t, x, e)] # NULL
    <2>1. e \in 0..(n - 1)
        BY <1>1, <1>4
    <2>2. Probed(t, x, e) \in Buckets(n)
        BY <1>3, <2>1, ProbedIs
    <2>3. Probed(t, x, e) # c /\ t.table[Probed(t, x, e)] # NULL
        BY <1>4, <1>6
    <2>4. QED BY <1>1, <2>2, <2>3
<1>8. QED BY <1>4, <1>5, <1>7 DEF Reached

LEMMA TakeOutIs ==
    ASSUME NEW t, Typed(t), Counted(t), Distinct(t), NEW c \in Occupied(t),
           NEW w, w = TakeOut(t, c)
    PROVE  /\ Typed(w) /\ Counted(w) /\ Distinct(w) /\ w.size = t.size
           /\ w.itemCount = t.itemCount - 1 /\ w.table = [t.table EXCEPT ![c] = NULL]
           /\ Occupied(w) = Occupied(t) \ {c} /\ Items(w) = Unlike(Items(t), t.table[c])
           /\ \A b \in Occupied(w) : w.table[b] = t.table[b] /\ Key[w.table[b]] # Key[t.table[c]]
<1>1. w.table = [t.table EXCEPT ![c] = NULL] /\ w.size = t.size /\ w.itemCount = t.itemCount - 1
    BY DEF TakeOut
<1>2. c \in Buckets(t.size) /\ t.table \in [Buckets(t.size) -> Item \cup {NULL}]
      /\ t.itemCount \in Nat
    BY DEF Typed, Tables, Occupied
<1>3. Occupied(w) = Occupied(t) \ {c}
    BY <1>1, <1>2 DEF Occupied
<1>4. IsFiniteSet(Occupied(t)) /\ Cardinality(Occupied(t)) \in Nat
    BY OccupiedFinite
<1>5. Cardinality(Occupied(w)) = Cardinality(Occupied(t)) - 1
    BY <1>3, <1>4, FS_RemoveElement
<1>6. Counted(w)
    BY <1>1, <1>5 DEF Counted
<1>7. IsFiniteSet(Occupied(w))
    BY <1>3, <1>4, FS_Subset
<1>8. t.itemCount - 1 \in Nat
    BY <1>1, <1>6, <1>7, FS_CardinalityType DEF Counted
<1>9. Typed(w)
    BY <1>2, <1>8, Written DEF TakeOut
<1>10. \A b \in Occupied(w) : w.table[b] = t.table[b] /\ Key[w.table[b]] # Key[t.table[c]]
    BY <1>1, <1>2, <1>3 DEF Distinct, Occupied
<1>11. Distinct(w)
    BY <1>3, <1>10 DEF Distinct
<1>12. Items(w) = Unlike(Items(t), t.table[c])
    <2>1. ASSUME NEW y \in Unlike(Items(t), t.table[c]) PROVE y \in Items(w)
        <3>1. PICK b \in Occupied(t) : y = t.table[b]
            BY DEF Unlike, Items
        <3>2. b # c
            BY <3>1 DEF Unlike
        <3>3. QED BY <1>3, <1>10, <3>1, <3>2 DEF Items
    <2>2. ASSUME NEW y \in Items(w) PROVE y \in Unlike(Items(t), t.table[c])
        BY <1>3, <1>10, <2>2 DEF Items, Unlike
    <2>3. QED BY <2>1, <2>2 DEF Unlike
<1>13. QED BY <1>1, <1>3, <1>6, <1>9, <1>10, <1>11, <1>12

(* After k turns of the loop that puts the rest of a run in again: the     *)
(* rest of the run is as it was, and all else is reached.  What lay in or  *)
(* after the emptied bucket has not moved before it.                       *)
Cleaning(s, p, r, t, k) ==
    /\ Typed(t) /\ Counted(t) /\ Distinct(t) /\ t.size = s.size /\ t.itemCount = s.itemCount - 1
    /\ Items(t) = Unlike(Items(s), s.table[p])
    /\ \A c \in Buckets(s.size) : (\A i \in 0..k : c # After(s, p, i)) => t.table[c] = s.table[c]
    /\ \A c \in Occupied(t) : c \notin Between(s, p, k, r) => Reached(t, c)
    /\ \A c \in Occupied(t) : c < p => \E b \in Occupied(s) : b < p /\ t.table[c] = s.table[b]

(* The run of occupied buckets after p.                                    *)
Run(s, p, r) ==
    /\ r \in 1..(s.size - 1) /\ s.table[After(s, p, r)] = NULL
    /\ \A i \in 1..(r - 1) : s.table[After(s, p, i)] # NULL

LEMMA CleaningBegins ==
    ASSUME hash \in Hashes, NEW s, Sound(s), NEW p \in Occupied(s), NEW r, Run(s, p, r)
    PROVE  Cleaning(s, p, r, TakeOut(s, p), 0)
<1> DEFINE w == TakeOut(s, p)
<1>1. Typed(s) /\ Counted(s) /\ Distinct(s) /\ p \in Buckets(s.size)
    BY DEF Sound, Occupied
<1>2. /\ Typed(w) /\ Counted(w) /\ Distinct(w) /\ w.size = s.size
      /\ w.itemCount = s.itemCount - 1 /\ w.table = [s.table EXCEPT ![p] = NULL]
      /\ Occupied(w) = Occupied(s) \ {p} /\ Items(w) = Unlike(Items(s), s.table[p])
      /\ \A b \in Occupied(w) : w.table[b] = s.table[b]
    BY <1>1, TakeOutIs
<1> HIDE DEF w
<1>3. s.size \in Nat \ {0} /\ s.table \in [Buckets(s.size) -> Item \cup {NULL}] /\ p \in 1..s.size
    BY <1>1 DEF Typed, Buckets
<1>4. After(s, p, 0) = p
    <2>1. 0 \in 0..s.size
        BY <1>3
    <2>2. After(s, p, 0) = IF p + 0 <= s.size THEN p + 0 ELSE p + 0 - s.size
        BY <1>1, <1>3, <2>1, AfterIs
    <2>3. QED BY <1>3, <2>2
<1>5. \A c \in Buckets(s.size) : (\A i \in 0..0 : c # After(s, p, i)) => w.table[c] = s.table[c]
    <2>1. 0 \in 0..0
        OBVIOUS
    <2>2. QED BY <1>2, <1>3, <1>4, <2>1
<1>6. ASSUME NEW b \in Occupied(w), b \notin Between(s, p, 0, r) PROVE Reached(w, b)
    <2>1. r \in 0..(s.size - 1) /\ 0 \in 0..(r - 1) /\ s.table[After(s, p, r)] = NULL
        BY <1>3 DEF Run
    <2>2. Reached(s, b)
        BY <1>2 DEF Sound
    <2>3. QED BY <1>1, <1>2, <1>4, <1>6, <2>1, <2>2, StillReached
<1>7. \A c \in Occupied(w) : c < p => \E b \in Occupied(s) : b < p /\ w.table[c] = s.table[b]
    BY <1>2
<1>8. QED BY <1>2, <1>5, <1>6, <1>7 DEF Cleaning, w

LEMMA CleaningGoesOn ==
    ASSUME hash \in Hashes, NEW s, Good(s), NEW p \in Occupied(s), NEW r, Run(s, p, r),
           NEW k \in Nat, k + 1 < r, NEW t, Cleaning(s, p, r, t, k),
           NEW c, c = After(s, p, k + 1), NEW v, v = Added(TakeOut(t, c), t.table[c])
    PROVE  Cleaning(s, p, r, v, k + 1)
<1> DEFINE n == s.size
           y == t.table[c]
           w == TakeOut(t, c)
           q == Probe(w, y)
<1>1. /\ Sound(s) /\ n \in Nat \ {0} /\ n \in Sizes /\ p \in Buckets(n) /\ p \in 1..n
      /\ s.table \in [Buckets(n) -> Item \cup {NULL}] /\ s.itemCount \in Nat
      /\ s.itemCount <= Limit(n) /\ Limit(n) \in Nat
    BY SizeFacts DEF Good, Sound, Typed, Tables, Occupied, Buckets
<1>2. /\ Typed(t) /\ Counted(t) /\ Distinct(t) /\ t.size = n /\ t.itemCount = s.itemCount - 1
      /\ Items(t) = Unlike(Items(s), s.table[p])
      /\ \A b \in Buckets(n) : (\A i \in 0..k : b # After(s, p, i)) => t.table[b] = s.table[b]
      /\ \A b \in Occupied(t) : b \notin Between(s, p, k, r) => Reached(t, b)
      /\ \A b \in Occupied(t) : b < p => \E a \in Occupied(s) : a < p /\ t.table[b] = s.table[a]
    BY DEF Cleaning
<1>3. /\ r \in 1..(n - 1) /\ s.table[After(s, p, r)] = NULL
      /\ \A i \in 1..(r - 1) : s.table[After(s, p, i)] # NULL
    BY DEF Run
<1> HIDE DEF n
<1>4. /\ k + 1 \in 1..(r - 1) /\ k + 1 \in 0..n /\ k + 1 \in 0..(n - 1) /\ k + 1 \in 0..(r - 1)
      /\ r \in 0..(n - 1) /\ \A i \in 0..k : i \in 0..(n - 1) /\ i # k + 1 /\ i # r
    BY <1>1, <1>3
<1>5. /\ \A i \in 0..n : /\ After(s, p, i) \in Buckets(n)
                         /\ After(s, p, i) = IF p + i <= n THEN p + i ELSE p + i - n
      /\ \A i, j \in 0..(n - 1) : After(s, p, i) = After(s, p, j) => i = j
    BY <1>1, AfterIs DEF n
<1>6. /\ c \in Buckets(n) /\ y = s.table[c] /\ y # NULL /\ y \in Item /\ c \in Occupied(t)
      /\ c \in Occupied(s)
    <2>1. c \in Buckets(n) /\ \A i \in 0..k : c # After(s, p, i)
        BY <1>4, <1>5
    <2>2. y = s.table[c] /\ y # NULL
        BY <1>2, <1>3, <1>4, <2>1
    <2>3. QED BY <1>1, <1>2, <2>1, <2>2 DEF Occupied, n
<1>7. /\ Typed(w) /\ Counted(w) /\ Distinct(w) /\ w.size = n
      /\ w.itemCount = t.itemCount - 1 /\ w.table = [t.table EXCEPT ![c] = NULL]
      /\ Occupied(w) = Occupied(t) \ {c} /\ Items(w) = Unlike(Items(t), y)
      /\ \A b \in Occupied(w) : w.table[b] = t.table[b] /\ Key[w.table[b]] # Key[y]
    BY <1>2, <1>6, TakeOutIs
<1>8. t.table \in [Buckets(n) -> Item \cup {NULL}] /\ w.table[c] = NULL
    BY <1>2, <1>6, <1>7 DEF Typed
<1> HIDE DEF w, y
<1>9. Room(w)
    BY <1>6, <1>7, <1>8 DEF Room
<1>10. PICK d : EndsAt(w, y, d) /\ q = Probed(w, y, d) /\ q \in Buckets(n)
    BY <1>6, <1>7, <1>9, ProbeEnds
<1>11. Found(w, y) = NULL /\ w.table[q] = NULL /\ q \notin Occupied(w)
    <2>1. w.table[q] = NULL \/ Key[w.table[q]] = Key[y]
        BY <1>10 DEF EndsAt, Ends
    <2>2. w.table[q] # NULL => q \in Occupied(w)
        BY <1>7, <1>10 DEF Occupied
    <2>3. w.table[q] = NULL
        BY <1>7, <2>1, <2>2
    <2>4. QED BY <2>3 DEF Found, Occupied
<1> HIDE DEF q
<1> DEFINE u == Put(w, y)
<1>12. /\ Typed(u) /\ Counted(u) /\ u.size = n /\ u.table = [w.table EXCEPT ![q] = y]
       /\ u.itemCount = w.itemCount + 1 /\ Occupied(u) = Occupied(w) \cup {q} /\ Reached(u, q)
       /\ \A b \in Occupied(w) : b # q /\ Reached(w, b) => Reached(u, b)
    BY <1>6, <1>7, <1>9, <1>11, PutIs DEF q
<1> HIDE DEF u
<1>13. v = u /\ u.itemCount = s.itemCount - 1
    <2>1. u.itemCount = s.itemCount - 1
        BY <1>1, <1>2, <1>7, <1>12
    <2>2. ~Full(u)
        BY <1>1, <1>12, <2>1 DEF Full
    <2>3. QED BY <2>1, <2>2 DEF Added, u, w, y
<1>14. w.table \in [Buckets(n) -> Item \cup {NULL}] /\ Occupied(w) \subseteq Buckets(n)
    BY <1>7 DEF Typed, Occupied
<1>15. u.table[q] = y /\ \A b \in Buckets(n) : b # q => u.table[b] = w.table[b]
    BY <1>10, <1>12, <1>14
<1>16. Distinct(u)
    BY <1>7, <1>11, <1>12, <1>14, <1>15 DEF Distinct
<1>17. Items(u) = Items(t)
    <2>1. Items(u) = Items(w) \cup {y}
        BY <1>11, <1>12, <1>14, <1>15 DEF Items
    <2>2. \A z \in Items(t) : Key[z] = Key[y] => z = y
        BY <1>2, <1>6 DEF Items, Distinct, y
    <2>3. y \in Items(t)
        BY <1>6 DEF Items, y
    <2>4. QED BY <1>7, <2>1, <2>2, <2>3 DEF Unlike
<1>18. \E j \in 0..(k + 1) : q = After(s, p, j)
    <2>1. SUFFICES ASSUME \A j \in 0..(k + 1) : q # After(s, p, j) PROVE FALSE
        OBVIOUS
    <2>2. q # c /\ \A i \in 0..k : q # After(s, p, i)
        BY <2>1
    <2>3. s.table[q] = NULL
        BY <1>2, <1>8, <1>7, <1>10, <1>11, <2>2
    <2>4. PICK e \in 0..(n - 1) :
              /\ Probed(s, s.table[c], e) = c
              /\ \A f \in 0..(e - 1) : s.table[Probed(s, s.table[c], f)] # NULL
        BY <1>1, <1>6 DEF Sound, Reached, n
    <2>5. \A f : Probed(w, y, f) = Probed(s, s.table[c], f)
        BY <1>6, <1>7 DEF Probed, n
    <2>6. Ends(w, y, e)
        BY <1>8, <2>4, <2>5 DEF Ends
    <2>7. d \in 0..(n - 1) /\ ~(e < d)
        BY <1>1, <1>7, <1>10, <2>4, <2>6 DEF EndsAt
    <2>8. d # e
        BY <1>10, <2>2, <2>4, <2>5
    <2>9. d \in 0..(e - 1)
        BY <1>1, <2>4, <2>7, <2>8
    <2>10. QED BY <1>10, <2>3, <2>4, <2>5, <2>9
<1>19. ASSUME NEW b \in Buckets(n), \A i \in 0..(k + 1) : b # After(s, p, i)
       PROVE  u.table[b] = s.table[b]
    <2>1. b # q /\ b # c /\ \A i \in 0..k : b # After(s, p, i)
        BY <1>18, <1>19
    <2>2. QED BY <1>2, <1>7, <1>8, <1>15, <2>1
<1>20. ASSUME NEW b \in Occupied(u), b \notin Between(s, p, k + 1, r) PROVE Reached(u, b)
    <2>1. CASE b = q
        BY <1>12, <2>1
    <2>2. CASE b # q
        <3>1. b \in Occupied(w) /\ b \in Occupied(t) /\ b # c
            BY <1>7, <1>12, <2>2
        <3>2. b \notin Between(s, p, k, r)
            <4>1. ASSUME NEW i \in (k + 1)..(r - 1), b = After(s, p, i) PROVE FALSE
                <5>1. i # k + 1
                    BY <3>1, <4>1
                <5>2. i \in ((k + 1) + 1)..(r - 1)
                    BY <1>3, <5>1
                <5>3. QED BY <1>20, <4>1, <5>2 DEF Between
            <4>2. QED BY <4>1 DEF Between
        <3>3. Reached(t, b)
            BY <1>2, <3>1, <3>2
        <3>4. \A i : After(t, p, i) = After(s, p, i)
            BY <1>2 DEF After, n
        <3>5. t.table[After(t, p, r)] = NULL
            <4>1. After(s, p, r) \in Buckets(n) /\ \A i \in 0..k : After(s, p, r) # After(s, p, i)
                BY <1>1, <1>3, <1>4, <1>5
            <4>2. QED BY <1>2, <1>3, <3>4, <4>1
        <3>6. b \notin Between(t, p, k + 1, r)
            BY <1>20, <3>4 DEF Between
        <3>7. w.table = [t.table EXCEPT ![After(t, p, k + 1)] = NULL]
            BY <1>7, <3>4
        <3>8. Reached(w, b)
            BY <1>1, <1>2, <1>4, <1>7, <3>1, <3>3, <3>5, <3>6, <3>7, StillReached
        <3>9. QED BY <1>12, <2>2, <3>1, <3>8
    <2>3. QED BY <2>1, <2>2
<1>21. ASSUME NEW b \in Occupied(u), b < p
       PROVE  \E a \in Occupied(s) : a < p /\ u.table[b] = s.table[a]
    <2>1. CASE b = q
        <3>1. PICK j \in 0..(k + 1) : q = After(s, p, j)
            BY <1>18
        <3>2. j \in 0..n /\ q = (IF p + j <= n THEN p + j ELSE p + j - n)
            BY <1>1, <1>4, <1>5, <3>1
        <3>3. c = IF p + (k + 1) <= n THEN p + (k + 1) ELSE p + (k + 1) - n
            BY <1>4, <1>5
        <3>4. c < p
            BY <1>1, <1>4, <1>21, <2>1, <3>1, <3>2, <3>3
        <3>5. QED BY <1>6, <1>15, <2>1, <3>4
    <2>2. CASE b # q
        <3>1. b \in Occupied(t) /\ b \in Occupied(w) /\ u.table[b] = t.table[b]
            BY <1>7, <1>12, <1>14, <1>15, <2>2
        <3>2. QED BY <1>2, <1>21, <3>1
    <2>3. QED BY <2>1, <2>2
<1>22. /\ Typed(u) /\ Counted(u) /\ Distinct(u) /\ u.size = s.size /\ u.itemCount = s.itemCount - 1
       /\ Items(u) = Unlike(Items(s), s.table[p])
    BY <1>2, <1>12, <1>13, <1>16, <1>17 DEF n
<1>23. \A b \in Buckets(s.size) :
          (\A i \in 0..(k + 1) : b # After(s, p, i)) => u.table[b] = s.table[b]
    BY <1>19 DEF n
<1>24. Cleaning(s, p, r, u, k + 1)
    BY ONLY <1>20, <1>21, <1>22, <1>23 DEF Cleaning
<1>25. QED BY <1>13, <1>24

LEMMA RunExists ==
    ASSUME NEW s, Good(s), NEW p \in Occupied(s)
    PROVE  \E r : Run(s, p, r)
<1> DEFINE n == s.size
           R == {r \in 1..(n - 1) : s.table[After(s, p, r)] = NULL}
<1>1. /\ Typed(s) /\ Counted(s) /\ n \in Nat \ {0} /\ p \in Buckets(n) /\ p \in 1..n
      /\ s.table[p] # NULL /\ s.itemCount < n
    <2>1. s.itemCount \in Nat /\ n \in Sizes /\ s.itemCount <= Limit(n)
        BY DEF Good, Sound, Typed, Tables
    <2>2. s.itemCount < n
        BY <2>1, SizeFacts
    <2>3. QED BY <2>2 DEF Good, Sound, Typed, Occupied, Buckets
<1>2. PICK b \in Buckets(n) : s.table[b] = NULL
    BY <1>1, OccupiedFinite DEF Room, Counted
<1>3. PICK k \in 0..(n - 1) : After(s, p, k) = b
    BY <1>1, AfterIs
<1>4. k # 0
    <2>1. SUFFICES ASSUME k = 0 PROVE p = b
        BY <1>1, <1>2
    <2>2. 0 \in 0..n
        BY <1>1
    <2>3. After(s, p, 0) = IF p + 0 <= n THEN p + 0 ELSE p + 0 - n
        BY <1>1, <2>2, AfterIs
    <2>4. QED BY <1>1, <1>3, <2>1, <2>3
<1>5. k \in R
    BY <1>1, <1>2, <1>3, <1>4
<1>6. R \in SUBSET Nat
    BY <1>1
<1>7. PICK r \in R : \A m \in R : r <= m
    <2> HIDE DEF R
    <2> QED BY <1>5, <1>6, LeastNat
<1>8. ASSUME NEW i \in 1..(r - 1) PROVE s.table[After(s, p, i)] # NULL
    <2>1. i \in 1..(n - 1) /\ ~(r <= i)
        BY <1>1
    <2>2. QED BY <1>7, <2>1
<1>9. QED BY <1>8 DEF Run

(* Removing an item leaves the others, each to be found.                   *)
LEMMA CleanupKeeps ==
    ASSUME hash \in Hashes, NEW s, Good(s), NEW p \in Occupied(s),
           NEW v, v = Cleanup(TakeOut(s, p), p)
    PROVE  /\ Good(v) /\ v.size = s.size /\ v.itemCount = s.itemCount - 1
           /\ Items(v) = Unlike(Items(s), s.table[p])
           /\ \A c \in Occupied(v) : c < p => \E b \in Occupied(s) : b < p /\ v.table[c] = s.table[b]
<1> DEFINE n == s.size
           u == TakeOut(s, p)
           turn == [k \in Nat |-> [t \in Tables |->
                        Added(TakeOut(t, After(u, p, k)), t.table[After(u, p, k)])]]
           turns == Loop(turn, u)
           last(k) == turns[k].table[After(u, p, k + 1)] = NULL
           e == CHOOSE k \in 0..(u.size - 1) : last(k) /\ \A j \in 0..(k - 1) : ~last(j)
<1>1. PICK r : Run(s, p, r)
    BY RunExists
<1>2. /\ n \in Nat \ {0} /\ p \in Buckets(n) /\ r \in 1..(n - 1) /\ s.table[After(s, p, r)] = NULL
      /\ \A i \in 1..(r - 1) : s.table[After(s, p, i)] # NULL
    BY <1>1 DEF Good, Sound, Typed, Occupied, Run
<1>3. u.size = n /\ \A k : After(u, p, k) = After(s, p, k)
    BY DEF TakeOut, After
<1>4. v = turns[e]
    BY DEF Cleanup
<1>5. turns[0] = u /\ \A k \in Nat : turns[k + 1] = turn[k + 1][turns[k]]
    <2> HIDE DEF turn, u
    <2>1. Turns(turns, turn, u)
        BY LoopIs
    <2> HIDE DEF turns
    <2>2. QED BY <2>1 DEF Turns
<1> HIDE DEF turns
<1>6. ASSUME NEW k \in Nat, turns[k] \in Tables, NEW c, c = After(s, p, k + 1)
      PROVE  turns[k + 1] = Added(TakeOut(turns[k], c), turns[k].table[c])
    <2> HIDE DEF u
    <2>1. turn[k + 1] = [t \in Tables |-> Added(TakeOut(t, After(u, p, k + 1)), t.table[After(u, p, k + 1)])]
        OBVIOUS
    <2>2. After(u, p, k + 1) = c
        BY <1>3, <1>6
    <2> HIDE DEF turn
    <2>3. turn[k + 1] = [t \in Tables |-> Added(TakeOut(t, c), t.table[c])]
        BY <2>1, <2>2
    <2>4. turn[k + 1][turns[k]] = Added(TakeOut(turns[k], c), turns[k].table[c])
        BY <1>6, <2>3
    <2>5. QED BY <1>5, <2>4
<1> HIDE DEF n, u, turn
<1> DEFINE S == {k \in Nat : k < r => Cleaning(s, p, r, turns[k], k)}
<1>7. 0 \in S
    BY <1>1, <1>5, CleaningBegins DEF Good, u
<1>8. ASSUME NEW k \in Nat, k \in S PROVE k + 1 \in S
    <2>1. SUFFICES ASSUME k + 1 < r PROVE Cleaning(s, p, r, turns[k + 1], k + 1)
        OBVIOUS
    <2>2. Cleaning(s, p, r, turns[k], k)
        BY <1>2, <1>8, <2>1
    <2>3. turns[k] \in Tables
        BY <2>2 DEF Cleaning, Typed
    <2>4. QED BY <1>1, <1>6, <2>1, <2>2, <2>3, CleaningGoesOn
<1>9. \A k \in 0..(r - 1) : Cleaning(s, p, r, turns[k], k)
    <2>1. Nat \subseteq S
        <3> HIDE DEF S
        <3> QED BY <1>7, <1>8, NatSetInduction
    <2>2. \A k \in 0..(r - 1) : k \in Nat /\ k < r
        BY <1>2
    <2>3. QED BY <2>1, <2>2
<1>10. ASSUME NEW k \in 0..(r - 1)
       PROVE  turns[k].table[After(s, p, k + 1)] = s.table[After(s, p, k + 1)]
    <2>1. k + 1 \in 0..n /\ k + 1 \in 0..(n - 1) /\ \A i \in 0..k : i \in 0..(n - 1) /\ i # k + 1
        BY <1>2
    <2>2. After(s, p, k + 1) \in Buckets(n) /\ \A i \in 0..k : After(s, p, k + 1) # After(s, p, i)
        BY <1>2, <2>1, AfterIs DEF n
    <2>3. QED BY <1>9, <2>2 DEF Cleaning, n
<1>11. last(r - 1) /\ \A k \in 0..(r - 2) : ~last(k)
    <2>1. r - 1 \in 0..(r - 1) /\ (r - 1) + 1 = r
        BY <1>2
    <2>2. last(r - 1)
        BY <1>2, <1>3, <1>10, <2>1
    <2>3. ASSUME NEW k \in 0..(r - 2) PROVE ~last(k)
        <3>1. k \in 0..(r - 1) /\ k + 1 \in 1..(r - 1)
            BY <1>2
        <3>2. QED BY <1>2, <1>3, <1>10, <3>1
    <2>4. QED BY <2>2, <2>3
<1> HIDE DEF last
<1>12. e = r - 1
    <2>1. r - 1 \in 0..(u.size - 1) /\ (r - 1) - 1 = r - 2
        BY <1>2, <1>3
    <2>2. e \in 0..(u.size - 1) /\ last(e) /\ \A j \in 0..(e - 1) : ~last(j)
        BY <1>11, <2>1
    <2> HIDE DEF e
    <2>3. ~(e < r - 1)
        <3>1. SUFFICES ASSUME e < r - 1 PROVE FALSE
            OBVIOUS
        <3>2. e \in 0..(r - 2)
            BY <1>2, <1>3, <2>2, <3>1
        <3>3. QED BY <1>11, <2>2, <3>2
    <2>4. ~(r - 1 < e)
        <3>1. SUFFICES ASSUME r - 1 < e PROVE FALSE
            OBVIOUS
        <3>2. r - 1 \in 0..(e - 1)
            BY <1>2, <1>3, <2>2, <3>1
        <3>3. QED BY <1>11, <2>2, <3>2
    <2>5. QED BY <1>2, <1>3, <2>2, <2>3, <2>4
<1> HIDE DEF e
<1>13. Cleaning(s, p, r, v, r - 1)
    <2>1. r - 1 \in 0..(r - 1)
        BY <1>2
    <2>2. QED BY <1>4, <1>9, <1>12, <2>1
<1>14. Between(s, p, r - 1, r) = {}
    <2>1. ((r - 1) + 1)..(r - 1) = {}
        BY <1>2
    <2>2. QED BY <2>1 DEF Between
<1>15. Sound(v) /\ v.size = s.size /\ v.itemCount = s.itemCount - 1
    BY <1>13, <1>14 DEF Cleaning, Sound
<1>16. v.itemCount <= Limit(v.size)
    <2>1. s.itemCount \in Nat /\ s.itemCount <= Limit(s.size) /\ Limit(s.size) \in Nat
        BY SizeFacts DEF Good, Sound, Typed, Tables
    <2>2. QED BY <1>15, <2>1
<1>17. QED BY <1>13, <1>15, <1>16 DEF Cleaning, Good

LEMMA RemovedKeeps ==
    ASSUME hash \in Hashes, NEW s, Good(s), NEW x \in Item
    PROVE  Good(Removed(s, x)) /\ Items(Removed(s, x)) = Unlike(Items(s), x)
<1> DEFINE p == Probe(s, x)
           v == Cleanup(TakeOut(s, p), p)
<1>1. Sound(s) /\ Room(s)
    <2>1. s.itemCount \in Nat /\ s.size \in Sizes /\ s.itemCount <= Limit(s.size)
        BY DEF Good, Sound, Typed, Tables
    <2>2. s.itemCount < s.size
        BY <2>1, SizeFacts
    <2>3. QED BY <2>2, OccupiedFinite DEF Good, Sound, Counted
<1>2. Removed(s, x) = IF Found(s, x) = NULL THEN s ELSE v
    BY DEF Removed
<1>3. CASE Found(s, x) = NULL
    <2>1. \A y \in Items(s) : Key[y] # Key[x]
        BY <1>1, <1>3, FoundIs DEF Items
    <2>2. QED BY <1>2, <1>3, <2>1 DEF Unlike
<1>4. CASE Found(s, x) # NULL
    <2>1. p \in Occupied(s) /\ Key[s.table[p]] = Key[x]
        BY <1>1, <1>4, FoundIs DEF Found
    <2> HIDE DEF p
    <2>2. Good(v) /\ Items(v) = Unlike(Items(s), s.table[p])
        BY <2>1, CleanupKeeps
    <2>3. QED BY <1>2, <1>4, <2>1, <2>2 DEF Unlike
<1>5. QED BY <1>3, <1>4

(* Removing the item of a bucket: nothing that lay in or after the bucket  *)
(* comes to lie before it.                                                 *)
LEMMA RemovedAt ==
    ASSUME hash \in Hashes, NEW s, Good(s), NEW b \in Occupied(s), NEW v, v = Removed(s, s.table[b])
    PROVE  /\ Good(v) /\ v.size = s.size /\ v.itemCount = s.itemCount - 1
           /\ Items(v) = Unlike(Items(s), s.table[b])
           /\ \A c \in Occupied(v) : c < b => \E a \in Occupied(s) : a < b /\ v.table[c] = s.table[a]
<1> DEFINE x == s.table[b]
           p == Probe(s, x)
<1>1. Sound(s) /\ Room(s) /\ x \in Item
    <2>1. s.itemCount \in Nat /\ s.size \in Sizes /\ s.itemCount <= Limit(s.size)
        BY DEF Good, Sound, Typed, Tables
    <2>2. s.itemCount < s.size
        BY <2>1, SizeFacts
    <2>3. QED BY <2>2, OccupiedFinite DEF Good, Sound, Counted, Typed, Occupied
<1>2. Found(s, x) # NULL
    BY <1>1, FoundIs
<1>3. p \in Occupied(s) /\ Key[s.table[p]] = Key[x]
    BY <1>1, <1>2, FoundIs DEF Found
<1>4. p = b
    BY <1>1, <1>3 DEF Sound, Distinct
<1>5. v = Cleanup(TakeOut(s, b), b)
    BY <1>2, <1>4 DEF Removed
<1>6. QED BY <1>5, CleanupKeeps

LEMMA UnionKeeps ==
    ASSUME hash \in Hashes, NEW s, Good(s), NEW other \in Others,
           NEW v, v = Loop([k \in DOMAIN other |-> [t \in Tables |-> Added(t, other[k])]], s)[Len(other)]
    PROVE  /\ Good(v)
           /\ Items(v) = {y \in Items(s) : Lacks(other, y)} \cup {other[i] : i \in DOMAIN other}
<1> DEFINE L == Len(other)
           turn == [k \in DOMAIN other |-> [t \in Tables |-> Added(t, other[k])]]
           f == Loop(turn, s)
           Those(k) == {y \in Items(s) : \A i \in 1..k : Key[other[i]] # Key[y]} \cup {other[i] : i \in 1..k}
           S == {k \in Nat : k <= L => Good(f[k]) /\ Items(f[k]) = Those(k)}
<1>1. /\ L \in Nat /\ DOMAIN other = 1..L /\ \A i \in 1..L : other[i] \in Item
      /\ \A i, j \in 1..L : Key[other[i]] = Key[other[j]] => i = j
    <2>1. other \in Seq(Item) /\ \A i, j \in DOMAIN other : Key[other[i]] = Key[other[j]] => i = j
        BY SetAssumption
    <2>2. L \in Nat /\ DOMAIN other = 1..L
        BY <2>1
    <2>3. QED BY <2>1, <2>2
<1>2. v = f[L]
    OBVIOUS
<1>3. f[0] = s /\ \A k \in Nat : f[k + 1] = turn[k + 1][f[k]]
    <2> HIDE DEF turn
    <2>1. Turns(f, turn, s)
        BY LoopIs
    <2> HIDE DEF f
    <2>2. QED BY <2>1 DEF Turns
<1> HIDE DEF f, L
<1>4. 0 \in S
    <2>1. Those(0) = Items(s)
        OBVIOUS
    <2>2. QED BY <1>3, <2>1
<1>5. ASSUME NEW k \in Nat, k \in S PROVE k + 1 \in S
    <2>1. SUFFICES ASSUME k + 1 <= L PROVE Good(f[k + 1]) /\ Items(f[k + 1]) = Those(k + 1)
        OBVIOUS
    <2> DEFINE t == f[k]
               x == other[k + 1]
    <2>2. k <= L /\ k + 1 \in 1..L /\ x \in Item
        BY <1>1, <2>1
    <2>3. Good(t) /\ Items(t) = Those(k) /\ t \in Tables
        BY <1>5, <2>2 DEF Good, Sound, Typed
    <2>4. f[k + 1] = Added(t, x)
        <3>1. turn[k + 1] = [w \in Tables |-> Added(w, x)]
            BY <1>1, <2>2
        <3> HIDE DEF turn, x, t
        <3>2. turn[k + 1][t] = Added(t, x)
            BY <2>3, <3>1
        <3>3. QED BY <1>3, <3>2 DEF t
    <2> HIDE DEF t
    <2>5. Good(Added(t, x)) /\ Items(Added(t, x)) = Unlike(Items(t), x) \cup {x}
        <3> HIDE DEF x
        <3> QED BY <2>2, <2>3, AddedKeeps
    <2>6. Unlike(Those(k), x) \cup {x} = Those(k + 1)
        <3>1. \A i : i \in 1..(k + 1) <=> i \in 1..k \/ i = k + 1
            BY <1>5
        <3>2. \A i \in 1..k : Key[other[i]] # Key[x]
            BY <1>1, <2>2
        <3>3. QED BY <3>1, <3>2 DEF Unlike
    <2>7. QED BY <2>3, <2>4, <2>5, <2>6
<1>6. L \in S
    <2> HIDE DEF S
    <2> QED BY <1>1, <1>4, <1>5, NatSetInduction
<1>7. Good(v) /\ Items(v) = Those(L)
    BY <1>1, <1>2, <1>6
<1>8. QED BY <1>1, <1>7 DEF Lacks

LEMMA MinusKeeps ==
    ASSUME hash \in Hashes, NEW s, Good(s), NEW other \in Others,
           NEW v, v = Loop([k \in DOMAIN other |-> [t \in Tables |-> Removed(t, other[k])]], s)[Len(other)]
    PROVE  Good(v) /\ Items(v) = {y \in Items(s) : Lacks(other, y)}
<1> DEFINE L == Len(other)
           turn == [k \in DOMAIN other |-> [t \in Tables |-> Removed(t, other[k])]]
           f == Loop(turn, s)
           Those(k) == {y \in Items(s) : \A i \in 1..k : Key[other[i]] # Key[y]}
           S == {k \in Nat : k <= L => Good(f[k]) /\ Items(f[k]) = Those(k)}
<1>1. L \in Nat /\ DOMAIN other = 1..L /\ \A i \in 1..L : other[i] \in Item
    <2>1. other \in Seq(Item)
        BY SetAssumption
    <2>2. L \in Nat /\ DOMAIN other = 1..L
        BY <2>1
    <2>3. QED BY <2>1, <2>2
<1>2. v = f[L]
    OBVIOUS
<1>3. f[0] = s /\ \A k \in Nat : f[k + 1] = turn[k + 1][f[k]]
    <2> HIDE DEF turn
    <2>1. Turns(f, turn, s)
        BY LoopIs
    <2> HIDE DEF f
    <2>2. QED BY <2>1 DEF Turns
<1> HIDE DEF f, L
<1>4. 0 \in S
    <2>1. Those(0) = Items(s)
        OBVIOUS
    <2>2. QED BY <1>3, <2>1
<1>5. ASSUME NEW k \in Nat, k \in S PROVE k + 1 \in S
    <2>1. SUFFICES ASSUME k + 1 <= L PROVE Good(f[k + 1]) /\ Items(f[k + 1]) = Those(k + 1)
        OBVIOUS
    <2> DEFINE t == f[k]
               x == other[k + 1]
    <2>2. k <= L /\ k + 1 \in 1..L /\ x \in Item
        BY <1>1, <2>1
    <2>3. Good(t) /\ Items(t) = Those(k) /\ t \in Tables
        BY <1>5, <2>2 DEF Good, Sound, Typed
    <2>4. f[k + 1] = Removed(t, x)
        <3>1. turn[k + 1] = [w \in Tables |-> Removed(w, x)]
            BY <1>1, <2>2
        <3> HIDE DEF turn, x, t
        <3>2. turn[k + 1][t] = Removed(t, x)
            BY <2>3, <3>1
        <3>3. QED BY <1>3, <3>2 DEF t
    <2> HIDE DEF t
    <2>5. Good(Removed(t, x)) /\ Items(Removed(t, x)) = Unlike(Items(t), x)
        <3> HIDE DEF x
        <3> QED BY <2>2, <2>3, RemovedKeeps
    <2>6. Unlike(Those(k), x) = Those(k + 1)
        <3>1. \A i : i \in 1..(k + 1) <=> i \in 1..k \/ i = k + 1
            BY <1>5
        <3>2. QED BY <3>1 DEF Unlike
    <2>7. QED BY <2>3, <2>4, <2>5, <2>6
<1>6. L \in S
    <2> HIDE DEF S
    <2> QED BY <1>1, <1>4, <1>5, NatSetInduction
<1>7. Good(v) /\ Items(v) = Those(L)
    BY <1>1, <1>2, <1>6
<1>8. QED BY <1>1, <1>7 DEF Lacks

(* After k turns of the loop of BRSetIntersect, which looks at bucket b    *)
(* next: what lies before b is in the other set, and every turn but those  *)
(* at the end of the table has removed an item or gone past a bucket.      *)
ScannedTo(s, other, k, at) ==
    LET b == at[1]
        t == at[2]
    IN  /\ at = <<b, t>> /\ b \in 1..(s.size + 1) /\ Good(t) /\ t.size = s.size
        /\ Items(t) \subseteq Items(s)
        /\ \A y \in Items(s) : Lacks(other, y) \/ y \in Items(t)
        /\ \A c \in Occupied(t) : c < b => ~Lacks(other, t.table[c])
        /\ b = s.size + 1 \/ (b - 1) + (s.itemCount - t.itemCount) = k

LEMMA ScanGoesOn ==
    ASSUME hash \in Hashes, NEW s, Good(s), NEW other, NEW k \in Nat,
           NEW b, NEW t, ScannedTo(s, other, k, <<b, t>>)
    PROVE  ScannedTo(s, other, k + 1, Scanned(b, t, other))
<1> DEFINE n == s.size
<1>1. /\ b \in 1..(n + 1) /\ Good(t) /\ t.size = n /\ Items(t) \subseteq Items(s)
      /\ \A y \in Items(s) : Lacks(other, y) \/ y \in Items(t)
      /\ \A c \in Occupied(t) : c < b => ~Lacks(other, t.table[c])
      /\ b = n + 1 \/ (b - 1) + (s.itemCount - t.itemCount) = k
    BY DEF ScannedTo
<1>2. n \in Nat \ {0} /\ s.itemCount \in Nat /\ t.itemCount \in Nat
    BY <1>1 DEF Good, Sound, Typed, Tables
<1>3. CASE b = n + 1
    <2>1. Scanned(b, t, other) = <<b, t>>
        BY <1>1, <1>2, <1>3 DEF Scanned
    <2>2. QED BY <1>1, <1>3, <2>1 DEF ScannedTo
<1>4. CASE b \in 1..n /\ t.table[b] # NULL /\ Lacks(other, t.table[b])
    <2> DEFINE v == Removed(t, t.table[b])
    <2>1. Scanned(b, t, other) = <<b, v>>
        BY <1>1, <1>2, <1>4 DEF Scanned
    <2>2. b \in Occupied(t)
        BY <1>1, <1>4 DEF Occupied, Buckets
    <2> HIDE DEF v
    <2>3. /\ Good(v) /\ v.size = t.size /\ v.itemCount = t.itemCount - 1
          /\ Items(v) = Unlike(Items(t), t.table[b])
          /\ \A c \in Occupied(v) : c < b => \E a \in Occupied(t) : a < b /\ v.table[c] = t.table[a]
        <3>1. v = Removed(t, t.table[b]) /\ Good(t)
            BY <1>1 DEF v
        <3>2. QED BY <2>2, <3>1, RemovedAt
    <2>4. \A y \in Items(s) : Lacks(other, y) \/ y \in Items(v)
        <3>1. \A y : ~Lacks(other, y) => Key[y] # Key[t.table[b]]
            BY <1>4 DEF Lacks
        <3>2. QED BY <1>1, <2>3, <3>1 DEF Unlike
    <2>5. \A c \in Occupied(v) : c < b => ~Lacks(other, v.table[c])
        BY <1>1, <2>3
    <2>6. (b - 1) + (s.itemCount - v.itemCount) = k + 1
        BY <1>1, <1>2, <1>4, <2>3
    <2>7. Items(v) \subseteq Items(s)
        BY <1>1, <2>3 DEF Unlike
    <2>8. QED BY <1>1, <2>1, <2>3, <2>4, <2>5, <2>6, <2>7 DEF ScannedTo
<1>5. CASE b \in 1..n /\ ~(t.table[b] # NULL /\ Lacks(other, t.table[b]))
    <2>1. Scanned(b, t, other) = <<b + 1, t>>
        BY <1>1, <1>2, <1>5 DEF Scanned
    <2>2. \A c \in Occupied(t) : c < b + 1 => ~Lacks(other, t.table[c])
        <3>1. \A c \in Occupied(t) : c \in 1..n /\ t.table[c] # NULL
            BY <1>1 DEF Occupied, Buckets
        <3>2. \A c \in 1..n : c < b + 1 => c < b \/ c = b
            BY <1>1, <1>2
        <3>3. QED BY <1>1, <1>5, <3>1, <3>2
    <2>3. b + 1 \in 1..(n + 1) /\ ((b + 1) - 1) + (s.itemCount - t.itemCount) = k + 1
        BY <1>1, <1>2, <1>5
    <2>4. QED BY <1>1, <2>1, <2>2, <2>3 DEF ScannedTo
<1>6. QED BY <1>1, <1>2, <1>3, <1>4, <1>5

LEMMA IntersectedKeeps ==
    ASSUME hash \in Hashes, NEW s, Good(s), NEW other, NEW v, v = Intersected(s, other)
    PROVE  Good(v) /\ Items(v) = {y \in Items(s) : ~Lacks(other, y)}
<1> DEFINE turn == [k \in Nat |-> [at \in Nat \X Tables |-> Scanned(at[1], at[2], other)]]
           from == <<1, s>>
           f == Loop(turn, from)
           m == s.size + s.itemCount
           S == {k \in Nat : ScannedTo(s, other, k, f[k])}
<1>1. s.size \in Nat \ {0} /\ s.itemCount \in Nat
    BY DEF Good, Sound, Typed, Tables
<1>2. f[0] = from /\ \A k \in Nat : f[k + 1] = turn[k + 1][f[k]]
    <2> HIDE DEF turn, from
    <2>1. Turns(f, turn, from)
        BY LoopIs
    <2> HIDE DEF f
    <2>2. QED BY <2>1 DEF Turns
<1>3. v = f[m][2]
    BY DEF Intersected
<1> HIDE DEF f, m
<1>4. 0 \in S
    <2>1. \A c \in Occupied(s) : ~(c < 1)
        BY <1>1 DEF Occupied, Buckets
    <2>2. 1 \in 1..(s.size + 1) /\ (1 - 1) + (s.itemCount - s.itemCount) = 0
        BY <1>1
    <2>3. QED BY <1>2, <2>1, <2>2 DEF ScannedTo
<1>5. ASSUME NEW k \in Nat, k \in S PROVE k + 1 \in S
    <2> DEFINE b == f[k][1]
               t == f[k][2]
    <2>1. f[k] = <<b, t>> /\ ScannedTo(s, other, k, <<b, t>>)
        BY <1>5 DEF ScannedTo
    <2> HIDE DEF b, t
    <2>2. b \in Nat /\ t \in Tables
        BY <1>1, <2>1 DEF ScannedTo, Good, Sound, Typed
    <2>3. f[k + 1] = Scanned(b, t, other)
        <3>1. turn[k + 1] = [at \in Nat \X Tables |-> Scanned(at[1], at[2], other)]
            OBVIOUS
        <3> HIDE DEF turn
        <3>2. <<b, t>> \in Nat \X Tables /\ <<b, t>>[1] = b /\ <<b, t>>[2] = t
            BY <2>2
        <3>3. turn[k + 1][<<b, t>>] = Scanned(<<b, t>>[1], <<b, t>>[2], other)
            BY <3>1, <3>2
        <3>4. QED BY <1>2, <2>1, <3>2, <3>3
    <2>4. ScannedTo(s, other, k + 1, f[k + 1])
        BY <2>1, <2>3, ScanGoesOn
    <2>5. QED BY <2>4
<1>6. m \in Nat /\ ScannedTo(s, other, m, f[m])
    <2>1. m \in Nat
        BY <1>1 DEF m
    <2>2. Nat \subseteq S
        <3> HIDE DEF S
        <3> QED BY <1>4, <1>5, NatSetInduction
    <2>3. QED BY <2>1, <2>2
<1> DEFINE b == f[m][1]
<1>7. /\ b \in 1..(s.size + 1) /\ Good(v) /\ v.size = s.size /\ Items(v) \subseteq Items(s)
      /\ \A y \in Items(s) : Lacks(other, y) \/ y \in Items(v)
      /\ \A c \in Occupied(v) : c < b => ~Lacks(other, v.table[c])
      /\ b = s.size + 1 \/ (b - 1) + (s.itemCount - v.itemCount) = m
    BY <1>3, <1>6 DEF ScannedTo
<1> HIDE DEF b
<1>8. v.itemCount \in Nat
    BY <1>7 DEF Good, Sound, Typed, Tables
<1>9. b = s.size + 1
    <2>1. SUFFICES ASSUME (b - 1) + (s.itemCount - v.itemCount) = s.size + s.itemCount PROVE b = s.size + 1
        BY <1>7 DEF m
    <2>2. b \in 1..(s.size + 1)
        BY <1>7
    <2>3. QED BY <1>1, <1>8, <2>1, <2>2
<1>10. \A y \in Items(v) : ~Lacks(other, y)
    <2>1. \A c \in Occupied(v) : c < b
        BY <1>1, <1>7, <1>9 DEF Occupied, Buckets
    <2>2. QED BY <1>7, <2>1 DEF Items
<1>11. QED BY <1>7, <1>10

-----------------------------------------------------------------------------
(* The invariant of the table *)

SetInv ==
    /\ hash \in Hashes
    /\ Good(set)
    /\ result \in Item \cup {NULL}

(* What a call of the set returns.                                         *)
LEMMA Looked ==
    ASSUME hash \in Hashes, NEW s, Good(s), NEW x \in Item
    PROVE  /\ Found(s, x) = NULL => \A y \in Items(s) : Key[y] # Key[x]
           /\ Found(s, x) # NULL => Found(s, x) \in Items(s) /\ Key[Found(s, x)] = Key[x]
           /\ Found(s, x) \in Item \cup {NULL}
<1>1. Sound(s) /\ Room(s)
    <2>1. s.itemCount \in Nat /\ s.size \in Sizes /\ s.itemCount <= Limit(s.size)
        BY DEF Good, Sound, Typed, Tables
    <2>2. s.itemCount < s.size
        BY <2>1, SizeFacts
    <2>3. QED BY <2>2, OccupiedFinite DEF Good, Sound, Counted
<1>2. /\ Found(s, x) = NULL => \A b \in Occupied(s) : Key[s.table[b]] # Key[x]
      /\ Found(s, x) # NULL => Probe(s, x) \in Occupied(s) /\ Key[Found(s, x)] = Key[x]
    BY <1>1, FoundIs
<1>3. \A b \in Occupied(s) : s.table[b] \in Item
    BY <1>1 DEF Sound, Typed, Occupied
<1>4. QED BY <1>2, <1>3 DEF Found, Items

LEMMA ClearedIs ==
    ASSUME NEW s, Good(s),
           NEW v, v = [table |-> [b \in Buckets(s.size) |-> NULL], size |-> s.size, itemCount |-> 0]
    PROVE  Good(v) /\ Items(v) = {}
<1> DEFINE n == s.size
           f == [b \in Buckets(n) |-> NULL]
<1>1. n \in Sizes /\ n \in Nat \ {0} /\ Limit(n) \in Nat
    BY SizeFacts DEF Good, Sound, Typed, Tables
<1>2. f \in [1..n -> Item \cup {NULL}] /\ \A b \in Buckets(n) : f[b] = NULL
    BY DEF Buckets
<1>3. v = [table |-> f, size |-> n, itemCount |-> 0]
    OBVIOUS
<1> HIDE DEF n, f
<1>4. f \in Seq(Item \cup {NULL})
    BY <1>1, <1>2
<1>5. v \in Tables
    BY <1>1, <1>3, <1>4 DEF Tables
<1>6. Typed(v)
    BY <1>1, <1>2, <1>3, <1>5 DEF Typed, Buckets
<1>7. Occupied(v) = {}
    BY <1>2, <1>3 DEF Occupied
<1>8. Good(v)
    BY <1>1, <1>3, <1>6, <1>7, FS_EmptySet DEF Good, Sound, Distinct, Counted
<1>9. QED BY <1>7, <1>8 DEF Items

(* The table is the same to a call that leaves the hash alone.             *)
LEMMA SetPrimed ==
    ASSUME UNCHANGED hash, NEW v, Good(v), set' = v
    PROVE  Good(set)' /\ Items(set)' = Items(v)
<1>1. \A b : Reached(set, b)' <=> Reached(v, b)
    BY DEF Reached, Probed
<1>2. Occupied(set)' = Occupied(v)
    BY DEF Occupied, Buckets
<1>3. QED BY <1>1, <1>2 DEF Good, Sound, Typed, Distinct, Counted, Items, Limit, Tables, Sizes, Buckets

LEMMA SetInitInv ==
    ASSUME SetInit
    PROVE  SetInv /\ Items(set) = {}
<1>1. 1 \in 1..(Len(TableSizes) - 1) /\ TableSizes[1] >= 0
    BY SetAssumption
<1>2. \A j \in 1..(1 - 1) : TableSizes[j] < 0
    OBVIOUS
<1>3. Good(Empty(0)) /\ Items(Empty(0)) = {}
    BY <1>1, <1>2, EmptyIs
<1>4. QED BY <1>3 DEF SetInit, SetInv

(* Every call keeps the invariant, and does to the items what it promises. *)
LEMMA SetStep ==
    ASSUME SetInv, SetNext
    PROVE  SetInv' /\ Abstract!Next
<1>1. hash \in Hashes /\ Good(set) /\ result \in Item \cup {NULL}
    BY DEF SetInv
<1>2. ASSUME NEW x \in Item, result' = Found(set, x)
      PROVE  Abstract!Returns(x) /\ result' \in Item \cup {NULL}
    <2>1. /\ Found(set, x) = NULL => \A y \in Items(set) : Key[y] # Key[x]
          /\ Found(set, x) # NULL => Found(set, x) \in Items(set) /\ Key[Found(set, x)] = Key[x]
          /\ Found(set, x) \in Item \cup {NULL}
        BY <1>1, Looked
    <2>2. QED BY <1>2, <2>1 DEF Abstract!Returns, Abstract!Like
<1>3. \A x : Abstract!Without(Items(set), {x}) = Unlike(Items(set), x)
    BY DEF Abstract!Without, Abstract!Like, Unlike
<1>4. \A other : Abstract!Without(Items(set), Abstract!ItemsOf(other)) = {y \in Items(set) : Lacks(other, y)}
    BY DEF Abstract!Without, Abstract!Like, Abstract!ItemsOf, Lacks
<1>5. ASSUME NEW x \in Item, Add(x) PROVE SetInv' /\ Abstract!Next
    <2>1. Good(Added(set, x)) /\ Items(Added(set, x)) = Unlike(Items(set), x) \cup {x}
        BY <1>1, AddedKeeps
    <2>2. Good(set)' /\ Items(set)' = Unlike(Items(set), x) \cup {x}
        BY <1>5, <2>1, SetPrimed DEF Add
    <2>3. Abstract!Add(x)
        BY <1>2, <1>3, <1>5, <2>2 DEF Add, Abstract!Add
    <2>4. SetInv'
        BY <1>1, <1>2, <1>5, <2>2 DEF Add, SetInv
    <2>5. QED BY <2>3, <2>4 DEF Abstract!Next
<1>6. ASSUME NEW x \in Item, Remove(x) PROVE SetInv' /\ Abstract!Next
    <2>1. Good(Removed(set, x)) /\ Items(Removed(set, x)) = Unlike(Items(set), x)
        BY <1>1, RemovedKeeps
    <2>2. Good(set)' /\ Items(set)' = Unlike(Items(set), x)
        BY <1>6, <2>1, SetPrimed DEF Remove
    <2>3. Abstract!Remove(x)
        BY <1>2, <1>3, <1>6, <2>2 DEF Remove, Abstract!Remove
    <2>4. SetInv'
        BY <1>1, <1>2, <1>6, <2>2 DEF Remove, SetInv
    <2>5. QED BY <2>3, <2>4 DEF Abstract!Next
<1>7. ASSUME NEW x \in Item, Get(x) PROVE SetInv' /\ Abstract!Next
    <2>1. Good(set)' /\ Items(set)' = Items(set)
        BY <1>1, <1>7, SetPrimed DEF Get
    <2>2. Abstract!Get(x)
        BY <1>2, <1>7, <2>1 DEF Get, Abstract!Get
    <2>3. SetInv'
        BY <1>1, <1>2, <1>7, <2>1 DEF Get, SetInv
    <2>4. QED BY <2>2, <2>3 DEF Abstract!Next
<1>8. ASSUME Clear PROVE SetInv' /\ Abstract!Next
    <2>1. Good(set') /\ Items(set') = {}
        BY <1>1, <1>8, ClearedIs DEF Clear
    <2>2. Good(set)' /\ Items(set)' = {}
        BY <1>8, <2>1, SetPrimed DEF Clear
    <2>3. Abstract!Clear
        BY <1>8, <2>2 DEF Clear, Abstract!Clear
    <2>4. SetInv'
        BY <1>1, <1>8, <2>2 DEF Clear, SetInv
    <2>5. QED BY <2>3, <2>4 DEF Abstract!Next
<1>9. ASSUME NEW other \in Others, Union(other) PROVE SetInv' /\ Abstract!Next
    <2>1. /\ Good(set')
          /\ Items(set') = {y \in Items(set) : Lacks(other, y)} \cup {other[i] : i \in DOMAIN other}
        BY <1>1, <1>9, UnionKeeps DEF Union
    <2>2. Good(set)' /\ Items(set)' = Items(set')
        BY <1>9, <2>1, SetPrimed DEF Union
    <2>3. Abstract!Union(other)
        BY <1>4, <1>9, <2>1, <2>2 DEF Union, Abstract!Union, Abstract!ItemsOf
    <2>4. SetInv'
        BY <1>1, <1>9, <2>2 DEF Union, SetInv
    <2>5. QED BY <2>3, <2>4 DEF Abstract!Next
<1>10. ASSUME NEW other \in Others, Minus(other) PROVE SetInv' /\ Abstract!Next
    <2>1. Good(set') /\ Items(set') = {y \in Items(set) : Lacks(other, y)}
        BY <1>1, <1>10, MinusKeeps DEF Minus
    <2>2. Good(set)' /\ Items(set)' = Items(set')
        BY <1>10, <2>1, SetPrimed DEF Minus
    <2>3. Abstract!Minus(other)
        BY <1>4, <1>10, <2>1, <2>2 DEF Minus, Abstract!Minus
    <2>4. SetInv'
        BY <1>1, <1>10, <2>2 DEF Minus, SetInv
    <2>5. QED BY <2>3, <2>4 DEF Abstract!Next
<1>11. ASSUME NEW other \in Others, Intersect(other) PROVE SetInv' /\ Abstract!Next
    <2>1. Good(set') /\ Items(set') = {y \in Items(set) : ~Lacks(other, y)}
        BY <1>1, <1>11, IntersectedKeeps DEF Intersect
    <2>2. Good(set)' /\ Items(set)' = Items(set')
        BY <1>11, <2>1, SetPrimed DEF Intersect
    <2>3. Abstract!Intersect(other)
        BY <1>4, <1>11, <2>1, <2>2 DEF Intersect, Abstract!Intersect
    <2>4. SetInv'
        BY <1>1, <1>11, <2>2 DEF Intersect, SetInv
    <2>5. QED BY <2>3, <2>4 DEF Abstract!Next
<1>12. QED BY <1>5, <1>6, <1>7, <1>8, <1>9, <1>10, <1>11 DEF SetNext

LEMMA SetInvariant == SetSpec => []SetInv
<1>1. SetInit => SetInv
    BY SetInitInv
<1>2. SetInv /\ [SetNext]_setVars => SetInv'
    <2>1. ASSUME SetInv, UNCHANGED setVars PROVE SetInv'
        <3>1. Good(set)'
            BY <2>1, SetPrimed DEF setVars, SetInv
        <3>2. QED BY <2>1, <3>1 DEF setVars, SetInv
    <2>2. QED BY <2>1, SetStep
<1>3. QED BY <1>1, <1>2, PTL DEF SetSpec

(* The count of a set is that of its items, no two of which are equal, and *)
(* a bucket is empty after any history of growth and removal: every loop   *)
(* that probes for an item ends (BRSetAdd, BRSetRemove, BRSetGet).         *)
THEOREM SetsAreCounted == SetSpec => []SetTypeOK
<1>1. SetInv => SetTypeOK
    <2>1. SUFFICES ASSUME SetInv PROVE SetTypeOK
        OBVIOUS
    <2> DEFINE O == Occupied(set)
               I == Items(set)
               f == [b \in O |-> set.table[b]]
    <2>2. /\ Typed(set) /\ Distinct(set) /\ set.itemCount = Cardinality(O)
          /\ set.itemCount <= Limit(set.size) /\ hash \in Hashes /\ result \in Item \cup {NULL}
        BY <2>1 DEF SetInv, Good, Sound, Counted
    <2>3. IsFiniteSet(O)
        BY <2>2, OccupiedFinite
    <2>4. f \in Surjection(O, I)
        BY DEF Surjection, Items
    <2>5. f \in [O -> I] /\ \A b, c \in O : f[b] = f[c] => b = c
        BY <2>2 DEF Items, Distinct
    <2>6. Cardinality(I) = Cardinality(O)
        <3> HIDE DEF O, I, f
        <3>1. IsFiniteSet(I) /\ Cardinality(I) <= Cardinality(O)
            BY <2>3, <2>4, FS_Surjection
        <3>2. ~(Cardinality(I) < Cardinality(O))
            BY <2>3, <2>5, <3>1, FS_PigeonHole
        <3>3. Cardinality(I) \in Nat /\ Cardinality(O) \in Nat
            BY <2>3, <3>1, FS_CardinalityType
        <3>4. QED BY <3>1, <3>2, <3>3
    <2>7. set.itemCount < set.size
        <3>1. set.itemCount \in Nat /\ set.size \in Sizes
            BY <2>2 DEF Typed, Tables
        <3>2. QED BY <2>2, <3>1, SizeFacts
    <2>8. QED BY <2>2, <2>6, <2>7 DEF SetTypeOK, Typed
<1>2. QED BY <1>1, SetInvariant, PTL

(* A set does what it promises: it has every item that was added since, of *)
(* each key the last, and no other, and it finds what it has, although     *)
(* items lie in buckets that are not their own, past the end of the table, *)
(* and move when another is removed or the table grows (BRSet.c).          *)
THEOREM SetsKeepItems == SetSpec => SetKept
<1>1. SetInit => Abstract!Init
    BY SetInitInv DEF SetInit, Abstract!Init
<1>2. SetInv /\ [SetNext]_setVars => [Abstract!Next]_<<Items(set), result>>
    <2>1. ASSUME UNCHANGED setVars PROVE UNCHANGED <<Items(set), result>>
        BY <2>1 DEF setVars, Items, Occupied, Buckets
    <2>2. QED BY <2>1, SetStep
<1>3. QED BY <1>1, <1>2, SetInvariant, PTL DEF SetSpec, SetKept, Abstract!Spec
=============================================================================
