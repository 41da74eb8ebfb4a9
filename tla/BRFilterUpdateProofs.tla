------------------------ MODULE BRFilterUpdateProofs ------------------------
(***************************************************************************)
(* Proofs about BRFilterUpdate: its types, and that no transaction of an   *)
(* accepted block is missed while one peer at a time is connected, however *)
(* often the bloom filter is replaced and whatever blocks are dropped.     *)
(***************************************************************************)
EXTENDS BRFilterUpdate, FiniteSetTheorems, WellFoundedInduction, SequenceTheorems, TLAPS

(* A set of naturals that is not empty has a least member.                 *)
LEMMA LeastNat ==
    ASSUME NEW S \in SUBSET Nat, S # {}
    PROVE  \E n \in S : \A m \in S : n <= m
<1> DEFINE U == {1..n : n \in S}
<1>1. U \subseteq FiniteSubsetsOf(Nat)
    <2>1. \A n \in Nat : 1..n \subseteq Nat /\ IsFiniteSet(1..n)
        BY FS_Interval
    <2>2. QED BY <2>1 DEF FiniteSubsetsOf
<1>2. PICK x \in U : \A y \in U : ~(<<y, x>> \in StrictSubsetOrdering(Nat))
    <2>1. U # {}
        OBVIOUS
    <2>2. IsWellFoundedOn(StrictSubsetOrdering(Nat), FiniteSubsetsOf(Nat))
        BY FS_StrictSubsetOrderingWellFounded
    <2> HIDE DEF U
    <2> QED BY <1>1, <2>1, <2>2, WFMin
<1>3. PICK n \in S : x = 1..n
    OBVIOUS
<1>4. ASSUME NEW m \in S PROVE n <= m
    <2>1. SUFFICES ASSUME m < n PROVE FALSE
        OBVIOUS
    <2>2. 1..m \in U /\ 1..m \subseteq 1..n /\ 1..m # 1..n
        BY <2>1
    <2>3. 1..m \in SUBSET Nat /\ 1..n \in SUBSET Nat
        OBVIOUS
    <2>4. <<1..m, 1..n>> \in StrictSubsetOrdering(Nat)
        BY <2>2, <2>3 DEF StrictSubsetOrdering
    <2>5. QED BY <2>2, <2>4, <1>2, <1>3
<1>5. QED BY <1>4

(* Induction over the naturals, for a set in place of a predicate.         *)
LEMMA NatSetInduction ==
    ASSUME NEW S, 0 \in S, \A n \in Nat : n \in S => n + 1 \in S
    PROVE  Nat \subseteq S
<1>1. SUFFICES ASSUME Nat \ S # {} PROVE FALSE
    OBVIOUS
<1>2. PICK n \in Nat \ S : \A m \in Nat \ S : n <= m
    BY <1>1, LeastNat
<1>3. n - 1 \in Nat /\ n - 1 \in S
    BY <1>2
<1>4. QED BY <1>2, <1>3

-----------------------------------------------------------------------------
(* What is said of the messages of a connection, in either direction *)

Has(s, type) == \E i \in 1..Len(s) : s[i].type = type

Number(s, type) == Cardinality({i \in DOMAIN s : s[i].type = type})

(* After each message of the first type comes one of the second.           *)
Followed(s, type, next) ==
    \A i \in 1..Len(s) : s[i].type = type =>
        \E j \in 1..Len(s) : i < j /\ s[j].type = next

(* No message of the first type is followed by one of the second.          *)
NoneAfter(s, type, other) ==
    \A i, j \in 1..Len(s) : s[i].type = type /\ s[j].type = other => j < i

(* A node that has filter w, or none, has filter f once it has read s.     *)
EndsWith(s, w, f) ==
    /\ Has(s, "filterload") \/ w = f
    /\ \A i \in 1..Len(s) : s[i].type = "filterload" =>
          \/ s[i].n = f
          \/ \E j \in 1..Len(s) : i < j /\ s[j].type = "filterload"

-----------------------------------------------------------------------------
(* Lemmas about these *)

LEMMA NumberConcat ==
    ASSUME NEW S, NEW s \in Seq(S), NEW u \in Seq(S), NEW type
    PROVE  /\ Number(s, type) \in Nat /\ Number(u, type) \in Nat
           /\ Number(s \o u, type) = Number(s, type) + Number(u, type)
<1> DEFINE a == {i \in DOMAIN s : s[i].type = type}
           b == {i \in DOMAIN u : u[i].type = type}
           z == {i \in DOMAIN (s \o u) : (s \o u)[i].type = type}
           shifted == {i \in z : i > Len(s)}
           shift == [i \in b |-> i + Len(s)]
<1>1. /\ Len(s) \in Nat /\ Len(u) \in Nat
      /\ DOMAIN s = 1..Len(s) /\ DOMAIN u = 1..Len(u)
      /\ DOMAIN (s \o u) = 1..(Len(s) + Len(u))
      /\ \A i \in 1..(Len(s) + Len(u)) :
            (s \o u)[i] = IF i <= Len(s) THEN s[i] ELSE u[i - Len(s)]
    BY ConcatProperties, LenProperties
<1>2. IsFiniteSet(a) /\ IsFiniteSet(b)
    <2>1. IsFiniteSet(1..Len(s)) /\ IsFiniteSet(1..Len(u))
        BY <1>1, FS_Interval
    <2>2. a \in SUBSET (1..Len(s)) /\ b \in SUBSET (1..Len(u))
        BY <1>1
    <2>3. QED BY <2>1, <2>2, FS_Subset
<1>3. shift \in Bijection(b, shifted)
    <2>1. \A i \in b : i \in 1..Len(u) /\ u[i].type = type
        BY <1>1
    <2>2. \A i \in b : shift[i] = i + Len(s) /\ shift[i] \in shifted
        <3> SUFFICES ASSUME NEW i \in b PROVE i + Len(s) \in shifted
            OBVIOUS
        <3>1. i + Len(s) \in 1..(Len(s) + Len(u)) /\ i + Len(s) > Len(s)
              /\ (i + Len(s)) - Len(s) = i
            BY <1>1, <2>1
        <3>2. (s \o u)[i + Len(s)] = u[i]
            BY <1>1, <3>1
        <3>3. QED BY <1>1, <2>1, <3>1, <3>2
    <2>3. \A k \in shifted : \E i \in b : shift[i] = k
        <3> SUFFICES ASSUME NEW k \in shifted PROVE \E i \in b : shift[i] = k
            OBVIOUS
        <3>1. k \in 1..(Len(s) + Len(u)) /\ k > Len(s) /\ (s \o u)[k].type = type
            BY <1>1
        <3>2. k - Len(s) \in 1..Len(u) /\ (s \o u)[k] = u[k - Len(s)] /\ (k - Len(s)) + Len(s) = k
            BY <1>1, <3>1
        <3>3. k - Len(s) \in b
            BY <1>1, <3>1, <3>2
        <3>4. shift[k - Len(s)] = k
            BY <2>2, <3>2, <3>3
        <3>5. QED BY <3>3, <3>4
    <2>4. \A i, j \in b : shift[i] = shift[j] => i = j
        <3> SUFFICES ASSUME NEW i \in b, NEW j \in b, i + Len(s) = j + Len(s) PROVE i = j
            BY <2>2
        <3>1. i \in Nat /\ j \in Nat
            BY <2>1
        <3>2. QED BY <1>1, <3>1
    <2>5. shift \in [b -> shifted]
        BY <2>2
    <2> HIDE DEF shift, b, shifted
    <2>6. QED BY <2>3, <2>4, <2>5 DEF Bijection, Injection, Surjection, IsInjective
<1>4. IsFiniteSet(shifted) /\ Cardinality(shifted) = Cardinality(b)
    BY <1>2, <1>3, FS_Bijection DEF ExistsBijection
<1>5. z = a \cup shifted /\ a \cap shifted = {}
    <2>1. \A i \in z : i <= Len(s) => i \in a
        <3> SUFFICES ASSUME NEW i \in z, i <= Len(s) PROVE i \in a
            OBVIOUS
        <3>1. i \in 1..(Len(s) + Len(u)) /\ (s \o u)[i].type = type
            BY <1>1
        <3>2. i \in 1..Len(s) /\ (s \o u)[i] = s[i]
            BY <1>1, <3>1
        <3>3. QED BY <1>1, <3>1, <3>2
    <2>2. \A i \in a : i \in z /\ ~(i > Len(s))
        <3> SUFFICES ASSUME NEW i \in a PROVE i \in z /\ ~(i > Len(s))
            OBVIOUS
        <3>1. i \in 1..Len(s) /\ s[i].type = type
            BY <1>1
        <3>2. i \in 1..(Len(s) + Len(u)) /\ (s \o u)[i] = s[i] /\ ~(i > Len(s))
            BY <1>1, <3>1
        <3>3. QED BY <1>1, <3>1, <3>2
    <2>3. \A i \in z : i <= Len(s) \/ i > Len(s)
        BY <1>1
    <2> HIDE DEF a, z
    <2>4. QED BY <2>1, <2>2, <2>3
<1>6. Number(s, type) = Cardinality(a) /\ Number(u, type) = Cardinality(b)
      /\ Number(s \o u, type) = Cardinality(z)
    BY DEF Number
<1>7. Cardinality(z) = Cardinality(a) + Cardinality(b)
    <2> HIDE DEF a, b, z, shifted
    <2>1. Cardinality(a \cap shifted) = 0
        BY <1>5, FS_EmptySet
    <2>2. Cardinality(a) \in Nat /\ Cardinality(shifted) \in Nat
        BY <1>2, <1>4, FS_CardinalityType
    <2>3. Cardinality(a \cup shifted) =
              Cardinality(a) + Cardinality(shifted) - Cardinality(a \cap shifted)
        BY <1>2, <1>4, FS_Union
    <2>4. QED BY <1>4, <1>5, <2>1, <2>2, <2>3
<1>8. QED
    <2> HIDE DEF a, b, z
    <2>1. Cardinality(a) \in Nat /\ Cardinality(b) \in Nat
        BY <1>2, FS_CardinalityType
    <2>2. QED BY <1>6, <1>7, <2>1

LEMMA NumberOne ==
    ASSUME NEW m, NEW type
    PROVE  Number(<<m>>, type) = IF m.type = type THEN 1 ELSE 0
<1>1. DOMAIN <<m>> = {1} /\ <<m>>[1] = m
    OBVIOUS
<1>2. CASE m.type = type
    <2>1. {i \in DOMAIN <<m>> : <<m>>[i].type = type} = {1}
        BY <1>1, <1>2
    <2>2. QED BY <1>2, <2>1, FS_Singleton DEF Number
<1>3. CASE m.type # type
    <2>1. {i \in DOMAIN <<m>> : <<m>>[i].type = type} = {}
        BY <1>1, <1>3
    <2>2. QED BY <1>3, <2>1, FS_EmptySet DEF Number
<1>4. QED BY <1>2, <1>3

LEMMA NumberNone ==
    ASSUME NEW S, NEW s \in Seq(S), NEW type
    PROVE  Number(s, type) = 0 <=> ~Has(s, type)
<1> DEFINE a == {i \in DOMAIN s : s[i].type = type}
<1>1. DOMAIN s = 1..Len(s) /\ Len(s) \in Nat
    BY LenProperties
<1>2. IsFiniteSet(a)
    <2>1. IsFiniteSet(1..Len(s)) /\ a \in SUBSET (1..Len(s))
        BY <1>1, FS_Interval
    <2>2. QED BY <2>1, FS_Subset
<1>3. Cardinality(a) = 0 <=> a = {}
    BY <1>2, FS_EmptySet
<1>4. a = {} <=> ~Has(s, type)
    BY <1>1 DEF Has
<1>5. QED BY <1>3, <1>4 DEF Number

LEMMA ConcatIs ==
    ASSUME NEW S, NEW s \in Seq(S), NEW u \in Seq(S)
    PROVE  /\ s \o u \in Seq(S)
           /\ Len(s) \in Nat /\ Len(u) \in Nat /\ Len(s \o u) = Len(s) + Len(u)
           /\ \A i \in 1..Len(s) : i \in 1..Len(s \o u) /\ (s \o u)[i] = s[i]
           /\ \A i \in 1..Len(u) : Len(s) + i \in 1..Len(s \o u) /\ (s \o u)[Len(s) + i] = u[i]
           /\ \A k \in 1..Len(s \o u) :
                 \/ k \in 1..Len(s)
                 \/ k - Len(s) \in 1..Len(u) /\ k > Len(s) /\ k = Len(s) + (k - Len(s))
<1>1. /\ s \o u \in Seq(S)
      /\ Len(s) \in Nat /\ Len(u) \in Nat /\ Len(s \o u) = Len(s) + Len(u)
      /\ \A i \in 1..(Len(s) + Len(u)) :
            (s \o u)[i] = IF i <= Len(s) THEN s[i] ELSE u[i - Len(s)]
    BY ConcatProperties, LenProperties
<1>2. ASSUME NEW i \in 1..Len(u)
      PROVE  Len(s) + i \in 1..Len(s \o u) /\ (s \o u)[Len(s) + i] = u[i]
    <2>1. Len(s) + i \in 1..(Len(s) + Len(u)) /\ ~(Len(s) + i <= Len(s)) /\ (Len(s) + i) - Len(s) = i
        BY <1>1
    <2>2. QED BY <1>1, <2>1
<1>3. \A i \in 1..Len(s) : i \in 1..Len(s \o u) /\ (s \o u)[i] = s[i]
    BY <1>1
<1>4. \A k \in 1..Len(s \o u) :
          \/ k \in 1..Len(s)
          \/ k - Len(s) \in 1..Len(u) /\ k > Len(s) /\ k = Len(s) + (k - Len(s))
    BY <1>1
<1>5. QED BY <1>1, <1>2, <1>3, <1>4

LEMMA HasConcat ==
    ASSUME NEW S, NEW s \in Seq(S), NEW u \in Seq(S), NEW a
    PROVE  Has(s \o u, a) <=> Has(s, a) \/ Has(u, a)
<1> DEFINE z == s \o u
<1>1. /\ \A i \in 1..Len(s) : i \in 1..Len(z) /\ z[i] = s[i]
      /\ \A i \in 1..Len(u) : Len(s) + i \in 1..Len(z) /\ z[Len(s) + i] = u[i]
      /\ \A k \in 1..Len(z) :
            \/ k \in 1..Len(s)
            \/ k - Len(s) \in 1..Len(u) /\ k > Len(s) /\ k = Len(s) + (k - Len(s))
    BY ConcatIs
<1> HIDE DEF z
<1>2. Has(z, a) <=> Has(s, a) \/ Has(u, a)
    <2>1. ASSUME NEW k \in 1..Len(z), z[k].type = a PROVE Has(s, a) \/ Has(u, a)
        <3>1. CASE k \in 1..Len(s)
            BY <1>1, <2>1, <3>1 DEF Has
        <3>2. CASE k - Len(s) \in 1..Len(u) /\ k = Len(s) + (k - Len(s))
            BY <1>1, <2>1, <3>2 DEF Has
        <3>3. QED BY <1>1, <3>1, <3>2
    <2>2. QED BY <1>1, <2>1 DEF Has
<1>3. QED BY <1>2 DEF z

LEMMA FollowedConcat ==
    ASSUME NEW S, NEW s \in Seq(S), NEW u \in Seq(S), NEW a, NEW b, Followed(u, a, b),
           Followed(s, a, b) \/ Has(u, b)
    PROVE  Followed(s \o u, a, b)
<1> DEFINE z == s \o u
<1>1. /\ \A i \in 1..Len(s) : i \in 1..Len(z) /\ z[i] = s[i]
      /\ \A i \in 1..Len(u) : Len(s) + i \in 1..Len(z) /\ z[Len(s) + i] = u[i]
      /\ \A k \in 1..Len(z) :
            \/ k \in 1..Len(s)
            \/ k - Len(s) \in 1..Len(u) /\ k > Len(s) /\ k = Len(s) + (k - Len(s))
      /\ Len(s) \in Nat /\ Len(u) \in Nat
    BY ConcatIs
<1> HIDE DEF z
<1>2. ASSUME NEW k \in 1..Len(z), z[k].type = a
      PROVE  \E j \in 1..Len(z) : k < j /\ z[j].type = b
    <2>1. CASE k \in 1..Len(s)
        <3>1. s[k].type = a
            BY <1>1, <1>2, <2>1
        <3>2. CASE Has(u, b)
            <4>1. PICK j \in 1..Len(u) : u[j].type = b
                BY <3>2 DEF Has
            <4>2. k < Len(s) + j
                BY <1>1, <2>1
            <4>3. QED BY <1>1, <4>1, <4>2
        <3>3. CASE Followed(s, a, b)
            BY <1>1, <2>1, <3>1, <3>3 DEF Followed
        <3>4. QED BY <3>2, <3>3
    <2>2. CASE k - Len(s) \in 1..Len(u) /\ k = Len(s) + (k - Len(s))
        <3>1. u[k - Len(s)].type = a
            BY <1>1, <1>2, <2>2
        <3>2. PICK j \in 1..Len(u) : k - Len(s) < j /\ u[j].type = b
            BY <2>2, <3>1 DEF Followed
        <3>3. k < Len(s) + j
            BY <1>1, <3>2
        <3>4. QED BY <1>1, <3>2, <3>3
    <2>3. QED BY <1>1, <2>1, <2>2
<1>3. Followed(z, a, b)
    BY <1>2 DEF Followed
<1>4. QED BY <1>3 DEF z

LEMMA NoneAfterConcat ==
    ASSUME NEW S, NEW s \in Seq(S), NEW u \in Seq(S), NEW a, NEW b,
           NoneAfter(s, a, b), NoneAfter(u, a, b), ~Has(s, a) \/ ~Has(u, b)
    PROVE  NoneAfter(s \o u, a, b)
<1> DEFINE z == s \o u
<1>1. /\ \A i \in 1..Len(s) : i \in 1..Len(z) /\ z[i] = s[i]
      /\ \A i \in 1..Len(u) : Len(s) + i \in 1..Len(z) /\ z[Len(s) + i] = u[i]
      /\ \A k \in 1..Len(z) :
            \/ k \in 1..Len(s)
            \/ k - Len(s) \in 1..Len(u) /\ k > Len(s) /\ k = Len(s) + (k - Len(s))
      /\ Len(s) \in Nat /\ Len(u) \in Nat
    BY ConcatIs
<1> HIDE DEF z
<1>2. ASSUME NEW i \in 1..Len(z), NEW j \in 1..Len(z), z[i].type = a, z[j].type = b
      PROVE  j < i
    <2>1. CASE j \in 1..Len(s) /\ i \in 1..Len(s)
        BY <1>1, <1>2, <2>1 DEF NoneAfter
    <2>2. CASE j \in 1..Len(s) /\ i > Len(s)
        BY <1>1, <2>2
    <2>3. CASE /\ j - Len(s) \in 1..Len(u) /\ j = Len(s) + (j - Len(s))
               /\ i - Len(s) \in 1..Len(u) /\ i = Len(s) + (i - Len(s))
        <3>1. u[i - Len(s)].type = a /\ u[j - Len(s)].type = b
            BY <1>1, <1>2, <2>3
        <3>2. j - Len(s) < i - Len(s)
            BY <2>3, <3>1 DEF NoneAfter
        <3>3. QED BY <1>1, <3>2
    <2>4. CASE j - Len(s) \in 1..Len(u) /\ j = Len(s) + (j - Len(s)) /\ i \in 1..Len(s)
        <3>1. u[j - Len(s)].type = b /\ s[i].type = a
            BY <1>1, <1>2, <2>4
        <3>2. QED BY <2>4, <3>1 DEF Has
    <2>5. QED BY <1>1, <2>1, <2>2, <2>3, <2>4
<1>3. NoneAfter(z, a, b)
    BY <1>2 DEF NoneAfter
<1>4. QED BY <1>3 DEF z

LEMMA EndsWithConcat ==
    ASSUME NEW S, NEW s \in Seq(S), NEW u \in Seq(S), NEW w, NEW f,
           \/ EndsWith(s, w, f) /\ ~Has(u, "filterload")
           \/ EndsWith(u, w, f) /\ Has(u, "filterload")
    PROVE  EndsWith(s \o u, w, f)
<1> DEFINE z == s \o u
           load == "filterload"
<1>1. /\ \A i \in 1..Len(s) : i \in 1..Len(z) /\ z[i] = s[i]
      /\ \A i \in 1..Len(u) : Len(s) + i \in 1..Len(z) /\ z[Len(s) + i] = u[i]
      /\ \A k \in 1..Len(z) :
            \/ k \in 1..Len(s)
            \/ k - Len(s) \in 1..Len(u) /\ k > Len(s) /\ k = Len(s) + (k - Len(s))
      /\ Len(s) \in Nat /\ Len(u) \in Nat
    BY ConcatIs
<1>2. Has(z, load) <=> Has(s, load) \/ Has(u, load)
    BY HasConcat
<1> HIDE DEF z
<1>3. Has(z, load) \/ w = f
    BY <1>2 DEF EndsWith
<1>4. ASSUME NEW k \in 1..Len(z), z[k].type = load
      PROVE  \/ z[k].n = f
             \/ \E j \in 1..Len(z) : k < j /\ z[j].type = load
    <2>1. CASE k \in 1..Len(s) /\ Has(u, load)
        <3>1. PICK j \in 1..Len(u) : u[j].type = load
            BY <2>1 DEF Has
        <3>2. k < Len(s) + j
            BY <1>1, <2>1
        <3>3. QED BY <1>1, <3>1, <3>2
    <2>2. CASE k \in 1..Len(s) /\ ~Has(u, load)
        BY <1>1, <1>4, <2>2 DEF EndsWith
    <2>3. CASE k - Len(s) \in 1..Len(u) /\ k = Len(s) + (k - Len(s))
        <3>1. u[k - Len(s)].type = load /\ z[k] = u[k - Len(s)]
            BY <1>1, <1>4, <2>3
        <3>2. EndsWith(u, w, f)
            BY <2>3, <3>1 DEF Has
        <3>3. CASE u[k - Len(s)].n = f
            BY <3>1, <3>3
        <3>4. CASE u[k - Len(s)].n # f
            <4>1. PICK j \in 1..Len(u) : k - Len(s) < j /\ u[j].type = load
                BY <2>3, <3>1, <3>2, <3>4 DEF EndsWith
            <4>2. k < Len(s) + j
                BY <1>1, <4>1
            <4>3. QED BY <1>1, <4>1, <4>2
        <3>5. QED BY <3>3, <3>4
    <2>4. QED BY <1>1, <2>1, <2>2, <2>3
<1>5. EndsWith(z, w, f)
    BY <1>3, <1>4 DEF EndsWith
<1>6. QED BY <1>5 DEF z

(* A message more, and the first message less.                             *)
LEMMA AppendFacts ==
    ASSUME NEW S, NEW s \in Seq(S), NEW m \in S
    PROVE  /\ Append(s, m) \in Seq(S)
           /\ \A a : /\ Number(s, a) \in Nat
                     /\ Number(Append(s, m), a) = Number(s, a) + IF m.type = a THEN 1 ELSE 0
                     /\ Has(Append(s, m), a) <=> Has(s, a) \/ m.type = a
           /\ \A a, b : a # b /\ (m.type = b \/ (m.type # a /\ Followed(s, a, b))) =>
                 Followed(Append(s, m), a, b)
           /\ \A a, b : a # b /\ NoneAfter(s, a, b) /\ (m.type = b => ~Has(s, a)) =>
                 NoneAfter(Append(s, m), a, b)
           /\ \A w, f : (IF m.type = "filterload" THEN m.n = f ELSE EndsWith(s, w, f)) =>
                 EndsWith(Append(s, m), w, f)
<1> DEFINE u == <<m>>
<1>1. Append(s, m) = s \o u /\ u \in Seq(S) /\ Append(s, m) \in Seq(S)
    BY AppendIsConcat, AppendProperties
<1>2. Len(u) = 1 /\ u[1] = m
    OBVIOUS
<1>3. \A a : Number(u, a) = IF m.type = a THEN 1 ELSE 0
    BY NumberOne
<1> HIDE DEF u
<1>4. 1..Len(u) = {1}
    BY <1>2
<1>5. \A a : Has(u, a) <=> m.type = a
    BY <1>2, <1>4 DEF Has
<1>6. \A a, b : a # b /\ m.type # a => Followed(u, a, b)
    BY <1>2, <1>4 DEF Followed
<1>7. \A a, b : a # b => NoneAfter(u, a, b)
    BY <1>2, <1>4 DEF NoneAfter
<1>8. \A w, f : m.type = "filterload" /\ m.n = f => EndsWith(u, w, f)
    BY <1>2, <1>4, <1>5 DEF EndsWith
<1>9. \A a : /\ Number(s, a) \in Nat
             /\ Number(Append(s, m), a) = Number(s, a) + IF m.type = a THEN 1 ELSE 0
             /\ Has(Append(s, m), a) <=> Has(s, a) \/ m.type = a
    BY <1>1, <1>3, <1>5, NumberConcat, HasConcat
<1>10. \A a, b : a # b /\ (m.type = b \/ (m.type # a /\ Followed(s, a, b))) =>
          Followed(Append(s, m), a, b)
    BY <1>1, <1>5, <1>6, FollowedConcat
<1>11. \A a, b : a # b /\ NoneAfter(s, a, b) /\ (m.type = b => ~Has(s, a)) =>
          NoneAfter(Append(s, m), a, b)
    BY <1>1, <1>5, <1>7, NoneAfterConcat
<1>12. \A w, f : (IF m.type = "filterload" THEN m.n = f ELSE EndsWith(s, w, f)) =>
          EndsWith(Append(s, m), w, f)
    BY <1>1, <1>5, <1>8, EndsWithConcat
<1>13. QED BY <1>1, <1>9, <1>10, <1>11, <1>12

LEMMA TailFacts ==
    ASSUME NEW S, NEW s \in Seq(S), s # <<>>
    PROVE  /\ Tail(s) \in Seq(S) /\ Head(s) \in S /\ Head(s) = s[1]
           /\ Len(s) \in Nat /\ Len(s) > 0 /\ Len(Tail(s)) = Len(s) - 1
           /\ \A i \in 1..Len(Tail(s)) : i + 1 \in 1..Len(s) /\ Tail(s)[i] = s[i + 1]
           /\ \A a : /\ Number(Tail(s), a) \in Nat
                     /\ Number(s, a) = Number(Tail(s), a) + IF Head(s).type = a THEN 1 ELSE 0
                     /\ Has(s, a) <=> Has(Tail(s), a) \/ Head(s).type = a
           /\ \A a, b : Followed(s, a, b) => Followed(Tail(s), a, b)
           /\ \A a, b : NoneAfter(s, a, b) => NoneAfter(Tail(s), a, b)
           /\ \A a, b : a # b /\ NoneAfter(s, a, b) /\ Head(s).type = a => ~Has(Tail(s), b)
           /\ \A w, f : EndsWith(s, w, f) =>
                 EndsWith(Tail(s), IF Head(s).type = "filterload" THEN Head(s).n ELSE w, f)
<1> DEFINE r == Tail(s)
<1>1. /\ r \in Seq(S) /\ Head(s) \in S /\ Head(s) = s[1]
      /\ Len(s) \in Nat /\ Len(s) > 0 /\ Len(r) = Len(s) - 1
      /\ \A i \in 1..Len(r) : r[i] = s[i + 1]
    BY HeadTailProperties, EmptySeq, LenProperties
<1>2. s = <<Head(s)>> \o r
    <2>1. <<Head(s)>> \in Seq(S) /\ Len(<<Head(s)>>) = 1 /\ <<Head(s)>>[1] = Head(s)
        BY <1>1
    <2>2. /\ <<Head(s)>> \o r \in Seq(S) /\ Len(<<Head(s)>> \o r) = Len(s)
          /\ \A i \in 1..Len(s) : (<<Head(s)>> \o r)[i] = IF i <= 1 THEN <<Head(s)>>[i] ELSE r[i - 1]
        BY <1>1, <2>1, ConcatProperties
    <2>3. ASSUME NEW i \in 1..Len(s) PROVE s[i] = (<<Head(s)>> \o r)[i]
        <3>1. CASE i = 1
            BY <1>1, <2>1, <2>2, <3>1
        <3>2. CASE i # 1
            <4>1. ~(i <= 1) /\ i - 1 \in 1..Len(r) /\ (i - 1) + 1 = i
                BY <1>1, <3>2
            <4>2. QED BY <1>1, <2>2, <4>1
        <3>3. QED BY <3>1, <3>2
    <2> HIDE DEF r
    <2>4. QED BY <2>2, <2>3, SeqEqual
<1>3. <<Head(s)>> \in Seq(S)
    BY <1>1
<1>4. \A a : /\ Number(r, a) \in Nat
             /\ Number(s, a) = Number(r, a) + IF Head(s).type = a THEN 1 ELSE 0
    <2> SUFFICES ASSUME NEW a
                 PROVE  /\ Number(r, a) \in Nat
                        /\ Number(s, a) = Number(r, a) + IF Head(s).type = a THEN 1 ELSE 0
        OBVIOUS
    <2>1. /\ Number(<<Head(s)>>, a) \in Nat /\ Number(r, a) \in Nat
          /\ Number(<<Head(s)>> \o r, a) = Number(<<Head(s)>>, a) + Number(r, a)
        BY <1>1, <1>3, NumberConcat
    <2>2. Number(<<Head(s)>>, a) = IF Head(s).type = a THEN 1 ELSE 0
        BY NumberOne
    <2>3. Number(s, a) = Number(<<Head(s)>> \o r, a)
        BY <1>2, Zenon
    <2> HIDE DEF r
    <2> DEFINE h == <<Head(s)>>
    <2> HIDE DEF h
    <2>4. Number(h, a) \in Nat /\ Number(h \o r, a) = Number(h, a) + Number(r, a)
          /\ Number(s, a) = Number(h \o r, a) /\ Number(h, a) = IF Head(s).type = a THEN 1 ELSE 0
        BY <2>1, <2>2, <2>3, Zenon DEF h
    <2>5. QED BY <2>1, <2>4
<1> HIDE DEF r
<1>5. /\ \A i \in 1..Len(r) : i + 1 \in 1..Len(s) /\ r[i] = s[i + 1]
      /\ \A k \in 1..Len(s) : k = 1 \/ (k - 1 \in 1..Len(r) /\ r[k - 1] = s[k])
    <2>1. \A i \in 1..Len(r) : i + 1 \in 1..Len(s)
        BY <1>1
    <2>2. \A k \in 1..Len(s) : k = 1 \/ (k - 1 \in 1..Len(r) /\ (k - 1) + 1 = k)
        BY <1>1
    <2>3. QED BY <1>1, <2>1, <2>2
<1>6. 1 \in 1..Len(s)
    BY <1>1
<1>7. \A a : Has(s, a) <=> Has(r, a) \/ Head(s).type = a
    BY <1>1, <1>5, <1>6 DEF Has
<1>8. ASSUME NEW a, NEW b, Followed(s, a, b) PROVE Followed(r, a, b)
    <2> SUFFICES ASSUME NEW i \in 1..Len(r), r[i].type = a
                 PROVE  \E j \in 1..Len(r) : i < j /\ r[j].type = b
        BY DEF Followed
    <2>1. i + 1 \in 1..Len(s) /\ s[i + 1].type = a
        BY <1>5
    <2>2. PICK j \in 1..Len(s) : i + 1 < j /\ s[j].type = b
        BY <1>8, <2>1 DEF Followed
    <2>3. j # 1 /\ i < j - 1
        BY <2>2
    <2>4. QED BY <1>5, <2>2, <2>3
<1>9. ASSUME NEW a, NEW b, NoneAfter(s, a, b) PROVE NoneAfter(r, a, b)
    <2> SUFFICES ASSUME NEW i \in 1..Len(r), NEW j \in 1..Len(r), r[i].type = a, r[j].type = b
                 PROVE  j < i
        BY DEF NoneAfter
    <2>1. j + 1 < i + 1
        BY <1>5, <1>9 DEF NoneAfter
    <2>2. QED BY <2>1
<1>10. ASSUME NEW a, NEW b, a # b, NoneAfter(s, a, b), Head(s).type = a PROVE ~Has(r, b)
    <2> SUFFICES ASSUME NEW j \in 1..Len(r), r[j].type = b PROVE FALSE
        BY DEF Has
    <2>1. j + 1 < 1
        BY <1>1, <1>5, <1>6, <1>10 DEF NoneAfter
    <2>2. QED BY <2>1
<1>11. ASSUME NEW w, NEW f, EndsWith(s, w, f)
       PROVE  EndsWith(r, IF Head(s).type = "filterload" THEN Head(s).n ELSE w, f)
    <2> DEFINE v == IF Head(s).type = "filterload" THEN Head(s).n ELSE w
    <2>1. ASSUME NEW i \in 1..Len(r), r[i].type = "filterload"
          PROVE  r[i].n = f \/ \E j \in 1..Len(r) : i < j /\ r[j].type = "filterload"
        <3>1. i + 1 \in 1..Len(s) /\ s[i + 1] = r[i]
            BY <1>5
        <3>2. CASE r[i].n # f
            <4>1. PICK j \in 1..Len(s) : i + 1 < j /\ s[j].type = "filterload"
                BY <1>11, <2>1, <3>1, <3>2 DEF EndsWith
            <4>2. j # 1 /\ i < j - 1
                BY <4>1
            <4>3. QED BY <1>5, <4>1, <4>2
        <3>3. QED BY <3>2
    <2>2. Has(r, "filterload") \/ v = f
        <3> SUFFICES ASSUME ~Has(r, "filterload") PROVE v = f
            OBVIOUS
        <3>1. CASE Head(s).type = "filterload"
            <4>1. s[1].n = f \/ \E j \in 1..Len(s) : 1 < j /\ s[j].type = "filterload"
                BY <1>1, <1>6, <1>11, <3>1 DEF EndsWith
            <4>2. ASSUME NEW j \in 1..Len(s), 1 < j, s[j].type = "filterload" PROVE FALSE
                BY <1>5, <4>2 DEF Has
            <4>3. QED BY <1>1, <3>1, <4>1, <4>2
        <3>2. CASE Head(s).type # "filterload"
            BY <1>7, <1>11, <3>2 DEF EndsWith
        <3>3. QED BY <3>1, <3>2
    <2> HIDE DEF v
    <2>3. EndsWith(r, v, f)
        BY <2>1, <2>2 DEF EndsWith
    <2>4. QED BY <2>3 DEF v
<1>12. QED
    BY <1>1, <1>4, <1>5, <1>7, <1>8, <1>9, <1>10, <1>11 DEF r

-----------------------------------------------------------------------------
(* The inductive invariant.  Its parts are stated of a context c, messages *)
(* o to a node and messages i from it, a filter w of the node, a filter f  *)
(* of the manager and the blocks h of the wallet.                          *)

Kinds == {"filterload", "getdata", "getblocks", "ping", "pong", "inv", "merkleblock"}

Messages(t) == [type : Kinds, blocks : Seq(1..t), n : Nat]

Callbacks == [kind : {"update", "load", "rerequest"}, peer : Peer]

Contexts(t) == [reported : Nat, needs : BOOLEAN, known : Seq(1..t), lastHash : 0..t,
                sent : BOOLEAN, pongs : Seq(Callbacks), current : 0..t]

Wires(t) == [ctx : [Peer -> Contexts(t)], out : [Peer -> Seq(Messages(t))]]

(* One callback for each ping and pong; a merkle block is of one block.    *)
Proper(c, o, i, st) ==
    /\ Len(c.pongs) = Number(o, "ping") + Number(i, "pong")
    /\ \A k \in 1..Len(i) : i[k].type = "merkleblock" => Len(i[k].blocks) = 1
    /\ st = "none" => c.pongs = <<>> /\ c.current = 0

(* The three pings of an update: the second is sent when the first has     *)
(* been answered, the third when the second has; another update can begin  *)
(* before the third is.                                                    *)
Callback(p, kind) == [kind |-> kind, peer |-> p]

Pings(p, c) ==
    \/ Len(c.pongs) = 0 /\ ~c.needs
    \/ Len(c.pongs) = 1 /\ ~c.needs /\ c.pongs[1] = Callback(p, "rerequest")
    \/ /\ Len(c.pongs) = 1 /\ c.needs
       /\ c.pongs[1] \in {Callback(p, "update"), Callback(p, "load")}
    \/ /\ Len(c.pongs) = 2 /\ c.needs
       /\ c.pongs[1] = Callback(p, "rerequest") /\ c.pongs[2] = Callback(p, "update")

(* Nothing that was asked for with the old filter comes after the pong of  *)
(* the first ping, and nothing is asked for before that of the second.     *)
Flushed(c, o, i) ==
    \A k \in 1..Len(c.pongs) :
        /\ c.pongs[k].kind = "update" =>
              /\ Followed(o, "getdata", "ping")
              /\ Has(o, "ping") \/ Followed(i, "merkleblock", "pong")
        /\ c.pongs[k].kind = "load" => ~Has(o, "getdata") /\ ~Has(i, "merkleblock")

(* While there is a filter, the node answers with it, and what its answers *)
(* leave out is not for an address of it.                                  *)
Covered(b, f, h) == Pays[b] \in 1..f => b \in h

Filtered(c, o, i, w, f, h) ==
    /\ NoneAfter(o, "getdata", "filterload")
    /\ EndsWith(o, w, f)
    /\ \A k \in 1..Len(i) :
          i[k].type = "merkleblock" /\ Pays[i[k].blocks[1]] \in 1..f => i[k].n > 0
    /\ c.current # 0 => Covered(c.current, f, h)

Linked(p, c, o, i, w, f, h) ==
    /\ Pings(p, c)
    /\ Flushed(c, o, i)
    /\ f # 0 => Filtered(c, o, i, w, f, h)

(* What a step leaves alone while it sends messages.  While one peer at a  *)
(* time is connected, nobody but the download peer is there.               *)
View == [tip |-> tip, in |-> in, status |-> status, download |-> downloadPeer,
         watched |-> watched, filter |-> filter, wallet |-> wallet, single |-> ~shared]

Right(w, v) ==
    /\ w \in Wires(v.tip) /\ v.in \in [Peer -> Seq(Messages(v.tip))]
    /\ \A p \in Peer : Proper(w.ctx[p], w.out[p], v.in[p], v.status[p])
    /\ v.single =>
          \A p \in Peer :
              /\ p # v.download => v.status[p] = "none" /\ w.out[p] = <<>> /\ v.in[p] = <<>>
              /\ p = v.download =>
                    Linked(p, w.ctx[p], w.out[p], v.in[p], v.watched[p], v.filter, v.wallet)

(* The filter matches the next addresses, and no orphan is from before it. *)
Matched == Used(wallet) + Gap <= filter /\ \A b \in orphans : Covered(b, filter, wallet)

Types ==
    /\ tip \in FirstTip..MaxTip /\ lastBlock \in 0..tip /\ estimated \in 0..tip
    /\ orphans \subseteq 1..tip /\ lastOrphan \in 0..tip /\ wallet \subseteq 1..tip
    /\ downloadPeer \in Connected \cup {NoPeer}
    /\ filter \in Nat /\ watched \in [Peer -> Nat]
    /\ status \in [Peer -> {"none", "connected", "closing"}] /\ shared \in BOOLEAN

ScanInv ==
    /\ Types
    /\ Right(Wire, View)
    /\ ~shared => AllScanned /\ (filter # 0 => Matched)

-----------------------------------------------------------------------------
(* Steps of one connection *)

(* The message sent is not asked for with an old filter.                   *)
Harmless(m, c) == m.type = "getblocks" \/ (m.type = "getdata" /\ ~c.needs)

LEMMA LinkedContext ==
    ASSUME NEW p, NEW c, NEW d, NEW o, NEW i, NEW w, NEW f, NEW h, Linked(p, c, o, i, w, f, h),
           d.pongs = c.pongs, d.needs = c.needs,
           f # 0 /\ d.current # 0 => Covered(d.current, f, h)
    PROVE  Linked(p, d, o, i, w, f, h)
BY DEF Linked, Pings, Flushed, Filtered

LEMMA LinkedSend ==
    ASSUME NEW t, NEW p, NEW c, NEW d, NEW o \in Seq(Messages(t)), NEW m \in Messages(t),
           NEW i, NEW w, NEW f, NEW h, Linked(p, c, o, i, w, f, h),
           d.pongs = c.pongs, d.needs = c.needs, d.current = c.current, Harmless(m, c),
           NEW u, u = Append(o, m)
    PROVE  Linked(p, d, u, i, w, f, h)
<1>1. /\ \A a : Has(u, a) <=> Has(o, a) \/ m.type = a
      /\ m.type # "getdata" /\ Followed(o, "getdata", "ping") => Followed(u, "getdata", "ping")
      /\ NoneAfter(o, "getdata", "filterload") => NoneAfter(u, "getdata", "filterload")
      /\ EndsWith(o, w, f) => EndsWith(u, w, f)
    <2>1. m.type # "filterload" /\ "getdata" # "ping" /\ "getdata" # "filterload"
        BY DEF Harmless
    <2>2. QED BY <2>1, AppendFacts
<1>2. Pings(p, d)
    BY DEF Linked, Pings
<1>3. Flushed(d, u, i)
    <2>1. CASE ~c.needs
        <3>1. Pings(p, c)
            BY DEF Linked
        <3>2. \A k \in 1..Len(c.pongs) : c.pongs[k].kind = "rerequest"
            BY <2>1, <3>1 DEF Pings, Callback
        <3>3. QED BY <3>2 DEF Flushed
    <2>2. CASE c.needs
        <3>1. m.type = "getblocks"
            BY <2>2 DEF Harmless
        <3>2. Flushed(c, o, i)
            BY DEF Linked
        <3>3. QED BY <1>1, <3>1, <3>2 DEF Flushed
    <2>3. QED
        <3>1. Pings(p, c)
            BY DEF Linked
        <3>2. QED BY <2>1, <2>2, <3>1 DEF Pings
<1>4. f # 0 => Filtered(d, u, i, w, f, h)
    BY <1>1 DEF Linked, Filtered
<1>5. QED BY <1>2, <1>3, <1>4 DEF Linked

(* An update begins: its ping comes after all that was asked for.          *)
LEMMA LinkedUpdate ==
    ASSUME NEW t, NEW p \in Peer, NEW c, NEW d, NEW o \in Seq(Messages(t)),
           NEW i, NEW w, NEW f, NEW h, Linked(p, c, o, i, w, f, h), Ping \in Messages(t),
           c.pongs \in Seq(Callbacks), ~c.needs, d.needs,
           d.pongs = Append(c.pongs, Callback(p, "update")), d.current = c.current,
           NEW u, u = Append(o, Ping)
    PROVE  Linked(p, d, u, i, w, f, h)
<1> DEFINE a == Callback(p, "update")
<1>1. Ping.type = "ping"
    BY DEF Ping
<1>2. /\ Has(u, "ping") /\ Followed(u, "getdata", "ping")
      /\ NoneAfter(o, "getdata", "filterload") => NoneAfter(u, "getdata", "filterload")
      /\ EndsWith(o, w, f) => EndsWith(u, w, f)
    <2>1. Ping.type # "filterload" /\ "getdata" # "ping" /\ "getdata" # "filterload"
        BY <1>1
    <2>2. QED BY <1>1, <2>1, AppendFacts
<1>3. a \in Callbacks /\ a.kind = "update"
    BY DEF Callbacks, Callback
<1> HIDE DEF a
<1>4. /\ Len(d.pongs) = Len(c.pongs) + 1 /\ Len(c.pongs) \in Nat
      /\ \A k \in 1..Len(c.pongs) : d.pongs[k] = c.pongs[k]
      /\ d.pongs[Len(c.pongs) + 1] = a
    BY <1>3, AppendProperties, LenProperties DEF a
<1>5. /\ Len(c.pongs) = 0 \/ Len(c.pongs) = 1
      /\ Len(c.pongs) = 1 => c.pongs[1] = Callback(p, "rerequest")
    BY DEF Linked, Pings
<1>6. Pings(p, d)
    <2>1. CASE Len(c.pongs) = 0
        <3>1. Len(d.pongs) = 1 /\ d.pongs[1] = a
            BY <1>4, <2>1
        <3>2. QED BY <3>1 DEF Pings, a
    <2>2. CASE Len(c.pongs) = 1
        <3>1. Len(d.pongs) = 2 /\ d.pongs[2] = a /\ d.pongs[1] = Callback(p, "rerequest")
            BY <1>4, <1>5, <2>2
        <3>2. QED BY <3>1 DEF Pings, a
    <2>3. QED BY <1>5, <2>1, <2>2
<1>7. Flushed(d, u, i)
    <2>1. \A k \in 1..Len(d.pongs) : d.pongs[k].kind # "load"
        <3>1. \A k \in 1..Len(d.pongs) : d.pongs[k] = a \/ d.pongs[k] = Callback(p, "rerequest")
            BY <1>4, <1>5
        <3>2. Callback(p, "rerequest").kind # "load"
            BY DEF Callback
        <3>3. QED BY <1>3, <3>1, <3>2
    <2>2. QED BY <1>2, <2>1 DEF Flushed
<1>8. f # 0 => Filtered(d, u, i, w, f, h)
    BY <1>2 DEF Linked, Filtered
<1>9. QED BY <1>6, <1>7, <1>8 DEF Linked

(* The third ping of an update.                                            *)
LEMMA LinkedRerequest ==
    ASSUME NEW t, NEW p \in Peer, NEW c, NEW d, NEW o \in Seq(Messages(t)),
           NEW i, NEW w, NEW f, NEW h, Linked(p, c, o, i, w, f, h), Ping \in Messages(t),
           ~d.needs,
           Len(d.pongs) = 1, d.pongs[1] = Callback(p, "rerequest"), d.current = c.current,
           NEW u, u = Append(o, Ping)
    PROVE  Linked(p, d, u, i, w, f, h)
<1>1. /\ NoneAfter(o, "getdata", "filterload") => NoneAfter(u, "getdata", "filterload")
      /\ EndsWith(o, w, f) => EndsWith(u, w, f)
    <2>1. Ping.type # "filterload" /\ "getdata" # "filterload"
        BY DEF Ping
    <2>2. QED BY <2>1, AppendFacts
<1>3. Pings(p, d)
    BY DEF Pings
<1>4. Flushed(d, u, i)
    <2>1. \A k \in 1..Len(d.pongs) : d.pongs[k] = Callback(p, "rerequest")
        OBVIOUS
    <2>2. QED BY <2>1 DEF Flushed, Callback
<1>5. f # 0 => Filtered(d, u, i, w, f, h)
    BY <1>1 DEF Linked, Filtered
<1>6. QED BY <1>3, <1>4, <1>5 DEF Linked

(* A message is taken from those of the node.                              *)
LEMMA LinkedPop ==
    ASSUME NEW S, NEW p, NEW c, NEW o, NEW i \in Seq(S), NEW w, NEW f, NEW h,
           Linked(p, c, o, i, w, f, h), i # <<>>, NEW r, r = Tail(i)
    PROVE  Linked(p, c, o, r, w, f, h)
<1>1. /\ \A k \in 1..Len(r) : k + 1 \in 1..Len(i) /\ r[k] = i[k + 1]
      /\ Has(r, "merkleblock") => Has(i, "merkleblock")
      /\ Followed(i, "merkleblock", "pong") => Followed(r, "merkleblock", "pong")
    BY TailFacts
<1>2. Flushed(c, o, r)
    BY <1>1 DEF Linked, Flushed
<1>3. f # 0 => Filtered(c, o, r, w, f, h)
    BY <1>1 DEF Linked, Filtered
<1>4. QED BY <1>2, <1>3 DEF Linked

(* With a pong, the first of the callbacks goes: the last of an update, or *)
(* the second.                                                             *)
LEMMA LinkedAnswered ==
    ASSUME NEW S, NEW p \in Peer, NEW c, NEW d, NEW o, NEW i, NEW w, NEW f, NEW h,
           Linked(p, c, o, i, w, f, h), c.pongs \in Seq(Callbacks), c.pongs # <<>>,
           d.pongs = Tail(c.pongs), d.current = c.current,
           \/ c.pongs[1].kind = "rerequest" /\ d.needs = c.needs
           \/ c.pongs[1].kind = "load" /\ ~d.needs
    PROVE  Linked(p, d, o, i, w, f, h)
<1>1. /\ Len(d.pongs) = Len(c.pongs) - 1 /\ Len(c.pongs) \in Nat /\ Len(c.pongs) > 0
      /\ \A k \in 1..Len(d.pongs) : k + 1 \in 1..Len(c.pongs) /\ d.pongs[k] = c.pongs[k + 1]
    BY TailFacts
<1>2. \/ Len(c.pongs) = 1 /\ ~d.needs
      \/ Len(c.pongs) = 2 /\ d.needs /\ c.pongs[2] = Callback(p, "update")
    <2>1. Pings(p, c)
        BY DEF Linked
    <2>2. Callback(p, "rerequest").kind = "rerequest" /\ Callback(p, "update").kind = "update"
          /\ Callback(p, "load").kind = "load"
        BY DEF Callback
    <2>3. QED BY <1>1, <2>1, <2>2 DEF Pings
<1>3. Pings(p, d)
    <2>1. CASE Len(c.pongs) = 1 /\ ~d.needs
        BY <1>1, <2>1 DEF Pings
    <2>2. CASE Len(c.pongs) = 2 /\ d.needs /\ c.pongs[2] = Callback(p, "update")
        <3>1. Len(d.pongs) = 1 /\ d.pongs[1] = c.pongs[2]
            BY <1>1, <2>2
        <3>2. QED BY <2>2, <3>1 DEF Pings
    <2>3. QED BY <1>2, <2>1, <2>2
<1>4. Flushed(d, o, i)
    BY <1>1 DEF Linked, Flushed
<1>5. f # 0 => Filtered(d, o, i, w, f, h)
    BY DEF Linked, Filtered
<1>6. QED BY <1>3, <1>4, <1>5 DEF Linked

(* With the pong of the first ping of an update, nothing is under way that *)
(* was asked for with the old filter n: the new one is n's.                *)
LEMMA LinkedReload ==
    ASSUME NEW t, NEW p \in Peer, NEW c, NEW d, NEW o \in Seq(Messages(t)), NEW u,
           NEW i \in Seq(Messages(t)), NEW r, NEW w, NEW f, NEW n \in Nat, NEW h, NEW st,
           Linked(p, c, o, i, w, f, h), Proper(c, o, i, st),
           i # <<>>, Head(i).type = "pong", r = Tail(i),
           c.pongs[1].kind = "update", c.current = 0, d.current = 0, Len(c.pongs) > 0,
           d.needs = c.needs, Len(d.pongs) = 1, d.pongs[1] = Callback(p, "load"),
           Filterload(n) \in Messages(t), Ping \in Messages(t),
           u = Append(Append(o, Filterload(n)), Ping)
    PROVE  Linked(p, d, u, r, w, n, h)
<1>1. Len(c.pongs) = 1 /\ c.needs /\ c.pongs[1].kind = "update"
    <2>1. Pings(p, c)
        BY DEF Linked
    <2>2. QED BY <2>1 DEF Pings, Callback
<1>2. /\ Number(o, "ping") \in Nat /\ Number(i, "pong") \in Nat /\ Number(r, "pong") \in Nat
      /\ Number(i, "pong") = Number(r, "pong") + 1 /\ r \in Seq(Messages(t))
    BY TailFacts, NumberConcat
<1>3. ~Has(o, "ping") /\ ~Has(r, "pong")
    <2> DEFINE a == Number(o, "ping")
               b == Number(r, "pong")
    <2>0. 1 = a + (b + 1) /\ a \in Nat /\ b \in Nat
        <3>1. Len(c.pongs) = Number(o, "ping") + Number(i, "pong")
            BY DEF Proper
        <3>2. QED BY ONLY <1>1, <1>2, <3>1
    <2> HIDE DEF a, b
    <2>1. a = 0 /\ b = 0
        BY ONLY <2>0
    <2>2. QED BY <1>2, <2>1, NumberNone DEF a, b
<1>4. ~Has(o, "getdata") /\ ~Has(r, "merkleblock")
    <2>1. Followed(o, "getdata", "ping") /\ Followed(i, "merkleblock", "pong")
        BY <1>1, <1>3 DEF Linked, Flushed
    <2>2. Followed(r, "merkleblock", "pong")
        BY <2>1, TailFacts
    <2>3. QED BY <1>3, <2>1, <2>2 DEF Followed, Has
<1> DEFINE l == Append(o, Filterload(n))
           ld == "filterload"
           gd == "getdata"
<1>5. l \in Seq(Messages(t)) /\ ~Has(l, gd) /\ EndsWith(l, w, n)
    <2>1. Filterload(n).type = "filterload" /\ Filterload(n).n = n /\ "getdata" # "filterload"
        BY DEF Filterload
    <2>2. QED BY <1>4, <2>1, AppendFacts
<1> HIDE DEF l
<1>6. ~Has(u, gd) /\ EndsWith(u, w, n)
    <2>1. Ping.type = "ping" /\ Ping.type # "filterload" /\ "ping" # "getdata"
        BY DEF Ping
    <2>2. u = Append(l, Ping)
        BY DEF l
    <2>3. QED BY <1>5, <2>1, <2>2, AppendFacts
<1>7. Pings(p, d)
    BY <1>1 DEF Pings
<1>8. Flushed(d, u, r)
    <2>1. \A k \in 1..Len(d.pongs) : d.pongs[k].kind = "load"
        BY DEF Callback
    <2>2. QED BY <1>4, <1>6, <2>1 DEF Flushed
<1>9. Filtered(d, u, r, w, n, h)
    BY <1>4, <1>6 DEF Filtered, NoneAfter, Has
<1>10. QED BY <1>7, <1>8, <1>9 DEF Linked

-----------------------------------------------------------------------------
(* Steps of the manager that change one connection *)

LEMMA OneChanges ==
    ASSUME NEW w, NEW v, Right(w, v), NEW x \in Wires(v.tip), NEW p \in Peer,
           \A q \in Peer \ {p} : x.ctx[q] = w.ctx[q] /\ x.out[q] = w.out[q],
           Proper(x.ctx[p], x.out[p], v.in[p], v.status[p]),
           v.single /\ p # v.download => x.out[p] = <<>>,
           v.single /\ p = v.download =>
              Linked(p, x.ctx[p], x.out[p], v.in[p], v.watched[p], v.filter, v.wallet)
    PROVE  Right(x, v)
<1>1. \A q \in Peer : Proper(x.ctx[q], x.out[q], v.in[q], v.status[q])
    BY DEF Right
<1>2. v.single =>
          \A q \in Peer :
              /\ q # v.download => v.status[q] = "none" /\ x.out[q] = <<>> /\ v.in[q] = <<>>
              /\ q = v.download =>
                    Linked(q, x.ctx[q], x.out[q], v.in[q], v.watched[q], v.filter, v.wallet)
    BY DEF Right
<1>3. QED BY <1>1, <1>2 DEF Right

LEMMA AtPeer ==
    ASSUME NEW w, NEW v, Right(w, v), NEW p \in Peer
    PROVE  /\ w \in Wires(v.tip)
           /\ w.ctx[p] \in Contexts(v.tip) /\ w.out[p] \in Seq(Messages(v.tip))
           /\ v.in[p] \in Seq(Messages(v.tip))
           /\ w.ctx[p].pongs \in Seq(Callbacks) /\ w.ctx[p].needs \in BOOLEAN
           /\ Proper(w.ctx[p], w.out[p], v.in[p], v.status[p])
           /\ v.single =>
                /\ p # v.download => v.status[p] = "none" /\ w.out[p] = <<>> /\ v.in[p] = <<>>
                /\ p = v.download =>
                      Linked(p, w.ctx[p], w.out[p], v.in[p], v.watched[p], v.filter, v.wallet)
<1>1. w \in Wires(v.tip) /\ v.in[p] \in Seq(Messages(v.tip))
    BY DEF Right
<1>2. w.ctx[p] \in Contexts(v.tip) /\ w.out[p] \in Seq(Messages(v.tip))
    BY <1>1 DEF Wires
<1>3. w.ctx[p].pongs \in Seq(Callbacks) /\ w.ctx[p].needs \in BOOLEAN
    BY <1>2 DEF Contexts
<1>4. QED BY <1>1, <1>2, <1>3 DEF Right

LEMMA ContextChanged ==
    ASSUME NEW w, NEW v, Right(w, v), NEW x \in Wires(v.tip), NEW p \in Peer,
           \A q \in Peer \ {p} : x.ctx[q] = w.ctx[q],
           \A q \in Peer : x.out[q] = w.out[q],
           x.ctx[p].pongs = w.ctx[p].pongs, x.ctx[p].needs = w.ctx[p].needs,
           v.status[p] # "none",
           v.single /\ p = v.download /\ v.filter # 0 /\ x.ctx[p].current # 0 =>
              Covered(x.ctx[p].current, v.filter, v.wallet)
    PROVE  Right(x, v)
<1>1. Proper(x.ctx[p], x.out[p], v.in[p], v.status[p])
    BY AtPeer DEF Proper
<1>2. v.single /\ p # v.download => x.out[p] = <<>>
    BY AtPeer
<1>3. v.single /\ p = v.download =>
          Linked(p, x.ctx[p], x.out[p], v.in[p], v.watched[p], v.filter, v.wallet)
    BY AtPeer, LinkedContext
<1>4. QED BY <1>1, <1>2, <1>3, OneChanges

(* From w to x, p is sent m, and a callback b of p begins to wait.          *)
Adds(x, w, p, m) == x.out[p] = Append(w.out[p], m)

Calls(x, w, p, b) == x.ctx[p].pongs = Append(w.ctx[p].pongs, b)

LEMMA MessageSent ==
    ASSUME NEW w, NEW v, Right(w, v), NEW x \in Wires(v.tip), NEW p \in Peer,
           \A q \in Peer \ {p} : x.ctx[q] = w.ctx[q] /\ x.out[q] = w.out[q],
           NEW m \in Messages(v.tip), Adds(x, w, p, m), m.type # "ping",
           x.ctx[p].pongs = w.ctx[p].pongs, x.ctx[p].needs = w.ctx[p].needs,
           x.ctx[p].current = w.ctx[p].current,
           v.single => p = v.download /\ Harmless(m, w.ctx[p])
    PROVE  Right(x, v)
<1>1. w.out[p] \in Seq(Messages(v.tip))
    BY AtPeer
<1>2. Proper(x.ctx[p], x.out[p], v.in[p], v.status[p])
    <2>1. Number(x.out[p], "ping") = Number(w.out[p], "ping") /\ Number(w.out[p], "ping") \in Nat
        BY <1>1, AppendFacts DEF Adds
    <2>2. QED BY <2>1, AtPeer DEF Proper
<1>3. v.single /\ p = v.download =>
          Linked(p, x.ctx[p], x.out[p], v.in[p], v.watched[p], v.filter, v.wallet)
    <2> SUFFICES ASSUME v.single, p = v.download
                 PROVE  Linked(p, x.ctx[p], x.out[p], v.in[p], v.watched[p], v.filter, v.wallet)
        OBVIOUS
    <2>1. Linked(p, w.ctx[p], w.out[p], v.in[p], v.watched[p], v.filter, v.wallet)
        BY AtPeer
    <2>2. QED BY <1>1, <2>1, LinkedSend DEF Adds
<1>4. v.single /\ p # v.download => x.out[p] = <<>>
    OBVIOUS
<1>5. QED BY <1>2, <1>3, <1>4, OneChanges

LEMMA PingProper ==
    ASSUME NEW t, NEW c, NEW d, NEW o \in Seq(Messages(t)), NEW i, NEW st, NEW b \in Callbacks,
           Proper(c, o, i, st), st # "none", Ping \in Messages(t),
           Number(i, "pong") \in Nat,
           c.pongs \in Seq(Callbacks), d.pongs = Append(c.pongs, b),
           NEW u, u = Append(o, Ping)
    PROVE  Proper(d, u, i, st)
<1>1. Number(u, "ping") = Number(o, "ping") + 1 /\ Number(o, "ping") \in Nat
    BY AppendFacts DEF Ping
<1>2. Len(d.pongs) = Len(c.pongs) + 1
    BY AppendProperties
<1>3. QED BY <1>1, <1>2 DEF Proper

LEMMA PingIsMessage == ASSUME NEW t PROVE Ping \in Messages(t)
<1>1. <<>> \in Seq(1..t)
    BY EmptySeq
<1>2. QED BY <1>1 DEF Ping, Messages, Kinds

LEMMA PingSent ==
    ASSUME NEW w, NEW v, Right(w, v), NEW x, NEW p \in Peer, NEW b \in Callbacks,
           v.status[p] # "none",
           Adds(x, w, p, Ping), Calls(x, w, p, b)
    PROVE  Proper(x.ctx[p], x.out[p], v.in[p], v.status[p])
<1>1. w.out[p] \in Seq(Messages(v.tip)) /\ w.ctx[p].pongs \in Seq(Callbacks)
      /\ Ping \in Messages(v.tip)
    BY AtPeer, PingIsMessage
<1>2. Number(v.in[p], "pong") \in Nat
    BY AtPeer, NumberConcat
<1>3. Proper(w.ctx[p], w.out[p], v.in[p], v.status[p])
    BY AtPeer
<1>4. QED BY <1>1, <1>2, <1>3, PingProper DEF Adds, Calls

(* The update of a filter begins, for a peer that is there.                *)
LEMMA UpdateBegun ==
    ASSUME NEW w, NEW v, Right(w, v), NEW x \in Wires(v.tip), NEW p \in Peer,
           \A q \in Peer \ {p} : x.ctx[q] = w.ctx[q] /\ x.out[q] = w.out[q],
           Adds(x, w, p, Ping), ~w.ctx[p].needs, x.ctx[p].needs,
           Calls(x, w, p, Callback(p, "update")),
           x.ctx[p].current = w.ctx[p].current,
           p = v.download, v.status[p] # "none"
    PROVE  Right(x, v)
<1>1. w.out[p] \in Seq(Messages(v.tip)) /\ w.ctx[p].pongs \in Seq(Callbacks)
      /\ Ping \in Messages(v.tip) /\ Callback(p, "update") \in Callbacks
    BY AtPeer, PingIsMessage DEF Callbacks, Callback
<1>2. Proper(x.ctx[p], x.out[p], v.in[p], v.status[p])
    BY <1>1, PingSent
<1>3. v.single /\ p = v.download =>
          Linked(p, x.ctx[p], x.out[p], v.in[p], v.watched[p], v.filter, v.wallet)
    <2> SUFFICES ASSUME v.single
                 PROVE  Linked(p, x.ctx[p], x.out[p], v.in[p], v.watched[p], v.filter, v.wallet)
        OBVIOUS
    <2>1. Linked(p, w.ctx[p], w.out[p], v.in[p], v.watched[p], v.filter, v.wallet)
        BY AtPeer
    <2>2. QED BY <1>1, <2>1, LinkedUpdate DEF Adds, Calls
<1>4. v.single /\ p # v.download => x.out[p] = <<>>
    OBVIOUS
<1>5. QED BY <1>2, <1>3, <1>4, OneChanges

(* The third ping, to the download peer.                                   *)
LEMMA RerequestBegun ==
    ASSUME NEW w, NEW v, Right(w, v), NEW x \in Wires(v.tip), NEW p \in Peer, NEW q \in Peer,
           \A r \in Peer \ {p} : x.ctx[r] = w.ctx[r] /\ x.out[r] = w.out[r],
           Adds(x, w, p, Ping), x.ctx[p].needs = w.ctx[p].needs,
           Calls(x, w, p, Callback(q, "rerequest")),
           x.ctx[p].current = w.ctx[p].current,
           p = v.download, v.status[p] # "none",
           v.single => q = p /\ ~w.ctx[p].needs /\ Len(w.ctx[p].pongs) = 0
    PROVE  Right(x, v)
<1>1. w.out[p] \in Seq(Messages(v.tip)) /\ w.ctx[p].pongs \in Seq(Callbacks)
      /\ Ping \in Messages(v.tip) /\ Callback(q, "rerequest") \in Callbacks
    BY AtPeer, PingIsMessage DEF Callbacks, Callback
<1>2. Proper(x.ctx[p], x.out[p], v.in[p], v.status[p])
    BY <1>1, PingSent
<1>3. v.single /\ p = v.download =>
          Linked(p, x.ctx[p], x.out[p], v.in[p], v.watched[p], v.filter, v.wallet)
    <2> SUFFICES ASSUME v.single
                 PROVE  Linked(p, x.ctx[p], x.out[p], v.in[p], v.watched[p], v.filter, v.wallet)
        OBVIOUS
    <2>1. Linked(p, w.ctx[p], w.out[p], v.in[p], v.watched[p], v.filter, v.wallet)
        BY AtPeer
    <2> DEFINE b == Callback(q, "rerequest")
    <2>2. x.ctx[p].pongs = Append(w.ctx[p].pongs, b) /\ b = Callback(p, "rerequest")
          /\ w.ctx[p].pongs = <<>>
        BY <1>1, EmptySeq DEF Calls
    <2> HIDE DEF b
    <2>3. Append(<<>>, b) = <<b>> /\ Len(<<b>>) = 1 /\ <<b>>[1] = b
        OBVIOUS
    <2>4. Len(x.ctx[p].pongs) = 1 /\ x.ctx[p].pongs[1] = Callback(p, "rerequest")
        BY <2>2, <2>3
    <2>5. ~x.ctx[p].needs
        OBVIOUS
    <2>6. x.out[p] = Append(w.out[p], Ping)
        BY DEF Adds
    <2>7. x.ctx[p].current = w.ctx[p].current
        OBVIOUS
    <2>8. QED BY ONLY <1>1, <2>1, <2>4, <2>5, <2>6, <2>7, LinkedRerequest
<1>4. v.single /\ p # v.download => x.out[p] = <<>>
    OBVIOUS
<1>5. QED BY <1>2, <1>3, <1>4, OneChanges

-----------------------------------------------------------------------------
(* What the operations of the manager make of the contexts and messages *)

LEMMA SendIs ==
    ASSUME NEW t, NEW w \in Wires(t), NEW p \in Peer, NEW m \in Messages(t)
    PROVE  LET x == Send(w, p, m)
           IN  /\ x \in Wires(t) /\ x.ctx = w.ctx /\ Adds(x, w, p, m)
               /\ \A q \in Peer \ {p} : x.out[q] = w.out[q]
<1>1. w.out[p] \in Seq(Messages(t)) /\ Append(w.out[p], m) \in Seq(Messages(t))
    BY AppendProperties DEF Wires
<1> DEFINE a == Append(w.out[p], m)
<1>2. Send(w, p, m) = [w EXCEPT !.out = [w.out EXCEPT ![p] = a]]
    BY DEF Send, Wires
<1>3. Adds(Send(w, p, m), w, p, m) <=> Send(w, p, m).out[p] = a
    BY DEF Adds
<1> HIDE DEF a
<1>4. QED BY <1>1, <1>2, <1>3 DEF Wires, a

LEMMA SendPingIs ==
    ASSUME NEW t, NEW w \in Wires(t), NEW p \in Peer, NEW b \in Callbacks
    PROVE  LET x == SendPing(w, p, b)
           IN  /\ x \in Wires(t) /\ Adds(x, w, p, Ping) /\ Calls(x, w, p, b)
               /\ x.ctx[p].needs = w.ctx[p].needs /\ x.ctx[p].current = w.ctx[p].current
               /\ \A q \in Peer \ {p} : x.ctx[q] = w.ctx[q] /\ x.out[q] = w.out[q]
<1> DEFINE a == Append(w.out[p], Ping)
           n == Append(w.ctx[p].pongs, b)
           d == [w.ctx[p] EXCEPT !.pongs = n]
<1>1. a \in Seq(Messages(t)) /\ n \in Seq(Callbacks) /\ w.ctx[p] \in Contexts(t)
    <2>1. w.out[p] \in Seq(Messages(t)) /\ w.ctx[p] \in Contexts(t)
        BY DEF Wires
    <2>2. w.ctx[p].pongs \in Seq(Callbacks)
        BY <2>1 DEF Contexts
    <2>3. QED BY <2>1, <2>2, PingIsMessage, AppendProperties
<1>2. SendPing(w, p, b) = [w EXCEPT !.out = [w.out EXCEPT ![p] = a], !.ctx = [w.ctx EXCEPT ![p] = d]]
    BY DEF SendPing, Wires, Contexts
<1>3. /\ Adds(SendPing(w, p, b), w, p, Ping) <=> SendPing(w, p, b).out[p] = a
      /\ Calls(SendPing(w, p, b), w, p, b) <=> SendPing(w, p, b).ctx[p].pongs = n
    BY DEF Adds, Calls
<1> HIDE DEF a, n
<1>4. d \in Contexts(t) /\ d.pongs = n /\ d.needs = w.ctx[p].needs /\ d.current = w.ctx[p].current
    BY <1>1 DEF Contexts
<1> HIDE DEF d
<1> DEFINE x == SendPing(w, p, b)
           c == [w.ctx EXCEPT ![p] = d]
           o == [w.out EXCEPT ![p] = a]
<1>5. w.ctx \in [Peer -> Contexts(t)] /\ w.out \in [Peer -> Seq(Messages(t))]
    BY DEF Wires
<1>6. /\ c \in [Peer -> Contexts(t)] /\ o \in [Peer -> Seq(Messages(t))] /\ c[p] = d /\ o[p] = a
      /\ \A q \in Peer \ {p} : c[q] = w.ctx[q] /\ o[q] = w.out[q]
    BY ONLY <1>1, <1>4, <1>5, p \in Peer
<1>7. x = [ctx |-> c, out |-> o]
    <2>1. w = [ctx |-> w.ctx, out |-> w.out]
        BY DEF Wires
    <2> HIDE DEF c, o
    <2>2. x = [w EXCEPT !.out = o, !.ctx = c]
        BY <1>2 DEF c, o
    <2> HIDE DEF x
    <2>3. QED BY <2>1, <2>2
<1> HIDE DEF c, o, x
<1>8. x \in Wires(t) /\ x.ctx = c /\ x.out = o
    BY <1>6, <1>7 DEF Wires
<1>9. Adds(x, w, p, Ping) /\ Calls(x, w, p, b)
    BY <1>3, <1>4, <1>6, <1>8 DEF x
<1>10. QED BY <1>4, <1>6, <1>8, <1>9 DEF x

LEMMA SendGetblocksIs ==
    ASSUME NEW t, NEW w \in Wires(t), NEW p \in Peer, NEW h \in Nat
    PROVE  LET x == SendGetblocks(w, p, h)
           IN  /\ x \in Wires(t) /\ Adds(x, w, p, Getblocks(h)) /\ Getblocks(h) \in Messages(t)
               /\ x.ctx[p].pongs = w.ctx[p].pongs
               /\ x.ctx[p].needs = w.ctx[p].needs /\ x.ctx[p].current = w.ctx[p].current
               /\ \A q \in Peer \ {p} : x.ctx[q] = w.ctx[q] /\ x.out[q] = w.out[q]
<1> DEFINE a == Append(w.out[p], Getblocks(h))
           d == [w.ctx[p] EXCEPT !.sent = TRUE]
<1>0. Getblocks(h) \in Messages(t)
    <2>1. <<>> \in Seq(1..t)
        BY EmptySeq
    <2>2. QED BY <2>1 DEF Getblocks, Messages, Kinds
<1>1. a \in Seq(Messages(t)) /\ w.ctx[p] \in Contexts(t)
    <2>1. w.out[p] \in Seq(Messages(t)) /\ w.ctx[p] \in Contexts(t)
        BY DEF Wires
    <2>2. QED BY <1>0, <2>1, AppendProperties
<1>2. SendGetblocks(w, p, h) =
          [w EXCEPT !.out = [w.out EXCEPT ![p] = a], !.ctx = [w.ctx EXCEPT ![p] = d]]
    BY DEF SendGetblocks, Wires, Contexts
<1>3. Adds(SendGetblocks(w, p, h), w, p, Getblocks(h)) <=> SendGetblocks(w, p, h).out[p] = a
    BY DEF Adds
<1> HIDE DEF a
<1>4. /\ d \in Contexts(t) /\ d.pongs = w.ctx[p].pongs
      /\ d.needs = w.ctx[p].needs /\ d.current = w.ctx[p].current
    BY <1>1 DEF Contexts
<1> HIDE DEF d
<1> DEFINE x == SendGetblocks(w, p, h)
<1>5. /\ x \in Wires(t) /\ x.out[p] = a /\ x.ctx[p] = d
      /\ \A q \in Peer \ {p} : x.ctx[q] = w.ctx[q] /\ x.out[q] = w.out[q]
    <2> DEFINE c == [w.ctx EXCEPT ![p] = d]
               o == [w.out EXCEPT ![p] = a]
    <2>1. w.ctx \in [Peer -> Contexts(t)] /\ w.out \in [Peer -> Seq(Messages(t))]
        BY DEF Wires
    <2>2. /\ c \in [Peer -> Contexts(t)] /\ o \in [Peer -> Seq(Messages(t))]
          /\ c[p] = d /\ o[p] = a
          /\ \A q \in Peer \ {p} : c[q] = w.ctx[q] /\ o[q] = w.out[q]
        BY ONLY <1>1, <1>4, <2>1, p \in Peer
    <2>3. x = [ctx |-> c, out |-> o]
        <3>1. w = [ctx |-> w.ctx, out |-> w.out]
            BY DEF Wires
        <3> HIDE DEF c, o
        <3>2. x = [w EXCEPT !.out = o, !.ctx = c]
            BY <1>2 DEF c, o
        <3> HIDE DEF x
        <3>3. QED BY <3>1, <3>2
    <2> HIDE DEF c, o, x
    <2>4. x \in Wires(t) /\ x.ctx = c /\ x.out = o
        BY <2>2, <2>3 DEF Wires
    <2>5. QED BY <2>2, <2>4
<1> HIDE DEF x
<1>6. Adds(x, w, p, Getblocks(h))
    BY <1>3, <1>5 DEF x
<1>7. QED BY <1>0, <1>4, <1>5, <1>6 DEF x

(* What a step may look at: a view in which a download peer is there.      *)
Seen(v) ==
    /\ v.download = downloadPeer
    /\ downloadPeer \in Peer => v.status[downloadPeer] # "none"

LEMMA RightGetblocks ==
    ASSUME NEW w, NEW v, Right(w, v), NEW p \in Peer, NEW h \in Nat, v.single => p = v.download
    PROVE  Right(SendGetblocks(w, p, h), v)
<1> DEFINE x == SendGetblocks(w, p, h)
           m == Getblocks(h)
<1>1. w \in Wires(v.tip)
    BY DEF Right
<1>2. /\ x \in Wires(v.tip) /\ Adds(x, w, p, m) /\ m \in Messages(v.tip)
      /\ x.ctx[p].pongs = w.ctx[p].pongs
      /\ x.ctx[p].needs = w.ctx[p].needs /\ x.ctx[p].current = w.ctx[p].current
      /\ \A q \in Peer \ {p} : x.ctx[q] = w.ctx[q] /\ x.out[q] = w.out[q]
    BY <1>1, SendGetblocksIs
<1>3. Harmless(m, w.ctx[p]) /\ m.type # "ping"
    BY DEF Harmless, Getblocks
<1> HIDE DEF x, m
<1>4. Right(x, v)
    BY <1>2, <1>3, MessageSent
<1>5. QED BY <1>4 DEF x

LEMMA RightUpdate ==
    ASSUME NEW w, NEW v, Right(w, v), Seen(v), downloadPeer \in Peer \cup {NoPeer}
    PROVE  Right(UpdateFilter(w), v)
<1>1. CASE downloadPeer = NoPeer \/ w.ctx[downloadPeer].needs
    BY <1>1 DEF UpdateFilter
<1>2. CASE downloadPeer # NoPeer /\ ~w.ctx[downloadPeer].needs
    <2> DEFINE p == downloadPeer
               b == Callback(p, "update")
               y == [w EXCEPT !.ctx[p].needs = TRUE]
               x == SendPing(y, p, b)
    <2>1. UpdateFilter(w) = x /\ p \in Peer /\ b \in Callbacks
        BY <1>2 DEF UpdateFilter, Callback, Callbacks
    <2>2. w \in Wires(v.tip)
        BY DEF Right
    <2>3. /\ y \in Wires(v.tip) /\ y.out = w.out
          /\ y.ctx[p].needs /\ y.ctx[p].pongs = w.ctx[p].pongs
          /\ y.ctx[p].current = w.ctx[p].current
          /\ \A q \in Peer \ {p} : y.ctx[q] = w.ctx[q]
        <3> DEFINE d == [w.ctx[p] EXCEPT !.needs = TRUE]
        <3>1. w.ctx[p] \in Contexts(v.tip)
            BY <2>1, <2>2 DEF Wires
        <3>2. /\ d \in Contexts(v.tip) /\ d.needs /\ d.pongs = w.ctx[p].pongs
              /\ d.current = w.ctx[p].current
            BY <3>1 DEF Contexts
        <3>3. y = [w EXCEPT !.ctx = [w.ctx EXCEPT ![p] = d]]
            BY <2>1, <2>2 DEF Wires
        <3> HIDE DEF d, y
        <3>4. QED BY <2>1, <2>2, <3>2, <3>3 DEF Wires
    <2> HIDE DEF y, b
    <2>4. /\ x \in Wires(v.tip) /\ Adds(x, y, p, Ping) /\ Calls(x, y, p, b)
          /\ x.ctx[p].needs = y.ctx[p].needs /\ x.ctx[p].current = y.ctx[p].current
          /\ \A q \in Peer \ {p} : x.ctx[q] = y.ctx[q] /\ x.out[q] = y.out[q]
        <3>1. p \in Peer /\ b \in Callbacks /\ y \in Wires(v.tip)
            BY <2>1, <2>3
        <3>2. QED BY ONLY <3>1, SendPingIs
    <2> HIDE DEF x
    <2>5. Adds(x, w, p, Ping) /\ Calls(x, w, p, b)
        BY <2>3, <2>4 DEF Adds, Calls
    <2>6. p = v.download /\ v.status[p] # "none"
        BY <2>1 DEF Seen
    <2>7. /\ x.ctx[p].needs /\ ~w.ctx[p].needs /\ x.ctx[p].current = w.ctx[p].current
          /\ \A q \in Peer \ {p} : x.ctx[q] = w.ctx[q] /\ x.out[q] = w.out[q]
        BY <1>2, <2>3, <2>4
    <2> HIDE DEF p
    <2>8. Right(x, v)
        BY <2>1, <2>4, <2>5, <2>6, <2>7, UpdateBegun DEF b
    <2>9. QED BY <2>1, <2>8
<1>3. QED BY <1>1, <1>2

-----------------------------------------------------------------------------
(* Steps that change what the manager sees *)

(* All but the messages of the nodes stays as it was.                      *)
OnlyIn(u, v) ==
    /\ u.tip = v.tip /\ u.status = v.status /\ u.download = v.download
    /\ u.watched = v.watched /\ u.filter = v.filter /\ u.wallet = v.wallet /\ u.single = v.single

LEMMA ProperPop ==
    ASSUME NEW S, NEW c, NEW o, NEW i \in Seq(S), NEW st, Proper(c, o, i, st), i # <<>>,
           NEW r, r = Tail(i), Head(i).type # "pong"
    PROVE  Proper(c, o, r, st)
<1>1. /\ \A k \in 1..Len(r) : k + 1 \in 1..Len(i) /\ r[k] = i[k + 1]
      /\ Number(i, "pong") = Number(r, "pong") /\ Number(r, "pong") \in Nat
    BY TailFacts
<1>2. \A k \in 1..Len(r) : r[k].type = "merkleblock" => Len(r[k].blocks) = 1
    BY <1>1 DEF Proper
<1>3. QED BY <1>1, <1>2 DEF Proper

LEMMA ProperAnswered ==
    ASSUME NEW S, NEW c, NEW d, NEW o \in Seq(S), NEW i \in Seq(S), NEW st, Proper(c, o, i, st),
           i # <<>>, NEW r, r = Tail(i), Head(i).type = "pong",
           c.pongs \in Seq(Callbacks), c.pongs # <<>>, d.pongs = Tail(c.pongs)
    PROVE  Proper(d, o, r, st)
<1>1. /\ \A k \in 1..Len(r) : k + 1 \in 1..Len(i) /\ r[k] = i[k + 1]
      /\ Number(i, "pong") = Number(r, "pong") + 1 /\ Number(r, "pong") \in Nat
      /\ Number(o, "ping") \in Nat
    BY TailFacts, NumberConcat
<1>2. \A k \in 1..Len(r) : r[k].type = "merkleblock" => Len(r[k].blocks) = 1
    BY <1>1 DEF Proper
<1>3. Len(d.pongs) = Len(c.pongs) - 1
    BY TailFacts
<1>4. Len(d.pongs) = Number(o, "ping") + Number(r, "pong")
    <2> DEFINE a == Number(o, "ping")
               b == Number(r, "pong")
               n == Len(c.pongs)
    <2>1. n = a + (b + 1) /\ a \in Nat /\ b \in Nat /\ Len(d.pongs) = n - 1
        BY <1>1, <1>3 DEF Proper
    <2> HIDE DEF a, b, n
    <2>2. Len(d.pongs) = a + b
        BY ONLY <2>1
    <2>3. QED BY <2>2 DEF a, b
<1>5. st # "none"
    BY DEF Proper
<1>6. QED BY <1>2, <1>4, <1>5 DEF Proper

LEMMA RightPopped ==
    ASSUME NEW w, NEW v, Right(w, v), NEW u, OnlyIn(u, v), NEW p \in Peer,
           v.in[p] # <<>>, Head(v.in[p]).type # "pong",
           u.in = [v.in EXCEPT ![p] = Tail(@)]
    PROVE  Right(w, u)
<1>1. v.in \in [Peer -> Seq(Messages(v.tip))] /\ w \in Wires(v.tip)
    BY DEF Right
<1> DEFINE r == Tail(v.in[p])
<1>2. r \in Seq(Messages(v.tip))
    BY <1>1, TailFacts
<1>3. u.in \in [Peer -> Seq(Messages(u.tip))] /\ u.in[p] = r /\ \A q \in Peer \ {p} : u.in[q] = v.in[q]
    BY <1>1, <1>2 DEF OnlyIn
<1>4. Proper(w.ctx[p], w.out[p], r, v.status[p])
    <2>1. Proper(w.ctx[p], w.out[p], v.in[p], v.status[p])
        BY AtPeer
    <2>2. QED BY <1>1, <2>1, ProperPop
<1>5. v.single => p = v.download /\ Linked(p, w.ctx[p], w.out[p], r, v.watched[p], v.filter, v.wallet)
    <2>1. SUFFICES ASSUME v.single
                   PROVE  p = v.download
                          /\ Linked(p, w.ctx[p], w.out[p], r, v.watched[p], v.filter, v.wallet)
        OBVIOUS
    <2>2. p = v.download
        BY <2>1, AtPeer
    <2>3. Linked(p, w.ctx[p], w.out[p], v.in[p], v.watched[p], v.filter, v.wallet)
        BY <2>1, <2>2, AtPeer
    <2>4. QED BY <1>1, <2>2, <2>3, LinkedPop
<1> HIDE DEF r
<1>6. \A q \in Peer : Proper(w.ctx[q], w.out[q], u.in[q], u.status[q])
    BY <1>3, <1>4 DEF Right, OnlyIn
<1>7. ASSUME u.single, NEW q \in Peer
      PROVE  /\ q # u.download => u.status[q] = "none" /\ w.out[q] = <<>> /\ u.in[q] = <<>>
             /\ q = u.download =>
                   Linked(q, w.ctx[q], w.out[q], u.in[q], u.watched[q], u.filter, u.wallet)
    <2>1. CASE q = p
        BY <1>3, <1>5, <1>7, <2>1 DEF OnlyIn
    <2>2. CASE q # p
        BY <1>3, <1>7, <2>2 DEF OnlyIn, Right
    <2>3. QED BY <2>1, <2>2
<1>8. QED BY <1>1, <1>3, <1>6, <1>7 DEF Right, OnlyIn

(* The first callback of p is called: one that ends an update's last wait, *)
(* or its second, and then the update is over.                             *)
LEMMA RightAnswered ==
    ASSUME NEW w, NEW v, Right(w, v), NEW u, OnlyIn(u, v), NEW p \in Peer,
           v.in[p] # <<>>, Head(v.in[p]).type = "pong", Len(w.ctx[p].pongs) > 0,
           u.in = [v.in EXCEPT ![p] = Tail(@)],
           NEW x \in Wires(v.tip), x.out = w.out,
           \A q \in Peer : x.ctx[q].current = w.ctx[q].current,
           \A q \in Peer \ {p} : x.ctx[q].pongs = w.ctx[q].pongs,
           x.ctx[p].pongs = Tail(w.ctx[p].pongs),
           v.single => \/ w.ctx[p].pongs[1].kind = "rerequest" /\ x.ctx[p].needs = w.ctx[p].needs
                       \/ w.ctx[p].pongs[1].kind = "load" /\ ~x.ctx[p].needs
    PROVE  Right(x, u)
<1>1. /\ v.in \in [Peer -> Seq(Messages(v.tip))] /\ w \in Wires(v.tip)
      /\ v.in[p] \in Seq(Messages(v.tip)) /\ w.out[p] \in Seq(Messages(v.tip))
      /\ w.ctx[p].pongs \in Seq(Callbacks)
    BY AtPeer DEF Right
<1>2. w.ctx[p].pongs # <<>>
    BY EmptySeq
<1> DEFINE r == Tail(v.in[p])
<1>2a. r \in Seq(Messages(v.tip))
    BY <1>1, TailFacts
<1>3. u.in \in [Peer -> Seq(Messages(u.tip))] /\ u.in[p] = r /\ \A q \in Peer \ {p} : u.in[q] = v.in[q]
    BY <1>1, <1>2a DEF OnlyIn
<1>4. Proper(x.ctx[p], x.out[p], r, v.status[p])
    <2>1. Proper(w.ctx[p], w.out[p], v.in[p], v.status[p])
        BY AtPeer
    <2>2. x.out[p] = w.out[p]
        OBVIOUS
    <2>3. v.in[p] # <<>> /\ Head(v.in[p]).type = "pong" /\ x.ctx[p].pongs = Tail(w.ctx[p].pongs)
        OBVIOUS
    <2>4. QED BY ONLY <1>1, <1>2, <2>1, <2>2, <2>3, ProperAnswered
<1>5. v.single => p = v.download /\ Linked(p, x.ctx[p], x.out[p], r, v.watched[p], v.filter, v.wallet)
    <2>1. SUFFICES ASSUME v.single
                   PROVE  p = v.download
                          /\ Linked(p, x.ctx[p], x.out[p], r, v.watched[p], v.filter, v.wallet)
        OBVIOUS
    <2>2. p = v.download
        BY <2>1, AtPeer
    <2>3. Linked(p, w.ctx[p], w.out[p], v.in[p], v.watched[p], v.filter, v.wallet)
        BY <2>1, <2>2, AtPeer
    <2>4. Linked(p, w.ctx[p], w.out[p], r, v.watched[p], v.filter, v.wallet)
        BY <1>1, <2>2, <2>3, LinkedPop
    <2>5. Linked(p, x.ctx[p], w.out[p], r, v.watched[p], v.filter, v.wallet)
        <3> HIDE DEF r
        <3>1. x.ctx[p].current = w.ctx[p].current
            OBVIOUS
        <3>2. \/ w.ctx[p].pongs[1].kind = "rerequest" /\ x.ctx[p].needs = w.ctx[p].needs
              \/ w.ctx[p].pongs[1].kind = "load" /\ ~x.ctx[p].needs
            BY <2>1
        <3>3. x.ctx[p].pongs = Tail(w.ctx[p].pongs)
            OBVIOUS
        <3>4. QED BY ONLY p \in Peer, <1>1, <1>2, <2>4, <3>1, <3>2, <3>3, LinkedAnswered
    <2>6. QED BY <2>2, <2>5
<1> HIDE DEF r
<1>6. \A q \in Peer : Proper(x.ctx[q], x.out[q], u.in[q], u.status[q])
    <2>1. ASSUME NEW q \in Peer, q # p PROVE Proper(x.ctx[q], x.out[q], u.in[q], u.status[q])
        <3>1. Proper(w.ctx[q], w.out[q], v.in[q], v.status[q])
            BY DEF Right
        <3>2. /\ x.ctx[q].pongs = w.ctx[q].pongs /\ x.ctx[q].current = w.ctx[q].current
              /\ x.out[q] = w.out[q] /\ u.in[q] = v.in[q]
            BY <1>3, <2>1
        <3>3. QED BY <3>1, <3>2 DEF Proper, OnlyIn
    <2>2. QED BY <1>3, <1>4, <2>1 DEF OnlyIn
<1>7. ASSUME u.single, NEW q \in Peer
      PROVE  /\ q # u.download => u.status[q] = "none" /\ x.out[q] = <<>> /\ u.in[q] = <<>>
             /\ q = u.download =>
                   Linked(q, x.ctx[q], x.out[q], u.in[q], u.watched[q], u.filter, u.wallet)
    <2>1. CASE q = p
        BY <1>3, <1>5, <1>7, <2>1 DEF OnlyIn
    <2>2. CASE q # p
        BY <1>3, <1>5, <1>7, <2>2 DEF OnlyIn, Right
    <2>3. QED BY <2>1, <2>2
<1>8. QED BY <1>1, <1>3, <1>6, <1>7 DEF Right, OnlyIn

(* The wallet holds more, and the filter is the same, or none.             *)
LEMMA RightView ==
    ASSUME NEW w, NEW v, Right(w, v), NEW u,
           u.tip = v.tip, u.status = v.status, u.download = v.download, u.in = v.in,
           u.watched = v.watched, u.single = v.single,
           u.filter = v.filter \/ u.filter = 0, v.wallet \subseteq u.wallet
    PROVE  Right(w, u)
<1>1. ASSUME NEW p, NEW c, NEW o, NEW i, NEW x,
             Linked(p, c, o, i, x, v.filter, v.wallet)
      PROVE  Linked(p, c, o, i, x, u.filter, u.wallet)
    <2>1. u.filter # 0 => Filtered(c, o, i, x, u.filter, u.wallet)
        BY <1>1 DEF Linked, Filtered, Covered
    <2>2. QED BY <1>1, <2>1 DEF Linked
<1>2. QED BY <1>1 DEF Right

-----------------------------------------------------------------------------
(* The handlers *)

LEMMA WireIs == ASSUME NEW t, NEW w \in Wires(t), Sends(w) PROVE Wire' = w
BY DEF Wires, Wire, Sends

LEMMA ViewIs ==
    /\ View.tip = tip /\ View.in = in /\ View.status = status /\ View.download = downloadPeer
    /\ View.watched = watched /\ View.filter = filter /\ View.wallet = wallet
    /\ View.single = ~shared
BY DEF View

LEMMA HeldFacts ==
    ASSUME ScanInv
    PROVE  /\ Right(Wire, View) /\ Seen(View) /\ downloadPeer \in Peer \cup {NoPeer}
           /\ Wire \in Wires(tip) /\ Wire.ctx = ctx /\ Wire.out = out
           /\ in \in [Peer -> Seq(Messages(tip))]
           /\ ctx \in [Peer -> Contexts(tip)] /\ out \in [Peer -> Seq(Messages(tip))]
<1>1. Right(Wire, View)
    BY DEF ScanInv
<1>2. Wire \in Wires(tip) /\ in \in [Peer -> Seq(Messages(tip))]
    BY <1>1, ViewIs DEF Right
<1>3. Wire.ctx = ctx /\ Wire.out = out
    BY DEF Wire
<1>4. ctx \in [Peer -> Contexts(tip)] /\ out \in [Peer -> Seq(Messages(tip))]
    BY <1>2, <1>3 DEF Wires
<1>5. Seen(View) /\ downloadPeer \in Peer \cup {NoPeer}
    BY FilterAssumption, ViewIs DEF Seen, ScanInv, Types, Connected
<1>6. QED BY <1>1, <1>2, <1>3, <1>4, <1>5

(* Types and scanned blocks, of a step that sends and receives only.       *)
LEMMA Unmoved ==
    ASSUME ScanInv, UNCHANGED <<tip, lastBlock, estimated, orphans, lastOrphan, wallet,
                                downloadPeer, filter, status, watched, shared>>,
           Right(Wire', View')
    PROVE  ScanInv'
<1>1. Types'
    BY DEF ScanInv, Types, Connected
<1>2. ~shared' => AllScanned' /\ (filter' # 0 => Matched')
    BY DEF ScanInv, AllScanned, Matched, Covered, Used
<1>3. QED BY <1>1, <1>2 DEF ScanInv

LEMMA InvHandledKeeps == ASSUME ScanInv, NEW p \in Peer, InvHandled(p) PROVE ScanInv'
<1> DEFINE s == Head(in[p]).blocks
           listed == IF ~ctx[p].sent \/ Again(p, s) THEN <<>> ELSE s
           hash == IF Len(listed) = 1 THEN s[1] ELSE ctx[p].lastHash
           d == [ctx[p] EXCEPT !.known = @ \o listed, !.lastHash = hash]
           w == [Wire EXCEPT !.ctx[p].known = @ \o listed,
                             !.ctx[p].lastHash = IF Len(listed) = 1 THEN s[1] ELSE @]
           x == IF listed = <<>> \/ ctx[p].needs THEN w ELSE Send(w, p, Getdata(listed))
<1>1. /\ p \in Connected /\ in[p] # <<>> /\ Head(in[p]).type = "inv"
      /\ in' = [in EXCEPT ![p] = Tail(@)] /\ Sends(x)
      /\ UNCHANGED <<tip, lastBlock, estimated, orphans, lastOrphan, wallet,
                     downloadPeer, filter, status, watched, shared>>
    BY DEF InvHandled, Received, managerVars
<1>2. OnlyIn(View', View) /\ View'.in = [View.in EXCEPT ![p] = Tail(@)] /\ View'.single = ~shared'
      /\ View'.download = downloadPeer' /\ View'.tip = tip'
    BY <1>1 DEF View, OnlyIn
<1>3. Right(Wire, View')
    <2>1. View.in[p] # <<>> /\ Head(View.in[p]).type # "pong"
        BY <1>1, ViewIs
    <2>2. Right(Wire, View)
        BY HeldFacts
    <2>3. QED BY ONLY p \in Peer, <1>2, <2>1, <2>2, RightPopped
<1>4. s \in Seq(1..tip) /\ ctx[p] \in Contexts(tip)
    <2>1. Head(in[p]) \in Messages(tip)
        BY <1>1, HeldFacts, TailFacts
    <2>2. QED BY <2>1, HeldFacts DEF Messages
<1>5. listed \in Seq(1..tip) /\ hash \in 0..tip
    <2>1. listed \in Seq(1..tip)
        BY <1>4, EmptySeq
    <2>2. Len(listed) = 1 => s[1] \in 1..tip
        <3> SUFFICES ASSUME Len(listed) = 1 PROVE s[1] \in 1..tip
            OBVIOUS
        <3>1. listed = s
            BY EmptySeq
        <3>2. Len(s) = 1
            BY <3>1
        <3>3. s \in Seq(1..tip)
            BY <1>4
        <3> HIDE DEF s
        <3>4. 1 \in 1..Len(s)
            BY ONLY <3>2
        <3>5. QED BY <3>3, <3>4, ElementOfSeq
    <2>3. ctx[p].lastHash \in 0..tip
        BY <1>4 DEF Contexts
    <2>4. tip \in Nat
        BY FilterAssumption DEF ScanInv, Types
    <2>5. QED BY <2>1, <2>2, <2>3, <2>4
<1>6. d \in Contexts(tip) /\ d.pongs = ctx[p].pongs /\ d.needs = ctx[p].needs
      /\ d.current = ctx[p].current
    <2>1. ctx[p].known \in Seq(1..tip)
        BY <1>4 DEF Contexts
    <2> DEFINE k == ctx[p].known \o listed
    <2>2. k \in Seq(1..tip)
        BY <1>5, <2>1, ConcatProperties
    <2>3. d = [ctx[p] EXCEPT !.known = k, !.lastHash = hash]
        BY <1>4 DEF Contexts
    <2> HIDE DEF k, d, hash, listed
    <2>4. QED BY <1>4, <1>5, <2>2, <2>3 DEF Contexts
<1>7. w.ctx = [ctx EXCEPT ![p] = d] /\ w.out = out /\ w = [ctx |-> w.ctx, out |-> w.out]
    <2> DEFINE k == ctx[p].known \o listed
               e == [ctx[p] EXCEPT !.known = k]
    <2>1. ctx \in [Peer -> Contexts(tip)] /\ Wire = [ctx |-> ctx, out |-> out]
        BY HeldFacts DEF Wire
    <2>2. d = [e EXCEPT !.lastHash = hash] /\ e.lastHash = ctx[p].lastHash
        BY <1>4 DEF Contexts
    <2>3. w = [Wire EXCEPT !.ctx = [[ctx EXCEPT ![p] = e] EXCEPT ![p] = [e EXCEPT !.lastHash = hash]]]
        BY <1>4, <2>1, <2>2 DEF Contexts
    <2> HIDE DEF e, k, d, hash, w, listed
    <2>4. QED BY <2>1, <2>2, <2>3
<1> HIDE DEF listed, hash, d, w, s
<1>8. w \in Wires(tip) /\ w.ctx[p] = d /\ \A q \in Peer \ {p} : w.ctx[q] = ctx[q]
    BY <1>6, <1>7, HeldFacts DEF Wires
<1>9. Right(w, View')
    <2>1. /\ \A q \in Peer \ {p} : w.ctx[q] = Wire.ctx[q]
          /\ \A q \in Peer : w.out[q] = Wire.out[q]
          /\ w.ctx[p].pongs = Wire.ctx[p].pongs /\ w.ctx[p].needs = Wire.ctx[p].needs
          /\ w.ctx[p].current = Wire.ctx[p].current
        BY <1>6, <1>7, <1>8, HeldFacts
    <2>2. w \in Wires(View'.tip)
        BY <1>1, <1>2, <1>8
    <2>3. View'.single /\ p = View'.download /\ View'.filter # 0 /\ w.ctx[p].current # 0 =>
              Covered(w.ctx[p].current, View'.filter, View'.wallet)
        <3>1. View'.single /\ p = View'.download =>
                  Linked(p, Wire.ctx[p], Wire.out[p], View'.in[p], View'.watched[p], View'.filter,
                         View'.wallet)
            BY <1>3 DEF Right
        <3>2. QED BY <2>1, <3>1 DEF Linked, Filtered
    <2>4. View'.status[p] # "none"
        BY <1>1, <1>2, ViewIs DEF Connected, OnlyIn
    <2>5. QED BY <1>3, <2>1, <2>2, <2>3, <2>4, ContextChanged
<1>10. x \in Wires(tip) /\ Right(x, View')
    <2>1. CASE listed = <<>> \/ ctx[p].needs
        BY <1>8, <1>9, <2>1
    <2>2. CASE ~(listed = <<>> \/ ctx[p].needs)
        <3> DEFINE m == Getdata(listed)
        <3>1. m \in Messages(tip) /\ Harmless(m, w.ctx[p]) /\ m.type # "ping"
            BY <1>5, <1>6, <1>8, <2>2 DEF Getdata, Messages, Kinds, Harmless
        <3>2. x = Send(w, p, m)
            BY <2>2
        <3> HIDE DEF m, x
        <3>3. /\ x \in Wires(tip) /\ x.ctx = w.ctx /\ Adds(x, w, p, m)
              /\ \A q \in Peer \ {p} : x.out[q] = w.out[q]
            BY <1>8, <3>1, <3>2, SendIs
        <3>4. View'.single => p = View'.download
            <4>1. status[p] # "none" /\ View'.status = status
                BY <1>1, <1>2, ViewIs DEF Connected, OnlyIn
            <4>2. QED BY <1>3, <4>1 DEF Right
        <3>5. View'.tip = tip
            BY <1>1, <1>2
        <3>6. QED BY <1>9, <3>1, <3>3, <3>4, <3>5, MessageSent
    <2>3. QED BY <2>1, <2>2
<1>11. Wire' = x
    BY <1>1, <1>10, WireIs
<1> HIDE DEF x
<1>12. QED BY <1>1, <1>10, <1>11, Unmoved

(* What the manager sees when a message has been read.                     *)
Taken == [View EXCEPT !.in = in']

LEMMA Popped ==
    ASSUME ScanInv, NEW p \in Peer, NEW type, type # "pong", Received(p, type)
    PROVE  /\ Right(Wire, Taken) /\ Seen(Taken)
           /\ Taken.tip = tip /\ Taken.in = in' /\ Taken.status = status
           /\ Taken.download = downloadPeer /\ Taken.watched = watched
           /\ Taken.filter = filter /\ Taken.wallet = wallet /\ Taken.single = ~shared
           /\ p \in Connected /\ status[p] # "none" /\ ctx[p].current = 0
           /\ Head(in[p]) \in Messages(tip) /\ Head(in[p]).type = type
           /\ 1 \in 1..Len(in[p]) /\ in[p][1] = Head(in[p])
           /\ UNCHANGED <<tip, status, watched, losses, shared>>
           /\ ~shared => /\ p = downloadPeer
                         /\ Linked(p, ctx[p], out[p], in[p], watched[p], filter, wallet)
<1>1. /\ p \in Connected /\ ctx[p].current = 0 /\ in[p] # <<>> /\ Head(in[p]).type = type
      /\ in' = [in EXCEPT ![p] = Tail(@)]
      /\ UNCHANGED <<tip, status, watched, losses, shared>>
    BY DEF Received
<1>2. /\ Taken.tip = tip /\ Taken.in = in' /\ Taken.status = status
      /\ Taken.download = downloadPeer /\ Taken.watched = watched
      /\ Taken.filter = filter /\ Taken.wallet = wallet /\ Taken.single = ~shared
    BY DEF Taken, View
<1>3. OnlyIn(Taken, View) /\ Taken.in = [View.in EXCEPT ![p] = Tail(@)]
    BY <1>1, <1>2, ViewIs DEF OnlyIn
<1>4. Right(Wire, Taken)
    <2>1. View.in[p] # <<>> /\ Head(View.in[p]).type # "pong"
        BY <1>1, ViewIs
    <2>2. Right(Wire, View)
        BY HeldFacts
    <2>3. QED BY ONLY p \in Peer, <1>3, <2>1, <2>2, RightPopped
<1>5. Seen(Taken)
    BY <1>2, HeldFacts, ViewIs DEF Seen
<1>6. /\ Head(in[p]) \in Messages(tip) /\ 1 \in 1..Len(in[p]) /\ in[p][1] = Head(in[p])
    <2>1. in[p] \in Seq(Messages(tip))
        BY HeldFacts
    <2>2. /\ Head(in[p]) \in Messages(tip) /\ Head(in[p]) = in[p][1]
          /\ Len(in[p]) \in Nat /\ Len(in[p]) > 0
        BY <1>1, <2>1, TailFacts
    <2>3. QED BY <2>2
<1>7. ~shared => /\ p = downloadPeer
                 /\ Linked(p, ctx[p], out[p], in[p], watched[p], filter, wallet)
    BY <1>1, AtPeer, HeldFacts, ViewIs
<1>8. status[p] # "none"
    BY <1>1 DEF Connected
<1>9. QED BY <1>1, <1>2, <1>4, <1>5, <1>6, <1>7, <1>8

(* The block that a peer's next callback is about changes.                 *)
LEMMA CurrentIs ==
    ASSUME NEW t, NEW w \in Wires(t), NEW p \in Peer, NEW b \in 0..t
    PROVE  LET x == [w EXCEPT !.ctx[p].current = b]
           IN  /\ x \in Wires(t) /\ x.ctx = [w.ctx EXCEPT ![p].current = b] /\ x.out = w.out
               /\ \A q \in Peer \ {p} : x.ctx[q] = w.ctx[q]
               /\ \A q \in Peer : x.out[q] = w.out[q]
               /\ x.ctx[p].pongs = w.ctx[p].pongs /\ x.ctx[p].needs = w.ctx[p].needs
               /\ x.ctx[p].current = b
<1> DEFINE x == [w EXCEPT !.ctx[p].current = b]
           d == [w.ctx[p] EXCEPT !.current = b]
<1>1. w.ctx \in [Peer -> Contexts(t)] /\ w.out \in [Peer -> Seq(Messages(t))]
    BY DEF Wires
<1>2. /\ d \in Contexts(t) /\ d.pongs = w.ctx[p].pongs /\ d.needs = w.ctx[p].needs
      /\ d.current = b
    BY <1>1 DEF Contexts
<1>3. /\ x = [w EXCEPT !.ctx = [w.ctx EXCEPT ![p] = d]]
      /\ [w.ctx EXCEPT ![p].current = b] = [w.ctx EXCEPT ![p] = d]
    BY DEF Wires
<1> HIDE DEF d
<1>4. /\ x \in Wires(t) /\ x.ctx = [w.ctx EXCEPT ![p] = d] /\ x.out = w.out
      /\ \A q \in Peer \ {p} : x.ctx[q] = w.ctx[q]
      /\ x.ctx[p] = d
    BY <1>1, <1>2, <1>3 DEF Wires
<1> HIDE DEF x
<1>5. QED BY <1>2, <1>3, <1>4 DEF x

(* A merkle block names one block of the chain.                            *)
LEMMA BlockArrives ==
    ASSUME ScanInv, NEW p \in Peer, Received(p, "merkleblock")
    PROVE  /\ Head(in[p]).blocks[1] \in 1..tip /\ Head(in[p]).n \in Nat /\ tip \in Nat
<1>1. Head(in[p]) \in Messages(tip) /\ Head(in[p]).type = "merkleblock"
      /\ 1 \in 1..Len(in[p]) /\ in[p][1] = Head(in[p])
    BY Popped
<1>2. Len(Head(in[p]).blocks) = 1
    <2>1. Proper(Wire.ctx[p], Wire.out[p], View.in[p], View.status[p]) /\ View.in = in
        BY HeldFacts, AtPeer, ViewIs
    <2>2. QED BY <1>1, <2>1 DEF Proper
<1>3. Head(in[p]).blocks \in Seq(1..tip) /\ Head(in[p]).n \in Nat
    BY <1>1 DEF Messages
<1> DEFINE s == Head(in[p]).blocks
<1> HIDE DEF s
<1>4. 1 \in 1..Len(s) /\ s \in Seq(1..tip)
    <2>1. Len(s) = 1 /\ s \in Seq(1..tip)
        BY <1>2, <1>3 DEF s
    <2>2. QED BY ONLY <2>1
<1>5. s[1] \in 1..tip
    BY <1>4, ElementOfSeq
<1>6. tip \in Nat
    BY FilterAssumption DEF ScanInv, Types
<1>7. QED BY <1>3, <1>5, <1>6 DEF s

LEMMA MerkleHandledKeeps == ASSUME ScanInv, NEW p \in Peer, MerkleHandled(p) PROVE ScanInv'
<1> DEFINE b == Head(in[p]).blocks[1]
           x == [Wire EXCEPT !.ctx[p].current = b]
<1>1. /\ Received(p, "merkleblock") /\ ~(Head(in[p]).n > 0)
      /\ ctx' = [ctx EXCEPT ![p].current = b]
      /\ UNCHANGED <<lastBlock, estimated, orphans, lastOrphan, wallet, downloadPeer, filter, out>>
    BY DEF MerkleHandled, Awaits, managerVars
<1>2. b \in 1..tip /\ b \in 0..tip /\ Head(in[p]).n \in Nat
    BY <1>1, BlockArrives
<1>3. /\ Right(Wire, Taken) /\ Taken.tip = tip /\ Taken.status[p] # "none"
      /\ UNCHANGED <<tip, status, watched, shared>>
      /\ Head(in[p]).type = "merkleblock"
      /\ 1 \in 1..Len(in[p]) /\ in[p][1] = Head(in[p])
      /\ Taken.download = downloadPeer /\ Taken.filter = filter /\ Taken.wallet = wallet
      /\ Taken.single = ~shared
      /\ ~shared => Linked(p, ctx[p], out[p], in[p], watched[p], filter, wallet)
    BY <1>1, Popped
<1> HIDE DEF b
<1>4. /\ x \in Wires(tip) /\ x.ctx = [ctx EXCEPT ![p].current = b] /\ x.out = out
      /\ \A q \in Peer \ {p} : x.ctx[q] = ctx[q]
      /\ x.ctx[p].pongs = ctx[p].pongs /\ x.ctx[p].needs = ctx[p].needs
      /\ x.ctx[p].current = b
    <2>1. Wire \in Wires(tip) /\ Wire.ctx = ctx /\ Wire.out = out
        BY HeldFacts
    <2>2. QED BY <1>2, <2>1, CurrentIs
<1> HIDE DEF x
<1>5. Taken.single /\ p = Taken.download /\ Taken.filter # 0 /\ x.ctx[p].current # 0 =>
          Covered(x.ctx[p].current, Taken.filter, Taken.wallet)
    <2> SUFFICES ASSUME ~shared, filter # 0 PROVE Covered(b, filter, wallet)
        BY <1>3, <1>4
    <2>1. Pays[b] \in 1..filter => Head(in[p]).n > 0
        BY <1>3 DEF Linked, Filtered, b
    <2>2. QED BY <1>1, <2>1 DEF Covered
<1>6. Right(x, Taken)
    <2>1. /\ \A q \in Peer \ {p} : x.ctx[q] = Wire.ctx[q]
          /\ \A q \in Peer : x.out[q] = Wire.out[q]
          /\ x.ctx[p].pongs = Wire.ctx[p].pongs /\ x.ctx[p].needs = Wire.ctx[p].needs
          /\ x \in Wires(Taken.tip)
        BY <1>3, <1>4, HeldFacts
    <2>2. QED BY ONLY p \in Peer, <1>3, <1>5, <2>1, ContextChanged
<1>7. Wire' = x
    <2>1. Sends(x)
        BY <1>1, <1>4 DEF Sends
    <2>2. QED BY <1>4, <2>1, WireIs
<1>8. View' = Taken
    BY <1>1, <1>3 DEF View, Taken
<1>9. QED BY <1>1, <1>3, <1>6, <1>7, <1>8, Unmoved

(* A transaction of the wallet comes: the filter matches its addresses     *)
(* still, or there is none until the update that begins is done.           *)
LEMMA RelayedTxKeeps == ASSUME ScanInv, NEW p \in Peer, RelayedTx(p) PROVE ScanInv'
<1> DEFINE b == Head(in[p]).blocks[1]
           x == [Wire EXCEPT !.ctx[p].current = b]
           v == View'
<1>1. /\ Received(p, "merkleblock") /\ wallet' = wallet \cup {b}
      /\ \/ filter' = filter /\ Sends(x) /\ (filter # 0 => Matches(filter, wallet'))
         \/ filter' = 0 /\ Sends(UpdateFilter(x))
      /\ UNCHANGED <<lastBlock, estimated, orphans, lastOrphan, downloadPeer>>
    BY DEF RelayedTx
<1>2. b \in 1..tip /\ b \in 0..tip /\ tip \in Nat
    BY <1>1, BlockArrives
<1>3. /\ Right(Wire, Taken) /\ Taken.tip = tip /\ Taken.in = in' /\ Taken.status = status
      /\ Taken.download = downloadPeer /\ Taken.watched = watched
      /\ Taken.filter = filter /\ Taken.wallet = wallet /\ Taken.single = ~shared
      /\ status[p] # "none" /\ UNCHANGED <<tip, status, watched, shared>>
    BY <1>1, Popped
<1> HIDE DEF b
<1>4. /\ x \in Wires(tip) /\ x.out = out
      /\ \A q \in Peer \ {p} : x.ctx[q] = ctx[q]
      /\ x.ctx[p].pongs = ctx[p].pongs /\ x.ctx[p].needs = ctx[p].needs
      /\ x.ctx[p].current = b
    <2>1. Wire \in Wires(tip) /\ Wire.ctx = ctx /\ Wire.out = out
        BY HeldFacts
    <2>2. QED BY <1>2, <2>1, CurrentIs
<1> HIDE DEF x
<1>5. /\ v.tip = tip /\ v.in = in' /\ v.status = status /\ v.download = downloadPeer
      /\ v.watched = watched /\ v.filter = filter' /\ v.wallet = wallet' /\ v.single = ~shared
    BY <1>1, <1>3 DEF View
<1> HIDE DEF v
<1>6. Right(Wire, v)
    <2>1. v.filter = Taken.filter \/ v.filter = 0
        BY <1>1, <1>3, <1>5
    <2>2. Taken.wallet \subseteq v.wallet
        BY <1>1, <1>3, <1>5
    <2>3. /\ v.tip = Taken.tip /\ v.status = Taken.status /\ v.download = Taken.download
          /\ v.in = Taken.in /\ v.watched = Taken.watched /\ v.single = Taken.single
        BY <1>3, <1>5
    <2>4. QED BY ONLY <1>3, <2>1, <2>2, <2>3, RightView
<1>7. Right(x, v)
    <2>1. /\ \A q \in Peer \ {p} : x.ctx[q] = Wire.ctx[q]
          /\ \A q \in Peer : x.out[q] = Wire.out[q]
          /\ x.ctx[p].pongs = Wire.ctx[p].pongs /\ x.ctx[p].needs = Wire.ctx[p].needs
          /\ x \in Wires(v.tip)
        BY <1>4, <1>5, HeldFacts
    <2>2. Covered(x.ctx[p].current, v.filter, v.wallet) /\ v.status[p] # "none"
        BY <1>1, <1>3, <1>4, <1>5 DEF Covered
    <2>3. QED BY ONLY p \in Peer, <1>6, <2>1, <2>2, ContextChanged
<1>8. Right(UpdateFilter(x), v)
    <2>1. Seen(v) /\ downloadPeer \in Peer \cup {NoPeer}
        BY <1>5, HeldFacts, ViewIs DEF Seen
    <2>2. QED BY <1>7, <2>1, RightUpdate
<1>9. Right(Wire', View')
    <2>1. ASSUME NEW y, Right(y, v), Sends(y) PROVE Wire' = y
        BY <2>1, WireIs DEF Right
    <2>2. CASE Sends(x)
        BY <1>7, <2>1, <2>2 DEF v
    <2>3. CASE Sends(UpdateFilter(x))
        BY <1>8, <2>1, <2>3 DEF v
    <2>4. QED BY <1>1, <2>2, <2>3
<1>10. Types'
    BY <1>1, <1>2, <1>3 DEF ScanInv, Types, Connected
<1>11. ~shared' => AllScanned' /\ (filter' # 0 => Matched')
    <2> SUFFICES ASSUME ~shared PROVE AllScanned' /\ (filter' # 0 => Matched')
        BY <1>3
    <2>1. AllScanned'
        BY <1>1 DEF ScanInv, AllScanned
    <2>2. ASSUME filter' # 0 PROVE Matched'
        <3>1. filter' = filter /\ filter # 0 /\ Matches(filter, wallet')
            BY <1>1, <2>2
        <3>2. Used(wallet') + Gap <= filter'
            BY <3>1 DEF Matches
        <3>3. \A d \in orphans' : Covered(d, filter', wallet')
            BY <1>1, <3>1 DEF ScanInv, Matched, Covered
        <3>4. QED BY <3>2, <3>3 DEF Matched, Used
    <2>3. QED BY <2>1, <2>2
<1>12. QED BY <1>9, <1>10, <1>11 DEF ScanInv

-----------------------------------------------------------------------------
(* The addresses that blocks use *)

LEMMA MaxOfBounded ==
    ASSUME NEW S \in SUBSET Nat, S # {}, NEW k \in Nat, \A x \in S : x <= k
    PROVE  Max(S) \in S /\ \A x \in S : x <= Max(S)
<1> DEFINE bounds == {n \in Nat : \A x \in S : x <= n}
<1>1. PICK u \in bounds : \A m \in bounds : u <= m
    BY LeastNat
<1>2. u \in S
    <2> SUFFICES ASSUME u \notin S PROVE FALSE
        OBVIOUS
    <2>1. PICK x \in S : TRUE
        OBVIOUS
    <2>2. u \in Nat /\ x \in Nat /\ x <= u /\ x # u
        BY <1>1
    <2>3. u - 1 \in Nat
        BY <2>2
    <2>4. \A y \in S : y <= u - 1
        BY <1>1
    <2>5. QED BY <1>1, <2>2, <2>3, <2>4
<1>3. \A x \in S : u >= x
    BY <1>1
<1>4. Max(S) \in S /\ \A y \in S : Max(S) >= y
    BY <1>2, <1>3 DEF Max
<1>5. QED BY <1>4

LEMMA PaysBounded == \E k \in Nat : \A b \in 1..MaxTip : Pays[b] <= k
<1> DEFINE good == {n \in Nat : n <= MaxTip => \E k \in Nat : \A b \in 1..n : Pays[b] <= k}
<1>1. MaxTip \in Nat /\ Pays \in [1..MaxTip -> Nat]
    BY FilterAssumption
<1>2. 0 \in good
    OBVIOUS
<1>3. ASSUME NEW n \in Nat, n \in good PROVE n + 1 \in good
    <2> SUFFICES ASSUME n + 1 <= MaxTip
                 PROVE  \E k \in Nat : \A b \in 1..(n + 1) : Pays[b] <= k
        OBVIOUS
    <2>1. PICK k \in Nat : \A b \in 1..n : Pays[b] <= k
        BY <1>1, <1>3
    <2> DEFINE m == Pays[n + 1]
    <2>2. m \in Nat
        BY <1>1
    <2>3. \A b \in 1..(n + 1) : b \in 1..n \/ b = n + 1
        OBVIOUS
    <2> HIDE DEF m
    <2>4. \A b \in 1..(n + 1) : Pays[b] <= k + m
        <3> SUFFICES ASSUME NEW b \in 1..(n + 1) PROVE Pays[b] <= k + m
            OBVIOUS
        <3>1. Pays[b] \in Nat
            BY <1>1
        <3>2. CASE b \in 1..n
            BY <2>1, <2>2, <3>1, <3>2
        <3>3. CASE b = n + 1
            BY <2>2, <3>3 DEF m
        <3>4. QED BY <2>3, <3>2, <3>3
    <2>5. k + m \in Nat
        BY <2>2
    <2>6. QED BY <2>4, <2>5
<1>4. MaxTip \in good
    <2> HIDE DEF good
    <2>1. QED BY <1>1, <1>2, <1>3, NatSetInduction
<1>5. QED BY <1>1, <1>4

LEMMA UsedIs ==
    ASSUME NEW S \in SUBSET (1..MaxTip)
    PROVE  /\ Used(S) \in Nat
           /\ Used(S) = 0 \/ \E b \in S : Used(S) = Pays[b]
           /\ \A b \in S : Pays[b] <= Used(S)
<1> DEFINE A == {0} \cup {Pays[b] : b \in S}
<1>1. A \in SUBSET Nat /\ A # {}
    BY FilterAssumption
<1>2. PICK k \in Nat : \A b \in 1..MaxTip : Pays[b] <= k
    BY PaysBounded
<1>3. \A x \in A : x <= k
    BY <1>2
<1>4. Used(S) = Max(A)
    BY DEF Used
<1>5. Max(A) \in A /\ \A x \in A : x <= Max(A)
    <2> HIDE DEF A
    <2>1. QED BY <1>1, <1>3, MaxOfBounded
<1>6. QED BY <1>1, <1>4, <1>5

(* A set of blocks that has all that pays in another uses no less.         *)
LEMMA UsedGrows ==
    ASSUME NEW S \in SUBSET (1..MaxTip), NEW T \in SUBSET (1..MaxTip),
           \A b \in S : Pays[b] # 0 => b \in T
    PROVE  Used(S) <= Used(T)
<1>1. /\ Used(S) \in Nat /\ Used(T) \in Nat
      /\ Used(S) = 0 \/ \E b \in S : Used(S) = Pays[b]
      /\ \A b \in T : Pays[b] <= Used(T)
    BY UsedIs
<1>2. CASE Used(S) = 0
    BY <1>1, <1>2
<1>3. CASE Used(S) # 0
    <2>1. PICK b \in S : Used(S) = Pays[b]
        BY <1>1, <1>3
    <2>2. b \in T
        BY <1>3, <2>1
    <2>3. QED BY <1>1, <2>1, <2>2
<1>4. QED BY <1>2, <1>3

(* Where all that was accepted has been scanned, a filter that matches the *)
(* wallet matches the next block.                                          *)
LEMMA NextIsMatched ==
    ASSUME ScanInv, AllScanned, lastBlock + 1 <= tip, Used(wallet) + Gap <= filter
    PROVE  Pays[lastBlock + 1] \in 0..filter
<1>1. /\ tip \in Nat /\ tip <= MaxTip /\ lastBlock \in 0..tip /\ wallet \in SUBSET (1..MaxTip)
      /\ filter \in Nat /\ MaxTip \in Nat /\ Gap \in Nat
    BY FilterAssumption DEF ScanInv, Types
<1> DEFINE b == lastBlock + 1
           S == 1..lastBlock
<1>2. b \in 1..MaxTip /\ b - 1 = lastBlock /\ S \in SUBSET (1..MaxTip)
    BY <1>1
<1>3. Pays[b] <= Used(S) + Gap
    BY <1>2, PaysAssumption
<1>4. Used(S) <= Used(wallet)
    <2>1. \A c \in S : Pays[c] # 0 => c \in wallet
        BY DEF AllScanned
    <2>2. QED BY <1>1, <1>2, <2>1, UsedGrows
<1>5. Used(S) \in Nat /\ Used(wallet) \in Nat /\ Pays[b] \in Nat
    BY <1>1, <1>2, UsedIs, FilterAssumption
<1> HIDE DEF S
<1>6. QED BY <1>1, <1>3, <1>4, <1>5

-----------------------------------------------------------------------------
(* A filter is sent to some peers *)

LEMMA NewFilterIs == ASSUME ScanInv PROVE NewFilter \in Nat /\ Used(wallet) + Gap <= NewFilter
<1>1. wallet \in SUBSET (1..MaxTip)
    BY FilterAssumption DEF ScanInv, Types
<1>2. Used(wallet) \in Nat
    BY <1>1, UsedIs
<1>3. QED BY <1>2, FilterAssumption DEF NewFilter

LEMMA FilterloadIsMessage == ASSUME NEW t, NEW n \in Nat PROVE Filterload(n) \in Messages(t)
<1>1. <<>> \in Seq(1..t)
    BY EmptySeq
<1>2. QED BY <1>1 DEF Filterload, Messages, Kinds

LEMMA LoadingIs ==
    ASSUME NEW t, NEW w \in Wires(t), NewFilter \in Nat, NEW P
    PROVE  LET x == Loading(w, P)
               m == Filterload(NewFilter)
           IN  /\ x \in Wires(t)
               /\ \A q \in Peer : /\ x.ctx[q].pongs = w.ctx[q].pongs
                                  /\ x.ctx[q].needs = w.ctx[q].needs
                                  /\ x.ctx[q].current = w.ctx[q].current
                                  /\ q \in P => x.out[q] = Append(w.out[q], m)
                                  /\ q \notin P => x.out[q] = w.out[q] /\ x.ctx[q] = w.ctx[q]
<1> DEFINE x == Loading(w, P)
           m == Filterload(NewFilter)
           d(q) == [w.ctx[q] EXCEPT !.sent = TRUE]
<1>1. w.ctx \in [Peer -> Contexts(t)] /\ w.out \in [Peer -> Seq(Messages(t))]
    BY DEF Wires
<1>2. \A q \in Peer : /\ d(q) \in Contexts(t) /\ d(q).pongs = w.ctx[q].pongs
                      /\ d(q).needs = w.ctx[q].needs /\ d(q).current = w.ctx[q].current
    BY <1>1 DEF Contexts
<1>3. \A q \in Peer : Append(w.out[q], m) \in Seq(Messages(t))
    BY <1>1, FilterloadIsMessage, AppendProperties
<1>4. x = [ctx |-> [p \in Peer |-> IF p \in P THEN d(p) ELSE w.ctx[p]],
           out |-> [p \in Peer |-> IF p \in P THEN Append(w.out[p], m) ELSE w.out[p]]]
    BY DEF Loading
<1> HIDE DEF d, m, x
<1>5. /\ x.ctx = [p \in Peer |-> IF p \in P THEN d(p) ELSE w.ctx[p]]
      /\ x.out = [p \in Peer |-> IF p \in P THEN Append(w.out[p], m) ELSE w.out[p]]
      /\ x = [ctx |-> x.ctx, out |-> x.out]
    BY <1>4
<1>6. x.ctx \in [Peer -> Contexts(t)]
    BY <1>1, <1>2, <1>5
<1>7. x.out \in [Peer -> Seq(Messages(t))]
    BY <1>1, <1>3, <1>5
<1>8. x \in Wires(t)
    BY <1>5, <1>6, <1>7 DEF Wires
<1>9. ASSUME NEW q \in Peer
      PROVE  /\ x.ctx[q].pongs = w.ctx[q].pongs
             /\ x.ctx[q].needs = w.ctx[q].needs
             /\ x.ctx[q].current = w.ctx[q].current
             /\ q \in P => x.out[q] = Append(w.out[q], m)
             /\ q \notin P => x.out[q] = w.out[q] /\ x.ctx[q] = w.ctx[q]
    <2>1. /\ x.ctx[q] = IF q \in P THEN d(q) ELSE w.ctx[q]
          /\ x.out[q] = IF q \in P THEN Append(w.out[q], m) ELSE w.out[q]
        BY <1>5
    <2>2. QED BY <1>2, <2>1
<1>10. QED BY <1>8, <1>9 DEF x, m

(* More is sent to a node, but no ping.                                    *)
LEMMA ProperLoaded ==
    ASSUME NEW t, NEW c, NEW d, NEW o \in Seq(Messages(t)), NEW i, NEW st, Proper(c, o, i, st),
           NEW m \in Messages(t), m.type # "ping", d.pongs = c.pongs, d.current = c.current,
           NEW u, u = Append(o, m)
    PROVE  Proper(d, u, i, st)
<1>1. Number(u, "ping") = Number(o, "ping")
    BY AppendFacts
<1>2. QED BY <1>1 DEF Proper

(* With several peers, no connection is asked for more than its types.     *)
LEMMA RightLoading ==
    ASSUME NEW w, NEW v, Right(w, v), NewFilter \in Nat, NEW P, NEW u, ~u.single,
           u.tip = v.tip, u.status = v.status, u.in = v.in
    PROVE  Right(Loading(w, P), u)
<1> DEFINE x == Loading(w, P)
           m == Filterload(NewFilter)
<1>1. w \in Wires(v.tip)
    BY DEF Right
<1>2. /\ x \in Wires(v.tip)
      /\ \A q \in Peer : /\ x.ctx[q].pongs = w.ctx[q].pongs /\ x.ctx[q].current = w.ctx[q].current
                         /\ q \in P => x.out[q] = Append(w.out[q], m)
                         /\ q \notin P => x.out[q] = w.out[q] /\ x.ctx[q] = w.ctx[q]
    BY <1>1, LoadingIs
<1>3. m \in Messages(v.tip) /\ m.type # "ping"
    BY FilterloadIsMessage DEF Filterload
<1> HIDE DEF x, m
<1>4. ASSUME NEW q \in Peer PROVE Proper(x.ctx[q], x.out[q], u.in[q], u.status[q])
    <2>1. Proper(w.ctx[q], w.out[q], u.in[q], u.status[q]) /\ w.out[q] \in Seq(Messages(v.tip))
        BY AtPeer
    <2>2. CASE q \in P
        <3>1. x.ctx[q].pongs = w.ctx[q].pongs /\ x.ctx[q].current = w.ctx[q].current
              /\ x.out[q] = Append(w.out[q], m)
            BY <1>2, <2>2
        <3>2. QED BY ONLY <1>3, <2>1, <3>1, ProperLoaded
    <2>3. CASE q \notin P
        BY <1>2, <2>1, <2>3
    <2>4. QED BY <2>2, <2>3
<1>5. Right(x, u)
    BY <1>2, <1>4 DEF Right
<1>6. QED BY <1>5 DEF x

-----------------------------------------------------------------------------
(* The callback of a block *)

LEMMA RelayedBlockIs ==
    ASSUME ScanInv, NEW p \in Peer, ctx[p].current # 0
    PROVE  LET b == ctx[p].current
               w == Rate(p, b, [Wire EXCEPT !.ctx[p].current = 0])
           IN  /\ Right(w, View) /\ w \in Wires(tip) /\ b \in 1..tip /\ tip \in Nat
               /\ status[p] # "none" /\ (~shared => p = downloadPeer)
               /\ ~shared /\ filter # 0 => Covered(b, filter, wallet)
<1> DEFINE b == ctx[p].current
           y == [Wire EXCEPT !.ctx[p].current = 0]
           w == Rate(p, b, y)
<1>1. /\ Right(Wire, View) /\ Wire \in Wires(tip) /\ Wire.ctx = ctx /\ Wire.out = out
      /\ Seen(View) /\ downloadPeer \in Peer \cup {NoPeer}
      /\ View.tip = tip /\ View.status = status /\ View.single = ~shared
      /\ View.download = downloadPeer /\ View.filter = filter /\ View.wallet = wallet
    BY HeldFacts, ViewIs
<1>2. tip \in Nat /\ b \in 1..tip
    <2>1. tip \in Nat
        BY FilterAssumption DEF ScanInv, Types
    <2>2. ctx[p] \in Contexts(tip)
        BY HeldFacts
    <2>3. QED BY <2>1, <2>2 DEF Contexts
<1>3. status[p] # "none"
    BY <1>1 DEF Right, Proper
<1>4. ~shared => p = downloadPeer
    BY <1>1, <1>3 DEF Right
<1>5. ~shared /\ filter # 0 => Covered(b, filter, wallet)
    <2> SUFFICES ASSUME ~shared, filter # 0 PROVE Covered(b, filter, wallet)
        OBVIOUS
    <2>1. Linked(p, Wire.ctx[p], Wire.out[p], View.in[p], View.watched[p], filter, wallet)
        BY <1>1, <1>4, AtPeer
    <2>2. QED BY <1>1, <2>1 DEF Linked, Filtered
<1>6. Right(y, View)
    <2>0. 0 \in 0..tip
        BY <1>2
    <2>1. /\ \A q \in Peer \ {p} : y.ctx[q] = Wire.ctx[q]
          /\ \A q \in Peer : y.out[q] = Wire.out[q]
          /\ y.ctx[p].pongs = Wire.ctx[p].pongs /\ y.ctx[p].needs = Wire.ctx[p].needs
          /\ y \in Wires(View.tip) /\ y.ctx[p].current = 0
        BY <1>1, <2>0, CurrentIs
    <2> HIDE DEF y
    <2>2. QED BY <1>1, <1>3, <2>1, ContextChanged
<1> HIDE DEF y, b
<1>7. Right(w, View)
    <2>1. Right(UpdateFilter(y), View)
        BY <1>1, <1>6, RightUpdate
    <2>2. QED BY <1>6, <2>1 DEF Rate
<1> HIDE DEF w
<1>8. w \in Wires(tip)
    BY <1>1, <1>7 DEF Right
<1>9. QED BY <1>2, <1>3, <1>4, <1>5, <1>7, <1>8 DEF w, y, b

LEMMA DroppedKeeps ==
    ASSUME ScanInv, NEW w, Right(w, View), w \in Wires(tip), NEW p, Dropped(p, w),
           UNCHANGED <<tip, status, in, watched, losses, shared>>
    PROVE  ScanInv'
<1>1. View' = View /\ Wire' = w
    BY WireIs DEF Dropped, managerVars, View
<1>2. Right(Wire', View')
    BY <1>1
<1>3. QED BY <1>2, Unmoved DEF Dropped, managerVars

LEMMA OrphanedKeeps ==
    ASSUME ScanInv, NEW w, Right(w, View), w \in Wires(tip), NEW p \in Peer, NEW b \in 1..tip,
           ~shared => p = downloadPeer,
           ~shared /\ filter # 0 => Covered(b, filter, wallet),
           Orphaned(p, b, w), UNCHANGED <<tip, status, in, watched, losses, shared>>
    PROVE  ScanInv'
<1> DEFINE x == SendGetblocks(w, p, lastBlock)
<1>1. /\ filter # 0 /\ orphans' = orphans \cup {b} /\ lastOrphan' = b
      /\ Sends(x) \/ Sends(w)
      /\ UNCHANGED <<lastBlock, estimated, wallet, downloadPeer, filter>>
    BY DEF Orphaned
<1>2. Right(x, View) /\ x \in Wires(tip)
    <2>1. lastBlock \in Nat
        BY FilterAssumption DEF ScanInv, Types
    <2>2. Right(x, View)
        BY <2>1, RightGetblocks, ViewIs
    <2>3. QED BY <2>2, ViewIs DEF Right
<1> HIDE DEF x
<1>3. View' = View
    BY <1>1 DEF View
<1>4. Right(Wire', View')
    <2>1. Wire' = x \/ Wire' = w
        BY <1>1, <1>2, WireIs
    <2>2. QED BY <1>2, <1>3, <2>1
<1>5. Types'
    BY <1>1, FilterAssumption DEF ScanInv, Types, Connected
<1>6. ~shared' => AllScanned' /\ (filter' # 0 => Matched')
    BY <1>1 DEF ScanInv, AllScanned, Matched, Covered, Used
<1>7. QED BY <1>4, <1>5, <1>6 DEF ScanInv

(* The orphan that waited for a block is the next one to call about.       *)
LEMMA AdoptionKeeps ==
    ASSUME ScanInv, NEW w, Right(w, View), w \in Wires(tip), NEW p \in Peer, NEW b \in 1..tip,
           status[p] # "none", filter # 0,
           UNCHANGED <<tip, status, in, watched, shared, wallet, downloadPeer, filter>>,
           Sends([w EXCEPT !.ctx[p].current = Next_(b, orphans)])
    PROVE  Right(Wire', View')
<1> DEFINE n == Next_(b, orphans)
           x == [w EXCEPT !.ctx[p].current = n]
<1>1. n \in 0..tip /\ (n = 0 \/ n \in orphans)
    BY DEF Next_, ScanInv, Types
<1>2. /\ x \in Wires(tip) /\ \A q \in Peer \ {p} : x.ctx[q] = w.ctx[q]
      /\ \A q \in Peer : x.out[q] = w.out[q]
      /\ x.ctx[p].pongs = w.ctx[p].pongs /\ x.ctx[p].needs = w.ctx[p].needs
      /\ x.ctx[p].current = n
    BY <1>1, CurrentIs
<1> HIDE DEF x, n
<1>3. View.single /\ x.ctx[p].current # 0 => Covered(x.ctx[p].current, View.filter, View.wallet)
    BY <1>1, <1>2, ViewIs DEF ScanInv, Matched
<1>4. Right(x, View)
    BY <1>2, <1>3, ViewIs, ContextChanged
<1>5. Wire' = x
    BY <1>2, WireIs DEF x, n
<1>6. View' = View
    BY DEF View
<1>7. QED BY <1>4, <1>5, <1>6

LEMMA ExistingKeeps ==
    ASSUME ScanInv, NEW w, Right(w, View), w \in Wires(tip), NEW p \in Peer, NEW b \in 1..tip,
           status[p] # "none",
           Existing(p, b, w), UNCHANGED <<tip, status, in, watched, losses, shared>>
    PROVE  ScanInv'
<1>1. /\ filter # 0 /\ orphans' = orphans \ {b + 1} /\ lastOrphan' \in {0, lastOrphan}
      /\ Sends([w EXCEPT !.ctx[p].current = Next_(b, orphans)])
      /\ UNCHANGED <<lastBlock, estimated, wallet, downloadPeer, filter>>
    BY DEF Existing
<1>2. Right(Wire', View')
    BY <1>1, AdoptionKeeps
<1>3. Types'
    BY <1>1, FilterAssumption DEF ScanInv, Types, Connected
<1>4. ~shared' => AllScanned' /\ (filter' # 0 => Matched')
    BY <1>1 DEF ScanInv, AllScanned, Matched, Covered, Used
<1>5. QED BY <1>2, <1>3, <1>4 DEF ScanInv

(* While one peer at a time is connected, nobody else gets a filter.       *)
LEMMA NobodyElse == ASSUME ScanInv, ~shared PROVE Connected \ {downloadPeer} = {}
<1>1. \A q \in Peer : q # downloadPeer => status[q] = "none"
    BY HeldFacts, ViewIs DEF Right
<1>2. QED BY <1>1 DEF Connected

LEMMA ExtendsKeeps ==
    ASSUME ScanInv, NEW w, Right(w, View), w \in Wires(tip), NEW p \in Peer, NEW b \in 1..tip,
           status[p] # "none", ~shared /\ filter # 0 => Covered(b, filter, wallet),
           Extends(p, b, w), UNCHANGED <<tip, status, in, watched, losses, shared>>
    PROVE  ScanInv'
<1> DEFINE P == IF b = estimated THEN Connected \ {downloadPeer} ELSE {}
           x == Loading(w, P)
           adopts == Sends([w EXCEPT !.ctx[p].current = Next_(b, orphans)])
<1>1. /\ filter # 0 /\ b = lastBlock + 1 /\ lastBlock' = b /\ estimated' = Max({estimated, b})
      /\ \/ /\ P # {} /\ Sends(x)
            /\ filter' = NewFilter /\ orphans' = {} /\ lastOrphan' = 0
         \/ /\ adopts /\ orphans' = orphans \ {b + 1}
            /\ UNCHANGED <<filter, lastOrphan>>
      /\ UNCHANGED <<wallet, downloadPeer>>
    BY DEF Extends, Load
<1>2. ~shared => P = {}
    BY NobodyElse
<1>3. NewFilter \in Nat
    BY NewFilterIs
<1>4. Right(Wire', View')
    <2>1. CASE P # {} /\ Sends(x)
        <3>1. /\ ~(View').single /\ (View').tip = View.tip /\ (View').status = View.status
              /\ (View').in = View.in
            BY <1>2, <2>1 DEF View
        <3> DEFINE v == View'
        <3> HIDE DEF P, x
        <3>2. Right(Loading(w, P), v)
            BY <1>3, <3>1, RightLoading DEF v
        <3>3. Loading(w, P) \in Wires(tip)
            BY <3>1, <3>2, ViewIs DEF Right, v
        <3>4. Wire' = x
            BY <2>1, <3>3, WireIs DEF x
        <3>5. QED BY <3>2, <3>4 DEF x, v
    <2>2. CASE adopts /\ UNCHANGED filter
        BY <1>1, <2>2, AdoptionKeeps
    <2>3. QED BY <1>1, <2>1, <2>2
<1> HIDE DEF adopts, x
<1>5. estimated' \in 0..tip
    <2>1. estimated \in 0..tip /\ tip \in Nat
        BY FilterAssumption DEF ScanInv, Types
    <2> DEFINE S == {estimated, b}
    <2>2. S \in SUBSET Nat /\ S # {} /\ \A y \in S : y <= tip
        BY <2>1
    <2>3. Max(S) \in S
        <3> HIDE DEF S
        <3>1. QED BY <2>1, <2>2, MaxOfBounded
    <2>4. estimated' = Max(S)
        BY <1>1
    <2>5. Max(S) = estimated \/ Max(S) = b
        BY <2>3
    <2> HIDE DEF S
    <2>6. QED BY <2>1, <2>4, <2>5
<1>6. Types'
    <2>0. /\ tip \in Nat /\ filter \in Nat /\ orphans \subseteq 1..tip /\ lastOrphan \in 0..tip
          /\ tip' = tip
        BY FilterAssumption DEF ScanInv, Types
    <2>1. /\ filter' \in Nat /\ orphans' \subseteq 1..tip /\ lastOrphan' \in 0..tip
          /\ lastBlock' \in 0..tip
        <3> HIDE DEF P
        <3>1. filter' = NewFilter \/ filter' = filter
            BY <1>1
        <3>2. orphans' = {} \/ orphans' = orphans \ {b + 1}
            BY <1>1
        <3>3. lastOrphan' = 0 \/ lastOrphan' = lastOrphan
            BY <1>1
        <3>4. lastBlock' = b
            BY <1>1
        <3>5. filter' \in Nat
            BY <1>3, <2>0, <3>1
        <3>6. orphans' \subseteq 1..tip
            BY <2>0, <3>2
        <3>7. lastOrphan' \in 0..tip /\ lastBlock' \in 0..tip
            BY <2>0, <3>3, <3>4
        <3>8. QED BY <2>0, <3>5, <3>6, <3>7
    <2>2. Connected' = Connected
        BY DEF Connected
    <2>3. QED BY ONLY ScanInv, <1>1, <1>5, <2>1, <2>2, UNCHANGED <<tip, status, in, watched, losses, shared>> DEF ScanInv, Types
<1>7. ASSUME ~shared' PROVE AllScanned' /\ (filter' # 0 => Matched')
    <2>1. ~shared /\ filter' = filter /\ orphans' \subseteq orphans
        BY <1>1, <1>2, <1>7
    <2>2. AllScanned /\ Matched /\ Covered(b, filter, wallet)
        BY <1>1, <2>1 DEF ScanInv
    <2>3. Pays[b] \in 0..filter
        <3>1. lastBlock + 1 <= tip
            BY <1>1
        <3>2. QED BY <1>1, <2>2, <3>1, NextIsMatched DEF Matched
    <2>4. Pays[b] # 0 => b \in wallet
        BY <2>2, <2>3 DEF Covered
    <2>5. AllScanned'
        <3>1. lastBlock \in Nat
            BY FilterAssumption DEF ScanInv, Types
        <3>2. \A d \in 1..lastBlock' : d \in 1..lastBlock \/ d = b
            BY <1>1, <3>1
        <3>3. QED BY <1>1, <2>2, <2>4, <3>2 DEF AllScanned
    <2>6. Matched'
        BY <1>1, <2>1, <2>2 DEF Matched, Covered, Used
    <2>7. QED BY <2>5, <2>6
<1>8. QED BY <1>4, <1>6, <1>7 DEF ScanInv

LEMMA RelayedBlockKeeps == ASSUME ScanInv, NEW p \in Peer, RelayedBlock(p) PROVE ScanInv'
<1> DEFINE b == ctx[p].current
           w == Rate(p, b, [Wire EXCEPT !.ctx[p].current = 0])
<1>1. /\ ctx[p].current # 0 /\ UNCHANGED <<tip, status, in, watched, losses, shared>>
      /\ Dropped(p, w) \/ Orphaned(p, b, w) \/ Existing(p, b, w) \/ Extends(p, b, w)
    BY DEF RelayedBlock
<1>2. /\ Right(w, View) /\ w \in Wires(tip) /\ b \in 1..tip
      /\ status[p] # "none" /\ (~shared => p = downloadPeer)
      /\ ~shared /\ filter # 0 => Covered(b, filter, wallet)
    BY <1>1, RelayedBlockIs
<1> HIDE DEF w, b
<1>3. CASE Dropped(p, w)
    BY <1>1, <1>2, <1>3, DroppedKeeps
<1>4. CASE Orphaned(p, b, w)
    BY <1>1, <1>2, <1>4, OrphanedKeeps
<1>5. CASE Existing(p, b, w)
    BY <1>1, <1>2, <1>5, ExistingKeeps
<1>6. CASE Extends(p, b, w)
    BY <1>1, <1>2, <1>6, ExtendsKeeps
<1>7. QED BY <1>1, <1>3, <1>4, <1>5, <1>6

-----------------------------------------------------------------------------
(* The callbacks of pongs *)

LEMMA CalledIs ==
    ASSUME ScanInv, NEW p \in Peer, NEW kind, Called(p, kind)
    PROVE  /\ p \in Connected /\ status[p] # "none" /\ ctx[p].current = 0
           /\ in[p] # <<>> /\ Head(in[p]).type = "pong" /\ in' = [in EXCEPT ![p] = Tail(@)]
           /\ UNCHANGED <<tip, status, watched, losses, shared>>
           /\ ctx[p].pongs \in Seq(Callbacks) /\ Len(ctx[p].pongs) \in Nat /\ Len(ctx[p].pongs) > 0
           /\ ctx[p].pongs[1] \in Callbacks
           /\ ctx[p].pongs[1].kind = kind /\ ctx[p].pongs[1].peer \in Peer
           /\ Taken.tip = tip /\ Taken.in = in' /\ Taken.status = status
           /\ Taken.download = downloadPeer /\ Taken.watched = watched
           /\ Taken.filter = filter /\ Taken.wallet = wallet /\ Taken.single = ~shared
           /\ OnlyIn(Taken, View) /\ Seen(Taken)
           /\ ~shared => /\ p = downloadPeer /\ ctx[p].pongs[1].peer = p
                         /\ Linked(p, ctx[p], out[p], in[p], watched[p], filter, wallet)
<1>1. /\ p \in Connected /\ ctx[p].current = 0 /\ in[p] # <<>> /\ Head(in[p]).type = "pong"
      /\ in' = [in EXCEPT ![p] = Tail(@)] /\ ctx[p].pongs[1].kind = kind
      /\ UNCHANGED <<tip, status, watched, losses, shared>>
    BY DEF Called, Received
<1>2. status[p] # "none"
    BY <1>1 DEF Connected
<1>3. /\ Taken.tip = tip /\ Taken.in = in' /\ Taken.status = status
      /\ Taken.download = downloadPeer /\ Taken.watched = watched
      /\ Taken.filter = filter /\ Taken.wallet = wallet /\ Taken.single = ~shared
    BY DEF Taken, View
<1>4. OnlyIn(Taken, View)
    BY <1>3, ViewIs DEF OnlyIn
<1>5. Seen(Taken)
    BY <1>3, HeldFacts, ViewIs DEF Seen
<1>6. /\ ctx[p].pongs \in Seq(Callbacks) /\ Proper(ctx[p], out[p], in[p], status[p])
      /\ out[p] \in Seq(Messages(tip)) /\ in[p] \in Seq(Messages(tip))
      /\ ~shared => /\ p = downloadPeer
                    /\ Linked(p, ctx[p], out[p], in[p], watched[p], filter, wallet)
    BY <1>2, AtPeer, HeldFacts, ViewIs
<1>7. Len(ctx[p].pongs) \in Nat /\ Len(ctx[p].pongs) > 0
    <2> DEFINE a == Number(out[p], "ping")
               b == Number(Tail(in[p]), "pong")
               n == Len(ctx[p].pongs)
    <2>1. a \in Nat /\ b \in Nat /\ Number(in[p], "pong") = b + 1
        <3>1. a \in Nat
            BY <1>6, NumberConcat
        <3>2. in[p] \in Seq(Messages(tip)) /\ in[p] # <<>> /\ Head(in[p]).type = "pong"
            BY <1>1, <1>6
        <3>3. b \in Nat /\ Number(in[p], "pong") = b + 1
            BY ONLY <3>2, TailFacts
        <3>4. QED BY <3>1, <3>3
    <2>2. n = a + Number(in[p], "pong")
        BY <1>6 DEF Proper
    <2> HIDE DEF a, b, n
    <2>3. n = a + (b + 1)
        BY <2>1, <2>2
    <2>4. n \in Nat /\ n > 0
        BY ONLY <2>1, <2>3
    <2>5. QED BY <2>4 DEF n
<1>8. ctx[p].pongs[1] \in Callbacks
    <2> DEFINE s == ctx[p].pongs
    <2>1. s \in Seq(Callbacks) /\ Len(s) \in Nat /\ Len(s) > 0
        BY <1>6, <1>7
    <2> HIDE DEF s
    <2>2. 1 \in 1..Len(s)
        BY <2>1
    <2>3. s[1] \in Callbacks
        BY <2>1, <2>2, ElementOfSeq
    <2>4. QED BY <2>3 DEF s
<1>9. ctx[p].pongs[1].peer \in Peer
    BY <1>8 DEF Callbacks
<1>10. ~shared => ctx[p].pongs[1].peer = p
    <2>1. \A k : Callback(p, k).peer = p
        BY DEF Callback
    <2>2. QED BY <1>6, <1>7, <2>1 DEF Linked, Pings
<1>11. QED BY <1>1, <1>2, <1>3, <1>4, <1>5, <1>6, <1>7, <1>8, <1>9, <1>10

LEMMA AnsweredIs ==
    ASSUME ScanInv, NEW p \in Peer, NEW kind, Called(p, kind)
    PROVE  LET x == Answered(p)
           IN  /\ x \in Wires(tip) /\ x.out = out
               /\ \A q \in Peer \ {p} : x.ctx[q] = ctx[q]
               /\ x.ctx[p].pongs = Tail(ctx[p].pongs)
               /\ x.ctx[p].needs = ctx[p].needs /\ x.ctx[p].current = ctx[p].current
<1> DEFINE x == Answered(p)
           n == Tail(ctx[p].pongs)
           d == [ctx[p] EXCEPT !.pongs = n]
<1>1. ctx \in [Peer -> Contexts(tip)] /\ out \in [Peer -> Seq(Messages(tip))]
      /\ ctx[p] \in Contexts(tip)
      /\ ctx[p].pongs \in Seq(Callbacks) /\ Len(ctx[p].pongs) > 0
    BY HeldFacts, CalledIs
<1>2. n \in Seq(Callbacks)
    BY <1>1, EmptySeq, TailFacts
<1>3. x = [Wire EXCEPT !.ctx = [ctx EXCEPT ![p] = d]] /\ Wire = [ctx |-> ctx, out |-> out]
    BY HeldFacts DEF Answered, Wire
<1> HIDE DEF n
<1>4. /\ d \in Contexts(tip) /\ d.pongs = n /\ d.needs = ctx[p].needs
      /\ d.current = ctx[p].current
    BY <1>1, <1>2 DEF Contexts
<1> HIDE DEF d, x
<1>5. /\ x \in Wires(tip) /\ x.out = out /\ x.ctx[p] = d
      /\ \A q \in Peer \ {p} : x.ctx[q] = ctx[q]
    BY <1>1, <1>3, <1>4 DEF Wires
<1>6. QED BY <1>4, <1>5 DEF x, n

(* What a step makes of the contexts when a callback is called that ends   *)
(* an update, or its wait for the node to have the filter.                 *)
LEMMA AnsweredRight ==
    ASSUME ScanInv, NEW p \in Peer, NEW kind, Called(p, kind),
           NEW x \in Wires(tip), x.out = out,
           \A r \in Peer : x.ctx[r].current = ctx[r].current,
           \A r \in Peer \ {p} : x.ctx[r].pongs = ctx[r].pongs,
           x.ctx[p].pongs = Tail(ctx[p].pongs),
           ~shared => \/ kind = "rerequest" /\ x.ctx[p].needs = ctx[p].needs
                      \/ kind = "load" /\ ~x.ctx[p].needs
    PROVE  Right(x, Taken)
<1>1. /\ Right(Wire, View) /\ Wire.ctx = ctx /\ Wire.out = out
      /\ View.in = in /\ View.tip = tip /\ View.single = ~shared
    BY HeldFacts, ViewIs
<1>2. /\ in[p] # <<>> /\ Head(in[p]).type = "pong" /\ in' = [in EXCEPT ![p] = Tail(@)]
      /\ Len(ctx[p].pongs) > 0 /\ ctx[p].pongs[1].kind = kind
      /\ OnlyIn(Taken, View) /\ Taken.in = in'
    BY CalledIs
<1>3. /\ View.in[p] # <<>> /\ Head(View.in[p]).type = "pong" /\ Len(Wire.ctx[p].pongs) > 0
      /\ Taken.in = [View.in EXCEPT ![p] = Tail(@)]
      /\ x \in Wires(View.tip) /\ x.out = Wire.out
      /\ \A r \in Peer : x.ctx[r].current = Wire.ctx[r].current
      /\ \A r \in Peer \ {p} : x.ctx[r].pongs = Wire.ctx[r].pongs
      /\ x.ctx[p].pongs = Tail(Wire.ctx[p].pongs)
    BY <1>1, <1>2
<1>4. View.single => \/ /\ Wire.ctx[p].pongs[1].kind = "rerequest"
                        /\ x.ctx[p].needs = Wire.ctx[p].needs
                     \/ Wire.ctx[p].pongs[1].kind = "load" /\ ~x.ctx[p].needs
    BY <1>1, <1>2
<1>5. OnlyIn(Taken, View)
    BY <1>2
<1>6. QED BY ONLY p \in Peer, <1>1, <1>3, <1>4, <1>5, RightAnswered

LEMMA UpdateFilterRerequestDoneKeeps ==
    ASSUME ScanInv, NEW p \in Peer, UpdateFilterRerequestDone(p) PROVE ScanInv'
<1> DEFINE q == ctx[p].pongs[1].peer
           x == Answered(p)
           y == SendGetblocks(x, q, lastBlock)
<1>1. /\ Called(p, "rerequest")
      /\ Sends(x) \/ Sends(y)
      /\ UNCHANGED <<lastBlock, estimated, orphans, lastOrphan, wallet, downloadPeer, filter>>
    BY DEF UpdateFilterRerequestDone, managerVars
<1>2. /\ in[p] # <<>> /\ Head(in[p]).type = "pong" /\ in' = [in EXCEPT ![p] = Tail(@)]
      /\ UNCHANGED <<tip, status, watched, shared>>
      /\ Len(ctx[p].pongs) > 0 /\ ctx[p].pongs[1].kind = "rerequest" /\ q \in Peer
      /\ OnlyIn(Taken, View) /\ Taken.in = in' /\ Taken.tip = tip
      /\ Taken.download = downloadPeer /\ Taken.single = ~shared
      /\ ~shared => p = downloadPeer /\ q = p
    BY <1>1, CalledIs
<1>3. /\ x \in Wires(tip) /\ x.out = out
      /\ \A r \in Peer \ {p} : x.ctx[r] = ctx[r]
      /\ x.ctx[p].pongs = Tail(ctx[p].pongs)
      /\ x.ctx[p].needs = ctx[p].needs /\ x.ctx[p].current = ctx[p].current
    BY <1>1, AnsweredIs
<1> HIDE DEF x, q
<1>4. Right(x, Taken)
    BY <1>1, <1>3, AnsweredRight
<1>5. Right(y, Taken)
    <2>1. lastBlock \in Nat
        BY FilterAssumption DEF ScanInv, Types
    <2>2. Taken.single => q = Taken.download
        BY <1>2
    <2>3. QED BY <1>2, <1>4, <2>1, <2>2, RightGetblocks
<1> HIDE DEF y
<1>6. x \in Wires(tip) /\ y \in Wires(tip)
    BY <1>2, <1>4, <1>5 DEF Right
<1>7. Wire' = x \/ Wire' = y
    BY <1>1, <1>6, WireIs
<1>8. View' = Taken
    <2>1. UNCHANGED <<tip, status, watched, shared, downloadPeer, filter, wallet>>
        BY <1>1, <1>2
    <2>2. QED BY ONLY <2>1 DEF View, Taken
<1>9. Right(Wire', View')
    BY <1>4, <1>5, <1>7, <1>8
<1>10. QED BY <1>1, <1>2, <1>9, Unmoved

(* The blocks that are asked for again, from one that was announced.       *)
LEMMA ForgottenIs ==
    ASSUME NEW S, NEW s \in Seq(S), NEW h PROVE Forgotten(s, h) \in Seq(S)
<1> DEFINE A == {i \in DOMAIN s : s[i] = h}
<1>1. Len(s) \in Nat /\ DOMAIN s = 1..Len(s) /\ A \in SUBSET Nat /\ \A i \in A : i <= Len(s)
    BY LenProperties
<1>2. CASE A = {}
    BY <1>2 DEF Forgotten
<1>3. CASE A # {}
    <2>1. Max(A) \in A
        <3> HIDE DEF A
        <3>1. QED BY <1>1, <1>3, MaxOfBounded
    <2> DEFINE m == Max(A)
    <2>2. m \in 1..Len(s) /\ Len(s) \in Int
        BY <1>1, <2>1
    <2>3. Forgotten(s, h) = SubSeq(s, m, Len(s))
        BY <1>3 DEF Forgotten
    <2> HIDE DEF m
    <2>4. \A i \in m..Len(s) : s[i] \in S
        <3> SUFFICES ASSUME NEW i \in m..Len(s) PROVE s[i] \in S
            OBVIOUS
        <3>1. i \in 1..Len(s)
            BY <2>2
        <3>2. QED BY <3>1, ElementOfSeq
    <2>5. m \in Int
        BY <2>2
    <2>6. SubSeq(s, m, Len(s)) \in Seq(S)
        BY <2>2, <2>4, <2>5, SubSeqProperties
    <2>7. QED BY <2>3, <2>6
<1>4. QED BY <1>2, <1>3

LEMMA RerequestIs ==
    ASSUME NEW t, NEW w \in Wires(t), NEW p \in Peer, NEW h,
           \E i \in DOMAIN w.ctx[p].known : w.ctx[p].known[i] = h
    PROVE  LET x == Rerequest(w, p, h)
               m == Getdata(Forgotten(w.ctx[p].known, h))
           IN  /\ x \in Wires(t) /\ m \in Messages(t) /\ Adds(x, w, p, m)
               /\ x.ctx[p].pongs = w.ctx[p].pongs
               /\ x.ctx[p].needs = w.ctx[p].needs /\ x.ctx[p].current = w.ctx[p].current
               /\ \A q \in Peer \ {p} : x.ctx[q] = w.ctx[q] /\ x.out[q] = w.out[q]
<1> DEFINE x == Rerequest(w, p, h)
           k == Forgotten(w.ctx[p].known, h)
           m == Getdata(k)
           a == Append(w.out[p], m)
           d == [w.ctx[p] EXCEPT !.known = k]
<1>1. w.ctx[p] \in Contexts(t) /\ w.out[p] \in Seq(Messages(t))
    BY DEF Wires
<1>2. k \in Seq(1..t)
    <2>1. w.ctx[p].known \in Seq(1..t)
        BY <1>1 DEF Contexts
    <2>2. QED BY <2>1, ForgottenIs
<1>3. x = [w EXCEPT !.ctx = [w.ctx EXCEPT ![p] = d], !.out = [w.out EXCEPT ![p] = a]]
    BY DEF Rerequest, Wires, Contexts
<1> HIDE DEF k
<1>4. m \in Messages(t)
    BY <1>2 DEF Getdata, Messages, Kinds
<1> HIDE DEF m
<1>5. a \in Seq(Messages(t))
    BY <1>1, <1>4, AppendProperties
<1>6. /\ d \in Contexts(t) /\ d.pongs = w.ctx[p].pongs /\ d.needs = w.ctx[p].needs
      /\ d.current = w.ctx[p].current
    BY <1>1, <1>2 DEF Contexts
<1>7. Adds(x, w, p, m) <=> x.out[p] = a
    BY DEF Adds
<1> HIDE DEF a, d, x
<1>8. /\ x \in Wires(t) /\ x.ctx[p] = d /\ x.out[p] = a
      /\ \A q \in Peer \ {p} : x.ctx[q] = w.ctx[q] /\ x.out[q] = w.out[q]
    BY <1>3, <1>5, <1>6 DEF Wires
<1>9. QED BY <1>4, <1>6, <1>7, <1>8 DEF x, m, k

LEMMA RightRerequest ==
    ASSUME NEW w, NEW v, Right(w, v), NEW p \in Peer, NEW h,
           v.single => p = v.download /\ ~w.ctx[p].needs
    PROVE  LET x == Rerequest(w, p, h)
           IN  /\ Right(x, v) /\ x.ctx[p].pongs = w.ctx[p].pongs
               /\ x.ctx[p].needs = w.ctx[p].needs
<1> DEFINE x == Rerequest(w, p, h)
           m == Getdata(Forgotten(w.ctx[p].known, h))
<1>1. CASE ~ \E i \in DOMAIN w.ctx[p].known : w.ctx[p].known[i] = h
    BY <1>1 DEF Rerequest
<1>2. CASE \E i \in DOMAIN w.ctx[p].known : w.ctx[p].known[i] = h
    <2>1. w \in Wires(v.tip)
        BY DEF Right
    <2>2. /\ x \in Wires(v.tip) /\ m \in Messages(v.tip) /\ Adds(x, w, p, m)
          /\ x.ctx[p].pongs = w.ctx[p].pongs
          /\ x.ctx[p].needs = w.ctx[p].needs /\ x.ctx[p].current = w.ctx[p].current
          /\ \A q \in Peer \ {p} : x.ctx[q] = w.ctx[q] /\ x.out[q] = w.out[q]
        BY <1>2, <2>1, RerequestIs
    <2>3. m.type # "ping" /\ (v.single => p = v.download /\ Harmless(m, w.ctx[p]))
        BY DEF Harmless, Getdata
    <2> HIDE DEF x, m
    <2>4. Right(x, v)
        BY <2>2, <2>3, MessageSent
    <2>5. QED BY <2>2, <2>4 DEF x
<1>3. QED BY <1>1, <1>2

LEMMA UpdateFilterLoadDoneKeeps ==
    ASSUME ScanInv, NEW p \in Peer, UpdateFilterLoadDone(p) PROVE ScanInv'
<1> DEFINE q == ctx[p].pongs[1].peer
           x == [Answered(p) EXCEPT !.ctx[q].needs = FALSE]
           y == Rerequest(x, downloadPeer, lastBlock)
           c == [kind |-> "rerequest", peer |-> q]
           z == SendPing(y, downloadPeer, c)
<1>1. /\ Called(p, "load")
      /\ Sends(x) \/ (Sends(z) /\ downloadPeer # NoPeer)
      /\ UNCHANGED <<lastBlock, estimated, orphans, lastOrphan, wallet, downloadPeer, filter>>
    BY DEF UpdateFilterLoadDone, managerVars
<1>2. /\ UNCHANGED <<tip, status, watched, shared>>
      /\ Len(ctx[p].pongs) \in Nat /\ Len(ctx[p].pongs) > 0 /\ ctx[p].pongs[1].kind = "load"
      /\ q \in Peer /\ ctx[p].pongs \in Seq(Callbacks)
      /\ Taken.tip = tip /\ Taken.status = status /\ Seen(Taken)
      /\ Taken.download = downloadPeer /\ Taken.single = ~shared
      /\ ~shared => /\ p = downloadPeer /\ q = p
                    /\ Linked(p, ctx[p], out[p], in[p], watched[p], filter, wallet)
    BY <1>1, CalledIs
<1>3. /\ x \in Wires(tip) /\ x.out = out
      /\ \A r \in Peer : x.ctx[r].current = ctx[r].current
      /\ \A r \in Peer \ {p} : x.ctx[r].pongs = ctx[r].pongs
      /\ x.ctx[p].pongs = Tail(ctx[p].pongs)
      /\ ~x.ctx[q].needs
    <2> DEFINE w == Answered(p)
               d == [w.ctx[q] EXCEPT !.needs = FALSE]
    <2>1. /\ w \in Wires(tip) /\ w.out = out
          /\ \A r \in Peer \ {p} : w.ctx[r] = ctx[r]
          /\ w.ctx[p].pongs = Tail(ctx[p].pongs)
          /\ w.ctx[p].current = ctx[p].current
        BY <1>1, AnsweredIs
    <2> HIDE DEF w, q
    <2>2. w.ctx \in [Peer -> Contexts(tip)] /\ w.out \in [Peer -> Seq(Messages(tip))]
          /\ w.ctx[q] \in Contexts(tip)
        BY <1>2, <2>1 DEF Wires
    <2>3. /\ d \in Contexts(tip) /\ d.pongs = w.ctx[q].pongs /\ d.current = w.ctx[q].current
          /\ ~d.needs
        BY <2>2 DEF Contexts
    <2>4. x = [w EXCEPT !.ctx = [w.ctx EXCEPT ![q] = d]]
        BY <2>1 DEF w, Wires
    <2> HIDE DEF d, x
    <2>5. /\ x \in Wires(tip) /\ x.out = w.out /\ x.ctx[q] = d
          /\ \A r \in Peer \ {q} : x.ctx[r] = w.ctx[r]
        BY <1>2, <2>1, <2>2, <2>3, <2>4 DEF Wires
    <2>6. \A r \in Peer : x.ctx[r].pongs = w.ctx[r].pongs /\ x.ctx[r].current = w.ctx[r].current
        BY <2>3, <2>5
    <2>7. QED BY <2>1, <2>3, <2>5, <2>6
<1> HIDE DEF x
<1>4. Right(x, Taken)
    <2>1. ~shared => ~x.ctx[p].needs
        BY <1>2, <1>3
    <2> HIDE DEF q
    <2>2. QED BY <1>1, <1>3, <2>1, AnsweredRight
<1>5. ASSUME downloadPeer # NoPeer PROVE Right(z, Taken)
    <2>1. downloadPeer \in Peer
        BY <1>5, HeldFacts
    <2>2. ~shared => q = downloadPeer /\ ~x.ctx[downloadPeer].needs
                     /\ Len(x.ctx[downloadPeer].pongs) = 0
        <3> SUFFICES ASSUME ~shared PROVE q = downloadPeer /\ ~x.ctx[downloadPeer].needs
                                          /\ Len(x.ctx[downloadPeer].pongs) = 0
            OBVIOUS
        <3>1. Len(ctx[p].pongs) = 1
            BY <1>2 DEF Linked, Pings, Callback
        <3>2. ctx[p].pongs \in Seq(Callbacks) /\ ctx[p].pongs # <<>>
            BY <1>2, EmptySeq
        <3>3. Len(Tail(ctx[p].pongs)) = Len(ctx[p].pongs) - 1
            BY <3>2, HeadTailProperties
        <3>4. Len(x.ctx[p].pongs) = 0
            BY <1>3, <3>1, <3>3
        <3>5. p = downloadPeer /\ q = p
            BY <1>2
        <3>6. QED BY <1>3, <3>4, <3>5
    <2> HIDE DEF q
    <2>3. Right(y, Taken) /\ y.ctx[downloadPeer].pongs = x.ctx[downloadPeer].pongs
          /\ y.ctx[downloadPeer].needs = x.ctx[downloadPeer].needs
        <3>1. Taken.single => downloadPeer = Taken.download /\ ~x.ctx[downloadPeer].needs
            BY <1>2, <2>2
        <3>2. QED BY ONLY <1>4, <2>1, <3>1, RightRerequest DEF y
    <2> HIDE DEF y
    <2>4. y \in Wires(tip) /\ c \in Callbacks /\ c = Callback(q, "rerequest")
        BY <1>2, <2>3 DEF Right, Callbacks, Callback
    <2> HIDE DEF c
    <2>5. /\ z \in Wires(tip) /\ Adds(z, y, downloadPeer, Ping) /\ Calls(z, y, downloadPeer, c)
          /\ z.ctx[downloadPeer].needs = y.ctx[downloadPeer].needs
          /\ z.ctx[downloadPeer].current = y.ctx[downloadPeer].current
          /\ \A r \in Peer \ {downloadPeer} : z.ctx[r] = y.ctx[r] /\ z.out[r] = y.out[r]
        BY ONLY <2>1, <2>4, SendPingIs
    <2> HIDE DEF z
    <2>6. Taken.status[downloadPeer] # "none" /\ downloadPeer = Taken.download
        BY <1>2, <2>1 DEF Seen
    <2>7. Taken.single => q = downloadPeer /\ ~y.ctx[downloadPeer].needs
                          /\ Len(y.ctx[downloadPeer].pongs) = 0
        BY <1>2, <2>2, <2>3
    <2>8. z \in Wires(Taken.tip) /\ q \in Peer
        BY <1>2, <2>5
    <2>9. Calls(z, y, downloadPeer, Callback(q, "rerequest"))
        BY <2>4, <2>5
    <2> DEFINE e == downloadPeer
    <2>10. Right(z, Taken)
        BY ONLY <2>1, <2>3, <2>5, <2>6, <2>7, <2>8, <2>9, RerequestBegun
    <2>11. QED BY <2>10
<1> HIDE DEF z
<1>6. x \in Wires(tip) /\ (downloadPeer # NoPeer => z \in Wires(tip))
    BY <1>2, <1>4, <1>5 DEF Right
<1>7. Wire' = x \/ (Wire' = z /\ downloadPeer # NoPeer)
    BY <1>1, <1>6, WireIs
<1>8. View' = Taken
    <2>1. UNCHANGED <<tip, status, watched, shared, downloadPeer, filter, wallet>>
        BY <1>1, <1>2
    <2>2. QED BY ONLY <2>1 DEF View, Taken
<1>9. Right(Wire', View')
    BY <1>4, <1>5, <1>7, <1>8
<1>10. QED BY <1>1, <1>2, <1>9, Unmoved

(* Some peers are sent a ping, each with a callback.                       *)
Pinging(w, P, calls) ==
    [ctx |-> [q \in Peer |-> IF q \notin P THEN w.ctx[q]
                             ELSE [w.ctx[q] EXCEPT !.pongs = Append(@, calls[q])]],
     out |-> [q \in Peer |-> IF q \in P THEN Append(w.out[q], Ping) ELSE w.out[q]]]

LEMMA PingingIs ==
    ASSUME NEW t, NEW w \in Wires(t), NEW P, NEW calls \in [Peer -> Callbacks]
    PROVE  LET x == Pinging(w, P, calls)
           IN  /\ x \in Wires(t)
               /\ \A q \in Peer : /\ x.ctx[q].needs = w.ctx[q].needs
                                  /\ x.ctx[q].current = w.ctx[q].current
                                  /\ q \in P => /\ Adds(x, w, q, Ping)
                                                /\ Calls(x, w, q, calls[q])
                                  /\ q \notin P => x.out[q] = w.out[q] /\ x.ctx[q] = w.ctx[q]
<1> DEFINE x == Pinging(w, P, calls)
           n(q) == Append(w.ctx[q].pongs, calls[q])
           d(q) == [w.ctx[q] EXCEPT !.pongs = n(q)]
           a(q) == Append(w.out[q], Ping)
<1>1. w.ctx \in [Peer -> Contexts(t)] /\ w.out \in [Peer -> Seq(Messages(t))]
    BY DEF Wires
<1>2. \A q \in Peer : n(q) \in Seq(Callbacks) /\ w.ctx[q] \in Contexts(t)
    <2> SUFFICES ASSUME NEW q \in Peer PROVE n(q) \in Seq(Callbacks) /\ w.ctx[q] \in Contexts(t)
        OBVIOUS
    <2>1. w.ctx[q] \in Contexts(t)
        BY <1>1
    <2>2. w.ctx[q].pongs \in Seq(Callbacks) /\ calls[q] \in Callbacks
        BY <2>1 DEF Contexts
    <2>3. QED BY <2>1, <2>2, AppendProperties
<1>3. \A q \in Peer : a(q) \in Seq(Messages(t))
    <2> SUFFICES ASSUME NEW q \in Peer PROVE a(q) \in Seq(Messages(t))
        OBVIOUS
    <2>1. w.out[q] \in Seq(Messages(t)) /\ Ping \in Messages(t)
        BY <1>1, PingIsMessage
    <2>2. QED BY <2>1, AppendProperties
<1>4. x = [ctx |-> [q \in Peer |-> IF q \notin P THEN w.ctx[q] ELSE d(q)],
           out |-> [q \in Peer |-> IF q \in P THEN a(q) ELSE w.out[q]]]
    BY DEF Pinging
<1>5. \A q \in Peer : /\ Adds(x, w, q, Ping) <=> x.out[q] = a(q)
                      /\ Calls(x, w, q, calls[q]) <=> x.ctx[q].pongs = n(q)
    BY DEF Adds, Calls
<1> HIDE DEF n
<1>6. \A q \in Peer : /\ d(q) \in Contexts(t) /\ d(q).pongs = n(q)
                      /\ d(q).needs = w.ctx[q].needs /\ d(q).current = w.ctx[q].current
    BY <1>1, <1>2 DEF Contexts
<1> HIDE DEF d, a, x
<1>7. /\ x.ctx = [q \in Peer |-> IF q \notin P THEN w.ctx[q] ELSE d(q)]
      /\ x.out = [q \in Peer |-> IF q \in P THEN a(q) ELSE w.out[q]]
      /\ x = [ctx |-> x.ctx, out |-> x.out]
    BY <1>4
<1>8. x.ctx \in [Peer -> Contexts(t)]
    BY <1>1, <1>6, <1>7
<1>9. x.out \in [Peer -> Seq(Messages(t))]
    BY <1>1, <1>3, <1>7
<1>10. x \in Wires(t)
    BY <1>7, <1>8, <1>9 DEF Wires
<1>11. ASSUME NEW q \in Peer
       PROVE  /\ x.ctx[q].needs = w.ctx[q].needs
              /\ x.ctx[q].current = w.ctx[q].current
              /\ q \in P => /\ Adds(x, w, q, Ping)
                            /\ Calls(x, w, q, calls[q])
              /\ q \notin P => x.out[q] = w.out[q] /\ x.ctx[q] = w.ctx[q]
    <2>1. /\ x.ctx[q] = IF q \notin P THEN w.ctx[q] ELSE d(q)
          /\ x.out[q] = IF q \in P THEN a(q) ELSE w.out[q]
        BY <1>7
    <2>2. QED BY <1>5, <1>6, <2>1
<1>12. QED BY <1>10, <1>11 DEF x

LEMMA RightShared ==
    ASSUME NEW w, NEW v, Right(w, v), NEW u, ~u.single,
           u.tip = v.tip, u.status = v.status, u.in = v.in
    PROVE  Right(w, u)
BY DEF Right

LEMMA RightPinging ==
    ASSUME NEW w, NEW v, Right(w, v), ~v.single, NEW P, NEW calls \in [Peer -> Callbacks],
           \A q \in Peer : q \in P => v.status[q] # "none"
    PROVE  Right(Pinging(w, P, calls), v)
<1> DEFINE x == Pinging(w, P, calls)
<1>1. w \in Wires(v.tip)
    BY DEF Right
<1>2. /\ x \in Wires(v.tip)
      /\ \A q \in Peer : /\ q \in P => Adds(x, w, q, Ping) /\ Calls(x, w, q, calls[q])
                         /\ q \notin P => x.out[q] = w.out[q] /\ x.ctx[q] = w.ctx[q]
    BY <1>1, PingingIs
<1> HIDE DEF x
<1>3. ASSUME NEW q \in Peer PROVE Proper(x.ctx[q], x.out[q], v.in[q], v.status[q])
    <2>1. CASE q \in P
        <3>1. Adds(x, w, q, Ping) /\ Calls(x, w, q, calls[q]) /\ v.status[q] # "none"
              /\ calls[q] \in Callbacks
            BY <1>2, <2>1
        <3>2. QED BY <3>1, PingSent
    <2>2. CASE q \notin P
        BY <1>2, <2>2 DEF Right
    <2>3. QED BY <2>1, <2>2
<1>4. Right(x, v)
    BY <1>2, <1>3 DEF Right
<1>5. QED BY <1>4 DEF x

(* The peers that get the new filter, and the callbacks of their pings.    *)
Loaded == IF Syncing THEN {downloadPeer} ELSE Connected

LoadCalls(p) ==
    [q \in Peer |-> Callback(IF Syncing THEN ctx[p].pongs[1].peer ELSE q, "load")]

Reloaded(p) == Pinging(Loading(Answered(p), Loaded), Loaded, LoadCalls(p))

LEMMA PingDoneIs ==
    ASSUME ScanInv, NEW p \in Peer, UpdateFilterPingDone(p)
    PROVE  /\ Called(p, "update")
           /\ UNCHANGED <<lastBlock, estimated, wallet, downloadPeer>>
           /\ \/ /\ Syncing /\ downloadPeer = NoPeer
                 /\ Sends(Answered(p)) /\ filter' = 0 /\ UNCHANGED <<orphans, lastOrphan>>
              \/ /\ ~(Syncing /\ downloadPeer = NoPeer)
                 /\ Sends(Reloaded(p)) /\ filter' = NewFilter /\ orphans' = {} /\ lastOrphan' = 0
<1>1. Called(p, "update") /\ UNCHANGED <<lastBlock, estimated, wallet, downloadPeer>>
    BY DEF UpdateFilterPingDone
<1>2. CASE Syncing /\ downloadPeer = NoPeer
    BY <1>1, <1>2 DEF UpdateFilterPingDone
<1>3. CASE ~(Syncing /\ downloadPeer = NoPeer)
    <2> DEFINE x == Loading(Answered(p), Loaded)
               asker(q) == IF Syncing THEN ctx[p].pongs[1].peer ELSE q
               n(q) == [kind |-> "load", peer |-> asker(q)]
    <2>1. /\ Load(Loaded)
          /\ ctx' = [q \in Peer |-> IF q \notin Loaded THEN x.ctx[q]
                                    ELSE [x.ctx[q] EXCEPT !.pongs = Append(@, n(q))]]
          /\ out' = [q \in Peer |-> IF q \in Loaded THEN Append(x.out[q], Ping) ELSE x.out[q]]
        BY <1>3 DEF UpdateFilterPingDone, Loaded
    <2>2. Loaded # {}
        <3>1. p \in Connected
            BY <1>1, CalledIs
        <3>2. QED BY <3>1 DEF Loaded
    <2>3. \A q \in Peer : LoadCalls(p)[q] = n(q)
        BY DEF LoadCalls, Callback
    <2> HIDE DEF x, n
    <2>4. \A q \in Peer : [x.ctx[q] EXCEPT !.pongs = Append(@, LoadCalls(p)[q])] =
                          [x.ctx[q] EXCEPT !.pongs = Append(@, n(q))]
        BY <2>3
    <2>5. /\ Pinging(x, Loaded, LoadCalls(p)).ctx =
                [q \in Peer |-> IF q \notin Loaded THEN x.ctx[q]
                                ELSE [x.ctx[q] EXCEPT !.pongs = Append(@, LoadCalls(p)[q])]]
          /\ Pinging(x, Loaded, LoadCalls(p)).out =
                [q \in Peer |-> IF q \in Loaded THEN Append(x.out[q], Ping) ELSE x.out[q]]
        BY DEF Pinging
    <2>6. Sends(Pinging(x, Loaded, LoadCalls(p)))
        BY <2>1, <2>4, <2>5 DEF Sends
    <2>7. Sends(Reloaded(p))
        BY <2>6 DEF Reloaded, x
    <2>8. filter' = NewFilter /\ orphans' = {} /\ lastOrphan' = 0
        BY <2>1, <2>2 DEF Load
    <2>9. QED BY <1>1, <1>3, <2>7, <2>8
<1>4. QED BY <1>2, <1>3

(* Whatever the peers, the types and counts of an answer stay right.       *)
Crowd == [Taken EXCEPT !.single = FALSE]

LEMMA AnsweredInCrowd ==
    ASSUME ScanInv, NEW p \in Peer, NEW kind, Called(p, kind) PROVE Right(Answered(p), Crowd)
<1> DEFINE x == Answered(p)
           v == [View EXCEPT !.single = FALSE]
<1>1. /\ Right(Wire, View) /\ Wire.ctx = ctx /\ Wire.out = out
      /\ View.in = in /\ View.tip = tip /\ View.status = status
    BY HeldFacts, ViewIs
<1>2. /\ in[p] # <<>> /\ Head(in[p]).type = "pong" /\ in' = [in EXCEPT ![p] = Tail(@)]
      /\ Len(ctx[p].pongs) > 0
    BY CalledIs
<1>3. /\ v.in = in /\ v.tip = tip /\ v.status = status /\ ~v.single
      /\ OnlyIn(Crowd, v) /\ Crowd.in = in'
    BY DEF View, Crowd, Taken, OnlyIn
<1> HIDE DEF v
<1>4. Right(Wire, v)
    BY <1>1, <1>3, RightShared
<1>5. /\ x \in Wires(tip) /\ x.out = out
      /\ \A q \in Peer \ {p} : x.ctx[q] = ctx[q]
      /\ x.ctx[p].pongs = Tail(ctx[p].pongs) /\ x.ctx[p].current = ctx[p].current
    BY AnsweredIs
<1> HIDE DEF x
<1>6. /\ v.in[p] # <<>> /\ Head(v.in[p]).type = "pong" /\ Len(Wire.ctx[p].pongs) > 0
      /\ Crowd.in = [v.in EXCEPT ![p] = Tail(@)]
      /\ x \in Wires(v.tip) /\ x.out = Wire.out
      /\ \A r \in Peer : x.ctx[r].current = Wire.ctx[r].current
      /\ \A r \in Peer \ {p} : x.ctx[r].pongs = Wire.ctx[r].pongs
      /\ x.ctx[p].pongs = Tail(Wire.ctx[p].pongs)
    BY <1>1, <1>2, <1>3, <1>5
<1>7. v.single => \/ /\ Wire.ctx[p].pongs[1].kind = "rerequest"
                     /\ x.ctx[p].needs = Wire.ctx[p].needs
                  \/ Wire.ctx[p].pongs[1].kind = "load" /\ ~x.ctx[p].needs
    BY <1>3
<1>8. OnlyIn(Crowd, v)
    BY <1>3
<1>9. Right(x, Crowd)
    BY ONLY p \in Peer, <1>4, <1>6, <1>7, <1>8, RightAnswered
<1>10. QED BY <1>9 DEF x

LEMMA ReloadedInCrowd ==
    ASSUME ScanInv, NEW p \in Peer, Called(p, "update"), ~(Syncing /\ downloadPeer = NoPeer)
    PROVE  Right(Reloaded(p), Crowd) /\ Reloaded(p) \in Wires(tip)
<1> DEFINE x == Loading(Answered(p), Loaded)
           calls == LoadCalls(p)
<1>1. /\ ~Crowd.single /\ Crowd.tip = tip /\ Crowd.status = status
    BY DEF Crowd, Taken, View
<1>2. Right(x, Crowd)
    BY <1>1, AnsweredInCrowd, NewFilterIs, RightLoading
<1>3. calls \in [Peer -> Callbacks]
    <2>1. ctx[p].pongs[1].peer \in Peer
        BY CalledIs
    <2>2. \A q \in Peer : Callback(q, "load") \in Callbacks
        BY DEF Callback, Callbacks
    <2>3. QED BY <2>1, <2>2 DEF LoadCalls
<1>4. \A q \in Peer : q \in Loaded => Crowd.status[q] # "none"
    <2>1. downloadPeer = NoPeer \/ downloadPeer \in Connected
        BY DEF ScanInv, Types
    <2>2. QED BY <1>1, <2>1 DEF Loaded, Connected
<1> HIDE DEF x, calls
<1>5. Right(Pinging(x, Loaded, calls), Crowd)
    BY <1>1, <1>2, <1>3, <1>4, RightPinging
<1>6. Right(Reloaded(p), Crowd)
    BY <1>5 DEF Reloaded, x, calls
<1>7. QED BY <1>1, <1>6 DEF Right

(* With one peer, the new filter is the one its answers will be made with. *)
LEMMA ReloadedLinked ==
    ASSUME ScanInv, NEW p \in Peer, Called(p, "update"), ~(Syncing /\ downloadPeer = NoPeer),
           ~shared
    PROVE  LET x == Reloaded(p)
           IN  /\ \A q \in Peer : q # downloadPeer => x.out[q] = <<>>
               /\ Linked(p, x.ctx[p], x.out[p], in'[p], watched[p], NewFilter, wallet)
<1> DEFINE w == Answered(p)
           y == Loading(w, Loaded)
           calls == LoadCalls(p)
           x == Pinging(y, Loaded, calls)
           m == Filterload(NewFilter)
<1>1. /\ p \in Connected /\ status[p] # "none" /\ ctx[p].current = 0
      /\ in[p] # <<>> /\ Head(in[p]).type = "pong" /\ in' = [in EXCEPT ![p] = Tail(@)]
      /\ ctx[p].pongs \in Seq(Callbacks) /\ Len(ctx[p].pongs) > 0
      /\ ctx[p].pongs[1].kind = "update" /\ ctx[p].pongs[1].peer = p
      /\ p = downloadPeer
      /\ Linked(p, ctx[p], out[p], in[p], watched[p], filter, wallet)
    BY CalledIs
<1>2. /\ out[p] \in Seq(Messages(tip)) /\ in[p] \in Seq(Messages(tip))
      /\ Proper(ctx[p], out[p], in[p], status[p])
      /\ \A q \in Peer : q # downloadPeer => status[q] = "none" /\ out[q] = <<>>
      /\ in \in [Peer -> Seq(Messages(tip))]
    <2>1. out[p] \in Seq(Messages(tip)) /\ in[p] \in Seq(Messages(tip))
          /\ in \in [Peer -> Seq(Messages(tip))]
        BY HeldFacts
    <2>2. Proper(ctx[p], out[p], in[p], status[p])
        BY AtPeer, HeldFacts, ViewIs
    <2>3. \A q \in Peer : q # downloadPeer => status[q] = "none" /\ out[q] = <<>>
        BY HeldFacts, ViewIs DEF Right
    <2>4. QED BY <2>1, <2>2, <2>3
<1>3. Loaded \cap Peer = {p}
    BY <1>1, <1>2 DEF Loaded, Connected
<1>4. calls \in [Peer -> Callbacks] /\ calls[p] = Callback(p, "load")
    <2>1. \A q \in Peer : Callback(q, "load") \in Callbacks
        BY DEF Callback, Callbacks
    <2>2. QED BY <1>1, <2>1 DEF LoadCalls
<1>5. /\ w \in Wires(tip) /\ w.out = out
      /\ w.ctx[p].pongs = Tail(ctx[p].pongs)
      /\ w.ctx[p].needs = ctx[p].needs /\ w.ctx[p].current = ctx[p].current
    BY AnsweredIs
<1> HIDE DEF w, calls
<1>6. /\ y \in Wires(tip)
      /\ \A q \in Peer : /\ y.ctx[q].pongs = w.ctx[q].pongs
                         /\ y.ctx[q].needs = w.ctx[q].needs
                         /\ y.ctx[q].current = w.ctx[q].current
                         /\ q \in Loaded => y.out[q] = Append(w.out[q], m)
                         /\ q \notin Loaded => y.out[q] = w.out[q] /\ y.ctx[q] = w.ctx[q]
    BY <1>5, NewFilterIs, LoadingIs
<1> HIDE DEF y
<1>7. /\ x \in Wires(tip)
      /\ \A q \in Peer : /\ x.ctx[q].needs = y.ctx[q].needs
                         /\ x.ctx[q].current = y.ctx[q].current
                         /\ q \in Loaded => /\ Adds(x, y, q, Ping)
                                            /\ Calls(x, y, q, calls[q])
                         /\ q \notin Loaded => x.out[q] = y.out[q] /\ x.ctx[q] = y.ctx[q]
    BY <1>4, <1>6, PingingIs
<1> HIDE DEF x, m
<1>8. \A q \in Peer : q # downloadPeer => x.out[q] = <<>>
    <2> SUFFICES ASSUME NEW q \in Peer, q # downloadPeer PROVE x.out[q] = <<>>
        OBVIOUS
    <2>1. q \notin Loaded
        BY <1>1, <1>3
    <2>2. x.out[q] = y.out[q] /\ y.out[q] = w.out[q] /\ w.out[q] = out[q]
        BY <1>5, <1>6, <1>7, <2>1
    <2>3. out[q] = <<>>
        BY <1>2
    <2>4. QED BY <2>2, <2>3
<1>9. p \in Loaded
    BY <1>3
<1>10. Len(ctx[p].pongs) = 1
    BY <1>1 DEF Linked, Pings, Callback
<1>11. Len(x.ctx[p].pongs) = 1 /\ x.ctx[p].pongs[1] = Callback(p, "load")
    <2> DEFINE s == Tail(ctx[p].pongs)
               b == Callback(p, "load")
    <2>1. ctx[p].pongs # <<>>
        BY <1>1
    <2>2. s \in Seq(Callbacks) /\ Len(s) = 0
        BY <1>1, <1>10, <2>1, HeadTailProperties
    <2>3. b \in Callbacks
        BY DEF Callback, Callbacks
    <2>4. x.ctx[p].pongs = Append(s, b)
        <3>1. Calls(x, y, p, calls[p])
            BY <1>7, <1>9
        <3>2. calls[p] = b /\ w.ctx[p].pongs = s /\ y.ctx[p].pongs = w.ctx[p].pongs
            BY <1>4, <1>5, <1>6
        <3> HIDE DEF s, b
        <3>3. QED BY <3>1, <3>2 DEF Calls
    <2> HIDE DEF s, b
    <2>5. Len(Append(s, b)) = 1 /\ Append(s, b)[1] = b
        BY <2>2, <2>3, AppendProperties
    <2>6. QED BY <2>4, <2>5 DEF b
<1>12. x.out[p] = Append(Append(out[p], m), Ping)
    BY <1>5, <1>6, <1>7, <1>9 DEF Adds
<1>13. x.ctx[p].needs = ctx[p].needs /\ x.ctx[p].current = 0
    BY <1>1, <1>5, <1>6, <1>7
<1>14. /\ m \in Messages(tip) /\ Ping \in Messages(tip) /\ NewFilter \in Nat
    BY NewFilterIs, FilterloadIsMessage, PingIsMessage DEF m
<1>15. in'[p] = Tail(in[p])
    BY <1>1, <1>2
<1>16. Linked(p, x.ctx[p], x.out[p], in'[p], watched[p], NewFilter, wallet)
    <2>1. Head(in[p]).type = "pong" /\ in[p] # <<>> /\ ctx[p].current = 0
          /\ ctx[p].pongs[1].kind = "update" /\ Len(ctx[p].pongs) > 0
          /\ Linked(p, ctx[p], out[p], in[p], watched[p], filter, wallet)
        BY <1>1
    <2>2. /\ out[p] \in Seq(Messages(tip)) /\ in[p] \in Seq(Messages(tip))
          /\ Proper(ctx[p], out[p], in[p], status[p])
        BY <1>2
    <2> DEFINE n == NewFilter
               r == in'[p]
               u == x.out[p]
               d == x.ctx[p]
    <2>3. /\ n \in Nat /\ Filterload(n) \in Messages(tip)
          /\ u = Append(Append(out[p], Filterload(n)), Ping)
        BY <1>12, <1>14 DEF m
    <2>4. r = Tail(in[p]) /\ d.current = 0 /\ d.needs = ctx[p].needs /\ Len(d.pongs) = 1
          /\ d.pongs[1] = Callback(p, "load")
        BY <1>11, <1>13, <1>15
    <2> HIDE DEF n, r, u, d
    <2>5. Linked(p, d, u, r, watched[p], n, wallet)
        BY ONLY p \in Peer, <1>14, <2>1, <2>2, <2>3, <2>4, LinkedReload
    <2>6. QED BY <2>5 DEF n, r, u, d
<1>17. QED
    <2>1. x = Reloaded(p)
        BY DEF x, y, w, calls, Reloaded
    <2>2. QED BY <1>8, <1>16, <2>1

LEMMA UpdateFilterPingDoneKeeps ==
    ASSUME ScanInv, NEW p \in Peer, UpdateFilterPingDone(p) PROVE ScanInv'
<1>1. /\ Called(p, "update")
      /\ UNCHANGED <<lastBlock, estimated, wallet, downloadPeer>>
    BY PingDoneIs
<1>2. /\ UNCHANGED <<tip, status, watched, shared>>
      /\ ~shared => p = downloadPeer
      /\ in' = [in EXCEPT ![p] = Tail(@)]
    BY <1>1, CalledIs
<1> DEFINE v == View'
<1>3. /\ v.tip = tip /\ v.in = in' /\ v.status = status /\ v.download = downloadPeer
      /\ v.watched = watched /\ v.filter = filter' /\ v.wallet = wallet /\ v.single = ~shared
    BY <1>1, <1>2 DEF View
<1>4. /\ Crowd.tip = tip /\ Crowd.status = status /\ Crowd.in = in' /\ ~Crowd.single
    BY DEF Crowd, Taken, View
<1> HIDE DEF v
<1>5. CASE Syncing /\ downloadPeer = NoPeer
    <2>1. /\ Sends(Answered(p)) /\ filter' = 0 /\ UNCHANGED <<orphans, lastOrphan>>
        BY <1>5, PingDoneIs
    <2>2. shared
        BY <1>2, <1>5, FilterAssumption
    <2>3. Right(Answered(p), v)
        BY <1>1, <1>3, <1>4, <2>2, AnsweredInCrowd, RightShared
    <2>4. Wire' = Answered(p)
        BY <1>3, <2>1, <2>3, WireIs DEF Right
    <2>5. Right(Wire', View')
        BY <2>3, <2>4 DEF v
    <2>6. Types'
        BY <1>1, <1>2, <2>1 DEF ScanInv, Types, Connected
    <2>7. shared'
        BY <1>2, <2>2
    <2>8. QED BY <2>5, <2>6, <2>7 DEF ScanInv
<1>6. CASE ~(Syncing /\ downloadPeer = NoPeer)
    <2> DEFINE x == Reloaded(p)
    <2>1. Sends(x) /\ filter' = NewFilter /\ orphans' = {} /\ lastOrphan' = 0
        BY <1>6, PingDoneIs
    <2>2. Right(x, Crowd) /\ x \in Wires(tip)
        BY <1>1, <1>6, ReloadedInCrowd
    <2>3. Wire' = x
        BY <2>1, <2>2, WireIs
    <2>4. ~shared => /\ \A q \in Peer : q # downloadPeer => x.out[q] = <<>>
                     /\ Linked(p, x.ctx[p], x.out[p], in'[p], watched[p], NewFilter, wallet)
        BY <1>1, <1>6, ReloadedLinked
    <2> HIDE DEF x
    <2>5. \A q \in Peer : Proper(x.ctx[q], x.out[q], in'[q], status[q])
          /\ in' \in [Peer -> Seq(Messages(tip))]
        BY <1>4, <2>2 DEF Right
    <2>6. ~shared => \A q \in Peer : q # downloadPeer => status[q] = "none" /\ in'[q] = <<>>
        <3>1. ~shared => /\ \A q \in Peer : q # downloadPeer => status[q] = "none" /\ in[q] = <<>>
                         /\ p = downloadPeer
            BY <1>2, HeldFacts, ViewIs DEF Right
        <3>2. \A q \in Peer : q # p => in'[q] = in[q]
            BY <1>2, HeldFacts
        <3>3. QED BY <3>1, <3>2
    <2>7. ~shared => p = downloadPeer
        BY <1>2
    <2>8. Right(x, v)
        <3>1. x \in Wires(v.tip) /\ v.in \in [Peer -> Seq(Messages(v.tip))]
              /\ \A q \in Peer : Proper(x.ctx[q], x.out[q], v.in[q], v.status[q])
            BY <1>3, <2>2, <2>5
        <3>2. ASSUME v.single, NEW q \in Peer
              PROVE  /\ q # v.download => v.status[q] = "none" /\ x.out[q] = <<>> /\ v.in[q] = <<>>
                     /\ q = v.download =>
                           Linked(q, x.ctx[q], x.out[q], v.in[q], v.watched[q], v.filter, v.wallet)
            BY <1>3, <2>1, <2>4, <2>6, <2>7, <3>2
        <3>3. QED BY <3>1, <3>2 DEF Right
    <2>9. Right(Wire', View')
        BY <2>3, <2>8 DEF v
    <2>10. Types'
        <3>1. /\ filter' \in Nat /\ orphans' \subseteq 1..tip /\ lastOrphan' \in 0..tip
            BY <2>1, NewFilterIs, FilterAssumption DEF ScanInv, Types
        <3>2. Connected' = Connected
            BY <1>2 DEF Connected
        <3>3. UNCHANGED <<tip, status, watched, shared, lastBlock, estimated, wallet, downloadPeer>>
            BY <1>1, <1>2
        <3>4. QED BY ONLY ScanInv, <3>1, <3>2, <3>3 DEF ScanInv, Types
    <2>11. ~shared' => AllScanned' /\ (filter' # 0 => Matched')
        <3>1. Used(wallet) + Gap <= NewFilter
            BY NewFilterIs
        <3>2. Matched'
            BY <1>1, <2>1, <3>1 DEF Matched, Used
        <3>3. ~shared' => AllScanned'
            BY <1>1, <1>2 DEF ScanInv, AllScanned
        <3>4. QED BY <3>2, <3>3
    <2>12. QED BY <2>9, <2>10, <2>11 DEF ScanInv
<1>7. QED BY <1>5, <1>6

-----------------------------------------------------------------------------
(* The node *)

(* What the answers r of a node with filter w to a message of a type are.  *)
AnswerTo(r, t, type, w) ==
    /\ r \in Seq(Messages(t))
    /\ Number(r, "pong") = IF type = "ping" THEN 1 ELSE 0
    /\ type = "ping" => Has(r, "pong")
    /\ type # "getdata" => ~Has(r, "merkleblock")
    /\ \A k \in 1..Len(r) : r[k].type = "merkleblock" =>
          /\ Len(r[k].blocks) = 1
          /\ Pays[r[k].blocks[1]] \in 1..w => r[k].n > 0

LEMMA NoAnswer == ASSUME NEW t, NEW type, type # "ping", NEW w PROVE AnswerTo(<<>>, t, type, w)
<1>1. <<>> \in Seq(Messages(t)) /\ Len(<<>>) = 0
    BY EmptySeq
<1>2. \A a : ~Has(<<>>, a)
    BY <1>1 DEF Has
<1>3. Number(<<>>, "pong") = 0
    BY <1>1, <1>2, NumberNone
<1>4. QED BY <1>1, <1>2, <1>3 DEF AnswerTo

LEMMA OneAnswer ==
    ASSUME NEW t, NEW type, NEW w, NEW m \in Messages(t), m.type # "merkleblock",
           m.type = "pong" <=> type = "ping"
    PROVE  AnswerTo(<<m>>, t, type, w)
<1> DEFINE r == <<m>>
<1>1. r \in Seq(Messages(t)) /\ Len(r) = 1 /\ r[1] = m
    OBVIOUS
<1>2. Number(r, "pong") = IF m.type = "pong" THEN 1 ELSE 0
    BY NumberOne
<1> HIDE DEF r
<1>3. \A a : Has(r, a) <=> m.type = a
    BY <1>1 DEF Has
<1>4. \A k \in 1..Len(r) : r[k].type # "merkleblock"
    BY <1>1
<1>5. AnswerTo(r, t, type, w)
    BY <1>1, <1>2, <1>3, <1>4 DEF AnswerTo
<1>6. QED BY <1>5 DEF r

LEMMA AnswersAre ==
    ASSUME NEW p, NEW t, NEW s \in Seq(1..t)
    PROVE  AnswerTo(Answers(p, s), t, "getdata", watched[p])
<1> DEFINE r == Answers(p, s)
           m(i) == Merkle(s[i], Matching(p, s[i]))
<1>1. r = [i \in 1..Len(s) |-> m(i)] /\ Len(s) \in Nat
    BY LenProperties DEF Answers
<1>2. \A i \in 1..Len(s) : s[i] \in 1..t
    BY ElementOfSeq
<1>3. ASSUME NEW b \in 1..t
      PROVE  LET x == Merkle(b, Matching(p, b))
             IN  /\ x \in Messages(t) /\ x.type = "merkleblock" /\ Len(x.blocks) = 1
                 /\ Pays[x.blocks[1]] \in 1..watched[p] => x.n > 0
    <2>1. Matching(p, b) \in Nat /\ (Pays[b] \in 1..watched[p] => Matching(p, b) > 0)
        BY DEF Matching
    <2>2. <<b>> \in Seq(1..t) /\ Len(<<b>>) = 1 /\ <<b>>[1] = b
        OBVIOUS
    <2>3. QED BY <2>1, <2>2 DEF Merkle, Messages, Kinds
<1>4. \A i \in 1..Len(s) : /\ m(i) \in Messages(t) /\ m(i).type = "merkleblock"
                           /\ Len(m(i).blocks) = 1
                           /\ Pays[m(i).blocks[1]] \in 1..watched[p] => m(i).n > 0
    BY <1>2, <1>3
<1> HIDE DEF m, r
<1>5. r \in Seq(Messages(t)) /\ Len(r) = Len(s) /\ \A i \in 1..Len(s) : r[i] = m(i)
    BY <1>1, <1>4
<1>6. Number(r, "pong") = 0
    <2>1. ~Has(r, "pong")
        BY <1>4, <1>5 DEF Has
    <2>2. QED BY <1>5, <2>1, NumberNone
<1>7. AnswerTo(r, t, "getdata", watched[p])
    BY <1>4, <1>5, <1>6 DEF AnswerTo
<1>8. QED BY <1>7 DEF r

LEMMA RepliesAre ==
    ASSUME NEW p, tip \in Nat, NEW m \in Messages(tip)
    PROVE  AnswerTo(Replies(p, m), tip, m.type, watched[p])
<1>1. m.type \in Kinds /\ m.blocks \in Seq(1..tip) /\ m.n \in Nat
    BY DEF Messages
<1>2. CASE m.type = "ping"
    <2>1. Replies(p, m) = <<Pong>>
        BY <1>2 DEF Replies
    <2>2. Pong \in Messages(tip) /\ Pong.type = "pong"
        <3>1. <<>> \in Seq(1..tip)
            BY EmptySeq
        <3>2. QED BY <3>1 DEF Pong, Messages, Kinds
    <2> HIDE DEF Pong
    <2>3. QED BY <1>2, <2>1, <2>2, OneAnswer
<1>3. CASE m.type = "getblocks" /\ m.n < tip
    <2> DEFINE s == From(m.n + 1, tip)
    <2>1. s \in Seq(1..tip)
        <3>1. tip - (m.n + 1) + 1 \in Nat
            BY <1>1, <1>3
        <3>2. \A i \in 1..(tip - (m.n + 1) + 1) : (m.n + 1) + i - 1 \in 1..tip
            BY <1>1, <1>3
        <3>3. QED BY <3>1, <3>2 DEF From
    <2> HIDE DEF s
    <2>2. Inv(s) \in Messages(tip) /\ Inv(s).type = "inv"
        BY <2>1 DEF Inv, Messages, Kinds
    <2>3. Replies(p, m) = <<Inv(s)>>
        BY <1>3 DEF Replies, s
    <2> HIDE DEF Inv
    <2>4. QED BY <1>3, <2>2, <2>3, OneAnswer
<1>4. CASE m.type = "getdata"
    <2>1. Replies(p, m) = Answers(p, m.blocks)
        BY <1>4 DEF Replies
    <2>2. QED BY <1>1, <1>4, <2>1, AnswersAre
<1>5. CASE m.type \notin {"ping", "getdata"} /\ ~(m.type = "getblocks" /\ m.n < tip)
    <2>1. Replies(p, m) = <<>>
        BY <1>5 DEF Replies
    <2>2. QED BY <1>5, <2>1, NoAnswer
<1>6. QED BY <1>2, <1>3, <1>4, <1>5

LEMMA ProperServed ==
    ASSUME NEW t, NEW c, NEW o \in Seq(Messages(t)), NEW i \in Seq(Messages(t)), NEW st, NEW w,
           Proper(c, o, i, st), o # <<>>, NEW r, AnswerTo(r, t, Head(o).type, w),
           NEW u, u = Tail(o), NEW j, j = i \o r
    PROVE  Proper(c, u, j, st)
<1>1. r \in Seq(Messages(t)) /\ Number(r, "pong") = IF Head(o).type = "ping" THEN 1 ELSE 0
    BY DEF AnswerTo
<1>2. /\ Number(u, "ping") \in Nat
      /\ Number(o, "ping") = Number(u, "ping") + IF Head(o).type = "ping" THEN 1 ELSE 0
    BY TailFacts
<1>3. /\ Number(i, "pong") \in Nat /\ Number(j, "pong") = Number(i, "pong") + Number(r, "pong")
    BY <1>1, NumberConcat
<1>4. Len(c.pongs) = Number(u, "ping") + Number(j, "pong")
    <2> DEFINE a == Number(u, "ping")
               b == Number(i, "pong")
               d == IF Head(o).type = "ping" THEN 1 ELSE 0
    <2>1. Len(c.pongs) = Number(o, "ping") + b /\ d \in Nat
        BY DEF Proper
    <2>2. Number(o, "ping") = a + d /\ Number(j, "pong") = b + d /\ a \in Nat /\ b \in Nat
        BY <1>1, <1>2, <1>3
    <2> HIDE DEF a, b, d
    <2>3. Len(c.pongs) = a + Number(j, "pong")
        BY ONLY <2>1, <2>2
    <2>4. QED BY <2>3 DEF a
<1>5. \A k \in 1..Len(j) : j[k].type = "merkleblock" => Len(j[k].blocks) = 1
    <2>1. /\ \A k \in 1..Len(j) : \/ k \in 1..Len(i)
                                  \/ k - Len(i) \in 1..Len(r) /\ k = Len(i) + (k - Len(i))
          /\ \A k \in 1..Len(i) : j[k] = i[k]
          /\ \A k \in 1..Len(r) : j[Len(i) + k] = r[k]
        BY <1>1, ConcatIs
    <2> SUFFICES ASSUME NEW k \in 1..Len(j), j[k].type = "merkleblock" PROVE Len(j[k].blocks) = 1
        OBVIOUS
    <2>2. CASE k \in 1..Len(i)
        BY <2>1, <2>2 DEF Proper
    <2>3. CASE k - Len(i) \in 1..Len(r) /\ k = Len(i) + (k - Len(i))
        <3>1. j[k] = r[k - Len(i)]
            BY <2>1, <2>3
        <3>2. QED BY <2>3, <3>1 DEF AnswerTo
    <2>4. QED BY <2>1, <2>2, <2>3
<1>6. QED BY <1>4, <1>5 DEF Proper

LEMMA LinkedServed ==
    ASSUME NEW t, NEW p, NEW c, NEW o \in Seq(Messages(t)), NEW i \in Seq(Messages(t)),
           NEW w, NEW f, NEW h,
           Linked(p, c, o, i, w, f, h), o # <<>>, NEW r, AnswerTo(r, t, Head(o).type, w),
           NEW u, u = Tail(o), NEW j, j = i \o r,
           NEW x, x = IF Head(o).type = "filterload" THEN Head(o).n ELSE w
    PROVE  Linked(p, c, u, j, x, f, h)
<1> DEFINE type == Head(o).type
           merkle == "merkleblock"
<1>1. /\ r \in Seq(Messages(t))
      /\ type = "ping" => Has(r, "pong")
      /\ type # "getdata" => ~Has(r, merkle)
      /\ \A k \in 1..Len(r) : r[k].type = merkle /\ Pays[r[k].blocks[1]] \in 1..w => r[k].n > 0
    BY DEF AnswerTo
<1>2. /\ \A a : Has(o, a) <=> Has(u, a) \/ type = a
      /\ Followed(o, "getdata", "ping") => Followed(u, "getdata", "ping")
      /\ NoneAfter(o, "getdata", "filterload") => NoneAfter(u, "getdata", "filterload")
      /\ NoneAfter(o, "getdata", "filterload") /\ type = "getdata" => ~Has(u, "filterload")
      /\ EndsWith(o, w, f) => EndsWith(u, x, f)
    <2>1. "getdata" # "filterload"
        OBVIOUS
    <2>2. QED BY <2>1, TailFacts
<1>3. \A a : Has(j, a) <=> Has(i, a) \/ Has(r, a)
    BY <1>1, HasConcat
<1>4. Flushed(c, o, i)
    BY DEF Linked
<1>5. ASSUME Followed(o, "getdata", "ping"), Has(o, "ping") \/ Followed(i, merkle, "pong")
      PROVE  Has(u, "ping") \/ Followed(j, merkle, "pong")
    <2>1. CASE type = "ping"
        <3>1. Followed(r, merkle, "pong")
            BY <1>1, <2>1 DEF Followed, Has
        <3>2. QED BY <1>1, <2>1, <3>1, FollowedConcat
    <2>2. CASE type # "ping" /\ ~Has(u, "ping")
        <3>1. ~Has(o, "ping")
            BY <1>2, <2>2
        <3>2. ~Has(o, "getdata")
            BY <1>5, <3>1 DEF Followed, Has
        <3>3. Followed(r, merkle, "pong")
            BY <1>1, <1>2, <3>2 DEF Followed, Has
        <3>4. QED BY <1>1, <1>5, <3>1, <3>3, FollowedConcat
    <2>3. QED BY <2>1, <2>2
<1>6. Flushed(c, u, j)
    <2> SUFFICES ASSUME NEW k \in 1..Len(c.pongs)
                 PROVE  /\ c.pongs[k].kind = "update" =>
                              /\ Followed(u, "getdata", "ping")
                              /\ Has(u, "ping") \/ Followed(j, "merkleblock", "pong")
                        /\ c.pongs[k].kind = "load" => ~Has(u, "getdata") /\ ~Has(j, "merkleblock")
        BY DEF Flushed
    <2>1. CASE c.pongs[k].kind = "update"
        BY <1>2, <1>4, <1>5, <2>1 DEF Flushed
    <2>2. CASE c.pongs[k].kind = "load"
        BY <1>1, <1>2, <1>3, <1>4, <2>2 DEF Flushed
    <2>3. QED BY <2>1, <2>2
<1>7. f # 0 => Filtered(c, u, j, x, f, h)
    <2> SUFFICES ASSUME f # 0 PROVE Filtered(c, u, j, x, f, h)
        OBVIOUS
    <2>1. Filtered(c, o, i, w, f, h)
        BY DEF Linked
    <2>2. NoneAfter(u, "getdata", "filterload") /\ EndsWith(u, x, f)
        BY <1>2, <2>1 DEF Filtered
    <2>3. type = "getdata" => w = f
        <3> SUFFICES ASSUME type = "getdata" PROVE w = f
            OBVIOUS
        <3>1. ~Has(o, "filterload")
            BY <1>2, <2>1 DEF Filtered
        <3>2. QED BY <2>1, <3>1 DEF Filtered, EndsWith
    <2>4. \A k \in 1..Len(r) : r[k].type = merkle /\ Pays[r[k].blocks[1]] \in 1..f => r[k].n > 0
        BY <1>1, <2>3 DEF Has
    <2>5. /\ \A k \in 1..Len(j) : \/ k \in 1..Len(i)
                                  \/ k - Len(i) \in 1..Len(r) /\ k = Len(i) + (k - Len(i))
          /\ \A k \in 1..Len(i) : j[k] = i[k]
          /\ \A k \in 1..Len(r) : j[Len(i) + k] = r[k]
        BY <1>1, ConcatIs
    <2>6. \A k \in 1..Len(j) : j[k].type = merkle /\ Pays[j[k].blocks[1]] \in 1..f => j[k].n > 0
        <3> SUFFICES ASSUME NEW k \in 1..Len(j), j[k].type = merkle, Pays[j[k].blocks[1]] \in 1..f
                     PROVE  j[k].n > 0
            OBVIOUS
        <3>1. CASE k \in 1..Len(i)
            BY <2>1, <2>5, <3>1 DEF Filtered
        <3>2. CASE k - Len(i) \in 1..Len(r) /\ k = Len(i) + (k - Len(i))
            <4>1. j[k] = r[k - Len(i)]
                BY <2>5, <3>2
            <4>2. QED BY <2>4, <3>2, <4>1
        <3>3. QED BY <2>5, <3>1, <3>2
    <2>7. QED BY <2>1, <2>2, <2>6 DEF Filtered
<1>8. QED BY <1>6, <1>7 DEF Linked

LEMMA ServeKeeps == ASSUME ScanInv, NEW p \in Peer, Serve(p) PROVE ScanInv'
<1> DEFINE m == Head(out[p])
           r == Replies(p, m)
           u == Tail(out[p])
           j == in[p] \o r
           x == IF m.type = "filterload" THEN m.n ELSE watched[p]
<1>1. /\ p \in Connected /\ out[p] # <<>>
      /\ in' = [in EXCEPT ![p] = @ \o r]
      /\ watched' = IF m.type = "filterload" THEN [watched EXCEPT ![p] = m.n] ELSE watched
      /\ out' = [out EXCEPT ![p] = Tail(@)]
      /\ UNCHANGED <<tip, lastBlock, estimated, orphans, lastOrphan, wallet, downloadPeer, filter>>
      /\ UNCHANGED <<status, ctx, shared>>
    BY DEF Serve, managerVars
<1>2. /\ Right(Wire, View) /\ Wire.ctx = ctx /\ Wire.out = out
      /\ in \in [Peer -> Seq(Messages(tip))] /\ out \in [Peer -> Seq(Messages(tip))]
      /\ ctx \in [Peer -> Contexts(tip)]
    BY HeldFacts
<1>3. tip \in Nat /\ watched \in [Peer -> Nat]
    BY FilterAssumption DEF ScanInv, Types
<1>4. out[p] \in Seq(Messages(tip)) /\ in[p] \in Seq(Messages(tip))
    BY <1>2
<1>5. m \in Messages(tip) /\ u \in Seq(Messages(tip))
    BY <1>1, <1>4, TailFacts
<1>6. AnswerTo(r, tip, m.type, watched[p])
    BY <1>3, <1>5, RepliesAre
<1>7. j \in Seq(Messages(tip))
    <2>1. r \in Seq(Messages(tip))
        BY <1>6 DEF AnswerTo
    <2>2. QED BY <1>4, <2>1, ConcatProperties
<1>8. x \in Nat
    BY <1>3, <1>5 DEF Messages
<1>9. /\ in' = [in EXCEPT ![p] = j] /\ out' = [out EXCEPT ![p] = u]
      /\ watched' = [watched EXCEPT ![p] = x]
    BY <1>1, <1>3
<1>10. Proper(ctx[p], out[p], in[p], status[p])
       /\ (~shared => \A q \in Peer :
              /\ q # downloadPeer => status[q] = "none" /\ out[q] = <<>> /\ in[q] = <<>>
              /\ q = downloadPeer =>
                    Linked(q, ctx[q], out[q], in[q], watched[q], filter, wallet))
    <2>1. Proper(ctx[p], out[p], in[p], status[p])
        BY <1>2, AtPeer, ViewIs
    <2>2. QED BY <1>2, <2>1, ViewIs DEF Right
<1> HIDE DEF m, u, j, r, x
<1>11. Proper(ctx[p], u, j, status[p])
    <2>1. out[p] # <<>> /\ u = Tail(out[p]) /\ j = in[p] \o r /\ AnswerTo(r, tip, Head(out[p]).type, watched[p])
        BY <1>1, <1>6 DEF u, j, m
    <2>2. Proper(ctx[p], out[p], in[p], status[p])
        BY <1>10
    <2>3. QED BY ONLY <1>4, <2>1, <2>2, ProperServed
<1>12. ~shared => p = downloadPeer /\ Linked(p, ctx[p], u, j, x, filter, wallet)
    <2> SUFFICES ASSUME ~shared PROVE p = downloadPeer /\ Linked(p, ctx[p], u, j, x, filter, wallet)
        OBVIOUS
    <2>1. p = downloadPeer
        BY <1>1, <1>10 DEF Connected
    <2>2. Linked(p, ctx[p], out[p], in[p], watched[p], filter, wallet)
        BY <1>10, <2>1
    <2>3. /\ out[p] # <<>> /\ u = Tail(out[p]) /\ j = in[p] \o r
          /\ AnswerTo(r, tip, Head(out[p]).type, watched[p])
          /\ x = IF Head(out[p]).type = "filterload" THEN Head(out[p]).n ELSE watched[p]
        BY <1>1, <1>6 DEF u, j, m, x
    <2>4. Linked(p, ctx[p], u, j, x, filter, wallet)
        BY ONLY <1>4, <2>2, <2>3, LinkedServed
    <2>5. QED BY <2>1, <2>4
<1>13. /\ in' \in [Peer -> Seq(Messages(tip))] /\ out' \in [Peer -> Seq(Messages(tip))]
       /\ watched' \in [Peer -> Nat]
       /\ in'[p] = j /\ out'[p] = u /\ watched'[p] = x
       /\ \A q \in Peer \ {p} : in'[q] = in[q] /\ out'[q] = out[q] /\ watched'[q] = watched[q]
    BY <1>2, <1>3, <1>5, <1>7, <1>8, <1>9
<1> DEFINE w == Wire'
           v == View'
<1>14. /\ w = [ctx |-> w.ctx, out |-> w.out] /\ w.ctx = ctx /\ w.out = out'
       /\ v.tip = tip /\ v.in = in' /\ v.status = status /\ v.download = downloadPeer
       /\ v.watched = watched' /\ v.filter = filter /\ v.wallet = wallet /\ v.single = ~shared
    BY <1>1 DEF Wire, View
<1> HIDE DEF w, v
<1>15. w \in Wires(v.tip) /\ v.in \in [Peer -> Seq(Messages(v.tip))]
    BY <1>2, <1>13, <1>14 DEF Wires
<1>16. \A q \in Peer : Proper(w.ctx[q], w.out[q], v.in[q], v.status[q])
    <2> SUFFICES ASSUME NEW q \in Peer PROVE Proper(ctx[q], out'[q], in'[q], status[q])
        BY <1>14
    <2>1. CASE q = p
        BY <1>11, <1>13, <2>1
    <2>2. CASE q # p
        <3>1. Proper(ctx[q], out[q], in[q], status[q])
            BY <1>2, AtPeer, ViewIs
        <3>2. QED BY <1>13, <2>2, <3>1
    <2>3. QED BY <2>1, <2>2
<1>17. v.single =>
          \A q \in Peer :
              /\ q # v.download => v.status[q] = "none" /\ w.out[q] = <<>> /\ v.in[q] = <<>>
              /\ q = v.download =>
                    Linked(q, w.ctx[q], w.out[q], v.in[q], v.watched[q], v.filter, v.wallet)
    <2> SUFFICES ASSUME ~shared, NEW q \in Peer
                 PROVE  /\ q # downloadPeer => status[q] = "none" /\ out'[q] = <<>> /\ in'[q] = <<>>
                        /\ q = downloadPeer =>
                              Linked(q, ctx[q], out'[q], in'[q], watched'[q], filter, wallet)
        BY <1>14
    <2>1. CASE q = p
        BY <1>12, <1>13, <2>1
    <2>2. CASE q # p
        BY <1>10, <1>12, <1>13, <2>2
    <2>3. QED BY <2>1, <2>2
<1>18. Right(Wire', View')
    BY <1>15, <1>16, <1>17 DEF Right, w, v
<1>19. Types'
    BY <1>1, <1>13 DEF ScanInv, Types, Connected
<1>20. ~shared' => AllScanned' /\ (filter' # 0 => Matched')
    BY <1>1 DEF ScanInv, AllScanned, Matched, Covered, Used
<1>21. QED BY <1>18, <1>19, <1>20 DEF ScanInv

-----------------------------------------------------------------------------
(* Connections come and go *)

LEMMA NothingIsProper ==
    ASSUME NEW c, NEW o, NEW i, NEW st, c.pongs = <<>>, c.current = 0, o = <<>>, i = <<>>
    PROVE  Proper(c, o, i, st)
<1>1. Len(<<>>) = 0 /\ <<>> \in Seq(Kinds)
    BY EmptySeq
<1>2. \A a : ~Has(<<>>, a)
    BY <1>1 DEF Has
<1>3. \A a : Number(<<>>, a) = 0
    BY <1>1, <1>2, NumberNone
<1>4. QED BY <1>1, <1>3 DEF Proper

LEMMA ClosedIs ==
    /\ Closed.pongs = <<>> /\ Closed.current = 0 /\ ~Closed.needs
    /\ \A t \in Nat : Closed \in Contexts(t) /\ [Closed EXCEPT !.reported = t] \in Contexts(t)
<1>1. Closed.pongs = <<>> /\ Closed.current = 0 /\ ~Closed.needs
    BY DEF Closed
<1>2. ASSUME NEW t \in Nat
      PROVE  Closed \in Contexts(t) /\ [Closed EXCEPT !.reported = t] \in Contexts(t)
    <2> DEFINE e == <<>>
    <2>1. e \in Seq(1..t) /\ e \in Seq(Callbacks) /\ 0 \in Nat /\ 0 \in 0..t
        BY EmptySeq
    <2>2. Closed = [reported |-> 0, needs |-> FALSE, known |-> e, lastHash |-> 0, sent |-> FALSE,
                    pongs |-> e, current |-> 0]
        BY DEF Closed
    <2> HIDE DEF e
    <2>3. Closed \in Contexts(t)
        BY <2>1, <2>2 DEF Contexts
    <2>4. QED BY <2>3 DEF Contexts
<1>3. QED BY <1>1, <1>2

LEMMA DisconnectedKeeps ==
    ASSUME ScanInv, NEW p \in Peer, status[p] # "none", Disconnected(p) PROVE ScanInv'
<1> DEFINE w == Wire'
           v == View'
<1>1. /\ status' = [status EXCEPT ![p] = "none"]
      /\ ctx' = [ctx EXCEPT ![p] = Closed]
      /\ out' = [out EXCEPT ![p] = <<>>] /\ in' = [in EXCEPT ![p] = <<>>]
      /\ watched' = [watched EXCEPT ![p] = 0]
      /\ downloadPeer' = IF p = downloadPeer THEN NoPeer ELSE downloadPeer
      /\ UNCHANGED <<tip, lastBlock, estimated, orphans, lastOrphan, wallet, filter, shared>>
    BY DEF Disconnected
<1>2. /\ Right(Wire, View) /\ Wire.ctx = ctx /\ Wire.out = out
      /\ in \in [Peer -> Seq(Messages(tip))] /\ out \in [Peer -> Seq(Messages(tip))]
      /\ ctx \in [Peer -> Contexts(tip)]
    BY HeldFacts
<1>3. /\ tip \in Nat /\ watched \in [Peer -> Nat] /\ NoPeer \notin Peer
      /\ status \in [Peer -> {"none", "connected", "closing"}]
    BY FilterAssumption DEF ScanInv, Types
<1>4. /\ in' \in [Peer -> Seq(Messages(tip))] /\ out' \in [Peer -> Seq(Messages(tip))]
      /\ ctx' \in [Peer -> Contexts(tip)] /\ watched' \in [Peer -> Nat]
      /\ status' \in [Peer -> {"none", "connected", "closing"}]
    <2>1. <<>> \in Seq(Messages(tip)) /\ Closed \in Contexts(tip)
        BY <1>3, ClosedIs, EmptySeq
    <2> HIDE DEF Closed
    <2>2. QED BY <1>1, <1>2, <1>3, <2>1
<1>5. /\ in'[p] = <<>> /\ out'[p] = <<>> /\ ctx'[p] = Closed /\ status'[p] = "none"
      /\ \A q \in Peer \ {p} : /\ in'[q] = in[q] /\ out'[q] = out[q] /\ ctx'[q] = ctx[q]
                               /\ watched'[q] = watched[q] /\ status'[q] = status[q]
    BY <1>1, <1>2, <1>3
<1>6. /\ w = [ctx |-> w.ctx, out |-> w.out] /\ w.ctx = ctx' /\ w.out = out'
      /\ v.tip = tip /\ v.in = in' /\ v.status = status' /\ v.download = downloadPeer'
      /\ v.watched = watched' /\ v.filter = filter /\ v.wallet = wallet /\ v.single = ~shared
    BY <1>1 DEF Wire, View
<1> HIDE DEF w, v
<1>7. w \in Wires(v.tip) /\ v.in \in [Peer -> Seq(Messages(v.tip))]
    BY <1>4, <1>6 DEF Wires
<1>8. \A q \in Peer : Proper(w.ctx[q], w.out[q], v.in[q], v.status[q])
    <2> SUFFICES ASSUME NEW q \in Peer PROVE Proper(ctx'[q], out'[q], in'[q], status'[q])
        BY <1>6
    <2>1. CASE q = p
        BY <1>5, <2>1, ClosedIs, NothingIsProper
    <2>2. CASE q # p
        <3>1. Proper(ctx[q], out[q], in[q], status[q])
            BY <1>2, AtPeer, ViewIs
        <3>2. QED BY <1>5, <2>2, <3>1
    <2>3. QED BY <2>1, <2>2
<1>9. v.single =>
          \A q \in Peer :
              /\ q # v.download => v.status[q] = "none" /\ w.out[q] = <<>> /\ v.in[q] = <<>>
              /\ q = v.download =>
                    Linked(q, w.ctx[q], w.out[q], v.in[q], v.watched[q], v.filter, v.wallet)
    <2> SUFFICES ASSUME ~shared, NEW q \in Peer
                 PROVE  /\ q # downloadPeer' => status'[q] = "none" /\ out'[q] = <<>> /\ in'[q] = <<>>
                        /\ q = downloadPeer' =>
                              Linked(q, ctx'[q], out'[q], in'[q], watched'[q], filter, wallet)
        BY <1>6
    <2>1. /\ p # downloadPeer => status[p] = "none"
          /\ q # downloadPeer => status[q] = "none" /\ out[q] = <<>> /\ in[q] = <<>>
        BY <1>2, ViewIs DEF Right
    <2>2. p = downloadPeer /\ downloadPeer' = NoPeer
        BY <1>1, <2>1
    <2>3. q # downloadPeer'
        BY <1>3, <2>2
    <2>4. CASE q = p
        BY <1>5, <2>3, <2>4
    <2>5. CASE q # p
        BY <1>5, <2>1, <2>2, <2>3, <2>5
    <2>6. QED BY <2>4, <2>5
<1>10. Right(Wire', View')
    BY <1>7, <1>8, <1>9 DEF Right, w, v
<1>11. Types'
    <2>1. downloadPeer' \in Connected' \cup {NoPeer}
        <3>1. downloadPeer \in Connected \cup {NoPeer}
            BY DEF ScanInv, Types
        <3>2. QED BY <1>1, <1>5, <3>1 DEF Connected
    <2>2. /\ tip \in FirstTip..MaxTip /\ lastBlock \in 0..tip /\ estimated \in 0..tip
          /\ orphans \subseteq 1..tip /\ lastOrphan \in 0..tip /\ wallet \subseteq 1..tip
          /\ filter \in Nat /\ shared \in BOOLEAN
        BY DEF ScanInv, Types
    <2>3. UNCHANGED <<tip, lastBlock, estimated, orphans, lastOrphan, wallet, filter, shared>>
        BY <1>1
    <2>4. QED BY ONLY <1>4, <2>1, <2>2, <2>3 DEF Types
<1>12. ~shared' => AllScanned' /\ (filter' # 0 => Matched')
    BY <1>1 DEF ScanInv, AllScanned, Matched, Covered, Used
<1>13. QED BY <1>10, <1>11, <1>12 DEF ScanInv

LEMMA GoesKeeps ==
    ASSUME ScanInv, NEW p \in Peer, Lose(p) \/ Leave(p) \/ TimeOut(p) PROVE ScanInv'
<1>1. Disconnected(p) /\ status[p] # "none"
    BY DEF Lose, Leave, TimeOut, Connected
<1>2. QED BY <1>1, DisconnectedKeeps

-----------------------------------------------------------------------------
(* A block is mined *)

LEMMA SeqGrows == ASSUME NEW S, NEW T, S \subseteq T, NEW s \in Seq(S) PROVE s \in Seq(T)
<1>1. Len(s) \in Nat /\ s \in [1..Len(s) -> S]
    BY LenProperties
<1>2. s \in [1..Len(s) -> T]
    BY <1>1
<1>3. QED BY <1>1, <1>2, SeqDef

LEMMA TypesGrow ==
    ASSUME NEW t \in Nat
    PROVE  /\ Messages(t) \subseteq Messages(t + 1)
           /\ Contexts(t) \subseteq Contexts(t + 1)
<1>1. 1..t \subseteq 1..(t + 1) /\ 0..t \subseteq 0..(t + 1)
    OBVIOUS
<1>2. \A s \in Seq(1..t) : s \in Seq(1..(t + 1))
    BY <1>1, SeqGrows
<1>3. Messages(t) \subseteq Messages(t + 1)
    BY <1>2 DEF Messages
<1>4. Contexts(t) \subseteq Contexts(t + 1)
    BY <1>1, <1>2 DEF Contexts
<1>5. QED BY <1>3, <1>4

(* A node says something that nobody asked for.                            *)
LEMMA LinkedHeard ==
    ASSUME NEW S, NEW p, NEW c, NEW o, NEW i \in Seq(S), NEW w, NEW f, NEW h,
           Linked(p, c, o, i, w, f, h), NEW m \in S, m.type = "inv", NEW j, j = Append(i, m)
    PROVE  Linked(p, c, o, j, w, f, h)
<1>1. /\ \A a : Has(j, a) <=> Has(i, a) \/ m.type = a
      /\ Followed(i, "merkleblock", "pong") => Followed(j, "merkleblock", "pong")
    <2>1. m.type # "merkleblock" /\ "merkleblock" # "pong"
        OBVIOUS
    <2>2. QED BY <2>1, AppendFacts
<1>2. /\ Len(i) \in Nat /\ Len(j) = Len(i) + 1
      /\ \A k \in 1..Len(i) : j[k] = i[k]
      /\ j[Len(i) + 1] = m
    BY AppendProperties, LenProperties
<1>3. Flushed(c, o, j)
    BY <1>1 DEF Linked, Flushed
<1>4. \A k \in 1..Len(j) : k \in 1..Len(i) \/ j[k].type # "merkleblock"
    BY <1>2
<1>5. f # 0 => Filtered(c, o, j, w, f, h)
    BY <1>2, <1>4 DEF Linked, Filtered
<1>6. QED BY <1>3, <1>5 DEF Linked

LEMMA ProperHeard ==
    ASSUME NEW S, NEW c, NEW o, NEW i \in Seq(S), NEW st, Proper(c, o, i, st),
           NEW m \in S, m.type = "inv", NEW j, j = Append(i, m)
    PROVE  Proper(c, o, j, st)
<1>1. Number(j, "pong") = Number(i, "pong")
    <2>1. /\ Number(i, "pong") \in Nat
          /\ Number(j, "pong") = Number(i, "pong") + IF m.type = "pong" THEN 1 ELSE 0
        BY AppendFacts
    <2>2. QED BY <2>1
<1>2. /\ Len(i) \in Nat /\ Len(j) = Len(i) + 1
      /\ \A k \in 1..Len(i) : j[k] = i[k]
      /\ j[Len(i) + 1] = m
    BY AppendProperties, LenProperties
<1>3. \A k \in 1..Len(j) : k \in 1..Len(i) \/ j[k].type # "merkleblock"
    BY <1>2
<1>4. QED BY <1>1, <1>2, <1>3 DEF Proper

LEMMA MineKeeps == ASSUME ScanInv, Mine PROVE ScanInv'
<1> DEFINE m == Inv(<<tip + 1>>)
           w == Wire'
           v == View'
<1>1. /\ tip < MaxTip /\ tip' = tip + 1
      /\ in' = [p \in Peer |-> IF p \in Connected THEN Append(in[p], m) ELSE in[p]]
      /\ UNCHANGED <<lastBlock, estimated, orphans, lastOrphan, wallet, downloadPeer, filter>>
      /\ UNCHANGED <<status, ctx, out, watched, shared>>
    BY DEF Mine, managerVars
<1>2. /\ Right(Wire, View) /\ Wire.ctx = ctx /\ Wire.out = out
      /\ in \in [Peer -> Seq(Messages(tip))] /\ out \in [Peer -> Seq(Messages(tip))]
      /\ ctx \in [Peer -> Contexts(tip)]
    BY HeldFacts
<1>3. tip \in Nat
    BY FilterAssumption DEF ScanInv, Types
<1> DEFINE t == tip + 1
<1>4. /\ in \in [Peer -> Seq(Messages(t))] /\ out \in [Peer -> Seq(Messages(t))]
      /\ ctx \in [Peer -> Contexts(t)]
    <2>1. Messages(tip) \subseteq Messages(t) /\ Contexts(tip) \subseteq Contexts(t)
        BY <1>3, TypesGrow
    <2>2. \A q \in Peer : in[q] \in Seq(Messages(tip)) /\ out[q] \in Seq(Messages(tip))
        BY <1>2
    <2>3. \A q \in Peer : in[q] \in Seq(Messages(t)) /\ out[q] \in Seq(Messages(t))
        BY <2>1, <2>2, SeqGrows
    <2>4. QED BY <1>2, <2>1, <2>3
<1>5. m \in Messages(t) /\ m.type = "inv"
    <2>1. t \in 1..t
        BY <1>3
    <2>2. <<t>> \in Seq(1..t)
        BY <2>1
    <2>3. QED BY <2>2 DEF Inv, Messages, Kinds
<1> HIDE DEF m
<1>6. in' \in [Peer -> Seq(Messages(t))]
    <2>1. \A q \in Peer : Append(in[q], m) \in Seq(Messages(t))
        BY <1>4, <1>5, AppendProperties
    <2>2. QED BY <1>1, <1>4, <2>1
<1>7. /\ w = [ctx |-> w.ctx, out |-> w.out] /\ w.ctx = ctx /\ w.out = out
      /\ v.tip = t /\ v.in = in' /\ v.status = status /\ v.download = downloadPeer
      /\ v.watched = watched /\ v.filter = filter /\ v.wallet = wallet /\ v.single = ~shared
    BY <1>1 DEF Wire, View
<1> HIDE DEF w, v, t
<1>8. w \in Wires(v.tip) /\ v.in \in [Peer -> Seq(Messages(v.tip))]
    BY <1>4, <1>6, <1>7 DEF Wires
<1>9. \A q \in Peer : in'[q] = (IF q \in Connected THEN Append(in[q], m) ELSE in[q])
                      /\ in[q] \in Seq(Messages(t))
    BY <1>1, <1>4
<1>10. \A q \in Peer : Proper(w.ctx[q], w.out[q], v.in[q], v.status[q])
    <2> SUFFICES ASSUME NEW q \in Peer PROVE Proper(ctx[q], out[q], in'[q], status[q])
        BY <1>7
    <2>1. Proper(ctx[q], out[q], in[q], status[q])
        BY <1>2, AtPeer, ViewIs
    <2>2. QED BY <1>5, <1>9, <2>1, ProperHeard
<1>11. v.single =>
          \A q \in Peer :
              /\ q # v.download => v.status[q] = "none" /\ w.out[q] = <<>> /\ v.in[q] = <<>>
              /\ q = v.download =>
                    Linked(q, w.ctx[q], w.out[q], v.in[q], v.watched[q], v.filter, v.wallet)
    <2> SUFFICES ASSUME ~shared, NEW q \in Peer
                 PROVE  /\ q # downloadPeer => status[q] = "none" /\ out[q] = <<>> /\ in'[q] = <<>>
                        /\ q = downloadPeer =>
                              Linked(q, ctx[q], out[q], in'[q], watched[q], filter, wallet)
        BY <1>7
    <2>1. /\ q # downloadPeer => status[q] = "none" /\ out[q] = <<>> /\ in[q] = <<>>
          /\ q = downloadPeer => Linked(q, ctx[q], out[q], in[q], watched[q], filter, wallet)
        BY <1>2, ViewIs DEF Right
    <2>2. CASE q # downloadPeer
        BY <1>9, <2>1, <2>2 DEF Connected
    <2>3. CASE q = downloadPeer
        <3>1. Linked(q, ctx[q], out[q], in[q], watched[q], filter, wallet)
            BY <2>1, <2>3
        <3>2. Linked(q, ctx[q], out[q], in'[q], watched[q], filter, wallet)
            BY <1>5, <1>9, <3>1, LinkedHeard
        <3>3. QED BY <2>3, <3>2
    <2>4. QED BY <2>2, <2>3
<1>12. Right(Wire', View')
    BY <1>8, <1>10, <1>11 DEF Right, w, v
<1>13. Types'
    BY <1>1, FilterAssumption DEF ScanInv, Types, Connected
<1>14. ~shared' => AllScanned' /\ (filter' # 0 => Matched')
    BY <1>1 DEF ScanInv, AllScanned, Matched, Covered, Used
<1>15. QED BY <1>12, <1>13, <1>14 DEF ScanInv

-----------------------------------------------------------------------------
(* A peer connects *)

(* The messages to a new peer begin with the filter, and ask for no data.  *)
LEMMA FreshLoaded ==
    ASSUME NEW t, NEW p, NEW c, NEW n \in Nat, NEW w, NEW h,
           Len(c.pongs) = 0, ~c.needs, c.current = 0,
           NEW o, o = <<>>, NEW i, i = <<>>, NEW l, l = Append(o, Filterload(n))
    PROVE  l \in Seq(Messages(t)) /\ Linked(p, c, l, i, w, n, h)
<1> DEFINE m == Filterload(n)
           ld == "filterload"
           gd == "getdata"
<1>1. m \in Messages(t) /\ m.type = ld /\ m.n = n
    BY FilterloadIsMessage DEF Filterload
<1>2. o \in Seq(Messages(t)) /\ Len(o) = 0 /\ Len(i) = 0
    BY EmptySeq
<1> HIDE DEF m
<1>3. l = Append(o, m)
    BY DEF m
<1>4. \A a : ~Has(o, a)
    BY <1>2 DEF Has
<1>5. ~Has(l, gd) /\ l \in Seq(Messages(t)) /\ EndsWith(l, w, n)
    <2>1. gd # ld
        OBVIOUS
    <2>2. o \in Seq(Messages(t)) /\ m \in Messages(t) /\ m.type = ld /\ m.n = n
        BY <1>1, <1>2
    <2> HIDE DEF gd, ld
    <2>3. /\ Append(o, m) \in Seq(Messages(t))
          /\ Has(Append(o, m), gd) <=> Has(o, gd) \/ m.type = gd
        BY ONLY <2>2, AppendFacts
    <2>4. EndsWith(Append(o, m), w, n)
        BY ONLY <2>2, AppendFacts DEF ld
    <2>5. QED BY ONLY <1>3, <1>4, <2>1, <2>2, <2>3, <2>4
<1>6. NoneAfter(l, gd, ld)
    BY <1>5 DEF NoneAfter, Has
<1>7. Filtered(c, l, i, w, n, h)
    BY <1>2, <1>5, <1>6 DEF Filtered
<1>8. Pings(p, c) /\ Flushed(c, l, i)
    BY DEF Pings, Flushed
<1>9. QED BY <1>5, <1>7, <1>8 DEF Linked

(* The contexts and messages with which a new peer begins.                 *)
Greeted(p) == [Wire EXCEPT !.ctx[p] = [Closed EXCEPT !.reported = tip]]

LEMMA GreetedIs ==
    ASSUME ScanInv, NEW p \in Peer
    PROVE  /\ Greeted(p) \in Wires(tip) /\ Greeted(p).out = out
           /\ \A q \in Peer \ {p} : Greeted(p).ctx[q] = ctx[q]
           /\ Greeted(p).ctx[p].pongs = <<>> /\ ~Greeted(p).ctx[p].needs
           /\ Greeted(p).ctx[p].current = 0
<1> DEFINE x == Greeted(p)
           e == [Closed EXCEPT !.reported = tip]
<1>1. /\ ctx \in [Peer -> Contexts(tip)] /\ out \in [Peer -> Seq(Messages(tip))]
      /\ Wire = [ctx |-> ctx, out |-> out]
    BY HeldFacts DEF Wire
<1>2. tip \in Nat
    BY FilterAssumption DEF ScanInv, Types
<1>3. e \in Contexts(tip)
    BY <1>2, ClosedIs
<1>4. e.pongs = <<>> /\ e.current = 0 /\ ~e.needs
    BY DEF Closed
<1>5. x = [Wire EXCEPT !.ctx = [ctx EXCEPT ![p] = e]]
    BY <1>1 DEF Greeted
<1> HIDE DEF e, x
<1>6. /\ x \in Wires(tip) /\ x.out = out /\ x.ctx[p] = e
      /\ \A q \in Peer \ {p} : x.ctx[q] = ctx[q]
    BY <1>1, <1>3, <1>5 DEF Wires
<1>7. QED BY <1>4, <1>6 DEF x

(* What is sent when a peer connects, and to whom the download falls.      *)
Welcome(p, d, x) ==
    \/ /\ d = downloadPeer /\ d # NoPeer
       /\ \E P : /\ Load(P) /\ x = Loading(Greeted(p), P)
       /\ status' = [status EXCEPT ![p] = "connected"]
       /\ estimated' = estimated
    \/ /\ d \in Candidates(p) /\ ~Sticks
       /\ Load({d})
       /\ status' = [q \in Peer |-> IF q = downloadPeer THEN "closing"
                                    ELSE IF q = p THEN "connected" ELSE status[q]]
       /\ estimated' = tip
       /\ \/ x = SendGetblocks(Loading(Greeted(p), {d}), d, lastBlock)
          \/ x = Loading(Loading(Greeted(p), {d}), (Connected \cup {p}) \ {d, downloadPeer})

LEMMA PeerConnectedIs ==
    ASSUME NEW p \in Peer, PeerConnected(p)
    PROVE  /\ status[p] = "none"
           /\ shared' = (shared \/ \E q \in Peer : status[q] # "none")
           /\ UNCHANGED <<tip, lastBlock, wallet, in, watched>>
           /\ \E x : Sends(x) /\ Welcome(p, downloadPeer', x)
<1>1. /\ status[p] = "none"
      /\ shared' = (shared \/ \E q \in Peer : status[q] # "none")
      /\ UNCHANGED <<tip, lastBlock, wallet, in, watched>>
    BY DEF PeerConnected
<1> DEFINE w == [Wire EXCEPT !.ctx[p] = [Closed EXCEPT !.reported = tip]]
<1>2. w = Greeted(p)
    BY DEF Greeted
<1> HIDE DEF w
<1>3. \/ /\ Sticks
         /\ status' = [status EXCEPT ![p] = "connected"]
         /\ LET P == IF lastBlock >= tip THEN {p} ELSE {} IN
            /\ Load(P)
            /\ Sends(Loading(w, P))
         /\ UNCHANGED <<downloadPeer, estimated>>
      \/ /\ ~Sticks
         /\ \E d \in Candidates(p) :
            /\ status' = [q \in Peer |-> IF q = downloadPeer THEN "closing"
                                         ELSE IF q = p THEN "connected" ELSE status[q]]
            /\ downloadPeer' = d
            /\ estimated' = tip
            /\ Load({d})
            /\ IF lastBlock < tip
               THEN Sends(SendGetblocks(Loading(w, {d}), d, lastBlock))
               ELSE Sends(Loading(Loading(w, {d}), (Connected \cup {p}) \ {d, downloadPeer}))
    BY DEF PeerConnected, w
<1>4. CASE Sticks
    <2> DEFINE P == IF lastBlock >= tip THEN {p} ELSE {}
    <2>1. /\ status' = [status EXCEPT ![p] = "connected"]
          /\ Load(P) /\ Sends(Loading(w, P)) /\ UNCHANGED <<downloadPeer, estimated>>
        BY <1>3, <1>4
    <2>2. downloadPeer # NoPeer
        BY <1>4 DEF Sticks
    <2> HIDE DEF P
    <2>3. Welcome(p, downloadPeer', Loading(w, P))
        BY <1>2, <2>1, <2>2 DEF Welcome
    <2>4. QED BY <1>1, <2>1, <2>3
<1>5. CASE ~Sticks
    <2>1. PICK d \in Candidates(p) :
            /\ status' = [q \in Peer |-> IF q = downloadPeer THEN "closing"
                                         ELSE IF q = p THEN "connected" ELSE status[q]]
            /\ downloadPeer' = d
            /\ estimated' = tip
            /\ Load({d})
            /\ IF lastBlock < tip
               THEN Sends(SendGetblocks(Loading(w, {d}), d, lastBlock))
               ELSE Sends(Loading(Loading(w, {d}), (Connected \cup {p}) \ {d, downloadPeer}))
        BY <1>3, <1>5
    <2> DEFINE y == SendGetblocks(Loading(w, {d}), d, lastBlock)
               z == Loading(Loading(w, {d}), (Connected \cup {p}) \ {d, downloadPeer})
    <2>2. Sends(y) \/ Sends(z)
        BY <2>1
    <2>3. Welcome(p, downloadPeer', y) /\ Welcome(p, downloadPeer', z)
        BY <1>2, <1>5, <2>1 DEF Welcome
    <2> HIDE DEF y, z
    <2>4. QED BY <1>1, <2>2, <2>3
<1>6. QED BY <1>4, <1>5

(* A peer that was not there begins as it was, as far as pings go.         *)
LEMMA GreetedRight ==
    ASSUME ScanInv, NEW p \in Peer, status[p] = "none",
           NEW u, ~u.single, u.tip = tip, u.in = in,
           \A q \in Peer : u.status[q] = "none" => status[q] = "none"
    PROVE  Right(Greeted(p), u)
<1> DEFINE w == Greeted(p)
<1>1. /\ w \in Wires(tip) /\ w.out = out
      /\ \A q \in Peer \ {p} : w.ctx[q] = ctx[q]
      /\ w.ctx[p].pongs = <<>> /\ w.ctx[p].current = 0
    BY GreetedIs
<1>2. /\ Right(Wire, View) /\ Wire.ctx = ctx /\ Wire.out = out
      /\ in \in [Peer -> Seq(Messages(tip))]
    BY HeldFacts
<1> HIDE DEF w
<1>3. ASSUME NEW q \in Peer PROVE Proper(w.ctx[q], w.out[q], u.in[q], u.status[q])
    <2>1. Proper(ctx[q], out[q], in[q], status[q])
        BY <1>2, AtPeer, ViewIs
    <2>2. w.ctx[q].pongs = ctx[q].pongs /\ w.ctx[q].current = ctx[q].current
        <3>1. CASE q = p
            BY <1>1, <2>1, <3>1 DEF Proper
        <3>2. CASE q # p
            BY <1>1, <3>2
        <3>3. QED BY <3>1, <3>2
    <2>3. w.out[q] = out[q] /\ u.in[q] = in[q] /\ (u.status[q] = "none" => status[q] = "none")
        BY <1>1
    <2>4. QED BY ONLY <2>1, <2>2, <2>3 DEF Proper
<1>4. Right(w, u)
    BY <1>1, <1>2, <1>3 DEF Right
<1>5. QED BY <1>4 DEF w

LEMMA WelcomeInCrowd ==
    ASSUME ScanInv, NEW p \in Peer, status[p] = "none",
           NEW u, ~u.single, u.tip = tip, u.in = in,
           \A q \in Peer : u.status[q] = "none" => status[q] = "none",
           NEW d, NEW x, Welcome(p, d, x)
    PROVE  Right(x, u)
<1>1. Right(Greeted(p), u)
    BY GreetedRight
<1>2. NewFilter \in Nat
    BY NewFilterIs
<1>3. \A P : Right(Loading(Greeted(p), P), u)
    BY <1>1, <1>2, RightLoading
<1>4. CASE \E P : x = Loading(Greeted(p), P)
    BY <1>3, <1>4
<1>5. CASE /\ d \in Candidates(p)
           /\ \/ x = SendGetblocks(Loading(Greeted(p), {d}), d, lastBlock)
              \/ x = Loading(Loading(Greeted(p), {d}), (Connected \cup {p}) \ {d, downloadPeer})
    <2> DEFINE y == Loading(Greeted(p), {d})
    <2>1. Right(y, u)
        BY <1>3
    <2>2. d \in Peer /\ lastBlock \in Nat
        BY <1>5, FilterAssumption DEF Candidates, Connected, ScanInv, Types
    <2> HIDE DEF y
    <2>3. Right(SendGetblocks(y, d, lastBlock), u)
        BY <2>1, <2>2, RightGetblocks
    <2>4. \A P : Right(Loading(y, P), u)
        BY <1>2, <2>1, RightLoading
    <2>5. QED BY <1>5, <2>3, <2>4 DEF y
<1>6. QED BY <1>4, <1>5 DEF Welcome

LEMMA NobodyThere ==
    ASSUME ScanInv, \A q \in Peer : status[q] = "none"
    PROVE  Connected = {} /\ downloadPeer = NoPeer /\ NoPeer \notin Peer
BY FilterAssumption DEF ScanInv, Types, Connected

LEMMA WelcomeAlone ==
    ASSUME ScanInv, ~shared, \A q \in Peer : status[q] = "none",
           NEW p \in Peer, NEW d, NEW x, Welcome(p, d, x)
    PROVE  /\ d = p /\ Load({p}) /\ x \in Wires(tip)
           /\ Linked(p, x.ctx[p], x.out[p], in[p], watched[p], NewFilter, wallet)
           /\ \A q \in Peer \ {p} : x.out[q] = <<>> /\ in[q] = <<>> /\ status'[q] = "none"
<1>1. Connected = {} /\ downloadPeer = NoPeer /\ NoPeer \notin Peer
    BY NobodyThere
<1>2. /\ d \in Candidates(p) /\ Load({d})
      /\ status' = [q \in Peer |-> IF q = downloadPeer THEN "closing"
                                   ELSE IF q = p THEN "connected" ELSE status[q]]
      /\ \/ x = SendGetblocks(Loading(Greeted(p), {d}), d, lastBlock)
         \/ x = Loading(Loading(Greeted(p), {d}), (Connected \cup {p}) \ {d, downloadPeer})
    BY <1>1 DEF Welcome
<1>3. d = p
    BY <1>1, <1>2 DEF Candidates
<1>4. \A q \in Peer : out[q] = <<>> /\ in[q] = <<>>
    BY <1>1, HeldFacts, ViewIs DEF Right
<1>5. \A q \in Peer \ {p} : status'[q] = "none"
    BY <1>1, <1>2
<1> DEFINE g == Greeted(p)
           y == Loading(g, {p})
           z == SendGetblocks(y, p, lastBlock)
           e == Loading(y, {})
<1>6. NewFilter \in Nat /\ lastBlock \in Nat
    BY NewFilterIs, FilterAssumption DEF ScanInv, Types
<1>7. /\ g \in Wires(tip) /\ g.out = out /\ g.ctx[p].pongs = <<>> /\ ~g.ctx[p].needs
      /\ g.ctx[p].current = 0
    BY GreetedIs
<1>8. x = z \/ x = e
    <2>1. (Connected \cup {p}) \ {p, downloadPeer} = {}
        BY <1>1
    <2>2. QED BY <1>2, <1>3, <2>1
<1> HIDE DEF g
<1>9. /\ y \in Wires(tip)
      /\ y.ctx[p].pongs = g.ctx[p].pongs /\ y.ctx[p].needs = g.ctx[p].needs
      /\ y.ctx[p].current = g.ctx[p].current
      /\ y.out[p] = Append(g.out[p], Filterload(NewFilter))
      /\ \A q \in Peer \ {p} : y.out[q] = g.out[q]
    BY <1>6, <1>7, LoadingIs
<1> HIDE DEF y
<1>10. y.out[p] \in Seq(Messages(tip))
       /\ Linked(p, y.ctx[p], y.out[p], in[p], watched[p], NewFilter, wallet)
    <2> DEFINE c == y.ctx[p]
               l == y.out[p]
               o == out[p]
               i == in[p]
               n == NewFilter
    <2>1. Len(c.pongs) = 0 /\ ~c.needs /\ c.current = 0
        <3>1. Len(<<>>) = 0
            BY EmptySeq
        <3>2. QED BY <1>7, <1>9, <3>1
    <2>2. o = <<>> /\ i = <<>> /\ l = Append(o, Filterload(n)) /\ n \in Nat
        BY <1>4, <1>6, <1>7, <1>9
    <2> HIDE DEF c, l, o, i, n
    <2>3. l \in Seq(Messages(tip)) /\ Linked(p, c, l, i, watched[p], n, wallet)
        BY ONLY <2>1, <2>2, FreshLoaded
    <2>4. QED BY <2>3 DEF c, l, i, n
<1>11. /\ z \in Wires(tip)
       /\ Linked(p, z.ctx[p], z.out[p], in[p], watched[p], NewFilter, wallet)
       /\ \A q \in Peer \ {p} : z.out[q] = <<>>
    <2> DEFINE m == Getblocks(lastBlock)
    <2>1. /\ z \in Wires(tip) /\ Adds(z, y, p, m) /\ m \in Messages(tip)
          /\ z.ctx[p].pongs = y.ctx[p].pongs
          /\ z.ctx[p].needs = y.ctx[p].needs /\ z.ctx[p].current = y.ctx[p].current
          /\ \A q \in Peer \ {p} : z.ctx[q] = y.ctx[q] /\ z.out[q] = y.out[q]
        BY <1>6, <1>9, SendGetblocksIs
    <2>2. Harmless(m, y.ctx[p])
        BY DEF Harmless, Getblocks
    <2> HIDE DEF z, m
    <2>3. z.out[p] = Append(y.out[p], m)
        BY <2>1 DEF Adds
    <2>4. Linked(p, z.ctx[p], z.out[p], in[p], watched[p], NewFilter, wallet)
        BY ONLY <1>10, <2>1, <2>2, <2>3, LinkedSend
    <2>5. QED BY <1>4, <1>7, <1>9, <2>1, <2>4
<1>12. /\ e \in Wires(tip)
       /\ Linked(p, e.ctx[p], e.out[p], in[p], watched[p], NewFilter, wallet)
       /\ \A q \in Peer \ {p} : e.out[q] = <<>>
    <2>1. e \in Wires(tip) /\ \A q \in Peer : e.out[q] = y.out[q] /\ e.ctx[q] = y.ctx[q]
        BY <1>6, <1>9, LoadingIs
    <2> HIDE DEF e
    <2>2. QED BY <1>4, <1>7, <1>9, <1>10, <2>1
<1> HIDE DEF z, e
<1>13. QED BY <1>2, <1>3, <1>4, <1>5, <1>8, <1>11, <1>12

(* The download never falls to the peer that it is taken from: that one    *)
(* does not report enough.                                                 *)
LEMMA CandidateIsOther ==
    ASSUME ScanInv, NEW p \in Peer, status[p] = "none", ~Sticks, NEW d \in Candidates(p)
    PROVE  d \in Peer /\ d # downloadPeer /\ (d = p \/ status[d] = "connected")
<1>1. d \in Peer /\ (d = p \/ status[d] = "connected")
    BY DEF Candidates, Connected
<1>2. p # downloadPeer
    BY FilterAssumption DEF ScanInv, Types, Connected
<1>3. NoPeer \notin Peer
    BY FilterAssumption
<1>4. d # p => tip <= ctx[d].reported
    BY DEF Candidates
<1>5. ctx[d].reported \in Nat /\ tip \in Nat
    <2>1. ctx[d] \in Contexts(tip)
        BY <1>1, HeldFacts
    <2>2. QED BY <2>1, FilterAssumption DEF Contexts, ScanInv, Types
<1>6. d # downloadPeer
    <2> SUFFICES ASSUME d = downloadPeer PROVE FALSE
        OBVIOUS
    <2>1. ~(ctx[d].reported >= tip)
        BY <1>1, <1>3 DEF Sticks
    <2>2. QED BY <1>2, <1>4, <1>5, <2>1
<1>7. QED BY <1>1, <1>6

LEMMA WelcomeTypes ==
    ASSUME ScanInv, NEW p \in Peer, status[p] = "none", NEW x, Welcome(p, downloadPeer', x),
           shared' = (shared \/ \E q \in Peer : status[q] # "none"),
           UNCHANGED <<tip, lastBlock, wallet, in, watched>>
    PROVE  /\ Types'
           /\ \A q \in Peer : status'[q] = "none" => status[q] = "none"
<1>1. /\ tip \in FirstTip..MaxTip /\ lastBlock \in 0..tip /\ estimated \in 0..tip
      /\ orphans \subseteq 1..tip /\ lastOrphan \in 0..tip /\ wallet \subseteq 1..tip
      /\ downloadPeer \in Connected \cup {NoPeer}
      /\ filter \in Nat /\ watched \in [Peer -> Nat]
      /\ status \in [Peer -> {"none", "connected", "closing"}] /\ shared \in BOOLEAN
    BY DEF ScanInv, Types
<1>2. tip \in Nat /\ NewFilter \in Nat
    BY <1>1, FilterAssumption, NewFilterIs
<1>3. \E P : Load(P)
    BY DEF Welcome
<1>4. filter' \in Nat /\ orphans' \subseteq 1..tip /\ lastOrphan' \in 0..tip
    <2>1. \/ UNCHANGED <<filter, orphans, lastOrphan>>
          \/ filter' = NewFilter /\ orphans' = {} /\ lastOrphan' = 0
        BY <1>3 DEF Load
    <2>2. CASE UNCHANGED <<filter, orphans, lastOrphan>>
        BY ONLY <1>1, <2>2
    <2>3. CASE filter' = NewFilter /\ orphans' = {} /\ lastOrphan' = 0
        <3>1. filter' \in Nat
            BY <1>2, <2>3
        <3>2. orphans' \subseteq 1..tip
            BY ONLY <2>3
        <3>3. lastOrphan' \in 0..tip
            BY <1>2, <2>3
        <3>4. QED BY <3>1, <3>2, <3>3
    <2>4. QED BY <2>1, <2>2, <2>3
<1>5. estimated' \in 0..tip
    <2>1. estimated' = estimated \/ estimated' = tip
        BY DEF Welcome
    <2>2. QED BY <1>1, <1>2, <2>1
<1>6. /\ status' \in [Peer -> {"none", "connected", "closing"}]
      /\ downloadPeer' \in Connected' \cup {NoPeer}
      /\ \A q \in Peer : status'[q] = "none" => status[q] = "none"
    <2>1. CASE downloadPeer' = downloadPeer /\ status' = [status EXCEPT ![p] = "connected"]
        BY <1>1, <2>1 DEF Connected
    <2>2. CASE /\ downloadPeer' \in Candidates(p) /\ ~Sticks
               /\ status' = [q \in Peer |-> IF q = downloadPeer THEN "closing"
                                            ELSE IF q = p THEN "connected" ELSE status[q]]
        <3>1. /\ downloadPeer' \in Peer /\ downloadPeer' # downloadPeer
              /\ downloadPeer' = p \/ status[downloadPeer'] = "connected"
            BY <2>2, CandidateIsOther
        <3>2. QED BY <1>1, <2>2, <3>1 DEF Connected
    <2>3. QED BY <2>1, <2>2 DEF Welcome
<1>7. shared' \in BOOLEAN
    BY <1>1
<1>8. UNCHANGED <<tip, lastBlock, wallet, watched>>
    OBVIOUS
<1>9. QED BY ONLY <1>1, <1>4, <1>5, <1>6, <1>7, <1>8 DEF Types

LEMMA PeerConnectedKeeps ==
    ASSUME ScanInv, NEW p \in Peer, PeerConnected(p) PROVE ScanInv'
<1> DEFINE v == View'
<1>1. PICK x : /\ status[p] = "none" /\ Sends(x) /\ Welcome(p, downloadPeer', x)
               /\ shared' = (shared \/ \E q \in Peer : status[q] # "none")
               /\ UNCHANGED <<tip, lastBlock, wallet, in, watched>>
    BY PeerConnectedIs
<1>2. Types' /\ \A q \in Peer : status'[q] = "none" => status[q] = "none"
    BY <1>1, WelcomeTypes
<1>3. /\ v.tip = tip /\ v.in = in /\ v.status = status' /\ v.download = downloadPeer'
      /\ v.watched = watched /\ v.filter = filter' /\ v.wallet = wallet /\ v.single = ~shared'
    BY <1>1 DEF View
<1> HIDE DEF v
<1>4. Right(x, [v EXCEPT !.single = FALSE])
    <2> DEFINE u == [v EXCEPT !.single = FALSE]
    <2>1. ~u.single /\ u.tip = tip /\ u.in = in /\ u.status = status'
        BY <1>1 DEF v, View
    <2> HIDE DEF u
    <2>2. Right(x, u)
        BY <1>1, <1>2, <2>1, WelcomeInCrowd
    <2>3. QED BY <2>2 DEF u
<1>5. /\ x \in Wires(tip) /\ in \in [Peer -> Seq(Messages(tip))]
      /\ \A q \in Peer : Proper(x.ctx[q], x.out[q], in[q], status'[q])
    <2> DEFINE u == [v EXCEPT !.single = FALSE]
    <2>1. u.tip = tip /\ u.in = in /\ u.status = status'
        BY <1>1 DEF v, View
    <2> HIDE DEF u
    <2>2. Right(x, u)
        BY <1>4 DEF u
    <2>3. QED BY <2>1, <2>2 DEF Right
<1>6. Wire' = x
    BY <1>1, <1>5, WireIs
<1>7. ASSUME ~shared'
      PROVE  /\ downloadPeer' = p /\ Load({p})
             /\ Linked(p, x.ctx[p], x.out[p], in[p], watched[p], NewFilter, wallet)
             /\ \A q \in Peer \ {p} : x.out[q] = <<>> /\ in[q] = <<>> /\ status'[q] = "none"
    <2>1. ~shared /\ \A q \in Peer : status[q] = "none"
        BY <1>1, <1>7 DEF ScanInv, Types
    <2>2. QED BY <1>1, <2>1, WelcomeAlone
<1>8. Right(x, v)
    <2> SUFFICES ASSUME ~shared', NEW q \in Peer
                 PROVE  /\ q # downloadPeer' =>
                              status'[q] = "none" /\ x.out[q] = <<>> /\ in[q] = <<>>
                        /\ q = downloadPeer' =>
                              Linked(q, x.ctx[q], x.out[q], in[q], watched[q], filter', wallet)
        BY <1>3, <1>5 DEF Right
    <2>1. filter' = NewFilter
        BY <1>7 DEF Load
    <2>2. QED BY <1>7, <2>1
<1>9. Right(Wire', View')
    BY <1>6, <1>8 DEF v
<1>10. ASSUME ~shared' PROVE AllScanned' /\ (filter' # 0 => Matched')
    <2>1. ~shared
        BY <1>1, <1>10 DEF ScanInv, Types
    <2>2. filter' = NewFilter /\ orphans' = {}
        BY <1>7, <1>10 DEF Load
    <2>3. AllScanned'
        BY <1>1, <2>1 DEF ScanInv, AllScanned
    <2>4. Used(wallet)' = Used(wallet)
        BY <1>1 DEF Used
    <2>5. Matched'
        BY <2>2, <2>4, NewFilterIs DEF Matched
    <2>6. QED BY <2>3, <2>5
<1>11. QED BY <1>2, <1>9, <1>10 DEF ScanInv

-----------------------------------------------------------------------------
(* The specification *)

LEMMA InitScanned == Init => ScanInv
<1> SUFFICES ASSUME Init PROVE ScanInv
    OBVIOUS
<1> DEFINE w == Wire
           v == View
<1>1. /\ tip = FirstTip /\ lastBlock = 0 /\ estimated = 0
      /\ orphans = {} /\ lastOrphan = 0 /\ wallet = {}
      /\ downloadPeer = NoPeer /\ filter = 0
      /\ status = [p \in Peer |-> "none"] /\ ctx = [p \in Peer |-> Closed]
      /\ out = [p \in Peer |-> <<>>] /\ in = [p \in Peer |-> <<>>]
      /\ watched = [p \in Peer |-> 0] /\ shared = FALSE
    BY DEF Init
<1>2. FirstTip \in Nat /\ MaxTip \in Nat /\ FirstTip <= MaxTip /\ NoPeer \notin Peer
    BY FilterAssumption
<1>3. /\ v.tip = FirstTip /\ v.in = in /\ v.status = status /\ v.download = NoPeer
      /\ w = [ctx |-> w.ctx, out |-> w.out] /\ w.ctx = ctx /\ w.out = out
    BY <1>1 DEF Wire, View
<1>4. \A p \in Peer : /\ ctx[p] = Closed /\ out[p] = <<>> /\ in[p] = <<>> /\ status[p] = "none"
    BY <1>1
<1>5. /\ ctx \in [Peer -> Contexts(FirstTip)] /\ out \in [Peer -> Seq(Messages(FirstTip))]
      /\ in \in [Peer -> Seq(Messages(FirstTip))]
    <2>1. <<>> \in Seq(Messages(FirstTip)) /\ Closed \in Contexts(FirstTip)
        BY <1>2, ClosedIs, EmptySeq
    <2> HIDE DEF Closed
    <2>2. QED BY <1>1, <2>1
<1>6. \A p \in Peer : Proper(ctx[p], out[p], in[p], status[p])
    BY <1>4, ClosedIs, NothingIsProper
<1> HIDE DEF w, v
<1>7. w \in Wires(v.tip)
    BY <1>3, <1>5 DEF Wires
<1>8. Right(w, v)
    BY <1>2, <1>3, <1>4, <1>5, <1>6, <1>7 DEF Right
<1>9. Types
    <2>1. /\ tip \in FirstTip..MaxTip /\ lastBlock \in 0..tip /\ estimated \in 0..tip
          /\ lastOrphan \in 0..tip /\ filter \in Nat
        BY <1>1, <1>2
    <2>2. orphans \subseteq 1..tip /\ wallet \subseteq 1..tip
        BY ONLY <1>1
    <2>3. downloadPeer \in Connected \cup {NoPeer} /\ shared \in BOOLEAN
        BY <1>1
    <2>4. watched \in [Peer -> Nat] /\ status \in [Peer -> {"none", "connected", "closing"}]
        BY ONLY <1>1
    <2>5. QED BY ONLY <2>1, <2>2, <2>3, <2>4 DEF Types
<1>10. AllScanned /\ filter = 0
    BY <1>1 DEF AllScanned
<1>11. QED BY <1>8, <1>9, <1>10 DEF ScanInv, w, v

LEMMA NextKeeps == ASSUME ScanInv, [Next]_vars PROVE ScanInv'
<1>1. CASE UNCHANGED vars
    <2>1. UNCHANGED <<tip, lastBlock, estimated, orphans, lastOrphan, wallet,
                      downloadPeer, filter, status, watched, shared, ctx, out, in>>
        BY <1>1 DEF vars, managerVars, wireVars
    <2>2. Wire' = Wire /\ View' = View
        BY <2>1 DEF Wire, View
    <2>3. Right(Wire', View')
        BY <2>2 DEF ScanInv
    <2>4. QED BY <2>1, <2>3, Unmoved
<1>2. ASSUME NEW p \in Peer, PeerConnected(p) PROVE ScanInv'
    BY <1>2, PeerConnectedKeeps
<1>3. ASSUME NEW p \in Peer, Lose(p) \/ Leave(p) \/ TimeOut(p) PROVE ScanInv'
    BY <1>3, GoesKeeps
<1>4. ASSUME NEW p \in Peer, Serve(p) PROVE ScanInv'
    BY <1>4, ServeKeeps
<1>5. ASSUME NEW p \in Peer, Handle(p) PROVE ScanInv'
    <2>1. CASE InvHandled(p)
        BY <2>1, InvHandledKeeps
    <2>2. CASE MerkleHandled(p)
        BY <2>2, MerkleHandledKeeps
    <2>3. CASE RelayedTx(p)
        BY <2>3, RelayedTxKeeps
    <2>4. CASE RelayedBlock(p)
        BY <2>4, RelayedBlockKeeps
    <2>5. CASE UpdateFilterPingDone(p)
        BY <2>5, UpdateFilterPingDoneKeeps
    <2>6. CASE UpdateFilterLoadDone(p)
        BY <2>6, UpdateFilterLoadDoneKeeps
    <2>7. CASE UpdateFilterRerequestDone(p)
        BY <2>7, UpdateFilterRerequestDoneKeeps
    <2>8. QED BY <1>5, <2>1, <2>2, <2>3, <2>4, <2>5, <2>6, <2>7 DEF Handle
<1>6. CASE Mine
    BY <1>6, MineKeeps
<1>7. QED BY <1>1, <1>2, <1>3, <1>4, <1>5, <1>6 DEF Next

(* The invariant holds for any number of peers, any chain and any filters. *)
THEOREM ScanInvariant == Spec => []ScanInv
<1>1. Init => ScanInv
    BY InitScanned
<1>2. ScanInv /\ [Next]_vars => ScanInv'
    BY NextKeeps
<1>3. QED BY <1>1, <1>2, PTL DEF Spec

LEMMA ScanTypes == ScanInv => TypeOK
<1> SUFFICES ASSUME ScanInv PROVE TypeOK
    OBVIOUS
<1>1. Types /\ NoPeer \notin Peer
    BY FilterAssumption DEF ScanInv
<1>2. ASSUME NEW p \in Peer
      PROVE  /\ ctx[p].needs \in BOOLEAN /\ ctx[p].current \in 0..tip
             /\ Len(ctx[p].pongs) =
                   Cardinality({i \in DOMAIN out[p] : out[p][i].type = "ping"})
                   + Cardinality({i \in DOMAIN in[p] : in[p][i].type = "pong"})
    <2>1. ctx[p] \in Contexts(tip) /\ Proper(ctx[p], out[p], in[p], status[p])
        BY HeldFacts, AtPeer, ViewIs
    <2>2. ctx[p].needs \in BOOLEAN /\ ctx[p].current \in 0..tip
        BY <2>1 DEF Contexts
    <2>3. QED BY <2>1, <2>2 DEF Proper, Number
<1>3. QED BY ONLY <1>1, <1>2 DEF Types, TypeOK

(* Every connection keeps one callback for each ping and pong that is on   *)
(* its way, so that no pong finds the array of callbacks empty, and every  *)
(* height stays within what the network has reached.                       *)
THEOREM FilterTypes == Spec => []TypeOK
<1>1. Spec => []ScanInv
    BY ScanInvariant
<1>2. ScanInv => TypeOK
    BY ScanTypes
<1>3. QED BY <1>1, <1>2, PTL

(* While one peer at a time is connected, no accepted block that pays the  *)
(* wallet lacks its transaction: what was dropped while a filter was       *)
(* replaced comes again before the chain can go past it, and a block that  *)
(* is not dropped was matched with a filter that has its address.          *)
THEOREM NothingIsMissed == Spec => []ScanComplete
<1>1. Spec => []ScanInv
    BY ScanInvariant
<1>2. ScanInv => ScanComplete
    BY DEF ScanInv, ScanComplete
<1>3. QED BY <1>1, <1>2, PTL
=============================================================================
