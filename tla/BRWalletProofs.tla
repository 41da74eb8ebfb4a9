--------------------------- MODULE BRWalletProofs ---------------------------
(***************************************************************************)
(* Proofs about the ledger, for every universe of transactions, every gap  *)
(* limit and every bound: the transactions array stays sorted and free of  *)
(* dangling or duplicate entries, the heights in it are those of the best  *)
(* chain, and the app has been told each of them; what the wallet flags    *)
(* and counts, and the balance, are right whatever was relayed, confirmed, *)
(* reorganised and dropped, and although the conclusions are recomputed    *)
(* only now and then.  The last part is about BRTxRelays, the same wallet  *)
(* under the peer manager: it keeps what the wallet promises, and drops no *)
(* unconfirmed transaction a connected peer has, unless news of it is late.*)
(***************************************************************************)
EXTENDS BRTxRelays, FiniteSetTheorems, WellFoundedInduction, SequenceTheorems, TLAPS

(* A set of naturals that is not empty has a least member.                 *)
LEMMA LeastNat ==
    ASSUME NEW S \in SUBSET Nat, S # {}
    PROVE  \E n \in S : \A m \in S : n <= m
<1> DEFINE U == {1..n : n \in S}
<1>1. U \subseteq FiniteSubsetsOf(Nat)
    <2>1. \A n \in Nat : 1..n \subseteq Nat /\ IsFiniteSet(1..n)
        BY FS_Interval
    <2>2. QED BY <2>1 DEF FiniteSubsetsOf
<1>2. PICK x \in U : \A y \in U : ~(<<y, x>> \in StrictSubsetOrdering(Nat))
    <2>1. U # {}
        OBVIOUS
    <2>2. IsWellFoundedOn(StrictSubsetOrdering(Nat), FiniteSubsetsOf(Nat))
        BY FS_StrictSubsetOrderingWellFounded
    <2> HIDE DEF U
    <2> QED BY <1>1, <2>1, <2>2, WFMin
<1>3. PICK n \in S : x = 1..n
    OBVIOUS
<1>4. ASSUME NEW m \in S PROVE n <= m
    <2>1. SUFFICES ASSUME m < n PROVE FALSE
        OBVIOUS
    <2>2. 1..m \in U /\ 1..m \subseteq 1..n /\ 1..m # 1..n
        BY <2>1
    <2>3. 1..m \in SUBSET Nat /\ 1..n \in SUBSET Nat
        OBVIOUS
    <2>4. <<1..m, 1..n>> \in StrictSubsetOrdering(Nat)
        BY <2>2, <2>3 DEF StrictSubsetOrdering
    <2>5. QED BY <2>2, <2>4, <1>2, <1>3
<1>5. QED BY <1>4

(* Induction over the naturals, for a set in place of a predicate.         *)
LEMMA NatSetInduction ==
    ASSUME NEW S, 0 \in S, \A n \in Nat : n \in S => n + 1 \in S
    PROVE  Nat \subseteq S
<1>1. SUFFICES ASSUME Nat \ S # {} PROVE FALSE
    OBVIOUS
<1>2. PICK n \in Nat \ S : \A m \in Nat \ S : n <= m
    BY <1>1, LeastNat
<1>3. n - 1 \in Nat /\ n - 1 \in S
    BY <1>2
<1>4. QED BY <1>2, <1>3

(* What inserting an element leaves where it was, and what it moves.       *)
LEMMA InsertAtProperties ==
    ASSUME NEW S, NEW s \in Seq(S), NEW e \in S, NEW i \in 1..(Len(s) + 1)
    PROVE  /\ InsertAt(s, i, e) \in Seq(S)
           /\ Len(InsertAt(s, i, e)) = Len(s) + 1
           /\ \A j \in 1..(i - 1) : InsertAt(s, i, e)[j] = s[j]
           /\ InsertAt(s, i, e)[i] = e
           /\ \A j \in (i + 1)..(Len(s) + 1) : InsertAt(s, i, e)[j] = s[j - 1]
<1> DEFINE a == SubSeq(s, 1, i - 1)
           b == <<e>>
           c == SubSeq(s, i, Len(s))
<1>1. Len(s) \in Nat /\ \A j \in 1..Len(s) : s[j] \in S
    OBVIOUS
<1>2. a \in Seq(S) /\ Len(a) = i - 1 /\ \A j \in 1..(i - 1) : a[j] = s[j]
    <2>1. \A j \in 1..(i - 1) : s[j] \in S
        BY <1>1
    <2>2. QED BY <2>1, <1>1, SubSeqProperties
<1>3. b \in Seq(S) /\ Len(b) = 1 /\ b[1] = e
    OBVIOUS
<1>4. c \in Seq(S) /\ Len(c) = Len(s) - i + 1 /\ \A j \in 1..(Len(s) - i + 1) : c[j] = s[i + j - 1]
    <2>1. \A j \in i..Len(s) : s[j] \in S
        BY <1>1
    <2>2. QED BY <2>1, <1>1, SubSeqProperties
<1> HIDE DEF a, b, c
<1>5. /\ a \o b \in Seq(S)
      /\ Len(a \o b) = i
      /\ \A j \in 1..i : (a \o b)[j] = IF j < i THEN s[j] ELSE e
    <2>1. /\ a \o b \in Seq(S)
          /\ Len(a \o b) = Len(a) + Len(b)
          /\ \A j \in 1..(Len(a) + Len(b)) :
                (a \o b)[j] = IF j <= Len(a) THEN a[j] ELSE b[j - Len(a)]
        BY <1>2, <1>3, ConcatProperties
    <2>2. i \in Nat /\ Len(a) + Len(b) = i
        BY <1>1, <1>2, <1>3
    <2>3. \A j \in 1..i : (a \o b)[j] = IF j < i THEN s[j] ELSE e
        <3> SUFFICES ASSUME NEW j \in 1..i PROVE (a \o b)[j] = IF j < i THEN s[j] ELSE e
            OBVIOUS
        <3>1. CASE j < i
            BY <3>1, <2>1, <2>2, <1>2
        <3>2. CASE j = i
            BY <3>2, <2>1, <2>2, <1>2, <1>3
        <3>3. QED BY <2>2, <3>1, <3>2
    <2>4. QED BY <2>1, <2>2, <2>3
<1>6. /\ (a \o b) \o c \in Seq(S)
      /\ Len((a \o b) \o c) = Len(s) + 1
      /\ \A j \in 1..(Len(s) + 1) :
            ((a \o b) \o c)[j] = IF j <= i THEN (a \o b)[j] ELSE c[j - i]
    BY <1>1, <1>4, <1>5, ConcatProperties
<1>7. InsertAt(s, i, e) = (a \o b) \o c
    BY DEF InsertAt, a, b, c
<1>8. \A j \in 1..(i - 1) : ((a \o b) \o c)[j] = s[j]
    BY <1>1, <1>5, <1>6
<1>9. ((a \o b) \o c)[i] = e
    BY <1>1, <1>5, <1>6
<1>10. \A j \in (i + 1)..(Len(s) + 1) : ((a \o b) \o c)[j] = s[j - 1]
    <2> SUFFICES ASSUME NEW j \in (i + 1)..(Len(s) + 1) PROVE ((a \o b) \o c)[j] = s[j - 1]
        OBVIOUS
    <2>1. j - i \in 1..(Len(s) - i + 1) /\ j \in 1..(Len(s) + 1) /\ ~(j <= i)
        BY <1>1
    <2>2. i + (j - i) - 1 = j - 1
        BY <1>1
    <2>3. QED BY <1>4, <1>6, <2>1, <2>2
<1>11. QED BY <1>6, <1>7, <1>8, <1>9, <1>10

(* The elements of a sequence after an insertion.                          *)
LEMMA InsertAtToSet ==
    ASSUME NEW S, NEW s \in Seq(S), NEW e \in S, NEW i \in 1..(Len(s) + 1)
    PROVE  ToSet(InsertAt(s, i, e)) = ToSet(s) \cup {e}
<1> DEFINE z == InsertAt(s, i, e)
<1>1. /\ z \in Seq(S) /\ Len(z) = Len(s) + 1
      /\ \A j \in 1..(i - 1) : z[j] = s[j]
      /\ z[i] = e
      /\ \A j \in (i + 1)..(Len(s) + 1) : z[j] = s[j - 1]
    BY InsertAtProperties
<1> HIDE DEF z
<1>2. Len(s) \in Nat /\ DOMAIN z = 1..(Len(s) + 1) /\ DOMAIN s = 1..Len(s)
    BY <1>1
<1>3. ASSUME NEW j \in DOMAIN z PROVE z[j] \in ToSet(s) \cup {e}
    <2>1. CASE j < i
        BY <1>1, <1>2, <2>1 DEF ToSet
    <2>2. CASE j = i
        BY <1>1, <2>2
    <2>3. CASE j > i
        <3>1. z[j] = s[j - 1] /\ j - 1 \in DOMAIN s
            BY <1>1, <1>2, <2>3
        <3>2. QED BY <3>1 DEF ToSet
    <2>4. QED BY <1>2, <2>1, <2>2, <2>3
<1>4. e \in ToSet(z)
    BY <1>1, <1>2 DEF ToSet
<1>5. ASSUME NEW j \in DOMAIN s PROVE s[j] \in ToSet(z)
    <2>1. CASE j < i
        <3>1. z[j] = s[j] /\ j \in DOMAIN z
            BY <1>1, <1>2, <2>1
        <3>2. QED BY <3>1 DEF ToSet
    <2>2. CASE ~(j < i)
        <3>1. j + 1 \in (i + 1)..(Len(s) + 1) /\ (j + 1) - 1 = j
            BY <1>2, <2>2
        <3>2. z[j + 1] = s[j] /\ j + 1 \in DOMAIN z
            BY <1>1, <1>2, <3>1
        <3>3. QED BY <3>2 DEF ToSet
    <2>3. QED BY <2>1, <2>2
<1>6. ToSet(z) = ToSet(s) \cup {e}
    BY <1>3, <1>4, <1>5 DEF ToSet
<1>7. QED BY <1>6 DEF z

(* The sum of the weights w of the elements of a finite set, by the        *)
(* recursion over its subsets that MapThenSumSet uses.                     *)
Chosen(s)        == CHOOSE x \in s : TRUE
SumStep(w, f, s) == IF s = {} THEN 0 ELSE w[Chosen(s)] + f[s \ {Chosen(s)}]
IsSum(w, f, S)   == f = [s \in SUBSET S |-> SumStep(w, f, s)]
SumOf(w, S)      == (CHOOSE f : IsSum(w, f, S))[S]

LEMMA SmallerWithoutChosen ==
    ASSUME NEW s, IsFiniteSet(s), s # {}
    PROVE  /\ Chosen(s) \in s /\ IsFiniteSet(s \ {Chosen(s)})
           /\ Cardinality(s) \in Nat /\ Cardinality(s \ {Chosen(s)}) \in Nat
           /\ Cardinality(s \ {Chosen(s)}) = Cardinality(s) - 1
<1>1. Chosen(s) \in s
    BY DEF Chosen
<1>2. QED BY <1>1, FS_RemoveElement, FS_CardinalityType

(* The recursion has a solution for every finite set.                      *)
LEMMA SumExists == ASSUME NEW w, NEW S, IsFiniteSet(S) PROVE \E f : IsSum(w, f, S)
<1> DEFINE UpTo(n) == {s \in SUBSET S : Cardinality(s) <= n}
           Defined == {n \in Nat : \E f : f = [s \in UpTo(n) |-> SumStep(w, f, s)]}
<1>1. \A s \in SUBSET S : IsFiniteSet(s) /\ Cardinality(s) \in Nat
                          /\ Cardinality(s) <= Cardinality(S)
    BY FS_Subset, FS_CardinalityType
<1>2. 0 \in Defined
    <2>1. UpTo(0) = {{}}
        <3>1. \A s \in SUBSET S : Cardinality(s) <= 0 <=> s = {}
            BY <1>1, FS_EmptySet
        <3>2. QED BY <3>1
    <2>2. [s \in {{}} |-> 0] = [s \in {{}} |-> SumStep(w, [r \in {{}} |-> 0], s)]
        BY DEF SumStep
    <2> HIDE DEF UpTo
    <2>3. QED BY <2>1, <2>2
<1>3. ASSUME NEW n \in Nat, n \in Defined PROVE n + 1 \in Defined
    <2>1. PICK f : f = [s \in UpTo(n) |-> SumStep(w, f, s)]
        BY <1>3
    <2> DEFINE g == [s \in UpTo(n + 1) |-> IF s \in UpTo(n) THEN f[s] ELSE SumStep(w, f, s)]
    <2>2. ASSUME NEW s \in UpTo(n + 1), s # {}
          PROVE  s \ {Chosen(s)} \in UpTo(n) /\ s \ {Chosen(s)} \in UpTo(n + 1)
        <3>1. s \in SUBSET S /\ IsFiniteSet(s) /\ Cardinality(s) <= n + 1
            BY <1>1
        <3>2. Cardinality(s \ {Chosen(s)}) = Cardinality(s) - 1 /\ Cardinality(s) \in Nat
            BY <2>2, <3>1, SmallerWithoutChosen
        <3>3. QED BY <3>1, <3>2
    <2>3. ASSUME NEW s \in UpTo(n + 1) PROVE g[s] = SumStep(w, g, s)
        <3>1. CASE s = {}
            <4>1. {} \in UpTo(n)
                BY FS_EmptySet
            <4> HIDE DEF UpTo
            <4>2. QED BY <2>1, <2>3, <3>1, <4>1 DEF SumStep
        <3>2. CASE s # {}
            <4>1. g[s \ {Chosen(s)}] = f[s \ {Chosen(s)}]
                BY <2>2, <3>2
            <4>2. SumStep(w, g, s) = SumStep(w, f, s)
                BY <3>2, <4>1 DEF SumStep
            <4>3. s \in UpTo(n) => f[s] = SumStep(w, f, s)
                BY <2>1
            <4> HIDE DEF UpTo
            <4>4. g[s] = SumStep(w, f, s)
                BY <2>3, <4>3
            <4>5. QED BY <4>2, <4>4
        <3>3. QED BY <3>1, <3>2
    <2>4. g = [s \in UpTo(n + 1) |-> SumStep(w, g, s)]
        <3> HIDE DEF UpTo
        <3> QED BY <2>3
    <2> HIDE DEF g, UpTo
    <2>5. QED BY <2>4
<1>4. Cardinality(S) \in Nat
    BY FS_CardinalityType
<1>5. Cardinality(S) \in Defined
    <2> HIDE DEF Defined
    <2> QED BY <1>2, <1>3, <1>4, NatSetInduction
<1>6. UpTo(Cardinality(S)) = SUBSET S
    BY <1>1
<1> HIDE DEF UpTo
<1>7. QED BY <1>5, <1>6 DEF IsSum

(* Solutions for a set and for a larger one agree if the weights do.       *)
LEMMA SumsAgree ==
    ASSUME NEW S, NEW T \in SUBSET S, IsFiniteSet(S), NEW w, NEW v, \A x \in T : w[x] = v[x],
           NEW f, IsSum(w, f, S), NEW g, IsSum(v, g, T)
    PROVE  f[T] = g[T]
<1> DEFINE Good == {n \in Nat : \A s \in SUBSET T : Cardinality(s) <= n => f[s] = g[s]}
<1>1. \A s \in SUBSET T : IsFiniteSet(s) /\ Cardinality(s) \in Nat
    BY FS_Subset, FS_CardinalityType
<1>2. ASSUME NEW s \in SUBSET T PROVE f[s] = SumStep(w, f, s) /\ g[s] = SumStep(v, g, s)
    <2>1. s \in SUBSET S
        OBVIOUS
    <2>2. QED BY <1>2, <2>1 DEF IsSum
<1>3. 0 \in Good
    <2> SUFFICES ASSUME NEW s \in SUBSET T, Cardinality(s) <= 0 PROVE f[s] = g[s]
        OBVIOUS
    <2>1. s = {}
        BY <1>1, FS_EmptySet
    <2>2. QED BY <1>2, <2>1 DEF SumStep
<1>4. ASSUME NEW n \in Nat, n \in Good PROVE n + 1 \in Good
    <2> SUFFICES ASSUME NEW s \in SUBSET T, Cardinality(s) <= n + 1 PROVE f[s] = g[s]
        OBVIOUS
    <2>1. CASE s = {}
        BY <1>2, <2>1 DEF SumStep
    <2>2. CASE s # {}
        <3>1. Cardinality(s \ {Chosen(s)}) <= n
            BY <1>1, <2>2, SmallerWithoutChosen
        <3>2. f[s \ {Chosen(s)}] = g[s \ {Chosen(s)}]
            BY <1>4, <3>1
        <3>3. Chosen(s) \in s
            BY <2>2 DEF Chosen
        <3>4. SumStep(w, f, s) = SumStep(v, g, s)
            BY <2>2, <3>2, <3>3 DEF SumStep
        <3>5. QED BY <1>2, <3>4
    <2>3. QED BY <2>1, <2>2
<1>5. Cardinality(T) \in Good
    <2>1. Cardinality(T) \in Nat
        BY <1>1
    <2> HIDE DEF Good
    <2>2. QED BY <1>3, <1>4, <2>1, NatSetInduction
<1>6. QED BY <1>1, <1>5

LEMMA SumIsSolution ==
    ASSUME NEW w, NEW S, IsFiniteSet(S), NEW f, IsSum(w, f, S)
    PROVE  SumOf(w, S) = f[S]
<1> DEFINE g == CHOOSE h : IsSum(w, h, S)
<1>1. IsSum(w, g, S)
    BY SumExists
<1>2. SumOf(w, S) = g[S]
    BY DEF SumOf
<1> HIDE DEF g
<1>3. QED BY <1>1, <1>2, SumsAgree

(* One turn of the recursion: the element it happens to choose.            *)
LEMMA SumOfChosen ==
    ASSUME NEW w
    PROVE
    /\ SumOf(w, {}) = 0
    /\ \A S : IsFiniteSet(S) /\ S # {} =>
          SumOf(w, S) = w[Chosen(S)] + SumOf(w, S \ {Chosen(S)})
<1>1. SumOf(w, {}) = 0
    <2>1. PICK f : IsSum(w, f, {})
        BY SumExists, FS_EmptySet
    <2>2. SumOf(w, {}) = f[{}]
        BY <2>1, SumIsSolution, FS_EmptySet
    <2>3. f[{}] = 0
        BY <2>1 DEF IsSum, SumStep
    <2>4. QED BY <2>2, <2>3
<1>2. ASSUME NEW S, IsFiniteSet(S), S # {}
      PROVE  SumOf(w, S) = w[Chosen(S)] + SumOf(w, S \ {Chosen(S)})
    <2> DEFINE R == S \ {Chosen(S)}
    <2>1. PICK f : IsSum(w, f, S)
        BY <1>2, SumExists
    <2>2. IsFiniteSet(R) /\ R \in SUBSET S
        BY <1>2, SmallerWithoutChosen
    <2>3. PICK g : IsSum(w, g, R)
        BY <2>2, SumExists
    <2>4. f[R] = g[R]
        BY <1>2, <2>1, <2>2, <2>3, SumsAgree
    <2>5. f[S] = w[Chosen(S)] + f[R]
        BY <1>2, <2>1 DEF IsSum, SumStep
    <2>6. SumOf(w, S) = f[S] /\ SumOf(w, R) = g[R]
        BY <1>2, <2>1, <2>2, <2>3, SumIsSolution
    <2>7. QED BY <2>4, <2>5, <2>6
<1>3. QED BY <1>1, <1>2

(* So the order does not matter: any element can be taken out.             *)
LEMMA SumWithout ==
    ASSUME NEW w, NEW S, IsFiniteSet(S), \A x \in S : w[x] \in Int
    PROVE  SumOf(w, S) \in Int /\ \A x \in S : SumOf(w, S) = w[x] + SumOf(w, S \ {x})
<1> DEFINE Right(s) == SumOf(w, s) \in Int /\ \A x \in s : SumOf(w, s) = w[x] + SumOf(w, s \ {x})
           Good == {n \in Nat : \A s \in SUBSET S : Cardinality(s) <= n => Right(s)}
<1>1. \A s \in SUBSET S : IsFiniteSet(s) /\ Cardinality(s) \in Nat
    BY FS_Subset, FS_CardinalityType
<1>2. 0 \in Good
    <2> SUFFICES ASSUME NEW s \in SUBSET S, Cardinality(s) <= 0 PROVE Right(s)
        OBVIOUS
    <2>1. s = {}
        BY <1>1, FS_EmptySet
    <2>2. QED BY <2>1, SumOfChosen
<1>3. ASSUME NEW n \in Nat, n \in Good PROVE n + 1 \in Good
    <2> SUFFICES ASSUME NEW s \in SUBSET S, Cardinality(s) <= n + 1, s # {} PROVE Right(s)
        <3>1. Right({})
            BY SumOfChosen
        <3> HIDE DEF Right
        <3>2. QED BY <3>1
    <2> DEFINE c == Chosen(s)
    <2>1. /\ c \in s /\ Cardinality(s \ {c}) <= n /\ s \ {c} \in SUBSET S
          /\ SumOf(w, s) = w[c] + SumOf(w, s \ {c}) /\ w[c] \in Int
        BY <1>1, SmallerWithoutChosen, SumOfChosen
    <2> HIDE DEF c
    <2>2. Right(s \ {c})
        <3> HIDE DEF Right
        <3> QED BY <1>3, <2>1
    <2>3. ASSUME NEW x \in s, x # c PROVE SumOf(w, s) = w[x] + SumOf(w, s \ {x})
        <3>1. s \ {x} \in SUBSET S /\ c \in s \ {x} /\ w[x] \in Int
            BY <2>1, <2>3
        <3>2. Cardinality(s \ {x}) <= n
            <4>1. Cardinality(s \ {x}) = Cardinality(s) - 1
                BY <1>1, FS_RemoveElement
            <4>2. QED BY <1>1, <4>1
        <3>3. Right(s \ {x})
            <4> HIDE DEF Right
            <4> QED BY <1>3, <3>1, <3>2
        <3>4. SumOf(w, s \ {c}) = w[x] + SumOf(w, (s \ {c}) \ {x})
            BY <2>2, <2>3
        <3>5. SumOf(w, s \ {x}) = w[c] + SumOf(w, (s \ {x}) \ {c})
            BY <3>1, <3>3
        <3>6. SumOf(w, (s \ {c}) \ {x}) = SumOf(w, (s \ {x}) \ {c})
            <4>1. (s \ {c}) \ {x} = (s \ {x}) \ {c}
                OBVIOUS
            <4>2. QED BY <4>1
        <3>7. SumOf(w, (s \ {x}) \ {c}) \in Int
            <4>1. (s \ {x}) \ {c} \in SUBSET S /\ Cardinality((s \ {x}) \ {c}) <= n
                <5>1. Cardinality((s \ {x}) \ {c}) = Cardinality(s \ {x}) - 1
                    BY <1>1, <3>1, FS_RemoveElement
                <5>2. QED BY <1>1, <3>1, <3>2, <5>1
            <4>2. Right((s \ {x}) \ {c})
                <5> HIDE DEF Right
                <5> QED BY <1>3, <4>1
            <4>3. QED BY <4>2
        <3>8. QED BY <2>1, <3>1, <3>4, <3>5, <3>6, <3>7
    <2>4. SumOf(w, s) \in Int
        BY <2>1, <2>2
    <2>5. \A x \in s : SumOf(w, s) = w[x] + SumOf(w, s \ {x})
        BY <2>1, <2>3
    <2>6. QED BY <2>4, <2>5
<1>4. Cardinality(S) \in Good
    <2>1. Cardinality(S) \in Nat
        BY <1>1
    <2> HIDE DEF Good
    <2>2. QED BY <1>2, <1>3, <2>1, NatSetInduction
<1>5. QED BY <1>1, <1>4

(* The sum over two sets without a common element is the sum of theirs.    *)
LEMMA SumOfUnion ==
    ASSUME NEW w, NEW S, NEW T, IsFiniteSet(S), IsFiniteSet(T), S \cap T = {},
           \A x \in S \cup T : w[x] \in Int
    PROVE  SumOf(w, S) \in Int /\ SumOf(w, T) \in Int /\ SumOf(w, S \cup T) = SumOf(w, S) + SumOf(w, T)
<1> DEFINE Good == {n \in Nat : \A R \in SUBSET T :
                      Cardinality(R) <= n => SumOf(w, S \cup R) = SumOf(w, S) + SumOf(w, R)}
<1>1. \A R \in SUBSET T : IsFiniteSet(R) /\ Cardinality(R) \in Nat /\ IsFiniteSet(S \cup R)
    BY FS_Subset, FS_CardinalityType, FS_Union
<1>2. \A R \in SUBSET T : SumOf(w, R) \in Int /\ \A x \in R : SumOf(w, R) = w[x] + SumOf(w, R \ {x})
    BY <1>1, SumWithout
<1>3. SumOf(w, S) \in Int
    BY SumWithout
<1>4. 0 \in Good
    <2> SUFFICES ASSUME NEW R \in SUBSET T, Cardinality(R) <= 0
                 PROVE  SumOf(w, S \cup R) = SumOf(w, S) + SumOf(w, R)
        OBVIOUS
    <2>1. R = {}
        <3>1. IsFiniteSet(R) /\ Cardinality(R) \in Nat
            BY <1>1
        <3>2. QED BY <3>1, FS_EmptySet
    <2>2. SumOf(w, {}) = 0
        BY SumOfChosen
    <2>3. S \cup R = S
        BY <2>1
    <2>4. SumOf(w, S \cup R) = SumOf(w, S)
        BY <2>3
    <2>5. SumOf(w, R) = 0
        BY <2>1, <2>2
    <2>6. QED BY <1>3, <2>4, <2>5
<1>5. ASSUME NEW n \in Nat, n \in Good PROVE n + 1 \in Good
    <2> SUFFICES ASSUME NEW R \in SUBSET T, Cardinality(R) <= n + 1, NEW x \in R
                 PROVE  SumOf(w, S \cup R) = SumOf(w, S) + SumOf(w, R)
        <3>1. SumOf(w, S \cup {}) = SumOf(w, S) + SumOf(w, {})
            <4>1. S \cup {} = S /\ SumOf(w, {}) = 0
                BY SumOfChosen
            <4>2. QED BY <1>3, <4>1
        <3>2. QED BY <3>1
    <2>1. Cardinality(R \ {x}) <= n /\ R \ {x} \in SUBSET T
        <3>1. IsFiniteSet(R) /\ Cardinality(R) \in Nat
            BY <1>1
        <3>2. Cardinality(R \ {x}) = Cardinality(R) - 1
            BY <3>1, FS_RemoveElement
        <3>3. QED BY <3>1, <3>2
    <2>2. SumOf(w, S \cup (R \ {x})) = SumOf(w, S) + SumOf(w, R \ {x})
        BY <1>5, <2>1
    <2>3. (S \cup R) \ {x} = S \cup (R \ {x})
        OBVIOUS
    <2>4. SumOf(w, S \cup R) = w[x] + SumOf(w, S \cup (R \ {x}))
        <3>1. IsFiniteSet(S \cup R) /\ x \in S \cup R
            BY <1>1
        <3>2. \A y \in S \cup R : w[y] \in Int
            OBVIOUS
        <3>3. SumOf(w, S \cup R) = w[x] + SumOf(w, (S \cup R) \ {x})
            BY <3>1, <3>2, SumWithout
        <3>4. QED BY <2>3, <3>3
    <2>5. SumOf(w, R) = w[x] + SumOf(w, R \ {x}) /\ w[x] \in Int /\ SumOf(w, R \ {x}) \in Int
        BY <1>2, <2>1
    <2>6. QED BY <1>3, <2>2, <2>4, <2>5
<1>6. Cardinality(T) \in Good
    <2>1. Cardinality(T) \in Nat
        BY <1>1
    <2> HIDE DEF Good
    <2>2. QED BY <1>4, <1>5, <2>1, NatSetInduction
<1>7. QED BY <1>1, <1>2, <1>3, <1>6

(* Taking elements out of a set takes their sum from its sum.             *)
LEMMA SumOfDifference ==
    ASSUME NEW w, NEW S, NEW T \in SUBSET S, IsFiniteSet(S), \A x \in S : w[x] \in Int
    PROVE  SumOf(w, S \ T) = SumOf(w, S) - SumOf(w, T)
<1>1. IsFiniteSet(T) /\ IsFiniteSet(S \ T)
    BY FS_Subset
<1>2. (S \ T) \cup T = S /\ (S \ T) \cap T = {}
    OBVIOUS
<1>3. /\ SumOf(w, S \ T) \in Int /\ SumOf(w, T) \in Int
      /\ SumOf(w, (S \ T) \cup T) = SumOf(w, S \ T) + SumOf(w, T)
    <2>1. \A x \in (S \ T) \cup T : w[x] \in Int
        OBVIOUS
    <2>2. QED BY <1>1, <1>2, <2>1, SumOfUnion
<1>4. SumOf(w, (S \ T) \cup T) = SumOf(w, S)
    BY <1>2
<1>5. QED BY <1>3, <1>4

-----------------------------------------------------------------------------
Sorted(hgt, s) == \A i, j \in 1..Len(s) : i < j => hgt[s[i]] <= hgt[s[j]]
Distinct(s)    == \A i, j \in 1..Len(s) : s[i] = s[j] => i = j

(* Why the properties are inductive: a transaction stays associated with   *)
(* the wallet as long as it is in the array (so no update frees it), a     *)
(* transaction the wallet does not keep is new, and the chain of blocks    *)
(* confirms parents before children (so what spends an unconfirmed         *)
(* transaction is unconfirmed, and BRWalletRemoveTransaction finds it).    *)
HeldAreAssociated == \A t \in ToSet(transactions) : ContainsTx(allTx, t)
UnknownAreNew     == \A t \in Tx \ allTx : height[t] = TX_UNCONFIRMED
ChainOrdered      == \A t \in OnBestChain :
                        mined[t] <= tip /\ \A p \in Parents(t) \cap Tx : mined[p] <= mined[t]

WalletInv ==
    /\ TypeOK
    /\ SortedByHeight
    /\ NoDangling
    /\ SavedMatches
    /\ HeightsFollowChain
    /\ HeldAreAssociated
    /\ UnknownAreNew
    /\ ChainOrdered

-----------------------------------------------------------------------------
(* Heights are ordered naturals, and no block is as high as TX_UNCONFIRMED. *)
LEMMA HeightsOrdered ==
    /\ Heights \subseteq Nat
    /\ TX_UNCONFIRMED \in Heights /\ 0 \in Heights
    /\ \A h \in Heights : h <= TX_UNCONFIRMED
    /\ \A h \in 0..MaxTip : h < TX_UNCONFIRMED /\ h \in Heights
    /\ NotSaved \notin Heights
BY TxAssumption, WalletAssumption DEF Heights, NotSaved

(* The comparison of the insertion sort never contradicts the heights.     *)
LEMMA TxAfterHeight ==
    ASSUME NEW all, NEW hgt \in [Tx -> Nat], NEW t1 \in Tx, NEW t2 \in Tx
    PROVE  /\ TxAfter(all, hgt, t1, t2) => hgt[t2] <= hgt[t1]
           /\ ~TxAfter(all, hgt, t1, t2) => hgt[t1] <= hgt[t2]
BY DEF TxAfter, TxIsAscending

(* The insertion sort stops somewhere.                                     *)
LEMMA InsertPositionExists ==
    ASSUME NEW all, NEW hgt, NEW txs \in Seq(Tx), NEW t
    PROVE  LET i == InsertPosition(all, hgt, txs, t)
           IN  /\ i \in 0..Len(txs)
               /\ i > 0 => ~TxAfter(all, hgt, txs[i], t)
               /\ \A j \in (i + 1)..Len(txs) : TxAfter(all, hgt, txs[j], t)
<1> DEFINE S == {i \in 0..Len(txs) : \A j \in (i + 1)..Len(txs) : TxAfter(all, hgt, txs[j], t)}
<1>1. Len(txs) \in S /\ S \in SUBSET Nat
    OBVIOUS
<1>2. PICK i \in S : \A m \in S : i <= m
    BY <1>1, LeastNat
<1>3. i \in 0..Len(txs) /\ \A j \in (i + 1)..Len(txs) : TxAfter(all, hgt, txs[j], t)
    BY <1>2
<1>4. i > 0 => ~TxAfter(all, hgt, txs[i], t)
    <2>1. SUFFICES ASSUME i > 0, TxAfter(all, hgt, txs[i], t) PROVE FALSE
        OBVIOUS
    <2>2. i - 1 \in 0..Len(txs) /\ (i - 1) + 1 = i /\ i \in Int /\ ~(i <= i - 1)
        BY <1>3, <2>1
    <2>3. \A j \in i..Len(txs) : j = i \/ j \in (i + 1)..Len(txs)
        BY <1>3
    <2>4. \A j \in i..Len(txs) : TxAfter(all, hgt, txs[j], t)
        BY <1>3, <2>1, <2>3
    <2>5. i - 1 \in S
        BY <2>2, <2>4
    <2> HIDE DEF S
    <2>6. QED BY <1>2, <2>2, <2>5
<1>5. QED BY <1>3, <1>4 DEF InsertPosition

(* Inserting a transaction keeps the array sorted and without duplicates.  *)
LEMMA InsertTxProperties ==
    ASSUME NEW all, NEW hgt \in [Tx -> Nat], NEW txs \in Seq(Tx), NEW t \in Tx,
           Sorted(hgt, txs), Distinct(txs), t \notin ToSet(txs)
    PROVE  /\ InsertTx(all, hgt, txs, t) \in Seq(Tx)
           /\ ToSet(InsertTx(all, hgt, txs, t)) = ToSet(txs) \cup {t}
           /\ Sorted(hgt, InsertTx(all, hgt, txs, t))
           /\ Distinct(InsertTx(all, hgt, txs, t))
<1> DEFINE i == InsertPosition(all, hgt, txs, t)
           z == InsertTx(all, hgt, txs, t)
<1>1. /\ i \in 0..Len(txs)
      /\ i > 0 => ~TxAfter(all, hgt, txs[i], t)
      /\ \A j \in (i + 1)..Len(txs) : TxAfter(all, hgt, txs[j], t)
    BY InsertPositionExists
<1>2. z = InsertAt(txs, i + 1, t)
    BY DEF InsertTx
<1> HIDE DEF i, z
<1>3. Len(txs) \in Nat /\ \A j \in 1..Len(txs) : txs[j] \in Tx /\ txs[j] # t
    BY DEF ToSet
<1>4. i + 1 \in 1..(Len(txs) + 1)
    BY <1>1, <1>3
<1>5. /\ z \in Seq(Tx)
      /\ Len(z) = Len(txs) + 1
      /\ \A j \in 1..i : z[j] = txs[j]
      /\ z[i + 1] = t
      /\ \A j \in (i + 2)..(Len(txs) + 1) : z[j] = txs[j - 1]
      /\ ToSet(z) = ToSet(txs) \cup {t}
    <2> DEFINE p == i + 1
    <2>1. p \in 1..(Len(txs) + 1) /\ p - 1 = i /\ p + 1 = i + 2
        BY <1>1, <1>3, <1>4
    <2> HIDE DEF p
    <2>2. /\ InsertAt(txs, p, t) \in Seq(Tx)
          /\ Len(InsertAt(txs, p, t)) = Len(txs) + 1
          /\ \A j \in 1..(p - 1) : InsertAt(txs, p, t)[j] = txs[j]
          /\ InsertAt(txs, p, t)[p] = t
          /\ \A j \in (p + 1)..(Len(txs) + 1) : InsertAt(txs, p, t)[j] = txs[j - 1]
          /\ ToSet(InsertAt(txs, p, t)) = ToSet(txs) \cup {t}
        BY <2>1, InsertAtProperties, InsertAtToSet
    <2>3. z = InsertAt(txs, p, t) /\ z[i + 1] = z[p]
        BY <1>2 DEF p
    <2>4. QED BY <2>1, <2>2, <2>3
<1>6. /\ \A j \in 1..i : hgt[txs[j]] <= hgt[t]
      /\ \A j \in (i + 1)..Len(txs) : hgt[t] <= hgt[txs[j]]
    <2>1. ASSUME NEW j \in 1..i PROVE hgt[txs[j]] <= hgt[t]
        <3>1. i \in 1..Len(txs) /\ j \in 1..Len(txs)
            BY <1>1, <1>3
        <3>2. hgt[txs[i]] <= hgt[t]
            BY <1>1, <1>3, <3>1, TxAfterHeight
        <3>3. hgt[txs[j]] <= hgt[txs[i]]
            BY <1>3, <3>1 DEF Sorted
        <3>4. QED BY <1>3, <3>1, <3>2, <3>3
    <2>2. ASSUME NEW j \in (i + 1)..Len(txs) PROVE hgt[t] <= hgt[txs[j]]
        BY <1>1, <1>3, TxAfterHeight
    <2>3. QED BY <2>1, <2>2
<1>7. /\ i \in Nat /\ DOMAIN z = 1..(Len(txs) + 1) /\ 1..Len(z) = 1..(Len(txs) + 1)
      /\ hgt[t] \in Nat /\ \A j \in 1..Len(txs) : hgt[txs[j]] \in Nat
    BY <1>1, <1>3, <1>5
(* Where the j-th element of z comes from.                                 *)
<1>8. ASSUME NEW j \in 1..Len(z)
      PROVE  \/ j <= i /\ j \in 1..Len(txs) /\ z[j] = txs[j]
             \/ j = i + 1 /\ z[j] = t
             \/ j > i + 1 /\ j - 1 \in 1..Len(txs) /\ z[j] = txs[j - 1]
    <2>1. j \in 1..(Len(txs) + 1)
        BY <1>7
    <2>2. CASE j <= i
        BY <1>1, <1>3, <1>5, <2>1, <2>2
    <2>3. CASE j = i + 1
        BY <1>5, <2>3
    <2>4. CASE j > i + 1
        <3>1. j \in (i + 2)..(Len(txs) + 1) /\ j - 1 \in 1..Len(txs)
            BY <1>3, <1>7, <2>1, <2>4
        <3>2. QED BY <1>5, <2>4, <3>1
    <2>5. QED BY <1>7, <2>1, <2>2, <2>3, <2>4
<1>9. Sorted(hgt, z)
    <2> SUFFICES ASSUME NEW j \in 1..Len(z), NEW k \in 1..Len(z), j < k
                 PROVE  hgt[z[j]] <= hgt[z[k]]
        BY DEF Sorted
    <2>1. j \in Int /\ k \in Int
        BY <1>7
    <2> DEFINE Below(m, n) == m < n => hgt[txs[m]] <= hgt[txs[n]]
    <2>0. \A m, n \in 1..Len(txs) : Below(m, n)
        BY DEF Sorted
    <2>2. CASE k <= i
        <3>1. j \in 1..Len(txs) /\ z[j] = txs[j]
            BY <1>7, <1>8, <2>1, <2>2
        <3>2. k \in 1..Len(txs) /\ z[k] = txs[k]
            BY <1>7, <1>8, <2>1, <2>2
        <3>3. Below(j, k)
            <4> HIDE DEF Below
            <4> QED BY <2>0, <3>1, <3>2
        <3>4. QED BY <3>1, <3>2, <3>3
    <2>3. CASE k = i + 1
        <3>1. z[k] = t /\ j \in 1..i
            BY <1>5, <1>7, <2>1, <2>3
        <3>2. z[j] = txs[j]
            BY <1>5, <3>1
        <3>3. QED BY <1>6, <3>1, <3>2
    <2>4. CASE k > i + 1
        <3>1. k - 1 \in (i + 1)..Len(txs) /\ z[k] = txs[k - 1]
            BY <1>3, <1>7, <1>8, <2>1, <2>4
        <3>2. CASE j <= i
            <4>1. j \in 1..Len(txs) /\ z[j] = txs[j]
                BY <1>7, <1>8, <2>1, <3>2
            <4>2. k - 1 \in 1..Len(txs) /\ j < k - 1
                BY <1>3, <1>7, <2>1, <2>4, <3>1, <3>2
            <4>3. Below(j, k - 1)
                <5> HIDE DEF Below
                <5> QED BY <2>0, <4>1, <4>2
            <4>4. QED BY <3>1, <4>1, <4>2, <4>3
        <3>3. CASE j = i + 1
            <4>1. z[j] = t
                BY <1>5, <3>3
            <4>2. QED BY <1>6, <3>1, <4>1
        <3>4. CASE j > i + 1
            <4>1. j - 1 \in 1..Len(txs) /\ z[j] = txs[j - 1]
                BY <1>7, <1>8, <2>1, <3>4
            <4>2. k - 1 \in 1..Len(txs) /\ j - 1 < k - 1
                BY <1>3, <1>7, <2>1, <2>4, <3>1
            <4>3. Below(j - 1, k - 1)
                <5> HIDE DEF Below
                <5> QED BY <2>0, <4>1, <4>2
            <4>4. QED BY <3>1, <4>1, <4>2, <4>3
        <3>5. QED BY <1>7, <2>1, <3>2, <3>3, <3>4
    <2>5. QED BY <1>7, <2>1, <2>2, <2>3, <2>4
<1>10. Distinct(z)
    <2> SUFFICES ASSUME NEW j \in 1..Len(z), NEW k \in 1..Len(z), z[j] = z[k]
                 PROVE  j = k
        BY DEF Distinct
    <2>1. j \in Int /\ k \in Int
        BY <1>7
    <2>2. \A m \in 1..Len(txs) : txs[m] # t
        BY <1>3
    <2>3. \A m, n \in 1..Len(txs) : txs[m] = txs[n] => m = n
        BY DEF Distinct
    <2>4. \A m \in 1..Len(z) : m # i + 1 => \E n \in 1..Len(txs) : z[m] = txs[n]
        BY <1>7, <1>8
    <2>5. z[i + 1] = t
        BY <1>5
    <2>6. CASE j # i + 1 /\ k # i + 1
        <3> DEFINE from(x) == IF x <= i THEN x ELSE x - 1
        <3>0. \A x \in 1..Len(z) : x # i + 1 => from(x) \in 1..Len(txs) /\ z[x] = txs[from(x)]
            <4> SUFFICES ASSUME NEW x \in 1..Len(z), x # i + 1
                         PROVE  from(x) \in 1..Len(txs) /\ z[x] = txs[from(x)]
                OBVIOUS
            <4>1. x \in Int /\ (x <= i \/ x > i + 1)
                BY <1>7
            <4>2. CASE x <= i
                BY <1>7, <1>8, <4>1, <4>2
            <4>3. CASE x > i + 1
                BY <1>7, <1>8, <4>1, <4>3
            <4>4. QED BY <4>1, <4>2, <4>3
        <3>1. PICK m \in 1..Len(txs) : z[j] = txs[m] /\ m = from(j)
            BY <2>6, <3>0
        <3>2. PICK n \in 1..Len(txs) : z[k] = txs[n] /\ n = from(k)
            BY <2>6, <3>0
        <3>3. m = n
            BY <2>3, <3>1, <3>2
        <3>4. QED BY <1>7, <2>1, <2>6, <3>1, <3>2, <3>3
    <2>7. QED BY <2>2, <2>4, <2>5, <2>6
<1>11. QED BY <1>5, <1>9, <1>10 DEF z

(* The turns of Without                                                    *)
LEMMA WithoutTurns ==
    ASSUME NEW S, NEW txs \in Seq(S), NEW D
    PROVE  \E keep : /\ keep[0] = <<>>
                     /\ \A i \in 1..Len(txs) :
                           keep[i] = IF txs[i] \in D THEN keep[i - 1] ELSE Append(keep[i - 1], txs[i])
                     /\ Without(txs, D) = keep[Len(txs)]
<1> DEFINE Step(k, i) == IF i = 0 THEN <<>>
                         ELSE IF txs[i] \in D THEN k[i - 1] ELSE Append(k[i - 1], txs[i])
           keep[i \in 0..Len(txs)] ==
              IF i = 0 THEN <<>>
              ELSE IF txs[i] \in D THEN keep[i - 1] ELSE Append(keep[i - 1], txs[i])
           Defined == {n \in Nat : \E k : k = [i \in 0..n |-> Step(k, i)]}
<1>1. Len(txs) \in Nat
    OBVIOUS
<1>2. keep = [i \in 0..Len(txs) |-> Step(keep, i)]
    <2>1. 0 \in Defined
        <3>1. [i \in 0..0 |-> <<>>] = [i \in 0..0 |-> Step([j \in 0..0 |-> <<>>], i)]
            OBVIOUS
        <3>2. QED BY <3>1
    <2>2. ASSUME NEW n \in Nat, n \in Defined PROVE n + 1 \in Defined
        <3>1. PICK k : k = [i \in 0..n |-> Step(k, i)]
            BY <2>2
        <3> DEFINE g == [i \in 0..(n + 1) |-> IF i = n + 1 THEN Step(k, n + 1) ELSE k[i]]
        <3>2. \A i \in 0..(n + 1) : g[i] = Step(g, i)
            <4> SUFFICES ASSUME NEW i \in 0..(n + 1) PROVE g[i] = Step(g, i)
                OBVIOUS
            <4>1. CASE i = n + 1
                <5>1. g[n] = k[n] /\ i # 0 /\ i - 1 = n
                    BY <4>1
                <5>2. QED BY <4>1, <5>1
            <4>2. CASE i # n + 1 /\ i # 0
                <5>1. i \in 0..n /\ i - 1 \in 0..n /\ g[i] = k[i] /\ g[i - 1] = k[i - 1]
                    BY <4>2
                <5>2. k[i] = Step(k, i)
                    BY <3>1, <5>1
                <5>3. QED BY <4>2, <5>1, <5>2
            <4>3. CASE i = 0
                <5>1. 0 \in 0..n /\ g[0] = k[0]
                    OBVIOUS
                <5>2. k[0] = Step(k, 0)
                    BY <3>1, <5>1
                <5>3. QED BY <4>3, <5>1, <5>2
            <4>4. QED BY <4>1, <4>2, <4>3
        <3>3. g = [i \in 0..(n + 1) |-> Step(g, i)]
            BY <3>2
        <3> HIDE DEF g, Step
        <3>4. QED BY <3>3
    <2>3. Len(txs) \in Defined
        <3> HIDE DEF Defined
        <3> QED BY <1>1, <2>1, <2>2, NatSetInduction
    <2>4. QED BY <2>3
<1> HIDE DEF keep
<1>3. keep[0] = <<>>
    BY <1>1, <1>2
<1>4. ASSUME NEW i \in 1..Len(txs)
      PROVE  keep[i] = IF txs[i] \in D THEN keep[i - 1] ELSE Append(keep[i - 1], txs[i])
    <2>1. i \in 0..Len(txs) /\ i # 0
        BY <1>1
    <2>2. keep[i] = Step(keep, i)
        <3> HIDE DEF Step
        <3> QED BY <1>2, <2>1
    <2>3. QED BY <2>1, <2>2
<1>5. Without(txs, D) = keep[Len(txs)]
    BY DEF Without, keep
<1>6. QED BY <1>3, <1>4, <1>5

LEMMA WithoutElements ==
    ASSUME NEW S, NEW s \in Seq(S), NEW D
    PROVE  Without(s, D) \in Seq(S) /\ ToSet(Without(s, D)) = ToSet(s) \ D
<1>1. Len(s) \in Nat /\ \A j \in 1..Len(s) : s[j] \in S
    OBVIOUS
<1>2. PICK keep : /\ keep[0] = <<>>
                  /\ \A i \in 1..Len(s) :
                        keep[i] = IF s[i] \in D THEN keep[i - 1] ELSE Append(keep[i - 1], s[i])
                  /\ Without(s, D) = keep[Len(s)]
    BY WithoutTurns
<1> DEFINE From(i) == {s[j] : j \in 1..i}
           Good == {n \in Nat : n <= Len(s) => keep[n] \in Seq(S) /\ ToSet(keep[n]) = From(n) \ D}
<1>3. 0 \in Good
    <2>1. keep[0] \in Seq(S) /\ ToSet(keep[0]) = {}
        BY <1>2 DEF ToSet
    <2>2. From(0) = {}
        OBVIOUS
    <2>3. QED BY <2>1, <2>2
<1>4. ASSUME NEW n \in Nat, n \in Good PROVE n + 1 \in Good
    <2> SUFFICES ASSUME n + 1 <= Len(s)
                 PROVE  keep[n + 1] \in Seq(S) /\ ToSet(keep[n + 1]) = From(n + 1) \ D
        OBVIOUS
    <2> DEFINE k == keep[n]
               x == s[n + 1]
               z == Append(k, x)
    <2>1. k \in Seq(S) /\ ToSet(k) = From(n) \ D /\ x \in S
        BY <1>1, <1>4
    <2>2. keep[n + 1] = IF x \in D THEN k ELSE z
        <3>1. n + 1 \in 1..Len(s) /\ (n + 1) - 1 = n
            BY <1>1
        <3>2. QED BY <1>2, <3>1
    <2>3. From(n + 1) = From(n) \cup {x}
        <3>1. 1..(n + 1) = 1..n \cup {n + 1}
            OBVIOUS
        <3>2. QED BY <3>1
    <2> HIDE DEF k, x, From
    <2>4. /\ z \in Seq(S) /\ Len(z) = Len(k) + 1 /\ Len(k) \in Nat
          /\ \A j \in 1..Len(k) : z[j] = k[j]
          /\ z[Len(k) + 1] = x
        BY <2>1, AppendProperties
    <2> HIDE DEF z
    <2>5. ToSet(z) = ToSet(k) \cup {x}
        <3>1. DOMAIN z = 1..Len(k) \cup {Len(k) + 1} /\ DOMAIN k = 1..Len(k)
            BY <2>1, <2>4
        <3>2. QED BY <2>4, <3>1 DEF ToSet
    <2>6. QED BY <2>1, <2>2, <2>3, <2>4, <2>5
<1>5. Len(s) \in Good
    <2> HIDE DEF Good
    <2> QED BY <1>1, <1>3, <1>4, NatSetInduction
<1>6. From(Len(s)) = ToSet(s)
    BY <1>1 DEF ToSet
<1>7. QED BY <1>1, <1>2, <1>5, <1>6

(* Taking transactions out keeps the order of the others.                  *)
LEMMA WithoutProperties ==
    ASSUME NEW txs \in Seq(Tx), NEW D, NEW hgt \in [Tx -> Nat],
           Sorted(hgt, txs), Distinct(txs)
    PROVE  /\ Without(txs, D) \in Seq(Tx)
           /\ ToSet(Without(txs, D)) = ToSet(txs) \ D
           /\ Sorted(hgt, Without(txs, D))
           /\ Distinct(Without(txs, D))
<1>1. Len(txs) \in Nat /\ \A j \in 1..Len(txs) : txs[j] \in Tx
    OBVIOUS
<1>2. PICK keep : /\ keep[0] = <<>>
                  /\ \A i \in 1..Len(txs) :
                        keep[i] = IF txs[i] \in D THEN keep[i - 1] ELSE Append(keep[i - 1], txs[i])
                  /\ Without(txs, D) = keep[Len(txs)]
    BY WithoutTurns
<1> DEFINE From(i) == {txs[j] : j \in 1..i}
           Good == {n \in Nat : n <= Len(txs) =>
                      /\ keep[n] \in Seq(Tx)
                      /\ ToSet(keep[n]) = From(n) \ D
                      /\ Sorted(hgt, keep[n])
                      /\ Distinct(keep[n])}
<1>3. 0 \in Good
    <2>1. keep[0] \in Seq(Tx) /\ Len(keep[0]) = 0 /\ ToSet(keep[0]) = {}
        BY <1>2 DEF ToSet
    <2>2. From(0) = {}
        OBVIOUS
    <2>3. QED BY <2>1, <2>2 DEF Sorted, Distinct
<1>4. ASSUME NEW n \in Nat, n \in Good PROVE n + 1 \in Good
    <2> SUFFICES ASSUME n + 1 <= Len(txs)
                 PROVE  /\ keep[n + 1] \in Seq(Tx)
                        /\ ToSet(keep[n + 1]) = From(n + 1) \ D
                        /\ Sorted(hgt, keep[n + 1])
                        /\ Distinct(keep[n + 1])
        OBVIOUS
    <2> DEFINE k == keep[n]
               x == txs[n + 1]
    <2>1. k \in Seq(Tx) /\ ToSet(k) = From(n) \ D /\ Sorted(hgt, k) /\ Distinct(k)
        BY <1>4
    <2>2. n + 1 \in 1..Len(txs) /\ (n + 1) - 1 = n /\ x \in Tx
        BY <1>1
    <2>3. From(n + 1) = From(n) \cup {x}
        <3>1. 1..(n + 1) = 1..n \cup {n + 1}
            OBVIOUS
        <3>2. QED BY <3>1
    <2>4. keep[n + 1] = IF x \in D THEN k ELSE Append(k, x)
        BY <1>2, <2>2
    <2> HIDE DEF k
    <2>5. CASE x \in D
        BY <2>1, <2>3, <2>4, <2>5
    <2>6. CASE x \notin D
        <3> DEFINE z == Append(k, x)
        <3>1. /\ z \in Seq(Tx) /\ Len(z) = Len(k) + 1 /\ Len(k) \in Nat
              /\ \A j \in 1..Len(k) : z[j] = k[j]
              /\ z[Len(k) + 1] = x
            BY <2>1, <2>2, AppendProperties
        <3> HIDE DEF z
        <3>2. \A j \in 1..Len(k) : k[j] \in From(n)
            <4>1. DOMAIN k = 1..Len(k)
                BY <2>1
            <4>2. \A j \in 1..Len(k) : k[j] \in ToSet(k)
                BY <4>1 DEF ToSet
            <4> HIDE DEF From
            <4>3. QED BY <2>1, <4>2
        <3>3. \A y \in From(n) : y # x /\ y \in Tx /\ hgt[y] <= hgt[x]
            <4> SUFFICES ASSUME NEW j \in 1..n
                         PROVE  txs[j] # x /\ txs[j] \in Tx /\ hgt[txs[j]] <= hgt[x]
                OBVIOUS
            <4>1. j \in 1..Len(txs) /\ j < n + 1
                BY <1>1, <2>2
            <4>2. txs[j] # x /\ hgt[txs[j]] <= hgt[x]
                BY <2>2, <4>1 DEF Sorted, Distinct
            <4>3. QED BY <1>1, <4>1, <4>2
        <3> HIDE DEF x
        <3>4. ToSet(z) = ToSet(k) \cup {x}
            <4>1. DOMAIN z = 1..Len(k) \cup {Len(k) + 1} /\ DOMAIN k = 1..Len(k)
                BY <2>1, <3>1
            <4>2. QED BY <3>1, <4>1 DEF ToSet
        <3>5. Sorted(hgt, z)
            <4> SUFFICES ASSUME NEW j \in 1..Len(z), NEW m \in 1..Len(z), j < m
                         PROVE  hgt[z[j]] <= hgt[z[m]]
                BY DEF Sorted
            <4>1. j \in 1..Len(k)
                BY <3>1
            <4>2. CASE m = Len(k) + 1
                <5>1. z[j] = k[j] /\ z[m] = x
                    BY <3>1, <4>1, <4>2
                <5>2. QED BY <3>2, <3>3, <4>1, <5>1
            <4>3. CASE m \in 1..Len(k)
                <5>1. z[j] = k[j] /\ z[m] = k[m]
                    BY <3>1, <4>1, <4>3
                <5> DEFINE Below(a, b) == a < b => hgt[k[a]] <= hgt[k[b]]
                <5>2. \A a, b \in 1..Len(k) : Below(a, b)
                    BY <2>1 DEF Sorted
                <5>3. Below(j, m)
                    <6> HIDE DEF Below
                    <6> QED BY <4>1, <4>3, <5>2
                <5>4. QED BY <5>1, <5>3
            <4>4. m = Len(k) + 1 \/ m \in 1..Len(k)
                BY <3>1
            <4>5. QED BY <4>2, <4>3, <4>4
        <3>6. Distinct(z)
            <4> SUFFICES ASSUME NEW j \in 1..Len(z), NEW m \in 1..Len(z), z[j] = z[m]
                         PROVE  j = m
                BY DEF Distinct
            <4>1. \A i \in 1..Len(z) : i = Len(k) + 1 \/ i \in 1..Len(k)
                BY <3>1
            <4>2. \A i \in 1..Len(k) : z[i] # x
                BY <3>1, <3>2, <3>3
            <4>3. CASE j = Len(k) + 1 \/ m = Len(k) + 1
                BY <3>1, <4>1, <4>2, <4>3
            <4>4. CASE j \in 1..Len(k) /\ m \in 1..Len(k)
                BY <2>1, <3>1, <4>4 DEF Distinct
            <4>5. QED BY <4>1, <4>3, <4>4
        <3>7. z = keep[n + 1]
            BY <2>4, <2>6 DEF z
        <3>8. ToSet(z) = From(n + 1) \ D
            BY <2>1, <2>3, <2>6, <3>4
        <3>9. QED BY <3>1, <3>5, <3>6, <3>7, <3>8
    <2>7. QED BY <2>5, <2>6
<1>5. Len(txs) \in Good
    <2> HIDE DEF Good
    <2> QED BY <1>1, <1>3, <1>4, NatSetInduction
<1>6. From(Len(txs)) = ToSet(txs)
    BY <1>1 DEF ToSet
<1>7. QED BY <1>1, <1>2, <1>5, <1>6

(* Moving a transaction whose height changed keeps the array sorted.       *)
LEMMA MovedProperties ==
    ASSUME NEW all, NEW old \in [Tx -> Nat], NEW txs \in Seq(Tx), NEW t \in Tx, NEW h \in Nat,
           Sorted(old, txs), Distinct(txs)
    PROVE  LET hgt == [old EXCEPT ![t] = h]
               z   == Moved(all, hgt, txs, t)
           IN  /\ z \in Seq(Tx)
               /\ ToSet(z) = ToSet(txs)
               /\ Sorted(hgt, z)
               /\ Distinct(z)
<1> DEFINE hgt == [old EXCEPT ![t] = h]
           w == Without(txs, {t})
<1>1. hgt \in [Tx -> Nat] /\ \A u \in Tx : u # t => hgt[u] = old[u]
    OBVIOUS
<1>2. CASE t \notin ToSet(txs)
    <2>1. \A i \in 1..Len(txs) : txs[i] \in Tx /\ txs[i] # t
        BY <1>2 DEF ToSet
    <2>2. Sorted(hgt, txs)
        BY <1>1, <2>1 DEF Sorted
    <2>3. QED BY <1>2, <2>2 DEF Moved
<1>3. CASE t \in ToSet(txs)
    <2>1. w \in Seq(Tx) /\ ToSet(w) = ToSet(txs) \ {t} /\ Sorted(old, w) /\ Distinct(w)
        BY WithoutProperties
    <2> HIDE DEF w
    <2>2. \A i \in 1..Len(w) : w[i] \in Tx /\ w[i] # t
        <3>1. \A i \in 1..Len(w) : w[i] \in ToSet(w)
            BY <2>1 DEF ToSet
        <3>2. QED BY <2>1, <3>1
    <2>3. Sorted(hgt, w)
        BY <1>1, <2>1, <2>2 DEF Sorted
    <2> HIDE DEF hgt
    <2>4. /\ InsertTx(all, hgt, w, t) \in Seq(Tx)
          /\ ToSet(InsertTx(all, hgt, w, t)) = ToSet(w) \cup {t}
          /\ Sorted(hgt, InsertTx(all, hgt, w, t))
          /\ Distinct(InsertTx(all, hgt, w, t))
        BY <1>1, <2>1, <2>3, InsertTxProperties
    <2>5. Moved(all, hgt, txs, t) = InsertTx(all, hgt, w, t)
        BY <1>3 DEF Moved, w
    <2>6. ToSet(w) \cup {t} = ToSet(txs)
        BY <1>3, <2>1
    <2>7. QED BY <2>4, <2>5, <2>6 DEF hgt
<1>4. QED BY <1>2, <1>3

(* Address chains only grow, within the bound.                             *)
LEMMA GrownGrows ==
    ASSUME NEW len \in 0..MaxChain, NEW used, NEW c, NEW gap
    PROVE  Grown(len, used, c, gap) \in len..MaxChain
<1> DEFINE S == {n \in len..MaxChain : Enough(n, used, c, gap) \/ n = MaxChain}
<1>1. MaxChain \in S /\ S \in SUBSET Nat
    BY WalletAssumption
<1>2. PICK n \in S : \A m \in S : n <= m
    BY <1>1, LeastNat
<1>3. \A m \in len..(n - 1) : ~Enough(m, used, c, gap)
    <2> SUFFICES ASSUME NEW m \in len..(n - 1), Enough(m, used, c, gap) PROVE FALSE
        OBVIOUS
    <2>1. n \in Nat /\ n <= MaxChain /\ m \in len..MaxChain /\ m < n
        BY <1>2, WalletAssumption
    <2>2. m \in S
        BY <2>1
    <2>3. QED BY <1>2, <2>1, <2>2
<1>4. n \in len..MaxChain /\ (Enough(n, used, c, gap) \/ n = MaxChain)
    BY <1>2
<1>5. QED BY <1>3, <1>4 DEF Grown

(* A transaction stays associated with the wallet when addresses are added *)
(* and when transactions that do not pay the wallet are forgotten.         *)
LEMMA StaysAssociated ==
    ASSUME NEW all, NEW less, NEW t \in Tx, ContainsTx(all, t),
           \A o \in Inputs[t] : o[1] \in all /\ IsWalletOutput(o, allAddrs) => o[1] \in less
    PROVE  ContainsTx(less, t)
BY DEF ContainsTx

(* It stays so in the next state too.                                      *)
LEMMA StaysAssociatedLater ==
    ASSUME chainLen \in [Chains -> Nat], chainLen' \in [Chains -> Nat],
           \A c \in Chains : chainLen[c] <= chainLen'[c],
           NEW t \in Tx, ContainsTx(allTx, t),
           \A o \in Inputs[t] : o[1] \in allTx /\ IsWalletOutput(o, allAddrs) => o[1] \in allTx'
    PROVE  ContainsTx(allTx, t)'
<1>1. allAddrs \subseteq allAddrs'
    <2> SUFFICES ASSUME NEW c \in Chains, NEW i \in 0..(chainLen[c] - 1)
                 PROVE  <<c, i>> \in allAddrs'
        BY DEF allAddrs, AddrsOf
    <2>1. i \in 0..(chainLen'[c] - 1)
        OBVIOUS
    <2>2. QED BY <2>1 DEF allAddrs, AddrsOf
<1>2. \A o : IsWalletOutput(o, allAddrs) => IsWalletOutput(o, allAddrs')
    BY <1>1 DEF IsWalletOutput
<1>3. QED BY <1>2 DEF ContainsTx

-----------------------------------------------------------------------------
(* BRWalletUpdateTransactions *)

(* What holds of the loop's variables once the hashes in done are handled: *)
(* the array has the same transactions, sorted, those told to the app at   *)
(* the new height h and the others as they were; and if the ledger is not  *)
(* to be recomputed, none of those told was flagged in it.                 *)
LoopState ==
    [all : SUBSET Tx, txs : Seq(Tx), hgt : [Tx -> Heights], stamp : [Tx -> {0, 1}],
     told : SUBSET Tx, stale : BOOLEAN]

LoopInv(u, h, done) ==
    /\ u \in LoopState
    /\ u.all \subseteq allTx
    /\ ToSet(u.txs) = ToSet(transactions)
    /\ ToSet(u.txs) \subseteq u.all
    /\ Sorted(u.hgt, u.txs)
    /\ Distinct(u.txs)
    /\ \A t \in ToSet(u.txs) : ContainsTx(u.all, t)
    /\ \A t \in ToSet(u.txs) : u.hgt[t] = IF t \in u.told THEN h ELSE height[t]
    /\ \A t \in ToSet(u.txs) \cap done : u.hgt[t] = h
    /\ \A t \in ToSet(u.txs) \cap u.told : t \in done
    /\ \A t \in Tx \ u.all : u.hgt[t] = TX_UNCONFIRMED
    /\ \A t \in u.told : Flagged(t) => u.stale

(* One turn of the loop of UpdateTransactions keeps that.                  *)
LEMMA LoopStep ==
    ASSUME NEW u, NEW h \in Heights, NEW done, NEW t \in Tx, NEW ts \in {0, 1},
           LoopInv(u, h, done)
    PROVE  LoopInv(Updated(u, t, h, ts), h, done \cup {t})
<1>1. /\ u \in LoopState /\ u.all \subseteq allTx /\ ToSet(u.txs) = ToSet(transactions)
      /\ ToSet(u.txs) \subseteq u.all /\ Sorted(u.hgt, u.txs) /\ Distinct(u.txs)
      /\ u.all \in SUBSET Tx /\ u.txs \in Seq(Tx) /\ u.hgt \in [Tx -> Heights]
      /\ u.stamp \in [Tx -> {0, 1}] /\ u.told \in SUBSET Tx /\ u.stale \in BOOLEAN
    BY DEF LoopInv, LoopState
<1>2. u.hgt \in [Tx -> Nat] /\ h \in Nat
    BY <1>1, HeightsOrdered
<1>3. CASE t \notin u.all \/ (u.hgt[t] = h /\ u.stamp[t] = ts)
    <2>1. Updated(u, t, h, ts) = u
        BY <1>3 DEF Updated
    <2>2. \A x \in ToSet(u.txs) \cap (done \cup {t}) : u.hgt[x] = h
        BY <1>1, <1>3 DEF LoopInv
    <2>3. \A x \in ToSet(u.txs) \cap u.told : x \in done \cup {t}
        BY DEF LoopInv
    <2>4. QED BY <2>1, <2>2, <2>3 DEF LoopInv
<1>4. CASE t \in u.all /\ ~(u.hgt[t] = h /\ u.stamp[t] = ts) /\ ContainsTx(u.all, t)
    <2> DEFINE hgt == [u.hgt EXCEPT ![t] = h]
               z == Moved(u.all, hgt, u.txs, t)
               w == [u EXCEPT !.hgt = hgt, !.stamp[t] = ts, !.txs = z,
                              !.told = @ \cup {t}, !.stale = @ \/ Flagged(t)]
    <2>1. Updated(u, t, h, ts) = w
        BY <1>4 DEF Updated
    <2>2. z \in Seq(Tx) /\ ToSet(z) = ToSet(u.txs) /\ Sorted(hgt, z) /\ Distinct(z)
        BY <1>1, <1>2, MovedProperties
    <2>3. hgt \in [Tx -> Heights] /\ hgt[t] = h /\ \A x \in Tx : x # t => hgt[x] = u.hgt[x]
        BY <1>1
    <2> HIDE DEF hgt, z
    <2>4. /\ w.all = u.all /\ w.txs = z /\ w.hgt = hgt /\ w.told = u.told \cup {t}
          /\ w.stale = (u.stale \/ Flagged(t))
          /\ w \in LoopState
        <3>1. Flagged(t) \in BOOLEAN
            BY DEF Flagged
        <3>2. QED BY <1>1, <2>2, <2>3, <3>1 DEF LoopState
    <2> HIDE DEF w
    <2>5. \A x \in ToSet(z) : x \in Tx
        BY <1>1, <2>2
    <2>6. \A x \in ToSet(z) : hgt[x] = IF x \in u.told \cup {t} THEN h ELSE height[x]
        BY <2>2, <2>3, <2>5 DEF LoopInv
    <2>7. \A x \in ToSet(z) \cap (done \cup {t}) : hgt[x] = h
        BY <2>2, <2>3, <2>5 DEF LoopInv
    <2>8. \A x \in ToSet(z) \cap (u.told \cup {t}) : x \in done \cup {t}
        BY <2>2 DEF LoopInv
    <2>9. \A x \in Tx \ u.all : hgt[x] = TX_UNCONFIRMED
        BY <1>4, <2>3 DEF LoopInv
    <2>10. \A x \in ToSet(z) : ContainsTx(u.all, x)
        BY <2>2 DEF LoopInv
    <2>11. \A x \in w.told : Flagged(x) => w.stale
        BY <2>4 DEF LoopInv
    <2>12. LoopInv(w, h, done \cup {t})
        BY <1>1, <2>2, <2>4, <2>6, <2>7, <2>8, <2>9, <2>10, <2>11 DEF LoopInv
    <2>13. QED BY <2>1, <2>12
<1>5. CASE t \in u.all /\ ~(u.hgt[t] = h /\ u.stamp[t] = ts) /\ ~ContainsTx(u.all, t)
    <2>1. t \notin ToSet(u.txs)
        BY <1>5 DEF LoopInv
    <2> DEFINE w == Updated(u, t, h, ts)
               less == IF h # TX_UNCONFIRMED THEN u.all \ {t} ELSE u.all
               hgt == [u.hgt EXCEPT ![t] = TX_UNCONFIRMED]
    <2>2. /\ w \in LoopState /\ w.all = less /\ w.txs = u.txs /\ w.told = u.told
          /\ w.hgt = hgt /\ w.stale = u.stale
        BY <1>1, <1>5, HeightsOrdered DEF Updated, LoopState
    <2> HIDE DEF w
    <2>3. \A x \in ToSet(u.txs) : x \in Tx /\ x # t /\ hgt[x] = u.hgt[x]
        BY <1>1, <2>1
    <2>4. Sorted(hgt, u.txs)
        <3>1. \A i \in 1..Len(u.txs) : u.txs[i] \in ToSet(u.txs)
            BY <1>1 DEF ToSet
        <3>2. \A i \in 1..Len(u.txs) : hgt[u.txs[i]] = u.hgt[u.txs[i]]
            BY <2>3, <3>1
        <3>3. QED BY <1>1, <3>2 DEF Sorted
    <2>5. ASSUME NEW x \in ToSet(u.txs) PROVE ContainsTx(less, x)
        <3>1. ContainsTx(u.all, x) /\ x \in Tx
            BY <1>1 DEF LoopInv
        <3>2. \A o \in Inputs[x] : o[1] \in u.all /\ IsWalletOutput(o, allAddrs) => o[1] \in less
            <4> SUFFICES ASSUME NEW o \in Inputs[x], o[1] = t, IsWalletOutput(o, allAddrs)
                         PROVE  FALSE
                OBVIOUS
            <4>1. o \in OutPoints(t)
                <5>1. o = <<o[1], o[2]>>
                    BY <3>1, TxAssumption
                <5>2. QED BY <5>1 DEF OutPoints, IsWalletOutput, Exists
            <4>2. QED BY <1>5, <4>1 DEF ContainsTx
        <3>3. QED BY <3>1, <3>2, StaysAssociated
    <2>6. \A x \in Tx \ less : hgt[x] = TX_UNCONFIRMED
        BY <1>1 DEF LoopInv
    <2>7. \A x \in ToSet(u.txs) : hgt[x] = IF x \in u.told THEN h ELSE height[x]
        BY <2>3 DEF LoopInv
    <2>8. \A x \in ToSet(u.txs) \cap (done \cup {t}) : hgt[x] = h
        BY <2>1, <2>3 DEF LoopInv
    <2>9. \A x \in ToSet(u.txs) \cap u.told : x \in done \cup {t}
        BY DEF LoopInv
    <2>10. less \subseteq allTx /\ ToSet(u.txs) \subseteq less
        BY <1>1, <2>1
    <2> HIDE DEF less, hgt
    <2>11. LoopInv(w, h, done \cup {t})
        BY <1>1, <2>2, <2>4, <2>5, <2>6, <2>7, <2>8, <2>9, <2>10 DEF LoopInv
    <2>12. QED BY <2>11 DEF w
<1>6. QED BY <1>3, <1>4, <1>5

(* The whole call, from the invariant: some state of the loop with every   *)
(* hash handled is the next state of the wallet.                           *)
LEMMA UpdateTransactionsLoop ==
    ASSUME WalletInv, NEW b \in Seq(Tx), NEW h \in Heights, NEW ts \in {0, 1},
           UpdateTransactions(b, h, ts)
    PROVE  \E u : /\ LoopInv(u, h, ToSet(b))
                  /\ allTx' = u.all /\ transactions' = u.txs
                  /\ height' = u.hgt /\ timestamp' = u.stamp
                  /\ saved' = Told(u.told, h)
                  /\ ledger' = IF u.stale THEN UpdateBalance(u.txs, u.hgt, blockHeight')
                               ELSE ledger
<1> DEFINE first == [all |-> allTx, txs |-> transactions, hgt |-> height, stamp |-> timestamp,
                     told |-> {}, stale |-> FALSE]
           Step(r, i) == IF i = 0
                         THEN [all |-> allTx, txs |-> transactions, hgt |-> height,
                               stamp |-> timestamp, told |-> {}, stale |-> FALSE]
                         ELSE Updated(r[i - 1], b[i], h, ts)
           run[i \in 0..Len(b)] ==
              IF i = 0
              THEN [all |-> allTx, txs |-> transactions, hgt |-> height, stamp |-> timestamp,
                    told |-> {}, stale |-> FALSE]
              ELSE Updated(run[i - 1], b[i], h, ts)
           Defined == {n \in Nat : \E r : r = [i \in 0..n |-> Step(r, i)]}
           From(i) == {b[j] : j \in 1..i}
           Good == {n \in Nat : n <= Len(b) => LoopInv(run[n], h, From(n))}
<1>1. Len(b) \in Nat /\ \A j \in 1..Len(b) : b[j] \in Tx
    OBVIOUS
<1>2. run = [i \in 0..Len(b) |-> Step(run, i)]
    <2>1. 0 \in Defined
        <3>1. [i \in 0..0 |-> first] = [i \in 0..0 |-> Step([j \in 0..0 |-> first], i)]
            OBVIOUS
        <3> HIDE DEF first, Step
        <3>2. QED BY <3>1
    <2>2. ASSUME NEW n \in Nat, n \in Defined PROVE n + 1 \in Defined
        <3>1. PICK k : k = [i \in 0..n |-> Step(k, i)]
            BY <2>2
        <3> DEFINE g == [i \in 0..(n + 1) |-> IF i = n + 1 THEN Step(k, n + 1) ELSE k[i]]
        <3>2. \A i \in 0..(n + 1) : g[i] = Step(g, i)
            <4> SUFFICES ASSUME NEW i \in 0..(n + 1) PROVE g[i] = Step(g, i)
                OBVIOUS
            <4>1. CASE i = n + 1
                <5>1. g[n] = k[n] /\ i # 0 /\ i - 1 = n
                    BY <4>1
                <5>2. QED BY <4>1, <5>1
            <4>2. CASE i # n + 1 /\ i # 0
                <5>1. i \in 0..n /\ i - 1 \in 0..n /\ g[i] = k[i] /\ g[i - 1] = k[i - 1]
                    BY <4>2
                <5>2. k[i] = Step(k, i)
                    BY <3>1, <5>1
                <5>3. QED BY <4>2, <5>1, <5>2
            <4>3. CASE i = 0
                <5>1. 0 \in 0..n /\ g[0] = k[0]
                    OBVIOUS
                <5>2. k[0] = Step(k, 0)
                    BY <3>1, <5>1
                <5>3. QED BY <4>3, <5>1, <5>2
            <4>4. QED BY <4>1, <4>2, <4>3
        <3>3. g = [i \in 0..(n + 1) |-> Step(g, i)]
            BY <3>2
        <3> HIDE DEF g, Step
        <3>4. QED BY <3>3
    <2>3. Len(b) \in Defined
        <3> HIDE DEF Defined
        <3> QED BY <1>1, <2>1, <2>2, NatSetInduction
    <2>4. QED BY <2>3
<1> HIDE DEF run
<1>3. run[0] = first
    BY <1>1, <1>2
<1>4. ASSUME NEW i \in 1..Len(b)
      PROVE  run[i] = Updated(run[i - 1], b[i], h, ts)
    <2>1. i \in 0..Len(b) /\ i # 0
        BY <1>1
    <2>2. run[i] = Step(run, i)
        <3> HIDE DEF Step
        <3> QED BY <1>2, <2>1
    <2>3. QED BY <2>1, <2>2
<1>5. 0 \in Good
    <2>1. /\ allTx \in SUBSET Tx /\ transactions \in Seq(Tx) /\ height \in [Tx -> Heights]
          /\ timestamp \in [Tx -> {0, 1}]
        BY DEF WalletInv, TypeOK
    <2>2. first \in LoopState
        BY <2>1 DEF LoopState
    <2>3. From(0) = {}
        OBVIOUS
    <2>4. Sorted(height, transactions) /\ Distinct(transactions)
        BY DEF WalletInv, SortedByHeight, NoDangling, Sorted, Distinct
    <2>5. ToSet(transactions) \subseteq allTx
        BY DEF WalletInv, NoDangling
    <2>6. LoopInv(first, h, {})
        BY <2>2, <2>4, <2>5 DEF LoopInv, WalletInv, HeldAreAssociated, UnknownAreNew
    <2>7. QED BY <1>3, <2>3, <2>6
<1>6. ASSUME NEW n \in Nat, n \in Good PROVE n + 1 \in Good
    <2> SUFFICES ASSUME n + 1 <= Len(b) PROVE LoopInv(run[n + 1], h, From(n + 1))
        OBVIOUS
    <2>1. LoopInv(run[n], h, From(n))
        BY <1>1, <1>6
    <2>2. n + 1 \in 1..Len(b) /\ (n + 1) - 1 = n /\ b[n + 1] \in Tx
        BY <1>1
    <2>3. From(n + 1) = From(n) \cup {b[n + 1]}
        <3>1. 1..(n + 1) = 1..n \cup {n + 1}
            OBVIOUS
        <3>2. QED BY <3>1
    <2>4. run[n + 1] = Updated(run[n], b[n + 1], h, ts)
        BY <1>4, <2>2
    <2> HIDE DEF From
    <2>5. LoopInv(Updated(run[n], b[n + 1], h, ts), h, From(n) \cup {b[n + 1]})
        BY <2>1, <2>2, LoopStep
    <2>6. QED BY <2>3, <2>4, <2>5
<1>7. LoopInv(run[Len(b)], h, ToSet(b))
    <2>1. From(Len(b)) = ToSet(b)
        BY <1>1 DEF ToSet
    <2>2. Len(b) \in Good
        <3> HIDE DEF Good
        <3> QED BY <1>1, <1>5, <1>6, NatSetInduction
    <2> HIDE DEF From
    <2>3. QED BY <1>1, <2>1, <2>2
<1>8. /\ allTx' = run[Len(b)].all /\ transactions' = run[Len(b)].txs
      /\ height' = run[Len(b)].hgt /\ timestamp' = run[Len(b)].stamp
      /\ saved' = Told(run[Len(b)].told, h)
      /\ ledger' = IF run[Len(b)].stale
                   THEN UpdateBalance(run[Len(b)].txs, run[Len(b)].hgt, blockHeight')
                   ELSE ledger
    BY DEF UpdateTransactions, run
<1>9. QED BY <1>7, <1>8

(* What follows for the invariant, except for the heights of the chain,    *)
(* which change with the caller.                                           *)
LEMMA UpdateTransactionsInv ==
    ASSUME WalletInv, NEW b \in Seq(Tx), NEW h \in Heights, NEW ts \in {0, 1},
           UpdateTransactions(b, h, ts), mined' \in [Tx -> Heights], tip' \in 0..MaxTip
    PROVE  /\ TypeOK' /\ SortedByHeight' /\ NoDangling' /\ SavedMatches'
           /\ HeldAreAssociated' /\ UnknownAreNew'
           /\ ToSet(transactions') = ToSet(transactions)
           /\ \A t \in ToSet(transactions) : height'[t] = IF t \in ToSet(b) THEN h ELSE height[t]
<1>1. PICK u : /\ LoopInv(u, h, ToSet(b))
               /\ allTx' = u.all /\ transactions' = u.txs
               /\ height' = u.hgt /\ timestamp' = u.stamp
               /\ saved' = Told(u.told, h)
    BY UpdateTransactionsLoop
<1>2. u \in LoopState /\ ToSet(u.txs) = ToSet(transactions) /\ ToSet(u.txs) \subseteq u.all
    BY <1>1 DEF LoopInv
<1>3. /\ u.all \in SUBSET Tx /\ u.txs \in Seq(Tx) /\ u.hgt \in [Tx -> Heights]
      /\ u.stamp \in [Tx -> {0, 1}] /\ u.told \in SUBSET Tx
    BY <1>2 DEF LoopState
<1>4. ToSet(u.txs) \subseteq Tx
    BY <1>2, <1>3
<1>5. chainLen' = chainLen /\ blockHeight' \in Heights /\ chainLen \in [Chains -> 0..MaxChain]
    BY DEF UpdateTransactions, WalletInv, TypeOK
<1>6. TypeOK'
    <2>1. saved' \in [Tx -> Heights \cup {NotSaved}]
        BY <1>1 DEF Told, WalletInv, TypeOK
    <2>2. QED BY <1>1, <1>3, <1>5, <2>1 DEF TypeOK
<1>7. SortedByHeight' /\ NoDangling'
    <2>1. Sorted(u.hgt, u.txs) /\ Distinct(u.txs) /\ ToSet(u.txs) \subseteq u.all
        BY <1>1 DEF LoopInv
    <2>2. QED BY <1>1, <2>1 DEF SortedByHeight, NoDangling, Sorted, Distinct
<1>8. SavedMatches'
    <2> SUFFICES ASSUME NEW t \in Tx
                 PROVE  saved'[t] = IF t \in ToSet(u.txs) THEN u.hgt[t] ELSE NotSaved
        BY <1>1 DEF SavedMatches
    <2>1. saved[t] = IF t \in ToSet(transactions) THEN height[t] ELSE NotSaved
        BY DEF WalletInv, SavedMatches
    <2>2. saved'[t] = IF t \in u.told /\ saved[t] # NotSaved THEN h ELSE saved[t]
        BY <1>1 DEF Told
    <2>3. height[t] # NotSaved
        BY HeightsOrdered DEF WalletInv, TypeOK
    <2>4. CASE t \in ToSet(u.txs)
        BY <1>1, <1>2, <2>1, <2>2, <2>3, <2>4 DEF LoopInv
    <2>5. CASE t \notin ToSet(u.txs)
        BY <1>2, <2>1, <2>2, <2>5
    <2>6. QED BY <2>4, <2>5
<1>9. HeldAreAssociated'
    <2> SUFFICES ASSUME NEW t \in ToSet(u.txs) PROVE ContainsTx(u.all, t)'
        BY <1>1 DEF HeldAreAssociated
    <2>1. ContainsTx(u.all, t)
        BY <1>1 DEF LoopInv
    <2>2. QED BY <1>5, <2>1 DEF ContainsTx, IsWalletOutput, allAddrs
<1>10. UnknownAreNew'
    BY <1>1 DEF UnknownAreNew, LoopInv
<1>11. \A t \in ToSet(transactions) : height'[t] = IF t \in ToSet(b) THEN h ELSE height[t]
    BY <1>1, <1>2 DEF LoopInv
<1>12. QED BY <1>1, <1>2, <1>6, <1>7, <1>8, <1>9, <1>10, <1>11

-----------------------------------------------------------------------------
(* Consequences of the invariant that several actions need.                *)
LEMMA InvFacts ==
    ASSUME WalletInv
    PROVE  /\ allTx \in SUBSET Tx /\ transactions \in Seq(Tx)
           /\ ToSet(transactions) \subseteq allTx
           /\ height \in [Tx -> Heights] /\ height \in [Tx -> Nat]
           /\ Sorted(height, transactions) /\ Distinct(transactions)
           /\ \A t \in Tx : saved[t] = IF t \in ToSet(transactions) THEN height[t] ELSE NotSaved
           /\ \A i \in 1..Len(transactions) : transactions[i] \in ToSet(transactions)
           /\ \A t \in ToSet(transactions) :
                 \E i \in 1..Len(transactions) : t = transactions[i]
           /\ chainLen \in [Chains -> Nat]
<1>1. /\ allTx \in SUBSET Tx /\ transactions \in Seq(Tx) /\ height \in [Tx -> Heights]
      /\ chainLen \in [Chains -> 0..MaxChain]
    BY DEF WalletInv, TypeOK
<1>2. height \in [Tx -> Nat]
    BY <1>1, HeightsOrdered
<1>3. Sorted(height, transactions) /\ Distinct(transactions) /\ ToSet(transactions) \subseteq allTx
    BY DEF WalletInv, SortedByHeight, NoDangling, Sorted, Distinct
<1>4. DOMAIN transactions = 1..Len(transactions)
    BY <1>1
<1>5. /\ \A i \in 1..Len(transactions) : transactions[i] \in ToSet(transactions)
      /\ \A t \in ToSet(transactions) : \E i \in 1..Len(transactions) : t = transactions[i]
    BY <1>4 DEF ToSet
<1>6. chainLen \in [Chains -> Nat]
    BY <1>1, WalletAssumption
<1>7. \A t \in Tx : saved[t] = IF t \in ToSet(transactions) THEN height[t] ELSE NotSaved
    BY DEF WalletInv, SavedMatches
<1>8. QED BY <1>1, <1>2, <1>3, <1>5, <1>6, <1>7

(* The array is sorted and without duplicates, in the form the properties  *)
(* state it.                                                               *)
LEMMA ArrayProperties ==
    ASSUME Sorted(height', transactions'), Distinct(transactions'),
           ToSet(transactions') \subseteq allTx'
    PROVE  SortedByHeight' /\ NoDangling'
BY DEF SortedByHeight, NoDangling, Sorted, Distinct

(* A relayed transaction, of the wallet or not, keeps the invariant.       *)
LEMMA RelayTxInv == ASSUME WalletInv, NEW t \in Tx, RelayTx(t) PROVE WalletInv'
<1>1. /\ t \notin allTx /\ allTx' = allTx \cup {t} /\ height' = height /\ mined' = mined
      /\ tip' = tip /\ timestamp' = timestamp /\ blockHeight' = blockHeight
      /\ mined[t] = TX_UNCONFIRMED /\ height[t] = TX_UNCONFIRMED
    BY DEF RelayTx, RegisterTransaction, WalletInv, UnknownAreNew
<1>2. UnknownAreNew' /\ ChainOrdered'
    BY <1>1 DEF WalletInv, UnknownAreNew, ChainOrdered, OnBestChain
<1>3. ASSUME NEW u \in Tx, ContainsTx(allTx, u), chainLen' \in [Chains -> Nat],
             \A c \in Chains : chainLen[c] <= chainLen'[c]
      PROVE  ContainsTx(allTx, u)'
    BY <1>1, <1>3, InvFacts, StaysAssociatedLater
<1>4. t \notin ToSet(transactions)
    BY <1>1, InvFacts
<1>5. CASE ContainsTx(allTx, t)
    <2>1. /\ transactions' = InsertTx(allTx', height, transactions, t)
          /\ chainLen' = [c \in Chains |-> Grown(chainLen[c], ledger'.usedAddrs, c, GapLimit[c])]
          /\ saved' = [saved EXCEPT ![t] = height[t]]
        BY <1>5 DEF RelayTx, RegisterTransaction
    <2>2. /\ transactions' \in Seq(Tx) /\ ToSet(transactions') = ToSet(transactions) \cup {t}
          /\ Sorted(height, transactions') /\ Distinct(transactions')
        <3>1. /\ transactions \in Seq(Tx) /\ height \in [Tx -> Nat]
              /\ Sorted(height, transactions) /\ Distinct(transactions)
            BY InvFacts
        <3> DEFINE z == InsertTx(allTx', height, transactions, t)
        <3>2. /\ z \in Seq(Tx) /\ ToSet(z) = ToSet(transactions) \cup {t}
              /\ Sorted(height, z) /\ Distinct(z)
            BY <1>4, <3>1, InsertTxProperties
        <3> HIDE DEF z
        <3>3. transactions' = z
            BY <2>1 DEF z
        <3>4. QED BY <3>2, <3>3
    <2>3. \A c \in Chains : chainLen[c] \in 0..MaxChain
        BY DEF WalletInv, TypeOK
    <2>4. \A c \in Chains : chainLen'[c] \in chainLen[c]..MaxChain
        BY <2>1, <2>3, GrownGrows
    <2>5. /\ chainLen' \in [Chains -> 0..MaxChain] /\ chainLen' \in [Chains -> Nat]
          /\ \A c \in Chains : chainLen[c] <= chainLen'[c]
        <3>1. DOMAIN chainLen' = Chains /\ chainLen' = [c \in Chains |-> chainLen'[c]]
            BY <2>1
        <3>2. \A c \in Chains : chainLen'[c] \in 0..MaxChain /\ chainLen'[c] \in Nat
            BY <2>3, <2>4, WalletAssumption
        <3>3. \A c \in Chains : chainLen[c] <= chainLen'[c]
            BY <2>3, <2>4, WalletAssumption
        <3>4. QED BY <3>1, <3>2, <3>3
    <2>6. saved' \in [Tx -> Heights \cup {NotSaved}]
        BY <2>1 DEF WalletInv, TypeOK
    <2>7. TypeOK'
        BY <1>1, <2>2, <2>5, <2>6 DEF WalletInv, TypeOK
    <2>8. SortedByHeight' /\ NoDangling'
        BY <1>1, <2>2, InvFacts, ArrayProperties
    <2>9. SavedMatches'
        BY <1>1, <1>4, <2>1, <2>2, InvFacts DEF SavedMatches, WalletInv, TypeOK
    <2>10. HeightsFollowChain'
        BY <1>1, <2>2 DEF HeightsFollowChain, WalletInv
    <2>11. HeldAreAssociated'
        <3>1. \A u \in ToSet(transactions) \cup {t} : u \in Tx /\ ContainsTx(allTx, u)
            BY <1>5, InvFacts DEF WalletInv, HeldAreAssociated
        <3>2. QED BY <1>3, <2>2, <2>5, <3>1 DEF HeldAreAssociated
    <2>12. QED BY <1>2, <2>7, <2>8, <2>9, <2>10, <2>11 DEF WalletInv
<1>6. CASE ~ContainsTx(allTx, t)
    <2>1. UNCHANGED <<transactions, ledger, chainLen, saved>>
        BY <1>6 DEF RelayTx, RegisterTransaction
    <2>2. TypeOK'
        BY <1>1, <2>1 DEF WalletInv, TypeOK
    <2>3. SortedByHeight' /\ NoDangling' /\ SavedMatches' /\ HeightsFollowChain'
        BY <1>1, <2>1 DEF WalletInv, SortedByHeight, NoDangling, SavedMatches, HeightsFollowChain
    <2>4. HeldAreAssociated'
        <3>1. \A u \in ToSet(transactions) : u \in Tx /\ ContainsTx(allTx, u)
            BY InvFacts DEF WalletInv, HeldAreAssociated
        <3>2. chainLen' \in [Chains -> Nat] /\ \A c \in Chains : chainLen[c] <= chainLen'[c]
            BY <2>1, InvFacts
        <3>3. QED BY <1>3, <2>1, <3>1, <3>2 DEF HeldAreAssociated
    <2>5. QED BY <1>2, <2>2, <2>3, <2>4 DEF WalletInv
<1>7. QED BY <1>5, <1>6

(* So does marking a transaction verified or unverified.                   *)
LEMMA VerifyTxInv ==
    ASSUME WalletInv, NEW t \in Tx, NEW ts \in {0, 1}, VerifyTx(t, ts) PROVE WalletInv'
<1>1. /\ t \in allTx /\ height[t] = TX_UNCONFIRMED
      /\ UpdateTransactions(<<t>>, TX_UNCONFIRMED, ts) /\ mined' = mined /\ tip' = tip
    BY DEF VerifyTx
<1>2. mined' \in [Tx -> Heights] /\ tip' \in 0..MaxTip
    BY <1>1 DEF WalletInv, TypeOK
<1>3. /\ <<t>> \in Seq(Tx) /\ ToSet(<<t>>) = {t} /\ TX_UNCONFIRMED \in Heights
    BY HeightsOrdered DEF ToSet
<1>4. /\ TypeOK' /\ SortedByHeight' /\ NoDangling' /\ SavedMatches'
      /\ HeldAreAssociated' /\ UnknownAreNew'
      /\ ToSet(transactions') = ToSet(transactions)
      /\ \A u \in ToSet(transactions) :
            height'[u] = IF u \in ToSet(<<t>>) THEN TX_UNCONFIRMED ELSE height[u]
    BY <1>1, <1>2, <1>3, UpdateTransactionsInv
<1>5. HeightsFollowChain'
    BY <1>1, <1>3, <1>4 DEF HeightsFollowChain, WalletInv
<1>6. ChainOrdered'
    BY <1>1 DEF ChainOrdered, OnBestChain, WalletInv
<1>7. QED BY <1>4, <1>5, <1>6 DEF WalletInv

(* What a block adds to the chain.                                         *)
LEMMA BlockFacts ==
    ASSUME NEW b \in Blocks
    PROVE  /\ b \in Seq(Tx) /\ ToSet(b) \cap OnBestChain = {}
           /\ \A t \in ToSet(b) : Parents(t) \cap Tx \subseteq OnBestChain \cup ToSet(b)
<1>1. PICK n \in 0..MaxBlockTx :
        /\ b \in [1..n -> Tx \ OnBestChain]
        /\ \A i \in 1..n : Parents(b[i]) \subseteq
               (OnBestChain \cup {b[j] : j \in 1..(i - 1)}) \cup {Foreign}
    BY DEF Blocks
<1>2. n \in Nat /\ DOMAIN b = 1..n
    BY <1>1, WalletAssumption
<1>3. b \in Seq(Tx)
    BY <1>1, <1>2
<1>4. ToSet(b) \cap OnBestChain = {}
    BY <1>1, <1>2 DEF ToSet
<1>5. ASSUME NEW i \in 1..n PROVE Parents(b[i]) \cap Tx \subseteq OnBestChain \cup ToSet(b)
    <2>1. {b[j] : j \in 1..(i - 1)} \subseteq ToSet(b)
        <3>1. 1..(i - 1) \subseteq DOMAIN b
            BY <1>2
        <3>2. QED BY <3>1 DEF ToSet
    <2>2. QED BY <1>1, <2>1, TxAssumption
<1>6. QED BY <1>2, <1>3, <1>4, <1>5 DEF ToSet

(* So does a block, whatever it confirms.                                  *)
LEMMA ConnectBlockInv == ASSUME WalletInv, NEW b \in Blocks, ConnectBlock(b) PROVE WalletInv'
<1>1. /\ tip < MaxTip /\ tip' = tip + 1
      /\ mined' = [t \in Tx |-> IF t \in ToSet(b) THEN tip + 1 ELSE mined[t]]
    BY DEF ConnectBlock
<1>2. tip \in 0..MaxTip /\ mined \in [Tx -> Heights]
    BY DEF WalletInv, TypeOK
<1>3. /\ tip + 1 \in 0..MaxTip /\ tip + 1 \in Heights /\ tip + 1 # TX_UNCONFIRMED
      /\ tip \in Nat /\ TX_UNCONFIRMED \in Nat
    <2>1. tip + 1 \in 0..MaxTip
        BY <1>1, <1>2, WalletAssumption
    <2>2. QED BY <1>2, <2>1, HeightsOrdered, TxAssumption, WalletAssumption
<1>4. mined' \in [Tx -> Heights] /\ tip' \in 0..MaxTip
    BY <1>1, <1>2, <1>3
<1>5. /\ b \in Seq(Tx) /\ ToSet(b) \cap OnBestChain = {}
      /\ \A t \in ToSet(b) : Parents(t) \cap Tx \subseteq OnBestChain \cup ToSet(b)
    BY BlockFacts
<1>6. ChainOrdered'
    <2> SUFFICES ASSUME NEW t \in Tx, mined'[t] # TX_UNCONFIRMED
                 PROVE  mined'[t] <= tip + 1 /\ \A p \in Parents(t) \cap Tx : mined'[p] <= mined'[t]
        BY <1>1 DEF ChainOrdered, OnBestChain
    <2>1. \A u \in OnBestChain : u \in Tx /\ mined[u] \in Nat /\ mined[u] <= tip /\ mined'[u] = mined[u]
        <3>1. \A u \in OnBestChain : u \in Tx /\ u \notin ToSet(b) /\ mined[u] <= tip
            BY <1>5 DEF WalletInv, ChainOrdered, OnBestChain
        <3>2. QED BY <1>1, <1>2, <3>1, HeightsOrdered
    <2>2. CASE t \in ToSet(b)
        <3>1. mined'[t] = tip + 1
            BY <1>1, <2>2
        <3>2. \A p \in ToSet(b) : p \in Tx => mined'[p] = tip + 1
            BY <1>1
        <3>3. QED BY <1>3, <1>5, <2>1, <2>2, <3>1, <3>2
    <2>3. CASE t \notin ToSet(b)
        <3>1. mined'[t] = mined[t] /\ t \in OnBestChain
            BY <1>1, <2>3 DEF OnBestChain
        <3>2. \A p \in Parents(t) \cap Tx : mined[p] <= mined[t] /\ p \in OnBestChain
            <4> SUFFICES ASSUME NEW p \in Parents(t) \cap Tx
                         PROVE  mined[p] <= mined[t] /\ mined[p] # TX_UNCONFIRMED
                BY DEF OnBestChain
            <4>1. mined[p] <= mined[t]
                BY <3>1 DEF WalletInv, ChainOrdered
            <4>2. mined[t] <= tip /\ mined[t] \in Nat /\ mined[p] \in Nat /\ tip < TX_UNCONFIRMED
                BY <1>2, <2>1, <3>1, HeightsOrdered
            <4>3. QED BY <1>3, <4>1, <4>2
        <3>3. QED BY <1>3, <2>1, <3>1, <3>2
    <2>4. QED BY <2>2, <2>3
<1>7. CASE b = <<>>
    <2>1. UNCHANGED walletVars /\ ToSet(b) = {}
        BY <1>7 DEF ConnectBlock, ToSet
    <2>2. mined' = mined
        BY <1>1, <1>2, <2>1
    <2>3. TypeOK'
        BY <1>4, <2>1 DEF WalletInv, TypeOK, walletVars
    <2>4. SortedByHeight' /\ NoDangling' /\ SavedMatches' /\ HeightsFollowChain'
        BY <2>1, <2>2 DEF WalletInv, SortedByHeight, NoDangling, SavedMatches,
                          HeightsFollowChain, walletVars
    <2>5. HeldAreAssociated' /\ UnknownAreNew'
        BY <2>1 DEF WalletInv, HeldAreAssociated, UnknownAreNew, walletVars, ContainsTx,
                    allAddrs, IsWalletOutput
    <2>6. QED BY <1>6, <2>3, <2>4, <2>5 DEF WalletInv
<1>8. CASE b # <<>>
    <2>1. UpdateTransactions(b, tip + 1, 1)
        BY <1>8 DEF ConnectBlock
    <2>2. /\ TypeOK' /\ SortedByHeight' /\ NoDangling' /\ SavedMatches'
          /\ HeldAreAssociated' /\ UnknownAreNew'
          /\ ToSet(transactions') = ToSet(transactions)
          /\ \A u \in ToSet(transactions) : height'[u] = IF u \in ToSet(b) THEN tip + 1 ELSE height[u]
        BY <1>3, <1>4, <1>5, <2>1, UpdateTransactionsInv
    <2>3. HeightsFollowChain'
        <3>1. \A u \in ToSet(transactions) : u \in Tx /\ height[u] = mined[u]
            BY InvFacts DEF WalletInv, HeightsFollowChain
        <3>2. QED BY <1>1, <2>2, <3>1 DEF HeightsFollowChain
    <2>4. QED BY <1>6, <2>2, <2>3 DEF WalletInv
<1>9. QED BY <1>7, <1>8

(* What RemoveTransaction takes out when t is unconfirmed: t and only      *)
(* unconfirmed transactions of the wallet, among them every transaction    *)
(* of the wallet that spends one of them.                                  *)
LEMMA RemovedFacts ==
    ASSUME WalletInv, NEW t \in ToSet(transactions), height[t] = TX_UNCONFIRMED
    PROVE  /\ Removed(t) \subseteq ToSet(transactions)
           /\ \A u \in Removed(t) : height[u] = TX_UNCONFIRMED
           /\ \A u \in ToSet(transactions) \ Removed(t) : Parents(u) \cap Removed(t) = {}
<1> DEFINE unconfirmed == {u \in ToSet(transactions) : height[u] = TX_UNCONFIRMED}
           deps == [d \in allTx |-> Dependents(d)]
           Closed(D) == t \in D /\ \A d \in D : deps[d] \subseteq D
<1>1. /\ transactions \in Seq(Tx) /\ ToSet(transactions) \subseteq allTx /\ allTx \subseteq Tx
      /\ Sorted(height, transactions) /\ height \in [Tx -> Heights] /\ height \in [Tx -> Nat]
      /\ \A i \in 1..Len(transactions) : transactions[i] \in ToSet(transactions)
      /\ \A u \in ToSet(transactions) : \E i \in 1..Len(transactions) : u = transactions[i]
    BY InvFacts
<1>2. Len(transactions) \in Nat /\ TX_UNCONFIRMED \in Nat
    BY <1>1, TxAssumption
<1>3. Removed(t) = {u \in allTx : \A D \in SUBSET allTx : Closed(D) => u \in D}
    BY DEF Removed
<1>4. ASSUME NEW d \in allTx PROVE Dependents(d) \subseteq ToSet(transactions)
    BY <1>1 DEF Dependents
<1>5. ASSUME NEW d \in unconfirmed PROVE Dependents(d) \subseteq unconfirmed
    <2> SUFFICES ASSUME NEW j \in 1..Len(transactions), height[transactions[j]] >= height[d]
                 PROVE  height[transactions[j]] = TX_UNCONFIRMED
        <3>1. \A u \in Dependents(d) :
                 \E j \in 1..Len(transactions) :
                    u = transactions[j] /\ height[transactions[j]] >= height[d]
            BY <1>2 DEF Dependents
        <3>2. QED BY <1>1, <3>1
    <2>1. transactions[j] \in Tx /\ height[transactions[j]] \in Heights
        BY <1>1
    <2>2. height[transactions[j]] <= TX_UNCONFIRMED /\ height[transactions[j]] \in Nat
        BY <2>1, HeightsOrdered
    <2>3. QED BY <1>2, <2>2
<1>6. Closed(unconfirmed) /\ unconfirmed \in SUBSET allTx
    <2>1. \A d \in unconfirmed : d \in allTx /\ deps[d] \subseteq unconfirmed
        BY <1>1, <1>5
    <2>2. QED BY <1>1, <2>1
<1>7. Removed(t) \subseteq unconfirmed
    <2> HIDE DEF unconfirmed, Closed
    <2> QED BY <1>3, <1>6
<1>8. ASSUME NEW d \in Removed(t) PROVE Dependents(d) \subseteq Removed(t)
    <2> SUFFICES ASSUME NEW u \in Dependents(d), NEW D \in SUBSET allTx, Closed(D)
                 PROVE  u \in D
        BY <1>1, <1>3, <1>4
    <2>1. d \in D /\ d \in allTx
        BY <1>3
    <2>2. QED BY <2>1
<1>9. ASSUME NEW u \in ToSet(transactions), NEW d \in Removed(t), d \in Parents(u)
      PROVE  u \in Removed(t)
    <2>1. d \in ToSet(transactions) /\ height[d] = TX_UNCONFIRMED /\ d \in Tx /\ u \in Tx
        BY <1>1, <1>7
    <2>2. height[u] = mined[u] /\ mined[d] = TX_UNCONFIRMED
        BY <2>1 DEF WalletInv, HeightsFollowChain
    <2>3. height[u] = TX_UNCONFIRMED
        <3>1. SUFFICES ASSUME mined[u] # TX_UNCONFIRMED PROVE FALSE
            BY <2>2
        <3>2. mined[u] <= tip /\ mined[d] <= mined[u]
            BY <1>9, <2>1, <3>1 DEF WalletInv, ChainOrdered, OnBestChain
        <3>3. tip \in 0..MaxTip /\ mined[u] \in Nat
            BY <2>1, HeightsOrdered DEF WalletInv, TypeOK
        <3>4. tip < TX_UNCONFIRMED /\ tip \in Nat
            BY <3>3, HeightsOrdered
        <3>5. QED BY <1>2, <2>2, <3>2, <3>3, <3>4
    <2>4. PICK j \in 1..Len(transactions) : u = transactions[j]
        BY <1>1
    <2>5. ASSUME NEW k \in j..Len(transactions) PROVE height[transactions[k]] >= height[d]
        <3>1. k \in 1..Len(transactions) /\ j \in Nat /\ k \in Nat
            BY <1>2, <2>4
        <3>2. CASE k = j
            BY <1>2, <2>1, <2>3, <2>4, <3>2
        <3>3. CASE k # j
            <4>1. j < k
                BY <3>1, <3>3
            <4>2. height[transactions[j]] <= height[transactions[k]]
                BY <1>1, <2>4, <3>1, <4>1 DEF Sorted
            <4>3. QED BY <2>1, <2>3, <2>4, <4>2
        <3>4. QED BY <3>2, <3>3
    <2>6. u \in Dependents(d)
        BY <1>9, <2>4, <2>5 DEF Dependents
    <2>7. QED BY <1>8, <2>6
<1>10. QED BY <1>7, <1>9

(* So does dropping a transaction with everything that spends it.          *)
LEMMA DropTxInv == ASSUME WalletInv, NEW t \in Tx, DropTx(t) PROVE WalletInv'
<1> DEFINE gone == Removed(t)
<1>1. /\ t \in ToSet(transactions) /\ height[t] = TX_UNCONFIRMED
      /\ mined' = mined /\ tip' = tip /\ blockHeight' = blockHeight /\ chainLen' = chainLen
      /\ allTx' = allTx \ gone
      /\ transactions' = Without(transactions, gone)
      /\ height' = [u \in Tx |-> IF u \in gone THEN TX_UNCONFIRMED ELSE height[u]]
      /\ timestamp' = [u \in Tx |-> IF u \in gone THEN 0 ELSE timestamp[u]]
      /\ saved' = [u \in Tx |-> IF u \in gone THEN NotSaved ELSE saved[u]]
    BY DEF DropTx, RemoveTransaction
<1>2. /\ gone \subseteq ToSet(transactions)
      /\ \A u \in ToSet(transactions) \ gone : Parents(u) \cap gone = {}
    BY <1>1, RemovedFacts
<1> HIDE DEF gone
<1>3. /\ transactions \in Seq(Tx) /\ ToSet(transactions) \subseteq allTx /\ allTx \subseteq Tx
      /\ Sorted(height, transactions) /\ Distinct(transactions)
      /\ height \in [Tx -> Heights] /\ height \in [Tx -> Nat]
    BY InvFacts
<1>4. /\ transactions' \in Seq(Tx) /\ ToSet(transactions') = ToSet(transactions) \ gone
      /\ Sorted(height, transactions') /\ Distinct(transactions')
    BY <1>1, <1>3, WithoutProperties
<1>5. Sorted(height', transactions')
    <2>1. \A i \in 1..Len(transactions') : transactions'[i] \in ToSet(transactions')
        <3>1. DOMAIN transactions' = 1..Len(transactions')
            BY <1>4
        <3>2. QED BY <3>1 DEF ToSet
    <2>2. \A i \in 1..Len(transactions') :
             height'[transactions'[i]] = height[transactions'[i]]
        BY <1>1, <1>3, <1>4, <2>1
    <2>3. QED BY <1>4, <2>2 DEF Sorted
<1>6. TypeOK'
    <2>1. height' \in [Tx -> Heights] /\ timestamp' \in [Tx -> {0, 1}]
        BY <1>1, <1>3, HeightsOrdered DEF WalletInv, TypeOK
    <2>2. saved' \in [Tx -> Heights \cup {NotSaved}]
        BY <1>1 DEF WalletInv, TypeOK
    <2>3. QED BY <1>1, <1>3, <1>4, <2>1, <2>2 DEF WalletInv, TypeOK
<1>7. SortedByHeight' /\ NoDangling'
    BY <1>1, <1>3, <1>4, <1>5, ArrayProperties
<1>8. SavedMatches'
    <2>1. \A u \in Tx : saved[u] = IF u \in ToSet(transactions) THEN height[u] ELSE NotSaved
        BY InvFacts
    <2>2. QED BY <1>1, <1>4, <2>1 DEF SavedMatches
<1>9. HeightsFollowChain'
    BY <1>1, <1>3, <1>4 DEF HeightsFollowChain, WalletInv
<1>10. UnknownAreNew'
    BY <1>1 DEF UnknownAreNew, WalletInv
<1>11. HeldAreAssociated'
    <2> SUFFICES ASSUME NEW u \in ToSet(transactions) \ gone PROVE ContainsTx(allTx, u)'
        BY <1>4 DEF HeldAreAssociated
    <2>1. u \in Tx /\ ContainsTx(allTx, u) /\ Parents(u) \cap gone = {}
        BY <1>2, <1>3 DEF WalletInv, HeldAreAssociated
    <2>2. \A o \in Inputs[u] : o[1] \in allTx => o[1] \in allTx'
        BY <1>1, <2>1 DEF Parents
    <2>3. chainLen' \in [Chains -> Nat] /\ chainLen \in [Chains -> Nat]
          /\ \A c \in Chains : chainLen[c] <= chainLen'[c]
        BY <1>1, InvFacts
    <2>4. QED BY <2>1, <2>2, <2>3, StaysAssociatedLater
<1>12. ChainOrdered'
    BY <1>1 DEF WalletInv, ChainOrdered, OnBestChain
<1>13. QED BY <1>6, <1>7, <1>8, <1>9, <1>10, <1>11, <1>12 DEF WalletInv

(* The loop of BRWalletSetTxUnconfirmedAfter reaches every transaction     *)
(* above h.                                                                *)
LEMMA AfterIsAbove ==
    ASSUME WalletInv, NEW h \in Nat
    PROVE  After(h) = {t \in ToSet(transactions) : height[t] > h}
<1>1. /\ transactions \in Seq(Tx) /\ Sorted(height, transactions) /\ height \in [Tx -> Nat]
      /\ \A i \in 1..Len(transactions) : transactions[i] \in ToSet(transactions)
      /\ \A u \in ToSet(transactions) : \E i \in 1..Len(transactions) : u = transactions[i]
    BY InvFacts
<1>2. Len(transactions) \in Nat /\ \A i \in 1..Len(transactions) : height[transactions[i]] \in Nat
    BY <1>1
<1>3. After(h) \subseteq {t \in ToSet(transactions) : height[t] > h}
    BY <1>1, <1>2 DEF After
<1>4. ASSUME NEW i \in 1..Len(transactions), height[transactions[i]] > h
      PROVE  transactions[i] \in After(h)
    <2>1. ASSUME NEW k \in i..Len(transactions) PROVE height[transactions[k]] > h
        <3>1. k \in 1..Len(transactions) /\ (k = i \/ i < k)
            BY <1>2
        <3>2. CASE k = i
            BY <1>4, <3>2
        <3>3. CASE i < k
            <4>1. height[transactions[i]] <= height[transactions[k]]
                BY <1>1, <3>1, <3>3 DEF Sorted
            <4>2. QED BY <1>2, <1>4, <3>1, <4>1
        <3>4. QED BY <3>1, <3>2, <3>3
    <2>2. QED BY <2>1 DEF After
<1>5. QED BY <1>1, <1>3, <1>4

(* So does going back to the fork of a reorganisation.                     *)
LEMMA ReorganizeInv == ASSUME WalletInv, NEW h \in 0..MaxTip, Reorganize(h) PROVE WalletInv'
<1>1. /\ h < tip /\ tip' = h /\ blockHeight' = h
      /\ mined' = [t \in Tx |-> IF mined[t] > h THEN TX_UNCONFIRMED ELSE mined[t]]
      /\ height' = [t \in Tx |-> IF t \in After(h) THEN TX_UNCONFIRMED ELSE height[t]]
      /\ saved' = Told(After(h), TX_UNCONFIRMED)
      /\ UNCHANGED <<allTx, transactions, timestamp, chainLen>>
    BY DEF Reorganize, SetTxUnconfirmedAfter
<1>2. /\ transactions \in Seq(Tx) /\ ToSet(transactions) \subseteq allTx /\ allTx \subseteq Tx
      /\ height \in [Tx -> Heights] /\ height \in [Tx -> Nat]
      /\ Sorted(height, transactions) /\ Distinct(transactions)
      /\ \A t \in Tx : saved[t] = IF t \in ToSet(transactions) THEN height[t] ELSE NotSaved
      /\ \A i \in 1..Len(transactions) : transactions[i] \in ToSet(transactions)
    BY InvFacts
<1>3. h \in Nat /\ h \in Heights /\ h < TX_UNCONFIRMED /\ TX_UNCONFIRMED \in Nat
      /\ TX_UNCONFIRMED \in Heights
    BY HeightsOrdered, TxAssumption, WalletAssumption
<1>4. After(h) = {t \in ToSet(transactions) : height[t] > h}
    BY <1>3, AfterIsAbove
<1>5. mined \in [Tx -> Heights] /\ mined \in [Tx -> Nat] /\ tip \in 0..MaxTip /\ tip \in Nat
    BY HeightsOrdered, WalletAssumption DEF WalletInv, TypeOK
<1>6. TypeOK'
    <2>1. height' \in [Tx -> Heights] /\ mined' \in [Tx -> Heights]
        BY <1>1, <1>2, <1>3, <1>5
    <2>2. saved' \in [Tx -> Heights \cup {NotSaved}]
        BY <1>1, <1>3 DEF Told, WalletInv, TypeOK
    <2>3. QED BY <1>1, <1>3, <2>1, <2>2 DEF WalletInv, TypeOK
<1>7. SortedByHeight' /\ NoDangling'
    <2>1. \A i \in 1..Len(transactions) :
             /\ transactions[i] \in Tx
             /\ height'[transactions[i]] = IF height[transactions[i]] > h THEN TX_UNCONFIRMED
                                           ELSE height[transactions[i]]
        BY <1>1, <1>2, <1>4
    <2>2. Sorted(height', transactions)
        <3> SUFFICES ASSUME NEW i \in 1..Len(transactions), NEW j \in 1..Len(transactions), i < j
                     PROVE  height'[transactions[i]] <= height'[transactions[j]]
            BY DEF Sorted
        <3>1. height[transactions[i]] <= height[transactions[j]]
            BY <1>2 DEF Sorted
        <3>2. height[transactions[i]] \in Nat /\ height[transactions[j]] \in Nat
            BY <1>2, <2>1
        <3>3. QED BY <1>3, <2>1, <3>1, <3>2
    <2>3. QED BY <1>1, <1>2, <2>2, ArrayProperties
<1>8. SavedMatches'
    <2> SUFFICES ASSUME NEW t \in Tx
                 PROVE  saved'[t] = IF t \in ToSet(transactions) THEN height'[t] ELSE NotSaved
        BY <1>1 DEF SavedMatches
    <2>1. saved'[t] = IF t \in After(h) /\ saved[t] # NotSaved THEN TX_UNCONFIRMED ELSE saved[t]
        BY <1>1 DEF Told
    <2>2. height[t] # NotSaved
        BY <1>2, HeightsOrdered
    <2>3. QED BY <1>1, <1>2, <1>4, <2>1, <2>2
<1>9. HeightsFollowChain'
    <2> SUFFICES ASSUME NEW t \in ToSet(transactions) PROVE height'[t] = mined'[t]
        BY <1>1 DEF HeightsFollowChain
    <2>1. t \in Tx /\ height[t] = mined[t]
        BY <1>2 DEF WalletInv, HeightsFollowChain
    <2>2. QED BY <1>1, <1>4, <2>1
<1>10. HeldAreAssociated'
    BY <1>1 DEF WalletInv, HeldAreAssociated, ContainsTx, allAddrs, IsWalletOutput
<1>11. UnknownAreNew'
    BY <1>1, <1>2, <1>4 DEF WalletInv, UnknownAreNew
<1>12. ChainOrdered'
    <2> SUFFICES ASSUME NEW t \in Tx, mined'[t] # TX_UNCONFIRMED
                 PROVE  mined'[t] <= h /\ \A p \in Parents(t) \cap Tx : mined'[p] <= mined'[t]
        BY <1>1 DEF ChainOrdered, OnBestChain
    <2>1. mined'[t] = mined[t] /\ mined[t] <= h /\ mined[t] # TX_UNCONFIRMED /\ mined[t] \in Nat
        BY <1>1, <1>3, <1>5
    <2>2. \A p \in Parents(t) \cap Tx : mined[p] <= mined[t]
        BY <2>1 DEF WalletInv, ChainOrdered, OnBestChain
    <2>3. \A p \in Parents(t) \cap Tx : mined'[p] = mined[p]
        BY <1>1, <1>3, <1>5, <2>1, <2>2
    <2>4. QED BY <2>1, <2>2, <2>3
<1>13. QED BY <1>6, <1>7, <1>8, <1>9, <1>10, <1>11, <1>12 DEF WalletInv

(* So does making the address chains longer.                               *)
LEMMA GenerateAddrsInv ==
    ASSUME WalletInv, NEW c \in Chains, NEW gap, GenerateAddrs(c, gap) PROVE WalletInv'
<1>1. /\ chainLen' = [chainLen EXCEPT ![c] = Grown(chainLen[c], ledger.usedAddrs, c, gap)]
      /\ UNCHANGED <<allTx, transactions, height, timestamp, blockHeight, ledger, saved, mined, tip>>
    BY DEF GenerateAddrs, UnusedAddrs
<1>2. chainLen \in [Chains -> 0..MaxChain] /\ MaxChain \in Nat
    BY WalletAssumption DEF WalletInv, TypeOK
<1>3. Grown(chainLen[c], ledger.usedAddrs, c, gap) \in chainLen[c]..MaxChain
    BY <1>2, GrownGrows
<1>4. /\ chainLen' \in [Chains -> 0..MaxChain] /\ chainLen' \in [Chains -> Nat]
      /\ \A d \in Chains : chainLen[d] <= chainLen'[d]
    <2> DEFINE n == Grown(chainLen[c], ledger.usedAddrs, c, gap)
    <2>1. n \in 0..MaxChain /\ n \in Nat /\ chainLen[c] <= n
        BY <1>2, <1>3
    <2> HIDE DEF n
    <2>2. chainLen' = [chainLen EXCEPT ![c] = n]
        BY <1>1 DEF n
    <2>3. \A d \in Chains : chainLen[d] \in 0..MaxChain /\ chainLen[d] \in Nat
        BY <1>2
    <2>4. QED BY <1>2, <2>1, <2>2, <2>3
<1>5. TypeOK'
    BY <1>1, <1>4 DEF WalletInv, TypeOK
<1>6. SortedByHeight' /\ NoDangling' /\ SavedMatches' /\ HeightsFollowChain'
    BY <1>1 DEF WalletInv, SortedByHeight, NoDangling, SavedMatches, HeightsFollowChain
<1>7. UnknownAreNew' /\ ChainOrdered'
    BY <1>1 DEF WalletInv, UnknownAreNew, ChainOrdered, OnBestChain
<1>8. HeldAreAssociated'
    <2>1. \A t \in ToSet(transactions) : t \in Tx /\ ContainsTx(allTx, t)
        BY InvFacts DEF WalletInv, HeldAreAssociated
    <2>2. \A t \in ToSet(transactions) : ContainsTx(allTx, t)'
        BY <1>1, <1>4, <2>1, InvFacts, StaysAssociatedLater
    <2>3. QED BY <1>1, <2>2 DEF HeldAreAssociated
<1>9. QED BY <1>5, <1>6, <1>7, <1>8 DEF WalletInv

(* The invariant holds of an empty wallet.                                 *)
LEMMA InitInv == Init => WalletInv
<1> SUFFICES ASSUME Init PROVE WalletInv
    OBVIOUS
<1>1. transactions = <<>> /\ ToSet(transactions) = {} /\ Len(transactions) = 0
    BY DEF Init, ToSet
<1>2. TypeOK
    <2>1. GapLimit \in [Chains -> 0..MaxChain] /\ 0 \in 0..MaxTip
        BY WalletAssumption
    <2>2. 0 \in Heights /\ TX_UNCONFIRMED \in Heights
        BY HeightsOrdered
    <2>3. QED BY <1>1, <2>1, <2>2 DEF Init, TypeOK
<1>3. SortedByHeight /\ NoDangling /\ SavedMatches /\ HeightsFollowChain
    BY <1>1 DEF Init, SortedByHeight, NoDangling, SavedMatches, HeightsFollowChain
<1>4. HeldAreAssociated /\ UnknownAreNew /\ ChainOrdered
    BY <1>1 DEF Init, HeldAreAssociated, UnknownAreNew, ChainOrdered, OnBestChain
<1>5. QED BY <1>2, <1>3, <1>4 DEF WalletInv

(* Every step keeps the invariant.                                         *)
LEMMA NextInv == WalletInv /\ [Next]_vars => WalletInv'
<1> SUFFICES ASSUME WalletInv, [Next]_vars PROVE WalletInv'
    OBVIOUS
<1>1. ASSUME NEW t \in Tx, RelayTx(t) PROVE WalletInv'
    BY <1>1, RelayTxInv
<1>2. ASSUME NEW t \in Tx, NEW ts \in {0, 1}, VerifyTx(t, ts) PROVE WalletInv'
    BY <1>2, VerifyTxInv
<1>3. ASSUME NEW t \in Tx, DropTx(t) PROVE WalletInv'
    BY <1>3, DropTxInv
<1>4. ASSUME NEW b \in Blocks, ConnectBlock(b) PROVE WalletInv'
    BY <1>4, ConnectBlockInv
<1>5. ASSUME NEW h \in 0..MaxTip, Reorganize(h) PROVE WalletInv'
    BY <1>5, ReorganizeInv
<1>6. ASSUME NEW c \in Chains, NEW gap \in {1, GapLimit[c] + 1}, GenerateAddrs(c, gap)
      PROVE  WalletInv'
    BY <1>6, GenerateAddrsInv
<1>7. CASE UNCHANGED vars
    <2>1. /\ UNCHANGED <<allTx, transactions, height, timestamp, blockHeight, chainLen, ledger>>
          /\ UNCHANGED <<saved, mined, tip>>
        BY <1>7 DEF vars
    <2>2. TypeOK' /\ SortedByHeight' /\ NoDangling' /\ SavedMatches' /\ HeightsFollowChain'
        BY <2>1 DEF WalletInv, TypeOK, SortedByHeight, NoDangling, SavedMatches, HeightsFollowChain
    <2>3. HeldAreAssociated' /\ UnknownAreNew' /\ ChainOrdered'
        BY <2>1 DEF WalletInv, HeldAreAssociated, UnknownAreNew, ChainOrdered, OnBestChain,
                    ContainsTx, allAddrs, IsWalletOutput
    <2>4. QED BY <2>2, <2>3 DEF WalletInv
<1>8. QED BY <1>1, <1>2, <1>3, <1>4, <1>5, <1>6, <1>7 DEF Next

-----------------------------------------------------------------------------
(* The strengthened invariant holds in every reachable state.              *)
THEOREM WalletInvariant == Spec => []WalletInv
BY InitInv, NextInv, PTL DEF Spec

(* Every variable of the wallet has its type: no height outside the chain, *)
(* no address beyond the bound.                                            *)
THEOREM WalletTypes == Spec => []TypeOK
<1>1. WalletInv => TypeOK
    BY DEF WalletInv
<1>2. QED BY <1>1, WalletInvariant, PTL

(* The transactions array is sorted by height whatever was relayed,        *)
(* confirmed, reorganised and dropped: the loops over it that stop at the  *)
(* first height that does not match miss nothing.                          *)
THEOREM ArrayIsSorted == Spec => []SortedByHeight
<1>1. WalletInv => SortedByHeight
    BY DEF WalletInv
<1>2. QED BY <1>1, WalletInvariant, PTL

(* The array never holds a transaction twice, nor one that was freed.      *)
THEOREM NothingDangles == Spec => []NoDangling
<1>1. WalletInv => NoDangling
    BY DEF WalletInv
<1>2. QED BY <1>1, WalletInvariant, PTL

(* The callbacks tell the app the height of each transaction.              *)
THEOREM AppIsTold == Spec => []SavedMatches
<1>1. WalletInv => SavedMatches
    BY DEF WalletInv
<1>2. QED BY <1>1, WalletInvariant, PTL

(* The wallet has its transactions at their heights on the best chain.     *)
THEOREM WalletFollowsChain == Spec => []HeightsFollowChain
<1>1. WalletInv => HeightsFollowChain
    BY DEF WalletInv
<1>2. QED BY <1>1, WalletInvariant, PTL

-----------------------------------------------------------------------------
(* The conclusions: _BRWalletUpdateBalance                                 *)

IsLedger(l) ==
    /\ l = [x \in DOMAIN l |-> l[x]]
    /\ DOMAIN l = {"spentOutputs", "invalidTx", "pendingTx", "usedAddrs", "utxos", "balance",
                   "balanceHist", "totalSent", "totalReceived"}

(* The chain spends no output twice.                                       *)
MinedDisjoint == \A t, u \in OnBestChain : t # u => Inputs[t] \cap Inputs[u] = {}

(* The first n transactions of the array                                   *)
First(s, n) == {s[j] : j \in 1..n}

-----------------------------------------------------------------------------
(* The total of a set of outputs is the sum of their amounts.              *)
Amounts(S) == [o \in S |-> Amount(o)]

LEMMA TotalIsSum ==
    ASSUME NEW S, IsFiniteSet(S), NEW T \in SUBSET S
    PROVE  Total(T) = SumOf(Amounts(S), T)
<1> DEFINE iter[s \in SUBSET T] ==
             IF s = {} THEN 0 ELSE Amount(Chosen(s)) + iter[s \ {Chosen(s)}]
           w == Amounts(S)
<1>1. Total(T) = iter[T]
    BY DEF Total, MapThenSumSet, MapThenFoldSet, Chosen
<1>2. \A s \in SUBSET T : s # {} => w[Chosen(s)] = Amount(Chosen(s))
    BY DEF Amounts, Chosen
<1>3. iter = CHOOSE g : g = [s \in SUBSET T |-> IF s = {} THEN 0
                                              ELSE Amount(Chosen(s)) + g[s \ {Chosen(s)}]]
    OBVIOUS
<1> HIDE DEF iter, w
<1>4. ASSUME NEW g
      PROVE  IsSum(w, g, T) <=>
             g = [s \in SUBSET T |-> IF s = {} THEN 0 ELSE Amount(Chosen(s)) + g[s \ {Chosen(s)}]]
    BY <1>2 DEF IsSum, SumStep
<1>5. IsFiniteSet(T)
    BY FS_Subset
<1>6. \E g : g = [s \in SUBSET T |-> IF s = {} THEN 0
                                     ELSE Amount(Chosen(s)) + g[s \ {Chosen(s)}]]
    BY <1>4, <1>5, SumExists
<1>7. IsSum(w, iter, T)
    BY <1>3, <1>4, <1>6
<1>8. iter[T] = SumOf(w, T)
    BY <1>5, <1>7, SumIsSolution
<1>9. QED BY <1>1, <1>8 DEF w

LEMMA TotalOfNone == Total({}) = 0
BY TotalIsSum, SumOfChosen, FS_EmptySet

LEMMA TotalWithout ==
    ASSUME NEW S, IsFiniteSet(S), \A x \in S : Amount(x) \in Int
    PROVE  Total(S) \in Int
<1>1. \A x \in S : Amounts(S)[x] \in Int
    BY DEF Amounts
<1>2. QED BY <1>1, TotalIsSum, SumWithout

LEMMA TotalOfUnion ==
    ASSUME NEW S, NEW T, IsFiniteSet(S), IsFiniteSet(T), S \cap T = {},
           \A x \in S \cup T : Amount(x) \in Int
    PROVE  Total(S) \in Int /\ Total(T) \in Int /\ Total(S \cup T) = Total(S) + Total(T)
<1> DEFINE w == Amounts(S \cup T)
<1>1. \A x \in S \cup T : w[x] \in Int
    BY DEF Amounts
<1>2. IsFiniteSet(S \cup T)
    BY FS_Union
<1>3. \A R \in SUBSET (S \cup T) : Total(R) = SumOf(w, R)
    BY <1>2, TotalIsSum
<1> HIDE DEF w
<1>4. Total(S) = SumOf(w, S) /\ Total(T) = SumOf(w, T)
    BY <1>3
<1>5. Total(S \cup T) = SumOf(w, S \cup T)
    BY <1>3
<1>6. /\ SumOf(w, S) \in Int /\ SumOf(w, T) \in Int
      /\ SumOf(w, S \cup T) = SumOf(w, S) + SumOf(w, T)
    BY <1>1, SumOfUnion
<1>7. QED BY <1>4, <1>5, <1>6

LEMMA TotalOfDifference ==
    ASSUME NEW S, NEW T \in SUBSET S, IsFiniteSet(S), \A x \in S : Amount(x) \in Int
    PROVE  Total(S \ T) = Total(S) - Total(T)
<1> DEFINE w == Amounts(S)
<1>1. \A x \in S : w[x] \in Int
    BY DEF Amounts
<1>2. Total(S) = SumOf(w, S) /\ Total(T) = SumOf(w, T) /\ Total(S \ T) = SumOf(w, S \ T)
    BY TotalIsSum
<1> HIDE DEF w
<1>3. QED BY <1>1, <1>2, SumOfDifference

-----------------------------------------------------------------------------
(* One turn of the loop of _BRWalletUpdateBalance leads from l to a: t is  *)
(* lost, or it is kept, and then it waits or counts.                       *)
Lost(l, t, a) ==
    /\ a.invalidTx = l.invalidTx \cup {t}
    /\ a.pendingTx = l.pendingTx /\ a.spentOutputs = l.spentOutputs

Kept(l, t, a) ==
    /\ a.invalidTx = l.invalidTx
    /\ a.spentOutputs = l.spentOutputs \cup Inputs[t]

Uncounted(l, a) ==
    /\ a.utxos = l.utxos /\ a.balance = l.balance
    /\ a.totalSent = l.totalSent /\ a.totalReceived = l.totalReceived
    /\ a.balanceHist = Append(l.balanceHist, l.balance)

LEMMA AccountCases ==
    ASSUME NEW l, IsLedger(l), NEW hgt, NEW bh, NEW t, NEW a, a = Account(l, hgt, bh, t)
    PROVE  /\ IsLedger(a)
           /\ \/ hgt[t] = TX_UNCONFIRMED /\ Lost(l, t, a) /\ Uncounted(l, a)
              \/ /\ hgt[t] = TX_UNCONFIRMED => ~SpendsLost(l, t)
                 /\ Kept(l, t, a)
                 /\ \/ a.pendingTx = l.pendingTx /\ a = Applied(l, t)
                    \/ /\ hgt[t] = TX_UNCONFIRMED /\ a.pendingTx = l.pendingTx \cup {t}
                       /\ Uncounted(l, a)
<1>1. CASE hgt[t] = TX_UNCONFIRMED /\ SpendsLost(l, t)
    <2>1. a = WithHist([l EXCEPT !.invalidTx = @ \cup {t}])
        BY <1>1 DEF Account
    <2>2. IsLedger(a) /\ Lost(l, t, a) /\ Uncounted(l, a)
        BY <2>1 DEF IsLedger, WithHist, Lost, Uncounted
    <2>3. QED BY <1>1, <2>2
<1>2. CASE hgt[t] = TX_UNCONFIRMED /\ ~SpendsLost(l, t) /\ MustWait(l, bh, t)
    <2>1. a = WithHist([l EXCEPT !.spentOutputs = @ \cup Inputs[t], !.pendingTx = @ \cup {t}])
        BY <1>2 DEF Account
    <2>2. /\ IsLedger(a) /\ Kept(l, t, a) /\ Uncounted(l, a)
          /\ a.pendingTx = l.pendingTx \cup {t}
        BY <2>1 DEF IsLedger, WithHist, Kept, Uncounted
    <2>3. QED BY <1>2, <2>2
<1>3. CASE hgt[t] # TX_UNCONFIRMED \/ ~(SpendsLost(l, t) \/ MustWait(l, bh, t))
    <2>1. a = Applied(l, t)
        BY <1>3 DEF Account
    <2>2. /\ Applied(l, t).invalidTx = l.invalidTx /\ Applied(l, t).pendingTx = l.pendingTx
          /\ Applied(l, t).spentOutputs = l.spentOutputs \cup Inputs[t]
          /\ IsLedger(Applied(l, t))
        BY DEF Applied, IsLedger
    <2>3. IsLedger(a) /\ Kept(l, t, a) /\ a.pendingTx = l.pendingTx
        BY <2>1, <2>2 DEF Kept
    <2>4. QED BY <1>3, <2>1, <2>3
<1>4. QED BY <1>1, <1>2, <1>3

-----------------------------------------------------------------------------
(* The whole loop                                                          *)

(* Confirmed transactions of the array spend no output twice.              *)
ConfirmedDisjoint(hgt, s) ==
    \A t, u \in ToSet(s) :
        hgt[t] # TX_UNCONFIRMED /\ hgt[u] # TX_UNCONFIRMED /\ t # u => Inputs[t] \cap Inputs[u] = {}

IsArray(hgt, s) ==
    /\ s \in Seq(Tx) /\ hgt \in [Tx -> Heights]
    /\ Sorted(hgt, s) /\ Distinct(s) /\ ConfirmedDisjoint(hgt, s)

(* What l says of the transactions F: which are lost and which wait, and   *)
(* what the others spend.                                                  *)
Sorts(l, hgt, F) ==
    /\ IsLedger(l)
    /\ \A t \in l.invalidTx \cup l.pendingTx : t \in F /\ hgt[t] = TX_UNCONFIRMED
    /\ l.invalidTx \cap l.pendingTx = {}
    /\ \A t \in F \ l.invalidTx : Inputs[t] \subseteq l.spentOutputs
    /\ \A t, u \in F \ l.invalidTx : t # u => Inputs[t] \cap Inputs[u] = {}

(* The next transaction of the array is new, and confirmed only if all     *)
(* before it are.                                                          *)
LEMMA NextOfArray ==
    ASSUME NEW s, NEW hgt, IsArray(hgt, s), NEW n \in Nat, n + 1 <= Len(s)
    PROVE  /\ s[n + 1] \in Tx /\ s[n + 1] \in ToSet(s)
           /\ First(s, n) \subseteq Tx /\ First(s, n) \subseteq ToSet(s)
           /\ s[n + 1] \notin First(s, n)
           /\ First(s, n + 1) = First(s, n) \cup {s[n + 1]}
           /\ hgt[s[n + 1]] # TX_UNCONFIRMED =>
                 \A t \in First(s, n) : hgt[t] # TX_UNCONFIRMED
<1>1. s \in Seq(Tx) /\ Sorted(hgt, s) /\ Distinct(s) /\ hgt \in [Tx -> Heights]
    BY DEF IsArray
<1>2. /\ n + 1 \in 1..Len(s) /\ DOMAIN s = 1..Len(s)
      /\ \A j \in 1..n : j \in 1..Len(s) /\ j < n + 1
    BY <1>1
<1>3. s[n + 1] \in Tx /\ s[n + 1] \in ToSet(s)
    BY <1>1, <1>2 DEF ToSet
<1>4. First(s, n) \subseteq Tx /\ First(s, n) \subseteq ToSet(s)
    BY <1>1, <1>2 DEF First, ToSet
<1>5. ASSUME NEW j \in 1..n PROVE s[j] # s[n + 1] /\ hgt[s[j]] <= hgt[s[n + 1]]
    BY <1>1, <1>2 DEF Sorted, Distinct
<1>6. s[n + 1] \notin First(s, n)
    BY <1>5 DEF First
<1>7. First(s, n + 1) = First(s, n) \cup {s[n + 1]}
    <2>1. 1..(n + 1) = 1..n \cup {n + 1}
        OBVIOUS
    <2>2. QED BY <2>1 DEF First
<1>8. ASSUME hgt[s[n + 1]] # TX_UNCONFIRMED, NEW t \in First(s, n)
      PROVE  hgt[t] # TX_UNCONFIRMED
    <2>1. hgt[t] <= hgt[s[n + 1]]
        BY <1>5 DEF First
    <2>2. hgt[t] \in Heights /\ hgt[s[n + 1]] \in Heights
        BY <1>1, <1>3, <1>4
    <2>3. \A h \in Heights : h \in Nat /\ (h # TX_UNCONFIRMED => h < TX_UNCONFIRMED)
        BY HeightsOrdered, TxAssumption
    <2>4. QED BY <1>8, <2>1, <2>2, <2>3
<1>9. QED BY <1>3, <1>4, <1>6, <1>7, <1>8

(* One turn sorts one more transaction.                                    *)
LEMMA TurnSorts ==
    ASSUME NEW s, NEW hgt, IsArray(hgt, s), NEW bh, NEW n \in Nat, n + 1 <= Len(s),
           NEW l, Sorts(l, hgt, First(s, n))
    PROVE  Sorts(Account(l, hgt, bh, s[n + 1]), hgt, First(s, n + 1))
<1> DEFINE t == s[n + 1]
           F == First(s, n)
           a == Account(l, hgt, bh, t)
<1>1. /\ t \in Tx /\ t \in ToSet(s) /\ F \subseteq ToSet(s) /\ t \notin F
      /\ First(s, n + 1) = F \cup {t}
      /\ hgt[t] # TX_UNCONFIRMED => \A u \in F : hgt[u] # TX_UNCONFIRMED
    BY NextOfArray
<1>2. /\ IsLedger(l)
      /\ \A u \in l.invalidTx \cup l.pendingTx : u \in F /\ hgt[u] = TX_UNCONFIRMED
      /\ l.invalidTx \cap l.pendingTx = {}
      /\ \A u \in F \ l.invalidTx : Inputs[u] \subseteq l.spentOutputs
      /\ \A u, v \in F \ l.invalidTx : u # v => Inputs[u] \cap Inputs[v] = {}
    BY DEF Sorts
<1>3. /\ IsLedger(a)
      /\ \/ hgt[t] = TX_UNCONFIRMED /\ Lost(l, t, a)
         \/ /\ hgt[t] = TX_UNCONFIRMED => ~SpendsLost(l, t)
            /\ Kept(l, t, a)
            /\ \/ a.pendingTx = l.pendingTx
               \/ hgt[t] = TX_UNCONFIRMED /\ a.pendingTx = l.pendingTx \cup {t}
    <2>1. a = Account(l, hgt, bh, t)
        OBVIOUS
    <2> HIDE DEF t, F, a
    <2>2. QED BY <1>2, <2>1, AccountCases
<1> HIDE DEF t, F, a
<1>0. t \notin l.invalidTx /\ t \notin l.pendingTx
    BY <1>1, <1>2
<1>4. ASSUME a.invalidTx = l.invalidTx \cup {t} PROVE Sorts(a, hgt, First(s, n + 1))
    <2>1. /\ hgt[t] = TX_UNCONFIRMED
          /\ a.pendingTx = l.pendingTx /\ a.spentOutputs = l.spentOutputs
        BY <1>0, <1>3, <1>4 DEF Lost, Kept
    <2>2. (F \cup {t}) \ a.invalidTx = F \ l.invalidTx
        BY <1>1, <1>4
    <2>3. \A u \in a.invalidTx \cup a.pendingTx : u \in F \cup {t} /\ hgt[u] = TX_UNCONFIRMED
        BY <1>2, <1>4, <2>1
    <2>4. a.invalidTx \cap a.pendingTx = {}
        BY <1>0, <1>2, <1>4, <2>1
    <2>5. QED BY <1>1, <1>2, <1>3, <2>1, <2>2, <2>3, <2>4 DEF Sorts
<1>5. ASSUME t \notin a.invalidTx PROVE Sorts(a, hgt, First(s, n + 1))
    <2>1. ASSUME NEW u \in F \ l.invalidTx PROVE Inputs[u] \cap Inputs[t] = {}
        <3>1. CASE hgt[t] = TX_UNCONFIRMED
            BY <1>2, <1>3, <1>5, <2>1, <3>1 DEF SpendsLost, Lost
        <3>2. CASE hgt[t] # TX_UNCONFIRMED
            <4>1. u \in ToSet(s) /\ u # t /\ hgt[u] # TX_UNCONFIRMED
                BY <1>1, <3>2
            <4>2. QED BY <1>1, <3>2, <4>1 DEF IsArray, ConfirmedDisjoint
        <3>3. QED BY <3>1, <3>2
    <2>2. a.invalidTx = l.invalidTx /\ a.spentOutputs = l.spentOutputs \cup Inputs[t]
        BY <1>3, <1>5 DEF Lost, Kept
    <2>3. \A u, v \in (F \cup {t}) \ a.invalidTx : u # v => Inputs[u] \cap Inputs[v] = {}
        BY <1>2, <2>1, <2>2
    <2>4. \A u \in (F \cup {t}) \ a.invalidTx : Inputs[u] \subseteq a.spentOutputs
        BY <1>2, <2>2
    <2>5. \A u \in a.invalidTx \cup a.pendingTx : u \in F \cup {t} /\ hgt[u] = TX_UNCONFIRMED
        <3>1. \A u \in a.pendingTx : u \in l.pendingTx \/ (u = t /\ hgt[t] = TX_UNCONFIRMED)
            BY <1>3, <1>5 DEF Lost
        <3>2. QED BY <1>2, <2>2, <3>1
    <2>6. a.invalidTx \cap a.pendingTx = {}
        <3>1. a.pendingTx \subseteq l.pendingTx \cup {t}
            BY <1>3 DEF Lost
        <3>2. QED BY <1>0, <1>2, <2>2, <3>1
    <2>7. QED BY <1>1, <1>3, <2>3, <2>4, <2>5, <2>6 DEF Sorts
<1>6. t \notin a.invalidTx \/ a.invalidTx = l.invalidTx \cup {t}
    BY <1>0, <1>3 DEF Lost, Kept
<1>7. Sorts(a, hgt, First(s, n + 1))
    BY <1>4, <1>5, <1>6
<1>8. QED BY <1>7 DEF a, t

(* What l says of the money: Counted are the transactions of F that are    *)
(* neither lost nor waiting.                                               *)
Counted(l, F) == F \ (l.invalidTx \cup l.pendingTx)

Balances(l, F, n) ==
    /\ IsFiniteSet(l.utxos)
    /\ l.balance = Total(l.utxos)
    /\ l.balance \in Int /\ l.totalReceived \in Int /\ l.totalSent \in Int
    /\ l.balance = l.totalReceived - l.totalSent
    /\ l.balanceHist \in Seq(Int) /\ Len(l.balanceHist) = n
    /\ \A o \in l.utxos :
          /\ Exists(o) /\ o[1] \in Counted(l, F)
          /\ Address(o) \in allAddrs
          /\ \A t \in Counted(l, F) : o \notin Inputs[t]

(* The outputs of a transaction are finitely many, with natural amounts.   *)
LEMMA PaidFacts ==
    ASSUME NEW t \in Tx
    PROVE  LET paid == {o \in OutPoints(t) : Address(o) \in allAddrs}
           IN  /\ IsFiniteSet(paid)
               /\ \A o \in paid : Exists(o) /\ o[1] = t /\ Address(o) \in allAddrs
<1> DEFINE paid == {o \in OutPoints(t) : Address(o) \in allAddrs}
<1>1. IsFiniteSet({t} \X DOMAIN Outputs[t])
    BY TxAssumption, FS_Product, FS_Singleton
<1>2. paid \in SUBSET ({t} \X DOMAIN Outputs[t])
    BY DEF OutPoints
<1>3. IsFiniteSet(paid)
    BY <1>1, <1>2, FS_Subset
<1>4. \A o \in paid : Exists(o) /\ o[1] = t /\ Address(o) \in allAddrs
    BY DEF OutPoints, Exists
<1>5. QED BY <1>3, <1>4

LEMMA AmountOfOutput == ASSUME NEW o, Exists(o) PROVE Amount(o) \in Int
BY TxAssumption DEF Exists, Amount

(* One turn keeps the balance the total of the unspent outputs.            *)
LEMMA TurnBalances ==
    ASSUME NEW s, NEW hgt, IsArray(hgt, s), NEW bh, NEW n \in Nat, n + 1 <= Len(s),
           NEW l, Sorts(l, hgt, First(s, n)), Balances(l, First(s, n), n)
    PROVE  Balances(Account(l, hgt, bh, s[n + 1]), First(s, n + 1), n + 1)
<1> DEFINE t == s[n + 1]
           F == First(s, n)
           a == Account(l, hgt, bh, t)
<1>1. t \in Tx /\ t \notin F /\ First(s, n + 1) = F \cup {t}
    BY NextOfArray
<1>2. /\ IsLedger(l)
      /\ \A u \in l.invalidTx \cup l.pendingTx : u \in F
      /\ \A u \in F \ l.invalidTx : Inputs[u] \subseteq l.spentOutputs
    BY DEF Sorts
<1>3. /\ IsFiniteSet(l.utxos) /\ l.balance = Total(l.utxos)
      /\ l.balance \in Int /\ l.totalReceived \in Int /\ l.totalSent \in Int
      /\ l.balance = l.totalReceived - l.totalSent
      /\ l.balanceHist \in Seq(Int) /\ Len(l.balanceHist) = n
      /\ \A o \in l.utxos :
            /\ Exists(o) /\ o[1] \in Counted(l, F)
            /\ Address(o) \in allAddrs
            /\ \A u \in Counted(l, F) : o \notin Inputs[u]
    BY DEF Balances
<1>4. /\ IsLedger(a)
      /\ \/ hgt[t] = TX_UNCONFIRMED /\ Lost(l, t, a) /\ Uncounted(l, a)
         \/ /\ hgt[t] = TX_UNCONFIRMED => ~SpendsLost(l, t)
            /\ Kept(l, t, a)
            /\ \/ a.pendingTx = l.pendingTx /\ a = Applied(l, t)
               \/ /\ hgt[t] = TX_UNCONFIRMED /\ a.pendingTx = l.pendingTx \cup {t}
                  /\ Uncounted(l, a)
    <2>1. a = Account(l, hgt, bh, t)
        OBVIOUS
    <2> HIDE DEF t, F, a
    <2>2. QED BY <1>2, <2>1, AccountCases
<1> HIDE DEF t, F, a
<1>5. t \notin l.invalidTx /\ t \notin l.pendingTx /\ F \subseteq F \cup {t}
    BY <1>1, <1>2
<1>6. ASSUME Uncounted(l, a), t \in a.invalidTx \cup a.pendingTx,
             a.invalidTx \cup a.pendingTx = l.invalidTx \cup l.pendingTx \cup {t}
      PROVE  Balances(a, F \cup {t}, n + 1)
    <2>1. Counted(a, F \cup {t}) = Counted(l, F)
        BY <1>1, <1>6 DEF Counted
    <2>2. a.balanceHist \in Seq(Int) /\ Len(a.balanceHist) = n + 1
        BY <1>3, <1>6 DEF Uncounted
    <2>3. QED BY <1>3, <1>6, <2>1, <2>2 DEF Balances, Uncounted
<1>7. ASSUME a = Applied(l, t), Kept(l, t, a), a.pendingTx = l.pendingTx
      PROVE  Balances(a, F \cup {t}, n + 1)
    <2> DEFINE spent == l.spentOutputs \cup Inputs[t]
               paid  == {o \in OutPoints(t) : Address(o) \in allAddrs}
               gone  == Gone(l, t, paid)
               after == l.balance + Total(paid) - Total(gone)
    <2>1. /\ a.utxos = (l.utxos \cup paid) \ gone
          /\ a.balance = after
          /\ a.balanceHist = Append(l.balanceHist, after)
          /\ a.totalReceived =
                l.totalReceived + (IF after > l.balance THEN after - l.balance ELSE 0)
          /\ a.totalSent = l.totalSent + (IF after < l.balance THEN l.balance - after ELSE 0)
        BY <1>2, <1>7 DEF Applied, IsLedger
    <2>2. IsFiniteSet(paid) /\ \A o \in paid : Exists(o) /\ o[1] = t /\ Address(o) \in allAddrs
        BY <1>1, PaidFacts
    <2>3. gone = (l.utxos \cup paid) \cap spent
        BY DEF Gone
    <2> HIDE DEF after, gone, paid, spent
    <2>4. Counted(a, F \cup {t}) = Counted(l, F) \cup {t}
        BY <1>1, <1>5, <1>7 DEF Counted, Kept
    <2>5. IsFiniteSet(l.utxos \cup paid) /\ l.utxos \cap paid = {}
        <3>1. \A o \in l.utxos : o[1] # t
            BY <1>1, <1>3 DEF Counted
        <3>2. QED BY <1>3, <2>2, <3>1, FS_Union
    <2>6. \A o \in l.utxos \cup paid : Amount(o) \in Int /\ Exists(o)
        BY <1>3, <2>2, AmountOfOutput
    <2>7. /\ Total(l.utxos) \in Int /\ Total(paid) \in Int
          /\ Total(l.utxos \cup paid) = Total(l.utxos) + Total(paid)
        BY <1>3, <2>2, <2>5, <2>6, TotalOfUnion
    <2>8. gone \in SUBSET (l.utxos \cup paid) /\ IsFiniteSet(gone)
          /\ IsFiniteSet((l.utxos \cup paid) \ gone)
        BY <2>3, <2>5, FS_Subset, FS_Difference
    <2>9. Total((l.utxos \cup paid) \ gone) = Total(l.utxos \cup paid) - Total(gone)
        BY <2>5, <2>6, <2>8, TotalOfDifference
    <2>10. Total(gone) \in Int
        BY <2>6, <2>8, TotalWithout
    <2>11. after \in Int /\ after = Total((l.utxos \cup paid) \ gone)
        BY <1>3, <2>7, <2>9, <2>10 DEF after
    <2>12. /\ a.balance \in Int /\ a.totalReceived \in Int /\ a.totalSent \in Int
           /\ a.balance = a.totalReceived - a.totalSent
        BY <1>3, <2>1, <2>11
    <2>13. a.balanceHist \in Seq(Int) /\ Len(a.balanceHist) = n + 1
        BY <1>3, <2>1, <2>11
    <2>14. ASSUME NEW o \in (l.utxos \cup paid) \ gone
           PROVE  /\ Exists(o) /\ o[1] \in Counted(l, F) \cup {t} /\ Address(o) \in allAddrs
                  /\ \A u \in Counted(l, F) \cup {t} : o \notin Inputs[u]
        <3>1. Exists(o) /\ o[1] \in Counted(l, F) \cup {t} /\ Address(o) \in allAddrs
            BY <1>3, <2>2
        <3>2. o \notin spent
            BY <2>3
        <3>3. \A u \in Counted(l, F) \cup {t} : Inputs[u] \subseteq spent
            BY <1>2 DEF Counted, spent
        <3>4. QED BY <3>1, <3>2, <3>3
    <2>15. QED BY <2>1, <2>4, <2>8, <2>11, <2>12, <2>13, <2>14 DEF Balances
<1>8. Balances(a, First(s, n + 1), n + 1)
    <2>1. Lost(l, t, a) => /\ t \in a.invalidTx \cup a.pendingTx
                           /\ a.invalidTx \cup a.pendingTx = l.invalidTx \cup l.pendingTx \cup {t}
        BY DEF Lost
    <2>2. Kept(l, t, a) /\ a.pendingTx = l.pendingTx \cup {t} =>
              /\ t \in a.invalidTx \cup a.pendingTx
              /\ a.invalidTx \cup a.pendingTx = l.invalidTx \cup l.pendingTx \cup {t}
        BY DEF Kept
    <2>3. QED BY <1>1, <1>4, <1>6, <1>7, <2>1, <2>2
<1>9. QED BY <1>8 DEF a, t

(* The whole loop: the turns follow each other from the empty ledger.      *)
LEMMA UpdateBalanceTurns ==
    ASSUME NEW s \in Seq(Tx), NEW hgt, NEW bh
    PROVE  \E led : /\ led[0] = EmptyLedger
                    /\ \A i \in 1..Len(s) : led[i] = Account(led[i - 1], hgt, bh, s[i])
                    /\ UpdateBalance(s, hgt, bh) = led[Len(s)]
<1> DEFINE Step(r, i) == IF i = 0 THEN EmptyLedger ELSE Account(r[i - 1], hgt, bh, s[i])
           led[i \in 0..Len(s)] ==
              IF i = 0 THEN EmptyLedger ELSE Account(led[i - 1], hgt, bh, s[i])
           Defined == {n \in Nat : \E r : r = [i \in 0..n |-> Step(r, i)]}
<1>1. Len(s) \in Nat
    OBVIOUS
<1>2. led = [i \in 0..Len(s) |-> Step(led, i)]
    <2>1. 0 \in Defined
        <3>1. [i \in 0..0 |-> EmptyLedger] = [i \in 0..0 |-> Step([j \in 0..0 |-> EmptyLedger], i)]
            OBVIOUS
        <3> HIDE DEF Step
        <3>2. QED BY <3>1
    <2>2. ASSUME NEW n \in Nat, n \in Defined PROVE n + 1 \in Defined
        <3>1. PICK k : k = [i \in 0..n |-> Step(k, i)]
            BY <2>2
        <3> DEFINE g == [i \in 0..(n + 1) |-> IF i = n + 1 THEN Step(k, n + 1) ELSE k[i]]
        <3>2. \A i \in 0..(n + 1) : g[i] = Step(g, i)
            <4> SUFFICES ASSUME NEW i \in 0..(n + 1) PROVE g[i] = Step(g, i)
                OBVIOUS
            <4>1. CASE i = n + 1
                <5>1. g[n] = k[n] /\ i # 0 /\ i - 1 = n
                    BY <4>1
                <5>2. QED BY <4>1, <5>1
            <4>2. CASE i # n + 1 /\ i # 0
                <5>1. i \in 0..n /\ i - 1 \in 0..n /\ g[i] = k[i] /\ g[i - 1] = k[i - 1]
                    BY <4>2
                <5>2. k[i] = Step(k, i)
                    BY <3>1, <5>1
                <5>3. QED BY <4>2, <5>1, <5>2
            <4>3. CASE i = 0
                <5>1. 0 \in 0..n /\ g[0] = k[0]
                    OBVIOUS
                <5>2. k[0] = Step(k, 0)
                    BY <3>1, <5>1
                <5>3. QED BY <4>3, <5>1, <5>2
            <4>4. QED BY <4>1, <4>2, <4>3
        <3>3. g = [i \in 0..(n + 1) |-> Step(g, i)]
            BY <3>2
        <3> HIDE DEF g, Step
        <3>4. QED BY <3>3
    <2>3. Len(s) \in Defined
        <3> HIDE DEF Defined
        <3> QED BY <1>1, <2>1, <2>2, NatSetInduction
    <2>4. QED BY <2>3
<1>3. UpdateBalance(s, hgt, bh) = led[Len(s)]
    BY DEF UpdateBalance
<1> HIDE DEF led
<1>4. led[0] = EmptyLedger
    BY <1>1, <1>2
<1>5. ASSUME NEW i \in 1..Len(s) PROVE led[i] = Account(led[i - 1], hgt, bh, s[i])
    <2>1. i \in 0..Len(s) /\ i # 0
        BY <1>1
    <2>2. led[i] = Step(led, i)
        <3> HIDE DEF Step
        <3> QED BY <1>2, <2>1
    <2>3. QED BY <2>1, <2>2
<1>6. QED BY <1>3, <1>4, <1>5

(* What _BRWalletUpdateBalance concludes from any sorted array.            *)
LEMMA UpdateBalanceConcludes ==
    ASSUME NEW s, NEW hgt, IsArray(hgt, s), NEW bh, NEW l, l = UpdateBalance(s, hgt, bh)
    PROVE  Sorts(l, hgt, ToSet(s)) /\ Balances(l, ToSet(s), Len(s))
<1>1. s \in Seq(Tx) /\ Len(s) \in Nat
    BY DEF IsArray
<1>2. PICK led : /\ led[0] = EmptyLedger
                 /\ \A i \in 1..Len(s) : led[i] = Account(led[i - 1], hgt, bh, s[i])
                 /\ UpdateBalance(s, hgt, bh) = led[Len(s)]
    BY <1>1, UpdateBalanceTurns
<1> DEFINE Right(n) == Sorts(led[n], hgt, First(s, n)) /\ Balances(led[n], First(s, n), n)
           Good == {n \in Nat : n <= Len(s) => Right(n)}
<1>3. 0 \in Good
    <2>1. First(s, 0) = {}
        BY DEF First
    <2>2. Sorts(EmptyLedger, hgt, {})
        BY DEF Sorts, IsLedger, EmptyLedger
    <2>3. Balances(EmptyLedger, {}, 0)
        BY TotalOfNone, FS_EmptySet DEF Balances, EmptyLedger
    <2>4. QED BY <1>2, <2>1, <2>2, <2>3
<1>4. ASSUME NEW n \in Nat, n \in Good PROVE n + 1 \in Good
    <2> SUFFICES ASSUME n + 1 <= Len(s) PROVE Right(n + 1)
        OBVIOUS
    <2>1. Sorts(led[n], hgt, First(s, n)) /\ Balances(led[n], First(s, n), n)
        BY <1>1, <1>4
    <2>2. led[n + 1] = Account(led[n], hgt, bh, s[n + 1])
        <3>1. n + 1 \in 1..Len(s) /\ (n + 1) - 1 = n
            BY <1>1
        <3>2. QED BY <1>2, <3>1
    <2>3. /\ Sorts(Account(led[n], hgt, bh, s[n + 1]), hgt, First(s, n + 1))
          /\ Balances(Account(led[n], hgt, bh, s[n + 1]), First(s, n + 1), n + 1)
        BY <2>1, TurnSorts, TurnBalances
    <2>4. QED BY <2>2, <2>3
<1>5. Len(s) \in Good
    <2> HIDE DEF Good
    <2> QED BY <1>1, <1>3, <1>4, NatSetInduction
<1>6. First(s, Len(s)) = ToSet(s)
    BY <1>1 DEF First, ToSet
<1>7. QED BY <1>1, <1>2, <1>5, <1>6

-----------------------------------------------------------------------------
(* The steps of the wallet                                                 *)

LedgerInv ==
    /\ WalletInv
    /\ MinedDisjoint
    /\ FlaggedAreUnconfirmed
    /\ DoubleSpendsExcluded
    /\ BalanceIsUnspent

(* Two arrays of the same transactions, each once, are equally long.       *)
LEMMA LengthOfArray ==
    ASSUME NEW s \in Seq(Tx), Distinct(s)
    PROVE  Len(s) = Cardinality(ToSet(s))
<1>1. DOMAIN s = 1..Len(s) /\ Len(s) \in Nat /\ ToSet(s) = {s[i] : i \in 1..Len(s)}
    BY DEF ToSet
<1>2. s \in [1..Len(s) -> ToSet(s)]
    BY <1>1
<1>3. s \in Bijection(1..Len(s), ToSet(s))
    BY <1>1, <1>2 DEF Distinct, Bijection, Injection, Surjection, IsInjective
<1>4. ExistsBijection(1..Len(s), ToSet(s))
    BY <1>3 DEF ExistsBijection
<1>5. IsFiniteSet(1..Len(s)) /\ Cardinality(1..Len(s)) = Len(s)
    BY <1>1, FS_Interval
<1>6. QED BY <1>4, <1>5, FS_Bijection

(* A step that recomputes the ledger leaves nothing of the old one.        *)
LEMMA Recomputed ==
    ASSUME WalletInv', MinedDisjoint', allAddrs \subseteq allAddrs',
           NEW bh, ledger' = UpdateBalance(transactions', height', bh)
    PROVE  FlaggedAreUnconfirmed' /\ DoubleSpendsExcluded' /\ BalanceIsUnspent'
<1> DEFINE s == transactions'
           hgt == height'
           l == ledger'
           T == ToSet(s)
<1>1. IsArray(hgt, s)
    <2>1. s \in Seq(Tx) /\ hgt \in [Tx -> Heights] /\ T \subseteq Tx
        BY DEF WalletInv, TypeOK, NoDangling
    <2>2. Sorted(hgt, s) /\ Distinct(s)
        BY DEF WalletInv, SortedByHeight, NoDangling, Sorted, Distinct
    <2>3. ConfirmedDisjoint(hgt, s)
        <3>1. \A t \in T : hgt[t] = mined'[t]
            BY DEF WalletInv, HeightsFollowChain
        <3>2. QED BY <2>1, <3>1 DEF ConfirmedDisjoint, MinedDisjoint, OnBestChain
    <2>4. QED BY <2>1, <2>2, <2>3 DEF IsArray
<1>2. Sorts(l, hgt, T) /\ Balances(l, T, Len(s))
    <2>1. l = UpdateBalance(s, hgt, bh)
        OBVIOUS
    <2> HIDE DEF s, hgt, l
    <2>2. QED BY <1>1, <2>1, UpdateBalanceConcludes
<1>3. FlaggedAreUnconfirmed'
    BY <1>2 DEF Sorts, FlaggedAreUnconfirmed
<1>4. DoubleSpendsExcluded'
    BY <1>2 DEF Sorts, DoubleSpendsExcluded
<1>5. BalanceIsUnspent'
    BY <1>2 DEF Balances, Counted, BalanceIsUnspent
<1>6. QED BY <1>3, <1>4, <1>5

(* A step that does not recompute it keeps what it is about.               *)
LEMMA NotRecomputed ==
    ASSUME LedgerInv, WalletInv', allAddrs \subseteq allAddrs', ledger' = ledger,
           ToSet(transactions') = ToSet(transactions),
           \A t \in ToSet(transactions) : Flagged(t) => height'[t] = height[t]
    PROVE  FlaggedAreUnconfirmed' /\ DoubleSpendsExcluded' /\ BalanceIsUnspent'
<1>1. Len(transactions') = Len(transactions)
    <2>1. /\ transactions \in Seq(Tx) /\ transactions' \in Seq(Tx)
          /\ Distinct(transactions) /\ Distinct(transactions')
        BY DEF LedgerInv, WalletInv, TypeOK, NoDangling, Distinct
    <2>2. QED BY <2>1, LengthOfArray
<1>2. FlaggedAreUnconfirmed'
    BY DEF LedgerInv, FlaggedAreUnconfirmed, Flagged
<1>3. DoubleSpendsExcluded'
    BY DEF LedgerInv, DoubleSpendsExcluded
<1>4. BalanceIsUnspent'
    BY <1>1 DEF LedgerInv, BalanceIsUnspent
<1>5. QED BY <1>2, <1>3, <1>4

(* The wallet never forgets an address.                                    *)
LEMMA AddressesStay == ASSUME WalletInv, [Next]_vars PROVE allAddrs \subseteq allAddrs'
<1>0. \A c \in Chains : chainLen[c] \in 0..MaxChain /\ chainLen[c] \in Nat
    BY InvFacts DEF WalletInv, TypeOK
<1>1. \A c \in Chains : chainLen'[c] \in Int /\ chainLen[c] <= chainLen'[c]
    <2>1. CASE chainLen' = chainLen
        BY <1>0, <2>1
    <2>2. ASSUME NEW t \in Tx, RelayTx(t)
          PROVE  \A c \in Chains : chainLen'[c] \in Int /\ chainLen[c] <= chainLen'[c]
        <3>1. \/ chainLen' = chainLen
              \/ chainLen' = [c \in Chains |->
                                Grown(chainLen[c], ledger'.usedAddrs, c, GapLimit[c])]
            BY <2>2 DEF RelayTx, RegisterTransaction
        <3>2. ASSUME NEW c \in Chains
              PROVE  Grown(chainLen[c], ledger'.usedAddrs, c, GapLimit[c]) \in chainLen[c]..MaxChain
            BY <1>0, GrownGrows
        <3>3. \A n \in Nat : \A m \in n..MaxChain : m \in Int /\ n <= m
            OBVIOUS
        <3>4. QED BY <1>0, <3>1, <3>2, <3>3
    <2>3. ASSUME NEW c \in Chains, NEW gap, GenerateAddrs(c, gap)
          PROVE  \A d \in Chains : chainLen'[d] \in Int /\ chainLen[d] <= chainLen'[d]
        <3> DEFINE n == Grown(chainLen[c], ledger.usedAddrs, c, gap)
        <3>1. n \in chainLen[c]..MaxChain
            BY <1>0, GrownGrows
        <3>2. chainLen' = [chainLen EXCEPT ![c] = n]
            BY <2>3 DEF GenerateAddrs, UnusedAddrs
        <3> HIDE DEF n
        <3>3. n \in Int /\ chainLen[c] <= n
            BY <1>0, <3>1
        <3>4. DOMAIN chainLen = Chains
            BY DEF WalletInv, TypeOK
        <3>5. \A d \in Chains : chainLen'[d] = IF d = c THEN n ELSE chainLen[d]
            BY <3>2, <3>4
        <3>6. QED BY <1>0, <3>3, <3>5
    <2>4. ASSUME NEW t \in Tx, NEW ts \in {0, 1}, VerifyTx(t, ts) PROVE chainLen' = chainLen
        BY <2>4 DEF VerifyTx, UpdateTransactions
    <2>5. ASSUME NEW t \in Tx, DropTx(t) PROVE chainLen' = chainLen
        BY <2>5 DEF DropTx, RemoveTransaction
    <2>6. ASSUME NEW b \in Blocks, ConnectBlock(b) PROVE chainLen' = chainLen
        BY <2>6 DEF ConnectBlock, UpdateTransactions, walletVars
    <2>7. ASSUME NEW h \in 0..MaxTip, Reorganize(h) PROVE chainLen' = chainLen
        BY <2>7 DEF Reorganize, SetTxUnconfirmedAfter
    <2>8. CASE UNCHANGED vars
        BY <1>0, <2>8 DEF vars
    <2>9. QED BY <2>1, <2>2, <2>3, <2>4, <2>5, <2>6, <2>7, <2>8 DEF Next
<1>2. ASSUME NEW c \in Chains, NEW i \in 0..(chainLen[c] - 1) PROVE <<c, i>> \in allAddrs'
    <2>1. i \in 0..(chainLen'[c] - 1)
        BY <1>0, <1>1
    <2>2. QED BY <2>1 DEF allAddrs, AddrsOf
<1>3. QED BY <1>2 DEF allAddrs, AddrsOf

(* A block spends nothing that the chain before it, or it itself, spends.  *)
LEMMA BlockSpendsOnce ==
    ASSUME NEW b \in Blocks, MinedDisjoint
    PROVE  \A t, u \in OnBestChain \cup ToSet(b) : t # u => Inputs[t] \cap Inputs[u] = {}
<1>1. PICK n \in 0..MaxBlockTx :
        /\ b \in [1..n -> Tx \ OnBestChain]
        /\ \A i \in 1..n : \A t \in OnBestChain \cup {b[j] : j \in 1..(i - 1)} :
               Inputs[t] \cap Inputs[b[i]] = {}
    BY DEF Blocks
<1>2. n \in Nat /\ DOMAIN b = 1..n /\ ToSet(b) = {b[i] : i \in 1..n}
    BY <1>1, WalletAssumption DEF ToSet
<1>3. ASSUME NEW t \in OnBestChain, NEW i \in 1..n PROVE Inputs[t] \cap Inputs[b[i]] = {}
    BY <1>1
<1>4. ASSUME NEW i \in 1..n, NEW j \in 1..n, j < i PROVE Inputs[b[j]] \cap Inputs[b[i]] = {}
    <2>1. j \in 1..(i - 1)
        BY <1>2, <1>4
    <2>2. QED BY <1>1, <2>1
<1>5. ASSUME NEW i \in 1..n, NEW j \in 1..n, b[i] # b[j]
      PROVE  Inputs[b[j]] \cap Inputs[b[i]] = {}
    <2>1. i < j \/ j < i
        BY <1>2, <1>5
    <2>2. QED BY <1>4, <2>1
<1>6. QED BY <1>2, <1>3, <1>5 DEF MinedDisjoint

(* So no step makes the chain spend an output twice.                       *)
LEMMA MinedDisjointStep ==
    ASSUME LedgerInv, [Next]_vars PROVE MinedDisjoint'
<1>0. MinedDisjoint /\ mined \in [Tx -> Heights]
    BY DEF LedgerInv, WalletInv, TypeOK
<1>1. CASE mined' = mined
    BY <1>0, <1>1 DEF MinedDisjoint, OnBestChain
<1>2. ASSUME NEW b \in Blocks, ConnectBlock(b) PROVE MinedDisjoint'
    <2>1. mined' = [t \in Tx |-> IF t \in ToSet(b) THEN tip + 1 ELSE mined[t]]
        BY <1>2 DEF ConnectBlock
    <2>2. OnBestChain' \subseteq OnBestChain \cup ToSet(b)
        BY <2>1 DEF OnBestChain
    <2>3. QED BY <1>0, <2>2, BlockSpendsOnce DEF MinedDisjoint
<1>3. ASSUME NEW h \in 0..MaxTip, Reorganize(h) PROVE MinedDisjoint'
    <2>1. OnBestChain' \subseteq OnBestChain
        BY <1>3 DEF Reorganize, OnBestChain
    <2>2. QED BY <1>0, <2>1 DEF MinedDisjoint
<1>4. ASSUME NEW t \in Tx, RelayTx(t) PROVE mined' = mined
    BY <1>4 DEF RelayTx
<1>5. ASSUME NEW t \in Tx, NEW ts \in {0, 1}, VerifyTx(t, ts) PROVE mined' = mined
    BY <1>5 DEF VerifyTx
<1>6. ASSUME NEW t \in Tx, DropTx(t) PROVE mined' = mined
    BY <1>6 DEF DropTx
<1>7. ASSUME NEW c \in Chains, NEW gap, GenerateAddrs(c, gap) PROVE mined' = mined
    BY <1>7 DEF GenerateAddrs
<1>8. CASE UNCHANGED vars
    BY <1>1, <1>8 DEF vars
<1>9. QED BY <1>1, <1>2, <1>3, <1>4, <1>5, <1>6, <1>7, <1>8 DEF Next

(* BRWalletUpdateTransactions recomputes the ledger, or it touched nothing *)
(* that is flagged.                                                        *)
LEMMA UpdateRecomputes ==
    ASSUME WalletInv, NEW b \in Seq(Tx), NEW h \in Heights, NEW ts \in {0, 1},
           UpdateTransactions(b, h, ts)
    PROVE  \/ ledger' = UpdateBalance(transactions', height', blockHeight')
           \/ /\ ledger' = ledger
              /\ ToSet(transactions') = ToSet(transactions)
              /\ \A t \in ToSet(transactions) : Flagged(t) => height'[t] = height[t]
<1>1. PICK u : /\ LoopInv(u, h, ToSet(b))
               /\ transactions' = u.txs /\ height' = u.hgt
               /\ ledger' = IF u.stale THEN UpdateBalance(u.txs, u.hgt, blockHeight') ELSE ledger
    BY UpdateTransactionsLoop
<1>2. CASE u.stale
    BY <1>1, <1>2
<1>3. CASE ~u.stale
    BY <1>1, <1>3 DEF LoopInv
<1>4. QED BY <1>2, <1>3

(* Every step keeps what the ledger says true.                             *)
LEMMA LedgerStep == LedgerInv /\ [Next]_vars => LedgerInv'
<1> SUFFICES ASSUME LedgerInv, [Next]_vars PROVE LedgerInv'
    OBVIOUS
<1> DEFINE Concluded == (FlaggedAreUnconfirmed /\ DoubleSpendsExcluded /\ BalanceIsUnspent)'
           Redone == \E bh : ledger' = UpdateBalance(transactions', height', bh)
           Left == /\ ledger' = ledger
                   /\ ToSet(transactions') = ToSet(transactions)
                   /\ \A t \in ToSet(transactions) : Flagged(t) => height'[t] = height[t]
<1>1. WalletInv /\ WalletInv' /\ MinedDisjoint' /\ allAddrs \subseteq allAddrs'
    BY NextInv, MinedDisjointStep, AddressesStay DEF LedgerInv
<1>2. Redone \/ Left => Concluded
    BY <1>1, Recomputed, NotRecomputed
<1>3. ASSUME NEW t \in Tx, RelayTx(t) PROVE Redone \/ Left
    <2>1. height' = height
        BY <1>3 DEF RelayTx, RegisterTransaction
    <2>2. CASE ContainsTx(allTx, t)
        BY <1>3, <2>1, <2>2 DEF RelayTx, RegisterTransaction
    <2>3. CASE ~ContainsTx(allTx, t)
        BY <1>3, <2>1, <2>3 DEF RelayTx, RegisterTransaction
    <2>4. QED BY <2>2, <2>3
<1>4. ASSUME NEW t \in Tx, NEW ts \in {0, 1}, VerifyTx(t, ts) PROVE Redone \/ Left
    <2>1. <<t>> \in Seq(Tx) /\ TX_UNCONFIRMED \in Heights
        BY HeightsOrdered
    <2>2. UpdateTransactions(<<t>>, TX_UNCONFIRMED, ts)
        BY <1>4 DEF VerifyTx
    <2>3. QED BY <1>1, <2>1, <2>2, UpdateRecomputes
<1>5. ASSUME NEW t \in Tx, DropTx(t) PROVE Redone \/ Left
    BY <1>5 DEF DropTx, RemoveTransaction
<1>6. ASSUME NEW b \in Blocks, ConnectBlock(b) PROVE Redone \/ Left
    <2>1. CASE b = <<>>
        BY <1>6, <2>1 DEF ConnectBlock, walletVars
    <2>2. CASE b # <<>>
        <3>1. b \in Seq(Tx)
            BY BlockFacts
        <3>2. tip + 1 \in Heights
            <4>1. tip < MaxTip /\ tip \in 0..MaxTip
                BY <1>1, <1>6 DEF ConnectBlock, WalletInv, TypeOK
            <4>2. QED BY <4>1, HeightsOrdered, WalletAssumption
        <3>3. UpdateTransactions(b, tip + 1, 1)
            BY <1>6, <2>2 DEF ConnectBlock
        <3>4. QED BY <1>1, <3>1, <3>2, <3>3, UpdateRecomputes
    <2>3. QED BY <2>1, <2>2
<1>7. ASSUME NEW h \in 0..MaxTip, Reorganize(h) PROVE Redone \/ Left
    <2>1. transactions' = transactions
        BY <1>7 DEF Reorganize, SetTxUnconfirmedAfter
    <2>2. CASE After(h) # {}
        BY <1>7, <2>1, <2>2 DEF Reorganize, SetTxUnconfirmedAfter
    <2>3. CASE After(h) = {}
        <3>1. height' = [t \in Tx |-> height[t]] /\ height' = height
            BY <1>1, <1>7, <2>3 DEF Reorganize, SetTxUnconfirmedAfter, WalletInv, TypeOK
        <3>2. QED BY <1>7, <2>1, <2>3, <3>1 DEF Reorganize, SetTxUnconfirmedAfter
    <2>4. QED BY <2>2, <2>3
<1>8. ASSUME NEW c \in Chains, NEW gap, GenerateAddrs(c, gap) PROVE Redone \/ Left
    BY <1>8 DEF GenerateAddrs, UnusedAddrs
<1>9. CASE UNCHANGED vars
    <2>1. Left
        BY <1>9 DEF vars
    <2>2. QED BY <1>1, <1>2, <2>1 DEF LedgerInv
<1> HIDE DEF Redone, Left
<1>10. QED BY <1>1, <1>2, <1>3, <1>4, <1>5, <1>6, <1>7, <1>8, <1>9 DEF LedgerInv, Next

(* It is true of an empty wallet.                                          *)
LEMMA LedgerInit == Init => LedgerInv
<1> SUFFICES ASSUME Init PROVE LedgerInv
    OBVIOUS
<1>1. WalletInv
    BY InitInv
<1>2. MinedDisjoint
    BY DEF Init, MinedDisjoint, OnBestChain
<1>3. transactions = <<>> /\ ToSet(transactions) = {} /\ Len(transactions) = 0
      /\ ledger = EmptyLedger
    BY DEF Init, ToSet
<1>4. FlaggedAreUnconfirmed /\ DoubleSpendsExcluded
    BY <1>3 DEF FlaggedAreUnconfirmed, DoubleSpendsExcluded, EmptyLedger
<1>5. BalanceIsUnspent
    BY <1>3, TotalOfNone DEF BalanceIsUnspent, EmptyLedger
<1>6. QED BY <1>1, <1>2, <1>4, <1>5 DEF LedgerInv

-----------------------------------------------------------------------------
LEMMA LedgerInvariant == Spec => []LedgerInv
BY LedgerInit, LedgerStep, PTL DEF Spec

(* Whatever was relayed, confirmed, reorganised or dropped, and although   *)
(* BRWalletUpdateTransactions recomputes the ledger only when something    *)
(* flagged was touched, only unconfirmed transactions of the wallet are    *)
(* flagged invalid or pending, and none is both.                           *)
THEOREM FlagsAreCurrent == Spec => []FlaggedAreUnconfirmed
<1>1. LedgerInv => FlaggedAreUnconfirmed
    BY DEF LedgerInv
<1>2. QED BY <1>1, LedgerInvariant, PTL

(* Of two transactions that spend the same output the wallet counts at     *)
(* most one, in whichever order they arrived and were confirmed.           *)
THEOREM NothingIsSpentTwice == Spec => []DoubleSpendsExcluded
<1>1. LedgerInv => DoubleSpendsExcluded
    BY DEF LedgerInv
<1>2. QED BY <1>1, LedgerInvariant, PTL

(* The balance is the sum of unspent outputs to the wallet's addresses of  *)
(* transactions that count, and what was received less what was sent.      *)
THEOREM BalanceIsRight == Spec => []BalanceIsUnspent
<1>1. LedgerInv => BalanceIsUnspent
    BY DEF LedgerInv
<1>2. QED BY <1>1, LedgerInvariant, PTL

-----------------------------------------------------------------------------
(* BRTxRelays: what is said of the messages of a peer that were not read *)

Message ==
    [type : {"inv", "tx", "getdata", "notfound", "reject", "pong"}, txs : SUBSET Tx,
     done : {"-", "load", "mempool", "publish", "getdata"}]

IsNews(m, t)   == m.type \in {"inv", "tx"} /\ t \in m.txs
IsReject(m, t) == m.type = "reject" /\ t \in m.txs
IsTalk(m, t)   == m.type \in {"getdata", "reject"} /\ t \in m.txs

News(s, t)    == \E i \in DOMAIN s : IsNews(s[i], t)
Talks(s, t)   == \E i \in DOMAIN s : IsTalk(s[i], t)
Once(s, t)    == \A i, j \in DOMAIN s : IsTalk(s[i], t) /\ IsTalk(s[j], t) => i = j
Ordered(s, t) == \A i \in DOMAIN s : IsReject(s[i], t) => \E j \in DOMAIN s : j > i /\ IsNews(s[j], t)

LEMMA ConcatElements ==
    ASSUME NEW S, NEW a \in Seq(S), NEW b \in Seq(S)
    PROVE  /\ a \o b \in Seq(S)
           /\ \A i \in DOMAIN (a \o b) : \/ i \in DOMAIN a /\ (a \o b)[i] = a[i]
                                         \/ /\ i - Len(a) \in DOMAIN b /\ (a \o b)[i] = b[i - Len(a)]
                                            /\ i > Len(a)
           /\ \A i \in DOMAIN a : i \in DOMAIN (a \o b) /\ (a \o b)[i] = a[i] /\ i <= Len(a) /\ i \in Int
           /\ \A i \in DOMAIN b : /\ Len(a) + i \in DOMAIN (a \o b) /\ (a \o b)[Len(a) + i] = b[i]
                                  /\ Len(a) + i > Len(a) /\ i \in Int
           /\ Len(a) \in Int
<1>1. /\ a \o b \in Seq(S) /\ Len(a \o b) = Len(a) + Len(b)
      /\ \A i \in 1..(Len(a) + Len(b)) : (a \o b)[i] = IF i <= Len(a) THEN a[i] ELSE b[i - Len(a)]
    BY ConcatProperties
<1>2. /\ DOMAIN a = 1..Len(a) /\ DOMAIN b = 1..Len(b) /\ Len(a) \in Nat /\ Len(b) \in Nat
      /\ DOMAIN (a \o b) = 1..(Len(a) + Len(b))
    BY <1>1
<1> DEFINE c == a \o b
           n == Len(a)
           m == Len(b)
<1>3. /\ DOMAIN a = 1..n /\ DOMAIN b = 1..m /\ n \in Nat /\ m \in Nat /\ DOMAIN c = 1..(n + m)
      /\ \A i \in 1..(n + m) : c[i] = IF i <= n THEN a[i] ELSE b[i - n]
    BY <1>1, <1>2
<1> HIDE DEF c, n, m
<1>4. \A i \in DOMAIN c : (i \in DOMAIN a /\ c[i] = a[i]) \/ (i - n \in DOMAIN b /\ c[i] = b[i - n] /\ i > n)
    BY <1>3
<1>5. \A i \in DOMAIN a : i \in DOMAIN c /\ c[i] = a[i] /\ i <= n /\ i \in Int
    BY <1>3
<1>6. ASSUME NEW i \in DOMAIN b
      PROVE  n + i \in DOMAIN c /\ c[n + i] = b[i] /\ n + i > n /\ i \in Int
    <2>1. i \in 1..m /\ n + i \in 1..(n + m) /\ ~(n + i <= n) /\ (n + i) - n = i
        BY <1>3
    <2>2. QED BY <1>3, <2>1
<1>7. QED BY <1>1, <1>3, <1>4, <1>5, <1>6 DEF c, n, m

(* The messages of a peer, and others behind them                          *)
LEMMA ConcatQueues ==
    ASSUME NEW a \in Seq(Message), NEW b \in Seq(Message), NEW t
    PROVE  /\ a \o b \in Seq(Message)
           /\ News(a \o b, t) <=> News(a, t) \/ News(b, t)
           /\ Talks(a \o b, t) <=> Talks(a, t) \/ Talks(b, t)
           /\ Once(a \o b, t) <=> Once(a, t) /\ Once(b, t) /\ ~(Talks(a, t) /\ Talks(b, t))
           /\ Ordered(a \o b, t) <=> (Ordered(a, t) \/ News(b, t)) /\ Ordered(b, t)
<1> DEFINE c == a \o b
           n == Len(a)
<1>1. /\ c \in Seq(Message)
      /\ \A i \in DOMAIN c : (i \in DOMAIN a /\ c[i] = a[i]) \/ (i - n \in DOMAIN b /\ c[i] = b[i - n] /\ i > n)
      /\ \A i \in DOMAIN a : i \in DOMAIN c /\ c[i] = a[i] /\ i <= n /\ i \in Int
      /\ \A i \in DOMAIN b : n + i \in DOMAIN c /\ c[n + i] = b[i] /\ n + i > n /\ i \in Int
      /\ n \in Int
    <2> HIDE DEF Message
    <2> QED BY ConcatElements
<1>2. \A i \in DOMAIN c : i \in Int
    BY <1>1
<1> HIDE DEF c, n, Message
<1>3. News(c, t) <=> News(a, t) \/ News(b, t)
    BY <1>1 DEF News
<1>4. Talks(c, t) <=> Talks(a, t) \/ Talks(b, t)
    BY <1>1 DEF Talks
<1>5. Once(c, t) <=> Once(a, t) /\ Once(b, t) /\ ~(Talks(a, t) /\ Talks(b, t))
    <2>1. ASSUME Once(c, t) PROVE Once(a, t) /\ Once(b, t) /\ ~(Talks(a, t) /\ Talks(b, t))
        <3>1. Once(a, t)
            BY <1>1, <2>1 DEF Once
        <3>2. Once(b, t)
            BY <1>1, <2>1 DEF Once
        <3>3. ASSUME Talks(a, t), Talks(b, t) PROVE FALSE
            <4>1. PICK i \in DOMAIN a : IsTalk(a[i], t)
                BY <3>3 DEF Talks
            <4>2. PICK j \in DOMAIN b : IsTalk(b[j], t)
                BY <3>3 DEF Talks
            <4>3. i = n + j
                BY <1>1, <2>1, <4>1, <4>2 DEF Once
            <4>4. QED BY <1>1, <4>3
        <3>4. QED BY <3>1, <3>2, <3>3
    <2>2. ASSUME Once(a, t), Once(b, t), ~(Talks(a, t) /\ Talks(b, t)) PROVE Once(c, t)
        <3> SUFFICES ASSUME NEW i \in DOMAIN c, NEW j \in DOMAIN c, IsTalk(c[i], t), IsTalk(c[j], t)
                     PROVE  i = j
            BY DEF Once
        <3>1. CASE i \in DOMAIN a /\ c[i] = a[i] /\ j \in DOMAIN a /\ c[j] = a[j]
            BY <2>2, <3>1 DEF Once
        <3>2. CASE i - n \in DOMAIN b /\ c[i] = b[i - n] /\ j - n \in DOMAIN b /\ c[j] = b[j - n]
            <4>1. i - n = j - n
                BY <2>2, <3>2 DEF Once
            <4>2. QED BY <4>1, <1>1, <1>2
        <3>3. CASE i \in DOMAIN a /\ c[i] = a[i] /\ j - n \in DOMAIN b /\ c[j] = b[j - n]
            BY <2>2, <3>3 DEF Talks
        <3>4. CASE j \in DOMAIN a /\ c[j] = a[j] /\ i - n \in DOMAIN b /\ c[i] = b[i - n]
            BY <2>2, <3>4 DEF Talks
        <3>5. QED BY <1>1, <3>1, <3>2, <3>3, <3>4
    <2>3. QED BY <2>1, <2>2
<1>6. Ordered(c, t) <=> (Ordered(a, t) \/ News(b, t)) /\ Ordered(b, t)
    <2>1. ASSUME Ordered(c, t), ~News(b, t) PROVE Ordered(a, t)
        <3> SUFFICES ASSUME NEW i \in DOMAIN a, IsReject(a[i], t)
                     PROVE  \E j \in DOMAIN a : j > i /\ IsNews(a[j], t)
            BY DEF Ordered
        <3>1. PICK j \in DOMAIN c : j > i /\ IsNews(c[j], t)
            BY <1>1, <2>1 DEF Ordered
        <3>2. ~(j - n \in DOMAIN b /\ c[j] = b[j - n])
            BY <2>1, <3>1 DEF News
        <3>3. QED BY <1>1, <3>1, <3>2
    <2>2. ASSUME Ordered(c, t) PROVE Ordered(b, t)
        <3> SUFFICES ASSUME NEW i \in DOMAIN b, IsReject(b[i], t)
                     PROVE  \E j \in DOMAIN b : j > i /\ IsNews(b[j], t)
            BY DEF Ordered
        <3>1. n + i \in DOMAIN c /\ c[n + i] = b[i] /\ i \in Int /\ n + i > n
            BY <1>1
        <3>2. PICK j \in DOMAIN c : j > n + i /\ IsNews(c[j], t)
            BY <3>1, <2>2 DEF Ordered
        <3>3. j - n \in DOMAIN b /\ c[j] = b[j - n]
            BY <1>1, <1>2, <3>1, <3>2
        <3>4. j - n > i
            BY <1>1, <1>2, <3>1, <3>2
        <3>5. QED BY <3>2, <3>3, <3>4
    <2>3. ASSUME Ordered(a, t) \/ News(b, t), Ordered(b, t) PROVE Ordered(c, t)
        <3> SUFFICES ASSUME NEW i \in DOMAIN c, IsReject(c[i], t)
                     PROVE  \E j \in DOMAIN c : j > i /\ IsNews(c[j], t)
            BY DEF Ordered
        <3>1. CASE i \in DOMAIN a /\ c[i] = a[i] /\ Ordered(a, t)
            <4>1. PICK j \in DOMAIN a : j > i /\ IsNews(a[j], t)
                BY <3>1 DEF Ordered
            <4>2. QED BY <1>1, <4>1
        <3>2. CASE i \in DOMAIN a /\ c[i] = a[i] /\ News(b, t)
            <4>1. PICK j \in DOMAIN b : IsNews(b[j], t)
                BY <3>2 DEF News
            <4>2. n + j \in DOMAIN c /\ c[n + j] = b[j] /\ n + j > i
                BY <1>1, <3>2
            <4>3. QED BY <4>1, <4>2
        <3>3. CASE i - n \in DOMAIN b /\ c[i] = b[i - n]
            <4>1. PICK j \in DOMAIN b : j > i - n /\ IsNews(b[j], t)
                BY <2>3, <3>3 DEF Ordered
            <4>2. n + j \in DOMAIN c /\ c[n + j] = b[j] /\ n + j > i
                BY <1>1, <1>2, <4>1
            <4>3. QED BY <4>1, <4>2
        <3>4. QED BY <1>1, <2>3, <3>1, <3>2, <3>3
    <2>4. QED BY <2>1, <2>2, <2>3
<1>7. QED BY <1>1, <1>3, <1>4, <1>5, <1>6 DEF c

LEMMA NoQueue ==
    ASSUME NEW t
    PROVE  <<>> \in Seq(Message) /\ ~News(<<>>, t) /\ ~Talks(<<>>, t) /\ Once(<<>>, t) /\ Ordered(<<>>, t)
<1>1. <<>> \in Seq(Message) /\ DOMAIN <<>> = {}
    OBVIOUS
<1>2. QED BY <1>1 DEF News, Talks, Once, Ordered

LEMMA OneMessage ==
    ASSUME NEW m \in Message, NEW t
    PROVE  /\ <<m>> \in Seq(Message)
           /\ News(<<m>>, t) <=> IsNews(m, t)
           /\ Talks(<<m>>, t) <=> IsTalk(m, t)
           /\ Once(<<m>>, t)
           /\ Ordered(<<m>>, t) <=> ~IsReject(m, t)
<1> HIDE DEF Message
<1> DEFINE s == <<m>>
<1>1. s \in Seq(Message) /\ DOMAIN s = {1} /\ s[1] = m
    OBVIOUS
<1> HIDE DEF s
<1>2. News(s, t) <=> IsNews(m, t)
    BY <1>1 DEF News
<1>3. Talks(s, t) <=> IsTalk(m, t)
    BY <1>1 DEF Talks
<1>4. Once(s, t)
    BY <1>1 DEF Once
<1>5. Ordered(s, t) <=> ~IsReject(m, t)
    BY <1>1 DEF Ordered
<1>6. QED BY <1>1, <1>2, <1>3, <1>4, <1>5 DEF s

LEMMA ConcatFacts ==
    ASSUME NEW S, NEW a \in Seq(S), NEW b \in Seq(S)
    PROVE  /\ a \o b \in Seq(S) /\ Len(a \o b) = Len(a) + Len(b)
           /\ \A i \in 1..(Len(a) + Len(b)) : (a \o b)[i] = IF i <= Len(a) THEN a[i] ELSE b[i - Len(a)]
BY ConcatProperties

(* The first message and the others                                        *)
LEMMA HeadThenTail ==
    ASSUME NEW S, NEW s \in Seq(S), s # <<>>
    PROVE  Head(s) \in S /\ Tail(s) \in Seq(S) /\ s = <<Head(s)>> \o Tail(s)
<1> DEFINE m == Head(s)
           r == Tail(s)
           o == <<m>>
           c == o \o r
<1>1. m \in S /\ r \in Seq(S) /\ Len(r) = Len(s) - 1 /\ m = s[1]
      /\ \A i \in 1..Len(r) : r[i] = s[i + 1]
    BY HeadTailProperties
<1>2. Len(s) \in Nat /\ Len(s) > 0
    BY EmptySeq
<1> HIDE DEF m, r
<1>3. o \in Seq(S) /\ Len(o) = 1 /\ o[1] = m
    BY <1>1
<1> HIDE DEF o
<1>4. c \in Seq(S) /\ Len(c) = Len(o) + Len(r)
      /\ \A i \in 1..(Len(o) + Len(r)) : c[i] = IF i <= Len(o) THEN o[i] ELSE r[i - Len(o)]
    <2>1. o \in Seq(S) /\ r \in Seq(S)
        BY <1>1, <1>3
    <2>2. QED BY ONLY <2>1, ConcatFacts
<1> HIDE DEF c
<1>5. Len(c) = Len(s)
    BY <1>1, <1>2, <1>3, <1>4
<1>6. ASSUME NEW i \in 1..Len(s) PROVE s[i] = c[i]
    <2>1. CASE i = 1
        BY <2>1, <1>1, <1>2, <1>3, <1>4
    <2>2. CASE i # 1
        <3>1. i - 1 \in 1..Len(r) /\ (i - 1) + 1 = i /\ ~(i <= 1) /\ i \in 1..(1 + Len(r))
            BY <1>1, <1>2, <2>2
        <3>2. QED BY <1>1, <1>3, <1>4, <3>1
    <2>3. QED BY <2>1, <2>2
<1>7. s = c
    BY <1>4, <1>5, <1>6, SeqEqual
<1>8. QED BY <1>1, <1>7 DEF c, o, m, r

LEMMA FirstMessage ==
    ASSUME NEW s \in Seq(Message), s # <<>>, NEW t
    PROVE  /\ Head(s) \in Message /\ Tail(s) \in Seq(Message)
           /\ News(s, t) <=> IsNews(Head(s), t) \/ News(Tail(s), t)
           /\ Talks(s, t) <=> IsTalk(Head(s), t) \/ Talks(Tail(s), t)
           /\ Once(s, t) <=> Once(Tail(s), t) /\ ~(IsTalk(Head(s), t) /\ Talks(Tail(s), t))
           /\ Ordered(s, t) <=> (~IsReject(Head(s), t) \/ News(Tail(s), t)) /\ Ordered(Tail(s), t)
<1> DEFINE m == Head(s)
           r == Tail(s)
           o == <<m>>
<1>1. m \in Message /\ r \in Seq(Message) /\ s = o \o r
    <2> HIDE DEF Message
    <2> QED BY HeadThenTail
<1> HIDE DEF m, r
<1>2. o \in Seq(Message) /\ (News(o, t) <=> IsNews(m, t)) /\ (Talks(o, t) <=> IsTalk(m, t))
      /\ Once(o, t) /\ (Ordered(o, t) <=> ~IsReject(m, t))
    BY <1>1, OneMessage
<1> HIDE DEF o, Message
<1>3. /\ News(o \o r, t) <=> News(o, t) \/ News(r, t)
      /\ Talks(o \o r, t) <=> Talks(o, t) \/ Talks(r, t)
      /\ Once(o \o r, t) <=> Once(o, t) /\ Once(r, t) /\ ~(Talks(o, t) /\ Talks(r, t))
      /\ Ordered(o \o r, t) <=> (Ordered(o, t) \/ News(r, t)) /\ Ordered(r, t)
    BY <1>1, <1>2, ConcatQueues
<1>4. QED BY <1>1, <1>2, <1>3 DEF m, r

(* What is left when t of the first message was handled: the others, and   *)
(* the first without t before them, which may be left out if it is about   *)
(* nothing any more.                                                       *)
Before(m, s) == <<m>> \o s

LEMMA LeftOfFirst ==
    ASSUME NEW s \in Seq(Message), s # <<>>, NEW t,
           NEW m \in Message, m.type = Head(s).type, m.txs = Head(s).txs \ {t},
           NEW r, (m.txs = {} /\ r = Tail(s)) \/ r = Before(m, Tail(s)), NEW u
    PROVE  /\ r \in Seq(Message)
           /\ News(r, u) <=> (u # t /\ IsNews(Head(s), u)) \/ News(Tail(s), u)
           /\ Talks(r, u) <=> (u # t /\ IsTalk(Head(s), u)) \/ Talks(Tail(s), u)
           /\ Once(r, u) <=> Once(Tail(s), u) /\ ~(u # t /\ IsTalk(Head(s), u) /\ Talks(Tail(s), u))
           /\ Ordered(r, u) <=> (~(u # t /\ IsReject(Head(s), u)) \/ News(Tail(s), u)) /\ Ordered(Tail(s), u)
<1> DEFINE h == Head(s)
           rest == Tail(s)
           o == <<m>>
<1>1. h \in Message /\ rest \in Seq(Message)
    BY FirstMessage
<1>3. /\ IsNews(m, u) <=> u # t /\ IsNews(h, u)
      /\ IsTalk(m, u) <=> u # t /\ IsTalk(h, u)
      /\ IsReject(m, u) <=> u # t /\ IsReject(h, u)
    BY DEF IsNews, IsTalk, IsReject
<1>4. CASE m.txs = {} /\ r = Tail(s)
    BY <1>1, <1>3, <1>4 DEF IsNews, IsTalk, IsReject
<1>5. CASE r = o \o rest
    <2> HIDE DEF Message, h, rest
    <2>1. o \in Seq(Message) /\ (News(o, u) <=> IsNews(m, u)) /\ (Talks(o, u) <=> IsTalk(m, u))
          /\ Once(o, u) /\ (Ordered(o, u) <=> ~IsReject(m, u))
        BY OneMessage
    <2> HIDE DEF o
    <2>2. /\ o \o rest \in Seq(Message)
          /\ News(o \o rest, u) <=> News(o, u) \/ News(rest, u)
          /\ Talks(o \o rest, u) <=> Talks(o, u) \/ Talks(rest, u)
          /\ Once(o \o rest, u) <=> Once(o, u) /\ Once(rest, u) /\ ~(Talks(o, u) /\ Talks(rest, u))
          /\ Ordered(o \o rest, u) <=> (Ordered(o, u) \/ News(rest, u)) /\ Ordered(rest, u)
        BY <1>1, <2>1, ConcatQueues
    <2>3. /\ r \in Seq(Message)
          /\ News(r, u) <=> (u # t /\ IsNews(h, u)) \/ News(rest, u)
          /\ Talks(r, u) <=> (u # t /\ IsTalk(h, u)) \/ Talks(rest, u)
          /\ Once(r, u) <=> Once(rest, u) /\ ~(u # t /\ IsTalk(h, u) /\ Talks(rest, u))
          /\ Ordered(r, u) <=> (~(u # t /\ IsReject(h, u)) \/ News(rest, u)) /\ Ordered(rest, u)
        BY <1>3, <1>5, <2>1, <2>2
    <2>4. QED BY <2>3 DEF h, rest
<1>6. QED BY <1>4, <1>5 DEF h, rest, o, Before

-----------------------------------------------------------------------------
(* BRTxRelays: the inductive invariant *)

(* The chain confirms parents before children, and what it confirms of the *)
(* wallet's the wallet has, at its height: so a transaction that is        *)
(* registered after its block is a stranger.                               *)
ChainKept ==
    /\ chainLen = FullChains
    /\ \A t \in OnBestChain : /\ Parents(t) \subseteq OnBestChain \cup {Foreign}
                              /\ Ours(t, Tx) => t \in allTx /\ height[t] = mined[t]

Task == [do : {"nothing", "update", "sweep"}, txs : Seq(Tx), stamp : {0, 1}]

NetTypes ==
    /\ status \in [Peer -> {"off", "connecting", "up", "leaving"}]
    /\ synced \subseteq Held
    /\ mempool \in [Peer -> {"none", "loaded", "waiting", "answered"}]
    /\ known \in [Peer -> SUBSET Tx] /\ pool \in [Peer -> SUBSET Tx]
    /\ in \in [Peer -> Seq(Message)]
    /\ missed \in [Peer -> SUBSET Tx]
    /\ downloadPeer \in Peer \cup {NoPeer} /\ syncing \in BOOLEAN /\ behind \in BOOLEAN
    /\ waiting \subseteq publishedTx /\ publishedTx \subseteq Tx
    /\ txRelays \in [Tx -> SUBSET Held] /\ txRequests \in [Tx -> SUBSET Peer]
    /\ section \in Task

(* What the thread with the lock has still to do is about unconfirmed      *)
(* transactions, and a sweep about those of the wallet's; and a sweep is   *)
(* begun, and goes on, with no peer up that is not flagged.                *)
SectionKept ==
    section # Nothing =>
        /\ section.do # "nothing" /\ section.txs # <<>>
        /\ \A t \in ToSet(section.txs) : height[t] = TX_UNCONFIRMED
        /\ section.do = "update" => Len(section.txs) = 1
        /\ section.do = "sweep" => /\ Up \subseteq synced
                                   /\ ToSet(section.txs) \cap allTx \subseteq ToSet(transactions)

PoolsClosed ==
    \A p \in Peer : \A t \in pool[p] : Parents(t) \subseteq pool[p] \cup {Foreign} \cup OnBestChain

(* Of what a node was told of a transaction and answers, one message is    *)
(* under way, and none for one that was not told to it; a rejection of     *)
(* what the node has now is followed by news of it; and for each           *)
(* transaction in the mempool that was asked for, the peer is counted,     *)
(* or the news is under way, or it was missed.                             *)
PeerInv(p) ==
    /\ status[p] \in {"off", "connecting"} => mempool[p] = "none"
    /\ \A t \in Tx :
          /\ Once(in[p], t)
          /\ Talks(in[p], t) => t \in known[p]
          /\ status[p] = "up" /\ AskedMempool(p) /\ t \in pool[p] =>
                /\ Ordered(in[p], t)
                /\ p \in txRelays[t] \/ News(in[p], t) \/ t \in missed[p]

RelaysInv ==
    /\ WalletInv /\ ChainKept /\ NetTypes /\ SectionKept /\ PoolsClosed
    /\ \A p \in Peer : PeerInv(p)

-----------------------------------------------------------------------------
(* The wallet and the chain *)

(* The chains of addresses have their full length.                         *)
LEMMA FullAddresses ==
    ASSUME ChainKept, NEW t \in Tx
    PROVE  /\ ContainsTx(allTx, t) => Ours(t, Tx)
           /\ ContainsTx(Tx, t) <=> Ours(t, Tx)
<1>1. allAddrs = AddrsOf(FullChains)
    BY DEF ChainKept, allAddrs
<1>2. \A o : IsWalletOutput(o, allAddrs) => o[1] \in Tx
    BY DEF IsWalletOutput, Exists
<1>3. QED BY <1>1, <1>2 DEF Ours, ContainsTx

(* Registering any transaction, mined or not                               *)
LEMMA RegisterInv ==
    ASSUME WalletInv, ChainKept, NEW t \in Tx, Register(t), UNCHANGED chain
    PROVE  /\ WalletInv' /\ ChainKept'
           /\ allTx' = allTx \cup {t} /\ height' = height
<1>0. mined' = mined /\ tip' = tip /\ OnBestChain' = OnBestChain
    BY DEF chain, OnBestChain
<1>1. CASE t \in allTx
    <2>1. UNCHANGED walletVars
        BY <1>1 DEF Register
    <2>2. UNCHANGED vars
        BY <2>1, <1>0 DEF walletVars, vars
    <2>3. WalletInv'
        BY <2>2, NextInv
    <2>4. ChainKept'
        BY <2>1, <1>0 DEF walletVars, ChainKept
    <2>5. QED BY <1>1, <2>1, <2>3, <2>4 DEF walletVars
<1>2. CASE t \notin allTx
    <2>1. RegisterTransaction(t)
        BY <1>2 DEF Register
    <2>2. allTx' = allTx \cup {t} /\ height' = height
        BY <2>1 DEF RegisterTransaction
    <2>3. chainLen' = chainLen
        <3>1. CASE ContainsTx(allTx, t)
            <4>1. chainLen' = [c \in Chains |-> Grown(chainLen[c], ledger'.usedAddrs, c, GapLimit[c])]
                BY <2>1, <3>1 DEF RegisterTransaction
            <4>2. chainLen = [c \in Chains |-> MaxChain] /\ MaxChain \in 0..MaxChain
                BY WalletAssumption DEF ChainKept, FullChains
            <4>3. \A c \in Chains : Grown(chainLen[c], ledger'.usedAddrs, c, GapLimit[c]) = MaxChain
                <5> TAKE c \in Chains
                <5>1. chainLen[c] = MaxChain
                    BY <4>2
                <5>2. Grown(MaxChain, ledger'.usedAddrs, c, GapLimit[c]) \in MaxChain..MaxChain
                    BY <4>2, GrownGrows
                <5>3. QED BY <5>1, <5>2, WalletAssumption
            <4>4. QED BY <4>1, <4>2, <4>3
        <3>2. CASE ~ContainsTx(allTx, t)
            BY <2>1, <3>2 DEF RegisterTransaction
        <3>3. QED BY <3>1, <3>2
    <2>4. ChainKept'
        BY <1>0, <2>2, <2>3 DEF ChainKept
    <2>5. WalletInv'
        <3>1. CASE mined[t] = TX_UNCONFIRMED
            <4>1. RelayTx(t)
                BY <1>0, <2>1, <3>1 DEF RelayTx
            <4>2. QED BY <4>1, RelayTxInv
        <3>2. CASE mined[t] # TX_UNCONFIRMED
            <4>1. ~Ours(t, Tx)
                BY <1>2, <3>2 DEF ChainKept, OnBestChain
            <4>2. ~ContainsTx(allTx, t)
                BY <4>1, FullAddresses
            <4>3. UNCHANGED <<transactions, ledger, chainLen, saved, height, timestamp, blockHeight>>
                BY <2>1, <4>2 DEF RegisterTransaction
            <4>4. TypeOK'
                BY <1>0, <2>2, <4>3 DEF WalletInv, TypeOK
            <4>5. SortedByHeight' /\ NoDangling' /\ SavedMatches' /\ HeightsFollowChain'
                BY <1>0, <2>2, <4>3
                DEF WalletInv, SortedByHeight, NoDangling, SavedMatches, HeightsFollowChain
            <4>6. UnknownAreNew' /\ ChainOrdered'
                BY <1>0, <2>2 DEF WalletInv, UnknownAreNew, ChainOrdered
            <4>7. HeldAreAssociated'
                BY <2>2, <4>3, StaysAssociated, InvFacts
                DEF WalletInv, HeldAreAssociated, ContainsTx, allAddrs
            <4>8. QED BY <4>4, <4>5, <4>6, <4>7 DEF WalletInv
        <3>3. QED BY <3>1, <3>2
    <2>6. QED BY <2>2, <2>4, <2>5
<1>3. QED BY <1>1, <1>2

(* An update of one transaction                                            *)
LEMMA UpdateOne ==
    ASSUME WalletInv, NEW t \in Tx, NEW h \in Heights, NEW ts \in {0, 1},
           UpdateTransactions(<<t>>, h, ts)
    PROVE  /\ allTx \ {t} \subseteq allTx' /\ allTx' \subseteq allTx
           /\ \A u \in Tx \ {t} : height'[u] = height[u]
           /\ h = TX_UNCONFIRMED => allTx' = allTx /\ height'[t] \in {height[t], TX_UNCONFIRMED}
           /\ t \in allTx /\ ContainsTx(allTx, t) => allTx' = allTx /\ height'[t] = h
           /\ chainLen' = chainLen
<1> DEFINE first == [all |-> allTx, txs |-> transactions, hgt |-> height, stamp |-> timestamp,
                     told |-> {}, stale |-> FALSE]
           b == <<t>>
           Step(r, i) == IF i = 0
                         THEN [all |-> allTx, txs |-> transactions, hgt |-> height,
                               stamp |-> timestamp, told |-> {}, stale |-> FALSE]
                         ELSE Updated(r[i - 1], b[i], h, ts)
           run[i \in 0..Len(b)] ==
              IF i = 0
              THEN [all |-> allTx, txs |-> transactions, hgt |-> height, stamp |-> timestamp,
                    told |-> {}, stale |-> FALSE]
              ELSE Updated(run[i - 1], b[i], h, ts)
<1>1. Len(b) = 1 /\ b[1] = t
    OBVIOUS
<1>2. \E r : r = [i \in 0..Len(b) |-> Step(r, i)]
    <2> DEFINE g == [i \in 0..1 |-> IF i = 0 THEN first ELSE Updated(first, t, h, ts)]
    <2>1. g[0] = first
        OBVIOUS
    <2>2. \A i \in 0..1 : g[i] = Step(g, i)
        <3>1. g[0] = Step(g, 0)
            BY <2>1
        <3>2. g[1] = Step(g, 1)
            <4>1. g[1] = Updated(first, t, h, ts) /\ b[1] = t /\ 1 - 1 = 0 /\ 1 # 0
                OBVIOUS
            <4> HIDE DEF g, first, b
            <4>2. QED BY <2>1, <4>1
        <3> HIDE DEF g, Step
        <3>3. QED BY <3>1, <3>2
    <2>3. g = [i \in 0..1 |-> Step(g, i)]
        BY <2>2
    <2> HIDE DEF g, Step, b
    <2>4. QED BY <1>1, <2>3
<1>3. run = [i \in 0..Len(b) |-> Step(run, i)]
    BY <1>2
<1> HIDE DEF run
<1> DEFINE u == Updated(first, t, h, ts)
<1>4. run[1] = u
    <2>1. run[0] = Step(run, 0) /\ run[1] = Step(run, 1)
        <3> HIDE DEF Step, b
        <3> QED BY <1>1, <1>3
    <2>2. run[0] = first
        BY <2>1
    <2>3. run[1] = Updated(run[1 - 1], b[1], h, ts)
        BY <2>1
    <2> HIDE DEF first, b
    <2>4. 1 - 1 = 0
        OBVIOUS
    <2>5. QED BY <1>1, <2>2, <2>3, <2>4
<1>5. allTx' = run[Len(b)].all /\ height' = run[Len(b)].hgt /\ chainLen' = chainLen
    BY DEF UpdateTransactions, run
<1>6. allTx' = u.all /\ height' = u.hgt
    <2> HIDE DEF u, b
    <2> QED BY <1>1, <1>4, <1>5
<1>7. height \in [Tx -> Heights]
    BY DEF WalletInv, TypeOK
<1>8. t \in Tx \ allTx => height[t] = TX_UNCONFIRMED
    BY DEF WalletInv, UnknownAreNew
<1>9. CASE t \notin allTx \/ (height[t] = h /\ timestamp[t] = ts)
    <2>1. u = first
        BY <1>9 DEF Updated
    <2>2. u.all = allTx /\ u.hgt = height
        BY <2>1
    <2> HIDE DEF u, first
    <2>3. allTx' = allTx /\ height' = height
        BY <1>6, <2>2
    <2>4. QED BY <1>5, <1>9, <2>3
<1>10. CASE ~(t \notin allTx \/ (height[t] = h /\ timestamp[t] = ts)) /\ ContainsTx(allTx, t)
    <2>1. u.all = allTx /\ u.hgt = [height EXCEPT ![t] = h]
        BY <1>10 DEF Updated
    <2> HIDE DEF u
    <2>2. QED BY <1>5, <1>6, <1>7, <2>1
<1>11. CASE ~(t \notin allTx \/ (height[t] = h /\ timestamp[t] = ts)) /\ ~ContainsTx(allTx, t)
    <2>1. /\ u.all = IF h # TX_UNCONFIRMED THEN allTx \ {t} ELSE allTx
          /\ u.hgt = [height EXCEPT ![t] = TX_UNCONFIRMED]
        BY <1>11 DEF Updated
    <2> HIDE DEF u
    <2>2. QED BY <1>5, <1>6, <1>7, <1>11, <2>1
<1>12. QED BY <1>9, <1>10, <1>11

(* The steps of BRTxRelays that change the wallet or the chain             *)
LEMMA RelayedBlockInv ==
    ASSUME RelaysInv, NEW t \in Tx, RelayedBlock(t)
    PROVE  /\ WalletInv' /\ ChainKept'
           /\ OnBestChain' = OnBestChain \cup {t} /\ t \notin OnBestChain
           /\ \A u \in allTx \ allTx' : mined'[u] # TX_UNCONFIRMED
<1> DEFINE b == <<t>>
<1>1. /\ t \in allTx /\ b \in Blocks /\ ConnectBlock(b) /\ tip < MaxTip
      /\ mined' = [u \in Tx |-> IF u \in ToSet(b) THEN tip + 1 ELSE mined[u]]
    BY DEF RelayedBlock, ConnectBlock
<1>2. b \in Seq(Tx) /\ ToSet(b) = {t} /\ b # <<>> /\ DOMAIN b = 1..1 /\ b[1] = t
    BY DEF ToSet
<1>3. WalletInv /\ ChainKept /\ tip \in 0..MaxTip /\ mined \in [Tx -> Heights]
    BY DEF RelaysInv, WalletInv, TypeOK
<1>4. tip + 1 \in Heights /\ tip + 1 # TX_UNCONFIRMED
    <2>1. tip + 1 \in 0..MaxTip
        BY <1>1, <1>3, WalletAssumption
    <2>2. QED BY <2>1, HeightsOrdered, WalletAssumption, TxAssumption
<1>5. UpdateTransactions(b, tip + 1, 1)
    <2> HIDE DEF b
    <2> QED BY <1>1, <1>2 DEF ConnectBlock
<1>6. WalletInv'
    <2> HIDE DEF b
    <2> QED BY <1>1, <1>3, ConnectBlockInv
<1>7. Parents(t) \subseteq OnBestChain \cup {Foreign} /\ t \notin OnBestChain
    <2> HIDE DEF b
    <2>1. PICK n \in 0..MaxBlockTx :
            /\ b \in [1..n -> Tx \ OnBestChain]
            /\ \A i \in 1..n :
                 LET before == OnBestChain \cup {b[j] : j \in 1..(i - 1)}
                 IN  b[i] \notin before /\ Parents(b[i]) \subseteq before \cup {Foreign}
        BY <1>1 DEF Blocks
    <2>2. 1..n = 1..1
        BY <1>2, <2>1
    <2>3. 1 \in 1..n /\ {b[j] : j \in 1..(1 - 1)} = {}
        BY <2>2
    <2>4. QED BY <1>2, <2>1, <2>3
<1>8. OnBestChain' = OnBestChain \cup {t}
    <2>1. mined' = [u \in Tx |-> IF u = t THEN tip + 1 ELSE mined[u]]
        BY <1>1, <1>2
    <2>2. QED BY <1>3, <1>4, <2>1 DEF OnBestChain
<1>9. /\ allTx \ {t} \subseteq allTx' /\ allTx' \subseteq allTx
      /\ \A u \in Tx \ {t} : height'[u] = height[u]
      /\ ContainsTx(allTx, t) => allTx' = allTx /\ height'[t] = tip + 1
      /\ chainLen' = chainLen
    BY <1>1, <1>3, <1>4, <1>5, UpdateOne
<1>10. Ours(t, Tx) => ContainsTx(allTx, t)
    <2> SUFFICES ASSUME Ours(t, Tx) PROVE ContainsTx(allTx, t)
        OBVIOUS
    <2>1. ContainsTx(Tx, t)
        BY <1>3, FullAddresses
    <2>2. CASE \E o \in OutPoints(t) : IsWalletOutput(o, allAddrs)
        BY <2>2 DEF ContainsTx
    <2>3. CASE \E o \in Inputs[t] : o[1] \in Tx /\ IsWalletOutput(o, allAddrs)
        <3>1. PICK o \in Inputs[t] : o[1] \in Tx /\ IsWalletOutput(o, allAddrs)
            BY <2>3
        <3> DEFINE u == o[1]
        <3>2. u \in OnBestChain
            BY <1>7, <3>1, TxAssumption DEF Parents
        <3>3. o \in OutPoints(u)
            <4>1. o \in (Tx \cup {Foreign}) \X Nat
                BY TxAssumption
            <4>2. o = <<o[1], o[2]>> /\ o[2] \in DOMAIN Outputs[u]
                BY <3>1, <4>1 DEF IsWalletOutput, Exists
            <4>3. QED BY <4>2 DEF OutPoints
        <3>4. ContainsTx(Tx, u)
            BY <3>1, <3>3 DEF ContainsTx
        <3>5. u \in allTx
            BY <1>3, <3>1, <3>2, <3>4, FullAddresses DEF ChainKept
        <3>6. QED BY <3>1, <3>5 DEF ContainsTx
    <2>4. QED BY <2>1, <2>2, <2>3 DEF ContainsTx
<1>11. ChainKept'
    <2>1. mined'[t] = tip + 1 /\ \A u \in Tx \ {t} : mined'[u] = mined[u]
        BY <1>1, <1>2
    <2>2. ASSUME NEW u \in OnBestChain'
          PROVE  /\ Parents(u) \subseteq OnBestChain' \cup {Foreign}
                 /\ Ours(u, Tx) => u \in allTx' /\ height'[u] = mined'[u]
        <3>1. CASE u = t
            BY <1>7, <1>8, <1>9, <1>10, <1>1, <2>1, <3>1
        <3>2. CASE u # t
            <4>1. u \in OnBestChain /\ u \in Tx
                BY <1>8, <2>2, <3>2 DEF OnBestChain
            <4>2. QED BY <1>3, <1>8, <1>9, <2>1, <3>2, <4>1 DEF ChainKept
        <3>3. QED BY <3>1, <3>2
    <2>3. chainLen' = FullChains
        BY <1>3, <1>9 DEF ChainKept
    <2>4. QED BY <2>2, <2>3 DEF ChainKept
<1>12. \A u \in allTx \ allTx' : mined'[u] # TX_UNCONFIRMED
    BY <1>1, <1>2, <1>4, <1>9, <1>3 DEF WalletInv, TypeOK
<1>13. QED BY <1>6, <1>7, <1>8, <1>11, <1>12

LEMMA DropInv ==
    ASSUME RelaysInv, NEW t \in ToSet(transactions), height[t] = TX_UNCONFIRMED,
           RemoveTransaction(t), UNCHANGED chain
    PROVE  /\ WalletInv' /\ ChainKept'
           /\ allTx' = allTx \ Removed(t) /\ ToSet(transactions') = ToSet(transactions) \ Removed(t)
           /\ \A u \in Tx : height'[u] \in {height[u], TX_UNCONFIRMED}
<1>1. WalletInv /\ ChainKept /\ t \in Tx
    BY InvFacts DEF RelaysInv
<1>2. mined' = mined /\ tip' = tip /\ OnBestChain' = OnBestChain /\ OnBestChain \subseteq Tx
    BY DEF chain, OnBestChain
<1>3. WalletInv'
    BY <1>1, <1>2, DropTxInv DEF DropTx
<1> DEFINE gone == Removed(t)
<1>4. /\ allTx' = allTx \ gone /\ transactions' = Without(transactions, gone)
      /\ height' = [u \in Tx |-> IF u \in gone THEN TX_UNCONFIRMED ELSE height[u]]
      /\ chainLen' = chainLen
    BY DEF RemoveTransaction
<1>5. \A u \in gone : height[u] = TX_UNCONFIRMED /\ u \in ToSet(transactions)
    BY <1>1, RemovedFacts
<1> HIDE DEF gone
<1>6. ToSet(transactions') = ToSet(transactions) \ gone
    BY <1>1, <1>4, InvFacts, WithoutProperties
<1>7. ASSUME NEW u \in OnBestChain, Ours(u, Tx)
      PROVE  u \in allTx' /\ height'[u] = mined[u]
    <2>1. u \in allTx /\ height[u] = mined[u] /\ mined[u] # TX_UNCONFIRMED /\ u \in Tx
        BY <1>1, <1>7 DEF ChainKept, OnBestChain
    <2>2. QED BY <1>4, <1>5, <2>1
<1>8. ChainKept'
    BY <1>1, <1>2, <1>4, <1>7 DEF ChainKept
<1>9. QED BY <1>3, <1>4, <1>6, <1>8 DEF gone

LEMMA MarkInv ==
    ASSUME RelaysInv, NEW t \in Tx, height[t] = TX_UNCONFIRMED, NEW ts \in {0, 1},
           UpdateTransactions(<<t>>, TX_UNCONFIRMED, ts), UNCHANGED chain
    PROVE  /\ WalletInv' /\ ChainKept'
           /\ allTx' = allTx /\ ToSet(transactions') = ToSet(transactions)
           /\ \A u \in Tx : height'[u] = height[u]
<1>1. WalletInv /\ ChainKept
    BY DEF RelaysInv
<1>2. mined' = mined /\ tip' = tip /\ OnBestChain' = OnBestChain /\ OnBestChain \subseteq Tx
    BY DEF chain, OnBestChain
<1>3. /\ <<t>> \in Seq(Tx) /\ ToSet(<<t>>) = {t} /\ TX_UNCONFIRMED \in Heights
    BY HeightsOrdered DEF ToSet
<1>4. mined' \in [Tx -> Heights] /\ tip' \in 0..MaxTip
    BY <1>1, <1>2 DEF WalletInv, TypeOK
<1>5. /\ TypeOK' /\ SortedByHeight' /\ NoDangling' /\ SavedMatches'
      /\ HeldAreAssociated' /\ UnknownAreNew'
      /\ ToSet(transactions') = ToSet(transactions)
    BY <1>1, <1>3, <1>4, UpdateTransactionsInv
<1>6. allTx' = allTx /\ chainLen' = chainLen /\ \A u \in Tx : height'[u] = height[u]
    BY <1>1, <1>3, UpdateOne
<1>7. HeightsFollowChain'
    BY <1>1, <1>2, <1>5, <1>6, InvFacts DEF HeightsFollowChain, WalletInv
<1>8. ChainOrdered'
    BY <1>1, <1>2 DEF ChainOrdered, WalletInv
<1>9. ChainKept'
    BY <1>1, <1>2, <1>6 DEF ChainKept
<1>10. QED BY <1>5, <1>6, <1>7, <1>8, <1>9 DEF WalletInv

(* A turn of the loop of _requestUnrelayedTxGetdataDone                    *)
LEMMA SweepInv ==
    ASSUME RelaysInv, Sweep
    PROVE  LET t == Last(section.txs)
           IN  /\ WalletInv' /\ ChainKept'
               /\ t \in ToSet(section.txs) /\ t \in Tx /\ height[t] = TX_UNCONFIRMED
               /\ \A u \in Tx : height'[u] \in {height[u], TX_UNCONFIRMED}
               /\ \/ allTx' = allTx /\ ToSet(transactions') = ToSet(transactions)
                  \/ /\ t \in ToSet(transactions) /\ Unwanted(t)
                     /\ allTx' = allTx \ Removed(t)
                     /\ ToSet(transactions') = ToSet(transactions) \ Removed(t)
<1> DEFINE t == Last(section.txs)
<1>1. section \in Task /\ SectionKept /\ WalletInv /\ UNCHANGED chain /\ section.do = "sweep"
    BY DEF RelaysInv, NetTypes, Sweep
<1>2. section # Nothing
    BY <1>1 DEF Nothing
<1>3. section.txs \in Seq(Tx) /\ section.txs # <<>>
    BY <1>1, <1>2 DEF Task, SectionKept
<1>4. t \in ToSet(section.txs) /\ t \in Tx
    <2> DEFINE s == section.txs
    <2>1. s \in Seq(Tx) /\ s # <<>>
        BY <1>3
    <2> HIDE DEF s
    <2>2. Len(s) \in DOMAIN s /\ s[Len(s)] \in Tx
        BY <2>1
    <2>3. QED BY <2>2 DEF s, Last, ToSet
<1>5. height[t] = TX_UNCONFIRMED /\ (t \in allTx => t \in ToSet(transactions))
    BY <1>1, <1>2, <1>4 DEF SectionKept
<1>6. /\ IF Unwanted(t)
         THEN IF t \in allTx THEN RemoveTransaction(t) ELSE UNCHANGED walletVars
         ELSE IF t \notin waiting /\ Cardinality(txRelays[t]) < MaxConnect
         THEN UpdateTransactions(<<t>>, TX_UNCONFIRMED, 0)
         ELSE UNCHANGED walletVars
    BY DEF Sweep
<1> HIDE DEF t
<1>7. height \in [Tx -> Heights]
    BY <1>1, InvFacts
<1>8. CASE UNCHANGED walletVars
    <2>1. UNCHANGED vars
        BY <1>1, <1>8 DEF vars, walletVars, chain
    <2>2. WalletInv'
        BY <1>1, <2>1, NextInv
    <2>3. ChainKept'
        BY <2>1 DEF vars, ChainKept, OnBestChain, RelaysInv
    <2>4. QED BY <1>4, <1>5, <1>8, <2>2, <2>3 DEF walletVars, t
<1>9. CASE Unwanted(t) /\ t \in allTx /\ RemoveTransaction(t)
    <2>1. t \in ToSet(transactions)
        BY <1>5, <1>9
    <2>2. QED BY <1>1, <1>4, <1>5, <1>9, <2>1, DropInv DEF t
<1>10. CASE UpdateTransactions(<<t>>, TX_UNCONFIRMED, 0)
    <2>1. QED BY <1>1, <1>4, <1>5, <1>10, MarkInv DEF t
<1>11. QED BY <1>6, <1>8, <1>9, <1>10

LEMMA UpdateInv ==
    ASSUME RelaysInv, Update
    PROVE  /\ WalletInv' /\ ChainKept' /\ allTx' = allTx /\ ToSet(transactions') = ToSet(transactions)
           /\ \A u \in Tx : height'[u] = height[u]
<1>1. section \in Task /\ SectionKept /\ UNCHANGED chain /\ section.do = "update"
      /\ UpdateTransactions(section.txs, TX_UNCONFIRMED, section.stamp)
    BY DEF RelaysInv, NetTypes, Update
<1>2. section # Nothing
    BY <1>1 DEF Nothing
<1> DEFINE s == section.txs
           t == s[1]
<1>3. s \in Seq(Tx) /\ Len(s) = 1 /\ section.stamp \in {0, 1}
    BY <1>1, <1>2 DEF Task, SectionKept
<1>4. t \in Tx /\ t \in ToSet(s) /\ s = <<t>>
    <2> HIDE DEF s
    <2> QED BY <1>3 DEF ToSet
<1>5. height[t] = TX_UNCONFIRMED
    BY <1>1, <1>2, <1>4 DEF SectionKept
<1> HIDE DEF t, s
<1>6. UpdateTransactions(<<t>>, TX_UNCONFIRMED, section.stamp)
    BY <1>1, <1>4 DEF s
<1>7. QED BY <1>1, <1>3, <1>4, <1>5, <1>6, MarkInv

LEMMA AppPublishInv ==
    ASSUME RelaysInv, NEW t \in Tx, AppPublish(t)
    PROVE  WalletInv' /\ ChainKept'
<1>1. UNCHANGED <<allTx, transactions, height, blockHeight, chainLen, ledger, saved, mined, tip>>
      /\ timestamp' = [timestamp EXCEPT ![t] = 1] /\ WalletInv /\ ChainKept
    BY DEF AppPublish, chain, RelaysInv
<1>2. TypeOK'
    BY <1>1 DEF WalletInv, TypeOK
<1>3. /\ SortedByHeight' /\ NoDangling' /\ SavedMatches' /\ HeightsFollowChain'
      /\ UnknownAreNew' /\ ChainOrdered'
    BY <1>1 DEF WalletInv, SortedByHeight, NoDangling, SavedMatches, HeightsFollowChain,
                UnknownAreNew, ChainOrdered, OnBestChain
<1>4. HeldAreAssociated'
    BY <1>1 DEF WalletInv, HeldAreAssociated, ContainsTx, allAddrs
<1>5. ChainKept'
    BY <1>1 DEF ChainKept, OnBestChain
<1>6. QED BY <1>2, <1>3, <1>4, <1>5 DEF WalletInv

LEMMA WalletUntouched ==
    ASSUME RelaysInv, UNCHANGED <<walletVars, chain>>
    PROVE  WalletInv' /\ ChainKept' /\ allTx' = allTx /\ height' = height
<1>1. UNCHANGED vars
    BY DEF vars, walletVars, chain
<1>2. WalletInv'
    BY <1>1, NextInv DEF RelaysInv
<1>3. ChainKept'
    BY <1>1 DEF vars, ChainKept, OnBestChain, RelaysInv
<1>4. QED BY <1>2, <1>3 DEF walletVars

(* A handler that registers t or does not                                  *)
LEMMA MayRegister ==
    ASSUME RelaysInv, NEW t \in Tx, Register(t) \/ UNCHANGED walletVars, UNCHANGED chain
    PROVE  WalletInv' /\ ChainKept' /\ allTx \subseteq allTx' /\ height' = height
<1>1. CASE Register(t)
    BY <1>1, RegisterInv DEF RelaysInv
<1>2. CASE UNCHANGED walletVars
    BY <1>2, WalletUntouched
<1>3. QED BY <1>1, <1>2

LEMMA RelayedTxWallet ==
    ASSUME RelaysInv, NEW p \in Peer, NEW t \in Tx,
           RelayedTx(p, t) \/ HasTx(p, t) \/ (\E accepts \in BOOLEAN : RequestedTx(p, t, accepts))
    PROVE  WalletInv' /\ ChainKept' /\ allTx \subseteq allTx' /\ height' = height
<1>1. CASE RelayedTx(p, t)
    <2>1. (Register(t) \/ UNCHANGED walletVars) /\ UNCHANGED chain
        BY <1>1 DEF RelayedTx
    <2>2. QED BY <2>1, MayRegister
<1>2. CASE HasTx(p, t)
    <2>1. (Register(t) \/ UNCHANGED walletVars) /\ UNCHANGED chain
        BY <1>2 DEF HasTx, walletVars
    <2>2. QED BY <2>1, MayRegister
<1>3. ASSUME NEW accepts \in BOOLEAN, RequestedTx(p, t, accepts)
      PROVE  WalletInv' /\ ChainKept' /\ allTx \subseteq allTx' /\ height' = height
    <2>1. (Register(t) \/ UNCHANGED walletVars) /\ UNCHANGED chain
        BY <1>3 DEF RequestedTx
    <2>2. QED BY <2>1, MayRegister
<1>4. QED BY <1>1, <1>2, <1>3

(* The steps that leave the wallet and the chain alone                     *)
Elsewhere ==
    \/ \E p \in Peer : Connect(p) \/ PeerConnected(p) \/ Leave(p)
    \/ \E p \in Peer, ended \in {"left", "timeout", "failure"} : Disconnected(p, ended)
    \/ CatchUp
    \/ \E p \in Peer, t \in Tx : RejectedTx(p, t)
    \/ \E p \in Peer : InvHandled(p) \/ NotFound(p)
    \/ \E p \in Peer : LoadDone(p) \/ MempoolDone(p) \/ LoadFailed(p) \/ PublishInvDone(p)
    \/ \E p \in Peer : GetdataDone(p)
    \/ \E p \in Peer : \/ \E t \in Tx : PoolGains(p, t)
                       \/ \E S \in SUBSET pool[p] : PoolLoses(p, S)

LEMMA ElsewhereUntouched == ASSUME Elsewhere PROVE UNCHANGED <<walletVars, chain>>
BY DEF Elsewhere, Connect, PeerConnected, Leave, Disconnected, CatchUp, RejectedTx, InvHandled, NotFound,
       LoadDone, MempoolDone, LoadFailed, PublishInvDone, GetdataDone, PoolGains, PoolLoses

LEMMA StepCases ==
    ASSUME RelaysNext
    PROVE  \/ Elsewhere
           \/ \E p \in Peer, t \in Tx : RelayedTx(p, t) \/ HasTx(p, t)
           \/ \E p \in Peer, t \in Tx, accepts \in BOOLEAN : RequestedTx(p, t, accepts)
           \/ Sweep \/ Update
           \/ \E t \in Tx : AppPublish(t) \/ RelayedBlock(t)
BY DEF RelaysNext, Elsewhere

LEMMA WalletKept == ASSUME RelaysInv, [RelaysNext]_relaysVars PROVE WalletInv' /\ ChainKept'
<1>1. CASE UNCHANGED relaysVars
    BY <1>1, WalletUntouched DEF relaysVars
<1>2. CASE Elsewhere
    BY <1>2, ElsewhereUntouched, WalletUntouched
<1>3. CASE \E p \in Peer, t \in Tx : RelayedTx(p, t) \/ HasTx(p, t)
    BY <1>3, RelayedTxWallet
<1>4. CASE \E p \in Peer, t \in Tx, accepts \in BOOLEAN : RequestedTx(p, t, accepts)
    BY <1>4, RelayedTxWallet
<1>5. CASE Sweep \/ Update
    BY <1>5, SweepInv, UpdateInv
<1>6. CASE \E t \in Tx : AppPublish(t) \/ RelayedBlock(t)
    BY <1>6, AppPublishInv, RelayedBlockInv
<1>7. QED BY <1>1, <1>2, <1>3, <1>4, <1>5, <1>6, StepCases

-----------------------------------------------------------------------------
(* The removed and their lineage *)

(* With what it spends of Tx                                               *)
LEMMA LineageClosed ==
    ASSUME NEW u \in Tx, NEW t \in Lineage(u), NEW w \in Tx, u \in Parents(w)
    PROVE  t \in Lineage(w)
BY TxAssumption DEF Lineage

LEMMA InLineage == ASSUME NEW t \in Tx PROVE t \in Lineage(t)
BY DEF Lineage

(* What a turn of the loop removes of a peer's mempool spends what the     *)
(* turn is about, which the peer has too.                                  *)
LEMMA RemovedLineage ==
    ASSUME WalletInv, ChainKept, PoolsClosed, pool \in [Peer -> SUBSET Tx],
           NEW t \in ToSet(transactions), height[t] = TX_UNCONFIRMED,
           NEW u \in Removed(t), NEW p \in Peer, u \in pool[p]
    PROVE  t \in Lineage(u) /\ t \in pool[p]
<1> DEFINE D == {w \in allTx : /\ t \in Lineage(w) /\ w \notin OnBestChain
                               /\ w \in pool[p] => t \in pool[p]}
           deps == [d \in allTx |-> Dependents(d)]
<1>1. /\ allTx \subseteq Tx /\ ToSet(transactions) \subseteq allTx /\ transactions \in Seq(Tx)
      /\ \A i \in 1..Len(transactions) : transactions[i] \in ToSet(transactions)
    BY InvFacts
<1>2. t \in Tx /\ t \in D
    BY <1>1, InLineage DEF WalletInv, HeightsFollowChain, OnBestChain
<1>3. ASSUME NEW d \in D, NEW w \in Dependents(d) PROVE w \in D
    <2>1. w \in allTx /\ w \in Tx /\ d \in Parents(w) /\ d \in Tx
        BY <1>1 DEF Dependents
    <2>2. t \in Lineage(w)
        BY <2>1, LineageClosed
    <2>3. w \notin OnBestChain
        BY <2>1, TxAssumption DEF ChainKept
    <2>4. w \in pool[p] => d \in pool[p]
        BY <2>1, TxAssumption DEF PoolsClosed
    <2>5. QED BY <2>1, <2>2, <2>3, <2>4
<1>4. D \in SUBSET allTx /\ t \in D /\ \A d \in D : deps[d] \subseteq D
    BY <1>2, <1>3
<1>5. Removed(t) = {w \in allTx : \A E \in SUBSET allTx :
                      t \in E /\ (\A d \in E : deps[d] \subseteq E) => w \in E}
    BY DEF Removed
<1>6. u \in D
    <2> HIDE DEF D, deps
    <2> QED BY <1>4, <1>5
<1>7. QED BY <1>6

-----------------------------------------------------------------------------
(* The mempools *)

LEMMA PoolsKept == ASSUME RelaysInv, [RelaysNext]_relaysVars PROVE PoolsClosed'
<1>1. PoolsClosed /\ pool \in [Peer -> SUBSET Tx]
    BY DEF RelaysInv, NetTypes
<1>2. ASSUME UNCHANGED <<pool, mined>> PROVE PoolsClosed'
    BY <1>1, <1>2 DEF PoolsClosed, OnBestChain
<1>3. ASSUME mined' = mined, NEW p \in Peer, NEW t \in Tx,
             Parents(t) \subseteq pool[p] \cup {Foreign} \cup OnBestChain,
             pool' = [pool EXCEPT ![p] = @ \cup {t}]
      PROVE  PoolsClosed'
    BY <1>1, <1>3 DEF PoolsClosed, OnBestChain
<1>4. CASE UNCHANGED relaysVars
    BY <1>2, <1>4 DEF relaysVars, chain
<1>5. CASE \E p \in Peer, t \in Tx : RelayedTx(p, t) \/ HasTx(p, t)
    BY <1>2, <1>5 DEF RelayedTx, HasTx, chain
<1>6. ASSUME NEW p \in Peer, NEW t \in Tx, NEW accepts \in BOOLEAN, RequestedTx(p, t, accepts)
      PROVE  PoolsClosed'
    <2>1. mined' = mined
        BY <1>6 DEF RequestedTx, chain
    <2>2. \/ pool' = pool
          \/ /\ pool' = [pool EXCEPT ![p] = @ \cup {t}]
             /\ t \in pool[p] \/ Parents(t) \subseteq pool[p] \cup {Foreign} \cup OnBestChain
        BY <1>6 DEF RequestedTx
    <2>3. QED BY <1>1, <1>2, <1>3, <2>1, <2>2 DEF PoolsClosed
<1>7. CASE Sweep \/ Update
    BY <1>2, <1>7 DEF Sweep, Update, chain
<1>8. ASSUME NEW t \in Tx, AppPublish(t) PROVE PoolsClosed'
    BY <1>2, <1>8 DEF AppPublish, chain
<1>9. ASSUME NEW t \in Tx, RelayedBlock(t) PROVE PoolsClosed'
    <2>1. OnBestChain' = OnBestChain \cup {t} /\ pool' = [p \in Peer |-> pool[p] \ {t}]
        BY <1>9, RelayedBlockInv DEF RelayedBlock
    <2>2. QED BY <1>1, <2>1 DEF PoolsClosed
<1>10. CASE Elsewhere
    <2>1. mined' = mined
        BY <1>10, ElsewhereUntouched DEF chain
    <2>2. ASSUME NEW p \in Peer, NEW t \in Tx, PoolGains(p, t) PROVE PoolsClosed'
        BY <1>3, <2>1, <2>2 DEF PoolGains
    <2>3. ASSUME NEW p \in Peer, NEW S \in SUBSET pool[p], PoolLoses(p, S) PROVE PoolsClosed'
        <3>1. pool' = [pool EXCEPT ![p] = @ \ S] /\ \A u \in pool[p] : Parents(u) \cap S # {} => u \in S
            BY <2>3 DEF PoolLoses
        <3>2. OnBestChain' = OnBestChain
            BY <2>1 DEF OnBestChain
        <3>3. ASSUME NEW q \in Peer, NEW t \in pool'[q]
              PROVE  Parents(t) \subseteq pool'[q] \cup {Foreign} \cup OnBestChain
            BY <1>1, <3>1, <3>3 DEF PoolsClosed
        <3>4. QED BY <3>2, <3>3 DEF PoolsClosed
    <2>4. CASE pool' = pool
        BY <1>2, <2>1, <2>4
    <2>5. \/ pool' = pool
          \/ \E p \in Peer : \/ \E t \in Tx : PoolGains(p, t)
                             \/ \E S \in SUBSET pool[p] : PoolLoses(p, S)
        BY <1>10 DEF Elsewhere, Connect, PeerConnected, Leave, Disconnected, CatchUp, RejectedTx,
                     InvHandled, NotFound, LoadDone, MempoolDone, LoadFailed, PublishInvDone, GetdataDone
    <2>6. QED BY <2>2, <2>3, <2>4, <2>5
<1>11. QED BY <1>4, <1>5, <1>6, <1>7, <1>8, <1>9, <1>10, StepCases

-----------------------------------------------------------------------------
(* Types *)

(* What the first message of a peer is about                               *)
LEMMA FirstTypes ==
    ASSUME NetTypes, NEW p \in Peer, in[p] # <<>>
    PROVE  /\ in[p] \in Seq(Message) /\ Head(in[p]) \in Message /\ Tail(in[p]) \in Seq(Message)
           /\ Head(in[p]).txs \subseteq Tx
<1>1. in[p] \in Seq(Message)
    BY DEF NetTypes
<1>2. Head(in[p]) \in Message /\ Tail(in[p]) \in Seq(Message)
    BY <1>1, FirstMessage
<1>3. QED BY <1>1, <1>2 DEF Message

LEMMA RestFacts ==
    ASSUME NetTypes, NEW p \in Peer, in[p] # <<>>, NEW t,
           NEW r, \/ r = Rest(p, t)
                  \/ r = <<Msg(Head(in[p]).type, Head(in[p]).txs \ {t})>> \o Tail(in[p])
    PROVE  /\ r \in Seq(Message)
           /\ \A u : /\ News(r, u) <=> (u # t /\ IsNews(Head(in[p]), u)) \/ News(Tail(in[p]), u)
                     /\ Talks(r, u) <=> (u # t /\ IsTalk(Head(in[p]), u)) \/ Talks(Tail(in[p]), u)
                     /\ Once(r, u) <=> /\ Once(Tail(in[p]), u)
                                       /\ ~(u # t /\ IsTalk(Head(in[p]), u) /\ Talks(Tail(in[p]), u))
                     /\ Ordered(r, u) <=> /\ ~(u # t /\ IsReject(Head(in[p]), u)) \/ News(Tail(in[p]), u)
                                          /\ Ordered(Tail(in[p]), u)
<1> DEFINE s == in[p]
           h == Head(in[p])
           rest == Tail(in[p])
           m == Msg(h.type, h.txs \ {t})
<1>1. s \in Seq(Message) /\ h \in Message /\ rest \in Seq(Message) /\ h.txs \subseteq Tx
    BY FirstTypes
<1>2. m \in Message /\ m.type = h.type /\ m.txs = h.txs \ {t}
    BY <1>1 DEF Message, Msg
<1>3. (m.txs = {} /\ r = rest) \/ r = Before(m, rest)
    BY <1>2 DEF Before, Rest
<1>4. h = Head(s) /\ rest = Tail(s) /\ s # <<>>
    OBVIOUS
<1> HIDE DEF m, s, h, rest
<1>5. ASSUME NEW u
      PROVE  /\ r \in Seq(Message)
             /\ News(r, u) <=> (u # t /\ IsNews(h, u)) \/ News(rest, u)
             /\ Talks(r, u) <=> (u # t /\ IsTalk(h, u)) \/ Talks(rest, u)
             /\ Once(r, u) <=> Once(rest, u) /\ ~(u # t /\ IsTalk(h, u) /\ Talks(rest, u))
             /\ Ordered(r, u) <=> (~(u # t /\ IsReject(h, u)) \/ News(rest, u)) /\ Ordered(rest, u)
    BY ONLY <1>1, <1>2, <1>3, <1>4, LeftOfFirst
<1>6. QED BY <1>5 DEF h, rest

(* What is sent: nothing but one message is silent, or news, or talk       *)
LEMMA SomeOrNone ==
    ASSUME NEW type \in {"inv", "tx", "getdata", "notfound", "reject"}, NEW A \in SUBSET Tx,
           NEW s, s = IF A = {} THEN <<>> ELSE <<Msg(type, A)>>, NEW t
    PROVE  /\ s \in Seq(Message)
           /\ News(s, t) <=> type \in {"inv", "tx"} /\ t \in A
           /\ Talks(s, t) <=> type \in {"getdata", "reject"} /\ t \in A
           /\ Once(s, t)
           /\ Ordered(s, t) <=> ~(type = "reject" /\ t \in A)
<1> DEFINE m == Msg(type, A)
<1>1. m \in Message /\ m.type = type /\ m.txs = A
    BY DEF Msg, Message
<1> HIDE DEF m
<1>2. CASE A = {}
    BY <1>2, NoQueue DEF m
<1>3. CASE A # {}
    <2>1. s = <<m>>
        BY <1>3 DEF m
    <2>2. QED BY <1>1, <2>1, OneMessage DEF IsNews, IsTalk, IsReject
<1>4. QED BY <1>2, <1>3

LEMMA OnePong ==
    ASSUME NEW callback \in {"load", "mempool", "publish", "getdata"}, NEW t
    PROVE  /\ <<PongOf(callback)>> \in Seq(Message)
           /\ ~News(<<PongOf(callback)>>, t) /\ ~Talks(<<PongOf(callback)>>, t)
           /\ Once(<<PongOf(callback)>>, t) /\ Ordered(<<PongOf(callback)>>, t)
<1> DEFINE m == PongOf(callback)
<1>1. m \in Message /\ m.type = "pong"
    BY DEF PongOf, Message
<1> HIDE DEF m
<1>2. QED BY <1>1, OneMessage DEF IsNews, IsTalk, IsReject, m

(* Two queues one behind the other, of which the second is no rejection    *)
LEMMA BothSent ==
    ASSUME NEW a \in Seq(Message), NEW b \in Seq(Message), NEW t,
           Once(a, t), Once(b, t), Ordered(a, t), Ordered(b, t), ~Talks(a, t) \/ ~Talks(b, t)
    PROVE  /\ a \o b \in Seq(Message)
           /\ News(a \o b, t) <=> News(a, t) \/ News(b, t)
           /\ Talks(a \o b, t) <=> Talks(a, t) \/ Talks(b, t)
           /\ Once(a \o b, t) /\ Ordered(a \o b, t)
BY ConcatQueues

LEMMA AnswerFacts ==
    ASSUME NetTypes, NEW p \in Peer, NEW S \in SUBSET Tx, NEW t
    PROVE  /\ Answer(p, S) \in Seq(Message)
           /\ News(Answer(p, S), t) <=> t \in S \cap pool[p]
           /\ ~Talks(Answer(p, S), t) /\ Once(Answer(p, S), t) /\ Ordered(Answer(p, S), t)
<1> DEFINE A == S \cap pool[p]
           B == S \ pool[p]
           a == IF A = {} THEN <<>> ELSE <<Msg("tx", A)>>
           b == IF B = {} THEN <<>> ELSE <<Msg("notfound", B)>>
<1>1. A \in SUBSET Tx /\ B \in SUBSET Tx
    OBVIOUS
<1> HIDE DEF A, B
<1>2. /\ a \in Seq(Message) /\ (News(a, t) <=> t \in A) /\ ~Talks(a, t) /\ Once(a, t) /\ Ordered(a, t)
      /\ b \in Seq(Message) /\ ~News(b, t) /\ ~Talks(b, t) /\ Once(b, t) /\ Ordered(b, t)
    BY <1>1, SomeOrNone
<1>3. Answer(p, S) = a \o b
    BY DEF Answer, A, B
<1> HIDE DEF a, b, Message
<1>4. /\ a \o b \in Seq(Message) /\ (News(a \o b, t) <=> News(a, t) \/ News(b, t))
      /\ (Talks(a \o b, t) <=> Talks(a, t) \/ Talks(b, t)) /\ Once(a \o b, t) /\ Ordered(a \o b, t)
    BY <1>2, BothSent
<1>5. QED BY <1>2, <1>3, <1>4 DEF A

LEMMA WantedFacts ==
    ASSUME NetTypes, NEW p \in Peer, NEW S \in SUBSET Tx, NEW t
    PROVE  /\ Wanted(p, S) \in Seq(Message)
           /\ ~News(Wanted(p, S), t) /\ (Talks(Wanted(p, S), t) => t \in S)
           /\ Once(Wanted(p, S), t) /\ Ordered(Wanted(p, S), t)
<1> DEFINE A == S \ pool[p]
           a == IF A = {} THEN <<>> ELSE <<Msg("getdata", A)>>
<1>1. A \in SUBSET Tx /\ Wanted(p, S) = a
    BY DEF Wanted
<1> HIDE DEF A
<1>2. a \in Seq(Message) /\ ~News(a, t) /\ (Talks(a, t) => t \in A) /\ Once(a, t) /\ Ordered(a, t)
    <2> DEFINE type == "getdata"
    <2>1. a = IF A = {} THEN <<>> ELSE <<Msg(type, A)>>
        OBVIOUS
    <2>2. type \in {"inv", "tx", "getdata", "notfound", "reject"} /\ type \notin {"inv", "tx"} /\ type # "reject"
        OBVIOUS
    <2> HIDE DEF type, a
    <2>3. QED BY ONLY <1>1, <2>1, <2>2, SomeOrNone
<1>3. QED BY <1>1, <1>2 DEF A

LEMMA MempoolFacts ==
    ASSUME NetTypes, NEW p \in Peer, NEW t
    PROVE  LET m == Mempool(p)
           IN  /\ m.msgs \in Seq(Message) /\ m.mem \in {"waiting", "answered"}
               /\ m.kn \in SUBSET Tx /\ known[p] \subseteq m.kn
               /\ ~Talks(m.msgs, t) /\ Once(m.msgs, t) /\ Ordered(m.msgs, t)
               /\ ~AskedMempool(p) /\ t \in pool[p] => News(m.msgs, t)
<1> DEFINE m == Mempool(p)
           o == <<Msg("inv", pool[p])>>
<1>1. pool[p] \in SUBSET Tx /\ known[p] \in SUBSET Tx /\ publishedTx \in SUBSET Tx
    BY DEF NetTypes
<1>2. CASE AskedMempool(p)
    <2>1. m.msgs = <<>> /\ m.mem \in {"waiting", "answered"} /\ m.kn = known[p]
        BY <1>2 DEF AskedMempool, Mempool
    <2>2. QED BY <1>1, <1>2, <2>1, NoQueue
<1>3. CASE ~AskedMempool(p)
    <2>1. m.msgs = o /\ m.mem = "waiting" /\ m.kn = known[p] \cup publishedTx
        BY <1>3 DEF AskedMempool, Mempool
    <2>2. /\ o \in Seq(Message) /\ ~Talks(o, t) /\ Once(o, t) /\ Ordered(o, t)
          /\ t \in pool[p] => News(o, t)
        <3> DEFINE x == Msg("inv", pool[p])
        <3>1. x \in Message /\ x.type = "inv" /\ x.txs = pool[p]
            BY <1>1 DEF Msg, Message
        <3> HIDE DEF x
        <3>2. QED BY <3>1, OneMessage DEF IsNews, IsTalk, IsReject, x
    <2> HIDE DEF o, m
    <2>3. QED BY <1>1, <1>3, <2>1, <2>2 DEF m
<1>4. QED BY <1>2, <1>3

LEMMA LoadFacts ==
    ASSUME NetTypes, NEW p \in Peer, NEW t
    PROVE  LET m == Load(p)
           IN  /\ m.msgs \in Seq(Message)
               /\ m.mem \in {"loaded", "waiting", "answered"}
               /\ m.mem \in {"waiting", "answered"} => AskedMempool(p)
               /\ m.kn = known[p] \cup publishedTx /\ m.kn \in SUBSET Tx
               /\ Talks(m.msgs, t) => t \in m.kn \ known[p]
               /\ Once(m.msgs, t) /\ Ordered(m.msgs, t)
<1> DEFINE a == Wanted(p, publishedTx \ known[p])
           b == <<PongOf("load")>>
<1>1. known[p] \in SUBSET Tx /\ publishedTx \in SUBSET Tx
      /\ mempool[p] \in {"none", "loaded", "waiting", "answered"}
    BY DEF NetTypes
<1>2. /\ Load(p).mem = (IF mempool[p] = "none" THEN "loaded" ELSE mempool[p])
      /\ Load(p).kn = known[p] \cup publishedTx /\ Load(p).msgs = a \o b
    BY DEF Load
<1>3. a \in Seq(Message) /\ (Talks(a, t) => t \in publishedTx \ known[p]) /\ Once(a, t) /\ Ordered(a, t)
    BY <1>1, WantedFacts
<1>4. b \in Seq(Message) /\ ~Talks(b, t) /\ Once(b, t) /\ Ordered(b, t)
    BY OnePong
<1> HIDE DEF a, b, Message
<1>5. /\ a \o b \in Seq(Message) /\ (Talks(a \o b, t) <=> Talks(a, t) \/ Talks(b, t))
      /\ Once(a \o b, t) /\ Ordered(a \o b, t)
    BY <1>3, <1>4, BothSent
<1>6. QED BY <1>1, <1>2, <1>3, <1>4, <1>5 DEF AskedMempool

(* What a peer is sent, with its new flags: messages of which none repeats *)
(* what was said, and news of the whole mempool if it is asked for now.    *)
Piece(p, m) ==
    /\ m.msgs \in Seq(Message)
    /\ m.mem \in {"none", "loaded", "waiting", "answered"}
    /\ m.kn \in SUBSET Tx /\ known[p] \subseteq m.kn
    /\ \A t \in Tx : /\ Talks(m.msgs, t) => t \in m.kn \ known[p]
                     /\ Once(m.msgs, t) /\ Ordered(m.msgs, t)
                     /\ m.mem \in {"waiting", "answered"} /\ t \in pool[p] =>
                           AskedMempool(p) \/ News(m.msgs, t)

LEMMA MempoolPiece == ASSUME NetTypes, NEW p \in Peer PROVE Piece(p, Mempool(p))
<1> DEFINE m == Mempool(p)
<1>1. \A t : /\ m.msgs \in Seq(Message) /\ m.mem \in {"waiting", "answered"}
             /\ m.kn \in SUBSET Tx /\ known[p] \subseteq m.kn
             /\ ~Talks(m.msgs, t) /\ Once(m.msgs, t) /\ Ordered(m.msgs, t)
             /\ ~AskedMempool(p) /\ t \in pool[p] => News(m.msgs, t)
    BY MempoolFacts
<1> HIDE DEF m
<1>2. Piece(p, m)
    BY <1>1 DEF Piece
<1>3. QED BY <1>2 DEF m

LEMMA LoadPiece == ASSUME NetTypes, NEW p \in Peer PROVE Piece(p, Load(p))
<1> DEFINE m == Load(p)
<1>1. \A t : /\ m.msgs \in Seq(Message) /\ m.mem \in {"loaded", "waiting", "answered"}
             /\ m.mem \in {"waiting", "answered"} => AskedMempool(p)
             /\ m.kn = known[p] \cup publishedTx /\ m.kn \in SUBSET Tx
             /\ Talks(m.msgs, t) => t \in m.kn \ known[p]
             /\ Once(m.msgs, t) /\ Ordered(m.msgs, t)
    BY LoadFacts
<1> HIDE DEF m
<1>2. Piece(p, m)
    BY <1>1 DEF Piece
<1>3. QED BY <1>2 DEF m

(* A peer that is sent such a piece, and one that is sent nothing          *)
LEMMA SentTo ==
    ASSUME NetTypes, NEW q \in Peer, PeerInv(q), NEW m, Piece(q, m),
           status[q] \in {"connecting", "up"}, status'[q] = "up",
           mempool'[q] = m.mem, known'[q] = m.kn, in'[q] = in[q] \o m.msgs,
           UNCHANGED <<pool, missed, txRelays>>
    PROVE  PeerInv(q)'
<1> DEFINE b == m.msgs
           a == in[q]
<1>1. a \in Seq(Message) /\ b \in Seq(Message) /\ in'[q] = a \o b
    BY DEF NetTypes, Piece
<1>2. ASSUME NEW t \in Tx
      PROVE  /\ Once(a \o b, t)
             /\ Talks(a \o b, t) => t \in known'[q]
             /\ (status'[q] = "up" /\ AskedMempool(q)' /\ t \in pool[q]) =>
                   /\ Ordered(a \o b, t)
                   /\ q \in txRelays[t] \/ News(a \o b, t) \/ t \in missed[q]
    <2>1. /\ Once(a, t) /\ (Talks(a, t) => t \in known[q])
          /\ status[q] = "up" /\ AskedMempool(q) /\ t \in pool[q] =>
                /\ Ordered(a, t)
                /\ q \in txRelays[t] \/ News(a, t) \/ t \in missed[q]
        BY DEF PeerInv
    <2>2. /\ Talks(b, t) => t \in known'[q] \ known[q]
          /\ Once(b, t) /\ Ordered(b, t) /\ known[q] \subseteq known'[q]
          /\ AskedMempool(q)' /\ t \in pool[q] => AskedMempool(q) \/ News(b, t)
        BY DEF Piece, AskedMempool
    <2>3. status[q] # "up" => ~AskedMempool(q)
        BY DEF PeerInv, AskedMempool
    <2> HIDE DEF a, b, Message
    <2>4. /\ News(a \o b, t) <=> News(a, t) \/ News(b, t)
          /\ Talks(a \o b, t) <=> Talks(a, t) \/ Talks(b, t)
          /\ Once(a \o b, t) <=> Once(a, t) /\ Once(b, t) /\ ~(Talks(a, t) /\ Talks(b, t))
          /\ Ordered(a \o b, t) <=> (Ordered(a, t) \/ News(b, t)) /\ Ordered(b, t)
        BY <1>1, ConcatQueues
    <2>5. QED BY <2>1, <2>2, <2>3, <2>4
<1> HIDE DEF a, b
<1>3. QED BY <1>1, <1>2 DEF PeerInv

LEMMA NotSentTo ==
    ASSUME NEW q \in Peer, PeerInv(q), in'[q] = in[q], mempool'[q] = mempool[q],
           known[q] \subseteq known'[q], pool'[q] \subseteq pool[q], missed[q] \subseteq missed'[q],
           \A t \in pool'[q] : q \in txRelays[t] => q \in txRelays'[t],
           status'[q] = status[q] \/ (status[q] = "connecting" /\ status'[q] = "up")
    PROVE  PeerInv(q)'
<1>1. status'[q] \in {"off", "connecting"} => mempool'[q] = "none"
    BY DEF PeerInv
<1>2. AskedMempool(q)' => AskedMempool(q)
    BY DEF AskedMempool
<1>3. status[q] = "connecting" => ~AskedMempool(q)
    BY DEF AskedMempool, PeerInv
<1>4. ASSUME NEW t \in Tx
      PROVE  /\ Once(in'[q], t)
             /\ Talks(in'[q], t) => t \in known'[q]
             /\ (status'[q] = "up" /\ AskedMempool(q)' /\ t \in pool'[q]) =>
                   /\ Ordered(in'[q], t)
                   /\ q \in txRelays'[t] \/ News(in'[q], t) \/ t \in missed'[q]
    BY <1>2, <1>3 DEF PeerInv
<1>5. QED BY <1>1, <1>4 DEF PeerInv

LEMMA SendsKeeps ==
    ASSUME NetTypes, \A q \in Peer : PeerInv(q), NEW news, Sends(news),
           \A q \in DOMAIN news \cap Peer : /\ Piece(q, news[q])
                                            /\ status[q] \in {"connecting", "up"} /\ status'[q] = "up",
           \A q \in Peer : status'[q] = status[q] \/ (status[q] = "connecting" /\ status'[q] = "up"),
           UNCHANGED <<pool, missed, txRelays>>
    PROVE  /\ mempool' \in [Peer -> {"none", "loaded", "waiting", "answered"}]
           /\ known' \in [Peer -> SUBSET Tx] /\ in' \in [Peer -> Seq(Message)]
           /\ \A q \in Peer : PeerInv(q)'
<1>1. /\ mempool \in [Peer -> {"none", "loaded", "waiting", "answered"}]
      /\ known \in [Peer -> SUBSET Tx] /\ in \in [Peer -> Seq(Message)]
      /\ pool \in [Peer -> SUBSET Tx] /\ missed \in [Peer -> SUBSET Tx]
    BY DEF NetTypes
<1>2. /\ mempool' = [q \in Peer |-> IF q \in DOMAIN news THEN news[q].mem ELSE mempool[q]]
      /\ known' = [q \in Peer |-> IF q \in DOMAIN news THEN news[q].kn ELSE known[q]]
      /\ in' = [q \in Peer |-> IF q \in DOMAIN news THEN in[q] \o news[q].msgs ELSE in[q]]
    BY DEF Sends
<1>3. ASSUME NEW q \in Peer
      PROVE  /\ mempool'[q] \in {"none", "loaded", "waiting", "answered"}
             /\ known'[q] \in SUBSET Tx /\ in'[q] \in Seq(Message)
             /\ PeerInv(q)'
    <2>1. CASE q \notin DOMAIN news
        <3>1. mempool'[q] = mempool[q] /\ known'[q] = known[q] /\ in'[q] = in[q]
            BY <1>2, <2>1
        <3>2. PeerInv(q)'
            BY <3>1, NotSentTo
        <3>3. QED BY <1>1, <3>1, <3>2
    <2>2. CASE q \in DOMAIN news
        <3> DEFINE m == news[q]
                   a == in[q]
                   b == m.msgs
        <3>1. mempool'[q] = m.mem /\ known'[q] = m.kn /\ in'[q] = a \o b /\ Piece(q, m)
            BY <1>2, <2>2
        <3>2. status[q] \in {"connecting", "up"} /\ status'[q] = "up" /\ PeerInv(q)
            BY <2>2
        <3>3. PeerInv(q)'
            <4> HIDE DEF m
            <4> QED BY <3>1, <3>2, SentTo
        <3>4. a \in Seq(Message) /\ b \in Seq(Message)
            BY <1>1, <3>1 DEF Piece
        <3>5. a \o b \in Seq(Message)
            <4> HIDE DEF a, b, Message
            <4> QED BY <3>4
        <3>6. m.mem \in {"none", "loaded", "waiting", "answered"} /\ m.kn \in SUBSET Tx
            BY <3>1 DEF Piece
        <3> HIDE DEF m, a, b
        <3>7. QED BY <3>1, <3>3, <3>5, <3>6
    <2>3. QED BY <2>1, <2>2
<1>4. QED BY <1>2, <1>3

(* What the new download peer is sent                                      *)
LEMMA BegunPieces ==
    ASSUME NetTypes, NEW d \in Peer
    PROVE  LET first == Wanted(d, publishedTx \ known[d])
               mem   == Mempool(d)
               begun == [mem |-> IF mempool[d] = "none" THEN "loaded" ELSE mempool[d],
                         kn |-> known[d] \cup publishedTx, msgs |-> first]
           IN  /\ Piece(d, begun)
               /\ Piece(d, [mem EXCEPT !.kn = begun.kn, !.msgs = first \o @])
<1> DEFINE first == Wanted(d, publishedTx \ known[d])
           mem   == Mempool(d)
           begun == [mem |-> IF mempool[d] = "none" THEN "loaded" ELSE mempool[d],
                     kn |-> known[d] \cup publishedTx, msgs |-> first]
           both  == [mem EXCEPT !.kn = begun.kn, !.msgs = first \o @]
           S     == publishedTx \ known[d]
           b     == mem.msgs
<1>1. known[d] \in SUBSET Tx /\ publishedTx \in SUBSET Tx /\ S \in SUBSET Tx
      /\ mempool[d] \in {"none", "loaded", "waiting", "answered"}
    BY DEF NetTypes
<1>2. \A t : /\ first \in Seq(Message) /\ ~News(first, t) /\ (Talks(first, t) => t \in S)
             /\ Once(first, t) /\ Ordered(first, t)
    <2> HIDE DEF S
    <2>1. QED BY <1>1, WantedFacts DEF S
<1>3. \A t : /\ b \in Seq(Message) /\ mem.mem \in {"waiting", "answered"}
             /\ ~Talks(b, t) /\ Once(b, t) /\ Ordered(b, t)
             /\ ~AskedMempool(d) /\ t \in pool[d] => News(b, t)
    BY MempoolFacts
<1>4. Piece(d, begun)
    <2>1. /\ begun.msgs = first /\ begun.kn = known[d] \cup publishedTx
          /\ begun.mem = IF mempool[d] = "none" THEN "loaded" ELSE mempool[d]
        OBVIOUS
    <2> HIDE DEF first, begun
    <2>2. begun.mem \in {"waiting", "answered"} => AskedMempool(d)
        BY <1>1, <2>1 DEF AskedMempool
    <2>3. QED BY <1>1, <1>2, <2>1, <2>2 DEF Piece
<1>5. /\ both.msgs = first \o b /\ both.kn = known[d] \cup publishedTx /\ both.mem = mem.mem
    BY DEF Mempool
<1> HIDE DEF first, b, mem, both, begun
<1>6. ASSUME NEW t \in Tx
      PROVE  /\ first \o b \in Seq(Message)
             /\ News(first \o b, t) <=> News(first, t) \/ News(b, t)
             /\ Talks(first \o b, t) <=> Talks(first, t) \/ Talks(b, t)
             /\ Once(first \o b, t) /\ Ordered(first \o b, t)
    <2> HIDE DEF Message
    <2>1. QED BY <1>2, <1>3, BothSent
<1>7. first \o b \in Seq(Message)
    <2> HIDE DEF Message
    <2>1. first \in Seq(Message) /\ b \in Seq(Message)
        BY <1>2, <1>3
    <2>2. QED BY <2>1
<1>8. Piece(d, both)
    <2>1. both.msgs \in Seq(Message) /\ both.mem \in {"loaded", "waiting", "answered"}
          /\ both.kn \in SUBSET Tx /\ known[d] \subseteq both.kn
        BY <1>1, <1>3, <1>5, <1>7
    <2>2. ASSUME NEW t \in Tx
          PROVE  /\ Talks(both.msgs, t) => t \in both.kn \ known[d]
                 /\ Once(both.msgs, t) /\ Ordered(both.msgs, t)
                 /\ t \in pool[d] => AskedMempool(d) \/ News(both.msgs, t)
        BY <1>2, <1>3, <1>5, <1>6
    <2>3. QED BY <2>1, <2>2 DEF Piece
<1>9. QED BY <1>4, <1>8 DEF first, mem, begun, both

-----------------------------------------------------------------------------
(* The peers, action by action: connections *)

NetKept == NetTypes' /\ \A q \in Peer : PeerInv(q)'

LEMMA ConnectKeeps == ASSUME RelaysInv, NEW p \in Peer, Connect(p) PROVE NetKept
<1>1. NetTypes /\ \A q \in Peer : PeerInv(q)
    BY DEF RelaysInv
<1>2. /\ status[p] = "off" /\ status' = [status EXCEPT ![p] = "connecting"]
      /\ syncing' = (syncing \/ downloadPeer = NoPeer \/ behind)
      /\ UNCHANGED <<synced, mempool, known, in, pool, downloadPeer, behind, publishedTx, waiting,
                     txRelays, txRequests, section, missed>>
    BY DEF Connect, lists
<1>3. status' \in [Peer -> {"off", "connecting", "up", "leaving"}] /\ Held \subseteq Held'
    BY <1>1, <1>2 DEF NetTypes, Held
<1>4. syncing' \in BOOLEAN
    BY <1>2
<1>5. NetTypes'
    BY <1>1, <1>2, <1>3, <1>4 DEF NetTypes
<1>6. ASSUME NEW q \in Peer PROVE PeerInv(q)'
    <2>1. CASE q = p
        <3>1. mempool[p] = "none" /\ status'[p] = "connecting"
            BY <1>1, <1>2 DEF PeerInv, NetTypes
        <3>2. QED BY <1>1, <1>2, <2>1, <3>1 DEF PeerInv
    <2>2. CASE q # p
        BY <1>1, <1>2, <2>2, NotSentTo DEF NetTypes
    <2>3. QED BY <2>1, <2>2
<1>7. QED BY <1>5, <1>6 DEF NetKept

LEMMA PeerConnectedKeeps == ASSUME RelaysInv, NEW p \in Peer, PeerConnected(p) PROVE NetKept
<1>1. NetTypes /\ \A q \in Peer : PeerInv(q)
    BY DEF RelaysInv
<1>2. /\ status[p] = "connecting" /\ status' = [status EXCEPT ![p] = "up"]
      /\ UNCHANGED <<synced, pool, syncing, behind, publishedTx, waiting, txRelays, txRequests, section,
                     missed>>
      /\ \/ UNCHANGED <<mempool, known, in, downloadPeer>>
         \/ Sends([q \in {p} |-> Load(q)]) /\ UNCHANGED downloadPeer
         \/ \E d \in Up \cup {p} : DownloadFrom(d, Up \cup {p})
    BY DEF PeerConnected, lists
<1>3. /\ status' \in [Peer -> {"off", "connecting", "up", "leaving"}] /\ Held' = Held
      /\ status'[p] = "up"
      /\ \A q \in Peer : /\ status'[q] = status[q] \/ (status[q] = "connecting" /\ status'[q] = "up")
                         /\ q \in Up \cup {p} => status[q] \in {"connecting", "up"} /\ status'[q] = "up"
    BY <1>1, <1>2 DEF NetTypes, Held, Up
<1>4. /\ mempool' \in [Peer -> {"none", "loaded", "waiting", "answered"}]
      /\ known' \in [Peer -> SUBSET Tx] /\ in' \in [Peer -> Seq(Message)]
      /\ downloadPeer' \in Peer \cup {NoPeer}
      /\ \A q \in Peer : PeerInv(q)'
    <2>1. CASE UNCHANGED <<mempool, known, in, downloadPeer>>
        <3>1. \A q \in Peer : PeerInv(q)'
            BY <1>1, <1>2, <1>3, <2>1, NotSentTo
        <3>2. QED BY <1>1, <2>1, <3>1 DEF NetTypes
    <2>2. CASE Sends([q \in {p} |-> Load(q)]) /\ UNCHANGED downloadPeer
        <3> DEFINE news == [q \in {p} |-> Load(q)]
        <3>1. DOMAIN news = {p} /\ news[p] = Load(p)
            OBVIOUS
        <3> HIDE DEF news
        <3>2. \A q \in DOMAIN news \cap Peer : /\ Piece(q, news[q])
                                               /\ status[q] \in {"connecting", "up"} /\ status'[q] = "up"
            BY <1>1, <1>3, <3>1, LoadPiece
        <3>3. Sends(news)
            BY <2>2 DEF news
        <3>4. downloadPeer' \in Peer \cup {NoPeer}
            BY <1>1, <2>2 DEF NetTypes
        <3>5. QED BY <1>1, <1>2, <1>3, <3>2, <3>3, <3>4, SendsKeeps
    <2>3. ASSUME NEW d \in Up \cup {p}, DownloadFrom(d, Up \cup {p})
          PROVE  /\ mempool' \in [Peer -> {"none", "loaded", "waiting", "answered"}]
                 /\ known' \in [Peer -> SUBSET Tx] /\ in' \in [Peer -> Seq(Message)]
                 /\ downloadPeer' \in Peer \cup {NoPeer}
                 /\ \A q \in Peer : PeerInv(q)'
        <3> DEFINE first == Wanted(d, publishedTx \ known[d])
                   mem   == Mempool(d)
                   begun == [mem |-> IF mempool[d] = "none" THEN "loaded" ELSE mempool[d],
                             kn |-> known[d] \cup publishedTx, msgs |-> first]
                   both  == [mem EXCEPT !.kn = begun.kn, !.msgs = first \o @]
                   S     == Up \cup {p}
                   one   == [q \in {d} |-> begun]
                   all   == [q \in S |-> IF q = d THEN both ELSE Load(q)]
        <3>1. d \in Peer /\ S \subseteq Peer /\ downloadPeer' = d /\ d \in S
            BY <2>3 DEF Up, DownloadFrom
        <3>2. Piece(d, begun) /\ Piece(d, both)
            BY <1>1, <3>1, BegunPieces
        <3>3. Sends(one) \/ Sends(all)
            BY <2>3 DEF DownloadFrom
        <3>4. DOMAIN one = {d} /\ one[d] = begun
            OBVIOUS
        <3> HIDE DEF begun, both, first, mem
        <3>5. DOMAIN all = S /\ \A q \in S : all[q] = IF q = d THEN both ELSE Load(q)
            OBVIOUS
        <3> HIDE DEF one, all
        <3>6. \A q \in DOMAIN one \cap Peer : /\ Piece(q, one[q])
                                              /\ status[q] \in {"connecting", "up"} /\ status'[q] = "up"
            BY <1>3, <3>1, <3>2, <3>4
        <3>7. \A q \in DOMAIN all \cap Peer : /\ Piece(q, all[q])
                                              /\ status[q] \in {"connecting", "up"} /\ status'[q] = "up"
            <4>1. \A q \in S : Piece(q, all[q])
                BY <1>1, <3>1, <3>2, <3>5, LoadPiece
            <4>2. QED BY <1>3, <3>5, <4>1
        <3>8. /\ mempool' \in [Peer -> {"none", "loaded", "waiting", "answered"}]
              /\ known' \in [Peer -> SUBSET Tx] /\ in' \in [Peer -> Seq(Message)]
              /\ \A q \in Peer : PeerInv(q)'
            BY <1>1, <1>2, <1>3, <3>3, <3>6, <3>7, SendsKeeps
        <3>9. QED BY <3>1, <3>8
    <2>4. QED BY <1>2, <2>1, <2>2, <2>3
<1>5. NetTypes'
    BY <1>1, <1>2, <1>3, <1>4 DEF NetTypes
<1>6. QED BY <1>4, <1>5 DEF NetKept

LEMMA CatchUpKeeps == ASSUME RelaysInv, CatchUp PROVE NetKept
<1>1. NetTypes /\ \A q \in Peer : PeerInv(q)
    BY DEF RelaysInv
<1> DEFINE news == [p \in Up |-> IF p = downloadPeer THEN Mempool(p) ELSE Load(p)]
<1>2. /\ behind' = FALSE /\ Sends(news)
      /\ UNCHANGED <<status, synced, pool, downloadPeer, syncing, publishedTx, waiting, txRelays,
                     txRequests, section, missed>>
    BY DEF CatchUp, lists, LoadMempools
<1>3. DOMAIN news = Up /\ \A q \in Up : news[q] = Mempool(q) \/ news[q] = Load(q)
    OBVIOUS
<1> HIDE DEF news
<1>4. \A q \in DOMAIN news \cap Peer : /\ Piece(q, news[q])
                                       /\ status[q] \in {"connecting", "up"} /\ status'[q] = "up"
    BY <1>1, <1>2, <1>3, MempoolPiece, LoadPiece DEF Up
<1>5. /\ mempool' \in [Peer -> {"none", "loaded", "waiting", "answered"}]
      /\ known' \in [Peer -> SUBSET Tx] /\ in' \in [Peer -> Seq(Message)]
      /\ \A q \in Peer : PeerInv(q)'
    BY <1>1, <1>2, <1>4, SendsKeeps
<1>6. Held' = Held
    BY <1>2 DEF Held
<1>7. NetTypes'
    BY <1>1, <1>2, <1>5, <1>6 DEF NetTypes
<1>8. QED BY <1>5, <1>7 DEF NetKept

(* A queue of nothing but pongs says nothing of any transaction.           *)
LEMMA OnlyPongs ==
    ASSUME NEW s \in Seq(Message), \A m \in ToSet(s) : m.type = "pong", NEW t
    PROVE  ~News(s, t) /\ ~Talks(s, t) /\ Once(s, t) /\ Ordered(s, t)
<1>1. \A i \in DOMAIN s : s[i].type = "pong"
    BY DEF ToSet
<1>2. \A i \in DOMAIN s : ~IsNews(s[i], t) /\ ~IsTalk(s[i], t) /\ ~IsReject(s[i], t)
    BY <1>1 DEF IsNews, IsTalk, IsReject
<1>3. QED BY <1>2 DEF News, Talks, Once, Ordered

LEMMA LeaveKeeps == ASSUME RelaysInv, NEW p \in Peer, Leave(p) PROVE NetKept
<1>1. NetTypes /\ \A q \in Peer : PeerInv(q)
    BY DEF RelaysInv
<1> DEFINE s == in[p]
           D == {m \in ToSet(s) : m.type # "pong"}
           left == Without(s, D)
<1>2. /\ status[p] \in {"connecting", "up"} /\ status' = [status EXCEPT ![p] = "leaving"]
      /\ in' = [in EXCEPT ![p] = left]
      /\ UNCHANGED <<synced, mempool, known, pool, downloadPeer, syncing, behind, publishedTx, waiting,
                     txRelays, txRequests, section, missed>>
    BY DEF Leave, sync, lists
<1>3. s \in Seq(Message)
    BY <1>1 DEF NetTypes
<1>4. left \in Seq(Message) /\ \A m \in ToSet(left) : m.type = "pong"
    <2> HIDE DEF s, D, Message
    <2>1. left \in Seq(Message) /\ ToSet(left) = ToSet(s) \ D
        BY <1>3, WithoutElements
    <2> HIDE DEF left
    <2>2. QED BY <2>1 DEF D
<1> HIDE DEF left
<1>5. status' \in [Peer -> {"off", "connecting", "up", "leaving"}] /\ Held' = Held
    BY <1>1, <1>2 DEF NetTypes, Held
<1>6. in' \in [Peer -> Seq(Message)] /\ in'[p] = left /\ status'[p] = "leaving"
    <2> HIDE DEF Message
    <2> QED BY <1>1, <1>2, <1>4 DEF NetTypes
<1>7. NetTypes'
    BY <1>1, <1>2, <1>5, <1>6 DEF NetTypes
<1>8. ASSUME NEW q \in Peer PROVE PeerInv(q)'
    <2>1. CASE q = p
        <3>1. ASSUME NEW t \in Tx PROVE ~Talks(left, t) /\ Once(left, t)
            BY <1>4, OnlyPongs
        <3>2. QED BY <1>6, <2>1, <3>1 DEF PeerInv
    <2>2. CASE q # p
        <3>1. in'[q] = in[q] /\ status'[q] = status[q]
            BY <1>1, <1>2, <2>2 DEF NetTypes
        <3>2. QED BY <1>1, <1>2, <3>1, NotSentTo
    <2>3. QED BY <2>1, <2>2
<1>9. QED BY <1>7, <1>8 DEF NetKept

LEMMA DisconnectedKeeps ==
    ASSUME RelaysInv, NEW p \in Peer, NEW ended \in {"left", "timeout", "failure"}, Disconnected(p, ended)
    PROVE  NetKept
<1>1. NetTypes /\ \A q \in Peer : PeerInv(q)
    BY DEF RelaysInv
<1>2. /\ in[p] = <<>>
      /\ status' = [status EXCEPT ![p] = "off"] /\ synced' = synced \ {p}
      /\ mempool' = [mempool EXCEPT ![p] = "none"] /\ known' = [known EXCEPT ![p] = {}]
      /\ txRelays' = Dropped(txRelays, Tx, p)
      /\ downloadPeer' \in {downloadPeer, NoPeer}
      /\ syncing' = (syncing /\ ended # "failure")
      /\ missed' = [missed EXCEPT ![p] = {}]
      /\ UNCHANGED <<in, pool, behind, txRequests, section>>
    BY DEF Disconnected, Unflagged
<1>3. waiting' \subseteq publishedTx' /\ publishedTx' \subseteq publishedTx
    BY <1>1 DEF Disconnected, NetTypes
<1>4. status' \in [Peer -> {"off", "connecting", "up", "leaving"}] /\ Held' = Held \ {p}
    BY <1>1, <1>2 DEF NetTypes, Held
<1>5. \A t \in Tx : txRelays'[t] = txRelays[t] \ {p}
    BY <1>2 DEF Dropped
<1>6. txRelays' \in [Tx -> SUBSET Held']
    BY <1>1, <1>2, <1>4 DEF NetTypes, Dropped
<1>7. NetTypes'
    BY <1>1, <1>2, <1>3, <1>4, <1>6 DEF NetTypes
<1>8. ASSUME NEW q \in Peer PROVE PeerInv(q)'
    <2>1. CASE q = p
        <3>1. in'[p] = <<>> /\ status'[p] = "off" /\ mempool'[p] = "none"
            BY <1>1, <1>2 DEF NetTypes
        <3>2. ASSUME NEW t \in Tx PROVE Once(in'[p], t) /\ ~Talks(in'[p], t)
            BY <3>1, NoQueue
        <3>3. QED BY <2>1, <3>1, <3>2 DEF PeerInv
    <2>2. CASE q # p
        <3>1. /\ in'[q] = in[q] /\ status'[q] = status[q] /\ mempool'[q] = mempool[q]
              /\ known'[q] = known[q] /\ missed'[q] = missed[q]
            BY <1>1, <1>2, <2>2 DEF NetTypes
        <3>2. \A t \in pool'[q] : q \in txRelays[t] => q \in txRelays'[t]
            BY <1>1, <1>2, <1>5, <2>2 DEF NetTypes
        <3>3. QED BY <1>1, <1>2, <3>1, <3>2, NotSentTo
    <2>3. QED BY <2>1, <2>2
<1>9. QED BY <1>7, <1>8 DEF NetKept

-----------------------------------------------------------------------------
(* What is listed with a transaction: the recursion has a solution, and    *)
(* since no transaction spends itself, no other.                           *)
LEMMA ListingFacts ==
    ASSUME NEW t \in Tx, NEW all \in SUBSET Tx
    PROVE  /\ Listing(t, all) \subseteq Tx
           /\ t \notin publishedTx /\ height[t] = TX_UNCONFIRMED => t \in Listing(t, all)
<1> DEFINE Lists(u) == ~(u \in publishedTx \/ height[u] # TX_UNCONFIRMED)
           add[u \in Tx] ==
              IF u \in publishedTx \/ height[u] # TX_UNCONFIRMED THEN {}
              ELSE {u} \cup UNION {add[v] : v \in Parents(u) \cap all}
           Closed(P) == \A u \in Tx : Lists(u) =>
                           /\ <<u, u>> \in P
                           /\ \A v \in Parents(u) \cap all : \A w \in Tx : <<v, w>> \in P => <<u, w>> \in P
           g == [u \in Tx |-> {w \in Tx : \A P \in SUBSET (Tx \X Tx) : Closed(P) => <<u, w>> \in P}]
<1>1. ASSUME NEW u \in Tx, ~Lists(u) PROVE g[u] = {}
    <2> DEFINE P == {x \in Tx \X Tx : Lists(x[1])}
    <2>1. Closed(P)
        OBVIOUS
    <2>2. \A w \in Tx : <<u, w>> \notin P
        BY <1>1
    <2> HIDE DEF Closed, P, Lists
    <2>3. P \in SUBSET (Tx \X Tx)
        BY DEF P
    <2>4. QED BY <2>1, <2>2, <2>3
<1>2. ASSUME NEW u \in Tx, Lists(u)
      PROVE  u \in g[u] /\ \A v \in Parents(u) \cap all : g[v] \subseteq g[u]
    <2>1. u \in g[u]
        BY <1>2
    <2>2. ASSUME NEW v \in Parents(u) \cap all, NEW w \in g[v] PROVE w \in g[u]
        <3>1. v \in Tx /\ w \in Tx
            OBVIOUS
        <3>2. SUFFICES ASSUME NEW P \in SUBSET (Tx \X Tx), Closed(P) PROVE <<u, w>> \in P
            BY <3>1
        <3>3. <<v, w>> \in P
            <4> HIDE DEF Closed
            <4> QED BY <3>1, <3>2
        <3>4. QED BY <1>2, <3>1, <3>2, <3>3
    <2>3. QED BY <2>1, <2>2
<1>3. ASSUME NEW u \in Tx, Lists(u), NEW w \in g[u], w # u,
             \A v \in Parents(u) \cap all : w \notin g[v]
      PROVE  FALSE
    <2> DEFINE P == {x \in Tx \X Tx : x[2] \in g[x[1]] /\ x # <<u, w>>}
    <2>1. w \in Tx /\ \A a \in Tx : g[a] \subseteq Tx
        OBVIOUS
    <2> HIDE DEF g, Lists
    <2>2. ASSUME NEW a \in Tx, Lists(a)
          PROVE  /\ <<a, a>> \in P
                 /\ \A v \in Parents(a) \cap all : \A b \in Tx : <<v, b>> \in P => <<a, b>> \in P
        <3>1. <<a, a>> \in P
            BY <1>2, <1>3, <2>2
        <3>2. ASSUME NEW v \in Parents(a) \cap all, NEW b \in Tx, <<v, b>> \in P PROVE <<a, b>> \in P
            <4>1. b \in g[v] /\ v \in Tx
                BY <3>2
            <4>2. b \in g[a]
                BY <1>2, <2>2, <4>1
            <4>3. <<a, b>> # <<u, w>>
                BY <1>3, <4>1
            <4>4. QED BY <4>2, <4>3
        <3>3. QED BY <3>1, <3>2
    <2>3. Closed(P) /\ P \in SUBSET (Tx \X Tx)
        BY <2>2
    <2>4. <<u, w>> \in P
        <3> HIDE DEF P, Closed
        <3> QED BY <1>3, <2>1, <2>3 DEF g
    <2>5. QED BY <2>4
<1>4. ASSUME NEW u \in Tx
      PROVE  g[u] = IF u \in publishedTx \/ height[u] # TX_UNCONFIRMED THEN {}
                    ELSE {u} \cup UNION {g[v] : v \in Parents(u) \cap all}
    <2> HIDE DEF g
    <2>1. CASE ~Lists(u)
        BY <1>1, <2>1
    <2>2. CASE Lists(u)
        <3>1. g[u] = {u} \cup UNION {g[v] : v \in Parents(u) \cap all}
            <4> HIDE DEF Lists
            <4>1. {u} \cup UNION {g[v] : v \in Parents(u) \cap all} \subseteq g[u]
                BY <1>2, <2>2
            <4>2. g[u] \subseteq {u} \cup UNION {g[v] : v \in Parents(u) \cap all}
                BY <1>3, <2>2
            <4>3. QED BY <4>1, <4>2
        <3>2. QED BY <2>2, <3>1
    <2>3. QED BY <2>1, <2>2
<1>5. g = [u \in Tx |-> IF u \in publishedTx \/ height[u] # TX_UNCONFIRMED THEN {}
                        ELSE {u} \cup UNION {g[v] : v \in Parents(u) \cap all}]
    <2>1. g = [u \in Tx |-> g[u]]
        OBVIOUS
    <2> HIDE DEF g
    <2>2. QED BY <1>4, <2>1
<1> HIDE DEF g
<1>6. add = [u \in Tx |-> IF u \in publishedTx \/ height[u] # TX_UNCONFIRMED THEN {}
                          ELSE {u} \cup UNION {add[v] : v \in Parents(u) \cap all}]
    BY <1>5
<1>7. Listing(t, all) = add[t]
    BY DEF Listing
<1> HIDE DEF add
<1>8. ASSUME NEW u \in Tx
      PROVE  add[u] = IF u \in publishedTx \/ height[u] # TX_UNCONFIRMED THEN {}
                      ELSE {u} \cup UNION {add[v] : v \in Parents(u) \cap all}
    BY <1>6
<1> DEFINE S == {u \in Tx : ~(add[u] \subseteq Tx)}
<1>9. S = {}
    <2> SUFFICES ASSUME S # {} PROVE FALSE
        OBVIOUS
    <2>1. PICK u \in S : \A o \in Inputs[u] : o[1] \notin S
        <3> HIDE DEF S
        <3>1. S \subseteq Tx
            BY DEF S
        <3>2. QED BY <3>1, TxAcyclic
    <2>2. ASSUME NEW v \in Parents(u) \cap all PROVE add[v] \subseteq Tx
        <3>1. PICK o \in Inputs[u] : v = o[1]
            BY DEF Parents
        <3>2. v \notin S /\ v \in Tx
            BY <2>1, <3>1
        <3>3. QED BY <3>2
    <2>3. u \in Tx
        OBVIOUS
    <2>4. CASE ~Lists(u)
        <3>1. add[u] = {}
            BY <1>8, <2>3, <2>4
        <3>2. QED BY <2>3, <3>1
    <2>5. CASE Lists(u)
        <3>1. add[u] = {u} \cup UNION {add[v] : v \in Parents(u) \cap all}
            BY <1>8, <2>3, <2>5
        <3> HIDE DEF Lists
        <3>2. UNION {add[v] : v \in Parents(u) \cap all} \subseteq Tx
            BY <2>2
        <3>3. add[u] \subseteq Tx
            BY <2>3, <3>1, <3>2
        <3>4. QED BY <3>3
    <2>6. QED BY <2>4, <2>5
<1>10. add[t] \subseteq Tx
    BY <1>9
<1>11. t \notin publishedTx /\ height[t] = TX_UNCONFIRMED => t \in add[t]
    <2> DEFINE rest == UNION {add[v] : v \in Parents(t) \cap all}
    <2>1. add[t] = IF t \in publishedTx \/ height[t] # TX_UNCONFIRMED THEN {} ELSE {t} \cup rest
        BY <1>8
    <2> HIDE DEF rest
    <2>2. QED BY <2>1
<1>12. QED BY <1>7, <1>10, <1>11

-----------------------------------------------------------------------------
(* The peers, action by action: messages *)

(* What the thread with the lock goes on to do                             *)
LEMMA ThenTask ==
    ASSUME NEW what \in {"update", "sweep"}, NEW txs \in Seq(Tx), NEW ts \in {0, 1}, Then(what, txs, ts)
    PROVE  /\ section' \in Task
           /\ section' # Nothing => section' = [do |-> what, txs |-> txs, stamp |-> ts] /\ txs # <<>>
<1>1. Nothing \in Task
    BY DEF Nothing, Task
<1>2. [do |-> what, txs |-> txs, stamp |-> ts] \in Task
    BY DEF Task
<1>3. CASE txs = <<>>
    BY <1>1, <1>3 DEF Then
<1>4. CASE txs # <<>>
    BY <1>2, <1>4 DEF Then
<1>5. QED BY <1>3, <1>4

LEMMA OneTask ==
    ASSUME NEW t \in Tx, NEW ts \in {0, 1}, Then("update", <<t>>, ts) \/ Unlocked
    PROVE  /\ section' \in Task
           /\ section' # Nothing => section' = [do |-> "update", txs |-> <<t>>, stamp |-> ts]
<1>1. <<t>> \in Seq(Tx) /\ Nothing \in Task
    BY DEF Nothing, Task
<1>2. CASE Unlocked
    BY <1>1, <1>2 DEF Unlocked
<1>3. CASE Then("update", <<t>>, ts)
    <2> DEFINE what == "update"
               txs == <<t>>
    <2>1. what \in {"update", "sweep"} /\ txs \in Seq(Tx) /\ Then(what, txs, ts)
        BY <1>3
    <2> HIDE DEF what, txs
    <2>2. /\ section' \in Task
          /\ section' # Nothing => section' = [do |-> what, txs |-> txs, stamp |-> ts]
        BY <2>1, ThenTask
    <2>3. QED BY <2>2 DEF what, txs
<1>4. QED BY <1>2, <1>3

(* The peers that a handler for p does nothing to                          *)
LEMMA OthersKept ==
    ASSUME NetTypes, \A q \in Peer : PeerInv(q), NEW p \in Peer,
           \A q \in Peer \ {p} : /\ in'[q] = in[q] /\ mempool'[q] = mempool[q] /\ known'[q] = known[q]
                                 /\ pool'[q] = pool[q] /\ missed'[q] = missed[q]
                                 /\ \A t \in Tx : q \in txRelays[t] => q \in txRelays'[t],
           status' = status
    PROVE  \A q \in Peer \ {p} : PeerInv(q)'
<1>1. \A q \in Peer : pool[q] \subseteq Tx
    BY DEF NetTypes
<1>2. QED BY <1>1, NotSentTo

(* A peer showed t, in full or in an inv: it is counted, or missed.        *)
LEMMA ShownKeeps ==
    ASSUME NetTypes, \A q \in Peer : PeerInv(q), NEW p \in Peer, NEW t \in Tx,
           status[p] = "up", in[p] # <<>>, Head(in[p]).type \in {"tx", "inv"},
           NEW r, in' = [in EXCEPT ![p] = r],
           \/ r = Rest(p, t)
           \/ r = <<Msg(Head(in[p]).type, Head(in[p]).txs \ {t})>> \o Tail(in[p]),
           UNCHANGED <<links, pool, sync>>,
           waiting' = waiting \ {t}, publishedTx \subseteq publishedTx', publishedTx' \subseteq Tx,
           \/ /\ txRelays' = Added(txRelays, t, p)
              /\ missed' = [missed EXCEPT ![p] = @ \ {t}]
           \/ txRelays' = txRelays /\ missed' = [missed EXCEPT ![p] = @ \cup {t}],
           txRequests' \in {txRequests, Dropped(txRequests, {t}, p)},
           section' \in Task
    PROVE  NetKept
<1> DEFINE h == Head(in[p])
           rest == Tail(in[p])
<1>1. /\ r \in Seq(Message)
      /\ \A u : /\ News(r, u) <=> (u # t /\ IsNews(h, u)) \/ News(rest, u)
                /\ Talks(r, u) <=> (u # t /\ IsTalk(h, u)) \/ Talks(rest, u)
                /\ Once(r, u) <=> Once(rest, u) /\ ~(u # t /\ IsTalk(h, u) /\ Talks(rest, u))
                /\ Ordered(r, u) <=> (~(u # t /\ IsReject(h, u)) \/ News(rest, u)) /\ Ordered(rest, u)
    BY RestFacts
<1>2. /\ status' = status /\ synced' = synced /\ mempool' = mempool /\ known' = known /\ pool' = pool
      /\ downloadPeer' = downloadPeer /\ syncing' = syncing /\ behind' = behind
    BY DEF links, sync
<1>3. Held' = Held /\ p \in Held
    BY <1>2 DEF Held
<1>4. /\ txRelays' \in [Tx -> SUBSET Held] /\ txRequests' \in [Tx -> SUBSET Peer]
      /\ missed' \in [Peer -> SUBSET Tx]
      /\ \A q \in Peer \ {p} : missed'[q] = missed[q]
      /\ \A u \in Tx : txRelays[u] \subseteq txRelays'[u]
      /\ p \in txRelays'[t] \/ t \in missed'[p]
      /\ missed[p] \ {t} \subseteq missed'[p]
    <2>1. txRelays \in [Tx -> SUBSET Held] /\ txRequests \in [Tx -> SUBSET Peer] /\ missed \in [Peer -> SUBSET Tx]
        BY DEF NetTypes
    <2>2. txRequests' \in [Tx -> SUBSET Peer]
        BY <2>1 DEF Dropped
    <2>3. CASE txRelays' = Added(txRelays, t, p) /\ missed' = [missed EXCEPT ![p] = @ \ {t}]
        BY <1>3, <2>1, <2>2, <2>3 DEF Added
    <2>4. CASE txRelays' = txRelays /\ missed' = [missed EXCEPT ![p] = @ \cup {t}]
        BY <2>1, <2>2, <2>4
    <2>5. QED BY <2>3, <2>4
<1>5. in' \in [Peer -> Seq(Message)] /\ in'[p] = r /\ \A q \in Peer \ {p} : in'[q] = in[q]
    <2> HIDE DEF Message
    <2> QED BY <1>1 DEF NetTypes
<1>6. NetTypes'
    BY <1>2, <1>3, <1>4, <1>5 DEF NetTypes
<1>7. \A q \in Peer \ {p} : PeerInv(q)'
    BY <1>2, <1>4, <1>5, OthersKept
<1>8. ASSUME NEW u \in Tx
      PROVE  /\ Once(r, u) /\ (Talks(r, u) => u \in known[p])
             /\ AskedMempool(p) /\ u \in pool[p] =>
                   /\ Ordered(r, u)
                   /\ p \in txRelays'[u] \/ News(r, u) \/ u \in missed'[p]
    <2> DEFINE s == in[p]
    <2>1. s \in Seq(Message)
        BY FirstTypes
    <2>2. /\ News(s, u) <=> IsNews(h, u) \/ News(rest, u)
          /\ Talks(s, u) <=> IsTalk(h, u) \/ Talks(rest, u)
          /\ Once(s, u) <=> Once(rest, u) /\ ~(IsTalk(h, u) /\ Talks(rest, u))
          /\ Ordered(s, u) <=> (~IsReject(h, u) \/ News(rest, u)) /\ Ordered(rest, u)
        <3> HIDE DEF Message
        <3> QED BY <2>1, FirstMessage
    <2>3. ~IsTalk(h, u) /\ ~IsReject(h, u)
        BY DEF IsTalk, IsReject
    <2>4. /\ Once(s, u) /\ (Talks(s, u) => u \in known[p])
          /\ AskedMempool(p) /\ u \in pool[p] =>
                /\ Ordered(s, u)
                /\ p \in txRelays[u] \/ News(s, u) \/ u \in missed[p]
        BY DEF PeerInv
    <2> HIDE DEF h, rest, s
    <2>5. QED BY <1>1, <1>4, <2>2, <2>3, <2>4
<1>9. PeerInv(p)'
    BY <1>2, <1>5, <1>8 DEF PeerInv, AskedMempool
<1>10. QED BY <1>6, <1>7, <1>9 DEF NetKept

LEMMA RelayedTxKeeps == ASSUME RelaysInv, NEW p \in Peer, NEW t \in Tx, RelayedTx(p, t) PROVE NetKept
<1>1. NetTypes /\ (\A q \in Peer : PeerInv(q)) /\ allTx \subseteq Tx /\ publishedTx \subseteq Tx
    BY InvFacts DEF RelaysInv, NetTypes
<1>2. /\ status[p] = "up" /\ in[p] # <<>> /\ Head(in[p]).type = "tx"
      /\ in' = [in EXCEPT ![p] = Rest(p, t)] /\ waiting' = waiting \ {t}
      /\ UNCHANGED <<links, pool, sync>>
    BY DEF RelayedTx, Is, Head1, Called
<1>3. publishedTx \subseteq publishedTx' /\ publishedTx' \subseteq Tx
    BY <1>1, ListingFacts DEF RelayedTx
<1>4. \/ txRelays' = Added(txRelays, t, p) /\ missed' = [missed EXCEPT ![p] = @ \ {t}]
      \/ txRelays' = txRelays /\ missed' = [missed EXCEPT ![p] = @ \cup {t}]
    BY DEF RelayedTx, Count
<1>5. txRequests' \in {txRequests, Dropped(txRequests, {t}, p)}
    BY DEF RelayedTx
<1>6. section' \in Task
    <2>1. Then("update", <<t>>, 1) \/ Unlocked
        BY DEF RelayedTx, Verify
    <2>2. QED BY <2>1, OneTask
<1>7. QED BY <1>1, <1>2, <1>3, <1>4, <1>5, <1>6, ShownKeeps

LEMMA HasTxKeeps == ASSUME RelaysInv, NEW p \in Peer, NEW t \in Tx, HasTx(p, t) PROVE NetKept
<1>1. NetTypes /\ (\A q \in Peer : PeerInv(q)) /\ publishedTx \subseteq Tx /\ section \in Task
    BY DEF RelaysInv, NetTypes
<1> DEFINE r == <<Msg("inv", Head(in[p]).txs \ {t})>> \o Tail(in[p])
<1>2. /\ status[p] = "up" /\ in[p] # <<>> /\ Head(in[p]).type = "inv"
      /\ in' = [in EXCEPT ![p] = r] /\ waiting' = waiting \ {t}
      /\ UNCHANGED <<links, pool, sync, publishedTx>>
    BY DEF HasTx, Is, Head1, Called
<1>3. r = <<Msg(Head(in[p]).type, Head(in[p]).txs \ {t})>> \o Tail(in[p])
    BY <1>2
<1>4. \/ txRelays' = Added(txRelays, t, p) /\ missed' = [missed EXCEPT ![p] = @ \ {t}]
      \/ txRelays' = txRelays /\ missed' = [missed EXCEPT ![p] = @ \cup {t}]
    BY DEF HasTx, Count
<1>5. txRequests' \in {txRequests, Dropped(txRequests, {t}, p)}
    BY DEF HasTx
<1>6. section' \in Task
    <2>1. Then("update", <<t>>, 1) \/ Unlocked \/ section' = section
        BY DEF HasTx, Verify
    <2>2. QED BY <1>1, <2>1, OneTask
<1> HIDE DEF r
<1>7. QED BY <1>1, <1>2, <1>3, <1>4, <1>5, <1>6, ShownKeeps

(* What is known of the first message of a peer, and of those behind it    *)
LEMMA OwnFacts ==
    ASSUME NetTypes, NEW p \in Peer, PeerInv(p), in[p] # <<>>, NEW u \in Tx
    PROVE  LET h == Head(in[p])
               rest == Tail(in[p])
           IN  /\ h \in Message /\ rest \in Seq(Message) /\ h.txs \subseteq Tx
               /\ Once(rest, u) /\ ~(IsTalk(h, u) /\ Talks(rest, u))
               /\ IsTalk(h, u) \/ Talks(rest, u) => u \in known[p]
               /\ status[p] = "up" /\ AskedMempool(p) /\ u \in pool[p] =>
                     /\ Ordered(rest, u) /\ (IsReject(h, u) => News(rest, u))
                     /\ p \in txRelays[u] \/ IsNews(h, u) \/ News(rest, u) \/ u \in missed[p]
<1> DEFINE s == in[p]
           h == Head(in[p])
           rest == Tail(in[p])
<1>1. s \in Seq(Message) /\ h \in Message /\ rest \in Seq(Message) /\ h.txs \subseteq Tx
    BY FirstTypes
<1>2. /\ News(s, u) <=> IsNews(h, u) \/ News(rest, u)
      /\ Talks(s, u) <=> IsTalk(h, u) \/ Talks(rest, u)
      /\ Once(s, u) <=> Once(rest, u) /\ ~(IsTalk(h, u) /\ Talks(rest, u))
      /\ Ordered(s, u) <=> (~IsReject(h, u) \/ News(rest, u)) /\ Ordered(rest, u)
    <2> HIDE DEF Message
    <2> QED BY <1>1, FirstMessage
<1>3. /\ Once(s, u) /\ (Talks(s, u) => u \in known[p])
      /\ status[p] = "up" /\ AskedMempool(p) /\ u \in pool[p] =>
            /\ Ordered(s, u)
            /\ p \in txRelays[u] \/ News(s, u) \/ u \in missed[p]
    BY DEF PeerInv
<1> HIDE DEF s, h, rest
<1>4. /\ h \in Message /\ rest \in Seq(Message) /\ h.txs \subseteq Tx
      /\ Once(rest, u) /\ ~(IsTalk(h, u) /\ Talks(rest, u))
      /\ IsTalk(h, u) \/ Talks(rest, u) => u \in known[p]
      /\ status[p] = "up" /\ AskedMempool(p) /\ u \in pool[p] =>
            /\ Ordered(rest, u) /\ (IsReject(h, u) => News(rest, u))
            /\ p \in txRelays[u] \/ IsNews(h, u) \/ News(rest, u) \/ u \in missed[p]
    BY <1>1, <1>2, <1>3
<1>5. QED BY <1>4 DEF h, rest

LEMMA RejectedTxKeeps == ASSUME RelaysInv, NEW p \in Peer, NEW t \in Tx, RejectedTx(p, t) PROVE NetKept
<1>1. NetTypes /\ (\A q \in Peer : PeerInv(q))
    BY DEF RelaysInv
<1> DEFINE h == Head(in[p])
           rest == Tail(in[p])
           r == Rest(p, t)
<1>2. /\ status[p] = "up" /\ in[p] # <<>> /\ h.type = "reject" /\ t \in h.txs
      /\ in' = [in EXCEPT ![p] = r]
      /\ txRequests' = Dropped(txRequests, {t}, p)
      /\ txRelays' \in {txRelays, Dropped(txRelays, {t}, p)}
      /\ UNCHANGED <<status, synced, mempool, known, pool, downloadPeer, syncing, behind, publishedTx,
                     waiting, missed>>
    BY DEF RejectedTx, Is, Head1, links, sync
<1>3. section' \in Task
    <2>1. Then("update", <<t>>, 0) \/ Unlocked
        BY DEF RejectedTx
    <2>2. QED BY <2>1, OneTask
<1>4. /\ r \in Seq(Message)
      /\ \A u : /\ News(r, u) <=> (u # t /\ IsNews(h, u)) \/ News(rest, u)
                /\ Talks(r, u) <=> (u # t /\ IsTalk(h, u)) \/ Talks(rest, u)
                /\ Once(r, u) <=> Once(rest, u) /\ ~(u # t /\ IsTalk(h, u) /\ Talks(rest, u))
                /\ Ordered(r, u) <=> (~(u # t /\ IsReject(h, u)) \/ News(rest, u)) /\ Ordered(rest, u)
    BY <1>1, <1>2, RestFacts
<1> HIDE DEF r
<1>5. /\ txRelays' \in [Tx -> SUBSET Held] /\ txRequests' \in [Tx -> SUBSET Peer] /\ Held' = Held
      /\ \A u \in Tx \ {t} : txRelays'[u] = txRelays[u]
      /\ \A u \in Tx : txRelays[u] \ {p} \subseteq txRelays'[u]
    <2>1. txRelays \in [Tx -> SUBSET Held] /\ txRequests \in [Tx -> SUBSET Peer]
        BY <1>1 DEF NetTypes
    <2>2. txRequests' \in [Tx -> SUBSET Peer]
        BY <1>2, <2>1 DEF Dropped
    <2>3. QED BY <1>2, <2>1, <2>2 DEF Dropped, Held
<1>6. in' \in [Peer -> Seq(Message)] /\ in'[p] = r /\ \A q \in Peer \ {p} : in'[q] = in[q]
    <2> HIDE DEF Message
    <2> QED BY <1>1, <1>2, <1>4 DEF NetTypes
<1>7. NetTypes'
    BY <1>1, <1>2, <1>3, <1>5, <1>6 DEF NetTypes
<1>8. \A q \in Peer \ {p} : PeerInv(q)'
    BY <1>1, <1>2, <1>5, <1>6, OthersKept
<1>9. ASSUME NEW u \in Tx
      PROVE  /\ Once(r, u) /\ (Talks(r, u) => u \in known[p])
             /\ status[p] = "up" /\ AskedMempool(p) /\ u \in pool[p] =>
                   /\ Ordered(r, u)
                   /\ p \in txRelays'[u] \/ News(r, u) \/ u \in missed[p]
    <2>1. /\ Once(rest, u) /\ ~(IsTalk(h, u) /\ Talks(rest, u))
          /\ IsTalk(h, u) \/ Talks(rest, u) => u \in known[p]
          /\ status[p] = "up" /\ AskedMempool(p) /\ u \in pool[p] =>
                /\ Ordered(rest, u) /\ (IsReject(h, u) => News(rest, u))
                /\ p \in txRelays[u] \/ IsNews(h, u) \/ News(rest, u) \/ u \in missed[p]
        BY <1>1, <1>2, OwnFacts
    <2>2. ~IsNews(h, u) /\ IsReject(h, t)
        BY <1>2 DEF IsNews, IsReject
    <2> HIDE DEF h, rest
    <2>3. QED BY <1>4, <1>5, <2>1, <2>2
<1>10. PeerInv(p)'
    BY <1>2, <1>6, <1>9 DEF PeerInv, AskedMempool
<1>11. QED BY <1>7, <1>8, <1>10 DEF NetKept

LEMMA NotFoundKeeps == ASSUME RelaysInv, NEW p \in Peer, NotFound(p) PROVE NetKept
<1>1. NetTypes /\ (\A q \in Peer : PeerInv(q))
    BY DEF RelaysInv
<1> DEFINE h == Head(in[p])
           rest == Tail(in[p])
<1>2. /\ status[p] = "up" /\ in[p] # <<>> /\ h.type = "notfound"
      /\ in' = [in EXCEPT ![p] = rest]
      /\ txRequests' = Dropped(txRequests, h.txs, p)
      /\ txRelays' = Dropped(txRelays, h.txs, p)
      /\ missed' = [missed EXCEPT ![p] = @ \cup {t \in h.txs : p \in txRelays[t]}]
      /\ UNCHANGED <<status, synced, mempool, known, pool, downloadPeer, syncing, behind, publishedTx,
                     waiting, section>>
    BY DEF NotFound, Head1, links, sync
<1>3. rest \in Seq(Message) /\ h.txs \subseteq Tx
    BY <1>1, <1>2, FirstTypes
<1>4. /\ txRelays' \in [Tx -> SUBSET Held] /\ txRequests' \in [Tx -> SUBSET Peer] /\ Held' = Held
      /\ missed' \in [Peer -> SUBSET Tx] /\ \A q \in Peer \ {p} : missed'[q] = missed[q]
      /\ \A u \in Tx : txRelays[u] \ {p} \subseteq txRelays'[u]
      /\ \A u \in Tx : p \in txRelays[u] => p \in txRelays'[u] \/ u \in missed'[p]
      /\ missed[p] \subseteq missed'[p]
    <2>1. txRelays \in [Tx -> SUBSET Held] /\ txRequests \in [Tx -> SUBSET Peer] /\ missed \in [Peer -> SUBSET Tx]
        BY <1>1 DEF NetTypes
    <2>2. txRequests' \in [Tx -> SUBSET Peer] /\ Held' = Held
        BY <1>2, <2>1 DEF Dropped, Held
    <2>3. missed' \in [Peer -> SUBSET Tx] /\ \A q \in Peer \ {p} : missed'[q] = missed[q]
        BY <1>2, <1>3, <2>1
    <2>4. QED BY <1>2, <2>1, <2>2, <2>3 DEF Dropped
<1> HIDE DEF h, rest
<1>5. in' \in [Peer -> Seq(Message)] /\ in'[p] = rest /\ \A q \in Peer \ {p} : in'[q] = in[q]
    <2> HIDE DEF Message
    <2> QED BY <1>1, <1>2, <1>3 DEF NetTypes
<1>6. NetTypes'
    BY <1>1, <1>2, <1>4, <1>5 DEF NetTypes
<1>7. \A q \in Peer \ {p} : PeerInv(q)'
    BY <1>1, <1>2, <1>4, <1>5, OthersKept
<1>8. ASSUME NEW u \in Tx
      PROVE  /\ Once(rest, u) /\ (Talks(rest, u) => u \in known[p])
             /\ status[p] = "up" /\ AskedMempool(p) /\ u \in pool[p] =>
                   /\ Ordered(rest, u)
                   /\ p \in txRelays'[u] \/ News(rest, u) \/ u \in missed'[p]
    <2>1. /\ Once(rest, u) /\ (Talks(rest, u) => u \in known[p])
          /\ status[p] = "up" /\ AskedMempool(p) /\ u \in pool[p] =>
                /\ Ordered(rest, u)
                /\ p \in txRelays[u] \/ IsNews(h, u) \/ News(rest, u) \/ u \in missed[p]
        BY <1>1, <1>2, OwnFacts DEF h, rest
    <2>2. ~IsNews(h, u)
        BY <1>2 DEF IsNews
    <2>3. QED BY <1>4, <2>1, <2>2
<1>9. PeerInv(p)'
    BY <1>2, <1>5, <1>8 DEF PeerInv, AskedMempool
<1>10. QED BY <1>6, <1>7, <1>9 DEF NetKept

LEMMA InvHandledKeeps == ASSUME RelaysInv, NEW p \in Peer, InvHandled(p) PROVE NetKept
<1>1. NetTypes /\ (\A q \in Peer : PeerInv(q))
    BY DEF RelaysInv
<1> DEFINE h == Head(in[p])
           rest == Tail(in[p])
           a == Answer(p, h.txs)
           b == IF mempool[p] = "waiting" THEN <<PongOf("mempool")>> ELSE <<>>
           r == (rest \o a) \o b
           m == IF mempool[p] = "waiting" THEN "answered" ELSE mempool[p]
<1>2. /\ status[p] = "up" /\ in[p] # <<>> /\ h.type = "inv"
      /\ in' = [in EXCEPT ![p] = r]
      /\ known' = [known EXCEPT ![p] = @ \cup h.txs]
      /\ mempool' = [mempool EXCEPT ![p] = m]
      /\ UNCHANGED <<status, synced, pool, downloadPeer, syncing, behind, publishedTx, waiting,
                     txRelays, txRequests, section, missed>>
    BY DEF InvHandled, Head1, sync, lists
<1>3. rest \in Seq(Message) /\ h.txs \subseteq Tx /\ h \in Message
    BY <1>1, <1>2, FirstTypes
<1>4. \A u : /\ a \in Seq(Message) /\ (News(a, u) <=> u \in h.txs \cap pool[p])
             /\ ~Talks(a, u) /\ Once(a, u) /\ Ordered(a, u)
    <2> DEFINE S == h.txs
    <2>1. S \in SUBSET Tx
        BY <1>3
    <2> HIDE DEF S
    <2>2. QED BY <1>1, <2>1, AnswerFacts DEF S
<1>5. \A u : b \in Seq(Message) /\ ~News(b, u) /\ ~Talks(b, u) /\ Once(b, u) /\ Ordered(b, u)
    BY OnePong, NoQueue
<1>6. /\ known' \in [Peer -> SUBSET Tx] /\ known'[p] = known[p] \cup h.txs
      /\ \A q \in Peer \ {p} : known'[q] = known[q] /\ mempool'[q] = mempool[q]
      /\ mempool' \in [Peer -> {"none", "loaded", "waiting", "answered"}]
      /\ AskedMempool(p)' <=> AskedMempool(p)
    BY <1>1, <1>2, <1>3 DEF NetTypes, AskedMempool
<1> HIDE DEF h, rest, a, b, r
<1>7. ASSUME NEW u \in Tx
      PROVE  /\ r \in Seq(Message)
             /\ Once(r, u) /\ (Talks(r, u) => u \in known'[p])
             /\ status[p] = "up" /\ AskedMempool(p)' /\ u \in pool[p] =>
                   /\ Ordered(r, u)
                   /\ p \in txRelays[u] \/ News(r, u) \/ u \in missed[p]
    <2>1. /\ Once(rest, u) /\ (Talks(rest, u) => u \in known[p])
          /\ status[p] = "up" /\ AskedMempool(p) /\ u \in pool[p] =>
                /\ Ordered(rest, u)
                /\ p \in txRelays[u] \/ IsNews(h, u) \/ News(rest, u) \/ u \in missed[p]
        BY <1>1, <1>2, OwnFacts DEF h, rest
    <2>2. IsNews(h, u) => u \in h.txs
        BY DEF IsNews
    <2> DEFINE c == rest \o a
    <2> HIDE DEF Message
    <2>3. /\ c \in Seq(Message)
          /\ News(c, u) <=> News(rest, u) \/ News(a, u)
          /\ Talks(c, u) <=> Talks(rest, u) \/ Talks(a, u)
          /\ Once(c, u) <=> Once(rest, u) /\ Once(a, u) /\ ~(Talks(rest, u) /\ Talks(a, u))
          /\ Ordered(c, u) <=> (Ordered(rest, u) \/ News(a, u)) /\ Ordered(a, u)
        BY ONLY <1>3, <1>4, ConcatQueues
    <2> HIDE DEF c
    <2>4. /\ c \o b \in Seq(Message)
          /\ News(c \o b, u) <=> News(c, u) \/ News(b, u)
          /\ Talks(c \o b, u) <=> Talks(c, u) \/ Talks(b, u)
          /\ Once(c \o b, u) <=> Once(c, u) /\ Once(b, u) /\ ~(Talks(c, u) /\ Talks(b, u))
          /\ Ordered(c \o b, u) <=> (Ordered(c, u) \/ News(b, u)) /\ Ordered(b, u)
        BY ONLY <2>3, <1>5, ConcatQueues
    <2>5. r = c \o b
        BY DEF r, c
    <2>6. QED BY <1>4, <1>5, <1>6, <2>1, <2>2, <2>3, <2>4, <2>5
<1>8. in' \in [Peer -> Seq(Message)] /\ in'[p] = r /\ \A q \in Peer \ {p} : in'[q] = in[q]
    <2>1. r \in Seq(Message)
        <3> HIDE DEF Message
        <3>1. rest \o a \in Seq(Message)
            BY <1>3, <1>4
        <3>2. QED BY <1>5, <3>1 DEF r
    <2> HIDE DEF Message
    <2> QED BY <1>1, <1>2, <2>1 DEF NetTypes
<1>9. NetTypes'
    <2>1. Held' = Held
        BY <1>2 DEF Held
    <2>2. QED BY <1>1, <1>2, <1>6, <1>8, <2>1 DEF NetTypes
<1>10. \A q \in Peer \ {p} : PeerInv(q)'
    BY <1>1, <1>2, <1>6, <1>8, OthersKept
<1>11. PeerInv(p)'
    BY <1>2, <1>7, <1>8 DEF PeerInv
<1>12. QED BY <1>9, <1>10, <1>11 DEF NetKept

LEMMA LoadDoneKeeps == ASSUME RelaysInv, NEW p \in Peer, LoadDone(p) PROVE NetKept
<1>1. NetTypes /\ (\A q \in Peer : PeerInv(q))
    BY DEF RelaysInv
<1> DEFINE h == Head(in[p])
           rest == Tail(in[p])
           m == Mempool(p)
           b == m.msgs
           r == rest \o b
<1>2. /\ status[p] = "up" /\ in[p] # <<>> /\ h.type = "pong"
      /\ in' = [in EXCEPT ![p] = r]
      /\ known' = [known EXCEPT ![p] = m.kn]
      /\ mempool' = [mempool EXCEPT ![p] = m.mem]
      /\ UNCHANGED <<status, synced, pool, downloadPeer, syncing, behind, publishedTx, waiting,
                     txRelays, txRequests, section, missed>>
    BY DEF LoadDone, CallsBack, sync, lists
<1>3. rest \in Seq(Message)
    BY <1>1, <1>2, FirstTypes
<1>4. Piece(p, m)
    BY <1>1, MempoolPiece
<1> HIDE DEF m
<1>5. /\ known' \in [Peer -> SUBSET Tx] /\ known'[p] = m.kn /\ known[p] \subseteq m.kn
      /\ \A q \in Peer \ {p} : known'[q] = known[q] /\ mempool'[q] = mempool[q]
      /\ mempool' \in [Peer -> {"none", "loaded", "waiting", "answered"}] /\ mempool'[p] = m.mem
      /\ b \in Seq(Message)
    BY <1>1, <1>2, <1>4 DEF NetTypes, Piece
<1> HIDE DEF h, rest
<1>7. ASSUME NEW u \in Tx
      PROVE  /\ Once(r, u) /\ (Talks(r, u) => u \in known'[p])
             /\ status[p] = "up" /\ AskedMempool(p)' /\ u \in pool[p] =>
                   /\ Ordered(r, u)
                   /\ p \in txRelays[u] \/ News(r, u) \/ u \in missed[p]
    <2>1. /\ Once(rest, u) /\ (Talks(rest, u) => u \in known[p])
          /\ status[p] = "up" /\ AskedMempool(p) /\ u \in pool[p] =>
                /\ Ordered(rest, u)
                /\ p \in txRelays[u] \/ IsNews(h, u) \/ News(rest, u) \/ u \in missed[p]
        BY <1>1, <1>2, OwnFacts DEF h, rest
    <2>2. ~IsNews(h, u)
        BY <1>2 DEF IsNews
    <2>3. /\ Talks(b, u) => u \in m.kn \ known[p]
          /\ Once(b, u) /\ Ordered(b, u)
          /\ AskedMempool(p)' /\ u \in pool[p] => AskedMempool(p) \/ News(b, u)
        BY <1>4, <1>5 DEF Piece, AskedMempool
    <2> HIDE DEF b, Message
    <2>4. /\ News(rest \o b, u) <=> News(rest, u) \/ News(b, u)
          /\ Talks(rest \o b, u) <=> Talks(rest, u) \/ Talks(b, u)
          /\ Once(rest \o b, u) <=> Once(rest, u) /\ Once(b, u) /\ ~(Talks(rest, u) /\ Talks(b, u))
          /\ Ordered(rest \o b, u) <=> (Ordered(rest, u) \/ News(b, u)) /\ Ordered(b, u)
        BY ONLY <1>3, <1>5, ConcatQueues
    <2> HIDE DEF r
    <2>5. r = rest \o b
        BY DEF r
    <2>6. QED BY <1>5, <2>1, <2>2, <2>3, <2>4, <2>5
<1>8. in' \in [Peer -> Seq(Message)] /\ in'[p] = r /\ \A q \in Peer \ {p} : in'[q] = in[q]
    <2>1. r \in Seq(Message)
        <3> HIDE DEF Message, b
        <3> QED BY <1>3, <1>5
    <2> HIDE DEF Message, r
    <2> QED BY <1>1, <1>2, <2>1 DEF NetTypes
<1> HIDE DEF r, b
<1>9. NetTypes'
    <2>1. Held' = Held
        BY <1>2 DEF Held
    <2>2. QED BY <1>1, <1>2, <1>5, <1>8, <2>1 DEF NetTypes
<1>10. \A q \in Peer \ {p} : PeerInv(q)'
    BY <1>1, <1>2, <1>5, <1>8, OthersKept
<1>11. PeerInv(p)'
    BY <1>2, <1>7, <1>8 DEF PeerInv
<1>12. QED BY <1>9, <1>10, <1>11 DEF NetKept

(* A callback that was called back, and messages behind the others that    *)
(* ask for nothing                                                         *)
LEMMA PongHandled ==
    ASSUME NetTypes, \A q \in Peer : PeerInv(q), NEW p \in Peer, in[p] # <<>>, Head(in[p]).type = "pong",
           status[p] \in {"up", "leaving"},
           NEW x \in Seq(Message), \A u : ~Talks(x, u) /\ Once(x, u) /\ Ordered(x, u),
           in' = [in EXCEPT ![p] = Tail(in[p]) \o x],
           UNCHANGED <<status, mempool, known, pool, txRelays, missed>>
    PROVE  /\ in' \in [Peer -> Seq(Message)]
           /\ \A q \in Peer : PeerInv(q)'
<1> DEFINE h == Head(in[p])
           rest == Tail(in[p])
           r == rest \o x
<1>1. rest \in Seq(Message)
    BY FirstTypes
<1>2. ASSUME NEW u \in Tx
      PROVE  /\ Once(r, u) /\ (Talks(r, u) => u \in known[p])
             /\ status[p] = "up" /\ AskedMempool(p) /\ u \in pool[p] =>
                   /\ Ordered(r, u)
                   /\ p \in txRelays[u] \/ News(r, u) \/ u \in missed[p]
    <2>1. /\ Once(rest, u) /\ (Talks(rest, u) => u \in known[p])
          /\ status[p] = "up" /\ AskedMempool(p) /\ u \in pool[p] =>
                /\ Ordered(rest, u)
                /\ p \in txRelays[u] \/ IsNews(h, u) \/ News(rest, u) \/ u \in missed[p]
        BY OwnFacts
    <2>2. ~IsNews(h, u)
        BY DEF IsNews
    <2> HIDE DEF h, rest, Message
    <2>3. /\ News(rest \o x, u) <=> News(rest, u) \/ News(x, u)
          /\ Talks(rest \o x, u) <=> Talks(rest, u) \/ Talks(x, u)
          /\ Once(rest \o x, u) <=> Once(rest, u) /\ Once(x, u) /\ ~(Talks(rest, u) /\ Talks(x, u))
          /\ Ordered(rest \o x, u) <=> (Ordered(rest, u) \/ News(x, u)) /\ Ordered(x, u)
        <3>1. x \in Seq(Message)
            OBVIOUS
        <3>2. QED BY ONLY <1>1, <3>1, ConcatQueues
    <2> HIDE DEF r
    <2>4. r = rest \o x
        BY DEF r
    <2>5. QED BY <2>1, <2>2, <2>3, <2>4
<1>3. in' \in [Peer -> Seq(Message)] /\ in'[p] = r /\ \A q \in Peer \ {p} : in'[q] = in[q]
    <2>1. r \in Seq(Message)
        <3> HIDE DEF Message, rest
        <3> QED BY <1>1
    <2> HIDE DEF Message
    <2> QED BY <2>1 DEF NetTypes
<1> HIDE DEF r, rest, h
<1>4. \A q \in Peer \ {p} : PeerInv(q)'
    BY <1>3, OthersKept
<1>5. PeerInv(p)'
    BY <1>2, <1>3 DEF PeerInv, AskedMempool
<1>6. QED BY <1>3, <1>4, <1>5

LEMMA RequestsSend ==
    ASSUME NetTypes, \A q \in Peer : PeerInv(q), NEW p \in Peer, in[p] # <<>>, Head(in[p]).type = "pong",
           status[p] \in {"up", "leaving"},
           NEW S \in SUBSET Tx, Requests(p, S, Tail(in[p])),
           UNCHANGED <<status, mempool, known, pool, txRelays, missed>>
    PROVE  /\ in' \in [Peer -> Seq(Message)] /\ txRequests' \in [Tx -> SUBSET Peer]
           /\ synced \subseteq synced' /\ synced' \subseteq synced \cup {p}
           /\ \A q \in Peer : PeerInv(q)'
<1> DEFINE rest == Tail(in[p])
           a == IF status[p] # "up" THEN <<>> ELSE Answer(p, S)
           b == IF p \in synced THEN <<>> ELSE <<PongOf("getdata")>>
           x == IF S = {} THEN <<>> ELSE a \o b
<1>1. \A u : a \in Seq(Message) /\ ~Talks(a, u) /\ Once(a, u) /\ Ordered(a, u)
    BY AnswerFacts, NoQueue
<1>2. \A u : b \in Seq(Message) /\ ~Talks(b, u) /\ Once(b, u) /\ Ordered(b, u)
    BY OnePong, NoQueue
<1>3. rest \in Seq(Message)
    BY FirstTypes
<1>4. \/ in' = [in EXCEPT ![p] = rest] /\ S = {}
      \/ in' = [in EXCEPT ![p] = rest \o a \o b] /\ S # {}
    <2>1. CASE S = {}
        BY <2>1, Zenon DEF Requests
    <2>2. CASE S # {}
        <3>1. in' = [in EXCEPT ![p] = Tail(in[p]) \o (IF status[p] # "up" THEN <<>> ELSE Answer(p, S))
                                        \o (IF p \in synced THEN <<>> ELSE <<PongOf("getdata")>>)]
            BY <2>2, Zenon DEF Requests
        <3>2. QED BY <2>2, <3>1, Zenon
    <2>3. QED BY <2>1, <2>2
<1>5. /\ txRequests' \in [Tx -> SUBSET Peer]
      /\ synced \subseteq synced' /\ synced' \subseteq synced \cup {p}
    BY DEF Requests, NetTypes
<1> HIDE DEF a, b, rest
<1>6. \A u : x \in Seq(Message) /\ ~Talks(x, u) /\ Once(x, u) /\ Ordered(x, u)
    <2>1. CASE S = {}
        BY <2>1, NoQueue
    <2>2. CASE S # {}
        <3> DEFINE c == a \o b
        <3> HIDE DEF Message
        <3>1. \A u : c \in Seq(Message) /\ ~Talks(c, u) /\ Once(c, u) /\ Ordered(c, u)
            BY <1>1, <1>2, BothSent
        <3> HIDE DEF c
        <3>2. x = c
            BY <2>2 DEF c
        <3>3. QED BY <3>1, <3>2
    <2>3. QED BY <2>1, <2>2
<1>7. in' = [in EXCEPT ![p] = rest \o x]
    <2> HIDE DEF Message
    <2>1. CASE S = {}
        <3>1. rest \o <<>> = rest
            BY <1>3
        <3>2. QED BY <1>4, <2>1, <3>1
    <2>2. CASE S # {}
        <3>1. (rest \o a) \o b = rest \o (a \o b)
            BY <1>1, <1>2, <1>3
        <3>2. QED BY <1>4, <2>2, <3>1
    <2>3. QED BY <2>1, <2>2
<1> HIDE DEF x
<1>8. in' \in [Peer -> Seq(Message)] /\ \A q \in Peer : PeerInv(q)'
    BY <1>6, <1>7, PongHandled DEF rest
<1>9. QED BY <1>5, <1>8

LEMMA RequestsKeeps ==
    ASSUME RelaysInv, NEW p \in Peer, MempoolDone(p) \/ PublishInvDone(p)
    PROVE  NetKept
<1>1. NetTypes /\ (\A q \in Peer : PeerInv(q))
    BY DEF RelaysInv
<1> DEFINE S == Unrelayed(p)
<1>2. /\ in[p] # <<>> /\ Head(in[p]).type = "pong" /\ status[p] \in {"up", "leaving"}
      /\ Requests(p, S, Tail(in[p]))
      /\ syncing' \in {syncing, FALSE}
      /\ UNCHANGED <<status, mempool, known, pool, downloadPeer, behind, publishedTx, waiting,
                     txRelays, section, missed>>
    BY DEF MempoolDone, PublishInvDone, CallsBack, RequestUnrelayedTx, sync
<1>3. S \in SUBSET Tx
    BY InvFacts DEF RelaysInv, Unrelayed, Unconfirmed
<1> HIDE DEF S
<1>4. /\ in' \in [Peer -> Seq(Message)] /\ txRequests' \in [Tx -> SUBSET Peer]
      /\ synced' \subseteq synced \cup {p}
      /\ \A q \in Peer : PeerInv(q)'
    BY <1>1, <1>2, <1>3, RequestsSend
<1>5. Held' = Held /\ p \in Held
    BY <1>2 DEF Held
<1>6. NetTypes'
    BY <1>1, <1>2, <1>4, <1>5 DEF NetTypes
<1>7. QED BY <1>4, <1>6 DEF NetKept

LEMMA LoadFailedKeeps == ASSUME RelaysInv, NEW p \in Peer, LoadFailed(p) PROVE NetKept
<1>1. NetTypes /\ (\A q \in Peer : PeerInv(q))
    BY DEF RelaysInv
<1>2. /\ in[p] # <<>> /\ Head(in[p]).type = "pong" /\ status[p] = "leaving"
      /\ in' = [in EXCEPT ![p] = Tail(in[p])]
      /\ syncing' \in {syncing, FALSE}
      /\ UNCHANGED <<status, synced, mempool, known, pool, downloadPeer, behind, publishedTx, waiting,
                     txRelays, txRequests, section, missed>>
    BY <1>1 DEF LoadFailed, CallsBack, lists, links, NetTypes
<1> DEFINE x == <<>>
           rest == Tail(in[p])
<1>3. x \in Seq(Message) /\ rest \in Seq(Message)
    BY <1>1, <1>2, FirstTypes
<1>4. in' = [in EXCEPT ![p] = Tail(in[p]) \o x]
    <2>1. rest \o x = rest
        <3> HIDE DEF rest, Message
        <3> QED BY <1>3
    <2>2. QED BY <1>2, <2>1
<1>5. \A u : ~Talks(x, u) /\ Once(x, u) /\ Ordered(x, u)
    BY NoQueue
<1> HIDE DEF x
<1>6. in' \in [Peer -> Seq(Message)] /\ \A q \in Peer : PeerInv(q)'
    BY <1>1, <1>2, <1>3, <1>4, <1>5, PongHandled
<1>7. Held' = Held
    BY <1>2 DEF Held
<1>8. NetTypes'
    BY <1>1, <1>2, <1>6, <1>7 DEF NetTypes
<1>9. QED BY <1>6, <1>8 DEF NetKept

LEMMA GetdataDoneKeeps == ASSUME RelaysInv, NEW p \in Peer, GetdataDone(p) PROVE NetKept
<1>1. NetTypes /\ (\A q \in Peer : PeerInv(q))
    BY DEF RelaysInv
<1>2. /\ in[p] # <<>> /\ Head(in[p]).type = "pong" /\ status[p] \in {"up", "leaving"}
      /\ in' = [in EXCEPT ![p] = Tail(in[p])]
      /\ synced' \in {synced, synced \cup {p}}
      /\ UNCHANGED <<status, mempool, known, pool, downloadPeer, syncing, behind, publishedTx, waiting,
                     txRelays, txRequests, missed>>
    BY DEF GetdataDone, CallsBack, lists, sync
<1> DEFINE x == <<>>
           rest == Tail(in[p])
<1>3. x \in Seq(Message) /\ rest \in Seq(Message)
    BY <1>1, <1>2, FirstTypes
<1>4. in' = [in EXCEPT ![p] = Tail(in[p]) \o x]
    <2>1. rest \o x = rest
        <3> HIDE DEF rest, Message
        <3> QED BY <1>3
    <2>2. QED BY <1>2, <2>1
<1>5. \A u : ~Talks(x, u) /\ Once(x, u) /\ Ordered(x, u)
    BY NoQueue
<1> HIDE DEF x
<1>6. in' \in [Peer -> Seq(Message)] /\ \A q \in Peer : PeerInv(q)'
    BY <1>1, <1>2, <1>3, <1>4, <1>5, PongHandled
<1>7. Held' = Held /\ p \in Held
    BY <1>2 DEF Held
<1>8. section' \in Task
    <2> DEFINE copy == Without(transactions, Tx \ Unconfirmed)
    <2>1. copy \in Seq(Tx)
        BY InvFacts, WithoutElements DEF RelaysInv
    <2>2. Then("sweep", copy, 0) \/ Unlocked
        BY DEF GetdataDone
    <2> HIDE DEF copy
    <2>3. CASE Unlocked
        BY <2>3 DEF Unlocked, Nothing, Task
    <2>4. CASE Then("sweep", copy, 0)
        <3> DEFINE what == "sweep"
        <3>1. what \in {"update", "sweep"} /\ Then(what, copy, 0)
            BY <2>4
        <3> HIDE DEF what
        <3>2. QED BY <2>1, <3>1, ThenTask
    <2>5. QED BY <2>2, <2>3, <2>4
<1>9. NetTypes'
    BY <1>1, <1>2, <1>6, <1>7, <1>8 DEF NetTypes
<1>10. QED BY <1>6, <1>9 DEF NetKept

LEMMA NoTalk == ASSUME NEW s, NEW t, ~Talks(s, t) PROVE Ordered(s, t)
BY DEF Talks, Ordered, IsTalk, IsReject

LEMMA RequestedTxKeeps ==
    ASSUME RelaysInv, NEW p \in Peer, NEW t \in Tx, NEW accepts \in BOOLEAN, RequestedTx(p, t, accepts)
    PROVE  NetKept
<1>1. NetTypes /\ (\A q \in Peer : PeerInv(q))
    BY DEF RelaysInv
<1> DEFINE h == Head(in[p])
           rest == Tail(in[p])
           sent == t \in publishedTx /\ TransactionIsValid(t)
           returned == sent \/ (t \in publishedTx /\ t \in allTx)
           taken == \/ t \in pool[p]
                    \/ accepts /\ Parents(t) \subseteq pool[p] \cup {Foreign} \cup OnBestChain
           o == Rest(p, t)
           x == IF returned /\ ~taken THEN <<Msg("reject", {t})>> ELSE <<>>
           r == o \o x
<1>2. /\ status[p] = "up" /\ in[p] # <<>> /\ h.type = "getdata" /\ t \in h.txs
      /\ publishedTx' = (IF sent THEN publishedTx ELSE publishedTx \ {t}) /\ waiting' = waiting \ {t}
      /\ txRelays' = (IF sent THEN Added(txRelays, t, p) ELSE txRelays)
      /\ pool' = (IF returned /\ taken THEN [pool EXCEPT ![p] = @ \cup {t}] ELSE pool)
      /\ in' = [in EXCEPT ![p] = r]
      /\ missed' = (IF returned /\ taken /\ ~sent THEN [missed EXCEPT ![p] = @ \cup {t}] ELSE missed)
      /\ UNCHANGED <<status, synced, mempool, known, downloadPeer, syncing, behind, txRequests, section>>
    BY DEF RequestedTx, Is, Head1, Called, links, sync
<1>3. taken \in BOOLEAN /\ (t \in pool[p] => taken)
    OBVIOUS
<1>4. \A u : /\ x \in Seq(Message) /\ ~News(x, u) /\ (Talks(x, u) => u = t /\ returned /\ ~taken)
             /\ Once(x, u) /\ (Ordered(x, u) <=> ~(u = t /\ returned /\ ~taken))
    <2> DEFINE type == "reject"
               A == IF returned /\ ~taken THEN {t} ELSE {}
    <2> HIDE DEF returned, taken
    <2>1. x = (IF A = {} THEN <<>> ELSE <<Msg(type, A)>>) /\ A \in SUBSET Tx
        OBVIOUS
    <2>2. \A u : u \in A <=> u = t /\ returned /\ ~taken
        OBVIOUS
    <2>3. type \in {"inv", "tx", "getdata", "notfound", "reject"} /\ type \notin {"inv", "tx"} /\ type = "reject"
        OBVIOUS
    <2> HIDE DEF type, A, x
    <2>4. ASSUME NEW u
          PROVE  /\ x \in Seq(Message) /\ ~News(x, u) /\ (Talks(x, u) => u \in A)
                 /\ Once(x, u) /\ (Ordered(x, u) <=> u \notin A)
        <3>1. x = IF A = {} THEN <<>> ELSE <<Msg(type, A)>>
            BY <2>1
        <3>2. QED BY ONLY <2>1, <2>3, <3>1, SomeOrNone
    <2>5. QED BY <2>2, <2>4
<1>5. /\ o \in Seq(Message)
      /\ \A u : /\ News(o, u) <=> (u # t /\ IsNews(h, u)) \/ News(rest, u)
                /\ Talks(o, u) <=> (u # t /\ IsTalk(h, u)) \/ Talks(rest, u)
                /\ Once(o, u) <=> Once(rest, u) /\ ~(u # t /\ IsTalk(h, u) /\ Talks(rest, u))
                /\ Ordered(o, u) <=> (~(u # t /\ IsReject(h, u)) \/ News(rest, u)) /\ Ordered(rest, u)
    BY <1>1, <1>2, RestFacts
<1>6. publishedTx' \subseteq Tx /\ waiting' \subseteq publishedTx'
    <2> HIDE DEF sent
    <2>1. QED BY <1>1, <1>2 DEF NetTypes
<1>7. /\ pool' \in [Peer -> SUBSET Tx] /\ missed' \in [Peer -> SUBSET Tx]
      /\ \A q \in Peer \ {p} : pool'[q] = pool[q] /\ missed'[q] = missed[q]
      /\ pool[p] \subseteq pool'[p] /\ pool'[p] \subseteq pool[p] \cup {t} /\ missed[p] \subseteq missed'[p]
      /\ t \in pool'[p] => taken \/ t \in pool[p]
      /\ returned /\ taken /\ ~sent => t \in missed'[p]
      /\ t \in pool'[p] /\ t \notin pool[p] => returned
    <2> HIDE DEF sent, returned, taken
    <2>1. pool \in [Peer -> SUBSET Tx] /\ missed \in [Peer -> SUBSET Tx]
        BY <1>1 DEF NetTypes
    <2>2. \/ pool' = pool
          \/ pool' = [pool EXCEPT ![p] = @ \cup {t}] /\ returned /\ taken
        BY <1>2
    <2>3. \/ missed' = missed /\ ~(returned /\ taken /\ ~sent)
          \/ missed' = [missed EXCEPT ![p] = @ \cup {t}]
        BY <1>2
    <2>4. QED BY <2>1, <2>2, <2>3
<1>8. /\ txRelays' \in [Tx -> SUBSET Held] /\ Held' = Held
      /\ \A u \in Tx : txRelays[u] \subseteq txRelays'[u]
      /\ sent => p \in txRelays'[t]
    <2> HIDE DEF sent
    <2>1. txRelays \in [Tx -> SUBSET Held] /\ p \in Held /\ Held' = Held
        BY <1>1, <1>2 DEF NetTypes, Held
    <2>2. CASE sent
        BY <1>2, <2>1, <2>2 DEF Added
    <2>3. CASE ~sent
        BY <1>2, <2>1, <2>3
    <2>4. QED BY <2>2, <2>3
<1>9. sent => returned
    OBVIOUS
<1> HIDE DEF o, x, sent, returned, taken, h, rest
<1>10. ASSUME NEW u \in Tx
       PROVE  /\ Once(r, u) /\ (Talks(r, u) => u \in known[p])
              /\ status[p] = "up" /\ AskedMempool(p) /\ u \in pool'[p] =>
                    /\ Ordered(r, u)
                    /\ p \in txRelays'[u] \/ News(r, u) \/ u \in missed'[p]
    <2>1. /\ Once(rest, u) /\ ~(IsTalk(h, u) /\ Talks(rest, u))
          /\ IsTalk(h, u) \/ Talks(rest, u) => u \in known[p]
          /\ status[p] = "up" /\ AskedMempool(p) /\ u \in pool[p] =>
                /\ Ordered(rest, u) /\ (IsReject(h, u) => News(rest, u))
                /\ p \in txRelays[u] \/ IsNews(h, u) \/ News(rest, u) \/ u \in missed[p]
        BY <1>1, <1>2, OwnFacts DEF h, rest
    <2>2. ~IsNews(h, u) /\ ~IsReject(h, u) /\ IsTalk(h, t)
        BY <1>2 DEF IsNews, IsTalk, IsReject
    <2>3. /\ News(o \o x, u) <=> News(o, u) \/ News(x, u)
          /\ Talks(o \o x, u) <=> Talks(o, u) \/ Talks(x, u)
          /\ Once(o \o x, u) <=> Once(o, u) /\ Once(x, u) /\ ~(Talks(o, u) /\ Talks(x, u))
          /\ Ordered(o \o x, u) <=> (Ordered(o, u) \/ News(x, u)) /\ Ordered(x, u)
        <3> HIDE DEF Message
        <3>1. o \in Seq(Message) /\ x \in Seq(Message)
            BY <1>4, <1>5
        <3>2. QED BY ONLY <3>1, ConcatQueues
    <2> HIDE DEF r
    <2>4. r = o \o x
        BY DEF r
    <2>5. Once(o, u) /\ (Talks(o, u) => u \in known[p]) /\ (u = t => ~Talks(rest, u) /\ ~Talks(o, u))
        BY <1>5, <2>1, <2>2
    <2>6. Once(r, u) /\ (Talks(r, u) => u \in known[p])
        BY <1>4, <2>1, <2>2, <2>3, <2>4, <2>5
    <2>7. ASSUME status[p] = "up", AskedMempool(p), u \in pool'[p]
          PROVE  /\ Ordered(r, u)
                 /\ p \in txRelays'[u] \/ News(r, u) \/ u \in missed'[p]
        <3>1. CASE u \in pool[p]
            <4>1. Ordered(rest, u) /\ (p \in txRelays[u] \/ News(rest, u) \/ u \in missed[p])
                BY <2>1, <2>2, <2>7, <3>1
            <4>2. ~(u = t /\ returned /\ ~taken)
                BY <1>3, <3>1
            <4>3. Ordered(o, u) /\ Ordered(x, u) /\ (News(rest, u) => News(o, u))
                BY <1>4, <1>5, <2>2, <4>1, <4>2
            <4>4. QED BY <1>7, <1>8, <2>3, <2>4, <4>1, <4>3
        <3>2. CASE u \notin pool[p]
            <4>1. u = t /\ taken /\ returned
                BY <1>7, <2>7, <3>2
            <4>2. Ordered(rest, u)
                BY <2>5, <4>1, NoTalk
            <4>3. Ordered(o, u) /\ Ordered(x, u)
                BY <1>4, <1>5, <2>2, <4>1, <4>2
            <4>4. p \in txRelays'[u] \/ u \in missed'[p]
                BY <1>7, <1>8, <4>1
            <4>5. QED BY <2>3, <2>4, <4>3, <4>4
        <3>3. QED BY <3>1, <3>2
    <2>8. QED BY <2>6, <2>7
<1>11. in' \in [Peer -> Seq(Message)] /\ in'[p] = r /\ \A q \in Peer \ {p} : in'[q] = in[q]
    <2>1. r \in Seq(Message)
        <3> HIDE DEF Message
        <3>1. o \in Seq(Message) /\ x \in Seq(Message)
            BY <1>4, <1>5
        <3>2. QED BY <3>1
    <2> HIDE DEF Message, r
    <2> QED BY <1>1, <1>2, <2>1 DEF NetTypes
<1> HIDE DEF r
<1>12. NetTypes'
    BY <1>1, <1>2, <1>6, <1>7, <1>8, <1>11 DEF NetTypes
<1>13. \A q \in Peer \ {p} : PeerInv(q)'
    BY <1>1, <1>2, <1>7, <1>8, <1>11, OthersKept
<1>14. PeerInv(p)'
    BY <1>2, <1>10, <1>11 DEF PeerInv, AskedMempool
<1>15. QED BY <1>12, <1>13, <1>14 DEF NetKept

-----------------------------------------------------------------------------
(* The other steps *)

LEMMA FrontFacts ==
    ASSUME NEW S, NEW s \in Seq(S), s # <<>>
    PROVE  Front(s) \in Seq(S) /\ ToSet(Front(s)) \subseteq ToSet(s)
<1>1. Len(s) \in Nat /\ Len(s) > 0 /\ DOMAIN s = 1..Len(s)
    BY EmptySeq
<1> DEFINE f == Front(s)
           n == Len(s) - 1
<1>2. f = [i \in 1..n |-> s[i]] /\ n \in Nat
    BY <1>1 DEF Front
<1> HIDE DEF f
<1>3. \A i \in 1..n : i \in DOMAIN s /\ s[i] \in S
    BY <1>1, <1>2
<1>4. f \in Seq(S) /\ DOMAIN f = 1..n
    BY <1>2, <1>3
<1>5. ToSet(f) \subseteq ToSet(s)
    BY <1>2, <1>3, <1>4 DEF ToSet
<1>6. QED BY <1>4, <1>5 DEF f

LEMMA LockedKeeps == ASSUME RelaysInv, Sweep \/ Update PROVE NetKept
<1>1. NetTypes /\ (\A q \in Peer : PeerInv(q)) /\ SectionKept
    BY DEF RelaysInv
<1>2. UNCHANGED <<status, synced, mempool, known, in, pool, downloadPeer, syncing, behind, publishedTx,
                  waiting, txRelays, txRequests, missed>>
    BY DEF Sweep, Update, links, sync, lists
<1>3. \A q \in Peer : PeerInv(q)'
    BY <1>1, <1>2, NotSentTo
<1>4. section' \in Task
    <2>1. CASE Update
        BY <2>1 DEF Update, Unlocked, Nothing, Task
    <2>2. CASE Sweep
        <3> DEFINE what == "sweep"
                   s == section.txs
        <3>1. section.do = what /\ what \in {"update", "sweep"} /\ Then(what, Front(s), 0)
            BY <2>2 DEF Sweep
        <3>2. s \in Seq(Tx) /\ s # <<>>
            BY <1>1, <3>1 DEF NetTypes, Task, SectionKept, Nothing
        <3> HIDE DEF what, s
        <3>3. Front(s) \in Seq(Tx)
            BY <3>2, FrontFacts
        <3>4. QED BY <3>1, <3>3, ThenTask
    <2>3. QED BY <2>1, <2>2
<1>5. Held' = Held
    BY <1>2 DEF Held
<1>6. NetTypes'
    BY <1>1, <1>2, <1>4, <1>5 DEF NetTypes
<1>7. QED BY <1>3, <1>6 DEF NetKept

LEMMA RelayedBlockKeeps == ASSUME RelaysInv, NEW t \in Tx, RelayedBlock(t) PROVE NetKept
<1>1. NetTypes /\ (\A q \in Peer : PeerInv(q))
    BY DEF RelaysInv
<1>2. /\ publishedTx' = publishedTx \ {t} /\ waiting' = waiting \ {t}
      /\ txRelays' = [txRelays EXCEPT ![t] = {}]
      /\ pool' = [p \in Peer |-> pool[p] \ {t}]
      /\ UNCHANGED <<status, synced, mempool, known, in, downloadPeer, syncing, behind, txRequests,
                     section, missed>>
    BY DEF RelayedBlock, links, sync
<1>3. \A q \in Peer : /\ pool'[q] \subseteq pool[q] /\ t \notin pool'[q]
                      /\ pool[q] \subseteq Tx
    BY <1>1, <1>2 DEF NetTypes
<1>4. \A u \in Tx : u # t => txRelays'[u] = txRelays[u]
    BY <1>1, <1>2 DEF NetTypes
<1>5. \A q \in Peer : \A u \in pool'[q] : q \in txRelays[u] => q \in txRelays'[u]
    BY <1>3, <1>4
<1>6. \A q \in Peer : PeerInv(q)'
    BY <1>1, <1>2, <1>3, <1>5, NotSentTo
<1>7. Held' = Held
    BY <1>2 DEF Held
<1>8. NetTypes'
    BY <1>1, <1>2, <1>7 DEF NetTypes
<1>9. QED BY <1>6, <1>8 DEF NetKept

LEMMA PoolLosesKeeps == ASSUME RelaysInv, NEW p \in Peer, NEW S, PoolLoses(p, S) PROVE NetKept
<1>1. NetTypes /\ (\A q \in Peer : PeerInv(q))
    BY DEF RelaysInv
<1>2. /\ pool' = [pool EXCEPT ![p] = @ \ S]
      /\ UNCHANGED <<status, synced, mempool, known, in, downloadPeer, syncing, behind, publishedTx,
                     waiting, txRelays, txRequests, section, missed>>
    BY DEF PoolLoses, links, sync, lists
<1>3. \A q \in Peer : pool'[q] \subseteq pool[q]
    BY <1>1, <1>2 DEF NetTypes
<1>4. \A q \in Peer : PeerInv(q)'
    BY <1>1, <1>2, <1>3, NotSentTo
<1>5. Held' = Held
    BY <1>2 DEF Held
<1>6. NetTypes'
    BY <1>1, <1>2, <1>5 DEF NetTypes
<1>7. QED BY <1>4, <1>6 DEF NetKept

LEMMA PoolGainsKeeps == ASSUME RelaysInv, NEW p \in Peer, NEW t \in Tx, PoolGains(p, t) PROVE NetKept
<1>1. NetTypes /\ (\A q \in Peer : PeerInv(q))
    BY DEF RelaysInv
<1> DEFINE s == in[p]
           m == Msg("inv", {t})
           o == <<m>>
           told == status[p] = "up" /\ mempool[p] # "none"
           r == IF told THEN s \o o ELSE s
<1>2. /\ pool' = [pool EXCEPT ![p] = @ \cup {t}]
      /\ in' = IF told THEN [in EXCEPT ![p] = Append(s, m)] ELSE in
      /\ UNCHANGED <<status, synced, mempool, known, downloadPeer, syncing, behind, publishedTx,
                     waiting, txRelays, txRequests, section, missed>>
    BY DEF PoolGains, links, sync, lists
<1>3. s \in Seq(Message) /\ m \in Message /\ m.type = "inv" /\ m.txs = {t}
    BY <1>1 DEF NetTypes, Message, Msg
<1> HIDE DEF s, m, told
<1>4. Append(s, m) = s \o o
    <2> HIDE DEF Message
    <2> QED BY <1>3
<1>5. \A u : /\ o \in Seq(Message) /\ (News(o, u) <=> u = t) /\ ~Talks(o, u) /\ Once(o, u) /\ Ordered(o, u)
    <2>1. \A u : (IsNews(m, u) <=> u = t) /\ ~IsTalk(m, u) /\ ~IsReject(m, u)
        BY <1>3 DEF IsNews, IsTalk, IsReject
    <2> HIDE DEF Message
    <2>2. QED BY <1>3, <2>1, OneMessage
<1> HIDE DEF o
<1>6. r \in Seq(Message)
    <2> HIDE DEF Message
    <2> QED BY <1>3, <1>5
<1>7. in' = [in EXCEPT ![p] = r]
    <2>1. CASE told
        BY <1>2, <1>4, <2>1
    <2>2. CASE ~told
        <3>1. in = [in EXCEPT ![p] = s]
            BY <1>1 DEF NetTypes, s
        <3>2. QED BY <1>2, <2>2, <3>1
    <2>3. QED BY <2>1, <2>2
<1>8. ASSUME NEW u \in Tx
      PROVE  /\ Once(r, u) /\ (Talks(r, u) => u \in known[p])
             /\ status[p] = "up" /\ AskedMempool(p) /\ u \in pool'[p] =>
                   /\ Ordered(r, u)
                   /\ p \in txRelays[u] \/ News(r, u) \/ u \in missed[p]
    <2>1. /\ Once(s, u) /\ (Talks(s, u) => u \in known[p])
          /\ status[p] = "up" /\ AskedMempool(p) /\ u \in pool[p] =>
                /\ Ordered(s, u)
                /\ p \in txRelays[u] \/ News(s, u) \/ u \in missed[p]
        BY <1>1 DEF PeerInv, s
    <2>2. /\ News(s \o o, u) <=> News(s, u) \/ News(o, u)
          /\ Talks(s \o o, u) <=> Talks(s, u) \/ Talks(o, u)
          /\ Once(s \o o, u) <=> Once(s, u) /\ Once(o, u) /\ ~(Talks(s, u) /\ Talks(o, u))
          /\ Ordered(s \o o, u) <=> (Ordered(s, u) \/ News(o, u)) /\ Ordered(o, u)
        <3> HIDE DEF Message
        <3>1. s \in Seq(Message) /\ o \in Seq(Message)
            BY <1>3, <1>5
        <3>2. QED BY ONLY <3>1, ConcatQueues
    <2>3. pool'[p] = pool[p] \cup {t}
        BY <1>1, <1>2 DEF NetTypes
    <2>4. CASE told
        <3>1. r = s \o o
            BY <2>4
        <3> HIDE DEF r
        <3>2. QED BY <1>5, <2>1, <2>2, <2>3, <3>1
    <2>5. CASE ~told
        <3>1. r = s /\ ~(status[p] = "up" /\ AskedMempool(p))
            BY <2>5 DEF told, AskedMempool
        <3> HIDE DEF r
        <3>2. QED BY <2>1, <3>1
    <2>6. QED BY <2>4, <2>5
<1> HIDE DEF r
<1>9. in' \in [Peer -> Seq(Message)] /\ in'[p] = r /\ \A q \in Peer \ {p} : in'[q] = in[q]
    <2> HIDE DEF Message
    <2> QED BY <1>1, <1>6, <1>7 DEF NetTypes
<1>10. /\ pool' \in [Peer -> SUBSET Tx] /\ \A q \in Peer \ {p} : pool'[q] = pool[q]
    BY <1>1, <1>2 DEF NetTypes
<1>11. Held' = Held
    BY <1>2 DEF Held
<1>12. NetTypes'
    BY <1>1, <1>2, <1>9, <1>10, <1>11 DEF NetTypes
<1>13. \A q \in Peer \ {p} : PeerInv(q)'
    BY <1>1, <1>2, <1>9, <1>10, OthersKept
<1>14. PeerInv(p)'
    <2>1. status'[p] \in {"off", "connecting"} => mempool'[p] = "none"
        BY <1>1, <1>2 DEF PeerInv
    <2>2. QED BY <1>2, <1>8, <1>9, <2>1 DEF PeerInv, AskedMempool
<1>15. QED BY <1>12, <1>13, <1>14 DEF NetKept

LEMMA StillKeeps == ASSUME RelaysInv, UNCHANGED relaysVars PROVE NetKept
<1>1. NetTypes /\ (\A q \in Peer : PeerInv(q))
    BY DEF RelaysInv
<1>2. UNCHANGED <<status, synced, mempool, known, in, pool, downloadPeer, syncing, behind, publishedTx,
                  waiting, txRelays, txRequests, section, missed>>
    BY DEF relaysVars, links, sync, lists
<1>3. \A q \in Peer : PeerInv(q)'
    BY <1>1, <1>2, NotSentTo
<1>4. NetTypes'
    BY <1>1, <1>2 DEF NetTypes, Held
<1>5. QED BY <1>3, <1>4 DEF NetKept

LEMMA AppPublishKeeps == ASSUME RelaysInv, NEW t \in Tx, AppPublish(t) PROVE NetKept
<1>1. /\ NetTypes /\ (\A q \in Peer : PeerInv(q)) /\ WalletInv
      /\ allTx \in SUBSET Tx /\ publishedTx \subseteq Tx /\ waiting \subseteq publishedTx
    BY InvFacts DEF RelaysInv, NetTypes
<1> DEFINE to == IF Cardinality(Up) = 1 THEN Up ELSE Up \ {downloadPeer}
           list == publishedTx'
           a(p) == Wanted(p, list \ known[p])
           b == <<PongOf("publish")>>
           m(p) == [mem |-> mempool[p], kn |-> known[p] \cup list, msgs |-> a(p) \o b]
<1>2. /\ t \notin allTx /\ t \notin publishedTx
      /\ list = publishedTx \cup Listing(t, allTx)
      /\ waiting' = waiting \cup {t}
      /\ known' = [p \in Peer |-> known[p] \cup (IF p \in to THEN list ELSE {})]
      /\ in' = [p \in Peer |-> IF p \notin to THEN in[p] ELSE in[p] \o a(p) \o b]
      /\ UNCHANGED <<status, synced, mempool, pool, downloadPeer, syncing, behind, txRelays, txRequests,
                     section, missed>>
    BY DEF AppPublish, sync
<1>3. \A p \in to : p \in Peer /\ status[p] = "up"
    BY DEF Up
<1>4. list \in SUBSET Tx /\ waiting' \subseteq list
    <2>1. height[t] = TX_UNCONFIRMED
        BY <1>1, <1>2 DEF WalletInv, UnknownAreNew
    <2>2. Listing(t, allTx) \subseteq Tx /\ t \in Listing(t, allTx)
        BY <1>1, <1>2, <2>1, ListingFacts
    <2>3. QED BY <1>1, <1>2, <2>2
<1> HIDE DEF to, list
<1>5. ASSUME NEW p \in Peer
      PROVE  /\ a(p) \in Seq(Message) /\ b \in Seq(Message) /\ a(p) \o b \in Seq(Message)
             /\ \A u \in Tx : /\ Talks(a(p) \o b, u) => u \in list \ known[p]
                              /\ Once(a(p) \o b, u) /\ Ordered(a(p) \o b, u)
    <2> DEFINE S == list \ known[p]
               c == a(p)
    <2>1. S \in SUBSET Tx
        BY <1>4
    <2>2. c = Wanted(p, S)
        OBVIOUS
    <2> HIDE DEF S, c
    <2>3. \A u : c \in Seq(Message) /\ (Talks(c, u) => u \in S) /\ Once(c, u) /\ Ordered(c, u)
        BY <1>1, <2>1, <2>2, WantedFacts
    <2>4. \A u : b \in Seq(Message) /\ ~Talks(b, u) /\ Once(b, u) /\ Ordered(b, u)
        BY OnePong
    <2> HIDE DEF b, Message
    <2>5. \A u : /\ c \o b \in Seq(Message) /\ (Talks(c \o b, u) <=> Talks(c, u) \/ Talks(b, u))
                 /\ Once(c \o b, u) /\ Ordered(c \o b, u)
        BY <2>3, <2>4, BothSent
    <2>6. c \in Seq(Message) /\ b \in Seq(Message) /\ c \o b \in Seq(Message)
          /\ \A u \in Tx : (Talks(c \o b, u) => u \in S) /\ Once(c \o b, u) /\ Ordered(c \o b, u)
        BY <2>3, <2>4, <2>5
    <2>7. QED BY <2>6 DEF S, c
<1> HIDE DEF a, b
<1>6. ASSUME NEW p \in Peer
      PROVE  in'[p] \in Seq(Message) /\ known'[p] \in SUBSET Tx /\ PeerInv(p)'
    <2>1. in[p] \in Seq(Message) /\ known[p] \in SUBSET Tx /\ mempool[p] \in {"none", "loaded", "waiting", "answered"}
        BY <1>1 DEF NetTypes
    <2>2. CASE p \notin to
        <3>1. in'[p] = in[p] /\ known'[p] = known[p]
            BY <1>2, <2>2
        <3>2. PeerInv(p)'
            BY <1>1, <1>2, <3>1, NotSentTo
        <3>3. QED BY <2>1, <3>1, <3>2
    <2>3. CASE p \in to
        <3> DEFINE x == m(p)
                   c == a(p) \o b
        <3>1. x.mem = mempool[p] /\ x.kn = known[p] \cup list /\ x.msgs = c
            OBVIOUS
        <3>2. in'[p] = (in[p] \o a(p)) \o b /\ known'[p] = known[p] \cup list
            BY <1>2, <2>3
        <3>3. in'[p] = in[p] \o c
            <4>1. (in[p] \o a(p)) \o b = in[p] \o (a(p) \o b)
                <5> DEFINE i == in[p]
                           w == a(p)
                <5>1. i \in Seq(Message) /\ w \in Seq(Message) /\ b \in Seq(Message)
                    BY <1>5, <2>1
                <5> HIDE DEF i, w, Message
                <5>2. (i \o w) \o b = i \o (w \o b)
                    BY <5>1
                <5>3. QED BY <5>2 DEF i, w
            <4>2. QED BY <3>2, <4>1
        <3>4. /\ c \in Seq(Message)
              /\ \A u \in Tx : /\ Talks(c, u) => u \in list \ known[p]
                               /\ Once(c, u) /\ Ordered(c, u)
            BY <1>5
        <3> HIDE DEF x, c
        <3>5. Piece(p, x)
            <4>1. \A u \in Tx : x.mem \in {"waiting", "answered"} /\ u \in pool[p] => AskedMempool(p)
                BY <3>1 DEF AskedMempool
            <4>2. x.kn \in SUBSET Tx /\ known[p] \subseteq x.kn /\ x.kn \ known[p] = list \ known[p]
                BY <1>4, <2>1, <3>1
            <4>3. QED BY <2>1, <3>1, <3>4, <4>1, <4>2 DEF Piece
        <3>6. PeerInv(p)'
            BY <1>1, <1>2, <1>3, <2>3, <3>1, <3>2, <3>3, <3>5, SentTo
        <3>7. in[p] \o c \in Seq(Message)
            <4> HIDE DEF Message
            <4> QED BY <2>1, <3>4
        <3>8. QED BY <1>4, <2>1, <3>2, <3>3, <3>6, <3>7
    <2>4. QED BY <2>2, <2>3
<1>7. in' \in [Peer -> Seq(Message)] /\ known' \in [Peer -> SUBSET Tx]
    <2> HIDE DEF Message
    <2> QED BY <1>2, <1>6
<1>8. NetTypes'
    <2>1. Held' = Held
        BY <1>2 DEF Held
    <2>2. QED BY <1>1, <1>2, <1>4, <1>7, <2>1 DEF NetTypes, list
<1>9. QED BY <1>6, <1>8 DEF NetKept

-----------------------------------------------------------------------------
(* What the thread with the lock has still to do *)

LEMMA FreeIsNothing == ASSUME SectionKept, Free PROVE section = Nothing
BY DEF SectionKept, Free

LEMMA UpdateTask ==
    ASSUME NEW t \in Tx, NEW ts \in {0, 1},
           \/ Then("update", <<t>>, ts) /\ height'[t] = TX_UNCONFIRMED
           \/ Unlocked
    PROVE  SectionKept'
<1>1. section' # Nothing => section' = [do |-> "update", txs |-> <<t>>, stamp |-> ts]
    BY OneTask
<1>2. SUFFICES ASSUME section' # Nothing
               PROVE  /\ section'.do # "nothing" /\ section'.txs # <<>>
                      /\ \A u \in ToSet(section'.txs) : height'[u] = TX_UNCONFIRMED
                      /\ Len(section'.txs) = 1 /\ section'.do # "sweep"
    BY DEF SectionKept
<1>3. section'.do = "update" /\ section'.txs = <<t>> /\ height'[t] = TX_UNCONFIRMED
    BY <1>1, <1>2 DEF Unlocked
<1>4. ToSet(<<t>>) = {t} /\ Len(<<t>>) = 1 /\ <<t>> # <<>>
    BY DEF ToSet
<1>5. QED BY <1>3, <1>4

LEMMA SameTask ==
    ASSUME SectionKept, section' = section, Up' \subseteq Up, synced' = synced, UNCHANGED <<walletVars, chain>>
    PROVE  SectionKept'
BY DEF SectionKept, walletVars

LEMMA SweepTask ==
    ASSUME NEW txs \in Seq(Tx), Then("sweep", txs, 0), Up' \subseteq synced',
           \A t \in ToSet(txs) : height'[t] = TX_UNCONFIRMED,
           ToSet(txs) \cap allTx' \subseteq ToSet(transactions')
    PROVE  SectionKept'
<1>1. section' # Nothing => section' = [do |-> "sweep", txs |-> txs, stamp |-> 0] /\ txs # <<>>
    <2> DEFINE what == "sweep"
    <2>1. what \in {"update", "sweep"} /\ Then(what, txs, 0)
        OBVIOUS
    <2> HIDE DEF what
    <2>2. section' # Nothing => section' = [do |-> what, txs |-> txs, stamp |-> 0] /\ txs # <<>>
        BY <2>1, ThenTask
    <2>3. QED BY <2>2 DEF what
<1>2. SUFFICES ASSUME section' # Nothing PROVE SectionKept'
    BY DEF SectionKept
<1>3. section'.do = "sweep" /\ section'.txs = txs /\ txs # <<>>
    BY <1>1, <1>2
<1>4. QED BY <1>3 DEF SectionKept

LEMMA TaskKept == ASSUME RelaysInv, [RelaysNext]_relaysVars PROVE SectionKept'
<1>1. NetTypes /\ SectionKept /\ WalletInv
    BY DEF RelaysInv
<1>2. ASSUME Free, section' = section PROVE SectionKept'
    BY <1>1, <1>2, FreeIsNothing DEF SectionKept
<1>3. CASE UNCHANGED relaysVars
    <2>1. UNCHANGED <<section, status, synced>> /\ UNCHANGED <<walletVars, chain>>
        BY <1>3 DEF relaysVars, links
    <2>2. QED BY <1>1, <2>1, SameTask DEF Up
<1>4. ASSUME NEW p \in Peer, NEW t \in Tx, RelayedTx(p, t) PROVE SectionKept'
    <2>1. (Then("update", <<t>>, 1) /\ height[t] = TX_UNCONFIRMED) \/ Unlocked
        BY <1>4 DEF RelayedTx, Verify
    <2>2. height' = height
        BY <1>4, RelayedTxWallet
    <2>3. QED BY <2>1, <2>2, UpdateTask
<1>5. ASSUME NEW p \in Peer, NEW t \in Tx, HasTx(p, t) PROVE SectionKept'
    <2>1. \/ Then("update", <<t>>, 1) /\ height[t] = TX_UNCONFIRMED
          \/ Unlocked
          \/ Free /\ section' = section
        BY <1>5 DEF HasTx, Verify
    <2>2. height' = height
        BY <1>5, RelayedTxWallet
    <2>3. QED BY <1>2, <2>1, <2>2, UpdateTask
<1>6. CASE \E p \in Peer, t \in Tx, accepts \in BOOLEAN : RequestedTx(p, t, accepts)
    BY <1>2, <1>6 DEF RequestedTx
<1>7. CASE Update
    BY <1>7 DEF Update, Unlocked, SectionKept
<1>8. CASE Sweep
    <2> DEFINE s == section.txs
               f == Front(s)
    <2>1. section.do = "sweep" /\ Then("sweep", f, 0) /\ UNCHANGED <<status, synced>>
        BY <1>8 DEF Sweep, links
    <2>2. /\ s \in Seq(Tx) /\ s # <<>> /\ Up \subseteq synced
          /\ \A t \in ToSet(s) : height[t] = TX_UNCONFIRMED
          /\ ToSet(s) \cap allTx \subseteq ToSet(transactions)
        BY <1>1, <2>1 DEF NetTypes, Task, SectionKept, Nothing
    <2> HIDE DEF s
    <2>3. f \in Seq(Tx) /\ ToSet(f) \subseteq ToSet(s) /\ ToSet(s) \subseteq Tx
        <3>1. \A i \in DOMAIN s : s[i] \in Tx
            BY <2>2
        <3>2. QED BY <2>2, <3>1, FrontFacts DEF ToSet
    <2> HIDE DEF f
    <2>4. /\ \A u \in Tx : height'[u] \in {height[u], TX_UNCONFIRMED}
          /\ \/ allTx' = allTx /\ ToSet(transactions') = ToSet(transactions)
             \/ \E gone : /\ allTx' = allTx \ gone
                          /\ ToSet(transactions') = ToSet(transactions) \ gone
        BY <1>8, SweepInv
    <2>5. \A t \in ToSet(f) : height'[t] = TX_UNCONFIRMED
        BY <2>2, <2>3, <2>4
    <2>6. ToSet(f) \cap allTx' \subseteq ToSet(transactions')
        BY <2>2, <2>3, <2>4
    <2>7. Up' \subseteq synced'
        BY <2>1, <2>2 DEF Up
    <2>8. QED BY <2>1, <2>3, <2>5, <2>6, <2>7, SweepTask
<1>9. ASSUME NEW t \in Tx, AppPublish(t) \/ RelayedBlock(t) PROVE SectionKept'
    BY <1>2, <1>9 DEF AppPublish, RelayedBlock
<1>10. CASE Elsewhere
    <2>1. UNCHANGED <<walletVars, chain>>
        BY <1>10, ElsewhereUntouched
    <2>2. ASSUME NEW p \in Peer, NEW t \in Tx, RejectedTx(p, t) PROVE SectionKept'
        <3>1. (Then("update", <<t>>, 0) /\ height[t] = TX_UNCONFIRMED) \/ Unlocked
            BY <2>2 DEF RejectedTx
        <3>2. height' = height
            BY <2>1 DEF walletVars
        <3>3. QED BY <3>1, <3>2, UpdateTask
    <2>3. ASSUME NEW p \in Peer, GetdataDone(p) PROVE SectionKept'
        <3> DEFINE copy == Without(transactions, Tx \ Unconfirmed)
        <3>1. /\ status' = status
              /\ (Then("sweep", copy, 0) /\ Held \subseteq synced') \/ Unlocked
            BY <2>3 DEF GetdataDone, AllSynced
        <3>2. /\ copy \in Seq(Tx)
              /\ ToSet(copy) = ToSet(transactions) \ (Tx \ Unconfirmed)
            BY <1>1, InvFacts, WithoutElements
        <3> HIDE DEF copy
        <3>3. /\ \A t \in ToSet(copy) : height[t] = TX_UNCONFIRMED
              /\ ToSet(copy) \subseteq ToSet(transactions)
            BY <1>1, <3>2, InvFacts DEF Unconfirmed
        <3>4. height' = height /\ transactions' = transactions
            BY <2>1 DEF walletVars
        <3>5. CASE Unlocked
            BY <3>5 DEF Unlocked, SectionKept
        <3>6. CASE Then("sweep", copy, 0) /\ Held \subseteq synced'
            <4>1. Up' \subseteq synced'
                BY <3>1, <3>6 DEF Up, Held
            <4>2. QED BY <3>2, <3>3, <3>4, <3>6, <4>1, SweepTask
        <3>7. QED BY <3>1, <3>5, <3>6
    <2>4. CASE \E p \in Peer : \/ Leave(p)
                               \/ \E t \in Tx : PoolGains(p, t)
                               \/ \E S \in SUBSET pool[p] : PoolLoses(p, S)
        <3>1. section' = section /\ synced' = synced
            BY <2>4 DEF Leave, PoolGains, PoolLoses, links
        <3>2. Up' \subseteq Up
            BY <1>1, <2>4 DEF Leave, PoolGains, PoolLoses, links, Up, NetTypes
        <3>3. QED BY <1>1, <2>1, <3>1, <3>2, SameTask
    <2>5. CASE \/ \E p \in Peer : Connect(p) \/ PeerConnected(p)
               \/ \E p \in Peer, ended \in {"left", "timeout", "failure"} : Disconnected(p, ended)
               \/ CatchUp
        BY <1>2, <2>5 DEF Connect, PeerConnected, Disconnected, CatchUp
    <2>6. CASE \E p \in Peer : \/ InvHandled(p) \/ NotFound(p)
                               \/ LoadDone(p) \/ MempoolDone(p) \/ LoadFailed(p) \/ PublishInvDone(p)
        BY <1>2, <2>6 DEF InvHandled, NotFound, LoadDone, MempoolDone, LoadFailed, PublishInvDone, CallsBack,
                          lists
    <2>7. QED BY <1>10, <2>2, <2>3, <2>4, <2>5, <2>6 DEF Elsewhere
<1>11. QED BY <1>3, <1>4, <1>5, <1>6, <1>7, <1>8, <1>9, <1>10, StepCases

-----------------------------------------------------------------------------
(* The invariant, and what follows from it *)

LEMMA NetSteps == ASSUME RelaysInv, [RelaysNext]_relaysVars PROVE NetKept
<1>1. CASE UNCHANGED relaysVars
    BY <1>1, StillKeeps
<1>2. CASE \E p \in Peer : Connect(p) \/ PeerConnected(p) \/ Leave(p)
    BY <1>2, ConnectKeeps, PeerConnectedKeeps, LeaveKeeps
<1>3. CASE \E p \in Peer, ended \in {"left", "timeout", "failure"} : Disconnected(p, ended)
    BY <1>3, DisconnectedKeeps
<1>4. CASE CatchUp
    BY <1>4, CatchUpKeeps
<1>5. CASE \E p \in Peer, t \in Tx : RelayedTx(p, t) \/ HasTx(p, t) \/ RejectedTx(p, t)
    BY <1>5, RelayedTxKeeps, HasTxKeeps, RejectedTxKeeps
<1>6. CASE \E p \in Peer, t \in Tx, accepts \in BOOLEAN : RequestedTx(p, t, accepts)
    BY <1>6, RequestedTxKeeps
<1>7. CASE \E p \in Peer : InvHandled(p) \/ NotFound(p)
    BY <1>7, InvHandledKeeps, NotFoundKeeps
<1>8. CASE \E p \in Peer : LoadDone(p) \/ MempoolDone(p) \/ LoadFailed(p) \/ PublishInvDone(p)
    BY <1>8, LoadDoneKeeps, RequestsKeeps, LoadFailedKeeps
<1>9. CASE \E p \in Peer : GetdataDone(p)
    BY <1>9, GetdataDoneKeeps
<1>10. CASE Sweep \/ Update
    BY <1>10, LockedKeeps
<1>11. CASE \E t \in Tx : AppPublish(t) \/ RelayedBlock(t)
    BY <1>11, AppPublishKeeps, RelayedBlockKeeps
<1>12. CASE \E p \in Peer : \/ \E t \in Tx : PoolGains(p, t)
                            \/ \E S \in SUBSET pool[p] : PoolLoses(p, S)
    BY <1>12, PoolGainsKeeps, PoolLosesKeeps
<1>13. QED
    BY <1>1, <1>2, <1>3, <1>4, <1>5, <1>6, <1>7, <1>8, <1>9, <1>10, <1>11, <1>12 DEF RelaysNext

LEMMA RelaysInvNext == RelaysInv /\ [RelaysNext]_relaysVars => RelaysInv'
<1> SUFFICES ASSUME RelaysInv, [RelaysNext]_relaysVars PROVE RelaysInv'
    OBVIOUS
<1>1. WalletInv' /\ ChainKept'
    BY WalletKept
<1>2. PoolsClosed'
    BY PoolsKept
<1>3. NetTypes' /\ \A p \in Peer : PeerInv(p)'
    BY NetSteps DEF NetKept
<1>4. SectionKept'
    BY TaskKept
<1>5. QED BY <1>1, <1>2, <1>3, <1>4 DEF RelaysInv

(* The app may have stored transactions, all of them unconfirmed.          *)
LEMMA LoadsInv ==
    ASSUME NEW txs \in Stored, Loads(txs), mined = [t \in Tx |-> TX_UNCONFIRMED], tip = 0
    PROVE  WalletInv /\ ChainKept
<1>1. /\ txs \in Seq(Tx)
      /\ \A i, j \in 1..Len(txs) : txs[i] = txs[j] => i = j
      /\ \A t \in ToSet(txs) : Ours(t, ToSet(txs))
    BY StoredAssumption
<1>2. /\ allTx = ToSet(txs) /\ transactions = txs
      /\ height = [t \in Tx |-> TX_UNCONFIRMED]
      /\ timestamp = [t \in Tx |-> IF t \in ToSet(txs) THEN 1 ELSE 0]
      /\ blockHeight = 0
      /\ chainLen = FullChains
      /\ saved = [t \in Tx |-> IF t \in ToSet(txs) THEN TX_UNCONFIRMED ELSE NotSaved]
    BY DEF Loads
<1>3. /\ ToSet(txs) \subseteq Tx
      /\ \A i \in 1..Len(txs) : txs[i] \in ToSet(txs)
    BY <1>1 DEF ToSet
<1>4. /\ 0 \in Heights /\ TX_UNCONFIRMED \in Heights /\ Heights \subseteq Nat
      /\ FullChains \in [Chains -> 0..MaxChain] /\ 0 \in 0..MaxTip
    BY HeightsOrdered, WalletAssumption DEF FullChains
<1>5. TypeOK
    BY <1>1, <1>2, <1>3, <1>4 DEF TypeOK
<1>6. \A i \in 1..Len(txs) : height[txs[i]] = TX_UNCONFIRMED
    BY <1>2, <1>3
<1>7. SortedByHeight
    BY <1>2, <1>4, <1>6 DEF SortedByHeight
<1>8. NoDangling
    BY <1>1, <1>2, <1>3 DEF NoDangling
<1>9. SavedMatches /\ HeightsFollowChain /\ UnknownAreNew
    BY <1>2, <1>3 DEF SavedMatches, HeightsFollowChain, UnknownAreNew
<1>10. OnBestChain = {}
    BY DEF OnBestChain
<1>11. HeldAreAssociated
    <2>1. allAddrs = AddrsOf(FullChains)
        BY <1>2 DEF allAddrs
    <2>2. QED BY <1>1, <1>2, <2>1 DEF HeldAreAssociated, Ours, ContainsTx
<1>12. ChainOrdered /\ ChainKept
    BY <1>2, <1>10 DEF ChainOrdered, ChainKept
<1>13. QED BY <1>5, <1>7, <1>8, <1>9, <1>11, <1>12 DEF WalletInv

LEMMA RelaysInvInit == RelaysInit => RelaysInv
<1> SUFFICES ASSUME RelaysInit PROVE RelaysInv
    OBVIOUS
<1>1. WalletInv /\ ChainKept
    BY LoadsInv DEF RelaysInit
<1>2. PICK S \in SUBSET Tx : /\ \A t \in S : Parents(t) \subseteq S \cup {Foreign}
                             /\ pool \in [Peer -> {{}, S}]
    BY DEF RelaysInit
<1>3. PoolsClosed /\ pool \in [Peer -> SUBSET Tx]
    BY <1>2 DEF PoolsClosed
<1>4. \A p \in Peer : in[p] = <<>> /\ status[p] = "off" /\ mempool[p] = "none"
    BY DEF RelaysInit
<1>5. NetTypes
    <2>1. in \in [Peer -> Seq(Message)]
        <3>1. <<>> \in Seq(Message)
            BY NoQueue
        <3> HIDE DEF Message
        <3>2. QED BY <3>1 DEF RelaysInit
    <2>2. section \in Task
        BY DEF RelaysInit, Nothing, Task
    <2>3. QED BY <1>3, <2>1, <2>2 DEF RelaysInit, NetTypes
<1>6. SectionKept
    BY DEF RelaysInit, SectionKept
<1>7. ASSUME NEW p \in Peer PROVE PeerInv(p)
    <2>1. \A t \in Tx : Once(in[p], t) /\ ~Talks(in[p], t)
        BY <1>4, NoQueue
    <2>2. QED BY <1>4, <2>1 DEF PeerInv
<1>8. QED BY <1>1, <1>3, <1>5, <1>6, <1>7 DEF RelaysInv

(* The strengthened invariant holds in every reachable state.              *)
THEOREM RelaysInvariant == RelaysSpec => []RelaysInv
BY RelaysInvInit, RelaysInvNext, PTL DEF RelaysSpec

(* What is sent, counted, asked for and left to do has its type, and no    *)
(* peer is flagged or counted that is not connected.                       *)
THEOREM RelaysTypes == RelaysSpec => []RelaysTypeOK
<1>1. RelaysInv => RelaysTypeOK
    BY DEF RelaysInv, WalletInv, NetTypes, Task, RelaysTypeOK
<1>2. QED BY <1>1, RelaysInvariant, PTL

(* The manager, with its sweeps and verifications, keeps what the wallet   *)
(* promises: the array sorted and of kept transactions only, their heights *)
(* told to the app, and those of the best chain.                           *)
THEOREM ManagerKeepsWallet ==
    RelaysSpec => [](SortedByHeight /\ NoDangling /\ SavedMatches /\ HeightsFollowChain)
<1>1. RelaysInv => SortedByHeight /\ NoDangling /\ SavedMatches /\ HeightsFollowChain
    BY DEF RelaysInv, WalletInv
<1>2. QED BY <1>1, RelaysInvariant, PTL

(* One step of the manager, from a state of the invariant.                 *)
LEMMA CountedStep ==
    ASSUME RelaysInv, [RelaysNext]_relaysVars,
           NEW t \in allTx \ allTx', NEW p \in Up, t \in pool[p], mined'[t] = TX_UNCONFIRMED
    PROVE  \E u \in Lineage(t) \cap (allTx \ allTx') : Late(p, u)
<1>1. NetTypes /\ SectionKept /\ WalletInv /\ ChainKept /\ PoolsClosed /\ p \in Peer /\ PeerInv(p)
    BY DEF RelaysInv, Up
<1>2. Sweep
    <2>1. ~UNCHANGED relaysVars
        BY DEF relaysVars, walletVars
    <2>2. ~Elsewhere
        BY ElsewhereUntouched DEF walletVars
    <2>3. ~\E q \in Peer, u \in Tx : RelayedTx(q, u) \/ HasTx(q, u)
        BY RelayedTxWallet
    <2>4. ~\E q \in Peer, u \in Tx, accepts \in BOOLEAN : RequestedTx(q, u, accepts)
        BY RelayedTxWallet
    <2>5. ~Update
        BY UpdateInv
    <2>6. ~\E u \in Tx : AppPublish(u)
        BY DEF AppPublish
    <2>7. ~\E u \in Tx : RelayedBlock(u)
        BY RelayedBlockInv
    <2>8. QED BY <2>1, <2>2, <2>3, <2>4, <2>5, <2>6, <2>7, StepCases
<1> DEFINE x == Last(section.txs)
<1>3. /\ x \in ToSet(transactions) /\ height[x] = TX_UNCONFIRMED /\ Unwanted(x)
      /\ allTx' = allTx \ Removed(x)
    BY <1>2, SweepInv
<1> HIDE DEF x
<1>4. t \in Removed(x) /\ x \in allTx /\ x \in Tx
    BY <1>1, <1>3, InvFacts
<1>5. x \in Removed(x)
    BY <1>4 DEF Removed
<1>6. x \in Lineage(t) /\ x \in pool[p]
    BY <1>1, <1>3, <1>4, RemovedLineage DEF NetTypes
<1>7. p \in synced
    BY <1>1, <1>2 DEF Sweep, SectionKept, Nothing
<1>8. AskedMempool(p) => News(in[p], x) \/ x \in missed[p]
    BY <1>1, <1>3, <1>4, <1>6 DEF PeerInv, Unwanted, Up
<1>9. Late(p, x)
    BY <1>7, <1>8 DEF Late, UnderWay, News, IsNews
<1>10. QED BY <1>3, <1>4, <1>5, <1>6, <1>9

(* The loop of _requestUnrelayedTxGetdataDone removes nothing unconfirmed  *)
(* that a connected peer has, but for news of it, or of one in its lineage *)
(* that goes with it, that is late.                                        *)
THEOREM CountedStay == RelaysSpec => CountedAreKept
<1>1. RelaysInv /\ [RelaysNext]_relaysVars =>
        [\A t \in allTx \ allTx' : \A p \in Up :
          t \in pool[p] /\ mined'[t] = TX_UNCONFIRMED =>
              \E u \in Lineage(t) \cap (allTx \ allTx') : Late(p, u)]_relaysVars
    BY CountedStep
<1>2. QED BY <1>1, RelaysInvariant, PTL DEF RelaysSpec, CountedAreKept
=============================================================================
