---------------------------- MODULE SenderProofs ----------------------------
(***************************************************************************)
(* Proofs about sending a payment, for every limit, every number of        *)
(* payments and screens, and however often a PIN takes too long: biometric *)
(* payments stay within the limit although the check does not see payments *)
(* that are on their way, a failure is final as long as the main thread    *)
(* did not give up waiting, and a closed screen hands nothing over unless  *)
(* it gave up twice.                                                       *)
(***************************************************************************)
EXTENDS Sender, FiniteSetTheorems, WellFoundedInduction, SequenceTheorems, TLAPS

(* A set of naturals that is not empty has a least member.                 *)
LEMMA LeastNat ==
    ASSUME NEW S \in SUBSET Nat, S # {}
    PROVE  \E n \in S : \A m \in S : n <= m
<1> DEFINE U == {1..n : n \in S}
<1>1. U \subseteq FiniteSubsetsOf(Nat)
    <2>1. \A n \in Nat : 1..n \subseteq Nat /\ IsFiniteSet(1..n)
        BY FS_Interval
    <2>2. QED BY <2>1 DEF FiniteSubsetsOf
<1>2. PICK x \in U : \A y \in U : ~(<<y, x>> \in StrictSubsetOrdering(Nat))
    <2>1. U # {}
        OBVIOUS
    <2>2. IsWellFoundedOn(StrictSubsetOrdering(Nat), FiniteSubsetsOf(Nat))
        BY FS_StrictSubsetOrderingWellFounded
    <2> HIDE DEF U
    <2> QED BY <1>1, <2>1, <2>2, WFMin
<1>3. PICK n \in S : x = 1..n
    OBVIOUS
<1>4. ASSUME NEW m \in S PROVE n <= m
    <2>1. SUFFICES ASSUME m < n PROVE FALSE
        OBVIOUS
    <2>2. 1..m \in U /\ 1..m \subseteq 1..n /\ 1..m # 1..n
        BY <2>1
    <2>3. 1..m \in SUBSET Nat /\ 1..n \in SUBSET Nat
        OBVIOUS
    <2>4. <<1..m, 1..n>> \in StrictSubsetOrdering(Nat)
        BY <2>2, <2>3 DEF StrictSubsetOrdering
    <2>5. QED BY <2>2, <2>4, <1>2, <1>3
<1>5. QED BY <1>4

(* Induction over the naturals, for a set in place of a predicate.         *)
LEMMA NatSetInduction ==
    ASSUME NEW S, 0 \in S, \A n \in Nat : n \in S => n + 1 \in S
    PROVE  Nat \subseteq S
<1>1. SUFFICES ASSUME Nat \ S # {} PROVE FALSE
    OBVIOUS
<1>2. PICK n \in Nat \ S : \A m \in Nat \ S : n <= m
    BY <1>1, LeastNat
<1>3. n - 1 \in Nat /\ n - 1 \in S
    BY <1>2
<1>4. QED BY <1>2, <1>3

(* The sum of the weights w of the elements of a finite set, by the        *)
(* recursion over its subsets that MapThenSumSet uses.                     *)
Chosen(s)        == CHOOSE x \in s : TRUE
SumStep(w, f, s) == IF s = {} THEN 0 ELSE w[Chosen(s)] + f[s \ {Chosen(s)}]
IsSum(w, f, S)   == f = [s \in SUBSET S |-> SumStep(w, f, s)]
SumOf(w, S)      == (CHOOSE f : IsSum(w, f, S))[S]

LEMMA SmallerWithoutChosen ==
    ASSUME NEW s, IsFiniteSet(s), s # {}
    PROVE  /\ Chosen(s) \in s /\ IsFiniteSet(s \ {Chosen(s)})
           /\ Cardinality(s) \in Nat /\ Cardinality(s \ {Chosen(s)}) \in Nat
           /\ Cardinality(s \ {Chosen(s)}) = Cardinality(s) - 1
<1>1. Chosen(s) \in s
    BY DEF Chosen
<1>2. QED BY <1>1, FS_RemoveElement, FS_CardinalityType

(* The recursion has a solution for every finite set.                      *)
LEMMA SumExists == ASSUME NEW w, NEW S, IsFiniteSet(S) PROVE \E f : IsSum(w, f, S)
<1> DEFINE UpTo(n) == {s \in SUBSET S : Cardinality(s) <= n}
           Defined == {n \in Nat : \E f : f = [s \in UpTo(n) |-> SumStep(w, f, s)]}
<1>1. \A s \in SUBSET S : IsFiniteSet(s) /\ Cardinality(s) \in Nat
                          /\ Cardinality(s) <= Cardinality(S)
    BY FS_Subset, FS_CardinalityType
<1>2. 0 \in Defined
    <2>1. UpTo(0) = {{}}
        <3>1. \A s \in SUBSET S : Cardinality(s) <= 0 <=> s = {}
            BY <1>1, FS_EmptySet
        <3>2. QED BY <3>1
    <2>2. [s \in {{}} |-> 0] = [s \in {{}} |-> SumStep(w, [r \in {{}} |-> 0], s)]
        BY DEF SumStep
    <2> HIDE DEF UpTo
    <2>3. QED BY <2>1, <2>2
<1>3. ASSUME NEW n \in Nat, n \in Defined PROVE n + 1 \in Defined
    <2>1. PICK f : f = [s \in UpTo(n) |-> SumStep(w, f, s)]
        BY <1>3
    <2> DEFINE g == [s \in UpTo(n + 1) |-> IF s \in UpTo(n) THEN f[s] ELSE SumStep(w, f, s)]
    <2>2. ASSUME NEW s \in UpTo(n + 1), s # {}
          PROVE  s \ {Chosen(s)} \in UpTo(n) /\ s \ {Chosen(s)} \in UpTo(n + 1)
        <3>1. s \in SUBSET S /\ IsFiniteSet(s) /\ Cardinality(s) <= n + 1
            BY <1>1
        <3>2. Cardinality(s \ {Chosen(s)}) = Cardinality(s) - 1 /\ Cardinality(s) \in Nat
            BY <2>2, <3>1, SmallerWithoutChosen
        <3>3. QED BY <3>1, <3>2
    <2>3. ASSUME NEW s \in UpTo(n + 1) PROVE g[s] = SumStep(w, g, s)
        <3>1. CASE s = {}
            <4>1. {} \in UpTo(n)
                BY FS_EmptySet
            <4> HIDE DEF UpTo
            <4>2. QED BY <2>1, <2>3, <3>1, <4>1 DEF SumStep
        <3>2. CASE s # {}
            <4>1. g[s \ {Chosen(s)}] = f[s \ {Chosen(s)}]
                BY <2>2, <3>2
            <4>2. SumStep(w, g, s) = SumStep(w, f, s)
                BY <3>2, <4>1 DEF SumStep
            <4>3. s \in UpTo(n) => f[s] = SumStep(w, f, s)
                BY <2>1
            <4> HIDE DEF UpTo
            <4>4. g[s] = SumStep(w, f, s)
                BY <2>3, <4>3
            <4>5. QED BY <4>2, <4>4
        <3>3. QED BY <3>1, <3>2
    <2>4. g = [s \in UpTo(n + 1) |-> SumStep(w, g, s)]
        <3> HIDE DEF UpTo
        <3> QED BY <2>3
    <2> HIDE DEF g, UpTo
    <2>5. QED BY <2>4
<1>4. Cardinality(S) \in Nat
    BY FS_CardinalityType
<1>5. Cardinality(S) \in Defined
    <2> HIDE DEF Defined
    <2> QED BY <1>2, <1>3, <1>4, NatSetInduction
<1>6. UpTo(Cardinality(S)) = SUBSET S
    BY <1>1
<1> HIDE DEF UpTo
<1>7. QED BY <1>5, <1>6 DEF IsSum

(* Solutions for a set and for a larger one agree if the weights do.       *)
LEMMA SumsAgree ==
    ASSUME NEW S, NEW T \in SUBSET S, IsFiniteSet(S), NEW w, NEW v, \A x \in T : w[x] = v[x],
           NEW f, IsSum(w, f, S), NEW g, IsSum(v, g, T)
    PROVE  f[T] = g[T]
<1> DEFINE Good == {n \in Nat : \A s \in SUBSET T : Cardinality(s) <= n => f[s] = g[s]}
<1>1. \A s \in SUBSET T : IsFiniteSet(s) /\ Cardinality(s) \in Nat
    BY FS_Subset, FS_CardinalityType
<1>2. ASSUME NEW s \in SUBSET T PROVE f[s] = SumStep(w, f, s) /\ g[s] = SumStep(v, g, s)
    <2>1. s \in SUBSET S
        OBVIOUS
    <2>2. QED BY <1>2, <2>1 DEF IsSum
<1>3. 0 \in Good
    <2> SUFFICES ASSUME NEW s \in SUBSET T, Cardinality(s) <= 0 PROVE f[s] = g[s]
        OBVIOUS
    <2>1. s = {}
        BY <1>1, FS_EmptySet
    <2>2. QED BY <1>2, <2>1 DEF SumStep
<1>4. ASSUME NEW n \in Nat, n \in Good PROVE n + 1 \in Good
    <2> SUFFICES ASSUME NEW s \in SUBSET T, Cardinality(s) <= n + 1 PROVE f[s] = g[s]
        OBVIOUS
    <2>1. CASE s = {}
        BY <1>2, <2>1 DEF SumStep
    <2>2. CASE s # {}
        <3>1. Cardinality(s \ {Chosen(s)}) <= n
            BY <1>1, <2>2, SmallerWithoutChosen
        <3>2. f[s \ {Chosen(s)}] = g[s \ {Chosen(s)}]
            BY <1>4, <3>1
        <3>3. Chosen(s) \in s
            BY <2>2 DEF Chosen
        <3>4. SumStep(w, f, s) = SumStep(v, g, s)
            BY <2>2, <3>2, <3>3 DEF SumStep
        <3>5. QED BY <1>2, <3>4
    <2>3. QED BY <2>1, <2>2
<1>5. Cardinality(T) \in Good
    <2>1. Cardinality(T) \in Nat
        BY <1>1
    <2> HIDE DEF Good
    <2>2. QED BY <1>3, <1>4, <2>1, NatSetInduction
<1>6. QED BY <1>1, <1>5

LEMMA SumIsSolution ==
    ASSUME NEW w, NEW S, IsFiniteSet(S), NEW f, IsSum(w, f, S)
    PROVE  SumOf(w, S) = f[S]
<1> DEFINE g == CHOOSE h : IsSum(w, h, S)
<1>1. IsSum(w, g, S)
    BY SumExists
<1>2. SumOf(w, S) = g[S]
    BY DEF SumOf
<1> HIDE DEF g
<1>3. QED BY <1>1, <1>2, SumsAgree

(* Only the weights of its elements count.                                 *)
LEMMA SumOfSame ==
    ASSUME NEW S, IsFiniteSet(S), NEW w, NEW v, \A x \in S : w[x] = v[x]
    PROVE  SumOf(w, S) = SumOf(v, S)
<1>1. PICK f : IsSum(w, f, S)
    BY SumExists
<1>2. PICK g : IsSum(v, g, S)
    BY SumExists
<1>3. f[S] = g[S]
    BY <1>1, <1>2, SumsAgree
<1>4. QED BY <1>1, <1>2, <1>3, SumIsSolution

(* One turn of the recursion: the element it happens to choose.            *)
LEMMA SumOfChosen ==
    ASSUME NEW w
    PROVE
    /\ SumOf(w, {}) = 0
    /\ \A S : IsFiniteSet(S) /\ S # {} =>
          SumOf(w, S) = w[Chosen(S)] + SumOf(w, S \ {Chosen(S)})
<1>1. SumOf(w, {}) = 0
    <2>1. PICK f : IsSum(w, f, {})
        BY SumExists, FS_EmptySet
    <2>2. SumOf(w, {}) = f[{}]
        BY <2>1, SumIsSolution, FS_EmptySet
    <2>3. f[{}] = 0
        BY <2>1 DEF IsSum, SumStep
    <2>4. QED BY <2>2, <2>3
<1>2. ASSUME NEW S, IsFiniteSet(S), S # {}
      PROVE  SumOf(w, S) = w[Chosen(S)] + SumOf(w, S \ {Chosen(S)})
    <2> DEFINE R == S \ {Chosen(S)}
    <2>1. PICK f : IsSum(w, f, S)
        BY <1>2, SumExists
    <2>2. IsFiniteSet(R) /\ R \in SUBSET S
        BY <1>2, SmallerWithoutChosen
    <2>3. PICK g : IsSum(w, g, R)
        BY <2>2, SumExists
    <2>4. f[R] = g[R]
        BY <1>2, <2>1, <2>2, <2>3, SumsAgree
    <2>5. f[S] = w[Chosen(S)] + f[R]
        BY <1>2, <2>1 DEF IsSum, SumStep
    <2>6. SumOf(w, S) = f[S] /\ SumOf(w, R) = g[R]
        BY <1>2, <2>1, <2>2, <2>3, SumIsSolution
    <2>7. QED BY <2>4, <2>5, <2>6
<1>3. QED BY <1>1, <1>2

(* So the order does not matter: any element can be taken out.             *)
LEMMA SumWithout ==
    ASSUME NEW w, NEW S, IsFiniteSet(S), \A x \in S : w[x] \in Int
    PROVE  SumOf(w, S) \in Int /\ \A x \in S : SumOf(w, S) = w[x] + SumOf(w, S \ {x})
<1> DEFINE Right(s) == SumOf(w, s) \in Int /\ \A x \in s : SumOf(w, s) = w[x] + SumOf(w, s \ {x})
           Good == {n \in Nat : \A s \in SUBSET S : Cardinality(s) <= n => Right(s)}
<1>1. \A s \in SUBSET S : IsFiniteSet(s) /\ Cardinality(s) \in Nat
    BY FS_Subset, FS_CardinalityType
<1>2. 0 \in Good
    <2> SUFFICES ASSUME NEW s \in SUBSET S, Cardinality(s) <= 0 PROVE Right(s)
        OBVIOUS
    <2>1. s = {}
        BY <1>1, FS_EmptySet
    <2>2. QED BY <2>1, SumOfChosen
<1>3. ASSUME NEW n \in Nat, n \in Good PROVE n + 1 \in Good
    <2> SUFFICES ASSUME NEW s \in SUBSET S, Cardinality(s) <= n + 1, s # {} PROVE Right(s)
        <3>1. Right({})
            BY SumOfChosen
        <3> HIDE DEF Right
        <3>2. QED BY <3>1
    <2> DEFINE c == Chosen(s)
    <2>1. /\ c \in s /\ Cardinality(s \ {c}) <= n /\ s \ {c} \in SUBSET S
          /\ SumOf(w, s) = w[c] + SumOf(w, s \ {c}) /\ w[c] \in Int
        BY <1>1, SmallerWithoutChosen, SumOfChosen
    <2> HIDE DEF c
    <2>2. Right(s \ {c})
        <3> HIDE DEF Right
        <3> QED BY <1>3, <2>1
    <2>3. ASSUME NEW x \in s, x # c PROVE SumOf(w, s) = w[x] + SumOf(w, s \ {x})
        <3>1. s \ {x} \in SUBSET S /\ c \in s \ {x} /\ w[x] \in Int
            BY <2>1, <2>3
        <3>2. Cardinality(s \ {x}) <= n
            <4>1. Cardinality(s \ {x}) = Cardinality(s) - 1
                BY <1>1, FS_RemoveElement
            <4>2. QED BY <1>1, <4>1
        <3>3. Right(s \ {x})
            <4> HIDE DEF Right
            <4> QED BY <1>3, <3>1, <3>2
        <3>4. SumOf(w, s \ {c}) = w[x] + SumOf(w, (s \ {c}) \ {x})
            BY <2>2, <2>3
        <3>5. SumOf(w, s \ {x}) = w[c] + SumOf(w, (s \ {x}) \ {c})
            BY <3>1, <3>3
        <3>6. SumOf(w, (s \ {c}) \ {x}) = SumOf(w, (s \ {x}) \ {c})
            <4>1. (s \ {c}) \ {x} = (s \ {x}) \ {c}
                OBVIOUS
            <4>2. QED BY <4>1
        <3>7. SumOf(w, (s \ {x}) \ {c}) \in Int
            <4>1. (s \ {x}) \ {c} \in SUBSET S /\ Cardinality((s \ {x}) \ {c}) <= n
                <5>1. Cardinality((s \ {x}) \ {c}) = Cardinality(s \ {x}) - 1
                    BY <1>1, <3>1, FS_RemoveElement
                <5>2. QED BY <1>1, <3>1, <3>2, <5>1
            <4>2. Right((s \ {x}) \ {c})
                <5> HIDE DEF Right
                <5> QED BY <1>3, <4>1
            <4>3. QED BY <4>2
        <3>8. QED BY <2>1, <3>1, <3>4, <3>5, <3>6, <3>7
    <2>4. SumOf(w, s) \in Int
        BY <2>1, <2>2
    <2>5. \A x \in s : SumOf(w, s) = w[x] + SumOf(w, s \ {x})
        BY <2>1, <2>3
    <2>6. QED BY <2>4, <2>5
<1>4. Cardinality(S) \in Good
    <2>1. Cardinality(S) \in Nat
        BY <1>1
    <2> HIDE DEF Good
    <2>2. QED BY <1>2, <1>3, <2>1, NatSetInduction
<1>5. QED BY <1>1, <1>4

(* The sum over two sets without a common element is the sum of theirs.    *)
LEMMA SumOfUnion ==
    ASSUME NEW w, NEW S, NEW T, IsFiniteSet(S), IsFiniteSet(T), S \cap T = {},
           \A x \in S \cup T : w[x] \in Int
    PROVE  SumOf(w, S) \in Int /\ SumOf(w, T) \in Int /\ SumOf(w, S \cup T) = SumOf(w, S) + SumOf(w, T)
<1> DEFINE Good == {n \in Nat : \A R \in SUBSET T :
                      Cardinality(R) <= n => SumOf(w, S \cup R) = SumOf(w, S) + SumOf(w, R)}
<1>1. \A R \in SUBSET T : IsFiniteSet(R) /\ Cardinality(R) \in Nat /\ IsFiniteSet(S \cup R)
    BY FS_Subset, FS_CardinalityType, FS_Union
<1>2. \A R \in SUBSET T : SumOf(w, R) \in Int /\ \A x \in R : SumOf(w, R) = w[x] + SumOf(w, R \ {x})
    BY <1>1, SumWithout
<1>3. SumOf(w, S) \in Int
    BY SumWithout
<1>4. 0 \in Good
    <2> SUFFICES ASSUME NEW R \in SUBSET T, Cardinality(R) <= 0
                 PROVE  SumOf(w, S \cup R) = SumOf(w, S) + SumOf(w, R)
        OBVIOUS
    <2>1. R = {}
        <3>1. IsFiniteSet(R) /\ Cardinality(R) \in Nat
            BY <1>1
        <3>2. QED BY <3>1, FS_EmptySet
    <2>2. SumOf(w, {}) = 0
        BY SumOfChosen
    <2>3. S \cup R = S
        BY <2>1
    <2>4. SumOf(w, S \cup R) = SumOf(w, S)
        BY <2>3
    <2>5. SumOf(w, R) = 0
        BY <2>1, <2>2
    <2>6. QED BY <1>3, <2>4, <2>5
<1>5. ASSUME NEW n \in Nat, n \in Good PROVE n + 1 \in Good
    <2> SUFFICES ASSUME NEW R \in SUBSET T, Cardinality(R) <= n + 1, NEW x \in R
                 PROVE  SumOf(w, S \cup R) = SumOf(w, S) + SumOf(w, R)
        <3>1. SumOf(w, S \cup {}) = SumOf(w, S) + SumOf(w, {})
            <4>1. S \cup {} = S /\ SumOf(w, {}) = 0
                BY SumOfChosen
            <4>2. QED BY <1>3, <4>1
        <3>2. QED BY <3>1
    <2>1. Cardinality(R \ {x}) <= n /\ R \ {x} \in SUBSET T
        <3>1. IsFiniteSet(R) /\ Cardinality(R) \in Nat
            BY <1>1
        <3>2. Cardinality(R \ {x}) = Cardinality(R) - 1
            BY <3>1, FS_RemoveElement
        <3>3. QED BY <3>1, <3>2
    <2>2. SumOf(w, S \cup (R \ {x})) = SumOf(w, S) + SumOf(w, R \ {x})
        BY <1>5, <2>1
    <2>3. (S \cup R) \ {x} = S \cup (R \ {x})
        OBVIOUS
    <2>4. SumOf(w, S \cup R) = w[x] + SumOf(w, S \cup (R \ {x}))
        <3>1. IsFiniteSet(S \cup R) /\ x \in S \cup R
            BY <1>1
        <3>2. \A y \in S \cup R : w[y] \in Int
            OBVIOUS
        <3>3. SumOf(w, S \cup R) = w[x] + SumOf(w, (S \cup R) \ {x})
            BY <3>1, <3>2, SumWithout
        <3>4. QED BY <2>3, <3>3
    <2>5. SumOf(w, R) = w[x] + SumOf(w, R \ {x}) /\ w[x] \in Int /\ SumOf(w, R \ {x}) \in Int
        BY <1>2, <2>1
    <2>6. QED BY <1>3, <2>2, <2>4, <2>5
<1>6. Cardinality(T) \in Good
    <2>1. Cardinality(T) \in Nat
        BY <1>1
    <2> HIDE DEF Good
    <2>2. QED BY <1>4, <1>5, <2>1, NatSetInduction
<1>7. QED BY <1>1, <1>2, <1>3, <1>6

(* Taking elements out of a set takes their sum from its sum.             *)
LEMMA SumOfDifference ==
    ASSUME NEW w, NEW S, NEW T \in SUBSET S, IsFiniteSet(S), \A x \in S : w[x] \in Int
    PROVE  SumOf(w, S \ T) = SumOf(w, S) - SumOf(w, T)
<1>1. IsFiniteSet(T) /\ IsFiniteSet(S \ T)
    BY FS_Subset
<1>2. (S \ T) \cup T = S /\ (S \ T) \cap T = {}
    OBVIOUS
<1>3. /\ SumOf(w, S \ T) \in Int /\ SumOf(w, T) \in Int
      /\ SumOf(w, (S \ T) \cup T) = SumOf(w, S \ T) + SumOf(w, T)
    <2>1. \A x \in (S \ T) \cup T : w[x] \in Int
        OBVIOUS
    <2>2. QED BY <1>1, <1>2, <2>1, SumOfUnion
<1>4. SumOf(w, (S \ T) \cup T) = SumOf(w, S)
    BY <1>2
<1>5. QED BY <1>3, <1>4

(* What is part of a set weighs at most as much.                           *)
LEMMA SumOfPart ==
    ASSUME NEW w, NEW S, NEW T \in SUBSET S, IsFiniteSet(S), \A x \in S : w[x] \in Nat
    PROVE  SumOf(w, S) \in Nat /\ SumOf(w, T) \in Nat /\ SumOf(w, T) <= SumOf(w, S)
<1> DEFINE Good == {n \in Nat : \A s \in SUBSET S : Cardinality(s) <= n => SumOf(w, s) \in Nat}
<1>1. \A s \in SUBSET S : IsFiniteSet(s) /\ Cardinality(s) \in Nat
    BY FS_Subset, FS_CardinalityType
<1>2. 0 \in Good
    BY <1>1, FS_EmptySet, SumOfChosen
<1>3. ASSUME NEW n \in Nat, n \in Good PROVE n + 1 \in Good
    <2> SUFFICES ASSUME NEW s \in SUBSET S, Cardinality(s) <= n + 1, s # {}
                 PROVE  SumOf(w, s) \in Nat
        BY SumOfChosen
    <2>1. Chosen(s) \in s /\ Cardinality(s \ {Chosen(s)}) <= n
        BY <1>1, SmallerWithoutChosen
    <2>2. SumOf(w, s \ {Chosen(s)}) \in Nat
        BY <1>3, <2>1
    <2>3. SumOf(w, s) = w[Chosen(s)] + SumOf(w, s \ {Chosen(s)})
        BY <1>1, SumOfChosen
    <2>4. QED BY <2>1, <2>2, <2>3
<1>4. ASSUME NEW s \in SUBSET S PROVE SumOf(w, s) \in Nat
    <2>1. Cardinality(s) \in Nat
        BY <1>1
    <2> HIDE DEF Good
    <2>2. Cardinality(s) \in Good
        BY <1>2, <1>3, <2>1, NatSetInduction
    <2>3. QED BY <2>1, <2>2 DEF Good
<1>5. SumOf(w, S) \in Nat /\ SumOf(w, T) \in Nat /\ SumOf(w, S \ T) \in Nat
    BY <1>4
<1>6. SumOf(w, S \ T) = SumOf(w, S) - SumOf(w, T)
    BY SumOfDifference
<1>7. QED BY <1>5, <1>6

-----------------------------------------------------------------------------
(* What may still be handed over of a payment: its jobs, counted, and the  *)
(* dialog that would enqueue one, once more if it was handed over or       *)
(* refused, twice if it was handed over while it was in the list.          *)
Positions(q, p) == {i \in DOMAIN q : q[i].tx = p}
Jobs(q, p)      == Cardinality(Positions(q, p))
Failed(p)       == <<p, "failure">> \in answers \cup told
Asking(p)       == IF transaction = p /\ ui \in {"confirm", "touch", "pin"} THEN 1 ELSE 0
Handed(p)       == IF p \in dropped THEN 2 ELSE IF p \in listed \/ Failed(p) THEN 1 ELSE 0

(* A payment that went past the confirmation                               *)
Past(p) == signed[p] # "no" \/ Positions(queue, p) # {}

(* A payment that need not ask for the PIN any more                        *)
Approved(p) == signed[p] = "touch" \/ (ui = "touch" /\ transaction = p)

PaymentType == [amount : Amounts, coin : Nat \ {0}, screen : Nat]
JobType     == [do : {"touch", "sign", "publish"}, tx : Payments, right : BOOLEAN,
                awaited : BOOLEAN]
Screens     == {"closed", "edit", "confirm", "touch", "pin", "waiting", "dead"}

Types ==
    /\ ui \in Screens /\ screen \in 0..MaxScreens /\ timeouts \in 0..MaxTimeouts
    /\ made \in Seq(PaymentType) /\ Len(made) <= MaxPayments
    /\ queue \in Seq(JobType)
    /\ spendLimit \in Nat
    /\ signed \in [Payments -> {"no", "touch", "pin"}]
    /\ transaction \in Created \cup {None}
    /\ answers \cup told \subseteq Payments \X Results

(* Payments are created before they are signed, signed before they are     *)
(* published, and published before they are in the wallet.                 *)
Stages ==
    /\ \A i \in DOMAIN queue : queue[i].tx \in Created
    /\ \A i \in DOMAIN queue : queue[i].do = "publish" => signed[queue[i].tx] # "no"
    /\ \A p \in Payments : signed[p] # "no" \/ Failed(p) => p \in Created
    /\ listed \cup dropped \cup freed \subseteq {p \in Created : signed[p] # "no"}
    /\ registered \subseteq listed /\ pending \subseteq listed \ registered
    /\ counted \subseteq registered

(* A screen lets one payment past the confirmation, and keeps it until it  *)
(* is closed.                                                              *)
OnePerScreen ==
    /\ \A p \in Created : made[p].screen <= screen
    /\ transaction # None => made[transaction].screen = screen
    /\ ui \in {"confirm", "touch", "pin", "waiting"} => transaction # None
    /\ ui = "dead" => queue = <<>>
    /\ ui = "confirm" => ~Past(transaction)
    /\ \A p \in Created : Past(p) /\ Shown(p) /\ ui # "dead" => transaction = p
    /\ \A p, q \in Created : Past(p) /\ Past(q) /\ made[p].screen = made[q].screen => p = q

(* While biometrics are being prepared there is nothing else to do for the *)
(* payment.                                                                *)
TouchJobs ==
    \A p \in Payments, i \in DOMAIN queue : queue[i].do = "touch" /\ queue[i].tx = p =>
        /\ Shown(p) => ui = "edit"
        /\ \A j \in DOMAIN queue : queue[j].tx = p => i = j

(* Who waits for a PIN is blocked.  A job that signs again what is to be   *)
(* published is awaited, if it was given up waiting only once.             *)
SignJobs ==
    /\ \A i \in DOMAIN queue : queue[i].awaited =>
          /\ queue[i].do = "sign" /\ ui = "waiting" /\ transaction = queue[i].tx
          /\ \A j \in DOMAIN queue : queue[j].awaited => i = j
    /\ timeouts <= 1 => \A i, j \in DOMAIN queue :
          i < j /\ queue[i].tx = queue[j].tx /\ queue[i].do = "publish" /\ queue[j].do = "sign"
              => queue[j].awaited

OncePerTimeout ==
    \A p \in Created : Jobs(queue, p) + Asking(p) + Handed(p) <= 1 + timeouts

(* The coins that are spent are the first ones, so that of the payments    *)
(* not registered only those are valid that were made since the last one.  *)
Coins ==
    /\ \A p \in Created : made[p].coin <= Unspent
    /\ {made[p].coin : p \in registered} = 1..Cardinality(registered)

(* The check was made with what is registered now, if the payment is valid.*)
Limits ==
    /\ Total(counted) + spendLimit <= totalSent + Limit
    /\ \A p \in Created \ registered :
          Approved(p) /\ made[p].coin = Unspent => Amount(p) + totalSent <= spendLimit
    /\ LimitKept

FailedAreOut == timeouts = 0 => \A p \in listed : ~Failed(p)

SenderInv ==
    /\ Types
    /\ Stages
    /\ OnePerScreen
    /\ TouchJobs
    /\ SignJobs
    /\ OncePerTimeout
    /\ Coins
    /\ Limits
    /\ FailedAreOut

-----------------------------------------------------------------------------
(* Jobs of a payment, when one is appended and when the first is taken     *)
LEMMA Appended ==
    ASSUME NEW q \in Seq(JobType), NEW job \in JobType, NEW p
    PROVE  /\ Append(q, job) \in Seq(JobType)
           /\ DOMAIN Append(q, job) = 1..(Len(q) + 1) /\ DOMAIN q = 1..Len(q) /\ Len(q) \in Nat
           /\ \A i \in DOMAIN q : Append(q, job)[i] = q[i]
           /\ Append(q, job)[Len(q) + 1] = job
           /\ Jobs(q, p) \in Nat
           /\ Jobs(Append(q, job), p) = Jobs(q, p) + (IF job.tx = p THEN 1 ELSE 0)
<1>1. /\ Append(q, job) \in Seq(JobType) /\ Len(q) \in Nat
      /\ DOMAIN Append(q, job) = 1..(Len(q) + 1) /\ DOMAIN q = 1..Len(q)
      /\ \A i \in DOMAIN q : Append(q, job)[i] = q[i]
      /\ Append(q, job)[Len(q) + 1] = job
    <2> HIDE DEF JobType
    <2> QED OBVIOUS
<1>2. IsFiniteSet(Positions(q, p))
    <2>1. IsFiniteSet(1..Len(q)) /\ Positions(q, p) \subseteq 1..Len(q)
        BY <1>1, FS_Interval DEF Positions
    <2>2. QED BY <2>1, FS_Subset
<1>3. Positions(Append(q, job), p) =
          IF job.tx = p THEN Positions(q, p) \cup {Len(q) + 1} ELSE Positions(q, p)
    BY <1>1 DEF Positions
<1>4. Len(q) + 1 \notin Positions(q, p)
    BY <1>1 DEF Positions
<1>5. QED BY <1>1, <1>2, <1>3, <1>4, FS_AddElement, FS_CardinalityType DEF Jobs

LEMMA Taken ==
    ASSUME NEW q \in Seq(JobType), q # <<>>, NEW p
    PROVE  /\ Tail(q) \in Seq(JobType) /\ Head(q) = q[1] /\ Head(q) \in JobType
           /\ DOMAIN q = 1..Len(q) /\ Len(q) \in Nat \ {0} /\ DOMAIN Tail(q) = 1..(Len(q) - 1)
           /\ \A i \in DOMAIN Tail(q) : i + 1 \in DOMAIN q /\ Tail(q)[i] = q[i + 1]
           /\ Jobs(Tail(q), p) \in Nat
           /\ Jobs(q, p) = Jobs(Tail(q), p) + (IF q[1].tx = p THEN 1 ELSE 0)
<1>1. /\ Tail(q) \in Seq(JobType) /\ Head(q) = q[1] /\ Head(q) \in JobType
      /\ DOMAIN q = 1..Len(q) /\ Len(q) \in Nat \ {0} /\ DOMAIN Tail(q) = 1..(Len(q) - 1)
      /\ \A i \in DOMAIN Tail(q) : i + 1 \in DOMAIN q /\ Tail(q)[i] = q[i + 1]
    <2> HIDE DEF JobType
    <2> QED BY EmptySeq
<1> DEFINE later == Positions(q, p) \ {1}
           shift == [i \in Positions(Tail(q), p) |-> i + 1]
<1>2. IsFiniteSet(Positions(Tail(q), p)) /\ IsFiniteSet(Positions(q, p))
    <2>1. /\ IsFiniteSet(1..Len(q)) /\ Positions(q, p) \subseteq 1..Len(q)
          /\ Positions(Tail(q), p) \subseteq 1..Len(q)
        BY <1>1, FS_Interval DEF Positions
    <2>2. QED BY <2>1, FS_Subset
<1>3. shift \in Bijection(Positions(Tail(q), p), later)
    <2>1. \A i \in Positions(Tail(q), p) : i \in Nat \ {0} /\ i + 1 \in later
        BY <1>1 DEF Positions
    <2>2. \A j \in later : j \in Nat /\ j - 1 \in Positions(Tail(q), p)
        BY <1>1 DEF Positions
    <2>3. shift \in [Positions(Tail(q), p) -> later]
        BY <2>1
    <2>4. \A i, j \in Positions(Tail(q), p) : shift[i] = shift[j] => i = j
        BY <2>1
    <2>5. \A j \in later : \E i \in Positions(Tail(q), p) : shift[i] = j
        BY <2>1, <2>2
    <2> HIDE DEF shift, later
    <2>6. QED BY <2>3, <2>4, <2>5 DEF Bijection, Injection, Surjection, IsInjective
<1>4. Cardinality(Positions(Tail(q), p)) = Cardinality(later)
    BY <1>2, <1>3, FS_Bijection DEF ExistsBijection
<1>5. 1 \in Positions(q, p) <=> q[1].tx = p
    BY <1>1 DEF Positions
<1>6. 1 \in Positions(q, p) => Cardinality(later) = Cardinality(Positions(q, p)) - 1
    BY <1>2, FS_RemoveElement
<1>7. 1 \notin Positions(q, p) => later = Positions(q, p)
    OBVIOUS
<1>8. Cardinality(Positions(q, p)) \in Nat /\ Cardinality(Positions(Tail(q), p)) \in Nat
    BY <1>2, FS_CardinalityType
<1> HIDE DEF later, shift
<1>9. Cardinality(Positions(q, p)) =
          Cardinality(Positions(Tail(q), p)) + (IF q[1].tx = p THEN 1 ELSE 0)
    BY <1>4, <1>5, <1>6, <1>7, <1>8
<1>10. QED BY <1>1, <1>8, <1>9 DEF Jobs

-----------------------------------------------------------------------------
(* Total is the sum of the amounts, now and after a step.                  *)
AmountsOf(m) == [p \in DOMAIN m |-> m[p].amount]

FoldOf(m, T) == LET iter[s \in SUBSET T] ==
                      IF s = {} THEN 0 ELSE m[Chosen(s)].amount + iter[s \ {Chosen(s)}]
                IN  iter[T]

LEMMA FoldIsSum ==
    ASSUME NEW m, NEW T \in SUBSET DOMAIN m, IsFiniteSet(T)
    PROVE  FoldOf(m, T) = SumOf(AmountsOf(m), T)
<1> DEFINE Solves(g) == g = [s \in SUBSET T |-> IF s = {} THEN 0
                                             ELSE m[Chosen(s)].amount + g[s \ {Chosen(s)}]]
           iter == CHOOSE g : Solves(g)
           w == AmountsOf(m)
<1>1. FoldOf(m, T) = iter[T]
    BY DEF FoldOf
<1>2. \A s \in SUBSET T : s # {} => w[Chosen(s)] = m[Chosen(s)].amount
    BY DEF AmountsOf, Chosen
<1> HIDE DEF w
<1>3. ASSUME NEW g PROVE IsSum(w, g, T) <=> Solves(g)
    BY <1>2 DEF IsSum, SumStep
<1>4. \E g : Solves(g)
    <2> HIDE DEF Solves
    <2> QED BY <1>3, SumExists
<1>5. Solves(iter)
    <2> HIDE DEF Solves
    <2> QED BY <1>4
<1>6. IsSum(w, iter, T)
    <2> HIDE DEF Solves, iter
    <2> QED BY <1>3, <1>5
<1>7. iter[T] = SumOf(w, T)
    <2> HIDE DEF iter
    <2> QED BY <1>6, SumIsSolution
<1>8. QED BY <1>1, <1>7 DEF w

LEMMA TotalIsSum == \A T : Total(T) = FoldOf(made, T)
BY DEF Total, Amount, MapThenSumSet, MapThenFoldSet, FoldOf, Chosen

LEMMA TotalsLater == totalSent' = FoldOf(made', registered') /\ Total(counted)' = FoldOf(made', counted')
BY DEF totalSent, Total, Amount, MapThenSumSet, MapThenFoldSet, FoldOf, Chosen

LEMMA SumFacts ==
    ASSUME NEW m \in Seq(PaymentType), NEW S \in SUBSET DOMAIN m
    PROVE  /\ IsFiniteSet(S)
           /\ FoldOf(m, S) \in Nat /\ FoldOf(m, {}) = 0
           /\ \A p \in DOMAIN m \ S : FoldOf(m, S \cup {p}) = FoldOf(m, S) + m[p].amount
           /\ \A x : FoldOf(Append(m, x), S) = FoldOf(m, S)
<1> DEFINE w == AmountsOf(m)
<1>1. DOMAIN m = 1..Len(m) /\ Len(m) \in Nat /\ \A p \in DOMAIN m : m[p] \in PaymentType
    <2> HIDE DEF PaymentType
    <2> QED OBVIOUS
<1>2. \A p \in DOMAIN m : w[p] = m[p].amount /\ w[p] \in Nat
    BY <1>1, SenderAssumption DEF AmountsOf, PaymentType
<1>3. \A T \in SUBSET DOMAIN m : IsFiniteSet(T)
    <2>1. IsFiniteSet(DOMAIN m)
        BY <1>1, FS_Interval
    <2>2. QED BY <2>1, FS_Subset
<1>4. \A T \in SUBSET DOMAIN m : FoldOf(m, T) = SumOf(w, T)
    BY <1>3, FoldIsSum
<1> HIDE DEF w
<1>5. FoldOf(m, S) \in Nat
    <2>1. SumOf(w, S) \in Nat
        BY <1>2, <1>3, SumOfPart
    <2>2. QED BY <1>4, <2>1
<1>6. FoldOf(m, {}) = 0
    <2>1. SumOf(w, {}) = 0
        BY SumOfChosen
    <2>2. QED BY <1>4, <2>1
<1>7. ASSUME NEW p \in DOMAIN m \ S PROVE FoldOf(m, S \cup {p}) = FoldOf(m, S) + m[p].amount
    <2> DEFINE T == S \cup {p}
    <2>1. T \in SUBSET DOMAIN m /\ p \in T /\ T \ {p} = S /\ IsFiniteSet(T)
        BY <1>3
    <2> HIDE DEF T
    <2>2. \A x \in T : w[x] \in Int
        BY <1>2, <2>1
    <2>3. SumOf(w, T) = w[p] + SumOf(w, T \ {p})
        BY <2>1, <2>2, SumWithout
    <2>4. FoldOf(m, T) = SumOf(w, T) /\ FoldOf(m, S) = SumOf(w, S) /\ SumOf(w, S) \in Nat
        BY <1>4, <1>5, <2>1
    <2>5. SumOf(w, T) = w[p] + SumOf(w, S)
        BY <2>1, <2>3
    <2>6. FoldOf(m, T) = FoldOf(m, S) + m[p].amount
        BY <1>2, <2>4, <2>5
    <2>7. QED BY <2>6 DEF T
<1>8. ASSUME NEW x PROVE FoldOf(Append(m, x), S) = FoldOf(m, S)
    <2> DEFINE n == Append(m, x)
    <2>1. DOMAIN n = 1..(Len(m) + 1) /\ \A p \in DOMAIN m : n[p] = m[p]
        BY <1>1
    <2> HIDE DEF n
    <2>2. S \in SUBSET DOMAIN n /\ \A p \in S : AmountsOf(n)[p] = w[p]
        BY <1>1, <1>2, <2>1 DEF AmountsOf
    <2>3. SumOf(AmountsOf(n), S) = SumOf(w, S)
        BY <1>3, <2>2, SumOfSame
    <2>4. FoldOf(n, S) = FoldOf(m, S)
        BY <1>3, <1>4, <2>2, <2>3, FoldIsSum
    <2>5. QED BY <2>4 DEF n
<1>9. QED BY <1>3, <1>5, <1>6, <1>7, <1>8

-----------------------------------------------------------------------------
(* Types *)

LEMMA TotalSentType == ASSUME Types, Stages PROVE totalSent \in Nat
<1>1. registered \in SUBSET DOMAIN made
    BY DEF Stages, Created
<1>2. FoldOf(made, registered) \in Nat
    BY <1>1, SumFacts DEF Types
<1>3. QED BY <1>2, TotalIsSum DEF totalSent

LEMMA TypesStep == ASSUME Types, Stages, OnePerScreen, Next PROVE Types'
<1> USE SenderAssumption DEF Types, form, keys, network
<1> USE DEF Screens, Results
<1>1. ASSUME NEW what \in {"touch", "sign", "publish"}, NEW p \in Payments, NEW right \in BOOLEAN,
             NEW awaited \in BOOLEAN
      PROVE  /\ Job(what, p, right, awaited) \in JobType
             /\ Append(queue, Job(what, p, right, awaited)) \in Seq(JobType)
    <2>1. Job(what, p, right, awaited) \in JobType
        BY DEF Job, JobType
    <2>2. QED BY <2>1, Appended
<1>2. queue # <<>> => Tail(queue) \in Seq(JobType) /\ Head(queue) \in JobType
    BY Taken
<1>3. Created = 1..Len(made) /\ Len(made) \in Nat /\ Created \subseteq Payments
    BY DEF Created, Payments
<1>4. CASE Open
    BY <1>4 DEF Open, Created
<1>5. CASE CancelConfirm
    BY <1>5 DEF CancelConfirm, Created
<1>6. CASE Confirm
    <2>1. transaction \in Payments
        BY <1>3, <1>6 DEF Confirm, OnePerScreen
    <2>2. QED BY <1>1, <1>6, <2>1 DEF Confirm, Enqueue, Created
<1>7. CASE WaitTimesOut
    <2>1. queue' \in Seq(JobType)
        <3>1. \A i \in DOMAIN queue : [queue[i] EXCEPT !.awaited = FALSE] \in JobType
            <4>1. \A i \in DOMAIN queue : queue[i] \in JobType
                <5> HIDE DEF JobType
                <5> QED OBVIOUS
            <4>2. QED BY <4>1 DEF JobType
        <3>2. QED BY <1>7, <3>1 DEF WaitTimesOut
    <2>2. QED BY <1>7, <2>1 DEF WaitTimesOut, Created
<1>8. CASE CancelPin
    BY <1>8 DEF CancelPin, Created
<1>9. CASE Close
    BY <1>9 DEF Close, Created
<1>10. CASE Unlock
    BY <1>10, TotalSentType DEF Unlock, Renew, Created
<1>11. ASSUME NEW a \in Amounts, Tap(a) PROVE Types'
    <2> DEFINE x == [amount |-> a, coin |-> Unspent, screen |-> screen]
    <2>1. Unspent \in Nat \ {0}
        <3>1. registered \in SUBSET DOMAIN made
            BY DEF Stages, Created
        <3>2. IsFiniteSet(registered)
            BY <3>1, SumFacts
        <3>3. QED BY <3>2, FS_CardinalityType DEF Unspent
    <2>2. x \in PaymentType
        BY <2>1 DEF PaymentType
    <2>3. made' = Append(made, x) /\ transaction' = Len(made) + 1 /\ Len(made) + 1 \in Payments
        BY <1>11 DEF Tap
    <2> HIDE DEF x
    <2>4. made' \in Seq(PaymentType) /\ Len(made') = Len(made) + 1 /\ DOMAIN made' = 1..(Len(made) + 1)
        BY <2>2, <2>3
    <2>5. QED BY <1>3, <1>11, <2>3, <2>4 DEF Tap, Created, Payments
<1>12. ASSUME NEW answer \in {"success", "cancel", "fallback"}, Touch(answer) PROVE Types'
    <2>1. transaction \in Payments
        BY <1>3, <1>12 DEF Touch, OnePerScreen
    <2>2. QED BY <1>1, <1>12, <2>1 DEF Touch, Enqueue, Created
<1>13. ASSUME NEW right \in BOOLEAN, EnterPin(right) PROVE Types'
    <2>1. transaction \in Payments
        BY <1>3, <1>13 DEF EnterPin, OnePerScreen
    <2>2. QED BY <1>1, <1>13, <2>1 DEF EnterPin, Created
<1>14. CASE TouchJob
    BY <1>2, <1>14 DEF TouchJob, Busy, Created
<1>15. CASE SignJob
    <2> DEFINE job == Head(queue)
    <2>1. job \in JobType /\ Tail(queue) \in Seq(JobType)
        BY <1>2, <1>15 DEF SignJob, Busy
    <2>2. job.tx \in Payments /\ job.right \in BOOLEAN
        BY <2>1 DEF JobType
    <2>3. /\ queue' = Tail(queue) \/ queue' = Append(Tail(queue), Job("publish", job.tx, FALSE, FALSE))
          /\ signed' = signed \/ signed' = [signed EXCEPT ![job.tx] = "pin"]
          /\ spendLimit' = spendLimit \/ spendLimit' = totalSent + Limit
          /\ ui' \in {ui, "edit", "pin"}
          /\ UNCHANGED <<screen, transaction, made, answers, told, timeouts>>
        BY <1>15 DEF SignJob, Renew
    <2> HIDE DEF job
    <2>4. Append(Tail(queue), Job("publish", job.tx, FALSE, FALSE)) \in Seq(JobType)
        BY <1>1, <2>1, <2>2, Appended
    <2>5. queue' \in Seq(JobType)
        BY <2>1, <2>3, <2>4
    <2>6. signed' \in [Payments -> {"no", "touch", "pin"}]
        BY <2>2, <2>3
    <2>7. spendLimit' \in Nat
        BY <2>3, TotalSentType
    <2>8. QED BY <2>3, <2>5, <2>6, <2>7 DEF Created
<1>16. CASE PublishJob
    <2>1. Head(queue).tx \in Payments /\ Tail(queue) \in Seq(JobType)
        BY <1>2, <1>16 DEF PublishJob, Busy, JobType
    <2>2. QED BY <1>16, <2>1 DEF PublishJob, Publish, Refused, Created
<1>17. ASSUME NEW p \in Payments, Requested(p) PROVE Types'
    BY <1>17 DEF Requested, Answer, Created
<1>18. CASE Canceled
    <2>1. pending \subseteq Payments
        BY <1>3 DEF Stages
    <2>2. QED BY <1>18, <2>1 DEF Canceled, Answer, Created
<1>19. ASSUME NEW answer \in Payments \X Results, Answered(answer) PROVE Types'
    BY <1>19 DEF Answered, Created
<1>20. CASE Crash
    BY <1>20 DEF Crash, Created
<1>21. QED BY <1>4, <1>5, <1>6, <1>7, <1>8, <1>9, <1>10, <1>11, <1>12, <1>13, <1>14, <1>15, <1>16,
              <1>17, <1>18, <1>19, <1>20 DEF Next, RunJob

-----------------------------------------------------------------------------
(* Stages *)

LEMMA CreatedGrows ==
    ASSUME Types, Next
    PROVE  /\ Created = 1..Len(made) /\ Len(made) \in Nat /\ Created \subseteq Payments
           /\ Created \subseteq Created' /\ \A p \in Created : made'[p] = made[p] /\ made[p] \in PaymentType
           /\ \/ made' = made
              \/ \E a \in Amounts : Tap(a) /\ Created' = Created \cup {Len(made) + 1}
<1>1. Created = 1..Len(made) /\ Len(made) \in Nat /\ Created \subseteq Payments
    BY SenderAssumption DEF Types, Created, Payments
<1>2. \A p \in Created : made[p] \in PaymentType
    <2> HIDE DEF PaymentType
    <2> QED BY <1>1 DEF Types
<1>3. ASSUME NEW a \in Amounts, Tap(a)
      PROVE  Created' = Created \cup {Len(made) + 1} /\ \A p \in Created : made'[p] = made[p]
    <2> DEFINE x == [amount |-> a, coin |-> Unspent, screen |-> screen]
    <2>1. made' = Append(made, x)
        BY <1>3 DEF Tap
    <2> HIDE DEF x
    <2>2. QED BY <1>1, <2>1 DEF Created, Types
<1>4. made' = made \/ \E a \in Amounts : Tap(a)
    BY DEF Next, RunJob, form, Open, CancelConfirm, Confirm, WaitTimesOut, CancelPin, Close, Unlock,
           Touch, EnterPin, TouchJob, SignJob, PublishJob, Requested, Canceled, Answered, Crash
<1>5. CASE made' = made
    BY <1>1, <1>2, <1>5 DEF Created
<1>6. QED BY <1>1, <1>2, <1>3, <1>4, <1>5

(* A job that is appended, and what is left of the queue without the first *)
LEMMA QueueFacts ==
    ASSUME Types
    PROVE  /\ DOMAIN queue = 1..Len(queue) /\ Len(queue) \in Nat
           /\ \A i \in DOMAIN queue : queue[i] \in JobType
           /\ queue # <<>> =>
                 /\ Head(queue) = queue[1] /\ 1 \in DOMAIN queue
                 /\ DOMAIN Tail(queue) = 1..(Len(queue) - 1)
                 /\ \A i \in DOMAIN Tail(queue) : i + 1 \in DOMAIN queue /\ Tail(queue)[i] = queue[i + 1]
           /\ \A job \in JobType :
                 /\ DOMAIN Append(queue, job) = 1..(Len(queue) + 1)
                 /\ Append(queue, job)[Len(queue) + 1] = job
                 /\ \A i \in DOMAIN queue : Append(queue, job)[i] = queue[i]
           /\ \A job \in JobType : queue # <<>> =>
                 /\ DOMAIN Append(Tail(queue), job) = 1..Len(queue)
                 /\ Append(Tail(queue), job)[Len(queue)] = job
                 /\ \A i \in 1..(Len(queue) - 1) : Append(Tail(queue), job)[i] = queue[i + 1]
<1>1. queue \in Seq(JobType)
    BY DEF Types
<1>2. /\ DOMAIN queue = 1..Len(queue) /\ Len(queue) \in Nat
      /\ \A i \in DOMAIN queue : queue[i] \in JobType
    <2> HIDE DEF JobType
    <2> QED BY <1>1
<1>3. queue # <<>> =>
          /\ Head(queue) = queue[1] /\ 1 \in DOMAIN queue /\ Tail(queue) \in Seq(JobType)
          /\ Len(Tail(queue)) = Len(queue) - 1
          /\ DOMAIN Tail(queue) = 1..(Len(queue) - 1)
          /\ \A i \in DOMAIN Tail(queue) : i + 1 \in DOMAIN queue /\ Tail(queue)[i] = queue[i + 1]
    <2> HIDE DEF JobType
    <2> QED BY <1>1
<1>4. ASSUME NEW job \in JobType
      PROVE  /\ DOMAIN Append(queue, job) = 1..(Len(queue) + 1)
             /\ Append(queue, job)[Len(queue) + 1] = job
             /\ \A i \in DOMAIN queue : Append(queue, job)[i] = queue[i]
    BY <1>1, Appended
<1>5. ASSUME NEW job \in JobType, queue # <<>>
      PROVE  /\ DOMAIN Append(Tail(queue), job) = 1..Len(queue)
             /\ Append(Tail(queue), job)[Len(queue)] = job
             /\ \A i \in 1..(Len(queue) - 1) : Append(Tail(queue), job)[i] = queue[i + 1]
    <2>1. /\ DOMAIN Append(Tail(queue), job) = 1..(Len(Tail(queue)) + 1)
          /\ Append(Tail(queue), job)[Len(Tail(queue)) + 1] = job
          /\ \A i \in DOMAIN Tail(queue) : Append(Tail(queue), job)[i] = Tail(queue)[i]
        BY <1>3, <1>5, Appended
    <2>2. Len(Tail(queue)) + 1 = Len(queue)
        BY <1>2, <1>3, <1>5
    <2>3. QED BY <1>3, <1>5, <2>1, <2>2
<1>6. QED BY <1>2, <1>3, <1>4, <1>5

LEMMA JobFacts ==
    ASSUME Types, NEW what \in {"touch", "sign", "publish"}, NEW p \in Payments,
           NEW right \in BOOLEAN, NEW awaited \in BOOLEAN
    PROVE  /\ Job(what, p, right, awaited) \in JobType
           /\ Job(what, p, right, awaited).do = what /\ Job(what, p, right, awaited).tx = p
           /\ Job(what, p, right, awaited).right = right
           /\ Job(what, p, right, awaited).awaited = awaited
BY DEF Job, JobType

(* Where each job of the next queue comes from.                            *)
Kept(job) == \E i \in DOMAIN queue :
    /\ job.do = queue[i].do /\ job.tx = queue[i].tx /\ job.right = queue[i].right
    /\ job.awaited => queue[i].awaited

LEMMA AppendedOrKept ==
    ASSUME Types, NEW job \in JobType, queue' = Append(queue, job), NEW i \in DOMAIN queue'
    PROVE  Kept(queue'[i]) \/ (i = Len(queue) + 1 /\ queue'[i] = job)
<1>1. i \in 1..(Len(queue) + 1)
    BY QueueFacts
<1>2. CASE i = Len(queue) + 1
    BY <1>2, QueueFacts
<1>3. CASE i # Len(queue) + 1
    <2>1. i \in DOMAIN queue
        BY <1>1, <1>3, QueueFacts
    <2>2. queue'[i] = queue[i]
        BY <2>1, QueueFacts
    <2>3. QED BY <2>1, <2>2 DEF Kept
<1>4. QED BY <1>2, <1>3

LEMMA JobsStep ==
    ASSUME Types, OnePerScreen, Next, NEW i \in DOMAIN queue'
    PROVE  \/ Kept(queue'[i])
           \/ Confirm /\ queue'[i] = Job("touch", transaction, FALSE, FALSE)
           \/ Touch("success") /\ queue'[i] = Job("publish", transaction, FALSE, FALSE)
           \/ \E right \in BOOLEAN :
                 EnterPin(right) /\ queue'[i] = Job("sign", transaction, right, TRUE)
           \/ SignJob /\ Head(queue).right /\ queue'[i] = Job("publish", Head(queue).tx, FALSE, FALSE)
<1>1. Kept(queue'[i]) \/ queue' # queue
    BY DEF Kept
<1>2. transaction # None => transaction \in Payments
    BY CreatedGrows DEF Types
<1>3. CASE Confirm
    <2>1. transaction \in Payments
        BY <1>2, <1>3 DEF Confirm, OnePerScreen
    <2>2. Job("touch", transaction, FALSE, FALSE) \in JobType
        BY <2>1, JobFacts
    <2>3. queue' = queue \/ queue' = Append(queue, Job("touch", transaction, FALSE, FALSE))
        BY <1>3 DEF Confirm, Enqueue
    <2>4. QED BY <1>1, <1>3, <2>2, <2>3, AppendedOrKept
<1>4. ASSUME NEW answer \in {"success", "cancel", "fallback"}, Touch(answer)
      PROVE  \/ Kept(queue'[i])
             \/ Touch("success") /\ queue'[i] = Job("publish", transaction, FALSE, FALSE)
    <2>1. transaction \in Payments
        BY <1>2, <1>4 DEF Touch, OnePerScreen
    <2>2. Job("publish", transaction, FALSE, FALSE) \in JobType
        BY <2>1, JobFacts
    <2>3. \/ queue' = queue
          \/ answer = "success" /\ queue' = Append(queue, Job("publish", transaction, FALSE, FALSE))
        BY <1>4 DEF Touch, Enqueue
    <2>4. QED BY <1>1, <1>4, <2>2, <2>3, AppendedOrKept
<1>5. ASSUME NEW right \in BOOLEAN, EnterPin(right)
      PROVE  Kept(queue'[i]) \/ queue'[i] = Job("sign", transaction, right, TRUE)
    <2>1. transaction \in Payments
        BY <1>2, <1>5 DEF EnterPin, OnePerScreen
    <2>2. Job("sign", transaction, right, TRUE) \in JobType
        BY <2>1, JobFacts
    <2>3. queue' = Append(queue, Job("sign", transaction, right, TRUE))
        BY <1>5 DEF EnterPin
    <2>4. QED BY <2>2, <2>3, AppendedOrKept
<1>6. CASE WaitTimesOut
    <2>1. /\ DOMAIN queue' = DOMAIN queue
          /\ \A j \in DOMAIN queue : queue'[j] = [queue[j] EXCEPT !.awaited = FALSE]
        BY <1>6 DEF WaitTimesOut
    <2>2. i \in DOMAIN queue /\ queue[i] \in JobType
        BY <2>1, QueueFacts
    <2>3. /\ queue'[i].do = queue[i].do /\ queue'[i].tx = queue[i].tx
          /\ queue'[i].right = queue[i].right /\ queue'[i].awaited = FALSE
        BY <2>1, <2>2 DEF JobType
    <2>4. QED BY <2>2, <2>3 DEF Kept
<1>7. CASE TouchJob
    BY <1>7, QueueFacts DEF TouchJob, Busy, Kept
<1>8. CASE PublishJob
    BY <1>8, QueueFacts DEF PublishJob, Busy, Kept
<1>9. CASE SignJob
    <2>1. queue # <<>> /\ Head(queue) \in JobType
        BY <1>9, QueueFacts DEF SignJob, Busy
    <2>2. Job("publish", Head(queue).tx, FALSE, FALSE) \in JobType
        BY <2>1, JobFacts DEF JobType
    <2>3. \/ queue' = Tail(queue)
          \/ /\ Head(queue).right
             /\ queue' = Append(Tail(queue), Job("publish", Head(queue).tx, FALSE, FALSE))
        BY <1>9 DEF SignJob
    <2>4. CASE queue' = Tail(queue)
        BY <2>1, <2>4, QueueFacts DEF Kept
    <2>5. CASE queue' # Tail(queue)
        <3>1. i \in 1..Len(queue)
            BY <2>1, <2>2, <2>3, <2>5, QueueFacts
        <3>2. CASE i = Len(queue)
            BY <1>9, <2>1, <2>2, <2>3, <2>5, <3>2, QueueFacts
        <3>3. CASE i # Len(queue)
            <4>1. i \in 1..(Len(queue) - 1) /\ i + 1 \in DOMAIN queue
                BY <3>1, <3>3, QueueFacts
            <4> DEFINE job == Job("publish", Head(queue).tx, FALSE, FALSE)
            <4>2. queue' = Append(Tail(queue), job) /\ job \in JobType
                BY <2>2, <2>3, <2>5
            <4> HIDE DEF job
            <4>3. queue'[i] = queue[i + 1]
                BY <2>1, <4>1, <4>2, QueueFacts
            <4>4. QED BY <4>1, <4>3 DEF Kept
        <3>4. QED BY <3>2, <3>3
    <2>6. QED BY <2>4, <2>5
<1>10. CASE Crash
    BY <1>10 DEF Crash
<1>11. QED
    BY <1>1, <1>3, <1>4, <1>5, <1>6, <1>7, <1>8, <1>9, <1>10
    DEF Next, RunJob, Open, CancelConfirm, CancelPin, Close, Unlock, Tap, Requested, Canceled, Answered

LEMMA SignedStep ==
    ASSUME Types, Next, NEW p \in Payments, signed'[p] # signed[p]
    PROVE  \/ Touch("success") /\ p = transaction /\ signed'[p] = "touch"
           \/ SignJob /\ Head(queue).right /\ p = Head(queue).tx /\ signed'[p] = "pin"
<1>1. CASE signed' = signed
    BY <1>1
<1>2. ASSUME NEW answer \in {"success", "cancel", "fallback"}, Touch(answer)
      PROVE  Touch("success") /\ p = transaction /\ signed'[p] = "touch"
    BY <1>2 DEF Touch, Types
<1>3. CASE SignJob
    BY <1>3 DEF SignJob, keys, Types
<1>4. QED
    BY <1>1, <1>2, <1>3
    DEF Next, RunJob, keys, Open, CancelConfirm, Confirm, WaitTimesOut, CancelPin, Close, Unlock,
        Tap, EnterPin, TouchJob, PublishJob, Requested, Canceled, Answered, Crash

(* What happens to the transactions that were handed over.                 *)
LEMMA NetworkStep ==
    ASSUME Next
    PROVE  \/ UNCHANGED network
              /\ (UNCHANGED <<answers, told>> \/ \E answer \in Payments \X Results : Answered(answer))
           \/ PublishJob
           \/ \E p \in Payments : Requested(p)
           \/ Canceled
BY DEF Next, RunJob, network, Open, CancelConfirm, Confirm, WaitTimesOut, CancelPin, Close, Unlock, Tap,
       Touch, EnterPin, TouchJob, SignJob, Answered, Crash

LEMMA FailedStep ==
    ASSUME Next, NEW p, Failed(p)', ~Failed(p)
    PROVE  \/ PublishJob /\ p = Head(queue).tx /\ UNCHANGED <<listed, pending, dropped, registered>>
           \/ Canceled /\ p \in pending
           \/ Requested(p) /\ p \in pending /\ ~Valid(p)
<1>1. CASE UNCHANGED <<answers, told>> \/ \E answer \in Payments \X Results : Answered(answer)
    BY <1>1 DEF Answered, Failed
<1>2. CASE PublishJob
    BY <1>2 DEF PublishJob, Publish, Refused, Failed, network
<1>3. ASSUME NEW q \in Payments, Requested(q) PROVE Requested(p) /\ p \in pending /\ ~Valid(p)
    BY <1>3 DEF Requested, Answer, Failed
<1>4. CASE Canceled
    BY <1>4 DEF Canceled, Answer, Failed
<1>5. QED BY <1>1, <1>2, <1>3, <1>4, NetworkStep

LEMMA StagesStep == ASSUME Types, Stages, OnePerScreen, Next PROVE Stages'
<1>1. /\ Created \subseteq Created' /\ Created' \subseteq Payments'
      /\ Created \subseteq Payments /\ Payments' = Payments
    <2>1. Len(made') \in Nat /\ Len(made') <= MaxPayments /\ DOMAIN made' = 1..Len(made')
        BY TypesStep DEF Types
    <2>2. Created' \subseteq Payments'
        BY <2>1, SenderAssumption DEF Created, Payments
    <2>3. QED BY <2>2, CreatedGrows DEF Payments
<1>2. transaction # None => transaction \in Created
    BY DEF Types
<1>3. \A p \in Payments : signed[p] # "no" => signed'[p] # "no"
    BY SignedStep
<1>4. queue # <<>> => Head(queue).tx \in Created /\ (Head(queue).do = "publish" => signed[Head(queue).tx] # "no")
    BY QueueFacts DEF Stages
<1>5. SignJob => queue # <<>> /\ (Head(queue).right => signed'[Head(queue).tx] # "no")
    <2>1. SignJob => queue # <<>>
        BY DEF SignJob, Busy
    <2>2. queue # <<>> => Head(queue).tx \in Payments
        BY <1>1, <1>4
    <2>3. QED BY <2>1, <2>2 DEF SignJob, Types
<1>6. \A i \in DOMAIN queue' : queue'[i].tx \in Created'
    <2> SUFFICES ASSUME NEW i \in DOMAIN queue' PROVE queue'[i].tx \in Created'
        OBVIOUS
    <2>1. CASE Kept(queue'[i])
        BY <1>1, <2>1 DEF Kept, Stages
    <2>2. CASE ~Kept(queue'[i])
        <3>1. \/ queue'[i].tx = transaction /\ transaction # None
              \/ SignJob /\ queue'[i].tx = Head(queue).tx
            <4>1. Confirm \/ Touch("success") \/ (\E right \in BOOLEAN : EnterPin(right))
                      => transaction # None
                BY DEF Confirm, Touch, EnterPin, OnePerScreen
            <4>2. QED BY <2>2, <4>1, JobsStep DEF Job
        <3>2. QED BY <1>1, <1>2, <1>4, <1>5, <3>1
    <2>3. QED BY <2>1, <2>2
<1>7. \A i \in DOMAIN queue' : queue'[i].do = "publish" => signed'[queue'[i].tx] # "no"
    <2> SUFFICES ASSUME NEW i \in DOMAIN queue', queue'[i].do = "publish"
                 PROVE  signed'[queue'[i].tx] # "no"
        OBVIOUS
    <2>1. CASE Kept(queue'[i])
        BY <1>1, <1>3, <2>1 DEF Kept, Stages
    <2>2. CASE ~Kept(queue'[i])
        <3>1. \/ Touch("success") /\ queue'[i].tx = transaction
              \/ SignJob /\ Head(queue).right /\ queue'[i].tx = Head(queue).tx
            BY <2>2, JobsStep DEF Job
        <3>2. Touch("success") => signed'[transaction] = "touch"
            BY <1>1, <1>2 DEF Touch, OnePerScreen, Types
        <3>3. QED BY <1>5, <3>1, <3>2
    <2>3. QED BY <2>1, <2>2
<1>8. \A p \in Payments : signed'[p] # "no" \/ Failed(p)' => p \in Created'
    <2> SUFFICES ASSUME NEW p \in Payments, signed'[p] # "no" \/ Failed(p)', p \notin Created
                 PROVE  p \in Created'
        BY <1>1
    <2>1. signed[p] = "no" /\ ~Failed(p)
        BY DEF Stages
    <2>2. CASE signed'[p] # "no"
        BY <1>2, <1>4, <1>5, <2>1, <2>2, SignedStep DEF Touch, OnePerScreen
    <2>3. CASE Failed(p)'
        <3>1. pending \subseteq Created
            BY DEF Stages
        <3>2. PublishJob => Head(queue).tx \in Created
            BY <1>4 DEF PublishJob, Busy
        <3>3. QED BY <2>1, <2>3, <3>1, <3>2, FailedStep
    <2>4. QED BY <2>2, <2>3
<1>9. /\ listed' \cup dropped' \cup freed' \subseteq {p \in Created : signed[p] # "no"}
      /\ registered' \subseteq listed' /\ pending' \subseteq listed' \ registered'
    <2>1. CASE UNCHANGED network
        BY <2>1 DEF Stages, network
    <2>2. CASE PublishJob
        <3>1. Head(queue).tx \in Created /\ signed[Head(queue).tx] # "no"
            BY <1>4, <2>2 DEF PublishJob, Busy
        <3>2. QED BY <2>2, <3>1 DEF PublishJob, Publish, Stages, network
    <2>3. ASSUME NEW p \in Payments, Requested(p)
          PROVE  /\ listed' \cup dropped' \cup freed' \subseteq {q \in Created : signed[q] # "no"}
                 /\ registered' \subseteq listed' /\ pending' \subseteq listed' \ registered'
        BY <2>3 DEF Requested, Stages
    <2>4. CASE Canceled
        BY <2>4 DEF Canceled, Callbacks, Stages
    <2>5. QED BY <2>1, <2>2, <2>3, <2>4, NetworkStep
<1>10. listed' \cup dropped' \cup freed' \subseteq {p \in Created' : signed'[p] # "no"}
    BY <1>1, <1>3, <1>9
<1>11. counted' \subseteq registered'
    <2>1. CASE UNCHANGED <<registered, counted>>
        BY <2>1 DEF Stages
    <2>2. ASSUME NEW p \in Payments, Requested(p) PROVE counted' \subseteq registered'
        BY <2>2 DEF Requested, Stages
    <2>3. CASE counted' = {}
        BY <2>3
    <2>4. QED
        BY <2>1, <2>2, <2>3
        DEF Next, RunJob, network, Open, CancelConfirm, Confirm, WaitTimesOut, CancelPin, Close, Unlock,
            Renew, Tap, Touch, EnterPin, TouchJob, SignJob, PublishJob, Publish, Canceled, Answered, Crash
<1>12. QED BY <1>1, <1>6, <1>7, <1>8, <1>9, <1>10, <1>11 DEF Stages

-----------------------------------------------------------------------------
(* One payment per screen *)

LEMMA PastStep ==
    ASSUME Types, Stages, OnePerScreen, Next, NEW p \in Payments, Past(p)', ~Past(p)
    PROVE  /\ p = transaction /\ transaction \in Created
           /\ Confirm \/ (\E answer \in {"success", "cancel", "fallback"} : Touch(answer))
                      \/ (\E right \in BOOLEAN : EnterPin(right))
<1>1. signed[p] = "no" /\ \A i \in DOMAIN queue : queue[i].tx # p
    BY DEF Past, Positions
<1>2. SignJob => Head(queue).tx # p
    BY <1>1, QueueFacts DEF SignJob, Busy
<1>3. CASE signed'[p] # "no"
    BY <1>1, <1>2, <1>3, SignedStep DEF Types, Touch, OnePerScreen
<1>4. CASE signed'[p] = "no"
    <2>1. PICK i \in DOMAIN queue' : queue'[i].tx = p
        BY <1>4 DEF Past, Positions
    <2>2. ~Kept(queue'[i])
        BY <1>1, <2>1 DEF Kept
    <2>3. /\ queue'[i].tx = transaction
          /\ Confirm \/ Touch("success") \/ (\E right \in BOOLEAN : EnterPin(right))
        BY <1>2, <2>1, <2>2, JobsStep DEF Job
    <2>4. transaction # None
        BY <2>3 DEF Confirm, Touch, EnterPin, OnePerScreen
    <2>5. QED BY <2>1, <2>3, <2>4 DEF Types
<1>5. QED BY <1>3, <1>4

(* What the steps do to the screen                                         *)
LEMMA ScreenStep ==
    ASSUME Types, Stages, OnePerScreen, SignJobs, Next
    PROVE  \/ Open \/ (\E a \in Amounts : Tap(a)) \/ CancelConfirm \/ Crash
           \/ UNCHANGED <<screen, made>> /\ ui' = "closed" /\ transaction' = None /\ ui # "dead"
           \/ /\ UNCHANGED <<screen, made, transaction>>
              /\ \/ ui' = ui
                 \/ ui' \in {"edit", "touch", "pin", "waiting"} /\ ui \notin {"closed", "dead"}
                    /\ transaction # None
<1>1. queue # <<>> => ui # "dead" /\ Head(queue).tx \in Created /\ Past(Head(queue).tx)
    BY QueueFacts DEF OnePerScreen, Stages, Past, Positions
<1>2. CASE TouchJob
    <2>1. Shown(Head(queue).tx) => transaction # None
        <3>1. 0 \notin Created
            BY DEF Types, Created
        <3>2. QED BY <1>1, <1>2, <3>1 DEF OnePerScreen, TouchJob, Busy, None
    <2>2. QED BY <1>1, <1>2, <2>1 DEF TouchJob, Busy, Shown
<1>3. CASE SignJob
    <2>1. Head(queue).awaited => ui = "waiting"
        BY <1>3, QueueFacts DEF SignJob, Busy, SignJobs
    <2>2. QED BY <1>1, <1>3, <2>1 DEF SignJob, OnePerScreen
<1>4. CASE PublishJob
    BY <1>4 DEF PublishJob, form
<1>5. ASSUME NEW answer \in Payments \X Results, Answered(answer)
      PROVE  \/ UNCHANGED <<screen, made>> /\ ui' = "closed" /\ transaction' = None /\ ui # "dead"
             \/ UNCHANGED <<screen, made, transaction, ui>>
    BY <1>5 DEF Answered
<1>6. CASE Close
    BY <1>6 DEF Close
<1>7. CASE Confirm \/ WaitTimesOut \/ CancelPin \/ (\E right \in BOOLEAN : EnterPin(right))
            \/ (\E answer \in {"success", "cancel", "fallback"} : Touch(answer))
    BY <1>7 DEF Confirm, WaitTimesOut, CancelPin, EnterPin, Touch, OnePerScreen
<1>8. CASE Unlock \/ Canceled \/ \E p \in Payments : Requested(p)
    BY <1>8 DEF Unlock, Canceled, Requested, form
<1>9. QED BY <1>2, <1>3, <1>4, <1>5, <1>6, <1>7, <1>8 DEF Next, RunJob

LEMMA OnePerScreenStep ==
    ASSUME Types, Stages, OnePerScreen, SignJobs, Next PROVE OnePerScreen'
<1>1. /\ Created = 1..Len(made) /\ Len(made) \in Nat /\ Created \subseteq Payments /\ 0 \notin Created
      /\ \A p \in Created : made[p] \in PaymentType /\ made'[p] = made[p]
    BY CreatedGrows
<1>2. \A p \in Payments : Past(p) => p \in Created
    BY DEF Past, Positions, Stages
<1>3. \A p \in Created : made[p].screen <= screen /\ made[p].screen \in Nat /\ screen \in Nat
    BY <1>1 DEF OnePerScreen, PaymentType, Types
<1>4. ASSUME NEW p \in Payments, Past(p)', ~Past(p)
      PROVE  /\ p = transaction /\ p \in Created /\ UNCHANGED <<screen, transaction, made>>
             /\ ui \in {"confirm", "touch", "pin"} /\ ui' \in {"edit", "pin", "waiting"}
    BY <1>4, PastStep DEF Confirm, Touch, EnterPin
<1>5. ASSUME NEW a \in Amounts, Tap(a)
      PROVE  /\ made'[Len(made) + 1].screen = screen /\ Created' = Created \cup {Len(made) + 1}
             /\ ~Past(Len(made) + 1) /\ Len(made) + 1 \in Payments
    <2> DEFINE x == [amount |-> a, coin |-> Unspent, screen |-> screen]
    <2>1. made' = Append(made, x) /\ Len(made) + 1 \in Payments
        BY <1>5 DEF Tap
    <2>2. x.screen = screen
        OBVIOUS
    <2> HIDE DEF x
    <2>3. made'[Len(made) + 1] = x /\ Created' = 1..(Len(made) + 1)
        BY <1>1, <2>1 DEF Types, Created
    <2>4. ~Past(Len(made) + 1)
        BY <1>1, <1>2, <2>1
    <2>5. QED BY <1>1, <2>1, <2>2, <2>3, <2>4
<1>6. Created' = Created \/ \E a \in Amounts : Tap(a)
    BY CreatedGrows DEF Created
<1>7. \A p \in Created' : made'[p].screen <= screen'
    <2>1. screen' \in {screen, screen + 1} /\ ((\E a \in Amounts : Tap(a)) => screen' = screen)
        BY ScreenStep DEF Open, Tap, CancelConfirm, Crash
    <2>2. screen \in Nat
        BY DEF Types
    <2>3. QED BY <1>1, <1>3, <1>5, <1>6, <2>1, <2>2
<1>8. transaction' # None => made'[transaction'].screen = screen'
    <2>1. CASE \E a \in Amounts : Tap(a)
        BY <1>5, <2>1 DEF Tap
    <2>2. CASE transaction' = None
        BY <2>2
    <2>3. CASE UNCHANGED <<screen, made, transaction>>
        BY <2>3 DEF OnePerScreen
    <2>4. QED BY <2>1, <2>2, <2>3, ScreenStep DEF Open, CancelConfirm, Crash
<1>9. ui' \in {"confirm", "touch", "pin", "waiting"} => transaction' # None
    <2>1. CASE \E a \in Amounts : Tap(a)
        BY <1>1, <2>1 DEF Tap, None
    <2>2. CASE Open \/ CancelConfirm \/ Crash
        BY <2>2 DEF Open, CancelConfirm, Crash
    <2>3. QED BY <2>1, <2>2, ScreenStep DEF OnePerScreen
<1>10. ui' = "dead" => queue' = <<>>
    <2>1. CASE Crash
        BY <2>1 DEF Crash
    <2>2. CASE ~Crash
        <3>1. ui' = "dead" => ui = "dead"
            BY <2>2, ScreenStep DEF Open, Tap, CancelConfirm
        <3>2. SUFFICES ASSUME ui = "dead", ui' = "dead" PROVE queue' = <<>>
            BY <3>1
        <3>3. queue = <<>> /\ Stages
            BY <3>2 DEF OnePerScreen
        <3>4. UNCHANGED queue
            BY <2>2, <3>2, <3>3
            DEF Next, RunJob, Busy, Open, CancelConfirm, Confirm, WaitTimesOut, CancelPin, Close, Unlock,
                Tap, Touch, EnterPin, TouchJob, SignJob, PublishJob, Requested, Canceled, Answered
        <3>5. QED BY <3>3, <3>4
    <2>3. QED BY <2>1, <2>2
<1>11. ui' = "confirm" => ~Past(transaction)'
    <2>1. CASE \E a \in Amounts : Tap(a)
        <3>1. ~Past(Len(made) + 1) /\ Len(made) + 1 \in Payments
            BY <1>5, <2>1
        <3>2. UNCHANGED <<signed, queue>> /\ transaction' = Len(made) + 1
            BY <2>1 DEF Tap, keys
        <3>3. QED BY <3>1, <3>2 DEF Past
    <2>2. CASE ui = "confirm" /\ UNCHANGED <<screen, made, transaction>>
        <3>1. SUFFICES ASSUME ui' = "confirm" PROVE ~Past(transaction)'
            OBVIOUS
        <3>2. transaction \in Payments /\ ~Past(transaction)
            BY <1>1, <2>2 DEF OnePerScreen, Types
        <3>3. ~Past(transaction)' <=> ~(signed'[transaction] # "no" \/ Positions(queue', transaction) # {})
            BY <2>2 DEF Past
        <3>4. ASSUME Past(transaction)' PROVE FALSE
            <4> DEFINE p == transaction
            <4>1. signed'[p] # "no" \/ Positions(queue', p) # {}
                BY <3>3, <3>4
            <4>2. PICK q \in Payments : q = p
                BY <3>2
            <4>3. Past(q)' /\ ~Past(q)
                BY <3>2, <4>1, <4>2 DEF Past
            <4>4. QED BY <1>4, <3>1, <4>3
        <3>5. QED BY <3>4
    <2>3. QED BY <2>1, <2>2, ScreenStep DEF Open, CancelConfirm, Crash
<1>12. ASSUME NEW p \in Created', Past(p)', Shown(p)', ui' # "dead" PROVE transaction' = p
    <2>1. p \in Payments
        BY <1>1, <1>5, <1>6
    <2>2. CASE ~Past(p)
        BY <1>4, <1>12, <2>1, <2>2
    <2>3. CASE Past(p)
        <3>1. p \in Created /\ made'[p].screen = made[p].screen
            BY <1>1, <1>2, <2>1, <2>3
        <3>2. ui' # "closed" /\ made'[p].screen = screen'
            BY <1>12 DEF Shown
        <3>3. ~Open
            BY <1>3, <3>1, <3>2 DEF Open
        <3>4. ~Crash
            BY <1>12 DEF Crash
        <3>5. ui # "closed" /\ screen' = screen /\ ui # "dead"
            BY <1>12, <3>2, <3>3, <3>4, ScreenStep DEF Tap, CancelConfirm
        <3>6. transaction = p
            BY <2>3, <3>1, <3>2, <3>5 DEF Shown, OnePerScreen
        <3>7. ~CancelConfirm /\ ~\E a \in Amounts : Tap(a)
            BY <1>1, <2>3, <3>1, <3>6 DEF CancelConfirm, Tap, OnePerScreen, None
        <3>8. QED BY <3>2, <3>3, <3>4, <3>6, <3>7, ScreenStep
    <2>4. QED BY <2>2, <2>3
<1>13. ASSUME NEW p \in Created', NEW q \in Created', Past(p)', Past(q)', made'[p].screen = made'[q].screen
       PROVE  p = q
    <2>1. p \in Payments /\ q \in Payments
        BY <1>1, <1>5, <1>6
    <2>2. ASSUME NEW r \in Payments, NEW s \in Payments, Past(r)', ~Past(r), Past(s),
                 made'[r].screen = made'[s].screen
          PROVE  r = s
        <3>1. /\ r = transaction /\ r \in Created /\ UNCHANGED <<screen, transaction, made>>
              /\ ui \in {"confirm", "touch", "pin"}
            BY <1>4, <2>2
        <3>2. made[r].screen = screen
            BY <1>1, <3>1 DEF OnePerScreen, None
        <3>3. s \in Created /\ Shown(s)
            BY <1>2, <2>2, <3>1, <3>2 DEF Shown
        <3>4. QED BY <2>2, <3>1, <3>3 DEF OnePerScreen
    <2>3. CASE Past(p) /\ Past(q)
        BY <1>1, <1>2, <1>13, <2>1, <2>3 DEF OnePerScreen
    <2>4. CASE ~Past(p) /\ ~Past(q)
        BY <1>4, <1>13, <2>1, <2>4
    <2>5. QED BY <1>13, <2>1, <2>2, <2>3, <2>4
<1>14. QED BY <1>7, <1>8, <1>9, <1>10, <1>11, <1>12, <1>13 DEF OnePerScreen

-----------------------------------------------------------------------------
(* The queue *)

(* The steps that are not jobs of walletQueue                              *)
NoJob ==
    \/ Open \/ CancelConfirm \/ Confirm \/ CancelPin \/ Close \/ Unlock \/ Canceled
    \/ \E a \in Amounts : Tap(a)
    \/ \E answer \in {"success", "cancel", "fallback"} : Touch(answer)
    \/ \E right \in BOOLEAN : EnterPin(right)
    \/ \E p \in Payments : Requested(p)
    \/ \E answer \in Payments \X Results : Answered(answer)

Dialog(job) ==
    /\ job.tx = transaction /\ transaction \in Created
    /\ \/ Confirm /\ job.do = "touch" /\ ~job.awaited
       \/ Touch("success") /\ job.do = "publish" /\ ~job.awaited
       \/ (\E right \in BOOLEAN : EnterPin(right)) /\ job.do = "sign" /\ job.awaited

LEMMA QueueShape ==
    ASSUME Types, Stages, OnePerScreen, Next
    PROVE  \/ NoJob /\ UNCHANGED queue
           \/ NoJob /\ \E job \in JobType : queue' = Append(queue, job) /\ Dialog(job)
           \/ /\ queue # <<>> /\ queue' = Tail(queue)
              /\ TouchJob \/ PublishJob \/ (SignJob /\ ~Head(queue).right)
           \/ /\ queue # <<>> /\ SignJob /\ Head(queue).right
              /\ \E job \in JobType : /\ queue' = Append(Tail(queue), job)
                                      /\ job.do = "publish" /\ job.tx = Head(queue).tx /\ ~job.awaited
           \/ WaitTimesOut \/ Crash
<1>1. ASSUME transaction # None
      PROVE  /\ transaction \in Created /\ transaction \in Payments
             /\ \A what \in {"touch", "sign", "publish"}, right \in BOOLEAN, awaited \in BOOLEAN :
                   LET job == Job(what, transaction, right, awaited) IN
                      job \in JobType /\ job.do = what /\ job.tx = transaction /\ job.awaited = awaited
    <2>1. transaction \in Created /\ transaction \in Payments
        BY <1>1, CreatedGrows DEF Types
    <2>2. QED BY <2>1, JobFacts
<1>2. CASE Confirm
    BY <1>1, <1>2 DEF Confirm, Enqueue, OnePerScreen, NoJob, Dialog
<1>3. ASSUME NEW answer \in {"success", "cancel", "fallback"}, Touch(answer)
      PROVE  \/ UNCHANGED queue
             \/ \E job \in JobType : queue' = Append(queue, job) /\ Dialog(job)
    BY <1>1, <1>3 DEF Touch, Enqueue, OnePerScreen, Dialog
<1>4. ASSUME NEW right \in BOOLEAN, EnterPin(right)
      PROVE  \E job \in JobType : queue' = Append(queue, job) /\ Dialog(job)
    BY <1>1, <1>4 DEF EnterPin, OnePerScreen, Dialog
<1>5. CASE TouchJob \/ PublishJob
    BY <1>5 DEF TouchJob, PublishJob, Busy
<1>6. CASE SignJob
    <2>1. queue # <<>> /\ Head(queue).tx \in Payments
        BY <1>6, QueueFacts DEF SignJob, Busy, JobType
    <2>2. CASE Head(queue).right
        BY <1>6, <2>1, <2>2, JobFacts DEF SignJob
    <2>3. CASE ~Head(queue).right
        BY <1>6, <2>1, <2>3 DEF SignJob
    <2>4. QED BY <2>2, <2>3
<1>7. CASE Open \/ CancelConfirm \/ CancelPin \/ Close \/ Unlock \/ Canceled
            \/ (\E a \in Amounts : Tap(a)) \/ (\E p \in Payments : Requested(p))
            \/ (\E answer \in Payments \X Results : Answered(answer))
    BY <1>7 DEF NoJob, Open, CancelConfirm, CancelPin, Close, Unlock, Canceled, Tap, Requested, Answered
<1>8. QED BY <1>2, <1>3, <1>4, <1>5, <1>6, <1>7 DEF Next, RunJob, NoJob

(* A payment that went past the confirmation stays on its screen, or its   *)
(* screen is closed for good.                                              *)
LEMMA ShownBefore ==
    ASSUME Types, Stages, OnePerScreen, SignJobs, Next,
           NEW p \in Created, Past(p), Shown(p)', ui' # "dead"
    PROVE  Shown(p) /\ transaction = p /\ UNCHANGED <<screen, transaction>>
<1>1. made'[p].screen = made[p].screen /\ made[p].screen <= screen /\ p # None
      /\ made[p].screen \in Nat /\ screen \in Nat
    BY CreatedGrows DEF OnePerScreen, None, PaymentType, Types
<1>2. ui' # "closed" /\ made'[p].screen = screen'
    BY DEF Shown
<1>3. ~Open
    BY <1>1, <1>2 DEF Open
<1>4. ~Crash
    BY DEF Crash
<1>5. ui # "closed" /\ screen' = screen /\ ui # "dead"
    BY <1>2, <1>3, <1>4, ScreenStep DEF Tap, CancelConfirm
<1>6. Shown(p) /\ transaction = p
    BY <1>1, <1>2, <1>5 DEF Shown, OnePerScreen
<1>7. ~CancelConfirm /\ ~\E a \in Amounts : Tap(a)
    BY <1>1, <1>6 DEF CancelConfirm, Tap, OnePerScreen
<1>8. QED BY <1>2, <1>3, <1>4, <1>5, <1>6, <1>7, ScreenStep

LEMMA TailDiffers == ASSUME Types, queue # <<>> PROVE Tail(queue) # queue
<1>1. Len(Tail(queue)) = Len(queue) - 1 /\ Len(queue) \in Nat
    BY DEF Types
<1>2. \A n \in Nat : n - 1 # n
    OBVIOUS
<1>3. QED BY <1>1, <1>2, Zenon

LEMMA TouchJobsStep ==
    ASSUME Types, Stages, OnePerScreen, TouchJobs, SignJobs, Next PROVE TouchJobs'
<1>1. \A i \in DOMAIN queue : queue[i].tx \in Created /\ queue[i].tx \in Payments /\ Past(queue[i].tx)
    BY CreatedGrows DEF Stages, Past, Positions
(* A touch job that stays in the queue finds the screen as it was.         *)
<1>2. ASSUME NEW p \in Payments, NEW i \in DOMAIN queue, queue[i].do = "touch", queue[i].tx = p,
             Shown(p)', ~Crash, TouchJob => i # 1
      PROVE  ui' = "edit"
    <2>1. p \in Created /\ Past(p) /\ p # None
        BY <1>1, <1>2, CreatedGrows DEF None
    <2>2. ui # "dead" /\ ui' # "dead"
        <3>1. ui # "dead"
            BY <1>2 DEF OnePerScreen
        <3>2. QED BY <1>2, <3>1, ScreenStep DEF Open, Tap, CancelConfirm
    <2>3. Shown(p) /\ transaction = p /\ ui' # "closed"
        <3>1. Shown(p) /\ transaction = p
            BY <1>2, <2>1, <2>2, ShownBefore
        <3>2. QED BY <1>2, <3>1 DEF Shown
    <2>4. ui = "edit"
        BY <1>2, <2>3 DEF TouchJobs
    <2>5. CASE NoJob
        BY <2>1, <2>3, <2>4, <2>5
        DEF NoJob, form, Open, CancelConfirm, Confirm, CancelPin, Close, Unlock, Tap, Touch, EnterPin,
            Requested, Canceled, Answered
    <2>6. CASE TouchJob
        <3>1. queue # <<>> /\ Head(queue) = queue[1] /\ queue[1].do = "touch" /\ 1 \in DOMAIN queue
            BY <2>6, QueueFacts DEF TouchJob, Busy
        <3>2. PICK q \in Payments : queue[1].tx = q /\ q \in Created /\ Past(q)
            BY <1>1, <3>1
        <3>3. q # p
            BY <1>2, <2>6, <3>1, <3>2 DEF TouchJobs
        <3>4. ~Shown(q)
            BY <2>2, <2>3, <3>2, <3>3 DEF OnePerScreen
        <3>5. QED BY <2>4, <2>6, <3>1, <3>2, <3>4 DEF TouchJob
    <2>7. CASE SignJob
        <3>1. ~Head(queue).awaited
            BY <2>4, <2>7, QueueFacts DEF SignJob, Busy, SignJobs
        <3>2. QED BY <2>4, <2>7, <3>1 DEF SignJob
    <2>8. CASE PublishJob \/ WaitTimesOut
        BY <2>4, <2>8 DEF PublishJob, WaitTimesOut, form
    <2>9. QED BY <1>2, <2>5, <2>6, <2>7, <2>8 DEF Next, RunJob, NoJob
<1> DEFINE Good(p, i) == /\ Shown(p)' => ui' = "edit"
                         /\ \A j \in DOMAIN queue' : queue'[j].tx = p => i = j
<1> SUFFICES ASSUME NEW p \in Payments, NEW i \in DOMAIN queue', queue'[i].do = "touch",
                    queue'[i].tx = p
             PROVE  Good(p, i)
    BY DEF TouchJobs, Payments
<1>3. ~Crash
    BY DEF Crash
<1>4. CASE NoJob /\ UNCHANGED queue
    <2>1. ~TouchJob
        BY <1>4, TailDiffers DEF TouchJob, Busy
    <2>2. QED BY <1>2, <1>3, <1>4, <2>1 DEF TouchJobs
<1>5. CASE NoJob /\ \E job \in JobType : queue' = Append(queue, job) /\ Dialog(job)
    <2>1. PICK job \in JobType : queue' = Append(queue, job) /\ Dialog(job)
        BY <1>5
    <2>2. /\ DOMAIN queue = 1..Len(queue) /\ Len(queue) \in Nat /\ DOMAIN queue' = 1..(Len(queue) + 1)
          /\ queue'[Len(queue) + 1] = job /\ \A k \in DOMAIN queue : queue'[k] = queue[k]
        BY <2>1, QueueFacts
    <2>3. job.tx = transaction /\ transaction \in Created /\ ui # "closed" /\ Shown(transaction)
        <3>1. job.tx = transaction /\ transaction \in Created /\ ui \in {"confirm", "touch", "pin"}
            BY <2>1 DEF Dialog, Confirm, Touch, EnterPin
        <3>2. QED BY <3>1 DEF Shown, OnePerScreen
    <2>4. CASE Confirm
        <3>1. ui = "confirm" /\ ui' \in {"edit", "pin"} /\ (queue' # queue => ui' = "edit")
            BY <2>4 DEF Confirm
        <3>2. \A k \in DOMAIN queue : queue[k].tx # transaction
            BY <3>1 DEF OnePerScreen, Past, Positions
        <3>3. queue' # queue
            <4>1. Len(queue) + 1 \in DOMAIN queue' /\ Len(queue) + 1 \notin DOMAIN queue
                BY <2>2
            <4>2. QED BY <4>1
        <3>4. CASE i = Len(queue) + 1
            BY <2>2, <2>3, <3>1, <3>2, <3>3, <3>4
        <3>5. CASE i \in DOMAIN queue
            <4>1. \A j \in DOMAIN queue' : queue'[j].tx = p => i = j
                BY <2>2, <2>3, <3>2, <3>5 DEF TouchJobs
            <4>2. QED BY <3>1, <3>3, <4>1
        <3>6. QED BY <2>2, <3>4, <3>5
    <2>5. CASE ~Confirm
        <3>1. ui # "edit" /\ job.do # "touch"
            BY <2>1, <2>5 DEF Dialog, Touch, EnterPin
        <3>2. i \in DOMAIN queue /\ queue'[i] = queue[i]
            BY <2>2, <3>1
        <3>3. p # transaction
            BY <2>3, <3>1, <3>2 DEF TouchJobs
        <3>4. \A j \in DOMAIN queue' : queue'[j].tx = p => i = j
            BY <2>2, <2>3, <3>2, <3>3 DEF TouchJobs
        <3>5. TouchJob => i # 1
            <4>1. TouchJob => Len(queue') = Len(queue) - 1
                BY DEF TouchJob, Busy, Types
            <4>2. Len(queue') = Len(queue) + 1
                BY <2>1 DEF Types
            <4>3. QED BY <2>2, <4>1, <4>2
        <3>6. QED BY <1>2, <1>3, <3>2, <3>4, <3>5
    <2>6. QED BY <2>4, <2>5
<1>6. ASSUME queue # <<>>, i + 1 \in DOMAIN queue, queue'[i] = queue[i + 1],
             \A j \in DOMAIN queue' : queue'[j].tx = p => j + 1 \in DOMAIN queue /\ queue'[j] = queue[j + 1]
      PROVE  Good(p, i)
    <2>1. DOMAIN queue = 1..Len(queue) /\ Len(queue) \in Nat
        BY QueueFacts
    <2>2. i \in Nat /\ \A j \in DOMAIN queue' : queue'[j].tx = p => j \in Int
        <3>1. queue' \in Seq(JobType)
            BY TypesStep DEF Types
        <3>2. DOMAIN queue' = 1..Len(queue') /\ Len(queue') \in Nat
            BY <3>1
        <3>3. QED BY <3>2
    <2>3. \A j \in DOMAIN queue' : queue'[j].tx = p => i + 1 = j + 1
        BY <1>6 DEF TouchJobs
    <2>4. \A j \in DOMAIN queue' : queue'[j].tx = p => i = j
        BY <2>2, <2>3
    <2>5. i + 1 # 1
        <3>1. i >= 1
            <4>1. queue' \in Seq(JobType)
                BY TypesStep DEF Types
            <4>2. DOMAIN queue' = 1..Len(queue')
                BY <4>1
            <4>3. QED BY <4>2
        <3>2. QED BY <2>2, <3>1
    <2>6. Shown(p)' => ui' = "edit"
        BY <1>2, <1>3, <1>6, <2>5
    <2>7. QED BY <2>4, <2>6
<1>7. CASE queue # <<>> /\ queue' = Tail(queue)
    <2>1. \A j \in DOMAIN queue' : j + 1 \in DOMAIN queue /\ queue'[j] = queue[j + 1]
        BY <1>7, QueueFacts
    <2>2. QED BY <1>6, <1>7, <2>1
<1>8. CASE /\ queue # <<>> /\ SignJob /\ Head(queue).right
           /\ \E job \in JobType : /\ queue' = Append(Tail(queue), job)
                                   /\ job.do = "publish" /\ job.tx = Head(queue).tx /\ ~job.awaited
    <2>1. PICK job \in JobType : /\ queue' = Append(Tail(queue), job)
                                 /\ job.do = "publish" /\ job.tx = Head(queue).tx /\ ~job.awaited
        BY <1>8
    <2>2. /\ DOMAIN queue = 1..Len(queue) /\ Len(queue) \in Nat /\ DOMAIN queue' = 1..Len(queue)
          /\ queue'[Len(queue)] = job
          /\ \A j \in 1..(Len(queue) - 1) : queue'[j] = queue[j + 1]
          /\ 1 \in DOMAIN queue /\ Head(queue) = queue[1] /\ queue[1].do = "sign"
        BY <1>8, <2>1, QueueFacts DEF SignJob, Busy
    <2>3. i # Len(queue) /\ i \in 1..(Len(queue) - 1) /\ i + 1 \in DOMAIN queue
        <3>1. queue'[i].do # queue'[Len(queue)].do
            BY <2>1, <2>2
        <3>2. i # Len(queue)
            BY <3>1
        <3>3. QED BY <2>2, <3>2
    <2>4. job.tx # p
        <3>1. SUFFICES ASSUME queue[1].tx = p PROVE FALSE
            BY <2>1, <2>2
        <3>2. i + 1 = 1
            BY <2>2, <2>3, <3>1 DEF TouchJobs
        <3>3. QED BY <2>2, <2>3, <3>2
    <2>5. \A j \in DOMAIN queue' : queue'[j].tx = p => j + 1 \in DOMAIN queue /\ queue'[j] = queue[j + 1]
        BY <2>2, <2>4
    <2>6. QED BY <1>6, <1>8, <2>2, <2>3, <2>5
<1>9. CASE WaitTimesOut
    <2>1. /\ DOMAIN queue' = DOMAIN queue
          /\ \A j \in DOMAIN queue : queue'[j].do = queue[j].do /\ queue'[j].tx = queue[j].tx
        BY <1>9, QueueFacts DEF WaitTimesOut, JobType
    <2>2. ~TouchJob
        <3>1. SUFFICES ASSUME TouchJob PROVE FALSE
            OBVIOUS
        <3>2. 1 \in DOMAIN queue /\ UNCHANGED timeouts /\ timeouts' = timeouts + 1 /\ timeouts \in Nat
            BY <1>9, <3>1, QueueFacts DEF TouchJob, Busy, WaitTimesOut, Types
        <3>3. QED BY <3>2
    <2>3. QED BY <1>2, <1>3, <2>1, <2>2 DEF TouchJobs
<1>10. QED BY <1>3, <1>4, <1>5, <1>7, <1>8, <1>9, QueueShape

LEMMA JobsUnique ==
    ASSUME Types, NEW p, Jobs(queue, p) <= 1, NEW i \in Positions(queue, p), NEW j \in Positions(queue, p)
    PROVE  i = j
<1>1. IsFiniteSet(Positions(queue, p))
    <2>1. Positions(queue, p) \subseteq 1..Len(queue) /\ IsFiniteSet(1..Len(queue))
        BY QueueFacts, FS_Interval DEF Positions
    <2>2. QED BY <2>1, FS_Subset
<1>2. SUFFICES ASSUME i # j PROVE FALSE
    OBVIOUS
<1>3. {i, j} \subseteq Positions(queue, p) /\ Cardinality({i, j}) = 2
    <2>1. IsFiniteSet({i}) /\ Cardinality({i}) = 1 /\ j \notin {i} /\ {i} \cup {j} = {i, j}
        BY <1>2, FS_Singleton
    <2>2. QED BY <2>1, FS_AddElement
<1>4. Cardinality({i, j}) <= Jobs(queue, p) /\ Jobs(queue, p) \in Nat
    BY <1>1, <1>3, FS_Subset, FS_CardinalityType DEF Jobs
<1>5. QED BY <1>3, <1>4

LEMMA CountTypes ==
    ASSUME Types, NEW p
    PROVE  Jobs(queue, p) \in Nat /\ Asking(p) \in {0, 1} /\ Handed(p) \in {0, 1, 2} /\ timeouts \in Nat
<1>1. IsFiniteSet(Positions(queue, p))
    <2>1. Positions(queue, p) \subseteq 1..Len(queue) /\ IsFiniteSet(1..Len(queue))
        BY QueueFacts, FS_Interval DEF Positions
    <2>2. QED BY <2>1, FS_Subset
<1>2. QED BY <1>1, FS_CardinalityType DEF Jobs, Asking, Handed, Types

LEMMA WaitersWait ==
    ASSUME NoJob, ui = "waiting" PROVE ui' = "waiting" /\ transaction' = transaction
BY DEF NoJob, form, Open, CancelConfirm, Confirm, CancelPin, Close, Unlock, Tap, Touch, EnterPin,
       Requested, Canceled, Answered

LEMMA SignJobsStep ==
    ASSUME Types, Stages, OnePerScreen, TouchJobs, SignJobs, OncePerTimeout, Next PROVE SignJobs'
<1> DEFINE Awaits(i) == /\ queue'[i].do = "sign" /\ ui' = "waiting" /\ transaction' = queue'[i].tx
                        /\ \A j \in DOMAIN queue' : queue'[j].awaited => i = j
           InTurn == timeouts' <= 1 => \A i, j \in DOMAIN queue' :
              i < j /\ queue'[i].tx = queue'[j].tx /\ queue'[i].do = "publish" /\ queue'[j].do = "sign"
                  => queue'[j].awaited
           Goal == (\A i \in DOMAIN queue' : queue'[i].awaited => Awaits(i)) /\ InTurn
<1> SUFFICES Goal
    BY DEF SignJobs
<1>1. timeouts' = timeouts \/ WaitTimesOut
    BY DEF Next, RunJob, Open, CancelConfirm, Confirm, CancelPin, Close, Unlock, Tap, Touch, EnterPin,
           TouchJob, SignJob, PublishJob, Requested, Canceled, Answered, Crash
<1>2. timeouts \in Nat /\ DOMAIN queue = 1..Len(queue) /\ Len(queue) \in Nat
    BY QueueFacts DEF Types
<1>3. CASE WaitTimesOut
    <2>1. /\ DOMAIN queue' = DOMAIN queue /\ timeouts' = timeouts + 1
          /\ \A j \in DOMAIN queue : queue'[j].do = queue[j].do /\ queue'[j].tx = queue[j].tx
                                     /\ queue'[j].awaited = FALSE
        BY <1>3, QueueFacts DEF WaitTimesOut, JobType
    <2>2. InTurn
        <3>1. SUFFICES ASSUME timeouts = 0, NEW i \in DOMAIN queue, NEW j \in DOMAIN queue,
                              i < j, queue[i].tx = queue[j].tx
                       PROVE  FALSE
            BY <1>2, <2>1
        <3> DEFINE p == queue[i].tx
        <3>2. p \in Created /\ i \in Positions(queue, p) /\ j \in Positions(queue, p)
            BY <3>1 DEF Stages, Positions
        <3> HIDE DEF p
        <3>3. Jobs(queue, p) <= 1
            BY <3>1, <3>2, CountTypes DEF OncePerTimeout
        <3>4. i = j
            BY <3>2, <3>3, JobsUnique
        <3>5. QED BY <1>2, <3>1, <3>4
    <2>3. QED BY <2>1, <2>2
<1>4. CASE NoJob /\ UNCHANGED queue
    <2>1. \A i \in DOMAIN queue : queue[i].awaited => Awaits(i)
        BY <1>4, WaitersWait DEF SignJobs
    <2>2. ~WaitTimesOut => InTurn
        BY <1>1, <1>4 DEF SignJobs
    <2>3. QED BY <1>3, <1>4, <2>1, <2>2
<1>5. ASSUME NoJob, ~WaitTimesOut, NEW job \in JobType, queue' = Append(queue, job), Dialog(job)
      PROVE  Goal
    <2>1. /\ DOMAIN queue' = 1..(Len(queue) + 1)
          /\ queue'[Len(queue) + 1] = job /\ \A k \in DOMAIN queue : queue'[k] = queue[k]
        BY <1>5, QueueFacts
    <2>2. ui # "waiting" /\ \A i \in DOMAIN queue : ~queue[i].awaited
        <3>1. ui # "waiting"
            BY <1>5 DEF Dialog, Confirm, Touch, EnterPin
        <3>2. QED BY <3>1 DEF SignJobs
    <2>3. job.awaited => /\ job.do = "sign" /\ ui' = "waiting" /\ transaction' = job.tx
        BY <1>5 DEF Dialog, EnterPin
    <2>4. \A i \in DOMAIN queue' : queue'[i].awaited => Awaits(i)
        BY <1>2, <2>1, <2>2, <2>3
    <2>5. job.do = "sign" => job.awaited
        BY <1>5 DEF Dialog
    <2>6. InTurn
        <3> SUFFICES ASSUME timeouts' <= 1, NEW i \in DOMAIN queue', NEW j \in DOMAIN queue', i < j,
                            queue'[i].tx = queue'[j].tx, queue'[i].do = "publish", queue'[j].do = "sign"
                     PROVE  queue'[j].awaited
            OBVIOUS
        <3>1. CASE j = Len(queue) + 1
            BY <2>1, <2>5, <3>1
        <3>2. CASE j # Len(queue) + 1
            <4>1. i \in DOMAIN queue /\ j \in DOMAIN queue
                BY <1>2, <2>1, <3>2
            <4>2. timeouts <= 1
                BY <1>1, <1>5
            <4>3. QED BY <2>1, <4>1, <4>2 DEF SignJobs
        <3>3. QED BY <3>1, <3>2
    <2>7. QED BY <2>4, <2>6
(* The first job is taken, and nobody waits for another if somebody waited *)
(* for it.                                                                 *)
<1>6. ASSUME queue # <<>>, TouchJob \/ PublishJob \/ SignJob, NEW i \in DOMAIN queue, i # 1,
             queue[i].awaited
      PROVE  /\ queue[i].do = "sign" /\ ui' = "waiting" /\ transaction' = queue[i].tx
             /\ \A j \in DOMAIN queue : queue[j].awaited => i = j
    <2>1. /\ queue[i].do = "sign" /\ ui = "waiting" /\ transaction = queue[i].tx
          /\ \A j \in DOMAIN queue : queue[j].awaited => i = j
        BY <1>6 DEF SignJobs
    <2>2. 1 \in DOMAIN queue /\ Head(queue) = queue[1] /\ queue[1] \in JobType
        BY <1>6, QueueFacts
    <2>3. ~queue[1].awaited
        BY <1>6, <2>1, <2>2
    <2>4. TouchJob => ~Shown(queue[1].tx)
        <3>1. TouchJob => queue[1].do = "touch" /\ queue[1].tx \in Payments
            BY <2>2 DEF TouchJob, Busy, JobType
        <3>2. QED BY <2>1, <2>2, <3>1 DEF TouchJobs
    <2>5. ui' = ui /\ transaction' = transaction
        BY <1>6, <2>2, <2>3, <2>4 DEF TouchJob, PublishJob, SignJob, form
    <2>6. QED BY <2>1, <2>5
<1>7. CASE queue # <<>> /\ queue' = Tail(queue) /\ (TouchJob \/ PublishJob \/ SignJob)
    <2>1. /\ DOMAIN queue' = 1..(Len(queue) - 1)
          /\ \A j \in DOMAIN queue' : j + 1 \in DOMAIN queue /\ queue'[j] = queue[j + 1] /\ j + 1 # 1
        BY <1>2, <1>7, QueueFacts
    <2>2. \A i \in DOMAIN queue' : queue'[i].awaited => Awaits(i)
        <3> SUFFICES ASSUME NEW i \in DOMAIN queue', queue'[i].awaited PROVE Awaits(i)
            OBVIOUS
        <3>1. /\ queue[i + 1].do = "sign" /\ ui' = "waiting" /\ transaction' = queue[i + 1].tx
              /\ \A j \in DOMAIN queue : queue[j].awaited => i + 1 = j
            BY <1>6, <1>7, <2>1
        <3>2. \A j \in DOMAIN queue' : queue'[j].awaited => i + 1 = j + 1
            BY <2>1, <3>1
        <3>3. QED BY <1>2, <2>1, <3>1, <3>2
    <2>3. ~WaitTimesOut => InTurn
        <3> SUFFICES ASSUME ~WaitTimesOut, timeouts' <= 1, NEW i \in DOMAIN queue', NEW j \in DOMAIN queue',
                            i < j,
                            queue'[i].tx = queue'[j].tx, queue'[i].do = "publish", queue'[j].do = "sign"
                     PROVE  queue'[j].awaited
            OBVIOUS
        <3>1. timeouts <= 1 /\ i + 1 < j + 1
            BY <1>1, <1>2, <2>1
        <3>2. QED BY <2>1, <3>1 DEF SignJobs
    <2>4. QED BY <1>3, <2>2, <2>3
<1>8. ASSUME queue # <<>>, SignJob, ~WaitTimesOut, NEW job \in JobType, queue' = Append(Tail(queue), job),
             job.do = "publish", ~job.awaited
      PROVE  Goal
    <2>1. /\ DOMAIN queue' = 1..Len(queue) /\ queue'[Len(queue)] = job
          /\ \A j \in 1..(Len(queue) - 1) : queue'[j] = queue[j + 1] /\ j + 1 \in DOMAIN queue /\ j + 1 # 1
        BY <1>2, <1>8, QueueFacts
    <2>2. \A i \in DOMAIN queue' : queue'[i].awaited \/ queue'[i].do = "sign" => i \in 1..(Len(queue) - 1)
        <3>1. \A i \in DOMAIN queue' : i = Len(queue) \/ i \in 1..(Len(queue) - 1)
            BY <1>2, <2>1
        <3>2. job.do # "sign"
            BY <1>8
        <3>3. QED BY <1>8, <2>1, <3>1, <3>2
    <2>3. \A i \in DOMAIN queue' : queue'[i].awaited => Awaits(i)
        <3> SUFFICES ASSUME NEW i \in DOMAIN queue', queue'[i].awaited PROVE Awaits(i)
            OBVIOUS
        <3>1. i \in 1..(Len(queue) - 1)
            BY <2>2
        <3>2. /\ queue[i + 1].do = "sign" /\ ui' = "waiting" /\ transaction' = queue[i + 1].tx
              /\ \A j \in DOMAIN queue : queue[j].awaited => i + 1 = j
            BY <1>6, <1>8, <2>1, <3>1
        <3>3. \A j \in DOMAIN queue' : queue'[j].awaited => i + 1 = j + 1
            BY <2>1, <2>2, <3>2
        <3>4. \A j \in DOMAIN queue' : queue'[j].awaited => i = j
            BY <1>2, <2>1, <3>1, <3>3
        <3>5. QED BY <2>1, <3>1, <3>2, <3>4
    <2>4. InTurn
        <3> SUFFICES ASSUME timeouts' <= 1, NEW i \in DOMAIN queue', NEW j \in DOMAIN queue', i < j,
                            queue'[i].tx = queue'[j].tx, queue'[i].do = "publish", queue'[j].do = "sign"
                     PROVE  queue'[j].awaited
            OBVIOUS
        <3>1. j \in 1..(Len(queue) - 1)
            BY <2>2
        <3>2. i \in 1..(Len(queue) - 1) /\ i + 1 < j + 1
            BY <1>2, <2>1, <3>1
        <3>3. timeouts <= 1
            BY <1>1, <1>8
        <3>4. QED BY <2>1, <3>1, <3>2, <3>3 DEF SignJobs
    <2>5. QED BY <2>3, <2>4
<1>9. CASE Crash
    <2>1. queue' = <<>>
        BY <1>9 DEF Crash
    <2>2. DOMAIN queue' = {}
        BY <2>1
    <2>3. QED BY <2>2
<1> HIDE DEF Goal
<1>10. QED BY <1>3, <1>4, <1>5, <1>7, <1>8, <1>9, QueueShape

-----------------------------------------------------------------------------
(* What may still be handed over *)

LEMMA HandedStep ==
    ASSUME Types, Stages, Next, NEW p
    PROVE  /\ Handed(p)' <= Handed(p) \/ (PublishJob /\ p = Head(queue).tx)
           /\ Handed(p)' <= Handed(p) + 1
<1>1. CASE UNCHANGED network /\ (Failed(p)' => Failed(p))
    BY <1>1 DEF Handed, network
<1>2. CASE Canceled
    BY <1>2, FailedStep DEF Canceled, Callbacks, Answer, Handed, Failed, Stages
<1>3. ASSUME NEW q \in Payments, Requested(q) PROVE Handed(p)' <= Handed(p)
    <2>1. dropped' = dropped /\ listed' \subseteq listed
        BY <1>3 DEF Requested
    <2>2. Failed(p)' => Failed(p) \/ p \in pending
        BY <1>3 DEF Requested, Answer, Failed
    <2>3. pending \subseteq listed
        BY DEF Stages
    <2>4. QED BY <2>1, <2>2, <2>3 DEF Handed
<1>4. CASE PublishJob
    <2>1. CASE p = Head(queue).tx
        <3>1. p \in dropped => p \in dropped'
            BY <1>4 DEF PublishJob, Publish, network
        <3>2. p \in listed /\ p \notin dropped => Handed(p) = 1 /\ Handed(p)' <= 2
            BY DEF Handed
        <3>3. p \notin listed => dropped' = dropped \/ p \in dropped
            BY <1>4, <2>1 DEF PublishJob, Publish, network
        <3>4. QED BY <1>4, <2>1, <3>1, <3>2, <3>3 DEF Handed
    <2>2. CASE p # Head(queue).tx
        <3>1. (p \in dropped' <=> p \in dropped) /\ (p \in listed' <=> p \in listed)
              /\ (Failed(p)' <=> Failed(p))
            BY <1>4, <2>2 DEF PublishJob, Publish, network, Refused, Failed
        <3>2. QED BY <3>1 DEF Handed
    <2>3. QED BY <2>1, <2>2
<1>5. ASSUME UNCHANGED network, UNCHANGED <<answers, told>> \/ \E answer \in Payments \X Results : Answered(answer)
      PROVE  Failed(p)' => Failed(p)
    BY <1>5 DEF Answered, Failed
<1>6. Handed(p) \in Nat /\ Handed(p)' \in Nat
    BY DEF Handed
<1>7. QED BY <1>1, <1>2, <1>3, <1>4, <1>5, <1>6, NetworkStep

LEMMA OncePerTimeoutStep ==
    ASSUME Types, Stages, OnePerScreen, TouchJobs, SignJobs, OncePerTimeout, Next
    PROVE  OncePerTimeout'
<1> DEFINE Count(p) == Jobs(queue, p) + Asking(p) + Handed(p)
<1> SUFFICES ASSUME NEW p \in Payments, p \in Created'
             PROVE  Jobs(queue', p) + Asking(p)' + Handed(p)' <= 1 + timeouts'
    <2>1. Created' \subseteq Payments
        <3>1. Len(made') \in Nat /\ Len(made') <= MaxPayments /\ DOMAIN made' = 1..Len(made')
            BY TypesStep DEF Types
        <3>2. QED BY <3>1, SenderAssumption DEF Created, Payments
    <2>2. QED BY <2>1 DEF OncePerTimeout, Jobs, Positions
<1>1. /\ Jobs(queue, p) \in Nat /\ Asking(p) \in {0, 1} /\ Handed(p) \in {0, 1, 2} /\ timeouts \in Nat
      /\ Asking(p)' \in {0, 1} /\ Handed(p)' \in {0, 1, 2}
    BY CountTypes DEF Asking, Handed
<1>2. p \in Created => Jobs(queue, p) + Asking(p) + Handed(p) <= 1 + timeouts
    BY DEF OncePerTimeout
<1>3. timeouts' = timeouts \/ (WaitTimesOut /\ timeouts' = timeouts + 1)
    BY DEF Next, RunJob, Open, CancelConfirm, Confirm, WaitTimesOut, CancelPin, Close, Unlock, Tap, Touch,
           EnterPin, TouchJob, SignJob, PublishJob, Requested, Canceled, Answered, Crash
<1>4. Handed(p)' <= Handed(p) \/ (PublishJob /\ p = Head(queue).tx /\ Handed(p)' <= Handed(p) + 1)
    BY HandedStep
<1>5. CASE p \notin Created
    <2>1. PICK a \in Amounts : Tap(a)
        BY <1>5, CreatedGrows DEF Created
    <2>2. Positions(queue, p) = {} /\ queue' = queue
        BY <1>5, <2>1 DEF Stages, Positions, Tap
    <2>3. Jobs(queue', p) = 0
        BY <2>2, FS_EmptySet DEF Jobs
    <2>4. Handed(p)' = 0
        BY <1>5, <2>1 DEF Tap, network, Handed, Failed, Stages
    <2>5. QED BY <1>1, <1>3, <2>3, <2>4
<1>6. CASE p \in Created /\ NoJob /\ UNCHANGED queue
    <2>1. Asking(p)' <= Asking(p)
        <3>1. \A a : Tap(a) => transaction' # p
            BY <1>6, CreatedGrows DEF Tap
        <3>2. \/ \E a \in Amounts : Tap(a)
              \/ ui' \notin {"confirm", "touch", "pin"}
              \/ ui \in {"confirm", "touch", "pin"} /\ transaction' = transaction
            BY <1>6
            DEF NoJob, form, Open, CancelConfirm, Confirm, CancelPin, Close, Unlock, Touch, EnterPin,
                Requested, Canceled, Answered
        <3>3. QED BY <3>1, <3>2 DEF Asking
    <2>2. Handed(p)' <= Handed(p)
        <3>1. ~PublishJob
            BY <1>6, TailDiffers DEF PublishJob, Busy
        <3>2. QED BY <1>4, <3>1
    <2>3. QED BY <1>1, <1>2, <1>3, <1>6, <2>1, <2>2
<1>7. ASSUME p \in Created, NoJob, NEW job \in JobType, queue' = Append(queue, job), Dialog(job)
      PROVE  Jobs(queue', p) + Asking(p)' + Handed(p)' <= 1 + timeouts'
    <2>1. Jobs(queue', p) = Jobs(queue, p) + (IF job.tx = p THEN 1 ELSE 0)
        BY <1>7, Appended DEF Types
    <2>2. Asking(p)' <= Asking(p) /\ (job.tx = p => Asking(p) = 1 /\ Asking(p)' = 0)
        <3>1. queue' # queue
            <4>1. Len(queue) + 1 \in DOMAIN queue' /\ Len(queue) + 1 \notin DOMAIN queue
                BY <1>7, QueueFacts
            <4>2. QED BY <4>1
        <3>2. /\ ui \in {"confirm", "touch", "pin"} /\ ui' \in {"edit", "waiting"}
              /\ transaction' = transaction /\ job.tx = transaction
            BY <1>7, <3>1 DEF Dialog, Confirm, Touch, EnterPin
        <3>3. QED BY <3>2 DEF Asking
    <2>3. Handed(p)' <= Handed(p)
        <3>1. Len(queue') = Len(queue) + 1 /\ Len(queue) \in Nat /\ (PublishJob => Len(queue') = Len(queue) - 1)
            BY <1>7 DEF PublishJob, Busy, Types
        <3>2. QED BY <1>4, <3>1
    <2>4. QED BY <1>1, <1>2, <1>3, <1>7, <2>1, <2>2, <2>3
<1>8. ASSUME queue # <<>>
      PROVE  /\ Head(queue) = queue[1] /\ 1 \in DOMAIN queue /\ Tail(queue) \in Seq(JobType)
             /\ Jobs(Tail(queue), p) \in Nat
             /\ Jobs(queue, p) = Jobs(Tail(queue), p) + (IF queue[1].tx = p THEN 1 ELSE 0)
    BY <1>8, Taken, QueueFacts DEF Types
<1>9. ASSUME p \in Created, queue # <<>>, queue' = Tail(queue), TouchJob \/ SignJob
      PROVE  Jobs(queue', p) + Asking(p)' + Handed(p)' <= 1 + timeouts'
    <2>1. Asking(p)' <= Asking(p) \/ queue[1].tx = p
        <3>1. SUFFICES ASSUME queue[1].tx # p, transaction = p PROVE Asking(p)' <= Asking(p)
            <4>1. transaction' = transaction
                BY <1>9 DEF TouchJob, SignJob
            <4>2. transaction # p => Asking(p)' = 0 /\ Asking(p) = 0
                BY <4>1 DEF Asking
            <4>3. QED BY <4>2
        <3>2. TouchJob => ~Shown(queue[1].tx)
            <4>1. ui # "dead" /\ queue[1].tx \in Created /\ Past(queue[1].tx)
                BY <1>8, <1>9 DEF OnePerScreen, Stages, Past, Positions
            <4>2. QED BY <3>1, <4>1 DEF OnePerScreen
        <3>3. SignJob => ~queue[1].awaited
            BY <1>8, <1>9, <3>1 DEF SignJobs
        <3>4. ui' = ui /\ transaction' = transaction
            BY <1>8, <1>9, <3>2, <3>3 DEF TouchJob, SignJob
        <3>5. QED BY <1>1, <3>4 DEF Asking
    <2>2. Handed(p)' <= Handed(p)
        <3>1. UNCHANGED <<network, answers, told>>
            BY <1>9 DEF TouchJob, SignJob
        <3>2. Handed(p)' = Handed(p)
            BY <3>1 DEF network, Handed, Failed
        <3>3. QED BY <1>1, <3>2
    <2>3. Asking(p)' <= Asking(p) + 1
        BY <1>1
    <2>4. timeouts' = timeouts
        BY <1>9 DEF TouchJob, SignJob
    <2>5. QED BY <1>1, <1>2, <1>8, <1>9, <2>1, <2>2, <2>3, <2>4
<1>10. ASSUME p \in Created, queue # <<>>, queue' = Tail(queue), PublishJob
       PROVE  Jobs(queue', p) + Asking(p)' + Handed(p)' <= 1 + timeouts'
    <2>1. Asking(p)' = Asking(p) /\ timeouts' = timeouts
        BY <1>10 DEF PublishJob, form, Asking
    <2>2. QED BY <1>1, <1>2, <1>4, <1>8, <1>10, <2>1
<1>11. ASSUME p \in Created, queue # <<>>, SignJob, Head(queue).right, NEW job \in JobType,
              queue' = Append(Tail(queue), job), job.tx = Head(queue).tx
       PROVE  Jobs(queue', p) + Asking(p)' + Handed(p)' <= 1 + timeouts'
    <2>1. Jobs(queue', p) = Jobs(Tail(queue), p) + (IF job.tx = p THEN 1 ELSE 0)
        <3>1. PICK q \in Seq(JobType) : q = Tail(queue)
            BY <1>8, <1>11
        <3>2. Jobs(Append(q, job), p) = Jobs(q, p) + (IF job.tx = p THEN 1 ELSE 0)
            BY Appended
        <3>3. QED BY <1>11, <3>1, <3>2
    <2>2. Jobs(queue', p) = Jobs(queue, p)
        BY <1>8, <1>11, <2>1
    <2>3. Asking(p)' <= Asking(p) /\ timeouts' = timeouts
        BY <1>11 DEF SignJob, Asking
    <2>4. Handed(p)' <= Handed(p)
        BY <1>11 DEF SignJob, network, Handed, Failed
    <2>5. QED BY <1>1, <1>2, <1>11, <2>2, <2>3, <2>4
<1>12. CASE p \in Created /\ WaitTimesOut
    <2>1. Positions(queue', p) = Positions(queue, p)
        <3>1. DOMAIN queue' = DOMAIN queue /\ \A j \in DOMAIN queue : queue'[j].tx = queue[j].tx
            BY <1>12, QueueFacts DEF WaitTimesOut, JobType
        <3>2. QED BY <3>1 DEF Positions
    <2>2. Jobs(queue', p) = Jobs(queue, p) /\ Asking(p) = 0 /\ timeouts' = timeouts + 1
        BY <1>12, <2>1 DEF Jobs, WaitTimesOut, Asking
    <2>3. Handed(p)' = Handed(p)
        BY <1>12 DEF WaitTimesOut, network, Handed, Failed
    <2>4. QED BY <1>1, <1>2, <1>12, <2>2, <2>3
<1>13. CASE p \in Created /\ Crash
    <2>1. queue' = <<>> /\ ui' = "dead" /\ timeouts' = timeouts
        BY <1>13 DEF Crash
    <2>2. Positions(queue', p) = {}
        BY <2>1 DEF Positions
    <2>3. Jobs(queue', p) = 0 /\ Asking(p)' = 0
        BY <2>1, <2>2, FS_EmptySet DEF Jobs, Asking
    <2>4. Handed(p)' = Handed(p)
        BY <1>13 DEF Crash, network, Handed, Failed
    <2>5. QED BY <1>1, <1>2, <1>13, <2>1, <2>3, <2>4
<1>14. QED BY <1>5, <1>6, <1>7, <1>9, <1>10, <1>11, <1>12, <1>13, QueueShape

-----------------------------------------------------------------------------
(* Coins and money *)

LEMMA MoneyFacts ==
    ASSUME Types, Stages
    PROVE  /\ totalSent \in Nat /\ Total(counted) \in Nat
           /\ totalSent = FoldOf(made, registered) /\ Total(counted) = FoldOf(made, counted)
           /\ IsFiniteSet(registered) /\ Cardinality(registered) \in Nat
           /\ \A p \in Created : Amount(p) \in Nat /\ made[p].coin \in Nat \ {0}
           /\ registered \in SUBSET DOMAIN made /\ counted \in SUBSET DOMAIN made
<1>1. registered \in SUBSET DOMAIN made /\ counted \in SUBSET DOMAIN made
    BY DEF Stages, Created
<1>2. \A p \in Created : made[p] \in PaymentType
    <2> HIDE DEF PaymentType
    <2> QED BY DEF Types, Created
<1>3. \A p \in Created : Amount(p) \in Nat /\ made[p].coin \in Nat \ {0}
    BY <1>2, SenderAssumption DEF PaymentType, Amount
<1>4. FoldOf(made, registered) \in Nat /\ FoldOf(made, counted) \in Nat /\ IsFiniteSet(registered)
    BY <1>1, SumFacts DEF Types
<1>5. QED BY <1>1, <1>3, <1>4, TotalIsSum, FS_CardinalityType DEF totalSent

(* A payment that gets into the wallet is valid.                           *)
Registers(p) ==
    /\ Requested(p) /\ p \in Created \ registered /\ Valid(p)
    /\ registered' = registered \cup {p}
    /\ counted' = IF signed[p] = "touch" THEN counted \cup {p} ELSE counted
    /\ UNCHANGED <<made, spendLimit, signed, ui, transaction>>

Renews ==
    /\ spendLimit' \in {spendLimit, totalSent + Limit} /\ counted' = {}
    /\ UNCHANGED <<made, registered>>

LEMMA RegisteredStep ==
    ASSUME Types, Stages, Next
    PROVE  \/ UNCHANGED <<registered, counted, spendLimit>>
           \/ Renews /\ (SignJob \/ Unlock)
           \/ \E p \in Payments : Registers(p)
<1>1. ASSUME NEW p \in Payments, Requested(p)
      PROVE  Registers(p) \/ UNCHANGED <<registered, counted, spendLimit>>
    BY <1>1 DEF Requested, Registers, Stages, form, keys
<1>2. CASE SignJob \/ Unlock
    BY <1>2 DEF SignJob, Unlock, Renew, Renews, network, form, keys
<1>3. QED
    BY <1>1, <1>2
    DEF Next, RunJob, network, keys, Open, CancelConfirm, Confirm, WaitTimesOut, CancelPin, Close, Tap,
        Touch, EnterPin, TouchJob, PublishJob, Publish, Canceled, Answered, Crash

(* It spends the first coin that is left.                                  *)
LEMMA RegistersFirst ==
    ASSUME Types, Stages, Coins, NEW p \in Payments, Registers(p)
    PROVE  /\ made[p].coin = Unspent
           /\ Cardinality(registered') = Cardinality(registered) + 1
<1>1. /\ IsFiniteSet(registered) /\ Cardinality(registered) \in Nat
      /\ made[p].coin \in Nat \ {0} /\ p \in Created /\ p \notin registered
    BY MoneyFacts DEF Registers
<1>2. made[p].coin <= Cardinality(registered) + 1
    BY <1>1 DEF Coins, Unspent
<1>3. made[p].coin \notin 1..Cardinality(registered)
    <2>1. \A q \in registered : made[q].coin # made[p].coin
        BY <1>1 DEF Registers, Valid
    <2>2. made[p].coin \notin {made[q].coin : q \in registered}
        BY <2>1
    <2>3. QED BY <2>2 DEF Coins
<1>4. made[p].coin = Cardinality(registered) + 1
    BY <1>1, <1>2, <1>3
<1>5. Cardinality(registered') = Cardinality(registered) + 1
    BY <1>1, FS_AddElement DEF Registers
<1>6. QED BY <1>4, <1>5 DEF Unspent

LEMMA CoinsStep == ASSUME Types, Stages, Coins, Next PROVE Coins'
<1>1. /\ Cardinality(registered) \in Nat /\ registered \subseteq Created
      /\ \A p \in Created : made[p].coin \in Nat \ {0} /\ made'[p] = made[p]
    BY MoneyFacts, CreatedGrows DEF Created
<1>2. ASSUME NEW a \in Amounts, Tap(a) PROVE Coins'
    <2> DEFINE x == [amount |-> a, coin |-> Unspent, screen |-> screen]
    <2>1. made' = Append(made, x) /\ registered' = registered
        BY <1>2 DEF Tap, network
    <2>2. x.coin = Unspent
        OBVIOUS
    <2> HIDE DEF x
    <2>3. made'[Len(made) + 1] = x /\ Created' = Created \cup {Len(made) + 1}
        BY <2>1, CreatedGrows DEF Types, Created
    <2>4. Unspent' = Unspent
        BY <2>1 DEF Unspent
    <2>5. \A p \in Created' : made'[p].coin <= Unspent'
        BY <1>1, <2>2, <2>3, <2>4 DEF Coins, Unspent
    <2>6. {made'[p].coin : p \in registered} = {made[p].coin : p \in registered}
        BY <1>1
    <2>7. QED BY <2>1, <2>5, <2>6 DEF Coins
<1>3. CASE made' = made /\ registered' = registered
    BY <1>3 DEF Coins, Created, Unspent
<1>4. ASSUME NEW p \in Payments, Registers(p) PROVE Coins'
    <2>1. made[p].coin = Unspent /\ Cardinality(registered') = Cardinality(registered) + 1
        BY <1>4, RegistersFirst
    <2>2. registered' = registered \cup {p} /\ made' = made
        BY <1>4 DEF Registers
    <2>3. {made[q].coin : q \in registered'} = {made[q].coin : q \in registered} \cup {made[p].coin}
        BY <2>2
    <2>4. {made[q].coin : q \in registered'} = 1..Cardinality(registered')
        BY <1>1, <2>1, <2>3 DEF Coins, Unspent
    <2>5. \A q \in Created : made[q].coin <= Unspent /\ Unspent' = Unspent + 1
        BY <2>1 DEF Coins, Unspent
    <2>6. \A q \in Created' : made'[q].coin <= Unspent'
        BY <1>1, <2>2, <2>5 DEF Created, Unspent
    <2>7. QED BY <2>2, <2>4, <2>6 DEF Coins
<1>5. QED BY <1>2, <1>3, <1>4, RegisteredStep, CreatedGrows DEF Renews, Tap, network

LEMMA ApprovedStep ==
    ASSUME Types, Stages, OnePerScreen, SignJobs, Next, NEW p \in Payments, Approved(p)'
    PROVE  /\ p \in Created
           /\ Approved(p) \/ (TouchJob /\ WithinLimit(p))
<1>1. Approved(p) => p \in Created
    BY CreatedGrows DEF Approved, Stages, OnePerScreen, Types
<1>2. CASE signed'[p] = "touch"
    <2>1. CASE signed[p] = "touch"
        BY <1>1, <2>1 DEF Approved
    <2>2. CASE signed[p] # "touch"
        <3>1. Touch("success") /\ p = transaction
            BY <1>2, <2>2, SignedStep
        <3>2. QED BY <1>1, <3>1 DEF Touch, Approved
    <2>3. QED BY <2>1, <2>2
<1>3. CASE ui' = "touch" /\ transaction' = p
    <2>1. CASE TouchJob
        <3>1. queue # <<>> /\ Head(queue).tx \in Created /\ Past(Head(queue).tx)
            BY <2>1, QueueFacts DEF TouchJob, Busy, Stages, Past, Positions
        <3>2. transaction = p
            BY <1>3, <2>1 DEF TouchJob
        <3>3. CASE ui = "touch"
            BY <1>1, <3>2, <3>3 DEF Approved
        <3>4. CASE ui # "touch"
            <4>1. Shown(Head(queue).tx) /\ WithinLimit(Head(queue).tx)
                BY <1>3, <2>1, <3>4 DEF TouchJob
            <4>2. Head(queue).tx = p
                BY <3>1, <3>2, <4>1 DEF OnePerScreen
            <4>3. QED BY <2>1, <3>1, <4>1, <4>2
        <3>5. QED BY <3>3, <3>4
    <2>2. CASE ~TouchJob
        <3>1. ui = "touch" /\ transaction' = transaction
            BY <1>3, <2>2
            DEF Next, RunJob, form, Open, CancelConfirm, Confirm, WaitTimesOut, CancelPin, Close, Unlock,
                Tap, Touch, EnterPin, SignJob, PublishJob, Requested, Canceled, Answered, Crash
        <3>2. QED BY <1>1, <1>3, <3>1 DEF Approved
    <2>3. QED BY <2>1, <2>2
<1>4. QED BY <1>2, <1>3 DEF Approved

LEMMA LimitsStep ==
    ASSUME Types, Stages, OnePerScreen, SignJobs, Coins, Limits, Next PROVE Limits'
<1> DEFINE sent  == FoldOf(made, registered)
           cnt   == FoldOf(made, counted)
           sent2 == FoldOf(made', registered')
           cnt2  == FoldOf(made', counted')
<1>1. /\ totalSent = sent /\ Total(counted) = cnt /\ sent \in Nat /\ cnt \in Nat
      /\ totalSent' = sent2 /\ Total(counted)' = cnt2
      /\ Limit \in Nat /\ spendLimit \in Nat
      /\ \A p \in Created : Amount(p) = made[p].amount /\ Amount(p) \in Nat /\ made[p].coin \in Nat
    BY MoneyFacts, TotalsLater, SenderAssumption DEF Amount, Types
<1>2. \A p \in Created : made'[p] = made[p]
    BY CreatedGrows
<1>3. \A S \in SUBSET DOMAIN made : FoldOf(made', S) = FoldOf(made, S)
    <2>1. \A S \in SUBSET DOMAIN made : \A x : FoldOf(Append(made, x), S) = FoldOf(made, S)
        BY SumFacts DEF Types
    <2>2. QED BY <2>1, CreatedGrows DEF Tap
<1>4. /\ cnt + spendLimit <= sent + Limit /\ cnt <= Limit
      /\ \A p \in Created \ registered :
            Approved(p) /\ made[p].coin = Unspent => Amount(p) + sent <= spendLimit
    BY <1>1 DEF Limits, LimitKept
<1>5. Created' \subseteq Payments
    <2>1. Len(made') \in Nat /\ Len(made') <= MaxPayments /\ DOMAIN made' = 1..Len(made')
        BY TypesStep DEF Types
    <2>2. QED BY <2>1, SenderAssumption DEF Created, Payments
<1> HIDE DEF sent, cnt, sent2, cnt2
<1> SUFFICES /\ cnt2 + spendLimit' <= sent2 + Limit /\ cnt2 <= Limit
             /\ \A p \in Created \ registered' :
                   Approved(p)' /\ made[p].coin = Unspent' => Amount(p) + sent2 <= spendLimit'
    <2>1. \A p \in Created' \ registered' : Approved(p)' /\ made'[p].coin = Unspent' =>
              p \in Created /\ made[p].coin = Unspent' /\ Amount(p)' = Amount(p)
        BY <1>2, <1>5, ApprovedStep DEF Amount
    <2>2. \A p \in Created' \ registered' : Approved(p)' /\ made'[p].coin = Unspent' =>
              Amount(p)' + sent2 <= spendLimit'
        BY <2>1
    <2>3. QED BY <1>1, <2>2 DEF Limits, LimitKept
<1>6. CASE UNCHANGED <<registered, counted, spendLimit>>
    <2>1. sent2 = sent /\ cnt2 = cnt /\ Unspent' = Unspent
        BY <1>3, <1>6, MoneyFacts DEF sent, cnt, sent2, cnt2, Unspent
    <2>2. ASSUME NEW p \in Created \ registered', Approved(p)', made[p].coin = Unspent'
          PROVE  Amount(p) + sent2 <= spendLimit'
        <3>1. p \in Payments
            BY CreatedGrows
        <3>2. Approved(p) \/ WithinLimit(p)
            BY <2>2, <3>1, ApprovedStep
        <3>3. QED BY <1>1, <1>4, <1>6, <2>1, <2>2, <3>2 DEF WithinLimit
    <2>3. QED BY <1>4, <1>6, <2>1, <2>2
<1>7. CASE Renews /\ (SignJob \/ Unlock)
    <2>1. /\ sent2 = sent /\ cnt2 = 0 /\ Unspent' = Unspent /\ registered' = registered
          /\ spendLimit' = spendLimit \/ spendLimit' = sent + Limit
        <3>1. FoldOf(made, {}) = 0
            BY SumFacts DEF Types
        <3>2. QED BY <1>1, <1>7, <3>1 DEF Renews, sent, sent2, cnt2, Unspent
    <2>2. ASSUME NEW p \in Created \ registered', Approved(p)', made[p].coin = Unspent'
          PROVE  Amount(p) + sent2 <= spendLimit'
        <3>1. p \in Payments
            BY CreatedGrows
        <3>2. ~TouchJob \/ Approved(p)
            <4>1. SignJob => Busy("sign")
                BY DEF SignJob
            <4>2. TouchJob => Busy("touch")
                BY DEF TouchJob
            <4>3. TouchJob /\ Unlock => FALSE
                BY TailDiffers DEF TouchJob, Unlock, Busy
            <4>4. QED BY <1>7, <4>1, <4>2, <4>3 DEF Busy
        <3>3. Approved(p)
            BY <2>2, <3>1, <3>2, ApprovedStep
        <3>4. Amount(p) + sent <= spendLimit
            BY <1>4, <2>1, <2>2, <3>3
        <3>5. QED BY <1>1, <1>4, <2>1, <3>4
    <2>3. QED BY <1>1, <1>4, <2>1, <2>2
<1>8. ASSUME NEW q \in Payments, Registers(q)
      PROVE  /\ cnt2 + spendLimit' <= sent2 + Limit /\ cnt2 <= Limit
             /\ \A p \in Created \ registered' :
                   Approved(p)' /\ made[p].coin = Unspent' => Amount(p) + sent2 <= spendLimit'
    <2>1. made[q].coin = Unspent /\ Unspent' = Unspent + 1 /\ Unspent \in Nat
        BY <1>8, RegistersFirst, MoneyFacts DEF Unspent
    <2>2. \A p \in Created : made[p].coin # Unspent'
        BY <1>1, <2>1 DEF Coins
    <2>3. /\ q \in Created \ registered /\ registered' = registered \cup {q} /\ made' = made
          /\ counted' = IF signed[q] = "touch" THEN counted \cup {q} ELSE counted
          /\ spendLimit' = spendLimit
        BY <1>8 DEF Registers
    <2>4. q \in DOMAIN made \ registered /\ q \in DOMAIN made \ counted
        BY <2>3 DEF Created, Stages
    <2>5. /\ FoldOf(made, registered \cup {q}) = FoldOf(made, registered) + made[q].amount
          /\ FoldOf(made, counted \cup {q}) = FoldOf(made, counted) + made[q].amount
        BY <2>4, SumFacts, MoneyFacts DEF Types
    <2>6. sent2 = sent + Amount(q) /\ cnt2 = IF signed[q] = "touch" THEN cnt + Amount(q) ELSE cnt
        BY <1>1, <2>3, <2>5 DEF sent, cnt, sent2, cnt2
    <2>7. cnt2 + spendLimit' <= sent2 + Limit
        BY <1>1, <1>4, <2>3, <2>6
    <2>8. signed[q] = "touch" => Amount(q) + sent <= spendLimit
        BY <1>4, <2>1, <2>3 DEF Approved
    <2>9. cnt2 <= Limit
        BY <1>1, <1>4, <2>3, <2>6, <2>7, <2>8
    <2>10. QED BY <2>2, <2>7, <2>9
<1>9. QED BY <1>6, <1>7, <1>8, RegisteredStep


-----------------------------------------------------------------------------
(* Failures *)

LEMMA FirstJob ==
    ASSUME Types, queue # <<>>
    PROVE  Jobs(queue, Head(queue).tx) \in Nat \ {0}
BY Taken, QueueFacts DEF Types

LEMMA FailedAreOutStep ==
    ASSUME Types, Stages, OncePerTimeout, FailedAreOut, Next
    PROVE  FailedAreOut'
<1> SUFFICES ASSUME timeouts' = 0, NEW p \in listed', Failed(p)' PROVE FALSE
    BY DEF FailedAreOut, Failed
<1>1. timeouts = 0
    <2>1. timeouts' = timeouts \/ timeouts' = timeouts + 1
        BY DEF Next, RunJob, Open, CancelConfirm, Confirm, WaitTimesOut, CancelPin, Close, Unlock, Tap, Touch,
               EnterPin, TouchJob, SignJob, PublishJob, Requested, Canceled, Answered, Crash
    <2>2. timeouts \in Nat
        BY CountTypes
    <2>3. QED BY <2>1, <2>2
<1>2. ASSUME PublishJob, p = Head(queue).tx, p \in listed \/ Failed(p) PROVE FALSE
    <2>1. queue # <<>>
        BY <1>2 DEF PublishJob, Busy
    <2>2. Jobs(queue, p) \in Nat \ {0} /\ p \in Created
        BY <1>2, <2>1, FirstJob, QueueFacts DEF Stages
    <2>3. Handed(p) \in {1, 2} /\ Asking(p) \in {0, 1}
        BY <1>2 DEF Handed, Asking
    <2>4. Jobs(queue, p) + Asking(p) + Handed(p) <= 1 + timeouts
        BY <2>2 DEF OncePerTimeout
    <2>5. QED BY <1>1, <2>2, <2>3, <2>4
<1>3. CASE p \in listed
    <2>1. ~Failed(p)
        BY <1>1, <1>3 DEF FailedAreOut
    <2>2. ~(Canceled /\ p \in pending) /\ ~(Requested(p) /\ ~Valid(p))
        BY DEF Canceled, Callbacks, Requested
    <2>3. QED BY <1>2, <1>3, <2>1, <2>2, FailedStep
<1>4. CASE p \notin listed
    <2>1. PublishJob
        BY <1>4, NetworkStep DEF network, Requested, Canceled
    <2>2. p = Head(queue).tx /\ answers' = answers /\ told' = told
        BY <1>4, <2>1 DEF PublishJob, Publish, network
    <2>3. QED BY <1>2, <2>1, <2>2 DEF Failed
<1>5. QED BY <1>3, <1>4

-----------------------------------------------------------------------------
(* The invariant *)

LEMMA SenderInvInit == ASSUME Init PROVE SenderInv
<1>1. made \in Seq(PaymentType) /\ queue \in Seq(JobType)
    <2> HIDE DEF PaymentType, JobType
    <2> QED BY DEF Init
<1>2. DOMAIN made = {} /\ Created = {} /\ DOMAIN queue = {} /\ Len(made) = 0
    BY DEF Init, Created
<1>3. Types
    BY <1>1, <1>2, SenderAssumption DEF Init, Types, Screens, None
<1>4. Stages
    BY <1>2 DEF Init, Stages, Failed
<1>5. OnePerScreen /\ TouchJobs /\ SignJobs /\ OncePerTimeout /\ FailedAreOut
    BY <1>2 DEF Init, OnePerScreen, TouchJobs, SignJobs, OncePerTimeout, FailedAreOut, None
<1>6. Coins
    <2>1. Cardinality(registered) = 0 /\ registered = {}
        BY FS_EmptySet DEF Init
    <2>2. QED BY <1>2, <2>1 DEF Coins
<1>7. Limits
    <2>1. totalSent = 0 /\ Total(counted) = 0
        <3>1. {} \in SUBSET DOMAIN made
            OBVIOUS
        <3>2. FoldOf(made, {}) = 0
            BY <1>1, <3>1, SumFacts
        <3>3. Total({}) = 0
            BY <3>2, TotalIsSum
        <3>4. registered = {} /\ counted = {}
            BY DEF Init
        <3>5. QED BY <3>3, <3>4 DEF totalSent
    <2>2. spendLimit \in {0, Limit} /\ Limit \in Nat
        BY SenderAssumption DEF Init
    <2>3. QED BY <1>2, <2>1, <2>2 DEF Limits, LimitKept
<1>8. QED BY <1>3, <1>4, <1>5, <1>6, <1>7 DEF SenderInv

LEMMA SenderInvStep == ASSUME SenderInv, [Next]_vars PROVE SenderInv'
<1>1. /\ Types /\ Stages /\ OnePerScreen /\ TouchJobs /\ SignJobs
      /\ OncePerTimeout /\ Coins /\ Limits /\ FailedAreOut
    BY DEF SenderInv
<1>2. CASE Next
    <2>1. Types' /\ Stages' /\ OnePerScreen'
        BY <1>1, <1>2, TypesStep, StagesStep, OnePerScreenStep
    <2>2. TouchJobs' /\ SignJobs' /\ OncePerTimeout'
        BY <1>1, <1>2, TouchJobsStep, SignJobsStep, OncePerTimeoutStep
    <2>3. Coins' /\ Limits' /\ FailedAreOut'
        BY <1>1, <1>2, CoinsStep, LimitsStep, FailedAreOutStep
    <2>4. QED BY <2>1, <2>2, <2>3 DEF SenderInv
<1>3. CASE UNCHANGED vars
    <2> USE <1>3 DEF vars, form, keys, network
    <2>1. Types'
        BY <1>1 DEF Types, Created
    <2>2. Stages'
        BY <1>1 DEF Stages, Created, Failed
    <2>3. OnePerScreen'
        BY <1>1 DEF OnePerScreen, Created, Past, Shown, Positions
    <2>4. TouchJobs' /\ SignJobs'
        BY <1>1 DEF TouchJobs, SignJobs, Shown, Created
    <2>5. OncePerTimeout'
        BY <1>1 DEF OncePerTimeout, Created, Jobs, Positions, Asking, Handed, Failed
    <2>6. Coins'
        BY <1>1 DEF Coins, Created, Unspent
    <2>7. Limits'
        <3>1. totalSent' = totalSent /\ Total(counted)' = Total(counted)
            BY TotalsLater, TotalIsSum DEF totalSent
        <3>2. \A p \in Created : Amount(p)' = Amount(p) /\ (Approved(p)' <=> Approved(p))
            BY DEF Amount, Approved
        <3>3. Created' = Created /\ Unspent' = Unspent
            BY DEF Created, Unspent
        <3>4. QED BY <1>1, <3>1, <3>2, <3>3 DEF Limits, LimitKept
    <2>8. FailedAreOut'
        BY <1>1 DEF FailedAreOut, Failed
    <2>9. QED BY <2>1, <2>2, <2>3, <2>4, <2>5, <2>6, <2>7, <2>8 DEF SenderInv
<1>4. QED BY <1>2, <1>3

(* What every state of Sender satisfies: a screen lets one payment past    *)
(* its confirmation, a payment is queued, asked about and handed over once *)
(* for each time the main thread gave up waiting, the coins are spent in   *)
(* order, and what was approved fits what is left of the limit.            *)
THEOREM SenderInvariant == Spec => []SenderInv
BY SenderInvInit, SenderInvStep, PTL DEF Spec

(* No prompt and no PIN dialog is ever shown without a transaction, nor    *)
(* with that of another screen, and only what was signed is published.     *)
THEOREM SenderTypes == Spec => []TypeOK
<1>1. SenderInv => TypeOK
    <2> SUFFICES ASSUME Types, Stages, OnePerScreen PROVE TypeOK
        BY DEF SenderInv
    <2>1. Created \subseteq Payments
        <3>1. DOMAIN made = 1..Len(made) /\ Len(made) \in Nat /\ Len(made) <= MaxPayments
            <4> HIDE DEF PaymentType
            <4> QED BY DEF Types
        <3>2. QED BY <3>1, SenderAssumption DEF Created, Payments
    <2>2. listed \cup freed \cup registered \subseteq {p \in Created : signed[p] # "no"}
          /\ dropped \subseteq Created /\ pending \subseteq listed \ registered
        BY DEF Stages
    <2>3. QED BY <2>1, <2>2 DEF Types, OnePerScreen, TypeOK, Screens
<1>2. QED BY <1>1, SenderInvariant, PTL

(* What is sent by biometrics between two right PINs stays within the      *)
(* limit, although canUseBiometrics counts only what is in the wallet: two *)
(* payments that are on their way together spend the same coin.            *)
THEOREM BiometricsWithinLimit == Spec => []LimitKept
<1>1. SenderInv => LimitKept
    BY DEF SenderInv, Limits
<1>2. QED BY <1>1, SenderInvariant, PTL

(* As long as no PIN took 30 seconds, a payment that the user was told     *)
(* failed does not get into the wallet (publishTx, _peerDisconnected).     *)
THEOREM FailuresAreFinal == Spec => []FailureIsFinal
<1>1. SenderInv => FailureIsFinal
    BY DEF SenderInv, FailedAreOut, Failed, FailureIsFinal, Stages
<1>2. QED BY <1>1, SenderInvariant, PTL

LEMMA ShownWhenHandedOver ==
    ASSUME SenderInv, Next, NEW p \in listed' \ listed, timeouts <= 1
    PROVE  Shown(p)
<1>1. Types /\ Stages /\ OnePerScreen /\ SignJobs /\ OncePerTimeout
    BY DEF SenderInv
<1>2. PublishJob
    BY NetworkStep DEF network, Requested, Canceled
<1>3. p = Head(queue).tx /\ Alive(p) /\ queue # <<>> /\ Head(queue).do = "publish"
    BY <1>2 DEF PublishJob, Publish, network, Busy
<1>4. /\ 1 \in DOMAIN queue /\ queue[1].tx = p /\ queue[1].do = "publish"
      /\ DOMAIN queue = 1..Len(queue) /\ Len(queue) \in Nat
    BY <1>1, <1>3, QueueFacts
<1>5. p \in Created /\ Past(p)
    BY <1>1, <1>4 DEF Stages, Past
<1>6. CASE HeldByQueue(p)
    <2>1. PICK i \in DOMAIN queue : queue[i].do = "sign" /\ made[queue[i].tx].screen = made[p].screen
        BY <1>6 DEF HeldByQueue
    <2>2. queue[i].tx \in Created /\ Past(queue[i].tx)
        BY <1>1, <2>1 DEF Stages, Past, Positions
    <2>3. queue[i].tx = p
        BY <1>1, <1>5, <2>1, <2>2 DEF OnePerScreen
    <2>4. 1 < i
        BY <1>4, <2>1
    <2>5. queue[i].awaited
        BY <1>1, <1>4, <2>1, <2>3, <2>4 DEF SignJobs
    <2>6. ui = "waiting" /\ transaction = p
        BY <1>1, <2>3, <2>5 DEF SignJobs
    <2>7. transaction # None /\ made[p].screen = screen
        BY <1>1, <2>6 DEF OnePerScreen
    <2>8. QED BY <1>5, <2>6, <2>7 DEF Shown
<1>7. ASSUME NEW q \in pending \cup dropped, made[q].screen = made[p].screen PROVE FALSE
    <2>1. q \in Created /\ Past(q)
        BY <1>1 DEF Stages, Past
    <2>2. q = p
        BY <1>1, <1>5, <1>7, <2>1 DEF OnePerScreen
    <2>3. Handed(p) = 2
        BY <1>1, <2>2 DEF Stages, Handed
    <2>4. Jobs(queue, p) \in Nat \ {0} /\ Asking(p) \in {0, 1} /\ timeouts \in Nat
        BY <1>1, <1>3, FirstJob, CountTypes
    <2>5. Jobs(queue, p) + Asking(p) + Handed(p) <= 1 + timeouts
        BY <1>1, <1>5 DEF OncePerTimeout
    <2>6. QED BY <2>3, <2>4, <2>5
<1>8. QED BY <1>3, <1>6, <1>7 DEF Alive

(* A payment whose screen was closed is not handed over any more, whatever *)
(* is still queued for it, unless the main thread gave up waiting twice.   *)
THEOREM NothingAfterClosing == Spec => ClosedIsOver
<1>1. SenderInv /\ [Next]_vars => [\A p \in listed' \ listed : timeouts <= 1 => Shown(p)]_vars
    BY ShownWhenHandedOver
<1>2. QED BY <1>1, SenderInvariant, PTL DEF Spec, ClosedIsOver
=============================================================================
