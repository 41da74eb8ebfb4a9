------------------------ MODULE BRCoinSelectionProofs ------------------------
(***************************************************************************)
(* Proof that every payment BRWalletCreateTxForOutputs returns pays the    *)
(* right fee, for all amounts, rates, sizes and limits, and however the    *)
(* wallet changes while it is being made.                                  *)
(***************************************************************************)
EXTENDS BRCoinSelection, FiniteSetTheorems, WellFoundedInduction, SequenceTheorems, TLAPS

(* A set of naturals that is not empty has a least member.                 *)
LEMMA LeastNat ==
    ASSUME NEW S \in SUBSET Nat, S # {}
    PROVE  \E n \in S : \A m \in S : n <= m
<1> DEFINE U == {1..n : n \in S}
<1>1. U \subseteq FiniteSubsetsOf(Nat)
    <2>1. \A n \in Nat : 1..n \subseteq Nat /\ IsFiniteSet(1..n)
        BY FS_Interval
    <2>2. QED BY <2>1 DEF FiniteSubsetsOf
<1>2. PICK x \in U : \A y \in U : ~(<<y, x>> \in StrictSubsetOrdering(Nat))
    <2>1. U # {}
        OBVIOUS
    <2>2. IsWellFoundedOn(StrictSubsetOrdering(Nat), FiniteSubsetsOf(Nat))
        BY FS_StrictSubsetOrderingWellFounded
    <2> HIDE DEF U
    <2> QED BY <1>1, <2>1, <2>2, WFMin
<1>3. PICK n \in S : x = 1..n
    OBVIOUS
<1>4. ASSUME NEW m \in S PROVE n <= m
    <2>1. SUFFICES ASSUME m < n PROVE FALSE
        OBVIOUS
    <2>2. 1..m \in U /\ 1..m \subseteq 1..n /\ 1..m # 1..n
        BY <2>1
    <2>3. 1..m \in SUBSET Nat /\ 1..n \in SUBSET Nat
        OBVIOUS
    <2>4. <<1..m, 1..n>> \in StrictSubsetOrdering(Nat)
        BY <2>2, <2>3 DEF StrictSubsetOrdering
    <2>5. QED BY <2>2, <2>4, <1>2, <1>3
<1>5. QED BY <1>4

(* Induction over the naturals, for a set in place of a predicate.         *)
LEMMA NatSetInduction ==
    ASSUME NEW S, 0 \in S, \A n \in Nat : n \in S => n + 1 \in S
    PROVE  Nat \subseteq S
<1>1. SUFFICES ASSUME Nat \ S # {} PROVE FALSE
    OBVIOUS
<1>2. PICK n \in Nat \ S : \A m \in Nat \ S : n <= m
    BY <1>1, LeastNat
<1>3. n - 1 \in Nat /\ n - 1 \in S
    BY <1>2
<1>4. QED BY <1>2, <1>3

-----------------------------------------------------------------------------
(* Sums of amounts *)

Turns(f, s) == f[0] = 0 /\ \A i \in 1..Len(s) : f[i] = f[i - 1] + s[i]

(* The recursion that defines Amount has a solution.                       *)
LEMMA AmountTurns ==
    ASSUME NEW s \in Amounts
    PROVE  \E f : Turns(f, s) /\ Amount(s) = f[Len(s)]
<1> DEFINE Turn(r, i) == IF i = 0 THEN 0 ELSE r[i - 1] + s[i]
           upTo[n \in 0..Len(s)] == IF n = 0 THEN 0 ELSE upTo[n - 1] + s[n]
           Defined == {n \in Nat : \E r : r = [i \in 0..n |-> Turn(r, i)]}
<1>1. Len(s) \in Nat
    BY DEF Amounts
<1>2. upTo = [n \in 0..Len(s) |-> Turn(upTo, n)]
    <2>1. 0 \in Defined
        <3>1. [i \in 0..0 |-> 0] = [i \in 0..0 |-> Turn([j \in 0..0 |-> 0], i)]
            OBVIOUS
        <3> HIDE DEF Turn
        <3>2. QED BY <3>1
    <2>2. ASSUME NEW n \in Nat, n \in Defined PROVE n + 1 \in Defined
        <3>1. PICK r : r = [i \in 0..n |-> Turn(r, i)]
            BY <2>2
        <3> DEFINE g == [i \in 0..(n + 1) |-> IF i = n + 1 THEN Turn(r, i) ELSE r[i]]
        <3>2. ASSUME NEW i \in 0..(n + 1) PROVE g[i] = Turn(g, i)
            <4>1. CASE i = 0
                BY <3>1, <4>1
            <4>2. CASE i # 0 /\ i # n + 1
                <5>1. i \in 0..n /\ i - 1 \in 0..n /\ g[i] = r[i] /\ g[i - 1] = r[i - 1]
                    BY <4>2
                <5>2. r[i] = Turn(r, i)
                    BY <3>1, <5>1
                <5>3. QED BY <4>2, <5>1, <5>2
            <4>3. CASE i = n + 1
                <5>1. i # 0 /\ g[i - 1] = r[i - 1] /\ g[i] = Turn(r, i)
                    BY <4>3
                <5>2. QED BY <5>1
            <4>4. QED BY <4>1, <4>2, <4>3
        <3>3. g = [i \in 0..(n + 1) |-> Turn(g, i)]
            BY <3>2
        <3> HIDE DEF g, Turn
        <3>4. QED BY <3>3
    <2>3. Len(s) \in Defined
        <3> HIDE DEF Defined
        <3> QED BY <1>1, <2>1, <2>2, NatSetInduction
    <2>4. QED BY <2>3
<1>3. Amount(s) = upTo[Len(s)]
    BY DEF Amount
<1> HIDE DEF upTo
<1>4. upTo[0] = 0
    BY <1>1, <1>2
<1>5. ASSUME NEW i \in 1..Len(s) PROVE upTo[i] = upTo[i - 1] + s[i]
    <2>1. i \in 0..Len(s) /\ i # 0
        BY <1>1
    <2>2. QED BY <1>2, <2>1
<1>6. QED BY <1>3, <1>4, <1>5 DEF Turns

(* And only one.                                                           *)
LEMMA AmountIsSum ==
    ASSUME NEW s \in Amounts, NEW f, Turns(f, s)
    PROVE  Amount(s) = f[Len(s)] /\ \A i \in 0..Len(s) : f[i] \in Nat
<1>1. PICK g : Turns(g, s) /\ Amount(s) = g[Len(s)]
    BY AmountTurns
<1> DEFINE Same == {n \in Nat : n <= Len(s) => f[n] = g[n] /\ f[n] \in Nat}
<1>2. Len(s) \in Nat /\ \A i \in 1..Len(s) : s[i] \in Nat
    BY DEF Amounts
<1>3. 0 \in Same
    BY <1>1 DEF Turns
<1>4. ASSUME NEW n \in Nat, n \in Same PROVE n + 1 \in Same
    <2>1. CASE n + 1 <= Len(s)
        <3>1. n + 1 \in 1..Len(s) /\ (n + 1) - 1 = n /\ n <= Len(s)
            BY <2>1, <1>2
        <3>2. f[n + 1] = f[n] + s[n + 1] /\ g[n + 1] = g[n] + s[n + 1]
            BY <3>1, <1>1 DEF Turns
        <3>3. f[n] = g[n] /\ f[n] \in Nat /\ s[n + 1] \in Nat
            BY <3>1, <1>2, <1>4
        <3>4. QED BY <3>2, <3>3
    <2>2. QED BY <2>1
<1>5. Nat \subseteq Same
    <2> HIDE DEF Same
    <2> QED BY <1>3, <1>4, NatSetInduction
<1>6. QED BY <1>1, <1>2, <1>5

LEMMA AmountNat == ASSUME NEW s \in Amounts PROVE Amount(s) \in Nat
<1>1. PICK f : Turns(f, s) /\ Amount(s) = f[Len(s)]
    BY AmountTurns
<1>2. Len(s) \in 0..Len(s)
    BY DEF Amounts
<1>3. QED BY <1>1, <1>2, AmountIsSum

LEMMA AmountOfNone == <<>> \in Amounts /\ Amount(<<>>) = 0
<1>1. <<>> \in Amounts
    BY DEF Amounts
<1>2. Turns([n \in 0..0 |-> 0], <<>>)
    BY DEF Turns
<1>3. QED BY <1>1, <1>2, AmountIsSum

LEMMA AmountAppend ==
    ASSUME NEW s \in Amounts, NEW a \in Nat
    PROVE  Append(s, a) \in Amounts /\ Amount(Append(s, a)) = Amount(s) + a
<1> DEFINE n == Len(s)
           t == Append(s, a)
<1>1. PICK f : Turns(f, s) /\ Amount(s) = f[n]
    BY AmountTurns
<1> DEFINE g == [i \in 0..(n + 1) |-> IF i = n + 1 THEN f[n] + a ELSE f[i]]
<1>2. /\ t \in Amounts /\ Len(t) = n + 1 /\ n \in Nat /\ t[n + 1] = a
      /\ \A i \in 1..n : t[i] = s[i]
    BY DEF Amounts
<1> HIDE DEF t, n
<1>3. g[0] = 0
    BY <1>1, <1>2 DEF Turns
<1>4. ASSUME NEW i \in 1..(n + 1) PROVE g[i] = g[i - 1] + t[i]
    <2>1. CASE i = n + 1
        <3>1. n \in 0..(n + 1) /\ n # n + 1 /\ i \in 0..(n + 1) /\ i - 1 = n
            BY <1>2, <2>1
        <3>2. QED BY <2>1, <3>1, <1>2
    <2>2. CASE i # n + 1
        <3>1. i \in 1..n /\ i \in 0..(n + 1) /\ i - 1 \in 0..(n + 1) /\ i - 1 # n + 1
            BY <1>2, <2>2
        <3>2. g[i] = f[i] /\ g[i - 1] = f[i - 1]
            BY <3>1, <2>2
        <3>3. f[i] = f[i - 1] + s[i] /\ t[i] = s[i]
            BY <3>1, <1>1, <1>2 DEF Turns, n
        <3>4. QED BY <3>2, <3>3
    <2>3. QED BY <2>1, <2>2
<1>5. Turns(g, t)
    BY <1>2, <1>3, <1>4 DEF Turns
<1>6. Amount(t) = g[n + 1]
    BY <1>2, <1>5, AmountIsSum
<1>7. QED BY <1>1, <1>2, <1>6 DEF t

Rest(s, i) == SubSeq(s, 1, i - 1) \o SubSeq(s, i + 1, Len(s))

LEMMA RestProperties ==
    ASSUME NEW s \in Amounts, NEW i \in 1..Len(s)
    PROVE  /\ Rest(s, i) \in Amounts
           /\ Len(Rest(s, i)) = Len(s) - 1
           /\ \A j \in 1..(Len(s) - 1) : Rest(s, i)[j] = IF j < i THEN s[j] ELSE s[j + 1]
<1> DEFINE a == SubSeq(s, 1, i - 1)
           b == SubSeq(s, i + 1, Len(s))
<1>1. s \in Seq(Nat) /\ Len(s) \in Nat /\ \A j \in 1..Len(s) : s[j] \in Nat
    BY DEF Amounts
<1>2. a \in Seq(Nat) /\ Len(a) = i - 1 /\ \A j \in 1..(i - 1) : a[j] = s[j]
    BY <1>1
<1>3. b \in Seq(Nat) /\ Len(b) = Len(s) - i /\ \A j \in 1..(Len(s) - i) : b[j] = s[j + i]
    BY <1>1
<1>4. Rest(s, i) = a \o b
    BY DEF Rest
<1> HIDE DEF a, b
<1>5. /\ a \o b \in Seq(Nat) /\ Len(a \o b) = Len(s) - 1
      /\ \A j \in 1..(Len(s) - 1) : (a \o b)[j] = IF j <= Len(a) THEN a[j] ELSE b[j - Len(a)]
    <2>1. /\ a \o b \in Seq(Nat) /\ Len(a \o b) = Len(a) + Len(b)
          /\ \A j \in 1..(Len(a) + Len(b)) : (a \o b)[j] = IF j <= Len(a) THEN a[j] ELSE b[j - Len(a)]
        BY <1>2, <1>3, ConcatProperties
    <2>2. Len(a) + Len(b) = Len(s) - 1
        BY <1>1, <1>2, <1>3
    <2>3. QED BY <2>1, <2>2
<1>6. ASSUME NEW j \in 1..(Len(s) - 1) PROVE (a \o b)[j] = IF j < i THEN s[j] ELSE s[j + 1]
    <2>1. CASE j < i
        BY <1>1, <1>2, <1>5, <2>1
    <2>2. CASE ~(j < i)
        <3>1. j - Len(a) \in 1..(Len(s) - i) /\ (j - Len(a)) + i = j + 1 /\ ~(j <= Len(a))
            BY <1>1, <1>2, <2>2
        <3>2. QED BY <1>3, <1>5, <2>2, <3>1
    <2>3. QED BY <2>1, <2>2
<1>7. QED BY <1>4, <1>5, <1>6 DEF Amounts

LEMMA AmountRest ==
    ASSUME NEW s \in Amounts, NEW i \in 1..Len(s)
    PROVE  Amount(s) = Amount(Rest(s, i)) + s[i]
<1> DEFINE n == Len(s)
           t == Rest(s, i)
<1>1. PICK f : Turns(f, s) /\ Amount(s) = f[n]
    BY AmountTurns
<1>2. n \in Nat /\ (\A j \in 1..n : s[j] \in Nat) /\ \A j \in 0..n : f[j] \in Nat
    BY <1>1, AmountIsSum DEF Amounts
<1> DEFINE g == [j \in 0..(n - 1) |-> IF j < i THEN f[j] ELSE f[j + 1] - s[i]]
<1>3. t \in Amounts /\ Len(t) = n - 1 /\ \A j \in 1..(n - 1) : t[j] = IF j < i THEN s[j] ELSE s[j + 1]
    BY RestProperties
<1>4. g[0] = 0
    BY <1>1, <1>2 DEF Turns
<1>5. \A j \in 1..n : f[j] = f[j - 1] + s[j]
    BY <1>1 DEF Turns
<1>6. i \in 1..n
    OBVIOUS
<1> HIDE DEF t, n
<1>7. ASSUME NEW j \in 1..(n - 1) PROVE g[j] = g[j - 1] + t[j]
    <2>1. /\ j \in 0..(n - 1) /\ j - 1 \in 0..(n - 1)
          /\ j \in 1..n /\ j + 1 \in 1..n /\ (j + 1) - 1 = j /\ (j - 1) + 1 = j
          /\ j \in 0..n /\ j - 1 \in 0..n /\ j + 1 \in 0..n
        BY <1>2
    <2>2. /\ f[j] = f[j - 1] + s[j] /\ f[j + 1] = f[j] + s[j + 1]
          /\ {f[j - 1], f[j], f[j + 1], s[j], s[j + 1], s[i]} \subseteq Nat
        BY <1>2, <1>5, <1>6, <2>1
    <2>3. CASE j < i
        <3>1. g[j] = f[j] /\ g[j - 1] = f[j - 1] /\ t[j] = s[j]
            BY <1>2, <1>3, <1>6, <2>1, <2>3
        <3>2. QED BY <2>2, <3>1
    <2>4. CASE j = i
        <3>1. g[j] = f[j + 1] - s[i] /\ g[j - 1] = f[j - 1] /\ t[j] = s[j + 1]
            BY <1>2, <1>3, <1>6, <2>1, <2>4
        <3>2. QED BY <2>2, <2>4, <3>1
    <2>5. CASE j > i
        <3>1. g[j] = f[j + 1] - s[i] /\ g[j - 1] = f[j] - s[i] /\ t[j] = s[j + 1]
            BY <1>2, <1>3, <1>6, <2>1, <2>5
        <3>2. QED BY <2>2, <3>1
    <2>6. QED BY <2>1, <2>3, <2>4, <2>5, <1>6, <1>2
<1>8. Turns(g, t)
    BY <1>3, <1>4, <1>7 DEF Turns
<1>9. Amount(t) = g[n - 1]
    BY <1>3, <1>8, AmountIsSum
<1>10. g[n - 1] = f[n] - s[i]
    <2>1. n - 1 \in 0..(n - 1) /\ n \in 1..n /\ (n - 1) + 1 = n
        BY <1>2, <1>6
    <2>2. f[n] = f[n - 1] + s[n] /\ {f[n - 1], f[n], s[n], s[i]} \subseteq Nat
        BY <1>2, <1>5, <1>6, <2>1
    <2>3. CASE n - 1 < i
        <3>1. i = n
            BY <1>2, <1>6, <2>3
        <3>2. g[n - 1] = f[n - 1]
            BY <2>1, <2>3
        <3>3. QED BY <2>2, <3>1, <3>2
    <2>4. CASE ~(n - 1 < i)
        BY <2>1, <2>4
    <2>5. QED BY <2>3, <2>4
<1>11. f[n] \in Nat /\ s[i] \in Nat
    BY <1>2, <1>6
<1>12. QED BY <1>1, <1>9, <1>10, <1>11 DEF t

-----------------------------------------------------------------------------
(* Fees *)

LEMMA ConstantsAreNat ==
    /\ {TX_FEE_PER_KB, TX_OUTPUT_SIZE, TX_INPUT_SIZE, TX_MAX_SIZE, OpsFee} \subseteq Nat \ {0}
    /\ TX_MIN_OUTPUT_AMOUNT \in Nat /\ MIN_FEE_PER_KB \in Nat /\ MIN_FEE_PER_KB > 0
<1>1. {TX_FEE_PER_KB, TX_OUTPUT_SIZE, TX_INPUT_SIZE, TX_MAX_SIZE, OpsFee} \subseteq Nat \ {0}
    BY SelectionAssumption
<1>2. TX_MIN_OUTPUT_AMOUNT \in Nat
    <2>1. TX_FEE_PER_KB * 3 * (TX_OUTPUT_SIZE + TX_INPUT_SIZE) \in Nat
        BY <1>1
    <2>2. QED BY <2>1 DEF TX_MIN_OUTPUT_AMOUNT
<1>3. MIN_FEE_PER_KB \in Nat /\ MIN_FEE_PER_KB > 0
    BY <1>1 DEF MIN_FEE_PER_KB
<1>4. QED BY <1>1, <1>2, <1>3

LEMMA SizeProperties ==
    ASSUME NEW n \in Nat, NEW m \in Nat
    PROVE  /\ Size(n, m) \in Nat /\ Size(n, m) > 0
           /\ Size(n, m) + TX_OUTPUT_SIZE \in Nat /\ Size(n, m) + TX_OUTPUT_SIZE > 0
           /\ m <= 2 => Size(n, m + 1) = Size(n, m) + TX_OUTPUT_SIZE
<1>1. TX_OUTPUT_SIZE \in Nat /\ TX_INPUT_SIZE \in Nat
    BY ConstantsAreNat
<1>2. n * TX_INPUT_SIZE \in Nat /\ m * TX_OUTPUT_SIZE \in Nat
    BY <1>1
<1>3. BRVarIntSize(n) \in Nat /\ BRVarIntSize(m) \in Nat
    BY DEF BRVarIntSize
<1>4. Size(n, m) \in Nat /\ Size(n, m) > 0
    BY <1>2, <1>3 DEF Size
<1>5. ASSUME m <= 2 PROVE Size(n, m + 1) = Size(n, m) + TX_OUTPUT_SIZE
    <2>1. BRVarIntSize(m + 1) = 1 /\ BRVarIntSize(m) = 1
        BY <1>5 DEF BRVarIntSize
    <2>2. (m + 1) * TX_OUTPUT_SIZE = m * TX_OUTPUT_SIZE + TX_OUTPUT_SIZE
        BY <1>1
    <2>3. QED BY <1>1, <1>2, <1>3, <2>1, <2>2 DEF Size
<1>6. QED BY <1>1, <1>4, <1>5

(* A fee grows with the size, and is never zero.                           *)
LEMMA TxFeeProperties ==
    ASSUME NEW r \in Nat, NEW a \in Nat, a > 0
    PROVE  /\ TxFee(r, a) \in Nat /\ TxFee(r, a) > 0
           /\ \A b \in Nat : a <= b => TxFee(r, a) <= TxFee(r, b)
<1>1. TX_FEE_PER_KB \in Nat /\ TX_FEE_PER_KB > 0
    BY ConstantsAreNat
<1>2. ASSUME NEW b \in Nat, a <= b
      PROVE  {FeeByRate(r, a), FeeByRate(r, b)} \subseteq Nat /\ FeeByRate(r, a) <= FeeByRate(r, b)
    <2>1. a * r \in Nat /\ b * r \in Nat /\ a * r <= b * r
        <3>1. b - a \in Nat /\ (b - a) * r \in Nat
            BY <1>2
        <3>2. b * r = a * r + (b - a) * r
            OBVIOUS
        <3>3. a * r \in Nat
            OBVIOUS
        <3>4. QED BY <3>1, <3>2, <3>3
    <2> DEFINE x == a * r
               y == b * r
    <2>2. x \in Nat /\ y \in Nat /\ x <= y
        BY <2>1
    <2>3. FeeByRate(r, a) = ((x \div 1000 + 99) \div 100) * 100
          /\ FeeByRate(r, b) = ((y \div 1000 + 99) \div 100) * 100
        BY DEF FeeByRate
    <2> HIDE DEF x, y
    <2>4. QED BY <2>2, <2>3
<1>3. ASSUME NEW b \in Nat, a <= b
      PROVE  /\ {StandardFee(a), StandardFee(b)} \subseteq Nat
             /\ StandardFee(a) > 0 /\ StandardFee(a) <= StandardFee(b)
    <2> DEFINE x == (a + 999) \div 1000
               y == (b + 999) \div 1000
    <2>1. x \in Nat /\ y \in Nat /\ x > 0 /\ x <= y
        BY <1>3
    <2>2. StandardFee(a) = x * TX_FEE_PER_KB /\ StandardFee(b) = y * TX_FEE_PER_KB
        BY DEF StandardFee
    <2> HIDE DEF x, y
    <2>3. y * TX_FEE_PER_KB = x * TX_FEE_PER_KB + (y - x) * TX_FEE_PER_KB
        BY <1>1, <2>1
    <2>4. (y - x) * TX_FEE_PER_KB \in Nat
        BY <1>1, <2>1
    <2>5. x * TX_FEE_PER_KB \in Nat /\ x * TX_FEE_PER_KB > 0
        <3>1. x * TX_FEE_PER_KB = (x - 1) * TX_FEE_PER_KB + TX_FEE_PER_KB
            BY <1>1, <2>1
        <3>2. (x - 1) * TX_FEE_PER_KB \in Nat
            BY <1>1, <2>1
        <3>3. QED BY <1>1, <3>1, <3>2
    <2>6. QED BY <2>2, <2>3, <2>4, <2>5
<1>4. TxFee(r, a) \in Nat /\ TxFee(r, a) > 0
    <2>1. a <= a
        OBVIOUS
    <2>2. FeeByRate(r, a) \in Nat /\ StandardFee(a) \in Nat /\ StandardFee(a) > 0
        BY <1>2, <1>3, <2>1
    <2>3. QED BY <2>2 DEF TxFee, Higher
<1>5. ASSUME NEW b \in Nat, a <= b PROVE TxFee(r, a) <= TxFee(r, b)
    <2>1. /\ {FeeByRate(r, a), FeeByRate(r, b), StandardFee(a), StandardFee(b)} \subseteq Nat
          /\ FeeByRate(r, a) <= FeeByRate(r, b) /\ StandardFee(a) <= StandardFee(b)
        BY <1>2, <1>3, <1>5
    <2>2. QED BY <2>1 DEF TxFee, Higher
<1>6. QED BY <1>4, <1>5

LEMMA MinOutputAmountNat == ASSUME NEW r \in Nat PROVE MinOutputAmount(r) \in Nat
<1> DEFINE x == TX_MIN_OUTPUT_AMOUNT * r + MIN_FEE_PER_KB - 1
<1>1. TX_MIN_OUTPUT_AMOUNT \in Nat /\ TX_MIN_OUTPUT_AMOUNT * r \in Nat
    BY ConstantsAreNat
<1>2. MIN_FEE_PER_KB \in Nat /\ MIN_FEE_PER_KB > 0 /\ x \in Nat
    BY <1>1, ConstantsAreNat
<1>3. MinOutputAmount(r) = Higher(x \div MIN_FEE_PER_KB, TX_MIN_OUTPUT_AMOUNT)
    BY DEF MinOutputAmount
<1> HIDE DEF x
<1>4. x \div MIN_FEE_PER_KB \in Nat
    BY <1>2
<1>5. QED BY <1>1, <1>3, <1>4 DEF Higher

LEMMA RoundOffBounded == ASSUME NEW rest \in Int PROVE RoundOff(rest) \in 0..99
    BY DEF RoundOff

-----------------------------------------------------------------------------
(* The inductive invariant: the fee is right for the coins taken so far at *)
(* every turn of the loop, and the coins taken fit.                        *)

SizeNow == Size(Len(inputs), Len(outputs)) + TX_OUTPUT_SIZE

FeeOfNow ==
    at \in {"taking", "chosen"} =>
        /\ TxFee(rate, SizeNow) <= feeAmount /\ feeAmount <= TxFee(rate, SizeNow) + 99
        /\ inputs = <<>> \/ SizeNow <= TX_MAX_SIZE

RateRead == at = "taking" => rate = feePerKb

NothingTaken == at \in {"called", "locking"} => inputs = <<>>

OneOrTwo == at \notin {"idle", "aborted"} => Len(outputs) \in 1..2

(* The coins are taken in order, and the fee of now is theirs, rounded.     *)
TakenInOrder ==
    at = "taking" =>
        LET fee == FeeWith(Len(inputs)) IN
        /\ Len(inputs) <= Len(utxos)
        /\ \A i \in 1..Len(inputs) : inputs[i] = utxos[i]
        /\ feeAmount \in {fee, fee + RoundOff(balance - (Amount(outputs) + fee))}

CoinInv ==
    TypeOK /\ FeeOfNow /\ RateRead /\ NothingTaken /\ OneOrTwo /\ TakenInOrder /\ FeeIsRight

LEMMA CoinInit == Init => CoinInv
<1> SUFFICES ASSUME Init PROVE CoinInv
    OBVIOUS
<1> USE DEF Init
<1>1. TypeOK
    <2>1. feePerKb \in Nat
        BY SelectionAssumption
    <2>2. <<>> \in Seq(Transactions) /\ Len(<<>>) = 0
        OBVIOUS
    <2>3. QED BY <2>1, <2>2, AmountOfNone DEF TypeOK
<1>2. FeeOfNow /\ RateRead /\ NothingTaken /\ OneOrTwo /\ TakenInOrder /\ FeeIsRight
    BY DEF FeeOfNow, RateRead, NothingTaken, OneOrTwo, TakenInOrder, FeeIsRight
<1>3. QED BY <1>1, <1>2 DEF CoinInv

(* A call starts with amounts, and without a result.                       *)
LEMMA CallsKeep ==
    ASSUME TypeOK, NEW outs \in Amounts, Len(outs) <= 2, Calls(outs),
           UNCHANGED wallet, asked' \in Amounts, changes' \in Nat
    PROVE  CoinInv'
<1>1. TypeOK'
    <2>1. <<>> \in Seq(Transactions) /\ Len(<<>>) = 0
        OBVIOUS
    <2>2. QED BY <2>1, AmountOfNone DEF TypeOK, Calls, Ready, wallet
<1>2. outs # <<>> => Len(outs) \in 1..2
    <2> SUFFICES ASSUME outs # <<>> PROVE Len(outs) \in 1..2
        OBVIOUS
    <2>1. Len(outs) \in Nat \ {0}
        BY EmptySeq DEF Amounts
    <2> DEFINE n == Len(outs)
    <2>2. n \in Nat \ {0} /\ n <= 2
        BY <2>1
    <2> HIDE DEF n
    <2>3. n \in 1..2
        BY <2>2
    <2>4. QED BY <2>3 DEF n
<1>3. QED BY <1>1, <1>2 DEF CoinInv, FeeOfNow, NothingTaken, RateRead, OneOrTwo, TakenInOrder, FeeIsRight, Calls, Ready

LEMMA ReadMinOutputKeeps == ASSUME CoinInv, ReadMinOutput PROVE CoinInv'
<1> USE DEF CoinInv, ReadMinOutput, wallet
<1>1. TypeOK'
    BY MinOutputAmountNat DEF TypeOK
<1>2. (FeeOfNow /\ RateRead /\ NothingTaken /\ OneOrTwo /\ TakenInOrder /\ FeeIsRight)'
    BY DEF FeeOfNow, RateRead, NothingTaken, OneOrTwo, TakenInOrder, FeeIsRight
<1>3. QED BY <1>1, <1>2

LEMMA BeginKeeps == ASSUME CoinInv, Begin PROVE CoinInv'
<1> USE DEF CoinInv, Begin, wallet
<1>0. at = "locking" /\ Len(outputs) \in 1..2 /\ feePerKb \in Nat
    BY DEF OneOrTwo, TypeOK
<1> DEFINE n == Size(0, Len(outputs)) + TX_OUTPUT_SIZE
<1>1. n \in Nat /\ n > 0
    <2>1. 0 \in Nat /\ Len(outputs) \in Nat
        BY <1>0
    <2>2. QED BY <2>1, SizeProperties
<1>2. feeAmount' = TxFee(feePerKb, n) /\ feeAmount' \in Nat
    BY <1>0, <1>1, TxFeeProperties DEF FeeWith
<1>3. TypeOK'
    BY <1>2 DEF TypeOK
<1>4. FeeOfNow'
    <2>1. inputs' = <<>> /\ Len(inputs') = 0 /\ rate' = feePerKb
        BY <1>0 DEF NothingTaken
    <2>2. SizeNow' = n
        BY <2>1 DEF SizeNow
    <2> HIDE DEF n
    <2>3. QED BY <1>2, <2>1, <2>2 DEF FeeOfNow
<1>5. (RateRead /\ NothingTaken /\ OneOrTwo /\ FeeIsRight)'
    BY DEF RateRead, NothingTaken, OneOrTwo, FeeIsRight
<1>6. TakenInOrder'
    <2>1. inputs' = <<>> /\ Len(inputs') = 0 /\ Len(utxos') \in Nat
        BY <1>0 DEF NothingTaken, TypeOK, Amounts
    <2>2. feeAmount' = FeeWith(0)'
        BY DEF FeeWith
    <2>3. QED BY <2>1, <2>2 DEF TakenInOrder
<1>7. QED BY <1>3, <1>4, <1>5, <1>6

LEMMA TakeCoinKeeps == ASSUME CoinInv, TakeCoin PROVE CoinInv'
<1> DEFINE n == Len(inputs) + 1
           size == Size(n, Len(outputs)) + TX_OUTPUT_SIZE
           fee == FeeWith(n)
<1> USE DEF CoinInv, wallet
<1>1. /\ at = "taking" /\ Len(inputs) < Len(utxos) /\ ~(size > TX_MAX_SIZE)
      /\ inputs' = Append(inputs, utxos[n]) /\ sum' = sum + utxos[n]
      /\ feeAmount' = fee + RoundOff(balance - (Amount(outputs) + fee))
      /\ at' \in {"taking", "chosen"}
      /\ UNCHANGED <<wallet, outputs, minAmount, rate, tx, asked, changes>>
    BY DEF TakeCoin, Another, TooLarge
<1>2. /\ inputs \in Amounts /\ utxos \in Amounts /\ n \in 1..Len(utxos) /\ utxos[n] \in Nat
      /\ Len(outputs) \in 1..2 /\ feePerKb \in Nat /\ rate = feePerKb /\ balance \in Nat
      /\ Amount(outputs) \in Nat
    BY <1>1, AmountNat DEF TypeOK, OneOrTwo, RateRead, Amounts
<1>3. Append(inputs, utxos[n]) \in Amounts /\ Amount(Append(inputs, utxos[n])) = Amount(inputs) + utxos[n]
    BY <1>2, AmountAppend
<1>4. size \in Nat /\ size > 0 /\ fee = TxFee(feePerKb, size)
    <2>1. n \in Nat /\ Len(outputs) \in Nat
        BY <1>2 DEF Amounts
    <2>2. QED BY <1>2, <2>1, SizeProperties DEF FeeWith
<1>5. fee \in Nat
    BY <1>2, <1>4, TxFeeProperties
<1>6. Len(inputs') = n /\ SizeNow' = size
    BY <1>1, <1>2 DEF SizeNow, Amounts
<1>7. feeAmount' \in Nat /\ fee <= feeAmount' /\ feeAmount' <= fee + 99
    <2>1. balance - (Amount(outputs) + fee) \in Int
        BY <1>2, <1>5
    <2>2. RoundOff(balance - (Amount(outputs) + fee)) \in 0..99
        BY <2>1, RoundOffBounded
    <2>3. PICK k \in 0..99 : feeAmount' = fee + k
        BY <1>1, <2>2
    <2> HIDE DEF fee
    <2>4. QED BY <1>5, <2>3
<1>8. TX_MAX_SIZE \in Nat
    BY ConstantsAreNat
<1> HIDE DEF n, size, fee
<1>9. TypeOK'
    BY <1>1, <1>2, <1>3, <1>7 DEF TypeOK
<1>10. FeeOfNow'
    BY <1>1, <1>2, <1>4, <1>6, <1>7, <1>8 DEF FeeOfNow
<1>11. (RateRead /\ NothingTaken /\ OneOrTwo /\ FeeIsRight)'
    BY <1>1, <1>2 DEF RateRead, NothingTaken, OneOrTwo, FeeIsRight
<1>12. TakenInOrder'
    <2>1. \A i \in 1..n : Append(inputs, utxos[n])[i] = utxos[i]
        <3>1. \A i \in 1..Len(inputs) : inputs[i] = utxos[i]
            BY <1>1 DEF TakenInOrder
        <3>2. inputs \in Seq(Nat) /\ n = Len(inputs) + 1 /\ utxos[n] \in Nat
            BY <1>2 DEF Amounts, n
        <3> DEFINE coin == utxos[n]
        <3> HIDE DEF n
        <3>3. /\ Append(inputs, coin)[n] = coin
              /\ \A i \in 1..Len(inputs) : Append(inputs, coin)[i] = inputs[i]
            BY <3>2
        <3>4. \A i \in 1..n : i \in 1..Len(inputs) \/ i = n
            BY <3>2
        <3>5. QED BY <3>1, <3>3, <3>4
    <2>2. n <= Len(utxos)
        <3>1. Len(utxos) \in Nat
            BY <1>2 DEF Amounts
        <3>2. QED BY <1>2, <3>1
    <2>3. FeeWith(Len(inputs))' = fee
        BY <1>1, <1>6 DEF FeeWith, fee
    <2>4. /\ Len(inputs') <= Len(utxos')
          /\ \A i \in 1..Len(inputs') : inputs'[i] = utxos'[i]
        BY <1>1, <1>6, <2>1, <2>2
    <2>5. feeAmount' = fee + RoundOff(balance' - (Amount(outputs') + fee))
        BY <1>1
    <2>6. QED BY <2>3, <2>4, <2>5 DEF TakenInOrder
<1>13. QED BY <1>9, <1>10, <1>11, <1>12

LEMMA RefuseKeeps == ASSUME CoinInv, Refuse PROVE CoinInv'
<1> USE DEF CoinInv, wallet, locals
<1>1. /\ at = "taking" /\ at' = "returned" /\ tx' = <<>>
      /\ UNCHANGED <<wallet, outputs, locals, asked, changes>>
    BY DEF Refuse, TakenAll, Another
<1>2. TypeOK'
    <2>1. <<>> \in Seq(Transactions) /\ Len(<<>>) = 0
        OBVIOUS
    <2>2. QED BY <1>1, <2>1 DEF TypeOK
<1>3. QED BY <1>1, <1>2 DEF FeeOfNow, RateRead, NothingTaken, OneOrTwo, TakenInOrder, FeeIsRight

LEMMA ShrinkKeeps == ASSUME CoinInv, Shrink PROVE CoinInv'
<1> DEFINE n == Len(outputs)
           short == Amount(outputs) + feeAmount - sum
           reduced == [outputs EXCEPT ![n] = @ - short]
           rest == SubSeq(outputs, 1, n - 1)
<1>1. /\ at = "taking" /\ UNCHANGED <<wallet, asked, changes>>
      /\ Calls(IF outputs[n] > short + minAmount THEN reduced ELSE rest)
    BY DEF Shrink, Another
<1>2. /\ outputs \in Seq(Nat) /\ n \in 1..2 /\ minAmount \in Nat
      /\ asked \in Amounts /\ changes \in Nat
    BY <1>1 DEF CoinInv, TypeOK, OneOrTwo, Amounts
<1>3. short \in Int
    BY <1>2, AmountNat DEF CoinInv, TypeOK, Amounts
<1> HIDE DEF short
<1>4. ASSUME outputs[n] > short + minAmount PROVE reduced \in Amounts /\ Len(reduced) = n
    <2>1. outputs[n] \in Nat
        BY <1>2
    <2>2. outputs[n] - short \in Nat
        BY <1>2, <1>3, <1>4, <2>1
    <2>3. QED BY <1>2, <2>2 DEF Amounts
<1>5. rest \in Amounts /\ Len(rest) = n - 1
    <2>1. n - 1 \in Int /\ 1 \in Int /\ \A i \in 1..(n - 1) : outputs[i] \in Nat
        BY <1>2
    <2> HIDE DEF n
    <2>2. rest \in Seq(Nat) /\ Len(rest) = IF 1 <= n - 1 THEN (n - 1) - 1 + 1 ELSE 0
        BY <2>1, SubSeqProperties
    <2> HIDE DEF rest
    <2>3. QED BY <1>2, <2>2 DEF Amounts
<1> HIDE DEF n, reduced, rest
<1>6. PICK outs \in Amounts : Calls(outs) /\ Len(outs) <= 2
    BY <1>1, <1>2, <1>4, <1>5
<1>7. asked' \in Amounts /\ changes' \in Nat /\ UNCHANGED wallet
    BY <1>1, <1>2 DEF wallet
<1>8. QED BY <1>6, <1>7, CallsKeep DEF CoinInv

LEMMA ReturnKeeps == ASSUME CoinInv, Return PROVE CoinInv'
<1> DEFINE left == sum - (Amount(outputs) + feeAmount)
           change == IF left > minAmount THEN left ELSE 0
           t == [inputs |-> inputs, outputs |-> outputs, change |-> change]
           n == Len(inputs)
           m == Len(outputs)
           size == Size(n, m) + TX_OUTPUT_SIZE
<1>1. /\ at \in {"taking", "chosen"} /\ left >= 0
      /\ tx' = <<t>> /\ at' = "returned"
      /\ UNCHANGED <<wallet, outputs, locals, asked, changes>>
    BY DEF Return, TakenAll
<1>2. /\ inputs \in Amounts /\ outputs \in Amounts /\ n \in Nat /\ m \in 1..2
      /\ minAmount \in Nat /\ feeAmount \in Nat /\ rate \in Nat
      /\ sum = Amount(inputs) /\ sum \in Nat /\ Amount(outputs) \in Nat
    BY <1>1, AmountNat DEF CoinInv, TypeOK, OneOrTwo, Amounts
<1>3. /\ TxFee(rate, size) <= feeAmount /\ feeAmount <= TxFee(rate, size) + 99
      /\ inputs = <<>> \/ size <= TX_MAX_SIZE
    BY <1>1 DEF CoinInv, FeeOfNow, SizeNow
<1>4. /\ size \in Nat /\ size > 0 /\ Size(n, m) \in Nat /\ Size(n, m) > 0
      /\ Size(n, m + 1) = size /\ Size(n, m) <= size
    <2>1. /\ size \in Nat /\ size > 0 /\ Size(n, m) \in Nat /\ Size(n, m) > 0 /\ Size(n, m + 1) = size
        <3> HIDE DEF n, m
        <3>1. n \in Nat /\ m \in Nat /\ m <= 2
            BY <1>2
        <3>2. QED BY <3>1, SizeProperties
    <2>2. TX_OUTPUT_SIZE \in Nat
        BY ConstantsAreNat
    <2>3. QED BY <2>1, <2>2
<1> HIDE DEF size
<1>5. /\ TxFee(rate, size) \in Nat /\ TxFee(rate, size) > 0
      /\ TxFee(rate, Size(n, m)) \in Nat /\ TxFee(rate, Size(n, m)) <= TxFee(rate, size)
    <2>1. TxFee(rate, size) \in Nat /\ TxFee(rate, size) > 0
        BY <1>2, <1>4, TxFeeProperties
    <2>2. TxFee(rate, Size(n, m)) \in Nat /\ TxFee(rate, Size(n, m)) <= TxFee(rate, size)
        BY <1>2, <1>4, TxFeeProperties
    <2>3. QED BY <2>1, <2>2
<1>6. size <= TX_MAX_SIZE
    <2>1. ASSUME inputs = <<>> PROVE FALSE
        <3>1. sum = 0
            BY <1>2, <2>1, AmountOfNone
        <3>2. QED BY <1>1, <1>2, <1>3, <1>5, <3>1
    <2>2. QED BY <1>3, <2>1
<1>7. /\ left \in Nat /\ change \in Nat /\ (change > 0 <=> left > minAmount)
      /\ sum - Amount(outputs) - change = feeAmount + (left - change)
    BY <1>1, <1>2
<1>8. TypeOK'
    <2>1. t \in Transactions
        BY <1>2, <1>7 DEF Transactions
    <2>2. <<t>> \in Seq(Transactions) /\ Len(<<t>>) = 1
        BY <2>1
    <2> HIDE DEF t, left, change
    <2>3. QED BY <1>1, <2>2 DEF CoinInv, TypeOK, wallet, locals
<1>9. FeeIsRight'
    <2>1. tx'[1] = t /\ t.inputs = inputs /\ t.outputs = outputs /\ t.change = change
        BY <1>1
    <2>2. FeeForTx(t) = feeAmount + (left - change)
        BY <1>2, <1>7, <2>1 DEF FeeForTx
    <2>3. SizeOf(t) = IF change > 0 THEN size ELSE Size(n, m)
        <3>1. CASE change > 0
            BY <1>4, <2>1, <3>1 DEF SizeOf
        <3>2. CASE ~(change > 0)
            <4>1. m + 0 = m
                BY <1>2
            <4>2. QED BY <2>1, <3>2, <4>1 DEF SizeOf
        <3>3. QED BY <3>1, <3>2
    <2>4. rate' = rate /\ minAmount' = minAmount
        BY <1>1 DEF locals
    <2> HIDE DEF t
    <2>5. CASE left > minAmount
        <3>1. change > 0 /\ left - change = 0
            BY <1>7, <2>5
        <3> HIDE DEF left, change
        <3>2. SizeOf(t) = size /\ FeeForTx(t) = feeAmount
            BY <1>2, <2>2, <2>3, <3>1
        <3>3. Size(Len(t.inputs), Len(t.outputs) + 1) = size
            BY <1>4, <2>1
        <3>4. QED BY <1>2, <1>3, <1>5, <1>6, <2>1, <2>4, <3>1, <3>2, <3>3 DEF FeeIsRight
    <2>6. CASE ~(left > minAmount)
        <3>1. change = 0
            BY <2>6
        <3>2. left - change \in 0..minAmount
            <4> HIDE DEF left, change, n, m
            <4>1. left \in Nat
                BY <1>7
            <4>2. minAmount \in Nat
                BY <1>2
            <4>3. QED BY <2>6, <3>1, <4>1, <4>2
        <3> HIDE DEF left, change
        <3>3. PICK k \in 0..minAmount : SizeOf(t) = Size(n, m) /\ FeeForTx(t) = feeAmount + k
            BY <2>2, <2>3, <3>1, <3>2
        <3>4. Size(Len(t.inputs), Len(t.outputs) + 1) = size /\ t.change = 0
            BY <1>4, <2>1, <3>1
        <3>5. Size(n, m) <= TX_MAX_SIZE
            BY <1>4, <1>6, ConstantsAreNat
        <3>6. TxFee(rate, Size(n, m)) <= feeAmount + k /\ feeAmount + k <= TxFee(rate, size) + 99 + minAmount
            BY <1>2, <1>3, <1>5
        <3>7. QED BY <2>1, <2>4, <3>3, <3>4, <3>5, <3>6 DEF FeeIsRight
    <2>7. QED BY <2>5, <2>6
<1>10. (FeeOfNow /\ RateRead /\ NothingTaken /\ OneOrTwo /\ TakenInOrder)'
    BY <1>1, <1>2 DEF FeeOfNow, RateRead, NothingTaken, OneOrTwo, TakenInOrder
<1>11. QED BY <1>8, <1>9, <1>10 DEF CoinInv

-----------------------------------------------------------------------------
(* The app and the other threads                                           *)

LEMMA OneOrTwoAmounts ==
    ASSUME NEW a \in Nat, NEW b \in Nat
    PROVE  /\ <<a>> \in Amounts /\ Len(<<a>>) = 1
           /\ <<a, b>> \in Amounts /\ Len(<<a, b>>) = 2
<1>1. <<a>> \in Seq(Nat) /\ Len(<<a>>) = 1
    OBVIOUS
<1>2. <<a, b>> \in Seq(Nat) /\ Len(<<a, b>>) = 2
    OBVIOUS
<1>3. QED BY <1>1, <1>2 DEF Amounts

LEMMA AppAsksKeeps == ASSUME CoinInv, AppAsks PROVE CoinInv'
<1>1. TypeOK /\ OpsFee \in Nat
    BY ConstantsAreNat DEF CoinInv
<1>2. MaxOutputAmount \in Nat
    <2> DEFINE fee == TxFee(feePerKb, Size(Len(utxos), 2))
    <2>1. Len(utxos) \in Nat /\ feePerKb \in Nat /\ Amount(utxos) \in Nat
        BY <1>1, AmountNat DEF TypeOK, Amounts
    <2>2. Size(Len(utxos), 2) \in Nat /\ Size(Len(utxos), 2) > 0
        BY <2>1, SizeProperties
    <2>3. fee \in Nat
        BY <2>1, <2>2, TxFeeProperties
    <2>4. MaxOutputAmount = IF Amount(utxos) > fee THEN Amount(utxos) - fee ELSE 0
        BY DEF MaxOutputAmount
    <2> HIDE DEF fee
    <2>5. QED BY <2>1, <2>3, <2>4
<1>3. PICK amount \in Wanted \cup {MaxOutputAmount} :
        Send(amount) \/ SendWithOpsOutput(amount) \/ FeeForTxAmount(amount)
    BY DEF AppAsks
<1>4. amount \in Nat
    BY <1>2, SelectionAssumption
<1>5. \E outs \in Amounts : Len(outs) <= 2 /\ Asks(outs)
    <2>1. CASE Send(amount)
        <3>1. <<amount>> \in Amounts /\ Len(<<amount>>) = 1
            BY <1>4, OneOrTwoAmounts
        <3>2. QED BY <2>1, <3>1 DEF Send
    <2>2. CASE SendWithOpsOutput(amount)
        <3>1. <<OpsFee, amount>> \in Amounts /\ Len(<<OpsFee, amount>>) = 2
            BY <1>1, <1>4, OneOrTwoAmounts
        <3>2. Asks(<<OpsFee, amount>>)
            BY <2>2 DEF SendWithOpsOutput
        <3> DEFINE both == <<OpsFee, amount>>
        <3>3. both \in Amounts /\ Len(both) <= 2 /\ Asks(both)
            BY <3>1, <3>2
        <3> HIDE DEF both
        <3>4. QED BY <3>3
    <2>3. CASE FeeForTxAmount(amount)
        <3> DEFINE a == IF amount < MaxOutputAmount THEN amount ELSE MaxOutputAmount
        <3>1. a \in Nat
            BY <1>2, <1>4
        <3>2. Asks(<<a>>)
            BY <2>3 DEF FeeForTxAmount
        <3> HIDE DEF a
        <3>3. <<a>> \in Amounts /\ Len(<<a>>) = 1
            BY <3>1, OneOrTwoAmounts
        <3>4. QED BY <3>2, <3>3
    <2>4. QED BY <1>3, <2>1, <2>2, <2>3
<1>6. QED BY <1>1, <1>5, CallsKeep DEF Asks

LEMMA AppTakesKeeps == ASSUME CoinInv, AppTakes PROVE CoinInv'
<1>1. /\ at' = "idle" /\ outputs' = <<>> /\ asked' = <<>> /\ changes' = 0
      /\ Ready /\ UNCHANGED wallet
    BY DEF AppTakes
<1>2. TypeOK'
    <2>1. <<>> \in Seq(Transactions) /\ Len(<<>>) = 0
        OBVIOUS
    <2>2. QED BY <1>1, <2>1, AmountOfNone DEF CoinInv, TypeOK, Ready, wallet
<1>3. QED BY <1>1, <1>2 DEF CoinInv, FeeOfNow, RateRead, NothingTaken, OneOrTwo, TakenInOrder, FeeIsRight

(* The wallet changes only while no coin is being taken.                   *)
LEMMA ChangesKeep ==
    ASSUME CoinInv, Changes, utxos' \in Amounts, balance' = Amount(utxos'), feePerKb' \in Nat
    PROVE  CoinInv'
<1>1. /\ at \in {"idle", "called", "locking"} /\ changes' \in Nat
      /\ UNCHANGED <<at, outputs, locals, tx, asked>>
    BY DEF Changes, CoinInv, TypeOK
<1>2. balance' \in Nat
    BY AmountNat
<1>3. TypeOK'
    BY <1>1, <1>2 DEF CoinInv, TypeOK, locals
<1>4. QED BY <1>1, <1>3 DEF CoinInv, FeeOfNow, RateRead, NothingTaken, OneOrTwo, TakenInOrder, FeeIsRight, locals

LEMMA WalletChangesKeep ==
    ASSUME CoinInv,
           \/ \E coin \in Coin : Receive(coin)
           \/ \E i \in DOMAIN utxos : Lose(i)
           \/ \E r \in Rate : SetFeePerKb(r)
    PROVE  CoinInv'
<1>1. utxos \in Amounts /\ balance = Amount(utxos) /\ feePerKb \in Nat
    BY DEF CoinInv, TypeOK
<1>2. ASSUME NEW coin \in Coin, Receive(coin) PROVE CoinInv'
    <2>1. coin \in Nat
        BY SelectionAssumption
    <2>2. utxos' \in Amounts /\ balance' = Amount(utxos') /\ feePerKb' = feePerKb /\ Changes
        BY <1>1, <1>2, <2>1, AmountAppend DEF Receive
    <2>3. QED BY <1>1, <2>2, ChangesKeep
<1>3. ASSUME NEW i \in DOMAIN utxos, Lose(i) PROVE CoinInv'
    <2>1. i \in 1..Len(utxos) /\ utxos[i] \in Nat
        BY <1>1 DEF Amounts
    <2>2. utxos' = Rest(utxos, i) /\ balance' = balance - utxos[i] /\ feePerKb' = feePerKb /\ Changes
        BY <1>3 DEF Lose, Rest
    <2>3. Rest(utxos, i) \in Amounts /\ Amount(utxos) = Amount(Rest(utxos, i)) + utxos[i]
        BY <1>1, <2>1, RestProperties, AmountRest
    <2>4. Amount(Rest(utxos, i)) \in Nat
        BY <2>3, AmountNat
    <2>5. balance' = Amount(utxos')
        BY <1>1, <2>1, <2>2, <2>3, <2>4
    <2>6. QED BY <1>1, <2>2, <2>3, <2>5, ChangesKeep
<1>4. ASSUME NEW r \in Rate, SetFeePerKb(r) PROVE CoinInv'
    <2>1. r \in Nat
        BY SelectionAssumption
    <2>2. feePerKb' \in Nat /\ utxos' = utxos /\ balance' = balance /\ Changes
        BY <1>4, <2>1 DEF SetFeePerKb
    <2>3. QED BY <1>1, <2>2, ChangesKeep
<1>5. QED BY <1>2, <1>3, <1>4

LEMMA CoinNext == CoinInv /\ [Next]_vars => CoinInv'
<1> SUFFICES ASSUME CoinInv, [Next]_vars PROVE CoinInv'
    OBVIOUS
<1>1. CASE Step
    BY <1>1, ReadMinOutputKeeps, BeginKeeps, TakeCoinKeeps, RefuseKeeps, ShrinkKeeps, ReturnKeeps
       DEF Step
<1>2. CASE AppAsks \/ AppTakes
    BY <1>2, AppAsksKeeps, AppTakesKeeps
<1>3. CASE \/ \E coin \in Coin : Receive(coin)
           \/ \E i \in DOMAIN utxos : Lose(i)
           \/ \E r \in Rate : SetFeePerKb(r)
    BY <1>3, WalletChangesKeep
<1>4. CASE UNCHANGED vars
    <2>1. UNCHANGED <<utxos, balance, feePerKb, at, outputs, minAmount, inputs, sum, feeAmount,
                      rate, tx, asked, changes>>
        BY <1>4 DEF vars, wallet, locals
    <2>2. TypeOK'
        BY <2>1 DEF CoinInv, TypeOK
    <2>3. FeeOfNow' /\ RateRead' /\ NothingTaken' /\ OneOrTwo' /\ TakenInOrder'
        BY <2>1 DEF CoinInv, FeeOfNow, SizeNow, RateRead, NothingTaken, OneOrTwo, TakenInOrder, FeeWith
    <2>4. FeeIsRight'
        BY <2>1 DEF CoinInv, FeeIsRight
    <2>5. QED BY <2>2, <2>3, <2>4 DEF CoinInv
<1>5. QED BY <1>1, <1>2, <1>3, <1>4 DEF Next

-----------------------------------------------------------------------------

(* Amounts stay amounts: nothing wraps below zero, neither an output that  *)
(* is reduced nor change nor the wallet's balance                          *)
(* (BRWalletCreateTxForOutputs).                                           *)
THEOREM SelectionTypeCorrect == Spec => []TypeOK
<1>1. CoinInv => TypeOK
    BY DEF CoinInv
<1>2. QED BY CoinInit, CoinNext, <1>1, PTL DEF Spec

(* When all coins are taken their sum is the balance, and the rounding is  *)
(* no more than what is left; when no more may be taken, the balance was   *)
(* compared with a fee that is no larger.                                  *)
LEMMA RefuseIsShort ==
    ASSUME CoinInv, Refuse PROVE balance < Amount(outputs) + FeeWith(Len(utxos))
<1> DEFINE n == Len(utxos)
           fee == FeeWith(n)
<1>1. /\ at = "taking" /\ utxos \in Seq(Nat) /\ inputs \in Seq(Nat) /\ n \in Nat
      /\ Len(outputs) \in 1..2 /\ feePerKb \in Nat /\ balance \in Nat /\ balance = Amount(utxos)
      /\ sum = Amount(inputs) /\ Amount(outputs) \in Nat
    BY AmountNat DEF CoinInv, TypeOK, OneOrTwo, Amounts, Refuse, TakenAll, Another
<1>2. /\ Size(n, Len(outputs)) + TX_OUTPUT_SIZE \in Nat
      /\ Size(n, Len(outputs)) + TX_OUTPUT_SIZE > 0
    <2>1. n \in Nat /\ Len(outputs) \in Nat
        BY <1>1
    <2>2. QED BY <2>1, SizeProperties
<1>3. fee \in Nat
    BY <1>1, <1>2, TxFeeProperties DEF FeeWith
<1>4. CASE TakenAll /\ sum < Amount(outputs) + feeAmount
    <2>1. Len(inputs) = n /\ \A i \in 1..Len(inputs) : inputs[i] = utxos[i]
        BY <1>1, <1>4 DEF TakenAll, CoinInv, TakenInOrder
    <2>2. inputs = utxos
        BY <1>1, <2>1, SeqEqual
    <2>3. sum = balance
        BY <1>1, <2>2
    <2>4. feeAmount \in {fee, fee + RoundOff(balance - (Amount(outputs) + fee))}
        BY <1>1, <2>1 DEF CoinInv, TakenInOrder
    <2> DEFINE rest == balance - (Amount(outputs) + fee)
    <2>5. rest \in Int /\ balance = Amount(outputs) + fee + rest
        BY <1>1, <1>3
    <2> HIDE DEF n, fee, rest
    <2>6. ASSUME rest >= 0 PROVE RoundOff(rest) \in Nat /\ RoundOff(rest) <= rest
        BY <2>5, <2>6 DEF RoundOff
    <2>7. ~(rest >= 0)
        <3> SUFFICES ASSUME rest >= 0 PROVE FALSE
            OBVIOUS
        <3>1. feeAmount \in Nat /\ feeAmount <= fee + rest
            <4>1. CASE feeAmount = fee
                BY <1>3, <2>5, <4>1
            <4>2. CASE feeAmount = fee + RoundOff(rest)
                BY <1>3, <2>5, <2>6, <4>2
            <4>3. QED BY <2>4, <4>1, <4>2 DEF rest
        <3>2. balance < Amount(outputs) + feeAmount
            BY <1>4, <2>3
        <3>3. QED BY <1>1, <1>3, <2>5, <3>1, <3>2
    <2>8. QED BY <1>1, <1>3, <2>5, <2>7 DEF fee, n
<1>5. CASE Another /\ TooLarge /\ ~CanAfford
    <2> DEFINE m == Len(outputs)
               less == 10 + n * TX_INPUT_SIZE + (m + 1) * TX_OUTPUT_SIZE
               size == Size(n, m) + TX_OUTPUT_SIZE
    <2>1. ~(balance >= Amount(outputs) + TxFee(feePerKb, less))
        BY <1>5 DEF CanAfford
    <2>2. less \in Nat /\ less > 0 /\ less <= size
        <3>1. TX_INPUT_SIZE \in Nat /\ TX_OUTPUT_SIZE \in Nat /\ m \in Nat
            BY <1>1, ConstantsAreNat
        <3> HIDE DEF n, m
        <3>2. BRVarIntSize(n) \in Nat /\ BRVarIntSize(n) >= 1
              /\ BRVarIntSize(m) \in Nat /\ BRVarIntSize(m) >= 1
            BY DEF BRVarIntSize
        <3>3. n * TX_INPUT_SIZE \in Nat /\ m * TX_OUTPUT_SIZE \in Nat
            BY <1>1, <3>1
        <3>4. (m + 1) * TX_OUTPUT_SIZE = m * TX_OUTPUT_SIZE + TX_OUTPUT_SIZE
            BY <3>1
        <3>5. QED BY <3>1, <3>2, <3>3, <3>4 DEF Size
    <2>3. fee = TxFee(feePerKb, size)
        BY DEF FeeWith
    <2>4. size \in Nat
        BY <1>2
    <2> HIDE DEF less, size, fee
    <2>5. TxFee(feePerKb, less) \in Nat /\ TxFee(feePerKb, less) <= TxFee(feePerKb, size)
        BY <1>1, <2>2, <2>4, TxFeeProperties
    <2>6. QED BY <1>1, <1>3, <2>1, <2>3, <2>5 DEF fee
<1>6. QED BY <1>4, <1>5 DEF Refuse

(* A payment is refused only if all coins together cannot pay for it with  *)
(* the fee for all of them (BRWalletCreateTxForOutputs).                   *)
THEOREM OnlyTheShortIsRefused == Spec => RefusedOnlyIfShort
<1>1. CoinInv /\ [Next]_vars =>
        [ at # "returned" /\ at' = "returned" /\ tx' = <<>> =>
            balance < Amount(outputs) + FeeWith(Len(utxos)) ]_vars
    <2> SUFFICES ASSUME CoinInv, Next, at # "returned", at' = "returned", tx' = <<>>
                 PROVE  balance < Amount(outputs) + FeeWith(Len(utxos))
        OBVIOUS
    <2>1. ~ReadMinOutput /\ ~Begin /\ ~TakeCoin /\ ~AppTakes
        BY DEF ReadMinOutput, Begin, TakeCoin, AppTakes
    <2>2. ~Shrink
        BY DEF Shrink, Calls
    <2>3. ~Return
        BY DEF Return
    <2>4. ~AppAsks
        BY DEF AppAsks, Send, SendWithOpsOutput, FeeForTxAmount, Asks, Calls
    <2>5. ~ \/ \E coin \in Coin : Receive(coin)
            \/ \E i \in DOMAIN utxos : Lose(i)
            \/ \E r \in Rate : SetFeePerKb(r)
        BY DEF Receive, Lose, SetFeePerKb, Changes
    <2>6. Refuse
        BY <2>1, <2>2, <2>3, <2>4, <2>5 DEF Next, Step
    <2>7. QED BY <2>6, RefuseIsShort
<1>2. QED BY CoinInit, CoinNext, <1>1, PTL DEF Spec, RefusedOnlyIfShort

(* Every payment is within the size limit, pays at least for its size at   *)
(* the rate its coins were taken at, and overpays by less than the         *)
(* rounding and an output that is not worth its fee.                       *)
THEOREM PaymentsPayTheRightFee == Spec => []FeeIsRight
<1>1. CoinInv => FeeIsRight
    BY DEF CoinInv
<1>2. QED BY CoinInit, CoinNext, <1>1, PTL DEF Spec


-----------------------------------------------------------------------------
(* What MaxOutputAmount says can be sent: the call pays it in full.        *)

Sendable ==
    /\ changes = 0 /\ Len(asked) = 1 /\ Amount(asked) \in 1..MaxOutputAmount
    /\ Size(Len(utxos), 2) <= TX_MAX_SIZE

PaidInFull ==
    Sendable /\ at \notin {"idle", "aborted"} =>
        /\ outputs = asked
        /\ at = "returned" => tx # <<>> /\ tx[1].outputs = asked

(* A transaction of coins of the wallet is no larger than that of all.     *)
LEMMA SizeGrows ==
    ASSUME NEW m \in Nat, NEW n \in Nat, n <= m
    PROVE  Size(n, 2) <= Size(m, 2)
<1>1. TX_INPUT_SIZE \in Nat /\ TX_OUTPUT_SIZE \in Nat
    BY ConstantsAreNat
<1>2. n * TX_INPUT_SIZE <= m * TX_INPUT_SIZE
    <2>1. PICK d \in Nat : m = n + d
        <3>1. m - n \in Nat /\ m = n + (m - n)
            OBVIOUS
        <3>2. QED BY <3>1
    <2>2. m * TX_INPUT_SIZE = n * TX_INPUT_SIZE + d * TX_INPUT_SIZE /\ d * TX_INPUT_SIZE \in Nat
          /\ n * TX_INPUT_SIZE \in Nat
        BY <1>1, <2>1
    <2>3. QED BY <2>2
<1>3. BRVarIntSize(n) <= BRVarIntSize(m)
    BY DEF BRVarIntSize
<1>4. BRVarIntSize(n) \in Nat /\ BRVarIntSize(m) \in Nat /\ BRVarIntSize(2) \in Nat
    BY DEF BRVarIntSize
<1>5. n * TX_INPUT_SIZE \in Nat /\ m * TX_INPUT_SIZE \in Nat /\ 2 * TX_OUTPUT_SIZE \in Nat
    BY <1>1
<1>6. QED BY <1>2, <1>3, <1>4, <1>5 DEF Size

LEMMA SendableFits ==
    ASSUME CoinInv, PaidInFull, Sendable, at = "taking"
    PROVE  /\ ~(Another /\ TooLarge)
           /\ balance >= Amount(outputs) + FeeWith(Len(utxos))
<1>1. /\ utxos \in Seq(Nat) /\ inputs \in Seq(Nat) /\ Len(utxos) \in Nat /\ Len(inputs) \in Nat
      /\ feePerKb \in Nat /\ balance = Amount(utxos) /\ balance \in Nat
      /\ outputs = asked /\ Len(outputs) = 1 /\ Amount(outputs) \in Nat
    BY AmountNat DEF CoinInv, TypeOK, Amounts, PaidInFull, Sendable
<1>2. ASSUME NEW n \in Nat
      PROVE  Size(n, 2) \in Nat /\ Size(n, Len(outputs)) + TX_OUTPUT_SIZE = Size(n, 2)
    <2>1. Size(n, 2) = Size(n, 1) + TX_OUTPUT_SIZE
        <3>1. Size(n, 1 + 1) = Size(n, 1) + TX_OUTPUT_SIZE
            BY SizeProperties
        <3>2. QED BY <3>1
    <2>2. QED BY <1>1, <2>1, SizeProperties
<1>3. ASSUME Another, TooLarge PROVE FALSE
    <2>1. Len(inputs) + 1 \in Nat /\ Len(inputs) + 1 <= Len(utxos)
        BY <1>1, <1>3 DEF Another
    <2>2. Size(Len(inputs) + 1, 2) > TX_MAX_SIZE
        BY <1>2, <1>3, <2>1 DEF TooLarge
    <2>3. Size(Len(inputs) + 1, 2) <= Size(Len(utxos), 2)
        BY <1>1, <2>1, SizeGrows
    <2>4. TX_MAX_SIZE \in Nat
        BY ConstantsAreNat
    <2>5. QED BY <1>1, <1>2, <2>1, <2>2, <2>3, <2>4 DEF Sendable
<1>4. balance >= Amount(outputs) + FeeWith(Len(utxos))
    <2> DEFINE fee == TxFee(feePerKb, Size(Len(utxos), 2))
               most == MaxOutputAmount
    <2>1. FeeWith(Len(utxos)) = fee
        BY <1>1, <1>2 DEF FeeWith
    <2>2. most = IF Amount(utxos) > fee THEN Amount(utxos) - fee ELSE 0
        BY DEF MaxOutputAmount
    <2>3. fee \in Nat
        <3>1. Size(Len(utxos), 2) \in Nat /\ Size(Len(utxos), 2) > 0
            BY <1>1, SizeProperties
        <3>2. QED BY <1>1, <3>1, TxFeeProperties
    <2>4. Amount(outputs) \in 1..most
        BY <1>1 DEF Sendable
    <2> HIDE DEF fee, most
    <2>5. QED BY <1>1, <2>1, <2>2, <2>3, <2>4
<1>5. QED BY <1>3, <1>4

LEMMA PaidInFullNext == CoinInv /\ PaidInFull /\ [Next]_vars => PaidInFull'
<1> SUFFICES ASSUME CoinInv, PaidInFull, [Next]_vars PROVE PaidInFull'
    OBVIOUS
<1>1. changes \in Nat
    BY DEF CoinInv, TypeOK
<1>2. ASSUME UNCHANGED <<utxos, feePerKb, asked, changes>> PROVE Sendable' <=> Sendable
    BY <1>2 DEF Sendable, MaxOutputAmount
<1>3. CASE ReadMinOutput \/ Begin
    <2>1. /\ UNCHANGED <<utxos, feePerKb, asked, changes, outputs>>
          /\ at \notin {"idle", "aborted"} /\ at' # "returned"
        BY <1>3 DEF ReadMinOutput, Begin, wallet
    <2>2. QED BY <1>2, <2>1 DEF PaidInFull
<1>4. CASE TakeCoin
    <2>1. UNCHANGED <<utxos, feePerKb, asked, changes, outputs>> /\ at = "taking" /\ at' # "returned"
        BY <1>4 DEF TakeCoin, wallet, Another
    <2>2. QED BY <1>2, <2>1 DEF PaidInFull
<1>5. CASE Refuse \/ Shrink
    <2>1. UNCHANGED <<utxos, feePerKb, asked, changes>> /\ at = "taking"
        BY <1>5 DEF Refuse, Shrink, Calls, wallet, Another, TakenAll
    <2>2. ASSUME Sendable PROVE FALSE
        <3>1. ~Shrink
            BY <2>1, <2>2, SendableFits DEF Shrink
        <3>2. Refuse /\ balance < Amount(outputs) + FeeWith(Len(utxos))
            BY <1>5, <3>1, RefuseIsShort
        <3>3. balance >= Amount(outputs) + FeeWith(Len(utxos))
            BY <2>1, <2>2, SendableFits
        <3>4. balance \in Nat /\ Amount(outputs) + FeeWith(Len(utxos)) \in Int
            <4>1. Len(utxos) \in Nat /\ Len(outputs) \in Nat /\ feePerKb \in Nat /\ balance \in Nat
                  /\ Amount(outputs) \in Nat
                BY AmountNat DEF CoinInv, TypeOK, Amounts
            <4>2. FeeWith(Len(utxos)) \in Nat
                <5>1. /\ Size(Len(utxos), Len(outputs)) + TX_OUTPUT_SIZE \in Nat
                      /\ Size(Len(utxos), Len(outputs)) + TX_OUTPUT_SIZE > 0
                    BY <4>1, SizeProperties
                <5>2. QED BY <4>1, <5>1, TxFeeProperties DEF FeeWith
            <4>3. QED BY <4>1, <4>2
        <3>5. QED BY <3>2, <3>3, <3>4
    <2>3. QED BY <1>2, <2>1, <2>2 DEF PaidInFull
<1>6. CASE Return
    <2>1. /\ UNCHANGED <<utxos, feePerKb, asked, changes, outputs>>
          /\ at \notin {"idle", "aborted"} /\ tx' # <<>> /\ tx'[1].outputs = outputs
        BY <1>6 DEF Return, TakenAll, wallet
    <2>2. QED BY <1>2, <2>1 DEF PaidInFull
<1>7. CASE AppAsks
    <2>1. PICK outs : Asks(outs)
        BY <1>7 DEF AppAsks, Send, SendWithOpsOutput, FeeForTxAmount
    <2>2. outputs' = asked' /\ at' # "returned"
        BY <2>1 DEF Asks, Calls
    <2>3. QED BY <2>2 DEF PaidInFull
<1>8. CASE AppTakes
    BY <1>8 DEF AppTakes, PaidInFull
<1>9. CASE \/ \E coin \in Coin : Receive(coin)
           \/ \E i \in DOMAIN utxos : Lose(i)
           \/ \E r \in Rate : SetFeePerKb(r)
    <2>1. Changes
        BY <1>9 DEF Receive, Lose, SetFeePerKb
    <2>2. at' = "idle" \/ changes' = changes + 1
        BY <2>1 DEF Changes
    <2>3. QED BY <1>1, <2>2 DEF PaidInFull, Sendable
<1>10. CASE UNCHANGED vars
    <2>1. UNCHANGED <<utxos, feePerKb, asked, changes, outputs, at, tx>>
        BY <1>10 DEF vars, wallet
    <2>2. QED BY <1>2, <2>1 DEF PaidInFull
<1>11. QED
    BY <1>3, <1>4, <1>5, <1>6, <1>7, <1>8, <1>9, <1>10 DEF Next, Step

(* What BRWalletMaxOutputAmount says can be sent is sent, in full, if the  *)
(* wallet does not change during the call and all coins fit a transaction. *)
THEOREM TheMaximumCanBeSent == Spec => []MaxIsSendable
<1>1. Init => PaidInFull
    BY DEF Init, PaidInFull
<1>2. CoinInv /\ PaidInFull => MaxIsSendable
    BY DEF PaidInFull, Sendable, MaxIsSendable
<1>3. QED BY CoinInit, CoinNext, PaidInFullNext, <1>1, <1>2, PTL DEF Spec
=============================================================================
