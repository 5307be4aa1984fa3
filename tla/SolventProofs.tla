----------------------------- MODULE SolventProofs -----------------------------
(***************************************************************************)
(* The mint never owes more than it has, with any honest client and the mock  *)
(* LNbits, whose answers come late, in any order, or never.                   *)
(*                                                                         *)
(* The inductive invariant is SolventInv (MintAndMockInv).  What is kept in    *)
(* circulation and owed is a sum for each kind of record, and a step changes   *)
(* one record of some kinds: OneMore says what that does to a sum.            *)
(***************************************************************************)
EXTENDS LedgerProofs, MintAndMockInv

-----------------------------------------------------------------------------
(* Sums of records. *)

\* what k adds to the sum of f
At(f, k) == IF k \in DOMAIN f THEN f[k] ELSE 0

\* a finite function to numbers
Counts(f) == IsFiniteSet(DOMAIN f) /\ \A k \in DOMAIN f : f[k] \in Nat

(* Two functions that agree but for one argument. *)
LEMMA OneMore ==
  ASSUME NEW f, NEW g, NEW k, Counts(f), Counts(g),
         DOMAIN g \ {k} = DOMAIN f \ {k}, \A j \in DOMAIN f \ {k} : g[j] = f[j]
  PROVE  /\ SumFunction(f) \in Nat /\ SumFunction(g) \in Nat
         /\ At(f, k) \in Nat /\ At(g, k) \in Nat
         /\ SumFunction(g) + At(f, k) = SumFunction(f) + At(g, k)
<1> DEFINE S == DOMAIN f \ {k}
<1>1. IsFiniteSet(S) /\ \A j \in S : g[j] \in Nat /\ g[j] = f[j]
  BY FS_Subset DEF Counts
<1>2. SumFunctionOnSet(g, S) = SumFunctionOnSet(f, S) /\ SumFunctionOnSet(f, S) \in Nat
  <2>1. \A j \in S : f[j] \in Nat
    BY <1>1
  <2> QED
    BY <1>1, <2>1, SumSame, SumType
<1>3. ASSUME NEW h, Counts(h), DOMAIN h \ {k} = S
      PROVE  SumFunction(h) = SumFunctionOnSet(h, S) + At(h, k) /\ At(h, k) \in Nat
  <2>1. CASE k \in DOMAIN h
    <3>1. SumFunctionOnSet(h, DOMAIN h) = SumFunctionOnSet(h, DOMAIN h \ {k}) + h[k]
      BY <1>3, <2>1, SumRemove DEF Counts
    <3> QED
      BY <1>3, <2>1, <3>1 DEF SumFunction, At, Counts
  <2>2. CASE k \notin DOMAIN h
    <3>1. DOMAIN h = S
      BY <1>3, <2>2
    <3>2. SumFunctionOnSet(h, S) \in Nat
      BY <1>3, <3>1, SumType DEF Counts
    <3> QED
      BY <2>2, <3>1, <3>2 DEF SumFunction, At
  <2> QED
    BY <2>1, <2>2
<1>4. SumFunction(f) = SumFunctionOnSet(f, S) + At(f, k) /\ At(f, k) \in Nat
  BY <1>3
<1>5. SumFunction(g) = SumFunctionOnSet(g, S) + At(g, k) /\ At(g, k) \in Nat
  BY <1>3
<1> HIDE DEF S
<1> QED
  BY <1>2, <1>4, <1>5

-----------------------------------------------------------------------------
(* Change. *)

(* The powers of two double. *)
LEMMA PowerDoubles == \A k \in Nat : 2^(k + 1) = 2 * 2^k
<1> SUFFICES ASSUME NEW k \in Nat
             PROVE  2^(k + 1) = 2 * 2^k
  OBVIOUS
<1> DEFINE few == SUBSET (1..k)
           all == SUBSET (1..(k + 1))
           more == {T \in all : k + 1 \in T}
<1>1. IsFiniteSet(1..k) /\ Cardinality(1..k) = k
      /\ IsFiniteSet(1..(k + 1)) /\ Cardinality(1..(k + 1)) = k + 1
  BY FS_Interval
<1>2. /\ IsFiniteSet(few) /\ Cardinality(few) = 2^k
      /\ IsFiniteSet(all) /\ Cardinality(all) = 2^(k + 1)
  BY <1>1, FS_SUBSET
<1>3. all = few \cup more /\ few \cap more = {}
  <2>1. 1..(k + 1) = (1..k) \cup {k + 1} /\ k + 1 \notin 1..k
    OBVIOUS
  <2> QED
    BY <2>1
<1>4. ExistsBijection(few, more)
  <2> DEFINE b == [T \in few |-> T \cup {k + 1}]
  <2>1. 1..(k + 1) = (1..k) \cup {k + 1} /\ k + 1 \notin 1..k
    OBVIOUS
  <2>2. b \in [few -> more]
    BY <2>1
  <2>3. \A T, U \in few : b[T] = b[U] => T = U
    <3> SUFFICES ASSUME NEW T \in few, NEW U \in few, T \cup {k + 1} = U \cup {k + 1}
                 PROVE  T = U
      OBVIOUS
    <3>1. k + 1 \notin T /\ k + 1 \notin U
      BY <2>1
    <3> QED
      BY <3>1
  <2>4. \A U \in more : \E T \in few : b[T] = U
    <3> SUFFICES ASSUME NEW U \in more
                 PROVE  \E T \in few : b[T] = U
      OBVIOUS
    <3>1. U \ {k + 1} \in few /\ (U \ {k + 1}) \cup {k + 1} = U
      BY <2>1
    <3> QED
      BY <3>1
  <2> HIDE DEF b, few, more
  <2>5. b \in Bijection(few, more)
    BY <2>2, <2>3, <2>4 DEF Bijection, Injection, Surjection, IsInjective
  <2> QED
    BY <2>5 DEF ExistsBijection
<1> HIDE DEF few, all, more
<1>5. IsFiniteSet(more) /\ Cardinality(more) = 2^k
  BY <1>2, <1>4, FS_Bijection
<1>6. Cardinality(few \cup more) = Cardinality(few) + Cardinality(more) - Cardinality(few \cap more)
  BY <1>2, <1>5, FS_Union
<1>7. Cardinality({}) = 0
  BY FS_EmptySet
<1>8. 2^k \in Nat
  BY Powers
<1>9. 2^(k + 1) = 2^k + 2^k - 0
  BY <1>2, <1>3, <1>5, <1>6, <1>7, Zenon
<1> DEFINE p == 2^k
           q == 2^(k + 1)
<1> SUFFICES q = 2 * p
  OBVIOUS
<1> HIDE DEF p, q
<1>10. p \in Nat /\ q = p + p - 0
  BY <1>8, <1>9 DEF p, q
<1> QED
  BY <1>10

(* Division by twice a number is half of the division by it. *)
LEMMA HalfQuotient ==
  ASSUME NEW n \in Nat, NEW p \in Nat, p > 0
  PROVE  /\ n \div p \in Nat /\ n \div (2 * p) \in Nat
         /\ n \div p = 2 * (n \div (2 * p)) + ((n \div p) % 2)
         /\ p * (n \div p) <= n
<1> DEFINE d == n \div p
           e == n \div (2 * p)
<1>1. d \in Nat /\ p * d <= n /\ n < p * d + p
  OBVIOUS
<1>2. e \in Nat /\ (2 * p) * e <= n /\ n < (2 * p) * e + 2 * p
  OBVIOUS
<1>3. d % 2 \in {0, 1} /\ d = 2 * (d \div 2) + (d % 2) /\ d \div 2 \in Nat
  <2> HIDE DEF d
  <2> QED
    BY <1>1
<1> HIDE DEF d, e
<1>4. e = d \div 2
  <2> DEFINE h == d \div 2
  <2>1. h \in Nat /\ 2 * h <= d /\ d <= 2 * h + 1
    BY <1>1, <1>3
  <2> HIDE DEF h
  <2>2. ASSUME e > h PROVE FALSE
    <3>1. d + 1 <= 2 * e
      BY <1>1, <1>2, <2>1, <2>2
    <3>2. p * (d + 1) <= p * (2 * e)
      BY <1>1, <1>2, <3>1
    <3> QED
      BY <1>1, <1>2, <3>2
  <2>3. ASSUME e < h PROVE FALSE
    <3>1. 2 * (e + 1) <= d
      BY <1>1, <1>2, <2>1, <2>3
    <3>2. p * (2 * (e + 1)) <= p * d
      BY <1>1, <1>2, <3>1
    <3> QED
      BY <1>1, <1>2, <3>2
  <2> QED
    BY <1>2, <2>1, <2>2, <2>3 DEF h
<1> QED
  BY <1>1, <1>2, <1>3, <1>4 DEF d, e

(* A number in front of a list adds to its total. *)
LEMMA FrontTotal ==
  ASSUME NEW s \in Seq(Nat), NEW p \in Nat
  PROVE  Total(s) \in Nat /\ Total(<<p>> \o s) = p + Total(s)
<1> DEFINE t == <<p>> \o s
           n == Len(s)
           h == [i \in 1..n |-> i + 1]
<1>1. /\ n \in Nat /\ DOMAIN s = 1..n /\ \A i \in 1..n : s[i] \in Nat
      /\ DOMAIN t = 1..(n + 1) /\ t[1] = p /\ \A i \in 1..n : t[i + 1] = s[i]
  OBVIOUS
<1> HIDE DEF t, n
<1>2. IsFiniteSet(1..n) /\ IsFiniteSet(1..(n + 1))
  BY <1>1, FS_Interval
<1>3. \A i \in 1..(n + 1) : t[i] \in Nat
  <2> SUFFICES ASSUME NEW i \in 1..(n + 1)
               PROVE  t[i] \in Nat
    OBVIOUS
  <2>1. CASE i = 1
    BY <1>1, <2>1
  <2>2. CASE i # 1
    <3>1. i - 1 \in 1..n /\ (i - 1) + 1 = i
      BY <1>1, <2>2
    <3> QED
      BY <1>1, <3>1
  <2> QED
    BY <2>1, <2>2
<1> DEFINE T == (1..(n + 1)) \ {1}
<1>4. SumFunctionOnSet(t, 1..(n + 1)) = SumFunctionOnSet(t, T) + p
  <2> DEFINE S == 1..(n + 1)
  <2>1. 1 \in S /\ t[1] = p /\ IsFiniteSet(S) /\ (\A i \in S : t[i] \in Nat) /\ T = S \ {1}
    BY <1>1, <1>2, <1>3
  <2> HIDE DEF S, T
  <2>2. SumFunctionOnSet(t, S) = SumFunctionOnSet(t, S \ {1}) + t[1]
    BY <2>1, SumRemove
  <2> QED
    BY <2>1, <2>2 DEF S
<1>5. T = 2..(n + 1) /\ IsFiniteSet(T)
  <2>1. IsFiniteSet(T)
    BY <1>2, FS_RemoveElement
  <2> QED
    BY <1>1, <2>1
<1> HIDE DEF T
<1>6. h \in [1..n -> T] /\ \A i, j \in 1..n : h[i] = h[j] => i = j
  BY <1>1, <1>5
<1>7. \A i \in T : \E j \in 1..n : h[j] = i
  <2> SUFFICES ASSUME NEW i \in T
               PROVE  \E j \in 1..n : h[j] = i
    OBVIOUS
  <2>1. i - 1 \in 1..n /\ h[i - 1] = i
    BY <1>1, <1>5
  <2> QED
    BY <2>1
<1>8. \A i \in 1..n : s[i] = t[h[i]]
  BY <1>1
<1>9. \A i \in T : t[i] \in Nat
  BY <1>3, <1>5
<1> HIDE DEF h
<1>10. SumFunctionOnSet(s, 1..n) = SumFunctionOnSet(t, T)
  <2> DEFINE S == 1..n
  <2>1. /\ IsFiniteSet(S) /\ IsFiniteSet(T) /\ h \in [S -> T]
        /\ \A i \in S : s[i] \in Nat /\ s[i] = t[h[i]]
        /\ \A i, j \in S : h[i] = h[j] => i = j
        /\ \A i \in T : \E j \in S : h[j] = i
    BY <1>1, <1>2, <1>5, <1>6, <1>7, <1>8
  <2> HIDE DEF S
  <2>2. SumFunctionOnSet(s, S) = SumFunctionOnSet(t, T)
    BY <1>9, <2>1, SumMatch
  <2> QED
    BY <2>2 DEF S
<1>11. SumFunctionOnSet(s, 1..n) \in Nat
  BY <1>1, <1>2, SumType
<1>12. Total(s) = SumFunctionOnSet(s, 1..n) /\ Total(t) = SumFunctionOnSet(t, 1..(n + 1))
  BY <1>1 DEF Total, SumFunction
<1> QED
  BY <1>4, <1>10, <1>11, <1>12 DEF t

(* The bits of a number add up to no more than it. *)
LEMMA BitsTotal ==
  ASSUME NEW n \in Nat, NEW count \in Nat
  PROVE  Total(Bits(n, count)) \in Nat /\ Total(Bits(n, count)) <= n
<1>0. PICK it : FoundBits(it, n, count)
  BY BitByBit
<1>1. /\ Bits(n, count) = it[count]
      /\ it[0] = <<>>
      /\ \A k \in 0..(count - 1) :
           it[k + 1] = IF (n \div 2^k) % 2 = 1 THEN <<2^k>> \o it[k] ELSE it[k]
  BY <1>0 DEF FoundBits
<1> DEFINE Right(k) == it[k] \in Seq(Nat) /\ Total(it[k]) \in Nat /\ Total(it[k]) + 2^k * (n \div 2^k) <= n
           wrong == {k \in 0..count : ~Right(k)}
<1>2. 0 \notin wrong
  <2>1. Total(<<>>) = 0
    <3>1. DOMAIN <<>> = {}
      OBVIOUS
    <3> QED
      BY <3>1, SumEmpty DEF Total, SumFunction
  <2>2. 2^0 \in Nat /\ 2^0 > 0
    <3>1. 2^0 \in Nat /\ 2^1 \in Nat /\ 2^0 < 2^1 /\ 2^(0 + 1) = 2 * 2^0
      BY Powers, PowerDoubles
    <3> DEFINE p == 2^0
               q == 2^1
    <3>2. p \in Nat /\ q \in Nat /\ p < q /\ q = 2 * p
      BY <3>1
    <3> SUFFICES p \in Nat /\ p > 0
      OBVIOUS
    <3> HIDE DEF p, q
    <3> QED
      BY <3>2
  <2>3. 2^0 * (n \div 2^0) <= n
    <3> DEFINE p == 2^0
    <3> SUFFICES p * (n \div p) <= n
      OBVIOUS
    <3>1. p \in Nat /\ p > 0
      BY <2>2
    <3> HIDE DEF p
    <3> QED
      BY <3>1, HalfQuotient
  <2>4. 2^0 * (n \div 2^0) \in Int
    <3> DEFINE p == 2^0
    <3> SUFFICES p * (n \div p) \in Int
      OBVIOUS
    <3>1. p \in Nat /\ p > 0
      BY <2>2
    <3> HIDE DEF p
    <3> QED
      BY <3>1, HalfQuotient
  <2>5. Right(0)
    <3> DEFINE r == 2^0 * (n \div 2^0)
    <3>1. r \in Int /\ r <= n
      BY <2>3, <2>4
    <3> HIDE DEF r
    <3>2. Total(it[0]) = 0
      BY <1>1, <2>1
    <3>3. Total(it[0]) + r <= n /\ it[0] \in Seq(Nat)
      BY <1>1, <3>1, <3>2
    <3> QED
      BY <3>2, <3>3 DEF r
  <2> QED
    BY <2>5
<1>3. ASSUME NEW k \in 0..count, k + 1 \in wrong
      PROVE  k \in wrong
  <2> SUFFICES ASSUME Right(k)
               PROVE  FALSE
    OBVIOUS
  <2> DEFINE p == 2^k
             d == n \div p
             e == n \div (2 * p)
             b == d % 2
  <2>1. k \in 0..(count - 1) /\ k \in Nat /\ k + 1 \in Nat
    BY <1>3
  <2>2. p \in Nat /\ p > 0
    <3>1. p \in Nat
      BY <2>1, Powers
    <3>2. 2^(k + 1) \in Nat /\ p < 2^(k + 1) /\ 2^(k + 1) = 2 * p
      BY <2>1, Powers, PowerDoubles
    <3> HIDE DEF p
    <3> QED
      BY <3>1, <3>2
  <2>3. 2^(k + 1) = 2 * p
    BY <2>1, PowerDoubles
  <2>4. it[k + 1] = IF b = 1 THEN <<p>> \o it[k] ELSE it[k]
    BY <1>1, <2>1
  <2>5. it[k] \in Seq(Nat) /\ Total(it[k]) \in Nat /\ Total(it[k]) + p * d <= n
    OBVIOUS
  <2>6. ~(it[k + 1] \in Seq(Nat) /\ Total(it[k + 1]) \in Nat /\ Total(it[k + 1]) + (2 * p) * e <= n)
    BY <1>3, <2>3
  <2> HIDE DEF p, Right
  <2>7. d \in Nat /\ e \in Nat /\ d = 2 * e + b
    BY <2>2, HalfQuotient
  <2>8. b \in {0, 1}
    <3> HIDE DEF d
    <3> QED
      BY <2>7
  <2> HIDE DEF d, e, b
  <2>9. Total(<<p>> \o it[k]) = p + Total(it[k]) /\ <<p>> \o it[k] \in Seq(Nat)
    BY <2>2, <2>5, FrontTotal
  <2>10. Total(it[k + 1]) = b * p + Total(it[k]) /\ it[k + 1] \in Seq(Nat)
    BY <2>2, <2>4, <2>5, <2>8, <2>9
  <2>11. p * d = (2 * p) * e + b * p
    BY <2>2, <2>7, <2>8
  <2>12. p * d \in Nat /\ (2 * p) * e \in Nat /\ b * p \in Nat
    BY <2>2, <2>7, <2>8
  <2> QED
    BY <2>5, <2>6, <2>10, <2>11, <2>12
<1>4. wrong = {}
  <2> HIDE DEF wrong
  <2>1. wrong \subseteq 0..count
    BY DEF wrong
  <2> QED
    BY <1>2, <1>3, <2>1, NoLeast
<1>5. Right(count)
  BY <1>4
<1> DEFINE r == 2^count * (n \div 2^count)
<1>6. r \in Nat
  <2> DEFINE p == 2^count
  <2>1. p \in Nat /\ p > 0
    <3>1. p \in Nat /\ 2^(count + 1) \in Nat /\ p < 2^(count + 1) /\ 2^(count + 1) = 2 * p
      BY Powers, PowerDoubles
    <3> HIDE DEF p
    <3> QED
      BY <3>1
  <2> SUFFICES p * (n \div p) \in Nat
    OBVIOUS
  <2> HIDE DEF p
  <2>2. n \div p \in Nat
    BY <2>1, HalfQuotient
  <2> QED
    BY <2>1, <2>2
<1>7. Total(it[count]) \in Nat /\ Total(it[count]) + r <= n
  BY <1>5
<1> HIDE DEF r
<1> QED
  BY <1>1, <1>6, <1>7

(* Change is worth no more than what it is change of. *)
LEMMA ChangeWithin ==
  ASSUME NEW m, OneSigns(m), NEW blanks, AreOutputs(blanks), NEW over \in Nat
  PROVE  AmountTotal(SignChange(m, blanks, over)) \in Nat /\ AmountTotal(SignChange(m, blanks, over)) <= over
<1> DEFINE parts == SplitAmount(over)
           n == Min({Len(parts), Len(blanks)})
           large == {i \in 1..n : parts[i] > 2^m.keysets[m.active].top}
           big == Cardinality(large)
           sigs == [i \in 1..(n - big) |->
                     [amount |-> parts[big + i], id |-> m.active, b |-> blanks[big + i].b]]
<1>1. SignChange(m, blanks, over) = sigs
  BY DEF SignChange
<1>2. Falling(parts, Width) /\ Total(parts) \in Nat /\ Total(parts) <= over
  BY BitsFall, BitsTotal DEF SplitAmount, Width
<1>3. /\ parts \in Seq(Nat) /\ Len(parts) \in Nat /\ DOMAIN parts = 1..Len(parts)
      /\ \A i \in DOMAIN parts : parts[i] \in Nat
  BY <1>2 DEF Falling
<1>4. Len(blanks) \in Nat /\ DOMAIN blanks = 1..Len(blanks)
  BY ListSeq DEF AreOutputs
<1>5. n \in Nat /\ n <= Len(parts)
  <2> DEFINE p == Len(parts)
             q == Len(blanks)
  <2> HIDE DEF p, q, parts
  <2>1. p \in Nat /\ q \in Nat
    BY <1>3, <1>4 DEF p, q
  <2>2. \E l \in {p, q} : \A j \in {p, q} : l <= j
    BY <2>1
  <2>3. Min({p, q}) \in {p, q} /\ \A j \in {p, q} : Min({p, q}) <= j
    BY <2>2 DEF Min
  <2> QED
    BY <2>1, <2>3 DEF p, q
<1> HIDE DEF parts, n
<1>6. big \in Nat /\ big <= n
  <2>1. IsFiniteSet(1..n) /\ Cardinality(1..n) = n
    BY <1>5, FS_Interval
  <2>2. large \subseteq 1..n
    OBVIOUS
  <2> HIDE DEF large
  <2>3. IsFiniteSet(large) /\ Cardinality(large) <= Cardinality(1..n)
    BY <2>1, <2>2, FS_Subset
  <2>4. Cardinality(large) \in Nat
    BY <2>3, FS_CardinalityType
  <2> QED
    BY <2>1, <2>3, <2>4
<1> HIDE DEF big
<1> DEFINE f == [i \in DOMAIN sigs |-> sigs[i].amount]
           h == [i \in DOMAIN sigs |-> big + i]
<1>7. DOMAIN sigs = 1..(n - big) /\ IsFiniteSet(DOMAIN sigs) /\ IsFiniteSet(DOMAIN parts)
  <2>1. n - big \in Nat
    BY <1>5, <1>6
  <2> QED
    BY <1>3, <2>1, FS_Interval
<1>8. /\ h \in [DOMAIN sigs -> DOMAIN parts]
      /\ \A i \in DOMAIN sigs : f[i] = parts[h[i]] /\ f[i] \in Nat
      /\ \A i, j \in DOMAIN sigs : h[i] = h[j] => i = j
  <2>1. \A i \in DOMAIN sigs : big + i \in DOMAIN parts
    BY <1>3, <1>5, <1>6, <1>7
  <2>2. \A i, j \in DOMAIN sigs : big + i = big + j => i = j
    BY <1>6, <1>7
  <2> QED
    BY <1>3, <2>1, <2>2
<1>9. AmountTotal(sigs) = SumFunctionOnSet(f, DOMAIN sigs)
  BY DEF AmountTotal, Total, SumFunction
<1> HIDE DEF f, h, sigs
<1>10. SumFunctionOnSet(f, DOMAIN sigs) <= SumFunctionOnSet(parts, DOMAIN parts)
  <2> DEFINE S == DOMAIN sigs
             T == DOMAIN parts
  <2>1. /\ IsFiniteSet(S) /\ IsFiniteSet(T) /\ h \in [S -> T]
        /\ \A i \in S : f[i] \in Nat /\ f[i] = parts[h[i]]
        /\ \A i \in T : parts[i] \in Nat
        /\ \A i, j \in S : h[i] = h[j] => i = j
    BY <1>3, <1>7, <1>8
  <2> HIDE DEF S, T
  <2> QED
    BY <2>1, SumMatch DEF S, T
<1>11. SumFunctionOnSet(f, DOMAIN sigs) \in Nat
  BY <1>7, <1>8, SumType
<1>12. Total(parts) = SumFunctionOnSet(parts, DOMAIN parts)
  BY DEF Total, SumFunction
<1> QED
  BY <1>1, <1>2, <1>9, <1>10, <1>11, <1>12

-----------------------------------------------------------------------------
(* The sums of the balance. *)

\* a and b agree but for k
Elsewhere(a, b, k) == DOMAIN b \ {k} = DOMAIN a \ {k} /\ \A j \in DOMAIN a \ {k} : b[j] = a[j]

\* amounts of quotes, and inputs of melts in flight, are numbers
QuoteNumbers(quotes) == IsFiniteSet(DOMAIN quotes) /\ \A q \in DOMAIN quotes : quotes[q].amount \in Nat
FlightNumbers(inflight) == IsFiniteSet(DOMAIN inflight) /\ \A q \in DOMAIN inflight : inflight[q].total \in Nat
InvoiceNumbers(invoices) == IsFiniteSet(DOMAIN invoices) /\ \A h \in DOMAIN invoices : invoices[h].msat \in Nat

\* what one quote, melt or invoice adds to them
ToMintAt(q, mints, invoices) ==
  IF q \in DOMAIN mints /\ Awaited(q, mints[q], invoices) THEN mints[q].amount ELSE 0
SelfInAt(q, mints) == IF q \in DOMAIN mints /\ mints[q].self THEN mints[q].amount ELSE 0
SelfLeftAt(q, melts) == IF q \in DOMAIN melts /\ SelfSpent(melts[q]) THEN melts[q].amount ELSE 0
CameAt(h, invoices) == IF h \in DOMAIN invoices /\ invoices[h].paid THEN invoices[h].msat ELSE 0

(* Deposits that are due, when one of them or its invoice changes. *)
LEMMA ToMintMoves ==
  ASSUME NEW a, NEW b, NEW inv, NEW inv2, NEW q, QuoteNumbers(a), QuoteNumbers(b), Elsewhere(a, b, q),
         \A p \in DOMAIN a \ {q} : Awaited(p, a[p], inv2) <=> Awaited(p, a[p], inv)
  PROVE  /\ ToMint(a, inv) \in Nat /\ ToMint(b, inv2) \in Nat
         /\ ToMintAt(q, a, inv) \in Nat /\ ToMintAt(q, b, inv2) \in Nat
         /\ ToMint(b, inv2) + ToMintAt(q, a, inv) = ToMint(a, inv) + ToMintAt(q, b, inv2)
<1> DEFINE f == [p \in DOMAIN a |-> IF Awaited(p, a[p], inv) THEN a[p].amount ELSE 0]
           g == [p \in DOMAIN b |-> IF Awaited(p, b[p], inv2) THEN b[p].amount ELSE 0]
<1>1. Counts(f) /\ Counts(g)
  BY DEF Counts, QuoteNumbers
<1>2. /\ DOMAIN g \ {q} = DOMAIN f \ {q} /\ \A j \in DOMAIN f \ {q} : g[j] = f[j]
  BY DEF Elsewhere
<1>3. At(f, q) = ToMintAt(q, a, inv) /\ At(g, q) = ToMintAt(q, b, inv2)
  BY DEF At, ToMintAt
<1>4. ToMint(a, inv) = SumFunction(f) /\ ToMint(b, inv2) = SumFunction(g)
  BY DEF ToMint
<1> HIDE DEF f, g
<1> QED
  BY <1>1, <1>2, <1>3, <1>4, OneMore

(* Deposits by the self method. *)
LEMMA SelfInMoves ==
  ASSUME NEW a, NEW b, NEW q, QuoteNumbers(a), QuoteNumbers(b), Elsewhere(a, b, q)
  PROVE  /\ SelfIn(a) \in Nat /\ SelfIn(b) \in Nat /\ SelfInAt(q, a) \in Nat /\ SelfInAt(q, b) \in Nat
         /\ SelfIn(b) + SelfInAt(q, a) = SelfIn(a) + SelfInAt(q, b)
<1> DEFINE f == [p \in DOMAIN a |-> IF a[p].self THEN a[p].amount ELSE 0]
           g == [p \in DOMAIN b |-> IF b[p].self THEN b[p].amount ELSE 0]
<1>1. Counts(f) /\ Counts(g)
  BY DEF Counts, QuoteNumbers
<1>2. /\ DOMAIN g \ {q} = DOMAIN f \ {q} /\ \A j \in DOMAIN f \ {q} : g[j] = f[j]
  BY DEF Elsewhere
<1>3. At(f, q) = SelfInAt(q, a) /\ At(g, q) = SelfInAt(q, b)
  BY DEF At, SelfInAt
<1>4. SelfIn(a) = SumFunction(f) /\ SelfIn(b) = SumFunction(g)
  BY DEF SelfIn
<1> HIDE DEF f, g
<1> QED
  BY <1>1, <1>2, <1>3, <1>4, OneMore

(* Melts by the self method. *)
LEMMA SelfLeftMoves ==
  ASSUME NEW a, NEW b, NEW q, QuoteNumbers(a), QuoteNumbers(b), Elsewhere(a, b, q)
  PROVE  /\ SelfLeft(a) \in Nat /\ SelfLeft(b) \in Nat
         /\ SelfLeftAt(q, a) \in Nat /\ SelfLeftAt(q, b) \in Nat
         /\ SelfLeft(b) + SelfLeftAt(q, a) = SelfLeft(a) + SelfLeftAt(q, b)
<1> DEFINE f == [p \in DOMAIN a |-> IF SelfSpent(a[p]) THEN a[p].amount ELSE 0]
           g == [p \in DOMAIN b |-> IF SelfSpent(b[p]) THEN b[p].amount ELSE 0]
<1>1. Counts(f) /\ Counts(g)
  BY DEF Counts, QuoteNumbers
<1>2. /\ DOMAIN g \ {q} = DOMAIN f \ {q} /\ \A j \in DOMAIN f \ {q} : g[j] = f[j]
  BY DEF Elsewhere
<1>3. At(f, q) = SelfLeftAt(q, a) /\ At(g, q) = SelfLeftAt(q, b)
  BY DEF At, SelfLeftAt
<1>4. SelfLeft(a) = SumFunction(f) /\ SelfLeft(b) = SumFunction(g)
  BY DEF SelfLeft
<1> HIDE DEF f, g
<1> QED
  BY <1>1, <1>2, <1>3, <1>4, OneMore

(* Inputs of melts in flight, when one departs. *)
LEMMA FlyingMore ==
  ASSUME NEW a, NEW b, NEW q, FlightNumbers(a), FlightNumbers(b), Elsewhere(a, b, q),
         q \notin DOMAIN a, q \in DOMAIN b
  PROVE  Flying(a) \in Nat /\ Flying(b) = Flying(a) + b[q].total
<1> DEFINE f == [p \in DOMAIN a |-> a[p].total]
           g == [p \in DOMAIN b |-> b[p].total]
<1>1. Counts(f) /\ Counts(g)
  BY DEF Counts, FlightNumbers
<1>2. /\ DOMAIN g \ {q} = DOMAIN f \ {q} /\ \A j \in DOMAIN f \ {q} : g[j] = f[j]
  BY DEF Elsewhere
<1>3. At(f, q) = 0 /\ At(g, q) = b[q].total
  BY DEF At
<1>4. Flying(a) = SumFunction(f) /\ Flying(b) = SumFunction(g)
  BY DEF Flying
<1> HIDE DEF f, g
<1> QED
  BY <1>1, <1>2, <1>3, <1>4, OneMore

(* What came in, when an invoice changes. *)
LEMMA CameMoves ==
  ASSUME NEW a, NEW b, NEW q, InvoiceNumbers(a), InvoiceNumbers(b), Elsewhere(a, b, q)
  PROVE  /\ Came(a) \in Nat /\ Came(b) \in Nat /\ CameAt(q, a) \in Nat /\ CameAt(q, b) \in Nat
         /\ Came(b) + CameAt(q, a) = Came(a) + CameAt(q, b)
<1> DEFINE f == [p \in DOMAIN a |-> IF a[p].paid THEN a[p].msat ELSE 0]
           g == [p \in DOMAIN b |-> IF b[p].paid THEN b[p].msat ELSE 0]
<1>1. Counts(f) /\ Counts(g)
  BY DEF Counts, InvoiceNumbers
<1>2. /\ DOMAIN g \ {q} = DOMAIN f \ {q} /\ \A j \in DOMAIN f \ {q} : g[j] = f[j]
  BY DEF Elsewhere
<1>3. At(f, q) = CameAt(q, a) /\ At(g, q) = CameAt(q, b)
  BY DEF At, CameAt
<1>4. Came(a) = SumFunction(f) /\ Came(b) = SumFunction(g)
  BY DEF Came
<1> HIDE DEF f, g
<1> QED
  BY <1>1, <1>2, <1>3, <1>4, OneMore

\* payments are of numbers
PaymentNumbers(payments) == IsFiniteSet(DOMAIN payments) /\ \A h \in DOMAIN payments : payments[h] \in Nat

(* The routing fee of a payment (FEE_MSAT) is a number. *)
LEMMA FeeNat == FeeMsat \in Nat /\ FeeMsat = 2000
BY DEF FeeMsat

(* What payments cost: a number; more payments cost more, one more at most its
   price more; and those of a part and the others add up. *)
LEMMA CostParts ==
  ASSUME NEW payments, PaymentNumbers(payments), NEW hs
  PROVE  /\ Cost(payments, hs) \in Nat
         /\ Cost(payments, DOMAIN payments) = Cost(payments, hs) + Cost(payments, DOMAIN payments \ hs)
         /\ Cost(payments, DOMAIN payments) \in Nat /\ Cost(payments, DOMAIN payments \ hs) \in Nat
<1> DEFINE f == Prices(payments)
           S == DOMAIN payments
           T == hs \cap S
<1>1. IsFiniteSet(S) /\ \A h \in S : f[h] \in Nat
  BY FeeNat DEF PaymentNumbers, Prices
<1>2. T \in SUBSET S /\ S \cap S = S /\ S \ T = (S \ hs) \cap S
  OBVIOUS
<1> HIDE DEF f, S, T
<1>3. /\ SumFunctionOnSet(f, S) = SumFunctionOnSet(f, T) + SumFunctionOnSet(f, S \ T)
      /\ SumFunctionOnSet(f, T) \in Nat /\ SumFunctionOnSet(f, S \ T) \in Nat
      /\ SumFunctionOnSet(f, S) \in Nat
  <2> DEFINE U == S \ T
  <2>1. IsFiniteSet(T) /\ IsFiniteSet(U) /\ T \cap U = {} /\ T \cup U = S
    BY <1>1, <1>2, FS_Subset
  <2>2. \A h \in T \cup U : f[h] \in Nat
    BY <1>1, <2>1
  <2> HIDE DEF U
  <2>3. SumFunctionOnSet(f, T \cup U) = SumFunctionOnSet(f, T) + SumFunctionOnSet(f, U)
    BY <2>1, <2>2, SumUnion
  <2>4. SumFunctionOnSet(f, T) \in Nat /\ SumFunctionOnSet(f, U) \in Nat
    BY <2>1, <2>2, SumType
  <2>5. SumFunctionOnSet(f, S) = SumFunctionOnSet(f, T) + SumFunctionOnSet(f, U)
    BY <2>1, <2>3, Zenon
  <2> QED
    BY <2>4, <2>5 DEF U
<1>4. /\ Cost(payments, hs) = SumFunctionOnSet(f, T)
      /\ Cost(payments, S) = SumFunctionOnSet(f, S \cap S)
      /\ Cost(payments, S \ hs) = SumFunctionOnSet(f, (S \ hs) \cap S)
  BY DEF Cost, f, T, S
<1>5. /\ Cost(payments, S) = SumFunctionOnSet(f, S)
      /\ Cost(payments, S \ hs) = SumFunctionOnSet(f, S \ T)
  BY <1>2, <1>4
<1> QED
  BY <1>3, <1>4, <1>5 DEF S

(* One payment more is known to have settled a melt. *)
LEMMA CostMore ==
  ASSUME NEW payments, PaymentNumbers(payments), NEW hs, NEW h \in DOMAIN payments
  PROVE  Cost(payments, hs \cup {h}) <= Cost(payments, hs) + payments[h] + 2000
<1> DEFINE f == Prices(payments)
           T == hs \cap DOMAIN payments
<1>1. IsFiniteSet(T) /\ \A p \in T : f[p] \in Nat
  BY FeeNat, FS_Subset DEF PaymentNumbers, Prices
<1>2. f[h] = payments[h] + 2000 /\ payments[h] \in Nat
  BY FeeNat DEF PaymentNumbers, Prices
<1>3. (hs \cup {h}) \cap DOMAIN payments = T \cup {h}
  OBVIOUS
<1>4. Cost(payments, hs) = SumFunctionOnSet(f, T) /\ Cost(payments, hs \cup {h}) = SumFunctionOnSet(f, T \cup {h})
  BY <1>3 DEF Cost
<1> HIDE DEF f, T
<1>5. SumFunctionOnSet(f, T) \in Nat
  BY <1>1, SumType
<1>6. SumFunctionOnSet(f, T \cup {h}) <= SumFunctionOnSet(f, T) + f[h]
  <2>1. CASE h \in T
    <3>1. T \cup {h} = T
      BY <2>1
    <3> QED
      BY <1>2, <1>5, <3>1
  <2>2. CASE h \notin T
    <3>1. \A p \in T \cup {h} : f[p] \in Nat
      BY <1>1, <1>2
    <3>2. SumFunctionOnSet(f, T \cup {h}) = SumFunctionOnSet(f, T) + f[h]
      BY <1>1, <2>2, <3>1, SumAdd
    <3> QED
      BY <1>2, <1>5, <3>2
  <2> QED
    BY <2>1, <2>2
<1> DEFINE u == SumFunctionOnSet(f, T)
           v == SumFunctionOnSet(f, T \cup {h})
           w == payments[h]
           z == f[h]
<1>7. u \in Nat /\ w \in Nat /\ z = w + 2000 /\ v <= u + z
  BY <1>2, <1>5, <1>6
<1>8. Cost(payments, hs) = u /\ Cost(payments, hs \cup {h}) = v
  BY <1>4
<1> HIDE DEF u, v, w, z
<1>9. v <= u + w + 2000
  <2>1. u + z = u + w + 2000
    BY <1>7
  <2> QED
    BY <1>7, <2>1
<1> QED
  BY <1>8, <1>9 DEF w

(* A payment that is made, of which none was known to have settled. *)
LEMMA CostPaid ==
  ASSUME NEW payments, PaymentNumbers(payments), NEW hs, hs \subseteq DOMAIN payments,
         NEW h, h \notin DOMAIN payments, NEW v \in Nat
  PROVE  Cost(Put(payments, h, v), hs) = Cost(payments, hs)
<1> DEFINE f == Prices(payments)
           more == Put(payments, h, v)
           g == Prices(more)
<1>1. DOMAIN more = DOMAIN payments \cup {h} /\ \A p \in DOMAIN payments : more[p] = payments[p]
  BY DEF Put
<1>2. hs \cap DOMAIN payments = hs /\ hs \cap DOMAIN more = hs
  BY <1>1
<1>3. IsFiniteSet(hs) /\ \A p \in hs : f[p] \in Nat /\ f[p] = g[p]
  BY <1>1, FeeNat, FS_Subset DEF PaymentNumbers, Prices
<1>4. Cost(payments, hs) = SumFunctionOnSet(f, hs) /\ Cost(more, hs) = SumFunctionOnSet(g, hs)
  BY <1>2 DEF Cost
<1> HIDE DEF f, g
<1>5. SumFunctionOnSet(f, hs) = SumFunctionOnSet(g, hs)
  BY <1>3, SumSame
<1> QED
  BY <1>4, <1>5

-----------------------------------------------------------------------------
(* Calls.                                                                    *)

\* calls that are left of cs
Fewer(cs, cs1) == DOMAIN cs1 \subseteq DOMAIN cs /\ \A i \in DOMAIN cs1 : cs1[i] = cs[i]

(* With fewer calls on their way, nothing that is said of them fails. *)
LEMMA FewerCalls ==
  ASSUME NEW m, NEW k, NEW cs, NEW cs1, Fewer(cs, cs1)
  PROVE  /\ CallsFit(m, k, cs) => CallsFit(m, k, cs1)
         /\ DepositNames(m, k, cs1) \subseteq DepositNames(m, k, cs)
         /\ Wanted(m, cs1) \subseteq Wanted(m, cs)
<1>1. CallsFit(m, k, cs) => CallsFit(m, k, cs1)
  BY DEF Fewer, CallsFit
<1>2. DepositNames(m, k, cs1) \subseteq DepositNames(m, k, cs)
  BY DEF Fewer, DepositNames
<1>3. Wanted(m, cs1) \subseteq Wanted(m, cs)
  BY DEF Fewer, Wanted
<1> QED
  BY <1>1, <1>2, <1>3

\* What a step must leave for a call that goes on: its attempt, the deposit or
\* the melt it is about, the flight of a payment not made yet, and what was
\* paid.
DepositStays(c, mints, mints2) ==
  c.kind \in DepositCalls /\ c.quote \in DOMAIN mints2 =>
    c.quote \in DOMAIN mints /\ mints2[c.quote].self = mints[c.quote].self
    /\ mints2[c.quote].amount = mints[c.quote].amount
MeltStays(c, melts, melts2) ==
  c.kind \in MeltCalls /\ c.quote \in DOMAIN melts2 =>
    c.quote \in DOMAIN melts /\ melts2[c.quote].method = melts[c.quote].method
    /\ melts2[c.quote].request = melts[c.quote].request
FlightStays(y, inflight, inflight2, payments2) ==
  LET c == y.call IN
  c.kind = "melt-pay" /\ c.quote \in DOMAIN inflight /\ inflight[c.quote].started = c.att =>
    \/ Done1(y) \/ MadeBy(c, payments2)
    \/ c.quote \in DOMAIN inflight2 /\ inflight2[c.quote].started = c.att
InvoiceStays(y, invoices, invoices2) ==
  LET c == y.call IN
  /\ c.kind = "mint-quote-create" /\ c.quote \in DOMAIN invoices2 => Done1(y) \/ c.quote \in DOMAIN invoices
  /\ c.kind = "mint-quote-check" /\ c.quote \in DOMAIN invoices /\ invoices[c.quote].paid =>
       c.quote \in DOMAIN invoices2 /\ invoices2[c.quote].paid
GoesOn(m, k, m2, k2, y) ==
  /\ m.attempts \in Nat /\ m2.attempts \in Nat /\ m.attempts <= m2.attempts
  /\ DepositStays(y.call, m.mints, m2.mints) /\ MeltStays(y.call, m.melts, m2.melts)
  /\ FlightStays(y, m.inflight, m2.inflight, k2.payments)
  /\ InvoiceStays(y, k.invoices, k2.invoices)
  /\ DOMAIN k.payments \subseteq DOMAIN k2.payments

(* Then the call fits as it did. *)
LEMMA CallGoesOn ==
  ASSUME NEW m, NEW k, NEW m2, NEW k2, NEW y, CallFits(m, k, y), GoesOn(m, k, m2, k2, y)
  PROVE  CallFits(m2, k2, y)
<1> DEFINE c == y.call
<1>1. /\ c.kind \in Kinds /\ DOMAIN y = {"call", "asker", "stage", "mode", "slow", "answer"}
  BY DEF CallFits
<1>2. Concerns(m, c) /\ c.kind \in MeltCalls => Concerns(m2, c)
  BY DEF GoesOn, MeltStays, Concerns
<1>3. CASE c.kind = "mint-quote-create"
  <2>1. CreateFits(m, k, y)
    BY <1>3 DEF CallFits
  <2>2. CreateFits(m2, k2, y)
    BY <1>3, <2>1 DEF CreateFits, GoesOn, DepositStays, InvoiceStays, DepositCalls
  <2> QED
    BY <1>1, <1>3, <2>2 DEF CallFits
<1>4. CASE c.kind = "mint-quote-check"
  <2>1. CheckFits(m, k, y)
    BY <1>4 DEF CallFits
  <2>2. CheckFits(m2, k2, y)
    BY <1>4, <2>1 DEF CheckFits, GoesOn, InvoiceStays
  <2> QED
    BY <1>1, <1>4, <2>2 DEF CallFits
<1>5. CASE c.kind = "melt-quote-create"
  <2>1. DecodeFits(m, y)
    BY <1>5 DEF CallFits
  <2>2. DecodeFits(m2, y)
    BY <1>5, <2>1 DEF DecodeFits, GoesOn, MeltStays, MeltCalls
  <2> QED
    BY <1>1, <1>5, <2>2 DEF CallFits
<1>6. CASE c.kind = "melt-pay"
  <2>1. PayFits(m, k, y)
    BY <1>6 DEF CallFits
  <2>2. PayFits(m2, k2, y)
    <3>1. Concerns(m2, c)
      BY <1>2, <1>6, <2>1 DEF PayFits, MeltCalls
    <3>2. \/ Done1(y) \/ MadeBy(c, k2.payments)
          \/ c.quote \in DOMAIN m2.inflight /\ m2.inflight[c.quote].started = c.att
      BY <1>6, <2>1 DEF PayFits, GoesOn, FlightStays, MadeBy
    <3>3. Good(y) /\ y.answer.preimage => MadeBy(c, k2.payments) /\ y.answer.fee = <<-FeeMsat>>
      BY <2>1 DEF PayFits, GoesOn, MadeBy
    <3> QED
      BY <3>1, <3>2, <3>3 DEF PayFits
  <2> QED
    BY <1>1, <1>6, <2>2 DEF CallFits
<1>7. CASE c.kind \in {"melt-check", "melt-abort"}
  <2>1. StatusFits(m, k, y)
    BY <1>7 DEF CallFits
  <2>2. StatusFits(m2, k2, y)
    <3>1. Concerns(m2, c)
      BY <1>2, <1>7, <2>1 DEF StatusFits, MeltCalls
    <3>2. TellsPaid(y) => MadeBy(c, k2.payments) /\ y.answer.fee = <<-FeeMsat>>
      BY <2>1 DEF StatusFits, GoesOn, MadeBy
    <3> QED
      BY <3>1, <3>2 DEF StatusFits
  <2> QED
    BY <1>1, <1>7, <2>2 DEF CallFits
<1> QED
  BY <1>1, <1>3, <1>4, <1>5, <1>6, <1>7 DEF Kinds

(* And so do all calls. *)
LEMMA CallsGoOn ==
  ASSUME NEW m, NEW k, NEW m2, NEW k2, NEW cs, CallsFit(m, k, cs),
         \A i \in DOMAIN cs : GoesOn(m, k, m2, k2, cs[i])
  PROVE  CallsFit(m2, k2, cs)
<1>1. ASSUME NEW i \in DOMAIN cs
      PROVE  CallFits(m2, k2, cs[i])
  <2>1. CallFits(m, k, cs[i]) /\ GoesOn(m, k, m2, k2, cs[i])
    BY DEF CallsFit
  <2> QED
    BY <2>1, CallGoesOn
<1> QED
  BY <1>1 DEF CallsFit

(* One call more, or another stage of one. *)
LEMMA CallPut ==
  ASSUME NEW m, NEW k, NEW cs, CallsFit(m, k, cs), NEW i, i \notin DOMAIN cs, NEW y, CallFits(m, k, y),
         \A j \in DOMAIN cs : PairFits(y, cs[j]) /\ PairFits(cs[j], y)
  PROVE  CallsFit(m, k, Put(cs, i, y))
<1> DEFINE cs2 == Put(cs, i, y)
<1>1. DOMAIN cs2 = DOMAIN cs \cup {i} /\ cs2[i] = y /\ \A j \in DOMAIN cs : cs2[j] = cs[j]
  BY DEF Put
<1> HIDE DEF cs2
<1>2. \A j \in DOMAIN cs2 : CallFits(m, k, cs2[j])
  BY <1>1 DEF CallsFit
<1>3. ASSUME NEW j \in DOMAIN cs2, NEW l \in DOMAIN cs2, j # l
      PROVE  PairFits(cs2[j], cs2[l])
  <2>1. CASE j \in DOMAIN cs /\ l \in DOMAIN cs
    <3>1. PairFits(cs[j], cs[l])
      BY <1>3, <2>1 DEF CallsFit
    <3> QED
      BY <1>1, <2>1, <3>1
  <2>2. CASE j = i
    <3>1. l \in DOMAIN cs
      BY <1>1, <1>3, <2>2
    <3> QED
      BY <1>1, <2>2, <3>1
  <2>3. CASE l = i
    <3>1. j \in DOMAIN cs
      BY <1>1, <1>3, <2>3
    <3> QED
      BY <1>1, <2>3, <3>1
  <2> QED
    BY <1>1, <2>1, <2>2, <2>3
<1>4. CallsFit(m, k, cs2)
  BY <1>2, <1>3 DEF CallsFit
<1> QED
  BY <1>4 DEF cs2

-----------------------------------------------------------------------------
(* Names.                                                                    *)

\* a name that nothing has
Fresh(names, wanted, payments, q) ==
  q \notin names /\ q \notin DOMAIN payments /\ \A w \in wanted : w.hash # q

(* The invoices of others stay apart from the deposits when there are fewer of
   both, when a deposit is given a name that nothing has, and when somebody
   else's invoice is asked to be paid. *)
LEMMA ForeignFewer ==
  ASSUME NEW names, NEW wanted, NEW payments, Foreign(names, wanted, payments),
         NEW names2, names2 \subseteq names, NEW wanted2, wanted2 \subseteq wanted
  PROVE  Foreign(names2, wanted2, payments)
BY DEF Foreign

(* A deposit of a fresh name leaves the invoices of others and the payments
   apart from every deposit. *)
LEMMA ForeignName ==
  ASSUME NEW names, NEW wanted, NEW payments, Foreign(names, wanted, payments),
         NEW q, Fresh(names, wanted, payments, q),
         NEW names2, names2 \subseteq names \cup {q}, NEW wanted2, wanted2 \subseteq wanted
  PROVE  Foreign(names2, wanted2, payments)
BY DEF Foreign, Fresh

(* So does a melt of a stranger's invoice, if it is worth what the mint and the
   mock know it to be. *)
LEMMA ForeignWanted ==
  ASSUME NEW names, NEW wanted, NEW payments, Foreign(names, wanted, payments),
         NEW v, v.msat \in Nat, v.hash \notin names,
         \A w \in wanted : w.hash = v.hash => w.msat = v.msat,
         v.hash \in DOMAIN payments => payments[v.hash] = v.msat,
         NEW names2, names2 \subseteq names, NEW wanted2, wanted2 \subseteq wanted \cup {v}
  PROVE  Foreign(names2, wanted2, payments)
<1>1. \A w \in wanted2 : w.msat \in Nat /\ w.hash \notin names2
  BY DEF Foreign
<1>2. \A u, w \in wanted2 : u.hash = w.hash => u.msat = w.msat
  BY DEF Foreign
<1>3. \A h \in DOMAIN payments : h \notin names2 /\ \A w \in wanted2 : w.hash = h => payments[h] = w.msat
  BY DEF Foreign
<1> QED
  BY <1>1, <1>2, <1>3 DEF Foreign

-----------------------------------------------------------------------------
(* What the steps of the mint do to the records that the invariant reads.  cs  *)
(* are the calls that go on, cs0 those and the one that was heard, if any.     *)

ChangeSum(change) == SumFunction(ChangeWorth(change))

\* the melt q is in another state
Restated(a, b, q, state) ==
  /\ q \in DOMAIN a /\ DOMAIN b = DOMAIN a /\ \A p \in DOMAIN a : p # q => b[p] = a[p]
  /\ b[q].amount = a[q].amount /\ b[q].reserve = a[q].reserve /\ b[q].method = a[q].method
  /\ b[q].request = a[q].request /\ b[q].state = state

\* no quote changes, and no more is issued than is redeemed
Quiet(m, m2) ==
  /\ m2.mints = m.mints /\ m2.melts = m.melts /\ m2.inflight = m.inflight /\ m2.change = m.change
  /\ m2.attempts = m.attempts /\ Covers(m2.bps, m2.floor)
  /\ m2.issued + m.redeemed <= m.issued + m2.redeemed

\* one deposit changes, or comes under a new name, and nothing is issued that
\* was not due for it
DepositMoves(m, k, cs, m2, q) ==
  /\ m2.melts = m.melts /\ m2.inflight = m.inflight /\ m2.change = m.change
  /\ m2.attempts = m.attempts /\ m2.bps = m.bps /\ m2.floor = m.floor /\ m2.redeemed = m.redeemed
  /\ Elsewhere(m.mints, m2.mints, q)
  /\ q \in DOMAIN m2.mints =>
       /\ DepositFits(q, m2.mints[q], k.invoices)
       /\ q \in DOMAIN m.mints \/ Fresh(DepositNames(m, k, cs), Wanted(m, cs), k.payments, q)
  /\ \A i \in DOMAIN cs : cs[i].call.quote = q => DepositStays(cs[i].call, m.mints, m2.mints)
  /\ m2.issued + ToMintAt(q, m2.mints, k.invoices) + SelfInAt(q, m.mints)
       <= m.issued + ToMintAt(q, m.mints, k.invoices) + SelfInAt(q, m2.mints)

\* a melt is quoted, for an invoice that was asked to be paid, or its quote is
\* deleted
QuoteMoves(m, k, cs0, cs, m2, q) ==
  /\ m2.mints = m.mints /\ m2.inflight = m.inflight /\ m2.change = m.change /\ m2.attempts = m.attempts
  /\ m2.bps = m.bps /\ m2.floor = m.floor /\ m2.issued = m.issued /\ m2.redeemed = m.redeemed
  /\ Elsewhere(m.melts, m2.melts, q) /\ q \notin DOMAIN m.inflight
  /\ q \in DOMAIN m.melts => m.melts[q].state # "paid"
  /\ q \in DOMAIN m2.melts =>
       /\ m2.melts[q].state # "paid" /\ MeltFits(m2.melts[q], k.payments)
       /\ m2.melts[q].method = "bolt11" => m2.melts[q].request \in Wanted(m, cs0)
  /\ \A i \in DOMAIN cs : cs[i].call.quote = q => MeltStays(cs[i].call, m.melts, m2.melts)

\* a melt by the self method is paid
SelfPays(m, m2, q) ==
  /\ m2.mints = m.mints /\ m2.inflight = m.inflight /\ m2.attempts = m.attempts
  /\ m2.bps = m.bps /\ m2.floor = m.floor /\ m2.issued = m.issued
  /\ Restated(m.melts, m2.melts, q, "paid") /\ q \notin DOMAIN m.inflight
  /\ m.melts[q].state # "paid" /\ m.melts[q].method = "self"
  /\ ChangeSum(m2.change) + m.redeemed + m.melts[q].amount <= ChangeSum(m.change) + m2.redeemed

\* a melt departs with its inputs
Departs(m, m2, q, e) ==
  /\ m2.mints = m.mints /\ m2.change = m.change /\ m2.attempts = m.attempts + 1
  /\ m2.bps = m.bps /\ m2.floor = m.floor /\ m2.issued = m.issued
  /\ Restated(m.melts, m2.melts, q, "pending") /\ q \notin DOMAIN m.inflight
  /\ m.melts[q].state # "paid" /\ m.melts[q].method = "bolt11"
  /\ m2.inflight = Put(m.inflight, q, e) /\ e.started = m2.attempts
  /\ e.excess \in Nat /\ e.total \in Nat /\ e.excess + m.melts[q].amount + m.melts[q].reserve <= e.total
  /\ m2.redeemed = m.redeemed + e.total

\* a melt settles that was paid for, and gives change
Settles(m, k, m2, q) ==
  /\ m2.mints = m.mints /\ m2.attempts = m.attempts
  /\ m2.bps = m.bps /\ m2.floor = m.floor /\ m2.issued = m.issued /\ m2.redeemed = m.redeemed
  /\ Restated(m.melts, m2.melts, q, "paid") /\ q \in DOMAIN m.inflight /\ m2.inflight = Del(m.inflight, q)
  /\ m.melts[q].state = "pending" /\ m.melts[q].request.hash \in DOMAIN k.payments
  /\ ChangeSum(m2.change) + 2 <= ChangeSum(m.change) + m.melts[q].reserve + m.inflight[q].excess

\* a melt is rolled back that is not paid for, or was not the one to hold on to
\* its inputs
RollsBack(m, k, cs0, cs, m2, q) ==
  /\ m2.mints = m.mints /\ m2.change = m.change /\ m2.attempts = m.attempts
  /\ m2.bps = m.bps /\ m2.floor = m.floor /\ m2.issued = m.issued
  /\ Restated(m.melts, m2.melts, q, "failed") /\ q \in DOMAIN m.inflight /\ m2.inflight = Del(m.inflight, q)
  /\ m.melts[q].state = "pending" /\ m2.redeemed + m.inflight[q].total = m.redeemed
  /\ m.melts[q].request.hash \in DOMAIN k.payments => ~Safe(m, cs0, q)
  /\ \A i \in DOMAIN cs :
       cs[i].call.kind = "melt-pay" /\ cs[i].call.quote = q /\ cs[i].call.att = m.inflight[q].started
         => Done1(cs[i])

Moves(m, k, cs0, cs, m2) ==
  \/ Quiet(m, m2)
  \/ \E q : \/ DepositMoves(m, k, cs, m2, q) \/ QuoteMoves(m, k, cs0, cs, m2, q)
            \/ SelfPays(m, m2, q) \/ Settles(m, k, m2, q) \/ RollsBack(m, k, cs0, cs, m2, q)
            \/ \E e : Departs(m, m2, q, e)

\* what a step of the mint is taken from
Agreeing(m, k) ==
  /\ Kept(m) /\ MockFits(k) /\ DepositsAgree(m.mints, k.invoices) /\ MeltsAgree(m, k.payments)

\* and what it leaves
Agreed(m, k, cs, m2) ==
  /\ DepositsAgree(m2.mints, k.invoices) /\ MeltsAgree(m2, k.payments)
  /\ \A i \in DOMAIN cs : GoesOn(m, k, m2, k, cs[i])

(* Melts in flight are melts. *)
LEMMA FlightsAreMelts ==
  ASSUME NEW m, Kept(m)
  PROVE  /\ DOMAIN m.inflight \subseteq DOMAIN m.melts
         /\ \A q \in DOMAIN m.inflight : m.melts[q].state = "pending"
BY DEF Kept, QuotesFit

(* No quote changes. *)
LEMMA QuietAgrees ==
  ASSUME NEW m, NEW k, Agreeing(m, k), NEW cs, NEW m2, Quiet(m, m2)
  PROVE  Agreed(m, k, cs, m2)
<1>1. DepositsAgree(m2.mints, k.invoices)
  BY DEF Quiet, Agreeing
<1>2. MeltsAgree(m2, k.payments)
  BY DEF Quiet, Agreeing, MeltsAgree
<1>3. ASSUME NEW i \in DOMAIN cs
      PROVE  GoesOn(m, k, m2, k, cs[i])
  BY DEF Quiet, Agreeing, MeltsAgree, GoesOn, DepositStays, MeltStays, FlightStays, InvoiceStays
<1> QED
  BY <1>1, <1>2, <1>3 DEF Agreed

(* One deposit changes. *)
LEMMA DepositAgrees ==
  ASSUME NEW m, NEW k, Agreeing(m, k), NEW cs, NEW m2, NEW q, DepositMoves(m, k, cs, m2, q)
  PROVE  Agreed(m, k, cs, m2)
<1>1. DepositsAgree(m2.mints, k.invoices)
  <2>1. ASSUME NEW p \in DOMAIN m2.mints
        PROVE  DepositFits(p, m2.mints[p], k.invoices)
    <3>1. CASE p = q
      BY <3>1 DEF DepositMoves
    <3>2. CASE p # q
      <4>1. p \in DOMAIN m.mints /\ m2.mints[p] = m.mints[p]
        BY <3>2 DEF DepositMoves, Elsewhere
      <4> QED
        BY <4>1 DEF Agreeing, DepositsAgree
    <3> QED
      BY <3>1, <3>2
  <2> QED
    BY <2>1 DEF DepositsAgree
<1>2. MeltsAgree(m2, k.payments)
  BY DEF DepositMoves, Agreeing, MeltsAgree
<1>3. ASSUME NEW i \in DOMAIN cs
      PROVE  GoesOn(m, k, m2, k, cs[i])
  <2> DEFINE c == cs[i].call
  <2>1. DepositStays(c, m.mints, m2.mints)
    <3>1. CASE c.quote = q
      BY <3>1 DEF DepositMoves
    <3>2. CASE c.quote # q
      BY <3>2 DEF DepositMoves, DepositStays, Elsewhere
    <3> QED
      BY <3>1, <3>2
  <2>2. MeltStays(c, m.melts, m2.melts) /\ FlightStays(cs[i], m.inflight, m2.inflight, k.payments)
    BY DEF DepositMoves, MeltStays, FlightStays
  <2>3. InvoiceStays(cs[i], k.invoices, k.invoices)
    BY DEF InvoiceStays
  <2> QED
    BY <2>1, <2>2, <2>3 DEF DepositMoves, Agreeing, MeltsAgree, GoesOn
<1> QED
  BY <1>1, <1>2, <1>3 DEF Agreed

(* One quote of a melt comes or goes. *)
LEMMA QuoteAgrees ==
  ASSUME NEW m, NEW k, Agreeing(m, k), NEW cs0, NEW cs, NEW m2, NEW q, QuoteMoves(m, k, cs0, cs, m2, q)
  PROVE  Agreed(m, k, cs, m2)
<1>1. DepositsAgree(m2.mints, k.invoices)
  BY DEF QuoteMoves, Agreeing
<1>2. \A p \in DOMAIN m2.melts : p # q => p \in DOMAIN m.melts /\ m2.melts[p] = m.melts[p]
  BY DEF QuoteMoves, Elsewhere
<1>3. \A p \in DOMAIN m.inflight : p # q /\ p \in DOMAIN m.melts /\ m2.melts[p] = m.melts[p]
  BY FlightsAreMelts DEF QuoteMoves, Elsewhere, Agreeing
<1>4. MeltsAgree(m2, k.payments)
  <2>1. IsFiniteSet(DOMAIN m2.melts)
    <3>1. DOMAIN m2.melts \subseteq DOMAIN m.melts \cup {q} /\ IsFiniteSet(DOMAIN m.melts)
      BY <1>2 DEF Agreeing, MeltsAgree
    <3>2. IsFiniteSet(DOMAIN m.melts \cup {q})
      BY <3>1, FS_AddElement
    <3> QED
      BY <3>1, <3>2, FS_Subset
  <2>2. ASSUME NEW p \in DOMAIN m2.melts
        PROVE  MeltFits(m2.melts[p], k.payments)
    BY <1>2 DEF QuoteMoves, Agreeing, MeltsAgree
  <2>3. ASSUME NEW p \in DOMAIN m2.inflight
        PROVE  FlightPays(m2.inflight[p], m2.melts[p], m2.attempts)
    BY <1>3 DEF QuoteMoves, Agreeing, MeltsAgree
  <2> QED
    BY <2>1, <2>2, <2>3 DEF MeltsAgree, QuoteMoves, Agreeing
<1>5. ASSUME NEW i \in DOMAIN cs
      PROVE  GoesOn(m, k, m2, k, cs[i])
  <2> DEFINE c == cs[i].call
  <2>1. MeltStays(c, m.melts, m2.melts)
    <3>1. CASE c.quote = q
      BY <3>1 DEF QuoteMoves
    <3>2. CASE c.quote # q
      BY <1>2, <3>2 DEF MeltStays
    <3> QED
      BY <3>1, <3>2
  <2>2. DepositStays(c, m.mints, m2.mints) /\ FlightStays(cs[i], m.inflight, m2.inflight, k.payments)
    BY DEF QuoteMoves, DepositStays, FlightStays
  <2>3. InvoiceStays(cs[i], k.invoices, k.invoices)
    BY DEF InvoiceStays
  <2> QED
    BY <2>1, <2>2, <2>3 DEF QuoteMoves, Agreeing, MeltsAgree, GoesOn
<1> QED
  BY <1>1, <1>4, <1>5 DEF Agreed

(* One melt is in another state: every melt asks for what it asked. *)
LEMMA RestatedFits ==
  ASSUME NEW m, NEW k, Agreeing(m, k), NEW m2, NEW q, NEW state,
         Restated(m.melts, m2.melts, q, state),
         m.melts[q].method = "bolt11" /\ state = "paid" => m.melts[q].request.hash \in DOMAIN k.payments
  PROVE  /\ IsFiniteSet(DOMAIN m2.melts)
         /\ \A p \in DOMAIN m2.melts : MeltFits(m2.melts[p], k.payments)
         /\ \A p \in DOMAIN m.inflight : p \in DOMAIN m.melts
         /\ \A p \in DOMAIN m.melts :
              /\ p \in DOMAIN m2.melts /\ m2.melts[p].request = m.melts[p].request
              /\ m2.melts[p].method = m.melts[p].method
              /\ m2.melts[p].amount = m.melts[p].amount /\ m2.melts[p].reserve = m.melts[p].reserve
         /\ \A e, attempts : \A p \in DOMAIN m.melts :
              FlightPays(e, m.melts[p], attempts) => FlightPays(e, m2.melts[p], attempts)
         /\ \A c : MeltStays(c, m.melts, m2.melts)
<1>1. DOMAIN m2.melts = DOMAIN m.melts
  BY DEF Restated
<1>2. \A p \in DOMAIN m.melts :
        /\ m2.melts[p].request = m.melts[p].request /\ m2.melts[p].method = m.melts[p].method
        /\ m2.melts[p].amount = m.melts[p].amount /\ m2.melts[p].reserve = m.melts[p].reserve
  BY DEF Restated
<1>3. ASSUME NEW p \in DOMAIN m2.melts
      PROVE  MeltFits(m2.melts[p], k.payments)
  <2>1. MeltFits(m.melts[p], k.payments)
    BY <1>1 DEF Agreeing, MeltsAgree
  <2>2. CASE p = q
    BY <1>1, <1>2, <2>1, <2>2 DEF MeltFits, Restated
  <2>3. CASE p # q
    BY <1>1, <2>1, <2>3 DEF Restated
  <2> QED
    BY <2>2, <2>3
<1>4. IsFiniteSet(DOMAIN m2.melts)
  BY <1>1 DEF Agreeing, MeltsAgree
<1>5. \A p \in DOMAIN m.inflight : p \in DOMAIN m.melts
  BY FlightsAreMelts DEF Agreeing
<1>6. ASSUME NEW e, NEW attempts, NEW p \in DOMAIN m.melts, FlightPays(e, m.melts[p], attempts)
      PROVE  FlightPays(e, m2.melts[p], attempts)
  BY <1>2, <1>6 DEF FlightPays
<1>7. \A c : MeltStays(c, m.melts, m2.melts)
  BY <1>1, <1>2 DEF MeltStays
<1> QED
  BY <1>1, <1>2, <1>3, <1>4, <1>5, <1>6, <1>7

(* A melt by the self method is paid. *)
LEMMA SelfPaysAgrees ==
  ASSUME NEW m, NEW k, Agreeing(m, k), NEW cs, NEW m2, NEW q, SelfPays(m, m2, q)
  PROVE  Agreed(m, k, cs, m2)
<1>1. /\ Restated(m.melts, m2.melts, q, "paid") /\ m.melts[q].method = "self"
      /\ m2.mints = m.mints /\ m2.inflight = m.inflight /\ m2.attempts = m.attempts
      /\ m2.bps = m.bps /\ m2.floor = m.floor
  BY DEF SelfPays
<1>2. /\ IsFiniteSet(DOMAIN m2.melts)
      /\ \A p \in DOMAIN m2.melts : MeltFits(m2.melts[p], k.payments)
      /\ \A p \in DOMAIN m.inflight : p \in DOMAIN m.melts
      /\ \A e, attempts : \A p \in DOMAIN m.melts :
           FlightPays(e, m.melts[p], attempts) => FlightPays(e, m2.melts[p], attempts)
      /\ \A c : MeltStays(c, m.melts, m2.melts)
  BY <1>1, RestatedFits
<1>3. DepositsAgree(m2.mints, k.invoices)
  BY <1>1 DEF Agreeing
<1>4. MeltsAgree(m2, k.payments)
  BY <1>1, <1>2 DEF Agreeing, MeltsAgree
<1>5. ASSUME NEW i \in DOMAIN cs
      PROVE  GoesOn(m, k, m2, k, cs[i])
  <2>1. MeltStays(cs[i].call, m.melts, m2.melts)
    BY <1>2
  <2>2. /\ DepositStays(cs[i].call, m.mints, m2.mints)
        /\ FlightStays(cs[i], m.inflight, m2.inflight, k.payments)
        /\ InvoiceStays(cs[i], k.invoices, k.invoices)
    BY <1>1 DEF DepositStays, FlightStays, InvoiceStays
  <2> QED
    BY <1>1, <2>1, <2>2 DEF Agreeing, MeltsAgree, GoesOn
<1> QED
  BY <1>3, <1>4, <1>5 DEF Agreed

(* A melt departs. *)
LEMMA DepartsAgrees ==
  ASSUME NEW m, NEW k, Agreeing(m, k), NEW cs, NEW m2, NEW q, NEW e, Departs(m, m2, q, e)
  PROVE  Agreed(m, k, cs, m2)
<1>1. /\ Restated(m.melts, m2.melts, q, "pending") /\ m.melts[q].method = "bolt11"
      /\ m2.mints = m.mints /\ m2.inflight = Put(m.inflight, q, e) /\ m2.attempts = m.attempts + 1
      /\ m2.bps = m.bps /\ m2.floor = m.floor
      /\ q \notin DOMAIN m.inflight /\ q \in DOMAIN m.melts
  BY DEF Departs, Restated
<1> DEFINE state == "pending"
<1>10. /\ Restated(m.melts, m2.melts, q, state)
       /\ m.melts[q].method = "bolt11" /\ state = "paid" => m.melts[q].request.hash \in DOMAIN k.payments
  BY <1>1
<1> HIDE DEF state
<1>2. /\ IsFiniteSet(DOMAIN m2.melts)
      /\ \A p \in DOMAIN m2.melts : MeltFits(m2.melts[p], k.payments)
      /\ \A p \in DOMAIN m.inflight : p \in DOMAIN m.melts
      /\ \A f, attempts : \A p \in DOMAIN m.melts :
           FlightPays(f, m.melts[p], attempts) => FlightPays(f, m2.melts[p], attempts)
      /\ \A c : MeltStays(c, m.melts, m2.melts)
  BY <1>10, RestatedFits
<1>3. DepositsAgree(m2.mints, k.invoices)
  BY <1>1 DEF Agreeing
<1>4. m.attempts \in Nat /\ Covers(m.bps, m.floor)
  BY DEF Agreeing, MeltsAgree
<1>5. /\ DOMAIN m2.inflight = DOMAIN m.inflight \cup {q} /\ m2.inflight[q] = e
      /\ \A p \in DOMAIN m.inflight : m2.inflight[p] = m.inflight[p]
  BY <1>1 DEF Put
<1>6. ASSUME NEW p \in DOMAIN m2.inflight
      PROVE  FlightPays(m2.inflight[p], m2.melts[p], m2.attempts)
  <2>1. CASE p = q
    <3>1. FlightPays(e, m.melts[q], m2.attempts)
      <4>1. e.started \in 1..m2.attempts
        BY <1>1, <1>4 DEF Departs
      <4> QED
        BY <4>1 DEF FlightPays, Departs
    <3> QED
      BY <1>1, <1>2, <1>5, <2>1, <3>1
  <2>2. CASE p # q
    <3>1. p \in DOMAIN m.inflight /\ FlightPays(m.inflight[p], m.melts[p], m.attempts)
      BY <1>5, <2>2 DEF Agreeing, MeltsAgree
    <3>2. FlightPays(m.inflight[p], m.melts[p], m2.attempts)
      BY <1>1, <1>4, <3>1 DEF FlightPays
    <3> QED
      BY <1>2, <1>5, <3>1, <3>2
  <2> QED
    BY <2>1, <2>2
<1>7. MeltsAgree(m2, k.payments)
  BY <1>1, <1>2, <1>4, <1>6 DEF MeltsAgree
<1>8. ASSUME NEW i \in DOMAIN cs
      PROVE  GoesOn(m, k, m2, k, cs[i])
  <2>1. MeltStays(cs[i].call, m.melts, m2.melts)
    BY <1>2
  <2>2. FlightStays(cs[i], m.inflight, m2.inflight, k.payments)
    BY <1>5 DEF FlightStays
  <2>3. DepositStays(cs[i].call, m.mints, m2.mints) /\ InvoiceStays(cs[i], k.invoices, k.invoices)
    BY <1>1 DEF DepositStays, InvoiceStays
  <2> QED
    BY <1>1, <1>4, <2>1, <2>2, <2>3 DEF GoesOn
<1> QED
  BY <1>3, <1>7, <1>8 DEF Agreed

(* A melt ends, and no payment for it is left that could still be made. *)
LEMMA EndAgrees ==
  ASSUME NEW m, NEW k, Agreeing(m, k), NEW cs, NEW m2, NEW q, NEW state,
         Restated(m.melts, m2.melts, q, state), m2.inflight = Del(m.inflight, q), q \in DOMAIN m.inflight,
         m.melts[q].method = "bolt11" /\ state = "paid" => m.melts[q].request.hash \in DOMAIN k.payments,
         m2.mints = m.mints, m2.attempts = m.attempts, m2.bps = m.bps, m2.floor = m.floor,
         \A i \in DOMAIN cs :
           cs[i].call.kind = "melt-pay" /\ cs[i].call.quote = q /\ cs[i].call.att = m.inflight[q].started
             => Done1(cs[i]) \/ MadeBy(cs[i].call, k.payments)
  PROVE  Agreed(m, k, cs, m2)
<1>1. /\ IsFiniteSet(DOMAIN m2.melts)
      /\ \A p \in DOMAIN m2.melts : MeltFits(m2.melts[p], k.payments)
      /\ \A p \in DOMAIN m.inflight : p \in DOMAIN m.melts
      /\ \A e, attempts : \A p \in DOMAIN m.melts :
           FlightPays(e, m.melts[p], attempts) => FlightPays(e, m2.melts[p], attempts)
      /\ \A c : MeltStays(c, m.melts, m2.melts)
  BY RestatedFits
<1>2. DepositsAgree(m2.mints, k.invoices)
  BY DEF Agreeing
<1>3. /\ DOMAIN m2.inflight = DOMAIN m.inflight \ {q}
      /\ \A p \in DOMAIN m2.inflight : m2.inflight[p] = m.inflight[p]
  BY DEF Del
<1>4. MeltsAgree(m2, k.payments)
  <2>1. ASSUME NEW p \in DOMAIN m2.inflight
        PROVE  FlightPays(m2.inflight[p], m2.melts[p], m2.attempts)
    <3>1. p \in DOMAIN m.inflight /\ FlightPays(m.inflight[p], m.melts[p], m.attempts)
      BY <1>3 DEF Agreeing, MeltsAgree
    <3> QED
      BY <1>1, <1>3, <3>1
  <2> QED
    BY <1>1, <2>1 DEF Agreeing, MeltsAgree
<1>5. ASSUME NEW i \in DOMAIN cs
      PROVE  GoesOn(m, k, m2, k, cs[i])
  <2>1. MeltStays(cs[i].call, m.melts, m2.melts)
    BY <1>1
  <2>2. FlightStays(cs[i], m.inflight, m2.inflight, k.payments)
    <3>1. CASE cs[i].call.quote = q
      BY <3>1 DEF FlightStays
    <3>2. CASE cs[i].call.quote # q
      BY <1>3, <3>2 DEF FlightStays
    <3> QED
      BY <3>1, <3>2
  <2>3. DepositStays(cs[i].call, m.mints, m2.mints) /\ InvoiceStays(cs[i], k.invoices, k.invoices)
    BY DEF DepositStays, InvoiceStays
  <2> QED
    BY <2>1, <2>2, <2>3 DEF Agreeing, MeltsAgree, GoesOn
<1> QED
  BY <1>2, <1>4, <1>5 DEF Agreed

(* Whatever the mint does, its quotes agree with the mock, and the calls on
   their way go on to fit. *)
LEMMA MovesAgree ==
  ASSUME NEW m, NEW k, Agreeing(m, k), NEW cs0, NEW cs, CallsFit(m, k, cs), NEW m2, Moves(m, k, cs0, cs, m2)
  PROVE  Agreed(m, k, cs, m2) /\ CallsFit(m2, k, cs)
<1>1. Agreed(m, k, cs, m2)
  <2>1. CASE Quiet(m, m2)
    BY <2>1, QuietAgrees
  <2>2. CASE \E q : DepositMoves(m, k, cs, m2, q)
    BY <2>2, DepositAgrees
  <2>3. CASE \E q : QuoteMoves(m, k, cs0, cs, m2, q)
    BY <2>3, QuoteAgrees
  <2>4. CASE \E q : SelfPays(m, m2, q)
    BY <2>4, SelfPaysAgrees
  <2>5. CASE \E q, e : Departs(m, m2, q, e)
    BY <2>5, DepartsAgrees
  <2>6. CASE \E q : Settles(m, k, m2, q)
    <3>1. PICK q : Settles(m, k, m2, q)
      BY <2>6
    <3>2. \A i \in DOMAIN cs :
            cs[i].call.kind = "melt-pay" /\ cs[i].call.quote = q /\ cs[i].call.att = m.inflight[q].started
              => Done1(cs[i]) \/ MadeBy(cs[i].call, k.payments)
      <4> SUFFICES ASSUME NEW i \in DOMAIN cs, cs[i].call.kind = "melt-pay", cs[i].call.quote = q
                   PROVE  MadeBy(cs[i].call, k.payments)
        OBVIOUS
      <4>1. CallFits(m, k, cs[i])
        BY DEF CallsFit
      <4>2. Concerns(m, cs[i].call)
        BY <4>1 DEF CallFits, PayFits
      <4> QED
        BY <3>1, <4>2 DEF Concerns, Settles, Restated, MadeBy
    <3>3. /\ Restated(m.melts, m2.melts, q, "paid") /\ m2.inflight = Del(m.inflight, q) /\ q \in DOMAIN m.inflight
          /\ m.melts[q].request.hash \in DOMAIN k.payments
          /\ m2.mints = m.mints /\ m2.attempts = m.attempts /\ m2.bps = m.bps /\ m2.floor = m.floor
      BY <3>1 DEF Settles
    <3> QED
      BY <3>2, <3>3, EndAgrees
  <2>7. CASE \E q : RollsBack(m, k, cs0, cs, m2, q)
    <3>1. PICK q : RollsBack(m, k, cs0, cs, m2, q)
      BY <2>7
    <3>2. \A i \in DOMAIN cs :
            cs[i].call.kind = "melt-pay" /\ cs[i].call.quote = q /\ cs[i].call.att = m.inflight[q].started
              => Done1(cs[i]) \/ MadeBy(cs[i].call, k.payments)
      BY <3>1 DEF RollsBack
    <3>3. /\ Restated(m.melts, m2.melts, q, "failed") /\ m2.inflight = Del(m.inflight, q)
          /\ q \in DOMAIN m.inflight
          /\ m2.mints = m.mints /\ m2.attempts = m.attempts /\ m2.bps = m.bps /\ m2.floor = m.floor
      BY <3>1 DEF RollsBack
    <3> QED
      BY <3>2, <3>3, EndAgrees
  <2> QED
    BY <2>1, <2>2, <2>3, <2>4, <2>5, <2>6, <2>7 DEF Moves
<1>2. CallsFit(m2, k, cs)
  <2>1. \A i \in DOMAIN cs : GoesOn(m, k, m2, k, cs[i])
    BY <1>1 DEF Agreed
  <2> QED
    BY <2>1, CallsGoOn
<1> QED
  BY <1>1, <1>2

(* Whatever the mint does, it asks to be paid only what it asked already. *)
LEMMA MovesWanted ==
  ASSUME NEW m, NEW k, NEW cs0, NEW cs, Fewer(cs0, cs), NEW m2, Moves(m, k, cs0, cs, m2)
  PROVE  Wanted(m2, cs) \subseteq Wanted(m, cs0)
<1> DEFINE wanted == Wanted(m, cs0)
           wanted2 == Wanted(m2, cs)
<1>1. Wanted(m, cs) \subseteq wanted
  BY FewerCalls
<1>2. (\A p \in DOMAIN m2.melts : m2.melts[p].method = "bolt11" => m2.melts[p].request \in wanted)
        => wanted2 \subseteq wanted
  BY <1>1 DEF Wanted
<1>3. \A p \in DOMAIN m.melts : m.melts[p].method = "bolt11" => m.melts[p].request \in wanted
  BY DEF Wanted
<1> HIDE DEF wanted, wanted2
<1>4. CASE m2.melts = m.melts
  BY <1>2, <1>3, <1>4 DEF wanted, wanted2
<1>5. CASE \E q, state : Restated(m.melts, m2.melts, q, state)
  <2>1. \A p \in DOMAIN m2.melts : /\ p \in DOMAIN m.melts /\ m2.melts[p].request = m.melts[p].request
                                   /\ m2.melts[p].method = m.melts[p].method
    BY <1>5 DEF Restated
  <2> QED
    BY <1>2, <1>3, <2>1 DEF wanted, wanted2
<1>6. CASE \E q : QuoteMoves(m, k, cs0, cs, m2, q)
  <2>1. PICK q : QuoteMoves(m, k, cs0, cs, m2, q)
    BY <1>6
  <2>2. \A p \in DOMAIN m2.melts : p # q => p \in DOMAIN m.melts /\ m2.melts[p] = m.melts[p]
    BY <2>1 DEF QuoteMoves, Elsewhere
  <2>3. q \in DOMAIN m2.melts /\ m2.melts[q].method = "bolt11" => m2.melts[q].request \in wanted
    BY <2>1 DEF QuoteMoves, wanted
  <2> QED
    BY <1>2, <1>3, <2>2, <2>3 DEF wanted, wanted2
<1> QED
  BY <1>4, <1>5, <1>6 DEF Moves, Quiet, DepositMoves, SelfPays, Departs, Settles, RollsBack

(* Whatever the mint does, deposits and invoices of others share no name. *)
LEMMA MovesNames ==
  ASSUME NEW m, NEW k, NEW cs0, NEW cs, Fewer(cs0, cs),
         Foreign(DepositNames(m, k, cs0), Wanted(m, cs0), k.payments), NEW m2, Moves(m, k, cs0, cs, m2)
  PROVE  Foreign(DepositNames(m2, k, cs), Wanted(m2, cs), k.payments)
<1> DEFINE names == DepositNames(m, k, cs0)
           names2 == DepositNames(m2, k, cs)
           wanted == Wanted(m, cs0)
           wanted2 == Wanted(m2, cs)
<1>1. wanted2 \subseteq wanted
  BY MovesWanted
<1>2. /\ \A q : DOMAIN m2.mints \subseteq DOMAIN m.mints \cup {q} => names2 \subseteq names \cup {q}
      /\ DOMAIN m2.mints \subseteq DOMAIN m.mints => names2 \subseteq names
  BY DEF DepositNames, Fewer
<1> HIDE DEF names, names2, wanted, wanted2
<1>3. Foreign(names, wanted, k.payments)
  BY DEF names, wanted
<1>4. CASE DOMAIN m2.mints \subseteq DOMAIN m.mints
  <2>1. names2 \subseteq names
    BY <1>2, <1>4
  <2> QED
    BY <1>1, <1>3, <2>1, ForeignFewer DEF names2, wanted2
<1>5. CASE ~(DOMAIN m2.mints \subseteq DOMAIN m.mints)
  <2>1. PICK q : DepositMoves(m, k, cs, m2, q)
    BY <1>5 DEF Moves, Quiet, QuoteMoves, SelfPays, Departs, Settles, RollsBack
  <2>2. DOMAIN m2.mints \subseteq DOMAIN m.mints \cup {q}
    BY <2>1 DEF DepositMoves, Elsewhere
  <2>3. Fresh(DepositNames(m, k, cs), Wanted(m, cs), k.payments, q)
    BY <1>5, <2>1, <2>2 DEF DepositMoves
  <2> DEFINE n == DepositNames(m, k, cs)
             w == Wanted(m, cs)
  <2>4. names2 \subseteq n \cup {q}
    BY <2>2 DEF DepositNames, names2
  <2>5. wanted2 \subseteq w
    BY <2>1 DEF DepositMoves, Wanted, wanted2
  <2>6. Foreign(n, w, k.payments)
    BY <1>3, FewerCalls, ForeignFewer DEF names, wanted
  <2> HIDE DEF n, w
  <2>7. Fresh(n, w, k.payments, q)
    BY <2>3 DEF n, w
  <2> QED
    BY <2>4, <2>5, <2>6, <2>7, ForeignName DEF names2, wanted2
<1> QED
  BY <1>4, <1>5

-----------------------------------------------------------------------------
(* Payments keep the melt that holds their inputs.                           *)

\* for each payment, a melt was settled, or one that was in flight still is
Holding(m, k, cs, m2) ==
  \A h \in DOMAIN k.payments :
    \/ h \in Noticed(m2.melts)
    \/ \E q \in DOMAIN m2.inflight :
         /\ q \in DOMAIN m.inflight /\ m2.inflight[q].started = m.inflight[q].started
         /\ m.melts[q].request.hash = h /\ m2.melts[q].request.hash = h
         /\ Safe(m2, cs, q)

(* That is so if no settled melt is forgotten, and each melt that holds the
   inputs of a payment stays in flight or is settled. *)
LEMMA HoldOn ==
  ASSUME NEW m, NEW k, NEW cs0, NEW cs, Fewer(cs0, cs), PaymentsHeld(m, k, cs0), NEW m2,
         Noticed(m.melts) \subseteq Noticed(m2.melts),
         \A q \in DOMAIN m.inflight :
           m.melts[q].request.hash \in DOMAIN k.payments /\ Safe(m, cs0, q) =>
             \/ m.melts[q].request.hash \in Noticed(m2.melts)
             \/ /\ q \in DOMAIN m2.inflight /\ m2.inflight[q] = m.inflight[q]
                /\ m2.melts[q].request = m.melts[q].request
  PROVE  Holding(m, k, cs, m2)
<1> SUFFICES ASSUME NEW h \in DOMAIN k.payments, h \notin Noticed(m2.melts)
             PROVE  \E q \in DOMAIN m2.inflight :
                      /\ q \in DOMAIN m.inflight /\ m2.inflight[q].started = m.inflight[q].started
                      /\ m.melts[q].request.hash = h /\ m2.melts[q].request.hash = h
                      /\ Safe(m2, cs, q)
  BY DEF Holding
<1>1. HeldFor(m, cs0, h)
  BY DEF PaymentsHeld
<1>2. PICK q \in DOMAIN m.inflight : m.melts[q].request.hash = h /\ Safe(m, cs0, q)
  BY <1>1 DEF HeldFor
<1>3. q \in DOMAIN m2.inflight /\ m2.inflight[q] = m.inflight[q] /\ m2.melts[q].request = m.melts[q].request
  BY <1>2
<1>4. Safe(m2, cs, q)
  BY <1>2, <1>3 DEF Safe, Fewer
<1> QED
  BY <1>2, <1>3, <1>4

(* A melt that was settled stays settled when another, or one that was not
   settled, is in another state. *)
LEMMA NoticedStays ==
  ASSUME NEW a, NEW b, NEW q, NEW state, Restated(a, b, q, state), a[q].state # "paid"
  PROVE  /\ Noticed(a) \subseteq Noticed(b)
         /\ state # "paid" \/ a[q].method # "bolt11" => Noticed(b) = Noticed(a)
         /\ Noticed(b) \subseteq Noticed(a) \cup {a[q].request.hash}
         /\ state = "paid" /\ a[q].method = "bolt11" => a[q].request.hash \in Noticed(b)
<1> DEFINE A == {p \in DOMAIN a : a[p].method = "bolt11" /\ a[p].state = "paid"}
           B == {p \in DOMAIN b : b[p].method = "bolt11" /\ b[p].state = "paid"}
<1>1. A \subseteq B /\ B \subseteq A \cup {q} /\ q \in DOMAIN b /\ b[q].request = a[q].request
  BY DEF Restated
<1>2. state # "paid" \/ a[q].method # "bolt11" => q \notin B
  BY DEF Restated
<1>3. state = "paid" /\ a[q].method = "bolt11" => q \in B
  BY DEF Restated
<1>4. \A p \in A : b[p].request = a[p].request
  BY DEF Restated
<1>5. Noticed(a) = {a[p].request.hash : p \in A} /\ Noticed(b) = {b[p].request.hash : p \in B}
  BY DEF Noticed
<1> HIDE DEF A, B
<1>6. Noticed(a) \subseteq Noticed(b)
  BY <1>1, <1>4, <1>5
<1>7. state # "paid" \/ a[q].method # "bolt11" => Noticed(b) = Noticed(a)
  <2>1. ASSUME q \notin B PROVE Noticed(b) \subseteq Noticed(a)
    <3>1. B \subseteq A
      BY <1>1, <2>1
    <3> QED
      BY <1>4, <1>5, <3>1
  <2> QED
    BY <1>2, <1>6, <2>1
<1>8. Noticed(b) \subseteq Noticed(a) \cup {a[q].request.hash}
  BY <1>1, <1>4, <1>5
<1>9. state = "paid" /\ a[q].method = "bolt11" => a[q].request.hash \in Noticed(b)
  BY <1>1, <1>3, <1>5
<1> QED
  BY <1>6, <1>7, <1>8, <1>9

(* The same for a quote that comes or goes. *)
LEMMA NoticedQuotes ==
  ASSUME NEW a, NEW b, NEW q, Elsewhere(a, b, q),
         q \in DOMAIN a => a[q].state # "paid", q \in DOMAIN b => b[q].state # "paid"
  PROVE  Noticed(b) = Noticed(a)
<1> DEFINE A == {p \in DOMAIN a : a[p].method = "bolt11" /\ a[p].state = "paid"}
           B == {p \in DOMAIN b : b[p].method = "bolt11" /\ b[p].state = "paid"}
<1>1. A = B /\ \A p \in A : b[p] = a[p]
  BY DEF Elsewhere
<1>2. Noticed(a) = {a[p].request.hash : p \in A} /\ Noticed(b) = {b[p].request.hash : p \in B}
  BY DEF Noticed
<1> HIDE DEF A, B
<1> QED
  BY <1>1, <1>2

(* Whatever the mint does, payments are held. *)
LEMMA MovesHold ==
  ASSUME NEW m, NEW k, Agreeing(m, k), NEW cs0, NEW cs, Fewer(cs0, cs), PaymentsHeld(m, k, cs0),
         NEW m2, Moves(m, k, cs0, cs, m2)
  PROVE  Holding(m, k, cs, m2)
<1>1. \A q \in DOMAIN m.inflight : q \in DOMAIN m.melts /\ m.melts[q].method = "bolt11"
  BY FlightsAreMelts DEF Agreeing, MeltsAgree, FlightPays
<1> DEFINE Held0(q) == m.melts[q].request.hash \in DOMAIN k.payments /\ Safe(m, cs0, q)
           Kept0(q) == \/ m.melts[q].request.hash \in Noticed(m2.melts)
                       \/ /\ q \in DOMAIN m2.inflight /\ m2.inflight[q] = m.inflight[q]
                          /\ m2.melts[q].request = m.melts[q].request
<1>2. SUFFICES Noticed(m.melts) \subseteq Noticed(m2.melts) /\ \A q \in DOMAIN m.inflight : Held0(q) => Kept0(q)
  BY HoldOn
<1>3. CASE m2.melts = m.melts /\ m2.inflight = m.inflight
  BY <1>3
<1>4. CASE \E q : QuoteMoves(m, k, cs0, cs, m2, q)
  <2>1. PICK q : QuoteMoves(m, k, cs0, cs, m2, q)
    BY <1>4
  <2>2. Noticed(m2.melts) = Noticed(m.melts)
    BY <2>1, NoticedQuotes DEF QuoteMoves
  <2>3. \A p \in DOMAIN m.inflight : p # q /\ p \in DOMAIN m.melts /\ m2.melts[p] = m.melts[p]
                                     /\ p \in DOMAIN m2.inflight /\ m2.inflight[p] = m.inflight[p]
    BY <1>1, <2>1 DEF QuoteMoves, Elsewhere
  <2> QED
    BY <2>2, <2>3
<1>5. ASSUME NEW q, NEW state, Restated(m.melts, m2.melts, q, state), m.melts[q].state # "paid",
             \A p \in DOMAIN m.inflight :
               p # q \/ state \notin {"paid", "failed"} =>
                 p \in DOMAIN m2.inflight /\ m2.inflight[p] = m.inflight[p],
             state = "failed" => ~Held0(q)
      PROVE  Noticed(m.melts) \subseteq Noticed(m2.melts) /\ \A p \in DOMAIN m.inflight : Held0(p) => Kept0(p)
  <2>1. /\ Noticed(m.melts) \subseteq Noticed(m2.melts)
        /\ state = "paid" /\ m.melts[q].method = "bolt11" => m.melts[q].request.hash \in Noticed(m2.melts)
    BY <1>5, NoticedStays
  <2>2. \A p \in DOMAIN m.inflight : m2.melts[p].request = m.melts[p].request
    BY <1>1, <1>5 DEF Restated
  <2> QED
    BY <1>1, <1>5, <2>1, <2>2
<1>6. CASE \E q : SelfPays(m, m2, q)
  <2>1. PICK q : SelfPays(m, m2, q)
    BY <1>6
  <2>2. /\ Restated(m.melts, m2.melts, q, "paid") /\ m.melts[q].state # "paid"
        /\ \A p \in DOMAIN m.inflight : p \in DOMAIN m2.inflight /\ m2.inflight[p] = m.inflight[p]
    BY <2>1 DEF SelfPays
  <2> HIDE DEF Held0, Kept0
  <2> QED
    BY <1>5, <2>2
<1>7. CASE \E q, e : Departs(m, m2, q, e)
  <2>1. PICK q, e : Departs(m, m2, q, e)
    BY <1>7
  <2>2. /\ Restated(m.melts, m2.melts, q, "pending") /\ m.melts[q].state # "paid"
        /\ \A p \in DOMAIN m.inflight : p \in DOMAIN m2.inflight /\ m2.inflight[p] = m.inflight[p]
    BY <2>1 DEF Departs, Put
  <2> HIDE DEF Held0, Kept0
  <2> QED
    BY <1>5, <2>2
<1>8. CASE \E q : Settles(m, k, m2, q)
  <2>1. PICK q : Settles(m, k, m2, q)
    BY <1>8
  <2>2. /\ Restated(m.melts, m2.melts, q, "paid") /\ m.melts[q].state # "paid"
        /\ \A p \in DOMAIN m.inflight : p # q => p \in DOMAIN m2.inflight /\ m2.inflight[p] = m.inflight[p]
    BY <2>1 DEF Settles, Del
  <2> HIDE DEF Held0, Kept0
  <2> QED
    BY <1>5, <2>2
<1>9. CASE \E q : RollsBack(m, k, cs0, cs, m2, q)
  <2>1. PICK q : RollsBack(m, k, cs0, cs, m2, q)
    BY <1>9
  <2>2. /\ Restated(m.melts, m2.melts, q, "failed") /\ m.melts[q].state # "paid"
        /\ \A p \in DOMAIN m.inflight : p # q => p \in DOMAIN m2.inflight /\ m2.inflight[p] = m.inflight[p]
        /\ ~Held0(q)
    BY <2>1 DEF RollsBack, Del
  <2> HIDE DEF Held0, Kept0
  <2> QED
    BY <1>5, <2>2
<1>10. Quiet(m, m2) => m2.melts = m.melts /\ m2.inflight = m.inflight
  BY DEF Quiet
<1>11. \A q : DepositMoves(m, k, cs, m2, q) => m2.melts = m.melts /\ m2.inflight = m.inflight
  BY DEF DepositMoves
<1> HIDE DEF Held0, Kept0
<1> QED
  BY <1>3, <1>4, <1>6, <1>7, <1>8, <1>9, <1>10, <1>11 DEF Moves

-----------------------------------------------------------------------------
(* The balance.                                                              *)

\* the sums of the balance are numbers
SumsFit(m, k) ==
  /\ QuoteNumbers(m.mints) /\ QuoteNumbers(m.melts) /\ FlightNumbers(m.inflight)
  /\ InvoiceNumbers(k.invoices) /\ PaymentNumbers(k.payments)
  /\ m.issued \in Nat /\ m.redeemed \in Nat /\ ChangeSum(m.change) \in Nat
  /\ ToMint(m.mints, k.invoices) \in Nat /\ SelfIn(m.mints) \in Nat /\ SelfLeft(m.melts) \in Nat
  /\ Flying(m.inflight) \in Nat /\ Came(k.invoices) \in Nat /\ Cost(k.payments, Noticed(m.melts)) \in Nat

(* A sum of numbers is a number. *)
LEMMA TotalNat == \A f : Counts(f) => SumFunction(f) \in Nat
BY SumType DEF Counts, SumFunction

(* The sums of a mint and a mock that agree are of numbers. *)
LEMMA SumsAgree ==
  ASSUME NEW m, NEW k, Agreeing(m, k)
  PROVE  SumsFit(m, k)
<1>1. QuoteNumbers(m.mints) /\ m.issued \in Nat /\ m.redeemed \in Nat
  BY DEF Agreeing, Kept, Shaped, QuoteNumbers
<1>2. QuoteNumbers(m.melts)
  BY DEF Agreeing, MeltsAgree, MeltFits, QuoteNumbers
<1>3. FlightNumbers(m.inflight)
  BY <1>2, FlightsAreMelts, FS_Subset DEF Agreeing, MeltsAgree, FlightPays, QuoteNumbers, FlightNumbers
<1>4. InvoiceNumbers(k.invoices) /\ PaymentNumbers(k.payments)
  BY DEF Agreeing, MockFits, InvoiceNumbers, PaymentNumbers
<1>5. ChangeSum(m.change) \in Nat
  BY ChangeNat DEF Agreeing, Kept, ChangeSum
<1>6. ToMint(m.mints, k.invoices) \in Nat /\ SelfIn(m.mints) \in Nat
  BY <1>1, ToMintMoves, SelfInMoves DEF Elsewhere
<1>7. SelfLeft(m.melts) \in Nat /\ Came(k.invoices) \in Nat
  BY <1>2, <1>4, SelfLeftMoves, CameMoves DEF Elsewhere
<1>8. Flying(m.inflight) \in Nat
  <2> DEFINE f == [p \in DOMAIN m.inflight |-> m.inflight[p].total]
  <2>1. Counts(f)
    BY <1>3 DEF Counts, FlightNumbers
  <2> HIDE DEF f
  <2>2. SumFunction(f) \in Nat
    BY <2>1, TotalNat
  <2> QED
    BY <2>2 DEF Flying, f
<1>9. Cost(k.payments, Noticed(m.melts)) \in Nat
  BY <1>4, CostParts
<1> QED
  BY <1>1, <1>2, <1>3, <1>4, <1>5, <1>6, <1>7, <1>8, <1>9 DEF SumsFit

(* The balance of sums that changed. *)
LEMMA BalanceOf ==
  ASSUME NEW m, NEW k
  PROVE  Balance(m, k) <=>
           1000 * (m.issued + ChangeSum(m.change) + ToMint(m.mints, k.invoices) + Flying(m.inflight)
                   + SelfLeft(m.melts)) + Cost(k.payments, Noticed(m.melts))
             <= Came(k.invoices) + 1000 * (m.redeemed + SelfIn(m.mints))
BY DEF Balance, Out, In, ChangeSum

(* A melt that is in another state: only one by the self method leaves by it. *)
LEMMA SelfLeftRestated ==
  ASSUME NEW a, NEW b, NEW q, NEW state, Restated(a, b, q, state), QuoteNumbers(a), QuoteNumbers(b),
         a[q].state # "paid"
  PROVE  SelfLeft(b) = SelfLeft(a) + IF a[q].method = "self" /\ state = "paid" THEN a[q].amount ELSE 0
<1>1. Elsewhere(a, b, q)
  BY DEF Restated, Elsewhere
<1>2. /\ SelfLeft(a) \in Nat /\ SelfLeft(b) \in Nat
      /\ SelfLeftAt(q, a) \in Nat /\ SelfLeftAt(q, b) \in Nat
      /\ SelfLeft(b) + SelfLeftAt(q, a) = SelfLeft(a) + SelfLeftAt(q, b)
  BY <1>1, SelfLeftMoves
<1>3. SelfLeftAt(q, a) = 0
  BY DEF SelfLeftAt, SelfSpent
<1>4. SelfLeftAt(q, b) = IF a[q].method = "self" /\ state = "paid" THEN a[q].amount ELSE 0
  BY DEF SelfLeftAt, SelfSpent, Restated
<1> QED
  BY <1>2, <1>3, <1>4

(* A melt that is in flight no more. *)
LEMMA FlyingLess ==
  ASSUME NEW a, FlightNumbers(a), NEW q \in DOMAIN a, NEW b, b = Del(a, q), FlightNumbers(b)
  PROVE  Flying(b) \in Nat /\ Flying(a) = Flying(b) + a[q].total
<1>1. Elsewhere(b, a, q) /\ q \notin DOMAIN b
  BY DEF Elsewhere, Del
<1> QED
  BY <1>1, FlyingMore

(* Nothing is issued that was not due, or redeemed: the balance holds. *)
LEMMA QuietBalance ==
  ASSUME NEW m, NEW k, NEW m2, SumsFit(m, k), SumsFit(m2, k), Balance(m, k), Quiet(m, m2)
  PROVE  Balance(m2, k)
<1> DEFINE B == ChangeSum(m.change) + ToMint(m.mints, k.invoices) + Flying(m.inflight) + SelfLeft(m.melts)
           P == Cost(k.payments, Noticed(m.melts))
           A == Came(k.invoices)
           S == SelfIn(m.mints)
<1>1. B \in Nat /\ P \in Nat /\ A \in Nat /\ S \in Nat
  BY DEF SumsFit
<1>2. m.issued \in Nat /\ m2.issued \in Nat /\ m.redeemed \in Nat /\ m2.redeemed \in Nat
  BY DEF SumsFit
<1>3. 1000 * (m.issued + B) + P <= A + 1000 * (m.redeemed + S)
  BY <1>1, <1>2, BalanceOf DEF SumsFit
<1>4. Balance(m2, k) <=> 1000 * (m2.issued + B) + P <= A + 1000 * (m2.redeemed + S)
  BY <1>1, <1>2, BalanceOf DEF SumsFit, Quiet
<1>5. m2.issued + m.redeemed <= m.issued + m2.redeemed
  BY DEF Quiet
<1> HIDE DEF A, B, P, S
<1> QED
  BY <1>1, <1>2, <1>3, <1>4, <1>5

(* One deposit changes. *)
LEMMA DepositBalance ==
  ASSUME NEW m, NEW k, NEW cs, NEW m2, SumsFit(m, k), SumsFit(m2, k), Balance(m, k),
         NEW q, DepositMoves(m, k, cs, m2, q)
  PROVE  Balance(m2, k)
<1> DEFINE B == ChangeSum(m.change) + Flying(m.inflight) + SelfLeft(m.melts)
           P == Cost(k.payments, Noticed(m.melts))
           A == Came(k.invoices)
           T == ToMint(m.mints, k.invoices)
           T2 == ToMint(m2.mints, k.invoices)
           t == ToMintAt(q, m.mints, k.invoices)
           t2 == ToMintAt(q, m2.mints, k.invoices)
           S == SelfIn(m.mints)
           S2 == SelfIn(m2.mints)
           s == SelfInAt(q, m.mints)
           s2 == SelfInAt(q, m2.mints)
<1>1. B \in Nat /\ P \in Nat /\ A \in Nat
  BY DEF SumsFit
<1>2. m.issued \in Nat /\ m2.issued \in Nat /\ m.redeemed \in Nat /\ m2.redeemed = m.redeemed
  BY DEF SumsFit, DepositMoves
<1>3. QuoteNumbers(m.mints) /\ QuoteNumbers(m2.mints) /\ Elsewhere(m.mints, m2.mints, q)
  BY DEF SumsFit, DepositMoves
<1>4. T \in Nat /\ T2 \in Nat /\ t \in Nat /\ t2 \in Nat /\ T2 + t = T + t2
  BY <1>3, ToMintMoves
<1>5. S \in Nat /\ S2 \in Nat /\ s \in Nat /\ s2 \in Nat /\ S2 + s = S + s2
  BY <1>3, SelfInMoves
<1>6. m2.issued + t2 + s <= m.issued + t + s2
  BY DEF DepositMoves
<1>7. 1000 * (m.issued + B + T) + P <= A + 1000 * (m.redeemed + S)
  BY <1>1, <1>2, BalanceOf DEF SumsFit
<1>8. Balance(m2, k) <=> 1000 * (m2.issued + B + T2) + P <= A + 1000 * (m.redeemed + S2)
  BY <1>1, <1>2, BalanceOf DEF SumsFit, DepositMoves
<1> HIDE DEF A, B, P, S, S2, s, s2, T, T2, t, t2
<1>9. m2.issued + T2 + S <= m.issued + T + S2
  BY <1>2, <1>4, <1>5, <1>6
<1> QED
  BY <1>1, <1>2, <1>4, <1>5, <1>7, <1>8, <1>9

(* A quote of a melt comes or goes. *)
LEMMA QuoteBalance ==
  ASSUME NEW m, NEW k, NEW cs0, NEW cs, NEW m2, SumsFit(m, k), SumsFit(m2, k), Balance(m, k),
         NEW q, QuoteMoves(m, k, cs0, cs, m2, q)
  PROVE  Balance(m2, k)
<1>1. Noticed(m2.melts) = Noticed(m.melts)
  BY NoticedQuotes DEF QuoteMoves
<1>2. SelfLeft(m2.melts) = SelfLeft(m.melts)
  <2>1. QuoteNumbers(m.melts) /\ QuoteNumbers(m2.melts) /\ Elsewhere(m.melts, m2.melts, q)
    BY DEF SumsFit, QuoteMoves
  <2>2. SelfLeftAt(q, m.melts) = 0 /\ SelfLeftAt(q, m2.melts) = 0
    BY DEF SelfLeftAt, SelfSpent, QuoteMoves
  <2>3. /\ SelfLeft(m.melts) \in Nat /\ SelfLeft(m2.melts) \in Nat
        /\ SelfLeft(m2.melts) + SelfLeftAt(q, m.melts) = SelfLeft(m.melts) + SelfLeftAt(q, m2.melts)
    BY <2>1, SelfLeftMoves
  <2> QED
    BY <2>2, <2>3
<1> QED
  BY <1>1, <1>2 DEF Balance, Out, In, QuoteMoves

\* a melt that is in another state: what stays of the balance, and what moves
MeltBalance(m, m2, k) ==
  /\ m2.mints = m.mints /\ m2.issued = m.issued
  /\ 1000 * (ChangeSum(m2.change) + Flying(m2.inflight) + SelfLeft(m2.melts) + m.redeemed)
       + Cost(k.payments, Noticed(m2.melts))
     <= 1000 * (ChangeSum(m.change) + Flying(m.inflight) + SelfLeft(m.melts) + m2.redeemed)
       + Cost(k.payments, Noticed(m.melts))

(* Then the balance holds. *)
LEMMA MeltBalances ==
  ASSUME NEW m, NEW k, NEW m2, SumsFit(m, k), SumsFit(m2, k), Balance(m, k), MeltBalance(m, m2, k)
  PROVE  Balance(m2, k)
<1> DEFINE I == m.issued + ToMint(m.mints, k.invoices)
           A == Came(k.invoices)
           S == SelfIn(m.mints)
           B == ChangeSum(m.change) + Flying(m.inflight) + SelfLeft(m.melts)
           B2 == ChangeSum(m2.change) + Flying(m2.inflight) + SelfLeft(m2.melts)
           P == Cost(k.payments, Noticed(m.melts))
           P2 == Cost(k.payments, Noticed(m2.melts))
<1>1. /\ I \in Nat /\ A \in Nat /\ S \in Nat /\ B \in Nat /\ B2 \in Nat /\ P \in Nat /\ P2 \in Nat
      /\ m.redeemed \in Nat /\ m2.redeemed \in Nat
  BY DEF SumsFit
<1>2. 1000 * (I + B) + P <= A + 1000 * (m.redeemed + S)
  BY <1>1, BalanceOf DEF SumsFit
<1>3. Balance(m2, k) <=> 1000 * (I + B2) + P2 <= A + 1000 * (m2.redeemed + S)
  BY <1>1, BalanceOf DEF SumsFit, MeltBalance
<1>4. 1000 * (B2 + m.redeemed) + P2 <= 1000 * (B + m2.redeemed) + P
  BY <1>1 DEF MeltBalance, SumsFit
<1> HIDE DEF I, A, S, B, B2, P, P2
<1> QED
  BY <1>1, <1>2, <1>3, <1>4

(* A melt by the self method is paid. *)
LEMMA SelfPaysBalance ==
  ASSUME NEW m, NEW k, NEW m2, SumsFit(m, k), SumsFit(m2, k), Balance(m, k), NEW q, SelfPays(m, m2, q)
  PROVE  Balance(m2, k)
<1>1. /\ Restated(m.melts, m2.melts, q, "paid") /\ m.melts[q].state # "paid" /\ m.melts[q].method = "self"
      /\ m2.mints = m.mints /\ m2.issued = m.issued /\ m2.inflight = m.inflight
      /\ ChangeSum(m2.change) + m.redeemed + m.melts[q].amount <= ChangeSum(m.change) + m2.redeemed
  BY DEF SelfPays
<1>2. Noticed(m2.melts) = Noticed(m.melts)
  BY <1>1, NoticedStays
<1>3. SelfLeft(m2.melts) = SelfLeft(m.melts) + m.melts[q].amount
  BY <1>1, SelfLeftRestated DEF SumsFit
<1>4. m.melts[q].amount \in Nat
  BY <1>1 DEF SumsFit, QuoteNumbers, Restated
<1>5. MeltBalance(m, m2, k)
  BY <1>1, <1>2, <1>3, <1>4 DEF MeltBalance, SumsFit
<1> QED
  BY <1>5, MeltBalances

(* A melt departs. *)
LEMMA DepartsBalance ==
  ASSUME NEW m, NEW k, NEW m2, SumsFit(m, k), SumsFit(m2, k), Balance(m, k), NEW q, NEW e, Departs(m, m2, q, e)
  PROVE  Balance(m2, k)
<1>1. /\ Restated(m.melts, m2.melts, q, "pending") /\ m.melts[q].state # "paid"
      /\ m2.mints = m.mints /\ m2.issued = m.issued /\ m2.change = m.change
      /\ q \notin DOMAIN m.inflight /\ m2.inflight = Put(m.inflight, q, e)
      /\ m2.redeemed = m.redeemed + e.total /\ e.total \in Nat
  BY DEF Departs
<1>2. Noticed(m2.melts) = Noticed(m.melts)
  BY <1>1, NoticedStays
<1>3. SelfLeft(m2.melts) = SelfLeft(m.melts)
  <2>1. SelfLeft(m2.melts) = SelfLeft(m.melts) + 0
    BY <1>1, SelfLeftRestated DEF SumsFit
  <2> QED
    BY <2>1 DEF SumsFit
<1>4. Flying(m2.inflight) = Flying(m.inflight) + e.total
  <2>1. Elsewhere(m.inflight, m2.inflight, q) /\ q \in DOMAIN m2.inflight /\ m2.inflight[q] = e
    BY <1>1 DEF Elsewhere, Put
  <2> QED
    BY <1>1, <2>1, FlyingMore DEF SumsFit
<1>5. MeltBalance(m, m2, k)
  BY <1>1, <1>2, <1>3, <1>4 DEF MeltBalance, SumsFit
<1> QED
  BY <1>5, MeltBalances

(* A melt is rolled back. *)
LEMMA RollsBackBalance ==
  ASSUME NEW m, NEW k, NEW cs0, NEW cs, NEW m2, SumsFit(m, k), SumsFit(m2, k), Balance(m, k),
         NEW q, RollsBack(m, k, cs0, cs, m2, q)
  PROVE  Balance(m2, k)
<1>1. /\ Restated(m.melts, m2.melts, q, "failed") /\ m.melts[q].state # "paid"
      /\ m2.mints = m.mints /\ m2.issued = m.issued /\ m2.change = m.change
      /\ q \in DOMAIN m.inflight /\ m2.inflight = Del(m.inflight, q)
      /\ m2.redeemed + m.inflight[q].total = m.redeemed
  BY DEF RollsBack
<1>2. Noticed(m2.melts) = Noticed(m.melts)
  BY <1>1, NoticedStays
<1>3. SelfLeft(m2.melts) = SelfLeft(m.melts)
  <2>1. SelfLeft(m2.melts) = SelfLeft(m.melts) + 0
    BY <1>1, SelfLeftRestated DEF SumsFit
  <2> QED
    BY <2>1 DEF SumsFit
<1>4. Flying(m.inflight) = Flying(m2.inflight) + m.inflight[q].total
  BY <1>1, FlyingLess DEF SumsFit
<1>5. m.inflight[q].total \in Nat
  BY <1>1 DEF SumsFit, FlightNumbers
<1>6. MeltBalance(m, m2, k)
  BY <1>1, <1>2, <1>3, <1>4, <1>5 DEF MeltBalance, SumsFit
<1> QED
  BY <1>6, MeltBalances

(* A melt settles: what was paid and the change are within its inputs. *)
LEMMA SettlesBalance ==
  ASSUME NEW m, NEW k, NEW m2, Agreeing(m, k), SumsFit(m, k), SumsFit(m2, k), Balance(m, k),
         NEW q, Settles(m, k, m2, q), k.payments[m.melts[q].request.hash] <= 1000 * m.melts[q].amount
  PROVE  Balance(m2, k)
<1> DEFINE h == m.melts[q].request.hash
           w == k.payments[h]
           amount == m.melts[q].amount
           reserve == m.melts[q].reserve
           e == m.inflight[q]
<1>1. /\ Restated(m.melts, m2.melts, q, "paid") /\ m.melts[q].state # "paid"
      /\ m2.mints = m.mints /\ m2.issued = m.issued /\ m2.redeemed = m.redeemed
      /\ q \in DOMAIN m.inflight /\ m2.inflight = Del(m.inflight, q) /\ h \in DOMAIN k.payments
      /\ ChangeSum(m2.change) + 2 <= ChangeSum(m.change) + reserve + e.excess
  BY DEF Settles
<1>2. /\ m.melts[q].method = "bolt11" /\ e.excess \in Nat /\ e.total \in Nat
      /\ e.excess + amount + reserve <= e.total
  BY <1>1 DEF Agreeing, MeltsAgree, FlightPays
<1>3. amount \in Nat /\ reserve \in Nat
  BY <1>1 DEF Agreeing, MeltsAgree, MeltFits, Restated
<1>4. w \in Nat /\ w <= 1000 * amount
  BY <1>1 DEF SumsFit, PaymentNumbers
<1>5. Cost(k.payments, Noticed(m2.melts)) <= Cost(k.payments, Noticed(m.melts)) + w + 2000
  <2>1. Noticed(m2.melts) = Noticed(m.melts) \cup {h}
    <3>1. /\ Noticed(m.melts) \subseteq Noticed(m2.melts) /\ Noticed(m2.melts) \subseteq Noticed(m.melts) \cup {h}
          /\ h \in Noticed(m2.melts)
      BY <1>1, <1>2, NoticedStays
    <3> QED
      BY <3>1
  <2>2. Cost(k.payments, Noticed(m.melts) \cup {h}) <= Cost(k.payments, Noticed(m.melts)) + w + 2000
    BY <1>1, CostMore DEF SumsFit
  <2> HIDE DEF h, w
  <2> QED
    BY <2>1, <2>2
<1>6. SelfLeft(m2.melts) = SelfLeft(m.melts)
  <2>1. SelfLeft(m2.melts) = SelfLeft(m.melts) + 0
    BY <1>1, <1>2, SelfLeftRestated DEF SumsFit
  <2> QED
    BY <2>1 DEF SumsFit
<1>7. Flying(m.inflight) = Flying(m2.inflight) + e.total
  BY <1>1, FlyingLess DEF SumsFit
<1> DEFINE C == ChangeSum(m.change)
           C2 == ChangeSum(m2.change)
           F == Flying(m.inflight)
           F2 == Flying(m2.inflight)
           L == SelfLeft(m.melts)
           P == Cost(k.payments, Noticed(m.melts))
           P2 == Cost(k.payments, Noticed(m2.melts))
           R == m.redeemed
           x1 == e.excess
           t == e.total
<1>8. /\ C \in Nat /\ C2 \in Nat /\ F \in Nat /\ F2 \in Nat /\ L \in Nat /\ P \in Nat /\ P2 \in Nat /\ R \in Nat
  BY DEF SumsFit
<1>9. /\ C2 + 2 <= C + reserve + x1 /\ F = F2 + t /\ P2 <= P + w + 2000 /\ x1 + amount + reserve <= t
      /\ x1 \in Nat /\ t \in Nat
  BY <1>1, <1>2, <1>5, <1>7
<1>10. MeltBalance(m, m2, k) <=> 1000 * (C2 + F2 + L + R) + P2 <= 1000 * (C + F + L + R) + P
  BY <1>1, <1>6 DEF MeltBalance
<1> HIDE DEF h, w, amount, reserve, e, C, C2, F, F2, L, P, P2, R, x1, t
<1>11. 1000 * (C2 + F2 + L + R) + P2 <= 1000 * (C + F + L + R) + P
  BY <1>3, <1>4, <1>8, <1>9
<1>12. MeltBalance(m, m2, k)
  BY <1>10, <1>11
<1> QED
  BY <1>12, MeltBalances

(* Whatever the mint does, the balance holds. *)
LEMMA MovesBalance ==
  ASSUME NEW m, NEW k, Agreeing(m, k), NEW cs0, NEW cs, NEW m2, Agreeing(m2, k), Balance(m, k),
         NEW names, Foreign(names, Wanted(m, cs0), k.payments), Moves(m, k, cs0, cs, m2)
  PROVE  Balance(m2, k)
<1>1. SumsFit(m, k) /\ SumsFit(m2, k)
  BY SumsAgree
<1>2. CASE Quiet(m, m2)
  BY <1>1, <1>2, QuietBalance
<1>3. CASE \E q : DepositMoves(m, k, cs, m2, q)
  BY <1>1, <1>3, DepositBalance
<1>4. CASE \E q : QuoteMoves(m, k, cs0, cs, m2, q)
  BY <1>1, <1>4, QuoteBalance
<1>5. CASE \E q : SelfPays(m, m2, q)
  BY <1>1, <1>5, SelfPaysBalance
<1>6. CASE \E q, e : Departs(m, m2, q, e)
  BY <1>1, <1>6, DepartsBalance
<1>7. CASE \E q : RollsBack(m, k, cs0, cs, m2, q)
  BY <1>1, <1>7, RollsBackBalance
<1>8. CASE \E q : Settles(m, k, m2, q)
  <2>1. PICK q : Settles(m, k, m2, q)
    BY <1>8
  <2>2. /\ q \in DOMAIN m.inflight /\ q \in DOMAIN m.melts
        /\ m.melts[q].request.hash \in DOMAIN k.payments
    BY <2>1 DEF Settles, Restated
  <2>3. m.melts[q].method = "bolt11" /\ MeltFits(m.melts[q], k.payments)
    BY <2>2 DEF Agreeing, MeltsAgree, FlightPays
  <2>4. m.melts[q].request \in Wanted(m, cs0) /\ m.melts[q].request.msat <= 1000 * m.melts[q].amount
    BY <2>2, <2>3 DEF Wanted, MeltFits
  <2>5. k.payments[m.melts[q].request.hash] = m.melts[q].request.msat
    BY <2>2, <2>4 DEF Foreign
  <2>6. k.payments[m.melts[q].request.hash] <= 1000 * m.melts[q].amount
    BY <2>4, <2>5
  <2> QED
    BY <1>1, <2>1, <2>6, SettlesBalance
<1> QED
  BY <1>2, <1>3, <1>4, <1>5, <1>6, <1>7, <1>8 DEF Moves

-----------------------------------------------------------------------------
(* Whole sats.                                                               *)

(* Rounded up, thousandths are whole, cover the thousandths, and are less than
   one more. *)
LEMMA RoundedUp ==
  ASSUME NEW n \in Nat
  PROVE  /\ CeilDiv(n, 1000) \in Nat
         /\ n <= 1000 * CeilDiv(n, 1000) /\ 1000 * CeilDiv(n, 1000) <= n + 999
<1>1. /\ (n + 999) \div 1000 \in Nat
      /\ n <= 1000 * ((n + 999) \div 1000) /\ 1000 * ((n + 999) \div 1000) <= n + 999
  OBVIOUS
<1>2. CeilDiv(n, 1000) = (n + 999) \div 1000
  BY DEF CeilDiv
<1> QED
  BY <1>1, <1>2

(* The fee of a list of proofs is a number. *)
LEMMA FeeIsNat ==
  ASSUME NEW m, OneSigns(m), NEW ins, AreProofs(ins)
  PROVE  ComputeFee(m, ins) \in Nat
<1> DEFINE f == [i \in DOMAIN ins |-> IF ins[i].id \in DOMAIN m.keysets THEN m.keysets[ins[i].id].fee ELSE 0]
<1>1. IsFiniteSet(DOMAIN ins)
  BY ListSeq DEF AreProofs
<1>2. \A k \in DOMAIN m.keysets : m.keysets[k].fee \in Nat
  BY DEF OneSigns
<1>3. DOMAIN f = DOMAIN ins /\ \A i \in DOMAIN ins : f[i] \in Nat
  BY <1>2
<1> HIDE DEF f
<1>4. Total(f) \in Nat
  BY <1>1, <1>3, SumType DEF Total, SumFunction
<1> QED
  BY <1>4, RoundedUp DEF ComputeFee, f

-----------------------------------------------------------------------------
(* The handlers that leave every quote as it is.                             *)

(* Nothing happens. *)
LEMMA SameQuiet ==
  ASSUME NEW m, NEW k, Agreeing(m, k)
  PROVE  Quiet(m, m)
BY SumsAgree DEF Agreeing, MeltsAgree, Quiet, SumsFit

(* Only what the invariant does not read changes, or settings that still cover
   the routing fee. *)
LEMMA OtherFields ==
  ASSUME NEW m, NEW k, Agreeing(m, k), NEW m2,
         But(m, m2, {"self", "ln", "bps", "floor", "now", "keysets", "active"}), Covers(m2.bps, m2.floor)
  PROVE  Quiet(m, m2)
<1>1. Shaped(m)
  BY DEF Agreeing, Kept
<1>2. /\ m2.mints = m.mints /\ m2.melts = m.melts /\ m2.inflight = m.inflight /\ m2.change = m.change
      /\ m2.attempts = m.attempts /\ m2.issued = m.issued /\ m2.redeemed = m.redeemed
  BY <1>1, Fields DEF But
<1>3. m.issued \in Nat /\ m.redeemed \in Nat
  BY <1>1 DEF Shaped
<1> QED
  BY <1>2, <1>3 DEF Quiet

(* A swap issues no more than it redeems. *)
LEMMA SwapQuiet ==
  ASSUME NEW m, NEW k, Agreeing(m, k), NEW r, Proper(m, r), r.op = "swap"
  PROVE  Quiet(m, PostSwap(m, r).mint)
<1> DEFINE fee == ComputeFee(m, r.inputs)
           claimed == AmountTotal(r.inputs)
           given == AmountTotal(r.outputs)
           c1 == When(Len(r.inputs) > MaxBatch \/ Len(r.outputs) > MaxBatch, "batch-too-large")
           c2 == When(fee > claimed, "fee-exceeds-inputs")
           c3 == When(claimed - fee # given, "amounts-do-not-balance")
           c4 == OutputError(m, r.outputs, FALSE)
           c5 == VerifyProofs(m, r.inputs)
           why == First(<<c1, c2, c3, c4, c5>>)
           sigs == Signatures(r.outputs)
           m2 == [Signed(m, sigs) EXCEPT !.spent = @ \cup Secrets(r.inputs),
                                         !.issued = @ + given,
                                         !.redeemed = @ + claimed]
<1>1. CASE why # Pass
  <2>1. PostSwap(m, r).mint = m
    BY <1>1 DEF PostSwap, Refuse, Reply
  <2> QED
    BY <2>1, SameQuiet
<1>2. CASE why = Pass
  <2>1. PostSwap(m, r).mint = m2
    BY <1>2 DEF PostSwap, Reply
  <2>2. c3 = Pass /\ c4 = Pass /\ c5 = Pass
    <3> HIDE DEF c1, c2, c3, c4, c5
    <3> QED
      BY <1>2, NoneFive
  <2>3. claimed - fee = given
    BY <2>2 DEF When, Pass
  <2>4. AreProofs(r.inputs) /\ AreOutputs(r.outputs)
    BY DEF Proper
  <2>5. claimed \in Nat
    BY <2>2, <2>4, InputsWorth DEF Agreeing, Kept
  <2>6. fee \in Nat
    BY <2>4, FeeIsNat DEF Agreeing, Kept
  <2>7. given \in Nat /\ given <= claimed
    <3>1. given \in Nat
      BY <2>2, <2>4, OutputsUnsigned
    <3> HIDE DEF given, claimed, fee
    <3> QED
      BY <2>3, <2>5, <2>6, <3>1
  <2>8. /\ m2.mints = m.mints /\ m2.melts = m.melts /\ m2.inflight = m.inflight /\ m2.change = m.change
        /\ m2.attempts = m.attempts /\ m2.bps = m.bps /\ m2.floor = m.floor
        /\ m2.issued = m.issued + given /\ m2.redeemed = m.redeemed + claimed
    <3> HIDE DEF sigs, claimed, given
    <3> QED
      BY Fields DEF Agreeing, Kept, Signed
  <2>9. m.issued \in Nat /\ m.redeemed \in Nat /\ Covers(m.bps, m.floor)
    BY DEF Agreeing, Kept, Shaped, MeltsAgree
  <2> HIDE DEF m2, given, claimed
  <2>10. Quiet(m, m2)
    BY <2>5, <2>7, <2>8, <2>9 DEF Quiet
  <2> QED
    BY <2>1, <2>10
<1> QED
  BY <1>1, <1>2

-----------------------------------------------------------------------------
(* Deposits.                                                                 *)

(* A deposit that changes, or ends, keeps its method and its amount; one that
   begins is asked about by no call. *)
LEMMA DepositChanges ==
  ASSUME NEW m, NEW k, Agreeing(m, k), NEW cs, NEW m2, NEW q,
         But(m, m2, {"mints", "issued", "revoked", "clamped", "signed", "given"}),
         Elsewhere(m.mints, m2.mints, q),
         q \in DOMAIN m2.mints => DepositFits(q, m2.mints[q], k.invoices),
         q \in DOMAIN m.mints \/ Fresh(DepositNames(m, k, cs), Wanted(m, cs), k.payments, q),
         q \in DOMAIN m.mints /\ q \in DOMAIN m2.mints =>
           m2.mints[q].self = m.mints[q].self /\ m2.mints[q].amount = m.mints[q].amount,
         m2.issued + ToMintAt(q, m2.mints, k.invoices) + SelfInAt(q, m.mints)
           <= m.issued + ToMintAt(q, m.mints, k.invoices) + SelfInAt(q, m2.mints)
  PROVE  DepositMoves(m, k, cs, m2, q)
<1>1. /\ m2.melts = m.melts /\ m2.inflight = m.inflight /\ m2.change = m.change
      /\ m2.attempts = m.attempts /\ m2.bps = m.bps /\ m2.floor = m.floor /\ m2.redeemed = m.redeemed
  BY Fields DEF But, Agreeing, Kept
<1>2. ASSUME NEW i \in DOMAIN cs, cs[i].call.quote = q
      PROVE  DepositStays(cs[i].call, m.mints, m2.mints)
  BY <1>2 DEF DepositStays, Fresh, DepositNames
<1> QED
  BY <1>1, <1>2 DEF DepositMoves

(* What a deposit adds to the sums, by its state. *)
LEMMA DepositWorth ==
  ASSUME NEW q, NEW mints, NEW invoices
  PROVE  /\ q \notin DOMAIN mints => ToMintAt(q, mints, invoices) = 0 /\ SelfInAt(q, mints) = 0
         /\ q \in DOMAIN mints =>
              /\ mints[q].state = "paid" => ToMintAt(q, mints, invoices) = mints[q].amount
              /\ mints[q].state = "issued" => ToMintAt(q, mints, invoices) = 0
              /\ mints[q].state = "unpaid" /\ q \in DOMAIN invoices /\ invoices[q].paid
                   => ToMintAt(q, mints, invoices) = mints[q].amount
              /\ mints[q].state = "unpaid" /\ ~(q \in DOMAIN invoices /\ invoices[q].paid)
                   => ToMintAt(q, mints, invoices) = 0
              /\ mints[q].self => SelfInAt(q, mints) = mints[q].amount
              /\ ~mints[q].self => SelfInAt(q, mints) = 0
BY DEF ToMintAt, SelfInAt, Awaited

(* A deposit of the mint. *)
LEMMA DepositFacts ==
  ASSUME NEW m, NEW k, Agreeing(m, k), NEW q \in DOMAIN m.mints
  PROVE  /\ DOMAIN m.mints[q] = {"amount", "self", "state", "invoice"} /\ m.mints[q].amount \in Nat
         /\ m.issued \in Nat /\ DepositFits(q, m.mints[q], k.invoices)
         /\ m.mints[q].self \in BOOLEAN /\ m.mints[q].state \in {"unpaid", "paid", "issued"}
         /\ m.mints[q].self => m.mints[q].state # "unpaid"
BY DEF Agreeing, Kept, Shaped, DepositsAgree, DepositFits

(* A deposit is asked for, under a name that nothing has. *)
LEMMA AskedMoves ==
  ASSUME NEW m, NEW k, Agreeing(m, k), NEW cs, NEW r, Proper(m, r), r.op = "mint-quote",
         Fresh(DepositNames(m, k, cs), Wanted(m, cs), k.payments, r.quote)
  PROVE  Moves(m, k, cs, cs, PostMintQuote(m, r).mint)
<1> DEFINE q == r.quote
           mq == MintQuote(r.amount, r.method = "self",
                           IF r.method = "self" THEN "paid" ELSE "unpaid", NoInvoice)
           m2 == [m EXCEPT !.mints = Put(@, q, mq)]
<1>1. PostMintQuote(m, r).mint = m \/ PostMintQuote(m, r).mint = m2
  BY DEF PostMintQuote, Refuse, Reply, Ask
<1>2. /\ q \notin DOMAIN m.mints /\ q \notin DOMAIN k.invoices
      /\ Fresh(DepositNames(m, k, cs), Wanted(m, cs), k.payments, q)
  BY DEF DepositNames, Fresh
<1>3. /\ mq.amount \in Nat /\ mq.self \in BOOLEAN /\ mq.invoice = NoInvoice
      /\ mq.self => mq.state = "paid"
      /\ ~mq.self => mq.state = "unpaid"
  BY DEF MintQuote, Proper
<1> HIDE DEF mq
<1>4. But(m, m2, {"mints", "issued", "revoked", "clamped", "signed", "given"})
      /\ m2.mints = Put(m.mints, q, mq) /\ m2.issued = m.issued
  BY Fields DEF But, Agreeing, Kept
<1> HIDE DEF m2
<1>5. Elsewhere(m.mints, m2.mints, q) /\ q \in DOMAIN m2.mints /\ m2.mints[q] = mq
  BY <1>4 DEF Elsewhere, Put
<1>6. DepositFits(q, m2.mints[q], k.invoices)
  BY <1>2, <1>3, <1>5 DEF DepositFits
<1>7. /\ ToMintAt(q, m.mints, k.invoices) = 0 /\ SelfInAt(q, m.mints) = 0
      /\ mq.self => ToMintAt(q, m2.mints, k.invoices) = mq.amount /\ SelfInAt(q, m2.mints) = mq.amount
      /\ ~mq.self => ToMintAt(q, m2.mints, k.invoices) = 0 /\ SelfInAt(q, m2.mints) = 0
  BY <1>2, <1>3, <1>5, DepositWorth
<1>8. m.issued \in Nat
  BY DEF Agreeing, Kept, Shaped
<1>9. m2.issued + ToMintAt(q, m2.mints, k.invoices) + SelfInAt(q, m.mints)
        <= m.issued + ToMintAt(q, m.mints, k.invoices) + SelfInAt(q, m2.mints)
  BY <1>3, <1>4, <1>7, <1>8
<1>10. DepositMoves(m, k, cs, m2, q)
  BY <1>2, <1>4, <1>5, <1>6, <1>9, DepositChanges
<1>11. Quiet(m, m)
  BY SameQuiet
<1> QED
  BY <1>1, <1>10, <1>11 DEF Moves

(* A deposit is minted. *)
LEMMA MintMoves ==
  ASSUME NEW m, NEW k, Agreeing(m, k), NEW cs, NEW r, Proper(m, r), r.op = "mint"
  PROVE  Moves(m, k, cs, cs, PostMint(m, r).mint)
<1> DEFINE q == r.quote
           mq == m.mints[q]
           c1 == When(r.method = "self" /\ ~m.self, "self-method-disabled")
           c2 == When(mq.self /\ ~m.self, "self-method-disabled")
           c3 == When(mq.state # "paid", "quote-not-paid")
           c4 == When(Len(r.outputs) > MaxBatch, "batch-too-large")
           c5 == When(AmountTotal(r.outputs) # mq.amount, "output-amount-mismatch")
           c6 == OutputError(m, r.outputs, FALSE)
           why == First(<<c1, c2, c3, c4, c5, c6>>)
           sigs == Signatures(r.outputs)
           m2 == [Signed(m, sigs) EXCEPT !.mints[q].state = "issued", !.issued = @ + mq.amount]
<1>1. CASE q \notin DOMAIN m.mints \/ why # Pass
  <2>1. PostMint(m, r).mint = m
    BY <1>1 DEF PostMint, Refuse, Reply
  <2> QED
    BY <2>1, SameQuiet DEF Moves
<1>2. CASE q \in DOMAIN m.mints /\ why = Pass
  <2>1. PostMint(m, r).mint = m2
    BY <1>2 DEF PostMint, Reply
  <2>2. c3 = Pass
    <3> HIDE DEF c1, c2, c3, c4, c5, c6
    <3> QED
      BY <1>2, NoneSix
  <2>3. mq.state = "paid"
    BY <2>2 DEF When, Pass
  <2>4. /\ But(m, m2, {"mints", "issued", "revoked", "clamped", "signed", "given"})
        /\ m2.issued = m.issued + mq.amount /\ m2.mints = [m.mints EXCEPT ![q].state = "issued"]
    <3> HIDE DEF sigs, mq
    <3> QED
      BY Fields DEF Agreeing, Kept, But, Signed
  <2> HIDE DEF m2
  <2>5. /\ DOMAIN mq = {"amount", "self", "state", "invoice"} /\ mq.amount \in Nat
        /\ m.issued \in Nat /\ DepositFits(q, mq, k.invoices) /\ mq.self \in BOOLEAN
    BY <1>2, DepositFacts
  <2>6. /\ Elsewhere(m.mints, m2.mints, q) /\ q \in DOMAIN m2.mints
        /\ m2.mints[q].state = "issued" /\ m2.mints[q].self = mq.self /\ m2.mints[q].amount = mq.amount
        /\ m2.mints[q].invoice = mq.invoice
    BY <1>2, <2>4, <2>5 DEF Elsewhere
  <2>7. DepositFits(q, m2.mints[q], k.invoices)
    BY <2>5, <2>6 DEF DepositFits
  <2>8. /\ ToMintAt(q, m.mints, k.invoices) = mq.amount /\ ToMintAt(q, m2.mints, k.invoices) = 0
        /\ mq.self => SelfInAt(q, m.mints) = mq.amount /\ SelfInAt(q, m2.mints) = mq.amount
        /\ ~mq.self => SelfInAt(q, m.mints) = 0 /\ SelfInAt(q, m2.mints) = 0
    BY <1>2, <2>3, <2>6, DepositWorth
  <2>9. m2.issued + ToMintAt(q, m2.mints, k.invoices) + SelfInAt(q, m.mints)
          <= m.issued + ToMintAt(q, m.mints, k.invoices) + SelfInAt(q, m2.mints)
    <3> HIDE DEF mq
    <3> QED
      BY <2>4, <2>5, <2>8
  <2>10. DepositMoves(m, k, cs, m2, q)
    BY <1>2, <2>4, <2>6, <2>7, <2>9, DepositChanges
  <2> QED
    BY <2>1, <2>10 DEF Moves
<1> QED
  BY <1>1, <1>2

(* A deposit ends that was not paid, or by the operator with what was issued
   taken off. *)
LEMMA DepositEnds ==
  ASSUME NEW m, NEW k, Agreeing(m, k), NEW cs, NEW m2, NEW q \in DOMAIN m.mints,
         But(m, m2, {"mints", "issued", "revoked", "clamped", "signed", "given"}),
         m2.mints = Del(m.mints, q), m2.issued \in Nat,
         \/ m2.issued = m.issued /\ m.mints[q].state # "issued" /\ ~m.mints[q].self
         \/ m2.issued = m.issued /\ m.mints[q].state \notin {"issued", "unpaid"}
         \/ m2.issued + m.mints[q].amount = m.issued
  PROVE  DepositMoves(m, k, cs, m2, q)
<1>1. /\ m.mints[q].amount \in Nat /\ m.issued \in Nat /\ m.mints[q].self \in BOOLEAN
      /\ m.mints[q].state \in {"unpaid", "paid", "issued"}
      /\ m.mints[q].self => m.mints[q].state # "unpaid"
  BY DepositFacts
<1>2. Elsewhere(m.mints, m2.mints, q) /\ q \notin DOMAIN m2.mints
  BY DEF Elsewhere, Del
<1>3. ToMintAt(q, m2.mints, k.invoices) = 0 /\ SelfInAt(q, m2.mints) = 0
  BY <1>2, DepositWorth
<1>4. /\ ToMintAt(q, m.mints, k.invoices) \in {0, m.mints[q].amount}
      /\ m.mints[q].state = "paid" => ToMintAt(q, m.mints, k.invoices) = m.mints[q].amount
      /\ SelfInAt(q, m.mints) \in {0, m.mints[q].amount}
      /\ ~m.mints[q].self => SelfInAt(q, m.mints) = 0
  BY <1>1, DepositWorth
<1>5. m2.issued + SelfInAt(q, m.mints) <= m.issued + ToMintAt(q, m.mints, k.invoices)
  <2> DEFINE t == ToMintAt(q, m.mints, k.invoices)
             u == SelfInAt(q, m.mints)
             w == m.mints[q].amount
  <2>1. t \in {0, w} /\ u \in {0, w} /\ w \in Nat /\ m.issued \in Nat /\ m2.issued \in Nat
    BY <1>1, <1>4
  <2>2. \/ m2.issued = m.issued /\ u = 0
        \/ m2.issued = m.issued /\ t = w
        \/ m2.issued + w = m.issued
    BY <1>1, <1>4
  <2> HIDE DEF t, u, w
  <2>3. m2.issued + u <= m.issued + t
    BY <2>1, <2>2
  <2> QED
    BY <2>3 DEF t, u
<1>6. m2.issued + ToMintAt(q, m2.mints, k.invoices) + SelfInAt(q, m.mints)
        <= m.issued + ToMintAt(q, m.mints, k.invoices) + SelfInAt(q, m2.mints)
  <2> DEFINE t == ToMintAt(q, m.mints, k.invoices)
             u == SelfInAt(q, m.mints)
  <2>1. t \in Nat /\ u \in Nat /\ m2.issued + u <= m.issued + t
    BY <1>1, <1>4, <1>5
  <2> HIDE DEF t, u
  <2>2. m2.issued + 0 + u <= m.issued + t + 0
    BY <1>1, <2>1
  <2> QED
    BY <1>3, <2>2 DEF t, u
<1> QED
  BY <1>2, <1>6, DepositChanges

(* A deposit stays as it is, or takes its invoice, or is found to be paid. *)
LEMMA DepositGoesOn ==
  ASSUME NEW m, NEW k, Agreeing(m, k), NEW cs, NEW m2, NEW q \in DOMAIN m.mints, NEW mq,
         m2 = [m EXCEPT !.mints = Put(@, q, mq)],
         mq.self = m.mints[q].self, mq.amount = m.mints[q].amount,
         mq.invoice = m.mints[q].invoice \/ mq.invoice.hash = q,
         \/ mq.state = m.mints[q].state
         \/ /\ m.mints[q].state = "unpaid" /\ mq.state = "paid"
            /\ q \in DOMAIN k.invoices /\ k.invoices[q].paid
  PROVE  DepositMoves(m, k, cs, m2, q)
<1>1. /\ m.mints[q].amount \in Nat /\ m.issued \in Nat /\ m.mints[q].self \in BOOLEAN
      /\ DepositFits(q, m.mints[q], k.invoices)
      /\ m.mints[q].state \in {"unpaid", "paid", "issued"}
      /\ m.mints[q].self => m.mints[q].state # "unpaid"
  BY DepositFacts
<1>2. But(m, m2, {"mints", "issued", "revoked", "clamped", "signed", "given"})
      /\ m2.mints = Put(m.mints, q, mq) /\ m2.issued = m.issued
  BY Fields DEF But, Agreeing, Kept
<1>3. Elsewhere(m.mints, m2.mints, q) /\ q \in DOMAIN m2.mints /\ m2.mints[q] = mq
  BY <1>2 DEF Elsewhere, Put
<1>4. DepositFits(q, m2.mints[q], k.invoices)
  BY <1>1, <1>3 DEF DepositFits
<1>5. ToMintAt(q, m2.mints, k.invoices) = ToMintAt(q, m.mints, k.invoices)
  BY <1>1, <1>3 DEF ToMintAt, Awaited
<1>6. SelfInAt(q, m2.mints) = SelfInAt(q, m.mints)
  BY <1>3 DEF SelfInAt
<1>7. m2.issued + ToMintAt(q, m2.mints, k.invoices) + SelfInAt(q, m.mints)
        <= m.issued + ToMintAt(q, m.mints, k.invoices) + SelfInAt(q, m2.mints)
  <2> DEFINE t == ToMintAt(q, m.mints, k.invoices)
             u == SelfInAt(q, m.mints)
  <2>1. t \in Nat /\ u \in Nat
    BY <1>1 DEF ToMintAt, SelfInAt
  <2> HIDE DEF t, u
  <2>2. m.issued + t + u <= m.issued + t + u
    BY <1>1, <2>1
  <2> QED
    BY <1>2, <1>5, <1>6, <2>2 DEF t, u
<1> QED
  BY <1>2, <1>3, <1>4, <1>7, DepositChanges

(* The invoice of a deposit arrives, or the deposit ends without one. *)
LEMMA CreatedMoves ==
  ASSUME NEW m, NEW k, Agreeing(m, k), NEW cs0, NEW cs, NEW y, CallFits(m, k, y), Done1(y),
         y.call.kind = "mint-quote-create"
  PROVE  Moves(m, k, cs0, cs, MintCreated(m, y.call, y.answer).mint)
<1> DEFINE c == y.call
           a == y.answer
           q == c.quote
           mq == [m.mints[q] EXCEPT !.invoice = a.invoice]
           m2 == [m EXCEPT !.mints = Put(@, q, mq)]
           m3 == [m EXCEPT !.mints = Del(@, q)]
<1>1. CreateFits(m, k, y)
  BY DEF CallFits
<1>2. CASE q \notin DOMAIN m.mints
  <2>1. MintCreated(m, c, a).mint = m
    BY <1>2 DEF MintCreated, Refuse, Reply
  <2> QED
    BY <2>1, SameQuiet DEF Moves
<1>3. CASE q \in DOMAIN m.mints /\ a.status \notin 200..299
  <2>1. MintCreated(m, c, a).mint = m3
    BY <1>3 DEF MintCreated, Refuse, Reply
  <2>2. ~m.mints[q].self
    BY <1>1, <1>3 DEF CreateFits
  <2>3. /\ But(m, m3, {"mints", "issued", "revoked", "clamped", "signed", "given"})
        /\ m3.mints = Del(m.mints, q) /\ m3.issued = m.issued
    BY Fields DEF But, Agreeing, Kept
  <2> HIDE DEF m3
  <2>4. /\ m.mints[q].amount \in Nat /\ m.issued \in Nat
        /\ m.mints[q].state \in {"unpaid", "paid", "issued"}
    BY <1>3, DepositFacts
  <2>5. /\ ToMintAt(q, m.mints, k.invoices) \in Nat /\ SelfInAt(q, m.mints) = 0
        /\ ToMintAt(q, m3.mints, k.invoices) = 0 /\ SelfInAt(q, m3.mints) = 0
    BY <1>3, <2>2, <2>3, <2>4, DepositWorth DEF ToMintAt, Del
  <2>6. Elsewhere(m.mints, m3.mints, q) /\ q \notin DOMAIN m3.mints
    BY <2>3 DEF Elsewhere, Del
  <2>7. m3.issued + ToMintAt(q, m3.mints, k.invoices) + SelfInAt(q, m.mints)
          <= m.issued + ToMintAt(q, m.mints, k.invoices) + SelfInAt(q, m3.mints)
    BY <2>3, <2>4, <2>5
  <2>8. DepositMoves(m, k, cs, m3, q)
    BY <1>3, <2>3, <2>6, <2>7, DepositChanges
  <2> QED
    BY <2>1, <2>8 DEF Moves
<1>4. CASE q \in DOMAIN m.mints /\ a.status \in 200..299
  <2>1. MintCreated(m, c, a).mint = m2
    BY <1>4 DEF MintCreated, Reply
  <2>2. a.invoice.hash = q
    BY <1>1, <1>4 DEF CreateFits, Good
  <2>3. DOMAIN m.mints[q] = {"amount", "self", "state", "invoice"}
    BY <1>4, DepositFacts
  <2>4. /\ mq.self = m.mints[q].self /\ mq.amount = m.mints[q].amount /\ mq.state = m.mints[q].state
        /\ mq.invoice = a.invoice
    BY <2>3
  <2> HIDE DEF mq
  <2>5. DepositMoves(m, k, cs, m2, q)
    BY <1>4, <2>2, <2>4, DepositGoesOn
  <2> QED
    BY <2>1, <2>5 DEF Moves
<1> QED
  BY <1>2, <1>3, <1>4

(* A deposit is found to be paid, or stays as it is. *)
LEMMA CheckedMoves ==
  ASSUME NEW m, NEW k, Agreeing(m, k), NEW cs0, NEW cs, NEW y, CallFits(m, k, y), Done1(y),
         y.call.kind = "mint-quote-check"
  PROVE  Moves(m, k, cs0, cs, MintChecked(m, y.call, y.answer).mint)
<1> DEFINE c == y.call
           a == y.answer
           q == c.quote
           mq == m.mints[q]
           seen == /\ mq.state = "unpaid" /\ m.ln = "lnbits" /\ a.status = 200 /\ a.paid
                   /\ a.msat > 0 => a.msat \div 1000 = 0 \/ a.msat \div 1000 >= mq.amount
           new == IF seen THEN [mq EXCEPT !.state = "paid"] ELSE mq
           m2 == [m EXCEPT !.mints = Put(@, q, new)]
<1>1. CheckFits(m, k, y)
  BY DEF CallFits
<1>2. CASE q \notin DOMAIN m.mints
  <2>1. MintChecked(m, c, a).mint = m
    BY <1>2 DEF MintChecked, Refuse, Reply
  <2> QED
    BY <2>1, SameQuiet DEF Moves
<1>3. CASE q \in DOMAIN m.mints
  <2>1. MintChecked(m, c, a).mint = m2
    BY <1>3 DEF MintChecked, Reply
  <2>2. seen => mq.state = "unpaid" /\ q \in DOMAIN k.invoices /\ k.invoices[q].paid
    BY <1>1 DEF CheckFits, TellsPaid
  <2> HIDE DEF seen
  <2>3. DOMAIN mq = {"amount", "self", "state", "invoice"}
    BY <1>3, DepositFacts
  <2>4. /\ new.self = mq.self /\ new.amount = mq.amount /\ new.invoice = mq.invoice
        /\ seen => new.state = "paid"
        /\ ~seen => new.state = mq.state
    BY <2>3
  <2> HIDE DEF new
  <2>5. DepositMoves(m, k, cs, m2, q)
    BY <1>3, <2>2, <2>4, DepositGoesOn
  <2> QED
    BY <2>1, <2>5 DEF Moves
<1> QED
  BY <1>2, <1>3

(* A quote is deleted. *)
LEMMA DeleteMoves ==
  ASSUME NEW m, NEW k, Agreeing(m, k), NEW cs, NEW r
  PROVE  Moves(m, k, cs, cs, QuoteDelete(m, r).mint)
<1> DEFINE q == r.quote
           m2 == [m EXCEPT !.mints = Del(@, q)]
           m3 == [m EXCEPT !.melts = Del(@, q)]
           b1 == When(m.mints[q].state = "issued", "cannot-delete-issued")
           b2 == When(m.mints[q].state = "paid", "cannot-delete-paid-mint")
           d1 == When(m.melts[q].state = "paid", "cannot-delete-paid-melt")
           d2 == When(m.melts[q].state = "pending" \/ q \in DOMAIN m.inflight,
                      "cannot-delete-pending-melt")
<1>1. CASE QuoteDelete(m, r).mint = m
  BY <1>1, SameQuiet DEF Moves
<1>2. CASE r.type = "mint" /\ QuoteDelete(m, r).mint # m
  <2>1. q \in DOMAIN m.mints /\ QuoteDelete(m, r).mint = m2 /\ First(<<b1, b2>>) = Pass
    BY <1>2 DEF QuoteDelete, Refuse, Reply
  <2>2. b1 = Pass /\ b2 = Pass
    <3> HIDE DEF b1, b2
    <3> QED
      BY <2>1, NoneTwo
  <2>3. m.mints[q].state # "issued" /\ m.mints[q].state # "paid"
    BY <2>2 DEF When, Pass
  <2>4. /\ But(m, m2, {"mints", "issued", "revoked", "clamped", "signed", "given"})
        /\ m2.mints = Del(m.mints, q) /\ m2.issued = m.issued
    BY Fields DEF But, Agreeing, Kept
  <2> HIDE DEF m2
  <2>5. ~m.mints[q].self /\ m2.issued \in Nat
    BY <2>1, <2>3, <2>4, DepositFacts
  <2>6. DepositMoves(m, k, cs, m2, q)
    BY <2>1, <2>3, <2>4, <2>5, DepositEnds
  <2> QED
    BY <2>1, <2>6 DEF Moves
<1>3. CASE r.type # "mint" /\ QuoteDelete(m, r).mint # m
  <2>1. q \in DOMAIN m.melts /\ QuoteDelete(m, r).mint = m3 /\ First(<<d1, d2>>) = Pass
    BY <1>3 DEF QuoteDelete, Refuse, Reply
  <2>2. d1 = Pass /\ d2 = Pass
    <3> HIDE DEF d1, d2
    <3> QED
      BY <2>1, NoneTwo
  <2>3. m.melts[q].state # "paid" /\ q \notin DOMAIN m.inflight
    BY <2>2 DEF When, Pass
  <2>4. /\ m3.melts = Del(m.melts, q)
        /\ m3.mints = m.mints /\ m3.inflight = m.inflight /\ m3.change = m.change
        /\ m3.attempts = m.attempts /\ m3.bps = m.bps /\ m3.floor = m.floor
        /\ m3.issued = m.issued /\ m3.redeemed = m.redeemed
    BY Fields DEF Agreeing, Kept
  <2> HIDE DEF m3
  <2>5. Elsewhere(m.melts, m3.melts, q) /\ q \notin DOMAIN m3.melts
    BY <2>4 DEF Elsewhere, Del
  <2>6. \A i \in DOMAIN cs : cs[i].call.quote = q => MeltStays(cs[i].call, m.melts, m3.melts)
    BY <2>5 DEF MeltStays
  <2>7. QuoteMoves(m, k, cs, cs, m3, q)
    BY <2>3, <2>4, <2>5, <2>6 DEF QuoteMoves
  <2> QED
    BY <2>1, <2>7 DEF Moves
<1> QED
  BY <1>1, <1>2, <1>3

(* A deposit is revoked. *)
LEMMA RevokeMoves ==
  ASSUME NEW m, NEW k, Agreeing(m, k), NEW cs, NEW r
  PROVE  Moves(m, k, cs, cs, QuoteRevoke(m, r).mint)
<1> DEFINE q == r.quote
           dec == IF m.mints[q].state = "issued" THEN m.mints[q].amount ELSE 0
           m2 == [m EXCEPT !.issued = @ - Min({dec, @}), !.revoked = @ + dec,
                           !.clamped = @ \/ dec > m.issued, !.mints = Del(@, q)]
<1>1. CASE q \notin DOMAIN m.mints
  <2>1. QuoteRevoke(m, r).mint = m
    BY <1>1 DEF QuoteRevoke, Refuse, Reply
  <2> QED
    BY <2>1, SameQuiet DEF Moves
<1>2. CASE q \in DOMAIN m.mints
  <2>1. QuoteRevoke(m, r).mint = m2
    BY <1>2 DEF QuoteRevoke, Reply
  <2>2. /\ But(m, m2, {"mints", "issued", "revoked", "clamped", "signed", "given"})
        /\ m2.mints = Del(m.mints, q) /\ m2.issued = m.issued - Min({dec, m.issued})
        /\ m2.clamped = (m.clamped \/ dec > m.issued)
    <3> HIDE DEF dec
    <3> QED
      BY Fields DEF But, Agreeing, Kept
  <2> HIDE DEF m2
  <2>3. Kept(m2)
    BY <2>1, QuoteRevokeKept DEF Agreeing
  <2>4. /\ m.mints[q].amount \in Nat /\ m.issued \in Nat /\ m.mints[q].self \in BOOLEAN
        /\ m.mints[q].state \in {"unpaid", "paid", "issued"}
        /\ m.mints[q].self => m.mints[q].state # "unpaid"
    BY <1>2, DepositFacts
  <2>5. dec \in Nat /\ ~(dec > m.issued)
    <3>1. ~m2.clamped
      BY <2>3 DEF Kept, Accounted
    <3>2. ~(dec > m.issued)
      <4> HIDE DEF dec
      <4> QED
        BY <2>2, <3>1, Zenon
    <3> QED
      BY <2>4, <3>2
  <2>6. m2.issued \in Nat /\ m2.issued + dec = m.issued
    <3> HIDE DEF dec
    <3>1. Min({dec, m.issued}) = dec
      BY <2>4, <2>5 DEF Min
    <3> QED
      BY <2>2, <2>4, <2>5, <3>1
  <2>7. \/ m2.issued = m.issued /\ m.mints[q].state # "issued" /\ ~m.mints[q].self
        \/ m2.issued = m.issued /\ m.mints[q].state \notin {"issued", "unpaid"}
        \/ m2.issued + m.mints[q].amount = m.issued
    BY <2>4, <2>6
  <2>8. DepositMoves(m, k, cs, m2, q)
    BY <1>2, <2>2, <2>6, <2>7, DepositEnds
  <2> QED
    BY <2>1, <2>8 DEF Moves
<1> QED
  BY <1>1, <1>2

-----------------------------------------------------------------------------
(* Melts.                                                                    *)

(* The reserve covers the routing fee, as the smallest reserve does. *)
LEMMA ReserveCovers ==
  ASSUME NEW amount \in Nat, NEW bps, NEW floor, Covers(bps, floor)
  PROVE  /\ MeltFeeReserve(amount, bps, floor) \in Nat
         /\ FeeMsat <= 1000 * MeltFeeReserve(amount, bps, floor)
<1> DEFINE p == amount * bps
           part == p \div 10000
<1>1. bps \in Nat /\ floor \in Nat /\ FeeMsat <= 1000 * floor
  BY DEF Covers
<1>2. p \in Nat
  BY <1>1
<1> HIDE DEF p
<1>3. part \in Nat
  BY <1>2
<1>4. MeltFeeReserve(amount, bps, floor) = Max({floor, part})
  BY DEF MeltFeeReserve, p
<1> HIDE DEF part
<1>5. Max({floor, part}) \in {floor, part} /\ \A j \in {floor, part} : Max({floor, part}) >= j
  BY <1>1, <1>3 DEF Max
<1> QED
  BY <1>1, <1>3, <1>4, <1>5, FeeNat

(* A melt by the self method is quoted. *)
LEMMA QuotedMoves ==
  ASSUME NEW m, NEW k, Agreeing(m, k), NEW cs, NEW r, Proper(m, r), r.op = "melt-quote",
         \A i \in DOMAIN cs : cs[i].call.kind \in MeltCalls => cs[i].call.quote # r.quote
  PROVE  Moves(m, k, cs, cs, PostMeltQuote(m, r).mint)
<1> DEFINE q == r.quote
           mq == MeltQuote(r.amount, 0, "self", SelfMelt, "unpaid")
           m2 == [m EXCEPT !.melts = Put(@, q, mq)]
<1>1. CASE PostMeltQuote(m, r).mint = m
  BY <1>1, SameQuiet DEF Moves
<1>2. CASE PostMeltQuote(m, r).mint # m
  <2>1. PostMeltQuote(m, r).mint = m2 /\ r.method = "self"
    BY <1>2 DEF PostMeltQuote, Refuse, Reply, Ask
  <2>2. q \notin DOMAIN m.melts /\ r.amount \in Nat
    BY <2>1 DEF Proper
  <2>3. /\ mq.amount = r.amount /\ mq.reserve = 0 /\ mq.method = "self" /\ mq.state = "unpaid"
    BY DEF MeltQuote
  <2>4. MeltFits(mq, k.payments)
    BY <2>2, <2>3 DEF MeltFits
  <2> HIDE DEF mq
  <2>5. /\ m2.melts = Put(m.melts, q, mq)
        /\ m2.mints = m.mints /\ m2.inflight = m.inflight /\ m2.change = m.change
        /\ m2.attempts = m.attempts /\ m2.bps = m.bps /\ m2.floor = m.floor
        /\ m2.issued = m.issued /\ m2.redeemed = m.redeemed
    BY Fields DEF Agreeing, Kept
  <2> HIDE DEF m2
  <2>6. Elsewhere(m.melts, m2.melts, q) /\ q \in DOMAIN m2.melts /\ m2.melts[q] = mq
    BY <2>5 DEF Elsewhere, Put
  <2>7. \A i \in DOMAIN cs : cs[i].call.quote = q => MeltStays(cs[i].call, m.melts, m2.melts)
    BY DEF MeltStays
  <2>8. q \notin DOMAIN m.inflight
    BY <2>2, FlightsAreMelts DEF Agreeing
  <2>9. QuoteMoves(m, k, cs, cs, m2, q)
    BY <2>2, <2>3, <2>4, <2>5, <2>6, <2>7, <2>8 DEF QuoteMoves
  <2> QED
    BY <2>1, <2>9 DEF Moves
<1> QED
  BY <1>1, <1>2

(* One by Lightning is, when its invoice was decoded. *)
LEMMA DecodedMoves ==
  ASSUME NEW m, NEW k, Agreeing(m, k), NEW cs0, CallsFit(m, k, cs0), NEW i \in DOMAIN cs0,
         cs0[i].call.kind = "melt-quote-create", Done1(cs0[i]),
         NEW names, Foreign(names, Wanted(m, cs0), k.payments)
  PROVE  Moves(m, k, cs0, Del(cs0, i), MeltQuoted(m, cs0[i].call, cs0[i].answer).mint)
<1> DEFINE y == cs0[i]
           c == y.call
           a == y.answer
           q == c.quote
           cs == Del(cs0, i)
           amount == CeilDiv(a.msat, 1000)
           reserve == MeltFeeReserve(amount, m.bps, m.floor)
           mq == MeltQuote(amount, reserve, "bolt11", c.invoice, "unpaid")
           m2 == [m EXCEPT !.melts = Put(@, q, mq)]
<1>1. CASE MeltQuoted(m, c, a).mint = m
  BY <1>1, SameQuiet DEF Moves
<1>2. CASE MeltQuoted(m, c, a).mint # m
  <2>1. MeltQuoted(m, c, a).mint = m2 /\ a.status \in 200..299
    BY <1>2 DEF MeltQuoted, Refuse, Reply
  <2>2. DecodeFits(m, y)
    BY DEF CallsFit, CallFits
  <2>3. q \notin DOMAIN m.melts /\ c.invoice.text = "bolt11" /\ a.msat = c.invoice.msat
    BY <2>1, <2>2 DEF DecodeFits, Good
  <2>4. c.invoice \in Wanted(m, cs0)
    BY <2>3 DEF Wanted, MeltCalls
  <2>5. a.msat \in Nat
    BY <2>3, <2>4 DEF Foreign
  <2>6. amount \in Nat /\ a.msat <= 1000 * amount
    <3> DEFINE n == a.msat
    <3>1. n \in Nat
      BY <2>5
    <3> HIDE DEF n
    <3>2. CeilDiv(n, 1000) \in Nat /\ n <= 1000 * CeilDiv(n, 1000)
      BY <3>1, RoundedUp
    <3> QED
      BY <3>2 DEF n
  <2>7. Covers(m.bps, m.floor)
    BY DEF Agreeing, MeltsAgree
  <2> HIDE DEF amount
  <2>8. reserve \in Nat /\ FeeMsat <= 1000 * reserve
    BY <2>6, <2>7, ReserveCovers
  <2> HIDE DEF reserve
  <2>9. /\ mq.amount = amount /\ mq.reserve = reserve /\ mq.method = "bolt11" /\ mq.request = c.invoice
        /\ mq.state = "unpaid"
    BY DEF MeltQuote
  <2> HIDE DEF mq
  <2>10. MeltFits(mq, k.payments)
    BY <2>3, <2>6, <2>8, <2>9 DEF MeltFits
  <2>11. /\ m2.melts = Put(m.melts, q, mq)
         /\ m2.mints = m.mints /\ m2.inflight = m.inflight /\ m2.change = m.change
         /\ m2.attempts = m.attempts /\ m2.bps = m.bps /\ m2.floor = m.floor
         /\ m2.issued = m.issued /\ m2.redeemed = m.redeemed
    BY Fields DEF Agreeing, Kept
  <2> HIDE DEF m2
  <2>12. Elsewhere(m.melts, m2.melts, q) /\ q \in DOMAIN m2.melts /\ m2.melts[q] = mq
    BY <2>11 DEF Elsewhere, Put
  <2>13. ASSUME NEW j \in DOMAIN cs, cs[j].call.quote = q
         PROVE  MeltStays(cs[j].call, m.melts, m2.melts)
    <3>1. j \in DOMAIN cs0 /\ j # i /\ cs[j] = cs0[j]
      BY DEF Del
    <3>2. PairFits(y, cs0[j])
      BY <3>1 DEF CallsFit
    <3>3. cs[j].call.kind \notin MeltCalls
      BY <2>13, <3>1, <3>2 DEF PairFits
    <3> QED
      BY <3>3 DEF MeltStays
  <2>14. q \notin DOMAIN m.inflight
    BY <2>3, FlightsAreMelts DEF Agreeing
  <2>15. QuoteMoves(m, k, cs0, cs, m2, q)
    BY <2>3, <2>4, <2>9, <2>10, <2>11, <2>12, <2>13, <2>14 DEF QuoteMoves
  <2> QED
    BY <2>1, <2>15 DEF Moves
<1> QED
  BY <1>1, <1>2

(* A melt in another state. *)
LEMMA OtherState ==
  ASSUME NEW m, Kept(m), NEW q \in DOMAIN m.melts, NEW state
  PROVE  /\ Restated(m.melts, [m.melts EXCEPT ![q].state = state], q, state)
         /\ Restated(m.melts, Put(m.melts, q, [m.melts[q] EXCEPT !.state = state]), q, state)
<1> DEFINE mq == [m.melts[q] EXCEPT !.state = state]
<1>1. DOMAIN m.melts[q] = {"amount", "reserve", "method", "request", "state"}
  BY DEF Kept, Shaped
<1>2. /\ mq.amount = m.melts[q].amount /\ mq.reserve = m.melts[q].reserve /\ mq.method = m.melts[q].method
      /\ mq.request = m.melts[q].request /\ mq.state = state
  BY <1>1
<1>3. [m.melts EXCEPT ![q].state = state] = [m.melts EXCEPT ![q] = mq]
  OBVIOUS
<1> HIDE DEF mq
<1>4. Restated(m.melts, [m.melts EXCEPT ![q] = mq], q, state)
  BY <1>2 DEF Restated
<1>5. Restated(m.melts, Put(m.melts, q, mq), q, state)
  BY <1>2 DEF Restated, Put
<1> QED
  BY <1>3, <1>4, <1>5 DEF mq

(* Change adds what it is worth. *)
LEMMA ChangeGrows ==
  ASSUME NEW m, QuotesFit(m), NEW q, q \notin DOMAIN m.change, NEW sigs, AmountTotal(sigs) \in Nat,
         NEW change, change = IF sigs = <<>> THEN m.change ELSE Put(m.change, q, sigs)
  PROVE  /\ ChangeSum(change) \in Nat /\ ChangeSum(m.change) \in Nat
         /\ ChangeSum(change) <= ChangeSum(m.change) + AmountTotal(sigs)
<1>1. ChangeSum(m.change) \in Nat
  BY ChangeNat DEF ChangeSum
<1>2. CASE sigs = <<>>
  BY <1>1, <1>2
<1>3. CASE sigs # <<>>
  <2>1. IsFiniteSet(DOMAIN m.change) /\ \A p \in DOMAIN m.change : AmountTotal(m.change[p]) \in Nat
    BY DEF QuotesFit
  <2>2. ChangeSum(change) = ChangeSum(m.change) + AmountTotal(sigs)
    BY <1>3, <2>1, ChangeMore DEF ChangeSum
  <2> QED
    BY <1>1, <2>2
<1> QED
  BY <1>2, <1>3

(* A melt pays by the self method, or departs with its inputs. *)
LEMMA MeltMoves ==
  ASSUME NEW m, NEW k, Agreeing(m, k), NEW cs, NEW r, Proper(m, r), r.op = "melt"
  PROVE  Moves(m, k, cs, cs, PostMelt(m, r).mint)
<1> DEFINE q == r.quote
           mq == m.melts[q]
           fee == ComputeFee(m, r.inputs)
           claimed == AmountTotal(r.inputs)
           need == mq.amount + mq.reserve
           c1 == When(r.method = "self" /\ ~m.self, "self-method-disabled")
           c2 == When(r.method # mq.method, "method-mismatch")
           c3 == When(mq.state = "pending", "quote-pending")
           c4 == When(mq.state = "paid", "quote-already-paid")
           c5 == When(Len(r.inputs) > MaxBatch \/ Len(r.outputs) > MaxBatch, "batch-too-large")
           c6 == When(fee > claimed, "fee-exceeds-inputs")
           c7 == When(claimed - fee < need, "insufficient-inputs")
           c8 == OutputError(m, r.outputs, TRUE)
           c9 == VerifyProofs(m, r.inputs)
           why == First(<<c1, c2, c3, c4, c5, c6, c7, c8, c9>>)
           excess == (claimed - fee) - need
           m1 == [m EXCEPT !.spent = @ \cup Secrets(r.inputs), !.redeemed = @ + claimed]
           sigs == SignChange(m, r.outputs, excess)
           paid == [mq EXCEPT !.state = "paid"]
           started == m.attempts + 1
           e == [secrets |-> Secrets(r.inputs), total |-> claimed, blanks |-> r.outputs,
                 excess |-> excess, started |-> started]
           m2 == [Signed(m1, sigs) EXCEPT !.melts = Put(@, q, paid),
                                          !.change = IF sigs = <<>> THEN @ ELSE Put(@, q, sigs)]
           m3 == [m1 EXCEPT !.melts[q].state = "pending", !.attempts = started,
                            !.inflight = Put(@, q, e)]
<1>1. CASE q \notin DOMAIN m.melts \/ why # Pass
  <2>1. PostMelt(m, r).mint = m
    BY <1>1 DEF PostMelt, Refuse, Reply
  <2> QED
    BY <2>1, SameQuiet DEF Moves
<1>2. CASE q \in DOMAIN m.melts /\ why = Pass
  <2>1. c2 = Pass /\ c3 = Pass /\ c4 = Pass /\ c6 = Pass /\ c7 = Pass /\ c9 = Pass
    <3> HIDE DEF c1, c2, c3, c4, c5, c6, c7, c8, c9
    <3> QED
      BY <1>2, NoneNine
  <2>2. /\ r.method = mq.method /\ mq.state \notin {"pending", "paid"}
        /\ ~(fee > claimed) /\ ~(claimed - fee < need)
    BY <2>1 DEF When, Pass
  <2>3. AreProofs(r.inputs) /\ AreOutputs(r.outputs)
    BY DEF Proper
  <2>4. OneSigns(m) /\ SignedFit(m) /\ QuotesFit(m) /\ Shaped(m) /\ m.redeemed \in Nat /\ Kept(m)
    BY DEF Agreeing, Kept, Shaped
  <2>5. claimed \in Nat
    BY <2>1, <2>3, <2>4, InputsWorth
  <2>6. fee \in Nat
    BY <2>3, <2>4, FeeIsNat
  <2>7. mq.amount \in Nat /\ mq.reserve \in Nat /\ mq.method \in {"self", "bolt11"}
    <3>1. MeltFits(mq, k.payments)
      BY <1>2 DEF Agreeing, MeltsAgree
    <3> QED
      BY <3>1 DEF MeltFits
  <2>8. excess \in Nat /\ excess + mq.amount + mq.reserve <= claimed
    <3> DEFINE v == mq.amount
               w == mq.reserve
    <3>1. v \in Nat /\ w \in Nat /\ ~(claimed - fee < v + w)
      BY <2>2, <2>7
    <3> HIDE DEF claimed, fee, v, w
    <3>2. (claimed - fee) - (v + w) \in Nat /\ (claimed - fee) - (v + w) + v + w <= claimed
      BY <2>5, <2>6, <3>1
    <3> QED
      BY <3>2 DEF v, w
  <2>9. q \notin DOMAIN m.inflight /\ mq.state # "paid" /\ q \notin DOMAIN m.change
    BY <1>2, <2>2, <2>4 DEF QuotesFit
  <2>10. CASE r.method = "self"
    <3>1. PostMelt(m, r).mint = m2
      BY <1>2, <2>10 DEF PostMelt, Reply
    <3>2. AmountTotal(sigs) \in Nat /\ AmountTotal(sigs) <= excess
      <4> HIDE DEF excess
      <4> QED
        BY <2>3, <2>4, <2>8, ChangeWithin
    <3>3. Restated(m.melts, Put(m.melts, q, paid), q, "paid")
      BY <1>2, <2>4, OtherState
    <3> HIDE DEF sigs, paid, claimed, excess
    <3>4. /\ m2.mints = m.mints /\ m2.inflight = m.inflight /\ m2.attempts = m.attempts
          /\ m2.bps = m.bps /\ m2.floor = m.floor /\ m2.issued = m.issued
          /\ m2.redeemed = m.redeemed + claimed /\ m2.melts = Put(m.melts, q, paid)
          /\ m2.change = IF sigs = <<>> THEN m.change ELSE Put(m.change, q, sigs)
      BY <2>4, Fields DEF Signed
    <3> HIDE DEF m2
    <3>5. /\ ChangeSum(m2.change) \in Nat /\ ChangeSum(m.change) \in Nat
          /\ ChangeSum(m2.change) <= ChangeSum(m.change) + AmountTotal(sigs)
      BY <2>4, <2>9, <3>2, <3>4, ChangeGrows
    <3>6. ChangeSum(m2.change) + m.redeemed + m.melts[q].amount <= ChangeSum(m.change) + m2.redeemed
      <4> DEFINE s == ChangeSum(m2.change)
                 t == ChangeSum(m.change)
                 u == AmountTotal(sigs)
                 v == mq.amount
                 w == mq.reserve
      <4>1. s \in Nat /\ t \in Nat /\ u \in Nat /\ v \in Nat /\ w \in Nat
            /\ s <= t + u /\ u <= excess /\ excess + v + w <= claimed
        BY <2>7, <2>8, <3>2, <3>5
      <4> HIDE DEF s, t, u, v, w
      <4>2. s + m.redeemed + v <= t + m2.redeemed
        BY <2>4, <2>5, <2>8, <3>4, <4>1
      <4> QED
        BY <4>2 DEF s, t, v
    <3>7. SelfPays(m, m2, q)
      BY <2>2, <2>9, <2>10, <3>3, <3>4, <3>6 DEF SelfPays
    <3> QED
      BY <3>1, <3>7 DEF Moves
  <2>11. CASE r.method # "self"
    <3>1. PostMelt(m, r).mint = m3
      BY <1>2, <2>11 DEF PostMelt, Ask
    <3>2. e.total = claimed /\ e.excess = excess /\ e.started = started
      OBVIOUS
    <3>3. Restated(m.melts, [m.melts EXCEPT ![q].state = "pending"], q, "pending")
      BY <1>2, <2>4, OtherState
    <3> HIDE DEF e, claimed, excess
    <3>4. /\ m3.mints = m.mints /\ m3.change = m.change /\ m3.attempts = m.attempts + 1
          /\ m3.bps = m.bps /\ m3.floor = m.floor /\ m3.issued = m.issued
          /\ m3.redeemed = m.redeemed + claimed /\ m3.inflight = Put(m.inflight, q, e)
          /\ m3.melts = [m.melts EXCEPT ![q].state = "pending"]
      BY <2>4, Fields
    <3> HIDE DEF m3
    <3>5. Departs(m, m3, q, e)
      BY <2>2, <2>5, <2>7, <2>8, <2>9, <2>11, <3>2, <3>3, <3>4 DEF Departs
    <3> QED
      BY <3>1, <3>5 DEF Moves
  <2> QED
    BY <2>10, <2>11
<1> QED
  BY <1>1, <1>2

(* The routing fee that the mock reports costs two sats of the reserve. *)
LEMMA TwoSats ==
  ASSUME NEW reserve \in Nat, FeeMsat <= 1000 * reserve, NEW excess \in Nat
  PROVE  /\ MeltChange(reserve, RoutingFeeSats(<<-FeeMsat>>, reserve), excess) \in Nat
         /\ MeltChange(reserve, RoutingFeeSats(<<-FeeMsat>>, reserve), excess) + 2 = reserve + excess
<1>1. reserve >= 2
  BY FeeNat
<1>2. Min({2, reserve}) = 2
  BY <1>1 DEF Min
<1>3. CeilDiv(FeeMsat, 1000) = 2
  BY FeeNat DEF CeilDiv
<1>4. RoutingFeeSats(<<-FeeMsat>>, reserve) = 2
  <2> DEFINE f == FeeMsat
             v == -f
             fee == <<v>>
  <2>1. f \in Nat /\ f > 0 /\ CeilDiv(f, 1000) = 2
    BY <1>3, FeeNat
  <2> HIDE DEF f
  <2>2. v < 0 /\ -v = f
    BY <2>1
  <2> HIDE DEF v
  <2>3. Len(fee) = 1 /\ Len(<<>>) = 0 /\ fee[1] = v
    OBVIOUS
  <2> HIDE DEF fee
  <2>4. fee # <<>>
    BY <2>3
  <2> DEFINE msat == IF fee[1] < 0 THEN -fee[1] ELSE fee[1]
  <2>5. RoutingFeeSats(fee, reserve) = Min({CeilDiv(msat, 1000), reserve})
    BY <2>4, Zenon DEF RoutingFeeSats
  <2>6. msat = f
    BY <2>2, <2>3
  <2> HIDE DEF msat
  <2>7. RoutingFeeSats(fee, reserve) = 2
    BY <1>2, <2>1, <2>5, <2>6
  <2> QED
    BY <2>7 DEF fee, v, f
<1>5. MeltChange(reserve, 2, excess) = (reserve - 2) + excess
  BY <1>2 DEF MeltChange
<1> QED
  BY <1>1, <1>4, <1>5

(* A melt that was paid for settles. *)
LEMMA SettleMoves ==
  ASSUME NEW m, NEW k, Agreeing(m, k), NEW q \in DOMAIN m.inflight,
         m.melts[q].request.hash \in DOMAIN k.payments, NEW fee, fee = <<-FeeMsat>>
  PROVE  Settles(m, k, SettleMelt(m, q, fee), q)
<1> DEFINE e == m.inflight[q]
           over == MeltChange(m.melts[q].reserve, RoutingFeeSats(fee, m.melts[q].reserve), e.excess)
           sigs == SignChange(m, e.blanks, over)
           m2 == [Signed(m, sigs) EXCEPT !.change = IF sigs = <<>> THEN @ ELSE Put(@, q, sigs),
                                         !.melts[q].state = "paid",
                                         !.inflight = Del(@, q)]
<1>1. SettleMelt(m, q, fee) = m2
  BY DEF SettleMelt
<1>2. OneSigns(m) /\ QuotesFit(m) /\ FlightsFit(m) /\ Shaped(m) /\ Kept(m)
  BY DEF Agreeing, Kept
<1>3. AreOutputs(e.blanks)
  BY <1>2 DEF FlightsFit, FlightFits
<1>4. q \in DOMAIN m.melts /\ m.melts[q].state = "pending" /\ q \notin DOMAIN m.change
  BY <1>2 DEF QuotesFit
<1>5. FlightPays(e, m.melts[q], m.attempts) /\ MeltFits(m.melts[q], k.payments)
  BY <1>4 DEF Agreeing, MeltsAgree
<1>6. /\ m.melts[q].reserve \in Nat /\ e.excess \in Nat /\ FeeMsat <= 1000 * m.melts[q].reserve
  BY <1>5 DEF FlightPays, MeltFits
<1>7. over \in Nat /\ over + 2 = m.melts[q].reserve + e.excess
  BY <1>6, TwoSats
<1> HIDE DEF over
<1>8. AmountTotal(sigs) \in Nat /\ AmountTotal(sigs) <= over
  <2> HIDE DEF e
  <2> QED
    BY <1>2, <1>3, <1>7, ChangeWithin
<1> HIDE DEF sigs
<1>9. /\ m2.mints = m.mints /\ m2.attempts = m.attempts
      /\ m2.bps = m.bps /\ m2.floor = m.floor /\ m2.issued = m.issued /\ m2.redeemed = m.redeemed
      /\ m2.change = IF sigs = <<>> THEN m.change ELSE Put(m.change, q, sigs)
      /\ m2.melts = [m.melts EXCEPT ![q].state = "paid"] /\ m2.inflight = Del(m.inflight, q)
  BY <1>2, Fields DEF Signed
<1> HIDE DEF m2
<1>10. Restated(m.melts, m2.melts, q, "paid")
  <2>1. Restated(m.melts, [m.melts EXCEPT ![q].state = "paid"], q, "paid")
    BY <1>2, <1>4, OtherState
  <2> QED
    BY <1>9, <2>1
<1>11. /\ ChangeSum(m2.change) \in Nat /\ ChangeSum(m.change) \in Nat
       /\ ChangeSum(m2.change) <= ChangeSum(m.change) + AmountTotal(sigs)
  BY <1>2, <1>4, <1>8, <1>9, ChangeGrows
<1>12. ChangeSum(m2.change) + 2 <= ChangeSum(m.change) + m.melts[q].reserve + m.inflight[q].excess
  <2> DEFINE s == ChangeSum(m2.change)
             t == ChangeSum(m.change)
             u == AmountTotal(sigs)
             v == m.melts[q].reserve
             w == m.inflight[q].excess
  <2>1. s \in Nat /\ t \in Nat /\ u \in Nat /\ v \in Nat /\ w \in Nat
        /\ s <= t + u /\ u <= over /\ over + 2 = v + w
    BY <1>6, <1>7, <1>8, <1>11
  <2> HIDE DEF s, t, u, v, w
  <2>2. s + 2 <= t + v + w
    BY <1>7, <2>1
  <2> QED
    BY <2>2 DEF s, t, v, w
<1>13. Settles(m, k, m2, q)
  BY <1>4, <1>9, <1>10, <1>12 DEF Settles
<1> QED
  BY <1>1, <1>13

(* A melt that is not to hold on to its inputs is rolled back. *)
LEMMA RollbackMoves ==
  ASSUME NEW m, NEW k, Agreeing(m, k), NEW cs0, NEW cs, NEW q \in DOMAIN m.inflight,
         m.melts[q].request.hash \in DOMAIN k.payments => ~Safe(m, cs0, q),
         \A i \in DOMAIN cs :
           cs[i].call.kind = "melt-pay" /\ cs[i].call.quote = q /\ cs[i].call.att = m.inflight[q].started
             => Done1(cs[i])
  PROVE  RollsBack(m, k, cs0, cs, RollbackMelt(m, q), q)
<1> DEFINE e == m.inflight[q]
           m2 == RollbackMelt(m, q)
<1>1. QuotesFit(m) /\ Shaped(m) /\ Kept(m) /\ m.redeemed \in Nat
  BY DEF Agreeing, Kept, Shaped
<1>2. q \in DOMAIN m.melts /\ m.melts[q].state = "pending"
  BY <1>1 DEF QuotesFit
<1>3. e.total \in Nat
  BY DEF Agreeing, MeltsAgree, FlightPays
<1>4. /\ m2.mints = m.mints /\ m2.change = m.change /\ m2.attempts = m.attempts
      /\ m2.bps = m.bps /\ m2.floor = m.floor /\ m2.issued = m.issued
      /\ m2.redeemed = m.redeemed - Min({e.total, m.redeemed})
      /\ m2.clamped = (m.clamped \/ e.total > m.redeemed)
      /\ m2.melts = [m.melts EXCEPT ![q].state = "failed"]
      /\ m2.inflight = Del(m.inflight, q)
  BY <1>1, Fields DEF RollbackMelt
<1>5. ~m2.clamped
  BY <1>1, RollbackKept DEF Kept, Accounted
<1> HIDE DEF m2, e
<1>6. ~(e.total > m.redeemed)
  BY <1>4, <1>5, Zenon
<1>7. Min({e.total, m.redeemed}) = e.total
  BY <1>1, <1>3, <1>6 DEF Min
<1>8. m2.redeemed + e.total = m.redeemed
  BY <1>1, <1>3, <1>4, <1>7
<1>9. Restated(m.melts, m2.melts, q, "failed")
  BY <1>1, <1>2, <1>4, OtherState
<1>10. RollsBack(m, k, cs0, cs, m2, q)
  BY <1>2, <1>4, <1>8, <1>9 DEF RollsBack, e
<1> QED
  BY <1>10 DEF m2

-----------------------------------------------------------------------------
(* Answers about melts.                                                      *)

\* a call about a melt that was asked for
AboutMelt == {"melt-pay", "melt-check", "melt-abort"}

(* Such a call is of an attempt of its melt. *)
LEMMA OfItsMelt ==
  ASSUME NEW m, NEW k, Agreeing(m, k), NEW y, CallFits(m, k, y), y.call.kind \in AboutMelt
  PROVE  /\ y.call.att # 0
         /\ y.call.quote \in DOMAIN m.melts => m.melts[y.call.quote].request = y.call.invoice
         /\ \A q : ThisAttempt(m, y.call.att, q) /\ q \in DOMAIN m.inflight
                     => y.call.att = m.inflight[q].started
<1>1. Concerns(m, y.call)
  BY DEF CallFits, AboutMelt, PayFits, StatusFits
<1>2. m.attempts \in Nat
  BY DEF Agreeing, MeltsAgree
<1>3. y.call.att # 0
  BY <1>1, <1>2 DEF Concerns
<1> QED
  BY <1>1, <1>3 DEF Concerns, ThisAttempt, AttemptOf

(* An answer that tells of the payment settles its melt. *)
LEMMA ToldSettles ==
  ASSUME NEW m, NEW k, Agreeing(m, k), NEW cs0, NEW cs, NEW y, CallFits(m, k, y), y.call.kind \in AboutMelt,
         y.call.quote \in DOMAIN m.melts, m.melts[y.call.quote].state = "pending",
         MadeBy(y.call, k.payments), y.answer.fee = <<-FeeMsat>>
  PROVE  Moves(m, k, cs0, cs, SettleMelt(m, y.call.quote, y.answer.fee))
<1> DEFINE q == y.call.quote
<1>1. q \in DOMAIN m.inflight
  BY PendingFlies DEF Agreeing
<1>2. m.melts[q].request = y.call.invoice
  BY OfItsMelt
<1>3. m.melts[q].request.hash \in DOMAIN k.payments
  BY <1>2 DEF MadeBy
<1>4. Settles(m, k, SettleMelt(m, q, y.answer.fee), q)
  BY <1>1, <1>3, SettleMoves
<1> QED
  BY <1>4 DEF Moves

(* One that may roll its melt back, and does, was of the attempt in flight. *)
LEMMA DoomRollsBack ==
  ASSUME NEW m, NEW k, Agreeing(m, k), NEW cs0, CallsFit(m, k, cs0), NEW i \in DOMAIN cs0,
         cs0[i].call.kind \in AboutMelt, Doomed(cs0[i]), Done1(cs0[i]),
         NEW q, q = cs0[i].call.quote, q \in DOMAIN m.inflight, ThisAttempt(m, cs0[i].call.att, q)
  PROVE  Moves(m, k, cs0, Del(cs0, i), RollbackMelt(m, q))
<1> DEFINE y == cs0[i]
           cs == Del(cs0, i)
<1>1. CallFits(m, k, y)
  BY DEF CallsFit
<1>2. y.call.att = m.inflight[q].started
  BY <1>1, OfItsMelt
<1>3. ~Safe(m, cs0, q)
  BY <1>2 DEF Safe
<1>4. ASSUME NEW j \in DOMAIN cs, cs[j].call.kind = "melt-pay", cs[j].call.quote = q,
             cs[j].call.att = m.inflight[q].started
      PROVE  Done1(cs[j])
  <2>1. j \in DOMAIN cs0 /\ j # i /\ cs[j] = cs0[j]
    BY DEF Del
  <2>2. PairFits(y, cs0[j])
    BY <2>1 DEF CallsFit
  <2>3. SameTry(y.call, cs0[j].call)
    BY <1>2, <1>4, <2>1 DEF SameTry
  <2>4. y.call.kind = "melt-pay" \/ Forces(y)
    BY DEF Doomed
  <2> QED
    BY <1>4, <2>1, <2>2, <2>3, <2>4 DEF PairFits
<1>5. RollsBack(m, k, cs0, cs, RollbackMelt(m, q), q)
  <2> HIDE DEF cs
  <2> QED
    BY <1>3, <1>4, RollbackMoves
<1> QED
  BY <1>5 DEF Moves

(* The answer of a payment, of a status and of an abort. *)
LEMMA PayAnswerMoves ==
  ASSUME NEW m, NEW k, Agreeing(m, k), NEW cs0, CallsFit(m, k, cs0), NEW i \in DOMAIN cs0,
         cs0[i].call.kind = "melt-pay", Done1(cs0[i])
  PROVE  Moves(m, k, cs0, Del(cs0, i), MeltPaid(m, cs0[i].call, cs0[i].answer).mint)
<1> DEFINE y == cs0[i]
           c == y.call
           a == y.answer
           q == c.quote
           pending == m.melts[q].state = "pending"
           rejected == m.ln = "lnbits" /\ a.status = 400 /\ ~a.hash
           settled == a.status \in 200..299 /\ a.preimage
           rolls == rejected /\ pending /\ ThisAttempt(m, c.att, q) /\ q \in DOMAIN m.inflight
           m2 == IF rolls THEN RollbackMelt(m, q)
                 ELSE IF settled /\ pending THEN SettleMelt(m, q, a.fee) ELSE m
<1>1. CallFits(m, k, y) /\ y.call.kind \in AboutMelt
  BY DEF CallsFit, AboutMelt
<1>2. CASE q \notin DOMAIN m.melts
  <2>1. MeltPaid(m, c, a).mint = m
    BY <1>2 DEF MeltPaid, Refuse, Reply
  <2> QED
    BY <2>1, SameQuiet DEF Moves
<1>3. CASE q \in DOMAIN m.melts
  <2>1. MeltPaid(m, c, a).mint = m2
    BY <1>3 DEF MeltPaid, Reply
  <2>2. CASE rolls
    <3>1. Doomed(y)
      BY <2>2 DEF Doomed
    <3>2. Moves(m, k, cs0, Del(cs0, i), RollbackMelt(m, q))
      BY <1>1, <2>2, <3>1, DoomRollsBack
    <3> QED
      BY <2>1, <2>2, <3>2
  <2>3. CASE ~rolls /\ settled /\ pending
    <3>1. PayFits(m, k, y)
      BY <1>1 DEF CallFits
    <3>2. MadeBy(c, k.payments) /\ a.fee = <<-FeeMsat>>
      BY <2>3, <3>1 DEF PayFits, Good
    <3>3. Moves(m, k, cs0, Del(cs0, i), SettleMelt(m, q, a.fee))
      BY <1>1, <1>3, <2>3, <3>2, ToldSettles
    <3>4. m2 = SettleMelt(m, q, a.fee)
      BY <2>3
    <3> HIDE DEF m2
    <3> QED
      BY <2>1, <3>3, <3>4
  <2>4. CASE ~rolls /\ ~(settled /\ pending)
    <3>1. m2 = m
      BY <2>4
    <3>2. Moves(m, k, cs0, Del(cs0, i), m)
      BY SameQuiet DEF Moves
    <3> HIDE DEF m2
    <3> QED
      BY <2>1, <3>1, <3>2
  <2> QED
    BY <2>2, <2>3, <2>4
<1> QED
  BY <1>2, <1>3

(* An answer to a payment check settles the melt, if it is paid, or changes nothing. *)
LEMMA StatusAnswerMoves ==
  ASSUME NEW m, NEW k, Agreeing(m, k), NEW cs0, CallsFit(m, k, cs0), NEW i \in DOMAIN cs0,
         cs0[i].call.kind = "melt-check", Done1(cs0[i])
  PROVE  Moves(m, k, cs0, Del(cs0, i), MeltChecked(m, cs0[i].call, cs0[i].answer).mint)
<1> DEFINE y == cs0[i]
           c == y.call
           a == y.answer
           q == c.quote
           told == m.melts[q].state = "pending" /\ m.ln = "lnbits" /\ a.status = 200 /\ a.paid
           m2 == IF told THEN SettleMelt(m, q, a.fee) ELSE m
<1>1. CallFits(m, k, y) /\ y.call.kind \in AboutMelt
  BY DEF CallsFit, AboutMelt
<1>2. CASE q \notin DOMAIN m.melts
  <2>1. MeltChecked(m, c, a).mint = m
    BY <1>2 DEF MeltChecked, Refuse, Reply
  <2> QED
    BY <2>1, SameQuiet DEF Moves
<1>3. CASE q \in DOMAIN m.melts
  <2>1. MeltChecked(m, c, a).mint = m2
    BY <1>3 DEF MeltChecked, Reply
  <2>2. CASE told
    <3>1. StatusFits(m, k, y)
      BY <1>1 DEF CallFits
    <3>2. MadeBy(c, k.payments) /\ a.fee = <<-FeeMsat>>
      BY <2>2, <3>1 DEF StatusFits, TellsPaid
    <3>3. Moves(m, k, cs0, Del(cs0, i), SettleMelt(m, q, a.fee))
      BY <1>1, <1>3, <2>2, <3>2, ToldSettles
    <3> QED
      BY <2>1, <2>2, <3>3
  <2>3. CASE ~told
    <3>1. m2 = m
      BY <2>3
    <3> QED
      BY <2>1, <3>1, SameQuiet DEF Moves
  <2> QED
    BY <2>2, <2>3
<1> QED
  BY <1>2, <1>3

(* An answer to the check of an abort settles the melt, if it is paid, rolls it
   back, if it is not and the abort is forced, or changes nothing. *)
LEMMA AbortAnswerMoves ==
  ASSUME NEW m, NEW k, Agreeing(m, k), NEW cs0, CallsFit(m, k, cs0), NEW i \in DOMAIN cs0,
         cs0[i].call.kind = "melt-abort", Done1(cs0[i])
  PROVE  Moves(m, k, cs0, Del(cs0, i), LnMeltAbort(m, cs0[i].call, cs0[i].answer).mint)
<1> DEFINE y == cs0[i]
           c == y.call
           a == y.answer
           q == c.quote
           told == m.ln = "lnbits" /\ a.status = 200 /\ a.paid
<1>1. CallFits(m, k, y) /\ y.call.kind \in AboutMelt
  BY DEF CallsFit, AboutMelt
<1>2. CASE LnMeltAbort(m, c, a).mint = m
  BY <1>2, SameQuiet DEF Moves
<1>3. CASE LnMeltAbort(m, c, a).mint # m
  <2>1. q \in DOMAIN m.melts /\ m.melts[q].state = "pending"
    BY <1>3 DEF LnMeltAbort, Refuse, Aborted, Reply
  <2>2. CASE told
    <3>1. LnMeltAbort(m, c, a).mint = SettleMelt(m, q, a.fee)
      BY <2>1, <2>2 DEF LnMeltAbort, Aborted, Reply
    <3>2. StatusFits(m, k, y)
      BY <1>1 DEF CallFits
    <3>3. MadeBy(c, k.payments) /\ a.fee = <<-FeeMsat>>
      BY <2>2, <3>2 DEF StatusFits, TellsPaid
    <3>4. Moves(m, k, cs0, Del(cs0, i), SettleMelt(m, q, a.fee))
      BY <1>1, <2>1, <3>3, ToldSettles
    <3> QED
      BY <3>1, <3>4
  <2>3. CASE ~told
    <3>1. /\ LnMeltAbort(m, c, a).mint = RollbackMelt(m, q)
          /\ c.force /\ ThisAttempt(m, c.att, q)
      BY <1>3, <2>1, <2>3 DEF LnMeltAbort, Aborted, Reply
    <3>2. q \in DOMAIN m.inflight
      BY <2>1, PendingFlies DEF Agreeing
    <3>3. Doomed(y)
      BY <3>1 DEF Doomed, Forces
    <3>4. Moves(m, k, cs0, Del(cs0, i), RollbackMelt(m, q))
      BY <1>1, <3>1, <3>2, <3>3, DoomRollsBack
    <3> QED
      BY <3>1, <3>4
  <2> QED
    BY <2>2, <2>3
<1> QED
  BY <1>2, <1>3

(* Without a backend, an abort that is forced rolls back a melt whose payment
   failed. *)
LEMMA AbortMoves ==
  ASSUME NEW m, NEW k, Agreeing(m, k), NEW cs, NEW r,
         r.force /\ r.quote \in DOMAIN m.inflight => PayFailed(m, k, cs, r.quote)
  PROVE  Moves(m, k, cs, cs, MeltAbort(m, r).mint)
<1> DEFINE q == r.quote
<1>1. CASE MeltAbort(m, r).mint = m
  BY <1>1, SameQuiet DEF Moves
<1>2. CASE MeltAbort(m, r).mint # m
  <2>1. /\ q \in DOMAIN m.melts /\ m.melts[q].state = "pending" /\ r.force
        /\ MeltAbort(m, r).mint = RollbackMelt(m, q)
    BY <1>2 DEF MeltAbort, Refuse, Aborted, Reply, Ask
  <2>2. q \in DOMAIN m.inflight
    BY <2>1, PendingFlies DEF Agreeing
  <2>3. PayFailed(m, k, cs, q)
    BY <2>1, <2>2
  <2>4. RollsBack(m, k, cs, cs, RollbackMelt(m, q), q)
    BY <2>2, <2>3, RollbackMoves DEF PayFailed, Done1
  <2> QED
    BY <2>1, <2>4 DEF Moves
<1> QED
  BY <1>1, <1>2

-----------------------------------------------------------------------------
(* Every route and every answer.                                             *)

(* The operator's settings and keysets. *)
LEMMA OperatorMoves ==
  ASSUME NEW m, NEW k, Agreeing(m, k), NEW cs, NEW r,
         r.op = "set-settings" => Covers(UpdateSettings(m, r).mint.bps, UpdateSettings(m, r).mint.floor)
  PROVE  /\ r.op = "set-settings" => Moves(m, k, cs, cs, UpdateSettings(m, r).mint)
         /\ Moves(m, k, cs, cs, LnConfigure(m, r).mint)
         /\ Moves(m, k, cs, cs, KeysetActivate(m, r).mint)
         /\ Moves(m, k, cs, cs, KeysetDeactivate(m, r).mint)
         /\ Moves(m, k, cs, cs, KeysetGenerate(m, r).mint)
         /\ Moves(m, k, cs, cs, KeysetSetFee(m, r).mint)
<1> DEFINE Other == {"self", "ln", "bps", "floor", "now", "keysets", "active"}
<1>1. /\ Covers(m.bps, m.floor) /\ But(m, m, Other)
  BY DEF Agreeing, MeltsAgree, But
<1>2. DOMAIN m = {"self", "ln", "bps", "floor", "keysets", "active", "mints", "melts", "inflight",
                  "change", "spent", "signed", "given", "issued", "redeemed", "attempts", "now",
                  "revoked", "clamped"}
  BY Fields DEF Agreeing, Kept
<1>3. ASSUME NEW m2, But(m, m2, Other), Covers(m2.bps, m2.floor)
      PROVE  Moves(m, k, cs, cs, m2)
  BY <1>3, OtherFields DEF Moves
<1>4. ASSUME NEW m2, But(m, m2, {"ln", "keysets", "active"})
      PROVE  Moves(m, k, cs, cs, m2)
  <2>1. m2.bps = m.bps /\ m2.floor = m.floor /\ But(m, m2, Other)
    BY <1>2, <1>4 DEF But
  <2> QED
    BY <1>1, <1>3, <2>1
<1>5. Moves(m, k, cs, cs, m)
  BY <1>1, <1>3
<1>6. r.op = "set-settings" => Moves(m, k, cs, cs, UpdateSettings(m, r).mint)
  <2> SUFFICES ASSUME r.op = "set-settings"
               PROVE  Moves(m, k, cs, cs, UpdateSettings(m, r).mint)
    OBVIOUS
  <2> DEFINE set(field) == IF field \in DOMAIN r.set THEN r.set[field] ELSE m[field]
             m2 == [m EXCEPT !.self = set("self"), !.bps = set("bps"), !.floor = set("floor")]
  <2>1. UpdateSettings(m, r).mint = m \/ UpdateSettings(m, r).mint = m2
    BY DEF UpdateSettings, Refuse, Reply
  <2> HIDE DEF set
  <2>2. But(m, m2, Other)
    BY <1>2 DEF But
  <2> HIDE DEF m2
  <2>3. UpdateSettings(m, r).mint = m2 => Covers(m2.bps, m2.floor)
    <3> SUFFICES ASSUME UpdateSettings(m, r).mint = m2
                 PROVE  Covers(m2.bps, m2.floor)
      OBVIOUS
    <3>1. Covers(UpdateSettings(m, r).mint.bps, UpdateSettings(m, r).mint.floor)
      OBVIOUS
    <3> QED
      BY <3>1
  <2> QED
    BY <1>3, <1>5, <2>1, <2>2, <2>3
<1>7. Moves(m, k, cs, cs, LnConfigure(m, r).mint)
  <2>1. But(m, LnConfigure(m, r).mint, {"ln", "keysets", "active"})
    BY <1>2 DEF But, LnConfigure, Reply
  <2> QED
    BY <1>4, <2>1
<1>8. Moves(m, k, cs, cs, KeysetActivate(m, r).mint)
  <2> DEFINE m2 == [m EXCEPT !.keysets = Activated(m, r.id), !.active = r.id]
  <2>1. KeysetActivate(m, r).mint = m \/ KeysetActivate(m, r).mint = m2
    BY DEF KeysetActivate, Refuse, Reply
  <2>2. But(m, m2, {"ln", "keysets", "active"})
    BY <1>2 DEF But
  <2> HIDE DEF m2
  <2> QED
    BY <1>4, <1>5, <2>1, <2>2
<1>9. Moves(m, k, cs, cs, KeysetDeactivate(m, r).mint)
  <2> DEFINE m2 == [m EXCEPT !.keysets[r.id].active = FALSE]
  <2>1. KeysetDeactivate(m, r).mint = m \/ KeysetDeactivate(m, r).mint = m2
    BY DEF KeysetDeactivate, Refuse, Reply
  <2>2. But(m, m2, {"ln", "keysets", "active"})
    BY <1>2 DEF But
  <2> HIDE DEF m2
  <2> QED
    BY <1>4, <1>5, <2>1, <2>2
<1>10. Moves(m, k, cs, cs, KeysetGenerate(m, r).mint)
  <2> DEFINE m2 == [m EXCEPT !.keysets = Put(@, r.new, Keyset(0, FALSE))]
  <2>1. KeysetGenerate(m, r).mint = m2
    BY DEF KeysetGenerate, Reply
  <2>2. But(m, m2, {"ln", "keysets", "active"})
    BY <1>2 DEF But
  <2> HIDE DEF m2
  <2> QED
    BY <1>4, <2>1, <2>2
<1>11. Moves(m, k, cs, cs, KeysetSetFee(m, r).mint)
  <2> DEFINE ks == Put([m.keysets EXCEPT ![r.id].active = FALSE], r.new, Keyset(r.fee, r.id = m.active))
             next == IF r.id = m.active THEN r.new ELSE m.active
             m2 == [m EXCEPT !.keysets = ks, !.active = next]
  <2>1. KeysetSetFee(m, r).mint = m \/ KeysetSetFee(m, r).mint = m2
    BY DEF KeysetSetFee, Refuse, Reply
  <2> HIDE DEF ks, next
  <2>2. But(m, m2, {"ln", "keysets", "active"})
    BY <1>2 DEF But
  <2> HIDE DEF m2
  <2> QED
    BY <1>4, <1>5, <2>1, <2>2
<1> QED
  BY <1>6, <1>7, <1>8, <1>9, <1>10, <1>11

(* A route moves the mint as an honest client may move it. *)
LEMMA ServeMoves ==
  ASSUME NEW m, NEW k, Agreeing(m, k), NEW cs, NEW r, Proper(m, r), Honest(m, k, cs, r)
  PROVE  Moves(m, k, cs, cs, Serve(m, r).mint)
<1>1. r.op \in Asks
  BY DEF Proper
<1>2. CASE r.op = "swap"
  <2>1. Serve(m, r) = PostSwap(m, r)
    BY <1>2 DEF Serve
  <2> QED
    BY <1>2, <2>1, SwapQuiet DEF Moves
<1>3. CASE r.op = "mint-quote"
  <2>1. Serve(m, r) = PostMintQuote(m, r)
    BY <1>3 DEF Serve
  <2>2. Fresh(DepositNames(m, k, cs), Wanted(m, cs), k.payments, r.quote)
    BY <1>3 DEF Honest, Fresh
  <2> QED
    BY <1>3, <2>1, <2>2, AskedMoves
<1>4. CASE r.op = "mint"
  <2>1. Serve(m, r) = PostMint(m, r)
    BY <1>4 DEF Serve
  <2> QED
    BY <1>4, <2>1, MintMoves
<1>5. CASE r.op = "melt-quote"
  <2>1. Serve(m, r) = PostMeltQuote(m, r)
    BY <1>5 DEF Serve
  <2>2. \A i \in DOMAIN cs : cs[i].call.kind \in MeltCalls => cs[i].call.quote # r.quote
    BY <1>5 DEF Honest
  <2> QED
    BY <1>5, <2>1, <2>2, QuotedMoves
<1>6. CASE r.op = "melt"
  <2>1. Serve(m, r) = PostMelt(m, r)
    BY <1>6 DEF Serve
  <2> QED
    BY <1>6, <2>1, MeltMoves
<1>7. CASE r.op = "set-settings"
  <2>1. Serve(m, r) = UpdateSettings(m, r)
    BY <1>7 DEF Serve
  <2>2. Covers(UpdateSettings(m, r).mint.bps, UpdateSettings(m, r).mint.floor)
    BY <1>7 DEF Honest
  <2> QED
    BY <1>7, <2>1, <2>2, OperatorMoves
<1>8. CASE r.op = "configure"
  <2>1. Serve(m, r) = LnConfigure(m, r)
    BY <1>8 DEF Serve
  <2>2. r.op # "set-settings"
    BY <1>8 DEF Asks
  <2> QED
    BY <1>8, <2>1, <2>2, OperatorMoves
<1>9. CASE r.op = "activate"
  <2>1. Serve(m, r) = KeysetActivate(m, r)
    BY <1>9 DEF Serve
  <2>2. r.op # "set-settings"
    BY <1>9 DEF Asks
  <2> QED
    BY <1>9, <2>1, <2>2, OperatorMoves
<1>10. CASE r.op = "deactivate"
  <2>1. Serve(m, r) = KeysetDeactivate(m, r)
    BY <1>10 DEF Serve
  <2>2. r.op # "set-settings"
    BY <1>10 DEF Asks
  <2> QED
    BY <1>10, <2>1, <2>2, OperatorMoves
<1>11. CASE r.op = "generate"
  <2>1. Serve(m, r) = KeysetGenerate(m, r)
    BY <1>11 DEF Serve
  <2>2. r.op # "set-settings"
    BY <1>11 DEF Asks
  <2> QED
    BY <1>11, <2>1, <2>2, OperatorMoves
<1>12. CASE r.op = "set-fee"
  <2>1. Serve(m, r) = KeysetSetFee(m, r)
    BY <1>12 DEF Serve
  <2>2. r.op # "set-settings"
    BY <1>12 DEF Asks
  <2> QED
    BY <1>12, <2>1, <2>2, OperatorMoves
<1>13. CASE r.op = "delete"
  <2>1. Serve(m, r) = QuoteDelete(m, r)
    BY <1>13 DEF Serve
  <2> QED
    BY <1>13, <2>1, DeleteMoves
<1>14. CASE r.op = "revoke"
  <2>1. Serve(m, r) = QuoteRevoke(m, r)
    BY <1>14 DEF Serve
  <2> QED
    BY <1>14, <2>1, RevokeMoves
<1>15. CASE r.op = "abort"
  <2>1. Serve(m, r) = MeltAbort(m, r)
    BY <1>15 DEF Serve
  <2>2. r.force /\ r.quote \in DOMAIN m.inflight => PayFailed(m, k, cs, r.quote)
    BY <1>15 DEF Honest
  <2> QED
    BY <1>15, <2>1, <2>2, AbortMoves
<1>16. CASE r.op = "get-mint-quote"
  <2>1. Serve(m, r).mint = m
    BY <1>16 DEF Serve, GetMintQuote, Refuse, Reply, Ask
  <2> QED
    BY <2>1, SameQuiet DEF Moves
<1>17. CASE r.op = "get-melt-quote"
  <2>1. Serve(m, r).mint = m
    BY <1>17 DEF Serve, GetMeltQuote, Refuse, Reply, Ask
  <2> QED
    BY <2>1, SameQuiet DEF Moves
<1>18. CASE r.op = "checkstate"
  <2>1. Serve(m, r).mint = m
    BY <1>18 DEF Serve, PostCheckstate, Reply
  <2> QED
    BY <2>1, SameQuiet DEF Moves
<1>19. CASE r.op = "restore"
  <2>1. Serve(m, r).mint = m
    BY <1>19 DEF Serve, PostRestore, Reply
  <2> QED
    BY <2>1, SameQuiet DEF Moves
<1>20. CASE r.op = "info"
  <2>1. Serve(m, r).mint = m
    BY <1>20 DEF Serve, GetInfo, Reply
  <2> QED
    BY <2>1, SameQuiet DEF Moves
<1>21. CASE r.op = "keys"
  <2>1. Serve(m, r).mint = m
    BY <1>21 DEF Serve, GetKeys, Reply
  <2> QED
    BY <2>1, SameQuiet DEF Moves
<1>22. CASE r.op = "settings"
  <2>1. Serve(m, r).mint = m
    BY <1>22 DEF Serve, Reply
  <2> QED
    BY <2>1, SameQuiet DEF Moves
<1> QED
  BY <1>1, <1>2, <1>3, <1>4, <1>5, <1>6, <1>7, <1>8, <1>9, <1>10, <1>11, <1>12, <1>13, <1>14, <1>15,
     <1>16, <1>17, <1>18, <1>19, <1>20, <1>21, <1>22 DEF Asks

(* An answer moves it so too. *)
LEMMA AnsweredMoves ==
  ASSUME NEW m, NEW k, Agreeing(m, k), NEW cs0, CallsFit(m, k, cs0), NEW i \in DOMAIN cs0, Done1(cs0[i]),
         NEW names, Foreign(names, Wanted(m, cs0), k.payments)
  PROVE  Moves(m, k, cs0, Del(cs0, i), Answered(m, cs0[i].call, cs0[i].answer).mint)
<1> DEFINE c == cs0[i].call
           a == cs0[i].answer
<1>1. CallFits(m, k, cs0[i]) /\ c.kind \in Kinds
  BY DEF CallsFit, CallFits
<1>2. CASE c.kind = "mint-quote-create"
  <2>1. Answered(m, c, a) = MintCreated(m, c, a)
    BY <1>2 DEF Answered
  <2> QED
    BY <1>1, <1>2, <2>1, CreatedMoves
<1>3. CASE c.kind = "mint-quote-check"
  <2>1. Answered(m, c, a) = MintChecked(m, c, a)
    BY <1>3 DEF Answered
  <2> QED
    BY <1>1, <1>3, <2>1, CheckedMoves
<1>4. CASE c.kind = "melt-quote-create"
  <2>1. Answered(m, c, a) = MeltQuoted(m, c, a)
    BY <1>4 DEF Answered
  <2> QED
    BY <1>1, <1>4, <2>1, DecodedMoves
<1>5. CASE c.kind = "melt-pay"
  <2>1. Answered(m, c, a) = MeltPaid(m, c, a)
    BY <1>5 DEF Answered
  <2> QED
    BY <1>1, <1>5, <2>1, PayAnswerMoves
<1>6. CASE c.kind = "melt-check"
  <2>1. Answered(m, c, a) = MeltChecked(m, c, a)
    BY <1>6 DEF Answered
  <2> QED
    BY <1>1, <1>6, <2>1, StatusAnswerMoves
<1>7. CASE c.kind = "melt-abort"
  <2>1. Answered(m, c, a) = LnMeltAbort(m, c, a)
    BY <1>7 DEF Answered
  <2> QED
    BY <1>1, <1>7, <2>1, AbortAnswerMoves
<1> QED
  BY <1>1, <1>2, <1>3, <1>4, <1>5, <1>6, <1>7 DEF Kinds

-----------------------------------------------------------------------------
(* A call that goes out.                                                     *)

\* It fits, and so does it with every other call; what it is about is known;
\* and it rolls back no melt that holds the inputs of a payment.
Joins(m, k, cs, m2, y) ==
  /\ CallFits(m2, k, y)
  /\ \A j \in DOMAIN cs : PairFits(y, cs[j]) /\ PairFits(cs[j], y)
  /\ y.call.kind \in DepositCalls => y.call.quote \in DOMAIN m2.mints
  /\ y.call.kind \in MeltCalls /\ y.call.invoice.text = "bolt11" =>
       \/ y.call.invoice \in Wanted(m2, cs)
       \/ m2 = m /\ Strangers(m, k, cs, y.call.invoice)
  /\ \A q \in DOMAIN m2.inflight :
       Doomed(y) /\ y.call.quote = q /\ y.call.att = m2.inflight[q].started =>
         \/ q \notin DOMAIN m.inflight
         \/ m.melts[q].request.hash \notin DOMAIN k.payments

(* What a call is as it goes out. *)
LEMMA NewFacts ==
  ASSUME NEW c, NEW asker
  PROVE  /\ DOMAIN NewCall(c, asker) = {"call", "asker", "stage", "mode", "slow", "answer"}
         /\ NewCall(c, asker).call = c /\ NewCall(c, asker).stage = "sent"
         /\ ~Done1(NewCall(c, asker)) /\ ~Good(NewCall(c, asker)) /\ ~TellsPaid(NewCall(c, asker))
BY DEF NewCall, Done1, Good, TellsPaid

(* The request for an invoice. *)
LEMMA CreateJoins ==
  ASSUME NEW m, NEW k, Agreeing(m, k), NEW cs, NEW r, Proper(m, r), r.op = "mint-quote",
         Fresh(DepositNames(m, k, cs), Wanted(m, cs), k.payments, r.quote),
         NEW asker, PostMintQuote(m, r).call.kind # "none"
  PROVE  Joins(m, k, cs, PostMintQuote(m, r).mint, NewCall(PostMintQuote(m, r).call, asker))
<1> DEFINE q == r.quote
           mq == MintQuote(r.amount, r.method = "self",
                           IF r.method = "self" THEN "paid" ELSE "unpaid", NoInvoice)
           m2 == [m EXCEPT !.mints = Put(@, q, mq)]
           c == PostMintQuote(m, r).call
           y == NewCall(c, asker)
<1>1. /\ PostMintQuote(m, r).mint = m2 /\ r.method # "self"
      /\ c = [kind |-> "mint-quote-create", quote |-> q, amount |-> r.amount]
  BY DEF PostMintQuote, Refuse, Reply, Ask, NoCall
<1>2. c.kind = "mint-quote-create" /\ c.quote = q /\ c.amount = r.amount
  BY <1>1
<1>3. mq.amount = r.amount /\ ~mq.self
  BY <1>1 DEF MintQuote
<1> HIDE DEF mq
<1>4. m2.mints = Put(m.mints, q, mq)
  BY Fields DEF Agreeing, Kept
<1> HIDE DEF m2
<1>5. q \in DOMAIN m2.mints /\ m2.mints[q] = mq
  BY <1>4 DEF Put
<1> HIDE DEF c
<1>6. y.call = c /\ ~Done1(y) /\ ~Good(y) /\ DOMAIN y = {"call", "asker", "stage", "mode", "slow", "answer"}
  BY NewFacts
<1> HIDE DEF y
<1>7. r.amount \in Nat
  BY DEF Proper
<1>8. CreateFits(m2, k, y)
  BY <1>2, <1>3, <1>5, <1>6, <1>7 DEF CreateFits, Fresh, DepositNames
<1>9. CallFits(m2, k, y)
  BY <1>2, <1>6, <1>8 DEF CallFits, Kinds
<1>10. ASSUME NEW j \in DOMAIN cs
       PROVE  PairFits(y, cs[j]) /\ PairFits(cs[j], y)
  <2>1. cs[j].call.kind = "mint-quote-create" => cs[j].call.quote # q
    BY DEF Fresh, DepositNames, DepositCalls
  <2> QED
    BY <1>2, <1>6, <2>1 DEF PairFits, Forces, MeltCalls
<1>11. ~Doomed(y) /\ y.call.kind \notin MeltCalls
  BY <1>2, <1>6 DEF Doomed, Forces, MeltCalls
<1>12. Joins(m, k, cs, m2, y)
  BY <1>2, <1>5, <1>6, <1>9, <1>10, <1>11 DEF Joins
<1> QED
  BY <1>1, <1>12 DEF y, c

(* The question whether a deposit was paid. *)
LEMMA CheckJoins ==
  ASSUME NEW m, NEW k, Agreeing(m, k), NEW cs, NEW r, NEW asker, GetMintQuote(m, r).call.kind # "none"
  PROVE  Joins(m, k, cs, GetMintQuote(m, r).mint, NewCall(GetMintQuote(m, r).call, asker))
<1> DEFINE q == r.quote
           c == GetMintQuote(m, r).call
           y == NewCall(c, asker)
<1>1. /\ GetMintQuote(m, r).mint = m /\ q \in DOMAIN m.mints /\ m.mints[q].invoice # NoInvoice
      /\ c = [kind |-> "mint-quote-check", quote |-> q, invoice |-> m.mints[q].invoice]
  BY DEF GetMintQuote, Refuse, Reply, Ask, NoCall
<1>2. c.kind = "mint-quote-check" /\ c.quote = q /\ c.invoice = m.mints[q].invoice
  BY <1>1
<1> HIDE DEF c
<1>3. y.call = c /\ ~TellsPaid(y) /\ DOMAIN y = {"call", "asker", "stage", "mode", "slow", "answer"}
  BY NewFacts
<1> HIDE DEF y
<1>4. c.invoice.hash = c.quote
  BY <1>1, <1>2 DEF Agreeing, DepositsAgree, DepositFits
<1>5. CheckFits(m, k, y)
  BY <1>3, <1>4 DEF CheckFits
<1>6. CallFits(m, k, y)
  BY <1>2, <1>3, <1>5 DEF CallFits, Kinds
<1>7. \A j \in DOMAIN cs : PairFits(y, cs[j]) /\ PairFits(cs[j], y)
  BY <1>2, <1>3 DEF PairFits, Forces, MeltCalls
<1>8. ~Doomed(y) /\ y.call.kind \notin MeltCalls
  BY <1>2, <1>3 DEF Doomed, Forces, MeltCalls
<1>9. Joins(m, k, cs, m, y)
  BY <1>1, <1>2, <1>3, <1>6, <1>7, <1>8 DEF Joins
<1> QED
  BY <1>1, <1>9 DEF y, c

(* The question what an invoice asks for. *)
LEMMA DecodeJoins ==
  ASSUME NEW m, NEW k, Agreeing(m, k), NEW cs, NEW r, Proper(m, r), Honest(m, k, cs, r), r.op = "melt-quote",
         NEW asker, PostMeltQuote(m, r).call.kind # "none"
  PROVE  Joins(m, k, cs, PostMeltQuote(m, r).mint, NewCall(PostMeltQuote(m, r).call, asker))
<1> DEFINE q == r.quote
           c == PostMeltQuote(m, r).call
           y == NewCall(c, asker)
<1>1. /\ PostMeltQuote(m, r).mint = m /\ r.method # "self"
      /\ c = [kind |-> "melt-quote-create", quote |-> q, invoice |-> r.invoice]
  BY DEF PostMeltQuote, Refuse, Reply, Ask, NoCall
<1>2. c.kind = "melt-quote-create" /\ c.quote = q /\ c.invoice = r.invoice
  BY <1>1
<1> HIDE DEF c
<1>3. y.call = c /\ ~Good(y) /\ DOMAIN y = {"call", "asker", "stage", "mode", "slow", "answer"}
  BY NewFacts
<1> HIDE DEF y
<1>4. q \notin DOMAIN m.melts
  BY DEF Proper
<1>5. CallFits(m, k, y)
  BY <1>2, <1>3, <1>4 DEF DecodeFits, CallFits, Kinds
<1>6. ASSUME NEW j \in DOMAIN cs
      PROVE  PairFits(y, cs[j]) /\ PairFits(cs[j], y)
  <2>1. cs[j].call.kind \in MeltCalls => cs[j].call.quote # q
    BY DEF Honest
  <2> QED
    BY <1>2, <1>3, <2>1 DEF PairFits, Forces, MeltCalls
<1>7. c.invoice.text = "bolt11" => Strangers(m, k, cs, c.invoice)
  BY <1>1, <1>2 DEF Honest
<1>8. ~Doomed(y) /\ y.call.kind \notin DepositCalls
  BY <1>2, <1>3 DEF Doomed, Forces, DepositCalls
<1>9. Joins(m, k, cs, m, y)
  BY <1>3, <1>5, <1>6, <1>7, <1>8 DEF Joins
<1> QED
  BY <1>1, <1>9 DEF y, c

(* A call about a melt that is pending: it concerns it, and it is for its
   current attempt. *)
LEMMA AboutPending ==
  ASSUME NEW m, NEW k, Agreeing(m, k), NEW q \in DOMAIN m.melts, m.melts[q].state = "pending",
         NEW c, c.quote = q, c.att = AttemptOf(m, q), c.invoice = m.melts[q].request
  PROVE  /\ q \in DOMAIN m.inflight /\ c.att = m.inflight[q].started /\ Concerns(m, c)
         /\ \A cs : c.invoice \in Wanted(m, cs)
<1>1. q \in DOMAIN m.inflight
  BY DEF Agreeing, Kept, QuotesFit
<1>2. c.att = m.inflight[q].started
  BY <1>1 DEF AttemptOf
<1>3. FlightPays(m.inflight[q], m.melts[q], m.attempts) /\ MeltFits(m.melts[q], k.payments)
  BY <1>1 DEF Agreeing, MeltsAgree
<1>4. Concerns(m, c)
  BY <1>2, <1>3 DEF Concerns, FlightPays, MeltFits
<1>5. \A cs : c.invoice \in Wanted(m, cs)
  BY <1>3 DEF Wanted, FlightPays
<1> QED
  BY <1>1, <1>2, <1>4, <1>5

(* No quote is still to be decoded that is a melt already. *)
LEMMA DecodedLater ==
  ASSUME NEW m, NEW k, NEW cs, CallsFit(m, k, cs), NEW q \in DOMAIN m.melts, NEW j \in DOMAIN cs,
         cs[j].call.kind = "melt-quote-create"
  PROVE  cs[j].call.quote # q
<1>1. DecodeFits(m, cs[j])
  BY DEF CallsFit, CallFits
<1> QED
  BY <1>1 DEF DecodeFits

(* The question whether a melt was paid. *)
LEMMA StatusJoins ==
  ASSUME NEW m, NEW k, Agreeing(m, k), NEW cs, CallsFit(m, k, cs), NEW r,
         NEW asker, GetMeltQuote(m, r).call.kind # "none"
  PROVE  Joins(m, k, cs, GetMeltQuote(m, r).mint, NewCall(GetMeltQuote(m, r).call, asker))
<1> DEFINE q == r.quote
           c == GetMeltQuote(m, r).call
           y == NewCall(c, asker)
<1>1. /\ GetMeltQuote(m, r).mint = m /\ q \in DOMAIN m.melts /\ m.melts[q].state = "pending"
      /\ c = [kind |-> "melt-check", quote |-> q, att |-> AttemptOf(m, q), invoice |-> m.melts[q].request]
  BY DEF GetMeltQuote, Refuse, Reply, Ask, NoCall
<1>2. c.kind = "melt-check" /\ c.quote = q /\ c.att = AttemptOf(m, q) /\ c.invoice = m.melts[q].request
  BY <1>1
<1> HIDE DEF c
<1>3. y.call = c /\ ~TellsPaid(y) /\ DOMAIN y = {"call", "asker", "stage", "mode", "slow", "answer"}
  BY NewFacts
<1> HIDE DEF y
<1>4. Concerns(m, c) /\ c.invoice \in Wanted(m, cs)
  BY <1>1, <1>2, AboutPending
<1>5. CallFits(m, k, y)
  BY <1>2, <1>3, <1>4 DEF StatusFits, CallFits, Kinds
<1>6. ASSUME NEW j \in DOMAIN cs
      PROVE  PairFits(y, cs[j]) /\ PairFits(cs[j], y)
  <2>1. cs[j].call.kind = "melt-quote-create" => cs[j].call.quote # q
    BY <1>1, DecodedLater
  <2> QED
    BY <1>2, <1>3, <2>1 DEF PairFits, Forces, MeltCalls
<1>7. ~Doomed(y) /\ y.call.kind \notin DepositCalls
  BY <1>2, <1>3 DEF Doomed, Forces, DepositCalls
<1>8. Joins(m, k, cs, m, y)
  BY <1>3, <1>4, <1>5, <1>6, <1>7 DEF Joins
<1> QED
  BY <1>1, <1>8 DEF y, c

(* The payment of a melt. *)
LEMMA PayJoins ==
  ASSUME NEW m, NEW k, Agreeing(m, k), NEW cs, CallsFit(m, k, cs), NEW r,
         NEW asker, PostMelt(m, r).call.kind # "none"
  PROVE  Joins(m, k, cs, PostMelt(m, r).mint, NewCall(PostMelt(m, r).call, asker))
<1> DEFINE q == r.quote
           mq == m.melts[q]
           fee == ComputeFee(m, r.inputs)
           claimed == AmountTotal(r.inputs)
           need == mq.amount + mq.reserve
           c1 == When(r.method = "self" /\ ~m.self, "self-method-disabled")
           c2 == When(r.method # mq.method, "method-mismatch")
           c3 == When(mq.state = "pending", "quote-pending")
           c4 == When(mq.state = "paid", "quote-already-paid")
           c5 == When(Len(r.inputs) > MaxBatch \/ Len(r.outputs) > MaxBatch, "batch-too-large")
           c6 == When(fee > claimed, "fee-exceeds-inputs")
           c7 == When(claimed - fee < need, "insufficient-inputs")
           c8 == OutputError(m, r.outputs, TRUE)
           c9 == VerifyProofs(m, r.inputs)
           why == First(<<c1, c2, c3, c4, c5, c6, c7, c8, c9>>)
           excess == (claimed - fee) - need
           m1 == [m EXCEPT !.spent = @ \cup Secrets(r.inputs), !.redeemed = @ + claimed]
           started == m.attempts + 1
           e == [secrets |-> Secrets(r.inputs), total |-> claimed, blanks |-> r.outputs,
                 excess |-> excess, started |-> started]
           m3 == [m1 EXCEPT !.melts[q].state = "pending", !.attempts = started,
                            !.inflight = Put(@, q, e)]
           c == PostMelt(m, r).call
           y == NewCall(c, asker)
<1>1. q \in DOMAIN m.melts /\ why = Pass /\ r.method # "self"
  BY DEF PostMelt, Refuse, Reply, NoCall
<1>2. /\ PostMelt(m, r).mint = m3
      /\ c = [kind |-> "melt-pay", quote |-> q, att |-> started, invoice |-> mq.request]
  BY <1>1, ZenonT(40) DEF PostMelt, Ask
<1>3. c.kind = "melt-pay" /\ c.quote = q /\ c.att = started /\ c.invoice = mq.request
  BY <1>2
<1>4. c2 = Pass /\ c3 = Pass
  <2> HIDE DEF c1, c2, c3, c4, c5, c6, c7, c8, c9
  <2> QED
    BY <1>1, NoneNine
<1>5. mq.method = r.method /\ mq.state # "pending"
  BY <1>4 DEF When, Pass
<1>6. e.started = started
  OBVIOUS
<1> HIDE DEF e, claimed, c
<1>7. /\ m3.attempts = started /\ m3.inflight = Put(m.inflight, q, e)
      /\ m3.melts = [m.melts EXCEPT ![q].state = "pending"]
  BY Fields DEF Agreeing, Kept
<1> HIDE DEF m3
<1>8. m.attempts \in Nat /\ MeltFits(mq, k.payments) /\ q \notin DOMAIN m.inflight
      /\ DOMAIN mq = {"amount", "reserve", "method", "request", "state"}
  BY <1>1, <1>5 DEF Agreeing, MeltsAgree, Kept, QuotesFit, Shaped
<1>9. mq.method = "bolt11" /\ mq.request.text = "bolt11"
  BY <1>1, <1>5, <1>8 DEF MeltFits
<1>10. q \in DOMAIN m3.melts /\ m3.melts[q].method = "bolt11" /\ m3.melts[q].request = mq.request
  BY <1>1, <1>7, <1>8, <1>9
<1>11. DOMAIN m3.inflight = DOMAIN m.inflight \cup {q} /\ m3.inflight[q].started = started
  BY <1>6, <1>7 DEF Put
<1>12. y.call = c /\ ~Good(y) /\ DOMAIN y = {"call", "asker", "stage", "mode", "slow", "answer"}
  BY NewFacts
<1> HIDE DEF y
<1>13. Concerns(m3, c)
  BY <1>3, <1>7, <1>8, <1>9, <1>10 DEF Concerns
<1>14. PayFits(m3, k, y)
  BY <1>3, <1>11, <1>12, <1>13 DEF PayFits
<1>15. CallFits(m3, k, y)
  BY <1>3, <1>12, <1>14 DEF CallFits, Kinds
<1>16. ASSUME NEW j \in DOMAIN cs
       PROVE  PairFits(y, cs[j]) /\ PairFits(cs[j], y)
  <2>1. cs[j].call.kind = "melt-quote-create" => cs[j].call.quote # q
    BY <1>1, DecodedLater
  <2>2. cs[j].call.kind \in {"melt-pay", "melt-abort"} => cs[j].call.att # started
    <3>1. cs[j].call.kind \in {"melt-pay", "melt-abort"} => Concerns(m, cs[j].call)
      BY DEF CallsFit, CallFits, PayFits, StatusFits
    <3> QED
      BY <1>8, <3>1 DEF Concerns
  <2> QED
    BY <1>3, <1>12, <2>1, <2>2 DEF PairFits, Forces, SameTry, MeltCalls
<1>17. c.invoice \in Wanted(m3, cs)
  BY <1>3, <1>10 DEF Wanted
<1>18. Joins(m, k, cs, m3, y)
  BY <1>3, <1>8, <1>12, <1>15, <1>16, <1>17 DEF Joins, DepositCalls
<1> QED
  BY <1>2, <1>18 DEF y, c

(* The question of the operator who wants a melt aborted. *)
LEMMA AbortJoins ==
  ASSUME NEW m, NEW k, Agreeing(m, k), NEW cs, CallsFit(m, k, cs), NEW r,
         r.force /\ r.quote \in DOMAIN m.inflight => PayFailed(m, k, cs, r.quote),
         NEW asker, MeltAbort(m, r).call.kind # "none"
  PROVE  Joins(m, k, cs, MeltAbort(m, r).mint, NewCall(MeltAbort(m, r).call, asker))
<1> DEFINE q == r.quote
           c == MeltAbort(m, r).call
           y == NewCall(c, asker)
<1>1. /\ MeltAbort(m, r).mint = m /\ q \in DOMAIN m.melts /\ m.melts[q].state = "pending"
      /\ c = [kind |-> "melt-abort", quote |-> q, att |-> AttemptOf(m, q),
              invoice |-> m.melts[q].request, force |-> r.force]
  BY DEF MeltAbort, Aborted, Refuse, Reply, Ask, NoCall
<1>2. /\ c.kind = "melt-abort" /\ c.quote = q /\ c.att = AttemptOf(m, q)
      /\ c.invoice = m.melts[q].request /\ c.force = r.force
  BY <1>1
<1> HIDE DEF c
<1>3. y.call = c /\ ~TellsPaid(y) /\ DOMAIN y = {"call", "asker", "stage", "mode", "slow", "answer"}
  BY NewFacts
<1> HIDE DEF y
<1>4. /\ Concerns(m, c) /\ c.invoice \in Wanted(m, cs)
      /\ q \in DOMAIN m.inflight /\ c.att = m.inflight[q].started
  BY <1>1, <1>2, AboutPending
<1>5. CallFits(m, k, y)
  BY <1>2, <1>3, <1>4 DEF StatusFits, CallFits, Kinds
<1>6. ASSUME NEW j \in DOMAIN cs
      PROVE  PairFits(y, cs[j]) /\ PairFits(cs[j], y)
  <2>1. cs[j].call.kind = "melt-quote-create" => cs[j].call.quote # q
    BY <1>1, DecodedLater
  <2>2. r.force /\ cs[j].call.kind = "melt-pay" /\ cs[j].call.quote = q /\ cs[j].call.att = c.att
          => Done1(cs[j])
    BY <1>4 DEF PayFailed, Done1
  <2> QED
    BY <1>2, <1>3, <2>1, <2>2 DEF PairFits, Forces, SameTry, MeltCalls
<1>7. Doomed(y) => m.melts[q].request.hash \notin DOMAIN k.payments
  BY <1>2, <1>3, <1>4 DEF Doomed, Forces, PayFailed
<1>8. Joins(m, k, cs, m, y)
  BY <1>2, <1>3, <1>4, <1>5, <1>6, <1>7 DEF Joins, DepositCalls
<1> QED
  BY <1>1, <1>8 DEF y, c

(* Whatever an honest client asks, the call that goes out fits. *)
LEMMA ServeJoins ==
  ASSUME NEW m, NEW k, Agreeing(m, k), NEW cs, CallsFit(m, k, cs), NEW r, Proper(m, r), Honest(m, k, cs, r),
         NEW asker, Serve(m, r).call.kind # "none"
  PROVE  Joins(m, k, cs, Serve(m, r).mint, NewCall(Serve(m, r).call, asker))
<1>1. r.op \in Asks
  BY DEF Proper
<1>2. CASE r.op = "mint-quote"
  <2>1. Serve(m, r) = PostMintQuote(m, r)
    BY <1>2 DEF Serve
  <2>2. Fresh(DepositNames(m, k, cs), Wanted(m, cs), k.payments, r.quote)
    BY <1>2 DEF Honest, Fresh
  <2> QED
    BY <1>2, <2>1, <2>2, CreateJoins
<1>3. CASE r.op = "get-mint-quote"
  <2>1. Serve(m, r) = GetMintQuote(m, r)
    BY <1>3 DEF Serve
  <2> QED
    BY <2>1, CheckJoins
<1>4. CASE r.op = "melt-quote"
  <2>1. Serve(m, r) = PostMeltQuote(m, r)
    BY <1>4 DEF Serve
  <2> QED
    BY <1>4, <2>1, DecodeJoins
<1>5. CASE r.op = "get-melt-quote"
  <2>1. Serve(m, r) = GetMeltQuote(m, r)
    BY <1>5 DEF Serve
  <2> QED
    BY <2>1, StatusJoins
<1>6. CASE r.op = "melt"
  <2>1. Serve(m, r) = PostMelt(m, r)
    BY <1>6 DEF Serve
  <2> QED
    BY <2>1, PayJoins
<1>7. CASE r.op = "abort"
  <2>1. Serve(m, r) = MeltAbort(m, r)
    BY <1>7 DEF Serve
  <2>2. r.force /\ r.quote \in DOMAIN m.inflight => PayFailed(m, k, cs, r.quote)
    BY <1>7 DEF Honest
  <2> QED
    BY <2>1, <2>2, AbortJoins
<1>8. CASE r.op \in {"swap", "mint", "checkstate", "restore", "info", "keys", "settings", "set-settings",
                     "configure", "activate"}
  BY <1>8 DEF Serve, PostSwap, PostMint, PostCheckstate, PostRestore, GetInfo, GetKeys, UpdateSettings,
              LnConfigure, KeysetActivate, Refuse, Reply, NoCall
<1>9. CASE r.op \in {"deactivate", "generate", "set-fee", "delete", "revoke"}
  BY <1>9 DEF Serve, KeysetDeactivate, KeysetGenerate, KeysetSetFee, QuoteDelete, QuoteRevoke,
              Refuse, Reply, NoCall
<1> QED
  BY <1>1, <1>2, <1>3, <1>4, <1>5, <1>6, <1>7, <1>8, <1>9 DEF Asks

-----------------------------------------------------------------------------
(* What a step of the mint leaves.                                           *)

(* Whatever the mint does, everything fits but the payments, which are held but
   for the call that goes out. *)
LEMMA MovesFit ==
  ASSUME NEW m, NEW k, Kept(m), NEW cs0, NEW cs, Fits(m, k, cs0), Fewer(cs0, cs),
         NEW m2, Moves(m, k, cs0, cs, m2), Kept(m2)
  PROVE  /\ MockFits(k) /\ DepositsAgree(m2.mints, k.invoices) /\ MeltsAgree(m2, k.payments)
         /\ Foreign(DepositNames(m2, k, cs), Wanted(m2, cs), k.payments)
         /\ CallsFit(m2, k, cs) /\ Balance(m2, k) /\ Holding(m, k, cs, m2)
<1>1. /\ MockFits(k) /\ DepositsAgree(m.mints, k.invoices) /\ MeltsAgree(m, k.payments)
      /\ Foreign(DepositNames(m, k, cs0), Wanted(m, cs0), k.payments)
      /\ CallsFit(m, k, cs0) /\ PaymentsHeld(m, k, cs0) /\ Balance(m, k)
  BY DEF Fits
<1>2. Agreeing(m, k)
  BY <1>1 DEF Agreeing
<1>3. CallsFit(m, k, cs)
  BY <1>1, FewerCalls
<1>4. Agreed(m, k, cs, m2) /\ CallsFit(m2, k, cs)
  BY <1>2, <1>3, MovesAgree
<1>5. DepositsAgree(m2.mints, k.invoices) /\ MeltsAgree(m2, k.payments)
  BY <1>4 DEF Agreed
<1>6. Agreeing(m2, k)
  BY <1>1, <1>5 DEF Agreeing
<1>7. Foreign(DepositNames(m2, k, cs), Wanted(m2, cs), k.payments)
  BY <1>1, MovesNames
<1>8. Balance(m2, k)
  <2> DEFINE names == DepositNames(m, k, cs0)
  <2>1. Foreign(names, Wanted(m, cs0), k.payments)
    BY <1>1
  <2> HIDE DEF names
  <2> QED
    BY <1>1, <1>2, <1>6, <2>1, MovesBalance
<1>9. Holding(m, k, cs, m2)
  BY <1>1, <1>2, MovesHold
<1> QED
  BY <1>1, <1>4, <1>5, <1>7, <1>8, <1>9

(* Without a call everything fits. *)
LEMMA QuietlyFits ==
  ASSUME NEW m, NEW k, Kept(m), NEW cs0, NEW cs, Fits(m, k, cs0), Fewer(cs0, cs),
         NEW m2, Moves(m, k, cs0, cs, m2), Kept(m2)
  PROVE  Fits(m2, k, cs)
<1>1. /\ MockFits(k) /\ DepositsAgree(m2.mints, k.invoices) /\ MeltsAgree(m2, k.payments)
      /\ Foreign(DepositNames(m2, k, cs), Wanted(m2, cs), k.payments)
      /\ CallsFit(m2, k, cs) /\ Balance(m2, k) /\ Holding(m, k, cs, m2)
  BY MovesFit
<1>2. PaymentsHeld(m2, k, cs)
  BY <1>1 DEF Holding, PaymentsHeld, HeldFor
<1> QED
  BY <1>1, <1>2 DEF Fits

(* And with a call that joins the others it does too. *)
LEMMA SentFits ==
  ASSUME NEW m, NEW k, Kept(m), NEW cs, Fits(m, k, cs), NEW m2, Moves(m, k, cs, cs, m2), Kept(m2),
         NEW y, Joins(m, k, cs, m2, y), NEW i, i \notin DOMAIN cs
  PROVE  Fits(m2, k, Put(cs, i, y))
<1> DEFINE cs2 == Put(cs, i, y)
           names == DepositNames(m2, k, cs)
           wanted == Wanted(m2, cs)
<1>1. Fewer(cs, cs)
  BY DEF Fewer
<1>2. /\ MockFits(k) /\ DepositsAgree(m2.mints, k.invoices) /\ MeltsAgree(m2, k.payments)
      /\ Foreign(names, wanted, k.payments)
      /\ CallsFit(m2, k, cs) /\ Balance(m2, k) /\ Holding(m, k, cs, m2)
  BY <1>1, MovesFit
<1>3. CallsFit(m2, k, cs2)
  <2>1. CallFits(m2, k, y) /\ \A j \in DOMAIN cs : PairFits(y, cs[j]) /\ PairFits(cs[j], y)
    BY DEF Joins
  <2> QED
    BY <1>2, <2>1, CallPut
<1>4. DOMAIN cs2 = DOMAIN cs \cup {i} /\ cs2[i] = y /\ \A j \in DOMAIN cs : cs2[j] = cs[j]
  BY DEF Put
<1> HIDE DEF cs2
<1>5. DepositNames(m2, k, cs2) \subseteq names
  <2>1. \A j \in DOMAIN cs2 : cs2[j].call.kind \in DepositCalls => cs2[j].call.quote \in names
    BY <1>4 DEF Joins, DepositNames
  <2> QED
    BY <2>1 DEF DepositNames
<1>6. ASSUME NEW W, wanted \subseteq W,
             y.call.kind \in MeltCalls /\ y.call.invoice.text = "bolt11" => y.call.invoice \in W
      PROVE  Wanted(m2, cs2) \subseteq W
  BY <1>4, <1>6 DEF Wanted
<1>7. Foreign(DepositNames(m2, k, cs2), Wanted(m2, cs2), k.payments)
  <2>1. CASE y.call.kind \in MeltCalls /\ y.call.invoice.text = "bolt11" => y.call.invoice \in wanted
    <3>1. Wanted(m2, cs2) \subseteq wanted
      BY <1>6, <2>1
    <3> HIDE DEF names, wanted
    <3> QED
      BY <1>2, <1>5, <3>1, ForeignFewer
  <2>2. CASE ~(y.call.kind \in MeltCalls /\ y.call.invoice.text = "bolt11" => y.call.invoice \in wanted)
    <3> DEFINE v == y.call.invoice
    <3>1. m2 = m /\ Strangers(m, k, cs, v)
      BY <2>2 DEF Joins
    <3>2. /\ v.msat \in Nat /\ v.hash \notin names
          /\ \A w \in wanted : w.hash = v.hash => w.msat = v.msat
          /\ v.hash \in DOMAIN k.payments => k.payments[v.hash] = v.msat
      BY <3>1 DEF Strangers
    <3>3. Wanted(m2, cs2) \subseteq wanted \cup {v}
      BY <1>6
    <3> HIDE DEF names, wanted, v
    <3> QED
      BY <1>2, <1>5, <3>2, <3>3, ForeignWanted
  <2> QED
    BY <2>1, <2>2
<1>8. PaymentsHeld(m2, k, cs2)
  <2> SUFFICES ASSUME NEW h \in DOMAIN k.payments, h \notin Noticed(m2.melts)
               PROVE  \E q \in DOMAIN m2.inflight : m2.melts[q].request.hash = h /\ Safe(m2, cs2, q)
    BY DEF PaymentsHeld, HeldFor
  <2>1. PICK q \in DOMAIN m2.inflight :
               /\ q \in DOMAIN m.inflight /\ m2.inflight[q].started = m.inflight[q].started
               /\ m.melts[q].request.hash = h /\ m2.melts[q].request.hash = h
               /\ Safe(m2, cs, q)
    BY <1>2 DEF Holding
  <2>2. ~(Doomed(y) /\ y.call.quote = q /\ y.call.att = m2.inflight[q].started)
    BY <2>1 DEF Joins
  <2>3. Safe(m2, cs2, q)
    BY <1>4, <2>1, <2>2 DEF Safe
  <2> QED
    BY <2>1, <2>3
<1>9. Fits(m2, k, cs2)
  BY <1>2, <1>3, <1>7, <1>8 DEF Fits
<1> QED
  BY <1>9 DEF cs2

-----------------------------------------------------------------------------
(* Steps of the mock.                                                        *)

\* another stage of a call
NextStage(y, z) == z.call = y.call /\ (Done1(y) => Done1(z)) /\ (Doomed(z) => Doomed(y))

(* Everything fits if each call is the same or fits in its next stage, the
   mint's quotes agree with the mock, and each new payment is held. *)
LEMMA MockFitsOn ==
  ASSUME NEW m, NEW k, NEW cs, Fits(m, k, cs), NEW k2, NEW cs2, DOMAIN cs2 = DOMAIN cs,
         \A j \in DOMAIN cs : /\ NextStage(cs[j], cs2[j])
                              /\ \/ cs2[j] = cs[j] /\ GoesOn(m, k, m, k2, cs[j])
                                 \/ CallFits(m, k2, cs2[j]),
         MockFits(k2), DepositsAgree(m.mints, k2.invoices), DOMAIN k.payments \subseteq DOMAIN k2.payments,
         Foreign(DepositNames(m, k2, cs), Wanted(m, cs), k2.payments),
         \A h \in DOMAIN k2.payments \ DOMAIN k.payments : HeldFor(m, cs2, h),
         Balance(m, k2)
  PROVE  Fits(m, k2, cs2)
<1>1. ASSUME NEW j \in DOMAIN cs2
      PROVE  CallFits(m, k2, cs2[j])
  <2>1. CallFits(m, k, cs[j])
    BY DEF Fits, CallsFit
  <2>2. CASE cs2[j] = cs[j] /\ GoesOn(m, k, m, k2, cs[j])
    BY <2>1, <2>2, CallGoesOn
  <2> QED
    BY <2>2
<1>2. ASSUME NEW i \in DOMAIN cs2, NEW j \in DOMAIN cs2, i # j
      PROVE  PairFits(cs2[i], cs2[j])
  <2>1. PairFits(cs[i], cs[j])
    BY <1>2 DEF Fits, CallsFit
  <2>2. NextStage(cs[i], cs2[i]) /\ NextStage(cs[j], cs2[j])
    OBVIOUS
  <2> QED
    BY <2>1, <2>2 DEF PairFits, NextStage, Forces
<1>3. CallsFit(m, k2, cs2)
  BY <1>1, <1>2 DEF CallsFit
<1>4. \A j \in DOMAIN cs : cs2[j].call = cs[j].call
  BY DEF NextStage
<1>5. DepositNames(m, k2, cs2) = DepositNames(m, k2, cs) /\ Wanted(m, cs2) = Wanted(m, cs)
  <2>1. /\ {cs2[i].call.quote : i \in {j \in DOMAIN cs2 : cs2[j].call.kind \in DepositCalls}}
             = {cs[i].call.quote : i \in {j \in DOMAIN cs : cs[j].call.kind \in DepositCalls}}
        /\ {cs2[i].call.invoice : i \in {j \in DOMAIN cs2 : cs2[j].call.kind \in MeltCalls
                                                             /\ cs2[j].call.invoice.text = "bolt11"}}
             = {cs[i].call.invoice : i \in {j \in DOMAIN cs : cs[j].call.kind \in MeltCalls
                                                              /\ cs[j].call.invoice.text = "bolt11"}}
    BY <1>4
  <2> QED
    BY <2>1 DEF DepositNames, Wanted
<1>6. MeltsAgree(m, k2.payments)
  <2>1. MeltsAgree(m, k.payments)
    BY DEF Fits
  <2> QED
    BY <2>1 DEF MeltsAgree, MeltFits
<1>7. ASSUME NEW h \in DOMAIN k2.payments
      PROVE  HeldFor(m, cs2, h)
  <2>1. CASE h \in DOMAIN k.payments
    <3>1. HeldFor(m, cs, h)
      BY <2>1 DEF Fits, PaymentsHeld
    <3>2. \A q : Safe(m, cs, q) => Safe(m, cs2, q)
      BY DEF Safe, NextStage
    <3> QED
      BY <3>1, <3>2 DEF HeldFor
  <2> QED
    BY <2>1
<1> QED
  BY <1>3, <1>5, <1>6, <1>7 DEF Fits, PaymentsHeld

(* Nothing is paid and no invoice is issued. *)
LEMMA IdleFits ==
  ASSUME NEW m, NEW k, NEW cs, Fits(m, k, cs), NEW k2, NEW cs2, DOMAIN cs2 = DOMAIN cs,
         \A j \in DOMAIN cs : /\ NextStage(cs[j], cs2[j])
                              /\ cs2[j] = cs[j] \/ CallFits(m, k2, cs2[j]),
         DOMAIN k2 = DOMAIN k, k2.invoices = k.invoices, k2.payments = k.payments
  PROVE  Fits(m, k2, cs2)
<1>1. /\ MockFits(k) /\ DepositsAgree(m.mints, k.invoices) /\ MeltsAgree(m, k.payments)
      /\ Foreign(DepositNames(m, k, cs), Wanted(m, cs), k.payments) /\ Balance(m, k)
  BY DEF Fits
<1>2. MockFits(k2) /\ DepositsAgree(m.mints, k2.invoices)
  BY <1>1 DEF MockFits
<1>3. DepositNames(m, k2, cs) = DepositNames(m, k, cs)
  BY DEF DepositNames
<1>4. Balance(m, k2)
  BY <1>1 DEF Balance, Out, In
<1>5. \A j \in DOMAIN cs : GoesOn(m, k, m, k2, cs[j])
  BY <1>1 DEF GoesOn, DepositStays, MeltStays, FlightStays, InvoiceStays, MeltsAgree
<1>6. Foreign(DepositNames(m, k2, cs), Wanted(m, cs), k2.payments)
  BY <1>1, <1>3
<1>7. \A j \in DOMAIN cs : /\ NextStage(cs[j], cs2[j])
                           /\ \/ cs2[j] = cs[j] /\ GoesOn(m, k, m, k2, cs[j])
                              \/ CallFits(m, k2, cs2[j])
  BY <1>5
<1>8. /\ DOMAIN k.payments \subseteq DOMAIN k2.payments
      /\ \A h \in DOMAIN k2.payments \ DOMAIN k.payments : HeldFor(m, cs2, h)
  OBVIOUS
<1> QED
  BY <1>2, <1>4, <1>6, <1>7, <1>8, MockFitsOn

(* A call that arrives at the mock. *)
LEMMA ArrivedFits ==
  ASSUME NEW m, NEW k, NEW cs, Fits(m, k, cs), NEW i \in DOMAIN cs, cs[i].stage = "sent",
         NEW mode, NEW slow, NEW k2, k2 = Arrived(k, cs[i].call).mock
  PROVE  Fits(m, k2, [cs EXCEPT ![i].stage = "arrived", ![i].mode = mode, ![i].slow = slow])
<1> DEFINE y == cs[i]
           c == y.call
           cs2 == [cs EXCEPT ![i].stage = "arrived", ![i].mode = mode, ![i].slow = slow]
           z == cs2[i]
<1>1. CallFits(m, k, y) /\ MockFits(k)
  BY DEF Fits, CallsFit
<1>2. DOMAIN y = {"call", "asker", "stage", "mode", "slow", "answer"}
  BY <1>1 DEF CallFits
<1>3. k2 = k \/ k2 = [k EXCEPT !.payCount = @ + 1]
  BY DEF Arrived
<1>4. DOMAIN k = {"modes", "invoices", "payments", "payCount"}
  BY <1>1 DEF MockFits, NewMock
<1>5. DOMAIN k2 = DOMAIN k /\ k2.invoices = k.invoices /\ k2.payments = k.payments
  BY <1>3, <1>4
<1>6. z.call = c /\ z.stage = "arrived" /\ DOMAIN z = DOMAIN y
  BY <1>2
<1>7. DOMAIN cs2 = DOMAIN cs /\ \A j \in DOMAIN cs : j # i => cs2[j] = cs[j]
  OBVIOUS
<1> HIDE DEF cs2, z
<1>8. ~Done1(y) /\ ~Done1(z) /\ ~Good(z) /\ ~TellsPaid(z)
  BY <1>6 DEF Done1, Good, TellsPaid
<1>9. NextStage(y, z)
  BY <1>6, <1>8 DEF NextStage, Doomed, Forces
<1>10. /\ c.kind = "mint-quote-create" => CreateFits(m, k2, z)
       /\ c.kind = "mint-quote-check" => CheckFits(m, k2, z)
       /\ c.kind = "melt-quote-create" => DecodeFits(m, z)
  BY <1>1, <1>5, <1>6, <1>8 DEF CallFits, CreateFits, CheckFits, DecodeFits
<1>11. c.kind = "melt-pay" => PayFits(m, k2, z)
  BY <1>1, <1>5, <1>6, <1>8 DEF CallFits, PayFits
<1>12. c.kind \in {"melt-check", "melt-abort"} => StatusFits(m, k2, z)
  BY <1>1, <1>6, <1>8 DEF CallFits, StatusFits
<1>13. CallFits(m, k2, z)
  BY <1>1, <1>6, <1>10, <1>11, <1>12 DEF CallFits
<1>14. \A j \in DOMAIN cs : NextStage(cs[j], cs[j])
  BY DEF NextStage
<1>15. \A j \in DOMAIN cs : /\ NextStage(cs[j], cs2[j])
                            /\ cs2[j] = cs[j] \/ CallFits(m, k2, cs2[j])
  BY <1>7, <1>9, <1>13, <1>14 DEF z
<1>16. Fits(m, k2, cs2)
  BY <1>5, <1>7, <1>15, IdleFits
<1> QED
  BY <1>16 DEF cs2

(* Answers that say nothing of a payment that was made just now, and nothing of
   an invoice issued just now. *)
LEMMA SaidFits ==
  ASSUME NEW m, NEW k, NEW cs, Fits(m, k, cs), NEW i \in DOMAIN cs, NEW z, NextStage(cs[i], z), CallFits(m, k, z)
  PROVE  Fits(m, k, [cs EXCEPT ![i] = z])
<1> DEFINE cs2 == [cs EXCEPT ![i] = z]
<1>1. DOMAIN cs2 = DOMAIN cs /\ cs2[i] = z /\ \A j \in DOMAIN cs : j # i => cs2[j] = cs[j]
  OBVIOUS
<1> HIDE DEF cs2
<1>2. \A j \in DOMAIN cs : /\ NextStage(cs[j], cs2[j])
                           /\ cs2[j] = cs[j] \/ CallFits(m, k, cs2[j])
  BY <1>1 DEF NextStage
<1>3. Fits(m, k, cs2)
  BY <1>1, <1>2, IdleFits
<1> QED
  BY <1>3 DEF cs2

\* y with its answer made
Made(y, a) == [y EXCEPT !.stage = "answered", !.answer = a]

(* What it is then. *)
LEMMA MadeFacts ==
  ASSUME NEW m, NEW k, NEW y, CallFits(m, k, y), y.stage = "arrived", NEW a
  PROVE  /\ Made(y, a).call = y.call /\ Made(y, a).answer = a /\ Done1(Made(y, a)) /\ ~Done1(y)
         /\ DOMAIN Made(y, a) = {"call", "asker", "stage", "mode", "slow", "answer"}
         /\ NextStage(y, Made(y, a))
<1> DEFINE z == Made(y, a)
<1>1. DOMAIN y = {"call", "asker", "stage", "mode", "slow", "answer"}
  BY DEF CallFits
<1>2. z.call = y.call /\ z.answer = a /\ z.stage = "answered" /\ DOMAIN z = DOMAIN y
  BY <1>1 DEF Made
<1> HIDE DEF z
<1>3. Done1(z) /\ ~Done1(y)
  BY <1>2 DEF Done1
<1>4. NextStage(y, z)
  BY <1>2, <1>3 DEF NextStage, Doomed, Forces
<1> QED
  BY <1>1, <1>2, <1>3, <1>4 DEF z

(* What the mint asks of an invoice of another is asked of none of its own, and
   at its worth. *)
LEMMA AskedOfOthers ==
  ASSUME NEW m, NEW k, NEW cs, Fits(m, k, cs), NEW i \in DOMAIN cs, cs[i].call.kind \in AboutMelt
  PROVE  LET v == cs[i].call.invoice IN
         /\ Concerns(m, cs[i].call) /\ v \in Wanted(m, cs) /\ v.msat \in Nat
         /\ v.hash \notin DepositNames(m, k, cs) /\ v.hash \notin DOMAIN k.invoices
         /\ \A w \in Wanted(m, cs) : w.hash = v.hash => w.msat = v.msat
<1> DEFINE v == cs[i].call.invoice
<1>1. CallFits(m, k, cs[i]) /\ Foreign(DepositNames(m, k, cs), Wanted(m, cs), k.payments)
  BY DEF Fits, CallsFit
<1>2. Concerns(m, cs[i].call)
  BY <1>1 DEF CallFits, PayFits, StatusFits, AboutMelt
<1>3. v \in Wanted(m, cs)
  BY <1>2 DEF Concerns, Wanted, MeltCalls, AboutMelt
<1>4. /\ v.msat \in Nat /\ v.hash \notin DepositNames(m, k, cs)
      /\ \A w \in Wanted(m, cs) : w.hash = v.hash => w.msat = v.msat
  BY <1>1, <1>3 DEF Foreign
<1>5. DOMAIN k.invoices \subseteq DepositNames(m, k, cs)
  BY DEF DepositNames
<1> QED
  BY <1>2, <1>3, <1>4, <1>5

(* The mock answers what became of an invoice. *)
LEMMA StatusMade ==
  ASSUME NEW m, NEW k, NEW cs, Fits(m, k, cs), NEW i \in DOMAIN cs, cs[i].stage = "arrived",
         Status(cs[i].call)
  PROVE  CallFits(m, k, Made(cs[i], PaymentStatus(k, cs[i].call).answer))
<1> DEFINE y == cs[i]
           c == y.call
           h == c.invoice.hash
           a == PaymentStatus(k, c).answer
           z == Made(y, a)
<1> SUFFICES CallFits(m, k, z)
  OBVIOUS
<1>1. CallFits(m, k, y) /\ Foreign(DepositNames(m, k, cs), Wanted(m, cs), k.payments)
  BY DEF Fits, CallsFit
<1>2. /\ h \in DOMAIN k.payments =>
           a = [status |-> 200, paid |-> TRUE, msat |-> -k.payments[h], fee |-> <<-FeeMsat>>]
      /\ h \notin DOMAIN k.payments /\ h \in DOMAIN k.invoices =>
           a = [status |-> 200, paid |-> k.invoices[h].paid, msat |-> k.invoices[h].msat, fee |-> <<0>>]
      /\ h \notin DOMAIN k.payments /\ h \notin DOMAIN k.invoices => a = [status |-> 404]
  BY DEF PaymentStatus, Answer
<1>3. /\ h \in DOMAIN k.payments => a.paid /\ a.fee = <<-FeeMsat>>
      /\ h \notin DOMAIN k.payments /\ h \in DOMAIN k.invoices => a.paid = k.invoices[h].paid
      /\ h \notin DOMAIN k.payments /\ h \notin DOMAIN k.invoices => a.status = 404
  BY <1>2
<1> HIDE DEF a
<1>4. z.call = c /\ z.answer = a /\ DOMAIN z = {"call", "asker", "stage", "mode", "slow", "answer"}
  BY <1>1, MadeFacts
<1> HIDE DEF z
<1>5. c.kind \in {"mint-quote-check", "melt-check", "melt-abort"}
  BY DEF Status
<1>6. CASE c.kind = "mint-quote-check"
  <2>1. CheckFits(m, k, y)
    BY <1>1, <1>6 DEF CallFits
  <2>2. h = c.quote /\ c.quote \in DepositNames(m, k, cs)
    BY <1>6, <2>1 DEF CheckFits, DepositNames, DepositCalls
  <2>3. h \notin DOMAIN k.payments
    BY <1>1, <2>2 DEF Foreign
  <2>4. CheckFits(m, k, z)
    BY <1>3, <1>4, <2>2, <2>3 DEF CheckFits, TellsPaid
  <2> QED
    BY <1>4, <1>6, <2>4 DEF CallFits, Kinds
<1>7. CASE c.kind \in {"melt-check", "melt-abort"}
  <2>1. Concerns(m, c) /\ h \notin DOMAIN k.invoices
    BY <1>7, AskedOfOthers DEF AboutMelt
  <2>2. StatusFits(m, k, z)
    BY <1>3, <1>4, <2>1 DEF StatusFits, TellsPaid, MadeBy
  <2> QED
    BY <1>4, <1>7, <2>2 DEF CallFits, Kinds
<1> QED
  BY <1>5, <1>6, <1>7

(* The mock reads an invoice. *)
LEMMA DecodeMade ==
  ASSUME NEW m, NEW k, NEW cs, Fits(m, k, cs), NEW i \in DOMAIN cs, cs[i].stage = "arrived",
         cs[i].call.kind = "melt-quote-create", NEW mode
  PROVE  CallFits(m, k, Made(cs[i], Decode(k, cs[i].call, mode).answer))
<1> DEFINE y == cs[i]
           c == y.call
           a == Decode(k, c, mode).answer
           z == Made(y, a)
<1>1. CallFits(m, k, y)
  BY DEF Fits, CallsFit
<1>2. /\ c.invoice.text # "bolt11" => a.status = 400
      /\ c.invoice.text = "bolt11" => a.msat = c.invoice.msat
  BY DEF Decode, Answer
<1> HIDE DEF a
<1>3. z.call = c /\ z.answer = a /\ DOMAIN z = {"call", "asker", "stage", "mode", "slow", "answer"}
  BY <1>1, MadeFacts
<1> HIDE DEF z
<1>4. DecodeFits(m, y)
  BY <1>1 DEF CallFits
<1>5. DecodeFits(m, z)
  BY <1>2, <1>3, <1>4 DEF DecodeFits, Good
<1>6. CallFits(m, k, z)
  BY <1>3, <1>5 DEF CallFits, Kinds
<1> QED
  BY <1>6 DEF z, a

(* The mock refuses to pay, or says what it did. *)
LEMMA PayMade ==
  ASSUME NEW m, NEW k, NEW cs, Fits(m, k, cs), NEW i \in DOMAIN cs, cs[i].stage = "arrived",
         cs[i].call.kind = "melt-pay", NEW k2,
         NEW a, a.preimage => MadeBy(cs[i].call, k2.payments) /\ a.fee = <<-FeeMsat>>
  PROVE  CallFits(m, k2, Made(cs[i], a))
<1> DEFINE y == cs[i]
           c == y.call
           z == Made(y, a)
<1>1. CallFits(m, k, y)
  BY DEF Fits, CallsFit
<1>2. z.call = c /\ z.answer = a /\ Done1(z) /\ DOMAIN z = {"call", "asker", "stage", "mode", "slow", "answer"}
  BY <1>1, MadeFacts
<1> HIDE DEF z
<1>3. Concerns(m, c)
  BY AskedOfOthers DEF AboutMelt
<1>4. PayFits(m, k2, z)
  BY <1>2, <1>3 DEF PayFits
<1>5. CallFits(m, k2, z)
  BY <1>2, <1>4 DEF CallFits, Kinds
<1> QED
  BY <1>5 DEF z

(* The mock pays: the melt that asked for it holds its inputs for it, since no
   other call can roll it back. *)
LEMMA PaidFits ==
  ASSUME NEW m, NEW k, Kept(m), NEW cs, Fits(m, k, cs), NEW i \in DOMAIN cs, cs[i].stage = "arrived",
         cs[i].call.kind = "melt-pay", cs[i].call.invoice.hash \notin DOMAIN k.payments,
         NEW k2, k2 = [k EXCEPT !.payments = Put(@, cs[i].call.invoice.hash, cs[i].call.invoice.msat)],
         NEW a, a.status # 400, a.preimage => a.fee = <<-FeeMsat>>
  PROVE  Fits(m, k2, [cs EXCEPT ![i] = Made(cs[i], a)])
<1> DEFINE y == cs[i]
           c == y.call
           v == c.invoice
           h == v.hash
           q == c.quote
           z == Made(y, a)
           cs2 == [cs EXCEPT ![i] = z]
<1>1. /\ MockFits(k) /\ DepositsAgree(m.mints, k.invoices) /\ MeltsAgree(m, k.payments)
      /\ Foreign(DepositNames(m, k, cs), Wanted(m, cs), k.payments)
      /\ CallsFit(m, k, cs) /\ PaymentsHeld(m, k, cs) /\ Balance(m, k)
  BY DEF Fits
<1>2. DOMAIN k = {"modes", "invoices", "payments", "payCount"}
  BY <1>1 DEF MockFits, NewMock
<1>3. DOMAIN k2 = DOMAIN k /\ k2.invoices = k.invoices /\ k2.payments = Put(k.payments, h, v.msat)
  BY <1>2
<1>4. /\ DOMAIN k2.payments = DOMAIN k.payments \cup {h} /\ k2.payments[h] = v.msat
      /\ \A p \in DOMAIN k.payments : k2.payments[p] = k.payments[p]
  BY <1>3 DEF Put
<1>5. /\ Concerns(m, c) /\ v \in Wanted(m, cs) /\ v.msat \in Nat
      /\ h \notin DepositNames(m, k, cs)
      /\ \A w \in Wanted(m, cs) : w.hash = h => w.msat = v.msat
  BY AskedOfOthers DEF AboutMelt
<1>6. CallFits(m, k, y)
  BY <1>1 DEF CallsFit
<1>7. z.call = c /\ z.answer = a /\ Done1(z) /\ ~Done1(y) /\ NextStage(y, z)
  BY <1>6, MadeFacts
<1>8. CallFits(m, k2, z)
  <2>1. h \in DOMAIN k2.payments
    BY <1>4
  <2>2. a.preimage => MadeBy(c, k2.payments) /\ a.fee = <<-FeeMsat>>
    BY <2>1 DEF MadeBy
  <2> QED
    BY <2>2, PayMade, ZenonT(40)
<1> HIDE DEF z
<1>9. DOMAIN cs2 = DOMAIN cs /\ cs2[i] = z /\ \A j \in DOMAIN cs : j # i => cs2[j] = cs[j]
  OBVIOUS
<1> HIDE DEF cs2
<1>10. MockFits(k2)
  <2>1. IsFiniteSet(DOMAIN k2.payments)
    BY <1>1, <1>4, FS_AddElement DEF MockFits
  <2>2. \A p \in DOMAIN k2.payments : k2.payments[p] \in Nat
    BY <1>1, <1>4, <1>5 DEF MockFits
  <2> QED
    BY <1>1, <1>3, <2>1, <2>2 DEF MockFits
<1>11. Foreign(DepositNames(m, k2, cs), Wanted(m, cs), k2.payments)
  <2>1. DepositNames(m, k2, cs) = DepositNames(m, k, cs)
    BY <1>3 DEF DepositNames
  <2> QED
    BY <1>1, <1>4, <1>5, <2>1 DEF Foreign
<1>12. ASSUME NEW j \in DOMAIN cs
       PROVE  /\ NextStage(cs[j], cs2[j])
              /\ \/ cs2[j] = cs[j] /\ GoesOn(m, k, m, k2, cs[j])
                 \/ CallFits(m, k2, cs2[j])
  <2>1. CASE j = i
    BY <1>7, <1>8, <1>9, <2>1
  <2>2. CASE j # i
    <3>1. cs2[j] = cs[j] /\ NextStage(cs[j], cs[j])
      BY <1>9, <2>2 DEF NextStage
    <3>2. GoesOn(m, k, m, k2, cs[j])
      BY <1>1, <1>3, <1>4 DEF GoesOn, DepositStays, MeltStays, FlightStays, InvoiceStays, MeltsAgree
    <3> QED
      BY <3>1, <3>2
  <2> QED
    BY <2>1, <2>2
<1>13. HeldFor(m, cs2, h)
  <2>1. PayFits(m, k, y)
    BY <1>6 DEF CallFits
  <2>2. q \in DOMAIN m.inflight /\ m.inflight[q].started = c.att
    BY <1>7, <2>1 DEF PayFits, MadeBy
  <2>3. q \in DOMAIN m.melts
    BY <2>2, FlightsAreMelts
  <2>4. m.melts[q].request.hash = h
    BY <1>5, <2>3 DEF Concerns
  <2>5. ASSUME NEW j \in DOMAIN cs2, Doomed(cs2[j]), cs2[j].call.quote = q, cs2[j].call.att = c.att
        PROVE  FALSE
    <3>1. CASE j = i
      BY <1>7, <1>9, <2>5, <3>1 DEF Doomed, Forces
    <3>2. CASE j # i
      <4>1. cs2[j] = cs[j] /\ PairFits(cs[j], y) /\ SameTry(cs[j].call, c)
        BY <1>1, <1>9, <2>5, <3>2 DEF CallsFit, SameTry
      <4> QED
        BY <1>7, <2>5, <4>1 DEF Doomed, PairFits, Forces
    <3> QED
      BY <3>1, <3>2
  <2>6. Safe(m, cs2, q)
    BY <2>2, <2>5 DEF Safe
  <2> QED
    BY <2>2, <2>4, <2>6 DEF HeldFor
<1>14. \A p \in DOMAIN k2.payments \ DOMAIN k.payments : HeldFor(m, cs2, p)
  BY <1>4, <1>13
<1>15. Balance(m, k2)
  <2>1. Noticed(m.melts) \subseteq DOMAIN k.payments
    BY <1>1 DEF Noticed, MeltsAgree, MeltFits
  <2>2. PaymentNumbers(k.payments)
    BY <1>1 DEF MockFits, PaymentNumbers
  <2> DEFINE hs == Noticed(m.melts)
             u == v.msat
  <2>3. u \in Nat /\ hs \subseteq DOMAIN k.payments /\ h \notin DOMAIN k.payments
    BY <1>5, <2>1
  <2> HIDE DEF hs, u, h
  <2>4. Cost(Put(k.payments, h, u), hs) = Cost(k.payments, hs)
    BY <2>2, <2>3, CostPaid
  <2>5. Cost(k2.payments, hs) = Cost(k.payments, hs)
    BY <1>3, <2>4 DEF u
  <2> QED
    BY <1>1, <1>3, <2>5 DEF Balance, Out, In, hs
<1>16. DepositsAgree(m.mints, k2.invoices) /\ DOMAIN k.payments \subseteq DOMAIN k2.payments
  BY <1>1, <1>3, <1>4
<1>17. Fits(m, k2, cs2)
  BY <1>9, <1>10, <1>11, <1>12, <1>14, <1>15, <1>16, MockFitsOn
<1> QED
  BY <1>17 DEF cs2, z

(* The balance when an invoice is issued, or paid: what is due for its deposit
   goes up with what came in. *)
LEMMA InvoiceBalance ==
  ASSUME NEW m, NEW k, Agreeing(m, k), Balance(m, k), NEW k2, MockFits(k2), NEW h,
         Elsewhere(k.invoices, k2.invoices, h), k2.payments = k.payments,
         \/ CameAt(h, k2.invoices) = CameAt(h, k.invoices)
            /\ ToMintAt(h, m.mints, k2.invoices) = ToMintAt(h, m.mints, k.invoices)
         \/ CameAt(h, k.invoices) = 0 /\ ToMintAt(h, m.mints, k.invoices) \in Nat
            /\ 1000 * ToMintAt(h, m.mints, k2.invoices) <= CameAt(h, k2.invoices)
  PROVE  Balance(m, k2)
<1>1. SumsFit(m, k)
  BY SumsAgree
<1>2. QuoteNumbers(m.mints) /\ InvoiceNumbers(k.invoices) /\ InvoiceNumbers(k2.invoices)
  BY <1>1 DEF SumsFit, MockFits, InvoiceNumbers
<1> DEFINE inv == k.invoices
           inv2 == k2.invoices
           a == m.mints
           t == ToMint(a, inv)
           t2 == ToMint(a, inv2)
           u == ToMintAt(h, a, inv)
           u2 == ToMintAt(h, a, inv2)
           c == Came(inv)
           c2 == Came(inv2)
           d == CameAt(h, inv)
           d2 == CameAt(h, inv2)
<1>3. \A p \in DOMAIN a \ {h} : Awaited(p, a[p], inv2) <=> Awaited(p, a[p], inv)
  BY DEF Awaited, Elsewhere
<1>4. Elsewhere(a, a, h)
  BY DEF Elsewhere
<1>5. t \in Nat /\ t2 \in Nat /\ u \in Nat /\ u2 \in Nat /\ t2 + u = t + u2
  <2> HIDE DEF a, inv, inv2
  <2>1. QuoteNumbers(a)
    BY <1>2 DEF a
  <2> QED
    BY <1>3, <1>4, <2>1, ToMintMoves
<1>6. c \in Nat /\ c2 \in Nat /\ d \in Nat /\ d2 \in Nat /\ c2 + d = c + d2
  <2>1. InvoiceNumbers(inv) /\ InvoiceNumbers(inv2) /\ Elsewhere(inv, inv2, h)
    BY <1>2
  <2> HIDE DEF inv, inv2
  <2> QED
    BY <2>1, CameMoves
<1>7. \/ d2 = d /\ u2 = u
      \/ d = 0 /\ 1000 * u2 <= d2
  OBVIOUS
<1> DEFINE f == m.issued + ChangeSum(m.change)
           g == Flying(m.inflight) + SelfLeft(m.melts)
           e == Cost(k.payments, Noticed(m.melts))
           n == m.redeemed + SelfIn(m.mints)
<1>8. f \in Nat /\ g \in Nat /\ e \in Nat /\ n \in Nat
  BY <1>1 DEF SumsFit
<1>9. Balance(m, k) <=> 1000 * (f + t + g) + e <= c + 1000 * n
  <2> DEFINE f1 == m.issued
             f2 == ChangeSum(m.change)
             g1 == Flying(m.inflight)
             g2 == SelfLeft(m.melts)
  <2>1. f1 \in Nat /\ f2 \in Nat /\ g1 \in Nat /\ g2 \in Nat /\ f = f1 + f2 /\ g = g1 + g2
    BY <1>1 DEF SumsFit
  <2>2. Balance(m, k) <=> 1000 * (f1 + f2 + t + g1 + g2) + e <= c + 1000 * n
    BY BalanceOf
  <2> HIDE DEF f1, f2, g1, g2, t, e, c, n, f, g
  <2>3. f1 + f2 + t + g1 + g2 = f + t + g
    BY <1>5, <2>1
  <2> QED
    BY <2>2, <2>3
<1>10. Balance(m, k2) <=> 1000 * (f + t2 + g) + e <= c2 + 1000 * n
  <2> DEFINE f1 == m.issued
             f2 == ChangeSum(m.change)
             g1 == Flying(m.inflight)
             g2 == SelfLeft(m.melts)
  <2>1. f1 \in Nat /\ f2 \in Nat /\ g1 \in Nat /\ g2 \in Nat /\ f = f1 + f2 /\ g = g1 + g2
    BY <1>1 DEF SumsFit
  <2>2. Balance(m, k2) <=> 1000 * (f1 + f2 + t2 + g1 + g2) + e <= c2 + 1000 * n
    BY BalanceOf
  <2> HIDE DEF f1, f2, g1, g2, t2, e, c2, n, f, g
  <2>3. f1 + f2 + t2 + g1 + g2 = f + t2 + g
    BY <1>5, <2>1
  <2> QED
    BY <2>2, <2>3
<1> HIDE DEF t, t2, u, u2, c, c2, d, d2, f, g, e, n
<1>11. 1000 * (f + t2 + g) + e <= c2 + 1000 * n
  <2>1. 1000 * (f + t + g) + e <= c + 1000 * n
    BY <1>9
  <2>2. CASE d2 = d /\ u2 = u
    BY <1>5, <1>6, <1>8, <2>1, <2>2
  <2>3. CASE d = 0 /\ 1000 * u2 <= d2
    BY <1>5, <1>6, <1>8, <2>1, <2>3
  <2> QED
    BY <1>7, <2>2, <2>3
<1> QED
  BY <1>10, <1>11

\* a new invoice for q, of an amount in sats
NewInvoice(k, k2, q, amount) ==
  /\ DOMAIN k2 = DOMAIN k /\ k2.payments = k.payments
  /\ DOMAIN k2.invoices = DOMAIN k.invoices \cup {q}
  /\ \A p \in DOMAIN k.invoices : p # q => k2.invoices[p] = k.invoices[p]
  /\ DOMAIN k2.invoices[q] = {"msat", "paid"}
  /\ k2.invoices[q].msat = 1000 * amount /\ k2.invoices[q].paid = FALSE

(* The mock issues an invoice, for a deposit of its worth. *)
LEMMA IssuedFits ==
  ASSUME NEW m, NEW k, Kept(m), NEW cs, Fits(m, k, cs), NEW i \in DOMAIN cs, cs[i].stage = "arrived",
         cs[i].call.kind = "mint-quote-create",
         NEW k2, NewInvoice(k, k2, cs[i].call.quote, cs[i].call.amount),
         NEW a, a.status \in 200..299 => a.invoice.hash = cs[i].call.quote
  PROVE  Fits(m, k2, [cs EXCEPT ![i] = Made(cs[i], a)])
<1> DEFINE y == cs[i]
           c == y.call
           q == c.quote
           z == Made(y, a)
           cs2 == [cs EXCEPT ![i] = z]
<1>1. /\ MockFits(k) /\ DepositsAgree(m.mints, k.invoices) /\ MeltsAgree(m, k.payments)
      /\ Foreign(DepositNames(m, k, cs), Wanted(m, cs), k.payments)
      /\ CallsFit(m, k, cs) /\ PaymentsHeld(m, k, cs) /\ Balance(m, k)
  BY DEF Fits
<1>3. DOMAIN k2 = DOMAIN k /\ k2.payments = k.payments
  BY DEF NewInvoice
<1>4. CallFits(m, k, y)
  BY <1>1 DEF CallsFit
<1>5. z.call = c /\ z.answer = a /\ Done1(z) /\ ~Done1(y) /\ NextStage(y, z)
      /\ DOMAIN z = {"call", "asker", "stage", "mode", "slow", "answer"}
  BY <1>4, MadeFacts
<1> HIDE DEF z
<1>6. DOMAIN cs2 = DOMAIN cs /\ cs2[i] = z /\ \A j \in DOMAIN cs : j # i => cs2[j] = cs[j]
  OBVIOUS
<1> HIDE DEF cs2
<1>7. CreateFits(m, k, y)
  BY <1>4 DEF CallFits
<1>8. /\ c.amount \in Nat /\ q \notin DOMAIN k.invoices
      /\ q \in DOMAIN m.mints => ~m.mints[q].self /\ m.mints[q].amount = c.amount
  BY <1>5, <1>7 DEF CreateFits
<1> DEFINE new == k2.invoices[q]
<1>9. DOMAIN new = {"msat", "paid"} /\ new.msat = 1000 * c.amount /\ new.msat \in Nat /\ new.paid = FALSE
  BY <1>8 DEF NewInvoice
<1>10. /\ DOMAIN k2.invoices = DOMAIN k.invoices \cup {q} /\ k2.invoices[q] = new
       /\ \A p \in DOMAIN k.invoices : k2.invoices[p] = k.invoices[p]
  BY <1>8 DEF NewInvoice
<1> HIDE DEF new
<1>11. MockFits(k2)
  <2>1. IsFiniteSet(DOMAIN k2.invoices)
    BY <1>1, <1>10, FS_AddElement DEF MockFits
  <2>2. ASSUME NEW p \in DOMAIN k2.invoices
        PROVE  /\ DOMAIN k2.invoices[p] = {"msat", "paid"}
               /\ k2.invoices[p].msat \in Nat /\ k2.invoices[p].paid \in BOOLEAN
    <3>1. CASE p = q
      BY <1>9, <1>10, <3>1
    <3>2. CASE p \in DOMAIN k.invoices
      BY <1>1, <1>10, <3>2 DEF MockFits
    <3> QED
      BY <1>10, <3>1, <3>2
  <2> QED
    BY <1>1, <1>3, <2>1, <2>2 DEF MockFits
<1>12. DepositsAgree(m.mints, k2.invoices)
  <2>1. ASSUME NEW p \in DOMAIN m.mints
        PROVE  DepositFits(p, m.mints[p], k2.invoices)
    <3>1. DepositFits(p, m.mints[p], k.invoices)
      BY <1>1 DEF DepositsAgree
    <3>2. p \in DOMAIN k2.invoices => ~m.mints[p].self /\ k2.invoices[p].msat = 1000 * m.mints[p].amount
      BY <1>8, <1>9, <1>10, <3>1 DEF DepositFits
    <3> QED
      BY <3>1, <3>2 DEF DepositFits
  <2> QED
    BY <2>1 DEF DepositsAgree
<1>13. DepositNames(m, k2, cs) = DepositNames(m, k, cs)
  <2>1. q \in DepositNames(m, k, cs)
    BY DEF DepositNames, DepositCalls
  <2> QED
    BY <1>10, <2>1 DEF DepositNames
<1>14. CallFits(m, k2, z)
  <2>1. CreateFits(m, k2, z)
    BY <1>5, <1>8 DEF CreateFits, Good
  <2> QED
    BY <1>5, <2>1 DEF CallFits, Kinds
<1>15. ASSUME NEW j \in DOMAIN cs
       PROVE  /\ NextStage(cs[j], cs2[j])
              /\ \/ cs2[j] = cs[j] /\ GoesOn(m, k, m, k2, cs[j])
                 \/ CallFits(m, k2, cs2[j])
  <2>1. CASE j = i
    BY <1>5, <1>6, <1>14, <2>1
  <2>2. CASE j # i
    <3>1. cs2[j] = cs[j] /\ NextStage(cs[j], cs[j])
      BY <1>6, <2>2 DEF NextStage
    <3>2. PairFits(y, cs[j])
      BY <1>1, <2>2 DEF CallsFit
    <3>3. InvoiceStays(cs[j], k.invoices, k2.invoices)
      BY <1>10, <3>2 DEF InvoiceStays, PairFits
    <3>4. GoesOn(m, k, m, k2, cs[j])
      BY <1>1, <1>3, <3>3 DEF GoesOn, DepositStays, MeltStays, FlightStays, MeltsAgree
    <3> QED
      BY <3>1, <3>4
  <2> QED
    BY <2>1, <2>2
<1>16. Balance(m, k2)
  <2>1. Elsewhere(k.invoices, k2.invoices, q)
    BY <1>10 DEF Elsewhere
  <2>2. CameAt(q, k2.invoices) = CameAt(q, k.invoices)
    BY <1>8, <1>9, <1>10 DEF CameAt
  <2>3. ToMintAt(q, m.mints, k2.invoices) = ToMintAt(q, m.mints, k.invoices)
    BY <1>8, <1>9, <1>10 DEF ToMintAt, Awaited
  <2>4. Agreeing(m, k)
    BY <1>1 DEF Agreeing
  <2> QED
    BY <1>1, <1>3, <1>11, <2>1, <2>2, <2>3, <2>4, InvoiceBalance
<1>17. /\ Foreign(DepositNames(m, k2, cs), Wanted(m, cs), k2.payments)
       /\ DOMAIN k.payments \subseteq DOMAIN k2.payments
       /\ \A h \in DOMAIN k2.payments \ DOMAIN k.payments : HeldFor(m, cs2, h)
  BY <1>1, <1>3, <1>13
<1>18. Fits(m, k2, cs2)
  BY <1>6, <1>11, <1>12, <1>15, <1>16, <1>17, MockFitsOn
<1> QED
  BY <1>18 DEF cs2, z

(* The mock makes its answer. *)
LEMMA AnswerFits ==
  ASSUME NEW m, NEW k, Kept(m), NEW cs, Fits(m, k, cs), NEW i \in DOMAIN cs, cs[i].stage = "arrived",
         NEW mode
  PROVE  LET a == MakeAnswer(k, cs[i].call, mode)
         IN Fits(m, a.mock, [cs EXCEPT ![i] = Made(cs[i], a.answer)])
<1> DEFINE y == cs[i]
           c == y.call
           ma == MakeAnswer(k, c, mode)
           z == Made(y, ma.answer)
<1> SUFFICES Fits(m, ma.mock, [cs EXCEPT ![i] = z])
  OBVIOUS
<1>1. CallFits(m, k, y)
  BY DEF Fits, CallsFit
<1>2. NextStage(y, z)
  BY <1>1, MadeFacts
<1>3. CASE c.kind = "melt-pay"
  <2>1. ma = Pay(k, c, mode)
    BY <1>3 DEF MakeAnswer, Status
  <2> DEFINE h == c.invoice.hash
             paying == h \notin DOMAIN k.payments /\ mode \notin {"500", "400", "400-hash"}
  <2>2. CASE ~paying
    <3>1. ma.mock = k /\ ~ma.answer.preimage
      BY <2>1, <2>2 DEF Pay, Answer
    <3>2. CallFits(m, k, z)
      BY <1>3, <3>1, PayMade
    <3> QED
      BY <1>2, <3>1, <3>2, SaidFits
  <2>3. CASE paying
    <3>1. ma = [mock |-> [k EXCEPT !.payments = Put(@, h, c.invoice.msat)],
                answer |-> [status |-> 201, hash |-> TRUE, preimage |-> mode # "inflight",
                            fee |-> <<IF mode = "inflight" THEN 0 ELSE -FeeMsat>>]]
      BY <2>1, <2>3 DEF Pay, Answer
    <3> DEFINE k2 == ma.mock
               a == ma.answer
    <3> DEFINE kp == [k EXCEPT !.payments = Put(@, h, c.invoice.msat)]
               fees == <<-FeeMsat>>
               none == <<0>>
    <3> HIDE DEF kp, fees, none
    <3>2. ma = [mock |-> kp, answer |-> [status |-> 201, hash |-> TRUE, preimage |-> mode # "inflight",
                                         fee |-> IF mode = "inflight" THEN none ELSE fees]]
      BY <3>1 DEF kp, fees, none
    <3> HIDE DEF ma
    <3>3. k2 = kp /\ a.status # 400
      BY <3>2
    <3>8. mode = "inflight" => ~a.preimage
      BY <3>2
    <3>4. mode # "inflight" => a.fee = fees
      BY <3>2
    <3>5. k2 = kp /\ a.status # 400 /\ (a.preimage => a.fee = fees)
      BY <3>3, <3>4, <3>8
    <3>6. k2 = [k EXCEPT !.payments = Put(@, h, c.invoice.msat)] /\ a.status # 400
          /\ (a.preimage => a.fee = <<-FeeMsat>>)
      BY <3>5 DEF kp, fees
    <3> HIDE DEF k2, a, ma
    <3>7. Fits(m, k2, [cs EXCEPT ![i] = Made(y, a)])
      BY <1>3, <2>3, <3>6, PaidFits
    <3> QED
      BY <3>7 DEF k2, a
  <2> QED
    BY <2>2, <2>3
<1>4. CASE Status(c)
  <2>1. ma = PaymentStatus(k, c)
    BY <1>4 DEF MakeAnswer, Status
  <2>2. ma.mock = k
    BY <2>1 DEF PaymentStatus, Answer
  <2>3. CallFits(m, k, z)
    BY <1>4, <2>1, StatusMade
  <2> QED
    BY <1>2, <2>2, <2>3, SaidFits
<1>5. CASE c.kind = "mint-quote-create"
  <2>1. ma = CreateInvoice(k, c, mode)
    BY <1>5 DEF MakeAnswer, Status
  <2>2. CASE mode = "500"
    <3>1. ma.mock = k /\ ma.answer.status = 500
      BY <2>1, <2>2 DEF CreateInvoice, Answer
    <3>2. z.call = c /\ z.answer = ma.answer /\ Done1(z)
          /\ DOMAIN z = {"call", "asker", "stage", "mode", "slow", "answer"}
      BY <1>1, MadeFacts
    <3> HIDE DEF z, ma
    <3>3. CreateFits(m, k, y)
      BY <1>1, <1>5 DEF CallFits
    <3>4. CreateFits(m, k, z)
      BY <3>1, <3>2, <3>3 DEF CreateFits, Good
    <3>5. CallFits(m, k, z)
      BY <1>5, <3>2, <3>4 DEF CallFits, Kinds
    <3> QED
      BY <1>2, <3>1, <3>5, SaidFits
  <2>3. CASE mode # "500"
    <3> DEFINE new == [msat |-> c.amount * 1000, paid |-> FALSE]
               k2 == ma.mock
               a == ma.answer
    <3>1. ma = [mock |-> [k EXCEPT !.invoices = Put(@, c.quote, new)],
                answer |-> [status |-> 201, invoice |-> Invoice("bolt11", c.quote, c.amount * 1000)]]
      BY <2>1, <2>3 DEF CreateInvoice, Answer
    <3>2. k2 = [k EXCEPT !.invoices = Put(@, c.quote, new)] /\ a.invoice.hash = c.quote
      BY <3>1 DEF Invoice
    <3>3. DOMAIN k = {"modes", "invoices", "payments", "payCount"}
      BY DEF Fits, MockFits, NewMock
    <3>5. DOMAIN new = {"msat", "paid"} /\ new.msat = c.amount * 1000 /\ new.paid = FALSE
      OBVIOUS
    <3>6. c.amount \in Nat
      BY <1>1, <1>5 DEF CallFits, CreateFits
    <3>7. new.msat = 1000 * c.amount
      <4> DEFINE n == c.amount
      <4>1. new.msat = n * 1000 /\ n \in Nat
        BY <3>5, <3>6
      <4> HIDE DEF n, new
      <4>2. new.msat = 1000 * n
        BY <4>1
      <4> QED
        BY <4>2 DEF n
    <3> HIDE DEF k2, a, ma, new
    <3> DEFINE put == Put(k.invoices, c.quote, new)
    <3>8. /\ DOMAIN put = DOMAIN k.invoices \cup {c.quote} /\ put[c.quote] = new
          /\ \A p \in DOMAIN k.invoices : p # c.quote => put[p] = k.invoices[p]
      BY DEF Put
    <3>9. k2 = [k EXCEPT !.invoices = put]
      BY <3>2
    <3> HIDE DEF put
    <3>10. DOMAIN k2 = DOMAIN k /\ k2.payments = k.payments /\ k2.invoices = put
      BY <3>3, <3>9
    <3>11. NewInvoice(k, k2, c.quote, c.amount)
      BY <3>5, <3>7, <3>8, <3>10 DEF NewInvoice
    <3>12. a.status \in 200..299 => a.invoice.hash = c.quote
      BY <3>2
    <3>4. Fits(m, k2, [cs EXCEPT ![i] = Made(y, a)])
      BY <1>5, <3>11, <3>12, IssuedFits
    <3> QED
      BY <3>4 DEF k2, a
  <2> QED
    BY <2>2, <2>3
<1>6. CASE c.kind = "melt-quote-create"
  <2>1. ma = Decode(k, c, mode)
    BY <1>6 DEF MakeAnswer, Status
  <2>2. ma.mock = k
    BY <2>1 DEF Decode, Answer
  <2>3. CallFits(m, k, z)
    BY <1>6, <2>1, DecodeMade
  <2> QED
    BY <1>2, <2>2, <2>3, SaidFits
<1> QED
  BY <1>1, <1>3, <1>4, <1>5, <1>6 DEF CallFits, Kinds, Status

(* A payer pays an invoice of the mock. *)
LEMMA MarkedFits ==
  ASSUME NEW m, NEW k, Kept(m), NEW cs, Fits(m, k, cs), NEW h \in DOMAIN k.invoices
  PROVE  Fits(m, MarkPaid(k, h), cs)
<1> DEFINE k2 == MarkPaid(k, h)
<1>1. /\ MockFits(k) /\ DepositsAgree(m.mints, k.invoices) /\ MeltsAgree(m, k.payments)
      /\ Foreign(DepositNames(m, k, cs), Wanted(m, cs), k.payments)
      /\ CallsFit(m, k, cs) /\ PaymentsHeld(m, k, cs) /\ Balance(m, k)
  BY DEF Fits
<1>2. DOMAIN k = {"modes", "invoices", "payments", "payCount"}
  BY <1>1 DEF MockFits, NewMock
<1>3. /\ DOMAIN k2 = DOMAIN k /\ k2.payments = k.payments
      /\ k2.invoices = [k.invoices EXCEPT ![h].paid = TRUE]
  BY <1>2 DEF MarkPaid
<1> HIDE DEF k2
<1>4. \A p \in DOMAIN k.invoices :
        /\ DOMAIN k.invoices[p] = {"msat", "paid"}
        /\ k.invoices[p].msat \in Nat /\ k.invoices[p].paid \in BOOLEAN
  BY <1>1 DEF MockFits
<1>5. /\ DOMAIN k2.invoices = DOMAIN k.invoices
      /\ \A p \in DOMAIN k.invoices : p # h => k2.invoices[p] = k.invoices[p]
      /\ DOMAIN k2.invoices[h] = {"msat", "paid"} /\ k2.invoices[h].paid = TRUE
      /\ k2.invoices[h].msat = k.invoices[h].msat
  BY <1>3, <1>4
<1>6. MockFits(k2)
  <2>1. \A p \in DOMAIN k2.invoices :
          /\ DOMAIN k2.invoices[p] = {"msat", "paid"}
          /\ k2.invoices[p].msat \in Nat /\ k2.invoices[p].paid \in BOOLEAN
    BY <1>4, <1>5
  <2>2. /\ DOMAIN k2 = DOMAIN NewMock /\ IsFiniteSet(DOMAIN k2.invoices) /\ IsFiniteSet(DOMAIN k2.payments)
        /\ \A p \in DOMAIN k2.payments : k2.payments[p] \in Nat
    BY <1>1, <1>3, <1>5 DEF MockFits
  <2> QED
    BY <2>1, <2>2 DEF MockFits
<1>7. DepositsAgree(m.mints, k2.invoices)
  BY <1>1, <1>5 DEF DepositsAgree, DepositFits
<1>8. DepositNames(m, k2, cs) = DepositNames(m, k, cs)
  BY <1>5 DEF DepositNames
<1>9. ASSUME NEW j \in DOMAIN cs
      PROVE  NextStage(cs[j], cs[j]) /\ GoesOn(m, k, m, k2, cs[j])
  <2>1. InvoiceStays(cs[j], k.invoices, k2.invoices)
    BY <1>5 DEF InvoiceStays
  <2> QED
    BY <1>1, <1>3, <2>1 DEF NextStage, GoesOn, DepositStays, MeltStays, FlightStays, MeltsAgree
<1>10. Balance(m, k2)
  <2>1. Elsewhere(k.invoices, k2.invoices, h)
    BY <1>5 DEF Elsewhere
  <2>2. Agreeing(m, k)
    BY <1>1 DEF Agreeing
  <2>3. CASE k.invoices[h].paid
    <3>1. CameAt(h, k2.invoices) = CameAt(h, k.invoices)
          /\ ToMintAt(h, m.mints, k2.invoices) = ToMintAt(h, m.mints, k.invoices)
      BY <1>5, <2>3 DEF CameAt, ToMintAt, Awaited
    <3> QED
      BY <1>1, <1>3, <1>6, <2>1, <2>2, <3>1, InvoiceBalance
  <2>4. CASE ~k.invoices[h].paid
    <3>1. CameAt(h, k.invoices) = 0 /\ CameAt(h, k2.invoices) = k.invoices[h].msat
      BY <1>5, <2>4 DEF CameAt
    <3>2. ToMintAt(h, m.mints, k.invoices) \in Nat
      BY DEF ToMintAt, Kept, Shaped
    <3>3. 1000 * ToMintAt(h, m.mints, k2.invoices) <= CameAt(h, k2.invoices)
      <4>1. CASE h \in DOMAIN m.mints
        <5> DEFINE n == m.mints[h].amount
                   v == k.invoices[h].msat
                   u == ToMintAt(h, m.mints, k2.invoices)
        <5>1. v = 1000 * n /\ n \in Nat /\ v \in Nat
          BY <1>1, <1>4, <4>1 DEF DepositsAgree, DepositFits, Kept, Shaped
        <5>2. u = n \/ u = 0
          BY <4>1 DEF ToMintAt
        <5> HIDE DEF n, v, u
        <5>3. 1000 * u <= v
          BY <5>1, <5>2
        <5> QED
          BY <3>1, <5>3 DEF u, v
      <4>2. CASE h \notin DOMAIN m.mints
        <5>1. ToMintAt(h, m.mints, k2.invoices) = 0
          BY <4>2 DEF ToMintAt
        <5>2. k.invoices[h].msat \in Nat
          BY <1>4
        <5> DEFINE v == k.invoices[h].msat
        <5> HIDE DEF v
        <5>3. 1000 * 0 <= v
          BY <5>2 DEF v
        <5> QED
          BY <3>1, <5>1, <5>3 DEF v
      <4> QED
        BY <4>1, <4>2
    <3> QED
      BY <1>1, <1>3, <1>6, <2>1, <2>2, <3>1, <3>2, <3>3, InvoiceBalance
  <2> QED
    BY <2>3, <2>4
<1>11. /\ Foreign(DepositNames(m, k2, cs), Wanted(m, cs), k2.payments)
       /\ DOMAIN k.payments \subseteq DOMAIN k2.payments
       /\ \A p \in DOMAIN k2.payments \ DOMAIN k.payments : HeldFor(m, cs, p)
  BY <1>1, <1>3, <1>8
<1>12. Fits(m, k2, cs)
  BY <1>6, <1>7, <1>9, <1>10, <1>11, MockFitsOn
<1> QED
  BY <1>12 DEF k2

(* The mock answers differently from now on. *)
LEMMA ModesFit ==
  ASSUME NEW m, NEW k, NEW cs, Fits(m, k, cs), NEW set
  PROVE  Fits(m, SetModes(k, set), cs)
<1> DEFINE k2 == SetModes(k, set)
<1>1. DOMAIN k = {"modes", "invoices", "payments", "payCount"}
  BY DEF Fits, MockFits, NewMock
<1>2. DOMAIN k2 = DOMAIN k /\ k2.invoices = k.invoices /\ k2.payments = k.payments
  BY <1>1 DEF SetModes
<1> HIDE DEF k2
<1>3. \A j \in DOMAIN cs : NextStage(cs[j], cs[j]) /\ (cs[j] = cs[j] \/ CallFits(m, k2, cs[j]))
  BY DEF NextStage
<1>4. Fits(m, k2, cs)
  BY <1>2, <1>3, IdleFits
<1> QED
  BY <1>4 DEF k2

(* Calls are lost. *)
LEMMA LostFits ==
  ASSUME NEW m, NEW k, Kept(m), NEW cs, Fits(m, k, cs), NEW cs2, Fewer(cs, cs2)
  PROVE  Fits(m, k, cs2)
<1>1. Agreeing(m, k)
  BY DEF Fits, Agreeing
<1>2. Moves(m, k, cs, cs2, m)
  BY <1>1, SameQuiet DEF Moves
<1> QED
  BY <1>2, QuietlyFits

-----------------------------------------------------------------------------
(* The mint and the mock.                                                    *)

(* The sum of nothing. *)
LEMMA NothingSums == \A f : DOMAIN f = {} => SumFunction(f) = 0
BY SumEmpty DEF SumFunction

(* Nobody owes anything at first. *)
LEMMA FirstBalance ==
  ASSUME NEW m, NEW k, m.mints = <<>>, m.melts = <<>>, m.inflight = <<>>, m.change = <<>>,
         m.issued = 0, m.redeemed = 0, k.invoices = <<>>, k.payments = <<>>
  PROVE  Balance(m, k)
<1> DEFINE change == ChangeWorth(m.change)
           toMint == [q \in DOMAIN m.mints |-> IF Awaited(q, m.mints[q], k.invoices) THEN m.mints[q].amount ELSE 0]
           flying == [q \in DOMAIN m.inflight |-> m.inflight[q].total]
           left == [q \in DOMAIN m.melts |-> IF SelfSpent(m.melts[q]) THEN m.melts[q].amount ELSE 0]
           came == [h \in DOMAIN k.invoices |-> IF k.invoices[h].paid THEN k.invoices[h].msat ELSE 0]
           in == [q \in DOMAIN m.mints |-> IF m.mints[q].self THEN m.mints[q].amount ELSE 0]
<1>1. DOMAIN <<>> = {}
  OBVIOUS
<1>2. /\ DOMAIN change = {} /\ DOMAIN toMint = {} /\ DOMAIN flying = {} /\ DOMAIN left = {}
      /\ DOMAIN came = {} /\ DOMAIN in = {}
  BY <1>1 DEF ChangeWorth
<1>3. /\ ChangeSum(m.change) = SumFunction(change) /\ ToMint(m.mints, k.invoices) = SumFunction(toMint)
      /\ Flying(m.inflight) = SumFunction(flying) /\ SelfLeft(m.melts) = SumFunction(left)
      /\ Came(k.invoices) = SumFunction(came) /\ SelfIn(m.mints) = SumFunction(in)
  BY DEF ChangeSum, ToMint, Flying, SelfLeft, Came, SelfIn
<1> HIDE DEF change, toMint, flying, left, came, in
<1>4. /\ ChangeSum(m.change) = 0 /\ ToMint(m.mints, k.invoices) = 0 /\ Flying(m.inflight) = 0
      /\ SelfLeft(m.melts) = 0 /\ Came(k.invoices) = 0 /\ SelfIn(m.mints) = 0
  BY <1>2, <1>3, NothingSums
<1>5. Cost(k.payments, Noticed(m.melts)) = 0
  <2>1. Noticed(m.melts) \cap DOMAIN k.payments = {}
    BY <1>1
  <2> QED
    BY <2>1, SumEmpty DEF Cost
<1>6. 1000 * (0 + 0 + 0 + 0 + 0) + 0 <= 0 + 1000 * (0 + 0)
  OBVIOUS
<1> QED
  BY <1>4, <1>5, <1>6, BalanceOf

(* A mint that is installed, with a mock that did nothing yet. *)
LEMMA FirstFits ==
  ASSUME NEW bps, NEW floor, Covers(bps, floor), NEW fee \in Nat,
         NEW m, But(NewMint(bps, floor, fee), m, {"self", "ln"})
  PROVE  Kept(m) /\ Fits(m, NewMock, <<>>)
<1> DEFINE k == NewMock
<1>1. Kept(m)
  BY NewKept
<1>2. /\ m.mints = <<>> /\ m.melts = <<>> /\ m.inflight = <<>> /\ m.change = <<>>
      /\ m.issued = 0 /\ m.redeemed = 0 /\ m.attempts = 0
      /\ m.bps = bps /\ m.floor = floor
  BY DEF But, NewMint
<1>3. k = NewMock /\ k.invoices = <<>> /\ k.payments = <<>>
  BY DEF NewMock
<1>4. DOMAIN <<>> = {} /\ IsFiniteSet({})
  BY FS_EmptySet
<1> HIDE DEF k
<1>5. MockFits(k)
  BY <1>3, <1>4 DEF MockFits
<1>6. DepositsAgree(m.mints, k.invoices)
  BY <1>2, <1>4 DEF DepositsAgree
<1>7. MeltsAgree(m, k.payments)
  BY <1>2, <1>4 DEF MeltsAgree
<1>8. Foreign(DepositNames(m, k, <<>>), Wanted(m, <<>>), k.payments)
  <2>1. Wanted(m, <<>>) = {}
    BY <1>2, <1>4 DEF Wanted
  <2> QED
    BY <1>3, <1>4, <2>1 DEF Foreign
<1>9. CallsFit(m, k, <<>>)
  BY <1>4 DEF CallsFit
<1>10. PaymentsHeld(m, k, <<>>)
  BY <1>3, <1>4 DEF PaymentsHeld
<1>11. Balance(m, k)
  BY <1>2, <1>3, FirstBalance
<1> QED
  BY <1>1, <1>5, <1>6, <1>7, <1>8, <1>9, <1>10, <1>11 DEF Fits, k

(* That is how the two begin. *)
LEMMA BothBegin ==
  ASSUME BothInit
  PROVE  SolventInv
<1>1. PICK bps, floor, self, ln : \E fee \in Nat :
        Covers(bps, floor) /\ mint = [NewMint(bps, floor, fee) EXCEPT !.self = self, !.ln = ln]
  BY DEF BothInit
<1>2. PICK fee \in Nat :
        Covers(bps, floor) /\ mint = [NewMint(bps, floor, fee) EXCEPT !.self = self, !.ln = ln]
  BY <1>1
<1>3. But(NewMint(bps, floor, fee), mint, {"self", "ln"})
  BY <1>2 DEF But, NewMint
<1>4. mock = NewMock /\ calls = <<>>
  BY DEF BothInit
<1> QED
  BY <1>2, <1>3, <1>4, FirstFits DEF SolventInv

(* A client asks, and the call of the answer goes out. *)
LEMMA AsksFit ==
  ASSUME SolventInv, ClientAsks
  PROVE  SolventInv'
<1>1. PICK r : /\ Proper(mint, r) /\ Honest(mint, mock, calls, r)
               /\ mint' = Serve(mint, r).mint /\ Sent(Serve(mint, r).call) /\ mock' = mock
  BY DEF ClientAsks
<1>2. Kept(mint) /\ Fits(mint, mock, calls)
  BY DEF SolventInv
<1>3. Agreeing(mint, mock) /\ CallsFit(mint, mock, calls)
  BY <1>2 DEF Fits, Agreeing
<1>4. Kept(mint')
  BY <1>1, <1>2, ServeKept
<1>5. Moves(mint, mock, calls, calls, mint')
  BY <1>1, <1>3, ServeMoves
<1> DEFINE call == Serve(mint, r).call
<1>6. Fits(mint', mock, calls')
  <2>1. CASE call.kind = "none"
    <3>1. calls' = calls
      BY <1>1, <2>1 DEF Sent
    <3>2. Fewer(calls, calls)
      BY DEF Fewer
    <3>3. Fits(mint', mock, calls)
      BY <1>2, <1>4, <1>5, <3>2, QuietlyFits
    <3> QED
      BY <3>1, <3>3
  <2>2. CASE call.kind # "none"
    <3>1. PICK i, asker : i \notin DOMAIN calls /\ calls' = Put(calls, i, NewCall(call, asker))
      BY <1>1, <2>2 DEF Sent
    <3>2. Joins(mint, mock, calls, mint', NewCall(call, asker))
      BY <1>1, <1>3, <2>2, ServeJoins
    <3> DEFINE y == NewCall(call, asker)
    <3> HIDE DEF y
    <3>3. Fits(mint', mock, Put(calls, i, y))
      BY <1>2, <1>4, <1>5, <3>1, <3>2, SentFits DEF y
    <3> QED
      BY <3>1, <3>3 DEF y
  <2> QED
    BY <2>1, <2>2
<1> QED
  BY <1>1, <1>4, <1>6 DEF SolventInv

(* The mock hears a call, answers it, or its answer reaches the mint. *)
LEMMA LightningFits ==
  ASSUME SolventInv, Lightning1
  PROVE  SolventInv'
<1>1. PICK i \in DOMAIN calls : \/ Arriving(i) /\ mint' = mint
                                \/ Answering(i) /\ mint' = mint
                                \/ Hearing(i) /\ mock' = mock
  BY DEF Lightning1
<1>2. Kept(mint) /\ Fits(mint, mock, calls)
  BY DEF SolventInv
<1>3. CASE Arriving(i) /\ mint' = mint
  <2> DEFINE a == Arrived(mock, calls[i].call)
             mode == a.mode
             slow == a.slow
  <2>1. /\ calls[i].stage = "sent" /\ mock' = a.mock
        /\ calls' = [calls EXCEPT ![i].stage = "arrived", ![i].mode = mode, ![i].slow = slow]
    BY <1>3 DEF Arriving
  <2> HIDE DEF mode, slow
  <2>2. Fits(mint, mock', [calls EXCEPT ![i].stage = "arrived", ![i].mode = mode, ![i].slow = slow])
    BY <1>2, <2>1, ArrivedFits
  <2>3. Fits(mint, mock', calls')
    BY <2>1, <2>2, Zenon
  <2> QED
    BY <1>2, <1>3, <2>3 DEF SolventInv
<1>4. CASE Answering(i) /\ mint' = mint
  <2> DEFINE a == MakeAnswer(mock, calls[i].call, calls[i].mode)
  <2>1. /\ calls[i].stage = "arrived" /\ mock' = a.mock
        /\ calls' = [calls EXCEPT ![i].stage = "answered", ![i].answer = a.answer]
    BY <1>4 DEF Answering
  <2>2. Fits(mint, a.mock, [calls EXCEPT ![i] = Made(calls[i], a.answer)])
    BY <1>2, <2>1, AnswerFits
  <2> HIDE DEF a
  <2>3. calls' = [calls EXCEPT ![i] = Made(calls[i], a.answer)]
    BY <2>1 DEF Made
  <2>4. Fits(mint, mock', calls')
    BY <2>1, <2>2, <2>3, Zenon
  <2> QED
    BY <1>2, <1>4, <2>4 DEF SolventInv
<1>5. CASE Hearing(i) /\ mock' = mock
  <2> DEFINE c == calls[i].call
             a == calls[i].answer
  <2>1. /\ Done1(calls[i]) /\ Heard(mint, c)
        /\ mint' = Answered(mint, c, a).mint /\ calls' = Del(calls, i)
    BY <1>5 DEF Hearing, Done1
  <2>2. Agreeing(mint, mock) /\ CallsFit(mint, mock, calls)
        /\ Foreign(DepositNames(mint, mock, calls), Wanted(mint, calls), mock.payments)
    BY <1>2 DEF Fits, Agreeing
  <2>3. Kept(mint')
    BY <1>2, <2>1, AnsweredKept
  <2>4. Moves(mint, mock, calls, calls', mint')
    BY <2>1, <2>2, AnsweredMoves
  <2>5. Fewer(calls, calls')
    BY <2>1 DEF Fewer, Del
  <2>6. Fits(mint', mock, calls')
    BY <1>2, <2>3, <2>4, <2>5, QuietlyFits
  <2> QED
    BY <1>5, <2>3, <2>6 DEF SolventInv
<1> QED
  BY <1>1, <1>3, <1>4, <1>5

(* Every step keeps the invariant. *)
LEMMA BothStep ==
  ASSUME SolventInv, [BothNext]_bothVars
  PROVE  SolventInv'
<1>1. Kept(mint) /\ Fits(mint, mock, calls)
  BY DEF SolventInv
<1>2. CASE ClientAsks
  BY <1>2, AsksFit
<1>3. CASE Lightning1
  BY <1>3, LightningFits
<1>4. CASE Lost
  <2>1. PICK I \in SUBSET DOMAIN calls : calls' = [i \in I |-> calls[i]]
    BY <1>4 DEF Lost
  <2>2. Fewer(calls, calls') /\ mint' = mint /\ mock' = mock
    BY <1>4, <2>1 DEF Lost, Fewer
  <2>3. Fits(mint, mock, calls')
    BY <1>1, <2>2, LostFits
  <2> QED
    BY <1>1, <2>2, <2>3 DEF SolventInv
<1>5. CASE Outside
  <2>1. mint' = mint /\ calls' = calls
    BY <1>5 DEF Outside
  <2>2. Fits(mint, mock', calls)
    <3>1. CASE \E set : mock' = SetModes(mock, set)
      BY <1>1, <3>1, ModesFit
    <3>2. CASE \E h \in DOMAIN mock.invoices : mock' = MarkPaid(mock, h)
      BY <1>1, <3>2, MarkedFits
    <3> QED
      BY <1>5, <3>1, <3>2 DEF Outside
  <2> QED
    BY <1>1, <2>1, <2>2 DEF SolventInv
<1>6. CASE Tick /\ UNCHANGED <<mock, calls>>
  <2>1. mint' = [mint EXCEPT !.now = @ + 1]
    BY <1>6 DEF Tick
  <2>2. Kept(mint')
    BY <1>1, <2>1, TickKept
  <2>3. Agreeing(mint, mock)
    BY <1>1 DEF Fits, Agreeing
  <2>4. But(mint, mint', {"self", "ln", "bps", "floor", "now", "keysets", "active"})
        /\ mint'.bps = mint.bps /\ mint'.floor = mint.floor
    BY <1>1, <2>1, Fields DEF But, Kept
  <2>5. Covers(mint'.bps, mint'.floor)
    BY <2>3, <2>4 DEF Agreeing, MeltsAgree
  <2>6. Quiet(mint, mint')
    BY <2>3, <2>4, <2>5, OtherFields
  <2>7. Moves(mint, mock, calls, calls, mint') /\ Fewer(calls, calls)
    BY <2>6 DEF Moves, Fewer
  <2>8. Fits(mint', mock, calls)
    BY <1>1, <2>2, <2>7, QuietlyFits
  <2> QED
    BY <1>6, <2>2, <2>8 DEF SolventInv
<1>7. CASE UNCHANGED bothVars
  BY <1>7 DEF SolventInv, bothVars
<1> QED
  BY <1>2, <1>3, <1>4, <1>5, <1>6, <1>7 DEF BothNext

(* The balance is what the mint has and owes, if every payment is noticed or
   its melt still in flight. *)
LEMMA InvSolvent ==
  ASSUME SolventInv
  PROVE  Solvent
<1>1. Kept(mint) /\ MockFits(mock) /\ PaymentsHeld(mint, mock, calls) /\ Balance(mint, mock)
      /\ Agreeing(mint, mock)
  BY DEF SolventInv, Fits, Agreeing
<1>2. Books /\ SumsFit(mint, mock)
  BY <1>1, KeptBooks, SumsAgree
<1>3. Unnoticed = DOMAIN mock.payments \ Noticed(mint.melts)
  BY <1>1 DEF Unnoticed, PaymentsHeld, HeldFor
<1> DEFINE issued == mint.issued
           redeemed == mint.redeemed
           revoked == mint.revoked
           change == ChangeSum(mint.change)
           toMint == ToMint(mint.mints, mock.invoices)
           flying == Flying(mint.inflight)
           left == SelfLeft(mint.melts)
           in == SelfIn(mint.mints)
           came == Came(mock.invoices)
           worth == ValueOf(Unspent)
           noticed == Cost(mock.payments, Noticed(mint.melts))
           others == Cost(mock.payments, Unnoticed)
           all == Cost(mock.payments, DOMAIN mock.payments)
<1>4. /\ issued \in Nat /\ redeemed \in Nat /\ change \in Nat /\ toMint \in Nat /\ flying \in Nat
      /\ left \in Nat /\ in \in Nat /\ came \in Nat
  BY <1>2 DEF SumsFit
<1>5. revoked \in Nat
  BY <1>1 DEF Kept, Shaped
<1>6. noticed \in Nat /\ others \in Nat /\ all \in Nat /\ all = noticed + others
  BY <1>2, <1>3, CostParts DEF SumsFit
<1>7. issued + revoked + change - redeemed = worth
  BY <1>2 DEF Books, ChangeGiven, ChangeSum
<1>8. 1000 * (issued + change + toMint + flying + left) + noticed <= came + 1000 * (redeemed + in)
  BY <1>1, BalanceOf
<1>9. Solvent <=> 1000 * (worth - revoked + toMint + flying) - others <= came - all + 1000 * (in - left)
  BY DEF Solvent, Owed, Backing
<1> HIDE DEF issued, redeemed, revoked, change, toMint, flying, left, in, came, worth, noticed, others, all
<1>10. 1000 * (worth - revoked + toMint + flying) - others <= came - all + 1000 * (in - left)
  BY <1>4, <1>5, <1>6, <1>7, <1>8
<1> QED
  BY <1>9, <1>10

(* Whatever honest clients ask, in any order, and however late the mock
   answers, in any order or never: quotes, invoices, payments and the calls on
   their way agree, and every payment is noticed or its inputs are held. *)
THEOREM OpenFits == BothSpec => []SolventInv
<1>1. BothInit => SolventInv
  BY BothBegin
<1>2. SolventInv /\ [BothNext]_bothVars => SolventInv'
  BY BothStep
<1> QED
  BY <1>1, <1>2, PTL DEF BothSpec

(* So the mint never owes more than it has: every token that can be spent,
   every deposit paid and not yet minted, and the inputs of every melt in
   flight are backed by what came in and was not paid out (post-mint,
   post-melt, settle-melt, rollback-melt, /mock/pay): Solvent. *)
THEOREM OpenSolvent == BothSpec => []Solvent
<1>1. SolventInv => Solvent
  BY InvSolvent
<1> QED
  BY <1>1, OpenFits, PTL

-----------------------------------------------------------------------------
(* The free clients of the suites (FreeClients) are honest: they draw each    *)
(* name once, know one invoice of a stranger, and force no abort.             *)

\* no name is new
KeepsNames(m, m2) == DOMAIN m2.mints \subseteq DOMAIN m.mints /\ DOMAIN m2.melts \subseteq DOMAIN m.melts
NewIf(yes, q) == IF yes THEN {q} ELSE {}

(* Signatures name no quote. *)
LEMMA SignedNames ==
  ASSUME NEW m, Shaped(m), NEW sigs
  PROVE  /\ DOMAIN Signed(m, sigs) = DOMAIN m
         /\ Signed(m, sigs).mints = m.mints /\ Signed(m, sigs).melts = m.melts
<1> DEFINE signed == Sign(m.signed, sigs)
           given == m.given \cup Range(sigs)
<1>1. Signed(m, sigs) = [m EXCEPT !.signed = signed, !.given = given]
  BY DEF Signed
<1> HIDE DEF signed, given
<1> QED
  BY <1>1, Fields

(* A route makes at most the name its request has. *)
LEMMA ServeNames ==
  ASSUME NEW m, Shaped(m), NEW r, r.op \in Asks
  PROVE  LET m2 == Serve(m, r).mint
         IN /\ DOMAIN m2.mints \subseteq DOMAIN m.mints \cup NewIf(r.op = "mint-quote", r.quote)
            /\ DOMAIN m2.melts \subseteq DOMAIN m.melts \cup NewIf(r.op = "melt-quote", r.quote)
<1> DEFINE m2 == Serve(m, r).mint
           Good2(m3) == /\ DOMAIN m3.mints \subseteq DOMAIN m.mints \cup NewIf(r.op = "mint-quote", r.quote)
                        /\ DOMAIN m3.melts \subseteq DOMAIN m.melts \cup NewIf(r.op = "melt-quote", r.quote)
<1> SUFFICES Good2(m2)
  OBVIOUS
<1>0. DOMAIN m = {"self", "ln", "bps", "floor", "keysets", "active", "mints", "melts", "inflight",
                  "change", "spent", "signed", "given", "issued", "redeemed", "attempts", "now",
                  "revoked", "clamped"}
  BY Fields
<1>1. ASSUME NEW m3, KeepsNames(m, m3)
      PROVE  Good2(m3)
  BY <1>1 DEF KeepsNames
<1>2. KeepsNames(m, m)
  BY DEF KeepsNames
<1> HIDE DEF Good2
<1>3. CASE r.op = "swap"
  <2>1. Serve(m, r) = PostSwap(m, r)
    BY <1>3 DEF Serve
  <2> DEFINE n == Signed(m, Signatures(r.outputs))
             spent == n.spent \cup Secrets(r.inputs)
             issued == n.issued + AmountTotal(r.outputs)
             redeemed == n.redeemed + AmountTotal(r.inputs)
             m3 == [n EXCEPT !.spent = spent, !.issued = issued, !.redeemed = redeemed]
  <2>4. PostSwap(m, r).mint = m \/ PostSwap(m, r).mint = m3
    BY DEF PostSwap, Refuse, Reply
  <2>5. DOMAIN n = DOMAIN m /\ n.mints = m.mints /\ n.melts = m.melts
    BY SignedNames
  <2> HIDE DEF n, spent, issued, redeemed
  <2>3. PostSwap(m, r).mint.mints = m.mints /\ PostSwap(m, r).mint.melts = m.melts
    BY <1>0, <2>4, <2>5
  <2>2. KeepsNames(m, m2)
    BY <1>2, <2>1, <2>3 DEF KeepsNames
  <2> QED
    BY <1>1, <2>2
<1>4. CASE r.op = "mint-quote"
  <2> DEFINE mq == MintQuote(r.amount, r.method = "self", IF r.method = "self" THEN "paid" ELSE "unpaid", NoInvoice)
             put == Put(m.mints, r.quote, mq)
  <2>1. m2 = m \/ m2 = [m EXCEPT !.mints = put]
    BY <1>4 DEF Serve, PostMintQuote, Refuse, Reply, Ask
  <2>2. DOMAIN put = DOMAIN m.mints \cup {r.quote}
    BY DEF Put
  <2> HIDE DEF put, m2
  <2> QED
    BY <1>0, <1>4, <2>1, <2>2 DEF Good2, NewIf
<1>5. CASE r.op = "get-mint-quote"
  <2>1. m2 = m
    BY <1>5 DEF Serve, GetMintQuote, Refuse, Reply, Ask
  <2> QED
    BY <1>1, <1>2, <2>1
<1>6. CASE r.op = "mint"
  <2>1. Serve(m, r) = PostMint(m, r)
    BY <1>6 DEF Serve
  <2> DEFINE n == Signed(m, Signatures(r.outputs))
             issued == n.issued + m.mints[r.quote].amount
             m3 == [n EXCEPT !.mints[r.quote].state = "issued", !.issued = issued]
  <2>4. PostMint(m, r).mint = m \/ PostMint(m, r).mint = m3
    BY DEF PostMint, Refuse, Reply
  <2>5. DOMAIN n = DOMAIN m /\ n.mints = m.mints /\ n.melts = m.melts
    BY SignedNames
  <2> HIDE DEF n, issued
  <2>6. DOMAIN m3.mints = DOMAIN m.mints /\ m3.melts = m.melts
    BY <1>0, <2>5
  <2> HIDE DEF m3
  <2>3. DOMAIN PostMint(m, r).mint.mints = DOMAIN m.mints /\ PostMint(m, r).mint.melts = m.melts
    BY <2>4, <2>6
  <2>2. KeepsNames(m, m2)
    BY <1>2, <2>1, <2>3 DEF KeepsNames
  <2> QED
    BY <1>1, <2>2
<1>7. CASE r.op = "melt-quote"
  <2> DEFINE mq == MeltQuote(r.amount, 0, "self", SelfMelt, "unpaid")
             put == Put(m.melts, r.quote, mq)
  <2>1. m2 = m \/ m2 = [m EXCEPT !.melts = put]
    BY <1>7 DEF Serve, PostMeltQuote, Refuse, Reply, Ask
  <2>2. DOMAIN put = DOMAIN m.melts \cup {r.quote}
    BY DEF Put
  <2> HIDE DEF put, m2
  <2> QED
    BY <1>0, <1>7, <2>1, <2>2 DEF Good2, NewIf
<1>8. CASE r.op = "get-melt-quote"
  <2>1. m2 = m
    BY <1>8 DEF Serve, GetMeltQuote, Refuse, Reply, Ask
  <2> QED
    BY <1>1, <1>2, <2>1
<1>9. CASE r.op = "melt"
  <2>1. Serve(m, r) = PostMelt(m, r)
    BY <1>9 DEF Serve
  <2> DEFINE q == r.quote
             mq == m.melts[q]
             claimed == AmountTotal(r.inputs)
             excess == (claimed - ComputeFee(m, r.inputs)) - (mq.amount + mq.reserve)
             started == m.attempts + 1
             sigs == SignChange(m, r.outputs, excess)
             paid == [mq EXCEPT !.state = "paid"]
             e == [secrets |-> Secrets(r.inputs), total |-> claimed, blanks |-> r.outputs,
                   excess |-> excess, started |-> started]
             n == [m EXCEPT !.spent = @ \cup Secrets(r.inputs), !.redeemed = @ + claimed]
             n2 == Signed(n, sigs)
             change == IF sigs = <<>> THEN n2.change ELSE Put(n2.change, q, sigs)
             m3 == [n2 EXCEPT !.melts = Put(@, q, paid), !.change = change]
             m4 == [n EXCEPT !.melts[q].state = "pending", !.attempts = started,
                             !.inflight = Put(@, q, e)]
  <2>4. PostMelt(m, r).mint = m \/ (q \in DOMAIN m.melts /\ PostMelt(m, r).mint \in {m3, m4})
    BY DEF PostMelt, Refuse, Reply, Ask
  <2>5. DOMAIN n = DOMAIN m /\ n.mints = m.mints /\ n.melts = m.melts
    BY <1>0
  <2>6. n2 = [n EXCEPT !.signed = Sign(@, sigs), !.given = @ \cup Range(sigs)]
    BY DEF Signed
  <2> HIDE DEF n, n2, sigs, paid, e, started, change
  <2>7. DOMAIN n2 = DOMAIN m /\ n2.mints = m.mints /\ n2.melts = m.melts
    BY <1>0, <2>5, <2>6
  <2>8. q \in DOMAIN m.melts => m3.mints = m.mints /\ DOMAIN m3.melts = DOMAIN m.melts
    BY <1>0, <2>7 DEF Put
  <2>9. m4.mints = m.mints /\ DOMAIN m4.melts = DOMAIN m.melts
    BY <1>0, <2>5
  <2> HIDE DEF m3, m4
  <2>3. PostMelt(m, r).mint.mints = m.mints /\ DOMAIN PostMelt(m, r).mint.melts = DOMAIN m.melts
    BY <2>4, <2>8, <2>9
  <2>2. KeepsNames(m, m2)
    BY <1>2, <2>1, <2>3 DEF KeepsNames
  <2> QED
    BY <1>1, <2>2
<1>10. CASE r.op \in {"checkstate", "restore", "info", "keys", "settings"}
  <2>1. m2 = m
    BY <1>10 DEF Serve, PostCheckstate, PostRestore, GetInfo, GetKeys, Refuse, Reply
  <2> QED
    BY <1>1, <1>2, <2>1
<1>11. CASE r.op \in {"set-settings", "configure", "activate", "deactivate", "generate", "set-fee"}
  <2>2. CASE r.op \in {"set-settings", "configure"}
    <3>1. KeepsNames(m, m2)
      BY <1>0, <2>2 DEF Serve, UpdateSettings, LnConfigure, Refuse, Reply, KeepsNames
    <3> QED
      BY <1>1, <3>1
  <2>3. CASE r.op \in {"activate", "deactivate"}
    <3>1. KeepsNames(m, m2)
      BY <1>0, <2>3 DEF Serve, KeysetActivate, KeysetDeactivate, Refuse, Reply, KeepsNames
    <3> QED
      BY <1>1, <3>1
  <2>4. CASE r.op \in {"generate", "set-fee"}
    <3>1. KeepsNames(m, m2)
      BY <1>0, <2>4 DEF Serve, KeysetGenerate, KeysetSetFee, Refuse, Reply, KeepsNames
    <3> QED
      BY <1>1, <3>1
  <2> QED
    BY <1>11, <2>2, <2>3, <2>4
<1>12. CASE r.op \in {"delete", "revoke"}
  <2>1. KeepsNames(m, m2)
    BY <1>0, <1>12 DEF Serve, QuoteDelete, QuoteRevoke, Refuse, Reply, KeepsNames, Del
  <2> QED
    BY <1>1, <2>1
<1>13. CASE r.op = "abort"
  <2>1. KeepsNames(m, m2)
    BY <1>0, <1>13 DEF Serve, MeltAbort, Aborted, RollbackMelt, Refuse, Reply, Ask, KeepsNames
  <2> QED
    BY <1>1, <2>1
<1> QED
  BY <1>3, <1>4, <1>5, <1>6, <1>7, <1>8, <1>9, <1>10, <1>11, <1>12, <1>13 DEF Asks

(* A call asks about the quote of its request, and for the invoice of its
   request if that asks for a quote. *)
LEMMA CallNames ==
  ASSUME NEW m, NEW r, r.op \in Asks, Serve(m, r).call.kind # "none"
  PROVE  LET c == Serve(m, r).call
         IN /\ c.quote = r.quote
            /\ c.kind = "melt-quote-create" =>
                 r.op = "melt-quote" /\ r.method # "self" /\ c.invoice = r.invoice
            /\ c.kind \in AboutMelt => r.quote \in DOMAIN m.melts
<1> DEFINE s == Serve(m, r)
<1>1. CASE r.op = "mint-quote"
  <2>1. s = PostMintQuote(m, r)
    BY <1>1 DEF Serve
  <2>2. s.call.kind = "mint-quote-create" /\ s.call.quote = r.quote
    BY <2>1 DEF PostMintQuote, Refuse, Reply, Ask, NoCall
  <2> QED
    BY <2>2 DEF AboutMelt
<1>2. CASE r.op = "get-mint-quote"
  <2>1. s = GetMintQuote(m, r)
    BY <1>2 DEF Serve
  <2>2. s.call.kind = "mint-quote-check" /\ s.call.quote = r.quote
    BY <2>1 DEF GetMintQuote, Refuse, Reply, Ask, NoCall
  <2> QED
    BY <2>2 DEF AboutMelt
<1>3. CASE r.op = "melt-quote"
  <2>1. s = PostMeltQuote(m, r)
    BY <1>3 DEF Serve
  <2>2. s.call.kind = "melt-quote-create" /\ s.call.quote = r.quote /\ r.method # "self"
        /\ s.call.invoice = r.invoice
    BY <2>1 DEF PostMeltQuote, Refuse, Reply, Ask, NoCall
  <2> QED
    BY <1>3, <2>2 DEF AboutMelt
<1>4. CASE r.op = "get-melt-quote"
  <2>1. s = GetMeltQuote(m, r)
    BY <1>4 DEF Serve
  <2>2. s.call.kind = "melt-check" /\ s.call.quote = r.quote /\ r.quote \in DOMAIN m.melts
    BY <2>1 DEF GetMeltQuote, Refuse, Reply, Ask, NoCall
  <2> QED
    BY <2>2
<1>5. CASE r.op = "melt"
  <2>1. s = PostMelt(m, r)
    BY <1>5 DEF Serve
  <2>2. s.call.kind = "melt-pay" /\ s.call.quote = r.quote /\ r.quote \in DOMAIN m.melts
    BY <2>1 DEF PostMelt, Refuse, Reply, Ask, NoCall
  <2> QED
    BY <2>2
<1>6. CASE r.op = "abort"
  <2>1. s = MeltAbort(m, r)
    BY <1>6 DEF Serve
  <2>2. s.call.kind = "melt-abort" /\ s.call.quote = r.quote /\ r.quote \in DOMAIN m.melts
    BY <2>1 DEF MeltAbort, Aborted, Refuse, Reply, Ask, NoCall
  <2> QED
    BY <2>2
<1>7. CASE r.op \in {"swap", "mint", "checkstate", "restore", "info", "keys", "settings", "set-settings",
                     "configure", "activate"}
  <2>1. s.call.kind = "none"
    BY <1>7 DEF Serve, PostSwap, PostMint, PostCheckstate, PostRestore, GetInfo, GetKeys, UpdateSettings,
                LnConfigure, KeysetActivate, Refuse, Reply, NoCall
  <2> QED
    BY <2>1
<1>8. CASE r.op \in {"deactivate", "generate", "set-fee", "delete", "revoke"}
  <2>1. s.call.kind = "none"
    BY <1>8 DEF Serve, KeysetDeactivate, KeysetGenerate, KeysetSetFee, QuoteDelete, QuoteRevoke,
                Refuse, Reply, NoCall
  <2> QED
    BY <2>1
<1> QED
  BY <1>1, <1>2, <1>3, <1>4, <1>5, <1>6, <1>7, <1>8 DEF Asks

(* An answer makes at most the name its call has. *)
LEMMA AnsweredNames ==
  ASSUME NEW m, Shaped(m), NEW c, c.kind \in Questions, NEW a
  PROVE  LET m2 == Answered(m, c, a).mint
         IN /\ DOMAIN m2.mints \subseteq DOMAIN m.mints
            /\ DOMAIN m2.melts \subseteq DOMAIN m.melts \cup {c.quote}
<1> DEFINE q == c.quote
           s == Answered(m, c, a)
           Good2(m3) == /\ DOMAIN m3.mints \subseteq DOMAIN m.mints
                        /\ DOMAIN m3.melts \subseteq DOMAIN m.melts \cup {q}
<1> SUFFICES Good2(s.mint)
  OBVIOUS
<1>0. DOMAIN m = {"self", "ln", "bps", "floor", "keysets", "active", "mints", "melts", "inflight",
                  "change", "spent", "signed", "given", "issued", "redeemed", "attempts", "now",
                  "revoked", "clamped"}
  BY Fields
<1>1. Good2(m)
  OBVIOUS
<1>2. ASSUME NEW v
      PROVE  DOMAIN Put(m.mints, q, v) = DOMAIN m.mints \cup {q} /\ DOMAIN Del(m.mints, q) \subseteq DOMAIN m.mints
             /\ DOMAIN Put(m.melts, q, v) = DOMAIN m.melts \cup {q}
  BY DEF Put, Del
<1>3. ASSUME NEW f, DOMAIN f \subseteq DOMAIN m.mints
      PROVE  Good2([m EXCEPT !.mints = f])
  BY <1>0, <1>3
<1>4. ASSUME NEW f, DOMAIN f \subseteq DOMAIN m.melts \cup {q}
      PROVE  Good2([m EXCEPT !.melts = f])
  BY <1>0, <1>4
<1>5. ASSUME NEW fee
      PROVE  Good2(SettleMelt(m, q, fee))
  <2> DEFINE mq == m.melts[q]
             held == q \in DOMAIN m.inflight
             blanks == IF held THEN m.inflight[q].blanks ELSE <<>>
             over == MeltChange(mq.reserve, RoutingFeeSats(fee, mq.reserve),
                                IF held THEN m.inflight[q].excess ELSE 0)
             change == SignChange(m, blanks, over)
             n == Signed(m, change)
             given == IF change = <<>> THEN n.change ELSE Put(n.change, q, change)
             flying == Del(n.inflight, q)
             m3 == [n EXCEPT !.change = given, !.melts[q].state = "paid", !.inflight = flying]
  <2>1. SettleMelt(m, q, fee) = m3
    BY DEF SettleMelt
  <2>2. DOMAIN n = DOMAIN m /\ n.mints = m.mints /\ n.melts = m.melts
    BY SignedNames
  <2> HIDE DEF n, given, flying
  <2>3. m3.mints = m.mints /\ DOMAIN m3.melts = DOMAIN m.melts
    BY <1>0, <2>2
  <2> HIDE DEF m3
  <2> QED
    BY <2>1, <2>3
<1>6. Good2(RollbackMelt(m, q))
  <2> DEFINE spent == m.spent \ m.inflight[q].secrets
             redeemed == m.redeemed - Min({m.inflight[q].total, m.redeemed})
             clamped == m.clamped \/ m.inflight[q].total > m.redeemed
             flying == Del(m.inflight, q)
             m3 == [m EXCEPT !.spent = spent, !.redeemed = redeemed, !.clamped = clamped,
                             !.melts[q].state = "failed", !.inflight = flying]
  <2>1. RollbackMelt(m, q) = m3
    BY DEF RollbackMelt
  <2> HIDE DEF spent, redeemed, clamped, flying
  <2>2. m3.mints = m.mints /\ DOMAIN m3.melts = DOMAIN m.melts
    BY <1>0
  <2> HIDE DEF m3
  <2> QED
    BY <2>1, <2>2
<1> HIDE DEF Good2
<1>7. CASE c.kind = "mint-quote-create"
  <2>1. s = MintCreated(m, c, a)
    BY <1>7 DEF Answered
  <2> DEFINE mq == [m.mints[q] EXCEPT !.invoice = a.invoice]
             put == Put(m.mints, q, mq)
             del == Del(m.mints, q)
  <2>2. \/ s.mint = m \/ s.mint = [m EXCEPT !.mints = del]
        \/ q \in DOMAIN m.mints /\ s.mint = [m EXCEPT !.mints = put]
    BY <2>1 DEF MintCreated, Refuse, Reply
  <2>3. DOMAIN del \subseteq DOMAIN m.mints /\ DOMAIN put = DOMAIN m.mints \cup {q}
    BY <1>2
  <2> HIDE DEF s, put, del
  <2> QED
    BY <1>1, <1>3, <2>2, <2>3
<1>8. CASE c.kind = "mint-quote-check"
  <2>1. s = MintChecked(m, c, a)
    BY <1>8 DEF Answered
  <2> DEFINE mq == m.mints[q]
             paid == /\ mq.state = "unpaid" /\ m.ln = "lnbits" /\ a.status = 200 /\ a.paid
                     /\ a.msat > 0 => a.msat \div 1000 = 0 \/ a.msat \div 1000 >= mq.amount
             new == IF paid THEN [mq EXCEPT !.state = "paid"] ELSE mq
             put == Put(m.mints, q, new)
  <2>2. s.mint = m \/ (q \in DOMAIN m.mints /\ s.mint = [m EXCEPT !.mints = put])
    BY <2>1 DEF MintChecked, Refuse, Reply
  <2> HIDE DEF new
  <2>3. DOMAIN put = DOMAIN m.mints \cup {q}
    BY <1>2
  <2> HIDE DEF s, put
  <2> QED
    BY <1>1, <1>3, <2>2, <2>3
<1>9. CASE c.kind = "melt-quote-create"
  <2>1. s = MeltQuoted(m, c, a)
    BY <1>9 DEF Answered
  <2> DEFINE amount == CeilDiv(a.msat, 1000)
             mq == MeltQuote(amount, MeltFeeReserve(amount, m.bps, m.floor), "bolt11", c.invoice, "unpaid")
             put == Put(m.melts, q, mq)
  <2>2. s.mint = m \/ s.mint = [m EXCEPT !.melts = put]
    BY <2>1 DEF MeltQuoted, Refuse, Reply
  <2>3. DOMAIN put = DOMAIN m.melts \cup {q}
    BY <1>2
  <2> HIDE DEF s, put
  <2> QED
    BY <1>1, <1>4, <2>2, <2>3
<1>10. CASE c.kind = "melt-pay"
  <2>1. s = MeltPaid(m, c, a)
    BY <1>10 DEF Answered
  <2>2. s.mint \in {m, RollbackMelt(m, q), SettleMelt(m, q, a.fee)}
    BY <2>1 DEF MeltPaid, Refuse, Reply
  <2> HIDE DEF s
  <2> QED
    BY <1>1, <1>5, <1>6, <2>2
<1>11. CASE c.kind = "melt-check"
  <2>1. s = MeltChecked(m, c, a)
    BY <1>11 DEF Answered
  <2>2. s.mint \in {m, SettleMelt(m, q, a.fee)}
    BY <2>1 DEF MeltChecked, Refuse, Reply
  <2> HIDE DEF s
  <2> QED
    BY <1>1, <1>5, <2>2
<1>12. CASE c.kind = "melt-abort"
  <2>1. s = LnMeltAbort(m, c, a)
    BY <1>12 DEF Answered
  <2>2. s.mint \in {m, RollbackMelt(m, q), SettleMelt(m, q, a.fee)}
    BY <2>1 DEF LnMeltAbort, Aborted, Refuse, Reply
  <2> HIDE DEF s
  <2> QED
    BY <1>1, <1>5, <1>6, <2>2
<1> QED
  BY <1>7, <1>8, <1>9, <1>10, <1>11, <1>12 DEF Questions

\* the names the requests before the n-th made
Used(n) == {"t"} \cup {Name(j) : j \in 1..(n - 1)}

\* All that is named bears such a name, and all that is asked to be paid is the
\* stranger's invoice.
Named(m, k, cs, n) ==
  /\ DOMAIN m.mints \cup DOMAIN m.melts \cup DOMAIN k.invoices \subseteq Used(n)
  /\ \A i \in DOMAIN cs : cs[i].call.quote \in Used(n)
  /\ Wanted(m, cs) \subseteq {Stranger}
  /\ \A h \in DOMAIN k.payments : h = "stranger" /\ k.payments[h] = 1500

\* what the n-th request is, if it makes a name, sets or aborts
Own(r, n) ==
  /\ r.op \in {"mint-quote", "melt-quote"} => r.quote = Name(n)
  /\ r.op = "melt-quote" => r.method = "self" \/ r.invoice = Stranger
  /\ r.op = "set-settings" => "bps" \notin DOMAIN r.set /\ "floor" \notin DOMAIN r.set
  /\ r.op = "abort" => ~r.force

(* The next name is new, and nobody's invoice bears it. *)
LEMMA NextName ==
  ASSUME NEW n \in 1..8
  PROVE  /\ Name(n) \notin Used(n) /\ Name(n) \in Used(n + 1) /\ Used(n) \subseteq Used(n + 1)
         /\ Name(n) # "stranger" /\ "stranger" \notin Used(n)
<1>1. /\ Name(1) = "n1" /\ Name(2) = "n2" /\ Name(3) = "n3" /\ Name(4) = "n4"
      /\ Name(5) = "n5" /\ Name(6) = "n6" /\ Name(7) = "n7" /\ Name(8) = "n8"
  BY DEF Name
<1>2. \A j \in 1..8 : j = 1 \/ j = 2 \/ j = 3 \/ j = 4 \/ j = 5 \/ j = 6 \/ j = 7 \/ j = 8
  OBVIOUS
<1>3. \A j \in 1..8 : Name(j) \notin {"t", "stranger"}
  BY <1>1, <1>2
<1>4. \A i, j \in 1..8 : i # j => Name(i) # Name(j)
  BY <1>1, <1>2
<1>5. \A j \in 1..(n - 1) : j \in 1..8 /\ j # n /\ j \in 1..((n + 1) - 1)
  OBVIOUS
<1>6. n \in 1..((n + 1) - 1)
  OBVIOUS
<1> QED
  BY <1>3, <1>4, <1>5, <1>6 DEF Used

(* What is named bears a name of a request that was made. *)
LEMMA NamedBefore ==
  ASSUME NEW m, NEW k, NEW cs, NEW n, Named(m, k, cs, n)
  PROVE  DepositNames(m, k, cs) \subseteq Used(n)
BY DEF Named, DepositNames

(* A free client asks nothing else. *)
LEMMA FreeRequests ==
  ASSUME NEW p, Free(p), NEW m, NEW n, NEW r \in Requests(p, m, n)
  PROVE  Own(r, n)
<1>1. ASSUME r \in MeltRequests(m, n)
      PROVE  Own(r, n)
  BY <1>1 DEF MeltRequests, LnOut, SelfOut, GetMelt, MeltOver, Own
<1>2. ASSUME r \in DepositRequests(m, n)
      PROVE  Own(r, n)
  BY <1>2 DEF DepositRequests, SelfQuote, LnQuote, GetMint, MintOver, Own
<1>3. ASSUME r \in SwapRequests(m, n)
      PROVE  Own(r, n)
  BY <1>3 DEF SwapRequests, Swap, Own
<1>4. CASE p.name = "locks"
  <2>1. r \in LockRequests(m, n, p.lock)
    BY <1>4 DEF Requests
  <2>2. \/ r \in {Swap(<<Locked(ProofOf(m, b), p.lock, w)>>, Outputs(Name(n), <<m.signed[b].amount>>, m.active)) :
                  b \in DOMAIN m.signed, w \in Witnesses}
        \/ r = SelfOut(Name(n), 4)
        \/ r \in {MeltOver("self", q, <<Locked(ProofOf(m, b), p.lock, w)>>, <<>>) :
                  q \in DOMAIN m.melts, b \in DOMAIN m.signed, w \in Witnesses}
    BY <2>1 DEF LockRequests
  <2>3. CASE r \in {Swap(<<Locked(ProofOf(m, b), p.lock, w)>>, Outputs(Name(n), <<m.signed[b].amount>>, m.active)) :
                    b \in DOMAIN m.signed, w \in Witnesses}
    <3>1. PICK b \in DOMAIN m.signed, w \in Witnesses :
            r = Swap(<<Locked(ProofOf(m, b), p.lock, w)>>, Outputs(Name(n), <<m.signed[b].amount>>, m.active))
      BY <2>3
    <3>2. r.op = "swap"
      BY <3>1 DEF Swap
    <3> QED
      BY <3>2 DEF Own
  <2>4. CASE r = SelfOut(Name(n), 4)
    BY <2>4 DEF SelfOut, Own
  <2>5. CASE r \in {MeltOver("self", q, <<Locked(ProofOf(m, b), p.lock, w)>>, <<>>) :
                    q \in DOMAIN m.melts, b \in DOMAIN m.signed, w \in Witnesses}
    <3>1. PICK q \in DOMAIN m.melts, b \in DOMAIN m.signed, w \in Witnesses :
            r = MeltOver("self", q, <<Locked(ProofOf(m, b), p.lock, w)>>, <<>>)
      BY <2>5
    <3>2. r.op = "melt"
      BY <3>1 DEF MeltOver
    <3> QED
      BY <3>2 DEF Own
  <2> QED
    BY <2>2, <2>3, <2>4, <2>5
<1>5. CASE p.name = "melts"
  <2>1. Requests(p, m, n) =
          MeltRequests(m, n)
          \cup {Abort(q, FALSE) : q \in DOMAIN m.melts} \cup {Delete("melt", q) : q \in DOMAIN m.melts}
          \cup {[op |-> "configure", ln |-> ln] : ln \in {"none", "lnbits"}}
    BY <1>5 DEF Requests
  <2>2. CASE r \notin MeltRequests(m, n)
    <3>1. \/ \E q \in DOMAIN m.melts : r = Abort(q, FALSE) \/ r = Delete("melt", q)
          \/ \E ln : r = [op |-> "configure", ln |-> ln]
      BY <2>1, <2>2
    <3>2. (r.op = "abort" /\ ~r.force) \/ r.op = "delete" \/ r.op = "configure"
      BY <3>1 DEF Abort, Delete
    <3> QED
      BY <3>2 DEF Own
  <2> QED
    BY <1>1, <2>2
<1>6. CASE p.name = "deposits"
  <2>1. \/ r \in DepositRequests(m, n)
        \/ r \in {Delete("mint", q) : q \in DOMAIN m.mints} \cup {Revoke(q) : q \in DOMAIN m.mints}
                 \cup {[op |-> "set-settings", set |-> [self |-> ~m.self], bad |-> Pass]}
    BY <1>6 DEF Requests
  <2>2. CASE r \notin DepositRequests(m, n)
    BY <2>1, <2>2 DEF Delete, Revoke, Own
  <2> QED
    BY <1>2, <2>2
<1>7. CASE p.name = "keysets"
  <2>1. \/ r \in SwapRequests(m, n) \/ r \in MeltRequests(m, n) \/ r \in DepositRequests(m, n)
        \/ r \in {SelfOut(Name(n), 1), SelfQuote(Name(n), 3)}
        \/ r.op \in {"set-fee", "activate", "deactivate", "generate"}
    BY <1>7 DEF Requests
  <2>2. CASE r \in {SelfOut(Name(n), 1), SelfQuote(Name(n), 3)}
    BY <2>2 DEF SelfOut, SelfQuote, Own
  <2>3. CASE r.op \in {"set-fee", "activate", "deactivate", "generate"}
    BY <2>3 DEF Own
  <2> QED
    BY <1>1, <1>2, <1>3, <2>1, <2>2, <2>3
<1> QED
  BY <1>4, <1>5, <1>6, <1>7 DEF Free

(* And so it is honest. *)
LEMMA OwnHonest ==
  ASSUME NEW m, Shaped(m), NEW k, NEW cs, MeltsAgree(m, k.payments), NEW n \in 1..8, Named(m, k, cs, n),
         NEW r, Own(r, n)
  PROVE  Honest(m, k, cs, r)
<1>1. /\ DepositNames(m, k, cs) \subseteq Used(n) /\ Wanted(m, cs) \subseteq {Stranger}
      /\ \A i \in DOMAIN cs : cs[i].call.quote \in Used(n)
      /\ \A h \in DOMAIN k.payments : h = "stranger" /\ k.payments[h] = 1500
  BY NamedBefore DEF Named
<1>2. Name(n) \notin Used(n) /\ Name(n) # "stranger" /\ "stranger" \notin Used(n)
  BY NextName
<1>3. Stranger.hash = "stranger" /\ Stranger.msat = 1500
  BY DEF Stranger, Bolt11, Invoice
<1>4. r.op = "mint-quote" =>
        r.quote \notin DepositNames(m, k, cs) \cup {w.hash : w \in Wanted(m, cs)} \cup DOMAIN k.payments
  BY <1>1, <1>2, <1>3 DEF Own
<1>5. r.op = "melt-quote" =>
        r.quote \notin {cs[i].call.quote : i \in {j \in DOMAIN cs : cs[j].call.kind \in MeltCalls}}
  BY <1>1, <1>2 DEF Own
<1>6. Strangers(m, k, cs, Stranger)
  BY <1>1, <1>2, <1>3 DEF Strangers
<1>7. r.op = "set-settings" => LET m2 == UpdateSettings(m, r).mint IN Covers(m2.bps, m2.floor)
  <2>1. Covers(m.bps, m.floor)
    BY DEF MeltsAgree
  <2>2. ASSUME r.op = "set-settings"
        PROVE  UpdateSettings(m, r).mint.bps = m.bps /\ UpdateSettings(m, r).mint.floor = m.floor
    BY <2>2, Fields DEF UpdateSettings, Refuse, Reply, Own
  <2> QED
    BY <2>1, <2>2
<1>8. r.op = "abort" => ~r.force
  BY DEF Own
<1> QED
  BY <1>4, <1>5, <1>6, <1>7, <1>8 DEF Honest, Own

-----------------------------------------------------------------------------
(* Names are kept, step by step.                                             *)

(* The mint moved, and names what requests so far named. *)
LEMMA NamedMoves ==
  ASSUME NEW m, NEW k, NEW cs0, NEW n, Named(m, k, cs0, n), NEW cs, Fewer(cs0, cs),
         NEW m2, Moves(m, k, cs0, cs, m2), NEW n2, Used(n) \subseteq Used(n2),
         DOMAIN m2.mints \cup DOMAIN m2.melts \subseteq Used(n2)
  PROVE  Named(m2, k, cs, n2)
<1>1. Wanted(m2, cs) \subseteq {Stranger}
  BY MovesWanted DEF Named
<1>2. DOMAIN k.invoices \subseteq Used(n2)
  BY DEF Named
<1>3. \A i \in DOMAIN cs : cs[i].call.quote \in Used(n2)
  BY DEF Named, Fewer
<1>4. \A h \in DOMAIN k.payments : h = "stranger" /\ k.payments[h] = 1500
  BY DEF Named
<1> QED
  BY <1>1, <1>2, <1>3, <1>4 DEF Named

(* A call about such a name joins the others. *)
LEMMA NamedPut ==
  ASSUME NEW m, NEW k, NEW cs, NEW n, Named(m, k, cs, n), NEW i, NEW y, y.call.quote \in Used(n),
         y.call.kind \in MeltCalls /\ y.call.invoice.text = "bolt11" => y.call.invoice = Stranger
  PROVE  Named(m, k, Put(cs, i, y), n)
<1> DEFINE cs2 == Put(cs, i, y)
<1>1. DOMAIN cs2 = DOMAIN cs \cup {i} /\ cs2[i] = y /\ \A j \in DOMAIN cs : j # i => cs2[j] = cs[j]
  BY DEF Put
<1> HIDE DEF cs2
<1>2. \A j \in DOMAIN cs2 : cs2[j].call.quote \in Used(n)
  BY <1>1 DEF Named
<1>3. \A j \in DOMAIN cs : cs[j].call.kind \in MeltCalls /\ cs[j].call.invoice.text = "bolt11"
                             => cs[j].call.invoice = Stranger
  BY DEF Named, Wanted
<1>4. \A j \in DOMAIN cs2 : cs2[j].call.kind \in MeltCalls /\ cs2[j].call.invoice.text = "bolt11"
                              => cs2[j].call.invoice = Stranger
  BY <1>1, <1>3
<1>5. \A q \in DOMAIN m.melts : m.melts[q].method = "bolt11" => m.melts[q].request = Stranger
  BY DEF Named, Wanted
<1>6. Wanted(m, cs2) \subseteq {Stranger}
  BY <1>4, <1>5 DEF Wanted
<1> QED
  BY <1>2, <1>6 DEF Named, cs2

(* The n-th request, and the call it makes. *)
LEMMA AskNamed ==
  ASSUME NEW m, NEW k, NEW cs, Kept(m), Fits(m, k, cs), NEW n \in 1..8, Named(m, k, cs, n),
         NEW r, Proper(m, r), Honest(m, k, cs, r), Own(r, n)
  PROVE  LET m2 == Serve(m, r).mint
             c == Serve(m, r).call
         IN /\ Named(m2, k, cs, n + 1)
            /\ c.kind # "none" =>
                 \A i, asker : i \notin DOMAIN cs => Named(m2, k, Put(cs, i, NewCall(c, asker)), n + 1)
<1> DEFINE m2 == Serve(m, r).mint
           c == Serve(m, r).call
<1>1. r.op \in Asks /\ Shaped(m) /\ Agreeing(m, k) /\ CallsFit(m, k, cs)
  BY DEF Proper, Kept, Fits, Agreeing
<1>2. Moves(m, k, cs, cs, m2) /\ Fewer(cs, cs)
  BY <1>1, ServeMoves DEF Fewer
<1>3. Used(n) \subseteq Used(n + 1) /\ Name(n) \in Used(n + 1)
  BY NextName
<1>4. DOMAIN m2.mints \cup DOMAIN m2.melts \subseteq Used(n + 1)
  <2>1. /\ DOMAIN m2.mints \subseteq DOMAIN m.mints \cup NewIf(r.op = "mint-quote", r.quote)
        /\ DOMAIN m2.melts \subseteq DOMAIN m.melts \cup NewIf(r.op = "melt-quote", r.quote)
    BY <1>1, ServeNames
  <2> HIDE DEF m2
  <2>2. /\ NewIf(r.op = "mint-quote", r.quote) \subseteq {Name(n)}
        /\ NewIf(r.op = "melt-quote", r.quote) \subseteq {Name(n)}
    BY DEF NewIf, Own
  <2> QED
    BY <1>3, <2>1, <2>2 DEF Named
<1> HIDE DEF m2
<1>5. Named(m2, k, cs, n + 1)
  BY <1>2, <1>3, <1>4, NamedMoves
<1>6. ASSUME c.kind # "none", NEW i, NEW asker
      PROVE  Named(m2, k, Put(cs, i, NewCall(c, asker)), n + 1)
  <2> DEFINE y == NewCall(c, asker)
  <2>1. Joins(m, k, cs, m2, y) /\ y.call = c
    BY <1>1, <1>6, ServeJoins DEF m2, NewCall
  <2>2. /\ c.quote = r.quote
        /\ c.kind = "melt-quote-create" => r.op = "melt-quote" /\ r.method # "self" /\ c.invoice = r.invoice
        /\ c.kind \in AboutMelt => r.quote \in DOMAIN m.melts
    BY <1>1, <1>6, CallNames
  <2> HIDE DEF c, y
  <2>3. c.kind \in Kinds /\ CallFits(m2, k, y)
    BY <2>1 DEF Joins, CallFits
  <2>4. CASE c.kind \in DepositCalls
    <3>1. c.quote \in DOMAIN m2.mints /\ c.kind \notin MeltCalls
      BY <2>1, <2>4 DEF Joins, DepositCalls, MeltCalls
    <3>2. c.quote \in Used(n + 1)
      BY <1>4, <3>1
    <3> QED
      BY <1>5, <2>1, <3>1, <3>2, NamedPut DEF y
  <2>5. CASE c.kind = "melt-quote-create"
    <3>1. c.quote = Name(n) /\ c.invoice = Stranger
      BY <2>2, <2>5 DEF Own
    <3> QED
      BY <1>3, <1>5, <2>1, <3>1, NamedPut DEF y
  <2>6. CASE c.kind \in AboutMelt
    <3>1. c.quote \in Used(n + 1)
      BY <1>3, <2>2, <2>6 DEF Named
    <3>2. Concerns(m2, c)
      BY <2>1, <2>3, <2>6 DEF CallFits, PayFits, StatusFits, AboutMelt
    <3>3. c.invoice \in Wanted(m2, cs)
      <4>1. c.invoice.text = "bolt11" /\ c.kind \in MeltCalls
        BY <2>6, <3>2 DEF Concerns, AboutMelt, MeltCalls
      <4>2. CASE m2 = m
        <5>1. m.melts[c.quote].method = "bolt11" /\ m.melts[c.quote].request = c.invoice
          BY <2>2, <2>6, <3>2, <4>2 DEF Concerns
        <5> QED
          BY <2>2, <2>6, <4>2, <5>1 DEF Wanted
      <4> QED
        BY <2>1, <4>1, <4>2 DEF Joins
    <3>4. c.invoice = Stranger
      BY <1>5, <3>3 DEF Named
    <3> QED
      BY <1>5, <2>1, <3>1, <3>4, NamedPut DEF y
  <2> QED
    BY <2>3, <2>4, <2>5, <2>6 DEF Kinds, DepositCalls, AboutMelt
<1> QED
  BY <1>5, <1>6 DEF m2

(* The mock names nothing else. *)
LEMMA NamedMock ==
  ASSUME NEW m, NEW k, NEW cs, NEW n, Named(m, k, cs, n), NEW k2, NEW cs2, DOMAIN cs2 = DOMAIN cs,
         \A j \in DOMAIN cs : cs2[j].call = cs[j].call,
         DOMAIN k2.invoices \subseteq Used(n),
         \A h \in DOMAIN k2.payments : h = "stranger" /\ k2.payments[h] = 1500
  PROVE  Named(m, k2, cs2, n)
<1> Wanted(m, cs) \subseteq {Stranger}
  BY DEF Named
<1>1. \A q \in DOMAIN m.melts : m.melts[q].method = "bolt11" => m.melts[q].request = Stranger
  BY DEF Wanted
<1>2. \A j \in DOMAIN cs2 : cs2[j].call.kind \in MeltCalls /\ cs2[j].call.invoice.text = "bolt11"
                              => cs2[j].call.invoice = Stranger
  BY DEF Named, Wanted
<1>3. Wanted(m, cs2) \subseteq {Stranger}
  BY <1>1, <1>2 DEF Wanted
<1> QED
  BY <1>3 DEF Named

(* What it issues and pays are deposits, and the stranger's invoice. *)
LEMMA MadeNamed ==
  ASSUME NEW m, NEW k, NEW cs, Fits(m, k, cs), NEW n, Named(m, k, cs, n), NEW i \in DOMAIN cs, NEW mode
  PROVE  LET k2 == MakeAnswer(k, cs[i].call, mode).mock
         IN /\ DOMAIN k2.invoices \subseteq Used(n)
            /\ \A h \in DOMAIN k2.payments : h = "stranger" /\ k2.payments[h] = 1500
<1> DEFINE c == cs[i].call
           k2 == MakeAnswer(k, c, mode).mock
           Good3(k3) == /\ DOMAIN k3.invoices \subseteq Used(n)
                        /\ \A h \in DOMAIN k3.payments : h = "stranger" /\ k3.payments[h] = 1500
<1> SUFFICES Good3(k2)
  OBVIOUS
<1>1. Good3(k) /\ c.quote \in Used(n)
  BY DEF Named
<1>2. DOMAIN k = {"modes", "invoices", "payments", "payCount"} /\ c.kind \in Kinds
  BY DEF Fits, MockFits, NewMock, CallsFit, CallFits
<1>3. CASE c.kind = "melt-pay"
  <2> DEFINE put == Put(k.payments, c.invoice.hash, c.invoice.msat)
  <2>1. k2 = k \/ k2 = [k EXCEPT !.payments = put]
    BY <1>3 DEF MakeAnswer, Status, Pay, Answer
  <2>2. c.invoice = Stranger
    BY <1>3, AskedOfOthers DEF Named, AboutMelt
  <2>3. \A h \in DOMAIN put : h = "stranger" /\ put[h] = 1500
    BY <1>1, <2>2 DEF Put, Stranger, Bolt11, Invoice
  <2> HIDE DEF put, k2, c
  <2> QED
    BY <1>1, <1>2, <2>1, <2>3
<1>4. CASE c.kind = "mint-quote-create"
  <2> DEFINE put == Put(k.invoices, c.quote, [msat |-> c.amount * 1000, paid |-> FALSE])
  <2>1. k2 = k \/ k2 = [k EXCEPT !.invoices = put]
    BY <1>4 DEF MakeAnswer, Status, CreateInvoice, Answer
  <2>2. DOMAIN put \subseteq Used(n)
    BY <1>1 DEF Put
  <2> HIDE DEF put, k2, c
  <2> QED
    BY <1>1, <1>2, <2>1, <2>2
<1>5. CASE c.kind \notin {"melt-pay", "mint-quote-create"}
  <2>1. k2 = k
    BY <1>2, <1>5 DEF MakeAnswer, Status, PaymentStatus, Decode, Answer, Kinds
  <2> QED
    BY <1>1, <2>1
<1> QED
  BY <1>3, <1>4, <1>5

(* Lightning names nothing else. *)
LEMMA LightningNamed ==
  ASSUME SolventInv, NEW n, Named(mint, mock, calls, n), Lightning1
  PROVE  Named(mint', mock', calls', n)
<1>1. PICK i \in DOMAIN calls : \/ Arriving(i) /\ mint' = mint
                                \/ Answering(i) /\ mint' = mint
                                \/ Hearing(i) /\ mock' = mock
  BY DEF Lightning1
<1>2. Kept(mint) /\ Fits(mint, mock, calls)
  BY DEF SolventInv
<1>3. \A j \in DOMAIN calls : DOMAIN calls[j] = {"call", "asker", "stage", "mode", "slow", "answer"}
  BY <1>2 DEF Fits, CallsFit, CallFits
<1>4. DOMAIN mock.invoices \subseteq Used(n)
      /\ \A h \in DOMAIN mock.payments : h = "stranger" /\ mock.payments[h] = 1500
  BY DEF Named
<1>5. CASE Arriving(i) /\ mint' = mint
  <2> DEFINE a == Arrived(mock, calls[i].call)
             mode == a.mode
             slow == a.slow
  <2>1. mock' = a.mock /\ calls' = [calls EXCEPT ![i].stage = "arrived", ![i].mode = mode, ![i].slow = slow]
    BY <1>5 DEF Arriving
  <2>2. mock' = mock \/ mock' = [mock EXCEPT !.payCount = @ + 1]
    BY <2>1 DEF Arrived
  <2>3. DOMAIN mock = {"modes", "invoices", "payments", "payCount"}
    BY <1>2 DEF Fits, MockFits, NewMock
  <2>4. mock'.invoices = mock.invoices /\ mock'.payments = mock.payments
    BY <2>2, <2>3
  <2> HIDE DEF mode, slow
  <2>5. DOMAIN calls' = DOMAIN calls /\ \A j \in DOMAIN calls : calls'[j].call = calls[j].call
    BY <1>3, <2>1
  <2>6. Named(mint, mock', calls', n)
    BY <1>4, <2>4, <2>5, NamedMock
  <2> QED
    BY <1>5, <2>6
<1>6. CASE Answering(i) /\ mint' = mint
  <2> DEFINE a == MakeAnswer(mock, calls[i].call, calls[i].mode)
             answer == a.answer
  <2>1. mock' = a.mock /\ calls' = [calls EXCEPT ![i].stage = "answered", ![i].answer = answer]
    BY <1>6 DEF Answering
  <2> DEFINE k2 == a.mock
  <2>2. /\ DOMAIN k2.invoices \subseteq Used(n)
        /\ \A h \in DOMAIN k2.payments : h = "stranger" /\ k2.payments[h] = 1500
    BY <1>2, MadeNamed
  <2>5. mock' = k2
    BY <2>1
  <2> HIDE DEF answer, k2
  <2>3. DOMAIN calls' = DOMAIN calls /\ \A j \in DOMAIN calls : calls'[j].call = calls[j].call
    BY <1>3, <2>1
  <2>4. Named(mint, mock', calls', n)
    BY <2>2, <2>3, <2>5, NamedMock
  <2> QED
    BY <1>6, <2>4
<1>7. CASE Hearing(i) /\ mock' = mock
  <2> DEFINE c == calls[i].call
             a == calls[i].answer
  <2>1. /\ Done1(calls[i]) /\ Heard(mint, c)
        /\ mint' = Answered(mint, c, a).mint /\ calls' = Del(calls, i)
    BY <1>7 DEF Hearing, Done1
  <2>2. Agreeing(mint, mock) /\ CallsFit(mint, mock, calls) /\ Shaped(mint)
        /\ Foreign(DepositNames(mint, mock, calls), Wanted(mint, calls), mock.payments)
    BY <1>2 DEF Fits, Agreeing, Kept
  <2>3. Moves(mint, mock, calls, calls', mint')
    BY <2>1, <2>2, AnsweredMoves
  <2>4. Fewer(calls, calls')
    BY <2>1 DEF Fewer, Del
  <2>5. /\ DOMAIN mint'.mints \subseteq DOMAIN mint.mints
        /\ DOMAIN mint'.melts \subseteq DOMAIN mint.melts \cup {c.quote}
    BY <2>1, <2>2, AnsweredNames DEF Heard
  <2>6. DOMAIN mint'.mints \cup DOMAIN mint'.melts \subseteq Used(n)
    BY <2>5 DEF Named
  <2>7. Named(mint', mock, calls', n)
    BY <2>3, <2>4, <2>6, NamedMoves
  <2> QED
    BY <1>7, <2>7
<1> QED
  BY <1>1, <1>5, <1>6, <1>7

-----------------------------------------------------------------------------
(* The free clients.                                                         *)

(* The mint that a free client finds fits, and has one deposit. *)
LEMMA FreeBegin ==
  ASSUME NEW bps, NEW floor, Covers(bps, floor)
  PROVE  LET m == FreeMint(bps, floor)
         IN Kept(m) /\ Fits(m, NewMock, <<>>) /\ Named(m, NewMock, <<>>, 1)
<1> DEFINE m0 == [NewMint(bps, floor, 0) EXCEPT !.self = TRUE, !.ln = "lnbits"]
           r1 == SelfQuote("t", 8)
           m1 == PostMintQuote(m0, r1).mint
           r2 == MintOver("self", "t", Outputs("t", <<4, 4>>, "k0"))
           m2 == PostMint(m1, r2).mint
           k == NewMock
           none == <<>>
<1>1. FreeMint(bps, floor) = m2
  BY DEF FreeMint
<1>2. But(NewMint(bps, floor, 0), m0, {"self", "ln"}) /\ m0.mints = <<>> /\ m0.melts = <<>> /\ m0.inflight = <<>>
  BY DEF But, NewMint
<1>3. k.invoices = <<>> /\ k.payments = <<>> /\ DOMAIN none = {} /\ DOMAIN <<>> = {}
  BY DEF NewMock
<1> HIDE DEF m0
<1>4. Kept(m0) /\ Fits(m0, k, none)
  BY <1>2, FirstFits
<1>5. Proper(m0, r1) /\ Proper(m1, r2)
  BY <1>2, <1>3, <1>4, FirstAsks
<1>6. r1.op = "mint-quote" /\ r1.quote = "t" /\ r2.op = "mint"
  BY DEF SelfQuote, MintOver
<1>7. Serve(m0, r1) = PostMintQuote(m0, r1) /\ Serve(m1, r2) = PostMint(m1, r2)
  BY <1>6 DEF Serve
<1>8. Fewer(none, none) /\ "t" \in Used(1)
  BY DEF Fewer, Used
<1> HIDE DEF k, none, r1, r2
<1>9. Named(m0, k, none, 1)
  <2>1. Wanted(m0, none) = {}
    BY <1>2, <1>3 DEF Wanted
  <2> QED
    BY <1>2, <1>3, <2>1 DEF Named
<1>10. Honest(m0, k, none, r1)
  <2>1. DepositNames(m0, k, none) = {} /\ Wanted(m0, none) = {}
    BY <1>2, <1>3 DEF DepositNames, Wanted
  <2> QED
    BY <1>3, <1>6, <2>1 DEF Honest
<1>11. ASSUME NEW m, Kept(m), Fits(m, k, none), Named(m, k, none, 1), NEW r, Proper(m, r), Honest(m, k, none, r),
              r.op \in {"mint-quote", "mint"}, r.op = "mint-quote" => r.quote = "t"
       PROVE  Kept(Serve(m, r).mint) /\ Fits(Serve(m, r).mint, k, none) /\ Named(Serve(m, r).mint, k, none, 1)
  <2> DEFINE n == Serve(m, r).mint
  <2>1. Agreeing(m, k) /\ Shaped(m) /\ r.op \in Asks
    BY <1>11 DEF Fits, Agreeing, Kept, Proper
  <2>2. Kept(n)
    BY <1>11, ServeKept
  <2>3. Moves(m, k, none, none, n)
    BY <1>11, <2>1, ServeMoves
  <2>4. /\ DOMAIN n.mints \subseteq DOMAIN m.mints \cup NewIf(r.op = "mint-quote", r.quote)
        /\ DOMAIN n.melts \subseteq DOMAIN m.melts \cup NewIf(r.op = "melt-quote", r.quote)
    BY <2>1, ServeNames
  <2> HIDE DEF n
  <2>5. Fits(n, k, none)
    BY <1>8, <1>11, <2>2, <2>3, QuietlyFits
  <2>6. /\ NewIf(r.op = "mint-quote", r.quote) \subseteq {"t"}
        /\ NewIf(r.op = "melt-quote", r.quote) = {}
    BY <1>11 DEF NewIf
  <2>7. DOMAIN n.mints \cup DOMAIN n.melts \subseteq Used(1)
    BY <1>8, <1>11, <2>4, <2>6 DEF Named
  <2>8. Named(n, k, none, 1)
    BY <1>8, <1>11, <2>3, <2>7, NamedMoves
  <2> QED
    BY <2>2, <2>5, <2>8 DEF n
<1>12. Kept(m1) /\ Fits(m1, k, none) /\ Named(m1, k, none, 1)
  BY <1>4, <1>5, <1>6, <1>7, <1>9, <1>10, <1>11
<1> HIDE DEF m1
<1>13. Honest(m1, k, none, r2)
  BY <1>6 DEF Honest
<1>14. Kept(m2) /\ Fits(m2, k, none) /\ Named(m2, k, none, 1)
  BY <1>5, <1>6, <1>7, <1>11, <1>12, <1>13
<1> QED
  BY <1>1, <1>14 DEF k, none

\* A free client names as it should, and nobody waits for an answer.
FreeInv ==
  /\ Free(program) /\ program.amount \in 0..8 /\ pc \in 1..9
  /\ Named(mint, mock, calls, pc)
  /\ \A i \in DOMAIN calls : calls[i].asker = Nobody

(* A free client begins so. *)
LEMMA FreeInit ==
  ASSUME \A r \in Reserves : Covers(r.bps, r.floor), Init, Free(program), program.amount \in 0..8
  PROVE  SolventInv /\ FreeInv
<1>1. program.name \notin {"demo", "melt-fee", "melt-pending", "lightning", "conformance"}
  BY DEF Free
<1>2. PICK r \in Reserves : mint = FreeMint(r.bps, r.floor)
  BY <1>1 DEF Init
<1>3. mock = NewMock /\ calls = <<>> /\ pc = 1
  BY DEF Init
<1>4. Covers(r.bps, r.floor)
  OBVIOUS
<1>5. Kept(mint) /\ Fits(mint, mock, calls) /\ Named(mint, mock, calls, 1)
  BY <1>2, <1>3, <1>4, FreeBegin
<1> QED
  BY <1>3, <1>5 DEF SolventInv, FreeInv

(* It has no script. *)
LEMMA NoScript ==
  ASSUME Free(program)
  PROVE  Script = <<>>
<1>1. Body(program) = <<>>
  BY DEF Body, Free
<1>2. Script = Body(program)
  BY DEF Script
<1> QED
  BY <1>1, <1>2

\* nobody waits for an answer
Unasked(cs) == \A i \in DOMAIN cs : cs[i].asker = Nobody

(* It asks as an honest client does, and names what it makes. *)
LEMMA FreeAsks ==
  ASSUME TypeOK, SolventInv, FreeInv, pc <= program.amount,
         NEW r \in Requests(program, mint, pc), Proper(mint, r),
         mint' = Serve(mint, r).mint, Called(Serve(mint, r).call, Nobody), mock' = mock
  PROVE  ClientAsks /\ Named(mint', mock', calls', pc + 1) /\ Unasked(calls')
<1>1. pc \in 1..8 /\ Named(mint, mock, calls, pc) /\ Free(program) /\ Unasked(calls)
  BY DEF FreeInv, Unasked
<1>2. Own(r, pc)
  BY <1>1, FreeRequests
<1>3. Kept(mint) /\ Fits(mint, mock, calls) /\ Shaped(mint) /\ MeltsAgree(mint, mock.payments)
  BY DEF SolventInv, Fits, Kept
<1>4. Honest(mint, mock, calls, r)
  BY <1>1, <1>2, <1>3, OwnHonest
<1> DEFINE m2 == Serve(mint, r).mint
           c == Serve(mint, r).call
<1>5. /\ Named(m2, mock, calls, pc + 1)
      /\ c.kind # "none" =>
           \A i, asker : i \notin DOMAIN calls => Named(m2, mock, Put(calls, i, NewCall(c, asker)), pc + 1)
  BY <1>1, <1>2, <1>3, <1>4, AskNamed
<1>6. made + 1 \notin DOMAIN calls
  <2>1. made \in Nat /\ DOMAIN calls \subseteq 1..made
    BY DEF TypeOK
  <2> QED
    BY <2>1
<1>7. CASE c.kind = "none"
  <2>1. calls' = calls
    BY <1>7 DEF Called
  <2>2. ClientAsks
    BY <1>4, <1>7, <2>1 DEF ClientAsks, Sent
  <2> QED
    BY <1>1, <1>5, <2>1, <2>2
<1>8. CASE c.kind # "none"
  <2> DEFINE i == made + 1
             y == NewCall(c, Nobody)
  <2>1. calls' = Put(calls, i, y)
    BY <1>8 DEF Called
  <2>2. Sent(c)
    BY <1>6, <1>8, <2>1 DEF Sent
  <2>3. ClientAsks
    BY <1>4, <2>2 DEF ClientAsks
  <2>4. Named(m2, mock, calls', pc + 1)
    BY <1>5, <1>6, <1>8, <2>1
  <2>5. y.asker = Nobody
    BY DEF NewCall
  <2> HIDE DEF i, y
  <2>6. Unasked(calls')
    BY <1>1, <2>1, <2>5 DEF Unasked, Put
  <2> HIDE DEF m2
  <2> QED
    BY <2>3, <2>4, <2>6 DEF m2
<1> QED
  BY <1>7, <1>8

(* The clock, and what the mock and payers do, name nothing. *)
LEMMA OutsideNamed ==
  ASSUME SolventInv, NEW n \in 1..8, Named(mint, mock, calls, n), calls' = calls,
         \/ Tick /\ mock' = mock
         \/ Outside
  PROVE  Named(mint', mock', calls', n + 1)
<1>1. Used(n) \subseteq Used(n + 1)
  BY NextName
<1>2. \A m, k, cs : Named(m, k, cs, n) => Named(m, k, cs, n + 1)
  BY <1>1 DEF Named
<1>3. CASE Tick /\ mock' = mock
  <2>1. DOMAIN mint = {"self", "ln", "bps", "floor", "keysets", "active", "mints", "melts", "inflight",
                       "change", "spent", "signed", "given", "issued", "redeemed", "attempts", "now",
                       "revoked", "clamped"}
    BY Fields DEF SolventInv, Kept
  <2>2. mint' = [mint EXCEPT !.now = @ + 1]
    BY <1>3 DEF Tick
  <2>3. mint'.mints = mint.mints /\ mint'.melts = mint.melts
    BY <2>1, <2>2
  <2>4. Wanted(mint', calls) = Wanted(mint, calls)
    BY <2>3 DEF Wanted
  <2>5. Named(mint', mock, calls, n)
    BY <2>3, <2>4 DEF Named
  <2> QED
    BY <1>2, <1>3, <2>5
<1>4. CASE Outside
  <2>1. DOMAIN mock = {"modes", "invoices", "payments", "payCount"}
    BY DEF SolventInv, Fits, MockFits, NewMock
  <2>2. mint' = mint /\ DOMAIN mock'.invoices = DOMAIN mock.invoices /\ mock'.payments = mock.payments
    <3>1. mint' = mint
      BY <1>4 DEF Outside
    <3>2. CASE \E set : mock' = SetModes(mock, set)
      <4>1. PICK set : mock' = SetModes(mock, set)
        BY <3>2
      <4> DEFINE modes == [f \in DOMAIN mock.modes |-> IF f \in DOMAIN set THEN set[f] ELSE mock.modes[f]]
      <4>2. mock' = [mock EXCEPT !.modes = modes]
        BY <4>1 DEF SetModes
      <4> HIDE DEF modes
      <4> QED
        BY <2>1, <3>1, <4>2
    <3>3. CASE \E h \in DOMAIN mock.invoices : mock' = MarkPaid(mock, h)
      BY <2>1, <3>1, <3>3 DEF MarkPaid
    <3> QED
      BY <1>4, <3>2, <3>3 DEF Outside
  <2>3. Named(mint, mock', calls, n)
    BY <2>2, NamedMock DEF Named
  <2> QED
    BY <1>2, <2>2, <2>3
<1> QED
  BY <1>3, <1>4

(* What Lightning does in the suites is what it does with any honest client;
   a free client does not wait for it. *)
LEMMA FreeLightning ==
  ASSUME TypeOK, FreeInv, NEW i \in DOMAIN calls, Arrive(i) \/ MockAnswers(i) \/ MintHears(i)
  PROVE  Lightning1 /\ pc' = pc /\ program' = program /\ Unasked(calls')
<1>1. /\ \A j \in DOMAIN calls : calls[j].asker = Nobody
      /\ \A j \in DOMAIN calls : DOMAIN calls[j] = {"call", "asker", "stage", "mode", "slow", "answer"}
  BY DEF FreeInv, TypeOK
<1>2. CASE Arrive(i)
  <2> DEFINE a == Arrived(mock, calls[i].call)
             mode == a.mode
             slow == a.slow
  <2>1. Arriving(i) /\ UNCHANGED <<mint, pc, program>>
    BY <1>2 DEF Arrive
  <2>2. calls' = [calls EXCEPT ![i].stage = "arrived", ![i].mode = mode, ![i].slow = slow]
    BY <2>1 DEF Arriving
  <2> HIDE DEF mode, slow
  <2>3. Unasked(calls')
    BY <1>1, <2>2 DEF Unasked
  <2> QED
    BY <2>1, <2>3 DEF Lightning1
<1>3. CASE MockAnswers(i)
  <2> DEFINE answer == MakeAnswer(mock, calls[i].call, calls[i].mode).answer
  <2>1. Answering(i) /\ UNCHANGED <<mint, pc, program>>
    BY <1>3 DEF MockAnswers
  <2>2. calls' = [calls EXCEPT ![i].stage = "answered", ![i].answer = answer]
    BY <2>1 DEF Answering
  <2> HIDE DEF answer
  <2>3. Unasked(calls')
    BY <1>1, <2>2 DEF Unasked
  <2> QED
    BY <2>1, <2>3 DEF Lightning1
<1>4. CASE MintHears(i)
  <2>1. Hearing(i) /\ UNCHANGED <<mock, program>>
    BY <1>4 DEF MintHears
  <2>2. calls[i].asker # "suite"
    BY <1>1 DEF Nobody
  <2>3. pc' = pc
    BY <1>4, <2>2 DEF MintHears
  <2>4. calls' = Del(calls, i)
    BY <2>1 DEF Hearing
  <2>5. Unasked(calls')
    BY <1>1, <2>4 DEF Unasked, Del
  <2> QED
    BY <2>1, <2>3, <2>5 DEF Lightning1
<1> QED
  BY <1>2, <1>3, <1>4

(* Each step of a free client's run is one of an honest client's, or of
   Lightning. *)
LEMMA FreeKeeps ==
  ASSUME TypeOK, SolventInv, FreeInv, [Next]_vars
  PROVE  [BothNext]_bothVars /\ FreeInv'
<1>1. Free(program) /\ program.amount \in 0..8 /\ pc \in 1..9 /\ Named(mint, mock, calls, pc) /\ Unasked(calls)
  BY DEF FreeInv, Unasked
<1>2. CASE SuiteStep
  <2>1. Script = <<>>
    BY <1>1, NoScript
  <2>2. pc <= Len(Script)
    BY <1>2 DEF SuiteStep
  <2> QED
    BY <1>1, <2>1, <2>2
<1>3. CASE FreeStep
  <2>1. pc <= program.amount /\ pc' = pc + 1 /\ program' = program
    BY <1>3 DEF FreeStep
  <2>2. pc \in 1..8 /\ pc' \in 1..9
    BY <1>1, <2>1
  <2>3. BothNext /\ Named(mint', mock', calls', pc + 1) /\ Unasked(calls')
    <3>1. CASE \E r \in Requests(program, mint, pc) :
                 Proper(mint, r) /\ mint' = Serve(mint, r).mint /\ Called(Serve(mint, r).call, Nobody)
                 /\ mock' = mock
      <4>1. PICK r \in Requests(program, mint, pc) :
               Proper(mint, r) /\ mint' = Serve(mint, r).mint /\ Called(Serve(mint, r).call, Nobody)
               /\ mock' = mock
        BY <3>1
      <4>2. ClientAsks /\ Named(mint', mock', calls', pc + 1) /\ Unasked(calls')
        BY <2>1, <4>1, FreeAsks
      <4> QED
        BY <4>2 DEF BothNext
    <3>2. CASE mint' = [mint EXCEPT !.now = @ + 1] /\ UNCHANGED <<mock, calls>>
      <4>1. Tick
        BY <3>2 DEF Tick
      <4>2. Named(mint', mock', calls', pc + 1)
        BY <1>1, <2>2, <3>2, <4>1, OutsideNamed
      <4> QED
        BY <1>1, <3>2, <4>1, <4>2 DEF BothNext, Unasked
    <3>3. CASE Outside
      <4>1. calls' = calls
        BY <3>3 DEF Outside
      <4>2. Named(mint', mock', calls', pc + 1)
        BY <1>1, <2>2, <3>3, <4>1, OutsideNamed
      <4> QED
        BY <1>1, <3>3, <4>1, <4>2 DEF BothNext, Unasked
    <3> QED
      BY <1>3, <3>1, <3>2, <3>3 DEF FreeStep, Outside
  <2> QED
    BY <1>1, <2>1, <2>2, <2>3 DEF FreeInv, Unasked
<1>4. CASE \E i \in DOMAIN calls : Arrive(i) \/ MockAnswers(i) \/ MintHears(i)
  <2>1. Lightning1 /\ pc' = pc /\ program' = program /\ Unasked(calls')
    BY <1>4, FreeLightning
  <2>2. Named(mint', mock', calls', pc)
    BY <1>1, <2>1, LightningNamed
  <2> QED
    BY <1>1, <2>1, <2>2 DEF BothNext, FreeInv, Unasked
<1>5. CASE UNCHANGED vars
  BY <1>1, <1>5 DEF vars, bothVars, FreeInv, Unasked
<1> QED
  BY <1>2, <1>3, <1>4, <1>5 DEF Next, Done

(* In the suites' own runs, if every reserve covers the routing fee: while a
   free client asks for anything at all of the mint, at any time and with
   answers in any order (/mock/pay, handle-ln-response), the mint never owes
   more than it has: Solvent. *)
THEOREM FreeSolvent ==
  ASSUME \A r \in Reserves : Covers(r.bps, r.floor)
  PROVE  Spec => [](Free(program) /\ program.amount \in 0..8 => Solvent)
<1> DEFINE J == Free(program) /\ program.amount \in 0..8 => SolventInv /\ FreeInv
<1>1. Init => J
  BY FreeInit
<1>2. J /\ TypeOK /\ [Next]_vars => J'
  <2> SUFFICES ASSUME J, TypeOK, [Next]_vars, Free(program)', program.amount' \in 0..8
               PROVE  SolventInv' /\ FreeInv'
    OBVIOUS
  <2>1. program' = program
    BY DEF Next, SuiteStep, FreeStep, Arrive, MockAnswers, MintHears, Done, vars
  <2>2. SolventInv /\ FreeInv
    BY <2>1
  <2>3. [BothNext]_bothVars /\ FreeInv'
    BY <2>2, FreeKeeps
  <2> QED
    BY <2>2, <2>3, BothStep
<1>3. J => (Free(program) /\ program.amount \in 0..8 => Solvent)
  BY InvSolvent
<1> QED
  BY <1>1, <1>2, <1>3, SuitesTypeOK, PTL DEF Spec
=============================================================================
