----------------------------- MODULE LedgerProofs -----------------------------
(***************************************************************************)
(* The mint's books balance: whatever wallets, the operator and Lightning    *)
(* ask and answer, in whatever order.                                        *)
(*                                                                         *)
(* The inductive invariant is Kept (OpenMint).  Every message signed is      *)
(* signed once, so what was signed can be summed over messages; each handler *)
(* adds to that sum what it adds to the totals.                              *)
(***************************************************************************)
EXTENDS Suites, SumProofs

-----------------------------------------------------------------------------
(* Lists. *)

(* A list is a sequence of what is in it. *)
LEMMA ListSeq ==
  ASSUME NEW s, IsList(s)
  PROVE  /\ s \in Seq({s[i] : i \in DOMAIN s})
         /\ Len(s) \in Nat /\ DOMAIN s = 1..Len(s)
         /\ IsFiniteSet(DOMAIN s)
<1>1. Len(s) \in Nat /\ s = [i \in 1..Len(s) |-> s[i]]
  BY DEF IsList
<1>2. DOMAIN s = 1..Len(s)
  BY <1>1
<1>3. IsFiniteSet(1..Len(s))
  BY <1>1, FS_Interval
<1> QED
  BY <1>1, <1>2, <1>3

(* A list built by index. *)
LEMMA IndexedList ==
  ASSUME NEW s, NEW n \in Nat, DOMAIN s = 1..n, s = [i \in 1..n |-> s[i]]
  PROVE  IsList(s) /\ Len(s) = n
<1>1. s \in Seq({s[i] : i \in 1..n})
  OBVIOUS
<1>2. Len(s) = n
  BY <1>1
<1> QED
  BY <1>2 DEF IsList

(* What a list of outputs or proofs adds up to. *)
LEMMA ListTotal ==
  ASSUME NEW s, IsList(s), \A i \in DOMAIN s : s[i].amount \in Nat
  PROVE  /\ AmountTotal(s) \in Nat
         /\ AmountTotal(s) = SumFunctionOnSet([i \in DOMAIN s |-> s[i].amount], DOMAIN s)
<1> DEFINE f == [i \in DOMAIN s |-> s[i].amount]
<1>1. AmountTotal(s) = SumFunctionOnSet(f, DOMAIN f)
  BY DEF AmountTotal, Total, SumFunction
<1>2. DOMAIN f = DOMAIN s /\ \A i \in DOMAIN s : f[i] \in Nat
  OBVIOUS
<1>3. IsFiniteSet(DOMAIN s)
  BY ListSeq
<1>4. SumFunctionOnSet(f, DOMAIN s) \in Nat
  BY <1>2, <1>3, SumType
<1> QED
  BY <1>1, <1>2, <1>4

(* The messages of a list are finitely many, and if none is twice in it, what
   they are worth is what the list adds up to. *)
LEMMA TotalOfMessages ==
  ASSUME NEW s, IsList(s), NEW g,
         \A i \in DOMAIN s : s[i].amount \in Nat /\ g[s[i].b] = s[i].amount,
         \A i, j \in DOMAIN s : s[i].b = s[j].b => i = j
  PROVE  /\ IsFiniteSet(Secrets(s))
         /\ SumFunctionOnSet(g, Secrets(s)) = AmountTotal(s)
<1> DEFINE f == [i \in DOMAIN s |-> s[i].amount]
           h == [i \in DOMAIN s |-> s[i].b]
<1>1. IsFiniteSet(DOMAIN s)
  BY ListSeq
<1>2. h \in [DOMAIN s -> Secrets(s)] /\ \A m \in Secrets(s) : \E i \in DOMAIN s : h[i] = m
  BY DEF Secrets
<1>3. IsFiniteSet(Secrets(s))
  <2>1. h \in Surjection(DOMAIN s, Secrets(s))
    BY <1>2 DEF Surjection
  <2> QED
    BY <1>1, <2>1, FS_Surjection
<1>4. \A i \in DOMAIN s : f[i] \in Nat /\ f[i] = g[h[i]]
  OBVIOUS
<1>5. \A m \in Secrets(s) : g[m] \in Nat
  BY <1>2, <1>4
<1>6. \A i, j \in DOMAIN s : h[i] = h[j] => i = j
  OBVIOUS
<1>7. SumFunctionOnSet(f, DOMAIN s) = SumFunctionOnSet(g, Secrets(s))
  <2> HIDE DEF f, h
  <2> QED
    BY <1>1, <1>2, <1>3, <1>4, <1>5, <1>6, SumMatch
<1> QED
  BY <1>3, <1>7, ListTotal

(* Some of the indices of a list: one is the least. *)
LEMMA LeastIndex ==
  ASSUME NEW n \in Nat, NEW S, S \subseteq 1..n, S # {}
  PROVE  \E i \in S : \A j \in S : i <= j
<1> DEFINE bad == {1..i : i \in S}
           all == 1..n
<1>1. bad \in SUBSET SUBSET all
  <2>1. \A i \in S : 1..i \subseteq all
    OBVIOUS
  <2>2. \A U \in bad : U \in SUBSET all
    BY <2>1
  <2> QED
    BY <2>2
<1>2. IsFiniteSet(all)
  BY FS_Interval
<1>3. PICK T \in bad : IsFiniteSet(T) /\ \A U \in bad : U \subseteq T => U = T
  <2>1. PICK i \in S : TRUE
    OBVIOUS
  <2>2. 1..i \in bad
    OBVIOUS
  <2>3. bad # {}
    BY <2>2
  <2> HIDE DEF bad, all
  <2> QED
    BY <1>1, <1>2, <2>3, SmallestSet
<1>4. PICK i \in S : T = 1..i
  OBVIOUS
<1>5. ASSUME NEW j \in S, j < i
      PROVE  FALSE
  <2>1. 1..j \in bad /\ 1..j \subseteq 1..i /\ i \in 1..i /\ i \notin 1..j
    BY <1>5
  <2> QED
    BY <2>1, <1>3, <1>4
<1> QED
  BY <1>5

(* The first of a list of checks that fails answers; so if it is Pass,
   none fails. *)
LEMMA FirstNone ==
  ASSUME NEW ds, NEW n \in Nat, DOMAIN ds = 1..n, First(ds) = Pass
  PROVE  \A i \in 1..n : ds[i] = Pass
<1> DEFINE some == {i \in DOMAIN ds : ds[i] # Pass}
<1>1. SUFFICES ASSUME some # {}
               PROVE  FALSE
  OBVIOUS
<1>2. some \subseteq 1..n
  OBVIOUS
<1>3. \E i \in some : \A j \in some : i <= j
  <2> HIDE DEF some
  <2> QED
    BY <1>1, <1>2, LeastIndex
<1>4. Min(some) \in some
  BY <1>3 DEF Min
<1>5. First(ds) = ds[Min(some)]
  BY <1>1 DEF First
<1> QED
  BY <1>4, <1>5

(* Of two checks. *)
LEMMA NoneTwo ==
  ASSUME NEW a, NEW b,
         First(<<a, b>>) = Pass
  PROVE  a = Pass /\ b = Pass
<1> DEFINE ds == <<a, b>>
<1>1. DOMAIN ds = 1..2
  OBVIOUS
<1>2. ds[1] = a /\ ds[2] = b
  OBVIOUS
<1> HIDE DEF ds
<1>3. \A i \in 1..2 : ds[i] = Pass
  BY <1>1, FirstNone DEF ds
<1> QED
  BY <1>2, <1>3

(* Of four checks. *)
LEMMA NoneFour ==
  ASSUME NEW a, NEW b, NEW c, NEW d,
         First(<<a, b, c, d>>) = Pass
  PROVE  a = Pass /\ b = Pass /\ c = Pass /\ d = Pass
<1> DEFINE ds == <<a, b, c, d>>
<1>1. DOMAIN ds = 1..4
  OBVIOUS
<1>2. ds[1] = a /\ ds[2] = b /\ ds[3] = c /\ ds[4] = d
  OBVIOUS
<1> HIDE DEF ds
<1>3. \A i \in 1..4 : ds[i] = Pass
  BY <1>1, FirstNone DEF ds
<1> QED
  BY <1>2, <1>3

(* Of five checks. *)
LEMMA NoneFive ==
  ASSUME NEW a, NEW b, NEW c, NEW d, NEW e,
         First(<<a, b, c, d, e>>) = Pass
  PROVE  a = Pass /\ b = Pass /\ c = Pass /\ d = Pass /\ e = Pass
<1> DEFINE ds == <<a, b, c, d, e>>
<1>1. DOMAIN ds = 1..5
  OBVIOUS
<1>2. ds[1] = a /\ ds[2] = b /\ ds[3] = c /\ ds[4] = d /\ ds[5] = e
  OBVIOUS
<1> HIDE DEF ds
<1>3. \A i \in 1..5 : ds[i] = Pass
  BY <1>1, FirstNone DEF ds
<1> QED
  BY <1>2, <1>3

(* Of six checks. *)
LEMMA NoneSix ==
  ASSUME NEW a, NEW b, NEW c, NEW d, NEW e, NEW f,
         First(<<a, b, c, d, e, f>>) = Pass
  PROVE  a = Pass /\ b = Pass /\ c = Pass /\ d = Pass /\ e = Pass /\ f = Pass
<1> DEFINE ds == <<a, b, c, d, e, f>>
<1>1. DOMAIN ds = 1..6
  OBVIOUS
<1>2. ds[1] = a /\ ds[2] = b /\ ds[3] = c /\ ds[4] = d /\ ds[5] = e /\ ds[6] = f
  OBVIOUS
<1> HIDE DEF ds
<1>3. \A i \in 1..6 : ds[i] = Pass
  BY <1>1, FirstNone DEF ds
<1> QED
  BY <1>2, <1>3

(* Of nine checks. *)
LEMMA NoneNine ==
  ASSUME NEW a, NEW b, NEW c, NEW d, NEW e, NEW f, NEW g, NEW h, NEW i,
         First(<<a, b, c, d, e, f, g, h, i>>) = Pass
  PROVE  a = Pass /\ b = Pass /\ c = Pass /\ d = Pass /\ e = Pass /\ f = Pass /\ g = Pass /\ h = Pass /\ i = Pass
<1> DEFINE ds == <<a, b, c, d, e, f, g, h, i>>
<1>1. DOMAIN ds = 1..9
  OBVIOUS
<1>2. /\ ds[1] = a /\ ds[2] = b /\ ds[3] = c /\ ds[4] = d /\ ds[5] = e
      /\ ds[6] = f /\ ds[7] = g /\ ds[8] = h /\ ds[9] = i
  OBVIOUS
<1> HIDE DEF ds
<1>3. \A k \in 1..9 : ds[k] = Pass
  BY <1>1, FirstNone DEF ds
<1> QED
  BY <1>2, <1>3

Denominations == {2^k : k \in 0..TopBit}

(* Outputs that pass: none was signed before and no two have one message;
   and unless they are blanks, each is of a keyset that signs, and worth a
   denomination. *)
LEMMA OutputsPass ==
  ASSUME NEW m, NEW outs, AreOutputs(outs), NEW blank \in BOOLEAN, OutputError(m, outs, blank) = Pass
  PROVE  /\ \A i \in DOMAIN outs : outs[i].b \notin DOMAIN m.signed
         /\ \A i, j \in DOMAIN outs : outs[i].b = outs[j].b => i = j
         /\ ~blank => \A i \in DOMAIN outs :
              /\ outs[i].id \in DOMAIN m.keysets /\ m.keysets[outs[i].id].active
              /\ outs[i].amount \in Denominations
<1> DEFINE twice(i) == \E j \in 1..(i - 1) : outs[j].x = outs[i].x
           signed(i) == outs[i].b \in DOMAIN m.signed
           unknown(i) == ~blank /\ outs[i].id \notin DOMAIN m.keysets
           idle(i) == ~blank /\ outs[i].id \in DOMAIN m.keysets /\ ~m.keysets[outs[i].id].active
           odd(i) == ~blank /\ outs[i].amount \notin Denominations
           c2(i) == When(twice(i), "duplicate-output")
           c3(i) == When(signed(i), "output-already-signed")
           c4(i) == When(unknown(i), "unknown-keyset")
           c5(i) == When(idle(i), "inactive-keyset")
           c6(i) == When(odd(i), "unknown-denomination")
           one(i) == <<outs[i].bad, c2(i), c3(i), c4(i), c5(i), c6(i)>>
           all == [i \in DOMAIN outs |-> First(one(i))]
<1>1. DOMAIN outs = 1..Len(outs) /\ Len(outs) \in Nat
  BY ListSeq DEF AreOutputs
<1>2. OutputError(m, outs, blank) = First(all)
  BY DEF OutputError, Denominations
<1>3. DOMAIN all = 1..Len(outs) /\ First(all) = Pass
  BY <1>1, <1>2
<1>4. \A i \in 1..Len(outs) : all[i] = Pass
  <2> HIDE DEF all
  <2> QED
    BY <1>1, <1>3, FirstNone
<1>5. ASSUME NEW i \in DOMAIN outs
      PROVE  ~twice(i) /\ ~signed(i) /\ ~unknown(i) /\ ~idle(i) /\ ~odd(i)
  <2> HIDE DEF twice, signed, unknown, idle, odd
  <2>1. First(one(i)) = Pass
    BY <1>1, <1>4
  <2>2. c2(i) = Pass /\ c3(i) = Pass /\ c4(i) = Pass /\ c5(i) = Pass /\ c6(i) = Pass
    <3> HIDE DEF c2, c3, c4, c5, c6
    <3> QED
      BY <2>1, NoneSix
  <2> QED
    BY <2>2 DEF When, Pass
<1>6. \A i, j \in DOMAIN outs : outs[i].b = outs[j].b => i = j
  <2> SUFFICES ASSUME NEW i \in DOMAIN outs, NEW j \in DOMAIN outs, outs[i].b = outs[j].b, i < j
               PROVE  FALSE
    <3> HIDE DEF one, all
    <3> QED
      BY <1>1
  <2>1. outs[i].x = outs[j].x
    BY DEF AreOutputs, Colliding
  <2>2. i \in 1..(j - 1)
    <3> HIDE DEF one, all
    <3> QED
      BY <1>1
  <2> QED
    BY <1>5, <2>1, <2>2
<1> QED
  BY <1>5, <1>6

(* Proofs that pass: each is unspent, of a keyset there is, and as it was
   signed, and none is named twice. *)
LEMMA ProofsPass ==
  ASSUME NEW m, NEW proofs, AreProofs(proofs), VerifyProofs(m, proofs) = Pass
  PROVE  /\ \A i \in DOMAIN proofs :
              /\ proofs[i].b \notin m.spent /\ proofs[i].id \in DOMAIN m.keysets
              /\ proofs[i].amount \in Denominations
              /\ [amount |-> proofs[i].amount, id |-> proofs[i].id, b |-> proofs[i].b] \in m.given
              /\ Condition(proofs[i].lock, proofs[i].sigs, m.now) = Pass
         /\ \A i, j \in DOMAIN proofs : proofs[i].b = proofs[j].b => i = j
<1> DEFINE spent(i) == proofs[i].b \in m.spent \/ \E j \in 1..(i - 1) : proofs[j].b = proofs[i].b
           unknown(i) == proofs[i].id \notin DOMAIN m.keysets
           odd(i) == proofs[i].amount \notin Denominations
           forged(i) == [amount |-> proofs[i].amount, id |-> proofs[i].id, b |-> proofs[i].b] \notin m.given
           opens(i) == Condition(proofs[i].lock, proofs[i].sigs, m.now)
           c1(i) == When(proofs[i].long, "secret-too-long")
           c2(i) == When(spent(i), "token-already-spent")
           c3(i) == When(unknown(i), "unknown-keyset")
           c4(i) == When(odd(i), "unknown-denomination")
           c5(i) == When(forged(i), "invalid-token-signature")
           cheap(i) == <<c1(i), c2(i), c3(i), c4(i)>>
           dear(i) == <<c5(i), opens(i)>>
           first == [i \in DOMAIN proofs |-> First(cheap(i))]
           second == [i \in DOMAIN proofs |-> First(dear(i))]
<1>1. DOMAIN proofs = 1..Len(proofs) /\ Len(proofs) \in Nat
  BY ListSeq DEF AreProofs
<1>2. VerifyProofs(m, proofs) = First(<<First(first), First(second)>>)
  BY DEF VerifyProofs, Denominations
<1>3. First(first) = Pass /\ First(second) = Pass
  BY <1>2, NoneTwo
<1>4. DOMAIN first = 1..Len(proofs) /\ DOMAIN second = 1..Len(proofs)
  BY <1>1
<1>5. \A i \in 1..Len(proofs) : first[i] = Pass /\ second[i] = Pass
  <2> HIDE DEF first, second
  <2> QED
    BY <1>1, <1>3, <1>4, FirstNone
<1>6. ASSUME NEW i \in DOMAIN proofs
      PROVE  ~spent(i) /\ ~unknown(i) /\ ~odd(i) /\ ~forged(i) /\ opens(i) = Pass
  <2> HIDE DEF spent, unknown, odd, forged, opens
  <2>1. First(cheap(i)) = Pass /\ First(dear(i)) = Pass
    BY <1>1, <1>5
  <2>2. c2(i) = Pass /\ c3(i) = Pass /\ c4(i) = Pass /\ c5(i) = Pass /\ opens(i) = Pass
    <3> HIDE DEF c1, c2, c3, c4, c5
    <3> QED
      BY <2>1, NoneFour, NoneTwo
  <2> QED
    BY <2>2 DEF When, Pass
<1> HIDE DEF cheap, dear, first, second
<1>7. \A i, j \in DOMAIN proofs : proofs[i].b = proofs[j].b => i = j
  <2> SUFFICES ASSUME NEW i \in DOMAIN proofs, NEW j \in DOMAIN proofs,
                      proofs[i].b = proofs[j].b, i < j
               PROVE  FALSE
    BY <1>1
  <2>1. i \in 1..(j - 1)
    BY <1>1
  <2> QED
    BY <1>6, <2>1
<1> QED
  BY <1>6, <1>7

-----------------------------------------------------------------------------
(* Denominations. *)

(* Powers of two are naturals, and grow. *)
LEMMA Powers ==
  /\ \A k \in Nat : 2^k \in Nat
  /\ \A j, k \in Nat : j < k => 2^j < 2^k
<1>1. ASSUME NEW k \in Nat
      PROVE  /\ IsFiniteSet(SUBSET (1..k)) /\ Cardinality(SUBSET (1..k)) = 2^k
             /\ 2^k \in Nat
  <2>1. IsFiniteSet(1..k) /\ Cardinality(1..k) = k
    BY FS_Interval
  <2>2. IsFiniteSet(SUBSET (1..k)) /\ Cardinality(SUBSET (1..k)) = 2^k
    BY <2>1, FS_SUBSET
  <2> QED
    BY <2>2, FS_CardinalityType
<1>2. ASSUME NEW j \in Nat, NEW k \in Nat, j < k
      PROVE  2^j < 2^k
  <2> DEFINE few == SUBSET (1..j)
             many == SUBSET (1..k)
  <2>1. few \subseteq many
    BY <1>2
  <2>2. {k} \in many /\ {k} \notin few
    BY <1>2
  <2>3. IsFiniteSet(many) /\ Cardinality(many) = 2^k /\ Cardinality(few) = 2^j
    BY <1>1
  <2> HIDE DEF few, many
  <2>4. Cardinality(few) <= Cardinality(many) /\ (Cardinality(few) = Cardinality(many) => few = many)
    BY <2>1, <2>3, FS_Subset
  <2>5. 2^j \in Nat /\ 2^k \in Nat
    BY <1>1
  <2> QED
    BY <2>2, <2>3, <2>4, <2>5
<1> QED
  BY <1>1, <1>2

(* A power of two up to the largest denomination is a denomination. *)
LEMMA SmallPower ==
  ASSUME NEW k \in Nat, 2^k <= 2^TopBit
  PROVE  2^k \in Denominations
<1>1. TopBit \in Nat
  BY LedgerAssumption
<1>2. ~(TopBit < k)
  BY <1>1, Powers
<1> QED
  BY <1>1, <1>2 DEF Denominations

LEMMA DenominationNat == \A d \in Denominations : d \in Nat
BY Powers, LedgerAssumption DEF Denominations

\* powers of two below 2^k, the largest first
Falling(s, k) ==
  /\ s \in Seq(Nat)
  /\ \A i \in DOMAIN s : \E j \in 0..(k - 1) : s[i] = 2^j
  /\ \A i, j \in DOMAIN s : i < j => s[j] < s[i]

(* One more power, in front. *)
LEMMA FallingMore ==
  ASSUME NEW k \in Nat, NEW s, Falling(s, k)
  PROVE  Falling(<<2^k>> \o s, k + 1) /\ Falling(s, k + 1)
<1> DEFINE t == <<2^k>> \o s
<1>1. 2^k \in Nat /\ \A j \in 0..(k - 1) : 2^j < 2^k
  BY Powers
<1>2. s \in Seq(Nat) /\ Len(s) \in Nat /\ DOMAIN s = 1..Len(s) /\ \A i \in DOMAIN s : s[i] \in Nat
  BY DEF Falling
<1>3. /\ t \in Seq(Nat) /\ DOMAIN t = 1..(Len(s) + 1)
      /\ t[1] = 2^k /\ \A i \in 2..(Len(s) + 1) : t[i] = s[i - 1]
  BY <1>1, <1>2
<1> HIDE DEF t
<1>4. \A i \in DOMAIN t : \E j \in 0..k : t[i] = 2^j
  <2> SUFFICES ASSUME NEW i \in DOMAIN t
               PROVE  \E j \in 0..k : t[i] = 2^j
    OBVIOUS
  <2>1. CASE i = 1
    BY <1>3, <2>1
  <2>2. CASE i # 1
    <3>1. i - 1 \in DOMAIN s /\ t[i] = s[i - 1]
      BY <1>2, <1>3, <2>2
    <3> QED
      BY <3>1 DEF Falling
  <2> QED
    BY <2>1, <2>2
<1>5. ASSUME NEW i \in DOMAIN t, NEW j \in DOMAIN t, i < j
      PROVE  t[j] < t[i]
  <2>1. j - 1 \in DOMAIN s /\ t[j] = s[j - 1]
    BY <1>2, <1>3, <1>5
  <2>2. CASE i = 1
    <3>1. PICK l \in 0..(k - 1) : s[j - 1] = 2^l
      BY <2>1 DEF Falling
    <3> QED
      BY <1>1, <1>3, <2>1, <2>2, <3>1
  <2>3. CASE i # 1
    <3>1. i - 1 \in DOMAIN s /\ t[i] = s[i - 1]
      BY <1>2, <1>3, <2>3
    <3>2. i - 1 < j - 1
      BY <1>2, <1>3, <1>5
    <3> QED
      BY <2>1, <3>1, <3>2 DEF Falling
  <2> QED
    BY <2>2, <2>3
<1>6. Falling(t, k + 1)
  <2>1. (k + 1) - 1 = k
    OBVIOUS
  <2> QED
    BY <1>3, <1>4, <1>5, <2>1 DEF Falling
<1>7. Falling(s, k + 1)
  <2>1. \A j \in 0..(k - 1) : j \in 0..((k + 1) - 1)
    OBVIOUS
  <2> QED
    BY <2>1 DEF Falling
<1> QED
  BY <1>6, <1>7 DEF t

(* A property that holds of 0, and of the next number if of one, holds of all
   up to n: the numbers of which it does not hold are none. *)
LEMMA NoLeast ==
  ASSUME NEW n \in Nat, NEW S, S \subseteq 0..n, 0 \notin S,
         \A k \in 0..n : k + 1 \in S => k \in S
  PROVE  S = {}
<1> SUFFICES ASSUME S # {}
             PROVE  FALSE
  OBVIOUS
<1>1. S \subseteq 1..n
  OBVIOUS
<1>2. PICK i \in S : \A j \in S : i <= j
  BY <1>1, LeastIndex
<1>3. i - 1 \in 0..n /\ (i - 1) + 1 = i
  BY <1>1
<1> QED
  BY <1>2, <1>3

\* the bits of a number, found one at a time
FoundBits(it, n, count) ==
  /\ Bits(n, count) = it[count]
  /\ it[0] = <<>>
  /\ \A k \in 0..(count - 1) :
       it[k + 1] = IF (n \div 2^k) % 2 = 1 THEN <<2^k>> \o it[k] ELSE it[k]

(* They can be found so. *)
LEMMA BitByBit ==
  ASSUME NEW n, NEW count \in Nat
  PROVE  \E it : FoundBits(it, n, count)
<1> DEFINE next(k, s) == IF (n \div 2^(k - 1)) % 2 = 1 THEN <<2^(k - 1)>> \o s ELSE s
           Def(f, c) == [k \in 0..c |-> IF k = 0 THEN <<>> ELSE next(k, f[k - 1])]
           missing == {c \in 0..count : ~\E f : f = Def(f, c)}
           it == CHOOSE f : f = Def(f, count)
<1>1. missing = {}
  <2>1. 0 \notin missing
    <3> DEFINE f == [k \in 0..0 |-> <<>>]
    <3>1. f = Def(f, 0)
      OBVIOUS
    <3> QED
      BY <3>1
  <2>2. ASSUME NEW c \in 0..count, c + 1 \in missing
        PROVE  c \in missing
    <3> SUFFICES ASSUME NEW f, f = Def(f, c)
                 PROVE  FALSE
      OBVIOUS
    <3> DEFINE g == [k \in 0..(c + 1) |-> IF k = c + 1 THEN next(k, f[c]) ELSE f[k]]
    <3>1. \A k \in 0..c : f[k] = IF k = 0 THEN <<>> ELSE next(k, f[k - 1])
      <4> HIDE DEF next
      <4> QED
        OBVIOUS
    <3>2. \A k \in 0..(c + 1) : g[k] = IF k = 0 THEN <<>> ELSE next(k, g[k - 1])
      <4> HIDE DEF next
      <4> QED
        BY <3>1
    <3>3. g = Def(g, c + 1)
      <4> HIDE DEF next
      <4> QED
        BY <3>2
    <3> QED
      BY <2>2, <3>3
  <2> QED
    <3> HIDE DEF missing
    <3>1. missing \subseteq 0..count
      BY DEF missing
    <3> QED
      BY <2>1, <2>2, <3>1, NoLeast
<1>2. it = Def(it, count)
  <2>1. \E f : f = Def(f, count)
    <3> HIDE DEF Def
    <3>1. count \notin missing
      BY <1>1
    <3> QED
      BY <3>1
  <2> HIDE DEF Def
  <2> QED
    BY <2>1
<1>3. Bits(n, count) = it[count]
  BY DEF Bits
<1> HIDE DEF it
<1>4. it[0] = <<>>
  <2> HIDE DEF next
  <2> QED
    BY <1>2
<1>5. ASSUME NEW k \in 0..(count - 1)
      PROVE  it[k + 1] = IF (n \div 2^k) % 2 = 1 THEN <<2^k>> \o it[k] ELSE it[k]
  <2>1. (k + 1) - 1 = k /\ k + 1 \in 0..count /\ k + 1 # 0
    OBVIOUS
  <2>2. it[k + 1] = next(k + 1, it[(k + 1) - 1])
    <3> HIDE DEF next
    <3> QED
      BY <1>2, <2>1
  <2> QED
    BY <2>1, <2>2
<1> QED
  BY <1>3, <1>4, <1>5 DEF FoundBits

(* The bits of a number are falling powers of two. *)
LEMMA BitsFall ==
  ASSUME NEW n, NEW count \in Nat
  PROVE  Falling(Bits(n, count), count)
<1>0. PICK it : FoundBits(it, n, count)
  BY BitByBit
<1>1. /\ Bits(n, count) = it[count]
      /\ it[0] = <<>>
      /\ \A k \in 0..(count - 1) :
           it[k + 1] = IF (n \div 2^k) % 2 = 1 THEN <<2^k>> \o it[k] ELSE it[k]
  BY <1>0 DEF FoundBits
<1> DEFINE wrong == {k \in 0..count : ~Falling(it[k], k)}
<1>2. wrong = {}
  <2>1. 0 \notin wrong
    <3>1. Falling(<<>>, 0)
      BY DEF Falling
    <3> QED
      BY <1>1, <3>1
  <2>2. ASSUME NEW k \in 0..count, k + 1 \in wrong
        PROVE  k \in wrong
    <3> SUFFICES ASSUME Falling(it[k], k)
                 PROVE  FALSE
      OBVIOUS
    <3>1. k \in 0..(count - 1)
      BY <2>2
    <3>2. it[k + 1] = <<2^k>> \o it[k] \/ it[k + 1] = it[k]
      BY <1>1, <3>1
    <3>3. Falling(<<2^k>> \o it[k], k + 1) /\ Falling(it[k], k + 1)
      BY FallingMore
    <3>4. Falling(it[k + 1], k + 1)
      BY <3>2, <3>3
    <3> QED
      BY <2>2, <3>4
  <2> QED
    <3> HIDE DEF wrong
    <3>1. wrong \subseteq 0..count
      BY DEF wrong
    <3> QED
      BY <2>1, <2>2, <3>1, NoLeast
<1> QED
  BY <1>1, <1>2

-----------------------------------------------------------------------------
(* Signatures. *)

\* signatures of messages that have none yet
Unsigned(m, sigs) ==
  /\ IsList(sigs)
  /\ \A i \in DOMAIN sigs :
       /\ sigs[i] = [amount |-> sigs[i].amount, id |-> sigs[i].id, b |-> sigs[i].b]
       /\ sigs[i].amount \in Denominations
       /\ sigs[i].id \in DOMAIN m.keysets /\ sigs[i].b \notin DOMAIN m.signed
  /\ \A i, j \in DOMAIN sigs : sigs[i].b = sigs[j].b => i = j

(* Change is signed on blanks, and only on them; where the parts of the change
   stop being too large, all that follow are denominations. *)
LEMMA ChangeUnsigned ==
  ASSUME NEW m, OneSigns(m), NEW blanks, AreOutputs(blanks), NEW over,
         \A i, j \in DOMAIN blanks : blanks[i].b = blanks[j].b => i = j,
         Secrets(blanks) \cap DOMAIN m.signed = {}
  PROVE  /\ Unsigned(m, SignChange(m, blanks, over))
         /\ Secrets(SignChange(m, blanks, over)) \subseteq Secrets(blanks)
<1> DEFINE parts == SplitAmount(over)
           n == Min({Len(parts), Len(blanks)})
           large == {i \in 1..n : parts[i] > 2^TopBit}
           big == Cardinality(large)
           sigs == [i \in 1..(n - big) |->
                     [amount |-> parts[big + i], id |-> m.active, b |-> blanks[big + i].b]]
<1>1. Falling(parts, Width)
  BY BitsFall DEF SplitAmount, Width
<1>2. parts \in Seq(Nat) /\ Len(parts) \in Nat /\ DOMAIN parts = 1..Len(parts)
  BY <1>1 DEF Falling
<1>3. Len(blanks) \in Nat /\ DOMAIN blanks = 1..Len(blanks)
  BY ListSeq DEF AreOutputs
<1>4. n \in Nat /\ n <= Len(parts) /\ n <= Len(blanks)
  <2> DEFINE p == Len(parts)
             q == Len(blanks)
  <2> HIDE DEF p, q, parts
  <2>1. p \in Nat /\ q \in Nat
    BY <1>2, <1>3 DEF p, q
  <2>2. \E l \in {p, q} : \A j \in {p, q} : l <= j
    BY <2>1
  <2>3. Min({p, q}) \in {p, q} /\ \A j \in {p, q} : Min({p, q}) <= j
    BY <2>2 DEF Min
  <2> QED
    BY <2>1, <2>3 DEF p, q
<1>5. m.active \in DOMAIN m.keysets /\ m.keysets[m.active].top = TopBit
  BY DEF OneSigns
<1>6. SignChange(m, blanks, over) = sigs
  BY <1>5 DEF SignChange
<1> HIDE DEF parts, n
<1>7. IsFiniteSet(1..n) /\ Cardinality(1..n) = n
  BY <1>4, FS_Interval
<1>8. big \in Nat /\ big <= n /\ IsFiniteSet(large)
  <2>1. large \subseteq 1..n
    OBVIOUS
  <2> HIDE DEF large
  <2>2. IsFiniteSet(large) /\ Cardinality(large) <= Cardinality(1..n)
    BY <1>7, <2>1, FS_Subset
  <2>3. Cardinality(large) \in Nat
    BY <2>2, FS_CardinalityType
  <2> QED
    BY <1>7, <2>2, <2>3
<1>9. \A i \in 1..n : parts[i] \in Nat
  BY <1>2, <1>4
<1>10. ASSUME NEW i \in 1..n, big < i
       PROVE  ~(parts[i] > 2^TopBit)
  <2> SUFFICES ASSUME parts[i] > 2^TopBit
               PROVE  FALSE
    OBVIOUS
  <2>1. 2^TopBit \in Nat
    BY Powers, LedgerAssumption
  <2>2. ASSUME NEW j \in 1..i
        PROVE  j \in large
    <3>1. j \in DOMAIN parts /\ i \in DOMAIN parts /\ j \in 1..n
      BY <1>2, <1>4
    <3>2. j = i \/ parts[i] < parts[j]
      <4>1. j = i \/ j < i
        BY <1>4
      <4> QED
        BY <1>1, <3>1, <4>1 DEF Falling
    <3>3. parts[j] > 2^TopBit
      BY <1>9, <2>1, <3>1, <3>2
    <3> QED
      BY <3>1, <3>3
  <2>3. 1..i \subseteq large
    BY <2>2
  <2>4. Cardinality(1..i) = i
    BY <1>4, FS_Interval
  <2> HIDE DEF large
  <2>5. Cardinality(1..i) <= Cardinality(large)
    BY <1>8, <2>3, FS_Subset
  <2> QED
    BY <1>4, <1>8, <1>10, <2>4, <2>5
<1> HIDE DEF big
<1>11. IsList(sigs) /\ DOMAIN sigs = 1..(n - big)
  <2>1. n - big \in Nat
    BY <1>4, <1>8
  <2>2. DOMAIN sigs = 1..(n - big)
    OBVIOUS
  <2> QED
    BY <2>1, <2>2, IndexedList
<1>12. ASSUME NEW i \in DOMAIN sigs
       PROVE  /\ big + i \in 1..n /\ big < big + i /\ big + i \in DOMAIN blanks
              /\ sigs[i] = [amount |-> parts[big + i], id |-> m.active, b |-> blanks[big + i].b]
  BY <1>3, <1>4, <1>8, <1>11
<1>13. ASSUME NEW i \in DOMAIN sigs
       PROVE  sigs[i].amount \in Denominations
  <2>1. big + i \in 1..n /\ big < big + i /\ sigs[i].amount = parts[big + i]
    BY <1>12
  <2>2. ~(parts[big + i] > 2^TopBit)
    BY <1>10, <2>1
  <2>3. PICK k \in 0..(Width - 1) : parts[big + i] = 2^k
    <3>1. big + i \in DOMAIN parts
      BY <1>2, <1>4, <2>1
    <3> QED
      BY <1>1, <3>1 DEF Falling
  <2>4. k \in Nat
    BY DEF Width
  <2>5. 2^k \in Nat /\ 2^TopBit \in Nat
    BY <2>4, Powers, LedgerAssumption
  <2> QED
    BY <2>1, <2>2, <2>3, <2>4, <2>5, SmallPower
<1>14. \A i \in DOMAIN sigs : sigs[i].b \in Secrets(blanks) /\ sigs[i].b \notin DOMAIN m.signed
  BY <1>12 DEF Secrets
<1>15. \A i, j \in DOMAIN sigs : sigs[i].b = sigs[j].b => i = j
  <2> SUFFICES ASSUME NEW i \in DOMAIN sigs, NEW j \in DOMAIN sigs, sigs[i].b = sigs[j].b
               PROVE  i = j
    OBVIOUS
  <2>1. blanks[big + i].b = blanks[big + j].b
    BY <1>12
  <2>2. big + i = big + j
    BY <1>12, <2>1
  <2> QED
    BY <1>8, <1>11, <2>2
<1>16. \A i \in DOMAIN sigs :
         /\ sigs[i] = [amount |-> sigs[i].amount, id |-> sigs[i].id, b |-> sigs[i].b]
         /\ sigs[i].id = m.active
  BY <1>12
<1> HIDE DEF sigs
<1>17. Unsigned(m, sigs)
  BY <1>5, <1>11, <1>13, <1>14, <1>15, <1>16 DEF Unsigned
<1>18. Secrets(sigs) \subseteq Secrets(blanks)
  BY <1>14 DEF Secrets
<1> QED
  BY <1>6, <1>17, <1>18

(* Outputs that pass are signed for what they ask. *)
LEMMA OutputsUnsigned ==
  ASSUME NEW m, NEW outs, AreOutputs(outs), OutputError(m, outs, FALSE) = Pass
  PROVE  /\ Unsigned(m, Signatures(outs))
         /\ Secrets(Signatures(outs)) = Secrets(outs)
         /\ AmountTotal(Signatures(outs)) = AmountTotal(outs)
         /\ AmountTotal(outs) \in Nat
<1> DEFINE sigs == Signatures(outs)
<1>1. Len(outs) \in Nat /\ DOMAIN outs = 1..Len(outs)
  BY ListSeq DEF AreOutputs
<1>2. DOMAIN sigs = 1..Len(outs) /\ sigs = [i \in 1..Len(outs) |-> sigs[i]]
  BY <1>1 DEF Signatures
<1>3. IsList(sigs)
  BY <1>1, <1>2, IndexedList
<1>4. \A i \in DOMAIN outs : sigs[i] = [amount |-> outs[i].amount, id |-> outs[i].id, b |-> outs[i].b]
  BY DEF Signatures
<1>5. /\ \A i \in DOMAIN outs : /\ outs[i].amount \in Denominations /\ outs[i].id \in DOMAIN m.keysets
                                /\ outs[i].b \notin DOMAIN m.signed
      /\ \A i, j \in DOMAIN outs : outs[i].b = outs[j].b => i = j
  BY OutputsPass
<1> HIDE DEF sigs
<1>6. Unsigned(m, sigs)
  BY <1>1, <1>2, <1>3, <1>4, <1>5 DEF Unsigned
<1>7. Secrets(sigs) = Secrets(outs)
  BY <1>1, <1>2, <1>4 DEF Secrets
<1>8. AmountTotal(sigs) = AmountTotal(outs)
  <2>1. [i \in DOMAIN sigs |-> sigs[i].amount] = [i \in DOMAIN outs |-> outs[i].amount]
    BY <1>1, <1>2, <1>4
  <2> QED
    BY <2>1 DEF AmountTotal
<1>9. AmountTotal(outs) \in Nat
  BY ListTotal DEF AreOutputs
<1> QED
  BY <1>6, <1>7, <1>8, <1>9 DEF sigs

(* What is signed once and is worth what it is signed for. *)
LEMMA WorthNat ==
  ASSUME NEW m, SignedFit(m)
  PROVE  /\ IsFiniteSet(DOMAIN m.signed) /\ DOMAIN Worth(m.signed) = DOMAIN m.signed
         /\ \A b \in DOMAIN m.signed : /\ Worth(m.signed)[b] = m.signed[b].amount
                                       /\ Worth(m.signed)[b] \in Nat
         /\ \A b \in DOMAIN m.signed : m.signed[b].amount \in Denominations
BY DenominationNat DEF SignedFit, Worth, Denominations

(* Signing new messages adds their worth, and changes no other. *)
LEMMA SignedMore ==
  ASSUME NEW m, NEW m2, NEW sigs, SignedFit(m), Unsigned(m, sigs),
         m2.signed = Sign(m.signed, sigs), m2.given = m.given \cup Range(sigs),
         m2.keysets = m.keysets
  PROVE  /\ SignedFit(m2)
         /\ DOMAIN m2.signed = DOMAIN m.signed \cup Secrets(sigs)
         /\ AmountTotal(sigs) \in Nat
         /\ SumFunctionOnSet(Worth(m2.signed), DOMAIN m2.signed)
              = SumFunctionOnSet(Worth(m.signed), DOMAIN m.signed) + AmountTotal(sigs)
         /\ \A T \in SUBSET DOMAIN m.signed :
              SumFunctionOnSet(Worth(m2.signed), T) = SumFunctionOnSet(Worth(m.signed), T)
<1> DEFINE old == DOMAIN m.signed
           new == Secrets(sigs)
<1>1. DOMAIN m2.signed = old \cup new /\ old \cap new = {}
  BY DEF Sign, Unsigned, Secrets
<1>2. \A b \in old : m2.signed[b] = m.signed[b]
  BY <1>1 DEF Sign
<1>3. \A i \in DOMAIN sigs :
        /\ sigs[i].b \in new
        /\ m2.signed[sigs[i].b] = [amount |-> sigs[i].amount, id |-> sigs[i].id]
  <2> SUFFICES ASSUME NEW i \in DOMAIN sigs
               PROVE  /\ sigs[i].b \in new
                      /\ m2.signed[sigs[i].b] = [amount |-> sigs[i].amount, id |-> sigs[i].id]
    OBVIOUS
  <2> DEFINE it == CHOOSE j \in DOMAIN sigs : sigs[j].b = sigs[i].b
  <2>1. sigs[i].b \in new
    BY DEF Secrets
  <2>2. it \in DOMAIN sigs /\ sigs[it].b = sigs[i].b
    OBVIOUS
  <2>3. it = i
    BY <2>2 DEF Unsigned
  <2>4. m2.signed[sigs[i].b] = [amount |-> sigs[it].amount, id |-> sigs[it].id]
    BY <1>1, <2>1 DEF Sign
  <2> QED
    BY <2>1, <2>3, <2>4
<1>4. \A b \in new : \E i \in DOMAIN sigs : b = sigs[i].b
  BY DEF Secrets
<1> HIDE DEF new
<1>5. /\ IsList(sigs) /\ \A i \in DOMAIN sigs : sigs[i].amount \in Nat
      /\ \A i \in DOMAIN sigs : Worth(m2.signed)[sigs[i].b] = sigs[i].amount
      /\ \A i, j \in DOMAIN sigs : sigs[i].b = sigs[j].b => i = j
  <2>1. IsList(sigs) /\ \A i \in DOMAIN sigs : sigs[i].amount \in Nat
    BY DenominationNat DEF Unsigned
  <2>2. \A i \in DOMAIN sigs : Worth(m2.signed)[sigs[i].b] = sigs[i].amount
    <3> SUFFICES ASSUME NEW i \in DOMAIN sigs
                 PROVE  Worth(m2.signed)[sigs[i].b] = sigs[i].amount
      OBVIOUS
    <3>1. sigs[i].b \in DOMAIN m2.signed
      BY <1>1, <1>3
    <3>2. m2.signed[sigs[i].b] = [amount |-> sigs[i].amount, id |-> sigs[i].id]
      BY <1>3
    <3>3. m2.signed[sigs[i].b].amount = sigs[i].amount
      BY <3>2
    <3> QED
      BY <3>1, <3>3 DEF Worth
  <2>3. \A i, j \in DOMAIN sigs : sigs[i].b = sigs[j].b => i = j
    BY DEF Unsigned
  <2> QED
    BY <2>1, <2>2, <2>3
<1>6. /\ IsFiniteSet(new) /\ SumFunctionOnSet(Worth(m2.signed), new) = AmountTotal(sigs)
      /\ AmountTotal(sigs) \in Nat
  <2> DEFINE g == Worth(m2.signed)
  <2> HIDE DEF g, new
  <2>1. IsFiniteSet(new) /\ SumFunctionOnSet(g, new) = AmountTotal(sigs)
    BY <1>5, TotalOfMessages DEF g, new
  <2> QED
    BY <1>5, <2>1, ListTotal DEF g
<1>7. /\ IsFiniteSet(old) /\ \A b \in old : Worth(m.signed)[b] \in Nat
      /\ \A b \in old : Worth(m2.signed)[b] = Worth(m.signed)[b]
  BY <1>1, <1>2, WorthNat DEF Worth
<1>8. \A b \in new : Worth(m2.signed)[b] \in Nat
  BY <1>4, <1>5
<1>9. ASSUME NEW T \in SUBSET old
      PROVE  SumFunctionOnSet(Worth(m2.signed), T) = SumFunctionOnSet(Worth(m.signed), T)
  <2>1. IsFiniteSet(T)
    BY <1>7, FS_Subset
  <2>2. \A b \in T : Worth(m2.signed)[b] \in Nat /\ Worth(m2.signed)[b] = Worth(m.signed)[b]
    BY <1>7
  <2> QED
    BY <2>1, <2>2, SumSame
<1>10. SumFunctionOnSet(Worth(m2.signed), old \cup new)
         = SumFunctionOnSet(Worth(m.signed), old) + AmountTotal(sigs)
  <2>1. \A b \in old \cup new : Worth(m2.signed)[b] \in Nat
    BY <1>7, <1>8
  <2> HIDE DEF old, new
  <2>2. SumFunctionOnSet(Worth(m2.signed), old \cup new)
          = SumFunctionOnSet(Worth(m2.signed), old) + SumFunctionOnSet(Worth(m2.signed), new)
    BY <1>1, <1>6, <1>7, <2>1, SumUnion
  <2> QED
    BY <1>6, <1>9, <2>2
<1>11. SignedFit(m2)
  <2>1. IsFiniteSet(DOMAIN m2.signed)
    <3>1. IsFiniteSet(old \cup new)
      <4> HIDE DEF old
      <4> QED
        BY <1>6, <1>7, FS_Union
    <3> QED
      BY <1>1, <3>1
  <2>2. ASSUME NEW b \in DOMAIN m2.signed
        PROVE  m2.signed[b].id \in DOMAIN m2.keysets /\ m2.signed[b].amount \in Denominations
    <3>1. CASE b \in old
      BY <1>2, <3>1 DEF SignedFit, Denominations
    <3>2. CASE b \in new
      <4>1. PICK i \in DOMAIN sigs : b = sigs[i].b
        BY <1>4, <3>2
      <4>2. m2.signed[b] = [amount |-> sigs[i].amount, id |-> sigs[i].id]
        BY <1>3, <4>1
      <4> QED
        BY <4>2 DEF Unsigned
    <3> QED
      BY <1>1, <3>1, <3>2
  <2> DEFINE rec(s, b) == [amount |-> s[b].amount, id |-> s[b].id, b |-> b]
  <2>3. {rec(m2.signed, b) : b \in old} = m.given
    <3>1. m.given = {rec(m.signed, b) : b \in old}
      BY DEF SignedFit
    <3>2. \A b \in old : rec(m2.signed, b) = rec(m.signed, b)
      BY <1>2
    <3> HIDE DEF rec
    <3> QED
      BY <3>1, <3>2
  <2>4. {rec(m2.signed, b) : b \in new} = Range(sigs)
    <3>1. \A i \in DOMAIN sigs : rec(m2.signed, sigs[i].b) = sigs[i]
      <4> SUFFICES ASSUME NEW i \in DOMAIN sigs
                   PROVE  rec(m2.signed, sigs[i].b) = sigs[i]
        OBVIOUS
      <4>1. sigs[i] = [amount |-> sigs[i].amount, id |-> sigs[i].id, b |-> sigs[i].b]
        BY DEF Unsigned
      <4>2. /\ m2.signed[sigs[i].b].amount = sigs[i].amount
            /\ m2.signed[sigs[i].b].id = sigs[i].id
        <5>1. m2.signed[sigs[i].b] = [amount |-> sigs[i].amount, id |-> sigs[i].id]
          BY <1>3
        <5> QED
          BY <5>1
      <4> QED
        BY <4>1, <4>2
    <3> HIDE DEF rec, new
    <3>2. \A b \in new : rec(m2.signed, b) \in Range(sigs)
      BY <1>4, <3>1 DEF Range
    <3>3. \A s \in Range(sigs) : \E b \in new : s = rec(m2.signed, b)
      BY <1>3, <3>1, ZenonT(60) DEF Range
    <3> QED
      BY <3>2, <3>3
  <2>5. m2.given = {rec(m2.signed, b) : b \in DOMAIN m2.signed}
    <3> HIDE DEF rec, new, old
    <3> QED
      BY <1>1, <2>3, <2>4
  <2> QED
    BY <2>1, <2>2, <2>5 DEF SignedFit, Denominations
<1> QED
  BY <1>1, <1>6, <1>9, <1>10, <1>11 DEF new

(* Inputs that pass are signed and unspent, and worth what they claim. *)
LEMMA InputsWorth ==
  ASSUME NEW m, SignedFit(m), NEW ins, AreProofs(ins), VerifyProofs(m, ins) = Pass
  PROVE  /\ Secrets(ins) \subseteq DOMAIN m.signed /\ Secrets(ins) \cap m.spent = {}
         /\ IsFiniteSet(Secrets(ins)) /\ AmountTotal(ins) \in Nat
         /\ SumFunctionOnSet(Worth(m.signed), Secrets(ins)) = AmountTotal(ins)
<1>1. ASSUME NEW i \in DOMAIN ins
      PROVE  /\ ins[i].b \in DOMAIN m.signed /\ ins[i].b \notin m.spent
             /\ Worth(m.signed)[ins[i].b] = ins[i].amount
  <2>1. ins[i].b \notin m.spent
    BY ProofsPass
  <2>2. [amount |-> ins[i].amount, id |-> ins[i].id, b |-> ins[i].b] \in m.given
    BY ProofsPass
  <2>3. PICK b \in DOMAIN m.signed :
          [amount |-> ins[i].amount, id |-> ins[i].id, b |-> ins[i].b]
            = [amount |-> m.signed[b].amount, id |-> m.signed[b].id, b |-> b]
    BY <2>2 DEF SignedFit
  <2>4. ins[i].b = b /\ ins[i].amount = m.signed[b].amount
    BY <2>3
  <2> QED
    BY <2>1, <2>4 DEF Worth
<1>2. /\ IsList(ins) /\ \A i \in DOMAIN ins : ins[i].amount \in Nat
      /\ \A i, j \in DOMAIN ins : ins[i].b = ins[j].b => i = j
  BY ProofsPass DEF AreProofs
<1>3. IsFiniteSet(Secrets(ins)) /\ SumFunctionOnSet(Worth(m.signed), Secrets(ins)) = AmountTotal(ins)
  <2> DEFINE g == Worth(m.signed)
  <2> HIDE DEF g
  <2> QED
    BY <1>1, <1>2, TotalOfMessages DEF g
<1>4. AmountTotal(ins) \in Nat
  BY <1>2, ListTotal
<1> QED
  BY <1>1, <1>3, <1>4 DEF Secrets

-----------------------------------------------------------------------------
(* Parts of the invariant that most steps leave as they are.                 *)

\* m2 is m but for these fields
But(m, m2, fields) ==
  DOMAIN m2 = DOMAIN m /\ \A f \in DOMAIN m \ fields : m2[f] = m[f]

(* The fields, by name. *)
LEMMA Fields ==
  ASSUME NEW m, Shaped(m)
  PROVE  DOMAIN m = {"self", "ln", "bps", "floor", "keysets", "active", "mints", "melts", "inflight",
                     "change", "spent", "signed", "given", "issued", "redeemed", "attempts", "now",
                     "revoked", "clamped"}
BY DEF Shaped, NewMint

(* Settings, the clock and the number of attempts concern no token. *)
LEMMA SettingsKept ==
  ASSUME NEW m, Kept(m), NEW m2, But(m, m2, {"self", "ln", "bps", "floor", "now", "attempts"}),
         m2.now \in Nat
  PROVE  Kept(m2)
<1>1. /\ m2.keysets = m.keysets /\ m2.active = m.active /\ m2.mints = m.mints /\ m2.melts = m.melts
      /\ m2.inflight = m.inflight /\ m2.change = m.change /\ m2.spent = m.spent
      /\ m2.signed = m.signed /\ m2.given = m.given /\ m2.issued = m.issued
      /\ m2.redeemed = m.redeemed /\ m2.revoked = m.revoked /\ m2.clamped = m.clamped
      /\ DOMAIN m2 = DOMAIN m
  BY Fields DEF But, Kept
<1>2. Shaped(m2)
  BY <1>1 DEF Kept, Shaped
<1>3. OneSigns(m2)
  BY <1>1 DEF Kept, OneSigns
<1>4. SignedFit(m2)
  BY <1>1 DEF Kept, SignedFit
<1>5. QuotesFit(m2)
  BY <1>1 DEF Kept, QuotesFit
<1>6. FlightsFit(m2)
  BY <1>1 DEF Kept, FlightsFit
<1>7. Accounted(m2)
  BY <1>1 DEF Kept, Accounted
<1> QED
  BY <1>2, <1>3, <1>4, <1>5, <1>6, <1>7 DEF Kept

(* A new keyset, or another that signs: no keyset is forgotten. *)
LEMMA KeysetsKept ==
  ASSUME NEW m, Kept(m), NEW m2, But(m, m2, {"keysets", "active"}), OneSigns(m2),
         DOMAIN m.keysets \subseteq DOMAIN m2.keysets
  PROVE  Kept(m2)
<1>1. /\ m2.mints = m.mints /\ m2.melts = m.melts
      /\ m2.inflight = m.inflight /\ m2.change = m.change /\ m2.spent = m.spent
      /\ m2.signed = m.signed /\ m2.given = m.given /\ m2.issued = m.issued
      /\ m2.redeemed = m.redeemed /\ m2.revoked = m.revoked /\ m2.clamped = m.clamped /\ m2.now = m.now
      /\ DOMAIN m2 = DOMAIN m
  BY Fields DEF But, Kept
<1>2. Shaped(m2)
  BY <1>1 DEF Kept, Shaped
<1>4. SignedFit(m2)
  BY <1>1 DEF Kept, SignedFit
<1>5. QuotesFit(m2)
  BY <1>1 DEF Kept, QuotesFit
<1>6. FlightsFit(m2)
  BY <1>1 DEF Kept, FlightsFit
<1>7. Accounted(m2)
  BY <1>1 DEF Kept, Accounted
<1> QED
  BY <1>2, <1>4, <1>5, <1>6, <1>7 DEF Kept

\* the records of deposits
DepositsFit(mints) ==
  /\ IsFiniteSet(DOMAIN mints)
  /\ \A q \in DOMAIN mints :
       DOMAIN mints[q] = {"amount", "self", "state", "invoice"} /\ mints[q].amount \in Nat

MintedSum(mints) == SumFunctionOnSet(Deposited(mints), Minted(mints))

(* Deposits change, and with them at most what was issued and revoked. *)
LEMMA DepositsKept ==
  ASSUME NEW m, Kept(m), NEW m2, But(m, m2, {"mints", "issued", "revoked", "clamped"}),
         DepositsFit(m2.mints), ~m2.clamped, m2.issued \in Nat, m2.revoked \in Nat,
         m2.issued + m2.revoked = m.issued + m.revoked, MintedSum(m2.mints) <= m2.issued
  PROVE  Kept(m2)
<1>1. /\ m2.keysets = m.keysets /\ m2.active = m.active /\ m2.melts = m.melts
      /\ m2.inflight = m.inflight /\ m2.change = m.change /\ m2.spent = m.spent
      /\ m2.signed = m.signed /\ m2.given = m.given
      /\ m2.redeemed = m.redeemed /\ m2.now = m.now /\ DOMAIN m2 = DOMAIN m
  BY Fields DEF But, Kept
<1>2. Shaped(m2)
  BY <1>1 DEF Kept, Shaped, DepositsFit
<1>3. OneSigns(m2)
  BY <1>1 DEF Kept, OneSigns
<1>4. SignedFit(m2)
  BY <1>1 DEF Kept, SignedFit
<1>5. QuotesFit(m2)
  BY <1>1 DEF Kept, QuotesFit
<1>6. FlightsFit(m2)
  BY <1>1 DEF Kept, FlightsFit
<1>7. Accounted(m2)
  BY <1>1 DEF Kept, Accounted, MintedSum
<1> QED
  BY <1>2, <1>3, <1>4, <1>5, <1>6, <1>7 DEF Kept

(* Quotes of melts come and go; what is pending and what is paid stays. *)
LEMMA MeltQuotesKept ==
  ASSUME NEW m, Kept(m), NEW m2, But(m, m2, {"melts"}),
         \A q \in DOMAIN m2.melts : DOMAIN m2.melts[q] = {"amount", "reserve", "method", "request", "state"},
         {q \in DOMAIN m2.melts : m2.melts[q].state = "pending"}
           = {q \in DOMAIN m.melts : m.melts[q].state = "pending"},
         \A q \in DOMAIN m.melts : m.melts[q].state = "paid" =>
           q \in DOMAIN m2.melts /\ m2.melts[q].state = "paid"
  PROVE  Kept(m2)
<1>1. /\ m2.keysets = m.keysets /\ m2.active = m.active /\ m2.mints = m.mints
      /\ m2.inflight = m.inflight /\ m2.change = m.change /\ m2.spent = m.spent
      /\ m2.signed = m.signed /\ m2.given = m.given /\ m2.issued = m.issued
      /\ m2.redeemed = m.redeemed /\ m2.revoked = m.revoked /\ m2.clamped = m.clamped /\ m2.now = m.now
      /\ DOMAIN m2 = DOMAIN m
  BY Fields DEF But, Kept
<1>2. Shaped(m2)
  BY <1>1 DEF Kept, Shaped
<1>3. OneSigns(m2)
  BY <1>1 DEF Kept, OneSigns
<1>4. SignedFit(m2)
  BY <1>1 DEF Kept, SignedFit
<1>5. QuotesFit(m2)
  BY <1>1 DEF Kept, QuotesFit
<1>6. FlightsFit(m2)
  BY <1>1 DEF Kept, FlightsFit
<1>7. Accounted(m2)
  BY <1>1 DEF Kept, Accounted
<1> QED
  BY <1>2, <1>3, <1>4, <1>5, <1>6, <1>7 DEF Kept

(* Melts in flight stay so, or end, when their inputs stay spent, and what is
   signed besides is none of their blanks. *)
LEMMA FlightsStay ==
  ASSUME NEW m, FlightsFit(m), NEW m2,
         DOMAIN m2.inflight \subseteq DOMAIN m.inflight,
         \A q \in DOMAIN m2.inflight : m2.inflight[q] = m.inflight[q],
         \A T \in SUBSET DOMAIN m.signed :
           SumFunctionOnSet(Worth(m2.signed), T) = SumFunctionOnSet(Worth(m.signed), T),
         m2.spent \subseteq DOMAIN m2.signed,
         \A q \in DOMAIN m2.inflight :
           /\ m.inflight[q].secrets \subseteq m2.spent
           /\ Secrets(m.inflight[q].blanks) \cap DOMAIN m2.signed = {}
  PROVE  FlightsFit(m2)
<1>1. ASSUME NEW q \in DOMAIN m2.inflight
      PROVE  FlightFits(m2.inflight[q], m2.spent, m2.signed)
  <2> DEFINE e == m.inflight[q]
  <2>1. q \in DOMAIN m.inflight /\ m2.inflight[q] = e
    OBVIOUS
  <2>2. FlightFits(e, m.spent, m.signed)
    BY <2>1 DEF FlightsFit
  <2>3. e.secrets \in SUBSET DOMAIN m.signed
    BY <2>2 DEF FlightsFit, FlightFits
  <2>4. SumFunctionOnSet(Worth(m2.signed), e.secrets) = SumFunctionOnSet(Worth(m.signed), e.secrets)
    BY <2>3
  <2>5. e.secrets \subseteq m2.spent /\ Secrets(e.blanks) \cap DOMAIN m2.signed = {}
    OBVIOUS
  <2> HIDE DEF e
  <2> QED
    BY <2>1, <2>2, <2>4, <2>5 DEF FlightFits
<1>2. \A q1, q2 \in DOMAIN m2.inflight : q1 # q2 => Apart(m2.inflight[q1], m2.inflight[q2])
  BY DEF FlightsFit
<1> QED
  BY <1>1, <1>2 DEF FlightsFit

(* A deposit more, or another state of one: what was minted is no more than
   before, unless a deposit becomes issued. *)
LEMMA MintedPut ==
  ASSUME NEW mints, DepositsFit(mints), NEW q, NEW mq,
         DOMAIN mq = {"amount", "self", "state", "invoice"}, mq.amount \in Nat,
         mq.state = "issued" => /\ q \in DOMAIN mints /\ mints[q].amount = mq.amount
                                /\ mints[q].state = "issued"
  PROVE  DepositsFit(Put(mints, q, mq)) /\ MintedSum(Put(mints, q, mq)) <= MintedSum(mints)
<1> DEFINE new == Put(mints, q, mq)
           f == Deposited(mints)
           g == Deposited(new)
           S == Minted(mints)
           T == Minted(new)
<1>1. DOMAIN new = DOMAIN mints \cup {q} /\ \A k \in DOMAIN new : new[k] = IF k = q THEN mq ELSE mints[k]
  BY DEF Put
<1>2. IsFiniteSet(DOMAIN new)
  BY <1>1, FS_AddElement DEF DepositsFit
<1>3. DepositsFit(new)
  BY <1>1, <1>2 DEF DepositsFit
<1>4. T \subseteq S /\ \A k \in T : g[k] \in Nat /\ g[k] = f[k]
  BY <1>1 DEF DepositsFit, Minted, Deposited
<1>5. \A k \in S : f[k] \in Nat
  BY DEF DepositsFit, Minted, Deposited
<1>6. IsFiniteSet(S)
  BY FS_Subset DEF DepositsFit, Minted
<1> HIDE DEF new, f, g, S, T
<1>7. IsFiniteSet(T) /\ SumFunctionOnSet(g, T) = SumFunctionOnSet(f, T)
  BY <1>4, <1>6, FS_Subset, SumSame
<1>8. SumFunctionOnSet(f, T) <= SumFunctionOnSet(f, S)
  BY <1>4, <1>5, <1>6, SumPart
<1> QED
  BY <1>3, <1>7, <1>8 DEF MintedSum, new, f, g, S, T

(* A deposit less. *)
LEMMA MintedDel ==
  ASSUME NEW mints, DepositsFit(mints), NEW q \in DOMAIN mints
  PROVE  /\ DepositsFit(Del(mints, q)) /\ MintedSum(mints) \in Nat /\ MintedSum(Del(mints, q)) \in Nat
         /\ MintedSum(mints) = MintedSum(Del(mints, q))
              + (IF mints[q].state = "issued" THEN mints[q].amount ELSE 0)
<1> DEFINE new == Del(mints, q)
           f == Deposited(mints)
           g == Deposited(new)
           S == Minted(mints)
           T == Minted(new)
<1>1. DOMAIN new = DOMAIN mints \ {q} /\ \A k \in DOMAIN new : new[k] = mints[k]
  BY DEF Del
<1>2. IsFiniteSet(DOMAIN new)
  BY <1>1, FS_RemoveElement DEF DepositsFit
<1>3. DepositsFit(new)
  BY <1>1, <1>2 DEF DepositsFit
<1>4. T = S \ {q} /\ \A k \in T : g[k] \in Nat /\ g[k] = f[k]
  BY <1>1 DEF DepositsFit, Minted, Deposited
<1>5. \A k \in S : f[k] \in Nat
  BY DEF DepositsFit, Minted, Deposited
<1>6. IsFiniteSet(S) /\ IsFiniteSet(T)
  BY <1>2, FS_Subset DEF DepositsFit, Minted
<1>7. (q \in S <=> mints[q].state = "issued") /\ f[q] = mints[q].amount
  BY DEF Minted, Deposited
<1> HIDE DEF new, f, g, S, T
<1>8. SumFunctionOnSet(g, T) = SumFunctionOnSet(f, T)
  BY <1>4, <1>6, SumSame
<1>9. SumFunctionOnSet(f, S) \in Nat /\ SumFunctionOnSet(f, T) \in Nat
  BY <1>4, <1>5, <1>6, SumType
<1>10. CASE q \in S
  <2>1. SumFunctionOnSet(f, S) = SumFunctionOnSet(f, S \ {q}) + f[q]
    BY <1>5, <1>6, <1>10, SumRemove
  <2> QED
    BY <1>3, <1>4, <1>7, <1>8, <1>9, <1>10, <2>1 DEF MintedSum, new, f, g, S, T
<1>11. CASE q \notin S
  <2>1. T = S
    BY <1>4, <1>11
  <2> QED
    BY <1>3, <1>7, <1>8, <1>9, <1>11, <2>1 DEF MintedSum, new, f, g, S, T
<1> QED
  BY <1>10, <1>11

(* A deposit minted. *)
LEMMA MintedMore ==
  ASSUME NEW mints, DepositsFit(mints), NEW q \in DOMAIN mints, mints[q].state # "issued",
         NEW new, new = [mints EXCEPT ![q].state = "issued"]
  PROVE  DepositsFit(new) /\ MintedSum(new) = MintedSum(mints) + mints[q].amount
<1> DEFINE f == Deposited(mints)
           g == Deposited(new)
           S == Minted(mints)
           T == Minted(new)
<1>1. /\ DOMAIN new = DOMAIN mints /\ \A k \in DOMAIN mints : k # q => new[k] = mints[k]
      /\ DOMAIN new[q] = DOMAIN mints[q] /\ new[q].amount = mints[q].amount /\ new[q].state = "issued"
  BY DEF DepositsFit
<1>2. DepositsFit(new)
  <2> SUFFICES ASSUME NEW k \in DOMAIN new
               PROVE  /\ DOMAIN new[k] = {"amount", "self", "state", "invoice"}
                      /\ new[k].amount \in Nat
    BY <1>1 DEF DepositsFit
  <2> QED
    BY <1>1 DEF DepositsFit
<1>3. T = S \cup {q} /\ q \notin S
  BY <1>1 DEF Minted
<1>4. \A k \in DOMAIN mints : f[k] \in Nat /\ g[k] = f[k] /\ f[k] = mints[k].amount
  BY <1>1 DEF DepositsFit, Deposited
<1>5. IsFiniteSet(S) /\ S \subseteq DOMAIN mints
  BY FS_Subset DEF DepositsFit, Minted
<1> HIDE DEF f, g, S, T
<1>6. SumFunctionOnSet(f, S \cup {q}) = SumFunctionOnSet(f, S) + f[q]
  BY <1>3, <1>4, <1>5, SumAdd
<1>7. IsFiniteSet(T) /\ T \subseteq DOMAIN mints
  BY <1>3, <1>5, FS_AddElement
<1>8. SumFunctionOnSet(g, T) = SumFunctionOnSet(f, T)
  BY <1>4, <1>7, SumSame
<1> QED
  BY <1>2, <1>3, <1>4, <1>6, <1>8 DEF MintedSum, f, g, S, T

(* The change of one melt more. *)
LEMMA ChangeMore ==
  ASSUME NEW change, IsFiniteSet(DOMAIN change), \A k \in DOMAIN change : AmountTotal(change[k]) \in Nat,
         NEW q, q \notin DOMAIN change, NEW c, AmountTotal(c) \in Nat
  PROVE  /\ IsFiniteSet(DOMAIN Put(change, q, c))
         /\ SumFunction(ChangeWorth(Put(change, q, c))) = SumFunction(ChangeWorth(change)) + AmountTotal(c)
<1> DEFINE new == Put(change, q, c)
           f == ChangeWorth(change)
           g == ChangeWorth(new)
           S == DOMAIN change
<1>1. DOMAIN new = S \cup {q} /\ \A k \in DOMAIN new : new[k] = IF k = q THEN c ELSE change[k]
  BY DEF Put
<1>2. /\ DOMAIN f = S /\ DOMAIN g = S \cup {q}
      /\ \A k \in S : f[k] \in Nat /\ g[k] = f[k]
      /\ g[q] = AmountTotal(c)
  BY <1>1 DEF ChangeWorth
<1>3. IsFiniteSet(S \cup {q})
  BY FS_AddElement
<1>4. \A k \in S \cup {q} : g[k] \in Nat
  BY <1>2
<1> HIDE DEF new, f, g, S
<1>5. SumFunctionOnSet(g, S \cup {q}) = SumFunctionOnSet(g, S) + g[q]
  BY <1>4, SumAdd DEF S
<1>6. SumFunctionOnSet(g, S) = SumFunctionOnSet(f, S)
  BY <1>2, <1>4, SumSame DEF S
<1> QED
  BY <1>1, <1>2, <1>3, <1>5, <1>6 DEF SumFunction, new, f, g

(* Spending what was not spent adds its worth to what was redeemed. *)
LEMMA SpendMore ==
  ASSUME NEW m, SignedFit(m), FlightsFit(m), NEW ins, AreProofs(ins), VerifyProofs(m, ins) = Pass
  PROVE  /\ m.spent \cup Secrets(ins) \subseteq DOMAIN m.signed
         /\ SumFunctionOnSet(Worth(m.signed), m.spent \cup Secrets(ins))
              = SumFunctionOnSet(Worth(m.signed), m.spent) + AmountTotal(ins)
<1> DEFINE f == Worth(m.signed)
           S == m.spent
           T == Secrets(ins)
<1>1. /\ S \cap T = {} /\ T \subseteq DOMAIN m.signed /\ IsFiniteSet(T)
      /\ SumFunctionOnSet(f, T) = AmountTotal(ins)
  BY InputsWorth
<1>2. S \subseteq DOMAIN m.signed
  BY DEF FlightsFit
<1>3. IsFiniteSet(DOMAIN m.signed) /\ \A b \in DOMAIN m.signed : f[b] \in Nat
  BY WorthNat
<1>4. IsFiniteSet(S)
  BY <1>2, <1>3, FS_Subset
<1>5. \A b \in S \cup T : f[b] \in Nat
  BY <1>1, <1>2, <1>3
<1> HIDE DEF f, S, T
<1>6. SumFunctionOnSet(f, S \cup T) = SumFunctionOnSet(f, S) + SumFunctionOnSet(f, T)
  BY <1>1, <1>4, <1>5, SumUnion
<1> QED
  BY <1>1, <1>2, <1>6 DEF f, S, T

-----------------------------------------------------------------------------
(* The handlers that sign.                                                   *)

(* The parts of the invariant about tokens, when new messages are signed and
   spent ones are still signed, and as many are issued as are signed. *)
LEMMA SigningKept ==
  ASSUME NEW m, Kept(m), NEW m2, NEW sigs, Unsigned(m, sigs),
         But(m, m2, {"signed", "given", "spent", "issued", "redeemed", "mints"}),
         m2.signed = Sign(m.signed, sigs), m2.given = m.given \cup Range(sigs),
         Secrets(sigs) \cap Held(m) = {},
         m.spent \subseteq m2.spent, m2.spent \subseteq DOMAIN m.signed,
         m2.issued = m.issued + AmountTotal(sigs),
         m2.redeemed \in Nat, SumFunctionOnSet(Worth(m.signed), m2.spent) = m2.redeemed,
         DepositsFit(m2.mints), MintedSum(m2.mints) <= m2.issued
  PROVE  Kept(m2)
<1>1. /\ m2.keysets = m.keysets /\ m2.active = m.active /\ m2.melts = m.melts
      /\ m2.inflight = m.inflight /\ m2.change = m.change
      /\ m2.revoked = m.revoked /\ m2.clamped = m.clamped /\ m2.now = m.now /\ DOMAIN m2 = DOMAIN m
  BY Fields DEF But, Kept
<1>2. /\ SignedFit(m2) /\ DOMAIN m2.signed = DOMAIN m.signed \cup Secrets(sigs)
      /\ AmountTotal(sigs) \in Nat
      /\ SumFunctionOnSet(Worth(m2.signed), DOMAIN m2.signed)
           = SumFunctionOnSet(Worth(m.signed), DOMAIN m.signed) + AmountTotal(sigs)
      /\ \A T \in SUBSET DOMAIN m.signed :
           SumFunctionOnSet(Worth(m2.signed), T) = SumFunctionOnSet(Worth(m.signed), T)
  <2>1. SignedFit(m)
    BY DEF Kept
  <2>2. /\ m2.keysets = m.keysets /\ Unsigned(m, sigs)
        /\ m2.signed = Sign(m.signed, sigs) /\ m2.given = m.given \cup Range(sigs)
    BY <1>1
  <2> QED
    BY ONLY <2>1, <2>2, SignedMore
<1>3. m.issued \in Nat /\ m.revoked \in Nat
  BY DEF Kept, Shaped
<1>4. Shaped(m2)
  BY <1>1, <1>2, <1>3 DEF Kept, Shaped, DepositsFit
<1>5. OneSigns(m2)
  BY <1>1 DEF Kept, OneSigns
<1>6. QuotesFit(m2)
  BY <1>1 DEF Kept, QuotesFit
<1>7. FlightsFit(m2)
  <2>1. \A q \in DOMAIN m.inflight :
          /\ m.inflight[q].secrets \subseteq m2.spent
          /\ Secrets(m.inflight[q].blanks) \cap DOMAIN m2.signed = {}
    <3> SUFFICES ASSUME NEW q \in DOMAIN m.inflight
                 PROVE  /\ m.inflight[q].secrets \subseteq m2.spent
                        /\ Secrets(m.inflight[q].blanks) \cap DOMAIN m2.signed = {}
      OBVIOUS
    <3>1. FlightFits(m.inflight[q], m.spent, m.signed)
      BY DEF Kept, FlightsFit
    <3>2. Secrets(m.inflight[q].blanks) \subseteq Held(m)
      BY DEF Held
    <3> QED
      BY <1>2, <3>1, <3>2 DEF FlightFits
  <2>2. FlightsFit(m)
    BY DEF Kept
  <2>3. m2.spent \subseteq DOMAIN m2.signed
    BY <1>2
  <2> QED
    BY <1>1, <1>2, <2>1, <2>2, <2>3, FlightsStay
<1>8. Accounted(m2)
  <2>1. /\ ~m.clamped
        /\ SumFunctionOnSet(Worth(m.signed), DOMAIN m.signed)
             = m.issued + m.revoked + SumFunction(ChangeWorth(m.change))
    BY DEF Kept, Accounted
  <2>2. SumFunction(ChangeWorth(m.change)) \in Nat
    <3>1. IsFiniteSet(DOMAIN m.change) /\ \A q \in DOMAIN m.change : AmountTotal(m.change[q]) \in Nat
      BY DEF Kept, QuotesFit
    <3>2. /\ DOMAIN ChangeWorth(m.change) = DOMAIN m.change
          /\ \A q \in DOMAIN m.change : ChangeWorth(m.change)[q] \in Nat
      BY <3>1 DEF ChangeWorth
    <3> QED
      BY <3>1, <3>2, SumType DEF SumFunction
  <2>3. SumFunctionOnSet(Worth(m2.signed), DOMAIN m2.signed)
          = m2.issued + m2.revoked + SumFunction(ChangeWorth(m2.change))
    BY <1>1, <1>2, <1>3, <2>1, <2>2
  <2>4. SumFunctionOnSet(Worth(m2.signed), m2.spent) = m2.redeemed
    BY <1>2
  <2> QED
    BY <1>1, <2>1, <2>3, <2>4 DEF Accounted, MintedSum
<1> QED
  BY <1>2, <1>4, <1>5, <1>6, <1>7, <1>8 DEF Kept

(* A swap redeems its inputs and issues its outputs. *)
LEMMA SwapKept ==
  ASSUME NEW m, Kept(m), NEW r, Proper(m, r), r.op = "swap"
  PROVE  Kept(PostSwap(m, r).mint)
<1> DEFINE fee == ComputeFee(m, r.inputs)
           claimed == AmountTotal(r.inputs)
           c1 == When(Len(r.inputs) > MaxBatch \/ Len(r.outputs) > MaxBatch, "batch-too-large")
           c2 == When(fee > claimed, "fee-exceeds-inputs")
           c3 == When(claimed - fee # AmountTotal(r.outputs), "amounts-do-not-balance")
           c4 == OutputError(m, r.outputs, FALSE)
           c5 == VerifyProofs(m, r.inputs)
           why == First(<<c1, c2, c3, c4, c5>>)
           sigs == Signatures(r.outputs)
           m2 == [Signed(m, sigs) EXCEPT !.spent = @ \cup Secrets(r.inputs),
                                         !.issued = @ + AmountTotal(r.outputs),
                                         !.redeemed = @ + claimed]
<1>1. CASE why # Pass
  <2>1. PostSwap(m, r).mint = m
    BY <1>1 DEF PostSwap, Refuse, Reply
  <2> QED
    BY <2>1
<1>2. CASE why = Pass
  <2>1. PostSwap(m, r).mint = m2
    BY <1>2 DEF PostSwap, Reply
  <2>2. c4 = Pass /\ c5 = Pass
    <3> HIDE DEF c1, c2, c3, c4, c5
    <3> QED
      BY <1>2, NoneFive
  <2>3. AreProofs(r.inputs) /\ AreOutputs(r.outputs) /\ Secrets(r.outputs) \cap Held(m) = {}
    BY DEF Proper
  <2>4. /\ Unsigned(m, sigs) /\ Secrets(sigs) = Secrets(r.outputs)
        /\ AmountTotal(sigs) = AmountTotal(r.outputs) /\ AmountTotal(r.outputs) \in Nat
    BY <2>2, <2>3, OutputsUnsigned
  <2>5. /\ m.spent \cup Secrets(r.inputs) \subseteq DOMAIN m.signed
        /\ SumFunctionOnSet(Worth(m.signed), m.spent \cup Secrets(r.inputs))
              = SumFunctionOnSet(Worth(m.signed), m.spent) + claimed
    BY <2>2, <2>3, SpendMore DEF Kept
  <2>6. claimed \in Nat
    BY <2>2, <2>3, InputsWorth DEF Kept
  <2>7. /\ But(m, m2, {"signed", "given", "spent", "issued", "redeemed", "mints"})
        /\ m2.signed = Sign(m.signed, sigs) /\ m2.given = m.given \cup Range(sigs)
        /\ m2.spent = m.spent \cup Secrets(r.inputs)
        /\ m2.issued = m.issued + AmountTotal(r.outputs) /\ m2.redeemed = m.redeemed + claimed
        /\ m2.mints = m.mints
    <3> HIDE DEF sigs, claimed
    <3> QED
      BY Fields DEF Kept, But, Signed
  <2>8. /\ m.issued \in Nat /\ m.redeemed \in Nat /\ DepositsFit(m.mints)
        /\ MintedSum(m.mints) \in Nat /\ MintedSum(m.mints) <= m.issued
        /\ SumFunctionOnSet(Worth(m.signed), m.spent) = m.redeemed
    <3>1. DepositsFit(m.mints)
      BY DEF Kept, Shaped, DepositsFit
    <3>2. MintedSum(m.mints) \in Nat
      <4>1. IsFiniteSet(Minted(m.mints))
        BY <3>1, FS_Subset DEF Minted, DepositsFit
      <4>2. \A q \in Minted(m.mints) : Deposited(m.mints)[q] \in Nat
        BY <3>1 DEF Minted, DepositsFit, Deposited
      <4> QED
        BY <4>1, <4>2, SumType DEF MintedSum
    <3> QED
      BY <3>1, <3>2 DEF Kept, Shaped, Accounted, MintedSum
  <2> HIDE DEF sigs, claimed, m2
  <2>9. /\ Secrets(sigs) \cap Held(m) = {}
        /\ m.spent \subseteq m2.spent /\ m2.spent \subseteq DOMAIN m.signed
        /\ m2.issued = m.issued + AmountTotal(sigs)
    BY <2>3, <2>4, <2>5, <2>7
  <2>10. /\ m2.redeemed \in Nat /\ SumFunctionOnSet(Worth(m.signed), m2.spent) = m2.redeemed
    BY <2>5, <2>6, <2>7, <2>8
  <2>11. DepositsFit(m2.mints) /\ MintedSum(m2.mints) <= m2.issued
    BY <2>4, <2>7, <2>8
  <2>12. Kept(m2)
    BY <2>4, <2>7, <2>9, <2>10, <2>11, SigningKept
  <2> QED
    BY <2>1, <2>12
<1> QED
  BY <1>1, <1>2

(* What the deposits that were minted are worth is a number. *)
LEMMA MintedNat ==
  ASSUME NEW mints, DepositsFit(mints)
  PROVE  MintedSum(mints) \in Nat
<1>1. IsFiniteSet(Minted(mints))
  BY FS_Subset DEF Minted, DepositsFit
<1>2. \A q \in Minted(mints) : Deposited(mints)[q] \in Nat
  BY DEF Minted, DepositsFit, Deposited
<1> QED
  BY <1>1, <1>2, SumType DEF MintedSum

(* A deposit that is paid is minted once, for its amount. *)
LEMMA MintKept ==
  ASSUME NEW m, Kept(m), NEW r, Proper(m, r), r.op = "mint"
  PROVE  Kept(PostMint(m, r).mint)
<1> DEFINE mq == m.mints[r.quote]
           c1 == When(r.method = "self" /\ ~m.self, "self-method-disabled")
           c2 == When(mq.self /\ ~m.self, "self-method-disabled")
           c3 == When(mq.state # "paid", "quote-not-paid")
           c4 == When(Len(r.outputs) > MaxBatch, "batch-too-large")
           c5 == When(AmountTotal(r.outputs) # mq.amount, "output-amount-mismatch")
           c6 == OutputError(m, r.outputs, FALSE)
           why == First(<<c1, c2, c3, c4, c5, c6>>)
           sigs == Signatures(r.outputs)
           m2 == [Signed(m, sigs) EXCEPT !.mints[r.quote].state = "issued", !.issued = @ + mq.amount]
<1>1. CASE r.quote \notin DOMAIN m.mints \/ why # Pass
  <2>1. PostMint(m, r).mint = m
    BY <1>1 DEF PostMint, Refuse, Reply
  <2> QED
    BY <2>1
<1>2. CASE r.quote \in DOMAIN m.mints /\ why = Pass
  <2>1. PostMint(m, r).mint = m2
    BY <1>2 DEF PostMint, Reply
  <2>2. c3 = Pass /\ c5 = Pass /\ c6 = Pass
    <3> HIDE DEF c1, c2, c3, c4, c5, c6
    <3> QED
      BY <1>2, NoneSix
  <2>3. mq.state = "paid" /\ AmountTotal(r.outputs) = mq.amount
    BY <2>2 DEF When, Pass
  <2>4. AreOutputs(r.outputs) /\ Secrets(r.outputs) \cap Held(m) = {}
    BY DEF Proper
  <2>5. /\ Unsigned(m, sigs) /\ Secrets(sigs) = Secrets(r.outputs)
        /\ AmountTotal(sigs) = AmountTotal(r.outputs) /\ AmountTotal(r.outputs) \in Nat
    BY <2>2, <2>4, OutputsUnsigned
  <2>6. /\ m.issued \in Nat /\ m.redeemed \in Nat /\ DepositsFit(m.mints)
        /\ MintedSum(m.mints) <= m.issued
        /\ SumFunctionOnSet(Worth(m.signed), m.spent) = m.redeemed
        /\ m.spent \subseteq DOMAIN m.signed
    BY DEF Kept, Shaped, Accounted, MintedSum, DepositsFit, FlightsFit
  <2>7. /\ But(m, m2, {"signed", "given", "spent", "issued", "redeemed", "mints"})
        /\ m2.signed = Sign(m.signed, sigs) /\ m2.given = m.given \cup Range(sigs)
        /\ m2.spent = m.spent /\ m2.redeemed = m.redeemed
        /\ m2.issued = m.issued + mq.amount
        /\ m2.mints = [m.mints EXCEPT ![r.quote].state = "issued"]
    <3> HIDE DEF sigs, mq
    <3> QED
      BY Fields DEF Kept, But, Signed
  <2>8. MintedSum(m.mints) \in Nat
    BY <2>6, MintedNat
  <2>9. DepositsFit(m2.mints) /\ MintedSum(m2.mints) = MintedSum(m.mints) + mq.amount
    BY <1>2, <2>3, <2>6, <2>7, MintedMore, SMTT(30)
  <2> HIDE DEF sigs, m2, mq
  <2>10. /\ Secrets(sigs) \cap Held(m) = {} /\ m.spent \subseteq m2.spent
         /\ m2.spent \subseteq DOMAIN m.signed
         /\ m2.issued = m.issued + AmountTotal(sigs)
         /\ m2.redeemed \in Nat /\ SumFunctionOnSet(Worth(m.signed), m2.spent) = m2.redeemed
    BY <2>3, <2>4, <2>5, <2>6, <2>7
  <2>11. MintedSum(m2.mints) <= m2.issued
    BY <2>3, <2>5, <2>6, <2>7, <2>8, <2>9
  <2>12. Kept(m2)
    BY <2>5, <2>7, <2>9, <2>10, <2>11, SigningKept
  <2> QED
    BY <2>1, <2>12
<1> QED
  BY <1>1, <1>2

-----------------------------------------------------------------------------
(* Melts.                                                                    *)

(* Inputs that pass are spent, and what they are worth is redeemed. *)
LEMMA SpendKept ==
  ASSUME NEW m, Kept(m), NEW ins, AreProofs(ins), VerifyProofs(m, ins) = Pass, NEW m2,
         m2 = [m EXCEPT !.spent = @ \cup Secrets(ins), !.redeemed = @ + AmountTotal(ins)]
  PROVE  Kept(m2)
<1> DEFINE claimed == AmountTotal(ins)
           new == Secrets(ins)
<1>1. SignedFit(m) /\ FlightsFit(m) /\ m.redeemed \in Nat
      /\ SumFunctionOnSet(Worth(m.signed), m.spent) = m.redeemed
  BY DEF Kept, Shaped, Accounted
<1>2. /\ m.spent \cup new \subseteq DOMAIN m.signed /\ claimed \in Nat
      /\ SumFunctionOnSet(Worth(m.signed), m.spent \cup new)
           = SumFunctionOnSet(Worth(m.signed), m.spent) + claimed
  BY <1>1, SpendMore, InputsWorth
<1>3. m2.spent = m.spent \cup new /\ m2.redeemed = m.redeemed + claimed
      /\ DOMAIN m2 = DOMAIN m
  BY Fields DEF Kept
<1>4. /\ m2.keysets = m.keysets /\ m2.active = m.active /\ m2.mints = m.mints /\ m2.melts = m.melts
      /\ m2.inflight = m.inflight /\ m2.change = m.change
      /\ m2.signed = m.signed /\ m2.given = m.given /\ m2.issued = m.issued
      /\ m2.revoked = m.revoked /\ m2.clamped = m.clamped /\ m2.now = m.now
  BY Fields DEF Kept
<1> HIDE DEF claimed, new
<1>5. m2.redeemed \in Nat
  BY <1>1, <1>2, <1>3
<1>6. Shaped(m2)
  BY <1>3, <1>4, <1>5 DEF Kept, Shaped
<1>7. OneSigns(m2)
  BY <1>4 DEF Kept, OneSigns
<1>8. SignedFit(m2)
  BY <1>4 DEF Kept, SignedFit
<1>9. QuotesFit(m2)
  BY <1>4 DEF Kept, QuotesFit
<1>10. FlightsFit(m2)
  <2>1. \A q \in DOMAIN m.inflight :
          /\ m.inflight[q].secrets \subseteq m2.spent
          /\ Secrets(m.inflight[q].blanks) \cap DOMAIN m.signed = {}
    BY <1>1, <1>3 DEF FlightsFit, FlightFits
  <2>2. m2.spent \subseteq DOMAIN m2.signed
    BY <1>2, <1>3, <1>4
  <2> QED
    BY <1>1, <1>4, <2>1, <2>2, FlightsStay
<1>11. Accounted(m2)
  BY <1>1, <1>2, <1>3, <1>4 DEF Kept, Accounted
<1> QED
  BY <1>6, <1>7, <1>8, <1>9, <1>10, <1>11 DEF Kept

(* What the change of all melts is worth is a number. *)
LEMMA ChangeNat ==
  ASSUME NEW m, QuotesFit(m)
  PROVE  SumFunction(ChangeWorth(m.change)) \in Nat
<1>1. IsFiniteSet(DOMAIN m.change) /\ \A q \in DOMAIN m.change : AmountTotal(m.change[q]) \in Nat
  BY DEF QuotesFit
<1>2. /\ DOMAIN ChangeWorth(m.change) = DOMAIN m.change
      /\ \A q \in DOMAIN m.change : ChangeWorth(m.change)[q] \in Nat
  BY <1>1 DEF ChangeWorth
<1> QED
  BY <1>1, <1>2, SumType DEF SumFunction

\* m2 is m with the quote q paid, and these signatures as its change
PaidWith(m, m2, q, sigs) ==
  /\ But(m, m2, {"signed", "given", "change", "melts", "inflight"})
  /\ m2.signed = Sign(m.signed, sigs) /\ m2.given = m.given \cup Range(sigs)
  /\ m2.change = IF sigs = <<>> THEN m.change ELSE Put(m.change, q, sigs)
  /\ DOMAIN m2.melts = DOMAIN m.melts
  /\ \A p \in DOMAIN m.melts : p # q => m2.melts[p] = m.melts[p]
  /\ m2.melts[q].state = "paid" /\ DOMAIN m2.melts[q] = DOMAIN m.melts[q]
  /\ DOMAIN m2.inflight = DOMAIN m.inflight \ {q}
  /\ \A p \in DOMAIN m2.inflight : m2.inflight[p] = m.inflight[p]

(* A melt is paid, and change is signed for it on blanks that are its own. *)
LEMMA PaidKept ==
  ASSUME NEW m, Kept(m), NEW m2, NEW sigs, Unsigned(m, sigs),
         NEW q \in DOMAIN m.melts, m.melts[q].state # "paid", PaidWith(m, m2, q, sigs),
         \A p \in DOMAIN m2.inflight : Secrets(m.inflight[p].blanks) \cap Secrets(sigs) = {}
  PROVE  Kept(m2)
<1>0. /\ But(m, m2, {"signed", "given", "change", "melts", "inflight"})
      /\ m2.signed = Sign(m.signed, sigs) /\ m2.given = m.given \cup Range(sigs)
      /\ m2.change = IF sigs = <<>> THEN m.change ELSE Put(m.change, q, sigs)
      /\ DOMAIN m2.melts = DOMAIN m.melts
      /\ \A p \in DOMAIN m.melts : p # q => m2.melts[p] = m.melts[p]
      /\ m2.melts[q].state = "paid" /\ DOMAIN m2.melts[q] = DOMAIN m.melts[q]
      /\ DOMAIN m2.inflight = DOMAIN m.inflight \ {q}
      /\ \A p \in DOMAIN m2.inflight : m2.inflight[p] = m.inflight[p]
  BY DEF PaidWith
<1> USE <1>0
<1>1. /\ m2.keysets = m.keysets /\ m2.active = m.active /\ m2.mints = m.mints
      /\ m2.spent = m.spent /\ m2.issued = m.issued /\ m2.redeemed = m.redeemed
      /\ m2.revoked = m.revoked /\ m2.clamped = m.clamped /\ m2.now = m.now /\ DOMAIN m2 = DOMAIN m
  BY Fields DEF But, Kept
<1>2. /\ SignedFit(m2) /\ DOMAIN m2.signed = DOMAIN m.signed \cup Secrets(sigs)
      /\ AmountTotal(sigs) \in Nat
      /\ SumFunctionOnSet(Worth(m2.signed), DOMAIN m2.signed)
           = SumFunctionOnSet(Worth(m.signed), DOMAIN m.signed) + AmountTotal(sigs)
      /\ \A T \in SUBSET DOMAIN m.signed :
           SumFunctionOnSet(Worth(m2.signed), T) = SumFunctionOnSet(Worth(m.signed), T)
  <2>1. SignedFit(m)
    BY DEF Kept
  <2>2. /\ m2.keysets = m.keysets /\ Unsigned(m, sigs)
        /\ m2.signed = Sign(m.signed, sigs) /\ m2.given = m.given \cup Range(sigs)
    BY <1>1
  <2> QED
    BY ONLY <2>1, <2>2, SignedMore
<1>3. QuotesFit(m)
  BY DEF Kept
<1>4. /\ IsFiniteSet(DOMAIN m.change) /\ q \notin DOMAIN m.change
      /\ \A p \in DOMAIN m.change : AmountTotal(m.change[p]) \in Nat
  BY <1>3 DEF QuotesFit
<1>5. /\ IsFiniteSet(DOMAIN m2.change)
      /\ SumFunction(ChangeWorth(m2.change)) = SumFunction(ChangeWorth(m.change)) + AmountTotal(sigs)
  <2>1. CASE sigs = <<>>
    <3>1. AmountTotal(sigs) = 0
      <4> DEFINE f == [i \in DOMAIN sigs |-> sigs[i].amount]
      <4>1. DOMAIN f = {}
        BY <2>1
      <4> HIDE DEF f
      <4>2. SumFunctionOnSet(f, {}) = 0
        BY SumEmpty
      <4> QED
        BY <4>1, <4>2 DEF AmountTotal, Total, SumFunction, f
    <3>2. SumFunction(ChangeWorth(m.change)) \in Nat
      BY <1>3, ChangeNat
    <3>3. m2.change = m.change
      BY <2>1
    <3> QED
      BY <1>4, <3>1, <3>2, <3>3
  <2>2. CASE sigs # <<>>
    <3>1. m2.change = Put(m.change, q, sigs)
      BY <2>2
    <3> QED
      BY <1>2, <1>4, <3>1, ChangeMore
  <2> QED
    BY <2>1, <2>2
<1>6. Shaped(m2)
  BY <1>1 DEF Kept, Shaped
<1>7. OneSigns(m2)
  BY <1>1 DEF Kept, OneSigns
<1>8. QuotesFit(m2)
  <2>1. DOMAIN m2.inflight = {p \in DOMAIN m2.melts : m2.melts[p].state = "pending"}
    BY <1>3 DEF QuotesFit
  <2>2. ASSUME NEW p \in DOMAIN m2.change
        PROVE  /\ p \in DOMAIN m2.melts /\ m2.melts[p].state = "paid"
               /\ AmountTotal(m2.change[p]) \in Nat
    <3>1. CASE p = q /\ sigs # <<>>
      <4>1. m2.change[p] = sigs
        BY <3>1 DEF Put
      <4> QED
        BY <1>2, <3>1, <4>1
    <3>2. CASE p # q \/ sigs = <<>>
      <4>1. p \in DOMAIN m.change /\ m2.change[p] = m.change[p]
        BY <3>2 DEF Put
      <4> QED
        BY <1>3, <4>1 DEF QuotesFit
    <3> QED
      BY <3>1, <3>2
  <2> QED
    BY <1>5, <2>1, <2>2 DEF QuotesFit
<1>9. FlightsFit(m2)
  <2>1. FlightsFit(m)
    BY DEF Kept
  <2>2. \A p \in DOMAIN m2.inflight :
          /\ m.inflight[p].secrets \subseteq m2.spent
          /\ Secrets(m.inflight[p].blanks) \cap DOMAIN m2.signed = {}
    <3> SUFFICES ASSUME NEW p \in DOMAIN m2.inflight
                 PROVE  /\ m.inflight[p].secrets \subseteq m2.spent
                        /\ Secrets(m.inflight[p].blanks) \cap DOMAIN m2.signed = {}
      OBVIOUS
    <3>1. FlightFits(m.inflight[p], m.spent, m.signed)
      BY <2>1 DEF FlightsFit
    <3>2. Secrets(m.inflight[p].blanks) \cap Secrets(sigs) = {}
      OBVIOUS
    <3> QED
      BY <1>1, <1>2, <3>1, <3>2 DEF FlightFits
  <2>3. m2.spent \subseteq DOMAIN m2.signed
    BY <1>1, <1>2, <2>1 DEF FlightsFit
  <2>4. DOMAIN m2.inflight \subseteq DOMAIN m.inflight
    OBVIOUS
  <2> QED
    BY <1>2, <2>1, <2>2, <2>3, <2>4, FlightsStay
<1>10. Accounted(m2)
  <2>1. /\ ~m.clamped /\ m.issued \in Nat /\ m.revoked \in Nat
        /\ SumFunctionOnSet(Worth(m.signed), DOMAIN m.signed)
             = m.issued + m.revoked + SumFunction(ChangeWorth(m.change))
    BY DEF Kept, Accounted, Shaped
  <2>2. SumFunction(ChangeWorth(m.change)) \in Nat
    BY <1>3, ChangeNat
  <2>3. SumFunctionOnSet(Worth(m2.signed), DOMAIN m2.signed)
          = m2.issued + m2.revoked + SumFunction(ChangeWorth(m2.change))
    BY <1>1, <1>2, <1>5, <2>1, <2>2
  <2>4. SumFunctionOnSet(Worth(m2.signed), m2.spent) = m2.redeemed
    BY <1>1, <1>2 DEF Kept, Accounted, FlightsFit
  <2>5. SumFunctionOnSet(Deposited(m2.mints), Minted(m2.mints)) <= m2.issued
    BY <1>1 DEF Kept, Accounted
  <2> QED
    BY <1>1, <2>1, <2>3, <2>4, <2>5 DEF Accounted
<1> QED
  BY <1>2, <1>6, <1>7, <1>8, <1>9, <1>10 DEF Kept

(* A melt in flight settles: its change is signed on its own blanks. *)
LEMMA SettleKept ==
  ASSUME NEW m, Kept(m), NEW q \in DOMAIN m.inflight, NEW fee
  PROVE  Kept(SettleMelt(m, q, fee))
<1> DEFINE e == m.inflight[q]
           over == MeltChange(m.melts[q].reserve, RoutingFeeSats(fee, m.melts[q].reserve), e.excess)
           sigs == SignChange(m, e.blanks, over)
           m2 == [Signed(m, sigs) EXCEPT !.change = IF sigs = <<>> THEN @ ELSE Put(@, q, sigs),
                                         !.melts[q].state = "paid",
                                         !.inflight = Del(@, q)]
<1>1. SettleMelt(m, q, fee) = m2
  BY DEF SettleMelt
<1>2. /\ OneSigns(m) /\ QuotesFit(m) /\ FlightsFit(m) /\ Shaped(m)
  BY DEF Kept
<1>3. FlightFits(e, m.spent, m.signed)
  BY <1>2 DEF FlightsFit
<1>4. Unsigned(m, sigs) /\ Secrets(sigs) \subseteq Secrets(e.blanks)
  <2>1. /\ AreOutputs(e.blanks) /\ Secrets(e.blanks) \cap DOMAIN m.signed = {}
        /\ \A i, j \in DOMAIN e.blanks : e.blanks[i].b = e.blanks[j].b => i = j
    BY <1>3 DEF FlightFits
  <2> HIDE DEF e, over
  <2> QED
    BY <1>2, <2>1, ChangeUnsigned
<1>5. q \in DOMAIN m.melts /\ m.melts[q].state = "pending"
  BY <1>2 DEF QuotesFit
<1>6. DOMAIN m.melts[q] = {"amount", "reserve", "method", "request", "state"}
  BY <1>2, <1>5 DEF Shaped
<1> HIDE DEF sigs
<1>7. /\ But(m, m2, {"signed", "given", "change", "melts", "inflight"})
      /\ m2.signed = Sign(m.signed, sigs) /\ m2.given = m.given \cup Range(sigs)
      /\ m2.change = IF sigs = <<>> THEN m.change ELSE Put(m.change, q, sigs)
      /\ m2.melts = [m.melts EXCEPT ![q].state = "paid"]
      /\ m2.inflight = Del(m.inflight, q)
  BY <1>2, Fields DEF But, Signed
<1> HIDE DEF m2
<1>8. /\ DOMAIN m2.melts = DOMAIN m.melts
      /\ \A p \in DOMAIN m.melts : p # q => m2.melts[p] = m.melts[p]
      /\ m2.melts[q].state = "paid" /\ DOMAIN m2.melts[q] = DOMAIN m.melts[q]
  BY <1>5, <1>6, <1>7
<1>9. /\ DOMAIN m2.inflight = DOMAIN m.inflight \ {q}
      /\ \A p \in DOMAIN m2.inflight : m2.inflight[p] = m.inflight[p]
  BY <1>7 DEF Del
<1>10. \A p \in DOMAIN m2.inflight : Secrets(m.inflight[p].blanks) \cap Secrets(sigs) = {}
  BY <1>2, <1>4, <1>9 DEF FlightsFit, Apart
<1>11. m.melts[q].state # "paid"
  BY <1>5
<1> HIDE DEF e, over
<1>12. PaidWith(m, m2, q, sigs)
  BY <1>7, <1>8, <1>9 DEF PaidWith
<1>13. Kept(m2)
  BY <1>4, <1>5, <1>10, <1>11, <1>12, PaidKept
<1> QED
  BY <1>1, <1>13

(* A melt in flight is rolled back: what it spent is unspent again, and what
   it redeemed is within what was redeemed. *)
LEMMA RollbackKept ==
  ASSUME NEW m, Kept(m), NEW q \in DOMAIN m.inflight
  PROVE  Kept(RollbackMelt(m, q))
<1> DEFINE e == m.inflight[q]
           f == Worth(m.signed)
           m2 == RollbackMelt(m, q)
<1>1. /\ OneSigns(m) /\ SignedFit(m) /\ QuotesFit(m) /\ FlightsFit(m) /\ Shaped(m)
      /\ SumFunctionOnSet(f, m.spent) = m.redeemed /\ m.redeemed \in Nat /\ ~m.clamped
  BY DEF Kept, Accounted, Shaped
<1>2. FlightFits(e, m.spent, m.signed)
  BY <1>1 DEF FlightsFit
<1>3. e.secrets \subseteq m.spent /\ m.spent \subseteq DOMAIN m.signed
      /\ e.total = SumFunctionOnSet(f, e.secrets)
  BY <1>1, <1>2 DEF FlightsFit, FlightFits
<1>4. q \in DOMAIN m.melts /\ m.melts[q].state = "pending"
  BY <1>1 DEF QuotesFit
<1>5. DOMAIN m.melts[q] = {"amount", "reserve", "method", "request", "state"}
  BY <1>1, <1>4 DEF Shaped
<1>6. /\ e.total \in Nat /\ e.total <= m.redeemed
      /\ SumFunctionOnSet(f, m.spent \ e.secrets) = m.redeemed - e.total
  <2>1. IsFiniteSet(DOMAIN m.signed) /\ \A b \in DOMAIN m.signed : f[b] \in Nat
    BY <1>1, WorthNat
  <2> DEFINE S == m.spent
             T == e.secrets
  <2>2. S \subseteq DOMAIN m.signed /\ T \subseteq S
    BY <1>3
  <2>3. SumFunctionOnSet(f, S) = m.redeemed /\ e.total = SumFunctionOnSet(f, T)
    BY <1>1, <1>3
  <2> HIDE DEF S, T, f
  <2>4. IsFiniteSet(S) /\ IsFiniteSet(T) /\ IsFiniteSet(S \ T)
    BY <2>1, <2>2, FS_Subset
  <2>5. \A b \in S : f[b] \in Nat
    BY <2>1, <2>2
  <2>6. /\ SumFunctionOnSet(f, T) \in Nat /\ SumFunctionOnSet(f, S \ T) \in Nat
    BY <2>2, <2>4, <2>5, SumType
  <2>7. SumFunctionOnSet(f, (S \ T) \cup T) = SumFunctionOnSet(f, S \ T) + SumFunctionOnSet(f, T)
    <3>1. (S \ T) \cap T = {}
      OBVIOUS
    <3>2. \A b \in (S \ T) \cup T : f[b] \in Nat
      BY <2>2, <2>5
    <3> QED
      BY <2>4, <3>1, <3>2, SumUnion
  <2>8. SumFunctionOnSet(f, (S \ T) \cup T) = SumFunctionOnSet(f, S)
    <3>1. (S \ T) \cup T = S
      BY <2>2
    <3> QED
      BY <3>1, Zenon
  <2>9. /\ e.total \in Nat /\ e.total <= m.redeemed
        /\ SumFunctionOnSet(f, S \ T) = m.redeemed - e.total
    BY <2>3, <2>6, <2>7, <2>8
  <2> QED
    BY <2>9 DEF S, T
<1>7. /\ m2.keysets = m.keysets /\ m2.active = m.active /\ m2.mints = m.mints
      /\ m2.change = m.change /\ m2.signed = m.signed /\ m2.given = m.given
      /\ m2.issued = m.issued /\ m2.revoked = m.revoked /\ m2.now = m.now /\ DOMAIN m2 = DOMAIN m
      /\ m2.spent = m.spent \ e.secrets
      /\ m2.redeemed = m.redeemed - Min({e.total, m.redeemed})
      /\ m2.clamped = (m.clamped \/ e.total > m.redeemed)
      /\ m2.melts = [m.melts EXCEPT ![q].state = "failed"]
      /\ m2.inflight = Del(m.inflight, q)
  BY <1>1, Fields DEF RollbackMelt
<1>8. Min({e.total, m.redeemed}) = e.total
  BY <1>1, <1>6 DEF Min
<1>9. /\ DOMAIN m2.melts = DOMAIN m.melts
      /\ \A p \in DOMAIN m.melts : p # q => m2.melts[p] = m.melts[p]
      /\ m2.melts[q].state = "failed" /\ DOMAIN m2.melts[q] = DOMAIN m.melts[q]
  BY <1>4, <1>5, <1>7
<1>10. /\ DOMAIN m2.inflight = DOMAIN m.inflight \ {q}
       /\ \A p \in DOMAIN m2.inflight : m2.inflight[p] = m.inflight[p]
  BY <1>7 DEF Del
<1> HIDE DEF m2
<1>11. m2.redeemed \in Nat /\ m2.redeemed = m.redeemed - e.total /\ ~m2.clamped
  <2>1. m2.redeemed = m.redeemed - e.total
    BY <1>7, <1>8
  <2>2. m2.redeemed \in Nat /\ ~(e.total > m.redeemed)
    BY <1>1, <1>6, <2>1
  <2>3. ~m2.clamped
    BY <1>1, <1>7, <2>2, Zenon
  <2> QED
    BY <2>1, <2>2, <2>3
<1>12. Shaped(m2)
  <2>1. \A p \in DOMAIN m2.melts : DOMAIN m2.melts[p] = {"amount", "reserve", "method", "request", "state"}
    BY <1>1, <1>9 DEF Shaped
  <2> QED
    BY <1>1, <1>7, <1>11, <2>1 DEF Shaped
<1>13. OneSigns(m2)
  BY <1>1, <1>7 DEF OneSigns
<1>14. SignedFit(m2)
  BY <1>1, <1>7 DEF SignedFit
<1>15. QuotesFit(m2)
  <2>1. DOMAIN m2.inflight = {p \in DOMAIN m2.melts : m2.melts[p].state = "pending"}
    BY <1>1, <1>9, <1>10 DEF QuotesFit
  <2> QED
    BY <1>1, <1>4, <1>7, <1>9, <2>1 DEF QuotesFit
<1>16. FlightsFit(m2)
  <2>1. \A p \in DOMAIN m2.inflight :
          /\ m.inflight[p].secrets \subseteq m2.spent
          /\ Secrets(m.inflight[p].blanks) \cap DOMAIN m2.signed = {}
    <3> SUFFICES ASSUME NEW p \in DOMAIN m2.inflight
                 PROVE  /\ m.inflight[p].secrets \subseteq m2.spent
                        /\ Secrets(m.inflight[p].blanks) \cap DOMAIN m2.signed = {}
      OBVIOUS
    <3>1. FlightFits(m.inflight[p], m.spent, m.signed) /\ Apart(m.inflight[p], e)
      BY <1>1, <1>10 DEF FlightsFit
    <3> HIDE DEF e
    <3> QED
      BY <1>7, <3>1 DEF FlightFits, Apart
  <2>2. DOMAIN m2.inflight \subseteq DOMAIN m.inflight /\ m2.spent \subseteq DOMAIN m2.signed
    BY <1>3, <1>7, <1>10
  <2> QED
    BY <1>1, <1>7, <1>10, <2>1, <2>2, FlightsStay
<1>17. Accounted(m2)
  BY <1>6, <1>7, <1>11 DEF Kept, Accounted
<1> QED
  BY <1>12, <1>13, <1>14, <1>15, <1>16, <1>17 DEF Kept, m2

(* A melt departs: its inputs are spent and no other melt's, and its blanks
   are not signed and no other melt's. *)
LEMMA DepartKept ==
  ASSUME NEW m, Kept(m), NEW m2, NEW q \in DOMAIN m.melts,
         m.melts[q].state \notin {"pending", "paid"}, NEW e,
         But(m, m2, {"melts", "inflight", "attempts"}),
         m2.melts = [m.melts EXCEPT ![q].state = "pending"], m2.inflight = Put(m.inflight, q, e),
         FlightFits(e, m.spent, m.signed),
         \A p \in DOMAIN m.inflight : Apart(m.inflight[p], e)
  PROVE  Kept(m2)
<1>1. /\ m2.keysets = m.keysets /\ m2.active = m.active /\ m2.mints = m.mints
      /\ m2.change = m.change /\ m2.signed = m.signed /\ m2.given = m.given
      /\ m2.spent = m.spent /\ m2.redeemed = m.redeemed /\ m2.clamped = m.clamped
      /\ m2.issued = m.issued /\ m2.revoked = m.revoked /\ m2.now = m.now /\ DOMAIN m2 = DOMAIN m
  BY Fields DEF But, Kept
<1>2. OneSigns(m) /\ SignedFit(m) /\ QuotesFit(m) /\ FlightsFit(m) /\ Shaped(m)
  BY DEF Kept
<1>3. DOMAIN m.melts[q] = {"amount", "reserve", "method", "request", "state"}
  BY <1>2 DEF Shaped
<1>4. /\ DOMAIN m2.melts = DOMAIN m.melts
      /\ \A p \in DOMAIN m.melts : p # q => m2.melts[p] = m.melts[p]
      /\ m2.melts[q].state = "pending" /\ DOMAIN m2.melts[q] = DOMAIN m.melts[q]
  BY <1>3
<1>5. /\ DOMAIN m2.inflight = DOMAIN m.inflight \cup {q} /\ m2.inflight[q] = e
      /\ \A p \in DOMAIN m.inflight : p # q => m2.inflight[p] = m.inflight[p]
  BY DEF Put
<1>6. q \notin DOMAIN m.inflight
  BY <1>2 DEF QuotesFit
<1>7. Shaped(m2)
  <2>1. \A p \in DOMAIN m2.melts : DOMAIN m2.melts[p] = {"amount", "reserve", "method", "request", "state"}
    BY <1>2, <1>4 DEF Shaped
  <2> QED
    BY <1>1, <1>2, <2>1 DEF Shaped
<1>8. OneSigns(m2)
  BY <1>1, <1>2 DEF OneSigns
<1>9. SignedFit(m2)
  BY <1>1, <1>2 DEF SignedFit
<1>10. QuotesFit(m2)
  <2>1. DOMAIN m2.inflight = {p \in DOMAIN m2.melts : m2.melts[p].state = "pending"}
    BY <1>2, <1>4, <1>5 DEF QuotesFit
  <2> QED
    BY <1>1, <1>2, <1>4, <2>1 DEF QuotesFit
<1>11. FlightsFit(m2)
  <2>1. \A p \in DOMAIN m2.inflight : FlightFits(m2.inflight[p], m2.spent, m2.signed)
    BY <1>1, <1>2, <1>5, <1>6 DEF FlightsFit
  <2>2. \A p1, p2 \in DOMAIN m2.inflight : p1 # p2 => Apart(m2.inflight[p1], m2.inflight[p2])
    <3> SUFFICES ASSUME NEW p1 \in DOMAIN m2.inflight, NEW p2 \in DOMAIN m2.inflight, p1 # p2
                 PROVE  Apart(m2.inflight[p1], m2.inflight[p2])
      OBVIOUS
    <3>1. CASE p1 = q
      BY <1>5, <1>6, <3>1 DEF Apart
    <3>2. CASE p2 = q
      BY <1>5, <1>6, <3>2 DEF Apart
    <3>3. CASE p1 # q /\ p2 # q
      BY <1>2, <1>5, <3>3 DEF FlightsFit
    <3> QED
      BY <3>1, <3>2, <3>3
  <2> QED
    BY <1>1, <1>2, <2>1, <2>2 DEF FlightsFit
<1>12. Accounted(m2)
  BY <1>1 DEF Kept, Accounted
<1> QED
  BY <1>7, <1>8, <1>9, <1>10, <1>11, <1>12 DEF Kept

(* A melt spends its inputs; one of the mint's own is paid at once, another
   departs with its blanks. *)
LEMMA MeltKept ==
  ASSUME NEW m, Kept(m), NEW r, Proper(m, r), r.op = "melt"
  PROVE  Kept(PostMelt(m, r).mint)
<1> DEFINE q == r.quote
           mq == m.melts[q]
           fee == ComputeFee(m, r.inputs)
           claimed == AmountTotal(r.inputs)
           need == mq.amount + mq.reserve
           c1 == When(r.method = "self" /\ ~m.self, "self-method-disabled")
           c2 == When(r.method # mq.method, "method-mismatch")
           c3 == When(mq.state = "pending", "quote-pending")
           c4 == When(mq.state = "paid", "quote-already-paid")
           c5 == When(Len(r.inputs) > MaxBatch \/ Len(r.outputs) > MaxBatch, "batch-too-large")
           c6 == When(fee > claimed, "fee-exceeds-inputs")
           c7 == When(claimed - fee < need, "insufficient-inputs")
           c8 == OutputError(m, r.outputs, TRUE)
           c9 == VerifyProofs(m, r.inputs)
           why == First(<<c1, c2, c3, c4, c5, c6, c7, c8, c9>>)
           excess == (claimed - fee) - need
           m1 == [m EXCEPT !.spent = @ \cup Secrets(r.inputs), !.redeemed = @ + claimed]
           sigs == SignChange(m, r.outputs, excess)
           paid == [mq EXCEPT !.state = "paid"]
           started == m.attempts + 1
           e == [secrets |-> Secrets(r.inputs), total |-> claimed, blanks |-> r.outputs,
                 excess |-> excess, started |-> started]
           m2 == [Signed(m1, sigs) EXCEPT !.melts = Put(@, q, paid),
                                          !.change = IF sigs = <<>> THEN @ ELSE Put(@, q, sigs)]
           m3 == [m1 EXCEPT !.melts[q].state = "pending", !.attempts = started,
                            !.inflight = Put(@, q, e)]
<1>1. CASE q \notin DOMAIN m.melts \/ why # Pass
  <2>1. PostMelt(m, r).mint = m
    BY <1>1 DEF PostMelt, Refuse, Reply
  <2> QED
    BY <2>1
<1>2. CASE q \in DOMAIN m.melts /\ why = Pass
  <2>1. c3 = Pass /\ c4 = Pass /\ c8 = Pass /\ c9 = Pass
    <3> HIDE DEF c1, c2, c3, c4, c5, c6, c7, c8, c9
    <3> QED
      BY <1>2, NoneNine
  <2>2. mq.state \notin {"pending", "paid"}
    BY <2>1 DEF When, Pass
  <2>3. AreProofs(r.inputs) /\ AreOutputs(r.outputs) /\ Secrets(r.outputs) \cap Held(m) = {}
    BY DEF Proper
  <2>4. OneSigns(m) /\ SignedFit(m) /\ QuotesFit(m) /\ FlightsFit(m) /\ Shaped(m)
    BY DEF Kept
  <2>5. /\ \A i, j \in DOMAIN r.outputs : r.outputs[i].b = r.outputs[j].b => i = j
        /\ Secrets(r.outputs) \cap DOMAIN m.signed = {}
    <3>1. /\ \A i \in DOMAIN r.outputs : r.outputs[i].b \notin DOMAIN m.signed
          /\ \A i, j \in DOMAIN r.outputs : r.outputs[i].b = r.outputs[j].b => i = j
      BY <2>1, <2>3, OutputsPass
    <3> QED
      BY <3>1 DEF Secrets
  <2>6. /\ Secrets(r.inputs) \cap m.spent = {} /\ Secrets(r.inputs) \subseteq DOMAIN m.signed
        /\ SumFunctionOnSet(Worth(m.signed), Secrets(r.inputs)) = claimed
    BY <2>1, <2>3, <2>4, InputsWorth
  <2>7. Kept(m1)
    BY <2>1, <2>3, SpendKept
  <2>8. q \in DOMAIN m.melts /\ q \notin DOMAIN m.inflight
        /\ DOMAIN mq = {"amount", "reserve", "method", "request", "state"}
    BY <1>2, <2>2, <2>4 DEF QuotesFit, Shaped
  <2>9. /\ m1.keysets = m.keysets /\ m1.signed = m.signed /\ m1.given = m.given
        /\ m1.melts = m.melts /\ m1.inflight = m.inflight /\ m1.change = m.change
        /\ m1.spent = m.spent \cup Secrets(r.inputs) /\ DOMAIN m1 = DOMAIN m
    <3> HIDE DEF claimed
    <3> QED
      BY <2>4, Fields
  <2>10. CASE r.method = "self"
    <3>1. PostMelt(m, r).mint = m2
      BY <1>2, <2>10 DEF PostMelt, Reply
    <3>2. Unsigned(m, sigs) /\ Secrets(sigs) \subseteq Secrets(r.outputs)
      <4> HIDE DEF excess
      <4> QED
        BY <2>3, <2>4, <2>5, ChangeUnsigned
    <3> HIDE DEF sigs
    <3>3. Unsigned(m1, sigs)
      BY <2>9, <3>2 DEF Unsigned
    <3>4. paid.state = "paid" /\ DOMAIN paid = DOMAIN mq
      BY <2>8
    <3> HIDE DEF m1, paid
    <3>5. /\ But(m1, m2, {"signed", "given", "change", "melts", "inflight"})
          /\ m2.signed = Sign(m1.signed, sigs) /\ m2.given = m1.given \cup Range(sigs)
          /\ m2.change = IF sigs = <<>> THEN m1.change ELSE Put(m1.change, q, sigs)
          /\ m2.melts = Put(m1.melts, q, paid) /\ m2.inflight = m1.inflight
      BY <2>4, <2>9, Fields DEF But, Signed
    <3> HIDE DEF m2
    <3>6. /\ DOMAIN m2.melts = DOMAIN m1.melts
          /\ \A p \in DOMAIN m1.melts : p # q => m2.melts[p] = m1.melts[p]
          /\ m2.melts[q] = paid
      BY <2>8, <2>9, <3>5 DEF Put
    <3>7. PaidWith(m1, m2, q, sigs)
      BY <2>8, <2>9, <3>4, <3>5, <3>6 DEF PaidWith
    <3>8. \A p \in DOMAIN m2.inflight : Secrets(m1.inflight[p].blanks) \cap Secrets(sigs) = {}
      BY <2>3, <2>9, <3>2, <3>5 DEF Held
    <3>9. q \in DOMAIN m1.melts /\ m1.melts[q].state # "paid"
      BY <2>2, <2>8, <2>9
    <3>10. Kept(m2)
      BY <2>7, <3>3, <3>7, <3>8, <3>9, PaidKept
    <3> QED
      BY <3>1, <3>10
  <2>11. CASE r.method # "self"
    <3>1. PostMelt(m, r).mint = m3
      BY <1>2, <2>11 DEF PostMelt, Ask
    <3>2. /\ e.secrets = Secrets(r.inputs) /\ e.total = claimed /\ e.blanks = r.outputs
      OBVIOUS
    <3> HIDE DEF e, m1
    <3>3. /\ But(m1, m3, {"melts", "inflight", "attempts"})
          /\ m3.melts = [m1.melts EXCEPT ![q].state = "pending"]
          /\ m3.inflight = Put(m1.inflight, q, e)
      BY <2>4, <2>9, Fields DEF But
    <3> HIDE DEF m3
    <3>4. FlightFits(e, m1.spent, m1.signed)
      BY <2>3, <2>5, <2>6, <2>9, <3>2 DEF FlightFits
    <3>5. ASSUME NEW p \in DOMAIN m1.inflight
          PROVE  Apart(m1.inflight[p], e)
      <4>1. p \in DOMAIN m.inflight /\ m1.inflight[p] = m.inflight[p]
        BY <2>9
      <4>2. m.inflight[p].secrets \subseteq m.spent
        BY <2>4, <4>1 DEF FlightsFit, FlightFits
      <4>3. Secrets(m.inflight[p].blanks) \subseteq Held(m)
        BY <4>1 DEF Held
      <4> QED
        BY <2>3, <2>6, <3>2, <4>1, <4>2, <4>3 DEF Apart
    <3>6. q \in DOMAIN m1.melts /\ m1.melts[q].state \notin {"pending", "paid"}
      BY <2>2, <2>8, <2>9
    <3>7. Kept(m3)
      BY <2>7, <3>3, <3>4, <3>5, <3>6, DepartKept
    <3> QED
      BY <3>1, <3>7
  <2> QED
    BY <2>10, <2>11
<1> QED
  BY <1>1, <1>2

(* A melt that is pending is in flight. *)
LEMMA PendingFlies ==
  ASSUME NEW m, Kept(m), NEW q \in DOMAIN m.melts, m.melts[q].state = "pending"
  PROVE  q \in DOMAIN m.inflight
BY DEF Kept, QuotesFit

(* The answer of a pay settles a melt, rolls it back, or changes nothing. *)
LEMMA MeltPaidKept ==
  ASSUME NEW m, Kept(m), NEW c, NEW a
  PROVE  Kept(MeltPaid(m, c, a).mint)
<1> DEFINE q == c.quote
           pending == m.melts[q].state = "pending"
           back == /\ m.ln = "lnbits" /\ a.status = 400 /\ ~a.hash
                   /\ pending /\ ThisAttempt(m, c.att, q) /\ q \in DOMAIN m.inflight
           settled == (a.status \in 200..299 /\ a.preimage) /\ pending
           m2 == IF back THEN RollbackMelt(m, q) ELSE IF settled THEN SettleMelt(m, q, a.fee) ELSE m
<1>1. CASE q \notin DOMAIN m.melts
  BY <1>1 DEF MeltPaid, Refuse, Reply
<1>2. CASE q \in DOMAIN m.melts
  <2>1. MeltPaid(m, c, a).mint = m2
    BY <1>2 DEF MeltPaid, Reply
  <2>2. CASE back
    <3>1. m2 = RollbackMelt(m, q) /\ q \in DOMAIN m.inflight
      BY <2>2
    <3> HIDE DEF m2
    <3> QED
      BY <2>1, <3>1, RollbackKept
  <2>3. CASE ~back /\ settled
    <3>1. m2 = SettleMelt(m, q, a.fee)
      BY <2>3
    <3>2. q \in DOMAIN m.inflight
      BY <1>2, <2>3, PendingFlies
    <3> HIDE DEF m2
    <3> QED
      BY <2>1, <3>1, <3>2, SettleKept
  <2>4. CASE ~back /\ ~settled
    <3>1. m2 = m
      BY <2>4
    <3> QED
      BY <2>1, <3>1
  <2> QED
    BY <2>2, <2>3, <2>4
<1> QED
  BY <1>1, <1>2

(* A status answer settles a melt, or changes nothing. *)
LEMMA MeltCheckedKept ==
  ASSUME NEW m, Kept(m), NEW c, NEW a
  PROVE  Kept(MeltChecked(m, c, a).mint)
<1> DEFINE q == c.quote
           settled == m.melts[q].state = "pending" /\ m.ln = "lnbits" /\ a.status = 200 /\ a.paid
           m2 == IF settled THEN SettleMelt(m, q, a.fee) ELSE m
<1>1. CASE q \notin DOMAIN m.melts
  BY <1>1 DEF MeltChecked, Refuse, Reply
<1>2. CASE q \in DOMAIN m.melts
  <2>1. MeltChecked(m, c, a).mint = m2
    BY <1>2 DEF MeltChecked, Reply
  <2>2. CASE settled
    <3>1. m2 = SettleMelt(m, q, a.fee)
      BY <2>2
    <3>2. q \in DOMAIN m.inflight
      BY <1>2, <2>2, PendingFlies
    <3> HIDE DEF m2
    <3> QED
      BY <2>1, <3>1, <3>2, SettleKept
  <2>3. CASE ~settled
    <3>1. m2 = m
      BY <2>3
    <3> QED
      BY <2>1, <3>1
  <2> QED
    BY <2>2, <2>3
<1> QED
  BY <1>1, <1>2

(* An abort asks first, or is forced. *)
LEMMA MeltAbortKept ==
  ASSUME NEW m, Kept(m), NEW r
  PROVE  Kept(MeltAbort(m, r).mint)
<1> DEFINE forced == /\ r.quote # Blank /\ r.quote \in DOMAIN m.melts
                     /\ m.melts[r.quote].state = "pending" /\ ~(m.ln # "none") /\ ~(~r.force)
<1>1. CASE forced
  <2>1. MeltAbort(m, r).mint = RollbackMelt(m, r.quote)
    BY <1>1 DEF MeltAbort, Aborted, Reply
  <2>2. r.quote \in DOMAIN m.inflight
    BY <1>1, PendingFlies
  <2> QED
    BY <2>1, <2>2, RollbackKept
<1>2. CASE ~forced
  <2>1. MeltAbort(m, r).mint = m
    BY <1>2 DEF MeltAbort, Aborted, Reply, Refuse, Ask
  <2> QED
    BY <2>1
<1> QED
  BY <1>1, <1>2

(* The answer to an abort settles the melt, rolls it back, or changes
   nothing. *)
LEMMA LnMeltAbortKept ==
  ASSUME NEW m, Kept(m), NEW c, NEW a
  PROVE  Kept(LnMeltAbort(m, c, a).mint)
<1> DEFINE q == c.quote
           pending == q \in DOMAIN m.melts /\ ~(m.melts[q].state # "pending")
           paid == m.ln = "lnbits" /\ a.status = 200 /\ a.paid
           back == ~paid /\ ~(~c.force) /\ ~(~ThisAttempt(m, c.att, q))
           m2 == LnMeltAbort(m, c, a).mint
<1>1. CASE pending /\ paid
  <2>1. m2 = SettleMelt(m, q, a.fee)
    BY <1>1 DEF LnMeltAbort, Aborted, Reply
  <2>2. q \in DOMAIN m.inflight
    BY <1>1, PendingFlies
  <2> HIDE DEF m2
  <2>3. Kept(m2)
    BY <2>1, <2>2, SettleKept
  <2> QED
    BY <2>3 DEF m2
<1>2. CASE pending /\ back
  <2>1. m2 = RollbackMelt(m, q)
    BY <1>2 DEF LnMeltAbort, Aborted, Reply
  <2>2. q \in DOMAIN m.inflight
    BY <1>2, PendingFlies
  <2> HIDE DEF m2
  <2>3. Kept(m2)
    BY <2>1, <2>2, RollbackKept
  <2> QED
    BY <2>3 DEF m2
<1>3. CASE ~(pending /\ paid) /\ ~(pending /\ back)
  <2>1. m2 = m
    BY <1>3 DEF LnMeltAbort, Aborted, Reply, Refuse
  <2> QED
    BY <2>1
<1> QED
  BY <1>1, <1>2, <1>3

(* A new quote of a melt is neither pending nor paid. *)
LEMMA MeltQuoteMore ==
  ASSUME NEW m, Kept(m), NEW m2, NEW q, q \notin DOMAIN m.melts, NEW mq,
         DOMAIN mq = {"amount", "reserve", "method", "request", "state"}, mq.state = "unpaid",
         m2 = [m EXCEPT !.melts = Put(@, q, mq)]
  PROVE  Kept(m2)
<1>1. But(m, m2, {"melts"}) /\ m2.melts = Put(m.melts, q, mq)
  BY Fields DEF But, Kept
<1>2. /\ DOMAIN m2.melts = DOMAIN m.melts \cup {q} /\ m2.melts[q] = mq
      /\ \A p \in DOMAIN m.melts : m2.melts[p] = m.melts[p]
  BY <1>1 DEF Put
<1>3. \A p \in DOMAIN m.melts : DOMAIN m.melts[p] = {"amount", "reserve", "method", "request", "state"}
  BY DEF Kept, Shaped
<1>4. \A p \in DOMAIN m2.melts : DOMAIN m2.melts[p] = {"amount", "reserve", "method", "request", "state"}
  BY <1>2, <1>3
<1>5. {p \in DOMAIN m2.melts : m2.melts[p].state = "pending"}
        = {p \in DOMAIN m.melts : m.melts[p].state = "pending"}
  BY <1>2
<1>6. \A p \in DOMAIN m.melts : m.melts[p].state = "paid" =>
        p \in DOMAIN m2.melts /\ m2.melts[p].state = "paid"
  BY <1>2
<1> QED
  BY <1>1, <1>4, <1>5, <1>6, MeltQuotesKept

(* A melt is quoted at once, or when Lightning told its amount. *)
LEMMA PostMeltQuoteKept ==
  ASSUME NEW m, Kept(m), NEW r, Proper(m, r), r.op = "melt-quote"
  PROVE  Kept(PostMeltQuote(m, r).mint)
<1> DEFINE mq == MeltQuote(r.amount, 0, "self", SelfMelt, "unpaid")
           m2 == [m EXCEPT !.melts = Put(@, r.quote, mq)]
<1>1. PostMeltQuote(m, r).mint = m \/ PostMeltQuote(m, r).mint = m2
  BY DEF PostMeltQuote, Refuse, Reply, Ask
<1>2. r.quote \notin DOMAIN m.melts
  BY DEF Proper
<1>3. DOMAIN mq = {"amount", "reserve", "method", "request", "state"} /\ mq.state = "unpaid"
  BY DEF MeltQuote
<1> HIDE DEF mq
<1>4. Kept(m2)
  BY <1>2, <1>3, MeltQuoteMore
<1> QED
  BY <1>1, <1>4

(* Lightning told the amount of the invoice. *)
LEMMA MeltQuotedKept ==
  ASSUME NEW m, Kept(m), NEW c, NEW a, Heard(m, c), c.kind = "melt-quote-create"
  PROVE  Kept(MeltQuoted(m, c, a).mint)
<1> DEFINE amount == CeilDiv(a.msat, 1000)
           mq == MeltQuote(amount, MeltFeeReserve(amount, m.bps, m.floor), "bolt11", c.invoice, "unpaid")
           m2 == [m EXCEPT !.melts = Put(@, c.quote, mq)]
<1>1. MeltQuoted(m, c, a).mint = m \/ MeltQuoted(m, c, a).mint = m2
  BY DEF MeltQuoted, Refuse, Reply
<1>2. c.quote \notin DOMAIN m.melts
  BY DEF Heard
<1>3. DOMAIN mq = {"amount", "reserve", "method", "request", "state"} /\ mq.state = "unpaid"
  BY DEF MeltQuote
<1> HIDE DEF mq
<1>4. Kept(m2)
  BY <1>2, <1>3, MeltQuoteMore
<1> QED
  BY <1>1, <1>4

-----------------------------------------------------------------------------
(* Deposits.                                                                 *)

(* What the invariant says of deposits and what was issued. *)
LEMMA KeptDeposits ==
  ASSUME NEW m, Kept(m)
  PROVE  /\ DepositsFit(m.mints) /\ MintedSum(m.mints) \in Nat /\ MintedSum(m.mints) <= m.issued
         /\ m.issued \in Nat /\ m.revoked \in Nat /\ ~m.clamped
<1>1. DepositsFit(m.mints)
  BY DEF Kept, Shaped, DepositsFit
<1> QED
  BY <1>1, MintedNat DEF Kept, Shaped, Accounted, MintedSum

(* The record of a deposit is made or replaced: what was minted stays within
   what was issued. *)
LEMMA DepositPut ==
  ASSUME NEW m, Kept(m), NEW q, NEW mq,
         DOMAIN mq = {"amount", "self", "state", "invoice"}, mq.amount \in Nat,
         mq.state = "issued" => /\ q \in DOMAIN m.mints /\ m.mints[q].amount = mq.amount
                                /\ m.mints[q].state = "issued",
         NEW m2, m2 = [m EXCEPT !.mints = Put(@, q, mq)]
  PROVE  Kept(m2)
<1>1. /\ But(m, m2, {"mints", "issued", "revoked", "clamped"}) /\ m2.mints = Put(m.mints, q, mq)
      /\ m2.issued = m.issued /\ m2.revoked = m.revoked /\ m2.clamped = m.clamped
  BY Fields DEF But, Kept
<1>2. /\ DepositsFit(m.mints) /\ MintedSum(m.mints) \in Nat /\ MintedSum(m.mints) <= m.issued
      /\ m.issued \in Nat /\ m.revoked \in Nat /\ ~m.clamped
  BY KeptDeposits
<1>3. DepositsFit(m2.mints) /\ MintedSum(m2.mints) <= MintedSum(m.mints)
  BY <1>1, <1>2, MintedPut
<1>4. MintedSum(m2.mints) \in Nat
  BY <1>3, MintedNat
<1>5. ~m2.clamped /\ m2.issued \in Nat /\ m2.revoked \in Nat
      /\ m2.issued + m2.revoked = m.issued + m.revoked
  BY <1>1, <1>2
<1>6. MintedSum(m2.mints) <= m2.issued
  BY <1>1, <1>2, <1>3, <1>4
<1> QED
  BY <1>1, <1>3, <1>5, <1>6, DepositsKept

(* The record of a deposit is dropped; if it was minted, what it was worth is
   taken off what was issued. *)
LEMMA DepositDel ==
  ASSUME NEW m, Kept(m), NEW q \in DOMAIN m.mints, NEW m2,
         But(m, m2, {"mints", "issued", "revoked", "clamped"}), m2.mints = Del(m.mints, q),
         \/ m2.issued = m.issued /\ m2.revoked = m.revoked /\ m2.clamped = m.clamped
         \/ LET dec == IF m.mints[q].state = "issued" THEN m.mints[q].amount ELSE 0
            IN /\ m2.issued = m.issued - Min({dec, m.issued}) /\ m2.revoked = m.revoked + dec
               /\ m2.clamped = (m.clamped \/ dec > m.issued)
  PROVE  Kept(m2)
<1> DEFINE dec == IF m.mints[q].state = "issued" THEN m.mints[q].amount ELSE 0
<1>1. /\ DepositsFit(m.mints) /\ MintedSum(m.mints) \in Nat /\ MintedSum(m.mints) <= m.issued
      /\ m.issued \in Nat /\ m.revoked \in Nat /\ ~m.clamped
  BY KeptDeposits
<1>2. /\ DepositsFit(m2.mints) /\ MintedSum(m2.mints) \in Nat
      /\ MintedSum(m.mints) = MintedSum(m2.mints) + dec
  BY <1>1, MintedDel
<1>3. dec \in Nat
  BY <1>1 DEF DepositsFit
<1>4. CASE m2.issued = m.issued /\ m2.revoked = m.revoked /\ m2.clamped = m.clamped
  <2> HIDE DEF dec
  <2>1. ~m2.clamped
    BY <1>1, <1>4
  <2>2. /\ m2.issued \in Nat /\ m2.revoked \in Nat
        /\ m2.issued + m2.revoked = m.issued + m.revoked /\ MintedSum(m2.mints) <= m2.issued
    BY <1>1, <1>2, <1>3, <1>4
  <2> QED
    BY <1>2, <2>1, <2>2, DepositsKept
<1>5. CASE /\ m2.issued = m.issued - Min({dec, m.issued}) /\ m2.revoked = m.revoked + dec
           /\ m2.clamped = (m.clamped \/ dec > m.issued)
  <2> HIDE DEF dec
  <2>1. dec <= m.issued
    BY <1>1, <1>2, <1>3
  <2>2. Min({dec, m.issued}) = dec
    BY <1>1, <1>3, <2>1 DEF Min
  <2>3. ~(dec > m.issued)
    BY <1>1, <1>3, <2>1
  <2>4. ~m2.clamped
    BY <1>1, <1>5, <2>3, Zenon
  <2>5. /\ m2.issued \in Nat /\ m2.revoked \in Nat
        /\ m2.issued + m2.revoked = m.issued + m.revoked /\ MintedSum(m2.mints) <= m2.issued
    BY <1>1, <1>2, <1>3, <1>5, <2>1, <2>2
  <2> QED
    BY <1>2, <2>4, <2>5, DepositsKept
<1> QED
  BY <1>4, <1>5

(* A deposit is quoted: paid at once from the mint's own, or unpaid. *)
LEMMA PostMintQuoteKept ==
  ASSUME NEW m, Kept(m), NEW r, Proper(m, r), r.op = "mint-quote"
  PROVE  Kept(PostMintQuote(m, r).mint)
<1> DEFINE mq == MintQuote(r.amount, r.method = "self",
                           IF r.method = "self" THEN "paid" ELSE "unpaid", NoInvoice)
           m2 == [m EXCEPT !.mints = Put(@, r.quote, mq)]
<1>1. PostMintQuote(m, r).mint = m \/ PostMintQuote(m, r).mint = m2
  BY DEF PostMintQuote, Refuse, Reply, Ask
<1>2. /\ DOMAIN mq = {"amount", "self", "state", "invoice"} /\ mq.amount \in Nat
      /\ mq.state # "issued"
  BY DEF MintQuote, Proper
<1> HIDE DEF mq
<1>3. Kept(m2)
  BY <1>2, DepositPut
<1> QED
  BY <1>1, <1>3

(* The invoice of a deposit arrives, or no quote is left without one. *)
LEMMA MintCreatedKept ==
  ASSUME NEW m, Kept(m), NEW c, NEW a
  PROVE  Kept(MintCreated(m, c, a).mint)
<1> DEFINE q == c.quote
           mq == [m.mints[q] EXCEPT !.invoice = a.invoice]
           m2 == [m EXCEPT !.mints = Put(@, q, mq)]
           m3 == [m EXCEPT !.mints = Del(@, q)]
<1>1. CASE q \notin DOMAIN m.mints
  BY <1>1 DEF MintCreated, Refuse, Reply
<1>2. CASE q \in DOMAIN m.mints
  <2>1. MintCreated(m, c, a).mint = m2 \/ MintCreated(m, c, a).mint = m3
    BY <1>2 DEF MintCreated, Refuse, Reply
  <2>2. DOMAIN m.mints[q] = {"amount", "self", "state", "invoice"} /\ m.mints[q].amount \in Nat
    BY <1>2 DEF Kept, Shaped
  <2>3. /\ DOMAIN mq = {"amount", "self", "state", "invoice"} /\ mq.amount = m.mints[q].amount
        /\ mq.state = m.mints[q].state
    BY <2>2
  <2> HIDE DEF mq
  <2>4. Kept(m2)
    BY <1>2, <2>2, <2>3, DepositPut
  <2>5. /\ But(m, m3, {"mints", "issued", "revoked", "clamped"}) /\ m3.mints = Del(m.mints, q)
        /\ m3.issued = m.issued /\ m3.revoked = m.revoked /\ m3.clamped = m.clamped
    BY Fields DEF But, Kept
  <2> HIDE DEF m2, m3
  <2>6. Kept(m3)
    BY <1>2, <2>5, DepositDel
  <2> QED
    BY <2>1, <2>4, <2>6
<1> QED
  BY <1>1, <1>2

(* A deposit is found to be paid, or stays as it is. *)
LEMMA MintCheckedKept ==
  ASSUME NEW m, Kept(m), NEW c, NEW a
  PROVE  Kept(MintChecked(m, c, a).mint)
<1> DEFINE q == c.quote
           mq == m.mints[q]
           paid == [mq EXCEPT !.state = "paid"]
           m2 == [m EXCEPT !.mints = Put(@, q, mq)]
           m3 == [m EXCEPT !.mints = Put(@, q, paid)]
<1>1. CASE q \notin DOMAIN m.mints
  BY <1>1 DEF MintChecked, Refuse, Reply
<1>2. CASE q \in DOMAIN m.mints
  <2>1. MintChecked(m, c, a).mint = m2 \/ MintChecked(m, c, a).mint = m3
    BY <1>2 DEF MintChecked, Reply
  <2>2. DOMAIN mq = {"amount", "self", "state", "invoice"} /\ mq.amount \in Nat
    BY <1>2 DEF Kept, Shaped
  <2>3. /\ DOMAIN paid = {"amount", "self", "state", "invoice"} /\ paid.amount = mq.amount
        /\ paid.state = "paid"
    BY <2>2
  <2> HIDE DEF paid
  <2>4. Kept(m2)
    BY <1>2, <2>2, DepositPut
  <2>5. Kept(m3)
    BY <2>2, <2>3, DepositPut
  <2> QED
    BY <2>1, <2>4, <2>5
<1> QED
  BY <1>1, <1>2

-----------------------------------------------------------------------------
(* The operator.                                                             *)

(* A deposit is revoked. *)
LEMMA QuoteRevokeKept ==
  ASSUME NEW m, Kept(m), NEW r
  PROVE  Kept(QuoteRevoke(m, r).mint)
<1> DEFINE q == r.quote
           dec == IF m.mints[q].state = "issued" THEN m.mints[q].amount ELSE 0
           m2 == [m EXCEPT !.issued = @ - Min({dec, @}), !.revoked = @ + dec,
                           !.clamped = @ \/ dec > m.issued, !.mints = Del(@, q)]
<1>1. CASE q \notin DOMAIN m.mints
  BY <1>1 DEF QuoteRevoke, Refuse, Reply
<1>2. CASE q \in DOMAIN m.mints
  <2>1. QuoteRevoke(m, r).mint = m2
    BY <1>2 DEF QuoteRevoke, Reply
  <2>2. But(m, m2, {"mints", "issued", "revoked", "clamped"}) /\ m2.mints = Del(m.mints, q)
    <3> HIDE DEF dec
    <3> QED
      BY Fields DEF But, Kept
  <2>3. /\ m2.issued = m.issued - Min({dec, m.issued}) /\ m2.revoked = m.revoked + dec
        /\ m2.clamped = (m.clamped \/ dec > m.issued)
    <3> HIDE DEF dec
    <3> QED
      BY Fields DEF Kept
  <2> HIDE DEF m2
  <2>4. Kept(m2)
    BY <1>2, <2>2, <2>3, DepositDel
  <2> QED
    BY <2>1, <2>4
<1> QED
  BY <1>1, <1>2

(* A quote is deleted while nothing rests on it. *)
LEMMA QuoteDeleteKept ==
  ASSUME NEW m, Kept(m), NEW r
  PROVE  Kept(QuoteDelete(m, r).mint)
<1> DEFINE q == r.quote
           m2 == [m EXCEPT !.mints = Del(@, q)]
           m3 == [m EXCEPT !.melts = Del(@, q)]
           d1 == When(m.melts[q].state = "paid", "cannot-delete-paid-melt")
           d2 == When(m.melts[q].state = "pending" \/ q \in DOMAIN m.inflight,
                      "cannot-delete-pending-melt")
<1>1. CASE QuoteDelete(m, r).mint = m
  BY <1>1
<1>2. CASE r.type = "mint" /\ QuoteDelete(m, r).mint # m
  <2>1. q \in DOMAIN m.mints /\ QuoteDelete(m, r).mint = m2
    BY <1>2 DEF QuoteDelete, Refuse, Reply
  <2>2. /\ But(m, m2, {"mints", "issued", "revoked", "clamped"}) /\ m2.mints = Del(m.mints, q)
        /\ m2.issued = m.issued /\ m2.revoked = m.revoked /\ m2.clamped = m.clamped
    BY Fields DEF But, Kept
  <2> HIDE DEF m2
  <2>3. Kept(m2)
    BY <2>1, <2>2, DepositDel
  <2> QED
    BY <2>1, <2>3
<1>3. CASE r.type # "mint" /\ QuoteDelete(m, r).mint # m
  <2>1. q \in DOMAIN m.melts /\ QuoteDelete(m, r).mint = m3 /\ First(<<d1, d2>>) = Pass
    BY <1>3 DEF QuoteDelete, Refuse, Reply
  <2>2. d1 = Pass /\ d2 = Pass
    <3> HIDE DEF d1, d2
    <3> QED
      BY <2>1, NoneTwo
  <2>3. m.melts[q].state # "paid" /\ m.melts[q].state # "pending"
    BY <2>2 DEF When, Pass
  <2>4. But(m, m3, {"melts"}) /\ m3.melts = Del(m.melts, q)
    BY Fields DEF But, Kept
  <2> HIDE DEF m3
  <2>5. /\ DOMAIN m3.melts = DOMAIN m.melts \ {q}
        /\ \A p \in DOMAIN m3.melts : m3.melts[p] = m.melts[p]
    BY <2>4 DEF Del
  <2>6. \A p \in DOMAIN m.melts : DOMAIN m.melts[p] = {"amount", "reserve", "method", "request", "state"}
    BY DEF Kept, Shaped
  <2>7. \A p \in DOMAIN m3.melts : DOMAIN m3.melts[p] = {"amount", "reserve", "method", "request", "state"}
    BY <2>5, <2>6
  <2>8. {p \in DOMAIN m3.melts : m3.melts[p].state = "pending"}
          = {p \in DOMAIN m.melts : m.melts[p].state = "pending"}
    BY <2>3, <2>5
  <2>9. \A p \in DOMAIN m.melts : m.melts[p].state = "paid" =>
          p \in DOMAIN m3.melts /\ m3.melts[p].state = "paid"
    BY <2>3, <2>5
  <2>10. Kept(m3)
    BY <2>4, <2>7, <2>8, <2>9, MeltQuotesKept
  <2> QED
    BY <2>1, <2>10
<1> QED
  BY <1>1, <1>2, <1>3

(* The operator's settings. *)
LEMMA UpdateSettingsKept ==
  ASSUME NEW m, Kept(m), NEW r
  PROVE  Kept(UpdateSettings(m, r).mint)
<1> DEFINE set(field) == IF field \in DOMAIN r.set THEN r.set[field] ELSE m[field]
           m2 == [m EXCEPT !.self = set("self"), !.bps = set("bps"), !.floor = set("floor")]
<1>1. UpdateSettings(m, r).mint = m \/ UpdateSettings(m, r).mint = m2
  BY DEF UpdateSettings, Refuse, Reply
<1>2. But(m, m2, {"self", "ln", "bps", "floor", "now", "attempts"}) /\ m2.now = m.now
  <2> HIDE DEF set
  <2> QED
    BY Fields DEF But, Kept
<1> HIDE DEF m2
<1>3. Kept(m2)
  <2>1. m.now \in Nat
    BY DEF Kept, Shaped
  <2> QED
    BY <1>2, <2>1, SettingsKept
<1> QED
  BY <1>1, <1>3

(* The Lightning backend. *)
LEMMA LnConfigureKept ==
  ASSUME NEW m, Kept(m), NEW r
  PROVE  Kept(LnConfigure(m, r).mint)
<1> DEFINE m2 == [m EXCEPT !.ln = r.ln]
<1>1. LnConfigure(m, r).mint = m2
  BY DEF LnConfigure, Reply
<1>2. But(m, m2, {"self", "ln", "bps", "floor", "now", "attempts"}) /\ m2.now = m.now
  BY Fields DEF But, Kept
<1>3. m.now \in Nat
  BY DEF Kept, Shaped
<1> HIDE DEF m2
<1> QED
  BY <1>1, <1>2, <1>3, SettingsKept

(* Time passes. *)
LEMMA TickKept ==
  ASSUME NEW m, Kept(m), NEW m2, m2 = [m EXCEPT !.now = @ + 1]
  PROVE  Kept(m2)
<1>1. But(m, m2, {"self", "ln", "bps", "floor", "now", "attempts"}) /\ m2.now = m.now + 1
  BY Fields DEF But, Kept
<1>2. m.now \in Nat
  BY DEF Kept, Shaped
<1>3. m2.now \in Nat
  BY <1>1, <1>2
<1> QED
  BY <1>1, <1>3, SettingsKept

(* Another keyset signs. *)
LEMMA ActivateKept ==
  ASSUME NEW m, Kept(m), NEW r
  PROVE  Kept(KeysetActivate(m, r).mint)
<1> DEFINE ks == Activated(m, r.id)
           m2 == [m EXCEPT !.keysets = ks, !.active = r.id]
<1>1. CASE r.id \notin DOMAIN m.keysets
  BY <1>1 DEF KeysetActivate, Refuse, Reply
<1>2. CASE r.id \in DOMAIN m.keysets
  <2>1. KeysetActivate(m, r).mint = m2
    BY <1>2 DEF KeysetActivate, Reply
  <2>2. OneSigns(m)
    BY DEF Kept
  <2>3. DOMAIN ks = DOMAIN m.keysets
    BY DEF Activated
  <2>4. ASSUME NEW k \in DOMAIN ks
        PROVE  /\ DOMAIN ks[k] = {"fee", "active", "top"} /\ ks[k].top = TopBit /\ ks[k].fee \in Nat
               /\ ks[k].active <=> k = r.id
    <3>1. /\ DOMAIN m.keysets[k] = {"fee", "active", "top"} /\ m.keysets[k].top = TopBit
          /\ m.keysets[k].fee \in Nat
      BY <2>2, <2>3 DEF OneSigns
    <3>2. m.keysets[k].active => k = m.active
      BY <2>2, <2>3 DEF OneSigns
    <3>3. /\ DOMAIN ks[k] = {"fee", "active", "top"} /\ ks[k].top = m.keysets[k].top
          /\ ks[k].fee = m.keysets[k].fee
          /\ ks[k].active = IF k = r.id THEN TRUE
                            ELSE IF k = m.active THEN FALSE ELSE m.keysets[k].active
      BY <2>3, <3>1 DEF Activated
    <3> HIDE DEF ks
    <3>4. ks[k].active <=> k = r.id
      BY <3>2, <3>3
    <3> QED
      BY <3>1, <3>3, <3>4
  <2> HIDE DEF ks
  <2>5. m2.keysets = ks /\ m2.active = r.id /\ But(m, m2, {"keysets", "active"})
    BY Fields DEF But, Kept
  <2> HIDE DEF m2
  <2>6. {k \in DOMAIN ks : ks[k].active} = {r.id}
    BY <1>2, <2>3, <2>4
  <2>7. OneSigns(m2)
    BY <2>4, <2>5, <2>6 DEF OneSigns
  <2>8. DOMAIN m.keysets \subseteq DOMAIN m2.keysets
    BY <2>3, <2>5
  <2> QED
    BY <2>1, <2>5, <2>7, <2>8, KeysetsKept
<1> QED
  BY <1>1, <1>2

(* One that did not sign goes on not signing. *)
LEMMA DeactivateKept ==
  ASSUME NEW m, Kept(m), NEW r
  PROVE  Kept(KeysetDeactivate(m, r).mint)
<1> DEFINE ks == [m.keysets EXCEPT ![r.id].active = FALSE]
           m2 == [m EXCEPT !.keysets[r.id].active = FALSE]
<1>1. CASE KeysetDeactivate(m, r).mint = m
  BY <1>1
<1>2. CASE KeysetDeactivate(m, r).mint # m
  <2>1. r.id \in DOMAIN m.keysets /\ r.id # m.active /\ KeysetDeactivate(m, r).mint = m2
    BY <1>2 DEF KeysetDeactivate, Refuse, Reply
  <2>2. OneSigns(m)
    BY DEF Kept
  <2>3. \A k \in DOMAIN m.keysets :
          /\ DOMAIN m.keysets[k] = {"fee", "active", "top"} /\ m.keysets[k].top = TopBit
          /\ m.keysets[k].fee \in Nat
    BY <2>2 DEF OneSigns
  <2>4. /\ DOMAIN ks = DOMAIN m.keysets
        /\ \A k \in DOMAIN m.keysets : k # r.id => ks[k] = m.keysets[k]
        /\ DOMAIN ks[r.id] = {"fee", "active", "top"} /\ ks[r.id].top = TopBit
        /\ ks[r.id].fee \in Nat /\ ~ks[r.id].active
    BY <2>1, <2>3
  <2>5. m2.keysets = ks /\ m2.active = m.active /\ But(m, m2, {"keysets", "active"})
    BY Fields DEF But, Kept
  <2> HIDE DEF ks, m2
  <2>6. {k \in DOMAIN ks : ks[k].active} = {m.active}
    BY <2>1, <2>2, <2>4 DEF OneSigns
  <2>7. \A k \in DOMAIN ks : /\ DOMAIN ks[k] = {"fee", "active", "top"} /\ ks[k].top = TopBit
                             /\ ks[k].fee \in Nat
    BY <2>3, <2>4
  <2>8. OneSigns(m2)
    BY <2>5, <2>6, <2>7 DEF OneSigns
  <2>9. DOMAIN m.keysets \subseteq DOMAIN m2.keysets
    BY <2>4, <2>5
  <2> QED
    BY <2>1, <2>5, <2>8, <2>9, KeysetsKept
<1> QED
  BY <1>1, <1>2

(* A keyset more, that does not sign. *)
LEMMA GenerateKept ==
  ASSUME NEW m, Kept(m), NEW r, Proper(m, r), r.op = "generate"
  PROVE  Kept(KeysetGenerate(m, r).mint)
<1> DEFINE ks == Put(m.keysets, r.new, Keyset(0, FALSE))
           m2 == [m EXCEPT !.keysets = ks]
<1>1. KeysetGenerate(m, r).mint = m2
  BY DEF KeysetGenerate, Reply
<1>2. OneSigns(m) /\ r.new \notin DOMAIN m.keysets
  BY DEF Kept, Proper
<1>3. /\ DOMAIN ks = DOMAIN m.keysets \cup {r.new} /\ ks[r.new] = Keyset(0, FALSE)
      /\ \A k \in DOMAIN m.keysets : ks[k] = m.keysets[k]
  BY <1>2 DEF Put
<1> HIDE DEF ks
<1>4. m2.keysets = ks /\ m2.active = m.active /\ But(m, m2, {"keysets", "active"})
  BY Fields DEF But, Kept
<1> HIDE DEF m2
<1>5. /\ DOMAIN ks[r.new] = {"fee", "active", "top"} /\ ks[r.new].top = TopBit /\ ~ks[r.new].active
      /\ ks[r.new].fee \in Nat
  BY <1>3 DEF Keyset
<1>6. \A k \in DOMAIN ks : /\ DOMAIN ks[k] = {"fee", "active", "top"} /\ ks[k].top = TopBit
                           /\ ks[k].fee \in Nat
  BY <1>2, <1>3, <1>5 DEF OneSigns
<1>7. {k \in DOMAIN ks : ks[k].active} = {m.active}
  BY <1>2, <1>3, <1>5 DEF OneSigns
<1>8. OneSigns(m2)
  BY <1>4, <1>6, <1>7 DEF OneSigns
<1>9. DOMAIN m.keysets \subseteq DOMAIN m2.keysets
  BY <1>3, <1>4
<1> QED
  BY <1>1, <1>4, <1>8, <1>9, KeysetsKept

(* A keyset with another fee takes the place of the old one. *)
LEMMA SetFeeKept ==
  ASSUME NEW m, Kept(m), NEW r, Proper(m, r), r.op = "set-fee"
  PROVE  Kept(KeysetSetFee(m, r).mint)
<1> DEFINE was == r.id = m.active
           idle == [m.keysets EXCEPT ![r.id].active = FALSE]
           ks == Put(idle, r.new, Keyset(r.fee, was))
           next == IF was THEN r.new ELSE m.active
           m2 == [m EXCEPT !.keysets = ks, !.active = next]
<1>1. CASE KeysetSetFee(m, r).mint = m
  BY <1>1
<1>2. CASE KeysetSetFee(m, r).mint # m
  <2>1. r.id \in DOMAIN m.keysets /\ KeysetSetFee(m, r).mint = m2 /\ r.fee \in Nat
    <3>1. r.id \in DOMAIN m.keysets /\ KeysetSetFee(m, r).mint = m2 /\ r.bad = Pass
      BY <1>2 DEF KeysetSetFee, Refuse, Reply
    <3> QED
      BY <3>1 DEF Proper
  <2>2. OneSigns(m) /\ r.new \notin DOMAIN m.keysets
    BY DEF Kept, Proper
  <2>3. \A k \in DOMAIN m.keysets :
          /\ DOMAIN m.keysets[k] = {"fee", "active", "top"} /\ m.keysets[k].top = TopBit
          /\ m.keysets[k].fee \in Nat
    BY <2>2 DEF OneSigns
  <2>4. /\ DOMAIN idle = DOMAIN m.keysets
        /\ \A k \in DOMAIN m.keysets : k # r.id => idle[k] = m.keysets[k]
        /\ DOMAIN idle[r.id] = {"fee", "active", "top"} /\ idle[r.id].top = TopBit
        /\ idle[r.id].fee \in Nat /\ ~idle[r.id].active
    BY <2>1, <2>3
  <2> HIDE DEF idle
  <2>5. /\ DOMAIN ks = DOMAIN idle \cup {r.new} /\ ks[r.new] = Keyset(r.fee, was)
        /\ \A k \in DOMAIN idle : ks[k] = idle[k]
    BY <2>2, <2>4 DEF Put
  <2> HIDE DEF ks
  <2>6. m2.keysets = ks /\ m2.active = next /\ But(m, m2, {"keysets", "active"})
    <3> HIDE DEF next
    <3> QED
      BY Fields DEF But, Kept
  <2> HIDE DEF m2
  <2>7. /\ DOMAIN ks[r.new] = {"fee", "active", "top"} /\ ks[r.new].top = TopBit
        /\ ks[r.new].fee \in Nat
        /\ ks[r.new].active <=> was
    <3> HIDE DEF was
    <3>1. ks[r.new] = [fee |-> r.fee, active |-> was, top |-> TopBit]
      BY <2>5 DEF Keyset
    <3>2. ks[r.new].active = was /\ ks[r.new].top = TopBit /\ ks[r.new].fee \in Nat
      BY <2>1, <3>1
    <3>3. DOMAIN ks[r.new] = {"fee", "active", "top"}
      BY <3>1
    <3>4. ks[r.new].active <=> was
      BY <3>2
    <3> QED
      BY <3>2, <3>3, <3>4
  <2>8. \A k \in DOMAIN ks : /\ DOMAIN ks[k] = {"fee", "active", "top"} /\ ks[k].top = TopBit
                             /\ ks[k].fee \in Nat
    BY <2>3, <2>4, <2>5, <2>7
  <2>9. {k \in DOMAIN m.keysets : m.keysets[k].active} = {m.active}
    BY <2>2 DEF OneSigns
  <2>10. {k \in DOMAIN ks : ks[k].active} = {next}
    <3>1. CASE was
      <4>1. \A k \in DOMAIN m.keysets : ~ks[k].active
        BY <2>4, <2>5, <2>9, <3>1
      <4> QED
        BY <2>2, <2>4, <2>5, <2>7, <3>1, <4>1
    <3>2. CASE ~was
      <4>1. \A k \in DOMAIN m.keysets : ks[k].active <=> k = m.active
        BY <2>4, <2>5, <2>9, <3>2
      <4>2. m.active \in DOMAIN m.keysets
        BY <2>9
      <4> QED
        BY <2>2, <2>4, <2>5, <2>7, <3>2, <4>1, <4>2
    <3> QED
      BY <3>1, <3>2
  <2>11. OneSigns(m2)
    BY <2>6, <2>8, <2>10 DEF OneSigns
  <2>12. DOMAIN m.keysets \subseteq DOMAIN m2.keysets
    BY <2>4, <2>5, <2>6
  <2> QED
    BY <2>1, <2>6, <2>11, <2>12, KeysetsKept
<1> QED
  BY <1>1, <1>2

-----------------------------------------------------------------------------
(* The mint.                                                                 *)

(* What a route answers leaves the mint's parts fitting. *)
LEMMA ServeKept ==
  ASSUME NEW m, Kept(m), NEW r, Proper(m, r)
  PROVE  Kept(Serve(m, r).mint)
<1>1. r.op \in Asks
  BY DEF Proper
<1>2. CASE r.op = "swap"
  <2>1. Serve(m, r) = PostSwap(m, r)
    BY <1>2 DEF Serve
  <2> QED
    BY <1>2, <2>1, SwapKept
<1>3. CASE r.op = "mint-quote"
  <2>1. Serve(m, r) = PostMintQuote(m, r)
    BY <1>3 DEF Serve
  <2> QED
    BY <1>3, <2>1, PostMintQuoteKept
<1>4. CASE r.op = "mint"
  <2>1. Serve(m, r) = PostMint(m, r)
    BY <1>4 DEF Serve
  <2> QED
    BY <1>4, <2>1, MintKept
<1>5. CASE r.op = "melt-quote"
  <2>1. Serve(m, r) = PostMeltQuote(m, r)
    BY <1>5 DEF Serve
  <2> QED
    BY <1>5, <2>1, PostMeltQuoteKept
<1>6. CASE r.op = "melt"
  <2>1. Serve(m, r) = PostMelt(m, r)
    BY <1>6 DEF Serve
  <2> QED
    BY <1>6, <2>1, MeltKept
<1>7. CASE r.op = "set-settings"
  <2>1. Serve(m, r) = UpdateSettings(m, r)
    BY <1>7 DEF Serve
  <2> QED
    BY <1>7, <2>1, UpdateSettingsKept
<1>8. CASE r.op = "configure"
  <2>1. Serve(m, r) = LnConfigure(m, r)
    BY <1>8 DEF Serve
  <2> QED
    BY <1>8, <2>1, LnConfigureKept
<1>9. CASE r.op = "activate"
  <2>1. Serve(m, r) = KeysetActivate(m, r)
    BY <1>9 DEF Serve
  <2> QED
    BY <1>9, <2>1, ActivateKept
<1>10. CASE r.op = "generate"
  <2>1. Serve(m, r) = KeysetGenerate(m, r)
    BY <1>10 DEF Serve
  <2> QED
    BY <1>10, <2>1, GenerateKept
<1>11. CASE r.op = "set-fee"
  <2>1. Serve(m, r) = KeysetSetFee(m, r)
    BY <1>11 DEF Serve
  <2> QED
    BY <1>11, <2>1, SetFeeKept
<1>12. CASE r.op = "delete"
  <2>1. Serve(m, r) = QuoteDelete(m, r)
    BY <1>12 DEF Serve
  <2> QED
    BY <1>12, <2>1, QuoteDeleteKept
<1>13. CASE r.op = "revoke"
  <2>1. Serve(m, r) = QuoteRevoke(m, r)
    BY <1>13 DEF Serve
  <2> QED
    BY <1>13, <2>1, QuoteRevokeKept
<1>14. CASE r.op = "abort"
  <2>1. Serve(m, r) = MeltAbort(m, r)
    BY <1>14 DEF Serve
  <2> QED
    BY <1>14, <2>1, MeltAbortKept
<1>15. CASE r.op \in {"get-mint-quote", "get-melt-quote", "checkstate", "restore", "info", "keys", "settings"}
  <2>1. CASE r.op = "get-mint-quote"
    <3>1. Serve(m, r) = GetMintQuote(m, r)
      BY <2>1 DEF Serve
    <3>2. GetMintQuote(m, r).mint = m
      BY DEF GetMintQuote, Refuse, Reply, Ask
    <3> QED
      BY <3>1, <3>2
  <2>2. CASE r.op = "get-melt-quote"
    <3>1. Serve(m, r) = GetMeltQuote(m, r)
      BY <2>2 DEF Serve
    <3>2. GetMeltQuote(m, r).mint = m
      BY DEF GetMeltQuote, Refuse, Reply, Ask
    <3> QED
      BY <3>1, <3>2
  <2>3. CASE r.op = "checkstate"
    <3>1. Serve(m, r) = PostCheckstate(m, r)
      BY <2>3 DEF Serve
    <3>2. PostCheckstate(m, r).mint = m
      BY DEF PostCheckstate, Reply
    <3> QED
      BY <3>1, <3>2
  <2>4. CASE r.op = "restore"
    <3>1. Serve(m, r) = PostRestore(m, r)
      BY <2>4 DEF Serve
    <3>2. PostRestore(m, r).mint = m
      BY DEF PostRestore, Reply
    <3> QED
      BY <3>1, <3>2
  <2>5. CASE r.op = "info"
    <3>1. Serve(m, r) = GetInfo(m)
      BY <2>5 DEF Serve
    <3>2. GetInfo(m).mint = m
      BY DEF GetInfo, Reply
    <3> QED
      BY <3>1, <3>2
  <2>6. CASE r.op = "keys"
    <3>1. Serve(m, r) = GetKeys(m)
      BY <2>6 DEF Serve
    <3>2. GetKeys(m).mint = m
      BY DEF GetKeys, Reply
    <3> QED
      BY <3>1, <3>2
  <2>7. CASE r.op = "settings"
    <3>1. Serve(m, r) = Reply(m, AdminSettings(m))
      BY <2>7 DEF Serve
    <3>2. Reply(m, AdminSettings(m)).mint = m
      BY DEF Reply
    <3> QED
      BY <3>1, <3>2
  <2> QED
    BY <1>15, <2>1, <2>2, <2>3, <2>4, <2>5, <2>6, <2>7
<1>16. CASE r.op = "deactivate"
  <2>1. Serve(m, r) = KeysetDeactivate(m, r)
    BY <1>16 DEF Serve
  <2> QED
    BY <1>16, <2>1, DeactivateKept
<1> QED
  BY <1>1, <1>2, <1>3, <1>4, <1>5, <1>6, <1>7, <1>8, <1>9, <1>10, <1>11, <1>12, <1>13, <1>14, <1>15, <1>16 DEF Asks

(* What an answer of the backend does leaves them fitting. *)
LEMMA AnsweredKept ==
  ASSUME NEW m, Kept(m), NEW c, Heard(m, c), NEW a
  PROVE  Kept(Answered(m, c, a).mint)
<1>1. CASE c.kind = "mint-quote-create"
  <2>1. Answered(m, c, a) = MintCreated(m, c, a)
    BY <1>1 DEF Answered
  <2> QED
    BY <1>1, <2>1, MintCreatedKept
<1>2. CASE c.kind = "mint-quote-check"
  <2>1. Answered(m, c, a) = MintChecked(m, c, a)
    BY <1>2 DEF Answered
  <2> QED
    BY <1>2, <2>1, MintCheckedKept
<1>3. CASE c.kind = "melt-quote-create"
  <2>1. Answered(m, c, a) = MeltQuoted(m, c, a)
    BY <1>3 DEF Answered
  <2> QED
    BY <1>3, <2>1, MeltQuotedKept
<1>4. CASE c.kind = "melt-pay"
  <2>1. Answered(m, c, a) = MeltPaid(m, c, a)
    BY <1>4 DEF Answered
  <2> QED
    BY <1>4, <2>1, MeltPaidKept
<1>5. CASE c.kind = "melt-check"
  <2>1. Answered(m, c, a) = MeltChecked(m, c, a)
    BY <1>5 DEF Answered
  <2> QED
    BY <1>5, <2>1, MeltCheckedKept
<1>6. CASE c.kind = "melt-abort"
  <2>1. Answered(m, c, a) = LnMeltAbort(m, c, a)
    BY <1>6 DEF Answered
  <2> QED
    BY <1>6, <2>1, LnMeltAbortKept
<1> QED
  BY <1>1, <1>2, <1>3, <1>4, <1>5, <1>6 DEF Heard, Questions

(* A mint as it is installed. *)
LEMMA NewKept ==
  ASSUME NEW bps, NEW floor, NEW fee \in Nat, NEW m, But(NewMint(bps, floor, fee), m, {"self", "ln"})
  PROVE  Kept(m)
<1>1. /\ m.keysets = [k \in {"k0"} |-> Keyset(fee, TRUE)] /\ m.active = "k0"
      /\ m.mints = <<>> /\ m.melts = <<>> /\ m.inflight = <<>> /\ m.change = <<>>
      /\ m.spent = {} /\ m.signed = <<>> /\ m.given = {}
      /\ m.issued = 0 /\ m.redeemed = 0 /\ m.revoked = 0 /\ m.clamped = FALSE /\ m.now = 1
      /\ DOMAIN m = DOMAIN NewMint(0, 0, 0)
  BY DEF NewMint, But
<1>2. DOMAIN <<>> = {} /\ IsFiniteSet({})
  BY FS_EmptySet
<1>3. Shaped(m)
  BY <1>1, <1>2 DEF Shaped
<1>4. OneSigns(m)
  BY <1>1 DEF OneSigns, Keyset
<1>5. SignedFit(m)
  BY <1>1, <1>2 DEF SignedFit
<1>6. QuotesFit(m)
  BY <1>1, <1>2 DEF QuotesFit
<1>7. FlightsFit(m)
  BY <1>1, <1>2 DEF FlightsFit
<1>8. Accounted(m)
  <2> DEFINE f == Worth(m.signed)
             g == ChangeWorth(m.change)
             h == Deposited(m.mints)
  <2>1. DOMAIN m.signed = {} /\ DOMAIN m.change = {} /\ Minted(m.mints) = {} /\ m.spent = {}
    BY <1>1, <1>2 DEF Minted
  <2>2. DOMAIN g = {}
    BY <2>1 DEF ChangeWorth
  <2> HIDE DEF f, g, h
  <2>3. SumFunctionOnSet(f, {}) = 0 /\ SumFunctionOnSet(g, {}) = 0 /\ SumFunctionOnSet(h, {}) = 0
    BY SumEmpty
  <2>4. SumFunction(g) = 0
    BY <2>2, <2>3 DEF SumFunction
  <2>5. /\ SumFunctionOnSet(f, DOMAIN m.signed) = 0 /\ SumFunctionOnSet(f, m.spent) = 0
        /\ SumFunctionOnSet(h, Minted(m.mints)) = 0
    BY <2>1, <2>3
  <2> QED
    BY <1>1, <2>4, <2>5 DEF Accounted, f, g, h
<1> QED
  BY <1>3, <1>4, <1>5, <1>6, <1>7, <1>8 DEF Kept

(* The totals account for every token wherever the mint's parts fit: what is
   not spent is what was signed less what was spent. *)
LEMMA KeptBooks ==
  ASSUME Kept(mint)
  PROVE  Books
<1> DEFINE f == Worth(mint.signed)
           S == DOMAIN mint.signed
           T == mint.spent
<1>1. /\ SignedFit(mint) /\ QuotesFit(mint) /\ ~mint.clamped
      /\ mint.issued \in Nat /\ mint.revoked \in Nat /\ mint.redeemed \in Nat
      /\ SumFunctionOnSet(f, S) = mint.issued + mint.revoked + ChangeGiven
      /\ SumFunctionOnSet(f, T) = mint.redeemed
      /\ T \subseteq S
  BY DEF Kept, Shaped, Accounted, FlightsFit, ChangeGiven
<1>2. IsFiniteSet(S) /\ \A b \in S : f[b] \in Nat
  BY <1>1, WorthNat
<1>3. ChangeGiven \in Nat
  BY <1>1, ChangeNat DEF ChangeGiven
<1> HIDE DEF f, S, T
<1>4. IsFiniteSet(T) /\ IsFiniteSet(S \ T)
  BY <1>1, <1>2, FS_Subset
<1>5. SumFunctionOnSet(f, (S \ T) \cup T) = SumFunctionOnSet(f, S \ T) + SumFunctionOnSet(f, T)
  <2>1. (S \ T) \cap T = {}
    OBVIOUS
  <2>2. \A b \in (S \ T) \cup T : f[b] \in Nat
    BY <1>1, <1>2
  <2> QED
    BY <1>4, <2>1, <2>2, SumUnion
<1>6. SumFunctionOnSet(f, (S \ T) \cup T) = SumFunctionOnSet(f, S)
  <2>1. (S \ T) \cup T = S
    BY <1>1
  <2> QED
    BY <2>1, Zenon
<1>7. SumFunctionOnSet(f, S \ T) \in Nat
  BY <1>2, <1>4, SumType
<1>8. mint.issued + mint.revoked + ChangeGiven - mint.redeemed = SumFunctionOnSet(f, S \ T)
  BY <1>1, <1>3, <1>5, <1>6, <1>7
<1> QED
  BY <1>1, <1>8 DEF Books, ValueOf, Unspent, f, S, T

(* Every step of a mint, with any client and any backend, leaves its parts
   fitting. *)
LEMMA OpenStep ==
  ASSUME Kept(mint), [OpenNext]_mint
  PROVE  Kept(mint)'
<1>1. CASE Served
  <2>1. PICK r : Proper(mint, r) /\ mint' = Serve(mint, r).mint
    BY <1>1 DEF Served
  <2>2. Kept(mint')
    BY <2>1, ServeKept
  <2> QED
    BY <2>2
<1>2. CASE HeardBack
  <2>1. PICK c, a : Heard(mint, c) /\ mint' = Answered(mint, c, a).mint
    BY <1>2 DEF HeardBack
  <2>2. Kept(mint')
    BY <2>1, AnsweredKept
  <2> QED
    BY <2>2
<1>3. CASE Tick
  <2>1. Kept(mint')
    BY <1>3, TickKept DEF Tick
  <2> QED
    BY <2>1
<1>4. CASE UNCHANGED mint
  BY <1>4
<1> QED
  BY <1>1, <1>2, <1>3, <1>4 DEF OpenNext

(* Whatever wallets ask, in any order, and whatever Lightning answers, late or
   twice: each message is signed once and is worth a denomination, a melt is
   pending exactly while its inputs and its blanks are set aside for it, and
   the totals follow what was signed and what was spent. *)
THEOREM OpenKept == OpenSpec => []Kept(mint)
<1>1. OpenInit => Kept(mint)
  <2> SUFFICES ASSUME OpenInit
               PROVE  Kept(mint)
    OBVIOUS
  <2>1. PICK bps, floor, self, ln : \E fee \in Nat :
          mint = [NewMint(bps, floor, fee) EXCEPT !.self = self, !.ln = ln]
    BY DEF OpenInit
  <2>2. PICK fee \in Nat : mint = [NewMint(bps, floor, fee) EXCEPT !.self = self, !.ln = ln]
    BY <2>1
  <2>3. But(NewMint(bps, floor, fee), mint, {"self", "ln"})
    BY <2>2 DEF But, NewMint
  <2> QED
    BY <2>3, NewKept
<1>2. Kept(mint) /\ [OpenNext]_mint => Kept(mint)'
  BY OpenStep
<1> QED
  BY <1>1, <1>2, PTL DEF OpenSpec

(* So with any wallets and any backend, total-issued-sats less
   total-redeemed-sats, with the change given and what was revoked put back,
   is what the unspent tokens are worth, and neither total was ever clamped
   at zero (post-swap, post-mint, post-melt, rollback-melt, settle-melt,
   admin-quote-revoke). *)
THEOREM OpenBooks == OpenSpec => []Books
<1>1. Kept(mint) => Books
  BY KeptBooks
<1> QED
  BY <1>1, OpenKept, PTL

-----------------------------------------------------------------------------
(* The suites, the demo and the free clients are such clients.               *)

(* What the client before a free one asked is proper: a deposit by the self
   method, and its tokens. *)
LEMMA FirstAsks ==
  ASSUME NEW m0, Kept(m0), DOMAIN m0.mints = {}, DOMAIN m0.inflight = {}
  PROVE  /\ Proper(m0, SelfQuote("t", 8))
         /\ Proper(PostMintQuote(m0, SelfQuote("t", 8)).mint,
                   MintOver("self", "t", Outputs("t", <<4, 4>>, "k0")))
<1> DEFINE r1 == SelfQuote("t", 8)
           m1 == PostMintQuote(m0, r1).mint
           r2 == MintOver("self", "t", Outputs("t", <<4, 4>>, "k0"))
<1>1. Proper(m0, r1)
  BY DEF SelfQuote, Proper, Asks
<1> HIDE DEF r1
<1>2. m1.inflight = m0.inflight
  <2> DEFINE mq == MintQuote(r1.amount, r1.method = "self",
                             IF r1.method = "self" THEN "paid" ELSE "unpaid", NoInvoice)
  <2>1. m1 = m0 \/ m1 = [m0 EXCEPT !.mints = Put(@, r1.quote, mq)]
    BY DEF PostMintQuote, Refuse, Reply, Ask
  <2> HIDE DEF m1, mq
  <2> QED
    BY <2>1, Fields DEF Kept
<1> HIDE DEF m1
<1>3. Held(m1) = {}
  BY <1>2 DEF Held
<1>4. AreOutputs(r2.outputs)
  <2> DEFINE outs == Outputs("t", <<4, 4>>, "k0")
  <2>1. /\ DOMAIN outs = 1..2
        /\ \A i \in 1..2 : outs[i].amount = 4 /\ outs[i].b = outs[i].x
    BY DEF Outputs
  <2>2. outs = [i \in 1..2 |-> outs[i]]
    BY <2>1 DEF Outputs
  <2>3. r2.outputs = outs
    BY DEF MintOver
  <2> HIDE DEF outs
  <2>4. IsList(outs)
    BY <2>1, <2>2, IndexedList
  <2> QED
    BY <2>1, <2>3, <2>4 DEF AreOutputs, Colliding
<1>5. r2.op = "mint"
  BY DEF MintOver
<1> HIDE DEF r2
<1>6. Proper(m1, r2)
  BY <1>3, <1>4, <1>5 DEF Proper, Asks
<1> QED
  BY <1>1, <1>6 DEF r1, m1, r2

(* A mint that a free client finds has minted one deposit. *)
LEMMA FreeMintKept ==
  ASSUME NEW bps, NEW floor
  PROVE  Kept(FreeMint(bps, floor))
<1> DEFINE m0 == [NewMint(bps, floor, 0) EXCEPT !.self = TRUE, !.ln = "lnbits"]
           r1 == SelfQuote("t", 8)
           m1 == PostMintQuote(m0, r1).mint
           r2 == MintOver("self", "t", Outputs("t", <<4, 4>>, "k0"))
<1>1. FreeMint(bps, floor) = PostMint(m1, r2).mint
  BY DEF FreeMint
<1>2. Kept(m0)
  <2>1. But(NewMint(bps, floor, 0), m0, {"self", "ln"})
    BY DEF But, NewMint
  <2> HIDE DEF m0
  <2> QED
    BY <2>1, NewKept
<1>3. DOMAIN m0.mints = {} /\ DOMAIN m0.inflight = {}
  BY DEF NewMint
<1>4. r1.op = "mint-quote" /\ r2.op = "mint"
  BY DEF SelfQuote, MintOver
<1> HIDE DEF m0
<1>5. Proper(m0, r1) /\ Proper(m1, r2)
  BY <1>2, <1>3, FirstAsks
<1> HIDE DEF r1, r2
<1>6. Kept(m1)
  BY <1>2, <1>4, <1>5, PostMintQuoteKept
<1> HIDE DEF m1
<1>7. Kept(PostMint(m1, r2).mint)
  BY <1>4, <1>5, <1>6, MintKept
<1> QED
  BY <1>1, <1>7

(* What a client or the mock does is a step of the mint, or none of its own. *)
LEMMA SuitesStep ==
  ASSUME [Next]_vars
  PROVE  [OpenNext]_mint
<1>1. ASSUME NEW step, Ask1(step)
      PROVE  Served
  BY <1>1 DEF Ask1, Served
<1>2. ASSUME NEW step, PollStep(step)
      PROVE  Served
  BY <1>2 DEF PollStep, Served
<1>3. ASSUME NEW step, StartStep(step)
      PROVE  Served
  BY <1>3 DEF StartStep, Served
<1>4. ASSUME NEW step, AwaitStep(step) \/ LocalStep(step)
      PROVE  UNCHANGED mint
  BY <1>4 DEF AwaitStep, LocalStep
<1>5. CASE SuiteStep
  <2> DEFINE step == Script[pc]
  <2>1. Ask1(step) \/ PollStep(step) \/ StartStep(step) \/ AwaitStep(step) \/ LocalStep(step)
    BY <1>5 DEF SuiteStep
  <2> HIDE DEF step
  <2> QED
    BY <1>1, <1>2, <1>3, <1>4, <2>1 DEF OpenNext
<1>6. CASE FreeStep
  BY <1>6 DEF FreeStep, Served, Tick, OpenNext
<1>7. ASSUME NEW i \in DOMAIN calls, Arrive(i) \/ MockAnswers(i)
      PROVE  UNCHANGED mint
  BY <1>7 DEF Arrive, Arriving, MockAnswers, Answering
<1>8. ASSUME NEW i \in DOMAIN calls, MintHears(i)
      PROVE  HeardBack
  BY <1>8 DEF MintHears, Hearing, HeardBack
<1>9. CASE Done \/ UNCHANGED vars
  BY <1>9 DEF Done, vars
<1> QED
  BY <1>5, <1>6, <1>7, <1>8, <1>9 DEF Next, OpenNext

\* the parts of TypeOK besides the mint
Numbered ==
  /\ {made, tries} \subseteq Nat
  /\ DOMAIN calls \subseteq 1..made
  /\ \A i \in DOMAIN calls :
       /\ DOMAIN calls[i] = {"call", "asker", "stage", "mode", "slow", "answer"}
       /\ calls[i].stage \in {"sent", "arrived", "answered"}

(* A call that goes out is numbered. *)
LEMMA CalledNumbered ==
  ASSUME NEW call, NEW asker, Numbered, Called(call, asker)
  PROVE  /\ made' \in Nat /\ DOMAIN calls' \subseteq 1..made'
         /\ \A i \in DOMAIN calls' :
              /\ DOMAIN calls'[i] = {"call", "asker", "stage", "mode", "slow", "answer"}
              /\ calls'[i].stage \in {"sent", "arrived", "answered"}
<1>1. CASE call.kind = "none"
  BY <1>1 DEF Called, NewCall, Numbered
<1>2. CASE call.kind # "none"
  <2> DEFINE c == [call |-> call, asker |-> asker, stage |-> "sent",
                   mode |-> Blank, slow |-> FALSE, answer |-> [status |-> 0]]
  <2>1. made' = made + 1 /\ calls' = Put(calls, made + 1, c)
    BY <1>2 DEF Called, NewCall
  <2>2. DOMAIN c = {"call", "asker", "stage", "mode", "slow", "answer"} /\ c.stage = "sent"
    OBVIOUS
  <2> HIDE DEF c
  <2>3. /\ DOMAIN calls' = DOMAIN calls \cup {made + 1}
        /\ \A i \in DOMAIN calls' : calls'[i] = IF i = made + 1 THEN c ELSE calls[i]
    BY <2>1 DEF Put
  <2>4. made \in Nat /\ DOMAIN calls \subseteq 1..made
    BY DEF Numbered
  <2>5. made' \in Nat /\ DOMAIN calls' \subseteq 1..made'
    BY <2>1, <2>3, <2>4
  <2> QED
    BY <2>2, <2>3, <2>5 DEF Numbered
<1> QED
  BY <1>1, <1>2

(* A call comes nearer its answer. *)
LEMMA MovedNumbered ==
  ASSUME Numbered, NEW i \in DOMAIN calls, NEW c,
         DOMAIN c = {"call", "asker", "stage", "mode", "slow", "answer"},
         c.stage \in {"sent", "arrived", "answered"},
         calls' = [calls EXCEPT ![i] = c], UNCHANGED <<made, tries>>
  PROVE  Numbered'
<1>1. DOMAIN calls' = DOMAIN calls /\ \A j \in DOMAIN calls : calls'[j] = IF j = i THEN c ELSE calls[j]
  OBVIOUS
<1>2. made' = made /\ tries' = tries
  OBVIOUS
<1> QED
  BY <1>1, <1>2 DEF Numbered

(* Calls stay numbered. *)
LEMMA NumberedStep ==
  ASSUME Numbered, [Next]_vars
  PROVE  Numbered'
<1>1. made \in Nat /\ tries \in Nat
  BY DEF Numbered
<1>2. ASSUME NEW step, NEW answer, Take(step, answer)
      PROVE  tries' \in Nat
  BY <1>2 DEF Take, Next1
<1>3. ASSUME NEW step, Ask1(step)
      PROVE  Numbered'
  <2>1. PICK s : \/ Called(s.call, "suite") /\ tries' = tries
                 \/ Called(s.call, Nobody) /\ Take(step, s.answer)
    BY <1>3 DEF Ask1
  <2>2. tries' \in Nat
    BY <1>1, <1>2, <2>1
  <2>3. Called(s.call, "suite") \/ Called(s.call, Nobody)
    BY <2>1
  <2> QED
    BY <2>2, <2>3, CalledNumbered DEF Numbered
<1>4. ASSUME NEW step, PollStep(step)
      PROVE  Numbered'
  <2>1. PICK s : Called(s.call, Nobody) /\ (tries' = tries + 1 \/ Take(step, s.answer))
    BY <1>4 DEF PollStep
  <2>2. tries' \in Nat
    BY <1>1, <1>2, <2>1
  <2> QED
    BY <2>1, <2>2, CalledNumbered DEF Numbered
<1>5. ASSUME NEW step, StartStep(step)
      PROVE  Numbered'
  <2>1. PICK s : Called(s.call, step.as) /\ tries' = 0
    BY <1>5 DEF StartStep, Next1
  <2> QED
    BY <2>1, CalledNumbered DEF Numbered
<1>6. ASSUME NEW step, AwaitStep(step) \/ LocalStep(step)
      PROVE  Numbered'
  <2>1. made' = made /\ tries' = 0 /\ (calls' = calls \/ calls' = <<>>)
    BY <1>6 DEF AwaitStep, LocalStep, Next1
  <2>2. DOMAIN <<>> = {}
    OBVIOUS
  <2> QED
    BY <1>1, <2>1, <2>2 DEF Numbered
<1>7. CASE SuiteStep
  <2> DEFINE step == Script[pc]
  <2>1. Ask1(step) \/ PollStep(step) \/ StartStep(step) \/ AwaitStep(step) \/ LocalStep(step)
    BY <1>7 DEF SuiteStep
  <2> HIDE DEF step
  <2> QED
    BY <1>3, <1>4, <1>5, <1>6, <2>1
<1>8. CASE FreeStep
  <2>1. tries' = tries /\ ((\E call : Called(call, Nobody)) \/ UNCHANGED <<calls, made>>)
    BY <1>8 DEF FreeStep
  <2>2. CASE \E call : Called(call, Nobody)
    BY <1>1, <2>1, <2>2, CalledNumbered DEF Numbered
  <2>3. CASE UNCHANGED <<calls, made>>
    BY <2>1, <2>3 DEF Numbered
  <2> QED
    BY <2>1, <2>2, <2>3
<1>9. ASSUME NEW i \in DOMAIN calls
      PROVE  DOMAIN calls[i] = {"call", "asker", "stage", "mode", "slow", "answer"}
  BY DEF Numbered
<1>10. ASSUME NEW i \in DOMAIN calls, Arrive(i)
       PROVE  Numbered'
  <2>1. PICK a : calls' = [calls EXCEPT ![i].stage = "arrived", ![i].mode = a.mode, ![i].slow = a.slow]
    BY <1>10 DEF Arrive, Arriving
  <2> DEFINE c == [calls[i] EXCEPT !.stage = "arrived", !.mode = a.mode, !.slow = a.slow]
  <2>2. calls' = [calls EXCEPT ![i] = c] /\ UNCHANGED <<made, tries>>
    BY <1>10, <2>1 DEF Arrive, Arriving
  <2>3. DOMAIN c = {"call", "asker", "stage", "mode", "slow", "answer"} /\ c.stage = "arrived"
    BY <1>9
  <2> HIDE DEF c
  <2> QED
    BY <2>2, <2>3, MovedNumbered
<1>11. ASSUME NEW i \in DOMAIN calls, MockAnswers(i)
       PROVE  Numbered'
  <2>1. PICK a : calls' = [calls EXCEPT ![i].stage = "answered", ![i].answer = a.answer]
    BY <1>11 DEF MockAnswers, Answering
  <2> DEFINE c == [calls[i] EXCEPT !.stage = "answered", !.answer = a.answer]
  <2>2. calls' = [calls EXCEPT ![i] = c] /\ UNCHANGED <<made, tries>>
    BY <1>11, <2>1 DEF MockAnswers, Answering
  <2>3. DOMAIN c = {"call", "asker", "stage", "mode", "slow", "answer"} /\ c.stage = "answered"
    BY <1>9
  <2> HIDE DEF c
  <2> QED
    BY <2>2, <2>3, MovedNumbered
<1>12. ASSUME NEW i \in DOMAIN calls, MintHears(i)
       PROVE  Numbered'
  <2>1. tries' \in Nat
    BY <1>1, <1>2, <1>12 DEF MintHears, Hearing
  <2>2. made' = made /\ calls' = Del(calls, i)
    BY <1>12 DEF MintHears, Hearing
  <2>3. /\ DOMAIN calls' = DOMAIN calls \ {i}
        /\ \A j \in DOMAIN calls' : calls'[j] = calls[j]
    BY <2>2 DEF Del
  <2> QED
    BY <2>1, <2>2, <2>3 DEF Numbered
<1>13. CASE Done \/ UNCHANGED vars
  BY <1>13 DEF Done, vars, Numbered
<1> QED
  BY <1>7, <1>8, <1>10, <1>11, <1>12, <1>13 DEF Next

-----------------------------------------------------------------------------
(* Rules of locks: check-p2pk and MayOpen agree for every lock, every list of *)
(* signatures and every time.                                                 *)

(* A set has a team of n if it has n members. *)
LEMMA Team ==
  ASSUME NEW S, IsFiniteSet(S), NEW n \in Nat
  PROVE  (\E team \in SUBSET S : Cardinality(team) = n) <=> Cardinality(S) >= n
<1>1. ASSUME NEW team \in SUBSET S, Cardinality(team) = n
      PROVE  Cardinality(S) >= n
  BY <1>1, FS_Subset, FS_CardinalityType
<1>2. ASSUME Cardinality(S) >= n
      PROVE  \E team \in SUBSET S : Cardinality(team) = n
  <2> DEFINE c == Cardinality(S)
  <2>1. c \in Nat /\ ExistsBijection(1..c, S)
    BY FS_CardinalityType
  <2>2. PICK f \in Bijection(1..c, S) : TRUE
    BY <2>1 DEF ExistsBijection
  <2>3. /\ f \in [1..c -> S]
        /\ \A i, j \in 1..c : f[i] = f[j] => i = j
    BY <2>2 DEF Bijection, Injection, IsInjective
  <2>4. c >= n
    BY <1>2
  <2> HIDE DEF c
  <2>5. 1..n \subseteq 1..c
    BY <2>1, <2>4
  <2> DEFINE team == {f[i] : i \in 1..n}
             g == [i \in 1..n |-> f[i]]
  <2>6. team \in SUBSET S
    BY <2>3, <2>5
  <2>7. g \in [1..n -> team] /\ \A i \in 1..n : g[i] = f[i]
    OBVIOUS
  <2>8. \A i, j \in 1..n : g[i] = g[j] => i = j
    BY <2>3, <2>5, <2>7
  <2>9. \A t \in team : \E i \in 1..n : g[i] = t
    BY <2>7
  <2> HIDE DEF team, g
  <2>10. g \in Bijection(1..n, team)
    BY <2>7, <2>8, <2>9 DEF Bijection, Injection, IsInjective, Surjection
  <2>11. Cardinality(team) = n
    BY <2>10, FS_CountingElements DEF ExistsBijection
  <2> QED
    BY <2>6, <2>11
<1> QED
  BY <1>1, <1>2

(* The names of a list's keys are finitely many. *)
LEMMA HoldsFinite ==
  ASSUME NEW K, NEW keys \in Seq(K), NEW T \in SUBSET {keys[i][1] : i \in DOMAIN keys}
  PROVE  IsFiniteSet(T)
<1> DEFINE N == {keys[i][1] : i \in 1..Len(keys)}
           f == [i \in 1..Len(keys) |-> keys[i][1]]
<1>1. IsFiniteSet(1..Len(keys))
  <2>1. Len(keys) \in Int /\ 1 \in Int
    OBVIOUS
  <2> QED
    BY <2>1, FS_Interval
<1>2. f \in [1..Len(keys) -> N] /\ \A t \in N : \E i \in 1..Len(keys) : f[i] = t
  OBVIOUS
<1>3. f \in Surjection(1..Len(keys), N)
  BY <1>2 DEF Surjection
<1>4. IsFiniteSet(N)
  BY <1>1, <1>3, FS_Surjection
<1>5. T \in SUBSET N
  OBVIOUS
<1> QED
  BY <1>4, <1>5, FS_Subset

-----------------------------------------------------------------------------
\* who signed; more signatures than the code reads are none
Signers(sigs) == IF Len(sigs) > MaxKeys THEN {} ELSE {sigs[i] : i \in DOMAIN sigs}

(* A lock asks for one signature at least. *)
LEMMA NeedOne ==
  ASSUME NEW n \in Int
  PROVE  Need(n) \in Nat /\ Need(n) >= 1
BY DEF Need

(* The code's count reaches what is asked for exactly if enough of those named
   signed: a key named twice, in two parities, or two signatures by one key
   count once. *)
LEMMA CountMeansTeam ==
  ASSUME NEW K, NEW keys \in Seq(K), NEW W, NEW sigs \in Seq(W), NEW n \in Int
  PROVE  CountValid(sigs, keys, Need(n)) >= Need(n) <=> Enough(Signers(sigs), keys, n)
<1> DEFINE both == Signers(sigs) \cap Holds(keys)
           valid == {s \in {keys[i][1] : i \in DOMAIN keys} : \E j \in DOMAIN sigs : sigs[j] = s /\ s # Blank}
<1>1. Need(n) \in Nat /\ Need(n) >= 1
  BY NeedOne
<1>2. IsFiniteSet(both) /\ IsFiniteSet(valid)
  BY HoldsFinite DEF Holds
<1>3. Cardinality(both) \in Nat /\ Cardinality(valid) \in Nat
  BY <1>2, FS_CardinalityType
<1>4. (\E team \in SUBSET both : Cardinality(team) = Need(n)) <=> Cardinality(both) >= Need(n)
  BY <1>1, <1>2, Team
<1>5. CASE Len(keys) > MaxKeys
  BY <1>1, <1>5 DEF CountValid, Enough, MaxKeys
<1>6. CASE Len(sigs) > MaxKeys
  <2>1. both = {}
    BY <1>6 DEF Signers
  <2>2. Cardinality(both) = 0
    BY <2>1, FS_EmptySet
  <2>3. CountValid(sigs, keys, Need(n)) = 0
    BY <1>6 DEF CountValid
  <2> QED
    BY <1>1, <1>4, <2>2, <2>3 DEF Enough
<1>7. CASE ~(Len(keys) > MaxKeys) /\ ~(Len(sigs) > MaxKeys)
  <2>1. valid = both
    BY <1>7 DEF Signers, Holds
  <2>2. CountValid(sigs, keys, Need(n)) =
          IF Cardinality(valid) > Need(n) THEN Need(n) ELSE Cardinality(valid)
    BY <1>7 DEF CountValid
  <2> HIDE DEF valid, both
  <2>3. CountValid(sigs, keys, Need(n)) >= Need(n) <=> Cardinality(both) >= Need(n)
    BY <1>1, <1>3, <2>1, <2>2
  <2>4. Len(keys) <= MaxKeys
    BY <1>7 DEF MaxKeys
  <2> QED
    BY <1>4, <2>3, <2>4 DEF Enough, both
<1> QED
  BY <1>5, <1>6, <1>7

(* check-p2pk lets a proof pass exactly for those its lock means: enough
   distinct keyholders of those it names until its locktime, and then of its
   refund keys, or anyone if it names none. *)
THEOREM LocksOpenAsMeant ==
  ASSUME NEW Spelled, NEW Names, NEW lock, NEW sigs \in Seq(Names), NEW now \in Int,
         lock.kind = "P2PK", lock.data \in Spelled,
         lock.pubkeys \in Seq(Spelled), lock.refund \in Seq(Spelled),
         lock.nSigs \in Int, lock.nRefund \in Int, lock.locktime \in Int
  PROVE  Condition(lock, sigs, now) = Pass <=> MayOpen(lock, Signers(sigs), now)
<1> DEFINE main == <<lock.data>> \o lock.pubkeys
           late == lock.locktime > 0 /\ now > lock.locktime
<1>1. main \in Seq(Spelled)
  OBVIOUS
<1>2. /\ CountValid(sigs, main, Need(lock.nSigs)) >= Need(lock.nSigs)
           <=> Enough(Signers(sigs), main, lock.nSigs)
      /\ CountValid(sigs, lock.refund, Need(lock.nRefund)) >= Need(lock.nRefund)
           <=> Enough(Signers(sigs), lock.refund, lock.nRefund)
  BY <1>1, CountMeansTeam
<1>3. sigs = <<>> => \A keys, n : n \in Int => ~Enough(Signers(sigs), keys, n)
  <2> SUFFICES ASSUME sigs = <<>>, NEW keys, NEW n \in Int, Enough(Signers(sigs), keys, n)
               PROVE  FALSE
    OBVIOUS
  <2>1. Signers(sigs) = {}
    BY DEF Signers, MaxKeys
  <2>2. PICK team : team \subseteq {} /\ Cardinality(team) = Need(n)
    BY <2>1 DEF Enough
  <2>3. team = {} /\ Cardinality(team) = 0
    BY <2>2, FS_EmptySet
  <2>4. Need(n) >= 1
    BY NeedOne
  <2> QED
    BY <2>2, <2>3, <2>4
<1>4. late <=> lock.locktime > 0 /\ lock.locktime < now
  OBVIOUS
<1> HIDE DEF main
<1>5. Condition(lock, sigs, now) = CheckP2pk(lock, sigs, now)
  BY DEF Condition, Blank
<1>6. CASE lock.sigflag # "SIG_INPUTS" \/ lock.locktime = Unreadable \/ lock.nSigs = Unreadable
  BY <1>5, <1>6 DEF CheckP2pk, MayOpen, Pass
<1>7. CASE lock.sigflag = "SIG_INPUTS" /\ lock.locktime # Unreadable /\ lock.nSigs # Unreadable /\ late
  BY <1>2, <1>3, <1>5, <1>7 DEF CheckP2pk, MayOpen, Pass
<1>8. CASE lock.sigflag = "SIG_INPUTS" /\ lock.locktime # Unreadable /\ lock.nSigs # Unreadable /\ ~late
  BY <1>2, <1>3, <1>4, <1>5, <1>8 DEF CheckP2pk, MayOpen, Pass, main
<1> QED
  BY <1>6, <1>7, <1>8

-----------------------------------------------------------------------------
(* Locks.                                                                    *)

(* If none of a list of checks fails, it passes. *)
LEMMA FirstAll ==
  ASSUME NEW ds, \A i \in DOMAIN ds : ds[i] = Pass
  PROVE  First(ds) = Pass
BY DEF First

(* One proof that is unspent and as it was signed passes exactly if its
   condition does. *)
LEMMA OneProof ==
  ASSUME NEW m, NEW p, ~p.long, p.b \notin m.spent, p.id \in DOMAIN m.keysets,
         p.amount \in Denominations, [amount |-> p.amount, id |-> p.id, b |-> p.b] \in m.given
  PROVE  VerifyProofs(m, <<p>>) = Pass <=> Condition(p.lock, p.sigs, m.now) = Pass
<1> DEFINE proofs == <<p>>
           spent(i) == proofs[i].b \in m.spent \/ \E j \in 1..(i - 1) : proofs[j].b = proofs[i].b
           unknown(i) == proofs[i].id \notin DOMAIN m.keysets
           odd(i) == proofs[i].amount \notin Denominations
           forged(i) == [amount |-> proofs[i].amount, id |-> proofs[i].id, b |-> proofs[i].b] \notin m.given
           c1(i) == When(proofs[i].long, "secret-too-long")
           c2(i) == When(spent(i), "token-already-spent")
           c3(i) == When(unknown(i), "unknown-keyset")
           c4(i) == When(odd(i), "unknown-denomination")
           c5(i) == When(forged(i), "invalid-token-signature")
           opens(i) == Condition(proofs[i].lock, proofs[i].sigs, m.now)
           first == [i \in DOMAIN proofs |-> First(<<c1(i), c2(i), c3(i), c4(i)>>)]
           second == [i \in DOMAIN proofs |-> First(<<c5(i), opens(i)>>)]
<1>1. DOMAIN proofs = {1} /\ proofs[1] = p /\ Len(proofs) = 1 /\ proofs = [i \in 1..1 |-> proofs[i]]
  OBVIOUS
<1>2. VerifyProofs(m, proofs) = First(<<First(first), First(second)>>)
  BY DEF VerifyProofs, Denominations
<1>3. ASSUME VerifyProofs(m, proofs) = Pass
      PROVE  Condition(p.lock, p.sigs, m.now) = Pass
  <2>1. AreProofs(proofs)
    <3>1. IsList(proofs)
      BY <1>1 DEF IsList
    <3>2. p.amount \in Nat
      BY DenominationNat
    <3> QED
      BY <1>1, <3>1, <3>2 DEF AreProofs
  <2> HIDE DEF proofs
  <2> QED
    BY <1>1, <1>3, <2>1, ProofsPass
<1>4. ASSUME Condition(p.lock, p.sigs, m.now) = Pass
      PROVE  VerifyProofs(m, proofs) = Pass
  <2>1. c1(1) = Pass /\ c2(1) = Pass /\ c3(1) = Pass /\ c4(1) = Pass /\ c5(1) = Pass
    <3> HIDE DEF proofs
    <3>1. ~proofs[1].long /\ ~spent(1) /\ ~unknown(1) /\ ~odd(1) /\ ~forged(1)
      BY <1>1
    <3> QED
      BY <3>1 DEF When
  <2>2. opens(1) = Pass
    BY <1>1, <1>4
  <2> HIDE DEF c1, c2, c3, c4, c5, opens
  <2>3. First(<<c1(1), c2(1), c3(1), c4(1)>>) = Pass
    <3> DEFINE ds == <<c1(1), c2(1), c3(1), c4(1)>>
    <3>1. \A i \in DOMAIN ds : ds[i] = Pass
      BY <2>1
    <3> HIDE DEF ds
    <3>2. First(ds) = Pass
      BY <3>1, FirstAll
    <3> QED
      BY <3>2 DEF ds
  <2>4. First(<<c5(1), opens(1)>>) = Pass
    <3> DEFINE ds == <<c5(1), opens(1)>>
    <3>1. \A i \in DOMAIN ds : ds[i] = Pass
      BY <2>1, <2>2
    <3> HIDE DEF ds
    <3>2. First(ds) = Pass
      BY <3>1, FirstAll
    <3> QED
      BY <3>2 DEF ds
  <2>5. First(first) = Pass
    <3>1. \A i \in DOMAIN first : first[i] = Pass
      BY <1>1, <2>3
    <3> HIDE DEF first
    <3> QED
      BY <3>1, FirstAll
  <2>6. First(second) = Pass
    <3>1. \A i \in DOMAIN second : second[i] = Pass
      BY <1>1, <2>4
    <3> HIDE DEF second
    <3> QED
      BY <3>1, FirstAll
  <2> HIDE DEF first, second, proofs
  <2>7. First(<<First(first), First(second)>>) = Pass
    <3> DEFINE ds == <<First(first), First(second)>>
    <3>1. \A i \in DOMAIN ds : ds[i] = Pass
      BY <2>5, <2>6
    <3> HIDE DEF ds
    <3>2. First(ds) = Pass
      BY <3>1, FirstAll
    <3> QED
      BY <3>2 DEF ds
  <2> QED
    BY <1>2, <2>7
<1> QED
  BY <1>3, <1>4

(* Lists of a lock, as sequences. *)
LEMMA ListIn ==
  ASSUME NEW s, IsList(s), NEW K, \A i \in DOMAIN s : s[i] \in K
  PROVE  s \in Seq(K)
<1>1. Len(s) \in Nat /\ DOMAIN s = 1..Len(s)
  BY ListSeq
<1>2. s = [i \in 1..Len(s) |-> s[i]]
  BY DEF IsList
<1> DEFINE n == Len(s)
<1> HIDE DEF n
<1>3. n \in Nat /\ s = [i \in 1..n |-> s[i]] /\ \A i \in 1..n : s[i] \in K
  BY <1>1, <1>2 DEF n
<1>4. s \in [1..n -> K]
  BY <1>3
<1> QED
  BY <1>3, <1>4

(* Who signs for a locked proof signs as a list. *)
LEMMA WitnessList ==
  ASSUME NEW w \in Witnesses
  PROVE  w \in Seq(Hand)
<1> DEFINE few == UNION {[1..k -> Hand] : k \in 0..2}
           many == [i \in 1..11 |-> "a"]
<1>1. w \in few \/ w = many
  <2>1. w \in few \cup {many}
    BY Zenon DEF Witnesses
  <2> HIDE DEF few, many
  <2> QED
    BY <2>1
<1>2. \A k \in 0..2 : k \in Nat
  OBVIOUS
<1>3. ASSUME w \in few
      PROVE  \E n \in Nat : w \in [1..n -> Hand]
  BY <1>2, <1>3, Zenon
<1>4. many \in [1..11 -> Hand]
  BY DEF Hand
<1>5. PICK n \in Nat : w \in [1..n -> Hand]
  <2>1. 11 \in Nat
    OBVIOUS
  <2> HIDE DEF few, many
  <2> QED
    BY <1>1, <1>3, <1>4, <2>1, Zenon
<1> QED
  BY <1>5

(* Where the mint's parts fit, a lock that can be written down opens to whom
   it means. *)
LEMMA KeptLocks ==
  ASSUME Kept(mint), program \in Programs
  PROVE  LocksHold
<1> SUFFICES ASSUME program.name = "locks", NEW b \in DOMAIN mint.signed \ mint.spent,
                    NEW w \in Witnesses
             PROVE  LET proof == Locked(ProofOf(mint, b), program.lock, w)
                        signers == IF Len(w) > MaxKeys THEN {} ELSE {w[i] : i \in DOMAIN w}
                    IN VerifyProofs(mint, <<proof>>) = Pass <=> MayOpen(program.lock, signers, mint.now)
  BY DEF LocksHold
<1> DEFINE lock == program.lock
           p == Locked(ProofOf(mint, b), lock, w)
<1>1. SignedFit(mint) /\ mint.now \in Int
  BY DEF Kept, Shaped
<1>2. /\ p.b = b /\ p.amount = mint.signed[b].amount /\ p.id = mint.signed[b].id
      /\ p.long = FALSE /\ p.lock = lock /\ p.sigs = w
  BY DEF Locked, ProofOf
<1> HIDE DEF p
<1>3. VerifyProofs(mint, <<p>>) = Pass <=> Condition(lock, w, mint.now) = Pass
  <2>1. p.id \in DOMAIN mint.keysets /\ p.amount \in Denominations
    BY <1>1, <1>2 DEF SignedFit, Denominations
  <2>2. [amount |-> p.amount, id |-> p.id, b |-> p.b] \in mint.given
    BY <1>1, <1>2 DEF SignedFit
  <2>3. ~p.long /\ p.b \notin mint.spent
    BY <1>2
  <2> QED
    BY <1>2, <2>1, <2>2, <2>3, OneProof
<1>4. IsLock(lock)
  BY SuitesAssumption
<1> HIDE DEF lock
<1>5. Condition(lock, w, mint.now) = Pass <=> MayOpen(lock, Signers(w), mint.now)
  <2>1. CASE lock.kind = "P2PK"
    <3> DEFINE K == {lock.data} \cup {lock.pubkeys[i] : i \in DOMAIN lock.pubkeys}
                               \cup {lock.refund[i] : i \in DOMAIN lock.refund}
    <3>1. /\ lock.data \in K /\ \A i \in DOMAIN lock.pubkeys : lock.pubkeys[i] \in K
          /\ \A i \in DOMAIN lock.refund : lock.refund[i] \in K
      OBVIOUS
    <3>2. w \in Seq(Hand)
      BY WitnessList
    <3> HIDE DEF K
    <3>3. lock.pubkeys \in Seq(K) /\ lock.refund \in Seq(K)
      BY <1>4, <3>1, ListIn DEF IsLock
    <3>4. lock.nSigs \in Int /\ lock.nRefund \in Int /\ lock.locktime \in Int
      BY <1>4 DEF IsLock
    <3> QED
      BY <1>1, <2>1, <3>1, <3>2, <3>3, <3>4, LocksOpenAsMeant
  <2>2. CASE lock.kind # "P2PK"
    BY <1>4, <2>2 DEF IsLock, Condition, MayOpen, Pass
  <2> QED
    BY <2>1, <2>2
<1> QED
  BY <1>3, <1>5 DEF lock, p, Signers

-----------------------------------------------------------------------------
(* Whatever runs, a suite, the demo or a free client, with the answers of
   Lightning in any order: the mint's parts fit, and its calls are numbered. *)
THEOREM SuitesTypeOK == Spec => []TypeOK
<1>1. TypeOK <=> Kept(mint) /\ Numbered
  BY DEF TypeOK, Numbered
<1>2. Init => Kept(mint) /\ Numbered
  <2> SUFFICES ASSUME Init
               PROVE  Kept(mint) /\ Numbered
    OBVIOUS
  <2>1. Numbered
    <3>1. DOMAIN <<>> = {}
      OBVIOUS
    <3> QED
      BY <3>1 DEF Init, Numbered
  <2>2. Kept(mint)
    <3>1. PICK r : mint = IF Free(program) THEN FreeMint(r.bps, r.floor)
                          ELSE [NewMint(r.bps, r.floor, 0) EXCEPT
                                  !.ln = IF program.name = "demo" THEN "lnbits" ELSE "none"]
      BY DEF Init
    <3>2. CASE Free(program)
      BY <3>1, <3>2, FreeMintKept
    <3>3. CASE ~Free(program)
      <4>1. But(NewMint(r.bps, r.floor, 0), mint, {"self", "ln"})
        BY <3>1, <3>3 DEF But, NewMint
      <4> QED
        BY <4>1, NewKept
    <3> QED
      BY <3>2, <3>3
  <2> QED
    BY <2>1, <2>2
<1>3. (Kept(mint) /\ Numbered) /\ [Next]_vars => (Kept(mint) /\ Numbered)'
  BY SuitesStep, OpenStep, NumberedStep
<1> QED
  BY <1>1, <1>2, <1>3, PTL DEF Spec

(* The totals account for every token with every such client: Books. *)
THEOREM SuitesBooks == Spec => []Books
<1>1. TypeOK => Books
  BY KeptBooks DEF TypeOK
<1> QED
  BY <1>1, SuitesTypeOK, PTL

(* A locked proof opens to whom its lock means and to nobody else, whatever
   was swapped before, and whatever the clock reads: LocksHold. *)
THEOREM SuitesLocks == Spec => []LocksHold
<1>1. Init => program \in Programs
  BY DEF Init
<1>2. program \in Programs /\ [Next]_vars => (program \in Programs)'
  <2> SUFFICES ASSUME program \in Programs, [Next]_vars
               PROVE  program' = program
    OBVIOUS
  <2> QED
    BY DEF Next, SuiteStep, FreeStep, Arrive, Arriving, MockAnswers, Answering, MintHears, Hearing, Done, vars
<1>3. TypeOK /\ program \in Programs => LocksHold
  BY KeptLocks DEF TypeOK
<1> QED
  BY <1>1, <1>2, <1>3, SuitesTypeOK, PTL DEF Spec

-----------------------------------------------------------------------------
(* Every step of a suite brings its end nearer. *)

\* what is left to do for one call
Left(i) == IF i \notin DOMAIN calls THEN 0 ELSE [sent |-> 3, arrived |-> 2, answered |-> 1][calls[i].stage]

\* what one step counts on besides
Placed == pc \in Nat /\ waiting \in BOOLEAN

(* The work is a sum of natural numbers. *)
LEMMA WorkIsSum ==
  ASSUME Numbered
  PROVE  /\ IsFiniteSet(1..made) /\ made \in Nat
         /\ \A i \in 1..made : Left(i) \in Nat
         /\ Work = SumFunctionOnSet([i \in 1..made |-> Left(i)], 1..made)
<1>1. made \in Nat
  BY DEF Numbered
<1>2. IsFiniteSet(1..made)
  BY <1>1, FS_Interval
<1>3. ASSUME NEW i \in 1..made
      PROVE  Left(i) \in Nat
  <2>1. CASE i \notin DOMAIN calls
    BY <2>1 DEF Left
  <2>2. CASE i \in DOMAIN calls
    <3>1. calls[i].stage \in {"sent", "arrived", "answered"}
      BY <2>2 DEF Numbered
    <3> QED
      BY <2>2, <3>1 DEF Left
  <2> QED
    BY <2>1, <2>2
<1>4. Work = SumFunctionOnSet([i \in 1..made |-> Left(i)], 1..made)
  BY DEF Work, Total, Left, SumFunction
<1> QED
  BY <1>1, <1>2, <1>3, <1>4

\* the work as that sum
Summed ==
  /\ \A i \in 1..made : Left(i) \in Nat
  /\ Work = SumFunctionOnSet([i \in 1..made |-> Left(i)], 1..made)

(* It is so in every state. *)
LEMMA WorkSummed == Numbered => Summed
BY WorkIsSum DEF Summed

(* One call comes nearer its answer, the others stay: there is less to do. *)
LEMMA WorkFalls ==
  ASSUME Numbered, Numbered', made' = made, NEW i \in DOMAIN calls,
         \A j \in 1..made : j # i => (Left(j))' = Left(j),
         (Left(i))' < Left(i)
  PROVE  Work' < Work
<1> DEFINE f == [j \in 1..made |-> Left(j)]
           g == [j \in 1..made |-> (Left(j))']
           rest == (1..made) \ {i}
<1>1. /\ IsFiniteSet(1..made) /\ (\A j \in 1..made : Left(j) \in Nat)
      /\ Work = SumFunctionOnSet(f, 1..made)
  BY WorkIsSum
<1>2. /\ \A j \in 1..made : (Left(j))' \in Nat
      /\ Work' = SumFunctionOnSet(g, 1..made)
  <2>1. (Numbered => Summed)'
    BY WorkSummed, PTL
  <2> QED
    BY <2>1 DEF Summed
<1>3. i \in 1..made
  BY DEF Numbered
<1>4. (\A j \in 1..made : f[j] = Left(j)) /\ (\A j \in 1..made : g[j] = (Left(j))')
  OBVIOUS
<1> HIDE DEF f, g
<1>5. /\ Work = SumFunctionOnSet(f, rest) + f[i]
      /\ Work' = SumFunctionOnSet(g, rest) + g[i]
  BY <1>1, <1>2, <1>3, <1>4, SumRemove
<1>6. IsFiniteSet(rest) /\ \A j \in rest : f[j] \in Nat /\ f[j] = g[j]
  BY <1>1, <1>4, FS_RemoveElement
<1>7. SumFunctionOnSet(f, rest) = SumFunctionOnSet(g, rest) /\ SumFunctionOnSet(f, rest) \in Nat
  BY <1>6, SumSame, SumType
<1> QED
  BY <1>1, <1>2, <1>3, <1>4, <1>5, <1>7

(* A call moves on. *)
LEMMA MoveFalls ==
  ASSUME Numbered, Numbered', NEW i \in DOMAIN calls, NEW c,
         calls' = [calls EXCEPT ![i] = c], made' = made,
         \/ calls[i].stage = "sent" /\ c.stage = "arrived"
         \/ calls[i].stage = "arrived" /\ c.stage = "answered"
  PROVE  Work' < Work
<1>1. DOMAIN calls' = DOMAIN calls /\ \A j \in DOMAIN calls : calls'[j] = IF j = i THEN c ELSE calls[j]
  OBVIOUS
<1>2. \A j \in 1..made : j # i => (Left(j))' = Left(j)
  BY <1>1 DEF Left
<1>3. (Left(i))' < Left(i)
  BY <1>1 DEF Left
<1> QED
  BY <1>2, <1>3, WorkFalls

(* A call is over. *)
LEMMA EndFalls ==
  ASSUME Numbered, Numbered', NEW i \in DOMAIN calls, calls' = Del(calls, i), made' = made
  PROVE  Work' < Work
<1>1. DOMAIN calls' = DOMAIN calls \ {i} /\ \A j \in DOMAIN calls' : calls'[j] = calls[j]
  BY DEF Del
<1>2. \A j \in 1..made : j # i => (Left(j))' = Left(j)
  BY <1>1 DEF Left
<1>3. (Left(i))' < Left(i)
  <2>1. calls[i].stage \in {"sent", "arrived", "answered"}
    BY DEF Numbered
  <2> QED
    BY <1>1, <2>1 DEF Left
<1> QED
  BY <1>2, <1>3, WorkFalls

(* A step goes on in the script, or tries again, or waits, or brings a call
   nearer its answer. *)
LEMMA NearerStep ==
  ASSUME Numbered, Numbered', Placed, [Next]_vars
  PROVE  /\ Placed'
         /\ \/ pc' > pc
            \/ pc' = pc /\ tries' > tries
            \/ pc' = pc /\ tries' = tries /\ ~waiting /\ waiting'
            \/ UNCHANGED <<pc, tries, waiting>> /\ Work' < Work
            \/ UNCHANGED vars
<1> DEFINE On == pc' = pc + 1 /\ waiting' \in BOOLEAN
<1>1. On => Placed' /\ pc' > pc
  BY DEF Placed
<1>2. tries \in Nat
  BY DEF Numbered
<1>3. ASSUME NEW step, NEW answer, Take(step, answer)
      PROVE  On
  BY <1>3 DEF Take, Next1
<1>4. CASE SuiteStep
  <2> DEFINE step == Script[pc]
  <2>1. ~waiting /\ (Ask1(step) \/ PollStep(step) \/ StartStep(step) \/ AwaitStep(step) \/ LocalStep(step))
    BY <1>4 DEF SuiteStep
  <2> HIDE DEF step
  <2>2. CASE Ask1(step)
    <3>1. On \/ (waiting' = TRUE /\ UNCHANGED <<pc, tries>>)
      BY <1>3, <2>2 DEF Ask1
    <3> QED
      BY <1>1, <2>1, <3>1 DEF Placed
  <2>3. CASE PollStep(step)
    <3>1. On \/ (tries' = tries + 1 /\ UNCHANGED <<pc, waiting>>)
      BY <1>3, <2>3 DEF PollStep
    <3> QED
      BY <1>1, <1>2, <3>1 DEF Placed
  <2>4. CASE StartStep(step) \/ AwaitStep(step) \/ LocalStep(step)
    <3>1. On
      BY <2>4 DEF StartStep, AwaitStep, LocalStep, Next1
    <3> QED
      BY <1>1, <3>1
  <2> QED
    BY <2>1, <2>2, <2>3, <2>4
<1>5. CASE FreeStep
  <2>1. On
    BY <1>5 DEF FreeStep, Placed
  <2> QED
    BY <1>1, <2>1
<1>6. ASSUME NEW i \in DOMAIN calls
      PROVE  DOMAIN calls[i] = {"call", "asker", "stage", "mode", "slow", "answer"}
  BY DEF Numbered
<1>7. ASSUME NEW i \in DOMAIN calls, Arrive(i)
      PROVE  UNCHANGED <<pc, tries, waiting>> /\ Work' < Work
  <2>1. PICK a : calls' = [calls EXCEPT ![i].stage = "arrived", ![i].mode = a.mode, ![i].slow = a.slow]
    BY <1>7 DEF Arrive, Arriving
  <2> DEFINE c == [calls[i] EXCEPT !.stage = "arrived", !.mode = a.mode, !.slow = a.slow]
  <2>2. calls' = [calls EXCEPT ![i] = c] /\ UNCHANGED <<made, pc, tries, waiting>> /\ calls[i].stage = "sent"
    BY <1>7, <2>1 DEF Arrive, Arriving
  <2>3. c.stage = "arrived"
    BY <1>6
  <2> HIDE DEF c
  <2> QED
    BY <2>2, <2>3, MoveFalls
<1>8. ASSUME NEW i \in DOMAIN calls, MockAnswers(i)
      PROVE  UNCHANGED <<pc, tries, waiting>> /\ Work' < Work
  <2>1. PICK a : calls' = [calls EXCEPT ![i].stage = "answered", ![i].answer = a.answer]
    BY <1>8 DEF MockAnswers, Answering
  <2> DEFINE c == [calls[i] EXCEPT !.stage = "answered", !.answer = a.answer]
  <2>2. calls' = [calls EXCEPT ![i] = c] /\ UNCHANGED <<made, pc, tries, waiting>> /\ calls[i].stage = "arrived"
    BY <1>8, <2>1 DEF MockAnswers, Answering
  <2>3. c.stage = "answered"
    BY <1>6
  <2> HIDE DEF c
  <2> QED
    BY <2>2, <2>3, MoveFalls
<1>9. ASSUME NEW i \in DOMAIN calls, MintHears(i)
      PROVE  On \/ (UNCHANGED <<pc, tries, waiting>> /\ Work' < Work)
  <2>1. calls' = Del(calls, i) /\ made' = made /\ (On \/ UNCHANGED <<pc, tries, waiting>>)
    BY <1>3, <1>9 DEF MintHears, Hearing
  <2> QED
    BY <2>1, EndFalls
<1>10. CASE Done \/ UNCHANGED vars
  BY <1>10 DEF Done, vars, Placed
<1> QED
  BY <1>1, <1>4, <1>5, <1>7, <1>8, <1>9, <1>10 DEF Next, Placed

(* Every step brings the end of the suite nearer, of any script, any number of
   tries and with any calls out: Progress. *)
THEOREM SuitesProgress == Spec => Progress
<1>1. Init => Placed
  <2> SUFFICES ASSUME Init PROVE Placed
    OBVIOUS
  <2>1. pc = 1 /\ waiting = FALSE
    BY DEF Init
  <2>2. pc \in Nat
    BY <2>1
  <2>3. waiting \in BOOLEAN
    BY <2>1
  <2> QED
    BY <2>2, <2>3 DEF Placed
<1>2. TypeOK => Numbered
  BY DEF TypeOK, Numbered
<1>3. TypeOK' => Numbered'
  BY DEF TypeOK, Numbered
<1>4. TypeOK /\ TypeOK' /\ Placed /\ [Next]_vars
        => /\ Placed'
           /\ [\/ pc' > pc
               \/ pc' = pc /\ tries' > tries
               \/ pc' = pc /\ tries' = tries /\ ~waiting /\ waiting'
               \/ UNCHANGED <<pc, tries, waiting>> /\ Work' < Work]_vars
  BY <1>2, <1>3, NearerStep
<1> QED
  BY <1>1, <1>4, SuitesTypeOK, PTL DEF Spec, Progress
=============================================================================
