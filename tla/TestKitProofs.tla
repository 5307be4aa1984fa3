---------------------------- MODULE TestKitProofs ----------------------------
(***************************************************************************)
(* Exit code 0 is to be trusted, and own cleanups come before the kit's: for *)
(* any suites, any number of steps, cleanups and failed calls, and an        *)
(* interrupt at any time.                                                    *)
(***************************************************************************)
EXTENDS TestKitInv, WellFoundedInduction, SequenceTheorems, TLAPS

-----------------------------------------------------------------------------
(* The order of cleanups. *)

(* Of some natural numbers one is the least. *)
LEMMA Least ==
  ASSUME NEW S \in SUBSET Nat, S # {}
  PROVE  \E n \in S : \A m \in S : n <= m
<1> DEFINE R == OpToRel(<, Nat)
<1>1. PICK n \in S : \A m \in S : ~(<<m, n>> \in R)
  <2> HIDE DEF R
  <2>1. IsWellFoundedOn(R, Nat)
    BY NatLessThanWellFounded DEF R
  <2> QED
    BY <2>1, WFMin
<1>2. \A m \in S : m < n => <<m, n>> \in R
  BY DEF OpToRel
<1>3. \A m \in S : ~(m < n)
  BY <1>1, <1>2
<1> QED
  BY <1>3

(* FlattenSeq is what is had by concatenating one list after another. *)
LEMMA FlattenIs ==
  ASSUME NEW seqs, NEW n \in Nat \ {0}, Len(seqs) = n,
         NEW w, \A i \in 1..n : w[i] = IF i = 1 THEN seqs[i] ELSE w[i - 1] \o seqs[i]
  PROVE  FlattenSeq(seqs) = w[n]
<1> DEFINE next(i, s) == s \o seqs[i]
           Def(f) == [i \in 1..n |-> IF i = 1 THEN seqs[i] ELSE next(i, f[i - 1])]
           it == CHOOSE f : f = Def(f)
<1>1. FlattenSeq(seqs) = it[n]
  BY DEF FlattenSeq
<1>2. it = Def(it)
  <2> DEFINE v == [i \in 1..n |-> w[i]]
  <2>1. v = Def(v)
    OBVIOUS
  <2> HIDE DEF Def, v
  <2> QED
    BY <2>1
<1> HIDE DEF it
<1>3. \A i \in 1..n : i # 1 => it[i] = next(i, it[i - 1]) /\ w[i] = next(i, w[i - 1])
  BY <1>2
<1>4. it[1] = seqs[1] /\ w[1] = seqs[1]
  <2>1. 1 \in 1..n
    OBVIOUS
  <2> QED
    BY <1>2, <2>1
<1> DEFINE wrong == {i \in 1..n : it[i] # w[i]}
<1>5. wrong = {}
  <2> SUFFICES ASSUME wrong # {}
               PROVE  FALSE
    OBVIOUS
  <2>1. wrong \in SUBSET Nat
    OBVIOUS
  <2> HIDE DEF next
  <2>2. PICK i \in wrong : \A j \in wrong : i <= j
    <3> HIDE DEF wrong
    <3> QED
      BY <2>1, Least
  <2>3. i \in 1..n /\ i # 1 /\ it[i] # w[i]
    BY <1>4
  <2>4. i - 1 \in 1..n /\ i - 1 \notin wrong
    BY <2>2, <2>3
  <2>5. it[i - 1] = w[i - 1]
    BY <2>4
  <2>6. it[i] = next(i, it[i - 1]) /\ w[i] = next(i, w[i - 1])
    BY <1>3, <2>3
  <2> QED
    BY <2>3, <2>5, <2>6
<1>6. n \in 1..n
  OBVIOUS
<1> QED
  BY <1>1, <1>5, <1>6

\* the calls of what is registered before the body, last first
BaseCalls(base) ==
  CASE base = <<>> -> <<>>
    [] base = <<"restore">> -> Calls("restore")
    [] base = <<"restore", "mock">> -> <<"stop">> \o Calls("restore")

(* The calls of each cleanup. *)
LEMMA CallsAre ==
  /\ Calls("own") = <<"own">> /\ Calls("mock") = <<"stop">>
  /\ Calls("restore") = IF suite.ln THEN <<"settings", "ln", "active", "compare">>
                        ELSE <<"settings", "active", "compare">>
  /\ Calls("restore") \in Seq(CallNames)
<1>1. Calls("own") = <<"own">> /\ Calls("mock") = <<"stop">>
  BY DEF Calls
<1>2. Calls("restore") = <<"settings">> \o (IF suite.ln THEN <<"ln">> ELSE <<>>) \o <<"active", "compare">>
  BY DEF Calls
<1>3. CASE suite.ln
  <2>1. Calls("restore") = <<"settings", "ln", "active", "compare">>
    BY <1>2, <1>3
  <2>2. <<"settings", "ln", "active", "compare">> \in Seq(CallNames)
    BY DEF CallNames, Restoring
  <2> QED
    BY <1>1, <1>3, <2>1, <2>2
<1>4. CASE ~suite.ln
  <2>1. Calls("restore") = <<"settings", "active", "compare">>
    BY <1>2, <1>4
  <2>2. <<"settings", "active", "compare">> \in Seq(CallNames)
    BY DEF CallNames, Restoring
  <2> QED
    BY <1>1, <1>4, <2>1, <2>2
<1> QED
  BY <1>3, <1>4

(* Own cleanups run first, and the restore last. *)
LEMMA OrderOfCleanups ==
  ASSUME NEW k \in Nat, NEW base \in {<<>>, <<"restore">>, <<"restore", "mock">>}
  PROVE  CleanupOrder(base \o Own(k)) = Own(k) \o BaseCalls(base)
<1> DEFINE c == base \o Own(k)
           n == Len(c)
           seqs == [i \in DOMAIN c |-> Calls(c[n + 1 - i])]
<1>1. /\ Own(k) \in Seq({"own"}) /\ Len(Own(k)) = k
      /\ \A i \in 1..k : Own(i) \in Seq({"own"})
  BY DEF Own
<1>2. Calls("restore") \in Seq(CallNames) /\ Calls("own") = <<"own">> /\ Calls("mock") = <<"stop">>
  BY CallsAre
<1>3. base \in Seq(Cleanups) /\ Len(base) \in 0..2
  <2>1. CASE base = <<>>
    BY <2>1
  <2>2. CASE base = <<"restore">>
    BY <2>2 DEF Cleanups
  <2>3. CASE base = <<"restore", "mock">>
    BY <2>3 DEF Cleanups
  <2> QED
    BY <2>1, <2>2, <2>3
<1>4. /\ c \in Seq(Cleanups) /\ n = Len(base) + k /\ DOMAIN c = 1..n
      /\ \A i \in 1..n : c[i] = IF i <= Len(base) THEN base[i] ELSE "own"
  BY <1>1, <1>3 DEF Cleanups, Own
<1>5. CleanupOrder(c) = FlattenSeq(seqs)
  BY DEF CleanupOrder
<1> HIDE DEF c, n
<1>6. n \in Nat /\ Len(seqs) = n
  BY <1>3, <1>4
<1>7. CASE n = 0
  <2>1. base = <<>> /\ k = 0
    BY <1>3, <1>4, <1>7
  <2>2. FlattenSeq(seqs) = seqs
    BY <1>6, <1>7 DEF FlattenSeq
  <2>3. seqs = <<>>
    BY <1>4, <1>7
  <2>4. Own(k) \o BaseCalls(base) = <<>>
    BY <2>1 DEF Own, BaseCalls
  <2> QED
    BY <1>5, <2>2, <2>3, <2>4 DEF c
<1>8. CASE n # 0
  <2> DEFINE w == [i \in 1..n |->
                    IF i <= k THEN Own(i)
                    ELSE IF i = k + 1 THEN Own(k) \o Calls(base[Len(base)])
                    ELSE Own(k) \o BaseCalls(base)]
             u == [i \in 1..n |-> IF i = 1 THEN seqs[i] ELSE w[i - 1] \o seqs[i]]
  <2>1. ASSUME NEW i \in 1..n
        PROVE  seqs[i] = IF i <= k THEN <<"own">> ELSE Calls(base[n + 1 - i])
    <3>1. n + 1 - i \in 1..n /\ (n + 1 - i <= Len(base) <=> ~(i <= k))
      BY <1>3, <1>4, <1>6
    <3>2. seqs[i] = Calls(c[n + 1 - i])
      BY <1>4
    <3> HIDE DEF seqs
    <3>3. c[n + 1 - i] = IF i <= k THEN "own" ELSE base[n + 1 - i]
      BY <1>4, <3>1
    <3> QED
      BY <1>2, <3>2, <3>3
  <2>2. ASSUME NEW i \in 1..n
        PROVE  w[i] = u[i]
    <3>1. CASE i <= k
      <4>1. CASE i = 1
        <5>1. Own(1) = <<"own">>
          BY DEF Own
        <5> QED
          BY <2>1, <3>1, <4>1, <5>1
      <4>2. CASE i # 1
        <5>1. i - 1 \in 1..n /\ i - 1 <= k /\ i \in Nat /\ i - 1 \in Nat
          BY <1>6, <3>1, <4>2
        <5>2. Own(i) = Own(i - 1) \o <<"own">>
          BY <5>1 DEF Own
        <5> HIDE DEF seqs
        <5> QED
          BY <2>1, <3>1, <4>2, <5>1, <5>2
      <4> QED
        BY <4>1, <4>2
    <3>2. CASE i = k + 1
      <4>1. n + 1 - i = Len(base)
        BY <1>3, <1>4, <3>2
      <4>2. seqs[i] = Calls(base[Len(base)])
        <5> HIDE DEF seqs
        <5>1. ~(i <= k)
          BY <3>2
        <5> QED
          BY <2>1, <4>1, <5>1
      <4>3. w[i] = Own(k) \o Calls(base[Len(base)])
        BY <3>2
      <4>4. CASE i = 1
        <5>1. base # <<>> /\ k = 0
          BY <1>3, <1>4, <3>2, <4>4
        <5>2. base[Len(base)] \in {"restore", "mock"}
          <6>1. CASE base = <<"restore">>
            BY <6>1
          <6>2. CASE base = <<"restore", "mock">>
            BY <6>2
          <6> QED
            BY <5>1, <6>1, <6>2
        <5>3. Calls(base[Len(base)]) \in Seq(CallNames)
          <6>1. CASE base[Len(base)] = "mock"
            <7>1. <<"stop">> \in Seq(CallNames)
              BY DEF CallNames
            <7> QED
              BY <1>2, <6>1, <7>1
          <6>2. CASE base[Len(base)] = "restore"
            BY <1>2, <6>2
          <6> QED
            BY <5>2, <6>1, <6>2
        <5>4. Own(k) \o Calls(base[Len(base)]) = Calls(base[Len(base)])
          BY <5>1, <5>3 DEF Own
        <5> HIDE DEF seqs, w
        <5> QED
          BY <4>2, <4>3, <4>4, <5>4
      <4>5. CASE i # 1
        <5>1. i - 1 \in 1..n /\ i - 1 = k
          BY <1>6, <3>2, <4>5
        <5>2. w[i - 1] = Own(k)
          BY <5>1
        <5> HIDE DEF seqs, w
        <5> QED
          BY <4>2, <4>3, <4>5, <5>2
      <4> QED
        BY <4>4, <4>5
    <3>3. CASE i > k + 1
      <4>1. base = <<"restore", "mock">> /\ i = k + 2 /\ n + 1 - i = 1
        BY <1>3, <1>4, <1>6, <3>3
      <4>2. seqs[i] = Calls("restore")
        BY <2>1, <3>3, <4>1
      <4>3. i - 1 \in 1..n /\ i - 1 = k + 1 /\ i # 1 /\ ~(i - 1 <= k)
        BY <1>6, <3>3, <4>1
      <4>4. w[i - 1] = Own(k) \o <<"stop">>
        BY <1>2, <4>1, <4>3
      <4>5. w[i] = Own(k) \o (<<"stop">> \o Calls("restore"))
        BY <3>3, <4>1 DEF BaseCalls
      <4>6. (Own(k) \o <<"stop">>) \o Calls("restore") = Own(k) \o (<<"stop">> \o Calls("restore"))
        <5>1. /\ Own(k) \in Seq(CallNames) /\ <<"stop">> \in Seq(CallNames)
              /\ Calls("restore") \in Seq(CallNames)
          BY <1>1, <1>2 DEF CallNames
        <5> QED
          BY <5>1, ConcatAssociative
      <4> HIDE DEF seqs, w
      <4> QED
        BY <4>2, <4>3, <4>4, <4>5, <4>6
    <3> QED
      BY <1>6, <3>1, <3>2, <3>3
  <2>3. FlattenSeq(seqs) = w[n]
    <3>1. \A i \in 1..n : w[i] = IF i = 1 THEN seqs[i] ELSE w[i - 1] \o seqs[i]
      <4>1. \A i \in 1..n : u[i] = IF i = 1 THEN seqs[i] ELSE w[i - 1] \o seqs[i]
        <5> HIDE DEF w, seqs
        <5> QED
          OBVIOUS
      <4> QED
        BY <2>2, <4>1
    <3>2. n \in Nat \ {0}
      BY <1>6, <1>8
    <3> HIDE DEF seqs, w
    <3> QED
      BY <1>6, <3>1, <3>2, FlattenIs
  <2>4. w[n] = Own(k) \o BaseCalls(base)
    <3>1. CASE base = <<>>
      <4>1. Own(k) \o <<>> = Own(k)
        BY <1>1
      <4>2. n = k /\ w[n] = Own(k)
        BY <1>4, <1>6, <1>8, <3>1
      <4> QED
        BY <3>1, <4>1, <4>2 DEF BaseCalls
    <3>2. CASE base = <<"restore">>
      <4>1. n = k + 1 /\ base[Len(base)] = "restore" /\ n \in 1..n
        BY <1>4, <1>6, <3>2
      <4>2. w[n] = Own(k) \o Calls("restore")
        BY <4>1
      <4> QED
        BY <3>2, <4>2 DEF BaseCalls
    <3>3. CASE base = <<"restore", "mock">>
      <4>1. n = k + 2 /\ n \in 1..n
        BY <1>4, <1>6, <3>3
      <4> QED
        BY <4>1
    <3> QED
      BY <3>1, <3>2, <3>3
  <2> QED
    BY <1>5, <2>3, <2>4 DEF c
<1> QED
  BY <1>7, <1>8

(* What is to do when finish is begun. *)
LEMMA TodoOf ==
  ASSUME NEW k \in Nat, NEW base \in {<<>>, <<"restore">>, <<"restore", "mock">>},
         NEW t, t = Own(k) \o BaseCalls(base)
  PROVE  /\ t \in Seq(CallNames) /\ OwnFirst(t) /\ Compared(t)
         /\ Has(t, "own") => k # 0
         /\ base # <<>> => t # <<>> /\ ComparedLast(t)
         /\ base = <<>> => \A i \in DOMAIN t : t[i] = "own"
         /\ base = <<"restore", "mock">> => Has(t, "stop")
<1> DEFINE b == BaseCalls(base)
<1>1. /\ Own(k) \in Seq(CallNames) /\ Len(Own(k)) = k /\ \A i \in 1..k : Own(k)[i] = "own"
  BY DEF Own, CallNames
<1>2. /\ b \in Seq(CallNames) /\ Len(b) \in Nat
      /\ \A i \in 1..Len(b) : b[i] # "own"
      /\ base = <<>> => Len(b) = 0
      /\ base # <<>> => Len(b) >= 1 /\ \A i \in 1..Len(b) : b[i] = "compare" <=> i = Len(b)
      /\ base = <<"restore", "mock">> => b[1] = "stop"
  <2>1. CASE base = <<>>
    <3>1. b = <<>>
      BY <2>1 DEF BaseCalls
    <3> HIDE DEF b
    <3> QED
      BY <2>1, <3>1
  <2> DEFINE r == Calls("restore")
  <2>2. /\ r \in Seq(CallNames) /\ Len(r) >= 1 /\ Len(r) \in Nat
        /\ \A i \in 1..Len(r) : r[i] # "own" /\ (r[i] = "compare" <=> i = Len(r))
    <3>1. CASE suite.ln
      <4>1. r = <<"settings", "ln", "active", "compare">>
        BY <3>1, CallsAre
      <4>2. r \in Seq(CallNames)
        BY CallsAre
      <4> HIDE DEF r
      <4>3. Len(r) = 4
        BY <4>1
      <4>4. \A i \in 1..Len(r) : r[i] # "own" /\ (r[i] = "compare" <=> i = Len(r))
        BY <4>1, <4>3
      <4> QED
        BY <4>2, <4>3, <4>4
    <3>2. CASE ~suite.ln
      <4>1. r = <<"settings", "active", "compare">>
        BY <3>2, CallsAre
      <4>2. r \in Seq(CallNames)
        BY CallsAre
      <4> HIDE DEF r
      <4>3. Len(r) = 3
        BY <4>1
      <4>4. \A i \in 1..Len(r) : r[i] # "own" /\ (r[i] = "compare" <=> i = Len(r))
        BY <4>1, <4>3
      <4> QED
        BY <4>2, <4>3, <4>4
    <3> QED
      BY <3>1, <3>2
  <2>3. CASE base = <<"restore">>
    <3>1. b = r
      BY <2>3 DEF BaseCalls
    <3> HIDE DEF b, r
    <3> QED
      BY <2>2, <2>3, <3>1
  <2>4. CASE base = <<"restore", "mock">>
    <3>1. b = <<"stop">> \o r
      BY <2>4 DEF BaseCalls
    <3>2. "stop" \in CallNames
      BY DEF CallNames
    <3> HIDE DEF b, r
    <3>3. b \in Seq(CallNames) /\ Len(b) = Len(r) + 1
      BY <2>2, <3>1, <3>2
    <3>4. \A i \in 1..Len(b) : b[i] = IF i = 1 THEN "stop" ELSE r[i - 1]
      BY <2>2, <3>1, <3>3
    <3>5. \A i \in 1..Len(b) : i # 1 => i - 1 \in 1..Len(r)
      BY <2>2, <3>3
    <3>6. Len(b) >= 1 /\ b[1] = "stop"
      BY <2>2, <3>3, <3>4
    <3>7. \A i \in 1..Len(b) : b[i] # "own" /\ (b[i] = "compare" <=> i = Len(b))
      <4> TAKE i \in 1..Len(b)
      <4>1. CASE i = 1
        BY <2>2, <3>3, <3>4, <4>1
      <4>2. CASE i # 1
        <5>1. b[i] = r[i - 1] /\ i - 1 \in 1..Len(r)
          BY <3>4, <3>5, <4>2
        <5>2. i - 1 = Len(r) <=> i = Len(b)
          BY <2>2, <3>3
        <5> QED
          BY <2>2, <5>1, <5>2
      <4> QED
        BY <4>1, <4>2
    <3> QED
      BY <2>4, <3>3, <3>6, <3>7
  <2> QED
    BY <2>1, <2>3, <2>4
<1>3. t = Own(k) \o b
  OBVIOUS
<1> HIDE DEF b
<1>4. /\ t \in Seq(CallNames) /\ Len(t) = k + Len(b) /\ DOMAIN t = 1..Len(t)
      /\ \A i \in 1..Len(t) : t[i] = IF i <= k THEN "own" ELSE b[i - k]
      /\ \A i \in 1..Len(t) : i > k => i - k \in 1..Len(b)
  <2>1. t \in Seq(CallNames) /\ Len(t) = k + Len(b)
    BY <1>1, <1>2, <1>3, ConcatProperties
  <2>2. DOMAIN t = 1..Len(t)
    BY <2>1
  <2>3. ASSUME NEW i \in 1..Len(t)
        PROVE  t[i] = IF i <= k THEN "own" ELSE b[i - k]
    <3>1. t[i] = IF i <= k THEN Own(k)[i] ELSE b[i - k]
      BY <1>1, <1>2, <1>3, <2>1
    <3> QED
      BY <1>1, <3>1
  <2>4. \A i \in 1..Len(t) : i > k => i - k \in 1..Len(b)
    BY <1>2, <2>1
  <2> QED
    BY <2>1, <2>2, <2>3, <2>4
<1>5. \A i \in 1..Len(t) : t[i] = "own" <=> i <= k
  <2> TAKE i \in 1..Len(t)
  <2>1. i <= k => t[i] = "own"
    BY <1>4
  <2>2. i > k => t[i] = b[i - k] /\ b[i - k] # "own"
    <3>1. i > k => t[i] = b[i - k]
      BY <1>4
    <3> QED
      BY <1>2, <1>4, <3>1
  <2> QED
    BY <1>4, <2>1, <2>2
<1>6. OwnFirst(t) /\ (Has(t, "own") => k # 0)
  BY <1>4, <1>5, SMTT(30) DEF OwnFirst, Has
<1>7. base # <<>> => t # <<>> /\ ComparedLast(t) /\ Compared(t)
  <2> SUFFICES ASSUME base # <<>>
               PROVE  t # <<>> /\ ComparedLast(t) /\ Compared(t)
    OBVIOUS
  <2>1. Len(t) >= 1 /\ Len(t) \in Nat
    BY <1>2, <1>4
  <2>2. ComparedLast(t)
    <3>1. ASSUME NEW i \in 1..Len(t)
          PROVE  t[i] = "compare" <=> i = Len(t)
      <4>1. CASE i <= k
        BY <1>2, <1>4, <1>5, <4>1
      <4>2. CASE i > k
        <5>1. t[i] = b[i - k] /\ i - k \in 1..Len(b)
          BY <1>4, <4>2
        <5>2. i - k = Len(b) <=> i = Len(t)
          BY <1>2, <1>4
        <5> QED
          BY <1>2, <5>1, <5>2
      <4> QED
        BY <1>4, <4>1, <4>2
    <3> QED
      BY <1>4, <3>1 DEF ComparedLast
  <2> QED
    BY <1>4, <2>1, <2>2 DEF Compared, ComparedLast
<1>8. base = <<>> => (\A i \in DOMAIN t : t[i] = "own") /\ Compared(t)
  BY <1>2, <1>4, <1>5 DEF Compared, Restoring
<1>9. base = <<"restore", "mock">> => Has(t, "stop")
  <2>1. base = <<"restore", "mock">> => k + 1 \in DOMAIN t /\ t[k + 1] = b[1]
    BY <1>2, <1>4
  <2> QED
    BY <1>2, <2>1 DEF Has
<1> QED
  BY <1>4, <1>6, <1>7, <1>8, <1>9

\* what is left after the first n
Rest(t, n) == SubSeq(t, n + 1, Len(t))

(* What is left when a part of it is done. *)
LEMMA SuffixKept ==
  ASSUME NEW t \in Seq(CallNames), NEW n \in 1..Len(t), OwnFirst(t), Compared(t),
         NEW u, u = Rest(t, n)
  PROVE  /\ u \in Seq(CallNames) /\ OwnFirst(u) /\ Compared(u)
         /\ Len(u) = Len(t) - n /\ \A i \in 1..Len(u) : u[i] = t[i + n]
         /\ Has(u, "own") => t[n] = "own" /\ Has(t, "own")
         /\ (\A i \in DOMAIN t : t[i] = "own") => \A i \in DOMAIN u : u[i] = "own"
<1>0. n \in Nat /\ 1 <= n /\ n <= Len(t) /\ Len(t) \in Nat
  OBVIOUS
<1>1. /\ u \in Seq(CallNames) /\ Len(u) = Len(t) - n
      /\ DOMAIN u = 1..Len(u) /\ DOMAIN t = 1..Len(t)
      /\ \A i \in 1..Len(u) : u[i] = t[i + n] /\ i + n \in 1..Len(t)
  BY DEF Rest
<1>5. Len(u) = Len(t) - n /\ Len(u) \in Int /\ \A i \in 1..Len(u) : i \in Int /\ 1 <= i
  <2>1. Len(u) = Len(t) - n
    BY <1>1
  <2>2. Len(t) - n \in Int
    BY <1>0
  <2>3. Len(u) \in Int
    BY <2>1, <2>2
  <2> QED
    BY <2>1, <2>3
<1>2. OwnFirst(u)
  <2> SUFFICES ASSUME NEW i \in 1..Len(u), NEW j \in 1..Len(u), i <= j, u[j] = "own"
               PROVE  u[i] = "own"
    BY <1>1 DEF OwnFirst
  <2>1. u[i] = t[i + n] /\ i + n \in DOMAIN t /\ u[j] = t[j + n] /\ j + n \in DOMAIN t
    BY <1>1
  <2>2. i + n <= j + n
    BY <1>0
  <2> QED
    BY <2>1, <2>2 DEF OwnFirst
<1>3. Compared(u)
  <2> SUFFICES ASSUME NEW i \in 1..Len(u), u[i] \in Restoring
               PROVE  \E j \in 1..Len(u) : i <= j /\ u[j] = "compare"
    BY <1>1 DEF Compared
  <2>1. PICK j \in 1..Len(t) : i + n <= j /\ t[j] = "compare"
    BY <1>1 DEF Compared
  <2>2. j - n \in 1..Len(u) /\ i <= j - n /\ (j - n) + n = j
    <3>1. Len(u) = Len(t) - n /\ i \in Nat /\ 1 <= i
      BY <1>5
    <3> QED
      BY <1>0, <2>1, <3>1
  <2>3. u[j - n] = t[(j - n) + n]
    BY <1>1, <2>2
  <2> QED
    BY <2>1, <2>2, <2>3
<1>4. Has(u, "own") => t[n] = "own" /\ Has(t, "own")
  <2> SUFFICES ASSUME NEW i \in 1..Len(u), u[i] = "own"
               PROVE  t[n] = "own" /\ Has(t, "own")
    BY <1>1 DEF Has
  <2>1. i + n \in DOMAIN t /\ t[i + n] = "own" /\ n <= i + n /\ n \in DOMAIN t
    <3>1. i + n \in DOMAIN t /\ t[i + n] = "own"
      BY <1>1
    <3>2. n \in DOMAIN t
      BY <1>0, <1>1
    <3>3. i \in Int /\ 1 <= i
      BY <1>5
    <3>4. n <= i + n
      BY <1>0, <3>3
    <3> QED
      BY <3>1, <3>2, <3>4
  <2>2. t[n] = "own"
    BY <2>1 DEF OwnFirst
  <2> QED
    BY <2>1, <2>2 DEF Has
<1> QED
  BY <1>1, <1>2, <1>3, <1>4

-----------------------------------------------------------------------------
(* Each step keeps the invariant. *)

(* A suite asks what suites may ask. *)
LEMMA SuiteTyped ==
  ASSUME Typed, suites # <<>>
  PROVE  suite \in Suite /\ (suite.ln => suite.mutates) /\ suite.ln \in BOOLEAN /\ suite.mutates \in BOOLEAN
<1>1. suite \in Suite
  BY DEF Typed, suite
<1> QED
  BY <1>1 DEF Suite

(* A call, however it ends, changes nothing of a process but its faults. *)
LEMMA CalledIs ==
  ASSUME Typed, NEW o
  PROVE  \E f \in Nat : Called(o) = [p EXCEPT !.faults = f]
<1>1. p.faults \in Nat
  BY DEF Typed, Process
<1> QED
  BY <1>1 DEF Called

(* A process with nothing more to do ends, with the code of who waited first. *)
LEMMA EndedIs ==
  ASSUME NEW q \in Process
  PROVE  /\ Ended(q) \in Process
         /\ q.todo # <<>> => Ended(q) = q
         /\ q.todo = <<>> =>
              /\ Ended(q).at = "exited" /\ Ended(q).todo = <<>> /\ Ended(q).finishing = q.finishing
              /\ Ended(q).failed = q.failed /\ Ended(q).child = q.child /\ Ended(q).before = q.before
              /\ Ended(q).left = q.left
              /\ Ended(q).code = 0 => q.waiters[1] # "sigint" /\ ~q.failed
<1>1. CASE q.todo # <<>>
  BY <1>1 DEF Ended
<1>2. CASE q.todo = <<>>
  <2> DEFINE code == IF q.waiters[1] = "sigint" THEN 130 ELSE IF q.failed THEN 1 ELSE 0
  <2>1. Ended(q) = [q EXCEPT !.at = "exited", !.code = code]
    BY <1>2 DEF Ended
  <2>2. code \in {0, 1, 13, 130} /\ (code = 0 => q.waiters[1] # "sigint" /\ ~q.failed)
    OBVIOUS
  <2> HIDE DEF code
  <2>3. Ended(q) \in Process
    <3>1. code \in {0, 1, 13, 130}
      BY <2>2
    <3>2. [q EXCEPT !.at = "exited", !.code = code] \in Process
      BY <3>1 DEF Process
    <3> QED
      BY <2>1, <3>2
  <2>4. /\ Ended(q).at = "exited" /\ Ended(q).code = code /\ Ended(q).todo = q.todo
        /\ Ended(q).finishing = q.finishing /\ Ended(q).failed = q.failed
        /\ Ended(q).child = q.child /\ Ended(q).before = q.before /\ Ended(q).left = q.left
    BY <2>1 DEF Process
  <2> QED
    BY <1>2, <2>2, <2>3, <2>4
<1> QED
  BY <1>1, <1>2

\* Given, of a process and a ship
GivenTo(q, s) == s = q.left /\ (suite.ln => q.child = "up" \/ Killed(q.child))

(* A step of finish, of who comes to wait for it, or of who begins it. *)
LEMMA FinishKept ==
  ASSUME KitInv, suites # <<>>, UNCHANGED <<env, found, results>>, suites' \in {suites, <<suite>>},
         ship' \in Ships,
         NEW q \in Process, p' = Ended(q), q.finishing, q.waiters # <<>>,
         q.at \notin {"gates", "exited"}, q.at = "snapshot" => q.todo = <<>>,
         q.at \in {"mock", "starting", "configure"} => suite.ln,
         ~suite.mutates => ship' = found /\ \A i \in DOMAIN q.todo : q.todo[i] = "own",
         ~suite.ln => ~Alive(q.child),
         suite.mutates /\ ~q.failed /\ q.todo # <<>> => q.before = found,
         OwnFirst(q.todo), Compared(q.todo),
         Has(q.todo, "own") => q.at \in {"body", "finally", "waiting"} /\ GivenTo(q, ship'),
         q.waiters[1] = "run" => q.at = "waiting",
         q.waiters[1] = "run" /\ ~q.failed =>
           IF q.todo = <<>> THEN ship' = found /\ ~Alive(q.child)
           ELSE (suite.mutates => ComparedLast(q.todo)) /\ (Alive(q.child) => Has(q.todo, "stop"))
  PROVE  KitInv'
<1>0. suite' = suite /\ suites' \in Seq(Suite)
  <2>1. suite \in Suite
    BY SuiteTyped DEF KitInv
  <2>2. suites \in Seq(Suite) /\ <<suite>> \in Seq(Suite)
    BY <2>1 DEF KitInv, Typed
  <2>3. Head(<<suite>>) = suite
    OBVIOUS
  <2> QED
    BY <2>2, <2>3 DEF suite
<1>1. Typed' /\ ZeroIsClean' /\ p' \in Process
  BY <1>0, EndedIs DEF KitInv, Typed, ZeroIsClean
<1>2. suite' = suite
  BY <1>0
<1>3. q.waiters[1] \in {"run", "sigint"}
  BY DEF Process
<1>4. p'.finishing
  BY EndedIs
<1>5. CASE q.todo # <<>>
  <2>1. p' = q
    BY <1>5, EndedIs
  <2>2. Registered' /\ Over'
    BY <1>4, <2>1 DEF Registered, Over
  <2>3. Untouched'
    BY <1>2, <1>5, <2>1 DEF Untouched
  <2>4. Finishing'
    BY <1>2, <1>5, <2>1 DEF Finishing, Led, Given, GivenTo
  <2> QED
    BY <1>1, <2>2, <2>3, <2>4 DEF KitInv
<1>6. CASE q.todo = <<>>
  <2>1. /\ p'.at = "exited" /\ p'.todo = <<>> /\ p'.failed = q.failed /\ p'.child = q.child
        /\ p'.before = q.before /\ (p'.code = 0 => q.waiters[1] = "run" /\ ~q.failed)
    BY <1>3, <1>6, EndedIs
  <2>2. Registered' /\ Finishing'
    BY <1>4, <2>1 DEF Registered, Finishing
  <2>3. Untouched'
    BY <1>2, <2>1 DEF Untouched
  <2>4. Over'
    BY <1>6, <2>1 DEF Over
  <2> QED
    BY <1>1, <2>2, <2>3, <2>4 DEF KitInv
<1> QED
  BY <1>5, <1>6

(* A step of a body, or of what comes before it, beside a finish that an      *)
(* interrupt began.                                                          *)
LEMMA BesideKept ==
  ASSUME KitInv, suites # <<>>, UNCHANGED <<env, suites, found, results>>, ship' \in Ships,
         p.finishing, p.at \in {"mock", "starting", "configure", "body"},
         p' \in Process, p'.finishing, p'.at \in {"starting", "configure", "body", "finally"},
         p'.todo = p.todo, p'.waiters = p.waiters, p'.before = p.before, p.failed => p'.failed,
         p'.at \in {"starting", "configure"} => suite.ln, ~suite.ln => ~Alive(p'.child),
         p.at = "body" => /\ p'.at \in {"body", "finally"} /\ p'.child = p.child
                          /\ (ship = p.left => ship' = p'.left),
         ~suite.mutates => ship' = ship
  PROVE  KitInv'
<1>1. Typed' /\ ZeroIsClean'
  BY DEF KitInv, Typed, ZeroIsClean
<1>2. suite' = suite
  BY DEF suite
<1>3. Registered' /\ Over'
  BY DEF Registered, Over
<1>4. Untouched'
  BY <1>2 DEF KitInv, Untouched
<1>5. ~Led /\ ~Led' /\ p.at # "exited"
  BY DEF KitInv, Finishing, Led
<1>6. Finishing'
  BY <1>2, <1>5 DEF KitInv, Finishing, Given
<1> QED
  BY <1>1, <1>3, <1>4, <1>6 DEF KitInv

(* A body begins with what was registered before it, and adds its own. *)
LEMMA OwnGrows ==
  /\ WithOwn(Base)
  /\ \A c : WithOwn(c) => WithOwn(Append(c, "own"))
<1>1. Base \in Seq(Cleanups)
  <2>1. <<>> \in Seq(Cleanups)
    OBVIOUS
  <2>2. <<"restore">> \in Seq(Cleanups)
    BY DEF Cleanups
  <2>3. <<"restore", "mock">> \in Seq(Cleanups)
    BY DEF Cleanups
  <2> QED
    BY <2>1, <2>2, <2>3 DEF Base
<1>2. \A k \in Nat : Own(k) \in Seq(Cleanups) /\ Len(Own(k)) = k
  BY DEF Own, Cleanups
<1> HIDE DEF Base
<1>3. WithOwn(Base)
  <2>1. Own(0) = <<>>
    BY DEF Own
  <2>2. Base = Base \o Own(0) /\ 0 \in 0..Len(Base)
    BY <1>1, <2>1
  <2> QED
    BY <2>2 DEF WithOwn
<1>4. ASSUME NEW c, WithOwn(c)
      PROVE  WithOwn(Append(c, "own"))
  <2>1. PICK k \in 0..Len(c) : c = Base \o Own(k)
    BY <1>4 DEF WithOwn
  <2>2. k \in Nat
    OBVIOUS
  <2>3. Own(k + 1) = Append(Own(k), "own")
    BY <2>2 DEF Own
  <2>4. "own" \in Cleanups
    BY DEF Cleanups
  <2>5. Append(c, "own") = Base \o Own(k + 1)
    <3> DEFINE o == Own(k)
    <3>1. o \in Seq(Cleanups) /\ Own(k + 1) = Append(o, "own")
      BY <1>2, <2>2, <2>3
    <3> HIDE DEF o
    <3>2. Append(Base \o o, "own") = Base \o Append(o, "own")
      <4>1. Base \o o \in Seq(Cleanups) /\ <<"own">> \in Seq(Cleanups)
        BY <1>1, <2>4, <3>1
      <4>2. Append(Base \o o, "own") = (Base \o o) \o <<"own">>
        BY <2>4, <4>1, AppendIsConcat
      <4>3. Append(o, "own") = o \o <<"own">>
        BY <2>4, <3>1, AppendIsConcat
      <4>4. (Base \o o) \o <<"own">> = Base \o (o \o <<"own">>)
        BY <1>1, <3>1, <4>1, ConcatAssociative, SMTT(30)
      <4> QED
        BY <4>2, <4>3, <4>4
    <3> QED
      BY <2>1, <3>1, <3>2 DEF o
  <2>6. c \in Seq(Cleanups) /\ Len(c) \in Nat /\ Len(Append(c, "own")) = Len(c) + 1
    BY <1>1, <1>2, <2>1, <2>2, <2>4
  <2>7. k + 1 \in 0..Len(Append(c, "own"))
    BY <2>2, <2>6
  <2> QED
    BY <2>5, <2>7 DEF WithOwn
<1> QED
  BY <1>3, <1>4

(* A suite whose gates refuse ends with nothing registered and nothing done. *)
LEMMA GatesKept ==
  ASSUME KitInv, suites # <<>>, Gates
  PROVE  KitInv'
<1>1. /\ p.at = "gates" /\ ~p.finishing /\ p.cleanups = <<>> /\ p.todo = <<>> /\ p.waiters = <<>>
      /\ ship = found /\ p.left = found /\ p.child = "none" /\ ~p.failed /\ p \in Process
  BY DEF Gates, KitInv, Typed, Registered, Untouched
<1>2. UNCHANGED <<env, suites, ship, port, found, results>> /\ suite' = suite
  BY DEF Gates, suite
<1>3. ASSUME NEW c \in {0, 1}, p' = Exited(c)
      PROVE  KitInv'
  <2>1. p' \in Process
    BY <1>1, <1>3 DEF Exited, Process
  <2>2. /\ p'.at = "exited" /\ ~p'.finishing /\ p'.todo = <<>> /\ p'.waiters = <<>>
        /\ p'.child = "none" /\ ~p'.failed
    BY <1>1, <1>3 DEF Exited, Process
  <2>3. Registered' /\ Untouched' /\ Finishing' /\ Over'
    BY <1>1, <1>2, <2>2 DEF Registered, Untouched, Finishing, Over, Alive
  <2> QED
    BY <1>2, <2>1, <2>3 DEF KitInv, Typed, ZeroIsClean
<1>4. ASSUME p' = [p EXCEPT !.at = IF suite.mutates THEN "snapshot" ELSE "body"]
      PROVE  KitInv'
  <2>1. p' \in Process
    BY <1>1, <1>4 DEF Process
  <2>2. /\ p'.at = IF suite.mutates THEN "snapshot" ELSE "body"
        /\ ~p'.finishing /\ p'.todo = <<>> /\ p'.waiters = <<>> /\ p'.cleanups = <<>>
        /\ p'.child = "none" /\ ~p'.failed /\ p'.left = found
    BY <1>1, <1>4 DEF Process
  <2>3. suite.ln => suite.mutates
    BY SuiteTyped DEF KitInv
  <2>4. ~suite.mutates => WithOwn(p.cleanups)'
    BY <1>2, <2>2, <2>3, OwnGrows DEF Base, WithOwn
  <2>5. Registered'
    BY <1>1, <1>2, <2>2, <2>3, <2>4 DEF Registered, Given
  <2>6. Untouched' /\ Finishing' /\ Over'
    BY <1>1, <1>2, <2>2, <2>3 DEF Untouched, Finishing, Over, Alive
  <2> QED
    BY <1>2, <2>1, <2>5, <2>6 DEF KitInv, Typed, ZeroIsClean
<1> QED
  BY <1>3, <1>4 DEF Gates

(* The snapshot registers the restore before anything is changed. *)
LEMMA SnapshotKept ==
  ASSUME KitInv, suites # <<>>, Snapshot
  PROVE  KitInv'
<1>1. /\ p.at = "snapshot" /\ ~p.finishing /\ p.cleanups = <<>> /\ p.todo = <<>> /\ p.waiters = <<>>
      /\ ship = found /\ p.left = found /\ p.child = "none" /\ p \in Process /\ suite.mutates /\ ship \in Ships
  BY DEF Snapshot, KitInv, Typed, Registered, Untouched
<1>2. UNCHANGED <<env, suites, ship, port, found, results>> /\ suite' = suite
  BY DEF Snapshot, suite
<1>3. ASSUME NEW f \in Nat, p' = Thrown([p EXCEPT !.faults = f])
      PROVE  KitInv'
  <2>1. p' \in Process
    BY <1>1, <1>3 DEF Thrown, Process
  <2>2. /\ p'.at = "finally" /\ ~p'.finishing /\ p'.todo = <<>> /\ p'.waiters = <<>> /\ p'.cleanups = <<>>
        /\ p'.child = "none" /\ p'.failed
    BY <1>1, <1>3 DEF Thrown, Process
  <2>3. Registered' /\ Untouched' /\ Finishing' /\ Over'
    BY <1>1, <1>2, <2>2 DEF Registered, Untouched, Finishing, Over, Alive
  <2> QED
    BY <1>2, <2>1, <2>3 DEF KitInv, Typed, ZeroIsClean
<1>4. ASSUME p' = Exited(1)
      PROVE  KitInv'
  <2>1. p' \in Process
    BY <1>1, <1>4 DEF Exited, Process
  <2>2. /\ p'.at = "exited" /\ ~p'.finishing /\ p'.todo = <<>> /\ p'.waiters = <<>>
        /\ p'.child = "none" /\ p'.code = 1
    BY <1>1, <1>4 DEF Exited, Process
  <2>3. Registered' /\ Untouched' /\ Finishing' /\ Over'
    BY <1>1, <1>2, <2>2 DEF Registered, Untouched, Finishing, Over, Alive
  <2> QED
    BY <1>2, <2>1, <2>3 DEF KitInv, Typed, ZeroIsClean
<1>5. ASSUME p' = [p EXCEPT !.before = ship, !.cleanups = Append(@, "restore"),
                            !.at = IF suite.ln THEN "mock" ELSE "body"]
      PROVE  KitInv'
  <2>1. Append(p.cleanups, "restore") = <<"restore">> /\ <<"restore">> \in Seq(Cleanups)
    BY <1>1 DEF Cleanups
  <2>2. p' = [p EXCEPT !.before = ship, !.cleanups = <<"restore">>,
                       !.at = IF suite.ln THEN "mock" ELSE "body"]
    BY <1>1, <1>5, <2>1 DEF Process
  <2>3. p' \in Process
    BY <1>1, <2>1, <2>2, ZenonT(60) DEF Process
  <2>4. /\ p'.at = IF suite.ln THEN "mock" ELSE "body"
        /\ ~p'.finishing /\ p'.todo = <<>> /\ p'.waiters = <<>> /\ p'.cleanups = <<"restore">>
        /\ p'.child = "none" /\ p'.before = ship /\ p'.left = found
    BY <1>1, <2>2 DEF Process
  <2>5. ~suite.ln => WithOwn(p.cleanups)'
    BY <1>1, <1>2, <2>4, OwnGrows DEF Base, WithOwn
  <2>6. Registered'
    BY <1>1, <1>2, <2>4, <2>5 DEF Registered, Given
  <2>7. Untouched' /\ Finishing' /\ Over'
    BY <1>1, <1>2, <2>4 DEF Untouched, Finishing, Over, Alive
  <2> QED
    BY <1>2, <2>3, <2>6, <2>7 DEF KitInv, Typed, ZeroIsClean
<1>6. \A o : \E f \in Nat : Called(o) = [p EXCEPT !.faults = f]
  BY CalledIs DEF KitInv
<1> QED
  BY <1>3, <1>4, <1>5, <1>6 DEF Snapshot

(* The mock is spawned, and its stop registered. *)
LEMMA StartMockKept ==
  ASSUME KitInv, suites # <<>>, StartMock
  PROVE  KitInv'
<1>1. p.at = "mock" /\ p \in Process /\ suite.ln /\ suite.mutates
  BY SuiteTyped DEF StartMock, KitInv, Typed, Untouched
<1>2. UNCHANGED <<env, suites, ship, found, results>> /\ suite' = suite /\ ship' \in Ships
  BY DEF StartMock, suite, KitInv, Typed
<1>3. p' \in Process
  <2>1. "mock" \in Cleanups /\ p.cleanups \in Seq(Cleanups)
    BY <1>1 DEF Cleanups, Process
  <2>2. Append(p.cleanups, "mock") \in Seq(Cleanups)
    BY <2>1
  <2> QED
    BY <1>1, <2>2, ZenonT(60) DEF StartMock, Process
<1>4. /\ p'.finishing = p.finishing /\ p'.todo = p.todo /\ p'.waiters = p.waiters
      /\ p'.before = p.before /\ p'.child = "spawned" /\ p'.at = "starting"
      /\ p'.cleanups = Append(p.cleanups, "mock") /\ p'.failed = p.failed
  BY <1>1 DEF StartMock, Process
<1>5. CASE p.finishing
  BY <1>1, <1>2, <1>3, <1>4, <1>5, BesideKept
<1>6. CASE ~p.finishing
  <2>1. p.cleanups = <<"restore">> /\ p.todo = <<>> /\ p.waiters = <<>>
    BY <1>1, <1>6 DEF KitInv, Registered
  <2>2. p'.cleanups = <<"restore", "mock">>
    <3>1. <<"restore">> \in Seq(Cleanups) /\ "mock" \in Cleanups
      BY DEF Cleanups
    <3> DEFINE s == Append(<<"restore">>, "mock")
    <3>2. s \in Seq(Cleanups) /\ Len(s) = 2 /\ s[1] = "restore" /\ s[2] = "mock"
      BY <3>1
    <3> HIDE DEF s
    <3>3. s = <<"restore", "mock">>
      BY <3>2
    <3> QED
      BY <1>4, <2>1, <3>3 DEF s
  <2>3. Registered'
    BY <1>4, <1>6, <2>1, <2>2 DEF Registered
  <2>4. Untouched' /\ Finishing' /\ Over'
    BY <1>1, <1>2, <1>4, <1>6 DEF KitInv, Untouched, Finishing, Over
  <2> QED
    BY <1>2, <1>3, <2>3, <2>4 DEF KitInv, Typed, ZeroIsClean
<1> QED
  BY <1>5, <1>6

(* What becomes of the mock: a child that runs may come up or exit, and one that *)
(* was killed is told of.  Nothing else changes.                             *)
LEMMA ChildKept ==
  ASSUME KitInv, suites # <<>>, MockListens \/ ExitSeen
  PROVE  KitInv'
<1>1. PICK c \in {"up", "exited", "gone"} :
        /\ p' = [p EXCEPT !.child = c]
        /\ Alive(c) => Alive(p.child)
        /\ p.child = "up" \/ Killed(p.child) => Killed(c)
  BY DEF MockListens, ExitSeen, Alive, Killed
<1>2. /\ UNCHANGED <<env, suites, ship, found, results>> /\ p.at # "exited" /\ p.child # "none"
      /\ suite' = suite /\ p \in Process
  BY DEF MockListens, ExitSeen, suite, KitInv, Typed
<1>3. /\ p' \in Process /\ p'.child = c /\ p'.at = p.at /\ p'.before = p.before /\ p'.left = p.left
      /\ p'.cleanups = p.cleanups /\ p'.finishing = p.finishing /\ p'.todo = p.todo
      /\ p'.waiters = p.waiters /\ p'.failed = p.failed
  BY <1>1, <1>2, ZenonT(60) DEF Process
<1>4. Given => Given'
  BY <1>1, <1>2, <1>3 DEF Given
<1>5. WithOwn(p.cleanups)' <=> WithOwn(p.cleanups)
  BY <1>2, <1>3 DEF WithOwn, Base
<1>6. Registered'
  BY <1>1, <1>2, <1>3, <1>4, <1>5 DEF KitInv, Registered
<1>7. Untouched'
  BY <1>1, <1>2, <1>3 DEF KitInv, Untouched
<1>8. Finishing' /\ Over'
  BY <1>1, <1>2, <1>3, <1>4 DEF KitInv, Finishing, Led, Over
<1> QED
  BY <1>2, <1>3, <1>6, <1>7, <1>8 DEF KitInv, Typed, ZeroIsClean

(* The mock answers before the mint is pointed at it, or the suite fails. *)
LEMMA MockStartsKept ==
  ASSUME KitInv, suites # <<>>, MockStarts
  PROVE  KitInv'
<1>1. p.at = "starting" /\ p \in Process /\ suite.ln /\ suite.mutates
  BY SuiteTyped DEF MockStarts, KitInv, Typed, Untouched
<1>2. UNCHANGED <<env, suites, ship, found, results>> /\ suite' = suite /\ ship' \in Ships
  BY DEF MockStarts, suite, KitInv, Typed
<1>3. \E f \in Nat, a \in {"configure", "finally"} :
        /\ a = "configure" => p.child = "up"
        /\ p' = [p EXCEPT !.faults = f, !.at = a, !.failed = IF a = "finally" THEN TRUE ELSE @]
  <2>1. PICK n \in Nat : Called("down") = [p EXCEPT !.faults = n]
    BY CalledIs DEF KitInv
  <2>2. p.faults \in Nat
    BY <1>1 DEF Process
  <2>3. CASE p.child = "up" /\ p' = [p EXCEPT !.at = "configure"]
    <3>1. p' = [p EXCEPT !.faults = p.faults, !.at = "configure", !.failed = @]
      BY <1>1, <2>3 DEF Process
    <3> QED
      BY <2>2, <2>3, <3>1
  <2>4. CASE p' = Thrown(p)
    <3>1. p' = [p EXCEPT !.faults = p.faults, !.at = "finally", !.failed = TRUE]
      BY <1>1, <2>4 DEF Thrown, Process
    <3> QED
      BY <2>2, <3>1
  <2>5. CASE p' = Thrown(Called("down"))
    <3>1. p' = [p EXCEPT !.faults = n, !.at = "finally", !.failed = TRUE]
      BY <1>1, <2>1, <2>5 DEF Thrown, Process
    <3> QED
      BY <3>1
  <2> QED
    BY <2>3, <2>4, <2>5 DEF MockStarts
<1>4. PICK f \in Nat, a \in {"configure", "finally"} :
        /\ a = "configure" => p.child = "up"
        /\ p' = [p EXCEPT !.faults = f, !.at = a, !.failed = IF a = "finally" THEN TRUE ELSE @]
  BY <1>3
<1>5. /\ p' \in Process
      /\ p'.finishing = p.finishing /\ p'.todo = p.todo /\ p'.waiters = p.waiters
      /\ p'.before = p.before /\ p'.child = p.child /\ p'.at = a /\ p'.cleanups = p.cleanups
      /\ p'.failed = IF a = "finally" THEN TRUE ELSE p.failed
  BY <1>1, <1>4, ZenonT(60) DEF Process
<1>6. CASE p.finishing
  BY <1>1, <1>2, <1>5, <1>6, BesideKept
<1>7. CASE ~p.finishing
  <2>1. p.cleanups = <<"restore", "mock">> /\ p.todo = <<>> /\ p.waiters = <<>>
    BY <1>1, <1>7 DEF KitInv, Registered
  <2>2. Registered'
    BY <1>1, <1>2, <1>4, <1>5, <1>7, <2>1 DEF Registered
  <2>3. Untouched' /\ Finishing' /\ Over'
    BY <1>1, <1>2, <1>5, <1>7 DEF KitInv, Untouched, Finishing, Over
  <2> QED
    BY <1>2, <1>5, <2>2, <2>3 DEF KitInv, Typed, ZeroIsClean
<1> QED
  BY <1>6, <1>7

(* The mint is pointed at a mock that is up, under a registered restore. *)
LEMMA ConfigureKept ==
  ASSUME KitInv, suites # <<>>, Configure
  PROVE  KitInv'
<1>1. /\ p.at = "configure" /\ p \in Process /\ ship \in Ships
      /\ suite.ln /\ suite.mutates
  BY SuiteTyped DEF Configure, KitInv, Typed, Untouched
<1>2. UNCHANGED <<env, suites, found, results>> /\ suite' = suite
  BY DEF Configure, suite
<1>3. PICK o \in Outcomes :
        /\ ship' = IF Effect(o) THEN [ship EXCEPT !.ln = "mock"] ELSE ship
        /\ p' = IF o = "ok" THEN [p EXCEPT !.at = "body", !.left = ship'] ELSE Thrown(Called(o))
  BY DEF Configure
<1>4. ship' \in Ships
  BY <1>1, <1>3 DEF Ships, Effect
<1>5. PICK f \in Nat, a \in {"body", "finally"} :
        /\ a = "body" <=> o = "ok"
        /\ p' = [p EXCEPT !.faults = f, !.at = a, !.failed = IF a = "finally" THEN TRUE ELSE @,
                          !.left = IF a = "body" THEN ship' ELSE @]
  <2>1. PICK f \in Nat : Called(o) = [p EXCEPT !.faults = f]
    BY CalledIs DEF KitInv
  <2>2. CASE o = "ok"
    <3>1. p.faults \in Nat /\ p' = [p EXCEPT !.faults = p.faults, !.at = "body", !.failed = @,
                                               !.left = ship']
      BY <1>1, <1>3, <2>2 DEF Process
    <3> QED
      BY <2>2, <3>1
  <2>3. CASE o # "ok"
    <3>1. p' = [p EXCEPT !.faults = f, !.at = "finally", !.failed = TRUE, !.left = @]
      BY <1>1, <1>3, <2>1, <2>3 DEF Process, Thrown
    <3> QED
      BY <2>3, <3>1
  <2> QED
    BY <2>2, <2>3
<1>6. /\ p' \in Process
      /\ p'.finishing = p.finishing /\ p'.todo = p.todo /\ p'.waiters = p.waiters
      /\ p'.before = p.before /\ p'.child = p.child /\ p'.at = a /\ p'.cleanups = p.cleanups
      /\ p'.failed = IF a = "finally" THEN TRUE ELSE p.failed
      /\ a = "body" => p'.left = ship'
  BY <1>1, <1>4, <1>5, ZenonT(60) DEF Process
<1>7. CASE p.finishing
  BY <1>1, <1>2, <1>4, <1>6, <1>7, BesideKept
<1>8. CASE ~p.finishing
  <2>1. /\ p.cleanups = <<"restore", "mock">> /\ (p.child = "up" \/ Killed(p.child)) /\ p.todo = <<>> /\ p.waiters = <<>>
    BY <1>1, <1>8 DEF KitInv, Registered
  <2>2. a = "body" => WithOwn(p.cleanups)'
    BY <1>1, <1>2, <1>6, <2>1, OwnGrows DEF Base, WithOwn
  <2>3. Registered'
    BY <1>1, <1>2, <1>4, <1>5, <1>6, <1>8, <2>1, <2>2 DEF Registered, Given
  <2>4. Untouched' /\ Finishing' /\ Over'
    BY <1>1, <1>2, <1>6, <1>8 DEF KitInv, Untouched, Finishing, Over
  <2> QED
    BY <1>2, <1>4, <1>6, <2>3, <2>4 DEF KitInv, Typed, ZeroIsClean
<1> QED
  BY <1>7, <1>8

(* What a step of a body may do. *)
LEMMA BodyIs ==
  ASSUME KitInv, suites # <<>>, Body \/ BodyEnds
  PROVE  /\ p.at = "body" /\ p \in Process /\ p' \in Process
         /\ UNCHANGED <<env, suites, found, results>>
         /\ ship' \in Ships /\ (~suite.mutates => ship' = ship) /\ (ship = p.left => ship' = p'.left)
         /\ p'.finishing = p.finishing /\ p'.todo = p.todo /\ p'.waiters = p.waiters
         /\ p'.before = p.before /\ p'.child = p.child
         /\ p'.at \in {"body", "finally"} /\ (p.failed => p'.failed)
         /\ p'.cleanups \in {p.cleanups, Append(p.cleanups, "own")}
<1>1. p \in Process /\ ship \in Ships /\ p.steps \in Nat /\ p.cleanups \in Seq(Cleanups)
  BY DEF KitInv, Typed, Process
<1>2. Changes \subseteq Ships
  BY <1>1 DEF Changes, Ships
<1>4. Append(p.cleanups, "own") \in Seq(Cleanups)
  <2>1. "own" \in Cleanups
    BY DEF Cleanups
  <2> QED
    BY <1>1, <2>1
<1>5. p.at = "body" /\ UNCHANGED <<env, suites, found, results>>
  BY DEF Body, BodyEnds
<1>6. /\ ship' \in Ships /\ (~suite.mutates => ship' = ship)
  BY <1>1, <1>2 DEF Body, BodyEnds
<1>7. \E f \in Nat, n \in Nat, a \in {"body", "finally"}, b \in BOOLEAN,
         c \in {p.cleanups, Append(p.cleanups, "own")}, l \in Ships :
        /\ p.failed => b
        /\ l = ship' \/ (l = p.left /\ ship' = ship)
        /\ p' = [p EXCEPT !.faults = f, !.steps = n, !.at = a, !.failed = b, !.cleanups = c,
                          !.left = l]
  <2>1. p.faults \in Nat /\ p.steps + 1 \in Nat /\ p.failed \in BOOLEAN /\ p.left \in Ships
    BY <1>1 DEF Process
  <2>2. CASE BodyEnds
    <3>1. p' = [p EXCEPT !.faults = p.faults, !.steps = p.steps, !.at = "finally",
                         !.failed = p.failed, !.cleanups = p.cleanups, !.left = p.left]
      BY <1>1, <2>2 DEF BodyEnds, Process
    <3>2. ship' = ship
      BY <2>2 DEF BodyEnds
    <3> QED
      BY <1>1, <2>1, <3>1, <3>2
  <2>3. ASSUME NEW o, NEW new \in Changes, NEW seen \in BOOLEAN,
               ship' = IF Effect(o) THEN new ELSE ship,
               LET r == [Called(o) EXCEPT !.steps = @ + 1, !.left = IF Effect(o) THEN new ELSE @]
               IN p' = IF Throws(o) THEN Thrown(r) ELSE [r EXCEPT !.failed = @ \/ (o = "refused" /\ seen)]
        PROVE  <1>7!:
    <3> DEFINE l == IF Effect(o) THEN new ELSE p.left
    <3>1. PICK f \in Nat : Called(o) = [p EXCEPT !.faults = f]
      BY CalledIs DEF KitInv
    <3>2. l \in Ships /\ (l = ship' \/ (l = p.left /\ ship' = ship))
      BY <1>2, <2>1, <2>3
    <3> DEFINE r == [p EXCEPT !.faults = f, !.steps = p.steps + 1, !.left = l]
    <3>3. r = [Called(o) EXCEPT !.steps = @ + 1, !.left = IF Effect(o) THEN new ELSE @]
      BY <1>1, <3>1 DEF Process
    <3>4. p' = IF Throws(o) THEN Thrown(r) ELSE [r EXCEPT !.failed = @ \/ (o = "refused" /\ seen)]
      BY <2>3, <3>3
    <3> HIDE DEF l
    <3>5. CASE Throws(o)
      <4>1. p' = [p EXCEPT !.faults = f, !.steps = p.steps + 1, !.at = "finally",
                           !.failed = TRUE, !.cleanups = p.cleanups, !.left = l]
        BY <1>1, <3>4, <3>5, ZenonT(60) DEF Thrown, Process
      <4> QED
        BY <2>1, <3>2, <4>1
    <3>6. CASE ~Throws(o)
      <4> DEFINE b == r.failed \/ (o = "refused" /\ seen)
      <4>1. p' = [r EXCEPT !.failed = b]
        BY <3>4, <3>6
      <4>2. b \in BOOLEAN /\ (p.failed => b)
        BY <1>1 DEF Process
      <4> HIDE DEF b
      <4>3. p' = [p EXCEPT !.faults = f, !.steps = p.steps + 1, !.at = "body",
                           !.failed = b, !.cleanups = p.cleanups, !.left = l]
        BY <1>1, <1>5, <4>1 DEF Process
      <4> QED
        BY <2>1, <3>2, <4>2, <4>3
    <3> QED
      BY <3>5, <3>6
  <2>4. ASSUME ship' = ship,
               LET q == [p EXCEPT !.steps = @ + 1]
               IN p' \in {[q EXCEPT !.cleanups = Append(@, "own")], [q EXCEPT !.failed = TRUE], Thrown(q)}
        PROVE  <1>7!:
    <3> DEFINE q == [p EXCEPT !.steps = @ + 1]
    <3>1. CASE p' = [q EXCEPT !.cleanups = Append(@, "own")]
      <4>1. p' = [p EXCEPT !.faults = p.faults, !.steps = p.steps + 1, !.at = "body",
                           !.failed = p.failed, !.cleanups = Append(p.cleanups, "own"), !.left = p.left]
        BY <1>1, <1>5, <3>1 DEF Process
      <4> QED
        BY <2>1, <2>4, <4>1
    <3>2. CASE p' = [q EXCEPT !.failed = TRUE]
      <4>1. p' = [p EXCEPT !.faults = p.faults, !.steps = p.steps + 1, !.at = "body",
                           !.failed = TRUE, !.cleanups = p.cleanups, !.left = p.left]
        BY <1>1, <1>5, <3>2 DEF Process
      <4> QED
        BY <2>1, <2>4, <4>1
    <3>3. CASE p' = Thrown(q)
      <4>1. p' = [p EXCEPT !.faults = p.faults, !.steps = p.steps + 1, !.at = "finally",
                           !.failed = TRUE, !.cleanups = p.cleanups, !.left = p.left]
        BY <1>1, <1>5, <3>3 DEF Process, Thrown
      <4> QED
        BY <2>1, <2>4, <4>1
    <3> QED
      BY <2>4, <3>1, <3>2, <3>3
  <2> QED
    BY <2>2, <2>3, <2>4 DEF Body
<1>8. PICK f \in Nat, n \in Nat, a \in {"body", "finally"}, b \in BOOLEAN,
           c \in {p.cleanups, Append(p.cleanups, "own")}, l \in Ships :
        /\ p.failed => b
        /\ l = ship' \/ (l = p.left /\ ship' = ship)
        /\ p' = [p EXCEPT !.faults = f, !.steps = n, !.at = a, !.failed = b, !.cleanups = c,
                          !.left = l]
  BY <1>7
<1>9. c \in Seq(Cleanups)
  BY <1>1, <1>4
<1>10. /\ p' \in Process
       /\ p'.finishing = p.finishing /\ p'.todo = p.todo /\ p'.waiters = p.waiters
       /\ p'.before = p.before /\ p'.child = p.child
       /\ p'.at = a /\ p'.cleanups = c /\ (p.failed => p'.failed) /\ p'.left = l
  BY <1>1, <1>8, <1>9, ZenonT(60) DEF Process
<1> QED
  BY <1>1, <1>5, <1>6, <1>8, <1>10

(* A body adds its own cleanups and changes only what they restore. *)
LEMMA BodyKept ==
  ASSUME KitInv, suites # <<>>, Body \/ BodyEnds
  PROVE  KitInv'
<1>1. CASE p.finishing
  BY <1>1, BodyIs, BesideKept DEF KitInv, Untouched
<1>2. CASE ~p.finishing
  <2>1. /\ WithOwn(p.cleanups) /\ Given
        /\ p.todo = <<>> /\ p.waiters = <<>> /\ p.at = "body"
    BY <1>2, BodyIs DEF KitInv, Registered
  <2>2. suite' = suite
    BY BodyIs DEF suite
  <2>3. WithOwn(p.cleanups)'
    <3>1. WithOwn(p'.cleanups)
      BY <2>1, BodyIs, OwnGrows
    <3> QED
      BY <2>2, <3>1 DEF WithOwn, Base
  <2>4. Registered'
    BY <1>2, <2>1, <2>2, <2>3, BodyIs DEF Registered, Given
  <2>5. Untouched' /\ Finishing' /\ Over'
    BY <1>2, <2>1, <2>2, BodyIs DEF KitInv, Untouched, Finishing, Over
  <2>6. Typed' /\ ZeroIsClean'
    BY BodyIs DEF KitInv, Typed, ZeroIsClean
  <2> QED
    BY <2>4, <2>5, <2>6 DEF KitInv
<1> QED
  BY <1>1, <1>2

(* What the first who comes takes over: the calls of all that is registered. *)
LEMMA TodoBegun ==
  ASSUME KitInv, suites # <<>>, ~p.finishing, p.at \notin {"gates", "exited"},
         NEW t, t = CleanupOrder(p.cleanups)
  PROVE  /\ t \in Seq(CallNames) /\ OwnFirst(t) /\ Compared(t) /\ p.at # "waiting"
         /\ p.at = "snapshot" => t = <<>>
         /\ ~suite.mutates => \A i \in DOMAIN t : t[i] = "own"
         /\ Has(t, "own") => p.at \in {"body", "finally"} /\ Given
         /\ p.at = "finally" /\ ~p.failed =>
              /\ IF t = <<>> THEN ~suite.mutates ELSE suite.mutates => ComparedLast(t)
              /\ suite.ln => Has(t, "stop")
<1> DEFINE Bases == {<<>>, <<"restore">>, <<"restore", "mock">>}
<1>1. /\ p \in Process /\ p.at # "waiting"
      /\ suite.ln => suite.mutates
  BY SuiteTyped DEF KitInv, Typed, Registered
<1>2. \E k \in Nat, base \in Bases :
        /\ p.cleanups = base \o Own(k)
        /\ p.at = "snapshot" => k = 0 /\ base = <<>>
        /\ ~suite.mutates => base = <<>>
        /\ k # 0 => p.at \in {"body", "finally"} /\ Given
        /\ p.at = "finally" /\ ~p.failed => base = Base
  <2>1. CASE p.at \in {"body", "finally"} /\ WithOwn(p.cleanups)
    <3>1. PICK k \in 0..Len(p.cleanups) : p.cleanups = Base \o Own(k)
      BY <2>1 DEF WithOwn
    <3>2. k \in Nat /\ Base \in Bases /\ (~suite.mutates => Base = <<>>)
      BY <1>1 DEF Base
    <3>3. ASSUME k # 0
          PROVE  Given
      <4>1. CASE p.at = "body"
        BY <4>1 DEF KitInv, Registered
      <4>2. CASE p.at = "finally"
        <5>1. WithOwn(p.cleanups) /\ Has(p.cleanups, "own")
          <6> DEFINE b == Base  o == Own(k)  n == Len(b) + 1
          <6>1. b \in Seq(Cleanups) /\ Len(b) \in Nat
            <7>1. <<>> \in Seq(Cleanups)
              OBVIOUS
            <7>2. <<"restore">> \in Seq(Cleanups)
              BY DEF Cleanups
            <7>3. <<"restore", "mock">> \in Seq(Cleanups)
              BY DEF Cleanups
            <7> QED
              BY <3>2, <7>1, <7>2, <7>3
          <6>2. o \in Seq(Cleanups) /\ Len(o) = k /\ o[1] = "own"
            BY <3>2, <3>3 DEF Own, Cleanups
          <6> HIDE DEF b, o
          <6>3. n \in 1..Len(b) + Len(o) /\ ~(n <= Len(b)) /\ n - Len(b) = 1
            BY <3>2, <3>3, <6>1, <6>2
          <6> HIDE DEF n
          <6>4. /\ Len(b \o o) = Len(b) + Len(o)
                /\ \A i \in 1 .. Len(b) + Len(o) :
                     (b \o o)[i] = IF i <= Len(b) THEN b[i] ELSE o[i - Len(b)]
            BY <6>1, <6>2, ConcatProperties
          <6>5. (b \o o)[n] = "own" /\ n \in 1..Len(b \o o)
            BY <6>2, <6>3, <6>4
          <6>6. p.cleanups = b \o o /\ DOMAIN p.cleanups = 1..Len(p.cleanups)
            BY <1>1, <3>1 DEF b, o, Process
          <6> QED
            BY <2>1, <6>5, <6>6 DEF Has
        <5>2. ~(p.cleanups \in Bases)
          <6>1. \A b \in Bases : ~Has(b, "own")
            BY DEF Has
          <6> HIDE DEF Bases
          <6> QED
            BY <5>1, <6>1
        <5> QED
          BY <3>3, <4>2, <5>1, <5>2 DEF KitInv, Registered
      <4> QED
        BY <2>1, <4>1, <4>2
    <3> HIDE DEF Bases
    <3> QED
      BY <2>1, <3>1, <3>2, <3>3
  <2>2. CASE ~(p.at \in {"body", "finally"} /\ WithOwn(p.cleanups))
    <3>1. /\ p.cleanups \in Bases /\ (p.at = "finally" => p.failed)
          /\ p.at = "snapshot" => p.cleanups = <<>>
          /\ p.at # "snapshot" => suite.mutates
      <4>1. p.at \in {"snapshot", "mock", "starting", "configure", "body", "finally"}
        BY <1>1 DEF Process
      <4>2. CASE p.at = "snapshot"
        BY <4>2 DEF KitInv, Registered, Untouched
      <4>3. CASE p.at = "mock"
        BY <1>1, <4>3 DEF KitInv, Registered, Untouched
      <4>4. CASE p.at \in {"starting", "configure"}
        BY <1>1, <4>4 DEF KitInv, Registered, Untouched
      <4>5. CASE p.at = "body"
        BY <2>2, <4>5 DEF KitInv, Registered
      <4>6. CASE p.at = "finally"
        <5>1. p.failed /\ suite.mutates /\ p.cleanups \in Bases
          BY <2>2, <4>6 DEF KitInv, Registered
        <5> QED
          BY <4>6, <5>1
      <4> QED
        BY <4>1, <4>2, <4>3, <4>4, <4>5, <4>6
    <3>2. ~suite.mutates => p.cleanups = <<>>
      BY <3>1
    <3>3. p.cleanups = p.cleanups \o Own(0)
      <4>1. p.cleanups \in Seq(Cleanups) /\ Own(0) = <<>>
        BY <1>1 DEF Own, Process
      <4> QED
        BY <4>1
    <3> HIDE DEF Bases
    <3> QED
      BY <2>2, <3>1, <3>2, <3>3
  <2> QED
    BY <2>1, <2>2
<1> QED
  <2> HIDE DEF Bases
  <2>1. PICK k \in Nat, base \in Bases :
          /\ p.cleanups = base \o Own(k)
          /\ p.at = "snapshot" => k = 0 /\ base = <<>>
          /\ ~suite.mutates => base = <<>>
          /\ k # 0 => p.at \in {"body", "finally"} /\ Given
          /\ p.at = "finally" /\ ~p.failed => base = Base
    BY <1>2
  <2>2. base \in {<<>>, <<"restore">>, <<"restore", "mock">>}
    BY DEF Bases
  <2>3. t = Own(k) \o BaseCalls(base)
    BY <2>1, <2>2, OrderOfCleanups
  <2>4. /\ t \in Seq(CallNames) /\ OwnFirst(t) /\ Compared(t)
        /\ Has(t, "own") => k # 0
        /\ base # <<>> => t # <<>> /\ ComparedLast(t)
        /\ base = <<>> => \A i \in DOMAIN t : t[i] = "own"
        /\ base = <<"restore", "mock">> => Has(t, "stop")
    BY <2>2, <2>3, TodoOf
  <2>5. p.at = "snapshot" => t = <<>>
    <3>1. k = 0 /\ base = <<>> => Own(k) \o BaseCalls(base) = <<>>
      BY DEF Own, BaseCalls
    <3> QED
      BY <2>1, <2>3, <3>1
  <2>6. /\ suite.ln => Base = <<"restore", "mock">>
        /\ suite.mutates => Base # <<>>
    BY <1>1 DEF Base
  <2> HIDE DEF Base
  <2> QED
    BY <1>1, <2>1, <2>4, <2>5, <2>6

(* Who comes waits; the first takes over what is registered. *)
LEMMA FinishIs ==
  ASSUME KitInv, suites # <<>>, p.at \notin {"gates", "exited"},
         NEW who \in {"run", "sigint"}, NEW q, q = Finish(p, who)
  PROVE  /\ q \in Process /\ q.finishing /\ q.waiters # <<>>
         /\ q.at = p.at /\ q.before = p.before /\ q.child = p.child /\ q.failed = p.failed
         /\ q.left = p.left
         /\ p.finishing => q.todo = p.todo /\ q.waiters[1] = p.waiters[1] /\ p.waiters # <<>>
         /\ ~p.finishing => q.todo = CleanupOrder(p.cleanups) /\ q.waiters[1] = who
<1> DEFINE ws == Append(p.waiters, who)
           r == [p EXCEPT !.waiters = ws, !.finishing = TRUE]
<1>1. p \in Process /\ p.waiters \in Seq({"run", "sigint"})
  BY DEF KitInv, Typed, Process
<1>2. /\ ws \in Seq({"run", "sigint"}) /\ ws # <<>>
      /\ p.waiters = <<>> => ws[1] = who
      /\ p.waiters # <<>> => ws[1] = p.waiters[1]
  BY <1>1
<1> HIDE DEF ws
<1>3. /\ r \in Process /\ r.finishing /\ r.waiters = ws /\ r.at = p.at /\ r.before = p.before
      /\ r.child = p.child /\ r.failed = p.failed /\ r.todo = p.todo /\ r.left = p.left
  BY <1>1, <1>2 DEF Process
<1>4. CASE p.finishing
  <2>1. q = r
    BY <1>4 DEF Finish, ws
  <2>2. p.waiters # <<>>
    BY <1>4 DEF KitInv, Finishing
  <2> QED
    BY <1>2, <1>3, <1>4, <2>1, <2>2
<1>5. CASE ~p.finishing
  <2> DEFINE t == CleanupOrder(p.cleanups)
  <2>1. q = [r EXCEPT !.todo = t, !.cleanups = <<>>]
    BY <1>5 DEF Finish, ws
  <2>2. t \in Seq(CallNames) /\ <<>> \in Seq(Cleanups) /\ p.waiters = <<>>
    BY <1>5, TodoBegun DEF KitInv, Registered
  <2> HIDE DEF t, r
  <2>3. /\ q \in Process /\ q.finishing = r.finishing /\ q.waiters = r.waiters /\ q.at = r.at
        /\ q.before = r.before /\ q.child = r.child /\ q.failed = r.failed /\ q.todo = t
        /\ q.left = r.left
    BY <1>3, <2>1, <2>2, ZenonT(60) DEF Process
  <2> QED
    BY <1>2, <1>3, <1>5, <2>2, <2>3 DEF t
<1> QED
  BY <1>4, <1>5

(* The end of a body begins finish, or waits for the one that runs. *)
LEMMA FinallyKept ==
  ASSUME KitInv, suites # <<>>, Finally
  PROVE  KitInv'
<1> DEFINE f == Finish(p, "run")
           q == [f EXCEPT !.at = "waiting"]
<1>1. /\ p.at = "finally" /\ p' = Ended(q) /\ UNCHANGED <<env, suites, ship, found, results>>
      /\ ship \in Ships
  BY DEF Finally, KitInv, Typed
<1>2. /\ f \in Process /\ f.finishing /\ f.waiters # <<>>
      /\ f.before = p.before /\ f.child = p.child /\ f.failed = p.failed /\ f.left = p.left
      /\ p.finishing => f.todo = p.todo /\ f.waiters[1] = p.waiters[1] /\ p.waiters # <<>>
      /\ ~p.finishing => f.todo = CleanupOrder(p.cleanups) /\ f.waiters[1] = "run"
  BY <1>1, FinishIs
<1> HIDE DEF f
<1>3. /\ q \in Process /\ q.at = "waiting" /\ q.finishing /\ q.waiters = f.waiters /\ q.todo = f.todo
      /\ q.before = f.before /\ q.child = f.child /\ q.failed = f.failed /\ q.left = f.left
  BY <1>2 DEF Process
<1> HIDE DEF q
<1>4. /\ ~suite.mutates => ship = found
      /\ ~suite.ln => ~Alive(p.child)
      /\ suite.mutates /\ ~p.failed => p.before = found
  BY <1>1 DEF KitInv, Untouched
<1>5. CASE p.finishing
  <2>1. /\ p.todo # <<>> /\ OwnFirst(p.todo) /\ Compared(p.todo) /\ p.waiters[1] # "run"
        /\ ~suite.mutates => \A i \in DOMAIN p.todo : p.todo[i] = "own"
        /\ Has(p.todo, "own") => GivenTo(p, ship)
    BY <1>1, <1>2, <1>5 DEF KitInv, Finishing, Led, Given, GivenTo
  <2> QED
    BY <1>1, <1>2, <1>3, <1>4, <1>5, <2>1, FinishKept DEF GivenTo
<1>6. CASE ~p.finishing
  <2> DEFINE t == CleanupOrder(p.cleanups)
  <2>1. /\ OwnFirst(t) /\ Compared(t)
        /\ ~suite.mutates => \A i \in DOMAIN t : t[i] = "own"
        /\ Has(t, "own") => GivenTo(p, ship)
        /\ ~p.failed =>
              /\ IF t = <<>> THEN ~suite.mutates ELSE suite.mutates => ComparedLast(t)
              /\ suite.ln => Has(t, "stop")
    BY <1>1, <1>6, TodoBegun DEF Given, GivenTo
  <2>2. q.todo = t /\ q.waiters[1] = "run"
    BY <1>2, <1>3, <1>6
  <2>3. suite.ln => suite.mutates
    BY SuiteTyped DEF KitInv
  <2> HIDE DEF t
  <2> QED
    BY <1>1, <1>2, <1>3, <1>4, <1>6, <2>1, <2>2, <2>3, FinishKept DEF GivenTo
<1> QED
  BY <1>5, <1>6

(* A signal begins finish, or waits for the one that runs. *)
LEMMA InterruptKept ==
  ASSUME KitInv, suites # <<>>, Interrupt
  PROVE  KitInv'
<1>0. PICK terminal \in BOOLEAN :
        /\ suites' = IF terminal THEN <<suite>> ELSE suites
        /\ p' = Ended([Finish(p, "sigint") EXCEPT
                         !.interrupted = TRUE,
                         !.child = IF terminal /\ Alive(@) THEN "killed" ELSE @])
  BY DEF Interrupt
<1> DEFINE f == Finish(p, "sigint")
           c == IF terminal /\ Alive(f.child) THEN "killed" ELSE f.child
           q == [f EXCEPT !.interrupted = TRUE, !.child = c]
<1>1. /\ p.at \notin {"gates", "exited"} /\ p' = Ended(q) /\ suites' \in {suites, <<suite>>}
      /\ UNCHANGED <<env, ship, found, results>> /\ ship \in Ships
  <2>1. f \in Process
    BY FinishIs DEF Interrupt
  <2> HIDE DEF f
  <2>2. q = [f EXCEPT !.interrupted = TRUE, !.child = IF terminal /\ Alive(@) THEN "killed" ELSE @]
    BY <2>1 DEF Process
  <2> QED
    BY <1>0, <2>2 DEF Interrupt, KitInv, Typed, f
<1>2. /\ f \in Process /\ f.finishing /\ f.waiters # <<>> /\ f.at = p.at
      /\ f.before = p.before /\ f.child = p.child /\ f.failed = p.failed /\ f.left = p.left
      /\ p.finishing => f.todo = p.todo /\ f.waiters[1] = p.waiters[1] /\ p.waiters # <<>>
      /\ ~p.finishing => f.todo = CleanupOrder(p.cleanups) /\ f.waiters[1] = "sigint"
  BY <1>1, FinishIs
<1> HIDE DEF f
<1>3. /\ q \in Process /\ q.at = f.at /\ q.finishing /\ q.waiters = f.waiters /\ q.todo = f.todo
      /\ q.before = f.before /\ q.child = c /\ q.failed = f.failed /\ q.left = f.left
  <2>1. c \in {"none", "spawned", "up", "exited", "killed", "gone", "stopped"}
    BY <1>2 DEF Process
  <2> HIDE DEF c
  <2> QED
    BY <1>2, <2>1, ZenonT(60) DEF Process
<1>c. /\ Alive(c) => Alive(p.child)
      /\ p.child = "up" \/ Killed(p.child) => c = "up" \/ Killed(c)
  BY <1>2 DEF Alive, Killed
<1> HIDE DEF q, c
<1>4. /\ ~suite.mutates => ship = found
      /\ ~suite.ln => ~Alive(p.child)
      /\ p.at \in {"mock", "starting", "configure"} => suite.ln
      /\ p.at # "snapshot" /\ suite.mutates /\ ~p.failed => p.before = found
  BY <1>1 DEF KitInv, Untouched
<1>g. Given => GivenTo(q, ship)
  BY <1>2, <1>3, <1>c DEF Given, GivenTo
<1>5. CASE p.finishing
  <2>1. /\ p.todo # <<>> /\ OwnFirst(p.todo) /\ Compared(p.todo) /\ p.at # "snapshot"
        /\ ~suite.mutates => \A i \in DOMAIN p.todo : p.todo[i] = "own"
        /\ Has(p.todo, "own") => p.at \in {"body", "finally", "waiting"} /\ Given
        /\ p.waiters[1] = "run" => p.at = "waiting"
        /\ p.waiters[1] = "run" /\ ~p.failed =>
             (suite.mutates => ComparedLast(p.todo)) /\ (Alive(p.child) => Has(p.todo, "stop"))
    BY <1>1, <1>2, <1>5 DEF KitInv, Finishing, Led, Untouched
  <2> QED
    BY <1>1, <1>2, <1>3, <1>c, <1>4, <1>g, <1>5, <2>1, FinishKept
<1>6. CASE ~p.finishing
  <2> DEFINE t == CleanupOrder(p.cleanups)
  <2>1. /\ OwnFirst(t) /\ Compared(t) /\ (p.at = "snapshot" => t = <<>>)
        /\ ~suite.mutates => \A i \in DOMAIN t : t[i] = "own"
        /\ Has(t, "own") => p.at \in {"body", "finally"} /\ Given
    BY <1>1, <1>6, TodoBegun
  <2>2. q.todo = t /\ q.waiters[1] = "sigint"
    BY <1>2, <1>3, <1>6
  <2> HIDE DEF t
  <2> QED
    BY <1>1, <1>2, <1>3, <1>c, <1>4, <1>g, <2>1, <2>2, FinishKept
<1> QED
  BY <1>5, <1>6

(* While there is something to do, finish goes on. *)
LEMMA Cleaning ==
  ASSUME KitInv, suites # <<>>, p.todo # <<>>
  PROVE  /\ p \in Process /\ ship \in Ships /\ p.todo \in Seq(CallNames) /\ Head(p.todo) = p.todo[1]
         /\ 1 \in DOMAIN p.todo
         /\ p.finishing /\ p.at \notin {"gates", "snapshot", "exited"} /\ p.waiters # <<>>
         /\ OwnFirst(p.todo) /\ Compared(p.todo)
         /\ ~suite.mutates => /\ ship = found /\ Has(p.todo, "own")
                              /\ \A i \in DOMAIN p.todo : p.todo[i] = "own"
         /\ ~suite.ln => ~Alive(p.child)
         /\ suite.ln => suite.mutates
         /\ p.at \in {"mock", "starting", "configure"} => suite.ln
         /\ suite.mutates /\ ~p.failed => p.before = found
         /\ Has(p.todo, "own") => p.at \in {"body", "finally", "waiting"} /\ Given
         /\ p.waiters[1] = "run" => p.at = "waiting"
         /\ p.waiters[1] = "run" /\ ~p.failed =>
              /\ suite.mutates => ComparedLast(p.todo)
              /\ Alive(p.child) => Has(p.todo, "stop")
<1>1. /\ p \in Process /\ ship \in Ships /\ p.todo \in Seq(CallNames)
      /\ suite.ln => suite.mutates
  BY SuiteTyped DEF KitInv, Typed, Process
<1>2. Head(p.todo) = p.todo[1] /\ 1 \in DOMAIN p.todo
  BY <1>1
<1>3. p.finishing /\ p.at # "exited"
  BY DEF KitInv, Registered, Over
<1>4. ~suite.mutates => Has(p.todo, "own") /\ \A i \in DOMAIN p.todo : p.todo[i] = "own"
  BY <1>2, <1>3 DEF KitInv, Finishing, Has
<1> QED
  BY <1>1, <1>2, <1>3, <1>4 DEF KitInv, Untouched, Finishing, Led

(* A cleanup that is left is left with all its calls. *)
LEMMA LeftIs ==
  ASSUME NEW t \in Seq(CallNames), t # <<>>, Compared(t)
  PROVE  /\ Len(t) \in Nat /\ 1 \in 1..Len(t) /\ Tail(t) = Rest(t, 1)
         /\ \E n \in 1..Len(t) : Left(t) = Rest(t, n)
<1>1. Len(t) \in Nat /\ 1 \in 1..Len(t) /\ Tail(t) = Rest(t, 1) /\ Head(t) = t[1]
  BY DEF Rest
<1>2. CASE Head(t) \notin Restoring
  BY <1>1, <1>2 DEF Left
<1>3. CASE Head(t) \in Restoring
  <2> DEFINE i == CHOOSE i \in DOMAIN t : t[i] = "compare"
  <2>1. \E j \in DOMAIN t : t[j] = "compare"
    BY <1>1, <1>3 DEF Compared
  <2>2. i \in DOMAIN t
    BY <2>1
  <2>3. Left(t) = Rest(t, i)
    BY <1>3 DEF Left, Rest
  <2> HIDE DEF i
  <2> QED
    BY <1>1, <2>2, <2>3
<1> QED
  BY <1>2, <1>3

(* A call of a cleanup that changes what it restores, and nothing else. *)
LEMMA CleanedKept ==
  ASSUME KitInv, suites # <<>>, p.todo # <<>>, UNCHANGED <<env, suites, found, results>>,
         NEW o, p' = Cleaned(o), ship' \in Ships, Head(p.todo) \notin {"compare", "stop"},
         Head(p.todo) = "own" => ship' = ship
  PROVE  KitInv'
<1> DEFINE t == p.todo
<1>1. PICK f \in Nat : Called(o) = [p EXCEPT !.faults = f]
  BY CalledIs DEF KitInv
<1>2. /\ p \in Process /\ t \in Seq(CallNames) /\ t # <<>> /\ Compared(t) /\ OwnFirst(t)
      /\ t[1] \notin {"compare", "stop"}
  BY Cleaning
<1>3. Has(t, "own") => ship' = ship
  BY Cleaning DEF Has, OwnFirst
<1>6. /\ p.finishing /\ p.at \notin {"gates", "snapshot", "exited"} /\ p.waiters # <<>>
      /\ ~suite.mutates => ship = found /\ Has(t, "own") /\ \A i \in DOMAIN t : t[i] = "own"
      /\ ~suite.ln => ~Alive(p.child)
      /\ suite.ln => suite.mutates
      /\ p.at \in {"mock", "starting", "configure"} => suite.ln
      /\ suite.mutates /\ ~p.failed => p.before = found
      /\ Has(t, "own") => p.at \in {"body", "finally", "waiting"} /\ GivenTo(p, ship)
      /\ p.waiters[1] = "run" => p.at = "waiting"
      /\ p.waiters[1] = "run" /\ ~p.failed =>
           /\ suite.mutates => ComparedLast(t)
           /\ Alive(p.child) => Has(t, "stop")
  BY Cleaning DEF Given, GivenTo
<1>4. CASE ~Throws(o)
  <2> DEFINE u == Tail(t)
             q == [p EXCEPT !.faults = f, !.todo = u]
  <2>1. p' = Ended(q)
    BY <1>1, <1>2, <1>4 DEF Cleaned, Process
  <2> HIDE DEF t
  <2>2. /\ 1 \in 1..Len(t) /\ Len(t) \in Nat /\ u = Rest(t, 1)
    BY <1>2, LeftIs
  <2> HIDE DEF u
  <2>3. /\ u \in Seq(CallNames) /\ OwnFirst(u) /\ Compared(u)
        /\ Len(u) = Len(t) - 1 /\ \A i \in 1..Len(u) : u[i] = t[i + 1]
        /\ Has(u, "own") => Has(t, "own")
        /\ (\A i \in DOMAIN t : t[i] = "own") => \A i \in DOMAIN u : u[i] = "own"
    <3>1. u \in Seq(CallNames) /\ OwnFirst(u) /\ Compared(u)
      BY <1>2, <2>2, SuffixKept
    <3>2. Has(u, "own") => Has(t, "own")
      BY <1>2, <2>2, SuffixKept
    <3>3. Len(u) = Len(t) - 1 /\ \A i \in 1..Len(u) : u[i] = t[i + 1]
      BY <1>2, <2>2, SuffixKept
    <3>4. DOMAIN t = 1..Len(t) /\ DOMAIN u = 1..Len(u)
      BY <1>2, <3>1
    <3>5. \A i \in DOMAIN u : i + 1 \in DOMAIN t /\ u[i] = t[i + 1]
      BY <2>2, <3>3, <3>4
    <3> QED
      BY <3>1, <3>2, <3>3, <3>5
  <2>4. /\ q \in Process /\ q.at = p.at /\ q.finishing = p.finishing /\ q.waiters = p.waiters /\ q.todo = u
        /\ q.before = p.before /\ q.child = p.child /\ q.failed = p.failed /\ q.left = p.left
    BY <1>2, <2>3 DEF Process
  <2>5. /\ DOMAIN t = 1..Len(t) /\ DOMAIN u = 1..Len(u) /\ Len(u) \in Nat
        /\ u = <<>> => Len(u) = 0
    <3>1. u \in Seq(CallNames)
      BY <2>3
    <3> QED
      BY <1>2, <3>1
  <2>6. ASSUME ComparedLast(t)
        PROVE  u # <<>> /\ ComparedLast(u)
    <3>1. Len(t) # 1
      BY <1>2, <2>2, <2>5, <2>6 DEF ComparedLast
    <3>2. ASSUME NEW i \in 1..Len(u)
          PROVE  u[i] = "compare" <=> i = Len(u)
      <4>1. Len(u) = Len(t) - 1 /\ u[i] = t[i + 1]
        BY <2>3
      <4>2. i + 1 \in DOMAIN t /\ (i + 1 = Len(t) <=> i = Len(u))
        BY <2>2, <2>5, <4>1
      <4>3. t[i + 1] = "compare" <=> i + 1 = Len(t)
        BY <2>6, <4>2 DEF ComparedLast
      <4> QED
        BY <4>1, <4>2, <4>3
    <3>3. ComparedLast(u)
      BY <2>5, <3>2 DEF ComparedLast
    <3>4. Len(u) = Len(t) - 1
      BY <2>3
    <3> QED
      BY <2>2, <2>5, <3>1, <3>3, <3>4
  <2>7. ASSUME Has(t, "stop")
        PROVE  Has(u, "stop")
    <3>1. PICK i \in 1..Len(t) : t[i] = "stop"
      BY <2>5, <2>7 DEF Has
    <3>2. i # 1
      BY <1>2, <3>1
    <3>3. Len(u) = Len(t) - 1
      BY <2>3
    <3>4. i - 1 \in 1..Len(u) /\ (i - 1) + 1 = i
      BY <2>2, <3>2, <3>3
    <3>5. u[i - 1] = t[(i - 1) + 1]
      BY <2>3, <3>4
    <3> QED
      BY <2>5, <3>1, <3>4, <3>5 DEF Has
  <2> HIDE DEF q
  <2>8. p.waiters[1] = "run" /\ ~p.failed =>
          IF u = <<>> THEN ship' = found /\ ~Alive(p.child)
          ELSE (suite.mutates => ComparedLast(u)) /\ (Alive(p.child) => Has(u, "stop"))
    BY <1>3, <1>6, <2>6, <2>7
  <2> QED
    BY <1>3, <1>6, <2>1, <2>3, <2>4, <2>8, FinishKept, ZenonT(60) DEF GivenTo
<1>5. CASE Throws(o)
  <2> DEFINE u == Left(t)
             q == [p EXCEPT !.faults = f, !.failed = TRUE, !.todo = u]
  <2>1. p' = Ended(q)
    BY <1>1, <1>2, <1>5 DEF Cleaned, Process
  <2> HIDE DEF t
  <2>2. PICK n \in 1..Len(t) : u = Rest(t, n)
    BY <1>2, LeftIs
  <2> HIDE DEF u
  <2>3. /\ u \in Seq(CallNames) /\ OwnFirst(u) /\ Compared(u)
        /\ Has(u, "own") => Has(t, "own")
        /\ (\A i \in DOMAIN t : t[i] = "own") => \A i \in DOMAIN u : u[i] = "own"
    <3>1. u \in Seq(CallNames) /\ OwnFirst(u) /\ Compared(u)
      BY <1>2, <2>2, SuffixKept
    <3>2. Has(u, "own") => Has(t, "own")
      BY <1>2, <2>2, SuffixKept
    <3>3. (\A i \in DOMAIN t : t[i] = "own") => \A i \in DOMAIN u : u[i] = "own"
      BY <1>2, <2>2, SuffixKept
    <3> QED
      BY <3>1, <3>2, <3>3
  <2>4. /\ q \in Process /\ q.at = p.at /\ q.finishing = p.finishing /\ q.waiters = p.waiters /\ q.todo = u
        /\ q.before = p.before /\ q.child = p.child /\ q.failed /\ q.left = p.left
    BY <1>2, <2>3 DEF Process
  <2> HIDE DEF q
  <2> QED
    BY <1>3, <1>6, <2>1, <2>3, <2>4, FinishKept DEF GivenTo
<1> QED
  BY <1>4, <1>5

(* A call of a cleanup, whether or not it succeeds, keeps the order of the rest. *)
LEMMA CleanupKept ==
  ASSUME KitInv, suites # <<>>, OwnCleanup \/ RestoreSettings \/ RestoreLn \/ RestoreActive
  PROVE  KitInv'
<1>1. PICK call \in {"own", "settings", "ln", "active"}, new \in Ships :
        Cleanup(call, new) /\ (call = "own" => new = ship)
  <2>1. ship \in Ships /\ p.before \in Ships
    BY DEF KitInv, Typed, Process
  <2>2. /\ [ship EXCEPT !.settings = p.before.settings] \in Ships /\ [ship EXCEPT !.ln = "none"] \in Ships
        /\ [ship EXCEPT !.active = p.before.active] \in Ships
    BY <2>1 DEF Ships
  <2> QED
    BY <2>1, <2>2 DEF OwnCleanup, RestoreSettings, RestoreLn, RestoreActive
<1>2. ship \in Ships
  BY DEF KitInv, Typed
<1> QED
  BY <1>1, <1>2, CleanedKept DEF Cleanup

(* The last call of a run that has not failed leaves nothing to do, and any   *)
(* other leaves its comparison.                                              *)
LEMMA TailOf ==
  ASSUME NEW t \in Seq(CallNames), t # <<>>, OwnFirst(t), Compared(t), t[1] # "own"
  PROVE  /\ Tail(t) \in Seq(CallNames) /\ OwnFirst(Tail(t)) /\ Compared(Tail(t)) /\ ~Has(Tail(t), "own")
         /\ ComparedLast(t) /\ t[1] = "compare" => Tail(t) = <<>> /\ ~Has(t, "stop")
         /\ ComparedLast(t) /\ t[1] # "compare" => Tail(t) # <<>> /\ ComparedLast(Tail(t))
<1> DEFINE u == Tail(t)
<1>0. 1 \in 1..Len(t) /\ u = Rest(t, 1)
  BY LeftIs
<1>1. 1 \in 1..Len(t) /\ Len(t) \in Nat /\ DOMAIN t = 1..Len(t)
  BY <1>0
<1> HIDE DEF u
<1>2. u \in Seq(CallNames) /\ OwnFirst(u) /\ Compared(u)
  BY <1>0, SuffixKept
<1>3. Len(u) = Len(t) - 1 /\ \A i \in 1..Len(u) : u[i] = t[i + 1]
  BY <1>0, SuffixKept
<1>4. ~Has(u, "own")
  BY <1>0, SuffixKept
<1>5. DOMAIN u = 1..Len(u) /\ Len(u) \in Nat /\ (u = <<>> <=> Len(u) = 0)
  BY <1>2
<1>6. ASSUME ComparedLast(t), t[1] = "compare"
      PROVE  u = <<>> /\ ~Has(t, "stop")
  <2>1. Len(t) = 1
    BY <1>1, <1>6 DEF ComparedLast
  <2> QED
    BY <1>1, <1>3, <1>5, <1>6, <2>1 DEF Has
<1>7. ASSUME ComparedLast(t), t[1] # "compare"
      PROVE  u # <<>> /\ ComparedLast(u)
  <2>1. Len(t) # 1
    BY <1>1, <1>7 DEF ComparedLast
  <2>2. ASSUME NEW i \in 1..Len(u)
        PROVE  u[i] = "compare" <=> i = Len(u)
    <3>1. Len(u) = Len(t) - 1 /\ u[i] = t[i + 1]
      BY <1>3
    <3>2. i + 1 \in DOMAIN t /\ (i + 1 = Len(t) <=> i = Len(u))
      <4>1. Len(u) = Len(t) - 1 /\ Len(u) \in Nat
        BY <1>5, <3>1
      <4> QED
        BY <1>1, <4>1
    <3>3. t[i + 1] = "compare" <=> i + 1 = Len(t)
      BY <1>7, <3>2 DEF ComparedLast
    <3> QED
      BY <3>1, <3>2, <3>3
  <2>3. ComparedLast(u)
    BY <1>5, <2>2 DEF ComparedLast
  <2> QED
    BY <1>1, <1>3, <1>5, <2>1, <2>3
<1> QED
  BY <1>2, <1>4, <1>6, <1>7 DEF u

(* The ship is compared with what was found, and a difference makes the process fail. *)
LEMMA CompareKept ==
  ASSUME KitInv, suites # <<>>, Compare
  PROVE  KitInv'
<1> DEFINE t == p.todo
           u == Tail(t)
<1>1. /\ t # <<>> /\ t[1] = "compare" /\ t \in Seq(CallNames) /\ OwnFirst(t) /\ Compared(t)
      /\ p \in Process /\ ship \in Ships /\ suite.mutates
      /\ p.finishing /\ p.at \notin {"gates", "snapshot", "exited"} /\ p.waiters # <<>>
      /\ ~suite.ln => ~Alive(p.child)
      /\ p.at \in {"mock", "starting", "configure"} => suite.ln
      /\ ~p.failed => p.before = found
      /\ p.waiters[1] = "run" => p.at = "waiting"
      /\ p.waiters[1] = "run" /\ ~p.failed => ComparedLast(t) /\ (Alive(p.child) => Has(t, "stop"))
  BY Cleaning DEF Compare
<1>2. UNCHANGED <<env, suites, ship, found, results>>
  BY DEF Compare
<1>3. PICK f \in Nat, b \in BOOLEAN :
        /\ p.failed => b
        /\ ~b => ship = p.before
        /\ p' = Ended([p EXCEPT !.failed = b, !.todo = u, !.faults = f])
  <2>1. PICK o \in Outcomes :
          LET ok == o = "ok" /\ Same
              q == [p EXCEPT !.failed = @ \/ ~ok]
          IN p' = Ended([q EXCEPT !.todo = Tail(@), !.faults = Called(o).faults])
    BY DEF Compare
  <2> DEFINE b == p.failed \/ ~(o = "ok" /\ Same)
             f == Called(o).faults
  <2>2. f \in Nat
    <3>1. PICK n \in Nat : Called(o) = [p EXCEPT !.faults = n]
      BY CalledIs DEF KitInv
    <3> QED
      BY <1>1, <3>1 DEF Process
  <2>3. b \in BOOLEAN /\ (p.failed => b) /\ (~b => ship = p.before)
    BY <1>1 DEF Process, Same
  <2>4. p' = Ended([[p EXCEPT !.failed = b] EXCEPT !.todo = Tail(@), !.faults = f])
    BY <1>1, <2>1 DEF Process
  <2> HIDE DEF b, f
  <2>5. p' = Ended([p EXCEPT !.failed = b, !.todo = u, !.faults = f])
    BY <1>1, <2>4 DEF Process
  <2> QED
    BY <2>2, <2>3, <2>5
<1> DEFINE q == [p EXCEPT !.failed = b, !.todo = u, !.faults = f]
<1> HIDE DEF t
<1>4. /\ u \in Seq(CallNames) /\ OwnFirst(u) /\ Compared(u) /\ ~Has(u, "own")
      /\ ComparedLast(t) => u = <<>> /\ ~Has(t, "stop")
  BY <1>1, TailOf
<1> HIDE DEF u
<1>5. /\ q \in Process /\ q.at = p.at /\ q.finishing = p.finishing /\ q.waiters = p.waiters /\ q.todo = u
      /\ q.before = p.before /\ q.child = p.child /\ q.failed = b
  BY <1>1, <1>4, ZenonT(60) DEF Process
<1> HIDE DEF q
<1>6. p' = Ended(q)
  BY <1>3 DEF q
<1>7. q.waiters[1] = "run" /\ ~q.failed => u = <<>> /\ ship' = found /\ ~Alive(q.child)
  BY <1>1, <1>2, <1>3, <1>4, <1>5
<1>8. ~q.failed => q.before = found
  BY <1>1, <1>3, <1>5
<1> QED
  BY <1>1, <1>2, <1>4, <1>5, <1>6, <1>7, <1>8, FinishKept

(* The mock is stopped, and the cleanups that follow go on without it. *)
LEMMA StopMockKept ==
  ASSUME KitInv, suites # <<>>, StopMock
  PROVE  KitInv'
<1> DEFINE t == p.todo
           u == Tail(t)
           q == [p EXCEPT !.todo = u, !.child = "stopped"]
<1>1. /\ t # <<>> /\ t[1] = "stop" /\ t \in Seq(CallNames) /\ OwnFirst(t) /\ Compared(t)
      /\ p \in Process /\ ship \in Ships /\ suite.mutates
      /\ p.finishing /\ p.at \notin {"gates", "snapshot", "exited"} /\ p.waiters # <<>>
      /\ p.at \in {"mock", "starting", "configure"} => suite.ln
      /\ ~p.failed => p.before = found
      /\ p.waiters[1] = "run" => p.at = "waiting"
      /\ p.waiters[1] = "run" /\ ~p.failed => ComparedLast(t)
  BY Cleaning DEF StopMock
<1>2. p' = Ended(q) /\ UNCHANGED <<env, suites, ship, found, results>>
  BY <1>1 DEF StopMock, Process
<1> HIDE DEF t
<1>3. /\ u \in Seq(CallNames) /\ OwnFirst(u) /\ Compared(u) /\ ~Has(u, "own")
      /\ ComparedLast(t) => u # <<>> /\ ComparedLast(u)
  BY <1>1, TailOf
<1> HIDE DEF u
<1>4. /\ q \in Process /\ q.at = p.at /\ q.finishing = p.finishing /\ q.waiters = p.waiters /\ q.todo = u
      /\ q.before = p.before /\ q.child = "stopped" /\ q.failed = p.failed
  BY <1>1, <1>3, ZenonT(60) DEF Process
<1>5. ~Alive(q.child)
  BY <1>4 DEF Alive
<1> HIDE DEF q
<1> QED
  BY <1>1, <1>2, <1>3, <1>4, <1>5, FinishKept

(* A process that waits for what cannot come ends, with a code that is not 0. *)
LEMMA UnsettledKept ==
  ASSUME KitInv, suites # <<>>, Unsettled
  PROVE  KitInv'
<1>1. /\ p \in Process /\ p.at = "waiting" /\ p.finishing /\ UNCHANGED <<env, suites, ship, found, results>>
      /\ suite' = suite
  BY Cleaning DEF Unsettled, suite
<1>2. /\ p' \in Process /\ p'.at = "exited" /\ p'.code = 13 /\ p'.todo = <<>> /\ p'.finishing
      /\ p'.child = p.child
  <2>1. p' = [p EXCEPT !.at = "exited", !.code = 13, !.todo = <<>>]
    BY DEF Unsettled
  <2>2. <<>> \in Seq(CallNames)
    OBVIOUS
  <2> QED
    BY <1>1, <2>1, <2>2, ZenonT(60) DEF Process
<1>3. Registered' /\ Untouched' /\ Finishing' /\ Over'
  BY <1>1, <1>2 DEF KitInv, Registered, Untouched, Finishing, Over
<1> QED
  BY <1>1, <1>2, <1>3 DEF KitInv, Typed, ZeroIsClean

(* A process begins with nothing done. *)
LEMMA NewProcessIs ==
  ASSUME NEW s \in Ships, NEW q, q = NewProcess(s)
  PROVE  /\ q \in Process /\ q.at = "gates" /\ ~q.finishing /\ q.waiters = <<>> /\ q.todo = <<>>
         /\ q.cleanups = <<>> /\ q.child = "none" /\ ~q.failed /\ q.left = s
<1>1. <<>> \in Seq(Cleanups) /\ <<>> \in Seq(CallNames) /\ <<>> \in Seq({"run", "sigint"})
  OBVIOUS
<1> QED
  BY <1>1 DEF NewProcess, Process

(* The next suite begins with nothing done. *)
LEMMA NextSuiteKept ==
  ASSUME KitInv, suites # <<>>, NextSuite
  PROVE  KitInv'
<1> DEFINE r == [code |-> p.code, failed |-> p.failed, mock |-> Alive(p.child),
                 killed |-> Killed(p.child), asFound |-> ship = found,
                 ran |-> suite.auth => env.cookie]
<1>1. /\ p.at = "exited" /\ results' = Append(results, r) /\ suites' = Tail(suites)
      /\ p' = NewProcess(ship) /\ found' = ship /\ UNCHANGED <<env, ship>>
  BY DEF NextSuite
<1>2. /\ p' \in Process /\ p'.at = "gates" /\ ~p'.finishing /\ p'.waiters = <<>> /\ p'.todo = <<>>
      /\ p'.cleanups = <<>> /\ p'.child = "none" /\ ~p'.failed /\ p'.left = ship
  BY <1>1, NewProcessIs DEF KitInv, Typed
<1>3. Typed'
  <2>1. Tail(suites) \in Seq(Suite)
    BY DEF KitInv, Typed
  <2>2. r \in Result
    BY DEF KitInv, Typed, Process, Result, Alive, Killed
  <2> HIDE DEF r
  <2>3. Append(results, r) \in Seq(Result)
    BY <2>2 DEF KitInv, Typed
  <2> QED
    BY <1>1, <1>2, <2>1, <2>3 DEF KitInv, Typed
<1>4. r.code = 0 => ~r.failed /\ r.asFound /\ ~r.mock /\ (env.alone \/ r.ran)
  BY <1>1 DEF KitInv, Over, Typed
<1>5. ZeroIsClean'
  <2> HIDE DEF r
  <2>1. /\ DOMAIN results' = 1..Len(results) + 1 /\ DOMAIN results = 1..Len(results)
        /\ results'[Len(results) + 1] = r
        /\ \A i \in 1..Len(results) : results'[i] = results[i]
    BY <1>1 DEF KitInv, Typed
  <2>2. Len(results) \in Nat
    BY DEF KitInv, Typed
  <2>3. ASSUME NEW i \in 1..Len(results) + 1, results'[i].code = 0
        PROVE  /\ ~results'[i].failed /\ results'[i].asFound /\ ~results'[i].mock
               /\ env'.alone \/ results'[i].ran
    <3>1. CASE i = Len(results) + 1
      BY <1>1, <1>4, <2>1, <2>3, <3>1
    <3>2. CASE i # Len(results) + 1
      <4>1. i \in DOMAIN results /\ results'[i] = results[i]
        BY <2>1, <2>2, <3>2
      <4> QED
        BY <1>1, <2>3, <4>1 DEF KitInv, ZeroIsClean
    <3> QED
      BY <3>1, <3>2
  <2> QED
    BY <2>1, <2>3 DEF ZeroIsClean
<1>6. suites' # <<>> => Registered' /\ Untouched' /\ Finishing' /\ Over'
  <2>1. Registered' /\ Finishing' /\ Over'
    BY <1>2 DEF Registered, Finishing, Over
  <2>2. ship' = found'
    BY <1>1
  <2>3. Untouched'
    BY <1>1, <1>2, <2>2 DEF Untouched, Alive
  <2> QED
    BY <2>1, <2>3
<1> QED
  BY <1>3, <1>5, <1>6 DEF KitInv

(* The first suite begins with nothing done. *)
LEMMA KitStart == Init => KitInv
<1> SUFFICES ASSUME Init
             PROVE  KitInv
  OBVIOUS
<1>1. ship \in Ships /\ p = NewProcess(ship) /\ found = ship /\ results = <<>>
  BY DEF Init, Ships
<1>2. /\ p \in Process /\ p.at = "gates" /\ ~p.finishing /\ p.waiters = <<>> /\ p.todo = <<>>
      /\ p.cleanups = <<>> /\ p.child = "none" /\ ~p.failed /\ p.left = ship
  BY <1>1, NewProcessIs
<1>3. suites \in Seq(Suite) /\ (~env.alone => env.cookie)
  BY TestKitAssumption DEF Init
<1>4. results \in Seq(Result) /\ DOMAIN results = {}
  BY <1>1
<1>5. Registered /\ Finishing /\ Over
  BY <1>2 DEF Registered, Finishing, Over
<1>6. Untouched
  BY <1>1, <1>2 DEF Untouched, Alive
<1> QED
  BY <1>1, <1>2, <1>3, <1>4, <1>5, <1>6 DEF KitInv, Typed, ZeroIsClean

(* And each step keeps the invariant. *)
LEMMA KitStep == KitInv /\ [Next]_vars => KitInv'
<1> SUFFICES ASSUME KitInv, [Next]_vars
             PROVE  KitInv'
  OBVIOUS
<1>1. ASSUME suites # <<>>, Steps, ~MockGone
      PROVE  KitInv'
  BY <1>1, GatesKept, SnapshotKept, StartMockKept, ChildKept, MockStartsKept, ConfigureKept, BodyKept,
     FinallyKept, CleanupKept, StopMockKept, UnsettledKept, CompareKept, NextSuiteKept DEF Steps
<1>2. ASSUME suites # <<>>, Interrupt
      PROVE  KitInv'
  BY <1>2, InterruptKept
<1>3. ASSUME UNCHANGED <<env, suites, ship, p, found, results>>
      PROVE  KitInv'
  <2>1. suite' = suite
    BY <1>3 DEF suite
  <2>2. Base' = Base
    BY <2>1 DEF Base
  <2>3. WithOwn(p.cleanups)' <=> WithOwn(p.cleanups)
    BY <1>3, <2>2 DEF WithOwn
  <2>4. Registered => Registered'
    BY <1>3, <2>1, <2>3 DEF Registered, Given
  <2>5. Untouched => Untouched'
    BY <1>3, <2>1 DEF Untouched
  <2>6. Finishing => Finishing'
    BY <1>3, <2>1 DEF Finishing, Led, Given
  <2>7. Over => Over'
    BY <1>3 DEF Over
  <2>8. Typed' /\ ZeroIsClean'
    BY <1>3 DEF KitInv, Typed, ZeroIsClean
  <2> QED
    BY <1>3, <2>4, <2>5, <2>6, <2>7, <2>8 DEF KitInv
<1>4. MockGone \/ Done \/ UNCHANGED vars => UNCHANGED <<env, suites, ship, p, found, results>>
  BY DEF MockGone, Done, vars
<1>5. Steps => MockGone \/ suites # <<>>
  BY DEF Steps
<1> QED
  BY <1>1, <1>2, <1>3, <1>4, <1>5 DEF Next

(* Exit code 0 is to be trusted, for any suites, in any environment, whatever *)
(* their bodies register and change, whichever calls fail, and whenever the   *)
(* interrupt comes: the suite ran (or was started by hand), none of its checks *)
(* failed, and the ship is as it was found.                                  *)
THEOREM ExitTrusted == Spec => []ZeroIsClean
<1>1. KitInv => ZeroIsClean
  BY DEF KitInv
<1> QED
  BY <1>1, KitStart, KitStep, PTL DEF Spec

(* Whatever a body did to the ship, Lightning included, and whenever the      *)
(* interrupt comes, its own cleanups run on the ship as it was last changed by *)
(* the suite, before anything is put back, and with the mock up unless the    *)
(* terminal killed it.                                                       *)
THEOREM CleanedFirst == Spec => []CleanedInOrder
<1>1. KitInv => CleanedInOrder
  <2> SUFFICES ASSUME KitInv, p.todo # <<>>, Head(p.todo) = "own", suites # <<>>
               PROVE  Given
    BY DEF CleanedInOrder, Given
  <2> QED
    BY Cleaning DEF Has
<1> QED
  BY <1>1, KitStart, KitStep, PTL DEF Spec
=============================================================================
