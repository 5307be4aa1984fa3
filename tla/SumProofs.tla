------------------------------ MODULE SumProofs ------------------------------
(***************************************************************************)
(* Facts about sums of natural numbers over finite sets, as the community   *)
(* modules define them (SumFunctionOnSet), that the proofs about the mint's *)
(* totals need.                                                             *)
(*                                                                         *)
(* A sum is the number of its units: x has f[x] of them, <<x, 1>> to        *)
(* <<x, f[x]>>.  Once that is proved (SumIsCount), by taking a smallest set *)
(* for which it fails, everything else is a fact about cardinalities.       *)
(***************************************************************************)
EXTENDS Functions, FiniteSets, FiniteSetTheorems, TLAPS

Units(f, S) == {u \in S \X Nat : 1 <= u[2] /\ u[2] <= f[u[1]]}

(* Of a set of finite sets, one is smallest: no set of them is within it. *)
LEMMA SmallestSet ==
  ASSUME NEW S, IsFiniteSet(S), NEW Bad \in SUBSET SUBSET S, Bad # {}
  PROVE  \E T \in Bad : IsFiniteSet(T) /\ \A U \in Bad : U \subseteq T => U = T
<1> DEFINE R == StrictSubsetOrdering(S)
<1>1. IsWellFoundedOn(R, FiniteSubsetsOf(S)) BY FS_StrictSubsetOrderingWellFounded
<1>2. FiniteSubsetsOf(S) = SUBSET S BY FS_FiniteSubsetsOfFinite
<1>3. IsWellFoundedOn(R, SUBSET S) BY <1>1, <1>2
<1> HIDE DEF R
<1>4. PICK T \in Bad : \A U \in Bad : ~(<<U, T>> \in R) BY <1>3, WFMin
<1>5. IsFiniteSet(T) BY FS_Subset
<1>6. \A U \in Bad : U \subseteq T => U = T BY <1>4 DEF R, StrictSubsetOrdering
<1>7. QED BY <1>5, <1>6

(* One element x has f[x] units. *)
LEMMA UnitsOfOne ==
  ASSUME NEW f, NEW x, f[x] \in Nat
  PROVE  IsFiniteSet(Units(f, {x})) /\ Cardinality(Units(f, {x})) = f[x]
<1> DEFINE g == [k \in 1..f[x] |-> <<x, k>>]
<1>1. IsFiniteSet(1..f[x]) /\ Cardinality(1..f[x]) = f[x] BY FS_Interval, SMTT(30)
<1>2. g \in [1..f[x] -> Units(f, {x})] BY DEF Units
<1>3. IsInjective(g) BY DEF IsInjective
<1>4. \A u \in Units(f, {x}) : \E k \in 1..f[x] : g[k] = u
  <2> SUFFICES ASSUME NEW u \in Units(f, {x}) PROVE \E k \in 1..f[x] : g[k] = u OBVIOUS
  <2>1. u = <<x, u[2]>> /\ u[2] \in 1..f[x] BY DEF Units
  <2>2. QED BY <2>1
<1>5. g \in Bijection(1..f[x], Units(f, {x}))
  BY <1>2, <1>3, <1>4 DEF Bijection, Injection, Surjection
<1>6. ExistsBijection(1..f[x], Units(f, {x})) BY <1>5 DEF ExistsBijection
<1>7. QED BY <1>1, <1>6, FS_Bijection

(* Units of two sets together. *)
LEMMA UnitsOfUnion ==
  ASSUME NEW f, NEW S, NEW T
  PROVE  /\ Units(f, S \cup T) = Units(f, S) \cup Units(f, T)
         /\ Units(f, S) \cap Units(f, T) = Units(f, S \cap T)
         /\ Units(f, {}) = {}
BY DEF Units

(* A finite set has finitely many units. *)
LEMMA UnitsFinite ==
  ASSUME NEW f, NEW S, IsFiniteSet(S), \A x \in S : f[x] \in Nat
  PROVE  IsFiniteSet(Units(f, S)) /\ Cardinality(Units(f, S)) \in Nat
<1> DEFINE Bad == {T \in SUBSET S : ~IsFiniteSet(Units(f, T))}
<1>1. Bad = {}
  <2> SUFFICES ASSUME Bad # {} PROVE FALSE OBVIOUS
  <2> HIDE DEF Bad
  <2>0. Bad \in SUBSET SUBSET S BY DEF Bad
  <2>1. PICK T \in Bad : \A U \in Bad : U \subseteq T => U = T BY <2>0, SmallestSet
  <2>2. T \subseteq S /\ ~IsFiniteSet(Units(f, T)) BY DEF Bad
  <2>3. T # {} BY <2>2, UnitsOfUnion, FS_EmptySet
  <2>4. PICK x \in T : TRUE BY <2>3
  <2>5. IsFiniteSet(Units(f, T \ {x}))
    <3>1. T \ {x} \notin Bad BY <2>1, <2>4
    <3>2. QED BY <2>2, <3>1 DEF Bad
  <2>6. IsFiniteSet(Units(f, {x})) BY <2>2, UnitsOfOne
  <2>7. Units(f, T) = Units(f, T \ {x}) \cup Units(f, {x})
    <3>1. T = (T \ {x}) \cup {x} BY <2>4
    <3>2. QED BY <3>1, UnitsOfUnion
  <2>8. QED BY <2>2, <2>5, <2>6, <2>7, FS_Union
<1>2. IsFiniteSet(Units(f, S)) BY <1>1
<1>3. QED BY <1>2, FS_CardinalityType

(* Units, one element less. *)
LEMMA UnitsRemove ==
  ASSUME NEW f, NEW S, IsFiniteSet(S), \A x \in S : f[x] \in Nat, NEW x \in S
  PROVE  Cardinality(Units(f, S)) = f[x] + Cardinality(Units(f, S \ {x}))
<1>1. IsFiniteSet(S \ {x}) BY FS_RemoveElement
<1>2. IsFiniteSet(Units(f, S \ {x})) /\ Cardinality(Units(f, S \ {x})) \in Nat BY <1>1, UnitsFinite
<1>3. IsFiniteSet(Units(f, {x})) /\ Cardinality(Units(f, {x})) = f[x] BY UnitsOfOne
<1>4. Units(f, {x}) \cap Units(f, S \ {x}) = {} BY DEF Units
<1>5. Units(f, S) = Units(f, {x}) \cup Units(f, S \ {x}) BY DEF Units
<1>6. Cardinality(Units(f, {x}) \cap Units(f, S \ {x})) = 0 BY <1>4, FS_EmptySet
<1>7. Cardinality(Units(f, S)) = f[x] + Cardinality(Units(f, S \ {x})) - 0
  BY <1>2, <1>3, <1>5, <1>6, FS_Union
<1>8. QED BY <1>2, <1>7

(* A sum is the number of its units. *)
LEMMA SumIsCount ==
  ASSUME NEW f, NEW S, IsFiniteSet(S), \A x \in S : f[x] \in Nat
  PROVE  SumFunctionOnSet(f, S) = Cardinality(Units(f, S))
<1> DEFINE Def(g) == [s \in SUBSET S |->
             IF s = {} THEN 0
             ELSE f[CHOOSE x \in s : TRUE] + g[s \ {CHOOSE x \in s : TRUE}]]
           it == CHOOSE g : g = Def(g)
           count == [s \in SUBSET S |-> Cardinality(Units(f, s))]
<1>1. SumFunctionOnSet(f, S) = it[S]
  BY DEF SumFunctionOnSet, FoldFunctionOnSet, MapThenFoldSet
<1>2. count = Def(count)
  <2> SUFFICES ASSUME NEW s \in SUBSET S PROVE count[s] = Def(count)[s] OBVIOUS
  <2>1. CASE s = {}
    <3>1. Cardinality(Units(f, s)) = 0 BY <2>1, UnitsOfUnion, FS_EmptySet
    <3>2. QED BY <2>1, <3>1
  <2>2. CASE s # {}
    <3> DEFINE x == CHOOSE x \in s : TRUE
    <3>1. x \in s BY <2>2
    <3>2. IsFiniteSet(s) BY FS_Subset
    <3> HIDE DEF x
    <3>3. Cardinality(Units(f, s)) = f[x] + Cardinality(Units(f, s \ {x})) BY <3>1, <3>2, UnitsRemove
    <3>4. s \ {x} \in SUBSET S OBVIOUS
    <3>5. count[s] = f[x] + count[s \ {x}] BY <3>3, <3>4
    <3>6. QED BY <2>2, <3>5 DEF x
  <2>3. QED BY <2>1, <2>2
<1>3. it = Def(it)
  <2> HIDE DEF Def, count
  <2>1. QED BY <1>2
<1> HIDE DEF it
<1> DEFINE Bad == {s \in SUBSET S : it[s] # count[s]}
<1>4. Bad = {}
  <2> SUFFICES ASSUME Bad # {} PROVE FALSE OBVIOUS
  <2> HIDE DEF Bad
  <2>0. Bad \in SUBSET SUBSET S BY DEF Bad
  <2>1. PICK T \in Bad : \A U \in Bad : U \subseteq T => U = T BY <2>0, SmallestSet
  <2>2. T \in SUBSET S /\ it[T] # count[T] BY DEF Bad
  <2> HIDE DEF count
  <2>3. it[T] = Def(it)[T] /\ count[T] = Def(count)[T] BY <1>2, <1>3
  <2>4. T # {} BY <2>2, <2>3
  <2> DEFINE x == CHOOSE x \in T : TRUE
  <2>5. x \in T BY <2>4
  <2>6. it[T] = f[x] + it[T \ {x}] /\ count[T] = f[x] + count[T \ {x}] BY <2>2, <2>3, <2>4
  <2> HIDE DEF x
  <2>7. T \ {x} \notin Bad BY <2>1, <2>5
  <2>8. QED BY <2>2, <2>6, <2>7 DEF Bad
<1>5. QED BY <1>1, <1>4

(* A sum is a natural number; of nothing it is 0. *)
LEMMA SumType ==
  ASSUME NEW f, NEW S, IsFiniteSet(S), \A x \in S : f[x] \in Nat
  PROVE  SumFunctionOnSet(f, S) \in Nat
BY SumIsCount, UnitsFinite

LEMMA SumEmpty == \A f : SumFunctionOnSet(f, {}) = 0
<1> TAKE f
<1>1. IsFiniteSet({}) BY FS_EmptySet
<1>2. SumFunctionOnSet(f, {}) = Cardinality(Units(f, {})) BY <1>1, SumIsCount
<1>3. QED BY <1>2, UnitsOfUnion, FS_EmptySet

(* Of two sets with no element in common, the sums add. *)
LEMMA SumUnion ==
  ASSUME NEW f, NEW S, NEW T, IsFiniteSet(S), IsFiniteSet(T), S \cap T = {},
         \A x \in S \cup T : f[x] \in Nat
  PROVE  SumFunctionOnSet(f, S \cup T) = SumFunctionOnSet(f, S) + SumFunctionOnSet(f, T)
<1>1. IsFiniteSet(S \cup T) BY FS_Union
<1>2. /\ SumFunctionOnSet(f, S) = Cardinality(Units(f, S))
      /\ SumFunctionOnSet(f, T) = Cardinality(Units(f, T))
      /\ SumFunctionOnSet(f, S \cup T) = Cardinality(Units(f, S \cup T))
  BY <1>1, SumIsCount
<1>3. /\ IsFiniteSet(Units(f, S)) /\ Cardinality(Units(f, S)) \in Nat
      /\ IsFiniteSet(Units(f, T)) /\ Cardinality(Units(f, T)) \in Nat
  BY UnitsFinite
<1>4. Units(f, S) \cap Units(f, T) = {} BY DEF Units
<1>5. Cardinality(Units(f, S) \cap Units(f, T)) = 0 BY <1>4, FS_EmptySet
<1>6. Units(f, S \cup T) = Units(f, S) \cup Units(f, T) BY UnitsOfUnion
<1>7. Cardinality(Units(f, S \cup T)) = Cardinality(Units(f, S)) + Cardinality(Units(f, T)) - 0
  BY <1>3, <1>5, <1>6, FS_Union
<1>8. QED BY <1>2, <1>3, <1>7

(* A part of a sum, and the rest. *)
LEMMA SumPart ==
  ASSUME NEW f, NEW S, IsFiniteSet(S), \A x \in S : f[x] \in Nat, NEW T \in SUBSET S
  PROVE  /\ SumFunctionOnSet(f, S) = SumFunctionOnSet(f, T) + SumFunctionOnSet(f, S \ T)
         /\ SumFunctionOnSet(f, T) <= SumFunctionOnSet(f, S)
         /\ SumFunctionOnSet(f, T) \in Nat /\ SumFunctionOnSet(f, S \ T) \in Nat
         /\ SumFunctionOnSet(f, S) \in Nat
<1>1. IsFiniteSet(T) /\ IsFiniteSet(S \ T) BY FS_Subset, FS_Difference
<1>2. T \cap (S \ T) = {} /\ S = T \cup (S \ T) OBVIOUS
<1>3. SumFunctionOnSet(f, S) = SumFunctionOnSet(f, T) + SumFunctionOnSet(f, S \ T)
  BY <1>1, <1>2, SumUnion
<1>4. /\ SumFunctionOnSet(f, T) \in Nat /\ SumFunctionOnSet(f, S \ T) \in Nat
      /\ SumFunctionOnSet(f, S) \in Nat
  BY <1>1, SumType
<1>5. QED BY <1>3, <1>4

(* One element more, and one alone. *)
LEMMA SumAdd ==
  ASSUME NEW f, NEW S, IsFiniteSet(S), NEW x, x \notin S, \A y \in S \cup {x} : f[y] \in Nat
  PROVE  SumFunctionOnSet(f, S \cup {x}) = SumFunctionOnSet(f, S) + f[x]
<1>1. IsFiniteSet({x}) BY FS_Singleton
<1>2. SumFunctionOnSet(f, {x}) = f[x] BY <1>1, SumIsCount, UnitsOfOne
<1>3. QED BY <1>1, <1>2, SumUnion

LEMMA SumRemove ==
  ASSUME NEW f, NEW S, IsFiniteSet(S), \A y \in S : f[y] \in Nat, NEW x \in S
  PROVE  SumFunctionOnSet(f, S) = SumFunctionOnSet(f, S \ {x}) + f[x]
<1>1. IsFiniteSet(S \ {x}) BY FS_RemoveElement
<1>2. S = (S \ {x}) \cup {x} OBVIOUS
<1>3. QED BY <1>1, <1>2, SumAdd

(* A sum reads its function on the set only. *)
LEMMA SumSame ==
  ASSUME NEW f, NEW g, NEW S, IsFiniteSet(S), \A x \in S : f[x] \in Nat /\ f[x] = g[x]
  PROVE  SumFunctionOnSet(f, S) = SumFunctionOnSet(g, S)
<1>1. Units(f, S) = Units(g, S) BY DEF Units
<1>2. QED BY <1>1, SumIsCount

(* Sums over two sets whose elements and terms match, one to one: the first is
   the lesser, and they are equal if no element of the second is left out. *)
LEMMA SumMatch ==
  ASSUME NEW f, NEW S, NEW g, NEW T, IsFiniteSet(S), IsFiniteSet(T),
         \A x \in S : f[x] \in Nat, \A y \in T : g[y] \in Nat,
         NEW h \in [S -> T], \A x \in S : f[x] = g[h[x]],
         \A x, y \in S : h[x] = h[y] => x = y
  PROVE  /\ SumFunctionOnSet(f, S) <= SumFunctionOnSet(g, T)
         /\ (\A y \in T : \E x \in S : h[x] = y) => SumFunctionOnSet(f, S) = SumFunctionOnSet(g, T)
<1> DEFINE k == [u \in Units(f, S) |-> <<h[u[1]], u[2]>>]
<1>1. /\ SumFunctionOnSet(f, S) = Cardinality(Units(f, S))
      /\ SumFunctionOnSet(g, T) = Cardinality(Units(g, T))
  BY SumIsCount
<1>2. IsFiniteSet(Units(f, S)) /\ IsFiniteSet(Units(g, T)) BY UnitsFinite
<1>3. k \in [Units(f, S) -> Units(g, T)] BY DEF Units
<1>4. IsInjective(k)
  <2> SUFFICES ASSUME NEW u \in Units(f, S), NEW v \in Units(f, S), k[u] = k[v] PROVE u = v
    BY DEF IsInjective
  <2>1. h[u[1]] = h[v[1]] /\ u[2] = v[2] OBVIOUS
  <2>2. u[1] \in S /\ v[1] \in S /\ u = <<u[1], u[2]>> /\ v = <<v[1], v[2]>> BY DEF Units
  <2>3. QED BY <2>1, <2>2
<1>5. k \in Injection(Units(f, S), Units(g, T)) BY <1>3, <1>4 DEF Injection
<1>6. (\A y \in T : \E x \in S : h[x] = y) => k \in Surjection(Units(f, S), Units(g, T))
  <2> SUFFICES ASSUME \A y \in T : \E x \in S : h[x] = y, NEW w \in Units(g, T)
               PROVE  \E u \in Units(f, S) : k[u] = w
    BY <1>3 DEF Surjection
  <2>1. w[1] \in T /\ w = <<w[1], w[2]>> /\ w[2] \in Nat /\ 1 <= w[2] /\ w[2] <= g[w[1]] BY DEF Units
  <2>2. PICK x \in S : h[x] = w[1] BY <2>1
  <2>3. <<x, w[2]>> \in Units(f, S) BY <2>1, <2>2 DEF Units
  <2>4. QED BY <2>1, <2>2, <2>3
<1>7. QED BY <1>1, <1>2, <1>5, <1>6, FS_Injection
=============================================================================
