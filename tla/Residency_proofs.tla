-------------------------- MODULE Residency_proofs --------------------------
(* Theorems about Residency, for every set of models, every budget, every  *)
(* set of declared amounts and every number of loads.                      *)
EXTENDS Residency, FiniteSetTheorems, FunctionTheorems, WellFoundedInduction, TLAPS

-----------------------------------------------------------------------------
(* Induction over the subsets of a finite set.                             *)

LEMMA SubsetInduction ==
  ASSUME NEW M, IsFiniteSet(M), NEW Good,
         \A S \in SUBSET M : (\A T \in SUBSET S : T # S => T \in Good) => S \in Good
  PROVE  SUBSET M \subseteq Good
<1> DEFINE Bad == (SUBSET M) \ Good
<1> SUFFICES ASSUME Bad # {} PROVE FALSE
  OBVIOUS
<1>1. IsWellFoundedOn(StrictSubsetOrdering(M), FiniteSubsetsOf(M))
  BY FS_StrictSubsetOrderingWellFounded
<1>2. PICK S \in Bad : \A T \in Bad : <<T, S>> \notin StrictSubsetOrdering(M)
  <2>1. Bad \subseteq FiniteSubsetsOf(M)
    BY FS_FiniteSubsetsOfFinite
  <2> HIDE DEF Bad
  <2> QED
    BY <1>1, <2>1, WFMin
<1>3. ASSUME NEW T \in SUBSET S, T # S
      PROVE  T \in Good
  <2>1. T \in SUBSET M /\ S \in SUBSET M /\ T \subseteq S
    BY <1>2
  <2>2. <<T, S>> \in StrictSubsetOrdering(M)
    BY <1>3, <2>1, Zenon DEF StrictSubsetOrdering
  <2> QED
    BY <1>2, <2>1, <2>2
<1>4. S \in Good
  BY <1>2, <1>3
<1> QED
  BY <1>2, <1>4

-----------------------------------------------------------------------------
(* Totals.  Total(S, w) applies the function that adds the amounts of S in *)
(* the order in which CHOOSE names them.                                   *)

Chosen(s) == CHOOSE x \in s : TRUE

Adds(g, S, w) ==
  g = [s \in SUBSET S |-> IF s = {} THEN 0 ELSE w[Chosen(s)] + g[s \ {Chosen(s)}]]

LEMMA TotalIsApplied ==
  ASSUME NEW S, NEW w
  PROVE  Total(S, w) = (CHOOSE g : Adds(g, S, w))[S]
BY DEF Total, MapThenSumSet, MapThenFoldSet, Adds, Chosen

LEMMA AddsAt ==
  ASSUME NEW S, NEW w, NEW g, Adds(g, S, w), NEW s \in SUBSET S
  PROVE  /\ s = {} => g[s] = 0
         /\ s # {} => Chosen(s) \in s /\ g[s] = w[Chosen(s)] + g[s \ {Chosen(s)}]
<1>1. g[s] = IF s = {} THEN 0 ELSE w[Chosen(s)] + g[s \ {Chosen(s)}]
  BY DEF Adds
<1>2. s # {} => Chosen(s) \in s
  BY DEF Chosen
<1> QED
  BY <1>1, <1>2

(* Two such functions agree where both are defined. *)
LEMMA AddsAgree ==
  ASSUME NEW M, IsFiniteSet(M), NEW w,
         NEW S \in SUBSET M, NEW T \in SUBSET M, NEW g, NEW h, Adds(g, S, w), Adds(h, T, w),
         NEW s \in SUBSET M, s \subseteq S, s \subseteq T
  PROVE  g[s] = h[s]
<1> DEFINE Same == {t \in SUBSET M : t \subseteq S /\ t \subseteq T => g[t] = h[t]}
<1>1. ASSUME NEW t \in SUBSET M, \A r \in SUBSET t : r # t => r \in Same
      PROVE  t \in Same
  <2> SUFFICES ASSUME t \subseteq S, t \subseteq T PROVE g[t] = h[t]
    OBVIOUS
  <2>1. CASE t = {}
    BY <2>1, AddsAt
  <2>2. CASE t # {}
    <3>1. Chosen(t) \in t /\ g[t] = w[Chosen(t)] + g[t \ {Chosen(t)}]
      BY <2>2, AddsAt
    <3>2. h[t] = w[Chosen(t)] + h[t \ {Chosen(t)}]
      BY <2>2, AddsAt
    <3>3. t \ {Chosen(t)} \in Same
      BY <1>1, <3>1
    <3> QED
      BY <3>1, <3>2, <3>3
  <2> QED
    BY <2>1, <2>2
<1>2. SUBSET M \subseteq Same
  <2> HIDE DEF Same
  <2> QED
    BY <1>1, SubsetInduction
<1> QED
  BY <1>2

(* There is one for every set. *)
LEMMA AddsExists ==
  ASSUME NEW M, IsFiniteSet(M), NEW w, NEW S \in SUBSET M
  PROVE  Adds(CHOOSE g : Adds(g, S, w), S, w)
<1> DEFINE Added == {s \in SUBSET M : \E g : Adds(g, s, w)}
           Choice(s) == CHOOSE g : Adds(g, s, w)
<1>1. ASSUME NEW s \in SUBSET M, \A r \in SUBSET s : r # s => r \in Added
      PROVE  s \in Added
  <2> DEFINE below(t) == Choice(t)[t]
             h == [t \in SUBSET s |->
                     IF t = {} THEN 0 ELSE w[Chosen(t)] + below(t \ {Chosen(t)})]
  <2>1. \A r \in SUBSET s : r # s => Adds(Choice(r), r, w)
    BY <1>1
  <2>2. ASSUME NEW r \in SUBSET s, r # s
        PROVE  below(r) = h[r]
    <3>1. CASE r = {}
      <4>1. Adds(Choice(r), r, w)
        BY <2>1, <2>2
      <4>2. below(r) = 0
        <5> HIDE DEF Choice
        <5> QED
          BY <3>1, <4>1, AddsAt
      <4> QED
        BY <3>1, <4>2
    <3>2. CASE r # {}
      <4> DEFINE x == Chosen(r)
      <4>1. x \in r /\ below(r) = w[x] + Choice(r)[r \ {x}]
        <5>1. Adds(Choice(r), r, w)
          BY <2>1, <2>2
        <5> HIDE DEF Choice
        <5> QED
          BY <3>2, <5>1, AddsAt
      <4>2. r \ {x} \in SUBSET s /\ r \ {x} # s
        BY <2>2, <4>1
      <4>3. Choice(r)[r \ {x}] = Choice(r \ {x})[r \ {x}]
        <5>1. Adds(Choice(r \ {x}), r \ {x}, w) /\ Adds(Choice(r), r, w)
          BY <2>1, <2>2, <4>2
        <5> HIDE DEF Choice
        <5> QED
          BY <5>1, <4>2, AddsAgree
      <4>4. h[r] = w[x] + below(r \ {x})
        BY <3>2
      <4>5. below(r \ {x}) = Choice(r)[r \ {x}]
        BY <4>3
      <4> HIDE DEF h, x, below
      <4> QED
        BY <4>1, <4>4, <4>5
    <3> QED
      BY <3>1, <3>2
  <2>3. ASSUME NEW t \in SUBSET s
        PROVE  h[t] = IF t = {} THEN 0 ELSE w[Chosen(t)] + h[t \ {Chosen(t)}]
    <3>1. CASE t = {}
      BY <3>1
    <3>2. CASE t # {}
      <4>1. Chosen(t) \in t
        BY <3>2 DEF Chosen
      <4>2. t \ {Chosen(t)} \in SUBSET s /\ t \ {Chosen(t)} # s
        BY <4>1
      <4>3. below(t \ {Chosen(t)}) = h[t \ {Chosen(t)}]
        BY <2>2, <4>2
      <4>4. h[t] = w[Chosen(t)] + below(t \ {Chosen(t)})
        BY <3>2
      <4> QED
        BY <3>2, <4>3, <4>4
    <3> QED
      BY <3>1, <3>2
  <2>4. h = [t \in SUBSET s |-> h[t]]
    OBVIOUS
  <2>5. Adds(h, s, w)
    <3> HIDE DEF h
    <3> QED
      BY <2>3, <2>4 DEF Adds
  <2> QED
    BY <2>5
<1>2. SUBSET M \subseteq Added
  <2> HIDE DEF Added
  <2> QED
    BY <1>1, SubsetInduction
<1>3. \E g : Adds(g, S, w)
  BY <1>2
<1> QED
  BY <1>3

(* Adding a set: nothing, or one chosen element and the rest. *)
LEMMA TotalChooses ==
  ASSUME NEW S, IsFiniteSet(S), NEW w
  PROVE  /\ Total({}, w) = 0
         /\ S # {} => /\ Chosen(S) \in S
                      /\ Total(S, w) = w[Chosen(S)] + Total(S \ {Chosen(S)}, w)
<1> DEFINE Choice(s) == CHOOSE g : Adds(g, s, w)
<1>1. ASSUME NEW s \in SUBSET S
      PROVE  Adds(Choice(s), s, w) /\ Total(s, w) = Choice(s)[s]
  BY AddsExists, TotalIsApplied
<1>2. {} \in SUBSET S /\ S \in SUBSET S /\ S \ {Chosen(S)} \in SUBSET S
  OBVIOUS
<1> HIDE DEF Choice
<1>3. Total({}, w) = 0
  <2>1. Adds(Choice({}), {}, w) /\ Total({}, w) = Choice({})[{}]
    BY <1>1, <1>2
  <2>2. {} \in SUBSET {}
    OBVIOUS
  <2> QED
    BY <2>1, <2>2, AddsAt
<1>4. ASSUME S # {}
      PROVE  Chosen(S) \in S /\ Total(S, w) = w[Chosen(S)] + Total(S \ {Chosen(S)}, w)
  <2>1. /\ Chosen(S) \in S
        /\ Choice(S)[S] = w[Chosen(S)] + Choice(S)[S \ {Chosen(S)}]
    BY <1>1, <1>2, <1>4, AddsAt
  <2>2. Choice(S)[S \ {Chosen(S)}] = Choice(S \ {Chosen(S)})[S \ {Chosen(S)}]
    BY <1>1, <1>2, AddsAgree
  <2> QED
    BY <1>1, <1>2, <2>1, <2>2
<1> QED
  BY <1>3, <1>4

Natural(S, w) == \A m \in S : w[m] \in Nat

LEMMA TotalIsNatural ==
  ASSUME NEW M, IsFiniteSet(M), NEW w, Natural(M, w), NEW S \in SUBSET M
  PROVE  Total(S, w) \in Nat
<1> DEFINE Fine == {s \in SUBSET M : Total(s, w) \in Nat}
<1>1. ASSUME NEW s \in SUBSET M, \A r \in SUBSET s : r # s => r \in Fine
      PROVE  s \in Fine
  <2>0. IsFiniteSet(s)
    BY FS_Subset
  <2>1. CASE s = {}
    BY <2>0, <2>1, TotalChooses
  <2>2. CASE s # {}
    <3>1. Chosen(s) \in s /\ Total(s, w) = w[Chosen(s)] + Total(s \ {Chosen(s)}, w)
      BY <2>0, <2>2, TotalChooses
    <3>2. s \ {Chosen(s)} \in Fine
      BY <1>1, <3>1
    <3>3. w[Chosen(s)] \in Nat
      BY <3>1 DEF Natural
    <3> QED
      BY <3>1, <3>2, <3>3
  <2> QED
    BY <2>1, <2>2
<1>2. SUBSET M \subseteq Fine
  <2> HIDE DEF Fine
  <2> QED
    BY <1>1, SubsetInduction
<1> QED
  BY <1>2

(* Any element may be taken out first. *)
LEMMA TotalTakesOut ==
  ASSUME NEW M, IsFiniteSet(M), NEW w, Natural(M, w), NEW S \in SUBSET M, NEW e \in S
  PROVE  Total(S, w) = w[e] + Total(S \ {e}, w)
<1> DEFINE Fine == {s \in SUBSET M : \A m \in s : Total(s, w) = w[m] + Total(s \ {m}, w)}
<1>1. ASSUME NEW s \in SUBSET M, \A r \in SUBSET s : r # s => r \in Fine
      PROVE  s \in Fine
  <2> SUFFICES ASSUME NEW m \in s PROVE Total(s, w) = w[m] + Total(s \ {m}, w)
    OBVIOUS
  <2> DEFINE c == Chosen(s)
             rest == s \ {c, m}
  <2>1. c \in s /\ Total(s, w) = w[c] + Total(s \ {c}, w)
    BY FS_Subset, TotalChooses
  <2>2. CASE c = m
    BY <2>1, <2>2
  <2>3. CASE c # m
    <3>1. Total(s \ {c}, w) = w[m] + Total(rest, w)
      <4>1. s \ {c} \in Fine /\ m \in s \ {c} /\ (s \ {c}) \ {m} = rest
        BY <1>1, <2>1, <2>3
      <4> QED
        BY <4>1
    <3>2. Total(s \ {m}, w) = w[c] + Total(rest, w)
      <4>1. s \ {m} \in Fine /\ c \in s \ {m} /\ (s \ {m}) \ {c} = rest
        BY <1>1, <2>1, <2>3
      <4> QED
        BY <4>1
    <3>3. w[c] \in Nat /\ w[m] \in Nat /\ Total(rest, w) \in Nat
      BY <2>1, TotalIsNatural DEF Natural
    <3> HIDE DEF c, rest
    <3> QED
      BY <2>1, <3>1, <3>2, <3>3
  <2> QED
    BY <2>2, <2>3
<1>2. SUBSET M \subseteq Fine
  <2> HIDE DEF Fine
  <2> QED
    BY <1>1, SubsetInduction
<1> QED
  BY <1>2

(* A set may be added in two parts. *)
LEMMA TotalSplits ==
  ASSUME NEW M, IsFiniteSet(M), NEW w, Natural(M, w), NEW S \in SUBSET M, NEW T \in SUBSET S
  PROVE  Total(S, w) = Total(T, w) + Total(S \ T, w)
<1> DEFINE Fine == {t \in SUBSET S : Total(S, w) = Total(t, w) + Total(S \ t, w)}
<1>0. IsFiniteSet(S)
  BY FS_Subset
<1>1. ASSUME NEW t \in SUBSET S, \A r \in SUBSET t : r # t => r \in Fine
      PROVE  t \in Fine
  <2>1. CASE t = {}
    <3>1. Total({}, w) = 0
      BY <1>0, TotalChooses
    <3>2. S \ t = S
      BY <2>1
    <3>3. Total(S, w) \in Nat
      BY TotalIsNatural
    <3> QED
      BY <2>1, <3>1, <3>2, <3>3
  <2>2. CASE t # {}
    <3>1. PICK e \in t : TRUE
      BY <2>2
    <3>2. t \ {e} \in Fine
      BY <1>1
    <3>3. Total(t, w) = w[e] + Total(t \ {e}, w)
      BY TotalTakesOut
    <3>4. Total(S \ (t \ {e}), w) = w[e] + Total(S \ t, w)
      <4>1. e \in S \ (t \ {e}) /\ (S \ (t \ {e})) \ {e} = S \ t
        OBVIOUS
      <4>2. S \ (t \ {e}) \in SUBSET M
        OBVIOUS
      <4> QED
        BY <4>1, <4>2, TotalTakesOut
    <3>5. /\ w[e] \in Nat /\ Total(t \ {e}, w) \in Nat /\ Total(S \ t, w) \in Nat
      <4>1. t \ {e} \in SUBSET M /\ S \ t \in SUBSET M
        OBVIOUS
      <4> QED
        BY <4>1, TotalIsNatural DEF Natural
    <3> QED
      BY <3>2, <3>3, <3>4, <3>5
  <2> QED
    BY <2>1, <2>2
<1>2. SUBSET S \subseteq Fine
  <2> HIDE DEF Fine
  <2> QED
    BY <1>0, <1>1, SubsetInduction
<1> QED
  BY <1>2

(* Only the amounts of the set count. *)
LEMMA TotalDependsOn ==
  ASSUME NEW S, IsFiniteSet(S), NEW w, NEW v, \A m \in S : v[m] = w[m]
  PROVE  Total(S, v) = Total(S, w)
<1> DEFINE Fine == {s \in SUBSET S : Total(s, v) = Total(s, w)}
<1>1. ASSUME NEW s \in SUBSET S, \A r \in SUBSET s : r # s => r \in Fine
      PROVE  s \in Fine
  <2>0. IsFiniteSet(s)
    BY FS_Subset
  <2>1. CASE s = {}
    BY <2>0, <2>1, TotalChooses
  <2>2. CASE s # {}
    <3>1. /\ Chosen(s) \in s
          /\ Total(s, w) = w[Chosen(s)] + Total(s \ {Chosen(s)}, w)
          /\ Total(s, v) = v[Chosen(s)] + Total(s \ {Chosen(s)}, v)
      BY <2>0, <2>2, TotalChooses
    <3>2. s \ {Chosen(s)} \in Fine
      BY <1>1, <3>1
    <3> QED
      BY <3>1, <3>2
  <2> QED
    BY <2>1, <2>2
<1>2. SUBSET S \subseteq Fine
  <2> HIDE DEF Fine
  <2> QED
    BY <1>1, SubsetInduction
<1> QED
  BY <1>2

LEMMA TotalIsBounded ==
  ASSUME NEW M, IsFiniteSet(M), NEW w, Natural(M, w),
         NEW most \in Nat, \A m \in M : w[m] <= most
  PROVE  Total(M, w) <= Cardinality(M) * most
<1> DEFINE Fine == {s \in SUBSET M : Total(s, w) <= Cardinality(s) * most}
<1>1. ASSUME NEW s \in SUBSET M, \A r \in SUBSET s : r # s => r \in Fine
      PROVE  s \in Fine
  <2>0. IsFiniteSet(s) /\ Cardinality(s) \in Nat
    BY FS_Subset, FS_CardinalityType
  <2>1. CASE s = {}
    <3>1. Total(s, w) = 0 /\ Cardinality(s) = 0
      BY <2>0, <2>1, TotalChooses, FS_EmptySet
    <3>2. 0 <= 0 * most
      OBVIOUS
    <3> QED
      BY <3>1, <3>2
  <2>2. CASE s # {}
    <3> DEFINE c == Chosen(s)
               rest == s \ {c}
    <3>1. c \in s /\ Total(s, w) = w[c] + Total(rest, w)
      BY <2>0, <2>2, TotalChooses
    <3>2. rest \in Fine
      BY <1>1, <3>1
    <3>3. Cardinality(s) = Cardinality(rest) + 1 /\ Cardinality(rest) \in Nat
      <4>1. IsFiniteSet(rest) /\ Cardinality(rest) = Cardinality(s) - 1
        BY <2>0, <3>1, FS_RemoveElement
      <4>2. Cardinality(rest) \in Nat
        BY <4>1, FS_CardinalityType
      <4> HIDE DEF rest
      <4> QED
        BY <2>0, <4>1, <4>2
    <3>4. w[c] \in Nat /\ w[c] <= most /\ Total(rest, w) \in Nat
      BY <3>1, TotalIsNatural DEF Natural
    <3>5. (Cardinality(rest) + 1) * most = Cardinality(rest) * most + most
      BY <3>3
    <3>6. Cardinality(rest) * most \in Nat
      BY <3>3
    <3>7. Total(rest, w) <= Cardinality(rest) * most
      BY <3>2
    <3> HIDE DEF c, rest
    <3> QED
      BY <3>1, <3>3, <3>4, <3>5, <3>6, <3>7
  <2> QED
    BY <2>1, <2>2
<1>2. SUBSET M \subseteq Fine
  <2> HIDE DEF Fine
  <2> QED
    BY <1>1, SubsetInduction
<1> QED
  BY <1>2

-----------------------------------------------------------------------------
(* The walk.  A finite set whose members were noted at different times can *)
(* be sorted: each goes to the place that counts those no younger than it. *)

Distinct(S, age) ==
  /\ \A s \in S : age[s] \in Nat
  /\ \A s, t \in S : age[s] = age[t] => s = t

Sorted(walk, age) ==
  \A i, j \in DOMAIN walk : i < j => age[walk[i]] < age[walk[j]]

LEMMA SortExists ==
  ASSUME NEW S, IsFiniteSet(S), NEW age, Distinct(S, age)
  PROVE  \E walk \in SetToSeqs(S) : Sorted(walk, age)
<1> DEFINE n == Cardinality(S)
           upTo(s) == {e \in S : age[e] <= age[s]}
           rank == [s \in S |-> Cardinality(upTo(s))]
           walk == [i \in 1 .. n |-> CHOOSE s \in S : rank[s] = i]
<1>1. n \in Nat
  BY FS_CardinalityType
<1>2. ASSUME NEW s \in S
      PROVE  rank[s] \in 1 .. n
  <2>1. upTo(s) \in SUBSET S /\ s \in upTo(s)
    BY DEF Distinct
  <2>2. IsFiniteSet(upTo(s)) /\ Cardinality(upTo(s)) <= n
    BY <2>1, FS_Subset
  <2>3. Cardinality(upTo(s)) \in Nat /\ Cardinality(upTo(s)) # 0
    BY <2>1, <2>2, FS_CardinalityType, FS_EmptySet
  <2> QED
    BY <1>1, <2>2, <2>3
<1>3. ASSUME NEW s \in S, NEW t \in S, age[s] < age[t]
      PROVE  rank[s] < rank[t]
  <2>1. upTo(s) \in SUBSET upTo(t) /\ t \in upTo(t) /\ t \notin upTo(s)
    BY <1>3 DEF Distinct
  <2>2. IsFiniteSet(upTo(t)) /\ IsFiniteSet(upTo(s))
    BY FS_Subset
  <2>3. /\ Cardinality(upTo(s)) <= Cardinality(upTo(t))
        /\ Cardinality(upTo(s)) # Cardinality(upTo(t))
    BY <2>1, <2>2, FS_Subset
  <2>4. Cardinality(upTo(s)) \in Nat /\ Cardinality(upTo(t)) \in Nat
    BY <2>2, FS_CardinalityType
  <2> QED
    BY <2>3, <2>4
<1>4. rank \in Surjection(S, 1 .. n)
  <2>1. rank \in [S -> 1 .. n]
    BY <1>2
  <2>2. ASSUME NEW s \in S, NEW t \in S, rank[s] = rank[t]
        PROVE  s = t
    <3>1. age[s] \in Nat /\ age[t] \in Nat /\ rank[s] \in Nat /\ rank[t] \in Nat
      BY <1>1, <1>2 DEF Distinct
    <3>2. ~(age[s] < age[t]) /\ ~(age[t] < age[s])
      BY <1>3, <2>2, <3>1
    <3> QED
      BY <3>1, <3>2 DEF Distinct
  <2>3. rank \in Injection(S, 1 .. n)
    <3> HIDE DEF rank
    <3> QED
      BY <2>1, <2>2 DEF Injection, IsInjective
  <2>4. IsFiniteSet(1 .. n) /\ Cardinality(1 .. n) = n
    BY <1>1, FS_Interval
  <2> HIDE DEF rank
  <2> QED
    BY <2>3, <2>4, FS_Injection
<1>5. ASSUME NEW i \in 1 .. n
      PROVE  walk[i] \in S /\ rank[walk[i]] = i
  <2>1. \E s \in S : rank[s] = i
    BY <1>4 DEF Surjection
  <2> HIDE DEF rank
  <2> QED
    BY <2>1
<1>6. walk \in [1 .. n -> S]
  BY <1>5
<1> HIDE DEF walk, rank
<1>7. \A i, j \in 1 .. n : i # j => walk[i] # walk[j]
  BY <1>5
<1>8. ASSUME NEW i \in 1 .. n, NEW j \in 1 .. n, i < j
      PROVE  age[walk[i]] < age[walk[j]]
  <2>1. walk[i] \in S /\ walk[j] \in S /\ walk[i] # walk[j]
    BY <1>5, <1>8
  <2>2. ~(age[walk[j]] < age[walk[i]])
    BY <1>3, <1>5, <1>8, <2>1
  <2> QED
    BY <2>1, <2>2 DEF Distinct
<1> QED
  BY <1>6, <1>7, <1>8 DEF SetToSeqs, Sorted

(* The candidates, oldest first: each of them once, and what goes before   *)
(* one of them is what is older.                                           *)
LEMMA CandidatesSorted ==
  ASSUME NEW S, IsFiniteSet(S), Distinct(S, lastUsed)
  PROVE  /\ ByAge(S) \in Seq(S)
         /\ ToSet(ByAge(S)) = S
         /\ Sorted(ByAge(S), lastUsed)
         /\ Len(ByAge(S)) \in Nat
         /\ DOMAIN ByAge(S) = 1 .. Len(ByAge(S))
         /\ \A n \in 0 .. Len(ByAge(S)) :
              ToSet(SubSeq(ByAge(S), 1, n)) = {ByAge(S)[i] : i \in 1 .. n}
<1> DEFINE c == ByAge(S)
           n == Cardinality(S)
<1>1. c \in SetToSeqs(S) /\ Sorted(c, lastUsed)
  BY SortExists DEF ByAge, Sorted
<1> HIDE DEF c
<1>2. c \in [1 .. n -> S] /\ \A i, j \in 1 .. n : i # j => c[i] # c[j]
  BY <1>1 DEF SetToSeqs
<1>3. n \in Nat
  BY FS_CardinalityType
<1>4. c \in Seq(S) /\ Len(c) = n /\ DOMAIN c = 1 .. n
  BY <1>2, <1>3
<1>5. ToSet(c) = S
  <2>1. c \in Injection(1 .. n, S)
    BY <1>2 DEF Injection, IsInjective
  <2>2. Cardinality(1 .. n) = n
    BY <1>3, FS_Interval
  <2>3. c \in Surjection(1 .. n, S)
    BY <2>1, <2>2, FS_Injection
  <2> QED
    BY <1>4, <2>3 DEF Surjection, ToSet
<1>6. ASSUME NEW k \in 0 .. n
      PROVE  ToSet(SubSeq(c, 1, k)) = {c[i] : i \in 1 .. k}
  <2>1. /\ Len(SubSeq(c, 1, k)) = k
        /\ DOMAIN SubSeq(c, 1, k) = 1 .. k
        /\ \A i \in 1 .. k : SubSeq(c, 1, k)[i] = c[i]
    BY <1>3, <1>4, <1>6
  <2> QED
    BY <2>1 DEF ToSet
<1> QED
  BY <1>1, <1>3, <1>4, <1>5, <1>6 DEF c

-----------------------------------------------------------------------------
(* The books: each model was noted at a time of its own, and is charged    *)
(* what some declaration comes to.                                         *)

Books ==
  /\ resident \subseteq Models
  /\ clock \in Nat
  /\ bytes \in [Models -> Nat]
  /\ lastUsed \in [Models -> Nat]
  /\ \A m \in Models : bytes[m] \in {0} \cup {Charge(mb) : mb \in RuntimeMb}
  /\ \A m \in Models : lastUsed[m] <= clock
  /\ \A a, b \in resident : lastUsed[a] = lastUsed[b] => a = b

-----------------------------------------------------------------------------
(* The walk of evictionOrder.                                              *)

(* The first point at which something holds of a candidate count. *)
LEMMA LeastExists ==
  ASSUME NEW n \in Nat, NEW K \in SUBSET (0 .. n), K # {}
  PROVE  \E k \in K : \A i \in K : k <= i
<1> DEFINE age == [k \in 0 .. n |-> k]
<1>1. IsFiniteSet(K)
  <2>1. IsFiniteSet(0 .. n)
    BY FS_Interval
  <2> QED
    BY <2>1, FS_Subset
<1>2. Distinct(K, age)
  BY DEF Distinct
<1>3. PICK walk \in SetToSeqs(K) : Sorted(walk, age)
  BY <1>1, <1>2, SortExists
<1> DEFINE size == Cardinality(K)
<1>4. size \in Nat /\ size # 0
  BY <1>1, FS_CardinalityType, FS_EmptySet
<1>5. walk \in [1 .. size -> K] /\ walk \in Injection(1 .. size, K)
  BY <1>3 DEF SetToSeqs, Injection, IsInjective
<1>6. walk \in Surjection(1 .. size, K)
  BY <1>1, <1>4, <1>5, FS_Interval, FS_Injection
<1>7. ASSUME NEW i \in K
      PROVE  walk[1] <= i
  <2>1. PICK j \in 1 .. size : walk[j] = i
    BY <1>6 DEF Surjection
  <2> HIDE DEF size
  <2>2. 1 \in 1 .. size /\ DOMAIN walk = 1 .. size /\ walk[1] \in K /\ walk[j] \in K
    BY <1>4, <1>5
  <2>3. j = 1 \/ age[walk[1]] < age[walk[j]]
    <3> HIDE DEF age
    <3> QED
      BY <1>3, <1>4, <2>2 DEF Sorted
  <2>4. age[walk[1]] = walk[1] /\ age[walk[j]] = walk[j]
    BY <2>2
  <2>5. walk[1] \in Nat
    <3>1. K \subseteq Nat
      OBVIOUS
    <3> QED
      BY <2>2, <3>1
  <2> HIDE DEF age
  <2> QED
    BY <2>1, <2>3, <2>4, <2>5
<1>8. walk[1] \in K
  <2> HIDE DEF size
  <2> QED
    BY <1>4, <1>5
<1> QED
  BY <1>7, <1>8

(* The walk names the victims, and once they are gone the load fits, if it *)
(* can fit at all.                                                         *)
LEMMA WalkNames ==
  ASSUME Books, NEW keep \in Models, NEW incoming
  PROVE  LET S == Others(resident, keep)
             victims == EvictionVictims(resident, bytes, lastUsed, incoming, keep)
         IN  /\ ToSet(EvictionOrder(incoming, keep)) = victims
             /\ Budget # 0 /\ FitsWithout(S, S, bytes, incoming)
                  => FitsWithout(victims, S, bytes, incoming)
<1> DEFINE S == Others(resident, keep)
           victims == EvictionVictims(resident, bytes, lastUsed, incoming, keep)
           c == ByAge(S)
           n == Len(c)
           Fits(freed) == FitsWithout(freed, S, bytes, incoming)
           First(k) == {c[i] : i \in 1 .. k}
           Stops == CHOOSE k \in 0 .. n : Fits(First(k)) /\ \A i \in 0 .. k - 1 : ~Fits(First(i))
<1>1. IsFiniteSet(S) /\ Distinct(S, lastUsed)
  <2>1. S \in SUBSET Models
    BY DEF Others, Books
  <2> QED
    BY <2>1, FS_Subset, GovernorAssumption DEF Others, Books, Distinct
<1>2. /\ n \in Nat /\ DOMAIN c = 1 .. n /\ Sorted(c, lastUsed) /\ ToSet(c) = S
      /\ \A k \in 0 .. n : ToSet(SubSeq(c, 1, k)) = First(k)
  <2> HIDE DEF S
  <2> QED
    BY <1>1, CandidatesSorted
<1>3. First(0) = {} /\ First(n) = S
  BY <1>2 DEF ToSet
<1>4. ASSUME NEW k \in 1 .. n
      PROVE  OlderThan(c[k], S, lastUsed) = First(k - 1)
  <2>1. \A i \in 1 .. n : lastUsed[c[i]] \in Nat
    BY <1>1, <1>2, <1>3 DEF Distinct
  <2>2. \A i \in 1 .. n : lastUsed[c[i]] < lastUsed[c[k]] <=> i < k
    BY <1>2, <1>4, <2>1 DEF Sorted
  <2> HIDE DEF S, c, n
  <2> QED
    BY <1>2, <1>3, <1>4, <2>2 DEF OlderThan
<1> HIDE DEF Fits
<1>5. ASSUME NEW k \in 1 .. n
      PROVE  c[k] \in victims
               <=> Budget # 0 /\ ~Fits({}) /\ Fits(S) /\ \A i \in 1 .. k : ~Fits(First(i - 1))
  <2>1. OlderThan(c[k], S, lastUsed) \cup {c[k]} = First(k)
    BY <1>2, <1>4
  <2>2. c[k] \in S
    BY <1>2, <1>3
  <2>3. c[k] \in victims <=>
          /\ Budget # 0 /\ ~Fits({}) /\ Fits(S)
          /\ \A e \in First(k) : ~Fits(OlderThan(e, S, lastUsed))
    BY <2>1, <2>2 DEF EvictionVictims, Fits
  <2> HIDE DEF S, c, n, victims
  <2>4. (\A e \in First(k) : ~Fits(OlderThan(e, S, lastUsed)))
          <=> \A i \in 1 .. k : ~Fits(First(i - 1))
    <3>1. \A i \in 1 .. k : OlderThan(c[i], S, lastUsed) = First(i - 1)
      BY <1>2, <1>4
    <3>2. \A e : e \in First(k) <=> \E i \in 1 .. k : e = c[i]
      OBVIOUS
    <3> HIDE DEF First
    <3> QED
      BY <3>1, <3>2
  <2> QED
    BY <2>3, <2>4
<1>6. victims \subseteq S
  BY DEF EvictionVictims
<1>7. \A k \in 0 .. n : FitsAfter(k, c, incoming) <=> Fits(First(k))
  <2> HIDE DEF c, n, First
  <2> QED
    BY <1>2 DEF FitsAfter, Fits
<1>8. EvictionOrder(incoming, keep) =
        IF Budget = 0 \/ Fits({}) \/ ~Fits(S) THEN <<>> ELSE SubSeq(c, 1, StopsAt(c, incoming))
  <2>1. (FitsAfter(0, c, incoming) <=> Fits({})) /\ (FitsAfter(n, c, incoming) <=> Fits(S))
    BY <1>2, <1>3, <1>7
  <2> HIDE DEF Fits
  <2> QED
    BY <2>1 DEF EvictionOrder
<1>9. CASE Budget = 0 \/ Fits({}) \/ ~Fits(S)
  <2>1. victims = {}
    BY <1>9 DEF EvictionVictims, Fits
  <2>2. ToSet(EvictionOrder(incoming, keep)) = {}
    BY <1>8, <1>9 DEF ToSet
  <2>3. Budget # 0 /\ Fits(S) => Fits(victims)
    BY <1>9, <2>1
  <2> HIDE DEF victims, S
  <2> QED
    BY <2>1, <2>2, <2>3 DEF Fits, victims, S
<1>10. CASE ~(Budget = 0 \/ Fits({}) \/ ~Fits(S))
  <2> DEFINE K == {k \in 0 .. n : Fits(First(k))}
             stop == StopsAt(c, incoming)
  <2>1. /\ stop \in 0 .. n /\ Fits(First(stop))
        /\ \A i \in 0 .. stop - 1 : ~Fits(First(i))
    <3>1. K \in SUBSET (0 .. n) /\ n \in K
      <4>1. n \in 0 .. n /\ Fits(First(n))
        <5> HIDE DEF S, n, First
        <5> QED
          BY <1>2, <1>3, <1>10
      <4> HIDE DEF First, n
      <4> QED
        BY <4>1
    <3>2. PICK k \in K : \A i \in K : k <= i
      <4> HIDE DEF K, n
      <4> QED
        BY <1>2, <3>1, LeastExists
    <3>3. /\ FitsAfter(k, c, incoming) /\ k \in 0 .. n
          /\ \A i \in 0 .. k - 1 : ~FitsAfter(i, c, incoming)
      <4>1. k \in 0 .. n /\ Fits(First(k)) /\ \A i \in 0 .. n : Fits(First(i)) => k <= i
        BY <3>2
      <4>2. \A i \in 0 .. k - 1 : i \in 0 .. n /\ ~(k <= i)
        BY <1>2, <4>1
      <4> HIDE DEF First, n, c
      <4> QED
        BY <1>7, <4>1, <4>2
    <3>4. /\ stop \in 0 .. n /\ FitsAfter(stop, c, incoming)
          /\ \A i \in 0 .. stop - 1 : ~FitsAfter(i, c, incoming)
      <4> HIDE DEF c, K
      <4> QED
        BY <3>3 DEF StopsAt
    <3> QED
      BY <1>2, <1>7, <3>4
  <2>2. ASSUME NEW k \in 1 .. n
        PROVE  c[k] \in victims <=> k <= stop
    <3>1. c[k] \in victims <=> \A i \in 1 .. k : ~Fits(First(i - 1))
      BY <1>5, <1>10
    <3>2. ASSUME k <= stop PROVE \A i \in 1 .. k : ~Fits(First(i - 1))
      <4>1. \A i \in 1 .. k : i - 1 \in 0 .. stop - 1
        BY <1>2, <2>1, <3>2
      <4> HIDE DEF stop, First, c, n, S
      <4> QED
        BY <2>1, <4>1
    <3>3. ASSUME k > stop PROVE ~ \A i \in 1 .. k : ~Fits(First(i - 1))
      <4>1. stop + 1 \in 1 .. k /\ (stop + 1) - 1 = stop
        BY <1>2, <2>1, <3>3
      <4> HIDE DEF stop, First, c, n, S
      <4> QED
        BY <2>1, <4>1
    <3> HIDE DEF stop, victims, First, c
    <3> QED
      BY <1>2, <2>1, <3>1, <3>2, <3>3
  <2>3. victims = First(stop)
    <3>1. \A x \in victims : \E k \in 1 .. n : x = c[k]
      BY <1>3, <1>6
    <3> HIDE DEF stop, victims, c, n
    <3> QED
      BY <1>2, <2>1, <2>2, <3>1
  <2>4. ToSet(EvictionOrder(incoming, keep)) = First(stop)
    <3>1. EvictionOrder(incoming, keep) = SubSeq(c, 1, stop)
      BY <1>8, <1>10
    <3> HIDE DEF stop, c, n, First
    <3> QED
      BY <1>2, <2>1, <3>1
  <2> HIDE DEF victims, S, stop, c
  <2>5. ToSet(EvictionOrder(incoming, keep)) = victims /\ Fits(victims)
    BY <2>1, <2>3, <2>4
  <2> QED
    BY <2>5 DEF Fits, victims, S
<1> QED
  BY <1>9, <1>10

-----------------------------------------------------------------------------
(* What every load does to the books, and that it keeps them.              *)

Victims(m, mb) == EvictionVictims(resident, bytes, lastUsed, Charge(mb), m)

LEMMA ChargeIsAWord ==
  ASSUME NEW mb \in RuntimeMb
  PROVE  Charge(mb) \in Nat
BY GovernorAssumption, ResidencyAssumption DEF Charge

LEMMA LoadDrops ==
  ASSUME Books, NEW m \in Models, NEW mb \in RuntimeMb, Load(m, mb)
  PROVE  /\ Victims(m, mb) \subseteq Others(resident, m)
         /\ Dropped = Victims(m, mb)
         /\ resident' = (Others(resident, m) \ Victims(m, mb)) \cup {m}
         /\ clock' = clock + 1
         /\ bytes' = [n \in Models |->
              IF n = m THEN Charge(mb) ELSE IF n \in Victims(m, mb) THEN 0 ELSE bytes[n]]
         /\ lastUsed' = [n \in Models |->
              IF n = m THEN clock + 1 ELSE IF n \in Victims(m, mb) THEN 0 ELSE lastUsed[n]]
<1>1. ToSet(EvictionOrder(Charge(mb), m)) = Victims(m, mb)
  BY WalkNames DEF Victims
<1>2. Victims(m, mb) \subseteq Others(resident, m) /\ m \notin Victims(m, mb)
  BY DEF Victims, EvictionVictims, Others
<1>3. /\ resident' = (resident \ Victims(m, mb)) \cup {m}
      /\ bytes' = [n \in Models |->
           CASE n = m -> Charge(mb) [] n \in Victims(m, mb) -> 0 [] OTHER -> bytes[n]]
      /\ lastUsed' = [n \in Models |->
           CASE n = m -> clock + 1 [] n \in Victims(m, mb) -> 0 [] OTHER -> lastUsed[n]]
      /\ clock' = clock + 1
  BY <1>1 DEF Load, Tick
<1>4. resident' = (Others(resident, m) \ Victims(m, mb)) \cup {m}
  BY <1>2, <1>3 DEF Others
<1>5. Dropped = Victims(m, mb)
  BY <1>2, <1>4 DEF Dropped, Others
<1>6. bytes' = [n \in Models |->
        IF n = m THEN Charge(mb) ELSE IF n \in Victims(m, mb) THEN 0 ELSE bytes[n]]
  BY <1>2, <1>3
<1>7. lastUsed' = [n \in Models |->
        IF n = m THEN clock + 1 ELSE IF n \in Victims(m, mb) THEN 0 ELSE lastUsed[n]]
  BY <1>2, <1>3
<1> QED
  BY <1>2, <1>3, <1>4, <1>5, <1>6, <1>7

LEMMA BooksKept ==
  Spec => []Books
<1>1. Init => Books
  BY DEF Init, Books
<1>2. ASSUME Books, NEW m \in Models, NEW mb \in RuntimeMb, Load(m, mb)
      PROVE  Books'
  <2> DEFINE gone == Victims(m, mb)
  <2>1. /\ gone \subseteq Others(resident, m)
        /\ resident' = (Others(resident, m) \ gone) \cup {m}
        /\ clock' = clock + 1
        /\ bytes' = [n \in Models |->
             IF n = m THEN Charge(mb) ELSE IF n \in gone THEN 0 ELSE bytes[n]]
        /\ lastUsed' = [n \in Models |->
             IF n = m THEN clock + 1 ELSE IF n \in gone THEN 0 ELSE lastUsed[n]]
    BY <1>2, LoadDrops
  <2> HIDE DEF gone
  <2>2. /\ bytes' \in [Models -> Nat]
        /\ \A n \in Models : bytes'[n] \in {0} \cup {Charge(a) : a \in RuntimeMb}
    BY <1>2, <2>1, ChargeIsAWord DEF Books
  <2>3. /\ clock' \in Nat /\ lastUsed' \in [Models -> Nat]
        /\ \A n \in Models : lastUsed'[n] <= clock'
    BY <1>2, <2>1 DEF Books
  <2>4. resident' \subseteq Models
    BY <1>2, <2>1 DEF Books, Others
  <2>5. ASSUME NEW a \in resident', NEW b \in resident', lastUsed'[a] = lastUsed'[b]
        PROVE  a = b
    <3>1. \A n \in resident' : n # m => n \in resident /\ lastUsed'[n] = lastUsed[n]
      BY <1>2, <2>1 DEF Books, Others
    <3>2. lastUsed'[m] = clock + 1
      BY <2>1
    <3>3. \A n \in resident' : n # m => lastUsed'[n] # clock + 1
      BY <1>2, <3>1 DEF Books
    <3> QED
      BY <1>2, <2>5, <3>1, <3>2, <3>3 DEF Books
  <2> QED
    BY <2>2, <2>3, <2>4, <2>5 DEF Books
<1>3. ASSUME Books, NEW m \in Models, Unload(m)
      PROVE  Books'
  BY <1>3 DEF Books, Unload
<1>4. ASSUME Books, UNCHANGED governor
      PROVE  Books'
  BY <1>4 DEF Books, governor
<1>5. Books /\ [Next]_vars => Books'
  BY <1>2, <1>3, <1>4 DEF Next, Generate, vars
<1> QED
  BY <1>1, <1>5, PTL DEF Spec

(* A call that looks like a load of m is one. *)
LEMMA LoadsIsALoad ==
  ASSUME Books, Next, NEW m \in Models, Loads(m)
  PROVE  \E mb \in RuntimeMb : Load(m, mb)
<1>1. CASE \E n \in Models : Unload(n) \/ Generate(n)
  BY <1>1 DEF Unload, Generate, governor, Loads, Books
<1>2. ASSUME NEW n \in Models, NEW mb \in RuntimeMb, Load(n, mb)
      PROVE  n = m
  <2> DEFINE gone == Victims(n, mb)
  <2>1. /\ clock' = clock + 1
        /\ lastUsed' = [k \in Models |->
             IF k = n THEN clock + 1 ELSE IF k \in gone THEN 0 ELSE lastUsed[k]]
    BY <1>2, LoadDrops
  <2> HIDE DEF gone
  <2> SUFFICES ASSUME n # m PROVE FALSE
    OBVIOUS
  <2>2. lastUsed'[m] = 0 \/ lastUsed'[m] = lastUsed[m]
    BY <2>1
  <2>3. lastUsed[m] <= clock /\ lastUsed[m] \in Nat /\ clock \in Nat
    BY DEF Books
  <2> QED
    BY <2>1, <2>2, <2>3 DEF Loads
<1> QED
  BY <1>1, <1>2 DEF Next

-----------------------------------------------------------------------------
(* Theorems.                                                               *)

(* The victims the engine's context drops, computed as a set, are those    *)
(* the sorted walk of evictionOrder names, for every load that could come  *)
(* next.                                                                   *)
THEOREM WalkNamesTheVictims ==
  Spec => []WalkIsVictims
<1>1. Books => WalkIsVictims
  BY WalkNames DEF WalkIsVictims
<1> QED
  BY <1>1, BooksKept, PTL

LEMMA Divided ==
  ASSUME NEW W \in Nat \ {0}, NEW a \in Nat
  PROVE  /\ a % W \in 0 .. W - 1 /\ a \div W \in Int
         /\ a = W * (a \div W) + (a % W)
OBVIOUS

LEMMA RemainderIs ==
  ASSUME NEW W \in Nat \ {0}, NEW x \in Int, NEW q \in Int, NEW r \in 0 .. W - 1, x = W * q + r
  PROVE  x % W = r
OBVIOUS

LEMMA RemaindersSubtract ==
  ASSUME NEW W \in Nat \ {0}, NEW a \in Nat, NEW b \in Nat, NEW k \in 0 .. W - 1, a - b = k
  PROVE  ((a % W) - (b % W)) % W = k
<1> DEFINE p == a \div W
           q == b \div W
           ra == a % W
           rb == b % W
           wp == W * p
           wq == W * q
<1>1. ra \in Int /\ rb \in Int /\ p \in Int /\ q \in Int
  OBVIOUS
<1>2. a = wp + ra /\ b = wq + rb
  BY Divided
<1>3. W * (q - p) = wq - wp /\ wp \in Int /\ wq \in Int
  BY <1>1
<1> HIDE DEF p, q, ra, rb, wp, wq
<1>4. ra - rb = W * (q - p) + k /\ q - p \in Int /\ ra - rb \in Int
  BY <1>1, <1>2, <1>3
<1>5. (ra - rb) % W = k
  BY <1>4, RemainderIs
<1> QED
  BY <1>5 DEF ra, rb

LEMMA SmallIsItself ==
  ASSUME NEW x \in Nat, x < WordSize
  PROVE  x % WordSize = x
BY GovernorAssumption

(* What fits as numbers fits as words, wrapped or not. *)
LEMMA WhatFitsIsSeen ==
  ASSUME NEW S, IsFiniteSet(S), Natural(S, bytes), NEW freed \in SUBSET S, NEW incoming \in Nat,
         Total(S \ freed, bytes) + incoming <= Budget
  PROVE  FitsWithout(freed, S, bytes, incoming)
<1> DEFINE all == Total(S, bytes)
           out == Total(freed, bytes)
           kept == Total(S \ freed, bytes)
<1>1. all \in Nat /\ out \in Nat /\ kept \in Nat /\ all = out + kept
  BY TotalIsNatural, TotalSplits
<1>2. SumBytes(S, bytes) = all % WordSize /\ SumBytes(freed, bytes) = out % WordSize
  BY DEF SumBytes, Total
<1>3. kept + incoming <= Budget
  OBVIOUS
<1> HIDE DEF all, out, kept
<1>4. all - out = kept /\ kept \in 0 .. WordSize - 1 /\ kept + incoming \in 0 .. WordSize - 1
  BY <1>1, <1>3, GovernorAssumption
<1>5. Minus(SumBytes(S, bytes), SumBytes(freed, bytes)) = kept
  <2>1. ((all % WordSize) - (out % WordSize)) % WordSize = kept
    BY <1>1, <1>4, RemaindersSubtract, GovernorAssumption
  <2> QED
    BY <1>2, <2>1 DEF Minus
<1>6. Plus(kept, incoming) = kept + incoming
  BY <1>4, SmallIsItself, GovernorAssumption DEF Plus
<1> QED
  BY <1>3, <1>5, <1>6 DEF FitsWithout

(* What the accounting word is for: the most every model together may be   *)
(* charged fits in it.  Nothing checks this of a catalog; where it fails   *)
(* the unsigned totals wrap, and a load may then leave more resident than  *)
(* the budget.                                                             *)
TotalsFitTheWord ==
  \E most \in Nat :
    /\ Cardinality(Models) * most < WordSize
    /\ \A mb \in RuntimeMb : Charge(mb) <= most

(* The words' verdict is that of the numbers, while the numbers fit. *)
LEMMA FitsIsPlain ==
  ASSUME NEW S, IsFiniteSet(S), Natural(S, bytes), NEW freed \in SUBSET S, NEW incoming \in Nat,
         Total(S, bytes) + incoming < WordSize
  PROVE  FitsWithout(freed, S, bytes, incoming) <=> Total(S \ freed, bytes) + incoming <= Budget
<1> DEFINE all == Total(S, bytes)
           out == Total(freed, bytes)
           kept == Total(S \ freed, bytes)
<1>1. all = out + kept
  BY TotalSplits
<1>2. all \in Nat /\ out \in Nat /\ kept \in Nat
  BY TotalIsNatural
<1>3. SumBytes(S, bytes) = all % WordSize /\ SumBytes(freed, bytes) = out % WordSize
  BY DEF SumBytes, Total
<1> HIDE DEF all, out, kept
<1>4. all < WordSize /\ out < WordSize /\ WordSize \in Nat
  BY <1>1, <1>2, GovernorAssumption DEF all
<1>5. SumBytes(S, bytes) = all /\ SumBytes(freed, bytes) = out
  BY <1>2, <1>3, <1>4, SmallIsItself
<1>6. all - out = kept /\ kept + incoming \in Nat /\ kept + incoming < WordSize /\ kept < WordSize
  BY <1>1, <1>2, <1>4 DEF all
<1>7. kept % WordSize = kept /\ (kept + incoming) % WordSize = kept + incoming
  BY <1>2, <1>6, SmallIsItself
<1>8. Plus(Minus(SumBytes(S, bytes), SumBytes(freed, bytes)), incoming) = kept + incoming
  BY <1>5, <1>6, <1>7 DEF Plus, Minus
<1> QED
  BY <1>8 DEF FitsWithout, kept

(* What is resident after a load, as numbers.                              *)
LEMMA LoadTotals ==
  ASSUME Books, NEW m \in Models, NEW mb \in RuntimeMb, Load(m, mb)
  PROVE  LET S == Others(resident, m)
             victims == Victims(m, mb)
         IN  /\ IsFiniteSet(S) /\ Natural(S, bytes)
             /\ TotalsFitTheWord => Total(S, bytes) + Charge(mb) < WordSize
             /\ Total(resident', bytes') = Total(S \ victims, bytes) + Charge(mb)
<1> DEFINE S == Others(resident, m)
           victims == Victims(m, mb)
           w == [bytes EXCEPT ![m] = Charge(mb)]
<1>1. /\ resident' = (S \ victims) \cup {m} /\ victims \subseteq S
      /\ bytes' = [n \in Models |->
           IF n = m THEN Charge(mb) ELSE IF n \in victims THEN 0 ELSE bytes[n]]
  BY LoadDrops
<1>2. Charge(mb) \in Nat
  BY ChargeIsAWord
<1>3. IsFiniteSet(Models) /\ S \in SUBSET Models /\ m \notin S
  BY GovernorAssumption DEF Books, Others
<1> HIDE DEF S, victims
<1>4. IsFiniteSet(S)
  BY <1>3, FS_Subset
<1>5. Natural(S, bytes) /\ Natural(Models, w)
  BY <1>2, <1>3 DEF Natural, Books
<1>6. ASSUME TotalsFitTheWord
      PROVE  Total(S, bytes) + Charge(mb) < WordSize
  <2>1. PICK most \in Nat :
          Cardinality(Models) * most < WordSize /\ \A a \in RuntimeMb : Charge(a) <= most
    BY <1>6 DEF TotalsFitTheWord
  <2>2. \A n \in Models : w[n] <= most
    BY <2>1 DEF Books
  <2>3. Total(Models, w) <= Cardinality(Models) * most
    BY <1>3, <1>5, <2>2, TotalIsBounded
  <2>4. Total(S \cup {m}, w) = w[m] + Total(S, w)
    <3>1. S \cup {m} \in SUBSET Models /\ m \in S \cup {m} /\ (S \cup {m}) \ {m} = S
      BY <1>3
    <3> HIDE DEF w
    <3> QED
      BY <1>3, <1>5, <3>1, TotalTakesOut
  <2>5. Total(Models, w) = Total(S \cup {m}, w) + Total(Models \ (S \cup {m}), w)
    <3> HIDE DEF w
    <3> QED
      BY <1>3, <1>5, TotalSplits
  <2>6. Total(S, w) = Total(S, bytes)
    <3>1. \A n \in S : w[n] = bytes[n]
      BY <1>3 DEF Books
    <3> HIDE DEF w
    <3> QED
      BY <1>4, <3>1, TotalDependsOn
  <2>7. w[m] = Charge(mb)
    BY DEF Books
  <2> HIDE DEF w
  <2>8. /\ Total(Models, w) \in Nat /\ Total(S \cup {m}, w) \in Nat
        /\ Total(S, w) \in Nat /\ Total(Models \ (S \cup {m}), w) \in Nat
    <3>1. S \cup {m} \in SUBSET Models
      BY <1>3
    <3> QED
      BY <1>3, <1>5, <3>1, TotalIsNatural
  <2>9. Cardinality(Models) \in Nat /\ WordSize \in Nat
    BY <1>3, FS_CardinalityType, GovernorAssumption
  <2>10. Cardinality(Models) * most \in Nat
    BY <2>1, <2>9
  <2> QED
    BY <1>2, <2>1, <2>3, <2>4, <2>5, <2>6, <2>7, <2>8, <2>9, <2>10
<1>7. Total(resident', bytes') = Total(S \ victims, bytes) + Charge(mb)
  <2>1. Natural(Models, bytes')
    BY <1>1, <1>2 DEF Natural, Books
  <2>2. m \in resident' /\ resident' \in SUBSET Models /\ resident' \ {m} = S \ victims
    BY <1>1, <1>3
  <2>3. Total(resident', bytes') = bytes'[m] + Total(S \ victims, bytes')
    BY <1>3, <2>1, <2>2, TotalTakesOut
  <2>4. Total(S \ victims, bytes') = Total(S \ victims, bytes)
    <3>1. IsFiniteSet(S \ victims)
      BY <1>4, FS_Subset
    <3>2. \A n \in S \ victims : bytes'[n] = bytes[n]
      BY <1>1, <1>3
    <3> QED
      BY <3>1, <3>2, TotalDependsOn
  <2>5. bytes'[m] = Charge(mb)
    BY <1>1
  <2>6. Total(S \ victims, bytes) \in Nat
    BY <1>4, <1>5, TotalIsNatural
  <2> QED
    BY <1>2, <2>3, <2>4, <2>5, <2>6
<1> QED
  BY <1>4, <1>5, <1>6, <1>7 DEF S, victims

(* evictionOrder frees enough: a load that fits an empty context leaves    *)
(* the context within its budget, whatever was resident before.            *)
THEOREM EvictionIsEnough ==
  ASSUME TotalsFitTheWord
  PROVE  Spec => EvictionSuffices
<1>1. ASSUME Books, Next, NEW m \in Models, Budget # 0, Loads(m), bytes'[m] <= Budget
      PROVE  Total(resident', bytes') <= Budget
  <2>1. PICK mb \in RuntimeMb : Load(m, mb)
    BY <1>1, LoadsIsALoad
  <2> DEFINE S == Others(resident, m)
             victims == Victims(m, mb)
             in == Charge(mb)
  <2>2. /\ IsFiniteSet(S) /\ Natural(S, bytes) /\ Total(S, bytes) + in < WordSize
        /\ Total(resident', bytes') = Total(S \ victims, bytes) + in
        /\ victims \subseteq S /\ in \in Nat /\ bytes'[m] = in
    BY <1>1, <2>1, LoadTotals, LoadDrops, ChargeIsAWord
  <2> HIDE DEF in
  <2>3. FitsWithout(S, S, bytes, in)
    <3>1. Total(S \ S, bytes) = 0
      BY <2>2, TotalChooses
    <3>2. FitsWithout(S, S, bytes, in) <=> Total(S \ S, bytes) + in <= Budget
      BY <2>2, FitsIsPlain
    <3> QED
      BY <1>1, <2>2, <3>1, <3>2
  <2>4. FitsWithout(victims, S, bytes, in)
    BY <1>1, <2>3, WalkNames DEF Victims, in
  <2> HIDE DEF S, victims
  <2> QED
    BY <2>2, <2>4, FitsIsPlain
<1>2. Books /\ [Next]_vars => [\A m \in Models :
       Budget # 0 /\ Loads(m) /\ bytes'[m] <= Budget
         => Total(resident', bytes') <= Budget]_vars
  BY <1>1
<1> QED
  BY <1>2, BooksKept, PTL DEF Spec, EvictionSuffices

(* evictionOrder drops nothing it could have kept: without its last victim *)
(* the load did not fit; and a load that can never fit drops nothing.      *)
THEOREM EvictionIsNeeded ==
  Spec => EvictsNoMore
<1>1. ASSUME Books, Next, NEW m \in Models, Loads(m)
      PROVE  /\ \A v \in Dropped :
                  (\A w \in Dropped : lastUsed[w] <= lastUsed[v])
                    => Total(resident', bytes') + bytes[v] > Budget
             /\ bytes'[m] > Budget => Dropped = {}
  <2>1. PICK mb \in RuntimeMb : Load(m, mb)
    BY <1>1, LoadsIsALoad
  <2> DEFINE S == Others(resident, m)
             victims == Victims(m, mb)
             in == Charge(mb)
  <2>2. /\ IsFiniteSet(S) /\ Natural(S, bytes)
        /\ Total(resident', bytes') = Total(S \ victims, bytes) + in
        /\ victims \subseteq S /\ in \in Nat /\ bytes'[m] = in /\ Dropped = victims
    BY <1>1, <2>1, LoadTotals, LoadDrops, ChargeIsAWord
  <2> HIDE DEF in
  <2>3. ASSUME NEW v \in Dropped, \A w \in Dropped : lastUsed[w] <= lastUsed[v]
        PROVE  Total(resident', bytes') + bytes[v] > Budget
    <3> DEFINE older == OlderThan(v, S, lastUsed)
    <3>1. v \in S /\ v \in victims /\ older \subseteq S /\ S \subseteq Models
      BY <1>1, <2>2, <2>3 DEF OlderThan, Others, Books
    <3>2. ~FitsWithout(older, S, bytes, in)
      BY <3>1 DEF Victims, EvictionVictims, in
    <3>3. ~(Total(S \ older, bytes) + in <= Budget)
      <4> HIDE DEF S, older
      <4> QED
        BY <2>2, <3>1, <3>2, WhatFitsIsSeen
    <3>4. victims = older \cup {v}
      <4>1. ASSUME NEW w \in older
            PROVE  w \in victims
        <5>1. w \in S /\ lastUsed[w] < lastUsed[v]
          BY DEF OlderThan
        <5>2. OlderThan(w, S, lastUsed) \cup {w} \subseteq older
          BY <1>1, <3>1, <5>1 DEF OlderThan, Books
        <5> QED
          BY <3>1, <5>1, <5>2 DEF Victims, EvictionVictims
      <4>2. ASSUME NEW w \in victims, w # v
            PROVE  w \in older
        <5>1. w \in S /\ lastUsed[w] # lastUsed[v]
          BY <1>1, <2>2, <3>1, <4>2 DEF Books, Others
        <5>2. lastUsed[w] <= lastUsed[v] /\ lastUsed[w] \in Nat /\ lastUsed[v] \in Nat
          BY <1>1, <2>2, <2>3, <3>1, <5>1 DEF Books
        <5> QED
          BY <5>1, <5>2 DEF OlderThan
      <4> QED
        BY <3>1, <4>1, <4>2
    <3>5. Total(S \ older, bytes) = bytes[v] + Total(S \ victims, bytes)
      <4>1. v \notin older
        BY <1>1, <3>1 DEF OlderThan, Books
      <4>2. v \in S \ older /\ (S \ older) \ {v} = S \ victims /\ S \ older \in SUBSET S
        BY <3>1, <3>4, <4>1
      <4> HIDE DEF S, older, victims
      <4> QED
        BY <2>2, <4>2, TotalTakesOut
    <3>6. Total(S \ victims, bytes) \in Nat /\ bytes[v] \in Nat /\ Budget \in Nat
      <4>1. Budget \in Nat
        BY GovernorAssumption
      <4>2. bytes[v] \in Nat
        BY <2>2, <3>1 DEF Natural
      <4> HIDE DEF S, victims
      <4> QED
        BY <2>2, <4>1, <4>2, TotalIsNatural
    <3> HIDE DEF S, older, victims
    <3> QED
      BY <2>2, <3>3, <3>5, <3>6
  <2>4. ASSUME in > Budget
        PROVE  Dropped = {}
    <3>1. in < WordSize
      BY GovernorAssumption, ResidencyAssumption DEF in, Charge
    <3>2. SumBytes(S, bytes) \in Int
      <4> HIDE DEF S
      <4>1. S \in SUBSET S
        OBVIOUS
      <4>2. Total(S, bytes) \in Nat
        BY <2>2, <4>1, TotalIsNatural
      <4>3. SumBytes(S, bytes) = Total(S, bytes) % WordSize
        BY DEF SumBytes, Total
      <4> QED
        BY <4>2, <4>3, GovernorAssumption
    <3>3. Plus(Minus(SumBytes(S, bytes), SumBytes(S, bytes)), in) = in
      <4>1. Minus(SumBytes(S, bytes), SumBytes(S, bytes)) = 0
        BY <3>2, SmallIsItself, GovernorAssumption DEF Minus
      <4> QED
        BY <2>2, <3>1, <4>1, SmallIsItself DEF Plus
    <3>4. ~FitsWithout(S, S, bytes, in)
      BY <2>2, <2>4, <3>3, GovernorAssumption DEF FitsWithout
    <3> QED
      BY <2>2, <3>4 DEF Victims, EvictionVictims, in
  <2> QED
    BY <2>2, <2>3, <2>4
<1>2. Books /\ [Next]_vars => [\A m \in Models : Loads(m) =>
       /\ \A v \in Dropped :
            (\A w \in Dropped : lastUsed[w] <= lastUsed[v])
              => Total(resident', bytes') + bytes[v] > Budget
       /\ bytes'[m] > Budget => Dropped = {}]_vars
  BY <1>1
<1> QED
  BY <1>2, BooksKept, PTL DEF Spec, EvictsNoMore

=============================================================================
