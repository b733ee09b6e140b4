---------------------------- MODULE SumTheorems ----------------------------
(***************************************************************************)
(* What a sum over a finite set is: SumOf of Governor.tla folds the set in *)
(* an order CHOOSE picks, so that the fold exists, does not depend on that *)
(* order and adds one element at a time has to be shown.  Each induction   *)
(* over the subsets of a finite set is a minimal counterexample.           *)
(***************************************************************************)
EXTENDS Governor, FiniteSetTheorems, TLAPS

LEMMA MinimalSubset ==
  ASSUME NEW S, IsFiniteSet(S), NEW F, F \subseteq SUBSET S, F # {}
  PROVE  \E m \in F : \A u \in SUBSET m : u \in F => u = m
<1>1. SUBSET S = FiniteSubsetsOf(S)
  BY FS_FiniteSubsetsOfFinite
<1>2. PICK m \in F : \A y \in F : ~ (<<y, m>> \in StrictSubsetOrdering(S))
  BY <1>1, FS_StrictSubsetOrderingWellFounded, WFMin
<1>3. \A u \in SUBSET m : u \in F => u = m
  BY <1>2 DEF StrictSubsetOrdering
<1> QED
  BY <1>3

(* The element a fold takes next. *)
First(s) == CHOOSE x \in s : TRUE

LEMMA FirstIn == \A s : s # {} => First(s) \in s
BY DEF First

(* g sums f over every subset of T. *)
Sums(g, f, T) ==
  g = [s \in SUBSET T |-> IF s = {} THEN 0 ELSE f[First(s)] + g[s \ {First(s)}]]

TheSums(f, T) == CHOOSE g : Sums(g, f, T)

LEMMA SumIsFold == ASSUME NEW f, NEW S PROVE SumOf(f, S) = TheSums(f, S)[S]
BY DEF SumOf, MapThenSumSet, MapThenFoldSet, TheSums, Sums, First

LEMMA SumsAt ==
  ASSUME NEW f, NEW T, NEW g, Sums(g, f, T), NEW s \in SUBSET T
  PROVE  g[s] = IF s = {} THEN 0 ELSE f[First(s)] + g[s \ {First(s)}]
BY DEF Sums

(* Two such functions agree wherever both are defined. *)
LEMMA SumsAgree ==
  ASSUME NEW f, NEW T, NEW U, IsFiniteSet(T), NEW g, NEW h, Sums(g, f, T), Sums(h, f, U),
         NEW s \in SUBSET T, s \in SUBSET U
  PROVE  g[s] = h[s]
<1> DEFINE F == {r \in SUBSET T : r \in SUBSET U /\ g[r] # h[r]}
<1>1. SUFFICES ASSUME F # {} PROVE FALSE
  OBVIOUS
<1>2. PICK m \in F : \A u \in SUBSET m : u \in F => u = m
  <2>1. F \subseteq SUBSET T
    OBVIOUS
  <2> HIDE DEF F
  <2> QED
    BY <1>1, <2>1, MinimalSubset
<1>3. m # {}
  <2>1. {} \in SUBSET T /\ {} \in SUBSET U
    OBVIOUS
  <2>2. g[{}] = 0 /\ h[{}] = 0
    BY <2>1, SumsAt
  <2> QED
    BY <1>2, <2>2
<1>4. First(m) \in m
  BY <1>3, FirstIn
<1>5. m \ {First(m)} \in SUBSET m /\ m \ {First(m)} # m
  BY <1>4
<1>6. g[m \ {First(m)}] = h[m \ {First(m)}]
  BY <1>2, <1>5
<1>7. /\ g[m] = f[First(m)] + g[m \ {First(m)}]
      /\ h[m] = f[First(m)] + h[m \ {First(m)}]
  BY <1>2, <1>3, SumsAt
<1> QED
  BY <1>2, <1>6, <1>7

(* They exist. *)
LEMMA SumsExist ==
  ASSUME NEW f, NEW S, IsFiniteSet(S)
  PROVE  Sums(TheSums(f, S), f, S)
<1> DEFINE F == {r \in SUBSET S : ~Sums(TheSums(f, r), f, r)}
<1>1. SUFFICES ASSUME F # {} PROVE FALSE
  OBVIOUS
<1>2. PICK T \in F : \A u \in SUBSET T : u \in F => u = T
  <2>1. F \subseteq SUBSET S
    OBVIOUS
  <2> HIDE DEF F
  <2> QED
    BY <1>1, <2>1, MinimalSubset
<1>3. \A u \in SUBSET T : u # T => Sums(TheSums(f, u), f, u)
  BY <1>2
<1>4. \A u \in SUBSET T : IsFiniteSet(u)
  BY <1>2, FS_Subset
<1> DEFINE v(u) == TheSums(f, u)[u]
           g == [s \in SUBSET T |-> IF s = {} THEN 0 ELSE f[First(s)] + v(s \ {First(s)})]
<1>5. ASSUME NEW u \in SUBSET T, u # T PROVE g[u] = v(u)
  <2>1. Sums(TheSums(f, u), f, u)
    BY <1>3, <1>5
  <2>2. v(u) = IF u = {} THEN 0 ELSE f[First(u)] + TheSums(f, u)[u \ {First(u)}]
    BY <2>1, SumsAt
  <2>3. CASE u = {}
    BY <2>2, <2>3
  <2>4. CASE u # {}
    <3>1. First(u) \in u
      BY <2>4, FirstIn
    <3>2. u \ {First(u)} \in SUBSET T /\ u \ {First(u)} # T
      BY <1>5, <3>1
    <3>3. Sums(TheSums(f, u \ {First(u)}), f, u \ {First(u)})
      BY <1>3, <3>2
    <3>4. TheSums(f, u)[u \ {First(u)}] = v(u \ {First(u)})
      BY <1>4, <2>1, <3>3, SumsAgree
    <3>5. g[u] = f[First(u)] + v(u \ {First(u)})
      BY <2>4
    <3> QED
      BY <2>2, <2>4, <3>4, <3>5
  <2> QED
    BY <2>3, <2>4
<1>6. ASSUME NEW s \in SUBSET T, s # {} PROVE g[s \ {First(s)}] = v(s \ {First(s)})
  <2>1. First(s) \in s
    BY <1>6, FirstIn
  <2>2. s \ {First(s)} \in SUBSET T /\ s \ {First(s)} # T
    BY <1>6, <2>1
  <2> HIDE DEF g, v
  <2> QED
    BY <1>5, <2>2
<1>7. g = [s \in SUBSET T |-> IF s = {} THEN 0 ELSE f[First(s)] + g[s \ {First(s)}]]
  <2>1. \A s \in SUBSET T : (IF s = {} THEN 0 ELSE f[First(s)] + v(s \ {First(s)}))
                          = (IF s = {} THEN 0 ELSE f[First(s)] + g[s \ {First(s)}])
    <3> HIDE DEF g, v
    <3> QED
      BY <1>6
  <2>2. g = [s \in SUBSET T |-> IF s = {} THEN 0 ELSE f[First(s)] + v(s \ {First(s)})]
    OBVIOUS
  <2> HIDE DEF g, v
  <2> QED
    BY <2>1, <2>2
<1>8. Sums(g, f, T)
  <2> HIDE DEF g
  <2> QED
    BY <1>7 DEF Sums
<1>9. Sums(TheSums(f, T), f, T)
  <2> HIDE DEF g
  <2> QED
    BY <1>8 DEF TheSums
<1> QED
  BY <1>2, <1>9
-----------------------------------------------------------------------------
(* The sum over nothing, and one step of the fold. *)
LEMMA SumEmpty == \A f : SumOf(f, {}) = 0
<1> SUFFICES ASSUME NEW f PROVE SumOf(f, {}) = 0
  OBVIOUS
<1>1. Sums(TheSums(f, {}), f, {})
  BY SumsExist, FS_EmptySet
<1> QED
  BY <1>1, SumIsFold, SumsAt

LEMMA SumFirst ==
  ASSUME NEW f, NEW S, IsFiniteSet(S), S # {}
  PROVE  SumOf(f, S) = f[First(S)] + SumOf(f, S \ {First(S)})
<1> DEFINE R == S \ {First(S)}
<1>1. IsFiniteSet(R)
  BY FS_RemoveElement
<1>2. Sums(TheSums(f, S), f, S) /\ Sums(TheSums(f, R), f, R)
  BY <1>1, SumsExist
<1>3. TheSums(f, S)[R] = TheSums(f, R)[R]
  <2>1. R \in SUBSET S /\ R \in SUBSET R
    OBVIOUS
  <2> HIDE DEF R
  <2> QED
    BY <1>2, <2>1, SumsAgree
<1>4. TheSums(f, S)[S] = f[First(S)] + TheSums(f, S)[R]
  BY <1>2, SumsAt
<1> QED
  BY <1>3, <1>4, SumIsFold

(* The sum depends on nothing but the values of f on the set. *)
LEMMA SumSame ==
  ASSUME NEW f, NEW g, NEW S, IsFiniteSet(S), \A x \in S : f[x] = g[x]
  PROVE  SumOf(f, S) = SumOf(g, S)
<1> DEFINE F == {r \in SUBSET S : SumOf(f, r) # SumOf(g, r)}
<1>1. SUFFICES ASSUME F # {} PROVE FALSE
  OBVIOUS
<1>2. PICK m \in F : \A u \in SUBSET m : u \in F => u = m
  <2>1. F \subseteq SUBSET S
    OBVIOUS
  <2> HIDE DEF F
  <2> QED
    BY <1>1, <2>1, MinimalSubset
<1>3. m # {}
  BY <1>2, SumEmpty
<1>4. First(m) \in m /\ IsFiniteSet(m)
  BY <1>2, <1>3, FirstIn, FS_Subset
<1>5. SumOf(f, m \ {First(m)}) = SumOf(g, m \ {First(m)})
  BY <1>2, <1>4
<1>6. /\ SumOf(f, m) = f[First(m)] + SumOf(f, m \ {First(m)})
      /\ SumOf(g, m) = g[First(m)] + SumOf(g, m \ {First(m)})
  BY <1>3, <1>4, SumFirst
<1> QED
  BY <1>2, <1>4, <1>5, <1>6

(* Sums of naturals are naturals, sums of integers integers. *)
LEMMA SumNat ==
  ASSUME NEW f, NEW S, IsFiniteSet(S), \A x \in S : f[x] \in Nat
  PROVE  SumOf(f, S) \in Nat
<1> DEFINE F == {r \in SUBSET S : SumOf(f, r) \notin Nat}
<1>1. SUFFICES ASSUME F # {} PROVE FALSE
  OBVIOUS
<1>2. PICK m \in F : \A u \in SUBSET m : u \in F => u = m
  <2>1. F \subseteq SUBSET S
    OBVIOUS
  <2> HIDE DEF F
  <2> QED
    BY <1>1, <2>1, MinimalSubset
<1>3. m # {}
  <2>1. SumOf(f, {}) = 0
    BY SumEmpty, Zenon
  <2>2. SumOf(f, {}) \in Nat
    BY <2>1
  <2>3. {} \notin F
    BY <2>2
  <2> QED
    BY <1>2, <2>3
<1>4. First(m) \in m /\ IsFiniteSet(m)
  BY <1>2, <1>3, FirstIn, FS_Subset
<1>5. SumOf(f, m \ {First(m)}) \in Nat /\ f[First(m)] \in Nat
  BY <1>2, <1>4
<1>6. SumOf(f, m) = f[First(m)] + SumOf(f, m \ {First(m)})
  BY <1>3, <1>4, SumFirst
<1> QED
  BY <1>2, <1>5, <1>6

(* Any element can be taken out of the sum. *)
LEMMA SumRemove ==
  ASSUME NEW f, NEW S, IsFiniteSet(S), \A x \in S : f[x] \in Nat, NEW e \in S
  PROVE  SumOf(f, S) = f[e] + SumOf(f, S \ {e})
<1> DEFINE F == {r \in SUBSET S : \E x \in r : SumOf(f, r) # f[x] + SumOf(f, r \ {x})}
<1>1. SUFFICES ASSUME F # {} PROVE FALSE
  OBVIOUS
<1>2. PICK m \in F : \A u \in SUBSET m : u \in F => u = m
  <2>1. F \subseteq SUBSET S
    OBVIOUS
  <2> HIDE DEF F
  <2> QED
    BY <1>1, <2>1, MinimalSubset
<1>3. PICK x \in m : SumOf(f, m) # f[x] + SumOf(f, m \ {x})
  BY <1>2
<1> DEFINE c == First(m)
<1>4. c \in m /\ IsFiniteSet(m) /\ IsFiniteSet(m \ {x})
  BY <1>2, <1>3, FirstIn, FS_Subset
<1>5. SumOf(f, m) = f[c] + SumOf(f, m \ {c})
  BY <1>3, <1>4, SumFirst
<1>6. x # c
  BY <1>3, <1>5
<1> HIDE DEF c
<1>7. SumOf(f, m \ {c}) = f[x] + SumOf(f, (m \ {c}) \ {x})
  <2>1. m \ {c} \in SUBSET m /\ m \ {c} # m /\ m \ {c} \in SUBSET S /\ x \in m \ {c}
    BY <1>2, <1>3, <1>4, <1>6
  <2> QED
    BY <1>2, <2>1
<1>8. SumOf(f, m \ {x}) = f[c] + SumOf(f, (m \ {x}) \ {c})
  <2>1. m \ {x} \in SUBSET m /\ m \ {x} # m /\ m \ {x} \in SUBSET S /\ c \in m \ {x}
    BY <1>2, <1>3, <1>4, <1>6
  <2> QED
    BY <1>2, <2>1
<1>9. (m \ {c}) \ {x} = (m \ {x}) \ {c}
  OBVIOUS
<1>10. SumOf(f, (m \ {c}) \ {x}) \in Nat /\ f[c] \in Nat /\ f[x] \in Nat
  <2>1. IsFiniteSet((m \ {c}) \ {x}) /\ \A y \in (m \ {c}) \ {x} : f[y] \in Nat
    BY <1>2, <1>4, FS_RemoveElement
  <2> QED
    BY <1>2, <1>3, <1>4, <2>1, SumNat
<1> QED
  BY <1>3, <1>5, <1>7, <1>8, <1>9, <1>10

LEMMA SumAdd ==
  ASSUME NEW f, NEW S, IsFiniteSet(S), \A x \in S : f[x] \in Nat,
         NEW e, e \notin S, f[e] \in Nat
  PROVE  SumOf(f, S \union {e}) = SumOf(f, S) + f[e]
<1>1. IsFiniteSet(S \union {e})
  BY FS_AddElement
<1>2. SumOf(f, S \union {e}) = f[e] + SumOf(f, (S \union {e}) \ {e})
  BY <1>1, SumRemove
<1>3. (S \union {e}) \ {e} = S
  OBVIOUS
<1>4. SumOf(f, S) \in Nat
  BY SumNat
<1>5. SumOf(f, S \union {e}) = f[e] + SumOf(f, S)
  BY <1>2, <1>3, Zenon
<1> QED
  BY <1>4, <1>5

(* The sum over two disjoint sets. *)
LEMMA SumUnion ==
  ASSUME NEW f, NEW S, NEW T, IsFiniteSet(S), IsFiniteSet(T), S \cap T = {},
         \A x \in S \union T : f[x] \in Nat
  PROVE  SumOf(f, S \union T) = SumOf(f, S) + SumOf(f, T)
<1> DEFINE F == {r \in SUBSET T : SumOf(f, S \union r) # SumOf(f, S) + SumOf(f, r)}
<1>1. SUFFICES ASSUME F # {} PROVE FALSE
  OBVIOUS
<1>2. PICK m \in F : \A u \in SUBSET m : u \in F => u = m
  <2>1. F \subseteq SUBSET T
    OBVIOUS
  <2> HIDE DEF F
  <2> QED
    BY <1>1, <2>1, MinimalSubset
<1>3. SumOf(f, S) \in Nat
  BY SumNat
<1>4. m # {}
  <2>1. S \union {} = S
    OBVIOUS
  <2>2. SumOf(f, {}) = 0
    BY SumEmpty, Zenon
  <2>3. SumOf(f, S \union {}) = SumOf(f, S) + SumOf(f, {})
    BY <1>3, <2>1, <2>2
  <2>4. {} \notin F
    BY <2>3
  <2> QED
    BY <1>2, <2>4
<1>5. PICK x \in m : TRUE
  BY <1>4
<1> DEFINE r == m \ {x}
<1>6. IsFiniteSet(m) /\ IsFiniteSet(r) /\ IsFiniteSet(S \union r)
  BY <1>2, FS_Subset, FS_RemoveElement, FS_Union
<1>7. SumOf(f, S \union r) = SumOf(f, S) + SumOf(f, r)
  BY <1>2, <1>5
<1>8. S \union m = (S \union r) \union {x} /\ m = r \union {x} /\ x \notin S \union r
  BY <1>2, <1>5
<1>9. (\A y \in S \union r : f[y] \in Nat) /\ f[x] \in Nat
  BY <1>2, <1>5
<1>10. SumOf(f, r) \in Nat
  BY <1>6, <1>9, SumNat
<1>11. SumOf(f, S \union m) = SumOf(f, S \union r) + f[x]
  BY <1>6, <1>8, <1>9, SumAdd
<1>12. SumOf(f, m) = SumOf(f, r) + f[x]
  BY <1>6, <1>8, <1>9, SumAdd
<1> QED
  BY <1>2, <1>3, <1>7, <1>9, <1>10, <1>11, <1>12

(* A bound on every element bounds the sum. *)
LEMMA SumBelow ==
  ASSUME NEW f, NEW g, NEW h, NEW S, IsFiniteSet(S),
         \A x \in S : f[x] \in Nat /\ g[x] \in Nat /\ h[x] \in Nat /\ f[x] <= g[x] + h[x]
  PROVE  SumOf(f, S) <= SumOf(g, S) + SumOf(h, S)
<1> DEFINE F == {r \in SUBSET S : ~(SumOf(f, r) <= SumOf(g, r) + SumOf(h, r))}
<1>1. SUFFICES ASSUME F # {} PROVE FALSE
  OBVIOUS
<1>2. PICK m \in F : \A u \in SUBSET m : u \in F => u = m
  <2>1. F \subseteq SUBSET S
    OBVIOUS
  <2> HIDE DEF F
  <2> QED
    BY <1>1, <2>1, MinimalSubset
<1>3. m # {}
  <2>1. SumOf(f, {}) = 0 /\ SumOf(g, {}) = 0 /\ SumOf(h, {}) = 0
    BY SumEmpty, Zenon
  <2>2. SumOf(f, {}) <= SumOf(g, {}) + SumOf(h, {})
    BY <2>1
  <2>3. {} \notin F
    BY <2>2
  <2> QED
    BY <1>2, <2>3
<1> DEFINE c == First(m)
           R == m \ {c}
<1>4. c \in m /\ c \in S /\ IsFiniteSet(m) /\ IsFiniteSet(R) /\ R \subseteq S
  BY <1>2, <1>3, FirstIn, FS_Subset
<1>5. SumOf(f, R) <= SumOf(g, R) + SumOf(h, R)
  BY <1>2, <1>4
<1>6. /\ SumOf(f, m) = f[c] + SumOf(f, R)
      /\ SumOf(g, m) = g[c] + SumOf(g, R)
      /\ SumOf(h, m) = h[c] + SumOf(h, R)
  BY <1>3, <1>4, SumFirst
<1> HIDE DEF c, R
<1>7. SumOf(f, R) \in Nat /\ SumOf(g, R) \in Nat /\ SumOf(h, R) \in Nat
  BY <1>4, SumNat
<1>8. f[c] \in Nat /\ g[c] \in Nat /\ h[c] \in Nat /\ f[c] <= g[c] + h[c]
  BY <1>4
<1>9. SumOf(f, m) <= SumOf(g, m) + SumOf(h, m)
  BY <1>5, <1>6, <1>7, <1>8
<1> QED
  BY <1>2, <1>9

(* The sum of a constant, with the number of elements kept as a fact about *)
(* cardinalities.                                                          *)
LEMMA SumConstant ==
  ASSUME NEW f, NEW S, IsFiniteSet(S), NEW k \in Nat, \A x \in S : f[x] = k
  PROVE  SumOf(f, S) = Cardinality(S) * k
<1> DEFINE F == {r \in SUBSET S : SumOf(f, r) # Cardinality(r) * k}
<1>1. SUFFICES ASSUME F # {} PROVE FALSE
  OBVIOUS
<1>2. PICK m \in F : \A u \in SUBSET m : u \in F => u = m
  <2>1. F \subseteq SUBSET S
    OBVIOUS
  <2> HIDE DEF F
  <2> QED
    BY <1>1, <2>1, MinimalSubset
<1>3. m # {}
  <2>1. SumOf(f, {}) = 0 /\ Cardinality({}) = 0
    BY SumEmpty, FS_EmptySet, Zenon
  <2>2. SumOf(f, {}) = Cardinality({}) * k
    BY <2>1
  <2>3. {} \notin F
    BY <2>2
  <2> QED
    BY <1>2, <2>3
<1>4. First(m) \in m /\ IsFiniteSet(m)
  BY <1>2, <1>3, FirstIn, FS_Subset
<1>5. SumOf(f, m \ {First(m)}) = Cardinality(m \ {First(m)}) * k
  BY <1>2, <1>4
<1>6. SumOf(f, m) = k + Cardinality(m \ {First(m)}) * k
  BY <1>2, <1>3, <1>4, <1>5, SumFirst
<1>7. /\ Cardinality(m \ {First(m)}) = Cardinality(m) - 1
      /\ Cardinality(m) \in Nat
  BY <1>4, FS_RemoveElement, FS_CardinalityType
<1>8. \A c \in Nat : k + (c - 1) * k = c * k
  OBVIOUS
<1> QED
  BY <1>2, <1>6, <1>7, <1>8
=============================================================================
