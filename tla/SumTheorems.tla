----------------------------- MODULE SumTheorems -----------------------------
(***************************************************************************)
(* Facts about SumFunctionOnSet, the sum of f[x] over the elements x of a  *)
(* finite set, on which the money of the ledger is added up.  The fold     *)
(* behind it takes the elements one by one in an order of its own; these   *)
(* lemmas let an element be taken out or put in anywhere.                  *)
(*                                                                         *)
(* The provers cannot use induction principles that take an operator, so   *)
(* an induction here is over the smallest cardinality of a counterexample. *)
(***************************************************************************)
EXTENDS Integers, FiniteSets, Functions, FiniteSetTheorems, WellFoundedInduction, TLAPS

-----------------------------------------------------------------------------
(***************************************************************************)
(* Induction.                                                              *)
(***************************************************************************)

\* A nonempty set of natural numbers has a smallest one.
LEMMA SmallestNumber ==
    ASSUME NEW T, T \subseteq Nat, T # {}
    PROVE  \E n \in T : \A m \in T : n <= m
<1> DEFINE R == OpToRel(<, Nat)
<1>1. IsWellFoundedOn(R, Nat)
  BY NatLessThanWellFounded
<1> HIDE DEF R
<1>2. PICK n \in T : \A m \in T : ~(<<m, n>> \in R)
  BY <1>1, WFMin
<1>3. \A m \in T : ~(m < n)
  BY <1>2 DEF R, OpToRel
<1> QED
  BY <1>3

\* A set of numbers that holds 0 and every successor holds them all.
LEMMA AllNumbers ==
    ASSUME NEW T, T \subseteq Nat, 0 \in T, \A n \in T : n + 1 \in T
    PROVE  T = Nat
<1> SUFFICES ASSUME Nat \ T # {} PROVE FALSE
  OBVIOUS
<1>1. PICK n \in Nat \ T : \A m \in Nat \ T : n <= m
  BY SmallestNumber
<1>2. n # 0 /\ n - 1 \in Nat /\ n - 1 \notin T
  BY <1>1
<1>3. n <= n - 1
  BY <1>1, <1>2
<1> QED
  BY <1>1, <1>3

\* Of a set of finite sets that is not empty, one is as small as any other.
LEMMA SmallestSet ==
    ASSUME NEW F, F # {}, \A s \in F : IsFiniteSet(s)
    PROVE  \E s \in F : \A t \in F : Cardinality(s) <= Cardinality(t)
<1> DEFINE T == {Cardinality(s) : s \in F}
<1>1. T \subseteq Nat /\ T # {}
  BY FS_CardinalityType
<1>2. PICK n \in T : \A m \in T : n <= m
  BY <1>1, SmallestNumber
<1>3. PICK s \in F : n = Cardinality(s)
  BY <1>2
<1> QED
  BY <1>2, <1>3

\* A set without one of its elements is smaller.
LEMMA SmallerSet ==
    ASSUME NEW S, IsFiniteSet(S), NEW x \in S
    PROVE  /\ IsFiniteSet(S \ {x})
           /\ Cardinality(S) \in Nat /\ Cardinality(S \ {x}) \in Nat
           /\ Cardinality(S \ {x}) = Cardinality(S) - 1
BY FS_RemoveElement, FS_CardinalityType

-----------------------------------------------------------------------------
(***************************************************************************)
(* The fold is well defined.                                               *)
(***************************************************************************)
Pick(s) == CHOOSE x \in s : TRUE

\* g adds up f over each set of P.
Adds(g, f, P) ==
    g = [s \in P |-> IF s = {} THEN 0 ELSE f[Pick(s)] + g[s \ {Pick(s)}]]

AddsAll(g, f, S) == Adds(g, f, SUBSET S)

LEMMA SumIsChosen ==
    ASSUME NEW f, NEW S
    PROVE  SumFunctionOnSet(f, S) = (CHOOSE g : AddsAll(g, f, S))[S]
BY DEF SumFunctionOnSet, FoldFunctionOnSet, MapThenFoldSet, AddsAll, Adds, Pick

LEMMA PickIn ==
    ASSUME NEW s, s # {}
    PROVE  Pick(s) \in s
BY DEF Pick

\* Two functions that add up f over the subsets of two sets agree where both do.
LEMMA AddsAgree ==
    ASSUME NEW f, NEW S, NEW T, IsFiniteSet(T), T \subseteq S,
           NEW g, AddsAll(g, f, S), NEW h, AddsAll(h, f, T)
    PROVE  \A s \in SUBSET T : g[s] = h[s]
<1> DEFINE F == {s \in SUBSET T : g[s] # h[s]}
<1> SUFFICES ASSUME F # {} PROVE FALSE
  OBVIOUS
<1>1. PICK s \in F : \A t \in F : Cardinality(s) <= Cardinality(t)
  <2>1. \A s \in F : IsFiniteSet(s)
    BY FS_Subset
  <2> QED
    BY <2>1, SmallestSet
<1>2. s \in SUBSET T /\ s \in SUBSET S /\ IsFiniteSet(s) /\ g[s] # h[s]
  BY <1>1, FS_Subset
<1>3. CASE s = {}
  BY <1>2, <1>3 DEF AddsAll, Adds
<1>4. CASE s # {}
  <2> DEFINE r == s \ {Pick(s)}
  <2>1. Pick(s) \in s
    BY <1>4, PickIn
  <2>2. g[r] = h[r]
    <3>1. r \in SUBSET T
      BY <1>2
    <3>2. ~(Cardinality(s) <= Cardinality(r))
      BY <1>2, <2>1, SmallerSet
    <3> QED
      BY <1>1, <3>1, <3>2
  <2>3. g[s] = f[Pick(s)] + g[r] /\ h[s] = f[Pick(s)] + h[r]
    BY <1>2, <1>4 DEF AddsAll, Adds
  <2> QED
    BY <1>2, <2>2, <2>3
<1> QED
  BY <1>3, <1>4

\* Such a function exists, and the sum is its value.
LEMMA AddsExists ==
    ASSUME NEW f, NEW S, IsFiniteSet(S)
    PROVE  \E g : AddsAll(g, f, S)
<1> DEFINE Parts(n) == {s \in SUBSET S : Cardinality(s) <= n}
           T == {n \in Nat : \E g : Adds(g, f, Parts(n))}
<1>0. \A s \in SUBSET S : IsFiniteSet(s) /\ Cardinality(s) \in Nat
  BY FS_Subset, FS_CardinalityType
<1>1. 0 \in T
  <2>1. Parts(0) = {{}}
    BY <1>0, FS_EmptySet
  <2>2. Adds([s \in {{}} |-> 0], f, {{}})
    BY DEF AddsAll, Adds
  <2> QED
    BY <2>1, <2>2
<1>2. ASSUME NEW n \in T
      PROVE  n + 1 \in T
  <2>1. PICK g : Adds(g, f, Parts(n))
    OBVIOUS
  <2> DEFINE h == [s \in Parts(n + 1) |->
                     IF s = {} THEN 0 ELSE f[Pick(s)] + g[s \ {Pick(s)}]]
  <2>2. \A s \in Parts(n) : h[s] = g[s]
    <3>1. Parts(n) \subseteq Parts(n + 1)
      BY <1>0
    <3> QED
      BY <2>1, <3>1 DEF Adds
  <2>3. \A s \in Parts(n + 1) : s # {} => s \ {Pick(s)} \in Parts(n)
    <3> SUFFICES ASSUME NEW s \in Parts(n + 1), s # {}
                 PROVE  s \ {Pick(s)} \in Parts(n)
      OBVIOUS
    <3>1. Cardinality(s \ {Pick(s)}) = Cardinality(s) - 1
      BY <1>0, PickIn, FS_RemoveElement
    <3> QED
      BY <1>0, <3>1
  <2>4. Adds(h, f, Parts(n + 1))
    BY <2>2, <2>3 DEF Adds
  <2> HIDE DEF h, Parts
  <2> QED
    BY <2>4
<1>3. T = Nat
  <2> HIDE DEF T
  <2>1. T \subseteq Nat
    BY DEF T
  <2> QED
    BY <1>1, <1>2, <2>1, AllNumbers
<1>4. Cardinality(S) \in T
  BY <1>0, <1>3
<1>5. Parts(Cardinality(S)) = SUBSET S
  BY FS_Subset
<1> QED
  BY <1>4, <1>5 DEF AddsAll

\* The equation the sum is defined by.
LEMMA SumEquation ==
    ASSUME NEW f, NEW S, IsFiniteSet(S)
    PROVE  SumFunctionOnSet(f, S) =
              IF S = {} THEN 0
              ELSE f[Pick(S)] + SumFunctionOnSet(f, S \ {Pick(S)})
<1> DEFINE G(T) == CHOOSE g : AddsAll(g, f, T)
<1>1. ASSUME NEW T, IsFiniteSet(T)
      PROVE  AddsAll(G(T), f, T)
  BY <1>1, AddsExists
<1>2. ASSUME NEW T
      PROVE  SumFunctionOnSet(f, T) = G(T)[T]
  BY SumIsChosen
<1> DEFINE r == S \ {Pick(S)}
<1>3. IsFiniteSet(r) /\ r \in SUBSET S
  BY FS_RemoveElement
<1>4. G(S)[r] = G(r)[r]
  <2>1. AddsAll(G(S), f, S) /\ AddsAll(G(r), f, r)
    BY <1>1, <1>3
  <2> HIDE DEF G, r
  <2> QED
    BY <1>3, <2>1, AddsAgree
<1>5. G(S)[S] = IF S = {} THEN 0 ELSE f[Pick(S)] + G(S)[r]
  <2>1. AddsAll(G(S), f, S)
    BY <1>1
  <2> HIDE DEF G
  <2> QED
    BY <2>1 DEF AddsAll, Adds
<1> HIDE DEF G, r
<1>6. SumFunctionOnSet(f, r) = G(r)[r] /\ SumFunctionOnSet(f, S) = G(S)[S]
  BY <1>2
<1> QED
  BY <1>4, <1>5, <1>6 DEF r

-----------------------------------------------------------------------------
(***************************************************************************)
(* Sums.                                                                   *)
(***************************************************************************)

\* Nothing adds up to nothing.
THEOREM SumOfNone ==
    ASSUME NEW f
    PROVE  SumFunctionOnSet(f, {}) = 0
BY SumEquation, FS_EmptySet

\* Natural numbers add up to one.
THEOREM SumType ==
    ASSUME NEW f, NEW S, IsFiniteSet(S), \A x \in S : f[x] \in Nat
    PROVE  SumFunctionOnSet(f, S) \in Nat
<1> DEFINE F == {s \in SUBSET S : SumFunctionOnSet(f, s) \notin Nat}
<1> SUFFICES ASSUME F # {} PROVE FALSE
  OBVIOUS
<1>1. \A s \in F : IsFiniteSet(s)
  BY FS_Subset
<1>2. PICK s \in F : \A t \in F : Cardinality(s) <= Cardinality(t)
  BY <1>1, SmallestSet
<1>3. s # {}
  BY <1>2, SumOfNone
<1> DEFINE r == s \ {Pick(s)}
<1>4. Pick(s) \in s /\ IsFiniteSet(s) /\ IsFiniteSet(r) /\ r \in SUBSET S
  BY <1>1, <1>3, PickIn, FS_RemoveElement
<1>5. Cardinality(r) < Cardinality(s) /\ Cardinality(r) \in Nat /\ Cardinality(s) \in Nat
  BY <1>4, SmallerSet
<1>6. SumFunctionOnSet(f, r) \in Nat
  BY <1>2, <1>4, <1>5
<1>7. SumFunctionOnSet(f, s) = f[Pick(s)] + SumFunctionOnSet(f, r)
  BY <1>3, <1>4, SumEquation
<1> QED
  BY <1>2, <1>4, <1>6, <1>7

\* Two functions that agree on a set have the same sum over it.
THEOREM SumSame ==
    ASSUME NEW f, NEW g, NEW S, IsFiniteSet(S), \A x \in S : f[x] = g[x]
    PROVE  SumFunctionOnSet(f, S) = SumFunctionOnSet(g, S)
<1> DEFINE F == {s \in SUBSET S : SumFunctionOnSet(f, s) # SumFunctionOnSet(g, s)}
<1> SUFFICES ASSUME F # {} PROVE FALSE
  OBVIOUS
<1>1. \A s \in F : IsFiniteSet(s)
  BY FS_Subset
<1>2. PICK s \in F : \A t \in F : Cardinality(s) <= Cardinality(t)
  BY <1>1, SmallestSet
<1>3. s # {}
  BY <1>2, SumOfNone
<1> DEFINE r == s \ {Pick(s)}
<1>4. Pick(s) \in s /\ IsFiniteSet(s) /\ IsFiniteSet(r) /\ r \in SUBSET S
  BY <1>1, <1>3, PickIn, FS_RemoveElement
<1>5. Cardinality(r) < Cardinality(s) /\ Cardinality(r) \in Nat /\ Cardinality(s) \in Nat
  BY <1>4, SmallerSet
<1>6. SumFunctionOnSet(f, r) = SumFunctionOnSet(g, r)
  BY <1>2, <1>4, <1>5
<1>7. /\ SumFunctionOnSet(f, s) = f[Pick(s)] + SumFunctionOnSet(f, r)
      /\ SumFunctionOnSet(g, s) = g[Pick(s)] + SumFunctionOnSet(g, r)
  BY <1>3, <1>4, SumEquation
<1> QED
  BY <1>2, <1>4, <1>6, <1>7

\* Any element can be taken out first.
LEMMA SumWithout ==
    ASSUME NEW f, NEW S, IsFiniteSet(S), \A x \in S : f[x] \in Nat, NEW y \in S
    PROVE  SumFunctionOnSet(f, S) = f[y] + SumFunctionOnSet(f, S \ {y})
<1> DEFINE Sum(s) == SumFunctionOnSet(f, s)
           F == {s \in SUBSET S : \E x \in s : Sum(s) # f[x] + Sum(s \ {x})}
<1> SUFFICES ASSUME F # {} PROVE FALSE
  OBVIOUS
<1>0. \A s \in SUBSET S : IsFiniteSet(s) /\ Sum(s) \in Nat
  BY FS_Subset, SumType
<1>1. PICK s \in F : \A t \in F : Cardinality(s) <= Cardinality(t)
  BY <1>0, SmallestSet
<1>2. PICK x \in s : Sum(s) # f[x] + Sum(s \ {x})
  BY <1>1
<1> DEFINE c == Pick(s)
           r == s \ {c}
           q == s \ {x}
<1>3. c \in s /\ IsFiniteSet(s) /\ s \in SUBSET S
  BY <1>0, <1>1, <1>2, PickIn
<1>4. Sum(s) = f[c] + Sum(r)
  BY <1>2, <1>3, SumEquation
<1>5. c # x
  BY <1>2, <1>4
<1>6. /\ r \in SUBSET S /\ q \in SUBSET S /\ x \in r /\ c \in q
      /\ r \ {x} = q \ {c}
  BY <1>3, <1>5
<1>7. r \notin F /\ q \notin F
  <2>1. /\ Cardinality(r) < Cardinality(s) /\ Cardinality(q) < Cardinality(s)
        /\ Cardinality(r) \in Nat /\ Cardinality(q) \in Nat /\ Cardinality(s) \in Nat
    <3>1. c \in s /\ x \in s /\ IsFiniteSet(s)
      BY <1>2, <1>3
    <3>2. Cardinality(r) = Cardinality(s) - 1 /\ Cardinality(s) \in Nat
      BY <3>1, SmallerSet
    <3>3. Cardinality(q) = Cardinality(s) - 1
      BY <3>1, SmallerSet
    <3>4. Cardinality(s) >= 1
      BY <3>1, FS_EmptySet, <3>2
    <3> HIDE DEF r, q
    <3> QED
      BY <3>2, <3>3, <3>4
  <2> QED
    BY <1>1, <2>1
<1> HIDE DEF c, r, q, Sum
<1>8. Sum(r) = f[x] + Sum(r \ {x}) /\ Sum(q) = f[c] + Sum(q \ {c})
  BY <1>6, <1>7
<1>9. f[x] \in Nat /\ f[c] \in Nat /\ Sum(r \ {x}) \in Nat
  BY <1>0, <1>3, <1>6
<1> QED
  BY <1>2, <1>4, <1>6, <1>8, <1>9 DEF q

\* What a new element adds.
THEOREM SumWithOneMore ==
    ASSUME NEW f, NEW S, IsFiniteSet(S), NEW y, y \notin S,
           \A x \in S \cup {y} : f[x] \in Nat
    PROVE  SumFunctionOnSet(f, S \cup {y}) = SumFunctionOnSet(f, S) + f[y]
<1>1. IsFiniteSet(S \cup {y}) /\ (S \cup {y}) \ {y} = S
  BY FS_AddElement
<1>2. SumFunctionOnSet(f, S) \in Nat /\ f[y] \in Nat
  BY SumType
<1>3. SumFunctionOnSet(f, S \cup {y}) = f[y] + SumFunctionOnSet(f, S)
  BY <1>1, SumWithout
<1> QED
  BY <1>2, <1>3

\* A sum over a set that has grown by one element, of a function that has kept its
\* values there.
THEOREM SumGrows ==
    ASSUME NEW f, NEW g, NEW S, IsFiniteSet(S), NEW y, y \notin S,
           \A x \in S : f[x] \in Nat /\ g[x] = f[x], g[y] \in Nat
    PROVE  SumFunctionOnSet(g, S \cup {y}) = SumFunctionOnSet(f, S) + g[y]
<1>1. SumFunctionOnSet(g, S) = SumFunctionOnSet(f, S)
  BY SumSame
<1>2. \A x \in S \cup {y} : g[x] \in Nat
  OBVIOUS
<1> QED
  BY <1>1, <1>2, SumWithOneMore
=============================================================================
