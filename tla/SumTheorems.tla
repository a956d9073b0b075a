---------------------------- MODULE SumTheorems ----------------------------
(***************************************************************************)
(* Lemmas about sums of functions over finite sets, SumFunction and        *)
(* SumFunctionOnSet of the community modules, which take the elements in   *)
(* an order that CHOOSE determines.  They are proved from the least number *)
(* principle, a fact of the library that is free of operators as           *)
(* parameters.                                                             *)
(***************************************************************************)
EXTENDS Integers, FiniteSets, Functions, FiniteSetTheorems, WellFoundedInduction, TLAPS

\* The order of the natural numbers.
Less == {p \in Nat \X Nat : p[1] < p[2]}

\* Every set of natural numbers has a least element, if it has any: induction, without
\* an operator as a parameter.
LEMMA LeastNumber ==
  ASSUME NEW B \in SUBSET Nat, B # {}
  PROVE  \E n \in B : \A m \in B : n <= m
<1>1. IsWellFoundedOn(Less, Nat)
  BY NatLessThanWellFounded DEF OpToRel, Less
<1>2. PICK n \in B : \A m \in B : ~(<<m, n>> \in Less)
  <2> HIDE DEF Less
  <2> QED
    BY <1>1, WFMin, Zenon
<1>3. ASSUME NEW m \in B PROVE n <= m
  <2>1. <<m, n>> \notin Less /\ n \in Nat /\ m \in Nat
    BY <1>2
  <2>2. ~(m < n)
    BY <2>1 DEF Less
  <2> QED
    BY <2>1, <2>2
<1> QED
  BY <1>3

-----------------------------------------------------------------------------
\* The element of a set that a fold takes first.
Pick(s) == CHOOSE x \in s : TRUE

\* g adds up f over the subsets of S: the recursion of the fold.
Adds(g, f, S) == g = [s \in SUBSET S |-> IF s = {} THEN 0 ELSE f[Pick(s)] + g[s \ {Pick(s)}]]

\* The function that the fold chooses.
Iter(f, S) == CHOOSE g : Adds(g, f, S)

\* A sum is what that function returns.
LEMMA SumIsIter ==
  ASSUME NEW f, NEW S
  PROVE  SumFunctionOnSet(f, S) = Iter(f, S)[S]
  BY DEF SumFunctionOnSet, FoldFunctionOnSet, MapThenFoldSet, Adds, Pick, Iter

\* Sets that are not empty have an element.
LEMMA PickIsMember ==
  ASSUME NEW s, s # {}
  PROVE  Pick(s) \in s
  BY DEF Pick

\* Without one of its elements a finite set is smaller.
LEMMA SmallerSet ==
  ASSUME NEW s, IsFiniteSet(s), NEW x \in s
  PROVE  /\ IsFiniteSet(s \ {x})
         /\ Cardinality(s \ {x}) \in Nat /\ Cardinality(s) \in Nat
         /\ Cardinality(s \ {x}) < Cardinality(s)
<1>1. IsFiniteSet(s \ {x}) /\ Cardinality(s \ {x}) = Cardinality(s) - 1
  BY FS_RemoveElement
<1>2. Cardinality(s \ {x}) \in Nat /\ Cardinality(s) \in Nat
  BY <1>1, FS_CardinalityType
<1> QED
  BY <1>1, <1>2

\* The recursion determines its function.
LEMMA AddsIsUnique ==
  ASSUME NEW f, NEW S, IsFiniteSet(S), NEW g, NEW h, Adds(g, f, S), Adds(h, f, S)
  PROVE  g = h
<1> DEFINE Bad == {n \in Nat : \E s \in SUBSET S : Cardinality(s) = n /\ g[s] # h[s]}
<1>1. ASSUME Bad # {} PROVE FALSE
  <2>1. PICK n \in Bad : \A m \in Bad : n <= m
    BY <1>1, LeastNumber
  <2>2. PICK s \in SUBSET S : Cardinality(s) = n /\ g[s] # h[s]
    OBVIOUS
  <2> DEFINE r == s \ {Pick(s)}
  <2>3. s # {}
    BY <2>2 DEF Adds
  <2>4. Pick(s) \in s
    BY <2>3, PickIsMember
  <2>5. IsFiniteSet(s)
    BY FS_Subset
  <2>6. Cardinality(r) \in Nat /\ Cardinality(r) < n
    BY <2>2, <2>4, <2>5, SmallerSet
  <2>7. Cardinality(r) \notin Bad
    <3> HIDE DEF Bad, r
    <3>1. n \in Nat
      BY DEF Bad
    <3> QED
      BY <2>1, <2>6, <3>1
  <2>8. g[r] = h[r]
    BY <2>6, <2>7
  <2>9. g[s] = f[Pick(s)] + g[r] /\ h[s] = f[Pick(s)] + h[r]
    BY <2>3 DEF Adds
  <2> QED
    BY <2>2, <2>8, <2>9
<1>2. \A s \in SUBSET S : g[s] = h[s]
  BY <1>1, FS_CardinalityType, FS_Subset
<1>3. g = [s \in SUBSET S |-> g[s]] /\ h = [s \in SUBSET S |-> h[s]]
  BY DEF Adds
<1> QED
  BY <1>2, <1>3

\* Its restriction to the subsets of a subset satisfies the recursion there.
LEMMA AddsOnSubset ==
  ASSUME NEW f, NEW S, NEW T \in SUBSET S, NEW g, Adds(g, f, S)
  PROVE  Adds([s \in SUBSET T |-> g[s]], f, T)
<1> DEFINE h == [s \in SUBSET T |-> g[s]]
<1>1. ASSUME NEW s \in SUBSET T
      PROVE  h[s] = IF s = {} THEN 0 ELSE f[Pick(s)] + h[s \ {Pick(s)}]
  <2>1. s \in SUBSET S /\ s \ {Pick(s)} \in SUBSET T
    OBVIOUS
  <2>2. g[s] = IF s = {} THEN 0 ELSE f[Pick(s)] + g[s \ {Pick(s)}]
    BY <2>1 DEF Adds
  <2> QED
    BY <2>1, <2>2
<1> QED
  BY <1>1 DEF Adds

\* The recursion has a solution: what the sums of the smaller sets return.
LEMMA AddsExists ==
  ASSUME NEW f, NEW S, IsFiniteSet(S)
  PROVE  Adds(Iter(f, S), f, S)
<1> DEFINE Bad == {n \in Nat : \E T : IsFiniteSet(T) /\ Cardinality(T) = n /\ ~Adds(Iter(f, T), f, T)}
<1>1. ASSUME Bad # {} PROVE FALSE
  <2>1. PICK n \in Bad : \A m \in Bad : n <= m
    BY <1>1, LeastNumber
  <2>2. PICK T : IsFiniteSet(T) /\ Cardinality(T) = n /\ ~Adds(Iter(f, T), f, T)
    OBVIOUS
  <2>3. ASSUME NEW U, IsFiniteSet(U), Cardinality(U) < n PROVE Adds(Iter(f, U), f, U)
    <3>1. Cardinality(U) \in Nat
      BY <2>3, FS_CardinalityType
    <3>2. Cardinality(U) \notin Bad
      BY <2>1, <2>3, <3>1
    <3> QED
      BY <2>3, <3>1, <3>2
  <2> DEFINE val(s) == IF s = {} THEN 0 ELSE f[Pick(s)] + Iter(f, s \ {Pick(s)})[s \ {Pick(s)}]
             g == [s \in SUBSET T |-> val(s)]
  <2>4. ASSUME NEW s \in SUBSET T, s # {} PROVE g[s \ {Pick(s)}] = Iter(f, s \ {Pick(s)})[s \ {Pick(s)}]
    <3> DEFINE U == s \ {Pick(s)}
               V == U \ {Pick(U)}
    <3>1. Pick(s) \in s /\ IsFiniteSet(s)
      BY <2>2, <2>4, PickIsMember, FS_Subset
    <3>2. IsFiniteSet(U) /\ Cardinality(U) < n
      <4>1. Cardinality(s) <= n
        BY <2>2, FS_Subset
      <4>2. /\ IsFiniteSet(U) /\ Cardinality(U) \in Nat /\ Cardinality(s) \in Nat
            /\ Cardinality(U) < Cardinality(s)
        BY <3>1, SmallerSet
      <4> HIDE DEF U
      <4>3. n \in Nat
        OBVIOUS
      <4> QED
        BY <4>1, <4>2, <4>3
    <3>3. Adds(Iter(f, U), f, U)
      BY <2>3, <3>2
    <3>4. Iter(f, U)[U] = IF U = {} THEN 0 ELSE f[Pick(U)] + Iter(f, U)[V]
      <4> HIDE DEF U
      <4> QED
        BY <3>3 DEF Adds
    <3>5. g[U] = val(U)
      OBVIOUS
    <3>6. CASE U = {}
      BY <3>4, <3>5, <3>6
    <3>7. CASE U # {}
      <4>1. Pick(U) \in U
        BY <3>7, PickIsMember
      <4>2. IsFiniteSet(V) /\ Cardinality(V) < n
        BY <3>2, <4>1, SmallerSet
      <4>3. Adds(Iter(f, V), f, V)
        BY <2>3, <4>2
      <4>4. Adds([t \in SUBSET V |-> Iter(f, U)[t]], f, V)
        <5>1. V \in SUBSET U
          OBVIOUS
        <5> HIDE DEF U, V
        <5> QED
          BY <3>3, <5>1, AddsOnSubset
      <4>5. Iter(f, V) = [t \in SUBSET V |-> Iter(f, U)[t]]
        BY <4>2, <4>3, <4>4, AddsIsUnique
      <4>6. Iter(f, V)[V] = Iter(f, U)[V]
        BY <4>5
      <4>7. val(U) = f[Pick(U)] + Iter(f, V)[V]
        BY <3>7
      <4> QED
        BY <3>4, <3>5, <3>7, <4>6, <4>7
    <3> QED
      BY <3>6, <3>7
  <2>5. Adds(g, f, T)
    BY <2>4 DEF Adds
  <2>6. Adds(Iter(f, T), f, T)
    BY <2>5 DEF Iter
  <2> QED
    BY <2>2, <2>6
<1> QED
  BY <1>1, FS_CardinalityType

\* Nothing adds up to 0.
LEMMA SumOfEmpty ==
  ASSUME NEW f
  PROVE  SumFunctionOnSet(f, {}) = 0
<1>1. Adds(Iter(f, {}), f, {})
  BY AddsExists, FS_EmptySet
<1>2. Iter(f, {})[{}] = 0
  BY <1>1 DEF Adds
<1> QED
  BY <1>2, SumIsIter

\* A sum is one of its terms and the sum of the others.
LEMMA SumByPick ==
  ASSUME NEW f, NEW S, IsFiniteSet(S), S # {}
  PROVE  /\ Pick(S) \in S
         /\ SumFunctionOnSet(f, S) = f[Pick(S)] + SumFunctionOnSet(f, S \ {Pick(S)})
<1> DEFINE T == S \ {Pick(S)}
<1>1. Pick(S) \in S
  BY PickIsMember
<1>2. Adds(Iter(f, S), f, S)
  BY AddsExists
<1>3. Iter(f, S)[S] = f[Pick(S)] + Iter(f, S)[T]
  BY <1>2 DEF Adds
<1>4. IsFiniteSet(T)
  BY FS_Subset
<1>5. Adds([s \in SUBSET T |-> Iter(f, S)[s]], f, T)
  BY <1>2, AddsOnSubset
<1>6. Iter(f, T) = [s \in SUBSET T |-> Iter(f, S)[s]]
  BY <1>4, <1>5, AddsExists, AddsIsUnique
<1>7. Iter(f, T)[T] = Iter(f, S)[T]
  BY <1>6
<1> QED
  BY <1>1, <1>3, <1>7, SumIsIter

-----------------------------------------------------------------------------
\* What holds of the empty set, and of a subset with an element more, holds of a finite
\* set.
LEMMA FiniteInduction ==
  ASSUME NEW S, IsFiniteSet(S), NEW Good \in SUBSET SUBSET S, {} \in Good,
         \A T \in Good : \A x \in S \ T : T \cup {x} \in Good
  PROVE  S \in Good
<1> DEFINE Bad == {n \in Nat : \E T \in SUBSET S : T \notin Good /\ Cardinality(T) = n}
<1>1. ASSUME Bad # {} PROVE FALSE
  <2>1. PICK n \in Bad : \A m \in Bad : n <= m
    BY <1>1, LeastNumber
  <2>2. PICK T \in SUBSET S : T \notin Good /\ Cardinality(T) = n
    OBVIOUS
  <2> DEFINE x == Pick(T)
  <2>3. x \in T /\ IsFiniteSet(T)
    BY <2>2, PickIsMember, FS_Subset
  <2>4. Cardinality(T \ {x}) \in Nat /\ Cardinality(T \ {x}) < n
    BY <2>2, <2>3, SmallerSet
  <2>5. Cardinality(T \ {x}) \notin Bad
    <3> HIDE DEF Bad, x
    <3>1. n \in Nat
      BY DEF Bad
    <3> QED
      BY <2>1, <2>4, <3>1
  <2>6. T \ {x} \in Good
    BY <2>4, <2>5
  <2>7. T = (T \ {x}) \cup {x} /\ x \in S \ (T \ {x})
    BY <2>3
  <2> QED
    BY <2>2, <2>6, <2>7
<1> QED
  BY <1>1, FS_CardinalityType

\* f has integers for values on S.
IntOn(f, S) == \A x \in S : f[x] \in Int

\* Sums of integers are integers, and any of the terms may be taken out.
LEMMA SumStep ==
  ASSUME NEW f, NEW S, IsFiniteSet(S), IntOn(f, S)
  PROVE  /\ SumFunctionOnSet(f, S) \in Int
         /\ \A x \in S : SumFunctionOnSet(f, S) = f[x] + SumFunctionOnSet(f, S \ {x})
<1> DEFINE Sum(T) == SumFunctionOnSet(f, T)
           Fine(T) == Sum(T) \in Int /\ \A x \in T : Sum(T) = f[x] + Sum(T \ {x})
           Bad == {n \in Nat : \E T \in SUBSET S : ~Fine(T) /\ Cardinality(T) = n}
<1>1. ASSUME Bad # {} PROVE FALSE
  <2>1. PICK n \in Bad : \A m \in Bad : n <= m
    BY <1>1, LeastNumber
  <2>2. PICK T \in SUBSET S : ~Fine(T) /\ Cardinality(T) = n
    OBVIOUS
  <2>3. IsFiniteSet(T) /\ n \in Nat
    BY FS_Subset
  <2>4. ASSUME NEW x \in T PROVE Fine(T \ {x})
    <3>1. Cardinality(T \ {x}) \in Nat /\ Cardinality(T \ {x}) < n
      BY <2>2, <2>3, SmallerSet
    <3>2. Cardinality(T \ {x}) \notin Bad
      <4> HIDE DEF Bad
      <4> QED
        BY <2>1, <2>3, <3>1
    <3> QED
      BY <3>1, <3>2
  <2>5. CASE T = {}
    BY <2>2, <2>5, SumOfEmpty
  <2>6. CASE T # {}
    <3> DEFINE p == Pick(T)
    <3>1. p \in T /\ Sum(T) = f[p] + Sum(T \ {p})
      BY <2>3, <2>6, SumByPick
    <3>2. \A x \in T : f[x] \in Int
      BY DEF IntOn
    <3>3. Sum(T) \in Int
      BY <2>4, <3>1, <3>2
    <3>4. ASSUME NEW x \in T, x # p PROVE Sum(T) = f[x] + Sum(T \ {x})
      <4>1. Sum(T \ {p}) = f[x] + Sum((T \ {p}) \ {x})
        BY <2>4, <3>1, <3>4
      <4>2. Sum(T \ {x}) = f[p] + Sum((T \ {x}) \ {p})
        BY <2>4, <3>1, <3>4
      <4>3. (T \ {p}) \ {x} = (T \ {x}) \ {p}
        OBVIOUS
      <4>4. Sum((T \ {p}) \ {x}) \in Int
        <5>1. Fine(T \ {p}) /\ Fine(T \ {x})
          BY <2>4, <3>1
        <5>2. Sum(T \ {p}) \in Int /\ Sum(T \ {x}) \in Int
          BY <5>1
        <5>3. Cardinality((T \ {p}) \ {x}) \in Nat /\ Cardinality((T \ {p}) \ {x}) < n
          <6>1. IsFiniteSet(T \ {p}) /\ Cardinality(T \ {p}) \in Nat /\ Cardinality(T \ {p}) < n
            BY <2>2, <2>3, <3>1, SmallerSet
          <6>2. x \in T \ {p}
            BY <3>4
          <6>3. /\ Cardinality((T \ {p}) \ {x}) \in Nat
                /\ Cardinality((T \ {p}) \ {x}) < Cardinality(T \ {p})
            BY <6>1, <6>2, SmallerSet
          <6> QED
            BY <2>3, <6>1, <6>3
        <5>4. Cardinality((T \ {p}) \ {x}) \notin Bad
          <6> HIDE DEF Bad
          <6> QED
            BY <2>1, <2>3, <5>3
        <5> QED
          BY <5>3, <5>4
      <4>5. f[x] \in Int /\ f[p] \in Int
        BY <3>1, <3>2
      <4>6. Sum(T) = f[p] + (f[x] + Sum((T \ {p}) \ {x}))
        BY <3>1, <4>1
      <4>7. f[x] + Sum(T \ {x}) = f[x] + (f[p] + Sum((T \ {p}) \ {x}))
        BY <4>2, <4>3
      <4> HIDE DEF Sum, p
      <4> QED
        BY <4>4, <4>5, <4>6, <4>7
    <3>5. Fine(T)
      BY <3>1, <3>3, <3>4
    <3> QED
      BY <2>2, <3>5
  <2> QED
    BY <2>5, <2>6
<1>2. Fine(S)
  BY <1>1, FS_CardinalityType
<1> QED
  BY <1>2

\* With one element more, a sum is larger by its term.
LEMMA SumOfMore ==
  ASSUME NEW f, NEW S, IsFiniteSet(S), NEW T \in SUBSET S, NEW x \in S \ T, IntOn(f, S)
  PROVE  /\ SumFunctionOnSet(f, T) \in Int
         /\ SumFunctionOnSet(f, T \cup {x}) = f[x] + SumFunctionOnSet(f, T)
<1>1. T \cup {x} \in SUBSET S /\ x \in T \cup {x} /\ (T \cup {x}) \ {x} = T
  OBVIOUS
<1>2. IsFiniteSet(T) /\ IsFiniteSet(T \cup {x})
  BY <1>1, FS_Subset
<1>3. IntOn(f, T) /\ IntOn(f, T \cup {x})
  BY DEF IntOn
<1> HIDE DEF IntOn
<1> QED
  BY <1>1, <1>2, <1>3, SumStep

\* Multiplication distributes over addition.
LEMMA Distributes == \A k, u, v \in Int : k * (u + v) = k * u + k * v
  OBVIOUS

\* Linear inequalities between terms add up.
LEMMA SumsCompare ==
  ASSUME NEW f, NEW g, NEW S, IsFiniteSet(S), IntOn(f, S), IntOn(g, S)
  PROVE  \A k, a, b \in Int :
            (\A x \in S : k * f[x] <= a * g[x] + b) =>
               k * SumFunctionOnSet(f, S) <= a * SumFunctionOnSet(g, S) + b * Cardinality(S)
<1> SUFFICES ASSUME NEW k \in Int, NEW a \in Int, NEW b \in Int,
                    \A x \in S : k * f[x] <= a * g[x] + b
             PROVE  k * SumFunctionOnSet(f, S)
                      <= a * SumFunctionOnSet(g, S) + b * Cardinality(S)
  OBVIOUS
<1> DEFINE F(T) == SumFunctionOnSet(f, T)
           G(T) == SumFunctionOnSet(g, T)
           Good == {T \in SUBSET S : k * F(T) <= a * G(T) + b * Cardinality(T)}
<1>1. {} \in Good
  BY SumOfEmpty, FS_EmptySet
<1>2. ASSUME NEW T \in Good, NEW x \in S \ T PROVE T \cup {x} \in Good
  <2>1. /\ F(T) \in Int /\ F(T \cup {x}) = f[x] + F(T)
        /\ G(T) \in Int /\ G(T \cup {x}) = g[x] + G(T)
    BY SumOfMore
  <2>2. IsFiniteSet(T) /\ Cardinality(T) \in Nat /\ Cardinality(T \cup {x}) = Cardinality(T) + 1
    BY FS_Subset, FS_AddElement, FS_CardinalityType
  <2>3. f[x] \in Int /\ g[x] \in Int /\ k * f[x] <= a * g[x] + b
    BY DEF IntOn
  <2>4. k * F(T) <= a * G(T) + b * Cardinality(T)
    OBVIOUS
  <2> HIDE DEF F, G, Good
  <2>5. k * F(T \cup {x}) = k * f[x] + k * F(T)
    BY <2>1, <2>3, Distributes
  <2>6. a * G(T \cup {x}) = a * g[x] + a * G(T)
    BY <2>1, <2>3, Distributes
  <2>7. b * Cardinality(T \cup {x}) = b * Cardinality(T) + b
    BY <2>2, Distributes
  <2>8. k * F(T \cup {x}) <= a * G(T \cup {x}) + b * Cardinality(T \cup {x})
    BY <2>1, <2>2, <2>3, <2>4, <2>5, <2>6, <2>7
  <2>9. T \cup {x} \in SUBSET S
    BY DEF Good
  <2> QED
    BY <2>8, <2>9 DEF Good
<1>3. S \in Good
  <2> HIDE DEF Good
  <2>1. Good \in SUBSET SUBSET S
    BY DEF Good
  <2> QED
    BY <1>1, <1>2, <2>1, FiniteInduction
<1> QED
  BY <1>3

\* Sums of natural numbers are natural numbers, and no less than any of the terms.
LEMMA SumInNat ==
  ASSUME NEW S, IsFiniteSet(S), NEW f \in [S -> Nat]
  PROVE  /\ SumFunction(f) \in Nat
         /\ \A x \in S : f[x] <= SumFunction(f)
<1>1. IntOn(f, S) /\ DOMAIN f = S
  BY DEF IntOn
<1>2. ASSUME NEW T \in SUBSET S PROVE SumFunctionOnSet(f, T) \in Nat
  <2>1. IsFiniteSet(T) /\ IntOn(f, T) /\ Cardinality(T) \in Nat
    BY FS_Subset, FS_CardinalityType DEF IntOn
  <2>2. SumFunctionOnSet(f, T) \in Int
    BY <2>1, SumStep
  <2>3. \A k, a, b \in Int :
           (\A x \in T : k * f[x] <= a * f[x] + b) =>
              k * SumFunctionOnSet(f, T) <= a * SumFunctionOnSet(f, T) + b * Cardinality(T)
    BY <2>1, SumsCompare
  <2>4. (-1) * SumFunctionOnSet(f, T) <= 0 * SumFunctionOnSet(f, T) + 0 * Cardinality(T)
    BY <2>3
  <2> QED
    BY <2>1, <2>2, <2>4
<1>3. ASSUME NEW x \in S PROVE f[x] <= SumFunctionOnSet(f, S)
  <2>1. SumFunctionOnSet(f, S) = f[x] + SumFunctionOnSet(f, S \ {x})
    BY <1>1, SumStep
  <2>2. SumFunctionOnSet(f, S \ {x}) \in Nat /\ f[x] \in Nat
    BY <1>2
  <2> QED
    BY <2>1, <2>2
<1> QED
  BY <1>1, <1>2, <1>3 DEF SumFunction

\* Terms that are 0 may be left out.
LEMMA SumOfSupport ==
  ASSUME NEW S, IsFiniteSet(S), NEW f \in [S -> Int], NEW T \in SUBSET S,
         \A x \in S \ T : f[x] = 0
  PROVE  SumFunction(f) = SumFunction([x \in T |-> f[x]])
<1> DEFINE h == [x \in T |-> f[x]]
           Good == {R \in SUBSET S : SumFunctionOnSet(f, R) = SumFunctionOnSet(h, R \cap T)}
<1>1. IntOn(f, S) /\ IsFiniteSet(T) /\ IntOn(h, T)
  BY FS_Subset DEF IntOn
<1>2. {} \in Good
  BY SumOfEmpty
<1>3. ASSUME NEW R \in Good, NEW x \in S \ R PROVE R \cup {x} \in Good
  <2>1. /\ SumFunctionOnSet(f, R) \in Int
        /\ SumFunctionOnSet(f, R \cup {x}) = f[x] + SumFunctionOnSet(f, R)
    BY <1>1, SumOfMore
  <2>2. CASE x \in T
    <3>1. (R \cup {x}) \cap T = (R \cap T) \cup {x}
      BY <2>2
    <3>2. R \cap T \in SUBSET T /\ x \in T \ (R \cap T) /\ h[x] = f[x]
      BY <2>2
    <3>3. SumFunctionOnSet(h, (R \cap T) \cup {x}) = h[x] + SumFunctionOnSet(h, R \cap T)
      <4> DEFINE U == R \cap T
      <4>1. U \in SUBSET T /\ x \in T \ U /\ IsFiniteSet(T) /\ IntOn(h, T)
        BY <1>1, <3>2
      <4> HIDE DEF h, U
      <4>2. SumFunctionOnSet(h, U \cup {x}) = h[x] + SumFunctionOnSet(h, U)
        BY <4>1, SumOfMore
      <4> QED
        BY <4>2 DEF U
    <3> QED
      BY <2>1, <3>1, <3>2, <3>3
  <2>3. CASE x \notin T
    <3>1. (R \cup {x}) \cap T = R \cap T /\ f[x] = 0
      BY <2>3
    <3>2. SumFunctionOnSet(f, R \cup {x}) = SumFunctionOnSet(f, R)
      BY <2>1, <3>1
    <3>3. SumFunctionOnSet(f, R) = SumFunctionOnSet(h, R \cap T)
      OBVIOUS
    <3> HIDE DEF h
    <3> QED
      BY <3>1, <3>2, <3>3
  <2> QED
    BY <2>2, <2>3
<1>4. S \in Good
  <2> HIDE DEF Good
  <2>1. Good \in SUBSET SUBSET S
    BY DEF Good
  <2> QED
    BY <1>2, <1>3, <2>1, FiniteInduction
<1>5. S \cap T = T /\ DOMAIN f = S /\ DOMAIN h = T
  OBVIOUS
<1> QED
  BY <1>4, <1>5 DEF SumFunction

\* The image of a finite set is finite, and of the same size if no two elements share
\* theirs.
LEMMA FiniteImage ==
  ASSUME NEW S, IsFiniteSet(S), NEW e
  PROVE  /\ IsFiniteSet({e[x] : x \in S})
         /\ Cardinality({e[x] : x \in S}) \in Nat
         /\ (\A x, y \in S : e[x] = e[y] => x = y) =>
               Cardinality({e[x] : x \in S}) = Cardinality(S)
<1> DEFINE h == [x \in S |-> e[x]]
           T == {e[x] : x \in S}
<1>1. [x \in S |-> e[x]] \in Surjection(S, {e[x] : x \in S})
  BY DEF Surjection
<1>2. IsFiniteSet(T) /\ (h \in Injection(S, T) => Cardinality(T) = Cardinality(S))
  BY <1>1, FS_Surjection
<1>3. (\A x, y \in S : e[x] = e[y] => x = y) => h \in Injection(S, T)
  BY <1>1 DEF Surjection, Injection, IsInjective
<1> QED
  BY <1>2, <1>3, FS_CardinalityType

\* A sum over the images of elements, no two alike, is a sum over the elements.
LEMMA SumOfImage ==
  ASSUME NEW S, IsFiniteSet(S), NEW e, \A x, y \in S : e[x] = e[y] => x = y,
         NEW f \in [{e[x] : x \in S} -> Int]
  PROVE  SumFunction(f) = SumFunction([x \in S |-> f[e[x]]])
<1> DEFINE R(T) == {e[x] : x \in T}
           g == [x \in S |-> f[e[x]]]
           Good == {T \in SUBSET S : SumFunctionOnSet(f, R(T)) = SumFunctionOnSet(g, T)}
<1>1. IsFiniteSet(R(S)) /\ IntOn(f, R(S)) /\ IntOn(g, S)
  <2>2. IsFiniteSet(R(S))
    BY FiniteImage
  <2>3. IntOn(f, R(S))
    BY DEF IntOn
  <2>4. IntOn(g, S)
    BY DEF IntOn
  <2> QED
    BY <2>2, <2>3, <2>4
<1>2. {} \in Good
  <2>1. R({}) = {}
    OBVIOUS
  <2> QED
    BY <2>1, SumOfEmpty
<1>3. ASSUME NEW T \in Good, NEW x \in S \ T PROVE T \cup {x} \in Good
  <2>1. R(T \cup {x}) = R(T) \cup {e[x]} /\ R(T) \in SUBSET R(S)
    OBVIOUS
  <2>2. e[x] \in R(S) \ R(T)
    OBVIOUS
  <2>3. SumFunctionOnSet(f, R(T) \cup {e[x]}) = f[e[x]] + SumFunctionOnSet(f, R(T))
    <3> HIDE DEF R
    <3> QED
      BY <1>1, <2>1, <2>2, SumOfMore
  <2>4. SumFunctionOnSet(g, T \cup {x}) = g[x] + SumFunctionOnSet(g, T)
    <3> HIDE DEF g
    <3> QED
      BY <1>1, SumOfMore
  <2> QED
    BY <2>1, <2>3, <2>4
<1>4. S \in Good
  <2> HIDE DEF Good
  <2>1. Good \in SUBSET SUBSET S
    BY DEF Good
  <2> QED
    BY <1>2, <1>3, <2>1, FiniteInduction
<1>5. DOMAIN f = R(S) /\ DOMAIN g = S
  OBVIOUS
<1> QED
  BY <1>4, <1>5 DEF SumFunction

\* So is a sum over a column of rows, one row for each element.
LEMMA SumOfRows ==
  ASSUME NEW S, IsFiniteSet(S), NEW e, \A x, y \in S : e[x] = e[y] => x = y,
         NEW R, \A x \in S : e[x] \in R, \A r \in R : \E x \in S : r = e[x], NEW f \in [R -> Int],
         NEW c \in [S -> Int], \A x \in S : f[e[x]] = c[x]
  PROVE  SumFunction(f) = SumFunction(c)
<1>1. R = {e[x] : x \in S}
  OBVIOUS
<1>2. SumFunction(f) = SumFunction([x \in S |-> f[e[x]]])
  BY <1>1, SumOfImage
<1>3. c = [x \in S |-> f[e[x]]]
  OBVIOUS
<1> QED
  BY <1>2, <1>3

-----------------------------------------------------------------------------
\* Terms that are a multiple of others add up to that multiple of their sum.
LEMMA SumScaled ==
  ASSUME NEW S, IsFiniteSet(S), NEW f, NEW g, IntOn(f, S), IntOn(g, S), NEW a \in Int,
         \A x \in S : f[x] = a * g[x]
  PROVE  SumFunctionOnSet(f, S) = a * SumFunctionOnSet(g, S)
<1> DEFINE F == SumFunctionOnSet(f, S)
           G == SumFunctionOnSet(g, S)
<1>1. F \in Int /\ G \in Int /\ Cardinality(S) \in Nat
  BY SumStep, FS_CardinalityType
<1>2. \A k, m, b \in Int :
         (\A x \in S : k * f[x] <= m * g[x] + b) => k * F <= m * G + b * Cardinality(S)
  BY SumsCompare
<1>3. ASSUME NEW x \in S
      PROVE  f[x] \in Int /\ g[x] \in Int /\ a * g[x] \in Int /\ (-a) * g[x] = -(a * g[x])
  <2>1. f[x] \in Int /\ g[x] \in Int
    BY DEF IntOn
  <2> QED
    BY <2>1
<1>4. 1 * F <= a * G + 0 * Cardinality(S)
  <2>1. \A x \in S : 1 * f[x] <= a * g[x] + 0
    BY <1>3
  <2> HIDE DEF F, G
  <2> QED
    BY <1>2, <2>1
<1>5. (-1) * F <= (-a) * G + 0 * Cardinality(S)
  <2>1. \A x \in S : (-1) * f[x] <= (-a) * g[x] + 0
    BY <1>3
  <2>2. -1 \in Int /\ -a \in Int /\ 0 \in Int
    OBVIOUS
  <2> HIDE DEF F, G
  <2> QED
    BY <1>2, <2>1, <2>2
<1> HIDE DEF F, G
<1>6. (-a) * G = -(a * G) /\ a * G \in Int
  BY <1>1
<1> QED
  BY <1>1, <1>4, <1>5, <1>6 DEF F, G

\* A sum depends on its terms only.
LEMMA SumEqual ==
  ASSUME NEW S, IsFiniteSet(S), NEW f, NEW g, IntOn(f, S), \A x \in S : f[x] = g[x]
  PROVE  SumFunctionOnSet(f, S) = SumFunctionOnSet(g, S)
<1>1. IntOn(g, S) /\ \A x \in S : f[x] = 1 * g[x]
  BY DEF IntOn
<1>2. SumFunctionOnSet(f, S) = 1 * SumFunctionOnSet(g, S)
  BY <1>1, SumScaled
<1>3. SumFunctionOnSet(g, S) \in Int
  BY <1>1, SumStep
<1> QED
  BY <1>2, <1>3

\* The sum of a function that is given on its set.
LEMMA SumOfRestriction ==
  ASSUME NEW f, NEW S, IsFiniteSet(S), IntOn(f, S), NEW T \in SUBSET S, NEW h,
         h = [x \in T |-> f[x]]
  PROVE  SumFunction(h) = SumFunctionOnSet(f, T)
<1>1. IsFiniteSet(T) /\ DOMAIN h = T /\ \A x \in T : h[x] = f[x]
  BY FS_Subset
<1>2. IntOn(h, T)
  BY <1>1 DEF IntOn
<1> QED
  BY <1>1, <1>2, SumEqual DEF SumFunction

\* Disjoint sets add up.
LEMMA SumOfDisjoint ==
  ASSUME NEW f, NEW S, IsFiniteSet(S), IntOn(f, S), NEW A \in SUBSET S, NEW B \in SUBSET S,
         A \cap B = {}
  PROVE  SumFunctionOnSet(f, A \cup B) = SumFunctionOnSet(f, A) + SumFunctionOnSet(f, B)
<1> DEFINE Good == {T \in SUBSET B : SumFunctionOnSet(f, A \cup T)
                                       = SumFunctionOnSet(f, A) + SumFunctionOnSet(f, T)}
<1>1. IsFiniteSet(A) /\ IsFiniteSet(B) /\ IntOn(f, A)
  BY FS_Subset DEF IntOn
<1>2. {} \in Good
  <2>1. A \cup {} = A /\ SumFunctionOnSet(f, A) \in Int
    BY <1>1, SumStep
  <2> QED
    BY <2>1, SumOfEmpty
<1>3. ASSUME NEW T \in Good, NEW x \in B \ T PROVE T \cup {x} \in Good
  <2>1. T \in SUBSET S /\ x \in S \ T /\ A \cup T \in SUBSET S /\ x \in S \ (A \cup T)
    OBVIOUS
  <2>2. /\ SumFunctionOnSet(f, T) \in Int
        /\ SumFunctionOnSet(f, T \cup {x}) = f[x] + SumFunctionOnSet(f, T)
    BY <2>1, SumOfMore
  <2>3. SumFunctionOnSet(f, (A \cup T) \cup {x}) = f[x] + SumFunctionOnSet(f, A \cup T)
    BY <2>1, SumOfMore
  <2>4. SumFunctionOnSet(f, A) \in Int /\ f[x] \in Int
    BY <1>1, SumStep DEF IntOn
  <2>5. A \cup (T \cup {x}) = (A \cup T) \cup {x} /\ T \cup {x} \in SUBSET B
    OBVIOUS
  <2>6. SumFunctionOnSet(f, A \cup T) = SumFunctionOnSet(f, A) + SumFunctionOnSet(f, T)
    OBVIOUS
  <2>7. SumFunctionOnSet(f, A \cup (T \cup {x}))
          = SumFunctionOnSet(f, A) + SumFunctionOnSet(f, T \cup {x})
    <3> HIDE DEF Good
    <3>1. SumFunctionOnSet(f, A \cup (T \cup {x})) = f[x] + SumFunctionOnSet(f, A \cup T)
      BY <2>3, <2>5, Zenon
    <3>2. \A u, v, w \in Int : u + (v + w) = v + (u + w)
      OBVIOUS
    <3> QED
      BY <2>2, <2>4, <2>6, <3>1, <3>2
  <2> QED
    BY <2>5, <2>7
<1>4. B \in Good
  <2> HIDE DEF Good
  <2>1. Good \in SUBSET SUBSET B
    BY DEF Good
  <2> QED
    BY <1>1, <1>2, <1>3, <2>1, FiniteInduction
<1> QED
  BY <1>4

\* Terms may be added up by key.
LEMMA SumByKey ==
  ASSUME NEW f, NEW S, IsFiniteSet(S), IntOn(f, S), NEW C, IsFiniteSet(C),
         NEW key, \A x \in S : key[x] \in C, NEW h,
         h = [c \in C |-> SumFunctionOnSet(f, {x \in S : key[x] = c})]
  PROVE  SumFunction(h) = SumFunctionOnSet(f, S)
<1> DEFINE Of(D) == {x \in S : key[x] \in D}
           Good == {D \in SUBSET C : SumFunctionOnSet(h, D) = SumFunctionOnSet(f, Of(D))}
<1>1. ASSUME NEW T \in SUBSET S PROVE SumFunctionOnSet(f, T) \in Int
  <2>1. IsFiniteSet(T) /\ IntOn(f, T)
    BY FS_Subset DEF IntOn
  <2> QED
    BY <2>1, SumStep
<1>2. IntOn(h, C)
  BY <1>1 DEF IntOn
<1>3. {} \in Good
  <2>1. Of({}) = {}
    OBVIOUS
  <2> QED
    BY <2>1, SumOfEmpty
<1>4. ASSUME NEW D \in Good, NEW c \in C \ D PROVE D \cup {c} \in Good
  <2> DEFINE A == {x \in S : key[x] = c}
  <2>1. SumFunctionOnSet(h, D \cup {c}) = h[c] + SumFunctionOnSet(h, D)
    BY <1>2, SumOfMore
  <2>2. Of(D \cup {c}) = A \cup Of(D) /\ A \cap Of(D) = {}
    OBVIOUS
  <2>3. SumFunctionOnSet(f, A \cup Of(D)) = SumFunctionOnSet(f, A) + SumFunctionOnSet(f, Of(D))
    <3>1. A \in SUBSET S /\ Of(D) \in SUBSET S
      OBVIOUS
    <3> HIDE DEF A, Of
    <3> QED
      BY <2>2, <3>1, SumOfDisjoint
  <2>4. h[c] = SumFunctionOnSet(f, A)
    OBVIOUS
  <2>5. SumFunctionOnSet(h, D) = SumFunctionOnSet(f, Of(D)) /\ D \cup {c} \in SUBSET C
    OBVIOUS
  <2>6. SumFunctionOnSet(h, D \cup {c}) = SumFunctionOnSet(f, Of(D \cup {c}))
    <3> HIDE DEF A, Of, Good
    <3> QED
      BY <2>1, <2>2, <2>3, <2>4, <2>5
  <2> QED
    BY <2>5, <2>6
<1>5. C \in Good
  <2> HIDE DEF Good
  <2>1. Good \in SUBSET SUBSET C
    BY DEF Good
  <2> QED
    BY <1>3, <1>4, <2>1, FiniteInduction
<1>6. Of(C) = S /\ DOMAIN h = C
  OBVIOUS
<1> QED
  BY <1>5, <1>6 DEF SumFunction

\* A sum of natural numbers is no less than that of some of them.
LEMMA SumOfPart ==
  ASSUME NEW S, IsFiniteSet(S), NEW f, \A x \in S : f[x] \in Nat, NEW T \in SUBSET S
  PROVE  SumFunctionOnSet(f, T) <= SumFunctionOnSet(f, S)
<1> DEFINE R == S \ T
           h == [x \in R |-> f[x]]
<1>1. IsFiniteSet(R) /\ R \in SUBSET S /\ T \cap R = {} /\ T \cup R = S /\ IntOn(f, S)
  BY FS_Subset DEF IntOn
<1>2. SumFunctionOnSet(f, S) = SumFunctionOnSet(f, T) + SumFunctionOnSet(f, R)
  <2> HIDE DEF R
  <2> QED
    BY <1>1, SumOfDisjoint
<1>3. SumFunctionOnSet(f, R) \in Nat
  <2>1. SumFunction(h) = SumFunctionOnSet(f, R)
    BY <1>1, SumOfRestriction
  <2>2. h \in [R -> Nat]
    OBVIOUS
  <2> HIDE DEF R, h
  <2> QED
    BY <1>1, <2>1, <2>2, SumInNat
<1>4. SumFunctionOnSet(f, T) \in Int
  <2>1. IsFiniteSet(T) /\ IntOn(f, T)
    BY FS_Subset DEF IntOn
  <2> QED
    BY <2>1, SumStep
<1> HIDE DEF R, h
<1> QED
  BY <1>2, <1>3, <1>4
=============================================================================
