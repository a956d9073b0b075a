-------------------------- MODULE PciEngineProofs --------------------------
(***************************************************************************)
(* What the pavement condition index guarantees for every catalogue of     *)
(* damage types, every precision and any number of images and detections. *)
(*                                                                         *)
(* The index averages severities per type, caps the damage of each image   *)
(* and subtracts type by type; the proofs bring it back to one sum over    *)
(* the detections, and its rounding to a function that grows with its      *)
(* argument.                                                               *)
(***************************************************************************)
EXTENDS PciEngine, SumTheorems

\* Fractions with a positive denominator.
Fractions == {q \in Nat \X Nat : q[2] > 0}

-----------------------------------------------------------------------------
(***************************************************************************)
(* The sum of the deductions.                                              *)
(***************************************************************************)

\* What a fold with Plus returns on a set, given what g returns on smaller ones.
AddsUp(g, f, s) == IF s = {} THEN <<0, 1>> ELSE Plus(f[Pick(s)], g[s \ {Pick(s)}])

\* The function that the fold chooses.
Total(f, S) == CHOOSE g : g = [s \in SUBSET S |-> AddsUp(g, f, s)]

\* A fold with Plus is what that function returns.
LEMMA FoldIsTotal ==
  ASSUME NEW S, NEW f, S = DOMAIN f
  PROVE  FoldFunction(Plus, <<0, 1>>, f) = Total(f, S)[S]
  BY DEF FoldFunction, FoldFunctionOnSet, MapThenFoldSet, AddsUp, Pick, Total

\* The recursion has a solution: it is found on the sets of one element more, step by step.
LEMMA TotalExists ==
  ASSUME NEW S, IsFiniteSet(S), NEW f
  PROVE  \A s \in SUBSET S : Total(f, S)[s] = AddsUp(Total(f, S), f, s)
<1> DEFINE Solves(g, n) == \A s \in SUBSET S : Cardinality(s) <= n => g[s] = AddsUp(g, f, s)
           Bad == {n \in Nat : ~\E g : Solves(g, n)}
<1>1. \A s \in SUBSET S : IsFiniteSet(s) /\ Cardinality(s) \in Nat
  BY FS_Subset, FS_CardinalityType
<1>2. 0 \notin Bad
  <2> DEFINE g == [s \in SUBSET S |-> <<0, 1>>]
  <2>1. \A s \in SUBSET S : Cardinality(s) <= 0 => s = {}
    BY <1>1, FS_EmptySet
  <2>2. Solves(g, 0)
    BY <2>1 DEF AddsUp
  <2> QED
    BY <2>2
<1>3. ASSUME NEW n \in Nat, n \notin Bad PROVE n + 1 \notin Bad
  <2>1. PICK g : Solves(g, n)
    BY <1>3
  <2> DEFINE h == [s \in SUBSET S |-> AddsUp(g, f, s)]
  <2>2. ASSUME NEW s \in SUBSET S, Cardinality(s) <= n + 1 PROVE h[s] = AddsUp(h, f, s)
    <3>1. CASE s = {}
      BY <3>1 DEF AddsUp
    <3>2. CASE s # {}
      <4> DEFINE r == s \ {Pick(s)}
      <4>1. Pick(s) \in s /\ r \in SUBSET S
        BY <3>2, PickIsMember
      <4>2. Cardinality(r) <= n
        <5>1. Cardinality(r) \in Nat /\ Cardinality(r) < Cardinality(s)
          BY <1>1, <4>1, SmallerSet
        <5> HIDE DEF r
        <5> QED
          BY <1>1, <2>2, <5>1
      <4>3. g[r] = AddsUp(g, f, r)
        BY <2>1, <4>1, <4>2
      <4>4. h[r] = g[r]
        BY <4>1, <4>3
      <4>5. h[s] = Plus(f[Pick(s)], g[r]) /\ AddsUp(h, f, s) = Plus(f[Pick(s)], h[r])
        BY <3>2 DEF AddsUp
      <4> QED
        BY <4>4, <4>5
    <3> QED
      BY <3>1, <3>2
  <2>3. Solves(h, n + 1)
    BY <2>2
  <2> QED
    BY <2>3
<1>4. Bad = {}
  <2> SUFFICES ASSUME Bad # {} PROVE FALSE
    OBVIOUS
  <2>1. PICK n \in Bad : \A m \in Bad : n <= m
    BY LeastNumber
  <2>2. n \in Nat /\ n # 0
    BY <1>2
  <2>3. n - 1 \in Nat /\ n - 1 \notin Bad
    <3> HIDE DEF Bad
    <3> QED
      BY <2>1, <2>2
  <2>4. n - 1 + 1 = n
    BY <2>2
  <2> HIDE DEF Bad
  <2> QED
    BY <1>3, <2>3, <2>4
<1>5. PICK g : Solves(g, Cardinality(S))
  BY <1>1, <1>4
<1> DEFINE h == [s \in SUBSET S |-> g[s]]
<1>6. ASSUME NEW s \in SUBSET S PROVE h[s] = AddsUp(h, f, s)
  <2>1. Cardinality(s) <= Cardinality(S)
    BY FS_Subset
  <2>2. g[s] = AddsUp(g, f, s)
    BY <1>5, <2>1
  <2> QED
    BY <2>2 DEF AddsUp
<1>7. h = [s \in SUBSET S |-> AddsUp(h, f, s)]
  BY <1>6
<1>8. Total(f, S) = [s \in SUBSET S |-> AddsUp(Total(f, S), f, s)]
  <2> HIDE DEF h
  <2> QED
    BY <1>7 DEF Total
<1> QED
  BY <1>8

\* Adding fractions, seen through a common multiple n of their denominators.
LEMMA PlusOfFractions ==
  ASSUME NEW p \in Fractions, NEW q \in Fractions
  PROVE  /\ Plus(p, q) \in Fractions
         /\ \A n, u, v \in Nat :
               (p[1] * n = u * p[2] /\ q[1] * n = v * q[2]) =>
                  Plus(p, q)[1] * n = (u + v) * Plus(p, q)[2]
<1>1. /\ p[1] \in Nat /\ p[2] \in Nat /\ p[2] > 0
      /\ q[1] \in Nat /\ q[2] \in Nat /\ q[2] > 0
  BY DEF Fractions
<1>2. /\ p[1] * q[2] + q[1] * p[2] \in Nat
      /\ p[2] * q[2] \in Nat /\ p[2] * q[2] > 0
  BY <1>1
<1>3. Plus(p, q) \in Fractions
  BY <1>2 DEF Plus, Fractions
<1>4. ASSUME NEW n \in Nat, NEW u \in Nat, NEW v \in Nat,
             p[1] * n = u * p[2], q[1] * n = v * q[2]
      PROVE  (p[1] * q[2] + q[1] * p[2]) * n = (u + v) * (p[2] * q[2])
  <2>1. (p[1] * q[2]) * n = (p[1] * n) * q[2] /\ (q[1] * p[2]) * n = (q[1] * n) * p[2]
    BY <1>1
  <2>2. (u * p[2]) * q[2] = u * (p[2] * q[2]) /\ (v * q[2]) * p[2] = v * (p[2] * q[2])
    BY <1>1
  <2>3. (p[1] * q[2] + q[1] * p[2]) * n = (p[1] * q[2]) * n + (q[1] * p[2]) * n
    BY <1>1
  <2>4. (u + v) * (p[2] * q[2]) = u * (p[2] * q[2]) + v * (p[2] * q[2])
    BY <1>1
  <2> QED
    BY <1>4, <2>1, <2>2, <2>3, <2>4
<1> QED
  BY <1>3, <1>4 DEF Plus

\* A sum of fractions is a fraction; if n times each of them is whole, n times the sum is
\* what those add up to.
LEMMA FoldOfFractions ==
  ASSUME NEW S, IsFiniteSet(S), NEW f \in [S -> Fractions]
  PROVE  /\ FoldFunction(Plus, <<0, 1>>, f) \in Fractions
         /\ \A n \in Nat : \A v \in [S -> Nat] :
               (\A x \in S : f[x][1] * n = v[x] * f[x][2]) =>
                  FoldFunction(Plus, <<0, 1>>, f)[1] * n
                    = SumFunction(v) * FoldFunction(Plus, <<0, 1>>, f)[2]
<1> DEFINE g == Total(f, S)
<1>1. FoldFunction(Plus, <<0, 1>>, f) = g[S]
  BY FoldIsTotal
<1>2. \A s \in SUBSET S : g[s] = AddsUp(g, f, s)
  BY TotalExists
<1>3. ASSUME NEW n \in Nat, NEW v \in [S -> Nat],
             \A x \in S : f[x][1] * n = v[x] * f[x][2]
      PROVE  g[S] \in Fractions /\ g[S][1] * n = SumFunction(v) * g[S][2]
  <2> DEFINE Fine(s) == /\ g[s] \in Fractions
                        /\ g[s][1] * n = SumFunctionOnSet(v, s) * g[s][2]
             Bad == {m \in Nat : \E s \in SUBSET S : ~Fine(s) /\ Cardinality(s) = m}
  <2>1. \A s \in SUBSET S : IsFiniteSet(s) /\ Cardinality(s) \in Nat
    BY FS_Subset, FS_CardinalityType
  <2>2. \A s \in SUBSET S : SumFunctionOnSet(v, s) \in Nat
    <3> SUFFICES ASSUME NEW s \in SUBSET S PROVE SumFunctionOnSet(v, s) \in Nat
      OBVIOUS
    <3>1. [x \in s |-> v[x]] \in [s -> Nat] /\ IntOn(v, S)
      BY DEF IntOn
    <3>2. SumFunction([x \in s |-> v[x]]) \in Nat
      BY <2>1, <3>1, SumInNat
    <3> QED
      BY <3>1, <3>2, SumOfRestriction
  <2>3. ASSUME Bad # {} PROVE FALSE
    <3>1. PICK m \in Bad : \A k \in Bad : m <= k
      BY <2>3, LeastNumber
    <3>2. PICK s \in SUBSET S : ~Fine(s) /\ Cardinality(s) = m
      OBVIOUS
    <3>3. CASE s = {}
      <4>1. g[s] = <<0, 1>>
        BY <1>2, <3>3 DEF AddsUp
      <4>2. SumFunctionOnSet(v, s) = 0
        BY <3>3, SumOfEmpty
      <4>3. <<0, 1>> \in Fractions
        BY DEF Fractions
      <4> QED
        BY <3>2, <4>1, <4>2, <4>3
    <3>4. CASE s # {}
      <4> DEFINE x == Pick(s)
                 r == s \ {x}
      <4>1. x \in s /\ SumFunctionOnSet(v, s) = v[x] + SumFunctionOnSet(v, r)
        BY <2>1, <3>4, SumByPick
      <4>2. Cardinality(r) \in Nat /\ Cardinality(r) < m
        BY <2>1, <3>2, <4>1, SmallerSet
      <4>3. Cardinality(r) \notin Bad
        <5>1. m \in Nat
          OBVIOUS
        <5> HIDE DEF Bad, r
        <5> QED
          BY <3>1, <4>2, <5>1
      <4>4. r \in SUBSET S
        OBVIOUS
      <4>5. Fine(r)
        BY <4>2, <4>3, <4>4
      <4>6. g[s] = Plus(f[x], g[r])
        BY <1>2, <3>4 DEF AddsUp
      <4>7. /\ f[x] \in Fractions /\ f[x][1] * n = v[x] * f[x][2] /\ v[x] \in Nat
            /\ SumFunctionOnSet(v, r) \in Nat
        BY <1>3, <2>2, <4>1, <4>4
      <4>8. Fine(s)
        <5> HIDE DEF g, r, x
        <5> QED
          BY <4>1, <4>5, <4>6, <4>7, PlusOfFractions
      <4> QED
        BY <3>2, <4>8
    <3> QED
      BY <3>3, <3>4
  <2>4. Fine(S)
    BY <2>1, <2>3
  <2>5. DOMAIN v = S
    OBVIOUS
  <2> QED
    BY <2>4, <2>5 DEF SumFunction
<1>4. g[S] \in Fractions
  <2>1. [x \in S |-> 0] \in [S -> Nat]
    OBVIOUS
  <2>2. \A x \in S : f[x][1] * 0 = [y \in S |-> 0][x] * f[x][2]
    <3> SUFFICES ASSUME NEW x \in S PROVE f[x][1] * 0 = 0 * f[x][2]
      OBVIOUS
    <3> f[x][1] \in Nat /\ f[x][2] \in Nat
      BY DEF Fractions
    <3> QED
      OBVIOUS
  <2> HIDE DEF g
  <2> QED
    BY <1>3, <2>1, <2>2
<1> HIDE DEF g
<1> QED
  BY <1>1, <1>3, <1>4

-----------------------------------------------------------------------------
(***************************************************************************)
(* The detections as indexed rows.                                         *)
(***************************************************************************)

\* Their areas, and what each of them takes by the formula of the CDC.
Area(ds) == [k \in DOMAIN ds |-> ds[k].area]
Damage(ds) == [k \in DOMAIN ds |-> Weight[ds[k].code] * (ds[k].severity * ds[k].area)]

\* The detections of a type on an image.
Here(ds, c, i) == {k \in OfType(ds, c) : ds[k].image = i}

\* Ranges of detections.
LEMMA Rows ==
  ASSUME NEW ds \in Seq(DetectionInput)
  PROVE  /\ Len(ds) \in Nat /\ DOMAIN ds = 1..Len(ds) /\ IsFiniteSet(DOMAIN ds)
         /\ \A k \in DOMAIN ds :
               /\ ds[k] \in DetectionInput /\ ds[k].code \in DOMAIN Weight
               /\ ds[k].image \in 1..Images
               /\ ds[k].area \in Nat /\ ds[k].severity \in Nat
               /\ Weight[ds[k].code] \in Nat
<1>1. Len(ds) \in Nat /\ DOMAIN ds = 1..Len(ds)
  OBVIOUS
<1>2. IsFiniteSet(DOMAIN ds)
  BY <1>1, FS_Interval
<1>3. ASSUME NEW k \in DOMAIN ds
      PROVE  /\ ds[k] \in DetectionInput /\ ds[k].code \in DOMAIN Weight
             /\ ds[k].image \in 1..Images
             /\ ds[k].area \in Nat /\ ds[k].severity \in Nat
             /\ Weight[ds[k].code] \in Nat
  <2>1. ds[k] \in DetectionInput
    OBVIOUS
  <2>2. /\ ds[k].code \in DOMAIN Weight /\ ds[k].image \in 1..Images
        /\ ds[k].area \in 0..Unit /\ ds[k].severity \in 0..Unit
    BY <2>1 DEF DetectionInput
  <2>3. Unit \in Nat /\ Weight[ds[k].code] \in 0..100
    BY <2>2, PciAssumption
  <2>4. 0..Unit \subseteq Nat /\ 0..100 \subseteq Nat
    BY <2>3
  <2> QED
    BY <2>1, <2>2, <2>3, <2>4, Zenon
<1> QED
  BY <1>1, <1>2, <1>3

\* The sums over rows are sums of natural numbers.
LEMMA RowSums ==
  ASSUME NEW ds \in Seq(DetectionInput)
  PROVE  /\ IntOn(Area(ds), DOMAIN ds) /\ IntOn(Damage(ds), DOMAIN ds)
         /\ \A P \in SUBSET DOMAIN ds :
               /\ AreaOf(ds, P) = SumFunctionOnSet(Area(ds), P)
               /\ AreaOf(ds, P) \in Nat /\ SeverityOf(ds, P) \in Nat /\ WeightedOf(ds, P) \in Nat
               /\ \A k \in P : ds[k].area <= AreaOf(ds, P)
         /\ DamageOf(ds) = SumFunctionOnSet(Damage(ds), DOMAIN ds)
         /\ DamageOf(ds) \in Nat
<1>1. IsFiniteSet(DOMAIN ds)
  BY Rows
<1>2. \A k \in DOMAIN ds : /\ ds[k].area \in Nat /\ ds[k].severity \in Nat
                           /\ Weight[ds[k].code] \in Nat
  BY Rows
<1>3. \A u, v \in Nat : u * v \in Nat
  OBVIOUS
<1>4. IntOn(Area(ds), DOMAIN ds)
  BY <1>2 DEF IntOn, Area
<1>5. Damage(ds) \in [DOMAIN ds -> Nat]
  BY <1>2, <1>3 DEF Damage
<1>6. IntOn(Damage(ds), DOMAIN ds)
  BY <1>5 DEF IntOn
<1>7. ASSUME NEW P \in SUBSET DOMAIN ds
      PROVE  /\ AreaOf(ds, P) = SumFunctionOnSet(Area(ds), P)
             /\ AreaOf(ds, P) \in Nat /\ SeverityOf(ds, P) \in Nat /\ WeightedOf(ds, P) \in Nat
             /\ \A k \in P : ds[k].area <= AreaOf(ds, P)
  <2> DEFINE a == [k \in P |-> ds[k].area]
             s == [k \in P |-> ds[k].severity]
             w == [k \in P |-> ds[k].severity * ds[k].area]
  <2>1. IsFiniteSet(P)
    BY <1>1, FS_Subset
  <2>2. a \in [P -> Nat] /\ s \in [P -> Nat] /\ w \in [P -> Nat]
    BY <1>2, <1>3
  <2>3. a = [k \in P |-> Area(ds)[k]] /\ \A k \in P : a[k] = ds[k].area
    BY DEF Area
  <2>4. /\ SumFunction(a) \in Nat /\ SumFunction(s) \in Nat /\ SumFunction(w) \in Nat
        /\ \A k \in P : a[k] <= SumFunction(a)
    <3> HIDE DEF a, s, w
    <3> QED
      BY <2>1, <2>2, SumInNat
  <2>5. SumFunction(a) = SumFunctionOnSet(Area(ds), P)
    <3> HIDE DEF a
    <3> QED
      BY <1>1, <1>4, <2>3, SumOfRestriction
  <2>6. AreaOf(ds, P) = SumFunction(a) /\ SeverityOf(ds, P) = SumFunction(s)
        /\ WeightedOf(ds, P) = SumFunction(w)
    BY DEF AreaOf, SeverityOf, WeightedOf
  <2> HIDE DEF a, s, w
  <2> QED
    BY <2>3, <2>4, <2>5, <2>6
<1>8. DamageOf(ds) = SumFunction(Damage(ds)) /\ DOMAIN Damage(ds) = DOMAIN ds
  BY DEF DamageOf, Damage
<1>9. SumFunction(Damage(ds)) \in Nat
  BY <1>1, <1>5, SumInNat
<1> QED
  BY <1>4, <1>6, <1>7, <1>8, <1>9 DEF SumFunction

-----------------------------------------------------------------------------
(***************************************************************************)
(* The cap on the damage of an image.                                      *)
(***************************************************************************)

\* The detections of a type on an image among the first k.
Seen(ds, c, i, k) == {j \in 1..k : ds[j].code = c /\ ds[j].image = i}

\* The recursion of PerImage.
CoversUpTo(g, ds, c, i, k) ==
    IF k = 0 THEN 0
    ELSE IF ds[k].code = c /\ ds[k].image = i
         THEN Least(Unit, g[k - 1] + ds[k].area)
         ELSE g[k - 1]

\* Capping after every detection is capping their sum: a solution of the recursion.
LEMMA CappedSums ==
  ASSUME NEW ds \in Seq(DetectionInput), NEW c, NEW i, NEW g,
         g = [k \in 0..Len(ds) |-> Least(Unit, AreaOf(ds, Seen(ds, c, i, k)))]
  PROVE  \A k \in 0..Len(ds) : g[k] = CoversUpTo(g, ds, c, i, k)
<1> SUFFICES ASSUME NEW k \in 0..Len(ds) PROVE g[k] = CoversUpTo(g, ds, c, i, k)
  OBVIOUS
<1> DEFINE S(m) == Seen(ds, c, i, m)
           A(m) == AreaOf(ds, S(m))
<1>1. /\ Len(ds) \in Nat /\ DOMAIN ds = 1..Len(ds) /\ IsFiniteSet(DOMAIN ds)
      /\ Unit \in Nat
  BY Rows, PciAssumption
<1>2. g[k] = Least(Unit, A(k))
  OBVIOUS
<1>3. CASE k = 0
  <2>1. S(k) = {}
    BY <1>3 DEF Seen
  <2>2. A(k) = 0
    BY <2>1, RowSums, SumOfEmpty
  <2>3. Least(Unit, 0) = 0
    BY <1>1 DEF Least
  <2> HIDE DEF A
  <2> QED
    BY <1>2, <1>3, <2>2, <2>3 DEF CoversUpTo
<1>4. CASE k # 0
  <2>1. k - 1 \in 0..Len(ds) /\ k \in DOMAIN ds
    BY <1>1, <1>4
  <2>2. S(k) \in SUBSET DOMAIN ds /\ S(k - 1) \in SUBSET DOMAIN ds
    BY <1>1 DEF Seen
  <2>3. A(k - 1) \in Nat /\ A(k - 1) = SumFunctionOnSet(Area(ds), S(k - 1))
        /\ A(k) = SumFunctionOnSet(Area(ds), S(k))
    BY <2>2, RowSums
  <2>4. g[k - 1] = Least(Unit, A(k - 1))
    BY <2>1
  <2>5. CASE ds[k].code = c /\ ds[k].image = i
    <3>1. S(k) = S(k - 1) \cup {k} /\ k \in DOMAIN ds \ S(k - 1)
      BY <1>1, <2>1, <2>5 DEF Seen
    <3>2. SumFunctionOnSet(Area(ds), S(k)) = Area(ds)[k] + SumFunctionOnSet(Area(ds), S(k - 1))
      <4> HIDE DEF S
      <4> QED
        BY <1>1, <2>2, <3>1, RowSums, SumOfMore
    <3>3. Area(ds)[k] = ds[k].area /\ ds[k].area \in Nat
      BY <2>1, Rows DEF Area
    <3>4. A(k) = ds[k].area + A(k - 1)
      BY <2>3, <3>2, <3>3
    <3>5. Least(Unit, ds[k].area + A(k - 1)) = Least(Unit, Least(Unit, A(k - 1)) + ds[k].area)
      <4> HIDE DEF A
      <4> QED
        BY <1>1, <2>3, <3>3 DEF Least
    <3> HIDE DEF A
    <3> QED
      BY <1>2, <1>4, <2>4, <2>5, <3>4, <3>5 DEF CoversUpTo
  <2>6. CASE ~(ds[k].code = c /\ ds[k].image = i)
    <3>1. S(k) = S(k - 1)
      BY <1>1, <2>1, <2>6 DEF Seen
    <3> QED
      BY <1>2, <1>4, <2>4, <2>6, <3>1 DEF CoversUpTo
  <2> QED
    BY <2>5, <2>6
<1> QED
  BY <1>3, <1>4

\* The damage of an image is that of its detections, or all of it.
LEMMA DamageOfImage ==
  ASSUME NEW ds \in Seq(DetectionInput), NEW c, NEW i
  PROVE  PerImage(ds, c, i)[Len(ds)] = Least(Unit, AreaOf(ds, Here(ds, c, i)))
<1> DEFINE p == PerImage(ds, c, i)
<1>1. Len(ds) \in Nat /\ DOMAIN ds = 1..Len(ds)
  BY Rows
<1>2. PICK g : g = [k \in 0..Len(ds) |-> Least(Unit, AreaOf(ds, Seen(ds, c, i, k)))]
  OBVIOUS
<1>3. \A k \in 0..Len(ds) : g[k] = CoversUpTo(g, ds, c, i, k)
  BY <1>2, CappedSums
<1>4. g = [k \in 0..Len(ds) |-> CoversUpTo(g, ds, c, i, k)]
  BY <1>2, <1>3
<1>5. p = CHOOSE h : h = [k \in 0..Len(ds) |-> CoversUpTo(h, ds, c, i, k)]
  BY DEF PerImage, CoversUpTo
<1>6. p = [k \in 0..Len(ds) |-> CoversUpTo(p, ds, c, i, k)]
  <2> HIDE DEF p
  <2> QED
    BY <1>4, <1>5
<1> DEFINE Bad == {k \in 0..Len(ds) : p[k] # g[k]}
<1>7. ASSUME Bad # {} PROVE FALSE
  <2>1. PICK k \in Bad : \A m \in Bad : k <= m
    <3>1. Bad \in SUBSET Nat
      BY <1>1
    <3> HIDE DEF Bad
    <3> QED
      BY <1>7, <3>1, LeastNumber
  <2>2. k \in 0..Len(ds) /\ p[k] # g[k]
    OBVIOUS
  <2>3. p[k] = CoversUpTo(p, ds, c, i, k) /\ g[k] = CoversUpTo(g, ds, c, i, k)
    <3> HIDE DEF p
    <3> QED
      BY <1>3, <1>6, <2>2
  <2>4. k # 0
    BY <2>2, <2>3 DEF CoversUpTo
  <2>5. k - 1 \in 0..Len(ds) /\ k - 1 \notin Bad
    <3>1. k - 1 \in 0..Len(ds) /\ ~(k <= k - 1)
      BY <1>1, <2>2, <2>4
    <3> HIDE DEF Bad
    <3> QED
      BY <2>1, <3>1
  <2>6. p[k - 1] = g[k - 1]
    BY <2>5
  <2> HIDE DEF p
  <2> QED
    BY <2>2, <2>3, <2>6 DEF CoversUpTo
<1>8. Len(ds) \in 0..Len(ds)
  BY <1>1
<1>9. p[Len(ds)] = g[Len(ds)]
  BY <1>7, <1>8
<1>10. Seen(ds, c, i, Len(ds)) = Here(ds, c, i)
  BY <1>1 DEF Seen, Here, OfType
<1> HIDE DEF p
<1> QED
  BY <1>2, <1>8, <1>9, <1>10 DEF p

-----------------------------------------------------------------------------
(***************************************************************************)
(* The deduction of a type.                                                *)
(***************************************************************************)

\* The damage that the density averages; as long as no image is saturated, the area of
\* the detections of the type.
LEMMA DamageOfType ==
  ASSUME NEW ds \in Seq(DetectionInput), NEW c \in DOMAIN Weight
  PROVE  /\ Density(ds, c)[1] \in Nat /\ Density(ds, c)[2] = Images
         /\ Unsaturated(ds) => Density(ds, c)[1] = AreaOf(ds, OfType(ds, c))
<1> DEFINE d == [i \in 1..Images |-> PerImage(ds, c, i)[Len(ds)]]
           typed == OfType(ds, c)
           image == [k \in DOMAIN ds |-> ds[k].image]
<1>1. Density(ds, c) = <<SumFunction(d), Images>>
  BY DEF Density
<1>2. Images \in Nat /\ Unit \in Nat /\ IsFiniteSet(1..Images)
  BY PciAssumption, FS_Interval
<1>3. /\ IsFiniteSet(DOMAIN ds) /\ typed \in SUBSET DOMAIN ds
      /\ \A i \in 1..Images : Here(ds, c, i) \in SUBSET DOMAIN ds
      /\ IsFiniteSet(typed)
  <2>1. typed \in SUBSET DOMAIN ds /\ \A i \in 1..Images : Here(ds, c, i) \in SUBSET DOMAIN ds
    BY DEF OfType, Here
  <2> QED
    BY <2>1, Rows, FS_Subset
<1>4. \A i \in 1..Images : d[i] = Least(Unit, AreaOf(ds, Here(ds, c, i)))
  BY DamageOfImage
<1>5. \A i \in 1..Images : AreaOf(ds, Here(ds, c, i)) \in Nat
  BY <1>3, RowSums
<1>6. d \in [1..Images -> Nat]
  <2>1. \A i \in 1..Images : d[i] \in Nat
    <3> HIDE DEF d
    <3> QED
      BY <1>2, <1>4, <1>5 DEF Least
  <2> QED
    BY <2>1
<1>7. SumFunction(d) \in Nat
  <2> HIDE DEF d
  <2> QED
    BY <1>2, <1>6, SumInNat
<1>8. ASSUME Unsaturated(ds) PROVE SumFunction(d) = AreaOf(ds, typed)
  <2>1. \A i \in 1..Images : d[i] = AreaOf(ds, Here(ds, c, i))
    <3> SUFFICES ASSUME NEW i \in 1..Images PROVE d[i] = AreaOf(ds, Here(ds, c, i))
      OBVIOUS
    <3>1. AreaOf(ds, Here(ds, c, i)) <= Unit
      BY <1>8 DEF Unsaturated, Here
    <3> HIDE DEF d
    <3> QED
      BY <1>2, <1>4, <1>5, <3>1 DEF Least
  <2>2. \A i \in 1..Images : d[i] = SumFunctionOnSet(Area(ds), {k \in typed : image[k] = i})
    <3> SUFFICES ASSUME NEW i \in 1..Images
                 PROVE  d[i] = SumFunctionOnSet(Area(ds), {k \in typed : image[k] = i})
      OBVIOUS
    <3>1. {k \in typed : image[k] = i} = Here(ds, c, i)
      BY <1>3 DEF Here
    <3>2. AreaOf(ds, Here(ds, c, i)) = SumFunctionOnSet(Area(ds), Here(ds, c, i))
      BY <1>3, RowSums
    <3> HIDE DEF d, typed, image
    <3> QED
      BY <2>1, <3>1, <3>2
  <2>3. d = [i \in 1..Images |-> SumFunctionOnSet(Area(ds), {k \in typed : image[k] = i})]
    <3>1. d = [i \in 1..Images |-> d[i]]
      OBVIOUS
    <3> HIDE DEF d, typed, image
    <3> QED
      BY <2>2, <3>1
  <2>4. \A k \in typed : image[k] \in 1..Images
    BY <1>3, Rows
  <2>5. IntOn(Area(ds), typed)
    BY <1>3, RowSums DEF IntOn
  <2>6. SumFunction(d) = SumFunctionOnSet(Area(ds), typed)
    <3> HIDE DEF d, typed, image
    <3>1. ASSUME NEW C, IsFiniteSet(C), \A k \in typed : image[k] \in C,
                 d = [i \in C |-> SumFunctionOnSet(Area(ds), {k \in typed : image[k] = i})]
          PROVE  SumFunction(d) = SumFunctionOnSet(Area(ds), typed)
      BY <1>3, <2>5, <3>1, SumByKey
    <3> QED
      BY <1>2, <2>3, <2>4, <3>1
  <2> HIDE DEF d, typed
  <2> QED
    BY <1>3, <2>6, RowSums
<1> HIDE DEF d
<1> QED
  BY <1>1, <1>7, <1>8

\* What a type takes: a fraction, and as long as no image is saturated the weight times
\* the sum of severity times area, averaged over the images.
LEMMA DeductionOfType ==
  ASSUME NEW ds \in Seq(DetectionInput), NEW c \in Codes(ds)
  PROVE  /\ c \in DOMAIN Weight /\ Weight[c] \in Nat
         /\ WeightedOf(ds, OfType(ds, c)) \in Nat
         /\ Deduction(ds, c) \in Fractions
         /\ Unsaturated(ds) =>
               Deduction(ds, c)[1] * Images
                 = (Weight[c] * WeightedOf(ds, OfType(ds, c))) * Deduction(ds, c)[2]
<1> DEFINE typed == OfType(ds, c)
           A == AreaOf(ds, typed)
           S == SeverityOf(ds, typed)
           V == WeightedOf(ds, typed)
           n == Cardinality(typed)
           E == Density(ds, c)[1]
           W == Weight[c]
<1>1. PICK k \in DOMAIN ds : ds[k].code = c
  BY DEF Codes
<1>2. c \in DOMAIN Weight /\ W \in Nat
  BY <1>1, Rows
<1>3. typed \in SUBSET DOMAIN ds /\ k \in typed
  BY <1>1 DEF OfType
<1>4. n \in Nat /\ n > 0
  <2>1. IsFiniteSet(typed)
    BY <1>3, Rows, FS_Subset
  <2>2. n \in Nat /\ n # 0
    BY <1>3, <2>1, FS_CardinalityType, FS_EmptySet
  <2> QED
    BY <2>2
<1>5. A \in Nat /\ S \in Nat /\ V \in Nat /\ \A j \in typed : ds[j].area <= A
  BY <1>3, RowSums
<1>6. /\ E \in Nat /\ Density(ds, c)[2] = Images
      /\ Unsaturated(ds) => E = A
  BY <1>2, DamageOfType
<1>7. Images \in Nat /\ Images > 0
  BY PciAssumption
<1>8. \A u, v \in Nat : u * v \in Nat /\ (u > 0 /\ v > 0 => u * v > 0)
  OBVIOUS
<1>9. CASE A > 0
  <2>1. Deduction(ds, c) = <<(W * V) * E, A * Images>>
    BY <1>6, <1>9 DEF Deduction, MeanSeverity
  <2>2. (W * V) * E \in Nat /\ A * Images \in Nat /\ A * Images > 0
    <3> HIDE DEF A, V, E, W
    <3> QED
      BY <1>2, <1>5, <1>6, <1>7, <1>8, <1>9
  <2>3. Deduction(ds, c) \in Fractions
    <3> HIDE DEF A, V, E, W
    <3> QED
      BY <2>1, <2>2 DEF Fractions
  <2>4. ((W * V) * A) * Images = (W * V) * (A * Images)
    <3>1. \A u, v, w \in Nat : (u * v) * w = u * (v * w)
      OBVIOUS
    <3> HIDE DEF A, V, W
    <3> QED
      BY <1>2, <1>5, <1>7, <1>8, <3>1
  <2> HIDE DEF A, V, E, W
  <2> QED
    BY <1>2, <1>5, <1>6, <2>1, <2>3, <2>4 DEF W, V
<1>10. CASE ~(A > 0)
  <2>1. Deduction(ds, c) = <<(W * S) * E, n * Images>>
    BY <1>6, <1>10 DEF Deduction, MeanSeverity
  <2>2. (W * S) * E \in Nat /\ n * Images \in Nat /\ n * Images > 0
    <3> HIDE DEF S, E, W, n
    <3> QED
      BY <1>2, <1>4, <1>5, <1>6, <1>7, <1>8
  <2>3. Deduction(ds, c) \in Fractions
    <3> HIDE DEF S, E, W, n
    <3> QED
      BY <2>1, <2>2 DEF Fractions
  <2>4. A = 0
    <3> HIDE DEF A
    <3> QED
      BY <1>5, <1>10
  <2>5. V = 0
    <3>1. \A j \in typed : ds[j].area = 0 /\ ds[j].severity \in Nat
      <4> SUFFICES ASSUME NEW j \in typed PROVE ds[j].area = 0 /\ ds[j].severity \in Nat
        OBVIOUS
      <4>1. ds[j].area \in Nat /\ ds[j].severity \in Nat /\ ds[j].area <= A
        BY <1>3, <1>5, Rows
      <4> HIDE DEF A
      <4> QED
        BY <2>4, <4>1
    <3> DEFINE w == [j \in typed |-> ds[j].severity * ds[j].area]
    <3>2. w \in [typed -> Int] /\ \A j \in typed : w[j] = 0
      BY <3>1
    <3>3. IsFiniteSet(typed)
      BY <1>3, Rows, FS_Subset
    <3>4. IntOn(w, typed)
      BY <3>2 DEF IntOn
    <3>5. SumFunctionOnSet(w, typed) = 0
      <4> HIDE DEF w, typed
      <4>1. \A j \in typed : w[j] = 0 * w[j]
        BY <3>2
      <4>2. SumFunctionOnSet(w, typed) = 0 * SumFunctionOnSet(w, typed)
        BY <3>3, <3>4, <4>1, SumScaled
      <4>3. SumFunctionOnSet(w, typed) \in Int
        BY <3>3, <3>4, SumStep
      <4> QED
        BY <4>2, <4>3
    <3>6. V = SumFunctionOnSet(w, typed)
      BY DEF WeightedOf, SumFunction
    <3> HIDE DEF V, w
    <3> QED
      BY <3>5, <3>6
  <2>6. Unsaturated(ds) => ((W * S) * E) * Images = (W * V) * (n * Images)
    <3> HIDE DEF A, S, V, E, W, n
    <3>1. W * V = 0 /\ 0 * (n * Images) = 0
      BY <1>2, <2>2, <2>5
    <3>2. E = 0 => (W * S) * E = 0
      BY <1>2, <1>5, <1>8
    <3>3. 0 * Images = 0
      BY <1>7
    <3> QED
      BY <1>6, <2>4, <3>1, <3>2, <3>3
  <2> HIDE DEF A, S, V, E, W, n
  <2> QED
    BY <1>2, <1>5, <2>1, <2>3, <2>6 DEF W, V
<1> QED
  BY <1>9, <1>10

-----------------------------------------------------------------------------
(***************************************************************************)
(* The sum over the types is a sum over the detections.                    *)
(***************************************************************************)

\* By type, the damage is the weight of the type times the sum of severity times area.
LEMMA DamageByType ==
  ASSUME NEW ds \in Seq(DetectionInput)
  PROVE  /\ IsFiniteSet(Codes(ds))
         /\ SumFunction([c \in Codes(ds) |-> Weight[c] * WeightedOf(ds, OfType(ds, c))])
              = DamageOf(ds)
<1> DEFINE code == [k \in DOMAIN ds |-> ds[k].code]
           v == [c \in Codes(ds) |-> Weight[c] * WeightedOf(ds, OfType(ds, c))]
<1>1. IsFiniteSet(DOMAIN ds) /\ IntOn(Damage(ds), DOMAIN ds)
  BY Rows, RowSums
<1>2. Codes(ds) = {code[k] : k \in DOMAIN ds}
  BY DEF Codes
<1>3. IsFiniteSet(Codes(ds))
  <2> HIDE DEF code
  <2> QED
    BY <1>1, <1>2, FiniteImage
<1>4. ASSUME NEW c \in Codes(ds)
      PROVE  v[c] = SumFunctionOnSet(Damage(ds), {k \in DOMAIN ds : code[k] = c})
  <2> DEFINE typed == OfType(ds, c)
             w == [k \in typed |-> ds[k].severity * ds[k].area]
  <2>1. {k \in DOMAIN ds : code[k] = c} = typed
    BY DEF OfType
  <2>2. typed \in SUBSET DOMAIN ds /\ IsFiniteSet(typed) /\ Weight[c] \in Int
    <3>1. typed \in SUBSET DOMAIN ds
      BY DEF OfType
    <3> QED
      BY <1>1, <3>1, DeductionOfType, FS_Subset
  <2>3. \A k \in typed : Damage(ds)[k] = Weight[c] * w[k] /\ w[k] \in Int
    <3> SUFFICES ASSUME NEW k \in typed
                 PROVE  Damage(ds)[k] = Weight[c] * w[k] /\ w[k] \in Int
      OBVIOUS
    <3>1. k \in DOMAIN ds /\ ds[k].code = c
      BY DEF OfType
    <3>2. ds[k].severity \in Nat /\ ds[k].area \in Nat
      BY <3>1, Rows
    <3>3. w[k] = ds[k].severity * ds[k].area
      OBVIOUS
    <3>4. Damage(ds)[k] = Weight[c] * (ds[k].severity * ds[k].area)
      BY <3>1 DEF Damage
    <3>5. ds[k].severity * ds[k].area \in Int
      BY <3>2
    <3> HIDE DEF w, typed
    <3> QED
      BY <3>3, <3>4, <3>5
  <2>4. IntOn(w, typed) /\ IntOn(Damage(ds), typed)
    BY <1>1, <2>2, <2>3 DEF IntOn
  <2>5. SumFunctionOnSet(Damage(ds), typed) = Weight[c] * SumFunctionOnSet(w, typed)
    <3> HIDE DEF w, typed
    <3> DEFINE a == Weight[c]
               g == Damage(ds)
    <3>1. /\ IsFiniteSet(typed) /\ IntOn(g, typed) /\ IntOn(w, typed) /\ a \in Int
          /\ \A k \in typed : g[k] = a * w[k]
      BY <2>2, <2>3, <2>4
    <3> HIDE DEF a, g
    <3>2. SumFunctionOnSet(g, typed) = a * SumFunctionOnSet(w, typed)
      BY <3>1, SumScaled
    <3> QED
      BY <3>2 DEF a, g
  <2>6. WeightedOf(ds, typed) = SumFunctionOnSet(w, typed)
    BY DEF WeightedOf, SumFunction
  <2>7. v[c] = Weight[c] * WeightedOf(ds, typed)
    OBVIOUS
  <2> HIDE DEF v, w, typed, code
  <2> QED
    BY <2>1, <2>5, <2>6, <2>7
<1>5. v = [c \in Codes(ds) |-> SumFunctionOnSet(Damage(ds), {k \in DOMAIN ds : code[k] = c})]
  <2>1. v = [c \in Codes(ds) |-> v[c]]
    OBVIOUS
  <2> HIDE DEF v, code
  <2> QED
    BY <1>4, <2>1
<1>6. \A k \in DOMAIN ds : code[k] \in Codes(ds)
  BY DEF Codes
<1>7. SumFunction(v) = SumFunctionOnSet(Damage(ds), DOMAIN ds)
  <2> HIDE DEF v, code
  <2> QED
    BY <1>1, <1>3, <1>5, <1>6, SumByKey
<1>8. DamageOf(ds) = SumFunctionOnSet(Damage(ds), DOMAIN ds)
  BY RowSums
<1> HIDE DEF v
<1> QED
  BY <1>3, <1>7, <1>8 DEF v

\* The points that all types take are a fraction, and those of the formula of the CDC as
\* long as no image is saturated.
LEMMA TotalOfTypes ==
  ASSUME NEW ds \in Seq(DetectionInput)
  PROVE  /\ TotalDeduction(ds) \in Fractions
         /\ Unsaturated(ds) =>
               TotalDeduction(ds)[1] * Images = DamageOf(ds) * TotalDeduction(ds)[2]
<1> DEFINE f == [c \in Codes(ds) |-> Deduction(ds, c)]
           v == [c \in Codes(ds) |-> Weight[c] * WeightedOf(ds, OfType(ds, c))]
<1>1. IsFiniteSet(Codes(ds)) /\ SumFunction(v) = DamageOf(ds)
  BY DamageByType
<1>2. f \in [Codes(ds) -> Fractions]
  BY DeductionOfType
<1>3. v \in [Codes(ds) -> Nat]
  <2>1. \A a, b \in Nat : a * b \in Nat
    OBVIOUS
  <2> QED
    BY <2>1, DeductionOfType
<1>4. Unsaturated(ds) => \A c \in Codes(ds) : f[c][1] * Images = v[c] * f[c][2]
  BY DeductionOfType
<1>5. TotalDeduction(ds) = FoldFunction(Plus, <<0, 1>>, f)
  BY DEF TotalDeduction
<1>6. Images \in Nat
  BY PciAssumption
<1> HIDE DEF f, v
<1>7. /\ TotalDeduction(ds) \in Fractions
      /\ \A n \in Nat : \A u \in [Codes(ds) -> Nat] :
            (\A c \in Codes(ds) : f[c][1] * n = u[c] * f[c][2]) =>
               TotalDeduction(ds)[1] * n = SumFunction(u) * TotalDeduction(ds)[2]
  BY <1>1, <1>2, <1>5, FoldOfFractions
<1> QED
  BY <1>1, <1>3, <1>4, <1>6, <1>7

-----------------------------------------------------------------------------
(***************************************************************************)
(* Rounding and classes.                                                   *)
(***************************************************************************)

\* Division of natural numbers.
LEMMA Division ==
  \A a \in Nat : \A b \in Nat \ {0} :
     /\ a \div b \in Nat /\ a % b \in Nat /\ a % b < b
     /\ a = b * (a \div b) + (a % b)
  OBVIOUS

\* r is a hundred times n / d, to the nearest natural number.
Nearest(r, n, d) == 2 * (d * r) <= 200 * n + d /\ 200 * n + d < 2 * (d * r) + 2 * d

\* Round2 rounds to the nearest hundredth.
LEMMA Round2IsNearest ==
  ASSUME NEW q \in Fractions
  PROVE  Round2(q) \in Nat /\ Nearest(Round2(q), q[1], q[2])
<1> DEFINE n == q[1]
           d == q[2]
           a == n \div d
           r == n % d
           b == (200 * r + d) \div (2 * d)
           s == (200 * r + d) % (2 * d)
<1>1. n \in Nat /\ d \in Nat \ {0}
  BY DEF Fractions
<1>2. a \in Nat /\ r \in Nat /\ r < d /\ n = d * a + r
  BY <1>1, Division
<1>3. 200 * r + d \in Nat /\ 2 * d \in Nat \ {0}
  <2> HIDE DEF r, d
  <2> QED
    BY <1>1, <1>2
<1>4. b \in Nat /\ s \in Nat /\ s < 2 * d /\ 200 * r + d = (2 * d) * b + s
  <2> HIDE DEF r, d
  <2> QED
    BY <1>3, Division
<1>5. Round2(q) = 100 * a + b
  BY DEF Round2
<1>6. d * (100 * a + b) = 100 * (d * a) + d * b /\ (2 * d) * b = 2 * (d * b)
      /\ d * a \in Int /\ d * b \in Int
  <2> HIDE DEF a, b, d
  <2> QED
    BY <1>1, <1>2, <1>4
<1>7. Nearest(100 * a + b, n, d)
  <2> HIDE DEF a, b, d, n, r, s
  <2>1. \A da, db \in Int :
           (n = da + r /\ 200 * r + d = 2 * db + s) =>
              /\ 2 * (100 * da + db) <= 200 * n + d
              /\ 200 * n + d < 2 * (100 * da + db) + 2 * d
    BY <1>1, <1>2, <1>4
  <2> QED
    BY <1>2, <1>4, <1>6, <2>1 DEF Nearest
<1> HIDE DEF a, b
<1> QED
  BY <1>2, <1>4, <1>5, <1>7

\* Rounding preserves the order of fractions.
LEMMA Round2IsMonotone ==
  ASSUME NEW q \in Fractions, NEW p \in Fractions, q[1] * p[2] <= p[1] * q[2]
  PROVE  Round2(q) <= Round2(p)
<1>1. ASSUME NEW n \in Nat, NEW d \in Nat, d > 0, NEW m \in Nat, NEW e \in Nat, e > 0,
             n * e <= m * d, NEW r \in Nat, NEW s \in Nat, Nearest(r, n, d), Nearest(s, m, e)
      PROVE  r <= s
  <2> SUFFICES ASSUME s + 1 <= r PROVE FALSE
    OBVIOUS
  <2>1. e * (s + 1) <= e * r /\ e * (s + 1) = e * s + e
    BY <1>1
  <2>2. 200 * m + e < 2 * (e * r)
    <3>1. e * s \in Int /\ e * r \in Int
      BY <1>1
    <3> QED
      BY <1>1, <2>1, <3>1 DEF Nearest
  <2>3. (200 * m + e) * d < (2 * (e * r)) * d
    <3>1. \A u, v \in Int : u < v => u * d < v * d
      BY <1>1
    <3>2. 200 * m + e \in Int /\ 2 * (e * r) \in Int
      BY <1>1
    <3> QED
      BY <2>2, <3>1, <3>2
  <2>4. (2 * (d * r)) * e <= (200 * n + d) * e
    <3>1. \A u, v \in Int : u <= v => u * e <= v * e
      BY <1>1
    <3>2. 200 * n + d \in Int /\ 2 * (d * r) \in Int
      BY <1>1
    <3> QED
      BY <1>1, <3>1, <3>2 DEF Nearest
  <2>5. (2 * (d * r)) * e = (2 * (e * r)) * d
    <3>1. (2 * (d * r)) * e = 2 * ((d * r) * e) /\ (2 * (e * r)) * d = 2 * ((e * r) * d)
      BY <1>1
    <3>2. (d * r) * e = (e * r) * d
      BY <1>1
    <3> QED
      BY <3>1, <3>2
  <2>6. (200 * m + e) * d = 200 * (m * d) + e * d /\ (200 * n + d) * e = 200 * (n * e) + e * d
    BY <1>1
  <2>7. m * d \in Int /\ n * e \in Int /\ e * d \in Int
        /\ (2 * (e * r)) * d \in Int
    BY <1>1
  <2> QED
    BY <1>1, <2>3, <2>4, <2>5, <2>6, <2>7
<1>2. /\ q[1] \in Nat /\ q[2] \in Nat /\ q[2] > 0
      /\ p[1] \in Nat /\ p[2] \in Nat /\ p[2] > 0
  BY DEF Fractions
<1> QED
  BY <1>1, <1>2, Round2IsNearest

\* Rounding moves a score to a threshold at most, never over it.
LEMMA Round2AtThreshold ==
  ASSUME NEW q \in Fractions, NEW t \in Nat
  PROVE  /\ AtLeast(q, t) => Round2(q) >= 100 * t
         /\ ~AtLeast(q, t) => Round2(q) <= 100 * t
<1>1. <<t, 1>> \in Fractions
  BY DEF Fractions
<1>2. Round2(<<t, 1>>) = 100 * t
  <2>1. Nearest(Round2(<<t, 1>>), t, 1) /\ Round2(<<t, 1>>) \in Nat
    BY <1>1, Round2IsNearest
  <2>2. \A r \in Nat : Nearest(r, t, 1) => r = 100 * t
    BY DEF Nearest
  <2> QED
    BY <2>1, <2>2
<1>3. q[1] \in Nat /\ q[2] \in Nat /\ t * q[2] \in Nat /\ q[1] * 1 = q[1]
  BY DEF Fractions
<1>4. Round2(q) \in Nat
  BY Round2IsNearest
<1>5. ASSUME AtLeast(q, t) PROVE Round2(<<t, 1>>) <= Round2(q)
  <2>1. <<t, 1>>[1] * q[2] <= q[1] * <<t, 1>>[2]
    BY <1>3, <1>5 DEF AtLeast
  <2> QED
    BY <1>1, <2>1, Round2IsMonotone
<1>6. ASSUME ~AtLeast(q, t) PROVE Round2(q) <= Round2(<<t, 1>>)
  <2>1. q[1] * <<t, 1>>[2] <= <<t, 1>>[1] * q[2]
    BY <1>3, <1>6 DEF AtLeast
  <2> QED
    BY <1>1, <2>1, Round2IsMonotone
<1> QED
  BY <1>2, <1>4, <1>5, <1>6

\* The score is a fraction.
LEMMA ScoreIsFraction ==
  ASSUME NEW ds, TotalDeduction(ds) \in Fractions
  PROVE  Score(ds) \in Fractions
<1> DEFINE a == TotalDeduction(ds)[1]
           b == TotalDeduction(ds)[2]
           w == b * Unit * Unit
<1>1. a \in Nat /\ b \in Nat /\ b > 0 /\ Unit \in Nat /\ Unit > 0
  BY PciAssumption DEF Fractions
<1>2. w \in Nat /\ w > 0
  <2>1. \A u, v \in Nat : u * v \in Nat /\ (u > 0 /\ v > 0 => u * v > 0)
    OBVIOUS
  <2> HIDE DEF b
  <2> QED
    BY <1>1, <2>1
<1>3. Score(ds) = IF a >= 100 * w THEN <<0, 1>> ELSE <<100 * w - a, w>>
  BY DEF Score
<1>4. ~(a >= 100 * w) => 100 * w - a \in Nat
  <2> HIDE DEF a, w
  <2> QED
    BY <1>1, <1>2
<1> HIDE DEF a, w
<1> QED
  BY <1>2, <1>3, <1>4 DEF Fractions

\* Where more points are taken, the score is no better.
LEMMA ScoreIsAntitone ==
  ASSUME NEW ds, NEW es, TotalDeduction(ds) \in Fractions, TotalDeduction(es) \in Fractions,
         TotalDeduction(ds)[1] * TotalDeduction(es)[2]
            <= TotalDeduction(es)[1] * TotalDeduction(ds)[2]
  PROVE  Score(es)[1] * Score(ds)[2] <= Score(ds)[1] * Score(es)[2]
<1> DEFINE a == TotalDeduction(ds)[1]
           b == TotalDeduction(ds)[2]
           e == TotalDeduction(es)[1]
           f == TotalDeduction(es)[2]
           w == b * Unit * Unit
           x == f * Unit * Unit
<1>1. /\ a \in Nat /\ b \in Nat /\ b > 0 /\ e \in Nat /\ f \in Nat /\ f > 0
      /\ Unit \in Nat /\ Unit > 0
  BY PciAssumption DEF Fractions
<1>2. /\ Score(ds) = IF a >= 100 * w THEN <<0, 1>> ELSE <<100 * w - a, w>>
      /\ Score(es) = IF e >= 100 * x THEN <<0, 1>> ELSE <<100 * x - e, x>>
  BY DEF Score
<1>3. w \in Nat /\ w > 0 /\ x \in Nat /\ x > 0
  <2>1. \A u, v \in Nat : u * v \in Nat /\ (u > 0 /\ v > 0 => u * v > 0)
    OBVIOUS
  <2> HIDE DEF b, f
  <2> QED
    BY <1>1, <2>1
<1>4. a * x <= e * w
  <2>1. a * f <= e * b
    OBVIOUS
  <2> HIDE DEF a, b, e, f
  <2> DEFINE k == Unit * Unit
  <2>2. k \in Nat
    BY <1>1
  <2>3. a * x = (a * f) * k /\ e * w = (e * b) * k
    BY <1>1
  <2>4. \A u, v, z \in Nat : u <= v => u * z <= v * z
    OBVIOUS
  <2>5. a * f \in Nat /\ e * b \in Nat
    BY <1>1
  <2> HIDE DEF k, w, x
  <2> QED
    BY <2>1, <2>2, <2>3, <2>4, <2>5
<1> HIDE DEF a, e, w, x
<1>5. CASE e >= 100 * x
  <2>1. Score(es)[1] = 0 /\ Score(es)[2] = 1
    BY <1>2, <1>5
  <2>2. Score(ds)[1] \in Nat /\ Score(ds)[2] \in Nat
    BY ScoreIsFraction DEF Fractions
  <2> QED
    BY <2>1, <2>2
<1>6. CASE ~(e >= 100 * x)
  <2>1. ~(a >= 100 * w)
    <3>1. e + 1 <= 100 * x
      BY <1>1, <1>3, <1>6
    <3>2. (e + 1) * w <= (100 * x) * w /\ (e + 1) * w = e * w + w
      BY <1>1, <1>3, <3>1
    <3>3. a >= 100 * w => a * x >= (100 * w) * x
      BY <1>1, <1>3
    <3>4. (100 * w) * x = (100 * x) * w /\ (100 * x) * w \in Int /\ a * x \in Int /\ e * w \in Int
      BY <1>1, <1>3
    <3> QED
      BY <1>3, <1>4, <3>2, <3>3, <3>4
  <2>2. (100 * x - e) * w = 100 * (x * w) - e * w /\ (100 * w - a) * x = 100 * (x * w) - a * x
    BY <1>1, <1>3
  <2>3. e * w \in Int /\ a * x \in Int /\ 100 * (x * w) \in Int
    BY <1>1, <1>3
  <2>4. (100 * x - e) * w <= (100 * w - a) * x
    BY <1>4, <2>2, <2>3
  <2>5. Score(ds) = <<100 * w - a, w>> /\ Score(es) = <<100 * x - e, x>>
    BY <1>2, <1>6, <2>1
  <2> QED
    BY <2>4, <2>5
<1> QED
  BY <1>5, <1>6

-----------------------------------------------------------------------------
(***************************************************************************)
(* The steps of the worker.                                                *)
(***************************************************************************)

\* The severity that the detector assigns is in range.
LEMMA SeverityIsBounded ==
  ASSUME NEW q \in Confidences, NEW a \in Areas
  PROVE  ProvisionalSeverity(q, a) \in 0..Unit
<1>1. Unit \in Nat /\ q \in Nat /\ q <= Unit /\ a \in Nat
  BY PciAssumption
<1>2. Least(Unit, 10 * a) \in Nat /\ Least(Unit, 10 * a) <= Unit
  BY <1>1 DEF Least
<1> DEFINE n == 4 * q + 6 * Least(Unit, 10 * a) + 5
<1>3. n \in Nat /\ n <= 10 * Unit + 5
  BY <1>1, <1>2
<1>4. n \div 10 \in Nat /\ n \div 10 <= Unit
  <2> HIDE DEF n
  <2> QED
    BY <1>1, <1>3
<1> QED
  BY <1>1, <1>4 DEF ProvisionalSeverity

\* A step appends a detection that compute_pci accepts.
LEMMA StepAppends ==
  ASSUME InputsInRange, PciNext
  PROVE  \E d \in DetectionInput : detections' = Append(detections, d)
<1>1. PICK c \in DOMAIN Weight, i \in 1..Images, q \in Confidences, a \in Areas :
         detections' = Append(detections,
            [code |-> c, image |-> i, area |-> a, severity |-> ProvisionalSeverity(q, a)])
  BY DEF PciNext, Detect
<1> DEFINE d == [code |-> c, image |-> i, area |-> a, severity |-> ProvisionalSeverity(q, a)]
<1>2. ProvisionalSeverity(q, a) \in 0..Unit
  BY SeverityIsBounded
<1>3. a \in 0..Unit
  BY PciAssumption
<1>4. d \in DetectionInput
  BY <1>2, <1>3 DEF DetectionInput
<1> QED
  BY <1>1, <1>4

\* Every detection that the worker collects is one that compute_pci accepts: it never
\* raises ValueError on a severity or an area outside of [0, 1].
THEOREM InputsAreInRange == PciSpec => []InputsInRange
<1>1. PciInit => InputsInRange
  BY DEF PciInit, InputsInRange
<1>2. InputsInRange /\ [PciNext]_detections => InputsInRange'
  <2> SUFFICES ASSUME InputsInRange, [PciNext]_detections PROVE InputsInRange'
    OBVIOUS
  <2>1. CASE PciNext
    <3>1. PICK d \in DetectionInput : detections' = Append(detections, d)
      BY <2>1, StepAppends
    <3> QED
      BY <3>1 DEF InputsInRange
  <2>2. CASE UNCHANGED detections
    BY <2>2 DEF InputsInRange
  <2> QED
    BY <2>1, <2>2
<1> QED
  BY <1>1, <1>2, PTL DEF PciSpec

\* As long as no image is saturated, the deductions of compute_pci add up to the sum of
\* weight, severity and area over the detections, averaged over the images.
THEOREM AgreesWithTheFormula == PciSpec => []CdcFormula
<1>1. InputsInRange => CdcFormula
  BY TotalOfTypes DEF InputsInRange, CdcFormula
<1> QED
  BY <1>1, InputsAreInRange, PTL

\* The class of a score that is a fraction, and that of its rounding.
LEMMA ClassOfScore ==
  ASSUME NEW q \in Fractions, NEW r, NEW priority, r = Round2(q), priority = ClassifyPriority(q)
  PROVE  /\ priority \in DOMAIN Threshold
         /\ r >= 100 * Threshold[priority]
         /\ \A p \in DOMAIN Threshold :
               Threshold[p] > Threshold[priority] => r <= 100 * Threshold[p]
<1>1. \A t \in Nat : /\ AtLeast(q, t) => r >= 100 * t
                     /\ ~AtLeast(q, t) => r <= 100 * t
  BY Round2AtThreshold
<1>2. r \in Nat
  BY Round2IsNearest
<1>3. /\ AtLeast(q, 85) => r >= 8500
      /\ ~AtLeast(q, 85) => r <= 8500
      /\ AtLeast(q, 70) => r >= 7000
      /\ ~AtLeast(q, 70) => r <= 7000
      /\ AtLeast(q, 55) => r >= 5500
      /\ ~AtLeast(q, 55) => r <= 5500
      /\ AtLeast(q, 40) => r >= 4000
      /\ ~AtLeast(q, 40) => r <= 4000
  BY <1>1
<1>4. /\ DOMAIN Threshold = {"P4_EXCELLENT", "P3_SURVEILLANCE", "P2_PLANIFIE", "P1_URGENT",
                             "P0_CRITIQUE"}
      /\ Threshold["P4_EXCELLENT"] = 85 /\ Threshold["P3_SURVEILLANCE"] = 70
      /\ Threshold["P2_PLANIFIE"] = 55 /\ Threshold["P1_URGENT"] = 40
      /\ Threshold["P0_CRITIQUE"] = 0
  BY DEF Threshold
<1>5. /\ AtLeast(q, 85) => AtLeast(q, 70)
      /\ AtLeast(q, 70) => AtLeast(q, 55)
      /\ AtLeast(q, 55) => AtLeast(q, 40)
  BY DEF AtLeast, Fractions
<1>6. CASE AtLeast(q, 85)
  <2>1. priority = "P4_EXCELLENT"
    BY <1>5, <1>6 DEF ClassifyPriority
  <2> QED
    BY <1>2, <1>3, <1>4, <1>6, <2>1
<1>7. CASE ~AtLeast(q, 85) /\ AtLeast(q, 70)
  <2>1. priority = "P3_SURVEILLANCE"
    BY <1>5, <1>7 DEF ClassifyPriority
  <2> QED
    BY <1>2, <1>3, <1>4, <1>7, <2>1
<1>8. CASE ~AtLeast(q, 70) /\ AtLeast(q, 55)
  <2>1. priority = "P2_PLANIFIE"
    BY <1>5, <1>8 DEF ClassifyPriority
  <2> QED
    BY <1>2, <1>3, <1>4, <1>5, <1>8, <2>1
<1>9. CASE ~AtLeast(q, 55) /\ AtLeast(q, 40)
  <2>1. priority = "P1_URGENT"
    BY <1>5, <1>9 DEF ClassifyPriority
  <2> QED
    BY <1>2, <1>3, <1>4, <1>5, <1>9, <2>1
<1>10. CASE ~AtLeast(q, 40)
  <2>1. priority = "P0_CRITIQUE"
    BY <1>5, <1>10 DEF ClassifyPriority
  <2> QED
    BY <1>2, <1>3, <1>4, <1>5, <1>10, <2>1
<1> QED
  BY <1>5, <1>6, <1>7, <1>8, <1>9, <1>10

\* The stored priority is that of the stored score, or the class just below where
\* rounding lifted the score to a threshold.
THEOREM ClassFollowsScore == PciSpec => []ClassUpToRounding
<1>1. InputsInRange => ClassUpToRounding
  <2> SUFFICES ASSUME InputsInRange PROVE ClassUpToRounding
    OBVIOUS
  <2>1. Score(detections) \in Fractions
    BY TotalOfTypes, ScoreIsFraction DEF InputsInRange
  <2>2. /\ ComputePci(detections).score = Round2(Score(detections))
        /\ ComputePci(detections).priority = ClassifyPriority(Score(detections))
    BY DEF ComputePci
  <2> QED
    BY <2>1, <2>2, ClassOfScore DEF ClassUpToRounding
<1> QED
  BY <1>1, InputsAreInRange, PTL

\* A further detection adds to the damage, and to the area of its image.
LEMMA FurtherDetection ==
  ASSUME NEW ds \in Seq(DetectionInput), NEW d \in DetectionInput, NEW es, es = Append(ds, d)
  PROVE  /\ es \in Seq(DetectionInput)
         /\ DamageOf(ds) <= DamageOf(es)
         /\ Unsaturated(es) => Unsaturated(ds)
<1> DEFINE n == Len(ds) + 1
<1>1. /\ es \in Seq(DetectionInput)
      /\ DOMAIN es = DOMAIN ds \cup {n} /\ n \in DOMAIN es \ DOMAIN ds
      /\ \A k \in DOMAIN ds : es[k] = ds[k]
  OBVIOUS
<1>2. /\ IsFiniteSet(DOMAIN es) /\ IsFiniteSet(DOMAIN ds)
      /\ DOMAIN ds \in SUBSET DOMAIN es
  BY <1>1, Rows
<1>3. DamageOf(ds) <= DamageOf(es)
  <2>1. /\ IntOn(Damage(es), DOMAIN es) /\ IntOn(Damage(ds), DOMAIN ds)
        /\ DamageOf(ds) = SumFunctionOnSet(Damage(ds), DOMAIN ds) /\ DamageOf(ds) \in Nat
        /\ DamageOf(es) = SumFunctionOnSet(Damage(es), DOMAIN es)
    BY <1>1, RowSums
  <2>2. \A k \in DOMAIN ds : Damage(ds)[k] = Damage(es)[k]
    BY <1>1 DEF Damage
  <2>3. SumFunctionOnSet(Damage(ds), DOMAIN ds) = SumFunctionOnSet(Damage(es), DOMAIN ds)
    BY <1>2, <2>1, <2>2, SumEqual
  <2>4. SumFunctionOnSet(Damage(es), DOMAIN es)
          = Damage(es)[n] + SumFunctionOnSet(Damage(es), DOMAIN ds)
    <3> HIDE DEF n
    <3> QED
      BY <1>1, <1>2, <2>1, SumOfMore
  <2>5. Damage(es)[n] \in Nat
    <3>1. \A u, v \in Nat : u * v \in Nat
      OBVIOUS
    <3>2. n \in DOMAIN es
      BY <1>1
    <3>3. Weight[es[n].code] \in Nat /\ es[n].severity \in Nat /\ es[n].area \in Nat
      <4> HIDE DEF n
      <4> QED
        BY <1>1, <3>2, Rows
    <3>4. Damage(es)[n] = Weight[es[n].code] * (es[n].severity * es[n].area)
      BY <3>2 DEF Damage
    <3> HIDE DEF n
    <3> QED
      BY <3>1, <3>3, <3>4
  <2> HIDE DEF n
  <2> QED
    BY <2>1, <2>3, <2>4, <2>5
<1>4. ASSUME Unsaturated(es) PROVE Unsaturated(ds)
  <2> SUFFICES ASSUME NEW c \in DOMAIN Weight, NEW i \in 1..Images
               PROVE  AreaOf(ds, Here(ds, c, i)) <= Unit
    BY DEF Unsaturated, Here
  <2> DEFINE S == Here(ds, c, i)
             T == Here(es, c, i)
  <2>1. AreaOf(es, T) <= Unit
    BY <1>4 DEF Unsaturated, Here
  <2>2. /\ S \in SUBSET DOMAIN ds /\ S \in SUBSET DOMAIN es /\ T \in SUBSET DOMAIN es
        /\ IsFiniteSet(S)
    <3>1. S \in SUBSET DOMAIN ds /\ T \in SUBSET DOMAIN es
      BY DEF Here, OfType
    <3> QED
      BY <1>2, <3>1, FS_Subset
  <2>3. T = S \/ (T = S \cup {n} /\ n \in DOMAIN es \ S)
    BY <1>1 DEF Here, OfType
  <2>4. /\ IntOn(Area(es), DOMAIN es)
        /\ AreaOf(ds, S) = SumFunctionOnSet(Area(ds), S) /\ AreaOf(ds, S) \in Nat
        /\ AreaOf(es, S) = SumFunctionOnSet(Area(es), S)
        /\ AreaOf(es, T) = SumFunctionOnSet(Area(es), T)
        /\ IntOn(Area(ds), S)
    <3>1. IntOn(Area(ds), DOMAIN ds) /\ IntOn(Area(es), DOMAIN es)
      BY <1>1, RowSums
    <3>2. IntOn(Area(ds), S)
      BY <2>2, <3>1 DEF IntOn
    <3> HIDE DEF S, T
    <3> QED
      BY <1>1, <2>2, <3>1, <3>2, RowSums
  <2>5. AreaOf(ds, S) = AreaOf(es, S)
    <3>1. \A k \in S : Area(ds)[k] = Area(es)[k]
      BY <1>1, <2>2 DEF Area
    <3> HIDE DEF S, T
    <3> QED
      BY <2>2, <2>4, <3>1, SumEqual
  <2>6. CASE T = S
    BY <2>1, <2>5, <2>6
  <2>7. CASE T = S \cup {n} /\ n \in DOMAIN es \ S
    <3>1. SumFunctionOnSet(Area(es), S \cup {n}) = Area(es)[n] + SumFunctionOnSet(Area(es), S)
      <4> HIDE DEF S, T, n
      <4> QED
        BY <1>2, <2>2, <2>4, <2>7, SumOfMore
    <3>2. Area(es)[n] \in Nat
      <4>1. Area(es)[n] = es[n].area
        BY <1>1 DEF Area
      <4> HIDE DEF n
      <4> QED
        BY <1>1, <4>1, Rows
    <3>3. Unit \in Nat
      BY PciAssumption
    <3>4. AreaOf(es, S \cup {n}) <= Unit
      BY <2>1, <2>7
    <3>5. AreaOf(es, S \cup {n}) = Area(es)[n] + AreaOf(ds, S)
      BY <2>4, <2>5, <2>7, <3>1
    <3> HIDE DEF S, T, n
    <3>6. AreaOf(ds, S) <= Unit
      BY <2>4, <3>2, <3>3, <3>4, <3>5
    <3> QED
      BY <3>6 DEF S
  <2> QED
    BY <2>3, <2>6, <2>7
<1> QED
  BY <1>1, <1>3, <1>4

\* While no image is saturated, less damage by the formula of the CDC is a score at least
\* as high.
LEMMA LessDamageScores ==
  ASSUME NEW ds \in Seq(DetectionInput), NEW es \in Seq(DetectionInput),
         Unsaturated(ds), Unsaturated(es), DamageOf(ds) <= DamageOf(es)
  PROVE  ComputePci(es).score <= ComputePci(ds).score
<1>1. /\ TotalDeduction(ds) \in Fractions /\ TotalDeduction(es) \in Fractions
      /\ TotalDeduction(ds)[1] * Images = DamageOf(ds) * TotalDeduction(ds)[2]
      /\ TotalDeduction(es)[1] * Images = DamageOf(es) * TotalDeduction(es)[2]
  BY TotalOfTypes
<1>2. TotalDeduction(ds)[1] * TotalDeduction(es)[2]
        <= TotalDeduction(es)[1] * TotalDeduction(ds)[2]
  <2> DEFINE a == TotalDeduction(ds)[1]
             b == TotalDeduction(ds)[2]
             e == TotalDeduction(es)[1]
             f == TotalDeduction(es)[2]
  <2>1. /\ a \in Nat /\ b \in Nat /\ e \in Nat /\ f \in Nat
        /\ Images \in Nat /\ Images > 0
    BY <1>1, PciAssumption DEF Fractions
  <2>2. DamageOf(ds) \in Nat /\ DamageOf(es) \in Nat
    BY RowSums
  <2> HIDE DEF a, b, e, f
  <2>3. (a * f) * Images = DamageOf(ds) * (b * f) /\ (e * b) * Images = DamageOf(es) * (b * f)
    <3>1. (a * f) * Images = (a * Images) * f /\ (e * b) * Images = (e * Images) * b
      BY <2>1
    <3>2. (DamageOf(ds) * b) * f = DamageOf(ds) * (b * f)
          /\ (DamageOf(es) * f) * b = DamageOf(es) * (b * f)
      BY <2>1, <2>2
    <3> QED
      BY <1>1, <3>1, <3>2 DEF a, b, e, f
  <2>4. DamageOf(ds) * (b * f) <= DamageOf(es) * (b * f)
    <3>1. \A u, v, w \in Nat : u <= v => u * w <= v * w
      OBVIOUS
    <3>2. b * f \in Nat
      BY <2>1
    <3> QED
      BY <2>2, <3>1, <3>2
  <2>5. \A u, v \in Nat : u * Images <= v * Images => u <= v
    BY <2>1
  <2>6. a * f \in Nat /\ e * b \in Nat
    BY <2>1
  <2>7. a * f <= e * b
    BY <2>3, <2>4, <2>5, <2>6
  <2> QED
    BY <2>7 DEF a, b, e, f
<1>3. Round2(Score(es)) <= Round2(Score(ds))
  BY <1>1, <1>2, ScoreIsFraction, ScoreIsAntitone, Round2IsMonotone
<1> QED
  BY <1>3 DEF ComputePci

\* A further detection never raises the stored score, unless its image is saturated.
THEOREM FurtherDamageNeverHelps == PciSpec => MoreDamageNeverHelps
<1>1. ASSUME InputsInRange, PciNext, Unsaturated(detections')
      PROVE  ComputePci(detections').score <= ComputePci(detections).score
  <2>1. PICK d \in DetectionInput : detections' = Append(detections, d)
    BY <1>1, StepAppends
  <2> SUFFICES ASSUME NEW ds \in Seq(DetectionInput), NEW es, es = Append(ds, d), Unsaturated(es)
               PROVE  ComputePci(es).score <= ComputePci(ds).score
    BY <1>1, <2>1 DEF InputsInRange
  <2>2. /\ es \in Seq(DetectionInput) /\ DamageOf(ds) <= DamageOf(es) /\ Unsaturated(ds)
    BY FurtherDetection
  <2> QED
    BY <2>2, LessDamageScores
<1>2. ASSUME InputsInRange, UNCHANGED detections
      PROVE  ComputePci(detections').score <= ComputePci(detections).score
  <2>1. Score(detections) \in Fractions
    BY <1>2, TotalOfTypes, ScoreIsFraction DEF InputsInRange
  <2>2. Round2(Score(detections)) \in Nat
    BY <2>1, Round2IsNearest
  <2>3. ComputePci(detections).score \in Nat
    BY <2>2 DEF ComputePci
  <2> QED
    BY <1>2, <2>3
<1>3. InputsInRange /\ [PciNext]_detections =>
         [Unsaturated(detections') =>
            ComputePci(detections').score <= ComputePci(detections).score]_detections
  BY <1>1, <1>2
<1> QED
  BY <1>3, InputsAreInRange, PTL DEF PciSpec, MoreDamageNeverHelps
=============================================================================
