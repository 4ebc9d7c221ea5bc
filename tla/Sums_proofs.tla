----------------------------- MODULE Sums_proofs -----------------------------
(***************************************************************************)
(* The laws of Sum the proofs about funds rest on, for finite tables of    *)
(* natural amounts.                                                        *)
(***************************************************************************)
EXTENDS Sums, FiniteSetTheorems, TLAPS

\* The elements of Units(f), which the other lemmas work with.
LEMMA UnitsElements ==
    ASSUME NEW S, NEW f \in [S -> Nat]
    PROVE  /\ \A u \in Units(f) : u[1] \in S /\ u[2] \in 1 .. f[u[1]] /\ u = <<u[1], u[2]>>
           /\ \A x \in S : \A i : <<x, i>> \in Units(f) <=> i \in 1 .. f[x]
<1>1. DOMAIN f = S
  OBVIOUS
<1>2. \A u : u \in Units(f) <=> \E x \in S : u \in {x} \X (1 .. f[x])
  BY <1>1, Zenon DEF Units
<1>3. ASSUME NEW u \in Units(f)
      PROVE  u[1] \in S /\ u[2] \in 1 .. f[u[1]] /\ u = <<u[1], u[2]>>
  <2>1. PICK x \in S : u \in {x} \X (1 .. f[x])
    BY <1>2, Zenon
  <2>2. u[1] = x /\ u[2] \in 1 .. f[x] /\ u = <<u[1], u[2]>>
    BY <2>1
  <2>. QED BY <2>2, Zenon
<1>4. ASSUME NEW x \in S, NEW i
      PROVE  <<x, i>> \in Units(f) <=> i \in 1 .. f[x]
  <2>1. \A y : <<x, i>> \in {y} \X (1 .. f[y]) <=> y = x /\ i \in 1 .. f[y]
    OBVIOUS
  <2>. QED BY <1>2, <2>1, Zenon
<1>. QED
  BY <1>3, <1>4, Zenon

\* A sum of finitely many amounts is an amount.
LEMMA SumType ==
    ASSUME NEW S, IsFiniteSet(S), NEW f \in [S -> Nat]
    PROVE  IsFiniteSet(Units(f)) /\ Sum(f) \in Nat
<1>. DEFINE Row(x) == {x} \X (1 .. f[x])
            Rows == {Row(x) : x \in S}
<1>1. IsFiniteSet(Rows)
  <2>. DEFINE g == [x \in S |-> Row(x)]
  <2>1. g \in Surjection(S, Rows)
    BY DEF Surjection
  <2>. QED
    BY <2>1, FS_Surjection, Zenon
<1>2. ASSUME NEW R \in Rows PROVE IsFiniteSet(R)
  <2>1. PICK x \in S : R = {x} \X (1 .. f[x])
    OBVIOUS
  <2>2. IsFiniteSet(1 .. f[x])
    BY FS_Interval
  <2>3. IsFiniteSet({x})
    BY FS_Singleton, Zenon
  <2>. QED
    BY <2>1, <2>2, <2>3, FS_Product, Zenon
<1>3. IsFiniteSet(UNION Rows)
  BY <1>1, <1>2, FS_UNION, Zenon
<1>4. DOMAIN f = S
  OBVIOUS
<1>5. Units(f) = UNION Rows
  BY <1>4, Zenon DEF Units
<1>. QED
  BY <1>3, <1>5, FS_CardinalityType, Zenon DEF Sum

\* Amounts that are no larger add up to no more.
LEMMA SumMonotone ==
    ASSUME NEW S, IsFiniteSet(S), NEW f \in [S -> Nat], NEW g \in [S -> Nat],
           \A x \in S : f[x] <= g[x]
    PROVE  Sum(f) <= Sum(g)
<1>1. \A x \in S : \A i \in 1 .. f[x] : i \in 1 .. g[x]
  OBVIOUS
<1>2. Units(f) \subseteq Units(g)
  BY <1>1, UnitsElements
<1>. QED
  BY <1>2, SumType, FS_Subset, Zenon DEF Sum

\* Nothing adds up to nothing.
LEMMA SumZero ==
    ASSUME NEW S, IsFiniteSet(S), NEW f \in [S -> Nat]
    PROVE  Sum(f) = 0 <=> \A x \in S : f[x] = 0
<1>1. Sum(f) = 0 <=> Units(f) = {}
  BY SumType, FS_EmptySet, Zenon DEF Sum
<1>2. ASSUME Units(f) = {}, NEW x \in S PROVE f[x] = 0
  <2>1. \A i \in 1 .. f[x] : FALSE
    BY <1>2, UnitsElements, Zenon
  <2>. QED
    BY <2>1
<1>3. ASSUME \A x \in S : f[x] = 0 PROVE Units(f) = {}
  <2>1. \A x \in S : \A i \in 1 .. f[x] : FALSE
    BY <1>3
  <2>. QED
    BY <2>1, UnitsElements
<1>. QED
  BY <1>1, <1>2, <1>3, Zenon

\* Sums of two tables add up.
LEMMA SumPlus ==
    ASSUME NEW S, IsFiniteSet(S), NEW f \in [S -> Nat], NEW g \in [S -> Nat]
    PROVE  Sum([x \in S |-> f[x] + g[x]]) = Sum(f) + Sum(g)
<1>. DEFINE h == [x \in S |-> f[x] + g[x]]
            Upper == Units(h) \ Units(f)
            shift == [u \in Upper |-> <<u[1], u[2] - f[u[1]]>>]
<1>0. h \in [S -> Nat]
  OBVIOUS
<1>1. Units(f) \subseteq Units(h)
  <2>1. \A x \in S : \A i \in 1 .. f[x] : i \in 1 .. h[x]
    OBVIOUS
  <2>. HIDE DEF h
  <2>. QED
    BY <1>0, <2>1, UnitsElements
<1>2. \A x \in S, i \in Int : <<x, i>> \in Upper <=> f[x] < i /\ i <= f[x] + g[x]
  <2>1. \A x \in S : \A i : <<x, i>> \in Units(f) <=> i \in 1 .. f[x]
    BY UnitsElements, Zenon
  <2>2. \A x \in S : \A i : <<x, i>> \in Units(h) <=> i \in 1 .. h[x]
    <3>. HIDE DEF h
    <3>. QED BY <1>0, UnitsElements, Zenon
  <2>3. \A x \in S, i \in Int : i \in 1 .. h[x] /\ i \notin 1 .. f[x]
                                <=> f[x] < i /\ i <= f[x] + g[x]
    OBVIOUS
  <2>. QED
    BY <2>1, <2>2, <2>3, Zenon DEF Upper
<1>3. \A u \in Upper : \E x \in S, i \in Int : u = <<x, i>>
  <2>. HIDE DEF h
  <2>1. \A x \in S : \A i \in 1 .. h[x] : i \in Int
    BY <1>0
  <2>. QED
    BY <1>0, <2>1, UnitsElements
<1>4. shift \in Bijection(Upper, Units(g))
  <2>. HIDE DEF h
  <2>0. \A x \in S : \A i : <<x, i>> \in Units(g) <=> i \in 1 .. g[x]
    BY UnitsElements, Zenon
  <2>1. ASSUME NEW u \in Upper PROVE shift[u] \in Units(g)
    <3>1. PICK x \in S, i \in Int : u = <<x, i>>
      BY <1>3
    <3>2. i - f[x] \in 1 .. g[x] /\ shift[u] = <<x, i - f[x]>>
      BY <1>2, <3>1
    <3>. QED BY <2>0, <3>2
  <2>2. ASSUME NEW u \in Upper, NEW w \in Upper, shift[u] = shift[w] PROVE u = w
    <3>1. PICK x \in S, i \in Int : u = <<x, i>>
      BY <1>3
    <3>2. PICK y \in S, j \in Int : w = <<y, j>>
      BY <1>3
    <3>3. x = y /\ i - f[x] = j - f[y]
      BY <2>2, <3>1, <3>2
    <3>. QED BY <3>1, <3>2, <3>3
  <2>3. ASSUME NEW w \in Units(g) PROVE \E u \in Upper : shift[u] = w
    <3>1. w[1] \in S /\ w[2] \in 1 .. g[w[1]] /\ w = <<w[1], w[2]>>
      BY UnitsElements
    <3>2. <<w[1], w[2] + f[w[1]]>> \in Upper
      <4>. HIDE DEF Upper
      <4>. QED BY <1>2, <3>1
    <3>. QED BY <3>1, <3>2
  <2>. HIDE DEF shift, Upper
  <2>4. shift \in [Upper -> Units(g)]
    BY <2>1 DEF shift
  <2>. QED
    BY <2>2, <2>3, <2>4, Zenon DEF Bijection, Injection, Surjection, IsInjective
<1>5. /\ IsFiniteSet(Units(h)) /\ IsFiniteSet(Units(f)) /\ IsFiniteSet(Units(g))
      /\ Sum(h) \in Nat /\ Sum(f) \in Nat /\ Sum(g) \in Nat
  <2>. HIDE DEF h
  <2>. QED BY <1>0, SumType, Zenon
<1>6. Cardinality(Upper) = Cardinality(Units(g))
  <2>. HIDE DEF h, shift
  <2>1. IsFiniteSet(Upper)
    BY <1>5, FS_Difference, Zenon
  <2>2. ExistsBijection(Upper, Units(g))
    BY <1>4, Zenon DEF ExistsBijection
  <2>. QED
    BY <2>1, <2>2, FS_Bijection, Zenon
<1>7. Cardinality(Upper) = Cardinality(Units(h)) - Cardinality(Units(f))
  <2>. HIDE DEF h
  <2>1. Units(h) \cap Units(f) = Units(f)
    BY <1>1
  <2>. QED
    BY <1>5, <2>1, FS_Difference, Zenon
<1>. HIDE DEF h
<1>8. Sum(h) = Sum(f) + Sum(g)
  BY <1>5, <1>6, <1>7 DEF Sum
<1>. QED
  BY <1>8 DEF h

\* A table with a single amount.
LEMMA SumSingle ==
    ASSUME NEW S, NEW x \in S, NEW n \in Nat
    PROVE  Sum([y \in S |-> IF y = x THEN n ELSE 0]) = n
<1>. DEFINE f == [y \in S |-> IF y = x THEN n ELSE 0]
<1>1. f \in [S -> Nat]
  OBVIOUS
<1>2. Units(f) = {x} \X (1 .. n)
  <2>1. f[x] = n /\ \A y \in S : y # x => 1 .. f[y] = {}
    OBVIOUS
  <2>. HIDE DEF f
  <2>. QED
    BY <1>1, <2>1, UnitsElements
<1>3. IsFiniteSet(1 .. n) /\ Cardinality(1 .. n) = n
  BY FS_Interval
<1>4. IsFiniteSet({x}) /\ Cardinality({x}) = 1
  BY FS_Singleton, Zenon
<1>5. Cardinality({x} \X (1 .. n)) = Cardinality({x}) * Cardinality(1 .. n)
  BY <1>3, <1>4, FS_Product, Zenon
<1>. HIDE DEF f
<1>6. Sum(f) = Cardinality({x}) * Cardinality(1 .. n)
  BY <1>2, <1>5, Zenon DEF Sum
<1>7. Sum(f) = n
  BY <1>3, <1>4, <1>6
<1>. QED
  BY <1>7 DEF f

\* What a sum is without one of its amounts.
LEMMA SumSplit ==
    ASSUME NEW S, IsFiniteSet(S), NEW f \in [S -> Nat], NEW x \in S
    PROVE  /\ Sum([y \in S |-> IF y = x THEN 0 ELSE f[y]]) \in Nat
           /\ Sum(f) = Sum([y \in S |-> IF y = x THEN 0 ELSE f[y]]) + f[x]
<1>. DEFINE rest == [y \in S |-> IF y = x THEN 0 ELSE f[y]]
            one == [y \in S |-> IF y = x THEN f[x] ELSE 0]
<1>1. rest \in [S -> Nat] /\ one \in [S -> Nat]
  OBVIOUS
<1>2. f = [y \in S |-> rest[y] + one[y]]
  OBVIOUS
<1>3. Sum(one) = f[x]
  BY SumSingle
<1>. HIDE DEF rest, one
<1>4. Sum([y \in S |-> rest[y] + one[y]]) = Sum(rest) + Sum(one)
  BY <1>1, SumPlus, Zenon
<1>5. Sum(rest) \in Nat
  BY <1>1, SumType, Zenon
<1>. QED
  BY <1>2, <1>3, <1>4, <1>5, Zenon DEF rest

\* No amount exceeds the sum it is part of.
LEMMA SumAtLeast ==
    ASSUME NEW S, IsFiniteSet(S), NEW f \in [S -> Nat], NEW x \in S
    PROVE  f[x] <= Sum(f)
<1>. DEFINE rest == [y \in S |-> IF y = x THEN 0 ELSE f[y]]
<1>1. Sum(rest) \in Nat /\ Sum(f) = Sum(rest) + f[x]
  BY SumSplit, Zenon
<1>. HIDE DEF rest
<1>. QED
  BY <1>1

\* Changing one amount changes the sum by as much.
LEMMA SumChange ==
    ASSUME NEW S, IsFiniteSet(S), NEW f \in [S -> Nat], NEW g \in [S -> Nat], NEW x \in S,
           \A y \in S : y # x => g[y] = f[y]
    PROVE  Sum(g) + f[x] = Sum(f) + g[x]
<1>. DEFINE restf == [y \in S |-> IF y = x THEN 0 ELSE f[y]]
            restg == [y \in S |-> IF y = x THEN 0 ELSE g[y]]
<1>1. restf = restg
  OBVIOUS
<1>2. Sum(restf) \in Nat /\ Sum(f) = Sum(restf) + f[x]
  BY SumSplit, Zenon
<1>3. Sum(g) = Sum(restg) + g[x]
  BY SumSplit, Zenon
<1>. HIDE DEF restf, restg
<1>. QED
  BY <1>1, <1>2, <1>3

\* Entries of nothing do not count.
LEMMA SumRestrict ==
    ASSUME NEW T, NEW S \in SUBSET T, NEW f \in [S -> Nat], NEW g \in [T -> Nat],
           \A y \in S : g[y] = f[y], \A y \in T \ S : g[y] = 0
    PROVE  Sum(g) = Sum(f)
<1>1. \A y : \A i : y \in T /\ i \in 1 .. g[y] <=> y \in S /\ i \in 1 .. f[y]
  OBVIOUS
<1>2. ASSUME NEW u \in Units(g)
      PROVE  u \in Units(f)
  <2>1. u[1] \in T /\ u[2] \in 1 .. g[u[1]] /\ u = <<u[1], u[2]>>
    BY UnitsElements
  <2>2. u[1] \in S /\ u[2] \in 1 .. f[u[1]]
    BY <1>1, <2>1
  <2>3. <<u[1], u[2]>> \in Units(f)
    BY <2>2, UnitsElements
  <2>. QED
    BY <2>1, <2>3, Zenon
<1>3. ASSUME NEW u \in Units(f)
      PROVE  u \in Units(g)
  <2>1. u[1] \in S /\ u[2] \in 1 .. f[u[1]] /\ u = <<u[1], u[2]>>
    BY UnitsElements
  <2>2. u[1] \in T /\ u[2] \in 1 .. g[u[1]]
    BY <1>1, <2>1
  <2>3. <<u[1], u[2]>> \in Units(g)
    BY <2>2, UnitsElements
  <2>. QED
    BY <2>1, <2>3, Zenon
<1>4. Units(g) = Units(f)
  BY <1>2, <1>3
<1>. QED
  BY <1>4 DEF Sum

\* An entry more adds its amount.
LEMMA SumGrown ==
    ASSUME NEW S, IsFiniteSet(S), NEW f \in [S -> Nat], NEW x, x \notin S,
           NEW T, T = S \cup {x}, NEW g \in [T -> Nat], \A y \in S : g[y] = f[y]
    PROVE  Sum(g) = Sum(f) + g[x]
<1>. DEFINE rest == [y \in T |-> IF y = x THEN 0 ELSE g[y]]
<1>1. IsFiniteSet(T) /\ x \in T
  BY FS_AddElement
<1>2. rest \in [T -> Nat] /\ rest[x] = 0 /\ \A y \in S : rest[y] = f[y]
  OBVIOUS
<1>3. Sum(g) = Sum(rest) + g[x]
  BY <1>1, SumSplit, Zenon
<1>. HIDE DEF rest
<1>4. S \in SUBSET T /\ \A y \in T \ S : rest[y] = 0
  BY <1>2
<1>5. Sum(rest) = Sum(f)
  BY <1>2, <1>4, SumRestrict
<1>. QED
  BY <1>3, <1>5

=============================================================================
