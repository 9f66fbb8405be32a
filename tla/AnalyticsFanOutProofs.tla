------------------------ MODULE AnalyticsFanOutProofs ------------------------
(***************************************************************************)
(* Proofs about AnalyticsFanOut: for all orders, users, products and       *)
(* shards the coordinator's report is a roll-up of one database.           *)
(***************************************************************************)
EXTENDS AnalyticsFanOut, Induction

-----------------------------------------------------------------------------
(* Fractions and rounding. *)

\* Fractions that are not negative, and their addition as a function.
Fractions == Nat \X (Nat \ {0})
AddFractions == [p \in Fractions \X Fractions |-> Plus(p[1], p[2])]

LEMMA FractionsAdd ==
    /\ IsMonoid(Fractions, AddFractions, <<0, 1>>)
    /\ \A f, g \in Fractions : AddFractions[<<f, g>>] = Plus(f, g) /\ Plus(f, g) \in Fractions
<1>1. \A a, b \in Nat \ {0} : a * b \in Nat \ {0}
  OBVIOUS
<1>2. \A a, b \in Nat : a * b \in Nat /\ a + b \in Nat
  OBVIOUS
<1>3. ASSUME NEW f \in Fractions, NEW g \in Fractions
      PROVE  Plus(f, g) \in Fractions /\ Plus(f, g) = Plus(g, f)
  <2>1. f[1] \in Nat /\ f[2] \in Nat \ {0} /\ g[1] \in Nat /\ g[2] \in Nat \ {0}
    BY DEF Fractions
  <2>2. f[2] * g[2] \in Nat \ {0} /\ f[1] * g[2] \in Nat /\ g[1] * f[2] \in Nat
    BY <1>1, <1>2, <2>1
  <2>3. f[1] * g[2] + g[1] * f[2] \in Nat
    BY <1>2, <2>2
  <2>4. f[2] * g[2] = g[2] * f[2] /\ f[1] * g[2] + g[1] * f[2] = g[1] * f[2] + f[1] * g[2]
    BY <2>1
  <2> QED
    BY <2>2, <2>3, <2>4 DEF Plus, Fractions
<1>4. \A a1, a2, b1, b2, c1, c2 \in Nat :
         /\ a1 * (b2 * c2) + (b1 * c2 + c1 * b2) * a2 = (a1 * b2 + b1 * a2) * c2 + c1 * (a2 * b2)
         /\ a2 * (b2 * c2) = (a2 * b2) * c2
  OBVIOUS
<1>5. ASSUME NEW f \in Fractions, NEW g \in Fractions, NEW h \in Fractions
      PROVE  Plus(f, Plus(g, h)) = Plus(Plus(f, g), h)
  <2>1. /\ f[1] \in Nat /\ f[2] \in Nat /\ g[1] \in Nat /\ g[2] \in Nat
        /\ h[1] \in Nat /\ h[2] \in Nat
    BY DEF Fractions
  <2> QED
    BY <1>4, <2>1 DEF Plus
<1>6. \A f, g \in Fractions : AddFractions[<<f, g>>] = Plus(f, g)
  BY DEF AddFractions
<1>7. AddFractions \in [Fractions \X Fractions -> Fractions]
  BY <1>3 DEF AddFractions
<1>8. <<0, 1>> \in Fractions
  BY DEF Fractions
<1>9. \A f, g \in Fractions : AddFractions[<<f, g>>] = AddFractions[<<g, f>>]
  <2> SUFFICES ASSUME NEW f \in Fractions, NEW g \in Fractions
               PROVE  AddFractions[<<f, g>>] = AddFractions[<<g, f>>]
    OBVIOUS
  <2>1. AddFractions[<<f, g>>] = Plus(f, g) /\ AddFractions[<<g, f>>] = Plus(g, f)
    BY <1>6
  <2>2. Plus(f, g) = Plus(g, f)
    BY <1>3
  <2> QED
    BY <2>1, <2>2
<1>10. ASSUME NEW f \in Fractions, NEW g \in Fractions, NEW h \in Fractions
       PROVE  AddFractions[<<f, AddFractions[<<g, h>>]>>] = AddFractions[<<AddFractions[<<f, g>>], h>>]
  <2>1. AddFractions[<<g, h>>] = Plus(g, h) /\ AddFractions[<<f, g>>] = Plus(f, g)
    BY <1>6
  <2>2. /\ AddFractions[<<f, Plus(g, h)>>] = Plus(f, Plus(g, h))
        /\ AddFractions[<<Plus(f, g), h>>] = Plus(Plus(f, g), h)
    BY <1>3, <1>6
  <2> QED
    BY <1>5, <2>1, <2>2
<1> HIDE DEF AddFractions
<1>11. IsMonoid(Fractions, AddFractions, <<0, 1>>)
  BY <1>7, <1>8, <1>9, <1>10 DEF IsMonoid
<1> QED
  BY <1>3, <1>6, <1>11

FractionSum(f, S) == FoldFunctionOnSet(Plus, <<0, 1>>, f, S)

\* ... and of fractions.
LEMMA FractionFolds ==
    ASSUME NEW S, IsFiniteSet(S), NEW f, \A x \in S : f[x] \in Fractions
    PROVE  IsFold(FractionSum(f, S), Fractions, AddFractions, <<0, 1>>, f, S)
<1> DEFINE zero == <<0, 1>>
<1>1. IsMonoid(Fractions, AddFractions, zero)
  BY FractionsAdd
<1>2. \A p, q \in Fractions : AddFractions[<<p, q>>] = Plus(p, q) /\ Plus(p, q) \in Fractions
  BY FractionsAdd
<1> DEFINE Eq(h) == h = [T \in SUBSET S |-> IF T = {} THEN zero
                             ELSE LET x == CHOOSE x \in T : TRUE IN Plus(f[x], h[T \ {x}])]
           g == CHOOSE h : Eq(h)
<1>4. FractionSum(f, S) = g[S]
  BY DEF FractionSum, FoldFunctionOnSet, MapThenFoldSet
<1> HIDE DEF zero
<1>3. PICK g0 : Folding(g0, Fractions, AddFractions, zero, f, S)
  BY <1>1, FoldingExists
<1>5. \A T \in SUBSET S : T # {} =>
         /\ Pick(T) \in T /\ f[Pick(T)] \in Fractions /\ T \ {Pick(T)} \in SUBSET S
  BY DEF Pick
<1>6. Eq(g0)
  <2>1. ASSUME NEW T \in SUBSET S, T # {} PROVE g0[T] = Plus(f[Pick(T)], g0[T \ {Pick(T)}])
    <3>1. g0[T] = AddFractions[<<f[Pick(T)], g0[T \ {Pick(T)}]>>]
      BY <1>3, <2>1 DEF Folding
    <3>2. f[Pick(T)] \in Fractions /\ g0[T \ {Pick(T)}] \in Fractions
      BY <1>3, <1>5, <2>1 DEF Folding
    <3> QED
      BY <1>2, <3>1, <3>2
  <2>2. g0[{}] = zero /\ g0 \in [SUBSET S -> Fractions]
    BY <1>3 DEF Folding
  <2> QED
    BY <2>1, <2>2 DEF Pick
<1>7. Eq(g)
  BY <1>6
<1> HIDE DEF g
<1>8. /\ g = [T \in SUBSET S |-> g[T]] /\ g[{}] = zero
      /\ \A T \in SUBSET S : T # {} => g[T] = Plus(f[Pick(T)], g[T \ {Pick(T)}])
  BY <1>7 DEF Pick
<1>9. \A T \in SUBSET S : g[T] \in Fractions
  <2> DEFINE P == {T \in SUBSET S : g[T] \in Fractions}
  <2>1. ASSUME NEW T \in SUBSET S, \A x \in T : T \ {x} \in P PROVE T \in P
    <3>1. CASE T = {}
      BY <1>1, <1>8, <3>1 DEF IsMonoid
    <3>2. CASE T # {}
      <4>1. g[T \ {Pick(T)}] \in Fractions /\ f[Pick(T)] \in Fractions
        BY <1>5, <2>1, <3>2
      <4>2. g[T] = Plus(f[Pick(T)], g[T \ {Pick(T)}])
        BY <1>8, <3>2
      <4>3. g[T] \in Fractions
        BY <1>2, <4>1, <4>2
      <4> QED
        BY <4>3
    <3> QED
      BY <3>1, <3>2
  <2> HIDE DEF P
  <2>2. \A T \in SUBSET S : T \in P
    BY <2>1, RemovalInduction
  <2> QED
    BY <2>2 DEF P
<1>10. Folding(g, Fractions, AddFractions, zero, f, S)
  <2>1. ASSUME NEW T \in SUBSET S, T # {}
        PROVE  g[T] = AddFractions[<<f[Pick(T)], g[T \ {Pick(T)}]>>]
    <3>1. f[Pick(T)] \in Fractions /\ g[T \ {Pick(T)}] \in Fractions
      BY <1>5, <1>9, <2>1
    <3>2. g[T] = Plus(f[Pick(T)], g[T \ {Pick(T)}])
      BY <1>8, <2>1
    <3> QED
      BY <1>2, <3>1, <3>2
  <2>2. g \in [SUBSET S -> Fractions]
    BY <1>8, <1>9
  <2> QED
    BY <1>8, <2>1, <2>2 DEF Folding
<1> QED
  BY <1>4, <1>10 DEF zero, IsFold

\* What a sum of fractions is, one element at a time.
LEMMA FractionLaws ==
    ASSUME NEW S, IsFiniteSet(S), NEW f, \A x \in S : f[x] \in Fractions
    PROVE  /\ FractionSum(f, S) \in Fractions
           /\ S = {} => FractionSum(f, S) = <<0, 1>>
           /\ \A x \in S : FractionSum(f, S) = Plus(f[x], FractionSum(f, S \ {x}))
           /\ \A h : (\A x \in S : h[x] = f[x]) => FractionSum(h, S) = FractionSum(f, S)
<1> DEFINE zero == <<0, 1>>
<1>1. /\ IsMonoid(Fractions, AddFractions, zero)
      /\ \A p, q \in Fractions : AddFractions[<<p, q>>] = Plus(p, q)
  BY FractionsAdd
<1>2. \A T \in SUBSET S : IsFiniteSet(T)
  BY FS_Subset
<1>3. \A T \in SUBSET S : \A h : (\A x \in T : h[x] \in Fractions) =>
         IsFold(FractionSum(h, T), Fractions, AddFractions, zero, h, T)
  BY <1>2, FractionFolds
<1> HIDE DEF zero
<1>4. IsFold(FractionSum(f, S), Fractions, AddFractions, zero, f, S)
  BY <1>3
<1>5. /\ FractionSum(f, S) \in Fractions
      /\ S = {} => FractionSum(f, S) = zero
  <2> DEFINE v == FractionSum(f, S)
  <2>1. IsFold(v, Fractions, AddFractions, zero, f, S)
    BY <1>4
  <2> HIDE DEF v
  <2>2. v \in Fractions /\ (S = {} => v = zero)
    BY <1>1, <2>1, FoldLaws
  <2> QED
    BY <2>2 DEF v
<1>6. ASSUME NEW h, \A x \in S : h[x] = f[x]
      PROVE  FractionSum(h, S) = FractionSum(f, S)
  <2>1. IsFold(FractionSum(h, S), Fractions, AddFractions, zero, h, S)
    BY <1>3, <1>6
  <2> QED
    BY <1>1, <1>4, <1>6, <2>1, FoldLaws
<1>7. ASSUME NEW x \in S
      PROVE  FractionSum(f, S) = Plus(f[x], FractionSum(f, S \ {x}))
  <2>1. IsFold(FractionSum(f, S \ {x}), Fractions, AddFractions, zero, f, S \ {x})
    BY <1>3
  <2>2. FractionSum(f, S) = AddFractions[<<f[x], FractionSum(f, S \ {x})>>]
    BY <1>1, <1>4, <2>1, FoldLaws
  <2>3. FractionSum(f, S \ {x}) \in Fractions
    <3>1. IsFiniteSet(S \ {x}) /\ \A y \in S \ {x} : f[y] \in Fractions
      BY <1>2
    <3> QED
      BY <1>1, <2>1, <3>1, FoldLaws
  <2> QED
    BY <1>1, <2>2, <2>3
<1> QED
  BY <1>5, <1>6, <1>7 DEF zero

\* The same fractions, named by the elements of another set.
LEMMA FractionsRenamed ==
    ASSUME NEW A, IsFiniteSet(A), NEW h, \A a, b \in A : h[a] = h[b] => a = b,
           NEW f, NEW g, \A a \in A : f[h[a]] \in Fractions /\ g[a] = f[h[a]]
    PROVE  FractionSum(f, {h[a] : a \in A}) = FractionSum(g, A)
<1> DEFINE Image(T) == {h[a] : a \in T}
           P == {T \in SUBSET A : FractionSum(f, Image(T)) = FractionSum(g, T)}
<1>1. \A T \in SUBSET A : /\ IsFiniteSet(T) /\ IsFiniteSet(Image(T))
                          /\ \A x \in T : g[x] \in Fractions
                          /\ \A y \in Image(T) : f[y] \in Fractions
  <2> SUFFICES ASSUME NEW T \in SUBSET A
               PROVE  IsFiniteSet(T) /\ IsFiniteSet(Image(T))
    OBVIOUS
  <2>1. IsFiniteSet(T)
    BY FS_Subset
  <2> QED
    BY <2>1, ImageIsFinite
<1>2. ASSUME NEW T \in SUBSET A, \A x \in T : T \ {x} \in P PROVE T \in P
  <2>1. CASE T = {}
    <3>1. Image(T) = {}
      BY <2>1
    <3> HIDE DEF Image
    <3>2. FractionSum(f, Image(T)) = <<0, 1>> /\ FractionSum(g, T) = <<0, 1>>
      BY <1>1, <2>1, <3>1, FractionLaws
    <3> QED
      BY <3>2
  <2>2. CASE T # {}
    <3>1. PICK x \in T : TRUE
      BY <2>2
    <3>2. h[x] \in Image(T) /\ Image(T) \ {h[x]} = Image(T \ {x}) /\ g[x] = f[h[x]]
      OBVIOUS
    <3>3. FractionSum(f, Image(T \ {x})) = FractionSum(g, T \ {x})
      BY <1>2
    <3> HIDE DEF Image
    <3>4. FractionSum(f, Image(T)) = Plus(f[h[x]], FractionSum(f, Image(T) \ {h[x]}))
      BY <1>1, <3>2, FractionLaws
    <3>5. FractionSum(g, T) = Plus(g[x], FractionSum(g, T \ {x}))
      BY <1>1, FractionLaws
    <3> QED
      BY <3>2, <3>3, <3>4, <3>5
  <2> QED
    BY <2>1, <2>2
<1> HIDE DEF P
<1>3. \A T \in SUBSET A : T \in P
  BY <1>2, RemovalInduction
<1> QED
  BY <1>3 DEF P

\* Whole numbers add up as such.
LEMMA WholeFractions ==
    ASSUME NEW S, IsFiniteSet(S), NEW q, NEW f, \A x \in S : q[x] \in Nat /\ f[x] = <<q[x], 1>>
    PROVE  FractionSum(f, S) = <<SumFunctionOnSet(q, S), 1>>
<1> DEFINE P == {T \in SUBSET S : FractionSum(f, T) = <<SumFunctionOnSet(q, T), 1>>}
<1>1. \A T \in SUBSET S : /\ IsFiniteSet(T)
                          /\ \A x \in T : q[x] \in Int /\ q[x] \in Nat /\ f[x] \in Fractions
  <2>1. \A x \in S : q[x] \in Int /\ q[x] \in Nat /\ f[x] \in Fractions
    BY DEF Fractions
  <2>2. \A T \in SUBSET S : IsFiniteSet(T)
    BY FS_Subset
  <2> QED
    BY <2>1, <2>2
<1>2. ASSUME NEW T \in SUBSET S, \A x \in T : T \ {x} \in P PROVE T \in P
  <2>1. CASE T = {}
    <3>1. FractionSum(f, T) = <<0, 1>> /\ SumFunctionOnSet(q, T) = 0
      BY <1>1, <2>1, FractionLaws, SumLaws
    <3> QED
      BY <3>1
  <2>2. CASE T # {}
    <3>1. PICK x \in T : TRUE
      BY <2>2
    <3> DEFINE U == T \ {x}
               b == SumFunctionOnSet(q, U)
    <3>2. FractionSum(f, U) = <<b, 1>>
      BY <1>2
    <3>3. FractionSum(f, T) = Plus(f[x], FractionSum(f, U))
      BY <1>1, FractionLaws
    <3>4. SumFunctionOnSet(q, T) = q[x] + b
      BY <1>1, SumLaws
    <3>5. U \in SUBSET S
      OBVIOUS
    <3>6. b \in Nat /\ q[x] \in Nat /\ f[x] = <<q[x], 1>>
      BY <1>1, <3>5, SumOfNaturals
    <3> HIDE DEF b, U
    <3>7. Plus(<<q[x], 1>>, <<b, 1>>) = <<q[x] + b, 1>>
      BY <3>6 DEF Plus
    <3> QED
      BY <3>2, <3>3, <3>4, <3>6, <3>7
  <2> QED
    BY <2>1, <2>2
<1> HIDE DEF P
<1>3. \A T \in SUBSET S : T \in P
  BY <1>2, RemovalInduction
<1> QED
  BY <1>3 DEF P

\* u is n / d, rounded to a whole number.
Rounded(u, n, d) == 2 * (u * d) - 2 * n <= d /\ 2 * n - 2 * (u * d) <= d

\* Rounding errors add up: of a sum of rounded terms, half a unit per term.
LEMMA RoundedTerms ==
    ASSUME NEW S, IsFiniteSet(S), NEW K \in Nat, NEW f, NEW d,
           \A x \in S : f[x] \in Fractions /\ d[x] \in Nat /\ Rounded(d[x], f[x][1] * K, f[x][2])
    PROVE  LET t == FractionSum(f, S)
               u == SumFunctionOnSet(d, S)
           IN  /\ 2 * (u * t[2]) - 2 * (t[1] * K) <= Cardinality(S) * t[2]
               /\ 2 * (t[1] * K) - 2 * (u * t[2]) <= Cardinality(S) * t[2]
<1> DEFINE Within(n, D, u, c) == /\ 2 * (u * D) - 2 * (n * K) <= c * D
                               /\ 2 * (n * K) - 2 * (u * D) <= c * D
           Holds(T) == Within(FractionSum(f, T)[1], FractionSum(f, T)[2],
                            SumFunctionOnSet(d, T), Cardinality(T))
           P == {T \in SUBSET S : Holds(T)}
<1>1. \A T \in SUBSET S :
         /\ IsFiniteSet(T)
         /\ \A x \in T : f[x] \in Fractions /\ d[x] \in Int /\ d[x] \in Nat
  BY FS_Subset
<1>2. ASSUME NEW n \in Nat, NEW D \in Nat, NEW u \in Nat, NEW c \in Nat, Within(n, D, u, c),
             NEW a \in Nat, NEW b \in Nat, NEW r \in Nat, Rounded(r, a * K, b)
      PROVE  Within(a * D + n * b, b * D, r + u, c + 1)
  <2> DEFINE p == 2 * (u * D) - 2 * (n * K)
             q == 2 * (r * b) - 2 * (a * K)
  <2>1. p \in Int /\ q \in Int
    OBVIOUS
  <2>2. 2 * ((r + u) * (b * D)) - 2 * ((a * D + n * b) * K) = D * q + b * p
    OBVIOUS
  <2>3. 2 * ((a * D + n * b) * K) - 2 * ((r + u) * (b * D)) = D * (- q) + b * (- p)
    OBVIOUS
  <2>4. p <= c * D /\ - p <= c * D /\ q <= b /\ - q <= b
    BY <1>2 DEF Rounded
  <2>5. (c + 1) * (b * D) = D * b + b * (c * D)
    OBVIOUS
  <2>6. \A m \in Nat, x, y \in Int : x <= y => m * x <= m * y
    OBVIOUS
  <2> HIDE DEF p, q
  <2>7. /\ b * p <= b * (c * D) /\ b * (- p) <= b * (c * D)
        /\ D * q <= D * b /\ D * (- q) <= D * b
    BY <2>1, <2>4, <2>6
  <2>8. /\ b * p \in Int /\ b * (- p) \in Int /\ b * (c * D) \in Int
        /\ D * q \in Int /\ D * (- q) \in Int /\ D * b \in Int
    BY <2>1
  <2>9. D * q + b * p <= D * b + b * (c * D) /\ D * (- q) + b * (- p) <= D * b + b * (c * D)
    BY <2>7, <2>8
  <2> QED
    BY <2>2, <2>3, <2>5, <2>9
<1> HIDE DEF Within
<1>3. ASSUME NEW T \in SUBSET S, \A x \in T : T \ {x} \in P PROVE T \in P
  <2>1. CASE T = {}
    <3>1. FractionSum(f, T) = <<0, 1>> /\ SumFunctionOnSet(d, T) = 0 /\ Cardinality(T) = 0
      BY <1>1, <2>1, FractionLaws, SumLaws, FS_EmptySet
    <3>2. Within(0, 1, 0, 0)
      BY DEF Within
    <3> QED
      BY <3>1, <3>2
  <2>2. CASE T # {}
    <3>1. PICK x \in T : TRUE
      BY <2>2
    <3> DEFINE U == T \ {x}
               t == FractionSum(f, U)
               u == SumFunctionOnSet(d, U)
               c == Cardinality(U)
    <3>2. Within(t[1], t[2], u, c)
      BY <1>3
    <3>3. FractionSum(f, T) = Plus(f[x], t)
      BY <1>1, FractionLaws
    <3>4. SumFunctionOnSet(d, T) = d[x] + u
      BY <1>1, SumLaws
    <3>5. U \in SUBSET S
      OBVIOUS
    <3>6. Cardinality(T) = c + 1
      <4> DEFINE n == Cardinality(T)
      <4>1. n \in Nat /\ c = n - 1
        BY <1>1, FS_RemoveElement, FS_CardinalityType
      <4> HIDE DEF n, c
      <4>2. n = c + 1
        BY <4>1
      <4> QED
        BY <4>2 DEF n
    <3>7. u \in Nat /\ c \in Nat /\ t \in Fractions
      BY <1>1, <3>5, SumOfNaturals, FractionLaws, FS_CardinalityType
    <3>8. f[x] \in Fractions /\ d[x] \in Nat /\ Rounded(d[x], f[x][1] * K, f[x][2])
      OBVIOUS
    <3> HIDE DEF U, t, u, c
    <3>9. t[1] \in Nat /\ t[2] \in Nat /\ f[x][1] \in Nat /\ f[x][2] \in Nat
      BY <3>7, <3>8 DEF Fractions
    <3>10. Within(f[x][1] * t[2] + t[1] * f[x][2], f[x][2] * t[2], d[x] + u, c + 1)
      BY <1>2, <3>2, <3>7, <3>8, <3>9
    <3> QED
      BY <3>3, <3>4, <3>6, <3>10 DEF Plus
  <2> QED
    BY <2>1, <2>2
<1> HIDE DEF P
<1>4. \A T \in SUBSET S : T \in P
  BY <1>3, RemovalInduction
<1>5. Holds(S)
  BY <1>4 DEF P
<1> QED
  BY <1>5 DEF Within

\* Divide rounds.
LEMMA DivideRounds ==
    ASSUME NEW n \in Nat, NEW d \in Nat \ {0}
    PROVE  Divide(n, d) \in Nat /\ Rounded(Divide(n, d), n, d)
<1> DEFINE m == 2 * n + d
           e == 2 * d
           q == m \div e
<1>1. m \in Nat /\ e \in Nat \ {0}
  OBVIOUS
<1> HIDE DEF m, e
<1>2. q \in Nat /\ e * q <= m /\ m < e * q + e
  BY <1>1
<1>3. Divide(n, d) = q
  BY DEF Divide, m, e
<1> HIDE DEF q
<1>4. e * q = 2 * (q * d)
  BY <1>2 DEF e
<1>5. q * d \in Nat
  BY <1>2
<1> QED
  BY <1>2, <1>3, <1>4, <1>5 DEF Rounded, m, e

-----------------------------------------------------------------------------
(* The fan-out. *)

\* The queries whose rows are looked at.
Grouped == {"user", "product", "country"}

\* A query that has been answered saw what its shard held at some moment of the request;
\* the present is one of the moments of a request that runs and has not failed.
Snapshots ==
    /\ seen \in [Queries -> [Shards -> SUBSET Orders]]
    /\ pc = "idle" => pending = {} /\ ~ failed /\ moments = {}
    /\ pc = "running" => outcome = "none"
    /\ failed => moments = {}
    /\ pc = "running" /\ ~ failed =>
          /\ stored \in moments
          /\ \A q \in Grouped, s \in Shards :
                <<q, s>> \notin pending => \E M \in moments : seen[q][s] = Here(s, M)

IInv == TypeOK /\ Snapshots

LEMMA InitIInv == Init => IInv
BY DEF Init, IInv, TypeOK, Snapshots, Nothing, Here, Done

LEMMA StepIInv == IInv /\ [Next]_vars => IInv'
<1> SUFFICES ASSUME IInv, [Next]_vars PROVE IInv'
  OBVIOUS
<1> USE DEF IInv, TypeOK, Snapshots, Done
<1>1. ASSUME NEW s \in Shards, StoreChunk(s) PROVE IInv'
  <2>1. /\ stored \subseteq stored' /\ stored' \subseteq Orders
        /\ UNCHANGED <<pc, pending, failed, seen, outcome, report>>
        /\ moments' = IF moments = {} THEN {} ELSE moments \cup {stored'}
    BY <1>1 DEF StoreChunk, Here
  <2>2. moments' \subseteq SUBSET stored' /\ moments \subseteq moments'
    BY <2>1
  <2>3. \A q \in Queries, t \in Shards : seen'[q][t] \subseteq Here(t, stored')
    BY <2>1 DEF Here
  <2>4. pc = "running" /\ ~ failed => moments # {} /\ stored' \in moments'
    BY <2>1
  <2>5. pc = "running" /\ ~ failed =>
          \A q \in Grouped, t \in Shards :
              <<q, t>> \notin pending => \E M \in moments' : seen[q][t] = Here(t, M)
    BY <2>2
  <2> QED
    BY <2>1, <2>2, <2>3, <2>4, <2>5 DEF Here
<1>2. CASE StartReport
  BY <1>2 DEF StartReport, Grouped, Queries
<1>3. ASSUME NEW q \in Queries, NEW s \in Shards, AnswerQuery(q, s) PROVE IInv'
  <2>1. /\ pc = "running" /\ UNCHANGED <<stored, pc, failed, moments, outcome, report>>
        /\ pending' = pending \ {<<q, s>>} /\ pending \subseteq Queries \X Shards
    BY <1>3 DEF AnswerQuery
  <2>2. CASE failed \/ q = "pairs"
    <3>1. seen' = seen
      BY <1>3, <2>2 DEF AnswerQuery
    <3>2. ~ failed => \A r \in Grouped : r # q
      BY <2>2 DEF Grouped
    <3>3. ~ failed => \A r \in Grouped, t \in Shards :
             <<r, t>> \notin pending' => \E M \in moments : seen[r][t] = Here(t, M)
      BY <2>1, <3>2
    <3> QED
      BY <2>1, <3>1, <3>3 DEF Here
  <2>3. CASE ~ failed /\ q # "pairs"
    <3>1. seen' = [seen EXCEPT ![q][s] = Here(s, stored)]
      BY <1>3, <2>3 DEF AnswerQuery
    <3>2. Here(s, stored) \in SUBSET Orders /\ stored \in moments
      BY <2>1, <2>3 DEF Here
    <3>3. seen' \in [Queries -> [Shards -> SUBSET Orders]]
      BY <3>1, <3>2
    <3>4. \A r \in Queries, t \in Shards :
             seen'[r][t] = IF r = q /\ t = s THEN Here(s, stored) ELSE seen[r][t]
      BY <3>1
    <3>5. \A r \in Queries, t \in Shards : seen'[r][t] \subseteq Here(t, stored)
      BY <3>4
    <3>6. \A r \in Grouped, t \in Shards :
             <<r, t>> \notin pending' => \E M \in moments : seen'[r][t] = Here(t, M)
      <4> SUFFICES ASSUME NEW r \in Grouped, NEW t \in Shards, <<r, t>> \notin pending'
                   PROVE  \E M \in moments : seen'[r][t] = Here(t, M)
        OBVIOUS
      <4>1. r \in Queries
        BY DEF Grouped, Queries
      <4>2. CASE r = q /\ t = s
        BY <3>2, <3>4, <4>1, <4>2
      <4>3. CASE ~ (r = q /\ t = s)
        <5>1. <<r, t>> \notin pending
          BY <2>1, <4>3
        <5> QED
          BY <2>1, <2>3, <3>4, <4>1, <4>3, <5>1
      <4> QED
        BY <4>2, <4>3
    <3>7. Here(s, stored)' = Here(s, stored) /\ \A t : Here(t, stored') = Here(t, stored)
      BY <2>1
    <3> QED
      BY <2>1, <2>3, <3>3, <3>5, <3>6
  <2> QED
    BY <2>2, <2>3
<1>4. ASSUME NEW q \in Queries, NEW s \in Shards, FailQuery(q, s) PROVE IInv'
  BY <1>4 DEF FailQuery, Nothing
<1>5. CASE JoinRows
  <2>1. /\ outcome' = "report" /\ pc' = "idle" /\ failed' = FALSE /\ seen' = Nothing
        /\ UNCHANGED <<stored, pending>> /\ pending = {} /\ moments' = {}
    BY <1>5 DEF JoinRows, Finish
  <2>2. report' # <<>>
    <3>1. DOMAIN report' = {"user", "product", "country"}
      BY <1>5 DEF JoinRows
    <3>2. DOMAIN << >> = {}
      OBVIOUS
    <3> QED
      BY <3>1, <3>2
  <2>3. Nothing \in [Queries -> [Shards -> SUBSET Orders]]
        /\ \A q \in Queries, s \in Shards : Nothing[q][s] = {}
    BY DEF Nothing
  <2> QED
    BY <2>1, <2>2, <2>3
<1>6. CASE JoinFails
  BY <1>6 DEF JoinFails, Finish, Nothing
<1>7. CASE UNCHANGED vars
  BY <1>7 DEF vars, Here
<1> QED
  BY <1>1, <1>2, <1>3, <1>4, <1>5, <1>6, <1>7 DEF Next, EndQuery

\* IInv holds in every reachable state.
THEOREM Inductive == Spec => []IInv
BY InitIInv, StepIInv, PTL DEF Spec

\* The variables keep their types; in particular no query sees an order of another
\* shard, and there are sections exactly when the request was answered with them.
THEOREM TypeCorrect == Spec => []TypeOK
<1>1. IInv => TypeOK
  BY DEF IInv
<1> QED
  BY <1>1, Inductive, PTL

\* The shards' snapshots of one query together are a cut.
LEMMA SnapshotsAreCut ==
    ASSUME IInv, JoinRows, NEW q \in Grouped
    PROVE  \E T \in Cuts : \A s \in Shards : seen[q][s] = Here(s, T)
<1> DEFINE at == [s \in Shards |-> CHOOSE M \in moments : seen[q][s] = Here(s, M)]
           T  == UNION {Here(s, at[s]) : s \in Shards}
<1>1. \A s \in Shards : \E M \in moments : seen[q][s] = Here(s, M)
  BY DEF IInv, Snapshots, JoinRows
<1>2. \A s \in Shards : at[s] \in moments /\ seen[q][s] = Here(s, at[s])
  BY <1>1
<1>3. at \in [Shards -> moments]
  BY <1>2
<1> HIDE DEF at
<1>4. T \in Cuts
  BY <1>3 DEF Cuts
<1>5. \A s \in Shards : Here(s, T) = Here(s, at[s])
  BY DEF Here
<1> QED
  BY <1>2, <1>4, <1>5

\* A cut is a set of orders.
LEMMA CutsAreOrders == ASSUME IInv PROVE Cuts \subseteq SUBSET Orders
<1> SUFFICES ASSUME NEW at \in [Shards -> moments]
             PROVE  UNION {Here(s, at[s]) : s \in Shards} \subseteq Orders
  BY DEF Cuts
<1>1. \A s \in Shards : at[s] \in SUBSET Orders
  BY DEF IInv, TypeOK
<1> QED
  BY <1>1 DEF Here

-----------------------------------------------------------------------------
(* The sums of the queries. *)

LinesOf(p)   == [o \in Orders |-> Lines[o][p]]
JoinedOrders == [o \in Orders |-> Joined(o)]
InflatedOrders == [o \in Orders |-> Amount[o] * Joined(o)]

\* An order is joined with one row or with several.
LEMMA JoinedType == \A o \in Orders : Joined(o) \in Nat \ {0}
<1> SUFFICES ASSUME NEW o \in Orders PROVE Joined(o) \in Nat \ {0}
  OBVIOUS
<1> DEFINE items == {p \in Products : Lines[o][p] > 0}
           n == Cardinality(items)
<1>1. IsFiniteSet(Products) /\ items \subseteq Products
  BY DataAssumption
<1>2. n \in Nat
  BY <1>1, FS_Subset, FS_CardinalityType
<1> QED
  BY <1>2 DEF Joined

\* Every column is a sum of naturals, of one function on all orders.
LEMMA OrderSums ==
    ASSUME NEW T \in SUBSET Orders
    PROVE  /\ IsFiniteSet(T) /\ Cardinality(T) \in Nat /\ (T # {} => Cardinality(T) # 0)
           /\ Spent(T) \in Nat
           /\ \A p \in Products : /\ Quantity(p, T) = SumFunctionOnSet(LinesOf(p), T)
                                 /\ Quantity(p, T) \in Nat
           /\ JoinedRows(T) = SumFunctionOnSet(JoinedOrders, T)
           /\ JoinedRows(T) \in Nat /\ (T # {} => JoinedRows(T) # 0)
           /\ Inflated(T) = SumFunctionOnSet(InflatedOrders, T)
           /\ Inflated(T) \in Nat
<1>1. IsFiniteSet(T)
  BY FS_Subset, DataAssumption
<1>2. Cardinality(T) \in Nat /\ (T # {} => Cardinality(T) # 0)
  BY <1>1, FS_CardinalityType, FS_EmptySet
<1>3. Spent(T) \in Nat
  <2>1. \A o \in T : Amount[o] \in Nat
    BY DataAssumption
  <2> QED
    BY <1>1, <2>1, SumOfNaturals DEF Spent
<1>4. ASSUME NEW p \in Products
      PROVE  Quantity(p, T) = SumFunctionOnSet(LinesOf(p), T) /\ Quantity(p, T) \in Nat
  <2> DEFINE mine == [o \in T |-> Lines[o][p]]
             f == LinesOf(p)
  <2>1. Quantity(p, T) = SumFunctionOnSet(mine, T)
    BY DEF Quantity, SumFunction
  <2>2. \A o \in T : mine[o] \in Nat /\ mine[o] \in Int /\ mine[o] = f[o]
    BY DataAssumption DEF LinesOf
  <2> HIDE DEF mine, f
  <2>3. SumFunctionOnSet(mine, T) \in Nat
    BY <1>1, <2>2, SumOfNaturals
  <2>4. \A o \in T : f[o] = mine[o]
    BY <2>2
  <2>5. SumFunctionOnSet(f, T) = SumFunctionOnSet(mine, T)
    BY <1>1, <2>2, <2>4, SumLaws
  <2> QED
    BY <2>1, <2>3, <2>5 DEF f
<1>5. /\ JoinedRows(T) = SumFunctionOnSet(JoinedOrders, T)
      /\ JoinedRows(T) \in Nat /\ (T # {} => JoinedRows(T) # 0)
  <2> DEFINE mine == [o \in T |-> Joined(o)]
  <2>1. JoinedRows(T) = SumFunctionOnSet(mine, T)
    BY DEF JoinedRows, SumFunction
  <2>2. \A o \in T : /\ mine[o] \in Nat /\ mine[o] \in Int /\ mine[o] # 0
                     /\ JoinedOrders[o] = mine[o]
    BY JoinedType DEF JoinedOrders
  <2> HIDE DEF mine
  <2>3. SumFunctionOnSet(mine, T) \in Nat /\ (T # {} => SumFunctionOnSet(mine, T) # 0)
    BY <1>1, <2>2, SumOfNaturals
  <2>4. SumFunctionOnSet(JoinedOrders, T) = SumFunctionOnSet(mine, T)
    BY <1>1, <2>2, SumLaws
  <2> QED
    BY <2>1, <2>3, <2>4
<1>6. Inflated(T) = SumFunctionOnSet(InflatedOrders, T) /\ Inflated(T) \in Nat
  <2> DEFINE mine == [o \in T |-> Amount[o] * Joined(o)]
  <2>1. Inflated(T) = SumFunctionOnSet(mine, T)
    BY DEF Inflated, SumFunction
  <2>2. \A o \in T : /\ mine[o] \in Nat /\ mine[o] \in Int
                     /\ InflatedOrders[o] = mine[o]
    <3>1. \A a, b \in Nat : a * b \in Nat
      OBVIOUS
    <3> QED
      BY <3>1, JoinedType, DataAssumption DEF InflatedOrders
  <2> HIDE DEF mine
  <2>3. SumFunctionOnSet(mine, T) \in Nat
    BY <1>1, <2>2, SumOfNaturals
  <2>4. SumFunctionOnSet(InflatedOrders, T) = SumFunctionOnSet(mine, T)
    BY <1>1, <2>2, SumLaws
  <2> QED
    BY <2>1, <2>3, <2>4
<1> QED
  BY <1>1, <1>2, <1>3, <1>4, <1>5, <1>6

\* Means are fractions; NULL is the mean of nothing.
LEMMA MeanIsFraction ==
    ASSUME NEW S, IsFiniteSet(S), NEW f \in [S -> Fractions]
    PROVE  LET t == FractionSum(f, S)
           IN  /\ t \in Fractions /\ Cardinality(S) \in Nat
               /\ S = {} => Mean(f) = {}
               /\ S # {} => /\ Mean(f) = {<<t[1], t[2] * Cardinality(S)>>}
                            /\ <<t[1], t[2] * Cardinality(S)>> \in Fractions
<1> DEFINE t == FractionSum(f, S)
           n == Cardinality(S)
<1>1. t \in Fractions
  BY FractionLaws
<1>2. n \in Nat /\ (S # {} => n # 0)
  BY FS_CardinalityType, FS_EmptySet
<1>3. DOMAIN f = S
  OBVIOUS
<1>4. Mean(f) = IF S = {} THEN {} ELSE {<<t[1], t[2] * n>>}
  BY <1>3 DEF Mean, FoldFunction, FractionSum
<1> HIDE DEF t, n
<1>5. S # {} => <<t[1], t[2] * n>> \in Fractions
  <2>1. \A a, b \in Nat \ {0} : a * b \in Nat \ {0}
    OBVIOUS
  <2> QED
    BY <1>1, <1>2, <2>1 DEF Fractions
<1> QED
  BY <1>1, <1>2, <1>4, <1>5 DEF t, n

\* A mean that is rounded once is near.
LEMMA OnceRounded ==
    ASSUME NEW f \in Fractions
    PROVE  Near(Divide(f[1] * Scale, f[2]), {f}, 1)
<1> DEFINE u == Divide(f[1] * Scale, f[2])
           n == f[1] * Scale
           d == f[2]
<1>1. n \in Nat /\ d \in Nat \ {0}
  BY DataAssumption DEF Fractions
<1>2. u \in Nat /\ Rounded(u, n, d)
  BY <1>1, DivideRounds
<1>3. ASSUME NEW g \in {f}
      PROVE  LET gap == u * g[2] - g[1] * Scale
             IN  2 * gap <= 1 * g[2] /\ -2 * gap <= 1 * g[2]
  <2>1. g[2] = d /\ g[1] * Scale = n
    OBVIOUS
  <2> HIDE DEF u, n, d
  <2>2. LET gap == u * d - n IN 2 * gap <= 1 * d /\ -2 * gap <= 1 * d
    BY <1>1, <1>2 DEF Rounded
  <2> QED
    BY <2>1, <2>2
<1> QED
  BY <1>3 DEF Near

-----------------------------------------------------------------------------
(* The users' section. *)

UserRow(T) == [u \in Buyers(T) |-> [user |-> u, orders |-> Cardinality(Of(u, T)),
                                    spent |-> Spent(Of(u, T))]]

\* Snapshots of T give one row per user: all of a user's orders are on the
\* user's shard.
LEMMA UserRowsOfCut ==
    ASSUME NEW T \in SUBSET Orders, \A s \in Shards : seen["user"][s] = Here(s, T)
    PROVE  Flatten(UserRows) = {UserRow(T)[u] : u \in Buyers(T)}
<1>1. \A o \in T : Owner[o] \in Users /\ Home[Owner[o]] \in Shards
  BY DataAssumption
<1>2. ASSUME NEW s \in Shards, NEW u \in Buyers(Here(s, T))
      PROVE  u \in Buyers(T) /\ Of(u, Here(s, T)) = Of(u, T)
  BY DEF Buyers, Here, Of
<1>3. ASSUME NEW u \in Buyers(T)
      PROVE  Home[u] \in Shards /\ u \in Buyers(Here(Home[u], T))
  BY <1>1 DEF Buyers, Here
<1> DEFINE row(s, u) == [user |-> u, orders |-> Cardinality(Of(u, Here(s, T))),
                         spent |-> Spent(Of(u, Here(s, T)))]
<1>4. \A s \in Shards : UserRows(s) = {row(s, u) : u \in Buyers(Here(s, T))}
  BY DEF UserRows
<1>5. \A s \in Shards : \A u \in Buyers(Here(s, T)) : row(s, u) = UserRow(T)[u]
  BY <1>2 DEF UserRow
<1> HIDE DEF row
<1>6. \A s \in Shards : UserRows(s) \subseteq {UserRow(T)[u] : u \in Buyers(T)}
  BY <1>2, <1>4, <1>5
<1>7. \A u \in Buyers(T) : UserRow(T)[u] \in UserRows(Home[u]) /\ Home[u] \in Shards
  BY <1>3, <1>4, <1>5
<1>8. Flatten(UserRows) = UNION {UserRows(s) : s \in Shards}
  BY DEF Flatten
<1> QED
  BY <1>6, <1>7, <1>8

\* What the users' rows add up to.
LEMMA UserRowSums ==
    ASSUME NEW T \in SUBSET Orders
    PROVE  LET B    == Buyers(T)
               row  == UserRow(T)
               rows == {row[u] : u \in B}
           IN  /\ IsFiniteSet(B) /\ IsFiniteSet(rows) /\ Cardinality(rows) = Cardinality(B)
               /\ Total(LAMBDA r : r.orders, rows) = Cardinality(T)
               /\ Total(LAMBDA r : r.spent, rows) = Spent(T)
               /\ Cardinality({r \in rows : r.orders > ManyOrders}) =
                     Cardinality({u \in B : Cardinality(Of(u, T)) > ManyOrders})
<1> DEFINE B    == Buyers(T)
           row  == UserRow(T)
           rows == {row[u] : u \in B}
           key  == [o \in T |-> Owner[o]]
           orders == [r \in rows |-> r.orders]
           spent  == [r \in rows |-> r.spent]
           ordersOf == [u \in B |-> Cardinality(Of(u, T))]
           spentOf  == [u \in B |-> Spent(Of(u, T))]
           special == {u \in B : Cardinality(Of(u, T)) > ManyOrders}
<1>1. IsFiniteSet(T)
  BY OrderSums
<1>2. IsFiniteSet(B)
  BY <1>1, ImageIsFinite DEF Buyers
<1>3. \A u, v \in B : row[u] = row[v] => u = v
  BY DEF UserRow
<1>4. \A u \in B : row[u].orders = Cardinality(Of(u, T)) /\ row[u].spent = Spent(Of(u, T))
  BY DEF UserRow
<1>5. \A u \in B : /\ Of(u, T) \in SUBSET Orders /\ Of(u, T) = {o \in T : key[o] = u}
                   /\ Cardinality(Of(u, T)) \in Int /\ Spent(Of(u, T)) \in Int
  <2>1. \A u \in B : Of(u, T) \in SUBSET Orders /\ Of(u, T) = {o \in T : key[o] = u}
    BY DEF Of
  <2> QED
    BY <2>1, OrderSums
<1>6. IsFiniteSet(rows) /\ Cardinality(rows) = Cardinality(B)
  BY <1>2, <1>3, ImageIsFinite
<1>7. \A o \in T : key[o] \in B
  BY DEF Buyers
<1>8. SumFunctionOnSet(ordersOf, B) = Cardinality(T)
  <2>1. \A u \in B : ordersOf[u] = Cardinality({o \in T : key[o] = u})
    BY <1>5
  <2> HIDE DEF ordersOf, B, key
  <2> QED
    BY <1>1, <1>2, <1>7, <2>1, SizeByKey
<1>9. SumFunctionOnSet(spentOf, B) = Spent(T)
  <2> DEFINE part == [u \in B |-> Of(u, T)]
  <2>1. part \in [B -> SUBSET T] /\ \A u \in B : \A o \in T : o \in part[u] <=> key[o] = u
    BY DEF Of
  <2>2. \A u \in B : spentOf[u] = SumFunctionOnSet(Amount, part[u])
    BY DEF Spent
  <2>3. \A o \in T : Amount[o] \in Int /\ key[o] \in B
    BY <1>7, DataAssumption
  <2> HIDE DEF spentOf, B, key, part
  <2>4. SumFunctionOnSet(spentOf, B) = SumFunctionOnSet(Amount, T)
    BY <1>1, <1>2, <2>1, <2>2, <2>3, SumByKey
  <2> QED
    BY <2>4 DEF Spent
<1>10. Total(LAMBDA r : r.orders, rows) = Cardinality(T)
  <2>1. Total(LAMBDA r : r.orders, rows) = SumFunctionOnSet(orders, rows)
    BY DEF Total, SumFunction
  <2>2. \A u \in B : orders[row[u]] \in Int /\ ordersOf[u] = orders[row[u]]
    BY <1>4, <1>5
  <2> HIDE DEF B, row, orders, ordersOf
  <2>3. SumFunctionOnSet(orders, rows) = SumFunctionOnSet(ordersOf, B)
    BY <1>2, <1>3, <2>2, SumRenamed
  <2> QED
    BY <1>8, <2>1, <2>3
<1>11. Total(LAMBDA r : r.spent, rows) = Spent(T)
  <2>1. Total(LAMBDA r : r.spent, rows) = SumFunctionOnSet(spent, rows)
    BY DEF Total, SumFunction
  <2>2. \A u \in B : spent[row[u]] \in Int /\ spentOf[u] = spent[row[u]]
    BY <1>4, <1>5
  <2> HIDE DEF B, row, spent, spentOf
  <2>3. SumFunctionOnSet(spent, rows) = SumFunctionOnSet(spentOf, B)
    BY <1>2, <1>3, <2>2, SumRenamed
  <2> QED
    BY <1>9, <2>1, <2>3
<1>12. Cardinality({r \in rows : r.orders > ManyOrders}) = Cardinality(special)
  <2>1. {r \in rows : r.orders > ManyOrders} = {row[u] : u \in special}
    BY <1>4
  <2>2. IsFiniteSet(special) /\ special \subseteq B
    BY <1>2, FS_Subset
  <2> HIDE DEF B, row, special
  <2>3. Cardinality({row[u] : u \in special}) = Cardinality(special)
    BY <1>3, <2>2, ImageIsFinite
  <2> QED
    BY <2>1, <2>3
<1> QED
  BY <1>2, <1>6, <1>10, <1>11, <1>12

\* The rows of a cut average as its users do.
LEMMA UserRowsMean ==
    ASSUME NEW T \in SUBSET Orders
    PROVE  LET B    == Buyers(T)
               row  == UserRow(T)
               rows == {row[u] : u \in B}
               mine == Mean([u \in B |-> <<Spent(Of(u, T)), Cardinality(Of(u, T))>>])
           IN  /\ Mean([r \in rows |-> <<r.spent, r.orders>>]) = mine
               /\ B = {} => mine = {}
               /\ B # {} => \E f \in Fractions : mine = {f}
<1> DEFINE B    == Buyers(T)
           row  == UserRow(T)
           rows == {row[u] : u \in B}
           f    == [r \in rows |-> <<r.spent, r.orders>>]
           g    == [u \in B |-> <<Spent(Of(u, T)), Cardinality(Of(u, T))>>]
<1>1. IsFiniteSet(B) /\ IsFiniteSet(rows) /\ Cardinality(rows) = Cardinality(B)
  BY UserRowSums
<1>2. \A u, v \in B : row[u] = row[v] => u = v
  BY DEF UserRow
<1>3. \A u \in B : g[u] \in Fractions /\ g[u] = f[row[u]]
  <2> SUFFICES ASSUME NEW u \in B PROVE g[u] \in Fractions /\ g[u] = f[row[u]]
    OBVIOUS
  <2>1. Of(u, T) \in SUBSET Orders /\ Of(u, T) # {}
    BY DEF Of, Buyers
  <2>2. Spent(Of(u, T)) \in Nat /\ Cardinality(Of(u, T)) \in Nat \ {0}
    BY <2>1, OrderSums
  <2>3. row[u] = [user |-> u, orders |-> Cardinality(Of(u, T)), spent |-> Spent(Of(u, T))]
    BY DEF UserRow
  <2> QED
    BY <2>2, <2>3 DEF Fractions
<1>4. \A r \in rows : f[r] \in Fractions
  BY <1>3
<1>5. DOMAIN f = rows /\ DOMAIN g = B
  OBVIOUS
<1>6. f \in [rows -> Fractions] /\ g \in [B -> Fractions]
  <2>1. f = [r \in rows |-> f[r]] /\ g = [u \in B |-> g[u]]
    OBVIOUS
  <2> HIDE DEF f, g, rows
  <2> QED
    BY <1>3, <1>4, <2>1
<1>7. rows = {} <=> B = {}
  OBVIOUS
<1> HIDE DEF f, g, row, B
<1>8. FractionSum(f, rows) = FractionSum(g, B)
  BY <1>1, <1>2, <1>3, FractionsRenamed
<1> DEFINE t == FractionSum(g, B)
           n == Cardinality(B)
<1>9. /\ B = {} => Mean(g) = {}
      /\ B # {} => Mean(g) = {<<t[1], t[2] * n>>} /\ <<t[1], t[2] * n>> \in Fractions
  BY <1>1, <1>6, MeanIsFraction
<1>10. /\ rows = {} => Mean(f) = {}
       /\ rows # {} => Mean(f) = {<<FractionSum(f, rows)[1], FractionSum(f, rows)[2] * Cardinality(rows)>>}
  <2> HIDE DEF rows
  <2> QED
    BY <1>1, <1>6, MeanIsFraction
<1>11. Mean(f) = Mean(g)
  <2> HIDE DEF rows
  <2> QED
    BY <1>1, <1>7, <1>8, <1>9, <1>10
<1>12. (B = {} => Mean(g) = {}) /\ (B # {} => \E h \in Fractions : Mean(g) = {h})
  BY <1>9
<1> QED
  BY <1>11, <1>12 DEF f, g, row, B

\* Sums over nothing are 0.
LEMMA NothingSold ==
    /\ Spent({}) = 0 /\ Inflated({}) = 0
    /\ \A f : SumFunction([p \in {} |-> f[p]]) = 0
<1>1. IsFiniteSet({})
  BY FS_EmptySet
<1>2. \A f : SumFunctionOnSet(f, {}) = 0
  BY <1>1, SumLaws
<1> QED
  BY <1>2 DEF Spent, Inflated, SumFunction

\* The users' section of the coordinator's report, from snapshots of T.
LEMMA UsersOfCut ==
    ASSUME NEW T \in SUBSET Orders, \A s \in Shards : seen["user"][s] = Here(s, T)
    PROVE  IsRollUp(AggregateUsers, UserRollUp(T), 1)
<1> DEFINE B    == Buyers(T)
           row  == UserRow(T)
           rows == {row[u] : u \in B}
           mine == Mean([u \in B |-> <<Spent(Of(u, T)), Cardinality(Of(u, T))>>])
           theirs == Mean([r \in rows |-> <<r.spent, r.orders>>])
           many == Cardinality({u \in B : Cardinality(Of(u, T)) > ManyOrders})
<1>1. Flatten(UserRows) = rows
  BY UserRowsOfCut
<1>2. theirs = mine /\ (B = {} => mine = {}) /\ (B # {} => \E f \in Fractions : mine = {f})
  BY UserRowsMean
<1>3. /\ Cardinality(rows) = Cardinality(B)
      /\ Total(LAMBDA r : r.orders, rows) = Cardinality(T)
      /\ Total(LAMBDA r : r.spent, rows) = Spent(T)
      /\ Cardinality({r \in rows : r.orders > ManyOrders}) = many
  BY UserRowSums
<1>4. AggregateUsers =
        Section(Cardinality(rows), Total(LAMBDA r : r.orders, rows),
                {Total(LAMBDA r : r.spent, rows)},
                IF rows = {} THEN 0
                ELSE LET f == CHOOSE f \in theirs : TRUE IN Divide(f[1] * Scale, f[2]),
                Cardinality({r \in rows : r.orders > ManyOrders}))
  BY <1>1 DEF AggregateUsers
<1>5. rows = {} <=> B = {}
  OBVIOUS
<1>6. UserRollUp(T) = Section(Cardinality(B), Cardinality(T), SumOrNull(Spent(T), T), mine, many)
  BY DEF UserRollUp
<1> DEFINE average == IF B = {} THEN 0
                      ELSE LET f == CHOOSE f \in mine : TRUE IN Divide(f[1] * Scale, f[2])
<1>8. AggregateUsers = Section(Cardinality(B), Cardinality(T), {Spent(T)}, average, many)
  <2> HIDE DEF rows, B, many, theirs, mine
  <2> QED
    BY <1>2, <1>3, <1>4, <1>5
<1>9. IF mine = {} THEN average = 0 ELSE Near(average, mine, 1)
  <2> HIDE DEF mine, B
  <2>1. CASE B = {}
    BY <1>2, <2>1
  <2>2. CASE B # {}
    <3>1. PICK f \in Fractions : mine = {f}
      BY <1>2, <2>2
    <3>2. (CHOOSE g \in mine : TRUE) = f
      BY <3>1
    <3>3. average = Divide(f[1] * Scale, f[2])
      BY <2>2, <3>2
    <3> QED
      BY <3>1, <3>3, OnceRounded
  <2> QED
    BY <2>1, <2>2
<1>10. T = {} => Spent(T) = 0
  BY NothingSold
<1> HIDE DEF rows, B, many, theirs, mine, average
<1> QED
  BY <1>6, <1>8, <1>9, <1>10 DEF IsRollUp, Section, SumOrNull

-----------------------------------------------------------------------------
(* The products' section. *)

\* The shards and products that have a row, those of product p, and the columns.
ProductKeys(T)   == {k \in Shards \X Products : With(k[2], Here(k[1], T)) # {}}
KeysOf(p, T)     == {k \in ProductKeys(T) : k[2] = p}
TimesAt(T)       == [k \in ProductKeys(T) |-> Cardinality(With(k[2], Here(k[1], T)))]
QuantityAt(T)    == [k \in ProductKeys(T) |-> Quantity(k[2], Here(k[1], T))]
RevenueAt(T)     == [k \in ProductKeys(T) |-> Price[k[2]] * Quantity(k[2], Here(k[1], T))]
ProductRow(T)    == [k \in ProductKeys(T) |->
                        [shard |-> k[1], product |-> k[2], times |-> TimesAt(T)[k],
                         quantity |-> QuantityAt(T)[k], revenue |-> RevenueAt(T)[k]]]

\* The columns are naturals, and there are finitely many rows.
LEMMA ProductColumns ==
    ASSUME NEW T \in SUBSET Orders
    PROVE  /\ IsFiniteSet(ProductKeys(T))
           /\ \A k \in ProductKeys(T) : /\ TimesAt(T)[k] \in Nat /\ QuantityAt(T)[k] \in Nat
                                        /\ RevenueAt(T)[k] \in Nat
                                        /\ RevenueAt(T)[k] = Price[k[2]] * QuantityAt(T)[k]
<1>1. IsFiniteSet(Shards \X Products)
  BY DataAssumption, FS_Product
<1>2. IsFiniteSet(ProductKeys(T))
  BY <1>1, FS_Subset DEF ProductKeys
<1>3. \A a, b \in Nat : a * b \in Nat
  OBVIOUS
<1>4. ASSUME NEW k \in ProductKeys(T)
      PROVE  /\ TimesAt(T)[k] \in Nat /\ QuantityAt(T)[k] \in Nat /\ RevenueAt(T)[k] \in Nat
             /\ RevenueAt(T)[k] = Price[k[2]] * QuantityAt(T)[k]
  <2> DEFINE H == Here(k[1], T)
  <2>1. H \in SUBSET Orders /\ With(k[2], H) \in SUBSET Orders /\ k[2] \in Products
    BY DEF Here, With, ProductKeys
  <2> HIDE DEF H
  <2>2. Cardinality(With(k[2], H)) \in Nat /\ Quantity(k[2], H) \in Nat /\ Price[k[2]] \in Nat
    BY <2>1, OrderSums, DataAssumption
  <2>3. /\ TimesAt(T)[k] = Cardinality(With(k[2], H)) /\ QuantityAt(T)[k] = Quantity(k[2], H)
        /\ RevenueAt(T)[k] = Price[k[2]] * Quantity(k[2], H)
    BY DEF TimesAt, QuantityAt, RevenueAt, H
  <2> QED
    BY <1>3, <2>2, <2>3
<1> QED
  BY <1>2, <1>4

\* Over the shards, the rows of one product add up to the product's row.
LEMMA ProductOverShards ==
    ASSUME NEW T \in SUBSET Orders, NEW p \in Products
    PROVE  /\ IsFiniteSet(KeysOf(p, T))
           /\ SumFunctionOnSet(TimesAt(T), KeysOf(p, T)) = Cardinality(With(p, T))
           /\ SumFunctionOnSet(QuantityAt(T), KeysOf(p, T)) = Quantity(p, T)
           /\ SumFunctionOnSet(RevenueAt(T), KeysOf(p, T)) = Price[p] * Quantity(p, T)
<1> DEFINE S == With(p, T)
           B == KeysOf(p, T)
           key == [o \in S |-> <<Home[Owner[o]], p>>]
           piece == [b \in B |-> With(p, Here(b[1], T))]
           f == LinesOf(p)
<1>1. S \in SUBSET Orders /\ S \in SUBSET T
  BY DEF With
<1>2. IsFiniteSet(S) /\ IsFiniteSet(T)
  BY <1>1, OrderSums
<1>3. B \in SUBSET ProductKeys(T) /\ IsFiniteSet(B)
  <2>1. B \in SUBSET ProductKeys(T)
    BY DEF KeysOf
  <2> QED
    BY <2>1, ProductColumns, FS_Subset
<1>4. \A o \in S : key[o] \in B
  <2> SUFFICES ASSUME NEW o \in S PROVE <<Home[Owner[o]], p>> \in B
    OBVIOUS
  <2>1. Home[Owner[o]] \in Shards
    BY <1>1, DataAssumption
  <2>2. o \in With(p, Here(Home[Owner[o]], T))
    BY DEF With, Here
  <2> QED
    BY <2>1, <2>2 DEF KeysOf, ProductKeys
<1>5. \A b \in B : b = <<b[1], p>> /\ b[2] = p
  BY DEF KeysOf, ProductKeys
<1>6. piece \in [B -> SUBSET S]
  BY DEF With, Here
<1>7. \A b \in B : \A o \in S : o \in piece[b] <=> key[o] = b
  BY <1>5 DEF With, Here
<1>8. \A b \in B : TimesAt(T)[b] = Cardinality({o \in S : key[o] = b})
  <2> SUFFICES ASSUME NEW b \in B PROVE TimesAt(T)[b] = Cardinality({o \in S : key[o] = b})
    OBVIOUS
  <2>1. TimesAt(T)[b] = Cardinality(piece[b])
    BY <1>3, <1>5 DEF TimesAt
  <2>2. piece[b] = {o \in S : key[o] = b}
    <3> HIDE DEF piece, S, key
    <3> QED
      BY <1>6, <1>7
  <2> QED
    BY <2>1, <2>2
<1>9. \A U \in SUBSET T : Quantity(p, U) = SumFunctionOnSet(f, With(p, U))
  <2> SUFFICES ASSUME NEW U \in SUBSET T
               PROVE  Quantity(p, U) = SumFunctionOnSet(f, With(p, U))
    OBVIOUS
  <2>1. IsFiniteSet(U) /\ Quantity(p, U) = SumFunctionOnSet(f, U)
    BY OrderSums
  <2>2. With(p, U) \in SUBSET U /\ \A o \in U : f[o] \in Int
    BY DataAssumption DEF With, LinesOf
  <2>3. \A o \in U \ With(p, U) : f[o] = 0
    <3>1. \A n \in Nat : ~ (n > 0) => n = 0
      OBVIOUS
    <3> QED
      BY <3>1, DataAssumption DEF With, LinesOf
  <2> HIDE DEF f
  <2>4. SumFunctionOnSet(f, U) = SumFunctionOnSet(f, With(p, U))
    BY <2>1, <2>2, <2>3, SumOfPart
  <2> QED
    BY <2>1, <2>4
<1>10. \A b \in B : QuantityAt(T)[b] = SumFunctionOnSet(f, piece[b])
  <2> SUFFICES ASSUME NEW b \in B PROVE QuantityAt(T)[b] = SumFunctionOnSet(f, piece[b])
    OBVIOUS
  <2>1. QuantityAt(T)[b] = Quantity(p, Here(b[1], T)) /\ Here(b[1], T) \in SUBSET T
    BY <1>3, <1>5 DEF QuantityAt, Here
  <2> HIDE DEF f
  <2> QED
    BY <1>9, <2>1
<1>11. \A o \in S : f[o] \in Int /\ key[o] \in B
  BY <1>1, <1>4, DataAssumption DEF LinesOf
<1>12. Quantity(p, T) = SumFunctionOnSet(f, S)
  <2> HIDE DEF f
  <2> QED
    BY <1>9
<1>13. \A b \in B : /\ QuantityAt(T)[b] \in Int
                    /\ RevenueAt(T)[b] = Price[p] * QuantityAt(T)[b]
  BY <1>3, <1>5, ProductColumns
<1>14. Price[p] \in Int
  BY DataAssumption
<1> HIDE DEF S, B, key, piece, f
<1>15. SumFunctionOnSet(TimesAt(T), B) = Cardinality(S)
  BY <1>2, <1>3, <1>4, <1>8, SizeByKey
<1>16. SumFunctionOnSet(QuantityAt(T), B) = SumFunctionOnSet(f, S)
  BY <1>2, <1>3, <1>6, <1>7, <1>10, <1>11, SumByKey
<1>17. SumFunctionOnSet(RevenueAt(T), B) = Price[p] * SumFunctionOnSet(QuantityAt(T), B)
  BY <1>3, <1>13, <1>14, SumOfMultiples
<1> QED
  BY <1>3, <1>12, <1>15, <1>16, <1>17 DEF S, B

\* Snapshots of T give one row per shard and product sold there.
LEMMA ProductRowsOfCut ==
    ASSUME NEW T \in SUBSET Orders, \A s \in Shards : seen["product"][s] = Here(s, T)
    PROVE  Flatten(ProductRows) = {ProductRow(T)[k] : k \in ProductKeys(T)}
<1> DEFINE H(s) == Here(s, T)
           row(s, p) == [shard |-> s, product |-> p, times |-> Cardinality(With(p, H(s))),
                         quantity |-> Quantity(p, H(s)), revenue |-> Price[p] * Quantity(p, H(s))]
<1>1. \A s \in Shards : ProductRows(s) = {row(s, p) : p \in Sold(H(s))}
  BY DEF ProductRows
<1>2. \A s \in Shards : \A p \in Sold(H(s)) :
         <<s, p>> \in ProductKeys(T) /\ row(s, p) = ProductRow(T)[<<s, p>>]
  BY DEF Sold, ProductKeys, ProductRow, TimesAt, QuantityAt, RevenueAt
<1>3. \A k \in ProductKeys(T) :
         /\ k[1] \in Shards /\ k[2] \in Sold(H(k[1])) /\ k = <<k[1], k[2]>>
  BY DEF Sold, ProductKeys
<1> HIDE DEF row, H
<1>4. ASSUME NEW s \in Shards, NEW r \in ProductRows(s)
      PROVE  r \in {ProductRow(T)[k] : k \in ProductKeys(T)}
  <2>1. PICK p \in Sold(H(s)) : r = row(s, p)
    BY <1>1
  <2>2. <<s, p>> \in ProductKeys(T) /\ r = ProductRow(T)[<<s, p>>]
    BY <1>2, <2>1
  <2> QED
    BY <2>2
<1>5. \A k \in ProductKeys(T) : ProductRow(T)[k] \in ProductRows(k[1]) /\ k[1] \in Shards
  BY <1>1, <1>2, <1>3
<1>6. Flatten(ProductRows) = UNION {ProductRows(s) : s \in Shards}
  BY DEF Flatten
<1> QED
  BY <1>4, <1>5, <1>6

\* A product is sold on some shard or not at all.
LEMMA SoldSomewhere ==
    ASSUME NEW T \in SUBSET Orders
    PROVE  /\ Sold(T) = {k[2] : k \in ProductKeys(T)}
           /\ IsFiniteSet(Sold(T)) /\ Sold(T) \subseteq Products
<1>1. ASSUME NEW p \in Sold(T) PROVE \E k \in ProductKeys(T) : k[2] = p
  <2>1. PICK o \in T : Lines[o][p] > 0
    BY DEF Sold, With
  <2>2. Home[Owner[o]] \in Shards /\ p \in Products
    BY DataAssumption DEF Sold
  <2>3. o \in With(p, Here(Home[Owner[o]], T))
    BY <2>1 DEF With, Here
  <2>4. <<Home[Owner[o]], p>> \in ProductKeys(T)
    BY <2>2, <2>3 DEF ProductKeys
  <2> QED
    BY <2>4
<1>2. ASSUME NEW k \in ProductKeys(T) PROVE k[2] \in Sold(T)
  BY DEF ProductKeys, Sold, With, Here
<1>3. IsFiniteSet(Sold(T)) /\ Sold(T) \subseteq Products
  BY DataAssumption, FS_Subset DEF Sold
<1> QED
  BY <1>1, <1>2, <1>3

\* What the products' rows add up to.
LEMMA ProductRowSums ==
    ASSUME NEW T \in SUBSET Orders
    PROVE  LET row  == ProductRow(T)
               rows == {row[k] : k \in ProductKeys(T)}
           IN  /\ {r.product : r \in rows} = Sold(T)
               /\ Total(LAMBDA r : r.times, rows) =
                     SumFunction([p \in Sold(T) |-> Cardinality(With(p, T))])
               /\ Total(LAMBDA r : r.quantity, rows) =
                     SumFunctionOnSet([p \in Sold(T) |-> Quantity(p, T)], Sold(T))
               /\ \A p \in Products : Total(LAMBDA r : r.revenue, {r \in rows : r.product = p}) =
                                        Price[p] * Quantity(p, T)
<1> DEFINE K    == ProductKeys(T)
           B    == Sold(T)
           row  == ProductRow(T)
           rows == {row[k] : k \in K}
           key  == [k \in K |-> k[2]]
           piece == [p \in B |-> KeysOf(p, T)]
           times == [r \in rows |-> r.times]
           quantity == [r \in rows |-> r.quantity]
           timesOf == [p \in B |-> Cardinality(With(p, T))]
           quantityOf == [p \in B |-> Quantity(p, T)]
<1>1. IsFiniteSet(K) /\ IsFiniteSet(B) /\ B \subseteq Products
  BY ProductColumns, SoldSomewhere
<1>2. \A k, l \in K : row[k] = row[l] => k = l
  <2>1. \A k \in K : row[k].shard = k[1] /\ row[k].product = k[2] /\ k = <<k[1], k[2]>>
    BY DEF ProductRow, ProductKeys
  <2> QED
    BY <2>1
<1>3. \A k \in K : /\ row[k].product = k[2] /\ row[k].times = TimesAt(T)[k]
                   /\ row[k].quantity = QuantityAt(T)[k] /\ row[k].revenue = RevenueAt(T)[k]
  BY DEF ProductRow
<1>4. \A k \in K : /\ TimesAt(T)[k] \in Int /\ QuantityAt(T)[k] \in Int
                   /\ RevenueAt(T)[k] \in Int
  BY ProductColumns
<1>5. {r.product : r \in rows} = B
  BY <1>3, SoldSomewhere
<1>6. \A k \in K : key[k] \in B
  BY SoldSomewhere
<1>7. piece \in [B -> SUBSET K] /\ \A p \in B : \A k \in K : k \in piece[p] <=> key[k] = p
  BY DEF KeysOf
<1>8. SumFunctionOnSet(TimesAt(T), K) = SumFunctionOnSet(timesOf, B)
  <2>1. \A p \in B : timesOf[p] = SumFunctionOnSet(TimesAt(T), piece[p])
    BY <1>1, ProductOverShards
  <2>2. \A k \in K : TimesAt(T)[k] \in Int /\ key[k] \in B
    BY <1>4, <1>6
  <2> HIDE DEF K, B, key, piece, timesOf
  <2> QED
    BY <1>1, <1>7, <2>1, <2>2, SumByKey
<1>9. SumFunctionOnSet(QuantityAt(T), K) = SumFunctionOnSet(quantityOf, B)
  <2>1. \A p \in B : quantityOf[p] = SumFunctionOnSet(QuantityAt(T), piece[p])
    BY <1>1, ProductOverShards
  <2>2. \A k \in K : QuantityAt(T)[k] \in Int /\ key[k] \in B
    BY <1>4, <1>6
  <2> HIDE DEF K, B, key, piece, quantityOf
  <2> QED
    BY <1>1, <1>7, <2>1, <2>2, SumByKey
<1>10. Total(LAMBDA r : r.times, rows) = SumFunctionOnSet(TimesAt(T), K)
  <2>1. Total(LAMBDA r : r.times, rows) = SumFunctionOnSet(times, rows)
    BY DEF Total, SumFunction
  <2> DEFINE g == TimesAt(T)
  <2>2. \A k \in K : times[row[k]] \in Int /\ g[k] = times[row[k]]
    BY <1>3, <1>4
  <2> HIDE DEF K, row, times, g
  <2>3. SumFunctionOnSet(times, rows) = SumFunctionOnSet(g, K)
    BY <1>1, <1>2, <2>2, SumRenamed
  <2> QED
    BY <2>1, <2>3 DEF g
<1>11. Total(LAMBDA r : r.quantity, rows) = SumFunctionOnSet(QuantityAt(T), K)
  <2>1. Total(LAMBDA r : r.quantity, rows) = SumFunctionOnSet(quantity, rows)
    BY DEF Total, SumFunction
  <2> DEFINE g == QuantityAt(T)
  <2>2. \A k \in K : quantity[row[k]] \in Int /\ g[k] = quantity[row[k]]
    BY <1>3, <1>4
  <2> HIDE DEF K, row, quantity, g
  <2>3. SumFunctionOnSet(quantity, rows) = SumFunctionOnSet(g, K)
    BY <1>1, <1>2, <2>2, SumRenamed
  <2> QED
    BY <2>1, <2>3 DEF g
<1>12. ASSUME NEW p \in Products
       PROVE  Total(LAMBDA r : r.revenue, {r \in rows : r.product = p}) = Price[p] * Quantity(p, T)
  <2> DEFINE L == KeysOf(p, T)
             mine == {row[k] : k \in L}
             revenue == [r \in mine |-> r.revenue]
             g == RevenueAt(T)
  <2>1. L \in SUBSET K /\ IsFiniteSet(L)
    BY ProductOverShards DEF KeysOf
  <2>2. {r \in rows : r.product = p} = mine
    BY <1>3 DEF KeysOf
  <2>3. Total(LAMBDA r : r.revenue, mine) = SumFunctionOnSet(revenue, mine)
    BY DEF Total, SumFunction
  <2>4. \A k \in L : revenue[row[k]] \in Int /\ g[k] = revenue[row[k]]
    BY <1>3, <1>4, <2>1
  <2>5. \A k, l \in L : row[k] = row[l] => k = l
    BY <1>2, <2>1
  <2>6. SumFunctionOnSet(g, L) = Price[p] * Quantity(p, T)
    BY ProductOverShards
  <2> HIDE DEF K, row, revenue, g, L
  <2>7. SumFunctionOnSet(revenue, mine) = SumFunctionOnSet(g, L)
    BY <2>1, <2>4, <2>5, SumRenamed
  <2> HIDE DEF mine, rows
  <2> QED
    BY <2>2, <2>3, <2>6, <2>7
<1>13. SumFunction([p \in B |-> Cardinality(With(p, T))]) = SumFunctionOnSet(timesOf, B)
  BY DEF SumFunction
<1> QED
  BY <1>5, <1>8, <1>9, <1>10, <1>11, <1>12, <1>13

\* The products' section of the coordinator's report, from snapshots of T.
LEMMA ProductsOfCut ==
    ASSUME NEW T \in SUBSET Orders, \A s \in Shards : seen["product"][s] = Here(s, T)
    PROVE  IsRollUp(AggregateProducts, ProductRollUp(T), 1)
<1> DEFINE B    == Sold(T)
           rows == {ProductRow(T)[k] : k \in ProductKeys(T)}
           n    == Cardinality(B)
           times   == SumFunction([p \in B |-> Cardinality(With(p, T))])
           revenue == [p \in B |-> Price[p] * Quantity(p, T)]
           total   == SumFunction(revenue)
           high    == Cardinality({p \in B : revenue[p] > HighProduct})
           quantity == [p \in B |-> Quantity(p, T)]
           items   == SumFunctionOnSet(quantity, B)
           fractions == [p \in B |-> <<Quantity(p, T), 1>>]
           average == IF B = {} THEN 0 ELSE Divide(items * Scale, n)
           byProduct == {r.product : r \in rows}
           revenueOf == [p \in byProduct |-> Total(LAMBDA r : r.revenue,
                                                  {r \in rows : r.product = p})]
<1>1. Flatten(ProductRows) = rows
  BY ProductRowsOfCut
<1>2. IsFiniteSet(B) /\ B \subseteq Products
  BY SoldSomewhere
<1>3. /\ byProduct = B
      /\ Total(LAMBDA r : r.times, rows) = times
      /\ Total(LAMBDA r : r.quantity, rows) = items
      /\ \A p \in Products : Total(LAMBDA r : r.revenue, {r \in rows : r.product = p}) =
                                Price[p] * Quantity(p, T)
  BY ProductRowSums
<1>4. revenueOf = revenue
  <2> DEFINE value(p) == Total(LAMBDA r : r.revenue, {r \in rows : r.product = p})
  <2>1. \A p \in B : value(p) = Price[p] * Quantity(p, T)
    BY <1>2, <1>3
  <2>2. revenueOf = [p \in byProduct |-> value(p)]
    OBVIOUS
  <2> HIDE DEF value, B, byProduct, revenueOf
  <2> QED
    BY <1>3, <2>1, <2>2
<1>5. AggregateProducts =
        Section(Cardinality(byProduct), Total(LAMBDA r : r.times, rows),
                {SumFunction(revenueOf)},
                IF rows = {} THEN 0
                ELSE Divide(Total(LAMBDA r : r.quantity, rows) * Scale, Cardinality(byProduct)),
                Cardinality({p \in byProduct : revenueOf[p] > HighProduct}))
  BY <1>1 DEF AggregateProducts
<1>6. rows = {} <=> byProduct = {}
  OBVIOUS
<1>7. AggregateProducts = Section(n, times, {total}, average, high)
  <2> HIDE DEF rows, byProduct, revenueOf, B, times, revenue, items
  <2> QED
    BY <1>3, <1>4, <1>5, <1>6
<1>8. ProductRollUp(T) = Section(n, times, SumOrNull(total, B), Mean(fractions), high)
  BY DEF ProductRollUp
<1>9. IF Mean(fractions) = {} THEN average = 0 ELSE Near(average, Mean(fractions), 1)
  <2>1. \A p \in B : quantity[p] \in Nat /\ fractions[p] = <<quantity[p], 1>>
    BY <1>2, OrderSums
  <2>2. fractions \in [B -> Fractions]
    BY <1>2, OrderSums DEF Fractions
  <2> HIDE DEF fractions, quantity, B
  <2>3. FractionSum(fractions, B) = <<items, 1>>
    BY <1>2, <2>1, WholeFractions
  <2>4. CASE B = {}
    <3>1. Mean(fractions) = {}
      BY <1>2, <2>2, <2>4, MeanIsFraction
    <3> QED
      BY <2>4, <3>1
  <2>5. CASE B # {}
    <3>1. n \in Nat
      BY <1>2, FS_CardinalityType
    <3>2. /\ Mean(fractions) = {<<FractionSum(fractions, B)[1], FractionSum(fractions, B)[2] * n>>}
          /\ <<FractionSum(fractions, B)[1], FractionSum(fractions, B)[2] * n>> \in Fractions
      BY <1>2, <2>2, <2>5, MeanIsFraction
    <3> HIDE DEF items, n
    <3>3. <<items, 1>>[1] = items /\ <<items, 1>>[2] * n = n
      BY <3>1
    <3>4. Mean(fractions) = {<<items, n>>} /\ <<items, n>> \in Fractions
      BY <2>3, <3>2, <3>3
    <3>5. Near(Divide(<<items, n>>[1] * Scale, <<items, n>>[2]), {<<items, n>>}, 1)
      BY <3>4, OnceRounded
    <3>6. average = Divide(<<items, n>>[1] * Scale, <<items, n>>[2])
      BY <2>5
    <3> QED
      BY <3>4, <3>5, <3>6
  <2> QED
    BY <2>4, <2>5
<1>10. B = {} => total = 0
  BY NothingSold
<1> HIDE DEF B, rows, n, times, revenue, total, high, average, fractions
<1> QED
  BY <1>7, <1>8, <1>9, <1>10 DEF IsRollUp, Section, SumOrNull

-----------------------------------------------------------------------------
(* The countries' section. *)

\* The shards and countries that have a row, those of country c, and the columns.
CountryKeys(T) == {<<Home[Owner[o]], Country[Owner[o]]>> : o \in T}
ShardsOf(c, T) == {k \in CountryKeys(T) : k[2] = c}
At(k, T)       == From(k[2], Here(k[1], T))
OrdersAt(T)    == [k \in CountryKeys(T) |-> Cardinality(At(k, T))]
InflatedAt(T)  == [k \in CountryKeys(T) |-> Inflated(At(k, T))]
JoinedAt(T)    == [k \in CountryKeys(T) |-> JoinedRows(At(k, T))]
CountryRow(T)  == [k \in CountryKeys(T) |->
                      [shard |-> k[1], country |-> k[2], orders |-> OrdersAt(T)[k],
                       revenue |-> InflatedAt(T)[k], joined |-> JoinedAt(T)[k]]]

\* The columns are naturals, and there are finitely many rows.
LEMMA CountryColumns ==
    ASSUME NEW T \in SUBSET Orders
    PROVE  /\ IsFiniteSet(CountryKeys(T)) /\ IsFiniteSet(Places(T))
           /\ \A k \in CountryKeys(T) : /\ OrdersAt(T)[k] \in Nat /\ InflatedAt(T)[k] \in Nat
                                        /\ JoinedAt(T)[k] \in Nat
           /\ \A c \in Places(T) : /\ Inflated(From(c, T)) \in Nat
                                   /\ JoinedRows(From(c, T)) \in Nat \ {0}
<1>1. IsFiniteSet(T)
  BY OrderSums
<1>2. IsFiniteSet(CountryKeys(T))
  <2> DEFINE h == [o \in T |-> <<Home[Owner[o]], Country[Owner[o]]>>]
  <2>1. CountryKeys(T) = {h[o] : o \in T}
    BY DEF CountryKeys
  <2> HIDE DEF h
  <2> QED
    BY <1>1, <2>1, ImageIsFinite
<1>3. IsFiniteSet(Places(T))
  <2> DEFINE h == [o \in T |-> Country[Owner[o]]]
  <2>1. Places(T) = {h[o] : o \in T}
    BY DEF Places
  <2> HIDE DEF h
  <2> QED
    BY <1>1, <2>1, ImageIsFinite
<1>4. ASSUME NEW k \in CountryKeys(T)
      PROVE  OrdersAt(T)[k] \in Nat /\ InflatedAt(T)[k] \in Nat /\ JoinedAt(T)[k] \in Nat
  <2>1. At(k, T) \in SUBSET Orders
    BY DEF At, From, Here
  <2> QED
    BY <2>1, OrderSums DEF OrdersAt, InflatedAt, JoinedAt
<1>5. ASSUME NEW c \in Places(T)
      PROVE  Inflated(From(c, T)) \in Nat /\ JoinedRows(From(c, T)) \in Nat \ {0}
  <2>1. From(c, T) \in SUBSET Orders /\ From(c, T) # {}
    BY DEF From, Places
  <2> QED
    BY <2>1, OrderSums
<1> QED
  BY <1>2, <1>3, <1>4, <1>5

\* Over the shards, the rows of one country add up to the country's row.
LEMMA CountryOverShards ==
    ASSUME NEW T \in SUBSET Orders, NEW c
    PROVE  /\ IsFiniteSet(ShardsOf(c, T))
           /\ SumFunctionOnSet(InflatedAt(T), ShardsOf(c, T)) = Inflated(From(c, T))
           /\ SumFunctionOnSet(JoinedAt(T), ShardsOf(c, T)) = JoinedRows(From(c, T))
<1> DEFINE S == From(c, T)
           B == ShardsOf(c, T)
           key == [o \in S |-> <<Home[Owner[o]], c>>]
           piece == [b \in B |-> At(b, T)]
<1>1. S \in SUBSET Orders /\ IsFiniteSet(S)
  <2>1. S \in SUBSET Orders
    BY DEF From
  <2> QED
    BY <2>1, OrderSums
<1>2. B \in SUBSET CountryKeys(T) /\ IsFiniteSet(B)
  <2>1. B \in SUBSET CountryKeys(T)
    BY DEF ShardsOf
  <2> QED
    BY <2>1, CountryColumns, FS_Subset
<1>3. \A o \in S : key[o] \in B
  BY DEF From, ShardsOf, CountryKeys
<1>4. \A b \in B : b = <<b[1], c>> /\ b[2] = c
  BY DEF ShardsOf, CountryKeys
<1>5. piece \in [B -> SUBSET S]
  BY <1>4 DEF At, From, Here
<1>6. \A b \in B : \A o \in S : o \in piece[b] <=> key[o] = b
  BY <1>4 DEF At, From, Here
<1>7. \A b \in B : piece[b] \in SUBSET Orders
  BY <1>1, <1>5
<1>8. \A b \in B : /\ InflatedAt(T)[b] = SumFunctionOnSet(InflatedOrders, piece[b])
                   /\ JoinedAt(T)[b] = SumFunctionOnSet(JoinedOrders, piece[b])
  <2>1. \A b \in B : InflatedAt(T)[b] = Inflated(piece[b]) /\ JoinedAt(T)[b] = JoinedRows(piece[b])
    BY <1>2 DEF InflatedAt, JoinedAt
  <2> HIDE DEF piece, B
  <2> QED
    BY <1>7, <2>1, OrderSums
<1>9. \A o \in S : InflatedOrders[o] \in Int /\ JoinedOrders[o] \in Int
  <2>1. \A a, b \in Nat : a * b \in Int
    OBVIOUS
  <2>2. \A o \in S : o \in Orders /\ Joined(o) \in Nat /\ Amount[o] \in Nat
    BY <1>1, JoinedType, DataAssumption
  <2> QED
    BY <2>1, <2>2 DEF InflatedOrders, JoinedOrders
<1>10. /\ Inflated(S) = SumFunctionOnSet(InflatedOrders, S)
       /\ JoinedRows(S) = SumFunctionOnSet(JoinedOrders, S)
  BY <1>1, OrderSums
<1> HIDE DEF S, B, key, piece
<1>11. SumFunctionOnSet(InflatedAt(T), B) = SumFunctionOnSet(InflatedOrders, S)
  <2>1. \A o \in S : InflatedOrders[o] \in Int /\ key[o] \in B
    BY <1>3, <1>9
  <2>2. \A b \in B : InflatedAt(T)[b] = SumFunctionOnSet(InflatedOrders, piece[b])
    BY <1>8
  <2> QED
    BY <1>1, <1>2, <1>5, <1>6, <2>1, <2>2, SumByKey
<1>12. SumFunctionOnSet(JoinedAt(T), B) = SumFunctionOnSet(JoinedOrders, S)
  <2>1. \A o \in S : JoinedOrders[o] \in Int /\ key[o] \in B
    BY <1>3, <1>9
  <2>2. \A b \in B : JoinedAt(T)[b] = SumFunctionOnSet(JoinedOrders, piece[b])
    BY <1>8
  <2> QED
    BY <1>1, <1>2, <1>5, <1>6, <2>1, <2>2, SumByKey
<1> QED
  BY <1>2, <1>10, <1>11, <1>12 DEF S, B

\* Snapshots of T give one row per shard and country bought from there.
LEMMA CountryRowsOfCut ==
    ASSUME NEW T \in SUBSET Orders, \A s \in Shards : seen["country"][s] = Here(s, T)
    PROVE  Flatten(CountryRows) = {CountryRow(T)[k] : k \in CountryKeys(T)}
<1> DEFINE H(s) == Here(s, T)
           row(s, c) == [shard |-> s, country |-> c, orders |-> Cardinality(From(c, H(s))),
                         revenue |-> Inflated(From(c, H(s))), joined |-> JoinedRows(From(c, H(s)))]
<1>1. \A s \in Shards : CountryRows(s) = {row(s, c) : c \in Places(H(s))}
  BY DEF CountryRows
<1>2. \A s \in Shards : \A c \in Places(H(s)) :
         <<s, c>> \in CountryKeys(T) /\ row(s, c) = CountryRow(T)[<<s, c>>]
  <2> SUFFICES ASSUME NEW s \in Shards, NEW c \in Places(H(s))
               PROVE  <<s, c>> \in CountryKeys(T) /\ row(s, c) = CountryRow(T)[<<s, c>>]
    OBVIOUS
  <2>1. <<s, c>> \in CountryKeys(T)
    BY DEF Places, Here, CountryKeys
  <2>2. <<s, c>>[1] = s /\ <<s, c>>[2] = c
    OBVIOUS
  <2> QED
    BY <2>1, <2>2 DEF CountryRow, OrdersAt, InflatedAt, JoinedAt, At
<1>3. \A k \in CountryKeys(T) :
         k[1] \in Shards /\ k[2] \in Places(H(k[1])) /\ k = <<k[1], k[2]>>
  BY DataAssumption DEF Places, CountryKeys, Here
<1> HIDE DEF row, H
<1>4. ASSUME NEW s \in Shards, NEW r \in CountryRows(s)
      PROVE  r \in {CountryRow(T)[k] : k \in CountryKeys(T)}
  <2>1. PICK c \in Places(H(s)) : r = row(s, c)
    BY <1>1
  <2>2. <<s, c>> \in CountryKeys(T) /\ r = CountryRow(T)[<<s, c>>]
    BY <1>2, <2>1
  <2> QED
    BY <2>2
<1>5. \A k \in CountryKeys(T) : CountryRow(T)[k] \in CountryRows(k[1]) /\ k[1] \in Shards
  BY <1>1, <1>2, <1>3
<1>6. Flatten(CountryRows) = UNION {CountryRows(s) : s \in Shards}
  BY DEF Flatten
<1> QED
  BY <1>4, <1>5, <1>6

\* What the countries' rows add up to.
LEMMA CountryRowSums ==
    ASSUME NEW T \in SUBSET Orders
    PROVE  LET row  == CountryRow(T)
               rows == {row[k] : k \in CountryKeys(T)}
           IN  /\ {r.country : r \in rows} = Places(T)
               /\ Total(LAMBDA r : r.orders, rows) = Cardinality(T)
               /\ \A c : LET mine == {r \in rows : r.country = c}
                         IN  /\ Total(LAMBDA r : r.revenue, mine) = Inflated(From(c, T))
                             /\ Total(LAMBDA r : r.joined, mine) = JoinedRows(From(c, T))
<1> DEFINE K    == CountryKeys(T)
           row  == CountryRow(T)
           rows == {row[k] : k \in K}
           key  == [o \in T |-> <<Home[Owner[o]], Country[Owner[o]]>>]
           orders == [r \in rows |-> r.orders]
           g == OrdersAt(T)
<1>1. IsFiniteSet(K) /\ IsFiniteSet(T)
  BY CountryColumns, OrderSums
<1>2. \A k, l \in K : row[k] = row[l] => k = l
  <2>1. \A k \in K : row[k].shard = k[1] /\ row[k].country = k[2] /\ k = <<k[1], k[2]>>
    BY DEF CountryRow, CountryKeys
  <2> QED
    BY <2>1
<1>3. \A k \in K : /\ row[k].country = k[2] /\ row[k].orders = OrdersAt(T)[k]
                   /\ row[k].revenue = InflatedAt(T)[k] /\ row[k].joined = JoinedAt(T)[k]
  BY DEF CountryRow
<1>4. \A k \in K : /\ OrdersAt(T)[k] \in Int /\ InflatedAt(T)[k] \in Int
                   /\ JoinedAt(T)[k] \in Int
  BY CountryColumns
<1>5. {r.country : r \in rows} = Places(T)
  <2>1. {r.country : r \in rows} = {k[2] : k \in K}
    BY <1>3
  <2>2. {k[2] : k \in K} = Places(T)
    <3>1. \A o \in T : /\ <<Home[Owner[o]], Country[Owner[o]]>> \in K
                      /\ <<Home[Owner[o]], Country[Owner[o]]>>[2] = Country[Owner[o]]
      BY DEF CountryKeys
    <3>2. \A k \in K : \E o \in T : k[2] = Country[Owner[o]]
      BY DEF CountryKeys
    <3> HIDE DEF K
    <3>3. ASSUME NEW k \in K PROVE k[2] \in Places(T)
      BY <3>2 DEF Places
    <3>4. ASSUME NEW c \in Places(T) PROVE \E k \in K : k[2] = c
      <4>1. PICK o \in T : c = Country[Owner[o]]
        BY DEF Places
      <4> QED
        BY <3>1, <4>1
    <3> QED
      BY <3>3, <3>4
  <2> QED
    BY <2>1, <2>2
<1>6. SumFunctionOnSet(g, K) = Cardinality(T)
  <2>1. \A o \in T : key[o] \in K
    BY DEF CountryKeys
  <2>2. \A k \in K : g[k] = Cardinality({o \in T : key[o] = k})
    <3> SUFFICES ASSUME NEW k \in K PROVE g[k] = Cardinality({o \in T : key[o] = k})
      OBVIOUS
    <3>1. At(k, T) = {o \in T : key[o] = k}
      BY DEF At, From, Here, CountryKeys
    <3> HIDE DEF key
    <3> QED
      BY <3>1 DEF OrdersAt
  <2> HIDE DEF K, g, key
  <2> QED
    BY <1>1, <2>1, <2>2, SizeByKey
<1>7. Total(LAMBDA r : r.orders, rows) = Cardinality(T)
  <2>1. Total(LAMBDA r : r.orders, rows) = SumFunctionOnSet(orders, rows)
    BY DEF Total, SumFunction
  <2>2. \A k \in K : orders[row[k]] \in Int /\ g[k] = orders[row[k]]
    BY <1>3, <1>4
  <2> HIDE DEF K, row, orders, g
  <2>3. SumFunctionOnSet(orders, rows) = SumFunctionOnSet(g, K)
    BY <1>1, <1>2, <2>2, SumRenamed
  <2> QED
    BY <1>6, <2>1, <2>3
<1>8. ASSUME NEW c
      PROVE  LET mine == {r \in rows : r.country = c}
             IN  /\ Total(LAMBDA r : r.revenue, mine) = Inflated(From(c, T))
                 /\ Total(LAMBDA r : r.joined, mine) = JoinedRows(From(c, T))
  <2> DEFINE L == ShardsOf(c, T)
             mine == {row[k] : k \in L}
             revenue == [r \in mine |-> r.revenue]
             joined == [r \in mine |-> r.joined]
             v == InflatedAt(T)
             j == JoinedAt(T)
  <2>1. L \in SUBSET K /\ IsFiniteSet(L)
    BY CountryOverShards DEF ShardsOf
  <2>2. {r \in rows : r.country = c} = mine
    BY <1>3 DEF ShardsOf
  <2>3. /\ Total(LAMBDA r : r.revenue, mine) = SumFunctionOnSet(revenue, mine)
        /\ Total(LAMBDA r : r.joined, mine) = SumFunctionOnSet(joined, mine)
    BY DEF Total, SumFunction
  <2>4. \A k \in L : revenue[row[k]] \in Int /\ v[k] = revenue[row[k]]
    BY <1>3, <1>4, <2>1
  <2>5. \A k \in L : joined[row[k]] \in Int /\ j[k] = joined[row[k]]
    BY <1>3, <1>4, <2>1
  <2>6. \A k, l \in L : row[k] = row[l] => k = l
    BY <1>2, <2>1
  <2>7. /\ SumFunctionOnSet(v, L) = Inflated(From(c, T))
        /\ SumFunctionOnSet(j, L) = JoinedRows(From(c, T))
    BY CountryOverShards
  <2> HIDE DEF K, row, revenue, joined, v, j, L
  <2>8. SumFunctionOnSet(revenue, mine) = SumFunctionOnSet(v, L)
    BY <2>1, <2>4, <2>6, SumRenamed
  <2>9. SumFunctionOnSet(joined, mine) = SumFunctionOnSet(j, L)
    BY <2>1, <2>5, <2>6, SumRenamed
  <2> HIDE DEF mine, rows
  <2> QED
    BY <2>2, <2>3, <2>7, <2>8, <2>9
<1> QED
  BY <1>5, <1>7, <1>8

\* The countries' revenues are the whole revenue.
LEMMA CountriesSum ==
    ASSUME NEW T \in SUBSET Orders
    PROVE  SumFunction([c \in Places(T) |-> Inflated(From(c, T))]) = Inflated(T)
<1> DEFINE B == Places(T)
           g == [c \in B |-> Inflated(From(c, T))]
           key == [o \in T |-> Country[Owner[o]]]
           piece == [c \in B |-> From(c, T)]
<1>1. IsFiniteSet(T) /\ IsFiniteSet(B)
  BY OrderSums, CountryColumns
<1>2. \A o \in T : InflatedOrders[o] \in Int /\ key[o] \in B
  <2>1. \A a, b \in Nat : a * b \in Int
    OBVIOUS
  <2>2. \A o \in T : o \in Orders /\ Joined(o) \in Nat /\ Amount[o] \in Nat
    BY JoinedType, DataAssumption
  <2> QED
    BY <2>1, <2>2 DEF InflatedOrders, Places
<1>3. piece \in [B -> SUBSET T] /\ \A c \in B : \A o \in T : o \in piece[c] <=> key[o] = c
  BY DEF From
<1>4. \A c \in B : g[c] = SumFunctionOnSet(InflatedOrders, piece[c])
  <2>1. \A c \in B : From(c, T) \in SUBSET Orders
    BY DEF From
  <2> QED
    BY <2>1, OrderSums
<1>5. SumFunction(g) = SumFunctionOnSet(g, B)
  BY DEF SumFunction
<1>6. Inflated(T) = SumFunctionOnSet(InflatedOrders, T)
  BY OrderSums
<1> HIDE DEF B, g, key, piece
<1>7. SumFunctionOnSet(g, B) = SumFunctionOnSet(InflatedOrders, T)
  BY <1>1, <1>2, <1>3, <1>4, SumByKey
<1>8. SumFunction(g) = Inflated(T)
  BY <1>5, <1>6, <1>7
<1> QED
  BY <1>8 DEF g, B

\* A mean of rounded terms, rounded again, is near.
LEMMA TwiceRounded ==
    ASSUME NEW S, IsFiniteSet(S), S # {}, NEW f \in [S -> Fractions], NEW d,
           \A c \in S : d[c] = Divide(f[c][1] * Scale, f[c][2])
    PROVE  Near(Divide(SumFunctionOnSet(d, S), Cardinality(S)), Mean(f), 2)
<1> DEFINE u == SumFunctionOnSet(d, S)
           n == Cardinality(S)
           t == FractionSum(f, S)
           a == Divide(u, n)
<1>1. \A c \in S : /\ f[c] \in Fractions /\ d[c] \in Nat
                   /\ Rounded(d[c], f[c][1] * Scale, f[c][2])
  <2> SUFFICES ASSUME NEW c \in S
               PROVE  d[c] \in Nat /\ Rounded(d[c], f[c][1] * Scale, f[c][2])
    OBVIOUS
  <2> DEFINE m == f[c][1] * Scale
             q == f[c][2]
  <2>1. m \in Nat /\ q \in Nat \ {0} /\ d[c] = Divide(m, q)
    <3>1. f[c] \in Fractions /\ Scale \in Nat
      BY DataAssumption
    <3>2. f[c][1] \in Nat /\ f[c][2] \in Nat \ {0}
      BY <3>1 DEF Fractions
    <3> QED
      BY <3>1, <3>2
  <2> HIDE DEF m, q
  <2>2. Divide(m, q) \in Nat /\ Rounded(Divide(m, q), m, q)
    BY <2>1, DivideRounds
  <2> QED
    BY <2>1, <2>2 DEF m, q
<1>2. u \in Nat
  BY <1>1, SumOfNaturals
<1>3. n \in Nat \ {0}
  BY FS_CardinalityType, FS_EmptySet
<1>4. t \in Fractions /\ Mean(f) = {<<t[1], t[2] * n>>}
  BY MeanIsFraction
<1>5. /\ 2 * (u * t[2]) - 2 * (t[1] * Scale) <= n * t[2]
      /\ 2 * (t[1] * Scale) - 2 * (u * t[2]) <= n * t[2]
  BY <1>1, DataAssumption, RoundedTerms
<1>6. t[1] \in Nat /\ t[2] \in Nat
  BY <1>4 DEF Fractions
<1> HIDE DEF u, n, t
<1>7. a \in Nat /\ Rounded(a, u, n)
  BY <1>2, <1>3, DivideRounds
<1> HIDE DEF a
<1> DEFINE m == t[1] * Scale
           e == t[2]
           r == 2 * (a * n) - 2 * u
<1>8. m \in Nat /\ e \in Nat /\ r \in Int
  <2>1. \A x, y \in Nat : x * y \in Nat
    OBVIOUS
  <2> QED
    BY <1>2, <1>3, <1>6, <1>7, <2>1, DataAssumption
<1>9. r <= n /\ - r <= n
  <2>1. a * n \in Int
    BY <1>3, <1>7
  <2> QED
    BY <1>2, <1>3, <1>7, <2>1 DEF Rounded
<1>10. 2 * (a * (e * n)) - 2 * m = e * r + (2 * (u * e) - 2 * m)
  BY <1>2, <1>3, <1>7, <1>8
<1>11. /\ 2 * (u * e) - 2 * m <= n * e /\ 2 * m - 2 * (u * e) <= n * e
  BY <1>5
<1>12. u * e \in Int /\ n * e \in Int /\ a * (e * n) \in Int /\ e * n = n * e
  <2>1. \A x, y \in Nat : x * y \in Nat /\ x * y = y * x
    OBVIOUS
  <2> QED
    BY <1>2, <1>3, <1>7, <1>8, <2>1
<1> HIDE DEF m, e, r
<1>13. e * r <= e * n /\ e * (- r) <= e * n /\ e * (- r) = - (e * r) /\ e * r \in Int
  <2>1. \A x \in Nat, y, z \in Int : y <= z => x * y <= x * z
    OBVIOUS
  <2>2. \A x \in Nat, y \in Int : x * (- y) = - (x * y) /\ x * y \in Int
    OBVIOUS
  <2> QED
    BY <1>3, <1>8, <1>9, <2>1, <2>2
<1>14. LET gap == a * (e * n) - m IN 2 * gap <= 2 * (e * n) /\ -2 * gap <= 2 * (e * n)
  <2> DEFINE w == a * (e * n)
             x == e * r
             y == u * e
             z == e * n
  <2>1. w \in Int /\ x \in Int /\ y \in Int /\ z \in Int
    BY <1>12, <1>13
  <2>2. 2 * w - 2 * m = x + (2 * y - 2 * m) /\ x <= z /\ - x <= z
        /\ 2 * y - 2 * m <= z /\ 2 * m - 2 * y <= z
    BY <1>10, <1>11, <1>12, <1>13
  <2> HIDE DEF w, x, y, z
  <2>3. LET gap == w - m IN 2 * gap <= 2 * z /\ -2 * gap <= 2 * z
    BY <1>8, <2>1, <2>2
  <2> QED
    BY <2>3 DEF w, z
<1>15. <<t[1], t[2] * n>>[1] * Scale = m /\ <<t[1], t[2] * n>>[2] = e * n
  BY DEF m, e
<1>16. Near(a, {<<t[1], t[2] * n>>}, 2)
  BY <1>14, <1>15 DEF Near
<1> QED
  BY <1>4, <1>16 DEF a, u, n

\* The countries' section of the coordinator's report, from snapshots of T.
LEMMA CountriesOfCut ==
    ASSUME NEW T \in SUBSET Orders, \A s \in Shards : seen["country"][s] = Here(s, T)
    PROVE  IsRollUp(AggregateCountries, CountryRollUp(T), 2)
<1> DEFINE B    == Places(T)
           rows == {CountryRow(T)[k] : k \in CountryKeys(T)}
           n    == Cardinality(B)
           revenue == [c \in B |-> Inflated(From(c, T))]
           joined  == [c \in B |-> JoinedRows(From(c, T))]
           rounded == [c \in B |-> Divide(revenue[c] * Scale, joined[c])]
           fractions == [c \in B |-> <<Inflated(From(c, T)), JoinedRows(From(c, T))>>]
           high    == Cardinality({c \in B : Inflated(From(c, T)) > HighCountry})
           average == IF B = {} THEN 0 ELSE Divide(SumFunction(rounded), n)
<1>1. Flatten(CountryRows) = rows
  BY CountryRowsOfCut
<1>2. /\ {r.country : r \in rows} = B
      /\ Total(LAMBDA r : r.orders, rows) = Cardinality(T)
      /\ \A c : LET mine == {r \in rows : r.country = c}
                IN  /\ Total(LAMBDA r : r.revenue, mine) = Inflated(From(c, T))
                    /\ Total(LAMBDA r : r.joined, mine) = JoinedRows(From(c, T))
  BY CountryRowSums
<1>3. IsFiniteSet(B) /\ n \in Nat
  BY CountryColumns, FS_CardinalityType
<1>4. ByCountry(rows) = B
  BY <1>2 DEF ByCountry
<1>5. RevenueOf(rows) = revenue /\ JoinedOf(rows) = joined
  <2> DEFINE v(c) == Total(LAMBDA r : r.revenue, {r \in rows : r.country = c})
             j(c) == Total(LAMBDA r : r.joined, {r \in rows : r.country = c})
  <2>1. \A c : v(c) = Inflated(From(c, T)) /\ j(c) = JoinedRows(From(c, T))
    BY <1>2
  <2>2. /\ RevenueOf(rows) = [c \in ByCountry(rows) |-> v(c)]
        /\ JoinedOf(rows) = [c \in ByCountry(rows) |-> j(c)]
    BY DEF RevenueOf, JoinedOf
  <2> HIDE DEF v, j, rows
  <2> QED
    BY <1>4, <2>1, <2>2
<1>6. AverageOf(rows) = rounded
  <2> HIDE DEF rows, B, revenue, joined
  <2> QED
    BY <1>4, <1>5 DEF AverageOf
<1>7. rows = {} <=> B = {}
  <2>1. rows = {} <=> {r.country : r \in rows} = {}
    OBVIOUS
  <2> QED
    BY <1>2, <2>1
<1>8. {c \in B : revenue[c] > HighCountry} = {c \in B : Inflated(From(c, T)) > HighCountry}
  OBVIOUS
<1>9. SumFunction(revenue) = Inflated(T)
  BY CountriesSum
<1>10. AggregateCountries = Section(n, Cardinality(T), {Inflated(T)}, average, high)
  <2> DEFINE orders == Total(LAMBDA r : r.orders, rows)
  <2>1. AggregateCountries =
          Section(Cardinality(ByCountry(rows)), orders, {SumFunction(RevenueOf(rows))},
                  IF rows = {} THEN 0
                  ELSE Divide(SumFunction(AverageOf(rows)), Cardinality(ByCountry(rows))),
                  Cardinality({c \in ByCountry(rows) : RevenueOf(rows)[c] > HighCountry}))
    BY <1>1 DEF AggregateCountries
  <2>2. orders = Cardinality(T)
    BY <1>2
  <2> HIDE DEF orders, rows, B, revenue, joined, rounded
  <2> QED
    BY <1>4, <1>5, <1>6, <1>7, <1>8, <1>9, <2>1, <2>2
<1>11. CountryRollUp(T) =
         Section(n, Cardinality(T), SumOrNull(Inflated(T), T), Mean(fractions), high)
  BY DEF CountryRollUp
<1>12. IF Mean(fractions) = {} THEN average = 0 ELSE Near(average, Mean(fractions), 2)
  <2>1. fractions \in [B -> Fractions]
    BY CountryColumns DEF Fractions
  <2>2. \A c \in B : rounded[c] = Divide(fractions[c][1] * Scale, fractions[c][2])
    OBVIOUS
  <2>3. SumFunction(rounded) = SumFunctionOnSet(rounded, B)
    BY DEF SumFunction
  <2> HIDE DEF fractions, rounded, B
  <2>4. CASE B = {}
    <3>1. Mean(fractions) = {}
      BY <1>3, <2>1, <2>4, MeanIsFraction
    <3> QED
      BY <2>4, <3>1
  <2>5. CASE B # {}
    <3>1. Near(Divide(SumFunctionOnSet(rounded, B), n), Mean(fractions), 2)
      BY <1>3, <2>1, <2>2, <2>5, TwiceRounded
    <3>2. Mean(fractions) # {}
      <4>1. Mean(fractions) = {<<FractionSum(fractions, B)[1],
                                 FractionSum(fractions, B)[2] * Cardinality(B)>>}
        BY <1>3, <2>1, <2>5, MeanIsFraction
      <4> QED
        BY <4>1
    <3> QED
      BY <2>3, <2>5, <3>1, <3>2
  <2> QED
    BY <2>4, <2>5
<1>13. T = {} => Inflated(T) = 0
  BY NothingSold
<1> HIDE DEF B, rows, n, revenue, joined, rounded, fractions, high, average
<1> QED
  BY <1>10, <1>11, <1>12, <1>13 DEF IsRollUp, Section, SumOrNull

-----------------------------------------------------------------------------
(* The report. *)

\* The users' section of every report is one database's roll-up of what each shard held
\* at some moment of the request, each shard at a moment of its own; its average is
\* rounded once, and it says 0 where the database says NULL.
THEOREM UsersReportIsRollUp == Spec => UsersAreRollUp
<1>1. IInv /\ JoinRows => \E T \in Cuts : IsRollUp(report'.user, UserRollUp(T), 1)
  <2> SUFFICES ASSUME IInv, JoinRows
               PROVE  \E T \in Cuts : IsRollUp(report'.user, UserRollUp(T), 1)
    OBVIOUS
  <2>1. PICK T \in Cuts : \A s \in Shards : seen["user"][s] = Here(s, T)
    BY SnapshotsAreCut DEF Grouped
  <2>2. IsRollUp(AggregateUsers, UserRollUp(T), 1)
    BY <2>1, CutsAreOrders, UsersOfCut
  <2>3. report'.user = AggregateUsers
    BY DEF JoinRows
  <2> QED
    BY <2>2, <2>3
<1> QED
  BY <1>1, Inductive, PTL DEF UsersAreRollUp

\* So is the products' section: a product sold on several shards is counted once and
\* judged by what all of them sold.
THEOREM ProductsReportIsRollUp == Spec => ProductsAreRollUp
<1>1. IInv /\ JoinRows => \E T \in Cuts : IsRollUp(report'.product, ProductRollUp(T), 1)
  <2> SUFFICES ASSUME IInv, JoinRows
               PROVE  \E T \in Cuts : IsRollUp(report'.product, ProductRollUp(T), 1)
    OBVIOUS
  <2>1. PICK T \in Cuts : \A s \in Shards : seen["product"][s] = Here(s, T)
    BY SnapshotsAreCut DEF Grouped
  <2>2. IsRollUp(AggregateProducts, ProductRollUp(T), 1)
    BY <2>1, CutsAreOrders, ProductsOfCut
  <2>3. report'.product = AggregateProducts
    BY DEF JoinRows
  <2> QED
    BY <2>2, <2>3
<1> QED
  BY <1>1, Inductive, PTL DEF ProductsAreRollUp

\* So is the countries' section; rounding every country's average and then the average
\* of them moves it by at most one unit of the last digit.
THEOREM CountriesReportIsRollUp == Spec => CountriesAreRollUp
<1>1. IInv /\ JoinRows => \E T \in Cuts : IsRollUp(report'.country, CountryRollUp(T), 2)
  <2> SUFFICES ASSUME IInv, JoinRows
               PROVE  \E T \in Cuts : IsRollUp(report'.country, CountryRollUp(T), 2)
    OBVIOUS
  <2>1. PICK T \in Cuts : \A s \in Shards : seen["country"][s] = Here(s, T)
    BY SnapshotsAreCut DEF Grouped
  <2>2. IsRollUp(AggregateCountries, CountryRollUp(T), 2)
    BY <2>1, CutsAreOrders, CountriesOfCut
  <2>3. report'.country = AggregateCountries
    BY DEF JoinRows
  <2> QED
    BY <2>2, <2>3
<1> QED
  BY <1>1, Inductive, PTL DEF CountriesAreRollUp
=============================================================================
