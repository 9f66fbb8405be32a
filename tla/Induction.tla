----------------------------- MODULE Induction -----------------------------
(***************************************************************************)
(* Induction over data for the proofs of this project.  The induction      *)
(* principles here speak of sets instead of predicates: the formula that   *)
(* is proved by induction becomes the set of the values it holds for.      *)
(* They rest on one fact of the library, that the order of the natural     *)
(* numbers is well-founded.  With them come the laws of the sums that      *)
(* SumFunctionOnSet computes.                                              *)
(***************************************************************************)
EXTENDS Integers, FiniteSets, FiniteSetTheorems, WellFoundedInduction, TLAPS

\* A set of natural numbers that is not empty has a least element.
LEMMA LeastNumber ==
    ASSUME NEW T, T \subseteq Nat, T # {}
    PROVE  \E x \in T : \A y \in T : x <= y
<1> DEFINE R == OpToRel(<, Nat)
<1>1. IsWellFoundedOn(R, Nat)
  BY NatLessThanWellFounded
<1>2. \A x, y \in Nat : y < x => <<y, x>> \in R
  BY DEF OpToRel
<1> HIDE DEF R
<1>3. PICK x \in T : \A y \in T : ~ (<<y, x>> \in R)
  BY <1>1, WFMin
<1>4. ASSUME NEW y \in T PROVE x <= y
  <2>1. x \in Nat /\ y \in Nat /\ ~ (y < x)
    BY <1>2, <1>3
  <2> QED
    BY <2>1
<1> QED
  BY <1>4

\* Induction: what holds for 0 and passes from n to n + 1 holds for every number.
LEMMA NumberInduction ==
    ASSUME NEW P, 0 \in P, \A n \in Nat : n \in P => n + 1 \in P
    PROVE  Nat \subseteq P
<1> SUFFICES ASSUME Nat \ P # {} PROVE FALSE
  OBVIOUS
<1>1. PICK x \in Nat \ P : \A y \in Nat \ P : x <= y
  BY LeastNumber
<1>2. x # 0
  OBVIOUS
<1>3. x - 1 \in Nat /\ x - 1 \notin Nat \ P
  BY <1>1, <1>2
<1> QED
  BY <1>3

\* Induction over the subsets of a finite set, one element at a time.
LEMMA SetInduction ==
    ASSUME NEW S, IsFiniteSet(S), NEW P, {} \in P,
           \A T \in SUBSET S : \A x \in S \ T : T \in P => T \cup {x} \in P
    PROVE  S \in P
<1> DEFINE Q == {n \in Nat : \A T \in SUBSET S : Cardinality(T) = n => T \in P}
<1>1. \A T \in SUBSET S : IsFiniteSet(T) /\ Cardinality(T) \in Nat
  BY FS_Subset, FS_CardinalityType
<1>2. 0 \in Q
  BY <1>1, FS_EmptySet
<1>3. ASSUME NEW n \in Nat, n \in Q PROVE n + 1 \in Q
  <2> SUFFICES ASSUME NEW T \in SUBSET S, Cardinality(T) = n + 1 PROVE T \in P
    OBVIOUS
  <2>1. IsFiniteSet(T)
    BY <1>1
  <2>2. PICK x \in T : TRUE
    BY <2>1, FS_EmptySet
  <2>3. Cardinality(T \ {x}) = n
    <3>1. Cardinality(T \ {x}) = Cardinality(T) - 1
      BY <2>1, FS_RemoveElement
    <3> QED
      BY <3>1
  <2>4. T \ {x} \in P
    BY <1>3, <2>3
  <2>5. (T \ {x}) \cup {x} = T
    OBVIOUS
  <2> QED
    BY <2>4, <2>5
<1> HIDE DEF Q
<1>4. Nat \subseteq Q
  BY <1>2, <1>3, NumberInduction
<1> QED
  BY <1>1, <1>4 DEF Q

\* A finite set that is not empty has a last element in any total order.
LEMMA LastElement ==
    ASSUME NEW S, IsFiniteSet(S), S # {}, NEW R,
           \A x, y \in S : x = y \/ <<x, y>> \in R \/ <<y, x>> \in R,
           \A x, y, z \in S : <<x, y>> \in R /\ <<y, z>> \in R => <<x, z>> \in R
    PROVE  \E m \in S : \A x \in S : x = m \/ <<x, m>> \in R
<1> DEFINE Last(T) == \E m \in T : \A x \in T : x = m \/ <<x, m>> \in R
           P == {T \in SUBSET S : T = {} \/ Last(T)}
<1>1. ASSUME NEW T \in SUBSET S, NEW x \in S \ T, T \in P PROVE T \cup {x} \in P
  <2>1. CASE T = {}
    BY <2>1
  <2>2. CASE T # {}
    <3>1. PICK m \in T : \A y \in T : y = m \/ <<y, m>> \in R
      BY <1>1, <2>2
    <3>2. CASE <<x, m>> \in R
      <4>1. \A y \in T \cup {x} : y = m \/ <<y, m>> \in R
        BY <3>1, <3>2
      <4> QED
        BY <4>1
    <3>3. CASE <<m, x>> \in R
      <4>1. \A y \in T \cup {x} : y = x \/ <<y, x>> \in R
        BY <3>1, <3>3
      <4> QED
        BY <4>1
    <3> QED
      BY <3>2, <3>3
  <2> QED
    BY <2>1, <2>2
<1>2. {} \in P
  OBVIOUS
<1>3. S \in P
  <2> HIDE DEF P
  <2> QED
    BY <1>1, <1>2, SetInduction
<1> QED
  BY <1>3

\* The function f that starts with x and goes on with next's value for its last
\* value and the number at hand, up to n.
Recurs(f, S, x, n, next) ==
    /\ f \in [0 .. n -> S] /\ f[0] = x
    /\ \A k \in 1 .. n : f[k] = next[<<f[k - 1], k>>]

\* A recursive definition along the numbers up to n has a solution.
LEMMA RecursiveFunction ==
    ASSUME NEW S, NEW x \in S, NEW n \in Nat, NEW next \in [S \X (1 .. n) -> S]
    PROVE  \E f : Recurs(f, S, x, n, next)
<1> USE DEF Recurs
<1> DEFINE Defined(m) == \E f : Recurs(f, S, x, m, next)
           P == {m \in Nat : m <= n => Defined(m)}
<1>1. 0 \in P
  <2> DEFINE f == [k \in 0 .. 0 |-> x]
  <2>1. f \in [0 .. 0 -> S] /\ f[0] = x /\ 1 .. 0 = {}
    OBVIOUS
  <2> HIDE DEF f
  <2>2. Defined(0)
    BY <2>1
  <2> QED
    BY <2>2
<1>2. ASSUME NEW m \in Nat, m \in P PROVE m + 1 \in P
  <2> SUFFICES ASSUME m + 1 <= n PROVE Defined(m + 1)
    OBVIOUS
  <2>1. PICK f : Recurs(f, S, x, m, next)
    BY <1>2
  <2> DEFINE g == [k \in 0 .. m + 1 |-> IF k = m + 1 THEN next[<<f[m], m + 1>>] ELSE f[k]]
  <2>2. next[<<f[m], m + 1>>] \in S
    <3>1. <<f[m], m + 1>> \in S \X (1 .. n)
      BY <2>1
    <3> QED
      BY <3>1
  <2>3. g \in [0 .. m + 1 -> S]
    BY <2>1, <2>2
  <2>4. g[m + 1] = next[<<f[m], m + 1>>] /\ \A k \in 0 .. m : g[k] = f[k]
    OBVIOUS
  <2> HIDE DEF g
  <2>5. ASSUME NEW k \in 1 .. m + 1 PROVE g[k] = next[<<g[k - 1], k>>]
    <3>1. CASE k = m + 1
      <4>1. k - 1 = m /\ m \in 0 .. m
        BY <3>1
      <4> QED
        BY <2>4, <3>1, <4>1
    <3>2. CASE k # m + 1
      <4>1. k \in 1 .. m /\ k \in 0 .. m /\ k - 1 \in 0 .. m
        BY <3>2
      <4> QED
        BY <2>1, <2>4, <4>1
    <3> QED
      BY <3>1, <3>2
  <2>6. g[0] = x
    BY <2>1, <2>4
  <2> QED
    BY <2>3, <2>5, <2>6
<1> HIDE DEF P, Recurs
<1>3. Nat \subseteq P
  BY <1>1, <1>2, NumberInduction
<1> QED
  BY <1>3 DEF P

\* Induction over the subsets of a finite set, one element less at a time.
LEMMA RemovalInduction ==
    ASSUME NEW S, IsFiniteSet(S), NEW P,
           \A T \in SUBSET S : (\A x \in T : T \ {x} \in P) => T \in P
    PROVE  \A T \in SUBSET S : T \in P
<1> DEFINE Q == {n \in Nat : \A T \in SUBSET S : Cardinality(T) = n => T \in P}
<1>1. \A T \in SUBSET S : IsFiniteSet(T) /\ Cardinality(T) \in Nat
  BY FS_Subset, FS_CardinalityType
<1>2. 0 \in Q
  BY <1>1, FS_EmptySet
<1>3. ASSUME NEW n \in Nat, n \in Q PROVE n + 1 \in Q
  <2> SUFFICES ASSUME NEW T \in SUBSET S, Cardinality(T) = n + 1 PROVE T \in P
    OBVIOUS
  <2>1. ASSUME NEW x \in T PROVE T \ {x} \in P
    <3>1. IsFiniteSet(T)
      BY <1>1
    <3>2. Cardinality(T \ {x}) = Cardinality(T) - 1
      BY <3>1, FS_RemoveElement
    <3>3. Cardinality(T \ {x}) = n
      BY <3>2
    <3> QED
      BY <1>3, <3>3
  <2> QED
    BY <2>1
<1> HIDE DEF Q
<1>4. Nat \subseteq Q
  BY <1>2, <1>3, NumberInduction
<1> QED
  BY <1>1, <1>4 DEF Q

-----------------------------------------------------------------------------
(* Folds of the community modules, for any order in which they pick elements. *)

\* A commutative and associative operation, as a function on pairs.
IsMonoid(M, op, e) ==
    /\ e \in M /\ op \in [M \X M -> M]
    /\ \A a, b \in M : op[<<a, b>>] = op[<<b, a>>]
    /\ \A a, b, c \in M : op[<<a, op[<<b, c>>]>>] = op[<<op[<<a, b>>], c>>]

Pick(T) == CHOOSE x \in T : TRUE

\* g folds the values of f over each subset of S.
Folding(g, M, op, e, f, S) ==
    /\ g \in [SUBSET S -> M]
    /\ g[{}] = e
    /\ \A T \in SUBSET S : T # {} => g[T] = op[<<f[Pick(T)], g[T \ {Pick(T)}]>>]

\* There is such a g.
LEMMA FoldingExists ==
    ASSUME NEW M, NEW op, NEW e, IsMonoid(M, op, e),
           NEW S, IsFiniteSet(S), NEW f, \A x \in S : f[x] \in M
    PROVE  \E g : Folding(g, M, op, e, f, S)
<1> DEFINE Upto(g, n) == /\ g \in [SUBSET S -> M] /\ g[{}] = e
                         /\ \A T \in SUBSET S : T # {} /\ Cardinality(T) <= n =>
                               g[T] = op[<<f[Pick(T)], g[T \ {Pick(T)}]>>]
           Q == {n \in Nat : \E g : Upto(g, n)}
<1>0. \A T \in SUBSET S : T # {} => Pick(T) \in T
  BY DEF Pick
<1>1. \A T \in SUBSET S : /\ IsFiniteSet(T) /\ Cardinality(T) \in Nat
                          /\ Cardinality(T) = 0 <=> T = {}
                          /\ Cardinality(T) <= Cardinality(S)
  BY FS_Subset, FS_CardinalityType, FS_EmptySet
<1>2. 0 \in Q
  <2> DEFINE g == [T \in SUBSET S |-> e]
  <2>1. g \in [SUBSET S -> M] /\ g[{}] = e
    BY DEF IsMonoid
  <2> HIDE DEF g
  <2>2. \A T \in SUBSET S : T # {} => ~ (Cardinality(T) <= 0)
    BY <1>1
  <2>3. Upto(g, 0)
    BY <2>1, <2>2
  <2> QED
    BY <2>3
<1>3. ASSUME NEW n \in Nat, n \in Q PROVE n + 1 \in Q
  <2>1. PICK g : Upto(g, n)
    BY <1>3
  <2> DEFINE h == [T \in SUBSET S |-> IF T = {} THEN e ELSE op[<<f[Pick(T)], g[T \ {Pick(T)}]>>]]
  <2>2. ASSUME NEW T \in SUBSET S, T # {}
        PROVE  op[<<f[Pick(T)], g[T \ {Pick(T)}]>>] \in M
    <3>1. f[Pick(T)] \in M /\ T \ {Pick(T)} \in SUBSET S
      BY <1>0, <2>2
    <3>2. g[T \ {Pick(T)}] \in M
      BY <2>1, <3>1
    <3> QED
      BY <3>1, <3>2 DEF IsMonoid
  <2>3. h \in [SUBSET S -> M]
    BY <2>2 DEF IsMonoid
  <2>4. h[{}] = e /\ \A T \in SUBSET S : T # {} => h[T] = op[<<f[Pick(T)], g[T \ {Pick(T)}]>>]
    OBVIOUS
  <2> HIDE DEF h
  <2>5. ASSUME NEW T \in SUBSET S, T # {}, Cardinality(T) <= n + 1
        PROVE  h[T] = op[<<f[Pick(T)], h[T \ {Pick(T)}]>>]
    <3> DEFINE U == T \ {Pick(T)}
    <3>1. U \in SUBSET S
      OBVIOUS
    <3>2. Cardinality(U) = Cardinality(T) - 1
      BY <1>0, <1>1, <2>5, FS_RemoveElement
    <3>3. Cardinality(U) <= n
      BY <1>1, <2>5, <3>2
    <3> HIDE DEF U
    <3>4. h[U] = g[U]
      BY <2>1, <2>4, <3>1, <3>3
    <3> QED
      BY <2>4, <2>5, <3>4 DEF U
  <2>6. Upto(h, n + 1)
    BY <2>3, <2>4, <2>5
  <2> QED
    BY <2>6
<1>4. Cardinality(S) \in Q
  <2> HIDE DEF Q
  <2> QED
    BY <1>1, <1>2, <1>3, NumberInduction
<1>5. PICK g : Upto(g, Cardinality(S))
  BY <1>4
<1>6. Folding(g, M, op, e, f, S)
  BY <1>1, <1>5 DEF Folding
<1> QED
  BY <1>6

\* Its value does not depend on the order in which elements are picked.
LEMMA FoldingRemoves ==
    ASSUME NEW M, NEW op, NEW e, IsMonoid(M, op, e),
           NEW S, IsFiniteSet(S), NEW f, \A x \in S : f[x] \in M,
           NEW g, Folding(g, M, op, e, f, S)
    PROVE  \A T \in SUBSET S : \A x \in T : g[T] = op[<<f[x], g[T \ {x}]>>]
<1> DEFINE P == {T \in SUBSET S : \A x \in T : g[T] = op[<<f[x], g[T \ {x}]>>]}
<1>1. ASSUME NEW T \in SUBSET S, \A x \in T : T \ {x} \in P PROVE T \in P
  <2> SUFFICES ASSUME NEW x \in T PROVE g[T] = op[<<f[x], g[T \ {x}]>>]
    OBVIOUS
  <2> DEFINE y == Pick(T)
  <2>1. y \in T
    BY DEF Pick
  <2>2. g[T] = op[<<f[y], g[T \ {y}]>>]
    BY DEF Folding
  <2> HIDE DEF y
  <2>3. CASE x = y
    BY <2>2, <2>3
  <2>4. CASE x # y
    <3> DEFINE R == (T \ {y}) \ {x}
    <3>1. R = (T \ {x}) \ {y} /\ R \in SUBSET S
      OBVIOUS
    <3>2. g[T \ {y}] = op[<<f[x], g[R]>>]
      BY <1>1, <2>1, <2>4
    <3>3. g[T \ {x}] = op[<<f[y], g[R]>>]
      BY <1>1, <2>1, <2>4, <3>1
    <3> HIDE DEF R
    <3>4. f[x] \in M /\ f[y] \in M /\ g[R] \in M
      BY <2>1, <3>1 DEF Folding
    <3> DEFINE a == f[x]
               b == f[y]
               c == g[R]
    <3>5. op[<<a, op[<<b, c>>]>>] = op[<<b, op[<<a, c>>]>>]
      <4> HIDE DEF a, b, c
      <4>1. ASSUME NEW a1 \in M, NEW b1 \in M, NEW c1 \in M
            PROVE  op[<<a1, op[<<b1, c1>>]>>] = op[<<b1, op[<<a1, c1>>]>>]
        <5>1. /\ op[<<a1, op[<<b1, c1>>]>>] = op[<<op[<<a1, b1>>], c1>>]
              /\ op[<<b1, op[<<a1, c1>>]>>] = op[<<op[<<b1, a1>>], c1>>]
          BY DEF IsMonoid
        <5>2. op[<<a1, b1>>] = op[<<b1, a1>>]
          BY DEF IsMonoid
        <5> QED
          BY <5>1, <5>2
      <4>2. a \in M /\ b \in M /\ c \in M
        BY <3>4 DEF a, b, c
      <4> QED
        BY <4>1, <4>2
    <3> QED
      BY <2>2, <3>2, <3>3, <3>5
  <2> QED
    BY <2>3, <2>4
<1> HIDE DEF P
<1>2. \A T \in SUBSET S : T \in P
  BY <1>1, RemovalInduction
<1> QED
  BY <1>2 DEF P

LEMMA FoldingsAgree ==
    ASSUME NEW M, NEW op, NEW e, IsMonoid(M, op, e),
           NEW S, IsFiniteSet(S), NEW f, \A x \in S : f[x] \in M, NEW S2 \in SUBSET S, NEW f2,
           \A x \in S2 : f2[x] = f[x],
           NEW g, Folding(g, M, op, e, f, S),
           NEW g2, Folding(g2, M, op, e, f2, S2)
    PROVE  \A T \in SUBSET S2 : g2[T] = g[T]
<1> DEFINE P == {T \in SUBSET S2 : g2[T] = g[T]}
<1>1. ASSUME NEW T \in SUBSET S2, \A x \in T : T \ {x} \in P PROVE T \in P
  <2>1. CASE T = {}
    BY <2>1 DEF Folding
  <2>2. CASE T # {}
    <3>1. Pick(T) \in T
      BY <2>2 DEF Pick
    <3>2. g2[T \ {Pick(T)}] = g[T \ {Pick(T)}] /\ f2[Pick(T)] = f[Pick(T)]
      BY <1>1, <3>1
    <3>3. g[T] = op[<<f[Pick(T)], g[T \ {Pick(T)}]>>]
      BY <2>2 DEF Folding
    <3>4. g2[T] = op[<<f2[Pick(T)], g2[T \ {Pick(T)}]>>]
      BY <2>2 DEF Folding
    <3> QED
      BY <3>2, <3>3, <3>4
  <2> QED
    BY <2>1, <2>2
<1>2. IsFiniteSet(S2)
  BY FS_Subset
<1> HIDE DEF P
<1>3. \A T \in SUBSET S2 : T \in P
  BY <1>1, <1>2, RemovalInduction
<1> QED
  BY <1>3 DEF P


\* Addition, as a function.
Add == [p \in Int \X Int |-> p[1] + p[2]]

\* The library's folds are such foldings: of numbers,
LEMMA SumFolds ==
    ASSUME NEW S, IsFiniteSet(S), NEW f, \A x \in S : f[x] \in Int
    PROVE  \E g : /\ Folding(g, Int, Add, 0, f, S)
                  /\ SumFunctionOnSet(f, S) = g[S]
<1>1. IsMonoid(Int, Add, 0)
  BY DEF IsMonoid, Add
<1>2. \A m, n \in Int : Add[<<m, n>>] = m + n
  BY DEF Add
<1>3. PICK g0 : Folding(g0, Int, Add, 0, f, S)
  BY <1>1, FoldingExists
<1> DEFINE Eq(h) == h = [T \in SUBSET S |-> IF T = {} THEN 0
                             ELSE LET x == CHOOSE x \in T : TRUE IN f[x] + h[T \ {x}]]
           g == CHOOSE h : Eq(h)
<1>4. SumFunctionOnSet(f, S) = g[S]
  BY DEF SumFunctionOnSet, FoldFunctionOnSet, MapThenFoldSet
<1>5. \A T \in SUBSET S : T # {} =>
         /\ Pick(T) \in T /\ f[Pick(T)] \in Int /\ T \ {Pick(T)} \in SUBSET S
  BY DEF Pick
<1>6. Eq(g0)
  <2>1. \A T \in SUBSET S : T # {} => g0[T] = f[Pick(T)] + g0[T \ {Pick(T)}]
    BY <1>2, <1>3, <1>5 DEF Folding
  <2>2. g0[{}] = 0 /\ g0 \in [SUBSET S -> Int]
    BY <1>3 DEF Folding
  <2> QED
    BY <2>1, <2>2 DEF Pick
<1>7. Eq(g)
  BY <1>6
<1> HIDE DEF g
<1>8. /\ g = [T \in SUBSET S |-> g[T]] /\ g[{}] = 0
      /\ \A T \in SUBSET S : T # {} => g[T] = f[Pick(T)] + g[T \ {Pick(T)}]
  BY <1>7 DEF Pick
<1>9. \A T \in SUBSET S : g[T] \in Int
  <2> DEFINE P == {T \in SUBSET S : g[T] \in Int}
  <2>1. ASSUME NEW T \in SUBSET S, \A x \in T : T \ {x} \in P PROVE T \in P
    <3>1. CASE T = {}
      BY <1>8, <3>1
    <3>2. CASE T # {}
      <4>1. g[T \ {Pick(T)}] \in Int /\ f[Pick(T)] \in Int
        BY <1>5, <2>1, <3>2
      <4>2. g[T] = f[Pick(T)] + g[T \ {Pick(T)}]
        BY <1>8, <3>2
      <4>3. g[T] \in Int
        BY <4>1, <4>2
      <4> QED
        BY <4>3
    <3> QED
      BY <3>1, <3>2
  <2> HIDE DEF P
  <2>2. \A T \in SUBSET S : T \in P
    BY <2>1, RemovalInduction
  <2> QED
    BY <2>2 DEF P
<1>10. Folding(g, Int, Add, 0, f, S)
  BY <1>2, <1>5, <1>8, <1>9 DEF Folding
<1> QED
  BY <1>4, <1>10


\* v is the fold of f over S.
IsFold(v, M, op, e, f, S) == \E g : Folding(g, M, op, e, f, S) /\ v = g[S]

LEMMA FoldLaws ==
    ASSUME NEW M, NEW op, NEW e, IsMonoid(M, op, e),
           NEW S, IsFiniteSet(S), NEW f, \A x \in S : f[x] \in M,
           NEW v, IsFold(v, M, op, e, f, S)
    PROVE  /\ v \in M
           /\ S = {} => v = e
           /\ \A w, h : (\A x \in S : h[x] = f[x]) /\ IsFold(w, M, op, e, h, S) => v = w
           /\ \A w : \A x \in S : IsFold(w, M, op, e, f, S \ {x}) => v = op[<<f[x], w>>]
<1>1. PICK g : Folding(g, M, op, e, f, S) /\ v = g[S]
  BY DEF IsFold
<1>2. g \in [SUBSET S -> M] /\ g[{}] = e
  BY <1>1 DEF Folding
<1>3. ASSUME NEW T \in SUBSET S, NEW h, \A x \in T : h[x] = f[x],
             NEW w, IsFold(w, M, op, e, h, T)
      PROVE  w = g[T]
  <2>1. PICK g2 : Folding(g2, M, op, e, h, T) /\ w = g2[T]
    BY <1>3 DEF IsFold
  <2>2. \A V \in SUBSET T : g2[V] = g[V]
    BY <1>1, <1>3, <2>1, FoldingsAgree
  <2> QED
    BY <2>1, <2>2
<1>4. ASSUME NEW x \in S, NEW w, IsFold(w, M, op, e, f, S \ {x})
      PROVE  v = op[<<f[x], w>>]
  <2>1. g[S] = op[<<f[x], g[S \ {x}]>>]
    BY <1>1, FoldingRemoves
  <2>2. w = g[S \ {x}]
    BY <1>3, <1>4
  <2> QED
    BY <1>1, <2>1, <2>2
<1> QED
  BY <1>1, <1>2, <1>3, <1>4

\* What a sum of integers is, one element at a time.
LEMMA SumLaws ==
    ASSUME NEW S, IsFiniteSet(S), NEW f, \A x \in S : f[x] \in Int
    PROVE  /\ SumFunctionOnSet(f, S) \in Int
           /\ S = {} => SumFunctionOnSet(f, S) = 0
           /\ \A x \in S : SumFunctionOnSet(f, S) = f[x] + SumFunctionOnSet(f, S \ {x})
           /\ \A h : (\A x \in S : h[x] = f[x]) => SumFunctionOnSet(h, S) = SumFunctionOnSet(f, S)
<1>1. IsMonoid(Int, Add, 0) /\ \A m, n \in Int : Add[<<m, n>>] = m + n
  BY DEF IsMonoid, Add
<1>2. \A T \in SUBSET S : IsFiniteSet(T)
  BY FS_Subset
<1>3. \A T \in SUBSET S : \A h : (\A x \in T : h[x] \in Int) =>
         IsFold(SumFunctionOnSet(h, T), Int, Add, 0, h, T)
  BY <1>2, SumFolds DEF IsFold
<1>4. IsFold(SumFunctionOnSet(f, S), Int, Add, 0, f, S)
  BY <1>3
<1>5. /\ SumFunctionOnSet(f, S) \in Int
      /\ S = {} => SumFunctionOnSet(f, S) = 0
  <2> DEFINE v == SumFunctionOnSet(f, S)
  <2>1. IsFold(v, Int, Add, 0, f, S)
    BY <1>4
  <2> HIDE DEF v
  <2>2. v \in Int /\ (S = {} => v = 0)
    BY <1>1, <2>1, FoldLaws
  <2> QED
    BY <2>2 DEF v
<1>6. ASSUME NEW h, \A x \in S : h[x] = f[x]
      PROVE  SumFunctionOnSet(h, S) = SumFunctionOnSet(f, S)
  <2>1. IsFold(SumFunctionOnSet(h, S), Int, Add, 0, h, S)
    BY <1>3, <1>6
  <2> QED
    BY <1>1, <1>4, <1>6, <2>1, FoldLaws
<1>7. ASSUME NEW x \in S
      PROVE  SumFunctionOnSet(f, S) = f[x] + SumFunctionOnSet(f, S \ {x})
  <2>1. IsFold(SumFunctionOnSet(f, S \ {x}), Int, Add, 0, f, S \ {x})
    BY <1>3
  <2>2. SumFunctionOnSet(f, S) = Add[<<f[x], SumFunctionOnSet(f, S \ {x})>>]
    BY <1>1, <1>4, <2>1, FoldLaws
  <2>3. SumFunctionOnSet(f, S \ {x}) \in Int
    <3>1. IsFiniteSet(S \ {x}) /\ \A y \in S \ {x} : f[y] \in Int
      BY <1>2
    <3> QED
      BY <1>1, <2>1, <3>1, FoldLaws
  <2> QED
    BY <1>1, <2>2, <2>3
<1> QED
  BY <1>5, <1>6, <1>7

-----------------------------------------------------------------------------
(* Laws of sums. *)

\* A factor of all terms.
LEMMA SumOfMultiples ==
    ASSUME NEW S, IsFiniteSet(S), NEW c \in Int, NEW f, NEW g,
           \A x \in S : f[x] \in Int /\ g[x] = c * f[x]
    PROVE  SumFunctionOnSet(g, S) = c * SumFunctionOnSet(f, S)
<1> DEFINE P == {T \in SUBSET S : SumFunctionOnSet(g, T) = c * SumFunctionOnSet(f, T)}
<1>1. \A T \in SUBSET S : /\ IsFiniteSet(T)
                          /\ \A x \in T : f[x] \in Int /\ g[x] \in Int /\ g[x] = c * f[x]
  BY FS_Subset
<1>2. ASSUME NEW T \in SUBSET S, \A x \in T : T \ {x} \in P PROVE T \in P
  <2>1. CASE T = {}
    <3>1. SumFunctionOnSet(g, T) = 0 /\ SumFunctionOnSet(f, T) = 0
      BY <1>1, <2>1, SumLaws
    <3> QED
      BY <3>1
  <2>2. CASE T # {}
    <3>1. PICK x \in T : TRUE
      BY <2>2
    <3>2. /\ SumFunctionOnSet(g, T) = g[x] + SumFunctionOnSet(g, T \ {x})
          /\ SumFunctionOnSet(f, T) = f[x] + SumFunctionOnSet(f, T \ {x})
          /\ SumFunctionOnSet(f, T) \in Int
      BY <1>1, SumLaws
    <3>3. SumFunctionOnSet(g, T \ {x}) = c * SumFunctionOnSet(f, T \ {x})
      BY <1>2
    <3>4. SumFunctionOnSet(f, T \ {x}) \in Int
      <4>1. T \ {x} \in SUBSET S
        OBVIOUS
      <4> QED
        BY <1>1, <4>1, SumLaws
    <3>5. \A a, b \in Int : c * a + c * b = c * (a + b)
      OBVIOUS
    <3>6. SumFunctionOnSet(g, T) = c * SumFunctionOnSet(f, T)
      BY <1>1, <3>2, <3>3, <3>4, <3>5
    <3> QED
      BY <3>6
  <2> QED
    BY <2>1, <2>2
<1> HIDE DEF P
<1>3. \A T \in SUBSET S : T \in P
  BY <1>2, RemovalInduction
<1> QED
  BY <1>3 DEF P

\* A sum of zeros, of ones, and of natural numbers.
LEMMA SumOfNaturals ==
    ASSUME NEW S, IsFiniteSet(S), NEW f, \A x \in S : f[x] \in Nat
    PROVE  /\ SumFunctionOnSet(f, S) \in Nat
           /\ (\A x \in S : f[x] = 0) => SumFunctionOnSet(f, S) = 0
           /\ (\A x \in S : f[x] = 1) => SumFunctionOnSet(f, S) = Cardinality(S)
           /\ S # {} /\ (\A x \in S : f[x] # 0) => SumFunctionOnSet(f, S) # 0
<1> DEFINE Holds(T) ==
              /\ SumFunctionOnSet(f, T) \in Nat
              /\ (\A x \in T : f[x] = 0) => SumFunctionOnSet(f, T) = 0
              /\ (\A x \in T : f[x] = 1) => SumFunctionOnSet(f, T) = Cardinality(T)
              /\ T # {} /\ (\A x \in T : f[x] # 0) => SumFunctionOnSet(f, T) # 0
           P == {T \in SUBSET S : Holds(T)}
<1>1. \A T \in SUBSET S : IsFiniteSet(T) /\ \A x \in T : f[x] \in Int /\ f[x] \in Nat
  BY FS_Subset
<1>2. ASSUME NEW T \in SUBSET S, \A x \in T : T \ {x} \in P PROVE Holds(T)
  <2>1. CASE T = {}
    <3>1. SumFunctionOnSet(f, T) = 0 /\ Cardinality(T) = 0
      BY <1>1, <2>1, SumLaws, FS_EmptySet
    <3> QED
      BY <2>1, <3>1
  <2>2. CASE T # {}
    <3>1. PICK x \in T : TRUE
      BY <2>2
    <3> DEFINE a == SumFunctionOnSet(f, T)
               b == SumFunctionOnSet(f, T \ {x})
               n == Cardinality(T)
               m == Cardinality(T \ {x})
    <3>2. a = f[x] + b
      BY <1>1, SumLaws
    <3>3. b \in Nat /\ f[x] \in Nat
      BY <1>1, <1>2
    <3>4. /\ (\A y \in T : f[y] = 0) => b = 0
          /\ (\A y \in T : f[y] = 1) => b = m
      BY <1>2
    <3>5. m = n - 1 /\ n \in Nat
      BY <1>1, FS_RemoveElement, FS_CardinalityType
    <3> HIDE DEF a, b, m, n
    <3>6. /\ a \in Nat
          /\ (\A y \in T : f[y] = 0) => a = 0
          /\ (\A y \in T : f[y] = 1) => a = n
          /\ (\A y \in T : f[y] # 0) => a # 0
      <4>1. a \in Nat
        BY <3>2, <3>3
      <4>2. ASSUME \A y \in T : f[y] = 0 PROVE a = 0
        BY <3>2, <3>4, <4>2
      <4>3. ASSUME \A y \in T : f[y] = 1 PROVE a = n
        BY <3>2, <3>4, <3>5, <4>3
      <4>4. ASSUME \A y \in T : f[y] # 0 PROVE a # 0
        <5>1. f[x] # 0
          BY <4>4
        <5> QED
          BY <3>2, <3>3, <5>1
      <4> QED
        BY <4>1, <4>2, <4>3, <4>4
    <3> QED
      BY <3>6 DEF a, n
  <2> QED
    BY <2>1, <2>2
<1> HIDE DEF Holds
<1>3. \A T \in SUBSET S : (\A x \in T : T \ {x} \in P) => T \in P
  BY <1>2
<1> HIDE DEF P
<1>4. \A T \in SUBSET S : T \in P
  BY <1>3, RemovalInduction
<1>5. Holds(S)
  BY <1>4 DEF P
<1> QED
  BY <1>5 DEF Holds

\* Terms that are zero can be left out.
LEMMA SumOfPart ==
    ASSUME NEW S, IsFiniteSet(S), NEW U \in SUBSET S, NEW f,
           \A x \in S : f[x] \in Int, \A x \in S \ U : f[x] = 0
    PROVE  SumFunctionOnSet(f, S) = SumFunctionOnSet(f, U)
<1> DEFINE P == {T \in SUBSET S : SumFunctionOnSet(f, T) = SumFunctionOnSet(f, T \cap U)}
<1>1. \A T \in SUBSET S : IsFiniteSet(T) /\ \A x \in T : f[x] \in Int
  BY FS_Subset
<1>2. ASSUME NEW T \in SUBSET S, \A x \in T : T \ {x} \in P PROVE T \in P
  <2>1. CASE T \subseteq U
    <3>1. T \cap U = T
      BY <2>1
    <3> QED
      BY <3>1
  <2>2. CASE ~ (T \subseteq U)
    <3>1. PICK x \in T : x \notin U
      BY <2>2
    <3>2. SumFunctionOnSet(f, T \ {x}) = SumFunctionOnSet(f, (T \ {x}) \cap U)
      BY <1>2
    <3>3. (T \ {x}) \cap U = T \cap U
      BY <3>1
    <3>4. SumFunctionOnSet(f, T) = f[x] + SumFunctionOnSet(f, T \ {x})
      BY <1>1, SumLaws
    <3>5. f[x] = 0
      BY <3>1
    <3>6. SumFunctionOnSet(f, T \ {x}) \in Int
      <4>1. T \ {x} \in SUBSET S
        OBVIOUS
      <4> QED
        BY <1>1, <4>1, SumLaws
    <3>7. SumFunctionOnSet(f, T) = SumFunctionOnSet(f, T \ {x})
      <4> DEFINE v == SumFunctionOnSet(f, T \ {x})
      <4>1. SumFunctionOnSet(f, T) = 0 + v /\ v \in Int
        BY <3>4, <3>5, <3>6
      <4> HIDE DEF v
      <4>2. SumFunctionOnSet(f, T) = v
        BY <4>1
      <4> QED
        BY <4>2 DEF v
    <3>8. SumFunctionOnSet(f, T) = SumFunctionOnSet(f, T \cap U)
      BY <3>2, <3>3, <3>7
    <3> QED
      BY <3>8
  <2> QED
    BY <2>1, <2>2
<1> HIDE DEF P
<1>3. S \in P
  BY <1>2, RemovalInduction
<1>4. S \cap U = U
  OBVIOUS
<1> QED
  BY <1>3, <1>4 DEF P

\* The image of a finite set is finite, and as large as the set if h is one-to-one.
LEMMA ImageIsFinite ==
    ASSUME NEW A, IsFiniteSet(A), NEW h
    PROVE  LET I == {h[a] : a \in A}
           IN  /\ IsFiniteSet(I)
               /\ (\A a, b \in A : h[a] = h[b] => a = b) => Cardinality(I) = Cardinality(A)
<1> DEFINE I == {h[a] : a \in A}
           f == [a \in A |-> h[a]]
<1>1. f \in [A -> I] /\ \A i \in I : \E a \in A : f[a] = i
  OBVIOUS
<1>2. \A a \in A : f[a] = h[a]
  OBVIOUS
<1> HIDE DEF f, I
<1>3. f \in Surjection(A, I)
  BY <1>1 DEF Surjection
<1>4. IsFiniteSet(I) /\ (f \in Injection(A, I) => Cardinality(I) = Cardinality(A))
  BY <1>3, FS_Surjection
<1>5. (\A a, b \in A : h[a] = h[b] => a = b) => f \in Injection(A, I)
  BY <1>1, <1>2 DEF Injection, IsInjective
<1>6. IsFiniteSet(I) /\ ((\A a, b \in A : h[a] = h[b] => a = b) => Cardinality(I) = Cardinality(A))
  BY <1>4, <1>5
<1> QED
  BY <1>6 DEF I

\* The same terms, named by the elements of another set.
LEMMA SumRenamed ==
    ASSUME NEW A, IsFiniteSet(A), NEW h, \A a, b \in A : h[a] = h[b] => a = b,
           NEW f, NEW g, \A a \in A : f[h[a]] \in Int /\ g[a] = f[h[a]]
    PROVE  SumFunctionOnSet(f, {h[a] : a \in A}) = SumFunctionOnSet(g, A)
<1> DEFINE Image(T) == {h[a] : a \in T}
           P == {T \in SUBSET A : SumFunctionOnSet(f, Image(T)) = SumFunctionOnSet(g, T)}
<1>1. \A T \in SUBSET A : /\ IsFiniteSet(T) /\ IsFiniteSet(Image(T))
                          /\ \A x \in T : g[x] \in Int
                          /\ \A y \in Image(T) : f[y] \in Int
  <2> SUFFICES ASSUME NEW T \in SUBSET A
               PROVE  IsFiniteSet(T) /\ IsFiniteSet(Image(T))
    OBVIOUS
  <2>1. IsFiniteSet(T)
    BY FS_Subset
  <2> QED
    BY <2>1, ImageIsFinite
<1>2. ASSUME NEW T \in SUBSET A, \A x \in T : T \ {x} \in P PROVE T \in P
  <2>1. CASE T = {}
    <3>1. Image(T) = {}
      BY <2>1
    <3> HIDE DEF Image
    <3>2. SumFunctionOnSet(f, Image(T)) = 0 /\ SumFunctionOnSet(g, T) = 0
      BY <1>1, <2>1, <3>1, SumLaws
    <3> QED
      BY <3>2
  <2>2. CASE T # {}
    <3>1. PICK x \in T : TRUE
      BY <2>2
    <3>2. h[x] \in Image(T) /\ Image(T) \ {h[x]} = Image(T \ {x}) /\ g[x] = f[h[x]]
      OBVIOUS
    <3>3. SumFunctionOnSet(f, Image(T \ {x})) = SumFunctionOnSet(g, T \ {x})
      BY <1>2
    <3> HIDE DEF Image
    <3>4. SumFunctionOnSet(f, Image(T)) = f[h[x]] + SumFunctionOnSet(f, Image(T) \ {h[x]})
      BY <1>1, <3>2, SumLaws
    <3>5. SumFunctionOnSet(g, T) = g[x] + SumFunctionOnSet(g, T \ {x})
      BY <1>1, SumLaws
    <3> QED
      BY <3>2, <3>3, <3>4, <3>5
  <2> QED
    BY <2>1, <2>2
<1> HIDE DEF P
<1>3. \A T \in SUBSET A : T \in P
  BY <1>2, RemovalInduction
<1> QED
  BY <1>3 DEF P

\* A sum in two stages: by the value of a key, and over its values.
LEMMA SumByKey ==
    ASSUME NEW S, IsFiniteSet(S), NEW f, NEW k, NEW B, IsFiniteSet(B),
           \A x \in S : f[x] \in Int /\ k[x] \in B,
           NEW piece \in [B -> SUBSET S], \A b \in B : \A x \in S : x \in piece[b] <=> k[x] = b,
           NEW g, \A b \in B : g[b] = SumFunctionOnSet(f, piece[b])
    PROVE  SumFunctionOnSet(g, B) = SumFunctionOnSet(f, S)
<1> DEFINE Part(T, b) == {x \in T : k[x] = b}
           G(T) == [b \in B |-> SumFunctionOnSet(f, Part(T, b))]
           P == {T \in SUBSET S : SumFunctionOnSet(G(T), B) = SumFunctionOnSet(f, T)}
<1>1. \A T \in SUBSET S : IsFiniteSet(T) /\ \A x \in T : f[x] \in Int
  BY FS_Subset
<1>2. \A T \in SUBSET S : \A b \in B :
         /\ Part(T, b) \in SUBSET S
         /\ G(T)[b] = SumFunctionOnSet(f, Part(T, b)) /\ G(T)[b] \in Int
  <2> SUFFICES ASSUME NEW T \in SUBSET S, NEW b \in B
               PROVE  SumFunctionOnSet(f, Part(T, b)) \in Int
    OBVIOUS
  <2>1. Part(T, b) \in SUBSET S
    OBVIOUS
  <2> HIDE DEF Part
  <2> QED
    BY <1>1, <2>1, SumLaws
<1> HIDE DEF G
<1>3. ASSUME NEW T \in SUBSET S, \A x \in T : T \ {x} \in P PROVE T \in P
  <2>1. CASE T = {}
    <3>1. \A b \in B : Part(T, b) = {}
      BY <2>1
    <3> HIDE DEF Part
    <3>2. \A b \in B : G(T)[b] = 0
      <4>1. SumFunctionOnSet(f, {}) = 0
        BY <1>1, <2>1, SumLaws
      <4>2. \A b \in B : G(T)[b] = SumFunctionOnSet(f, Part(T, b))
        BY <1>2
      <4> QED
        BY <3>1, <4>1, <4>2
    <3>3. SumFunctionOnSet(G(T), B) = 0
      BY <3>2, SumOfNaturals
    <3>4. SumFunctionOnSet(f, T) = 0
      BY <1>1, <2>1, SumLaws
    <3> QED
      BY <3>3, <3>4
  <2>2. CASE T # {}
    <3>1. PICK x \in T : TRUE
      BY <2>2
    <3> DEFINE c == k[x]
               U == T \ {x}
    <3>2. c \in B /\ U \in SUBSET S
      OBVIOUS
    <3>3. SumFunctionOnSet(G(U), B) = SumFunctionOnSet(f, U)
      BY <1>3
    <3>4. x \in Part(T, c) /\ Part(T, c) \ {x} = Part(U, c)
      OBVIOUS
    <3>5. \A b \in B : b # c => Part(T, b) = Part(U, b)
      OBVIOUS
    <3>6. SumFunctionOnSet(f, T) = f[x] + SumFunctionOnSet(f, U)
      BY <1>1, SumLaws
    <3> HIDE DEF c, Part, U
    <3>7. G(T)[c] = f[x] + G(U)[c]
      <4>1. SumFunctionOnSet(f, Part(T, c)) = f[x] + SumFunctionOnSet(f, Part(T, c) \ {x})
        BY <1>1, <1>2, <3>2, <3>4, SumLaws
      <4>2. /\ G(T)[c] = SumFunctionOnSet(f, Part(T, c))
            /\ G(U)[c] = SumFunctionOnSet(f, Part(U, c))
        BY <1>2, <3>2
      <4> QED
        BY <3>4, <4>1, <4>2
    <3>8. \A b \in B \ {c} : G(T)[b] = G(U)[b]
      BY <1>2, <3>2, <3>5
    <3>9. \A V \in SUBSET S : /\ \A b \in B : G(V)[b] \in Int
                              /\ IsFiniteSet(B \ {c})
      BY <1>2, FS_Subset
    <3>10. /\ SumFunctionOnSet(G(T), B) = G(T)[c] + SumFunctionOnSet(G(T), B \ {c})
           /\ SumFunctionOnSet(G(U), B) = G(U)[c] + SumFunctionOnSet(G(U), B \ {c})
      BY <3>2, <3>9, SumLaws
    <3>11. SumFunctionOnSet(G(T), B \ {c}) = SumFunctionOnSet(G(U), B \ {c})
      BY <3>2, <3>8, <3>9, SumLaws
    <3>12. SumFunctionOnSet(G(U), B \ {c}) \in Int
      BY <3>2, <3>9, SumLaws
    <3>13. f[x] \in Int /\ G(U)[c] \in Int
      BY <1>2, <3>2
    <3>14. SumFunctionOnSet(G(T), B) = SumFunctionOnSet(f, T)
      BY <3>3, <3>6, <3>7, <3>10, <3>11, <3>12, <3>13
    <3> QED
      BY <3>14
  <2> QED
    BY <2>1, <2>2
<1> HIDE DEF P
<1>4. \A T \in SUBSET S : T \in P
  BY <1>3, RemovalInduction
<1>5. SumFunctionOnSet(G(S), B) = SumFunctionOnSet(f, S)
  BY <1>4 DEF P
<1>6. \A b \in B : g[b] = G(S)[b] /\ G(S)[b] \in Int
  <2>1. \A b \in B : piece[b] = Part(S, b)
    OBVIOUS
  <2> QED
    BY <1>2, <2>1
<1>7. SumFunctionOnSet(g, B) = SumFunctionOnSet(G(S), B)
  BY <1>6, SumLaws
<1> QED
  BY <1>5, <1>7

\* The size of a set is the sum of the sizes of its parts by a key.
LEMMA SizeByKey ==
    ASSUME NEW S, IsFiniteSet(S), NEW k, NEW B, IsFiniteSet(B), \A x \in S : k[x] \in B,
           NEW g, \A b \in B : g[b] = Cardinality({x \in S : k[x] = b})
    PROVE  SumFunctionOnSet(g, B) = Cardinality(S)
<1> DEFINE one == [x \in S |-> 1]
           Part(b) == {x \in S : k[x] = b}
<1>1. \A x \in S : one[x] = 1
  OBVIOUS
<1>2. \A b : Part(b) \in SUBSET S
  OBVIOUS
<1>3. \A T \in SUBSET S : IsFiniteSet(T) /\ \A x \in T : one[x] = 1 /\ one[x] \in Nat /\ one[x] \in Int
  BY <1>1, FS_Subset
<1> HIDE DEF one
<1>4. \A T \in SUBSET S : SumFunctionOnSet(one, T) = Cardinality(T)
  BY <1>3, SumOfNaturals
<1>5. SumFunctionOnSet(g, B) = SumFunctionOnSet(one, S)
  <2> DEFINE piece == [b \in B |-> Part(b)]
  <2>1. \A x \in S : one[x] \in Int /\ k[x] \in B
    BY <1>3
  <2>2. piece \in [B -> SUBSET S] /\ \A b \in B : \A x \in S : x \in piece[b] <=> k[x] = b
    OBVIOUS
  <2>3. \A b \in B : g[b] = SumFunctionOnSet(one, piece[b])
    BY <1>2, <1>4
  <2> HIDE DEF piece
  <2> QED
    BY <2>1, <2>2, <2>3, SumByKey
<1> QED
  BY <1>4, <1>5
=============================================================================
