----------------------------- MODULE SumsProofs -----------------------------
(***************************************************************************)
(* What sums of amounts keep, for functions of any finite domain.  Each    *)
(* induction is an argument about a smallest counterexample: a nonempty    *)
(* set of natural numbers has a least element.                             *)
(***************************************************************************)
EXTENDS Sums, Bags, FiniteSetTheorems, WellFoundedInduction, TLAPS

(* A nonempty set of natural numbers has a least element.                  *)
LEMMA LeastNat ==
    ASSUME NEW T \in SUBSET Nat, T # {}
    PROVE  \E m \in T : \A k \in T : m <= k
<1> DEFINE R == {ss \in Nat \X Nat : ss[1] < ss[2]}
<1>1. IsWellFoundedOn(R, Nat)
  BY NatLessThanWellFounded, Zenon DEF OpToRel
<1>2. PICK x \in T : \A y \in T : ~(<<y, x>> \in R)
  <2> HIDE DEF R
  <2> QED BY <1>1, WFMin
<1>3. \A y \in T : x <= y
  <2> SUFFICES ASSUME NEW y \in T, y < x PROVE FALSE
    OBVIOUS
  <2>1. <<y, x>> \in R
    OBVIOUS
  <2> QED BY <1>2, <2>1, Zenon
<1> QED BY <1>3

(* A set of natural numbers that has 0 and with each number the next has   *)
(* them all.                                                               *)
LEMMA AllNat ==
    ASSUME NEW P \in SUBSET Nat, 0 \in P, \A n \in P : n + 1 \in P
    PROVE  P = Nat
<1> SUFFICES ASSUME Nat \ P # {} PROVE FALSE
  OBVIOUS
<1>1. PICK m \in Nat \ P : \A k \in Nat \ P : m <= k
  BY LeastNat
<1>2. m - 1 \in Nat
  BY <1>1
<1>3. m - 1 \in P
  BY <1>1, <1>2
<1> QED BY <1>1, <1>3

(* A bounded nonempty set of natural numbers has a greatest element.       *)
LEMMA GreatestNat ==
    ASSUME NEW S \in SUBSET Nat, S # {}, NEW n \in Nat, \A y \in S : y <= n
    PROVE  \E m \in S : \A y \in S : y <= m
<1> DEFINE T == {d \in Nat : n - d \in S}
<1>1. \A y \in S : n - y \in T
  <2> SUFFICES ASSUME NEW y \in S PROVE n - y \in T
    OBVIOUS
  <2>1. n - y \in Nat /\ n - (n - y) = y
    OBVIOUS
  <2> QED BY <2>1
<1>2. PICK d \in T : \A e \in T : d <= e
  <2>1. T \in SUBSET Nat /\ T # {}
    BY <1>1
  <2> HIDE DEF T
  <2> QED BY <2>1, LeastNat
<1>3. \A y \in S : y <= n - d
  BY <1>1, <1>2
<1>4. n - d \in S
  OBVIOUS
<1> HIDE DEF T
<1> QED BY <1>3, <1>4

-----------------------------------------------------------------------------
(* The fold behind a sum.                                                  *)

Pick(s) == CHOOSE x \in s : TRUE

\* g is the fold of f over the sets in D.
Folds(g, f, D) ==
    g = [s \in D |-> IF s = {} THEN 0 ELSE f[Pick(s)] + g[s \ {Pick(s)}]]

\* It is over all subsets of S.
FoldsAll(g, f, S) == Folds(g, f, SUBSET S)

(* What is picked is an element, and the rest has one fewer.               *)
LEMMA PickIn ==
    ASSUME NEW s, IsFiniteSet(s), s # {}
    PROVE  /\ Pick(s) \in s /\ IsFiniteSet(s \ {Pick(s)})
           /\ Cardinality(s) \in Nat \ {0}
           /\ Cardinality(s \ {Pick(s)}) = Cardinality(s) - 1
<1>1. Pick(s) \in s
  BY DEF Pick
<1> QED BY <1>1, FS_RemoveElement, FS_CardinalityType, FS_EmptySet

(* The fold exists.                                                        *)
LEMMA FoldExists ==
    ASSUME NEW f, NEW S, IsFiniteSet(S)
    PROVE  \E g : Folds(g, f, SUBSET S)
<1> DEFINE L(n) == {s \in SUBSET S : Cardinality(s) <= n}
           P == {n \in Nat : \E g : Folds(g, f, L(n))}
<1>0. \A s \in SUBSET S : IsFiniteSet(s) /\ Cardinality(s) \in Nat
  BY FS_Subset, FS_CardinalityType
<1>1. 0 \in P
  <2> DEFINE g == [s \in L(0) |-> 0]
  <2>1. \A s \in L(0) : s = {}
    BY <1>0, FS_EmptySet
  <2>2. Folds(g, f, L(0))
    BY <2>1 DEF Folds
  <2> QED BY <2>2
<1>2. ASSUME NEW n \in P PROVE n + 1 \in P
  <2>1. PICK g : Folds(g, f, L(n))
    OBVIOUS
  <2> DEFINE h == [s \in L(n + 1) |->
                     IF s = {} THEN 0 ELSE f[Pick(s)] + g[s \ {Pick(s)}]]
  <2>2. \A s \in L(n) : s \in L(n + 1) /\ h[s] = g[s]
    <3> SUFFICES ASSUME NEW s \in L(n) PROVE s \in L(n + 1) /\ h[s] = g[s]
      OBVIOUS
    <3>1. s \in L(n + 1)
      BY <1>0
    <3>2. g[s] = IF s = {} THEN 0 ELSE f[Pick(s)] + g[s \ {Pick(s)}]
      <4> HIDE DEF L
      <4> QED BY <2>1 DEF Folds
    <3>3. h[s] = IF s = {} THEN 0 ELSE f[Pick(s)] + g[s \ {Pick(s)}]
      <4> HIDE DEF L
      <4> QED BY <3>1
    <3> QED BY <3>1, <3>2, <3>3
  <2>3. \A s \in L(n + 1) : s # {} => s \ {Pick(s)} \in L(n)
    BY <1>0, PickIn
  <2>4. \A s \in L(n + 1) : s # {} => h[s \ {Pick(s)}] = g[s \ {Pick(s)}]
    BY <2>2, <2>3
  <2>5. Folds(h, f, L(n + 1))
    <3> SUFFICES h = [s \in L(n + 1) |->
                         IF s = {} THEN 0 ELSE f[Pick(s)] + h[s \ {Pick(s)}]]
      BY DEF Folds
    <3> QED BY <2>4
  <2>6. \E d : Folds(d, f, L(n + 1))
    <3> HIDE DEF h, L
    <3> QED BY <2>5
  <2>7. n \in Nat
    OBVIOUS
  <2> HIDE DEF h, L
  <2> QED BY <2>6, <2>7
<1>3. P = Nat
  <2> HIDE DEF P
  <2>1. P \in SUBSET Nat
    BY DEF P
  <2> QED BY <1>1, <1>2, <2>1, AllNat
<1>4. Cardinality(S) \in Nat /\ SUBSET S = L(Cardinality(S))
  BY <1>0, FS_Subset, FS_CardinalityType
<1>5. Cardinality(S) \in P
  BY <1>3, <1>4
<1>6. \E g : Folds(g, f, L(Cardinality(S)))
  BY <1>5
<1> QED BY <1>4, <1>6

(* It depends on the values in the set alone.                              *)
LEMMA FoldUnique ==
    ASSUME NEW f, NEW S, NEW g, FoldsAll(g, f, S),
           NEW e, NEW T, NEW h, FoldsAll(h, e, T),
           NEW u, IsFiniteSet(u), u \subseteq S, u \subseteq T,
           \A x \in u : f[x] = e[x]
    PROVE  g[u] = h[u]
<1> DEFINE P == {n \in Nat : \A s \in SUBSET u : Cardinality(s) = n => g[s] = h[s]}
<1>0. \A s \in SUBSET u : IsFiniteSet(s) /\ Cardinality(s) \in Nat
  BY FS_Subset, FS_CardinalityType
<1>1. \A s \in SUBSET u :
         /\ g[s] = IF s = {} THEN 0 ELSE f[Pick(s)] + g[s \ {Pick(s)}]
         /\ h[s] = IF s = {} THEN 0 ELSE e[Pick(s)] + h[s \ {Pick(s)}]
  <2> SUFFICES ASSUME NEW s \in SUBSET u
               PROVE  /\ g[s] = IF s = {} THEN 0 ELSE f[Pick(s)] + g[s \ {Pick(s)}]
                      /\ h[s] = IF s = {} THEN 0 ELSE e[Pick(s)] + h[s \ {Pick(s)}]
    OBVIOUS
  <2>1. s \in SUBSET S /\ s \in SUBSET T
    OBVIOUS
  <2> QED BY <2>1 DEF Folds, FoldsAll
<1>2. 0 \in P
  BY <1>0, <1>1, FS_EmptySet
<1>3. ASSUME NEW n \in P PROVE n + 1 \in P
  <2> SUFFICES ASSUME NEW s \in SUBSET u, Cardinality(s) = n + 1 PROVE g[s] = h[s]
    OBVIOUS
  <2>1. s # {} /\ IsFiniteSet(s) /\ n \in Nat
    BY <1>0, FS_EmptySet
  <2>2. /\ Pick(s) \in s /\ s \ {Pick(s)} \in SUBSET u
        /\ Cardinality(s \ {Pick(s)}) = n
    <3>1. /\ Pick(s) \in s /\ Cardinality(s \ {Pick(s)}) = Cardinality(s) - 1
      BY <2>1, PickIn
    <3> QED BY <2>1, <3>1
  <2>3. g[s \ {Pick(s)}] = h[s \ {Pick(s)}] /\ f[Pick(s)] = e[Pick(s)]
    BY <2>2
  <2> QED BY <1>1, <2>1, <2>3
<1>4. P = Nat
  <2> HIDE DEF P
  <2>1. P \in SUBSET Nat
    BY DEF P
  <2> QED BY <1>2, <1>3, <2>1, AllNat
<1>5. Cardinality(u) \in P
  BY <1>0, <1>4
<1> QED BY <1>5

\* f has finitely many values, all of them natural numbers.
Finite(f) == IsFiniteSet(DOMAIN f) /\ f \in [DOMAIN f -> Nat]

(* A sum is the value of such a fold.                                      *)
LEMMA SumFold ==
    ASSUME NEW f, IsFiniteSet(DOMAIN f)
    PROVE  \E g : FoldsAll(g, f, DOMAIN f) /\ SumOf(f) = g[DOMAIN f]
<1> DEFINE g == CHOOSE d : FoldsAll(d, f, DOMAIN f)
<1>1. FoldsAll(g, f, DOMAIN f)
  BY FoldExists DEF FoldsAll
<1>2. SumOf(f) = g[DOMAIN f]
  BY DEF SumOf, MapThenSumSet, MapThenFoldSet, Folds, FoldsAll, Pick
<1> HIDE DEF g
<1> QED BY <1>1, <1>2

\* The value of f at x, 0 where it has none, and f without x.
Of(f, x) == IF x \in DOMAIN f THEN f[x] ELSE 0
Without(f, x) == [y \in DOMAIN f \ {x} |-> f[y]]

(* A function without one of its elements.                                 *)
LEMMA WithoutFinite ==
    ASSUME NEW f, Finite(f), NEW x
    PROVE  /\ Finite(Without(f, x)) /\ DOMAIN Without(f, x) = DOMAIN f \ {x}
           /\ x \notin DOMAIN f => Without(f, x) = f
           /\ \A y : Of(Without(f, x), y) = IF y = x THEN 0 ELSE Of(f, y)
<1>1. IsFiniteSet(DOMAIN f \ {x})
  BY FS_RemoveElement DEF Finite
<1>2. x \notin DOMAIN f => Without(f, x) = f
  BY DEF Finite, Without
<1> QED BY <1>1, <1>2 DEF Finite, Without, Of

(* The empty sum, and a sum with the element picked first taken out.       *)
LEMMA SumPick ==
    ASSUME NEW f, Finite(f)
    PROVE  /\ DOMAIN f = {} => SumOf(f) = 0
           /\ DOMAIN f # {} =>
                 SumOf(f) = f[Pick(DOMAIN f)] + SumOf(Without(f, Pick(DOMAIN f)))
<1> DEFINE p == Pick(DOMAIN f)
           e == Without(f, p)
<1>1. PICK g : FoldsAll(g, f, DOMAIN f) /\ SumOf(f) = g[DOMAIN f]
  BY SumFold DEF Finite
<1>2. DOMAIN f = {} => SumOf(f) = 0
  BY <1>1 DEF Folds, FoldsAll
<1>3. ASSUME DOMAIN f # {} PROVE SumOf(f) = f[p] + SumOf(e)
  <2>1. Finite(e) /\ DOMAIN e = DOMAIN f \ {p}
    BY WithoutFinite
  <2>2. PICK h : FoldsAll(h, e, DOMAIN e) /\ SumOf(e) = h[DOMAIN e]
    BY <2>1, SumFold DEF Finite
  <2>3. \A x \in DOMAIN e : f[x] = e[x]
    BY DEF Without
  <2>4. g[DOMAIN e] = h[DOMAIN e]
    <3>1. IsFiniteSet(DOMAIN e) /\ DOMAIN e \subseteq DOMAIN f
      BY <2>1 DEF Finite
    <3> HIDE DEF e
    <3>2. PICK S, u, d : S = DOMAIN f /\ u = DOMAIN e /\ d = e
      OBVIOUS
    <3>3. FoldsAll(g, f, S) /\ FoldsAll(h, d, u) /\ IsFiniteSet(u)
      BY <1>1, <2>2, <3>1, <3>2
    <3>4. u \subseteq S /\ \A x \in u : f[x] = d[x]
      BY <2>3, <3>1, <3>2
    <3>5. g[u] = h[u]
      BY <3>3, <3>4, FoldUnique
    <3> QED BY <3>2, <3>5
  <2>5. g[DOMAIN f] = f[p] + g[DOMAIN f \ {p}]
    BY <1>1, <1>3 DEF Folds, FoldsAll
  <2> QED BY <1>1, <2>1, <2>2, <2>4, <2>5
<1> QED BY <1>2, <1>3

(* A sum of natural numbers is one.                                        *)
LEMMA SumNat ==
    ASSUME NEW f, Finite(f) PROVE SumOf(f) \in Nat
<1> DEFINE Claim(n) == \A e : Finite(e) /\ Cardinality(DOMAIN e) = n => SumOf(e) \in Nat
           P == {n \in Nat : Claim(n)}
<1>1. 0 \in P
  <2> SUFFICES ASSUME NEW e, Finite(e), Cardinality(DOMAIN e) = 0
               PROVE  SumOf(e) \in Nat
    OBVIOUS
  <2>1. DOMAIN e = {}
    BY FS_EmptySet DEF Finite
  <2>2. SumOf(e) = 0
    BY <2>1, SumPick
  <2> QED BY <2>2
<1>2. ASSUME NEW n \in P PROVE n + 1 \in P
  <2>0. n \in Nat /\ Claim(n)
    OBVIOUS
  <2> SUFFICES ASSUME NEW e, Finite(e), Cardinality(DOMAIN e) = n + 1
               PROVE  SumOf(e) \in Nat
    BY <2>0
  <2>1. PICK p, d : p = Pick(DOMAIN e) /\ d = Without(e, p)
    OBVIOUS
  <2>2. IsFiniteSet(DOMAIN e) /\ DOMAIN e # {}
    BY <2>0, FS_EmptySet DEF Finite
  <2>3. p \in DOMAIN e /\ Cardinality(DOMAIN e \ {p}) = n
    <3> HIDE DEF P, Claim
    <3>1. PICK U : U = DOMAIN e
      OBVIOUS
    <3>2. p \in U /\ Cardinality(U \ {p}) = Cardinality(U) - 1
      BY <2>1, <2>2, <3>1, PickIn
    <3> QED BY <2>0, <3>1, <3>2
  <2>4. Finite(d) /\ Cardinality(DOMAIN d) = n
    BY <2>1, <2>3, WithoutFinite
  <2>5. SumOf(d) \in Nat
    BY <2>0, <2>4
  <2>6. SumOf(e) = e[p] + SumOf(d) /\ e[p] \in Nat
    BY <2>1, <2>2, <2>3, SumPick DEF Finite
  <2> QED BY <2>5, <2>6
<1>3. P = Nat
  <2> HIDE DEF P
  <2>1. P \in SUBSET Nat
    BY DEF P
  <2> QED BY <1>1, <1>2, <2>1, AllNat
<1>4. Cardinality(DOMAIN f) \in Nat
  BY FS_CardinalityType DEF Finite
<1>5. Claim(Cardinality(DOMAIN f))
  BY <1>3, <1>4
<1> QED BY <1>5

(* Any element may be taken out of a sum.                                  *)
LEMMA SumOut ==
    ASSUME NEW f, Finite(f), NEW x
    PROVE  SumOf(f) = Of(f, x) + SumOf(Without(f, x))
<1> DEFINE Claim(n) == \A e, y : Finite(e) /\ Cardinality(DOMAIN e) = n /\ y \in DOMAIN e
                         => SumOf(e) = e[y] + SumOf(Without(e, y))
           P == {n \in Nat : Claim(n)}
<1>1. 0 \in P
  BY FS_EmptySet DEF Finite
<1>2. ASSUME NEW n \in P PROVE n + 1 \in P
  <2>0. n \in Nat /\ Claim(n)
    OBVIOUS
  <2> SUFFICES ASSUME NEW e, Finite(e), Cardinality(DOMAIN e) = n + 1, NEW y \in DOMAIN e
               PROVE  SumOf(e) = e[y] + SumOf(Without(e, y))
    BY <2>0
  <2>1. PICK p : p = Pick(DOMAIN e)
    OBVIOUS
  <2>2. IsFiniteSet(DOMAIN e) /\ DOMAIN e # {}
    BY DEF Finite
  <2>3. p \in DOMAIN e /\ SumOf(e) = e[p] + SumOf(Without(e, p))
    BY <2>1, <2>2, PickIn, SumPick
  <2>4. CASE y = p
    BY <2>3, <2>4
  <2>5. CASE y # p
    <3>1. PICK d, c, b : /\ d = Without(e, p) /\ c = Without(e, y)
                         /\ b = Without(d, y)
      OBVIOUS
    <3>2. /\ Finite(d) /\ DOMAIN d = DOMAIN e \ {p} /\ d[y] = e[y]
          /\ Finite(c) /\ DOMAIN c = DOMAIN e \ {y} /\ c[p] = e[p]
      <4> HIDE DEF P, Claim
      <4>1. Finite(d) /\ DOMAIN d = DOMAIN e \ {p}
        BY <3>1, WithoutFinite
      <4>2. Finite(c) /\ DOMAIN c = DOMAIN e \ {y}
        BY <3>1, WithoutFinite
      <4>3. d[y] = e[y] /\ c[p] = e[p]
        BY <2>3, <2>5, <3>1 DEF Without
      <4> QED BY <4>1, <4>2, <4>3
    <3>3. Cardinality(DOMAIN d) = n /\ Cardinality(DOMAIN c) = n
      BY <2>0, <2>2, <2>3, <3>2, FS_RemoveElement
    <3>4. b = Without(c, p)
      BY <3>1, <3>2 DEF Without
    <3>5. SumOf(d) = d[y] + SumOf(b) /\ SumOf(c) = c[p] + SumOf(b)
      <4>1. y \in DOMAIN d /\ p \in DOMAIN c
        BY <2>3, <2>5, <3>2
      <4>2. SumOf(d) = d[y] + SumOf(Without(d, y))
        BY <2>0, <3>2, <3>3, <4>1
      <4>3. SumOf(c) = c[p] + SumOf(Without(c, p))
        BY <2>0, <3>2, <3>3, <4>1
      <4> QED BY <3>1, <3>4, <4>2, <4>3
    <3>6. SumOf(b) \in Nat /\ e[y] \in Nat /\ e[p] \in Nat
      BY <2>3, <3>1, <3>2, SumNat, WithoutFinite DEF Finite
    <3> QED BY <2>3, <3>1, <3>2, <3>5, <3>6
  <2> QED BY <2>4, <2>5
<1>3. P = Nat
  <2> HIDE DEF P
  <2>1. P \in SUBSET Nat
    BY DEF P
  <2> QED BY <1>1, <1>2, <2>1, AllNat
<1>4. Cardinality(DOMAIN f) \in Nat
  BY FS_CardinalityType DEF Finite
<1>5. Claim(Cardinality(DOMAIN f))
  BY <1>3, <1>4
<1>6. x \in DOMAIN f => SumOf(f) = f[x] + SumOf(Without(f, x))
  BY <1>5
<1>7. x \notin DOMAIN f => SumOf(f) = 0 + SumOf(Without(f, x))
  <2> HIDE DEF P, Claim
  <2>1. x \notin DOMAIN f => Without(f, x) = f
    BY WithoutFinite
  <2>2. SumOf(f) \in Nat
    BY SumNat
  <2> QED BY <2>1, <2>2
<1> QED BY <1>6, <1>7 DEF Of

\* The values of c are those of a and b together, all within U.
Adds(a, b, c, U) ==
    /\ Finite(a) /\ Finite(b) /\ Finite(c)
    /\ DOMAIN a \subseteq U /\ DOMAIN b \subseteq U /\ DOMAIN c \subseteq U
    /\ \A x : Of(c, x) = Of(a, x) + Of(b, x)

(* They still are without one element.                                     *)
LEMMA AddsWithout ==
    ASSUME NEW a, NEW b, NEW c, NEW U, Adds(a, b, c, U), NEW x
    PROVE  Adds(Without(a, x), Without(b, x), Without(c, x), U \ {x})
<1>1. PICK d, e, k : d = Without(a, x) /\ e = Without(b, x) /\ k = Without(c, x)
  OBVIOUS
<1>2. Finite(a) /\ Finite(b) /\ Finite(c)
  BY DEF Adds
<1>3. /\ Finite(d) /\ DOMAIN d = DOMAIN a \ {x}
      /\ \A y : Of(d, y) = IF y = x THEN 0 ELSE Of(a, y)
  BY <1>1, <1>2, WithoutFinite
<1>4. /\ Finite(e) /\ DOMAIN e = DOMAIN b \ {x}
      /\ \A y : Of(e, y) = IF y = x THEN 0 ELSE Of(b, y)
  BY <1>1, <1>2, WithoutFinite
<1>5. /\ Finite(k) /\ DOMAIN k = DOMAIN c \ {x}
      /\ \A y : Of(k, y) = IF y = x THEN 0 ELSE Of(c, y)
  BY <1>1, <1>2, WithoutFinite
<1>6. \A y : Of(k, y) = Of(d, y) + Of(e, y)
  BY <1>3, <1>4, <1>5 DEF Adds
<1>7. Adds(d, e, k, U \ {x})
  BY <1>3, <1>4, <1>5, <1>6 DEF Adds
<1> QED BY <1>1, <1>7

(* Sums of functions add up where their values do.                         *)
LEMMA SumPlus ==
    ASSUME NEW f, Finite(f), NEW g, Finite(g), NEW h, Finite(h),
           \A x : Of(h, x) = Of(f, x) + Of(g, x)
    PROVE  SumOf(h) = SumOf(f) + SumOf(g)
<1> DEFINE Claim(n) == \A U, a, b, c :
               IsFiniteSet(U) /\ Cardinality(U) = n /\ Adds(a, b, c, U)
               => SumOf(c) = SumOf(a) + SumOf(b)
           P == {n \in Nat : Claim(n)}
<1>1. 0 \in P
  <2> SUFFICES ASSUME NEW U, NEW a, NEW b, NEW c, IsFiniteSet(U),
                      Cardinality(U) = 0, Adds(a, b, c, U)
               PROVE  SumOf(c) = SumOf(a) + SumOf(b)
    OBVIOUS
  <2>0. U = {}
    BY FS_EmptySet
  <2>1. DOMAIN a = {} /\ DOMAIN b = {} /\ DOMAIN c = {}
    BY <2>0 DEF Adds
  <2>2. SumOf(a) = 0 /\ SumOf(b) = 0 /\ SumOf(c) = 0
    BY <2>1, SumPick DEF Adds
  <2> QED BY <2>2
<1>2. ASSUME NEW n \in P PROVE n + 1 \in P
  <2>0. n \in Nat /\ Claim(n)
    OBVIOUS
  <2> SUFFICES ASSUME NEW U, NEW a, NEW b, NEW c, IsFiniteSet(U),
                      Cardinality(U) = n + 1, Adds(a, b, c, U)
               PROVE  SumOf(c) = SumOf(a) + SumOf(b)
    BY <2>0
  <2>1. U # {}
    BY <2>0, FS_EmptySet
  <2>2. PICK x : x \in U
    BY <2>1
  <2>3. PICK d, e, k, V : /\ d = Without(a, x) /\ e = Without(b, x)
                          /\ k = Without(c, x) /\ V = U \ {x}
    OBVIOUS
  <2>4. Adds(d, e, k, V)
    BY <2>3, AddsWithout
  <2>5. IsFiniteSet(V) /\ Cardinality(V) = n
    BY <2>0, <2>2, <2>3, FS_RemoveElement
  <2>6. SumOf(k) = SumOf(d) + SumOf(e)
    BY <2>0, <2>4, <2>5
  <2>7. /\ SumOf(a) = Of(a, x) + SumOf(d) /\ SumOf(b) = Of(b, x) + SumOf(e)
        /\ SumOf(c) = Of(c, x) + SumOf(k)
    BY <2>3, SumOut DEF Adds
  <2>8. SumOf(d) \in Nat /\ SumOf(e) \in Nat /\ SumOf(k) \in Nat
    BY <2>4, SumNat DEF Adds
  <2>9. Of(a, x) \in Nat /\ Of(b, x) \in Nat /\ Of(c, x) = Of(a, x) + Of(b, x)
    BY DEF Adds, Finite, Of
  <2> QED BY <2>6, <2>7, <2>8, <2>9
<1>3. P = Nat
  <2> HIDE DEF P
  <2>1. P \in SUBSET Nat
    BY DEF P
  <2> QED BY <1>1, <1>2, <2>1, AllNat
<1>4. PICK U : U = DOMAIN f \cup DOMAIN g \cup DOMAIN h
  OBVIOUS
<1>5. IsFiniteSet(U) /\ Cardinality(U) \in Nat
  <2>1. IsFiniteSet(DOMAIN f \cup DOMAIN g)
    BY FS_Union DEF Finite
  <2>2. IsFiniteSet(U)
    BY <1>4, <2>1, FS_Union DEF Finite
  <2> QED BY <2>2, FS_CardinalityType
<1>6. Adds(f, g, h, U)
  BY <1>4 DEF Adds
<1>7. Claim(Cardinality(U))
  BY <1>3, <1>5
<1> QED BY <1>5, <1>6, <1>7

(* A sum of smaller values over fewer elements is no larger.               *)
LEMMA SumMono ==
    ASSUME NEW f, Finite(f), NEW g, Finite(g),
           \A x \in DOMAIN f : x \in DOMAIN g /\ f[x] <= g[x]
    PROVE  SumOf(f) <= SumOf(g)
<1>1. PICK d : d = [x \in DOMAIN g |-> g[x] - Of(f, x)]
  OBVIOUS
<1>2. \A x \in DOMAIN g : g[x] \in Nat /\ Of(f, x) \in Nat /\ Of(f, x) <= g[x]
  BY DEF Finite, Of
<1>3. DOMAIN d = DOMAIN g /\ \A x \in DOMAIN d : d[x] \in Nat
  BY <1>1, <1>2
<1>4. Finite(d)
  BY <1>1, <1>3 DEF Finite
<1>5. ASSUME NEW x PROVE Of(g, x) = Of(f, x) + Of(d, x)
  <2>1. CASE x \in DOMAIN g
    BY <1>1, <1>2, <2>1 DEF Of
  <2>2. CASE x \notin DOMAIN g
    BY <1>3, <2>2 DEF Of
  <2> QED BY <2>1, <2>2
<1>6. SumOf(g) = SumOf(f) + SumOf(d)
  BY <1>4, <1>5, SumPlus
<1>7. SumOf(f) \in Nat /\ SumOf(d) \in Nat
  BY <1>4, SumNat
<1> QED BY <1>6, <1>7

(* A sum is no smaller than one of its values.                             *)
LEMMA SumAtLeast ==
    ASSUME NEW f, Finite(f), NEW x \in DOMAIN f
    PROVE  f[x] <= SumOf(f)
<1>1. PICK d : d = Without(f, x)
  OBVIOUS
<1>2. SumOf(f) = Of(f, x) + SumOf(d)
  BY <1>1, SumOut
<1>3. SumOf(d) \in Nat
  BY <1>1, WithoutFinite, SumNat
<1>4. Of(f, x) = f[x] /\ f[x] \in Nat
  BY DEF Of, Finite
<1> QED BY <1>2, <1>3, <1>4

(* The sum of one value.                                                   *)
LEMMA SumOne ==
    ASSUME NEW f, Finite(f), NEW x, DOMAIN f = {x}
    PROVE  SumOf(f) = f[x]
<1>1. PICK d : d = Without(f, x)
  OBVIOUS
<1>2. SumOf(f) = Of(f, x) + SumOf(d)
  BY <1>1, SumOut
<1>3. Finite(d) /\ DOMAIN d = {}
  BY <1>1, WithoutFinite
<1>4. SumOf(d) = 0
  BY <1>3, SumPick
<1>5. Of(f, x) = f[x] /\ f[x] \in Nat
  BY DEF Of, Finite
<1> QED BY <1>2, <1>4, <1>5

-----------------------------------------------------------------------------
(* Bags.                                                                   *)

\* A bag of finitely many kinds of element.
FiniteBag(B) == IsFiniteSet(DOMAIN B) /\ IsABag(B)

\* D holds what B and C hold.
Joins(B, C, D) ==
    /\ FiniteBag(B) /\ FiniteBag(C) /\ FiniteBag(D)
    /\ \A x : Of(D, x) = Of(B, x) + Of(C, x)

(* The counts of a bag.                                                    *)
LEMMA BagFinite ==
    ASSUME NEW B, FiniteBag(B)
    PROVE  Finite(B) /\ \A x \in DOMAIN B : B[x] \in Nat /\ B[x] > 0
BY DEF FiniteBag, IsABag, Finite

(* A function with positive counts is a bag.                               *)
LEMMA BagMade ==
    ASSUME NEW B, IsFiniteSet(DOMAIN B), B = [x \in DOMAIN B |-> B[x]],
           \A x \in DOMAIN B : B[x] \in Nat /\ B[x] > 0
    PROVE  FiniteBag(B)
BY DEF FiniteBag, IsABag

(* The empty bag and a bag of one.                                         *)
LEMMA SmallBags ==
    /\ FiniteBag(EmptyBag) /\ DOMAIN EmptyBag = {}
    /\ \A x : /\ FiniteBag(SetToBag({x})) /\ DOMAIN SetToBag({x}) = {x}
              /\ SetToBag({x})[x] = 1
<1>1. DOMAIN EmptyBag = {} /\ EmptyBag = [x \in DOMAIN EmptyBag |-> EmptyBag[x]]
  BY DEF EmptyBag, SetToBag
<1>2. FiniteBag(EmptyBag)
  BY <1>1, FS_EmptySet, BagMade
<1>3. ASSUME NEW x
      PROVE  /\ FiniteBag(SetToBag({x})) /\ DOMAIN SetToBag({x}) = {x}
             /\ SetToBag({x})[x] = 1
  <2>1. PICK B : B = SetToBag({x})
    OBVIOUS
  <2>2. DOMAIN B = {x} /\ B[x] = 1 /\ B = [y \in DOMAIN B |-> B[y]]
    BY <2>1 DEF SetToBag
  <2>3. IsFiniteSet({x})
    BY FS_Singleton
  <2>4. FiniteBag(B)
    BY <2>2, <2>3, BagMade
  <2> QED BY <2>1, <2>2, <2>4
<1> QED BY <1>1, <1>2, <1>3

(* Only a bag of nothing is the empty bag.                                 *)
LEMMA NoElements ==
    ASSUME NEW B, FiniteBag(B)
    PROVE  B = EmptyBag <=> DOMAIN B = {}
BY DEF FiniteBag, IsABag, EmptyBag, SetToBag

(* What is put into a bag.                                                 *)
LEMMA JoinPlus ==
    ASSUME NEW B, FiniteBag(B), NEW C, FiniteBag(C)
    PROVE  Joins(B, C, B (+) C) /\ DOMAIN (B (+) C) = DOMAIN B \cup DOMAIN C
<1>1. PICK D : D = B (+) C
  OBVIOUS
<1>2. /\ \A x \in DOMAIN B : B[x] \in Nat /\ B[x] > 0
      /\ \A x \in DOMAIN C : C[x] \in Nat /\ C[x] > 0
  BY BagFinite
<1>3. D = [x \in DOMAIN B \cup DOMAIN C |-> Of(B, x) + Of(C, x)]
  BY <1>1 DEF (+), Of
<1>4. DOMAIN D = DOMAIN B \cup DOMAIN C /\ \A x \in DOMAIN D : D[x] = Of(B, x) + Of(C, x)
  BY <1>3
<1>5. \A x \in DOMAIN D : D[x] \in Nat /\ D[x] > 0
  BY <1>2, <1>4 DEF Of
<1>6. IsFiniteSet(DOMAIN B \cup DOMAIN C)
  BY FS_Union DEF FiniteBag
<1>7. D = [x \in DOMAIN D |-> D[x]]
  BY <1>3
<1>8. FiniteBag(D)
  BY <1>4, <1>5, <1>6, <1>7, BagMade
<1>9. \A x : Of(D, x) = Of(B, x) + Of(C, x)
  BY <1>4 DEF Of
<1> QED BY <1>1, <1>4, <1>8, <1>9 DEF Joins

(* What is taken out of a bag that has it.                                 *)
LEMMA JoinMinus ==
    ASSUME NEW B, FiniteBag(B), NEW C, FiniteBag(C), C \sqsubseteq B
    PROVE  Joins(B (-) C, C, B) /\ DOMAIN (B (-) C) \subseteq DOMAIN B
<1>1. PICK D : D = B (-) C
  OBVIOUS
<1>2. /\ \A x \in DOMAIN B : B[x] \in Nat /\ B[x] > 0
      /\ \A x \in DOMAIN C : C[x] \in Nat /\ C[x] > 0
  BY BagFinite
<1>0. \A x \in DOMAIN C : x \in DOMAIN B /\ C[x] <= B[x]
  BY DEF \sqsubseteq
<1>3. D = [x \in {y \in DOMAIN B : B[y] - Of(C, y) > 0} |-> B[x] - Of(C, x)]
  <2>1. \A x \in DOMAIN B : (IF x \in DOMAIN C THEN B[x] - C[x] ELSE B[x]) = B[x] - Of(C, x)
    BY <1>2 DEF Of
  <2> QED BY <1>1, <2>1 DEF (-)
<1>4. /\ DOMAIN D \subseteq DOMAIN B
      /\ \A x \in DOMAIN D : D[x] = B[x] - Of(C, x) /\ D[x] > 0
      /\ \A x \in DOMAIN B : x \notin DOMAIN D => ~(B[x] - Of(C, x) > 0)
  BY <1>3
<1>5. \A x : Of(C, x) \in Nat
  BY <1>2 DEF Of
<1>6. \A x \in DOMAIN D : D[x] \in Nat /\ D[x] > 0
  BY <1>2, <1>4, <1>5
<1>7. IsFiniteSet(DOMAIN D)
  BY <1>4, FS_Subset DEF FiniteBag
<1>8. D = [x \in DOMAIN D |-> D[x]]
  BY <1>3
<1>9. FiniteBag(D)
  BY <1>6, <1>7, <1>8, BagMade
<1>10. ASSUME NEW x PROVE Of(B, x) = Of(D, x) + Of(C, x)
  <2>1. CASE x \in DOMAIN D
    BY <1>2, <1>4, <1>5, <2>1 DEF Of
  <2>2. CASE x \in DOMAIN B /\ x \notin DOMAIN D
    <3>1. B[x] - Of(C, x) <= 0 /\ Of(C, x) \in Nat /\ B[x] \in Nat /\ B[x] > 0
      BY <1>2, <1>4, <1>5, <2>2
    <3>2. x \in DOMAIN C /\ C[x] <= B[x]
      BY <1>0, <3>1 DEF Of
    <3> QED BY <2>2, <3>1, <3>2 DEF Of
  <2>3. CASE x \notin DOMAIN B
    BY <1>0, <1>4, <2>3 DEF Of
  <2> QED BY <2>1, <2>2, <2>3
<1> QED BY <1>1, <1>4, <1>9, <1>10 DEF Joins

(* The parts of a bag are in it.                                           *)
LEMMA JoinParts ==
    ASSUME NEW B, NEW C, NEW D, Joins(B, C, D)
    PROVE  /\ B \sqsubseteq D /\ C \sqsubseteq D
           /\ DOMAIN D = DOMAIN B \cup DOMAIN C
<1>1. /\ \A x \in DOMAIN B : B[x] \in Nat /\ B[x] > 0
      /\ \A x \in DOMAIN C : C[x] \in Nat /\ C[x] > 0
      /\ \A x \in DOMAIN D : D[x] \in Nat /\ D[x] > 0
      /\ \A x : Of(D, x) = Of(B, x) + Of(C, x)
  BY BagFinite DEF Joins
<1>2. ASSUME NEW x \in DOMAIN B PROVE x \in DOMAIN D /\ B[x] <= D[x]
  BY <1>1 DEF Of
<1>3. ASSUME NEW x \in DOMAIN C PROVE x \in DOMAIN D /\ C[x] <= D[x]
  BY <1>1 DEF Of
<1>4. ASSUME NEW x \in DOMAIN D PROVE x \in DOMAIN B \cup DOMAIN C
  BY <1>1 DEF Of
<1> QED BY <1>2, <1>3, <1>4 DEF \sqsubseteq

(* The order of bags: a bag within one of the parts' wholes.               *)
LEMMA PartOfPart ==
    ASSUME NEW B, FiniteBag(B), NEW C, FiniteBag(C), NEW D, FiniteBag(D),
           B \sqsubseteq C, C \sqsubseteq D
    PROVE  B \sqsubseteq D
<1>1. /\ \A x \in DOMAIN B : B[x] \in Nat
      /\ \A x \in DOMAIN C : C[x] \in Nat
      /\ \A x \in DOMAIN D : D[x] \in Nat
  BY BagFinite
<1> QED BY <1>1 DEF \sqsubseteq

\* A bag's counts times the weights of its elements, and their sum.
Weighed(B, w) == [x \in DOMAIN B |-> B[x] * w[x]]
Total(B, w) == SumOf(Weighed(B, w))

(* A total is a natural number.                                            *)
LEMMA WeighedFinite ==
    ASSUME NEW B, FiniteBag(B), NEW w, \A x \in DOMAIN B : w[x] \in Nat
    PROVE  Finite(Weighed(B, w)) /\ Total(B, w) \in Nat
<1>1. PICK f : f = Weighed(B, w)
  OBVIOUS
<1>2. \A x \in DOMAIN B : B[x] \in Nat
  BY BagFinite
<1>3. \A x \in DOMAIN B : B[x] * w[x] \in Nat
  BY <1>2
<1>4. f \in [DOMAIN B -> Nat] /\ DOMAIN f = DOMAIN B
  BY <1>1, <1>3 DEF Weighed
<1>5. Finite(f)
  BY <1>4 DEF Finite, FiniteBag
<1> QED BY <1>1, <1>5, SumNat DEF Total

(* Totals of the parts add up, whatever the weights.                       *)
LEMMA JoinTotal ==
    ASSUME NEW B, NEW C, NEW D, Joins(B, C, D), NEW w,
           \A x \in DOMAIN D : w[x] \in Nat
    PROVE  Total(D, w) = Total(B, w) + Total(C, w)
<1>1. PICK f, g, h : f = Weighed(B, w) /\ g = Weighed(C, w) /\ h = Weighed(D, w)
  OBVIOUS
<1>2. DOMAIN D = DOMAIN B \cup DOMAIN C
  BY JoinParts
<1>3. FiniteBag(B) /\ FiniteBag(C) /\ FiniteBag(D)
  BY DEF Joins
<1>4. Finite(f) /\ Finite(g) /\ Finite(h)
  BY <1>1, <1>2, <1>3, WeighedFinite
<1>5. /\ \A x \in DOMAIN B : B[x] \in Nat
      /\ \A x \in DOMAIN C : C[x] \in Nat
      /\ \A x \in DOMAIN D : D[x] \in Nat
  BY <1>3, BagFinite
<1>6. /\ DOMAIN f = DOMAIN B /\ \A x \in DOMAIN B : f[x] = B[x] * w[x]
      /\ DOMAIN g = DOMAIN C /\ \A x \in DOMAIN C : g[x] = C[x] * w[x]
      /\ DOMAIN h = DOMAIN D /\ \A x \in DOMAIN D : h[x] = D[x] * w[x]
  BY <1>1 DEF Weighed
<1>7. ASSUME NEW x PROVE Of(h, x) = Of(f, x) + Of(g, x)
  <2>1. CASE x \notin DOMAIN D
    BY <1>2, <1>6, <2>1 DEF Of
  <2>2. CASE x \in DOMAIN D
    <3>1. PICK b, c, d, u : b = Of(B, x) /\ c = Of(C, x) /\ d = Of(D, x) /\ u = w[x]
      OBVIOUS
    <3>2. b \in Nat /\ c \in Nat /\ d \in Nat /\ u \in Nat /\ d = b + c
      BY <1>5, <2>2, <3>1 DEF Of, Joins
    <3>3. d * u = b * u + c * u /\ 0 * u = 0
      BY <3>2
    <3>4. Of(f, x) = b * u
      BY <1>6, <3>1, <3>3 DEF Of
    <3>5. Of(g, x) = c * u
      BY <1>6, <3>1, <3>3 DEF Of
    <3>6. Of(h, x) = d * u
      BY <1>6, <2>2, <3>1 DEF Of
    <3> QED BY <3>3, <3>4, <3>5, <3>6
  <2> QED BY <2>1, <2>2
<1>8. SumOf(h) = SumOf(f) + SumOf(g)
  BY <1>4, <1>7, SumPlus
<1> QED BY <1>1, <1>8 DEF Total

(* The total of one element is its weight, that of none is 0.              *)
LEMMA TotalOne ==
    ASSUME NEW x, NEW w, w[x] \in Nat
    PROVE  Total(SetToBag({x}), w) = w[x] /\ Total(EmptyBag, w) = 0
<1>1. PICK B, f : B = SetToBag({x}) /\ f = Weighed(B, w)
  OBVIOUS
<1>2. FiniteBag(B) /\ DOMAIN B = {x} /\ B[x] = 1
  BY <1>1, SmallBags
<1>3. Finite(f) /\ DOMAIN f = {x} /\ f[x] = w[x]
  <2>1. Finite(f)
    BY <1>1, <1>2, WeighedFinite
  <2>2. DOMAIN f = {x} /\ f[x] = 1 * w[x]
    BY <1>1, <1>2 DEF Weighed
  <2> QED BY <2>1, <2>2
<1>4. SumOf(f) = w[x]
  BY <1>3, SumOne
<1>5. PICK e : e = Weighed(EmptyBag, w)
  OBVIOUS
<1>6. Finite(e) /\ DOMAIN e = {}
  BY <1>5, SmallBags, WeighedFinite DEF Weighed
<1>7. SumOf(e) = 0
  BY <1>6, SumPick
<1> QED BY <1>1, <1>4, <1>5, <1>7 DEF Total
=============================================================================
