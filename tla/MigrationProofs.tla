-------------------------- MODULE MigrationProofs --------------------------
(***************************************************************************)
(* The safety invariants of Migration for every set of wallets, deposits   *)
(* and bounds.                                                             *)
(***************************************************************************)
EXTENDS Migration, SumsProofs

\* A bag of notes.
Notes(B) == FiniteBag(B) /\ DOMAIN B \subseteq Nat \ {0}

(* The value and the number of notes are natural numbers.                  *)
LEMMA NotesWorth ==
    ASSUME NEW B, Notes(B)
    PROVE  /\ Worth(B) = Total(B, [v \in Nat |-> v])
           /\ Worth(B) \in Nat /\ Size(B) \in Nat
<1>1. PICK w : w = [v \in Nat |-> v]
  OBVIOUS
<1>2. \A v \in DOMAIN B : w[v] = v /\ v \in Nat /\ B[v] \in Nat
  BY <1>1, BagFinite DEF Notes
<1>3. \A v \in DOMAIN B : v * B[v] = B[v] * w[v]
  BY <1>2
<1>4. Weighed(B, w) = [v \in DOMAIN B |-> v * B[v]]
  BY <1>3 DEF Weighed
<1>5. Worth(B) = Total(B, w)
  BY <1>4 DEF Worth, Total
<1>6. Total(B, w) \in Nat
  BY <1>2, WeighedFinite DEF Notes
<1>7. Size(B) \in Nat
  BY BagFinite, SumNat DEF Size, Notes
<1> QED BY <1>1, <1>5, <1>6, <1>7

(* The worth of the parts.                                                 *)
LEMMA WorthJoins ==
    ASSUME NEW B, NEW C, NEW D, Joins(B, C, D), Notes(D)
    PROVE  Notes(B) /\ Notes(C) /\ Worth(D) = Worth(B) + Worth(C)
<1>1. PICK w : w = [v \in Nat |-> v]
  OBVIOUS
<1>2. Notes(B) /\ Notes(C)
  <2>1. DOMAIN D = DOMAIN B \cup DOMAIN C
    BY JoinParts
  <2> QED BY <2>1 DEF Notes, Joins
<1>3. \A v \in DOMAIN D : w[v] \in Nat
  BY <1>1 DEF Notes
<1>4. Total(D, w) = Total(B, w) + Total(C, w)
  BY <1>3, JoinTotal
<1> QED BY <1>1, <1>2, <1>4, NotesWorth

(* Bags of notes that are put together hold as many as both.               *)
LEMMA SizeJoins ==
    ASSUME NEW B, NEW C, NEW D, Joins(B, C, D), Notes(D)
    PROVE  Size(D) = Size(B) + Size(C)
<1>1. PICK w : w = [v \in Nat |-> 1]
  OBVIOUS
<1>2. \A v \in DOMAIN D : w[v] = 1
  BY <1>1 DEF Notes
<1>3. Notes(B) /\ Notes(C)
  BY WorthJoins
<1>4. Total(D, w) = Total(B, w) + Total(C, w)
  BY <1>2, JoinTotal
<1>5. ASSUME NEW F, Notes(F) PROVE Total(F, w) = Size(F)
  <2>1. FiniteBag(F) /\ \A v \in DOMAIN F : w[v] = 1
    BY <1>1, <1>5 DEF Notes
  <2>2. \A v \in DOMAIN F : F[v] \in Nat
    BY <2>1, BagFinite
  <2>3. F = [v \in DOMAIN F |-> F[v]]
    BY <2>1, BagFinite DEF Finite
  <2>4. Weighed(F, w) = F
    BY <2>1, <2>2, <2>3 DEF Weighed
  <2> QED BY <2>4 DEF Total, Size
<1> QED BY <1>3, <1>4, <1>5

(* A part is worth no more and has no more notes.                          *)
LEMMA PartWorth ==
    ASSUME NEW B, Notes(B), NEW C, FiniteBag(C), C \sqsubseteq B
    PROVE  Notes(C) /\ Worth(C) <= Worth(B) /\ Size(C) <= Size(B)
<1>1. PICK D : D = B (-) C
  OBVIOUS
<1>2. Joins(D, C, B)
  BY <1>1, JoinMinus DEF Notes
<1>3. Notes(D) /\ Notes(C) /\ Worth(B) = Worth(D) + Worth(C)
  BY <1>2, WorthJoins
<1>4. Worth(C) <= Worth(B)
  <2>1. Worth(C) \in Nat /\ Worth(D) \in Nat
    BY <1>3, NotesWorth
  <2> QED BY <1>3, <2>1
<1>5. Size(C) <= Size(B)
  <2>1. Finite(B) /\ Finite(C)
    BY BagFinite DEF Notes
  <2>2. \A x \in DOMAIN C : x \in DOMAIN B /\ C[x] <= B[x]
    BY DEF \sqsubseteq
  <2> QED BY <2>1, <2>2, SumMono DEF Size
<1> QED BY <1>3, <1>4, <1>5

(* The value of one note and of none.                                      *)
LEMMA WorthOne ==
    /\ Notes(EmptyBag) /\ Worth(EmptyBag) = 0 /\ Size(EmptyBag) = 0
    /\ \A v \in Nat \ {0} : Notes(One(v)) /\ Worth(One(v)) = v /\ Size(One(v)) = 1
<1>1. PICK w : w = [v \in Nat |-> v]
  OBVIOUS
<1>2. Notes(EmptyBag)
  BY SmallBags DEF Notes
<1>3. ASSUME NEW v \in Nat \ {0}
      PROVE  Notes(One(v)) /\ Worth(One(v)) = v /\ Size(One(v)) = 1
  <2>1. PICK B : B = SetToBag({v})
    OBVIOUS
  <2>2. FiniteBag(B) /\ DOMAIN B = {v} /\ B[v] = 1
    BY <2>1, SmallBags
  <2>3. Notes(B)
    BY <2>2 DEF Notes
  <2>4. w[v] = v
    BY <1>1
  <2>5. Total(B, w) = v
    BY <2>1, <2>4, TotalOne
  <2>6. Worth(B) = v
    BY <1>1, <2>3, <2>5, NotesWorth
  <2>7. Size(B) = 1
    BY <2>2, BagFinite, SumOne DEF Size
  <2> QED BY <2>1, <2>3, <2>6, <2>7 DEF One
<1>4. Worth(EmptyBag) = 0
  <2>1. w[0] = 0
    BY <1>1
  <2>2. Total(EmptyBag, w) = 0
    <3>1. PICK x : x = 0
      OBVIOUS
    <3>2. w[x] \in Nat
      BY <2>1, <3>1
    <3> QED BY <3>2, TotalOne
  <2> QED BY <1>1, <1>2, <2>2, NotesWorth
<1>5. Size(EmptyBag) = 0
  BY SmallBags, BagFinite, SumPick DEF Size
<1> QED BY <1>2, <1>3, <1>4, <1>5

(* A bag with notes in it is worth something.                              *)
LEMMA WorthSome ==
    ASSUME NEW B, Notes(B)
    PROVE  \A v \in DOMAIN B : v <= Worth(B) /\ 1 <= Size(B)
<1> SUFFICES ASSUME NEW v \in DOMAIN B PROVE v <= Worth(B) /\ 1 <= Size(B)
  OBVIOUS
<1>1. v \in Nat \ {0} /\ B[v] \in Nat /\ B[v] > 0
  BY BagFinite DEF Notes
<1>2. FiniteBag(One(v)) /\ One(v) \sqsubseteq B
  <2>1. PICK C : C = One(v)
    OBVIOUS
  <2>2. FiniteBag(C) /\ DOMAIN C = {v} /\ C[v] = 1
    BY <2>1, SmallBags DEF One
  <2> QED BY <1>1, <2>1, <2>2 DEF \sqsubseteq
<1>3. Worth(One(v)) <= Worth(B) /\ Size(One(v)) <= Size(B)
  BY <1>2, PartWorth
<1> QED BY <1>1, <1>3, WorthOne

-----------------------------------------------------------------------------
(* The largest notes: sorted in descending order and truncated.            *)

\* The notes larger than v.
Larger(B, v) == [u \in {w \in DOMAIN B : w > v} |-> B[u]]

(* They are notes of the bag.                                              *)
LEMMA LargerNotes ==
    ASSUME NEW B, Notes(B), NEW v
    PROVE  /\ Notes(Larger(B, v)) /\ Above(B, v) = Size(Larger(B, v))
           /\ Above(B, v) \in Nat
<1>1. PICK C : C = Larger(B, v)
  OBVIOUS
<1>2. /\ DOMAIN C = {w \in DOMAIN B : w > v}
      /\ \A u \in DOMAIN C : C[u] = B[u]
      /\ C = [u \in DOMAIN C |-> C[u]]
  BY <1>1 DEF Larger
<1>3. IsFiniteSet(DOMAIN C)
  BY <1>2, FS_Subset DEF Notes, FiniteBag
<1>4. \A u \in DOMAIN C : C[u] \in Nat /\ C[u] > 0
  BY <1>2, BagFinite DEF Notes
<1>5. Notes(C)
  BY <1>2, <1>3, <1>4, BagMade DEF Notes
<1>6. Above(B, v) = Size(C)
  BY <1>1 DEF Above, Size, Larger
<1> QED BY <1>1, <1>5, <1>6, NotesWorth

(* What is left after the truncation are notes of the bag.                 *)
LEMMA LargestNotes ==
    ASSUME NEW B, Notes(B), NEW n \in Nat
    PROVE  /\ Notes(Largest(n, B)) /\ Largest(n, B) \sqsubseteq B
           /\ DOMAIN Largest(n, B) = {u \in DOMAIN B : Above(B, u) < n}
           /\ \A v \in DOMAIN Largest(n, B) :
                 Largest(n, B)[v] <= B[v] /\ Largest(n, B)[v] <= n - Above(B, v)
<1>1. PICK L : L = Largest(n, B)
  OBVIOUS
<1>2. /\ DOMAIN L = {u \in DOMAIN B : Above(B, u) < n}
      /\ \A v \in DOMAIN L : L[v] = SmallerOf(B[v], n - Above(B, v))
      /\ L = [v \in DOMAIN L |-> L[v]]
  BY <1>1 DEF Largest
<1>3. ASSUME NEW v \in DOMAIN L
      PROVE  L[v] \in Nat /\ L[v] > 0 /\ L[v] <= B[v] /\ L[v] <= n - Above(B, v)
  <2>1. B[v] \in Nat /\ B[v] > 0 /\ Above(B, v) \in Nat
    BY <1>2, BagFinite, LargerNotes DEF Notes
  <2> QED BY <1>2, <2>1 DEF SmallerOf
<1>4. IsFiniteSet(DOMAIN L)
  BY <1>2, FS_Subset DEF Notes, FiniteBag
<1>5. Notes(L)
  BY <1>2, <1>3, <1>4, BagMade DEF Notes
<1>6. L \sqsubseteq B
  BY <1>2, <1>3 DEF \sqsubseteq
<1> QED BY <1>1, <1>2, <1>3, <1>5, <1>6

(* No more than n notes are left.                                          *)
LEMMA LargestSize ==
    ASSUME NEW B, Notes(B), NEW n \in Nat
    PROVE  Size(Largest(n, B)) <= n
<1>1. PICK L : L = Largest(n, B)
  OBVIOUS
<1>2. /\ Notes(L) /\ DOMAIN L = {u \in DOMAIN B : Above(B, u) < n}
      /\ \A v \in DOMAIN L : L[v] <= B[v] /\ L[v] <= n - Above(B, v)
  BY <1>1, LargestNotes
<1>3. CASE DOMAIN L = {}
  BY <1>1, <1>2, <1>3, BagFinite, SumPick DEF Notes, Size
<1>4. CASE DOMAIN L # {}
  <2>1. DOMAIN L \in SUBSET Nat
    BY <1>2 DEF Notes
  <2>2. PICK m \in DOMAIN L : \A k \in DOMAIN L : m <= k
    BY <1>4, <2>1, LeastNat
  <2>3. PICK R, C : R = Without(L, m) /\ C = Larger(B, m)
    OBVIOUS
  <2>4. Finite(L) /\ L[m] \in Nat
    BY <1>2, BagFinite DEF Notes
  <2>5. Finite(R) /\ DOMAIN R = DOMAIN L \ {m} /\ SumOf(L) = Of(L, m) + SumOf(R)
    BY <2>3, <2>4, WithoutFinite, SumOut
  <2>6. Finite(C) /\ Above(B, m) = SumOf(C)
    BY <2>3, LargerNotes, BagFinite DEF Notes, Size
  <2>7. \A x \in DOMAIN R : x \in DOMAIN C /\ R[x] <= C[x]
    <3> SUFFICES ASSUME NEW x \in DOMAIN R PROVE x \in DOMAIN C /\ R[x] <= C[x]
      OBVIOUS
    <3>1. x \in DOMAIN L /\ x # m /\ x \in DOMAIN B
      BY <1>2, <2>5
    <3>2. x > m
      BY <2>1, <2>2, <3>1
    <3> QED BY <1>2, <2>3, <3>1, <3>2 DEF Without, Larger
  <2>8. SumOf(R) <= SumOf(C)
    BY <2>5, <2>6, <2>7, SumMono
  <2>9. SumOf(R) \in Nat /\ SumOf(C) \in Nat
    BY <2>5, <2>6, SumNat
  <2>10. L[m] <= n - SumOf(C)
    BY <1>2, <2>6
  <2> QED BY <1>1, <2>4, <2>5, <2>8, <2>9, <2>10 DEF Of, Size
<1> QED BY <1>3, <1>4

(* A truncation to at least as many notes as there are keeps them all.     *)
LEMMA LargestAll ==
    ASSUME NEW B, Notes(B), NEW n \in Nat, Size(B) <= n
    PROVE  Largest(n, B) = B
<1>1. ASSUME NEW v \in DOMAIN B PROVE Above(B, v) < n /\ B[v] <= n - Above(B, v)
  <2>1. PICK R, C : R = Without(B, v) /\ C = Larger(B, v)
    OBVIOUS
  <2>2. Finite(B) /\ B[v] \in Nat /\ B[v] > 0
    BY BagFinite DEF Notes
  <2>3. Finite(R) /\ DOMAIN R = DOMAIN B \ {v} /\ SumOf(B) = Of(B, v) + SumOf(R)
    BY <2>1, <2>2, WithoutFinite, SumOut
  <2>4. Finite(C) /\ Above(B, v) = SumOf(C)
    BY <2>1, LargerNotes, BagFinite DEF Notes, Size
  <2>5. \A x \in DOMAIN C : x \in DOMAIN R /\ C[x] <= R[x]
    <3> SUFFICES ASSUME NEW x \in DOMAIN C PROVE x \in DOMAIN R /\ C[x] <= R[x]
      OBVIOUS
    <3>1. x \in DOMAIN B /\ x > v /\ C[x] = B[x]
      BY <2>1 DEF Larger
    <3>2. x \in Nat /\ v \in Nat /\ B[x] \in Nat
      BY <3>1, BagFinite DEF Notes
    <3>3. x \in DOMAIN R
      BY <2>3, <3>1, <3>2
    <3> QED BY <2>1, <3>1, <3>2, <3>3 DEF Without
  <2>6. SumOf(C) <= SumOf(R)
    BY <2>3, <2>4, <2>5, SumMono
  <2>7. SumOf(R) \in Nat /\ SumOf(C) \in Nat
    BY <2>3, <2>4, SumNat
  <2> QED BY <2>2, <2>3, <2>4, <2>6, <2>7 DEF Of, Size
<1>2. ASSUME NEW v \in DOMAIN B PROVE SmallerOf(B[v], n - Above(B, v)) = B[v]
  <2>1. B[v] \in Nat /\ Above(B, v) \in Nat
    BY BagFinite, LargerNotes DEF Notes
  <2> QED BY <1>1, <2>1 DEF SmallerOf
<1>3. {u \in DOMAIN B : Above(B, u) < n} = DOMAIN B
  BY <1>1
<1>4. Largest(n, B) = [v \in DOMAIN B |-> B[v]]
  BY <1>2, <1>3 DEF Largest
<1>5. B = [v \in DOMAIN B |-> B[v]]
  BY BagFinite DEF Notes, Finite
<1> QED BY <1>4, <1>5

(* Among some notes one is largest.                                        *)
LEMMA GreatestNote ==
    ASSUME NEW B, Notes(B), DOMAIN B # {}
    PROVE  \E m \in DOMAIN B : \A v \in DOMAIN B : v <= m
<1>1. PICK W : W = Worth(B)
  OBVIOUS
<1>2. W \in Nat /\ \A v \in DOMAIN B : v \in Nat /\ v <= W
  BY <1>1, NotesWorth, WorthSome DEF Notes
<1> QED BY <1>2, GreatestNat DEF Notes

(* It survives the truncation; a truncation to none leaves none.           *)
LEMMA LargestSome ==
    ASSUME NEW B, Notes(B), NEW n \in Nat
    PROVE  DOMAIN Largest(n, B) = {} <=> (n = 0 \/ DOMAIN B = {})
<1>1. DOMAIN Largest(n, B) = {u \in DOMAIN B : Above(B, u) < n}
  BY LargestNotes
<1>2. n = 0 \/ DOMAIN B = {} => DOMAIN Largest(n, B) = {}
  BY <1>1, LargerNotes
<1>3. ASSUME n # 0, DOMAIN B # {} PROVE DOMAIN Largest(n, B) # {}
  <2>1. PICK m \in DOMAIN B : \A v \in DOMAIN B : v <= m
    BY <1>3, GreatestNote
  <2>2. PICK C : C = Larger(B, m)
    OBVIOUS
  <2>3. \A v \in DOMAIN B : v \in Nat
    BY DEF Notes
  <2>4. DOMAIN C = {}
    BY <2>1, <2>2, <2>3 DEF Larger
  <2>5. Above(B, m) = 0
    <3>1. Notes(C) /\ Above(B, m) = SumOf(C)
      BY <2>2, LargerNotes DEF Size
    <3> QED BY <2>4, <3>1, BagFinite, SumPick DEF Notes
  <2>6. m \in DOMAIN Largest(n, B)
    BY <1>1, <1>3, <2>5
  <2> QED BY <2>6
<1> QED BY <1>2, <1>3

(* A single note is worth its value.                                       *)
LEMMA SingleNote ==
    ASSUME NEW B, Notes(B), Size(B) <= 1, NEW v \in DOMAIN B
    PROVE  B = One(v) /\ Worth(B) = v
<1>1. PICK R : R = Without(B, v)
  OBVIOUS
<1>2. Finite(B) /\ B[v] \in Nat /\ B[v] > 0
  BY BagFinite DEF Notes
<1>3. Finite(R) /\ DOMAIN R = DOMAIN B \ {v} /\ SumOf(B) = Of(B, v) + SumOf(R)
  BY <1>1, <1>2, WithoutFinite, SumOut
<1>4. SumOf(R) \in Nat
  BY <1>3, SumNat
<1>5. B[v] = 1 /\ SumOf(R) = 0
  BY <1>2, <1>3, <1>4 DEF Of, Size
<1>6. ASSUME NEW x \in DOMAIN R PROVE FALSE
  <2>1. R[x] <= SumOf(R)
    BY <1>3, SumAtLeast
  <2>2. R[x] = B[x] /\ B[x] \in Nat /\ B[x] > 0
    BY <1>1, <1>3, BagFinite DEF Without, Notes
  <2> QED BY <1>5, <2>1, <2>2
<1>7. DOMAIN B = {v}
  BY <1>3, <1>6
<1>8. B = One(v)
  BY <1>2, <1>5, <1>7 DEF One, SetToBag, Finite
<1> QED BY <1>8, WorthOne DEF Notes

(* The one largest note.                                                   *)
LEMMA LargestOne ==
    ASSUME NEW B, Notes(B), DOMAIN B # {}
    PROVE  \E v \in DOMAIN B : Worth(Largest(1, B)) = v
<1>1. PICK L : L = Largest(1, B)
  OBVIOUS
<1>2. Notes(L) /\ L \sqsubseteq B /\ Size(L) <= 1
  BY <1>1, LargestNotes, LargestSize
<1>3. DOMAIN L # {}
  <2>1. PICK n \in Nat : n = 1
    OBVIOUS
  <2>2. DOMAIN Largest(n, B) # {}
    BY <2>1, LargestSome
  <2> QED BY <1>1, <2>1, <2>2
<1>4. PICK v \in DOMAIN L : TRUE
  BY <1>3
<1>5. Worth(L) = v
  BY <1>2, <1>4, SingleNote
<1>6. v \in DOMAIN B
  BY <1>2, <1>4 DEF \sqsubseteq
<1> QED BY <1>1, <1>5, <1>6

-----------------------------------------------------------------------------
(* Denominations.                                                          *)

(* What the code's constants are.                                          *)
LEMMA Constants ==
    /\ Base \in Nat \ {0} /\ Radix \in 2 .. 256 /\ Pad \in Nat \ {0} /\ MinSd \in Nat \ {0}
    /\ MaxSplitInputs \in Nat \ {0} /\ KTop \in Nat /\ MaxEvents \in Nat
    /\ MaxSplitInputs + 2 <= MinSd /\ Base + Pad <= MinSd \div 2
    /\ Deposits \subseteq Nat \ {0}
BY MigrationAssumption

\* f has the powers of Radix up to n.
Powers(f, n) == f = [k \in 0 .. n |-> IF k = 0 THEN Base ELSE Radix * f[k - 1]]

(* Powers are well defined.                                                *)
LEMMA PureDef == Powers(Pure, KTop)
<1> DEFINE P == {n \in Nat : \E f : Powers(f, n)}
<1>1. 0 \in P
  <2>1. PICK f : f = [k \in 0 .. 0 |-> Base]
    OBVIOUS
  <2>2. Powers(f, 0)
    BY <2>1 DEF Powers
  <2> QED BY <2>2
<1>2. ASSUME NEW n \in P PROVE n + 1 \in P
  <2>1. PICK f : Powers(f, n)
    OBVIOUS
  <2>2. PICK g : g = [k \in 0 .. n + 1 |-> IF k = 0 THEN Base ELSE Radix * f[k - 1]]
    OBVIOUS
  <2>3. n \in Nat
    OBVIOUS
  <2>4. \A k \in 0 .. n : f[k] = (IF k = 0 THEN Base ELSE Radix * f[k - 1])
    BY <2>1 DEF Powers
  <2>5. \A k \in 0 .. n : g[k] = f[k]
    BY <2>2, <2>3, <2>4
  <2>6. \A k \in 0 .. n + 1 : k # 0 => g[k - 1] = f[k - 1]
    BY <2>3, <2>5
  <2>7. Powers(g, n + 1)
    BY <2>2, <2>6 DEF Powers
  <2> QED BY <2>3, <2>7
<1>3. P = Nat
  <2> HIDE DEF P
  <2>1. P \in SUBSET Nat
    BY DEF P
  <2> QED BY <1>1, <1>2, <2>1, AllNat
<1>4. \E f : Powers(f, KTop)
  BY <1>3, Constants
<1> QED BY <1>4 DEF Powers, Pure

(* A denomination is at least the smallest, and Radix of it with their     *)
(* paddings exceed the next.                                               *)
LEMMA DenomBounds ==
    /\ Denom(0) = Base + Pad
    /\ \A k \in 0 .. KTop : Pure[k] \in Nat /\ Pure[k] >= Base /\ Denom(k) \in Nat
                            /\ Denom(k) >= Base + Pad /\ Denom(k) > 0
    /\ \A k \in 0 .. KTop : k + 1 <= KTop => /\ Pure[k + 1] = Radix * Pure[k]
                                             /\ Denom(k + 1) <= 256 * Denom(k)
<1>0. /\ Base \in Nat \ {0} /\ Radix \in 2 .. 256 /\ Pad \in Nat \ {0} /\ KTop \in Nat
  BY Constants
<1>1. Pure[0] = Base /\ \A k \in 0 .. KTop : k # 0 => Pure[k] = Radix * Pure[k - 1]
  <2>1. PICK f : f = Pure
    OBVIOUS
  <2>2. f = [k \in 0 .. KTop |-> IF k = 0 THEN Base ELSE Radix * f[k - 1]]
    BY <2>1, PureDef DEF Powers
  <2>3. 0 \in 0 .. KTop
    BY <1>0
  <2>4. f[0] = Base
    BY <2>2, <2>3
  <2>5. \A k \in 0 .. KTop : k # 0 => f[k] = Radix * f[k - 1]
    BY <2>2
  <2> QED BY <2>1, <2>4, <2>5
<1> DEFINE P == {n \in Nat : n <= KTop => Pure[n] \in Nat /\ Pure[n] >= Base}
<1>2. 0 \in P
  BY <1>0, <1>1
<1>3. ASSUME NEW n \in P PROVE n + 1 \in P
  <2> SUFFICES ASSUME n + 1 <= KTop PROVE Pure[n + 1] \in Nat /\ Pure[n + 1] >= Base
    OBVIOUS
  <2>1. n \in Nat /\ n + 1 \in 0 .. KTop /\ n + 1 # 0 /\ (n + 1) - 1 = n
    BY <1>0
  <2>2. PICK p : p = Pure[n]
    OBVIOUS
  <2>3. p \in Nat /\ p >= Base
    BY <2>1, <2>2, <1>0
  <2>4. Pure[n + 1] = Radix * p
    BY <1>1, <2>1, <2>2
  <2>5. Radix * p \in Nat /\ Radix * p >= p
    BY <1>0, <2>3
  <2> QED BY <1>0, <2>3, <2>4, <2>5
<1>4. P = Nat
  <2> HIDE DEF P
  <2>1. P \in SUBSET Nat
    BY DEF P
  <2> QED BY <1>2, <1>3, <2>1, AllNat
<1>5. \A k \in 0 .. KTop : Pure[k] \in Nat /\ Pure[k] >= Base
  BY <1>0, <1>4
<1>6. ASSUME NEW k \in 0 .. KTop, k + 1 <= KTop
      PROVE  Pure[k + 1] = Radix * Pure[k] /\ Denom(k + 1) <= 256 * Denom(k)
  <2>1. k + 1 \in 0 .. KTop /\ k + 1 # 0 /\ (k + 1) - 1 = k
    BY <1>0, <1>6
  <2>2. Pure[k + 1] = Radix * Pure[k]
    BY <1>1, <2>1
  <2>3. PICK p : p = Pure[k]
    OBVIOUS
  <2>4. p \in Nat
    BY <1>5, <2>3
  <2>5. Radix * p <= 256 * p
    BY <1>0, <2>4
  <2> QED BY <1>0, <2>2, <2>3, <2>4, <2>5 DEF Denom
<1>7. \A k \in 0 .. KTop : Denom(k) \in Nat /\ Denom(k) >= Base + Pad /\ Denom(k) > 0
  BY <1>0, <1>5 DEF Denom
<1> QED BY <1>1, <1>5, <1>6, <1>7 DEF Denom

\* f divides the factors of Radix out of the numbers up to n.
Strips(f, n) ==
    f = [x \in 1 .. n |-> IF x % Radix = 0 THEN f[x \div Radix] ELSE x]

(* Dividing out is well defined.                                           *)
LEMMA StripDef ==
    ASSUME NEW n \in Nat PROVE Strips(StripFrom(n), n)
<1>0. Radix \in Nat /\ Radix >= 2
  BY Constants
<1>h. \A x \in Nat : x # 0 /\ x % Radix = 0 => x \div Radix \in 1 .. x - 1
  <2> SUFFICES ASSUME NEW x \in Nat, x # 0, x % Radix = 0
               PROVE  x \div Radix \in 1 .. x - 1
    OBVIOUS
  <2>1. PICK q : q = x \div Radix
    OBVIOUS
  <2>2. q \in Nat /\ x = Radix * q
    BY <1>0, <2>1
  <2>3. q # 0
    BY <1>0, <2>2
  <2>4. Radix * q >= 2 * q
    BY <1>0, <2>2
  <2> QED BY <2>1, <2>2, <2>3, <2>4
<1> DEFINE P == {m \in Nat : \E f : Strips(f, m)}
<1>1. 0 \in P
  <2>1. PICK f : f = [x \in 1 .. 0 |-> 1]
    OBVIOUS
  <2>2. Strips(f, 0)
    BY <2>1 DEF Strips
  <2> QED BY <2>2
<1>2. ASSUME NEW m \in P PROVE m + 1 \in P
  <2>1. PICK f : Strips(f, m)
    OBVIOUS
  <2>2. PICK g : g = [x \in 1 .. m + 1 |-> IF x % Radix = 0 THEN f[x \div Radix] ELSE x]
    OBVIOUS
  <2>3. m \in Nat
    OBVIOUS
  <2>4. \A x \in 1 .. m : f[x] = IF x % Radix = 0 THEN f[x \div Radix] ELSE x
    BY <2>1 DEF Strips
  <2>5. \A x \in 1 .. m : g[x] = f[x]
    BY <2>2, <2>3, <2>4
  <2>6. \A x \in 1 .. m + 1 : x % Radix = 0 => g[x \div Radix] = f[x \div Radix]
    BY <1>h, <2>3, <2>5
  <2>7. Strips(g, m + 1)
    BY <2>2, <2>6 DEF Strips
  <2> QED BY <2>3, <2>7
<1>3. P = Nat
  <2> HIDE DEF P
  <2>1. P \in SUBSET Nat
    BY DEF P
  <2> QED BY <1>1, <1>2, <2>1, AllNat
<1>4. \E f : Strips(f, n)
  BY <1>3
<1> QED BY <1>4 DEF Strips, StripFrom

(* The powers of Radix times Base are pure denominations and, with the     *)
(* padding, standard ones.                                                 *)
LEMMA DenomIsSd ==
    ASSUME NEW k \in 0 .. KTop
    PROVE  IsIwSd(Pure[k]) /\ IsSd(Denom(k))
<1>0. Radix \in Nat /\ Radix >= 2 /\ Base \in Nat \ {0} /\ Pad \in Nat \ {0} /\ KTop \in Nat
  BY Constants
<1>1. PICK n, f : n = Pure[k] /\ f = StripFrom(n)
  OBVIOUS
<1>2. n \in Nat /\ n >= Base
  BY <1>1, DenomBounds
<1>3. \A x \in 1 .. n : f[x] = IF x % Radix = 0 THEN f[x \div Radix] ELSE x
  <2>1. Strips(f, n)
    BY <1>1, <1>2, StripDef
  <2> QED BY <2>1 DEF Strips
<1> DEFINE P == {j \in Nat : j <= KTop =>
                    \E q \in Nat \ {0} : Pure[j] = Base * q /\ (q <= n => f[q] = 1)}
<1>4. 0 \in P
  <2>1. Pure[0] = Base * 1
    BY <1>0, DenomBounds DEF Denom
  <2>2. 1 <= n => f[1] = 1
    <3>1. 1 % Radix = 1
      BY <1>0
    <3> QED BY <1>2, <1>3, <3>1
  <2> QED BY <2>1, <2>2
<1>5. ASSUME NEW j \in P PROVE j + 1 \in P
  <2>0. j \in Nat
    OBVIOUS
  <2> SUFFICES ASSUME j + 1 <= KTop
               PROVE  \E q \in Nat \ {0} : Pure[j + 1] = Base * q /\ (q <= n => f[q] = 1)
    BY <2>0
  <2>1. PICK q \in Nat \ {0} : Pure[j] = Base * q /\ (q <= n => f[q] = 1)
    BY <1>0, <2>0
  <2>2. Pure[j + 1] = Radix * Pure[j]
    BY <1>0, <2>0, DenomBounds
  <2>3. PICK r : r = Radix * q
    OBVIOUS
  <2>4. r \in Nat /\ r >= q /\ r # 0 /\ r % Radix = 0 /\ r \div Radix = q
    <3>1. r \in Nat /\ r % Radix = 0 /\ r \div Radix = q
      BY <1>0, <2>3
    <3>2. Radix * q >= 2 * q
      BY <1>0
    <3> QED BY <2>3, <3>1, <3>2
  <2>5. r <= n => f[r] = 1
    <3> SUFFICES ASSUME r <= n PROVE f[r] = 1
      OBVIOUS
    <3>1. r \in 1 .. n /\ q <= n
      BY <1>2, <2>4
    <3>2. f[r] = f[q]
      BY <1>3, <2>4, <3>1
    <3> QED BY <2>1, <3>1, <3>2
  <2>6. Radix * (Base * q) = Base * (Radix * q)
    BY <1>0
  <2>7. Pure[j + 1] = Base * r
    BY <2>1, <2>2, <2>3, <2>6
  <2> QED BY <2>4, <2>5, <2>7
<1>6. P = Nat
  <2> HIDE DEF P
  <2>1. P \in SUBSET Nat
    BY DEF P
  <2> QED BY <1>4, <1>5, <2>1, AllNat
<1>7. PICK q \in Nat \ {0} : Pure[k] = Base * q /\ (q <= n => f[q] = 1)
  <2>1. k \in P /\ k <= KTop
    BY <1>0, <1>6
  <2> QED BY <2>1
<1>8. n % Base = 0 /\ n \div Base = q
  BY <1>0, <1>1, <1>7
<1>9. q <= n
  <2>1. Base * q >= q
    BY <1>0
  <2> QED BY <1>1, <1>7, <2>1
<1>10. IsIwSd(n)
  BY <1>1, <1>2, <1>7, <1>8, <1>9 DEF IsIwSd
<1>11. Denom(k) > Pad /\ Denom(k) - Pad = n
  BY <1>0, <1>1, <1>2 DEF Denom
<1> QED BY <1>1, <1>10, <1>11 DEF IsSd

\* f is what is left after the denominations from each one upwards, down to j.
Rests(f, t, j) ==
    f = [k \in j .. KTop + 1 |-> IF k > KTop THEN t ELSE f[k + 1] % Denom(k)]

(* What is left is well defined.                                           *)
LEMMA RestDef ==
    ASSUME NEW t \in Nat PROVE Rests(RestFrom(t), t, 0)
<1>0. KTop \in Nat
  BY Constants
<1> DEFINE P == {n \in Nat : n <= KTop + 1 => \E f : Rests(f, t, KTop + 1 - n)}
<1>1. 0 \in P
  <2>1. PICK f : f = [k \in KTop + 1 .. KTop + 1 |-> t]
    OBVIOUS
  <2>2. f = [k \in KTop + 1 .. KTop + 1 |-> IF k > KTop THEN t ELSE f[k + 1] % Denom(k)]
    BY <1>0, <2>1
  <2>3. KTop + 1 - 0 = KTop + 1
    BY <1>0
  <2>4. Rests(f, t, KTop + 1 - 0)
    BY <2>2, <2>3 DEF Rests
  <2> QED BY <2>4
<1>2. ASSUME NEW n \in P PROVE n + 1 \in P
  <2>0. n \in Nat
    OBVIOUS
  <2> SUFFICES ASSUME n + 1 <= KTop + 1 PROVE \E f : Rests(f, t, KTop + 1 - (n + 1))
    BY <2>0
  <2>1. PICK f : Rests(f, t, KTop + 1 - n)
    BY <1>0, <2>0
  <2>2. PICK j : j = KTop + 1 - (n + 1)
    OBVIOUS
  <2>3. j \in 0 .. KTop /\ KTop + 1 - n = j + 1
    BY <1>0, <2>0, <2>2
  <2>4. PICK g : g = [k \in j .. KTop + 1 |-> IF k > KTop THEN t ELSE f[k + 1] % Denom(k)]
    OBVIOUS
  <2>5. \A k \in j + 1 .. KTop + 1 : f[k] = (IF k > KTop THEN t ELSE f[k + 1] % Denom(k))
    BY <2>1, <2>3 DEF Rests
  <2>6. \A k \in j + 1 .. KTop + 1 : g[k] = f[k]
    BY <1>0, <2>3, <2>4, <2>5
  <2>7. \A k \in j .. KTop + 1 : ~(k > KTop) => g[k + 1] = f[k + 1]
    BY <1>0, <2>3, <2>6
  <2>8. Rests(g, t, j)
    BY <2>4, <2>7 DEF Rests
  <2> QED BY <2>2, <2>8
<1>3. P = Nat
  <2> HIDE DEF P
  <2>1. P \in SUBSET Nat
    BY DEF P
  <2> QED BY <1>1, <1>2, <2>1, AllNat
<1>4. \E f : Rests(f, t, 0)
  <2>1. KTop + 1 \in P /\ KTop + 1 - (KTop + 1) = 0
    BY <1>0, <1>3
  <2> QED BY <1>0, <2>1
<1> QED BY <1>4 DEF Rests, RestFrom

(* It is a number below each denomination in turn, and no more than the    *)
(* total.                                                                  *)
LEMMA RestBounds ==
    ASSUME NEW t \in Nat
    PROVE  /\ RestFrom(t)[KTop + 1] = t
           /\ \A k \in 0 .. KTop + 1 : RestFrom(t)[k] \in Nat /\ RestFrom(t)[k] <= t
           /\ \A k \in 0 .. KTop : /\ RestFrom(t)[k] = RestFrom(t)[k + 1] % Denom(k)
                                   /\ RestFrom(t)[k] < Denom(k)
<1>0. KTop \in Nat /\ \A k \in 0 .. KTop : Denom(k) \in Nat \ {0}
  BY Constants, DenomBounds
<1>1. PICK f : f = RestFrom(t)
  OBVIOUS
<1>2. f = [k \in 0 .. KTop + 1 |-> IF k > KTop THEN t ELSE f[k + 1] % Denom(k)]
  BY <1>1, RestDef DEF Rests
<1>3. f[KTop + 1] = t /\ \A k \in 0 .. KTop : f[k] = f[k + 1] % Denom(k)
  BY <1>0, <1>2
<1> DEFINE P == {n \in Nat : n <= KTop + 1 =>
                    f[KTop + 1 - n] \in Nat /\ f[KTop + 1 - n] <= t}
<1>4. 0 \in P
  <2>1. KTop + 1 - 0 = KTop + 1
    BY <1>0
  <2> QED BY <1>3, <2>1
<1>5. ASSUME NEW n \in P PROVE n + 1 \in P
  <2>0. n \in Nat
    OBVIOUS
  <2> SUFFICES ASSUME n + 1 <= KTop + 1
               PROVE  /\ f[KTop + 1 - (n + 1)] \in Nat
                      /\ f[KTop + 1 - (n + 1)] <= t
    BY <2>0
  <2>1. PICK j : j = KTop + 1 - (n + 1)
    OBVIOUS
  <2>2. j \in 0 .. KTop /\ KTop + 1 - n = j + 1
    BY <1>0, <2>0, <2>1
  <2>3. PICK x, d : x = f[j + 1] /\ d = Denom(j)
    OBVIOUS
  <2>4. x \in Nat /\ x <= t /\ d \in Nat \ {0}
    BY <1>0, <2>0, <2>2, <2>3
  <2>5. x % d \in Nat /\ x % d <= x
    BY <2>4
  <2>6. f[j] = x % d
    BY <1>3, <2>2, <2>3
  <2> QED BY <2>1, <2>4, <2>5, <2>6
<1>6. P = Nat
  <2> HIDE DEF P
  <2>1. P \in SUBSET Nat
    BY DEF P
  <2> QED BY <1>4, <1>5, <2>1, AllNat
<1>7. ASSUME NEW k \in 0 .. KTop + 1 PROVE f[k] \in Nat /\ f[k] <= t
  <2>1. PICK n : n = KTop + 1 - k
    OBVIOUS
  <2>2. n \in Nat /\ n <= KTop + 1 /\ KTop + 1 - n = k
    BY <1>0, <2>1
  <2>3. n \in P
    BY <1>6, <2>2
  <2> QED BY <2>2, <2>3
<1>8. ASSUME NEW k \in 0 .. KTop PROVE f[k] < Denom(k)
  <2>1. k + 1 \in 0 .. KTop + 1
    BY <1>0
  <2>2. f[k + 1] \in Nat /\ Denom(k) \in Nat \ {0} /\ f[k] = f[k + 1] % Denom(k)
    BY <1>0, <1>3, <1>7, <2>1
  <2> QED BY <2>2
<1> QED BY <1>1, <1>3, <1>7, <1>8

\* The notes of one denomination, and the denominations with any.
Count(t, k) == (RestFrom(t)[k + 1] \div Denom(k)) % 256
Used(t) == {k \in 0 .. KTop : Count(t, k) > 0}

(* decompose_to_sd by its counts.                                          *)
LEMMA DigitsDef ==
    ASSUME NEW t
    PROVE  /\ DecomposeToSd(t).rest = RestFrom(t)[0]
           /\ DecomposeToSd(t).digits =
                 [d \in {Denom(k) : k \in Used(t)} |->
                     Count(t, CHOOSE k \in Used(t) : Denom(k) = d)]
BY DEF DecomposeToSd, Count, Used

(* Its digits are standard notes no larger than the total, and what is     *)
(* over is less than the smallest.                                         *)
LEMMA Digits ==
    ASSUME NEW t \in Nat
    PROVE  /\ DecomposeToSd(t).rest \in Nat /\ DecomposeToSd(t).rest < Base + Pad
           /\ Notes(DecomposeToSd(t).digits)
           /\ \A d \in DOMAIN DecomposeToSd(t).digits : IsSd(d) /\ d <= t
<1>0. KTop \in Nat /\ \A k \in 0 .. KTop : Denom(k) \in Nat \ {0}
  BY Constants, DenomBounds
<1>1. PICK D : D = DecomposeToSd(t).digits
  OBVIOUS
<1>2. /\ DOMAIN D = {Denom(k) : k \in Used(t)}
      /\ \A d \in DOMAIN D : D[d] = Count(t, CHOOSE k \in Used(t) : Denom(k) = d)
      /\ D = [d \in DOMAIN D |-> D[d]]
  BY ZenonT(40), <1>1, DigitsDef
<1>3. \A k \in Used(t) : k \in 0 .. KTop /\ Count(t, k) \in Nat /\ Count(t, k) > 0
  <2> SUFFICES ASSUME NEW k \in Used(t)
               PROVE  k \in 0 .. KTop /\ Count(t, k) \in Nat /\ Count(t, k) > 0
    OBVIOUS
  <2>1. k \in 0 .. KTop /\ Count(t, k) > 0
    BY DEF Used
  <2>2. RestFrom(t)[k + 1] \in Nat /\ Denom(k) \in Nat \ {0}
    BY <1>0, <2>1, RestBounds
  <2>3. RestFrom(t)[k + 1] \div Denom(k) \in Nat
    BY <2>2
  <2> QED BY <2>1, <2>3 DEF Count
<1>4. \A d \in DOMAIN D : D[d] \in Nat /\ D[d] > 0
  <2> SUFFICES ASSUME NEW d \in DOMAIN D PROVE D[d] \in Nat /\ D[d] > 0
    OBVIOUS
  <2>1. PICK k : k = CHOOSE j \in Used(t) : Denom(j) = d
    OBVIOUS
  <2>2. k \in Used(t)
    BY <1>2, <2>1
  <2> QED BY <1>2, <1>3, <2>1, <2>2
<1>5. IsFiniteSet(DOMAIN D)
  <2>1. IsFiniteSet(0 .. KTop)
    BY <1>0, FS_Interval
  <2>2. IsFiniteSet(Used(t))
    BY <2>1, FS_Subset DEF Used
  <2>3. PICK S, f : S = Used(t) /\ f = [k \in Used(t) |-> Denom(k)]
    OBVIOUS
  <2>4. f \in Surjection(S, DOMAIN D)
    BY <1>2, <2>3 DEF Surjection
  <2> QED BY <2>2, <2>3, <2>4, FS_Surjection
<1>6. DOMAIN D \subseteq Nat \ {0}
  BY <1>0, <1>2, <1>3
<1>7. Notes(D)
  BY <1>2, <1>4, <1>5, <1>6, BagMade DEF Notes
<1>8. ASSUME NEW d \in DOMAIN D PROVE IsSd(d) /\ d <= t
  <2>1. PICK k \in Used(t) : d = Denom(k)
    BY <1>2
  <2>2. k \in 0 .. KTop /\ Count(t, k) > 0
    BY <1>3
  <2>3. PICK x, e : x = RestFrom(t)[k + 1] /\ e = Denom(k)
    OBVIOUS
  <2>4. x \in Nat /\ x <= t /\ e \in Nat \ {0}
    BY <1>0, <2>2, <2>3, RestBounds
  <2>5. x \div e # 0
    BY <2>2, <2>3 DEF Count
  <2>6. e <= x
    BY <2>4, <2>5
  <2> QED BY <2>1, <2>2, <2>3, <2>4, <2>6, DenomIsSd
<1>9. DecomposeToSd(t).rest \in Nat /\ DecomposeToSd(t).rest < Base + Pad
  <2>1. RestFrom(t)[0] \in Nat /\ RestFrom(t)[0] < Denom(0)
    BY <1>0, RestBounds
  <2> QED BY <2>1, DigitsDef, DenomBounds
<1> QED BY <1>1, <1>7, <1>8, <1>9

(* Counts of eight bits suffice for any total below 256 notes of the       *)
(* largest denomination.                                                   *)
LEMMA CountFits ==
    ASSUME NEW t \in Nat, t < 256 * Denom(KTop), NEW k \in 0 .. KTop
    PROVE  Count(t, k) = RestFrom(t)[k + 1] \div Denom(k)
<1>0. KTop \in Nat /\ \A j \in 0 .. KTop : Denom(j) \in Nat \ {0}
  BY Constants, DenomBounds
<1>1. PICK x, d : x = RestFrom(t)[k + 1] /\ d = Denom(k)
  OBVIOUS
<1>2. x \in Nat /\ d \in Nat \ {0}
  BY <1>0, <1>1, RestBounds
<1>3. x < 256 * d
  <2>1. CASE k = KTop
    BY <1>1, <2>1, RestBounds
  <2>2. CASE k # KTop
    <3>1. k + 1 \in 0 .. KTop /\ k + 1 <= KTop
      BY <1>0, <2>2
    <3>2. x < Denom(k + 1) /\ Denom(k + 1) \in Nat
      BY <1>0, <1>1, <3>1, RestBounds
    <3>3. Denom(k + 1) <= 256 * d
      BY <1>1, <3>1, DenomBounds
    <3> QED BY <1>2, <3>2, <3>3
  <2> QED BY <2>1, <2>2
<1>4. PICK q : q = x \div d
  OBVIOUS
<1>5. q \in Nat /\ x >= d * q
  BY <1>2, <1>4
<1>6. q < 256
  <2> SUFFICES ASSUME q >= 256 PROVE FALSE
    BY <1>5
  <2>1. d * q >= d * 256
    BY <1>2, <1>5
  <2> QED BY <1>2, <1>3, <1>5, <2>1
<1>7. q % 256 = q
  BY <1>5, <1>6
<1> QED BY <1>1, <1>4, <1>7 DEF Count

-----------------------------------------------------------------------------
(* The planner.                                                            *)

(* The outputs kept pay for the fee, and one is kept when one does.        *)
LEMMA KeptFits ==
    ASSUME NEW D, Notes(D), NEW t \in Nat, NEW n \in Nat
    PROVE  /\ Kept(D, t, n) \in 0 .. Size(D)
           /\ Kept(D, t, n) # 0 =>
                 SplitFee(n, Kept(D, t, n)) <= t - Worth(Largest(Kept(D, t, n), D))
           /\ Size(D) >= 1 /\ SplitFee(n, 1) <= t - Worth(Largest(1, D)) =>
                 Kept(D, t, n) >= 1
<1>1. PICK s \in Nat : s = Size(D)
  BY NotesWorth
<1> DEFINE F == {m \in 1 .. s : SplitFee(n, m) <= t - Worth(Largest(m, D))}
           S == {0} \cup F
<1>2. S \in SUBSET Nat /\ S # {} /\ \A y \in S : y <= s
  OBVIOUS
<1>3. PICK K : K = Kept(D, t, n)
  OBVIOUS
<1>4. K = Max(S)
  BY <1>1, <1>3 DEF Kept
<1>5. K \in S /\ \A y \in S : y <= K
  <2> HIDE DEF S
  <2>1. \E m \in S : \A y \in S : y <= m
    BY <1>2, GreatestNat
  <2>2. \E m \in S : \A y \in S : m >= y
    BY <1>2, <2>1
  <2>3. K \in S /\ \A y \in S : K >= y
    BY <1>4, <2>2 DEF Max
  <2> QED BY <1>2, <2>3
<1>6. K \in 0 .. s /\ (K # 0 => K \in F)
  BY <1>5
<1>7. K # 0 => SplitFee(n, K) <= t - Worth(Largest(K, D))
  BY <1>6
<1>8. s >= 1 /\ SplitFee(n, 1) <= t - Worth(Largest(1, D)) => 1 \in S
  OBVIOUS
<1>9. s >= 1 /\ SplitFee(n, 1) <= t - Worth(Largest(1, D)) => K >= 1
  BY <1>5, <1>6, <1>8
<1> HIDE DEF F, S
<1> QED BY <1>1, <1>3, <1>6, <1>7, <1>9

\* The notes one split may take, and their value.
Capped(B) == Largest(MaxSplitInputs, B)
CappedWorth(B) == Worth(Capped(B))

(* They are notes of the wallet, and no more than a transaction takes.     *)
LEMMA CappedNotes ==
    ASSUME NEW B, Notes(B)
    PROVE  /\ Notes(Capped(B)) /\ Capped(B) \sqsubseteq B
           /\ Size(Capped(B)) \in 0 .. MaxSplitInputs
           /\ CappedWorth(B) \in Nat /\ CappedWorth(B) <= Worth(B)
<1>1. MaxSplitInputs \in Nat
  BY Constants
<1>2. Notes(Capped(B)) /\ Capped(B) \sqsubseteq B /\ Size(Capped(B)) <= MaxSplitInputs
  BY <1>1, LargestNotes, LargestSize DEF Capped
<1>3. Worth(Capped(B)) <= Worth(B)
  BY <1>2, PartWorth DEF Notes
<1>4. Size(Capped(B)) \in Nat /\ Worth(Capped(B)) \in Nat
  BY <1>2, NotesWorth
<1>5. Size(Capped(B)) \in 0 .. MaxSplitInputs
  BY <1>1, <1>2, <1>4
<1> QED BY <1>2, <1>3, <1>4, <1>5 DEF CappedWorth

(* The split is always made of the total less the fee buffer.              *)
LEMMA SplitDef ==
    ASSUME NEW B, Notes(B)
    PROVE  PlanSplit(B) =
              IF CappedWorth(B) < MinSd THEN EmptyBag
              ELSE LET D == DecomposeToSd(CappedWorth(B) - MinSd).digits
                   IN  Largest(Kept(D, CappedWorth(B), Size(Capped(B))), D)
<1>1. PICK t \in Nat : t = CappedWorth(B)
  BY CappedNotes
<1>2. DecomposeToSd(t).rest < MinSd \div 2
  <2>1. DecomposeToSd(t).rest \in Nat /\ DecomposeToSd(t).rest < Base + Pad
    BY Digits
  <2> QED BY <2>1, Constants
<1> QED BY <1>1, <1>2 DEF PlanSplit, CappedWorth, Capped

(* What plan_split announces: standard notes that leave the fee of all the *)
(* capped notes, and some whenever a denomination is left above the fee    *)
(* buffer.                                                                 *)
LEMMA SplitPlan ==
    ASSUME NEW B, Notes(B)
    PROVE  /\ Notes(PlanSplit(B)) /\ \A v \in DOMAIN PlanSplit(B) : IsSd(v)
           /\ PlanSplit(B) # EmptyBag =>
                 /\ CappedWorth(B) >= MinSd
                 /\ Worth(PlanSplit(B)) + SplitFee(Size(Capped(B)), Size(PlanSplit(B)))
                       <= CappedWorth(B)
           /\ CappedWorth(B) >= MinSd + Denom(0) /\ CappedWorth(B) < 256 * Denom(KTop) =>
                 PlanSplit(B) # EmptyBag
<1>0. MinSd \in Nat /\ Denom(0) \in Nat /\ Denom(0) > 0 /\ MaxSplitInputs \in Nat
      /\ MaxSplitInputs + 2 <= MinSd
  BY Constants, DenomBounds
<1>1. PICK t \in Nat, n \in Nat : t = CappedWorth(B) /\ n = Size(Capped(B))
  BY CappedNotes
<1>2. CASE t < MinSd
  <2>1. PlanSplit(B) = EmptyBag
    BY <1>1, <1>2, SplitDef
  <2> QED BY <1>0, <1>1, <1>2, <2>1, WorthOne, SmallBags
<1>3. CASE ~(t < MinSd)
  <2>1. PICK D, K : D = DecomposeToSd(t - MinSd).digits /\ K = Kept(D, t, n)
    OBVIOUS
  <2>2. PICK P : P = PlanSplit(B) /\ P = Largest(K, D)
    BY <1>1, <1>3, <2>1, SplitDef
  <2>3. PICK r \in Nat : r = t - MinSd
    BY <1>0, <1>3
  <2>4. Notes(D) /\ \A d \in DOMAIN D : IsSd(d) /\ d <= r
    BY <2>1, <2>3, Digits
  <2>5. K \in Nat /\ (K # 0 => SplitFee(n, K) <= t - Worth(Largest(K, D)))
    <3>1. Size(D) \in Nat
      BY <2>4, NotesWorth
    <3>2. /\ K \in 0 .. Size(D)
          /\ K # 0 => SplitFee(n, K) <= t - Worth(Largest(K, D))
      BY <2>1, <2>4, KeptFits
    <3> QED BY <3>1, <3>2
  <2>6. Notes(P) /\ P \sqsubseteq D /\ Size(P) <= K
    BY <2>2, <2>4, <2>5, LargestNotes, LargestSize
  <2>7. \A v \in DOMAIN P : IsSd(v)
    BY <2>4, <2>6 DEF \sqsubseteq
  <2>8. ASSUME P # EmptyBag PROVE Worth(P) + SplitFee(n, Size(P)) <= t
    <3>1. DOMAIN P # {}
      BY <2>6, <2>8, NoElements DEF Notes
    <3>2. K # 0
      BY <2>2, <2>4, <2>5, <3>1, LargestSome
    <3>3. SplitFee(n, K) <= t - Worth(P)
      BY <2>2, <2>5, <3>2
    <3>4. Worth(P) \in Nat /\ Size(P) \in Nat
      BY <2>6, NotesWorth
    <3> QED BY <2>5, <2>6, <3>3, <3>4 DEF SplitFee
  <2>9. ASSUME t >= MinSd + Denom(0), t < 256 * Denom(KTop) PROVE P # EmptyBag
    <3>1. DOMAIN D # {}
      <4> SUFFICES ASSUME DOMAIN D = {} PROVE FALSE
        OBVIOUS
      <4>0. KTop \in Nat
        BY Constants
      <4>1. r < 256 * Denom(KTop) /\ r >= Denom(0)
        <5>1. Denom(KTop) \in Nat
          BY <4>0, DenomBounds
        <5> QED BY <1>0, <2>3, <2>9, <5>1
      <4>2. Used(r) = {}
        <5>1. DOMAIN D = {Denom(k) : k \in Used(r)}
          BY <2>1, <2>3, DigitsDef
        <5> QED BY <5>1
      <4>3. \A k \in 0 .. KTop : RestFrom(r)[k] = RestFrom(r)[k + 1]
        <5> SUFFICES ASSUME NEW k \in 0 .. KTop
                     PROVE  RestFrom(r)[k] = RestFrom(r)[k + 1]
          OBVIOUS
        <5>1. PICK x, d : x = RestFrom(r)[k + 1] /\ d = Denom(k)
          OBVIOUS
        <5>2. x \in Nat /\ d \in Nat \ {0} /\ RestFrom(r)[k] = x % d
          BY <4>0, <5>1, RestBounds, DenomBounds
        <5>3. Count(r, k) = x \div d
          BY <4>1, <5>1, CountFits
        <5>4. x \div d = 0
          BY <4>2, <5>2, <5>3 DEF Used
        <5>5. x % d = x
          BY <5>2, <5>4
        <5> QED BY <5>1, <5>2, <5>5
      <4> DEFINE Q == {m \in Nat : m <= KTop + 1 => RestFrom(r)[KTop + 1 - m] = r}
      <4>4. 0 \in Q
        <5>1. KTop + 1 - 0 = KTop + 1
          BY <4>0
        <5> QED BY <5>1, RestBounds
      <4>5. ASSUME NEW m \in Q PROVE m + 1 \in Q
        <5>1. m \in Nat
          OBVIOUS
        <5> SUFFICES ASSUME m + 1 <= KTop + 1 PROVE RestFrom(r)[KTop + 1 - (m + 1)] = r
          BY <5>1
        <5>2. PICK k : k = KTop + 1 - (m + 1)
          OBVIOUS
        <5>3. k \in 0 .. KTop /\ KTop + 1 - m = k + 1 /\ m <= KTop + 1
          BY <4>0, <5>1, <5>2
        <5>4. RestFrom(r)[k + 1] = r
          BY <5>3
        <5> QED BY <4>3, <5>2, <5>3, <5>4
      <4>6. Q = Nat
        <5> HIDE DEF Q
        <5>1. Q \in SUBSET Nat
          BY DEF Q
        <5> QED BY <4>4, <4>5, <5>1, AllNat
      <4>7. RestFrom(r)[0] = r
        <5>1. KTop + 1 \in Q /\ KTop + 1 - (KTop + 1) = 0
          <6> HIDE DEF Q
          <6> QED BY <4>0, <4>6
        <5> QED BY <4>0, <5>1
      <4>8. RestFrom(r)[0] < Denom(0)
        BY <4>0, RestBounds
      <4> QED BY <1>0, <4>1, <4>7, <4>8
    <3>2. Size(D) >= 1
      BY <2>4, <3>1, WorthSome, NotesWorth
    <3>3. PICK v \in DOMAIN D : Worth(Largest(1, D)) = v
      BY <2>4, <3>1, LargestOne
    <3>4. v \in Nat /\ v <= r
      BY <2>4 DEF Notes
    <3>5. SplitFee(n, 1) <= t - Worth(Largest(1, D))
      <4>1. n <= MaxSplitInputs
        BY <1>0, <1>1, CappedNotes
      <4> QED BY <1>0, <2>3, <3>3, <3>4, <4>1 DEF SplitFee
    <3>6. K >= 1
      BY <2>1, <2>4, <3>2, <3>5, KeptFits
    <3>7. DOMAIN P # {}
      <4>1. DOMAIN Largest(K, D) = {} <=> (K = 0 \/ DOMAIN D = {})
        BY <2>4, <2>5, LargestSome
      <4>2. K # 0
        BY <2>5, <3>6
      <4> QED BY <2>2, <3>1, <4>1, <4>2
    <3> QED BY <2>6, <3>7, NoElements DEF Notes
  <2> QED BY <1>0, <1>1, <1>3, <2>2, <2>6, <2>7, <2>8, <2>9
<1> QED BY <1>2, <1>3

(* Standard and other notes of a wallet.                                   *)
LEMMA SortedNotes ==
    ASSUME NEW B, Notes(B)
    PROVE  /\ Notes(NonSd(B)) /\ NonSd(B) \sqsubseteq B
           /\ DOMAIN NonSd(B) = {u \in DOMAIN B : ~IsSd(u)}
           /\ Notes(Sd(B)) /\ DOMAIN Sd(B) = {u \in DOMAIN B : IsSd(u)}
<1>1. PICK N, S : N = NonSd(B) /\ S = Sd(B)
  OBVIOUS
<1>2. /\ DOMAIN N = {u \in DOMAIN B : ~IsSd(u)} /\ \A u \in DOMAIN N : N[u] = B[u]
      /\ DOMAIN S = {u \in DOMAIN B : IsSd(u)} /\ \A u \in DOMAIN S : S[u] = B[u]
      /\ N = [u \in DOMAIN N |-> N[u]] /\ S = [u \in DOMAIN S |-> S[u]]
  BY <1>1 DEF NonSd, Sd
<1>3. \A u \in DOMAIN B : B[u] \in Nat /\ B[u] > 0
  BY BagFinite DEF Notes
<1>4. IsFiniteSet(DOMAIN N) /\ IsFiniteSet(DOMAIN S)
  BY <1>2, FS_Subset DEF Notes, FiniteBag
<1>5. Notes(N)
  BY <1>2, <1>3, <1>4, BagMade DEF Notes
<1>6. Notes(S)
  BY <1>2, <1>3, <1>4, BagMade DEF Notes
<1>7. N \sqsubseteq B
  BY <1>2, <1>3 DEF \sqsubseteq
<1> QED BY <1>1, <1>2, <1>5, <1>6, <1>7

(* The notes a split takes: all that are capped are enough.                *)
LEMMA SplitEnough ==
    ASSUME NEW B, Notes(B), PlanSplit(B) # EmptyBag
    PROVE  Size(Capped(B)) \in Enough(Capped(B), PlanSplit(B))
<1>1. PICK C, P : C = Capped(B) /\ P = PlanSplit(B)
  OBVIOUS
<1>2. Notes(C) /\ Notes(P) /\ Worth(C) >= MinSd
      /\ Worth(P) + SplitFee(Size(C), Size(P)) <= Worth(C)
  BY <1>1, CappedNotes, SplitPlan DEF CappedWorth
<1>3. Size(C) \in Nat /\ Size(P) \in Nat /\ Worth(C) \in Nat /\ Worth(P) \in Nat
      /\ MinSd \in Nat \ {0}
  BY <1>2, NotesWorth, Constants
<1>4. DOMAIN C # {}
  <2> SUFFICES ASSUME DOMAIN C = {} PROVE FALSE
    OBVIOUS
  <2>1. C = EmptyBag
    BY <1>2, NoElements DEF Notes
  <2> QED BY <1>2, <1>3, <2>1, WorthOne
<1>5. Size(C) >= 1
  BY <1>2, <1>3, <1>4, WorthSome
<1>6. Largest(Size(C), C) = C
  BY <1>2, <1>3, LargestAll
<1>7. Size(C) \in Enough(C, P)
  BY <1>2, <1>3, <1>5, <1>6 DEF Enough, SplitFee
<1> QED BY <1>1, <1>7

\* A transaction of the wallet spends at least what it makes, and what it
\* makes besides one change note is standard.
Sound(t) ==
    /\ Notes(t.ins) /\ Notes(t.orchard) /\ Notes(t.ironwood)
    /\ Worth(t.orchard) + Worth(t.ironwood) <= Worth(t.ins)
    /\ Size(NonSd(t.orchard)) <= 1
    /\ \A v \in DOMAIN t.ironwood : IsIwSd(v)

(* The split transaction spends some of the capped notes, pays for the     *)
(* outputs that were announced and has the rest as its change.             *)
LEMMA SplitShape ==
    ASSUME NEW B, Notes(B), PlanSplit(B) # EmptyBag
    PROVE  \E I : \E c \in Nat :
              /\ Notes(I) /\ I \sqsubseteq Capped(B)
              /\ Size(I) >= 1 /\ Size(PlanSplit(B)) >= 1
              /\ Worth(I) = Worth(PlanSplit(B)) + SplitFee(Size(I), Size(PlanSplit(B))) + c
              /\ SplitTx(B) = [ins |-> I, orchard |-> PlanSplit(B) (+) ChangeBag(c),
                               ironwood |-> EmptyBag]
<1>1. PICK C, P : C = Capped(B) /\ P = PlanSplit(B)
  OBVIOUS
<1>2. Notes(C) /\ Notes(P)
  BY <1>1, CappedNotes, SplitPlan
<1>3. PICK E : E = Enough(C, P)
  OBVIOUS
<1>4. E \in SUBSET Nat /\ E # {}
  BY <1>1, <1>3, SplitEnough DEF Enough
<1>5. PICK n : n = Min(E) /\ n \in E
  <2>1. \E m \in E : \A k \in E : m <= k
    BY <1>4, LeastNat
  <2>2. Min(E) \in E
    BY <2>1 DEF Min
  <2> QED BY <2>2
<1>6. PICK I : I = Largest(n, C)
  OBVIOUS
<1>7. n \in 1 .. Size(C) /\ Worth(I) >= Worth(P) + SplitFee(n, Size(P))
  BY <1>3, <1>5, <1>6 DEF Enough
<1>8. n \in Nat /\ n >= 1 /\ n # 0 /\ Size(C) >= 1
  <2>1. Size(C) \in Nat
    BY <1>2, NotesWorth
  <2> QED BY <1>7, <2>1
<1>9. Notes(I) /\ I \sqsubseteq C /\ Size(I) <= n
  BY <1>2, <1>6, <1>8, LargestNotes, LargestSize
<1>10. Size(I) >= 1
  <2>1. DOMAIN C # {}
    <3> SUFFICES ASSUME DOMAIN C = {} PROVE FALSE
      OBVIOUS
    <3>1. C = EmptyBag
      BY <1>2, NoElements DEF Notes
    <3> QED BY <1>8, <3>1, WorthOne
  <2>2. n \in Nat /\ n # 0
    BY <1>8
  <2>3. DOMAIN I # {}
    BY <1>2, <1>6, <2>1, <2>2, LargestSome
  <2> QED BY <1>9, <2>3, WorthSome
<1>11. Size(P) >= 1
  <2>1. DOMAIN P # {}
    BY <1>1, <1>2, NoElements DEF Notes
  <2> QED BY <1>2, <2>1, WorthSome
<1>12. PICK c : c = Worth(I) - Worth(P) - SplitFee(Size(I), Size(P))
  OBVIOUS
<1>13. /\ Worth(I) \in Nat /\ Worth(P) \in Nat /\ Size(I) \in Nat /\ Size(P) \in Nat
  BY <1>2, <1>9, NotesWorth
<1>14. c \in Nat /\ Worth(I) = Worth(P) + SplitFee(Size(I), Size(P)) + c
  BY <1>7, <1>8, <1>9, <1>12, <1>13 DEF SplitFee
<1>15. SplitTx(B) = [ins |-> I, orchard |-> P (+) ChangeBag(c), ironwood |-> EmptyBag]
  BY <1>1, <1>3, <1>5, <1>6, <1>12 DEF SplitTx, Capped
<1> QED BY <1>1, <1>9, <1>10, <1>11, <1>14, <1>15

(* The split transaction spends notes of the wallet and makes standard     *)
(* notes and at most one change note.                                      *)
LEMMA SplitSound ==
    ASSUME NEW B, Notes(B), PlanSplit(B) # EmptyBag, Builds(SplitTx(B))
    PROVE  Sound(SplitTx(B)) /\ SplitTx(B).ins \sqsubseteq B
<1>1. PICK P : P = PlanSplit(B)
  OBVIOUS
<1>2. Notes(P) /\ \A v \in DOMAIN P : IsSd(v)
  BY <1>1, SplitPlan
<1>7. PICK I : \E c \in Nat :
          /\ Notes(I) /\ I \sqsubseteq Capped(B)
          /\ SplitTx(B) = [ins |-> I, orchard |-> P (+) ChangeBag(c), ironwood |-> EmptyBag]
  BY <1>1, SplitShape
<1>8. I \sqsubseteq B
  BY <1>7, CappedNotes, PartOfPart DEF Notes
<1>9. PICK c \in Nat :
          SplitTx(B) = [ins |-> I, orchard |-> P (+) ChangeBag(c), ironwood |-> EmptyBag]
  BY <1>7
<1>10. /\ SplitTx(B).ins = I /\ SplitTx(B).ironwood = EmptyBag
       /\ SplitTx(B).orchard = P (+) ChangeBag(c)
  BY <1>9
<1>11. c \in Int
  OBVIOUS
<1>12. PICK G : G = ChangeBag(c)
  OBVIOUS
<1>13. Notes(G) /\ Size(G) <= 1 /\ DOMAIN G \subseteq {c}
  <2>1. CASE c > 0
    <3>1. c \in Nat \ {0} /\ G = One(c)
      BY <1>11, <1>12, <2>1 DEF ChangeBag
    <3>2. Notes(G) /\ Size(G) = 1
      BY <3>1, WorthOne
    <3>3. DOMAIN G = {c}
      BY <3>1, SmallBags DEF One
    <3> QED BY <3>2, <3>3
  <2>2. CASE ~(c > 0)
    BY <1>12, <2>2, WorthOne, SmallBags DEF ChangeBag
  <2> QED BY <2>1, <2>2
<1>14. PICK O : O = P (+) G
  OBVIOUS
<1>15. Joins(P, G, O) /\ DOMAIN O = DOMAIN P \cup DOMAIN G
  BY <1>2, <1>13, <1>14, JoinPlus DEF Notes
<1>16. Notes(O)
  BY <1>2, <1>13, <1>15 DEF Notes, Joins
<1>17. PICK N : N = NonSd(O)
  OBVIOUS
<1>18. Notes(N) /\ N \sqsubseteq O /\ DOMAIN N = {u \in DOMAIN O : ~IsSd(u)}
  BY <1>16, <1>17, SortedNotes
<1>19. N \sqsubseteq G
  <2>1. ASSUME NEW u \in DOMAIN N PROVE u \in DOMAIN G /\ N[u] <= G[u]
    <3>1. u \in DOMAIN O /\ ~IsSd(u) /\ N[u] <= O[u]
      BY <1>18 DEF \sqsubseteq
    <3>2. u \notin DOMAIN P /\ u \in DOMAIN G
      BY <1>2, <1>15, <3>1
    <3>3. Of(O, u) = Of(P, u) + Of(G, u)
      BY <1>15 DEF Joins
    <3>4. G[u] \in Nat
      BY <1>13, <3>2, BagFinite DEF Notes
    <3> QED BY <3>1, <3>2, <3>3, <3>4 DEF Of
  <2> QED BY <2>1 DEF \sqsubseteq
<1>20. Size(N) <= 1
  <2>1. Size(N) <= Size(G)
    BY <1>13, <1>18, <1>19, PartWorth DEF Notes
  <2>2. Size(N) \in Nat /\ Size(G) \in Nat
    BY <1>13, <1>18, NotesWorth
  <2> QED BY <1>13, <2>1, <2>2
<1>21. PICK t : t = SplitTx(B)
  OBVIOUS
<1>22. t.ins = I /\ t.orchard = O /\ t.ironwood = EmptyBag
  BY <1>10, <1>12, <1>14, <1>21
<1>23. Size(I) \in Nat /\ Size(O) \in Nat /\ Worth(O) \in Nat /\ Worth(I) \in Nat
       /\ Worth(EmptyBag) = 0 /\ Notes(EmptyBag)
  BY <1>7, <1>16, NotesWorth, WorthOne
<1>24. Worth(O) + Worth(EmptyBag) <= Worth(I)
  <2>1. Builds(t)
    BY <1>21
  <2>2. BuilderFee(t) \in Nat
    BY <1>22, <1>23 DEF BuilderFee
  <2>3. Worth(I) = Worth(O) + Worth(EmptyBag) + BuilderFee(t)
    BY <1>22, <2>1 DEF Builds
  <2> QED BY <1>23, <2>2, <2>3
<1>25. \A v \in DOMAIN t.ironwood : IsIwSd(v)
  BY <1>22, SmallBags
<1>26. Sound(t)
  BY <1>7, <1>16, <1>17, <1>20, <1>22, <1>23, <1>24, <1>25 DEF Sound
<1> QED BY <1>8, <1>21, <1>22, <1>26

(* Moving one standard note makes a pure denomination.                     *)
LEMMA MigrateSound ==
    ASSUME NEW v \in Nat \ {0}, IsSd(v)
    PROVE  Sound(MigrateTx(v)) /\ MigrateTx(v).ins = One(v)
<1>1. PICK t : t = MigrateTx(v)
  OBVIOUS
<1>2. Pad \in Nat \ {0} /\ v > Pad /\ IsIwSd(v - Pad)
  BY Constants DEF IsSd
<1>3. PICK u \in Nat \ {0} : u = v - Pad
  BY <1>2
<1>4. t.ins = One(v) /\ t.orchard = EmptyBag /\ t.ironwood = One(u)
  BY <1>1, <1>3 DEF MigrateTx
<1>5. /\ Notes(One(v)) /\ Notes(EmptyBag) /\ Notes(One(u)) /\ Worth(One(v)) = v
      /\ Worth(EmptyBag) = 0 /\ Worth(One(u)) = u
  BY WorthOne
<1>6. Size(NonSd(EmptyBag)) <= 1
  <2>1. DOMAIN NonSd(EmptyBag) = {} /\ Notes(NonSd(EmptyBag))
    BY <1>5, SortedNotes, SmallBags
  <2>2. NonSd(EmptyBag) = EmptyBag
    BY <2>1, NoElements DEF Notes
  <2> QED BY <2>2, WorthOne
<1>7. \A x \in DOMAIN One(u) : IsIwSd(x)
  BY <1>2, <1>3, SmallBags DEF One
<1>8. 0 + u <= v
  BY <1>2, <1>3
<1>9. Sound(t)
  BY <1>4, <1>5, <1>6, <1>7, <1>8 DEF Sound
<1> QED BY <1>1, <1>4, <1>9

(* The transaction that does nothing, and one that spends notes alone.     *)
LEMMA PaySound ==
    ASSUME NEW t, Notes(t.ins), t.orchard = EmptyBag, t.ironwood = EmptyBag
    PROVE  Sound(t)
<1>1. Notes(EmptyBag) /\ Worth(EmptyBag) = 0 /\ Worth(t.ins) \in Nat
  BY WorthOne, NotesWorth
<1>2. Size(NonSd(EmptyBag)) <= 1
  <2>1. DOMAIN NonSd(EmptyBag) = {} /\ Notes(NonSd(EmptyBag))
    BY <1>1, SortedNotes, SmallBags
  <2>2. NonSd(EmptyBag) = EmptyBag
    BY <2>1, NoElements DEF Notes
  <2> QED BY <2>2, WorthOne
<1>3. \A x \in DOMAIN EmptyBag : IsIwSd(x)
  BY SmallBags
<1> QED BY <1>1, <1>2, <1>3 DEF Sound

-----------------------------------------------------------------------------
(* The invariant.                                                          *)

\* A transaction the wallet knows of: one under way is sound, one that was
\* scanned has no inputs left to reserve.
TxOK(t) ==
    /\ Notes(t.ins) /\ Notes(t.orchard) /\ Notes(t.ironwood)
    /\ \/ t.at \in {"pool", "lost"} /\ Sound(t)
       \/ t.at = "scanned" /\ t.ins = EmptyBag

\* The transactions the wallet knows of, and what they hold.
Book(B) == FiniteBag(B) /\ \A t \in DOMAIN B : TxOK(t)
HeldBy(B) == SumOf([t \in DOMAIN B |-> B[t] * Held(t)])

\* A step's transaction spends notes that are there unless a payment took one.
StepOK ==
    /\ step = [at |-> step.at, tx |-> step.tx, stale |-> step.stale]
    /\ step.at \in {"idle", "fetch", "send", "done"}
    /\ step.stale \in BOOLEAN
    /\ Sound(step.tx)
    /\ step.stale \/ step.tx.ins \sqsubseteq ripe

\* Nothing is created: what may still be received stays below 256 notes of the
\* largest denomination.
Supply ==
    \A d \in Deposits \cup {0} :
        received + (MaxEvents - events) * d < 256 * Denom(KTop)

\* Every part of it is needed: Conserved and Supply bound what a wallet can
\* hold, so that counts of eight bits suffice for LittleIsLeft; Conserved
\* needs that a step's inputs are there when it reserves them.
IInv ==
    /\ Notes(ripe) /\ Notes(ironwood) /\ Book(txs)
    /\ StepOK
    /\ running \in BOOLEAN
    /\ events \in 0 .. MaxEvents
    /\ received \in Nat /\ spent \in Nat
    /\ \A v \in DOMAIN ironwood : IsIwSd(v)
    /\ Conserved
    /\ Supply

(* What a transaction holds is a number.                                   *)
LEMMA HeldNat ==
    ASSUME NEW t, TxOK(t)
    PROVE  /\ Held(t) \in Nat
           /\ t.at # "scanned" => Held(t) = Worth(t.ins)
           /\ t.at = "scanned" => Held(t) = Worth(t.orchard)
<1>1. Worth(t.ins) \in Nat /\ Worth(t.orchard) \in Nat
  BY NotesWorth DEF TxOK
<1>2. t.at = "scanned" => Worth(t.ins) = 0
  BY WorthOne DEF TxOK
<1> QED BY <1>1, <1>2 DEF Held

(* What the transactions hold adds up.                                     *)
LEMMA HeldJoins ==
    ASSUME NEW B, NEW C, NEW D, Joins(B, C, D), Book(D)
    PROVE  /\ Book(B) /\ Book(C) /\ HeldBy(D) = HeldBy(B) + HeldBy(C)
           /\ HeldBy(B) \in Nat /\ HeldBy(C) \in Nat
<1>1. PICK w : w = [t \in DOMAIN D |-> Held(t)]
  OBVIOUS
<1>2. DOMAIN D = DOMAIN B \cup DOMAIN C
  BY JoinParts
<1>3. Book(B) /\ Book(C)
  BY <1>2 DEF Book, Joins
<1>4. \A t \in DOMAIN D : w[t] = Held(t) /\ w[t] \in Nat
  BY <1>1, HeldNat DEF Book
<1>5. /\ Weighed(B, w) = [t \in DOMAIN B |-> B[t] * Held(t)]
      /\ Weighed(C, w) = [t \in DOMAIN C |-> C[t] * Held(t)]
      /\ Weighed(D, w) = [t \in DOMAIN D |-> D[t] * Held(t)]
  BY <1>2, <1>4 DEF Weighed
<1>6. HeldBy(B) = Total(B, w) /\ HeldBy(C) = Total(C, w) /\ HeldBy(D) = Total(D, w)
  BY <1>5 DEF HeldBy, Total
<1>7. Total(D, w) = Total(B, w) + Total(C, w)
  BY <1>4, JoinTotal
<1>8. Total(B, w) \in Nat /\ Total(C, w) \in Nat
  <2>1. FiniteBag(B) /\ FiniteBag(C)
    BY DEF Joins
  <2>2. \A t \in DOMAIN B : w[t] \in Nat
    BY <1>2, <1>4
  <2>3. \A t \in DOMAIN C : w[t] \in Nat
    BY <1>2, <1>4
  <2> QED BY <2>1, <2>2, <2>3, WeighedFinite
<1> QED BY <1>3, <1>6, <1>7, <1>8

(* What the transactions hold is a number.                                 *)
LEMMA HeldTyped ==
    ASSUME NEW B, Book(B) PROVE HeldBy(B) \in Nat
<1>1. PICK f : f = [t \in DOMAIN B |-> B[t] * Held(t)]
  OBVIOUS
<1>2. \A t \in DOMAIN B : B[t] \in Nat /\ Held(t) \in Nat
  BY BagFinite, HeldNat DEF Book
<1>3. \A t \in DOMAIN B : B[t] * Held(t) \in Nat
  BY <1>2
<1>4. Finite(f)
  BY <1>1, <1>3 DEF Finite, Book, FiniteBag
<1> QED BY <1>1, <1>4, SumNat DEF HeldBy

(* One transaction holds what it holds.                                    *)
LEMMA HeldOne ==
    ASSUME NEW t, TxOK(t)
    PROVE  Book(One(t)) /\ HeldBy(One(t)) = Held(t) /\ HeldBy(EmptyBag) = 0
<1>1. PICK B, w : B = SetToBag({t}) /\ w = [u \in {t} |-> Held(u)]
  OBVIOUS
<1>2. FiniteBag(B) /\ DOMAIN B = {t} /\ w[t] = Held(t) /\ w[t] \in Nat
  BY <1>1, SmallBags, HeldNat
<1>3. Book(B)
  BY <1>2 DEF Book
<1>4. Weighed(B, w) = [u \in DOMAIN B |-> B[u] * Held(u)]
  BY <1>2 DEF Weighed
<1>5. HeldBy(B) = Total(B, w)
  BY <1>4 DEF HeldBy, Total
<1>6. Total(B, w) = w[t] /\ Total(EmptyBag, w) = 0
  BY <1>1, <1>2, TotalOne
<1>7. Weighed(EmptyBag, w) = [u \in DOMAIN EmptyBag |-> EmptyBag[u] * Held(u)]
  BY SmallBags DEF Weighed
<1>8. HeldBy(EmptyBag) = Total(EmptyBag, w)
  BY <1>7 DEF HeldBy, Total
<1> QED BY <1>1, <1>2, <1>3, <1>5, <1>6, <1>8 DEF One

(* A transaction is added.                                                 *)
LEMMA BookAdd ==
    ASSUME NEW B, Book(B), NEW t, TxOK(t)
    PROVE  /\ Book(B (+) One(t)) /\ HeldBy(B (+) One(t)) = HeldBy(B) + Held(t)
           /\ DOMAIN (B (+) One(t)) = DOMAIN B \cup {t}
<1>1. PICK C, D : C = One(t) /\ D = B (+) C
  OBVIOUS
<1>2. Book(C) /\ HeldBy(C) = Held(t) /\ DOMAIN C = {t}
  BY <1>1, HeldOne, SmallBags DEF One
<1>3. Joins(B, C, D) /\ DOMAIN D = DOMAIN B \cup DOMAIN C
  BY <1>1, <1>2, JoinPlus DEF Book
<1>4. Book(D)
  BY <1>2, <1>3 DEF Book, Joins
<1>5. HeldBy(D) = HeldBy(B) + HeldBy(C)
  BY <1>3, <1>4, HeldJoins
<1> QED BY <1>1, <1>2, <1>3, <1>4, <1>5

(* A transaction is taken out.                                             *)
LEMMA BookRemove ==
    ASSUME NEW B, Book(B), NEW t \in DOMAIN B
    PROVE  /\ Book(B (-) One(t)) /\ HeldBy(B) = HeldBy(B (-) One(t)) + Held(t)
           /\ HeldBy(B (-) One(t)) \in Nat
           /\ DOMAIN (B (-) One(t)) \subseteq DOMAIN B
<1>1. PICK C, D : C = One(t) /\ D = B (-) C
  OBVIOUS
<1>2. TxOK(t) /\ B[t] \in Nat /\ B[t] > 0
  BY BagFinite DEF Book
<1>3. Book(C) /\ HeldBy(C) = Held(t) /\ DOMAIN C = {t} /\ C[t] = 1
  BY <1>1, <1>2, HeldOne, SmallBags DEF One
<1>4. C \sqsubseteq B
  BY <1>2, <1>3 DEF \sqsubseteq
<1>5. Joins(D, C, B) /\ DOMAIN D \subseteq DOMAIN B
  BY <1>1, <1>3, <1>4, JoinMinus DEF Book
<1>6. Book(D) /\ HeldBy(B) = HeldBy(D) + HeldBy(C) /\ HeldBy(D) \in Nat
  BY <1>5, HeldJoins
<1> QED BY <1>1, <1>3, <1>5, <1>6

(* Notes are added and taken out.                                          *)
LEMMA NotesAdd ==
    ASSUME NEW B, Notes(B), NEW C, Notes(C)
    PROVE  /\ Notes(B (+) C) /\ Worth(B (+) C) = Worth(B) + Worth(C)
           /\ B \sqsubseteq B (+) C /\ DOMAIN (B (+) C) = DOMAIN B \cup DOMAIN C
<1>1. PICK D : D = B (+) C
  OBVIOUS
<1>2. Joins(B, C, D) /\ DOMAIN D = DOMAIN B \cup DOMAIN C
  BY <1>1, JoinPlus DEF Notes
<1>3. Notes(D)
  BY <1>2 DEF Notes, Joins
<1>4. Worth(D) = Worth(B) + Worth(C) /\ B \sqsubseteq D
  BY <1>2, <1>3, WorthJoins, JoinParts
<1> QED BY <1>1, <1>2, <1>3, <1>4

(* Notes are added and taken out.                                          *)
LEMMA NotesRemove ==
    ASSUME NEW B, Notes(B), NEW C, Notes(C), C \sqsubseteq B
    PROVE  /\ Notes(B (-) C) /\ Worth(B) = Worth(B (-) C) + Worth(C)
           /\ \A x : Of(B, x) = Of(B (-) C, x) + Of(C, x)
<1>1. PICK D : D = B (-) C
  OBVIOUS
<1>2. Joins(D, C, B)
  BY <1>1, JoinMinus DEF Notes
<1>3. Notes(D) /\ Worth(B) = Worth(D) + Worth(C)
  BY <1>2, WorthJoins
<1> QED BY <1>1, <1>2, <1>3 DEF Joins

(* A note that is left when some are taken out may go first.               *)
LEMMA LeftOver ==
    ASSUME NEW B, Notes(B), NEW C, Notes(C), C \sqsubseteq B,
           NEW v \in DOMAIN (B (-) C)
    PROVE  C \sqsubseteq B (-) One(v)
<1>1. PICK D, E, F : D = B (-) C /\ E = One(v) /\ F = B (-) E
  OBVIOUS
<1>2. Notes(D) /\ \A x : Of(B, x) = Of(D, x) + Of(C, x)
  BY <1>1, NotesRemove
<1>3. DOMAIN D \subseteq DOMAIN B
  BY <1>1, JoinMinus DEF Notes
<1>4. v \in DOMAIN B /\ B[v] \in Nat /\ B[v] > 0 /\ D[v] \in Nat /\ D[v] > 0 /\ v \in Nat \ {0}
  BY <1>1, <1>2, <1>3, BagFinite DEF Notes
<1>5. Notes(E) /\ DOMAIN E = {v} /\ E[v] = 1
  BY <1>1, <1>4, WorthOne, SmallBags DEF One
<1>6. E \sqsubseteq B
  BY <1>4, <1>5 DEF \sqsubseteq
<1>7. Notes(F) /\ \A x : Of(B, x) = Of(F, x) + Of(E, x)
  BY <1>1, <1>5, <1>6, NotesRemove
<1>8. ASSUME NEW x \in DOMAIN C PROVE x \in DOMAIN F /\ C[x] <= F[x]
  <2>1. C[x] \in Nat /\ C[x] > 0 /\ Of(C, x) = C[x]
    BY BagFinite DEF Notes, Of
  <2>2. Of(D, x) \in Nat /\ (x = v => Of(D, x) > 0)
    BY <1>1, <1>2, BagFinite DEF Notes, Of
  <2>3. Of(E, x) = IF x = v THEN 1 ELSE 0
    BY <1>5 DEF Of
  <2>4. x \in DOMAIN F => F[x] \in Nat
    BY <1>7, BagFinite DEF Notes
  <2>5. Of(D, x) + C[x] = Of(F, x) + Of(E, x)
    BY <1>2, <1>7, <2>1
  <2> QED BY <2>1, <2>2, <2>3, <2>4, <2>5 DEF Of
<1> QED BY <1>1, <1>8 DEF \sqsubseteq

-----------------------------------------------------------------------------
(* Steps keep the invariant.                                               *)

(* An empty transaction is sound and takes nothing.                        *)
LEMMA NothingTaken ==
    /\ Sound(NoTx) /\ NoTx.ins = EmptyBag /\ NoTx.orchard = EmptyBag
    /\ NoTx.ironwood = EmptyBag /\ \A B : EmptyBag \sqsubseteq B
<1>1. NoTx.ins = EmptyBag /\ NoTx.orchard = EmptyBag /\ NoTx.ironwood = EmptyBag
  BY DEF NoTx
<1>2. Sound(NoTx)
  BY <1>1, PaySound, WorthOne
<1>3. \A B : EmptyBag \sqsubseteq B
  BY SmallBags DEF \sqsubseteq
<1> QED BY <1>1, <1>2, <1>3

(* What is still to come only shrinks.                                     *)
LEMMA SupplyKept ==
    ASSUME IInv, received' = received, events' \in Nat, events <= events',
           events' <= MaxEvents
    PROVE  Supply'
<1> SUFFICES ASSUME NEW d \in Deposits \cup {0}
             PROVE  received' + (MaxEvents - events') * d < 256 * Denom(KTop)
  BY DEF Supply
<1>1. PICK x, y : x = MaxEvents - events /\ y = MaxEvents - events'
  OBVIOUS
<1>2. x \in Nat /\ y \in Nat /\ y <= x /\ d \in Nat /\ received \in Nat
  <2>1. d \in Nat
    BY Constants
  <2>2. MaxEvents \in Nat /\ events \in Nat /\ events <= MaxEvents /\ received \in Nat
    BY Constants DEF IInv
  <2>3. events' \in Nat /\ events <= events' /\ events' <= MaxEvents
    OBVIOUS
  <2>4. PICK e, g, m : e = events /\ g = events' /\ m = MaxEvents
    OBVIOUS
  <2>5. e \in Nat /\ g \in Nat /\ m \in Nat /\ e <= g /\ g <= m
    BY <2>2, <2>3, <2>4
  <2>6. m - e \in Nat /\ m - g \in Nat /\ m - g <= m - e
    BY <2>5
  <2> QED BY <1>1, <2>1, <2>2, <2>4, <2>6
<1>3. y * d <= x * d /\ x * d \in Nat /\ y * d \in Nat
  BY <1>2
<1>4. 256 * Denom(KTop) \in Nat
  BY Constants, DenomBounds
<1>5. received + x * d < 256 * Denom(KTop)
  BY <1>1 DEF IInv, Supply
<1> QED BY <1>1, <1>2, <1>3, <1>4, <1>5

(* A step keeps the invariant when it keeps its parts and moves value      *)
(* without making or losing any.                                           *)
LEMMA Kept_IInv ==
    ASSUME IInv, Notes(ripe'), Notes(ironwood'), Book(txs'), StepOK',
           running' \in BOOLEAN, events' \in events .. MaxEvents,
           received' = received, spent' \in Nat,
           \A v \in DOMAIN ironwood' : IsIwSd(v),
           Worth(ripe') + Worth(ironwood') + spent' + HeldBy(txs')
               = Worth(ripe) + Worth(ironwood) + spent + HeldBy(txs)
    PROVE  IInv'
<1>1. events' \in 0 .. MaxEvents /\ events <= events'
  BY Constants DEF IInv
<1>2. Supply'
  BY <1>1, SupplyKept
<1>3. Conserved'
  BY DEF IInv, Conserved, HeldBy
<1> QED BY <1>1, <1>2, <1>3 DEF IInv

(* A step that only moves the call on.                                     *)
LEMMA OnlyStep ==
    ASSUME IInv, StepOK', running' \in BOOLEAN, events' \in events .. MaxEvents,
           UNCHANGED <<ripe, txs, ironwood, received, spent>>
    PROVE  IInv'
BY Kept_IInv DEF IInv

(* The call is between two transactions.                                   *)
LEMMA BetweenSteps ==
    ASSUME NEW a \in {"idle", "fetch", "send", "done"}, step' = [at |-> a, tx |-> NoTx, stale |-> FALSE]
    PROVE  StepOK'
<1>1. step' = [at |-> a, tx |-> NoTx, stale |-> FALSE]
  OBVIOUS
<1>2. step'.at = a /\ step'.tx = NoTx /\ step'.stale = FALSE
  BY <1>1
<1>3. step' = [at |-> step'.at, tx |-> step'.tx, stale |-> step'.stale]
  BY <1>1, <1>2
<1>4. Sound(step'.tx) /\ step'.tx.ins \sqsubseteq ripe'
  BY <1>2, NothingTaken
<1> QED BY <1>2, <1>3, <1>4 DEF StepOK

(* What step may plan spends notes that are there.                         *)
LEMMA PlansSound ==
    ASSUME Notes(ripe), NEW t \in Plans, Builds(t)
    PROVE  Sound(t) /\ t.ins \sqsubseteq ripe
<1>1. PICK N : N = NonSd(ripe)
  OBVIOUS
<1>2. Notes(N) /\ N \sqsubseteq ripe
  BY <1>1, SortedNotes
<1>3. CASE HasSplit(N)
  <2>1. t = SplitTx(N) /\ PlanSplit(N) # EmptyBag
    BY <1>1, <1>3 DEF Plans, HasSplit
  <2>2. Sound(t) /\ t.ins \sqsubseteq N
    BY <1>2, <2>1, SplitSound
  <2> QED BY <1>2, <2>2, PartOfPart DEF Notes, Sound
<1>4. CASE ~HasSplit(N)
  <2>1. PICK v \in DOMAIN Sd(ripe) : t = MigrateTx(v)
    BY <1>1, <1>4 DEF Plans, BagToSet
  <2>2. v \in DOMAIN ripe /\ IsSd(v) /\ v \in Nat \ {0} /\ ripe[v] \in Nat /\ ripe[v] > 0
    BY <2>1, SortedNotes, BagFinite DEF Notes
  <2>3. Sound(t) /\ t.ins = One(v)
    BY <2>1, <2>2, MigrateSound
  <2>4. DOMAIN One(v) = {v} /\ One(v)[v] = 1
    BY SmallBags DEF One
  <2> QED BY <2>2, <2>3, <2>4 DEF \sqsubseteq
<1> QED BY <1>3, <1>4

(* The initial state.                                                      *)
LEMMA InitIInv == Init => IInv
<1> SUFFICES ASSUME Init PROVE IInv
  OBVIOUS
<1>1. Notes(ripe)
  BY MigrationAssumption DEF Init, Notes, FiniteBag
<1>2. Notes(ironwood) /\ ironwood = EmptyBag /\ Worth(ironwood) = 0
  BY WorthOne DEF Init
<1>3. Book(txs) /\ HeldBy(txs) = 0
  <2>1. TxOK(At(NoTx, "pool"))
    <3>1. PICK t : t = At(NoTx, "pool")
      OBVIOUS
    <3>2. t.ins = EmptyBag /\ t.orchard = EmptyBag /\ t.ironwood = EmptyBag /\ t.at = "pool"
      BY <3>1, NothingTaken DEF At
    <3>3. Sound(t)
      BY <3>2, PaySound, WorthOne
    <3> QED BY <3>1, <3>2, <3>3, WorthOne DEF TxOK
  <2> QED BY <2>1, HeldOne, SmallBags DEF Init, Book
<1>4. StepOK
  <2>1. step = [at |-> "idle", tx |-> NoTx, stale |-> FALSE]
    BY DEF Init, Idle
  <2> QED BY <2>1, NothingTaken DEF StepOK
<1>5. Worth(ripe) \in Nat /\ received = Worth(ripe) /\ spent = 0 /\ events = 0
  BY <1>1, NotesWorth DEF Init
<1>6. Supply
  <2> SUFFICES ASSUME NEW d \in Deposits \cup {0}
               PROVE  received + (MaxEvents - events) * d < 256 * Denom(KTop)
    BY DEF Supply
  <2>1. Worth(ripe) + MaxEvents * d < 256 * Denom(KTop)
    BY MigrationAssumption DEF Init
  <2>2. MaxEvents - events = MaxEvents
    BY <1>5, Constants
  <2> QED BY <1>5, <2>1, <2>2
<1>7. Conserved
  BY <1>2, <1>3, <1>5 DEF Conserved, HeldBy
<1>8. running \in BOOLEAN /\ events \in 0 .. MaxEvents
  BY <1>5, Constants DEF Init
<1>9. \A v \in DOMAIN ironwood : IsIwSd(v)
  BY <1>2, SmallBags
<1> QED BY <1>1, <1>2, <1>3, <1>4, <1>5, <1>6, <1>7, <1>8, <1>9 DEF IInv

(* The call moves on, plans or ends: Begin, Plan, PlanRefused, PlanNothing,*)
(* ClaimFails, StepFails, Report.                                          *)
LEMMA CallKeeps ==
    ASSUME IInv, Begin \/ Plan \/ PlanRefused \/ PlanNothing \/ ClaimFails
                 \/ StepFails \/ Report
    PROVE  IInv'
<1>0. running \in BOOLEAN /\ events \in events .. MaxEvents /\ events \in Nat
  BY Constants DEF IInv
<1>1. CASE Begin
  <2>1. PICK a \in {"fetch", "done"} : step' = [at |-> a, tx |-> NoTx, stale |-> FALSE]
    BY <1>1 DEF Begin, Idle
  <2>2. StepOK'
    BY <2>1, BetweenSteps
  <2> QED BY <1>0, <1>1, <2>2, OnlyStep DEF Begin
<1>2. CASE Plan
  <2>1. PICK t \in Plans : Builds(t) /\ step' = [at |-> "send", tx |-> t, stale |-> FALSE]
    BY <1>2 DEF Plan
  <2>2. Sound(t) /\ t.ins \sqsubseteq ripe /\ ripe' = ripe
    BY <1>2, <2>1, PlansSound DEF IInv, Plan
  <2>3. step'.at = "send" /\ step'.tx = t /\ step'.stale = FALSE
    BY <2>1
  <2>4. step' = [at |-> step'.at, tx |-> step'.tx, stale |-> step'.stale]
    BY <2>1, <2>3
  <2>5. StepOK'
    BY <2>2, <2>3, <2>4 DEF StepOK
  <2> QED BY <1>0, <1>2, <2>5, OnlyStep DEF Plan
<1>3. CASE PlanRefused \/ ClaimFails
  <2>1. step' = [at |-> "idle", tx |-> NoTx, stale |-> FALSE]
    BY <1>3 DEF PlanRefused, ClaimFails, Idle
  <2>2. StepOK'
    BY <2>1, BetweenSteps
  <2> QED BY <1>0, <1>3, <2>2, OnlyStep DEF PlanRefused, ClaimFails
<1>4. CASE PlanNothing
  <2>0. step' = [at |-> "done", tx |-> NoTx, stale |-> FALSE]
    BY <1>4 DEF PlanNothing, Idle
  <2>1. StepOK'
    BY <2>0, BetweenSteps
  <2> QED BY <1>0, <1>4, <2>1, OnlyStep DEF PlanNothing
<1>5. CASE StepFails
  <2>1. step' = [at |-> "idle", tx |-> NoTx, stale |-> FALSE] /\ running' = running
    BY <1>5 DEF StepFails, Idle
  <2>2. StepOK'
    BY <2>1, BetweenSteps
  <2>3. events' \in events .. MaxEvents
    BY <1>5, Constants DEF StepFails, IInv
  <2> QED BY <1>0, <1>5, <2>1, <2>2, <2>3, OnlyStep DEF StepFails
<1>6. CASE Report
  <2>1. step' = [at |-> "idle", tx |-> NoTx, stale |-> FALSE] /\ running' \in BOOLEAN /\ events' = events
    BY <1>6 DEF Report, Idle
  <2>2. StepOK'
    BY <2>1, BetweenSteps
  <2> QED BY <1>0, <1>6, <2>1, <2>2, OnlyStep DEF Report
<1> QED BY <1>1, <1>2, <1>3, <1>4, <1>5, <1>6

(* The step's transaction reserves its inputs: Send, SendFails.            *)
LEMMA SendKeeps ==
    ASSUME IInv, NEW where \in {"pool", "lost"}, Claims,
           ripe' = ripe (-) step.tx.ins,
           txs' = txs (+) One(At(step.tx, where)),
           StepOK', events' \in events .. MaxEvents,
           UNCHANGED <<ironwood, running, received, spent>>
    PROVE  IInv'
<1>1. PICK t, u, I : t = step.tx /\ u = At(t, where) /\ I = t.ins
  OBVIOUS
<1>2. Sound(t) /\ I \sqsubseteq ripe
  BY <1>1 DEF IInv, StepOK, Claims
<1>3. u.ins = I /\ u.orchard = t.orchard /\ u.ironwood = t.ironwood /\ u.at = where
  BY <1>1 DEF At
<1>4. Sound(u) /\ Notes(I)
  BY <1>1, <1>2, <1>3 DEF Sound
<1>5. TxOK(u)
  BY <1>3, <1>4 DEF TxOK, Sound
<1>6. Held(u) = Worth(I) /\ Held(u) \in Nat
  BY <1>3, <1>5, HeldNat
<1>7. Notes(ripe') /\ Worth(ripe) = Worth(ripe') + Worth(I)
  BY <1>1, <1>2, <1>4, NotesRemove DEF IInv
<1>8. Book(txs') /\ HeldBy(txs') = HeldBy(txs) + Held(u)
  BY <1>1, <1>5, BookAdd DEF IInv
<1>9. Worth(ripe') \in Nat /\ Worth(I) \in Nat /\ HeldBy(txs) \in Nat
      /\ Worth(ironwood) \in Nat /\ spent \in Nat
  <2>1. Worth(ripe') \in Nat /\ Worth(I) \in Nat /\ Worth(ironwood) \in Nat
    BY <1>4, <1>7, NotesWorth DEF IInv
  <2>2. HeldBy(txs) \in Nat
    BY HeldTyped DEF IInv
  <2> QED BY <2>1, <2>2 DEF IInv
<1>10. Worth(ripe') + Worth(ironwood') + spent' + HeldBy(txs')
           = Worth(ripe) + Worth(ironwood) + spent + HeldBy(txs)
  BY <1>6, <1>7, <1>8, <1>9
<1> QED BY <1>7, <1>8, <1>10, Kept_IInv DEF IInv

(* When the wallet has more notes, a step's inputs are still there.        *)
LEMMA StepStays ==
    ASSUME IInv, UNCHANGED step, Notes(ripe'), ripe \sqsubseteq ripe'
    PROVE  StepOK'
<1>1. step.stale \/ step.tx.ins \sqsubseteq ripe'
  BY PartOfPart DEF IInv, StepOK, Sound, Notes
<1>2. step'.at = step.at /\ step'.tx = step.tx /\ step'.stale = step.stale
  OBVIOUS
<1> QED BY <1>1, <1>2 DEF IInv, StepOK

(* A bag has itself.                                                       *)
LEMMA Itself ==
    ASSUME NEW B, Notes(B) PROVE B \sqsubseteq B
<1>1. \A x \in DOMAIN B : B[x] \in Nat
  BY BagFinite DEF Notes
<1> QED BY <1>1 DEF \sqsubseteq

(* The numbers of a state.                                                 *)
LEMMA Numbers ==
    ASSUME IInv
    PROVE  /\ Worth(ripe) \in Nat /\ Worth(ironwood) \in Nat /\ spent \in Nat
           /\ HeldBy(txs) \in Nat /\ received \in Nat /\ events \in Nat
           /\ MaxEvents \in Nat /\ events <= MaxEvents
<1>1. Worth(ripe) \in Nat /\ Worth(ironwood) \in Nat
  BY NotesWorth DEF IInv
<1>2. HeldBy(txs) \in Nat
  BY HeldTyped DEF IInv
<1> QED BY <1>1, <1>2, Constants DEF IInv

(* A payment takes one note, and the step's inputs are still there or the  *)
(* step is stale.                                                          *)
LEMMA PayKeeps ==
    ASSUME IInv, NEW v \in BagToSet(ripe), NEW clash \in BOOLEAN, Pay(v, clash)
    PROVE  IInv'
<1>1. v \in DOMAIN ripe /\ v \in Nat \ {0} /\ ripe[v] \in Nat /\ ripe[v] > 0
  BY BagFinite DEF BagToSet, IInv, Notes
<1>2. PICK C : C = One(v)
  OBVIOUS
<1>3. Notes(C) /\ Worth(C) = v /\ DOMAIN C = {v} /\ C[v] = 1
  BY <1>1, <1>2, WorthOne, SmallBags DEF One
<1>4. C \sqsubseteq ripe
  BY <1>1, <1>3 DEF \sqsubseteq
<1>5. Notes(ripe') /\ Worth(ripe) = Worth(ripe') + v
  BY <1>2, <1>3, <1>4, NotesRemove DEF IInv, Pay
<1>6. PICK t : t = At([NoTx EXCEPT !.ins = C], "pool")
  OBVIOUS
<1>7. t.ins = C /\ t.orchard = EmptyBag /\ t.ironwood = EmptyBag /\ t.at = "pool"
  BY <1>6 DEF At, NoTx
<1>8. TxOK(t)
  <2>1. Sound(t)
    BY <1>3, <1>7, PaySound
  <2> QED BY <1>3, <1>7, <2>1, WorthOne DEF TxOK
<1>9. Held(t) = v
  BY <1>3, <1>7, <1>8, HeldNat
<1>10. Book(txs') /\ HeldBy(txs') = HeldBy(txs) + v
  <2>1. txs' = txs (+) One(t)
    BY <1>2, <1>6 DEF Pay
  <2> QED BY <1>8, <1>9, <2>1, BookAdd DEF IInv
<1>11. StepOK'
  <2>1. step = [at |-> step.at, tx |-> step.tx, stale |-> step.stale] /\ step.stale \in BOOLEAN
    BY DEF IInv, StepOK
  <2>2. step' = [step EXCEPT !.stale = step.stale \/ clash]
    BY DEF Pay
  <2>3. step'.at = step.at /\ step'.tx = step.tx /\ step'.stale = (step.stale \/ clash)
        /\ step' = [at |-> step.at, tx |-> step.tx, stale |-> step'.stale]
    BY <2>1, <2>2
  <2>4. step'.stale \/ step.tx.ins \sqsubseteq ripe'
    <3> SUFFICES ASSUME ~step'.stale PROVE step.tx.ins \sqsubseteq ripe'
      OBVIOUS
    <3>1. ~step.stale /\ ~clash
      BY <2>3
    <3>2. v \in DOMAIN (ripe (-) step.tx.ins) /\ ripe' = ripe (-) One(v)
      BY <3>1 DEF Pay, BagIn, BagToSet
    <3>3. Notes(step.tx.ins) /\ step.tx.ins \sqsubseteq ripe
      BY <3>1 DEF IInv, StepOK, Sound
    <3> QED BY <3>2, <3>3, LeftOver DEF IInv
  <2>5. step'.stale \in BOOLEAN
    BY <2>1, <2>3
  <2> QED BY <2>3, <2>4, <2>5 DEF IInv, StepOK
<1>12. events' \in events .. MaxEvents
  BY Numbers DEF Pay
<1>13. UNCHANGED <<ironwood, running, received, spent>>
  BY DEF Pay
<1>14. Worth(ripe') \in Nat
  BY <1>5, NotesWorth
<1>15. Worth(ripe') + Worth(ironwood') + spent' + HeldBy(txs')
           = Worth(ripe) + Worth(ironwood) + spent + HeldBy(txs)
  BY <1>1, <1>5, <1>10, <1>13, <1>14, Numbers
<1> QED BY <1>5, <1>10, <1>11, <1>12, <1>13, <1>15, Kept_IInv DEF IInv

(* A deposit is received and held until it is confirmed.                   *)
LEMMA DepositKeeps ==
    ASSUME IInv, NEW v \in Deposits, Deposit(v) PROVE IInv'
<1>0. v \in Nat \ {0}
  BY Constants
<1>1. PICK C, t : C = One(v) /\ t = At([NoTx EXCEPT !.orchard = C], "scanned")
  OBVIOUS
<1>2. Notes(C) /\ Worth(C) = v
  BY <1>0, <1>1, WorthOne
<1>3. t.ins = EmptyBag /\ t.orchard = C /\ t.ironwood = EmptyBag /\ t.at = "scanned"
  BY <1>1 DEF At, NoTx
<1>4. TxOK(t)
  BY <1>2, <1>3, WorthOne DEF TxOK
<1>5. Held(t) = v
  BY <1>2, <1>3, <1>4, HeldNat
<1>6. Book(txs') /\ HeldBy(txs') = HeldBy(txs) + v
  <2>1. txs' = txs (+) One(t)
    BY <1>1 DEF Deposit
  <2> QED BY <1>4, <1>5, <2>1, BookAdd DEF IInv
<1>7. /\ UNCHANGED <<ripe, ironwood, step, running, spent>>
      /\ events' = events + 1 /\ events < MaxEvents /\ received' = received + v
  BY DEF Deposit
<1>8. Conserved'
  <2>1. received = Worth(ripe) + Worth(ironwood) + spent + HeldBy(txs)
    BY DEF IInv, Conserved, HeldBy
  <2>2. received' = Worth(ripe') + Worth(ironwood') + spent' + HeldBy(txs')
    BY <1>0, <1>6, <1>7, <2>1, Numbers
  <2> QED BY <2>2 DEF Conserved, HeldBy
<1>9. Supply'
  <2> SUFFICES ASSUME NEW d \in Deposits \cup {0}
               PROVE  received' + (MaxEvents - events') * d < 256 * Denom(KTop)
    BY DEF Supply
  <2>1. PICK e \in Deposits \cup {0} : v <= e /\ d <= e
    <3>1. d \in Nat
      BY Constants
    <3>2. CASE v <= d
      BY <1>0, <3>1, <3>2
    <3>3. CASE ~(v <= d)
      BY <1>0, <3>1, <3>3
    <3> QED BY <3>2, <3>3
  <2>2. d \in Nat /\ e \in Nat
    BY Constants
  <2>3. PICK x, r, z : x = MaxEvents - events' /\ r = received /\ z = 256 * Denom(KTop)
    OBVIOUS
  <2>4. x \in Nat /\ MaxEvents - events = x + 1 /\ r \in Nat
    BY <1>7, <2>3, Numbers
  <2>5. z \in Nat
    BY <2>3, Constants, DenomBounds
  <2>6. r + (x + 1) * e < z
    BY <2>3, <2>4 DEF IInv, Supply
  <2>7. (x + 1) * e = x * e + e /\ x * d <= x * e /\ x * e \in Nat /\ x * d \in Nat
    BY <2>1, <2>2, <2>4
  <2>8. (r + v) + x * d < z
    BY <1>0, <2>1, <2>2, <2>4, <2>5, <2>6, <2>7
  <2> QED BY <1>7, <2>3, <2>8
<1>10. StepOK'
  BY <1>7, Itself, StepStays DEF IInv
<1>11. events' \in 0 .. MaxEvents /\ received' \in Nat
  BY <1>0, <1>7, Numbers
<1> QED BY <1>6, <1>7, <1>8, <1>9, <1>10, <1>11 DEF IInv

(* One transaction takes the place of another.                             *)
LEMMA BookReplace ==
    ASSUME NEW B, Book(B), NEW t \in DOMAIN B, NEW u, TxOK(u)
    PROVE  /\ Book((B (-) One(t)) (+) One(u))
           /\ HeldBy((B (-) One(t)) (+) One(u)) + Held(t) = HeldBy(B) + Held(u)
<1>1. PICK C : C = B (-) One(t)
  OBVIOUS
<1>2. Book(C) /\ HeldBy(B) = HeldBy(C) + Held(t) /\ HeldBy(C) \in Nat
  BY <1>1, BookRemove
<1>3. Book(C (+) One(u)) /\ HeldBy(C (+) One(u)) = HeldBy(C) + Held(u)
  BY <1>2, BookAdd
<1>4. Held(t) \in Nat /\ Held(u) \in Nat
  BY HeldNat DEF Book
<1> QED BY <1>1, <1>2, <1>3, <1>4

(* A dropped transaction still holds its inputs.                           *)
LEMMA LoseKeeps ==
    ASSUME IInv, NEW t \in DOMAIN txs, Lose(t) PROVE IInv'
<1>1. PICK u : u = At(t, "lost")
  OBVIOUS
<1>2. u.ins = t.ins /\ u.orchard = t.orchard /\ u.ironwood = t.ironwood /\ u.at = "lost"
  BY <1>1 DEF At
<1>3. TxOK(t) /\ t.at = "pool"
  BY DEF IInv, Book, Lose
<1>4. Sound(t)
  BY <1>3 DEF TxOK
<1>5. TxOK(u)
  BY <1>2, <1>4 DEF TxOK, Sound
<1>6. Held(t) = Worth(t.ins) /\ Held(u) = Worth(t.ins) /\ Held(t) \in Nat
  BY <1>2, <1>3, <1>5, HeldNat
<1>7. txs' = (txs (-) One(t)) (+) One(u)
  BY <1>1 DEF Lose, Becomes
<1>8. Book(txs') /\ HeldBy(txs') + Held(t) = HeldBy(txs) + Held(u)
  BY <1>5, <1>7, BookReplace DEF IInv
<1>9. HeldBy(txs') = HeldBy(txs)
  <2>1. HeldBy(txs') \in Nat
    BY <1>8, HeldTyped
  <2> QED BY <1>6, <1>8, <2>1, Numbers
<1>10. UNCHANGED <<ripe, ironwood, step, running, received, spent>>
  BY DEF Lose
<1>11. StepOK'
  BY <1>10, Itself, StepStays DEF IInv
<1>12. events' \in events .. MaxEvents
  BY Numbers DEF Lose
<1> QED BY <1>8, <1>9, <1>10, <1>11, <1>12, Kept_IInv DEF IInv

(* What a mined transaction spends is made, or gone in fees.               *)
LEMMA ScanKeeps ==
    ASSUME IInv, NEW t \in DOMAIN txs, Scan(t) PROVE IInv'
<1>1. TxOK(t) /\ t.at = "pool"
  BY DEF IInv, Book, Scan
<1>2. Sound(t)
  BY <1>1 DEF TxOK
<1>3. PICK i, o, w : i = Worth(t.ins) /\ o = Worth(t.orchard) /\ w = Worth(t.ironwood)
  OBVIOUS
<1>4. i \in Nat /\ o \in Nat /\ w \in Nat /\ o + w <= i
  BY <1>2, <1>3, NotesWorth DEF Sound
<1>5. Held(t) = i
  BY <1>1, <1>3, HeldNat
<1>6. Book(txs') /\ HeldBy(txs') + i = HeldBy(txs) + o
  <2>1. CASE t.orchard = EmptyBag
    <3>1. txs' = txs (-) One(t)
      BY <2>1 DEF Scan
    <3>2. Book(txs') /\ HeldBy(txs) = HeldBy(txs') + Held(t) /\ HeldBy(txs') \in Nat
      BY <3>1, BookRemove DEF IInv
    <3>3. o = 0
      BY <1>3, <2>1, WorthOne
    <3> QED BY <1>4, <1>5, <3>2, <3>3
  <2>2. CASE t.orchard # EmptyBag
    <3>1. PICK u : u = At([NoTx EXCEPT !.orchard = t.orchard], "scanned")
      OBVIOUS
    <3>2. u.ins = EmptyBag /\ u.orchard = t.orchard /\ u.ironwood = EmptyBag
          /\ u.at = "scanned"
      BY <3>1 DEF At, NoTx
    <3>3. TxOK(u)
      BY <1>2, <3>2, WorthOne DEF TxOK, Sound
    <3>4. Held(u) = o
      BY <1>3, <3>2, <3>3, HeldNat
    <3>5. txs' = (txs (-) One(t)) (+) One(u)
      BY <2>2, <3>1 DEF Scan, Becomes
    <3> QED BY <1>5, <3>3, <3>4, <3>5, BookReplace DEF IInv
  <2> QED BY <2>1, <2>2
<1>7. /\ Notes(ironwood') /\ Worth(ironwood') = Worth(ironwood) + w
      /\ DOMAIN ironwood' = DOMAIN ironwood \cup DOMAIN t.ironwood
  BY <1>2, <1>3, NotesAdd DEF IInv, Scan, Sound
<1>8. \A v \in DOMAIN ironwood' : IsIwSd(v)
  BY <1>2, <1>7 DEF IInv, Sound
<1>9. spent' = spent + i - o - w
  BY <1>3 DEF Scan
<1>10. spent' \in Nat
  BY <1>4, <1>9, Numbers
<1>11. UNCHANGED <<ripe, step, running, received, events>>
  BY DEF Scan
<1>12. HeldBy(txs') \in Nat
  BY <1>6, HeldTyped
<1>13. Worth(ripe') + Worth(ironwood') + spent' + HeldBy(txs')
           = Worth(ripe) + Worth(ironwood) + spent + HeldBy(txs)
  BY <1>4, <1>6, <1>7, <1>9, <1>11, <1>12, Numbers
<1>14. StepOK'
  BY <1>11, Itself, StepStays DEF IInv
<1>15. events' \in events .. MaxEvents
  BY <1>11, Numbers
<1> QED BY <1>6, <1>7, <1>8, <1>10, <1>11, <1>13, <1>14, <1>15, Kept_IInv DEF IInv

(* Notes come back to the wallet: what a scanned transaction made, or what *)
(* an expired one had reserved.                                            *)
LEMMA ReturnKeeps ==
    ASSUME IInv, NEW t \in DOMAIN txs, NEW C, Notes(C), Held(t) = Worth(C),
           ripe' = ripe (+) C, txs' = txs (-) One(t),
           UNCHANGED <<ironwood, step, running, received, spent, events>>
    PROVE  IInv'
<1>1. Notes(ripe') /\ Worth(ripe') = Worth(ripe) + Worth(C) /\ ripe \sqsubseteq ripe'
  BY NotesAdd DEF IInv
<1>2. Book(txs') /\ HeldBy(txs) = HeldBy(txs') + Held(t) /\ HeldBy(txs') \in Nat
  BY BookRemove DEF IInv
<1>3. StepOK'
  BY <1>1, StepStays
<1>4. Worth(C) \in Nat
  BY NotesWorth
<1>5. Worth(ripe') + Worth(ironwood') + spent' + HeldBy(txs')
          = Worth(ripe) + Worth(ironwood) + spent + HeldBy(txs)
  BY <1>1, <1>2, <1>4, Numbers
<1>6. events' \in events .. MaxEvents
  BY Numbers
<1> QED BY <1>1, <1>2, <1>3, <1>5, <1>6, Kept_IInv DEF IInv

(* Every step keeps the invariant.                                         *)
LEMMA StepKeepsIInv ==
    ASSUME IInv, [Next]_vars PROVE IInv'
<1>1. CASE Begin \/ Plan \/ PlanRefused \/ PlanNothing \/ ClaimFails \/ StepFails \/ Report
  BY <1>1, CallKeeps
<1>2. CASE Send
  <2>1. step' = [at |-> "done", tx |-> NoTx, stale |-> FALSE]
    BY <1>2 DEF Send, Idle
  <2>2. StepOK'
    BY <2>1, BetweenSteps
  <2>3. events' \in events .. MaxEvents
    BY <1>2, Numbers DEF Send
  <2> QED BY <1>2, <2>2, <2>3, SendKeeps DEF Send
<1>3. ASSUME NEW where \in {"pool", "lost"}, SendFails(where) PROVE IInv'
  <2>1. step' = [at |-> "idle", tx |-> NoTx, stale |-> FALSE]
    BY <1>3 DEF SendFails, Idle
  <2>2. StepOK'
    BY <2>1, BetweenSteps
  <2>3. events' \in events .. MaxEvents
    BY <1>3, Numbers DEF SendFails
  <2> QED BY <1>3, <2>2, <2>3, SendKeeps DEF SendFails
<1>4. ASSUME NEW t \in DOMAIN txs, Scan(t) \/ Confirm(t) \/ Expire(t) PROVE IInv'
  <2>0. TxOK(t)
    BY DEF IInv, Book
  <2>1. CASE Scan(t)
    BY <2>1, ScanKeeps
  <2>2. CASE Confirm(t)
    <3>1. Notes(t.orchard) /\ Held(t) = Worth(t.orchard)
      BY <2>0, <2>2, HeldNat DEF Confirm, TxOK
    <3> QED BY <2>2, <3>1, ReturnKeeps DEF Confirm
  <2>3. CASE Expire(t)
    <3>1. Notes(t.ins) /\ Held(t) = Worth(t.ins)
      BY <2>0, <2>3, HeldNat DEF Expire, Expired, TxOK
    <3> QED BY <2>3, <3>1, ReturnKeeps DEF Expire
  <2> QED BY <1>4, <2>1, <2>2, <2>3
<1>5. ASSUME NEW v \in BagToSet(ripe), NEW clash \in BOOLEAN, Pay(v, clash) PROVE IInv'
  BY <1>5, PayKeeps
<1>6. ASSUME NEW v \in Deposits, Deposit(v) PROVE IInv'
  BY <1>6, DepositKeeps
<1>7. ASSUME NEW t \in DOMAIN txs, Lose(t) PROVE IInv'
  BY <1>7, LoseKeeps
<1>8. CASE UNCHANGED vars
  <2>1. UNCHANGED <<ripe, txs, ironwood, step, running, received, spent, events>>
    BY <1>8 DEF vars
  <2>2. StepOK'
    BY <2>1, Itself, StepStays DEF IInv
  <2> QED BY <2>1, <2>2, Numbers, OnlyStep DEF IInv
<1> QED BY <1>1, <1>2, <1>3, <1>4, <1>5, <1>6, <1>7, <1>8 DEF Next, Step, Chain, BagToSet

-----------------------------------------------------------------------------
(* Theorems.                                                               *)

(* The strengthened invariant holds throughout.                            *)
THEOREM SpecIInv == Spec => []IInv
<1>1. IInv /\ [Next]_vars => IInv'
  BY StepKeepsIInv
<1> QED BY InitIInv, <1>1, PTL DEF Spec

(* The wallet's notes and the call have their types, and a step whose      *)
(* inputs nobody took holds notes that are there (step, reserve_and_send). *)
THEOREM TypesHold == Spec => []TypeOK
<1>1. IInv => TypeOK
  <2> SUFFICES ASSUME IInv PROVE TypeOK
    OBVIOUS
  <2>1. \A B : Notes(B) => BagOf(Amount, B)
    BY DEF Notes, FiniteBag, BagOf, Amount, BagToSet
  <2>2. BagOf(Amount, ripe) /\ BagOf(Amount, ironwood) /\ IsABag(txs)
    BY <2>1 DEF IInv, Book, FiniteBag
  <2>3. ASSUME NEW t \in BagToSet(txs)
        PROVE  /\ BagOf(Amount, t.ins) /\ BagOf(Amount, t.orchard)
               /\ BagOf(Amount, t.ironwood)
               /\ t.at \in {"pool", "scanned", "lost"}
    BY <2>1 DEF IInv, Book, TxOK, BagToSet
  <2> QED BY <2>2, <2>3 DEF TypeOK, IInv, StepOK
<1> QED BY SpecIInv, <1>1, PTL

(* Nothing is spent twice and nothing is lost, whatever a payment does     *)
(* while a step is under way (step, reserve_and_send).                     *)
THEOREM ValueIsConserved == Spec => []Conserved
<1>1. IInv => Conserved
  BY DEF IInv
<1> QED BY SpecIInv, <1>1, PTL

(* decompose_to_sd, is_sd and is_iw_sd agree.                              *)
THEOREM DenominationsDoAgree == Spec => []DenominationsAgree
<1>1. IInv => DenominationsAgree
  <2> SUFFICES ASSUME IInv PROVE DenominationsAgree
    OBVIOUS
  <2>1. \A v \in BagToSet(ironwood) : IsIwSd(v)
    BY DEF IInv, BagToSet
  <2>2. ASSUME NEW t \in BagToSet(txs) \cup {step.tx}, t.ins # EmptyBag
        PROVE  /\ Size(NonSd(t.orchard)) <= 1
               /\ \A v \in BagToSet(t.ironwood) : IsIwSd(v)
    <3>1. Sound(t)
      BY <2>2 DEF IInv, StepOK, Book, TxOK, BagToSet
    <3> QED BY <3>1 DEF Sound, BagToSet
  <2> QED BY <2>1, <2>2 DEF DenominationsAgree
<1> QED BY SpecIInv, <1>1, PTL

(* At the phase complete with nothing under way, no standard note and no   *)
(* transaction's worth of notes above the fee buffer and the smallest      *)
(* denomination is left (plan_split, current_migration_status).            *)
THEOREM LittleRemains == Spec => []LittleIsLeft
<1>1. IInv => LittleIsLeft
  <2> SUFFICES ASSUME IInv, PhaseOf(ripe) = "complete"
               PROVE  /\ Sd(ripe) = EmptyBag
                      /\ Worth(Largest(MaxSplitInputs, ripe)) < MinSd + Denom(0)
    BY DEF LittleIsLeft
  <2>0. Notes(ripe)
    BY DEF IInv
  <2>1. ~HasSplit(NonSd(ripe)) /\ Sd(ripe) = EmptyBag
    BY DEF PhaseOf
  <2>2. NonSd(ripe) = ripe
    <3>1. DOMAIN Sd(ripe) = {} /\ DOMAIN Sd(ripe) = {u \in DOMAIN ripe : IsSd(u)}
      BY <2>0, <2>1, SmallBags, SortedNotes
    <3>2. {u \in DOMAIN ripe : ~IsSd(u)} = DOMAIN ripe
      BY <3>1
    <3>3. ripe = [v \in DOMAIN ripe |-> ripe[v]]
      BY <2>0, BagFinite DEF Notes, Finite
    <3> QED BY <3>2, <3>3 DEF NonSd
  <2>3. PlanSplit(ripe) = EmptyBag
    BY <2>1, <2>2 DEF HasSplit
  <2>4. PICK t \in Nat : t = CappedWorth(ripe)
    BY <2>0, CappedNotes
  <2>5. t < 256 * Denom(KTop)
    <3>1. t <= Worth(ripe)
      BY <2>0, <2>4, CappedNotes
    <3>2. received = Worth(ripe) + Worth(ironwood) + spent + HeldBy(txs)
      BY DEF IInv, Conserved, HeldBy
    <3>3. Worth(ripe) <= received
      BY <3>2, Numbers
    <3>4. received + (MaxEvents - events) * 0 < 256 * Denom(KTop)
      BY DEF IInv, Supply
    <3>5. (MaxEvents - events) * 0 = 0
      BY Numbers
    <3>6. 256 * Denom(KTop) \in Nat
      BY Constants, DenomBounds
    <3> QED BY <3>1, <3>3, <3>4, <3>5, <3>6, Numbers
  <2>6. ~(t >= MinSd + Denom(0))
    BY <2>0, <2>3, <2>4, <2>5, SplitPlan
  <2>7. MinSd + Denom(0) \in Nat
    BY Constants, DenomBounds
  <2> QED BY <2>1, <2>4, <2>6, <2>7 DEF CappedWorth, Capped
<1> QED BY SpecIInv, <1>1, PTL

(* Denominations grow.                                                     *)
LEMMA DenomGrows ==
    ASSUME NEW j \in 0 .. KTop, NEW k \in 0 .. KTop, j < k
    PROVE  Denom(j) < Denom(k)
<1>0. KTop \in Nat /\ Radix \in Nat /\ Radix >= 2 /\ Pad \in Nat /\ Base \in Nat \ {0}
  BY Constants
<1> DEFINE P == {n \in Nat : n <= KTop /\ j < n => Pure[j] < Pure[n]}
<1>1. 0 \in P
  BY <1>0
<1>2. ASSUME NEW n \in P PROVE n + 1 \in P
  <2>0. n \in Nat
    OBVIOUS
  <2> SUFFICES ASSUME n + 1 <= KTop, j < n + 1 PROVE Pure[j] < Pure[n + 1]
    BY <2>0
  <2>1. PICK p : p = Pure[n]
    OBVIOUS
  <2>2. p \in Nat /\ p >= Base /\ Pure[n + 1] = Radix * p /\ Pure[j] \in Nat
    BY <1>0, <2>0, <2>1, DenomBounds
  <2>3. Radix * p >= 2 * p
    BY <1>0, <2>2
  <2>4. p < Pure[n + 1] /\ Pure[n + 1] \in Nat
    BY <1>0, <2>2, <2>3
  <2>5. CASE j = n
    BY <2>1, <2>4, <2>5
  <2>6. CASE j # n
    <3>1. Pure[j] < p
      BY <1>0, <2>0, <2>1, <2>6
    <3> QED BY <2>2, <2>4, <3>1
  <2> QED BY <2>5, <2>6
<1>3. P = Nat
  <2> HIDE DEF P
  <2>1. P \in SUBSET Nat
    BY DEF P
  <2> QED BY <1>1, <1>2, <2>1, AllNat
<1>4. Pure[j] < Pure[k]
  <2>1. k \in P /\ k <= KTop
    BY <1>0, <1>3
  <2> QED BY <2>1
<1> QED BY <1>0, <1>4, DenomBounds DEF Denom

\* The digits of the denominations from j upwards.
DigitsFrom(t, j) ==
    [d \in {Denom(k) : k \in {i \in Used(t) : i >= j}} |-> DecomposeToSd(t).digits[d]]

(* decompose_to_sd loses nothing: below 256 notes of the largest           *)
(* denomination its digits and what is over make up the total, though a    *)
(* count is cut to eight bits.                                             *)
THEOREM DecomposesExactly ==
    ASSUME NEW t \in Nat, t < 256 * Denom(KTop)
    PROVE  Worth(DecomposeToSd(t).digits) + DecomposeToSd(t).rest = t
<1>0. KTop \in Nat /\ \A k \in 0 .. KTop : Denom(k) \in Nat \ {0}
  BY Constants, DenomBounds
<1>1. PICK D : D = DecomposeToSd(t).digits
  OBVIOUS
<1>2. Notes(D) /\ DOMAIN D = {Denom(k) : k \in Used(t)}
  BY <1>1, Digits, DigitsDef
<1>3. \A k \in Used(t) : k \in 0 .. KTop
  BY DEF Used
<1>4. ASSUME NEW k \in Used(t) PROVE D[Denom(k)] = Count(t, k)
  <2>1. PICK i : i = CHOOSE j \in Used(t) : Denom(j) = Denom(k)
    OBVIOUS
  <2>2. i \in Used(t) /\ Denom(i) = Denom(k)
    BY <2>1
  <2>3. i \in Nat /\ k \in Nat
    BY <1>0, <1>3, <2>2
  <2>4. ~(i < k) /\ ~(k < i)
    BY <1>0, <1>3, <2>2, DenomGrows
  <2>5. i = k
    BY <2>3, <2>4
  <2>6. Denom(k) \in DOMAIN D
    BY <1>2
  <2>7. \A d \in DOMAIN D : D[d] = Count(t, CHOOSE j \in Used(t) : Denom(j) = d)
    <3>1. D = [d \in {Denom(h) : h \in Used(t)} |->
                  Count(t, CHOOSE h \in Used(t) : Denom(h) = d)]
      BY <1>1, DigitsDef
    <3> QED BY <3>1
  <2> QED BY <2>1, <2>5, <2>6, <2>7
<1>5. ASSUME NEW j \in Nat PROVE Notes(DigitsFrom(t, j))
  <2>1. PICK C : C = DigitsFrom(t, j)
    OBVIOUS
  <2>2. /\ DOMAIN C \subseteq DOMAIN D /\ \A d \in DOMAIN C : C[d] = D[d]
        /\ C = [d \in DOMAIN C |-> C[d]]
    BY <1>1, <1>2, <2>1 DEF DigitsFrom
  <2>3. \A d \in DOMAIN C : C[d] \in Nat /\ C[d] > 0
    BY <1>2, <2>2, BagFinite DEF Notes
  <2>4. IsFiniteSet(DOMAIN C)
    BY <1>2, <2>2, FS_Subset DEF Notes, FiniteBag
  <2> QED BY <1>2, <2>1, <2>2, <2>3, <2>4, BagMade DEF Notes
<1> DEFINE P == {n \in Nat : n <= KTop + 1 =>
                    Worth(DigitsFrom(t, KTop + 1 - n)) + RestFrom(t)[KTop + 1 - n] = t}
<1>6. 0 \in P
  <2>1. KTop + 1 - 0 = KTop + 1
    BY <1>0
  <2>2. PICK C : C = DigitsFrom(t, KTop + 1)
    OBVIOUS
  <2>3. {i \in Used(t) : i >= KTop + 1} = {}
    BY <1>0, <1>3
  <2>4. Notes(C) /\ DOMAIN C = {}
    BY <1>0, <1>5, <2>2, <2>3 DEF DigitsFrom
  <2>5. Worth(C) = 0
    <3>1. C = EmptyBag
      BY <2>4, NoElements DEF Notes
    <3> QED BY <3>1, WorthOne
  <2> QED BY <2>1, <2>2, <2>5, RestBounds
<1>7. ASSUME NEW n \in P PROVE n + 1 \in P
  <2>0. n \in Nat
    OBVIOUS
  <2> SUFFICES ASSUME n + 1 <= KTop + 1
               PROVE  Worth(DigitsFrom(t, KTop + 1 - (n + 1)))
                          + RestFrom(t)[KTop + 1 - (n + 1)] = t
    BY <2>0
  <2>1. PICK j : j = KTop + 1 - (n + 1)
    OBVIOUS
  <2>2. j \in 0 .. KTop /\ KTop + 1 - n = j + 1 /\ j \in Nat /\ j + 1 \in Nat
    BY <1>0, <2>0, <2>1
  <2>3. PICK B, C, x, d, c : /\ B = DigitsFrom(t, j + 1) /\ C = DigitsFrom(t, j)
                             /\ x = RestFrom(t)[j + 1] /\ d = Denom(j) /\ c = Count(t, j)
    OBVIOUS
  <2>4. Notes(B) /\ Notes(C) /\ Worth(B) \in Nat /\ Worth(C) \in Nat
    BY <1>5, <2>2, <2>3, NotesWorth
  <2>5. Worth(B) + x = t
    BY <1>0, <2>0, <2>2, <2>3
  <2>6. x \in Nat /\ d \in Nat \ {0} /\ c = x \div d /\ RestFrom(t)[j] = x % d
    BY <1>0, <2>2, <2>3, CountFits, RestBounds
  <2>7. c \in Nat /\ x = d * c + (x % d)
    BY <2>6
  <2>8. CASE c = 0
    <3>1. j \notin Used(t)
      <4>1. ~(Count(t, j) > 0)
        BY <2>3, <2>8
      <4> QED BY <4>1 DEF Used
    <3>2. {i \in Used(t) : i >= j} = {i \in Used(t) : i >= j + 1}
      BY <1>0, <1>3, <2>2, <3>1
    <3>3. B = C
      BY <2>3, <3>2 DEF DigitsFrom
    <3>4. x % d = x
      BY <2>6, <2>7, <2>8
    <3> QED BY <2>1, <2>3, <2>5, <2>6, <3>3, <3>4
  <2>9. CASE c # 0
    <3>1. j \in Used(t)
      BY <2>2, <2>3, <2>7, <2>9 DEF Used
    <3>2. {i \in Used(t) : i >= j} = {i \in Used(t) : i >= j + 1} \cup {j}
      <4>1. ASSUME NEW i \in Used(t) PROVE i >= j <=> (i >= j + 1 \/ i = j)
        <5>1. i \in Nat /\ j \in Nat
          BY <1>0, <1>3, <2>2
        <5> QED BY <5>1
      <4> QED BY <3>1, <4>1
    <3>3. DOMAIN C = DOMAIN B \cup {d}
      BY <2>3, <3>2 DEF DigitsFrom
    <3>4. d \notin DOMAIN B
      <4> SUFFICES ASSUME d \in DOMAIN B PROVE FALSE
        OBVIOUS
      <4>1. PICK i \in Used(t) : i >= j + 1 /\ Denom(i) = d
        BY <2>3 DEF DigitsFrom
      <4>2. i \in 0 .. KTop /\ j < i
        BY <1>0, <1>3, <2>2, <4>1
      <4>3. Denom(j) < Denom(i) /\ Denom(j) \in Nat
        BY <1>0, <2>2, <4>2, DenomGrows
      <4> QED BY <2>3, <4>1, <4>3
    <3>5. C[d] = c /\ \A e \in DOMAIN B : C[e] = B[e]
      <4>1. d \in DOMAIN C /\ \A e \in DOMAIN C : C[e] = D[e]
        BY <1>1, <2>3, <3>3 DEF DigitsFrom
      <4>2. \A e \in DOMAIN B : B[e] = D[e]
        BY <1>1, <2>3 DEF DigitsFrom
      <4>3. D[d] = c
        BY <1>4, <2>3, <3>1
      <4> QED BY <3>3, <4>1, <4>2, <4>3
    <3>6. PICK G : G = [e \in {d} |-> c]
      OBVIOUS
    <3>7. Notes(G) /\ DOMAIN G = {d} /\ G[d] = c
      <4>1. DOMAIN G = {d} /\ G[d] = c /\ G = [e \in DOMAIN G |-> G[e]]
        BY <3>6
      <4>2. IsFiniteSet({d})
        BY FS_Singleton
      <4>3. FiniteBag(G)
        BY <2>7, <2>9, <4>1, <4>2, BagMade
      <4> QED BY <2>6, <4>1, <4>3 DEF Notes
    <3>8. Joins(B, G, C)
      <4>1. ASSUME NEW e PROVE Of(C, e) = Of(B, e) + Of(G, e)
        <5>1. e \in DOMAIN B => B[e] \in Nat
          BY <2>4, BagFinite DEF Notes
        <5>2. CASE e = d
          BY <2>7, <3>3, <3>4, <3>5, <3>7, <5>2 DEF Of
        <5>3. CASE e # d
          BY <3>3, <3>5, <3>7, <5>1, <5>3 DEF Of
        <5> QED BY <5>2, <5>3
      <4> QED BY <2>4, <3>7, <4>1 DEF Joins, Notes
    <3>9. Worth(C) = Worth(B) + Worth(G)
      BY <2>4, <3>8, WorthJoins
    <3>10. Worth(G) = d * c
      <4>1. PICK f : f = [e \in DOMAIN G |-> e * G[e]]
        OBVIOUS
      <4>2. DOMAIN f = {d} /\ f[d] = d * c /\ f[d] \in Nat
        BY <2>6, <2>7, <3>7, <4>1
      <4>3. Finite(f)
        <5>1. f \in [DOMAIN f -> Nat]
          BY <4>1, <4>2
        <5> QED BY <4>2, <5>1, FS_Singleton DEF Finite
      <4>4. SumOf(f) = f[d]
        BY <4>2, <4>3, SumOne
      <4> QED BY <4>1, <4>2, <4>4 DEF Worth
    <3>11. d * c \in Nat /\ x % d \in Nat
      BY <2>6, <2>7
    <3>12. Worth(C) + (x % d) = t
      BY <2>4, <2>5, <2>7, <3>9, <3>10, <3>11
    <3> QED BY <2>1, <2>3, <2>6, <3>12
  <2> QED BY <2>8, <2>9
<1>8. P = Nat
  <2> HIDE DEF P
  <2>1. P \in SUBSET Nat
    BY DEF P
  <2> QED BY <1>6, <1>7, <2>1, AllNat
<1>9. Worth(DigitsFrom(t, 0)) + RestFrom(t)[0] = t
  <2>1. KTop + 1 \in P /\ KTop + 1 - (KTop + 1) = 0
    <3> HIDE DEF P
    <3> QED BY <1>0, <1>8
  <2> QED BY <1>0, <2>1
<1>10. DigitsFrom(t, 0) = D
  <2>1. {i \in Used(t) : i >= 0} = Used(t)
    BY <1>0, <1>3
  <2>2. D = [d \in DOMAIN D |-> D[d]]
    BY <1>2, BagFinite DEF Notes, Finite
  <2> QED BY <1>1, <1>2, <2>1, <2>2 DEF DigitsFrom
<1> QED BY <1>1, <1>9, <1>10, DigitsDef

(* plan_transaction keeps the fee of a change output and the builder makes *)
(* none for nothing.  So the builder signs a split exactly when its inputs *)
(* are worth more than the announced outputs and that fee; without change  *)
(* it finds one action less than was paid for, and refuses.                *)
THEOREM SplitsNeedChange ==
    ASSUME NEW B, Notes(B), PlanSplit(B) # EmptyBag
    PROVE  Builds(SplitTx(B)) <=>
              Worth(SplitTx(B).ins) #
                 Worth(PlanSplit(B)) + SplitFee(Size(SplitTx(B).ins), Size(PlanSplit(B)))
<1>1. PICK P, t : P = PlanSplit(B) /\ t = SplitTx(B)
  OBVIOUS
<1>2. PICK I : \E c \in Nat :
          /\ Notes(I) /\ Size(I) >= 1 /\ Size(P) >= 1
          /\ Worth(I) = Worth(P) + SplitFee(Size(I), Size(P)) + c
          /\ t = [ins |-> I, orchard |-> P (+) ChangeBag(c), ironwood |-> EmptyBag]
  BY <1>1, SplitShape
<1>3. PICK c \in Nat :
          /\ Worth(I) = Worth(P) + SplitFee(Size(I), Size(P)) + c
          /\ t = [ins |-> I, orchard |-> P (+) ChangeBag(c), ironwood |-> EmptyBag]
  BY <1>2
<1>4. PICK G, O : G = ChangeBag(c) /\ O = P (+) G
  OBVIOUS
<1>5. t.ins = I /\ t.orchard = O /\ t.ironwood = EmptyBag
  BY <1>3, <1>4
<1>6. Notes(P)
  BY <1>1, SplitPlan
<1>7. Notes(G) /\ Worth(G) = c /\ Size(G) = IF c > 0 THEN 1 ELSE 0
  <2>1. CASE c > 0
    <3>1. c \in Nat \ {0} /\ G = One(c)
      BY <1>4, <2>1 DEF ChangeBag
    <3> QED BY <2>1, <3>1, WorthOne
  <2>2. CASE ~(c > 0)
    <3>1. c = 0 /\ G = EmptyBag
      BY <1>4, <2>2 DEF ChangeBag
    <3> QED BY <3>1, WorthOne
  <2> QED BY <2>1, <2>2
<1>8. Joins(P, G, O)
  BY <1>4, <1>6, <1>7, JoinPlus DEF Notes
<1>9. Notes(O)
  <2>1. DOMAIN O = DOMAIN P \cup DOMAIN G
    BY <1>4, <1>6, <1>7, JoinPlus DEF Notes
  <2> QED BY <1>6, <1>7, <1>8, <2>1 DEF Notes, Joins
<1>10. Worth(O) = Worth(P) + c /\ Size(O) = Size(P) + Size(G)
  BY <1>7, <1>8, <1>9, WorthJoins, SizeJoins
<1>11. /\ Size(I) \in Nat /\ Size(P) \in Nat /\ Worth(I) \in Nat /\ Worth(P) \in Nat
       /\ Size(O) \in Nat
  BY <1>2, <1>6, <1>9, NotesWorth
<1>12. BuilderFee(t) = Size(I) + Size(O)
  <2>1. Size(t.ins) + Size(t.orchard) = Size(I) + Size(O)
    BY <1>5
  <2>2. Size(O) >= 1
    BY <1>2, <1>7, <1>10, <1>11
  <2>3. Size(I) + Size(O) # 1
    BY <1>2, <1>11, <2>2
  <2> QED BY <1>5, <1>11, <2>1, <2>3 DEF BuilderFee
<1>13. Builds(t) <=> Worth(I) = Worth(O) + 0 + BuilderFee(t)
  BY <1>5, WorthOne DEF Builds
<1>14. SplitFee(Size(I), Size(P)) = Size(I) + Size(P) + 1
  BY DEF SplitFee
<1>15. Builds(t) <=> c # 0
  <2>1. CASE c = 0
    <3>1. Size(O) = Size(P)
      BY <1>7, <1>10, <1>11, <2>1
    <3> QED BY <1>3, <1>10, <1>11, <1>12, <1>13, <1>14, <2>1, <3>1
  <2>2. CASE c # 0
    <3>1. Size(O) = Size(P) + 1
      BY <1>7, <1>10, <1>11, <2>2
    <3> QED BY <1>3, <1>10, <1>11, <1>12, <1>13, <1>14, <2>2, <3>1
  <2> QED BY <2>1, <2>2
<1>16. c # 0 <=> Worth(I) # Worth(P) + SplitFee(Size(I), Size(P))
  BY <1>3, <1>11, <1>14
<1>17. Builds(SplitTx(B)) <=> c # 0
  BY <1>1, <1>15
<1>18. SplitTx(B).ins = I
  BY <1>1, <1>5
<1> QED BY <1>1, <1>16, <1>17, <1>18

(* With the padding the code gives a denomination, four actions, the       *)
(* builder signs the move of every standard note: one Orchard input that   *)
(* it pads to two actions, and one Ironwood output that it pads to two.    *)
THEOREM MovesAlwaysBuild ==
    ASSUME Pad = 4, NEW v \in Nat \ {0}, IsSd(v)
    PROVE  Builds(MigrateTx(v))
<1>1. v > Pad
  BY DEF IsSd
<1>2. PICK u \in Nat \ {0} : u = v - 4
  BY <1>1
<1>3. PICK t : t = MigrateTx(v)
  OBVIOUS
<1>4. t.ins = One(v) /\ t.orchard = EmptyBag /\ t.ironwood = One(u)
  BY <1>2, <1>3 DEF MigrateTx
<1>5. /\ Worth(One(v)) = v /\ Size(One(v)) = 1 /\ Worth(One(u)) = u /\ Size(One(u)) = 1
      /\ Worth(EmptyBag) = 0 /\ Size(EmptyBag) = 0
  BY WorthOne
<1>6. One(u) # EmptyBag
  BY <1>5
<1>7. BuilderFee(t) = 4
  BY <1>4, <1>5, <1>6 DEF BuilderFee
<1>8. Worth(t.ins) = Worth(t.orchard) + Worth(t.ironwood) + BuilderFee(t)
  BY <1>2, <1>4, <1>5, <1>7
<1> QED BY <1>3, <1>8 DEF Builds

(* With the code's padding a refusal of the builder has one cause: the     *)
(* split that is planned leaves nothing for its change output.  So that is *)
(* all that can keep a wallet from being migrated (step, plan_split).      *)
THEOREM OnlyChangelessSplitsBlock == Pad = 4 => (Spec => []OnlyChangelessRefused)
<1> SUFFICES ASSUME Pad = 4 PROVE Spec => []OnlyChangelessRefused
  OBVIOUS
<1>1. IInv => OnlyChangelessRefused
  <2> SUFFICES ASSUME IInv PROVE Blocked <=> WithoutChange
    BY DEF OnlyChangelessRefused
  <2>1. PICK B : B = NonSd(ripe)
    OBVIOUS
  <2>2. Notes(ripe)
    BY DEF IInv
  <2>3. Notes(B) /\ Notes(Sd(ripe)) /\ DOMAIN Sd(ripe) = {u \in DOMAIN ripe : IsSd(u)}
    BY <2>1, <2>2, SortedNotes
  <2>4. CASE HasSplit(B)
    <3>1. PlanSplit(B) # EmptyBag
      BY <2>4 DEF HasSplit
    <3>2. Plans = {SplitTx(B)}
      BY <2>1, <2>4 DEF Plans
    <3>3. Blocked <=> ~Builds(SplitTx(B))
      BY <3>2 DEF Blocked
    <3>4. Builds(SplitTx(B)) <=>
              Worth(SplitTx(B).ins) #
                 Worth(PlanSplit(B)) + SplitFee(Size(SplitTx(B).ins), Size(PlanSplit(B)))
      BY <2>3, <3>1, SplitsNeedChange
    <3> QED BY <2>1, <2>4, <3>3, <3>4 DEF WithoutChange
  <2>5. CASE ~HasSplit(B)
    <3>1. Plans = {MigrateTx(v) : v \in BagToSet(Sd(ripe))}
      BY <2>1, <2>5 DEF Plans
    <3>2. ASSUME NEW t \in Plans PROVE Builds(t)
      <4>1. PICK v \in DOMAIN Sd(ripe) : t = MigrateTx(v)
        BY <3>1, <3>2 DEF BagToSet
      <4>2. v \in Nat \ {0} /\ IsSd(v)
        BY <2>2, <2>3, <4>1 DEF Notes
      <4> QED BY <4>1, <4>2, MovesAlwaysBuild
    <3> QED BY <2>1, <2>5, <3>2 DEF Blocked, WithoutChange
  <2> QED BY <2>4, <2>5
<1> QED BY <1>1, SpecIInv, PTL
=============================================================================
