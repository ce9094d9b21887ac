--------------------------- MODULE PaymentProofs ---------------------------
(* Safety of Payment for every wallet, every request and every beam width. *)
(* The inductive invariant says what each phase has established: which     *)
(* candidates and recipients were prepared, that the incumbent is what     *)
(* evaluate returns for its notes and no evaluated selection beats it,     *)
(* that a refusal has tried all candidates, and that every selection       *)
(* queued or evaluated has its key in seen under a bound no higher than    *)
(* its own.                                                                *)
EXTENDS Payment, SumsProofs

Incumbent == {"search", "selected", "built", "unbalanced"}

\* Before the greedy baseline ends nothing is queued, seen or evaluated.
Untouched ==
    /\ phase \in {"prepare", "greedy"} =>
          /\ left = {} /\ heap = {} /\ visited = {}
          /\ plan = NoPlan /\ best = NoBest
    /\ phase = "prepare" =>
          /\ cand = {} /\ node = {}
          /\ first = req.first /\ others = req.others /\ pays = req.pays

\* An ordinary payment keeps its arguments.
AsAsked ==
    ~req.smart => /\ phase # "prepare" => cand = NoDust(Offered)
                  /\ first = req.first /\ others = req.others /\ pays = req.pays

\* A pool without other recipients is paid nothing more.
NotEmpty == \A p \in Pool : others[p].count = 0 => others[p].value = 0

BestIsEvaluated == phase \in Incumbent => IsEvaluation(best.notes, best)

TriedAll == phase = "refused" => node = cand /\ FeasiblePools(node) = {}

\* What is queued or evaluated is in seen.
Known(S) == StateKey(S) \in DOMAIN seen /\ seen[StateKey(S)] <= LowerBound(S)

SeenIsKnown ==
    /\ \A x \in heap : x.bound = LowerBound(x.notes)
    /\ \A x \in heap : x.notes # {} => Known(x.notes)
    /\ \A S \in visited : S # {} => Known(S)

MadeFromBest ==
    Planned => /\ plan = PlanOf(best)
               /\ phase = (IF BuilderAccepts(plan) THEN "built" ELSE "unbalanced")

IInv ==
    /\ req \in Requests
    /\ TypeOK
    /\ Untouched
    /\ AsAsked
    /\ NotEmpty
    /\ BestIsEvaluated
    /\ TriedAll
    /\ SeenIsKnown
    /\ MadeFromBest
    /\ AnytimeBest
    /\ NoNodeTwice

-----------------------------------------------------------------------------
(* Numbers.                                                                *)

\* The parts of a state that its numbers are computed from.
Typed ==
    /\ req \in Requests
    /\ cand \subseteq DOMAIN req.notes
    /\ first \in [pool: Pool, amount: Nat]
    /\ others \in [Pool -> [count: Nat, value: Nat]]
    /\ pays \in BOOLEAN

(* The invariant gives the types the sums below are computed from.         *)
LEMMA IInvTyped == IInv => Typed
BY DEF IInv, Typed, TypeOK

(* The notes of a pool add up to a number, and to 0 when there are none.   *)
LEMMA PoolSumNat ==
  ASSUME NEW r \in Requests, NEW S \in SUBSET DOMAIN r.notes, NEW p \in Pool
  PROVE  /\ PoolSum(r.notes, S, p) \in Nat
         /\ PoolSum(r.notes, S, p) # 0 => \E i \in S : r.notes[i].pool = p
<1>1. PICK f : f = [i \in {j \in S : r.notes[j].pool = p} |-> r.notes[i].amount]
  OBVIOUS
<1>2. /\ IsFiniteSet(DOMAIN r.notes)
      /\ \A i \in DOMAIN r.notes : r.notes[i].amount \in Nat
  BY PaymentAssumption
<1>3. DOMAIN f = {j \in S : r.notes[j].pool = p} /\ f \in [DOMAIN f -> Nat]
  BY <1>1, <1>2
<1>4. Finite(f)
  BY <1>2, <1>3, FS_Subset DEF Finite
<1>5. SumOf(f) \in Nat /\ (DOMAIN f = {} => SumOf(f) = 0)
  BY <1>4, SumNat, SumPick
<1> QED BY <1>1, <1>3, <1>5 DEF PoolSum

(* What a set of notes is worth, per pool and in all, is a natural number  *)
(* (plan_transaction's input sums).                                        *)
LEMMA PoolSums ==
  ASSUME Typed
  PROVE  \A S \in SUBSET cand :
            /\ \A p \in Pool : Value(S, p) \in Nat
            /\ InSum(S) \in Nat
            /\ NIn(S) \in [Pool -> Nat]
<1> SUFFICES ASSUME NEW S \in SUBSET cand
             PROVE  /\ \A p \in Pool : Value(S, p) \in Nat
                    /\ InSum(S) \in Nat
                    /\ NIn(S) \in [Pool -> Nat]
  OBVIOUS
<1>1. S \in SUBSET DOMAIN req.notes
  BY DEF Typed
<1>2. \A p \in Pool : Value(S, p) \in Nat
  BY <1>1, PoolSumNat DEF Typed, Value
<1>3. InSum(S) \in Nat
  BY <1>2 DEF InSum, Pool
<1>4. IsFiniteSet(DOMAIN req.notes)
  BY PaymentAssumption DEF Typed
<1>5. ASSUME NEW p \in Pool
      PROVE  Cardinality({i \in S : req.notes[i].pool = p}) \in Nat
  <2>1. {i \in S : req.notes[i].pool = p} \subseteq DOMAIN req.notes
    BY <1>1
  <2>2. IsFiniteSet({i \in S : req.notes[i].pool = p})
    BY <2>1, <1>4, FS_Subset
  <2> QED
    BY <2>2, FS_CardinalityType
<1>6. NIn(S) \in [Pool -> Nat]
  BY <1>5 DEF NIn
<1> QED
  BY <1>2, <1>3, <1>6

(* What the recipients get is a natural number and at least the first      *)
(* amount.                                                                 *)
LEMMA Outs ==
  ASSUME Typed
  PROVE  /\ \A p \in Pool : OutValue(p) \in Nat
         /\ OutSum \in Nat
         /\ OutSum >= first.amount
         /\ NOut \in [Pool -> Nat]
<1> USE DEF Typed
<1>1. \A p \in Pool : OutValue(p) \in Nat
  BY DEF OutValue
<1>2. OutSum \in Nat
  BY <1>1 DEF OutSum, Pool
<1>3. OutSum >= first.amount
  <2>1. \A p \in Pool : OutValue(p) \in Nat /\ (first.pool = p => OutValue(p) >= first.amount)
    BY DEF OutValue
  <2>2. first.pool \in Pool /\ first.amount \in Nat
    OBVIOUS
  <2> QED
    BY <2>1, <2>2 DEF OutSum, Pool
<1>4. NOut \in [Pool -> Nat]
  BY DEF NOut
<1> QED
  BY <1>1, <1>2, <1>3, <1>4

\* The actions a fee counts.
Actions(ins, outs) ==
    MaxOf(MaxOf(ins[0], outs[0]) + Bundle(ins[1], outs[1])
          + OrchardBundle(ins[2], outs[2]) + Bundle(ins[3], outs[3]), 2)

(* ZIP 317: a fee is the unit times the number of actions                  *)
(* (FeeManager::fee).                                                      *)
LEMMA FeeActions ==
  ASSUME NEW ins \in [Pool -> Nat], NEW outs \in [Pool -> Nat]
  PROVE  /\ Actions(ins, outs) \in Nat
         /\ FeeFor(ins, outs) = FUnit * Actions(ins, outs)
         /\ FeeFor(ins, outs) \in Nat
<1>1. /\ ins[0] \in Nat /\ ins[1] \in Nat /\ ins[2] \in Nat /\ ins[3] \in Nat
      /\ outs[0] \in Nat /\ outs[1] \in Nat /\ outs[2] \in Nat /\ outs[3] \in Nat
  BY DEF Pool
<1>2. Actions(ins, outs) \in Nat
  BY <1>1 DEF Actions, MaxOf, Bundle, OrchardBundle
<1>3. FeeFor(ins, outs) = FUnit * Actions(ins, outs)
  BY DEF FeeFor, Actions
<1>4. \A a \in Nat : FUnit * a \in Nat
  BY PaymentAssumption
<1> QED
  BY <1>2, <1>3, <1>4

(* More actions cost more.                                                 *)
LEMMA Times ==
  ASSUME NEW a \in Nat, NEW b \in Nat, a <= b
  PROVE  FUnit * a <= FUnit * b
BY PaymentAssumption

(* More outputs never cost less.                                           *)
LEMMA FeeGrows ==
  ASSUME NEW ins \in [Pool -> Nat], NEW few \in [Pool -> Nat],
         NEW many \in [Pool -> Nat], \A p \in Pool : few[p] <= many[p]
  PROVE  FeeFor(ins, few) <= FeeFor(ins, many)
<1>1. /\ ins[0] \in Nat /\ ins[1] \in Nat /\ ins[2] \in Nat /\ ins[3] \in Nat
      /\ few[0] \in Nat /\ few[1] \in Nat /\ few[2] \in Nat /\ few[3] \in Nat
      /\ many[0] \in Nat /\ many[1] \in Nat /\ many[2] \in Nat /\ many[3] \in Nat
      /\ few[0] <= many[0] /\ few[1] <= many[1] /\ few[2] <= many[2]
      /\ few[3] <= many[3]
  BY DEF Pool
<1>2. MaxOf(ins[0], few[0]) \in Nat /\ MaxOf(ins[0], many[0]) \in Nat
      /\ MaxOf(ins[0], few[0]) <= MaxOf(ins[0], many[0])
  BY <1>1 DEF MaxOf
<1>3. \A i, f, m \in Nat : f <= m =>
        Bundle(i, f) \in Nat /\ Bundle(i, m) \in Nat /\ Bundle(i, f) <= Bundle(i, m)
  BY DEF Bundle, MaxOf
<1>4. \A i, f, m \in Nat : f <= m =>
        /\ OrchardBundle(i, f) \in Nat /\ OrchardBundle(i, m) \in Nat
        /\ OrchardBundle(i, f) <= OrchardBundle(i, m)
  <2>1. CASE req.migration
    BY <2>1 DEF OrchardBundle, Bundle, MaxOf
  <2>2. CASE ~req.migration
    BY <2>2, <1>3 DEF OrchardBundle
  <2> QED
    BY <2>1, <2>2
<1>5. Actions(ins, few) <= Actions(ins, many)
  <2> DEFINE A(o) == MaxOf(ins[0], o[0])
             B(o) == Bundle(ins[1], o[1])
             C(o) == OrchardBundle(ins[2], o[2])
             D(o) == Bundle(ins[3], o[3])
  <2>1. A(few) \in Nat /\ A(many) \in Nat /\ A(few) <= A(many)
    BY <1>2
  <2>2. B(few) \in Nat /\ B(many) \in Nat /\ B(few) <= B(many)
    BY <1>1, <1>3
  <2>3. C(few) \in Nat /\ C(many) \in Nat /\ C(few) <= C(many)
    BY <1>1, <1>4
  <2>4. D(few) \in Nat /\ D(many) \in Nat /\ D(few) <= D(many)
    BY <1>1, <1>3
  <2>5. /\ Actions(ins, few) = MaxOf(A(few) + B(few) + C(few) + D(few), 2)
        /\ Actions(ins, many) = MaxOf(A(many) + B(many) + C(many) + D(many), 2)
    BY DEF Actions
  <2> HIDE DEF A, B, C, D
  <2> QED
    BY <2>1, <2>2, <2>3, <2>4, <2>5 DEF MaxOf
<1> QED
  BY <1>5, FeeActions, Times

(* The fee of a set of notes with change in a pool is a natural number.    *)
LEMMA Fees ==
  ASSUME Typed
  PROVE  \A S \in SUBSET cand, cp \in Pool : Fee(S, cp) \in Nat
<1> SUFFICES ASSUME NEW S \in SUBSET cand, NEW cp \in Pool
             PROVE  Fee(S, cp) \in Nat
  OBVIOUS
<1>1. NIn(S) \in [Pool -> Nat]
  BY PoolSums
<1>2. [NOut EXCEPT ![cp] = @ + 1] \in [Pool -> Nat]
  BY Outs
<1> QED
  BY <1>1, <1>2, FeeActions DEF Fee

(* Cost and bound are numbers.                                             *)
LEMMA Costs ==
  ASSUME Typed
  PROVE  /\ \A S \in SUBSET cand : LowerBound(S) \in Nat
         /\ \A S \in SUBSET cand, cp \in Pool : Turnstile(S, cp) \in Nat
<1>1. ASSUME NEW S \in SUBSET cand, NEW p \in Pool
      PROVE  /\ Balance(S, p) \in Int
             /\ Floor(S, p) \in Nat
             /\ \A cp \in Pool : Imbalance(S, cp, p) \in Nat
  <2>1. Value(S, p) \in Nat /\ OutValue(p) \in Nat /\ Value(cand \ S, p) \in Nat
    BY PoolSums, Outs
  <2>2. Balance(S, p) \in Int
    BY <2>1 DEF Balance
  <2>3. Floor(S, p) \in Nat
    BY <2>1, <2>2 DEF Floor, MaxOf, AbsOf
  <2>4. ASSUME NEW cp \in Pool
        PROVE  Imbalance(S, cp, p) \in Nat
    <3>1. ChangeOf(S, cp) \in Int
      BY PoolSums, Outs, Fees DEF ChangeOf, Needed
    <3> QED
      BY <2>2, <3>1 DEF Imbalance, AbsOf
  <2> QED
    BY <2>2, <2>3, <2>4
<1>2. ASSUME NEW S \in SUBSET cand
      PROVE  LowerBound(S) \in Nat
  <2>1. Value(S, 0) \in Nat /\ OutValue(0) \in Nat
    BY PoolSums, Outs DEF Pool
  <2>2. Floor(S, 1) \in Nat /\ Floor(S, 2) \in Nat /\ Floor(S, 3) \in Nat
    BY <1>1 DEF Pool
  <2> QED
    BY <2>1, <2>2 DEF LowerBound
<1>3. ASSUME NEW S \in SUBSET cand, NEW cp \in Pool
      PROVE  Turnstile(S, cp) \in Nat
  <2>1. Value(S, 0) \in Nat /\ OutValue(0) \in Nat
    BY PoolSums, Outs DEF Pool
  <2>2. /\ Imbalance(S, cp, 1) \in Nat
        /\ Imbalance(S, cp, 2) \in Nat
        /\ Imbalance(S, cp, 3) \in Nat
    BY <1>1 DEF Pool
  <2> QED
    BY <2>1, <2>2 DEF Turnstile
<1> QED
  BY <1>2, <1>3

Choice == [notes: SUBSET cand, cost: Nat, fee: Nat, pool: Pool]

(* A choice select_notes evaluates names its notes, its change pool, and   *)
(* that pool's fee and cost.                                               *)
LEMMA OptionTypes ==
  ASSUME Typed
  PROVE  \A S \in SUBSET cand : \A x \in Options(S) :
            x \in Choice /\ x.notes = S /\ x.pool \in FeasiblePools(S)
            /\ x.fee = Fee(S, x.pool) /\ x.cost = Turnstile(S, x.pool)
<1> SUFFICES ASSUME NEW S \in SUBSET cand, NEW x \in Options(S)
             PROVE  x \in Choice /\ x.notes = S /\ x.pool \in FeasiblePools(S)
                    /\ x.fee = Fee(S, x.pool) /\ x.cost = Turnstile(S, x.pool)
  OBVIOUS
<1>1. PICK cp \in FeasiblePools(S) :
        x = [notes |-> S, cost |-> Turnstile(S, cp), fee |-> Fee(S, cp), pool |-> cp]
  BY DEF Options
<1>2. cp \in Pool
  BY DEF FeasiblePools
<1>3. Turnstile(S, cp) \in Nat /\ Fee(S, cp) \in Nat
  BY <1>2, Costs, Fees
<1> QED
  BY <1>1, <1>2, <1>3 DEF Choice
-----------------------------------------------------------------------------
(* Numbers of a state do not change while the request does not.            *)
LEMMA Frozen ==
  ASSUME UNCHANGED request
  PROVE  /\ \A S, p : Value(S, p)' = Value(S, p)
         /\ \A S : InSum(S)' = InSum(S)
         /\ OutSum' = OutSum
         /\ \A S : Options(S)' = Options(S)
         /\ \A S : FeasiblePools(S)' = FeasiblePools(S)
         /\ \A S : LowerBound(S)' = LowerBound(S)
         /\ \A S : StateKey(S)' = StateKey(S)
         /\ \A b : PlanOf(b)' = PlanOf(b)
         /\ \A pl : BuilderAccepts(pl)' <=> BuilderAccepts(pl)
<1>1. req' = req /\ cand' = cand /\ first' = first /\ others' = others /\ pays' = pays
  BY DEF request
<1>2. \A S, p : Value(S, p)' = Value(S, p)
  BY <1>1 DEF Value
<1>3. \A S : InSum(S)' = InSum(S)
  BY <1>2 DEF InSum
<1>4. \A p : OutValue(p)' = OutValue(p)
  BY <1>1 DEF OutValue
<1>5. OutSum' = OutSum
  BY <1>4 DEF OutSum
<1>6. \A S : NIn(S)' = NIn(S)
  BY <1>1 DEF NIn
<1>7. NOut' = NOut
  BY <1>1 DEF NOut
<1>8. \A i, o : FeeFor(i, o)' = FeeFor(i, o)
  BY <1>1 DEF FeeFor, OrchardBundle
<1>9. \A S, cp : Fee(S, cp)' = Fee(S, cp)
  BY <1>6, <1>7, <1>8 DEF Fee
<1>10. \A f : Needed(f)' = Needed(f)
  BY <1>1, <1>5 DEF Needed
<1>11. \A S : FeasiblePools(S)' = FeasiblePools(S)
  BY <1>1, <1>3, <1>9, <1>10 DEF FeasiblePools
<1>12. \A S, p : Balance(S, p)' = Balance(S, p)
  BY <1>2, <1>4 DEF Balance
<1>13. \A S, cp : ChangeOf(S, cp)' = ChangeOf(S, cp)
  BY <1>3, <1>9, <1>10 DEF ChangeOf
<1>14. \A S, cp, p : Imbalance(S, cp, p)' = Imbalance(S, cp, p)
  BY <1>12, <1>13 DEF Imbalance
<1>15. \A S, cp : Turnstile(S, cp)' = Turnstile(S, cp)
  BY <1>2, <1>4, <1>14 DEF Turnstile
<1>16. \A S : Options(S)' = Options(S)
  BY <1>9, <1>11, <1>15 DEF Options
<1>17. \A S, p : Floor(S, p)' = Floor(S, p)
  BY <1>1, <1>2, <1>12 DEF Floor
<1>18. \A S : LowerBound(S)' = LowerBound(S)
  BY <1>2, <1>4, <1>17 DEF LowerBound
<1>19. \A S : StateKey(S)' = StateKey(S)
  BY <1>3, <1>6, <1>12 DEF StateKey
<1>20. \A b : PlanOf(b)' = PlanOf(b)
  BY <1>1, <1>3, <1>5 DEF PlanOf
<1>21. \A pl : BuiltOut(pl)' = BuiltOut(pl)
  BY <1>1 DEF BuiltOut
<1>22. \A pl : BuilderFee(pl)' = BuilderFee(pl)
  <2>1. \A i, o : OrchardActions(i, o)' = OrchardActions(i, o)
    BY <1>1 DEF OrchardActions
  <2> QED
    BY <1>6, <1>21, <2>1 DEF BuilderFee
<1>23. \A pl : BuilderAccepts(pl)' <=> BuilderAccepts(pl)
  BY <1>1, <1>3, <1>5, <1>22 DEF BuilderAccepts
<1> QED
  BY <1>2, <1>3, <1>5, <1>11, <1>16, <1>18, <1>19, <1>20, <1>23

-----------------------------------------------------------------------------
(* The initial state.                                                      *)
LEMMA InitIInv == Init => IInv
<1> SUFFICES ASSUME Init PROVE IInv
  OBVIOUS
<1> USE DEF Init
<1>1. /\ req.first \in [pool: Pool, amount: Nat]
      /\ req.others \in [Pool -> [count: Nat, value: Nat]]
      /\ req.pays \in BOOLEAN
      /\ \A p \in Pool : req.others[p].count = 0 => req.others[p].value = 0
  BY PaymentAssumption
<1>2. /\ best \in [notes: SUBSET cand, cost: Nat, fee: Nat, pool: Pool]
      /\ plan \in [notes: SUBSET cand, change: Nat, fee: Nat, pool: Pool, paid: Nat]
  BY DEF NoBest, NoPlan, Pool
<1>3. DOMAIN seen = {}
  OBVIOUS
<1>4. TypeOK
  BY <1>1, <1>2, <1>3 DEF TypeOK
<1>5. Untouched /\ AsAsked /\ NotEmpty
  BY <1>1 DEF Untouched, AsAsked, NotEmpty
<1>6. BestIsEvaluated /\ TriedAll /\ MadeFromBest
  BY DEF BestIsEvaluated, Incumbent, TriedAll, MadeFromBest, Planned
<1>7. SeenIsKnown /\ AnytimeBest /\ NoNodeTwice
  BY DEF SeenIsKnown, AnytimeBest, NoNodeTwice
<1> QED
  BY <1>4, <1>5, <1>6, <1>7 DEF IInv

-----------------------------------------------------------------------------
(* Preparation.                                                            *)
LEMMA PrepareSendKeeps == IInv /\ PrepareSend => IInv'
<1> SUFFICES ASSUME IInv, PrepareSend PROVE IInv'
  OBVIOUS
<1> USE DEF PrepareSend
<1>0. req' = req /\ req \in Requests /\ NoDust(Offered) \subseteq DOMAIN req.notes
  BY PaymentAssumption DEF IInv, NoDust, Offered
<1>1. /\ node = {} /\ left = {} /\ heap = {} /\ visited = {}
      /\ plan = NoPlan /\ best = NoBest
      /\ first = req.first /\ others = req.others /\ pays = req.pays
  BY DEF IInv, Untouched
<1>2. /\ NoBest \in [notes: SUBSET cand', cost: Nat, fee: Nat, pool: Pool]
      /\ NoPlan \in [notes: SUBSET cand', change: Nat, fee: Nat, pool: Pool, paid: Nat]
  BY DEF NoBest, NoPlan, Pool
<1>3. TypeOK'
  BY <1>0, <1>1, <1>2 DEF IInv, TypeOK
<1>4. Untouched' /\ NotEmpty'
  BY <1>1 DEF IInv, Untouched, NotEmpty
<1>5. AsAsked'
  BY <1>0, <1>1 DEF AsAsked, NoDust, Offered
<1>6. BestIsEvaluated' /\ TriedAll' /\ MadeFromBest'
  BY DEF BestIsEvaluated, Incumbent, TriedAll, MadeFromBest, Planned
<1>7. SeenIsKnown' /\ AnytimeBest' /\ NoNodeTwice'
  BY <1>1 DEF SeenIsKnown, AnytimeBest, NoNodeTwice
<1> QED
  BY <1>0, <1>3, <1>4, <1>5, <1>6, <1>7 DEF IInv

(* smart_transparent narrows the candidates to one group of transparent    *)
(* notes.                                                                  *)
LEMMA PrepareShieldKeeps ==
  ASSUME IInv, NEW g \in SUBSET Offered, PrepareShield(g)
  PROVE  IInv'
<1> USE DEF PrepareShield
<1>0. /\ req' = req /\ req \in Requests
      /\ g \in SUBSET DOMAIN req.notes
      /\ NoDust(g) \subseteq DOMAIN req.notes
  BY PaymentAssumption DEF IInv, NoDust, Offered
<1>1. /\ node = {} /\ left = {} /\ heap = {} /\ visited = {}
      /\ plan = NoPlan /\ best = NoBest
  BY DEF IInv, Untouched
<1>2. /\ NoBest \in [notes: SUBSET cand', cost: Nat, fee: Nat, pool: Pool]
      /\ NoPlan \in [notes: SUBSET cand', change: Nat, fee: Nat, pool: Pool, paid: Nat]
  BY DEF NoBest, NoPlan, Pool
<1>3. Value(g, 0) \in Nat
  BY <1>0, PoolSumNat DEF Value, Pool
<1>4. first' \in [pool: Pool, amount: Nat]
  BY <1>3 DEF IInv, TypeOK
<1>5. /\ others' \in [Pool -> [count: Nat, value: Nat]]
      /\ \A p \in Pool : others'[p].value = 0
  BY DEF NoOthers
<1>6. TypeOK'
  BY <1>0, <1>1, <1>2, <1>4, <1>5 DEF IInv, TypeOK
<1>7. Untouched' /\ NotEmpty' /\ AsAsked'
  BY <1>0, <1>1, <1>5 DEF Untouched, NotEmpty, AsAsked
<1>8. BestIsEvaluated' /\ TriedAll' /\ MadeFromBest'
  BY DEF BestIsEvaluated, Incumbent, TriedAll, MadeFromBest, Planned
<1>9. SeenIsKnown' /\ AnytimeBest' /\ NoNodeTwice'
  BY <1>1 DEF SeenIsKnown, AnytimeBest, NoNodeTwice
<1> QED
  BY <1>0, <1>6, <1>7, <1>8, <1>9 DEF IInv

-----------------------------------------------------------------------------
(* The greedy baseline.                                                    *)

(* The search does not touch the request.                                  *)
LEMMA RequestStays ==
  ASSUME IInv, UNCHANGED request, phase # "prepare", phase' # "prepare"
  PROVE  (req \in Requests)' /\ AsAsked' /\ NotEmpty'
BY DEF request, IInv, AsAsked, NotEmpty, NoDust, Offered

(* The greedy baseline takes one more note.                                *)
LEMMA GreedyTakeKeeps ==
  ASSUME IInv, NEW i \in cand \ node, GreedyTake(i)
  PROVE  IInv'
<1> USE DEF GreedyTake
<1>1. UNCHANGED request /\ phase = "greedy" /\ phase' = "greedy"
  OBVIOUS
<1>2. /\ left = {} /\ heap = {} /\ visited = {}
      /\ plan = NoPlan /\ best = NoBest
  BY DEF IInv, Untouched
<1>3. TypeOK'
  BY <1>2 DEF IInv, TypeOK, request
<1>4. (req \in Requests)' /\ AsAsked' /\ NotEmpty'
  BY <1>1, RequestStays
<1>5. Untouched'
  BY <1>1, <1>2 DEF Untouched
<1>6. BestIsEvaluated' /\ TriedAll' /\ MadeFromBest'
  BY <1>1 DEF BestIsEvaluated, Incumbent, TriedAll, MadeFromBest, Planned
<1>7. SeenIsKnown' /\ AnytimeBest' /\ NoNodeTwice'
  BY <1>2 DEF SeenIsKnown, AnytimeBest, NoNodeTwice
<1> QED
  BY <1>3, <1>4, <1>5, <1>6, <1>7 DEF IInv

(* The greedy baseline has taken every note and none is enough.            *)
LEMMA GreedyRefusesKeeps == IInv /\ GreedyRefuses => IInv'
<1> SUFFICES ASSUME IInv, GreedyRefuses PROVE IInv'
  OBVIOUS
<1> USE DEF GreedyRefuses
<1>1. UNCHANGED request /\ phase = "greedy" /\ phase' = "refused"
  OBVIOUS
<1>2. /\ left = {} /\ heap = {} /\ visited = {}
      /\ plan = NoPlan /\ best = NoBest
  BY DEF IInv, Untouched
<1>3. TypeOK'
  BY DEF IInv, TypeOK, request
<1>4. (req \in Requests)' /\ AsAsked' /\ NotEmpty'
  BY <1>1, RequestStays
<1>5. Untouched' /\ BestIsEvaluated' /\ MadeFromBest'
  BY <1>1 DEF Untouched, BestIsEvaluated, Incumbent, MadeFromBest, Planned
<1>6. TriedAll'
  <2>1. node' = cand' /\ node' = node
    BY DEF request
  <2>2. \A S : FeasiblePools(S)' = FeasiblePools(S)
    BY <1>1, Frozen
  <2> QED
    BY <2>1, <2>2 DEF TriedAll
<1>7. SeenIsKnown' /\ AnytimeBest' /\ NoNodeTwice'
  BY <1>2 DEF SeenIsKnown, AnytimeBest, NoNodeTwice
<1> QED
  BY <1>3, <1>4, <1>5, <1>6, <1>7 DEF IInv

(* The greedy baseline finds the first incumbent.                          *)
LEMMA GreedyFindsKeeps ==
  ASSUME IInv, NEW x \in Options(node), GreedyFinds(x)
  PROVE  IInv'
<1> USE DEF GreedyFinds
<1>1. UNCHANGED request /\ phase = "greedy" /\ phase' = "search"
  OBVIOUS
<1>2. left = {} /\ heap = {} /\ visited = {} /\ plan = NoPlan
  BY DEF IInv, Untouched
<1>3. Typed
  BY IInvTyped
<1>4. x \in Choice /\ x.notes = node
  BY <1>3, OptionTypes DEF IInv, TypeOK
<1>5. LowerBound({}) \in Nat
  BY <1>3, Costs
<1> DEFINE root == [bound |-> LowerBound({}), seq |-> 0, notes |-> {}]
<1>6. /\ root.notes = {} /\ root.bound = LowerBound({})
      /\ root \in [bound: Nat, seq: 0 .. seq, notes: SUBSET cand]
  BY <1>5 DEF IInv, TypeOK
<1>7. heap' \subseteq {root}
  OBVIOUS
<1> HIDE DEF root
<1>8. TypeOK'
  BY <1>4, <1>6, <1>7 DEF IInv, TypeOK, request, Choice
<1>9. (req \in Requests)' /\ AsAsked' /\ NotEmpty'
  BY <1>1, RequestStays
<1>10. Untouched' /\ TriedAll' /\ MadeFromBest'
  BY <1>1 DEF Untouched, TriedAll, MadeFromBest, Planned
<1>11. BestIsEvaluated'
  <2>1. \A S : Options(S)' = Options(S)
    BY <1>1, Frozen
  <2>2. best' = x /\ IsEvaluation(x.notes, x)
    BY <1>4
  <2> QED
    BY <2>1, <2>2 DEF BestIsEvaluated, IsEvaluation
<1>12. SeenIsKnown'
  <2>1. \A S : LowerBound(S)' = LowerBound(S)
    BY <1>1, Frozen
  <2>2. visited' = {}
    BY <1>2
  <2>3. \A y \in heap' : y.notes = {} /\ y.bound = LowerBound({})
    BY <1>6, <1>7
  <2> QED
    BY <2>1, <2>2, <2>3 DEF SeenIsKnown
<1>13. AnytimeBest' /\ NoNodeTwice'
  BY <1>2, <1>7 DEF AnytimeBest, NoNodeTwice
<1> QED
  BY <1>8, <1>9, <1>10, <1>11, <1>12, <1>13 DEF IInv

-----------------------------------------------------------------------------
(* Branch and bound.                                                       *)

(* A step that takes from the queue or from the candidates, or ends the    *)
(* search.                                                                 *)
LEMMA QuietKeeps ==
  ASSUME IInv, UNCHANGED <<request, node, best, seen, seq, visited, plan>>,
         phase = "search", phase' \in {"search", "selected"},
         heap' \subseteq heap, left' \subseteq left
  PROVE  IInv'
<1>1. UNCHANGED request
  OBVIOUS
<1>2. TypeOK'
  BY DEF IInv, TypeOK, request
<1>3. (req \in Requests)' /\ AsAsked' /\ NotEmpty'
  BY <1>1, RequestStays
<1>4. Untouched' /\ TriedAll' /\ MadeFromBest'
  BY <1>1 DEF Untouched, TriedAll, MadeFromBest, Planned
<1>5. \A S : /\ Options(S)' = Options(S)
             /\ LowerBound(S)' = LowerBound(S)
             /\ StateKey(S)' = StateKey(S)
  BY <1>1, Frozen
<1>6. BestIsEvaluated'
  BY <1>5 DEF IInv, BestIsEvaluated, IsEvaluation, Incumbent
<1>7. SeenIsKnown'
  BY <1>5 DEF IInv, SeenIsKnown, Known
<1>8. AnytimeBest' /\ NoNodeTwice'
  BY <1>5 DEF IInv, AnytimeBest, NoNodeTwice, IsBetter
<1> QED
  BY <1>2, <1>3, <1>4, <1>6, <1>7, <1>8 DEF IInv

(* The incumbent is still the best of what was evaluated.                  *)
LEMMA VisitKeeps ==
  ASSUME IInv, NEW top \in heap, Visit(top)
  PROVE  IInv'
<1> USE DEF Visit
<1>1. UNCHANGED request /\ phase = "search" /\ phase' = "search"
  BY DEF Searching
<1>2. Typed
  BY IInvTyped
<1>3. top.notes \in SUBSET cand /\ heap' = heap \ {top}
  BY DEF IInv, TypeOK
<1>4. \A S : /\ Options(S)' = Options(S)
             /\ LowerBound(S)' = LowerBound(S)
             /\ StateKey(S)' = StateKey(S)
  BY <1>1, Frozen
<1>5. \A y \in Options(top.notes) : y \in Choice /\ y.notes = top.notes
  BY <1>2, <1>3, OptionTypes
<1>6. best \in Choice
  BY DEF IInv, TypeOK, Choice
<1>7. \/ FeasiblePools(top.notes) = {} /\ best' = best
      \/ \E x \in Options(top.notes) :
            /\ IsEvaluation(top.notes, x)
            /\ best' = IF IsBetter(x) THEN x ELSE best
  BY DEF Improve
<1>8. best' \in Choice
  BY <1>5, <1>6, <1>7
<1>9. left' \subseteq cand \ top.notes
  BY DEF Candidates
<1>10. TypeOK'
  <2>1. best' \in [notes: SUBSET cand', cost: Nat, fee: Nat, pool: Pool]
    BY <1>8, <1>1 DEF Choice, request
  <2> QED
    BY <2>1, <1>1, <1>3, <1>9 DEF IInv, TypeOK, request
<1>11. (req \in Requests)' /\ AsAsked' /\ NotEmpty'
  BY <1>1, RequestStays
<1>12. Untouched' /\ TriedAll' /\ MadeFromBest'
  BY <1>1 DEF Untouched, TriedAll, MadeFromBest, Planned
<1>13. IsEvaluation(best.notes, best)
  BY <1>1 DEF IInv, BestIsEvaluated, Incumbent
<1>14. BestIsEvaluated'
  <2>1. \A S, x : IsEvaluation(S, x)' <=> IsEvaluation(S, x)
    BY <1>4 DEF IsEvaluation
  <2>2. \E b : best' = b /\ IsEvaluation(b.notes, b)
    BY <1>5, <1>7, <1>13
  <2>3. PICK b : best' = b /\ IsEvaluation(b.notes, b)
    BY <2>2
  <2>4. IsEvaluation(b.notes, b)'
    BY <2>1, <2>3
  <2> QED
    BY <2>3, <2>4 DEF BestIsEvaluated, IsEvaluation
<1>15. SeenIsKnown'
  <2>1. top.notes # {} => Known(top.notes)
    BY DEF IInv, SeenIsKnown
  <2> QED
    BY <2>1, <1>4 DEF IInv, SeenIsKnown, Known
<1>16. NoNodeTwice'
  BY <1>3 DEF IInv, NoNodeTwice
<1>17. AnytimeBest'
  <2>1. SUFFICES ASSUME NEW S \in visited', NEW y \in Options(S)
                 PROVE  ~LexLess(y.cost, y.fee, best'.cost, best'.fee)
    BY <1>4 DEF AnytimeBest, IsBetter
  <2>2. /\ best.cost \in Nat /\ best.fee \in Nat
        /\ best'.cost \in Nat /\ best'.fee \in Nat
    BY <1>6, <1>8 DEF Choice
  <2>3. S \in SUBSET cand
    BY <1>3 DEF IInv, TypeOK
  <2>4. y.cost \in Nat /\ y.fee \in Nat
    BY <2>3, <1>2, OptionTypes DEF Choice
  <2>5. \/ best' = best
        \/ LexLess(best'.cost, best'.fee, best.cost, best.fee)
    BY <1>7 DEF IsBetter
  <2>6. CASE S \in visited
    <3>1. ~LexLess(y.cost, y.fee, best.cost, best.fee)
      BY <2>6 DEF IInv, AnytimeBest, IsBetter
    <3> QED
      BY <3>1, <2>2, <2>4, <2>5 DEF LexLess
  <2>7. CASE S = top.notes
    <3>1. FeasiblePools(top.notes) # {}
      BY <2>7 DEF Options
    <3>2. PICK x \in Options(top.notes) :
             /\ IsEvaluation(top.notes, x)
             /\ best' = IF IsBetter(x) THEN x ELSE best
      BY <3>1, <1>7
    <3>3. x.cost \in Nat /\ x.fee \in Nat
      BY <1>5 DEF Choice
    <3>4. ~LexLess(y.cost, y.fee, x.cost, x.fee)
      <4>1. CASE y = x
        BY <4>1, <3>3 DEF LexLess
      <4>2. CASE y # x
        BY <4>2, <2>7, <3>2, <3>3, <2>4 DEF IsEvaluation, LexLess
      <4> QED
        BY <4>1, <4>2
    <3>5. ~LexLess(x.cost, x.fee, best'.cost, best'.fee)
      BY <3>2, <3>3, <2>2 DEF IsBetter, LexLess
    <3> QED
      BY <3>3, <3>4, <3>5, <2>2, <2>4 DEF LexLess
  <2> QED
    BY <2>6, <2>7
<1> QED
  BY <1>10, <1>11, <1>12, <1>14, <1>15, <1>16, <1>17 DEF IInv

(* What is queued is new: its key has no bound as low in seen.             *)
LEMMA PushChildKeeps ==
  ASSUME IInv, NEW c \in left, PushChild(c)
  PROVE  IInv'
<1> DEFINE S == node \cup {c}
           key == StateKey(S)
           b == LowerBound(S)
           item == [bound |-> b, seq |-> seq + 1, notes |-> S]
<1>1. /\ UNCHANGED request /\ phase = "search" /\ phase' = "search"
      /\ UNCHANGED <<node, best, visited, plan>>
      /\ ~Dominated(S)
      /\ seen' = [k \in DOMAIN seen \cup {key} |-> IF k = key THEN b ELSE seen[k]]
      /\ seq' = seq + 1
      /\ heap' = heap \cup {item}
      /\ left' = left \ {c}
  BY DEF PushChild
<1>2. S \in SUBSET cand /\ S # {}
  BY DEF IInv, TypeOK
<1>3. b \in Nat /\ \A T \in SUBSET cand : LowerBound(T) \in Nat
  BY <1>2, IInvTyped, Costs
<1>4. seq \in Nat
  BY DEF IInv, TypeOK
<1>5. /\ item.notes = S /\ item.bound = b
      /\ item \in [bound: Nat, seq: 0 .. (seq + 1), notes: SUBSET cand]
  BY <1>2, <1>3, <1>4
<1> HIDE DEF item
<1>6. \A T : /\ Options(T)' = Options(T)
             /\ LowerBound(T)' = LowerBound(T)
             /\ StateKey(T)' = StateKey(T)
  BY <1>1, Frozen
<1>7. TypeOK'
  <2>1. \A k \in DOMAIN seen' : seen'[k] \in Nat
    BY <1>1, <1>3 DEF IInv, TypeOK
  <2>2. heap' \subseteq [bound: Nat, seq: 0 .. seq', notes: SUBSET cand']
    BY <1>1, <1>4, <1>5 DEF IInv, TypeOK, request
  <2>3. cand' = cand /\ req' = req /\ first' = first /\ others' = others /\ pays' = pays
    BY <1>1 DEF request
  <2>4. seq' \in Nat
    BY <1>1, <1>4
  <2> HIDE DEF S, key, b
  <2> QED
    BY <2>1, <2>2, <2>3, <2>4, <1>1 DEF IInv, TypeOK
<1>8. (req \in Requests)' /\ AsAsked' /\ NotEmpty'
  BY <1>1, RequestStays
<1>9. Untouched' /\ TriedAll' /\ MadeFromBest'
  BY <1>1 DEF Untouched, TriedAll, MadeFromBest, Planned
<1>10. BestIsEvaluated'
  BY <1>1, <1>6 DEF IInv, BestIsEvaluated, IsEvaluation, Incumbent
<1>11. ASSUME NEW T \in SUBSET cand, Known(T)
       PROVE  Known(T)'
  <2>1. StateKey(T) \in DOMAIN seen' /\ StateKey(T) \in DOMAIN seen
    BY <1>1, <1>11 DEF Known
  <2>2. CASE StateKey(T) = key
    <3>1. seen[key] \in Nat /\ seen[key] <= LowerBound(T) /\ LowerBound(T) \in Nat
      BY <2>1, <2>2, <1>3, <1>11 DEF Known, IInv, TypeOK
    <3>2. ~(seen[key] <= b)
      BY <1>1, <2>1, <2>2 DEF Dominated
    <3>3. seen'[StateKey(T)] = b
      BY <1>1, <2>1, <2>2
    <3>4. b <= LowerBound(T)
      BY <3>1, <3>2, <1>3
    <3> QED
      BY <3>3, <3>4, <2>1, <1>6 DEF Known
  <2>3. CASE StateKey(T) # key
    <3>1. seen'[StateKey(T)] = seen[StateKey(T)]
      BY <1>1, <2>1, <2>3
    <3> QED
      BY <3>1, <2>1, <1>6, <1>11 DEF Known
  <2> QED
    BY <2>2, <2>3
<1>12. ASSUME NEW T, T = S
       PROVE  Known(T)'
  <2>1. StateKey(T) = key /\ LowerBound(T) = b
    BY <1>12
  <2>2. StateKey(T) \in DOMAIN seen' /\ seen'[StateKey(T)] = b
    BY <1>1, <2>1
  <2> QED
    BY <2>1, <2>2, <1>3, <1>6 DEF Known
<1>13. SeenIsKnown'
  <2>1. \A x \in heap' : x.bound = LowerBound(x.notes)
    BY <1>1, <1>5 DEF IInv, SeenIsKnown
  <2>2. \A x \in heap' : x.notes # {} => Known(x.notes)'
    <3> SUFFICES ASSUME NEW x \in heap', x.notes # {}
                 PROVE  Known(x.notes)'
      OBVIOUS
    <3>1. CASE x = item
      BY <3>1, <1>5, <1>12
    <3>2. CASE x \in heap
      <4>1. x.notes \in SUBSET cand /\ Known(x.notes)
        BY <3>2 DEF IInv, TypeOK, SeenIsKnown
      <4> QED
        BY <4>1, <1>11
    <3> QED
      BY <3>1, <3>2, <1>1
  <2>3. \A T \in visited : T # {} => Known(T)'
    <3> SUFFICES ASSUME NEW T \in visited, T # {}
                 PROVE  Known(T)'
      OBVIOUS
    <3>1. T \in SUBSET cand /\ Known(T)
      BY DEF IInv, TypeOK, SeenIsKnown
    <3> QED
      BY <3>1, <1>11
  <2>4. visited' = visited
    BY <1>1
  <2> HIDE DEF S, key, b
  <2> QED
    BY <2>1, <2>2, <2>3, <2>4, <1>6 DEF SeenIsKnown
<1>14. NoNodeTwice'
  <2>1. ~Known(S)
    BY <1>1 DEF Dominated, Known
  <2>2. S \notin visited
    BY <2>1, <1>2 DEF IInv, SeenIsKnown
  <2>3. \A x \in heap : x.notes # S
    BY <2>1, <1>2 DEF IInv, SeenIsKnown
  <2> HIDE DEF S, key, b
  <2> QED
    BY <2>2, <2>3, <1>1, <1>5 DEF IInv, NoNodeTwice
<1>15. AnytimeBest'
  BY <1>1, <1>6 DEF IInv, AnytimeBest, IsBetter
<1> QED
  BY <1>7, <1>8, <1>9, <1>10, <1>13, <1>14, <1>15 DEF IInv

-----------------------------------------------------------------------------
(* The transaction.                                                        *)

(* The transaction made from the incumbent has amounts that are natural    *)
(* numbers.                                                                *)
LEMMA PlanTypes ==
  ASSUME IInv
  PROVE  PlanOf(best) \in [notes: SUBSET cand, change: Nat, fee: Nat, pool: Pool,
                           paid: Nat]
<1>1. Typed
  BY IInvTyped
<1>2. /\ best.notes \in SUBSET cand /\ best.fee \in Nat /\ best.pool \in Pool
      /\ first.amount \in Nat
  BY DEF IInv, TypeOK
<1>3. InSum(best.notes) \in Nat /\ OutSum \in Nat
  BY <1>1, <1>2, PoolSums, Outs
<1> DEFINE paid == IF pays THEN Less(first.amount, best.fee) ELSE first.amount
           total == OutSum - first.amount + paid
<1>4. paid \in Nat
  BY <1>2 DEF Less, MaxOf
<1>5. Less(InSum(best.notes), total + best.fee) \in Nat
  BY <1>2, <1>3, <1>4 DEF Less, MaxOf
<1>6. PlanOf(best) = [notes |-> best.notes, fee |-> best.fee, pool |-> best.pool,
                      paid |-> paid,
                      change |-> Less(InSum(best.notes), total + best.fee)]
  BY DEF PlanOf
<1> HIDE DEF paid, total
<1> QED
  BY <1>2, <1>4, <1>5, <1>6

(* plan_transaction turns the incumbent into the plan.                     *)
LEMMA BuildKeeps == IInv /\ Build => IInv'
<1> SUFFICES ASSUME IInv, Build PROVE IInv'
  OBVIOUS
<1>1. /\ UNCHANGED <<request, node, left, best, heap, seen, seq, visited>>
      /\ phase = "selected" /\ plan' = PlanOf(best)
      /\ phase' = IF BuilderAccepts(plan') THEN "built" ELSE "unbalanced"
  BY DEF Build
<1>2. UNCHANGED request /\ phase' \in {"built", "unbalanced"}
  BY <1>1
<1>3. TypeOK'
  BY <1>1, <1>2, PlanTypes DEF IInv, TypeOK, request
<1>4. (req \in Requests)' /\ AsAsked' /\ NotEmpty'
  BY <1>1, <1>2, RequestStays
<1>5. Untouched' /\ TriedAll'
  BY <1>2 DEF Untouched, TriedAll
<1>6. \A S : /\ Options(S)' = Options(S)
             /\ LowerBound(S)' = LowerBound(S)
             /\ StateKey(S)' = StateKey(S)
  BY <1>2, Frozen
<1>7. BestIsEvaluated'
  BY <1>1, <1>6 DEF IInv, BestIsEvaluated, IsEvaluation, Incumbent
<1>8. SeenIsKnown'
  BY <1>1, <1>6 DEF IInv, SeenIsKnown, Known
<1>9. AnytimeBest' /\ NoNodeTwice'
  BY <1>1, <1>6 DEF IInv, AnytimeBest, NoNodeTwice, IsBetter
<1>10. MadeFromBest'
  <2>1. /\ \A z : PlanOf(z)' = PlanOf(z)
        /\ \A pl : BuilderAccepts(pl)' <=> BuilderAccepts(pl)
    BY <1>2, Frozen
  <2>2. best' = best
    BY <1>1
  <2>3. plan' = PlanOf(best)'
    BY <1>1, <2>1, <2>2
  <2>4. BuilderAccepts(plan)' <=> BuilderAccepts(plan')
    BY <2>1
  <2> QED
    BY <1>1, <2>3, <2>4 DEF MadeFromBest
<1> QED
  BY <1>3, <1>4, <1>5, <1>7, <1>8, <1>9, <1>10 DEF IInv

-----------------------------------------------------------------------------
(* Preparation, search and construction keep IInv.                         *)
LEMMA Invariant == Spec => []IInv
<1>1. IInv /\ [Next]_vars => IInv'
  <2> SUFFICES ASSUME IInv, [Next]_vars
               PROVE  IInv'
    OBVIOUS
  <2>1. CASE PrepareSend
    BY <2>1, PrepareSendKeeps
  <2>2. ASSUME NEW g \in (IF Groups = {} THEN {{}} ELSE Groups), PrepareShield(g)
        PROVE  IInv'
    <3>1. g \in SUBSET Offered
      BY DEF Groups
    <3> QED
      BY <2>2, <3>1, PrepareShieldKeeps
  <2>3. ASSUME NEW i \in cand \ node, GreedyTake(i)
        PROVE  IInv'
    BY <2>3, GreedyTakeKeeps
  <2>4. CASE GreedyRefuses
    BY <2>4, GreedyRefusesKeeps
  <2>5. ASSUME NEW x \in Options(node), GreedyFinds(x)
        PROVE  IInv'
    BY <2>5, GreedyFindsKeeps
  <2>6. CASE CutOff
    BY <2>6, QuietKeeps DEF CutOff, Searching
  <2>7. ASSUME NEW top \in heap, Prune(top)
        PROVE  IInv'
    BY <2>7, QuietKeeps DEF Prune, Searching
  <2>8. ASSUME NEW top \in heap, Visit(top)
        PROVE  IInv'
    BY <2>8, VisitKeeps
  <2>9. ASSUME NEW c \in left, SkipChild(c)
        PROVE  IInv'
    BY <2>9, QuietKeeps DEF SkipChild
  <2>10. ASSUME NEW c \in left, PushChild(c)
         PROVE  IInv'
    BY <2>10, PushChildKeeps
  <2>11. CASE Exhaust
    BY <2>11, QuietKeeps DEF Exhaust
  <2>12. CASE Build
    BY <2>12, BuildKeeps
  <2>13. CASE UNCHANGED vars
    <3>1. UNCHANGED request /\ UNCHANGED vars
      BY <2>13 DEF vars, request
    <3>2. /\ \A S : /\ Options(S)' = Options(S)
                    /\ FeasiblePools(S)' = FeasiblePools(S)
                    /\ LowerBound(S)' = LowerBound(S)
                    /\ StateKey(S)' = StateKey(S)
          /\ \A z : PlanOf(z)' = PlanOf(z)
          /\ \A pl : BuilderAccepts(pl)' <=> BuilderAccepts(pl)
      BY <3>1, Frozen
    <3>3. (req \in Requests)' /\ TypeOK' /\ Untouched' /\ AsAsked' /\ NotEmpty'
      BY <3>1 DEF vars, IInv, TypeOK, Untouched, AsAsked, NotEmpty, NoDust, Offered
    <3>4. BestIsEvaluated' /\ TriedAll'
      BY <3>1, <3>2 DEF vars, IInv, BestIsEvaluated, IsEvaluation, Incumbent, TriedAll
    <3>5. SeenIsKnown' /\ AnytimeBest' /\ NoNodeTwice'
      BY <3>1, <3>2 DEF vars, IInv, SeenIsKnown, Known, AnytimeBest, IsBetter, NoNodeTwice
    <3>6. MadeFromBest'
      <4>1. best' = best /\ plan' = plan /\ phase' = phase
        BY <3>1 DEF vars
      <4>2. PlanOf(best)' = PlanOf(best)
        BY <4>1, <3>2
      <4>3. BuilderAccepts(plan)' <=> BuilderAccepts(plan)
        BY <4>1, <3>2
      <4> QED
        BY <4>1, <4>2, <4>3 DEF IInv, MadeFromBest, Planned
    <3> QED
      BY <3>3, <3>4, <3>5, <3>6 DEF IInv
  <2> QED
    BY <2>1, <2>2, <2>3, <2>4, <2>5, <2>6, <2>7, <2>8, <2>9, <2>10, <2>11, <2>12,
       <2>13 DEF Next, Prepare, Greedy, Search
<1> QED
  BY <1>1, InitIInv, PTL DEF Spec

(* Every state of the planner has its type: the bounds and costs of        *)
(* solve.rs are never negative and what is queued, selected and planned is *)
(* made of candidates.                                                     *)
THEOREM PaymentTypeCorrect == Spec => []TypeOK
<1>1. IInv => TypeOK
  BY DEF IInv
<1> QED
  BY <1>1, Invariant, PTL

(* The search of select_notes is anytime: wherever the budget cuts it off, *)
(* no selection evaluated so far beats the incumbent.                      *)
THEOREM SearchIsAnytime == Spec => []AnytimeBest
<1>1. IInv => AnytimeBest
  BY DEF IInv
<1> QED
  BY <1>1, Invariant, PTL

(* The seen map of select_notes keeps a selection from being queued or     *)
(* evaluated twice, although several orders of its notes lead to it.       *)
THEOREM EvaluatedOnce == Spec => []NoNodeTwice
<1>1. IInv => NoNodeTwice
  BY DEF IInv
<1> QED
  BY <1>1, Invariant, PTL

-----------------------------------------------------------------------------
(* What a plan is.                                                         *)

(* What a plan is: its fee, its change and its pool are those of the notes *)
(* it spends.                                                              *)
LEMMA PlanIs ==
  ASSUME IInv, Planned
  PROVE  /\ plan.notes \in SUBSET cand /\ plan.pool \in Pool
         /\ plan.pool \in FeasiblePools(plan.notes)
         /\ plan.fee = Fee(plan.notes, plan.pool)
         /\ plan.paid \in Nat /\ plan.change \in Nat
         /\ plan.paid = first.amount - (IF pays THEN plan.fee ELSE 0)
         /\ InSum(plan.notes)
              = OutSum - first.amount + plan.paid + plan.fee + plan.change
         /\ plan.notes = best.notes /\ plan.pool = best.pool
<1>1. Typed
  BY IInvTyped
<1>2. IsEvaluation(best.notes, best)
  BY DEF IInv, BestIsEvaluated, Planned, Incumbent
<1>3. best.notes \in SUBSET cand /\ best.pool \in Pool /\ best.fee \in Nat
  BY DEF IInv, TypeOK
<1>4. best.pool \in FeasiblePools(best.notes) /\ best.fee = Fee(best.notes, best.pool)
  BY <1>1, <1>2, <1>3, OptionTypes DEF IsEvaluation
<1>5. /\ pays => best.fee <= first.amount
      /\ InSum(best.notes) >= IF pays THEN OutSum ELSE OutSum + best.fee
  BY <1>4 DEF FeasiblePools, Needed
<1>6. InSum(best.notes) \in Nat /\ OutSum \in Nat /\ first.amount \in Nat
  BY <1>1, <1>3, PoolSums, Outs DEF Typed
<1> DEFINE paid == IF pays THEN Less(first.amount, best.fee) ELSE first.amount
           total == OutSum - first.amount + paid
           change == Less(InSum(best.notes), total + best.fee)
<1>7. paid \in Nat /\ paid = first.amount - (IF pays THEN best.fee ELSE 0)
  BY <1>3, <1>5, <1>6 DEF Less, MaxOf
<1>8. change \in Nat /\ InSum(best.notes) = total + best.fee + change
  BY <1>3, <1>5, <1>6, <1>7 DEF Less, MaxOf
<1>9. PlanOf(best) = [notes |-> best.notes, fee |-> best.fee, pool |-> best.pool,
                      paid |-> paid, change |-> change]
  BY DEF PlanOf
<1>10. plan = PlanOf(best)
  BY DEF IInv, MadeFromBest
<1>11. /\ plan.notes = best.notes /\ plan.fee = best.fee /\ plan.pool = best.pool
       /\ plan.paid = paid /\ plan.change = change
  BY <1>9, <1>10
<1>12. InSum(best.notes) = OutSum - first.amount + paid + best.fee + change
  BY <1>8
<1> HIDE DEF paid, total, change
<1> QED
  BY <1>3, <1>4, <1>7, <1>8, <1>11, <1>12

(* plan_transaction balances: no saturating subtraction of it saturates.   *)
THEOREM PlanBalances == Spec => []Balanced
<1>1. IInv => Balanced
  BY PlanIs DEF Balanced
<1> QED
  BY <1>1, Invariant, PTL

(* The builder asks more than FeeManager for the outputs it was given when *)
(* the two count the Orchard bundle differently, and else the same.        *)
LEMMA BuilderCounts ==
  ASSUME NEW pl, req \in Requests,
         NIn(pl.notes) \in [Pool -> Nat], BuiltOut(pl) \in [Pool -> Nat]
  PROVE  /\ BuilderFee(pl) \in Nat
         /\ FeeFor(NIn(pl.notes), BuiltOut(pl)) \in Nat
         /\ ~OrchardShort(pl) => BuilderFee(pl) = FeeFor(NIn(pl.notes), BuiltOut(pl))
         /\ OrchardShort(pl) => BuilderFee(pl) > FeeFor(NIn(pl.notes), BuiltOut(pl))
<1>1. PICK i : i = NIn(pl.notes)
  OBVIOUS
<1>2. PICK o : o = BuiltOut(pl)
  OBVIOUS
<1>3. /\ i[0] \in Nat /\ i[1] \in Nat /\ i[2] \in Nat /\ i[3] \in Nat
      /\ o[0] \in Nat /\ o[1] \in Nat /\ o[2] \in Nat /\ o[3] \in Nat
  BY <1>1, <1>2 DEF Pool
<1>4. req.migration => req.ironwood
  BY PaymentAssumption
<1>5. OrchardShort(pl)
        <=> req.ironwood /\ ~req.migration /\ i[2] > 0 /\ o[2] > 0 /\ i[2] + o[2] > 2
  BY <1>1, <1>2 DEF OrchardShort
<1>6. /\ OrchardActions(i[2], o[2]) \in Nat
      /\ ~OrchardShort(pl) => OrchardActions(i[2], o[2]) = OrchardBundle(i[2], o[2])
      /\ OrchardShort(pl) => /\ OrchardActions(i[2], o[2]) > OrchardBundle(i[2], o[2])
                             /\ OrchardActions(i[2], o[2]) > 2
  BY <1>3, <1>4, <1>5 DEF OrchardActions, OrchardBundle, Bundle, MaxOf
<1>7. PICK t : t = MaxOf(i[0], o[0])
  OBVIOUS
<1>8. PICK s : s = Bundle(i[1], o[1])
  OBVIOUS
<1>9. PICK w : w = Bundle(i[3], o[3])
  OBVIOUS
<1>10. PICK b : b = OrchardActions(i[2], o[2])
  OBVIOUS
<1>11. PICK f : f = OrchardBundle(i[2], o[2])
  OBVIOUS
<1>12. /\ t \in Nat /\ s \in Nat /\ w \in Nat /\ f \in Nat
  BY <1>3, <1>7, <1>8, <1>9, <1>11 DEF MaxOf, Bundle, OrchardBundle
<1>13. /\ b \in Nat
       /\ ~OrchardShort(pl) => b = f
       /\ OrchardShort(pl) => b > f /\ b > 2
  BY <1>6, <1>10, <1>11
<1>14. /\ BuilderFee(pl) = FUnit * MaxOf(t + s + b + w, 2)
       /\ FeeFor(i, o) = FUnit * MaxOf(t + s + f + w, 2)
  BY <1>1, <1>2, <1>7, <1>8, <1>9, <1>10, <1>11 DEF BuilderFee, FeeFor
<1>15. /\ MaxOf(t + s + b + w, 2) \in Nat /\ MaxOf(t + s + f + w, 2) \in Nat
       /\ OrchardShort(pl) => MaxOf(t + s + b + w, 2) > MaxOf(t + s + f + w, 2)
  BY <1>12, <1>13 DEF MaxOf
<1>16. \A x, y \in Nat : FUnit * x \in Nat /\ (x > y => FUnit * x > FUnit * y)
  BY PaymentAssumption
<1>17. CASE OrchardShort(pl)
  BY <1>1, <1>2, <1>14, <1>15, <1>16, <1>17
<1>18. CASE ~OrchardShort(pl)
  BY <1>1, <1>2, <1>13, <1>14, <1>15, <1>16, <1>18
<1> QED
  BY <1>17, <1>18

(* The fee settled by select_notes is short of the builder's only for an   *)
(* ordinary payment after NU6.3 that joins Orchard spends and outputs; a   *)
(* payment with change and no empty output is built in all other cases.    *)
THEOREM FeeIsRight == Spec => []FeeIsTheBuilders
<1>1. IInv => FeeIsTheBuilders
  <2> SUFFICES ASSUME IInv, Planned
               PROVE  /\ ~OrchardShort(plan) => BuilderFee(plan) <= plan.fee
                      /\ plan.change > 0 /\ plan.paid > 0
                            => (phase = "built" <=> ~OrchardShort(plan))
    BY DEF FeeIsTheBuilders
  <2>1. /\ plan.notes \in SUBSET cand /\ plan.pool \in Pool
        /\ plan.fee = Fee(plan.notes, plan.pool)
        /\ plan.paid \in Nat /\ plan.change \in Nat
        /\ InSum(plan.notes)
              = OutSum - first.amount + plan.paid + plan.fee + plan.change
    BY PlanIs
  <2>2. Typed
    BY IInvTyped
  <2> DEFINE asked == [NOut EXCEPT ![plan.pool] = @ + 1]
             given == BuiltOut(plan)
  <2>3. NIn(plan.notes) \in [Pool -> Nat] /\ NOut \in [Pool -> Nat]
    BY <2>1, <2>2, PoolSums, Outs
  <2>4. asked \in [Pool -> Nat]
    BY <2>1, <2>3
  <2>5. \A p \in Pool : others[p].count \in Nat
    BY <2>2 DEF Typed
  <2>6. given \in [Pool -> Nat]
    BY <2>5 DEF BuiltOut
  <2>7. \A p \in Pool :
          asked[p] = others[p].count + (IF first.pool = p THEN 1 ELSE 0)
                     + (IF plan.pool = p THEN 1 ELSE 0)
    BY <2>1, <2>3, <2>5 DEF NOut
  <2>8. \A p \in Pool :
          given[p] = others[p].count
                     + (IF first.pool = p /\ (p # 0 \/ plan.paid > 0) THEN 1 ELSE 0)
                     + (IF plan.pool = p /\ plan.change > 0 THEN 1 ELSE 0)
    BY DEF BuiltOut
  <2> HIDE DEF asked, given
  <2>9. \A p \in Pool : given[p] <= asked[p]
    BY <2>5, <2>7, <2>8
  <2>10. plan.fee = FeeFor(NIn(plan.notes), asked)
    BY <2>1 DEF Fee, asked
  <2>11. /\ BuilderFee(plan) \in Nat /\ FeeFor(NIn(plan.notes), given) \in Nat
         /\ ~OrchardShort(plan) => BuilderFee(plan) = FeeFor(NIn(plan.notes), given)
         /\ OrchardShort(plan) => BuilderFee(plan) > FeeFor(NIn(plan.notes), given)
    BY <2>3, <2>6, BuilderCounts DEF given, IInv
  <2>12. ASSUME ~OrchardShort(plan)
         PROVE  BuilderFee(plan) <= plan.fee
    BY <2>3, <2>4, <2>6, <2>9, <2>10, <2>11, <2>12, FeeGrows
  <2>13. ASSUME plan.change > 0, plan.paid > 0
         PROVE  phase = "built" <=> ~OrchardShort(plan)
    <3>1. \A p \in Pool : given[p] = asked[p]
      BY <2>5, <2>7, <2>8, <2>13
    <3>2. given = asked
      BY <3>1, <2>4, <2>6
    <3>3. /\ ~OrchardShort(plan) => BuilderFee(plan) = plan.fee
          /\ OrchardShort(plan) => BuilderFee(plan) > plan.fee
      BY <3>2, <2>10, <2>11
    <3>4. plan.fee \in Nat /\ OutSum \in Nat /\ first.amount \in Nat
      BY <2>1, <2>2, Fees, Outs DEF Typed
    <3>5. BuilderAccepts(plan) <=> BuilderFee(plan) = plan.fee
      BY <3>4, <2>1, <2>11 DEF BuilderAccepts
    <3>6. phase = "built" <=> BuilderAccepts(plan)
      BY DEF IInv, MadeFromBest, Planned
    <3> QED
      BY <3>3, <3>4, <3>5, <3>6, <2>11
  <2> QED
    BY <2>12, <2>13
<1> QED
  BY <1>1, Invariant, PTL

-----------------------------------------------------------------------------
(* Change in a pool the transaction does not touch costs two actions more  *)
(* than none; transparent change costs one.                                *)
LEMMA UnusedPoolCosts ==
  ASSUME NEW ins \in [Pool -> Nat], NEW outs \in [Pool -> Nat],
         NEW cp \in Shielded, ins[cp] = 0, outs[cp] = 0
  PROVE  FeeFor(ins, [outs EXCEPT ![0] = @ + 1])
            <= FeeFor(ins, [outs EXCEPT ![cp] = @ + 1])
<1> DEFINE t == [outs EXCEPT ![0] = @ + 1]
           u == [outs EXCEPT ![cp] = @ + 1]
<1>1. t \in [Pool -> Nat] /\ u \in [Pool -> Nat]
  BY DEF Pool, Shielded
<1>2. /\ ins[0] \in Nat /\ ins[1] \in Nat /\ ins[2] \in Nat /\ ins[3] \in Nat
      /\ outs[0] \in Nat /\ outs[1] \in Nat /\ outs[2] \in Nat /\ outs[3] \in Nat
  BY DEF Pool
<1>3. /\ t[0] = outs[0] + 1 /\ t[1] = outs[1] /\ t[2] = outs[2] /\ t[3] = outs[3]
      /\ u[0] = outs[0]
      /\ u[1] = outs[1] + (IF cp = 1 THEN 1 ELSE 0)
      /\ u[2] = outs[2] + (IF cp = 2 THEN 1 ELSE 0)
      /\ u[3] = outs[3] + (IF cp = 3 THEN 1 ELSE 0)
  BY <1>2 DEF Pool, Shielded
<1> HIDE DEF t, u
<1>4. \A i, o \in Nat : Bundle(i, o) \in Nat /\ OrchardBundle(i, o) \in Nat
  BY DEF Bundle, OrchardBundle, MaxOf
<1>5. /\ Bundle(0, 0) = 0 /\ Bundle(0, 1) = 2
      /\ OrchardBundle(0, 0) = 0 /\ OrchardBundle(0, 1) = 2
  BY DEF Bundle, OrchardBundle, MaxOf
<1> DEFINE A(o) == MaxOf(ins[0], o[0])
           B(o) == Bundle(ins[1], o[1])
           C(o) == OrchardBundle(ins[2], o[2])
           D(o) == Bundle(ins[3], o[3])
<1>6. A(t) \in Nat /\ A(u) \in Nat /\ A(t) <= A(u) + 1
  BY <1>2, <1>3 DEF MaxOf
<1>7. B(t) \in Nat /\ B(u) \in Nat /\ B(u) = B(t) + (IF cp = 1 THEN 2 ELSE 0)
  <2>1. B(t) \in Nat /\ B(u) \in Nat
    <3>1. t[1] \in Nat /\ u[1] \in Nat
      BY <1>1 DEF Pool
    <3> QED
      BY <3>1, <1>2, <1>4
  <2>2. CASE cp = 1
    <3>1. ins[1] = 0 /\ t[1] = 0 /\ u[1] = 1
      BY <1>3, <2>2
    <3>2. B(t) = 0 /\ B(u) = 2
      BY <3>1, <1>5
    <3> QED
      BY <3>2, <2>2
  <2>3. CASE cp # 1
    <3>1. u[1] = t[1]
      BY <1>2, <1>3, <2>3
    <3> QED
      BY <3>1, <2>1, <2>3
  <2> QED
    BY <2>2, <2>3
<1>8. C(t) \in Nat /\ C(u) \in Nat /\ C(u) = C(t) + (IF cp = 2 THEN 2 ELSE 0)
  <2>1. C(t) \in Nat /\ C(u) \in Nat
    <3>1. t[2] \in Nat /\ u[2] \in Nat
      BY <1>1 DEF Pool
    <3> QED
      BY <3>1, <1>2, <1>4
  <2>2. CASE cp = 2
    <3>1. ins[2] = 0 /\ t[2] = 0 /\ u[2] = 1
      BY <1>3, <2>2
    <3>2. C(t) = 0 /\ C(u) = 2
      BY <3>1, <1>5
    <3> QED
      BY <3>2, <2>2
  <2>3. CASE cp # 2
    <3>1. u[2] = t[2]
      BY <1>2, <1>3, <2>3
    <3> QED
      BY <3>1, <2>1, <2>3
  <2> QED
    BY <2>2, <2>3
<1>9. D(t) \in Nat /\ D(u) \in Nat /\ D(u) = D(t) + (IF cp = 3 THEN 2 ELSE 0)
  <2>1. D(t) \in Nat /\ D(u) \in Nat
    <3>1. t[3] \in Nat /\ u[3] \in Nat
      BY <1>1 DEF Pool
    <3> QED
      BY <3>1, <1>2, <1>4
  <2>2. CASE cp = 3
    <3>1. ins[3] = 0 /\ t[3] = 0 /\ u[3] = 1
      BY <1>3, <2>2
    <3>2. D(t) = 0 /\ D(u) = 2
      BY <3>1, <1>5
    <3> QED
      BY <3>2, <2>2
  <2>3. CASE cp # 3
    <3>1. u[3] = t[3]
      BY <1>2, <1>3, <2>3
    <3> QED
      BY <3>1, <2>1, <2>3
  <2> QED
    BY <2>2, <2>3
<1>10. /\ Actions(ins, t) = MaxOf(A(t) + B(t) + C(t) + D(t), 2)
       /\ Actions(ins, u) = MaxOf(A(u) + B(u) + C(u) + D(u), 2)
  BY DEF Actions
<1> HIDE DEF A, B, C, D
<1>11. Actions(ins, t) <= Actions(ins, u)
  BY <1>6, <1>7, <1>8, <1>9, <1>10 DEF MaxOf, Shielded
<1>12. FeeFor(ins, t) <= FeeFor(ins, u)
  BY <1>1, <1>11, FeeActions, Times
<1> QED
  BY <1>12 DEF t, u

(* The change of a planned transaction never opens a shielded pool of its  *)
(* own: transparent change, tried first by evaluate_privacy, is never      *)
(* worse than that.                                                        *)
THEOREM ChangeOpensNoPool == Spec => []ChangePoolIsUsed
<1>1. IInv => ChangePoolIsUsed
  <2> SUFFICES ASSUME IInv, Planned, plan.pool # 0,
                      ~(NIn(plan.notes)[plan.pool] > 0), ~(NOut[plan.pool] > 0)
               PROVE  FALSE
    BY DEF ChangePoolIsUsed
  <2> DEFINE S == plan.notes
             cp == plan.pool
  <2>1. /\ S \in SUBSET cand /\ cp \in Pool /\ cp \in Shielded
        /\ cp \in FeasiblePools(S)
        /\ S = best.notes /\ cp = best.pool
    BY PlanIs DEF Pool, Shielded
  <2>2. Typed
    BY IInvTyped
  <2>3. IsEvaluation(S, best)
    BY <2>1 DEF IInv, BestIsEvaluated, Planned, Incumbent
  <2>4. best.fee = Fee(S, cp) /\ best.cost = Turnstile(S, cp)
    BY <2>1, <2>2, <2>3, OptionTypes DEF IsEvaluation
  <2>5. NIn(S) \in [Pool -> Nat] /\ NOut \in [Pool -> Nat]
    BY <2>1, <2>2, PoolSums, Outs
  <2> HIDE DEF S, cp
  <2>6. NIn(S)[cp] = 0 /\ NOut[cp] = 0
    BY <2>1, <2>5 DEF S, cp
  <2>7. Value(S, cp) = 0
    <3>1. {i \in S : req.notes[i].pool = cp} = {}
      <4>1. IsFiniteSet(DOMAIN req.notes) /\ S \subseteq DOMAIN req.notes
        BY <2>1, <2>2, PaymentAssumption DEF Typed
      <4>2. IsFiniteSet({i \in S : req.notes[i].pool = cp})
        BY <4>1, FS_Subset
      <4>3. Cardinality({i \in S : req.notes[i].pool = cp}) = 0
        BY <2>1, <2>6 DEF NIn
      <4> QED
        BY <4>2, <4>3, FS_EmptySet
    <3>2. S \in SUBSET DOMAIN req.notes
      BY <2>1, <2>2 DEF Typed
    <3>3. PoolSum(req.notes, S, cp) # 0 => \E i \in S : req.notes[i].pool = cp
      <4>1. \A r \in Requests : \A T \in SUBSET DOMAIN r.notes, p \in Pool :
              PoolSum(r.notes, T, p) # 0 => \E i \in T : r.notes[i].pool = p
        BY PoolSumNat
      <4>2. req \in Requests /\ cp \in Pool
        BY <2>1, <2>2 DEF Typed
      <4> QED
        BY <4>1, <4>2, <3>2, Zenon
    <3> QED
      BY <3>1, <3>3 DEF Value
  <2>8. OutValue(cp) = 0
    <3>1. others[cp].count \in Nat /\ others[cp].value \in Nat
      BY <2>1, <2>2 DEF Typed
    <3>2. others[cp].count = 0 /\ first.pool # cp
      BY <2>1, <2>6, <3>1 DEF NOut
    <3>3. others[cp].value = 0
      BY <3>2, <2>1 DEF IInv, NotEmpty
    <3> QED
      BY <3>2, <3>3 DEF OutValue
  <2>9. Fee(S, 0) <= Fee(S, cp)
    BY <2>1, <2>5, <2>6, UnusedPoolCosts DEF Fee
  <2>10. Fee(S, 0) \in Nat /\ Fee(S, cp) \in Nat /\ 0 \in Pool
    BY <2>1, <2>2, Fees DEF Pool
  <2>11. 0 \in FeasiblePools(S)
    <3>1. OutSum \in Nat /\ InSum(S) \in Nat /\ first.amount \in Nat
      BY <2>1, <2>2, PoolSums, Outs DEF Typed
    <3>2. /\ pays => Fee(S, cp) <= first.amount
          /\ InSum(S) >= Needed(Fee(S, cp))
      BY <2>1 DEF FeasiblePools
    <3>3. pays => Fee(S, 0) <= first.amount
      BY <3>1, <3>2, <2>9, <2>10
    <3>4. InSum(S) >= Needed(Fee(S, 0))
      BY <3>1, <3>2, <2>9, <2>10 DEF Needed
    <3> QED
      BY <3>3, <3>4, <2>10 DEF FeasiblePools
  <2>12. Turnstile(S, 0) <= Turnstile(S, cp)
    <3>1. /\ Value(S, 0) \in Nat /\ Value(S, 1) \in Nat /\ Value(S, 2) \in Nat
          /\ Value(S, 3) \in Nat
          /\ OutValue(0) \in Nat /\ OutValue(1) \in Nat /\ OutValue(2) \in Nat
          /\ OutValue(3) \in Nat
      BY <2>1, <2>2, PoolSums, Outs DEF Pool
    <3>2. ChangeOf(S, cp) \in Int /\ ChangeOf(S, 0) \in Int
      BY <2>1, <2>2, <2>10, PoolSums, Outs DEF ChangeOf, Needed
    <3>3. ASSUME NEW p \in Shielded
          PROVE  /\ Imbalance(S, 0, p) \in Nat /\ Imbalance(S, cp, p) \in Nat
                 /\ Imbalance(S, 0, p) <= Imbalance(S, cp, p)
      <4>1. Balance(S, p) \in Int
        BY <3>1 DEF Balance, Shielded
      <4>2. p # 0
        BY DEF Shielded
      <4>3. CASE p = cp
        <5>1. Balance(S, p) = 0
          BY <4>3, <2>7, <2>8 DEF Balance
        <5> QED
          BY <4>2, <4>3, <5>1, <3>2 DEF Imbalance, AbsOf
      <4>4. CASE p # cp
        BY <4>1, <4>2, <4>4 DEF Imbalance, AbsOf
      <4> QED
        BY <4>3, <4>4
    <3>4. 1 \in Shielded /\ 2 \in Shielded /\ 3 \in Shielded
      BY DEF Shielded
    <3>5. /\ Imbalance(S, 0, 1) \in Nat /\ Imbalance(S, cp, 1) \in Nat
          /\ Imbalance(S, 0, 1) <= Imbalance(S, cp, 1)
          /\ Imbalance(S, 0, 2) \in Nat /\ Imbalance(S, cp, 2) \in Nat
          /\ Imbalance(S, 0, 2) <= Imbalance(S, cp, 2)
          /\ Imbalance(S, 0, 3) \in Nat /\ Imbalance(S, cp, 3) \in Nat
          /\ Imbalance(S, 0, 3) <= Imbalance(S, cp, 3)
      BY <3>3, <3>4
    <3> QED
      BY <3>1, <3>5 DEF Turnstile
  <2> DEFINE y == [notes |-> S, cost |-> Turnstile(S, 0), fee |-> Fee(S, 0), pool |-> 0]
  <2>13. y \in Options(S)
    BY <2>11 DEF Options
  <2>14. y.cost = Turnstile(S, 0) /\ y.fee = Fee(S, 0) /\ y.pool = 0
    OBVIOUS
  <2> HIDE DEF y
  <2>15. y # best
    BY <2>14, <2>1 DEF Shielded
  <2>16. \/ LexLess(best.cost, best.fee, y.cost, y.fee)
         \/ best.cost = y.cost /\ best.fee = y.fee /\ best.pool < y.pool
    BY <2>3, <2>13, <2>15 DEF IsEvaluation
  <2>17. Turnstile(S, 0) \in Nat /\ Turnstile(S, cp) \in Nat
    BY <2>1, <2>2, <2>10, Costs
  <2> QED
    BY <2>1, <2>4, <2>9, <2>10, <2>12, <2>14, <2>16, <2>17 DEF LexLess, Shielded
<1> QED
  BY <1>1, Invariant, PTL

-----------------------------------------------------------------------------
(* What maxSpendable names can be paid: one action for each note it counts *)
(* and four more are enough for the recipient and the change.              *)
THEOREM MaxIsPaid == Spec => []MaxIsFundable
<1>1. IInv => MaxIsFundable
  <2> SUFFICES ASSUME IInv, phase = "refused", Ordinary, req.first.amount > 0,
                      ~(req.first.amount > MaxSpendable)
               PROVE  FALSE
    BY DEF MaxIsFundable
  <2>1. Typed
    BY IInvTyped
  <2>2. /\ cand = NoDust(Offered) /\ FeasiblePools(cand) = {}
        /\ first = req.first /\ others = NoOthers /\ ~pays
    BY DEF IInv, TriedAll, AsAsked, Ordinary
  <2> DEFINE kept == {i \in DOMAIN req.notes : /\ req.notes[i].ripe
                                               /\ req.notes[i].amount >= FUnit
                                               /\ req.notes[i].pool \in req.source}
             n(p) == Cardinality({i \in kept : req.notes[i].pool = p})
             a(p) == IF n(p) = 0 THEN 0
                     ELSE IF p = 0 THEN n(p) ELSE MaxOf(n(p), 2)
             all == a(0) + a(1) + a(2) + a(3) + 4
             cp == first.pool
  <2>3. MaxSpendable = Less(InSum(kept), FUnit * all)
    BY DEF MaxSpendable
  <2>4. kept = cand
    BY <2>2 DEF Ordinary, NoDust, Offered
  <2>5. /\ NIn(cand) \in [Pool -> Nat] /\ InSum(cand) \in Nat
        /\ first.amount \in Nat /\ cp \in Pool
    BY <2>1, PoolSums DEF Typed
  <2>6. /\ NIn(cand)[0] = n(0) /\ NIn(cand)[1] = n(1)
        /\ NIn(cand)[2] = n(2) /\ NIn(cand)[3] = n(3)
    <3> HIDE DEF kept
    <3>1. \A p \in Pool : NIn(cand)[p] = n(p)
      BY <2>4 DEF NIn
    <3> HIDE DEF n
    <3> QED
      BY <3>1 DEF Pool
  <2> HIDE DEF kept, n
  <2>7. n(0) \in Nat /\ n(1) \in Nat /\ n(2) \in Nat /\ n(3) \in Nat
    BY <2>5, <2>6 DEF Pool
  <2>8. all \in Nat
    BY <2>7 DEF MaxOf
  <2> DEFINE outs == [NOut EXCEPT ![cp] = @ + 1]
  <2>9. /\ outs \in [Pool -> Nat]
        /\ outs[0] = (IF cp = 0 THEN 2 ELSE 0) /\ outs[1] = (IF cp = 1 THEN 2 ELSE 0)
        /\ outs[2] = (IF cp = 2 THEN 2 ELSE 0) /\ outs[3] = (IF cp = 3 THEN 2 ELSE 0)
    <3>1. NOut = [p \in Pool |-> IF cp = p THEN 1 ELSE 0]
      BY <2>2 DEF NOut, NoOthers
    <3>2. \A p \in Pool : outs[p] = IF cp = p THEN 2 ELSE 0
      BY <3>1, <2>5
    <3>3. outs \in [Pool -> Nat]
      BY <3>1, <2>5
    <3> QED
      BY <3>2, <3>3 DEF Pool
  <2> HIDE DEF outs
  <2>10. ~req.migration
    BY DEF Ordinary
  <2> DEFINE A == MaxOf(n(0), outs[0])
             B == Bundle(n(1), outs[1])
             C == Bundle(n(2), outs[2])
             D == Bundle(n(3), outs[3])
  <2>11. A \in Nat /\ A <= a(0) + (IF cp = 0 THEN 2 ELSE 0)
    BY <2>7, <2>9 DEF MaxOf
  <2>12. B \in Nat /\ B <= a(1) + (IF cp = 1 THEN 2 ELSE 0)
    BY <2>7, <2>9 DEF MaxOf, Bundle
  <2>13. C \in Nat /\ C <= a(2) + (IF cp = 2 THEN 2 ELSE 0)
    BY <2>7, <2>9 DEF MaxOf, Bundle
  <2>14. D \in Nat /\ D <= a(3) + (IF cp = 3 THEN 2 ELSE 0)
    BY <2>7, <2>9 DEF MaxOf, Bundle
  <2>15. Actions(NIn(cand), outs) = MaxOf(A + B + C + D, 2)
    BY <2>6, <2>10 DEF Actions, OrchardBundle
  <2>16. a(0) \in Nat /\ a(1) \in Nat /\ a(2) \in Nat /\ a(3) \in Nat
    BY <2>7 DEF MaxOf
  <2> HIDE DEF A, B, C, D, a
  <2>17. Actions(NIn(cand), outs) <= all
    BY <2>5, <2>11, <2>12, <2>13, <2>14, <2>15, <2>16 DEF MaxOf, Pool
  <2> HIDE DEF all
  <2>18. Fee(cand, cp) = FUnit * Actions(NIn(cand), outs)
         /\ Actions(NIn(cand), outs) \in Nat
    BY <2>5, <2>9, FeeActions DEF Fee, outs
  <2>19. Fee(cand, cp) <= FUnit * all /\ FUnit * all \in Nat
         /\ Fee(cand, cp) \in Nat
    BY <2>8, <2>17, <2>18, Times, PaymentAssumption
  <2>20. OutSum = first.amount
    <3>1. \A p \in Pool : OutValue(p) = IF cp = p THEN first.amount ELSE 0
      BY <2>2, <2>5 DEF OutValue, NoOthers
    <3> QED
      BY <3>1, <2>5 DEF OutSum, Pool
  <2>21. first.amount <= InSum(cand) - FUnit * all
    <3>1. first.amount > 0 /\ ~(first.amount > Less(InSum(cand), FUnit * all))
      BY <2>2, <2>3, <2>4
    <3> QED
      BY <3>1, <2>5, <2>19 DEF Less, MaxOf
  <2>22. InSum(cand) >= Needed(Fee(cand, cp))
    BY <2>2, <2>5, <2>19, <2>20, <2>21 DEF Needed
  <2>23. cp \in FeasiblePools(cand)
    BY <2>2, <2>5, <2>22 DEF FeasiblePools
  <2> QED
    BY <2>2, <2>23
<1> QED
  BY <1>1, Invariant, PTL
=============================================================================
