------------------------------ MODULE Payment ------------------------------
(***************************************************************************)
(* Planning one payment: the preparation, the amounts and the outputs of   *)
(* plan_transaction (rust/rlz/src/pay/plan.rs) around the note selection   *)
(* select_notes (rust/rlz/src/pay/solve.rs), a greedy baseline improved by *)
(* a best-first branch and bound that a budget may cut off at any node.    *)
(*                                                                         *)
(* A note is its pool, its value, the transparent address it sits on and   *)
(* whether it has the confirmations asked for; an input note of the        *)
(* request is one fetch_unspent_notes offers (Reserve models which).       *)
(* Only the asset ZEC: the wrapper's RecipientDto names no other.  The     *)
(* first recipient is the one a fee may be taken from; the others count by *)
(* pool.  Addresses, memos, keys, anchors and proofs are left out.         *)
(***************************************************************************)
EXTENDS Integers, FiniteSets, FiniteSetsExt, Sums

CONSTANTS
    Requests,   \* the payments a host may ask for
    FUnit,      \* COST_PER_ACTION
    Quant,      \* QUANT of state_key, 1000 zatoshi
    BeamWidth   \* Budget.beam_width

Pool == 0 .. 3      \* Transparent, Sapling, Orchard, Ironwood
Shielded == 1 .. 3

\* The value a set of notes holds in a pool.
PoolSum(notes, S, p) ==
    SumOf([i \in {j \in S : notes[j].pool = p} |-> notes[i].amount])

\* A pool without further recipients is paid nothing more.  ironwood says that
\* NU6.3 is active; prepare_migration refuses to run before.
ASSUME PaymentAssumption ==
    /\ FUnit \in Nat \ {0}
    /\ Quant \in Nat \ {0}
    /\ BeamWidth \in Nat
    /\ \A r \in Requests :
          /\ IsFiniteSet(DOMAIN r.notes)
          /\ \A i \in DOMAIN r.notes : /\ r.notes[i].pool \in Pool
                                       /\ r.notes[i].amount \in Nat
          /\ r.source \subseteq Pool
          /\ r.pre \subseteq DOMAIN r.notes
          /\ r.first \in [pool: Pool, amount: Nat]
          /\ r.others \in [Pool -> [count: Nat, value: Nat]]
          /\ \A p \in Pool : r.others[p].count = 0 => r.others[p].value = 0
          /\ r.pays \in BOOLEAN
          /\ r.smart \in BOOLEAN
          /\ r.migration \in BOOLEAN
          /\ r.ironwood \in BOOLEAN
          /\ r.migration => r.ironwood

VARIABLES
    req,      \* the arguments of plan_transaction
    phase,    \* where the call is
    cand,     \* the candidate notes
    first,    \* the first recipient, as planned
    others,   \* the other recipients: outputs and value of each pool
    pays,     \* recipient_pays_fee, as planned
    node,     \* the notes of the state at hand
    left,     \* the candidate notes still to be tried on it
    best,     \* the incumbent: notes, cost, fee and change pool
    heap,     \* the queue: bound, sequence number and notes of each item
    seen,     \* the bound each state key was queued with
    seq,      \* the last sequence number
    visited,  \* history: the states taken off the queue and evaluated
    plan      \* what the transaction pays

vars == <<req, phase, cand, first, others, pays, node, left, best, heap, seen,
          seq, visited, plan>>
request == <<req, cand, first, others, pays>>

-----------------------------------------------------------------------------
(* Preparation: which notes may be spent.                                  *)

\* restrict_to_source_pools, then the preselected filter.
Offered ==
    {i \in req.pre : req.notes[i].pool \in req.source /\ req.notes[i].ripe}

\* drop_zec_dust
NoDust(S) == {i \in S : req.notes[i].amount >= FUnit}

\* The transparent notes by address.
Groups ==
    {{i \in Offered : req.notes[i].pool = 0 /\ req.notes[i].addr = req.notes[j].addr} :
        j \in {k \in Offered : req.notes[k].pool = 0}}

NoOthers == [p \in Pool |-> [count |-> 0, value |-> 0]]

-----------------------------------------------------------------------------
(* A state of the search is the set S of the notes it selects.             *)

Value(S, p) == PoolSum(req.notes, S, p)
InSum(S) == Value(S, 0) + Value(S, 1) + Value(S, 2) + Value(S, 3)
NIn(S) == [p \in Pool |-> Cardinality({i \in S : req.notes[i].pool = p})]

OutValue(p) == others[p].value + (IF first.pool = p THEN first.amount ELSE 0)
OutSum == OutValue(0) + OutValue(1) + OutValue(2) + OutValue(3)
NOut == [p \in Pool |-> others[p].count + (IF first.pool = p THEN 1 ELSE 0)]

AbsOf(x) == IF x < 0 THEN -x ELSE x
MaxOf(x, y) == IF x < y THEN y ELSE x

Balance(S, p) == Value(S, p) - OutValue(p)

\* A shielded bundle is padded to two actions.
Bundle(i, o) == IF i > 0 \/ o > 0 THEN MaxOf(MaxOf(i, o), 2) ELSE 0

OrchardBundle(i, o) ==
    IF req.migration /\ (i > 0 \/ o > 0) THEN MaxOf(i + o, 2) ELSE Bundle(i, o)

\* FeeManager::fee for the given inputs and outputs of each pool.
FeeFor(ins, outs) ==
    FUnit * MaxOf(MaxOf(ins[0], outs[0]) + Bundle(ins[1], outs[1])
                  + OrchardBundle(ins[2], outs[2]) + Bundle(ins[3], outs[3]), 2)

\* Mutant of Fee: the change output is not counted.
FeeNoChange(S, cp) == FeeFor(NIn(S), NOut)

\* compute_fee: the outputs and one change output.
Fee(S, cp) == FeeFor(NIn(S), [NOut EXCEPT ![cp] = @ + 1])

Needed(fee) == IF pays THEN OutSum ELSE OutSum + fee

\* Mutant of FeasiblePools: the fee is not part of what the notes cover.
FeasiblePoolsFree(S) ==
    {cp \in Pool : /\ pays => Fee(S, cp) <= first.amount
                   /\ InSum(S) >= OutSum}

\* The change pools evaluate_privacy does not pass over.
FeasiblePools(S) ==
    {cp \in Pool : /\ pays => Fee(S, cp) <= first.amount
                   /\ InSum(S) >= Needed(Fee(S, cp))}

ChangeOf(S, cp) == InSum(S) - Needed(Fee(S, cp))

Imbalance(S, cp, p) ==
    AbsOf(Balance(S, p) - (IF p = cp THEN ChangeOf(S, cp) ELSE 0))

\* Mutant of Turnstile: transparent change passes the turnstile too.
TurnstileAll(S, cp) ==
    Value(S, 0) + OutValue(0) + Imbalance(S, cp, 1) + Imbalance(S, cp, 2)
    + Imbalance(S, cp, 3)
    + (IF cp = 0 THEN ChangeOf(S, cp) ELSE 0)

Turnstile(S, cp) ==
    Value(S, 0) + OutValue(0) + Imbalance(S, cp, 1) + Imbalance(S, cp, 2)
    + Imbalance(S, cp, 3)

LexLess(c1, f1, c2, f2) == c1 < c2 \/ (c1 = c2 /\ f1 < f2)

\* evaluate_privacy: one choice for each pool; the best is taken, the first
\* of equals.
Options(S) ==
    {[notes |-> S, cost |-> Turnstile(S, cp), fee |-> Fee(S, cp), pool |-> cp] :
        cp \in FeasiblePools(S)}

\* x is what evaluate returns for S.
IsEvaluation(S, x) ==
    /\ x \in Options(S)
    /\ \A y \in Options(S) \ {x} :
          \/ LexLess(x.cost, x.fee, y.cost, y.fee)
          \/ x.cost = y.cost /\ x.fee = y.fee /\ x.pool < y.pool

Floor(S, p) == MaxOf(AbsOf(Balance(S, p)) - Value(cand \ S, p), 0)

LowerBound(S) ==
    Value(S, 0) + OutValue(0) + Floor(S, 1) + Floor(S, 2) + Floor(S, 3)

\* Integer division of Rust: towards zero.
Quantized(x) == IF x < 0 THEN -((-x) \div Quant) ELSE x \div Quant

StateKey(S) ==
    <<Quantized(InSum(S)), [p \in Shielded |-> Quantized(Balance(S, p))], NIn(S)>>

-----------------------------------------------------------------------------
(* Orders among notes.                                                     *)

\* ctx.notes: shielded first, then the larger, then the earlier.
SortedBefore(i, j) ==
    LET t(k) == IF req.notes[k].pool = 0 THEN 1 ELSE 0
    IN  \/ t(i) < t(j)
        \/ /\ t(i) = t(j)
           /\ \/ req.notes[i].amount > req.notes[j].amount
              \/ req.notes[i].amount = req.notes[j].amount /\ i < j

GreedyBefore(i, j) ==
    \/ req.notes[i].amount > req.notes[j].amount
    \/ req.notes[i].amount = req.notes[j].amount /\ SortedBefore(i, j)

\* balance[0] is the transparent output value alone.
LocalScore(S, i) ==
    LET n == req.notes[i]
        bal == IF n.pool = 0 THEN -OutValue(0) ELSE Balance(S, n.pool)
    IN  AbsOf(bal) - AbsOf(bal + n.amount) - (n.amount \div Quant)

ScoreBefore(S, i, j) ==
    \/ LocalScore(S, i) > LocalScore(S, j)
    \/ LocalScore(S, i) = LocalScore(S, j) /\ SortedBefore(i, j)

Narrowed(S) == Cardinality(cand \ S) > BeamWidth

CandidateBefore(S, i, j) ==
    IF Narrowed(S) THEN ScoreBefore(S, i, j) ELSE SortedBefore(i, j)

\* top_k_by_local_heuristic of the notes not yet selected.
Candidates(S) ==
    {i \in cand \ S :
        Narrowed(S) => Cardinality({j \in cand \ S : ScoreBefore(S, j, i)}) < BeamWidth}

\* The state is not extended: nothing is left, or it overshoots.
Exhausted(S) ==
    \/ cand \ S = {}
    \/ InSum(S) > OutSum + Max({req.notes[i].amount : i \in cand \ S})

-----------------------------------------------------------------------------
NoPlan == [change |-> 0, fee |-> 0, pool |-> 0, paid |-> 0, notes |-> {}]
NoBest == [notes |-> {}, cost |-> 0, fee |-> 0, pool |-> 0]

Init ==
    /\ req \in Requests
    /\ phase = "prepare"
    /\ cand = {} /\ first = req.first /\ others = req.others /\ pays = req.pays
    /\ node = {} /\ left = {} /\ best = NoBest
    /\ heap = {} /\ seen = <<>> /\ seq = 0 /\ visited = {}
    /\ plan = NoPlan

(* An ordinary payment keeps the recipients as they are.                   *)
PrepareSend ==
    /\ phase = "prepare"
    /\ ~req.smart
    /\ cand' = NoDust(Offered)
    /\ phase' = "greedy"
    /\ UNCHANGED <<req, first, others, pays, node, left, best, heap, seen, seq,
                   visited, plan>>

(* smart_transparent: one address, drawn at random, is shielded with all   *)
(* it holds, dust included, and the recipient pays.                        *)
PrepareShield(group) ==
    /\ phase = "prepare"
    /\ req.smart
    /\ cand' = NoDust(group)
    /\ first' = [first EXCEPT !.amount = Value(group, 0)]
    /\ others' = NoOthers
    /\ pays' = TRUE
    /\ phase' = "greedy"
    /\ UNCHANGED <<req, node, left, best, heap, seen, seq, visited, plan>>

-----------------------------------------------------------------------------
(* greedy_solution                                                         *)

(* The state is not feasible yet: take the largest note.                   *)
GreedyTake(i) ==
    /\ phase = "greedy"
    /\ FeasiblePools(node) = {}
    /\ \A j \in (cand \ node) \ {i} : GreedyBefore(i, j)
    /\ node' = node \cup {i}
    /\ UNCHANGED <<request, phase, left, best, heap, seen, seq, visited, plan>>

(* "No feasible note selection found": every note is taken, or none is.    *)
GreedyRefuses ==
    /\ phase = "greedy"
    /\ FeasiblePools(node) = {}
    /\ node = cand
    /\ phase' = "refused"
    /\ UNCHANGED <<request, node, left, best, heap, seen, seq, visited, plan>>

(* The baseline is the first incumbent and the search starts at no note.   *)
GreedyFinds(x) ==
    /\ phase = "greedy"
    /\ IsEvaluation(node, x)
    /\ best' = x
    /\ heap' = {y \in {[bound |-> LowerBound({}), seq |-> 0, notes |-> {}]} :
                    y.bound <= x.cost}
    /\ phase' = "search"
    /\ UNCHANGED <<request, node, left, seen, seq, visited, plan>>

-----------------------------------------------------------------------------
(* Branch and bound.                                                       *)

Searching == phase = "search" /\ left = {} /\ heap # {}

\* BinaryHeap of Reverse(QueueItem): the least bound, then the oldest.
IsTop(x) == \A y \in heap \ {x} : LexLess(x.bound, x.seq, y.bound, y.seq)

(* max_nodes or max_time is exceeded: the incumbent is the answer.         *)
CutOff ==
    /\ Searching
    /\ phase' = "selected"
    /\ UNCHANGED <<request, node, left, best, heap, seen, seq, visited, plan>>

(* The item can no longer beat the incumbent.                              *)
Prune(top) ==
    /\ Searching
    /\ IsTop(top)
    /\ top.bound > best.cost
    /\ heap' = heap \ {top}
    /\ UNCHANGED <<request, phase, node, left, best, seen, seq, visited, plan>>

\* Mutant of IsBetter: a cheaper fee makes up for a lower privacy.
IsBetterFee(x) ==
    LexLess(x.cost, x.fee, best.cost, best.fee) \/ x.fee < best.fee

\* is_better_solution
IsBetter(x) == LexLess(x.cost, x.fee, best.cost, best.fee)

\* The incumbent after a state was evaluated.
Improve(S) ==
    \/ FeasiblePools(S) = {} /\ best' = best
    \/ \E x \in Options(S) : /\ IsEvaluation(S, x)
                             /\ best' = IF IsBetter(x) THEN x ELSE best

(* The state becomes the incumbent if it is better, and is then extended.  *)
Visit(top) ==
    /\ Searching
    /\ IsTop(top)
    /\ top.bound <= best.cost
    /\ heap' = heap \ {top}
    /\ visited' = visited \cup {top.notes}
    /\ Improve(top.notes)
    /\ node' = top.notes
    /\ left' = IF Exhausted(top.notes) THEN {} ELSE Candidates(top.notes)
    /\ UNCHANGED <<request, phase, seen, seq, plan>>

\* The next child of the loop over the candidates.
IsNext(c) == \A j \in left \ {c} : CandidateBefore(node, c, j)

\* Mutant of Dominated: an equal bound is no reason to leave the child out.
DominatedStrictly(S) ==
    StateKey(S) \in DOMAIN seen /\ seen[StateKey(S)] < LowerBound(S)

Dominated(S) ==
    StateKey(S) \in DOMAIN seen /\ seen[StateKey(S)] <= LowerBound(S)

(* A child that cannot beat the incumbent or is dominated is left out.     *)
SkipChild(c) ==
    LET S == node \cup {c}
    IN  /\ phase = "search"
        /\ IsNext(c)
        /\ LowerBound(S) > best.cost \/ Dominated(S)
        /\ left' = left \ {c}
        /\ UNCHANGED <<request, phase, node, best, heap, seen, seq, visited, plan>>

(* Any other child is queued under the next sequence number.               *)
PushChild(c) ==
    LET S == node \cup {c}
        key == StateKey(S)
        b == LowerBound(S)
    IN  /\ phase = "search"
        /\ IsNext(c)
        /\ b <= best.cost
        /\ ~Dominated(S)
        /\ seen' = [k \in DOMAIN seen \cup {key} |-> IF k = key THEN b ELSE seen[k]]
        /\ seq' = seq + 1
        /\ heap' = heap \cup {[bound |-> b, seq |-> seq + 1, notes |-> S]}
        /\ left' = left \ {c}
        /\ UNCHANGED <<request, phase, node, best, visited, plan>>

(* The queue is empty.                                                     *)
Exhaust ==
    /\ phase = "search"
    /\ left = {}
    /\ heap = {}
    /\ phase' = "selected"
    /\ UNCHANGED <<request, node, left, best, heap, seen, seq, visited, plan>>

-----------------------------------------------------------------------------
(* The transaction.                                                        *)

\* saturating_sub
Less(x, y) == MaxOf(x - y, 0)

\* What the plan pays: the fee comes off the first recipient's amount or on
\* top of the outputs, the rest is change.
PlanOf(b) ==
    LET paid == IF pays THEN Less(first.amount, b.fee) ELSE first.amount
        total == OutSum - first.amount + paid
    IN  [notes |-> b.notes, fee |-> b.fee, pool |-> b.pool, paid |-> paid,
         change |-> Less(InSum(b.notes), total + b.fee)]

\* The outputs given to the builder: no change output without change, and
\* no transparent output of nothing.
BuiltOut(pl) ==
    [p \in Pool |->
        others[p].count
        + (IF first.pool = p /\ (p # 0 \/ pl.paid > 0) THEN 1 ELSE 0)
        + (IF pl.pool = p /\ pl.change > 0 THEN 1 ELSE 0)]

\* External: the Orchard actions of the builder.  With NU6.3 every Orchard
\* output is handed over as a change output, and no action may then join a
\* spend and an output: "actions are spends + outputs" (fee.rs).
OrchardActions(i, o) ==
    IF req.ironwood /\ (i > 0 \/ o > 0) THEN MaxOf(i + o, 2) ELSE Bundle(i, o)

\* External: the fee the builder asks for, by what it was given.
BuilderFee(pl) ==
    LET i == NIn(pl.notes)
        o == BuiltOut(pl)
    IN  FUnit * MaxOf(MaxOf(i[0], o[0]) + Bundle(i[1], o[1])
                      + OrchardActions(i[2], o[2]) + Bundle(i[3], o[3]), 2)

\* External: nothing may be missing or left over.
BuilderAccepts(pl) ==
    InSum(pl.notes) = OutSum - first.amount + pl.paid + pl.change + BuilderFee(pl)

Build ==
    /\ phase = "selected"
    /\ plan' = PlanOf(best)
    /\ phase' = IF BuilderAccepts(plan') THEN "built" ELSE "unbalanced"
    /\ UNCHANGED <<request, node, left, best, heap, seen, seq, visited>>

-----------------------------------------------------------------------------
Prepare ==
    \/ PrepareSend
    \/ \E g \in (IF Groups = {} THEN {{}} ELSE Groups) : PrepareShield(g)
Greedy ==
    \/ \E i \in cand \ node : GreedyTake(i)
    \/ GreedyRefuses
    \/ \E x \in Options(node) : GreedyFinds(x)
Search ==
    \/ CutOff
    \/ \E top \in heap : Prune(top) \/ Visit(top)
    \/ \E c \in left : SkipChild(c) \/ PushChild(c)
    \/ Exhaust

Next == Prepare \/ Greedy \/ Search \/ Build

Spec == Init /\ [][Next]_vars

-----------------------------------------------------------------------------
Planned == phase \in {"built", "unbalanced"}

TypeOK ==
    /\ phase \in {"prepare", "greedy", "search", "selected", "refused", "built",
                  "unbalanced"}
    /\ cand \subseteq DOMAIN req.notes
    /\ first \in [pool: Pool, amount: Nat]
    /\ others \in [Pool -> [count: Nat, value: Nat]]
    /\ pays \in BOOLEAN
    /\ node \subseteq cand
    /\ left \subseteq cand \ node
    /\ best \in [notes: SUBSET cand, cost: Nat, fee: Nat, pool: Pool]
    /\ heap \subseteq [bound: Nat, seq: 0 .. seq, notes: SUBSET cand]
    /\ \A k \in DOMAIN seen : seen[k] \in Nat
    /\ seq \in Nat
    /\ visited \subseteq SUBSET cand
    /\ plan \in [notes: SUBSET cand, change: Nat, fee: Nat, pool: Pool, paid: Nat]

(* Nothing is created or lost: what plan_transaction spends is what it     *)
(* pays, the fee and the change, and every recipient gets the amount asked *)
(* for, the first one less the fee when it pays.  The subtractions of the  *)
(* code saturate; this says that they never do.                            *)
Balanced ==
    Planned =>
        /\ InSum(plan.notes)
              = OutSum - first.amount + plan.paid + plan.fee + plan.change
        /\ plan.paid = first.amount - (IF pays THEN plan.fee ELSE 0)

(* The Orchard bundle of an ordinary payment after NU6.3: FeeManager takes *)
(* the larger of its spends and outputs, the builder their sum.            *)
OrchardShort(pl) ==
    LET i == NIn(pl.notes)[2]
        o == BuiltOut(pl)[2]
    IN  req.ironwood /\ ~req.migration /\ i > 0 /\ o > 0 /\ i + o > 2

(* select_notes settles on the fee before it knows the change, keyed on    *)
(* migration, while the calls of plan_transaction that decide the          *)
(* builder's are keyed on NU6.3.  The fee falls short of the builder's     *)
(* only where the two disagree, OrchardShort.  A payment that leaves       *)
(* change and pays no empty output is built in every other case, and in    *)
(* that case never.                                                        *)
FeeIsTheBuilders ==
    Planned =>
        /\ ~OrchardShort(plan) => BuilderFee(plan) <= plan.fee
        /\ plan.change > 0 /\ plan.paid > 0
              => (phase = "built" <=> ~OrchardShort(plan))

(* evaluate_privacy tries all four pools for the change, those not active  *)
(* on the chain too: change never opens a shielded pool the transaction    *)
(* neither spends from nor pays into.                                      *)
ChangePoolIsUsed ==
    Planned => \/ plan.pool = 0
               \/ NIn(plan.notes)[plan.pool] > 0
               \/ NOut[plan.pool] > 0

(* Whenever the budget cuts the search off, the incumbent is the best of   *)
(* every selection evaluated so far: by privacy, then by fee.              *)
AnytimeBest ==
    \A S \in visited : \A x \in Options(S) : ~IsBetter(x)

(* The search evaluates a selection once, in whatever order its notes were *)
(* added: it is not queued again while queued or after it was evaluated.   *)
NoNodeTwice ==
    /\ \A x \in heap : x.notes \notin visited
    /\ \A x, y \in heap : x.notes = y.notes => x = y

\* Mutant of MaxSpendable: only the recipient's output is outside the mask.
MaxSpendableTwo ==
    LET kept == {i \in DOMAIN req.notes : /\ req.notes[i].ripe
                                          /\ req.notes[i].amount >= FUnit
                                          /\ req.notes[i].pool \in req.source}
        count(p) == Cardinality({i \in kept : req.notes[i].pool = p})
        actions(p) == IF count(p) = 0 THEN 0
                      ELSE IF p = 0 THEN count(p) ELSE MaxOf(count(p), 2)
    IN  Less(InSum(kept),
             FUnit * (actions(0) + actions(1) + actions(2) + actions(3) + 1))

\* max_spendable_from_pools for the pools of the request.
MaxSpendable ==
    LET kept == {i \in DOMAIN req.notes : /\ req.notes[i].ripe
                                          /\ req.notes[i].amount >= FUnit
                                          /\ req.notes[i].pool \in req.source}
        count(p) == Cardinality({i \in kept : req.notes[i].pool = p})
        actions(p) == IF count(p) = 0 THEN 0
                      ELSE IF p = 0 THEN count(p) ELSE MaxOf(count(p), 2)
    IN  Less(InSum(kept),
             FUnit * (actions(0) + actions(1) + actions(2) + actions(3) + 4))

(* A host's ordinary payment to one recipient.                             *)
Ordinary ==
    /\ ~req.smart /\ ~req.pays /\ ~req.migration
    /\ req.pre = DOMAIN req.notes
    /\ req.others = NoOthers

(* maxSpendable (ZcashWallet.kt): "the amount stays fundable whichever     *)
(* pool the recipient's address belongs to": no payment of that amount or  *)
(* less is refused, though select_notes gives up without a search.         *)
MaxIsFundable ==
    phase = "refused" /\ Ordinary /\ req.first.amount > 0
        => req.first.amount > MaxSpendable

(* solve.rs:3: "The solver minimizes cross-pool turnstile value": once the *)
(* queue is empty no selection of the candidates has a lower one.          *)
MinimizesTurnstile ==
    phase = "selected" /\ heap = {}
        => \A S \in SUBSET cand : \A x \in Options(S) : best.cost <= x.cost
=============================================================================
