----------------------------- MODULE Migration -----------------------------
(***************************************************************************)
(* Moving Orchard notes to Ironwood: the planner and the step of           *)
(* rust/rlz/src/migrate/mod.rs, the step of the host's loop around them    *)
(* (migration_step of rust/rlz/src/api/migrate.rs), a payment and a        *)
(* deposit in the meantime, and the network.                               *)
(*                                                                         *)
(* A step splits the notes that are no standard denomination into notes    *)
(* that are, or moves one standard note to Ironwood.  Its transaction      *)
(* reserves what it spends until it is mined and scanned, or has expired.  *)
(*                                                                         *)
(* Amounts are multiples of COST_PER_ACTION; notes of equal value are      *)
(* told apart by where they are alone, so note sets are bags of values.    *)
(* Heights are left out: a transaction is mined, scanned, and confirmed,   *)
(* or expires, in some order the chain could produce.  The wrapper's       *)
(* anchor interval is 1, so the checkpoint always lies on its boundary.    *)
(***************************************************************************)
EXTENDS Integers, FiniteSets, FiniteSetsExt, Bags, Sums

CONSTANTS
    Base,             \* the smallest denomination, 10^5 zatoshi
    Radix,            \* the ratio of two denominations, 10
    KTop,             \* the largest exponent, k_max - k_min - 1
    Pad,              \* SD_FEE_PAD
    MinSd,            \* MIN_SD
    MaxSplitInputs,   \* MAX_SPLIT_INPUTS
    Wallets,          \* the Orchard notes a wallet may start with
    Deposits,         \* the values of Orchard notes it may receive
    StopsAtComplete,  \* the host ends its loop at the phase "complete"
    MaxEvents         \* bound: deposits, payments, failures and losses

\* A bag of one.
One(x) == SetToBag({x})

\* The value of the notes in a bag, and how many there are.
Worth(B) == SumOf([v \in DOMAIN B |-> v * B[v]])
Size(B) == SumOf(B)

\* Base times the powers of Radix.
Pure[k \in 0 .. KTop] == IF k = 0 THEN Base ELSE Radix * Pure[k - 1]

\* Mutant of Denom: the padding its doc comment gives, two actions.
DenomHalfPad(k) == Pure[k] + Pad \div 2

Denom(k) == Pure[k] + Pad

\* The fee buffer a split keeps pays for a split of the most inputs into one
\* output, and always exceeds twice what denominations leave over.  Counts of
\* eight bits are enough for the next denomination and for all that is ever
\* received: 256 times the largest is more than a hundred times the supply.
ASSUME MigrationAssumption ==
    /\ {Base, Radix, Pad, MinSd, MaxSplitInputs} \subseteq Nat \ {0}
    /\ Radix \in 2 .. 256
    /\ KTop \in Nat
    /\ MaxSplitInputs + 2 <= MinSd
    /\ Base + Pad <= MinSd \div 2
    /\ \A w \in Wallets : IsABag(w) /\ IsFiniteSet(DOMAIN w) /\ DOMAIN w \subseteq Nat \ {0}
    /\ Deposits \subseteq Nat \ {0}
    /\ StopsAtComplete \in BOOLEAN
    /\ MaxEvents \in Nat
    /\ \A w \in Wallets, d \in Deposits \cup {0} :
          Worth(w) + MaxEvents * d < 256 * Denom(KTop)

VARIABLES
    ripe,      \* confirmed Orchard notes, neither spent nor reserved
    txs,       \* transactions whose inputs are reserved or outputs unconfirmed
    ironwood,  \* Ironwood notes received
    step,      \* the migrationStep under way
    running,   \* the host's loop goes on
    received,  \* history: value received in Orchard
    spent,     \* history: value paid out and fees
    events     \* deposits, payments, failures and losses so far

vars == <<ripe, txs, ironwood, step, running, received, spent, events>>

-----------------------------------------------------------------------------
(* Standard denominations.                                                 *)

\* Factors of Radix divided out of a number up to n.
StripFrom(n) ==
    LET strip[x \in 1 .. n] == IF x % Radix = 0 THEN strip[x \div Radix] ELSE x
    IN  strip

\* is_iw_sd
IsIwSd(v) == v >= Base /\ v % Base = 0 /\ StripFrom(v)[v \div Base] = 1

\* is_sd
IsSd(v) == v > Pad /\ IsIwSd(v - Pad)

\* What is left of the total after the denominations from k upwards.
RestFrom(total) ==
    LET rest[k \in 0 .. KTop + 1] ==
            IF k > KTop THEN total ELSE rest[k + 1] % Denom(k)
    IN  rest

\* decompose_to_sd: its pairs as a bag, counts of eight bits, and what is over.
DecomposeToSd(total) ==
    LET rest == RestFrom(total)
        count(k) == (rest[k + 1] \div Denom(k)) % 256
        used == {k \in 0 .. KTop : count(k) > 0}
    IN  [digits |-> [d \in {Denom(k) : k \in used} |->
                        count(CHOOSE k \in used : Denom(k) = d)],
         rest |-> rest[0]]

-----------------------------------------------------------------------------
(* The planner.                                                            *)

SmallerOf(x, y) == IF x < y THEN x ELSE y

\* How many notes are larger than v.
Above(B, v) == SumOf([u \in {w \in DOMAIN B : w > v} |-> B[u]])

\* Sorted in descending order and truncated to n.
Largest(n, B) ==
    [v \in {u \in DOMAIN B : Above(B, u) < n} |-> SmallerOf(B[v], n - Above(B, v))]

\* Mutant of SplitFee: the change output is not counted.
SplitFeeNoChange(n, m) == n + m

\* FeeManager::fee in migration mode: n inputs, m outputs and the change.
SplitFee(n, m) == n + m + 1

NonSd(B) == [v \in {u \in DOMAIN B : ~IsSd(u)} |-> B[v]]
Sd(B) == [v \in {u \in DOMAIN B : IsSd(u)} |-> B[v]]

\* The number of outputs left when the lowest were trimmed until the fee fits.
Kept(digits, total, n) ==
    Max({0} \cup {m \in 1 .. Size(digits) :
                    SplitFee(n, m) <= total - Worth(Largest(m, digits))})

\* plan_split: the outputs, none when there is no split.
PlanSplit(B) ==
    LET capped == Largest(MaxSplitInputs, B)
        total == Worth(capped)
        digits == IF DecomposeToSd(total).rest < MinSd \div 2
                  THEN DecomposeToSd(total - MinSd).digits
                  ELSE DecomposeToSd(total).digits
    IN  IF total < MinSd THEN EmptyBag
        ELSE Largest(Kept(digits, total, Size(capped)), digits)

\* has_split_transaction
HasSplit(B) == PlanSplit(B) # EmptyBag

\* select_notes among the capped notes: the fewest, largest first, that pay
\* for the outputs and the fee (Payment models the search).
Enough(B, outs) ==
    {n \in 1 .. Size(B) :
        Worth(Largest(n, B)) >= Worth(outs) + SplitFee(n, Size(outs))}

\* What is left for the change output; none is built for 0.
ChangeBag(c) == IF c > 0 THEN One(c) ELSE EmptyBag

\* The split transaction plan_transaction makes of the notes in B.
SplitTx(B) ==
    LET capped == Largest(MaxSplitInputs, B)
        outs == PlanSplit(B)
        ins == Largest(Min(Enough(capped, outs)), capped)
        fee == SplitFee(Size(ins), Size(outs))
        change == Worth(ins) - Worth(outs) - fee
    IN  [ins |-> ins, orchard |-> outs (+) ChangeBag(change), ironwood |-> EmptyBag]

\* One note, and its value less the padding in Ironwood.
MigrateTx(v) ==
    [ins |-> One(v), orchard |-> EmptyBag,
     ironwood |-> One(v - Pad)]

\* The builder's fee: Orchard actions in sum mode, Ironwood ones padded to two.
BuilderFee(t) ==
    LET actions == Size(t.ins) + Size(t.orchard)
    IN  (IF actions = 1 THEN 2 ELSE actions) + (IF t.ironwood = EmptyBag THEN 0 ELSE 2)

\* The builder signs a transaction that pays exactly its fee.
Builds(t) ==
    Worth(t.ins) = Worth(t.orchard) + Worth(t.ironwood) + BuilderFee(t)

-----------------------------------------------------------------------------
(* What the wallet sees.                                                   *)

\* The outputs that were scanned and wait for confirmations.
Unconfirmed ==
    LET having(v) == {t \in BagToSet(txs) : t.at = "scanned" /\ BagIn(v, t.orchard)}
    IN  [v \in UNION {BagToSet(t.orchard) : t \in {u \in BagToSet(txs) : u.at = "scanned"}} |->
            SumOf([t \in having(v) |-> t.orchard[v] * txs[t]])]

\* Mutant of PhaseOf: only notes still to be split count as work.
PhaseOfSplits(B) ==
    CASE HasSplit(NonSd(B)) -> "splitting"
      [] OTHER -> "complete"

\* current_migration_status
PhaseOf(B) ==
    CASE HasSplit(NonSd(B)) -> "splitting"
      [] ~HasSplit(NonSd(B)) /\ Sd(B) # EmptyBag -> "migrating"
      [] OTHER -> "complete"

\* Every note fetch_unspent_notes offers, whatever its confirmations.
Offered == ripe (+) Unconfirmed

NoTx == [ins |-> EmptyBag, orchard |-> EmptyBag, ironwood |-> EmptyBag]
Idle == [at |-> "idle", tx |-> NoTx, stale |-> FALSE]
At(t, where) ==
    [ins |-> t.ins, orchard |-> t.orchard, ironwood |-> t.ironwood, at |-> where]

Init ==
    /\ ripe \in Wallets
    /\ received = Worth(ripe)
    /\ txs = EmptyBag /\ ironwood = EmptyBag
    /\ step = Idle /\ running = TRUE
    /\ spent = 0 /\ events = 0

-----------------------------------------------------------------------------
(* A step of the host's loop.                                              *)

(* One call from the host: its sync, whose errors it ignores, is some Scan *)
(* before; then the status decides whether there is anything to do.        *)
Begin ==
    /\ running
    /\ step.at = "idle"
    /\ step' = [Idle EXCEPT !.at = IF PhaseOf(Offered) = "complete" THEN "done"
                                   ELSE "fetch"]
    /\ UNCHANGED <<ripe, txs, ironwood, running, received, spent, events>>

\* The transactions step may plan from the confirmed notes: a split first,
\* else one standard note, the one of the largest commitment.
Plans ==
    IF HasSplit(NonSd(ripe)) THEN {SplitTx(NonSd(ripe))}
    ELSE {MigrateTx(v) : v \in BagToSet(Sd(ripe))}

(* The notes are read and the transaction is built.                        *)
Plan ==
    /\ step.at = "fetch"
    /\ \E t \in Plans :
          /\ Builds(t)
          /\ step' = [at |-> "send", tx |-> t, stale |-> FALSE]
    /\ UNCHANGED <<ripe, txs, ironwood, running, received, spent, events>>

(* The builder refuses the plan and the step ends with an error.           *)
PlanRefused ==
    /\ step.at = "fetch"
    /\ \E t \in Plans : ~Builds(t)
    /\ step' = Idle
    /\ UNCHANGED <<ripe, txs, ironwood, running, received, spent, events>>

(* No confirmed note is left to split or to move.                          *)
PlanNothing ==
    /\ step.at = "fetch"
    /\ Plans = {}
    /\ step' = [Idle EXCEPT !.at = "done"]
    /\ UNCHANGED <<ripe, txs, ironwood, running, received, spent, events>>

\* Mutant of Claims: the step does not look for another's reservation.
ClaimsAnyway == step.at = "send"

\* reserve_and_send finds its inputs free.
Claims == step.at = "send" /\ ~step.stale

(* reserve_and_send: the inputs are reserved and the node takes it.        *)
Send ==
    /\ Claims
    /\ ripe' = ripe (-) step.tx.ins
    /\ txs' = txs (+) One(At(step.tx, "pool"))
    /\ step' = [Idle EXCEPT !.at = "done"]
    /\ UNCHANGED <<ironwood, running, received, spent, events>>

(* The reservation is made and then the node rejects the transaction, or   *)
(* the answer or the process is lost: the step fails, the notes stay       *)
(* reserved, and the network may or may not have the transaction.          *)
SendFails(where) ==
    /\ Claims
    /\ events < MaxEvents
    /\ ripe' = ripe (-) step.tx.ins
    /\ txs' = txs (+) One(At(step.tx, where))
    /\ step' = Idle
    /\ events' = events + 1
    /\ UNCHANGED <<ironwood, running, received, spent>>

(* A payment reserved an input since the notes were read.                  *)
ClaimFails ==
    /\ step.at = "send"
    /\ step.stale
    /\ step' = Idle
    /\ UNCHANGED <<ripe, txs, ironwood, running, received, spent, events>>

(* Any other failure before the reservation: the server does not answer,   *)
(* or a scan moved the checkpoint off the anchor the plan began with.      *)
StepFails ==
    /\ step.at \in {"fetch", "send"}
    /\ events < MaxEvents
    /\ events' = events + 1
    /\ step' = Idle
    /\ UNCHANGED <<ripe, txs, ironwood, running, received, spent>>

(* The status after the step is what the host gets to see.                 *)
Report ==
    /\ step.at = "done"
    /\ running' = ~(StopsAtComplete /\ PhaseOf(Offered) = "complete")
    /\ step' = Idle
    /\ UNCHANGED <<ripe, txs, ironwood, received, spent, events>>

-----------------------------------------------------------------------------
(* Meanwhile.                                                              *)

(* Mutant of Pay: a note is taken from under the step and its reservation  *)
(* is not found there.                                                     *)
PayUnseen(v, clash) ==
    /\ events < MaxEvents
    /\ IF clash THEN ~step.stale /\ BagIn(v, step.tx.ins)
       ELSE BagIn(v, IF step.stale THEN ripe ELSE ripe (-) step.tx.ins)
    /\ events' = events + 1
    /\ ripe' = ripe (-) One(v)
    /\ txs' = txs (+) One(At([NoTx EXCEPT !.ins = One(v)], "pool"))
    /\ UNCHANGED <<ironwood, step, running, received, spent>>

(* A payment of another call spends one note.  It may be one that the step *)
(* has read.                                                               *)
Pay(v, clash) ==
    /\ events < MaxEvents
    /\ IF clash THEN ~step.stale /\ BagIn(v, step.tx.ins)
       ELSE BagIn(v, IF step.stale THEN ripe ELSE ripe (-) step.tx.ins)
    /\ events' = events + 1
    /\ ripe' = ripe (-) One(v)
    /\ txs' = txs (+) One(At([NoTx EXCEPT !.ins = One(v)], "pool"))
    /\ step' = [step EXCEPT !.stale = @ \/ clash]
    /\ UNCHANGED <<ironwood, running, received, spent>>

Becomes(t, u) == txs' = (txs (-) One(t)) (+) One(u)

(* A note received in Orchard is scanned.                                  *)
Deposit(v) ==
    /\ events < MaxEvents
    /\ events' = events + 1
    /\ received' = received + v
    /\ txs' = txs (+) One(At([NoTx EXCEPT !.orchard = One(v)], "scanned"))
    /\ UNCHANGED <<ripe, ironwood, step, running, spent>>

(* The network drops a transaction.                                        *)
Lose(t) ==
    /\ t.at = "pool"
    /\ events < MaxEvents
    /\ events' = events + 1
    /\ Becomes(t, At(t, "lost"))
    /\ UNCHANGED <<ripe, ironwood, step, running, received, spent>>

(* It is mined, and a scan of the block finds its inputs spent and its     *)
(* outputs.                                                                *)
Scan(t) ==
    /\ t.at = "pool"
    /\ IF t.orchard = EmptyBag THEN txs' = txs (-) One(t)
       ELSE Becomes(t, At([NoTx EXCEPT !.orchard = t.orchard], "scanned"))
    /\ ironwood' = ironwood (+) t.ironwood
    /\ spent' = spent + Worth(t.ins) - Worth(t.orchard) - Worth(t.ironwood)
    /\ UNCHANGED <<ripe, step, running, received, events>>

(* The outputs have the confirmations a spend needs.                       *)
Confirm(t) ==
    /\ t.at = "scanned"
    /\ ripe' = ripe (+) t.orchard
    /\ txs' = txs (-) One(t)
    /\ UNCHANGED <<ironwood, step, running, received, spent, events>>

\* Mutant of Expired: a reservation is held until the transaction is mined.
ExpiredNever(t) == FALSE

\* The wallet scanned the expiry height and the transaction was not mined.
Expired(t) == t.at = "lost"

(* The reservation is no longer active and its notes are offered again.    *)
Expire(t) ==
    /\ Expired(t)
    /\ ripe' = ripe (+) t.ins
    /\ txs' = txs (-) One(t)
    /\ UNCHANGED <<ironwood, step, running, received, spent, events>>

-----------------------------------------------------------------------------
\* One thread makes the calls.
Step ==
    Begin \/ Plan \/ PlanRefused \/ PlanNothing \/ Send \/ ClaimFails \/ Report

\* The chain goes on.
Chain == \E t \in BagToSet(txs) : Scan(t) \/ Confirm(t) \/ Expire(t)

Next ==
    \/ Step
    \/ Chain
    \/ StepFails
    \/ \E where \in {"pool", "lost"} : SendFails(where)
    \/ \E v \in BagToSet(ripe), clash \in BOOLEAN : Pay(v, clash)
    \/ \E v \in Deposits : Deposit(v)
    \/ \E t \in BagToSet(txs) : Lose(t)

Spec == Init /\ [][Next]_vars

(* Every call returns and the host makes the next one while it goes on;    *)
(* what is not dropped is mined, scanned and confirmed, and expiry heights *)
(* are passed.                                                             *)
Fairness ==
    /\ []<>(step.at = "idle")
    /\ []<>(~running \/ step.at # "idle")
    /\ WF_vars(Chain)

FairSpec == Spec /\ Fairness

-----------------------------------------------------------------------------
(* Properties.                                                             *)

BagOf(V, B) == IsABag(B) /\ BagToSet(B) \subseteq V
Amount == Nat \ {0}

\* The state of the wallet's notes and of the call has its type, and a step
\* whose inputs nobody took holds notes that are there (migrate/mod.rs step).
TypeOK ==
    /\ BagOf(Amount, ripe) /\ BagOf(Amount, ironwood) /\ IsABag(txs)
    /\ \A t \in BagToSet(txs) :
          /\ BagOf(Amount, t.ins) /\ BagOf(Amount, t.orchard)
          /\ BagOf(Amount, t.ironwood)
          /\ t.at \in {"pool", "scanned", "lost"}
    /\ step.at \in {"idle", "fetch", "send", "done"}
    /\ step.stale \/ step.tx.ins \sqsubseteq ripe
    /\ running \in BOOLEAN
    /\ events \in 0 .. MaxEvents

\* What a transaction holds of the wallet's Orchard notes.
Held(t) == Worth(t.ins) + (IF t.at = "scanned" THEN Worth(t.orchard) ELSE 0)

\* Nothing is spent twice and nothing is lost: what was received is in the
\* wallet, in transactions under way, paid out or gone in fees, whatever a
\* payment does between the moment a step reads its notes and the moment it
\* reserves them (migrate/mod.rs step, broadcast).
Conserved ==
    received = Worth(ripe) + Worth(ironwood) + spent
               + SumOf([t \in DOMAIN txs |-> txs[t] * Held(t)])

\* decompose_to_sd, is_sd and is_iw_sd agree: what a split makes besides one
\* change note is standard, and every note that reaches Ironwood is a pure
\* denomination.
DenominationsAgree ==
    /\ \A v \in BagToSet(ironwood) : IsIwSd(v)
    /\ \A t \in BagToSet(txs) \cup {step.tx} :
          t.ins # EmptyBag =>
              /\ Size(NonSd(t.orchard)) <= 1
              /\ \A v \in BagToSet(t.ironwood) : IsIwSd(v)

\* When the status says complete and nothing is under way, no standard note
\* is left and no transaction's worth of notes is worth more than the fee
\* buffer and the smallest denomination (plan_split, current_migration_status).
LittleIsLeft ==
    (txs = EmptyBag /\ PhaseOf(ripe) = "complete") =>
        /\ Sd(ripe) = EmptyBag
        /\ Worth(Largest(MaxSplitInputs, ripe)) < MinSd + Denom(0)

\* The builder would refuse what a step plans now.
Blocked == \E t \in Plans : ~Builds(t)

\* The notes a split takes are worth exactly the outputs it announces and the
\* fee, the action of a change output included.
WithoutChange ==
    LET B == NonSd(ripe)
    IN  /\ HasSplit(B)
        /\ Worth(SplitTx(B).ins) =
              Worth(PlanSplit(B)) + SplitFee(Size(SplitTx(B).ins), Size(PlanSplit(B)))

\* plan_split mirrors "what plan_transaction will construct, including the
\* change output, so the fee estimate is exact": it is, but for the split that
\* leaves no change.  Whatever notes payments, deposits and expiries leave, the
\* builder refuses that plan, at every call, and no other, split or move.
OnlyChangelessRefused == Blocked <=> WithoutChange

\* A host that goes on calling migrationStep in the end has moved all it
\* can, whatever was paid, received, dropped or refused meanwhile.
EverythingMigrates ==
    <>[](txs = EmptyBag /\ (PhaseOf(ripe) = "complete" \/ Blocked))

\* "the caller repeats this until the reported phase is COMPLETE": when a
\* host has stopped there, no standard note of a split is still to be moved
\* (ZcashWallet.kt migrationStep, current_migration_status).
StoppedIsDone ==
    ~running => /\ Sd(Offered) = EmptyBag
                /\ \A t \in BagToSet(txs) : Sd(t.orchard) = EmptyBag
=============================================================================
