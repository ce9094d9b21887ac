# A verification of zcash-sdk-kmp

TLA+ models of the wallet core behind the SDK: how inputs are reserved before a
broadcast, how the transparent and shielded history follows a chain that forks,
how a sync cycle carries several accounts, how the Kotlin flows around the blocking
native sync and around the mempool reader start, stop and report, how a payment is
planned, and how Orchard notes are migrated to Ironwood. TLC checks them on small
instances; TLAPS proves the safety of all of them, and one refinement, for every instance.

Paths below are relative to the repository; `rlz/` stands for
`rust/rlz/src/`, `jni/` for `rust/zcash-jni/src/`, `ZcashWallet.kt` for the file of
that name under `zcash-sdk/src/jvmSharedMain`.

## 1. Inventory

| component | state it keeps | operations | hard because |
|---|---|---|---|
| Input reservation (`rlz/pay/reserve.rs`, `rlz/api/pay.rs`) | `pending_spend_inputs`, `pending_txs`, the view `active_pending_spend_inputs`, `notes.locked` | reserve, broadcast, lock and unlock notes, merge pending, delete account | the expiry is checked before the database transaction opens; rewinds delete note rows under live reservations |
| Transparent sync tick (`rlz/sync.rs`) | `sync_heights`, notes, markers (`backfilled_height`), catch-up debts, headers | recovery, scan windows below and above the seam, block times, closing the pool | two anchor reads bracket a walk of many requests; any step may fail after committing; the chain forks in between |
| Address discovery (`rlz/sync.rs`, `rlz/api/sweep.rs`) | candidates, prefetched replies, coverage record | plan, prefetch, probe, ingest, certify | holds `SYNCING` for one window at a time, so ticks, rewinds and replacements land between any two windows |
| Coverage and account lifecycle (`rlz/db.rs`, `rlz/account.rs`) | trim counter, incarnation, certified record, birthday | trim, rewind, reset, delete, restore, move birthday, store address | several counters must invalidate each other's claims |
| Sync cycle (`rlz/sync.rs`, `rlz/warp/sync.rs`) | heights per account and pool, witnesses as checkpoints, headers shared by all accounts | cut the way to the tip into ranges, stream, compare headers, rewind, prune | accounts share headers but not heights; stale targets; partial ranges |
| Sync session (`ZcashWallet.kt`, `ZcashSdk.kt`, `jni/lib.rs`, `jni/progress.rs`, `rlz/api/sync.rs`) | `syncMutex`, `cancelRequested`, `running`, `closed`, handle registry, `SYNCING`, the cancellation channel | collect, cancelSync, close | a blocking call that outlives its collector, one channel for all wallets, phases that do not listen |
| Mempool (`jni/mempool.rs`, `rlz/mempool.rs`, `ZcashWallet.kt`) | the process-wide run slot, event queue, verdict, `closed` | collect, start, next, stop, close | one slot for all wallets; start, stop, polls and a collector that leaves interleave; the reader is in calls that no cancel interrupts |
| Planning, selection, fees (`rlz/pay/`) | queue, incumbent and visited keys of one search | prepare, greedy baseline, branch and bound, amounts, outputs | the fee depends on the selection and on the change it pays for; a budget ends the search anywhere; saturating arithmetic |
| Migration (`rlz/migrate/mod.rs`, `rlz/api/migrate.rs`) | none of its own: notes and reservations | step, status | notes are read before they are reserved; the phase is derived from notes that a reservation hides |
| Address allocation (`rlz/account.rs`) | `transparent_address_accounts` | next receive or change index, lowest unused | index races outside `SYNCING`, bounded retries |
| Network clients, keys, memos, FROST, vault, Ledger, voting, plugins, GraphQL, generated code, samples | | | I/O, cryptography, or not reachable from the SDK |

How they interact. A host collects `ZcashWallet.sync`; the flow takes the process's
`syncMutex` and calls the native `synchronize`, which takes `SYNCING` and runs cycles:
for each range of heights the transparent pass, then the shielded pass, then block
times and transaction details. Discovery, rewind, reset and receive-address calls
take `SYNCING` too. Broadcasts, note locks and change addresses do not: they meet a
sync only in database transactions. A fork is noticed by the shielded pass, which
compares each block with the header below it, and is answered by a rewind to the
account's latest checkpoint; the rewind trims the transparent rows with the others
and moves a counter that invalidates coverage claims.

What makes each part correct:

* Reservation: no two live transactions are let through for a note whose row the wallet
  has; the planner is never offered a claimed note; a reservation is held until its expiry
  and released then.
* Transparent history: a marker proves history, no payment to a scanned address is
  missed, no note of an abandoned fork counts, and what is announced is held or owed.
* Discovery: a certified account has no hole within the gap limit, whatever ticks, trims and
  replacements of the account came between the windows of the walk.
* Cycle: every account takes every block once and all catch up; abandoned blocks do
  not survive a header comparison.
* Session: one native sync at a time; Stopped tells the truth; the flag by which close
  decides to cancel is up exactly while a flow of the wallet syncs; every flow ends.
* Mempool: at most one run, never a reader nobody can stop, every report delivered in
  order, a clean end only after a stop; stop and close come to an end.
* Planning: a plan balances, opens no pool for the change alone, is short of the builder's
  fee only where the two count an Orchard bundle differently, and what `maxSpendable`
  advertises is not refused.
* Migration: nothing is spent twice, the builder refuses no plan but a split that leaves no
  change, only pure denominations reach Ironwood, and in the end little is left behind.

## 2. Modules

| module | models | depends on |
|---|---|---|
| `Reserve` | reservation, locks, and the scans and rewinds that move note rows | |
| `ReserveProofs` | its theorems | `Reserve` |
| `SyncStore` | the statements that change one account's rows, as operators on a record `d` | |
| `TransparentSync` | tick, shielded pass, discovery walk and host operations over `SyncStore` | `SyncStore` |
| `TransparentSyncProofs` | its theorems: types, history, debts, the certificate of a walk | `TransparentSync` |
| `RangeSync` | cycles over several accounts with shared headers | |
| `RangeSyncProofs` | its theorems | `RangeSync` |
| `SyncSession` | Kotlin flows, mutex, cancelSync, close, native call | |
| `SyncSessionProofs` | its theorems | `SyncSession` |
| `Mempool` | run slot, reader, queue, Kotlin collections, stop and close | `Subscription` |
| `Subscription` | what the subscription promises about its runs | |
| `MempoolProofs` | its theorems and the refinement | `Mempool` |
| `Sums` | the sums of amounts the planners take | |
| `SumsProofs` | lemmas about sums and about bags that are joined and parted | `Sums` |
| `Payment` | one call of `plan_transaction` with `select_notes` | `Sums` |
| `PaymentProofs` | its theorems | `Payment`, `SumsProofs` |
| `Migration` | denominations, split planner, migration steps, host loop, network | `Sums` |
| `MigrationProofs` | its theorems | `Migration`, `SumsProofs` |
| `MC*` | values of the constants for TLC | |

**Reserve.** A broadcast is two actions of a caller, `CheckExpiry` (before
`connection.begin()`) and one of `Claim`, `AcceptForeign`, `Refuse` (the database
transaction). `Active` is the view: `expiry_height = 0` or above the lowest scanned
height, with 0 for an account without rows. A transaction is its inputs and expiry.
`granted` is history: every input of a transaction that was let through and has been
unexpired at every height since, which is what "still pending" means to a wallet that
rewinds; `known` says whether the account had the input's note row at that moment. The
properties speak of known inputs, because only a row protects one: see the first of the
other disagreements in section 3.

**SyncStore / TransparentSync.** A note is an address, a height and the fork of its
block. The lock `SYNCING` is the rule that walk windows and host operations need an
idle tick. `StartTick` is pruning, recovery and the scan set; `OpenAnchor`,
`StartAddress`, `ScanWindow` and `ClosePass` the transparent pass; `CommitChunk` and
`MeetReorg` the shielded one. The walk is planned, prefetched and ingested as
`discover_transparent_addresses` does, one critical section an action. `ScanWindowUndated`
and `IngestUndated` are a window whose rows are committed and whose block times fail.
A failed, cancelled or killed tick is one action, since all three leave behind what
was committed. The narrowest window of 1000 blocks is one block. `since`, `cov.from`
and `seen` are history: `since` is the height from which ticks owe an address its payments (the
seam it was stored at, or a lower one the account went back to), `cov.from` the seam a
certifying walk began at, `seen` what the wallet has written or been told of since it last
started over from its birthday (`Remembered`).

**RangeSync.** What an account scanned is the fork of each block. Ranges are cut as
`sync_height_ranges` does, `Linked` is the comparison with the stored header,
`MeetReorg` the rewind, `StoredHeaders` the insert that never replaces. Targets may be
stale. Failure, cancellation and death are `FailCycle`; `LoseBlocks` is a server whose
chain has become shorter than the range.

**SyncSession.** A flow goes from `waiting` for the mutex through `called`, `native`,
`ended` and `finished` to a terminal state; `left` is a flow that ended without one. The
native call's phases matter by whether they hold a receiver of the cancellation
channel (`Listening`); `Proceed` and `EndRange` drop a cancel that was not read, as a
new subscription does. `asked` is history: the flow was asked to stop by its wallet
since it entered the mutex. `EditAccounts` sets the height the wrapper reads to any other
one: accounts may be added and deleted while a flow runs.

**Mempool.** A collection and the run it starts have one name. `Collect`, `Start` or
`RefuseStart`, `Poll` or `PollClosed`, what answers a poll (`PollReturns`) and `Finish` are the
Kotlin flow; `LeaveEmission` and `LeaveCall` are a collector cancelled at each suspension point. `Ask`, `HearCancel` and the reader's
answers are the task of `rlz/mempool.rs`. A stop takes the run out of the slot (`Take`)
and then waits for its reader (`Join`), in two actions because the slot's lock is released
in between. `close` is `stopMempool` and then the flag. `SyncSession` leaves this part of
`close` out for that reason.

**Payment.** The state is the local state of `select_notes`: the state at hand, the queue,
the seen keys, the incumbent. `Visit`, `Prune`, `SkipChild` and `PushChild` are the body of the loop, `CutOff` is
`max_nodes` or `max_time`, possible at every node. `PrepareShield` is
`smart_transparent`. The outcome is a plan, a refusal, or `unbalanced`: a plan the builder
refuses. `FeeFor` is the planner's fee, keyed on `migration` as `FeeManager` is; `BuilderFee` is
what the builder asks for the outputs it is given, its Orchard part keyed on NU6.3
(`ironwood`) as the calls of `plan_transaction` are, and counted as `rlz/pay/fee.rs:15` says.
Amounts are numbers, and a wallet's notes are finitely many.

**Migration.** Notes are bags of values; `Worth` is what they add up to and `Size` how many there are. `Begin`, then `Plan`, `PlanRefused` or
`PlanNothing`, then `Send`, `SendFails` or `ClaimFails`, then `Report` are one
`migration_step`; `Pay` is another call's payment, which may take a note the step has
read. `PlanSplit` is `plan_split`: `Kept` is the number of outputs after its trimming
loop, `Enough` the shortest prefix of the largest notes that `select_notes` settles on when all
is in one pool (its cost is then the fee, which grows with every input). Heights are left out: a
reservation ends with a scan of the transaction or after its expiry, and after the expiry
the transaction cannot be mined any more. `Offered` adds to the confirmed notes those of `Unconfirmed`, each as often as
scanned transactions made it. `Blocked` is a plan the builder refuses; it is always a split
that leaves no change (`WithoutChange`), whose plan keeps the action of the change output in its
fee, and it is refused each time. Amounts are multiples of `COST_PER_ACTION`, so no note is
below it and the dust filter of the planner does not show here (it does in `Payment`).

Abstract specifications. `Subscription` has four actions: a run is begun once and with no
other held, let go once, its reader stops, and the stop returns after it. `Mempool` implements
it under the mapping `Sub` (the held run is the slot, the live ones are those whose reader
has not ended, the waited ones those that some stop joins): `ImplementsSubscription` is
checked by run `mempool` and proved as `MempoolRefines`. The properties of `Reserve` over
`granted` are the promise of a reservation table.

## 3. Runs

| run | checks | instance |
|---|---|---|
| `reserve` | `NoCompetingClaims`, `PlannerNeverOffersClaimed`, `ClaimHeldUntilExpiry`, `ReservationsAreReleased` | 1 account with 2 notes, 2 transactions that share one of them (one expires, one never; the first spends both), 2 callers, heights to 2, 1 rewind |
| `sync` | `TypeOK`, `MarkerProvesHistory`, `NoPhantomNotes`, `CertifiedHasNoHole`, `SeenIsHeldOrOwed`, `ReceiveMissesNothing`, `PoolNeverPassesARow` | 1 account, heights to 3, six budgets, see below |
| `range` | `SoleAccountStaysOnChain`, `NoBlockSkipped`, `RangeInStep`, `EveryAccountCatchesUp` | a host of 1 account or of 2 synced alone or together, heights to 4, 1 fork, 1 failure, stale target or host rewind |
| `session` | `MutexCoversNative`, `StoppedIffAsked`, `RunningIsTrue`, `EveryFlowEnds` | 2 flows of one wallet, or one and a flow without accounts of another; 1 cancel, closes of both wallets, 1 edit of accounts, 1 calling thread |
| `mempool` | `NoStrandedReader`, `EndedCollectionFreesSlot`, `CleanMeansStopped`, `NothingLost`, `ImplementsSubscription`, `StopsReturn`, `CloseEndsCollections` | 2 collections of one wallet, 1 calling thread with 1 stop, close, 2 reports a run |
| `payment` | `Balanced`, `FeeIsTheBuilders`, `ChangePoolIsUsed`, `AnytimeBest`, `NoNodeTwice`, `MaxIsFundable` | every wallet of up to 3 notes of 4 values in 4 pools with requests of every kind, before and after NU6.3, beam width 2 |
| `migration` | `TypeOK`, `Conserved`, `OnlyChangelessRefused`, `DenominationsAgree`, `LittleIsLeft`, `EverythingMigrates` | 4 wallets of up to 13 notes, 2 events (payments, deposits, failures, losses), a host that goes on calling |

The type invariants of `Reserve`, `RangeSync`, `SyncSession`, `Mempool` and `Payment` are proved (section 4)
and not repeated in the runs.

Runs that expect a violation, each a disagreement between the code and what the
repository says of it:

* `sync_late_fork` / `ReceiveMissesNothing`. "Two reads of the backend's chain bracket the
  walk" (`rlz/sync.rs:727`), but the bracket closes before the shielded pass begins. A
  fork after the second read whose blocks the shielded pass then streams links to the
  header below the range, and the wallet ends on the new fork with the old fork's
  transparent history.
* `range_headers` / `LinkedMeansSameChain`. One account's rewind deletes the shared headers
  above the break "because there are no accounts using them" (`rlz/sync.rs:1403`).
  Another account, ahead, needs its header to notice the same fork: it links to the new
  header and keeps the notes of abandoned blocks.
* `mempool_leave` / `LeavingStopsTheRun`. "leaving the flow always stops the run"
  (`ZcashWallet.kt:600`), but `mempoolStart` is called before the `try` whose `finally` stops it: a
  collector cancelled while the native call runs leaves a run in the slot, and every later
  collection is refused until somebody calls `stopMempool` or `close`.
* `payment_private` / `MinimizesTurnstile`. "The solver minimizes cross-pool turnstile value"
  (`rlz/pay/solve.rs:3`), but `lower_bound_privacy` counts a surplus in full although change
  is taken out of it: the bound exceeds the cost of the very state, and the most private
  selection is pruned.
* `migration_stop` / `StoppedIsDone`. "the caller repeats this until the reported phase is
  [MigrationPhase.COMPLETE]" (`ZcashWallet.kt:556`), but right after a split the notes are
  reserved and their successors unknown, so the phase is complete: the host stops and
  nothing is ever moved.

Other disagreements met while modelling, without a run of their own. A transaction with
one recognised input is let through although another pending transaction holds a second
one whose note row a rewind removed (`rlz/pay/reserve.rs:139`, against the test at line 897): the
run `reserve` reaches it, and `NoCompetingClaims` says that a missing row is the only way. After
NU6.3 every Orchard output is a change output, for which "actions are `spends + outputs`"
(`rlz/pay/fee.rs:16`), but `FeeManager` counts so for migrations alone: an ordinary payment with
Orchard change that spends two or more Orchard notes is planned at least one action short, and
`build_for_pczt` refuses it. `FeeIsTheBuilders` says that this is the only such case
(`OrchardShort`); that the builder counts so is taken from that comment. "so the fee estimate is exact" (`rlz/migrate/mod.rs:122`) does not
hold for a split without change, which the builder refuses (`OnlyChangelessRefused`). A walk on a
server that forks and narrows windows can leave a marker over an empty window of the abandoned
fork (`rlz/sync.rs:1880`); `MarkerProvesHistory` has `Calm`, that no budget has both, as its hypothesis. A
certified account may have a catch-up debt, which the doc of `TransparentCoverage` excludes
(`rlz/db.rs:899`). `select_notes` gives up when neither a prefix of the largest notes nor all
notes are feasible, although another subset is. Without change and with two recipients in
a pool, the plan's fee is one action above the builder's and a funded payment is refused
(`rlz/pay/plan.rs:952`). `smart_transparent` asks for what an address holds with its dust and
then drops the dust, so the shielding is refused (`rlz/pay/plan.rs:329`). A transparent change
address is allocated twice in one plan (`rlz/pay/plan.rs:691` and 954). A reset clears every
catch-up debt because "the new walk re-derives every debt from what it drops" (`rlz/db.rs:1057`), but
a tick that fails after it has moved the account's own marker to the seam makes the next walk skip
that address: payments above the seam that were once known are then neither notes nor owed
until the seam passes them. The attempt to prove `SeenIsHeldOrOwed` across resets met this; `seen`
therefore starts anew with the account.

Bounds, and why they are enough. Every interleaving of an instance is explored.
Reservation: a competing claim needs two callers, one shared input and one expiry or
rewind in between, and the mixed case a transaction with a second note whose row stays;
several accounts are left to the proofs. Transparent sync: a lost or
phantom payment needs one block below and one above the seam and a replacement for one
of them, hence heights 2 and 3 above a birthday of 1. What may happen is a record `left`,
drawn from `Budgets`: two forks with a failure, so that a fork may land inside the tick
that repairs the first; two forks with a walk; one fork under a walk that may fail and
finds an unknown address; two host operations of any kind around one tick and a walk, or
one with two ticks and a failure; and a server that refuses wide windows, with two walks
and two failures, while payments go to a change address outside the scan window. Batches have two entries, enough for a prefetched reply to be
overtaken. Cycles: two accounts at different heights need two heights above the
birthday, a fork below the higher one and one more height to go on. Session: two flows
contend for the mutex, and one cancel and one close per wallet reach every phase; a
height of 1 tells a synced wallet from one that is not. Mempool: two collections contend for the
slot, and two reports tell an order; a stop of the host, one of each `finally` block and
close meet in every order. Payment: in units of 500 zatoshi, `FUnit` 10; the values are
dust, two actions, six actions and plenty, so that every comparison of the code falls both
ways, and three notes with a beam of two are enough for a note to be left out of the beam,
for a set to be reached along two orders and for a child to be dominated. Migration:
denominations 3 and 12 with a padding of 4 keep the proportions the planner relies on
(`MigrationAssumption`); 13 notes exceed the 12 inputs of a split and trim its outputs; one
wallet's split leaves no change; two events let a payment meet a rejected step.

Assumptions of the models, each named in the module. Address indexes are those that can be
derived without hardening (`MaxIndex`), blocks pay addresses of the budget, and the addresses of a
scope have no gap (`AddressAssumption`: the gap is in which of them are stored and paid). Forks are never undone (a fork
that returns to an earlier hash is not an outcome of an honest server). Blocks up to
the birthday are final. `LateForks` is FALSE in the passing runs of `TransparentSync`: the
window that `sync_late_fork` shows is excluded there so that everything else can be
checked. No budget of `sync` combines `narrow` (a server that refuses wide windows) with
a fork: a walk that is split into windows reads them from different forks and has no
anchor of its own; `MarkerProvesHistory` is stated without that case (`Calm`), and
`CertifiedHasNoHole` is proved without it; see the hazards at `rlz/sync.rs:593` and 1880. `MigrationAssumption`: `Radix` is at most 256 and
no wallet ever receives 256 times the largest denomination, so that the counts of `decompose_to_sd`, which
are cast to eight bits, do not wrap; the code has 10 and 10^15 zatoshi, while the whole supply is
2.1 * 10^15. `MinSd` pays for a split of the most inputs (50) into one output, and its half exceeds
the smallest denomination, as the code's constants do. In `RangeSync` the chain outgrows
every fork. For the bound on failures, a stale target counts as one.

Fairness. `Reserve`: a host that keeps syncing takes scan steps
(`ScanStep`); nothing else is assumed of callers. `RangeSync`: the chain grows, a
started cycle goes on, and every list of accounts is synced again and again with a target
that is, in the end, the tip: the sync flow is collected periodically and each
collection reads the tip. Failures are not assumed away, only bounded. `SyncSession`:
coroutines that can run do, and native steps are taken because every server call either
answers or fails; callers, collectors that leave and discovery walks need not act at
all, so `EveryFlowEnds` does not depend on a cancel being heard. `Mempool`: weak fairness for
the reader's server calls (they answer or fail), for coroutines that can run, collectors
that return from an emission and threads that wait for the slot's lock; strong fairness for
`HearCancel`, because `tokio::select!` polls its branches in random order, so a cancelled reader
is not passed over for ever by a stream that is always ready. `Migration`: every call returns,
a host that goes on makes the next one, and the chain goes on (what is not dropped is
mined, scanned and confirmed, and expiry heights are passed).

Deadlock is checked except where the bounds on ticks, walks or flows are the end of the
instance (`TransparentSync`, `SyncSession`, `Mempool`) or a plan the end of the call (`Payment`).

## 4. Proofs

All for arbitrary sets of accounts, inputs, transactions, wallets, flows and callers
and arbitrary bounds, from the named ASSUME of each module only.

* `ReserveProofs`. `TypeCorrect` includes that every lock and spend refers to a note row.
  `ClaimsHeld` proves that a granted claim is the stored reservation until its expiry:
  this is inductive together with the types, because `Claim` overwrites a reservation
  only if the view does not list it, and the view lists every unexpired holder.
  `ClaimsNeverCompete` and `ClaimedNotesNotOffered` follow from it: a row has one
  holder, and a held unexpired note is active. All three are about inputs whose note row was
  there when they were claimed; the others, which the code lets through, are in `granted` too.
* `RangeSyncProofs`. `NoBlockSkipped` is not inductive: a chunk covers exactly the blocks an
  account lacks only if the account stands where the stream is. `IInv` therefore says
  of a running cycle (`Cut`, `Placed`) that its range ends below the next start,
  that the accounts of the range are at the stream and their transparent height at its
  end, and that the others wait one below the start they reported; of a row (`RowOK`)
  that its scanned blocks are those from birthday to height. Lemmas give what trimming,
  rewinding, pruning and opening a range keep, and what `Min` and `Max` are.
  `RangeTypeCorrect`, `NothingSkipped` and `NothingTwice` follow.
  `SoleStaysOnChain` has an invariant of its own (`SoleInv`). A header says nothing of the blocks
  below it unless it is the header the account wrote, so `MarksOK` says of every height the account may continue
  from (its checkpoints and its height) that the header is there and that, if it is the
  server's, so is all that was scanned up to it; `StreamOK` says the same of a running stream and the
  hash it will compare next; `NamesOK` says that a fork to come brings no known hash back.
  With a second account the first conjunct fails, which is what `range_headers` shows.
* `SyncSessionProofs`. `SInv` says that a flow is between `onStart` and its terminal state iff
  it holds the mutex (`Exclusive`), that the native call is that flow's (`CallBelongs`), and
  that the flag the flow will read is exactly whether it was asked (`FlagIsOwn`). The last is
  what makes `StoppedIffAsked` inductive: another flow of the same wallet cannot reset the
  flag because it would have to be in the mutex. `OneNativeSync`, `StoppedIsHonest`,
  and `FlagIsTrue` follow; the last rests on `Exclusive` too, because `onStart` and `onFinish` of two
  flows of one wallet would otherwise overwrite each other's flag.
* `MempoolProofs`. `IInv` adds to the properties what makes them inductive: a run not begun
  has an empty queue (`Fresh`), a run in the slot belongs to a collection that started it
  (`InSlot`), one stop waits for a run (`OneJoiner`), a run that was begun and is not in the
  slot was taken by a stop (`LostToAStop`), and a clean verdict is not queued while the run is in the slot (`NoCleanQueued`).
  `MempoolTypeCorrect`, `NoReaderStranded`, `SlotFreed`, `CleanIsAStop` and `NothingIsLost` follow;
  `MempoolRefines` shows that every step is a step of `Subscription` or leaves its state
  alone.
* `PaymentProofs`. For every wallet and request. `IInv` says that preparation leaves the
  request as it was asked (`AsAsked`, `Untouched`), that the incumbent is an evaluated feasible
  state and no evaluated one beats it (`BestIsEvaluated`, `TriedAll`), that a queued state is
  recorded under its key with its bound (`SeenIsKnown`), and that the plan is made from the incumbent
  (`MadeFromBest`). The fee lemmas carry the arithmetic: it grows with inputs and
  outputs (`FeeGrows`), and change in a shielded pool without inputs or outputs costs more than
  in one that is used (`UnusedPoolCosts`), which is why such a pool is never chosen.
  `BuilderCounts` compares the two ways of counting an Orchard bundle: they differ exactly in
  `OrchardShort`, so that `FeeIsRight` says when a plan with change is built and when not.
  All six properties of run `payment` are theorems; `MaxIsPaid` says that no amount up to
  what `max_spendable` advertises is refused to a single recipient.
* `TransparentSyncProofs`, types. `Typed` is the type invariant with what the operators of `SyncStore` need: every note
  is of a stored row, cursors of ticks and walks are between their bounds. The lemmas about these operators (what
  trimming, resetting, pruning, writing a window, advancing a marker and paying debts
  change and keep) are stated here once. `Types` follows from it; `PoolPassesNoRow` adds `PoolOK`,
  where the tick stands between opening and closing a pass.
* `TransparentSyncProofs`, history. The claims are made at a seam whose header the server still has, and are not
  inductive: a rewind moves the seam to a checkpoint, a fork takes the ground from under a
  scan. `History` therefore says of every mark (checkpoint or seam) that, as long as the server
  has its hash, the rows are right about every block below it (`Good`: only notes of the block, the notes
  that are owed, the notes a marker claims); the same of the windows of a scan as long as its
  opening anchor stands, without the addresses still to do (`ScanOK`); of a closed pass as long as the shielded stream
  links (`ShieldedOK`); and of a prefetched reply under the marks it may be used with
  (`ReplyOK`, `WindowsOK`). `Known` says that no fork brings a hash back. `NoPhantoms` and `ReceivesAll` are
  proved for `~LateForks`, the negation of what `sync_late_fork` shows to break them; `MarkersProve` too, whose property has
  the hypothesis `Calm` (a server that narrows windows does not fork): on the remaining case TLC finds a marker over
  an empty window of an abandoned fork, see the hazard at `rlz/sync.rs:1880`.
* `TransparentSyncProofs`, debts. `SeenStays` needs neither hypothesis. `Debts` says of each payment that was
  seen and is on the chain that it is a note or owed by its row, that it is a note if it is not above what
  ticks have closed, and that a tick in its transparent pass has the note or still has its height or its address ahead; this is why
  paying the debts at the end of a pass loses nothing.
* `TransparentSyncProofs`, coverage. `CertifiedIsWhole`, for `~LateForks` and `Calm`. A certificate is given at the end of
  a walk of many windows for the seam at its beginning. `Coverage` says of a certificate in force that its height is
  not above the seam nor above the account's own marker (to bring either below it counts
  a trim and voids it), and that no index within the gap limit has a hole up to it in what
  still stands (`Standing`); of a walk in flight (`WalkCov`) that every index
  it has visited is either among those whose marker it will check when it certifies (`covered`) or has no
  hole up to the seam the walk began at, that an entry of its batch without a row was paid nothing below its next window, and that
  no scope is left before the gap limit. `Onward` is the common form of the steps that neither retire a walk nor
  certify; the tick's steps and those of a walk that are not its last are shown to be of that form.

* `SumsProofs`. The sum of a function is a fold over a finite set, which is defined by `CHOOSE`. `FoldExists` and
  `FoldUnique` show that the function the fold is chosen from exists and that any two agree, `SumPick` that a sum is any one value
  and the sum of the rest; the lemmas on sums of sums and on larger sums follow. Each of these
  inductions is an argument about a smallest counterexample: `LeastNat` takes a least element from the library's theorem
  on well-founded relations, and `AllNat` says that a set of naturals with 0 and every successor is all of them. `Joins(B, C, D)` says that
  `D` has what `B` and `C` have; `(+)` and `(-)` are shown to join and part bags, and a weighted total follows (`JoinTotal`).
* `MigrationProofs`. For every base, radix, padding, wallet and deposit. `IInv` has the types with every bag finite,
  `StepOK` (a step whose inputs no payment took holds notes that are there: without it `Send` could reserve the same
  value twice and `Conserved` would not be inductive), `Sound` (a transaction spends at least what it makes, its Ironwood
  outputs are pure denominations and at most one Orchard output is not standard), `Conserved` itself, and `Supply` (what is still to
  come stays within eight-bit counts, which with `Conserved` bounds what the planner is ever given). Four groups of lemmas carry
  the planner: that `Largest` takes a part of a bag, takes all of it when it may, and is worth no less with more notes; that
  `StripFrom` finds the powers of `Radix` and nothing else, so that `is_sd` recognises what `decompose_to_sd` makes; that each
  remainder is below the denomination it was divided by, and the digits are worth no more than the total; that `Kept` leaves the fee.
  `TypesHold`, `ValueIsConserved`, `DenominationsDoAgree` and `LittleRemains` follow.
  `DecomposesExactly` says that `decompose_to_sd` loses nothing as long as no count wraps. `SplitsNeedChange` says that the builder signs a
  split exactly when something is left for its change, and `OnlyChangelessSplitsBlock` that, with the padding of four
  actions the code has (`SD_FEE_PAD`), this is the only plan it ever refuses: the exception `Blocked` of `EverythingMigrates` is that case.

Only model-checked: liveness (`ReservationsAreReleased`, `EveryAccountCatchesUp`,
`EveryFlowEnds`, `StopsReturn`, `CloseEndsCollections`, `EverythingMigrates`), which the prover at hand does not do under
fairness. Every invariant and every property of steps that a passing run checks is a theorem.

## 5. Plan

Done so far, in this order: reservation, transparent sync with discovery, the cycle over
accounts, the session, the mempool with its refinement, payment planning, migration. Left:

1. A cancel sent while no phase listens is lost although `cancelSync` "Stops the running
   sync, whichever wallet started it" (`ZcashWallet.kt:586`): `SyncSession` has the behaviour, a
   run is to state the promise.
2. `AddressAllocation`: index races, the eight attempts, the pigeonhole bound of
   `next_unused_receive_address`.
3. `SaplingParameters`: download, verification and installation of two files under crashes.
4. `Migration` over the rows of `Reserve`, with heights and rewinds.
5. That `TransparentSync` implements a specification of coverage: intervals proved for each
   address that only trims may shrink (`History` and `Coverage` are what its proof would rest on).
6. A run for the debts that a reset clears, see section 3.

## 6. Not modelled

Network clients and the database's schema and pool (I/O; the models see a server that
answers, fails or forks, and SQL transactions that are atomic). Note decryption,
witnesses, keys, memos, signing and proofs (cryptography). Progress values, log lines and
error texts. Of payments: ZSA assets and issuance, addresses, anchors and the PCZT. Of the
migration: the runner with anchor buckets (`run_migration`), which only the Flutter
application compiles in. A sync of an account without shielded keys, which compares no
headers (`rlz/warp/sync.rs:133`). FROST, vault, Ledger, voting, plugins, contacts,
GraphQL: not reachable from the JNI bridge. Generated bindings, samples and build logic.

The models stand for a small part of the repository's lines. About a quarter of them is
generated (`rlz/frb_generated.rs`, `rlz/lwd.rs`); about half of the hand-written Rust is tests inside the source
files; most of the rest is the upstream application's own features listed above, SQL and
conversions without control of their own, and cryptography. What decides when state of the
wallet changes, in which order and on whose behalf is modelled, except address allocation
and the Sapling parameters.

## 7. Running

In this directory: `tlc -config MCReserve.cfg MCReserve` for a run (module and configuration of
each are in `PROJECT.json`), `tlapm ReserveProofs.tla` for a module of proofs. The longest run
takes about three minutes, the longest proof module about eleven.
