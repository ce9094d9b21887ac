-------------------------- MODULE TransparentSync --------------------------
(***************************************************************************)
(* One account's transparent history against a chain that forks: the sync  *)
(* tick (transparent pass, then shielded pass) and the discovery walk of   *)
(* rust/rlz/src/sync.rs, with the host operations that take the same lock. *)
(*                                                                         *)
(* The lock SYNCING is held for the whole tick and, by the walk, for one   *)
(* window at a time, so a walk step or a host step is one action that      *)
(* needs the tick idle; ticks run between any two of them.  The server     *)
(* answers from the chain of the moment.  A failed, cancelled or killed    *)
(* tick leaves behind what it committed.                                   *)
(*                                                                         *)
(* A block is the fork it was mined on and the address it pays; two blocks *)
(* at a height have the same hash iff they have the same fork.  The        *)
(* narrowest window (1000 blocks) is scaled to one block.                  *)
(***************************************************************************)
EXTENDS SyncStore, Sequences

CONSTANTS
    NoAddr,         \* a block that pays nobody here
    Birth,          \* the account's birthday
    Births,         \* birthdays the host may move it to
    GapLimit,       \* gap_limit of a discovery walk
    Width,          \* concurrency of a discovery walk
    CheckpointAge,  \* checkpoint_age
    LateForks,      \* the chain may fork under the shielded pass, see Fork
    MaxHeight,      \* bound: height of the chain
    Budgets         \* bounds: what a behaviour may contain, see Budget

\* How many forks, ticks, walks, failures (with cancellations and deaths) and
\* host operations a behaviour has left; the addresses that exist and those
\* that blocks pay, whether the server refuses wide windows, and which host
\* operations occur do not change on the way.
Budget ==
    [addrs : SUBSET Addr, payees : SUBSET Addr, narrow : BOOLEAN,
     forks : Nat, ticks : Nat, walks : Nat, fails : Nat, host : Nat,
     ops : SUBSET {"rewind", "reset", "replace", "birth", "receive", "change"}]

ASSUME SyncAssumption ==
    /\ NoAddr \notin Addr
    /\ Birth \in Nat \ {0} /\ Births \subseteq 1 .. Birth
    /\ GapLimit \in Nat /\ Width \in Nat \ {0} /\ CheckpointAge \in Nat
    /\ LateForks \in BOOLEAN
    /\ MaxHeight \in Nat /\ MaxHeight >= Birth
    /\ \A b \in Budgets : b \in Budget

\* Blocks pay addresses that exist, and a scope's indexes have no gap.
ASSUME AddressAssumption ==
    \A b \in Budgets :
        /\ b.payees \subseteq b.addrs
        /\ \A a \in b.addrs : \A i \in 0 .. a[2] : <<a[1], i>> \in b.addrs

VARIABLES
    chain,   \* the server's chain
    db,      \* the account's rows
    hdr,     \* the headers table, shared by all accounts
    tick,    \* the sync tick, holder of SYNCING unless idle
    walk,    \* the discovery walk
    seen,    \* history: payments this wallet has written or been told of since
             \* it last started over from its birthday
    left     \* what is left of this behaviour's budget

vars == <<chain, db, hdr, tick, walk, seen, left>>

Height == 1 .. MaxHeight
NoHash == -1

Idle == [at |-> "idle", start |-> 0, end |-> 0, anchor |-> NoHash,
         todo |-> {}, addr |-> NoAddr, lo |-> 0, cur |-> 0, prev |-> NoHash]

NoWalk == [at |-> "idle", inc |-> 0, trim |-> 0, from |-> 0, end |-> 0,
           stored |-> <<Null, Null>>, scope |-> 0, next |-> 0, gap |-> 0,
           width |-> 1, batch |-> << >>, seam |-> 0, covered |-> {}]

-----------------------------------------------------------------------------
(* The server.                                                             *)

Tip == Len(chain)

HashAt(h) == IF h \in 1 .. Tip THEN chain[h].fork ELSE NoHash

\* What taddress_txs answers for one address and one range.
Payments(a, lo, hi) ==
    {[addr |-> a, height |-> h, fork |-> chain[h].fork] :
        h \in {k \in lo .. Smaller(hi, Tip) : chain[k].pays = a}}

OnChain(n) == HashAt(n.height) = n.fork

Mine ==
    /\ Tip < MaxHeight
    /\ \E a \in left.payees \cup {NoAddr} :
          chain' = Append(chain, [fork |-> left.forks, pays |-> a])
    /\ UNCHANGED <<db, hdr, tick, walk, seen, left>>

\* The blocks from f on are gone; others take their place.  Blocks up to the
\* birthday are final.  Unless LateForks, no fork replaces a block of the
\* range whose transparent pass is closed and whose shielded pass has not
\* streamed it yet.
Fork(f) ==
    /\ left.forks > 0
    /\ f \in (Birth + 1) .. Tip
    /\ ~LateForks => ~(tick.at = "shielded" /\ f > tick.cur /\ f <= tick.end)
    /\ chain' = SubSeq(chain, 1, f - 1)
    /\ left' = [left EXCEPT !.forks = @ - 1]
    /\ UNCHANGED <<db, hdr, tick, walk, seen>>

\* INSERT INTO headers ... ON CONFLICT DO NOTHING.
StoredHeaders(heights) ==
    [h \in Height |-> IF h \in heights /\ hdr[h] = NoHash
                      THEN HashAt(h) ELSE hdr[h]]

\* One of the bounded failures.
Failing ==
    /\ left.fails > 0
    /\ left' = [left EXCEPT !.fails = @ - 1]

HeightsOf(found) == {n.height : n \in found}

-----------------------------------------------------------------------------
(* The sync tick.                                                          *)

\* prune_old_checkpoints, recover_from_partial_sync and the scan set.  The
\* host passes the tip it knows; a wallet ahead of it stops after recovery.
StartTick ==
    LET d == Trimmed(PrunedCheckpoints(db, Tip - CheckpointAge), Seam(db)) IN
    /\ tick.at = "idle" /\ left.ticks > 0
    /\ db' = d
    /\ tick' = IF Seam(d) >= Tip THEN Idle
               ELSE [Idle EXCEPT !.at = "open", !.start = Seam(d) + 1,
                                 !.end = Tip, !.todo = ScanSet(d)]
    /\ left' = [left EXCEPT !.ticks = @ - 1]
    /\ UNCHANGED <<chain, hdr, walk, seen>>

\* The opening chain_anchor.
OpenAnchor ==
    /\ tick.at = "open" /\ tick.end <= Tip
    /\ tick' = [tick EXCEPT !.at = "scan", !.anchor = HashAt(tick.end)]
    /\ UNCHANGED <<chain, db, hdr, walk, seen, left>>

\* Default address first, then the other receive addresses, then change.
ScanOrder(todo) ==
    CHOOSE a \in todo : \A b \in todo :
        \/ a = b \/ a = Own
        \/ b # Own /\ a[1] < b[1]
        \/ b # Own /\ a[1] = b[1] /\ a[2] > b[2]

\* Mutant of RangeStart: a row behind the pool is scanned from the pool's
\* height, as if its marker did not exist.
RangeStartAtPool(a) == Larger(db.birth, tick.start)

RangeStart(a) ==
    Larger(db.birth, IF db.rows[a].marker = Null THEN tick.start
                     ELSE Smaller(tick.start, db.rows[a].marker + 1))

\* The range an address still owes below the seam lands in one transaction,
\* committed only if the anchor still stands; forks are never undone, so the
\* answers were all given by the chain of this moment.
StartAddress ==
    LET a == ScanOrder(tick.todo)
        lo == RangeStart(a)
        found == Payments(a, lo, Seam(db))
    IN
    /\ tick.at = "scan" /\ tick.addr = NoAddr /\ tick.todo # {}
    /\ lo <= Seam(db) => HashAt(tick.end) = tick.anchor
    /\ db' = IF lo <= Seam(db)
             THEN AdvancedMarker(Written(db, a, found, found # {}),
                                 a, lo, Seam(db))
             ELSE db
    /\ hdr' = StoredHeaders(HeightsOf(found))
    /\ seen' = seen \cup found
    /\ tick' = [tick EXCEPT !.todo = @ \ {a}, !.addr = a,
                            !.lo = Larger(lo, Seam(db) + 1)]
    /\ UNCHANGED <<chain, walk, left>>

\* One window above the seam, committed at once: scratch until the pool
\* moves.
ScanWindow(hi) ==
    LET a == tick.addr
        found == Payments(a, tick.lo, hi)
    IN
    /\ tick.at = "scan" /\ a # NoAddr
    /\ hi \in tick.lo .. tick.end /\ (hi = tick.end \/ left.narrow)
    /\ db' = AdvancedMarker(Written(db, a, found, found # {}), a, tick.lo, hi)
    /\ hdr' = StoredHeaders(HeightsOf(found))
    /\ seen' = seen \cup found
    /\ tick' = [tick EXCEPT !.lo = hi + 1,
                            !.addr = IF hi = tick.end THEN NoAddr ELSE @]
    /\ UNCHANGED <<chain, walk, left>>

\* The window is written but its block times cannot be fetched: no marker,
\* and the window is asked for again.
ScanWindowUndated(hi) ==
    LET a == tick.addr
        found == Payments(a, tick.lo, hi)
    IN
    /\ tick.at = "scan" /\ a # NoAddr
    /\ hi \in tick.lo .. tick.end /\ (hi = tick.end \/ left.narrow)
    /\ found # {} /\ Failing
    /\ db' = Written(db, a, found, TRUE)
    /\ seen' = seen \cup found
    /\ UNCHANGED <<chain, hdr, tick, walk>>

ScanDone == tick.at = "scan" /\ tick.addr = NoAddr /\ tick.todo = {}

\* The closing chain_anchor, the pool's new height and the debts it pays.
ClosePass ==
    /\ ScanDone /\ HashAt(tick.end) = tick.anchor
    /\ db' = PaidDebts([db EXCEPT !.hT = tick.end])
    /\ tick' = [Idle EXCEPT !.at = "shielded", !.start = tick.start,
                            !.end = tick.end, !.cur = tick.start - 1,
                            !.prev = hdr[tick.start - 1]]
    /\ UNCHANGED <<chain, hdr, walk, seen, left>>

Linked == tick.prev \in {NoHash, HashAt(tick.cur)}

\* The shielded pass commits the blocks up to h: checkpoint, header and, if
\* the account holds a shielded note, witnesses.
CommitChunk(h, witnessed) ==
    /\ tick.at = "shielded" /\ Linked
    /\ h \in (tick.cur + 1) .. tick.end /\ h <= Tip
    /\ db' = [db EXCEPT !.hS = h, !.wit = IF witnessed THEN @ \cup {h} ELSE @]
    /\ hdr' = StoredHeaders({h})
    /\ tick' = IF h = tick.end THEN Idle
               ELSE [tick EXCEPT !.cur = h, !.prev = HashAt(h)]
    /\ UNCHANGED <<chain, walk, seen, left>>

\* History of a rewind: one without a checkpoint below h starts over, and a
\* reset clears every debt on purpose.
Remembered(h) == IF \E w \in db.wit : w < h THEN seen ELSE {}

\* The next block does not link to the last one: rewind, and the tick fails.
MeetReorg ==
    /\ tick.at = "shielded" /\ ~Linked /\ tick.cur < Tip
    /\ db' = RewoundSync(db, tick.cur)
    /\ hdr' = [h \in Height |-> IF h > tick.cur THEN NoHash ELSE hdr[h]]
    /\ seen' = Remembered(tick.cur)
    /\ tick' = Idle
    /\ UNCHANGED <<chain, walk, left>>

\* Error, cancellation or process death.
FailTick ==
    /\ tick.at # "idle" /\ Failing
    /\ tick' = Idle
    /\ UNCHANGED <<chain, db, hdr, walk, seen>>

Tick ==
    \/ StartTick \/ OpenAnchor \/ StartAddress
    \/ \E h \in Height : ScanWindow(h) \/ ScanWindowUndated(h)
    \/ ClosePass
    \/ \E h \in Height, w \in BOOLEAN : CommitChunk(h, w)
    \/ MeetReorg \/ FailTick

-----------------------------------------------------------------------------
(* The discovery walk.  A batch entry is one derivation index: skip says    *)
(* that nothing has to be requested, lo and mlo are the next window and the *)
(* start of the range its marker may claim, trim the counter the index was  *)
(* first walked under, reply what a prefetch brought.                       *)

NoReply == [seam |-> Null, found |-> {}]

Quiet == tick.at = "idle"

\* ensure_same_account.
SameAccount == db.inc = walk.inc

StartWalk ==
    /\ Quiet /\ walk.at = "idle" /\ left.walks > 0
    /\ walk' = [NoWalk EXCEPT
          !.at = "plan", !.inc = db.inc, !.trim = db.trims,
          !.from = Seam(db), !.end = Tip, !.width = Width,
          !.stored = <<HighestStored(db, 0), HighestStored(db, 1)>>]
    /\ left' = [left EXCEPT !.walks = @ - 1]
    /\ UNCHANGED <<chain, db, hdr, tick, seen>>

Requested(w, e) == ~e.skip /\ e.lo <= w.end
Requests(w) == Cardinality({i \in DOMAIN w.batch : Requested(w, w.batch[i])})

\* How many indexes the walk is certain to reach from the batch's first.
Certain(w) ==
    Larger(GapLimit + 1 - w.gap,
           w.stored[w.scope + 1] + 1 - (w.next - Len(w.batch)))

\* Indexes outside addrs are never paid nor stored: visiting them changes
\* nothing, so the walk leaves a scope at the first of them.
CanPlan(w) ==
    /\ <<w.scope, w.next>> \in left.addrs
    /\ Len(w.batch) < Certain(w) /\ Requests(w) < w.width

\* What the walk does with no more to plan: a lone request is left to the
\* guarded window, two or more are prefetched, an empty batch ends the scope.
Planned(w) ==
    LET other == [w EXCEPT !.scope = 1, !.next = 0, !.gap = 0]
    IN  CASE CanPlan(w) -> [w EXCEPT !.at = "plan"]
          [] w.batch # << >> ->
               [w EXCEPT !.at = IF Requests(w) >= 2 THEN "seam" ELSE "ingest"]
          [] w.batch = << >> /\ ~CanPlan(w) /\ w.scope = 0 /\ CanPlan(other) ->
               [other EXCEPT !.at = "plan"]
          [] OTHER -> [w EXCEPT !.at = "certify"]

\* candidate_start.
PlanCandidate ==
    LET a == <<walk.scope, walk.next>>
        r == db.rows[a]
        lo == Larger(r.marker + 1, db.birth)
    IN
    /\ walk.at = "plan" /\ Quiet /\ SameAccount
    /\ walk' = Planned([walk EXCEPT !.next = @ + 1, !.batch = Append(@,
          [addr |-> a, had |-> r.stored, lo |-> lo, mlo |-> lo, trim |-> Null,
           used |-> FALSE, reply |-> NoReply,
           skip |-> r.stored /\ r.marker >= Seam(db) /\ IsUsed(db, a)])])
    /\ UNCHANGED <<chain, db, hdr, tick, seen, left>>

ReadBatchSeam ==
    /\ walk.at = "seam" /\ Quiet
    /\ walk' = [walk EXCEPT !.at = "fetch", !.seam = Seam(db)]
    /\ UNCHANGED <<chain, db, hdr, tick, seen, left>>

\* Outside SYNCING.  From the first failed probe on, k entries in, the
\* replies are dropped and the batches get narrower.
Prefetch(k) ==
    LET n == Len(walk.batch) IN
    /\ walk.at = "fetch" /\ k \in 0 .. n /\ (k = n \/ left.narrow)
    /\ walk' = [walk EXCEPT
          !.at = "ingest",
          !.width = IF k = n THEN @ ELSE Larger(@ \div 2, 1),
          !.batch = [i \in 1 .. n |->
              IF i <= k /\ Requested(walk, @[i])
              THEN [@[i] EXCEPT !.reply =
                     [seam |-> walk.seam,
                      found |-> Payments(walk.batch[i].addr, walk.batch[i].lo,
                                        walk.end)]]
              ELSE @[i]]]
    /\ UNCHANGED <<chain, db, hdr, tick, seen, left>>

\* The walk with its first entry done: covered if it has a row, and a step
\* of the gap unless it has one or was found used.
Passed(row, used) ==
    LET w == [walk EXCEPT
                !.batch = Tail(@),
                !.gap = IF row \/ used THEN 0 ELSE @ + 1,
                !.covered = IF row THEN @ \cup {Head(walk.batch).addr} ELSE @]
    IN  IF w.batch = << >> THEN Planned(w) ELSE w

SkipCandidate ==
    LET e == Head(walk.batch) IN
    /\ walk.at = "ingest" /\ ~Requested(walk, e)
    /\ walk' = Passed(e.skip \/ e.had, FALSE)
    /\ UNCHANGED <<chain, db, hdr, tick, seen, left>>

First == Head(walk.batch)

\* A reply is used only under the seam it was asked for.
Replied == First.reply.seam = Seam(db)
Answer(hi) == IF Replied THEN First.reply.found
              ELSE Payments(First.addr, First.lo, hi)

WalkedTrim == IF First.trim = Null THEN db.trims ELSE First.trim

\* No trim since the index was first walked.
Intact == WalkedTrim = db.trims

InWindow(hi) ==
    /\ walk.at = "ingest" /\ Requested(walk, First) /\ Quiet /\ SameAccount
    /\ hi \in First.lo .. walk.end
    /\ hi = walk.end \/ (left.narrow /\ ~Replied)

\* First with its window [lo, hi] behind it, or asked for again.
Stepped(lo, mlo, used) ==
    [walk EXCEPT !.batch[1] = [@ EXCEPT !.lo = lo, !.mlo = mlo, !.used = used,
                                        !.trim = WalkedTrim, !.reply = NoReply]]

\* No row and nothing found: the window proves nothing and stores nothing.
ProbeWindow(hi) ==
    /\ InWindow(hi) /\ ~db.rows[First.addr].stored /\ Answer(hi) = {}
    /\ walk' = IF hi = walk.end THEN Passed(FALSE, First.used)
               ELSE Stepped(hi + 1, First.mlo, First.used)
    /\ UNCHANGED <<chain, db, hdr, tick, seen, left>>

\* The rows of a window: what lies above the seam is only a debt.
IngestedRows(hi) ==
    LET a == First.addr
        kept == {n \in Answer(hi) : n.height <= Seam(db)}
        late == HeightsOf(Answer(hi) \ kept)
        d == Written(StoredAddress(db, a), a, kept, Answer(hi) # {})
    IN  IF late = {} THEN d ELSE RaisedDebt(d, a, Max(late))

HasRows(hi) == db.rows[First.addr].stored \/ Answer(hi) # {}

\* ingest_backfill_window.
IngestWindow(hi) ==
    LET through == Smaller(hi, Seam(db)) IN
    /\ InWindow(hi) /\ HasRows(hi)
    /\ db' = IF Intact /\ through >= First.mlo
             THEN AdvancedMarker(IngestedRows(hi), First.addr, First.mlo,
                                 through)
             ELSE IngestedRows(hi)
    /\ hdr' = StoredHeaders(HeightsOf({n \in Answer(hi) : n.height <= through}))
    /\ seen' = seen \cup Answer(hi)
    /\ walk' = IF hi = walk.end THEN Passed(TRUE, TRUE)
               ELSE Stepped(hi + 1, IF Intact THEN hi + 1 ELSE First.mlo,
                            First.used \/ Answer(hi) # {})
    /\ UNCHANGED <<chain, tick, left>>

\* As ScanWindowUndated: the rows are committed, the window is asked again.
IngestUndated(hi) ==
    /\ InWindow(hi) /\ HasRows(hi)
    /\ Failing /\ \E n \in Answer(hi) : n.height <= Seam(db)
    /\ db' = IngestedRows(hi)
    /\ seen' = seen \cup Answer(hi)
    /\ walk' = Stepped(First.lo, First.mlo, TRUE)
    /\ UNCHANGED <<chain, hdr, tick>>

\* The last critical section of discover_transparent_addresses.
Certify ==
    /\ walk.at = "certify" /\ Quiet /\ SameAccount
    /\ \A a \in walk.covered : /\ db.rows[a].stored
                                /\ db.rows[a].marker >= Seam(db)
    /\ db.trims = walk.trim
    /\ db' = WrittenCoverage(db, GapLimit, walk.from)
    /\ walk' = NoWalk
    /\ UNCHANGED <<chain, hdr, tick, seen, left>>

\* An error, a cancellation, an account that is no longer the same, markers
\* short of the seam, a trim since the start.
FailWalk ==
    /\ walk.at # "idle" /\ Failing
    /\ walk' = NoWalk
    /\ UNCHANGED <<chain, db, hdr, tick, seen>>

Walk ==
    \/ StartWalk \/ PlanCandidate \/ ReadBatchSeam
    \/ \E k \in 0 .. Cardinality(Addr) : Prefetch(k)
    \/ SkipCandidate
    \/ \E h \in Height : ProbeWindow(h) \/ IngestWindow(h) \/ IngestUndated(h)
    \/ Certify \/ FailWalk

-----------------------------------------------------------------------------
(* Host operations.                                                        *)

\* All but a new change address take SYNCING.
Host(op) ==
    /\ op \in left.ops /\ left.host > 0
    /\ op # "change" => Quiet
    /\ left' = [left EXCEPT !.host = @ - 1]
    /\ UNCHANGED <<chain, tick, walk>>

HostRewind(h) ==
    /\ Host("rewind")
    /\ db' = RewoundSync(db, h)
    /\ hdr' = [k \in Height |-> IF k > h THEN NoHash ELSE hdr[k]]
    /\ seen' = Remembered(h)

HostReset ==
    /\ Host("reset")
    /\ db' = ResetSync(db)
    /\ seen' = {}
    /\ UNCHANGED hdr

HostReplace ==
    /\ Host("replace")
    /\ db' = Replaced(db)
    /\ seen' = {}
    /\ UNCHANGED hdr

HostBirth(b) ==
    /\ Host("birth")
    /\ db' = MovedBirth(db, b)
    /\ seen' = {n \in seen : n.height >= b}
    /\ UNCHANGED hdr

\* The next address of a scope, stored without a marker.
HostAddress(op, scope) ==
    LET a == <<scope, HighestStored(db, scope) + 1>> IN
    /\ Host(op) /\ a \in left.addrs
    /\ db' = StoredAddress(db, a)
    /\ UNCHANGED <<hdr, seen>>

HostStep ==
    \/ \E h \in Height : HostRewind(h)
    \/ HostReset \/ HostReplace
    \/ \E b \in Births : HostBirth(b)
    \/ HostAddress("receive", ReceiveScope)
    \/ HostAddress("change", ChangeScope)

-----------------------------------------------------------------------------
Init ==
    /\ left \in Budgets
    /\ chain \in [1 .. Birth -> [fork : {left.forks},
                                pays : left.payees \cup {NoAddr}]]
    /\ db = Restored(Birth, 0)
    /\ hdr = [h \in Height |-> NoHash]
    /\ tick = Idle /\ walk = NoWalk /\ seen = {}

Next == Mine \/ (\E f \in Height : Fork(f)) \/ Tick \/ Walk \/ HostStep

Spec == Init /\ [][Next]_vars

-----------------------------------------------------------------------------
(* Properties.                                                             *)

\* A fork is named by how many more may follow it.
Forks == UNION {0 .. b.forks : b \in Budgets}

Notes == [addr : Addr, height : Height, fork : Forks]

\* Every variable has its type, and every note and debt belongs to a stored
\* address: write_transparent_window and raise_catch_up_debt name its row.
TypeOK ==
    /\ chain \in Seq([fork : Forks, pays : Addr \cup {NoAddr}])
    /\ Tip <= MaxHeight
    /\ {db.hT, db.hS} \subseteq Height
    /\ db.wit \subseteq Height /\ db.notes \subseteq Notes
    /\ db.trims \in Nat /\ db.inc \in Nat
    /\ \A a \in Addr :
          /\ db.rows[a].marker \in Null .. MaxHeight
          /\ db.rows[a].owed \in 0 .. MaxHeight
          /\ IsUsed(db, a) \/ db.rows[a].owed # 0 => db.rows[a].stored
    /\ hdr \in [Height -> {NoHash} \cup Forks]
    /\ seen \subseteq Notes

\* The header a tick compares at the seam is the server's: no rewind is due.
Agrees == hdr[Seam(db)] = HashAt(Seam(db)) /\ hdr[Seam(db)] # NoHash

\* A server that makes the wallet narrow its windows does not fork.
Calm == \A b \in Budgets : b.narrow => b.forks = 0

\* A marker proves what it says, on a server that does not both fork and make
\* the wallet narrow its windows: once the wallet is on the server's chain,
\* every payment from the birthday to min(marker, seam) of a stored address
\* is a note, whatever ticks, walks, failures and either forks or narrow windows
\* came before (advance_backfilled_height, trim_sync_data, walk_candidate).  With
\* both it is not so: an empty window that the abandoned fork answered stays
\* inside the marker of a row that a later window stores (sync.rs:1880).
MarkerProvesHistory ==
    Calm /\ Agrees => \A a \in Stored(db) :
        Payments(a, db.birth, Smaller(db.rows[a].marker, Seam(db)))
            \subseteq db.notes

\* The pool never passes a row: once the transparent pass is closed, every
\* receive address with a marker is marked through the pool's new height,
\* however far behind a failure or a rewind had left it (sync_address_range).
PoolNeverPassesARow ==
    tick.at = "shielded" => \A a \in Stored(db) :
        a[1] = ReceiveScope /\ db.rows[a].marker # Null
            => db.rows[a].marker >= db.hT

\* A receive address misses no payment: everything paid to it above the seam
\* it was stored at, or a lower one the account was rewound to, is a note up to
\* the seam (transparent_addresses_to_scan: "none of them may fall out of the
\* scan set").
ReceiveMissesNothing ==
    Agrees => \A a \in Stored(db) : a[1] = ReceiveScope =>
        Payments(a, Larger(db.birth, db.rows[a].since + 1), Seam(db))
            \subseteq db.notes

\* No phantom money: a note at or below the seam is a payment of the
\* server's chain, though ticks and walks read several forks.
NoPhantomNotes ==
    Agrees => \A n \in db.notes : n.height <= Seam(db) => OnChain(n)

\* A certified account has no hole: every payment at or below the height the
\* walk certified, to an address within the gap limit, stored or not, is a
\* note (discover_transparent_addresses).
CertifiedHasNoHole ==
    Agrees /\ Certified(db) =>
        \A a \in Addr : a[2] <= GapLimit =>
            Payments(a, db.birth, db.cov.from) \subseteq db.notes

\* Announced history is never lost silently: a payment of the server's chain
\* the wallet has once seen is a note or is still owed, so the next tick's scan
\* set carries its address, until the account starts over (raise_catch_up_debt,
\* trim_sync_data, transparent_sync).
SeenIsHeldOrOwed ==
    \A n \in seen :
        OnChain(n) => n \in db.notes \/ db.rows[n.addr].owed >= n.height
=============================================================================
