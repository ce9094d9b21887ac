----------------------------- MODULE SyncStore -----------------------------
(***************************************************************************)
(* What one account's rows hold about the chain, and the statements that   *)
(* change them: trim, rewind, reset, marker, catch-up debt, coverage       *)
(* record and scan set of rust/rlz/src/{sync,db,account}.rs.  Every        *)
(* operator takes the account's database d and returns the next one; each  *)
(* is one SQL transaction, or is called inside one.                        *)
(*                                                                         *)
(* A note is the address it pays, its height and the fork of its block;    *)
(* spends, values and shielded notes are left out, so every note counts as *)
(* unspent.  NULL is Null for a marker and 0 for a debt: heights begin     *)
(* at 1.                                                                   *)
(***************************************************************************)
EXTENDS Integers, FiniteSets, FiniteSetsExt

CONSTANTS
    Addr,         \* transparent addresses <<scope, dindex>> of the account
    ChangeLimit   \* transparent_limit: how many change addresses a tick scans

\* The last non-hardened derivation index.
MaxIndex == 2147483647

ASSUME StoreAssumption ==
    /\ Addr \subseteq {0, 1} \X (0 .. MaxIndex)
    /\ <<0, 0>> \in Addr
    /\ ChangeLimit \in Nat

Null == -1
NoCoverage == [trim |-> Null, gap |-> 0, from |-> 0]

ReceiveScope == 0
ChangeScope == 1
Own == <<0, 0>>

Larger(m, n) == IF m >= n THEN m ELSE n
Smaller(m, n) == IF m <= n THEN m ELSE n

\* A row of transparent_address_accounts.  since is history: ticks
\* owe the address what it is paid above this height, the seam it was stored
\* at or a lower one the account went back to.
Row(since) == [stored |-> TRUE, marker |-> Null, owed |-> 0, used |-> FALSE,
               since |-> since]
NoRow == [Row(0) EXCEPT !.stored = FALSE]

\* An account just restored: its own address, nothing scanned.
Restored(birth, incarnation) ==
    [hT    |-> birth,     \* sync_heights of pool 0
     hS    |-> birth,     \* sync_heights of the shielded pools
     wit   |-> {},        \* heights that have witness rows
     rows  |-> [a \in Addr |-> IF a = Own THEN Row(birth) ELSE NoRow],
     notes |-> {},        \* transparent notes
     trims |-> 0,         \* props tcov_trim
     inc   |-> incarnation,  \* props tcov_life
     cov   |-> NoCoverage,   \* props tcov_certified
     birth |-> birth]

-----------------------------------------------------------------------------
(* Reading.                                                                *)

Seam(d) == Smaller(d.hT, d.hS)

Stored(d) == {a \in Addr : d.rows[a].stored}

IsUsed(d, a) == d.rows[a].used \/ \E n \in d.notes : n.addr = a

HighestStored(d, scope) ==
    LET held == {a[2] : a \in {b \in Stored(d) : b[1] = scope}}
    IN  IF held = {} THEN Null ELSE Max(held)

Newest(d) ==
    LET change == {a \in Stored(d) : a[1] = ChangeScope}
    IN  {a \in change :
            Cardinality({b \in change : b[2] > a[2]}) < ChangeLimit}

\* Mutant of ScanSet: of the receive addresses only the account's own.
ScanSetOwn(d) ==
    {a \in Stored(d) : a = Own \/ a \in Newest(d) \/ d.rows[a].owed # 0}

\* transparent_addresses_to_scan.
ScanSet(d) ==
    {a \in Stored(d) : \/ a[1] = ReceiveScope
                       \/ a \in Newest(d)
                       \/ \E n \in d.notes : n.addr = a
                       \/ d.rows[a].owed # 0}

Certified(d) == d.cov.trim = d.trims

-----------------------------------------------------------------------------
(* Writing.                                                                *)

\* Mutant of AdvancedMarker: contiguity with the marker is not required.
AdvancedAnywhere(d, a, from, through) ==
    IF d.rows[a].marker < through
    THEN [d EXCEPT !.rows[a].marker = through]
    ELSE d

\* advance_backfilled_height: only where [from, through] joins what the row
\* already proves, and never down.
AdvancedMarker(d, a, from, through) ==
    IF /\ from <= Larger(d.rows[a].marker + 1, d.birth)
       /\ d.rows[a].marker < through
    THEN [d EXCEPT !.rows[a].marker = through]
    ELSE d

RaisedDebt(d, a, through) ==
    [d EXCEPT !.rows[a].owed = Larger(@, through)]

\* A debt is paid by the row's own marker alone.
PaidDebts(d) ==
    [d EXCEPT !.rows =
        [a \in Addr |-> IF d.rows[a].marker >= d.rows[a].owed
                        THEN [d.rows[a] EXCEPT !.owed = 0]
                        ELSE d.rows[a]]]

\* write_transparent_window.
Written(d, a, found, used) ==
    [d EXCEPT !.notes = @ \cup found, !.rows[a].used = @ \/ used]

\* Mutant of StoredAddress: the found address is not stored.
StoredNever(d, a) == d

\* store_account_transparent_addr.
StoredAddress(d, a) ==
    IF d.rows[a].stored THEN d ELSE [d EXCEPT !.rows[a] = Row(Seam(d))]

Above(notes, a, h) == {n \in notes : n.addr = a /\ n.height > h}

\* Mutant of Trimmed: nothing counts the trim.
TrimmedQuietly(d, h) ==
    [d EXCEPT !.hT = h, !.hS = h,
              !.wit = {w \in @ : w <= h},
              !.notes = {n \in @ : n.height <= h},
              !.rows = [a \in Addr |-> [d.rows[a] EXCEPT
                  !.marker = Smaller(@, h),
                  !.owed = Max({@} \cup {n.height : n \in Above(d.notes, a, h)})]]]

\* Mutant of Trimmed: the deleted notes do not re-owe their addresses.
TrimmedForgives(d, h) ==
    [d EXCEPT !.hT = h, !.hS = h,
              !.wit = {w \in @ : w <= h},
              !.notes = {n \in @ : n.height <= h},
              !.rows = [a \in Addr |-> [d.rows[a] EXCEPT
                          !.marker = Smaller(@, h)]],
              !.trims = @ + 1]

\* Mutant of Trimmed: the notes above h stay.
TrimmedKeepsNotes(d, h) ==
    [d EXCEPT !.hT = h, !.hS = h,
              !.wit = {w \in @ : w <= h},
              !.rows = [a \in Addr |-> [d.rows[a] EXCEPT
                          !.marker = Smaller(@, h)]],
              !.trims = @ + 1]

\* trim_sync_data: notes above h go and re-owe their addresses' catch-up,
\* markers above h come down, and the counter moves if anything did.
Trimmed(d, h) ==
    [d EXCEPT
        !.hT = h, !.hS = h,
        !.wit = {w \in @ : w <= h},
        !.notes = {n \in @ : n.height <= h},
        !.rows = [a \in Addr |-> [d.rows[a] EXCEPT
            !.marker = Smaller(@, h),
            !.since = Smaller(@, h),
            !.owed = IF Above(d.notes, a, h) = {} THEN @
                     ELSE Larger(@, Max({n.height : n \in Above(d.notes, a, h)}))]],
        !.trims = IF \/ \E n \in d.notes : n.height > h
                     \/ \E w \in d.wit : w > h
                     \/ \E a \in Addr : d.rows[a].marker > h
                  THEN @ + 1 ELSE @]

\* retire_transparent_walks.
Retired(d) == [d EXCEPT !.inc = @ + 1]

ResetSync(d) ==
    LET t == Trimmed(d, 0)
    IN  Retired([t EXCEPT
            !.rows = [a \in Addr |-> [t.rows[a] EXCEPT !.owed = 0,
                                                        !.since = d.birth]],
            !.hT = d.birth, !.hS = d.birth])

\* rewind_sync: the latest checkpoint strictly below h, or everything.
RewoundSync(d, h) ==
    LET below == {w \in d.wit : w < h}
    IN  IF below = {} THEN ResetSync(d) ELSE Retired(Trimmed(d, Max(below)))

\* prune_old_checkpoints: the latest checkpoint below the cutoff is kept.
PrunedCheckpoints(d, cutoff) ==
    LET old == {w \in d.wit : w < cutoff}
    IN  IF old = {} THEN d
        ELSE [d EXCEPT !.wit = {w \in @ : w >= Max(old)}]

ClearedCoverage(d) == Retired([d EXCEPT !.trims = 0, !.cov = NoCoverage])

\* update_account with a new birthday.  No tick went below the old one.
MovedBirth(d, birth) ==
    ClearedCoverage([d EXCEPT
        !.birth = birth,
        !.rows = [a \in Addr |-> [d.rows[a] EXCEPT
                    !.marker = Null, !.since = Larger(@, d.birth - 1)]]])

\* delete_account, then a restore that reuses the numeric id.
Replaced(d) == Restored(d.birth, d.inc + 1)

\* write_transparent_coverage; from is history: the seam at the walk's start.
WrittenCoverage(d, gap, from) ==
    [d EXCEPT !.cov = [trim |-> d.trims, gap |-> Larger(@.gap, gap),
                       from |-> from]]
=============================================================================
