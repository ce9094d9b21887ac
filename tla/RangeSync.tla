----------------------------- MODULE RangeSync -----------------------------
(***************************************************************************)
(* A sync cycle over several accounts: sync_height_ranges cuts the way to  *)
(* the tip at every account's height, warp_sync checks that the blocks of  *)
(* a range link to the stored header below it, and a break rewinds the     *)
(* accounts of that range (rust/rlz/src/sync.rs, warp/sync.rs).  Headers   *)
(* are one table for all accounts; checkpoints are per account.            *)
(*                                                                         *)
(* The chain is the fork each block was mined on: two blocks at a height   *)
(* have the same hash iff they have the same fork.  What an account has    *)
(* scanned is the fork of every block it took notes from.  Of the          *)
(* transparent pass, the subject of TransparentSync, only the height it    *)
(* leaves behind matters here.                                             *)
(***************************************************************************)
EXTENDS Integers, FiniteSets, Sequences, FiniteSetsExt

CONSTANTS
    Account,       \* accounts of the wallet
    Birth,         \* Birth[a]: the birthday a sync of a starts from
    Hosts,         \* each the lists of accounts a host may sync together
    CheckpointAge, \* checkpoint_age
    Rewinds,       \* accounts a host may rewind
    MaxHeight,     \* bound: height of the chain
    MaxForks,      \* bound: number of forks
    MaxFails       \* bound: failed cycles, stale targets and host rewinds

ASSUME RangeAssumption ==
    /\ Account # {} /\ Birth \in [Account -> Nat \ {0}]
    /\ Hosts \subseteq SUBSET SUBSET Account /\ Rewinds \subseteq Account
    /\ CheckpointAge \in Nat
    /\ MaxHeight \in Nat /\ \A a \in Account : Birth[a] <= MaxHeight
    /\ MaxForks \in Nat /\ MaxFails \in Nat

VARIABLES
    host,     \* the lists this wallet's host uses
    chain,    \* the server's chain
    acct,     \* the rows of each account
    hdr,      \* the headers table
    cycle,    \* the running cycle, holder of SYNCING unless idle
    forks,    \* number of forks so far
    fails     \* number of failures so far

vars == <<host, chain, acct, hdr, cycle, forks, fails>>

Height == 1 .. MaxHeight
NoHash == -1

Tip == Len(chain)
HashAt(h) == IF h \in 1 .. Tip THEN chain[h] ELSE NoHash

\* An account scanned up to its birthday.  sync_heights: the transparent row
\* and the shielded rows, which move together; the heights with witness rows;
\* the fork of every block scanned for notes.
Fresh(a) == [theight |-> Birth[a], height |-> Birth[a], wit |-> {},
             scanned |-> [h \in Height |-> NoHash]]

\* MIN(height) FROM sync_heights.
Synced(a) == Min({acct[a].theight, acct[a].height})

SyncHeights == UNION {{acct[a].theight, acct[a].height} : a \in Account}

Idle == [at |-> "idle", froms |-> << >>, start |-> 0, end |-> 0, tip |-> 0,
         cur |-> 0, prev |-> NoHash]

-----------------------------------------------------------------------------
(* The server.                                                             *)

Mine ==
    /\ Tip < MaxHeight
    /\ chain' = Append(chain, forks)
    /\ UNCHANGED <<host, acct, hdr, cycle, forks, fails>>

\* The blocks from f on are gone.  Birthdays are final, and the chain outgrows
\* every fork: none reaches it at the bound.
Fork(f) ==
    /\ forks < MaxForks /\ Tip < MaxHeight
    /\ f \in 1 .. Tip /\ \A a \in Account : f > Birth[a]
    /\ chain' = SubSeq(chain, 1, f - 1)
    /\ forks' = forks + 1
    /\ UNCHANGED <<host, acct, hdr, cycle, fails>>

-----------------------------------------------------------------------------
(* Rows.                                                                   *)

\* INSERT INTO headers ... ON CONFLICT DO NOTHING.
StoredHeaders(heights) ==
    [h \in Height |-> IF h \in heights /\ hdr[h] = NoHash
                      THEN HashAt(h) ELSE hdr[h]]

HeadersThrough(h) == [k \in Height |-> IF k > h THEN NoHash ELSE hdr[k]]

\* Mutant of Trimmed: the heights move back and the notes stay.
TrimmedHeightsOnly(r, h) ==
    [r EXCEPT !.theight = h, !.height = h, !.wit = {w \in @ : w <= h}]

\* trim_sync_data.
Trimmed(r, h) ==
    [theight |-> h, height |-> h, wit |-> {w \in r.wit : w <= h},
     scanned |-> [k \in Height |-> IF k > h THEN NoHash ELSE r.scanned[k]]]

\* Mutant of Rewound: the checkpoint at the height itself is good enough.
RewoundInclusive(a, h) ==
    LET below == {w \in acct[a].wit : w <= h}
    IN  IF below = {} THEN Fresh(a) ELSE Trimmed(acct[a], Max(below))

\* rewind_sync: the latest checkpoint strictly below h, or a full reset.
Rewound(a, h) ==
    LET below == {w \in acct[a].wit : w < h}
    IN  IF below = {} THEN Fresh(a) ELSE Trimmed(acct[a], Max(below))

Pruned(r, cutoff) ==
    LET old == {w \in r.wit : w < cutoff}
    IN  IF old = {} THEN r ELSE [r EXCEPT !.wit = {w \in @ : w >= Max(old)}]

-----------------------------------------------------------------------------
(* The cycle.                                                              *)

Starts(froms) == {froms[a] : a \in DOMAIN froms}

\* Mutant of InRange: the accounts further on take part from the first range.
InRangeAll(froms, start) == DOMAIN froms

\* The accounts of the range that begins at start.
InRange(froms, start) == {a \in DOMAIN froms : froms[a] <= start}

\* A range ends below the next account's start or at the tip the host named.
RangeEnd(froms, start, tip) ==
    LET later == {s \in Starts(froms) : s > start}
    IN  IF later = {} THEN tip ELSE Min(later) - 1

\* The cycle at the range that begins at start.  A wallet ahead of the tip is
\* done.
Opened(froms, start, tip) ==
    LET end == RangeEnd(froms, start, tip)
    IN  IF start > end THEN Idle
        ELSE [at |-> "open", froms |-> froms, start |-> start, end |-> end,
              tip |-> tip, cur |-> start - 1, prev |-> NoHash]

\* prune_old_checkpoints and recover_from_partial_sync on an account.
Prepared(a, cutoff) == Trimmed(Pruned(acct[a], cutoff), Synced(a))

\* synchronize_impl up to the first range of the accounts of the list.  The
\* host read the target from the server earlier: by now it may be below the
\* tip, or above it after a fork.
StartCycle(list, target) ==
    LET froms == [a \in list |-> Synced(a) + 1]
        cutoff == Max({0, target - CheckpointAge})
    IN
    /\ cycle.at = "idle" /\ list \in host /\ list # {}
    /\ \/ target = Tip /\ fails' = fails
       \/ /\ target < Tip \/ forks > 0
          /\ fails < MaxFails /\ fails' = fails + 1
    /\ acct' = [a \in Account |-> IF a \in list THEN Prepared(a, cutoff)
                                  ELSE acct[a]]
    /\ cycle' = Opened(froms, Min(Starts(froms)), target)
    /\ UNCHANGED <<host, chain, hdr, forks>>

Syncing == InRange(cycle.froms, cycle.start)

\* The transparent pass of the range is over, with the server's block at its
\* end as anchor, and warp_sync has read the header below it.
OpenRange ==
    /\ cycle.at = "open" /\ cycle.end <= Tip
    /\ acct' = [a \in Account |->
          IF a \in Syncing THEN [acct[a] EXCEPT !.theight = cycle.end]
          ELSE acct[a]]
    /\ cycle' = [cycle EXCEPT !.at = "range", !.prev = hdr[cycle.cur]]
    /\ UNCHANGED <<host, chain, hdr, forks, fails>>

\* Mutant of Linked: the blocks are not compared with the stored header.
LinkedAlways == TRUE

Linked == cycle.prev \in {NoHash, HashAt(cycle.cur)}

\* One chunk of the stream, through h: data, heights, witnesses of the
\* accounts that hold notes, the chunk's header and the missing ones of
\* sync_heights that the stream passes.
CommitChunk(h, witnessed) ==
    /\ cycle.at = "range" /\ Linked
    /\ h \in (cycle.cur + 1) .. cycle.end /\ h <= Tip
    /\ witnessed \subseteq Syncing
    /\ acct' = [a \in Account |->
          IF a \notin Syncing THEN acct[a]
          ELSE [acct[a] EXCEPT
                !.height = h,
                !.wit = @ \cup (IF a \in witnessed THEN {h} ELSE {}),
                !.scanned = [k \in Height |->
                    IF k \in (cycle.cur + 1) .. h THEN HashAt(k) ELSE @[k]]]]
    /\ hdr' = StoredHeaders({h} \cup
                             (SyncHeights \cap ((cycle.cur + 1) .. h)))
    /\ cycle' = [cycle EXCEPT !.cur = h, !.prev = HashAt(h),
                              !.at = IF h = cycle.end THEN "filling" ELSE @]
    /\ UNCHANGED <<host, chain, forks, fails>>

\* The next block does not link: the accounts of the range are rewound, the
\* headers above the break go, and the cycle fails.
MeetReorg ==
    /\ cycle.at = "range" /\ ~Linked /\ cycle.cur < Tip
    /\ acct' = [a \in Account |-> IF a \in Syncing THEN Rewound(a, cycle.cur)
                                  ELSE acct[a]]
    /\ hdr' = HeadersThrough(cycle.cur)
    /\ cycle' = Idle
    /\ UNCHANGED <<host, chain, forks, fails>>

\* fill_missing_block_times over the heights without a header.
Unfilled == {h \in SyncHeights : hdr[h] = NoHash}

\* The end of a range, and the next one.
FinishRange ==
    LET later == {s \in Starts(cycle.froms) : s > cycle.start} IN
    /\ cycle.at = "filling" /\ \A h \in Unfilled : h <= Tip
    /\ hdr' = StoredHeaders(Unfilled)
    /\ cycle' = IF later = {} THEN Idle
                ELSE Opened(cycle.froms, Min(later), cycle.tip)
    /\ UNCHANGED <<host, chain, acct, forks, fails>>

\* Error, cancellation or process death.
FailCycle ==
    /\ cycle.at # "idle" /\ fails < MaxFails
    /\ cycle' = Idle
    /\ fails' = fails + 1
    /\ UNCHANGED <<host, chain, acct, hdr, forks>>

\* A server that has dropped the blocks the cycle needs ends it too.
LoseBlocks ==
    /\ \/ cycle.at = "open" /\ cycle.end > Tip
       \/ cycle.at = "range" /\ cycle.cur >= Tip
       \/ cycle.at = "filling" /\ \E h \in Unfilled : h > Tip
    /\ cycle' = Idle
    /\ UNCHANGED <<host, chain, acct, hdr, forks, fails>>

HostRewind(a, h) ==
    /\ cycle.at = "idle" /\ a \in Rewinds \cap UNION host
    /\ fails < MaxFails
    /\ acct' = [acct EXCEPT ![a] = Rewound(a, h)]
    /\ hdr' = HeadersThrough(h)
    /\ fails' = fails + 1
    /\ UNCHANGED <<host, chain, cycle, forks>>

CycleStep ==
    \/ \E h \in Height, w \in SUBSET Account : CommitChunk(h, w)
    \/ OpenRange \/ MeetReorg \/ FinishRange \/ LoseBlocks

Init ==
    /\ host \in Hosts
    /\ chain = [h \in 1 .. Max({Birth[a] : a \in Account}) |-> 0]
    /\ acct = [a \in Account |-> Fresh(a)]
    /\ hdr = [h \in Height |-> NoHash]
    /\ cycle = Idle /\ forks = 0 /\ fails = 0

Next ==
    \/ Mine \/ \E f \in Height : Fork(f)
    \/ \E list \in SUBSET Account, target \in Height : StartCycle(list, target)
    \/ CycleStep \/ FailCycle
    \/ \E a \in Account, h \in Height : HostRewind(a, h)

Spec == Init /\ [][Next]_vars

\* The host asks for cycles again and again, in the end with a target that is
\* still the tip; a started cycle goes on; the chain grows.
FairSpec ==
    /\ Spec
    /\ WF_vars(Mine) /\ WF_vars(CycleStep)
    /\ \A list \in SUBSET Account : WF_vars(StartCycle(list, Tip))

-----------------------------------------------------------------------------
(* Properties.                                                             *)

TypeOK ==
    /\ chain \in Seq(0 .. MaxForks) /\ Tip <= MaxHeight
    /\ hdr \in [Height -> {NoHash} \cup (0 .. MaxForks)]
    /\ \A a \in Account :
          /\ acct[a].height \in Birth[a] .. MaxHeight
          /\ acct[a].theight \in acct[a].height .. MaxHeight
          /\ acct[a].wit \subseteq Birth[a] .. acct[a].height
    /\ forks \in 0 .. MaxForks /\ fails \in 0 .. MaxFails

ScannedOnChain(a) ==
    \A h \in Height : acct[a].scanned[h] \in {NoHash, HashAt(h)}

\* The next cycle of the account would link to the server's chain: the
\* stored header at its height is the server's, or there is none to compare.
WouldLink(a) ==
    /\ acct[a].height <= Tip
    /\ hdr[acct[a].height] \in {NoHash, HashAt(acct[a].height)}

\* An account that the next cycle would continue without a rewind has scanned
\* only blocks of the server's chain, so no note of an abandoned fork stays
\* behind (read_block_stream, rewind_sync).
LinkedMeansSameChain ==
    \A a \in Account : WouldLink(a) => ScannedOnChain(a)

Sole == \A a, b \in UNION host : a = b

\* The header check is enough for a wallet of one account: its own rewinds
\* never remove the header that would give an abandoned block away.
SoleAccountStaysOnChain == Sole => LinkedMeansSameChain

\* No account skips a block: everything between birthday and height has been
\* scanned, and nothing above it, whatever ranges, breaks and failures came
\* before (sync_height_ranges, trim_sync_data).
NoBlockSkipped ==
    \A a \in Account, h \in Height :
        (h \in (Birth[a] + 1) .. acct[a].height) <=> acct[a].scanned[h] # NoHash

\* The accounts of a range are all exactly where its stream is, so that a
\* chunk is new to each of them: a block taken twice would insert its notes
\* again (the cuts of sync_height_ranges against the heights in the database).
RangeInStep ==
    cycle.at = "range" => \A a \in Syncing : acct[a].height = cycle.cur

\* A stale header never wedges the wallet: once the server stops forking,
\* every account reaches its tip, although a rewind leaves the header that did
\* not link in place (rewind_sync deletes only the headers above it) and later
\* inserts do not replace it; and a sole account has scanned that chain.
EveryAccountCatchesUp ==
    <>[](\A a \in UNION host :
            acct[a].height = MaxHeight /\ (Sole => ScannedOnChain(a)))
=============================================================================
