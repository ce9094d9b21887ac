-------------------------- MODULE RangeSyncProofs --------------------------
(* The ranges of a cycle give every account every block above its birthday *)
(* exactly once, for every set of accounts, lists, birthdays and bounds.   *)
(* The inductive invariant says of a row that its scanned blocks are those *)
(* up to its height, and of a cycle that the accounts of its range are     *)
(* where the stream is while the others wait at the start they reported.   *)
EXTENDS RangeSync, SequenceTheorems, WellFoundedInduction, TLAPS

(* Min of a set of naturals is its least element: sync_height_ranges takes *)
(* the first of its sorted start heights.                                  *)
LEMMA MinIsLeast ==
    ASSUME NEW S \in SUBSET Nat, S # {}
    PROVE  Min(S) \in S /\ \A y \in S : Min(S) <= y
<1> DEFINE R == {ss \in Nat \X Nat : ss[1] < ss[2]}
<1>1. IsWellFoundedOn(R, Nat)
  BY NatLessThanWellFounded, Zenon DEF OpToRel
<1>2. PICK x \in S : \A y \in S : ~(<<y, x>> \in R)
  <2> HIDE DEF R
  <2> QED BY <1>1, WFMin
<1>3. \A y \in S : x <= y
  <2> SUFFICES ASSUME NEW y \in S, y < x PROVE FALSE
    OBVIOUS
  <2>1. <<y, x>> \in R
    OBVIOUS
  <2> QED BY <1>2, <2>1, Zenon
<1> QED BY <1>3 DEF Min

(* Max of a bounded set of naturals is its greatest element: rewind_sync   *)
(* and prune_old_checkpoints select MAX(height).                           *)
LEMMA MaxIsGreatest ==
    ASSUME NEW S \in SUBSET Nat, S # {}, NEW n \in Nat, \A y \in S : y <= n
    PROVE  Max(S) \in S /\ \A y \in S : y <= Max(S)
<1> DEFINE D == {d \in Nat : n - d \in S}
<1>1. D # {}
  <2>1. PICK y \in S : TRUE
    OBVIOUS
  <2>2. n - y \in Nat /\ n - (n - y) \in S
    BY <2>1
  <2> QED BY <2>2
<1>2. Min(D) \in D /\ \A d \in D : Min(D) <= d
  <2> HIDE DEF D
  <2>1. D \in SUBSET Nat
    BY DEF D
  <2> QED BY <1>1, <2>1, MinIsLeast
<1>3. \A y \in S : n - y \in D
  OBVIOUS
<1>4. n - Min(D) \in S /\ \A y \in S : y <= n - Min(D)
  BY <1>2, <1>3
<1> QED BY <1>4 DEF Max

(* A function on 1 .. n is a sequence of length n.                          *)
LEMMA FunctionIsSeq ==
    ASSUME NEW n \in Nat, NEW T, NEW f \in [1 .. n -> T]
    PROVE  f \in Seq(T) /\ Len(f) = n
<1>1. f \in UNION {[1 .. m -> T] : m \in Nat}
  OBVIOUS
<1>2. f \in Seq(T)
  BY <1>1, SeqDef, Zenon
<1>3. DOMAIN f = 1 .. Len(f) /\ Len(f) \in Nat
  BY <1>2, LenProperties
<1>4. 1 .. Len(f) = 1 .. n
  BY <1>3, Zenon
<1>5. \A k \in Int : (1 <= k /\ k <= Len(f)) <=> (1 <= k /\ k <= n)
  BY <1>3, <1>4
<1>6. ~(Len(f) < n) /\ ~(n < Len(f))
  BY <1>3, <1>5
<1> QED BY <1>2, <1>3, <1>6

-----------------------------------------------------------------------------
(* The inductive invariant.                                                *)

Row == [theight : Nat, height : Nat, wit : SUBSET Nat, scanned : [Height -> Int]]

RowOK(a, r) ==
    /\ r \in Row
    /\ Birth[a] <= r.height /\ r.height <= r.theight /\ r.theight <= MaxHeight
    /\ \A w \in r.wit : Birth[a] <= w /\ w <= r.height
    /\ \A h \in Height :
          (Birth[a] < h /\ h <= r.height) <=> r.scanned[h] # NoHash

RowsOK == acct \in [Account -> Row] /\ \A a \in Account : RowOK(a, acct[a])

ChainOK ==
    /\ chain \in Seq(0 .. MaxForks) /\ Tip <= MaxHeight
    /\ hdr \in [Height -> {NoHash} \cup (0 .. MaxForks)]
    /\ forks \in 0 .. MaxForks /\ fails \in 0 .. MaxFails

Running(list) ==
    [at : {"open", "range", "filling"}, froms : [list -> 1 .. (MaxHeight + 1)],
     start : Nat, end : Nat, tip : Nat, cur : Nat, prev : Int]

\* c is cut correctly: its end is below every later start, and the next start
\* follows it at once.
Cut(c) ==
    /\ c.start <= c.end /\ c.end <= MaxHeight /\ c.tip \in Height
    /\ 1 <= c.start /\ \E a \in DOMAIN c.froms : c.froms[a] <= c.start
    /\ \A a \in DOMAIN c.froms : c.froms[a] > c.start => c.froms[a] > c.end
    /\ \/ \A a \in DOMAIN c.froms : c.froms[a] <= c.start
       \/ \E a \in DOMAIN c.froms : c.froms[a] = c.end + 1
    /\ c.at = "open" => c.cur = c.start - 1
    /\ c.at = "range" => c.start - 1 <= c.cur /\ c.cur < c.end
    /\ c.at = "filling" => c.cur = c.end

\* The accounts of c stand in rows where it says: those of the range at the
\* stream, their transparent height at its end, the others below their start.
Placed(c, rows) ==
    /\ \A a \in DOMAIN c.froms : rows[a].height =
          IF c.froms[a] <= c.start THEN c.cur ELSE c.froms[a] - 1
    /\ c.at # "open" => \A a \in DOMAIN c.froms :
          c.froms[a] <= c.start => rows[a].theight = c.end

CycleOK ==
    \/ cycle = Idle
    \/ \E list \in SUBSET Account :
          cycle \in Running(list) /\ Cut(cycle) /\ Placed(cycle, acct)

IInv == ChainOK /\ RowsOK /\ CycleOK

-----------------------------------------------------------------------------
(* What the operators keep.                                                *)

(* trim_sync_data to a height between birthday and height keeps a row      *)
(* complete.                                                               *)
LEMMA TrimmedOK ==
    ASSUME NEW a \in Account, NEW r, RowOK(a, r), NEW h \in Nat,
           Birth[a] <= h, h <= r.height
    PROVE  RowOK(a, Trimmed(r, h))
<1> USE RangeAssumption DEF Height
<1>1. Trimmed(r, h) \in Row
  BY DEF Trimmed, RowOK, Row, NoHash
<1>2. \A k \in Height : (Birth[a] < k /\ k <= h) <=> Trimmed(r, h).scanned[k] # NoHash
  BY DEF Trimmed, RowOK, Row, NoHash
<1> QED BY <1>1, <1>2 DEF Trimmed, RowOK, Row

(* reset_sync leaves a complete row.                                       *)
LEMMA FreshOK == \A a \in Account : RowOK(a, Fresh(a))
BY RangeAssumption DEF Fresh, RowOK, Row, NoHash, Height

(* rewind_sync finds a checkpoint that leaves the row complete, or resets. *)
LEMMA RewoundOK ==
    ASSUME NEW a \in Account, RowOK(a, acct[a]), NEW h \in Int
    PROVE  RowOK(a, Rewound(a, h))
<1> DEFINE below == {w \in acct[a].wit : w < h}
<1>1. CASE below = {}
  BY <1>1, FreshOK DEF Rewound
<1>2. CASE below # {}
  <2>1. Max(below) \in below
    <3>1. /\ below \in SUBSET Nat /\ acct[a].height \in Nat
          /\ \A y \in below : y <= acct[a].height
      BY DEF RowOK, Row
    <3> HIDE DEF below
    <3> QED BY <1>2, <3>1, MaxIsGreatest
  <2>2. Max(below) \in Nat /\ Birth[a] <= Max(below) /\ Max(below) <= acct[a].height
    BY <2>1 DEF RowOK, Row
  <2>3. RowOK(a, Trimmed(acct[a], Max(below)))
    BY <2>2, TrimmedOK
  <2> QED BY <1>2, <2>3 DEF Rewound
<1> QED BY <1>1, <1>2

(* The prune and recovery at the start of a cycle keep a row complete and  *)
(* its height where it is.                                                 *)
LEMMA PreparedOK ==
    ASSUME NEW a \in Account, RowOK(a, acct[a]), NEW cutoff \in Int
    PROVE  /\ Synced(a) = acct[a].height
           /\ RowOK(a, Prepared(a, cutoff))
           /\ Prepared(a, cutoff).height = acct[a].height
<1>1. Synced(a) = acct[a].height
  <2>1. acct[a].theight \in Nat /\ acct[a].height \in Nat
        /\ acct[a].height <= acct[a].theight
    BY DEF RowOK, Row
  <2> QED BY <2>1 DEF Synced, Min
<1> DEFINE r == Pruned(acct[a], cutoff)
<1>2. RowOK(a, r) /\ r.height = acct[a].height
  <2>1. PICK kept \in SUBSET acct[a].wit : r = [acct[a] EXCEPT !.wit = kept]
    <3>1. acct[a] = [acct[a] EXCEPT !.wit = acct[a].wit]
      BY DEF RowOK, Row
    <3> QED BY <3>1 DEF Pruned
  <2> QED BY <2>1 DEF RowOK, Row
<1>3. acct[a].height \in Nat /\ Birth[a] <= acct[a].height
  BY DEF RowOK, Row
<1>4. RowOK(a, Trimmed(r, acct[a].height))
  <2> HIDE DEF r
  <2> QED BY <1>2, <1>3, TrimmedOK
<1> QED BY <1>1, <1>4 DEF Prepared, Trimmed

(* Opened cuts the range at start correctly when every account up to start *)
(* stands just below it and the others wait at their own start.            *)
LEMMA OpenedOK ==
    ASSUME NEW list \in SUBSET Account,
           NEW froms \in [list -> 1 .. (MaxHeight + 1)],
           NEW start \in 1 .. (MaxHeight + 1), NEW tip \in Height,
           NEW rows, \E a \in list : froms[a] <= start,
           \A a \in list : rows[a].height = IF froms[a] <= start THEN start - 1
                                            ELSE froms[a] - 1
    PROVE  LET c == Opened(froms, start, tip)
           IN  \/ c = Idle
               \/ c \in Running(list) /\ Cut(c) /\ Placed(c, rows)
<1> USE RangeAssumption DEF Height
<1> DEFINE later == {s \in Starts(froms) : s > start}
           end == RangeEnd(froms, start, tip)
           c == Opened(froms, start, tip)
<1>1. /\ end \in Int /\ end <= MaxHeight
      /\ \A a \in list : froms[a] > start => froms[a] > end
      /\ \/ \A a \in list : froms[a] <= start
         \/ \E a \in list : froms[a] = end + 1
  <2>1. CASE later = {}
    <3>1. end = tip
      BY <2>1 DEF RangeEnd
    <3>2. \A a \in list : ~(froms[a] > start)
      BY <2>1 DEF Starts
    <3> HIDE DEF end
    <3> QED BY <3>1, <3>2
  <2>2. CASE later # {}
    <3>1. later \in SUBSET Nat
      BY DEF Starts
    <3>2. Min(later) \in later /\ \A y \in later : Min(later) <= y
      <4> HIDE DEF later
      <4> QED BY <2>2, <3>1, MinIsLeast
    <3>3. end = Min(later) - 1
      BY <2>2 DEF RangeEnd
    <3>4. PICK b \in list : Min(later) = froms[b]
      BY <3>2 DEF Starts
    <3>5. \A a \in list : froms[a] > start => froms[a] \in later
      BY DEF Starts
    <3> HIDE DEF later, end
    <3> QED BY <3>2, <3>3, <3>4, <3>5
  <2> QED BY <2>1, <2>2
<1>2. CASE start > end
  BY <1>2 DEF Opened
<1>3. CASE start <= end
  <2>1. c = [at |-> "open", froms |-> froms, start |-> start, end |-> end,
             tip |-> tip, cur |-> start - 1, prev |-> NoHash]
    BY <1>1, <1>3 DEF Opened
  <2> HIDE DEF c, end
  <2>2. c \in Running(list)
    BY <1>1, <1>3, <2>1 DEF Running, NoHash
  <2>3. Cut(c)
    BY <1>1, <1>3, <2>1 DEF Cut
  <2>4. Placed(c, rows)
    BY <2>1 DEF Placed
  <2> QED BY <2>2, <2>3, <2>4 DEF c
<1> QED BY <1>1, <1>2, <1>3

(* The server's hash of a block it has is none.                            *)
LEMMA HashTypes ==
    ASSUME ChainOK, NEW h \in Int
    PROVE  /\ HashAt(h) \in {NoHash} \cup (0 .. MaxForks)
           /\ h \in 1 .. Tip => HashAt(h) # NoHash
BY RangeAssumption DEF ChainOK, HashAt, Tip, NoHash

-----------------------------------------------------------------------------
(* The invariant is inductive.                                             *)

(* Fresh accounts on a chain of final birthdays.                           *)
LEMMA InitIInv == Init => IInv
<1> SUFFICES ASSUME Init PROVE IInv
  OBVIOUS
<1> USE RangeAssumption DEF Init
<1>1. ChainOK
  <2> DEFINE S == {Birth[a] : a \in Account}
  <2>1. S \in SUBSET Nat /\ S # {} /\ \A y \in S : y <= MaxHeight
    OBVIOUS
  <2>2. Max(S) \in S
    <3> HIDE DEF S
    <3> QED BY <2>1, MaxIsGreatest
  <2>3. Max(S) \in Nat /\ Max(S) <= MaxHeight
    BY <2>1, <2>2
  <2> HIDE DEF S
  <2>4. chain = [h \in 1 .. Max(S) |-> 0]
    BY DEF S
  <2>5. chain \in Seq(0 .. MaxForks) /\ Len(chain) = Max(S)
    <3>1. chain \in [1 .. Max(S) -> 0 .. MaxForks]
      BY <2>4
    <3> QED BY <2>3, <3>1, FunctionIsSeq
  <2>6. hdr \in [Height -> {NoHash} \cup (0 .. MaxForks)]
    OBVIOUS
  <2>7. forks \in 0 .. MaxForks /\ fails \in 0 .. MaxFails
    OBVIOUS
  <2> QED BY <2>3, <2>5, <2>6, <2>7 DEF ChainOK, Tip
<1>2. RowsOK
  BY FreshOK DEF RowsOK, RowOK
<1> QED BY <1>1, <1>2 DEF IInv, CycleOK

(* Steps of the cycle that move heights.                                   *)
LEMMA StartCycleIInv ==
    ASSUME IInv, NEW list \in SUBSET Account, NEW target \in Height, StartCycle(list, target)
    PROVE  IInv'
<1> USE RangeAssumption
<1> DEFINE froms == [a \in list |-> Synced(a) + 1]
           cutoff == Max({0, target - CheckpointAge})
<1>1. list \in SUBSET Account /\ list # {}
  BY DEF StartCycle
<1>2. cutoff \in Int
  <2>1. target - CheckpointAge \in Int
    BY DEF Height
  <2> QED BY <2>1 DEF Max
<1>3. \A a \in list : /\ Synced(a) = acct[a].height
                      /\ RowOK(a, Prepared(a, cutoff))
                      /\ Prepared(a, cutoff).height = acct[a].height
  <2> HIDE DEF cutoff
  <2> QED BY <1>1, <1>2, PreparedOK DEF IInv, RowsOK
<1>4. acct' = [a \in Account |-> IF a \in list THEN Prepared(a, cutoff) ELSE acct[a]]
  BY DEF StartCycle
<1>5. RowsOK'
  <2> HIDE DEF cutoff
  <2> QED BY <1>1, <1>3, <1>4 DEF IInv, RowsOK, RowOK
<1>6. \A a \in list : froms[a] = acct'[a].height + 1 /\ froms[a] \in 1 .. (MaxHeight + 1)
  <2>1. \A a \in list : froms[a] = acct[a].height + 1 /\ acct'[a].height = acct[a].height
    <3> HIDE DEF cutoff
    <3> QED BY <1>1, <1>3, <1>4
  <2>2. \A a \in list : acct[a].height \in Nat /\ acct[a].height <= MaxHeight
    BY <1>1 DEF IInv, RowsOK, RowOK, Row
  <2> HIDE DEF froms
  <2> QED BY <2>1, <2>2
<1>7. froms \in [list -> 1 .. (MaxHeight + 1)]
  BY <1>6
<1>8. /\ Min(Starts(froms)) \in 1 .. (MaxHeight + 1)
      /\ \A a \in list : Min(Starts(froms)) <= froms[a]
      /\ \E a \in list : froms[a] <= Min(Starts(froms))
  <2> HIDE DEF froms
  <2>1. Starts(froms) \in SUBSET Nat /\ Starts(froms) # {}
    BY <1>1, <1>7 DEF Starts
  <2>2. Min(Starts(froms)) \in Starts(froms) /\ \A y \in Starts(froms) : Min(Starts(froms)) <= y
    BY <2>1, MinIsLeast
  <2> QED BY <1>7, <2>2 DEF Starts
<1>9. cycle' = Opened(froms, Min(Starts(froms)), target)
  BY DEF StartCycle
<1>10. CycleOK'
  <2> HIDE DEF froms
  <2>1. \A a \in list : acct'[a].height =
            IF froms[a] <= Min(Starts(froms)) THEN Min(Starts(froms)) - 1 ELSE froms[a] - 1
    <3>1. \A a \in list : acct'[a].height \in Nat
      BY <1>1, <1>5 DEF RowsOK, Row
    <3> QED BY <1>6, <1>8, <3>1
  <2>2. \/ cycle' = Idle
        \/ cycle' \in Running(list) /\ Cut(cycle') /\ Placed(cycle', acct')
    BY <1>1, <1>7, <1>8, <1>9, <2>1, OpenedOK
  <2> QED BY <1>1, <2>2 DEF CycleOK, Idle
<1>11. ChainOK'
  BY DEF IInv, ChainOK, StartCycle, Tip
<1> QED BY <1>5, <1>10, <1>11 DEF IInv

(* What a running cycle knows of the accounts of its range.                *)
LEMMA SyncingFacts ==
    ASSUME IInv, cycle # Idle
    PROVE  /\ cycle.end \in Nat /\ cycle.end <= MaxHeight
           /\ cycle.cur \in Height /\ cycle.cur <= cycle.end
           /\ Syncing \subseteq Account
           /\ \A a \in Syncing :
                 /\ acct[a].height = cycle.cur
                 /\ cycle.at # "open" => acct[a].theight = cycle.end
<1> USE RangeAssumption
<1>1. PICK list \in SUBSET Account :
          cycle \in Running(list) /\ Cut(cycle) /\ Placed(cycle, acct)
  BY DEF IInv, CycleOK
<1>2. PICK b \in list : cycle.froms[b] <= cycle.start
  BY <1>1 DEF Running, Cut
<1>3. acct[b].height = cycle.cur
  BY <1>1, <1>2 DEF Running, Placed
<1>4. acct[b].height \in Nat /\ 1 <= acct[b].height /\ acct[b].height <= MaxHeight
  BY DEF IInv, RowsOK, RowOK, Row
<1>5. /\ cycle.end \in Nat /\ cycle.end <= MaxHeight /\ cycle.cur <= cycle.end
  BY <1>1 DEF Running, Cut
<1>6. /\ Syncing \subseteq Account
      /\ \A a \in Syncing :
            /\ acct[a].height = cycle.cur
            /\ cycle.at # "open" => acct[a].theight = cycle.end
  BY <1>1 DEF Running, Placed, Syncing, InRange
<1>7. cycle.cur \in Height
  BY <1>3, <1>4 DEF Height
<1> QED BY <1>5, <1>6, <1>7

(* The transparent pass moves the transparent heights to the range's end.  *)
LEMMA OpenRangeIInv == ASSUME IInv, OpenRange PROVE IInv'
<1> USE RangeAssumption
<1>1. cycle # Idle
  BY DEF OpenRange, Idle
<1>2. PICK list \in SUBSET Account :
          cycle \in Running(list) /\ Cut(cycle) /\ Placed(cycle, acct)
  BY <1>1 DEF IInv, CycleOK
<1>3. RowsOK'
  <2>1. ASSUME NEW a \in Account PROVE acct'[a] \in Row /\ RowOK(a, acct'[a])
    <3>1. RowOK(a, acct[a]) /\ acct[a] \in Row
      BY DEF IInv, RowsOK
    <3>2. CASE a \in Syncing
      <4>1. acct'[a] = [acct[a] EXCEPT !.theight = cycle.end]
        BY <3>2 DEF OpenRange
      <4>2. /\ cycle.end \in Nat /\ cycle.end <= MaxHeight
            /\ acct[a].height <= cycle.end
        BY <1>1, <3>2, SyncingFacts
      <4> QED BY <3>1, <4>1, <4>2 DEF RowOK, Row
    <3>3. CASE a \notin Syncing
      BY <3>1, <3>3 DEF OpenRange
    <3> QED BY <3>2, <3>3
  <2> QED BY <2>1 DEF RowsOK, OpenRange
<1>4. \A a \in Account : acct'[a].height = acct[a].height
  BY DEF IInv, RowsOK, Row, OpenRange
<1>5. hdr[cycle.cur] \in Int
  BY <1>1, SyncingFacts DEF IInv, ChainOK, NoHash
<1>6. /\ cycle.at = "open"
      /\ cycle' = [cycle EXCEPT !.at = "range", !.prev = hdr[cycle.cur]]
  BY DEF OpenRange
<1>7. cycle' \in Running(list)
  BY <1>2, <1>5, <1>6 DEF Running
<1>8. Cut(cycle')
  BY <1>2, <1>6 DEF Running, Cut
<1>9. \A a \in list : cycle.froms[a] <= cycle.start => acct'[a].theight = cycle.end
  BY <1>2 DEF OpenRange, Running, Syncing, InRange, IInv, RowsOK, Row
<1>10. Placed(cycle', acct')
  BY <1>2, <1>4, <1>6, <1>9 DEF Running, Placed
<1>11. ChainOK'
  BY DEF IInv, ChainOK, OpenRange, Tip
<1> QED BY <1>3, <1>7, <1>8, <1>10, <1>11 DEF IInv, CycleOK

(* A chunk is the next blocks of every account of the range.               *)
LEMMA CommitChunkIInv ==
    ASSUME IInv, NEW h \in Height, NEW witnessed \in SUBSET Account,
           CommitChunk(h, witnessed)
    PROVE  IInv'
<1> USE RangeAssumption
<1> DEFINE scan(a) == [k \in Height |-> IF k \in (cycle.cur + 1) .. h THEN HashAt(k)
                                         ELSE acct[a].scanned[k]]
           wit(a) == acct[a].wit \cup (IF a \in witnessed THEN {h} ELSE {})
<1>1. /\ cycle.at = "range" /\ h \in (cycle.cur + 1) .. cycle.end /\ h <= Tip
      /\ cycle' = [cycle EXCEPT !.cur = h, !.prev = HashAt(h),
                                !.at = IF h = cycle.end THEN "filling" ELSE cycle.at]
      /\ UNCHANGED <<chain, forks, fails>>
  BY Zenon DEF CommitChunk
<1>2. acct' = [a \in Account |-> IF a \notin Syncing THEN acct[a]
                  ELSE [acct[a] EXCEPT !.height = h, !.wit = wit(a), !.scanned = scan(a)]]
  BY Zenon DEF CommitChunk
<1>3. hdr' = StoredHeaders({h} \cup (SyncHeights \cap ((cycle.cur + 1) .. h)))
  BY Zenon DEF CommitChunk
<1>4. cycle # Idle
  BY <1>1 DEF Idle
<1>5. PICK list \in SUBSET Account :
          cycle \in Running(list) /\ Cut(cycle) /\ Placed(cycle, acct)
  BY <1>4 DEF IInv, CycleOK
<1>6. /\ \A k \in Int : HashAt(k) \in {NoHash} \cup (0 .. MaxForks)
      /\ \A k \in 1 .. h : HashAt(k) # NoHash
  <2>1. Tip \in Nat
    BY DEF IInv, ChainOK, Tip
  <2>2. \A k \in 1 .. h : k \in 1 .. Tip
    BY <1>1, <2>1 DEF Height
  <2> QED BY <2>2, HashTypes DEF IInv
<1>7. ASSUME NEW a \in Account PROVE acct'[a] \in Row /\ RowOK(a, acct'[a])
  <2>1. RowOK(a, acct[a]) /\ acct[a] \in Row
    BY DEF IInv, RowsOK
  <2>2. CASE a \notin Syncing
    BY <1>2, <2>1, <2>2
  <2>3. CASE a \in Syncing
    <3>1. acct'[a] = [acct[a] EXCEPT !.height = h, !.wit = wit(a), !.scanned = scan(a)]
      BY <1>2, <2>3
    <3>2. /\ acct[a].height = cycle.cur /\ cycle.cur \in Nat /\ cycle.cur < h
          /\ h \in Nat /\ h <= acct[a].theight
      BY <1>1, <1>4, <2>3, SyncingFacts DEF Height
    <3>3. wit(a) \in SUBSET Nat /\ \A w \in wit(a) : Birth[a] <= w /\ w <= h
      BY <2>1, <3>2 DEF RowOK, Row
    <3>4. scan(a) \in [Height -> Int]
      BY SMTT(20), <1>6, <2>1 DEF Row, Height, NoHash
    <3>5. ASSUME NEW k \in Height
          PROVE  (Birth[a] < k /\ k <= h) <=> scan(a)[k] # NoHash
      <4>1. CASE k \in (cycle.cur + 1) .. h
        <5>1. scan(a)[k] # NoHash
          BY <1>6, <4>1 DEF Height
        <5>2. Birth[a] < k /\ k <= h
          BY <2>1, <3>2, <4>1 DEF RowOK, Row
        <5> QED BY <5>1, <5>2
      <4>2. CASE k \notin (cycle.cur + 1) .. h
        <5>1. scan(a)[k] = acct[a].scanned[k]
          BY <4>2
        <5>2. k <= h <=> k <= acct[a].height
          BY <3>2, <4>2 DEF Height
        <5> QED BY <2>1, <5>1, <5>2 DEF RowOK
      <4> QED BY <4>1, <4>2
    <3> HIDE DEF scan, wit
    <3>6. acct'[a] = [theight |-> acct[a].theight, height |-> h,
                      wit |-> wit(a), scanned |-> scan(a)]
      BY <2>1, <3>1 DEF Row
    <3>7. acct'[a] \in Row
      BY <2>1, <3>2, <3>3, <3>4, <3>6 DEF Row
    <3>8. Birth[a] <= h /\ acct[a].theight <= MaxHeight
      BY <2>1, <3>2 DEF RowOK, Row
    <3> QED BY <3>2, <3>3, <3>5, <3>6, <3>7, <3>8 DEF RowOK
  <2> QED BY <2>2, <2>3
<1>8. RowsOK'
  BY <1>2, <1>7 DEF RowsOK
<1>9. ChainOK'
  <2>1. hdr' \in [Height -> {NoHash} \cup (0 .. MaxForks)]
    BY <1>3, <1>6 DEF StoredHeaders, IInv, ChainOK, Height
  <2> QED BY <1>1, <2>1 DEF IInv, ChainOK, Tip
<1>10. HashAt(h) \in Int /\ h \in Nat
  BY <1>6 DEF NoHash, Height
<1>11. cycle' \in Running(list)
  BY <1>1, <1>5, <1>10 DEF Running
<1>12. Cut(cycle')
  BY <1>1, <1>5, <1>10 DEF Running, Cut
<1>13. ASSUME NEW a \in list
       PROVE  IF cycle.froms[a] <= cycle.start
              THEN acct'[a].height = h /\ acct'[a].theight = cycle.end
              ELSE acct'[a] = acct[a]
  <2>1. a \in Account /\ acct[a] \in Row
    BY DEF IInv, RowsOK
  <2>2. a \in Syncing <=> cycle.froms[a] <= cycle.start
    BY <1>5 DEF Running, Syncing, InRange
  <2>3. cycle.froms[a] <= cycle.start => acct[a].theight = cycle.end
    BY <1>1, <1>5 DEF Running, Placed
  <2> HIDE DEF scan, wit
  <2> QED BY <1>2, <2>1, <2>2, <2>3 DEF Row
<1>14. Placed(cycle', acct')
  BY <1>1, <1>5, <1>13 DEF Running, Placed
<1> QED BY <1>8, <1>9, <1>11, <1>12, <1>14 DEF IInv, CycleOK

(* The end of a range opens the next one where this one stops.             *)
LEMMA FinishRangeIInv == ASSUME IInv, FinishRange PROVE IInv'
<1> USE RangeAssumption
<1> DEFINE later == {s \in Starts(cycle.froms) : s > cycle.start}
<1>1. /\ cycle.at = "filling" /\ hdr' = StoredHeaders(Unfilled)
      /\ cycle' = IF later = {} THEN Idle
                  ELSE Opened(cycle.froms, Min(later), cycle.tip)
      /\ UNCHANGED <<chain, acct, forks, fails>>
  BY DEF FinishRange
<1>2. cycle # Idle
  BY <1>1 DEF Idle
<1>3. PICK list \in SUBSET Account :
          cycle \in Running(list) /\ Cut(cycle) /\ Placed(cycle, acct)
  BY <1>2 DEF IInv, CycleOK
<1>4. ChainOK'
  <2>1. \A k \in Int : HashAt(k) \in {NoHash} \cup (0 .. MaxForks)
    BY HashTypes DEF IInv
  <2>2. hdr' \in [Height -> {NoHash} \cup (0 .. MaxForks)]
    BY <1>1, <2>1 DEF StoredHeaders, IInv, ChainOK, Height
  <2> QED BY <1>1, <2>2 DEF IInv, ChainOK, Tip
<1>5. RowsOK'
  BY <1>1 DEF IInv, RowsOK
<1>6. CASE later = {}
  BY <1>1, <1>4, <1>5, <1>6 DEF IInv, CycleOK, Idle
<1>7. CASE later # {}
  <2>1. /\ cycle.froms \in [list -> 1 .. (MaxHeight + 1)]
        /\ cycle.start \in Nat /\ cycle.end \in Nat /\ cycle.tip \in Height
        /\ cycle.cur = cycle.end /\ cycle.start <= cycle.end
    BY <1>1, <1>3 DEF Running, Cut, Height
  <2>2. later \in SUBSET Nat
    BY <2>1 DEF Starts
  <2>3. Min(later) \in later /\ \A y \in later : Min(later) <= y
    <3> HIDE DEF later
    <3> QED BY <1>7, <2>2, MinIsLeast
  <2>4. PICK b \in list : Min(later) = cycle.froms[b] /\ cycle.froms[b] > cycle.start
    BY <2>1, <2>3 DEF Starts
  <2>5. \A a \in list : cycle.froms[a] > cycle.start => cycle.froms[a] \in later
    BY <2>1 DEF Starts
  <2> HIDE DEF later
  <2>6. Min(later) = cycle.end + 1
    <3>1. \A a \in list : cycle.froms[a] > cycle.start => cycle.froms[a] > cycle.end
      BY <1>3, <2>1 DEF Cut
    <3>2. PICK d \in list : cycle.froms[d] = cycle.end + 1
      BY <1>3, <2>1, <2>4 DEF Cut
    <3> QED BY <2>1, <2>3, <2>4, <2>5, <3>1, <3>2
  <2>7. ASSUME NEW a \in list
        PROVE  acct'[a].height = IF cycle.froms[a] <= Min(later) THEN Min(later) - 1
                                 ELSE cycle.froms[a] - 1
    <3>1. acct'[a].height = IF cycle.froms[a] <= cycle.start THEN cycle.end
                            ELSE cycle.froms[a] - 1
      BY <1>1, <1>3, <2>1 DEF Placed
    <3>2. cycle.froms[a] > cycle.start => cycle.froms[a] > cycle.end
      BY <1>3, <2>1 DEF Cut
    <3> QED BY <2>1, <2>6, <3>1, <3>2
  <2>8. Min(later) \in 1 .. (MaxHeight + 1) /\ \E a \in list : cycle.froms[a] <= Min(later)
    BY <2>1, <2>4
  <2>9. cycle' = Opened(cycle.froms, Min(later), cycle.tip)
    BY <1>1, <1>7
  <2>10. \/ cycle' = Idle
         \/ cycle' \in Running(list) /\ Cut(cycle') /\ Placed(cycle', acct')
    BY <2>1, <2>7, <2>8, <2>9, OpenedOK
  <2> QED BY <1>4, <1>5, <2>10 DEF IInv, CycleOK, Idle
<1> QED BY <1>6, <1>7

(* A rewind, by the stream or by the host, leaves the rows complete.       *)
LEMMA RewindIInv ==
    ASSUME IInv, MeetReorg \/ \E a \in Account, h \in Height : HostRewind(a, h)
    PROVE  IInv'
<1> USE RangeAssumption
<1>1. \A a \in Account, h \in Int : RowOK(a, Rewound(a, h))
  BY RewoundOK DEF IInv, RowsOK
<1>2. \A h \in Int : HeadersThrough(h) \in [Height -> {NoHash} \cup (0 .. MaxForks)]
  BY DEF HeadersThrough, IInv, ChainOK
<1>3. CASE MeetReorg
  <2>1. cycle # Idle
    BY <1>3 DEF MeetReorg, Idle
  <2>2. cycle.cur \in Int /\ Syncing \subseteq Account
    BY <2>1, SyncingFacts DEF Height
  <2>3. RowsOK'
    BY <1>1, <1>3, <2>2 DEF MeetReorg, IInv, RowsOK, RowOK
  <2>4. ChainOK'
    BY <1>2, <1>3, <2>2 DEF MeetReorg, IInv, ChainOK, Tip
  <2> QED BY <1>3, <2>3, <2>4 DEF MeetReorg, IInv, CycleOK, Idle
<1>4. ASSUME NEW a \in Account, NEW h \in Height, HostRewind(a, h) PROVE IInv'
  <2>1. RowsOK'
    BY <1>1, <1>4 DEF HostRewind, IInv, RowsOK, RowOK, Height
  <2>2. ChainOK'
    BY <1>2, <1>4 DEF HostRewind, IInv, ChainOK, Tip, Height
  <2>3. CycleOK'
    <3>1. cycle = Idle
      BY <1>4 DEF HostRewind, IInv, CycleOK, Running
    <3> QED BY <1>4, <3>1 DEF HostRewind, CycleOK, Idle
  <2> QED BY <2>1, <2>2, <2>3 DEF IInv
<1> QED BY <1>3, <1>4

(* The server's steps keep the types of the chain.                         *)
LEMMA ServerIInv ==
    ASSUME IInv, Mine \/ \E f \in Height : Fork(f)
    PROVE  IInv'
<1> USE RangeAssumption
<1>1. ChainOK'
  <2>1. CASE Mine
    <3>1. chain' \in Seq(0 .. MaxForks) /\ Len(chain') = Len(chain) + 1
      BY <2>1 DEF Mine, IInv, ChainOK
    <3> QED BY <2>1, <3>1 DEF Mine, IInv, ChainOK, Tip
  <2>2. ASSUME NEW f \in Height, Fork(f) PROVE ChainOK'
    <3>1. chain' \in Seq(0 .. MaxForks) /\ Len(chain') = f - 1
      BY <2>2 DEF Fork, IInv, ChainOK, Tip, Height
    <3> QED BY <2>2, <3>1 DEF Fork, IInv, ChainOK, Tip, Height
  <2> QED BY <2>1, <2>2
<1>2. UNCHANGED <<acct, cycle>>
  BY DEF Mine, Fork
<1> QED BY <1>1, <1>2 DEF IInv, RowsOK, CycleOK

(* IInv is an invariant of the cycle.                                      *)
THEOREM RangeInvariant == Spec => []IInv
<1>1. IInv /\ [Next]_vars => IInv'
  <2> SUFFICES ASSUME IInv, [Next]_vars PROVE IInv'
    OBVIOUS
  <2>1. CASE UNCHANGED vars
    BY <2>1 DEF vars, IInv, ChainOK, RowsOK, CycleOK, Tip
  <2>2. CASE FailCycle \/ LoseBlocks
    <3>1. /\ cycle' = Idle /\ UNCHANGED <<chain, acct, hdr, forks>>
          /\ fails' = fails \/ (fails < MaxFails /\ fails' = fails + 1)
      BY <2>2 DEF FailCycle, LoseBlocks
    <3> QED BY <3>1, RangeAssumption DEF IInv, ChainOK, RowsOK, CycleOK, Tip, Idle
  <2> QED
    BY <2>1, <2>2, ServerIInv, StartCycleIInv, OpenRangeIInv, CommitChunkIInv,
       FinishRangeIInv, RewindIInv DEF Next, CycleStep
<1> QED BY <1>1, InitIInv, PTL DEF Spec

(* Every row, header and height keeps its type and order: the transparent  *)
(* height is never behind the shielded one, no checkpoint is above it.     *)
THEOREM RangeTypeCorrect == Spec => []TypeOK
<1>1. IInv => TypeOK
  BY RangeAssumption DEF IInv, ChainOK, RowsOK, RowOK, Row, TypeOK
<1> QED BY <1>1, RangeInvariant, PTL

(* No account skips a block or keeps one above its height, whatever the    *)
(* lists the host syncs, the breaks and the failures.                      *)
THEOREM NothingSkipped == Spec => []NoBlockSkipped
<1>1. IInv => NoBlockSkipped
  BY RangeAssumption DEF IInv, RowsOK, RowOK, Row, NoBlockSkipped, Height
<1> QED BY <1>1, RangeInvariant, PTL

(* A chunk is new to every account of its range: no block is taken twice.  *)
THEOREM NothingTwice == Spec => []RangeInStep
<1>1. IInv => RangeInStep
  <2> SUFFICES ASSUME IInv, cycle.at = "range", NEW a \in Syncing
               PROVE  acct[a].height = cycle.cur
    BY DEF RangeInStep
  <2>1. cycle # Idle
    BY DEF Idle
  <2> QED BY <2>1, SyncingFacts
<1> QED BY <1>1, RangeInvariant, PTL

-----------------------------------------------------------------------------
(* A wallet of one account stays on the server's chain.                    *)

\* Block g at h is the server's, or one that no later fork brings back.
Known(h, g) == g < forks \/ HashAt(h) = g

OnChain(r, m) ==
    \A k \in Height : k <= m => r.scanned[k] \in {NoHash, HashAt(k)}

\* As long as the server has block g at m, what r scanned up to m is its chain.
Vouched(r, m, g) ==
    g # NoHash => Known(m, g) /\ (HashAt(m) = g => OnChain(r, m))

\* The heights a later cycle of the row may continue from.
Marks(r) == r.wit \cup {r.height}

MarksOK(a, r) ==
    \A m \in Marks(r) : (m <= Birth[a] \/ hdr[m] # NoHash) /\ Vouched(r, m, hdr[m])

StreamOK(a, r) ==
    cycle.at = "range" =>
        /\ cycle.prev = NoHash => cycle.cur = Birth[a]
        /\ Vouched(r, cycle.cur, cycle.prev)

NamesOK ==
    /\ \A h \in 1 .. Tip : chain[h] <= forks
    /\ \A h \in Height : hdr[h] # NoHash => Known(h, hdr[h])

HostOK ==
    /\ \A a \in Account : a \notin UNION host => acct[a] = Fresh(a)
    /\ cycle # Idle => DOMAIN cycle.froms \subseteq UNION host

SoleOK ==
    Sole => \A a \in Account :
        a \in UNION host => MarksOK(a, acct[a]) /\ StreamOK(a, acct[a])

SoleInv == IInv /\ NamesOK /\ HostOK /\ SoleOK

(* A mark is a height between the birthday and the row's height.           *)
LEMMA MarkHeights ==
    ASSUME NEW a \in Account, NEW r, RowOK(a, r)
    PROVE  \A m \in Marks(r) : m \in Height
BY RangeAssumption DEF RowOK, Row, Marks, Height

(* A row has no block up to the birthday.                                  *)
LEMMA NothingBelowBirth ==
    ASSUME NEW a \in Account, NEW r, RowOK(a, r)
    PROVE  \A k \in Height : k <= Birth[a] => r.scanned[k] = NoHash
BY RangeAssumption DEF RowOK, Row, Height

(* A step that leaves the chain alone leaves alone what a hash vouches     *)
(* for (read_block_stream compares with the chain of the moment).          *)
LEMMA SameChain ==
    ASSUME UNCHANGED <<chain, forks>>
    PROVE  /\ \A k : HashAt(k)' = HashAt(k)
           /\ \A h, g : Known(h, g)' <=> Known(h, g)
           /\ \A r, m, g : Vouched(r, m, g)' <=> Vouched(r, m, g)
<1>1. \A k : HashAt(k)' = HashAt(k)
  BY DEF HashAt, Tip
<1>2. \A h, g : Known(h, g)' <=> Known(h, g)
  BY <1>1 DEF Known
<1>3. ASSUME NEW r, NEW m, NEW g PROVE Vouched(r, m, g)' <=> Vouched(r, m, g)
  BY <1>1, <1>2 DEF Vouched, OnChain
<1> QED BY <1>1, <1>2, <1>3

(* A block or a fork never gives the server back a chain it has left, so   *)
(* a header that still matches vouches for as much as before.              *)
LEMMA ServerVouches ==
    ASSUME ChainOK, NamesOK, Mine \/ \E f \in Height : Fork(f),
           NEW m \in Height, NEW g \in Int, g # NoHash, Known(m, g)
    PROVE  /\ Known(m, g)'
           /\ HashAt(m)' = g => /\ HashAt(m) = g
                                /\ \A k \in Height : k <= m => HashAt(k)' = HashAt(k)
<1> USE RangeAssumption DEF Height
<1>1. /\ chain \in Seq(0 .. MaxForks) /\ forks \in Nat /\ Len(chain) \in Nat
      /\ \A k \in 1 .. Len(chain) : chain[k] \in Nat /\ chain[k] <= forks
  BY SMTT(20) DEF ChainOK, NamesOK, Tip
<1>2. CASE Mine
  <2>1. /\ Len(chain') = Len(chain) + 1 /\ forks' = forks
        /\ \A k \in 1 .. Len(chain) : chain'[k] = chain[k]
        /\ chain'[Len(chain) + 1] = forks
    BY <1>1, <1>2 DEF Mine
  <2>2. CASE m <= Len(chain)
    <3>1. \A k \in Height : k <= m => HashAt(k)' = HashAt(k)
      BY <1>1, <2>1, <2>2 DEF HashAt, Tip
    <3> QED BY <2>1, <3>1 DEF Known
  <2>3. CASE m > Len(chain)
    <3>1. HashAt(m) = NoHash
      BY <1>1, <2>3 DEF HashAt, Tip
    <3>2. g < forks
      BY <3>1 DEF Known
    <3>3. HashAt(m)' \in {NoHash, forks}
      BY SMTT(20), <1>1, <2>1, <2>3 DEF HashAt, Tip
    <3> QED BY <1>1, <2>1, <3>2, <3>3 DEF Known
  <2> QED BY <1>1, <2>2, <2>3
<1>3. ASSUME NEW f \in Height, Fork(f)
      PROVE  /\ Known(m, g)'
             /\ HashAt(m)' = g => /\ HashAt(m) = g
                                  /\ \A k \in Height : k <= m => HashAt(k)' = HashAt(k)
  <2>1. /\ f \in 1 .. Len(chain) /\ Len(chain') = f - 1 /\ forks' = forks + 1
        /\ \A k \in 1 .. (f - 1) : chain'[k] = chain[k]
    BY <1>1, <1>3 DEF Fork, Tip
  <2>2. g <= forks
    BY <1>1 DEF Known, HashAt, Tip
  <2>3. Known(m, g)'
    BY <1>1, <2>1, <2>2 DEF Known
  <2>4. ASSUME HashAt(m)' = g
        PROVE  /\ HashAt(m) = g
               /\ \A k \in Height : k <= m => HashAt(k)' = HashAt(k)
    <3>1. m <= f - 1
      BY <2>1, <2>4 DEF HashAt, Tip
    <3>2. \A k \in Height : k <= m => HashAt(k)' = HashAt(k)
      BY SMTT(20), <1>1, <2>1, <3>1 DEF HashAt, Tip
    <3> QED BY <2>4, <3>2
  <2> QED BY <2>3, <2>4
<1> QED BY <1>2, <1>3

(* A mark of the new row is at the birthday or an old one whose header and *)
(* blocks are untouched: it vouches as before.                             *)
LEMMA MarksKept ==
    ASSUME NEW a \in Account, NEW r, NEW t, RowOK(a, t), MarksOK(a, r),
           ChainOK', NamesOK', UNCHANGED <<chain, forks>>,
           \A m \in Marks(t) :
              \/ m <= Birth[a]
              \/ /\ m \in Marks(r) /\ hdr'[m] = hdr[m]
                 /\ \A k \in Height : k <= m => t.scanned[k] = r.scanned[k]
    PROVE  MarksOK(a, t)'
<1> USE RangeAssumption
<1> SUFFICES ASSUME NEW m \in Marks(t)
             PROVE  (m <= Birth[a] \/ hdr'[m] # NoHash) /\ Vouched(t, m, hdr[m])'
  BY DEF MarksOK, Marks
<1>1. m \in Height
  BY DEF RowOK, Row, Marks, Height
<1>2. PICK g : g = hdr'[m]
  OBVIOUS
<1>3. g # NoHash => Known(m, g)'
  BY <1>1, <1>2 DEF NamesOK
<1>4. CASE m <= Birth[a]
  <2>1. \A k \in Height : k <= m => t.scanned[k] = NoHash
    BY <1>1, <1>4 DEF RowOK, Row, Height
  <2>2. OnChain(t, m)'
    BY <2>1 DEF OnChain
  <2> QED BY <1>2, <1>3, <1>4, <2>2 DEF Vouched
<1>5. CASE ~(m <= Birth[a])
  <2>1. /\ g = hdr[m] /\ g # NoHash /\ Vouched(r, m, g)
        /\ \A k \in Height : k <= m => t.scanned[k] = r.scanned[k]
    BY <1>2, <1>5 DEF MarksOK
  <2>2. Vouched(r, m, g)'
    BY <2>1, SameChain
  <2>3. Vouched(t, m, g)'
    BY <2>1, <2>2 DEF Vouched, OnChain
  <2> QED BY <1>2, <2>1, <2>3
<1> QED BY <1>4, <1>5

(* Inserting headers that are missing, or dropping those above a height,   *)
(* keeps the table to blocks the server had.                               *)
LEMMA NamesKept ==
    ASSUME NamesOK, UNCHANGED <<chain, forks>>, NEW set,
           \/ hdr' = hdr \/ hdr' = StoredHeaders(set)
           \/ \E h \in Int : hdr' = HeadersThrough(h)
    PROVE  NamesOK'
<1>1. \A h \in Height : \/ hdr'[h] = NoHash
                        \/ hdr'[h] = hdr[h] /\ hdr[h] # NoHash
                        \/ hdr'[h] = HashAt(h)
  BY DEF StoredHeaders, HeadersThrough
<1>2. ASSUME NEW h \in Height, hdr'[h] # NoHash PROVE Known(h, hdr[h])'
  <2>1. PICK g : g = hdr'[h]
    OBVIOUS
  <2>2. Known(h, g)
    BY <1>1, <1>2, <2>1 DEF NamesOK, Known
  <2> QED BY <2>1, <2>2, SameChain
<1> QED BY <1>2 DEF NamesOK, Tip

(* rewind_sync on a row keeps its marks: the checkpoint it falls back to   *)
(* is below the height whose headers go.                                   *)
LEMMA RewoundMarks ==
    ASSUME IInv, ChainOK', NamesOK', UNCHANGED <<chain, forks>>,
           NEW a \in Account, MarksOK(a, acct[a]), NEW h \in Height,
           hdr' = HeadersThrough(h), NEW t, t = Rewound(a, h)
    PROVE  MarksOK(a, t)'
<1> DEFINE below == {w \in acct[a].wit : w < h}
<1>1. PICK r : r = acct[a]
  OBVIOUS
<1>2. RowOK(a, r) /\ RowOK(a, t)
  BY <1>1, RewoundOK DEF IInv, RowsOK, Height
<1>3. \A m \in Marks(t) :
         \/ m <= Birth[a]
         \/ /\ m \in Marks(r) /\ hdr'[m] = hdr[m]
            /\ \A k \in Height : k <= m => t.scanned[k] = r.scanned[k]
  <2>1. CASE below = {}
    <3>1. t = Fresh(a)
      BY <2>1 DEF Rewound
    <3> QED BY <3>1, RangeAssumption DEF Fresh, Marks
  <2>2. CASE below # {}
    <3>1. Max(below) \in below
      <4>1. /\ below \in SUBSET Nat /\ acct[a].height \in Nat
            /\ \A y \in below : y <= acct[a].height
        BY <1>1, <1>2 DEF RowOK, Row
      <4> HIDE DEF below
      <4> QED BY <2>2, <4>1, MaxIsGreatest
    <3>2. PICK w \in r.wit : w = Max(below) /\ w < h
      BY <1>1, <3>1
    <3>3. t = Trimmed(r, w)
      BY <1>1, <2>2, <3>2 DEF Rewound
    <3>4. /\ t.height = w /\ t.wit = {v \in r.wit : v <= w}
          /\ \A k \in Height : k <= w => t.scanned[k] = r.scanned[k]
      BY <1>2, <3>2, <3>3 DEF Trimmed, RowOK, Row, Height
    <3>5. w \in Nat /\ \A v \in t.wit : v \in Height
      BY SMTT(20), <1>2, <3>2, RangeAssumption DEF RowOK, Row, Height
    <3> HIDE DEF below
    <3> SUFFICES ASSUME NEW m \in Marks(t)
                 PROVE  /\ m \in Marks(r) /\ hdr'[m] = hdr[m]
                        /\ \A k \in Height : k <= m => t.scanned[k] = r.scanned[k]
      OBVIOUS
    <3>6. m \in r.wit /\ m <= w
      BY <3>2, <3>4, <3>5 DEF Marks
    <3>7. m \in Height
      BY SMTT(20), <1>2, <3>6, RangeAssumption DEF RowOK, Row, Height
    <3>8. hdr'[m] = hdr[m]
      BY <3>2, <3>5, <3>6, <3>7, RangeAssumption DEF HeadersThrough, Height
    <3> QED BY <3>4, <3>5, <3>6, <3>7, <3>8 DEF Height, Marks
  <2> QED BY <2>1, <2>2
<1> QED BY <1>1, <1>2, <1>3, MarksKept

(* In a wallet of one account, that account is the range.                  *)
LEMMA SoleSyncing ==
    ASSUME IInv, HostOK, cycle # Idle
    PROVE  /\ Syncing # {} /\ Syncing \subseteq UNION host
           /\ \A a \in UNION host : Sole => Syncing = {a}
<1>1. PICK list \in SUBSET Account :
          cycle \in Running(list) /\ Cut(cycle) /\ Placed(cycle, acct)
  BY DEF IInv, CycleOK
<1>2. \E b \in DOMAIN cycle.froms : cycle.froms[b] <= cycle.start
  BY <1>1 DEF Cut
<1>3. Syncing # {} /\ Syncing \subseteq UNION host
  BY <1>2 DEF Syncing, InRange, HostOK
<1> QED BY <1>3 DEF Sole

(* The server's steps: a header that matches after one matched before it.  *)
LEMMA ServerSole ==
    ASSUME SoleInv, Mine \/ \E f \in Height : Fork(f)
    PROVE  SoleInv'
<1> USE RangeAssumption
<1>1. UNCHANGED <<host, acct, hdr, cycle>>
  BY DEF Mine, Fork
<1>2. IInv' /\ ChainOK /\ NamesOK
  BY ServerIInv DEF SoleInv, IInv
<1>3. NamesOK'
  <2>1. \A h \in 1 .. Len(chain') : chain'[h] <= forks'
    <3>1. /\ chain \in Seq(0 .. MaxForks) /\ forks \in Nat
          /\ \A k \in 1 .. Len(chain) : chain[k] \in Nat /\ chain[k] <= forks
      BY <1>2 DEF ChainOK, NamesOK, Tip
    <3>2. CASE Mine
      BY <3>1, <3>2 DEF Mine
    <3>3. ASSUME NEW f \in Height, Fork(f)
          PROVE  \A h \in 1 .. Len(chain') : chain'[h] <= forks'
      <4>1. /\ Len(chain') = f - 1 /\ f \in 1 .. Len(chain) /\ forks' = forks + 1
            /\ \A k \in 1 .. (f - 1) : chain'[k] = chain[k]
        BY <3>1, <3>3 DEF Fork, Tip, Height
      <4> QED BY SMTT(20), <3>1, <4>1
    <3> QED BY <3>2, <3>3
  <2>2. ASSUME NEW h \in Height, hdr'[h] # NoHash PROVE Known(h, hdr[h])'
    <3>1. PICK g \in Int : g = hdr[h]
      BY <1>2 DEF ChainOK, NoHash
    <3>2. Known(h, g)'
      BY <1>1, <1>2, <2>2, <3>1, ServerVouches DEF NamesOK
    <3> QED BY <1>1, <3>1, <3>2
  <2> QED BY <2>1, <2>2 DEF NamesOK, Tip
<1>4. ASSUME NEW r, NEW m \in Height, NEW g \in Int, Vouched(r, m, g)
      PROVE  Vouched(r, m, g)'
  <2> SUFFICES ASSUME g # NoHash
               PROVE  Known(m, g)' /\ (HashAt(m)' = g => OnChain(r, m)')
    BY DEF Vouched
  <2>1. Known(m, g)
    BY <1>4 DEF Vouched
  <2>2. ASSUME HashAt(m)' = g PROVE OnChain(r, m)'
    <3>1. HashAt(m) = g /\ \A k \in Height : k <= m => HashAt(k)' = HashAt(k)
      BY <1>2, <2>1, <2>2, ServerVouches
    <3>2. OnChain(r, m)
      BY <1>4, <3>1 DEF Vouched
    <3> QED BY <3>1, <3>2 DEF OnChain
  <2> QED BY <1>2, <2>1, <2>2, ServerVouches
<1>5. SoleOK'
  <2> SUFFICES ASSUME Sole, NEW a \in Account, a \in UNION host
               PROVE  MarksOK(a, acct[a])' /\ StreamOK(a, acct[a])'
    BY <1>1 DEF SoleOK, Sole
  <2>1. PICK r : r = acct[a]
    OBVIOUS
  <2>2. MarksOK(a, r) /\ StreamOK(a, r) /\ RowOK(a, r)
    BY <1>2, <2>1 DEF SoleInv, SoleOK, IInv, RowsOK
  <2>3. \A m \in Marks(r) : m \in Height /\ hdr[m] \in Int
    BY <1>2, <2>2 DEF RowOK, Row, Marks, Height, ChainOK, NoHash
  <2>4. MarksOK(a, r)'
    <3>1. ASSUME NEW m \in Marks(r)
          PROVE  (m <= Birth[a] \/ hdr'[m] # NoHash) /\ Vouched(r, m, hdr[m])'
      <4>1. PICK g \in Int : g = hdr[m]
        BY <2>3
      <4>2. Vouched(r, m, g)'
        BY <1>4, <2>2, <2>3, <4>1 DEF MarksOK
      <4> QED BY <1>1, <2>2, <4>1, <4>2 DEF MarksOK
    <3> QED BY <3>1 DEF MarksOK, Marks
  <2>5. StreamOK(a, r)'
    <3> SUFFICES ASSUME cycle.at = "range"
                 PROVE  /\ cycle'.prev = NoHash => cycle'.cur = Birth[a]
                        /\ Vouched(r, cycle.cur, cycle.prev)'
      BY <1>1 DEF StreamOK
    <3>1. cycle # Idle
      BY DEF Idle
    <3>2. PICK m \in Height : m = cycle.cur
      BY <3>1, SyncingFacts DEF SoleInv
    <3>3. PICK g \in Int : g = cycle.prev
      BY <3>1 DEF SoleInv, IInv, CycleOK, Running
    <3>4. Vouched(r, m, g)'
      BY <1>4, <2>2, <3>2, <3>3 DEF StreamOK
    <3> QED BY <1>1, <2>2, <3>2, <3>3, <3>4 DEF StreamOK
  <2> QED BY <1>1, <2>1, <2>4, <2>5
<1>6. HostOK'
  BY <1>1 DEF SoleInv, HostOK, Idle, Fresh
<1> QED BY <1>2, <1>3, <1>5, <1>6 DEF SoleInv

(* A step that leaves the chain and its rows' marks alone and does not     *)
(* stream keeps a sole account on the chain.                               *)
LEMMA QuietSole ==
    ASSUME SoleInv, IInv', NamesOK', HostOK', UNCHANGED <<host, chain, forks>>,
           cycle'.at # "range",
           \A a \in Account : MarksOK(a, acct[a]) => MarksOK(a, acct[a])'
    PROVE  SoleInv'
<1>1. SoleOK'
  <2> SUFFICES ASSUME Sole, NEW a \in Account, a \in UNION host
               PROVE  MarksOK(a, acct[a])' /\ StreamOK(a, acct[a])'
    BY DEF SoleOK, Sole
  <2>1. MarksOK(a, acct[a])'
    BY DEF SoleInv, SoleOK
  <2>2. StreamOK(a, acct[a])'
    BY DEF StreamOK
  <2> QED BY <2>1, <2>2
<1> QED BY <1>1 DEF SoleInv

(* A cycle is never in its stream when it opens.                           *)
LEMMA OpenedIsOpen ==
    ASSUME NEW froms, NEW start, NEW tip, NEW c, c = Opened(froms, start, tip)
    PROVE  c.at # "range" /\ (c # Idle => c.froms = froms)
BY DEF Opened, Idle

(* Recovery and pruning at the start of a cycle drop marks and blocks      *)
(* above the height, nothing else.                                         *)
LEMMA StartCycleSole ==
    ASSUME SoleInv, NEW list \in SUBSET Account, NEW target \in Height,
           StartCycle(list, target)
    PROVE  SoleInv'
<1> USE RangeAssumption
<1> DEFINE froms == [a \in list |-> Synced(a) + 1]
           cutoff == Max({0, target - CheckpointAge})
<1>1. IInv' /\ IInv /\ NamesOK /\ HostOK
  BY StartCycleIInv DEF SoleInv
<1>2. /\ list \in host /\ UNCHANGED <<host, chain, hdr, forks>>
      /\ acct' = [a \in Account |-> IF a \in list THEN Prepared(a, cutoff) ELSE acct[a]]
      /\ cycle' = Opened(froms, Min(Starts(froms)), target)
  BY DEF StartCycle
<1>3. NamesOK'
  BY <1>1, <1>2, NamesKept
<1>4. cycle'.at # "range" /\ (cycle' # Idle => cycle'.froms = froms)
  <2> HIDE DEF froms
  <2> QED BY <1>2, OpenedIsOpen
<1>5. HostOK'
  <2>1. list \subseteq UNION host
    BY <1>2
  <2>2. DOMAIN froms = list
    OBVIOUS
  <2> HIDE DEF froms, cutoff
  <2>3. \A a \in Account : a \notin UNION host => acct'[a] = Fresh(a)
    BY <1>1, <1>2, <2>1 DEF HostOK
  <2>4. cycle' # Idle => DOMAIN cycle'.froms \subseteq UNION host
    BY <1>4, <2>1, <2>2
  <2> QED BY <1>2, <2>3, <2>4 DEF HostOK, Idle, Fresh
<1>6. cutoff \in Int
  <2>1. target - CheckpointAge \in Int
    BY DEF Height
  <2> QED BY <2>1 DEF Max
<1> HIDE DEF froms, cutoff
<1>7. ASSUME NEW a \in Account, MarksOK(a, acct[a]) PROVE MarksOK(a, acct[a])'
  <2>1. PICK r : r = acct[a]
    OBVIOUS
  <2>2. PICK t : t = acct'[a]
    OBVIOUS
  <2>3. RowOK(a, r) /\ RowOK(a, t)
    BY <1>1, <2>1, <2>2 DEF IInv, RowsOK
  <2>4. /\ Marks(t) \subseteq Marks(r)
        /\ \A k \in Height : k <= r.height => t.scanned[k] = r.scanned[k]
    <3>1. CASE a \notin list
      BY <1>2, <2>1, <2>2, <3>1
    <3>2. CASE a \in list
      <4>1. t = Trimmed(Pruned(r, cutoff), r.height)
        BY <1>1, <1>2, <1>6, <2>1, <2>2, <3>2, PreparedOK DEF Prepared, IInv, RowsOK
      <4>2. PICK kept \in SUBSET r.wit : Pruned(r, cutoff) = [r EXCEPT !.wit = kept]
        <5>1. r = [r EXCEPT !.wit = r.wit]
          BY <2>3 DEF RowOK, Row
        <5> QED BY <5>1 DEF Pruned
      <4>3. /\ t.height = r.height /\ t.wit \subseteq r.wit
            /\ \A k \in Height : k <= r.height => t.scanned[k] = r.scanned[k]
        BY <2>3, <4>1, <4>2 DEF Trimmed, RowOK, Row, Height
      <4> QED BY <4>3 DEF Marks
    <3> QED BY <3>1, <3>2
  <2>5. \A m \in Marks(t) : m <= r.height /\ m \in Nat /\ r.height \in Nat
    BY <2>3, <2>4 DEF RowOK, Row, Marks
  <2>6. \A m \in Marks(t) : /\ m \in Marks(r) /\ hdr'[m] = hdr[m]
            /\ \A k \in Height : k <= m => t.scanned[k] = r.scanned[k]
    BY <1>2, <2>4, <2>5 DEF Height
  <2>7. MarksOK(a, r) /\ ChainOK'
    BY <1>1, <1>7, <2>1 DEF IInv
  <2>8. MarksOK(a, t)'
    BY <1>2, <1>3, <2>3, <2>6, <2>7, MarksKept
  <2> QED BY <2>2, <2>8
<1> QED BY <1>1, <1>2, <1>3, <1>4, <1>5, <1>7, QuietSole

(* The end of a range inserts missing headers only, and a mark without a   *)
(* header is the birthday.                                                 *)
LEMMA FinishRangeSole == ASSUME SoleInv, FinishRange PROVE SoleInv'
<1> USE RangeAssumption
<1> DEFINE later == {s \in Starts(cycle.froms) : s > cycle.start}
<1>1. IInv' /\ IInv /\ NamesOK /\ HostOK
  BY FinishRangeIInv DEF SoleInv
<1>2. /\ cycle.at = "filling" /\ hdr' = StoredHeaders(Unfilled)
      /\ cycle' = IF later = {} THEN Idle
                  ELSE Opened(cycle.froms, Min(later), cycle.tip)
      /\ UNCHANGED <<host, chain, acct, forks>>
  BY DEF FinishRange
<1>3. NamesOK'
  BY <1>1, <1>2, NamesKept
<1> HIDE DEF later
<1>4. cycle'.at # "range" /\ (cycle' # Idle => cycle'.froms = cycle.froms)
  <2>1. Idle.at # "range"
    BY DEF Idle
  <2> QED BY <1>2, <2>1, OpenedIsOpen
<1>5. cycle # Idle
  BY <1>2 DEF Idle
<1>6. HostOK'
  <2>1. cycle' # Idle => DOMAIN cycle'.froms \subseteq UNION host
    BY <1>1, <1>4, <1>5 DEF HostOK
  <2> QED BY <1>1, <1>2, <2>1 DEF HostOK, Idle, Fresh
<1>7. ASSUME NEW a \in Account, MarksOK(a, acct[a]) PROVE MarksOK(a, acct[a])'
  <2>1. PICK r : r = acct[a]
    OBVIOUS
  <2>2. RowOK(a, r) /\ MarksOK(a, r) /\ ChainOK'
    BY <1>1, <1>7, <2>1 DEF IInv, RowsOK
  <2>3. \A m \in Marks(r) : m \in Height
    BY <2>2 DEF RowOK, Row, Marks, Height
  <2>4. \A m \in Marks(r) : m <= Birth[a] \/ hdr'[m] = hdr[m]
    BY <1>2, <2>2, <2>3 DEF StoredHeaders, MarksOK
  <2>5. MarksOK(a, r)'
    BY <1>2, <1>3, <2>2, <2>4, MarksKept
  <2> QED BY <1>2, <2>1, <2>5
<1> QED BY <1>1, <1>2, <1>3, <1>4, <1>6, <1>7, QuietSole

(* The break found by the stream and the rewind asked for by the host.     *)
LEMMA RewindSole ==
    ASSUME SoleInv, MeetReorg \/ \E a \in Account, h \in Height : HostRewind(a, h)
    PROVE  SoleInv'
<1> USE RangeAssumption
<1>1. IInv' /\ IInv /\ NamesOK /\ HostOK /\ ChainOK'
  BY RewindIInv DEF SoleInv, IInv
<1>2. PICK h \in Height, set \in SUBSET Account :
         /\ set \subseteq UNION host
         /\ acct' = [a \in Account |-> IF a \in set THEN Rewound(a, h) ELSE acct[a]]
         /\ hdr' = HeadersThrough(h) /\ cycle' = Idle
         /\ UNCHANGED <<host, chain, forks>>
         /\ Sole => \A a \in UNION host : a \in set
  <2>1. CASE MeetReorg
    <3>1. cycle # Idle
      BY <2>1 DEF MeetReorg, Idle
    <3>2. /\ cycle.cur \in Height /\ Syncing \in SUBSET Account
          /\ Syncing \subseteq UNION host
          /\ Sole => \A a \in UNION host : a \in Syncing
      BY <1>1, <3>1, SyncingFacts, SoleSyncing
    <3> QED BY <2>1, <3>2 DEF MeetReorg
  <2>2. ASSUME NEW b \in Account, NEW h \in Height, HostRewind(b, h)
        PROVE  /\ {b} \subseteq UNION host
               /\ acct' = [a \in Account |-> IF a \in {b} THEN Rewound(a, h) ELSE acct[a]]
               /\ hdr' = HeadersThrough(h) /\ cycle' = Idle
               /\ UNCHANGED <<host, chain, forks>>
               /\ Sole => \A a \in UNION host : a \in {b}
    <3>1. cycle = Idle
      BY <1>1, <2>2 DEF HostRewind, IInv, CycleOK, Running
    <3>2. acct \in [Account -> Row]
      BY <1>1 DEF IInv, RowsOK
    <3> QED BY <2>2, <3>1, <3>2 DEF HostRewind, Sole
  <2>3. CASE \E b \in Account, h \in Height : HostRewind(b, h)
    <3>1. PICK b \in Account, h \in Height : HostRewind(b, h)
      BY <2>3
    <3> WITNESS h \in Height, {b} \in SUBSET Account
    <3> QED BY <2>2, <3>1
  <2> QED BY <2>1, <2>3
<1>3. NamesOK'
  <2>1. h \in Int
    BY DEF Height
  <2> QED BY <1>1, <1>2, <2>1, NamesKept
<1>4. HostOK'
  BY <1>1, <1>2 DEF HostOK, Idle, Fresh
<1>5. SoleOK'
  <2> SUFFICES ASSUME Sole, NEW a \in Account, a \in UNION host
               PROVE  MarksOK(a, acct[a])' /\ StreamOK(a, acct[a])'
    BY <1>2 DEF SoleOK, Sole
  <2>1. PICK t : t = Rewound(a, h)
    OBVIOUS
  <2>2. MarksOK(a, acct[a])
    BY DEF SoleInv, SoleOK
  <2>3. MarksOK(a, t)'
    BY <1>1, <1>2, <1>3, <2>1, <2>2, RewoundMarks
  <2>4. acct'[a] = t
    BY <1>2, <2>1
  <2>5. StreamOK(a, acct[a])'
    BY <1>2 DEF StreamOK, Idle
  <2> QED BY <2>3, <2>4, <2>5
<1> QED BY <1>1, <1>3, <1>4, <1>5 DEF SoleInv

(* The stream starts from the header at the sole account's own height.     *)
LEMMA OpenRangeSole == ASSUME SoleInv, OpenRange PROVE SoleInv'
<1> USE RangeAssumption
<1>1. IInv' /\ IInv /\ NamesOK /\ HostOK /\ ChainOK'
  BY OpenRangeIInv DEF SoleInv, IInv
<1>2. /\ cycle.at = "open"
      /\ acct' = [a \in Account |->
            IF a \in Syncing THEN [acct[a] EXCEPT !.theight = cycle.end] ELSE acct[a]]
      /\ cycle' = [cycle EXCEPT !.at = "range", !.prev = hdr[cycle.cur]]
      /\ UNCHANGED <<host, chain, hdr, forks>>
  BY DEF OpenRange
<1>3. NamesOK'
  BY <1>1, <1>2, NamesKept
<1>4. cycle # Idle
  BY <1>2 DEF Idle
<1>5. /\ cycle'.froms = cycle.froms /\ cycle'.cur = cycle.cur
      /\ cycle'.prev = hdr[cycle.cur]
  BY <1>1, <1>2, <1>4 DEF IInv, CycleOK, Running
<1>6. HostOK'
  <2>1. Syncing \subseteq UNION host
    BY <1>1, <1>4, SoleSyncing
  <2>2. \A a \in Account : a \notin UNION host => acct'[a] = acct[a]
    BY <1>2, <2>1
  <2> QED BY <1>1, <1>2, <1>4, <1>5, <2>2 DEF HostOK, Fresh, Idle
<1>7. SoleOK'
  <2> SUFFICES ASSUME Sole, NEW a \in Account, a \in UNION host
               PROVE  MarksOK(a, acct[a])' /\ StreamOK(a, acct[a])'
    BY <1>2 DEF SoleOK, Sole
  <2>1. PICK r : r = acct[a]
    OBVIOUS
  <2>2. PICK t : t = acct'[a]
    OBVIOUS
  <2>3. RowOK(a, r) /\ RowOK(a, t) /\ MarksOK(a, r)
    BY <1>1, <2>1, <2>2 DEF IInv, RowsOK, SoleInv, SoleOK
  <2>4. t.height = r.height /\ t.wit = r.wit /\ t.scanned = r.scanned
    BY <1>2, <2>1, <2>2, <2>3 DEF RowOK, Row
  <2>5. MarksOK(a, t)'
    BY <1>1, <1>2, <1>3, <2>3, <2>4, MarksKept DEF Marks
  <2>6. PICK m \in Height : m = cycle.cur /\ m = r.height
    BY <1>1, <1>4, <2>1, SyncingFacts, SoleSyncing
  <2>7. PICK g : g = hdr[m]
    OBVIOUS
  <2>8. /\ g = NoHash => m <= Birth[a]
        /\ Vouched(r, m, g)
    BY <2>3, <2>6, <2>7 DEF MarksOK, Marks
  <2>9. g = NoHash => m = Birth[a]
    BY <2>3, <2>6, <2>8 DEF RowOK, Row, Height
  <2>10. Vouched(t, m, g)'
    BY <1>2, <2>4, <2>8, SameChain DEF Vouched, OnChain
  <2>11. StreamOK(a, t)'
    BY <1>5, <2>6, <2>7, <2>9, <2>10 DEF StreamOK
  <2> QED BY <2>2, <2>5, <2>11
<1> QED BY <1>1, <1>3, <1>6, <1>7 DEF SoleInv

(* A chunk that links makes the whole row the server's chain: what came    *)
(* before it is vouched for by the header it links to.                     *)
LEMMA CommitChunkSole ==
    ASSUME SoleInv, NEW h \in Height, NEW witnessed \in SUBSET Account,
           CommitChunk(h, witnessed)
    PROVE  SoleInv'
<1> USE RangeAssumption
<1> DEFINE scan(a) == [k \in Height |-> IF k \in (cycle.cur + 1) .. h THEN HashAt(k)
                                         ELSE acct[a].scanned[k]]
           wit(a) == acct[a].wit \cup (IF a \in witnessed THEN {h} ELSE {})
           set == {h} \cup (SyncHeights \cap ((cycle.cur + 1) .. h))
<1>1. IInv' /\ IInv /\ NamesOK /\ HostOK /\ ChainOK /\ ChainOK'
  BY CommitChunkIInv DEF SoleInv, IInv
<1>2. /\ cycle.at = "range" /\ Linked
      /\ h \in (cycle.cur + 1) .. cycle.end /\ h <= Tip
      /\ hdr' = StoredHeaders(set)
      /\ cycle' = [cycle EXCEPT !.cur = h, !.prev = HashAt(h),
                                !.at = IF h = cycle.end THEN "filling" ELSE cycle.at]
      /\ UNCHANGED <<host, chain, forks>>
  BY Zenon DEF CommitChunk
<1>3. acct' = [a \in Account |-> IF a \notin Syncing THEN acct[a]
                  ELSE [acct[a] EXCEPT !.height = h, !.wit = wit(a), !.scanned = scan(a)]]
  BY Zenon DEF CommitChunk
<1>4. h \in set
  OBVIOUS
<1> HIDE DEF set
<1>5. NamesOK'
  BY <1>1, <1>2, NamesKept
<1>6. cycle # Idle
  BY <1>2 DEF Idle
<1>7. /\ cycle'.froms = cycle.froms /\ cycle'.cur = h /\ cycle'.prev = HashAt(h)
  BY <1>1, <1>2, <1>6 DEF IInv, CycleOK, Running
<1>8. HostOK'
  <2>1. Syncing \subseteq UNION host
    BY <1>1, <1>6, SoleSyncing
  <2>2. \A a \in Account : a \notin UNION host => acct'[a] = acct[a]
    BY <1>3, <2>1
  <2> QED BY <1>1, <1>2, <1>6, <1>7, <2>2 DEF HostOK, Fresh, Idle
<1>9. HashAt(h) # NoHash
  <2>1. h \in 1 .. Tip
    BY <1>1, <1>2 DEF ChainOK, Tip, Height
  <2> QED BY <1>1, <2>1, HashTypes
<1>10. SoleOK'
  <2> SUFFICES ASSUME Sole, NEW a \in Account, a \in UNION host
               PROVE  MarksOK(a, acct[a])' /\ StreamOK(a, acct[a])'
    BY <1>2 DEF SoleOK, Sole
  <2>1. PICK r : r = acct[a]
    OBVIOUS
  <2>2. PICK t : t = acct'[a]
    OBVIOUS
  <2>3. /\ RowOK(a, r) /\ RowOK(a, t) /\ MarksOK(a, r)
    BY <1>1, <2>1, <2>2 DEF IInv, RowsOK, SoleInv, SoleOK
  <2>4. a \in Syncing /\ r.height = cycle.cur /\ cycle.cur \in Height
    BY <1>1, <1>6, <2>1, SyncingFacts, SoleSyncing
  <2>5. /\ t.height = h /\ t.wit \subseteq r.wit \cup {h}
        /\ \A k \in Height : t.scanned[k] =
              IF k \in (cycle.cur + 1) .. h THEN HashAt(k) ELSE r.scanned[k]
    <3>1. acct'[a] = [acct[a] EXCEPT !.height = h, !.wit = wit(a), !.scanned = scan(a)]
      BY <1>3, <2>4
    <3>2. t.height = h /\ t.wit = wit(a) /\ t.scanned = scan(a)
      <4> HIDE DEF wit, scan
      <4> QED BY <2>1, <2>2, <2>3, <3>1 DEF RowOK, Row
    <3> QED BY <2>1, <3>2
  <2>6. OnChain(r, cycle.cur)
    <3>1. CASE cycle.prev = NoHash
      <4>1. cycle.cur = Birth[a]
        BY <1>2, <2>1, <3>1 DEF SoleInv, SoleOK, StreamOK
      <4>2. \A k \in Height : k <= Birth[a] => r.scanned[k] = NoHash
        BY <2>3, NothingBelowBirth
      <4> QED BY <4>1, <4>2 DEF OnChain
    <3>2. CASE cycle.prev # NoHash
      <4>1. Vouched(r, cycle.cur, cycle.prev)
        BY <1>2, <2>1 DEF SoleInv, SoleOK, StreamOK
      <4> QED BY <1>2, <3>2, <4>1 DEF Vouched, Linked
    <3> QED BY <3>1, <3>2
  <2>7. \A k \in Height : t.scanned[k] \in {NoHash, HashAt(k)}
    <3> SUFFICES ASSUME NEW k \in Height PROVE t.scanned[k] \in {NoHash, HashAt(k)}
      OBVIOUS
    <3>1. CASE k <= cycle.cur
      BY <2>4, <2>5, <2>6, <3>1 DEF OnChain, Height
    <3>2. CASE k \in (cycle.cur + 1) .. h
      BY <2>5, <3>2
    <3>3. CASE k > h
      BY SMTT(20), <2>3, <2>5, <3>3 DEF RowOK, Row, Height
    <3> QED BY <2>4, <3>1, <3>2, <3>3 DEF Height
  <2>8. \A k : HashAt(k)' = HashAt(k)
    BY <1>2, SameChain
  <2>9. \A m : OnChain(t, m)'
    BY <2>7, <2>8 DEF OnChain
  <2>10. MarksOK(a, t)'
    <3> SUFFICES ASSUME NEW m \in Marks(t)
                 PROVE  (m <= Birth[a] \/ hdr'[m] # NoHash) /\ Vouched(t, m, hdr[m])'
      BY DEF MarksOK, Marks
    <3>1. m \in Height
      BY <2>3, MarkHeights
    <3>2. PICK g : g = hdr'[m]
      OBVIOUS
    <3>3. Vouched(t, m, g)'
      BY <1>5, <2>9, <3>1, <3>2 DEF Vouched, NamesOK
    <3>4. m <= Birth[a] \/ hdr'[m] # NoHash
      <4>1. m \in Marks(r) \/ m = h
        BY <2>5 DEF Marks
      <4>2. CASE m = h
        BY <1>2, <1>4, <1>9, <4>2 DEF StoredHeaders
      <4>3. CASE m \in Marks(r) /\ ~(m <= Birth[a])
        BY <1>2, <2>3, <3>1, <4>3 DEF StoredHeaders, MarksOK
      <4> QED BY <4>1, <4>2, <4>3
    <3> QED BY <3>2, <3>3, <3>4
  <2>11. StreamOK(a, t)'
    <3>1. PICK g : g = HashAt(h)
      OBVIOUS
    <3>2. Vouched(t, h, g)'
      BY <2>8, <2>9, <3>1 DEF Vouched, Known
    <3> QED BY <1>7, <1>9, <3>1, <3>2 DEF StreamOK
  <2> QED BY <2>2, <2>10, <2>11
<1> QED BY <1>1, <1>5, <1>8, <1>10 DEF SoleInv

(* SoleInv is an invariant of the cycle.                                   *)
THEOREM SoleInvariant == Spec => []SoleInv
<1>1. Init => SoleInv
  <2> SUFFICES ASSUME Init PROVE SoleInv
    OBVIOUS
  <2>1. IInv
    BY InitIInv
  <2>2. NamesOK
    <3>1. \A h \in Height : hdr[h] = NoHash
      BY DEF Init
    <3>2. \A h \in DOMAIN chain : chain[h] <= forks
      BY RangeAssumption DEF Init
    <3>3. DOMAIN chain = 1 .. Tip
      BY <2>1 DEF IInv, ChainOK, Tip
    <3> QED BY <3>1, <3>2, <3>3 DEF NamesOK
  <2>3. HostOK
    BY DEF Init, HostOK
  <2>4. ASSUME NEW a \in Account PROVE MarksOK(a, acct[a])
    <3>1. Marks(acct[a]) = {Birth[a]} /\ Birth[a] \in Height
      BY RangeAssumption DEF Init, Fresh, Marks, Height
    <3>2. hdr[Birth[a]] = NoHash
      BY <3>1 DEF Init
    <3> QED BY <3>1, <3>2, RangeAssumption DEF MarksOK, Vouched
  <2>5. cycle.at # "range"
    BY DEF Init, Idle
  <2> QED BY <2>1, <2>2, <2>3, <2>4, <2>5 DEF SoleInv, SoleOK, StreamOK
<1>2. SoleInv /\ [Next]_vars => SoleInv'
  <2> SUFFICES ASSUME SoleInv, [Next]_vars PROVE SoleInv'
    OBVIOUS
  <2>1. CASE UNCHANGED vars
    BY <2>1 DEF vars, SoleInv, IInv, ChainOK, RowsOK, CycleOK, Tip, NamesOK, Known, HashAt,
       HostOK, SoleOK, Sole, MarksOK, Marks, StreamOK, Vouched, OnChain
  <2>2. CASE FailCycle \/ LoseBlocks
    <3>1. /\ cycle' = Idle /\ UNCHANGED <<host, chain, acct, hdr, forks>>
          /\ fails' = fails \/ (fails < MaxFails /\ fails' = fails + 1)
      BY <2>2 DEF FailCycle, LoseBlocks
    <3>2. IInv'
      BY <3>1, RangeAssumption DEF SoleInv, IInv, ChainOK, RowsOK, CycleOK, Tip, Idle
    <3>3. NamesOK'
      BY <3>1, NamesKept DEF SoleInv
    <3>4. HostOK'
      BY <3>1 DEF SoleInv, HostOK, Idle, Fresh
    <3>5. \A a \in Account : MarksOK(a, acct[a]) => MarksOK(a, acct[a])'
      BY <3>1, SameChain DEF MarksOK
    <3>6. cycle'.at # "range"
      BY <3>1 DEF Idle
    <3> QED BY <3>1, <3>2, <3>3, <3>4, <3>5, <3>6, QuietSole
  <2> QED
    BY <2>1, <2>2, ServerSole, StartCycleSole, OpenRangeSole, CommitChunkSole,
       FinishRangeSole, RewindSole DEF Next, CycleStep
<1> QED BY <1>1, <1>2, PTL DEF Spec

(* A wallet of one account never keeps a note of an abandoned fork that    *)
(* the next cycle would not find: when the stored header at its height is  *)
(* the server's, or missing, everything it scanned is the server's chain.  *)
THEOREM SoleStaysOnChain == Spec => []SoleAccountStaysOnChain
<1>1. SoleInv => SoleAccountStaysOnChain
  <2> SUFFICES ASSUME SoleInv, Sole, NEW a \in Account, WouldLink(a), NEW h \in Height
               PROVE  acct[a].scanned[h] \in {NoHash, HashAt(h)}
    BY DEF SoleAccountStaysOnChain, LinkedMeansSameChain, ScannedOnChain
  <2>1. RowOK(a, acct[a])
    BY DEF SoleInv, IInv, RowsOK
  <2>2. CASE a \notin UNION host
    <3>1. acct[a] = Fresh(a)
      BY <2>2 DEF SoleInv, HostOK
    <3> QED BY <3>1 DEF Fresh
  <2>3. CASE a \in UNION host /\ h <= acct[a].height
    <3>1. MarksOK(a, acct[a]) /\ acct[a].height \in Marks(acct[a])
      BY <2>3 DEF SoleInv, SoleOK, Marks
    <3>2. CASE acct[a].height <= Birth[a]
      BY <2>1, <2>3, <3>2, RangeAssumption DEF RowOK, Row, Height
    <3>3. CASE ~(acct[a].height <= Birth[a])
      BY <2>3, <3>1, <3>3 DEF MarksOK, Vouched, OnChain, WouldLink
    <3> QED BY <3>2, <3>3
  <2>4. CASE h > acct[a].height
    BY <2>1, <2>4, RangeAssumption DEF RowOK, Row, Height
  <2> QED BY <2>1, <2>2, <2>3, <2>4 DEF RowOK, Row, Height
<1> QED BY <1>1, SoleInvariant, PTL
=============================================================================
