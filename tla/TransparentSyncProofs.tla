----------------------- MODULE TransparentSyncProofs -----------------------
(***************************************************************************)
(* What ticks, walks and host operations leave in an account's rows, for   *)
(* every set of addresses, birthdays and bounds, in four parts, each on the*)
(* invariant of the one before.                                            *)
(*                                                                         *)
(* Types: the rows keep their types and their mutual references under every*)
(* operation, and the transparent pool never passes a marked row.          *)
(*                                                                         *)
(* History: wherever the seam is still on the server's chain, notes, markers*)
(* and debts up to it are right about every block.                         *)
(*                                                                         *)
(* Debts: a payment of the chain that was seen is a note, or its row owes  *)
(* it and a running tick still has it ahead.  This needs no hypothesis:    *)
(* forks may come at any moment.                                           *)
(*                                                                         *)
(* Coverage: a certificate stands on the heights up to the one it was      *)
(* given at.  Onward is what a step must keep for it (no note, marker or   *)
(* checkpoint in its range is lost without the trim counter moving), and   *)
(* WalkCov is what a walk in flight has already shown.                     *)
(***************************************************************************)
EXTENDS TransparentSync, SequenceTheorems, WellFoundedInduction, FiniteSetTheorems, TLAPS

(* Max of a bounded set of naturals is its greatest element: rewind_sync   *)
(* and prune_old_checkpoints select MAX(height).                           *)
LEMMA MaxIsGreatest ==
    ASSUME NEW S \in SUBSET Nat, S # {}, NEW n \in Nat, \A y \in S : y <= n
    PROVE  Max(S) \in S /\ \A y \in S : y <= Max(S)
<1> DEFINE D == {d \in Nat : n - d \in S}
           R == {ss \in Nat \X Nat : ss[1] < ss[2]}
<1>1. PICK y \in S : TRUE
  OBVIOUS
<1>2. n - y \in D
  <2>1. n - y \in Nat /\ n - (n - y) \in S
    BY <1>1
  <2> QED BY <2>1
<1>3. IsWellFoundedOn(R, Nat)
  BY NatLessThanWellFounded, Zenon DEF OpToRel
<1>4. PICK x \in D : \A d \in D : ~(<<d, x>> \in R)
  <2>1. D \subseteq Nat /\ D # {}
    BY <1>2
  <2> HIDE DEF R, D
  <2> QED BY <1>3, <2>1, WFMin
<1>5. \A d \in D : x <= d
  <2> SUFFICES ASSUME NEW d \in D, d < x PROVE FALSE
    OBVIOUS
  <2>1. <<d, x>> \in R
    OBVIOUS
  <2> QED BY <1>4, <2>1, Zenon
<1>6. \A z \in S : n - z \in D
  OBVIOUS
<1>7. n - x \in S /\ \A z \in S : z <= n - x
  BY <1>4, <1>5, <1>6
<1> QED BY <1>7 DEF Max

-----------------------------------------------------------------------------
(* Types.                                                                  *)

Hash == {NoHash} \cup Forks
Block == [fork : Forks, pays : Addr \cup {NoAddr}]

RowType ==
    [stored : BOOLEAN, marker : Null .. MaxHeight, owed : 0 .. MaxHeight,
     used : BOOLEAN, since : 0 .. MaxHeight]

Db ==
    [hT : 0 .. MaxHeight, hS : 0 .. MaxHeight, wit : SUBSET Height,
     rows : [Addr -> RowType], notes : SUBSET Notes, trims : Nat, inc : Nat,
     cov : [trim : Int, gap : Nat, from : Nat], birth : 1 .. Birth]

\* All but rows and notes is the same.
SameRest(d, e) ==
    /\ e.hT = d.hT /\ e.hS = d.hS /\ e.wit = d.wit /\ e.trims = d.trims
    /\ e.inc = d.inc /\ e.cov = d.cov /\ e.birth = d.birth

\* A row's columns but those in cols are the same.
SameRow(r, s, cols) ==
    /\ "stored" \in cols \/ s.stored = r.stored
    /\ "marker" \in cols \/ s.marker = r.marker
    /\ "owed" \in cols \/ s.owed = r.owed
    /\ "used" \in cols \/ s.used = r.used
    /\ "since" \in cols \/ s.since = r.since

-----------------------------------------------------------------------------
(* What the statements write.                                              *)

(* advance_backfilled_height moves one marker, up, or nothing.             *)
LEMMA AdvancedMarkerDb ==
    ASSUME NEW d \in Db, NEW a \in Addr, NEW from \in Int,
           NEW through \in 0 .. MaxHeight,
           NEW e, e = AdvancedMarker(d, a, from, through)
    PROVE  /\ e \in Db /\ SameRest(d, e) /\ e.notes = d.notes
           /\ \A b \in Addr : SameRow(d.rows[b], e.rows[b], {"marker"})
           /\ \A b \in Addr \ {a} : e.rows[b] = d.rows[b]
           /\ e.rows[a].marker =
                IF /\ from <= Larger(d.rows[a].marker + 1, d.birth)
                   /\ d.rows[a].marker < through
                THEN through ELSE d.rows[a].marker
<1>1. CASE /\ from <= Larger(d.rows[a].marker + 1, d.birth)
           /\ d.rows[a].marker < through
  <2>1. e = [d EXCEPT !.rows[a].marker = through]
    BY <1>1 DEF AdvancedMarker
  <2>2. through \in Null .. MaxHeight
    BY SyncAssumption DEF Null
  <2>3. /\ \A b \in Addr : e.rows[b] \in RowType
        /\ \A b \in Addr : SameRow(d.rows[b], e.rows[b], {"marker"})
        /\ \A b \in Addr \ {a} : e.rows[b] = d.rows[b]
        /\ e.rows[a].marker = through
    BY <2>1, <2>2 DEF Db, RowType, SameRow
  <2>4. e \in Db /\ SameRest(d, e) /\ e.notes = d.notes
    BY <2>1, <2>3 DEF Db, SameRest
  <2> QED BY <1>1, <2>3, <2>4
<1>2. CASE ~(/\ from <= Larger(d.rows[a].marker + 1, d.birth)
             /\ d.rows[a].marker < through)
  BY <1>2 DEF AdvancedMarker, SameRest, SameRow
<1> QED BY <1>1, <1>2

(* raise_catch_up_debt.                                                    *)
LEMMA RaisedDebtDb ==
    ASSUME NEW d \in Db, NEW a \in Addr, NEW through \in 0 .. MaxHeight,
           NEW e, e = RaisedDebt(d, a, through)
    PROVE  /\ e \in Db /\ SameRest(d, e) /\ e.notes = d.notes
           /\ \A b \in Addr : SameRow(d.rows[b], e.rows[b], {"owed"})
           /\ \A b \in Addr \ {a} : e.rows[b] = d.rows[b]
           /\ e.rows[a].owed = Larger(d.rows[a].owed, through)
<1>1. Larger(d.rows[a].owed, through) \in 0 .. MaxHeight
  BY DEF Larger, Db, RowType
<1>2. PICK n \in 0 .. MaxHeight : n = Larger(d.rows[a].owed, through)
  BY <1>1
<1>3. e = [d EXCEPT !.rows[a].owed = n]
  BY <1>2 DEF RaisedDebt
<1>4. d.rows \in [Addr -> RowType]
  BY DEF Db
<1>5. /\ \A b \in Addr \ {a} : e.rows[b] = d.rows[b]
      /\ e.rows[a] = [d.rows[a] EXCEPT !.owed = n]
      /\ e.rows = [b \in Addr |-> e.rows[b]]
  BY <1>3, <1>4 DEF Db
<1>6. e.rows[a] \in RowType /\ SameRow(d.rows[a], e.rows[a], {"owed"}) /\ e.rows[a].owed = n
  BY <1>4, <1>5 DEF RowType, SameRow
<1>7. \A b \in Addr : e.rows[b] \in RowType /\ SameRow(d.rows[b], e.rows[b], {"owed"})
  BY <1>4, <1>5, <1>6 DEF SameRow
<1>8. e \in Db /\ SameRest(d, e) /\ e.notes = d.notes
  BY <1>3, <1>5, <1>7 DEF Db, SameRest
<1> QED BY <1>2, <1>5, <1>6, <1>7, <1>8

(* pay_catch_up_debts.                                                     *)
LEMMA PaidDebtsDb ==
    ASSUME NEW d \in Db, NEW e, e = PaidDebts(d)
    PROVE  /\ e \in Db /\ SameRest(d, e) /\ e.notes = d.notes
           /\ \A b \in Addr :
                /\ SameRow(d.rows[b], e.rows[b], {"owed"})
                /\ e.rows[b].owed = IF d.rows[b].marker >= d.rows[b].owed THEN 0
                                    ELSE d.rows[b].owed
<1>1. e = [d EXCEPT !.rows =
        [b \in Addr |-> IF d.rows[b].marker >= d.rows[b].owed
                        THEN [d.rows[b] EXCEPT !.owed = 0] ELSE d.rows[b]]]
  BY DEF PaidDebts
<1>2. \A b \in Addr :
        /\ e.rows[b] \in RowType
        /\ SameRow(d.rows[b], e.rows[b], {"owed"})
        /\ e.rows[b].owed = IF d.rows[b].marker >= d.rows[b].owed THEN 0
                            ELSE d.rows[b].owed
  BY <1>1, SyncAssumption DEF Db, RowType, SameRow
<1>3. e \in Db /\ SameRest(d, e) /\ e.notes = d.notes
  BY <1>1, <1>2 DEF Db, SameRest
<1> QED BY <1>2, <1>3

\* write_transparent_window, with and without the mark that the address is
\* used.
Writings(d, a, found) == {Written(d, a, found, u) : u \in BOOLEAN}

(* write_transparent_window.                                               *)
LEMMA WrittenDb ==
    ASSUME NEW d \in Db, NEW a \in Addr, NEW found \in SUBSET Notes,
           NEW e \in Writings(d, a, found)
    PROVE  /\ e \in Db /\ SameRest(d, e) /\ e.notes = d.notes \cup found
           /\ \A b \in Addr : SameRow(d.rows[b], e.rows[b], {"used"})
           /\ \A b \in Addr \ {a} : e.rows[b] = d.rows[b]
<1>1. \E u \in BOOLEAN :
        e = [d EXCEPT !.notes = @ \cup found, !.rows[a].used = u]
  BY DEF Written, Writings
<1>2. PICK u \in BOOLEAN :
        e = [d EXCEPT !.notes = @ \cup found, !.rows[a].used = u]
  BY <1>1
<1>3. /\ \A b \in Addr : e.rows[b] \in RowType
      /\ \A b \in Addr : SameRow(d.rows[b], e.rows[b], {"used"})
      /\ \A b \in Addr \ {a} : e.rows[b] = d.rows[b]
  BY <1>2 DEF Db, RowType, SameRow
<1>4. e \in Db /\ SameRest(d, e) /\ e.notes = d.notes \cup found
  BY <1>2, <1>3 DEF Db, SameRest
<1> QED BY <1>3, <1>4

(* store_account_transparent_addr.                                         *)
LEMMA StoredAddressDb ==
    ASSUME NEW d \in Db, NEW a \in Addr, NEW e, e = StoredAddress(d, a)
    PROVE  /\ e \in Db /\ SameRest(d, e) /\ e.notes = d.notes
           /\ \A b \in Addr \ {a} : e.rows[b] = d.rows[b]
           /\ IF d.rows[a].stored THEN e.rows[a] = d.rows[a]
              ELSE e.rows[a] = Row(Seam(d))
           /\ e.rows[a].stored
<1>1. CASE d.rows[a].stored
  BY <1>1 DEF StoredAddress, SameRest
<1>2. CASE ~d.rows[a].stored
  <2>1. e = [d EXCEPT !.rows[a] = Row(Seam(d))]
    BY <1>2 DEF StoredAddress
  <2>2. Row(Seam(d)) \in RowType /\ Row(Seam(d)).stored
    BY SyncAssumption DEF Row, RowType, Seam, Smaller, Null, Db
  <2> HIDE DEF Row
  <2>3. /\ \A b \in Addr \ {a} : e.rows[b] = d.rows[b]
        /\ e.rows[a] = Row(Seam(d))
        /\ \A b \in Addr : e.rows[b] \in RowType
    BY <2>1, <2>2 DEF Db
  <2>4. e \in Db /\ SameRest(d, e) /\ e.notes = d.notes
    BY <2>1, <2>3 DEF Db, SameRest
  <2> QED BY <1>2, <2>2, <2>3, <2>4
<1> QED BY <1>1, <1>2

(* The heights of the notes a trim deletes have a greatest one.            *)
LEMMA AboveMax ==
    ASSUME NEW d \in Db, NEW a, NEW h \in Nat, Above(d.notes, a, h) # {}
    PROVE  /\ Max({n.height : n \in Above(d.notes, a, h)}) \in Height
           /\ \A n \in Above(d.notes, a, h) :
                 n.height <= Max({m.height : m \in Above(d.notes, a, h)})
<1> DEFINE S == {n.height : n \in Above(d.notes, a, h)}
<1>1. S \subseteq Height
  BY DEF Above, Db, Notes
<1>2. S # {} /\ S \in SUBSET Nat /\ \A y \in S : y <= MaxHeight
  BY <1>1 DEF Height
<1>3. \A n \in Above(d.notes, a, h) : n.height \in S
  OBVIOUS
<1> HIDE DEF S
<1>4. Max(S) \in S /\ \A y \in S : y <= Max(S)
  BY <1>2, SyncAssumption, MaxIsGreatest
<1>5. Max(S) \in Height /\ \A n \in Above(d.notes, a, h) : n.height <= Max(S)
  BY <1>1, <1>3, <1>4
<1> QED BY <1>5 DEF S

(* trim_sync_data.                                                         *)
LEMMA TrimmedDb ==
    ASSUME NEW d \in Db, NEW h \in 0 .. MaxHeight, NEW e, e = Trimmed(d, h)
    PROVE  /\ e \in Db
           /\ e.hT = h /\ e.hS = h /\ e.wit = {w \in d.wit : w <= h}
           /\ e.notes = {n \in d.notes : n.height <= h}
           /\ e.inc = d.inc /\ e.cov = d.cov /\ e.birth = d.birth
           /\ \A b \in Addr :
                 /\ SameRow(d.rows[b], e.rows[b], {"marker", "owed", "since"})
                 /\ e.rows[b].marker = Smaller(d.rows[b].marker, h)
                 /\ e.rows[b].since = Smaller(d.rows[b].since, h)
                 /\ e.rows[b].owed >= d.rows[b].owed
                 /\ \/ e.rows[b].owed = d.rows[b].owed
                    \/ \E n \in d.notes : n.addr = b /\ n.height > h
                 /\ \A n \in d.notes :
                       n.addr = b /\ n.height > h => e.rows[b].owed >= n.height
           /\ e.trims \in {d.trims, d.trims + 1}
           /\ e.trims = d.trims =>
                 /\ e.notes = d.notes /\ e.wit = d.wit
                 /\ \A b \in Addr : d.rows[b].marker <= h
<1> DEFINE owed(b) == IF Above(d.notes, b, h) = {} THEN d.rows[b].owed
                      ELSE Larger(d.rows[b].owed,
                                  Max({n.height : n \in Above(d.notes, b, h)}))
           row(b) == [d.rows[b] EXCEPT !.marker = Smaller(@, h),
                                       !.since = Smaller(@, h),
                                       !.owed = owed(b)]
           moved == \/ \E n \in d.notes : n.height > h
                    \/ \E w \in d.wit : w > h
                    \/ \E b \in Addr : d.rows[b].marker > h
<1>1. e = [d EXCEPT
        !.hT = h, !.hS = h,
        !.wit = {w \in @ : w <= h},
        !.notes = {n \in @ : n.height <= h},
        !.rows = [b \in Addr |-> row(b)],
        !.trims = IF moved THEN @ + 1 ELSE @]
  BY DEF Trimmed
<1>2. ASSUME NEW b \in Addr
      PROVE  /\ owed(b) \in 0 .. MaxHeight /\ owed(b) >= d.rows[b].owed
             /\ \/ owed(b) = d.rows[b].owed
                \/ \E n \in d.notes : n.addr = b /\ n.height > h
             /\ \A n \in d.notes : n.addr = b /\ n.height > h => owed(b) >= n.height
  <2>0. d.rows[b].owed \in 0 .. MaxHeight
    BY DEF Db, RowType
  <2>1. CASE Above(d.notes, b, h) = {}
    BY <2>0, <2>1 DEF Above
  <2>2. CASE Above(d.notes, b, h) # {}
    <3> DEFINE m == Max({n.height : n \in Above(d.notes, b, h)})
    <3>1. m \in Height /\ \A n \in Above(d.notes, b, h) : n.height <= m
      <4>1. h \in Nat
        BY SyncAssumption
      <4> QED BY <2>2, <4>1, AboveMax
    <3>2. owed(b) = Larger(d.rows[b].owed, m)
      BY <2>2
    <3>3. \E n \in d.notes : n.addr = b /\ n.height > h
      BY <2>2 DEF Above
    <3>4. \A n \in d.notes : n.addr = b /\ n.height > h =>
            n.height <= m /\ n.height \in Nat
      BY <3>1 DEF Above, Db, Notes, Height
    <3> HIDE DEF m, owed
    <3> QED BY <2>0, <3>1, <3>2, <3>3, <3>4 DEF Larger, Height
  <2> QED BY <2>1, <2>2
<1> HIDE DEF owed
<1>3. ASSUME NEW b \in Addr
      PROVE  /\ row(b) \in RowType
             /\ SameRow(d.rows[b], row(b), {"marker", "owed", "since"})
             /\ row(b).marker = Smaller(d.rows[b].marker, h)
             /\ row(b).since = Smaller(d.rows[b].since, h)
             /\ row(b).owed = owed(b)
  <2>1. d.rows[b] \in RowType
    BY DEF Db
  <2>2. Smaller(d.rows[b].marker, h) \in Null .. MaxHeight
    BY <2>1, SyncAssumption DEF Smaller, RowType, Null
  <2>3. Smaller(d.rows[b].since, h) \in 0 .. MaxHeight
    BY <2>1, SyncAssumption DEF Smaller, RowType
  <2> HIDE DEF Smaller
  <2> QED BY <1>2, <2>1, <2>2, <2>3 DEF RowType, SameRow
<1> HIDE DEF row, moved
<1>4. e.rows = [b \in Addr |-> row(b)]
  BY <1>1 DEF Db
<1>5. {w \in d.wit : w <= h} \subseteq Height
      /\ {n \in d.notes : n.height <= h} \subseteq Notes
  BY DEF Db
<1>6. e \in Db
  <2>1. [b \in Addr |-> row(b)] \in [Addr -> RowType]
    BY <1>3
  <2>2. (IF moved THEN d.trims + 1 ELSE d.trims) \in Nat
    BY DEF Db
  <2> QED BY <1>1, <1>5, <2>1, <2>2 DEF Db
<1>7. /\ e.hT = h /\ e.hS = h /\ e.wit = {w \in d.wit : w <= h}
      /\ e.notes = {n \in d.notes : n.height <= h}
      /\ e.inc = d.inc /\ e.cov = d.cov /\ e.birth = d.birth
      /\ e.trims = IF moved THEN d.trims + 1 ELSE d.trims
  BY <1>1 DEF Db
<1>8. d.trims \in Nat
  BY DEF Db
<1>9. ~moved => /\ e.notes = d.notes /\ e.wit = d.wit
                /\ \A b \in Addr : d.rows[b].marker <= h
  <2> SUFFICES ASSUME ~moved PROVE /\ e.notes = d.notes /\ e.wit = d.wit
                                   /\ \A b \in Addr : d.rows[b].marker <= h
    OBVIOUS
  <2>1. \A n \in d.notes : n.height <= h
    BY DEF moved, Db, Notes, Height
  <2>2. \A w \in d.wit : w <= h
    BY DEF moved, Db, Height
  <2>3. \A b \in Addr : d.rows[b].marker <= h
    BY DEF moved, Db, RowType, Null
  <2> QED BY <1>7, <2>1, <2>2, <2>3
<1> QED BY <1>2, <1>3, <1>4, <1>6, <1>7, <1>8, <1>9

(* retire_transparent_walks.                                               *)
LEMMA RetiredDb ==
    ASSUME NEW d \in Db, NEW e, e = Retired(d)
    PROVE  /\ e \in Db /\ e.inc = d.inc + 1
           /\ e.hT = d.hT /\ e.hS = d.hS /\ e.wit = d.wit /\ e.rows = d.rows
           /\ e.notes = d.notes /\ e.trims = d.trims /\ e.cov = d.cov
           /\ e.birth = d.birth
BY DEF Retired, Db

(* reset_sync.                                                             *)
LEMMA ResetDb ==
    ASSUME NEW d \in Db, NEW e, e = ResetSync(d)
    PROVE  /\ e \in Db /\ e.inc = d.inc + 1
           /\ e.hT = d.birth /\ e.hS = d.birth /\ e.wit = {} /\ e.notes = {}
           /\ e.cov = d.cov /\ e.birth = d.birth
           /\ \A b \in Addr :
                 /\ SameRow(d.rows[b], e.rows[b], {"marker", "owed", "since"})
                 /\ e.rows[b].marker = Smaller(d.rows[b].marker, 0)
                 /\ e.rows[b].owed = 0 /\ e.rows[b].since = d.birth
           /\ e.trims \in {d.trims, d.trims + 1}
           /\ e.trims = d.trims => \A b \in Addr : d.rows[b].marker <= 0
<1> DEFINE t == Trimmed(d, 0)
           f == [t EXCEPT !.rows = [b \in Addr |-> [t.rows[b] EXCEPT
                                       !.owed = 0, !.since = d.birth]],
                          !.hT = d.birth, !.hS = d.birth]
<1>0. 0 \in 0 .. MaxHeight
  BY SyncAssumption
<1>1. /\ t \in Db
      /\ t.wit = {w \in d.wit : w <= 0} /\ t.notes = {n \in d.notes : n.height <= 0}
      /\ t.inc = d.inc /\ t.cov = d.cov /\ t.birth = d.birth
      /\ t.trims \in {d.trims, d.trims + 1}
      /\ t.trims = d.trims => \A b \in Addr : d.rows[b].marker <= 0
  <2> HIDE DEF t
  <2> QED BY <1>0, TrimmedDb DEF t
<1>2. \A b \in Addr :
        /\ SameRow(d.rows[b], t.rows[b], {"marker", "owed", "since"})
        /\ t.rows[b].marker = Smaller(d.rows[b].marker, 0)
  <2> HIDE DEF t
  <2> QED BY <1>0, TrimmedDb DEF t
<1>3. t.wit = {} /\ t.notes = {}
  BY <1>1 DEF Db, Notes, Height
<1>4. e = Retired(f)
  BY DEF ResetSync
<1> HIDE DEF t
<1>5. d.birth \in 0 .. MaxHeight
  BY SyncAssumption DEF Db
<1>6. f.rows = [b \in Addr |-> [t.rows[b] EXCEPT !.owed = 0, !.since = d.birth]]
  BY <1>1 DEF Db
<1>7. \A b \in Addr :
        /\ f.rows[b] \in RowType
        /\ SameRow(t.rows[b], f.rows[b], {"owed", "since"})
        /\ f.rows[b].owed = 0 /\ f.rows[b].since = d.birth
  <2> TAKE b \in Addr
  <2>1. t.rows[b] \in RowType
    BY <1>1 DEF Db
  <2>2. f.rows[b] = [t.rows[b] EXCEPT !.owed = 0, !.since = d.birth]
    BY <1>6
  <2> HIDE DEF f
  <2> QED BY <1>0, <1>5, <2>1, <2>2 DEF RowType, SameRow
<1>8. /\ f.hT = d.birth /\ f.hS = d.birth /\ f.wit = t.wit /\ f.notes = t.notes
      /\ f.inc = t.inc /\ f.cov = t.cov /\ f.birth = t.birth /\ f.trims = t.trims
  BY <1>1 DEF Db
<1>9. f \in Db
  <2>1. f.rows \in [Addr -> RowType]
    BY <1>6, <1>7
  <2> QED BY <1>1, <1>5, <2>1, <1>6 DEF Db
<1> HIDE DEF f
<1>10. /\ e \in Db /\ e.inc = f.inc + 1
       /\ e.hT = f.hT /\ e.hS = f.hS /\ e.wit = f.wit /\ e.rows = f.rows
       /\ e.notes = f.notes /\ e.trims = f.trims /\ e.cov = f.cov
       /\ e.birth = f.birth
  BY <1>4, <1>9, RetiredDb
<1> QED BY <1>1, <1>2, <1>3, <1>7, <1>8, <1>10 DEF SameRow

(* rewind_sync goes to a checkpoint, the latest below h, or resets.        *)
LEMMA RewoundDb ==
    ASSUME NEW d \in Db, NEW h \in Nat
    PROVE  \/ /\ RewoundSync(d, h) = ResetSync(d)
              /\ \A v \in d.wit : v >= h
           \/ \E w \in d.wit :
                 /\ w < h /\ \A v \in d.wit : v < h => v <= w
                 /\ RewoundSync(d, h) = Retired(Trimmed(d, w))
<1> DEFINE S == {w \in d.wit : w < h}
<1>0. d.wit \subseteq Height
  BY DEF Db
<1>1. CASE S = {}
  BY <1>0, <1>1 DEF RewoundSync, Height
<1>2. CASE S # {}
  <2>1. S \in SUBSET Nat /\ \A y \in S : y <= MaxHeight
    BY <1>0 DEF Height
  <2>2. Max(S) \in S /\ \A y \in S : y <= Max(S)
    <3> HIDE DEF S
    <3> QED BY <1>2, <2>1, SyncAssumption, MaxIsGreatest
  <2>3. RewoundSync(d, h) = Retired(Trimmed(d, Max(S)))
    BY <1>2 DEF RewoundSync
  <2> QED BY <2>2, <2>3
<1> QED BY <1>1, <1>2

(* prune_old_checkpoints removes checkpoints only.                         *)
LEMMA PrunedDb ==
    ASSUME NEW d \in Db, NEW cutoff, NEW e, e = PrunedCheckpoints(d, cutoff)
    PROVE  /\ e \in Db /\ SameRest([d EXCEPT !.wit = e.wit], e)
           /\ e.wit \subseteq d.wit /\ e.rows = d.rows /\ e.notes = d.notes
BY DEF PrunedCheckpoints, Db, SameRest

(* update_account with another birthday.                                   *)
LEMMA MovedBirthDb ==
    ASSUME NEW d \in Db, NEW birth \in 1 .. Birth, NEW e, e = MovedBirth(d, birth)
    PROVE  /\ e \in Db /\ e.inc = d.inc + 1 /\ e.birth = birth
           /\ e.hT = d.hT /\ e.hS = d.hS /\ e.wit = d.wit /\ e.notes = d.notes
           /\ e.trims = 0 /\ e.cov = NoCoverage
           /\ \A b \in Addr :
                 /\ SameRow(d.rows[b], e.rows[b], {"marker", "since"})
                 /\ e.rows[b].marker = Null
                 /\ e.rows[b].since = Larger(d.rows[b].since, d.birth - 1)
<1> DEFINE row(b) == [d.rows[b] EXCEPT !.marker = Null,
                                       !.since = Larger(@, d.birth - 1)]
           f == [d EXCEPT !.birth = birth, !.rows = [b \in Addr |-> row(b)]]
           g == [f EXCEPT !.trims = 0, !.cov = NoCoverage]
<1>1. e = Retired(g)
  BY DEF MovedBirth, ClearedCoverage
<1>2. ASSUME NEW b \in Addr
      PROVE  /\ row(b) \in RowType
             /\ SameRow(d.rows[b], row(b), {"marker", "since"})
             /\ row(b).marker = Null
             /\ row(b).since = Larger(d.rows[b].since, d.birth - 1)
  <2>1. d.rows[b] \in RowType /\ d.birth \in 1 .. Birth
    BY DEF Db
  <2>2. Larger(d.rows[b].since, d.birth - 1) \in 0 .. MaxHeight
    BY <2>1, SyncAssumption DEF Larger, RowType
  <2>3. Null \in Null .. MaxHeight
    BY SyncAssumption DEF Null
  <2> HIDE DEF Larger, Null
  <2> QED BY <2>1, <2>2, <2>3 DEF RowType, SameRow
<1> HIDE DEF row
<1>3. NoCoverage \in [trim : Int, gap : Nat, from : Nat]
  BY DEF NoCoverage, Null
<1>4. /\ g \in Db /\ g.inc = d.inc /\ g.birth = birth
      /\ g.hT = d.hT /\ g.hS = d.hS /\ g.wit = d.wit /\ g.notes = d.notes
      /\ g.trims = 0 /\ g.cov = NoCoverage /\ g.rows = [b \in Addr |-> row(b)]
  BY <1>2, <1>3 DEF Db
<1> HIDE DEF g
<1>5. /\ e \in Db /\ e.inc = g.inc + 1
      /\ e.hT = g.hT /\ e.hS = g.hS /\ e.wit = g.wit /\ e.rows = g.rows
      /\ e.notes = g.notes /\ e.trims = g.trims /\ e.cov = g.cov
      /\ e.birth = g.birth
  BY <1>1, <1>4, RetiredDb
<1> QED BY <1>2, <1>4, <1>5

(* A restored account has its own address and nothing else.                *)
LEMMA RestoredDb ==
    ASSUME NEW birth \in 1 .. Birth, NEW inc \in Nat, NEW e, e = Restored(birth, inc)
    PROVE  /\ e \in Db /\ e.inc = inc /\ e.birth = birth
           /\ e.hT = birth /\ e.hS = birth /\ e.wit = {} /\ e.notes = {}
           /\ e.trims = 0 /\ e.cov = NoCoverage
           /\ \A b \in Addr :
                 /\ e.rows[b].stored <=> b = Own
                 /\ e.rows[b].marker = Null /\ e.rows[b].owed = 0
                 /\ ~e.rows[b].used
                 /\ b = Own => e.rows[b].since = birth
<1>1. Row(birth) \in RowType /\ NoRow \in RowType
  <2>1. Null \in Null .. MaxHeight /\ birth \in 0 .. MaxHeight /\ 0 \in 0 .. MaxHeight
    BY SyncAssumption DEF Null
  <2> HIDE DEF Null
  <2>2. Row(birth) \in RowType /\ Row(0) \in RowType
    BY <2>1 DEF Row, RowType
  <2> QED BY <2>2 DEF NoRow, RowType
<1>2. NoCoverage \in [trim : Int, gap : Nat, from : Nat]
  BY DEF NoCoverage, Null
<1>3. birth \in 0 .. MaxHeight
  BY SyncAssumption
<1>4. e.rows = [b \in Addr |-> IF b = Own THEN Row(birth) ELSE NoRow]
  BY DEF Restored
<1>5. \A b \in Addr : e.rows[b] = IF b = Own THEN Row(birth) ELSE NoRow
  BY <1>4
<1>6. \A b \in Addr :
        /\ e.rows[b].stored <=> b = Own
        /\ e.rows[b].marker = Null /\ e.rows[b].owed = 0
        /\ ~e.rows[b].used
        /\ b = Own => e.rows[b].since = birth
  BY <1>5 DEF Row, NoRow
<1>7. e.rows \in [Addr -> RowType]
  BY <1>1, <1>4
<1>8. e \in Db
  <2> HIDE DEF NoCoverage, NoRow, Row
  <2> QED BY <1>2, <1>3, <1>7 DEF Db, Restored
<1>9. /\ e.inc = inc /\ e.birth = birth
      /\ e.hT = birth /\ e.hS = birth /\ e.wit = {} /\ e.notes = {}
      /\ e.trims = 0 /\ e.cov = NoCoverage
  BY DEF Restored
<1> QED BY <1>6, <1>8, <1>9

-----------------------------------------------------------------------------
(* The inductive type invariant.                                           *)

TickType ==
    [at : {"idle", "open", "scan", "shielded"}, start : 0 .. MaxHeight,
     end : 0 .. MaxHeight, anchor : Hash, todo : SUBSET Addr,
     addr : Addr \cup {NoAddr}, lo : 0 .. (MaxHeight + 1),
     cur : 0 .. MaxHeight, prev : Hash]

Entry ==
    [addr : Addr, had : BOOLEAN, lo : 1 .. (MaxHeight + 1),
     mlo : 1 .. (MaxHeight + 1), trim : Int, used : BOOLEAN,
     reply : [seam : Int, found : SUBSET Notes], skip : BOOLEAN]

WalkType ==
    [at : {"idle", "plan", "seam", "fetch", "ingest", "certify"}, inc : Nat,
     trim : Nat, from : Nat, end : 0 .. MaxHeight, stored : Seq(Int),
     scope : {0, 1}, next : Nat, gap : Nat, width : Int, batch : Seq(Entry),
     seam : Int, covered : SUBSET Addr]

ChainOK ==
    /\ left \in Budget /\ left.forks \in Forks
    /\ chain \in Seq(Block) /\ Birth <= Tip /\ Tip <= MaxHeight
    /\ \A h \in 1 .. Tip : chain[h].fork >= left.forks

\* Notes, use and debts belong to stored addresses.
RowsOK(d) ==
    /\ \A n \in d.notes : d.rows[n.addr].stored
    /\ \A a \in Addr : d.rows[a].used \/ d.rows[a].owed # 0 => d.rows[a].stored

DbOK == db \in Db /\ RowsOK(db) /\ db.hT >= 1 /\ db.hS >= 1

\* While a tick runs the pools stand where it says, and it works on stored
\* addresses, each once.
TickOK ==
    /\ tick \in TickType
    /\ tick.at \in {"open", "scan"} =>
          /\ db.hT = tick.start - 1 /\ db.hS = tick.start - 1
          /\ tick.start <= tick.end
          /\ \A a \in tick.todo : db.rows[a].stored
    /\ tick.at = "open" => tick.addr = NoAddr
    /\ tick.at = "scan" =>
          /\ tick.anchor # NoHash
          /\ tick.addr \notin tick.todo
          /\ tick.addr # NoAddr =>
                db.rows[tick.addr].stored /\ tick.start <= tick.lo
    /\ tick.at = "shielded" =>
          /\ db.hT = tick.end /\ db.hS = tick.cur
          /\ tick.cur < tick.end

WalkOK ==
    /\ walk \in WalkType
    /\ walk.at = "plan" => <<walk.scope, walk.next>> \in Addr
    /\ walk.at \in {"seam", "fetch", "ingest"} => walk.batch # << >>
    /\ \A i \in 1 .. Len(walk.batch) :
          \A n \in walk.batch[i].reply.found : n.addr = walk.batch[i].addr

HistoryOK == hdr \in [Height -> Hash] /\ seen \subseteq Notes

Typed == ChainOK /\ DbOK /\ TickOK /\ WalkOK /\ HistoryOK

-----------------------------------------------------------------------------
(* What the server answers.                                                *)

(* A hash the server answers for is that of a block it has (chain_anchor). *)
LEMMA HashAtType ==
    ASSUME ChainOK, NEW h
    PROVE  HashAt(h) \in Hash /\ (HashAt(h) # NoHash => h \in 1 .. Tip)
<1>1. Len(chain) \in Nat
  BY LenProperties DEF ChainOK
<1>2. \A k \in 1 .. Len(chain) : chain[k] \in Block
  BY ElementOfSeq DEF ChainOK
<1> QED BY <1>1, <1>2 DEF HashAt, Hash, Tip, Block

(* taddress_txs: the payments of the chain to the address in the range.    *)
LEMMA PaymentsAre ==
    ASSUME ChainOK, NEW a \in Addr, NEW lo \in Nat \ {0}, NEW hi \in Int
    PROVE  /\ Payments(a, lo, hi) \subseteq Notes
           /\ \A n \in Payments(a, lo, hi) :
                 /\ n.addr = a /\ lo <= n.height /\ n.height <= hi
                 /\ n.height \in 1 .. Tip /\ n.fork = chain[n.height].fork
                 /\ chain[n.height].pays = a
           /\ \A k \in 1 .. Tip :
                 lo <= k /\ k <= hi /\ chain[k].pays = a =>
                   [addr |-> a, height |-> k, fork |-> chain[k].fork]
                     \in Payments(a, lo, hi)
<1>1. Len(chain) \in Nat /\ Tip = Len(chain)
  BY LenProperties DEF ChainOK, Tip
<1>2. \A k \in 1 .. Tip : chain[k] \in Block
  BY <1>1, ElementOfSeq DEF ChainOK
<1> DEFINE K == {k \in lo .. Smaller(hi, Tip) : chain[k].pays = a}
           note(k) == [addr |-> a, height |-> k, fork |-> chain[k].fork]
<1>3. Payments(a, lo, hi) = {note(k) : k \in K}
  BY DEF Payments
<1>4. \A k \in K : k \in 1 .. Tip /\ lo <= k /\ k <= hi /\ chain[k].pays = a
  BY <1>1 DEF Smaller
<1>5. \A k \in 1 .. Tip : lo <= k /\ k <= hi /\ chain[k].pays = a => k \in K
  BY <1>1 DEF Smaller
<1>6. \A k \in 1 .. Tip : k \in Height
  BY <1>1, SyncAssumption DEF ChainOK, Height
<1> HIDE DEF K
<1>7. \A k \in K : note(k) \in Notes
  BY <1>2, <1>4, <1>6 DEF Notes, Block
<1>8. \A k \in K : note(k).addr = a /\ note(k).height = k
                   /\ note(k).fork = chain[k].fork
  OBVIOUS
<1> HIDE DEF note
<1>9. \A n \in Payments(a, lo, hi) : \E k \in K : n = note(k)
  BY <1>3
<1>10. \A n \in Payments(a, lo, hi) :
          /\ n.addr = a /\ lo <= n.height /\ n.height <= hi
          /\ n.height \in 1 .. Tip /\ n.fork = chain[n.height].fork
          /\ chain[n.height].pays = a
  BY <1>4, <1>8, <1>9
<1>11. \A k \in 1 .. Tip : lo <= k /\ k <= hi /\ chain[k].pays = a =>
          note(k) \in Payments(a, lo, hi)
  BY <1>3, <1>5
<1> QED BY <1>3, <1>7, <1>10, <1>11 DEF note

(* INSERT INTO headers ... ON CONFLICT DO NOTHING.                         *)
LEMMA StoredHeadersType ==
    ASSUME ChainOK, hdr \in [Height -> Hash], NEW heights
    PROVE  /\ StoredHeaders(heights) \in [Height -> Hash]
           /\ \A h \in Height : StoredHeaders(heights)[h] =
                IF h \in heights /\ hdr[h] = NoHash THEN HashAt(h) ELSE hdr[h]
BY HashAtType DEF StoredHeaders

(* Spending a part of the budget other than a fork.                        *)
LEMMA SpentOK ==
    ASSUME ChainOK, chain' = chain,
           \/ left' = left
           \/ left.fails > 0 /\ left' = [left EXCEPT !.fails = @ - 1]
           \/ left.ticks > 0 /\ left' = [left EXCEPT !.ticks = @ - 1]
           \/ left.walks > 0 /\ left' = [left EXCEPT !.walks = @ - 1]
           \/ left.host > 0 /\ left' = [left EXCEPT !.host = @ - 1]
    PROVE  /\ ChainOK' /\ left'.forks = left.forks
           /\ left'.addrs = left.addrs /\ left'.narrow = left.narrow
<1>1. left' \in Budget /\ left'.forks = left.forks
      /\ left'.addrs = left.addrs /\ left'.narrow = left.narrow
  BY SMTT(20) DEF ChainOK, Budget
<1> QED BY <1>1 DEF ChainOK, Tip

-----------------------------------------------------------------------------
(* Composed statements.                                                    *)

(* A window of a tick: the notes and, with a range, the marker.            *)
LEMMA WindowDb ==
    ASSUME NEW d \in Db, RowsOK(d), NEW a \in Addr, d.rows[a].stored,
           NEW found \in SUBSET Notes, \A n \in found : n.addr = a,
           NEW from \in Int, NEW through \in 0 .. MaxHeight,
           NEW f \in Writings(d, a, found),
           NEW e, e = AdvancedMarker(f, a, from, through)
    PROVE  /\ e \in Db /\ RowsOK(e) /\ SameRest(d, e)
           /\ e.notes = d.notes \cup found
           /\ \A b \in Addr : SameRow(d.rows[b], e.rows[b], {"used", "marker"})
           /\ \A b \in Addr \ {a} : e.rows[b] = d.rows[b]
           /\ e.rows[a].marker =
                IF /\ from <= Larger(d.rows[a].marker + 1, d.birth)
                   /\ d.rows[a].marker < through
                THEN through ELSE d.rows[a].marker
<1>1. /\ f \in Db /\ SameRest(d, f) /\ f.notes = d.notes \cup found
      /\ \A b \in Addr : SameRow(d.rows[b], f.rows[b], {"used"})
      /\ \A b \in Addr \ {a} : f.rows[b] = d.rows[b]
  BY WrittenDb
<1>2. /\ e \in Db /\ SameRest(f, e) /\ e.notes = f.notes
      /\ \A b \in Addr : SameRow(f.rows[b], e.rows[b], {"marker"})
      /\ \A b \in Addr \ {a} : e.rows[b] = f.rows[b]
      /\ e.rows[a].marker =
           IF /\ from <= Larger(f.rows[a].marker + 1, f.birth)
              /\ f.rows[a].marker < through
           THEN through ELSE f.rows[a].marker
  BY <1>1, AdvancedMarkerDb
<1>3. SameRest(d, e) /\ e.notes = d.notes \cup found
  BY <1>1, <1>2 DEF SameRest
<1>4. \A b \in Addr : SameRow(d.rows[b], e.rows[b], {"used", "marker"})
  BY <1>1, <1>2 DEF SameRow
<1>5. \A b \in Addr \ {a} : e.rows[b] = d.rows[b]
  BY <1>1, <1>2
<1>6. f.rows[a].marker = d.rows[a].marker /\ f.birth = d.birth
  BY <1>1 DEF SameRow, SameRest
<1>7. \A b \in Addr : e.rows[b].stored = d.rows[b].stored
  BY <1>4 DEF SameRow
<1>8. RowsOK(e)
  <2>1. \A n \in e.notes : n.addr \in Addr
    BY <1>2 DEF Db, Notes
  <2>2. \A n \in e.notes : e.rows[n.addr].stored
    BY <1>3, <1>7, <2>1 DEF RowsOK
  <2>3. \A b \in Addr : e.rows[b].used \/ e.rows[b].owed # 0 => e.rows[b].stored
    BY <1>5, <1>7 DEF RowsOK
  <2> QED BY <2>2, <2>3 DEF RowsOK
<1> QED BY <1>2, <1>3, <1>4, <1>5, <1>6, <1>8

(* The same window without its marker.                                     *)
LEMMA UndatedDb ==
    ASSUME NEW d \in Db, RowsOK(d), NEW a \in Addr, d.rows[a].stored,
           NEW found \in SUBSET Notes, \A n \in found : n.addr = a,
           NEW e \in Writings(d, a, found)
    PROVE  /\ e \in Db /\ RowsOK(e) /\ SameRest(d, e)
           /\ e.notes = d.notes \cup found
           /\ \A b \in Addr : SameRow(d.rows[b], e.rows[b], {"used"})
           /\ \A b \in Addr \ {a} : e.rows[b] = d.rows[b]
<1>1. /\ e \in Db /\ SameRest(d, e) /\ e.notes = d.notes \cup found
      /\ \A b \in Addr : SameRow(d.rows[b], e.rows[b], {"used"})
      /\ \A b \in Addr \ {a} : e.rows[b] = d.rows[b]
  BY WrittenDb
<1>2. \A b \in Addr : e.rows[b].stored = d.rows[b].stored
  BY <1>1 DEF SameRow
<1>3. \A n \in e.notes : n.addr \in Addr
  BY <1>1 DEF Db, Notes
<1>4. \A n \in e.notes : e.rows[n.addr].stored
  BY <1>1, <1>2, <1>3 DEF RowsOK
<1>5. \A b \in Addr : e.rows[b].used \/ e.rows[b].owed # 0 => e.rows[b].stored
  BY <1>1, <1>2 DEF RowsOK
<1> QED BY <1>1, <1>4, <1>5 DEF RowsOK

(* A trim keeps the references between rows.                               *)
LEMMA TrimmedRows ==
    ASSUME NEW d \in Db, RowsOK(d), NEW h \in 0 .. MaxHeight
    PROVE  RowsOK(Trimmed(d, h))
<1> DEFINE e == Trimmed(d, h)
<1>1. /\ e \in Db /\ e.notes = {n \in d.notes : n.height <= h}
      /\ \A b \in Addr :
           /\ SameRow(d.rows[b], e.rows[b], {"marker", "owed", "since"})
           /\ \/ e.rows[b].owed = d.rows[b].owed
              \/ \E n \in d.notes : n.addr = b /\ n.height > h
  BY TrimmedDb
<1> HIDE DEF e
<1>2. \A b \in Addr : e.rows[b].stored = d.rows[b].stored
                      /\ e.rows[b].used = d.rows[b].used
  BY <1>1 DEF SameRow
<1>3. \A n \in e.notes : n.addr \in Addr
  BY <1>1 DEF Db, Notes
<1>4. \A n \in e.notes : e.rows[n.addr].stored
  BY <1>1, <1>2, <1>3 DEF RowsOK
<1>5. ASSUME NEW b \in Addr, e.rows[b].used \/ e.rows[b].owed # 0
      PROVE  e.rows[b].stored
  BY <1>1, <1>2, <1>5 DEF RowsOK
<1> QED BY <1>4, <1>5 DEF RowsOK, e

(* A reset and a rewind keep them too, and leave the pools at the birthday *)
(* or at a checkpoint.                                                     *)
LEMMA RewoundRows ==
    ASSUME NEW d \in Db, RowsOK(d), NEW h \in Nat,
           NEW e, e = RewoundSync(d, h) \/ e = ResetSync(d)
    PROVE  /\ e \in Db /\ RowsOK(e) /\ e.inc = d.inc + 1
           /\ e.hT = e.hS /\ e.hT >= 1
<1>1. CASE e = ResetSync(d)
  <2>1. /\ e \in Db /\ e.inc = d.inc + 1 /\ e.hT = d.birth /\ e.hS = d.birth
        /\ e.notes = {}
        /\ \A b \in Addr :
             /\ SameRow(d.rows[b], e.rows[b], {"marker", "owed", "since"})
             /\ e.rows[b].owed = 0
    BY <1>1, ResetDb
  <2>2. RowsOK(e)
    BY <2>1 DEF RowsOK, SameRow
  <2> QED BY <2>1, <2>2 DEF Db
<1>2. ASSUME NEW w \in d.wit, e = Retired(Trimmed(d, w)) PROVE RowsOK(e) /\
             e \in Db /\ e.inc = d.inc + 1 /\ e.hT = e.hS /\ e.hT >= 1
  <2> DEFINE t == Trimmed(d, w)
  <2>1. w \in 0 .. MaxHeight /\ w >= 1
    BY SyncAssumption DEF Db, Height
  <2>2. t \in Db /\ t.hT = w /\ t.hS = w /\ t.inc = d.inc
    BY <2>1, TrimmedDb
  <2>3. RowsOK(t)
    BY <2>1, TrimmedRows
  <2> HIDE DEF t
  <2>4. /\ e \in Db /\ e.inc = t.inc + 1 /\ e.hT = t.hT /\ e.hS = t.hS
        /\ e.rows = t.rows /\ e.notes = t.notes
    BY <1>2, <2>2, RetiredDb DEF t
  <2> QED BY <2>1, <2>2, <2>3, <2>4 DEF RowsOK
<1> QED BY <1>1, <1>2, RewoundDb

(* The mark that an address is used is a Boolean.                          *)
LEMMA FoundWritings ==
    ASSUME NEW d, NEW a, NEW found
    PROVE  /\ Written(d, a, found, found # {}) \in Writings(d, a, found)
           /\ Written(d, a, found, TRUE) \in Writings(d, a, found)
<1>1. \A u \in BOOLEAN : Written(d, a, found, u) \in Writings(d, a, found)
  BY DEF Writings
<1>2. (found # {}) \in BOOLEAN
  OBVIOUS
<1> QED BY <1>1, <1>2, Zenon

(* write_transparent_coverage.                                             *)
LEMMA CoverageDb ==
    ASSUME NEW d \in Db, NEW gap \in Nat, NEW from \in Nat,
           NEW e, e = WrittenCoverage(d, gap, from)
    PROVE  /\ e \in Db /\ e.rows = d.rows /\ e.notes = d.notes
           /\ e.hT = d.hT /\ e.hS = d.hS /\ e.wit = d.wit /\ e.trims = d.trims
           /\ e.inc = d.inc /\ e.birth = d.birth
           /\ e.cov.trim = d.trims /\ e.cov.from = from
<1>1. d.cov.gap \in Nat /\ d.trims \in Int
  BY DEF Db
<1>2. Larger(d.cov.gap, gap) \in Nat
  BY <1>1 DEF Larger
<1> HIDE DEF Larger
<1> DEFINE c == [trim |-> d.trims, gap |-> Larger(d.cov.gap, gap), from |-> from]
<1>3. c \in [trim : Int, gap : Nat, from : Nat]
      /\ c.trim = d.trims /\ c.from = from
  BY <1>1, <1>2
<1>4. e = [d EXCEPT !.cov = c]
  BY DEF WrittenCoverage
<1> HIDE DEF c
<1> QED BY <1>3, <1>4 DEF Db

(* The highest stored index of a scope, or none.                           *)
LEMMA HighestStoredType ==
    ASSUME NEW d \in Db, NEW scope
    PROVE  HighestStored(d, scope) \in Int
<1> DEFINE held == {a[2] : a \in {b \in Stored(d) : b[1] = scope}}
<1>1. HighestStored(d, scope) = IF held = {} THEN Null ELSE Max(held)
  BY DEF HighestStored
<1>2. \A a \in Addr : a[2] \in 0 .. MaxIndex
  BY StoreAssumption
<1>3. held \in SUBSET Nat /\ \A y \in held : y <= MaxIndex
  BY <1>2 DEF Stored
<1>4. MaxIndex \in Nat
  BY DEF MaxIndex
<1> HIDE DEF held
<1>5. held # {} => Max(held) \in held
  BY <1>3, <1>4, MaxIsGreatest
<1>6. CASE held = {}
  BY <1>1, <1>6 DEF Null
<1>7. CASE held # {}
  <2>1. Max(held) \in Nat
    BY <1>3, <1>5, <1>7, Zenon
  <2>2. HighestStored(d, scope) = Max(held)
    BY <1>1, <1>7
  <2> QED BY <2>1, <2>2
<1> QED BY <1>6, <1>7

(* What a walk does next keeps its shape, and only an address that exists  *)
(* is planned.                                                             *)
LEMMA PlannedWalk ==
    ASSUME left \in Budget, NEW w \in WalkType, NEW p, p = Planned(w)
    PROVE  /\ p \in WalkType /\ p.batch = w.batch
           /\ p.at \in {"plan", "seam", "ingest", "certify"}
           /\ p.at = "plan" => <<p.scope, p.next>> \in Addr
           /\ p.at \in {"seam", "ingest"} => p.batch # << >>
           /\ p.inc = w.inc /\ p.trim = w.trim /\ p.from = w.from
           /\ p.end = w.end /\ p.covered = w.covered
<1> DEFINE o == [w EXCEPT !.scope = 1, !.next = 0, !.gap = 0]
<1>1. \/ CanPlan(w) /\ p = [w EXCEPT !.at = "plan"]
      \/ w.batch # << >> /\ p = [w EXCEPT !.at = "seam"]
      \/ w.batch # << >> /\ p = [w EXCEPT !.at = "ingest"]
      \/ CanPlan(o) /\ p = [o EXCEPT !.at = "plan"]
      \/ p = [w EXCEPT !.at = "certify"]
  BY DEF Planned
<1>2. \A v : CanPlan(v) => <<v.scope, v.next>> \in Addr
  BY DEF CanPlan, Budget
<1>3. CASE CanPlan(w) /\ p = [w EXCEPT !.at = "plan"]
  BY <1>2, <1>3 DEF WalkType
<1>4. CASE w.batch # << >> /\ p = [w EXCEPT !.at = "seam"]
  BY <1>4 DEF WalkType
<1>5. CASE w.batch # << >> /\ p = [w EXCEPT !.at = "ingest"]
  BY <1>5 DEF WalkType
<1>6. CASE CanPlan(o) /\ p = [o EXCEPT !.at = "plan"]
  <2>1. o \in WalkType /\ o.batch = w.batch
        /\ o.inc = w.inc /\ o.trim = w.trim /\ o.from = w.from
        /\ o.end = w.end /\ o.covered = w.covered
    BY DEF WalkType
  <2> HIDE DEF o
  <2> QED BY <1>2, <1>6, <2>1 DEF WalkType
<1>7. CASE p = [w EXCEPT !.at = "certify"]
  BY <1>7 DEF WalkType
<1> QED BY <1>1, <1>3, <1>4, <1>5, <1>6, <1>7

-----------------------------------------------------------------------------
(* Steps of the walk.                                                      *)

\* The replies of a batch concern the addresses asked about.
RepliesOK(batch) ==
    \A i \in 1 .. Len(batch) :
        \A n \in batch[i].reply.found : n.addr = batch[i].addr

(* The first entry of a batch that is ingested.                            *)
LEMMA FirstEntry ==
    ASSUME WalkOK, walk.batch # << >>
    PROVE  /\ First \in Entry /\ First = walk.batch[1]
           /\ Len(walk.batch) \in Nat \ {0} /\ 1 \in DOMAIN walk.batch
           /\ \A n \in First.reply.found : n.addr = First.addr
<1>1. walk.batch \in Seq(Entry)
  BY DEF WalkOK, WalkType
<1>2. Len(walk.batch) \in Nat \ {0} /\ DOMAIN walk.batch = 1 .. Len(walk.batch)
  BY <1>1, EmptySeq, LenProperties
<1>3. First = walk.batch[1]
  BY <1>1, <1>2 DEF First
<1>4. walk.batch[1] \in Entry
  BY <1>1, <1>2, ElementOfSeq
<1> QED BY <1>2, <1>3, <1>4 DEF WalkOK

\* The walk past its first entry, whether that has a row or was found used.
Passings == {Passed(row, used) : row \in BOOLEAN, used \in BOOLEAN}

(* A walk past its first entry.                                            *)
LEMMA PassedWalk ==
    ASSUME left \in Budget, WalkOK, walk.at = "ingest",
           NEW p \in Passings
    PROVE  /\ p \in WalkType /\ p.batch = Tail(walk.batch)
           /\ p.at \in {"plan", "seam", "ingest", "certify"}
           /\ p.at = "plan" => <<p.scope, p.next>> \in Addr
           /\ p.at \in {"seam", "ingest"} => p.batch # << >>
           /\ RepliesOK(p.batch)
           /\ p.inc = walk.inc /\ p.trim = walk.trim /\ p.from = walk.from
           /\ p.end = walk.end
<1>a. PICK row \in BOOLEAN, used \in BOOLEAN : p = Passed(row, used)
  BY DEF Passings
<1> DEFINE gap == IF row \/ used THEN 0 ELSE walk.gap + 1
           cov == IF row THEN walk.covered \cup {First.addr} ELSE walk.covered
           w == [walk EXCEPT !.batch = Tail(@), !.gap = gap, !.covered = cov]
<1>0. walk \in WalkType /\ walk.batch # << >>
  BY DEF WalkOK
<1>1. First \in Entry /\ Len(walk.batch) \in Nat \ {0}
  BY <1>0, FirstEntry
<1>2. gap \in Nat /\ cov \in SUBSET Addr
  <2>1. walk.gap + 1 \in Nat /\ 0 \in Nat
    BY <1>0 DEF WalkType
  <2>2. walk.covered \in SUBSET Addr /\ walk.covered \cup {First.addr} \in SUBSET Addr
    BY <1>0, <1>1 DEF WalkType, Entry
  <2> QED BY <2>1, <2>2, Zenon
<1>3. p = IF w.batch = << >> THEN Planned(w) ELSE w
  BY <1>a DEF Passed, First
<1> HIDE DEF gap, cov
<1>5. walk.batch \in Seq(Entry)
  BY <1>0 DEF WalkType
<1>6. /\ Tail(walk.batch) \in Seq(Entry)
      /\ Len(Tail(walk.batch)) = Len(walk.batch) - 1
      /\ \A i \in 1 .. Len(walk.batch) - 1 : Tail(walk.batch)[i] = walk.batch[i + 1]
  BY <1>0, <1>5, HeadTailProperties
<1>7. RepliesOK(Tail(walk.batch))
  BY <1>1, <1>6 DEF WalkOK, RepliesOK
<1> DEFINE t == Tail(walk.batch)
<1> HIDE DEF t
<1>8. /\ w \in WalkType /\ w.batch = t /\ w.covered = cov
      /\ w.inc = walk.inc /\ w.trim = walk.trim /\ w.from = walk.from
      /\ w.end = walk.end /\ w.at = "ingest"
  <2>1. w = [walk EXCEPT !.batch = t, !.gap = gap, !.covered = cov]
    BY DEF t
  <2> HIDE DEF w
  <2>2. t \in Seq(Entry)
    BY <1>6 DEF t
  <2> QED BY <1>0, <1>2, <2>1, <2>2 DEF WalkType
<1> HIDE DEF w
<1>9. CASE w.batch = << >>
  <2>1. /\ p \in WalkType /\ p.batch = w.batch
        /\ p.at \in {"plan", "seam", "ingest", "certify"}
        /\ p.at = "plan" => <<p.scope, p.next>> \in Addr
        /\ p.at \in {"seam", "ingest"} => p.batch # << >>
        /\ p.inc = w.inc /\ p.trim = w.trim /\ p.from = w.from
        /\ p.end = w.end /\ p.covered = w.covered
    BY <1>3, <1>8, <1>9, PlannedWalk
  <2> QED BY <1>7, <1>8, <2>1 DEF t
<1>10. CASE w.batch # << >>
  BY <1>3, <1>7, <1>8, <1>10 DEF t
<1> QED BY <1>9, <1>10

\* The walk with a window of its first entry behind it.
Steppings(lo, mlo) == {Stepped(lo, mlo, used) : used \in BOOLEAN}

(* A walk with a window of its first entry behind it.                      *)
LEMMA SteppedWalk ==
    ASSUME db \in Db, WalkOK, walk.at = "ingest",
           NEW lo \in 1 .. (MaxHeight + 1), NEW mlo \in 1 .. (MaxHeight + 1),
           NEW p \in Steppings(lo, mlo)
    PROVE  /\ p \in WalkType /\ p.at = "ingest" /\ RepliesOK(p.batch)
           /\ p.inc = walk.inc /\ p.trim = walk.trim /\ p.from = walk.from
           /\ p.end = walk.end /\ p.covered = walk.covered
           /\ p.batch # << >> /\ Len(p.batch) = Len(walk.batch)
           /\ \A i \in 2 .. Len(walk.batch) : p.batch[i] = walk.batch[i]
           /\ p.batch[1].addr = First.addr /\ p.batch[1].lo = lo
           /\ p.batch[1].mlo = mlo /\ p.batch[1].trim = WalkedTrim
           /\ p.batch[1].reply = NoReply
<1>0. walk \in WalkType /\ walk.batch # << >>
  BY DEF WalkOK
<1>1. /\ First \in Entry /\ First = walk.batch[1]
      /\ Len(walk.batch) \in Nat \ {0} /\ 1 \in DOMAIN walk.batch
  BY <1>0, FirstEntry
<1>2. PICK used \in BOOLEAN : p = Stepped(lo, mlo, used)
  BY DEF Steppings
<1> DEFINE e == [First EXCEPT !.lo = lo, !.mlo = mlo, !.used = used,
                              !.trim = WalkedTrim, !.reply = NoReply]
           b == [walk.batch EXCEPT ![1] = e]
<1>3. WalkedTrim \in Int /\ NoReply \in [seam : Int, found : SUBSET Notes]
      /\ NoReply.found = {}
  BY <1>1 DEF WalkedTrim, NoReply, Entry, Db, Null
<1> HIDE DEF WalkedTrim, NoReply
<1>4. /\ e \in Entry /\ e.addr = First.addr /\ e.lo = lo
      /\ e.mlo = mlo /\ e.trim = WalkedTrim /\ e.reply = NoReply
  BY <1>1, <1>3 DEF Entry
<1>5. p = [walk EXCEPT !.batch = b]
  BY <1>1, <1>2 DEF Stepped
<1>6. walk.batch \in Seq(Entry)
  BY <1>0 DEF WalkType
<1> HIDE DEF e
<1>7. /\ b \in Seq(Entry) /\ Len(b) = Len(walk.batch) /\ b[1] = e
      /\ \A i \in 2 .. Len(walk.batch) : b[i] = walk.batch[i]
  <2>1. b[1] = e /\ \A i \in 2 .. Len(walk.batch) : b[i] = walk.batch[i]
    BY <1>1, <1>6
  <2>2. b \in Seq(Entry) /\ Len(b) = Len(walk.batch)
    BY <1>1, <1>4, <1>6, ExceptSeq
  <2> QED BY <2>1, <2>2
<1> HIDE DEF b
<1>8. /\ p \in WalkType /\ p.at = "ingest" /\ p.batch = b
      /\ p.inc = walk.inc /\ p.trim = walk.trim /\ p.from = walk.from
      /\ p.end = walk.end /\ p.covered = walk.covered
  BY <1>0, <1>5, <1>7 DEF WalkType
<1>9. b # << >>
  BY <1>1, <1>7, EmptySeq
<1>10. RepliesOK(b)
  <2> SUFFICES ASSUME NEW i \in 1 .. Len(b), NEW n \in b[i].reply.found
               PROVE  n.addr = b[i].addr
    BY DEF RepliesOK
  <2>1. CASE i = 1
    BY <1>3, <1>4, <1>7, <2>1
  <2>2. CASE i # 1
    <3>1. i \in 2 .. Len(walk.batch) /\ i \in 1 .. Len(walk.batch)
      BY <1>1, <1>7, <2>2
    <3> QED BY <1>7, <3>1 DEF WalkOK
  <2> QED BY <2>1, <2>2
<1> QED BY <1>1, <1>4, <1>7, <1>8, <1>9, <1>10

(* The rows of a window of the walk: the address is stored, what lies at   *)
(* or below the seam is written, what lies above is a debt.                *)
LEMMA IngestedDb ==
    ASSUME ChainOK, db \in Db, RowsOK(db), WalkOK, walk.at = "ingest",
           NEW hi \in Nat, NEW e, e = IngestedRows(hi)
    PROVE  /\ Answer(hi) \in SUBSET Notes
           /\ \A n \in Answer(hi) : n.addr = First.addr
           /\ e \in Db /\ RowsOK(e) /\ SameRest(db, e)
           /\ e.notes = db.notes \cup {n \in Answer(hi) : n.height <= Seam(db)}
           /\ \A b \in Addr \ {First.addr} : e.rows[b] = db.rows[b]
           /\ e.rows[First.addr].stored
           /\ IF db.rows[First.addr].stored
              THEN /\ e.rows[First.addr].marker = db.rows[First.addr].marker
                   /\ e.rows[First.addr].since = db.rows[First.addr].since
                   /\ e.rows[First.addr].owed >= db.rows[First.addr].owed
              ELSE /\ e.rows[First.addr].marker = Null
                   /\ e.rows[First.addr].since = Seam(db)
           /\ \A n \in Answer(hi) : n.height > Seam(db) =>
                 e.rows[First.addr].owed >= n.height
<1> DEFINE a == First.addr
           A == Answer(hi)
           kept == {n \in A : n.height <= Seam(db)}
           late == HeightsOf(A \ kept)
           f == StoredAddress(db, a)
           g == Written(f, a, kept, A # {})
<1>0. First \in Entry /\ \A n \in First.reply.found : n.addr = First.addr
  BY FirstEntry DEF WalkOK
<1>1. a \in Addr /\ First.lo \in Nat \ {0} /\ First.reply.found \in SUBSET Notes
  BY <1>0 DEF Entry
<1>2. Seam(db) \in 0 .. MaxHeight
  BY DEF Seam, Smaller, Db
<1>3. A \in SUBSET Notes /\ \A n \in A : n.addr = a
  <2>1. /\ Payments(a, First.lo, hi) \subseteq Notes
        /\ \A n \in Payments(a, First.lo, hi) : n.addr = a
    BY <1>1, PaymentsAre
  <2> QED BY <1>0, <1>1, <2>1 DEF Answer
<1> HIDE DEF A
<1>4. kept \in SUBSET Notes /\ \A n \in kept : n.addr = a /\ n \in A
  BY <1>3
<1>5. late \in SUBSET Nat /\ (\A y \in late : y \in Nat /\ y <= MaxHeight)
      /\ \A n \in A : n.height > Seam(db) => n.height \in late
  BY <1>2, <1>3 DEF HeightsOf, Notes, Height
<1>6. /\ f \in Db /\ SameRest(db, f) /\ f.notes = db.notes
      /\ \A b \in Addr \ {a} : f.rows[b] = db.rows[b]
      /\ IF db.rows[a].stored THEN f.rows[a] = db.rows[a]
         ELSE f.rows[a] = Row(Seam(db))
      /\ f.rows[a].stored
  BY <1>1, StoredAddressDb
<1>7. Row(Seam(db)).marker = Null /\ Row(Seam(db)).since = Seam(db)
      /\ Row(Seam(db)).owed = 0
  BY DEF Row
<1> HIDE DEF f
<1>8. /\ \A n \in f.notes : n.addr \in Addr /\ f.rows[n.addr].stored
      /\ \A b \in Addr : f.rows[b].used \/ f.rows[b].owed # 0 => f.rows[b].stored
  <2>1. \A n \in f.notes : n.addr \in Addr
    BY <1>6 DEF Db, Notes
  <2>2. \A n \in f.notes : f.rows[n.addr].stored
    BY <1>6, <2>1 DEF RowsOK
  <2>3. ASSUME NEW b \in Addr, f.rows[b].used \/ f.rows[b].owed # 0
        PROVE  f.rows[b].stored
    BY <1>6, <2>3 DEF RowsOK
  <2> QED BY <2>1, <2>2, <2>3
<1>9. /\ g \in Db /\ RowsOK(g) /\ SameRest(f, g)
      /\ g.notes = f.notes \cup kept
      /\ \A b \in Addr : SameRow(f.rows[b], g.rows[b], {"used"})
      /\ \A b \in Addr \ {a} : g.rows[b] = f.rows[b]
  <2>1. g \in Writings(f, a, kept)
    <3>1. (A # {}) \in BOOLEAN
      OBVIOUS
    <3> QED BY <3>1, Zenon DEF Writings
  <2>2. RowsOK(f)
    BY <1>8 DEF RowsOK
  <2> HIDE DEF g, kept
  <2> QED BY <1>1, <1>4, <1>6, <2>1, <2>2, UndatedDb
<1>10. e = IF late = {} THEN g ELSE RaisedDebt(g, a, Max(late))
  BY DEF IngestedRows, A, f
<1> HIDE DEF g, kept, late
<1>11. /\ e \in Db /\ RowsOK(e) /\ SameRest(g, e) /\ e.notes = g.notes
       /\ \A b \in Addr : SameRow(g.rows[b], e.rows[b], {"owed"})
       /\ \A b \in Addr \ {a} : e.rows[b] = g.rows[b]
       /\ e.rows[a].owed >= g.rows[a].owed
       /\ \A y \in late : e.rows[a].owed >= y
  <2>0. g.rows[a].owed \in Nat
    BY <1>1, <1>9 DEF Db, RowType
  <2>1. CASE late = {}
    BY <1>9, <1>10, <2>0, <2>1 DEF SameRest, SameRow
  <2>2. CASE late # {}
    <3> DEFINE m == Max(late)
    <3>1. m \in late /\ \A y \in late : y <= m
      BY <1>5, <2>2, SyncAssumption, MaxIsGreatest
    <3>2. m \in 0 .. MaxHeight
      <4> HIDE DEF m
      <4>1. m \in Nat /\ m <= MaxHeight
        BY <1>5, <3>1
      <4> QED BY <4>1, SyncAssumption
    <3>3. e = RaisedDebt(g, a, m)
      BY <1>10, <2>2
    <3> HIDE DEF m
    <3>4. /\ e \in Db /\ SameRest(g, e) /\ e.notes = g.notes
          /\ \A b \in Addr : SameRow(g.rows[b], e.rows[b], {"owed"})
          /\ \A b \in Addr \ {a} : e.rows[b] = g.rows[b]
          /\ e.rows[a].owed = Larger(g.rows[a].owed, m)
      BY <1>1, <1>9, <3>2, <3>3, RaisedDebtDb
    <3>5. e.rows[a].owed >= g.rows[a].owed /\ \A y \in late : e.rows[a].owed >= y
      BY <1>5, <2>0, <3>1, <3>2, <3>4 DEF Larger
    <3>6. g.rows[a].stored /\ e.rows[a].stored
      BY <1>1, <1>6, <1>9, <3>4 DEF SameRow
    <3>7. RowsOK(e)
      <4>1. \A n \in e.notes : n.addr \in Addr
        BY <3>4 DEF Db, Notes
      <4>2. \A b \in Addr : e.rows[b].stored = g.rows[b].stored
        BY <3>4 DEF SameRow
      <4>3. \A n \in e.notes : e.rows[n.addr].stored
        BY <1>9, <3>4, <4>1, <4>2 DEF RowsOK
      <4>4. ASSUME NEW b \in Addr, e.rows[b].used \/ e.rows[b].owed # 0
            PROVE  e.rows[b].stored
        BY <1>9, <3>4, <3>6, <4>4 DEF RowsOK
      <4> QED BY <4>3, <4>4 DEF RowsOK
    <3> QED BY <3>4, <3>5, <3>7
  <2> QED BY <2>1, <2>2
<1>12. SameRest(db, e)
  BY <1>6, <1>9, <1>11 DEF SameRest
<1>13. e.notes = db.notes \cup kept
  BY <1>6, <1>9, <1>11
<1>14. \A b \in Addr \ {a} : e.rows[b] = db.rows[b]
  BY <1>6, <1>9, <1>11
<1>15. /\ e.rows[a].stored = f.rows[a].stored
       /\ e.rows[a].marker = f.rows[a].marker
       /\ e.rows[a].since = f.rows[a].since
       /\ e.rows[a].owed >= f.rows[a].owed
  BY <1>1, <1>9, <1>11 DEF SameRow
<1>16. \A n \in A : n.height > Seam(db) => e.rows[a].owed >= n.height
  BY <1>5, <1>11
<1> QED BY <1>3, <1>6, <1>7, <1>11, <1>12, <1>13, <1>14, <1>15, <1>16 DEF A, kept

-----------------------------------------------------------------------------
(* The steps keep the types.                                               *)

(* The seam is a height, the chain reaches from the birthday to its bound. *)
LEMMA Ranges ==
    ASSUME Typed
    PROVE  /\ Seam(db) \in Height /\ Seam(db) <= db.hT /\ Seam(db) <= db.hS
           /\ Tip \in Nat /\ Birth <= Tip /\ Tip <= MaxHeight /\ Tip = Len(chain)
           /\ Birth \in Nat \ {0} /\ MaxHeight \in Nat /\ Birth <= MaxHeight
           /\ db.birth \in 1 .. Birth /\ left \in Budget
           /\ \A k \in 1 .. Tip : chain[k] \in Block
<1>1. Seam(db) \in Height /\ Seam(db) <= db.hT /\ Seam(db) <= db.hS
  BY DEF Typed, DbOK, Db, Seam, Smaller, Height
<1>2. Tip \in Nat /\ Tip = Len(chain)
  BY LenProperties DEF Typed, ChainOK, Tip
<1>3. \A k \in 1 .. Tip : chain[k] \in Block
  BY <1>2, ElementOfSeq DEF Typed, ChainOK
<1> QED BY <1>1, <1>2, <1>3, SyncAssumption DEF Typed, ChainOK, DbOK, Db

(* The server mines on the fork of the moment.                             *)
LEMMA MineChain ==
    ASSUME Typed, Mine
    PROVE  /\ ChainOK' /\ Tip' = Tip + 1 /\ left' = left
           /\ \A h \in 1 .. Tip : chain'[h] = chain[h]
           /\ chain'[Tip + 1].fork = left.forks
<1>0. Tip \in Nat /\ Tip = Len(chain) /\ Tip < MaxHeight /\ Birth <= Tip
      /\ Birth \in Nat /\ MaxHeight \in Nat /\ left \in Budget
  BY Ranges DEF Mine
<1>1. PICK a \in left.payees \cup {NoAddr} :
        chain' = Append(chain, [fork |-> left.forks, pays |-> a])
  BY DEF Mine
<1> DEFINE b == [fork |-> left.forks, pays |-> a]
<1>2. b \in Block /\ b.fork = left.forks
  BY DEF Block, Typed, ChainOK, Budget
<1> HIDE DEF b
<1>3. chain \in Seq(Block) /\ chain' = Append(chain, b)
  BY <1>1 DEF Typed, ChainOK, b
<1>4. /\ chain' \in Seq(Block) /\ Len(chain') = Len(chain) + 1
      /\ \A h \in 1 .. Len(chain) : chain'[h] = chain[h]
      /\ chain'[Len(chain) + 1] = b
  BY <1>2, <1>3, AppendProperties
<1>5. Tip' = Tip + 1 /\ left' = left
  BY <1>0, <1>4 DEF Tip, Mine
<1>6. \A h \in 1 .. Tip : chain'[h] = chain[h]
  BY <1>0, <1>4
<1>7. chain'[Tip + 1].fork = left.forks
  BY <1>0, <1>2, <1>4
<1>8. \A h \in 1 .. Tip' : chain'[h].fork >= left.forks
  <2>1. left.forks \in Nat
    BY <1>0 DEF Budget
  <2>2. \A h \in 1 .. Tip : chain[h].fork >= left.forks
    BY DEF Typed, ChainOK
  <2>3. \A h \in 1 .. (Tip + 1) : h \in 1 .. Tip \/ h = Tip + 1
    BY <1>0
  <2> QED BY <1>5, <1>6, <1>7, <2>1, <2>2, <2>3
<1>9. left' \in Budget /\ left'.forks \in Forks
  BY <1>0, <1>5 DEF Typed, ChainOK
<1>10. chain' \in Seq(Block) /\ Birth <= Tip' /\ Tip' <= MaxHeight
  BY <1>0, <1>4, <1>5
<1> QED BY <1>5, <1>6, <1>7, <1>8, <1>9, <1>10 DEF ChainOK

(* A fork cuts the chain and takes a name no block has had.                *)
LEMMA ForkChain ==
    ASSUME Typed, NEW f \in Height, Fork(f)
    PROVE  /\ ChainOK' /\ Tip' = f - 1 /\ f \in (Birth + 1) .. Tip
           /\ \A h \in 1 .. (f - 1) : chain'[h] = chain[h]
           /\ left'.forks = left.forks - 1 /\ left.forks > 0
           /\ left'.narrow = left.narrow /\ left'.addrs = left.addrs
<1>0. Tip \in Nat /\ Tip = Len(chain) /\ Tip <= MaxHeight /\ Birth <= Tip
      /\ Birth \in Nat /\ MaxHeight \in Nat /\ left \in Budget
  BY Ranges
<1>1. /\ left.forks > 0 /\ f \in (Birth + 1) .. Tip
      /\ chain' = SubSeq(chain, 1, f - 1)
      /\ left' = [left EXCEPT !.forks = @ - 1]
  BY DEF Fork
<1>2. f - 1 \in 1 .. Len(chain) \/ f - 1 = 0
  BY <1>0, <1>1
<1>3. /\ chain' \in Seq(Block) /\ Len(chain') = f - 1
      /\ \A h \in 1 .. (f - 1) : chain'[h] = chain[h]
  <2>1. chain \in Seq(Block)
    BY DEF Typed, ChainOK
  <2>2. 1 \in Int /\ f - 1 \in Int /\ f - 1 <= Len(chain) /\ f - 1 >= 0
    BY <1>0, <1>1
  <2>3. /\ SubSeq(chain, 1, f - 1) \in Seq(Block)
        /\ Len(SubSeq(chain, 1, f - 1)) = f - 1
        /\ \A h \in 1 .. (f - 1) : SubSeq(chain, 1, f - 1)[h] = chain[h]
    BY <2>1, <2>2
  <2> QED BY <1>1, <2>3
<1>4. Tip' = f - 1
  BY <1>3 DEF Tip
<1>5. /\ left' \in Budget /\ left'.forks = left.forks - 1
      /\ left'.narrow = left.narrow /\ left'.addrs = left.addrs
  <2>1. left \in Budget /\ left.forks > 0 /\ left' = [left EXCEPT !.forks = @ - 1]
    BY <1>0, <1>1
  <2>2. left.forks - 1 \in Nat
    BY <2>1 DEF Budget
  <2> QED BY <2>1, <2>2 DEF Budget
<1>6. left'.forks \in Forks
  <2>1. PICK b \in Budgets : left.forks \in 0 .. b.forks
    BY DEF Typed, ChainOK, Forks
  <2>2. b.forks \in Nat
    BY SyncAssumption DEF Budget
  <2>3. left.forks - 1 \in 0 .. b.forks
    BY <1>1, <2>1, <2>2
  <2> QED BY <1>5, <2>3 DEF Forks
<1>7. \A h \in 1 .. Tip' : chain'[h].fork >= left'.forks
  <2>1. \A h \in 1 .. Tip : chain[h].fork >= left.forks /\ chain[h].fork \in Nat
    <3>1. \A h \in 1 .. Tip : chain[h].fork \in Forks
      BY Ranges DEF Block
    <3>2. \A g \in Forks : g \in Nat
      BY SyncAssumption DEF Forks, Budget
    <3> QED BY <3>1, <3>2 DEF Typed, ChainOK
  <2>2. \A h \in 1 .. (f - 1) : h \in 1 .. Tip
    BY <1>0, <1>1
  <2>3. left.forks \in Nat
    BY <1>0 DEF Budget
  <2> QED BY <1>3, <1>4, <1>5, <2>1, <2>2, <2>3
<1>8. Birth <= Tip' /\ Tip' <= MaxHeight
  BY <1>0, <1>1, <1>4
<1> QED BY <1>1, <1>3, <1>4, <1>5, <1>6, <1>7, <1>8 DEF ChainOK

(* The order of a scan names an address of the set: the default address,   *)
(* or the newest of the lowest scope.                                      *)
LEMMA ScanOrderIn ==
    ASSUME NEW todo \in SUBSET Addr, todo # {}
    PROVE  ScanOrder(todo) \in todo
<1> DEFINE First_(a) == \A b \in todo :
               \/ a = b \/ a = Own
               \/ b # Own /\ a[1] < b[1]
               \/ b # Own /\ a[1] = b[1] /\ a[2] > b[2]
<1>0. \A a \in Addr : a = <<a[1], a[2]>> /\ a[1] \in {0, 1} /\ a[2] \in 0 .. MaxIndex
  BY StoreAssumption
<1>1. CASE Own \in todo
  <2>1. First_(Own)
    OBVIOUS
  <2> QED BY <1>1, <2>1 DEF ScanOrder
<1>2. CASE Own \notin todo
  <2> DEFINE Lowest(s) == \A b \in todo : s <= b[1]
             S(s) == {b[2] : b \in {c \in todo : c[1] = s}}
  <2>1. \E s \in {0, 1} : Lowest(s) /\ \E b \in todo : b[1] = s
    <3>1. CASE \E b \in todo : b[1] = 0
      BY <1>0, <3>1
    <3>2. CASE \A b \in todo : b[1] # 0
      BY <1>0, <3>2
    <3> QED BY <3>1, <3>2
  <2>2. PICK s \in {0, 1} : Lowest(s) /\ \E b \in todo : b[1] = s
    BY <2>1
  <2>3. S(s) \in SUBSET Nat /\ S(s) # {} /\ \A y \in S(s) : y <= MaxIndex
    BY <1>0, <2>2
  <2>4. MaxIndex \in Nat
    BY DEF MaxIndex
  <2> DEFINE T == S(s)
  <2> HIDE DEF T
  <2>5. Max(T) \in T /\ \A y \in T : y <= Max(T)
    BY <2>3, <2>4, MaxIsGreatest DEF T
  <2>6. PICK a \in todo : a[1] = s /\ a[2] = Max(T)
    BY <2>5 DEF T
  <2>7. \A b \in todo : b[1] = s => b[2] \in T
    BY DEF T
  <2>8. First_(a)
    <3> SUFFICES ASSUME NEW b \in todo, a # b, b[1] <= s PROVE b[1] = s /\ a[2] > b[2]
      BY <1>0, <1>2, <2>2, <2>6
    <3>1. b[1] = s
      BY <1>0, <2>2
    <3>2. b[2] <= a[2]
      BY <2>5, <2>6, <2>7, <3>1
    <3>3. a[2] # b[2]
      BY <1>0, <2>6, <3>1
    <3> QED BY <1>0, <3>1, <3>2, <3>3
  <2> QED BY <2>8 DEF ScanOrder
<1> QED BY <1>1, <1>2

(* The start of a tick trims the account to its seam.                      *)
LEMMA StartTickEffect ==
    ASSUME Typed, StartTick
    PROVE  /\ db' \in Db /\ RowsOK(db') /\ Seam(db') = Seam(db)
           /\ db'.hT = Seam(db) /\ db'.hS = Seam(db)
           /\ \A w \in db'.wit : w \in db.wit /\ w <= Seam(db)
           /\ db'.notes = {n \in db.notes : n.height <= Seam(db)}
           /\ db'.inc = db.inc /\ db'.cov = db.cov /\ db'.birth = db.birth
           /\ db'.trims >= db.trims
           /\ db'.trims = db.trims => db'.notes = db.notes
           /\ \A b \in Addr :
                 /\ db'.rows[b].stored = db.rows[b].stored
                 /\ db'.rows[b].marker = Smaller(db.rows[b].marker, Seam(db))
                 /\ db'.rows[b].since = Smaller(db.rows[b].since, Seam(db))
                 /\ db'.rows[b].owed >= db.rows[b].owed
                 /\ \A n \in db.notes : n.addr = b /\ n.height > Seam(db) =>
                       db'.rows[b].owed >= n.height
<1> DEFINE p == PrunedCheckpoints(db, Tip - CheckpointAge)
           s == Seam(db)
<1>0. db \in Db /\ RowsOK(db) /\ s \in 0 .. MaxHeight
  BY Ranges DEF Typed, DbOK, Height
<1>1. p \in Db /\ SameRest([db EXCEPT !.wit = p.wit], p)
      /\ p.wit \subseteq db.wit /\ p.rows = db.rows /\ p.notes = db.notes
  BY <1>0, PrunedDb
<1>2. p.inc = db.inc /\ p.cov = db.cov /\ p.birth = db.birth /\ p.trims = db.trims
  BY <1>0, <1>1 DEF SameRest, Db
<1>3. RowsOK(p)
  BY <1>0, <1>1 DEF RowsOK
<1>4. db' = Trimmed(p, s)
  BY DEF StartTick
<1> HIDE DEF p, s
<1>5. RowsOK(db')
  BY <1>0, <1>1, <1>3, <1>4, TrimmedRows
<1>6. /\ db' \in Db
      /\ db'.hT = s /\ db'.hS = s /\ db'.wit = {w \in p.wit : w <= s}
      /\ db'.notes = {n \in p.notes : n.height <= s}
      /\ db'.inc = p.inc /\ db'.cov = p.cov /\ db'.birth = p.birth
      /\ \A b \in Addr :
            /\ SameRow(p.rows[b], db'.rows[b], {"marker", "owed", "since"})
            /\ db'.rows[b].marker = Smaller(p.rows[b].marker, s)
            /\ db'.rows[b].since = Smaller(p.rows[b].since, s)
            /\ db'.rows[b].owed >= p.rows[b].owed
            /\ \A n \in p.notes :
                  n.addr = b /\ n.height > s => db'.rows[b].owed >= n.height
      /\ db'.trims \in {p.trims, p.trims + 1}
      /\ db'.trims = p.trims => db'.notes = p.notes
  BY <1>0, <1>1, <1>4, TrimmedDb
<1>7. Seam(db') = s
  BY <1>0, <1>6 DEF Seam, Smaller
<1>8. db'.trims >= db.trims /\ (db'.trims = db.trims => db'.notes = db.notes)
  BY <1>0, <1>1, <1>2, <1>6 DEF Db
<1>9. \A b \in Addr :
        /\ db'.rows[b].stored = db.rows[b].stored
        /\ db'.rows[b].marker = Smaller(db.rows[b].marker, s)
        /\ db'.rows[b].since = Smaller(db.rows[b].since, s)
        /\ db'.rows[b].owed >= db.rows[b].owed
        /\ \A n \in db.notes : n.addr = b /\ n.height > s =>
              db'.rows[b].owed >= n.height
  BY <1>1, <1>6 DEF SameRow
<1>10. \A w \in db'.wit : w \in db.wit /\ w <= s
  BY <1>1, <1>6
<1> QED BY <1>1, <1>2, <1>5, <1>6, <1>7, <1>8, <1>9, <1>10 DEF s

(* An address a tick scans exists, is stored, and owes a range that begins *)
(* no later than the tick's.                                               *)
LEMMA StartAddressRange ==
    ASSUME Typed, StartAddress, NEW a, a = ScanOrder(tick.todo),
           NEW lo, lo = RangeStart(a)
    PROVE  /\ a \in Addr /\ a \in tick.todo /\ db.rows[a].stored
           /\ lo \in 1 .. MaxHeight /\ lo >= db.birth
           /\ Seam(db) + 1 = tick.start
           /\ lo <= Larger(db.birth, tick.start)
           /\ IF db.rows[a].marker = Null THEN lo >= tick.start
              ELSE lo <= Larger(db.birth, db.rows[a].marker + 1)
<1>1. a \in tick.todo /\ a \in Addr
  BY ScanOrderIn DEF StartAddress, Typed, TickOK, TickType
<1>2. /\ db.rows[a].stored /\ db.hT = tick.start - 1 /\ db.hS = tick.start - 1
      /\ tick.start <= tick.end /\ tick.start \in 0 .. MaxHeight
  BY <1>1 DEF StartAddress, Typed, TickOK, TickType
<1>3. db.hT \in 0 .. MaxHeight /\ db.hT >= 1 /\ db.birth \in 1 .. Birth
      /\ db.rows[a].marker \in Null .. MaxHeight
  BY <1>1 DEF Typed, DbOK, Db, RowType
<1>4. Seam(db) = tick.start - 1
  BY <1>2, <1>3 DEF Seam, Smaller
<1> QED BY <1>1, <1>2, <1>3, <1>4, SyncAssumption
        DEF RangeStart, Larger, Smaller, Null

(* The range an address owes below the seam, in one transaction.           *)
LEMMA StartAddressEffect ==
    ASSUME Typed, StartAddress, NEW a, a = ScanOrder(tick.todo),
           NEW lo, lo = RangeStart(a),
           NEW found, found = Payments(a, lo, Seam(db))
    PROVE  /\ found \in SUBSET Notes /\ (\A n \in found : n.addr = a)
           /\ db' \in Db /\ RowsOK(db') /\ SameRest(db, db')
           /\ IF lo <= Seam(db)
              THEN /\ db'.notes = db.notes \cup found
                   /\ db'.rows[a].marker =
                        IF /\ lo <= Larger(db.rows[a].marker + 1, db.birth)
                           /\ db.rows[a].marker < Seam(db)
                        THEN Seam(db) ELSE db.rows[a].marker
              ELSE db' = db
           /\ \A b \in Addr : SameRow(db.rows[b], db'.rows[b], {"used", "marker"})
           /\ \A b \in Addr \ {a} : db'.rows[b] = db.rows[b]
<1>0. a \in Addr /\ db.rows[a].stored /\ lo \in 1 .. MaxHeight
  BY StartAddressRange
<1>1. db \in Db /\ RowsOK(db) /\ Seam(db) \in 0 .. MaxHeight /\ ChainOK
  BY Ranges DEF Typed, DbOK, Height
<1>2. found \in SUBSET Notes /\ \A n \in found : n.addr = a
  <2>1. lo \in Nat \ {0} /\ Seam(db) \in Nat
    BY <1>0, <1>1, SyncAssumption
  <2> QED BY <1>0, <1>1, <2>1, PaymentsAre
<1> DEFINE f == Written(db, a, found, found # {})
<1>3. f \in Writings(db, a, found)
  BY FoundWritings
<1>4. db' = IF lo <= Seam(db) THEN AdvancedMarker(f, a, lo, Seam(db)) ELSE db
  BY DEF StartAddress
<1> HIDE DEF f
<1>5. CASE lo <= Seam(db)
  <2>1. db' = AdvancedMarker(f, a, lo, Seam(db)) /\ lo \in Int
    BY <1>0, <1>4, <1>5
  <2> QED BY <1>0, <1>1, <1>2, <1>3, <1>5, <2>1, WindowDb
<1>6. CASE ~(lo <= Seam(db))
  <2>1. db' = db
    BY <1>4, <1>6
  <2> QED BY <1>1, <1>2, <1>6, <2>1 DEF SameRest, SameRow
<1> QED BY <1>5, <1>6

(* One window of an address above the seam.                                *)
LEMMA ScanWindowEffect ==
    ASSUME Typed, NEW hi \in Height, ScanWindow(hi) \/ ScanWindowUndated(hi),
           NEW found, found = Payments(tick.addr, tick.lo, hi)
    PROVE  /\ tick.addr \in Addr /\ db.rows[tick.addr].stored
           /\ tick.start <= tick.lo /\ tick.lo <= hi /\ hi <= tick.end
           /\ tick.lo \in Nat \ {0}
           /\ found \in SUBSET Notes /\ (\A n \in found : n.addr = tick.addr)
           /\ db' \in Db /\ RowsOK(db') /\ SameRest(db, db')
           /\ db'.notes = db.notes \cup found
           /\ db'.rows[tick.addr].marker =
                IF /\ tick.lo <= Larger(db.rows[tick.addr].marker + 1, db.birth)
                   /\ db.rows[tick.addr].marker < hi /\ ScanWindow(hi)
                THEN hi ELSE db.rows[tick.addr].marker
           /\ \A b \in Addr : SameRow(db.rows[b], db'.rows[b], {"used", "marker"})
           /\ \A b \in Addr \ {tick.addr} : db'.rows[b] = db.rows[b]
<1> DEFINE a == tick.addr
<1>0. /\ a \in Addr /\ db.rows[a].stored /\ tick.start <= tick.lo
      /\ tick.lo <= hi /\ hi <= tick.end /\ tick.lo \in Nat \ {0}
  <2>1. tick.at = "scan" /\ a # NoAddr /\ hi \in tick.lo .. tick.end
    BY DEF ScanWindow, ScanWindowUndated
  <2>2. /\ tick \in TickType /\ db.hT = tick.start - 1
        /\ db.rows[a].stored /\ tick.start <= tick.lo
    BY <2>1 DEF Typed, TickOK
  <2>3. a \in Addr /\ tick.start \in Nat /\ tick.lo \in Nat
    BY <2>1, <2>2 DEF TickType
  <2>4. db.hT \in Nat /\ db.hT >= 1
    BY DEF Typed, DbOK, Db
  <2> QED BY <2>1, <2>2, <2>3, <2>4
<1>1. db \in Db /\ RowsOK(db) /\ hi \in 0 .. MaxHeight /\ hi \in Nat /\ ChainOK
  BY SyncAssumption DEF Typed, DbOK, Height
<1>2. found \in SUBSET Notes /\ \A n \in found : n.addr = a
  <2> HIDE DEF a
  <2> QED BY <1>0, <1>1, PaymentsAre DEF a
<1> DEFINE f == Written(db, a, found, found # {})
           g == Written(db, a, found, TRUE)
<1>3. f \in Writings(db, a, found) /\ g \in Writings(db, a, found)
  BY FoundWritings
<1>4. ScanWindow(hi) => db' = AdvancedMarker(f, a, tick.lo, hi)
  BY DEF ScanWindow
<1>5. ScanWindowUndated(hi) => db' = g
  BY DEF ScanWindowUndated
<1> HIDE DEF f, g, a
<1>6. CASE ScanWindow(hi)
  <2>1. db' = AdvancedMarker(f, a, tick.lo, hi) /\ tick.lo \in Int
    BY <1>0, <1>4, <1>6
  <2> HIDE DEF ScanWindow
  <2>2. /\ db' \in Db /\ RowsOK(db') /\ SameRest(db, db')
        /\ db'.notes = db.notes \cup found
        /\ \A b \in Addr : SameRow(db.rows[b], db'.rows[b], {"used", "marker"})
        /\ \A b \in Addr \ {a} : db'.rows[b] = db.rows[b]
        /\ db'.rows[a].marker =
             IF /\ tick.lo <= Larger(db.rows[a].marker + 1, db.birth)
                /\ db.rows[a].marker < hi
             THEN hi ELSE db.rows[a].marker
    BY <1>0, <1>1, <1>2, <1>3, <2>1, WindowDb
  <2> QED BY <1>0, <1>2, <1>6, <2>2 DEF a
<1>7. CASE ~ScanWindow(hi)
  <2>1. db' \in Writings(db, a, found)
    BY <1>3, <1>5, <1>7
  <2>2. /\ db' \in Db /\ RowsOK(db') /\ SameRest(db, db')
        /\ db'.notes = db.notes \cup found
        /\ \A b \in Addr : SameRow(db.rows[b], db'.rows[b], {"used"})
        /\ \A b \in Addr \ {a} : db'.rows[b] = db.rows[b]
    BY <1>0, <1>1, <1>2, <2>1, UndatedDb
  <2>3. /\ \A b \in Addr : SameRow(db.rows[b], db'.rows[b], {"used", "marker"})
        /\ db'.rows[a].marker = db.rows[a].marker
    BY <1>0, <2>2 DEF SameRow
  <2> QED BY <1>0, <1>2, <1>7, <2>2, <2>3 DEF a
<1> QED BY <1>6, <1>7

(* The close of the transparent pass moves the pool and pays debts.        *)
LEMMA ClosePassEffect ==
    ASSUME Typed, ClosePass
    PROVE  /\ db' \in Db /\ RowsOK(db')
           /\ db'.hT = tick.end /\ db'.hS = db.hS /\ db'.wit = db.wit
           /\ db'.notes = db.notes /\ db'.trims = db.trims /\ db'.inc = db.inc
           /\ db'.cov = db.cov /\ db'.birth = db.birth
           /\ \A b \in Addr :
                /\ SameRow(db.rows[b], db'.rows[b], {"owed"})
                /\ db'.rows[b].owed = IF db.rows[b].marker >= db.rows[b].owed
                                      THEN 0 ELSE db.rows[b].owed
           /\ db.hT = tick.start - 1 /\ db.hS = tick.start - 1
           /\ tick.start <= tick.end /\ Seam(db') = Seam(db)
<1> DEFINE d == [db EXCEPT !.hT = tick.end]
<1>0. db \in Db /\ RowsOK(db) /\ tick.end \in 0 .. MaxHeight
      /\ tick.start \in 0 .. MaxHeight
  BY DEF Typed, DbOK, TickOK, TickType
<1>1. db.hT = tick.start - 1 /\ db.hS = tick.start - 1 /\ tick.start <= tick.end
  BY DEF ClosePass, ScanDone, Typed, TickOK
<1>2. /\ d \in Db /\ d.hT = tick.end /\ d.hS = db.hS /\ d.wit = db.wit
      /\ d.notes = db.notes /\ d.trims = db.trims /\ d.inc = db.inc
      /\ d.cov = db.cov /\ d.birth = db.birth /\ d.rows = db.rows
  BY <1>0 DEF Db
<1>3. db' = PaidDebts(d)
  BY DEF ClosePass
<1> HIDE DEF d
<1>4. /\ db' \in Db /\ SameRest(d, db') /\ db'.notes = d.notes
      /\ \A b \in Addr :
           /\ SameRow(d.rows[b], db'.rows[b], {"owed"})
           /\ db'.rows[b].owed = IF d.rows[b].marker >= d.rows[b].owed THEN 0
                                 ELSE d.rows[b].owed
  BY <1>2, <1>3, PaidDebtsDb
<1>5. RowsOK(db')
  <2>1. \A n \in db.notes : n.addr \in Addr
    BY <1>0 DEF Db, Notes
  <2>2. \A b \in Addr : db'.rows[b].stored = db.rows[b].stored
                        /\ db'.rows[b].used = db.rows[b].used
    BY <1>2, <1>4 DEF SameRow
  <2>3. \A n \in db'.notes : db'.rows[n.addr].stored
    BY <1>0, <1>2, <1>4, <2>1, <2>2 DEF RowsOK
  <2>4. ASSUME NEW b \in Addr, db'.rows[b].used \/ db'.rows[b].owed # 0
        PROVE  db'.rows[b].stored
    BY <1>0, <1>2, <1>4, <2>2, <2>4 DEF RowsOK
  <2> QED BY <2>3, <2>4 DEF RowsOK
<1>6. db'.hT = tick.end /\ db'.hS = db.hS
  BY <1>2, <1>4 DEF SameRest
<1>7. Seam(db') = Seam(db)
  BY <1>0, <1>1, <1>6 DEF Seam, Smaller
<1> QED BY <1>1, <1>2, <1>4, <1>5, <1>6, <1>7 DEF SameRest

(* A chunk of the shielded pass moves the other pools.                     *)
LEMMA CommitChunkEffect ==
    ASSUME Typed, NEW h \in Height, NEW witnessed \in BOOLEAN,
           CommitChunk(h, witnessed)
    PROVE  /\ db' \in Db /\ RowsOK(db')
           /\ db'.hT = db.hT /\ db'.hS = h
           /\ db'.wit \subseteq db.wit \cup {h} /\ db.wit \subseteq db'.wit
           /\ db'.rows = db.rows /\ db'.notes = db.notes /\ db'.trims = db.trims
           /\ db'.inc = db.inc /\ db'.cov = db.cov /\ db'.birth = db.birth
           /\ Seam(db') = h /\ Seam(db) = tick.cur /\ tick.cur < h
           /\ h <= tick.end
<1>0. db \in Db /\ RowsOK(db) /\ tick.end \in Nat /\ tick.cur \in Nat
  BY DEF Typed, DbOK, TickOK, TickType
<1>1. /\ tick.at = "shielded" /\ h \in (tick.cur + 1) .. tick.end /\ h <= Tip
      /\ db' = [db EXCEPT !.hS = h, !.wit = IF witnessed THEN @ \cup {h} ELSE @]
  BY DEF CommitChunk
<1>2. db.hT = tick.end /\ db.hS = tick.cur /\ tick.cur < tick.end
  BY <1>1 DEF Typed, TickOK
<1> DEFINE W == IF witnessed THEN db.wit \cup {h} ELSE db.wit
<1>3. W \in SUBSET Height /\ W \subseteq db.wit \cup {h} /\ db.wit \subseteq W
  <2>1. db.wit \in SUBSET Height
    BY <1>0 DEF Db
  <2> QED BY <2>1
<1>4. db' = [db EXCEPT !.hS = h, !.wit = W]
  BY <1>1
<1> HIDE DEF W
<1>5. h \in 0 .. MaxHeight
  BY SyncAssumption DEF Height
<1>6. /\ db' \in Db /\ db'.hT = db.hT /\ db'.hS = h /\ db'.wit = W
      /\ db'.rows = db.rows /\ db'.notes = db.notes /\ db'.trims = db.trims
      /\ db'.inc = db.inc /\ db'.cov = db.cov /\ db'.birth = db.birth
  BY <1>0, <1>3, <1>4, <1>5 DEF Db
<1>7. RowsOK(db')
  BY <1>0, <1>6 DEF RowsOK
<1>8. Seam(db') = h /\ Seam(db) = tick.cur /\ tick.cur < h /\ h <= tick.end
  BY <1>0, <1>1, <1>2, <1>5, <1>6 DEF Seam, Smaller
<1> QED BY <1>3, <1>6, <1>7, <1>8

(* The empty tick and walk.                                                *)
LEMMA IdleTypes ==
    /\ Idle \in TickType /\ Idle.at = "idle" /\ NoWalk \in WalkType
    /\ NoWalk.at = "idle" /\ NoWalk.batch = << >> /\ NoWalk.inc = 0
    /\ NoWalk.end = 0
<1>1. 0 \in 0 .. MaxHeight /\ 0 \in 0 .. (MaxHeight + 1) /\ NoHash \in Hash
  BY SyncAssumption DEF Hash
<1>2. Idle \in TickType /\ Idle.at = "idle"
  <2> HIDE DEF NoHash
  <2> QED BY <1>1 DEF Idle, TickType
<1>3. <<Null, Null>> \in Seq(Int) /\ << >> \in Seq(Entry)
  BY DEF Null
<1> QED BY <1>1, <1>2, <1>3 DEF NoWalk, WalkType

(* Blocks and forks leave the wallet alone.                                *)
LEMMA TypedChain ==
    ASSUME Typed, Mine \/ \E f \in Height : Fork(f)
    PROVE  Typed'
<1>1. ChainOK'
  BY MineChain, ForkChain
<1>2. UNCHANGED <<db, hdr, tick, walk, seen>>
  BY DEF Mine, Fork
<1>3. DbOK' /\ TickOK' /\ WalkOK' /\ HistoryOK'
  BY <1>2 DEF Typed, DbOK, TickOK, WalkOK, HistoryOK
<1> QED BY <1>1, <1>3 DEF Typed

(* The first half of a tick.                                               *)
LEMMA TypedScan ==
    ASSUME Typed,
           \/ StartTick \/ OpenAnchor \/ StartAddress
           \/ \E h \in Height : ScanWindow(h) \/ ScanWindowUndated(h)
    PROVE  Typed'
<1> USE DEF Typed
<1>1. CASE StartTick
  <2>1. ChainOK' /\ walk' = walk /\ hdr' = hdr /\ seen' = seen
    BY <1>1, SpentOK DEF StartTick
  <2>2. db' \in Db /\ RowsOK(db') /\ Seam(db') = Seam(db)
        /\ db'.hT = Seam(db) /\ db'.hS = Seam(db)
    BY <1>1, StartTickEffect
  <2>3. Seam(db) \in Height /\ Tip \in Nat /\ Tip <= MaxHeight /\ MaxHeight \in Nat
    BY Ranges
  <2>4. DbOK'
    BY <2>2, <2>3 DEF DbOK, Height
  <2>5. tick' = IF Seam(db) >= Tip THEN Idle
                ELSE [Idle EXCEPT !.at = "open", !.start = Seam(db) + 1,
                                  !.end = Tip, !.todo = ScanSet(db')]
    BY <1>1, <2>2 DEF StartTick
  <2>6. ScanSet(db') \in SUBSET Addr /\ \A a \in ScanSet(db') : db'.rows[a].stored
    BY DEF ScanSet, Stored
  <2>7. TickOK'
    <3>1. CASE Seam(db) >= Tip
      BY <2>5, <3>1, IdleTypes DEF TickOK
    <3>2. CASE ~(Seam(db) >= Tip)
      <4> DEFINE t == [Idle EXCEPT !.at = "open", !.start = Seam(db) + 1,
                                   !.end = Tip, !.todo = ScanSet(db')]
      <4>0. Idle.addr = NoAddr
        BY DEF Idle
      <4>1. Seam(db) + 1 \in 0 .. MaxHeight /\ Tip \in 0 .. MaxHeight
            /\ Seam(db) + 1 <= Tip /\ Seam(db) = (Seam(db) + 1) - 1
        BY <2>3, <3>2 DEF Height
      <4>2. /\ t \in TickType /\ t.at = "open" /\ t.start = Seam(db) + 1
            /\ t.end = Tip /\ t.todo = ScanSet(db') /\ t.addr = NoAddr
        BY <2>6, <4>0, <4>1, IdleTypes DEF TickType
      <4>3. tick' = t
        BY <2>5, <3>2
      <4> HIDE DEF t
      <4> QED BY <2>2, <2>6, <4>1, <4>2, <4>3 DEF TickOK
    <3> QED BY <3>1, <3>2
  <2> QED BY <2>1, <2>4, <2>7 DEF WalkOK, HistoryOK
<1>2. CASE OpenAnchor
  <2>1. /\ tick.at = "open" /\ tick.end <= Tip
        /\ tick' = [tick EXCEPT !.at = "scan", !.anchor = HashAt(tick.end)]
        /\ UNCHANGED <<chain, db, hdr, walk, seen, left>>
    BY <1>2 DEF OpenAnchor
  <2>2. HashAt(tick.end) \in Hash
    BY HashAtType
  <2>3. HashAt(tick.end) # NoHash
    <3>1. tick.end \in 1 .. Tip
      <4>1. db.hT >= 1 /\ db.hT = tick.start - 1 /\ tick.start <= tick.end
        BY <2>1 DEF DbOK, TickOK
      <4>2. db.hT \in Nat /\ tick.start \in Nat /\ tick.end \in Nat
        BY DEF DbOK, Db, TickOK, TickType
      <4> QED BY <2>1, <4>1, <4>2, Ranges
    <3>2. chain[tick.end].fork \in Nat
      BY <3>1, Ranges, SyncAssumption DEF Block, Forks, Budget
    <3> QED BY <3>1, <3>2 DEF HashAt, NoHash
  <2>4. TickOK'
    <3>1. NoAddr \notin tick.todo
      BY SyncAssumption DEF TickOK, TickType
    <3>2. tick' \in TickType
      BY <2>1, <2>2 DEF TickOK, TickType
    <3>3. /\ tick'.at = "scan" /\ tick'.start = tick.start /\ tick'.end = tick.end
          /\ tick'.todo = tick.todo /\ tick'.addr = NoAddr
          /\ tick'.anchor = HashAt(tick.end)
      BY <2>1 DEF TickOK, TickType
    <3> QED BY <2>1, <2>3, <3>1, <3>2, <3>3 DEF TickOK
  <2>5. ChainOK' /\ DbOK' /\ WalkOK' /\ HistoryOK'
    BY <2>1 DEF ChainOK, DbOK, WalkOK, HistoryOK, Tip
  <2> QED BY <2>4, <2>5
<1>3. CASE StartAddress
  <2> DEFINE a == ScanOrder(tick.todo)
             lo == RangeStart(a)
             found == Payments(a, lo, Seam(db))
  <2>1. /\ tick.at = "scan" /\ UNCHANGED <<chain, walk, left>>
        /\ hdr' = StoredHeaders(HeightsOf(found)) /\ seen' = seen \cup found
        /\ tick' = [tick EXCEPT !.todo = @ \ {a}, !.addr = a,
                                !.lo = Larger(lo, Seam(db) + 1)]
    BY <1>3 DEF StartAddress
  <2>2. /\ a \in Addr /\ a \in tick.todo /\ db.rows[a].stored
        /\ lo \in 1 .. MaxHeight /\ Seam(db) + 1 = tick.start
    BY <1>3, StartAddressRange
  <2> HIDE DEF lo
  <2>3. /\ found \in SUBSET Notes
        /\ db' \in Db /\ RowsOK(db') /\ SameRest(db, db')
        /\ \A b \in Addr : SameRow(db.rows[b], db'.rows[b], {"used", "marker"})
    BY <1>3, StartAddressEffect DEF lo
  <2> HIDE DEF a, found
  <2>4. DbOK'
    BY <2>3 DEF DbOK, SameRest
  <2>5. HistoryOK'
    BY <2>1, <2>3, StoredHeadersType DEF HistoryOK
  <2>6. TickOK'
    <3>1. /\ Larger(lo, Seam(db) + 1) \in 0 .. (MaxHeight + 1)
          /\ tick.start <= Larger(lo, Seam(db) + 1)
      BY <2>2, Ranges DEF Larger, Height
    <3> DEFINE l == Larger(lo, Seam(db) + 1)
    <3> HIDE DEF l
    <3>2. tick' = [tick EXCEPT !.todo = @ \ {a}, !.addr = a, !.lo = l]
      BY <2>1 DEF l
    <3>3. /\ tick' \in TickType /\ tick'.at = "scan" /\ tick'.start = tick.start
          /\ tick'.end = tick.end /\ tick'.todo = tick.todo \ {a}
          /\ tick'.addr = a /\ tick'.lo = l /\ tick'.anchor = tick.anchor
      <4>1. tick \in TickType /\ tick.at = "scan"
        BY <2>1 DEF TickOK
      <4>2. l \in 0 .. (MaxHeight + 1)
        BY <3>1 DEF l
      <4>3. tick.todo \ {a} \in SUBSET Addr
        BY <4>1 DEF TickType
      <4>4. PICK t \in TickType, b \in Addr, u \in SUBSET Addr, n \in 0 .. (MaxHeight + 1) :
                t = tick /\ b = a /\ u = tick.todo \ {a} /\ n = l
        BY <2>2, <4>1, <4>2, <4>3
      <4>5. PICK v : v = [t EXCEPT !.todo = u, !.addr = b, !.lo = n]
        OBVIOUS
      <4>6. v \in TickType
        BY <4>5 DEF TickType
      <4>7. /\ v.at = t.at /\ v.start = t.start /\ v.end = t.end /\ v.anchor = t.anchor
            /\ v.todo = u /\ v.addr = b /\ v.lo = n
        BY <4>5 DEF TickType
      <4>8. tick' = v
        BY <3>2, <4>4, <4>5
      <4> QED BY <4>1, <4>4, <4>6, <4>7, <4>8
    <3>4. \A b \in Addr : db'.rows[b].stored = db.rows[b].stored
      BY <2>3 DEF SameRow
    <3>5. \A b \in tick.todo : b \in Addr /\ db.rows[b].stored
      BY <2>1 DEF TickOK, TickType
    <3>6. db'.hT = tick.start - 1 /\ db'.hS = tick.start - 1
          /\ tick.start <= tick.end /\ tick.anchor # NoHash
      BY <2>1, <2>3 DEF TickOK, SameRest
    <3> QED BY <2>2, <3>1, <3>3, <3>4, <3>5, <3>6 DEF TickOK, l
  <2>7. ChainOK' /\ WalkOK'
    BY <2>1 DEF ChainOK, WalkOK, Tip
  <2> QED BY <2>4, <2>5, <2>6, <2>7
<1>4. ASSUME NEW h \in Height, ScanWindow(h) \/ ScanWindowUndated(h)
      PROVE  Typed'
  <2> DEFINE found == Payments(tick.addr, tick.lo, h)
  <2>1. /\ tick.at = "scan" /\ UNCHANGED <<chain, walk>> /\ seen' = seen \cup found
        /\ hdr' = StoredHeaders(HeightsOf(found)) \/ hdr' = hdr
    BY <1>4 DEF ScanWindow, ScanWindowUndated
  <2>2. \/ tick' = tick
        \/ tick' = [tick EXCEPT !.lo = h + 1,
                                !.addr = IF h = tick.end THEN NoAddr ELSE @]
    BY <1>4 DEF ScanWindow, ScanWindowUndated
  <2>3. ChainOK'
    BY <1>4, <2>1, SpentOK DEF ScanWindow, ScanWindowUndated, Failing
  <2>4. /\ tick.addr \in Addr /\ db.rows[tick.addr].stored
        /\ tick.start <= tick.lo /\ tick.lo <= h /\ h <= tick.end
        /\ tick.lo \in Nat \ {0} /\ found \in SUBSET Notes
        /\ db' \in Db /\ RowsOK(db') /\ SameRest(db, db')
        /\ \A b \in Addr : SameRow(db.rows[b], db'.rows[b], {"used", "marker"})
    BY <1>4, ScanWindowEffect
  <2> HIDE DEF found
  <2>5. DbOK'
    BY <2>4 DEF DbOK, SameRest
  <2>6. HistoryOK'
    BY <2>1, <2>4, StoredHeadersType DEF HistoryOK
  <2>7. TickOK'
    <3>0. \A b \in Addr : db'.rows[b].stored = db.rows[b].stored
      BY <2>4 DEF SameRow
    <3>1. \A b \in tick.todo : b \in Addr /\ db.rows[b].stored
      BY <2>1 DEF TickOK, TickType
    <3>2. db'.hT = tick.start - 1 /\ db'.hS = tick.start - 1
          /\ tick.start <= tick.end /\ tick.anchor # NoHash
          /\ tick.addr \notin tick.todo /\ NoAddr \notin Addr
      BY <2>1, <2>4, SyncAssumption DEF TickOK, SameRest
    <3>3. /\ tick' \in TickType /\ tick'.at = "scan" /\ tick'.start = tick.start
          /\ tick'.end = tick.end /\ tick'.todo = tick.todo
          /\ tick'.addr \in {tick.addr, NoAddr} /\ tick'.anchor = tick.anchor
          /\ tick'.lo \in {tick.lo, h + 1}
      <4>1. h + 1 \in 0 .. (MaxHeight + 1)
        BY SyncAssumption DEF Height
      <4>2. CASE tick' = tick
        BY <2>1, <4>2 DEF TickOK
      <4>3. CASE tick' = [tick EXCEPT !.lo = h + 1,
                             !.addr = IF h = tick.end THEN NoAddr ELSE @]
        <5>1. (IF h = tick.end THEN NoAddr ELSE tick.addr) \in Addr \cup {NoAddr}
          BY <2>4
        <5> QED BY <2>1, <4>1, <4>3, <5>1 DEF TickOK, TickType
      <4> QED BY <2>2, <4>2, <4>3
    <3>4. tick.start <= tick'.lo
      <4>1. tick.start \in Nat
        BY DEF TickOK, TickType
      <4> QED BY <2>4, <3>3, <4>1 DEF Height
    <3> QED BY <2>4, <3>0, <3>1, <3>2, <3>3, <3>4 DEF TickOK
  <2>8. WalkOK'
    BY <2>1 DEF WalkOK
  <2> QED BY <2>3, <2>5, <2>6, <2>7, <2>8
<1> QED BY <1>1, <1>2, <1>3, <1>4

(* The second half of a tick, and its end.                                 *)
LEMMA TypedShielded ==
    ASSUME Typed,
           \/ ClosePass \/ MeetReorg \/ FailTick
           \/ \E h \in Height, w \in BOOLEAN : CommitChunk(h, w)
    PROVE  Typed'
<1> USE DEF Typed
<1>1. CASE ClosePass
  <2>1. /\ UNCHANGED <<chain, hdr, walk, seen, left>>
        /\ tick' = [Idle EXCEPT !.at = "shielded", !.start = tick.start,
                                !.end = tick.end, !.cur = tick.start - 1,
                                !.prev = hdr[tick.start - 1]]
    BY <1>1 DEF ClosePass
  <2>2. /\ db' \in Db /\ RowsOK(db') /\ db'.hT = tick.end /\ db'.hS = db.hS
        /\ db.hT = tick.start - 1 /\ db.hS = tick.start - 1
        /\ tick.start <= tick.end
    BY <1>1, ClosePassEffect
  <2>3. /\ tick.start \in 0 .. MaxHeight /\ tick.end \in 0 .. MaxHeight
        /\ tick.start - 1 \in Height
    <3>1. tick.start \in 0 .. MaxHeight /\ tick.end \in 0 .. MaxHeight
      BY DEF TickOK, TickType
    <3>2. db.hT \in Nat /\ db.hT >= 1
      BY DEF DbOK, Db
    <3> QED BY <2>2, <3>1, <3>2, SyncAssumption DEF Height
  <2>4. DbOK'
    BY <2>2, <2>3 DEF DbOK, Height
  <2>5. hdr[tick.start - 1] \in Hash
    BY <2>3 DEF HistoryOK
  <2>6. TickOK'
    <3>1. tick.start - 1 \in 0 .. MaxHeight
      BY <2>3, SyncAssumption DEF Height
    <3>2. /\ tick' \in TickType /\ tick'.at = "shielded" /\ tick'.end = tick.end
          /\ tick'.cur = tick.start - 1
      BY <2>1, <2>3, <2>5, <3>1, IdleTypes DEF TickType
    <3> QED BY <2>2, <2>3, <3>2 DEF TickOK
  <2>7. ChainOK' /\ WalkOK' /\ HistoryOK'
    BY <2>1 DEF ChainOK, WalkOK, HistoryOK, Tip
  <2> QED BY <2>4, <2>6, <2>7
<1>2. ASSUME NEW h \in Height, NEW w \in BOOLEAN, CommitChunk(h, w)
      PROVE  Typed'
  <2>1. /\ tick.at = "shielded" /\ UNCHANGED <<chain, walk, seen, left>>
        /\ hdr' = StoredHeaders({h})
        /\ tick' = IF h = tick.end THEN Idle
                   ELSE [tick EXCEPT !.cur = h, !.prev = HashAt(h)]
    BY <1>2 DEF CommitChunk
  <2>2. /\ db' \in Db /\ RowsOK(db') /\ db'.hT = db.hT /\ db'.hS = h
        /\ h <= tick.end
    BY <1>2, CommitChunkEffect
  <2>3. DbOK'
    BY <2>2 DEF DbOK, Height
  <2>4. HistoryOK'
    BY <2>1, StoredHeadersType DEF HistoryOK
  <2>5. TickOK'
    <3>1. CASE h = tick.end
      BY <2>1, <3>1, IdleTypes DEF TickOK
    <3>2. CASE h # tick.end
      <4>1. HashAt(h) \in Hash /\ h \in 0 .. MaxHeight
        BY HashAtType, SyncAssumption DEF Height
      <4>2. tick' = [tick EXCEPT !.cur = h, !.prev = HashAt(h)]
        BY <2>1, <3>2
      <4>3. /\ tick' \in TickType /\ tick'.at = "shielded" /\ tick'.end = tick.end
            /\ tick'.cur = h
        BY <2>1, <4>1, <4>2 DEF TickOK, TickType
      <4>4. db.hT = tick.end /\ tick.end \in Nat
        BY <2>1 DEF TickOK, TickType
      <4> QED BY <2>2, <3>2, <4>3, <4>4 DEF TickOK, Height
    <3> QED BY <3>1, <3>2
  <2>6. ChainOK' /\ WalkOK'
    BY <2>1 DEF ChainOK, WalkOK, Tip
  <2> QED BY <2>3, <2>4, <2>5, <2>6
<1>3. CASE MeetReorg
  <2>1. /\ UNCHANGED <<chain, walk, left>> /\ tick' = Idle
        /\ db' = RewoundSync(db, tick.cur) /\ seen' \subseteq seen
        /\ hdr' = [h \in Height |-> IF h > tick.cur THEN NoHash ELSE hdr[h]]
    BY <1>3 DEF MeetReorg, Remembered
  <2>2. db' \in Db /\ RowsOK(db') /\ db'.hT = db'.hS /\ db'.hT >= 1
    <3>1. tick.cur \in Nat
      BY DEF TickOK, TickType
    <3> QED BY <2>1, <3>1, RewoundRows DEF DbOK
  <2>3. DbOK'
    BY <2>2 DEF DbOK
  <2>4. HistoryOK'
    BY <2>1 DEF HistoryOK, Hash
  <2>5. ChainOK' /\ WalkOK' /\ TickOK'
    BY <2>1, IdleTypes DEF ChainOK, WalkOK, TickOK, Tip
  <2> QED BY <2>3, <2>4, <2>5
<1>4. CASE FailTick
  <2>1. tick' = Idle /\ UNCHANGED <<chain, db, hdr, walk, seen>>
    BY <1>4 DEF FailTick
  <2>2. ChainOK'
    BY <1>4, <2>1, SpentOK DEF FailTick, Failing
  <2> QED BY <2>1, <2>2, IdleTypes DEF DbOK, WalkOK, TickOK, HistoryOK
<1> QED BY <1>1, <1>2, <1>3, <1>4

(* A new address of the host.                                              *)
LEMMA HostAddressEffect ==
    ASSUME Typed, NEW op, NEW scope, HostAddress(op, scope),
           NEW a, a = <<scope, HighestStored(db, scope) + 1>>
    PROVE  /\ a \in Addr /\ db' \in Db /\ RowsOK(db')
           /\ SameRest(db, db') /\ db'.notes = db.notes
           /\ \A b \in Addr \ {a} : db'.rows[b] = db.rows[b]
           /\ IF db.rows[a].stored THEN db' = db
              ELSE db'.rows[a] = Row(Seam(db))
           /\ \A b \in Addr : db.rows[b].stored => db'.rows[b].stored
<1>1. a \in left.addrs /\ db' = StoredAddress(db, a)
  BY DEF HostAddress
<1>2. a \in Addr
  BY <1>1, Ranges DEF Budget
<1>3. /\ db' \in Db /\ SameRest(db, db') /\ db'.notes = db.notes
      /\ \A b \in Addr \ {a} : db'.rows[b] = db.rows[b]
      /\ IF db.rows[a].stored THEN db'.rows[a] = db.rows[a]
         ELSE db'.rows[a] = Row(Seam(db))
      /\ db'.rows[a].stored
  <2>1. db \in Db
    BY DEF Typed, DbOK
  <2>2. PICK d : d = StoredAddress(db, a)
    OBVIOUS
  <2>3. /\ d \in Db /\ SameRest(db, d) /\ d.notes = db.notes
        /\ \A b \in Addr \ {a} : d.rows[b] = db.rows[b]
        /\ IF db.rows[a].stored THEN d.rows[a] = db.rows[a]
           ELSE d.rows[a] = Row(Seam(db))
        /\ d.rows[a].stored
    BY <1>2, <2>1, <2>2, StoredAddressDb
  <2>4. db' = d
    BY <1>1, <2>2
  <2> QED BY <2>3, <2>4
<1>4. db.rows[a].stored => db' = db
  BY <1>1 DEF StoredAddress
<1>5. \A b \in Addr : db.rows[b].stored => db'.rows[b].stored
  BY <1>3
<1>6. RowsOK(db')
  <2>1. \A n \in db.notes : n.addr \in Addr
    BY DEF Typed, DbOK, Db, Notes
  <2>2. \A n \in db'.notes : db'.rows[n.addr].stored
    BY <1>3, <1>5, <2>1 DEF Typed, DbOK, RowsOK
  <2>3. ASSUME NEW b \in Addr, db'.rows[b].used \/ db'.rows[b].owed # 0
        PROVE  db'.rows[b].stored
    BY <1>3, <2>3 DEF Typed, DbOK, RowsOK
  <2> QED BY <2>2, <2>3 DEF RowsOK
<1> QED BY <1>2, <1>3, <1>4, <1>5, <1>6

(* The operations of the host.                                             *)
LEMMA TypedHost ==
    ASSUME Typed, HostStep
    PROVE  Typed'
<1> USE DEF Typed
<1>0. /\ ChainOK' /\ UNCHANGED <<chain, tick, walk>>
      /\ (\A op, scope : ~HostAddress(op, scope)) => Quiet
  <2>1. \E op \in {"rewind", "reset", "replace", "birth", "receive", "change"} :
           Host(op)
    BY DEF HostStep, HostRewind, HostReset, HostReplace, HostBirth, HostAddress
  <2>2. UNCHANGED <<chain, tick, walk>>
        /\ left.host > 0 /\ left' = [left EXCEPT !.host = @ - 1]
    BY <2>1 DEF Host
  <2>3. (\A op, scope : ~HostAddress(op, scope)) =>
            Host("rewind") \/ Host("reset") \/ Host("replace") \/ Host("birth")
    BY DEF HostStep, HostRewind, HostReset, HostReplace, HostBirth
  <2>4. (\A op, scope : ~HostAddress(op, scope)) => Quiet
    BY <2>3 DEF Host
  <2> QED BY <2>2, <2>4, SpentOK
<1>1. WalkOK'
  BY <1>0 DEF WalkOK
<1>2. Quiet => TickOK'
  BY <1>0 DEF Quiet, TickOK
<1>3. CASE \E h \in Height : HostRewind(h)
  <2>1. PICK h \in Height : HostRewind(h)
    BY <1>3
  <2>2. /\ db' = RewoundSync(db, h) /\ seen' \subseteq seen
        /\ hdr' = [k \in Height |-> IF k > h THEN NoHash ELSE hdr[k]]
        /\ Quiet
    BY <2>1 DEF HostRewind, Host, Remembered
  <2>3. db' \in Db /\ RowsOK(db') /\ db'.hT = db'.hS /\ db'.hT >= 1
    <3>1. h \in Nat
      BY DEF Height
    <3> QED BY <2>2, <3>1, RewoundRows DEF DbOK
  <2>4. DbOK' /\ HistoryOK'
    BY <2>2, <2>3 DEF DbOK, HistoryOK, Hash
  <2> QED BY <1>0, <1>1, <1>2, <2>2, <2>4
<1>4. CASE HostReset
  <2>1. db' = ResetSync(db) /\ hdr' = hdr /\ seen' = {} /\ Quiet
    BY <1>4 DEF HostReset, Host
  <2>2. db' \in Db /\ RowsOK(db') /\ db'.hT = db'.hS /\ db'.hT >= 1
    <3>1. 0 \in Nat
      OBVIOUS
    <3> QED BY <2>1, <3>1, RewoundRows DEF DbOK
  <2> QED BY <1>0, <1>1, <1>2, <2>1, <2>2 DEF DbOK, HistoryOK
<1>5. CASE HostReplace
  <2>1. db' = Restored(db.birth, db.inc + 1) /\ seen' = {} /\ hdr' = hdr /\ Quiet
    BY <1>5 DEF HostReplace, Host, Replaced
  <2>2. /\ db' \in Db /\ db'.hT = db.birth /\ db'.hS = db.birth /\ db'.notes = {}
        /\ \A b \in Addr : db'.rows[b].owed = 0 /\ ~db'.rows[b].used
    <3>1. db.birth \in 1 .. Birth /\ db.inc + 1 \in Nat
      BY DEF DbOK, Db
    <3> QED BY <2>1, <3>1, RestoredDb
  <2>3. DbOK'
    BY <2>2, Ranges DEF DbOK, RowsOK
  <2> QED BY <1>0, <1>1, <1>2, <2>1, <2>3 DEF HistoryOK
<1>6. CASE \E b \in Births : HostBirth(b)
  <2>1. PICK b \in Births : HostBirth(b)
    BY <1>6
  <2>2. db' = MovedBirth(db, b) /\ hdr' = hdr /\ seen' \subseteq seen /\ Quiet
    BY <2>1 DEF HostBirth, Host
  <2>3. /\ db' \in Db /\ db'.hT = db.hT /\ db'.hS = db.hS /\ db'.notes = db.notes
        /\ \A c \in Addr : SameRow(db.rows[c], db'.rows[c], {"marker", "since"})
    <3>1. b \in 1 .. Birth
      BY SyncAssumption
    <3> QED BY <2>2, <3>1, MovedBirthDb DEF DbOK
  <2>4. RowsOK(db')
    <3>1. \A n \in db.notes : n.addr \in Addr
      BY DEF DbOK, Db, Notes
    <3>2. \A c \in Addr : /\ db'.rows[c].stored = db.rows[c].stored
                          /\ db'.rows[c].used = db.rows[c].used
                          /\ db'.rows[c].owed = db.rows[c].owed
      BY <2>3 DEF SameRow
    <3>3. \A n \in db'.notes : db'.rows[n.addr].stored
      BY <2>3, <3>1, <3>2 DEF DbOK, RowsOK
    <3>4. ASSUME NEW c \in Addr, db'.rows[c].used \/ db'.rows[c].owed # 0
          PROVE  db'.rows[c].stored
      BY <3>2, <3>4 DEF DbOK, RowsOK
    <3> QED BY <3>3, <3>4 DEF RowsOK
  <2> QED BY <1>0, <1>1, <1>2, <2>2, <2>3, <2>4 DEF DbOK, HistoryOK
<1>7. CASE \E op \in {"receive", "change"}, scope \in {0, 1} : HostAddress(op, scope)
  <2>1. PICK op \in {"receive", "change"}, scope \in {0, 1} : HostAddress(op, scope)
    BY <1>7
  <2>2. UNCHANGED <<hdr, seen>>
    BY <2>1 DEF HostAddress
  <2>3. /\ db' \in Db /\ RowsOK(db') /\ SameRest(db, db')
        /\ \A b \in Addr : db.rows[b].stored => db'.rows[b].stored
    BY <2>1, HostAddressEffect
  <2>4. DbOK'
    BY <2>3 DEF DbOK, SameRest
  <2>5. TickOK'
    <3>1. tick' = tick /\ tick \in TickType /\ db'.hT = db.hT /\ db'.hS = db.hS
      BY <1>0, <2>3 DEF SameRest, TickOK
    <3>2. \A b \in tick.todo : db.rows[b].stored => db'.rows[b].stored
      BY <2>3, <3>1 DEF TickType
    <3>3. tick.addr # NoAddr /\ db.rows[tick.addr].stored
             => db'.rows[tick.addr].stored
      BY <2>3, <3>1 DEF TickType
    <3> QED BY <3>1, <3>2, <3>3 DEF TickOK
  <2> QED BY <1>0, <1>1, <2>2, <2>4, <2>5 DEF HistoryOK
<1> QED BY <1>3, <1>4, <1>5, <1>6, <1>7 DEF HostStep, ReceiveScope, ChangeScope

(* candidate_start: an index is walked from its marker, or the birthday.   *)
LEMMA PlanEffect ==
    ASSUME Typed, PlanCandidate
    PROVE  \E e \in Entry :
             /\ walk' \in WalkType /\ walk'.batch = Append(walk.batch, e)
             /\ walk'.at \in {"plan", "seam", "ingest", "certify"}
             /\ walk'.at = "plan" => <<walk'.scope, walk'.next>> \in Addr
             /\ walk'.at \in {"seam", "ingest"} => walk'.batch # << >>
             /\ walk'.inc = walk.inc /\ walk'.trim = walk.trim
             /\ walk'.from = walk.from /\ walk'.end = walk.end
             /\ walk'.covered = walk.covered
             /\ e.lo = Larger(db.rows[e.addr].marker + 1, db.birth)
             /\ e.mlo = e.lo /\ e.trim = Null /\ e.reply = NoReply
<1> DEFINE a == <<walk.scope, walk.next>>
           r == db.rows[a]
           lo == Larger(r.marker + 1, db.birth)
           skip == r.stored /\ r.marker >= Seam(db) /\ IsUsed(db, a)
           e == [addr |-> a, had |-> r.stored, lo |-> lo, mlo |-> lo,
                 trim |-> Null, used |-> FALSE, reply |-> NoReply, skip |-> skip]
           w == [walk EXCEPT !.next = @ + 1, !.batch = Append(@, e)]
<1>0. walk.at = "plan" /\ walk' = Planned(w)
  BY DEF PlanCandidate
<1>1. walk \in WalkType /\ a \in Addr /\ left \in Budget
  BY <1>0, Ranges DEF Typed, WalkOK
<1>2. r \in RowType /\ db.birth \in 1 .. Birth
  BY <1>1 DEF Typed, DbOK, Db
<1>3. lo \in 1 .. (MaxHeight + 1)
  BY <1>2, SyncAssumption DEF RowType, Larger, Null
<1>4. skip \in BOOLEAN /\ r.stored \in BOOLEAN
  BY <1>2 DEF RowType
<1>5. NoReply \in [seam : Int, found : SUBSET Notes] /\ Null \in Int
  BY DEF NoReply, Null
<1> HIDE DEF NoReply, Null, r, lo, skip, a
<1>6. /\ e \in Entry /\ e.lo = lo /\ e.mlo = lo /\ e.trim = Null
      /\ e.reply = NoReply /\ e.addr = a
  BY <1>1, <1>3, <1>4, <1>5 DEF Entry
<1> HIDE DEF e
<1>7. walk.batch \in Seq(Entry) /\ walk.next + 1 \in Nat
  BY <1>1 DEF WalkType
<1>8. Append(walk.batch, e) \in Seq(Entry)
  BY <1>6, <1>7, AppendProperties
<1> DEFINE b == Append(walk.batch, e)
<1>9. w = [walk EXCEPT !.next = @ + 1, !.batch = b] /\ b \in Seq(Entry)
  BY <1>8
<1> HIDE DEF w, b
<1>10. /\ w \in WalkType /\ w.batch = b /\ w.inc = walk.inc /\ w.trim = walk.trim
       /\ w.from = walk.from /\ w.end = walk.end /\ w.covered = walk.covered
  BY <1>1, <1>7, <1>9 DEF WalkType
<1>11. /\ walk' \in WalkType /\ walk'.batch = w.batch
       /\ walk'.at \in {"plan", "seam", "ingest", "certify"}
       /\ walk'.at = "plan" => <<walk'.scope, walk'.next>> \in Addr
       /\ walk'.at \in {"seam", "ingest"} => walk'.batch # << >>
       /\ walk'.inc = w.inc /\ walk'.trim = w.trim /\ walk'.from = w.from
       /\ walk'.end = w.end /\ walk'.covered = w.covered
  BY <1>0, <1>1, <1>10, PlannedWalk
<1>12. walk'.batch = Append(walk.batch, e)
  BY <1>10, <1>11 DEF b
<1>13. e.lo = Larger(db.rows[e.addr].marker + 1, db.birth)
  BY <1>6 DEF lo, r
<1> QED BY <1>6, <1>10, <1>11, <1>12, <1>13

\* What a prefetch leaves in entry e.
Fetched(e) ==
    IF Requested(walk, e)
    THEN {e, [e EXCEPT !.reply = [seam |-> walk.seam,
                                  found |-> Payments(e.addr, e.lo, walk.end)]]}
    ELSE {e}

(* A prefetch brings replies and nothing else.                             *)
LEMMA PrefetchEffect ==
    ASSUME Typed, NEW k, Prefetch(k)
    PROVE  /\ walk' \in WalkType /\ walk'.at = "ingest" /\ walk'.batch # << >>
           /\ walk'.inc = walk.inc /\ walk'.trim = walk.trim
           /\ walk'.from = walk.from /\ walk'.end = walk.end
           /\ walk'.covered = walk.covered
           /\ Len(walk'.batch) = Len(walk.batch)
           /\ \A i \in 1 .. Len(walk.batch) :
                 /\ walk.batch[i] \in Entry
                 /\ walk'.batch[i] \in Fetched(walk.batch[i])
                 /\ walk'.batch[i] \in Entry
                 /\ \A n \in walk'.batch[i].reply.found :
                       n.addr = walk.batch[i].addr
<1> DEFINE n == Len(walk.batch)
           got(i) == [walk.batch[i] EXCEPT !.reply =
                        [seam |-> walk.seam,
                         found |-> Payments(walk.batch[i].addr,
                                            walk.batch[i].lo, walk.end)]]
           b == [i \in 1 .. n |-> IF i <= k /\ Requested(walk, walk.batch[i])
                                  THEN got(i) ELSE walk.batch[i]]
           v == IF k = n THEN walk.width ELSE Larger(walk.width \div 2, 1)
<1>0. /\ walk.at = "fetch"
      /\ walk' = [walk EXCEPT !.at = "ingest", !.width = v, !.batch = b]
  BY DEF Prefetch
<1>1. walk \in WalkType /\ walk.batch # << >> /\ RepliesOK(walk.batch)
  BY <1>0 DEF Typed, WalkOK, RepliesOK
<1>2. walk.batch \in Seq(Entry) /\ n \in Nat /\ n # 0
  BY <1>1, EmptySeq, LenProperties DEF WalkType
<1>3. \A i \in 1 .. n : walk.batch[i] \in Entry
  BY <1>2, ElementOfSeq
<1>4. v \in Int
  BY <1>1 DEF WalkType, Larger
<1>5. ASSUME NEW i \in 1 .. n
      PROVE  /\ got(i) \in Entry
             /\ got(i).reply.found = Payments(walk.batch[i].addr, walk.batch[i].lo,
                                              walk.end)
             /\ \A m \in got(i).reply.found : m.addr = walk.batch[i].addr
  <2> DEFINE e == walk.batch[i]
             P == Payments(e.addr, e.lo, walk.end)
             re == [seam |-> walk.seam, found |-> P]
  <2>1. e \in Entry /\ walk.end \in Nat /\ walk.seam \in Int
    BY <1>1, <1>3 DEF WalkType
  <2>2. e.addr \in Addr /\ e.lo \in Nat \ {0}
    BY <2>1 DEF Entry
  <2> HIDE DEF e
  <2>3. P \subseteq Notes /\ \A m \in P : m.addr = e.addr
    BY <2>1, <2>2, PaymentsAre DEF Typed
  <2> HIDE DEF P
  <2>4. re \in [seam : Int, found : SUBSET Notes] /\ re.found = P
    BY <2>1, <2>3
  <2> HIDE DEF re
  <2>5. [e EXCEPT !.reply = re] \in Entry /\ [e EXCEPT !.reply = re].reply = re
    BY <2>1, <2>4 DEF Entry
  <2> QED BY <2>3, <2>4, <2>5 DEF e, re, P
<1>6. ASSUME NEW i \in 1 .. n
      PROVE  /\ b[i] \in Fetched(walk.batch[i]) /\ b[i] \in Entry
             /\ \A m \in b[i].reply.found : m.addr = walk.batch[i].addr
  <2>1. b[i] = IF i <= k /\ Requested(walk, walk.batch[i])
               THEN got(i) ELSE walk.batch[i]
    OBVIOUS
  <2>2. got(i) \in Entry /\ \A m \in got(i).reply.found : m.addr = walk.batch[i].addr
    BY <1>5
  <2>3. \A m \in walk.batch[i].reply.found : m.addr = walk.batch[i].addr
    BY <1>1 DEF RepliesOK
  <2>4. Requested(walk, walk.batch[i]) =>
           got(i) \in Fetched(walk.batch[i])
    BY DEF Fetched
  <2>5. walk.batch[i] \in Fetched(walk.batch[i])
    BY DEF Fetched
  <2> HIDE DEF b, got
  <2> QED BY <1>3, <2>1, <2>2, <2>3, <2>4, <2>5
<1>7. b \in Seq(Entry) /\ Len(b) = n
  <2>1. b \in [1 .. n -> Entry]
    BY <1>6
  <2> HIDE DEF b
  <2> QED BY <1>2, <2>1
<1> HIDE DEF b, v
<1>8. /\ walk' \in WalkType /\ walk'.at = "ingest" /\ walk'.batch = b
      /\ walk'.inc = walk.inc /\ walk'.trim = walk.trim
      /\ walk'.from = walk.from /\ walk'.end = walk.end
      /\ walk'.covered = walk.covered
  BY <1>0, <1>1, <1>4, <1>7 DEF WalkType
<1>9. b # << >>
  BY <1>2, <1>7, EmptySeq
<1> QED BY <1>3, <1>6, <1>7, <1>8, <1>9

(* A window of the walk belongs to an entry of the batch.                  *)
LEMMA WindowEntry ==
    ASSUME Typed, NEW hi \in Height, InWindow(hi)
    PROVE  /\ walk.at = "ingest" /\ Quiet /\ db.inc = walk.inc
           /\ First \in Entry /\ First.addr \in Addr
           /\ First.lo \in Nat \ {0} /\ First.mlo \in Nat \ {0}
           /\ First.lo <= hi /\ hi <= walk.end /\ hi \in Nat
           /\ hi = walk.end \/ (left.narrow /\ ~Replied)
<1>1. /\ walk.at = "ingest" /\ Quiet /\ db.inc = walk.inc
      /\ hi \in First.lo .. walk.end
      /\ hi = walk.end \/ (left.narrow /\ ~Replied)
  BY DEF InWindow, SameAccount
<1>2. First \in Entry
  BY <1>1, FirstEntry DEF Typed, WalkOK
<1> QED BY <1>1, <1>2 DEF Entry, Height

(* ingest_backfill_window: rows, and a marker when no trim intervened.     *)
LEMMA IngestEffect ==
    ASSUME Typed, NEW hi \in Height, IngestWindow(hi) \/ IngestUndated(hi),
           NEW a, a = First.addr,
           NEW m, m = IF db.rows[a].stored THEN db.rows[a].marker ELSE Null
    PROVE  /\ Answer(hi) \in SUBSET Notes /\ (\A n \in Answer(hi) : n.addr = a)
           /\ db' \in Db /\ RowsOK(db') /\ SameRest(db, db')
           /\ db'.notes = db.notes \cup {n \in Answer(hi) : n.height <= Seam(db)}
           /\ \A b \in Addr \ {a} : db'.rows[b] = db.rows[b]
           /\ db'.rows[a].stored
           /\ db'.rows[a].since = IF db.rows[a].stored THEN db.rows[a].since
                                  ELSE Seam(db)
           /\ db.rows[a].stored => db'.rows[a].owed >= db.rows[a].owed
           /\ \A n \in Answer(hi) : n.height > Seam(db) =>
                 db'.rows[a].owed >= n.height
           /\ \/ db'.rows[a].marker = m
              \/ /\ Intact /\ First.mlo <= Smaller(hi, Seam(db))
                 /\ First.mlo <= Larger(m + 1, db.birth)
                 /\ IngestWindow(hi) /\ m < Smaller(hi, Seam(db))
                 /\ db'.rows[a].marker = Smaller(hi, Seam(db))
<1> DEFINE r == IngestedRows(hi)
           t == Smaller(hi, Seam(db))
<1>0. walk.at = "ingest" /\ a \in Addr /\ First.mlo \in Int /\ hi \in Nat
  <2>1. InWindow(hi)
    BY DEF IngestWindow, IngestUndated
  <2> QED BY <2>1, WindowEntry
<1>1. /\ Answer(hi) \in SUBSET Notes
      /\ \A n \in Answer(hi) : n.addr = First.addr
      /\ r \in Db /\ RowsOK(r) /\ SameRest(db, r)
      /\ r.notes = db.notes \cup {n \in Answer(hi) : n.height <= Seam(db)}
      /\ \A b \in Addr \ {First.addr} : r.rows[b] = db.rows[b]
      /\ r.rows[First.addr].stored
      /\ IF db.rows[First.addr].stored
         THEN /\ r.rows[First.addr].marker = db.rows[First.addr].marker
              /\ r.rows[First.addr].since = db.rows[First.addr].since
              /\ r.rows[First.addr].owed >= db.rows[First.addr].owed
         ELSE /\ r.rows[First.addr].marker = Null
              /\ r.rows[First.addr].since = Seam(db)
      /\ \A n \in Answer(hi) : n.height > Seam(db) =>
            r.rows[First.addr].owed >= n.height
  BY <1>0, IngestedDb DEF Typed, DbOK
<1>2. /\ r.rows[a].marker = m /\ r.birth = db.birth
      /\ r.rows[a].since = IF db.rows[a].stored THEN db.rows[a].since ELSE Seam(db)
      /\ db.rows[a].stored => r.rows[a].owed >= db.rows[a].owed
      /\ \A n \in Answer(hi) : n.height > Seam(db) => r.rows[a].owed >= n.height
  BY <1>1 DEF SameRest
<1>3. \/ db' = r
      \/ /\ Intact /\ t >= First.mlo /\ IngestWindow(hi)
         /\ db' = AdvancedMarker(r, a, First.mlo, t)
  BY DEF IngestWindow, IngestUndated
<1>4. t \in 0 .. MaxHeight
  BY <1>0, Ranges, SyncAssumption DEF Smaller, Height
<1> HIDE DEF r, t
<1>5. CASE db' = r
  BY <1>1, <1>2, <1>5
<1>6. CASE /\ Intact /\ t >= First.mlo /\ IngestWindow(hi)
           /\ db' = AdvancedMarker(r, a, First.mlo, t)
  <2>1. /\ db' \in Db /\ SameRest(r, db') /\ db'.notes = r.notes
        /\ \A b \in Addr : SameRow(r.rows[b], db'.rows[b], {"marker"})
        /\ \A b \in Addr \ {a} : db'.rows[b] = r.rows[b]
        /\ db'.rows[a].marker =
             IF /\ First.mlo <= Larger(r.rows[a].marker + 1, r.birth)
                /\ r.rows[a].marker < t
             THEN t ELSE r.rows[a].marker
    BY <1>0, <1>1, <1>4, <1>6, AdvancedMarkerDb
  <2>2. \A b \in Addr : /\ db'.rows[b].stored = r.rows[b].stored
                        /\ db'.rows[b].since = r.rows[b].since
                        /\ db'.rows[b].owed = r.rows[b].owed
                        /\ db'.rows[b].used = r.rows[b].used
    BY <2>1 DEF SameRow
  <2>3. RowsOK(db')
    <3>1. \A n \in r.notes : n.addr \in Addr
      BY <1>1 DEF Db, Notes
    <3>2. \A n \in db'.notes : db'.rows[n.addr].stored
      BY <1>1, <2>1, <2>2, <3>1 DEF RowsOK
    <3>3. ASSUME NEW b \in Addr, db'.rows[b].used \/ db'.rows[b].owed # 0
          PROVE  db'.rows[b].stored
      BY <1>1, <2>2, <3>3 DEF RowsOK
    <3> QED BY <3>2, <3>3 DEF RowsOK
  <2>4. SameRest(db, db')
    BY <1>1, <2>1 DEF SameRest
  <2>5. First.mlo <= t
    BY <1>0, <1>4, <1>6
  <2>6. \/ db'.rows[a].marker = m
        \/ /\ First.mlo <= Larger(m + 1, db.birth) /\ m < t
           /\ db'.rows[a].marker = t
    BY <1>2, <2>1
  <2>7. \A b \in Addr \ {a} : db'.rows[b] = db.rows[b]
    BY <1>1, <2>1
  <2>8. /\ db'.rows[a].stored
        /\ db'.rows[a].since = IF db.rows[a].stored THEN db.rows[a].since
                               ELSE Seam(db)
        /\ db.rows[a].stored => db'.rows[a].owed >= db.rows[a].owed
        /\ \A n \in Answer(hi) : n.height > Seam(db) =>
                 db'.rows[a].owed >= n.height
    BY <1>0, <1>1, <1>2, <2>2
  <2>9. db'.notes = db.notes \cup {n \in Answer(hi) : n.height <= Seam(db)}
    BY <1>1, <2>1
  <2>10. Answer(hi) \in SUBSET Notes /\ \A n \in Answer(hi) : n.addr = a
    BY <1>1
  <2> HIDE DEF Answer, Intact, IngestWindow, SameRest, RowsOK
  <2> QED BY <1>6, <2>1, <2>3, <2>4, <2>5, <2>6, <2>7, <2>8, <2>9, <2>10 DEF t
<1> QED BY <1>3, <1>5, <1>6

\* Where a window leaves the walk: past its first entry, at the next window of
\* the same one, or at the same window again.
WindowMove(hi) ==
    \/ walk' \in Passings
    \/ /\ hi # walk.end /\ IngestWindow(hi) /\ Intact
       /\ walk' \in Steppings(hi + 1, hi + 1)
    \/ /\ hi # walk.end /\ IngestWindow(hi) /\ ~Intact
       /\ walk' \in Steppings(hi + 1, First.mlo)
    \/ /\ hi # walk.end /\ ProbeWindow(hi)
       /\ walk' \in Steppings(hi + 1, First.mlo)
    \/ IngestUndated(hi) /\ walk' \in Steppings(First.lo, First.mlo)

(* The walk after a window.                                                *)
LEMMA WindowWalk ==
    ASSUME Typed, NEW hi \in Height,
           ProbeWindow(hi) \/ IngestWindow(hi) \/ IngestUndated(hi)
    PROVE  /\ WindowMove(hi) /\ InWindow(hi)
           /\ walk' \in WalkType
           /\ walk'.at \in {"plan", "seam", "ingest", "certify"}
           /\ walk'.at = "plan" => <<walk'.scope, walk'.next>> \in Addr
           /\ walk'.at \in {"seam", "ingest"} => walk'.batch # << >>
           /\ RepliesOK(walk'.batch)
           /\ walk'.inc = walk.inc /\ walk'.end = walk.end
<1>0. InWindow(hi)
  BY DEF ProbeWindow, IngestWindow, IngestUndated
<1>1. /\ walk.at = "ingest" /\ First \in Entry /\ hi + 1 \in 1 .. (MaxHeight + 1)
      /\ First.lo \in 1 .. (MaxHeight + 1) /\ First.mlo \in 1 .. (MaxHeight + 1)
  BY <1>0, WindowEntry, SyncAssumption DEF Entry, Height
<1>2. First.used \in BOOLEAN
  BY <1>1 DEF Entry
<1>a. \A row \in BOOLEAN, used \in BOOLEAN : Passed(row, used) \in Passings
  BY DEF Passings
<1>3. ASSUME ProbeWindow(hi)
      PROVE  WindowMove(hi)
  <2>1. Passed(FALSE, First.used) \in Passings
    BY <1>2, <1>a, Zenon
  <2>2. Stepped(hi + 1, First.mlo, First.used) \in Steppings(hi + 1, First.mlo)
    BY <1>2, Zenon DEF Steppings
  <2>3. walk' = IF hi = walk.end THEN Passed(FALSE, First.used)
                ELSE Stepped(hi + 1, First.mlo, First.used)
    BY <1>3 DEF ProbeWindow
  <2> QED BY <1>3, <2>1, <2>2, <2>3, Zenon DEF WindowMove
<1>4. ASSUME IngestWindow(hi)
      PROVE  WindowMove(hi)
  <2> DEFINE u == First.used \/ Answer(hi) # {}
  <2>1. Passed(TRUE, TRUE) \in Passings
    BY <1>a, Zenon
  <2>2. u \in BOOLEAN
    BY <1>2
  <2>3. walk' = IF hi = walk.end THEN Passed(TRUE, TRUE)
                ELSE Stepped(hi + 1, IF Intact THEN hi + 1 ELSE First.mlo, u)
    BY <1>4 DEF IngestWindow
  <2> HIDE DEF u
  <2>4. \A l : Stepped(hi + 1, l, u) \in Steppings(hi + 1, l)
    BY <2>2, Zenon DEF Steppings
  <2>5. CASE hi = walk.end
    BY <2>1, <2>3, <2>5, Zenon DEF WindowMove
  <2>6. CASE hi # walk.end /\ Intact
    <3>1. walk' = Stepped(hi + 1, hi + 1, u)
      BY <2>3, <2>6, Zenon
    <3> QED BY <1>4, <2>4, <2>6, <3>1, Zenon DEF WindowMove
  <2>7. CASE hi # walk.end /\ ~Intact
    <3>1. walk' = Stepped(hi + 1, First.mlo, u)
      BY <2>3, <2>7, Zenon
    <3> QED BY <1>4, <2>4, <2>7, <3>1, Zenon DEF WindowMove
  <2> QED BY <2>5, <2>6, <2>7
<1>5. ASSUME IngestUndated(hi)
      PROVE  WindowMove(hi)
  <2>1. walk' = Stepped(First.lo, First.mlo, TRUE)
    BY <1>5 DEF IngestUndated
  <2>2. Stepped(First.lo, First.mlo, TRUE) \in Steppings(First.lo, First.mlo)
    BY Zenon DEF Steppings
  <2> QED BY <1>5, <2>1, <2>2, Zenon DEF WindowMove
<1>6. WindowMove(hi)
  BY <1>3, <1>4, <1>5
<1>7. WalkOK /\ db \in Db /\ left \in Budget
  BY Ranges DEF Typed, DbOK
<1>8. CASE walk' \in Passings
  <2>1. /\ walk' \in WalkType
        /\ walk'.at \in {"plan", "seam", "ingest", "certify"}
        /\ walk'.at = "plan" => <<walk'.scope, walk'.next>> \in Addr
        /\ walk'.at \in {"seam", "ingest"} => walk'.batch # << >>
        /\ RepliesOK(walk'.batch)
        /\ walk'.inc = walk.inc /\ walk'.end = walk.end
    BY <1>1, <1>7, <1>8, PassedWalk
  <2> QED BY <1>0, <1>6, <2>1
<1>9. CASE walk' \notin Passings
  <2>1. \E lo \in 1 .. (MaxHeight + 1), mlo \in 1 .. (MaxHeight + 1) :
           walk' \in Steppings(lo, mlo)
    BY <1>1, <1>6, <1>9 DEF WindowMove
  <2>2. PICK lo \in 1 .. (MaxHeight + 1), mlo \in 1 .. (MaxHeight + 1) :
           walk' \in Steppings(lo, mlo)
    BY <2>1
  <2>3. /\ walk' \in WalkType /\ walk'.at = "ingest" /\ RepliesOK(walk'.batch)
        /\ walk'.inc = walk.inc /\ walk'.end = walk.end /\ walk'.batch # << >>
    BY <1>1, <1>7, <2>2, SteppedWalk
  <2> QED BY <1>0, <1>6, <2>3
<1> QED BY <1>8, <1>9

(* The steps of the walk.                                                  *)
LEMMA TypedWalk ==
    ASSUME Typed, Walk
    PROVE  Typed'
<1> USE DEF Typed
<1>0. ASSUME NEW k, Prefetch(k)
      PROVE  Typed'
  <2>1. UNCHANGED <<chain, db, hdr, tick, seen, left>>
    BY <1>0 DEF Prefetch
  <2>2. /\ walk' \in WalkType /\ walk'.at = "ingest" /\ walk'.batch # << >>
        /\ Len(walk'.batch) = Len(walk.batch)
        /\ \A i \in 1 .. Len(walk.batch) :
              /\ walk'.batch[i] \in Fetched(walk.batch[i])
              /\ \A n \in walk'.batch[i].reply.found : n.addr = walk.batch[i].addr
              /\ walk.batch[i] \in Entry
    BY <1>0, PrefetchEffect
  <2>3. ASSUME NEW i \in 1 .. Len(walk.batch)
        PROVE  walk'.batch[i].addr = walk.batch[i].addr
    <3>1. walk'.batch[i] \in Fetched(walk.batch[i]) /\ walk.batch[i] \in Entry
      BY <2>2
    <3> QED BY <3>1 DEF Fetched, Entry
  <2>4. WalkOK'
    BY <2>2, <2>3 DEF WalkOK
  <2> QED BY <2>1, <2>4 DEF ChainOK, DbOK, TickOK, HistoryOK, Tip
<1>1. CASE StartWalk
  <2> DEFINE s == <<HighestStored(db, 0), HighestStored(db, 1)>>
  <2>1. /\ UNCHANGED <<chain, db, hdr, tick, seen>>
        /\ walk' = [NoWalk EXCEPT
              !.at = "plan", !.inc = db.inc, !.trim = db.trims,
              !.from = Seam(db), !.end = Tip, !.width = Width, !.stored = s]
    BY <1>1 DEF StartWalk
  <2>2. ChainOK'
    BY <1>1, <2>1, SpentOK DEF StartWalk
  <2>3. s \in Seq(Int)
    BY HighestStoredType DEF DbOK
  <2> HIDE DEF s
  <2>4. /\ db.inc \in Nat /\ db.trims \in Nat /\ Seam(db) \in Nat
        /\ Tip \in 0 .. MaxHeight /\ Width \in Int
    BY Ranges, SyncAssumption DEF DbOK, Db, Height
  <2>5. NoWalk.scope = 0 /\ NoWalk.next = 0
    BY DEF NoWalk
  <2>6. /\ walk' \in WalkType /\ walk'.at = "plan" /\ walk'.batch = << >>
        /\ walk'.scope = 0 /\ walk'.next = 0
    BY <2>1, <2>3, <2>4, <2>5, IdleTypes DEF WalkType
  <2>7. WalkOK'
    BY <2>6, StoreAssumption DEF WalkOK
  <2> QED BY <2>1, <2>2, <2>7 DEF DbOK, TickOK, HistoryOK
<1>2. CASE PlanCandidate
  <2>1. UNCHANGED <<chain, db, hdr, tick, seen, left>>
    BY <1>2 DEF PlanCandidate
  <2>2. PICK e \in Entry :
          /\ walk' \in WalkType /\ walk'.batch = Append(walk.batch, e)
          /\ walk'.at \in {"plan", "seam", "ingest", "certify"}
          /\ walk'.at = "plan" => <<walk'.scope, walk'.next>> \in Addr
          /\ walk'.at \in {"seam", "ingest"} => walk'.batch # << >>
          /\ e.reply = NoReply
    BY <1>2, PlanEffect
  <2>3. walk.batch \in Seq(Entry) /\ NoReply.found = {}
    BY DEF WalkOK, WalkType, NoReply
  <2>4. /\ Len(walk'.batch) = Len(walk.batch) + 1
        /\ \A i \in 1 .. Len(walk.batch) : walk'.batch[i] = walk.batch[i]
        /\ walk'.batch[Len(walk.batch) + 1] = e
    BY <2>2, <2>3, AppendProperties
  <2>5. \A i \in 1 .. Len(walk'.batch) :
          \A n \in walk'.batch[i].reply.found : n.addr = walk'.batch[i].addr
    <3> SUFFICES ASSUME NEW i \in 1 .. Len(walk'.batch),
                        NEW n \in walk'.batch[i].reply.found
                 PROVE  n.addr = walk'.batch[i].addr
      OBVIOUS
    <3>1. Len(walk.batch) \in Nat
      BY <2>3, LenProperties
    <3>2. i \in 1 .. Len(walk.batch) \/ i = Len(walk.batch) + 1
      BY <2>4, <3>1
    <3> QED BY <2>2, <2>3, <2>4, <3>2 DEF WalkOK
  <2>6. WalkOK'
    BY <2>2, <2>5 DEF WalkOK
  <2> QED BY <2>1, <2>6 DEF ChainOK, DbOK, TickOK, HistoryOK, Tip
<1>3. CASE ReadBatchSeam
  <2>1. /\ UNCHANGED <<chain, db, hdr, tick, seen, left>>
        /\ walk.at = "seam" /\ walk' = [walk EXCEPT !.at = "fetch", !.seam = Seam(db)]
    BY <1>3 DEF ReadBatchSeam
  <2>2. Seam(db) \in Int
    BY Ranges DEF Height
  <2>3. walk' \in WalkType /\ walk'.at = "fetch" /\ walk'.batch = walk.batch
    BY <2>1, <2>2 DEF WalkOK, WalkType
  <2>4. WalkOK'
    BY <2>1, <2>3 DEF WalkOK
  <2> QED BY <2>1, <2>4 DEF ChainOK, DbOK, TickOK, HistoryOK, Tip
<1>4. CASE SkipCandidate
  <2> DEFINE e == Head(walk.batch)
  <2>1. /\ UNCHANGED <<chain, db, hdr, tick, seen, left>>
        /\ walk.at = "ingest" /\ walk' = Passed(e.skip \/ e.had, FALSE)
    BY <1>4 DEF SkipCandidate
  <2>2. \A row \in BOOLEAN, used \in BOOLEAN : Passed(row, used) \in Passings
    BY DEF Passings
  <2>3. walk' \in Passings
    <3>1. (e.skip \/ e.had) \in BOOLEAN
      OBVIOUS
    <3> QED BY <2>1, <2>2, <3>1, Zenon
  <2>4. /\ walk' \in WalkType
        /\ walk'.at \in {"plan", "seam", "ingest", "certify"}
        /\ walk'.at = "plan" => <<walk'.scope, walk'.next>> \in Addr
        /\ walk'.at \in {"seam", "ingest"} => walk'.batch # << >>
        /\ RepliesOK(walk'.batch)
    BY <2>1, <2>3, PassedWalk, Ranges
  <2>5. WalkOK'
    BY <2>4 DEF WalkOK, RepliesOK
  <2> QED BY <2>1, <2>5 DEF ChainOK, DbOK, TickOK, HistoryOK, Tip
<1>5. ASSUME NEW h \in Height, ProbeWindow(h) \/ IngestWindow(h) \/ IngestUndated(h)
      PROVE  Typed'
  <2>1. /\ walk' \in WalkType /\ InWindow(h)
        /\ walk'.at \in {"plan", "seam", "ingest", "certify"}
        /\ walk'.at = "plan" => <<walk'.scope, walk'.next>> \in Addr
        /\ walk'.at \in {"seam", "ingest"} => walk'.batch # << >>
        /\ RepliesOK(walk'.batch)
    BY <1>5, WindowWalk
  <2>2. WalkOK'
    BY <2>1 DEF WalkOK, RepliesOK
  <2>3. chain' = chain /\ tick' = tick /\ tick.at = "idle"
    BY <1>5, <2>1 DEF InWindow, Quiet, ProbeWindow, IngestWindow, IngestUndated
  <2>4. ChainOK'
    BY <1>5, <2>3, SpentOK DEF ProbeWindow, IngestWindow, IngestUndated, Failing
  <2>5. TickOK'
    BY <2>3 DEF TickOK
  <2>6. CASE ProbeWindow(h)
    <3>1. UNCHANGED <<db, hdr, seen>>
      BY <2>6 DEF ProbeWindow
    <3> QED BY <2>2, <2>4, <2>5, <3>1 DEF DbOK, HistoryOK
  <2>7. CASE ~ProbeWindow(h)
    <3>1. IngestWindow(h) \/ IngestUndated(h)
      BY <1>5, <2>7
    <3> DEFINE H == HeightsOf({n \in Answer(h) : n.height <= Smaller(h, Seam(db))})
    <3>2. seen' = seen \cup Answer(h) /\ (hdr' = StoredHeaders(H) \/ hdr' = hdr)
      BY <3>1 DEF IngestWindow, IngestUndated
    <3> HIDE DEF H
    <3>3. /\ Answer(h) \in SUBSET Notes
          /\ db' \in Db /\ RowsOK(db') /\ SameRest(db, db')
      BY <3>1, IngestEffect
    <3>4. DbOK'
      BY <3>3 DEF DbOK, SameRest
    <3>5. HistoryOK'
      BY <3>2, <3>3, StoredHeadersType DEF HistoryOK
    <3> QED BY <2>2, <2>4, <2>5, <3>4, <3>5
  <2> QED BY <2>6, <2>7
<1>6. CASE Certify
  <2>1. /\ UNCHANGED <<chain, hdr, tick, seen, left>> /\ walk' = NoWalk
        /\ tick.at = "idle" /\ db' = WrittenCoverage(db, GapLimit, walk.from)
    BY <1>6 DEF Certify, Quiet
  <2>2. /\ db' \in Db /\ db'.rows = db.rows /\ db'.notes = db.notes
        /\ db'.hT = db.hT /\ db'.hS = db.hS
    <3>1. walk.from \in Nat /\ GapLimit \in Nat /\ db \in Db
      BY SyncAssumption DEF WalkOK, WalkType, DbOK
    <3>2. db' = WrittenCoverage(db, GapLimit, walk.from)
      BY <2>1
    <3>3. db' \in Db
      BY <3>1, <3>2, CoverageDb
    <3>4. db'.rows = db.rows /\ db'.notes = db.notes /\ db'.hT = db.hT /\ db'.hS = db.hS
      BY <3>1, <3>2 DEF WrittenCoverage, Db
    <3> QED BY <3>3, <3>4
  <2>3. DbOK'
    BY <2>2 DEF DbOK, RowsOK
  <2>4. WalkOK' /\ TickOK' /\ ChainOK' /\ HistoryOK'
    BY <2>1, IdleTypes DEF WalkOK, TickOK, ChainOK, HistoryOK, Tip
  <2> QED BY <2>3, <2>4
<1>7. CASE FailWalk
  <2>1. UNCHANGED <<chain, db, hdr, tick, seen>> /\ walk' = NoWalk
    BY <1>7 DEF FailWalk
  <2>2. ChainOK'
    BY <1>7, <2>1, SpentOK DEF FailWalk, Failing
  <2> QED BY <2>1, <2>2, IdleTypes DEF WalkOK, TickOK, DbOK, HistoryOK
<1> QED BY <1>0, <1>1, <1>2, <1>3, <1>4, <1>5, <1>6, <1>7 DEF Walk

(* An account just restored on a chain that reaches its birthday.          *)
LEMMA InitTyped ==
    ASSUME Init PROVE Typed
<1>1. left \in Budget /\ left.forks \in Forks
  <2>1. left \in Budgets /\ left \in Budget
    BY SyncAssumption DEF Init
  <2>2. left.forks \in Nat
    BY <2>1 DEF Budget
  <2>3. left.forks \in 0 .. left.forks
    BY <2>2
  <2> QED BY <2>1, <2>3 DEF Forks
<1>2. chain \in [1 .. Birth -> Block] /\ \A h \in 1 .. Birth : chain[h].fork = left.forks
  <2>1. chain \in [1 .. Birth -> [fork : {left.forks}, pays : left.payees \cup {NoAddr}]]
    BY DEF Init
  <2>2. [fork : {left.forks}, pays : left.payees \cup {NoAddr}] \subseteq Block
    BY <1>1 DEF Block, Budget
  <2> QED BY <2>1, <2>2
<1>3. chain \in Seq(Block) /\ Tip = Birth
  BY <1>2, SyncAssumption DEF Tip
<1>4. ChainOK
  <2>1. left.forks \in Nat
    BY <1>1 DEF Budget
  <2> QED BY <1>1, <1>2, <1>3, <2>1, SyncAssumption DEF ChainOK
<1>5. /\ db \in Db /\ db.hT = Birth /\ db.hS = Birth /\ db.notes = {}
      /\ \A b \in Addr : db.rows[b].owed = 0 /\ ~db.rows[b].used
  <2>1. db = Restored(Birth, 0) /\ Birth \in 1 .. Birth /\ 0 \in Nat
    BY SyncAssumption DEF Init
  <2> QED BY <2>1, RestoredDb
<1>6. DbOK
  BY <1>5, SyncAssumption DEF DbOK, RowsOK
<1>7. TickOK /\ WalkOK
  BY IdleTypes DEF Init, TickOK, WalkOK
<1>8. HistoryOK
  BY DEF Init, HistoryOK, Hash
<1> QED BY <1>4, <1>6, <1>7, <1>8 DEF Typed

(* The inductive type invariant holds in every behaviour: ticks, walks and *)
(* host operations interleaved over a forking chain keep the rows, the     *)
(* tick and the walk consistent with each other.                           *)
THEOREM SpecTyped == Spec => []Typed
<1>1. Init => Typed
  BY InitTyped
<1>2. Typed /\ [Next]_vars => Typed'
  <2> SUFFICES ASSUME Typed, [Next]_vars PROVE Typed'
    OBVIOUS
  <2>1. CASE Next
    BY <2>1, TypedChain, TypedScan, TypedShielded, TypedWalk, TypedHost
       DEF Next, Tick
  <2>2. CASE UNCHANGED vars
    BY <2>2 DEF vars, Typed, ChainOK, DbOK, TickOK, WalkOK, HistoryOK, Tip
  <2> QED BY <2>1, <2>2
<1> QED BY <1>1, <1>2, PTL DEF Spec

(* TypeOK for every instance: notes, use and catch-up debts always belong  *)
(* to stored addresses (write_transparent_window, raise_catch_up_debt).    *)
THEOREM Types == Spec => []TypeOK
<1>1. Typed => TypeOK
  <2> SUFFICES ASSUME Typed PROVE TypeOK
    OBVIOUS
  <2> USE DEF Typed
  <2>1. chain \in Seq([fork : Forks, pays : Addr \cup {NoAddr}]) /\ Tip <= MaxHeight
    BY DEF ChainOK, Block
  <2>2. /\ {db.hT, db.hS} \subseteq Height
        /\ db.wit \subseteq Height /\ db.notes \subseteq Notes
        /\ db.trims \in Nat /\ db.inc \in Nat
    BY DEF DbOK, Db, Height
  <2>3. ASSUME NEW a \in Addr
        PROVE  /\ db.rows[a].marker \in Null .. MaxHeight
               /\ db.rows[a].owed \in 0 .. MaxHeight
               /\ IsUsed(db, a) \/ db.rows[a].owed # 0 => db.rows[a].stored
    <3>1. db.rows[a] \in RowType
      BY DEF DbOK, Db
    <3>2. IsUsed(db, a) => db.rows[a].stored
      BY DEF IsUsed, DbOK, RowsOK
    <3>3. db.rows[a].owed # 0 => db.rows[a].stored
      BY DEF DbOK, RowsOK
    <3> QED BY <3>1, <3>2, <3>3 DEF RowType
  <2>4. hdr \in [Height -> {NoHash} \cup Forks] /\ seen \subseteq Notes
    BY DEF HistoryOK, Hash
  <2> QED BY <2>1, <2>2, <2>3, <2>4 DEF TypeOK
<1> QED BY <1>1, SpecTyped, PTL

-----------------------------------------------------------------------------
(* The pool and the rows.                                                  *)

\* A receive address with a marker, the rows the pool may not pass.
MarkedReceive(a) ==
    db.rows[a].stored /\ a[1] = ReceiveScope /\ db.rows[a].marker # Null

\* A tick begins with every receive address to do; the row of the address
\* being scanned joins the next window, and the rows it is done with are
\* marked through its end.
PoolOK ==
    \A a \in Addr :
        /\ tick.at = "open" /\ db.rows[a].stored /\ a[1] = ReceiveScope
              => a \in tick.todo
        /\ tick.at = "scan" /\ MarkedReceive(a) /\ a \notin tick.todo =>
              IF a = tick.addr
              THEN tick.lo <= Larger(db.rows[a].marker + 1, db.birth)
              ELSE db.rows[a].marker >= tick.end
        /\ tick.at = "shielded" /\ MarkedReceive(a)
              => db.rows[a].marker >= tick.end

(* With the tick idle there is nothing to keep.                            *)
LEMMA PoolIdle ==
    ASSUME tick'.at = "idle" PROVE PoolOK'
BY DEF PoolOK

(* The scan advances the row it is at.                                     *)
LEMMA PoolScan ==
    ASSUME Typed, PoolOK,
           \/ StartTick \/ OpenAnchor \/ StartAddress
           \/ \E h \in Height : ScanWindow(h) \/ ScanWindowUndated(h)
    PROVE  PoolOK'
<1> USE DEF Typed
<1>1. CASE StartTick
  <2>1. CASE Seam(db') >= Tip
    BY <1>1, <2>1, PoolIdle, IdleTypes DEF StartTick
  <2>2. CASE ~(Seam(db') >= Tip)
    <3>1. tick'.at = "open" /\ tick'.todo = ScanSet(db')
      BY <1>1, <2>2, IdleTypes DEF StartTick, TickType
    <3>2. \A a \in Addr : db'.rows[a].stored /\ a[1] = ReceiveScope
                             => a \in ScanSet(db')
      BY DEF ScanSet, Stored
    <3> QED BY <3>1, <3>2 DEF PoolOK
  <2> QED BY <2>1, <2>2
<1>2. CASE OpenAnchor
  <2>1. tick.at = "open" /\ db' = db
        /\ tick' = [tick EXCEPT !.at = "scan", !.anchor = HashAt(tick.end)]
    BY <1>2 DEF OpenAnchor
  <2>2. tick'.at = "scan" /\ tick'.todo = tick.todo
    BY <2>1 DEF TickOK, TickType
  <2> QED BY <2>1, <2>2 DEF PoolOK, MarkedReceive
<1>3. CASE StartAddress
  <2> DEFINE a == ScanOrder(tick.todo)
             lo == RangeStart(a)
             s == Seam(db)
             l == Larger(lo, s + 1)
  <2>1. tick.at = "scan" /\ tick.addr = NoAddr
        /\ tick' = [tick EXCEPT !.todo = @ \ {a}, !.addr = a, !.lo = l]
    BY <1>3 DEF StartAddress
  <2>2. /\ a \in Addr /\ a \in tick.todo
        /\ lo \in 1 .. MaxHeight /\ s + 1 = tick.start
        /\ IF db.rows[a].marker = Null THEN lo >= tick.start
           ELSE lo <= Larger(db.birth, db.rows[a].marker + 1)
    BY <1>3, StartAddressRange
  <2> HIDE DEF lo
  <2>3. /\ db' \in Db /\ SameRest(db, db')
        /\ IF lo <= s
           THEN db'.rows[a].marker =
                  IF /\ lo <= Larger(db.rows[a].marker + 1, db.birth)
                     /\ db.rows[a].marker < s
                  THEN s ELSE db.rows[a].marker
           ELSE db' = db
        /\ \A b \in Addr \ {a} : db'.rows[b] = db.rows[b]
    BY <1>3, StartAddressEffect DEF lo
  <2> HIDE DEF a
  <2>4. /\ tick'.at = "scan" /\ tick'.todo = tick.todo \ {a} /\ tick'.addr = a
        /\ tick'.lo = l /\ tick'.end = tick.end
    <3> HIDE DEF l
    <3> QED BY <2>1 DEF TickOK, TickType
  <2>5. db'.birth = db.birth
    BY <2>3 DEF SameRest
  <2>6. ASSUME NEW b \in Addr, b # a, MarkedReceive(b)', b \notin tick'.todo
        PROVE  db'.rows[b].marker >= tick'.end
    <3>1. db'.rows[b] = db.rows[b] /\ MarkedReceive(b) /\ b \notin tick.todo
      BY <2>3, <2>4, <2>6 DEF MarkedReceive
    <3>2. b # tick.addr
      BY <2>1, SyncAssumption
    <3> QED BY <2>1, <2>4, <3>1, <3>2 DEF PoolOK
  <2>7. ASSUME db'.rows[a].marker # Null
        PROVE  l <= Larger(db'.rows[a].marker + 1, db'.birth)
    <3> DEFINE m == db.rows[a].marker
    <3>1. m \in Null .. MaxHeight /\ db.birth \in 1 .. Birth /\ s \in Height
      BY <2>2, Ranges DEF DbOK, Db, RowType
    <3>2. tick.start \in Nat /\ MaxHeight \in Nat
      BY SyncAssumption DEF TickOK, TickType
    <3>3. CASE lo <= s
      <4>1. m # Null
        BY <2>2, <3>1, <3>2, <3>3 DEF Height
      <4> QED BY <2>2, <2>3, <2>5, <2>7, <3>1, <3>2, <3>3, <4>1
              DEF Larger, Height, Null
    <3>4. CASE ~(lo <= s)
      BY <2>2, <2>3, <2>7, <3>1, <3>2, <3>4 DEF Larger, Height, Null
    <3> QED BY <3>3, <3>4
  <2>8. a \notin tick'.todo
    BY <2>4
  <2> HIDE DEF l
  <2> QED BY <2>4, <2>6, <2>7 DEF PoolOK, MarkedReceive
<1>4. ASSUME NEW h \in Height, ScanWindow(h) \/ ScanWindowUndated(h)
      PROVE  PoolOK'
  <2>0. PICK a : a = tick.addr
    OBVIOUS
  <2> DEFINE m == db.rows[a].marker
  <2>1. /\ a \in Addr /\ tick.lo <= h /\ h <= tick.end /\ tick.lo \in Nat \ {0}
        /\ db.rows[a].stored
        /\ db' \in Db /\ SameRest(db, db')
        /\ db'.rows[a].marker =
             IF tick.lo <= Larger(m + 1, db.birth) /\ m < h /\ ScanWindow(h)
             THEN h ELSE m
        /\ \A b \in Addr \ {a} : db'.rows[b] = db.rows[b]
    BY <1>4, <2>0, ScanWindowEffect
  <2>2. tick.at = "scan" /\ tick \in TickType
    BY <1>4 DEF ScanWindow, ScanWindowUndated, TickOK
  <2>3. /\ m \in Null .. MaxHeight /\ db.birth \in 1 .. Birth
        /\ tick.end \in Nat /\ db'.birth = db.birth /\ a \notin tick.todo
    BY <2>0, <2>1, <2>2 DEF DbOK, Db, RowType, TickOK, TickType, SameRest
  <2>4. m # Null /\ a[1] = ReceiveScope => tick.lo <= Larger(m + 1, db.birth)
    BY <2>0, <2>1, <2>2, <2>3 DEF PoolOK, MarkedReceive
  <2>5. CASE ScanWindow(h)
    <3>1. /\ tick'.at = "scan" /\ tick'.lo = h + 1 /\ tick'.end = tick.end
          /\ tick'.todo = tick.todo
          /\ tick'.addr = IF h = tick.end THEN NoAddr ELSE a
      BY <2>0, <2>2, <2>5 DEF ScanWindow, TickType
    <3>2. ASSUME NEW b \in Addr, b # a, MarkedReceive(b)', b \notin tick'.todo
          PROVE  db'.rows[b].marker >= tick'.end
      <4>1. db'.rows[b] = db.rows[b] /\ MarkedReceive(b) /\ b \notin tick.todo
        BY <2>1, <3>1, <3>2 DEF MarkedReceive
      <4> QED BY <2>0, <2>2, <3>1, <3>2, <4>1 DEF PoolOK
    <3>3. ASSUME MarkedReceive(a)'
          PROVE  db'.rows[a].marker >= h
      <4>1. a[1] = ReceiveScope /\ db'.rows[a].marker # Null
        BY <3>3 DEF MarkedReceive
      <4> HIDE DEF ScanWindow
      <4> QED BY <2>1, <2>3, <2>4, <2>5, <4>1 DEF Height, Null
    <3>4. \A b \in Addr : b # NoAddr
      BY SyncAssumption
    <3>5. ASSUME MarkedReceive(a)'
          PROVE  IF a = tick'.addr
                 THEN tick'.lo <= Larger(db'.rows[a].marker + 1, db'.birth)
                 ELSE db'.rows[a].marker >= tick'.end
      <4>1. db'.rows[a].marker \in Int /\ db'.birth \in Int
        BY <2>1 DEF Db, RowType, Null
      <4>2. db'.rows[a].marker >= h
        BY <3>3, <3>5
      <4>3. h + 1 <= Larger(db'.rows[a].marker + 1, db'.birth)
        BY <4>1, <4>2 DEF Larger, Height
      <4> QED BY <2>1, <3>1, <4>2, <4>3
    <3>6. ASSUME NEW b \in Addr, b # a PROVE b # tick'.addr
      BY <3>1, <3>4, <3>6
    <3> QED BY <3>1, <3>2, <3>5, <3>6 DEF PoolOK
  <2>6. CASE ~ScanWindow(h)
    <3>1. tick' = tick
      BY <1>4, <2>6 DEF ScanWindowUndated
    <3>2. db'.rows[a].marker = m
      BY <2>1, <2>6
    <3>3. ASSUME NEW b \in Addr
          PROVE  db'.rows[b].marker = db.rows[b].marker
                 /\ (b # a => db'.rows[b] = db.rows[b])
      BY <2>1, <3>2
    <3>4. ASSUME NEW b \in Addr, MarkedReceive(b)'
          PROVE  MarkedReceive(b)
      <4>1. CASE b = a
        BY <2>1, <3>2, <3>4, <4>1 DEF MarkedReceive
      <4>2. CASE b # a
        BY <3>3, <3>4, <4>2 DEF MarkedReceive
      <4> QED BY <4>1, <4>2
    <3>5. ASSUME NEW b \in Addr, MarkedReceive(b)', b \notin tick.todo
          PROVE  IF b = tick.addr
                 THEN tick.lo <= Larger(db'.rows[b].marker + 1, db'.birth)
                 ELSE db'.rows[b].marker >= tick.end
      <4>1. MarkedReceive(b) /\ db'.rows[b].marker = db.rows[b].marker
        BY <3>3, <3>4, <3>5
      <4> QED BY <2>2, <2>3, <3>5, <4>1 DEF PoolOK
    <3> QED BY <2>2, <3>1, <3>5 DEF PoolOK
  <2> QED BY <2>5, <2>6
<1> QED BY <1>1, <1>2, <1>3, <1>4

(* The other steps.                                                        *)
LEMMA PoolStep ==
    ASSUME Typed, PoolOK, [Next]_vars
    PROVE  PoolOK'
<1> USE DEF Typed
<1>1. CASE \/ StartTick \/ OpenAnchor \/ StartAddress
           \/ \E h \in Height : ScanWindow(h) \/ ScanWindowUndated(h)
  BY <1>1, PoolScan
<1>2. CASE ClosePass
  <2>1. ScanDone /\ tick'.at = "shielded" /\ tick'.end = tick.end
    BY <1>2, IdleTypes DEF ClosePass, TickType
  <2>2. \A b \in Addr : SameRow(db.rows[b], db'.rows[b], {"owed"})
    BY <1>2, ClosePassEffect
  <2>3. \A b \in Addr : b # NoAddr
    BY SyncAssumption
  <2>4. \A b \in Addr : MarkedReceive(b)' =>
            MarkedReceive(b) /\ db'.rows[b].marker = db.rows[b].marker
    BY <2>2 DEF MarkedReceive, SameRow
  <2> QED BY <2>1, <2>3, <2>4 DEF PoolOK, ScanDone
<1>3. ASSUME NEW h \in Height, NEW w \in BOOLEAN, CommitChunk(h, w)
      PROVE  PoolOK'
  <2>1. db'.rows = db.rows
    BY <1>3, CommitChunkEffect
  <2>2. tick.at = "shielded" /\
        tick' = IF h = tick.end THEN Idle
                ELSE [tick EXCEPT !.cur = h, !.prev = HashAt(h)]
    BY <1>3 DEF CommitChunk
  <2>3. CASE h = tick.end
    BY <2>2, <2>3, IdleTypes, PoolIdle
  <2>4. CASE h # tick.end
    <3>1. tick'.at = "shielded" /\ tick'.end = tick.end
      BY <2>2, <2>4 DEF TickOK, TickType
    <3> QED BY <2>1, <2>2, <3>1 DEF PoolOK, MarkedReceive
  <2> QED BY <2>3, <2>4
<1>4. CASE MeetReorg \/ FailTick
  BY <1>4, PoolIdle, IdleTypes DEF MeetReorg, FailTick
<1>5. CASE UNCHANGED <<db, tick>>
  BY <1>5 DEF PoolOK, MarkedReceive
<1>6. CASE tick' = tick /\ Quiet
  BY <1>6, PoolIdle DEF Quiet
<1>7. CASE Mine \/ (\E f \in Height : Fork(f)) \/ UNCHANGED vars
  BY <1>5, <1>7 DEF Mine, Fork, vars
<1>8. CASE Walk
  BY <1>5, <1>6, <1>8 DEF Walk, StartWalk, PlanCandidate, ReadBatchSeam, Prefetch,
     SkipCandidate, ProbeWindow, IngestWindow, IngestUndated, InWindow, Certify,
     FailWalk
<1>9. CASE HostStep
  <2>1. tick' = tick /\ (Quiet \/ HostAddress("change", ChangeScope))
    BY <1>9 DEF HostStep, HostRewind, HostReset, HostReplace, HostBirth,
       HostAddress, Host
  <2>2. CASE HostAddress("change", ChangeScope)
    <3> DEFINE a == <<ChangeScope, HighestStored(db, ChangeScope) + 1>>
    <3>1. /\ a \in Addr /\ SameRest(db, db')
          /\ \A b \in Addr \ {a} : db'.rows[b] = db.rows[b]
      BY <2>2, HostAddressEffect
    <3>2. a[1] # ReceiveScope
      BY DEF ChangeScope, ReceiveScope
    <3> HIDE DEF a
    <3>3. \A b \in Addr : b[1] = ReceiveScope => db'.rows[b] = db.rows[b]
      BY <3>1, <3>2
    <3>4. db'.birth = db.birth
      BY <3>1 DEF SameRest
    <3> QED BY <2>1, <3>3, <3>4 DEF PoolOK, MarkedReceive
  <2> QED BY <1>6, <2>1, <2>2
<1> QED BY <1>1, <1>2, <1>3, <1>4, <1>7, <1>8, <1>9 DEF Next, Tick

(* sync_address_range: once the transparent pass is closed, no marked      *)
(* receive address is behind the pool, whatever failed before.             *)
THEOREM PoolPassesNoRow == Spec => []PoolNeverPassesARow
<1>1. Init => PoolOK
  BY IdleTypes DEF Init, PoolOK
<1>2. Typed /\ PoolOK /\ [Next]_vars => PoolOK'
  BY PoolStep
<1>3. Typed /\ PoolOK => PoolNeverPassesARow
  <2> SUFFICES ASSUME Typed, PoolOK, tick.at = "shielded", NEW a \in Stored(db),
                      a[1] = ReceiveScope, db.rows[a].marker # Null
               PROVE  db.rows[a].marker >= db.hT
    BY DEF PoolNeverPassesARow
  <2>1. a \in Addr /\ MarkedReceive(a)
    BY DEF Stored, MarkedReceive
  <2>2. db.hT = tick.end
    BY DEF Typed, TickOK
  <2> QED BY <2>1, <2>2 DEF PoolOK
<1> QED BY <1>1, <1>2, <1>3, SpecTyped, PTL DEF Spec

-----------------------------------------------------------------------------
(* The rows and the chain.                                                 *)

\* The hash g was the server's at h: a fork that is still to come may not
\* bring it back.
Known(h, g) == g > left.forks \/ HashAt(h) = g

\* The wallet's history up to h is on the server's chain.
Stands(h) == h <= Birth \/ (hdr[h] # NoHash /\ hdr[h] = HashAt(h))

\* The heights a rewind or a tick may continue from.
Marks == db.wit \cup {Seam(db)}

NoteAt(a, k, b) == [addr |-> a, height |-> k, fork |-> b.fork]

\* The marker of a claims height k.
Covers(d, a, k) == d.rows[a].stored /\ d.birth <= k /\ k <= d.rows[a].marker

\* Ticks owe a what it is paid at height k.
Owes(d, a, k) == /\ d.rows[a].stored /\ a[1] = ReceiveScope
                 /\ d.birth <= k /\ d.rows[a].since < k

\* The rows are right about block b at height k: its notes are those of b, a
\* receive address outside pending that b pays has the note, and so has an
\* address whose marker claims k.
Good(d, k, b, pending) ==
    /\ \A n \in d.notes : n.height = k => n.fork = b.fork
    /\ \A a \in Addr \ pending :
          Owes(d, a, k) /\ b.pays = a => NoteAt(a, k, b) \in d.notes
    /\ Calm => \A a \in Addr :
          Covers(d, a, k) /\ b.pays = a => NoteAt(a, k, b) \in d.notes

\* What the tick has still to scan at height k.
Pending(k) == tick.todo \cup (IF k >= tick.lo THEN {tick.addr} ELSE {})

\* Every hash the wallet compares was once the server's.
HeadersOK == \A h \in Height : hdr[h] # NoHash => Known(h, hdr[h])

KnownOK ==
    /\ HeadersOK
    /\ \A w \in db.wit : w <= Seam(db) /\ hdr[w] # NoHash
    /\ Seam(db) <= Birth \/ hdr[Seam(db)] # NoHash
    /\ tick.at = "scan" => Known(tick.end, tick.anchor)
    /\ tick.at = "shielded" =>
          IF tick.prev = NoHash THEN tick.cur <= Birth
          ELSE Known(tick.cur, tick.prev)

MarksOK ==
    \A h \in Marks : Stands(h) => \A k \in 1 .. h : Good(db, k, chain[k], {})

\* Nothing above the seam when a pass begins.
OpenOK ==
    tick.at = "open" =>
        /\ \A n \in db.notes : n.height < tick.start
        /\ \A a \in Addr : db.rows[a].marker < tick.start

\* While the opening anchor stands, the windows scanned are right.
ScanOK ==
    tick.at = "scan" /\ HashAt(tick.end) = tick.anchor =>
        \A k \in tick.start .. tick.end : Good(db, k, chain[k], Pending(k))

\* While the shielded pass links, the closed transparent pass is right.
ShieldedOK ==
    tick.at = "shielded" /\ Linked =>
        tick.end <= Tip /\ \A k \in 1 .. tick.end : Good(db, k, chain[k], {})

\* A prefetched reply is right about every mark it may be used under.
ReplyOK(e) ==
    db.inc = walk.inc =>
        /\ e.reply.seam <= Seam(db)
        /\ e.reply.seam = Seam(db) => \A h \in Marks : Stands(h) =>
              /\ \A n \in e.reply.found :
                    n.height <= h => n.fork = chain[n.height].fork
              /\ \A k \in e.lo .. h : k <= walk.end /\ chain[k].pays = e.addr
                    => NoteAt(e.addr, k, chain[k]) \in e.reply.found

\* Windows passed without a row were empty, unless a trim came since.
WindowsOK(e) ==
    /\ ~left.narrow => e.lo = e.mlo
    /\ e.lo <= Larger(e.mlo, walk.end + 1)
    /\ db.inc = walk.inc => e.trim <= db.trims
    /\ left.narrow /\ db.inc = walk.inc /\ e.trim \in {Null, db.trims} =>
          \A k \in e.mlo .. (e.lo - 1) : chain[k].pays # e.addr

WalkRight ==
    /\ walk.inc <= db.inc
    /\ walk.at = "fetch" /\ db.inc = walk.inc => walk.seam <= Seam(db)
    /\ Calm /\ left.narrow => left.forks = 0 /\ walk.end <= Tip
    /\ \A i \in 1 .. Len(walk.batch) :
          ReplyOK(walk.batch[i]) /\ (Calm => WindowsOK(walk.batch[i]))

RowsRight == MarksOK /\ OpenOK /\ ScanOK /\ ShieldedOK

History == Typed /\ PoolOK /\ KnownOK /\ RowsRight /\ WalkRight

-----------------------------------------------------------------------------
(* What preserves Good.                                                    *)

(* Rows stay right about a block when its notes stay, only right ones come *)
(* and no row claims or owes more than it did without the note.            *)
LEMMA GoodKept ==
    ASSUME NEW d, NEW e, NEW k, NEW b, NEW p, NEW q, Good(d, k, b, p),
           \A n \in d.notes : n.height = k => n \in e.notes,
           \A n \in e.notes : n.height = k => n \in d.notes \/ n.fork = b.fork,
           \A a \in Addr : Owes(e, a, k) /\ b.pays = a /\ a \notin q =>
               (Owes(d, a, k) /\ a \notin p) \/ NoteAt(a, k, b) \in e.notes,
           Calm => \A a \in Addr : Covers(e, a, k) /\ b.pays = a =>
               Covers(d, a, k) \/ NoteAt(a, k, b) \in e.notes
    PROVE  Good(e, k, b, q)
<1>1. \A n \in e.notes : n.height = k => n.fork = b.fork
  BY DEF Good
<1>2. \A a : NoteAt(a, k, b) \in d.notes => NoteAt(a, k, b) \in e.notes
  <2>1. \A a : NoteAt(a, k, b).height = k
    BY DEF NoteAt
  <2> HIDE DEF NoteAt
  <2> QED BY <2>1
<1>3. \A a \in Addr \ q : Owes(e, a, k) /\ b.pays = a => NoteAt(a, k, b) \in e.notes
  <2> HIDE DEF NoteAt, Owes
  <2> QED BY <1>2 DEF Good
<1>4. Calm => \A a \in Addr :
        Covers(e, a, k) /\ b.pays = a => NoteAt(a, k, b) \in e.notes
  <2> HIDE DEF NoteAt, Covers, Calm
  <2> QED BY <1>2 DEF Good
<1> QED BY <1>1, <1>3, <1>4 DEF Good

(* Good reads the notes, the birthday, and three columns of the rows.      *)
LEMMA GoodSame ==
    ASSUME NEW d, NEW e, NEW k, NEW b, NEW p, Good(d, k, b, p),
           e.notes = d.notes, e.birth = d.birth,
           \A a \in Addr : /\ e.rows[a].stored = d.rows[a].stored
                           /\ e.rows[a].marker = d.rows[a].marker
                           /\ e.rows[a].since = d.rows[a].since
    PROVE  Good(e, k, b, p)
<1>1. \A a \in Addr : Owes(e, a, k) => Owes(d, a, k)
  BY DEF Owes
<1>2. \A a \in Addr : Covers(e, a, k) => Covers(d, a, k)
  BY DEF Covers
<1> HIDE DEF Owes, Covers, Good, NoteAt, Calm
<1> QED BY <1>1, <1>2, GoodKept

(* trim_sync_data at or above k keeps what the rows know of k, and a trim  *)
(* owes nothing at or below its height that was not owed.                  *)
LEMMA GoodTrimmed ==
    ASSUME NEW d \in Db, NEW w \in 0 .. MaxHeight, NEW k \in 1 .. w, NEW b,
           Good(d, k, b, {}),
           NEW e, e.birth = d.birth,
           e.notes = {n \in d.notes : n.height <= w},
           \A a \in Addr : /\ e.rows[a].stored = d.rows[a].stored
                           /\ e.rows[a].marker = Smaller(d.rows[a].marker, w)
                           /\ e.rows[a].since = Smaller(d.rows[a].since, w)
    PROVE  Good(e, k, b, {})
<1>0. w \in Nat /\ k \in Nat /\ k <= w
  BY SyncAssumption
<1>1. \A a \in Addr : d.rows[a].marker \in Int /\ d.rows[a].since \in Int
  BY DEF Db, RowType, Null
<1>2. ASSUME NEW a \in Addr, Owes(e, a, k) PROVE Owes(d, a, k)
  BY <1>0, <1>1, <1>2 DEF Owes, Smaller
<1>3. ASSUME NEW a \in Addr, Covers(e, a, k) PROVE Covers(d, a, k)
  BY <1>0, <1>1, <1>3 DEF Covers, Smaller
<1>4. \A n \in d.notes : n.height = k => n \in e.notes
  BY <1>0
<1>5. \A n \in e.notes : n \in d.notes
  OBVIOUS
<1> HIDE DEF Owes, Covers, Good, NoteAt, Calm
<1> QED BY <1>2, <1>3, <1>4, <1>5, GoodKept

(* An account whose rows claim and owe nothing at or below its birthday,   *)
(* with no notes, is right about every block there.                        *)
LEMMA GoodFresh ==
    ASSUME NEW e \in Db, e.notes = {}, NEW k \in 1 .. e.birth, NEW b,
           \A a \in Addr : /\ e.rows[a].marker <= 0
                           /\ e.rows[a].stored => e.rows[a].since = e.birth
    PROVE  Good(e, k, b, {})
<1>0. e.birth \in Nat /\ k \in Nat /\ k >= 1 /\ k <= e.birth
  BY SyncAssumption DEF Db
<1>1. \A a \in Addr : e.rows[a].marker \in Int
  BY DEF Db, RowType, Null
<1>2. \A a \in Addr : ~Owes(e, a, k)
  BY <1>0 DEF Owes
<1>3. \A a \in Addr : ~Covers(e, a, k)
  BY <1>0, <1>1 DEF Covers
<1> QED BY <1>2, <1>3 DEF Good

-----------------------------------------------------------------------------
(* Blocks and forks.                                                       *)

(* Forks are named downwards, so they are naturals no higher than before.  *)
LEMMA ForkNames ==
    /\ \A g \in Forks : g \in Nat /\ g # NoHash
    /\ Typed => left.forks \in Nat /\ \A h \in 1 .. Tip : chain[h].fork \in Forks
<1>1. \A g \in Forks : g \in Nat /\ g # NoHash
  BY SyncAssumption DEF Forks, Budget, NoHash
<1>2. Typed => left.forks \in Nat /\ \A h \in 1 .. Tip : chain[h].fork \in Forks
  BY Ranges DEF Budget, Block
<1> QED BY <1>1, <1>2

(* Up to its birthday, and up to any height where it still has a hash it   *)
(* once had, the chain is what it was: a hash that left does not come back.*)
LEMMA ChainStep ==
    ASSUME Typed, Mine \/ \E f \in Height : Fork(f)
    PROVE  /\ \A h \in Height, g \in Forks : Known(h, g) => Known(h, g)'
           /\ \A h \in Height, g \in Forks :
                 Known(h, g) /\ HashAt(h)' = g =>
                    /\ HashAt(h) = g /\ h <= Tip /\ h <= Tip'
                    /\ \A k \in 1 .. h : chain'[k] = chain[k]
           /\ \A k \in 1 .. Birth : chain'[k] = chain[k]
           /\ Birth <= Tip'
<1>0. /\ Tip \in Nat /\ Birth <= Tip /\ Birth \in Nat /\ left.forks \in Nat
      /\ \A h \in 1 .. Tip : chain[h].fork \in Forks /\ chain[h].fork >= left.forks
      /\ \A g \in Forks : g \in Nat /\ g # NoHash
  BY Ranges, ForkNames DEF Typed, ChainOK
<1>a. /\ \A h : h \in 1 .. Tip => HashAt(h) = chain[h].fork
      /\ \A h : h \notin 1 .. Tip => HashAt(h) = NoHash
      /\ \A h : h \in 1 .. Tip' => HashAt(h)' = chain'[h].fork
      /\ \A h : h \notin 1 .. Tip' => HashAt(h)' = NoHash
  BY DEF HashAt, Tip
<1>1. CASE Mine
  <2>1. /\ Tip' = Tip + 1 /\ left' = left
        /\ \A h \in 1 .. Tip : chain'[h] = chain[h]
        /\ chain'[Tip + 1].fork = left.forks
    BY <1>1, MineChain
  <2>2. ASSUME NEW h \in Height, NEW g \in Forks, Known(h, g)
        PROVE  Known(h, g)'
    <3>1. CASE g > left.forks
      BY <2>1, <3>1 DEF Known
    <3>2. CASE HashAt(h) = g
      <4>1. h \in 1 .. Tip /\ h \in 1 .. Tip'
        BY <1>0, <1>a, <2>1, <3>2
      <4>2. HashAt(h)' = HashAt(h)
        BY <1>a, <2>1, <4>1
      <4> QED BY <3>2, <4>2 DEF Known
    <3> QED BY <2>2, <3>1, <3>2 DEF Known
  <2>3. ASSUME NEW h \in Height, NEW g \in Forks, Known(h, g), HashAt(h)' = g
        PROVE  /\ HashAt(h) = g /\ h <= Tip /\ h <= Tip'
               /\ \A k \in 1 .. h : chain'[k] = chain[k]
    <3>1. h \in 1 .. (Tip + 1)
      BY <1>0, <1>a, <2>1, <2>3
    <3>2. h # Tip + 1
      <4> SUFFICES ASSUME h = Tip + 1 PROVE FALSE
        OBVIOUS
      <4>1. g = left.forks
        BY <1>0, <1>a, <2>1, <2>3, <3>1
      <4>2. HashAt(h) = NoHash
        BY <1>0, <1>a
      <4> QED BY <1>0, <2>3, <4>1, <4>2 DEF Known
    <3>3. h \in 1 .. Tip
      BY <1>0, <3>1, <3>2
    <3> QED BY <1>0, <1>a, <2>1, <2>3, <3>3
  <2> QED BY <1>0, <2>1, <2>2, <2>3
<1>2. ASSUME NEW f \in Height, Fork(f)
      PROVE  /\ \A h \in Height, g \in Forks : Known(h, g) => Known(h, g)'
             /\ \A h \in Height, g \in Forks :
                   Known(h, g) /\ HashAt(h)' = g =>
                      /\ HashAt(h) = g /\ h <= Tip /\ h <= Tip'
                      /\ \A k \in 1 .. h : chain'[k] = chain[k]
             /\ \A k \in 1 .. Birth : chain'[k] = chain[k]
             /\ Birth <= Tip'
  <2>1. /\ Tip' = f - 1 /\ f \in (Birth + 1) .. Tip
        /\ \A h \in 1 .. (f - 1) : chain'[h] = chain[h]
        /\ left'.forks = left.forks - 1
    BY <1>2, ForkChain
  <2>2. ASSUME NEW h \in Height, NEW g \in Forks, Known(h, g)
        PROVE  Known(h, g)'
    <3>1. CASE g > left.forks
      BY <1>0, <2>1, <3>1 DEF Known
    <3>2. CASE HashAt(h) = g
      <4>1. h \in 1 .. Tip
        BY <1>0, <1>a, <3>2
      <4>2. g >= left.forks
        BY <1>0, <1>a, <3>2, <4>1
      <4> QED BY <1>0, <2>1, <4>2 DEF Known
    <3> QED BY <2>2, <3>1, <3>2 DEF Known
  <2>3. ASSUME NEW h \in Height, NEW g \in Forks, Known(h, g), HashAt(h)' = g
        PROVE  /\ HashAt(h) = g /\ h <= Tip /\ h <= Tip'
               /\ \A k \in 1 .. h : chain'[k] = chain[k]
    <3>1. h \in 1 .. (f - 1)
      BY <1>0, <1>a, <2>1, <2>3
    <3>2. h \in 1 .. Tip
      BY <1>0, <2>1, <3>1
    <3> QED BY <1>0, <1>a, <2>1, <2>3, <3>1, <3>2
  <2> QED BY <1>0, <2>1, <2>2, <2>3
<1> QED BY <1>1, <1>2

-----------------------------------------------------------------------------
(* Steps that leave the chain alone.                                       *)

(* Marks are heights; one that stands is on the chain.                     *)
LEMMA MarkHeights ==
    ASSUME Typed
    PROVE  /\ Marks \subseteq Height /\ Seam(db) \in Marks
           /\ \A h \in Height : Stands(h) => h <= Tip /\ h \in 1 .. Tip
<1>1. Marks \subseteq Height /\ Seam(db) \in Marks
  BY Ranges DEF Marks, Typed, DbOK, Db
<1>2. ASSUME NEW h \in Height, Stands(h) PROVE h <= Tip /\ h \in 1 .. Tip
  <2>1. HashAt(h) # NoHash => h \in 1 .. Tip
    BY HashAtType DEF Typed
  <2> QED BY <1>2, <2>1, Ranges DEF Stands, Height
<1> QED BY <1>1, <1>2

(* The heights of a running tick: a pass begins right above the seam.      *)
LEMMA TickHeights ==
    ASSUME Typed
    PROVE  /\ tick.at \in {"open", "scan"} =>
                 /\ tick.start \in Height /\ tick.end \in Height
                 /\ tick.start <= tick.end /\ Seam(db) = tick.start - 1
                 /\ tick.lo \in Nat /\ tick.todo \in SUBSET Addr
           /\ tick.at = "scan" => tick.anchor \in Forks
           /\ tick.at = "shielded" =>
                 /\ tick.cur \in Height /\ tick.end \in Height
                 /\ tick.cur < tick.end /\ Seam(db) = tick.cur
                 /\ tick.prev \in Hash
<1>1. /\ tick \in TickType /\ db.hT \in Nat /\ db.hS \in Nat /\ MaxHeight \in Nat
      /\ db.hT >= 1 /\ db.hS >= 1
  BY SyncAssumption DEF Typed, TickOK, DbOK, Db
<1>2. CASE tick.at \in {"open", "scan"}
  BY <1>1, <1>2 DEF Typed, TickOK, TickType, Height, Hash, Seam, Smaller
<1>3. CASE tick.at = "shielded"
  BY <1>1, <1>3 DEF Typed, TickOK, TickType, Height, Seam, Smaller
<1> QED BY <1>2, <1>3

(* Headers are only added, so what stands at a mark stays.                 *)
LEMMA HeadersKept ==
    ASSUME Typed, KnownOK, chain' = chain, left'.forks = left.forks,
           hdr' = hdr \/ \E H : hdr' = StoredHeaders(H)
    PROVE  /\ HeadersOK'
           /\ \A h \in Height : hdr[h] # NoHash => hdr'[h] = hdr[h]
           /\ \A h \in Marks : Stands(h)' => Stands(h)
           /\ \A h, g : Known(h, g) => Known(h, g)'
           /\ \A h : HashAt(h)' = HashAt(h)
           /\ Tip' = Tip
<1>1. (\A h : HashAt(h)' = HashAt(h)) /\ Tip' = Tip
  BY DEF HashAt, Tip
<1>2. \A h, g : Known(h, g) => Known(h, g)'
  BY <1>1 DEF Known
<1>3. ASSUME NEW h \in Height
      PROVE  hdr'[h] = hdr[h] \/ (hdr[h] = NoHash /\ hdr'[h] = HashAt(h))
  <2>1. ASSUME NEW H, hdr' = StoredHeaders(H)
        PROVE  hdr'[h] = IF h \in H /\ hdr[h] = NoHash THEN HashAt(h) ELSE hdr[h]
    BY <2>1, StoredHeadersType DEF Typed, HistoryOK
  <2> QED BY <2>1
<1>4. ASSUME NEW h \in Height, hdr'[h] # NoHash PROVE Known(h, hdr[h])'
  <2>0. PICK g : g = hdr'[h]
    OBVIOUS
  <2>1. CASE g = hdr[h]
    <3>1. Known(h, g)
      BY <1>4, <2>0, <2>1 DEF KnownOK, HeadersOK
    <3>2. Known(h, g)'
      BY <1>2, <3>1
    <3> QED BY <2>0, <3>2 DEF Known
  <2>2. CASE g = HashAt(h)
    <3>1. HashAt(h)' = g
      BY <1>1, <2>2
    <3> QED BY <2>0, <3>1 DEF Known
  <2> QED BY <1>3, <2>0, <2>1, <2>2
<1>5. \A h \in Height : hdr[h] # NoHash => hdr'[h] = hdr[h]
  BY <1>3
<1>6. ASSUME NEW h \in Marks, Stands(h)' PROVE Stands(h)
  <2>1. h \in Height /\ (h <= Birth \/ hdr[h] # NoHash)
    BY MarkHeights DEF Marks, KnownOK
  <2> QED BY <1>1, <1>5, <1>6, <2>1 DEF Stands
<1> QED BY <1>1, <1>2, <1>4, <1>5, <1>6 DEF HeadersOK

\* The walk and the chain are left alone.
WalkAside == walk' = walk /\ chain' = chain /\ left'.forks = left.forks
             /\ left'.narrow = left.narrow

(* An entry's types.                                                       *)
LEMMA EntryTypes ==
    ASSUME Typed, NEW i \in 1 .. Len(walk.batch)
    PROVE  /\ walk.batch[i] \in Entry /\ walk.batch[i].trim \in Int
           /\ walk.batch[i].reply.seam \in Int /\ walk.batch[i].lo \in Nat \ {0}
           /\ walk.batch[i].mlo \in Nat \ {0} /\ walk.batch[i].addr \in Addr
           /\ walk.batch[i].reply.found \in SUBSET Notes
<1>1. walk.batch \in Seq(Entry)
  BY DEF Typed, WalkOK, WalkType
<1>2. walk.batch[i] \in Entry
  BY <1>1, ElementOfSeq
<1> QED BY <1>2 DEF Entry

(* A step that retires the walk keeps nothing of its promises.             *)
LEMMA WalkRetired ==
    ASSUME Typed, WalkRight, WalkAside, db'.inc = db.inc + 1
    PROVE  WalkRight'
<1>1. walk.inc \in Nat /\ db.inc \in Nat /\ Tip' = Tip
  BY DEF Typed, WalkOK, WalkType, DbOK, Db, WalkAside, Tip
<1>2. db'.inc # walk'.inc /\ walk'.inc <= db'.inc
  BY <1>1 DEF WalkRight, WalkAside
<1>3. Calm /\ left'.narrow => left'.forks = 0 /\ walk'.end <= Tip'
  BY <1>1 DEF WalkRight, WalkAside
<1>4. ASSUME NEW i \in 1 .. Len(walk'.batch)
      PROVE  ReplyOK(walk.batch[i])' /\ (Calm => WindowsOK(walk.batch[i])')
  <2>1. i \in 1 .. Len(walk.batch)
    BY DEF WalkAside
  <2>2. Calm => WindowsOK(walk.batch[i])
    BY <2>1 DEF WalkRight
  <2> QED BY <1>2, <2>2 DEF ReplyOK, WindowsOK, WalkAside
<1> QED BY <1>2, <1>3, <1>4 DEF WalkRight, WalkAside

(* A step that leaves the seam, or raises it, and brings no mark that      *)
(* stands keeps the promises of the walk.                                  *)
LEMMA WalkKept ==
    ASSUME Typed, Typed', WalkRight, WalkAside, db'.inc = db.inc,
           db'.trims >= db.trims,
           \/ Seam(db') > Seam(db)
           \/ /\ Seam(db') = Seam(db)
              /\ \A h \in Marks' : h \in Marks /\ (Stands(h)' => Stands(h))
    PROVE  WalkRight'
<1>0. Tip' = Tip /\ Seam(db) \in Nat /\ Seam(db') \in Nat
      /\ db.trims \in Nat /\ db'.trims \in Nat /\ walk.seam \in Int
  <2>1. Seam(db) \in Nat
    BY Ranges DEF Height
  <2>2. Seam(db') \in Nat
    <3>1. db' \in Db
      BY DEF Typed, DbOK
    <3> QED BY <3>1 DEF Db, Seam, Smaller
  <2> QED BY <2>1, <2>2 DEF Typed, DbOK, Db, WalkOK, WalkType, WalkAside, Tip
<1>1. walk'.inc <= db'.inc
      /\ (walk'.at = "fetch" /\ db'.inc = walk'.inc => walk'.seam <= Seam(db'))
      /\ (Calm /\ left'.narrow => left'.forks = 0 /\ walk'.end <= Tip')
  BY <1>0 DEF WalkRight, WalkAside
<1>2. ASSUME NEW i \in 1 .. Len(walk.batch)
      PROVE  ReplyOK(walk.batch[i])' /\ (Calm => WindowsOK(walk.batch[i])')
  <2>0. PICK e : e = walk.batch[i] /\ e = walk'.batch[i]
    BY DEF WalkAside
  <2>1. /\ e.trim \in Int /\ e.reply.seam \in Int
        /\ ReplyOK(e) /\ (Calm => WindowsOK(e))
    BY <2>0, EntryTypes DEF WalkRight
  <2>2. ReplyOK(e)'
    <3> SUFFICES ASSUME db'.inc = walk'.inc
                 PROVE  /\ e.reply.seam <= Seam(db')
                        /\ e.reply.seam = Seam(db') => \A h \in Marks' : Stands(h)' =>
                             /\ \A n \in e.reply.found :
                                   n.height <= h => n.fork = chain'[n.height].fork
                             /\ \A k \in e.lo .. h :
                                   k <= walk'.end /\ chain'[k].pays = e.addr
                                     => NoteAt(e.addr, k, chain'[k]) \in e.reply.found
      BY DEF ReplyOK
    <3>1. db.inc = walk.inc
      BY DEF WalkAside
    <3>2. e.reply.seam <= Seam(db)
      BY <2>1, <3>1 DEF ReplyOK
    <3>3. e.reply.seam <= Seam(db') /\
          (e.reply.seam = Seam(db') =>
              /\ e.reply.seam = Seam(db)
              /\ \A h \in Marks' : h \in Marks /\ (Stands(h)' => Stands(h)))
      BY <1>0, <2>1, <3>2
    <3> HIDE DEF Stands, Marks, NoteAt
    <3> QED BY <2>1, <3>1, <3>3 DEF ReplyOK, WalkAside
  <2>3. Calm => WindowsOK(e)'
    <3> SUFFICES ASSUME Calm, WindowsOK(e) PROVE WindowsOK(e)'
      BY <2>1
    <3>1. (~left'.narrow => e.lo = e.mlo) /\ e.lo <= Larger(e.mlo, walk'.end + 1)
      BY DEF WindowsOK, WalkAside
    <3>2. db'.inc = walk'.inc => e.trim <= db'.trims
      BY <1>0, <2>1 DEF WindowsOK, WalkAside
    <3>3. ASSUME left'.narrow, db'.inc = walk'.inc, e.trim \in {Null, db'.trims}
          PROVE  \A k \in e.mlo .. (e.lo - 1) : chain'[k].pays # e.addr
      <4>1. left.narrow /\ db.inc = walk.inc /\ chain' = chain
        BY <3>3 DEF WalkAside
      <4>a. e.trim <= db.trims
        BY <4>1 DEF WindowsOK
      <4>2. e.trim \in {Null, db.trims}
        BY <1>0, <2>1, <3>3, <4>a
      <4> QED BY <4>1, <4>2 DEF WindowsOK
    <3> QED BY <3>1, <3>2, <3>3 DEF WindowsOK
  <2> QED BY <2>0, <2>2, <2>3 DEF WalkAside
<1>3. Len(walk'.batch) = Len(walk.batch)
  BY DEF WalkAside
<1> QED BY <1>1, <1>2, <1>3 DEF WalkRight, WalkAside

-----------------------------------------------------------------------------
(* The chain moves.                                                        *)

(* A block mined or replaced: what stands afterwards stood, on the same    *)
(* blocks, so what the rows said of them is as true as before.             *)
LEMMA StandsChain ==
    ASSUME Typed, KnownOK, Mine \/ \E f \in Height : Fork(f), NEW h \in Height,
           Stands(h)'
    PROVE  Stands(h) /\ \A k \in 1 .. h : chain'[k] = chain[k]
<1>1. hdr' = hdr /\ Birth \in Nat
  BY SyncAssumption DEF Mine, Fork
<1>2. CASE h <= Birth
  <2>1. Stands(h)
    BY <1>2 DEF Stands
  <2>2. \A k \in 1 .. h : k \in 1 .. Birth
    BY <1>1, <1>2 DEF Height
  <2> QED BY <2>1, <2>2, ChainStep
<1>3. CASE ~(h <= Birth)
  <2>1. hdr[h] # NoHash /\ HashAt(h)' = hdr[h]
    BY <1>1, <1>3 DEF Stands
  <2>2. hdr[h] \in Forks /\ Known(h, hdr[h])
    BY <2>1 DEF Typed, HistoryOK, Hash, KnownOK, HeadersOK
  <2>3. HashAt(h) = hdr[h] /\ \A k \in 1 .. h : chain'[k] = chain[k]
    BY <2>1, <2>2, ChainStep
  <2> QED BY <2>1, <2>3 DEF Stands
<1> QED BY <1>2, <1>3

(* Hashes the wallet compares stay known.                                  *)
LEMMA KnownChain ==
    ASSUME Typed, KnownOK, Mine \/ \E f \in Height : Fork(f)
    PROVE  KnownOK'
<1>1. hdr' = hdr /\ db' = db /\ tick' = tick
  BY DEF Mine, Fork
<1>2. HeadersOK'
  <2> SUFFICES ASSUME NEW h \in Height, hdr[h]' # NoHash
               PROVE  Known(h, hdr[h])'
    BY DEF HeadersOK
  <2>0. PICK g : g = hdr[h]
    OBVIOUS
  <2>1. g \in Forks /\ Known(h, g)
    BY <1>1, <2>0 DEF Typed, HistoryOK, Hash, KnownOK, HeadersOK
  <2>2. Known(h, g)'
    BY <2>1, ChainStep
  <2> QED BY <1>1, <2>0, <2>2 DEF Known
<1>3. tick'.at = "scan" => Known(tick.end, tick.anchor)'
  <2> SUFFICES ASSUME tick.at = "scan" PROVE Known(tick.end, tick.anchor)'
    BY <1>1
  <2>0. PICK h, g : h = tick.end /\ g = tick.anchor
    OBVIOUS
  <2>1. g \in Forks /\ h \in Height /\ Known(h, g)
    BY <2>0, TickHeights DEF KnownOK
  <2>2. Known(h, g)'
    BY <2>1, ChainStep
  <2> QED BY <1>1, <2>0, <2>2 DEF Known, HashAt, Tip
<1>4. tick'.at = "shielded" =>
        IF tick'.prev = NoHash THEN tick'.cur <= Birth
        ELSE Known(tick.cur, tick.prev)'
  <2> SUFFICES ASSUME tick.at = "shielded", tick.prev # NoHash
               PROVE  Known(tick.cur, tick.prev)'
    BY <1>1 DEF KnownOK
  <2>0. PICK h, g : h = tick.cur /\ g = tick.prev
    OBVIOUS
  <2>1. g \in Forks /\ h \in Height /\ Known(h, g)
    BY <2>0, TickHeights DEF KnownOK, Hash
  <2>2. Known(h, g)'
    BY <2>1, ChainStep
  <2> QED BY <1>1, <2>0, <2>2 DEF Known, HashAt, Tip
<1> QED BY <1>1, <1>2, <1>3, <1>4 DEF KnownOK, Seam

(* The walk's replies are used under marks that stand, so on the blocks    *)
(* they were given for; and a server that narrows does not fork.           *)
LEMMA WalkChain ==
    ASSUME Typed, KnownOK, WalkRight, Mine \/ \E f \in Height : Fork(f)
    PROVE  WalkRight'
<1>1. walk' = walk /\ db' = db /\ hdr' = hdr
  BY DEF Mine, Fork
<1>2. Marks' = Marks /\ Seam(db') = Seam(db)
  BY <1>1 DEF Marks, Seam
<1>3. left'.narrow = left.narrow
  BY MineChain, ForkChain
<1>4. Calm /\ left.narrow =>
        /\ left'.forks = 0 /\ walk.end <= Tip' /\ Tip <= Tip'
        /\ \A k \in 1 .. Tip : chain'[k] = chain[k]
  <2> SUFFICES ASSUME Calm, left.narrow
               PROVE  /\ left'.forks = 0 /\ walk.end <= Tip' /\ Tip <= Tip'
                      /\ \A k \in 1 .. Tip : chain'[k] = chain[k]
    OBVIOUS
  <2>1. left.forks = 0 /\ walk.end <= Tip /\ walk.end \in Nat /\ Tip \in Nat
    BY Ranges, SyncAssumption DEF WalkRight, Typed, WalkOK, WalkType
  <2>2. \A f \in Height : ~Fork(f)
    BY <2>1 DEF Fork
  <2> QED BY <2>1, <2>2, MineChain
<1>5. ASSUME NEW i \in 1 .. Len(walk.batch)
      PROVE  ReplyOK(walk.batch[i])' /\ (Calm => WindowsOK(walk.batch[i])')
  <2>0. PICK e : e = walk.batch[i] /\ e = walk'.batch[i]
    BY <1>1
  <2>1. /\ e \in Entry /\ e.lo \in Nat \ {0} /\ e.mlo \in Nat \ {0}
        /\ e.reply.found \in SUBSET Notes
        /\ ReplyOK(e) /\ (Calm => WindowsOK(e))
    BY <2>0, EntryTypes DEF WalkRight
  <2>2. ReplyOK(e)'
    <3> SUFFICES ASSUME db.inc = walk.inc, e.reply.seam = Seam(db),
                        NEW h \in Marks, Stands(h)'
                 PROVE  /\ \A n \in e.reply.found :
                              n.height <= h => n.fork = chain'[n.height].fork
                        /\ \A k \in e.lo .. h : k <= walk.end
                              /\ chain'[k].pays = e.addr
                              => NoteAt(e.addr, k, chain'[k]) \in e.reply.found
      BY <1>1, <1>2, <2>1 DEF ReplyOK
    <3>1. h \in Height
      BY MarkHeights
    <3>2. Stands(h) /\ \A k \in 1 .. h : chain'[k] = chain[k]
      BY <3>1, StandsChain
    <3>3. \A n \in e.reply.found : n.height <= h => n.height \in 1 .. h
      BY <2>1, <3>1 DEF Notes, Height
    <3>4. \A k \in e.lo .. h : k \in 1 .. h
      BY <2>1, <3>1 DEF Height
    <3> HIDE DEF Stands, Marks
    <3> QED BY <2>1, <3>2, <3>3, <3>4 DEF ReplyOK
  <2>3. Calm => WindowsOK(e)'
    <3> SUFFICES ASSUME Calm, WindowsOK(e) PROVE WindowsOK(e)'
      BY <2>1
    <3>1. ASSUME left.narrow PROVE \A k \in e.mlo .. (e.lo - 1) : chain'[k] = chain[k]
      <4>1. \A k \in e.mlo .. (e.lo - 1) : k \in 1 .. Tip
        <5>1. e.lo <= Larger(e.mlo, walk.end + 1) /\ walk.end <= Tip
              /\ walk.end \in Nat /\ Tip \in Nat
          BY <3>1, Ranges, SyncAssumption
             DEF WindowsOK, WalkRight, Typed, WalkOK, WalkType
        <5> QED BY <2>1, <5>1 DEF Larger
      <4> QED BY <1>4, <3>1, <4>1
    <3> QED BY <1>1, <1>3, <3>1 DEF WindowsOK
  <2> QED BY <1>1, <2>0, <2>2, <2>3
<1> QED BY <1>1, <1>2, <1>3, <1>4, <1>5 DEF WalkRight

(* The rows that were right stay right about the blocks that stay.         *)
LEMMA RowsChain ==
    ASSUME Typed, KnownOK, RowsRight, ~LateForks,
           Mine \/ \E f \in Height : Fork(f)
    PROVE  RowsRight'
<1>1. hdr' = hdr /\ db' = db /\ tick' = tick
  BY DEF Mine, Fork
<1>2. MarksOK'
  <2> SUFFICES ASSUME NEW h \in Marks, Stands(h)', NEW k \in 1 .. h
               PROVE  Good(db, k, chain'[k], {})
    BY <1>1 DEF MarksOK, Marks, Seam, Good, Covers, Owes
  <2>1. h \in Height
    BY MarkHeights
  <2>2. Stands(h) /\ chain'[k] = chain[k]
    BY <2>1, StandsChain
  <2> HIDE DEF Stands, Marks, Good
  <2> QED BY <2>2 DEF RowsRight, MarksOK
<1>3. OpenOK'
  BY <1>1 DEF RowsRight, OpenOK
<1>4. ScanOK'
  <2> SUFFICES ASSUME tick.at = "scan", HashAt(tick.end)' = tick.anchor,
                      NEW k \in tick.start .. tick.end
               PROVE  Good(db, k, chain'[k], Pending(k))
    BY <1>1 DEF ScanOK, Pending, Good, Covers, Owes, HashAt, Tip
  <2>0. PICK h, g : h = tick.end /\ g = tick.anchor
    OBVIOUS
  <2>1. g \in Forks /\ h \in Height /\ Known(h, g) /\ k \in 1 .. h
    BY <2>0, TickHeights DEF KnownOK, Height
  <2>2. HashAt(h)' = g
    BY <1>1, <2>0 DEF HashAt, Tip
  <2>3. HashAt(h) = g /\ chain'[k] = chain[k]
    BY <2>1, <2>2, ChainStep
  <2> HIDE DEF Good, Pending
  <2> QED BY <2>0, <2>3 DEF RowsRight, ScanOK
<1>5. ShieldedOK'
  <2> SUFFICES ASSUME tick.at = "shielded", tick.prev \in {NoHash, HashAt(tick.cur)'}
               PROVE  tick.end <= Tip' /\ \A k \in 1 .. tick.end :
                         Good(db, k, chain'[k], {})
    BY <1>1 DEF ShieldedOK, Linked, Good, Covers, Owes, HashAt, Tip
  <2>0. PICK h, g : h = tick.cur /\ g = tick.prev
    OBVIOUS
  <2>a. /\ h \in Height /\ tick.end \in Height /\ h < tick.end
        /\ Birth \in Nat /\ Tip \in Nat /\ Tip' \in Nat
    <3>1. Tip' \in Nat
      BY TypedChain DEF Typed, ChainOK, Tip
    <3> QED BY <2>0, <3>1, TickHeights, Ranges
  <2>1. Linked /\ \A k \in 1 .. h : chain'[k] = chain[k] /\ h <= Tip'
    <3>1. CASE g = NoHash
      <4>1. h <= Birth
        BY <2>0, <3>1 DEF KnownOK
      <4>2. \A k \in 1 .. h : k \in 1 .. Birth
        BY <2>a, <4>1 DEF Height
      <4>3. h <= Tip'
        BY <2>a, <4>1, ChainStep DEF Height
      <4> QED BY <2>0, <3>1, <4>2, <4>3, ChainStep DEF Linked
    <3>2. CASE g # NoHash
      <4>1. g \in Forks /\ Known(h, g) /\ HashAt(h)' = g
        BY <1>1, <2>0, <3>2
           DEF Typed, TickOK, TickType, Hash, KnownOK, HashAt, Tip
      <4>2. HashAt(h) = g /\ h <= Tip' /\ \A k \in 1 .. h : chain'[k] = chain[k]
        BY <2>a, <4>1, ChainStep
      <4> QED BY <2>0, <4>2 DEF Linked
    <3> QED BY <3>1, <3>2
  <2>2. tick.end <= Tip /\ \A k \in 1 .. tick.end : Good(db, k, chain[k], {})
    BY <2>1 DEF RowsRight, ShieldedOK
  <2>3. tick.end <= Tip' /\ \A k \in 1 .. tick.end : chain'[k] = chain[k]
    <3>1. CASE Mine
      <4>1. Tip' = Tip + 1 /\ \A k \in 1 .. Tip : chain'[k] = chain[k]
        BY <3>1, MineChain
      <4> QED BY <2>2, <2>a, <4>1 DEF Height
    <3>2. ASSUME NEW f \in Height, Fork(f)
          PROVE  tick.end <= Tip' /\ \A k \in 1 .. tick.end : chain'[k] = chain[k]
      <4>1. ~(f > h /\ f <= tick.end)
        BY <2>0, <3>2 DEF Fork
      <4>2. Tip' = f - 1 /\ \A k \in 1 .. (f - 1) : chain'[k] = chain[k]
        BY <3>2, ForkChain
      <4>3. f \in Nat
        BY DEF Height
      <4>4. h <= Tip'
        <5>1. 1 \in 1 .. h
          BY <2>a DEF Height
        <5> QED BY <2>1, <5>1
      <4>5. f > tick.end
        BY <2>a, <4>1, <4>2, <4>3, <4>4 DEF Height
      <4> QED BY <2>a, <4>2, <4>3, <4>5 DEF Height
    <3> QED BY <3>1, <3>2
  <2> HIDE DEF Good
  <2> QED BY <2>2, <2>3
<1> QED BY <1>2, <1>3, <1>4, <1>5 DEF RowsRight

-----------------------------------------------------------------------------
(* The transparent pass.                                                   *)

(* A window answered by the server's chain and the marker it may move      *)
(* (sync_address_range) leave the rows right, and settle the address in it.*)
LEMMA GoodWindow ==
    ASSUME Typed, NEW a \in Addr, NEW lo \in Nat \ {0}, NEW hi \in Int,
           NEW e \in Db, e.notes = db.notes \cup Payments(a, lo, hi),
           e.birth = db.birth,
           \A b \in Addr : SameRow(db.rows[b], e.rows[b], {"used", "marker"}),
           \A b \in Addr \ {a} : e.rows[b] = db.rows[b],
           \/ e.rows[a].marker = db.rows[a].marker
           \/ /\ e.rows[a].marker = hi
              /\ lo <= Larger(db.rows[a].marker + 1, db.birth),
           NEW k \in 1 .. Tip, NEW p, NEW q, Good(db, k, chain[k], p),
           \A x \in p : x \in q \/ (x = a /\ lo <= k /\ k <= hi)
                                \/ x \notin Addr \/ ~Owes(db, x, k)
    PROVE  Good(e, k, chain[k], q)
<1>0. /\ Tip \in Nat /\ k \in Nat /\ k >= 1 /\ db.birth \in Nat
      /\ \A b \in Addr : db.rows[b].marker \in Int /\ db.rows[b].marker >= -1
  <2>1. Tip \in Nat /\ db.birth \in Nat /\ MaxHeight \in Nat
    BY Ranges
  <2>2. \A b \in Addr : db.rows[b] \in RowType
    BY DEF Typed, DbOK, Db
  <2>3. \A b \in Addr : db.rows[b].marker \in Int /\ db.rows[b].marker >= -1
    BY <2>1, <2>2 DEF RowType, Null
  <2> QED BY <2>1, <2>3
<1>1. ChainOK
  BY DEF Typed
<1>2. \A n \in db.notes : n.height = k => n \in e.notes
  OBVIOUS
<1>3. \A n \in e.notes : n.height = k => n \in db.notes \/ n.fork = chain[k].fork
  BY <1>1, PaymentsAre
<1>4. ASSUME lo <= k, k <= hi, chain[k].pays = a
      PROVE  NoteAt(a, k, chain[k]) \in e.notes
  BY <1>1, <1>4, PaymentsAre DEF NoteAt
<1>5. ASSUME NEW b \in Addr PROVE Owes(e, b, k) => Owes(db, b, k)
  BY DEF Owes, SameRow
<1>6. ASSUME NEW b \in Addr, Covers(e, b, k)
      PROVE  Covers(db, b, k) \/ (b = a /\ lo <= k /\ k <= hi)
  <2>1. CASE b # a
    BY <1>6, <2>1 DEF Covers
  <2>2. CASE b = a /\ e.rows[a].marker = db.rows[a].marker
    BY <1>6, <2>2 DEF Covers, SameRow
  <2>3. CASE /\ b = a /\ e.rows[a].marker = hi
             /\ lo <= Larger(db.rows[a].marker + 1, db.birth)
    <3>1. db.rows[a].stored /\ db.birth <= k /\ k <= hi
      BY <1>6, <2>3 DEF Covers, SameRow
    <3>2. k <= db.rows[a].marker \/ lo <= k
      BY <1>0, <2>3, <3>1 DEF Larger
    <3> QED BY <2>3, <3>1, <3>2 DEF Covers
  <2> QED BY <2>1, <2>2, <2>3
<1>7. \A b \in Addr : Owes(e, b, k) /\ chain[k].pays = b /\ b \notin q =>
        (Owes(db, b, k) /\ b \notin p) \/ NoteAt(b, k, chain[k]) \in e.notes
  <2> HIDE DEF Owes, NoteAt
  <2> QED BY <1>4, <1>5
<1>8. Calm => \A b \in Addr : Covers(e, b, k) /\ chain[k].pays = b =>
        Covers(db, b, k) \/ NoteAt(b, k, chain[k]) \in e.notes
  <2> HIDE DEF Covers, NoteAt, Calm
  <2> QED BY <1>4, <1>6
<1> HIDE DEF Covers, NoteAt, Calm, Owes, Good
<1> QED BY <1>2, <1>3, <1>7, <1>8, GoodKept

(* No mark is new, and what the rows say up to each stays right.           *)
LEMMA MarksKept ==
    ASSUME MarksOK, chain' = chain,
           \A h \in Marks' : h \in Marks /\ (Stands(h)' => Stands(h)),
           \A h \in Marks : Stands(h) => \A k \in 1 .. h :
               Good(db, k, chain[k], {}) => Good(db', k, chain[k], {})
    PROVE  MarksOK'
<1> SUFFICES ASSUME NEW h \in Marks', Stands(h)', NEW k \in 1 .. h
             PROVE  Good(db', k, chain[k], {})
  BY DEF MarksOK, Good, Owes, Covers
<1> HIDE DEF Good, Stands, Marks
<1> QED BY DEF MarksOK

(* The hashes stay known when headers are only added and no mark is new.   *)
LEMMA KnownKept ==
    ASSUME Typed, KnownOK, chain' = chain, left'.forks = left.forks,
           hdr' = hdr \/ \E H : hdr' = StoredHeaders(H),
           db'.wit \subseteq db.wit, Seam(db') = Seam(db),
           \/ tick'.at \in {"idle", "open"}
           \/ /\ tick'.at = "scan" /\ tick.at = "scan"
              /\ tick'.end = tick.end /\ tick'.anchor = tick.anchor
           \/ tick' = tick
    PROVE  KnownOK' /\ \A h \in Marks' : h \in Marks /\ (Stands(h)' => Stands(h))
<1>1. /\ HeadersOK' /\ (\A h, g : Known(h, g) => Known(h, g)')
      /\ \A h \in Height : hdr[h] # NoHash => hdr'[h] = hdr[h]
      /\ \A h \in Marks : Stands(h)' => Stands(h)
  BY HeadersKept
<1>2. \A h \in Marks' : h \in Marks
  BY DEF Marks
<1>3. Marks \subseteq Height /\ Seam(db) \in Marks /\ db.wit \subseteq Marks
  BY MarkHeights DEF Marks
<1>4. \A w \in db'.wit : w <= Seam(db') /\ hdr'[w] # NoHash
  BY <1>1, <1>3 DEF KnownOK
<1>5. Seam(db') <= Birth \/ hdr'[Seam(db')] # NoHash
  BY <1>1, <1>3 DEF KnownOK
<1>6. tick'.at = "scan" => Known(tick.end, tick.anchor)'
  <2> SUFFICES ASSUME tick'.at = "scan" PROVE Known(tick.end, tick.anchor)'
    OBVIOUS
  <2>1. PICK h, g : h = tick.end /\ g = tick.anchor
    OBVIOUS
  <2>2. tick.at = "scan" /\ h = tick'.end /\ g = tick'.anchor
    BY <2>1
  <2>3. Known(h, g)'
    BY <1>1, <2>1, <2>2 DEF KnownOK
  <2> QED BY <2>2, <2>3 DEF Known, HashAt, Tip
<1>7. tick'.at = "shielded" => tick' = tick /\
        IF tick'.prev = NoHash THEN tick'.cur <= Birth
        ELSE Known(tick.cur, tick.prev)'
  <2> SUFFICES ASSUME tick'.at = "shielded"
               PROVE  tick' = tick /\
                      IF tick'.prev = NoHash THEN tick'.cur <= Birth
                      ELSE Known(tick.cur, tick.prev)'
    OBVIOUS
  <2>0. tick' = tick
    OBVIOUS
  <2>1. PICK h, g : h = tick.cur /\ g = tick.prev
    OBVIOUS
  <2>2. IF g = NoHash THEN h <= Birth ELSE Known(h, g)'
    BY <1>1, <2>0, <2>1 DEF KnownOK
  <2> QED BY <2>0, <2>1, <2>2 DEF Known, HashAt, Tip
<1>8. KnownOK'
  BY <1>1, <1>4, <1>5, <1>6, <1>7 DEF KnownOK
<1> QED BY <1>1, <1>2, <1>8

(* recover_from_partial_sync trims to the seam: no mark is above it, and   *)
(* nothing is left above it for the pass to trip over.                     *)
LEMMA StartTickRight ==
    ASSUME History, StartTick
    PROVE  KnownOK' /\ RowsRight' /\ WalkRight'
<1>0. Typed /\ Typed'
  BY TypedScan DEF History
<1>1. /\ chain' = chain /\ hdr' = hdr /\ walk' = walk
      /\ left'.forks = left.forks /\ left'.narrow = left.narrow
  BY <1>0, SpentOK DEF StartTick, Typed
<1>2. /\ db' \in Db /\ Seam(db') = Seam(db)
      /\ \A w \in db'.wit : w \in db.wit /\ w <= Seam(db)
      /\ db'.notes = {n \in db.notes : n.height <= Seam(db)}
      /\ db'.inc = db.inc /\ db'.birth = db.birth /\ db'.trims >= db.trims
      /\ \A b \in Addr :
            /\ db'.rows[b].stored = db.rows[b].stored
            /\ db'.rows[b].marker = Smaller(db.rows[b].marker, Seam(db))
            /\ db'.rows[b].since = Smaller(db.rows[b].since, Seam(db))
  BY <1>0, StartTickEffect
<1>3. tick'.at = "idle" \/ (tick'.at = "open" /\ tick'.start = Seam(db) + 1)
  <2>1. tick' = Idle \/ \E s : tick' = [Idle EXCEPT !.at = "open",
              !.start = Seam(db') + 1, !.end = Tip, !.todo = s]
    BY DEF StartTick
  <2>2. CASE tick' = Idle
    BY <2>2, IdleTypes
  <2>3. ASSUME NEW s, tick' = [Idle EXCEPT !.at = "open",
                        !.start = Seam(db') + 1, !.end = Tip, !.todo = s]
        PROVE  tick'.at = "open" /\ tick'.start = Seam(db) + 1
    BY <1>2, <2>3 DEF Idle
  <2> QED BY <2>1, <2>2, <2>3
<1>4. KnownOK' /\ \A h \in Marks' : h \in Marks /\ (Stands(h)' => Stands(h))
  BY <1>0, <1>1, <1>2, <1>3, KnownKept DEF History
<1>5. Seam(db) \in 0 .. MaxHeight /\ Seam(db) \in Nat /\ db \in Db
  BY <1>0, Ranges DEF Typed, DbOK, Height
<1>6. ASSUME NEW h \in Marks, NEW k \in 1 .. h, Good(db, k, chain[k], {})
      PROVE  Good(db', k, chain[k], {})
  <2>1. h \in Height /\ h <= Seam(db)
    BY <1>0, <1>5, MarkHeights DEF Marks, History, KnownOK
  <2>2. k \in 1 .. Seam(db)
    BY <1>5, <2>1 DEF Height
  <2> HIDE DEF Good
  <2> QED BY <1>2, <1>5, <1>6, <2>2, GoodTrimmed
<1>7. MarksOK'
  BY <1>1, <1>4, <1>6, MarksKept DEF History, RowsRight
<1>8. OpenOK'
  <2> SUFFICES ASSUME tick'.at = "open"
               PROVE  /\ \A n \in db'.notes : n.height < tick'.start
                      /\ \A a \in Addr : db'.rows[a].marker < tick'.start
    BY DEF OpenOK
  <2>1. \A n \in db'.notes : n.height \in Nat /\ n.height <= Seam(db)
    BY <1>2, <1>5 DEF Db, Notes, Height
  <2>2. \A a \in Addr : db'.rows[a].marker <= Seam(db) /\ db'.rows[a].marker \in Int
    <3>1. \A a \in Addr : db.rows[a].marker \in Int
      BY <1>5 DEF Db, RowType, Null
    <3> QED BY <1>2, <1>5, <3>1 DEF Smaller
  <2> QED BY <1>3, <1>5, <2>1, <2>2
<1>9. ScanOK' /\ ShieldedOK'
  BY <1>3 DEF ScanOK, ShieldedOK
<1>10. WalkRight'
  BY <1>0, <1>1, <1>2, <1>4, WalkKept DEF History, WalkAside
<1> QED BY <1>4, <1>7, <1>8, <1>9, <1>10 DEF RowsRight

(* A pass opens over clean rows, with every stored receive address to do.  *)
LEMMA OpenAnchorRight ==
    ASSUME History, OpenAnchor
    PROVE  KnownOK' /\ RowsRight' /\ WalkRight'
<1>0. Typed /\ Typed'
  BY TypedScan DEF History
<1>1. /\ chain' = chain /\ hdr' = hdr /\ walk' = walk /\ left' = left /\ db' = db
      /\ tick.at = "open" /\ tick.end <= Tip
      /\ tick'.at = "scan" /\ tick'.end = tick.end /\ tick'.start = tick.start
      /\ tick'.todo = tick.todo /\ tick'.anchor = HashAt(tick.end)
  BY <1>0 DEF OpenAnchor, Typed, TickOK, TickType
<1>2. /\ HeadersOK' /\ (\A h : HashAt(h)' = HashAt(h)) /\ Tip' = Tip
      /\ \A h \in Marks : Stands(h)' => Stands(h)
  BY <1>0, <1>1, HeadersKept DEF History
<1>3. Marks' = Marks /\ Seam(db') = Seam(db)
  BY <1>1 DEF Marks, Seam
<1>4. KnownOK'
  <2>1. Known(tick.end, tick.anchor)'
    <3>1. PICK h : h = tick.end
      OBVIOUS
    <3>2. HashAt(h)' = tick'.anchor
      BY <1>1, <1>2, <3>1
    <3> QED BY <1>1, <3>1, <3>2 DEF Known, HashAt, Tip
  <2> QED BY <1>1, <1>2, <1>3, <2>1 DEF KnownOK, History
<1>5. MarksOK'
  BY <1>1, <1>2, <1>3, MarksKept DEF History, RowsRight
<1>6. OpenOK' /\ ShieldedOK'
  BY <1>1 DEF OpenOK, ShieldedOK
<1>7. ScanOK'
  <2> SUFFICES ASSUME NEW k \in tick.start .. tick.end
               PROVE  Good(db', k, chain'[k], Pending(k)')
    BY <1>1 DEF ScanOK
  <2>0. tick.start \in Nat /\ k \in Nat /\ k >= tick.start
    BY <1>0, <1>1, TickHeights DEF Height
  <2>1. \A n \in db.notes : n.height \in Nat /\ n.height # k
    BY <1>0, <1>1, <2>0 DEF History, RowsRight, OpenOK, Typed, DbOK, Db, Notes, Height
  <2>2. \A a \in Addr : ~Covers(db, a, k)
    <3>1. \A a \in Addr : db.rows[a].marker \in Int
      BY <1>0 DEF Typed, DbOK, Db, RowType, Null
    <3> QED BY <1>1, <2>0, <3>1 DEF Covers, History, RowsRight, OpenOK
  <2>3. \A a \in Addr : Owes(db, a, k) => a \in Pending(k)'
    BY <1>1 DEF Owes, Pending, History, PoolOK
  <2>4. Good(db, k, chain[k], Pending(k)')
    <3> HIDE DEF Owes, Covers, Pending
    <3> QED BY <2>1, <2>2, <2>3 DEF Good
  <2> QED BY <1>1, <2>4 DEF Good, Owes, Covers
<1>8. WalkRight'
  BY <1>0, <1>1, <1>2, <1>3, WalkKept DEF History, WalkAside, Typed, DbOK, Db
<1> QED BY <1>4, <1>5, <1>6, <1>7, <1>8 DEF RowsRight

(* What an address owes below the seam lands under an anchor that stands;  *)
(* an address with nothing to scan before its birthday starts there.       *)
LEMMA StartAddressRight ==
    ASSUME History, StartAddress
    PROVE  KnownOK' /\ RowsRight' /\ WalkRight'
<1>0. Typed /\ Typed'
  BY TypedScan DEF History
<1>1. PICK a, lo, found : /\ a = ScanOrder(tick.todo) /\ lo = RangeStart(a)
                          /\ found = Payments(a, lo, Seam(db))
  OBVIOUS
<1>2. /\ chain' = chain /\ walk' = walk /\ left' = left
      /\ hdr' = StoredHeaders(HeightsOf(found))
      /\ tick.at = "scan" /\ tick.addr = NoAddr
      /\ lo <= Seam(db) => HashAt(tick.end) = tick.anchor
      /\ tick' = [tick EXCEPT !.todo = @ \ {a}, !.addr = a,
                              !.lo = Larger(lo, Seam(db) + 1)]
  BY <1>1 DEF StartAddress
<1>3. /\ tick'.at = "scan" /\ tick'.start = tick.start /\ tick'.end = tick.end
      /\ tick'.anchor = tick.anchor /\ tick'.todo = tick.todo \ {a}
      /\ tick'.addr = a /\ tick'.lo = Larger(lo, Seam(db) + 1)
  BY <1>0, <1>2 DEF Typed, TickOK, TickType
<1>4. /\ a \in Addr /\ a \in tick.todo /\ db.rows[a].stored
      /\ lo \in 1 .. MaxHeight /\ lo >= db.birth /\ Seam(db) + 1 = tick.start
      /\ lo <= Larger(db.birth, tick.start)
  BY <1>0, <1>1, StartAddressRange
<1>5. /\ found \in SUBSET Notes
      /\ db' \in Db /\ SameRest(db, db')
      /\ IF lo <= Seam(db)
         THEN /\ db'.notes = db.notes \cup found
              /\ db'.rows[a].marker =
                   IF /\ lo <= Larger(db.rows[a].marker + 1, db.birth)
                      /\ db.rows[a].marker < Seam(db)
                   THEN Seam(db) ELSE db.rows[a].marker
         ELSE db' = db
      /\ \A b \in Addr : SameRow(db.rows[b], db'.rows[b], {"used", "marker"})
      /\ \A b \in Addr \ {a} : db'.rows[b] = db.rows[b]
  BY <1>0, <1>1, StartAddressEffect
<1>6. /\ Seam(db') = Seam(db) /\ db'.wit = db.wit /\ db'.inc = db.inc
      /\ db'.trims = db.trims /\ db'.birth = db.birth
  BY <1>5 DEF SameRest, Seam
<1>7. /\ Seam(db) \in Nat /\ Tip \in Nat /\ lo \in Nat \ {0} /\ NoAddr \notin Addr
      /\ db.birth \in Nat /\ tick.start \in Nat /\ tick.end \in Nat
      /\ tick.todo \subseteq Addr
  <2>1. Seam(db) \in Height /\ Tip \in Nat /\ db.birth \in Nat /\ MaxHeight \in Nat
    BY <1>0, Ranges
  <2>2. tick.start \in Height /\ tick.end \in Height /\ tick.todo \subseteq Addr
    BY <1>0, <1>2, TickHeights
  <2> QED BY <1>4, <2>1, <2>2, SyncAssumption DEF Height
<1>8. db'.notes = db.notes \cup found
  <2>1. ~(lo <= Seam(db)) => found = {}
    <3>1. \A n \in found : lo <= n.height /\ n.height <= Seam(db) /\ n.height \in Nat
      BY <1>0, <1>1, <1>4, <1>7, PaymentsAre DEF Typed, Notes, Height
    <3> QED BY <1>7, <3>1
  <2> QED BY <1>5, <2>1
<1>9. \/ db'.rows[a].marker = db.rows[a].marker
      \/ /\ db'.rows[a].marker = Seam(db)
         /\ lo <= Larger(db.rows[a].marker + 1, db.birth)
  BY <1>5
<1>10. ASSUME NEW k \in 1 .. Tip, NEW p, NEW q, Good(db, k, chain[k], p),
              \A x \in p : x \in q \/ (x = a /\ lo <= k /\ k <= Seam(db))
                                   \/ x \notin Addr \/ ~Owes(db, x, k)
       PROVE  Good(db', k, chain[k], q)
  <2>1. PICK hi \in Int : hi = Seam(db)
    BY <1>7
  <2>2. PICK e \in Db : e = db'
    BY <1>5
  <2>3. /\ e.notes = db.notes \cup Payments(a, lo, hi) /\ e.birth = db.birth
        /\ \A b \in Addr : SameRow(db.rows[b], e.rows[b], {"used", "marker"})
        /\ \A b \in Addr \ {a} : e.rows[b] = db.rows[b]
        /\ \/ e.rows[a].marker = db.rows[a].marker
           \/ /\ e.rows[a].marker = hi
              /\ lo <= Larger(db.rows[a].marker + 1, db.birth)
    BY <1>1, <1>5, <1>6, <1>8, <1>9, <2>1, <2>2
  <2>4. Good(e, k, chain[k], q)
    <3> HIDE DEF Good, Owes
    <3> QED BY <1>0, <1>4, <1>7, <1>10, <2>1, <2>3, GoodWindow
  <2> QED BY <2>2, <2>4
<1>11. KnownOK' /\ \A h \in Marks' : h \in Marks /\ (Stands(h)' => Stands(h))
  BY <1>0, <1>2, <1>3, <1>6, KnownKept DEF History
<1>12. MarksOK'
  <2>1. ASSUME NEW h \in Marks, Stands(h), NEW k \in 1 .. h,
               Good(db, k, chain[k], {})
        PROVE  Good(db', k, chain[k], {})
    <3>1. k \in 1 .. Tip
      BY <1>0, <1>7, <2>1, MarkHeights DEF Height
    <3> HIDE DEF Good
    <3> QED BY <1>10, <2>1, <3>1
  <2> HIDE DEF Good, Stands, Marks
  <2> QED BY <1>2, <1>11, <2>1, MarksKept DEF History, RowsRight
<1>13. OpenOK' /\ ShieldedOK'
  BY <1>3 DEF OpenOK, ShieldedOK
<1>14. ScanOK'
  <2> SUFFICES ASSUME HashAt(tick.end) = tick.anchor,
                      NEW k \in tick.start .. tick.end
               PROVE  Good(db', k, chain[k], Pending(k)')
    BY <1>2, <1>3 DEF ScanOK, HashAt, Tip, Good, Owes, Covers
  <2>1. k \in 1 .. Tip
    <3>1. tick.end \in 1 .. Tip
      BY <1>0, <1>2, HashAtType, ForkNames, TickHeights DEF Typed
    <3> QED BY <1>0, <1>2, <1>7, <3>1, TickHeights DEF Height
  <2>2. Good(db, k, chain[k], Pending(k))
    BY <1>2 DEF History, RowsRight, ScanOK
  <2>3. Pending(k)' = (tick.todo \ {a})
                      \cup (IF k >= Larger(lo, Seam(db) + 1) THEN {a} ELSE {})
    BY <1>3 DEF Pending
  <2>4. ~(k >= Larger(lo, Seam(db) + 1)) => ~Owes(db, a, k)
    BY <1>4, <1>7, <2>1 DEF Larger, Owes
  <2>5. \A x \in Pending(k) : x \in Pending(k)' \/ x \notin Addr \/ ~Owes(db, x, k)
    BY <1>2, <1>7, <2>3, <2>4 DEF Pending
  <2> HIDE DEF Good, Pending, Owes
  <2> QED BY <1>10, <2>1, <2>2, <2>5
<1>15. WalkRight'
  BY <1>0, <1>2, <1>6, <1>11, WalkKept DEF History, WalkAside, Typed, DbOK, Db
<1> QED BY <1>11, <1>12, <1>13, <1>14, <1>15 DEF RowsRight

(* A window above the seam, dated or not, while the opening anchor stands. *)
LEMMA ScanWindowRight ==
    ASSUME History, NEW hi \in Height, ScanWindow(hi) \/ ScanWindowUndated(hi)
    PROVE  KnownOK' /\ RowsRight' /\ WalkRight'
<1>0. Typed /\ Typed'
  BY TypedScan DEF History
<1>1. PICK a, lo, found : /\ a = tick.addr /\ lo = tick.lo
                          /\ found = Payments(a, lo, hi)
  OBVIOUS
<1>2. /\ chain' = chain /\ walk' = walk
      /\ left'.forks = left.forks /\ left'.narrow = left.narrow
      /\ tick.at = "scan"
      /\ hdr' = hdr \/ \E H : hdr' = StoredHeaders(H)
      /\ \/ tick' = tick
         \/ tick' = [tick EXCEPT !.lo = hi + 1,
                                 !.addr = IF hi = tick.end THEN NoAddr ELSE @]
  <2>1. CASE ScanWindow(hi)
    BY <2>1 DEF ScanWindow
  <2>2. CASE ScanWindowUndated(hi)
    <3>1. chain' = chain /\ Failing
      BY <2>2 DEF ScanWindowUndated
    <3>2. left'.forks = left.forks /\ left'.narrow = left.narrow
      BY <1>0, <3>1, SpentOK DEF Typed, Failing
    <3> QED BY <2>2, <3>2 DEF ScanWindowUndated
  <2> QED BY <2>1, <2>2
<1>3. /\ tick'.at = "scan" /\ tick'.start = tick.start /\ tick'.end = tick.end
      /\ tick'.anchor = tick.anchor /\ tick'.todo = tick.todo
      /\ \/ tick'.addr = a /\ tick'.lo = lo
         \/ tick'.addr = a /\ tick'.lo = hi + 1
         \/ hi = tick.end /\ tick'.lo = hi + 1
  BY <1>0, <1>1, <1>2 DEF Typed, TickOK, TickType
<1>4. /\ a \in Addr /\ db.rows[a].stored
      /\ tick.start <= lo /\ lo <= hi /\ hi <= tick.end /\ lo \in Nat \ {0}
      /\ db' \in Db /\ SameRest(db, db')
      /\ db'.notes = db.notes \cup found
      /\ \A b \in Addr : SameRow(db.rows[b], db'.rows[b], {"used", "marker"})
      /\ \A b \in Addr \ {a} : db'.rows[b] = db.rows[b]
      /\ \/ db'.rows[a].marker = db.rows[a].marker
         \/ /\ db'.rows[a].marker = hi
            /\ lo <= Larger(db.rows[a].marker + 1, db.birth)
  BY <1>0, <1>1, ScanWindowEffect
<1>5. /\ Seam(db') = Seam(db) /\ db'.wit = db.wit /\ db'.inc = db.inc
      /\ db'.trims = db.trims /\ db'.birth = db.birth
  BY <1>4 DEF SameRest, Seam
<1>6. /\ Tip \in Nat /\ tick.start \in Nat /\ tick.end \in Nat /\ hi \in Nat
      /\ tick.start >= 1
  BY <1>0, <1>2, Ranges, TickHeights DEF Height
<1>7. ASSUME NEW k \in 1 .. Tip, NEW p, NEW q, Good(db, k, chain[k], p),
             \A x \in p : x \in q \/ (x = a /\ lo <= k /\ k <= hi)
                                  \/ x \notin Addr \/ ~Owes(db, x, k)
      PROVE  Good(db', k, chain[k], q)
  <2>1. PICK e \in Db : e = db'
    BY <1>4
  <2>2. /\ e.notes = db.notes \cup Payments(a, lo, hi) /\ e.birth = db.birth
        /\ \A b \in Addr : SameRow(db.rows[b], e.rows[b], {"used", "marker"})
        /\ \A b \in Addr \ {a} : e.rows[b] = db.rows[b]
        /\ \/ e.rows[a].marker = db.rows[a].marker
           \/ /\ e.rows[a].marker = hi
              /\ lo <= Larger(db.rows[a].marker + 1, db.birth)
    BY <1>1, <1>4, <1>5, <2>1
  <2>3. hi \in Int
    BY <1>6
  <2>4. Good(e, k, chain[k], q)
    <3> HIDE DEF Good, Owes
    <3> QED BY <1>0, <1>4, <1>7, <2>2, <2>3, GoodWindow
  <2> QED BY <2>1, <2>4
<1>8. KnownOK' /\ \A h \in Marks' : h \in Marks /\ (Stands(h)' => Stands(h))
  BY <1>0, <1>2, <1>3, <1>5, KnownKept DEF History
<1>9. MarksOK'
  <2>1. ASSUME NEW h \in Marks, Stands(h), NEW k \in 1 .. h,
               Good(db, k, chain[k], {})
        PROVE  Good(db', k, chain[k], {})
    <3>1. k \in 1 .. Tip
      BY <1>0, <1>6, <2>1, MarkHeights DEF Height
    <3> HIDE DEF Good
    <3> QED BY <1>7, <2>1, <3>1
  <2> HIDE DEF Good, Stands, Marks
  <2> QED BY <1>2, <1>8, <2>1, MarksKept DEF History, RowsRight
<1>10. OpenOK' /\ ShieldedOK'
  BY <1>3 DEF OpenOK, ShieldedOK
<1>11. ScanOK'
  <2> SUFFICES ASSUME HashAt(tick.end) = tick.anchor,
                      NEW k \in tick.start .. tick.end
               PROVE  Good(db', k, chain[k], Pending(k)')
    BY <1>2, <1>3 DEF ScanOK, HashAt, Tip, Good, Owes, Covers
  <2>1. k \in 1 .. Tip
    <3>1. tick.end \in 1 .. Tip
      BY <1>0, <1>2, HashAtType, ForkNames, TickHeights DEF Typed
    <3> QED BY <1>6, <3>1
  <2>2. Good(db, k, chain[k], Pending(k))
    BY <1>2 DEF History, RowsRight, ScanOK
  <2>3. ASSUME NEW x \in Pending(k)
        PROVE  x \in Pending(k)' \/ (x = a /\ lo <= k /\ k <= hi)
    BY <1>1, <1>3, <1>4, <1>6 DEF Pending
  <2> HIDE DEF Good, Pending, Owes
  <2> QED BY <1>7, <2>1, <2>2, <2>3
<1>12. WalkRight'
  BY <1>0, <1>2, <1>5, <1>8, WalkKept DEF History, WalkAside, Typed, DbOK, Db
<1> QED BY <1>8, <1>9, <1>10, <1>11, <1>12 DEF RowsRight

(* The closing anchor is the opening one, so every address is scanned on   *)
(* the blocks that stand; a shielded pass that links stands on the seam.   *)
LEMMA ClosePassRight ==
    ASSUME History, ClosePass
    PROVE  KnownOK' /\ RowsRight' /\ WalkRight'
<1>0. Typed /\ Typed'
  BY TypedShielded DEF History
<1>1. /\ chain' = chain /\ hdr' = hdr /\ walk' = walk /\ left' = left
      /\ tick.at = "scan" /\ tick.addr = NoAddr /\ tick.todo = {}
      /\ HashAt(tick.end) = tick.anchor
      /\ tick'.at = "shielded" /\ tick'.end = tick.end
      /\ tick'.cur = tick.start - 1 /\ tick'.prev = hdr[tick.start - 1]
  BY DEF ClosePass, ScanDone, Idle
<1>2. /\ db'.wit = db.wit /\ db'.notes = db.notes /\ db'.trims = db.trims
      /\ db'.inc = db.inc /\ db'.birth = db.birth /\ Seam(db') = Seam(db)
      /\ \A b \in Addr : /\ db'.rows[b].stored = db.rows[b].stored
                         /\ db'.rows[b].marker = db.rows[b].marker
                         /\ db'.rows[b].since = db.rows[b].since
  BY <1>0, ClosePassEffect DEF SameRow
<1>3. ASSUME NEW k, NEW b, NEW p, Good(db, k, b, p) PROVE Good(db', k, b, p)
  <2> HIDE DEF Good
  <2> QED BY <1>2, <1>3, GoodSame
<1>4. /\ Seam(db) = tick.start - 1 /\ Seam(db) \in Height /\ Seam(db) \in Marks
      /\ tick.end \in 1 .. Tip /\ Tip \in Nat /\ tick.start \in Height
      /\ tick.end \in Height
  <2>1. tick.end \in 1 .. Tip
    BY <1>0, <1>1, HashAtType, ForkNames, TickHeights DEF Typed
  <2> QED BY <1>0, <1>1, <2>1, Ranges, MarkHeights, TickHeights
<1>5. /\ HeadersOK' /\ (\A h : HashAt(h)' = HashAt(h)) /\ Tip' = Tip
      /\ (\A h \in Marks : Stands(h)' => Stands(h))
      /\ \A h, g : Known(h, g) => Known(h, g)'
  BY <1>0, <1>1, HeadersKept DEF History
<1>6. Marks' = Marks
  BY <1>2 DEF Marks
<1>7. PICK c, g : c = Seam(db) /\ g = hdr[c] /\ tick'.cur = c /\ tick'.prev = g
  BY <1>1, <1>4
<1>8. IF g = NoHash THEN c <= Birth ELSE Known(c, g)'
  BY <1>4, <1>5, <1>7 DEF History, KnownOK, HeadersOK
<1>9. KnownOK'
  <2>1. IF tick'.prev = NoHash THEN tick'.cur <= Birth
        ELSE Known(tick.cur, tick.prev)'
    BY <1>7, <1>8 DEF Known, HashAt, Tip
  <2> QED BY <1>1, <1>2, <1>5, <2>1 DEF KnownOK, History
<1>10. MarksOK'
  <2> HIDE DEF Good
  <2> QED BY <1>1, <1>3, <1>5, <1>6, MarksKept DEF History, RowsRight
<1>11. OpenOK' /\ ScanOK'
  BY <1>1 DEF OpenOK, ScanOK
<1>12. ShieldedOK'
  <2> SUFFICES ASSUME Linked', NEW k \in 1 .. tick.end
               PROVE  Good(db', k, chain[k], {})
    BY <1>1, <1>4, <1>5 DEF ShieldedOK, Good, Owes, Covers
  <2>1. Stands(c)
    <3>1. g \in {NoHash, HashAt(c)'}
      BY <1>7 DEF Linked, HashAt, Tip
    <3> QED BY <1>5, <1>7, <1>8, <3>1 DEF Stands
  <2>2. Good(db, k, chain[k], {})
    <3>1. CASE k <= c
      <4>1. k \in 1 .. c
        BY <1>4, <1>7, <3>1 DEF Height
      <4> HIDE DEF Good, Stands
      <4> QED BY <1>4, <1>7, <2>1, <4>1 DEF History, RowsRight, MarksOK
    <3>2. CASE k > c
      <4>1. k \in tick.start .. tick.end
        BY <1>4, <1>7, <3>2 DEF Height
      <4>2. Good(db, k, chain[k], Pending(k))
        BY <1>1, <4>1 DEF History, RowsRight, ScanOK
      <4>3. \A x \in Addr : x \notin Pending(k)
        BY <1>1, SyncAssumption DEF Pending
      <4> HIDE DEF Owes, Covers, Pending
      <4> QED BY <4>2, <4>3 DEF Good
    <3> QED BY <1>4, <1>7, <3>1, <3>2 DEF Height
  <2> HIDE DEF Good
  <2> QED BY <1>3, <2>2
<1>13. WalkRight'
  BY <1>0, <1>1, <1>2, <1>5, <1>6, WalkKept DEF History, WalkAside, Typed, DbOK, Db
<1> QED BY <1>9, <1>10, <1>11, <1>12, <1>13 DEF RowsRight

-----------------------------------------------------------------------------
(* The shielded pass, rewinds and failures.                                *)

(* A chunk that links moves the seam up over heights the transparent pass  *)
(* was right about.                                                        *)
LEMMA CommitChunkRight ==
    ASSUME History, NEW h \in Height, NEW w \in BOOLEAN, CommitChunk(h, w)
    PROVE  KnownOK' /\ RowsRight' /\ WalkRight'
<1>0. Typed /\ Typed'
  BY TypedShielded DEF History
<1>1. /\ chain' = chain /\ walk' = walk /\ left' = left
      /\ hdr' = StoredHeaders({h}) /\ tick.at = "shielded" /\ Linked /\ h <= Tip
      /\ tick' = IF h = tick.end THEN Idle
                 ELSE [tick EXCEPT !.cur = h, !.prev = HashAt(h)]
  BY DEF CommitChunk
<1>2. /\ db'.wit \subseteq db.wit \cup {h}
      /\ db'.rows = db.rows /\ db'.notes = db.notes /\ db'.trims = db.trims
      /\ db'.inc = db.inc /\ db'.birth = db.birth
      /\ Seam(db') = h /\ Seam(db) = tick.cur /\ tick.cur < h /\ h <= tick.end
  BY <1>0, CommitChunkEffect
<1>3. \/ tick'.at = "idle"
      \/ /\ tick'.at = "shielded" /\ tick'.end = tick.end /\ tick'.cur = h
         /\ tick'.prev = HashAt(h)
  BY <1>0, <1>1, IdleTypes DEF Typed, TickOK, TickType
<1>4. /\ HeadersOK' /\ (\A x : HashAt(x)' = HashAt(x)) /\ Tip' = Tip
      /\ \A x \in Height : hdr[x] # NoHash => hdr'[x] = hdr[x]
  BY <1>0, <1>1, HeadersKept DEF History
<1>5. HashAt(h) # NoHash /\ hdr'[h] # NoHash
  <2>1. HashAt(h) # NoHash
    <3>1. h \in 1 .. Tip
      BY <1>0, <1>1, Ranges DEF Height
    <3> QED BY <1>0, <3>1, ForkNames DEF HashAt
  <2>2. hdr'[h] = IF hdr[h] = NoHash THEN HashAt(h) ELSE hdr[h]
    BY <1>0, <1>1, StoredHeadersType DEF Typed, HistoryOK
  <2> QED BY <2>1, <2>2
<1>6. tick.end <= Tip /\ \A k \in 1 .. tick.end : Good(db, k, chain[k], {})
  BY <1>1 DEF History, RowsRight, ShieldedOK
<1>7. ASSUME NEW k \in 1 .. tick.end PROVE Good(db', k, chain[k], {})
  <2>1. Good(db, k, chain[k], {})
    BY <1>6
  <2> HIDE DEF Good
  <2> QED BY <1>2, <2>1, GoodSame
<1>8. /\ tick.end \in Nat /\ h \in Nat /\ tick.cur \in Nat /\ db.wit \subseteq Nat
      /\ db.wit \subseteq Height
  BY <1>0, <1>1, TickHeights DEF Height, Typed, DbOK, Db
<1>9. \A x \in Marks' : x \in Nat /\ x <= h
  BY <1>2, <1>8 DEF Marks, History, KnownOK
<1>10. KnownOK'
  <2>1. \A x \in db'.wit : x <= Seam(db') /\ hdr'[x] # NoHash
    BY <1>2, <1>4, <1>5, <1>8, <1>9 DEF History, KnownOK
  <2>2. tick'.at = "shielded" => tick'.prev # NoHash /\ Known(tick.cur, tick.prev)'
    <3> SUFFICES ASSUME tick'.at = "shielded"
                 PROVE  tick'.prev # NoHash /\ Known(tick.cur, tick.prev)'
      OBVIOUS
    <3>1. tick'.cur = h /\ tick'.prev = HashAt(h) /\ HashAt(h)' = HashAt(h)
      BY <1>3, <1>4
    <3> QED BY <1>5, <3>1 DEF Known, HashAt, Tip
  <2>3. tick'.at # "scan"
    BY <1>3
  <2> QED BY <1>2, <1>4, <1>5, <2>1, <2>2, <2>3 DEF KnownOK
<1>11. MarksOK'
  <2> SUFFICES ASSUME NEW x \in Marks', NEW k \in 1 .. x
               PROVE  Good(db', k, chain[k], {})
    BY <1>1 DEF MarksOK, Good, Owes, Covers
  <2>1. k \in 1 .. tick.end
    BY <1>2, <1>8, <1>9
  <2> QED BY <1>7, <2>1
<1>12. OpenOK' /\ ScanOK'
  BY <1>3 DEF OpenOK, ScanOK
<1>13. ShieldedOK'
  <2> SUFFICES ASSUME tick'.end = tick.end, NEW k \in 1 .. tick.end
               PROVE  Good(db', k, chain[k], {})
    BY <1>1, <1>3, <1>4, <1>6 DEF ShieldedOK, Good, Owes, Covers
  <2> QED BY <1>7
<1>14. WalkRight'
  BY <1>0, <1>1, <1>2, <1>8, WalkKept DEF History, WalkAside, Typed, DbOK, Db
<1> QED BY <1>10, <1>11, <1>12, <1>13, <1>14 DEF RowsRight

(* An account that starts again from its birthday (reset_sync, a restore). *)
LEMMA FreshRight ==
    ASSUME History, Typed', tick'.at = "idle", WalkAside,
           db'.hT = db'.birth, db'.hS = db'.birth, db'.wit = {}, db'.notes = {},
           db'.inc = db.inc + 1,
           \A a \in Addr : /\ db'.rows[a].marker <= 0
                           /\ db'.rows[a].stored => db'.rows[a].since = db'.birth,
           HeadersOK'
    PROVE  KnownOK' /\ RowsRight' /\ WalkRight'
<1>0. Typed /\ db' \in Db
  BY DEF History, Typed, DbOK
<1>1. db'.birth \in Nat /\ db'.birth <= Birth /\ Birth \in Nat
  BY <1>0, SyncAssumption DEF Db
<1>2. Seam(db') = db'.birth /\ Marks' = {db'.birth}
  BY <1>1 DEF Seam, Smaller, Marks
<1>3. KnownOK'
  BY <1>1, <1>2 DEF KnownOK
<1>4. ASSUME NEW k \in 1 .. db'.birth PROVE Good(db', k, chain'[k], {})
  <2> HIDE DEF Good
  <2> QED BY <1>0, GoodFresh
<1>5. MarksOK'
  <2> SUFFICES ASSUME NEW h \in Marks', NEW k \in 1 .. h
               PROVE  Good(db', k, chain'[k], {})
    BY DEF MarksOK, Good, Owes, Covers
  <2> QED BY <1>2, <1>4
<1>6. OpenOK' /\ ScanOK' /\ ShieldedOK'
  BY DEF OpenOK, ScanOK, ShieldedOK
<1>7. WalkRight'
  BY <1>0, WalkRetired DEF History
<1> QED BY <1>3, <1>5, <1>6, <1>7 DEF RowsRight

(* rewind_sync: a checkpoint below the height is a mark, and the headers   *)
(* up to it stay.                                                          *)
LEMMA RewindRight ==
    ASSUME History, Typed', NEW x \in Height, db' = RewoundSync(db, x),
           hdr' = [k \in Height |-> IF k > x THEN NoHash ELSE hdr[k]],
           tick'.at = "idle", WalkAside
    PROVE  KnownOK' /\ RowsRight' /\ WalkRight'
<1>0. Typed /\ db \in Db /\ db' \in Db /\ x \in Nat
  BY DEF History, Typed, DbOK, Height
<1>1. (\A h : HashAt(h)' = HashAt(h)) /\ chain' = chain
  BY DEF HashAt, Tip, WalkAside
<1>2. HeadersOK'
  <2> SUFFICES ASSUME NEW h \in Height, hdr[h]' # NoHash PROVE Known(h, hdr[h])'
    BY DEF HeadersOK
  <2>1. hdr'[h] = hdr[h] /\ hdr[h] # NoHash
    OBVIOUS
  <2>2. Known(h, hdr[h])
    BY <2>1 DEF History, KnownOK, HeadersOK
  <2> QED BY <1>1, <2>1, <2>2 DEF Known, WalkAside
<1>3. CASE db' = ResetSync(db)
  <2>1. /\ db'.hT = db'.birth /\ db'.hS = db'.birth /\ db'.wit = {}
        /\ db'.notes = {} /\ db'.inc = db.inc + 1
        /\ \A a \in Addr : /\ db'.rows[a].marker = Smaller(db.rows[a].marker, 0)
                           /\ db'.rows[a].since = db'.birth
    BY <1>0, <1>3, ResetDb
  <2>2. \A a \in Addr : db'.rows[a].marker <= 0
    <3>1. \A a \in Addr : db.rows[a].marker \in Int
      BY <1>0 DEF Db, RowType, Null
    <3> QED BY <2>1, <3>1 DEF Smaller
  <2> QED BY <1>2, <2>1, <2>2, FreshRight
<1>4. ASSUME NEW w \in db.wit, w < x, db' = Retired(Trimmed(db, w))
      PROVE  KnownOK' /\ RowsRight' /\ WalkRight'
  <2>0. w \in Height /\ w \in 0 .. MaxHeight /\ w \in Nat
    BY <1>0, SyncAssumption DEF Db, Height
  <2>1. PICK t : t = Trimmed(db, w)
    OBVIOUS
  <2>2. /\ t \in Db /\ t.hT = w /\ t.hS = w /\ t.wit = {v \in db.wit : v <= w}
        /\ t.notes = {n \in db.notes : n.height <= w}
        /\ t.inc = db.inc /\ t.birth = db.birth
        /\ \A a \in Addr : /\ t.rows[a].stored = db.rows[a].stored
                           /\ t.rows[a].marker = Smaller(db.rows[a].marker, w)
                           /\ t.rows[a].since = Smaller(db.rows[a].since, w)
    BY <1>0, <2>0, <2>1, TrimmedDb DEF SameRow
  <2>3. /\ db'.inc = db.inc + 1 /\ db'.hT = w /\ db'.hS = w
        /\ db'.wit = {v \in db.wit : v <= w} /\ db'.birth = db.birth
        /\ db'.notes = {n \in db.notes : n.height <= w}
        /\ \A a \in Addr : /\ db'.rows[a].stored = db.rows[a].stored
                           /\ db'.rows[a].marker = Smaller(db.rows[a].marker, w)
                           /\ db'.rows[a].since = Smaller(db.rows[a].since, w)
    BY <1>4, <2>1, <2>2, RetiredDb
  <2>4. Seam(db') = w
    BY <2>0, <2>3 DEF Seam, Smaller
  <2>5. ASSUME NEW h \in Marks'
        PROVE  /\ h \in Marks /\ h \in Height /\ h <= w
               /\ hdr'[h] = hdr[h] /\ (Stands(h)' => Stands(h))
    <3>1. h \in db.wit /\ h \in Marks /\ h <= w
      BY <1>4, <2>0, <2>3, <2>4 DEF Marks
    <3>2. h \in Height /\ h \in Nat
      BY <1>0, <3>1 DEF Db, Height
    <3>3. hdr'[h] = hdr[h]
      BY <1>0, <1>4, <2>0, <3>1, <3>2
    <3> QED BY <1>1, <3>1, <3>2, <3>3 DEF Stands
  <2>6. KnownOK'
    <3>1. \A v \in db'.wit : v <= Seam(db') /\ hdr'[v] # NoHash
      BY <2>3, <2>4, <2>5 DEF Marks, History, KnownOK
    <3>2. hdr'[Seam(db')] # NoHash
      <4>1. Seam(db') \in Marks'
        BY DEF Marks
      <4> QED BY <1>4, <2>4, <2>5, <4>1 DEF History, KnownOK
    <3> QED BY <1>2, <3>1, <3>2 DEF KnownOK
  <2>7. MarksOK'
    <3> SUFFICES ASSUME NEW h \in Marks', Stands(h)', NEW k \in 1 .. h
                 PROVE  Good(db', k, chain[k], {})
      BY <1>1 DEF MarksOK, Good, Owes, Covers
    <3>1. h \in Marks /\ h \in Nat /\ h <= w /\ Stands(h)
      BY <2>5 DEF Height
    <3>2. Good(db, k, chain[k], {}) /\ k \in 1 .. w
      BY <2>0, <3>1 DEF History, RowsRight, MarksOK
    <3> HIDE DEF Good, Stands, Marks
    <3> QED BY <1>0, <2>0, <2>3, <3>2, GoodTrimmed
  <2>8. OpenOK' /\ ScanOK' /\ ShieldedOK'
    BY DEF OpenOK, ScanOK, ShieldedOK
  <2>9. WalkRight'
    BY <1>0, <2>3, WalkRetired DEF History
  <2> QED BY <2>6, <2>7, <2>8, <2>9 DEF RowsRight
<1> QED BY <1>0, <1>3, <1>4, RewoundDb

(* A step of the tick keeps the history right.                             *)
LEMMA TickRight ==
    ASSUME History, Tick
    PROVE  KnownOK' /\ RowsRight' /\ WalkRight'
<1>0. Typed
  BY DEF History
<1>1. CASE MeetReorg
  <2>1. Typed'
    BY <1>0, <1>1, TypedShielded
  <2>2. PICK x : x = tick.cur
    OBVIOUS
  <2>3. /\ x \in Height /\ db' = RewoundSync(db, x)
        /\ hdr' = [k \in Height |-> IF k > x THEN NoHash ELSE hdr[k]]
        /\ tick'.at = "idle" /\ WalkAside
    BY <1>0, <1>1, <2>2, TickHeights, IdleTypes DEF MeetReorg, WalkAside
  <2> QED BY <2>1, <2>3, RewindRight
<1>2. CASE FailTick
  <2>0. Typed'
    BY <1>0, <1>2, TypedShielded
  <2>1. /\ chain' = chain /\ hdr' = hdr /\ walk' = walk /\ db' = db
        /\ left'.forks = left.forks /\ left'.narrow = left.narrow
        /\ tick'.at = "idle"
    BY <1>0, <1>2, SpentOK, IdleTypes DEF FailTick, Failing, Typed
  <2>2. KnownOK' /\ \A h \in Marks' : h \in Marks /\ (Stands(h)' => Stands(h))
    BY <1>0, <2>1, KnownKept DEF History
  <2>3. MarksOK'
    BY <2>1, <2>2, MarksKept DEF History, RowsRight
  <2>4. OpenOK' /\ ScanOK' /\ ShieldedOK'
    BY <2>1 DEF OpenOK, ScanOK, ShieldedOK
  <2>5. WalkRight'
    BY <1>0, <2>0, <2>1, <2>2, WalkKept DEF History, WalkAside, Typed, DbOK, Db
  <2> QED BY <2>2, <2>3, <2>4, <2>5 DEF RowsRight
<1>3. CASE StartTick
  BY <1>3, StartTickRight
<1>4. CASE OpenAnchor
  BY <1>4, OpenAnchorRight
<1>5. CASE StartAddress
  BY <1>5, StartAddressRight
<1>6. CASE \E h \in Height : ScanWindow(h) \/ ScanWindowUndated(h)
  BY <1>6, ScanWindowRight
<1>7. CASE ClosePass
  BY <1>7, ClosePassRight
<1>8. CASE \E h \in Height, w \in BOOLEAN : CommitChunk(h, w)
  BY <1>8, CommitChunkRight
<1> QED BY <1>1, <1>2, <1>3, <1>4, <1>5, <1>6, <1>7, <1>8 DEF Tick

-----------------------------------------------------------------------------
(* Host operations.                                                        *)

(* A new birthday clears the markers, and no receive address owes more     *)
(* than ticks since the old one have scanned.                              *)
LEMMA HostBirthRight ==
    ASSUME History, NEW b \in Births, HostBirth(b), Typed'
    PROVE  KnownOK' /\ RowsRight' /\ WalkRight'
<1>0. Typed /\ db \in Db /\ b \in 1 .. Birth
  BY SyncAssumption DEF History, Typed, DbOK
<1>1. /\ chain' = chain /\ hdr' = hdr /\ walk' = walk /\ tick' = tick
      /\ left'.forks = left.forks /\ left'.narrow = left.narrow
      /\ tick.at = "idle" /\ db' = MovedBirth(db, b)
  BY <1>0, SpentOK DEF HostBirth, Host, Quiet, Typed
<1>2. /\ db'.inc = db.inc + 1 /\ db'.birth = b
      /\ db'.hT = db.hT /\ db'.hS = db.hS /\ db'.wit = db.wit
      /\ db'.notes = db.notes
      /\ \A a \in Addr :
            /\ db'.rows[a].stored = db.rows[a].stored
            /\ db'.rows[a].marker = Null
            /\ db'.rows[a].since = Larger(db.rows[a].since, db.birth - 1)
  BY <1>0, <1>1, MovedBirthDb DEF SameRow
<1>3. Seam(db') = Seam(db)
  BY <1>2 DEF Seam
<1>4. KnownOK' /\ \A h \in Marks' : h \in Marks /\ (Stands(h)' => Stands(h))
  BY <1>0, <1>1, <1>2, <1>3, KnownKept DEF History
<1>5. ASSUME NEW h \in Marks, NEW k \in 1 .. h, Good(db, k, chain[k], {})
      PROVE  Good(db', k, chain[k], {})
  <2>0. k \in Nat /\ k >= 1 /\ db.birth \in Nat
        /\ \A a \in Addr : db.rows[a].since \in Nat
    BY <1>0, MarkHeights, SyncAssumption DEF Height, Db, RowType
  <2>1. ASSUME NEW a \in Addr, Owes(db', a, k) PROVE Owes(db, a, k)
    BY <1>2, <2>0, <2>1 DEF Owes, Larger
  <2>2. ASSUME NEW a \in Addr, Covers(db', a, k) PROVE Covers(db, a, k)
    BY <1>2, <2>0, <2>2 DEF Covers, Null
  <2> HIDE DEF Good, Owes, Covers, NoteAt, Calm
  <2> QED BY <1>2, <1>5, <2>1, <2>2, GoodKept
<1>6. MarksOK'
  <2> HIDE DEF Good, Marks, Stands
  <2> QED BY <1>1, <1>4, <1>5, MarksKept DEF History, RowsRight
<1>7. OpenOK' /\ ScanOK' /\ ShieldedOK'
  BY <1>1 DEF OpenOK, ScanOK, ShieldedOK
<1>8. WalkRight'
  BY <1>0, <1>1, <1>2, WalkRetired DEF History, WalkAside
<1> QED BY <1>4, <1>6, <1>7, <1>8 DEF RowsRight

(* A new address claims nothing and is owed nothing up to the seam; a      *)
(* change address may appear under a running tick, and ticks owe it none.  *)
LEMMA HostAddressRight ==
    ASSUME History, Typed',
           \/ HostAddress("receive", ReceiveScope)
           \/ HostAddress("change", ChangeScope)
    PROVE  KnownOK' /\ RowsRight' /\ WalkRight'
<1>0. Typed /\ db \in Db
  BY DEF History, Typed, DbOK
<1>1. PICK op, scope : /\ HostAddress(op, scope)
                       /\ op = "change" => scope = ChangeScope
  BY DEF ChangeScope
<1>2. PICK a : a = <<scope, HighestStored(db, scope) + 1>>
  OBVIOUS
<1>3. /\ chain' = chain /\ hdr' = hdr /\ walk' = walk /\ tick' = tick
      /\ left'.forks = left.forks /\ left'.narrow = left.narrow
      /\ op # "change" => tick.at = "idle"
  BY <1>0, <1>1, SpentOK DEF HostAddress, Host, Quiet, Typed
<1>4. /\ a \in Addr /\ SameRest(db, db') /\ db'.notes = db.notes
      /\ \A b \in Addr \ {a} : db'.rows[b] = db.rows[b]
      /\ db' = db \/ db'.rows[a] = Row(Seam(db))
  BY <1>0, <1>1, <1>2, HostAddressEffect
<1>5. /\ Seam(db') = Seam(db) /\ db'.wit = db.wit /\ db'.inc = db.inc
      /\ db'.trims = db.trims /\ db'.birth = db.birth
  BY <1>4 DEF SameRest, Seam
<1>6. KnownOK' /\ \A h \in Marks' : h \in Marks /\ (Stands(h)' => Stands(h))
  BY <1>0, <1>3, <1>5, KnownKept DEF History
<1>7. ASSUME NEW k \in Nat, k >= 1, NEW b, NEW p, Good(db, k, b, p),
             k <= Seam(db) \/ op = "change"
      PROVE  Good(db', k, b, p)
  <2>0. Seam(db) \in Nat
    BY <1>0, Ranges DEF Height
  <2>1. ASSUME NEW x \in Addr, Owes(db', x, k) PROVE Owes(db, x, k)
    <3>1. CASE x # a \/ db' = db
      BY <1>4, <1>5, <2>1, <3>1 DEF Owes
    <3>2. CASE x = a /\ db'.rows[a] = Row(Seam(db))
      <4>1. db'.rows[x].since = Seam(db)
        BY <3>2 DEF Row
      <4>2. op = "change" => x[1] # ReceiveScope
        BY <1>1, <1>2, <3>2 DEF ChangeScope, ReceiveScope
      <4> QED BY <1>7, <2>0, <2>1, <4>1, <4>2 DEF Owes
    <3> QED BY <1>4, <3>1, <3>2
  <2>2. ASSUME NEW x \in Addr, Covers(db', x, k) PROVE Covers(db, x, k)
    <3>1. CASE x # a \/ db' = db
      BY <1>4, <1>5, <2>2, <3>1 DEF Covers
    <3>2. CASE x = a /\ db'.rows[a] = Row(Seam(db))
      BY <1>7, <2>2, <3>2 DEF Covers, Row, Null
    <3> QED BY <1>4, <3>1, <3>2
  <2> HIDE DEF Good, Owes, Covers, NoteAt, Calm
  <2> QED BY <1>4, <1>7, <2>1, <2>2, GoodKept
<1>8. MarksOK'
  <2>1. ASSUME NEW h \in Marks, NEW k \in 1 .. h, Good(db, k, chain[k], {})
        PROVE  Good(db', k, chain[k], {})
    <3>1. h \in Height /\ h <= Seam(db) /\ Seam(db) \in Height
      BY <1>0, MarkHeights, Ranges DEF Marks, History, KnownOK, Height
    <3>2. k \in Nat /\ k >= 1 /\ k <= Seam(db)
      BY <3>1 DEF Height
    <3> HIDE DEF Good
    <3> QED BY <1>7, <2>1, <3>2
  <2> HIDE DEF Good, Marks, Stands
  <2> QED BY <1>3, <1>6, <2>1, MarksKept DEF History, RowsRight
<1>9. OpenOK'
  <2> SUFFICES ASSUME tick.at = "open", NEW x \in Addr
               PROVE  db'.rows[x].marker < tick.start
    BY <1>3, <1>4 DEF OpenOK, History, RowsRight
  <2>1. tick.start \in Nat /\ db.rows[x].marker < tick.start
    BY <1>0, TickHeights DEF Height, OpenOK, History, RowsRight
  <2>2. db'.rows[x] = db.rows[x] \/ db'.rows[x] = Row(Seam(db))
    BY <1>4
  <2> QED BY <2>1, <2>2 DEF Row, Null
<1>10. ScanOK'
  <2> SUFFICES ASSUME tick.at = "scan", HashAt(tick.end) = tick.anchor,
                      NEW k \in tick.start .. tick.end
               PROVE  Good(db', k, chain[k], Pending(k))
    BY <1>3 DEF ScanOK, HashAt, Tip, Pending, Good, Owes, Covers
  <2>1. Good(db, k, chain[k], Pending(k)) /\ k \in Nat /\ k >= 1
    BY <1>0, TickHeights DEF Height, ScanOK, History, RowsRight
  <2> HIDE DEF Good, Pending
  <2> QED BY <1>3, <1>7, <2>1
<1>11. ShieldedOK'
  <2> SUFFICES ASSUME tick.at = "shielded", Linked
               PROVE  tick.end <= Tip
                      /\ \A k \in 1 .. tick.end : Good(db', k, chain[k], {})
    BY <1>3 DEF ShieldedOK, Linked, HashAt, Tip, Good, Owes, Covers
  <2>1. /\ tick.end <= Tip /\ tick.end \in Height
        /\ \A k \in 1 .. tick.end : Good(db, k, chain[k], {})
    BY <1>0, TickHeights DEF ShieldedOK, History, RowsRight
  <2> HIDE DEF Good
  <2> QED BY <1>3, <1>7, <2>1 DEF Height
<1>12. WalkRight'
  BY <1>0, <1>3, <1>5, <1>6, WalkKept DEF History, WalkAside, Typed, DbOK, Db
<1> QED BY <1>6, <1>8, <1>9, <1>10, <1>11, <1>12 DEF RowsRight

(* A host operation keeps the history right.                               *)
LEMMA HostRight ==
    ASSUME History, HostStep
    PROVE  KnownOK' /\ RowsRight' /\ WalkRight'
<1>0. Typed /\ Typed' /\ db \in Db
  BY TypedHost DEF History, Typed, DbOK
<1>a. ASSUME NEW op, Host(op), op # "change"
      PROVE  tick'.at = "idle" /\ WalkAside
  BY <1>0, <1>a, SpentOK DEF Host, Quiet, WalkAside, Typed
<1>b. ASSUME hdr' = hdr, WalkAside PROVE HeadersOK'
  BY <1>0, <1>b, HeadersKept DEF WalkAside, History
<1>1. ASSUME NEW h \in Height, HostRewind(h)
      PROVE  KnownOK' /\ RowsRight' /\ WalkRight'
  <2>1. /\ db' = RewoundSync(db, h) /\ tick'.at = "idle" /\ WalkAside
        /\ hdr' = [k \in Height |-> IF k > h THEN NoHash ELSE hdr[k]]
    BY <1>1, <1>a DEF HostRewind
  <2> QED BY <1>0, <2>1, RewindRight
<1>2. CASE HostReset
  <2>1. db' = ResetSync(db) /\ tick'.at = "idle" /\ WalkAside /\ HeadersOK'
    BY <1>2, <1>a, <1>b DEF HostReset
  <2>2. /\ db'.hT = db'.birth /\ db'.hS = db'.birth /\ db'.wit = {}
        /\ db'.notes = {} /\ db'.inc = db.inc + 1
        /\ \A a \in Addr : /\ db'.rows[a].marker = Smaller(db.rows[a].marker, 0)
                           /\ db'.rows[a].since = db'.birth
    BY <1>0, <2>1, ResetDb
  <2>3. \A a \in Addr : db'.rows[a].marker <= 0
    <3>1. \A a \in Addr : db.rows[a].marker \in Int
      BY <1>0 DEF Db, RowType, Null
    <3> QED BY <2>2, <3>1 DEF Smaller
  <2> QED BY <1>0, <2>1, <2>2, <2>3, FreshRight
<1>3. CASE HostReplace
  <2>1. /\ db' = Restored(db.birth, db.inc + 1)
        /\ tick'.at = "idle" /\ WalkAside /\ HeadersOK'
    BY <1>3, <1>a, <1>b DEF HostReplace, Replaced
  <2>2. db.birth \in 1 .. Birth /\ db.inc + 1 \in Nat
    BY <1>0 DEF Db
  <2>3. /\ db'.hT = db'.birth /\ db'.hS = db'.birth /\ db'.wit = {}
        /\ db'.notes = {} /\ db'.inc = db.inc + 1
        /\ \A a \in Addr : /\ db'.rows[a].marker = Null
                           /\ db'.rows[a].stored <=> a = Own
                           /\ a = Own => db'.rows[a].since = db'.birth
    BY <2>1, <2>2, RestoredDb
  <2>4. \A a \in Addr : /\ db'.rows[a].marker <= 0
                        /\ db'.rows[a].stored => db'.rows[a].since = db'.birth
    BY <2>3 DEF Null
  <2> QED BY <1>0, <2>1, <2>3, <2>4, FreshRight
<1>4. CASE \E b \in Births : HostBirth(b)
  BY <1>0, <1>4, HostBirthRight
<1>5. CASE \/ HostAddress("receive", ReceiveScope)
           \/ HostAddress("change", ChangeScope)
  BY <1>0, <1>5, HostAddressRight
<1> QED BY <1>1, <1>2, <1>3, <1>4, <1>5 DEF HostStep

-----------------------------------------------------------------------------
(* The discovery walk.                                                     *)

(* An entry's promises speak of the marks, the counters and the chain.     *)
LEMMA EntrySame ==
    ASSUME chain' = chain, left'.narrow = left.narrow, db'.inc = db.inc,
           db'.trims = db.trims, Seam(db') = Seam(db),
           \A h \in Marks' : h \in Marks /\ (Stands(h)' => Stands(h)),
           walk'.inc = walk.inc, walk'.end = walk.end, NEW e
    PROVE  (ReplyOK(e) => ReplyOK(e)') /\ (WindowsOK(e) => WindowsOK(e)')
<1>1. ASSUME ReplyOK(e) PROVE ReplyOK(e)'
  <2> SUFFICES ASSUME db'.inc = walk'.inc
               PROVE  /\ e.reply.seam <= Seam(db')
                      /\ e.reply.seam = Seam(db') => \A h \in Marks' : Stands(h)' =>
                           /\ \A n \in e.reply.found :
                                 n.height <= h => n.fork = chain'[n.height].fork
                           /\ \A k \in e.lo .. h :
                                 k <= walk'.end /\ chain'[k].pays = e.addr
                                   => NoteAt(e.addr, k, chain'[k]) \in e.reply.found
    BY DEF ReplyOK
  <2> HIDE DEF Stands, Marks, NoteAt
  <2> QED BY <1>1 DEF ReplyOK
<1>2. ASSUME WindowsOK(e) PROVE WindowsOK(e)'
  BY <1>2 DEF WindowsOK
<1> QED BY <1>1, <1>2

\* What an entry promises.
EntryRight(e) == ReplyOK(e) /\ (Calm => WindowsOK(e))

\* A step of the walk that goes on with the same account.
WalkOn ==
    /\ chain' = chain /\ left'.narrow = left.narrow /\ left'.forks = left.forks
    /\ db'.inc = db.inc /\ db'.trims = db.trims /\ Seam(db') = Seam(db)
    /\ \A h \in Marks' : h \in Marks /\ (Stands(h)' => Stands(h))
    /\ walk'.inc = walk.inc /\ walk'.end = walk.end

(* It keeps the walk right if every entry was there or is right by itself. *)
LEMMA WalkGoesOn ==
    ASSUME Typed, WalkRight, WalkOn,
           walk'.at = "fetch" => walk'.seam = Seam(db),
           \A i \in 1 .. Len(walk'.batch) :
              \/ \E j \in 1 .. Len(walk.batch) : walk'.batch[i] = walk.batch[j]
              \/ EntryRight(walk.batch[i])'
    PROVE  WalkRight'
<1>1. walk'.inc <= db'.inc
  BY DEF WalkRight, WalkOn
<1>2. walk'.at = "fetch" => walk'.seam <= Seam(db')
  BY Ranges DEF WalkOn, Height
<1>3. Calm /\ left'.narrow => left'.forks = 0 /\ walk'.end <= Tip'
  BY DEF WalkRight, WalkOn, Tip
<1>4. ASSUME NEW i \in 1 .. Len(walk'.batch) PROVE EntryRight(walk.batch[i])'
  <2> SUFFICES ASSUME NEW j \in 1 .. Len(walk.batch), walk'.batch[i] = walk.batch[j]
               PROVE  EntryRight(walk.batch[i])'
    OBVIOUS
  <2>1. PICK e : e = walk.batch[j] /\ e = walk'.batch[i]
    OBVIOUS
  <2>2. ReplyOK(e) /\ (Calm => WindowsOK(e))
    BY <2>1 DEF WalkRight
  <2>3. ReplyOK(e)' /\ (Calm => WindowsOK(e)')
    <3> HIDE DEF ReplyOK, WindowsOK, Calm
    <3> QED BY <2>2, EntrySame DEF WalkOn
  <2>4. EntryRight(e)'
    BY <2>3 DEF EntryRight
  <2> QED BY <2>1, <2>4 DEF EntryRight, ReplyOK, WindowsOK
<1> QED BY <1>1, <1>2, <1>3, <1>4 DEF WalkRight, EntryRight

(* A walk that ended promises nothing.                                     *)
LEMMA WalkEnds ==
    ASSUME Typed, Typed', WalkRight, walk' = NoWalk, chain' = chain,
           left'.narrow = left.narrow, left'.forks = left.forks
    PROVE  WalkRight'
<1>1. /\ walk'.inc = 0 /\ walk'.at = "idle" /\ walk'.end = 0
      /\ walk'.batch = << >> /\ db'.inc \in Nat /\ Tip \in Nat /\ Tip' = Tip
  BY IdleTypes, Ranges DEF Typed, DbOK, Db, Tip
<1> QED BY <1>1 DEF WalkRight

(* Rows and headers left alone stay right.                                 *)
LEMMA RowsAside ==
    ASSUME History, chain' = chain, db' = db, hdr' = hdr, tick' = tick,
           left'.forks = left.forks
    PROVE  /\ KnownOK' /\ RowsRight'
           /\ \A h \in Marks' : h \in Marks /\ (Stands(h)' => Stands(h))
<1>0. Typed /\ Seam(db') = Seam(db)
  BY DEF History, Seam
<1>1. KnownOK' /\ \A h \in Marks' : h \in Marks /\ (Stands(h)' => Stands(h))
  BY <1>0, KnownKept DEF History
<1>2. MarksOK'
  <2> HIDE DEF Good, Marks, Stands
  <2> QED BY <1>1, MarksKept DEF History, RowsRight
<1>3. OpenOK' /\ ScanOK' /\ ShieldedOK'
  BY DEF History, RowsRight, OpenOK, ScanOK, ShieldedOK, Linked, HashAt, Tip,
         Good, Owes, Covers, Pending
<1> QED BY <1>1, <1>2, <1>3 DEF RowsRight

(* A planned entry has passed nothing and was answered nothing; prefetched *)
(* replies are the server's, asked under the seam just read.               *)
LEMMA PlanRight ==
    ASSUME History, Typed',
           StartWalk \/ PlanCandidate \/ ReadBatchSeam \/ SkipCandidate \/ FailWalk
    PROVE  KnownOK' /\ RowsRight' /\ WalkRight'
<1>0. Typed /\ WalkRight
  BY DEF History
<1>1. /\ chain' = chain /\ db' = db /\ hdr' = hdr /\ tick' = tick
      /\ left'.forks = left.forks /\ left'.narrow = left.narrow
  BY <1>0, SpentOK DEF StartWalk, PlanCandidate, ReadBatchSeam, SkipCandidate,
     FailWalk, Failing, Typed
<1>2. /\ KnownOK' /\ RowsRight'
      /\ \A h \in Marks' : h \in Marks /\ (Stands(h)' => Stands(h))
  BY <1>1, RowsAside
<1>3. walk'.inc = walk.inc /\ walk'.end = walk.end => WalkOn
  BY <1>1, <1>2 DEF WalkOn
<1>4. CASE StartWalk
  <2>1. /\ walk'.inc = db'.inc /\ walk'.at = "plan" /\ walk'.end = Tip
        /\ walk'.batch = << >> /\ db'.inc \in Nat /\ Tip \in Nat /\ Tip' = Tip
    BY <1>0, <1>1, <1>4, Ranges DEF StartWalk, NoWalk, Typed, DbOK, Db, Tip
  <2>2. WalkRight'
    BY <1>0, <1>1, <2>1 DEF WalkRight
  <2> QED BY <1>2, <2>2
<1>5. CASE PlanCandidate
  <2>1. PICK e \in Entry :
          /\ walk'.batch = Append(walk.batch, e) /\ walk'.inc = walk.inc
          /\ walk'.end = walk.end
          /\ walk'.at \in {"plan", "seam", "ingest", "certify"}
          /\ e.mlo = e.lo /\ e.trim = Null /\ e.reply = NoReply
    BY <1>0, <1>5, PlanEffect
  <2>2. EntryRight(e)'
    <3>1. /\ e.lo \in Nat /\ db'.trims \in Nat /\ Seam(db') \in Nat
          /\ walk'.end \in Nat
      <4>1. Seam(db') \in Nat
        <5>1. Seam(db) \in Height
          BY <1>0, Ranges
        <5> QED BY <1>1, <5>1 DEF Height
      <4>2. e.lo \in Nat
        BY SyncAssumption DEF Entry
      <4>3. db'.trims \in Nat /\ walk'.end \in Nat
        BY <1>0, <1>1, <2>1, SyncAssumption DEF Typed, DbOK, Db, WalkOK, WalkType
      <4> QED BY <4>1, <4>2, <4>3
    <3>2. ReplyOK(e)'
      BY <2>1, <3>1 DEF ReplyOK, NoReply, Null
    <3>3. WindowsOK(e)'
      BY <2>1, <3>1 DEF WindowsOK, Larger, Null
    <3> QED BY <3>2, <3>3 DEF EntryRight
  <2>3. walk.batch \in Seq(Entry)
    BY <1>0 DEF Typed, WalkOK, WalkType
  <2>4. ASSUME NEW i \in 1 .. Len(walk'.batch)
        PROVE  \/ \E j \in 1 .. Len(walk.batch) : walk'.batch[i] = walk.batch[j]
               \/ EntryRight(walk.batch[i])'
    <3>1. \/ i \in 1 .. Len(walk.batch) /\ walk'.batch[i] = walk.batch[i]
          \/ walk'.batch[i] = e
      BY <2>1, <2>3
    <3> QED BY <2>2, <3>1 DEF EntryRight, ReplyOK, WindowsOK
  <2>5. walk'.at # "fetch"
    BY <2>1
  <2>6. WalkRight'
    <3> HIDE DEF EntryRight, WalkRight
    <3> QED BY <1>0, <1>3, <2>1, <2>4, <2>5, WalkGoesOn
  <2> QED BY <1>2, <2>6
<1>6. CASE ReadBatchSeam
  <2>1. /\ walk'.inc = walk.inc /\ walk'.end = walk.end
        /\ walk'.batch = walk.batch /\ walk'.seam = Seam(db)
    BY <1>0, <1>6 DEF ReadBatchSeam, Typed, WalkOK, WalkType
  <2>2. WalkRight'
    <3> HIDE DEF EntryRight, WalkRight
    <3> QED BY <1>0, <1>3, <2>1, WalkGoesOn
  <2> QED BY <1>2, <2>2
<1>7. CASE SkipCandidate
  <2>0. walk' \in Passings /\ walk.at = "ingest"
    <3> DEFINE e == Head(walk.batch)
    <3>1. walk.at = "ingest" /\ walk' = Passed(e.skip \/ e.had, FALSE)
      BY <1>7 DEF SkipCandidate
    <3>2. \A row \in BOOLEAN, used \in BOOLEAN : Passed(row, used) \in Passings
      BY DEF Passings
    <3>3. (e.skip \/ e.had) \in BOOLEAN
      OBVIOUS
    <3> QED BY <3>1, <3>2, <3>3, Zenon
  <2>1. /\ walk'.inc = walk.inc /\ walk'.end = walk.end
        /\ walk'.batch = Tail(walk.batch)
        /\ walk'.at \in {"plan", "seam", "ingest", "certify"}
    BY <1>0, <2>0, Ranges, PassedWalk DEF Typed
  <2>2. walk.batch \in Seq(Entry) /\ walk.batch # << >>
    BY <1>0, <2>0 DEF Typed, WalkOK, WalkType
  <2>3. ASSUME NEW i \in 1 .. Len(walk'.batch)
        PROVE  \E j \in 1 .. Len(walk.batch) : walk'.batch[i] = walk.batch[j]
    <3>1. i + 1 \in 1 .. Len(walk.batch) /\ walk'.batch[i] = walk.batch[i + 1]
      BY <2>1, <2>2
    <3> QED BY <3>1
  <2>4. walk'.at # "fetch"
    BY <2>1
  <2>5. WalkRight'
    <3> HIDE DEF EntryRight, WalkRight
    <3> QED BY <1>0, <1>3, <2>1, <2>3, <2>4, WalkGoesOn
  <2> QED BY <1>2, <2>5
<1>8. CASE FailWalk
  BY <1>0, <1>1, <1>2, <1>8, WalkEnds DEF FailWalk
<1> QED BY <1>4, <1>5, <1>6, <1>7, <1>8

(* A prefetched reply is the server's, asked under the seam just read.     *)
LEMMA PrefetchRight ==
    ASSUME History, NEW m, Prefetch(m)
    PROVE  KnownOK' /\ RowsRight' /\ WalkRight'
<1>0. Typed /\ WalkRight
  BY DEF History
<1>1. /\ chain' = chain /\ db' = db /\ hdr' = hdr /\ tick' = tick /\ left' = left
      /\ walk.at = "fetch"
  BY DEF Prefetch
<1>2. /\ KnownOK' /\ RowsRight'
      /\ \A h \in Marks' : h \in Marks /\ (Stands(h)' => Stands(h))
  BY <1>1, RowsAside
<1>3. /\ walk'.at = "ingest" /\ walk'.inc = walk.inc /\ walk'.end = walk.end
      /\ Len(walk'.batch) = Len(walk.batch)
      /\ \A i \in 1 .. Len(walk.batch) :
            walk'.batch[i] \in Fetched(walk.batch[i])
  BY <1>0, PrefetchEffect
<1>4. WalkOn
  BY <1>1, <1>2, <1>3 DEF WalkOn
<1>5. ASSUME NEW i \in 1 .. Len(walk'.batch)
      PROVE  \/ \E j \in 1 .. Len(walk.batch) : walk'.batch[i] = walk.batch[j]
             \/ EntryRight(walk.batch[i])'
  <2>0. PICK e, f : e = walk.batch[i] /\ f = walk'.batch[i]
    OBVIOUS
  <2>1. i \in 1 .. Len(walk.batch) /\ f \in Fetched(e)
    BY <1>3, <2>0
  <2>2. /\ e \in Entry /\ e.lo \in Nat \ {0} /\ e.addr \in Addr
        /\ ReplyOK(e) /\ (Calm => WindowsOK(e))
    BY <1>0, <2>0, <2>1, EntryTypes DEF WalkRight
  <2>3. CASE f = e
    BY <2>0, <2>1, <2>3
  <2>4. CASE f = [e EXCEPT !.reply = [seam |-> walk.seam,
                                      found |-> Payments(e.addr, e.lo, walk.end)]]
    <3>1. /\ f.addr = e.addr /\ f.lo = e.lo /\ f.mlo = e.mlo /\ f.trim = e.trim
          /\ f.reply.seam = walk.seam
          /\ f.reply.found = Payments(e.addr, e.lo, walk.end)
      BY <2>2, <2>4 DEF Entry
    <3>2. walk.end \in Int /\ ChainOK /\ Tip \in Nat
      BY <1>0, Ranges, SyncAssumption DEF Typed, WalkOK, WalkType
    <3>3. ASSUME NEW h \in Marks, Stands(h)
          PROVE  /\ \A n \in f.reply.found : n.fork = chain[n.height].fork
                 /\ \A k \in f.lo .. h : k <= walk.end /\ chain[k].pays = f.addr
                       => NoteAt(f.addr, k, chain[k]) \in f.reply.found
      <4>1. h \in Height /\ h <= Tip
        BY <1>0, <3>3, MarkHeights
      <4>2. \A k \in f.lo .. h : k \in 1 .. Tip /\ e.lo <= k
        BY <2>2, <3>1, <3>2, <4>1 DEF Height
      <4> QED BY <2>2, <3>1, <3>2, <4>2, PaymentsAre DEF NoteAt
    <3>4. ReplyOK(f)
      <4>1. db.inc = walk.inc => f.reply.seam <= Seam(db)
        BY <1>0, <1>1, <3>1 DEF WalkRight
      <4> HIDE DEF NoteAt, Marks, Stands
      <4> QED BY <3>3, <4>1 DEF ReplyOK
    <3>5. Calm => WindowsOK(f)
      BY <2>2, <3>1 DEF WindowsOK
    <3>6. ReplyOK(f)' /\ (Calm => WindowsOK(f)')
      <4> HIDE DEF ReplyOK, WindowsOK, Calm
      <4> QED BY <1>4, <3>4, <3>5, EntrySame DEF WalkOn
    <3>7. EntryRight(f)'
      BY <3>6 DEF EntryRight
    <3> QED BY <2>0, <3>7 DEF EntryRight, ReplyOK, WindowsOK
  <2> QED BY <2>1, <2>3, <2>4 DEF Fetched
<1>6. WalkRight'
  <2> HIDE DEF EntryRight, WalkRight
  <2> QED BY <1>0, <1>3, <1>4, <1>5, WalkGoesOn
<1> QED BY <1>2, <1>6

(* The certificate touches neither notes nor markers.                      *)
LEMMA CertifyRight ==
    ASSUME History, Certify, Typed'
    PROVE  KnownOK' /\ RowsRight' /\ WalkRight'
<1>0. Typed /\ db \in Db
  BY DEF History, Typed, DbOK
<1>1. /\ chain' = chain /\ hdr' = hdr /\ left' = left /\ tick' = tick
      /\ tick.at = "idle" /\ walk' = NoWalk
      /\ db' = WrittenCoverage(db, GapLimit, walk.from)
  BY DEF Certify, Quiet
<1>2. /\ db'.rows = db.rows /\ db'.notes = db.notes /\ db'.wit = db.wit
      /\ db'.hT = db.hT /\ db'.hS = db.hS /\ db'.birth = db.birth
  <2>1. GapLimit \in Nat /\ walk.from \in Nat
    BY <1>0, SyncAssumption DEF Typed, WalkOK, WalkType
  <2> QED BY <1>0, <1>1, <2>1 DEF WrittenCoverage, Db
<1>3. Seam(db') = Seam(db)
  BY <1>2 DEF Seam
<1>4. KnownOK' /\ \A h \in Marks' : h \in Marks /\ (Stands(h)' => Stands(h))
  BY <1>0, <1>1, <1>2, <1>3, KnownKept DEF History
<1>5. ASSUME NEW k, NEW b, NEW p, Good(db, k, b, p) PROVE Good(db', k, b, p)
  <2> HIDE DEF Good
  <2> QED BY <1>2, <1>5, GoodSame
<1>6. MarksOK'
  <2> HIDE DEF Good, Marks, Stands
  <2> QED BY <1>1, <1>4, <1>5, MarksKept DEF History, RowsRight
<1>7. OpenOK' /\ ScanOK' /\ ShieldedOK'
  BY <1>1 DEF OpenOK, ScanOK, ShieldedOK
<1>8. WalkRight'
  BY <1>0, <1>1, WalkEnds DEF History
<1> QED BY <1>4, <1>6, <1>7, <1>8 DEF RowsRight

(* What a window of the walk finds is the server's up to every mark that   *)
(* stands: asked just now, or prefetched under this very seam.             *)
LEMMA AnswerRight ==
    ASSUME History, NEW hi \in Height, InWindow(hi), NEW h \in Marks, Stands(h)
    PROVE  /\ \A n \in Answer(hi) : n.height <= h => n.fork = chain[n.height].fork
           /\ \A k \in First.lo .. h : k <= hi /\ chain[k].pays = First.addr
                 => NoteAt(First.addr, k, chain[k]) \in Answer(hi)
<1>0. Typed /\ ChainOK
  BY DEF History, Typed
<1>1. /\ db.inc = walk.inc /\ First \in Entry /\ First.addr \in Addr
      /\ First.lo \in Nat \ {0} /\ hi <= walk.end /\ hi \in Nat /\ First = walk.batch[1]
      /\ 1 \in 1 .. Len(walk.batch) /\ walk.end \in Nat
  <2>1. walk.at = "ingest" /\ WalkOK
    BY <1>0, WindowEntry DEF Typed
  <2>2. First = walk.batch[1] /\ Len(walk.batch) \in Nat \ {0}
    BY <2>1, FirstEntry DEF WalkOK
  <2> QED BY <1>0, <2>2, WindowEntry, SyncAssumption DEF Typed, WalkOK, WalkType
<1>2. h \in Height /\ h <= Tip /\ Tip \in Nat
  BY <1>0, MarkHeights, Ranges
<1>3. CASE Replied
  <2>1. Answer(hi) = First.reply.found /\ First.reply.seam = Seam(db)
    BY <1>3 DEF Answer, Replied
  <2>2. PICK e : e = First
    OBVIOUS
  <2>3. ReplyOK(e)
    BY <1>1, <2>2 DEF History, WalkRight
  <2>4. /\ \A n \in e.reply.found : n.height <= h => n.fork = chain[n.height].fork
        /\ \A k \in e.lo .. h : k <= walk.end /\ chain[k].pays = e.addr
              => NoteAt(e.addr, k, chain[k]) \in e.reply.found
    <3> HIDE DEF Stands, Marks, NoteAt
    <3> QED BY <1>1, <2>1, <2>2, <2>3 DEF ReplyOK
  <2>5. \A k \in e.lo .. h : k <= hi => k <= walk.end
    BY <1>1, <1>2, <2>2 DEF Height
  <2> HIDE DEF NoteAt
  <2> QED BY <2>1, <2>2, <2>4, <2>5
<1>4. CASE ~Replied
  <2>1. Answer(hi) = Payments(First.addr, First.lo, hi)
    BY <1>4 DEF Answer
  <2>2. \A k \in First.lo .. h : k \in 1 .. Tip /\ First.lo <= k
    BY <1>1, <1>2 DEF Height
  <2>3. PICK a \in Addr, lo \in Nat \ {0} : a = First.addr /\ lo = First.lo
    BY <1>1
  <2>4. hi \in Int
    BY <1>1
  <2> QED BY <1>0, <2>1, <2>2, <2>3, <2>4, PaymentsAre DEF NoteAt
<1> QED BY <1>3, <1>4

(* The first entry's promises.                                             *)
LEMMA FirstRight ==
    ASSUME History, NEW hi \in Height, InWindow(hi), NEW e, e = First
    PROVE  /\ e \in Entry /\ e.lo \in Nat \ {0} /\ e.mlo \in Nat \ {0}
           /\ e.addr \in Addr /\ e.trim \in Int /\ e = walk.batch[1]
           /\ 1 \in 1 .. Len(walk.batch) /\ walk.batch \in Seq(Entry)
           /\ db.inc = walk.inc /\ db.trims \in Nat /\ walk.end \in Nat
           /\ Calm => WindowsOK(e)
           /\ WalkedTrim \in Int
           /\ WalkedTrim = IF e.trim = Null THEN db.trims ELSE e.trim
           /\ Calm => WalkedTrim <= db.trims
<1>0. Typed
  BY DEF History
<1>1. walk.at = "ingest" /\ WalkOK /\ db.inc = walk.inc
  BY <1>0, WindowEntry DEF Typed
<1>2. e = walk.batch[1] /\ Len(walk.batch) \in Nat \ {0} /\ 1 \in 1 .. Len(walk.batch)
  BY <1>1, FirstEntry DEF WalkOK
<1>3. /\ e \in Entry /\ e.lo \in Nat \ {0} /\ e.mlo \in Nat \ {0}
      /\ e.addr \in Addr /\ e.trim \in Int
  BY <1>0, <1>2, EntryTypes
<1>4. db.trims \in Nat /\ walk.end \in Nat /\ walk.batch \in Seq(Entry)
  BY <1>0, SyncAssumption DEF Typed, DbOK, Db, WalkOK, WalkType
<1>5. Calm => WindowsOK(e)
  BY <1>2 DEF History, WalkRight
<1>6. WalkedTrim = IF e.trim = Null THEN db.trims ELSE e.trim
  BY DEF WalkedTrim
<1>7. Calm => WalkedTrim <= db.trims
  BY <1>1, <1>3, <1>4, <1>5, <1>6 DEF WindowsOK
<1> QED BY <1>1, <1>2, <1>3, <1>4, <1>5, <1>6, <1>7

(* The walk after a window: an empty window below the tip of a server that *)
(* narrows paid the address nothing, and one with a row restarts the claim.*)
LEMMA WindowWalkRight ==
    ASSUME History, NEW hi \in Height,
           ProbeWindow(hi) \/ IngestWindow(hi) \/ IngestUndated(hi), WalkOn
    PROVE  WalkRight'
<1>0. Typed /\ WalkRight /\ ChainOK
  BY DEF History, Typed
<1>1. WindowMove(hi) /\ InWindow(hi)
      /\ walk'.at \in {"plan", "seam", "ingest", "certify"}
  BY <1>0, WindowWalk
<1>2. PICK e : e = First
  OBVIOUS
<1>3. /\ e \in Entry /\ e.lo \in Nat \ {0} /\ e.mlo \in Nat \ {0}
      /\ e.addr \in Addr /\ e.trim \in Int /\ e = walk.batch[1]
      /\ 1 \in 1 .. Len(walk.batch) /\ walk.batch \in Seq(Entry)
      /\ db.inc = walk.inc /\ db.trims \in Nat /\ walk.end \in Nat
      /\ Calm => WindowsOK(e)
      /\ WalkedTrim \in Int
      /\ WalkedTrim = IF e.trim = Null THEN db.trims ELSE e.trim
      /\ Calm => WalkedTrim <= db.trims
  BY <1>1, <1>2, FirstRight
<1>4. /\ e.lo <= hi /\ hi <= walk.end /\ hi \in Nat /\ Seam(db) \in Nat /\ Tip \in Nat
      /\ hi = walk.end \/ (left.narrow /\ ~Replied)
  BY <1>0, <1>1, <1>2, WindowEntry, Ranges DEF Height
<1>5. walk'.at # "fetch"
  BY <1>1
<1>6. CASE walk' \in Passings
  <2>1. walk'.batch = Tail(walk.batch)
    <3>1. walk.at = "ingest"
      BY <1>0, <1>1, WindowEntry
    <3> QED BY <1>0, <1>6, <3>1, Ranges, PassedWalk DEF Typed
  <2>2. ASSUME NEW i \in 1 .. Len(walk'.batch)
        PROVE  \E j \in 1 .. Len(walk.batch) : walk'.batch[i] = walk.batch[j]
    <3>1. i + 1 \in 1 .. Len(walk.batch) /\ walk'.batch[i] = walk.batch[i + 1]
      BY <1>3, <2>1
    <3> QED BY <3>1
  <2> HIDE DEF EntryRight, WalkRight
  <2> QED BY <1>0, <1>5, <2>2, WalkGoesOn
<1>7. ASSUME NEW lo \in Nat \ {0}, NEW mlo \in Nat \ {0},
             lo \in 1 .. (MaxHeight + 1), mlo \in 1 .. (MaxHeight + 1),
             walk' \in Steppings(lo, mlo),
             Calm => /\ ~left.narrow => lo = mlo
                     /\ lo <= Larger(mlo, walk.end + 1)
                     /\ left.narrow /\ WalkedTrim \in {Null, db.trims} =>
                           \A k \in mlo .. (lo - 1) : chain[k].pays # e.addr
      PROVE  WalkRight'
  <2>1. /\ Len(walk'.batch) = Len(walk.batch)
        /\ \A i \in 2 .. Len(walk.batch) : walk'.batch[i] = walk.batch[i]
        /\ walk'.batch[1].addr = e.addr /\ walk'.batch[1].lo = lo
        /\ walk'.batch[1].mlo = mlo /\ walk'.batch[1].trim = WalkedTrim
        /\ walk'.batch[1].reply = NoReply
    <3>1. walk.at = "ingest" /\ db \in Db /\ WalkOK
      BY <1>0, <1>1, WindowEntry DEF Typed, DbOK
    <3> QED BY <1>2, <1>7, <3>1, SteppedWalk
  <2>2. PICK f : f = walk'.batch[1]
    OBVIOUS
  <2>3. ReplyOK(f)
    BY <1>4, <2>1, <2>2 DEF ReplyOK, NoReply, Null
  <2>4. Calm => WindowsOK(f)
    BY <1>3, <1>7, <2>1, <2>2 DEF WindowsOK
  <2>5. ReplyOK(f)' /\ (Calm => WindowsOK(f)')
    <3> HIDE DEF ReplyOK, WindowsOK, Calm
    <3> QED BY <2>3, <2>4, EntrySame DEF WalkOn
  <2>6. ASSUME NEW i \in 1 .. Len(walk'.batch)
        PROVE  \/ \E j \in 1 .. Len(walk.batch) : walk'.batch[i] = walk.batch[j]
               \/ EntryRight(walk.batch[i])'
    <3>1. CASE i = 1
      <4>1. EntryRight(f)'
        BY <2>5 DEF EntryRight
      <4> QED BY <2>2, <3>1, <4>1 DEF EntryRight, ReplyOK, WindowsOK
    <3>2. CASE i # 1
      <4>1. i \in 2 .. Len(walk.batch) /\ i \in 1 .. Len(walk.batch)
        BY <1>3, <2>1, <3>2
      <4> QED BY <2>1, <4>1
    <3> QED BY <3>1, <3>2
  <2> HIDE DEF EntryRight, WalkRight
  <2> QED BY <1>0, <1>5, <2>6, WalkGoesOn
<1>8. /\ hi + 1 \in Nat \ {0} /\ hi + 1 \in 1 .. (MaxHeight + 1)
      /\ e.lo \in 1 .. (MaxHeight + 1) /\ e.mlo \in 1 .. (MaxHeight + 1)
  <2>1. MaxHeight \in Nat /\ hi <= MaxHeight
    BY SyncAssumption DEF Height
  <2>2. e.lo \in 1 .. (MaxHeight + 1) /\ e.mlo \in 1 .. (MaxHeight + 1)
    BY <1>3 DEF Entry
  <2> QED BY <1>4, <2>1, <2>2
<1>9. CASE hi # walk.end /\ IngestWindow(hi) /\ Intact
           /\ walk' \in Steppings(hi + 1, hi + 1)
  BY SMTT(20), <1>4, <1>7, <1>8, <1>9, <1>3 DEF Larger
<1>10. CASE hi # walk.end /\ IngestWindow(hi) /\ ~Intact
            /\ walk' \in Steppings(hi + 1, First.mlo)
  <2>1. ~(WalkedTrim \in {Null, db.trims})
    BY <1>3, <1>10 DEF Intact, Null
  <2>2. hi + 1 <= Larger(e.mlo, walk.end + 1)
    BY SMTT(20), <1>3, <1>4 DEF Larger
  <2> QED BY <1>2, <1>3, <1>4, <1>7, <1>8, <1>10, <2>1, <2>2
<1>11. CASE hi # walk.end /\ ProbeWindow(hi)
            /\ walk' \in Steppings(hi + 1, First.mlo)
  <2>1. hi + 1 <= Larger(e.mlo, walk.end + 1)
    BY SMTT(20), <1>3, <1>4 DEF Larger
  <2>2. left.narrow /\ Payments(e.addr, e.lo, hi) = {}
    BY <1>2, <1>4, <1>11 DEF ProbeWindow, Answer
  <2>3. ASSUME Calm, WalkedTrim \in {Null, db.trims}, NEW k \in e.mlo .. hi
        PROVE  chain[k].pays # e.addr
    <3>1. CASE k < e.lo
      <4>1. e.trim \in {Null, db.trims} /\ k \in e.mlo .. (e.lo - 1)
        BY <1>3, <1>4, <2>3, <3>1
      <4> QED BY <1>3, <2>2, <2>3, <4>1 DEF WindowsOK
    <3>2. CASE k >= e.lo
      <4>1. walk.end <= Tip
        BY <1>0, <2>2, <2>3 DEF WalkRight
      <4>2. k \in 1 .. Tip /\ hi \in Int /\ k <= hi
        BY <1>3, <1>4, <3>2, <4>1
      <4> QED BY <1>0, <1>3, <2>2, <3>2, <4>2, PaymentsAre
    <3> QED BY <1>3, <1>4, <3>1, <3>2
  <2>4. PICK lo \in Nat \ {0}, mlo \in Nat \ {0} : lo = hi + 1 /\ mlo = e.mlo
    BY <1>3, <1>8
  <2>5. Calm /\ WalkedTrim \in {Null, db.trims} =>
          \A k \in mlo .. (lo - 1) : chain[k].pays # e.addr
    <3>1. lo - 1 = hi
      BY <1>4, <2>4
    <3> QED BY <2>3, <2>4, <3>1
  <2>6. walk' \in Steppings(lo, mlo)
    BY <1>2, <1>11, <2>4
  <2> HIDE DEF Calm, WalkRight, WalkedTrim
  <2> QED BY <1>7, <1>8, <2>1, <2>2, <2>4, <2>5, <2>6
<1>12. CASE IngestUndated(hi) /\ walk' \in Steppings(First.lo, First.mlo)
  <2>1. WalkedTrim \in {Null, db.trims} => e.trim \in {Null, db.trims}
    BY <1>3
  <2> QED BY <1>2, <1>3, <1>7, <1>8, <1>12, <2>1 DEF WindowsOK
<1> QED BY <1>1, <1>6, <1>9, <1>10, <1>11, <1>12 DEF WindowMove

(* A window's rows are right up to every mark that stands; the marker it   *)
(* moves claims what it held, empty windows and the answer.                *)
LEMMA IngestRight ==
    ASSUME History, NEW hi \in Height, IngestWindow(hi) \/ IngestUndated(hi)
    PROVE  KnownOK' /\ RowsRight' /\ WalkRight'
<1>0. Typed /\ WalkRight
  BY DEF History
<1>1. /\ InWindow(hi) /\ chain' = chain /\ tick' = tick
      /\ left'.forks = left.forks /\ left'.narrow = left.narrow
      /\ hdr' = hdr \/ \E H : hdr' = StoredHeaders(H)
  <2>1. CASE IngestWindow(hi)
    BY <2>1 DEF IngestWindow
  <2>2. CASE IngestUndated(hi)
    <3>1. chain' = chain /\ Failing
      BY <2>2 DEF IngestUndated
    <3>2. left'.forks = left.forks /\ left'.narrow = left.narrow
      BY <1>0, <3>1, SpentOK DEF Typed, Failing
    <3> QED BY <2>2, <3>2 DEF IngestUndated
  <2> QED BY <2>1, <2>2
<1>2. PICK e, a, m : /\ e = First /\ a = First.addr
                     /\ m = IF db.rows[a].stored THEN db.rows[a].marker ELSE Null
  OBVIOUS
<1>3. /\ Answer(hi) \in SUBSET Notes /\ SameRest(db, db')
      /\ db'.notes = db.notes \cup {n \in Answer(hi) : n.height <= Seam(db)}
      /\ \A b \in Addr \ {a} : db'.rows[b] = db.rows[b]
      /\ db'.rows[a].since = IF db.rows[a].stored THEN db.rows[a].since
                             ELSE Seam(db)
      /\ \/ db'.rows[a].marker = m
         \/ /\ Intact /\ First.mlo <= Smaller(hi, Seam(db))
            /\ First.mlo <= Larger(m + 1, db.birth)
            /\ IngestWindow(hi) /\ m < Smaller(hi, Seam(db))
            /\ db'.rows[a].marker = Smaller(hi, Seam(db))
  BY <1>0, <1>2, IngestEffect
<1>4. /\ Seam(db') = Seam(db) /\ db'.wit = db.wit /\ db'.inc = db.inc
      /\ db'.trims = db.trims /\ db'.birth = db.birth
  BY <1>3 DEF SameRest, Seam
<1>5. KnownOK' /\ \A h \in Marks' : h \in Marks /\ (Stands(h)' => Stands(h))
  BY <1>0, <1>1, <1>4, KnownKept DEF History
<1>6. /\ a \in Addr /\ e.lo \in Nat \ {0} /\ e.mlo \in Nat \ {0} /\ e.trim \in Int
      /\ db.inc = walk.inc /\ db.trims \in Nat
      /\ Calm => WindowsOK(e)
      /\ WalkedTrim = IF e.trim = Null THEN db.trims ELSE e.trim
      /\ a = e.addr
  BY <1>1, <1>2, FirstRight
<1>7. /\ Seam(db) \in Nat /\ hi \in Nat /\ tick.at = "idle" /\ db.birth \in Nat
      /\ m \in Int /\ m >= -1 /\ (~db.rows[a].stored => m = -1)
  <2>1. Seam(db) \in Nat /\ db.birth \in Nat /\ MaxHeight \in Nat
    BY <1>0, Ranges DEF Height
  <2>2. db.rows[a].marker \in Int /\ db.rows[a].marker >= -1
    BY <1>0, <1>6, <2>1 DEF Typed, DbOK, Db, RowType, Null
  <2>3. tick.at = "idle" /\ hi \in Nat
    BY <1>0, <1>1, WindowEntry DEF Quiet
  <2> QED BY <1>2, <2>1, <2>2, <2>3 DEF Null
<1>8. ASSUME NEW h \in Marks, Stands(h), NEW k \in 1 .. h,
             Good(db, k, chain[k], {})
      PROVE  Good(db', k, chain[k], {})
  <2>0. /\ h \in Nat /\ h <= Seam(db) /\ k \in Nat /\ k >= 1 /\ k <= h
        /\ k <= Seam(db)
    <3>1. h \in Height /\ h <= Seam(db)
      BY <1>0, <1>7, MarkHeights DEF Marks, History, KnownOK, Height
    <3> QED BY <1>7, <3>1 DEF Height
  <2>1. /\ \A n \in Answer(hi) : n.height <= h => n.fork = chain[n.height].fork
        /\ \A j \in e.lo .. h : j <= hi /\ chain[j].pays = a
              => NoteAt(a, j, chain[j]) \in Answer(hi)
    <3> HIDE DEF Stands, Marks, NoteAt
    <3> QED BY <1>1, <1>2, <1>8, AnswerRight
  <2>2. \A n \in db.notes : n.height = k => n \in db'.notes
    BY <1>3
  <2>3. \A n \in db'.notes :
          n.height = k => n \in db.notes \/ n.fork = chain[k].fork
    BY <1>3, <2>0, <2>1
  <2>4. ASSUME NEW x \in Addr, Owes(db', x, k) PROVE Owes(db, x, k)
    <3>1. CASE x # a
      BY <1>3, <1>4, <2>4, <3>1 DEF Owes
    <3>2. CASE x = a
      BY <1>3, <1>4, <1>7, <2>0, <2>4, <3>2 DEF Owes
    <3> QED BY <3>1, <3>2
  <2>5. ASSUME e.lo <= k, k <= hi, chain[k].pays = a
        PROVE  NoteAt(a, k, chain[k]) \in db'.notes
    <3>1. k \in e.lo .. h
      BY <1>6, <2>0, <2>5
    <3>2. NoteAt(a, k, chain[k]) \in Answer(hi)
      BY <2>1, <2>5, <3>1
    <3>3. NoteAt(a, k, chain[k]).height = k
      BY DEF NoteAt
    <3> HIDE DEF NoteAt
    <3> QED BY <1>3, <2>0, <3>2, <3>3
  <2>6. ASSUME Calm, NEW x \in Addr, Covers(db', x, k), chain[k].pays = x
        PROVE  Covers(db, x, k) \/ NoteAt(x, k, chain[k]) \in db'.notes
    <3>1. CASE x # a
      BY <1>3, <1>4, <2>6, <3>1 DEF Covers
    <3>2. CASE x = a /\ db'.rows[a].marker = m
      <4>1. db.birth <= k /\ k <= m
        BY <1>4, <2>6, <3>2 DEF Covers
      <4>2. db.rows[a].stored /\ m = db.rows[a].marker
        BY <1>2, <1>7, <2>0, <4>1
      <4> QED BY <3>2, <4>1, <4>2 DEF Covers
    <3>3. CASE /\ x = a /\ Intact /\ e.mlo <= Larger(m + 1, db.birth)
               /\ db'.rows[a].marker = Smaller(hi, Seam(db))
      <4>1. db.birth <= k /\ k <= Smaller(hi, Seam(db))
        BY <1>4, <2>6, <3>3 DEF Covers
      <4>2. k <= hi
        BY <1>7, <2>0, <4>1 DEF Smaller
      <4>3. CASE k <= m
        <5>1. db.rows[a].stored /\ m = db.rows[a].marker
          BY <1>2, <1>7, <2>0, <4>3
        <5> QED BY <3>3, <4>1, <4>3, <5>1 DEF Covers
      <4>4. CASE k > m /\ k < e.lo
        <5>1. e.mlo <= k
          BY <1>6, <1>7, <2>0, <3>3, <4>1, <4>4 DEF Larger
        <5>2. k \in e.mlo .. (e.lo - 1) /\ e.lo # e.mlo
          BY <1>6, <2>0, <4>4, <5>1
        <5>3. e.trim \in {Null, db.trims}
          BY <1>6, <3>3 DEF Intact
        <5> QED BY <1>6, <2>6, <3>3, <5>2, <5>3 DEF WindowsOK
      <4>5. CASE k >= e.lo
        BY <2>5, <2>6, <3>3, <4>2, <4>5
      <4> QED BY <1>6, <1>7, <2>0, <4>3, <4>4, <4>5
    <3> QED BY <1>2, <1>3, <3>1, <3>2, <3>3
  <2> HIDE DEF Good, Owes, Covers, NoteAt, Calm
  <2> QED BY <1>8, <2>2, <2>3, <2>4, <2>6, GoodKept
<1>9. MarksOK'
  <2> HIDE DEF Good, Marks, Stands
  <2> QED BY <1>1, <1>5, <1>8, MarksKept DEF History, RowsRight
<1>10. OpenOK' /\ ScanOK' /\ ShieldedOK'
  BY <1>1, <1>7 DEF OpenOK, ScanOK, ShieldedOK
<1>11. WalkRight'
  <2>1. walk'.inc = walk.inc /\ walk'.end = walk.end
    BY <1>0, WindowWalk
  <2>2. WalkOn
    BY <1>1, <1>4, <1>5, <2>1 DEF WalkOn
  <2> QED BY <2>2, WindowWalkRight
<1> QED BY <1>5, <1>9, <1>10, <1>11 DEF RowsRight

(* A step of the discovery walk keeps the history right.                   *)
LEMMA WalkStepRight ==
    ASSUME History, Walk
    PROVE  KnownOK' /\ RowsRight' /\ WalkRight'
<1>0. Typed /\ Typed'
  BY TypedWalk DEF History
<1>1. ASSUME NEW hi \in Height, ProbeWindow(hi)
      PROVE  KnownOK' /\ RowsRight' /\ WalkRight'
  <2>1. chain' = chain /\ db' = db /\ hdr' = hdr /\ tick' = tick /\ left' = left
    BY <1>1 DEF ProbeWindow
  <2>2. /\ KnownOK' /\ RowsRight'
        /\ \A h \in Marks' : h \in Marks /\ (Stands(h)' => Stands(h))
    BY <2>1, RowsAside
  <2>3. walk'.inc = walk.inc /\ walk'.end = walk.end
    BY <1>0, <1>1, WindowWalk
  <2>4. WalkOn
    BY <2>1, <2>2, <2>3 DEF WalkOn
  <2> QED BY <1>1, <2>2, <2>4, WindowWalkRight
<1>2. CASE StartWalk \/ PlanCandidate \/ ReadBatchSeam \/ SkipCandidate \/ FailWalk
  BY <1>0, <1>2, PlanRight
<1>3. CASE \E k \in 0 .. Cardinality(Addr) : Prefetch(k)
  BY <1>3, PrefetchRight
<1>4. CASE \E h \in Height : IngestWindow(h) \/ IngestUndated(h)
  BY <1>4, IngestRight
<1>5. CASE Certify
  BY <1>0, <1>5, CertifyRight
<1> QED BY <1>1, <1>2, <1>3, <1>4, <1>5 DEF Walk

-----------------------------------------------------------------------------
(* The theorems.                                                           *)

(* A restored account knows nothing and says nothing.                      *)
LEMMA InitRight ==
    ASSUME Init PROVE History
<1>0. Typed
  BY InitTyped
<1>1. /\ db = Restored(Birth, 0) /\ tick = Idle /\ walk = NoWalk
      /\ hdr = [h \in Height |-> NoHash] /\ left \in Budgets
      /\ Birth \in 1 .. Birth
  BY SyncAssumption DEF Init
<1>2. /\ db \in Db /\ db.inc = 0 /\ db.birth = Birth /\ db.hT = Birth
      /\ db.hS = Birth /\ db.wit = {} /\ db.notes = {}
      /\ \A a \in Addr : /\ db.rows[a].marker = Null
                         /\ db.rows[a].stored <=> a = Own
                         /\ a = Own => db.rows[a].since = Birth
  BY <1>1, RestoredDb
<1>3. Seam(db) = Birth /\ Marks = {Birth} /\ Birth \in Nat
  BY <1>2, SyncAssumption DEF Seam, Smaller, Marks
<1>4. tick.at = "idle"
  BY <1>1, IdleTypes
<1>5. KnownOK
  BY <1>1, <1>2, <1>3, <1>4 DEF KnownOK, HeadersOK
<1>6. MarksOK
  <2>1. \A a \in Addr : /\ db.rows[a].marker <= 0
                        /\ db.rows[a].stored => db.rows[a].since = db.birth
    BY <1>2 DEF Null
  <2>2. ASSUME NEW k \in 1 .. db.birth PROVE Good(db, k, chain[k], {})
    <3> HIDE DEF Good
    <3> QED BY <1>2, <2>1, GoodFresh
  <2> HIDE DEF Good, Stands
  <2> QED BY <1>2, <1>3, <2>2 DEF MarksOK
<1>7. OpenOK /\ ScanOK /\ ShieldedOK /\ PoolOK
  BY <1>4 DEF OpenOK, ScanOK, ShieldedOK, PoolOK
<1>8. WalkRight
  <2>1. /\ walk.inc = 0 /\ walk.at = "idle" /\ walk.end = 0 /\ walk.batch = << >>
        /\ Tip \in Nat
    BY <1>0, <1>1, IdleTypes, Ranges
  <2>2. Calm /\ left.narrow => left.forks = 0
    BY <1>1 DEF Calm
  <2> QED BY <1>2, <2>1, <2>2 DEF WalkRight
<1> QED BY <1>0, <1>5, <1>6, <1>7, <1>8 DEF History, RowsRight

(* Every step keeps the history, if no fork slips under a shielded pass.   *)
LEMMA HistoryStep ==
    ASSUME ~LateForks, History, [Next]_vars
    PROVE  History'
<1>1. Typed' /\ PoolOK'
  <2>1. Typed'
    <3>1. CASE Next
      <4>1. CASE Mine \/ \E f \in Height : Fork(f)
        BY <4>1, TypedChain DEF History
      <4>2. CASE Tick
        BY <4>2, TypedScan, TypedShielded DEF History, Tick
      <4>3. CASE Walk \/ HostStep
        BY <4>3, TypedWalk, TypedHost DEF History
      <4> QED BY <3>1, <4>1, <4>2, <4>3 DEF Next
    <3>2. CASE UNCHANGED vars
      BY <3>2 DEF vars, History, Typed, ChainOK, DbOK, TickOK, WalkOK, HistoryOK, Tip
    <3> QED BY <3>1, <3>2
  <2>2. PoolOK'
    BY PoolStep DEF History
  <2> QED BY <2>1, <2>2
<1>2. KnownOK' /\ RowsRight' /\ WalkRight'
  <2>1. CASE Mine \/ \E f \in Height : Fork(f)
    BY <2>1, KnownChain, RowsChain, WalkChain DEF History
  <2>2. CASE Tick
    BY <2>2, TickRight
  <2>3. CASE Walk
    BY <2>3, WalkStepRight
  <2>4. CASE HostStep
    BY <2>4, HostRight
  <2>5. CASE UNCHANGED vars
    <3>1. /\ chain' = chain /\ db' = db /\ hdr' = hdr /\ tick' = tick
          /\ left' = left /\ walk' = walk
      BY <2>5 DEF vars
    <3>2. /\ KnownOK' /\ RowsRight'
          /\ \A h \in Marks' : h \in Marks /\ (Stands(h)' => Stands(h))
      BY <3>1, RowsAside
    <3>3. Seam(db') = Seam(db) /\ Typed /\ WalkRight
      BY <3>1 DEF Seam, History
    <3>4. WalkRight'
      BY <1>1, <3>1, <3>2, <3>3, WalkKept DEF WalkAside, Typed, DbOK, Db
    <3> QED BY <3>2, <3>4
  <2> QED BY <2>1, <2>2, <2>3, <2>4, <2>5 DEF Next
<1> QED BY <1>1, <1>2 DEF History

(* The inductive invariant: whatever ticks, walks, forks and the host do,  *)
(* the rows below every mark that still stands are the server's.           *)
THEOREM SpecHistory == ~LateForks => (Spec => []History)
<1> SUFFICES ASSUME ~LateForks PROVE Spec => []History
  OBVIOUS
<1>1. Init => History
  BY InitRight
<1>2. History /\ [Next]_vars => History'
  BY HistoryStep
<1> QED BY <1>1, <1>2, PTL DEF Spec

(* A header that agrees at the seam makes the rows right up to it.         *)
LEMMA AgreedRows ==
    ASSUME History, Agrees
    PROVE  /\ Seam(db) \in Nat /\ Seam(db) <= Tip /\ Tip \in Nat
           /\ \A k \in 1 .. Seam(db) : Good(db, k, chain[k], {})
<1>1. Typed /\ Stands(Seam(db))
  BY DEF History, Agrees, Stands
<1>2. Seam(db) \in Marks /\ Seam(db) \in Height /\ Seam(db) <= Tip
  BY <1>1, MarkHeights, Ranges
<1>3. \A k \in 1 .. Seam(db) : Good(db, k, chain[k], {})
  <2> HIDE DEF Good, Stands, Marks
  <2> QED BY <1>1, <1>2 DEF History, RowsRight, MarksOK
<1> QED BY <1>1, <1>2, <1>3, Ranges DEF Height

(* No phantom money, for every set of addresses, every birthday and any    *)
(* number of forks, ticks, walks, failures and host operations: a note at  *)
(* or below the seam is a payment of the server's chain once the header at *)
(* the seam agrees.  A fork under the shielded pass is excluded: the run   *)
(* sync_late_fork shows what it does.                                      *)
THEOREM NoPhantoms == ~LateForks => (Spec => []NoPhantomNotes)
<1>1. ASSUME History PROVE NoPhantomNotes
  <2> SUFFICES ASSUME Agrees, NEW n \in db.notes, n.height <= Seam(db)
               PROVE  OnChain(n)
    BY DEF NoPhantomNotes
  <2>1. n.height \in Nat /\ n.height >= 1
    BY <1>1 DEF History, Typed, DbOK, Db, Notes, Height
  <2>2. /\ Seam(db) \in Nat /\ Seam(db) <= Tip /\ Tip \in Nat
        /\ \A k \in 1 .. Seam(db) : Good(db, k, chain[k], {})
    BY <1>1, AgreedRows
  <2>3. n.height \in 1 .. Seam(db) /\ n.height \in 1 .. Tip
    BY <2>1, <2>2
  <2>4. n.fork = chain[n.height].fork
    BY <2>2, <2>3 DEF Good
  <2> QED BY <2>3, <2>4 DEF OnChain, HashAt
<1>2. ~LateForks => (Spec => []History)
  BY SpecHistory
<1> QED BY <1>1, <1>2, PTL

(* A receive address misses no payment above the seam it was stored at.    *)
THEOREM ReceivesAll == ~LateForks => (Spec => []ReceiveMissesNothing)
<1>1. ASSUME History PROVE ReceiveMissesNothing
  <2> SUFFICES ASSUME Agrees, NEW a \in Stored(db), a[1] = ReceiveScope,
                      NEW n \in Payments(a, Larger(db.birth, db.rows[a].since + 1),
                                         Seam(db))
               PROVE  n \in db.notes
    BY DEF ReceiveMissesNothing
  <2>1. PICK k \in Larger(db.birth, db.rows[a].since + 1) .. Smaller(Seam(db), Tip) :
          chain[k].pays = a /\ n = NoteAt(a, k, chain[k])
    BY DEF Payments, NoteAt
  <2>2. /\ a \in Addr /\ db.rows[a].stored /\ db.rows[a].since \in Nat
        /\ db.birth \in Nat /\ db.birth >= 1
    BY <1>1, SyncAssumption DEF Stored, History, Typed, DbOK, Db, RowType
  <2>3. /\ Seam(db) \in Nat /\ Seam(db) <= Tip /\ Tip \in Nat
        /\ \A j \in 1 .. Seam(db) : Good(db, j, chain[j], {})
    BY <1>1, AgreedRows
  <2>4. k \in 1 .. Seam(db) /\ db.birth <= k /\ db.rows[a].since < k
    BY <2>1, <2>2, <2>3 DEF Larger, Smaller
  <2>5. Owes(db, a, k)
    BY <2>2, <2>4 DEF Owes
  <2> HIDE DEF Owes, Covers, NoteAt
  <2> QED BY <2>1, <2>2, <2>3, <2>4, <2>5 DEF Good
<1>2. ~LateForks => (Spec => []History)
  BY SpecHistory
<1> QED BY <1>1, <1>2, PTL

(* A marker proves what it says, on a server that does not both narrow     *)
(* windows and fork.                                                       *)
THEOREM MarkersProve == ~LateForks => (Spec => []MarkerProvesHistory)
<1>1. ASSUME History PROVE MarkerProvesHistory
  <2> SUFFICES ASSUME Calm, Agrees, NEW a \in Stored(db),
                      NEW n \in Payments(a, db.birth,
                                         Smaller(db.rows[a].marker, Seam(db)))
               PROVE  n \in db.notes
    BY DEF MarkerProvesHistory
  <2>1. PICK k \in db.birth .. Smaller(Smaller(db.rows[a].marker, Seam(db)), Tip) :
          chain[k].pays = a /\ n = NoteAt(a, k, chain[k])
    BY DEF Payments, NoteAt
  <2>2. /\ a \in Addr /\ db.rows[a].stored /\ db.rows[a].marker \in Int
        /\ db.birth \in Nat /\ db.birth >= 1
    BY <1>1, SyncAssumption DEF Stored, History, Typed, DbOK, Db, RowType, Null
  <2>3. /\ Seam(db) \in Nat /\ Seam(db) <= Tip /\ Tip \in Nat
        /\ \A j \in 1 .. Seam(db) : Good(db, j, chain[j], {})
    BY <1>1, AgreedRows
  <2>4. k \in 1 .. Seam(db) /\ db.birth <= k /\ k <= db.rows[a].marker
    BY <2>1, <2>2, <2>3 DEF Smaller
  <2>5. Covers(db, a, k)
    BY <2>2, <2>4 DEF Covers
  <2> HIDE DEF Owes, Covers, NoteAt, Calm
  <2> QED BY <1>1, <2>1, <2>2, <2>3, <2>4, <2>5 DEF Good
<1> SUFFICES ASSUME ~LateForks PROVE Spec => []MarkerProvesHistory
  OBVIOUS
<1>2. History => MarkerProvesHistory
  BY <1>1
<1>3. Spec => []History
  BY SpecHistory
<1> QED BY <1>2, <1>3, PTL

-----------------------------------------------------------------------------
(* The invariant.                                                          *)

\* n was the server's answer: its block is the chain's and pays its address,
\* or a fork has removed the block for good.
Real(n) ==
    /\ Known(n.height, n.fork)
    /\ OnChain(n) => chain[n.height].pays = n.addr

\* The height up to which what was seen has become notes: that of the closed
\* transparent pass while the shielded pass streams.
Held == IF tick.at = "shielded" THEN tick.end ELSE Seam(db)

\* The tick has still to scan n, or will not reach it.
Sought(n) ==
    \/ n.height > tick.end
    \/ n.addr \in tick.todo
    \/ (n.addr = tick.addr /\ n.height >= tick.lo)

SeenRight(n) ==
    /\ Real(n) /\ n.height >= db.birth /\ db.rows[n.addr].stored
    /\ OnChain(n) =>
          /\ n \in db.notes \/ db.rows[n.addr].owed >= n.height
          /\ n.height <= Held => n \in db.notes
          /\ tick.at \in {"open", "scan"} => n \in db.notes \/ Sought(n)

SeenOK == \A n \in seen : SeenRight(n)

\* A pass begins with every marker below it and moves none above its end; no
\* checkpoint is above the seam.
PassOK ==
    /\ \A w \in db.wit : w <= Seam(db)
    /\ tick.at = "open" => \A a \in Addr : db.rows[a].marker < tick.start
    /\ tick.at = "scan" =>
          /\ \A a \in Addr : db.rows[a].marker <= tick.end
          /\ tick.addr # NoAddr => tick.lo >= db.birth

\* A walk's replies are answers of the server, from the birthday on.
AnswerOK(e) ==
    /\ db.inc = walk.inc => e.lo >= db.birth
    /\ \A n \in e.reply.found :
          Real(n) /\ (db.inc = walk.inc => n.height >= db.birth)

AnswersOK ==
    /\ walk.inc <= db.inc
    /\ \A i \in 1 .. Len(walk.batch) : AnswerOK(walk.batch[i])

Debts == Typed /\ SeenOK /\ PassOK /\ AnswersOK

-----------------------------------------------------------------------------
(* The server.                                                             *)

(* What the server answers is real, and what is real it answers.           *)
LEMMA PaymentsReal ==
    ASSUME Typed, NEW a \in Addr, NEW lo \in Nat \ {0}, NEW hi \in Int
    PROVE  /\ \A n \in Payments(a, lo, hi) :
                 Real(n) /\ OnChain(n) /\ n.addr = a /\ lo <= n.height
           /\ \A n \in Notes : /\ Real(n) /\ OnChain(n) /\ n.addr = a
                               /\ lo <= n.height /\ n.height <= hi
                 => n \in Payments(a, lo, hi)
<1>1. ChainOK
  BY DEF Typed
<1>2. ASSUME NEW n \in Payments(a, lo, hi)
      PROVE  Real(n) /\ OnChain(n) /\ n.addr = a /\ lo <= n.height
  BY <1>1, PaymentsAre DEF Real, OnChain, Known, HashAt
<1>3. ASSUME NEW n \in Notes, Real(n), OnChain(n), n.addr = a,
             lo <= n.height, n.height <= hi
      PROVE  n \in Payments(a, lo, hi)
  <2>1. n.fork \in Forks /\ n.height \in Height
    BY DEF Notes
  <2>2. n.height \in 1 .. Tip /\ chain[n.height].fork = n.fork
    BY <1>3, <2>1, ForkNames DEF OnChain, HashAt
  <2>3. [addr |-> a, height |-> n.height, fork |-> chain[n.height].fork]
           \in Payments(a, lo, hi)
    BY <1>1, <1>3, <2>2, PaymentsAre DEF Real
  <2>4. n = [addr |-> a, height |-> n.height, fork |-> chain[n.height].fork]
    BY <1>3, <2>2 DEF Notes
  <2> QED BY <2>3, <2>4
<1> QED BY <1>2, <1>3

(* A block or a fork keeps what is real and puts nothing back.             *)
LEMMA RealChain ==
    ASSUME Typed, Mine \/ \E f \in Height : Fork(f), NEW n \in Notes, Real(n)
    PROVE  Real(n)' /\ (OnChain(n)' => OnChain(n))
<1>1. n.height \in Height /\ n.fork \in Forks
  BY DEF Notes
<1>2. Known(n.height, n.fork) /\ (OnChain(n) => chain[n.height].pays = n.addr)
  BY DEF Real
<1>3. Known(n.height, n.fork)'
  BY <1>1, <1>2, ChainStep
<1>4. ASSUME OnChain(n)'
      PROVE  OnChain(n) /\ chain'[n.height] = chain[n.height]
  <2>1. HashAt(n.height)' = n.fork
    BY <1>4 DEF OnChain
  <2>2. HashAt(n.height) = n.fork /\ \A k \in 1 .. n.height : chain'[k] = chain[k]
    BY <1>1, <1>2, <2>1, ChainStep
  <2> QED BY <1>1, <2>2 DEF OnChain, Height
<1>5. OnChain(n)' => chain'[n.height].pays = n.addr
  BY <1>2, <1>4
<1> QED BY <1>3, <1>4, <1>5 DEF Real

(* While the chain stands, so does what is real.                           *)
LEMMA RealSame ==
    ASSUME chain' = chain, left'.forks = left.forks, NEW n
    PROVE  (Real(n)' <=> Real(n)) /\ (OnChain(n)' <=> OnChain(n))
BY DEF Real, OnChain, Known, HashAt, Tip

-----------------------------------------------------------------------------
(* Steps beside the account's rows.                                        *)

(* A step that leaves the walk alone keeps its replies.                    *)
LEMMA AnswersAside ==
    ASSUME Typed, Typed', AnswersOK, walk' = walk, chain' = chain,
           left'.forks = left.forks,
           \/ db'.inc = db.inc + 1
           \/ db'.inc = db.inc /\ db'.birth = db.birth
    PROVE  AnswersOK'
<1>1. db.inc \in Nat /\ walk.inc \in Nat
  BY DEF Typed, DbOK, Db, WalkOK, WalkType
<1>2. walk'.inc <= db'.inc /\ (db'.inc = walk'.inc => db'.inc = db.inc
                                                    /\ db.inc = walk.inc)
  BY <1>1 DEF AnswersOK
<1>3. ASSUME NEW i \in 1 .. Len(walk'.batch)
      PROVE  /\ db'.inc = walk'.inc => walk'.batch[i].lo >= db'.birth
             /\ \A n \in walk'.batch[i].reply.found :
                   Real(n)' /\ (db'.inc = walk'.inc => n.height >= db'.birth)
  <2>1. /\ db'.inc = walk'.inc => db.inc = walk.inc /\ db'.birth = db.birth
    BY <1>1, <1>2
  <2>2. /\ db.inc = walk.inc => walk.batch[i].lo >= db.birth
        /\ \A n \in walk.batch[i].reply.found :
              Real(n) /\ (db.inc = walk.inc => n.height >= db.birth)
    BY DEF AnswersOK, AnswerOK
  <2>3. \A n : Real(n) => Real(n)'
    BY RealSame
  <2> QED BY <2>1, <2>2, <2>3
<1> QED BY <1>2, <1>3 DEF AnswersOK, AnswerOK

(* Blocks and forks.                                                       *)
LEMMA DebtsChain ==
    ASSUME Debts, Mine \/ \E f \in Height : Fork(f)
    PROVE  SeenOK' /\ PassOK' /\ AnswersOK'
<1>1. UNCHANGED <<db, tick, walk, seen>>
  BY DEF Mine, Fork
<1>2. Typed
  BY DEF Debts
<1>3. ASSUME NEW n \in seen PROVE SeenRight(n)'
  <2>1. SeenRight(n) /\ n \in Notes
    BY DEF Debts, SeenOK, Typed, HistoryOK
  <2>2. Real(n)' /\ (OnChain(n)' => OnChain(n))
    BY <1>2, <2>1, RealChain DEF SeenRight
  <2>3. (Sought(n)' <=> Sought(n)) /\ Held' = Held
    BY <1>1 DEF Sought, Held
  <2> QED BY <1>1, <2>1, <2>2, <2>3 DEF SeenRight
<1>4. ASSUME NEW i \in 1 .. Len(walk.batch), NEW n \in walk.batch[i].reply.found
      PROVE  Real(n)'
  <2>1. n \in Notes
    BY <1>2, EntryTypes
  <2>2. Real(n)
    BY DEF Debts, AnswersOK, AnswerOK
  <2> QED BY <1>2, <2>1, <2>2, RealChain
<1>5. AnswersOK'
  BY <1>1, <1>4 DEF Debts, AnswersOK, AnswerOK
<1>6. PassOK'
  BY <1>1 DEF Debts, PassOK
<1> QED BY <1>1, <1>3, <1>5, <1>6 DEF SeenOK

(* Rows, tick and history unchanged.                                       *)
LEMMA SeenAside ==
    ASSUME Debts, chain' = chain, left'.forks = left.forks, db' = db, tick' = tick,
           seen' = seen
    PROVE  SeenOK' /\ PassOK'
<1>1. ASSUME NEW n \in seen PROVE SeenRight(n)'
  <2>1. SeenRight(n)
    BY DEF Debts, SeenOK
  <2>2. (Real(n)' <=> Real(n)) /\ (OnChain(n)' <=> OnChain(n))
    BY RealSame
  <2>3. (Sought(n)' <=> Sought(n)) /\ Held' = Held
    BY DEF Sought, Held
  <2> QED BY <2>1, <2>2, <2>3 DEF SeenRight
<1> QED BY <1>1 DEF SeenOK, Debts, PassOK

-----------------------------------------------------------------------------
(* The tick.                                                               *)

(* A tick begins by asking for everything owed.                            *)
LEMMA StartTickDebts ==
    ASSUME Debts, StartTick
    PROVE  SeenOK' /\ PassOK'
<1>1. Typed
  BY DEF Debts
<1>2. /\ chain' = chain /\ seen' = seen /\ left'.forks = left.forks
      /\ tick.at = "idle"
      /\ \/ tick' = Idle
         \/ tick'.at = "open" /\ tick'.start = Seam(db') + 1 /\ tick'.todo = ScanSet(db')
  <2>1. chain' = chain /\ seen' = seen /\ left'.forks = left.forks
        /\ tick.at = "idle"
    BY <1>1 DEF StartTick, Typed, ChainOK, Budget
  <2>2. \/ tick' = Idle
        \/ tick' = [Idle EXCEPT !.at = "open", !.start = Seam(db') + 1,
                                !.end = Tip, !.todo = ScanSet(db')]
    BY DEF StartTick
  <2> QED BY <2>1, <2>2 DEF Idle
<1>3. tick'.at \in {"idle", "open"}
  BY <1>2, IdleTypes
<1>4. Held = Seam(db) /\ Held' = Seam(db) /\ Seam(db') = Seam(db)
  BY <1>1, <1>2, <1>3, StartTickEffect DEF Held
<1>5. Seam(db) \in Nat
  BY <1>1, Ranges DEF Height
<1>6. ASSUME NEW n \in seen PROVE SeenRight(n)'
  <2>1. SeenRight(n) /\ n \in Notes
    BY DEF Debts, SeenOK, Typed, HistoryOK
  <2>2. (Real(n)' <=> Real(n)) /\ (OnChain(n)' <=> OnChain(n))
    BY <1>2, RealSame
  <2>3. n.addr \in Addr /\ n.height \in Nat \ {0}
    BY <2>1 DEF Notes, Height
  <2>4. /\ db'.birth = db.birth /\ db'.rows[n.addr].stored
        /\ db'.rows[n.addr].owed >= db.rows[n.addr].owed
        /\ db'.notes = {m \in db.notes : m.height <= Seam(db)}
        /\ n \in db.notes /\ n.height > Seam(db) =>
              db'.rows[n.addr].owed >= n.height
    BY <1>1, <2>1, <2>3, StartTickEffect DEF SeenRight
  <2>5. /\ db.rows[n.addr].owed \in Nat /\ db'.rows[n.addr].owed \in Nat
    <3>1. db \in Db /\ db' \in Db
      BY <1>1, StartTickEffect DEF Typed, DbOK
    <3> QED BY <2>3, <3>1 DEF Db, RowType
  <2>6. ASSUME OnChain(n)
        PROVE  /\ n \in db'.notes \/ db'.rows[n.addr].owed >= n.height
               /\ n.height <= Held' => n \in db'.notes
    <3>1. /\ n \in db.notes \/ db.rows[n.addr].owed >= n.height
          /\ n.height <= Held => n \in db.notes
      BY <2>1, <2>6 DEF SeenRight
    <3> QED BY <1>4, <1>5, <2>3, <2>4, <2>5, <3>1
  <2>7. ASSUME OnChain(n), tick'.at = "open", n \notin db'.notes
        PROVE  n.addr \in tick'.todo
    <3>1. db'.rows[n.addr].owed # 0
      BY <2>3, <2>5, <2>6, <2>7
    <3> QED BY <1>2, <2>3, <2>4, <2>7, <3>1, IdleTypes DEF ScanSet, Stored
  <2> QED BY <1>3, <2>1, <2>2, <2>4, <2>6, <2>7 DEF SeenRight, Sought
<1>7. PassOK'
  <2>1. ASSUME NEW a \in Addr, tick'.at = "open"
        PROVE  db'.rows[a].marker < tick'.start
    <3>1. db'.rows[a].marker = Smaller(db.rows[a].marker, Seam(db))
      BY <1>1, StartTickEffect
    <3>2. db.rows[a].marker \in Int
      BY <1>1 DEF Typed, DbOK, Db, RowType, Null
    <3> QED BY <1>2, <1>4, <1>5, <2>1, <3>1, <3>2, IdleTypes DEF Smaller
  <2>2. \A w \in db'.wit : w <= Seam(db')
    BY <1>1, <1>4, StartTickEffect
  <2> QED BY <1>3, <2>1, <2>2 DEF PassOK
<1> QED BY <1>2, <1>6, <1>7 DEF SeenOK

(* The opening anchor scans nothing.                                       *)
LEMMA OpenAnchorDebts ==
    ASSUME Debts, OpenAnchor
    PROVE  SeenOK' /\ PassOK'
<1>1. /\ UNCHANGED <<chain, db, seen, left>>
      /\ tick.at = "open" /\ tick'.at = "scan" /\ tick'.end = tick.end
      /\ tick'.todo = tick.todo /\ tick'.addr = tick.addr /\ tick'.lo = tick.lo
  BY DEF OpenAnchor, Debts, Typed, TickOK, TickType
<1>2. tick.addr = NoAddr /\ tick.start <= tick.end
      /\ tick.start \in Int /\ tick.end \in Int
      /\ \A a \in Addr : db.rows[a].marker \in Int
  BY <1>1 DEF Debts, Typed, TickOK, TickType, DbOK, Db, RowType, Null
<1>3. PassOK'
  BY <1>1, <1>2 DEF Debts, PassOK
<1>4. ASSUME NEW n \in seen PROVE SeenRight(n)'
  <2>1. SeenRight(n)
    BY DEF Debts, SeenOK
  <2>2. (Real(n)' <=> Real(n)) /\ (OnChain(n)' <=> OnChain(n))
    BY <1>1, RealSame
  <2>3. (Sought(n)' <=> Sought(n)) /\ Held' = Held
    BY <1>1 DEF Sought, Held
  <2> QED BY <1>1, <2>1, <2>2, <2>3 DEF SeenRight
<1> QED BY <1>1, <1>3, <1>4 DEF SeenOK

(* What a window of the tick's scan keeps of one payment: found is written,*)
(* rows keep their debts, and what is sought stays so or is found.         *)
LEMMA ScannedRight ==
    ASSUME Debts, chain' = chain, left'.forks = left.forks,
           tick.at = "scan", tick'.at = "scan", Seam(db') = Seam(db),
           db'.birth = db.birth,
           NEW n \in Notes, db'.rows[n.addr].stored,
           NEW found, db.notes \subseteq db'.notes,
           \/ n \in found /\ Real(n) /\ n \in db'.notes
              /\ n.height >= db.birth
           \/ /\ n \in seen
              /\ db'.rows[n.addr].owed = db.rows[n.addr].owed
              /\ OnChain(n) /\ Sought(n) => n \in db'.notes \/ Sought(n)'
    PROVE  SeenRight(n)'
<1>1. (Real(n)' <=> Real(n)) /\ (OnChain(n)' <=> OnChain(n))
  BY RealSame
<1>2. Held' = Held
  BY DEF Held
<1>3. CASE n \in found /\ Real(n) /\ n \in db'.notes /\ n.height >= db.birth
  BY <1>1, <1>3 DEF SeenRight
<1>4. CASE /\ n \in seen
           /\ db'.rows[n.addr].owed = db.rows[n.addr].owed
           /\ OnChain(n) /\ Sought(n) => n \in db'.notes \/ Sought(n)'
  <2>1. SeenRight(n)
    BY <1>4 DEF Debts, SeenOK
  <2> QED BY <1>1, <1>2, <1>4, <2>1 DEF SeenRight
<1> QED BY <1>3, <1>4

(* The range an address owes below the seam holds no payment it has not.   *)
LEMMA StartAddressDebts ==
    ASSUME Debts, StartAddress
    PROVE  SeenOK' /\ PassOK'
<1>1. PICK a : a = ScanOrder(tick.todo)
  OBVIOUS
<1>2. PICK lo : lo = RangeStart(a)
  OBVIOUS
<1>3. PICK found : found = Payments(a, lo, Seam(db))
  OBVIOUS
<1>4. Typed
  BY DEF Debts
<1>5. /\ UNCHANGED <<chain, left>> /\ seen' = seen \cup found
      /\ tick.at = "scan" /\ tick'.at = "scan" /\ tick'.end = tick.end
      /\ tick'.todo = tick.todo \ {a} /\ tick'.addr = a /\ tick.addr = NoAddr
      /\ tick'.lo = Larger(lo, Seam(db) + 1)
  BY <1>1, <1>2, <1>3, <1>4 DEF StartAddress, Typed, TickOK, TickType
<1>6. /\ a \in Addr /\ a \in tick.todo /\ db.rows[a].stored
      /\ lo \in 1 .. MaxHeight /\ lo >= db.birth
      /\ Seam(db) + 1 = tick.start
      /\ lo <= Larger(db.birth, tick.start)
  BY <1>1, <1>2, <1>4, StartAddressRange
<1>7. /\ found \in SUBSET Notes /\ (\A n \in found : n.addr = a)
      /\ db' \in Db /\ SameRest(db, db')
      /\ IF lo <= Seam(db)
         THEN /\ db'.notes = db.notes \cup found
              /\ db'.rows[a].marker =
                   IF /\ lo <= Larger(db.rows[a].marker + 1, db.birth)
                      /\ db.rows[a].marker < Seam(db)
                   THEN Seam(db) ELSE db.rows[a].marker
         ELSE db' = db
      /\ \A b \in Addr : SameRow(db.rows[b], db'.rows[b], {"used", "marker"})
      /\ \A b \in Addr \ {a} : db'.rows[b] = db.rows[b]
  BY <1>1, <1>2, <1>3, <1>4, StartAddressEffect
<1>8. /\ Seam(db') = Seam(db) /\ db'.birth = db.birth
      /\ \A b \in Addr : /\ db'.rows[b].stored = db.rows[b].stored
                         /\ db'.rows[b].owed = db.rows[b].owed
  BY <1>7 DEF SameRest, SameRow, Seam
<1>9. /\ Seam(db) \in Nat /\ db.birth \in Nat /\ lo \in Nat \ {0}
      /\ tick.end \in Nat /\ tick.start \in Nat /\ tick.start <= tick.end
      /\ NoAddr \notin Addr
  BY <1>4, <1>5, <1>6, Ranges, SyncAssumption DEF Typed, TickOK, TickType, Height
<1>10. db.notes \subseteq db'.notes /\ (lo <= Seam(db) => found \subseteq db'.notes)
  BY <1>7
<1>11. \A n \in found : Real(n) /\ lo <= n.height /\ n.height <= Seam(db)
  <2>1. ChainOK
    BY <1>4 DEF Typed
  <2>2. PICK s \in Int : s = Seam(db)
    BY <1>9
  <2>3. \A n \in Payments(a, lo, s) :
           Real(n) /\ OnChain(n) /\ n.addr = a /\ lo <= n.height
    BY <1>4, <1>6, <1>9, PaymentsReal
  <2>4. \A n \in Payments(a, lo, s) : n.height <= s
    BY <1>6, <1>9, <2>1, PaymentsAre
  <2> QED BY <1>3, <2>2, <2>3, <2>4
<1>12. ASSUME NEW n \in seen' PROVE SeenRight(n)'
  <2>1. n \in Notes /\ n.addr \in Addr /\ n.height \in Nat
    BY <1>4, <1>5, <1>7 DEF Typed, HistoryOK, Notes, Height
  <2>2. CASE n \in found
    <3>1. Real(n) /\ n \in db'.notes /\ n.height >= db.birth
      BY <1>6, <1>9, <1>10, <1>11, <2>1, <2>2
    <3>2. db'.rows[n.addr].stored
      BY <1>6, <1>7, <1>8, <2>2
    <3> QED BY <1>5, <1>8, <1>10, <2>1, <2>2, <3>1, <3>2, ScannedRight
  <2>3. CASE n \in seen
    <3>1. SeenRight(n)
      BY <2>3 DEF Debts, SeenOK
    <3>2. ASSUME OnChain(n), Sought(n) PROVE n \in db'.notes \/ Sought(n)'
      <4>1. CASE n.addr = a /\ n.height < tick'.lo
        <5>1. n.height <= Seam(db)
          BY <1>5, <1>6, <1>9, <2>1, <3>1, <4>1 DEF SeenRight, Larger
        <5>2. n \in db.notes
          BY <1>5, <3>1, <3>2, <5>1 DEF SeenRight, Held
        <5> QED BY <1>10, <5>2
      <4>2. CASE n.addr = a /\ ~(n.height < tick'.lo)
        <5>1. tick'.lo \in Nat
          BY <1>5, <1>9 DEF Larger
        <5> QED BY <1>5, <2>1, <4>2, <5>1 DEF Sought
      <4>3. CASE n.addr # a
        BY <1>5, <1>9, <2>1, <3>2, <4>3 DEF Sought
      <4> QED BY <4>1, <4>2, <4>3
    <3>3. db'.rows[n.addr].stored /\ db'.rows[n.addr].owed = db.rows[n.addr].owed
      BY <1>8, <2>1, <3>1 DEF SeenRight
    <3> QED BY <1>5, <1>8, <1>10, <2>1, <2>3, <3>2, <3>3, ScannedRight
  <2> QED BY <1>5, <2>2, <2>3
<1>13. PassOK'
  <2>1. ASSUME NEW b \in Addr PROVE db'.rows[b].marker <= tick'.end
    <3>1. db.rows[b].marker <= tick.end
      BY <1>5 DEF Debts, PassOK
    <3>2. Seam(db) <= tick.end
      BY <1>6, <1>9
    <3> QED BY <1>5, <1>7, <3>1, <3>2
  <2>2. tick'.lo >= db'.birth
    BY <1>5, <1>6, <1>8, <1>9 DEF Larger
  <2>3. \A w \in db'.wit : w <= Seam(db')
    BY <1>7, <1>8 DEF SameRest, Debts, PassOK
  <2> QED BY <1>5, <2>1, <2>2, <2>3 DEF PassOK
<1> QED BY <1>12, <1>13 DEF SeenOK

(* A window scanned holds what was sought in it.                           *)
LEMMA ScanWindowDebts ==
    ASSUME Debts, NEW hi \in Height, ScanWindow(hi) \/ ScanWindowUndated(hi)
    PROVE  SeenOK' /\ PassOK'
<1>1. PICK a : a = tick.addr
  OBVIOUS
<1>2. PICK lo : lo = tick.lo
  OBVIOUS
<1>3. PICK found : found = Payments(a, lo, hi)
  OBVIOUS
<1>4. Typed
  BY DEF Debts
<1>5. /\ chain' = chain /\ left'.forks = left.forks /\ seen' = seen \cup found
      /\ tick.at = "scan" /\ tick'.at = "scan" /\ tick'.end = tick.end
      /\ tick'.todo = tick.todo
      /\ \/ tick'.addr = a /\ tick'.lo = lo
         \/ tick'.lo = hi + 1 /\ tick'.addr = (IF hi = tick.end THEN NoAddr ELSE a)
  BY <1>1, <1>2, <1>3, <1>4
     DEF ScanWindow, ScanWindowUndated, Failing, Typed, ChainOK, Budget, TickOK,
         TickType
<1>6. /\ a \in Addr /\ db.rows[a].stored /\ lo <= hi /\ hi <= tick.end
      /\ lo \in Nat \ {0} /\ found \in SUBSET Notes
      /\ db' \in Db /\ SameRest(db, db') /\ db'.notes = db.notes \cup found
      /\ db'.rows[a].marker \in {hi, db.rows[a].marker}
      /\ \A b \in Addr : SameRow(db.rows[b], db'.rows[b], {"used", "marker"})
      /\ \A b \in Addr \ {a} : db'.rows[b] = db.rows[b]
  BY <1>1, <1>2, <1>3, <1>4, ScanWindowEffect
<1>7. /\ Seam(db') = Seam(db) /\ db'.birth = db.birth
      /\ \A b \in Addr : /\ db'.rows[b].stored = db.rows[b].stored
                         /\ db'.rows[b].owed = db.rows[b].owed
  BY <1>6 DEF SameRest, SameRow, Seam
<1>8. /\ lo >= db.birth /\ db.birth \in Nat /\ tick.end \in Nat /\ hi \in Nat
  <2>1. a # NoAddr
    BY <1>6, SyncAssumption
  <2>2. db.birth \in Nat
    BY <1>4, Ranges
  <2> QED BY <1>1, <1>2, <1>4, <1>5, <2>1, <2>2
          DEF Debts, PassOK, Height, Typed, TickOK, TickType
<1>9. /\ \A n \in found : Real(n) /\ n.addr = a /\ lo <= n.height
      /\ \A n \in Notes : /\ Real(n) /\ OnChain(n) /\ n.addr = a
                          /\ lo <= n.height /\ n.height <= hi
            => n \in found
  <2>1. lo \in Nat \ {0} /\ hi \in Int /\ a \in Addr
    BY <1>6, <1>8
  <2>2. /\ \A n \in Payments(a, lo, hi) :
              Real(n) /\ OnChain(n) /\ n.addr = a /\ lo <= n.height
        /\ \A n \in Notes : /\ Real(n) /\ OnChain(n) /\ n.addr = a
                            /\ lo <= n.height /\ n.height <= hi
              => n \in Payments(a, lo, hi)
    BY <1>4, <2>1, PaymentsReal
  <2> QED BY <1>3, <2>2
<1>10. ASSUME NEW n \in seen' PROVE SeenRight(n)'
  <2>1. n \in Notes /\ n.addr \in Addr /\ n.height \in Nat
    BY <1>4, <1>5, <1>6 DEF Typed, HistoryOK, Notes, Height
  <2>2. CASE n \in found
    <3>1. Real(n) /\ n \in db'.notes /\ n.height >= db.birth
      BY <1>6, <1>8, <1>9, <2>1, <2>2
    <3>2. db'.rows[n.addr].stored
      BY <1>6, <1>7, <1>9, <2>2
    <3> QED BY <1>5, <1>6, <1>7, <2>1, <2>2, <3>1, <3>2, ScannedRight
  <2>3. CASE n \in seen
    <3>1. SeenRight(n)
      BY <2>3 DEF Debts, SeenOK
    <3>2. ASSUME OnChain(n), Sought(n) PROVE n \in db'.notes \/ Sought(n)'
      <4>1. CASE n.addr = a /\ lo <= n.height /\ n.height <= hi
        BY <1>6, <1>9, <2>1, <3>1, <3>2, <4>1 DEF SeenRight
      <4>2. CASE n.addr = a /\ lo <= n.height /\ ~(n.height <= hi)
        BY <1>5, <1>6, <1>8, <2>1, <4>2 DEF Sought
      <4>3. CASE ~(n.addr = a /\ lo <= n.height)
        BY <1>1, <1>2, <1>5, <1>6, <2>1, <3>2, <4>3 DEF Sought
      <4> QED BY <4>1, <4>2, <4>3
    <3>3. db'.rows[n.addr].stored /\ db'.rows[n.addr].owed = db.rows[n.addr].owed
      BY <1>7, <2>1, <3>1 DEF SeenRight
    <3> QED BY <1>5, <1>6, <1>7, <2>1, <2>3, <3>2, <3>3, ScannedRight
  <2> QED BY <1>5, <2>2, <2>3
<1>11. PassOK'
  <2>1. ASSUME NEW b \in Addr PROVE db'.rows[b].marker <= tick'.end
    <3>1. db.rows[b].marker <= tick.end
      BY <1>5 DEF Debts, PassOK
    <3> QED BY <1>5, <1>6, <3>1
  <2>2. tick'.lo >= db'.birth
    BY <1>5, <1>6, <1>7, <1>8
  <2>3. \A w \in db'.wit : w <= Seam(db')
    BY <1>6, <1>7 DEF SameRest, Debts, PassOK
  <2> QED BY <1>5, <2>1, <2>2, <2>3 DEF PassOK
<1> QED BY <1>10, <1>11 DEF SeenOK

(* A closed pass has found what it sought: a debt its row's marker pays is *)
(* a note.                                                                 *)
LEMMA ClosePassDebts ==
    ASSUME Debts, ClosePass
    PROVE  SeenOK' /\ PassOK'
<1>1. Typed
  BY DEF Debts
<1>2. /\ UNCHANGED <<chain, seen, left>> /\ tick.at = "scan"
      /\ tick.addr = NoAddr /\ tick.todo = {}
      /\ tick'.at = "shielded" /\ tick'.end = tick.end
  BY DEF ClosePass, ScanDone, Idle
<1>3. /\ db'.wit = db.wit /\ db'.notes = db.notes /\ db'.birth = db.birth
      /\ \A b \in Addr :
           /\ db'.rows[b].stored = db.rows[b].stored
           /\ db'.rows[b].owed = IF db.rows[b].marker >= db.rows[b].owed
                                 THEN 0 ELSE db.rows[b].owed
      /\ Seam(db') = Seam(db)
  BY <1>1, ClosePassEffect DEF SameRow
<1>4. ASSUME NEW n \in seen PROVE SeenRight(n)'
  <2>1. SeenRight(n) /\ n \in Notes /\ n.addr \in Addr /\ n.height \in Nat
    BY DEF Debts, SeenOK, Typed, HistoryOK, Notes, Height
  <2>2. (Real(n)' <=> Real(n)) /\ (OnChain(n)' <=> OnChain(n))
    BY <1>2, RealSame
  <2>3. ASSUME OnChain(n) PROVE n \in db.notes \/ n.height > tick.end
    <3>1. n.addr # NoAddr
      BY <2>1, SyncAssumption
    <3> QED BY <1>2, <2>1, <2>3, <3>1 DEF SeenRight, Sought
  <2>4. ASSUME OnChain(n), n.height > tick.end, n \notin db.notes
        PROVE  db'.rows[n.addr].owed >= n.height
    <3>1. db.rows[n.addr].owed >= n.height
      BY <2>1, <2>4 DEF SeenRight
    <3>2. db.rows[n.addr].marker <= tick.end
      BY <1>2, <2>1 DEF Debts, PassOK
    <3>3. /\ db.rows[n.addr].owed \in Int /\ db.rows[n.addr].marker \in Int
          /\ tick.end \in Int
      BY <1>1, <2>1 DEF Typed, DbOK, Db, RowType, Null, TickOK, TickType
    <3> QED BY <1>3, <2>1, <2>4, <3>1, <3>2, <3>3
  <2>5. Held' = tick.end /\ tick.end \in Int
    BY <1>1, <1>2 DEF Held, Typed, TickOK, TickType
  <2> QED BY <1>2, <1>3, <2>1, <2>2, <2>3, <2>4, <2>5 DEF SeenRight
<1>5. PassOK'
  BY <1>2, <1>3 DEF Debts, PassOK
<1> QED BY <1>2, <1>4, <1>5 DEF SeenOK

(* The shielded pass moves the seam only over what the transparent one has.*)
LEMMA CommitChunkDebts ==
    ASSUME Debts, NEW h \in Height, NEW w \in BOOLEAN, CommitChunk(h, w)
    PROVE  SeenOK' /\ PassOK'
<1>1. Typed
  BY DEF Debts
<1>2. /\ UNCHANGED <<chain, seen, left>> /\ tick.at = "shielded"
      /\ IF h = tick.end THEN tick' = Idle
         ELSE tick'.at = "shielded" /\ tick'.end = tick.end
  BY <1>1 DEF CommitChunk, Typed, TickOK, TickType
<1>3. /\ db'.wit \subseteq db.wit \cup {h} /\ db'.rows = db.rows
      /\ db'.notes = db.notes /\ db'.birth = db.birth
      /\ Seam(db') = h /\ Seam(db) = tick.cur /\ tick.cur < h /\ h <= tick.end
  BY <1>1, CommitChunkEffect
<1>4. Held = tick.end /\ Held' = tick.end /\ tick'.at \in {"idle", "shielded"}
  BY <1>2, <1>3, IdleTypes DEF Held
<1>5. ASSUME NEW n \in seen PROVE SeenRight(n)'
  <2>1. SeenRight(n)
    BY DEF Debts, SeenOK
  <2>2. (Real(n)' <=> Real(n)) /\ (OnChain(n)' <=> OnChain(n))
    BY <1>2, RealSame
  <2> QED BY <1>3, <1>4, <2>1, <2>2 DEF SeenRight
<1>6. PassOK'
  <2>1. db.wit \subseteq Int /\ h \in Int /\ tick.cur \in Int
    BY <1>1 DEF Typed, DbOK, Db, Height, TickOK, TickType
  <2>2. \A v \in db'.wit : v <= Seam(db')
    BY <1>3, <2>1 DEF Debts, PassOK
  <2> QED BY <1>4, <2>2 DEF PassOK
<1> QED BY <1>2, <1>5, <1>6 DEF SeenOK

(* A tick that dies leaves what it committed.                              *)
LEMMA FailTickDebts ==
    ASSUME Debts, FailTick
    PROVE  SeenOK' /\ PassOK'
<1>1. Typed
  BY DEF Debts
<1>2. /\ UNCHANGED <<chain, db, seen>> /\ left'.forks = left.forks
      /\ tick' = Idle /\ tick'.at = "idle"
  BY <1>1, IdleTypes DEF FailTick, Failing, Typed, ChainOK, Budget
<1>3. Held' = Seam(db) /\ Held' <= Held /\ Held \in Int /\ Held' \in Int
  BY <1>1, <1>2, Ranges, TickHeights DEF Held, Height
<1>4. ASSUME NEW n \in seen PROVE SeenRight(n)'
  <2>1. SeenRight(n) /\ n.height \in Int
    BY <1>1 DEF Debts, SeenOK, Typed, HistoryOK, Notes, Height
  <2>2. (Real(n)' <=> Real(n)) /\ (OnChain(n)' <=> OnChain(n))
    BY <1>2, RealSame
  <2> QED BY <1>2, <1>3, <2>1, <2>2 DEF SeenRight
<1>5. PassOK'
  BY <1>2 DEF Debts, PassOK
<1> QED BY <1>2, <1>4, <1>5 DEF SeenOK

(* Starting over forgets what was seen.                                    *)
LEMMA FreshDebts ==
    ASSUME seen' = {}, tick'.at = "idle", db'.wit = {}
    PROVE  SeenOK' /\ PassOK'
BY DEF SeenOK, PassOK

(* A rewind deletes notes and owes their addresses.                        *)
LEMMA RewindDebts ==
    ASSUME Debts, NEW x \in Nat, db' = RewoundSync(db, x), seen' = Remembered(x),
           chain' = chain, left'.forks = left.forks, tick'.at = "idle"
    PROVE  SeenOK' /\ PassOK'
<1>1. Typed /\ db \in Db
  BY DEF Debts, Typed, DbOK
<1>2. CASE RewoundSync(db, x) = ResetSync(db) /\ \A v \in db.wit : v >= x
  <2>1. db'.wit = {}
    BY <1>1, <1>2, ResetDb
  <2>2. seen' = {}
    <3>1. db.wit \subseteq Int
      BY <1>1 DEF Db, Height
    <3> QED BY <1>2, <3>1 DEF Remembered
  <2> QED BY <2>1, <2>2, FreshDebts
<1>3. CASE \E w \in db.wit : /\ w < x
                             /\ RewoundSync(db, x) = Retired(Trimmed(db, w))
  <2>1. PICK w \in db.wit : w < x /\ RewoundSync(db, x) = Retired(Trimmed(db, w))
    BY <1>3
  <2>2. w \in 0 .. MaxHeight
    BY <1>1 DEF Db, Height
  <2>3. PICK e : e = Trimmed(db, w)
    OBVIOUS
  <2>4. /\ e \in Db /\ e.hT = w /\ e.hS = w
        /\ e.wit = {v \in db.wit : v <= w}
        /\ e.notes = {n \in db.notes : n.height <= w}
        /\ e.birth = db.birth
        /\ \A b \in Addr :
              /\ SameRow(db.rows[b], e.rows[b], {"marker", "owed", "since"})
              /\ e.rows[b].owed >= db.rows[b].owed
              /\ \A n \in db.notes :
                    n.addr = b /\ n.height > w => e.rows[b].owed >= n.height
    BY <1>1, <2>2, <2>3, TrimmedDb
  <2>5. /\ db'.hT = w /\ db'.hS = w /\ db'.wit = e.wit /\ db'.rows = e.rows
        /\ db'.notes = e.notes /\ db'.birth = db.birth
    BY <2>1, <2>3, <2>4, RetiredDb
  <2>6. Seam(db') = w
    BY <2>5 DEF Seam, Smaller
  <2>7. seen' = seen
    BY <2>1 DEF Remembered
  <2>8. Held' = w /\ w <= Held /\ Held \in Int /\ w \in Int
    <3>1. w <= Seam(db)
      BY DEF Debts, PassOK
    <3> QED BY <1>1, <2>2, <2>6, <3>1, Ranges, TickHeights DEF Held, Height
  <2>9. ASSUME NEW n \in seen PROVE SeenRight(n)'
    <3>1. SeenRight(n) /\ n.addr \in Addr /\ n.height \in Int
      BY <1>1 DEF Debts, SeenOK, Typed, HistoryOK, Notes, Height
    <3>2. (Real(n)' <=> Real(n)) /\ (OnChain(n)' <=> OnChain(n))
      BY RealSame
    <3>3. db'.rows[n.addr].stored
      BY <2>4, <2>5, <3>1 DEF SameRow, SeenRight
    <3>4. db.rows[n.addr].owed \in Int /\ e.rows[n.addr].owed \in Int
      BY <1>1, <2>4, <3>1 DEF Db, RowType
    <3>5. ASSUME OnChain(n)
          PROVE  n \in db'.notes \/ db'.rows[n.addr].owed >= n.height
      <4>1. n \in db.notes \/ db.rows[n.addr].owed >= n.height
        BY <3>1, <3>5 DEF SeenRight
      <4> QED BY <2>4, <2>5, <2>8, <3>1, <3>4, <4>1
    <3>6. ASSUME OnChain(n), n.height <= w PROVE n \in db'.notes
      BY <2>4, <2>5, <2>8, <3>1, <3>6 DEF SeenRight
    <3> QED BY <2>5, <2>8, <3>1, <3>2, <3>3, <3>5, <3>6 DEF SeenRight
  <2>10. PassOK'
    BY <2>4, <2>5, <2>6 DEF PassOK
  <2> QED BY <2>7, <2>9, <2>10 DEF SeenOK
<1> QED BY <1>1, <1>2, <1>3, RewoundDb

(* One step of the tick.                                                   *)
LEMMA TickDebts ==
    ASSUME Debts, Tick, Typed'
    PROVE  SeenOK' /\ PassOK' /\ AnswersOK'
<1>1. Typed /\ db \in Db
  BY DEF Debts, Typed, DbOK
<1>2. walk' = walk /\ chain' = chain /\ left'.forks = left.forks
  BY <1>1, SpentOK DEF Tick, StartTick, OpenAnchor, StartAddress, ScanWindow,
     ScanWindowUndated, ClosePass, CommitChunk, MeetReorg, FailTick, Failing, Typed
<1>3. ASSUME \/ db'.inc = db.inc + 1
             \/ db'.inc = db.inc /\ db'.birth = db.birth
      PROVE  AnswersOK'
  BY <1>1, <1>2, <1>3, AnswersAside DEF Debts
<1>4. CASE StartTick
  BY <1>1, <1>3, <1>4, StartTickDebts, StartTickEffect
<1>5. CASE OpenAnchor
  BY <1>3, <1>5, OpenAnchorDebts DEF OpenAnchor
<1>6. CASE StartAddress
  <2>1. SameRest(db, db')
    BY <1>1, <1>6, StartAddressEffect
  <2> QED BY <1>3, <1>6, <2>1, StartAddressDebts DEF SameRest
<1>7. ASSUME NEW h \in Height, ScanWindow(h) \/ ScanWindowUndated(h)
      PROVE  SeenOK' /\ PassOK' /\ AnswersOK'
  <2>1. SameRest(db, db')
    BY <1>1, <1>7, ScanWindowEffect
  <2> QED BY <1>3, <1>7, <2>1, ScanWindowDebts DEF SameRest
<1>8. CASE ClosePass
  BY <1>1, <1>3, <1>8, ClosePassDebts, ClosePassEffect
<1>9. ASSUME NEW h \in Height, NEW w \in BOOLEAN, CommitChunk(h, w)
      PROVE  SeenOK' /\ PassOK' /\ AnswersOK'
  BY <1>1, <1>3, <1>9, CommitChunkDebts, CommitChunkEffect
<1>10. CASE MeetReorg
  <2>1. PICK x : x = tick.cur
    OBVIOUS
  <2>2. /\ x \in Nat /\ db' = RewoundSync(db, x) /\ seen' = Remembered(x)
        /\ tick'.at = "idle"
    BY <1>1, <1>10, <2>1, TickHeights, IdleTypes DEF MeetReorg, Height
  <2>3. db'.inc = db.inc + 1
    BY <1>1, <2>2, RewoundRows DEF Typed, DbOK
  <2> QED BY <1>2, <1>3, <2>2, <2>3, RewindDebts
<1>11. CASE FailTick
  BY <1>3, <1>11, FailTickDebts DEF FailTick
<1> QED BY <1>4, <1>5, <1>6, <1>7, <1>8, <1>9, <1>10, <1>11 DEF Tick

-----------------------------------------------------------------------------
(* Host operations.                                                        *)

(* A new birthday forgets what lies below it and moves no debt.            *)
LEMMA HostBirthDebts ==
    ASSUME Debts, NEW b \in Births, HostBirth(b)
    PROVE  SeenOK' /\ PassOK'
<1>1. Typed /\ db \in Db /\ b \in 1 .. Birth
  BY SyncAssumption DEF Debts, Typed, DbOK
<1>2. /\ chain' = chain /\ tick' = tick /\ tick.at = "idle"
      /\ left'.forks = left.forks /\ db' = MovedBirth(db, b)
      /\ seen' = {n \in seen : n.height >= b}
  BY <1>1 DEF HostBirth, Host, Quiet, Typed, ChainOK, Budget
<1>3. /\ db'.birth = b /\ db'.hT = db.hT /\ db'.hS = db.hS /\ db'.wit = db.wit
      /\ db'.notes = db.notes
      /\ \A c \in Addr : SameRow(db.rows[c], db'.rows[c], {"marker", "since"})
  BY <1>1, <1>2, MovedBirthDb
<1>4. Seam(db') = Seam(db) /\ Held' = Held
  BY <1>2, <1>3 DEF Seam, Held
<1>5. ASSUME NEW n \in seen' PROVE SeenRight(n)'
  <2>1. SeenRight(n) /\ n.addr \in Addr /\ n.height >= b
    BY <1>1, <1>2 DEF Debts, SeenOK, Typed, HistoryOK, Notes
  <2>2. (Real(n)' <=> Real(n)) /\ (OnChain(n)' <=> OnChain(n))
    BY <1>2, RealSame
  <2>3. /\ db'.rows[n.addr].stored = db.rows[n.addr].stored
        /\ db'.rows[n.addr].owed = db.rows[n.addr].owed
    BY <1>3, <2>1 DEF SameRow
  <2> QED BY <1>2, <1>3, <1>4, <2>1, <2>2, <2>3 DEF SeenRight
<1>6. PassOK'
  BY <1>2, <1>3, <1>4 DEF Debts, PassOK
<1> QED BY <1>5, <1>6 DEF SeenOK

(* A new address has no history and no debt.                               *)
LEMMA HostAddressDebts ==
    ASSUME Debts, NEW op, NEW scope, HostAddress(op, scope)
    PROVE  SeenOK' /\ PassOK'
<1>1. Typed /\ db \in Db
  BY DEF Debts, Typed, DbOK
<1>2. /\ chain' = chain /\ tick' = tick /\ seen' = seen
      /\ left'.forks = left.forks
  BY <1>1 DEF HostAddress, Host, Typed, ChainOK, Budget
<1>3. PICK a : a = <<scope, HighestStored(db, scope) + 1>>
  OBVIOUS
<1>4. /\ a \in Addr /\ SameRest(db, db') /\ db'.notes = db.notes
      /\ \A b \in Addr \ {a} : db'.rows[b] = db.rows[b]
      /\ IF db.rows[a].stored THEN db' = db ELSE db'.rows[a] = Row(Seam(db))
  BY <1>1, <1>3, HostAddressEffect
<1>5. /\ Seam(db') = Seam(db) /\ db'.wit = db.wit /\ db'.birth = db.birth
  BY <1>4 DEF SameRest, Seam
<1>6. \A b \in Addr : db.rows[b].stored => db'.rows[b] = db.rows[b]
  BY <1>4
<1>7. Held' = Held
  BY <1>2, <1>5 DEF Held
<1>8. ASSUME NEW n \in seen PROVE SeenRight(n)'
  <2>1. SeenRight(n) /\ n.addr \in Addr
    BY <1>1 DEF Debts, SeenOK, Typed, HistoryOK, Notes
  <2>2. (Real(n)' <=> Real(n)) /\ (OnChain(n)' <=> OnChain(n))
    BY <1>2, RealSame
  <2>3. Sought(n)' <=> Sought(n)
    BY <1>2 DEF Sought
  <2>4. db'.rows[n.addr] = db.rows[n.addr]
    BY <1>6, <2>1 DEF SeenRight
  <2> QED BY <1>2, <1>4, <1>5, <1>7, <2>1, <2>2, <2>3, <2>4 DEF SeenRight
<1>9. PassOK'
  <2>1. ASSUME NEW b \in Addr
        PROVE  /\ tick.at = "open" => db'.rows[b].marker < tick.start
               /\ tick.at = "scan" => db'.rows[b].marker <= tick.end
    <3>1. CASE db'.rows[b] = db.rows[b]
      BY <3>1 DEF Debts, PassOK
    <3>2. CASE db'.rows[b] = Row(Seam(db))
      <4>1. tick.start \in Nat /\ tick.end \in Nat
        BY <1>1, SyncAssumption DEF Typed, TickOK, TickType
      <4> QED BY <3>2, <4>1 DEF Row, Null
    <3> QED BY <1>4, <3>1, <3>2
  <2> QED BY <1>2, <1>5, <2>1 DEF Debts, PassOK
<1> QED BY <1>2, <1>8, <1>9 DEF SeenOK

(* One host operation.                                                     *)
LEMMA HostDebts ==
    ASSUME Debts, HostStep, Typed'
    PROVE  SeenOK' /\ PassOK' /\ AnswersOK'
<1>1. Typed /\ db \in Db
  BY DEF Debts, Typed, DbOK
<1>2. ASSUME NEW op, Host(op)
      PROVE  /\ walk' = walk /\ chain' = chain /\ left'.forks = left.forks
             /\ op # "change" => tick'.at = "idle"
  BY <1>1, <1>2, SpentOK DEF Host, Quiet, Typed
<1>3. ASSUME walk' = walk, chain' = chain, left'.forks = left.forks,
             \/ db'.inc = db.inc + 1
             \/ db'.inc = db.inc /\ db'.birth = db.birth
      PROVE  AnswersOK'
  BY <1>1, <1>3, AnswersAside DEF Debts
<1>4. ASSUME NEW h \in Height, HostRewind(h)
      PROVE  SeenOK' /\ PassOK' /\ AnswersOK'
  <2>1. /\ db' = RewoundSync(db, h) /\ seen' = Remembered(h) /\ h \in Nat
        /\ walk' = walk /\ chain' = chain /\ left'.forks = left.forks
        /\ tick'.at = "idle"
    BY <1>2, <1>4 DEF HostRewind, Height
  <2>2. db'.inc = db.inc + 1
    BY <1>1, <2>1, RewoundRows DEF Typed, DbOK
  <2> QED BY <1>3, <2>1, <2>2, RewindDebts
<1>5. CASE HostReset
  <2>1. /\ db' = ResetSync(db) /\ seen' = {} /\ tick'.at = "idle"
        /\ walk' = walk /\ chain' = chain /\ left'.forks = left.forks
    BY <1>2, <1>5 DEF HostReset
  <2>2. db'.inc = db.inc + 1 /\ db'.wit = {}
    BY <1>1, <2>1, ResetDb
  <2> QED BY <1>3, <2>1, <2>2, FreshDebts
<1>6. CASE HostReplace
  <2>1. /\ db' = Restored(db.birth, db.inc + 1) /\ seen' = {} /\ tick'.at = "idle"
        /\ walk' = walk /\ chain' = chain /\ left'.forks = left.forks
    BY <1>2, <1>6 DEF HostReplace, Replaced
  <2>2. db.birth \in 1 .. Birth /\ db.inc + 1 \in Nat
    BY <1>1 DEF Db
  <2>3. db'.inc = db.inc + 1 /\ db'.wit = {}
    BY <2>1, <2>2, RestoredDb
  <2> QED BY <1>3, <2>1, <2>3, FreshDebts
<1>7. ASSUME NEW b \in Births, HostBirth(b)
      PROVE  SeenOK' /\ PassOK' /\ AnswersOK'
  <2>1. /\ db' = MovedBirth(db, b) /\ b \in 1 .. Birth
        /\ walk' = walk /\ chain' = chain /\ left'.forks = left.forks
    BY <1>2, <1>7, SyncAssumption DEF HostBirth
  <2>2. db'.inc = db.inc + 1
    BY <1>1, <2>1, MovedBirthDb
  <2> QED BY <1>3, <1>7, <2>1, <2>2, HostBirthDebts
<1>8. ASSUME NEW op, NEW scope, HostAddress(op, scope)
      PROVE  SeenOK' /\ PassOK' /\ AnswersOK'
  <2>1. walk' = walk /\ chain' = chain /\ left'.forks = left.forks
    BY <1>2, <1>8 DEF HostAddress
  <2>2. SameRest(db, db')
    BY <1>1, <1>8, HostAddressEffect
  <2> QED BY <1>3, <1>8, <2>1, <2>2, HostAddressDebts DEF SameRest
<1> QED BY <1>4, <1>5, <1>6, <1>7, <1>8 DEF HostStep

-----------------------------------------------------------------------------
(* The discovery walk.                                                     *)

(* The walk goes on with entries it had, or with entries that are answers. *)
LEMMA AnswersGoOn ==
    ASSUME AnswersOK, chain' = chain, left'.forks = left.forks,
           db'.inc = db.inc, db'.birth = db.birth, walk'.inc = walk.inc,
           \A i \in 1 .. Len(walk'.batch) :
              \/ \E j \in 1 .. Len(walk.batch) : walk'.batch[i] = walk.batch[j]
              \/ AnswerOK(walk'.batch[i])
    PROVE  AnswersOK'
<1>1. \A e : AnswerOK(e) => AnswerOK(e)'
  <2> SUFFICES ASSUME NEW e, AnswerOK(e) PROVE AnswerOK(e)'
    OBVIOUS
  <2>1. \A n : Real(n) => Real(n)'
    BY RealSame
  <2> QED BY <2>1 DEF AnswerOK
<1>2. ASSUME NEW i \in 1 .. Len(walk'.batch) PROVE AnswerOK(walk.batch[i])'
  <2>1. PICK e : e = walk'.batch[i]
    OBVIOUS
  <2>2. AnswerOK(e)
    BY <2>1 DEF AnswersOK
  <2>3. AnswerOK(e)'
    BY <1>1, <2>2
  <2> QED BY <2>1, <2>3 DEF AnswerOK
<1> QED BY <1>2 DEF AnswersOK

(* Planning, reading the seam, skipping and ending write nothing.          *)
LEMMA PlanDebts ==
    ASSUME Debts, Typed',
           StartWalk \/ PlanCandidate \/ ReadBatchSeam \/ SkipCandidate \/ FailWalk
    PROVE  SeenOK' /\ PassOK' /\ AnswersOK'
<1>0. Typed /\ AnswersOK
  BY DEF Debts
<1>1. /\ chain' = chain /\ db' = db /\ tick' = tick /\ seen' = seen
      /\ left'.forks = left.forks
  BY <1>0, SpentOK DEF StartWalk, PlanCandidate, ReadBatchSeam, SkipCandidate,
     FailWalk, Failing, Typed
<1>2. SeenOK' /\ PassOK'
  BY <1>1, SeenAside
<1>3. db.inc \in Nat
  BY <1>0 DEF Typed, DbOK, Db
<1>4. CASE StartWalk
  <2>1. walk'.inc = db'.inc /\ walk'.batch = << >>
    BY <1>1, <1>4 DEF StartWalk, NoWalk
  <2> QED BY <1>1, <1>2, <1>3, <2>1 DEF AnswersOK
<1>5. CASE FailWalk
  <2>1. walk'.inc = 0 /\ walk'.batch = << >>
    BY <1>5, IdleTypes DEF FailWalk
  <2> QED BY <1>1, <1>2, <1>3, <2>1 DEF AnswersOK
<1>6. CASE PlanCandidate
  <2>1. PICK e \in Entry :
          /\ walk'.batch = Append(walk.batch, e) /\ walk'.inc = walk.inc
          /\ e.lo = Larger(db.rows[e.addr].marker + 1, db.birth)
          /\ e.reply = NoReply
    BY <1>0, <1>6, PlanEffect
  <2>2. AnswerOK(e)
    <3>1. db.rows[e.addr].marker \in Int /\ db.birth \in Int
      BY <1>0 DEF Entry, Typed, DbOK, Db, RowType, Null
    <3> QED BY <2>1, <3>1 DEF AnswerOK, NoReply, Larger
  <2>3. walk.batch \in Seq(Entry)
    BY <1>0 DEF Typed, WalkOK, WalkType
  <2>4. ASSUME NEW i \in 1 .. Len(walk'.batch)
        PROVE  \/ \E j \in 1 .. Len(walk.batch) : walk'.batch[i] = walk.batch[j]
               \/ AnswerOK(walk'.batch[i])
    <3>1. \/ i \in 1 .. Len(walk.batch) /\ walk'.batch[i] = walk.batch[i]
          \/ walk'.batch[i] = e
      BY <2>1, <2>3
    <3> QED BY <2>2, <3>1
  <2> HIDE DEF AnswerOK, AnswersOK
  <2> QED BY <1>0, <1>1, <1>2, <2>1, <2>4, AnswersGoOn
<1>7. CASE ReadBatchSeam
  <2>1. walk'.inc = walk.inc /\ walk'.batch = walk.batch
    BY <1>0, <1>7 DEF ReadBatchSeam, Typed, WalkOK, WalkType
  <2> QED BY <1>0, <1>1, <1>2, <2>1, AnswersGoOn
<1>8. CASE SkipCandidate
  <2>0. walk' \in Passings /\ walk.at = "ingest"
    <3> DEFINE e == Head(walk.batch)
    <3>1. walk.at = "ingest" /\ walk' = Passed(e.skip \/ e.had, FALSE)
      BY <1>8 DEF SkipCandidate
    <3>2. \A row \in BOOLEAN, used \in BOOLEAN : Passed(row, used) \in Passings
      BY DEF Passings
    <3>3. (e.skip \/ e.had) \in BOOLEAN
      OBVIOUS
    <3> QED BY <3>1, <3>2, <3>3, Zenon
  <2>1. walk'.inc = walk.inc /\ walk'.batch = Tail(walk.batch)
    BY <1>0, <2>0, Ranges, PassedWalk DEF Typed
  <2>2. walk.batch \in Seq(Entry) /\ walk.batch # << >>
    BY <1>0, <2>0 DEF Typed, WalkOK, WalkType
  <2>3. ASSUME NEW i \in 1 .. Len(walk'.batch)
        PROVE  \E j \in 1 .. Len(walk.batch) : walk'.batch[i] = walk.batch[j]
    <3>1. i + 1 \in 1 .. Len(walk.batch) /\ walk'.batch[i] = walk.batch[i + 1]
      BY <2>1, <2>2
    <3> QED BY <3>1
  <2> QED BY <1>0, <1>1, <1>2, <2>1, <2>3, AnswersGoOn
<1> QED BY <1>4, <1>5, <1>6, <1>7, <1>8

(* Prefetched replies are the server's answers.                            *)
LEMMA PrefetchDebts ==
    ASSUME Debts, NEW m, Prefetch(m)
    PROVE  SeenOK' /\ PassOK' /\ AnswersOK'
<1>0. Typed /\ AnswersOK
  BY DEF Debts
<1>1. chain' = chain /\ db' = db /\ tick' = tick /\ left' = left /\ seen' = seen
  BY DEF Prefetch
<1>2. SeenOK' /\ PassOK'
  BY <1>1, SeenAside
<1>3. /\ walk'.inc = walk.inc /\ Len(walk'.batch) = Len(walk.batch)
      /\ \A i \in 1 .. Len(walk.batch) :
            walk'.batch[i] \in Fetched(walk.batch[i])
  BY <1>0, PrefetchEffect
<1>4. ASSUME NEW i \in 1 .. Len(walk'.batch)
      PROVE  \/ \E j \in 1 .. Len(walk.batch) : walk'.batch[i] = walk.batch[j]
             \/ AnswerOK(walk'.batch[i])
  <2>0. PICK e, f : e = walk.batch[i] /\ f = walk'.batch[i]
    OBVIOUS
  <2>1. i \in 1 .. Len(walk.batch) /\ f \in Fetched(e)
    BY <1>3, <2>0
  <2>2. e \in Entry /\ e.lo \in Nat \ {0} /\ e.addr \in Addr /\ AnswerOK(e)
    BY <1>0, <2>0, <2>1, EntryTypes DEF AnswersOK
  <2>3. CASE f = e
    BY <2>0, <2>1, <2>3
  <2>4. CASE f = [e EXCEPT !.reply = [seam |-> walk.seam,
                                      found |-> Payments(e.addr, e.lo, walk.end)]]
    <3>1. f.lo = e.lo /\ f.reply.found = Payments(e.addr, e.lo, walk.end)
      BY <2>2, <2>4 DEF Entry
    <3>2. walk.end \in Int /\ db.birth \in Int
      BY <1>0, SyncAssumption DEF Typed, WalkOK, WalkType, DbOK, Db
    <3>3. \A n \in f.reply.found : Real(n) /\ e.lo <= n.height
      <4>1. PICK lo \in Nat \ {0}, hi \in Int, a \in Addr :
               lo = e.lo /\ hi = walk.end /\ a = e.addr
        BY <2>2, <3>2
      <4>2. \A n \in Payments(a, lo, hi) :
               Real(n) /\ OnChain(n) /\ n.addr = a /\ lo <= n.height
        BY <1>0, PaymentsReal
      <4> QED BY <3>1, <4>1, <4>2
    <3>4. \A n \in f.reply.found : n.height \in Int
      BY <1>0, <2>2, <3>1, <3>2, PaymentsAre DEF Typed
    <3>5. AnswerOK(f)
      BY <2>2, <3>1, <3>2, <3>3, <3>4 DEF AnswerOK
    <3> QED BY <2>0, <3>5
  <2> QED BY <2>1, <2>3, <2>4 DEF Fetched
<1> HIDE DEF AnswersOK, AnswerOK
<1> QED BY <1>0, <1>1, <1>2, <1>3, <1>4, AnswersGoOn

(* What a window of the walk is told is real and not below the birthday.   *)
LEMMA AnswerReal ==
    ASSUME Debts, NEW hi \in Height, InWindow(hi)
    PROVE  \A n \in Answer(hi) : Real(n) /\ n.height >= db.birth
<1>0. Typed /\ AnswersOK /\ WalkOK
  BY DEF Debts, Typed
<1>1. /\ walk.at = "ingest" /\ db.inc = walk.inc /\ First.addr \in Addr
      /\ First.lo \in Nat \ {0} /\ hi \in Nat
  BY <1>0, WindowEntry
<1>2. First = walk.batch[1] /\ Len(walk.batch) \in Nat \ {0}
  BY <1>0, <1>1, FirstEntry DEF WalkOK
<1>3. AnswerOK(First)
  BY <1>0, <1>2 DEF AnswersOK
<1>4. CASE Replied
  BY <1>1, <1>3, <1>4 DEF Answer, AnswerOK
<1>5. CASE ~Replied
  <2>1. PICK lo \in Nat \ {0}, a \in Addr : lo = First.lo /\ a = First.addr
    BY <1>1
  <2>2. \A n \in Payments(a, lo, hi) :
           Real(n) /\ OnChain(n) /\ n.addr = a /\ lo <= n.height
    BY <1>0, <1>1, PaymentsReal
  <2>3. \A n \in Payments(a, lo, hi) : n.height \in Nat
    BY <1>0, <1>1, PaymentsAre DEF Typed
  <2>4. lo >= db.birth /\ db.birth \in Nat
    BY <1>0, <1>1, <1>3, <2>1, Ranges DEF AnswerOK
  <2>5. Answer(hi) = Payments(a, lo, hi)
    BY <1>5, <2>1 DEF Answer
  <2> QED BY <2>2, <2>3, <2>4, <2>5
<1> QED BY <1>4, <1>5

(* The walk after a window keeps answers only.                             *)
LEMMA WindowAnswers ==
    ASSUME Debts, NEW hi \in Height,
           ProbeWindow(hi) \/ IngestWindow(hi) \/ IngestUndated(hi),
           chain' = chain, left'.forks = left.forks, db'.inc = db.inc,
           db'.birth = db.birth
    PROVE  AnswersOK'
<1>0. Typed /\ AnswersOK
  BY DEF Debts
<1>1. WindowMove(hi) /\ InWindow(hi) /\ walk'.inc = walk.inc
  BY <1>0, WindowWalk
<1>2. /\ walk.at = "ingest" /\ db.inc = walk.inc /\ hi \in Nat
      /\ First.lo \in Nat \ {0} /\ First.mlo \in Nat \ {0} /\ First.lo <= hi
      /\ First \in Entry
  BY <1>0, <1>1, WindowEntry
<1>3. /\ First = walk.batch[1] /\ Len(walk.batch) \in Nat \ {0}
      /\ walk.batch \in Seq(Entry) /\ walk.batch # << >>
  BY <1>0, <1>2, FirstEntry DEF Typed, WalkOK, WalkType
<1>4. First.lo >= db.birth /\ db.birth \in Nat
  BY <1>0, <1>2, <1>3, Ranges DEF AnswersOK, AnswerOK
<1>5. CASE walk' \in Passings
  <2>1. walk'.batch = Tail(walk.batch)
    BY <1>0, <1>2, <1>5, Ranges, PassedWalk DEF Typed
  <2>2. ASSUME NEW i \in 1 .. Len(walk'.batch)
        PROVE  \E j \in 1 .. Len(walk.batch) : walk'.batch[i] = walk.batch[j]
    <3>1. i + 1 \in 1 .. Len(walk.batch) /\ walk'.batch[i] = walk.batch[i + 1]
      BY <1>3, <2>1
    <3> QED BY <3>1
  <2> HIDE DEF AnswersOK, AnswerOK
  <2> QED BY <1>0, <1>1, <2>2, AnswersGoOn
<1>6. ASSUME NEW lo \in 1 .. (MaxHeight + 1), NEW mlo \in 1 .. (MaxHeight + 1),
             walk' \in Steppings(lo, mlo), lo >= db.birth
      PROVE  AnswersOK'
  <2>1. /\ Len(walk'.batch) = Len(walk.batch)
        /\ \A i \in 2 .. Len(walk.batch) : walk'.batch[i] = walk.batch[i]
        /\ walk'.batch[1].lo = lo /\ walk'.batch[1].reply = NoReply
    <3>1. db \in Db /\ WalkOK
      BY <1>0 DEF Typed, DbOK
    <3> QED BY <1>2, <1>6, <3>1, SteppedWalk
  <2>2. ASSUME NEW i \in 1 .. Len(walk'.batch)
        PROVE  \/ \E j \in 1 .. Len(walk.batch) : walk'.batch[i] = walk.batch[j]
               \/ AnswerOK(walk'.batch[i])
    <3>1. CASE i = 1
      BY <1>6, <2>1, <3>1 DEF AnswerOK, NoReply
    <3>2. CASE i # 1
      <4>1. i \in 2 .. Len(walk.batch) /\ i \in 1 .. Len(walk.batch)
        BY <1>3, <2>1, <3>2
      <4> QED BY <2>1, <4>1
    <3> QED BY <3>1, <3>2
  <2> HIDE DEF AnswersOK, AnswerOK
  <2> QED BY <1>0, <1>1, <2>2, AnswersGoOn
<1>7. /\ hi + 1 \in 1 .. (MaxHeight + 1) /\ hi + 1 >= db.birth
      /\ First.lo \in 1 .. (MaxHeight + 1) /\ First.mlo \in 1 .. (MaxHeight + 1)
  <2>1. MaxHeight \in Nat /\ hi <= MaxHeight
    BY SyncAssumption DEF Height
  <2>2. First.lo \in 1 .. (MaxHeight + 1) /\ First.mlo \in 1 .. (MaxHeight + 1)
    BY <1>2 DEF Entry
  <2> QED BY <1>2, <1>4, <2>1, <2>2
<1> QED BY <1>1, <1>4, <1>5, <1>6, <1>7 DEF WindowMove

(* What a window of the walk brings is a note or a debt.                   *)
LEMMA IngestDebts ==
    ASSUME Debts, NEW hi \in Height, IngestWindow(hi) \/ IngestUndated(hi)
    PROVE  SeenOK' /\ PassOK' /\ AnswersOK'
<1>0. Typed /\ db \in Db
  BY DEF Debts, Typed, DbOK
<1>1. /\ InWindow(hi) /\ chain' = chain /\ tick' = tick /\ left'.forks = left.forks
      /\ seen' = seen \cup Answer(hi)
  BY <1>0, SpentOK DEF IngestWindow, IngestUndated, Failing, Typed
<1>2. tick.at = "idle" /\ First.addr \in Addr
  BY <1>0, <1>1, WindowEntry DEF Quiet
<1>3. PICK a : a = First.addr
  OBVIOUS
<1>4. /\ Answer(hi) \in SUBSET Notes /\ (\A n \in Answer(hi) : n.addr = a)
      /\ db' \in Db /\ SameRest(db, db')
      /\ db'.notes = db.notes \cup {n \in Answer(hi) : n.height <= Seam(db)}
      /\ \A b \in Addr \ {a} : db'.rows[b] = db.rows[b]
      /\ db'.rows[a].stored
      /\ db.rows[a].stored => db'.rows[a].owed >= db.rows[a].owed
      /\ \A n \in Answer(hi) : n.height > Seam(db) => db'.rows[a].owed >= n.height
  BY <1>0, <1>3, IngestEffect
<1>5. /\ Seam(db') = Seam(db) /\ db'.wit = db.wit /\ db'.birth = db.birth
      /\ db'.inc = db.inc /\ Seam(db) \in Nat
  BY <1>0, <1>4, Ranges DEF SameRest, Seam, Height
<1>6. Held = Seam(db) /\ Held' = Seam(db)
  BY <1>1, <1>2, <1>5 DEF Held
<1>7. ASSUME NEW n \in seen' PROVE SeenRight(n)'
  <2>1. n.addr \in Addr /\ n.height \in Nat
    BY <1>0, <1>1, <1>4 DEF Typed, HistoryOK, Notes, Height
  <2>2. (Real(n)' <=> Real(n)) /\ (OnChain(n)' <=> OnChain(n))
    BY <1>1, RealSame
  <2>3. CASE n \in Answer(hi)
    <3>1. Real(n) /\ n.height >= db.birth
      BY <1>1, <2>3, AnswerReal
    <3>2. IF n.height <= Seam(db) THEN n \in db'.notes
          ELSE db'.rows[n.addr].owed >= n.height
      BY <1>4, <1>5, <2>1, <2>3
    <3>3. db'.rows[n.addr].stored
      BY <1>4, <2>3
    <3> QED BY <1>1, <1>2, <1>5, <1>6, <2>2, <3>1, <3>2, <3>3 DEF SeenRight
  <2>4. CASE n \in seen
    <3>1. SeenRight(n)
      BY <2>4 DEF Debts, SeenOK
    <3>2. db'.rows[n.addr].stored /\ db'.rows[n.addr].owed >= db.rows[n.addr].owed
      <4>1. db.rows[n.addr].stored /\ db.rows[n.addr].owed \in Nat
        BY <1>0, <2>1, <3>1 DEF SeenRight, Db, RowType
      <4> QED BY <1>4, <2>1, <4>1
    <3>3. db.rows[n.addr].owed \in Int /\ db'.rows[n.addr].owed \in Int
      BY <1>0, <1>4, <2>1 DEF Db, RowType
    <3>4. ASSUME OnChain(n)
          PROVE  n \in db'.notes \/ db'.rows[n.addr].owed >= n.height
      <4>1. n \in db.notes \/ db.rows[n.addr].owed >= n.height
        BY <3>1, <3>4 DEF SeenRight
      <4> QED BY <1>4, <2>1, <3>2, <3>3, <4>1
    <3>5. db.notes \subseteq db'.notes
      BY <1>4
    <3> QED BY <1>1, <1>2, <1>5, <1>6, <2>2, <3>1, <3>2, <3>4, <3>5 DEF SeenRight
  <2> QED BY <1>1, <2>3, <2>4
<1>8. PassOK'
  BY <1>1, <1>2, <1>5 DEF Debts, PassOK
<1>9. AnswersOK'
  BY <1>1, <1>5, WindowAnswers
<1> QED BY <1>7, <1>8, <1>9 DEF SeenOK

(* The certificate moves neither notes nor debts.                          *)
LEMMA CertifyDebts ==
    ASSUME Debts, Certify
    PROVE  SeenOK' /\ PassOK' /\ AnswersOK'
<1>0. Typed /\ db \in Db /\ GapLimit \in Nat /\ walk.from \in Nat
  BY SyncAssumption DEF Debts, Typed, DbOK, WalkOK, WalkType
<1>1. /\ chain' = chain /\ left' = left /\ tick' = tick /\ seen' = seen
      /\ walk' = NoWalk /\ db' = WrittenCoverage(db, GapLimit, walk.from)
  BY DEF Certify
<1>2. /\ db'.rows = db.rows /\ db'.notes = db.notes /\ db'.wit = db.wit
      /\ db'.hT = db.hT /\ db'.hS = db.hS /\ db'.birth = db.birth
      /\ db'.inc \in Nat
  <2>1. PICK gap \in Nat, from \in Nat : gap = GapLimit /\ from = walk.from
    BY <1>0
  <2>2. db' = WrittenCoverage(db, gap, from)
    BY <1>1, <2>1
  <2>3. /\ db' \in Db /\ db'.rows = db.rows /\ db'.notes = db.notes
        /\ db'.wit = db.wit /\ db'.hT = db.hT /\ db'.hS = db.hS
        /\ db'.birth = db.birth
    <3>1. PICK d, e : d = db /\ e = db'
      OBVIOUS
    <3>2. d \in Db /\ e = WrittenCoverage(d, gap, from)
      BY <1>0, <2>2, <3>1
    <3>3. /\ e \in Db /\ e.rows = d.rows /\ e.notes = d.notes
          /\ e.hT = d.hT /\ e.hS = d.hS /\ e.wit = d.wit /\ e.birth = d.birth
      BY <3>2, CoverageDb
    <3> QED BY <3>1, <3>3
  <2> QED BY <2>3 DEF Db
<1>3. Seam(db') = Seam(db) /\ Held' = Held
  BY <1>1, <1>2 DEF Seam, Held
<1>4. ASSUME NEW n \in seen PROVE SeenRight(n)'
  <2>1. SeenRight(n)
    BY DEF Debts, SeenOK
  <2>2. (Real(n)' <=> Real(n)) /\ (OnChain(n)' <=> OnChain(n))
    BY <1>1, RealSame
  <2>3. Sought(n)' <=> Sought(n)
    BY <1>1 DEF Sought
  <2> QED BY <1>1, <1>2, <1>3, <2>1, <2>2, <2>3 DEF SeenRight
<1>5. PassOK'
  BY <1>1, <1>2, <1>3 DEF Debts, PassOK
<1>6. AnswersOK'
  <2>1. walk'.inc = 0 /\ walk'.batch = << >>
    BY <1>1, IdleTypes
  <2> QED BY <1>2, <2>1 DEF AnswersOK
<1> QED BY <1>1, <1>4, <1>5, <1>6 DEF SeenOK

(* One step of the walk.                                                   *)
LEMMA WalkDebts ==
    ASSUME Debts, Walk, Typed'
    PROVE  SeenOK' /\ PassOK' /\ AnswersOK'
<1>1. ASSUME NEW hi \in Height, ProbeWindow(hi)
      PROVE  SeenOK' /\ PassOK' /\ AnswersOK'
  <2>1. chain' = chain /\ db' = db /\ tick' = tick /\ left' = left /\ seen' = seen
    BY <1>1 DEF ProbeWindow
  <2> QED BY <1>1, <2>1, SeenAside, WindowAnswers
<1>2. CASE StartWalk \/ PlanCandidate \/ ReadBatchSeam \/ SkipCandidate \/ FailWalk
  BY <1>2, PlanDebts
<1>3. CASE \E k \in 0 .. Cardinality(Addr) : Prefetch(k)
  BY <1>3, PrefetchDebts
<1>4. CASE \E h \in Height : IngestWindow(h) \/ IngestUndated(h)
  BY <1>4, IngestDebts
<1>5. CASE Certify
  BY <1>5, CertifyDebts
<1> QED BY <1>1, <1>2, <1>3, <1>4, <1>5 DEF Walk

-----------------------------------------------------------------------------
(* The theorem.                                                            *)

(* A restored account has seen nothing.                                    *)
LEMMA InitDebts ==
    ASSUME Init PROVE Debts
<1>1. /\ db = Restored(Birth, 0) /\ tick = Idle /\ walk = NoWalk /\ seen = {}
      /\ Birth \in 1 .. Birth
  BY SyncAssumption DEF Init
<1>2. db.wit = {} /\ db.inc = 0
  BY <1>1, RestoredDb
<1> QED BY <1>1, <1>2, InitTyped, IdleTypes DEF Debts, SeenOK, PassOK, AnswersOK

(* Every step keeps the debts, whenever the chain forks.                   *)
LEMMA DebtsStep ==
    ASSUME Debts, Typed', [Next]_vars
    PROVE  Debts'
<1>1. CASE Mine \/ \E f \in Height : Fork(f)
  BY <1>1, DebtsChain DEF Debts
<1>2. CASE Tick
  BY <1>2, TickDebts DEF Debts
<1>3. CASE Walk
  BY <1>3, WalkDebts DEF Debts
<1>4. CASE HostStep
  BY <1>4, HostDebts DEF Debts
<1>5. CASE UNCHANGED vars
  <2>1. /\ chain' = chain /\ db' = db /\ tick' = tick /\ left' = left
        /\ walk' = walk /\ seen' = seen
    BY <1>5 DEF vars
  <2>2. SeenOK' /\ PassOK'
    BY <2>1, SeenAside
  <2>3. AnswersOK'
    BY <2>1, AnswersAside DEF Debts
  <2> QED BY <2>2, <2>3 DEF Debts
<1> QED BY <1>1, <1>2, <1>3, <1>4, <1>5 DEF Next

(* The inductive invariant of the debts.                                   *)
THEOREM SpecDebts == Spec => []Debts
<1>1. Init => Debts
  BY InitDebts
<1>2. Debts /\ Typed' /\ [Next]_vars => Debts'
  BY DebtsStep
<1> QED BY <1>1, <1>2, SpecTyped, PTL DEF Spec

(* A payment of the server's chain that a window of a tick or a walk has   *)
(* answered is a note or a debt of its row, whatever forks, failures,      *)
(* rewinds and new birthdays came between: transparent_sync pays a debt    *)
(* only after a pass that has the note, trim_sync_data owes what it        *)
(* deletes.                                                                *)
THEOREM SeenStays == Spec => []SeenIsHeldOrOwed
<1>1. Debts => SeenIsHeldOrOwed
  BY DEF Debts, SeenOK, SeenRight, SeenIsHeldOrOwed
<1> QED BY <1>1, SpecDebts, PTL

-----------------------------------------------------------------------------
(* The certificate: what it promises, and what a step keeps of it.         *)

\* The wallet's block at height k may be the server's: k is not above a mark
\* that stands, or above what a shielded pass that links has streamed.
Standing(k) ==
    \/ \E h \in Marks : Stands(h) /\ k <= h
    \/ (tick.at = "shielded" /\ Linked /\ k <= tick.cur)

\* The notes of a have no hole up to height f.
NoHole(a, f) ==
    \A k \in Height :
        Standing(k) /\ db.birth <= k /\ k <= f /\ chain[k].pays = a
            => NoteAt(a, k, chain[k]) \in db.notes

\* A certificate in force is about heights the seam and the account's own
\* marker have not gone below: to do so counts a trim.
CoverageOK ==
    /\ db.cov.trim <= db.trims
    /\ Certified(db) =>
          /\ 1 <= db.cov.from /\ db.cov.from <= Seam(db)
          /\ db.cov.from <= db.rows[Own].marker
          /\ \A a \in Addr : a[2] <= GapLimit => NoHole(a, db.cov.from)

\* An address without a row has no marker; the account's own has a row.
UnstoredOK ==
    /\ db.rows[Own].stored
    /\ \A a \in Addr : ~db.rows[a].stored => db.rows[a].marker = Null

\* Blocks pay the addresses of the budget, which have no gap.
AddressesOK ==
    /\ \A k \in 1 .. Tip : chain[k].pays \in left.payees \cup {NoAddr}
    /\ left.payees \subseteq left.addrs
    /\ \A a \in left.addrs : \A i \in 0 .. a[2] : <<a[1], i>> \in left.addrs

\* A step that neither retires walks nor certifies: no block comes to stand
\* below the seam, notes there stay, rows stay and markers lose only what is
\* above the seam.
Onward ==
    /\ \A k \in Height : Standing(k)' /\ k <= Seam(db) =>
          Standing(k) /\ chain'[k] = chain[k]
    /\ db'.birth = db.birth /\ db'.cov = db.cov /\ db'.inc = db.inc
    /\ db'.trims >= db.trims /\ Seam(db') >= Seam(db)
    /\ \A n \in db.notes : n.height <= Seam(db) => n \in db'.notes
    /\ \A a \in Addr :
          /\ db.rows[a].stored =>
                /\ db'.rows[a].stored
                /\ db'.rows[a].marker >= Smaller(db.rows[a].marker, Seam(db))
          /\ ~db'.rows[a].stored /\ db.rows[a].marker = Null =>
                db'.rows[a].marker = Null

(* It keeps what holds below the seam.                                     *)
LEMMA HoleOnward ==
    ASSUME Typed, Onward, NEW a, NEW f \in Int, f <= Seam(db), NoHole(a, f)
    PROVE  NoHole(a, f)'
<1> SUFFICES ASSUME NEW k \in Height, Standing(k)', db'.birth <= k, k <= f,
                    chain'[k].pays = a
             PROVE  NoteAt(a, k, chain'[k]) \in db'.notes
  BY DEF NoHole
<1>1. k \in Int /\ Seam(db) \in Int
  BY Ranges DEF Height
<1>2. Standing(k) /\ chain'[k] = chain[k] /\ db.birth <= k
  BY <1>1 DEF Onward
<1>3. NoteAt(a, k, chain[k]) \in db.notes
  BY <1>2 DEF NoHole
<1>4. NoteAt(a, k, chain[k]).height = k
  BY DEF NoteAt
<1> QED BY <1>1, <1>2, <1>3, <1>4 DEF Onward

(* It keeps a certificate in force, or counts a trim.                      *)
LEMMA CoverageOnward ==
    ASSUME Typed, Typed', CoverageOK, UnstoredOK, Onward
    PROVE  CoverageOK' /\ UnstoredOK'
<1>1. /\ db.cov.trim \in Int /\ db.trims \in Int /\ db'.trims \in Int
      /\ db.cov.from \in Int /\ Seam(db) \in Int /\ Seam(db') \in Int
      /\ Own \in Addr /\ db.rows[Own].marker \in Int /\ db'.rows[Own].marker \in Int
  <2>1. Seam(db) \in Int /\ Own \in Addr
    BY Ranges, StoreAssumption DEF Height, Own
  <2>2. Seam(db') \in Int
    <3>1. db' \in Db
      BY DEF Typed, DbOK
    <3> QED BY <3>1, SyncAssumption DEF Db, Seam, Smaller
  <2> QED BY <2>1, <2>2 DEF Typed, DbOK, Db, RowType, Null
<1>2. db'.cov.trim <= db'.trims
  BY <1>1 DEF CoverageOK, Onward
<1>3. ASSUME Certified(db') PROVE Certified(db)
  BY <1>1, <1>3 DEF Certified, CoverageOK, Onward
<1>4. ASSUME Certified(db')
      PROVE  /\ 1 <= db'.cov.from /\ db'.cov.from <= Seam(db')
             /\ db'.cov.from <= db'.rows[Own].marker
             /\ \A a \in Addr : a[2] <= GapLimit => NoHole(a, db.cov.from)'
  <2>1. PICK f \in Int : f = db.cov.from /\ f = db'.cov.from
    BY <1>1 DEF Onward
  <2>2. 1 <= f /\ f <= Seam(db) /\ f <= db.rows[Own].marker
    BY <1>3, <1>4, <2>1 DEF CoverageOK
  <2>3. f <= Seam(db') /\ f <= db'.rows[Own].marker
    BY <1>1, <2>2 DEF Onward, UnstoredOK, Smaller
  <2>4. ASSUME NEW a \in Addr, a[2] <= GapLimit PROVE NoHole(a, f)'
    <3>1. NoHole(a, f)
      BY <1>3, <1>4, <2>1, <2>4 DEF CoverageOK
    <3> QED BY <2>2, <3>1, HoleOnward
  <2> QED BY <2>1, <2>2, <2>3, <2>4 DEF NoHole
<1>5. CoverageOK'
  BY <1>2, <1>4 DEF CoverageOK, NoHole
<1>6. UnstoredOK'
  BY <1>1 DEF UnstoredOK, Onward
<1> QED BY <1>5, <1>6

(* Marks that were there, on the same chain.                               *)
LEMMA StandingSame ==
    ASSUME chain' = chain,
           \A h \in Marks' : h \in Marks /\ (Stands(h)' => Stands(h)),
           tick'.at # "shielded" \/ tick' = tick
    PROVE  \A k \in Height : Standing(k)' => Standing(k) /\ chain'[k] = chain[k]
<1> SUFFICES ASSUME NEW k \in Height, Standing(k)' PROVE Standing(k)
  OBVIOUS
<1>1. CASE \E h \in Marks' : Stands(h)' /\ k <= h
  <2> HIDE DEF Marks, Stands
  <2> QED BY <1>1 DEF Standing
<1>2. CASE tick'.at = "shielded" /\ Linked' /\ k <= tick'.cur
  BY <1>2 DEF Standing, Linked, HashAt, Tip
<1> QED BY <1>1, <1>2 DEF Standing

(* A block or a fork lets nothing stand that did not.                      *)
LEMMA OnwardChain ==
    ASSUME History, Mine \/ \E f \in Height : Fork(f)
    PROVE  Onward
<1>0. Typed /\ KnownOK
  BY DEF History
<1>1. db' = db /\ hdr' = hdr /\ tick' = tick
  BY DEF Mine, Fork
<1>2. ASSUME NEW k \in Height, Standing(k)'
      PROVE  Standing(k) /\ chain'[k] = chain[k]
  <2>0. k \in Nat \ {0}
    BY DEF Height
  <2>1. CASE \E h \in Marks' : Stands(h)' /\ k <= h
    <3>1. PICK h \in Marks' : Stands(h)' /\ k <= h
      BY <2>1
    <3>2. h \in Marks /\ h \in Height /\ h \in Nat
      BY <1>0, <1>1, MarkHeights DEF Marks, Height
    <3>3. Stands(h) /\ \A j \in 1 .. h : chain'[j] = chain[j]
      BY <1>0, <3>1, <3>2, StandsChain
    <3> QED BY <2>0, <3>1, <3>2, <3>3 DEF Standing
  <2>2. CASE tick'.at = "shielded" /\ Linked' /\ k <= tick'.cur
    <3>1. /\ tick.at = "shielded" /\ tick.cur \in Height /\ tick.prev \in Hash
          /\ k \in 1 .. tick.cur
      BY <1>0, <1>1, <2>0, <2>2, TickHeights DEF Height
    <3>2. CASE tick.prev = NoHash
      <4>1. tick.cur <= Birth /\ Birth \in Nat
        BY <1>0, <3>1, <3>2, Ranges DEF KnownOK
      <4>2. k \in 1 .. Birth
        BY <2>0, <3>1, <4>1 DEF Height
      <4>3. chain'[k] = chain[k]
        BY <1>0, <4>2, ChainStep
      <4> QED BY <1>1, <2>2, <3>1, <3>2, <4>3 DEF Standing, Linked
    <3>3. CASE tick.prev # NoHash
      <4>1. Known(tick.cur, tick.prev) /\ tick.prev \in Forks
        BY <1>0, <3>1, <3>3 DEF KnownOK, Hash
      <4>2. PICK c \in Height, g \in Forks : c = tick.cur /\ g = tick.prev
        BY <3>1, <4>1
      <4>3. HashAt(c)' = g
        BY <1>1, <2>2, <3>3, <4>2 DEF Linked
      <4>4. HashAt(c) = g /\ \A j \in 1 .. c : chain'[j] = chain[j]
        BY <1>0, <4>1, <4>2, <4>3, ChainStep
      <4> QED BY <1>1, <2>2, <3>1, <4>2, <4>4 DEF Standing, Linked
    <3> QED BY <3>2, <3>3
  <2> QED BY <1>2, <2>1, <2>2 DEF Standing
<1>3. Seam(db) \in Int /\ db.trims \in Int
      /\ \A a \in Addr : db.rows[a].marker \in Int
  BY <1>0, Ranges DEF Height, Typed, DbOK, Db, RowType, Null
<1>4. Seam(db') = Seam(db)
  BY <1>1
<1> QED BY <1>1, <1>2, <1>3, <1>4 DEF Onward, Smaller

(* Rows, tick and chain left alone.                                        *)
LEMMA OnwardAside ==
    ASSUME History, chain' = chain, db' = db, hdr' = hdr, tick' = tick,
           left'.forks = left.forks
    PROVE  Onward
<1>0. Typed
  BY DEF History
<1>1. \A h \in Marks' : h \in Marks /\ (Stands(h)' => Stands(h))
  BY RowsAside
<1>2. \A k \in Height : Standing(k)' => Standing(k) /\ chain'[k] = chain[k]
  BY <1>1, StandingSame
<1>3. Seam(db) \in Int /\ db.trims \in Int
      /\ \A a \in Addr : db.rows[a].marker \in Int
  BY <1>0, Ranges DEF Height, Typed, DbOK, Db, RowType, Null
<1> QED BY <1>2, <1>3 DEF Onward, Smaller

(* A step that writes notes and moves markers up below the same seam.      *)
LEMMA OnwardWritten ==
    ASSUME History, chain' = chain, left'.forks = left.forks,
           hdr' = hdr \/ \E H : hdr' = StoredHeaders(H),
           tick'.at # "shielded" \/ tick' = tick,
           \/ tick'.at \in {"idle", "open"}
           \/ /\ tick'.at = "scan" /\ tick.at = "scan"
              /\ tick'.end = tick.end /\ tick'.anchor = tick.anchor
           \/ tick' = tick,
           db' \in Db, SameRest(db, db'), db.notes \subseteq db'.notes,
           \A a \in Addr :
              /\ db.rows[a].stored =>
                    db'.rows[a].stored /\ db'.rows[a].marker >= db.rows[a].marker
              /\ ~db'.rows[a].stored => db'.rows[a] = db.rows[a]
    PROVE  Onward
<1>0. Typed
  BY DEF History
<1>1. Seam(db') = Seam(db) /\ db'.wit = db.wit
  BY DEF SameRest, Seam
<1>2. \A h \in Marks' : h \in Marks /\ (Stands(h)' => Stands(h))
  BY <1>0, <1>1, KnownKept DEF History
<1>3. \A k \in Height : Standing(k)' => Standing(k) /\ chain'[k] = chain[k]
  BY <1>2, StandingSame
<1>4. /\ Seam(db) \in Int /\ db.trims \in Int
      /\ \A a \in Addr : db.rows[a].marker \in Int
  BY <1>0, Ranges DEF Height, Typed, DbOK, Db, RowType, Null
<1>5. ASSUME NEW a \in Addr, db.rows[a].stored
      PROVE  db'.rows[a].marker >= Smaller(db.rows[a].marker, Seam(db))
  <2>1. db'.rows[a].marker \in Int
    BY DEF Db, RowType, Null
  <2> QED BY <1>4, <1>5, <2>1 DEF Smaller
<1> QED BY <1>1, <1>3, <1>4, <1>5 DEF Onward, SameRest

(* The tick's steps but a rewind go onward.                                *)
LEMMA OnwardTick ==
    ASSUME History, Tick, ~MeetReorg
    PROVE  Onward
<1>0. Typed /\ KnownOK /\ db \in Db
  BY DEF History, Typed, DbOK
<1>a. /\ Seam(db) \in Int /\ Seam(db) \in Height /\ db.trims \in Int
      /\ \A a \in Addr : db.rows[a].marker \in Int
  BY <1>0, Ranges DEF Height, Db, RowType, Null
<1>1. chain' = chain /\ left'.forks = left.forks
  BY <1>0, SpentOK DEF Tick, StartTick, OpenAnchor, StartAddress, ScanWindow,
     ScanWindowUndated, ClosePass, CommitChunk, FailTick, Failing, Typed
<1>2. ASSUME hdr' = hdr, db'.wit \subseteq db.wit, Seam(db') = Seam(db)
      PROVE  \A h \in Marks' : h \in Marks /\ (Stands(h)' => Stands(h))
  BY <1>1, <1>2 DEF Marks, Stands, HashAt, Tip
<1>3. CASE StartTick
  <2>1. hdr' = hdr /\ tick'.at # "shielded"
    <3>1. hdr' = hdr /\ (tick' = Idle \/ tick'.at = "open")
      BY <1>3 DEF StartTick, Idle
    <3> QED BY <3>1, IdleTypes
  <2>2. /\ Seam(db') = Seam(db) /\ db'.wit \subseteq db.wit
        /\ db'.notes = {n \in db.notes : n.height <= Seam(db)}
        /\ db'.inc = db.inc /\ db'.cov = db.cov /\ db'.birth = db.birth
        /\ db'.trims >= db.trims
        /\ \A b \in Addr :
              /\ db'.rows[b].stored = db.rows[b].stored
              /\ db'.rows[b].marker = Smaller(db.rows[b].marker, Seam(db))
    BY <1>0, <1>3, StartTickEffect
  <2>3. \A k \in Height : Standing(k)' => Standing(k) /\ chain'[k] = chain[k]
    BY <1>1, <1>2, <2>1, <2>2, StandingSame
  <2>4. Seam(db') >= Seam(db)
    BY <1>a, <2>2
  <2>5. \A a \in Addr :
          /\ db'.rows[a].marker >= Smaller(db.rows[a].marker, Seam(db))
          /\ db.rows[a].marker = Null => db'.rows[a].marker = Null
    BY <1>a, <2>2 DEF Smaller, Null, Height
  <2>6. \A n \in db.notes : n.height <= Seam(db) => n \in db'.notes
    BY <2>2
  <2> QED BY <2>2, <2>3, <2>4, <2>5, <2>6 DEF Onward
<1>4. CASE OpenAnchor
  <2>1. hdr' = hdr /\ db' = db /\ tick'.at # "shielded"
    BY <1>0, <1>4 DEF OpenAnchor, Typed, TickOK, TickType
  <2>2. \A k \in Height : Standing(k)' => Standing(k) /\ chain'[k] = chain[k]
    BY <1>1, <1>2, <2>1, StandingSame
  <2> QED BY <1>a, <2>1, <2>2 DEF Onward, Smaller
<1>5. CASE FailTick
  <2>1. hdr' = hdr /\ db' = db /\ tick'.at # "shielded"
    BY <1>5, IdleTypes DEF FailTick
  <2>2. \A k \in Height : Standing(k)' => Standing(k) /\ chain'[k] = chain[k]
    BY <1>1, <1>2, <2>1, StandingSame
  <2> QED BY <1>a, <2>1, <2>2 DEF Onward, Smaller
<1>6. CASE StartAddress
  <2>1. PICK a, lo : a = ScanOrder(tick.todo) /\ lo = RangeStart(a)
    OBVIOUS
  <2>2. PICK found : found = Payments(a, lo, Seam(db))
    OBVIOUS
  <2>3. a \in Addr /\ db.rows[a].stored
    BY <1>0, <1>6, <2>1, StartAddressRange
  <2>4. /\ db' \in Db /\ SameRest(db, db')
        /\ IF lo <= Seam(db)
           THEN /\ db'.notes = db.notes \cup found
                /\ db'.rows[a].marker =
                     IF /\ lo <= Larger(db.rows[a].marker + 1, db.birth)
                        /\ db.rows[a].marker < Seam(db)
                     THEN Seam(db) ELSE db.rows[a].marker
           ELSE db' = db
        /\ \A b \in Addr : SameRow(db.rows[b], db'.rows[b], {"used", "marker"})
        /\ \A b \in Addr \ {a} : db'.rows[b] = db.rows[b]
    BY <1>0, <1>6, <2>1, <2>2, StartAddressEffect
  <2>5. /\ \E H : hdr' = StoredHeaders(H)
        /\ tick'.at = "scan" /\ tick.at = "scan"
        /\ tick'.end = tick.end /\ tick'.anchor = tick.anchor
    BY <1>0, <1>6 DEF StartAddress, Typed, TickOK, TickType
  <2>6. db'.rows[a].marker >= db.rows[a].marker /\ db.notes \subseteq db'.notes
    BY <1>a, <2>3, <2>4
  <2>7. ASSUME NEW b \in Addr
        PROVE  /\ db.rows[b].stored =>
                     db'.rows[b].stored /\ db'.rows[b].marker >= db.rows[b].marker
               /\ ~db'.rows[b].stored => db'.rows[b] = db.rows[b]
    BY <1>a, <2>3, <2>4, <2>6 DEF SameRow
  <2> QED BY <1>1, <2>4, <2>5, <2>6, <2>7, OnwardWritten
<1>7. ASSUME NEW hi \in Height, ScanWindow(hi) \/ ScanWindowUndated(hi)
      PROVE  Onward
  <2>1. PICK a, found : a = tick.addr /\ found = Payments(tick.addr, tick.lo, hi)
    OBVIOUS
  <2>2. /\ a \in Addr /\ db.rows[a].stored /\ db' \in Db /\ SameRest(db, db')
        /\ db'.notes = db.notes \cup found
        /\ \/ db'.rows[a].marker = hi /\ db.rows[a].marker < hi
           \/ db'.rows[a].marker = db.rows[a].marker
        /\ \A b \in Addr : SameRow(db.rows[b], db'.rows[b], {"used", "marker"})
        /\ \A b \in Addr \ {a} : db'.rows[b] = db.rows[b]
    BY <1>0, <1>7, <2>1, ScanWindowEffect
  <2>3. /\ hdr' = hdr \/ \E H : hdr' = StoredHeaders(H)
        /\ tick'.at = "scan" /\ tick.at = "scan"
        /\ tick'.end = tick.end /\ tick'.anchor = tick.anchor
    BY <1>0, <1>7 DEF ScanWindow, ScanWindowUndated, Typed, TickOK, TickType
  <2>4. db'.rows[a].marker >= db.rows[a].marker /\ db.notes \subseteq db'.notes
    BY <1>a, <2>2 DEF Height
  <2>5. ASSUME NEW b \in Addr
        PROVE  /\ db.rows[b].stored =>
                     db'.rows[b].stored /\ db'.rows[b].marker >= db.rows[b].marker
               /\ ~db'.rows[b].stored => db'.rows[b] = db.rows[b]
    BY <1>a, <2>2, <2>4 DEF SameRow
  <2> QED BY <1>1, <2>2, <2>3, <2>4, <2>5, OnwardWritten
<1>8. CASE ClosePass
  <2>1. /\ hdr' = hdr /\ tick'.cur = tick.start - 1 /\ tick'.at = "shielded"
        /\ tick'.prev = hdr[tick.start - 1] /\ tick.at = "scan"
    BY <1>8 DEF ClosePass, ScanDone, Idle
  <2>2. /\ db'.wit = db.wit /\ db'.notes = db.notes /\ db'.trims = db.trims
        /\ db'.inc = db.inc /\ db'.cov = db.cov /\ db'.birth = db.birth
        /\ \A b \in Addr : /\ db'.rows[b].stored = db.rows[b].stored
                           /\ db'.rows[b].marker = db.rows[b].marker
        /\ Seam(db') = Seam(db)
    BY <1>0, <1>8, ClosePassEffect DEF SameRow
  <2>3. ASSUME NEW k \in Height, Standing(k)' PROVE Standing(k)
    <3>1. CASE \E h \in Marks' : Stands(h)' /\ k <= h
      <4>1. \A h \in Marks' : h \in Marks /\ (Stands(h)' => Stands(h))
        BY <1>2, <2>1, <2>2
      <4> HIDE DEF Marks, Stands
      <4> QED BY <3>1, <4>1 DEF Standing
    <3>2. CASE Linked' /\ k <= tick'.cur
      <4>1. Seam(db) = tick.start - 1
        BY <1>0, <2>1, TickHeights
      <4>2. hdr[Seam(db)] \in {NoHash, HashAt(Seam(db))}
        BY <1>1, <2>1, <3>2, <4>1 DEF Linked, HashAt, Tip
      <4>3. Stands(Seam(db)) /\ Seam(db) \in Marks
        BY <1>0, <4>2 DEF KnownOK, Stands, Marks
      <4> QED BY <2>1, <3>2, <4>1, <4>3 DEF Standing
    <3> QED BY <2>3, <3>1, <3>2 DEF Standing
  <2> QED BY <1>1, <1>a, <2>2, <2>3 DEF Onward, Smaller
<1>9. ASSUME NEW h \in Height, NEW w \in BOOLEAN, CommitChunk(h, w)
      PROVE  Onward
  <2>1. tick.at = "shielded" /\ Linked
    BY <1>9 DEF CommitChunk
  <2>2. /\ db'.rows = db.rows /\ db'.notes = db.notes /\ db'.trims = db.trims
        /\ db'.inc = db.inc /\ db'.cov = db.cov /\ db'.birth = db.birth
        /\ Seam(db') = h /\ Seam(db) = tick.cur /\ tick.cur < h
    BY <1>0, <1>9, CommitChunkEffect
  <2>3. \A k \in Height : k <= Seam(db) => Standing(k)
    BY <2>1, <2>2 DEF Standing
  <2>4. Seam(db') >= Seam(db)
    BY <1>a, <2>2 DEF Height
  <2> QED BY <1>1, <1>a, <2>2, <2>3, <2>4 DEF Onward, Smaller
<1> QED BY <1>3, <1>4, <1>5, <1>6, <1>7, <1>8, <1>9 DEF Tick

(* So do a new address and a window of the walk.                           *)
LEMMA OnwardAddress ==
    ASSUME History, NEW op, NEW scope, HostAddress(op, scope)
    PROVE  Onward
<1>0. Typed /\ db \in Db
  BY DEF History, Typed, DbOK
<1>1. chain' = chain /\ tick' = tick /\ hdr' = hdr /\ left'.forks = left.forks
  BY <1>0 DEF HostAddress, Host, Typed, ChainOK, Budget
<1>2. PICK a : a = <<scope, HighestStored(db, scope) + 1>>
  OBVIOUS
<1>3. /\ a \in Addr /\ db' \in Db /\ SameRest(db, db') /\ db'.notes = db.notes
      /\ \A b \in Addr \ {a} : db'.rows[b] = db.rows[b]
      /\ IF db.rows[a].stored THEN db' = db ELSE db'.rows[a] = Row(Seam(db))
  BY <1>0, <1>2, HostAddressEffect
<1>4. \A b \in Addr : db.rows[b].marker \in Int
  BY <1>0 DEF Db, RowType, Null
<1>5. ASSUME NEW b \in Addr
      PROVE  /\ db.rows[b].stored =>
                   db'.rows[b].stored /\ db'.rows[b].marker >= db.rows[b].marker
             /\ ~db'.rows[b].stored => db'.rows[b] = db.rows[b]
  <2>1. CASE db'.rows[b] = db.rows[b]
    BY <1>4, <2>1
  <2>2. CASE ~db.rows[b].stored /\ db'.rows[b] = Row(Seam(db))
    BY <2>2 DEF Row
  <2> QED BY <1>3, <2>1, <2>2
<1> QED BY <1>1, <1>3, <1>5, OnwardWritten

(* A window of discovery: its notes are added and nothing else is lost.     *)
LEMMA OnwardIngest ==
    ASSUME History, NEW hi \in Height, IngestWindow(hi) \/ IngestUndated(hi)
    PROVE  Onward
<1>0. Typed /\ db \in Db
  BY DEF History, Typed, DbOK
<1>1. /\ chain' = chain /\ tick' = tick /\ left'.forks = left.forks
      /\ hdr' = hdr \/ \E H : hdr' = StoredHeaders(H)
      /\ InWindow(hi)
  BY <1>0, SpentOK DEF IngestWindow, IngestUndated, Failing, Typed
<1>2. PICK a, m : a = First.addr
                  /\ m = IF db.rows[a].stored THEN db.rows[a].marker ELSE Null
  OBVIOUS
<1>3. /\ db' \in Db /\ SameRest(db, db') /\ db.notes \subseteq db'.notes
      /\ \A b \in Addr \ {a} : db'.rows[b] = db.rows[b]
      /\ db'.rows[a].stored
      /\ \/ db'.rows[a].marker = m
         \/ /\ m < Smaller(hi, Seam(db))
            /\ db'.rows[a].marker = Smaller(hi, Seam(db))
  <2>1. /\ db' \in Db /\ SameRest(db, db')
        /\ db'.notes = db.notes \cup {n \in Answer(hi) : n.height <= Seam(db)}
        /\ \A b \in Addr \ {a} : db'.rows[b] = db.rows[b]
        /\ db'.rows[a].stored
        /\ \/ db'.rows[a].marker = m
           \/ /\ m < Smaller(hi, Seam(db))
              /\ db'.rows[a].marker = Smaller(hi, Seam(db))
    BY <1>0, <1>2, IngestEffect
  <2> QED BY <2>1
<1>4. /\ \A b \in Addr : db.rows[b].marker \in Int
      /\ Smaller(hi, Seam(db)) \in Int /\ a \in Addr
  <2>1. Seam(db) \in Int /\ hi \in Int
    BY <1>0, Ranges DEF Height
  <2>2. a \in Addr
    BY <1>0, <1>1, <1>2, WindowEntry
  <2> QED BY <1>0, <2>1, <2>2 DEF Db, RowType, Null, Smaller
<1>5. ASSUME NEW b \in Addr
      PROVE  /\ db.rows[b].stored =>
                   db'.rows[b].stored /\ db'.rows[b].marker >= db.rows[b].marker
             /\ ~db'.rows[b].stored => db'.rows[b] = db.rows[b]
  <2>1. CASE b # a
    BY <1>3, <1>4, <2>1
  <2>2. CASE b = a
    <3> HIDE DEF Smaller
    <3> QED BY <1>2, <1>3, <1>4, <2>2
  <2> QED BY <2>1, <2>2
<1> QED BY <1>1, <1>3, <1>5, OnwardWritten

-----------------------------------------------------------------------------
(* Which steps keep the certificate.                                       *)

(* An account without a certificate (a restore, a new birthday).           *)
LEMMA CoverageNone ==
    ASSUME db'.cov = NoCoverage, db'.trims = 0
    PROVE  CoverageOK'
BY DEF CoverageOK, Certified, NoCoverage, Null

(* reset_sync: a marker that a certificate rests on counts as trimmed.     *)
LEMMA CoverageReset ==
    ASSUME Typed, CoverageOK, UnstoredOK, db' = ResetSync(db)
    PROVE  CoverageOK' /\ UnstoredOK'
<1>0. db \in Db /\ Own \in Addr
  BY StoreAssumption DEF Typed, DbOK, Own
<1>1. /\ db'.cov = db.cov /\ db'.trims \in {db.trims, db.trims + 1}
      /\ db'.trims = db.trims => \A b \in Addr : db.rows[b].marker <= 0
      /\ \A b \in Addr : /\ db'.rows[b].stored = db.rows[b].stored
                         /\ db'.rows[b].marker = Smaller(db.rows[b].marker, 0)
  BY <1>0, ResetDb DEF SameRow
<1>2. /\ db.cov.trim \in Int /\ db.trims \in Int /\ db.cov.from \in Int
      /\ db.rows[Own].marker \in Int
  BY <1>0 DEF Db, RowType, Null
<1>3. ~Certified(db')
  <2> SUFFICES ASSUME Certified(db') PROVE FALSE
    OBVIOUS
  <2>1. db'.trims = db.trims /\ Certified(db)
    BY <1>1, <1>2 DEF Certified, CoverageOK
  <2>2. 1 <= db.cov.from /\ db.cov.from <= db.rows[Own].marker
    BY <2>1 DEF CoverageOK
  <2> QED BY <1>0, <1>1, <1>2, <2>1, <2>2
<1>4. CoverageOK'
  BY <1>1, <1>2, <1>3 DEF CoverageOK
<1>5. UnstoredOK'
  BY <1>0, <1>1 DEF UnstoredOK, Smaller, Null
<1> QED BY <1>4, <1>5

(* rewind_sync: what a certificate still in force speaks of is below the   *)
(* checkpoint.                                                             *)
LEMMA CoverageRewind ==
    ASSUME History, CoverageOK, UnstoredOK, NEW x \in Height,
           db' = RewoundSync(db, x),
           hdr' = [k \in Height |-> IF k > x THEN NoHash ELSE hdr[k]],
           tick'.at = "idle", chain' = chain
    PROVE  CoverageOK' /\ UnstoredOK'
<1>0. Typed /\ db \in Db /\ x \in Nat /\ Own \in Addr
  BY StoreAssumption DEF History, Typed, DbOK, Height, Own
<1>1. (\A h : HashAt(h)' = HashAt(h)) /\ chain' = chain
  BY DEF HashAt, Tip
<1>2. CASE db' = ResetSync(db)
  BY <1>0, <1>2, CoverageReset
<1>3. ASSUME NEW w \in db.wit, w < x, db' = Retired(Trimmed(db, w))
      PROVE  CoverageOK' /\ UnstoredOK'
  <2>0. w \in Height /\ w \in 0 .. MaxHeight /\ w \in Nat /\ w >= 1
    BY <1>0, SyncAssumption DEF Db, Height
  <2>1. PICK t : t = Trimmed(db, w)
    OBVIOUS
  <2>2. /\ t \in Db /\ t.hT = w /\ t.hS = w /\ t.wit = {v \in db.wit : v <= w}
        /\ t.cov = db.cov /\ t.birth = db.birth
        /\ t.trims \in {db.trims, db.trims + 1}
        /\ t.trims = db.trims =>
              t.notes = db.notes /\ \A b \in Addr : db.rows[b].marker <= w
        /\ \A a \in Addr : /\ t.rows[a].stored = db.rows[a].stored
                           /\ t.rows[a].marker = Smaller(db.rows[a].marker, w)
    BY <1>0, <2>0, <2>1, TrimmedDb DEF SameRow
  <2>3. /\ db'.hT = w /\ db'.hS = w /\ db'.wit = {v \in db.wit : v <= w}
        /\ db'.cov = db.cov /\ db'.birth = db.birth
        /\ db'.trims \in {db.trims, db.trims + 1}
        /\ db'.trims = db.trims =>
              db'.notes = db.notes /\ \A b \in Addr : db.rows[b].marker <= w
        /\ \A a \in Addr : /\ db'.rows[a].stored = db.rows[a].stored
                           /\ db'.rows[a].marker = Smaller(db.rows[a].marker, w)
    BY <1>3, <2>1, <2>2, RetiredDb
  <2>4. Seam(db') = w
    BY <2>0, <2>3 DEF Seam, Smaller
  <2>5. /\ db.cov.trim \in Int /\ db.trims \in Int /\ db.cov.from \in Int
        /\ \A a \in Addr : db.rows[a].marker \in Int /\ db.rows[a].marker >= Null
    BY <1>0 DEF Db, RowType, Null
  <2>6. UnstoredOK'
    BY <1>0, <2>0, <2>3, <2>5 DEF UnstoredOK, Smaller, Null
  <2>7. \A h \in Marks' : h \in Marks /\ (Stands(h)' => Stands(h))
    <3> SUFFICES ASSUME NEW h \in Marks' PROVE h \in Marks /\ (Stands(h)' => Stands(h))
      OBVIOUS
    <3>1. h \in db.wit /\ h \in Marks /\ h <= w
      BY <1>3, <2>0, <2>3, <2>4 DEF Marks
    <3>2. h \in Height /\ h \in Nat
      BY <1>0, <3>1 DEF Db, Height
    <3>3. hdr'[h] = hdr[h]
      BY <1>0, <1>3, <2>0, <3>1, <3>2
    <3> QED BY <1>1, <3>1, <3>2, <3>3 DEF Stands
  <2>8. \A k \in Height : Standing(k)' => Standing(k) /\ chain'[k] = chain[k]
    BY <2>7, StandingSame
  <2>9. db'.cov.trim <= db'.trims
    BY <2>3, <2>5 DEF CoverageOK
  <2>10. ASSUME Certified(db')
         PROVE  /\ 1 <= db'.cov.from /\ db'.cov.from <= Seam(db')
                /\ db'.cov.from <= db'.rows[Own].marker
                /\ \A a \in Addr : a[2] <= GapLimit => NoHole(a, db.cov.from)'
    <3>1. db'.trims = db.trims /\ Certified(db)
      BY <2>3, <2>5, <2>10 DEF Certified, CoverageOK
    <3>2. PICK f \in Int : f = db.cov.from /\ f = db'.cov.from
      BY <2>3, <2>5
    <3>3. 1 <= f /\ f <= db.rows[Own].marker /\ db.rows[Own].marker <= w
      BY <1>0, <2>3, <3>1, <3>2 DEF CoverageOK
    <3>4. f <= w /\ f <= db'.rows[Own].marker
      BY <1>0, <2>0, <2>3, <2>5, <3>3 DEF Smaller
    <3>5. ASSUME NEW a \in Addr, a[2] <= GapLimit PROVE NoHole(a, f)'
      <4>1. NoHole(a, f)
        BY <3>1, <3>2, <3>5 DEF CoverageOK
      <4> SUFFICES ASSUME NEW k \in Height, Standing(k)', db'.birth <= k, k <= f,
                          chain'[k].pays = a
                   PROVE  NoteAt(a, k, chain'[k]) \in db'.notes
        BY DEF NoHole
      <4> HIDE DEF Standing
      <4> QED BY <2>3, <2>8, <3>1, <4>1 DEF NoHole
    <3> QED BY <2>4, <3>2, <3>3, <3>4, <3>5 DEF NoHole
  <2>11. CoverageOK'
    BY <2>9, <2>10 DEF CoverageOK, NoHole
  <2> QED BY <2>6, <2>11
<1> QED BY <1>0, <1>2, <1>3, RewoundDb

(* So a host operation keeps both.                                         *)
LEMMA CoverageHost ==
    ASSUME History, Typed', CoverageOK, UnstoredOK, HostStep
    PROVE  CoverageOK' /\ UnstoredOK'
<1>0. Typed /\ db \in Db /\ Own \in Addr
  BY StoreAssumption DEF History, Typed, DbOK, Own
<1>1. ASSUME NEW x \in Height, HostRewind(x) PROVE CoverageOK' /\ UnstoredOK'
  <2>1. /\ db' = RewoundSync(db, x) /\ chain' = chain /\ tick'.at = "idle"
        /\ hdr' = [k \in Height |-> IF k > x THEN NoHash ELSE hdr[k]]
    BY <1>1 DEF HostRewind, Host, Quiet
  <2> QED BY <2>1, CoverageRewind
<1>2. CASE HostReset
  BY <1>0, <1>2, CoverageReset DEF HostReset
<1>3. CASE HostReplace
  <2>1. db.birth \in 1 .. Birth /\ db.inc + 1 \in Nat
    BY <1>0 DEF Db
  <2>2. db' = Restored(db.birth, db.inc + 1)
    BY <1>3 DEF HostReplace, Replaced
  <2>3. PICK b \in 1 .. Birth, i \in Nat : b = db.birth /\ i = db.inc + 1
    BY <2>1
  <2>4. db' = Restored(b, i)
    BY <2>2, <2>3
  <2>5. /\ db'.trims = 0 /\ db'.cov = NoCoverage
        /\ \A a \in Addr : /\ db'.rows[a].stored <=> a = Own
                           /\ db'.rows[a].marker = Null
    BY <2>4, RestoredDb
  <2> QED BY <1>0, <2>5, CoverageNone DEF UnstoredOK
<1>4. ASSUME NEW b \in Births, HostBirth(b) PROVE CoverageOK' /\ UnstoredOK'
  <2>1. b \in 1 .. Birth /\ db' = MovedBirth(db, b)
    BY <1>4, SyncAssumption DEF HostBirth
  <2>2. /\ db'.trims = 0 /\ db'.cov = NoCoverage
        /\ \A a \in Addr : /\ db'.rows[a].stored = db.rows[a].stored
                           /\ db'.rows[a].marker = Null
    BY <1>0, <2>1, MovedBirthDb DEF SameRow
  <2> QED BY <1>0, <2>2, CoverageNone DEF UnstoredOK
<1>5. ASSUME NEW op, NEW scope, HostAddress(op, scope)
      PROVE  CoverageOK' /\ UnstoredOK'
  <2>1. Onward
    BY <1>5, OnwardAddress
  <2> HIDE DEF Onward
  <2> QED BY <1>0, <2>1, CoverageOnward
<1> QED BY <1>1, <1>2, <1>3, <1>4, <1>5 DEF HostStep

(* The addresses of a behaviour do not change, and no block pays others.   *)
LEMMA AddressesStep ==
    ASSUME Typed, AddressesOK, [Next]_vars
    PROVE  /\ AddressesOK'
           /\ left'.addrs = left.addrs /\ left'.narrow = left.narrow
<1>0. /\ Tip \in Nat /\ left \in Budget /\ Tip = Len(chain)
  BY Ranges
<1>1. CASE Mine
  <2>1. left' = left /\ Tip' = Tip + 1 /\ \A h \in 1 .. Tip : chain'[h] = chain[h]
    BY <1>1, MineChain
  <2>2. PICK a \in left.payees \cup {NoAddr} :
          chain' = Append(chain, [fork |-> left.forks, pays |-> a])
    BY <1>1 DEF Mine
  <2>3. chain'[Tip + 1].pays = a
    <3>1. chain \in Seq(Block)
      BY DEF Typed, ChainOK
    <3>2. chain'[Tip + 1] = [fork |-> left.forks, pays |-> a]
      BY <1>0, <2>2, <3>1
    <3> QED BY <3>2
  <2>4. \A k \in 1 .. Tip' : k \in 1 .. Tip \/ k = Tip + 1
    BY <1>0, <2>1
  <2> QED BY <2>1, <2>3, <2>4 DEF AddressesOK
<1>2. ASSUME NEW f \in Height, Fork(f)
      PROVE  /\ AddressesOK'
             /\ left'.addrs = left.addrs /\ left'.narrow = left.narrow
  <2>1. /\ Tip' = f - 1 /\ f \in (Birth + 1) .. Tip
        /\ \A h \in 1 .. (f - 1) : chain'[h] = chain[h]
        /\ left'.narrow = left.narrow /\ left'.addrs = left.addrs
    BY <1>2, ForkChain
  <2>2. left'.payees = left.payees
    BY <1>0, <1>2 DEF Fork, Budget
  <2>3. \A k \in 1 .. Tip' : k \in 1 .. Tip /\ chain'[k] = chain[k]
    BY <1>0, <2>1, SyncAssumption DEF Height
  <2> QED BY <2>1, <2>2, <2>3 DEF AddressesOK
<1>3. ASSUME chain' = chain,
             \/ left' = left
             \/ left' = [left EXCEPT !.fails = @ - 1]
             \/ left' = [left EXCEPT !.ticks = @ - 1]
             \/ left' = [left EXCEPT !.walks = @ - 1]
             \/ left' = [left EXCEPT !.host = @ - 1]
      PROVE  /\ AddressesOK'
             /\ left'.addrs = left.addrs /\ left'.narrow = left.narrow
  <2>1. /\ left'.addrs = left.addrs /\ left'.narrow = left.narrow
        /\ left'.payees = left.payees
    BY <1>0, <1>3 DEF Budget
  <2> QED BY <1>3, <2>1 DEF AddressesOK, Tip
<1>4. CASE Tick
  BY <1>3, <1>4 DEF Tick, StartTick, OpenAnchor, StartAddress, ScanWindow,
     ScanWindowUndated, ClosePass, CommitChunk, MeetReorg, FailTick, Failing
<1>5. CASE Walk
  BY <1>3, <1>5 DEF Walk, StartWalk, PlanCandidate, ReadBatchSeam, Prefetch,
     SkipCandidate, ProbeWindow, IngestWindow, IngestUndated, Certify, FailWalk,
     Failing
<1>6. CASE HostStep
  BY <1>3, <1>6 DEF HostStep, HostRewind, HostReset, HostReplace, HostBirth,
     HostAddress, Host
<1>7. CASE UNCHANGED vars
  BY <1>3, <1>7 DEF vars
<1> QED BY <1>1, <1>2, <1>4, <1>5, <1>6, <1>7 DEF Next

-----------------------------------------------------------------------------
(* What a walk has found out.                                              *)

\* The index of its batch's first entry.
Reached(w) == w.next - Len(w.batch)

\* The walk has passed index a, or left its scope behind.
Visited(w, a) ==
    /\ a \in left.addrs
    /\ \/ a[1] = w.scope /\ a[2] < Reached(w)
       \/ a[1] < w.scope /\ a[2] <= GapLimit

\* An entry whose address has no row was asked about from the birthday on, and
\* what it was paid below its next window is nothing.
Probed(w, e) ==
    /\ e.skip => e.had
    /\ e.had \/ e.lo <= w.end
    /\ e.addr = Own => e.had
    /\ db.inc = w.inc /\ ~db.rows[e.addr].stored =>
          /\ ~e.had /\ db.birth <= e.lo
          /\ ~left.narrow => e.lo = db.birth
          /\ \A k \in db.birth .. (e.lo - 1) : chain[k].pays # e.addr

BatchCov(w) ==
    \A i \in 1 .. Len(w.batch) :
        /\ w.batch[i].addr = <<w.scope, Reached(w) + i - 1>>
        /\ Probed(w, w.batch[i])

\* Gaps are counted in indexes passed, the first of which is the account's own;
\* the last critical section comes after both scopes.
ShapeOK(w) ==
    /\ w.width >= 1 /\ Len(w.stored) = 2 /\ w.gap <= Reached(w)
    /\ w.at # "idle" => w.end >= Birth
    /\ w.at = "certify" =>
          /\ Own \in w.covered
          /\ \A a \in left.addrs : a[2] <= GapLimit => Visited(w, a)
    /\ w.scope = 1 \/ Reached(w) > 0 => Own \in w.covered

\* A walk of this account: what it visits has a row, or no hole up to the seam
\* it began at.
FoundOK(w) ==
    w.at # "idle" /\ db.inc = w.inc =>
        /\ 1 <= w.from /\ w.from <= Seam(db)
        /\ \A k \in Height : Standing(k) /\ k <= w.from => k <= w.end
        /\ \A a \in Addr : Visited(w, a) =>
              a \in w.covered \/ NoHole(a, w.from)

WalkCov(w) == BatchCov(w) /\ ShapeOK(w) /\ FoundOK(w)

\* No index of the walk's scope within the gap limit is left.
ScopeDone(w) ==
    \A a \in left.addrs : a[1] = w.scope /\ a[2] <= GapLimit => a[2] < w.next

(* An address is a scope and an index.                                     *)
LEMMA AddrPair ==
    ASSUME NEW a \in Addr
    PROVE  a[1] \in {0, 1} /\ a[2] \in Nat /\ a = <<a[1], a[2]>>
<1>1. a \in {0, 1} \X (0 .. MaxIndex)
  BY StoreAssumption
<1> QED BY <1>1

(* An empty batch that cannot be planned ends the scope.                   *)
LEMMA ScopeEnds ==
    ASSUME Typed, AddressesOK, NEW w \in WalkType, w.width >= 1,
           Len(w.stored) = 2, w.batch = << >>, w.gap <= w.next, ~CanPlan(w)
    PROVE  ScopeDone(w) /\ (w.gap = 0 => <<w.scope, w.next>> \notin left.addrs)
<1>1. Len(w.batch) = 0 /\ Requests(w) = 0
  <2>1. {i \in DOMAIN w.batch : Requested(w, w.batch[i])} = {}
    OBVIOUS
  <2>2. Cardinality({i \in DOMAIN w.batch : Requested(w, w.batch[i])}) = 0
    BY <2>1, FS_EmptySet
  <2> QED BY <2>2 DEF Requests
<1>2. w.gap \in Nat /\ w.next \in Nat /\ w.width \in Int /\ GapLimit \in Nat
      /\ w.stored[w.scope + 1] \in Int
  <2>1. w.stored \in Seq(Int) /\ w.scope + 1 \in 1 .. Len(w.stored)
    BY DEF WalkType
  <2>2. w.stored[w.scope + 1] \in Int
    BY <2>1, ElementOfSeq
  <2> QED BY <2>2, SyncAssumption DEF WalkType
<1>3. CASE <<w.scope, w.next>> \notin left.addrs
  <2> SUFFICES ASSUME NEW a \in left.addrs, a[1] = w.scope, ~(a[2] < w.next)
               PROVE  FALSE
    BY <1>3 DEF ScopeDone
  <2>1. a[2] \in Nat
    BY Ranges, AddrPair DEF Budget
  <2>2. w.next \in 0 .. a[2]
    BY <1>2, <2>1
  <2> QED BY <1>3, <2>2 DEF AddressesOK
<1>4. CASE <<w.scope, w.next>> \in left.addrs
  <2>1. ~(Len(w.batch) < Certain(w))
    BY <1>1, <1>2, <1>4 DEF CanPlan
  <2>2. w.gap >= GapLimit + 1
    <3>1. PICK s \in Int : s = w.stored[w.scope + 1] + 1 - (w.next - Len(w.batch))
      BY <1>1, <1>2
    <3>2. Certain(w) = Larger(GapLimit + 1 - w.gap, s)
      BY <3>1 DEF Certain
    <3> QED BY <1>1, <1>2, <2>1, <3>2 DEF Larger
  <2>3. \A a \in left.addrs : a[2] \in Nat
    BY Ranges, AddrPair DEF Budget
  <2> QED BY <1>2, <2>2, <2>3 DEF ScopeDone
<1> QED BY <1>3, <1>4

(* A step onward keeps what a walk has found out.                          *)
LEMMA WalkCovOnward ==
    ASSUME History, Typed', Calm, Onward, left'.addrs = left.addrs,
           left'.narrow = left.narrow,
           chain' = chain \/ Mine \/ (\E f \in Height : Fork(f)),
           NEW w, w = walk, WalkCov(w)
    PROVE  WalkCov(w)'
<1>0. /\ Typed /\ WalkRight /\ w \in WalkType /\ w.batch \in Seq(Entry)
      /\ w.inc <= db.inc /\ Seam(db) \in Int /\ Tip \in Nat
      /\ w.from \in Int /\ w.end \in Nat
  <2>1. Typed /\ WalkRight
    BY DEF History
  <2>2. Seam(db) \in Int /\ Tip \in Nat
    BY <2>1, Ranges DEF Height
  <2>3. w \in WalkType
    BY <2>1 DEF Typed, WalkOK
  <2> QED BY <2>1, <2>2, <2>3, SyncAssumption DEF WalkType, WalkRight
<1>1. ShapeOK(w)'
  BY DEF WalkCov, ShapeOK, Visited
<1>2. ASSUME NEW e \in Entry, Probed(w, e) PROVE Probed(w, e)'
  <2>1. e.lo \in Int /\ e.addr \in Addr /\ db.birth \in Nat \ {0}
    BY <1>0, Ranges DEF Entry
  <2> SUFFICES ASSUME db'.inc = w.inc, ~db'.rows[e.addr].stored
               PROVE  /\ ~e.had /\ db'.birth <= e.lo
                      /\ ~left'.narrow => e.lo = db'.birth
                      /\ \A k \in db'.birth .. (e.lo - 1) : chain'[k].pays # e.addr
    BY <1>2 DEF Probed
  <2>2. /\ db.inc = w.inc /\ ~db.rows[e.addr].stored /\ db'.birth = db.birth
    BY <2>1 DEF Onward
  <2>3. /\ ~e.had /\ db.birth <= e.lo /\ e.lo <= w.end
        /\ ~left.narrow => e.lo = db.birth
        /\ \A k \in db.birth .. (e.lo - 1) : chain[k].pays # e.addr
    BY <1>2, <2>2 DEF Probed
  <2>4. ASSUME NEW k \in db.birth .. (e.lo - 1) PROVE chain'[k] = chain[k]
    <3>1. left.narrow
      BY <2>1, <2>3, <2>4
    <3>2. left.forks = 0 /\ w.end <= Tip
      BY <1>0, <3>1 DEF WalkRight
    <3>3. ~ \E f \in Height : Fork(f)
      BY <3>2 DEF Fork
    <3>4. k \in 1 .. Tip
      BY <1>0, <2>1, <2>3, <2>4, <3>2
    <3> QED BY <1>0, <3>3, <3>4, MineChain
  <2> QED BY <2>2, <2>3, <2>4
<1>3. BatchCov(w)'
  <2> SUFFICES ASSUME NEW i \in 1 .. Len(w.batch)
               PROVE  /\ w.batch[i].addr = <<w.scope, Reached(w) + i - 1>>
                      /\ Probed(w, w.batch[i])'
    BY DEF BatchCov, Reached
  <2>1. PICK e \in Entry : e = w.batch[i]
    BY <1>0, ElementOfSeq
  <2>2. e.addr = <<w.scope, Reached(w) + i - 1>> /\ Probed(w, e)
    BY <2>1 DEF WalkCov, BatchCov
  <2>3. Probed(w, e)'
    BY <1>2, <2>2
  <2> QED BY <2>1, <2>2, <2>3
<1>4. FoundOK(w)'
  <2> SUFFICES ASSUME w.at # "idle", db'.inc = w.inc
               PROVE  /\ 1 <= w.from /\ w.from <= Seam(db')
                      /\ \A k \in Height : Standing(k)' /\ k <= w.from => k <= w.end
                      /\ \A a \in Addr : Visited(w, a)' =>
                            a \in w.covered \/ NoHole(a, w.from)'
    BY DEF FoundOK
  <2>1. db.inc = w.inc /\ Seam(db') >= Seam(db) /\ Seam(db') \in Int
    <3>1. Seam(db') >= Seam(db) /\ db.inc = w.inc
      BY DEF Onward
    <3>2. db' \in Db
      BY DEF Typed, DbOK
    <3>3. Seam(db') \in Int
      BY <3>2, SyncAssumption DEF Db, Seam, Smaller
    <3> QED BY <3>1, <3>3
  <2>2. /\ 1 <= w.from /\ w.from <= Seam(db)
        /\ \A k \in Height : Standing(k) /\ k <= w.from => k <= w.end
        /\ \A a \in Addr : Visited(w, a) => a \in w.covered \/ NoHole(a, w.from)
    BY <2>1 DEF WalkCov, FoundOK
  <2>3. w.from <= Seam(db')
    BY <1>0, <2>1, <2>2
  <2>4. ASSUME NEW k \in Height, Standing(k)', k <= w.from PROVE k <= w.end
    <3>1. k <= Seam(db)
      BY <1>0, <2>2, <2>4 DEF Height
    <3>2. Standing(k)
      BY <2>4, <3>1 DEF Onward
    <3> QED BY <2>2, <2>4, <3>2
  <2>5. ASSUME NEW a \in Addr, Visited(w, a)', a \notin w.covered
        PROVE  NoHole(a, w.from)'
    <3>1. Visited(w, a)
      BY <2>5 DEF Visited
    <3>2. PICK f \in Int : f = w.from
      BY <1>0
    <3>3. NoHole(a, f) /\ f <= Seam(db)
      BY <2>2, <2>5, <3>1, <3>2
    <3>4. NoHole(a, f)'
      BY <1>0, <3>3, HoleOnward
    <3> QED BY <3>2, <3>4
  <2> QED BY <2>2, <2>3, <2>4, <2>5
<1> QED BY <1>1, <1>3, <1>4 DEF WalkCov

(* A walk whose account was retired has found out nothing.                 *)
LEMMA WalkCovRetired ==
    ASSUME Typed, WalkRight, db'.inc = db.inc + 1, left'.addrs = left.addrs,
           walk' = walk, WalkCov(walk)
    PROVE  WalkCov(walk)'
<1>1. PICK w : w = walk
  OBVIOUS
<1>2. db'.inc # w.inc
  <2>1. db.inc \in Nat
    BY DEF Typed, DbOK, Db
  <2>2. walk.inc \in Nat
    BY DEF Typed, WalkOK, WalkType
  <2>3. walk.inc <= db.inc
    BY DEF WalkRight
  <2> QED BY <1>1, <2>1, <2>2, <2>3
<1>3. ShapeOK(w)' /\ FoundOK(w)' /\ BatchCov(w)'
  BY <1>1, <1>2 DEF WalkCov, ShapeOK, Visited, FoundOK, BatchCov, Probed, Reached
<1> QED BY <1>1, <1>3 DEF WalkCov, ShapeOK, Visited, FoundOK, BatchCov, Probed, Reached

(* A walk that has ended.                                                  *)
LEMMA WalkCovNone ==
    ASSUME walk' = NoWalk
    PROVE  WalkCov(walk)'
<1>1. PICK w : w = NoWalk /\ w = walk'
  OBVIOUS
<1>2. /\ w.at = "idle" /\ w.batch = << >> /\ w.width = 1 /\ w.gap = 0
      /\ w.next = 0 /\ w.scope = 0 /\ Len(w.stored) = 2
      /\ Len(w.batch) = 0
  BY <1>1 DEF NoWalk
<1>3. Reached(w) = 0
  <2>1. w.next = 0 /\ Len(w.batch) = 0
    BY <1>2
  <2> QED BY <2>1 DEF Reached
<1>4. ShapeOK(w)' /\ FoundOK(w)' /\ BatchCov(w)'
  BY <1>2, <1>3 DEF ShapeOK, FoundOK, BatchCov
<1> QED BY <1>1, <1>4 DEF WalkCov, ShapeOK, FoundOK, BatchCov, Visited, Reached, Probed

(* Where planning leaves the walk: in its scope, in the other, or done.    *)
LEMMA PlannedScope ==
    ASSUME Typed, AddressesOK, NEW w \in WalkType, w.width >= 1,
           Len(w.stored) = 2, w.gap <= Reached(w), NEW p, p = Planned(w)
    PROVE  /\ p.width = w.width /\ p.stored = w.stored
           /\ \/ /\ p.scope = w.scope /\ p.next = w.next /\ p.gap = w.gap
                 /\ p.at # "certify"
              \/ /\ w.batch = << >> /\ w.scope = 0 /\ ScopeDone(w)
                 /\ p.scope = 1 /\ p.next = 0 /\ p.gap = 0 /\ p.at = "plan"
              \/ /\ w.batch = << >> /\ ScopeDone(w) /\ p.at = "certify"
                 /\ p.scope = w.scope /\ p.next = w.next /\ p.gap = w.gap
                 /\ \A a \in left.addrs : a[1] <= w.scope
<1> DEFINE o == [w EXCEPT !.scope = 1, !.next = 0, !.gap = 0]
<1>1. \/ p = [w EXCEPT !.at = "plan"]
      \/ p = [w EXCEPT !.at = "seam"]
      \/ p = [w EXCEPT !.at = "ingest"]
      \/ /\ w.batch = << >> /\ ~CanPlan(w) /\ w.scope = 0 /\ CanPlan(o)
         /\ p = [o EXCEPT !.at = "plan"]
      \/ /\ w.batch = << >> /\ ~CanPlan(w) /\ (w.scope = 0 => ~CanPlan(o))
         /\ p = [w EXCEPT !.at = "certify"]
  BY DEF Planned
<1>2. /\ o \in WalkType /\ o.batch = w.batch /\ o.width = w.width
      /\ o.stored = w.stored /\ o.scope = 1 /\ o.next = 0 /\ o.gap = 0
      /\ w.scope \in {0, 1}
  BY DEF WalkType
<1> HIDE DEF o
<1>3. ASSUME w.batch = << >>, ~CanPlan(w) PROVE ScopeDone(w)
  <2>1. w.gap <= w.next
    <3>1. Len(w.batch) = 0 /\ w.next \in Nat
      BY <1>3 DEF WalkType
    <3> QED BY <3>1 DEF Reached
  <2> QED BY <1>3, <2>1, ScopeEnds
<1>4. ASSUME w.batch = << >>, w.scope = 0 => ~CanPlan(o)
      PROVE  \A a \in left.addrs : a[1] <= w.scope
  <2> SUFFICES ASSUME NEW a \in left.addrs PROVE a[1] <= w.scope
    OBVIOUS
  <2>1. a[1] \in {0, 1} /\ a[2] \in Nat
    BY Ranges, AddrPair DEF Budget
  <2>2. CASE w.scope = 1
    BY <2>1, <2>2
  <2>3. CASE w.scope = 0
    <3>1. o.gap <= o.next
      BY <1>2
    <3>2. <<o.scope, o.next>> \notin left.addrs
      BY <1>2, <1>4, <2>3, <3>1, ScopeEnds
    <3>3. 0 \in 0 .. a[2]
      BY <2>1
    <3>4. <<a[1], 0>> \in left.addrs
      BY <3>3 DEF AddressesOK
    <3> QED BY <1>2, <2>1, <2>3, <3>2, <3>4
  <2> QED BY <1>2, <2>2, <2>3
<1>5. CASE p \in {[w EXCEPT !.at = "plan"], [w EXCEPT !.at = "seam"],
                  [w EXCEPT !.at = "ingest"]}
  BY <1>5 DEF WalkType
<1>6. CASE /\ w.batch = << >> /\ ~CanPlan(w) /\ w.scope = 0 /\ CanPlan(o)
           /\ p = [o EXCEPT !.at = "plan"]
  <2>1. ScopeDone(w)
    BY <1>3, <1>6
  <2>2. /\ p.width = w.width /\ p.stored = w.stored /\ p.scope = 1
        /\ p.next = 0 /\ p.gap = 0 /\ p.at = "plan"
    BY <1>2, <1>6 DEF WalkType
  <2> QED BY <1>6, <2>1, <2>2
<1>7. CASE /\ w.batch = << >> /\ ~CanPlan(w) /\ (w.scope = 0 => ~CanPlan(o))
           /\ p = [w EXCEPT !.at = "certify"]
  <2>1. ScopeDone(w) /\ \A a \in left.addrs : a[1] <= w.scope
    BY <1>3, <1>4, <1>7
  <2>2. /\ p.width = w.width /\ p.stored = w.stored /\ p.scope = w.scope
        /\ p.next = w.next /\ p.gap = w.gap /\ p.at = "certify"
    BY <1>7 DEF WalkType
  <2> QED BY <1>7, <2>1, <2>2
<1> QED BY <1>1, <1>5, <1>6, <1>7

(* A walk that differs in its batch, phase and width alone.                *)
LEMMA WalkCovSame ==
    ASSUME NEW w, NEW p, ShapeOK(w)', FoundOK(w)', w.at # "idle",
           p.at # "certify", p.width >= 1, p.stored = w.stored,
           p.gap = w.gap, p.scope = w.scope, Reached(p) = Reached(w),
           p.covered = w.covered, p.from = w.from, p.inc = w.inc, p.end = w.end
    PROVE  ShapeOK(p)' /\ FoundOK(p)'
<1>1. \A a : Visited(p, a)' => Visited(w, a)'
  BY DEF Visited, Reached
<1>2. Reached(p)' = Reached(w)'
  BY DEF Reached
<1>3. ShapeOK(p)'
  <2> HIDE DEF Reached
  <2> QED BY <1>2 DEF ShapeOK
<1>4. FoundOK(p)'
  <2> HIDE DEF Visited, NoHole
  <2> QED BY <1>1 DEF FoundOK
<1> QED BY <1>3, <1>4

(* Planning keeps what the walk has found out.                             *)
LEMMA PlannedCov ==
    ASSUME Typed, AddressesOK, left'.addrs = left.addrs,
           NEW w \in WalkType, w.at # "idle", WalkCov(w)',
           w.batch = << >> => Reached(w) > 0, NEW p, p = Planned(w)
    PROVE  WalkCov(p)'
<1>0. /\ p \in WalkType /\ p.batch = w.batch /\ p.inc = w.inc /\ p.from = w.from
      /\ p.end = w.end /\ p.covered = w.covered
  BY Ranges, PlannedWalk
<1>1. /\ w.width >= 1 /\ Len(w.stored) = 2 /\ w.gap <= Reached(w)
      /\ w.end >= Birth
      /\ w.scope = 1 \/ Reached(w) > 0 => Own \in w.covered
  BY DEF WalkCov, ShapeOK, Reached
<1>2. p.width >= 1 /\ p.stored = w.stored
  BY <1>1, PlannedScope
<1>3. CASE /\ p.scope = w.scope /\ p.next = w.next /\ p.gap = w.gap
           /\ p.at # "certify"
  <2>1. Reached(p) = Reached(w)
    BY <1>0, <1>3 DEF Reached
  <2>2. ShapeOK(p)' /\ FoundOK(p)'
    <3>1. ShapeOK(w)' /\ FoundOK(w)'
      BY DEF WalkCov
    <3> HIDE DEF ShapeOK, FoundOK, Reached
    <3> QED BY <1>0, <1>2, <1>3, <2>1, <3>1, WalkCovSame
  <2>3. BatchCov(p)'
    BY <1>0, <1>3 DEF WalkCov, BatchCov, Probed, Reached
  <2> QED BY <2>2, <2>3 DEF WalkCov
<1>4. ASSUME w.batch = << >>, ScopeDone(w)
      PROVE  /\ BatchCov(p)' /\ Reached(w) = w.next /\ Reached(p) = p.next
             /\ \A a \in left.addrs : a[1] = w.scope /\ a[2] <= GapLimit =>
                   Visited(w, a)'
  <2>1. Len(w.batch) = 0 /\ Len(p.batch) = 0 /\ w.next \in Nat /\ p.next \in Nat
    BY <1>0, <1>4 DEF WalkType
  <2>2. Reached(w) = w.next /\ Reached(p) = p.next
    BY <2>1 DEF Reached
  <2>3. BatchCov(p)'
    BY <2>1 DEF BatchCov
  <2>4. ASSUME NEW a \in left.addrs, a[1] = w.scope, a[2] <= GapLimit
        PROVE  Visited(w, a)'
    BY <1>4, <2>2, <2>4 DEF ScopeDone, Visited, Reached
  <2> QED BY <2>2, <2>3, <2>4
<1>5. CASE /\ w.batch = << >> /\ w.scope = 0 /\ ScopeDone(w)
           /\ p.scope = 1 /\ p.next = 0 /\ p.gap = 0 /\ p.at = "plan"
  <2>1. /\ BatchCov(p)' /\ Reached(p) = 0 /\ Reached(w) = w.next
        /\ \A a \in left.addrs : a[1] = 0 /\ a[2] <= GapLimit => Visited(w, a)'
    BY <1>4, <1>5
  <2>2. \A a \in Addr : Visited(p, a)' => Visited(w, a)'
    <3> SUFFICES ASSUME NEW a \in Addr, Visited(p, a)' PROVE Visited(w, a)'
      OBVIOUS
    <3>1. a \in left.addrs /\ a[1] \in {0, 1} /\ a[2] \in Nat
      BY AddrPair DEF Visited
    <3>2. a[1] = 0 /\ a[2] <= GapLimit
      BY <1>5, <2>1, <3>1 DEF Visited, Reached
    <3> QED BY <2>1, <3>1, <3>2
  <2>3. Own \in p.covered
    BY <1>0, <1>1, <1>5
  <2>4. ShapeOK(p)'
    BY <1>0, <1>1, <1>2, <1>5, <2>1, <2>3 DEF ShapeOK, Reached
  <2>5. FoundOK(p)'
    <3>1. FoundOK(w)'
      BY DEF WalkCov
    <3> HIDE DEF Visited, NoHole
    <3> QED BY <1>0, <2>2, <3>1 DEF FoundOK
  <2> QED BY <2>1, <2>4, <2>5 DEF WalkCov
<1>6. CASE /\ w.batch = << >> /\ ScopeDone(w) /\ p.at = "certify"
           /\ p.scope = w.scope /\ p.next = w.next /\ p.gap = w.gap
           /\ \A a \in left.addrs : a[1] <= w.scope
  <2>1. /\ BatchCov(p)' /\ Reached(p) = p.next /\ Reached(w) = w.next
        /\ \A a \in left.addrs : a[1] = w.scope /\ a[2] <= GapLimit =>
              Visited(w, a)'
    BY <1>4, <1>6
  <2>2. \A a : Visited(p, a)' <=> Visited(w, a)'
    BY <1>0, <1>6 DEF Visited, Reached
  <2>3. ASSUME NEW a \in left.addrs, a[2] <= GapLimit PROVE Visited(w, a)'
    <3>1. CASE a[1] = w.scope
      BY <2>1, <2>3, <3>1
    <3>2. CASE a[1] # w.scope
      <4>1. a[1] \in {0, 1} /\ w.scope \in {0, 1}
        BY Ranges, AddrPair DEF Budget, WalkType
      <4>2. a[1] < w.scope
        BY <1>6, <3>2, <4>1
      <4> QED BY <2>3, <4>2 DEF Visited
    <3> QED BY <3>1, <3>2
  <2>4. ShapeOK(p)'
    <3>1. \A a \in left'.addrs : a[2] <= GapLimit => Visited(p, a)'
      BY <2>2, <2>3
    <3>2. p.gap <= Reached(p) /\ Own \in p.covered
      BY <1>0, <1>1, <1>6, <2>1
    <3> QED BY <1>0, <1>1, <1>2, <3>1, <3>2 DEF ShapeOK, Reached
  <2>5. FoundOK(p)'
    <3>1. FoundOK(w)'
      BY DEF WalkCov
    <3> HIDE DEF Visited, NoHole
    <3> QED BY <1>0, <2>2, <3>1 DEF FoundOK
  <2> QED BY <2>1, <2>4, <2>5 DEF WalkCov
<1> QED BY <1>1, <1>3, <1>5, <1>6, PlannedScope

(* So does passing the first entry of the batch, once it has a row or no   *)
(* hole.                                                                   *)
LEMMA PassedCov ==
    ASSUME Typed, AddressesOK, left'.addrs = left.addrs, walk.at = "ingest",
           NEW w, w = walk, WalkCov(w)', NEW b, b = First.addr,
           NEW row \in BOOLEAN, NEW used \in BOOLEAN, walk' = Passed(row, used),
           row \/ (b # Own /\ (db'.inc = w.inc => NoHole(b, w.from)'))
    PROVE  WalkCov(walk)'
<1> DEFINE gap == IF row \/ used THEN 0 ELSE walk.gap + 1
           cov == IF row THEN walk.covered \cup {First.addr} ELSE walk.covered
           t == Tail(walk.batch)
           v == [walk EXCEPT !.batch = t, !.gap = gap, !.covered = cov]
<1>0. /\ w \in WalkType /\ w.batch # << >> /\ w.batch \in Seq(Entry) /\ WalkOK
      /\ w.next \in Nat /\ w.gap \in Nat
  BY DEF Typed, WalkOK, WalkType
<1>1. First \in Entry /\ Len(w.batch) \in Nat \ {0} /\ First = w.batch[1]
      /\ b \in Addr
  BY <1>0, FirstEntry DEF Entry
<1>2. /\ t \in Seq(Entry) /\ Len(t) = Len(w.batch) - 1
      /\ \A i \in 1 .. Len(t) : t[i] = w.batch[i + 1]
  BY <1>0, <1>1, HeadTailProperties
<1>3. walk' = IF v.batch = << >> THEN Planned(v) ELSE v
  BY DEF Passed, First
<1>4. /\ gap \in Nat /\ gap <= w.gap + 1 /\ cov \in SUBSET Addr
      /\ w.covered \subseteq cov /\ (row => b \in cov)
  <2>1. w.covered \in SUBSET Addr
    BY <1>0 DEF WalkType
  <2>2. gap \in Nat /\ gap <= w.gap + 1
    BY <1>0
  <2>3. cov \in SUBSET Addr /\ w.covered \subseteq cov /\ (row => b \in cov)
    <3> HIDE DEF First
    <3>1. CASE row
      BY <1>1, <2>1, <3>1
    <3>2. CASE ~row
      BY <2>1, <3>2
    <3> QED BY <3>1, <3>2
  <2> QED BY <2>2, <2>3
<1> HIDE DEF gap, cov, t
<1>5. PICK q :
      /\ q = v /\ q \in WalkType /\ q.at = "ingest" /\ q.batch = t /\ q.gap = gap
      /\ q.covered = cov /\ q.scope = w.scope /\ q.next = w.next
      /\ q.width = w.width /\ q.stored = w.stored /\ q.from = w.from
      /\ q.inc = w.inc /\ q.end = w.end
  <2>1. /\ v \in WalkType /\ v.at = "ingest" /\ v.batch = t /\ v.gap = gap
        /\ v.covered = cov /\ v.scope = w.scope /\ v.next = w.next
        /\ v.width = w.width /\ v.stored = w.stored /\ v.from = w.from
        /\ v.inc = w.inc /\ v.end = w.end
    BY <1>0, <1>2, <1>4 DEF WalkType
  <2> QED BY <2>1
<1> HIDE DEF v
<1>6. Reached(q) = Reached(w) + 1 /\ Reached(w) \in Int
  BY <1>0, <1>1, <1>2, <1>5 DEF Reached
<1>7. b = <<w.scope, Reached(w)>>
  <2>1. 1 \in 1 .. Len(w.batch) /\ Reached(w) + 1 - 1 = Reached(w)
    BY <1>1, <1>6
  <2>2. w.batch[1].addr = <<w.scope, Reached(w) + 1 - 1>>
    BY <2>1 DEF WalkCov, BatchCov, Reached
  <2> QED BY <1>1, <2>1, <2>2
<1>8. /\ w.width >= 1 /\ Len(w.stored) = 2 /\ w.gap <= Reached(w)
      /\ w.end >= Birth
      /\ w.scope = 1 \/ Reached(w) > 0 => Own \in w.covered
  BY DEF WalkCov, ShapeOK, Reached
<1>9. BatchCov(q)'
  <2> SUFFICES ASSUME NEW i \in 1 .. Len(q.batch)
               PROVE  /\ q.batch[i].addr = <<q.scope, Reached(q) + i - 1>>
                      /\ Probed(q, q.batch[i])'
    BY DEF BatchCov, Reached
  <2>1. PICK j : j = i + 1
    OBVIOUS
  <2>2. j \in 1 .. Len(w.batch) /\ q.batch[i] = w.batch[j]
        /\ Reached(q) + i - 1 = Reached(w) + j - 1
    <3>1. i \in 1 .. Len(t) /\ i \in Int /\ q.batch[i] = t[i]
      BY <1>1, <1>2, <1>5
    <3>2. j \in 1 .. Len(w.batch)
      BY <1>1, <1>2, <2>1, <3>1
    <3>3. Reached(q) + i - 1 = Reached(w) + j - 1
      BY <1>6, <2>1, <3>1
    <3> QED BY <1>2, <2>1, <3>1, <3>2, <3>3
  <2>3. /\ w.batch[j].addr = <<w.scope, Reached(w) + j - 1>>
        /\ Probed(w, w.batch[j])'
    BY <2>2 DEF WalkCov, BatchCov, Reached
  <2> QED BY <1>5, <2>2, <2>3 DEF Probed
<1>10. ShapeOK(q)'
  <2>1. Reached(w) >= 0
    BY <1>0, <1>6, <1>8
  <2>2. Own \in q.covered
    <3>1. CASE Own \in w.covered
      BY <1>4, <1>5, <3>1
    <3>2. CASE ~(w.scope = 1 \/ Reached(w) > 0)
      <4>1. w.scope = 0 /\ Reached(w) = 0
        BY <1>0, <1>6, <2>1, <3>2 DEF WalkType
      <4>2. b = Own
        BY <1>7, <4>1 DEF Own
      <4> QED BY <1>4, <1>5, <4>2
    <3> QED BY <1>8, <3>1, <3>2
  <2>3. q.gap <= Reached(q)
    BY <1>0, <1>4, <1>5, <1>6, <1>8
  <2> QED BY <1>5, <1>8, <2>2, <2>3 DEF ShapeOK, Reached
<1>11. FoundOK(q)'
  <2>1. FoundOK(w)' /\ w.at # "idle"
    BY DEF WalkCov
  <2>2. ASSUME db'.inc = w.inc, NEW a \in Addr, Visited(q, a)'
        PROVE  a \in q.covered \/ NoHole(a, q.from)'
    <3>1. CASE Visited(w, a)'
      <4> HIDE DEF Visited, NoHole
      <4> QED BY <1>4, <1>5, <2>1, <2>2, <3>1 DEF FoundOK
    <3>2. CASE ~Visited(w, a)'
      <4>1. a[1] \in {0, 1} /\ a[2] \in Nat /\ a = <<a[1], a[2]>>
        BY AddrPair
      <4>2. a[1] = w.scope /\ a[2] = Reached(w)
        BY <1>5, <1>6, <2>2, <3>2, <4>1 DEF Visited, Reached
      <4>3. a = b
        BY <1>7, <4>1, <4>2
      <4>4. CASE row
        BY <1>4, <1>5, <4>3, <4>4
      <4>5. CASE ~row
        BY <1>5, <2>2, <4>3, <4>5 DEF NoHole
      <4> QED BY <4>4, <4>5
    <3> QED BY <3>1, <3>2
  <2> HIDE DEF Visited, NoHole
  <2> QED BY <1>5, <2>1, <2>2 DEF FoundOK
<1>12. WalkCov(q)'
  BY <1>9, <1>10, <1>11 DEF WalkCov
<1>13. PICK p : p = walk'
  OBVIOUS
<1>14. WalkCov(p)'
  <2>1. CASE q.batch = << >>
    <3>1. Reached(q) > 0
      BY <1>0, <1>6, <1>8
    <3>2. p = Planned(q) /\ q.at # "idle"
      BY <1>3, <1>5, <1>13, <2>1
    <3> HIDE DEF WalkCov, Reached
    <3> QED BY <1>5, <1>12, <3>1, <3>2, PlannedCov
  <2>2. CASE q.batch # << >>
    BY <1>3, <1>5, <1>12, <1>13, <2>2
  <2> QED BY <2>1, <2>2
<1> QED BY <1>13, <1>14
        DEF WalkCov, ShapeOK, FoundOK, BatchCov, Visited, Reached, Probed

(* A window of the first entry behind it, or asked for again.              *)
LEMMA SteppedCov ==
    ASSUME Typed, walk.at = "ingest", NEW w, w = walk, WalkCov(w)',
           NEW lo \in 1 .. (MaxHeight + 1), NEW mlo \in 1 .. (MaxHeight + 1),
           walk' \in Steppings(lo, mlo), NEW f, f = First,
           f.had \/ lo <= w.end,
           db'.inc = w.inc /\ ~db'.rows[f.addr].stored =>
              /\ db'.birth <= lo /\ (~left'.narrow => lo = db'.birth)
              /\ \A k \in db'.birth .. (lo - 1) : chain'[k].pays # f.addr
    PROVE  WalkCov(walk)'
<1>0. /\ w \in WalkType /\ w.batch # << >> /\ w.batch \in Seq(Entry) /\ WalkOK
      /\ db \in Db
  BY DEF Typed, WalkOK, WalkType, DbOK
<1>1. f \in Entry /\ Len(w.batch) \in Nat \ {0} /\ f = w.batch[1]
  BY <1>0, FirstEntry
<1>2. PICK p : p = walk'
  OBVIOUS
<1>3. /\ p \in WalkType /\ p.at = "ingest"
      /\ p.inc = w.inc /\ p.from = w.from /\ p.end = w.end
      /\ p.covered = w.covered /\ Len(p.batch) = Len(w.batch)
      /\ \A i \in 2 .. Len(w.batch) : p.batch[i] = w.batch[i]
      /\ p.batch[1].addr = f.addr /\ p.batch[1].lo = lo
  BY <1>0, <1>2, SteppedWalk
<1>4. PICK used \in BOOLEAN : p = Stepped(lo, mlo, used)
  BY <1>2 DEF Steppings
<1>5. /\ p.width = w.width /\ p.stored = w.stored /\ p.gap = w.gap
      /\ p.scope = w.scope /\ p.next = w.next
  BY <1>0, <1>4 DEF Stepped, WalkType
<1>6. p.batch[1].had = f.had /\ p.batch[1].skip = f.skip
  <2> DEFINE e == [f EXCEPT !.lo = lo, !.mlo = mlo, !.used = used,
                            !.trim = WalkedTrim, !.reply = NoReply]
  <2>1. p.batch = [w.batch EXCEPT ![1] = e]
    BY <1>0, <1>1, <1>4 DEF Stepped, WalkType
  <2>2. e.had = f.had /\ e.skip = f.skip
    BY <1>1 DEF Entry
  <2> HIDE DEF e
  <2>3. p.batch[1] = e
    BY <1>0, <1>1, <2>1
  <2> QED BY <2>2, <2>3
<1>7. Reached(p) = Reached(w)
  BY <1>3, <1>5 DEF Reached
<1>8. ShapeOK(p)' /\ FoundOK(p)'
  <2>1. ShapeOK(w)' /\ FoundOK(w)' /\ w.width >= 1
    BY DEF WalkCov, ShapeOK
  <2> HIDE DEF ShapeOK, FoundOK, Reached
  <2> QED BY <1>3, <1>5, <1>7, <2>1, WalkCovSame
<1>9. BatchCov(p)'
  <2> SUFFICES ASSUME NEW i \in 1 .. Len(p.batch)
               PROVE  /\ p.batch[i].addr = <<p.scope, Reached(p) + i - 1>>
                      /\ Probed(p, p.batch[i])'
    BY DEF BatchCov, Reached
  <2>1. /\ i \in 1 .. Len(w.batch)
        /\ w.batch[i].addr = <<w.scope, Reached(w) + i - 1>>
        /\ Probed(w, w.batch[i])'
    BY <1>3 DEF WalkCov, BatchCov, Reached
  <2>2. CASE i = 1
    <3>1. p.batch[i].addr = <<p.scope, Reached(p) + i - 1>>
      BY <1>1, <1>3, <1>5, <1>7, <2>1, <2>2
    <3>2. PICK e : e = p.batch[1]
      OBVIOUS
    <3>3. Probed(w, f)'
      BY <1>1, <2>1, <2>2
    <3>4. /\ f.skip => f.had
          /\ f.addr = Own => f.had
          /\ db'.inc = w.inc /\ ~db'.rows[f.addr].stored => ~f.had
      BY <3>3 DEF Probed
    <3>5. /\ e.addr = f.addr /\ e.lo = lo /\ e.had = f.had /\ e.skip = f.skip
          /\ p.inc = w.inc /\ p.end = w.end
      BY <1>3, <1>6, <3>2
    <3>6. Probed(p, e)'
      BY <3>4, <3>5 DEF Probed
    <3> QED BY <2>2, <3>1, <3>2, <3>6
  <2>3. CASE i # 1
    <3>1. i \in 2 .. Len(w.batch)
      BY <1>1, <2>1, <2>3
    <3> QED BY <1>3, <1>5, <1>7, <2>1, <3>1 DEF Probed
  <2> QED BY <2>2, <2>3
<1> QED BY <1>2, <1>8, <1>9
        DEF WalkCov, ShapeOK, FoundOK, BatchCov, Visited, Reached, Probed

(* A walk begins at the seam, with nothing visited.                        *)
LEMMA StartWalkCov ==
    ASSUME History, Typed', StartWalk
    PROVE  WalkCov(walk)'
<1>0. Typed /\ db \in Db /\ tick.at = "idle"
  BY DEF History, Typed, DbOK, StartWalk, Quiet
<1>1. /\ chain' = chain /\ db' = db /\ hdr' = hdr /\ tick' = tick
      /\ left'.forks = left.forks
  BY <1>0, SpentOK DEF StartWalk, Typed
<1>2. PICK p : p = walk'
  OBVIOUS
<1>3. /\ p.at = "plan" /\ p.inc = db.inc /\ p.from = Seam(db) /\ p.end = Tip
      /\ p.width = Width /\ p.scope = 0 /\ p.next = 0 /\ p.gap = 0
      /\ p.batch = << >> /\ p.covered = {}
      /\ p.stored = <<HighestStored(db, 0), HighestStored(db, 1)>>
  BY <1>2 DEF StartWalk, NoWalk
<1>4. Reached(p) = 0 /\ Len(p.batch) = 0 /\ Len(p.stored) = 2
  <2>1. Len(p.batch) = 0 /\ Len(p.stored) = 2 /\ p.next = 0
    BY <1>3
  <2> QED BY <2>1 DEF Reached
<1>5. /\ Seam(db) \in Height /\ Tip \in Nat /\ Birth <= Tip /\ Birth \in Nat
      /\ Width >= 1
  BY <1>0, Ranges, SyncAssumption
<1>6. ShapeOK(p)'
  BY <1>3, <1>4, <1>5 DEF ShapeOK, Reached
<1>7. BatchCov(p)'
  BY <1>4 DEF BatchCov
<1>8. ASSUME NEW k \in Height, Standing(k)' PROVE k <= Tip
  <2>1. Standing(k)
    <3>1. \A h \in Marks' : h \in Marks /\ (Stands(h)' => Stands(h))
      BY <1>1, RowsAside
    <3> QED BY <1>1, <1>8, <3>1, StandingSame
  <2>2. PICK h \in Marks : Stands(h) /\ k <= h
    BY <1>0, <2>1 DEF Standing
  <2>3. h \in Height /\ h <= Tip
    BY <1>0, <2>2, MarkHeights
  <2> QED BY <1>5, <2>2, <2>3 DEF Height
<1>9. \A a \in Addr : ~Visited(p, a)'
  <2> SUFFICES ASSUME NEW a \in Addr, Visited(p, a)' PROVE FALSE
    OBVIOUS
  <2>1. a[1] \in {0, 1} /\ a[2] \in Nat
    BY AddrPair
  <2> QED BY <1>3, <1>4, <2>1 DEF Visited, Reached
<1>10. FoundOK(p)'
  <2>1. 1 <= p.from /\ p.from <= Seam(db')
    BY <1>1, <1>3, <1>5 DEF Height
  <2> HIDE DEF Visited
  <2> QED BY <1>3, <1>8, <1>9, <2>1 DEF FoundOK
<1> QED BY <1>2, <1>6, <1>7, <1>10
        DEF WalkCov, ShapeOK, FoundOK, BatchCov, Visited, Reached, Probed

(* candidate_start: an address without a row is asked about from the       *)
(* birthday.                                                               *)
LEMMA PlanCov ==
    ASSUME Typed, UnstoredOK, AddressesOK, left'.addrs = left.addrs,
           left'.narrow = left.narrow, PlanCandidate,
           NEW w, w = walk, WalkCov(w)'
    PROVE  WalkCov(walk)'
<1> DEFINE a == <<walk.scope, walk.next>>
           r == db.rows[a]
           lo == Larger(r.marker + 1, db.birth)
           skip == r.stored /\ r.marker >= Seam(db) /\ IsUsed(db, a)
           x == [addr |-> a, had |-> r.stored, lo |-> lo, mlo |-> lo,
                 trim |-> Null, used |-> FALSE, reply |-> NoReply, skip |-> skip]
           v == [walk EXCEPT !.next = @ + 1, !.batch = Append(@, x)]
<1>0. /\ walk.at = "plan" /\ walk' = Planned(v) /\ chain' = chain /\ db' = db
      /\ db.inc = w.inc
  BY DEF PlanCandidate, SameAccount
<1>1. /\ w \in WalkType /\ a \in Addr /\ w.batch \in Seq(Entry) /\ w.next \in Nat
      /\ Len(w.batch) \in Nat
  BY <1>0, LenProperties DEF Typed, WalkOK, WalkType
<1>2. r \in RowType /\ db.birth \in 1 .. Birth
  BY <1>1 DEF Typed, DbOK, Db
<1>3. lo \in 1 .. (MaxHeight + 1) /\ (r.marker = Null => lo = db.birth)
  BY <1>2, SyncAssumption DEF RowType, Larger, Null
<1>4. skip \in BOOLEAN /\ r.stored \in BOOLEAN /\ (skip => r.stored)
  BY <1>2 DEF RowType
<1>5. NoReply \in [seam : Int, found : SUBSET Notes] /\ Null \in Int
  BY DEF NoReply, Null
<1>a. (a = Own => r.stored) /\ (~r.stored => lo = db.birth)
  BY <1>1, <1>3 DEF UnstoredOK
<1>b. a = <<w.scope, w.next>>
  OBVIOUS
<1> HIDE DEF NoReply, Null, lo, skip, a
<1>6. PICK e \in Entry : /\ e = x /\ e.lo = lo /\ e.addr = a
                         /\ e.had = r.stored /\ e.skip = skip
  <2>1. /\ x \in Entry /\ x.lo = lo /\ x.addr = a
        /\ x.had = r.stored /\ x.skip = skip
    <3> HIDE DEF r
    <3> QED BY <1>1, <1>3, <1>4, <1>5 DEF Entry
  <2> QED BY <2>1
<1> HIDE DEF x
<1>7. /\ Append(w.batch, e) \in Seq(Entry)
      /\ Len(Append(w.batch, e)) = Len(w.batch) + 1
      /\ \A i \in 1 .. Len(w.batch) : Append(w.batch, e)[i] = w.batch[i]
      /\ Append(w.batch, e)[Len(w.batch) + 1] = e
  BY <1>1, <1>6, AppendProperties
<1>8. PICK b : b = Append(w.batch, e)
  OBVIOUS
<1>9. PICK q :
        /\ q = v /\ q \in WalkType /\ q.batch = b /\ q.next = w.next + 1
        /\ q.at = "plan" /\ q.inc = w.inc /\ q.from = w.from /\ q.end = w.end
        /\ q.covered = w.covered /\ q.scope = w.scope /\ q.gap = w.gap
        /\ q.width = w.width /\ q.stored = w.stored
  <2>1. v = [w EXCEPT !.next = w.next + 1, !.batch = b]
    BY <1>6, <1>8
  <2> HIDE DEF v
  <2>2. b \in Seq(Entry) /\ w.next + 1 \in Nat
    BY <1>1, <1>7, <1>8
  <2>3. /\ v \in WalkType /\ v.batch = b /\ v.next = w.next + 1
        /\ v.at = "plan" /\ v.inc = w.inc /\ v.from = w.from /\ v.end = w.end
        /\ v.covered = w.covered /\ v.scope = w.scope /\ v.gap = w.gap
        /\ v.width = w.width /\ v.stored = w.stored
    BY <1>0, <1>1, <2>1, <2>2 DEF WalkType
  <2> QED BY <2>3
<1> HIDE DEF v
<1>10. Reached(q) = Reached(w) /\ Reached(w) + (Len(w.batch) + 1) - 1 = w.next
  BY <1>1, <1>7, <1>8, <1>9 DEF Reached
<1>11. ShapeOK(q)' /\ FoundOK(q)'
  <2>1. ShapeOK(w)' /\ FoundOK(w)' /\ w.width >= 1
    BY DEF WalkCov, ShapeOK
  <2> HIDE DEF ShapeOK, FoundOK, Reached
  <2> QED BY <1>0, <1>9, <1>10, <2>1, WalkCovSame
<1>12. Probed(q, e)'
  <2>1. w.end >= Birth /\ Birth \in Nat /\ w.end \in Int
    <3>1. w.end >= Birth
      BY <1>0 DEF WalkCov, ShapeOK
    <3> QED BY <1>1, <3>1, SyncAssumption DEF WalkType
  <2>2. db.birth <= w.end
    BY <1>2, <2>1
  <2>3. ~e.had => e.lo = db.birth
    BY <1>a, <1>6
  <2>4. db.rows[e.addr].stored => e.had
    BY <1>6 DEF r
  <2>5. (e.skip => e.had) /\ (e.addr = Own => e.had)
    BY <1>4, <1>6, <1>a
  <2>6. \A k \in db.birth .. (db.birth - 1) : FALSE
    BY <1>2
  <2>7. ~db.rows[e.addr].stored => ~e.had
    BY <1>6 DEF r
  <2>8. db.birth \in Int
    BY <1>2
  <2> QED BY <1>0, <1>9, <2>2, <2>3, <2>5, <2>6, <2>7, <2>8 DEF Probed
<1>13. BatchCov(q)'
  <2> SUFFICES ASSUME NEW i \in 1 .. Len(q.batch)
               PROVE  /\ q.batch[i].addr = <<q.scope, Reached(q) + i - 1>>
                      /\ Probed(q, q.batch[i])'
    BY DEF BatchCov, Reached
  <2>1. i \in 1 .. Len(w.batch) \/ i = Len(w.batch) + 1
    BY <1>1, <1>7, <1>8, <1>9
  <2>2. CASE i = Len(w.batch) + 1
    <3>1. q.batch[i] = e
      BY <1>7, <1>8, <1>9, <2>2
    <3>2. e.addr = <<q.scope, Reached(q) + i - 1>>
      BY <1>6, <1>9, <1>10, <1>b, <2>2
    <3> QED BY <1>12, <3>1, <3>2
  <2>3. CASE i \in 1 .. Len(w.batch)
    <3>1. q.batch[i] = w.batch[i]
      BY <1>7, <1>8, <1>9, <2>3
    <3>2. /\ w.batch[i].addr = <<w.scope, Reached(w) + i - 1>>
          /\ Probed(w, w.batch[i])'
      BY <2>3 DEF WalkCov, BatchCov, Reached
    <3> QED BY <1>9, <1>10, <3>1, <3>2 DEF Probed
  <2> QED BY <2>1, <2>2, <2>3
<1>14. PICK p : p = walk'
  OBVIOUS
<1>15. WalkCov(p)'
  <2>1. WalkCov(q)'
    BY <1>11, <1>13 DEF WalkCov
  <2>2. q.batch # << >>
    <3>1. Len(q.batch) # 0
      BY <1>1, <1>7, <1>8, <1>9
    <3> QED BY <3>1
  <2>3. p = Planned(q) /\ q.at # "idle"
    BY <1>0, <1>9, <1>14
  <2> HIDE DEF WalkCov, Reached
  <2> QED BY <1>9, <2>1, <2>2, <2>3, PlannedCov
<1> QED BY <1>14, <1>15
        DEF WalkCov, ShapeOK, FoundOK, BatchCov, Visited, Reached, Probed

(* The seam of a batch and its replies say nothing of what was visited.    *)
LEMMA FetchCov ==
    ASSUME Typed, NEW k, ReadBatchSeam \/ Prefetch(k),
           NEW w, w = walk, WalkCov(w)'
    PROVE  WalkCov(walk)'
<1>0. /\ w \in WalkType /\ w.batch \in Seq(Entry) /\ Len(w.batch) \in Nat
      /\ w.at # "idle" /\ w.width \in Int
  BY LenProperties DEF Typed, WalkOK, WalkType, ReadBatchSeam, Prefetch
<1>1. PICK p : p = walk'
  OBVIOUS
<1>2. w.width >= 1
  BY DEF WalkCov, ShapeOK
<1>3. /\ p.at # "certify" /\ p.width >= 1 /\ p.stored = w.stored
      /\ p.gap = w.gap /\ p.scope = w.scope /\ p.next = w.next
      /\ p.covered = w.covered /\ p.from = w.from /\ p.inc = w.inc
      /\ p.end = w.end /\ Len(p.batch) = Len(w.batch)
  <2>1. CASE ReadBatchSeam
    BY <1>0, <1>1, <1>2, <2>1 DEF ReadBatchSeam, WalkType
  <2>2. CASE Prefetch(k)
    <3>1. /\ p.at = "ingest" /\ Len(p.batch) = Len(w.batch)
      BY <1>1, <2>2, PrefetchEffect
    <3>2. PICK s, b : p = [w EXCEPT !.at = "ingest", !.width = s, !.batch = b]
                      /\ s = IF k = Len(w.batch) THEN w.width
                             ELSE Larger(w.width \div 2, 1)
      BY <1>1, <2>2 DEF Prefetch
    <3>3. s >= 1
      BY <1>0, <1>2, <3>2 DEF Larger
    <3>4. /\ p.width = s /\ p.stored = w.stored
          /\ p.gap = w.gap /\ p.scope = w.scope /\ p.next = w.next
          /\ p.covered = w.covered /\ p.from = w.from /\ p.inc = w.inc
          /\ p.end = w.end
      BY <1>0, <3>2 DEF WalkType
    <3> QED BY <3>1, <3>3, <3>4
  <2> QED BY <2>1, <2>2
<1>4. ASSUME NEW i \in 1 .. Len(w.batch)
      PROVE  /\ p.batch[i].addr = w.batch[i].addr /\ p.batch[i].lo = w.batch[i].lo
             /\ p.batch[i].had = w.batch[i].had /\ p.batch[i].skip = w.batch[i].skip
  <2>1. CASE ReadBatchSeam
    BY <1>0, <1>1, <2>1 DEF ReadBatchSeam, WalkType
  <2>2. CASE Prefetch(k)
    <3>1. w.batch[i] \in Entry /\ p.batch[i] \in Fetched(w.batch[i])
      BY <1>1, <1>4, <2>2, PrefetchEffect
    <3> QED BY <3>1 DEF Fetched, Entry
  <2> QED BY <2>1, <2>2
<1>5. Reached(p) = Reached(w)
  BY <1>3 DEF Reached
<1>6. ShapeOK(p)' /\ FoundOK(p)'
  <2>1. ShapeOK(w)' /\ FoundOK(w)'
    BY DEF WalkCov
  <2> HIDE DEF ShapeOK, FoundOK, Reached
  <2> QED BY <1>0, <1>3, <1>5, <2>1, WalkCovSame
<1>7. BatchCov(p)'
  <2> SUFFICES ASSUME NEW i \in 1 .. Len(p.batch)
               PROVE  /\ p.batch[i].addr = <<p.scope, Reached(p) + i - 1>>
                      /\ Probed(p, p.batch[i])'
    BY DEF BatchCov, Reached
  <2>1. /\ i \in 1 .. Len(w.batch)
        /\ w.batch[i].addr = <<w.scope, Reached(w) + i - 1>>
        /\ Probed(w, w.batch[i])'
    BY <1>3 DEF WalkCov, BatchCov, Reached
  <2>2. PICK e, f : e = p.batch[i] /\ f = w.batch[i]
    OBVIOUS
  <2>3. /\ e.addr = f.addr /\ e.lo = f.lo /\ e.had = f.had /\ e.skip = f.skip
        /\ p.inc = w.inc /\ p.end = w.end
    BY <1>3, <1>4, <2>1, <2>2
  <2>4. Probed(w, f)'
    BY <2>1, <2>2
  <2>5. Probed(p, e)'
    BY <2>3, <2>4 DEF Probed
  <2> QED BY <1>3, <1>5, <2>1, <2>2, <2>3, <2>5
<1> QED BY <1>1, <1>6, <1>7
        DEF WalkCov, ShapeOK, FoundOK, BatchCov, Visited, Reached, Probed

(* The first entry, as the walk's promises name it.                        *)
LEMMA FirstProbed ==
    ASSUME Typed, walk.at = "ingest", NEW w, w = walk, NEW f, f = First
    PROVE  /\ f \in Entry /\ f = Head(walk.batch)
           /\ BatchCov(w) => Probed(w, f)
           /\ BatchCov(w)' => Probed(w, f)'
<1>0. walk.batch # << >> /\ WalkOK
  BY DEF Typed, WalkOK
<1>1. f \in Entry /\ Len(w.batch) \in Nat \ {0} /\ f = w.batch[1]
  BY <1>0, FirstEntry
<1>2. 1 \in 1 .. Len(w.batch)
  BY <1>1
<1>3. BatchCov(w) => Probed(w, f)
  BY <1>1, <1>2 DEF BatchCov
<1>4. BatchCov(w)' => Probed(w, f)'
  BY <1>1, <1>2 DEF BatchCov
<1> QED BY <1>1, <1>3, <1>4 DEF First

(* An entry that nothing is requested for has a row.                       *)
LEMMA SkipCov ==
    ASSUME Typed, AddressesOK, left'.addrs = left.addrs, SkipCandidate,
           NEW w, w = walk, WalkCov(w)'
    PROVE  WalkCov(walk)'
<1>0. walk.at = "ingest"
  BY DEF SkipCandidate
<1>1. PICK f : f = First
  OBVIOUS
<1>2. /\ f \in Entry /\ f = Head(walk.batch) /\ Probed(w, f)'
  BY <1>0, <1>1, FirstProbed DEF WalkCov
<1>3. f.skip \/ ~(f.lo <= w.end)
  BY <1>2 DEF SkipCandidate, Requested
<1>4. f.had
  BY <1>2, <1>3 DEF Probed
<1>5. walk' = Passed(f.skip \/ f.had, FALSE)
  BY <1>2 DEF SkipCandidate
<1>6. (f.skip \/ f.had) = TRUE
  BY <1>4
<1>7. walk' = Passed(TRUE, FALSE)
  BY <1>5, <1>6, Zenon
<1>8. PICK b : b = First.addr
  OBVIOUS
<1> HIDE DEF WalkCov
<1> QED BY <1>0, <1>7, <1>8, PassedCov

(* A probed entry without a row: to the end of the walk nothing was paid.  *)
LEMMA ProbeCov ==
    ASSUME History, Calm, UnstoredOK, AddressesOK, NEW hi \in Height,
           ProbeWindow(hi), NEW w, w = walk, WalkCov(w), WalkCov(w)'
    PROVE  WalkCov(walk)'
<1>0. Typed /\ WalkRight /\ ChainOK
  BY DEF History, Typed
<1>1. /\ chain' = chain /\ db' = db /\ hdr' = hdr /\ tick' = tick /\ left' = left
      /\ InWindow(hi) /\ ~db.rows[First.addr].stored /\ Answer(hi) = {}
      /\ walk' = IF hi = walk.end THEN Passed(FALSE, First.used)
                 ELSE Stepped(hi + 1, First.mlo, First.used)
  BY DEF ProbeWindow
<1>2. /\ walk.at = "ingest" /\ tick.at = "idle" /\ db.inc = w.inc
      /\ First.lo <= hi /\ hi <= w.end /\ hi \in Nat
      /\ hi = w.end \/ (left.narrow /\ ~Replied)
  BY <1>0, <1>1, WindowEntry DEF Quiet
<1>3. PICK f : f = First
  OBVIOUS
<1>4. /\ f \in Entry /\ f.addr \in Addr /\ f.lo \in Nat \ {0} /\ f.used \in BOOLEAN
      /\ f.mlo \in 1 .. (MaxHeight + 1) /\ Probed(w, f)
  <2>1. f \in Entry /\ Probed(w, f)
    BY <1>0, <1>2, <1>3, FirstProbed DEF WalkCov
  <2> QED BY <2>1 DEF Entry
<1>5. /\ db.birth <= f.lo /\ db.birth \in Nat \ {0} /\ w.end \in Nat
      /\ \A k \in db.birth .. (f.lo - 1) : chain[k].pays # f.addr
  <2>1. db.birth \in Nat \ {0} /\ w.end \in Nat
    BY SMTT(20), <1>0, Ranges, SyncAssumption DEF Typed, WalkOK, WalkType
  <2> QED BY <1>1, <1>2, <1>3, <1>4, <2>1 DEF Probed
<1>6. CASE hi = w.end
  <2>1. walk' = Passed(FALSE, f.used)
    BY <1>1, <1>3, <1>6
  <2>2. PICK b : b = First.addr
    OBVIOUS
  <2>3. b # Own
    BY <1>1, <2>2 DEF UnstoredOK
  <2>4. NoHole(b, w.from)'
    <3> SUFFICES ASSUME NEW k \in Height, Standing(k)', db'.birth <= k, k <= w.from,
                        chain'[k].pays = b
                 PROVE  FALSE
      BY DEF NoHole
    <3>1. Standing(k)
      <4>1. \A h \in Marks' : h \in Marks /\ (Stands(h)' => Stands(h))
        BY <1>1, RowsAside
      <4> QED BY <1>1, <4>1, StandingSame
    <3>2. PICK h \in Marks : Stands(h) /\ k <= h
      BY <1>2, <3>1 DEF Standing
    <3>3. k <= hi
      BY <1>2, <1>6, <3>1 DEF WalkCov, FoundOK
    <3>4. k \in Nat /\ h \in Nat
      BY <1>0, MarkHeights DEF Height
    <3>5. k \in f.lo .. h
      <4>1. ~(k < f.lo)
        BY <1>1, <1>3, <1>4, <1>5, <2>2, <3>4
      <4> QED BY <1>4, <3>2, <3>4, <4>1
    <3>6. NoteAt(First.addr, k, chain[k]) \in Answer(hi)
      BY <1>1, <1>3, <2>2, <3>2, <3>3, <3>5, AnswerRight
    <3> QED BY <1>1, <3>6
  <2> HIDE DEF WalkCov, NoHole
  <2> QED BY <1>0, <1>1, <1>2, <1>4, <2>1, <2>2, <2>3, <2>4, PassedCov
<1>7. CASE hi # w.end
  <2>1. walk' \in Steppings(hi + 1, f.mlo)
    <3>1. walk' = Stepped(hi + 1, f.mlo, f.used)
      BY <1>1, <1>3, <1>7
    <3> QED BY <1>4, <3>1, Zenon DEF Steppings
  <2>2. left.narrow /\ Payments(f.addr, f.lo, hi) = {}
    BY <1>1, <1>2, <1>3, <1>7 DEF Answer
  <2>3. w.end <= Tip /\ Tip \in Nat
    BY <1>0, <2>2, Ranges DEF WalkRight
  <2>4. ASSUME NEW k \in db.birth .. hi PROVE chain[k].pays # f.addr
    <3>1. CASE k < f.lo
      BY <1>4, <1>5, <2>4, <3>1
    <3>2. CASE k >= f.lo
      <4>1. k \in 1 .. Tip /\ k <= hi /\ hi \in Int
        BY <1>2, <1>5, <2>3, <2>4
      <4> QED BY <1>0, <1>4, <2>2, <3>2, <4>1, PaymentsAre
    <3> QED BY <1>4, <1>5, <2>4, <3>1, <3>2
  <2>5. PICK lo \in 1 .. (MaxHeight + 1), m \in 1 .. (MaxHeight + 1) :
          lo = hi + 1 /\ m = f.mlo
    BY <1>2, <1>4, SyncAssumption DEF Height
  <2>6. /\ lo <= w.end /\ db'.birth <= lo /\ left'.narrow
        /\ \A k \in db'.birth .. (lo - 1) : chain'[k].pays # f.addr
    <3>1. lo - 1 = hi /\ lo <= w.end /\ db.birth <= lo
      BY <1>2, <1>3, <1>4, <1>5, <1>7, <2>5
    <3> QED BY <1>1, <2>2, <2>4, <3>1
  <2>7. walk' \in Steppings(lo, m)
    BY <2>1, <2>5
  <2> HIDE DEF WalkCov
  <2> QED BY <1>0, <1>2, <1>3, <2>6, <2>7, SteppedCov
<1> QED BY <1>6, <1>7

(* A window that leaves a row.                                             *)
LEMMA IngestCov ==
    ASSUME History, AddressesOK, left'.addrs = left.addrs, NEW hi \in Height,
           IngestWindow(hi) \/ IngestUndated(hi), NEW w, w = walk, WalkCov(w)'
    PROVE  WalkCov(walk)'
<1>0. Typed /\ InWindow(hi)
  BY DEF History, IngestWindow, IngestUndated
<1>2. /\ walk.at = "ingest" /\ First.lo <= hi /\ hi <= w.end /\ hi \in Nat
  BY <1>0, WindowEntry
<1>3. PICK f : f = First
  OBVIOUS
<1>4. /\ f \in Entry /\ f.addr \in Addr /\ f.lo \in 1 .. (MaxHeight + 1)
      /\ f.used \in BOOLEAN /\ f.mlo \in 1 .. (MaxHeight + 1) /\ Probed(w, f)'
  <2>1. f \in Entry /\ Probed(w, f)'
    BY <1>0, <1>2, <1>3, FirstProbed DEF WalkCov
  <2> QED BY <2>1 DEF Entry
<1>5. db'.rows[f.addr].stored
  <2>1. PICK a, m : a = First.addr
                    /\ m = IF db.rows[a].stored THEN db.rows[a].marker ELSE Null
    OBVIOUS
  <2>2. db'.rows[a].stored
    BY <1>0, <2>1, IngestEffect
  <2> QED BY <1>3, <2>1, <2>2
<1>6. w.end \in Nat
  BY <1>0, SyncAssumption DEF Typed, WalkOK, WalkType
<1>7. CASE IngestWindow(hi) /\ hi = w.end
  <2>1. walk' = Passed(TRUE, TRUE)
    BY <1>7 DEF IngestWindow
  <2>2. PICK b : b = First.addr
    OBVIOUS
  <2> HIDE DEF WalkCov
  <2> QED BY <1>0, <1>2, <2>1, <2>2, PassedCov
<1>8. CASE IngestWindow(hi) /\ hi # w.end
  <2> DEFINE u == First.used \/ Answer(hi) # {}
             m == IF Intact THEN hi + 1 ELSE First.mlo
  <2>1. walk' = Stepped(hi + 1, m, u)
    BY <1>8 DEF IngestWindow
  <2>2. u \in BOOLEAN
    BY <1>3, <1>4
  <2>3. hi + 1 \in 1 .. (MaxHeight + 1) /\ m \in 1 .. (MaxHeight + 1)
    BY <1>2, <1>3, <1>4, SyncAssumption DEF Height
  <2> HIDE DEF u, m
  <2>4. walk' \in Steppings(hi + 1, m)
    BY <2>1, <2>2, Zenon DEF Steppings
  <2>5. PICK lo \in 1 .. (MaxHeight + 1), l \in 1 .. (MaxHeight + 1) :
          lo = hi + 1 /\ l = m
    BY <2>3
  <2>6. lo <= w.end /\ walk' \in Steppings(lo, l)
    BY <1>2, <1>6, <1>8, <2>4, <2>5
  <2> HIDE DEF WalkCov
  <2> QED BY <1>0, <1>2, <1>3, <1>5, <2>6, SteppedCov
<1>9. CASE IngestUndated(hi)
  <2>1. walk' = Stepped(f.lo, f.mlo, TRUE)
    BY <1>3, <1>9 DEF IngestUndated
  <2>2. walk' \in Steppings(f.lo, f.mlo)
    BY <2>1, Zenon DEF Steppings
  <2>3. PICK lo \in 1 .. (MaxHeight + 1), l \in 1 .. (MaxHeight + 1) :
          lo = f.lo /\ l = f.mlo
    BY <1>4
  <2>4. f.had \/ lo <= w.end
    BY <1>4, <2>3 DEF Probed
  <2>5. walk' \in Steppings(lo, l)
    BY <2>2, <2>3
  <2> HIDE DEF WalkCov
  <2> QED BY <1>0, <1>2, <1>3, <1>5, <2>4, <2>5, SteppedCov
<1> QED BY <1>7, <1>8, <1>9

(* The last critical section: what the walk covered is marked through the  *)
(* seam, what it found without a row has no hole, and no other address is  *)
(* paid.                                                                   *)
LEMMA CertifyCov ==
    ASSUME History, Calm, CoverageOK, UnstoredOK, AddressesOK, WalkCov(walk),
           Certify
    PROVE  CoverageOK' /\ UnstoredOK'
<1>0. Typed /\ db \in Db /\ MarksOK /\ Seam(db) \in Int
  BY Ranges DEF History, Typed, DbOK, RowsRight, Height
<1>1. /\ walk.at = "certify" /\ tick.at = "idle" /\ db.inc = walk.inc
      /\ \A a \in walk.covered : db.rows[a].stored /\ db.rows[a].marker >= Seam(db)
      /\ db' = WrittenCoverage(db, GapLimit, walk.from)
      /\ chain' = chain /\ hdr' = hdr /\ tick' = tick
  BY DEF Certify, Quiet, SameAccount
<1>2. PICK f \in Nat : f = walk.from
  BY <1>0 DEF Typed, WalkOK, WalkType
<1>3. /\ db'.rows = db.rows /\ db'.notes = db.notes /\ db'.wit = db.wit
      /\ db'.trims = db.trims /\ db'.birth = db.birth
      /\ db'.hT = db.hT /\ db'.hS = db.hS
      /\ db'.cov.trim = db.trims /\ db'.cov.from = f
  BY <1>0, <1>1, <1>2, CoverageDb, SyncAssumption
<1>4. Seam(db') = Seam(db)
  BY <1>3 DEF Seam
<1>5. UnstoredOK'
  BY <1>3 DEF UnstoredOK
<1>6. /\ 1 <= f /\ f <= Seam(db) /\ Own \in walk.covered
      /\ \A a \in left.addrs : a[2] <= GapLimit => Visited(walk, a)
      /\ \A a \in Addr : Visited(walk, a) => a \in walk.covered \/ NoHole(a, f)
  BY <1>1, <1>2 DEF WalkCov, ShapeOK, FoundOK
<1>7. f <= db.rows[Own].marker
  <2>1. Own \in Addr /\ db.rows[Own].marker \in Int
    BY <1>0, StoreAssumption DEF Db, RowType, Null, Own
  <2> QED BY <1>0, <1>1, <1>6, <2>1
<1>8. ASSUME NEW a \in Addr, a[2] <= GapLimit PROVE NoHole(a, f)
  <2> SUFFICES ASSUME NEW k \in Height, Standing(k), db.birth <= k, k <= f,
                      chain[k].pays = a
               PROVE  NoteAt(a, k, chain[k]) \in db.notes
    BY DEF NoHole
  <2>1. PICK h \in Marks : Stands(h) /\ k <= h
    BY <1>1 DEF Standing
  <2>2. h \in Height /\ h <= Tip /\ Tip \in Nat
    BY <1>0, <2>1, MarkHeights, Ranges
  <2>3. k \in 1 .. h /\ k \in 1 .. Tip
    BY <2>1, <2>2 DEF Height
  <2>4. a \in left.addrs
    BY <2>3, SyncAssumption DEF AddressesOK
  <2>5. Visited(walk, a)
    BY <1>6, <1>8, <2>4
  <2>6. CASE NoHole(a, f)
    BY <2>6 DEF NoHole
  <2>7. CASE a \in walk.covered
    <3>1. Good(db, k, chain[k], {})
      BY <1>0, <2>1, <2>3 DEF MarksOK
    <3>2. Covers(db, a, k)
      <4>1. db.rows[a].stored /\ db.rows[a].marker >= Seam(db)
        BY <1>1, <2>7
      <4>2. db.rows[a].marker \in Int /\ k \in Int
        BY <1>0 DEF Db, RowType, Null, Height
      <4> QED BY <1>0, <1>6, <4>1, <4>2 DEF Covers
    <3> QED BY <3>1, <3>2 DEF Good
  <2> QED BY <1>6, <2>5, <2>6, <2>7
<1>9. \A k \in Height : Standing(k)' => Standing(k)
  <2>1. \A h \in Marks' : h \in Marks /\ (Stands(h)' => Stands(h))
    BY <1>1, <1>3, <1>4 DEF Marks, Stands, HashAt, Tip
  <2> QED BY <1>1, <2>1, StandingSame
<1>10. ASSUME NEW a \in Addr, a[2] <= GapLimit PROVE NoHole(a, f)'
  <2>1. NoHole(a, f)
    BY <1>8, <1>10
  <2> HIDE DEF Standing
  <2> QED BY <1>1, <1>3, <1>9, <2>1 DEF NoHole
<1>11. CoverageOK'
  <2>1. db'.cov.trim <= db'.trims
    BY <1>0, <1>3 DEF Db
  <2>2. /\ 1 <= db'.cov.from /\ db'.cov.from <= Seam(db')
        /\ db'.cov.from <= db'.rows[Own].marker
    BY <1>3, <1>4, <1>6, <1>7
  <2>3. \A a \in Addr : a[2] <= GapLimit => NoHole(a, db.cov.from)'
    BY <1>3, <1>10 DEF NoHole
  <2> QED BY <2>1, <2>2, <2>3 DEF CoverageOK, NoHole
<1> QED BY <1>5, <1>11

\* The inductive invariant of the certificate.
Coverage ==
    History /\ CoverageOK /\ UnstoredOK /\ AddressesOK /\ WalkCov(walk)

(* A restored account is not certified.                                    *)
LEMMA InitCoverage ==
    ASSUME Init PROVE Coverage
<1>1. History
  BY InitRight
<1>2. /\ db = Restored(Birth, 0) /\ walk = NoWalk /\ left \in Budgets
      /\ Birth \in 1 .. Birth /\ Own \in Addr
      /\ chain \in [1 .. Birth -> [fork : {left.forks},
                                   pays : left.payees \cup {NoAddr}]]
  BY SyncAssumption, StoreAssumption DEF Init, Own
<1>3. /\ db.trims = 0 /\ db.cov = NoCoverage
      /\ \A a \in Addr : /\ db.rows[a].marker = Null
                         /\ db.rows[a].stored <=> a = Own
  BY <1>2, RestoredDb
<1>4. CoverageOK /\ UnstoredOK
  BY <1>2, <1>3 DEF CoverageOK, UnstoredOK, Certified, NoCoverage, Null
<1>5. AddressesOK
  <2>1. Tip = Birth
    <3>1. Birth \in Nat
      BY SyncAssumption
    <3>2. DOMAIN chain = 1 .. Birth
      BY <1>2
    <3>3. chain \in Seq(Block)
      BY <1>1 DEF History, Typed, ChainOK
    <3> QED BY <3>1, <3>2, <3>3 DEF Tip
  <2>2. \A k \in 1 .. Tip : chain[k].pays \in left.payees \cup {NoAddr}
    BY <1>2, <2>1
  <2> QED BY <1>2, <2>2, AddressAssumption DEF AddressesOK
<1>6. WalkCov(walk)
  <2>1. PICK w : w = NoWalk /\ w = walk
    BY <1>2
  <2>2. /\ w.at = "idle" /\ w.batch = << >> /\ w.width = 1 /\ w.gap = 0
        /\ w.next = 0 /\ w.scope = 0 /\ Len(w.stored) = 2 /\ Len(w.batch) = 0
    BY <2>1 DEF NoWalk
  <2>3. Reached(w) = 0
    <3>1. w.next = 0 /\ Len(w.batch) = 0
      BY <2>2
    <3> QED BY <3>1 DEF Reached
  <2>4. ShapeOK(w) /\ FoundOK(w) /\ BatchCov(w)
    BY <2>2, <2>3 DEF ShapeOK, FoundOK, BatchCov
  <2> QED BY <2>1, <2>4 DEF WalkCov
<1> QED BY <1>1, <1>4, <1>5, <1>6 DEF Coverage

(* A step of the walk.                                                     *)
LEMMA CoverageWalk ==
    ASSUME Coverage, Calm, Typed', AddressesOK', left'.addrs = left.addrs,
           left'.narrow = left.narrow, Walk
    PROVE  CoverageOK' /\ UnstoredOK' /\ WalkCov(walk)'
<1> USE DEF Coverage
<1>0. /\ History /\ Typed /\ CoverageOK /\ UnstoredOK /\ AddressesOK
      /\ WalkCov(walk)
  BY DEF History
<1>1. PICK w : w = walk
  OBVIOUS
<1>2. WalkCov(w)
  BY <1>0, <1>1
<1>3. ASSUME chain' = chain, db' = db, hdr' = hdr, tick' = tick,
             left'.forks = left.forks
      PROVE  CoverageOK' /\ UnstoredOK' /\ WalkCov(w)'
  <2>1. Onward
    BY <1>0, <1>3, OnwardAside
  <2> HIDE DEF Onward, WalkCov
  <2>2. CoverageOK' /\ UnstoredOK'
    BY <1>0, <2>1, CoverageOnward
  <2>3. WalkCov(w)'
    BY <1>0, <1>1, <1>2, <1>3, <2>1, WalkCovOnward
  <2> QED BY <2>2, <2>3
<1>4. CASE StartWalk \/ FailWalk
  <2>1. chain' = chain /\ db' = db /\ hdr' = hdr /\ tick' = tick
        /\ left'.forks = left.forks
    BY <1>0, <1>4, SpentOK DEF StartWalk, FailWalk, Failing, Typed
  <2>2. CoverageOK' /\ UnstoredOK'
    BY <1>3, <2>1
  <2>3. CASE StartWalk
    BY <1>0, <2>2, <2>3, StartWalkCov
  <2>4. CASE FailWalk
    BY <2>2, <2>4, WalkCovNone DEF FailWalk
  <2> QED BY <1>4, <2>3, <2>4
<1>5. ASSUME NEW k, NEW hi \in Height,
             PlanCandidate \/ ReadBatchSeam \/ Prefetch(k) \/ SkipCandidate
                \/ ProbeWindow(hi)
      PROVE  CoverageOK' /\ UnstoredOK' /\ WalkCov(walk)'
  <2>1. chain' = chain /\ db' = db /\ hdr' = hdr /\ tick' = tick
        /\ left'.forks = left.forks
    BY <1>5 DEF PlanCandidate, ReadBatchSeam, Prefetch, SkipCandidate, ProbeWindow
  <2>2. CoverageOK' /\ UnstoredOK' /\ WalkCov(w)'
    BY <1>3, <2>1
  <2> HIDE DEF WalkCov
  <2>3. CASE PlanCandidate
    BY <1>0, <1>1, <2>2, <2>3, PlanCov
  <2>4. CASE ReadBatchSeam \/ Prefetch(k)
    BY <1>0, <1>1, <2>2, <2>4, FetchCov
  <2>5. CASE SkipCandidate
    BY <1>0, <1>1, <2>2, <2>5, SkipCov
  <2>6. CASE ProbeWindow(hi)
    BY <1>0, <1>1, <1>2, <2>2, <2>6, ProbeCov
  <2> QED BY <1>5, <2>3, <2>4, <2>5, <2>6
<1>6. ASSUME NEW hi \in Height, IngestWindow(hi) \/ IngestUndated(hi)
      PROVE  CoverageOK' /\ UnstoredOK' /\ WalkCov(walk)'
  <2>1. Onward
    BY <1>0, <1>6, OnwardIngest
  <2>2. chain' = chain
    BY <1>6 DEF IngestWindow, IngestUndated
  <2> HIDE DEF Onward, WalkCov
  <2>3. CoverageOK' /\ UnstoredOK'
    BY <1>0, <2>1, CoverageOnward
  <2>4. WalkCov(w)'
    BY <1>0, <1>1, <1>2, <2>1, <2>2, WalkCovOnward
  <2>5. WalkCov(walk)'
    BY <1>0, <1>1, <1>6, <2>4, IngestCov
  <2> QED BY <2>3, <2>5
<1>7. CASE Certify
  <2>1. CoverageOK' /\ UnstoredOK'
    <3> HIDE DEF WalkCov
    <3> QED BY <1>0, <1>7, CertifyCov
  <2>2. WalkCov(walk)'
    BY <1>7, WalkCovNone DEF Certify
  <2> QED BY <2>1, <2>2
<1>8. Birth \in Height
  BY SyncAssumption DEF Height
<1> QED BY <1>4, <1>5, <1>6, <1>7, <1>8 DEF Walk

(* A step that leaves the walk alone.                                      *)
LEMMA CoverageAside ==
    ASSUME Coverage, Calm, Typed', left'.addrs = left.addrs,
           left'.narrow = left.narrow, walk' = walk,
           \/ db'.inc = db.inc + 1
           \/ Onward /\ (chain' = chain \/ Mine \/ \E g \in Height : Fork(g))
    PROVE  WalkCov(walk)'
<1>0. History /\ Typed /\ WalkRight /\ WalkCov(walk)
  BY DEF Coverage, History
<1>1. CASE db'.inc = db.inc + 1
  <2> HIDE DEF WalkCov
  <2> QED BY <1>0, <1>1, WalkCovRetired
<1>2. CASE Onward /\ (chain' = chain \/ Mine \/ \E g \in Height : Fork(g))
  <2>1. PICK w : w = walk /\ w = walk'
    OBVIOUS
  <2>2. WalkCov(w)
    BY <1>0, <2>1
  <2>3. WalkCov(w)'
    <3> HIDE DEF WalkCov, Onward
    <3> QED BY <1>0, <1>2, <2>1, <2>2, WalkCovOnward
  <2> QED BY <2>1, <2>3
          DEF WalkCov, ShapeOK, FoundOK, BatchCov, Visited, Reached, Probed
<1> QED BY <1>1, <1>2

(* Every step keeps the certificate.                                       *)
LEMMA CoverageStep ==
    ASSUME Coverage, Calm, History', [Next]_vars
    PROVE  Coverage'
<1>0. /\ History /\ Typed /\ Typed' /\ CoverageOK /\ UnstoredOK /\ AddressesOK
      /\ db \in Db
  BY DEF Coverage, History, Typed, DbOK
<1>1. /\ AddressesOK' /\ left'.addrs = left.addrs /\ left'.narrow = left.narrow
  BY <1>0, AddressesStep
<1>2. ASSUME Onward, walk' = walk, chain' = chain \/ Mine \/ \E g \in Height : Fork(g)
      PROVE  Coverage'
  <2>1. WalkCov(walk)'
    <3> HIDE DEF Coverage, Onward, WalkCov
    <3> QED BY <1>0, <1>1, <1>2, CoverageAside
  <2>2. CoverageOK' /\ UnstoredOK'
    <3> HIDE DEF Coverage, Onward, WalkCov
    <3> QED BY <1>0, <1>2, CoverageOnward
  <2> QED BY <1>1, <2>1, <2>2 DEF Coverage
<1>3. CASE Mine \/ \E g \in Height : Fork(g)
  <2>1. walk' = walk
    BY <1>3 DEF Mine, Fork
  <2> QED BY <1>0, <1>2, <1>3, <2>1, OnwardChain
<1>4. CASE Tick /\ ~MeetReorg
  <2>1. walk' = walk /\ chain' = chain
    BY <1>4 DEF Tick, StartTick, OpenAnchor, StartAddress, ScanWindow,
       ScanWindowUndated, ClosePass, CommitChunk, FailTick
  <2> QED BY <1>0, <1>2, <1>4, <2>1, OnwardTick
<1>5. CASE MeetReorg
  <2>1. PICK x : x = tick.cur
    OBVIOUS
  <2>2. /\ x \in Height /\ db' = RewoundSync(db, x)
        /\ hdr' = [k \in Height |-> IF k > x THEN NoHash ELSE hdr[k]]
        /\ tick'.at = "idle" /\ walk' = walk /\ chain' = chain
    BY <1>0, <1>5, <2>1, TickHeights, IdleTypes DEF MeetReorg
  <2>3. CoverageOK' /\ UnstoredOK'
    BY <1>0, <2>2, CoverageRewind
  <2>4. db'.inc = db.inc + 1
    <3>1. PICK e : e = db'
      OBVIOUS
    <3>2. x \in Nat /\ RowsOK(db)
      BY <1>0, <2>2 DEF Height, Typed, DbOK
    <3> QED BY <1>0, <2>2, <3>1, <3>2, RewoundRows
  <2>5. WalkCov(walk)'
    BY <1>0, <1>1, <2>2, <2>4, CoverageAside
  <2> QED BY <1>1, <2>3, <2>5 DEF Coverage
<1>6. CASE Walk
  <2>1. CoverageOK' /\ UnstoredOK' /\ WalkCov(walk)'
    BY <1>0, <1>1, <1>6, CoverageWalk
  <2> QED BY <1>1, <2>1 DEF Coverage
<1>7. CASE HostStep
  <2>1. CoverageOK' /\ UnstoredOK'
    BY <1>0, <1>7, CoverageHost
  <2>2. walk' = walk /\ chain' = chain
    BY <1>7 DEF HostStep, HostRewind, HostReset, HostReplace, HostBirth,
       HostAddress, Host
  <2>3. db'.inc = db.inc + 1 \/ Onward
    <3>1. PICK d, e : d = db /\ e = db'
      OBVIOUS
    <3>2. d \in Db /\ RowsOK(d)
      BY <1>0, <3>1 DEF Typed, DbOK
    <3>3. ASSUME NEW x \in Height, HostRewind(x) PROVE e.inc = d.inc + 1
      <4>1. x \in Nat /\ e = RewoundSync(d, x)
        BY <3>1, <3>3 DEF HostRewind, Height
      <4> QED BY <3>2, <4>1, RewoundRows
    <3>4. CASE HostReset
      <4>1. e = ResetSync(d)
        BY <3>1, <3>4 DEF HostReset
      <4> QED BY <3>1, <3>2, <4>1, ResetDb
    <3>5. CASE HostReplace
      <4>1. e = Restored(d.birth, d.inc + 1) /\ d.birth \in 1 .. Birth
            /\ d.inc + 1 \in Nat
        BY <3>1, <3>2, <3>5 DEF HostReplace, Replaced, Db
      <4> QED BY <3>1, <4>1, RestoredDb
    <3>6. ASSUME NEW b \in Births, HostBirth(b) PROVE e.inc = d.inc + 1
      <4>1. e = MovedBirth(d, b) /\ b \in 1 .. Birth
        BY <3>1, <3>6, SyncAssumption DEF HostBirth
      <4> QED BY <3>2, <4>1, MovedBirthDb
    <3>7. ASSUME NEW op, NEW scope, HostAddress(op, scope) PROVE Onward
      BY <1>0, <3>7, OnwardAddress
    <3> HIDE DEF Onward
    <3> QED BY <1>7, <3>1, <3>3, <3>4, <3>5, <3>6, <3>7 DEF HostStep
  <2>4. WalkCov(walk)'
    <3> HIDE DEF Onward, WalkCov
    <3> QED BY <1>0, <1>1, <2>2, <2>3, CoverageAside
  <2> QED BY <1>1, <2>1, <2>4 DEF Coverage
<1>8. CASE UNCHANGED vars
  <2>1. /\ chain' = chain /\ db' = db /\ hdr' = hdr /\ tick' = tick
        /\ left' = left /\ walk' = walk
    BY <1>8 DEF vars
  <2>2. Onward
    BY <1>0, <2>1, OnwardAside
  <2> QED BY <1>2, <2>1, <2>2
<1> QED BY <1>3, <1>4, <1>5, <1>6, <1>7, <1>8 DEF Next

(* The inductive invariant of the certificate.                             *)
THEOREM SpecCoverage == ~LateForks /\ Calm => (Spec => []Coverage)
<1> SUFFICES ASSUME ~LateForks, Calm PROVE Spec => []Coverage
  OBVIOUS
<1>1. Init => Coverage
  BY InitCoverage
<1>2. Coverage /\ History' /\ [Next]_vars => Coverage'
  BY CoverageStep
<1> QED BY <1>1, <1>2, SpecHistory, PTL DEF Spec

(* A certified account has no hole: whatever ticks, forks, failures and    *)
(* rewinds came before, during and after the walk, every payment up to the *)
(* seam it began at, to any address within the gap limit, with a row or    *)
(* without, is a note as long as the certificate is in force               *)
(* (discover_transparent_addresses, write_transparent_coverage, tcov_trim).*)
THEOREM CertifiedIsWhole ==
    ~LateForks /\ Calm => (Spec => []CertifiedHasNoHole)
<1> SUFFICES ASSUME ~LateForks, Calm PROVE Spec => []CertifiedHasNoHole
  OBVIOUS
<1>1. Coverage => CertifiedHasNoHole
  <2> SUFFICES ASSUME Coverage, Agrees, Certified(db), NEW a \in Addr,
                      a[2] <= GapLimit, NEW n \in Payments(a, db.birth, db.cov.from)
               PROVE  n \in db.notes
    BY DEF CertifiedHasNoHole
  <2>1. Typed /\ ChainOK /\ CoverageOK
    BY DEF Coverage, History, Typed
  <2>2. PICK f \in Nat, b \in Nat \ {0} : f = db.cov.from /\ b = db.birth
    BY <2>1, Ranges DEF Typed, DbOK, Db
  <2>3. f <= Seam(db) /\ NoHole(a, f)
    BY <2>1, <2>2 DEF CoverageOK
  <2>4. PICK k \in 1 .. Tip : /\ n = NoteAt(a, k, chain[k]) /\ chain[k].pays = a
                              /\ b <= k /\ k <= f
    <3>1. n \in Notes /\ n.addr = a /\ b <= n.height /\ n.height <= f
          /\ n.height \in 1 .. Tip /\ n.fork = chain[n.height].fork
          /\ chain[n.height].pays = a
      BY <2>1, <2>2, PaymentsAre
    <3>2. n = NoteAt(a, n.height, chain[n.height])
      BY <3>1 DEF Notes, NoteAt
    <3> QED BY <3>1, <3>2
  <2>5. k \in Height /\ k <= Seam(db)
    BY <2>1, <2>3, <2>4, Ranges DEF Height
  <2>6. Standing(k)
    BY <2>1, <2>5, MarkHeights DEF Standing, Agrees, Stands
  <2> QED BY <2>2, <2>3, <2>4, <2>5, <2>6 DEF NoHole
<1> QED BY <1>1, SpecCoverage, PTL
=============================================================================
