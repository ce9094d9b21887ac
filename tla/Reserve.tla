------------------------------ MODULE Reserve ------------------------------
(***************************************************************************)
(* Input reservation before a broadcast: rust/rlz/src/pay/reserve.rs, the  *)
(* view active_pending_spend_inputs of rust/rlz/src/db.rs and the          *)
(* operations that move the rows it joins (scan, rewind, manual locks,     *)
(* account deletion).                                                      *)
(*                                                                         *)
(* A broadcast is two steps of one caller: get_sync_height runs before the *)
(* database transaction opens, so a scan or a rewind may land between the  *)
(* expiry check and the claim.  Several callers run at once.               *)
(*                                                                         *)
(* A transaction is its set of inputs and its expiry height; bytes,        *)
(* branches and proofs are left out.  An input is the nullifier of a       *)
(* shielded note or the outpoint of a transparent one.                     *)
(***************************************************************************)
EXTENDS Integers, FiniteSets

CONSTANTS
    Account,      \* account ids of the wallet
    Input,        \* nullifiers and outpoints
    Tx,           \* transactions a host may broadcast
    Inputs,       \* Inputs[t]: what t spends
    Expiry,       \* Expiry[t]: its expiry height, 0 for "never"
    Receives,     \* <<a, i>> such that a scan may find note i in account a
    Caller,       \* concurrent broadcast or reserveForBroadcast calls
    NoTx,         \* no transaction
    PendingKeep,  \* blocks a pending_txs record outlives (100 in the code)
    MaxHeight,    \* bound: the highest scanned height
    MaxRewinds    \* bound: number of rewinds

ASSUME ConstantsAssumption ==
    /\ Inputs \in [Tx -> SUBSET Input]
    /\ Expiry \in [Tx -> Nat]
    /\ Receives \subseteq Account \X Input
    /\ NoTx \notin Tx
    /\ PendingKeep \in Nat
    /\ MaxHeight \in Nat
    /\ MaxRewinds \in Nat

VARIABLES
    height,    \* MIN(sync_heights.height) of each account, NoHeight without rows
    noteAt,    \* height of the note row, NoHeight when there is no row
    locked,    \* notes.locked
    spentBy,   \* the transaction the spends row names, NoTx without one
    spentAt,   \* height of the spends row
    holder,    \* pending_spend_inputs.owner_txid, NoTx without a row
    pendingAt, \* pending_txs.height, NoHeight without a row
    call,      \* what each caller is doing
    granted,   \* history: inputs of transactions let through, unexpired ever since
    rewinds    \* number of rewinds so far

vars == <<height, noteAt, locked, spentBy, spentAt, holder, pendingAt, call,
          granted, rewinds>>
noteVars == <<noteAt, locked, spentBy, spentAt>>

NoHeight == -1
OwnInputs == {"required", "optional"}
Idle == [at |-> "idle"]

\* One input of a transaction let through; known: the account had its note row.
Grant == [account: Account, input: Input, tx: Tx, known: BOOLEAN]

Height == 0 .. MaxHeight
OptHeight == Height \cup {NoHeight}

CallState ==
    {Idle} \cup [at: {"checked"}, account: Account, tx: Tx, own: OwnInputs,
                 scanned: OptHeight]

TypeOK ==
    /\ height \in [Account -> OptHeight]
    /\ noteAt \in [Account -> [Input -> OptHeight]]
    /\ locked \in [Account -> SUBSET Input]
    /\ spentBy \in [Account -> [Input -> Tx \cup {NoTx}]]
    /\ spentAt \in [Account -> [Input -> Height]]
    /\ holder \in [Account -> [Input -> Tx \cup {NoTx}]]
    /\ pendingAt \in [Account -> [Tx -> OptHeight]]
    /\ call \in [Caller -> CallState]
    /\ granted \subseteq Grant
    /\ rewinds \in 0 .. MaxRewinds
    \* A lock is a column of a note row and a spends row refers to one.
    /\ \A a \in Account, i \in Input :
          i \in locked[a] \/ spentBy[a][i] # NoTx => noteAt[a][i] # NoHeight

-----------------------------------------------------------------------------
(* What the rows say.                                                      *)

\* COALESCE(MIN(height), 0) of the view.
Scanned(a) == IF height[a] = NoHeight THEN 0 ELSE height[a]

Unexpired(t, h) == Expiry[t] = 0 \/ Expiry[t] > h

\* Mutant of Active: the expiry is compared with the next block.
ActiveEarly(a, i) ==
    holder[a][i] # NoTx /\ Unexpired(holder[a][i], Scanned(a) + 1)

\* Mutant of Active: the view forgets to compare the expiry height.
ActiveForever(a, i) == holder[a][i] # NoTx

\* A row of active_pending_spend_inputs.
Active(a, i) == holder[a][i] # NoTx /\ Unexpired(holder[a][i], Scanned(a))

HasRow(a, i) == noteAt[a][i] # NoHeight

\* The notes fetch_unspent_notes offers to the planner.
Available(a) ==
    {i \in Input : /\ HasRow(a, i)
                   /\ spentBy[a][i] = NoTx
                   /\ i \notin locked[a]
                   /\ ~Active(a, i)}

\* validate_owned_inputs lets the transaction through.
InputsValid(a, t) ==
    \A i \in Inputs[t], b \in Account :
        HasRow(b, i) => /\ b = a
                        /\ i \notin locked[a]
                        /\ spentBy[a][i] \in {NoTx, t}

OwnedInputs(a, t) == {i \in Inputs[t] : HasRow(a, i)}

ReservedByAnother(a, t) == \E i \in Inputs[t] : Active(a, i) /\ holder[a][i] # t

\* Mutant of Claimable: the upsert without its WHERE clause.
ClaimableAlways(a, t, i) == TRUE

\* The upsert of claim_inputs changes one row for each owned input.
Claimable(a, t, i) == holder[a][i] \in {NoTx, t} \/ ~Active(a, i)

-----------------------------------------------------------------------------
Init ==
    /\ height = [a \in Account |-> 0]
    /\ noteAt = [a \in Account |-> [i \in Input |-> NoHeight]]
    /\ locked = [a \in Account |-> {}]
    /\ spentBy = [a \in Account |-> [i \in Input |-> NoTx]]
    /\ spentAt = [a \in Account |-> [i \in Input |-> 0]]
    /\ holder = [a \in Account |-> [i \in Input |-> NoTx]]
    /\ pendingAt = [a \in Account |-> [t \in Tx |-> NoHeight]]
    /\ call = [c \in Caller |-> Idle]
    /\ granted = {}
    /\ rewinds = 0

(* reserve_parsed_transaction up to connection.begin(): an expired         *)
(* transaction is refused and the call returns.                            *)
CheckExpiry(c, a, t, own) ==
    /\ call[c] = Idle
    /\ height[a] # NoHeight => Unexpired(t, height[a])
    /\ call' = [call EXCEPT ![c] = [at |-> "checked", account |-> a, tx |-> t,
                                    own |-> own, scanned |-> height[a]]]
    /\ UNCHANGED <<height, noteVars, holder, pendingAt, granted, rewinds>>

(* The database transaction commits claims and the pending record.         *)
Claim(c) ==
    LET a == call[c].account
        t == call[c].tx
        owned == OwnedInputs(a, t)
    IN  /\ call[c].at = "checked"
        /\ InputsValid(a, t)
        /\ owned # {}
        /\ \A i \in owned : Claimable(a, t, i)
        /\ holder' = [holder EXCEPT ![a] =
                        [i \in Input |-> IF i \in owned THEN t ELSE @[i]]]
        /\ pendingAt' = [pendingAt EXCEPT ![a][t] =
                           IF call[c].scanned = NoHeight THEN 0 ELSE call[c].scanned]
        /\ granted' = granted \cup
                        {g \in [account: {a}, input: Inputs[t], tx: {t}, known: BOOLEAN] :
                            g.known = (g.input \in owned) /\ Unexpired(t, Scanned(a))}
        /\ call' = [call EXCEPT ![c] = Idle]
        /\ UNCHANGED <<height, noteVars, rewinds>>

(* No owned input: an optional reservation succeeds without writing.       *)
AcceptForeign(c) ==
    LET a == call[c].account
        t == call[c].tx
    IN  /\ call[c].at = "checked"
        /\ InputsValid(a, t)
        /\ OwnedInputs(a, t) = {}
        /\ call[c].own = "optional"
        /\ ~ReservedByAnother(a, t)
        /\ call' = [call EXCEPT ![c] = Idle]
        /\ UNCHANGED <<height, noteVars, holder, pendingAt, granted, rewinds>>

(* Every other outcome of the transaction is an error and rolls back.      *)
Refuse(c) ==
    LET a == call[c].account
        t == call[c].tx
        owned == OwnedInputs(a, t)
    IN  /\ call[c].at = "checked"
        /\ \/ ~InputsValid(a, t)
           \/ owned = {} /\ (call[c].own = "required" \/ ReservedByAnother(a, t))
           \/ \E i \in owned : ~Claimable(a, t, i)
        /\ call' = [call EXCEPT ![c] = Idle]
        /\ UNCHANGED <<height, noteVars, holder, pendingAt, granted, rewinds>>

(* The process dies: callers are gone, committed rows stay.                *)
Crash ==
    /\ \E c \in Caller : call[c] # Idle
    /\ call' = [c \in Caller |-> Idle]
    /\ UNCHANGED <<height, noteVars, holder, pendingAt, granted, rewinds>>

-----------------------------------------------------------------------------
(* The sync engine moves the seam by one block.  It may find notes of the  *)
(* account and one mined transaction, own or foreign, that spends them.    *)
Scan(a, found, t) ==
    LET h == height[a] + 1
        seen == {i \in found : ~HasRow(a, i)}
        spends(i) == /\ t # NoTx
                     /\ i \in Inputs[t]
                     /\ HasRow(a, i) \/ i \in seen
                     /\ spentBy[a][i] = NoTx
    IN  /\ height[a] # NoHeight
        /\ h <= MaxHeight
        /\ t # NoTx => /\ Expiry[t] = 0 \/ Expiry[t] >= h
                       /\ \A i \in Inputs[t] : spentBy[a][i] = NoTx
        /\ height' = [height EXCEPT ![a] = h]
        /\ noteAt' = [noteAt EXCEPT ![a] =
                        [i \in Input |-> IF i \in seen THEN h ELSE @[i]]]
        /\ spentBy' = [spentBy EXCEPT ![a] =
                         [i \in Input |-> IF spends(i) THEN t ELSE @[i]]]
        /\ spentAt' = [spentAt EXCEPT ![a] =
                         [i \in Input |-> IF spends(i) THEN h ELSE @[i]]]
        /\ granted' = {g \in granted : g.account = a => Unexpired(g.tx, h)}
        /\ UNCHANGED <<locked, holder, pendingAt, call, rewinds>>

\* Mutant of Rewind: the reservations of the trimmed notes go with them.
RewindForgets(a, h) ==
    /\ h < height[a]
    /\ rewinds < MaxRewinds
    /\ rewinds' = rewinds + 1
    /\ height' = [height EXCEPT ![a] = h]
    /\ LET kept(i) == HasRow(a, i) /\ noteAt[a][i] <= h
       IN  /\ noteAt' = [noteAt EXCEPT ![a] =
                           [i \in Input |-> IF kept(i) THEN @[i] ELSE NoHeight]]
           /\ holder' = [holder EXCEPT ![a] =
                            [i \in Input |-> IF kept(i) THEN @[i] ELSE NoTx]]
    /\ locked' = [locked EXCEPT ![a] = {}]
    /\ spentBy' = [spentBy EXCEPT ![a] = [i \in Input |-> NoTx]]
    /\ spentAt' = [spentAt EXCEPT ![a] = [i \in Input |-> 0]]
    /\ UNCHANGED <<pendingAt, call, granted>>

(* trim_sync_data to h: note and spend rows above h go, reservations stay. *)
Rewind(a, h) ==
    /\ h < height[a]
    /\ rewinds < MaxRewinds
    /\ rewinds' = rewinds + 1
    /\ height' = [height EXCEPT ![a] = h]
    /\ LET kept(i) == HasRow(a, i) /\ noteAt[a][i] <= h
           spent(i) == kept(i) /\ spentBy[a][i] # NoTx /\ spentAt[a][i] <= h
       IN  /\ noteAt' = [noteAt EXCEPT ![a] =
                           [i \in Input |-> IF kept(i) THEN @[i] ELSE NoHeight]]
           /\ locked' = [locked EXCEPT ![a] = {i \in @ : kept(i)}]
           /\ spentBy' = [spentBy EXCEPT ![a] =
                            [i \in Input |-> IF spent(i) THEN @[i] ELSE NoTx]]
           /\ spentAt' = [spentAt EXCEPT ![a] =
                            [i \in Input |-> IF spent(i) THEN @[i] ELSE 0]]
    /\ UNCHANGED <<holder, pendingAt, call, granted>>

(* merge_pending_txs at the end of a sync that reached the seam.           *)
MergePending(a) ==
    /\ height[a] # NoHeight
    /\ \E t \in Tx : /\ pendingAt[a][t] # NoHeight
                     /\ pendingAt[a][t] < height[a] - PendingKeep
    /\ pendingAt' = [pendingAt EXCEPT ![a] =
                       [t \in Tx |-> IF @[t] < height[a] - PendingKeep THEN NoHeight
                                     ELSE @[t]]]
    /\ UNCHANGED <<height, noteVars, holder, call, granted, rewinds>>

(* lock_note, toggle_all_notes, unlock_all_notes and lock_recent_notes.    *)
SetLocked(a, s) ==
    /\ locked' = [locked EXCEPT ![a] = s]
    /\ locked' # locked
    /\ UNCHANGED <<height, noteAt, spentBy, spentAt, holder, pendingAt, call,
                   granted, rewinds>>

LockNote(a, i, on) ==
    /\ HasRow(a, i)
    /\ SetLocked(a, IF on THEN locked[a] \cup {i} ELSE locked[a] \ {i})

ToggleAll(a) == SetLocked(a, {i \in Input : HasRow(a, i)} \ locked[a])

UnlockAll(a) == SetLocked(a, {})

LockRecent(a, above) ==
    SetLocked(a, locked[a] \cup {i \in Input : HasRow(a, i) /\ noteAt[a][i] > above})

(* delete_account drops every row; new_account may reuse the id.           *)
DeleteAccount(a) ==
    /\ height[a] # NoHeight
    /\ height' = [height EXCEPT ![a] = NoHeight]
    /\ noteAt' = [noteAt EXCEPT ![a] = [i \in Input |-> NoHeight]]
    /\ locked' = [locked EXCEPT ![a] = {}]
    /\ spentBy' = [spentBy EXCEPT ![a] = [i \in Input |-> NoTx]]
    /\ spentAt' = [spentAt EXCEPT ![a] = [i \in Input |-> 0]]
    /\ holder' = [holder EXCEPT ![a] = [i \in Input |-> NoTx]]
    /\ pendingAt' = [pendingAt EXCEPT ![a] = [t \in Tx |-> NoHeight]]
    /\ granted' = {g \in granted : g.account # a}
    /\ UNCHANGED <<call, rewinds>>

RestoreAccount(a) ==
    /\ height[a] = NoHeight
    /\ height' = [height EXCEPT ![a] = 0]
    /\ UNCHANGED <<noteVars, holder, pendingAt, call, granted, rewinds>>

-----------------------------------------------------------------------------
Broadcast(c) ==
    \/ \E a \in Account, t \in Tx, own \in OwnInputs : CheckExpiry(c, a, t, own)
    \/ Claim(c)
    \/ AcceptForeign(c)
    \/ Refuse(c)

ScanStep(a) ==
    \E found \in SUBSET {i \in Input : <<a, i>> \in Receives},
       t \in Tx \cup {NoTx} : Scan(a, found, t)

Locks(a) ==
    \/ \E i \in Input, on \in BOOLEAN : LockNote(a, i, on)
    \/ ToggleAll(a)
    \/ UnlockAll(a)
    \/ \E h \in Height : LockRecent(a, h)

Next ==
    \/ \E c \in Caller : Broadcast(c)
    \/ \E a \in Account :
          \/ ScanStep(a)
          \/ \E h \in Height : Rewind(a, h)
          \/ MergePending(a)
          \/ Locks(a)
          \/ DeleteAccount(a)
          \/ RestoreAccount(a)
    \/ Crash

Spec == Init /\ [][Next]_vars

\* The host keeps syncing and the chain keeps growing up to the bound.
FairSpec == Spec /\ \A a \in Account : WF_height(ScanStep(a))

-----------------------------------------------------------------------------
(* Two transactions that were both let through (claim_inputs) and have     *)
(* both stayed unexpired ever since spend the same input only if one of    *)
(* them was let through while the account had no note row for it: a rewind *)
(* had removed the row, or no scan had found it yet.  The row is what      *)
(* protects an input, nothing else: a reservation without a row is asked   *)
(* for only when no input of the transaction is recognised                 *)
(* (reserve.rs:139), so a transaction with one recognised note is let      *)
(* through beside a pending one that holds its other input.  With the row  *)
(* there, no scan, rewind, lock, retry or crash lets two through.          *)
NoCompetingClaims ==
    \A g1, g2 \in granted :
        g1.account = g2.account /\ g1.input = g2.input /\ g1.tx # g2.tx
            => ~g1.known \/ ~g2.known

(* fetch_unspent_notes never offers the planner a note that a transaction  *)
(* claimed earlier and still may spend: not after a rewind dropped the row *)
(* and a rescan brought it back, not after a lock was toggled.             *)
PlannerNeverOffersClaimed ==
    \A g \in granted : g.known => g.input \notin Available(g.account)

(* A note that is claimed is the row of pending_spend_inputs until the     *)
(* scanned height reaches its expiry: no step overwrites or drops it.      *)
ClaimHeldUntilExpiry ==
    \A g \in granted : /\ g.known => holder[g.account][g.input] = g.tx
                       /\ Unexpired(g.tx, Scanned(g.account))

\* The transaction keeps a note of the account from the planner.
Holds(a, t) == \E i \in Input : holder[a][i] = t /\ Active(a, i)

(* A transaction with an expiry height does not hold notes forever: the    *)
(* view stops listing all of them once the wallet keeps scanning, whatever *)
(* was retried, rewound or claimed again meanwhile.                        *)
ReservationsAreReleased ==
    \A a \in Account, t \in {u \in Tx : Expiry[u] # 0} : Holds(a, t) ~> ~Holds(a, t)
=============================================================================
