--------------------------- MODULE ReserveProofs ---------------------------
(* Safety of Reserve for every set of accounts, notes, transactions and    *)
(* callers.  The inductive invariant is TypeOK with ClaimHeldUntilExpiry:  *)
(* the two properties below follow from it in a single state.              *)
EXTENDS Reserve, TLAPS

(* Every variable keeps its type, whatever the bounds.                     *)
THEOREM TypeCorrect == Spec => []TypeOK
<1>1. Init => TypeOK
  BY ConstantsAssumption DEF Init, TypeOK, OptHeight, Height, NoHeight, CallState, Idle
<1>2. TypeOK /\ [Next]_vars => TypeOK'
  <2> SUFFICES ASSUME TypeOK, [Next]_vars PROVE TypeOK'
    OBVIOUS
  <2> USE ConstantsAssumption DEF TypeOK, OptHeight, Height, NoHeight
  <2>1. CASE UNCHANGED vars
    BY <2>1 DEF vars
  <2>2. ASSUME NEW c \in Caller, NEW a \in Account, NEW t \in Tx,
               NEW own \in OwnInputs, CheckExpiry(c, a, t, own)
        PROVE  TypeOK'
    <3>1. call' \in [Caller -> CallState]
      BY <2>2 DEF CheckExpiry, CallState, Idle
    <3> QED BY <2>2, <3>1 DEF CheckExpiry, noteVars
  <2>3. ASSUME NEW c \in Caller, Claim(c) PROVE TypeOK'
    <3>1. /\ call[c].account \in Account /\ call[c].tx \in Tx
          /\ call[c].scanned \in OptHeight
      BY <2>3 DEF Claim, CallState, Idle
    <3>2. OwnedInputs(call[c].account, call[c].tx) \subseteq Input
      BY <3>1 DEF OwnedInputs
    <3>3. holder' \in [Account -> [Input -> Tx \cup {NoTx}]]
      BY <2>3, <3>1, <3>2 DEF Claim
    <3>4. pendingAt' \in [Account -> [Tx -> OptHeight]]
      BY <2>3, <3>1 DEF Claim
    <3>5. granted' \subseteq Grant
      BY <2>3, <3>1 DEF Claim, Grant
    <3>6. call' \in [Caller -> CallState]
      BY <2>3 DEF Claim, CallState
    <3> QED BY <2>3, <3>3, <3>4, <3>5, <3>6 DEF Claim, noteVars
  <2>4. ASSUME NEW c \in Caller, AcceptForeign(c) \/ Refuse(c) PROVE TypeOK'
    <3>1. call' \in [Caller -> CallState]
      BY <2>4 DEF AcceptForeign, Refuse, CallState
    <3> QED BY <2>4, <3>1 DEF AcceptForeign, Refuse, noteVars
  <2>5. ASSUME NEW a \in Account, NEW found \in SUBSET Input,
               NEW t \in Tx \cup {NoTx}, Scan(a, found, t)
        PROVE  TypeOK'
    <3>1. height[a] + 1 \in Height
      BY <2>5 DEF Scan
    <3>2. /\ height' \in [Account -> OptHeight]
          /\ noteAt' \in [Account -> [Input -> OptHeight]]
          /\ spentBy' \in [Account -> [Input -> Tx \cup {NoTx}]]
          /\ spentAt' \in [Account -> [Input -> Height]]
          /\ granted' \subseteq Grant
      BY <2>5, <3>1 DEF Scan
    <3>3. ASSUME NEW b \in Account, NEW i \in Input,
                 i \in locked'[b] \/ spentBy'[b][i] # NoTx
          PROVE  noteAt'[b][i] # NoHeight
      <4>1. CASE b # a
        BY <2>5, <3>3, <4>1 DEF Scan
      <4>2. CASE b = a /\ noteAt[a][i] # NoHeight
        BY <2>5, <3>1, <4>2 DEF Scan, HasRow
      <4>3. CASE b = a /\ noteAt[a][i] = NoHeight
        BY <2>5, <3>1, <3>3, <4>3 DEF Scan, HasRow
      <4> QED BY <4>1, <4>2, <4>3
    <3> QED BY <2>5, <3>2, <3>3 DEF Scan
  <2>6. ASSUME NEW a \in Account, NEW h \in Height, Rewind(a, h) PROVE TypeOK'
    BY <2>6 DEF Rewind
  <2>7. ASSUME NEW a \in Account, MergePending(a) PROVE TypeOK'
    BY <2>7 DEF MergePending, noteVars
  <2>8. ASSUME NEW a \in Account, Locks(a) PROVE TypeOK'
    <3> DEFINE Rows == {i \in Input : noteAt[a][i] # NoHeight}
    <3>1. ASSUME NEW s \in SUBSET Rows, SetLocked(a, s) PROVE TypeOK'
      BY <3>1 DEF SetLocked
    <3>2. locked[a] \subseteq Rows
      OBVIOUS
    <3>3. PICK s \in SUBSET Rows : SetLocked(a, s)
      <4> HIDE DEF TypeOK, OptHeight, Height, NoHeight
      <4>1. \A i \in Input : HasRow(a, i) => i \in Rows
        BY DEF HasRow
      <4> HIDE DEF Rows
      <4> QED BY <2>8, <3>2, <4>1, Zenon
              DEF Locks, LockNote, ToggleAll, UnlockAll, LockRecent
    <3> QED BY <3>1, <3>3
  <2>9. ASSUME NEW a \in Account, DeleteAccount(a) PROVE TypeOK'
    BY <2>9 DEF DeleteAccount
  <2>10. ASSUME NEW a \in Account, RestoreAccount(a) PROVE TypeOK'
    BY <2>10 DEF RestoreAccount, noteVars
  <2>11. CASE Crash
    BY <2>11 DEF Crash, CallState, noteVars
  <2> QED
    BY <2>1, <2>2, <2>3, <2>4, <2>5, <2>6, <2>7, <2>8, <2>9, <2>10, <2>11
    DEF Next, Broadcast, ScanStep
<1> QED BY <1>1, <1>2, PTL DEF Spec

(* A granted claim stays the stored reservation while it is unexpired: the *)
(* upsert of claim_inputs takes over a row only when the view no longer    *)
(* lists it, and no other operation but account deletion touches the row.  *)
THEOREM ClaimsHeld == Spec => []ClaimHeldUntilExpiry
<1>1. Init => ClaimHeldUntilExpiry
  BY DEF Init, ClaimHeldUntilExpiry
<1>2. TypeOK /\ ClaimHeldUntilExpiry /\ [Next]_vars => ClaimHeldUntilExpiry'
  <2> SUFFICES ASSUME TypeOK, ClaimHeldUntilExpiry, [Next]_vars,
                      NEW g \in granted'
               PROVE  /\ g.known => holder'[g.account][g.input] = g.tx
                      /\ Unexpired(g.tx, Scanned(g.account)')
    BY DEF ClaimHeldUntilExpiry, Scanned
  <2> DEFINE Held == /\ g.known => holder[g.account][g.input] = g.tx
                     /\ Unexpired(g.tx, Scanned(g.account))
             Goal == /\ g.known => holder'[g.account][g.input] = g.tx
                     /\ Unexpired(g.tx, Scanned(g.account)')
  <2>0. g \in granted => Held
    BY DEF ClaimHeldUntilExpiry
  <2>00. g \in granted => /\ g.account \in Account /\ g.input \in Input /\ g.tx \in Tx
                       /\ g.known \in BOOLEAN
    BY DEF TypeOK, Grant
  <2> SUFFICES Goal
    OBVIOUS
  <2>1. CASE UNCHANGED <<holder, height, granted>>
    BY <2>1, <2>0 DEF Scanned
  <2>2. ASSUME NEW c \in Caller, Claim(c) PROVE Goal
    <3> DEFINE a == call[c].account
               t == call[c].tx
               owned == OwnedInputs(a, t)
    <3>1. a \in Account /\ t \in Tx
      BY <2>2 DEF Claim, TypeOK, CallState, Idle
    <3>2. /\ owned \subseteq Input
          /\ \A i \in owned : Claimable(a, t, i)
          /\ height' = height
          /\ holder' = [holder EXCEPT ![a] =
                           [i \in Input |-> IF i \in owned THEN t ELSE @[i]]]
      BY <2>2, <3>1, ConstantsAssumption DEF Claim, noteVars, OwnedInputs
    <3> DEFINE New == /\ g \in [account: {a}, input: Inputs[t], tx: {t}, known: BOOLEAN]
                      /\ g.known = (g.input \in owned)
                      /\ Unexpired(t, Scanned(a))
    <3>3. g \in granted \/ New
      BY <2>2 DEF Claim
    <3>4. Scanned(g.account)' = Scanned(g.account)
      BY <3>2 DEF Scanned
    <3>5. CASE New
      <4>1. g.account = a /\ g.tx = t /\ (g.known => g.input \in owned)
        BY <3>5
      <4> QED BY <3>1, <3>2, <3>4, <3>5, <4>1 DEF TypeOK
    <3>6. CASE g \in granted /\ ~(g.account = a /\ g.input \in owned)
      BY <2>0, <2>00, <3>1, <3>2, <3>4, <3>6 DEF TypeOK
    <3>7. CASE g \in granted /\ ~g.known
      BY <2>0, <3>4, <3>7
    <3>8. CASE g \in granted /\ g.known /\ g.account = a /\ g.input \in owned
      <4>1. holder[a][g.input] = g.tx /\ Unexpired(g.tx, Scanned(a))
        BY <2>0, <3>8
      <4>2. Active(a, g.input)
        BY <2>00, <3>8, <4>1, ConstantsAssumption DEF Active
      <4>3. g.tx = t
        BY <2>00, <3>2, <3>8, <4>1, <4>2, ConstantsAssumption DEF Claimable
      <4> QED BY <2>00, <3>1, <3>2, <3>4, <3>8, <4>1, <4>3 DEF TypeOK
    <3> QED BY <3>3, <3>5, <3>6, <3>7, <3>8, <2>00
  <2>3. ASSUME NEW a \in Account, NEW found \in SUBSET Input,
               NEW t \in Tx \cup {NoTx}, Scan(a, found, t)
        PROVE  Goal
    <3>1. g \in granted /\ holder' = holder
      BY <2>3 DEF Scan
    <3>2. CASE g.account = a
      <4>1. Scanned(a)' = height[a] + 1
        BY <2>3 DEF Scan, Scanned, TypeOK, OptHeight, Height, NoHeight
      <4> QED BY <2>0, <2>3, <3>1, <3>2, <4>1 DEF Scan
    <3>3. CASE g.account # a
      <4>1. Scanned(g.account)' = Scanned(g.account)
        BY <2>3, <3>1, <3>3, <2>00 DEF Scan, Scanned, TypeOK
      <4> QED BY <2>0, <3>1, <4>1
    <3> QED BY <3>2, <3>3
  <2>4. ASSUME NEW a \in Account, NEW h \in Height, Rewind(a, h) PROVE Goal
    <3>1. g \in granted /\ holder' = holder
      BY <2>4 DEF Rewind
    <3>2. Scanned(g.account)' <= Scanned(g.account)
      BY <2>4, <3>1, <2>00, ConstantsAssumption
      DEF Rewind, Scanned, TypeOK, OptHeight, Height, NoHeight
    <3> QED
      BY <2>0, <2>00, <3>1, <3>2, ConstantsAssumption, <2>4
      DEF Unexpired, Rewind, Scanned, TypeOK, OptHeight, Height, NoHeight
  <2>5. ASSUME NEW a \in Account, DeleteAccount(a) PROVE Goal
    <3>1. g \in granted /\ g.account # a
      BY <2>5 DEF DeleteAccount
    <3> QED BY <2>0, <2>00, <2>5, <3>1 DEF DeleteAccount, Scanned, TypeOK
  <2>6. ASSUME NEW a \in Account, RestoreAccount(a) PROVE Goal
    <3>1. g \in granted /\ holder' = holder
      BY <2>6 DEF RestoreAccount
    <3>2. Scanned(g.account)' = Scanned(g.account)
      BY <2>6, <2>00, <3>1 DEF RestoreAccount, Scanned, TypeOK, NoHeight
    <3> QED BY <2>0, <3>1, <3>2
  <2>7. ASSUME NEW c \in Caller, NEW a \in Account, NEW t \in Tx, NEW own \in OwnInputs,
               CheckExpiry(c, a, t, own)
        PROVE  UNCHANGED <<holder, height, granted>>
    BY <2>7 DEF CheckExpiry
  <2>8. ASSUME NEW c \in Caller, AcceptForeign(c) \/ Refuse(c)
        PROVE  UNCHANGED <<holder, height, granted>>
    BY <2>8 DEF AcceptForeign, Refuse
  <2>9. ASSUME NEW a \in Account, MergePending(a) \/ Locks(a)
        PROVE  UNCHANGED <<holder, height, granted>>
    BY <2>9, Zenon
    DEF MergePending, Locks, LockNote, ToggleAll, UnlockAll, LockRecent, SetLocked
  <2>10. Crash \/ UNCHANGED vars => UNCHANGED <<holder, height, granted>>
    BY DEF Crash, vars
  <2> QED
    BY <2>1, <2>2, <2>3, <2>4, <2>5, <2>6, <2>7, <2>8, <2>9, <2>10
    DEF Next, Broadcast, ScanStep
<1> QED BY <1>1, <1>2, TypeCorrect, PTL DEF Spec

(* Two live transactions let through by the wallet spend one input only if *)
(* the account had no note row for it when one of them was let through.    *)
THEOREM ClaimsNeverCompete == Spec => []NoCompetingClaims
<1>1. ClaimHeldUntilExpiry => NoCompetingClaims
  BY DEF ClaimHeldUntilExpiry, NoCompetingClaims
<1> QED BY <1>1, ClaimsHeld, PTL

(* The planner is never offered a note that a live claim covers.           *)
THEOREM ClaimedNotesNotOffered == Spec => []PlannerNeverOffersClaimed
<1>1. TypeOK /\ ClaimHeldUntilExpiry => PlannerNeverOffersClaimed
  <2> SUFFICES ASSUME TypeOK, ClaimHeldUntilExpiry, NEW g \in granted, g.known
               PROVE  g.input \notin Available(g.account)
    BY DEF PlannerNeverOffersClaimed
  <2>1. g.tx # NoTx
    BY ConstantsAssumption DEF TypeOK, Grant
  <2>2. Active(g.account, g.input)
    BY <2>1 DEF ClaimHeldUntilExpiry, Active
  <2> QED BY <2>2 DEF Available
<1> QED BY <1>1, ClaimsHeld, TypeCorrect, PTL
=============================================================================
