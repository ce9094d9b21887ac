--------------------------- MODULE MempoolProofs ---------------------------
(***************************************************************************)
(* Safety of Mempool for every number of wallets, collections and host     *)
(* threads, and its refinement of Subscription.                            *)
(***************************************************************************)
EXTENDS Mempool, TLAPS

USE MempoolAssumption

-----------------------------------------------------------------------------
(* The inductive invariant.                                                *)

\* A collection that has not started has no run.
Fresh ==
    \A f \in Flow : flow[f].at \in {"new", "checked"} =>
        reader[f] = "none" /\ f \notin cancelled /\ sent[f] = 0 /\ flow[f].last = 0

\* The run in the slot is not cancelled, and its collection has not passed
\* its own stop.
InSlot ==
    \A f \in Flow : slot = f =>
        /\ f \notin cancelled /\ reader[f] # "none"
        /\ \/ flow[f].at \in {"ready", "polls", "gone"}
           \/ flow[f].at = "stops" /\ stop[f] = Taking

\* A collection that polls without its run lost it to a stop.
LostToAStop ==
    \A f \in Flow : flow[f].at \in {"ready", "polls"} => slot = f \/ f \in cancelled

\* Who waits for a run is alone to do so, and has cancelled it.
OneJoiner ==
    /\ \A p \in Caller, r \in Flow : stop[p] = Joining(r) => r \in cancelled
    /\ \A p, q \in Caller, r \in Flow :
          stop[p] = Joining(r) /\ stop[q] = Joining(r) => p = q

\* A cancelled reader's verdict finds no queue.
NoCleanQueued ==
    \A r \in Flow : \A i \in 1 .. Len(queue[r]) : queue[r][i].kind # "clean"

\* Only a collection in its finally block and a wallet being closed stop a run.
Idle ==
    /\ \A f \in Flow : flow[f].at # "stops" => stop[f] = NoStop
    /\ \A w \in Wallet : wallet[w] = "open" => stop[w] = NoStop

IInv ==
    /\ TypeOK /\ Fresh /\ InSlot /\ LostToAStop /\ OneJoiner /\ NoCleanQueued /\ Idle
    /\ NoStrandedReader /\ NothingLost /\ CleanMeansStopped

-----------------------------------------------------------------------------
(* Records and sequences.                                                  *)

(* Moving a collection to another state of its coroutine leaves the rest   *)
(* of its record (ZcashWallet.kt mempool flow).                            *)
LEMMA FlowRecs ==
    ASSUME NEW r \in FlowRec
    PROVE  /\ r.at \in FlowState /\ r.out \in Outcome
           /\ r.leaves \in BOOLEAN /\ r.last \in 0 .. MaxEvents
           /\ \A a \in FlowState :
                /\ [r EXCEPT !.at = a] \in FlowRec
                /\ [r EXCEPT !.at = a].at = a
                /\ [r EXCEPT !.at = a].out = r.out
                /\ [r EXCEPT !.at = a].last = r.last
BY DEF FlowRec

(* A collection that returns from an emission has taken the report it was  *)
(* given.                                                                  *)
LEMMA FlowUpdates ==
    ASSUME NEW r \in FlowRec, NEW n \in 0 .. MaxEvents
    PROVE  /\ [r EXCEPT !.at = "ready", !.last = n] \in FlowRec
           /\ [r EXCEPT !.at = "ready", !.last = n].at = "ready"
           /\ [r EXCEPT !.at = "ready", !.last = n].out = r.out
           /\ [r EXCEPT !.at = "ready", !.last = n].last = n
BY DEF FlowRec, FlowState

(* A collection that leaves by an exception keeps the reports it had.      *)
LEMMA Gones ==
    ASSUME NEW f \in Flow, flow[f] \in FlowRec
    PROVE  /\ Gone(f) \in FlowRec /\ Gone(f).at = "gone" /\ Gone(f).out = "thrown"
           /\ Gone(f).last = flow[f].last
BY DEF Gone, FlowRec, FlowState, Outcome

(* The states of a stop: none, holding the slot's lock, joining one        *)
(* reader.                                                                 *)
LEMMA StopStates ==
    /\ NoStop \in StopState /\ Taking \in StopState
    /\ NoStop # Taking
    /\ \A r \in Flow : /\ Joining(r) \in StopState
                       /\ Joining(r) # NoStop /\ Joining(r) # Taking
                       /\ Joining(r).at = "join" /\ Joining(r).run = r
    /\ \A r, q \in Flow : Joining(r) = Joining(q) => r = q
    /\ \A s \in StopState : s.at = "join" => s.run \in Flow /\ s = Joining(s.run)
<1>1. NoStop # Taking /\ \A r \in Flow : Joining(r) # NoStop /\ Joining(r) # Taking
  <2>1. NoStop.at = "idle" /\ Taking.at = "take" BY DEF NoStop, Taking
  <2>2. \A r \in Flow : Joining(r).at = "join" BY DEF Joining
  <2> QED BY <2>1, <2>2
<1>2. \A r \in Flow : Joining(r).at = "join" /\ Joining(r).run = r BY DEF Joining
<1>3. \A s \in StopState : s.at = "join" => \E r \in Flow : s = Joining(r)
  BY DEF StopState, NoStop, Taking
<1>4. \A s \in StopState : s.at = "join" => s.run \in Flow /\ s = Joining(s.run)
  BY <1>2, <1>3
<1>5. \A r, q \in Flow : Joining(r) = Joining(q) => r = q BY <1>2
<1>6. /\ NoStop \in StopState /\ Taking \in StopState
      /\ \A r \in Flow : Joining(r) \in StopState
  BY DEF StopState
<1> QED BY <1>1, <1>2, <1>4, <1>5, <1>6

\* What a send leaves in the queues.
LEMMA QueueAppend ==
    ASSUME TypeOK, NEW r \in Flow, NEW e \in Event
    PROVE  /\ Queued(r, e) \in [Flow -> Seq(Event)]
           /\ \A q \in Flow : q # r \/ slot # r => Queued(r, e)[q] = queue[q]
           /\ slot = r => /\ Len(Queued(r, e)[r]) = Len(queue[r]) + 1
                          /\ Queued(r, e)[r][Len(queue[r]) + 1] = e
                          /\ \A i \in 1 .. Len(queue[r]) :
                                Queued(r, e)[r][i] = queue[r][i]
BY DEF TypeOK, Queued

\* What a receive leaves in a queue.
LEMMA QueueTail ==
    ASSUME NEW q \in Seq(Event), q # << >>
    PROVE  /\ Tail(q) \in Seq(Event) /\ Head(q) \in Event /\ Head(q) = q[1]
           /\ Len(Tail(q)) = Len(q) - 1 /\ Len(q) \in Nat \ {0}
           /\ \A i \in 1 .. Len(q) - 1 : Tail(q)[i] = q[i + 1]
OBVIOUS

(* Reports and verdicts are told apart by their kind, so a report never    *)
(* ends a collection.                                                      *)
LEMMA EventKinds ==
    /\ \A n \in 1 .. MaxEvents : ReportAt(n) \in Event /\ ReportAt(n) \notin Verdict
    /\ \A k \in {"clean", "error"} : [kind |-> k, n |-> 0] \in Verdict
    /\ \A e \in Verdict : e \in Event /\ e.kind # "report"
    /\ \A n \in 1 .. MaxEvents : ReportAt(n).kind = "report" /\ ReportAt(n).n = n
    /\ \A e \in Event : e.kind = "report" => e.n \in 1 .. MaxEvents
BY DEF ReportAt, Verdict, Event, Report

(* No run, no reader, empty queues.                                        *)
LEMMA InitIInv == Init => IInv
<1> SUFFICES ASSUME Init PROVE IInv OBVIOUS
<1>1. TypeOK
  <2>1. flow \in [Flow -> FlowRec]
    BY DEF Init, FlowRec, FlowState, Outcome
  <2>2. queue \in [Flow -> Seq(Event)] BY DEF Init
  <2> QED BY <2>1, <2>2, StopStates DEF Init, TypeOK, Run, ReaderState, WalletState
<1>2. Fresh /\ InSlot /\ LostToAStop /\ Idle
  BY DEF Init, Fresh, InSlot, LostToAStop, Idle, Caller
<1>3. OneJoiner BY StopStates DEF Init, OneJoiner
<1>4. NoCleanQueued BY DEF Init, NoCleanQueued
<1>5. NoStrandedReader /\ NothingLost /\ CleanMeansStopped
  BY DEF Init, NoStrandedReader, Live, NothingLost, Alone, CleanMeansStopped
<1> QED BY <1>1, <1>2, <1>3, <1>4, <1>5 DEF IInv

(* The reader.                                                             *)
LEMMA ReaderKeeps ==
    ASSUME IInv, NEW r \in Flow, Reader(r)
    PROVE  IInv'
<1>1. CASE Ask(r) \/ ReadTx(r)
  <2>1. /\ reader[r] \in {"ask", "stream"}
        /\ reader' = [reader EXCEPT ![r] = IF reader[r] = "ask" THEN "open" ELSE "stream"]
        /\ sent[r] < MaxEvents
        /\ sent' = IF slot = r THEN [sent EXCEPT ![r] = @ + 1] ELSE sent
        /\ queue' = Queued(r, ReportAt(sent[r] + 1))
        /\ UNCHANGED <<slot, cancelled, flow, stop, walletVars, shared>>
    BY <1>1 DEF Ask, ReadTx, ReaderStep, ReaderReports
  <2>2. sent[r] \in 0 .. MaxEvents BY DEF IInv, TypeOK
  <2>3. ReportAt(sent[r] + 1) \in Event BY <2>1, <2>2, EventKinds
  <2>q. /\ queue' \in [Flow -> Seq(Event)]
        /\ \A q \in Flow : q # r \/ slot # r => queue'[q] = queue[q]
        /\ slot = r => /\ Len(queue'[r]) = Len(queue[r]) + 1
                       /\ queue'[r][Len(queue[r]) + 1] = ReportAt(sent[r] + 1)
                       /\ \A i \in 1 .. Len(queue[r]) : queue'[r][i] = queue[r][i]
    BY SMTT(20), <2>1, <2>3, QueueAppend DEF IInv
  <2>4. TypeOK' BY <2>1, <2>2, <2>3, <2>q DEF IInv, TypeOK, ReaderState, walletVars
  <2>5. (Fresh /\ InSlot /\ LostToAStop /\ OneJoiner /\ Idle)'
    BY <2>1 DEF IInv, TypeOK, Fresh, InSlot, LostToAStop, OneJoiner, Idle, walletVars
  <2>6. NoCleanQueued'
    <3> SUFFICES ASSUME NEW q \in Flow, NEW i \in 1 .. Len(queue'[q])
                 PROVE  queue'[q][i].kind # "clean"
      BY DEF NoCleanQueued
    <3>1. CASE q = r /\ slot = r
      <4>1. CASE i = Len(queue[r]) + 1
        BY <2>1, <2>2, <2>3, <3>1, <4>1, <2>q, EventKinds DEF IInv
      <4>2. CASE i # Len(queue[r]) + 1
        <5>1. Len(queue[r]) \in Nat BY DEF IInv, TypeOK
        <5>2. i \in 1 .. Len(queue[r]) /\ queue'[r][i] = queue[r][i]
          BY <2>q, <3>1, <4>2, <5>1
        <5> QED BY <3>1, <5>2 DEF IInv, NoCleanQueued
      <4> QED BY <4>1, <4>2
    <3>2. CASE q # r \/ slot # r
      BY <2>1, <2>3, <3>2, <2>q DEF IInv, TypeOK, NoCleanQueued
    <3> QED BY <3>1, <3>2
  <2>7. NoStrandedReader' /\ CleanMeansStopped'
    BY <2>1 DEF IInv, TypeOK, NoStrandedReader, Live, CleanMeansStopped
  <2>8. NothingLost'
    <3> SUFFICES ASSUME NEW f \in Flow, Alone(f)' PROVE AllQueued(f)'
      BY DEF NothingLost
    <3>1. Alone(f) /\ AllQueued(f) BY <2>1 DEF IInv, NothingLost, Alone
    <3>2. CASE f # r
      BY <2>1, <2>3, <3>1, <3>2, <2>q DEF IInv, TypeOK, Alone, AllQueued, Due
    <3>3. CASE f = r
      <4>1. flow[r].last \in 0 .. MaxEvents BY FlowRecs DEF IInv, TypeOK
      <4>2. Len(queue[r]) = Due(r) /\ reader'[r] # "ended"
        BY <2>1, <3>1, <3>3 DEF AllQueued, IInv, TypeOK
      <4>3. slot = r BY <3>1, <3>3 DEF Alone
      <4>4. sent'[r] = sent[r] + 1 /\ flow' = flow
        BY <2>1, <4>3 DEF IInv, TypeOK
      <4>5. Due(r)' = Due(r) + 1 /\ Due(r) \in Int BY <2>2, <4>1, <4>4 DEF Due
      <4>6. ReportAt(flow[r].last + (Due(r) + 1)) = ReportAt(sent[r] + 1)
        BY <2>2, <4>1 DEF Due
      <4>7. /\ Len(queue'[r]) = Due(r) + 1
            /\ queue'[r][Due(r) + 1] = ReportAt(sent[r] + 1)
            /\ \A i \in 1 .. Due(r) : queue'[r][i] = queue[r][i]
        BY <4>2, <4>3, <2>q
      <4>8. \A i \in 1 .. Due(r) + 1 : queue'[r][i] = ReportAt(flow[r].last + i)
        <5> SUFFICES ASSUME NEW i \in 1 .. Due(r) + 1
                     PROVE  queue'[r][i] = ReportAt(flow[r].last + i)
          OBVIOUS
        <5>1. CASE i = Due(r) + 1 BY <5>1, <4>6, <4>7
        <5>2. CASE i # Due(r) + 1
          <6>1. \A j \in 1 .. Due(r) : queue[r][j] = ReportAt(flow[r].last + j)
            BY <3>1, <3>3 DEF AllQueued
          <6>2. i \in 1 .. Due(r) BY <5>2, <4>5
          <6> QED BY <6>1, <6>2, <4>7
        <5> QED BY <5>1, <5>2
      <4> QED BY <3>3, <4>2, <4>4, <4>5, <4>7, <4>8 DEF AllQueued
    <3> QED BY <3>2, <3>3
  <2> QED BY <2>4, <2>5, <2>6, <2>7, <2>8 DEF IInv
<1>2. CASE OpenStream(r) \/ StreamEnds(r)
  <2>1. /\ reader[r] \in {"open", "stream"}
        /\ reader' = [reader EXCEPT ![r] = IF reader[r] = "open" THEN "stream" ELSE "ask"]
        /\ UNCHANGED <<slot, sent, queue, cancelled, flow, stop, walletVars, shared>>
    BY <1>2 DEF OpenStream, StreamEnds, ReaderStep
  <2>2. TypeOK' BY <2>1 DEF IInv, TypeOK, ReaderState, walletVars
  <2>3. (Fresh /\ InSlot /\ LostToAStop /\ OneJoiner /\ NoCleanQueued /\ Idle)'
    BY <2>1 DEF IInv, TypeOK, Fresh, InSlot, LostToAStop, OneJoiner, NoCleanQueued,
                Idle, walletVars
  <2>4. (NoStrandedReader /\ NothingLost /\ CleanMeansStopped)'
    BY <2>1 DEF IInv, TypeOK, NoStrandedReader, Live, NothingLost, Alone,
                AllQueued, Due, CleanMeansStopped
  <2> QED BY <2>2, <2>3, <2>4 DEF IInv
<1>3. CASE HearCancel(r) \/ ReaderFails(r)
  <2>1. PICK k \in {"clean", "error"} :
          /\ Live(r) /\ (k = "clean" => r \in cancelled)
          /\ reader' = [reader EXCEPT ![r] = "ended"]
          /\ queue' = Queued(r, [kind |-> k, n |-> 0])
          /\ UNCHANGED <<slot, sent, cancelled, flow, stop, walletVars, shared>>
    BY <1>3 DEF HearCancel, ReaderFails, Ends, Live
  <2>2. [kind |-> k, n |-> 0] \in Verdict /\ [kind |-> k, n |-> 0] \in Event
    BY EventKinds
  <2>q. /\ queue' \in [Flow -> Seq(Event)]
        /\ \A q \in Flow : q # r \/ slot # r => queue'[q] = queue[q]
        /\ slot = r => /\ Len(queue'[r]) = Len(queue[r]) + 1
                       /\ queue'[r][Len(queue[r]) + 1] = [kind |-> k, n |-> 0]
                       /\ \A i \in 1 .. Len(queue[r]) : queue'[r][i] = queue[r][i]
    BY <2>1, <2>2, QueueAppend DEF IInv
  <2>3. TypeOK' BY <2>1, <2>2, <2>q DEF IInv, TypeOK, ReaderState, walletVars
  <2>4. (Fresh /\ InSlot /\ LostToAStop /\ OneJoiner /\ Idle)'
    BY <2>1 DEF IInv, TypeOK, Fresh, InSlot, LostToAStop, OneJoiner, Live, Idle, walletVars
  <2>5. NoCleanQueued'
    <3>1. slot = r => k # "clean" BY <2>1 DEF IInv, InSlot
    <3> SUFFICES ASSUME NEW q \in Flow, NEW i \in 1 .. Len(queue'[q])
                 PROVE  queue'[q][i].kind # "clean"
      BY DEF NoCleanQueued
    <3>2. CASE q = r /\ slot = r
      <4>1. CASE i = Len(queue[r]) + 1
        BY <2>1, <2>2, <3>1, <3>2, <4>1, <2>q DEF IInv
      <4>2. CASE i # Len(queue[r]) + 1
        <5>1. Len(queue[r]) \in Nat BY DEF IInv, TypeOK
        <5>2. i \in 1 .. Len(queue[r]) /\ queue'[r][i] = queue[r][i]
          BY <2>q, <3>2, <4>2, <5>1
        <5> QED BY <3>2, <5>2 DEF IInv, NoCleanQueued
      <4> QED BY <4>1, <4>2
    <3>3. CASE q # r \/ slot # r
      BY <2>1, <2>2, <3>3, <2>q DEF IInv, TypeOK, NoCleanQueued
    <3> QED BY <3>2, <3>3
  <2>6. NoStrandedReader' /\ CleanMeansStopped'
    BY <2>1 DEF IInv, TypeOK, NoStrandedReader, Live, CleanMeansStopped
  <2>7. NothingLost'
    <3> SUFFICES ASSUME NEW f \in Flow, Alone(f)' PROVE AllQueued(f)'
      BY DEF NothingLost
    <3>1. Alone(f) /\ AllQueued(f) BY <2>1 DEF IInv, NothingLost, Alone
    <3>2. CASE f # r
      BY <2>1, <2>2, <3>1, <3>2, <2>q DEF IInv, TypeOK, Alone, AllQueued, Due
    <3>3. CASE f = r
      <4>1. slot = r /\ reader[r] # "ended" /\ Due(r)' = Due(r)
        BY <2>1, <3>1, <3>3 DEF Alone, Live, Due
      <4>2. Len(queue[r]) = Due(r) BY <3>1, <3>3, <4>1 DEF AllQueued
      <4>3. /\ Len(queue'[r]) = Due(r) + 1
            /\ queue'[r][Due(r) + 1] = [kind |-> k, n |-> 0]
            /\ \A i \in 1 .. Due(r) : queue'[r][i] = queue[r][i]
        BY <2>1, <2>2, <4>1, <4>2, <2>q DEF IInv
      <4>4. reader'[r] = "ended" BY <2>1 DEF IInv, TypeOK
      <4> QED BY <2>1, <2>2, <3>1, <3>3, <4>1, <4>3, <4>4 DEF AllQueued
    <3> QED BY <3>2, <3>3
  <2> QED BY <2>3, <2>4, <2>5, <2>6, <2>7 DEF IInv
<1> QED BY <1>1, <1>2, <1>3 DEF Reader

(* Stops.                                                                  *)
LEMMA StopKeeps ==
    ASSUME IInv, NEW p \in Caller, Take(p) \/ Join(p)
    PROVE  IInv'
<1>t. stop[p] \in StopState /\ slot \in Flow \cup {NoRun}
  BY DEF IInv, TypeOK, Run
<1>i. ASSUME NEW s, stop' = [stop EXCEPT ![p] = s], stop[p] # NoStop,
             UNCHANGED <<flow, walletVars>>
      PROVE  Idle'
  BY <1>i DEF IInv, TypeOK, Idle, walletVars
<1>1. CASE Take(p) /\ slot = NoRun
  <2>1. /\ stop' = [stop EXCEPT ![p] = NoStop] /\ stop[p] = Taking
        /\ UNCHANGED <<slot, cancelled, reader, flow, walletVars, shared>>
    BY <1>1 DEF Take
  <2>2. UNCHANGED <<queue, sent>> BY <1>1 DEF Take, IInv, TypeOK
  <2>3. TypeOK' BY <2>1, <2>2, StopStates DEF IInv, TypeOK, walletVars
  <2>4. (Fresh /\ InSlot /\ LostToAStop)'
    BY <1>1, <2>1, <2>2 DEF IInv, Fresh, InSlot, LostToAStop
  <2>5. OneJoiner' BY <2>1, StopStates DEF IInv, TypeOK, OneJoiner
  <2>i. Idle' BY <2>1, <1>i, StopStates
  <2>6. (NoCleanQueued /\ NothingLost /\ CleanMeansStopped)'
    BY <2>1, <2>2 DEF IInv, NoCleanQueued, NothingLost, Alone, AllQueued, Due,
                   CleanMeansStopped
  <2>7. NoStrandedReader'
    BY <2>1, StopStates DEF IInv, TypeOK, NoStrandedReader, Live
  <2> QED BY <2>3, <2>4, <2>5, <2>6, <2>7, <2>i DEF IInv
<1>2. CASE Take(p) /\ slot # NoRun
  <2>s. slot \in Flow BY <1>2, <1>t
  <2>1. /\ stop' = [stop EXCEPT ![p] = Joining(slot)] /\ stop[p] = Taking
        /\ slot' = NoRun
        /\ cancelled' = cancelled \cup {slot}
        /\ queue' = [r \in Flow |-> IF r = slot THEN << >> ELSE queue[r]]
        /\ sent' = [r \in Flow |-> IF r = slot THEN 0 ELSE sent[r]]
        /\ UNCHANGED <<reader, flow, walletVars, shared>>
    BY <1>2 DEF Take
  <2>2. queue' = [r \in Flow |-> << >>] BY <2>1 DEF IInv, TypeOK
  <2>3. TypeOK'
    <3>1. queue' \in [Flow -> Seq(Event)] BY <2>2
    <3>2. stop' \in [Caller -> StopState] BY <2>1, <2>s, StopStates DEF IInv, TypeOK
    <3>3. \A r \in Flow : queue'[r] # << >> => slot' = r BY <2>2
    <3> QED BY <2>1, <2>s, <3>1, <3>2, <3>3 DEF IInv, TypeOK, Run, walletVars
  <2>4. (Fresh /\ InSlot /\ LostToAStop)'
    <3>1. flow[slot].at \notin {"new", "checked"} BY <2>s DEF IInv, InSlot
    <3>2. Fresh' BY <2>1, <2>s, <3>1 DEF IInv, TypeOK, Fresh
    <3> QED BY <2>1, <3>1, <3>2 DEF IInv, InSlot, LostToAStop
  <2>5. OneJoiner'
    <3>1. \A q \in Caller : stop[q] # Joining(slot)
      BY <2>s DEF IInv, InSlot, OneJoiner
    <3> QED BY <2>1, <2>s, <3>1, StopStates DEF IInv, TypeOK, OneJoiner
  <2>i. Idle' BY <2>1, <1>i, StopStates
  <2>6. NoCleanQueued' BY <2>2 DEF NoCleanQueued
  <2>7. NothingLost' BY <2>1 DEF NothingLost, Alone
  <2>8. CleanMeansStopped' BY <2>1 DEF IInv, CleanMeansStopped
  <2>9. NoStrandedReader'
    <3>1. \A q \in Caller, r \in Flow : stop[q] = Joining(r) => stop'[q] = Joining(r)
      BY <2>1, StopStates DEF IInv, TypeOK
    <3>2. stop'[p] = Joining(slot) BY <2>1 DEF IInv, TypeOK
    <3> QED BY <2>1, <3>1, <3>2 DEF IInv, NoStrandedReader, Live
  <2> QED BY <2>3, <2>4, <2>5, <2>6, <2>7, <2>8, <2>9, <2>i DEF IInv
<1>3. CASE Join(p)
  <2>1. /\ stop' = [stop EXCEPT ![p] = NoStop]
        /\ reader[stop[p].run] = "ended" /\ stop[p] = Joining(stop[p].run)
        /\ stop[p].run \in Flow
        /\ UNCHANGED <<slot, reader, queue, sent, cancelled, flow, walletVars, shared>>
    BY <1>3, <1>t, StopStates DEF Join, readerVars
  <2>2. TypeOK' BY <2>1, StopStates DEF IInv, TypeOK, walletVars
  <2>3. (Fresh /\ InSlot /\ LostToAStop)'
    BY <2>1, StopStates DEF IInv, TypeOK, Fresh, InSlot, LostToAStop
  <2>4. OneJoiner' BY <2>1, StopStates DEF IInv, TypeOK, OneJoiner
  <2>i. Idle' BY <2>1, <1>i, StopStates
  <2>5. (NoCleanQueued /\ NothingLost /\ CleanMeansStopped)'
    BY <2>1 DEF IInv, NoCleanQueued, NothingLost, Alone, AllQueued, Due,
                CleanMeansStopped
  <2>6. NoStrandedReader'
    <3>1. \A q \in Caller, r \in Flow :
             stop[q] = Joining(r) /\ r # stop[p].run => stop'[q] = Joining(r)
      BY <2>1, StopStates DEF IInv, TypeOK
    <3> QED BY <2>1, <3>1 DEF IInv, NoStrandedReader, Live
  <2> QED BY <2>2, <2>3, <2>4, <2>5, <2>6, <2>i DEF IInv
<1> QED BY <1>1, <1>2, <1>3

(* The host, and a wallet that is closed: a stop begins where none was     *)
(* under way, or only the wallet changes.                                  *)
LEMMA HostKeeps ==
    ASSUME IInv,
           \/ \E h \in Host : StopMempool(h)
           \/ \E w \in Wallet : Close(w) \/ MarkClosed(w)
    PROVE  IInv'
<1>1. PICK p \in Caller :
        /\ stop[p] = NoStop
        /\ stop' = stop \/ (p \notin Flow /\ stop' = [stop EXCEPT ![p] = Taking])
        /\ wallet' \in [Wallet -> WalletState] /\ stops' \in 0 .. MaxStops
        /\ \A w \in Wallet : wallet'[w] = "open" => wallet[w] = "open" /\ w # p
        /\ UNCHANGED <<slot, reader, queue, sent, cancelled, flow, shared>>
  <2>1. CASE \E h \in Host : StopMempool(h)
    <3>1. PICK h \in Host : StopMempool(h) BY <2>1
    <3> h \in Caller BY DEF Caller
    <3>2. h \notin Flow /\ h \notin Wallet OBVIOUS
    <3> WITNESS h \in Caller
    <3> QED BY <3>1, <3>2 DEF StopMempool, IInv, TypeOK, readerVars
  <2>2. CASE \E w \in Wallet : Close(w)
    <3>1. PICK w \in Wallet : Close(w) BY <2>2
    <3> w \in Caller BY DEF Caller
    <3>2. w \notin Flow OBVIOUS
    <3> WITNESS w \in Caller
    <3>3. stop[w] = NoStop BY <3>1 DEF Close, IInv, Idle
    <3> QED BY <3>1, <3>2, <3>3 DEF Close, IInv, TypeOK, readerVars, WalletState
  <2>3. CASE \E w \in Wallet : MarkClosed(w)
    <3>1. PICK w \in Wallet : MarkClosed(w) BY <2>3
    <3> w \in Caller BY DEF Caller
    <3> WITNESS w \in Caller
    <3> QED BY <3>1 DEF MarkClosed, IInv, TypeOK, readerVars, WalletState
  <2> QED BY <2>1, <2>2, <2>3
<1>2. \A q \in Caller, r \in Flow : stop'[q] = Joining(r) <=> stop[q] = Joining(r)
  BY <1>1, StopStates DEF IInv, TypeOK
<1>3. TypeOK'
  <2>1. stop' \in [Caller -> StopState] BY ZenonT(40), <1>1, StopStates DEF IInv, TypeOK
  <2> QED BY <1>1, <2>1 DEF IInv, TypeOK
<1>4. (Fresh /\ LostToAStop /\ NoCleanQueued)'
  BY <1>1 DEF IInv, Fresh, LostToAStop, NoCleanQueued
<1>5. InSlot' /\ Idle'
  <2>1. \A f \in Flow : stop'[f] = stop[f] BY <1>1 DEF IInv, TypeOK, Caller
  <2>2. \A w \in Wallet : wallet'[w] = "open" => stop'[w] = stop[w]
    BY <1>1 DEF IInv, TypeOK, Caller
  <2> QED BY <1>1, <2>1, <2>2 DEF IInv, InSlot, Idle
<1>6. OneJoiner' BY <1>1, <1>2 DEF IInv, OneJoiner
<1>7. NoStrandedReader' BY <1>1, <1>2 DEF IInv, NoStrandedReader, Live
<1>8. (NothingLost /\ CleanMeansStopped)'
  BY <1>1 DEF IInv, NothingLost, Alone, AllQueued, Due, CleanMeansStopped
<1> QED BY <1>3, <1>4, <1>5, <1>6, <1>7, <1>8 DEF IInv

(* A collection that goes on polling, or ends without a stop.              *)
LEMMA GoesOnKeeps ==
    ASSUME IInv, NEW f \in Flow, NEW rec \in FlowRec,
           flow' = [flow EXCEPT ![f] = rec],
           UNCHANGED <<slot, reader, queue, sent, cancelled, stop, walletVars, shared>>,
           rec.out \in {flow[f].out, "thrown"}, rec.last = flow[f].last,
           flow[f].at # "gone", rec.at # "stops",
           flow[f].at = "stops" => stop[f] = NoStop,
           rec.at \in {"new", "checked"} => flow[f].at \in {"new", "checked"},
           rec.at \in {"ready", "polls"} <=> flow[f].at \in {"ready", "polls"}
    PROVE  IInv'
<1>1. flow'[f] = rec /\ \A g \in Flow : g # f => flow'[g] = flow[g]
  BY DEF IInv, TypeOK
<1>2. TypeOK' BY DEF IInv, TypeOK, walletVars
<1>3. (Fresh /\ LostToAStop)' BY <1>1 DEF IInv, Fresh, LostToAStop
<1>4. InSlot' BY <1>1, StopStates DEF IInv, InSlot
<1>5. Idle' BY <1>1 DEF IInv, Idle, walletVars
<1>6. (OneJoiner /\ NoCleanQueued)' BY DEF IInv, OneJoiner, NoCleanQueued
<1>7. NoStrandedReader' BY DEF IInv, NoStrandedReader, Live
<1>8. CleanMeansStopped' BY <1>1 DEF IInv, CleanMeansStopped
<1>9. NothingLost'
  <2>1. \A g \in Flow : flow'[g].last = flow[g].last /\ (Alone(g)' => Alone(g))
    BY <1>1 DEF Alone
  <2> QED BY <2>1 DEF IInv, NothingLost, AllQueued, Due
<1> QED BY <1>2, <1>3, <1>4, <1>5, <1>6, <1>7, <1>8, <1>9 DEF IInv

(* A collection that enters its finally block, with the event it received. *)
LEMMA LeavesKeeps ==
    ASSUME IInv, NEW f \in Flow, NEW rec \in FlowRec,
           flow' = [flow EXCEPT ![f] = rec],
           stop' = [stop EXCEPT ![f] = Taking],
           UNCHANGED <<slot, reader, sent, cancelled, walletVars>>,
           flow[f].at \in {"ready", "polls"}, rec.at = "stops",
           rec.out = "clean" => f \in cancelled \/ f \in shared,
           \/ UNCHANGED <<queue, shared>>
           \/ /\ slot # NoRun /\ queue[slot] # << >>
              /\ queue' = [queue EXCEPT ![slot] = Tail(@)]
              /\ shared' = shared \cup ({slot} \ {f})
    PROVE  IInv'
<1>1. flow'[f] = rec /\ \A g \in Flow : g # f => flow'[g] = flow[g]
  BY DEF IInv, TypeOK
<1>f. f \in Caller BY DEF Caller
<1>2. stop[f] = NoStop BY DEF IInv, Idle
<1>3. /\ stop' \in [Caller -> StopState] /\ stop'[f] = Taking
      /\ \A p \in Caller : p # f => stop'[p] = stop[p]
  BY <1>f, StopStates DEF IInv, TypeOK
<1>4. \A p \in Caller, r \in Flow : stop'[p] = Joining(r) <=> stop[p] = Joining(r)
  BY <1>2, <1>3, StopStates
<1>5. slot # NoRun => slot \in Flow BY DEF IInv, TypeOK, Run
<1>6. /\ queue' \in [Flow -> Seq(Event)]
      /\ \A r \in Flow : queue'[r] # << >> => slot' = r
      /\ \A r \in Flow : \A i \in 1 .. Len(queue'[r]) :
            \E j \in 1 .. Len(queue[r]) : queue'[r][i] = queue[r][j]
      /\ shared \subseteq shared' /\ shared' \subseteq Flow
  <2>1. CASE UNCHANGED <<queue, shared>> BY <2>1 DEF IInv, TypeOK
  <2>2. CASE /\ slot # NoRun /\ queue[slot] # << >>
             /\ queue' = [queue EXCEPT ![slot] = Tail(@)]
             /\ shared' = shared \cup ({slot} \ {f})
    <3>1. slot \in Flow /\ queue[slot] \in Seq(Event) BY <2>2, <1>5 DEF IInv, TypeOK
    <3>q. /\ Tail(queue[slot]) \in Seq(Event)
          /\ Len(Tail(queue[slot])) = Len(queue[slot]) - 1
          /\ Len(queue[slot]) \in Nat \ {0}
          /\ \A i \in 1 .. Len(queue[slot]) - 1 :
                Tail(queue[slot])[i] = queue[slot][i + 1]
      BY <2>2, <3>1, QueueTail
    <3>2. /\ queue' \in [Flow -> Seq(Event)] /\ queue'[slot] = Tail(queue[slot])
          /\ \A r \in Flow : r # slot => queue'[r] = queue[r]
      BY <2>2, <3>1, <3>q DEF IInv, TypeOK
    <3>3. \A i \in 1 .. Len(queue'[slot]) :
            \E j \in 1 .. Len(queue[slot]) : queue'[slot][i] = queue[slot][j]
      BY <3>q, <3>2
    <3>4. \A r \in Flow : queue'[r] # << >> => slot' = r
      BY <3>2 DEF IInv, TypeOK
    <3>5. \A r \in Flow : \A i \in 1 .. Len(queue'[r]) :
            \E j \in 1 .. Len(queue[r]) : queue'[r][i] = queue[r][j]
      <4> SUFFICES ASSUME NEW r \in Flow, NEW i \in 1 .. Len(queue'[r])
                   PROVE  \E j \in 1 .. Len(queue[r]) : queue'[r][i] = queue[r][j]
        OBVIOUS
      <4>1. CASE r = slot BY <3>3, <4>1
      <4>2. CASE r # slot BY <3>2, <4>2
      <4> QED BY <4>1, <4>2
    <3>6. shared \subseteq shared' /\ shared' \subseteq Flow
      BY <2>2, <3>1 DEF IInv, TypeOK
    <3> QED BY <3>2, <3>4, <3>5, <3>6
  <2> QED BY <2>1, <2>2
<1>7. TypeOK' BY <1>3, <1>6 DEF IInv, TypeOK, walletVars
<1>8. (Fresh /\ LostToAStop)' BY <1>1 DEF IInv, Fresh, LostToAStop
<1>9. InSlot' BY <1>1, <1>3 DEF IInv, InSlot, Caller
<1>10. Idle' BY <1>1, <1>3 DEF IInv, Idle, walletVars, Caller
<1>11. OneJoiner' BY <1>4 DEF IInv, OneJoiner
<1>12. NoStrandedReader' BY <1>4 DEF IInv, NoStrandedReader, Live
<1>13. CleanMeansStopped' BY <1>1, <1>6 DEF IInv, CleanMeansStopped
<1>14. NoCleanQueued' BY <1>6 DEF IInv, NoCleanQueued
<1>15. NothingLost'
  <2> SUFFICES ASSUME NEW g \in Flow, Alone(g)' PROVE AllQueued(g)'
    BY DEF NothingLost
  <2>1. g # f BY <1>1 DEF Alone
  <2>2. slot = g /\ g \notin shared' BY DEF Alone
  <2>3. UNCHANGED <<queue, shared>> BY <2>1, <2>2
  <2>4. Alone(g) BY <1>1, <2>1, <2>2, <2>3 DEF Alone
  <2> QED BY <1>1, <2>1, <2>3, <2>4 DEF IInv, NothingLost, AllQueued, Due
<1> QED BY <1>7, <1>8, <1>9, <1>10, <1>11, <1>12, <1>13, <1>14, <1>15 DEF IInv

(* A collection that finds the slot free puts its own run there and spawns *)
(* its reader (start_mempool).                                             *)
LEMMA StartKeeps ==
    ASSUME IInv, NEW f \in Flow, Start(f)
    PROVE  IInv'
<1>1. /\ flow[f].at = "checked" /\ slot = NoRun /\ slot' = f
      /\ reader' = [reader EXCEPT ![f] = "ask"]
      /\ UNCHANGED <<queue, sent, cancelled, stop, walletVars, shared>>
  BY DEF Start, Refused
<1>2. PICK rec \in FlowRec :
        /\ flow' = [flow EXCEPT ![f] = rec]
        /\ rec.at \in {"ready", "gone"} /\ rec.last = flow[f].last
        /\ rec.out \in {flow[f].out, "thrown"}
  <2>1. flow[f] \in FlowRec BY DEF IInv, TypeOK
  <2>2. CASE flow[f].leaves
    <3>1. flow' = [flow EXCEPT ![f] = Gone(f)] BY <2>2 DEF Start
    <3>2. /\ Gone(f) \in FlowRec /\ Gone(f).at = "gone" /\ Gone(f).out = "thrown"
          /\ Gone(f).last = flow[f].last
      BY <2>1, Gones
    <3> QED BY <3>1, <3>2
  <2>3. CASE ~flow[f].leaves
    <3>1. flow' = [flow EXCEPT ![f] = [flow[f] EXCEPT !.at = "ready"]]
      BY <2>3 DEF Start
    <3>2. "ready" \in FlowState BY DEF FlowState
    <3> DEFINE rec == [flow[f] EXCEPT !.at = "ready"]
    <3>3. /\ rec \in FlowRec /\ rec.at = "ready" /\ rec.out = flow[f].out
          /\ rec.last = flow[f].last
      BY <2>1, <3>2, FlowRecs, Zenon
    <3>4. flow' = [flow EXCEPT ![f] = rec] BY <3>1
    <3> HIDE DEF rec
    <3> QED BY <3>3, <3>4
  <2> QED BY <2>2, <2>3
<1>3. flow'[f] = rec /\ \A g \in Flow : g # f => flow'[g] = flow[g]
  BY <1>2 DEF IInv, TypeOK
<1>4. reader'[f] = "ask" /\ \A g \in Flow : g # f => reader'[g] = reader[g]
  BY <1>1 DEF IInv, TypeOK
<1>5. /\ reader[f] = "none" /\ f \notin cancelled
      /\ sent[f] = 0 /\ flow[f].last = 0
  BY <1>1 DEF IInv, Fresh
<1>6. \A g \in Flow : queue[g] = << >> BY <1>1 DEF IInv, TypeOK
<1>7. TypeOK'
  BY <1>1, <1>2, <1>6 DEF IInv, TypeOK, Run, ReaderState, walletVars
<1>8. (Fresh /\ InSlot /\ LostToAStop)'
  BY <1>1, <1>2, <1>3, <1>4, <1>5 DEF IInv, Fresh, InSlot, LostToAStop
<1>9. Idle' BY <1>1, <1>2, <1>3 DEF IInv, Idle, walletVars
<1>10. (OneJoiner /\ NoCleanQueued)' BY <1>1 DEF IInv, OneJoiner, NoCleanQueued
<1>11. NoStrandedReader' BY <1>1, <1>4 DEF IInv, NoStrandedReader, Live
<1>12. CleanMeansStopped' BY <1>1, <1>2, <1>3 DEF IInv, CleanMeansStopped
<1>13. NothingLost'
  <2> SUFFICES ASSUME NEW g \in Flow, Alone(g)' PROVE AllQueued(g)'
    BY DEF NothingLost
  <2>1. g = f BY <1>1 DEF Alone
  <2>2. Due(f)' = 0 BY <1>1, <1>2, <1>3, <1>5 DEF Due
  <2>3. Len(queue'[f]) = 0 BY <1>1, <1>6
  <2> QED BY <1>4, <2>1, <2>2, <2>3 DEF AllQueued
<1> QED BY <1>7, <1>8, <1>9, <1>10, <1>11, <1>12, <1>13 DEF IInv

(* A collection takes the next report of the run in the slot               *)
(* (next_mempool_event).                                                   *)
LEMMA ReportKeeps ==
    ASSUME IInv, NEW f \in Flow, ReceiveReport(f)
    PROVE  IInv'
<1> DEFINE e == Head(queue[slot])
           n == IF slot = f THEN e.n ELSE flow[f].last
           rec == [flow[f] EXCEPT !.at = "ready", !.last = n]
<1>1. /\ slot # NoRun /\ queue[slot] # << >> /\ e.kind = "report"
      /\ flow[f].at = "polls" /\ flow' = [flow EXCEPT ![f] = rec]
      /\ queue' = [queue EXCEPT ![slot] = Tail(@)]
      /\ shared' = shared \cup ({slot} \ {f})
      /\ UNCHANGED <<slot, reader, sent, cancelled, stop, walletVars>>
  BY DEF ReceiveReport, FlowStep
<1>2. slot \in Flow /\ queue[slot] \in Seq(Event) BY <1>1 DEF IInv, TypeOK, Run
<1>q. /\ Tail(queue[slot]) \in Seq(Event) /\ e \in Event /\ e = queue[slot][1]
      /\ Len(Tail(queue[slot])) = Len(queue[slot]) - 1
      /\ Len(queue[slot]) \in Nat \ {0}
      /\ \A i \in 1 .. Len(queue[slot]) - 1 :
            Tail(queue[slot])[i] = queue[slot][i + 1]
  BY <1>1, <1>2, QueueTail
<1>3. e.n \in 1 .. MaxEvents BY <1>1, <1>q, EventKinds
<1>4. /\ rec \in FlowRec /\ rec.at = "ready" /\ rec.out = flow[f].out
      /\ rec.last = n
  <2>1. flow[f] \in FlowRec BY DEF IInv, TypeOK
  <2>2. n \in 0 .. MaxEvents BY <1>3, <2>1, FlowRecs
  <2> HIDE DEF n
  <2> QED BY <2>1, <2>2, FlowUpdates, Zenon
<1> HIDE DEF rec, e
<1>5. flow'[f] = rec /\ \A g \in Flow : g # f => flow'[g] = flow[g]
  BY <1>1 DEF IInv, TypeOK
<1>6. /\ queue' \in [Flow -> Seq(Event)] /\ queue'[slot] = Tail(queue[slot])
      /\ \A r \in Flow : r # slot => queue'[r] = queue[r]
  BY <1>1, <1>2, <1>q DEF IInv, TypeOK
<1>7. TypeOK'
  <2>1. flow' \in [Flow -> FlowRec] BY <1>1, <1>4 DEF IInv, TypeOK
  <2>2. shared' \subseteq Flow BY <1>1, <1>2 DEF IInv, TypeOK
  <2>3. \A r \in Flow : queue'[r] # << >> => slot' = r
    BY <1>1, <1>6 DEF IInv, TypeOK
  <2> QED BY <1>1, <1>6, <2>1, <2>2, <2>3 DEF IInv, TypeOK, walletVars
<1>8. (Fresh /\ InSlot /\ LostToAStop)'
  BY <1>1, <1>4, <1>5 DEF IInv, Fresh, InSlot, LostToAStop
<1>9. Idle' BY <1>1, <1>4, <1>5 DEF IInv, Idle, walletVars
<1>10. OneJoiner' BY <1>1 DEF IInv, OneJoiner
<1>11. NoCleanQueued'
  <2> SUFFICES ASSUME NEW r \in Flow, NEW i \in 1 .. Len(queue'[r])
               PROVE  queue'[r][i].kind # "clean"
    BY DEF NoCleanQueued
  <2>1. CASE r = slot
    <3>1. i + 1 \in 1 .. Len(queue[slot]) /\ queue'[r][i] = queue[slot][i + 1]
      BY <2>1, <1>6, <1>q
    <3> QED BY <1>2, <3>1 DEF IInv, NoCleanQueued
  <2>2. CASE r # slot BY <2>2, <1>6 DEF IInv, NoCleanQueued
  <2> QED BY <2>1, <2>2
<1>12. NoStrandedReader' BY <1>1 DEF IInv, NoStrandedReader, Live
<1>13. CleanMeansStopped' BY <1>1, <1>4, <1>5 DEF IInv, CleanMeansStopped
<1>14. NothingLost'
  <2> SUFFICES ASSUME NEW g \in Flow, Alone(g)' PROVE AllQueued(g)'
    BY DEF NothingLost
  <2>1. g = slot /\ g = f /\ f \notin shared BY <1>1, <1>2 DEF Alone
  <2>2. AllQueued(f) BY <1>1, <2>1 DEF IInv, NothingLost, Alone
  <2>3. flow[f].last \in 0 .. MaxEvents /\ sent[f] \in 0 .. MaxEvents
    BY FlowRecs DEF IInv, TypeOK
  <2>4. Due(f) \in Int BY <2>3 DEF Due
  <2>5. Due(f) >= 1 /\ e.n = flow[f].last + 1
    <3>1. CASE Due(f) = 0
      <4>1. queue[f][1] \in Verdict
        BY <2>1, <2>2, <3>1, <1>q DEF AllQueued
      <4> QED BY <4>1, <2>1, <1>1, <1>q, EventKinds
    <3>2. CASE Due(f) # 0
      <4>1. Due(f) >= 1 BY <2>2, <2>4, <3>2 DEF AllQueued
      <4>2. e = ReportAt(flow[f].last + 1)
        <5>1. 1 \in 1 .. Due(f) BY <2>4, <4>1
        <5>2. queue[f][1] = ReportAt(flow[f].last + 1) BY <2>2, <5>1 DEF AllQueued
        <5> QED BY <2>1, <5>2, <1>q
      <4>3. flow[f].last + 1 \in 1 .. MaxEvents BY <2>3, <4>1 DEF Due
      <4> QED BY <4>1, <4>2, <4>3, EventKinds
    <3> QED BY <3>1, <3>2
  <2>6. flow'[f].last = flow[f].last + 1 BY <1>4, <1>5, <2>1, <2>5
  <2>7. Due(f)' = Due(f) - 1 BY <1>1, <2>3, <2>6 DEF Due
  <2>8. \A i \in 1 .. Len(queue[f]) - 1 : queue'[f][i] = queue[f][i + 1]
    BY <1>6, <1>q, <2>1
  <2>9. Len(queue'[f]) = Len(queue[f]) - 1 /\ Len(queue[f]) \in Nat
    BY <1>6, <1>q, <2>1
  <2>10. \A i \in 1 .. Due(f) - 1 : queue'[f][i] = ReportAt(flow'[f].last + i)
    <3> SUFFICES ASSUME NEW i \in 1 .. Due(f) - 1
                 PROVE  queue'[f][i] = ReportAt(flow'[f].last + i)
      OBVIOUS
    <3>1. i + 1 \in 1 .. Due(f) /\ i \in 1 .. Len(queue[f]) - 1
      BY <2>2, <2>4, <2>9 DEF AllQueued
    <3>2. queue[f][i + 1] = ReportAt(flow[f].last + (i + 1))
      BY <2>2, <3>1 DEF AllQueued
    <3>3. flow[f].last + (i + 1) = flow'[f].last + i BY <2>3, <2>6
    <3> QED BY <2>8, <3>1, <3>2, <3>3
  <2>11. CASE reader[f] = "ended"
    <3>1. Len(queue[f]) = Due(f) + 1 /\ queue[f][Due(f) + 1] \in Verdict
      BY <2>2, <2>11 DEF AllQueued
    <3>2. queue'[f][Due(f)] \in Verdict BY <2>4, <2>5, <2>8, <3>1
    <3>3. Due(f) - 1 + 1 = Due(f) /\ Due(f) - 1 >= 0 BY <2>4, <2>5
    <3> QED BY <1>1, <2>1, <2>4, <2>7, <2>9, <2>10, <2>11, <3>1, <3>2, <3>3
            DEF AllQueued
  <2>12. CASE reader[f] # "ended"
    <3>1. Len(queue[f]) = Due(f) BY <2>2, <2>12 DEF AllQueued
    <3>2. Due(f) - 1 >= 0 BY <2>4, <2>5
    <3> QED BY <1>1, <2>1, <2>7, <2>9, <2>10, <2>12, <3>1, <3>2 DEF AllQueued
  <2> QED BY <2>11, <2>12
<1> QED BY <1>7, <1>8, <1>9, <1>10, <1>11, <1>12, <1>13, <1>14 DEF IInv

(* The next poll, or the finally block.                                    *)
LEMMA GoesTo ==
    ASSUME IInv, NEW f \in Flow, NEW from \in {"ready", "polls"}, NEW out \in Outcome,
           Goes(f, from, out)
    PROVE  /\ flow[f].at = from /\ UNCHANGED <<reader, sent, cancelled, walletVars>>
           /\ \E rec \in FlowRec :
                /\ flow' = [flow EXCEPT ![f] = rec]
                /\ \/ /\ stop' = stop /\ rec.at = "ready" /\ out = "none"
                      /\ rec.out = flow[f].out /\ rec.last = flow[f].last
                   \/ /\ stop' = [stop EXCEPT ![f] = Taking] /\ rec.at = "stops"
                      /\ \/ rec.out = "thrown"
                         \/ rec.out = out /\ ~flow[f].leaves
<1> DEFINE end == IF flow[f].leaves THEN "thrown" ELSE out
           last == [at |-> "stops", out |-> end, leaves |-> FALSE, last |-> 0]
           next == [flow[f] EXCEPT !.at = "ready"]
<1>1. /\ flow[f].at = from /\ UNCHANGED <<reader, sent, cancelled, walletVars>>
      /\ flow' = [flow EXCEPT ![f] = IF end = "none" THEN next ELSE last]
      /\ stop' = IF end = "none" THEN stop ELSE [stop EXCEPT ![f] = Taking]
  BY DEF Goes, FlowStep
<1>2. flow[f] \in FlowRec /\ "ready" \in FlowState BY DEF IInv, TypeOK, FlowState
<1>3. /\ next \in FlowRec /\ next.at = "ready" /\ next.out = flow[f].out
      /\ next.last = flow[f].last
  BY <1>2, FlowRecs, Zenon
<1>4. end \in Outcome BY DEF Outcome
<1>5. last \in FlowRec /\ last.at = "stops" /\ last.out = end
  <2> HIDE DEF end
  <2> QED BY <1>4 DEF FlowRec, FlowState
<1>6. end = "none" => out = "none" OBVIOUS
<1>7. end = "thrown" \/ (end = out /\ ~flow[f].leaves)
  BY <1>2, FlowRecs
<1> HIDE DEF end, last, next
<1>8. CASE end = "none" BY <1>1, <1>3, <1>6, <1>8
<1>9. CASE end # "none" BY <1>1, <1>5, <1>7, <1>9
<1> QED BY <1>1, <1>8, <1>9

(* A collection.                                                           *)
LEMMA CollectionKeeps ==
    ASSUME IInv, NEW f \in Flow, Collection(f)
    PROVE  IInv'
<1>t. flow[f] \in FlowRec /\ slot \in Flow \cup {NoRun} BY DEF IInv, TypeOK, Run
<1>o. {"none", "clean", "thrown"} = Outcome BY DEF Outcome
<1>s. {"checked", "polls", "done"} \subseteq FlowState BY DEF FlowState
<1>r. \A a \in {"checked", "polls", "done"} :
        /\ [flow[f] EXCEPT !.at = a] \in FlowRec /\ [flow[f] EXCEPT !.at = a].at = a
        /\ [flow[f] EXCEPT !.at = a].out = flow[f].out
        /\ [flow[f] EXCEPT !.at = a].last = flow[f].last
  BY <1>t, <1>s, FlowRecs, Zenon
<1>g. Gone(f) \in FlowRec /\ Gone(f).at = "gone" /\ Gone(f).out = "thrown"
      /\ Gone(f).last = flow[f].last
  BY <1>t, Gones
<1>1. CASE Collect(f) \/ RefuseStart(f) \/ Poll(f) \/ Finish(f)
  <2> DEFINE Step(rec) ==
        /\ flow' = [flow EXCEPT ![f] = rec]
        /\ UNCHANGED <<slot, reader, queue, sent, cancelled, stop, walletVars, shared>>
  <2>1. CASE (Collect(f) \/ RefuseStart(f)) /\ flow' = [flow EXCEPT ![f] = Gone(f)]
    <3>1. flow[f].at \in {"new", "checked"} /\ Step(Gone(f))
      BY <2>1 DEF Collect, RefuseStart, FlowStep
    <3> QED BY <3>1, <1>g, GoesOnKeeps
  <2>2. CASE Collect(f) /\ flow' # [flow EXCEPT ![f] = Gone(f)]
    <3> DEFINE rec == [flow[f] EXCEPT !.at = "checked"]
    <3>1. flow[f].at = "new" /\ Step(rec) BY <2>2 DEF Collect, FlowStep
    <3>2. rec \in FlowRec /\ rec.at = "checked" /\ rec.out = flow[f].out
          /\ rec.last = flow[f].last
      BY <1>r, Zenon
    <3> HIDE DEF rec
    <3> QED BY <3>1, <3>2, GoesOnKeeps
  <2>3. CASE RefuseStart(f) BY <2>1, <2>3 DEF RefuseStart, FlowStep
  <2>4. CASE Poll(f)
    <3> DEFINE rec == [flow[f] EXCEPT !.at = "polls"]
    <3>1. flow[f].at = "ready" /\ Step(rec) BY <2>4 DEF Poll, FlowStep
    <3>2. rec \in FlowRec /\ rec.at = "polls" /\ rec.out = flow[f].out
          /\ rec.last = flow[f].last
      BY <1>r, Zenon
    <3> HIDE DEF rec
    <3> QED BY <3>1, <3>2, GoesOnKeeps
  <2>5. CASE Finish(f)
    <3> DEFINE rec == [flow[f] EXCEPT !.at = "done"]
    <3>1. flow[f].at = "stops" /\ stop[f] = NoStop /\ Step(rec)
      BY <2>5 DEF Finish, FlowStep
    <3>2. rec \in FlowRec /\ rec.at = "done" /\ rec.out = flow[f].out
          /\ rec.last = flow[f].last
      BY <1>r, Zenon
    <3> HIDE DEF rec
    <3> QED BY <3>1, <3>2, GoesOnKeeps
  <2> QED BY <1>1, <2>1, <2>2, <2>3, <2>4, <2>5
<1>2. CASE LeaveCall(f)
  <2> DEFINE rec == [flow[f] EXCEPT !.leaves = TRUE]
  <2>1. /\ flow[f].at \in {"checked", "polls"} /\ flow' = [flow EXCEPT ![f] = rec]
        /\ UNCHANGED <<slot, reader, queue, sent, cancelled, stop, walletVars, shared>>
    BY <1>2 DEF LeaveCall, readerVars
  <2>2. rec \in FlowRec /\ rec.at = flow[f].at /\ rec.out = flow[f].out
        /\ rec.last = flow[f].last
    BY <1>t DEF FlowRec
  <2> HIDE DEF rec
  <2> QED BY <2>1, <2>2, GoesOnKeeps
<1>3. CASE Start(f) BY <1>3, StartKeeps
<1>4. CASE ReceiveReport(f) BY <1>4, ReportKeeps
<1>5. CASE PollTimesOut(f)
  <2>1. Goes(f, "polls", "none") /\ UNCHANGED <<slot, queue, shared>>
    BY <1>5 DEF PollTimesOut
  <2>2. /\ flow[f].at = "polls" /\ UNCHANGED <<reader, sent, cancelled, walletVars>>
        /\ \E rec \in FlowRec :
             /\ flow' = [flow EXCEPT ![f] = rec]
             /\ \/ /\ stop' = stop /\ rec.at = "ready"
                   /\ rec.out = flow[f].out /\ rec.last = flow[f].last
                \/ /\ stop' = [stop EXCEPT ![f] = Taking] /\ rec.at = "stops"
                   /\ rec.out # "clean"
    BY <2>1, <1>o, GoesTo
  <2>3. PICK rec \in FlowRec :
          /\ flow' = [flow EXCEPT ![f] = rec]
          /\ \/ /\ stop' = stop /\ rec.at = "ready"
                /\ rec.out = flow[f].out /\ rec.last = flow[f].last
             \/ /\ stop' = [stop EXCEPT ![f] = Taking] /\ rec.at = "stops"
                /\ rec.out # "clean"
    BY <2>2
  <2>4. CASE rec.at = "ready" BY <2>1, <2>2, <2>3, <2>4, GoesOnKeeps
  <2>5. CASE rec.at = "stops" BY <2>1, <2>2, <2>3, <2>5, LeavesKeeps
  <2> QED BY <2>3, <2>4, <2>5
<1>6. CASE PollClosed(f) \/ LeaveEmission(f) \/ PollNoRun(f) \/ ReceiveClosed(f)
           \/ ReceiveEnd(f)
  <2>1. PICK from \in {"ready", "polls"}, out \in {"clean", "thrown"} :
          /\ Goes(f, from, out) /\ slot' = slot
          /\ out = "clean" =>
                f \in cancelled \/ f \in shared \/ flow[f].leaves
          /\ \/ UNCHANGED <<queue, shared>>
             \/ /\ slot # NoRun /\ queue[slot] # << >>
                /\ queue' = [queue EXCEPT ![slot] = Tail(@)]
                /\ shared' = shared \cup ({slot} \ {f})
    <3>1. CASE PollClosed(f) BY <3>1 DEF PollClosed
    <3>2. CASE LeaveEmission(f) BY <3>2 DEF LeaveEmission
    <3>3. CASE PollNoRun(f)
      <4>1. flow[f].at = "polls" BY <3>3 DEF PollNoRun, Goes, FlowStep
      <4>2. f \in cancelled BY <3>3, <4>1 DEF PollNoRun, IInv, LostToAStop
      <4> QED BY <3>3, <4>2 DEF PollNoRun
    <3>4. CASE ReceiveClosed(f)
      <4>1. flow[f].at = "polls" BY <3>4 DEF ReceiveClosed, Goes, FlowStep
      <4>2. f \in cancelled \/ f \in shared
        <5>1. CASE slot # f BY <4>1, <5>1 DEF IInv, LostToAStop
        <5>2. CASE slot = f /\ f \notin shared
          <6>1. AllQueued(f) BY <4>1, <5>2 DEF IInv, NothingLost, Alone
          <6>2. Len(queue[f]) = 0 /\ reader[f] = "ended"
            BY <3>4, <5>2 DEF ReceiveClosed
          <6>3. Due(f) >= 0 /\ Len(queue[f]) = Due(f) + 1 BY <6>1, <6>2 DEF AllQueued
          <6>4. Due(f) \in Int
            BY <1>t, FlowRecs DEF Due, IInv, TypeOK
          <6> QED BY <6>2, <6>3, <6>4
        <5> QED BY <5>1, <5>2
      <4> QED BY <3>4, <4>2 DEF ReceiveClosed
    <3>5. CASE ReceiveEnd(f)
      <4> DEFINE e == Head(queue[slot])
      <4>1. /\ slot # NoRun /\ queue[slot] # << >>
            /\ flow[f].leaves \/ e.kind \in {"clean", "error"}
            /\ Goes(f, "polls", VerdictOf(e))
            /\ queue' = [queue EXCEPT ![slot] = Tail(@)]
            /\ shared' = shared \cup ({slot} \ {f}) /\ slot' = slot
        BY <3>5 DEF ReceiveEnd
      <4>2. slot \in Flow /\ queue[slot] \in Seq(Event)
        BY <4>1, <1>t DEF IInv, TypeOK
      <4>3. e = queue[slot][1] /\ Len(queue[slot]) \in Nat \ {0}
        BY <4>1, <4>2, QueueTail
      <4>4. e.kind # "clean" BY <4>2, <4>3 DEF IInv, NoCleanQueued
      <4> HIDE DEF e
      <4>5. VerdictOf(e) \in {"clean", "thrown"} /\ (VerdictOf(e) = "clean" => flow[f].leaves)
        BY <4>1, <4>4 DEF VerdictOf
      <4> QED BY <4>1, <4>5
    <3> QED BY <1>6, <3>1, <3>2, <3>3, <3>4, <3>5
  <2>2. out \in Outcome /\ out # "none" BY DEF Outcome
  <2>3. /\ flow[f].at = from /\ UNCHANGED <<reader, sent, cancelled, walletVars>>
        /\ \E rec \in FlowRec :
             /\ flow' = [flow EXCEPT ![f] = rec]
             /\ stop' = [stop EXCEPT ![f] = Taking] /\ rec.at = "stops"
             /\ rec.out = "thrown" \/ (rec.out = out /\ ~flow[f].leaves)
    BY <2>1, <2>2, GoesTo
  <2>4. PICK rec \in FlowRec :
          /\ flow' = [flow EXCEPT ![f] = rec]
          /\ stop' = [stop EXCEPT ![f] = Taking] /\ rec.at = "stops"
          /\ rec.out = "thrown" \/ (rec.out = out /\ ~flow[f].leaves)
    BY <2>3
  <2>5. rec.out = "clean" => f \in cancelled \/ f \in shared BY <2>1, <2>4
  <2> QED BY <2>1, <2>3, <2>4, <2>5, LeavesKeeps
<1> QED BY <1>1, <1>2, <1>3, <1>4, <1>5, <1>6 DEF Collection

-----------------------------------------------------------------------------
(* The theorems.                                                           *)

(* Every step of readers, collections, stops and close keeps the           *)
(* invariant.                                                              *)
LEMMA StepIInv == IInv /\ [Next]_vars => IInv'
<1> SUFFICES ASSUME IInv, [Next]_vars PROVE IInv' OBVIOUS
<1>1. CASE Next
  <2>1. CASE \E f \in Flow : Reader(f) BY <2>1, ReaderKeeps
  <2>2. CASE \E f \in Flow : Collection(f) BY <2>2, CollectionKeeps
  <2>3. CASE \E p \in Caller : Take(p) \/ Join(p) BY <2>3, StopKeeps
  <2>4. CASE \/ \E h \in Host : StopMempool(h)
             \/ \E w \in Wallet : Close(w) \/ MarkClosed(w)
    BY <2>4, HostKeeps
  <2> QED BY <1>1, <2>1, <2>2, <2>3, <2>4 DEF Next
<1>2. CASE UNCHANGED vars
  <2>1. UNCHANGED <<slot, reader, queue, sent, cancelled, flow, stop, wallet, stops, shared>>
    BY <1>2 DEF vars
  <2>2. (TypeOK /\ Fresh /\ InSlot /\ LostToAStop /\ OneJoiner /\ NoCleanQueued /\ Idle)'
    BY <2>1 DEF IInv, TypeOK, Fresh, InSlot, LostToAStop, OneJoiner, NoCleanQueued, Idle
  <2>3. (NoStrandedReader /\ NothingLost /\ CleanMeansStopped)'
    BY <2>1 DEF IInv, NoStrandedReader, Live, NothingLost, Alone, AllQueued, Due,
                CleanMeansStopped
  <2> QED BY <2>2, <2>3 DEF IInv
<1> QED BY <1>1, <1>2

(* The inductive invariant holds in every state of the subscription.       *)
THEOREM MempoolInvariant == Spec => []IInv
BY InitIInv, StepIInv, PTL DEF Spec

(* The variables of the subscription keep their types, and only the run in *)
(* the slot has a queue.                                                   *)
THEOREM MempoolTypeCorrect == Spec => []TypeOK
<1>1. IInv => TypeOK BY DEF IInv
<1> QED BY <1>1, MempoolInvariant, PTL

(* Whatever starts, stops and closes cross each other, a reader that still *)
(* runs is in the slot or a stop waits for it (start, stop).               *)
THEOREM NoReaderStranded == Spec => []NoStrandedReader
<1>1. IInv => NoStrandedReader BY DEF IInv
<1> QED BY <1>1, MempoolInvariant, PTL

(* A collection that passed its finally block has left the slot (mempool,  *)
(* stop).                                                                  *)
THEOREM SlotFreed == Spec => []EndedCollectionFreesSlot
<1>1. IInv => EndedCollectionFreesSlot BY DEF IInv, InSlot, EndedCollectionFreesSlot
<1> QED BY <1>1, MempoolInvariant, PTL

(* A clean end is a stop, never a failure of the reader (Verdict,          *)
(* recv_within, next).                                                     *)
THEOREM CleanIsAStop == Spec => []CleanMeansStopped
<1>1. IInv => CleanMeansStopped BY DEF IInv
<1> QED BY <1>1, MempoolInvariant, PTL

(* While a collection is alone with its run, its queue is exactly what it  *)
(* has not received, in order, for readers of any number of reports        *)
(* (recv_within, run_mempool_impl).                                        *)
THEOREM NothingIsLost == Spec => []NothingLost
<1>1. IInv => NothingLost BY DEF IInv
<1> QED BY <1>1, MempoolInvariant, PTL

-----------------------------------------------------------------------------
(* The refinement of Subscription.                                         *)

Running == {r \in Flow : Live(r)}
Begun == {r \in Flow : reader[r] # "none"}
Waited == {r \in Flow : \E p \in Caller : stop[p] = Joining(r)}

\* Steps that begin, end and let go of no run.
LEMMA Stutters ==
    ASSUME IInv, slot' = slot,
           \A r \in Flow : Live(r)' <=> Live(r),
           \A r \in Flow : reader'[r] # "none" <=> reader[r] # "none",
           \A p \in Caller, r \in Flow : stop'[p] = Joining(r) <=> stop[p] = Joining(r)
    PROVE  UNCHANGED Sub!vars
<1>1. Running' = Running BY DEF Running
<1>2. Begun' = Begun BY DEF Begun
<1>3. Waited' = Waited BY DEF Waited
<1> QED BY <1>1, <1>2, <1>3 DEF Sub!vars, Running, Begun, Waited

(* A reader's step is nothing to the subscription, or the end of a running *)
(* reader.                                                                 *)
LEMMA ReaderRefines ==
    ASSUME IInv, NEW r \in Flow, Reader(r)
    PROVE  [Sub!Next]_(Sub!vars)
<1>1. CASE Ask(r) \/ ReadTx(r) \/ OpenStream(r) \/ StreamEnds(r)
  <2>1. /\ Live(r) /\ slot' = slot /\ stop' = stop
        /\ \E s \in {"ask", "open", "stream"} : reader' = [reader EXCEPT ![r] = s]
    BY <1>1 DEF Ask, ReadTx, OpenStream, StreamEnds, ReaderStep, Live
  <2>2. \A q \in Flow : /\ Live(q)' <=> Live(q)
                        /\ reader'[q] # "none" <=> reader[q] # "none"
    BY <2>1 DEF Live, IInv, TypeOK
  <2> QED BY <2>1, <2>2, Stutters
<1>2. CASE HearCancel(r) \/ ReaderFails(r)
  <2>1. /\ Live(r) /\ slot' = slot /\ stop' = stop
        /\ reader' = [reader EXCEPT ![r] = "ended"]
    BY <1>2 DEF HearCancel, ReaderFails, Ends, Live
  <2>2. r \in Running /\ Running' = Running \ {r}
    BY <2>1 DEF Running, Live, IInv, TypeOK
  <2>3. Begun' = Begun BY <2>1 DEF Begun, Live, IInv, TypeOK
  <2>4. Waited' = Waited BY <2>1 DEF Waited
  <2>5. Sub!ReaderStops(r)
    BY <2>1, <2>2, <2>3, <2>4 DEF Sub!ReaderStops, Running, Begun, Waited
  <2> QED BY <2>5 DEF Sub!Next
<1> QED BY <1>1, <1>2 DEF Reader

(* A stop takes the run from the slot, waits for it and returns, in this   *)
(* order (stop_mempool).                                                   *)
LEMMA StopRefines ==
    ASSUME IInv, NEW p \in Caller, Take(p) \/ Join(p)
    PROVE  [Sub!Next]_(Sub!vars)
<1>t. stop[p] \in StopState /\ slot \in Flow \cup {NoRun}
  BY DEF IInv, TypeOK, Run
<1>1. CASE Take(p) /\ slot = NoRun
  <2>1. /\ stop' = [stop EXCEPT ![p] = NoStop] /\ stop[p] = Taking
        /\ slot' = slot /\ reader' = reader
    BY <1>1 DEF Take
  <2>2. \A q \in Caller, r \in Flow : stop'[q] = Joining(r) <=> stop[q] = Joining(r)
    BY <2>1, StopStates DEF IInv, TypeOK
  <2> QED BY <2>1, <2>2, Stutters DEF Live
<1>2. CASE Take(p) /\ slot # NoRun
  <2>1. /\ stop' = [stop EXCEPT ![p] = Joining(slot)] /\ stop[p] = Taking
        /\ slot' = NoRun /\ reader' = reader /\ slot \in Flow
    BY <1>2, <1>t DEF Take
  <2>2. /\ stop'[p] = Joining(slot)
        /\ \A q \in Caller, r \in Flow : q # p => (stop'[q] = Joining(r) <=> stop[q] = Joining(r))
        /\ \A r \in Flow : stop[p] # Joining(r)
    BY <2>1, StopStates DEF IInv, TypeOK
  <2>3. Waited' = Waited \cup {slot}
    <3>1. \A r \in Flow : Joining(slot) = Joining(r) <=> slot = r BY <2>1, StopStates
    <3> QED BY <2>1, <2>2, <3>1 DEF Waited
  <2>4. Running' = Running /\ Begun' = Begun BY <2>1 DEF Running, Begun, Live
  <2>5. Sub!LetGo
    BY <1>2, <2>1, <2>3, <2>4 DEF Sub!LetGo, Running, Begun, Waited
  <2> QED BY <2>5 DEF Sub!Next
<1>3. CASE Join(p)
  <2>1. PICK r \in Flow :
          /\ stop[p] = Joining(r) /\ reader[r] = "ended"
          /\ stop' = [stop EXCEPT ![p] = NoStop] /\ slot' = slot /\ reader' = reader
    BY <1>3, <1>t, StopStates DEF Join, readerVars
  <2>2. /\ \A q \in Flow : stop'[p] # Joining(q)
        /\ \A q \in Caller : q # p => stop'[q] = stop[q]
    BY <2>1, StopStates DEF IInv, TypeOK
  <2>3. \A q \in Caller : stop[q] = Joining(r) => q = p BY <2>1 DEF IInv, OneJoiner
  <2>4. \A q \in Flow : stop[p] = Joining(q) => q = r BY <2>1, StopStates
  <2>5. r \in Waited /\ Waited' = Waited \ {r}
    BY <2>1, <2>2, <2>3, <2>4 DEF Waited
  <2>6. r \notin Running /\ Running' = Running /\ Begun' = Begun
    BY <2>1 DEF Running, Begun, Live
  <2>7. Sub!StopReturns(r)
    BY <2>1, <2>5, <2>6 DEF Sub!StopReturns, Running, Begun, Waited
  <2> QED BY <2>7 DEF Sub!Next
<1> QED BY <1>1, <1>2, <1>3

(* A collection's step starts a run or is nothing to the subscription.     *)
LEMMA CollectionRefines ==
    ASSUME IInv, NEW f \in Flow, Collection(f)
    PROVE  [Sub!Next]_(Sub!vars)
<1>f. f \in Caller BY DEF Caller
<1>1. CASE Start(f)
  <2>1. /\ flow[f].at = "checked" /\ slot = NoRun /\ slot' = f /\ stop' = stop
        /\ reader' = [reader EXCEPT ![f] = "ask"]
    BY <1>1 DEF Start, Refused
  <2>2. reader[f] = "none" BY <2>1 DEF IInv, Fresh
  <2>3. Running' = Running \cup {f} BY <2>1 DEF Running, Live, IInv, TypeOK
  <2>4. f \notin Begun /\ Begun' = Begun \cup {f}
    BY <2>1, <2>2 DEF Begun, IInv, TypeOK
  <2>5. Waited' = Waited BY <2>1 DEF Waited
  <2>6. Sub!Begin(f)
    BY <2>1, <2>3, <2>4, <2>5 DEF Sub!Begin, Running, Begun, Waited
  <2> QED BY <2>6 DEF Sub!Next
<1>2. CASE ~Start(f)
  <2>1. /\ slot' = slot /\ reader' = reader
        /\ \/ stop' = stop
           \/ /\ stop' = [stop EXCEPT ![f] = Taking] /\ flow[f].at \in {"ready", "polls"}
    BY <1>2 DEF Collection, Collect, RefuseStart, Poll, PollClosed, PollNoRun,
                PollTimesOut, ReceiveReport, ReceiveEnd, ReceiveClosed, LeaveEmission,
                LeaveCall, Finish, Goes, FlowStep, readerVars
  <2>2. \A p \in Caller, r \in Flow : stop'[p] = Joining(r) <=> stop[p] = Joining(r)
    BY <1>f, <2>1, StopStates DEF IInv, TypeOK, Idle
  <2> QED BY <2>1, <2>2, Stutters DEF Live
<1> QED BY <1>1, <1>2

(* The host's stop and close are nothing to the subscription until the     *)
(* slot is taken.                                                          *)
LEMMA HostRefines ==
    ASSUME IInv,
           \/ \E h \in Host : StopMempool(h)
           \/ \E w \in Wallet : Close(w) \/ MarkClosed(w)
    PROVE  [Sub!Next]_(Sub!vars)
<1>1. /\ slot' = slot /\ reader' = reader
      /\ \/ stop' = stop
         \/ \E p \in Caller : stop[p] = NoStop /\ stop' = [stop EXCEPT ![p] = Taking]
  BY DEF StopMempool, Close, MarkClosed, readerVars, Caller, IInv, Idle
<1>2. \A p \in Caller, r \in Flow : stop'[p] = Joining(r) <=> stop[p] = Joining(r)
  BY <1>1, StopStates DEF IInv, TypeOK
<1> QED BY <1>1, <1>2, Stutters DEF Live

(* The subscription keeps what Subscription promises about runs, for every *)
(* number of wallets, collections and host threads (start, next, stop).    *)
THEOREM MempoolRefines == Spec => ImplementsSubscription
<1>1. Init => Sub!Init
  <2> SUFFICES ASSUME Init PROVE Sub!Init OBVIOUS
  <2>1. Running = {} /\ Begun = {} BY DEF Init, Running, Live, Begun
  <2>2. Waited = {} BY StopStates DEF Init, Waited
  <2> QED BY <2>1, <2>2 DEF Init, Sub!Init, Running, Begun, Waited
<1>2. IInv /\ [Next]_vars => [Sub!Next]_(Sub!vars)
  <2> SUFFICES ASSUME IInv, [Next]_vars PROVE [Sub!Next]_(Sub!vars) OBVIOUS
  <2>1. CASE \E f \in Flow : Reader(f) BY <2>1, ReaderRefines
  <2>2. CASE \E f \in Flow : Collection(f) BY <2>2, CollectionRefines
  <2>3. CASE \E p \in Caller : Take(p) \/ Join(p) BY <2>3, StopRefines
  <2>4. CASE \/ \E h \in Host : StopMempool(h)
             \/ \E w \in Wallet : Close(w) \/ MarkClosed(w)
    BY <2>4, HostRefines
  <2>5. CASE UNCHANGED vars BY <2>5, Stutters DEF vars, Live
  <2> QED BY <2>1, <2>2, <2>3, <2>4, <2>5 DEF Next
<1>3. Spec => Sub!Spec BY <1>1, <1>2, MempoolInvariant, PTL DEF Spec, Sub!Spec
<1> QED BY <1>3 DEF ImplementsSubscription
=============================================================================
