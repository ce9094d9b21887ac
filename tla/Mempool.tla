------------------------------ MODULE Mempool ------------------------------
(***************************************************************************)
(* The mempool subscription: the process-wide run of                       *)
(* rust/zcash-jni/src/mempool.rs, the reader of rust/rlz/src/mempool.rs    *)
(* and the Kotlin flows, stopMempool and close of ZcashWallet.kt.          *)
(*                                                                         *)
(* A collection starts at most one run, so a run is named by its flow.     *)
(* Everything done under the slot's mutex is one action; a poll waits for  *)
(* its event under it and changes nothing meanwhile, so it is the action   *)
(* of its return.  A stop takes the run out of the slot and cancels it,    *)
(* then waits for the reader outside the mutex; its caller is a flow in    *)
(* its finally block, a wallet being closed or the host.                   *)
(*                                                                         *)
(* A report, of a block or a transaction, is its place in the run; heights *)
(* and notes are left out.                                                 *)
(***************************************************************************)
EXTENDS Integers, Sequences, FiniteSets

CONSTANTS
    Wallet,     \* wallets of the process
    Flow,       \* collections of mempool()
    WalletOf,   \* WalletOf[f]: the wallet f belongs to
    Host,       \* host threads that call stopMempool
    NoRun,      \* no run
    MaxEvents,  \* bound: blocks and transactions one reader reports
    MaxStops    \* bound: stopMempool calls of the host

ASSUME MempoolAssumption ==
    /\ WalletOf \in [Flow -> Wallet]
    /\ NoRun \notin Flow
    /\ Flow \cap Wallet = {} /\ Flow \cap Host = {} /\ Wallet \cap Host = {}
    /\ MaxEvents \in Nat \ {0} /\ MaxStops \in Nat

VARIABLES
    slot,      \* RUN: the run in the slot
    reader,    \* what the reader of each run is doing
    queue,     \* the events of each run not yet received
    sent,      \* how many blocks and transactions each reader has reported
    cancelled, \* runs whose token is cancelled
    flow,      \* each collection
    stop,      \* what each caller of stop is doing
    wallet,    \* how far each wallet is closed
    stops,     \* stopMempool calls so far
    shared     \* history: runs another collection has received from

vars == <<slot, reader, queue, sent, cancelled, flow, stop, wallet,
          stops, shared>>
readerVars == <<reader, queue, sent>>
walletVars == <<wallet, stops>>

Run == Flow \cup {NoRun}
Caller == Flow \cup Wallet \cup Host

\* A report carries its place in the run; the verdict is the last event.
Report == [kind : {"report"}, n : 1 .. MaxEvents]
ReportAt(n) == [kind |-> "report", n |-> n]
Verdict == [kind : {"clean", "error"}, n : {0}]
Event == Report \cup Verdict

ReaderState == {"none", "ask", "open", "stream", "ended"}
FlowState == {"new", "checked", "ready", "polls", "stops", "done", "gone"}
WalletState == {"open", "stops", "closed"}
\* A collection ends cleanly or by an exception, which a cancellation is too.
Outcome == {"none", "clean", "thrown"}

\* A call of stop: not under way, about to take the slot, waiting for a run.
NoStop == [at |-> "idle", run |-> NoRun]
Taking == [at |-> "take", run |-> NoRun]
Joining(r) == [at |-> "join", run |-> r]
StopState == {NoStop, Taking} \cup {Joining(r) : r \in Flow}

\* leaves: the collector has left while a native call runs; last: the place
\* of the last report of its own run.
FlowRec == [at : FlowState, out : Outcome, leaves : BOOLEAN, last : 0 .. MaxEvents]

Live(r) == reader[r] \notin {"none", "ended"}

TypeOK ==
    /\ slot \in Run
    /\ reader \in [Flow -> ReaderState]
    /\ queue \in [Flow -> Seq(Event)]
    /\ sent \in [Flow -> 0 .. MaxEvents]
    /\ cancelled \subseteq Flow
    /\ flow \in [Flow -> FlowRec]
    /\ stop \in [Caller -> StopState]
    /\ wallet \in [Wallet -> WalletState]
    /\ stops \in 0 .. MaxStops
    /\ shared \subseteq Flow
    \* The queue is gone when its run has left the slot.
    /\ \A r \in Flow : queue[r] # << >> => slot = r

Init ==
    /\ slot = NoRun
    /\ reader = [f \in Flow |-> "none"]
    /\ queue = [f \in Flow |-> << >>]
    /\ sent = [f \in Flow |-> 0]
    /\ cancelled = {}
    /\ flow = [f \in Flow |-> [at |-> "new", out |-> "none",
                               leaves |-> FALSE, last |-> 0]]
    /\ stop = [p \in Caller |-> NoStop]
    /\ wallet = [w \in Wallet |-> "open"]
    /\ stops = 0 /\ shared = {}

-----------------------------------------------------------------------------
(* The reader of run r.                                                    *)

\* A send on the queue; nobody receives once the run has left the slot, and
\* nothing is counted.
Queued(r, e) == IF slot = r THEN [queue EXCEPT ![r] = Append(@, e)] ELSE queue

ReaderStep(r, from, to) ==
    /\ reader[r] = from
    /\ reader' = [reader EXCEPT ![r] = to]
    /\ UNCHANGED <<slot, cancelled, flow, stop, walletVars, shared>>

ReaderReports(r) ==
    /\ sent[r] < MaxEvents
    /\ sent' = IF slot = r THEN [sent EXCEPT ![r] = @ + 1] ELSE sent
    /\ queue' = Queued(r, ReportAt(sent[r] + 1))

\* The connections, the account queries and latest_height: no cancellation
\* interrupts them.
Ask(r) == ReaderStep(r, "ask", "open") /\ ReaderReports(r)

OpenStream(r) == ReaderStep(r, "open", "stream") /\ UNCHANGED <<queue, sent>>

ReadTx(r) == ReaderStep(r, "stream", "stream") /\ ReaderReports(r)

\* The server ends the stream at each block; the next Ask needs room to report.
StreamEnds(r) ==
    /\ sent[r] < MaxEvents
    /\ ReaderStep(r, "stream", "ask") /\ UNCHANGED <<queue, sent>>

\* The verdict is sent and the task ends.
Ends(r, kind) ==
    /\ reader' = [reader EXCEPT ![r] = "ended"]
    /\ queue' = Queued(r, [kind |-> kind, n |-> 0])
    /\ UNCHANGED <<slot, sent, cancelled, flow, stop, walletVars, shared>>

\* Mutant of HearCancel: the open of the stream is not raced with the token.
HearCancelInStream(r) ==
    /\ r \in cancelled /\ reader[r] = "stream"
    /\ Ends(r, "clean")

\* The two select! of run_mempool_impl that race the token.
HearCancel(r) ==
    /\ r \in cancelled /\ reader[r] \in {"open", "stream"}
    /\ Ends(r, "clean")

\* An error, or a panic that the Verdict's drop reports.
ReaderFails(r) == Live(r) /\ Ends(r, "error")

Reader(r) ==
    \/ Ask(r) \/ OpenStream(r) \/ ReadTx(r) \/ StreamEnds(r)
    \/ HearCancel(r) \/ ReaderFails(r)

-----------------------------------------------------------------------------
(* mempool::stop.                                                          *)

\* Mutant of Take: the run stays in the slot until its reader has stopped.
TakeLater(p) ==
    /\ stop[p] = Taking
    /\ stop' = [stop EXCEPT ![p] = IF slot = NoRun THEN NoStop ELSE Joining(slot)]
    /\ cancelled' = cancelled \cup ({slot} \ {NoRun})
    /\ UNCHANGED <<slot, readerVars, flow, walletVars, shared>>

\* The run leaves the slot, its queue goes with it, its token is cancelled.
Take(p) ==
    /\ stop[p] = Taking
    /\ stop' = [stop EXCEPT ![p] = IF slot = NoRun THEN NoStop ELSE Joining(slot)]
    /\ slot' = NoRun
    /\ cancelled' = cancelled \cup ({slot} \ {NoRun})
    /\ queue' = [r \in Flow |-> IF r = slot THEN << >> ELSE queue[r]]
    /\ sent' = [r \in Flow |-> IF r = slot THEN 0 ELSE sent[r]]
    /\ UNCHANGED <<reader, flow, walletVars, shared>>

Join(p) ==
    /\ stop[p].at = "join" /\ reader[stop[p].run] = "ended"
    /\ stop' = [stop EXCEPT ![p] = NoStop]
    /\ UNCHANGED <<slot, readerVars, cancelled, flow, walletVars, shared>>

-----------------------------------------------------------------------------
(* A collection.  A native call is not interrupted when the collector      *)
(* leaves: withContext throws when the call has returned.                  *)

FlowStep(f, from, rec) ==
    /\ flow[f].at = from
    /\ flow' = [flow EXCEPT ![f] = rec]
    /\ UNCHANGED <<reader, sent, cancelled, walletVars>>

\* The collection ends before its try block.
Gone(f) == [flow[f] EXCEPT !.at = "gone", !.out = "thrown", !.leaves = FALSE]

\* Mutant of Closed: withNative does not look at the flag.
ClosedNever(f) == FALSE

\* The flag closed of the wallet, which withNative reads.
Closed(f) == wallet[WalletOf[f]] = "closed"

\* The next poll, or the finally block with the outcome it will end in, which
\* begins by calling stopMempool.
Goes(f, from, out) ==
    LET end == IF flow[f].leaves THEN "thrown" ELSE out IN
    /\ FlowStep(f, from,
          IF end = "none" THEN [flow[f] EXCEPT !.at = "ready"]
          ELSE [at |-> "stops", out |-> end, leaves |-> FALSE, last |-> 0])
    /\ stop' = IF end = "none" THEN stop ELSE [stop EXCEPT ![f] = Taking]

\* withNative before mempoolStart.
Collect(f) ==
    /\ FlowStep(f, "new", IF Closed(f) THEN Gone(f)
                          ELSE [flow[f] EXCEPT !.at = "checked"])
    /\ UNCHANGED <<slot, queue, stop, shared>>

\* Mutant of Refused: a running subscription is replaced.
RefusedNever(f) == Closed(f)

\* mempoolStart fails: the handle is gone or the slot is taken.
Refused(f) == Closed(f) \/ slot # NoRun

RefuseStart(f) ==
    /\ Refused(f)
    /\ FlowStep(f, "checked", Gone(f))
    /\ UNCHANGED <<slot, queue, stop, shared>>

\* mempool::start.  The call is before the try: a collector that has left
\* meanwhile leaves the run behind.
Start(f) ==
    /\ flow[f].at = "checked" /\ ~Refused(f)
    /\ slot' = f
    /\ reader' = [reader EXCEPT ![f] = "ask"]
    /\ flow' = [flow EXCEPT ![f] =
                  IF @.leaves THEN Gone(f) ELSE [@ EXCEPT !.at = "ready"]]
    /\ UNCHANGED <<queue, sent, cancelled, stop, walletVars, shared>>

\* withNative before mempoolNext.
Poll(f) ==
    /\ ~Closed(f)
    /\ FlowStep(f, "ready", [flow[f] EXCEPT !.at = "polls"])
    /\ UNCHANGED <<slot, queue, stop, shared>>

PollClosed(f) ==
    /\ Closed(f)
    /\ Goes(f, "ready", "thrown")
    /\ UNCHANGED <<slot, queue, shared>>

\* A poll of a process without a run reports a clean end.
PollNoRun(f) ==
    /\ slot = NoRun
    /\ Goes(f, "polls", "clean")
    /\ UNCHANGED <<slot, queue, shared>>

\* Mutant of PollTimesOut: the wait that is given up had received an event.
PollTimesOutLossy(f) ==
    /\ slot # NoRun /\ queue[slot] # << >>
    /\ Goes(f, "polls", "none")
    /\ queue' = [queue EXCEPT ![slot] = Tail(@)]
    /\ UNCHANGED <<slot, shared>>

PollTimesOut(f) ==
    /\ slot # NoRun
    /\ Goes(f, "polls", "none")
    /\ UNCHANGED <<slot, queue, shared>>

\* A report is emitted.
ReceiveReport(f) ==
    LET e == Head(queue[slot]) IN
    /\ slot # NoRun /\ queue[slot] # << >> /\ e.kind = "report"
    /\ ~flow[f].leaves
    /\ FlowStep(f, "polls", [flow[f] EXCEPT !.at = "ready",
                                !.last = IF slot = f THEN e.n ELSE @])
    /\ queue' = [queue EXCEPT ![slot] = Tail(@)]
    /\ shared' = shared \cup ({slot} \ {f})
    /\ UNCHANGED <<slot, stop>>

\* Mutant of VerdictOf: parseMempoolEvent takes every end for a clean one.
VerdictOfAny(e) == "clean"

\* parseMempoolEvent of the last event: null, or an exception.
VerdictOf(e) == IF e.kind = "error" THEN "thrown" ELSE "clean"

\* The last event of a run, or any event for a collector that has left.
ReceiveEnd(f) ==
    LET e == Head(queue[slot]) IN
    /\ slot # NoRun /\ queue[slot] # << >>
    /\ flow[f].leaves \/ e.kind \in {"clean", "error"}
    /\ Goes(f, "polls", VerdictOf(e))
    /\ queue' = [queue EXCEPT ![slot] = Tail(@)]
    /\ shared' = shared \cup ({slot} \ {f})
    /\ UNCHANGED slot

\* The queue is closed: its verdict went to somebody else.
ReceiveClosed(f) ==
    /\ slot # NoRun /\ queue[slot] = << >> /\ reader[slot] = "ended"
    /\ Goes(f, "polls", "clean")
    /\ UNCHANGED <<slot, queue, shared>>

\* The collector leaves at an emission, or while a native call runs.
LeaveEmission(f) == Goes(f, "ready", "thrown") /\ UNCHANGED <<slot, queue, shared>>

LeaveCall(f) ==
    /\ flow[f].at \in {"checked", "polls"} /\ ~flow[f].leaves
    /\ flow' = [flow EXCEPT ![f].leaves = TRUE]
    /\ UNCHANGED <<slot, readerVars, cancelled, stop, walletVars, shared>>

\* Mutant of Finish: the finally block does not wait for stopMempool.
FinishAtOnce(f) ==
    /\ FlowStep(f, "stops", [flow[f] EXCEPT !.at = "done"])
    /\ UNCHANGED <<slot, queue, stop, shared>>

\* stopMempool has returned.
Finish(f) ==
    /\ stop[f] = NoStop
    /\ FlowStep(f, "stops", [flow[f] EXCEPT !.at = "done"])
    /\ UNCHANGED <<slot, queue, stop, shared>>

Collection(f) ==
    \/ Collect(f) \/ RefuseStart(f) \/ Start(f)
    \/ Poll(f) \/ PollClosed(f) \/ PollNoRun(f) \/ PollTimesOut(f)
    \/ ReceiveReport(f) \/ ReceiveEnd(f) \/ ReceiveClosed(f)
    \/ LeaveEmission(f) \/ LeaveCall(f) \/ Finish(f)

-----------------------------------------------------------------------------
(* The host.                                                               *)

StopMempool(h) ==
    /\ stop[h] = NoStop /\ stops < MaxStops
    /\ stop' = [stop EXCEPT ![h] = Taking]
    /\ stops' = stops + 1
    /\ UNCHANGED <<slot, readerVars, cancelled, flow, wallet, shared>>

\* close: a running sync is cancelled first, see SyncSession; then comes
\* stopMempool, then the flag and the handle go.
Close(w) ==
    /\ wallet[w] = "open"
    /\ wallet' = [wallet EXCEPT ![w] = "stops"]
    /\ stop' = [stop EXCEPT ![w] = Taking]
    /\ UNCHANGED <<slot, readerVars, cancelled, flow, stops, shared>>

MarkClosed(w) ==
    /\ wallet[w] = "stops" /\ stop[w] = NoStop
    /\ wallet' = [wallet EXCEPT ![w] = "closed"]
    /\ UNCHANGED <<slot, readerVars, cancelled, flow, stop, stops, shared>>

Next ==
    \/ \E f \in Flow : Reader(f) \/ Collection(f)
    \/ \E p \in Caller : Take(p) \/ Join(p)
    \/ \E h \in Host : StopMempool(h)
    \/ \E w \in Wallet : Close(w) \/ MarkClosed(w)

Spec == Init /\ [][Next]_vars

\* What answers a poll.
PollReturns(f) ==
    \/ PollNoRun(f) \/ PollTimesOut(f)
    \/ ReceiveReport(f) \/ ReceiveEnd(f) \/ ReceiveClosed(f)

\* latest_height answers or fails; the open of the stream and its items need
\* not come.  select! polls its branches in random order, so a token that is
\* cancelled is heard in the end however often the stream is ready first.
\* Coroutines that can run do, collectors come back from an
\* emission, and the mutex lets every waiting thread in.
Fairness ==
    /\ \A r \in Flow : WF_vars(Ask(r)) /\ SF_vars(HearCancel(r))
    /\ \A f \in Flow :
          /\ WF_vars(Start(f) \/ RefuseStart(f))
          /\ WF_vars(Poll(f) \/ PollClosed(f)) /\ WF_vars(PollReturns(f))
          /\ WF_vars(Finish(f))
    /\ \A p \in Caller : WF_vars(Take(p)) /\ WF_vars(Join(p))
    /\ \A w \in Wallet : WF_vars(MarkClosed(w))

FairSpec == Spec /\ Fairness

-----------------------------------------------------------------------------
(* No reader is stranded: one that still runs is in the slot, where the    *)
(* next stop finds it, or a stop is waiting for it, whatever starts, stops *)
(* and closes cross each other (start, stop).                              *)
NoStrandedReader ==
    \A r \in Flow : Live(r) => slot = r \/ \E p \in Caller : stop[p] = Joining(r)

(* What the subscription promises about runs, see Subscription: a run is   *)
(* begun once, with no other held, let go once, and waited for until its   *)
(* reader has stopped.                                                     *)
Sub == INSTANCE Subscription WITH
           Run <- Flow, None <- NoRun, held <- slot,
           live <- {r \in Flow : Live(r)},
           begun <- {r \in Flow : reader[r] # "none"},
           waited <- {r \in Flow : \E p \in Caller : stop[p] = Joining(r)}

ImplementsSubscription == Sub!Spec

(* A collection that reached its try block frees the slot: when it has     *)
(* ended, no later collection is refused on its account (mempool, stop).   *)
EndedCollectionFreesSlot == \A f \in Flow : flow[f].at = "done" => slot # f

(* A clean end is a stop: a collection that ends cleanly had its run taken *)
(* out of the slot by a stop, and no failure of the reader is told as a    *)
(* clean end, unless another collection received from the same run         *)
(* (Verdict, recv_within, next).                                           *)
CleanMeansStopped ==
    \A f \in Flow : flow[f].out = "clean" => f \in cancelled \/ f \in shared

\* Nobody else has received from the run f polls.
Alone(f) == slot = f /\ f \notin shared /\ flow[f].at \in {"ready", "polls"}

\* The reports f has yet to receive are in its queue, then the verdict.
Due(f) == sent[f] - flow[f].last
AllQueued(f) ==
    /\ Due(f) >= 0
    /\ IF reader[f] = "ended"
       THEN Len(queue[f]) = Due(f) + 1 /\ queue[f][Due(f) + 1] \in Verdict
       ELSE Len(queue[f]) = Due(f)
    /\ \A i \in 1 .. Due(f) : queue[f][i] = ReportAt(flow[f].last + i)

(* While a collection is alone with its run, the queue holds exactly the   *)
(* reports it has not received, in order, and then the verdict: none is    *)
(* lost or doubled by timeouts, by the end of a stream or by stops that    *)
(* meant an earlier run (recv_within, run_mempool_impl).                   *)
NothingLost == \A f \in Flow : Alone(f) => AllQueued(f)

(* Every stop returns, though it waits for the slot's mutex and for the    *)
(* reader: whenever some are under way, a time comes when none is (stop,   *)
(* run_mempool_impl).                                                      *)
StopsReturn ==
    (\E p \in Caller : stop[p] # NoStop) ~> (\A p \in Caller : stop[p] = NoStop)

(* Closing a wallet ends its collections, whichever call they are in.      *)
CloseEndsCollections ==
    \A w \in Wallet :
        wallet[w] = "closed" ~>
            \A f \in Flow : WalletOf[f] = w => flow[f].at \in {"new", "done", "gone"}

(* What the doc of mempool() says: "leaving the flow always stops the      *)
(* run".                                                                   *)
LeavingStopsTheRun ==
    \A f \in Flow : flow[f].at \in {"done", "gone"} => slot # f
=============================================================================
