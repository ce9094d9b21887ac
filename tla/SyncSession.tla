---------------------------- MODULE SyncSession ----------------------------
(***************************************************************************)
(* The life of a sync as the host sees it: the flow ZcashWallet.sync, the  *)
(* process-wide mutex, cancelSync and close on one side, the blocking      *)
(* native call with its lock SYNCING and its one cancellation channel on   *)
(* the other (ZcashWallet.kt, zcash-jni lib.rs and progress.rs, rlz        *)
(* sync.rs and api/sync.rs).                                               *)
(*                                                                         *)
(* What a sync does to the database is the subject of TransparentSync and  *)
(* RangeSync; here it is the lowest height of the wallet's accounts, and   *)
(* the phases matter by whether they listen for a cancel.                  *)
(***************************************************************************)
EXTENDS Integers, FiniteSets

CONSTANTS
    Wallet,     \* open wallets of the process
    Flow,       \* collections of a sync flow, each made once
    Requests,   \* what a host may ask of its flows: see request
    Caller,     \* threads of the host that call cancelSync and close
    NoFlow,     \* the mutex is free
    MaxHeight,  \* bound: targets
    MaxCancels, \* bound: calls of cancelSync
    MaxEdits    \* bound: rewinds and deletions of accounts

ASSUME SessionAssumption ==
    /\ Requests \subseteq [Flow -> [wallet : Wallet, empty : BOOLEAN]]
    /\ Wallet # {} /\ NoFlow \notin Flow
    /\ MaxHeight \in Nat /\ MaxCancels \in Nat /\ MaxEdits \in Nat

VARIABLES
    request,  \* of each flow, its wallet and whether it names no account
    flow,     \* the flows
    mutex,    \* ZcashSdk.syncMutex
    wallet,   \* the Kotlin objects
    height,   \* per wallet, the lowest height of its accounts
    native,   \* the native call
    syncing,  \* holder of SYNCING: "free", "sync", or another native call
    caller,   \* the callers
    cancels,  \* calls of cancelSync so far
    edits     \* rewinds and deletions so far

vars == <<request, flow, mutex, wallet, height, native, syncing, caller,
          cancels, edits>>

Height == 0 .. MaxHeight

Owner(f) == request[f].wallet

\* minOfOrNull of no account.
NoHeight == -1

NoCall == [flow |-> NoFlow, at |-> "none", cancel |-> FALSE]

\* The phases that hold a receiver of the cancellation channel.
Listening == {"transparent", "shielded"}

\* From onStart to the terminal state.
InMutex == {"called", "native", "ended", "finished"}

Over == {"synced", "stopped", "failed", "left"}

\* A flow with nothing to remember: not collected yet, or ended without a
\* terminal state.
Blank(at) == [at |-> at, target |-> 0, error |-> FALSE, gone |-> FALSE,
              asked |-> FALSE]

Left == Blank("left")

NoCaller == [at |-> "idle", wallet |-> CHOOSE w \in Wallet : TRUE]

-----------------------------------------------------------------------------
(* The flow.                                                               *)

\* The flow is collected and reads its target, the tip of the moment, before
\* the mutex.  latestHeight throws on a closed wallet or without an answer,
\* and the flow with it.
Collect(f, tip) ==
    /\ flow[f].at = "idle"
    /\ \/ /\ ~wallet[Owner(f)].closed
          /\ flow' = [flow EXCEPT ![f] =
                [@ EXCEPT !.at = "waiting", !.target = tip]]
       \/ flow' = [flow EXCEPT ![f] = Left]
    /\ UNCHANGED <<request, mutex, wallet, height, native, syncing, caller,
                   cancels, edits>>

\* Mutant of Started: a cancel of the past stays requested.
StartedKeepsRequest(r) == [r EXCEPT !.running = TRUE]

\* onStart.
Started(r) == [r EXCEPT !.cancelRequested = FALSE, !.running = TRUE]

EnterMutex(f) ==
    /\ flow[f].at = "waiting" /\ mutex = NoFlow
    /\ mutex' = f
    /\ wallet' = [wallet EXCEPT ![Owner(f)] = Started(@)]
    /\ flow' = [flow EXCEPT ![f].at = "called"]
    /\ UNCHANGED <<request, height, native, syncing, caller, cancels, edits>>

\* withNative: a closed wallet does not call.
CallNative(f) ==
    /\ flow[f].at = "called"
    /\ IF wallet[Owner(f)].closed
       THEN /\ flow' = [flow EXCEPT ![f] =
                  [@ EXCEPT !.at = "ended", !.error = TRUE]]
            /\ native' = native
       ELSE /\ flow' = [flow EXCEPT ![f].at = "native"]
            /\ native' = [NoCall EXCEPT !.flow = f, !.at = "entering"]
    /\ UNCHANGED <<request, mutex, wallet, height, syncing, caller, cancels,
                   edits>>

\* The progress poll throws once the wallet is closed: the scope waits for the
\* native call and the flow ends without a terminal state.
PollClosed(f) ==
    /\ flow[f].at = "native" /\ wallet[Owner(f)].closed /\ ~flow[f].gone
    /\ flow' = [flow EXCEPT ![f].gone = TRUE]
    /\ UNCHANGED <<request, mutex, wallet, height, native, syncing, caller,
                   cancels, edits>>

\* onFinish, in the finally of the native call.
Finish(f) ==
    /\ flow[f].at = "ended"
    /\ wallet' = [wallet EXCEPT ![Owner(f)].running = FALSE]
    /\ IF flow[f].gone
       THEN flow' = [flow EXCEPT ![f] = Left] /\ mutex' = NoFlow
       ELSE flow' = [flow EXCEPT ![f].at = "finished"] /\ mutex' = mutex
    /\ UNCHANGED <<request, height, native, syncing, caller, cancels, edits>>

\* completedSyncState.
CompletedState(f) ==
    IF height[Owner(f)] >= flow[f].target THEN "synced" ELSE "failed"

\* emitTerminalState: terminalSyncState, then the height that was reached.
\* Reading it fails on a closed wallet and may fail on any.
Report(f) ==
    LET end(s) ==
          flow' = [flow EXCEPT ![f] = [@ EXCEPT !.at = s, !.target = 0]]
    IN
    /\ flow[f].at = "finished"
    /\ IF flow[f].error
       THEN end(IF wallet[Owner(f)].cancelRequested THEN "stopped"
                ELSE "failed")
       ELSE IF request[f].empty THEN end("synced")
       ELSE \/ ~wallet[Owner(f)].closed /\ end(CompletedState(f))
            \/ end("failed")
    /\ mutex' = NoFlow
    /\ UNCHANGED <<request, wallet, height, native, syncing, caller, cancels,
                   edits>>

\* Mutant of MutexAfterLeave: the mutex is released at once.
MutexAfterLeaveAtOnce(f) == IF mutex = f THEN NoFlow ELSE mutex

\* Mutant of MutexAfterLeave: nobody releases the mutex.
MutexAfterLeaveNever(f) == mutex

\* The mutex after the collector of f has gone: the scope waits for a native
\* call that has begun.
MutexAfterLeave(f) ==
    IF mutex = f /\ flow[f].at # "native" THEN NoFlow ELSE mutex

\* Mutant of Unwinds: the finally runs although the native call goes on.
UnwindsAtOnce(f) == flow[f].at \in {"called", "native", "ended"}

\* A collector that goes now runs onFinish, in the finally around the native
\* call: the scope has no call to wait for.
Unwinds(f) == flow[f].at \in {"called", "ended"}

\* The collector is cancelled.  That does not stop a native call.
Leave(f) ==
    /\ flow[f].at \in {"waiting"} \cup InMutex /\ ~flow[f].gone
    /\ flow' = [flow EXCEPT ![f] =
          IF @.at = "native" THEN [@ EXCEPT !.gone = TRUE] ELSE Left]
    /\ wallet' = IF Unwinds(f) THEN [wallet EXCEPT ![Owner(f)].running = FALSE]
                 ELSE wallet
    /\ mutex' = MutexAfterLeave(f)
    /\ UNCHANGED <<request, height, native, syncing, caller, cancels, edits>>

-----------------------------------------------------------------------------
(* The native call.                                                        *)

\* The call returns with or without an error, and the lock, if it is held,
\* goes: the error slot is taken by the flow that called.
Return(failed) ==
    /\ flow' = [flow EXCEPT ![native.flow] =
          [@ EXCEPT !.at = "ended", !.error = failed]]
    /\ native' = NoCall
    /\ syncing' = IF syncing = "sync" THEN "free" ELSE syncing

Syncs == Owner(native.flow)
Target == flow[native.flow].target

\* registry::get.
HandleOpen(w) == wallet[w].handle

\* synchronize and the head of synchronize_impl: a removed handle is an error,
\* an empty list and a lock held elsewhere return at once without one.
EnterNative ==
    /\ native.at = "entering"
    /\ IF HandleOpen(Syncs) /\ ~request[native.flow].empty /\ syncing = "free"
       THEN /\ native' = [native EXCEPT !.at = "preparing"]
            /\ syncing' = "sync"
            /\ flow' = flow
       ELSE Return(~HandleOpen(Syncs))
    /\ UNCHANGED <<request, mutex, wallet, height, caller, cancels, edits>>

\* The next phase subscribes to the channel anew: a cancel not read is lost.
Proceed ==
    /\ \/ /\ native.at \in {"preparing", "details"}
          /\ height[Syncs] \in 0 .. (Target - 1)
          /\ native' = [native EXCEPT !.at = "transparent", !.cancel = FALSE]
       \/ /\ native.at = "transparent"
          /\ native' = [native EXCEPT !.at = "shielded", !.cancel = FALSE]
    /\ UNCHANGED <<request, flow, mutex, wallet, height, syncing, caller,
                   cancels, edits>>

\* The shielded pass of a range ends, and the blocks' times and transaction
\* details are fetched.
EndRange(h) ==
    /\ native.at = "shielded" /\ h \in (height[Syncs] + 1) .. Target
    /\ height' = [height EXCEPT ![Syncs] = h]
    /\ native' = [native EXCEPT !.at = "details", !.cancel = FALSE]
    /\ UNCHANGED <<request, flow, mutex, wallet, syncing, caller, cancels,
                   edits>>

\* Every range is done, or there is none: the wallet is ahead of the target
\* or has no account.
Succeed ==
    /\ native.at \in {"preparing", "details"}
    /\ height[Syncs] \notin 0 .. (Target - 1)
    /\ Return(FALSE)
    /\ UNCHANGED <<request, mutex, wallet, height, caller, cancels, edits>>

\* A listening phase reads the cancel.
HearCancel ==
    /\ native.at \in Listening /\ native.cancel
    /\ Return(TRUE)
    /\ UNCHANGED <<request, mutex, wallet, height, caller, cancels, edits>>

\* An error of the server or the database.  The shielded pass may have moved
\* the height on by chunks before, or back over a fork.
FailNative(h) ==
    /\ native.at \in {"preparing", "details"} \cup Listening
    /\ h = height[Syncs] \/ (native.at = "shielded" /\ h \in 0 .. Target)
    /\ height' = [height EXCEPT ![Syncs] = h]
    /\ Return(TRUE)
    /\ UNCHANGED <<request, mutex, wallet, caller, cancels, edits>>

NativeStep ==
    \/ EnterNative \/ Proceed \/ Succeed \/ HearCancel
    \/ \E h \in Height \cup {NoHeight} : EndRange(h) \/ FailNative(h)

-----------------------------------------------------------------------------
(* cancelSync and close.                                                   *)

\* The wallet asks: its flag is up, and the flow that is in the mutex for it
\* has been asked to stop.
Ask(w) ==
    /\ wallet' = [wallet EXCEPT ![w].cancelRequested = TRUE]
    /\ flow' = [f \in Flow |->
          IF Owner(f) = w /\ flow[f].at \in InMutex
          THEN [flow[f] EXCEPT !.asked = TRUE] ELSE flow[f]]

CancelSync(c, w) ==
    /\ caller[c].at = "idle" /\ cancels < MaxCancels
    /\ Ask(w)
    /\ caller' = [caller EXCEPT ![c] = [at |-> "cancel", wallet |-> w]]
    /\ cancels' = cancels + 1
    /\ UNCHANGED <<request, mutex, height, native, syncing, edits>>

\* cancel_sync: the channel reaches the phase that listens now, of whichever
\* wallet; without one nothing happens.
SendCancel(c) ==
    /\ caller[c].at \in {"cancel", "closing"}
    /\ native' = [native EXCEPT !.cancel = native.at \in Listening]
    /\ caller' = [caller EXCEPT ![c] = IF @.at = "cancel" THEN NoCaller
                                       ELSE [@ EXCEPT !.at = "marking"]]
    /\ UNCHANGED <<request, flow, mutex, wallet, height, syncing, cancels,
                   edits>>

Close(c, w) ==
    /\ caller[c].at = "idle" /\ ~wallet[w].closed
    /\ IF wallet[w].running THEN Ask(w) ELSE UNCHANGED <<wallet, flow>>
    /\ caller' = [caller EXCEPT ![c] =
          [at |-> IF wallet[w].running THEN "closing" ELSE "marking",
           wallet |-> w]]
    /\ UNCHANGED <<request, mutex, height, native, syncing, cancels, edits>>

MarkClosed(c) ==
    /\ caller[c].at = "marking"
    /\ wallet' = [wallet EXCEPT ![caller[c].wallet].closed = TRUE]
    /\ caller' = [caller EXCEPT ![c].at = "removing"]
    /\ UNCHANGED <<request, flow, mutex, height, native, syncing, cancels,
                   edits>>

\* registry::remove, and close returns.
RemoveHandle(c) ==
    /\ caller[c].at = "removing"
    /\ wallet' = [wallet EXCEPT ![caller[c].wallet].handle = FALSE]
    /\ caller' = [caller EXCEPT ![c] = NoCaller]
    /\ UNCHANGED <<request, flow, mutex, height, native, syncing, cancels,
                   edits>>

-----------------------------------------------------------------------------
(* Around them.                                                            *)

\* A window of a discovery walk, or any other call of locked_connection.
TakeLock ==
    /\ syncing = "free" /\ syncing' = "other"
    /\ UNCHANGED <<request, flow, mutex, wallet, height, native, caller,
                   cancels, edits>>

ReleaseLock ==
    /\ syncing = "other" /\ syncing' = "free"
    /\ UNCHANGED <<request, flow, mutex, wallet, height, native, caller,
                   cancels, edits>>

\* rewind_sync and delete_account under the lock: the lowest height falls to
\* what was rewound, or rises with the account that was lowest.
EditAccounts(w, h) ==
    /\ syncing = "free" /\ wallet[w].handle /\ edits < MaxEdits
    /\ height[w] # NoHeight /\ h # height[w]
    /\ height' = [height EXCEPT ![w] = h]
    /\ edits' = edits + 1
    /\ UNCHANGED <<request, flow, mutex, wallet, native, syncing, caller,
                   cancels>>

-----------------------------------------------------------------------------

Init ==
    /\ request \in Requests
    /\ flow = [f \in Flow |-> Blank("idle")]
    /\ mutex = NoFlow
    /\ wallet = [w \in Wallet |->
          [cancelRequested |-> FALSE, running |-> FALSE, closed |-> FALSE,
           handle |-> TRUE]]
    /\ height = [w \in Wallet |-> 0]
    /\ native = NoCall /\ syncing = "free"
    /\ caller = [c \in Caller |-> NoCaller]
    /\ cancels = 0 /\ edits = 0

\* The steps a flow takes by itself.
FlowStep(f) ==
    EnterMutex(f) \/ CallNative(f) \/ Finish(f) \/ Report(f)

CallerStep(c) == SendCancel(c) \/ MarkClosed(c) \/ RemoveHandle(c)

Next ==
    \/ \E f \in Flow, tip \in Height : Collect(f, tip)
    \/ \E f \in Flow : FlowStep(f) \/ PollClosed(f) \/ Leave(f)
    \/ NativeStep
    \/ \E c \in Caller, w \in Wallet : CancelSync(c, w) \/ Close(c, w)
    \/ \E c \in Caller : CallerStep(c)
    \/ TakeLock \/ ReleaseLock
    \/ \E w \in Wallet, h \in Height \cup {NoHeight} : EditAccounts(w, h)

Spec == Init /\ [][Next]_vars

\* Coroutines and threads go on, and every server call is answered or fails.
FairSpec ==
    /\ Spec
    /\ \A f \in Flow : WF_vars(FlowStep(f))
    /\ WF_vars(NativeStep)

-----------------------------------------------------------------------------
(* Properties.                                                             *)

TypeOK ==
    /\ request \in [Flow -> [wallet : Wallet, empty : BOOLEAN]]
    /\ flow \in [Flow -> [at : {"idle", "waiting"} \cup InMutex
                               \cup Over,
                          target : Height, error : BOOLEAN, gone : BOOLEAN,
                          asked : BOOLEAN]]
    /\ mutex \in Flow \cup {NoFlow}
    /\ wallet \in [Wallet -> [cancelRequested : BOOLEAN, running : BOOLEAN,
                              closed : BOOLEAN, handle : BOOLEAN]]
    /\ height \in [Wallet -> Height \cup {NoHeight}]
    /\ native \in [flow : Flow \cup {NoFlow}, cancel : BOOLEAN,
                   at : {"none", "entering", "preparing", "details"}
                        \cup Listening]
    /\ syncing \in {"free", "sync", "other"}
    /\ syncing = "sync" <=> native.at \notin {"none", "entering"}
    /\ caller \in [Caller -> [at : {"idle", "cancel", "closing", "marking",
                                   "removing"},
                              wallet : Wallet]]
    /\ cancels \in 0 .. MaxCancels /\ edits \in 0 .. MaxEdits

\* A native call belongs to the flow that holds the mutex, even when its
\* collector has gone: a second call would find SYNCING taken, return success
\* without work, and wipe the error slot of the first (runNativeSync's
\* supervisorScope, progress.rs reset).
MutexCoversNative ==
    native.at # "none" =>
        mutex = native.flow /\ flow[native.flow].at = "native"

\* "Only the wallet that asked reports Stopped; another wallet's sync ends as
\* Failed": a flow whose native call failed ends as Stopped iff its own wallet
\* asked for it since the flow began, whatever cancels came before, from other
\* wallets, or for other flows of the same wallet (cancelRequested, onStart).
StoppedIffAsked ==
    \A f \in Flow : flow[f].error /\ flow[f].at \in {"stopped", "failed"} =>
                        (flow[f].at = "stopped" <=> flow[f].asked)

\* The flag by which close decides whether to cancel is the truth: it is up
\* exactly while a flow of the wallet is between onStart and the end of its
\* native call, though flows of other wallets and earlier ones of its own come
\* and go, and a collector that leaves goes before its call does.  A flag down
\* too early would let close leave its own sync running, one up too long would
\* make it cancel another wallet's (syncing, onStart, onFinish, close).
RunningIsTrue ==
    \A w \in Wallet :
        wallet[w].running <=>
            \E f \in Flow : /\ Owner(f) = w
                            /\ flow[f].at \in {"called", "native", "ended"}

\* A collected flow ends, whoever cancels, closes or leaves: nobody keeps the
\* mutex.
EveryFlowEnds == \A f \in Flow : flow[f].at = "waiting" ~> flow[f].at \in Over
=============================================================================
