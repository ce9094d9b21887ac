------------------------- MODULE SyncSessionProofs -------------------------
(* Safety of SyncSession for every number of wallets, flows and callers.   *)
(* The inductive invariant says who is in the mutex, that a native call is *)
(* made from there, and that the flag a wallet's flow will read at its end *)
(* is exactly whether that flow was asked to stop.                         *)
EXTENDS SyncSession, TLAPS

FlowRec == [at : {"idle", "waiting"} \cup InMutex \cup Over, target : Height,
            error : BOOLEAN, gone : BOOLEAN, asked : BOOLEAN]

WalletRec == [cancelRequested : BOOLEAN, running : BOOLEAN, closed : BOOLEAN,
              handle : BOOLEAN]

\* A flow is between onStart and its terminal state iff it holds the mutex.
Exclusive == \A f \in Flow : flow[f].at \in InMutex <=> mutex = f

\* A native call has its flow waiting for it, and the other way round.
CallBelongs ==
    /\ native.at # "none" =>
          native.flow \in Flow /\ flow[native.flow].at = "native"
    /\ \A f \in Flow : flow[f].at = "native" => native.flow = f

\* The flag that the flow in the mutex will read tells whether it was asked.
FlagIsOwn ==
    /\ \A f \in Flow : flow[f].at \in {"idle", "waiting"} =>
          flow[f].asked = FALSE
    /\ \A f \in Flow : flow[f].at \in InMutex =>
          flow[f].asked = wallet[Owner(f)].cancelRequested

SInv == TypeOK /\ Exclusive /\ CallBelongs /\ FlagIsOwn /\ StoppedIffAsked

(* The initial states.                                                     *)
LEMMA InitSInv == Init => SInv
<1> SUFFICES ASSUME Init PROVE SInv
  OBVIOUS
<1> USE SessionAssumption
<1>1. NoCaller \in [at : {"idle", "cancel", "closing", "marking", "removing"},
                    wallet : Wallet]
  BY DEF NoCaller
<1>2. TypeOK
  BY <1>1 DEF Init, TypeOK, Blank, NoCall, Height, NoHeight
<1> QED BY <1>2 DEF Init, SInv, Exclusive, CallBelongs, FlagIsOwn, StoppedIffAsked,
                    Blank, NoCall, InMutex

-----------------------------------------------------------------------------
(* The steps of a flow.                                                    *)

(* Changing one wallet's record keeps the wallets well typed.              *)
LEMMA WalletRecs ==
    ASSUME SInv, NEW w \in Wallet, NEW r \in WalletRec, wallet' = [wallet EXCEPT ![w] = r]
    PROVE  /\ wallet' \in [Wallet -> WalletRec] /\ wallet'[w] = r
           /\ \A v \in Wallet : v # w => wallet'[v] = wallet[v]
<1>1. wallet \in [Wallet -> WalletRec]
  BY DEF SInv, TypeOK, WalletRec
<1> HIDE DEF WalletRec
<1> QED BY <1>1

(* The end of a sync: running goes, the request to cancel stays.           *)
LEMMA WalletStops ==
    ASSUME SInv, NEW w \in Wallet, wallet' = [wallet EXCEPT ![w].running = FALSE]
    PROVE  /\ wallet' \in [Wallet -> WalletRec]
           /\ \A v \in Wallet : wallet'[v].cancelRequested = wallet[v].cancelRequested
<1>1. wallet[w] \in WalletRec
  BY DEF SInv, TypeOK, WalletRec
<1> DEFINE r == [wallet[w] EXCEPT !.running = FALSE]
<1>2. r \in WalletRec /\ r.cancelRequested = wallet[w].cancelRequested
  BY <1>1 DEF WalletRec
<1>3. wallet' = [wallet EXCEPT ![w] = r]
  OBVIOUS
<1> HIDE DEF r
<1> QED BY <1>2, <1>3, WalletRecs

(* Changing one flow keeps the flows well typed.                           *)
LEMMA FlowTyped ==
    ASSUME SInv, NEW f \in Flow, NEW r \in FlowRec, flow' = [flow EXCEPT ![f] = r]
    PROVE  flow' \in [Flow -> FlowRec] /\ flow'[f] = r
BY DEF SInv, TypeOK, FlowRec

(* Records of flows.                                                       *)
LEMMA FlowRecs ==
    ASSUME SInv, NEW f \in Flow
    PROVE  /\ flow[f] \in FlowRec /\ Left \in FlowRec
           /\ \A at \in {"idle", "waiting"} \cup InMutex \cup Over :
                 [flow[f] EXCEPT !.at = at] \in FlowRec
           /\ \A at \in {"idle", "waiting"} \cup InMutex \cup Over, h \in Height :
                 [flow[f] EXCEPT !.at = at, !.target = h] \in FlowRec
           /\ \A e \in BOOLEAN : [flow[f] EXCEPT !.at = "ended", !.error = e] \in FlowRec
           /\ [flow[f] EXCEPT !.gone = TRUE] \in FlowRec
           /\ [flow[f] EXCEPT !.asked = TRUE] \in FlowRec
<1> USE SessionAssumption
<1>1. flow[f] \in FlowRec
  BY DEF SInv, TypeOK, FlowRec
<1>2. Left \in FlowRec
  <2>1. 0 \in Height /\ "left" \in Over
    BY DEF Height, Over
  <2> QED BY <2>1 DEF Left, Blank, FlowRec
<1>3. \A at \in {"idle", "waiting"} \cup InMutex \cup Over :
         [flow[f] EXCEPT !.at = at] \in FlowRec
  BY <1>1 DEF FlowRec
<1>4. \A at \in {"idle", "waiting"} \cup InMutex \cup Over, h \in Height :
         [flow[f] EXCEPT !.at = at, !.target = h] \in FlowRec
  BY <1>1 DEF FlowRec
<1>5. \A e \in BOOLEAN : [flow[f] EXCEPT !.at = "ended", !.error = e] \in FlowRec
  BY <1>1 DEF FlowRec, InMutex
<1>6. [flow[f] EXCEPT !.gone = TRUE] \in FlowRec /\ [flow[f] EXCEPT !.asked = TRUE] \in FlowRec
  BY <1>1 DEF FlowRec
<1> QED BY <1>1, <1>2, <1>3, <1>4, <1>5, <1>6, Zenon

(* Collecting a flow.                                                      *)
LEMMA CollectSInv ==
    ASSUME SInv, NEW f \in Flow, NEW tip \in Height, Collect(f, tip)
    PROVE  SInv'
<1> USE SessionAssumption
<1>1. TypeOK'
  <2>1. /\ [flow[f] EXCEPT !.at = "waiting", !.target = tip] \in FlowRec
        /\ Left \in FlowRec
    BY FlowRecs
  <2>2. flow' \in [Flow -> FlowRec]
    BY <2>1, FlowTyped DEF Collect
  <2> QED BY <2>2 DEF SInv, TypeOK, Collect, FlowRec
<1>2. \A g \in Flow : g # f => flow'[g] = flow[g]
  BY DEF SInv, TypeOK, Collect
<1>3. flow[f].at = "idle" /\ flow'[f].at \in {"waiting", "left"} /\ flow'[f].asked = FALSE
  <2>1. flow[f].at = "idle" /\ flow[f].asked = FALSE
    BY DEF SInv, FlagIsOwn, Collect
  <2>2. flow'[f] = Left \/ flow'[f] = [flow[f] EXCEPT !.at = "waiting", !.target = tip]
    BY FlowRecs, FlowTyped DEF Collect
  <2>3. flow[f] \in FlowRec
    BY FlowRecs
  <2>4. CASE flow'[f] = Left
    BY <2>1, <2>4 DEF Left, Blank
  <2>5. CASE flow'[f] = [flow[f] EXCEPT !.at = "waiting", !.target = tip]
    BY <2>1, <2>3, <2>5 DEF FlowRec
  <2> QED BY <2>2, <2>4, <2>5
<1>4. UNCHANGED <<request, mutex, wallet, native>>
  BY DEF Collect
<1> QED
  BY <1>1, <1>2, <1>3, <1>4
  DEF SInv, Exclusive, CallBelongs, FlagIsOwn, StoppedIffAsked, InMutex, Owner

(* Entering the mutex: the flag is reset for the flow that enters.         *)
LEMMA EnterMutexSInv ==
    ASSUME SInv, NEW f \in Flow, EnterMutex(f)
    PROVE  SInv'
<1> USE SessionAssumption
<1>1. Owner(f) \in Wallet
  BY DEF SInv, TypeOK, Owner
<1>0. wallet' \in [Wallet -> WalletRec] /\ wallet'[Owner(f)].cancelRequested = FALSE
  <2>1. wallet[Owner(f)] \in WalletRec
    BY <1>1 DEF SInv, TypeOK, WalletRec
  <2> DEFINE r == Started(wallet[Owner(f)])
  <2>2. r \in WalletRec /\ r.cancelRequested = FALSE
    BY <2>1 DEF WalletRec, Started
  <2>3. wallet' = [wallet EXCEPT ![Owner(f)] = r]
    BY DEF EnterMutex
  <2> HIDE DEF r
  <2> QED BY <1>1, <2>2, <2>3, WalletRecs
<1>2. TypeOK'
  <2>1. [flow[f] EXCEPT !.at = "called"] \in FlowRec
    BY FlowRecs DEF InMutex
  <2>2. flow' \in [Flow -> FlowRec]
    BY <2>1, FlowTyped DEF EnterMutex
  <2> QED BY <1>0, <2>2 DEF SInv, TypeOK, EnterMutex, FlowRec, WalletRec
<1>3. \A g \in Flow : g # f => flow'[g] = flow[g]
  BY DEF SInv, TypeOK, EnterMutex
<1>4. /\ flow[f].at = "waiting" /\ flow'[f].at = "called"
      /\ flow'[f].asked = FALSE
  BY DEF SInv, TypeOK, FlagIsOwn, EnterMutex
<1>5. wallet'[Owner(f)].cancelRequested = FALSE
  BY <1>0
<1>6. mutex = NoFlow /\ mutex' = f /\ UNCHANGED <<request, native>>
  BY DEF EnterMutex
<1> QED
  BY ZenonT(40), <1>2, <1>3, <1>4, <1>5, <1>6
  DEF SInv, Exclusive, CallBelongs, FlagIsOwn, StoppedIffAsked, InMutex, Owner

(* Making the native call, or not.                                         *)
LEMMA CallNativeSInv ==
    ASSUME SInv, NEW f \in Flow, CallNative(f)
    PROVE  SInv'
<1> USE SessionAssumption
<1>1. mutex = f /\ native.at = "none"
  BY DEF SInv, TypeOK, Exclusive, CallBelongs, CallNative, InMutex
<1>2. TypeOK'
  <2>1. /\ [flow[f] EXCEPT !.at = "ended", !.error = TRUE] \in FlowRec
        /\ [flow[f] EXCEPT !.at = "native"] \in FlowRec
    BY FlowRecs DEF InMutex
  <2>2. flow' \in [Flow -> FlowRec]
    BY <2>1, FlowTyped DEF CallNative
  <2>3. native' \in [flow : Flow \cup {NoFlow}, cancel : BOOLEAN,
           at : {"none", "entering", "preparing", "details"} \cup Listening]
    BY DEF SInv, TypeOK, CallNative, NoCall
  <2>4. native'.at \in {"none", "entering"}
    BY <1>1 DEF CallNative, NoCall
  <2> QED BY <1>1, <2>2, <2>3, <2>4 DEF SInv, TypeOK, CallNative, FlowRec
<1>3. \A g \in Flow : g # f => flow'[g] = flow[g]
  BY DEF SInv, TypeOK, CallNative
<1>4. /\ flow[f].at = "called" /\ flow'[f].asked = flow[f].asked
      /\ \/ flow'[f].at = "ended" /\ native' = native
         \/ flow'[f].at = "native" /\ native'.flow = f
  <2>1. flow[f] \in FlowRec
    BY FlowRecs
  <2>2. CASE wallet[Owner(f)].closed
    <3>1. /\ flow'[f] = [flow[f] EXCEPT !.at = "ended", !.error = TRUE]
          /\ native' = native /\ flow[f].at = "called"
      BY <2>2, FlowRecs, FlowTyped DEF CallNative
    <3> QED BY <2>1, <3>1 DEF FlowRec
  <2>3. CASE ~wallet[Owner(f)].closed
    <3>1. /\ flow'[f] = [flow[f] EXCEPT !.at = "native"] /\ flow[f].at = "called"
          /\ native'.flow = f
      BY <2>3 DEF CallNative, NoCall, SInv, TypeOK
    <3> QED BY <2>1, <3>1 DEF FlowRec
  <2> QED BY <2>2, <2>3
<1>5. UNCHANGED <<request, mutex, wallet>>
  BY DEF CallNative
<1> QED
  BY <1>1, <1>2, <1>3, <1>4, <1>5
  DEF SInv, Exclusive, CallBelongs, FlagIsOwn, StoppedIffAsked, InMutex, Owner

(* A poll that throws.                                                     *)
LEMMA PollClosedSInv ==
    ASSUME SInv, NEW f \in Flow, PollClosed(f)
    PROVE  SInv'
<1> USE SessionAssumption
<1>1. TypeOK'
  <2>1. [flow[f] EXCEPT !.gone = TRUE] \in FlowRec
    BY FlowRecs
  <2>2. flow' \in [Flow -> FlowRec]
    BY <2>1, FlowTyped DEF PollClosed
  <2> QED BY <2>2 DEF SInv, TypeOK, PollClosed, FlowRec
<1>2. \A g \in Flow : /\ flow'[g].at = flow[g].at /\ flow'[g].asked = flow[g].asked
                      /\ flow'[g].error = flow[g].error
  <2>1. \A g \in Flow : g # f => flow'[g] = flow[g]
    BY DEF SInv, TypeOK, PollClosed
  <2>2. flow'[f] = [flow[f] EXCEPT !.gone = TRUE] /\ flow[f] \in FlowRec
    BY FlowRecs DEF PollClosed, SInv, TypeOK
  <2>3. /\ flow'[f].at = flow[f].at /\ flow'[f].asked = flow[f].asked
        /\ flow'[f].error = flow[f].error
    BY <2>2 DEF FlowRec
  <2> QED BY <2>1, <2>3
<1>3. UNCHANGED <<request, mutex, wallet, native>>
  BY DEF PollClosed
<1> QED
  BY <1>1, <1>2, <1>3
  DEF SInv, Exclusive, CallBelongs, FlagIsOwn, StoppedIffAsked, InMutex, Owner

(* The end of the native call as the flow sees it.                         *)
LEMMA FinishSInv ==
    ASSUME SInv, NEW f \in Flow, Finish(f)
    PROVE  SInv'
<1> USE SessionAssumption
<1>1. Owner(f) \in Wallet /\ mutex = f /\ native.at = "none"
  BY DEF SInv, TypeOK, Owner, Exclusive, CallBelongs, Finish, InMutex
<1>2. TypeOK'
  <2>1. [flow[f] EXCEPT !.at = "finished"] \in FlowRec /\ Left \in FlowRec
    BY FlowRecs DEF InMutex
  <2>2. flow' \in [Flow -> FlowRec]
    BY <2>1, FlowTyped DEF Finish
  <2>3. wallet' \in [Wallet -> WalletRec]
    BY <1>1, WalletStops DEF Finish
  <2> QED BY <2>2, <2>3 DEF SInv, TypeOK, Finish, FlowRec, WalletRec
<1>3. \A g \in Flow : g # f => flow'[g] = flow[g]
  BY DEF SInv, TypeOK, Finish
<1>4. /\ flow[f].at = "ended"
      /\ \/ flow'[f].at = "left" /\ mutex' = NoFlow
         \/ /\ flow'[f].at = "finished" /\ mutex' = mutex
            /\ flow'[f].asked = flow[f].asked
  BY DEF SInv, TypeOK, Finish, Left, Blank
<1>5. \A w \in Wallet : wallet'[w].cancelRequested = wallet[w].cancelRequested
  BY <1>1, WalletStops DEF Finish
<1>6. UNCHANGED <<request, native>> /\ \A g \in Flow : Owner(g) \in Wallet
  BY DEF Finish, SInv, TypeOK, Owner
<1> QED
  BY <1>1, <1>2, <1>3, <1>4, <1>5, <1>6
  DEF SInv, Exclusive, CallBelongs, FlagIsOwn, StoppedIffAsked, InMutex, Owner

(* The terminal state: Stopped iff asked.                                  *)
LEMMA ReportSInv ==
    ASSUME SInv, NEW f \in Flow, Report(f)
    PROVE  SInv'
<1> USE SessionAssumption
<1>1. mutex = f /\ native.at = "none"
  BY DEF SInv, TypeOK, Exclusive, CallBelongs, Report, InMutex
<1>2. PICK s \in {"synced", "stopped", "failed"} :
        /\ flow' = [flow EXCEPT ![f] = [@ EXCEPT !.at = s, !.target = 0]]
        /\ flow[f].error => (s = "stopped" <=> wallet[Owner(f)].cancelRequested)
  BY DEF Report, CompletedState
<1>3. flow[f].at = "finished" /\ mutex' = NoFlow
      /\ UNCHANGED <<request, wallet, height, native, syncing, caller, cancels, edits>>
  BY DEF Report
<1>4. TypeOK'
  <2>1. [flow[f] EXCEPT !.at = s, !.target = 0] \in FlowRec
    <3>1. s \in {"idle", "waiting"} \cup InMutex \cup Over /\ 0 \in Height
      BY DEF Over, Height
    <3> QED BY <3>1, FlowRecs, Zenon
  <2>2. flow' \in [Flow -> FlowRec]
    BY <1>2, <2>1, FlowTyped
  <2> QED BY <1>3, <2>2 DEF SInv, TypeOK, FlowRec
<1>5. \A g \in Flow : g # f => flow'[g] = flow[g]
  BY <1>2 DEF SInv, TypeOK
<1>6. flow'[f].at = s /\ flow'[f].error = flow[f].error /\ flow'[f].asked = flow[f].asked
  BY <1>2 DEF SInv, TypeOK
<1>7. Exclusive' /\ CallBelongs' /\ FlagIsOwn'
  BY <1>1, <1>3, <1>5, <1>6 DEF SInv, Exclusive, CallBelongs, FlagIsOwn, InMutex, Owner
<1>8. flow[f].asked = wallet[Owner(f)].cancelRequested
  BY <1>3 DEF SInv, FlagIsOwn, InMutex
<1>9. StoppedIffAsked'
  BY <1>2, <1>5, <1>6, <1>8 DEF SInv, StoppedIffAsked
<1> QED BY <1>4, <1>7, <1>9 DEF SInv

(* A collector that goes away.                                             *)
LEMMA LeaveSInv ==
    ASSUME SInv, NEW f \in Flow, Leave(f)
    PROVE  SInv'
<1> USE SessionAssumption
<1>1. \A g \in Flow : Owner(g) \in Wallet
  BY DEF SInv, TypeOK, Owner
<1>2. TypeOK'
  <2>1. [flow[f] EXCEPT !.gone = TRUE] \in FlowRec /\ Left \in FlowRec
    BY FlowRecs
  <2>2. flow' \in [Flow -> FlowRec]
    BY <2>1, FlowTyped DEF Leave
  <2>3. wallet' \in [Wallet -> WalletRec]
    <3>1. CASE wallet' = wallet
      BY <3>1 DEF SInv, TypeOK, WalletRec
    <3> QED BY <1>1, <3>1, WalletStops DEF Leave
  <2>4. mutex' \in Flow \cup {NoFlow}
    BY DEF SInv, TypeOK, Leave, MutexAfterLeave
  <2> QED BY <2>2, <2>3, <2>4 DEF SInv, TypeOK, Leave, FlowRec, WalletRec
<1>3. \A g \in Flow : g # f => flow'[g] = flow[g]
  BY DEF SInv, TypeOK, Leave
<1>4. \/ /\ flow[f].at = "native" /\ flow'[f].at = "native" /\ mutex' = mutex
         /\ flow'[f].asked = flow[f].asked
      \/ flow[f].at # "native" /\ flow'[f].at = "left" /\ mutex' # f
         /\ (mutex # f => mutex' = mutex) /\ (mutex = f => mutex' = NoFlow)
  <2>1. flow[f] \in FlowRec
    BY FlowRecs
  <2>2. CASE flow[f].at = "native"
    <3>1. flow'[f] = [flow[f] EXCEPT !.gone = TRUE] /\ mutex' = mutex
      BY <2>2 DEF Leave, MutexAfterLeave, SInv, TypeOK
    <3> QED BY <2>1, <2>2, <3>1 DEF FlowRec
  <2>3. CASE flow[f].at # "native"
    <3>1. flow'[f] = Left
      BY <2>3 DEF Leave, SInv, TypeOK
    <3>2. mutex' = IF mutex = f THEN NoFlow ELSE mutex
      BY <2>3 DEF Leave, MutexAfterLeave
    <3> QED BY <2>3, <3>1, <3>2 DEF Left, Blank
  <2> QED BY <2>2, <2>3
<1>5. \A w \in Wallet : wallet'[w].cancelRequested = wallet[w].cancelRequested
  BY <1>1, WalletStops DEF Leave
<1>6. UNCHANGED <<request, native>>
  BY DEF Leave
<1> QED
  BY <1>1, <1>2, <1>3, <1>4, <1>5, <1>6
  DEF SInv, Exclusive, CallBelongs, FlagIsOwn, StoppedIffAsked, InMutex, Owner

-----------------------------------------------------------------------------
(* The steps of the native call.                                           *)

(* A call that returns hands its outcome to the flow that made it.         *)
LEMMA ReturnSInv ==
    ASSUME SInv, native.at # "none", NEW e \in BOOLEAN, Return(e),
           UNCHANGED <<request, mutex, wallet, caller, cancels, edits>>,
           height' \in [Wallet -> Height \cup {NoHeight}]
    PROVE  SInv'
<1> USE SessionAssumption
<1> DEFINE f == native.flow
<1>1. f \in Flow /\ flow[f].at = "native" /\ mutex = f
  BY DEF SInv, CallBelongs, Exclusive, InMutex
<1> HIDE DEF f
<1>2. flow' = [flow EXCEPT ![f] = [flow[f] EXCEPT !.at = "ended", !.error = e]]
  BY <1>1 DEF Return, f, SInv, TypeOK
<1>3. flow[f] \in FlowRec /\ [flow[f] EXCEPT !.at = "ended", !.error = e] \in FlowRec
  BY <1>1, FlowRecs
<1>4. /\ flow' \in [Flow -> FlowRec]
      /\ flow'[f] = [flow[f] EXCEPT !.at = "ended", !.error = e]
  BY <1>1, <1>2, <1>3, FlowTyped
<1>5. \A g \in Flow : g # f => flow'[g] = flow[g]
  BY <1>2 DEF SInv, TypeOK
<1>6. flow'[f].at = "ended" /\ flow'[f].asked = flow[f].asked
  BY <1>3, <1>4 DEF FlowRec
<1>7. native' = NoCall /\ syncing' # "sync" /\ syncing' \in {"free", "sync", "other"}
  BY DEF Return, SInv, TypeOK
<1>8. NoCall \in [flow : Flow \cup {NoFlow}, cancel : BOOLEAN,
           at : {"none", "entering", "preparing", "details"} \cup Listening]
  BY DEF NoCall
<1>9. TypeOK'
  BY <1>4, <1>7, <1>8 DEF SInv, TypeOK, FlowRec, NoCall
<1>10. CallBelongs'
  <2>1. native'.at = "none"
    BY <1>7 DEF NoCall
  <2>2. \A g \in Flow : flow'[g].at # "native"
    BY <1>1, <1>5, <1>6 DEF SInv, Exclusive, InMutex
  <2> QED BY <2>1, <2>2 DEF CallBelongs
<1> QED
  BY <1>1, <1>5, <1>6, <1>9, <1>10
  DEF SInv, Exclusive, FlagIsOwn, StoppedIffAsked, InMutex, Owner

(* Steps that change neither flows nor flags nor whose call it is.         *)
LEMMA QuietSInv ==
    ASSUME SInv, TypeOK', UNCHANGED <<request, flow, mutex>>,
           native'.flow = native.flow,
           native'.at = "none" <=> native.at = "none",
           \A w \in Wallet : wallet'[w].cancelRequested = wallet[w].cancelRequested
    PROVE  SInv'
<1>1. \A g \in Flow : Owner(g) \in Wallet /\ Owner(g)' = Owner(g)
  BY DEF SInv, TypeOK, Owner
<1> QED
  BY <1>1 DEF SInv, Exclusive, CallBelongs, FlagIsOwn, StoppedIffAsked

(* Every step of the native call.                                          *)
LEMMA NativeStepSInv ==
    ASSUME SInv, NativeStep
    PROVE  SInv'
<1> USE SessionAssumption
<1>1. native.at # "none" => native.flow \in Flow
  BY DEF SInv, CallBelongs
<1>2. CASE EnterNative
  <2>1. native.at = "entering" /\ syncing # "sync"
    BY <1>2 DEF EnterNative, SInv, TypeOK
  <2>2. CASE HandleOpen(Syncs) /\ ~request[native.flow].empty /\ syncing = "free"
    <3>1. /\ native' = [native EXCEPT !.at = "preparing"] /\ syncing' = "sync"
          /\ UNCHANGED <<request, flow, mutex, wallet, height, caller, cancels, edits>>
      BY <1>2, <2>2 DEF EnterNative
    <3>2. TypeOK'
      BY <3>1 DEF SInv, TypeOK
    <3> QED BY <2>1, <3>1, <3>2, QuietSInv DEF SInv, TypeOK
  <2>3. CASE ~(HandleOpen(Syncs) /\ ~request[native.flow].empty /\ syncing = "free")
    <3>1. PICK e \in BOOLEAN : Return(e)
      BY <1>2, <2>3 DEF EnterNative
    <3> QED BY <1>2, <2>1, <3>1, ReturnSInv DEF EnterNative, SInv, TypeOK
  <2> QED BY <2>2, <2>3
<1>3. CASE Proceed
  <2>1. /\ native.at \in {"preparing", "details", "transparent"}
        /\ \E p \in {"transparent", "shielded"} :
              native' = [native EXCEPT !.at = p, !.cancel = FALSE]
        /\ UNCHANGED <<request, flow, mutex, wallet, height, syncing, caller,
                      cancels, edits>>
    BY <1>3 DEF Proceed
  <2>2. TypeOK'
    BY <2>1 DEF SInv, TypeOK, Listening
  <2> QED BY <2>1, <2>2, QuietSInv DEF SInv, TypeOK
<1>4. ASSUME NEW h \in Height \cup {NoHeight}, EndRange(h) PROVE SInv'
  <2>1. /\ native.at = "shielded" /\ native' = [native EXCEPT !.at = "details", !.cancel = FALSE]
        /\ height' = [height EXCEPT ![Syncs] = h]
        /\ UNCHANGED <<request, flow, mutex, wallet, syncing, caller, cancels, edits>>
    BY <1>4 DEF EndRange
  <2>2. TypeOK'
    BY <2>1 DEF SInv, TypeOK, Listening
  <2> QED BY <2>1, <2>2, QuietSInv DEF SInv, TypeOK
<1>5. CASE Succeed
  BY <1>5, ReturnSInv DEF Succeed, SInv, TypeOK
<1>6. CASE HearCancel
  BY <1>6, ReturnSInv DEF HearCancel, Listening, SInv, TypeOK
<1>7. ASSUME NEW h \in Height \cup {NoHeight}, FailNative(h) PROVE SInv'
  <2>1. height' \in [Wallet -> Height \cup {NoHeight}]
    BY <1>7 DEF FailNative, SInv, TypeOK
  <2> QED BY <1>7, <2>1, ReturnSInv DEF FailNative, Listening
<1> QED BY <1>2, <1>3, <1>4, <1>5, <1>6, <1>7 DEF NativeStep

-----------------------------------------------------------------------------
(* The callers and the rest.                                               *)

(* Asking raises the flag and marks the flow in the mutex together.        *)
LEMMA AskSInv ==
    ASSUME SInv, NEW w \in Wallet, Ask(w), UNCHANGED <<request, mutex, native, height, syncing>>,
           caller' \in [Caller -> [at : {"idle", "cancel", "closing", "marking", "removing"},
                                   wallet : Wallet]],
           cancels' \in 0 .. MaxCancels, edits' = edits
    PROVE  SInv'
<1> USE SessionAssumption
<1>1. \A g \in Flow : Owner(g) \in Wallet /\ Owner(g)' = Owner(g)
  BY DEF SInv, TypeOK, Owner
<1>2. \A g \in Flow : flow[g] \in FlowRec /\ [flow[g] EXCEPT !.asked = TRUE] \in FlowRec
  BY FlowRecs
<1>3. flow' \in [Flow -> FlowRec]
  BY <1>2 DEF Ask
<1>4. /\ wallet' \in [Wallet -> WalletRec]
      /\ \A v \in Wallet : wallet'[v].cancelRequested =
            IF v = w THEN TRUE ELSE wallet[v].cancelRequested
  <2>1. wallet[w] \in WalletRec
    BY DEF SInv, TypeOK, WalletRec
  <2> DEFINE r == [wallet[w] EXCEPT !.cancelRequested = TRUE]
  <2>2. r \in WalletRec /\ r.cancelRequested = TRUE
    BY <2>1 DEF WalletRec
  <2>3. wallet' = [wallet EXCEPT ![w] = r]
    BY DEF Ask
  <2> HIDE DEF r
  <2> QED BY <2>2, <2>3, WalletRecs
<1>5. TypeOK'
  BY <1>3, <1>4 DEF SInv, TypeOK, FlowRec, WalletRec
<1>6. \A g \in Flow : /\ flow'[g].at = flow[g].at /\ flow'[g].error = flow[g].error
                      /\ flow'[g].asked = IF Owner(g) = w /\ flow[g].at \in InMutex
                                          THEN TRUE ELSE flow[g].asked
  <2> SUFFICES ASSUME NEW g \in Flow
               PROVE  /\ flow'[g].at = flow[g].at /\ flow'[g].error = flow[g].error
                      /\ flow'[g].asked = IF Owner(g) = w /\ flow[g].at \in InMutex
                                          THEN TRUE ELSE flow[g].asked
    OBVIOUS
  <2>1. CASE Owner(g) = w /\ flow[g].at \in InMutex
    <3>1. flow'[g] = [flow[g] EXCEPT !.asked = TRUE]
      BY <2>1 DEF Ask
    <3> QED BY <1>2, <2>1, <3>1 DEF FlowRec
  <2>2. CASE ~(Owner(g) = w /\ flow[g].at \in InMutex)
    <3>1. flow'[g] = flow[g]
      BY <2>2 DEF Ask
    <3> QED BY <2>2, <3>1
  <2> QED BY <2>1, <2>2
<1>7. \A v \in Wallet : wallet'[v].cancelRequested =
         IF v = w THEN TRUE ELSE wallet[v].cancelRequested
  BY <1>4
<1>8. Exclusive' /\ CallBelongs'
  BY <1>6 DEF SInv, Exclusive, CallBelongs
<1>9. FlagIsOwn'
  <2>1. ASSUME NEW g \in Flow, flow'[g].at \in {"idle", "waiting"}
        PROVE  flow'[g].asked = FALSE
    BY <1>6, <2>1 DEF SInv, FlagIsOwn, InMutex
  <2>2. ASSUME NEW g \in Flow, flow'[g].at \in InMutex
        PROVE  flow'[g].asked = wallet'[Owner(g)].cancelRequested
    <3>1. flow[g].asked = wallet[Owner(g)].cancelRequested /\ flow[g].at \in InMutex
      BY <1>6, <2>2 DEF SInv, FlagIsOwn
    <3>2. CASE Owner(g) = w
      BY <1>1, <1>6, <1>7, <3>1, <3>2
    <3>3. CASE Owner(g) # w
      BY <1>1, <1>6, <1>7, <3>1, <3>3
    <3> QED BY <3>2, <3>3
  <2> QED BY <1>1, <2>1, <2>2 DEF FlagIsOwn
<1>10. StoppedIffAsked'
  BY <1>6 DEF SInv, StoppedIffAsked, InMutex
<1> QED BY <1>5, <1>8, <1>9, <1>10 DEF SInv

(* cancelSync and close.                                                   *)
LEMMA CallersSInv ==
    ASSUME SInv, NEW c \in Caller, NEW w \in Wallet,
           CancelSync(c, w) \/ Close(c, w) \/ CallerStep(c)
    PROVE  SInv'
<1> USE SessionAssumption
<1> DEFINE CallerRec == [at : {"idle", "cancel", "closing", "marking", "removing"},
                         wallet : Wallet]
<1>1. NoCaller \in CallerRec /\ caller \in [Caller -> CallerRec]
  BY DEF NoCaller, SInv, TypeOK
<1>2. CASE CancelSync(c, w)
  <2>1. caller' \in [Caller -> CallerRec] /\ cancels' \in 0 .. MaxCancels
    BY <1>1, <1>2 DEF CancelSync, SInv, TypeOK
  <2> QED BY <1>2, <2>1, AskSInv DEF CancelSync
<1>3. CASE Close(c, w)
  <2>1. caller' \in [Caller -> CallerRec]
    BY <1>1, <1>3 DEF Close
  <2>2. CASE wallet[w].running
    BY <1>3, <2>1, <2>2, AskSInv DEF Close, SInv, TypeOK
  <2>3. CASE ~wallet[w].running
    <3>1. TypeOK' /\ UNCHANGED <<request, flow, mutex, wallet, native>>
      BY <1>3, <2>1, <2>3 DEF Close, SInv, TypeOK
    <3> QED BY <3>1, QuietSInv
  <2> QED BY <2>2, <2>3
<1>4. CASE SendCancel(c)
  <2>1. caller' \in [Caller -> CallerRec]
    <3>1. [caller[c] EXCEPT !.at = "marking"] \in CallerRec
      BY <1>1
    <3> QED BY <1>1, <1>4, <3>1 DEF SendCancel
  <2>2. PICK b \in BOOLEAN : native' = [native EXCEPT !.cancel = b]
    <3>1. native' = [native EXCEPT !.cancel = native.at \in Listening]
      BY <1>4 DEF SendCancel
    <3>2. (native.at \in Listening) = TRUE \/ (native.at \in Listening) = FALSE
      OBVIOUS
    <3>3. CASE (native.at \in Listening) = TRUE
      BY <3>1, <3>3, Zenon
    <3>4. CASE (native.at \in Listening) = FALSE
      BY <3>1, <3>4, Zenon
    <3> QED BY <3>2, <3>3, <3>4, Zenon
  <2>3. TypeOK'
    BY <1>4, <2>1, <2>2 DEF SendCancel, SInv, TypeOK
  <2> QED BY <1>4, <2>2, <2>3, QuietSInv DEF SendCancel, SInv, TypeOK
<1>5. CASE MarkClosed(c) \/ RemoveHandle(c)
  <2>1. caller' \in [Caller -> CallerRec]
    BY <1>1, <1>5 DEF MarkClosed, RemoveHandle
  <2>2. PICK v \in Wallet : \/ wallet' = [wallet EXCEPT ![v].closed = TRUE]
                           \/ wallet' = [wallet EXCEPT ![v].handle = FALSE]
    BY <1>1, <1>5 DEF MarkClosed, RemoveHandle
  <2>3. /\ wallet' \in [Wallet -> WalletRec]
        /\ \A u \in Wallet : wallet'[u].cancelRequested = wallet[u].cancelRequested
    <3>1. wallet \in [Wallet -> WalletRec]
      BY DEF SInv, TypeOK, WalletRec
    <3>2. /\ [wallet[v] EXCEPT !.closed = TRUE] \in WalletRec
          /\ [wallet[v] EXCEPT !.handle = FALSE] \in WalletRec
          /\ [wallet[v] EXCEPT !.closed = TRUE].cancelRequested = wallet[v].cancelRequested
          /\ [wallet[v] EXCEPT !.handle = FALSE].cancelRequested = wallet[v].cancelRequested
      <4>1. wallet[v] \in WalletRec
        BY <3>1
      <4> QED BY <4>1 DEF WalletRec
    <3>3. \/ wallet' = [wallet EXCEPT ![v] = [wallet[v] EXCEPT !.closed = TRUE]]
          \/ wallet' = [wallet EXCEPT ![v] = [wallet[v] EXCEPT !.handle = FALSE]]
      BY <2>2, <3>1
    <3>4. wallet' \in [Wallet -> WalletRec]
      BY <3>1, <3>2, <3>3
    <3>5. \A u \in Wallet : wallet'[u].cancelRequested = wallet[u].cancelRequested
      BY <3>1, <3>2, <3>3
    <3> QED BY <3>4, <3>5
  <2>4. TypeOK'
    BY <1>5, <2>1, <2>3 DEF MarkClosed, RemoveHandle, SInv, TypeOK, WalletRec
  <2> QED BY <1>5, <2>3, <2>4, QuietSInv DEF MarkClosed, RemoveHandle
<1> QED BY <1>2, <1>3, <1>4, <1>5 DEF CallerStep

(* The lock's other holders and edits of accounts.                         *)
LEMMA AroundSInv ==
    ASSUME SInv, \/ TakeLock \/ ReleaseLock
                 \/ \E w \in Wallet, h \in Height \cup {NoHeight} : EditAccounts(w, h)
    PROVE  SInv'
<1> USE SessionAssumption
<1>1. TypeOK'
  <2>1. CASE TakeLock \/ ReleaseLock
    BY <2>1 DEF TakeLock, ReleaseLock, SInv, TypeOK
  <2>2. ASSUME NEW w \in Wallet, NEW h \in Height \cup {NoHeight}, EditAccounts(w, h)
        PROVE  TypeOK'
    BY <2>2 DEF EditAccounts, SInv, TypeOK
  <2> QED BY <2>1, <2>2
<1>2. UNCHANGED <<request, flow, mutex, wallet, native>>
  BY DEF TakeLock, ReleaseLock, EditAccounts
<1> QED BY <1>1, <1>2, QuietSInv

-----------------------------------------------------------------------------
(* SInv is an invariant of the session.                                    *)
THEOREM SessionInvariant == Spec => []SInv
<1>1. SInv /\ [Next]_vars => SInv'
  <2> SUFFICES ASSUME SInv, [Next]_vars PROVE SInv'
    OBVIOUS
  <2>1. CASE UNCHANGED vars
    <3>1. TypeOK' /\ UNCHANGED <<request, flow, mutex, wallet, native>>
      BY <2>1 DEF vars, SInv, TypeOK
    <3> QED BY <3>1, QuietSInv
  <2>2. ASSUME NEW f \in Flow, FlowStep(f) \/ PollClosed(f) \/ Leave(f) PROVE SInv'
    BY <2>2, EnterMutexSInv, CallNativeSInv, FinishSInv, ReportSInv, PollClosedSInv,
       LeaveSInv DEF FlowStep
  <2>3. ASSUME NEW c \in Caller, CallerStep(c) PROVE SInv'
    <3>1. PICK w \in Wallet : TRUE
      BY SessionAssumption
    <3> QED BY <2>3, <3>1, CallersSInv
  <2> QED
    BY <2>1, <2>2, <2>3, CollectSInv, NativeStepSInv, CallersSInv, AroundSInv DEF Next
<1> QED BY <1>1, InitSInv, PTL DEF Spec

(* Types, and SYNCING is held by a sync exactly while its phases run.      *)
THEOREM SessionTypeCorrect == Spec => []TypeOK
BY SessionInvariant, PTL DEF SInv

(* One native sync at a time, in the hands of the flow in the mutex, even  *)
(* after its collector has gone.                                           *)
THEOREM OneNativeSync == Spec => []MutexCoversNative
<1>1. SInv => MutexCoversNative
  BY DEF SInv, CallBelongs, Exclusive, MutexCoversNative, InMutex
<1> QED BY <1>1, SessionInvariant, PTL

(* A failed sync ends as Stopped iff its own wallet asked for it since the *)
(* sync began.                                                             *)
THEOREM StoppedIsHonest == Spec => []StoppedIffAsked
BY SessionInvariant, PTL DEF SInv

-----------------------------------------------------------------------------
(* The flag that close reads.                                              *)

\* Between onStart and onFinish.
Busy(f) == flow[f].at \in {"called", "native", "ended"}

(* A step that neither raises nor lowers a flag and lets no flow become    *)
(* busy or cease to be.                                                    *)
LEMMA FlagKept ==
    ASSUME RunningIsTrue, request' = request,
           \A w \in Wallet : wallet'[w].running = wallet[w].running,
           \A g \in Flow : Busy(g)' <=> Busy(g)
    PROVE  RunningIsTrue'
BY DEF RunningIsTrue, Busy, Owner

(* A step after which a flow that was alone in the mutex is busy or not, as *)
(* the flag of its wallet says.                                            *)
LEMMA FlagMoved ==
    ASSUME SInv, RunningIsTrue, NEW f \in Flow, request' = request,
           wallet'[Owner(f)].running <=> Busy(f)',
           \A w \in Wallet : w # Owner(f) => wallet'[w] = wallet[w],
           \A g \in Flow : g # f => flow'[g] = flow[g] /\ ~Busy(g)
    PROVE  RunningIsTrue'
<1> SUFFICES ASSUME NEW w \in Wallet
             PROVE  wallet'[w].running <=> \E g \in Flow : Owner(g) = w /\ Busy(g)'
  BY DEF RunningIsTrue, Busy, Owner
<1>1. \A g \in Flow : g # f => ~Busy(g)'
  BY DEF Busy
<1>2. CASE w = Owner(f)
  BY <1>1, <1>2
<1>3. CASE w # Owner(f)
  <2>1. ~\E g \in Flow : Owner(g) = w /\ Busy(g)
    BY <1>3
  <2>2. ~wallet[w].running
    BY <2>1 DEF RunningIsTrue, Busy
  <2>3. ~\E g \in Flow : Owner(g) = w /\ Busy(g)'
    BY <1>1, <1>3
  <2> QED BY <1>3, <2>2, <2>3
<1> QED BY <1>2, <1>3

(* The flow in the mutex is the only one that may be busy.                 *)
LEMMA AloneBusy ==
    ASSUME SInv, NEW f \in Flow, mutex \in {f, NoFlow}
    PROVE  \A g \in Flow : g # f => ~Busy(g)
BY SessionAssumption DEF SInv, Exclusive, Busy, InMutex

(* Lowering a wallet's flag leaves the other wallets alone.                *)
LEMMA FlagLowered ==
    ASSUME SInv, NEW w \in Wallet, wallet' = [wallet EXCEPT ![w].running = FALSE]
    PROVE  /\ wallet'[w].running = FALSE
           /\ \A v \in Wallet : v # w => wallet'[v] = wallet[v]
<1>1. wallet \in [Wallet -> WalletRec] /\ wallet[w] \in WalletRec
  BY DEF SInv, TypeOK, WalletRec
<1>2. [wallet[w] EXCEPT !.running = FALSE].running = FALSE
  BY <1>1 DEF WalletRec
<1>3. wallet'[w] = [wallet[w] EXCEPT !.running = FALSE]
  BY <1>1
<1> QED BY <1>1, <1>2, <1>3

(* The steps of a flow.                                                    *)
LEMMA FlowFlag ==
    ASSUME SInv, RunningIsTrue, NEW f \in Flow,
           \/ FlowStep(f) \/ PollClosed(f) \/ Leave(f)
           \/ \E tip \in Height : Collect(f, tip)
    PROVE  RunningIsTrue'
<1> USE SessionAssumption
<1>1. /\ flow[f] \in FlowRec /\ flow \in [Flow -> FlowRec]
      /\ Owner(f) \in Wallet /\ wallet \in [Wallet -> WalletRec]
  BY FlowRecs DEF SInv, TypeOK, FlowRec, WalletRec, Owner
<1>2. request' = request /\ \A g \in Flow : g # f => flow'[g] = flow[g]
  BY <1>1 DEF FlowStep, EnterMutex, CallNative, Finish, Report, PollClosed, Leave, Collect
<1>3. ASSUME wallet' = wallet, Busy(f)' <=> Busy(f) PROVE RunningIsTrue'
  <2>1. \A g \in Flow : Busy(g)' <=> Busy(g)
    BY <1>2, <1>3 DEF Busy
  <2> QED BY <1>2, <1>3, <2>1, FlagKept
<1>4. CASE EnterMutex(f)
  <2>1. \A g \in Flow : g # f => ~Busy(g)
    BY <1>4, AloneBusy DEF EnterMutex
  <2>2. Busy(f)'
    BY <1>1, <1>4 DEF EnterMutex, Busy, FlowRec
  <2>3. wallet'[Owner(f)] = Started(wallet[Owner(f)])
        /\ \A w \in Wallet : w # Owner(f) => wallet'[w] = wallet[w]
    BY <1>1, <1>4 DEF EnterMutex
  <2>4. wallet'[Owner(f)].running = TRUE
    <3>1. wallet[Owner(f)] \in WalletRec
      BY <1>1
    <3>2. Started(wallet[Owner(f)]).running = TRUE
      BY <3>1 DEF Started, WalletRec
    <3> QED BY <2>3, <3>2
  <2> QED BY <1>2, <2>1, <2>2, <2>3, <2>4, FlagMoved
<1>5. CASE CallNative(f)
  <2>1. wallet' = wallet /\ Busy(f)
    BY <1>5 DEF CallNative, Busy
  <2>2. \/ flow'[f] = [flow[f] EXCEPT !.at = "ended", !.error = TRUE]
        \/ flow'[f] = [flow[f] EXCEPT !.at = "native"]
    BY <1>1, <1>5 DEF CallNative
  <2>3. Busy(f)'
    BY <1>1, <2>2 DEF Busy, FlowRec
  <2> QED BY <1>3, <2>1, <2>3
<1>6. CASE Finish(f)
  <2>1. mutex = f
    BY <1>6 DEF SInv, Exclusive, Finish, InMutex
  <2>2. \A g \in Flow : g # f => ~Busy(g)
    BY <2>1, AloneBusy
  <2>3. flow'[f] = Left \/ flow'[f] = [flow[f] EXCEPT !.at = "finished"]
    BY <1>1, <1>6 DEF Finish
  <2>4. ~Busy(f)'
    <3>1. CASE flow'[f] = Left
      BY <3>1 DEF Busy, Left, Blank
    <3>2. CASE flow'[f] = [flow[f] EXCEPT !.at = "finished"]
      BY <1>1, <3>2 DEF Busy, FlowRec
    <3> QED BY <2>3, <3>1, <3>2
  <2>5. /\ wallet'[Owner(f)].running = FALSE
        /\ \A v \in Wallet : v # Owner(f) => wallet'[v] = wallet[v]
    BY <1>1, <1>6, FlagLowered DEF Finish
  <2> QED BY <1>2, <2>2, <2>4, <2>5, FlagMoved
<1>7. CASE Report(f)
  <2>1. PICK t \in {"synced", "stopped", "failed"} :
          flow' = [flow EXCEPT ![f] = [@ EXCEPT !.at = t, !.target = 0]]
    BY <1>7 DEF Report, CompletedState
  <2>2. flow'[f] = [flow[f] EXCEPT !.at = t, !.target = 0]
    BY <1>1, <2>1
  <2>3. ~Busy(f)'
    BY <1>1, <2>2 DEF Busy, FlowRec
  <2>4. ~Busy(f) /\ wallet' = wallet
    BY <1>7 DEF Report, Busy
  <2> QED BY <1>3, <2>3, <2>4
<1>8. CASE PollClosed(f)
  <2>1. flow'[f] = [flow[f] EXCEPT !.gone = TRUE] /\ wallet' = wallet
    BY <1>1, <1>8 DEF PollClosed
  <2>2. flow'[f].at = flow[f].at
    BY <1>1, <2>1 DEF FlowRec
  <2> QED BY <1>3, <2>1, <2>2 DEF Busy
<1>9. CASE Leave(f) /\ flow[f].at = "native"
  <2>1. flow'[f] = [flow[f] EXCEPT !.gone = TRUE] /\ wallet' = wallet
    BY <1>1, <1>9 DEF Leave, Unwinds
  <2>2. flow'[f].at = flow[f].at
    BY <1>1, <2>1 DEF FlowRec
  <2> QED BY <1>3, <2>1, <2>2 DEF Busy
<1>10. CASE Leave(f) /\ flow[f].at \notin {"called", "native", "ended"}
  <2>1. flow'[f] = Left /\ wallet' = wallet
    BY <1>1, <1>10 DEF Leave, Unwinds
  <2>2. ~Busy(f) /\ ~Busy(f)'
    BY <1>10, <2>1 DEF Busy, Left, Blank
  <2> QED BY <1>3, <2>1, <2>2
<1>11. CASE Leave(f) /\ flow[f].at \in {"called", "ended"}
  <2>1. mutex = f
    BY <1>11 DEF SInv, Exclusive, InMutex
  <2>2. \A g \in Flow : g # f => ~Busy(g)
    BY <2>1, AloneBusy
  <2>3. flow'[f] = Left
    BY <1>1, <1>11 DEF Leave
  <2>4. ~Busy(f)'
    BY <2>3 DEF Busy, Left, Blank
  <2>5. /\ wallet'[Owner(f)].running = FALSE
        /\ \A v \in Wallet : v # Owner(f) => wallet'[v] = wallet[v]
    BY <1>1, <1>11, FlagLowered DEF Leave, Unwinds
  <2> QED BY <1>2, <2>2, <2>4, <2>5, FlagMoved
<1>12. ASSUME NEW tip \in Height, Collect(f, tip) PROVE RunningIsTrue'
  <2>1. \/ flow'[f] = Left
        \/ flow'[f] = [flow[f] EXCEPT !.at = "waiting", !.target = tip]
    BY <1>1, <1>12 DEF Collect
  <2>2. ~Busy(f)'
    <3>1. CASE flow'[f] = Left
      BY <3>1 DEF Busy, Left, Blank
    <3>2. CASE flow'[f] = [flow[f] EXCEPT !.at = "waiting", !.target = tip]
      BY <1>1, <3>2 DEF Busy, FlowRec
    <3> QED BY <2>1, <3>1, <3>2
  <2>3. ~Busy(f) /\ wallet' = wallet
    BY <1>12 DEF Collect, Busy
  <2> QED BY <1>3, <2>2, <2>3
<1> QED
  BY <1>4, <1>5, <1>6, <1>7, <1>8, <1>9, <1>10, <1>11, <1>12 DEF FlowStep

(* The native call returns to a flow that stays busy until its onFinish.   *)
LEMMA NativeFlag ==
    ASSUME SInv, RunningIsTrue, NativeStep
    PROVE  RunningIsTrue'
<1> USE SessionAssumption
<1>1. wallet' = wallet /\ request' = request /\ native.at # "none"
  BY DEF NativeStep, EnterNative, Proceed, EndRange, Succeed, HearCancel, FailNative,
         Listening
<1>2. flow' = flow \/ \E e \in BOOLEAN : Return(e)
  BY DEF NativeStep, EnterNative, Proceed, EndRange, Succeed, HearCancel, FailNative,
         HandleOpen, SInv, TypeOK
<1>3. CASE flow' = flow
  BY <1>1, <1>3, FlagKept DEF Busy
<1>4. ASSUME NEW e \in BOOLEAN, Return(e) PROVE RunningIsTrue'
  <2>1. PICK f \in Flow : native.flow = f /\ flow[f].at = "native"
    BY <1>1 DEF SInv, CallBelongs
  <2>2. flow \in [Flow -> FlowRec] /\ flow[f] \in FlowRec
    BY DEF SInv, TypeOK, FlowRec
  <2>3. flow' = [flow EXCEPT ![f] = [flow[f] EXCEPT !.at = "ended", !.error = e]]
    BY <1>4, <2>1 DEF Return
  <2>4. /\ flow'[f] = [flow[f] EXCEPT !.at = "ended", !.error = e]
        /\ \A g \in Flow : g # f => flow'[g] = flow[g]
    BY <2>2, <2>3
  <2>5. flow'[f].at = "ended"
    BY <2>2, <2>4 DEF FlowRec
  <2>6. \A g \in Flow : Busy(g)' <=> Busy(g)
    BY <2>1, <2>4, <2>5 DEF Busy
  <2> QED BY <1>1, <2>6, FlagKept
<1> QED BY <1>2, <1>3, <1>4

(* A request to stop touches neither the flag nor where a flow is.         *)
LEMMA AskFlag ==
    ASSUME SInv, RunningIsTrue, request' = request, NEW w \in Wallet, Ask(w)
    PROVE  RunningIsTrue'
<1>1. /\ wallet \in [Wallet -> WalletRec] /\ wallet[w] \in WalletRec
      /\ \A g \in Flow : flow[g] \in FlowRec
  BY DEF SInv, TypeOK, WalletRec, FlowRec
<1>2. wallet'[w] = [wallet[w] EXCEPT !.cancelRequested = TRUE]
      /\ \A v \in Wallet : v # w => wallet'[v] = wallet[v]
  BY <1>1 DEF Ask
<1>3. wallet'[w].running = wallet[w].running
  BY <1>1, <1>2 DEF WalletRec
<1>4. \A g \in Flow : flow'[g].at = flow[g].at
  <2> SUFFICES ASSUME NEW g \in Flow PROVE flow'[g].at = flow[g].at
    OBVIOUS
  <2>1. flow'[g] = flow[g] \/ flow'[g] = [flow[g] EXCEPT !.asked = TRUE]
    BY DEF Ask
  <2>2. flow[g] \in FlowRec
    BY <1>1
  <2>3. [flow[g] EXCEPT !.asked = TRUE].at = flow[g].at
    BY <2>2 DEF FlowRec
  <2> QED BY <2>1, <2>3
<1>5. \A g \in Flow : Busy(g)' <=> Busy(g)
  BY <1>4 DEF Busy
<1> QED BY <1>2, <1>3, <1>5, FlagKept

(* Callers: close asks or not, marks and removes.                          *)
LEMMA CallersFlag ==
    ASSUME SInv, RunningIsTrue, NEW c \in Caller,
           CallerStep(c) \/ \E w \in Wallet : CancelSync(c, w) \/ Close(c, w)
    PROVE  RunningIsTrue'
<1>1. ASSUME NEW w \in Wallet, Ask(w), request' = request PROVE RunningIsTrue'
  BY <1>1, AskFlag
<1>2. ASSUME UNCHANGED <<wallet, flow, request>> PROVE RunningIsTrue'
  BY <1>2, FlagKept DEF Busy
<1>3. CASE MarkClosed(c) \/ RemoveHandle(c)
  <2>1. wallet \in [Wallet -> WalletRec] /\ flow' = flow /\ request' = request
    BY <1>3 DEF SInv, TypeOK, WalletRec, MarkClosed, RemoveHandle
  <2>2. PICK v \in Wallet : \/ wallet' = [wallet EXCEPT ![v].closed = TRUE]
                           \/ wallet' = [wallet EXCEPT ![v].handle = FALSE]
    BY <1>3 DEF MarkClosed, RemoveHandle, SInv, TypeOK
  <2>3. wallet[v] \in WalletRec
    BY <2>1
  <2>4. /\ [wallet[v] EXCEPT !.closed = TRUE].running = wallet[v].running
        /\ [wallet[v] EXCEPT !.handle = FALSE].running = wallet[v].running
    BY <2>3 DEF WalletRec
  <2>5. \A u \in Wallet : wallet'[u].running = wallet[u].running
    BY <2>1, <2>2, <2>4
  <2> QED BY <2>1, <2>5, FlagKept DEF Busy
<1> QED
  BY <1>1, <1>2, <1>3 DEF CallerStep, SendCancel, CancelSync, Close

(* The flag that close reads is the truth, for any number of flows.        *)
THEOREM FlagIsTrue == Spec => []RunningIsTrue
<1>1. Init => RunningIsTrue
  BY SessionAssumption DEF Init, RunningIsTrue, Owner, Blank
<1>2. SInv /\ RunningIsTrue /\ [Next]_vars => RunningIsTrue'
  <2> SUFFICES ASSUME SInv, RunningIsTrue, [Next]_vars PROVE RunningIsTrue'
    OBVIOUS
  <2>1. ASSUME UNCHANGED <<wallet, flow, request>> PROVE RunningIsTrue'
    BY <2>1, FlagKept DEF Busy
  <2>2. CASE UNCHANGED vars
    BY <2>1, <2>2 DEF vars
  <2>3. ASSUME TakeLock \/ ReleaseLock
               \/ \E w \in Wallet, h \in Height \cup {NoHeight} : EditAccounts(w, h)
        PROVE  RunningIsTrue'
    BY <2>1, <2>3 DEF TakeLock, ReleaseLock, EditAccounts
  <2> QED BY <2>2, <2>3, FlowFlag, NativeFlag, CallersFlag DEF Next
<1> QED BY <1>1, <1>2, SessionInvariant, PTL DEF Spec
=============================================================================
