----------------------------- MODULE Serve_proof -----------------------------
(***************************************************************************)
(* Proofs about Serve, for any uploads, any number of faults and with or   *)
(* without either wake source.                                             *)
(***************************************************************************)
EXTENDS Serve, TLAPS

ServeInv == TypeOK /\ RequestStaysPending

LEMMA InitInv ==
    ASSUME Init
    PROVE  ServeInv
<1>1. /\ httpFailed \in BOOLEAN /\ cancelled \in BOOLEAN
  BY Zenon DEF Init
<1> QED
  BY <1>1, ConstantsOK DEF Init, ServeInv, TypeOK, RequestStaysPending, Depth

LEMMA SignalType ==
    ASSUME TypeOK, Signal
    PROVE  wake' \in 0..Depth /\ wake' > 0
BY DEF TypeOK, Signal, Depth

LEMMA FaultType ==
    ASSUME TypeOK, Fault
    PROVE  faults' \in 0..MaxFaults
BY ConstantsOK DEF TypeOK, Fault

LEMMA UploadsInv ==
    ASSUME ServeInv, Uploads
    PROVE  ServeInv'
<1> USE DEF ServeInv
<1>1. ASSUME NEW u \in Upload, PutOnly(u)
      PROVE  ServeInv'
  BY <1>1 DEF PutOnly, Arrive, loopVars, TypeOK, RequestStaysPending
<1>2. ASSUME NEW u \in Upload, PutAndPush(u)
      PROVE  ServeInv'
  BY <1>2 DEF PutAndPush, Ask, Arrive, TypeOK, RequestStaysPending
<1>3. ASSUME NEW u \in Upload, PutAndPost(u)
      PROVE  ServeInv'
  BY <1>3, SignalType DEF PutAndPost, Ask, Arrive, TypeOK, RequestStaysPending
<1> QED
  BY <1>1, <1>2, <1>3 DEF Uploads

LEMMA WatchInv ==
    ASSUME ServeInv, Watch \/ PopFails
    PROVE  ServeInv'
<1> USE DEF ServeInv
<1>1. ASSUME NEW u \in Upload, Pop(u)
      PROVE  ServeInv'
  <2>1. /\ u \in queue /\ queue' = queue \ {u} /\ hand = None /\ hand' = u
        /\ UNCHANGED <<main, wake, timer, httpFailed, cancelled, server, watcher, fresh,
                       owed, asked, lost, faults>>
    BY <1>1 DEF Pop, loopVars, clientVars
  <2>2. TypeOK'
    BY <2>1 DEF TypeOK
  <2>3. RequestStaysPending'
    BY <2>1, ConstantsOK DEF RequestStaysPending, TypeOK
  <2> QED
    BY <2>2, <2>3
<1>2. CASE SignalPopped
  BY <1>2, SignalType DEF SignalPopped, clientVars, TypeOK, RequestStaysPending
<1>3. CASE BackoffEnds \/ WatcherQuits
  BY <1>3 DEF BackoffEnds, WatcherQuits, loopVars, clientVars, TypeOK, RequestStaysPending
<1>4. CASE PopFails
  <2>1. /\ faults' \in 0..MaxFaults /\ watcher' = "backoff"
        /\ UNCHANGED <<main, wake, timer, httpFailed, cancelled, server, hand, fresh, owed, asked>>
    BY <1>4, FaultType DEF PopFails, loopVars, clientVars
  <2>2. \/ UNCHANGED <<queue, lost>>
        \/ \E u \in queue : queue' = queue \ {u} /\ lost' = lost \cup {u}
    BY <1>4 DEF PopFails
  <2>3. queue' \in SUBSET Upload /\ lost' \in SUBSET Upload
    BY <2>2 DEF TypeOK
  <2>4. TypeOK'
    BY <2>1, <2>3 DEF TypeOK
  <2>5. RequestStaysPending'
    BY <2>1, <2>2 DEF RequestStaysPending
  <2> QED
    BY <2>4, <2>5
<1> QED
  BY <1>1, <1>2, <1>3, <1>4 DEF Watch

LEMMA OutsideInv ==
    ASSUME ServeInv, ServerDies \/ TimerFires \/ Sigterm \/ Crash \/ Restart
    PROVE  ServeInv'
<1> USE DEF ServeInv
<1>1. CASE ServerDies
  BY <1>1, FaultType DEF ServerDies, ReportFailure, loopVars, clientVars, TypeOK, RequestStaysPending
<1>2. CASE TimerFires
  BY <1>2 DEF TimerFires, clientVars, TypeOK, RequestStaysPending
<1>3. CASE Sigterm
  BY <1>3, FaultType DEF Sigterm, loopVars, clientVars, TypeOK, RequestStaysPending
<1>4. CASE Crash
  BY <1>4, FaultType DEF Crash, clientVars, TypeOK, RequestStaysPending
<1>5. CASE Restart
  <2>1. httpFailed' \in BOOLEAN /\ cancelled' \in BOOLEAN
    BY <1>5, Zenon DEF Restart
  <2> QED
    BY <1>5, <2>1, ConstantsOK DEF Restart, clientVars, TypeOK, RequestStaysPending, Depth
<1> QED
  BY <1>1, <1>2, <1>3, <1>4, <1>5

LEMMA LoopInv ==
    ASSUME ServeInv, Loop
    PROVE  ServeInv'
<1> USE DEF ServeInv
<1>1. CASE Stop \/ EndpointFailed
  BY <1>1 DEF Stop, EndpointFailed, Return, clientVars, TypeOK, RequestStaysPending
<1>2. CASE BeginRun
  BY <1>2 DEF BeginRun, TypeOK, RequestStaysPending
<1>3. CASE EndRun
  BY <1>3 DEF EndRun, ResetTimer, clientVars, TypeOK, RequestStaysPending
<1>4. CASE WakeUp
  BY <1>4 DEF WakeUp, clientVars, TypeOK, RequestStaysPending, Depth
<1>5. CASE SafetyNet
  BY <1>5 DEF SafetyNet, clientVars, TypeOK, RequestStaysPending
<1> QED
  BY <1>1, <1>2, <1>3, <1>4, <1>5 DEF Loop

LEMMA StepInv ==
    ASSUME ServeInv, [Next]_vars
    PROVE  ServeInv'
<1>1. CASE UNCHANGED vars
  BY <1>1 DEF vars, ServeInv, TypeOK, RequestStaysPending
<1>2. CASE Next
  BY <1>2, UploadsInv, WatchInv, OutsideInv, LoopInv DEF Next
<1> QED
  BY <1>1, <1>2

LEMMA Invariance == Spec => []ServeInv
BY InitInv, StepInv, PTL DEF Spec

\* TypeOK: in particular the channel never holds more than its capacity.
THEOREM ServeTypeCorrect == Spec => []TypeOK
BY Invariance, PTL DEF ServeInv

\* RequestStaysPending: for any number of uploads and faults.
THEOREM RequestsStayPending == Spec => []RequestStaysPending
BY Invariance, PTL DEF ServeInv
=============================================================================
