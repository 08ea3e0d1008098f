--------------------------- MODULE RunnerLock_proof ---------------------------
(***************************************************************************)
(* Proofs about RunnerLock, for every number of workers, every TTL and     *)
(* every number of faults.                                                 *)
(***************************************************************************)
EXTENDS RunnerLock, TLAPS

-----------------------------------------------------------------------------
(* Type correctness. *)

LEMMA NobodyIsWorker == Nobody \in Worker
BY ConstantsOK DEF Nobody

LEMMA NewBodyType ==
    ASSUME TypeOK, NEW w \in Worker, NEW at \in Trying, NewBody(w, at)
    PROVE  /\ writer' \in [Id -> Worker]
           /\ age' \in [Id -> 0..AgeCap]
           /\ pc' \in [Worker -> {"idle", "read", "del"} \cup Trying \cup Holding]
           /\ mine' \in [Worker -> Body]
BY ConstantsOK DEF NewBody, TypeOK, Body

LEMMA StopType ==
    ASSUME TypeOK, NEW w \in Worker, NEW at \in {"idle", "read"}, Stop(w, at)
    PROVE  /\ pc' \in [Worker -> {"idle", "read", "del"} \cup Trying \cup Holding]
           /\ mine' \in [Worker -> Body]
           /\ seen' \in [Worker -> Body]
BY DEF Stop, TypeOK, Body

LEMMA GiveUpType ==
    ASSUME TypeOK, LocalsOK, NEW w \in Worker, GiveUp(w)
    PROVE  late' \in SUBSET Late
BY DEF GiveUp, TypeOK, LocalsOK, Late, Body, Trying, Holding

LEMMA TypeStep ==
    ASSUME TypeOK, LocalsOK, [Next]_vars
    PROVE  TypeOK' /\ LocalsOK'
<1> USE DEF TypeOK, Body, Trying, Holding
<1>1. ASSUME NEW w \in Worker, AcquireLock(w)
      PROVE  TypeOK' /\ LocalsOK'
  <2>1. TypeOK'
    BY <1>1, NewBodyType, ConstantsOK DEF AcquireLock
  <2>2. LocalsOK'
    BY <1>1, ConstantsOK DEF AcquireLock, LocalsOK, NewBody
  <2> QED
    BY <2>1, <2>2
<1>2. ASSUME NEW w \in Worker, PutCreated(w)
      PROVE  TypeOK' /\ LocalsOK'
  BY <1>2 DEF PutCreated, LocalsOK
<1>3. ASSUME NEW w \in Worker, PutRefused(w)
      PROVE  TypeOK' /\ LocalsOK'
  BY <1>3 DEF PutRefused, AfterRefusal, Stop, LocalsOK
<1>4. ASSUME NEW w \in Worker, ReadGone(w)
      PROVE  TypeOK' /\ LocalsOK'
  BY <1>4, NewBodyType, ConstantsOK DEF ReadGone, LocalsOK, NewBody
<1>5. ASSUME NEW w \in Worker, ReadLive(w)
      PROVE  TypeOK' /\ LocalsOK'
  BY <1>5 DEF ReadLive, Stop, LocalsOK
<1>6. ASSUME NEW w \in Worker, ReadStale(w)
      PROVE  TypeOK' /\ LocalsOK'
  BY <1>6 DEF ReadStale, LocalsOK
<1>7. ASSUME NEW w \in Worker, DeleteStale(w)
      PROVE  TypeOK' /\ LocalsOK'
  BY <1>7, NewBodyType, ConstantsOK DEF DeleteStale, DeleteIfMatch, LocalsOK, NewBody
<1>8. ASSUME NEW w \in Worker, EndRun(w)
      PROVE  TypeOK' /\ LocalsOK'
  BY <1>8 DEF EndRun, LocalsOK
<1>9. ASSUME NEW w \in Worker, ReleaseOwn(w)
      PROVE  TypeOK' /\ LocalsOK'
  BY <1>9 DEF ReleaseOwn, LocalsOK
<1>10. ASSUME NEW w \in Worker, ReleaseSkipped(w)
       PROVE  TypeOK' /\ LocalsOK'
  BY <1>10 DEF ReleaseSkipped, Stop, LocalsOK
<1>11. ASSUME NEW w \in Worker, ReleaseDelete(w)
       PROVE  TypeOK' /\ LocalsOK'
  BY <1>11 DEF ReleaseDelete, DeleteIfMatch, Stop, LocalsOK
<1>12. ASSUME NEW w \in Worker, RequestFailed(w)
       PROVE  TypeOK' /\ LocalsOK'
  BY <1>12, GiveUpType, ConstantsOK DEF RequestFailed, Fault, Stop, LocalsOK
<1>13. ASSUME NEW w \in Worker, Crash(w)
       PROVE  TypeOK' /\ LocalsOK'
  BY <1>13, GiveUpType, ConstantsOK DEF Crash, Fault, Stop, LocalsOK
<1>14. ASSUME NEW w \in Worker, DeleteStaleFailed(w)
       PROVE  TypeOK' /\ LocalsOK'
  BY <1>14, GiveUpType, NewBodyType, ConstantsOK
     DEF DeleteStaleFailed, Fault, LocalsOK, NewBody
<1>15. ASSUME NEW w \in Worker, PutResent(w)
       PROVE  TypeOK' /\ LocalsOK'
  BY <1>15, ConstantsOK DEF PutResent, Fault, AfterRefusal, Stop, LocalsOK
<1>16. ASSUME NEW m \in late, Arrives(m)
       PROVE  TypeOK' /\ LocalsOK'
  BY <1>16 DEF Arrives, DeleteIfMatch, Late, LocalsOK
<1>17. ASSUME Tick
       PROVE  TypeOK' /\ LocalsOK'
  BY <1>17, NobodyIsWorker, ConstantsOK DEF Tick, LocalsOK
<1>18. CASE UNCHANGED vars
  BY <1>18 DEF vars, LocalsOK
<1> QED
  BY <1>1, <1>2, <1>3, <1>4, <1>5, <1>6, <1>7, <1>8, <1>9, <1>10, <1>11, <1>12,
     <1>13, <1>14, <1>15, <1>16, <1>17, <1>18 DEF Next, Step, FaultStep

\* Every state is well typed: each worker's locals hold a body exactly where
\* the code has one in hand.
THEOREM TypeCorrect == Spec => []TypeInv
<1>1. Init => TypeInv
  BY NobodyIsWorker, ConstantsOK
     DEF Init, TypeInv, TypeOK, LocalsOK, Body, Trying, Holding
<1>2. TypeInv /\ [Next]_vars => TypeInv'
  BY TypeStep DEF TypeInv
<1> QED
  BY <1>1, <1>2, PTL DEF Spec

-----------------------------------------------------------------------------
(* Mutual exclusion. *)

\* A body is one worker's own: nobody else carries it, no request of others
\* names it, and the TTL in it is its writer's.
BodyOwned ==
    \A w \in Worker : mine[w] # None =>
        /\ writer[mine[w]] = w
        /\ \A v \in Worker \ {w} : mine[v] # mine[w] /\ seen[v] # mine[w]
        /\ \A m \in late : m.id # mine[w]

\* A body whose PUT is under way is not stored yet.
NotYetStored == \A w \in Worker : pc[w] \in Trying => lock # mine[w]

\* A body is no older than its run, and a run is no longer than its life.
YoungEnough ==
    \A w \in Worker :
        /\ left[w] <= Life[w]
        /\ Prompt /\ mine[w] # None => age[mine[w]] + left[w] <= Life[w]

LockInv == BodyOwned /\ NotYetStored /\ YoungEnough /\ HolderOwnsLock

LEMMA HolderLooksLive ==
    ASSUME TypeOK, LocalsOK, LockInv, Prompt, NEW w \in Worker, mine[w] # None
    PROVE  ~MayLookStale(mine[w])
BY BudgetWithinTTL, ConstantsOK
   DEF TypeOK, Body, LockInv, BodyOwned, YoungEnough, MayLookStale

LEMMA LockInvStep ==
    ASSUME TypeOK, LocalsOK, LockInv, Prompt, [Next]_vars
    PROVE  LockInv'
<1> USE ConstantsOK DEF TypeOK, Body, Trying, Holding, LocalsOK, LockInv,
        BodyOwned, NotYetStored, YoungEnough, HolderOwnsLock
<1>1. ASSUME NEW w \in Worker, AcquireLock(w)
      PROVE  LockInv'
  BY <1>1 DEF AcquireLock, NewBody, InUse
<1>2. ASSUME NEW w \in Worker, PutCreated(w)
      PROVE  LockInv'
  BY <1>2 DEF PutCreated
<1>3. ASSUME NEW w \in Worker, PutRefused(w)
      PROVE  LockInv'
  BY <1>3 DEF PutRefused, AfterRefusal, Stop
<1>4. ASSUME NEW w \in Worker, ReadGone(w)
      PROVE  LockInv'
  BY <1>4 DEF ReadGone, NewBody, InUse
<1>5. ASSUME NEW w \in Worker, ReadLive(w)
      PROVE  LockInv'
  BY <1>5 DEF ReadLive, Stop
<1>6. ASSUME NEW w \in Worker, ReadStale(w)
      PROVE  LockInv'
  BY <1>6, HolderLooksLive DEF ReadStale
<1>7. ASSUME NEW w \in Worker, DeleteStale(w)
      PROVE  LockInv'
  BY <1>7 DEF DeleteStale, DeleteIfMatch, NewBody, InUse
<1>8. ASSUME NEW w \in Worker, EndRun(w)
      PROVE  LockInv'
  BY <1>8 DEF EndRun
<1>9. ASSUME NEW w \in Worker, ReleaseOwn(w)
      PROVE  LockInv'
  BY <1>9 DEF ReleaseOwn
<1>10. ASSUME NEW w \in Worker, ReleaseSkipped(w)
       PROVE  LockInv'
  BY <1>10 DEF ReleaseSkipped, Stop
<1>11. ASSUME NEW w \in Worker, ReleaseDelete(w)
       PROVE  LockInv'
  BY <1>11 DEF ReleaseDelete, DeleteIfMatch, Stop
<1>12. ASSUME NEW w \in Worker, RequestFailed(w)
       PROVE  LockInv'
  BY <1>12 DEF RequestFailed, GiveUp, Stop
<1>13. ASSUME NEW w \in Worker, Crash(w)
       PROVE  LockInv'
  BY <1>13 DEF Crash, GiveUp, Stop
<1>14. ASSUME NEW w \in Worker, DeleteStaleFailed(w)
       PROVE  LockInv'
  BY <1>14 DEF DeleteStaleFailed, GiveUp, NewBody, InUse
<1>15. ASSUME NEW w \in Worker, PutResent(w)
       PROVE  LockInv'
  BY <1>15 DEF PutResent, AfterRefusal, Stop
<1>16. ASSUME NEW m \in late, Arrives(m)
       PROVE  LockInv'
  BY <1>16 DEF Arrives, DeleteIfMatch, Late
<1>17. ASSUME Tick
       PROVE  LockInv'
  BY <1>17 DEF Tick, InUse
<1>18. CASE UNCHANGED vars
  BY <1>18 DEF vars
<1> QED
  BY <1>1, <1>2, <1>3, <1>4, <1>5, <1>6, <1>7, <1>8, <1>9, <1>10, <1>11, <1>12,
     <1>13, <1>14, <1>15, <1>16, <1>17, <1>18 DEF Next, Step, FaultStep

\* Whoever works on the bucket is the worker its lock object names, for every
\* set of workers whose runs end within TTLs less the clock skew.
THEOREM MutualExclusion ==
    ASSUME Prompt
    PROVE  Spec => []HolderOwnsLock
<1>1. Init => LockInv
  BY ConstantsOK DEF Init, LockInv, BodyOwned, NotYetStored, YoungEnough,
     HolderOwnsLock, Trying, Holding
<1>2. TypeOK /\ LocalsOK /\ LockInv /\ [Next]_vars => LockInv'
  BY LockInvStep
<1>3. LockInv => HolderOwnsLock
  BY DEF LockInv
<1> QED
  BY <1>1, <1>2, <1>3, TypeCorrect, PTL DEF TypeInv, Spec

-----------------------------------------------------------------------------
(* The lock implements BucketMutex. *)

LEMMA OneHolder ==
    ASSUME TypeOK, LocalsOK, LockInv, NEW w \in Worker, pc[w] \in Holding
    PROVE  Holders = {w}
BY DEF TypeOK, LocalsOK, LockInv, BodyOwned, HolderOwnsLock, Holders, Holding

LEMMA MutexStep ==
    ASSUME TypeOK, LocalsOK, LockInv, [Next]_vars
    PROVE  [Mutex!Next]_Holders
<1> USE DEF TypeOK, Holders, Mutex!Next
\* A worker that leaves the holding states without another entering them.
<1>1. ASSUME NEW w \in Worker, NEW at \in {"idle", "read"}, Stop(w, at)
      PROVE  [Mutex!Next]_Holders
  <2>1. CASE pc[w] \in Holding
    <3>1. Holders = {w}
      BY <2>1, OneHolder
    <3>2. Holders' = {}
      BY <1>1, <3>1 DEF Stop, Holding
    <3> QED
      BY <3>1, <3>2 DEF Mutex!Release
  <2>2. CASE pc[w] \notin Holding
    BY <1>1, <2>2 DEF Stop, Holding
  <2> QED
    BY <2>1, <2>2
<1>2. ASSUME NEW w \in Worker, PutCreated(w)
      PROVE  [Mutex!Next]_Holders
  <2>1. Holders = {}
    BY <1>2, ConstantsOK
       DEF PutCreated, LocalsOK, LockInv, HolderOwnsLock, Holding, Trying
  <2>2. Holders' = {w}
    BY <1>2, <2>1 DEF PutCreated, Holding, Trying
  <2> QED
    BY <2>1, <2>2 DEF Mutex!Acquire
\* Steps within the acquisition, and within the holding states.
<1>3. ASSUME NEW w \in Worker,
             \/ AcquireLock(w) \/ ReadGone(w) \/ DeleteStale(w) \/ DeleteStaleFailed(w)
             \/ ReadStale(w) \/ EndRun(w) \/ ReleaseOwn(w)
      PROVE  UNCHANGED Holders
  BY <1>3 DEF AcquireLock, ReadGone, DeleteStale, DeleteStaleFailed, NewBody,
     ReadStale, EndRun, ReleaseOwn, Holding
<1>4. ASSUME NEW w \in Worker,
             \/ PutRefused(w) \/ ReadLive(w) \/ ReleaseSkipped(w) \/ ReleaseDelete(w)
             \/ RequestFailed(w) \/ Crash(w) \/ PutResent(w)
      PROVE  [Mutex!Next]_Holders
  <2>1. Stop(w, "idle") \/ Stop(w, "read")
    BY <1>4 DEF PutRefused, AfterRefusal, ReadLive, ReleaseSkipped, ReleaseDelete,
       RequestFailed, Crash, PutResent
  <2> QED
    BY <1>1, <2>1
<1>5. ASSUME NEW m \in late, Arrives(m)
      PROVE  UNCHANGED Holders
  BY <1>5 DEF Arrives
<1>6. ASSUME Tick \/ UNCHANGED vars
      PROVE  UNCHANGED Holders
  BY <1>6 DEF Tick, vars
<1> QED
  BY <1>2, <1>3, <1>4, <1>5, <1>6 DEF Next, Step, FaultStep

\* Workers whose runs end in time pass the bucket from one to the next only
\* through nobody having it.
THEOREM LockImplementsMutex ==
    ASSUME Prompt
    PROVE  Spec => MutexSpec
<1>1. Init => LockInv /\ Mutex!Init
  BY ConstantsOK DEF Init, LockInv, BodyOwned, NotYetStored, YoungEnough,
     HolderOwnsLock, Trying, Holding, Mutex!Init, Holders
<1>2. TypeOK /\ LocalsOK /\ LockInv /\ [Next]_vars => LockInv'
  BY LockInvStep
<1>3. TypeOK /\ LocalsOK /\ LockInv /\ [Next]_vars => [Mutex!Next]_Holders
  BY MutexStep
<1> QED
  BY <1>1, <1>2, <1>3, TypeCorrect, PTL DEF TypeInv, Spec, MutexSpec, Mutex!Spec

-----------------------------------------------------------------------------
(* Removal of the lock object, whatever the timing. *)

\* Every DELETE under way or delayed names a body of its sender's, or one that
\* has outlived its TTL.
DeletesJustified ==
    /\ \A w \in Worker : pc[w] = "del" => AgedOut(seen[w])
    /\ \A m \in late : m.op = "del" => AgedOut(m.id) \/ m.by = writer[m.id]
    /\ \A w \in Worker : mine[w] # None => writer[mine[w]] = w

LEMMA AgedOutStays ==
    ASSUME TypeOK, NEW i \in Id, InUse(i), AgedOut(i),
           writer'[i] = writer[i], age'[i] = age[i] \/ age'[i] = age[i] + 1
    PROVE  AgedOut(i)'
BY ConstantsOK DEF TypeOK, AgedOut, MayLookStale

LEMMA DeletesJustifiedStep ==
    ASSUME TypeOK, LocalsOK, DeletesJustified, [Next]_vars
    PROVE  DeletesJustified'
<1> USE ConstantsOK DEF TypeOK, Body, Trying, Holding, LocalsOK, DeletesJustified, Late
\* Drawing a fresh body does not touch the bodies that requests name.
<1>1. ASSUME NEW w \in Worker, NEW at \in Trying, NewBody(w, at),
             pc[w] \notin Trying \cup Holding,
             seen' = [seen EXCEPT ![w] = None] \/ seen' = seen,
             GiveUp(w) \/ late' = late
      PROVE  DeletesJustified'
  BY <1>1 DEF NewBody, InUse, GiveUp, AgedOut, MayLookStale
<1>2. ASSUME NEW w \in Worker,
             AcquireLock(w) \/ ReadGone(w) \/ DeleteStale(w) \/ DeleteStaleFailed(w)
      PROVE  DeletesJustified'
  BY <1>1, <1>2 DEF AcquireLock, ReadGone, DeleteStale, DeleteStaleFailed
<1>3. ASSUME NEW w \in Worker, NEW at \in {"idle", "read"}, Stop(w, at),
             GiveUp(w) \/ late' = late, UNCHANGED <<writer, age>>
      PROVE  DeletesJustified'
  BY <1>3 DEF Stop, GiveUp, AgedOut, MayLookStale
<1>4. ASSUME NEW w \in Worker,
             \/ PutRefused(w) \/ ReadLive(w) \/ ReleaseSkipped(w) \/ ReleaseDelete(w)
             \/ RequestFailed(w) \/ Crash(w) \/ PutResent(w)
      PROVE  DeletesJustified'
  BY <1>3, <1>4 DEF PutRefused, AfterRefusal, ReadLive, ReleaseSkipped,
     ReleaseDelete, RequestFailed, Crash, PutResent
<1>5. ASSUME NEW w \in Worker,
             PutCreated(w) \/ ReadStale(w) \/ EndRun(w) \/ ReleaseOwn(w)
      PROVE  DeletesJustified'
  BY <1>5 DEF PutCreated, ReadStale, EndRun, ReleaseOwn, AgedOut, MayLookStale
<1>6. ASSUME NEW m \in late, Arrives(m)
      PROVE  DeletesJustified'
  BY <1>6 DEF Arrives, AgedOut, MayLookStale
<1>7. ASSUME Tick
      PROVE  DeletesJustified'
  <2>1. ASSUME NEW i \in Id, InUse(i)
        PROVE  writer'[i] = writer[i] /\ (AgedOut(i) => AgedOut(i)')
    BY <1>7, <2>1, AgedOutStays DEF Tick
  <2> QED
    BY <1>7, <2>1 DEF Tick, InUse
<1>8. CASE UNCHANGED vars
  BY <1>8 DEF vars, AgedOut, MayLookStale
<1> QED
  BY <1>2, <1>4, <1>5, <1>6, <1>7, <1>8 DEF Next, Step, FaultStep

LEMMA RemovalStep ==
    ASSUME TypeOK, LocalsOK, DeletesJustified, [Next]_vars, lock # None, lock' # lock
    PROVE  AgedOut(lock) \/ RemovedByWriter(lock)
<1> USE ConstantsOK DEF TypeOK, Body, Late, LocalsOK, DeletesJustified,
        DeleteIfMatch, RemovedByWriter
<1>1. ASSUME NEW w \in Worker, DeleteStale(w)
      PROVE  AgedOut(lock)
  BY <1>1 DEF DeleteStale
<1>2. ASSUME NEW w \in Worker, ReleaseDelete(w)
      PROVE  RemovedByWriter(lock)
  BY <1>2 DEF ReleaseDelete, Stop
<1>3. ASSUME NEW m \in late, Arrives(m)
      PROVE  AgedOut(lock) \/ RemovedByWriter(lock)
  BY <1>3 DEF Arrives
<1> QED
  BY <1>1, <1>2, <1>3 DEF Next, Step, FaultStep, AcquireLock, PutCreated,
     PutRefused, ReadGone, ReadLive, ReadStale, EndRun, ReleaseOwn, ReleaseSkipped,
     RequestFailed, Crash, DeleteStaleFailed, PutResent, Tick, vars

\* A lock object is removed only by its writer or past its TTL, even when runs
\* overrun and requests arrive late.
THEOREM RemovalIsJustified == Spec => RemovalJustified
<1>1. Init => DeletesJustified
  BY DEF Init, DeletesJustified
<1>2. TypeOK /\ LocalsOK /\ DeletesJustified /\ [Next]_vars => DeletesJustified'
  BY DeletesJustifiedStep
<1>3. TypeOK /\ LocalsOK /\ DeletesJustified /\ [Next]_vars
      => [lock # None /\ lock' # lock => AgedOut(lock) \/ RemovedByWriter(lock)]_vars
  BY RemovalStep
<1> QED
  BY <1>1, <1>2, <1>3, TypeCorrect, PTL DEF TypeInv, Spec, RemovalJustified
=============================================================================
