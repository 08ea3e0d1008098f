------------------------------ MODULE RunnerLock ------------------------------
(***************************************************************************)
(* The single-runner lock of a destination bucket, core/lock.go, as the    *)
(* scheduler uses it: one object, created with If-None-Match: *, judged    *)
(* stale from the timestamp and TTL written in it, removed only with       *)
(* If-Match on the ETag that was read.                                     *)
(*                                                                         *)
(* A lock body is a member of Id (the random workerId drawn by every       *)
(* tryPutLock, hence also its ETag).  Timestamps are kept as ages: age[i]  *)
(* is the time since the StartedAt of body i was taken; clocks of two      *)
(* hosts differ by at most Skew, so an age is read with that error.        *)
(* left[w] is what remains of the time in which w's run, its finalisation  *)
(* included, must be over.                                                 *)
(*                                                                         *)
(* A request whose answer is lost may already have been applied, may never *)
(* arrive, or may arrive later: it then stands in late.                    *)
(***************************************************************************)
EXTENDS Naturals, FiniteSets

CONSTANTS
    Worker,     \* processes that run against this destination bucket
    Id,         \* lock bodies (workerId and ETag); drawn fresh, like 128 random bits
    None,       \* no lock object, no body
    TTL,        \* TTL[w]: lockTtlSeconds that w writes in its bodies
    Life,       \* Life[w]: budget plus the bounded finalisation of a run of w
    Skew,       \* largest difference between two hosts' clocks
    AgeCap,     \* ages are not told apart beyond this
    MaxFaults,  \* failed requests and crashes that are explored
    Prompt      \* TRUE: contexts end every run within Life; FALSE: a run may overrun

ASSUME ConstantsOK ==
    /\ None \notin Id
    /\ Worker # {}
    /\ TTL \in [Worker -> Nat] /\ Life \in [Worker -> Nat]
    /\ Skew \in Nat /\ AgeCap \in Nat /\ MaxFaults \in Nat
    /\ Prompt \in BOOLEAN
    /\ \A w \in Worker : AgeCap >= TTL[w] + Skew

\* SPEC.md section 8: "Budget < runtime < lock-TTL is invariant".
ASSUME BudgetWithinTTL == Prompt => \A w \in Worker : Life[w] + Skew < TTL[w]

VARIABLES
    lock,       \* body stored under .transcoder.lock, or None
    writer,     \* writer[i]: the worker that wrote body i (its TTL is in the body)
    age,        \* age[i]: time since body i's StartedAt
    pc,         \* where each worker stands
    mine,       \* mine[w]: the body w is trying to create or holds
    seen,       \* seen[w]: the ETag w read and is about to delete
    left,       \* left[w]: time left to w's run
    late,       \* requests given up by their sender that may still arrive
    faults      \* faults so far

vars == <<lock, writer, age, pc, mine, seen, left, late, faults>>

Nobody == CHOOSE w \in Worker : TRUE   \* stands for the writer of no body yet

Holding == {"hold", "relread", "reldel"}
Trying  == {"put", "put2"}
Body    == Id \cup {None}
Late    == [op : {"put", "del"}, id : Id, by : Worker]

TypeOK ==
    /\ lock \in Body
    /\ writer \in [Id -> Worker]
    /\ age \in [Id -> 0..AgeCap]
    /\ pc \in [Worker -> {"idle", "read", "del"} \cup Trying \cup Holding]
    /\ mine \in [Worker -> Body]
    /\ seen \in [Worker -> Body]
    /\ left \in [Worker -> Nat]
    /\ late \in SUBSET Late
    /\ faults \in 0..MaxFaults

\* seen[w] names a body exactly while w is about to delete, mine[w] exactly
\* while w is trying to create a body or works under one.
LocalsOK ==
    \A w \in Worker :
        /\ seen[w] # None <=> pc[w] \in {"del", "reldel"}
        /\ mine[w] # None <=> pc[w] \in Trying \cup Holding
        /\ pc[w] = "reldel" => seen[w] = mine[w]

\* The type invariant: every variable has its type, and each worker's locals
\* hold a body exactly where acquireLock and Release have one in hand.
TypeInv == TypeOK /\ LocalsOK

Init ==
    /\ lock = None
    /\ writer = [i \in Id |-> Nobody]
    /\ age = [i \in Id |-> 0]
    /\ pc = [w \in Worker |-> "idle"]
    /\ mine = [w \in Worker |-> None]
    /\ seen = [w \in Worker |-> None]
    /\ left = [w \in Worker |-> 0]
    /\ late = {}
    /\ faults = 0

-----------------------------------------------------------------------------
InUse(i) ==
    \/ lock = i
    \/ \E w \in Worker : mine[w] = i \/ seen[w] = i
    \/ \E m \in late : m.id = i

\* time.Since(StartedAt) < LockTTLSeconds, or not, on some clock within Skew.
MayLookLive(i)  == age[i] < TTL[writer[i]] + Skew

\* Wrong variant: staleness judged one tick early.
MutLookStaleEarly(i) == age[i] + Skew + 1 >= TTL[writer[i]]

MayLookStale(i) == age[i] + Skew >= TTL[writer[i]]

\* tryPutLock takes the time, draws a workerId and builds the body; the PUT follows.
NewBody(w, at) ==
    \E i \in Id :
        /\ ~InUse(i)
        /\ mine' = [mine EXCEPT ![w] = i]
        /\ writer' = [writer EXCEPT ![i] = w]
        /\ age' = [age EXCEPT ![i] = 0]
        /\ pc' = [pc EXCEPT ![w] = at]

\* Wrong variant: what was read stays with the worker.
MutStopKeeps(w, at) ==
    /\ pc' = [pc EXCEPT ![w] = at]
    /\ mine' = [mine EXCEPT ![w] = None]
    /\ seen' = seen

Stop(w, at) ==
    /\ pc' = [pc EXCEPT ![w] = at]
    /\ mine' = [mine EXCEPT ![w] = None]
    /\ seen' = [seen EXCEPT ![w] = None]

\* A sweep starts and calls AcquireLock for this bucket.
AcquireLock(w) ==
    /\ pc[w] = "idle"
    /\ NewBody(w, "put")
    /\ left' = [left EXCEPT ![w] = Life[w]]
    /\ UNCHANGED <<lock, seen, late, faults>>

\* The conditional PUT created the object.
PutCreated(w) ==
    /\ pc[w] \in Trying
    /\ lock = None
    /\ lock' = mine[w]
    /\ pc' = [pc EXCEPT ![w] = "hold"]
    /\ UNCHANGED <<writer, age, mine, seen, left, late, faults>>

\* 412: the first attempt goes on to read the lock, the second gives up.
AfterRefusal(w) == IF pc[w] = "put" THEN "read" ELSE "idle"

PutRefused(w) ==
    /\ pc[w] \in Trying
    /\ lock # None
    /\ Stop(w, AfterRefusal(w))
    /\ UNCHANGED <<lock, writer, age, left, late, faults>>

\* GET .transcoder.lock answers 404: AcquireLock tries the PUT once more.
ReadGone(w) ==
    /\ pc[w] = "read"
    /\ lock = None
    /\ NewBody(w, "put2")
    /\ UNCHANGED <<lock, seen, left, late, faults>>

\* The body read is younger than its own TTL: another worker is live.
ReadLive(w) ==
    /\ pc[w] = "read"
    /\ lock # None
    /\ MayLookLive(lock)
    /\ Stop(w, "idle")
    /\ UNCHANGED <<lock, writer, age, left, late, faults>>

\* Wrong variant: a stale lock is reported and left where it is.
MutNoTakeover(w) ==
    /\ pc[w] = "read"
    /\ lock # None
    /\ MayLookStale(lock)
    /\ Stop(w, "idle")
    /\ UNCHANGED <<lock, writer, age, left, late, faults>>

\* The body read is past its TTL: takeover, with the ETag that came with it.
ReadStale(w) ==
    /\ pc[w] = "read"
    /\ lock # None
    /\ MayLookStale(lock)
    /\ pc' = [pc EXCEPT ![w] = "del"]
    /\ seen' = [seen EXCEPT ![w] = lock]
    /\ UNCHANGED <<lock, writer, age, mine, left, late, faults>>

\* Wrong variant: a DELETE without If-Match.
MutDeleteAny(i) == lock' = None

\* DELETE with If-Match: nothing happens to an object with another ETag.
DeleteIfMatch(i) == lock' = IF lock = i THEN None ELSE lock

\* The takeover's DELETE, whose refusal is ignored, then the second PUT.
DeleteStale(w) ==
    /\ pc[w] = "del"
    /\ DeleteIfMatch(seen[w])
    /\ NewBody(w, "put2")
    /\ seen' = [seen EXCEPT ![w] = None]
    /\ UNCHANGED <<left, late, faults>>

\* The run is over (all sources done, budget spent, or SIGTERM) and its
\* progress is written: finalizeScheduledPairs releases the lock.
EndRun(w) ==
    /\ pc[w] = "hold"
    /\ pc' = [pc EXCEPT ![w] = "relread"]
    /\ UNCHANGED <<lock, writer, age, mine, seen, left, late, faults>>

\* Release reads the object and checks the workerId in it.
ReleaseOwn(w) ==
    /\ pc[w] = "relread"
    /\ lock = mine[w]
    /\ pc' = [pc EXCEPT ![w] = "reldel"]
    /\ seen' = [seen EXCEPT ![w] = lock]
    /\ UNCHANGED <<lock, writer, age, mine, left, late, faults>>

ReleaseSkipped(w) ==
    /\ pc[w] = "relread"
    /\ lock # mine[w]
    /\ Stop(w, "idle")
    /\ UNCHANGED <<lock, writer, age, left, late, faults>>

ReleaseDelete(w) ==
    /\ pc[w] = "reldel"
    /\ DeleteIfMatch(seen[w])
    /\ Stop(w, "idle")
    /\ UNCHANGED <<writer, age, left, late, faults>>

-----------------------------------------------------------------------------
(* Faults. *)

Fault == faults < MaxFaults /\ faults' = faults + 1

\* The request w has under way, if any, may still arrive.
GiveUp(w) ==
    LET sent == CASE pc[w] \in Trying -> {[op |-> "put", id |-> mine[w], by |-> w]}
                  [] pc[w] \in {"del", "reldel"} -> {[op |-> "del", id |-> seen[w], by |-> w]}
                  [] OTHER -> {}
    IN  \/ late' = late \cup sent
        \/ late' = late

\* A transport error on the PUT, on a GET or on the release's DELETE ends the
\* attempt; so does a crash, at any point.
RequestFailed(w) ==
    /\ Fault
    /\ pc[w] \in Trying \cup {"read", "relread", "reldel"}
    /\ GiveUp(w)
    /\ Stop(w, "idle")
    /\ UNCHANGED <<lock, writer, age, left>>

Crash(w) ==
    /\ Fault
    /\ pc[w] \in {"hold", "del"}
    /\ GiveUp(w)
    /\ Stop(w, "idle")
    /\ UNCHANGED <<lock, writer, age, left>>

\* The takeover's DELETE fails: logged, and the PUT is tried anyway.
DeleteStaleFailed(w) ==
    /\ Fault
    /\ pc[w] = "del"
    /\ GiveUp(w)
    /\ NewBody(w, "put2")
    /\ seen' = [seen EXCEPT ![w] = None]
    /\ UNCHANGED <<lock, left>>

\* The PUT was applied, its answer was lost, and the client's own retry of the
\* same request is refused: the worker is locked out by its own object.
PutResent(w) ==
    /\ Fault
    /\ pc[w] \in Trying
    /\ lock = None
    /\ lock' = mine[w]
    /\ Stop(w, AfterRefusal(w))
    /\ UNCHANGED <<writer, age, left, late>>

\* A request its sender has given up arrives.
Arrives(m) ==
    /\ m \in late
    /\ late' = late \ {m}
    /\ \/ m.op = "put" /\ lock = None /\ lock' = m.id
       \/ m.op = "put" /\ lock # None /\ lock' = lock
       \/ m.op = "del" /\ DeleteIfMatch(m.id)
    /\ UNCHANGED <<writer, age, pc, mine, seen, left, faults>>

\* Time passes.  Under Prompt, not beyond the end that contexts set to a run.
\* What was said of bodies nothing refers to any more is forgotten.
Tick ==
    /\ Prompt => \A w \in Worker : pc[w] # "idle" => left[w] > 0
    /\ left' = [w \in Worker |-> IF left[w] > 0 THEN left[w] - 1 ELSE 0]
    /\ age' = [i \in Id |-> IF ~InUse(i) THEN 0
                            ELSE IF age[i] < AgeCap THEN age[i] + 1 ELSE age[i]]
    /\ writer' = [i \in Id |-> IF InUse(i) THEN writer[i] ELSE Nobody]
    /\ UNCHANGED <<lock, pc, mine, seen, late, faults>>

Step(w) ==
    \/ PutCreated(w) \/ PutRefused(w)
    \/ ReadGone(w) \/ ReadLive(w) \/ ReadStale(w) \/ DeleteStale(w)
    \/ EndRun(w) \/ ReleaseOwn(w) \/ ReleaseSkipped(w) \/ ReleaseDelete(w)

FaultStep(w) ==
    RequestFailed(w) \/ Crash(w) \/ DeleteStaleFailed(w) \/ PutResent(w)

Next ==
    \/ \E w \in Worker : AcquireLock(w) \/ Step(w) \/ FaultStep(w)
    \/ \E m \in late : Arrives(m)
    \/ Tick

Spec == Init /\ [][Next]_vars

\* Cron or the wake loop starts runs again and again, a run's requests are
\* answered unless a fault is spent on them, a request does not travel for
\* ever, and time passes.
Fairness ==
    /\ \A w \in Worker : WF_vars(AcquireLock(w)) /\ WF_vars(Step(w))
    /\ WF_vars(\E m \in late : Arrives(m))
    /\ WF_vars(Tick)

FairSpec == Spec /\ Fairness

-----------------------------------------------------------------------------
(* Properties. *)

Holders == {w \in Worker : pc[w] \in Holding}

\* The lock promises what BucketMutex says: one worker at a time.
Mutex == INSTANCE BucketMutex WITH holders <- Holders
MutexSpec == Mutex!Spec

\* SPEC.md section 7, "at most one runner per destination bucket": whoever
\* works on the bucket (or is releasing it) is the one its lock object names,
\* so no takeover, release or delayed request has removed it meanwhile.
HolderOwnsLock == \A w \in Worker : pc[w] \in Holding => lock = mine[w]

\* Whatever the timing: a lock object is only ever removed by the worker that
\* wrote it, or once it has outlived the TTL written in it (lock.go:41-60 and
\* 100-115).  A run that overran its TTL and was taken over must not remove
\* its successor's lock, nor may a takeover remove another takeover's lock.
AgedOut(i) == MayLookStale(i)

RemovedByWriter(i) ==
    \/ \E w \in Worker : pc[w] = "reldel" /\ mine[w] = i /\ pc'[w] = "idle"
    \/ \E m \in late \ late' : m.op = "del" /\ m.id = i /\ m.by = writer[i]

RemovalJustified ==
    [][(lock # None /\ lock' # lock) => AgedOut(lock) \/ RemovedByWriter(lock)]_vars

\* SPEC.md section 7, "crash recovery is bounded by lockTtlSeconds": no lock
\* object, whoever left it behind, stays for ever.
LockGoesAway == \A i \in Id : lock = i ~> lock # i

\* The bucket is worked on again and again, whatever crashed before.
BucketServed == []<>(\E w \in Worker : pc[w] = "hold")
=============================================================================
