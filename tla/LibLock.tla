------------------------------- MODULE LibLock -------------------------------
(***************************************************************************)
(* The same lock as the TypeScript workers take it, lib/src/lock.ts.       *)
(* Acquisition (conditional PUT, GET, judging the age, second PUT) is the  *)
(* Go code's, statement by statement; the DELETEs are not: takeover and    *)
(* release send them without If-Match, and release without reading.        *)
(***************************************************************************)
EXTENDS RunnerLock

\* An unconditional DELETE removes whatever object is there.
LibDelete == lock' = None

\* acquireLock: the takeover's DELETE, then tryPut.
LibDeleteStale(w) ==
    /\ pc[w] = "del"
    /\ LibDelete
    /\ NewBody(w, "put2")
    /\ seen' = [seen EXCEPT ![w] = None]
    /\ UNCHANGED <<left, late, faults>>

\* runPair's finally block calls release, which sends its DELETE.
LibEndRun(w) ==
    /\ pc[w] = "hold"
    /\ pc' = [pc EXCEPT ![w] = "reldel"]
    /\ UNCHANGED <<lock, writer, age, mine, seen, left, late, faults>>

LibRelease(w) ==
    /\ pc[w] = "reldel"
    /\ LibDelete
    /\ Stop(w, "idle")
    /\ UNCHANGED <<writer, age, left, late, faults>>

LibStep(w) ==
    \/ PutCreated(w) \/ PutRefused(w)
    \/ ReadGone(w) \/ ReadLive(w) \/ ReadStale(w) \/ LibDeleteStale(w)
    \/ LibEndRun(w) \/ LibRelease(w)

\* Of the faults, a crash of the holder is enough to leave a stale lock.
LibNext ==
    \/ \E w \in Worker : AcquireLock(w) \/ LibStep(w) \/ Crash(w)
    \/ Tick

LibSpec == Init /\ [][LibNext]_vars

\* SPEC.md:177, "At most one runner per (endpoint, dest bucket) pair is
\* permitted at a time, enforced by the global lock at .transcoder.lock".
AtMostOneRunner == Cardinality(Holders) <= 1
=============================================================================
