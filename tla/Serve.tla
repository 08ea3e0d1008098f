--------------------------------- MODULE Serve ---------------------------------
(***************************************************************************)
(* The daemon loop of both Go workers, Serve (core/serve.go): passes are   *)
(* started by wake requests, which a Redis list or POST /wake brings, and  *)
(* by a timer.  What a pass does is module Scheduler; here it begins and   *)
(* ends, and an upload is covered once a pass has begun after it.          *)
(***************************************************************************)
EXTENDS Naturals

CONSTANTS
    Upload,     \* the uploads that are explored
    Redis,      \* TRUE: REDIS_URL is set
    Http,       \* TRUE: WAKE_HTTP_ADDR is set
    None,
    MaxFaults   \* Redis errors, endpoint deaths, SIGTERMs and crashes explored

ASSUME ConstantsOK ==
    Redis \in BOOLEAN /\ Http \in BOOLEAN /\ None \notin Upload /\ MaxFaults \in Nat

VARIABLES
    main,       \* where Serve stands; "stopped" and "failed": it has returned
    wake,       \* signals in the channel of that name
    timer,      \* the fallback timer: armed, fired (not yet received), or off
    httpFailed, \* the channel of that name holds an error
    cancelled,  \* ctx is done
    server,     \* the HTTP endpoint
    watcher,    \* the watchQueue goroutine
    hand,       \* the request it has popped and not yet signalled, or None
    queue,      \* the Redis list
    fresh,      \* uploads still to come
    owed,       \* history: uploads that no pass has begun after
    asked,      \* history: those of them whose wake request was accepted
    lost,       \* history: requests that a Redis error took off the list
    faults

loopVars   == <<main, wake, timer>>
clientVars == <<fresh, owed, asked>>
vars == <<main, wake, timer, httpFailed, cancelled, server, watcher, hand, queue,
          fresh, owed, asked, lost, faults>>

\* The capacity of the channel.
Depth == 1

Running == main \in {"head", "run", "wait"}

TypeOK ==
    /\ main \in {"head", "run", "wait", "stopped", "failed"}
    /\ wake \in 0..Depth
    /\ timer \in {"armed", "fired", "off"}
    /\ httpFailed \in BOOLEAN /\ cancelled \in BOOLEAN
    /\ server \in {"up", "down", "off"}
    /\ watcher \in {"blpop", "backoff", "off"}
    /\ hand \in Upload \cup {None}
    /\ queue \in SUBSET Upload /\ lost \in SUBSET Upload
    /\ fresh \in SUBSET Upload /\ owed \in SUBSET Upload /\ asked \in SUBSET Upload
    /\ faults \in 0..MaxFaults

Init ==
    /\ main = "head"
    /\ wake = 0
    /\ timer = "armed"
    /\ httpFailed = FALSE /\ cancelled = FALSE
    /\ server = IF Http THEN "up" ELSE "off"
    /\ watcher = IF Redis THEN "blpop" ELSE "off"
    /\ hand = None
    /\ queue = {} /\ lost = {}
    /\ fresh = Upload /\ owed = {} /\ asked = {}
    /\ faults = 0

Fault == faults < MaxFaults /\ faults' = faults + 1

\* Wrong variant: an unbuffered channel, received from only while waiting.
MutSignal == wake' = IF main = "wait" THEN Depth ELSE wake

\* Wrong variant: every request is counted.
MutSignalCounts == wake' = wake + 1

\* signal: a full channel already covers the request.
Signal == wake' = IF wake < Depth THEN wake + 1 ELSE wake

-----------------------------------------------------------------------------
(* The uploaders. *)

Arrive(u) ==
    /\ u \in fresh
    /\ fresh' = fresh \ {u}
    /\ owed' = owed \cup {u}

\* With a request that is accepted.
Ask(u) ==
    /\ Arrive(u)
    /\ asked' = asked \cup {u}

\* Nobody announces the upload.
PutOnly(u) ==
    /\ Arrive(u)
    /\ UNCHANGED <<loopVars, httpFailed, cancelled, server, watcher, hand, queue, asked,
                   lost, faults>>

\* LPUSH; the list outlives the worker.
PutAndPush(u) ==
    /\ Redis
    /\ Ask(u)
    /\ queue' = queue \cup {u}
    /\ UNCHANGED <<main, wake, timer, httpFailed, cancelled, server, watcher, hand, lost, faults>>

\* POST /wake, which answers 202 once it has signalled.
PutAndPost(u) ==
    /\ server = "up" /\ Running
    /\ Ask(u)
    /\ Signal
    /\ UNCHANGED <<main, timer, httpFailed, cancelled, server, watcher, hand, queue,
                   lost, faults>>

-----------------------------------------------------------------------------
(* watchQueue. *)

Pop(u) ==
    /\ watcher = "blpop" /\ hand = None /\ Running
    /\ u \in queue
    /\ queue' = queue \ {u}
    /\ hand' = u
    /\ UNCHANGED <<loopVars, httpFailed, cancelled, server, watcher, clientVars, lost, faults>>

SignalPopped ==
    /\ hand # None /\ Running
    /\ Signal
    /\ hand' = None
    /\ UNCHANGED <<main, timer, httpFailed, cancelled, server, watcher, queue,
                   clientVars, lost, faults>>

\* BLPOP fails: before it popped anything, or its answer is lost.
PopFails ==
    /\ Fault
    /\ watcher = "blpop" /\ hand = None /\ Running
    /\ \/ UNCHANGED <<queue, lost>>
       \/ \E u \in queue : queue' = queue \ {u} /\ lost' = lost \cup {u}
    /\ watcher' = "backoff"
    /\ UNCHANGED <<loopVars, httpFailed, cancelled, server, hand, clientVars>>

BackoffEnds ==
    /\ watcher = "backoff" /\ ~cancelled /\ Running
    /\ watcher' = "blpop"
    /\ UNCHANGED <<loopVars, httpFailed, cancelled, server, hand, queue, clientVars, lost,
                   faults>>

WatcherQuits ==
    /\ watcher # "off" /\ cancelled /\ hand = None /\ Running
    /\ watcher' = "off"
    /\ UNCHANGED <<loopVars, httpFailed, cancelled, server, hand, queue, clientVars, lost,
                   faults>>

-----------------------------------------------------------------------------
(* The HTTP server, the clock and the supervisor. *)

\* Wrong variant: the death of the endpoint is only logged.
MutReportFailure == UNCHANGED httpFailed

ReportFailure == httpFailed' = TRUE

ServerDies ==
    /\ Fault
    /\ server = "up" /\ Running
    /\ server' = "down"
    /\ ReportFailure
    /\ UNCHANGED <<loopVars, cancelled, watcher, hand, queue, clientVars, lost>>

TimerFires ==
    /\ timer = "armed" /\ Running
    /\ timer' = "fired"
    /\ UNCHANGED <<main, wake, httpFailed, cancelled, server, watcher, hand, queue,
                   clientVars, lost, faults>>

Sigterm ==
    /\ Fault
    /\ Running /\ ~cancelled
    /\ cancelled' = TRUE
    /\ UNCHANGED <<loopVars, httpFailed, server, watcher, hand, queue, clientVars, lost>>

Crash ==
    /\ Fault
    /\ Running
    /\ main' = "failed"
    /\ UNCHANGED <<wake, timer, httpFailed, cancelled, server, watcher, hand, queue,
                   clientVars, lost>>

\* The supervisor starts a new process.
Restart ==
    /\ ~Running
    /\ main' = "head"
    /\ wake' = 0 /\ timer' = "armed"
    /\ httpFailed' = FALSE /\ cancelled' = FALSE
    /\ server' = IF Http THEN "up" ELSE "off"
    /\ watcher' = IF Redis THEN "blpop" ELSE "off"
    /\ hand' = None
    /\ UNCHANGED <<queue, clientVars, lost, faults>>

-----------------------------------------------------------------------------
(* The loop of Serve. *)

\* Wrong variant: the loop does not look at its context.
MutDone == FALSE

Done == cancelled

Return(how) ==
    /\ main' = how
    /\ UNCHANGED <<wake, timer, httpFailed, cancelled, server, watcher, hand, queue,
                   clientVars, lost, faults>>

\* The loop condition fails, ctx is done after a pass, or the select sees it.
Stop ==
    /\ Done
    /\ Running
    /\ Return("stopped")

BeginRun ==
    /\ main = "head" /\ ~Done
    /\ main' = "run"
    /\ owed' = {} /\ asked' = {}
    /\ UNCHANGED <<wake, timer, httpFailed, cancelled, server, watcher, hand, queue,
                   fresh, lost, faults>>

\* Wrong variant: the timer is stopped and drained, not started again.
MutResetTimer == timer' = IF timer = "fired" THEN "off" ELSE timer

\* Stop, drain and Reset: whatever the timer did during the pass is forgotten.
ResetTimer == timer' = "armed"

EndRun ==
    /\ main = "run" /\ ~Done
    /\ main' = "wait"
    /\ ResetTimer
    /\ UNCHANGED <<wake, httpFailed, cancelled, server, watcher, hand, queue,
                   clientVars, lost, faults>>

WakeUp ==
    /\ main = "wait" /\ wake > 0
    /\ wake' = wake - 1
    /\ main' = "head"
    /\ UNCHANGED <<timer, httpFailed, cancelled, server, watcher, hand, queue, clientVars,
                   lost, faults>>

SafetyNet ==
    /\ main = "wait" /\ timer = "fired"
    /\ timer' = "off"
    /\ main' = "head"
    /\ UNCHANGED <<wake, httpFailed, cancelled, server, watcher, hand, queue, clientVars,
                   lost, faults>>

EndpointFailed ==
    /\ main = "wait" /\ httpFailed
    /\ Return("failed")

-----------------------------------------------------------------------------
Loop    == Stop \/ BeginRun \/ EndRun \/ WakeUp \/ SafetyNet \/ EndpointFailed
Watch   == SignalPopped \/ BackoffEnds \/ WatcherQuits \/ \E u \in Upload : Pop(u)
Uploads == \E u \in Upload : PutOnly(u) \/ PutAndPush(u) \/ PutAndPost(u)

Next ==
    \/ Loop \/ Watch \/ Uploads \/ PopFails \/ ServerDies
    \/ TimerFires \/ Sigterm \/ Crash \/ Restart

Spec == Init /\ [][Next]_vars

\* Passes end (their budget is bounded), goroutines are scheduled, the timer
\* runs, a supervisor restarts; select picks at random among what is ready, so
\* what stays ready is picked in the end.
Fairness ==
    /\ WF_vars(Loop) /\ WF_vars(Watch) /\ WF_vars(TimerFires) /\ WF_vars(Restart)
    /\ SF_vars(EndpointFailed)

FairSpec == Spec /\ Fairness

-----------------------------------------------------------------------------
(* Properties. *)

\* signal, "a pending signal already covers it": an accepted request that no
\* pass has begun after is still on its way, whenever it arrived - during a
\* pass, between the end of one and the select, while another was signalled.
RequestStaysPending ==
    main \in {"run", "wait"} => \A u \in asked \ lost : u \in queue \/ u = hand \/ wake > 0

\* serve.go:48-50, a lost, duplicated or missing request "can never leave an upload
\* unprocessed": a pass begins after every upload.
UploadIsCovered == \A u \in Upload : u \in owed ~> u \notin owed

\* serve.go:86-88, a wake endpoint that dies after startup surfaces as an
\* error of Serve, so that the supervisor restarts, and is not forgotten under
\* a load of other events.
DeadEndpointSurfaces == server = "down" ~> main \in {"failed", "stopped"}

\* Daemon modes loop until ctx is cancelled, and then return.
SigtermStops == cancelled ~> ~cancelled \/ ~Running
=============================================================================
