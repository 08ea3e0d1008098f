------------------------------- MODULE Scheduler -------------------------------
(***************************************************************************)
(* The sweeps of one Go worker over its tenants: runScheduled and          *)
(* finalizeScheduledPairs (core/scheduler.go) with the durable progress    *)
(* of core/checkpoint.go and the paged listing of core/scan.go.  A sweep   *)
(* takes one source per tenant per round until everything is listed, its   *)
(* budget is spent, or SIGTERM arrives.                                    *)
(*                                                                         *)
(* What processing a source does is module ContentStore, how its lock      *)
(* works is module RunnerLock: here a source takes a turn, and a lock is   *)
(* there or not.  One worker: another one would only make locks busy.      *)
(* Between two processes the configured pairs may change (PairConfig).     *)
(***************************************************************************)
EXTENDS PairConfig, Integers, FiniteSets, FiniteSetsExt

CONSTANTS
    Candidates, \* the lists of pairs the operator may configure
    First,      \* the one the history begins with
    K,          \* source keys are 1..K, in listing order
    Under,      \* Under[x]: the keys that begin with prefix x
    PageSize,   \* keys per page of ListObjectsV2
    Generous,   \* TRUE: the budget of a sweep covers at least one source's start
    None,
    MaxEdits,   \* uploads, deletions and changes of the pairs that are explored
    MaxFaults   \* failed requests, SIGTERMs and crashes that are explored

\* LoadConfig: a process does not start on any other list.
Config == {c \in Candidates : validateNoOverlaps(c)}

Sources  == UNION {{c[i].source : i \in DOMAIN c} : c \in Config}
Origin   == {Location(b) : b \in Sources}
Target   == UNION {{Location(c[i].dest) : i \in DOMAIN c} : c \in Config}
Identity == {tenantCheckpointKey(c) : c \in Config}
Position == UNION {0..(Len(c) - 1) : c \in Config}

Key   == 1..K
NoKey == 0

ASSUME ConstantsOK ==
    /\ \A c \in Candidates : c \in Seq({c[i] : i \in DOMAIN c})
    /\ First \in Config /\ K \in Nat /\ PageSize \in Nat \ {0}
    /\ \A b \in Sources : Under[b.prefix] \subseteq Key
    /\ None \notin Position /\ Generous \in BOOLEAN
    /\ MaxEdits \in Nat /\ MaxFaults \in Nat

VARIABLES
    conf,       \* the pairs this process runs, in order
    present,    \* present[s]: keys in source bucket s
    tenant,     \* tenant[h]: .scheduler/<kind>-<h>.json, or None
    cursor,     \* cursor[d]: .transcoder.cursor.json of destination d, or None
    locked,     \* destinations whose lock object exists
    nextPair,   \* the runner's in-memory tenant cursor
    pc,         \* where runScheduled stands
    start,      \* the pair this sweep began with
    offset,     \* the turn of the round, or the pair that is being finalised
    ctx,        \* the sweep's context
    st,         \* st[p]: new, open (scan suspended), closed or skipped (done)
    page,       \* page[p]: listed keys that were not taken yet
    more,       \* more[p]: the listing was truncated
    pos,        \* pos[p]: the last key of the pages listed so far
    attempted,  \* lastAttempted
    completed,  \* lastCompleted
    edits,
    faults,
    due         \* history: due[d] has <<input, key>> for what was there when d's scan
                \* of input began, has been there since and was not tried yet

scanVars == <<st, page, more, pos, attempted, completed>>
bookVars == <<tenant, cursor>>
worldVars == <<conf, present, edits>>
vars == <<conf, present, tenant, cursor, locked, nextPair, pc, start, offset, ctx,
          st, page, more, pos, attempted, completed, edits, faults, due>>

\* Pairs are counted from 0, as the code does.
N       == Len(conf)
Pair    == 0..(N - 1)
From(p) == conf[p + 1].source
Dest(p) == Location(conf[p + 1].dest)
Input(b) == Location(b) \o <<b.prefix>>
Listed(p) == present[Location(From(p))] \cap Under[From(p).prefix]

TypeOK ==
    /\ conf \in Config
    /\ present \in [Origin -> SUBSET Key]
    /\ tenant \in [Identity -> Position \cup {None}]
    /\ \A h \in Identity : tenant[h] # None => tenant[h] < Len(h)
    /\ cursor \in [Target -> [source : Sources, key : Key] \cup {None}]
    /\ locked \in SUBSET Target
    /\ nextPair \in Pair /\ start \in Pair
    /\ pc \in {"idle", "turn", "proc", "save", "release"}
    /\ offset \in 0..N
    /\ ctx \in {"live", "expired", "cancelled"}
    /\ st \in [Pair -> {"new", "open", "closed", "skipped"}]
    /\ page \in [Pair -> SUBSET Key]
    /\ more \in [Pair -> BOOLEAN]
    /\ pos \in [Pair -> Key \cup {NoKey}]
    /\ attempted \in [Pair -> Key \cup {NoKey}]
    /\ completed \in [Pair -> Key \cup {NoKey}]
    /\ edits \in 0..MaxEdits /\ faults \in 0..MaxFaults
    /\ due \in [Target -> SUBSET ({Input(b) : b \in Sources} \X Key)]

All(v) == [p \in Pair |-> v]

Init ==
    /\ conf = First
    /\ present \in [Origin -> SUBSET Key]
    /\ tenant = [h \in Identity |-> None]
    /\ cursor = [d \in Target |-> None]
    /\ locked = {}
    /\ nextPair = 0
    /\ pc = "idle"
    /\ start = 0 /\ offset = 0
    /\ ctx = "live"
    /\ st = All("new")
    /\ page = All({}) /\ more = All(FALSE) /\ pos = All(NoKey)
    /\ attempted = All(NoKey) /\ completed = All(NoKey)
    /\ edits = 0 /\ faults = 0
    /\ due = [d \in Target |-> {}]

\* What runScheduled keeps of a sweep over the pairs of c ends with it.
Forget(c) ==
    LET Every(v) == [p \in 0..(Len(c) - 1) |-> v] IN
    /\ start' = 0 /\ offset' = 0 /\ ctx' = "live"
    /\ st' = Every("new") /\ page' = Every({}) /\ more' = Every(FALSE)
    /\ pos' = Every(NoKey) /\ attempted' = Every(NoKey) /\ completed' = Every(NoKey)

Fault == faults < MaxFaults /\ faults' = faults + 1

-----------------------------------------------------------------------------
(* The owners of the sources. *)

Edit == edits < MaxEdits /\ edits' = edits + 1

Upload(s, k) ==
    /\ Edit
    /\ k \notin present[s]
    /\ present' = [present EXCEPT ![s] = @ \cup {k}]
    /\ UNCHANGED <<conf, bookVars, locked, nextPair, pc, start, offset, ctx,
                   scanVars, faults, due>>

Delete(s, k) ==
    /\ Edit
    /\ k \in present[s]
    /\ present' = [present EXCEPT ![s] = @ \ {k}]
    /\ due' = [d \in Target |->
                 due[d] \ {<<Input(b), k>> : b \in {x \in Sources : Location(x) = s}}]
    /\ UNCHANGED <<conf, bookVars, locked, nextPair, pc, start, offset, ctx,
                   scanVars, faults>>

-----------------------------------------------------------------------------
(* A sweep begins. *)

\* readTenantCheckpoint; with one pair, or when it fails, memory decides.
Resume == LET t == tenant[tenantCheckpointKey(conf)]
          IN  IF N < 2 \/ t = None THEN nextPair ELSE t

SweepFrom(p) ==
    /\ pc = "idle"
    /\ pc' = "turn"
    /\ nextPair' = p /\ start' = p
    /\ UNCHANGED <<worldVars, bookVars, locked, offset, ctx, scanVars, due>>

StartSweep == SweepFrom(Resume) /\ UNCHANGED faults
StartSweepUnhinted == Fault /\ N >= 2 /\ SweepFrom(nextPair)

\* Cron: the next sweep is a fresh process.
Restart ==
    /\ pc = "idle"
    /\ nextPair' = 0
    /\ UNCHANGED <<worldVars, bookVars, locked, pc, start, offset, ctx, scanVars, faults,
                   due>>

\* The operator changes the list of pairs and starts the worker again.
Reconfigure(c) ==
    /\ pc = "idle"
    /\ Edit
    /\ c # conf
    /\ conf' = c
    /\ nextPair' = 0
    /\ Forget(c)
    /\ UNCHANGED <<present, bookVars, locked, pc, faults, due>>

-----------------------------------------------------------------------------
(* Turns. *)

Done(p)  == st[p] \in {"closed", "skipped"}
Turn(p)  == pc = "turn" /\ ctx = "live" /\ p = (start + offset) % N
AllDone  == \A p \in Pair : Done(p)

\* The turn passes to the next pair; it was remembered before it was taken.
EndTurn == offset' = (offset + 1) % N
\* Wrong variant: the cursor leaves the list of pairs.
MutTakeTurn(p) == nextPair' = p + 1

TakeTurn(p) == nextPair' = (p + 1) % N

Skip(p) ==
    /\ Turn(p) /\ Done(p) /\ ~AllDone
    /\ EndTurn
    /\ UNCHANGED <<worldVars, bookVars, locked, nextPair, pc, start, ctx, scanVars,
                   faults, due>>

\* ListObjectsV2 after the given key: one page, and whether it was truncated.
Page(p, after) ==
    LET rest == {k \in Listed(p) : k > after}
        upto == {k \in rest : Cardinality({j \in rest : j <= k}) <= PageSize}
    IN  /\ page' = [page EXCEPT ![p] = upto]
        /\ more' = [more EXCEPT ![p] = upto # rest]
        /\ pos' = [pos EXCEPT ![p] = IF upto = {} THEN after ELSE Max(upto)]

\* AcquireLock answers busy (a lock left behind by a crash or a failed
\* release), or fails.
LockUnavailable(p) ==
    /\ Turn(p) /\ st[p] = "new"
    /\ \/ Dest(p) \in locked /\ UNCHANGED faults
       \/ Fault
    /\ TakeTurn(p) /\ EndTurn
    /\ st' = [st EXCEPT ![p] = "skipped"]
    /\ UNCHANGED <<worldVars, bookVars, locked, pc, start, ctx, page, more, pos,
                   attempted, completed, due>>

\* readSourceCheckpoint: a cursor counts for the input it was written for.
ReadCursor(p) ==
    LET c == cursor[Dest(p)] IN
    IF c = None THEN NoKey ELSE IF SameInput(c.source, From(p)) THEN c.key ELSE NoKey

\* For the history: this pair's scan goes on where an earlier one of it stopped.
Resumes(p) == LET c == cursor[Dest(p)] IN c # None /\ Input(c.source) = Input(From(p))

\* The lock is taken, the source cursor read and the scan's first page listed.
OpenPair(p) ==
    /\ Turn(p) /\ st[p] = "new"
    /\ Dest(p) \notin locked
    /\ TakeTurn(p)
    /\ locked' = locked \cup {Dest(p)}
    /\ st' = [st EXCEPT ![p] = "open"]
    /\ Page(p, ReadCursor(p))
    /\ due' = IF Resumes(p) THEN due ELSE [due EXCEPT ![Dest(p)] =
                   {e \in @ : e[1] # Input(From(p))} \cup ({Input(From(p))} \X Listed(p))]
    /\ UNCHANGED <<worldVars, bookVars, pc, start, offset, ctx, attempted, completed,
                   faults>>

\* The cursor cannot be read, or the listing fails, at once or on a later page.
ReadFails(p) ==
    /\ Fault
    /\ Turn(p)
    /\ \/ st[p] = "new" /\ Dest(p) \notin locked
       \/ st[p] = "open" /\ page[p] = {} /\ more[p]
    /\ TakeTurn(p) /\ EndTurn
    /\ locked' = locked \cup {Dest(p)}
    /\ st' = [st EXCEPT ![p] = "closed"]
    /\ UNCHANGED <<worldVars, bookVars, pc, start, ctx, page, more, pos, attempted,
                   completed, due>>

NextPage(p) ==
    /\ Turn(p) /\ st[p] = "open"
    /\ page[p] = {} /\ more[p]
    /\ TakeTurn(p)
    /\ Page(p, pos[p])
    /\ UNCHANGED <<worldVars, bookVars, locked, pc, start, offset, ctx, st, attempted,
                   completed, faults, due>>

\* The scan yields a source and its processing begins.
NextSource(p) ==
    /\ Turn(p) /\ st[p] = "open"
    /\ page[p] # {}
    /\ TakeTurn(p)
    /\ attempted' = [attempted EXCEPT ![p] = Min(page[p])]
    /\ page' = [page EXCEPT ![p] = @ \ {Min(page[p])}]
    /\ pc' = "proc"
    /\ UNCHANGED <<worldVars, bookVars, locked, start, offset, ctx, st, more, pos,
                   completed, faults, due>>

Try(p) == <<Input(From(p)), attempted[p]>>

InProcess(p) == pc = "proc" /\ p = (start + offset) % N

\* process returns, with whatever outcome, before the context is done.
SourceDone(p) ==
    /\ InProcess(p) /\ ctx = "live"
    /\ completed' = [completed EXCEPT ![p] = attempted[p]]
    /\ due' = [due EXCEPT ![Dest(p)] = @ \ {Try(p)}]
    /\ pc' = "turn"
    /\ EndTurn
    /\ UNCHANGED <<worldVars, bookVars, locked, nextPair, start, ctx, st, page, more, pos,
                   attempted, faults>>

AtEnd(p) == st[p] = "open" /\ pc = "turn" /\ page[p] = {} /\ ~more[p]

\* EOF: the source cursor is cleared (or that fails), the cleanup pass runs
\* and the pair is done.
EndOfScan(p) ==
    /\ Turn(p) /\ AtEnd(p)
    /\ TakeTurn(p) /\ EndTurn
    /\ st' = [st EXCEPT ![p] = "closed"]
    /\ \/ /\ cursor' = [cursor EXCEPT ![Dest(p)] = None]
          /\ due' = [due EXCEPT ![Dest(p)] = {}]
          /\ UNCHANGED faults
       \/ Fault /\ UNCHANGED <<cursor, due>>
    /\ UNCHANGED <<worldVars, tenant, locked, pc, start, ctx, page, more, pos, attempted,
                   completed>>

\* The shared budget runs out.
Expire ==
    /\ pc \in {"turn", "proc"}
    /\ ctx = "live"
    /\ Generous => \E p \in Pair : attempted[p] # NoKey
    /\ ctx' = "expired"
    /\ UNCHANGED <<worldVars, bookVars, locked, nextPair, pc, start, offset, scanVars,
                   faults, due>>

\* SIGTERM, or the caller's context ends, possibly after the budget did.
Cancel ==
    /\ Fault
    /\ pc \in {"turn", "proc"}
    /\ ctx # "cancelled"
    /\ ctx' = "cancelled"
    /\ UNCHANGED <<worldVars, bookVars, locked, nextPair, pc, start, offset, scanVars, due>>

\* The loop is left; a source cut by the budget, not by SIGTERM, has had its try.
StopSweep ==
    LET tried == {Try(p) : p \in {q \in Pair : InProcess(q) /\ ctx = "expired"}} IN
    /\ \/ pc = "turn" /\ (ctx # "live" \/ AllDone)
       \/ pc = "proc" /\ ctx # "live"
    /\ pc' = "save"
    /\ offset' = 0
    /\ due' = [d \in Target |-> IF \E p \in Pair : InProcess(p) /\ Dest(p) = d
                                   THEN due[d] \ tried ELSE due[d]]
    /\ UNCHANGED <<worldVars, bookVars, locked, nextPair, start, ctx, scanVars, faults>>

-----------------------------------------------------------------------------
(* finalizeScheduledPairs. *)

\* Wrong variant: the cursor follows completions only.
MutSaveKeyCompleted(p) == completed[p]

SaveKey(p) == IF ctx = "expired" THEN attempted[p] ELSE completed[p]

\* Pair by pair: where the next sweep's scan resumes.
SavePair ==
    /\ pc = "save"
    /\ offset < N
    /\ offset' = offset + 1
    /\ \/ /\ cursor' = IF st[offset] = "open" /\ SaveKey(offset) # NoKey
                       THEN [cursor EXCEPT ![Dest(offset)] =
                                [source |-> From(offset), key |-> SaveKey(offset)]]
                       ELSE cursor
          /\ UNCHANGED faults
       \/ cursor' = cursor /\ Fault
    /\ UNCHANGED <<worldVars, tenant, locked, nextPair, pc, start, ctx, scanVars, due>>

SaveTenant ==
    /\ pc = "save"
    /\ offset = N
    /\ pc' = "release"
    /\ \/ tenant' = (IF N < 2 THEN tenant
                     ELSE [tenant EXCEPT ![tenantCheckpointKey(conf)] = nextPair]) /\ UNCHANGED faults
       \/ tenant' = tenant /\ Fault
    /\ UNCHANGED <<worldVars, cursor, locked, nextPair, start, offset, ctx, scanVars, due>>

Held == {Dest(p) : p \in {q \in Pair : st[q] \in {"open", "closed"}}}

\* Every lock is released, each with its own slice of time.
Release ==
    /\ pc = "release"
    /\ pc' = "idle"
    /\ \/ locked' = locked \ Held /\ UNCHANGED faults
       \/ Fault /\ \E d \in Held : locked' = locked \ (Held \ {d})
    /\ Forget(conf)
    /\ UNCHANGED <<worldVars, bookVars, nextPair, due>>

\* A lock that was not released passes its TTL.
LockExpires(d) ==
    /\ d \in locked
    /\ pc = "idle" \/ d \notin Held
    /\ locked' = locked \ {d}
    /\ UNCHANGED <<worldVars, bookVars, nextPair, pc, start, offset, ctx, scanVars,
                   faults, due>>

\* The process dies; its in-memory tenant cursor goes with it.
Crash ==
    /\ Fault
    /\ pc # "idle"
    /\ pc' = "idle"
    /\ nextPair' = 0
    /\ Forget(conf)
    /\ UNCHANGED <<worldVars, bookVars, locked, due>>

-----------------------------------------------------------------------------
TurnStep(p) ==
    \/ Skip(p) \/ LockUnavailable(p) \/ OpenPair(p) \/ ReadFails(p) \/ NextPage(p)
    \/ NextSource(p) \/ SourceDone(p) \/ EndOfScan(p)

SweepStep ==
    \/ StartSweep \/ StartSweepUnhinted
    \/ \E p \in Pair : TurnStep(p)
    \/ StopSweep \/ SavePair \/ SaveTenant \/ Release

Next ==
    \/ \E s \in Origin, k \in Key : Upload(s, k) \/ Delete(s, k)
    \/ \E c \in Config : Reconfigure(c)
    \/ SweepStep \/ Restart \/ Expire \/ Cancel \/ Crash
    \/ \E d \in Target : LockExpires(d)

Spec == Init /\ [][Next]_vars

\* Sweeps follow one another and each goes on until it ends; locks age.
Fairness == WF_vars(SweepStep) /\ \A d \in Target : WF_vars(LockExpires(d))

FairSpec == Spec /\ Fairness

-----------------------------------------------------------------------------
(* Properties. *)

\* MULTI_TENANT.md, "the next scan resumes after the attempted key" and "SIGTERM
\* saves the last completed key instead": wherever a sweep is cut, whichever
\* bookkeeping request fails, and however the pairs are reordered, renamed,
\* narrowed or pointed elsewhere in between, no source of an input that was there
\* all along is passed over.  One that has not had its try yet is not at or before
\* the durable cursor of its destination, and a scan that comes to the end of its
\* listing, over however many sweeps, has tried them all.
CursorSkipsNothing ==
    /\ \A d \in Target : cursor[d] # None =>
          \A e \in due[d] : e[1] = Input(cursor[d].source) => cursor[d].key < e[2]
    /\ \A p \in Pair : AtEnd(p) =>
          \A e \in due[Dest(p)] : e[1] # Input(From(p))

\* MULTI_TENANT.md, "an interrupted long encode or stalled S3 request cannot
\* always take the first turn": if sweeps only ever have time to start one
\* source, and even if that one is always cut, every source that stays in the
\* input of a configured pair is tried again and again, for fresh processes as
\* for a daemon, and after a change of the configuration.
EverySourceTried ==
    \A p \in Position, k \in Key :
        <>[](p \in Pair /\ k \in Listed(p)) => []<>(InProcess(p) /\ attempted[p] = k)
=============================================================================
