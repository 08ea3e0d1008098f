------------------------------ MODULE ImageStore ------------------------------
(***************************************************************************)
(* The image worker's part of one destination bucket over its life:        *)
(* processImage and RunImageCleanupPass (core/image.go) with the error     *)
(* tombstones they share with the video worker, request by request, while  *)
(* owners upload, replace and delete images, requests fail, runs are cut,  *)
(* and the operator points the pair at another source or prefix.           *)
(*                                                                         *)
(* One worker: the bucket lock (RunnerLock) is the video worker's too.     *)
(* Sources and cleanup passes are taken in any order (Scheduler orders     *)
(* them).  The PDQ hash of an image is a function of its bytes, and a      *)
(* version (ETag and size) names those, so both are a member of Version.   *)
(***************************************************************************)
EXTENDS PairConfig, FiniteSets

CONSTANTS
    Key,            \* source keys with an image extension
    Under,          \* Under[x]: the keys that begin with prefix x
    Input,          \* the source sides of the pair the operator may configure
    First,          \* the one the history begins with
    Version,        \* what may be uploaded
    Bad,            \* versions the hasher fails on, or answers with zeros
    None,
    MaxAttempts,    \* TOMBSTONE_MAX_ATTEMPTS
    MaxEdits,       \* uploads, deletions and changes of the pair that are explored
    MaxFaults       \* failed requests and cut runs that are explored

ASSUME ConstantsOK ==
    /\ None \notin Key \cup Version
    /\ Bad \subseteq Version /\ First \in Input
    /\ \A i \in Input : Under[i.prefix] \subseteq Key
    /\ MaxAttempts \in Nat \ {0} /\ MaxEdits \in Nat /\ MaxFaults \in Nat

Origin == {Location(i) : i \in Input}
Tag(i) == [bucket |-> i.bucket, endpoint |-> i.endpoint]

VARIABLES
    source,     \* source[s][k]: what source bucket s holds under k
    input,      \* the source side of the pair
    mapping,    \* mapping[k]: image-mappings/<k>.json
    tomb,       \* tomb[k]: errors/<k>.json
    pc,         \* where the worker stands
    job,        \* the listed image it processes
    live,       \* the keys cleanup saw in the source
    todo,       \* the mappings it has still to look at
    edits,
    faults,
    replaced,   \* history: <<key, version>> that was replaced between its
                \* listing and its download
    returned    \* history: <<bucket, key>> uploaded since cleanup listed the source

historyVars == <<replaced, returned>>
gcVars == <<live, todo>>
vars == <<source, input, mapping, tomb, pc, job, live, todo, edits, faults,
          replaced, returned>>

NoMap  == [tag |-> None, ver |-> None, hash |-> None]
NoTomb == [ver |-> None, n |-> 0]
NoJob  == [key |-> None, ver |-> None, hash |-> None]

\* An attempt past TOMBSTONE_MAX_ATTEMPTS takes a failed look-up, no download.
TypeOK ==
    /\ source \in [Origin -> [Key -> Version \cup {None}]]
    /\ input \in Input
    /\ mapping \in [Key -> {NoMap} \cup
                    [tag : {Tag(i) : i \in Input}, ver : Version, hash : Version \ Bad]]
    /\ tomb \in [Key -> {NoTomb} \cup [ver : Version, n : Nat \ {0}]]
    /\ \A k \in Key : tomb[k].n <= MaxAttempts + faults
    /\ pc \in {"idle", "fetch", "map", "clear", "fail", "gc"}
    /\ job \in [key : Key \cup {None}, ver : Version \cup {None},
                hash : (Version \ Bad) \cup {None}]
    /\ live \in SUBSET Key /\ todo \in SUBSET Key
    /\ edits \in 0..MaxEdits /\ faults \in 0..MaxFaults
    /\ replaced \in SUBSET (Key \X Version)
    /\ returned \in SUBSET (Origin \X Key)

Init ==
    /\ source \in [Origin -> [Key -> Version \cup {None}]]
    /\ input = First
    /\ mapping = [k \in Key |-> NoMap]
    /\ tomb = [k \in Key |-> NoTomb]
    /\ pc = "idle"
    /\ job = NoJob
    /\ live = {} /\ todo = {}
    /\ edits = 0 /\ faults = 0
    /\ replaced = {} /\ returned = {}

Fault == faults < MaxFaults /\ faults' = faults + 1
Edit  == edits < MaxEdits /\ edits' = edits + 1

Here == source[Location(input)]

-----------------------------------------------------------------------------
(* The owners of the sources, and the operator. *)

\* What the history remembers of a change of k in bucket s.
Changed(s, k) ==
    replaced' = IF pc = "fetch" /\ job.key = k /\ s = Location(input) /\ source[s][k] = job.ver
                THEN replaced \cup {<<k, job.ver>>} ELSE replaced

Upload(s, k, v) ==
    /\ Edit
    /\ source[s][k] # v
    /\ source' = [source EXCEPT ![s][k] = v]
    /\ Changed(s, k)
    /\ returned' = IF pc = "gc" THEN returned \cup {<<s, k>>} ELSE returned
    /\ UNCHANGED <<input, mapping, tomb, pc, job, gcVars, faults>>

Delete(s, k) ==
    /\ Edit
    /\ source[s][k] # None
    /\ source' = [source EXCEPT ![s][k] = None]
    /\ Changed(s, k)
    /\ UNCHANGED <<input, mapping, tomb, pc, job, gcVars, faults, returned>>

\* Between two processes.
Repoint(i) ==
    /\ Edit
    /\ pc = "idle"
    /\ i # input
    /\ input' = i
    /\ UNCHANGED <<source, mapping, tomb, pc, job, gcVars, faults, historyVars>>

-----------------------------------------------------------------------------
(* processImage. *)

\* The version counts, not the bucket it was hashed from.
IsCachedImageMapping(k, v) == mapping[k].ver = v

\* Wrong variant: one download more than TOMBSTONE_MAX_ATTEMPTS.
MutBlocks(k, v) == tomb[k].ver = v /\ tomb[k].n > MaxAttempts

Blocks(k, v) == tomb[k].ver = v /\ tomb[k].n >= MaxAttempts

\* The scan yields k as it is now; the look-ups of cache and tombstone succeed
\* and find neither (where they end it, nothing changes).
Begin(k) ==
    LET v == Here[k] IN
    /\ pc = "idle"
    /\ k \in Under[input.prefix] /\ v # None
    /\ ~IsCachedImageMapping(k, v) /\ ~Blocks(k, v)
    /\ pc' = "fetch"
    /\ job' = [key |-> k, ver |-> v, hash |-> None]
    /\ UNCHANGED <<source, input, mapping, tomb, gcVars, edits, faults, historyVars>>

\* A look-up fails, of an image that may be cached or blocked all the same; the
\* scheduler counts it as a failure of the image (scheduler.go:184-189).
LookupFails(k) ==
    LET v == Here[k] IN
    /\ Fault
    /\ pc = "idle"
    /\ k \in Under[input.prefix] /\ v # None
    /\ pc' = "fail"
    /\ job' = [key |-> k, ver |-> v, hash |-> None]
    /\ UNCHANGED <<source, input, mapping, tomb, gcVars, edits, historyVars>>

\* DownloadAndHash and ComputePDQ of what the key holds by now.
Hash ==
    /\ pc = "fetch"
    /\ IF Here[job.key] \in Version \ Bad
       THEN pc' = "map" /\ job' = [job EXCEPT !.hash = Here[job.key]]
       ELSE pc' = "fail" /\ UNCHANGED job
    /\ UNCHANGED <<source, input, mapping, tomb, gcVars, edits, faults, historyVars>>

NewMapping == [tag |-> Tag(input), ver |-> job.ver, hash |-> job.hash]

WriteMapping ==
    /\ pc = "map"
    /\ mapping' = [mapping EXCEPT ![job.key] = NewMapping]
    /\ pc' = "clear"
    /\ UNCHANGED <<source, input, tomb, job, gcVars, edits, faults, historyVars>>

Leave == pc' = "idle" /\ job' = NoJob

\* A failed deletion is only logged.
ClearTombstone ==
    /\ pc = "clear"
    /\ Leave
    /\ \/ tomb' = [tomb EXCEPT ![job.key] = NoTomb] /\ UNCHANGED faults
       \/ tomb' = tomb /\ Fault
    /\ UNCHANGED <<source, input, mapping, gcVars, edits, historyVars>>

\* Wrong variant: every failure is the first.
MutAttempts(k, v) == 1

\* A tombstone that cannot be read counts as none (WriteFailureTombstoneBlind).
Attempts(k, v) == IF tomb[k].ver = v THEN tomb[k].n + 1 ELSE 1

WriteFailureTombstone ==
    /\ pc = "fail"
    /\ Leave
    /\ \/ /\ tomb' = [tomb EXCEPT ![job.key] =
                        [ver |-> job.ver, n |-> Attempts(job.key, job.ver)]]
          /\ UNCHANGED faults
       \/ tomb' = tomb /\ Fault
       \/ tomb' = [tomb EXCEPT ![job.key] = [ver |-> job.ver, n |-> 1]] /\ Fault
    /\ UNCHANGED <<source, input, mapping, gcVars, edits, historyVars>>

-----------------------------------------------------------------------------
(* RunImageCleanupPass. *)

GcList ==
    /\ pc = "idle"
    /\ pc' = "gc"
    /\ live' = {k \in Under[input.prefix] : Here[k] # None}
    /\ todo' = Key
    /\ returned' = {}
    /\ UNCHANGED <<source, input, mapping, tomb, job, edits, faults, replaced>>

\* Wrong variant: the stored endpoint is compared with the normalised one.
MutOwned(k) == mapping[k].tag = [Tag(input) EXCEPT !.endpoint.spelling = None]

Owned(k) == mapping[k].tag = Tag(input)

\* Wrong variant: any mapping without a source goes.
MutIsOrphan(k) == k \in Under[input.prefix] \ live /\ mapping[k] # NoMap

IsOrphan(k) == k \in Under[input.prefix] \ live /\ mapping[k] # NoMap /\ Owned(k)

\* The mappings are listed and looked at one after the other.
GcMapping(k) ==
    /\ pc = "gc"
    /\ k \in todo
    /\ todo' = todo \ {k}
    /\ mapping' = IF IsOrphan(k) THEN [mapping EXCEPT ![k] = NoMap] ELSE mapping
    /\ UNCHANGED <<source, input, tomb, pc, job, live, edits, faults, historyVars>>

GcEnds == pc' = "idle" /\ live' = {} /\ todo' = {} /\ returned' = {}

GcDone ==
    /\ pc = "gc"
    /\ todo = {}
    /\ GcEnds
    /\ UNCHANGED <<source, input, mapping, tomb, job, edits, faults, replaced>>

-----------------------------------------------------------------------------
(* Failures. *)

\* A later request of processImage fails; a PUT may have been applied.
RequestFails ==
    /\ Fault
    /\ pc \in {"fetch", "map"}
    /\ pc' = "fail"
    /\ \/ mapping' = mapping
       \/ pc = "map" /\ mapping' = [mapping EXCEPT ![job.key] = NewMapping]
    /\ UNCHANGED <<source, input, tomb, job, gcVars, edits, historyVars>>

\* The budget ends, SIGTERM, a crash: in a source nothing is written any more.
RunCut ==
    /\ Fault
    /\ pc \in {"fetch", "map", "clear", "fail"}
    /\ Leave
    /\ UNCHANGED <<source, input, mapping, tomb, gcVars, edits, historyVars>>

\* The same in cleanup, or one of its requests fails.
GcCut ==
    /\ Fault
    /\ pc = "gc"
    /\ GcEnds
    /\ UNCHANGED <<source, input, mapping, tomb, job, edits, replaced>>

-----------------------------------------------------------------------------
ProcessStep == Hash \/ WriteMapping \/ ClearTombstone \/ WriteFailureTombstone
CleanupStep == (\E k \in Key : GcMapping(k)) \/ GcDone

Next ==
    \/ \E s \in Origin, k \in Key : Delete(s, k) \/ \E v \in Version : Upload(s, k, v)
    \/ \E i \in Input : Repoint(i)
    \/ \E k \in Key : Begin(k)
    \/ ProcessStep \/ GcList \/ CleanupStep
    \/ \E k \in Key : LookupFails(k)
    \/ RequestFails \/ RunCut \/ GcCut

Spec == Init /\ [][Next]_vars

\* A sweep goes on with what it has begun; sweeps follow one another, take every
\* source in turn (Scheduler, EverySourceTried) and end with the cleanup pass.
Fairness ==
    /\ WF_vars(ProcessStep) /\ WF_vars(CleanupStep)
    /\ \A k \in Key : SF_vars(Begin(k))
    /\ SF_vars(GcList)

FairSpec == Spec /\ Fairness

-----------------------------------------------------------------------------
(* Properties. *)

\* image.go:81-83 and SPEC.md:171, cleanup "cannot delete another pair's
\* mappings": a mapping only disappears when the bucket it was hashed from does
\* not hold its key, whatever the pair reads by now; one uploaded again after
\* the cleanup listed the source is the exception (it is hashed again).
LiveImageKeepsMapping ==
    [][\A k \in Key : mapping[k] # NoMap /\ mapping'[k] = NoMap =>
        \A i \in Input : Tag(i) = mapping[k].tag =>
            source[Location(i)][k] = None \/ <<Location(i), k>> \in returned]_vars

\* image.go:144-151 and pdq.go:72-79: an image that stays is decided in the end.
\* A good one has a mapping of its version with its own hash, whatever failed
\* before (fewer failures than attempts); a bad one is not tried for ever and
\* never gets a hash.  The exception is a version that was replaced under the
\* worker: its mapping may carry the hash of what came after.
ImageDecided ==
    \A k \in Key, v \in Version :
        <>[](k \in Under[input.prefix] /\ Here[k] = v) =>
        <>[](IF mapping[k].ver = v THEN mapping[k].hash = v \/ <<k, v>> \in replaced
             ELSE v \in Bad /\ Blocks(k, v))

\* image.go:78-79: the mapping of a deleted image disappears, if it was hashed
\* from the bucket and the endpoint, as written, that the pair still has.
OrphanImageGoes ==
    \A k \in Key :
        <>[](k \in Under[input.prefix] /\ Here[k] = None) =>
        <>[](mapping[k].tag # Tag(input))
=============================================================================
