----------------------------- MODULE ContentStore -----------------------------
(***************************************************************************)
(* One destination bucket of the Go worker over its life: what             *)
(* processSource (core/orchestrator.go) and RunCleanupPass                 *)
(* (core/cleanup.go) write there, request by request, while owners upload, *)
(* replace and delete sources and runs fail or are cut at any point.       *)
(*                                                                         *)
(* The bucket lock lets one worker at a time in (module RunnerLock), so    *)
(* there is one worker here, and a read of the destination bucket followed *)
(* by the write it decides is one step; a run can still end between any    *)
(* two writes.  The scheduler may take sources and cleanup passes in any   *)
(* order (module Scheduler orders them).  REENCODE_BELOW_VERSION is unset; *)
(* ERROR_TOMBSTONES and CLEANUP_DELETED_SOURCES are on.                    *)
(*                                                                         *)
(* A source version is named by its bytes: ETag, size and SHA-256 all      *)
(* follow from the member of Content that is uploaded.                     *)
(***************************************************************************)
EXTENDS Naturals, FiniteSets

CONSTANTS
    Key,            \* source keys
    Content,        \* what may be uploaded; also the content IDs
    Bad,            \* contents on which ffprobe or ffmpeg fails every time
    Legacy,         \* keys whose mapping an older version may have left
    None,
    MaxIndexedRefs, \* 1000 in core/refs.go
    MaxAttempts,    \* TOMBSTONE_MAX_ATTEMPTS
    MaxEdits,       \* uploads and deletions that are explored
    MaxFaults       \* failed requests, cut runs and crashes that are explored

ASSUME ConstantsOK ==
    /\ None \notin Key \cup Content
    /\ IsFiniteSet(Key)
    /\ Bad \subseteq Content /\ Legacy \subseteq Key
    /\ MaxIndexedRefs \in Nat /\ MaxAttempts \in Nat
    /\ MaxEdits \in Nat /\ MaxFaults \in Nat

VARIABLES
    source,     \* source[k]: what the source bucket holds under k
    mapping,    \* mapping[k]: mappings/<k>.json
    tree,       \* tree[c]: the objects kept per content ID
    refs,       \* refs[c]: refs/<c>.json, the reverse index
    tomb,       \* tomb[k]: errors/<k>.json
    lease,      \* contents with a by-id/<c>/.processing object
    pc,         \* where the worker stands
    job,        \* the source it is processing
    doomed,     \* doomed[k]: content of k's mapping if cleanup found it orphaned
    cur,        \* the content ID cleanup is at
    edits,
    faults,
    condemned,  \* history: keys whose content a GC began to delete and whose
                \* mapping has not been deleted or rewritten since
    broken      \* history: contents of which a GC left some objects behind

sourceVars  == <<source, edits>>
historyVars == <<condemned, broken>>
gcVars      == <<doomed, cur>>
vars == <<source, mapping, tree, refs, tomb, lease, pc, job, doomed, cur,
          edits, faults, condemned, broken>>

\* by-id/<c>/: media segments, rendition playlists, master.m3u8, metadata.json;
\* fingerprints/: <c>.bin (blob) and c's row in index.json (row).
InTree    == {"media", "rend", "master", "meta"}
Part      == InTree \cup {"blob", "row"}
Playable  == {"media", "rend", "master"}
\* Wrong variant: the playlists are published before what they refer to.
MutStage  == <<"master", "rend", "media", "blob", "row", "meta">>

\* The order in which processSource writes them.
Stage     == <<"media", "rend", "master", "blob", "row", "meta">>

NoMap  == [ver |-> None, cid |-> None, own |-> FALSE]
NoRefs == [st |-> "none", keys |-> {}]
NoTomb == [ver |-> None, n |-> 0]
NoJob  == [key |-> None, ver |-> None, cid |-> None, old |-> None, seed |-> FALSE, stage |-> 1]
NoCur  == [cid |-> None, live |-> {}, listed |-> {}]

Mapped(k, c) == mapping[k].cid = c

JobPC == {"fetch", "upload", "addref", "map", "unref", "clear"}
GcPC  == {"gc", "gctree", "gcblob", "gcrefs", "gcrow", "gcmap"}

TypeOK ==
    /\ source \in [Key -> Content \cup {None}]
    /\ mapping \in [Key -> [ver : Content, cid : Content, own : BOOLEAN] \cup {NoMap}]
    /\ tree \in [Content -> SUBSET Part]
    /\ refs \in [Content -> [st : {"none", "full", "over"}, keys : SUBSET Key]]
    /\ tomb \in [Key -> [ver : Content, n : Nat] \cup {NoTomb}]
    /\ \A c \in Content : Cardinality(refs[c].keys) <= MaxIndexedRefs
    /\ lease \in SUBSET Content
    /\ pc \in {"idle"} \cup JobPC \cup GcPC
    /\ job \in [key : Key \cup {None}, ver : Content \cup {None}, cid : Content \cup {None},
                old : Content \cup {None}, seed : BOOLEAN, stage : 1..7]
    /\ doomed \in [Key -> Content \cup {None}]
    /\ cur \in [cid : Content \cup {None}, live : SUBSET Key, listed : SUBSET Key]
    /\ edits \in 0..MaxEdits
    /\ faults \in 0..MaxFaults
    /\ condemned \in SUBSET Key
    /\ broken \in SUBSET Content

\* A bucket that is new, or holds what a version before the reverse index and
\* the ownership fields transcoded: complete trees, no refs, foreign mappings.
Init ==
    /\ source \in [Key -> Content \cup {None}]
    /\ mapping \in [Key -> {NoMap} \cup [ver : Content, cid : Content, own : {FALSE}]]
    /\ \A k \in Key : mapping[k] # NoMap =>
        /\ k \in Legacy
        /\ mapping[k].cid = mapping[k].ver /\ mapping[k].cid \notin Bad
        /\ source[k] = mapping[k].cid
    /\ tree = [c \in Content |-> IF \E k \in Key : Mapped(k, c) THEN Part ELSE {}]
    /\ refs = [c \in Content |-> NoRefs]
    /\ tomb = [k \in Key |-> NoTomb]
    /\ lease = {}
    /\ pc = "idle"
    /\ job = NoJob
    /\ doomed = [k \in Key |-> None]
    /\ cur = NoCur
    /\ edits = 0
    /\ faults = 0
    /\ condemned = {}
    /\ broken = {}

-----------------------------------------------------------------------------
(* The owners of the sources. *)

Edit(k, v) ==
    /\ edits < MaxEdits
    /\ source[k] # v
    /\ source' = [source EXCEPT ![k] = v]
    /\ edits' = edits + 1
    /\ UNCHANGED <<mapping, tree, refs, tomb, lease, pc, job, gcVars, faults, historyVars>>

Upload(k, c) == Edit(k, c)
Delete(k)    == Edit(k, None)

-----------------------------------------------------------------------------
(* The reverse index, core/refs.go. *)

\* Wrong variant: the cap is checked after the key has been appended.
MutIndex(S) == IF Cardinality(S) > MaxIndexedRefs + 1
               THEN [st |-> "over", keys |-> {}]
               ELSE [st |-> "full", keys |-> S]

\* WriteRefs: beyond the cap the stored keys are a sample nobody may rely on.
Index(S) == IF Cardinality(S) > MaxIndexedRefs
            THEN [st |-> "over", keys |-> {}]
            ELSE [st |-> "full", keys |-> S]

FindMappingsForContentID(c) == {k \in Key : Mapped(k, c)}

\* Wrong variant: a new index starts with the incoming key alone.
MutAddRefUnseeded(c, k, seed) ==
    refs' = IF refs[c].st = "over" \/ k \in refs[c].keys THEN refs
            ELSE [refs EXCEPT ![c] = Index(refs[c].keys \cup {k})]

AddRef(c, k, seed) ==
    refs' = IF refs[c].st = "over" \/ k \in refs[c].keys THEN refs
            ELSE [refs EXCEPT ![c] = Index({k} \cup
                    IF refs[c].st = "none" /\ seed THEN FindMappingsForContentID(c)
                                                   ELSE refs[c].keys)]

RemoveRef(c, k) ==
    refs' = IF refs[c].st = "full" /\ k \in refs[c].keys
            THEN [refs EXCEPT ![c] = Index(refs[c].keys \ {k})]
            ELSE refs

\* ListRefs returns these keys; with persist it stores what a scan found.
ListedRefs(c) == IF refs[c].st = "full" THEN refs[c].keys ELSE FindMappingsForContentID(c)

ListRefs(c) ==
    refs' = IF refs[c].st = "full" THEN refs
            ELSE [refs EXCEPT ![c] = Index(FindMappingsForContentID(c))]

-----------------------------------------------------------------------------
(* Processing one source, core/orchestrator.go. *)

\* Wrong variant: any mapping of the key will do.
MutIsCached(k, v) == mapping[k].ver # None

IsCached(k, v) == mapping[k].ver = v

Blocks(t, v) == t.ver = v /\ t.n >= MaxAttempts

\* What is known of k before it is downloaded: its listing and its mapping.
NewJob(k) == [key |-> k, ver |-> source[k], cid |-> None, old |-> mapping[k].cid,
              seed |-> FALSE, stage |-> 1]

\* Only a source that took the lease of its content, not a deduplicated one,
\* gives it back on the way out.
LeaseReleased == IF job.seed THEN lease ELSE lease \ {job.cid}

\* k is listed with version source[k]; its mapping and tombstone are read, and it
\* is neither cached nor tombstoned.
Begin(k) ==
    /\ pc = "idle"
    /\ source[k] # None
    /\ ~IsCached(k, source[k])
    /\ ~Blocks(tomb[k], source[k])
    /\ pc' = "fetch"
    /\ job' = NewJob(k)
    /\ UNCHANGED <<mapping, tree, refs, tomb, lease, gcVars, sourceVars, faults, historyVars>>

\* Download and hash what the key holds now; dedup on master.m3u8; else lease.
Fetch ==
    LET c == source[job.key] IN
    /\ pc = "fetch"
    /\ c # None
    /\ \/ /\ "master" \in tree[c]
          /\ pc' = "addref"
          /\ job' = [job EXCEPT !.cid = c, !.seed = TRUE]
          /\ UNCHANGED lease
       \/ /\ "master" \notin tree[c]
          /\ c \in lease                    \* busy: left to a later pass
          /\ pc' = "idle"
          /\ job' = NoJob
          /\ UNCHANGED lease
       \/ /\ "master" \notin tree[c]
          /\ c \notin lease
          /\ lease' = lease \cup {c}
          /\ pc' = "upload"
          /\ job' = [job EXCEPT !.cid = c]
    /\ UNCHANGED <<mapping, tree, refs, tomb, gcVars, sourceVars, faults, historyVars>>

\* UploadDirectory tier by tier, then fingerprint, index row and metadata.
UploadStage ==
    LET c == job.cid
        p == Stage[job.stage]
    IN
    /\ pc = "upload"
    /\ c \notin Bad
    /\ tree' = [tree EXCEPT ![c] = @ \cup {p}]
    /\ broken' = IF p = "master" THEN broken \ {c} ELSE broken
    /\ job' = [job EXCEPT !.stage = @ + 1]
    /\ pc' = IF job.stage = 6 THEN "addref" ELSE "upload"
    /\ UNCHANGED <<mapping, refs, tomb, lease, gcVars, sourceVars, faults, condemned>>

\* writeMappingWithRefs: reference, mapping, superseded reference.
WriteRef ==
    /\ pc = "addref"
    /\ AddRef(job.cid, job.key, job.seed)
    /\ pc' = "map"
    /\ UNCHANGED <<mapping, tree, tomb, lease, job, gcVars, sourceVars, faults, historyVars>>

WriteMapping ==
    /\ pc = "map"
    /\ mapping' = [mapping EXCEPT ![job.key] = [ver |-> job.ver, cid |-> job.cid, own |-> TRUE]]
    /\ condemned' = condemned \ {job.key}
    /\ pc' = IF job.old \notin {None, job.cid} THEN "unref" ELSE "clear"
    /\ UNCHANGED <<tree, refs, tomb, lease, job, gcVars, sourceVars, faults, broken>>

\* A failure of this step is logged only.
DropOldRef ==
    /\ pc = "unref"
    /\ RemoveRef(job.old, job.key)
    /\ pc' = "clear"
    /\ UNCHANGED <<mapping, tree, tomb, lease, job, gcVars, sourceVars, faults, historyVars>>

\* clearTombstone; on the way out the lease is released.
Finish ==
    /\ pc = "clear"
    /\ tomb' = [tomb EXCEPT ![job.key] = NoTomb]
    /\ lease' = LeaseReleased
    /\ pc' = "idle"
    /\ job' = NoJob
    /\ UNCHANGED <<mapping, tree, refs, gcVars, sourceVars, faults, historyVars>>

\* writeFailureTombstone counts failures of the same source version.
Failed(k, v) ==
    tomb' = [tomb EXCEPT ![k] = [ver |-> v, n |-> IF @.ver = v THEN @.n + 1 ELSE 1]]

\* The source fails: it is gone, or its bytes cannot be probed or transcoded.
SourceFails ==
    /\ \/ pc = "fetch" /\ source[job.key] = None
       \/ pc = "upload" /\ job.cid \in Bad
    /\ Failed(job.key, job.ver)
    /\ lease' = LeaseReleased
    /\ pc' = "idle"
    /\ job' = NoJob
    /\ UNCHANGED <<mapping, tree, refs, gcVars, sourceVars, faults, historyVars>>

\* The lease of a run that crashed, or could not release it, passes its TTL.
LeaseExpires(c) ==
    /\ c \in lease
    /\ c # job.cid \/ job.seed
    /\ lease' = lease \ {c}
    /\ UNCHANGED <<mapping, tree, refs, tomb, pc, job, gcVars, sourceVars, faults, historyVars>>

-----------------------------------------------------------------------------
(* The cleanup pass, core/cleanup.go. *)

\* Live sources are listed, then mappings this pair wrote whose source is gone.
FindOrphans ==
    LET orphan == {k \in Key : mapping[k].own /\ source[k] = None} IN
    /\ pc = "idle"
    /\ orphan # {}
    /\ doomed' = [k \in Key |-> IF k \in orphan THEN mapping[k].cid ELSE None]
    /\ pc' = "gc"
    /\ UNCHANGED <<mapping, tree, refs, tomb, lease, job, cur, sourceVars, faults, historyVars>>

\* Wrong variant: references of mappings an older version wrote do not count.
MutVerifyLiveRefs(c) == {k \in ListedRefs(c) : doomed[k] # c /\ mapping[k].own /\ Mapped(k, c)}

\* verifyLiveRefs: listed, not orphaned here, and still mapped to c.
VerifyLiveRefs(c) == {k \in ListedRefs(c) : doomed[k] # c /\ Mapped(k, c)}

\* Wrong variant: content with live references is skipped, orphans and all.
MutGcDecideSkips(c) ==
    /\ pc = "gc"
    /\ \E k \in Key : doomed[k] = c
    /\ ListRefs(c)
    /\ LET skip == VerifyLiveRefs(c) # {}
           rest == [k \in Key |-> IF skip /\ doomed[k] = c THEN None ELSE doomed[k]]
       IN  /\ doomed' = rest
           /\ cur' = IF skip THEN NoCur ELSE [cid |-> c, live |-> {}, listed |-> ListedRefs(c)]
           /\ pc' = IF ~skip THEN "gctree"
                    ELSE IF \A k \in Key : rest[k] = None THEN "idle" ELSE "gc"
    /\ UNCHANGED <<mapping, tree, tomb, lease, job, sourceVars, faults, historyVars>>

\* The next content ID (a Go map: any order); who still refers to it?
GcDecide(c) ==
    /\ pc = "gc"
    /\ \E k \in Key : doomed[k] = c
    /\ ListRefs(c)
    /\ cur' = [cid |-> c, live |-> VerifyLiveRefs(c), listed |-> ListedRefs(c)]
    /\ pc' = IF VerifyLiveRefs(c) = {} THEN "gctree" ELSE "gcmap"
    /\ UNCHANGED <<mapping, tree, tomb, lease, job, doomed, sourceVars, faults, historyVars>>

\* DeleteByIDDirectory deletes all objects but those in remaining.
DeleteTree(c, remaining) ==
    /\ tree' = [tree EXCEPT ![c] = (@ \ InTree) \cup remaining]
    /\ lease' = lease \ {c}
    /\ condemned' = condemned \cup {k \in Key : doomed[k] = c}
    /\ broken' = IF remaining = {} THEN broken \ {c} ELSE broken \cup {c}

GcTree ==
    /\ pc = "gctree"
    /\ DeleteTree(cur.cid, {})
    /\ pc' = "gcblob"
    /\ UNCHANGED <<mapping, refs, tomb, job, gcVars, sourceVars, faults>>

\* DeleteFingerprint, DeleteRefs, RemoveIndexEntry.
GcBlob ==
    /\ pc = "gcblob"
    /\ tree' = [tree EXCEPT ![cur.cid] = @ \ {"blob"}]
    /\ pc' = "gcrefs"
    /\ UNCHANGED <<mapping, refs, tomb, lease, job, gcVars, sourceVars, faults, historyVars>>

GcRefs ==
    /\ pc = "gcrefs"
    /\ refs' = [refs EXCEPT ![cur.cid] = NoRefs]
    /\ pc' = "gcrow"
    /\ UNCHANGED <<mapping, tree, tomb, lease, job, gcVars, sourceVars, faults, historyVars>>

GcRow ==
    /\ pc = "gcrow"
    /\ tree' = [tree EXCEPT ![cur.cid] = @ \ {"row"}]
    /\ pc' = "gcmap"
    /\ UNCHANGED <<mapping, refs, tomb, lease, job, gcVars, sourceVars, faults, historyVars>>

\* One orphan mapping of this content is deleted.
GcMapping(k) ==
    /\ pc = "gcmap"
    /\ doomed[k] = cur.cid
    /\ mapping' = [mapping EXCEPT ![k] = NoMap]
    /\ doomed' = [doomed EXCEPT ![k] = None]
    /\ condemned' = condemned \ {k}
    /\ UNCHANGED <<tree, refs, tomb, lease, pc, job, cur, sourceVars, faults, broken>>

\* All of them are: the index of retained content is rewritten, and on to the next.
GcNext ==
    /\ pc = "gcmap"
    /\ \A k \in Key : doomed[k] # cur.cid
    /\ refs' = IF cur.live # {} /\ Cardinality(cur.live) # Cardinality(cur.listed)
               THEN [refs EXCEPT ![cur.cid] = Index(cur.live)]
               ELSE refs
    /\ pc' = IF \A k \in Key : doomed[k] = None THEN "idle" ELSE "gc"
    /\ cur' = NoCur
    /\ UNCHANGED <<mapping, tree, tomb, lease, job, doomed, sourceVars, faults, historyVars>>

-----------------------------------------------------------------------------
(* Faults. *)

Fault == faults < MaxFaults /\ faults' = faults + 1

\* The mapping or the tombstone cannot be read, of a source that may be cached or
\* blocked all the same: that counts as a failure of the source.
LookupFails(k) ==
    /\ Fault
    /\ pc = "idle"
    /\ source[k] # None
    /\ \/ Failed(k, source[k])
       \/ tomb' = [tomb EXCEPT ![k] = [ver |-> source[k], n |-> 1]]
    /\ UNCHANGED <<mapping, tree, refs, lease, pc, job, gcVars, sourceVars, historyVars>>

\* A later request of processSource fails: so does the source, whatever the
\* cause.  The tombstone may start from one (the old one cannot be read) or not be written;
\* the lease may not be released.  Where the mapping is there already, the
\* answer to its PUT was lost.
RequestFails ==
    /\ Fault
    /\ \/ pc \in {"fetch", "upload", "addref", "map", "unref"}
       \/ pc = "clear" /\ job.old \in {None, job.cid}
    /\ \/ Failed(job.key, job.ver)
       \/ tomb' = [tomb EXCEPT ![job.key] = [ver |-> job.ver, n |-> 1]]
       \/ UNCHANGED tomb
    /\ \/ lease' = LeaseReleased
       \/ UNCHANGED lease
    /\ pc' = "idle"
    /\ job' = NoJob
    /\ UNCHANGED <<mapping, tree, refs, gcVars, sourceVars, historyVars>>

\* RemoveRef or DeleteTombstone fails: logged, and processing goes on.
DropOldRefFails ==
    /\ Fault
    /\ pc = "unref"
    /\ pc' = "clear"
    /\ UNCHANGED <<mapping, tree, refs, tomb, lease, job, gcVars, sourceVars, historyVars>>

ClearFails ==
    /\ Fault
    /\ pc = "clear"
    /\ lease' = LeaseReleased
    /\ pc' = "idle"
    /\ job' = NoJob
    /\ UNCHANGED <<mapping, tree, refs, tomb, gcVars, sourceVars, historyVars>>

\* The run is cut while a source is processed: deadline or SIGTERM (the lease
\* is released) or a crash (it stays).  No tombstone is written.
RunCut ==
    /\ Fault
    /\ pc \in JobPC
    /\ \/ lease' = LeaseReleased
       \/ UNCHANGED lease
    /\ pc' = "idle"
    /\ job' = NoJob
    /\ UNCHANGED <<mapping, tree, refs, tomb, gcVars, sourceVars, historyVars>>

\* Any request of the cleanup pass fails, or the run is cut: the pass is over.
GcCut ==
    /\ Fault
    /\ pc \in GcPC
    /\ pc' = "idle"
    /\ doomed' = [k \in Key |-> None]
    /\ cur' = NoCur
    /\ UNCHANGED <<mapping, tree, refs, tomb, lease, job, sourceVars, historyVars>>

\* DeleteByIDDirectory is cut after some of its objects, or DeleteObjects
\* answers with per-key errors, which are not looked at: the pass goes on.
GcTreePartly(remaining) ==
    /\ Fault
    /\ pc = "gctree"
    /\ remaining # {} /\ remaining \subseteq tree[cur.cid]
    /\ DeleteTree(cur.cid, remaining)
    /\ \/ pc' = "gcblob" /\ UNCHANGED gcVars
       \/ pc' = "idle" /\ doomed' = [k \in Key |-> None] /\ cur' = NoCur
    /\ UNCHANGED <<mapping, refs, tomb, job, sourceVars>>

-----------------------------------------------------------------------------
ProcessStep == Fetch \/ UploadStage \/ WriteRef \/ WriteMapping \/ DropOldRef
               \/ Finish \/ SourceFails

CleanupStep ==
    \/ \E c \in Content : GcDecide(c)
    \/ GcTree \/ GcBlob \/ GcRefs \/ GcRow
    \/ \E k \in Key : GcMapping(k)
    \/ GcNext

FaultStep ==
    \/ \E k \in Key : LookupFails(k)
    \/ RequestFails \/ DropOldRefFails \/ ClearFails \/ RunCut \/ GcCut
    \/ \E remaining \in SUBSET InTree : GcTreePartly(remaining)

Next ==
    \/ \E k \in Key : Delete(k) \/ \E c \in Content : Upload(k, c)
    \/ \E k \in Key : Begin(k)
    \/ ProcessStep
    \/ FindOrphans
    \/ CleanupStep
    \/ \E c \in Content : LeaseExpires(c)
    \/ FaultStep

Spec == Init /\ [][Next]_vars

\* A sweep goes on with what it has begun; sweeps follow one another, start at
\* the source after the last one taken and end with the cleanup pass, so no
\* source that can be begun and no cleanup is passed over for ever; leases age.
Fairness ==
    /\ WF_vars(ProcessStep) /\ WF_vars(CleanupStep)
    /\ \A k \in Key : SF_vars(Begin(k))
    /\ SF_vars(FindOrphans)
    /\ \A c \in Content : WF_vars(LeaseExpires(c))

FairSpec == Spec /\ Fairness

-----------------------------------------------------------------------------
(* Properties. *)

\* refs.go:94-97, "the index must never be missing a live reference": whatever
\* fails or is cut between the two writes, a key mapped to c is in c's index,
\* unless the index is absent or in overflow.  The exception is a mapping that
\* a cleanup cut half way has left behind (see InterruptedGcIsFinished).
IndexNeverLosesRef ==
    \A k \in Key, c \in Content :
        Mapped(k, c) /\ refs[c].st = "full" /\ k \notin condemned => k \in refs[c].keys

\* INTEGRATION.md section 3, "ready": a mapping is only there while everything
\* its master playlist leads to is: no failure of an upload or of a cleanup,
\* no deduplication onto a half-written tree and no collection for the sake
\* of another key breaks it, cut cleanups again excepted.
MappedIsPlayable ==
    \A k \in Key, c \in Content :
        Mapped(k, c) /\ k \notin condemned /\ c \notin broken => Playable \subseteq tree[c]

\* INTEGRATION.md:183-187: content is collected only when every mapping that
\* refers to it is an orphan found by this pass (or was condemned by an earlier
\* one), though cleanup decides from the index and not from the mappings.
GcSparesReferenced ==
    [][\A c \in Content : ~(tree[c] \subseteq tree'[c]) =>
        \A k \in Key : Mapped(k, c) => doomed[k] = c \/ k \in condemned]_vars

\* A good source that stays is published under its version in the end, whatever
\* failed before it (fewer transient failures than TOMBSTONE_MAX_ATTEMPTS).
GoodSourcePublished ==
    \A k \in Key, c \in Content \ Bad :
        <>[](source[k] = c) => <>[](mapping[k].ver = c)

\* INTEGRATION.md:181-183: the mapping of a deleted source disappears.
OrphanMappingGoes ==
    \A k \in Key : <>[](source[k] = None) => <>[](~mapping[k].own)

-----------------------------------------------------------------------------
(* The store implements Library. *)

Taken   == IF pc \in JobPC \ {"fetch"} THEN {<<job.key, job.cid>>} ELSE {}
Shown   == [k \in Key |-> mapping[k].cid]
Theirs  == {k \in Key : mapping[k] # NoMap /\ ~mapping[k].own}
Whole   == {c \in Content : Playable \subseteq tree[c]}
Orphans == {k \in Key : doomed[k] # None}

Lib == INSTANCE Library WITH
    taken <- Taken, shown <- Shown, theirs <- Theirs, whole <- Whole, orphan <- Orphans,
    spoilt <- broken, dead <- condemned

\* What Library says of SPEC.md sections 3 and 6: whatever is uploaded, replaced,
\* cut and collected, in whatever order, clients see no mapping a library may
\* not show, and nothing is collected that a live mapping leads to.
LibrarySpec == Lib!Spec

-----------------------------------------------------------------------------
(* What the documentation says and the code does not keep. *)

\* SPEC.md:238, "Rerunning a partially-complete prior run is safe": a good
\* source that stays plays in the end (a cleanup cut between the deletion of a
\* tree and of its mappings leaves a mapping that is a cache hit for ever).
InterruptedGcIsFinished ==
    \A k \in Key, c \in Content \ Bad :
        <>[](source[k] = c) => <>[](\E d \in Content : Mapped(k, d) /\ Playable \subseteq tree[d])
=============================================================================
