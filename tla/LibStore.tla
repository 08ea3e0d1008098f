------------------------------- MODULE LibStore --------------------------------
(***************************************************************************)
(* The destination bucket under the TypeScript worker: processSource       *)
(* (lib/src/orchestrator.ts), uploadDirectory (lib/src/uploader.ts), the   *)
(* reverse index (lib/src/refs.ts) and runCleanupPass                      *)
(* (lib/src/cleanup.ts).  Its bucket layout is that of the Go worker       *)
(* (module ContentStore); it differs in that a tree is uploaded in no      *)
(* order, that uploads go on after one of them has failed, and that there  *)
(* are no tombstones.                                                      *)
(*                                                                         *)
(* One worker, inside its bucket lock (module LibLock says when that       *)
(* holds); a read and the write it decides are one step.                   *)
(***************************************************************************)
EXTENDS Naturals, FiniteSets

CONSTANTS
    Key, Content,
    Bad,            \* contents too large, too long, or that cannot be transcoded
    None,
    MAX_INDEXED_REFS,
    MaxEdits,       \* uploads and deletions that are explored
    MaxFaults       \* failed requests, cut runs and crashes that are explored

ASSUME ConstantsOK ==
    /\ IsFiniteSet(Key)
    /\ None \notin Key \cup Content
    /\ Bad \subseteq Content
    /\ MAX_INDEXED_REFS \in Nat /\ MaxEdits \in Nat /\ MaxFaults \in Nat

VARIABLES
    source, mapping, refs, lease,   \* as in ContentStore
    tree,       \* tree[c]: the objects kept per content ID
    flying,     \* uploads <<c, p>> still under way after their source has failed
    pc, job,    \* the worker, and the source it is at
    doomed, cur,\* the cleanup pass: orphans found, and the content it is at
    edits, faults,
    condemned,  \* history: keys whose content a GC began to delete and whose
                \* mapping has not been deleted or rewritten since
    torn        \* history: contents of which an upload or a GC was given up half way

vars == <<source, mapping, refs, lease, tree, flying, pc, job, doomed, cur,
          edits, faults, condemned, torn>>
gcVars == <<doomed, cur>>
sourceVars == <<source, edits>>
historyVars == <<condemned, torn>>

Playable == {"media", "rend", "master"}
InTree   == Playable \cup {"meta"}
Part     == InTree \cup {"blob", "row"}

NoMap  == [ver |-> None, cid |-> None, own |-> FALSE]
NoRefs == [st |-> "none", keys |-> {}]
NoJob  == [key |-> None, ver |-> None, cid |-> None, old |-> None, seed |-> FALSE, todo |-> {}]
NoCur  == [cid |-> None, live |-> {}, listed |-> {}]

Mapped(k, c) == mapping[k].cid = c

JobPC == {"fetch", "upload", "blob", "row", "meta", "addref", "map", "unref"}
GcPC  == {"gc", "gctree", "gcblob", "gcrow", "gcrefs", "gcmap"}

TypeOK ==
    /\ source \in [Key -> Content \cup {None}]
    /\ mapping \in [Key -> [ver : Content, cid : Content, own : BOOLEAN] \cup {NoMap}]
    /\ refs \in [Content -> [st : {"none", "full", "over"}, keys : SUBSET Key]]
    /\ \A c \in Content : Cardinality(refs[c].keys) <= MAX_INDEXED_REFS
    /\ lease \in SUBSET Content
    /\ tree \in [Content -> SUBSET Part]
    /\ flying \in SUBSET (Content \X Playable)
    /\ pc \in {"idle"} \cup JobPC \cup GcPC
    /\ job \in [key : Key \cup {None}, ver : Content \cup {None}, cid : Content \cup {None},
                old : Content \cup {None}, seed : BOOLEAN, todo : SUBSET Playable]
    /\ doomed \in [Key -> Content \cup {None}]
    /\ cur \in [cid : Content \cup {None}, live : SUBSET Key, listed : SUBSET Key]
    /\ edits \in 0..MaxEdits /\ faults \in 0..MaxFaults
    /\ condemned \in SUBSET Key /\ torn \in SUBSET Content

\* An empty bucket, or what a version without the reverse index and the
\* ownership fields left there.
Init ==
    /\ source \in [Key -> Content \cup {None}]
    /\ mapping \in [Key -> {NoMap} \cup [ver : Content, cid : Content, own : {FALSE}]]
    /\ \A k \in Key : mapping[k] # NoMap =>
        /\ mapping[k].cid = mapping[k].ver /\ mapping[k].cid \notin Bad
        /\ source[k] = mapping[k].cid
    /\ refs = [c \in Content |-> NoRefs]
    /\ lease = {}
    /\ tree = [c \in Content |-> IF \E k \in Key : Mapped(k, c) THEN Part ELSE {}]
    /\ flying = {}
    /\ pc = "idle" /\ job = NoJob
    /\ doomed = [k \in Key |-> None] /\ cur = NoCur
    /\ edits = 0 /\ faults = 0
    /\ condemned = {} /\ torn = {}

\* The owners upload, replace and delete sources.
Edit(k, v) ==
    /\ edits < MaxEdits /\ edits' = edits + 1
    /\ source[k] # v
    /\ source' = [source EXCEPT ![k] = v]
    /\ UNCHANGED <<mapping, refs, lease, tree, flying, pc, job, gcVars, faults, historyVars>>

Upload(k, c) == Edit(k, c)
Delete(k)    == Edit(k, None)

-----------------------------------------------------------------------------
(* The reverse index, lib/src/refs.ts. *)

\* Wrong variant: the cap is checked after the key has been appended.
MutIndex(S) == IF Cardinality(S) > MAX_INDEXED_REFS + 1
               THEN [st |-> "over", keys |-> {}]
               ELSE [st |-> "full", keys |-> S]

\* writeRefs: beyond the cap the stored keys are a sample nobody may rely on.
Index(S) == IF Cardinality(S) > MAX_INDEXED_REFS
            THEN [st |-> "over", keys |-> {}]
            ELSE [st |-> "full", keys |-> S]

findMappingsForContentId(c) == {k \in Key : Mapped(k, c)}

addRef(c, k, seed) ==
    refs' = IF refs[c].st = "over" \/ k \in refs[c].keys THEN refs
            ELSE [refs EXCEPT ![c] = Index({k} \cup
                    IF refs[c].st = "none" /\ seed THEN findMappingsForContentId(c)
                                                   ELSE refs[c].keys)]

removeRef(c, k) ==
    refs' = IF refs[c].st = "full" /\ k \in refs[c].keys
            THEN [refs EXCEPT ![c] = Index(refs[c].keys \ {k})]
            ELSE refs

ListedRefs(c) == IF refs[c].st = "full" THEN refs[c].keys ELSE findMappingsForContentId(c)

listRefs(c) ==
    refs' = IF refs[c].st = "full" THEN refs
            ELSE [refs EXCEPT ![c] = Index(findMappingsForContentId(c))]

-----------------------------------------------------------------------------
(* Processing one source. *)

IsCached(k) == mapping[k].ver = source[k]

\* Only a source that took the lease of its content, not a deduplicated one,
\* gives it back on the way out.
LeaseReleased == IF job.seed THEN lease ELSE lease \ {job.cid}

Begin(k) ==
    /\ pc = "idle"
    /\ source[k] # None
    /\ ~IsCached(k)
    /\ pc' = "fetch"
    /\ job' = [NoJob EXCEPT !.key = k, !.ver = source[k], !.old = mapping[k].cid]
    /\ UNCHANGED <<mapping, refs, lease, tree, flying, gcVars, sourceVars, faults, historyVars>>

\* Download and hash what the key holds now; dedup on master.m3u8; else lease.
Fetch ==
    LET c == source[job.key] IN
    /\ pc = "fetch"
    /\ c # None
    /\ \/ /\ "master" \in tree[c]
          /\ pc' = "addref"
          /\ job' = [job EXCEPT !.cid = c, !.seed = TRUE]
          /\ UNCHANGED lease
       \/ /\ "master" \notin tree[c] /\ c \in lease
          /\ pc' = "idle" /\ job' = NoJob
          /\ UNCHANGED lease
       \/ /\ "master" \notin tree[c] /\ c \notin lease
          /\ lease' = lease \cup {c}
          /\ pc' = "upload"
          /\ job' = [job EXCEPT !.cid = c, !.todo = Playable]
    /\ UNCHANGED <<mapping, refs, tree, flying, gcVars, sourceVars, faults, historyVars>>

\* uploadDirectory: eight at a time, in whatever order they end.
UploadFile(p) ==
    /\ pc = "upload" /\ job.cid \notin Bad
    /\ p \in job.todo
    /\ tree' = [tree EXCEPT ![job.cid] = @ \cup {p}]
    /\ job' = [job EXCEPT !.todo = @ \ {p}]
    /\ UNCHANGED <<mapping, refs, lease, flying, pc, gcVars, sourceVars, faults, historyVars>>

\* Wrong variant: the playlist is waited for, not everything it needs.
MutUploaded == "master" \notin job.todo

Uploaded == job.todo = {}

UploadEnds ==
    /\ pc = "upload" /\ job.cid \notin Bad
    /\ Uploaded
    /\ pc' = "blob"
    /\ UNCHANGED <<mapping, refs, lease, tree, flying, job, gcVars, sourceVars, faults,
                   historyVars>>

\* uploadFingerprint, upsertIndexEntry, writeMetadata.
After(p) == CASE p = "blob" -> "row" [] p = "row" -> "meta" [] p = "meta" -> "addref"

Describe ==
    /\ pc \in {"blob", "row", "meta"}
    /\ tree' = [tree EXCEPT ![job.cid] = @ \cup {pc}]
    /\ pc' = After(pc)
    /\ UNCHANGED <<mapping, refs, lease, flying, job, gcVars, sourceVars, faults, historyVars>>

WriteRef ==
    /\ pc = "addref"
    /\ addRef(job.cid, job.key, job.seed)
    /\ pc' = "map"
    /\ UNCHANGED <<mapping, lease, tree, flying, job, gcVars, sourceVars, faults, historyVars>>

\* The lease is released in a finally; with this the source is finished,
\* unless its old content has a reference to lose.
WriteMapping ==
    /\ pc = "map"
    /\ mapping' = [mapping EXCEPT ![job.key] = [ver |-> job.ver, cid |-> job.cid, own |-> TRUE]]
    /\ condemned' = condemned \ {job.key}
    /\ IF job.old \notin {None, job.cid}
       THEN pc' = "unref" /\ UNCHANGED <<job, lease>>
       ELSE pc' = "idle" /\ job' = NoJob /\ lease' = LeaseReleased
    /\ UNCHANGED <<refs, tree, flying, gcVars, sourceVars, faults, torn>>

\* Wrong variant: the key is dropped from the index of its new content.
MutDropped == job.cid

Dropped == job.old

DropOldRef ==
    /\ pc = "unref"
    /\ removeRef(Dropped, job.key)
    /\ pc' = "idle" /\ job' = NoJob
    /\ lease' = LeaseReleased
    /\ UNCHANGED <<mapping, tree, flying, gcVars, sourceVars, faults, historyVars>>

-----------------------------------------------------------------------------
(* Failures of a source. *)

\* The finally blocks run: the lease goes (or its release fails), the temporary
\* files go, and the pass takes the next source.
Fails(keepLease) ==
    /\ lease' = IF keepLease THEN lease ELSE LeaseReleased
    /\ pc' = "idle" /\ job' = NoJob
    /\ UNCHANGED <<mapping, refs, tree, gcVars, sourceVars, condemned>>

\* Gone, too large, too long, or not to be transcoded.
SourceFails ==
    /\ \/ pc = "fetch" /\ source[job.key] = None
       \/ pc = "upload" /\ job.cid \in Bad
    /\ Fails(FALSE)
    /\ UNCHANGED <<flying, torn, faults>>

Fault == faults < MaxFaults /\ faults' = faults + 1

\* A request fails or the budget is spent; Promise.all is left by its first
\* failure, and of the other uploads those under way go on.
RequestFails(others) ==
    /\ Fault
    /\ pc \in JobPC
    /\ others \subseteq job.todo /\ (pc = "upload" => others # job.todo)
    /\ \E keep \in BOOLEAN : Fails(keep)
    /\ flying' = flying \cup ({job.cid} \X others)
    /\ torn' = IF pc = "upload" THEN torn \cup {job.cid} ELSE torn

\* One of those uploads ends.
Land(c, p) ==
    /\ <<c, p>> \in flying
    /\ flying' = flying \ {<<c, p>>}
    /\ tree' = [tree EXCEPT ![c] = @ \cup {p}]
    /\ UNCHANGED <<mapping, refs, lease, pc, job, gcVars, sourceVars, faults, historyVars>>

\* The process ends with them, in the middle of anything or after its run.
ProcessEnds ==
    /\ Fault
    /\ pc # "idle" \/ flying # {}
    /\ flying' = {}
    /\ torn' = torn \cup (IF pc = "upload" THEN {job.cid} ELSE {})
    /\ pc' = "idle" /\ job' = NoJob
    /\ doomed' = [k \in Key |-> None] /\ cur' = NoCur
    /\ UNCHANGED <<mapping, refs, lease, tree, sourceVars, condemned>>

LeaseExpires(c) ==
    /\ c \in lease /\ (c # job.cid \/ job.seed)
    /\ lease' = lease \ {c}
    /\ UNCHANGED <<mapping, refs, tree, flying, pc, job, gcVars, sourceVars, faults, historyVars>>

-----------------------------------------------------------------------------
(* The cleanup pass, lib/src/cleanup.ts. *)

FindOrphans ==
    LET orphan == {k \in Key : mapping[k].own /\ source[k] = None} IN
    /\ pc = "idle"
    /\ orphan # {}
    /\ doomed' = [k \in Key |-> IF k \in orphan THEN mapping[k].cid ELSE None]
    /\ pc' = "gc"
    /\ UNCHANGED <<mapping, refs, lease, tree, flying, job, cur, sourceVars, faults, historyVars>>

\* Wrong variant: an entry counts only if its mapping is an orphan no longer.
MutVerifyLiveRefs(c) == {k \in ListedRefs(c) : doomed[k] # c /\ mapping[k].own /\ Mapped(k, c)}

verifyLiveRefs(c) == {k \in ListedRefs(c) : doomed[k] # c /\ Mapped(k, c)}

GcDecide(c) ==
    /\ pc = "gc"
    /\ \E k \in Key : doomed[k] = c
    /\ listRefs(c)
    /\ cur' = [cid |-> c, live |-> verifyLiveRefs(c), listed |-> ListedRefs(c)]
    /\ pc' = IF verifyLiveRefs(c) = {} THEN "gctree" ELSE "gcmap"
    /\ UNCHANGED <<mapping, lease, tree, flying, job, doomed, sourceVars, faults, historyVars>>

\* deleteByIdDirectory; objects in left stay when the answer has errors in it
\* (they are not looked at) or the process ends there (see GcCut).
GcTree(left) ==
    /\ pc = "gctree"
    /\ left \subseteq tree[cur.cid]
    /\ IF left = {} THEN UNCHANGED faults ELSE Fault
    /\ tree' = [tree EXCEPT ![cur.cid] = (@ \ InTree) \cup left]
    /\ lease' = lease \ {cur.cid}
    /\ condemned' = condemned \cup {k \in Key : doomed[k] = cur.cid}
    /\ torn' = IF left = {} /\ \A p \in Playable : <<cur.cid, p>> \notin flying
               THEN torn \ {cur.cid} ELSE torn \cup {cur.cid}
    /\ pc' = "gcblob"
    /\ UNCHANGED <<mapping, refs, flying, job, gcVars, sourceVars>>

\* deleteFingerprint, removeIndexEntry.
GcBlob ==
    /\ pc = "gcblob"
    /\ tree' = [tree EXCEPT ![cur.cid] = @ \ {"blob"}]
    /\ pc' = "gcrow"
    /\ UNCHANGED <<mapping, refs, lease, flying, job, gcVars, sourceVars, faults, historyVars>>

GcRow ==
    /\ pc = "gcrow"
    /\ tree' = [tree EXCEPT ![cur.cid] = @ \ {"row"}]
    /\ pc' = "gcrefs"
    /\ UNCHANGED <<mapping, refs, lease, flying, job, gcVars, sourceVars, faults, historyVars>>

GcRefs ==
    /\ pc = "gcrefs"
    /\ refs' = [refs EXCEPT ![cur.cid] = NoRefs]
    /\ pc' = "gcmap"
    /\ UNCHANGED <<mapping, lease, tree, flying, job, gcVars, sourceVars, faults, historyVars>>

GcMapping(k) ==
    /\ pc = "gcmap"
    /\ doomed[k] = cur.cid
    /\ mapping' = [mapping EXCEPT ![k] = NoMap]
    /\ doomed' = [doomed EXCEPT ![k] = None]
    /\ condemned' = condemned \ {k}
    /\ UNCHANGED <<refs, lease, tree, flying, pc, job, cur, sourceVars, faults, torn>>

GcNext ==
    /\ pc = "gcmap"
    /\ \A k \in Key : doomed[k] # cur.cid
    /\ refs' = IF cur.live # {} /\ Cardinality(cur.live) # Cardinality(cur.listed)
               THEN [refs EXCEPT ![cur.cid] = Index(cur.live)] ELSE refs
    /\ pc' = IF \A k \in Key : doomed[k] = None THEN "idle" ELSE "gc"
    /\ cur' = NoCur
    /\ UNCHANGED <<mapping, lease, tree, flying, job, doomed, sourceVars, faults, historyVars>>

\* A request of the pass fails: the pass is over.
GcCut ==
    /\ Fault
    /\ pc \in GcPC
    /\ pc' = "idle"
    /\ doomed' = [k \in Key |-> None] /\ cur' = NoCur
    /\ UNCHANGED <<mapping, refs, lease, tree, flying, job, sourceVars, historyVars>>

-----------------------------------------------------------------------------
ProcessStep ==
    \/ Fetch \/ UploadEnds \/ Describe \/ WriteRef \/ WriteMapping \/ DropOldRef \/ SourceFails
    \/ \E p \in Playable : UploadFile(p)
    \/ \E c \in Content, p \in Playable : Land(c, p)

CleanupStep ==
    \/ FindOrphans \/ GcBlob \/ GcRow \/ GcRefs \/ GcNext
    \/ \E c \in Content : GcDecide(c)
    \/ \E left \in SUBSET InTree : GcTree(left)
    \/ \E k \in Key : GcMapping(k)

FaultStep ==
    \/ \E others \in SUBSET Playable : RequestFails(others)
    \/ ProcessEnds \/ GcCut

Next ==
    \/ \E k \in Key : Delete(k) \/ Begin(k) \/ \E c \in Content : Upload(k, c)
    \/ \E c \in Content : LeaseExpires(c)
    \/ ProcessStep \/ CleanupStep \/ FaultStep

Spec == Init /\ [][Next]_vars

-----------------------------------------------------------------------------
(* Properties. *)

\* refs.ts, addRef, "the index must never be missing a live reference".
IndexNeverLosesRef ==
    \A k \in Key, c \in Content :
        Mapped(k, c) /\ refs[c].st = "full" /\ k \notin condemned => k \in refs[c].keys

\* cleanup.ts: content is collected only when every mapping that refers to it
\* is an orphan of this pass, or was condemned by an earlier one.
GcSparesReferenced ==
    [][\A c \in Content : ~(tree[c] \subseteq tree'[c]) =>
        \A k \in Key : Mapped(k, c) => doomed[k] = c \/ k \in condemned]_vars

\* SPEC.md:60-64: a mapping plays, as long as no upload and no collection of its
\* content was given up half way.
MappedIsPlayable ==
    \A k \in Key, c \in Content :
        Mapped(k, c) /\ k \notin condemned /\ c \notin torn => Playable \subseteq tree[c]

-----------------------------------------------------------------------------
(* The store implements Library. *)

Taken   == IF pc \in JobPC \ {"fetch"} THEN {<<job.key, job.cid>>} ELSE {}
Shown   == [k \in Key |-> mapping[k].cid]
Theirs  == {k \in Key : mapping[k] # NoMap /\ ~mapping[k].own}
Whole   == {c \in Content : Playable \subseteq tree[c]}
Orphans == {k \in Key : doomed[k] # None}

Lib == INSTANCE Library WITH
    taken <- Taken, shown <- Shown, theirs <- Theirs, whole <- Whole, orphan <- Orphans,
    spoilt <- torn, dead <- condemned

\* What Library says of SPEC.md sections 3 and 6: whatever is uploaded, replaced,
\* cut and collected, in whatever order, clients see no mapping a library may
\* not show, and nothing is collected that a live mapping leads to.
LibrarySpec == Lib!Spec

-----------------------------------------------------------------------------
(* What the documentation says and the code does not keep. *)

\* SPEC.md:238, "Rerunning a partially-complete prior run is safe", "uploaded
\* segments past a crash are overwritten on retry": whatever runs were cut, a
\* mapping that a run writes plays (no cleanup being under way for it).
RerunIsSafe ==
    \A k \in Key, c \in Content :
        Mapped(k, c) /\ k \notin condemned => Playable \subseteq tree[c]
=============================================================================
