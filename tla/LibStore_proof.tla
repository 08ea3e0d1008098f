---------------------------- MODULE LibStore_proof ----------------------------
(***************************************************************************)
(* Proofs about LibStore, for every set of keys and contents, every index  *)
(* cap and every number of edits and faults.                               *)
(***************************************************************************)
EXTENDS LibStore, TLAPS, FiniteSetTheorems

\* From the end of the upload to the mapping, of a new tree and of a known one.
Described == {"blob", "row", "meta", "addref", "map"}

\* What the locals of a source's processing hold at each place.
JobOK ==
    /\ IF pc \in JobPC THEN job.key \in Key /\ job.ver \in Content ELSE job = NoJob
    /\ pc \in JobPC \ {"fetch"} => job.cid \in Content
    /\ pc \in JobPC \ {"upload"} => job.todo = {}
    /\ pc \in {"fetch", "upload", "blob", "row", "meta"} => ~job.seed
    /\ pc = "unref" => job.old \in Content /\ mapping[job.key].cid # job.old

\* What the locals of the cleanup pass hold.
GcOK ==
    /\ pc \notin GcPC => \A k \in Key : doomed[k] = None
    /\ pc \in GcPC \ {"gc"} => cur.cid \in Content
    /\ \A k \in Key : doomed[k] # None => doomed[k] = mapping[k].cid
    /\ pc \in {"gctree", "gcblob", "gcrow", "gcrefs"} => cur.live = {}

\* Uploads that outlive their source are of trees that were given up.
FlyingIsTorn ==
    \A c \in Content : (\E p \in Playable : <<c, p>> \in flying) => c \in torn

\* The tree in hand has what is not still to do, and its master only by then.
UploadOK ==
    pc = "upload" =>
        /\ Playable \ job.todo \subseteq tree[job.cid]
        /\ job.cid \in Bad => job.todo = Playable
        /\ job.cid \notin torn /\ "master" \in job.todo => "master" \notin tree[job.cid]

\* Where master.m3u8 is seen, all it leads to is there, in trees not given up.
MasterIsWhole ==
    /\ \A c \in Content : "master" \in tree[c] /\ c \notin torn =>
        Playable \subseteq tree[c] \/ (pc = "upload" /\ job.cid = c)
    /\ pc \in Described /\ job.cid \notin torn => Playable \subseteq tree[job.cid]

MappedHasMaster ==
    /\ \A k \in Key, c \in Content : Mapped(k, c) /\ k \notin condemned => "master" \in tree[c]
    /\ pc \in Described => "master" \in tree[job.cid]

\* Content being transcoded is referred to by leftovers of cut cleanups only,
\* so that its index may be started without a scan.
FreshIsUnreferenced ==
    pc \in {"upload", "blob", "row", "meta"} \/ (pc = "addref" /\ ~job.seed) =>
        \A k \in Key : Mapped(k, job.cid) => k \in condemned

\* The reference is there before the mapping is.
RefBeforeMapping ==
    pc = "map" /\ refs[job.cid].st = "full" => job.key \in refs[job.cid].keys

\* Whoever refers to the content in hand is an orphan, is condemned, or is in live.
LiveIsComplete ==
    pc \in GcPC \ {"gc"} =>
        \A k \in Key : Mapped(k, cur.cid) /\ k \notin condemned =>
            k \in cur.live \/ doomed[k] = cur.cid

CollectedIsCondemned ==
    pc \in {"gcblob", "gcrow", "gcrefs"} \/ (pc = "gcmap" /\ cur.live = {}) =>
        \A k \in Key : Mapped(k, cur.cid) => k \in condemned

TreeInv == FlyingIsTorn /\ UploadOK /\ MasterIsWhole /\ MappedHasMaster
IndexInv == IndexNeverLosesRef /\ FreshIsUnreferenced /\ RefBeforeMapping
GcInv == LiveIsComplete /\ CollectedIsCondemned

StoreInv == JobOK /\ GcOK /\ TreeInv /\ IndexInv /\ GcInv

-----------------------------------------------------------------------------
(* The reverse index. *)

RefsType == [st : {"none", "full", "over"}, keys : SUBSET Key]

LEMMA IndexLemma ==
    ASSUME NEW S \in SUBSET Key
    PROVE  /\ Index(S) \in RefsType
           /\ Index(S).st = "full" => Index(S).keys = S
           /\ Index(S).st # "none"
           /\ Cardinality(Index(S).keys) <= MAX_INDEXED_REFS
<1>1. Cardinality({}) = 0 /\ MAX_INDEXED_REFS \in Nat
  BY FS_EmptySet, ConstantsOK
<1>2. IsFiniteSet(S)
  BY ConstantsOK, FS_Subset
<1>3. Cardinality(S) \in Nat
  BY <1>2, FS_CardinalityType
<1> QED
  BY <1>1, <1>3 DEF Index, RefsType

LEMMA NoRefsType == NoRefs \in RefsType /\ Cardinality(NoRefs.keys) <= MAX_INDEXED_REFS
BY FS_EmptySet, ConstantsOK DEF NoRefs, RefsType

RefsOK ==
    /\ refs \in [Content -> RefsType]
    /\ \A c \in Content : Cardinality(refs[c].keys) <= MAX_INDEXED_REFS

LEMMA AddRefLemma ==
    ASSUME RefsOK, NEW c \in Content, NEW k \in Key, NEW seed \in BOOLEAN, addRef(c, k, seed)
    PROVE  /\ RefsOK'
           /\ \A d \in Content \ {c} : refs'[d] = refs[d]
           /\ refs'[c].st = "full" =>
                /\ k \in refs'[c].keys
                /\ refs[c].st = "full" => refs[c].keys \subseteq refs'[c].keys
                /\ refs[c].st = "none" /\ seed =>
                    findMappingsForContentId(c) \subseteq refs'[c].keys
<1> DEFINE S == {k} \cup IF refs[c].st = "none" /\ seed THEN findMappingsForContentId(c)
                                                        ELSE refs[c].keys
<1>1. S \in SUBSET Key
  BY DEF RefsOK, RefsType, findMappingsForContentId
<1>2. CASE refs[c].st = "over" \/ k \in refs[c].keys
  BY <1>2 DEF addRef, RefsOK, RefsType
<1>3. CASE ~(refs[c].st = "over" \/ k \in refs[c].keys)
  <2>1. refs' = [refs EXCEPT ![c] = Index(S)]
    BY <1>3 DEF addRef
  <2> HIDE DEF S
  <2>2. RefsOK'
    BY <1>1, <2>1, IndexLemma DEF RefsOK
  <2>3. refs'[c] = Index(S) /\ \A d \in Content \ {c} : refs'[d] = refs[d]
    BY <2>1 DEF RefsOK
  <2>4. refs'[c].st = "full" => refs'[c].keys = S
    BY <1>1, <2>3, IndexLemma
  <2> QED
    BY <2>2, <2>3, <2>4 DEF S
<1> QED
  BY <1>2, <1>3

LEMMA RemoveRefLemma ==
    ASSUME RefsOK, NEW c \in Content, NEW k \in Key, removeRef(c, k)
    PROVE  /\ RefsOK'
           /\ \A d \in Content \ {c} : refs'[d] = refs[d]
           /\ refs'[c].st = "full" => refs[c].st = "full" /\ refs[c].keys \ {k} \subseteq refs'[c].keys
<1>1. CASE refs[c].st = "full" /\ k \in refs[c].keys
  <2>1. refs[c].keys \ {k} \in SUBSET Key
    BY DEF RefsOK, RefsType
  <2> QED
    BY <1>1, <2>1, IndexLemma DEF removeRef, RefsOK
<1>2. CASE ~(refs[c].st = "full" /\ k \in refs[c].keys)
  BY <1>2 DEF removeRef, RefsOK
<1> QED
  BY <1>1, <1>2

LEMMA ListRefsLemma ==
    ASSUME RefsOK, NEW c \in Content, listRefs(c)
    PROVE  /\ RefsOK'
           /\ ListedRefs(c) \in SUBSET Key
           /\ \A d \in Content \ {c} : refs'[d] = refs[d]
           /\ refs[c].st # "full" => ListedRefs(c) = findMappingsForContentId(c)
           /\ refs'[c].st = "full" => refs'[c].keys = ListedRefs(c)
<1>1. findMappingsForContentId(c) \in SUBSET Key
  BY DEF findMappingsForContentId
<1>2. CASE refs[c].st = "full"
  BY <1>2 DEF listRefs, ListedRefs, RefsOK, RefsType
<1>3. CASE refs[c].st # "full"
  BY <1>1, <1>3, IndexLemma DEF listRefs, ListedRefs, RefsOK
<1> QED
  BY <1>2, <1>3

-----------------------------------------------------------------------------
(* Type correctness. *)

JobType == [key : Key \cup {None}, ver : Content \cup {None}, cid : Content \cup {None},
            old : Content \cup {None}, seed : BOOLEAN, todo : SUBSET Playable]
CurType == [cid : Content \cup {None}, live : SUBSET Key, listed : SUBSET Key]

LEMMA LocalsType == NoJob \in JobType /\ NoCur \in CurType
BY DEF NoJob, NoCur, JobType, CurType

LEMMA TypeStep ==
    ASSUME TypeOK, JobOK, GcOK, [Next]_vars
    PROVE  TypeOK'
<1>0. RefsOK /\ (RefsOK' <=> /\ refs' \in [Content -> [st : {"none", "full", "over"}, keys : SUBSET Key]]
                             /\ \A c \in Content : Cardinality(refs'[c].keys) <= MAX_INDEXED_REFS)
  BY DEF RefsOK, RefsType, TypeOK
<1> USE ConstantsOK DEF TypeOK
<1>1. ASSUME NEW k \in Key, NEW v \in Content \cup {None}, Edit(k, v)
      PROVE  TypeOK'
  BY <1>1, <1>0 DEF Edit, gcVars, historyVars
<1>2. ASSUME NEW k \in Key, Begin(k)
      PROVE  TypeOK'
  <2>1. mapping[k].cid \in Content \cup {None} /\ source[k] \in Content
    BY <1>2 DEF Begin, NoMap
  <2>2. job' \in JobType
    BY <1>2, <2>1, LocalsType DEF Begin, JobType
  <2> QED
    BY <1>0, <1>2, <2>2 DEF Begin, JobType, JobPC, historyVars, sourceVars, gcVars
<1>3. ASSUME Fetch
      PROVE  TypeOK'
  <2>1. source[job.key] \in Content
    BY <1>3 DEF Fetch, JobOK, JobPC
  <2>2. job' \in JobType
    BY <1>3, <2>1, LocalsType, ZenonT(30) DEF Fetch, JobType
  <2>3. lease' \in SUBSET Content /\ pc' \in {"idle"} \cup JobPC
    BY <1>3, <2>1 DEF Fetch, JobPC
  <2> QED
    BY <1>0, <1>3, <2>2, <2>3 DEF Fetch, JobType, historyVars, sourceVars, gcVars
<1>4. ASSUME NEW p \in Playable, UploadFile(p)
      PROVE  TypeOK'
  <2>1. job.cid \in Content
    BY <1>4 DEF UploadFile, JobOK, JobPC
  <2>2. job' \in JobType
    BY <1>4 DEF UploadFile, JobType
  <2>3. tree' \in [Content -> SUBSET Part]
    BY <1>4, <2>1 DEF UploadFile, Part, InTree
  <2> QED
    BY <1>0, <1>4, <2>2, <2>3 DEF UploadFile, JobType, historyVars, sourceVars, gcVars
<1>5. ASSUME UploadEnds
      PROVE  TypeOK'
  BY <1>5, <1>0 DEF UploadEnds, Uploaded, historyVars, sourceVars, gcVars, JobPC
<1>6. ASSUME Describe
      PROVE  TypeOK'
  <2>1. pc \in Part /\ pc' \in {"row", "meta", "addref"}
    BY <1>6 DEF Describe, After, Part, InTree
  <2>2. tree' \in [Content -> SUBSET Part]
    BY <1>6, <2>1 DEF Describe
  <2> QED
    BY <1>0, <1>6, <2>1, <2>2 DEF Describe, JobPC, historyVars, sourceVars, gcVars
<1>7. ASSUME WriteRef
      PROVE  TypeOK'
  <2>1. job.key \in Key /\ job.cid \in Content /\ job.seed \in BOOLEAN
    BY <1>7 DEF WriteRef, JobOK, JobPC
  <2>2. RefsOK'
    BY <1>0, <1>7, <2>1, AddRefLemma DEF WriteRef
  <2> QED
    BY <1>0, <1>7, <2>2 DEF WriteRef, JobPC, historyVars, sourceVars, gcVars
<1>8. ASSUME WriteMapping
      PROVE  TypeOK'
  <2>1. job.key \in Key /\ job.ver \in Content /\ job.cid \in Content
    BY <1>8 DEF WriteMapping, JobOK, JobPC
  <2>2. mapping' \in [Key -> [ver : Content, cid : Content, own : BOOLEAN] \cup {NoMap}]
    BY <1>8, <2>1 DEF WriteMapping
  <2>3. job' \in JobType /\ pc' \in {"idle"} \cup JobPC
    BY <1>8, LocalsType DEF WriteMapping, JobType, JobPC
  <2>4. lease' \in SUBSET Content /\ condemned' \in SUBSET Key
    BY <1>8 DEF WriteMapping, LeaseReleased
  <2> QED
    BY <1>0, <1>8, <2>2, <2>3, <2>4 DEF WriteMapping, JobType, sourceVars, gcVars
<1>9. ASSUME DropOldRef
      PROVE  TypeOK'
  <2>1. job.key \in Key /\ job.old \in Content
    BY <1>9 DEF DropOldRef, JobOK, JobPC
  <2>2. RefsOK'
    BY <1>0, <1>9, <2>1, RemoveRefLemma DEF DropOldRef, Dropped
  <2>3. job' \in JobType /\ lease' \in SUBSET Content
    BY <1>9, LocalsType DEF DropOldRef, LeaseReleased
  <2> QED
    BY <1>0, <1>9, <2>2, <2>3 DEF DropOldRef, JobType, historyVars, sourceVars, gcVars
<1>10. ASSUME SourceFails
       PROVE  TypeOK'
  <2>1. job' \in JobType /\ lease' \in SUBSET Content
    BY <1>10, LocalsType DEF SourceFails, Fails, LeaseReleased
  <2> QED
    BY <1>0, <1>10, <2>1 DEF SourceFails, Fails, JobType, sourceVars, gcVars
<1>11. ASSUME NEW others \in SUBSET Playable, RequestFails(others)
       PROVE  TypeOK'
  <2>1. job' \in JobType /\ lease' \in SUBSET Content
    BY <1>11, LocalsType DEF RequestFails, Fails, LeaseReleased
  <2>2. flying' \in SUBSET (Content \X Playable) /\ torn' \in SUBSET Content
    BY <1>11 DEF RequestFails, JobOK, JobPC
  <2>3. faults' \in 0..MaxFaults
    BY <1>11 DEF RequestFails, Fault
  <2> QED
    BY <1>0, <1>11, <2>1, <2>2, <2>3 DEF RequestFails, Fails, JobType, sourceVars, gcVars
<1>12. ASSUME NEW c \in Content, NEW p \in Playable, Land(c, p)
       PROVE  TypeOK'
  <2>1. tree' \in [Content -> SUBSET Part] /\ flying' \in SUBSET (Content \X Playable)
    BY <1>12 DEF Land, Part, InTree
  <2> QED
    BY <1>0, <1>12, <2>1 DEF Land, historyVars, sourceVars, gcVars
<1>13. ASSUME ProcessEnds
       PROVE  TypeOK'
  <2>1. job' \in JobType /\ cur' \in CurType
    BY <1>13, LocalsType DEF ProcessEnds
  <2>2. torn' \in SUBSET Content /\ faults' \in 0..MaxFaults
    BY <1>13 DEF ProcessEnds, JobOK, JobPC, Fault
  <2> QED
    BY <1>0, <1>13, <2>1, <2>2 DEF ProcessEnds, JobType, CurType, sourceVars
<1>14. ASSUME NEW c \in Content, LeaseExpires(c)
       PROVE  TypeOK'
  BY <1>14, <1>0 DEF LeaseExpires, historyVars, sourceVars, gcVars
<1>15. ASSUME FindOrphans
       PROVE  TypeOK'
  BY <1>15, <1>0 DEF FindOrphans, historyVars, sourceVars, GcPC, NoMap
<1>16. ASSUME NEW c \in Content, GcDecide(c)
       PROVE  TypeOK'
  <2>1. RefsOK' /\ ListedRefs(c) \in SUBSET Key
    BY <1>0, <1>16, ListRefsLemma DEF GcDecide
  <2>2. cur' \in CurType
    BY <1>16, <2>1 DEF GcDecide, CurType, verifyLiveRefs
  <2>3. pc' \in GcPC
    BY <1>16 DEF GcDecide, GcPC
  <2> QED
    BY <1>0, <1>16, <2>1, <2>2, <2>3 DEF GcDecide, CurType, historyVars, sourceVars
<1>17. ASSUME NEW left \in SUBSET InTree, GcTree(left)
       PROVE  TypeOK'
  <2>1. cur.cid \in Content
    BY <1>17 DEF GcTree, GcOK, GcPC
  <2>2. tree' \in [Content -> SUBSET Part]
    BY <1>17, <2>1 DEF GcTree, Part
  <2>3. torn' \in SUBSET Content /\ faults' \in 0..MaxFaults
    BY <1>17, <2>1 DEF GcTree, Fault
  <2> QED
    BY <1>0, <1>17, <2>2, <2>3 DEF GcTree, GcPC, sourceVars, gcVars
<1>18. ASSUME GcBlob
       PROVE  TypeOK'
  BY <1>18, <1>0 DEF GcBlob, historyVars, sourceVars, gcVars, GcPC
<1>19. ASSUME GcRow
       PROVE  TypeOK'
  BY <1>19, <1>0 DEF GcRow, historyVars, sourceVars, gcVars, GcPC
<1>20. ASSUME GcRefs
       PROVE  TypeOK'
  <2>1. cur.cid \in Content
    BY <1>20 DEF GcRefs, GcOK, GcPC
  <2>2. RefsOK'
    BY <1>0, <1>20, <2>1, NoRefsType DEF GcRefs, RefsOK
  <2> QED
    BY <1>0, <1>20, <2>2 DEF GcRefs, GcPC, historyVars, sourceVars, gcVars
<1>21. ASSUME NEW k \in Key, GcMapping(k)
       PROVE  TypeOK'
  BY <1>21, <1>0 DEF GcMapping, NoMap, sourceVars
<1>22. ASSUME GcNext
       PROVE  TypeOK'
  <2>1. RefsOK'
    BY <1>0, <1>22, IndexLemma DEF GcNext, RefsOK
  <2>2. cur' \in CurType
    BY <1>22, LocalsType DEF GcNext
  <2> QED
    BY <1>0, <1>22, <2>1, <2>2 DEF GcNext, CurType, GcPC, historyVars, sourceVars
<1>23. ASSUME GcCut
       PROVE  TypeOK'
  BY <1>23, <1>0 DEF GcCut, NoCur, historyVars, sourceVars, Fault
<1>24. CASE UNCHANGED vars
  BY <1>24 DEF vars
<1> QED
  BY <1>1, <1>2, <1>3, <1>4, <1>5, <1>6, <1>7, <1>8, <1>9, <1>10, <1>11, <1>12, <1>13,
     <1>14, <1>15, <1>16, <1>17, <1>18, <1>19, <1>20, <1>21, <1>22, <1>23, <1>24
     DEF Next, Upload, Delete, ProcessStep, CleanupStep, FaultStep

-----------------------------------------------------------------------------
(* The worker and its cleanup pass. *)

LEMMA LocalsStep ==
    ASSUME TypeOK, TypeOK', JobOK, GcOK, [Next]_vars
    PROVE  JobOK' /\ GcOK'
<1> USE ConstantsOK DEF TypeOK, JobOK, GcOK, JobPC, GcPC, Mapped
<1>1. ASSUME NEW k \in Key, NEW v \in Content \cup {None}, Edit(k, v)
      PROVE  JobOK' /\ GcOK'
  BY <1>1 DEF Edit, gcVars, historyVars
<1>2. ASSUME NEW k \in Key, Begin(k)
      PROVE  JobOK' /\ GcOK'
  BY <1>2 DEF Begin, NoJob, IsCached, historyVars, sourceVars, gcVars
<1>3. ASSUME Fetch
      PROVE  JobOK' /\ GcOK'
  <2>1. UNCHANGED <<mapping, doomed, cur>> /\ job.key \in Key /\ job.ver \in Content /\ pc = "fetch"
    BY <1>3 DEF Fetch, gcVars
  <2>2. source[job.key] \in Content /\ ~job.seed /\ job.todo = {}
    BY <1>3, <2>1 DEF Fetch
  <2>3. CASE job' = NoJob /\ pc' = "idle"
    BY <2>1, <2>3
  <2>4. CASE pc' = "addref" /\ job' = [job EXCEPT !.cid = source[job.key], !.seed = TRUE]
    <3>1. /\ job'.key = job.key /\ job'.ver = job.ver
          /\ job'.cid = source[job.key] /\ job'.todo = job.todo
      BY <2>4
    <3> QED
      BY <2>1, <2>2, <2>4, <3>1
  <2>5. CASE pc' = "upload" /\ job' = [job EXCEPT !.cid = source[job.key], !.todo = Playable]
    <3>1. /\ job'.key = job.key /\ job'.ver = job.ver
          /\ job'.cid = source[job.key] /\ job'.seed = job.seed
      BY <2>5
    <3> QED
      BY <2>1, <2>2, <2>5, <3>1
  <2> QED
    BY <1>3, <2>3, <2>4, <2>5 DEF Fetch
<1>4. ASSUME NEW p \in Playable, UploadFile(p)
      PROVE  JobOK' /\ GcOK'
  BY <1>4 DEF UploadFile, historyVars, sourceVars, gcVars
<1>5. ASSUME UploadEnds
      PROVE  JobOK' /\ GcOK'
  BY <1>5 DEF UploadEnds, Uploaded, historyVars, sourceVars, gcVars
<1>6. ASSUME Describe
      PROVE  JobOK' /\ GcOK'
  BY <1>6 DEF Describe, After, historyVars, sourceVars, gcVars
<1>7. ASSUME WriteRef
      PROVE  JobOK' /\ GcOK'
  BY <1>7 DEF WriteRef, historyVars, sourceVars, gcVars
<1>8. ASSUME WriteMapping
      PROVE  JobOK' /\ GcOK'
  BY <1>8 DEF WriteMapping, NoJob, sourceVars, gcVars
<1>9. ASSUME DropOldRef
      PROVE  JobOK' /\ GcOK'
  BY <1>9 DEF DropOldRef, NoJob, historyVars, sourceVars, gcVars
<1>10. ASSUME SourceFails
       PROVE  JobOK' /\ GcOK'
  BY <1>10 DEF SourceFails, Fails, sourceVars, gcVars
<1>11. ASSUME NEW others \in SUBSET Playable, RequestFails(others)
       PROVE  JobOK' /\ GcOK'
  BY <1>11 DEF RequestFails, Fails, sourceVars, gcVars
<1>12. ASSUME NEW c \in Content, NEW p \in Playable, Land(c, p)
       PROVE  JobOK' /\ GcOK'
  BY <1>12 DEF Land, historyVars, sourceVars, gcVars
<1>13. ASSUME ProcessEnds
       PROVE  JobOK' /\ GcOK'
  BY <1>13 DEF ProcessEnds, NoCur, sourceVars
<1>14. ASSUME NEW c \in Content, LeaseExpires(c)
       PROVE  JobOK' /\ GcOK'
  BY <1>14 DEF LeaseExpires, historyVars, sourceVars, gcVars
<1>15. ASSUME FindOrphans
       PROVE  JobOK' /\ GcOK'
  BY <1>15 DEF FindOrphans, historyVars, sourceVars
<1>16. ASSUME NEW c \in Content, GcDecide(c)
       PROVE  JobOK' /\ GcOK'
  BY <1>16 DEF GcDecide, verifyLiveRefs, historyVars, sourceVars
<1>17. ASSUME NEW left \in SUBSET InTree, GcTree(left)
       PROVE  JobOK' /\ GcOK'
  BY <1>17 DEF GcTree, sourceVars, gcVars
<1>18. ASSUME GcBlob
       PROVE  JobOK' /\ GcOK'
  BY <1>18 DEF GcBlob, historyVars, sourceVars, gcVars
<1>19. ASSUME GcRow
       PROVE  JobOK' /\ GcOK'
  BY <1>19 DEF GcRow, historyVars, sourceVars, gcVars
<1>20. ASSUME GcRefs
       PROVE  JobOK' /\ GcOK'
  BY <1>20 DEF GcRefs, historyVars, sourceVars, gcVars
<1>21. ASSUME NEW k \in Key, GcMapping(k)
       PROVE  JobOK' /\ GcOK'
  BY <1>21 DEF GcMapping, NoMap, sourceVars
<1>22. ASSUME GcNext
       PROVE  JobOK' /\ GcOK'
  BY <1>22 DEF GcNext, NoCur, historyVars, sourceVars
<1>23. ASSUME GcCut
       PROVE  JobOK' /\ GcOK'
  BY <1>23 DEF GcCut, NoCur, historyVars, sourceVars
<1>24. CASE UNCHANGED vars
  BY <1>24 DEF vars
<1> HIDE DEF TypeOK, JobOK, GcOK
<1> QED
  BY <1>1, <1>2, <1>3, <1>4, <1>5, <1>6, <1>7, <1>8, <1>9, <1>10, <1>11, <1>12, <1>13,
     <1>14, <1>15, <1>16, <1>17, <1>18, <1>19, <1>20, <1>21, <1>22, <1>23, <1>24
     DEF Next, Upload, Delete, ProcessStep, CleanupStep, FaultStep

-----------------------------------------------------------------------------
(* The trees. *)

LEMMA TreeStep ==
    ASSUME TypeOK, TypeOK', JobOK, GcOK, TreeInv, GcInv, [Next]_vars
    PROVE  TreeInv'
<1> USE ConstantsOK DEF TypeOK, JobOK, GcOK, JobPC, GcPC, Mapped, TreeInv, FlyingIsTorn, UploadOK,
            MasterIsWhole, MappedHasMaster, Described, Playable, InTree
<1>1. ASSUME NEW k \in Key, NEW v \in Content \cup {None}, Edit(k, v)
      PROVE  TreeInv'
  BY <1>1 DEF Edit, gcVars, historyVars
<1>2. ASSUME NEW k \in Key, Begin(k)
      PROVE  TreeInv'
  BY <1>2 DEF Begin, NoJob, IsCached, historyVars, sourceVars, gcVars
<1>3. ASSUME Fetch
      PROVE  TreeInv'
  <2> DEFINE c == source[job.key]
  <2>1. UNCHANGED <<mapping, tree, flying, torn, condemned>> /\ pc = "fetch" /\ c \in Content
    BY <1>3 DEF Fetch, historyVars
  <2>2. CASE pc' = "idle"
    BY <2>1, <2>2
  <2>3. CASE pc' = "addref" /\ "master" \in tree[c] /\ job'.cid = c
    BY <2>1, <2>3
  <2>4. CASE pc' = "upload" /\ "master" \notin tree[c] /\ job'.cid = c /\ job'.todo = Playable
    BY <2>1, <2>4
  <2> QED
    BY <1>3, <2>2, <2>3, <2>4, ZenonT(30) DEF Fetch
<1>4. ASSUME NEW p \in Playable, UploadFile(p)
      PROVE  TreeInv'
  BY <1>4 DEF UploadFile, historyVars, sourceVars, gcVars
<1>5. ASSUME UploadEnds
      PROVE  TreeInv'
  BY <1>5 DEF UploadEnds, Uploaded, historyVars, sourceVars, gcVars
<1>6. ASSUME Describe
      PROVE  TreeInv'
  BY <1>6 DEF Describe, After, historyVars, sourceVars, gcVars
<1>7. ASSUME WriteRef
      PROVE  TreeInv'
  BY <1>7 DEF WriteRef, historyVars, sourceVars, gcVars
<1>8. ASSUME WriteMapping
      PROVE  TreeInv'
  BY <1>8 DEF WriteMapping, NoJob, sourceVars, gcVars
<1>9. ASSUME DropOldRef
      PROVE  TreeInv'
  BY <1>9 DEF DropOldRef, NoJob, historyVars, sourceVars, gcVars
<1>10. ASSUME SourceFails
       PROVE  TreeInv'
  BY <1>10 DEF SourceFails, Fails, sourceVars, gcVars
<1>11. ASSUME NEW others \in SUBSET Playable, RequestFails(others)
       PROVE  TreeInv'
  <2>1. /\ pc' = "idle" /\ UNCHANGED <<mapping, tree, condemned>>
        /\ torn' = IF pc = "upload" THEN torn \cup {job.cid} ELSE torn
        /\ flying' = flying \cup ({job.cid} \X others)
        /\ pc # "upload" => others = {}
    BY <1>11 DEF RequestFails, Fails
  <2>2. FlyingIsTorn'
    BY <2>1
  <2>3. MasterIsWhole' /\ MappedHasMaster' /\ UploadOK'
    BY <2>1
  <2> QED
    BY <2>2, <2>3
<1>12. ASSUME NEW c \in Content, NEW p \in Playable, Land(c, p)
       PROVE  TreeInv'
  <2>1. /\ c \in torn /\ UNCHANGED <<mapping, pc, job, torn, condemned>>
        /\ flying' = flying \ {<<c, p>>}
    BY <1>12 DEF Land, historyVars
  <2>2. tree[c] \subseteq tree'[c] /\ \A d \in Content \ {c} : tree'[d] = tree[d]
    BY <1>12 DEF Land
  <2>3. FlyingIsTorn'
    BY <2>1
  <2>4. \A d \in Content : tree[d] \subseteq tree'[d]
    BY <2>2
  <2>5. pc \in Described \cup {"upload"} => job.cid \in Content
    BY DEF JobOK
  <2>6. MappedHasMaster'
    <3>1. \A k \in Key, d \in Content : Mapped(k, d)' <=> Mapped(k, d)
      BY <2>1 DEF Mapped
    <3> QED
      BY <2>1, <2>4, <2>5, <3>1
  <2>7. UploadOK'
    <3> SUFFICES ASSUME pc = "upload"
                 PROVE  UploadOK'
      BY <2>1
    <3>1. job.cid \in Content /\ tree[job.cid] \subseteq tree'[job.cid]
      BY <2>4, <2>5
    <3>2. job.cid \notin torn => tree'[job.cid] = tree[job.cid]
      BY <2>1, <2>2, <3>1
    <3> QED
      BY <2>1, <3>1, <3>2
  <2>8. MasterIsWhole'
    <3>1. \A d \in Content : d \notin torn => tree'[d] = tree[d]
      BY <2>1, <2>2
    <3> QED
      BY <2>1, <2>5, <3>1
  <2> QED
    BY <2>3, <2>6, <2>7, <2>8
<1>13. ASSUME ProcessEnds
       PROVE  TreeInv'
  BY <1>13 DEF ProcessEnds, NoCur, sourceVars
<1>14. ASSUME NEW c \in Content, LeaseExpires(c)
       PROVE  TreeInv'
  BY <1>14 DEF LeaseExpires, historyVars, sourceVars, gcVars
<1>15. ASSUME FindOrphans
       PROVE  TreeInv'
  BY <1>15 DEF FindOrphans, historyVars, sourceVars
<1>16. ASSUME NEW c \in Content, GcDecide(c)
       PROVE  TreeInv'
  BY <1>16 DEF GcDecide, verifyLiveRefs, historyVars, sourceVars
<1>17. ASSUME NEW left \in SUBSET InTree, GcTree(left)
       PROVE  TreeInv'
  <2> DEFINE c == cur.cid
  <2>1. /\ pc = "gctree" /\ pc' = "gcblob" /\ c \in Content /\ UNCHANGED <<mapping, flying>>
        /\ tree' = [tree EXCEPT ![c] = (@ \ InTree) \cup left]
        /\ condemned' = condemned \cup {k \in Key : doomed[k] = c}
        /\ torn' = IF left = {} /\ \A p \in Playable : <<c, p>> \notin flying
                   THEN torn \ {c} ELSE torn \cup {c}
    BY <1>17 DEF GcTree
  <2>2. \A k \in Key : Mapped(k, c) => k \in condemned'
    BY <2>1 DEF GcInv, LiveIsComplete
  <2>3. \A d \in Content \ {c} : tree'[d] = tree[d] /\ (d \in torn' <=> d \in torn)
    BY <2>1
  <2>4. tree'[c] = (tree[c] \ InTree) \cup left /\ (c \notin torn' => left = {})
    BY <2>1
  <2>5. FlyingIsTorn'
    BY <2>1, <2>3
  <2>6. MasterIsWhole'
    BY <2>1, <2>3, <2>4
  <2>7. MappedHasMaster' /\ UploadOK'
    BY <2>1, <2>2, <2>3
  <2> QED
    BY <2>5, <2>6, <2>7
<1>18. ASSUME GcBlob
       PROVE  TreeInv'
  BY <1>18 DEF GcBlob, historyVars, sourceVars, gcVars
<1>19. ASSUME GcRow
       PROVE  TreeInv'
  BY <1>19 DEF GcRow, historyVars, sourceVars, gcVars
<1>20. ASSUME GcRefs
       PROVE  TreeInv'
  BY <1>20 DEF GcRefs, historyVars, sourceVars, gcVars
<1>21. ASSUME NEW k \in Key, GcMapping(k)
       PROVE  TreeInv'
  BY <1>21 DEF GcMapping, NoMap, sourceVars
<1>22. ASSUME GcNext
       PROVE  TreeInv'
  BY <1>22 DEF GcNext, NoCur, historyVars, sourceVars
<1>23. ASSUME GcCut
       PROVE  TreeInv'
  BY <1>23 DEF GcCut, NoCur, historyVars, sourceVars
<1>24. CASE UNCHANGED vars
  BY <1>24 DEF vars
<1> HIDE DEF TypeOK, JobOK, GcOK, TreeInv
<1> QED
  BY <1>1, <1>2, <1>3, <1>4, <1>5, <1>6, <1>7, <1>8, <1>9, <1>10, <1>11, <1>12, <1>13,
     <1>14, <1>15, <1>16, <1>17, <1>18, <1>19, <1>20, <1>21, <1>22, <1>23, <1>24
     DEF Next, Upload, Delete, ProcessStep, CleanupStep, FaultStep

-----------------------------------------------------------------------------
(* The index. *)

LEMMA IndexStep ==
    ASSUME TypeOK, TypeOK', JobOK, GcOK, TreeInv, IndexInv, GcInv, [Next]_vars
    PROVE  IndexInv'
<1>a. ASSUME WriteRef
      PROVE  LET c == job.cid IN
             /\ \A d \in Content \ {c} : refs'[d] = refs[d]
             /\ refs'[c].st = "full" =>
                  /\ job.key \in refs'[c].keys /\ refs[c].st # "over"
                  /\ refs[c].st = "full" => refs[c].keys \subseteq refs'[c].keys
                  /\ refs[c].st = "none" /\ job.seed =>
                        findMappingsForContentId(c) \subseteq refs'[c].keys
  <2>1. job.key \in Key /\ job.cid \in Content /\ job.seed \in BOOLEAN /\ RefsOK
    BY <1>a DEF WriteRef, JobOK, JobPC, TypeOK, RefsOK, RefsType
  <2>2. refs[job.cid].st = "over" => refs'[job.cid] = refs[job.cid]
    BY <1>a DEF WriteRef, addRef
  <2> QED
    BY <1>a, <2>1, <2>2, AddRefLemma DEF WriteRef
<1>b. ASSUME DropOldRef
      PROVE  /\ job.old \in Content
             /\ \A d \in Content \ {job.old} : refs'[d] = refs[d]
             /\ refs'[job.old].st = "full" =>
                    refs[job.old].st = "full" /\ refs[job.old].keys \ {job.key} \subseteq refs'[job.old].keys
  <2>1. job.key \in Key /\ job.old \in Content /\ RefsOK
    BY <1>b DEF DropOldRef, JobOK, JobPC, TypeOK, RefsOK, RefsType
  <2> QED
    BY <1>b, <2>1, RemoveRefLemma DEF DropOldRef, Dropped
<1>c. ASSUME NEW c \in Content, GcDecide(c)
      PROVE  /\ \A d \in Content \ {c} : refs'[d] = refs[d]
             /\ refs[c].st # "full" => ListedRefs(c) = findMappingsForContentId(c)
             /\ refs[c].st = "full" => ListedRefs(c) = refs[c].keys
             /\ refs'[c].st = "full" => refs'[c].keys = ListedRefs(c)
  <2>1. RefsOK
    BY DEF TypeOK, RefsOK, RefsType
  <2> QED
    BY <1>c, <2>1, ListRefsLemma DEF GcDecide, ListedRefs
<1>d. ASSUME GcNext, refs' # refs
      PROVE  /\ cur.cid \in Content
             /\ \A d \in Content \ {cur.cid} : refs'[d] = refs[d]
             /\ refs'[cur.cid].st = "full" => refs'[cur.cid].keys = cur.live
  <2>1. cur.cid \in Content /\ cur.live \in SUBSET Key /\ refs \in [Content -> RefsType]
    BY <1>d DEF GcNext, GcOK, GcPC, TypeOK, RefsType
  <2>2. refs' = [refs EXCEPT ![cur.cid] = Index(cur.live)]
    BY <1>d DEF GcNext
  <2>3. refs'[cur.cid] = Index(cur.live) /\ \A d \in Content \ {cur.cid} : refs'[d] = refs[d]
    BY <2>1, <2>2
  <2> QED
    BY <2>1, <2>3, IndexLemma
<1> USE ConstantsOK DEF TypeOK, JobOK, GcOK, JobPC, GcPC, Mapped, TreeInv, MappedHasMaster, IndexInv,
            IndexNeverLosesRef, FreshIsUnreferenced, RefBeforeMapping, Described, GcInv, LiveIsComplete
<1>1. ASSUME NEW k \in Key, NEW v \in Content \cup {None}, Edit(k, v)
      PROVE  IndexInv'
  BY <1>1 DEF Edit, gcVars, historyVars
<1>2. ASSUME NEW k \in Key, Begin(k)
      PROVE  IndexInv'
  BY <1>2 DEF Begin, NoJob, IsCached, historyVars, sourceVars, gcVars
<1>3. ASSUME Fetch
      PROVE  IndexInv'
  BY <1>3 DEF Fetch, NoJob, historyVars, sourceVars, gcVars
<1>4. ASSUME NEW p \in Playable, UploadFile(p)
      PROVE  IndexInv'
  BY <1>4 DEF UploadFile, historyVars, sourceVars, gcVars
<1>5. ASSUME UploadEnds
      PROVE  IndexInv'
  BY <1>5 DEF UploadEnds, Uploaded, historyVars, sourceVars, gcVars
<1>6. ASSUME Describe
      PROVE  IndexInv'
  BY <1>6 DEF Describe, After, historyVars, sourceVars, gcVars
<1>7. ASSUME WriteRef
      PROVE  IndexInv'
  <2>1. /\ job.key \in Key /\ job.cid \in Content /\ pc = "addref" /\ pc' = "map"
        /\ UNCHANGED <<mapping, job, condemned>>
    BY <1>7 DEF WriteRef, historyVars
  <2>2. ASSUME NEW k \in Key, NEW c \in Content, Mapped(k, c), k \notin condemned,
               refs'[c].st = "full"
        PROVE  k \in refs'[c].keys
    <3>1. CASE c # job.cid
      BY <1>7, <1>a, <2>2, <3>1
    <3>2. CASE c = job.cid
      BY <1>7, <1>a, <2>1, <2>2, <3>2 DEF findMappingsForContentId
    <3> QED
      BY <3>1, <3>2
  <2> QED
    BY <1>7, <1>a, <2>1, <2>2
<1>8. ASSUME WriteMapping
      PROVE  IndexInv'
  BY <1>8 DEF WriteMapping, NoJob, sourceVars, gcVars
<1>9. ASSUME DropOldRef
      PROVE  IndexInv'
  <2>1. /\ pc = "unref" /\ pc' = "idle" /\ UNCHANGED <<mapping, condemned>>
        /\ mapping[job.key].cid # job.old
    BY <1>9 DEF DropOldRef, historyVars
  <2>2. ASSUME NEW k \in Key, NEW c \in Content, Mapped(k, c), k \notin condemned,
               refs'[c].st = "full"
        PROVE  k \in refs'[c].keys
    BY <1>9, <1>b, <2>1, <2>2, SMTT(30)
  <2> QED
    BY <2>1, <2>2
<1>10. ASSUME SourceFails
       PROVE  IndexInv'
  BY <1>10 DEF SourceFails, Fails, sourceVars, gcVars
<1>11. ASSUME NEW others \in SUBSET Playable, RequestFails(others)
       PROVE  IndexInv'
  BY <1>11 DEF RequestFails, Fails, sourceVars, gcVars
<1>12. ASSUME NEW c \in Content, NEW p \in Playable, Land(c, p)
       PROVE  IndexInv'
  BY <1>12 DEF Land, historyVars, sourceVars, gcVars
<1>13. ASSUME ProcessEnds
       PROVE  IndexInv'
  BY <1>13 DEF ProcessEnds, NoCur, sourceVars
<1>14. ASSUME NEW c \in Content, LeaseExpires(c)
       PROVE  IndexInv'
  BY <1>14 DEF LeaseExpires, historyVars, sourceVars, gcVars
<1>15. ASSUME FindOrphans
       PROVE  IndexInv'
  BY <1>15 DEF FindOrphans, historyVars, sourceVars
<1>16. ASSUME NEW c \in Content, GcDecide(c)
       PROVE  IndexInv'
  <2>1. /\ pc' \in {"gctree", "gcmap"} /\ UNCHANGED <<mapping, condemned>>
    BY <1>16 DEF GcDecide, historyVars
  <2>2. \A k \in Key : Mapped(k, c) /\ k \notin condemned => k \in ListedRefs(c)
    BY <1>16, <1>c DEF findMappingsForContentId
  <2>3. ASSUME NEW k \in Key, NEW d \in Content, Mapped(k, d), k \notin condemned,
               refs'[d].st = "full"
        PROVE  k \in refs'[d].keys
    BY <1>16, <1>c, <2>2, <2>3, SMTT(30)
  <2> QED
    BY <2>1, <2>3
<1>17. ASSUME NEW left \in SUBSET InTree, GcTree(left)
       PROVE  IndexInv'
  BY <1>17 DEF GcTree, sourceVars, gcVars
<1>18. ASSUME GcBlob
       PROVE  IndexInv'
  BY <1>18 DEF GcBlob, historyVars, sourceVars, gcVars
<1>19. ASSUME GcRow
       PROVE  IndexInv'
  BY <1>19 DEF GcRow, historyVars, sourceVars, gcVars
<1>20. ASSUME GcRefs
       PROVE  IndexInv'
  <2>1. /\ pc' = "gcmap" /\ UNCHANGED <<mapping, condemned>> /\ cur.cid \in Content
        /\ refs' = [refs EXCEPT ![cur.cid] = NoRefs]
    BY <1>20 DEF GcRefs, historyVars
  <2>2. \A d \in Content : refs'[d].st = "full" => refs'[d] = refs[d]
    BY <2>1 DEF NoRefs
  <2> QED
    BY <2>1, <2>2
<1>21. ASSUME NEW k \in Key, GcMapping(k)
       PROVE  IndexInv'
  BY <1>21 DEF GcMapping, NoMap, sourceVars
<1>22. ASSUME GcNext
       PROVE  IndexInv'
  <2>1. /\ pc = "gcmap" /\ pc' \in {"idle", "gc"} /\ UNCHANGED <<mapping, condemned>>
        /\ \A k \in Key : doomed[k] # cur.cid
    BY <1>22 DEF GcNext, historyVars
  <2>2. ASSUME NEW k \in Key, NEW c \in Content, Mapped(k, c), k \notin condemned,
               refs'[c].st = "full"
        PROVE  k \in refs'[c].keys
    <3>1. CASE refs' = refs
      BY <2>2, <3>1
    <3>2. CASE refs' # refs
      BY <1>22, <1>d, <2>1, <2>2, <3>2, SMTT(30)
    <3> QED
      BY <3>1, <3>2
  <2> QED
    BY <2>1, <2>2
<1>23. ASSUME GcCut
       PROVE  IndexInv'
  BY <1>23 DEF GcCut, NoCur, historyVars, sourceVars
<1>24. CASE UNCHANGED vars
  BY <1>24 DEF vars
<1> HIDE DEF TypeOK, JobOK, GcOK, TreeInv, IndexInv, GcInv
<1> QED
  BY <1>1, <1>2, <1>3, <1>4, <1>5, <1>6, <1>7, <1>8, <1>9, <1>10, <1>11, <1>12, <1>13,
     <1>14, <1>15, <1>16, <1>17, <1>18, <1>19, <1>20, <1>21, <1>22, <1>23, <1>24
     DEF Next, Upload, Delete, ProcessStep, CleanupStep, FaultStep

-----------------------------------------------------------------------------
(* What cleanup knows. *)

LEMMA GcStep ==
    ASSUME TypeOK, TypeOK', JobOK, GcOK, IndexInv, GcInv, [Next]_vars
    PROVE  GcInv'
<1> USE ConstantsOK DEF TypeOK, JobOK, GcOK, JobPC, GcPC, Mapped, IndexInv, IndexNeverLosesRef, GcInv,
            LiveIsComplete, CollectedIsCondemned
<1>1. ASSUME NEW k \in Key, NEW v \in Content \cup {None}, Edit(k, v)
      PROVE  GcInv'
  BY <1>1 DEF Edit, gcVars, historyVars
<1>2. ASSUME NEW k \in Key, Begin(k)
      PROVE  GcInv'
  BY <1>2 DEF Begin, NoJob, IsCached, historyVars, sourceVars, gcVars
<1>3. ASSUME Fetch
      PROVE  GcInv'
  BY <1>3 DEF Fetch, NoJob, historyVars, sourceVars, gcVars
<1>4. ASSUME NEW p \in Playable, UploadFile(p)
      PROVE  GcInv'
  BY <1>4 DEF UploadFile, historyVars, sourceVars, gcVars
<1>5. ASSUME UploadEnds
      PROVE  GcInv'
  BY <1>5 DEF UploadEnds, Uploaded, historyVars, sourceVars, gcVars
<1>6. ASSUME Describe
      PROVE  GcInv'
  BY <1>6 DEF Describe, After, historyVars, sourceVars, gcVars
<1>7. ASSUME WriteRef
      PROVE  GcInv'
  BY <1>7 DEF WriteRef, historyVars, sourceVars, gcVars
<1>8. ASSUME WriteMapping
      PROVE  GcInv'
  BY <1>8 DEF WriteMapping, NoJob, sourceVars, gcVars
<1>9. ASSUME DropOldRef
      PROVE  GcInv'
  BY <1>9 DEF DropOldRef, NoJob, historyVars, sourceVars, gcVars
<1>10. ASSUME SourceFails
       PROVE  GcInv'
  BY <1>10 DEF SourceFails, Fails, sourceVars, gcVars
<1>11. ASSUME NEW others \in SUBSET Playable, RequestFails(others)
       PROVE  GcInv'
  BY <1>11 DEF RequestFails, Fails, sourceVars, gcVars
<1>12. ASSUME NEW c \in Content, NEW p \in Playable, Land(c, p)
       PROVE  GcInv'
  BY <1>12 DEF Land, historyVars, sourceVars, gcVars
<1>13. ASSUME ProcessEnds
       PROVE  GcInv'
  BY <1>13 DEF ProcessEnds, NoCur, sourceVars
<1>14. ASSUME NEW c \in Content, LeaseExpires(c)
       PROVE  GcInv'
  BY <1>14 DEF LeaseExpires, historyVars, sourceVars, gcVars
<1>15. ASSUME FindOrphans
       PROVE  GcInv'
  BY <1>15 DEF FindOrphans, historyVars, sourceVars
<1>16. ASSUME NEW c \in Content, GcDecide(c)
       PROVE  GcInv'
  <2>1. /\ pc' = IF verifyLiveRefs(c) = {} THEN "gctree" ELSE "gcmap"
        /\ cur'.cid = c /\ cur'.live = verifyLiveRefs(c)
        /\ UNCHANGED <<mapping, doomed, condemned>>
    BY <1>16 DEF GcDecide, historyVars
  <2>2. \A k \in Key : Mapped(k, c) /\ k \notin condemned => k \in ListedRefs(c)
    BY DEF ListedRefs, findMappingsForContentId
  <2>3. \A k \in Key : Mapped(k, c) /\ k \notin condemned =>
            k \in verifyLiveRefs(c) \/ doomed[k] = c
    BY <2>2 DEF verifyLiveRefs
  <2> QED
    BY <2>1, <2>3
<1>17. ASSUME NEW left \in SUBSET InTree, GcTree(left)
       PROVE  GcInv'
  BY <1>17 DEF GcTree, sourceVars, gcVars
<1>18. ASSUME GcBlob
       PROVE  GcInv'
  BY <1>18 DEF GcBlob, historyVars, sourceVars, gcVars
<1>19. ASSUME GcRow
       PROVE  GcInv'
  BY <1>19 DEF GcRow, historyVars, sourceVars, gcVars
<1>20. ASSUME GcRefs
       PROVE  GcInv'
  BY <1>20 DEF GcRefs, historyVars, sourceVars, gcVars
<1>21. ASSUME NEW k \in Key, GcMapping(k)
       PROVE  GcInv'
  BY <1>21 DEF GcMapping, NoMap, sourceVars
<1>22. ASSUME GcNext
       PROVE  GcInv'
  BY <1>22 DEF GcNext, NoCur, historyVars, sourceVars
<1>23. ASSUME GcCut
       PROVE  GcInv'
  BY <1>23 DEF GcCut, NoCur, historyVars, sourceVars
<1>24. CASE UNCHANGED vars
  BY <1>24 DEF vars
<1> HIDE DEF TypeOK, JobOK, GcOK, IndexInv, GcInv
<1> QED
  BY <1>1, <1>2, <1>3, <1>4, <1>5, <1>6, <1>7, <1>8, <1>9, <1>10, <1>11, <1>12, <1>13,
     <1>14, <1>15, <1>16, <1>17, <1>18, <1>19, <1>20, <1>21, <1>22, <1>23, <1>24
     DEF Next, Upload, Delete, ProcessStep, CleanupStep, FaultStep

-----------------------------------------------------------------------------
(* The theorems. *)

LEMMA StoreInit == Init => TypeOK /\ StoreInv
<1> SUFFICES ASSUME Init
             PROVE  TypeOK /\ StoreInv
  OBVIOUS
<1>1. RefsOK
  BY NoRefsType DEF Init, RefsOK
<1>2. TypeOK
  <2>1. mapping \in [Key -> [ver : Content, cid : Content, own : BOOLEAN] \cup {NoMap}]
    <3>1. [ver : Content, cid : Content, own : {FALSE}]
            \subseteq [ver : Content, cid : Content, own : BOOLEAN]
      OBVIOUS
    <3> QED
      BY <3>1 DEF Init
  <2>2. /\ tree \in [Content -> SUBSET Part]
        /\ source \in [Key -> Content \cup {None}]
        /\ doomed \in [Key -> Content \cup {None}]
    BY DEF Init
  <2>3. job \in JobType /\ cur \in CurType
    BY LocalsType DEF Init
  <2>4. edits \in 0..MaxEdits /\ faults \in 0..MaxFaults
    BY ConstantsOK DEF Init
  <2> QED
    BY <1>1, <2>1, <2>2, <2>3, <2>4 DEF Init, TypeOK, RefsOK, RefsType, JobType, CurType
<1>3. \A k \in Key, c \in Content : Mapped(k, c) => tree[c] = Part
  BY DEF Init, Mapped
<1>4. JobOK /\ GcOK
  BY DEF Init, JobOK, GcOK, JobPC, GcPC, NoCur, NoJob
<1>5. TreeInv
  BY <1>3 DEF Init, TreeInv, FlyingIsTorn, UploadOK, MasterIsWhole, MappedHasMaster,
              Described, Part, InTree, Playable
<1>6. IndexInv
  BY DEF Init, IndexInv, IndexNeverLosesRef, FreshIsUnreferenced, RefBeforeMapping, NoRefs
<1>7. GcInv
  BY DEF Init, GcInv, LiveIsComplete, CollectedIsCondemned, GcPC
<1> QED
  BY <1>2, <1>4, <1>5, <1>6, <1>7 DEF StoreInv

LEMMA StoreStep == TypeOK /\ StoreInv /\ [Next]_vars => TypeOK' /\ StoreInv'
<1> SUFFICES ASSUME TypeOK, StoreInv, [Next]_vars
             PROVE  TypeOK' /\ StoreInv'
  OBVIOUS
<1> USE DEF StoreInv
<1>1. TypeOK'
  BY TypeStep
<1>2. JobOK' /\ GcOK' /\ TreeInv' /\ IndexInv' /\ GcInv'
  BY <1>1, LocalsStep, TreeStep, IndexStep, GcStep
<1> QED
  BY <1>1, <1>2

LEMMA StoreInvariant == Spec => [](TypeOK /\ StoreInv)
BY StoreInit, StoreStep, PTL DEF Spec

\* Every variable has its type, and no index grows beyond the cap of refs.ts.
THEOREM LibTypeCorrect == Spec => []TypeOK
BY StoreInvariant, PTL

\* The reverse index never misses a live reference, through any sequence of
\* uploads, replacements, deduplications, failures and cut runs or cleanups, with
\* uploads that end in any order and after their source was given up.
THEOREM LibIndexIsComplete == Spec => []IndexNeverLosesRef
<1>1. StoreInv => IndexNeverLosesRef
  BY DEF StoreInv, IndexInv
<1> QED
  BY <1>1, StoreInvariant, PTL

\* A mapping leads to a complete playable tree, unless a cut cleanup left the
\* mapping behind or the tree was given up half way.
THEOREM LibMappingsArePlayable == Spec => []MappedIsPlayable
<1>1. StoreInv => MappedIsPlayable
  <2> SUFFICES ASSUME StoreInv, NEW k \in Key, NEW c \in Content,
                      Mapped(k, c), k \notin condemned, c \notin torn
               PROVE  Playable \subseteq tree[c]
    BY DEF MappedIsPlayable
  <2>1. "master" \in tree[c]
    BY DEF StoreInv, TreeInv, MappedHasMaster
  <2>2. ~(pc = "upload" /\ job.cid = c)
    BY DEF StoreInv, IndexInv, FreshIsUnreferenced
  <2> QED
    BY <2>1, <2>2 DEF StoreInv, TreeInv, MasterIsWhole
<1> QED
  BY <1>1, StoreInvariant, PTL

\* Cleanup never takes an object of a tree that a live mapping refers to.
LEMMA GcSparesStep ==
    ASSUME TypeOK, StoreInv, [Next]_vars, NEW c \in Content, NEW k \in Key,
           ~(tree[c] \subseteq tree'[c]), Mapped(k, c)
    PROVE  doomed[k] = c \/ k \in condemned
<1> USE DEF StoreInv, GcOK, GcInv, LiveIsComplete, CollectedIsCondemned, GcPC
<1>1. ASSUME NEW left \in SUBSET InTree, GcTree(left)
      PROVE  doomed[k] = c \/ k \in condemned
  BY <1>1 DEF GcTree, TypeOK
<1>2. CASE GcBlob
  BY <1>2 DEF GcBlob, TypeOK
<1>3. CASE GcRow
  BY <1>3 DEF GcRow, TypeOK
<1>4. ASSUME Describe \/ (\E p \in Playable : UploadFile(p))
                      \/ (\E d \in Content, p \in Playable : Land(d, p))
      PROVE  FALSE
  <2>1. ASSUME NEW d \in Content \cup {None}, NEW p \in Part,
               tree' = [tree EXCEPT ![d] = @ \cup {p}]
        PROVE  tree[c] \subseteq tree'[c]
    BY <2>1 DEF TypeOK
  <2>2. \E d \in Content \cup {None}, p \in Part : tree' = [tree EXCEPT ![d] = @ \cup {p}]
    BY <1>4 DEF Describe, UploadFile, Land, TypeOK, Part, InTree
  <2> QED
    BY <2>1, <2>2
<1>5. CASE UNCHANGED tree
  BY <1>5
<1> QED
  BY <1>1, <1>2, <1>3, <1>4, <1>5
     DEF Next, vars, Upload, Delete, ProcessStep, CleanupStep, FaultStep, Edit, Begin,
         Fetch, UploadEnds, WriteRef, WriteMapping, DropOldRef, SourceFails, Fails,
         RequestFails, ProcessEnds, LeaseExpires, FindOrphans, GcDecide, GcRefs,
         GcMapping, GcNext, GcCut

\* Whatever cleanup reads in the index, it collects only content whose mappings
\* are all orphans of this pass or leftovers of an earlier, cut one.
THEOREM LibGcSparesLiveContent == Spec => GcSparesReferenced
<1>1. TypeOK /\ StoreInv /\ [Next]_vars =>
        [\A c \in Content : ~(tree[c] \subseteq tree'[c]) =>
            \A k \in Key : Mapped(k, c) => doomed[k] = c \/ k \in condemned]_vars
  BY GcSparesStep
<1> QED
  BY <1>1, StoreInvariant, PTL DEF Spec, GcSparesReferenced
-----------------------------------------------------------------------------
(* The store implements Library. *)

\* What cleanup keeps a content for leads to it; what it goes for is ours, and
\* an orphan; and it is not at work while a source is.
GcHand ==
    /\ pc \in GcPC \ {"gc"} => \A k \in cur.live : Mapped(k, cur.cid) /\ doomed[k] = None
    /\ pc = "gctree" => \E k \in Key : doomed[k] = cur.cid
    /\ \A k \in Key : doomed[k] # None => mapping[k].own

LEMMA GcHandStep ==
    ASSUME TypeOK, JobOK, GcOK, GcHand, [Next]_vars
    PROVE  GcHand'
<1> USE DEF GcHand, JobPC, GcPC, Mapped
<1>1. ASSUME NEW c \in Content, GcDecide(c)
      PROVE  GcHand'
  BY <1>1 DEF GcDecide, GcOK, verifyLiveRefs, ListedRefs, findMappingsForContentId, TypeOK,
              historyVars
<1>2. ASSUME NEW k \in Key, GcMapping(k)
      PROVE  GcHand'
  BY <1>2, ConstantsOK DEF GcMapping, GcOK, TypeOK
<1>3. CASE FindOrphans
  BY <1>3 DEF FindOrphans
<1>4. CASE WriteMapping
  BY <1>4 DEF WriteMapping, GcOK, gcVars
<1>5. CASE GcNext \/ GcCut \/ ProcessEnds
  BY <1>5 DEF GcNext, GcCut, ProcessEnds, TypeOK
<1>6. CASE /\ UNCHANGED <<mapping, cur, doomed>>
           /\ pc' = "gctree" => pc = "gctree"
           /\ pc' \in GcPC \ {"gc"} => pc \in GcPC \ {"gc"}
  BY <1>6
<1>7. ASSUME NEW left \in SUBSET InTree, GcTree(left)
      PROVE  GcHand'
  BY <1>7, <1>6 DEF GcTree, gcVars
<1>8. CASE Describe
  BY <1>8, <1>6 DEF Describe, After, gcVars
<1> QED
  BY <1>1, <1>2, <1>3, <1>4, <1>5, <1>6, <1>7, <1>8
     DEF Next, vars, Upload, Delete, ProcessStep, CleanupStep, FaultStep, Edit, Begin,
         Fetch, UploadFile, UploadEnds, WriteRef, DropOldRef, SourceFails, Fails,
         RequestFails, Land, GcBlob, GcRow, GcRefs, LeaseExpires, gcVars

\* What the library sees follows from mappings, trees, orphans and the job.
LEMMA ViewUnchanged ==
    /\ UNCHANGED mapping => UNCHANGED <<Shown, Theirs>>
    /\ UNCHANGED tree => UNCHANGED Whole
    /\ UNCHANGED doomed => UNCHANGED Orphans
    /\ UNCHANGED <<pc, job>> => UNCHANGED Taken
    /\ pc \notin JobPC \ {"fetch"} => Taken = {}
    /\ pc' \notin JobPC \ {"fetch"} => Taken' = {}
BY DEF Shown, Theirs, Whole, Orphans, Taken

\* The end of a source's processing, whatever ends it.
LEMMA ReleaseLemma ==
    ASSUME pc' \in {"idle", "fetch"}, UNCHANGED <<source, mapping, tree, doomed, torn, condemned>>
    PROVE  Lib!Release \/ UNCHANGED Lib!vars
<1>1. /\ UNCHANGED <<source, Shown, Theirs, Whole, torn, Orphans, condemned>>
      /\ Taken' = {}
  BY ViewUnchanged DEF JobPC
<1> QED
  BY <1>1 DEF Lib!Release, Lib!vars

LEMMA FetchTakes ==
    ASSUME TypeOK, JobOK, GcOK, Fetch
    PROVE  (\E k \in Key : Lib!Take(k)) \/ UNCHANGED Lib!vars
<1>1. UNCHANGED <<source, mapping, tree, doomed, torn, condemned>>
  BY DEF Fetch, sourceVars, gcVars, historyVars
<1>2. CASE pc' = "idle"
  BY <1>1, <1>2, ViewUnchanged DEF Fetch, JobPC, Lib!vars
<1>3. CASE pc' # "idle"
  <2>1. /\ UNCHANGED <<source, Shown, Theirs, Whole, torn, Orphans, condemned>>
        /\ Taken = {}
    BY <1>1, ViewUnchanged DEF Fetch, JobPC
  <2>2. Orphans = {}
    BY DEF Fetch, GcOK, GcPC, Orphans
  <2>3. job.key \in Key /\ source[job.key] # None /\ Taken' = {<<job.key, source[job.key]>>}
    BY <1>3 DEF Fetch, TypeOK, JobOK, JobPC, Taken
  <2> QED
    BY <2>1, <2>2, <2>3 DEF Lib!Take
<1> QED
  BY <1>2, <1>3

\* A file arrives, of the source in hand or of one that was given up.
LEMMA UploadPublishes ==
    ASSUME TypeOK, JobOK, FlyingIsTorn, NEW p \in Playable,
           UploadFile(p) \/ \E d \in Content : Land(d, p)
    PROVE  (\E c \in Content : Lib!Publish(c)) \/ UNCHANGED Lib!vars
<1>1. UNCHANGED <<source, mapping, doomed, condemned, torn, pc, job.key, job.cid>>
  BY DEF UploadFile, Land, sourceVars, gcVars, historyVars, TypeOK
<1>2. UNCHANGED <<Taken, Shown, Theirs, Orphans>>
  BY <1>1, ViewUnchanged DEF Taken
<1>3. PICK c \in Content :
        /\ tree' = [tree EXCEPT ![c] = @ \cup {p}]
        /\ c \in torn \/ \E k \in Key : <<k, c>> \in Taken
  <2>1. CASE UploadFile(p)
    BY <2>1 DEF UploadFile, JobOK, JobPC, Taken
  <2>2. CASE \E d \in Content : Land(d, p)
    BY <2>2 DEF Land, FlyingIsTorn
  <2> QED
    BY <2>1, <2>2
<1>4. Whole' \in {Whole, Whole \cup {c}}
  BY <1>3 DEF Whole, TypeOK
<1> QED
  BY <1>1, <1>2, <1>3, <1>4 DEF Lib!Publish, Lib!vars

LEMMA WriteMappingShows ==
    ASSUME TypeOK, JobOK, MasterIsWhole, MappedHasMaster, WriteMapping
    PROVE  \E k \in Key, c \in Content : Lib!Show(k, c)
<1> DEFINE k == job.key
           c == job.cid
<1>1. k \in Key /\ c \in Content /\ job.ver \in Content /\ pc = "map"
  BY DEF WriteMapping, JobOK, JobPC
<1>2. c \in Whole \cup torn
  BY <1>1 DEF Whole, MasterIsWhole, Described
<1>3. <<k, c>> \in Taken /\ Taken' \subseteq Taken
  BY <1>1 DEF WriteMapping, Taken, JobPC
<1>4. /\ mapping' = [mapping EXCEPT ![k] = [ver |-> job.ver, cid |-> c, own |-> TRUE]]
      /\ condemned' = condemned \ {k}
      /\ UNCHANGED <<source, tree, doomed, torn>>
  BY DEF WriteMapping, sourceVars, gcVars
<1>5. Shown' = [Shown EXCEPT ![k] = c]
  BY <1>1, <1>4 DEF Shown, TypeOK
<1>6. Theirs' = Theirs \ {k}
  BY <1>1, <1>4 DEF Theirs, TypeOK, NoMap
<1>7. UNCHANGED <<Whole, Orphans>>
  BY <1>4, ViewUnchanged
<1> HIDE DEF k, c
<1> QED
  BY <1>1, <1>2, <1>3, <1>4, <1>5, <1>6, <1>7 DEF Lib!Show

LEMMA FindOrphansFinds ==
    ASSUME TypeOK, GcOK, FindOrphans
    PROVE  \E S \in SUBSET Key : Lib!FindOrphans(S)
<1>1. UNCHANGED <<source, mapping, tree, condemned, torn>> /\ pc = "idle" /\ pc' = "gc"
  BY DEF FindOrphans, sourceVars, historyVars
<1>2. \A k \in Key : mapping[k].own => Shown[k] # None /\ k \notin Theirs
  BY ConstantsOK DEF Shown, Theirs, TypeOK, NoMap
<1>3. Orphans' = {k \in Key : mapping[k].own /\ source[k] = None} /\ Orphans' # {}
  BY <1>2 DEF FindOrphans, Orphans, Shown
<1>4. Orphans = {}
  BY <1>1 DEF GcOK, GcPC, Orphans
<1>5. Taken = {} /\ UNCHANGED <<Taken, Shown, Theirs, Whole>>
  BY <1>1, ViewUnchanged DEF JobPC
<1>6. Orphans' \in SUBSET Key
  BY DEF Orphans
<1>7. Orphans' \subseteq {k \in Key : Shown[k] # None /\ k \notin Theirs /\ source[k] = None}
  BY <1>2, <1>3
<1> QED
  BY <1>1, <1>3, <1>4, <1>5, <1>6, <1>7 DEF Lib!FindOrphans

\* Whoever is led to the content that is deleted is an orphan or dead.
LEMMA CollectedReferrers ==
    ASSUME TypeOK, GcOK, LiveIsComplete, GcHand, pc = "gctree"
    PROVE  /\ cur.cid \in Content
           /\ \E k \in Orphans : Shown[k] = cur.cid
           /\ Lib!Referrers(cur.cid) \subseteq Orphans \cup condemned
           /\ {k \in Key : doomed[k] = cur.cid} = Orphans \cap Lib!Referrers(cur.cid)
<1>1. cur.cid \in Content /\ cur.live = {}
  BY DEF GcOK, GcPC
<1>2. \A k \in Key : doomed[k] = cur.cid <=> k \in Orphans /\ Shown[k] = cur.cid
  BY <1>1, ConstantsOK DEF GcOK, Orphans, Shown
<1>3. \A k \in Key : Shown[k] = cur.cid => doomed[k] = cur.cid \/ k \in condemned
  BY <1>1 DEF LiveIsComplete, GcPC, Mapped, Shown
<1> QED
  BY <1>1, <1>2, <1>3 DEF GcHand, Lib!Referrers

LEMMA GcTreeCollects ==
    ASSUME TypeOK, GcOK, LiveIsComplete, GcHand, NEW left \in SUBSET InTree, GcTree(left)
    PROVE  \E c \in Content : Lib!Collect(c)
<1> DEFINE c == cur.cid
           all == left = {} /\ \A p \in Playable : <<c, p>> \notin flying
<1>1. /\ pc = "gctree" /\ pc' = "gcblob"
      /\ left \subseteq tree[c]
      /\ tree' = [tree EXCEPT ![c] = (@ \ InTree) \cup left]
      /\ condemned' = condemned \cup {k \in Key : doomed[k] = c}
      /\ torn' = IF all THEN torn \ {c} ELSE torn \cup {c}
      /\ UNCHANGED <<source, mapping, doomed>>
  BY DEF GcTree, sourceVars, gcVars
<1>2. /\ c \in Content
      /\ \E k \in Orphans : Shown[k] = c
      /\ Lib!Referrers(c) \subseteq Orphans \cup condemned
      /\ {k \in Key : doomed[k] = c} = Orphans \cap Lib!Referrers(c)
  BY <1>1, CollectedReferrers
<1>3. UNCHANGED <<source, Shown, Theirs, Taken, Orphans>>
  BY <1>1, ViewUnchanged DEF JobPC
<1>4. condemned' = condemned \cup (Orphans \cap Lib!Referrers(c))
  BY <1>1, <1>2
<1>5. Whole' \in {Whole, Whole \ {c}} /\ (left = {} => Whole' = Whole \ {c})
  <2>1. /\ \A d \in Content \ {c} : tree'[d] = tree[d]
        /\ left = {} => "master" \notin tree'[c]
    BY <1>1, <1>2 DEF TypeOK, InTree, Playable
  <2>2. tree'[c] \subseteq tree[c]
    BY <1>1, <1>2 DEF TypeOK
  <2> QED
    BY <2>1, <2>2 DEF Whole, Playable
<1> HIDE DEF c
<1> QED
  BY <1>1, <1>2, <1>3, <1>4, <1>5 DEF Lib!Collect

\* The process ends, or a request of the job in hand fails; an upload is torn.
LEMMA FailureTears ==
    ASSUME TypeOK, JobOK, GcOK, FreshIsUnreferenced,
           ProcessEnds \/ \E others \in SUBSET Playable : RequestFails(others)
    PROVE  \/ \E c \in Content : Lib!Tear(c)
           \/ Lib!Release \/ Lib!Abandon \/ UNCHANGED Lib!vars
<1>1. /\ UNCHANGED <<source, mapping, tree, condemned>>
      /\ torn' = IF pc = "upload" THEN torn \cup {job.cid} ELSE torn
      /\ pc' = "idle"
  BY DEF ProcessEnds, RequestFails, Fails, sourceVars
<1>2. UNCHANGED <<Shown, Theirs, Whole>> /\ Taken' = {}
  BY <1>1, ViewUnchanged DEF JobPC
<1>3. pc \in JobPC => Orphans = {} /\ Orphans' = {}
  BY DEF GcOK, GcPC, JobPC, Orphans, ProcessEnds, RequestFails, Fails, gcVars
<1>4. pc \notin JobPC => Taken = {} /\ Orphans' = {}
  BY ViewUnchanged DEF Orphans, ProcessEnds, RequestFails
<1>5. CASE pc = "upload"
  <2>1. /\ job.key \in Key /\ job.cid \in Content
        /\ <<job.key, job.cid>> \in Taken
        /\ \A k \in Key : Shown[k] = job.cid => k \in condemned
    BY <1>5 DEF JobOK, JobPC, Taken, FreshIsUnreferenced, Mapped, Shown
  <2>2. Lib!Referrers(job.cid) \subseteq condemned
    BY <2>1 DEF Lib!Referrers
  <2>3. pc \in JobPC
    BY <1>5 DEF JobPC
  <2> QED
    BY <1>1, <1>2, <1>3, <1>5, <2>1, <2>2, <2>3 DEF Lib!Tear
<1>6. CASE pc \in JobPC /\ pc # "upload"
  BY <1>1, <1>2, <1>3, <1>6 DEF Lib!Release, Lib!vars
<1>7. CASE pc \notin JobPC
  BY <1>1, <1>2, <1>4, <1>7 DEF JobPC, Lib!Abandon, Lib!vars
<1> QED
  BY <1>5, <1>6, <1>7

LEMMA GcMappingHides ==
    ASSUME TypeOK, GcOK, CollectedIsCondemned, GcHand, NEW k \in Key, GcMapping(k)
    PROVE  Lib!Hide(k)
<1>1. /\ pc = "gcmap" /\ pc' = "gcmap" /\ cur.cid \in Content
      /\ doomed[k] = cur.cid /\ mapping[k].cid = cur.cid
      /\ mapping' = [mapping EXCEPT ![k] = NoMap]
      /\ doomed' = [doomed EXCEPT ![k] = None]
      /\ condemned' = condemned \ {k}
      /\ UNCHANGED <<source, tree, torn>>
  BY ConstantsOK DEF GcMapping, GcOK, GcPC, sourceVars
<1>2. k \in Orphans /\ Orphans' = Orphans \ {k}
  BY <1>1, ConstantsOK DEF Orphans, TypeOK
<1>3. Shown' = [Shown EXCEPT ![k] = None]
  BY <1>1 DEF Shown, TypeOK, NoMap
<1>4. UNCHANGED Theirs
  BY <1>1, ConstantsOK DEF Theirs, GcHand, TypeOK
<1>5. UNCHANGED <<Taken, Whole>>
  BY <1>1, ViewUnchanged DEF JobPC
<1>6. k \in condemned \/ \E j \in Key \ Orphans : Shown[j] = Shown[k]
  <2>1. CASE cur.live = {}
    BY <1>1, <2>1 DEF CollectedIsCondemned, Mapped
  <2>2. CASE cur.live # {}
    <3>1. PICK j \in cur.live : Mapped(j, cur.cid) /\ doomed[j] = None
      BY <1>1, <2>2 DEF GcHand, GcPC
    <3>2. j \in Key
      BY DEF TypeOK
    <3> QED
      BY <1>1, <3>1, <3>2 DEF Mapped, Orphans, Shown
  <2> QED
    BY <2>1, <2>2
<1> QED
  BY <1>1, <1>2, <1>3, <1>4, <1>5, <1>6 DEF Lib!Hide

LEMMA LibraryStep ==
    ASSUME TypeOK, StoreInv, GcHand, [Next]_vars
    PROVE  [Lib!Next]_(Lib!vars)
<1> USE DEF StoreInv, TreeInv, IndexInv, GcInv
<1>1. ASSUME NEW k \in Key, NEW v \in Content \cup {None}, Edit(k, v)
      PROVE  Lib!Edit(k, v)
  <2>1. UNCHANGED <<Taken, Shown, Theirs, Whole, Orphans>>
    BY <1>1, ViewUnchanged DEF Edit, gcVars
  <2> QED
    BY <1>1, <2>1 DEF Edit, historyVars, Lib!Edit
<1>2. CASE Fetch
  BY <1>2, FetchTakes DEF Lib!Next
<1>3. CASE \/ \E p \in Playable : UploadFile(p)
           \/ \E c \in Content, p \in Playable : Land(c, p)
  BY <1>3, UploadPublishes DEF Lib!Next
<1>4. CASE WriteMapping
  BY <1>4, WriteMappingShows DEF Lib!Next
<1>5. ASSUME (\E k \in Key : Begin(k)) \/ DropOldRef \/ SourceFails
      PROVE  Lib!Release \/ UNCHANGED Lib!vars
  <2>1. pc' \in {"idle", "fetch"} /\ UNCHANGED <<source, mapping, tree, doomed, torn, condemned>>
    BY <1>5 DEF Begin, DropOldRef, SourceFails, Fails, gcVars, sourceVars, historyVars
  <2> QED
    BY <2>1, ReleaseLemma
<1>6. CASE FindOrphans
  BY <1>6, FindOrphansFinds DEF Lib!Next
<1>7. CASE \E left \in SUBSET InTree : GcTree(left)
  BY <1>7, GcTreeCollects DEF Lib!Next
<1>8. CASE \E k \in Key : GcMapping(k)
  BY <1>8, GcMappingHides DEF Lib!Next
<1>9. CASE GcCut
  <2>1. /\ UNCHANGED <<source, mapping, tree, torn, condemned>>
        /\ pc \in GcPC /\ pc' = "idle" /\ Orphans' = {}
    BY <1>9 DEF GcCut, sourceVars, historyVars, Orphans
  <2>2. UNCHANGED <<Taken, Shown, Theirs, Whole>>
    BY <2>1, ViewUnchanged DEF GcPC, JobPC
  <2> QED
    BY <2>1, <2>2 DEF Lib!Abandon, Lib!Next, Lib!vars
<1>10. CASE ProcessEnds \/ \E others \in SUBSET Playable : RequestFails(others)
  BY <1>10, FailureTears DEF Lib!Next
\* The rest is the store's own business.
<1>11. CASE GcBlob \/ GcRow \/ Describe
  <2>1. UNCHANGED <<source, mapping, doomed, condemned, torn, job>>
    BY <1>11 DEF GcBlob, GcRow, Describe, sourceVars, gcVars, historyVars
  <2>2. {pc, pc'} \subseteq GcPC \/ {pc, pc'} \subseteq JobPC \ {"fetch"}
    BY <1>11 DEF GcBlob, GcRow, Describe, After, GcPC, JobPC
  <2>3. UNCHANGED <<Taken, Shown, Theirs, Orphans>>
    BY <2>1, <2>2, ViewUnchanged DEF Taken, GcPC, JobPC
  <2>4. \A c \in Content : Playable \subseteq tree[c] <=> Playable \subseteq tree'[c]
    BY <1>11 DEF GcBlob, GcRow, Describe, TypeOK, Playable
  <2> QED
    BY <2>1, <2>3, <2>4 DEF Whole, Lib!vars
<1>12. ASSUME \/ UploadEnds \/ WriteRef
              \/ (\E c \in Content : GcDecide(c)) \/ GcRefs \/ GcNext
              \/ (\E c \in Content : LeaseExpires(c)) \/ UNCHANGED vars
       PROVE  UNCHANGED Lib!vars
  <2>1. UNCHANGED <<source, mapping, tree, doomed, condemned, torn>>
    BY <1>12 DEF UploadEnds, WriteRef, GcDecide, GcRefs, GcNext,
                 LeaseExpires, vars, sourceVars, gcVars, historyVars
  <2>2. UNCHANGED Taken
    <3>1. CASE UNCHANGED <<pc, job>>
      BY <3>1, ViewUnchanged
    <3>2. CASE {pc, pc'} \subseteq JobPC \ {"fetch"} /\ UNCHANGED job
      BY <3>2 DEF Taken
    <3>3. CASE {pc, pc'} \subseteq GcPC \cup {"idle"}
      BY <3>3, ViewUnchanged DEF GcPC, JobPC
    <3> QED
      BY <1>12, <3>1, <3>2, <3>3
         DEF UploadEnds, WriteRef, GcDecide, GcRefs, GcNext,
             LeaseExpires, vars, JobPC, GcPC
  <2> QED
    BY <2>1, <2>2, ViewUnchanged DEF Lib!vars
<1> QED
  <2>1. CASE \E k \in Key : Delete(k) \/ \E c \in Content : Upload(k, c)
    BY <1>1, <2>1 DEF Delete, Upload, Lib!Next
  <2>2. CASE Lib!Release \/ UNCHANGED Lib!vars
    BY <2>2 DEF Lib!Next
  <2> QED
    BY <1>2, <1>3, <1>4, <1>5, <1>6, <1>7, <1>8, <1>9, <1>10, <1>11, <1>12, <2>1, <2>2
       DEF Next, ProcessStep, CleanupStep, FaultStep

LEMMA LibraryInit == Init => Lib!Init /\ GcHand
<1> SUFFICES ASSUME Init
             PROVE  Lib!Init /\ GcHand
  OBVIOUS
<1>1. TypeOK
  BY StoreInit
<1>2. /\ Taken = {} /\ Orphans = {}
      /\ Shown \in [Key -> Content \cup {None}]
      /\ Whole \in SUBSET Content
  BY <1>1 DEF Init, JobPC, Taken, Orphans, Shown, Whole, TypeOK, NoMap
<1>3. Theirs = {k \in Key : Shown[k] # None}
  <2>1. ASSUME NEW k \in Key
        PROVE  mapping[k] = NoMap \/ (mapping[k].cid \in Content /\ ~mapping[k].own)
    BY DEF Init
  <2>2. NoMap.cid = None /\ None \notin Content
    BY ConstantsOK DEF NoMap
  <2>3. ASSUME NEW k \in Key
        PROVE  mapping[k] # NoMap /\ ~mapping[k].own <=> mapping[k].cid # None
    BY <2>1, <2>2
  <2> QED
    BY <2>3 DEF Theirs, Shown
<1>4. \A k \in Theirs : Shown[k] \in Whole
  BY <1>1, <1>3 DEF Init, Shown, Whole, Mapped, Part, InTree, Playable, TypeOK, NoMap
<1> QED
  BY <1>1, <1>2, <1>3, <1>4 DEF Init, TypeOK, GcHand, GcPC, Lib!Init

\* Every behaviour of the store is one of the abstract library: see LibrarySpec.
THEOREM LibStoreImplementsLibrary == Spec => LibrarySpec
<1>1. Init => Lib!Init /\ GcHand
  BY LibraryInit
<1>2. TypeOK /\ StoreInv /\ GcHand /\ [Next]_vars => GcHand'
  BY GcHandStep DEF StoreInv
<1>3. TypeOK /\ StoreInv /\ GcHand /\ [Next]_vars => [Lib!Next]_(Lib!vars)
  BY LibraryStep
<1> QED
  BY <1>1, <1>2, <1>3, StoreInvariant, PTL DEF Spec, LibrarySpec, Lib!Spec

=============================================================================
