-------------------------- MODULE ContentStore_proof --------------------------
(***************************************************************************)
(* Proofs about ContentStore, for every set of keys and contents, every    *)
(* index cap and every number of edits and faults.                         *)
(***************************************************************************)
EXTENDS ContentStore, TLAPS, FiniteSetTheorems

\* What the locals of a source's processing hold at each place.
JobOK ==
    /\ IF pc \in JobPC THEN job.key \in Key /\ job.ver \in Content ELSE job = NoJob
    /\ pc \in JobPC \ {"fetch"} => job.cid \in Content
    /\ pc = "fetch" => job.stage = 1 /\ ~job.seed
    /\ pc = "upload" => job.stage \in 1..6 /\ ~job.seed
    /\ pc = "unref" => job.old \in Content /\ mapping[job.key].cid # job.old

\* What the locals of the cleanup pass hold.
GcOK ==
    /\ pc \notin GcPC => \A k \in Key : doomed[k] = None
    /\ pc \in GcPC \ {"gc"} => cur.cid \in Content
    /\ \A k \in Key : doomed[k] # None => doomed[k] = mapping[k].cid
    /\ pc \in {"gctree", "gcblob", "gcrefs", "gcrow"} => cur.live = {}

\* master.m3u8 is there only with all it leads to, unless a cleanup left it.
MasterLast ==
    /\ \A c \in Content : "master" \in tree[c] /\ c \notin broken => Playable \subseteq tree[c]
    /\ pc = "upload" => /\ job.stage > 1 => "media" \in tree[job.cid]
                        /\ job.stage > 2 => "rend" \in tree[job.cid]
                        /\ job.stage > 3 => "master" \in tree[job.cid]

MappedHasMaster ==
    /\ \A k \in Key, c \in Content : Mapped(k, c) /\ k \notin condemned => "master" \in tree[c]
    /\ pc \in {"addref", "map"} => "master" \in tree[job.cid]

\* Content being transcoded is referred to by leftovers of cut cleanups only,
\* so that its index may be started without a scan.
FreshIsUnreferenced ==
    pc = "upload" \/ (pc = "addref" /\ ~job.seed) =>
        \A k \in Key : Mapped(k, job.cid) => k \in condemned

\* The reference is there before the mapping is.
RefBeforeMapping ==
    pc = "map" /\ refs[job.cid].st = "full" => job.key \in refs[job.cid].keys

\* Whoever refers to the content in hand is an orphan, is condemned, or is in live.
LiveIsComplete ==
    pc \in GcPC \ {"gc"} =>
        \A k \in Key : Mapped(k, cur.cid) /\ k \notin condemned =>
            k \in cur.live \/ doomed[k] = cur.cid

CollectedIsCondemned ==
    pc \in {"gcblob", "gcrefs", "gcrow"} \/ (pc = "gcmap" /\ cur.live = {}) =>
        \A k \in Key : Mapped(k, cur.cid) => k \in condemned

StoreInv ==
    /\ JobOK /\ GcOK /\ MasterLast /\ MappedHasMaster
    /\ IndexNeverLosesRef /\ FreshIsUnreferenced /\ RefBeforeMapping
    /\ LiveIsComplete /\ CollectedIsCondemned

-----------------------------------------------------------------------------
(* The reverse index. *)

RefsType == [st : {"none", "full", "over"}, keys : SUBSET Key]

LEMMA IndexLemma ==
    ASSUME NEW S \in SUBSET Key
    PROVE  /\ Index(S) \in RefsType
           /\ Index(S).st = "full" => Index(S).keys = S
           /\ Index(S).st # "none"
           /\ Cardinality(Index(S).keys) <= MaxIndexedRefs
<1>1. Cardinality({}) = 0 /\ MaxIndexedRefs \in Nat
  BY FS_EmptySet, ConstantsOK
<1>2. IsFiniteSet(S)
  BY ConstantsOK, FS_Subset
<1>3. Cardinality(S) \in Nat
  BY <1>2, FS_CardinalityType
<1> QED
  BY <1>1, <1>3 DEF Index, RefsType

LEMMA NoRefsType == NoRefs \in RefsType /\ Cardinality(NoRefs.keys) <= MaxIndexedRefs
BY FS_EmptySet, ConstantsOK DEF NoRefs, RefsType

RefsOK ==
    /\ refs \in [Content -> RefsType]
    /\ \A c \in Content : Cardinality(refs[c].keys) <= MaxIndexedRefs

LEMMA AddRefLemma ==
    ASSUME RefsOK, NEW c \in Content, NEW k \in Key, NEW seed \in BOOLEAN, AddRef(c, k, seed)
    PROVE  /\ RefsOK'
           /\ \A d \in Content \ {c} : refs'[d] = refs[d]
           /\ refs'[c].st = "full" =>
                /\ k \in refs'[c].keys
                /\ refs[c].st = "full" => refs[c].keys \subseteq refs'[c].keys
                /\ refs[c].st = "none" /\ seed =>
                    FindMappingsForContentID(c) \subseteq refs'[c].keys
<1> DEFINE S == {k} \cup IF refs[c].st = "none" /\ seed THEN FindMappingsForContentID(c)
                                                        ELSE refs[c].keys
<1>1. S \in SUBSET Key
  BY DEF RefsOK, RefsType, FindMappingsForContentID
<1>2. CASE refs[c].st = "over" \/ k \in refs[c].keys
  BY <1>2 DEF AddRef, RefsOK, RefsType
<1>3. CASE ~(refs[c].st = "over" \/ k \in refs[c].keys)
  <2>1. refs' = [refs EXCEPT ![c] = Index(S)]
    BY <1>3 DEF AddRef
  <2> HIDE DEF S
  <2>2. RefsOK'
    BY <1>1, <2>1, IndexLemma DEF RefsOK
  <2>3. refs'[c] = Index(S) /\ \A d \in Content \ {c} : refs'[d] = refs[d]
    BY <2>1 DEF RefsOK
  <2>4. refs'[c].st = "full" => refs'[c].keys = S
    BY <1>1, <2>3, IndexLemma
  <2> QED
    BY <2>2, <2>3, <2>4 DEF S
<1> QED
  BY <1>2, <1>3

LEMMA RemoveRefLemma ==
    ASSUME RefsOK, NEW c \in Content, NEW k \in Key, RemoveRef(c, k)
    PROVE  /\ RefsOK'
           /\ \A d \in Content \ {c} : refs'[d] = refs[d]
           /\ refs'[c].st = "full" => refs[c].st = "full" /\ refs[c].keys \ {k} \subseteq refs'[c].keys
<1>1. CASE refs[c].st = "full" /\ k \in refs[c].keys
  <2>1. refs[c].keys \ {k} \in SUBSET Key
    BY DEF RefsOK, RefsType
  <2> QED
    BY <1>1, <2>1, IndexLemma DEF RemoveRef, RefsOK
<1>2. CASE ~(refs[c].st = "full" /\ k \in refs[c].keys)
  BY <1>2 DEF RemoveRef, RefsOK
<1> QED
  BY <1>1, <1>2

LEMMA ListRefsLemma ==
    ASSUME RefsOK, NEW c \in Content, ListRefs(c)
    PROVE  /\ RefsOK'
           /\ ListedRefs(c) \in SUBSET Key
           /\ \A d \in Content \ {c} : refs'[d] = refs[d]
           /\ refs[c].st # "full" => ListedRefs(c) = FindMappingsForContentID(c)
           /\ refs'[c].st = "full" => refs'[c].keys = ListedRefs(c)
<1>1. FindMappingsForContentID(c) \in SUBSET Key
  BY DEF FindMappingsForContentID
<1>2. CASE refs[c].st = "full"
  BY <1>2 DEF ListRefs, ListedRefs, RefsOK, RefsType
<1>3. CASE refs[c].st # "full"
  BY <1>1, <1>3, IndexLemma DEF ListRefs, ListedRefs, RefsOK
<1> QED
  BY <1>2, <1>3

-----------------------------------------------------------------------------
(* Type correctness. *)

LEMMA TypeStep ==
    ASSUME TypeOK, JobOK, GcOK, [Next]_vars
    PROVE  TypeOK'
<1> USE DEF TypeOK, JobPC, GcPC
<1>0. RefsOK /\ (RefsOK' <=> /\ refs' \in [Content -> [st : {"none", "full", "over"}, keys : SUBSET Key]]
                             /\ \A c \in Content : Cardinality(refs'[c].keys) <= MaxIndexedRefs)
  BY DEF RefsOK, RefsType
<1>1. ASSUME NEW k \in Key, NEW v \in Content \cup {None}, Edit(k, v)
      PROVE  TypeOK'
  BY <1>0, <1>1, ConstantsOK
     DEF Edit, gcVars, historyVars
<1>2. ASSUME NEW k \in Key, Begin(k)
      PROVE  TypeOK'
  <2>1. source[k] \in Content /\ mapping[k].cid \in Content \cup {None}
    BY <1>2 DEF Begin, NoMap
  <2>2. job' \in [key : Key \cup {None}, ver : Content \cup {None}, cid : Content \cup {None},
                  old : Content \cup {None}, seed : BOOLEAN, stage : 1..7]
    BY <1>2, <2>1 DEF Begin, NewJob
  <2> QED
    BY <1>0, <1>2, <2>2 DEF Begin, gcVars, historyVars, sourceVars
<1>3. ASSUME Fetch
      PROVE  TypeOK'
  <2>1. source[job.key] \in Content
    BY <1>3 DEF Fetch, JobOK
  <2>2. job' \in [key : Key \cup {None}, ver : Content \cup {None}, cid : Content \cup {None},
                  old : Content \cup {None}, seed : BOOLEAN, stage : 1..7]
    <3>1. CASE job' = NoJob
      BY <3>1 DEF NoJob
    <3>2. CASE job' = [job EXCEPT !.cid = source[job.key]]
      BY <2>1, <3>2
    <3>3. CASE job' = [job EXCEPT !.cid = source[job.key], !.seed = TRUE]
      BY <2>1, <3>3
    <3> QED
      BY <1>3, <3>1, <3>2, <3>3 DEF Fetch
  <2> QED
    BY <1>0, <1>3, <2>1, <2>2 DEF Fetch, gcVars, historyVars, sourceVars
<1>4. ASSUME UploadStage
      PROVE  TypeOK'
  BY <1>0, <1>4, ConstantsOK
     DEF UploadStage, Stage, Part, InTree, JobOK, gcVars, sourceVars
<1>5. ASSUME WriteRef
      PROVE  TypeOK'
  BY <1>0, <1>5, AddRefLemma, ConstantsOK
     DEF WriteRef, JobOK, gcVars, historyVars, sourceVars
<1>6. ASSUME WriteMapping
      PROVE  TypeOK'
  BY <1>0, <1>6, ConstantsOK
     DEF WriteMapping, JobOK, gcVars, sourceVars
<1>7. ASSUME DropOldRef
      PROVE  TypeOK'
  BY <1>0, <1>7, RemoveRefLemma, ConstantsOK
     DEF DropOldRef, JobOK, gcVars, historyVars, sourceVars
<1>8. ASSUME Finish
      PROVE  TypeOK'
  BY <1>0, <1>8, ConstantsOK
     DEF Finish, LeaseReleased, NoJob, NoTomb, JobOK, gcVars, historyVars, sourceVars
<1>9. ASSUME SourceFails
      PROVE  TypeOK'
  BY <1>0, <1>9, ConstantsOK
     DEF SourceFails, LeaseReleased, Failed, NoTomb, NoJob, JobOK, gcVars, historyVars, sourceVars
<1>10. ASSUME FindOrphans
       PROVE  TypeOK'
  BY <1>0, <1>10, ConstantsOK
     DEF FindOrphans, NoMap, historyVars, sourceVars
<1>11. ASSUME NEW c \in Content, GcDecide(c)
       PROVE  TypeOK'
  BY <1>0, <1>11, ListRefsLemma, ConstantsOK
     DEF GcDecide, VerifyLiveRefs, historyVars, sourceVars
<1>12. ASSUME GcTree
       PROVE  TypeOK'
  BY <1>0, <1>12, ConstantsOK
     DEF GcTree, DeleteTree, gcVars, GcOK, sourceVars
<1>13. ASSUME GcBlob
       PROVE  TypeOK'
  BY <1>0, <1>13, ConstantsOK
     DEF GcBlob, gcVars, historyVars, sourceVars
<1>14. ASSUME GcRefs
       PROVE  TypeOK'
  BY <1>0, <1>14, NoRefsType, ConstantsOK
     DEF GcRefs, RefsOK, gcVars, historyVars, sourceVars
<1>15. ASSUME GcRow
       PROVE  TypeOK'
  BY <1>0, <1>15, ConstantsOK
     DEF GcRow, gcVars, historyVars, sourceVars
<1>16. ASSUME NEW k \in Key, GcMapping(k)
       PROVE  TypeOK'
  BY <1>0, <1>16, ConstantsOK
     DEF GcMapping, sourceVars
<1>17. ASSUME GcNext
       PROVE  TypeOK'
  BY <1>0, <1>17, IndexLemma, ConstantsOK
     DEF GcNext, RefsOK, NoCur, historyVars, sourceVars
<1>18. ASSUME NEW c \in Content, LeaseExpires(c)
       PROVE  TypeOK'
  BY <1>0, <1>18, ConstantsOK
     DEF LeaseExpires, gcVars, historyVars, sourceVars
<1>19. ASSUME RequestFails
       PROVE  TypeOK'
  <2>1. job.key \in Key /\ job.ver \in Content
    BY <1>19 DEF RequestFails, JobOK
  <2>2. tomb' \in [Key -> [ver : Content, n : Nat] \cup {NoTomb}]
    BY <1>19, <2>1 DEF RequestFails, Failed, NoTomb
  <2>3. lease' \in SUBSET Content /\ faults' \in 0..MaxFaults
    BY <1>19, ConstantsOK DEF RequestFails, LeaseReleased, Fault
  <2> QED
    BY <1>0, <1>19, <2>2, <2>3
       DEF RequestFails, NoJob, gcVars, historyVars, sourceVars
<1>20. ASSUME DropOldRefFails
       PROVE  TypeOK'
  BY <1>0, <1>20, ConstantsOK
     DEF DropOldRefFails, Fault, gcVars, historyVars, sourceVars
<1>21. ASSUME ClearFails
       PROVE  TypeOK'
  BY <1>0, <1>21, ConstantsOK
     DEF ClearFails, LeaseReleased, Fault, NoJob, gcVars, historyVars, sourceVars
<1>22. ASSUME RunCut
       PROVE  TypeOK'
  BY <1>0, <1>22, ConstantsOK
     DEF RunCut, LeaseReleased, Fault, NoJob, gcVars, historyVars, sourceVars
<1>23. ASSUME GcCut
       PROVE  TypeOK'
  BY <1>0, <1>23, ConstantsOK
     DEF GcCut, Fault, NoCur, historyVars, sourceVars
<1>24. ASSUME NEW remaining \in SUBSET InTree, GcTreePartly(remaining)
       PROVE  TypeOK'
  <2>1. cur.cid \in Content
    BY <1>24 DEF GcTreePartly, GcOK
  <2>2. tree' \in [Content -> SUBSET Part]
    BY <1>24, <2>1 DEF GcTreePartly, DeleteTree, Part
  <2>3. /\ lease' \in SUBSET Content /\ faults' \in 0..MaxFaults
        /\ condemned' \in SUBSET Key /\ broken' \in SUBSET Content
    BY <1>24, <2>1, ConstantsOK DEF GcTreePartly, DeleteTree, Fault
  <2>4. /\ pc' \in {"idle", "gcblob"}
        /\ doomed' \in [Key -> Content \cup {None}]
        /\ cur' \in [cid : Content \cup {None}, live : SUBSET Key, listed : SUBSET Key]
    BY <1>24 DEF GcTreePartly, NoCur, gcVars
  <2> QED
    BY <1>0, <1>24, <2>2, <2>3, <2>4 DEF GcTreePartly, sourceVars
<1>25. CASE UNCHANGED vars
  BY <1>25 DEF vars
<1>26. ASSUME NEW k \in Key, LookupFails(k)
       PROVE  TypeOK'
  <2>1. source[k] \in Content
    BY <1>26 DEF LookupFails
  <2>2. tomb' \in [Key -> [ver : Content, n : Nat] \cup {NoTomb}]
    BY <1>26, <2>1 DEF LookupFails, Failed, NoTomb
  <2>3. faults' \in 0..MaxFaults
    BY <1>26, ConstantsOK DEF LookupFails, Fault
  <2> QED
    BY <1>0, <1>26, <2>2, <2>3 DEF LookupFails, gcVars, historyVars, sourceVars
<1> HIDE DEF TypeOK, JobPC, GcPC
<1> QED
  BY <1>1, <1>2, <1>3, <1>4, <1>5, <1>6, <1>7, <1>8, <1>9, <1>10, <1>11, <1>12,
     <1>13, <1>14, <1>15, <1>16, <1>17, <1>18, <1>19, <1>20, <1>21, <1>22, <1>23,
     <1>24, <1>25, <1>26
     DEF Next, Upload, Delete, ProcessStep, CleanupStep, FaultStep

-----------------------------------------------------------------------------
(* The store. *)

LEMMA StoreStep ==
    ASSUME TypeOK, StoreInv, [Next]_vars
    PROVE  StoreInv'
<1>0. TypeOK' /\ RefsOK
  BY TypeStep DEF StoreInv, TypeOK, RefsOK, RefsType
<1> USE DEF StoreInv, JobOK, GcOK, MasterLast, MappedHasMaster, IndexNeverLosesRef,
            FreshIsUnreferenced, RefBeforeMapping, LiveIsComplete, CollectedIsCondemned,
            Mapped, JobPC, GcPC
<1>1. ASSUME NEW k \in Key, NEW v \in Content \cup {None}, Edit(k, v)
      PROVE  StoreInv'
  BY <1>0, <1>1
     DEF Edit, gcVars, historyVars
<1>2. ASSUME NEW k \in Key, Begin(k)
      PROVE  StoreInv'
  BY <1>0, <1>2
     DEF TypeOK, Begin, NewJob, gcVars, historyVars, sourceVars
<1>3. ASSUME Fetch
      PROVE  StoreInv'
  <2> DEFINE c == source[job.key]
  <2>1. c \in Content /\ job.key \in Key
    BY <1>3 DEF TypeOK, Fetch
  <2>2. /\ UNCHANGED <<mapping, tree, refs, doomed, cur, condemned, broken>>
        /\ pc = "fetch"
    BY <1>3 DEF Fetch, gcVars, historyVars
  <2>3. CASE pc' = "addref" /\ "master" \in tree[c] /\ job' = [job EXCEPT !.cid = c, !.seed = TRUE]
    <3>1. /\ job'.key = job.key /\ job'.ver = job.ver
          /\ job'.cid = c /\ job'.seed
      BY <2>3 DEF TypeOK
    <3> QED
      BY <2>1, <2>2, <2>3, <3>1 DEF TypeOK
  <2>4. CASE pc' = "idle" /\ job' = NoJob
    BY <2>2, <2>4
  <2>5. CASE pc' = "upload" /\ "master" \notin tree[c] /\ job' = [job EXCEPT !.cid = c]
    <3>1. /\ job'.key = job.key /\ job'.ver = job.ver /\ job'.cid = c
          /\ job'.seed = job.seed /\ job'.stage = job.stage
      BY <2>5 DEF TypeOK
    <3>2. ~job.seed /\ job.stage = 1
      BY <2>2
    <3> QED
      BY <2>1, <2>2, <2>5, <3>1, <3>2 DEF TypeOK
  <2> QED
    BY <1>3, <2>3, <2>4, <2>5 DEF Fetch
<1>4. ASSUME UploadStage
      PROVE  StoreInv'
  BY <1>0, <1>4
     DEF TypeOK, UploadStage, Stage, Part, InTree, Playable, gcVars, sourceVars
<1>5. ASSUME WriteRef
      PROVE  StoreInv'
  <2>1. /\ job.key \in Key /\ job.cid \in Content /\ job.seed \in BOOLEAN
        /\ pc = "addref" /\ pc' = "map"
        /\ UNCHANGED <<mapping, tree, job, doomed, cur, condemned, broken>>
    BY <1>5 DEF TypeOK, WriteRef, gcVars, historyVars
  <2>2. /\ \A d \in Content \ {job.cid} : refs'[d] = refs[d]
        /\ refs'[job.cid].st = "full" =>
            /\ job.key \in refs'[job.cid].keys
            /\ refs[job.cid].st = "full" => refs[job.cid].keys \subseteq refs'[job.cid].keys
            /\ refs[job.cid].st = "none" /\ job.seed =>
                FindMappingsForContentID(job.cid) \subseteq refs'[job.cid].keys
    BY <1>5, <1>0, <2>1, AddRefLemma DEF WriteRef
  <2>3. refs[job.cid].st = "over" => refs'[job.cid].st # "full"
    BY <1>5, <2>1 DEF WriteRef, AddRef, TypeOK
  <2>4. ASSUME NEW k \in Key, NEW c \in Content, Mapped(k, c), k \notin condemned,
               refs'[c].st = "full"
        PROVE  k \in refs'[c].keys
    <3>1. CASE c # job.cid
      BY <2>2, <2>4, <3>1
    <3>2. CASE c = job.cid
      BY <2>1, <2>2, <2>3, <2>4, <3>2 DEF TypeOK, FindMappingsForContentID
    <3> QED
      BY <3>1, <3>2
  <2> QED
    BY <2>1, <2>2, <2>4
<1>6. ASSUME WriteMapping
      PROVE  StoreInv'
  BY <1>0, <1>6
     DEF TypeOK, WriteMapping, gcVars, sourceVars
<1>7. ASSUME DropOldRef
      PROVE  StoreInv'
  BY <1>0, <1>7, RemoveRefLemma
     DEF TypeOK, DropOldRef, gcVars, historyVars, sourceVars
<1>8. ASSUME Finish
      PROVE  StoreInv'
  BY <1>0, <1>8
     DEF TypeOK, Finish, NoJob, gcVars, historyVars, sourceVars
<1>9. ASSUME SourceFails
      PROVE  StoreInv'
  BY <1>0, <1>9
     DEF TypeOK, SourceFails, NoJob, gcVars, historyVars, sourceVars
<1>10. ASSUME FindOrphans
       PROVE  StoreInv'
  BY <1>0, <1>10
     DEF TypeOK, FindOrphans, historyVars, sourceVars
<1>11. ASSUME NEW c \in Content, GcDecide(c)
       PROVE  StoreInv'
   <2>1. /\ \A d \in Content \ {c} : refs'[d] = refs[d]
         /\ refs[c].st # "full" => ListedRefs(c) = FindMappingsForContentID(c)
         /\ refs'[c].st = "full" => refs'[c].keys = ListedRefs(c)
    BY <1>11, <1>0, ListRefsLemma DEF GcDecide
  <2>2. \A k \in Key : Mapped(k, c) /\ k \notin condemned => k \in ListedRefs(c)
    BY <2>1 DEF FindMappingsForContentID, ListedRefs
  <2>3. /\ pc = "gc" /\ pc' \in {"gctree", "gcmap"}
        /\ pc' = IF VerifyLiveRefs(c) = {} THEN "gctree" ELSE "gcmap"
        /\ cur'.cid = c /\ cur'.live = VerifyLiveRefs(c)
        /\ UNCHANGED <<mapping, tree, job, doomed, condemned, broken>>
    BY <1>11 DEF GcDecide, historyVars
  <2>4. \A k \in Key : Mapped(k, c) /\ k \notin condemned =>
            k \in VerifyLiveRefs(c) \/ doomed[k] = c
    BY <2>2 DEF VerifyLiveRefs
  <2>5. IndexNeverLosesRef'
    BY <2>1, <2>2, <2>3
  <2> QED
    BY <2>3, <2>4, <2>5
<1>12. ASSUME GcTree
       PROVE  StoreInv'
  BY <1>0, <1>12
     DEF TypeOK, GcTree, DeleteTree, InTree, Playable, gcVars, sourceVars
<1>13. ASSUME GcBlob
       PROVE  StoreInv'
  BY <1>0, <1>13
     DEF TypeOK, GcBlob, Playable, gcVars, historyVars, sourceVars
<1>14. ASSUME GcRefs
       PROVE  StoreInv'
  BY <1>0, <1>14, NoRefsType
     DEF TypeOK, GcRefs, NoRefs, gcVars, historyVars, sourceVars
<1>15. ASSUME GcRow
       PROVE  StoreInv'
  BY <1>0, <1>15
     DEF TypeOK, GcRow, Playable, gcVars, historyVars, sourceVars
<1>16. ASSUME NEW k \in Key, GcMapping(k)
       PROVE  StoreInv'
  BY <1>0, <1>16, ConstantsOK
     DEF TypeOK, GcMapping, NoMap, sourceVars
<1>17. ASSUME GcNext
       PROVE  StoreInv'
  BY <1>0, <1>17, IndexLemma
     DEF TypeOK, RefsOK, GcNext, NoCur, historyVars, sourceVars
<1>18. ASSUME NEW c \in Content, LeaseExpires(c)
       PROVE  StoreInv'
  BY <1>0, <1>18
     DEF LeaseExpires, gcVars, historyVars, sourceVars
<1>19. ASSUME RequestFails
       PROVE  StoreInv'
  BY <1>0, <1>19
     DEF TypeOK, RequestFails, NoJob, gcVars, historyVars, sourceVars
<1>20. ASSUME DropOldRefFails
       PROVE  StoreInv'
  BY <1>0, <1>20
     DEF TypeOK, DropOldRefFails, gcVars, historyVars, sourceVars
<1>21. ASSUME ClearFails
       PROVE  StoreInv'
  BY <1>0, <1>21
     DEF TypeOK, ClearFails, NoJob, gcVars, historyVars, sourceVars
<1>22. ASSUME RunCut
       PROVE  StoreInv'
  BY <1>0, <1>22
     DEF TypeOK, RunCut, NoJob, gcVars, historyVars, sourceVars
<1>23. ASSUME GcCut
       PROVE  StoreInv'
  BY <1>0, <1>23
     DEF TypeOK, GcCut, NoCur, historyVars, sourceVars
<1>24. ASSUME NEW remaining \in SUBSET InTree, GcTreePartly(remaining)
       PROVE  StoreInv'
  BY <1>0, <1>24
     DEF TypeOK, GcTreePartly, DeleteTree, InTree, Playable, NoCur, gcVars, sourceVars
<1>25. CASE UNCHANGED vars
  BY <1>25 DEF vars
<1>26. ASSUME NEW k \in Key, LookupFails(k)
       PROVE  StoreInv'
  BY <1>0, <1>26
     DEF TypeOK, LookupFails, gcVars, historyVars, sourceVars
<1> HIDE DEF StoreInv
<1> QED
  BY <1>0, <1>1, <1>2, <1>3, <1>4, <1>5, <1>6, <1>7, <1>8, <1>9, <1>10, <1>11,
     <1>12, <1>13, <1>14, <1>15, <1>16, <1>17, <1>18, <1>19, <1>20, <1>21, <1>22,
     <1>23, <1>24, <1>25, <1>26
     DEF Next, Upload, Delete, ProcessStep, CleanupStep, FaultStep

LEMMA StoreInit == Init => TypeOK /\ StoreInv
<1> SUFFICES ASSUME Init
             PROVE  TypeOK /\ StoreInv
  OBVIOUS
<1>1. RefsOK
  BY NoRefsType DEF Init, RefsOK
<1>2. TypeOK
  <2>1. mapping \in [Key -> [ver : Content, cid : Content, own : BOOLEAN] \cup {NoMap}]
    <3>1. [ver : Content, cid : Content, own : {FALSE}]
            \subseteq [ver : Content, cid : Content, own : BOOLEAN]
      OBVIOUS
    <3> QED
      BY <3>1 DEF Init
  <2>2. /\ tree \in [Content -> SUBSET Part]
        /\ tomb \in [Key -> [ver : Content, n : Nat] \cup {NoTomb}]
        /\ source \in [Key -> Content \cup {None}]
        /\ doomed \in [Key -> Content \cup {None}]
    BY DEF Init
  <2>3. /\ job \in [key : Key \cup {None}, ver : Content \cup {None},
                   cid : Content \cup {None}, old : Content \cup {None},
                   seed : BOOLEAN, stage : 1..7]
        /\ cur \in [cid : Content \cup {None}, live : SUBSET Key, listed : SUBSET Key]
    BY DEF Init, NoJob, NoCur
  <2>4. edits \in 0..MaxEdits /\ faults \in 0..MaxFaults
    BY ConstantsOK DEF Init
  <2> QED
    BY <1>1, <2>1, <2>2, <2>3, <2>4 DEF Init, TypeOK, RefsOK, RefsType
<1>3. \A k \in Key, c \in Content : Mapped(k, c) => tree[c] = Part
  BY DEF Init, Mapped
<1>4. JobOK /\ GcOK
  BY DEF Init, JobOK, GcOK, JobPC, GcPC, NoCur, NoJob
<1>5. MasterLast /\ MappedHasMaster
  BY <1>3 DEF Init, MasterLast, MappedHasMaster, Part, InTree, Playable
<1>6. IndexNeverLosesRef
  BY DEF Init, IndexNeverLosesRef, NoRefs
<1>7. FreshIsUnreferenced /\ RefBeforeMapping /\ LiveIsComplete /\ CollectedIsCondemned
  BY DEF Init, FreshIsUnreferenced, RefBeforeMapping, LiveIsComplete,
         CollectedIsCondemned, GcPC
<1> QED
  BY <1>2, <1>4, <1>5, <1>6, <1>7 DEF StoreInv

LEMMA StoreInvariant == Spec => [](TypeOK /\ StoreInv)
<1>1. TypeOK /\ StoreInv /\ [Next]_vars => TypeOK' /\ StoreInv'
  BY TypeStep, StoreStep DEF StoreInv
<1> QED
  BY <1>1, StoreInit, PTL DEF Spec

\* Every variable has its type, and no index grows beyond the cap of refs.go.
THEOREM StoreTypeCorrect == Spec => []TypeOK
BY StoreInvariant, PTL

\* The reverse index never misses a live reference, through any sequence of
\* uploads, replacements, deduplications, failures and cut runs or cleanups.
THEOREM IndexIsComplete == Spec => []IndexNeverLosesRef
<1>1. StoreInv => IndexNeverLosesRef
  BY DEF StoreInv
<1> QED
  BY <1>1, StoreInvariant, PTL

\* A mapping no cut cleanup has left behind leads to a complete playable tree.
THEOREM MappingsArePlayable == Spec => []MappedIsPlayable
<1>1. StoreInv => MappedIsPlayable
  BY DEF StoreInv, MasterLast, MappedHasMaster, MappedIsPlayable
<1> QED
  BY <1>1, StoreInvariant, PTL

\* Cleanup never takes an object of a tree that a live mapping refers to.
LEMMA GcSparesStep ==
    ASSUME TypeOK, StoreInv, [Next]_vars, NEW c \in Content, NEW k \in Key,
           ~(tree[c] \subseteq tree'[c]), Mapped(k, c)
    PROVE  doomed[k] = c \/ k \in condemned
<1> USE DEF StoreInv, GcOK, LiveIsComplete, CollectedIsCondemned, GcPC
<1>1. CASE GcTree
  BY <1>1 DEF GcTree, DeleteTree, TypeOK
<1>2. CASE GcBlob
  BY <1>2 DEF GcBlob, TypeOK
<1>3. CASE GcRow
  BY <1>3 DEF GcRow, TypeOK
<1>4. ASSUME NEW remaining \in SUBSET InTree, GcTreePartly(remaining)
      PROVE  doomed[k] = c \/ k \in condemned
  BY <1>4 DEF GcTreePartly, DeleteTree, TypeOK
<1>5. CASE UploadStage
  <2>1. tree[c] \subseteq tree'[c]
    BY <1>5 DEF UploadStage, TypeOK
  <2> QED
    BY <2>1
<1>6. CASE UNCHANGED tree
  BY <1>6
<1> QED
  BY <1>1, <1>2, <1>3, <1>4, <1>5, <1>6
     DEF Next, vars, Upload, Delete, ProcessStep, CleanupStep, FaultStep, Edit, Begin,
         Fetch, WriteRef, WriteMapping, DropOldRef, Finish, SourceFails, FindOrphans,
         GcDecide, GcRefs, GcMapping, GcNext, LeaseExpires, LookupFails, RequestFails,
         DropOldRefFails, ClearFails, RunCut, GcCut

\* Whatever cleanup reads in the index, it collects only content whose mappings
\* are all orphans of this pass or leftovers of an earlier, cut one.
THEOREM GcSparesLiveContent == Spec => GcSparesReferenced
<1>1. TypeOK /\ StoreInv /\ [Next]_vars =>
        [\A c \in Content : ~(tree[c] \subseteq tree'[c]) =>
            \A k \in Key : Mapped(k, c) => doomed[k] = c \/ k \in condemned]_vars
  BY GcSparesStep
<1> QED
  BY <1>1, StoreInvariant, PTL DEF Spec, GcSparesReferenced
-----------------------------------------------------------------------------
(* The store implements Library. *)

\* What cleanup keeps a content for leads to it; what it goes for is ours, and
\* an orphan; and it is not at work while a source is.
GcHand ==
    /\ pc \in GcPC \ {"gc"} => \A k \in cur.live : Mapped(k, cur.cid) /\ doomed[k] = None
    /\ pc = "gctree" => \E k \in Key : doomed[k] = cur.cid
    /\ \A k \in Key : doomed[k] # None => mapping[k].own

LEMMA GcHandStep ==
    ASSUME TypeOK, JobOK, GcOK, GcHand, [Next]_vars
    PROVE  GcHand'
<1> USE DEF GcHand, JobPC, GcPC, Mapped
<1>1. ASSUME NEW c \in Content, GcDecide(c)
      PROVE  GcHand'
  BY <1>1 DEF GcDecide, GcOK, VerifyLiveRefs, ListedRefs, FindMappingsForContentID, TypeOK,
              historyVars
<1>2. ASSUME NEW k \in Key, GcMapping(k)
      PROVE  GcHand'
  BY <1>2, ConstantsOK DEF GcMapping, GcOK, TypeOK
<1>3. CASE FindOrphans
  BY <1>3 DEF FindOrphans
<1>4. CASE WriteMapping
  BY <1>4 DEF WriteMapping, GcOK, gcVars
<1>5. CASE GcNext \/ GcCut
  BY <1>5 DEF GcNext, GcCut, TypeOK
<1>6. ASSUME NEW remaining \in SUBSET InTree, GcTreePartly(remaining)
      PROVE  GcHand'
  BY <1>6 DEF GcTreePartly, gcVars
<1>7. CASE UNCHANGED <<mapping, cur, doomed>> /\ (pc' = "gctree" => pc = "gctree")
                                              /\ (pc' \in GcPC => pc \in GcPC \ {"gc"} \/ pc' = "gc")
  BY <1>7
<1> QED
  BY <1>1, <1>2, <1>3, <1>4, <1>5, <1>6, <1>7
     DEF Next, vars, Upload, Delete, ProcessStep, CleanupStep, FaultStep, Edit, Begin,
         Fetch, UploadStage, WriteRef, DropOldRef, Finish, SourceFails, GcTree, GcBlob, GcRefs,
         GcRow, LeaseExpires, LookupFails, RequestFails, DropOldRefFails, ClearFails, RunCut,
         gcVars

\* What the library sees follows from mappings, trees, orphans and the job.
LEMMA ViewUnchanged ==
    /\ UNCHANGED mapping => UNCHANGED <<Shown, Theirs>>
    /\ UNCHANGED tree => UNCHANGED Whole
    /\ UNCHANGED doomed => UNCHANGED Orphans
    /\ UNCHANGED <<pc, job>> => UNCHANGED Taken
    /\ pc \notin JobPC \ {"fetch"} => Taken = {}
    /\ pc' \notin JobPC \ {"fetch"} => Taken' = {}
BY DEF Shown, Theirs, Whole, Orphans, Taken

\* The end of a source's processing, whatever ends it.
LEMMA ReleaseLemma ==
    ASSUME pc' \in {"idle", "fetch"}, UNCHANGED <<source, mapping, tree, doomed, broken, condemned>>
    PROVE  Lib!Release \/ UNCHANGED Lib!vars
<1>1. /\ UNCHANGED <<source, Shown, Theirs, Whole, broken, Orphans, condemned>>
      /\ Taken' = {}
  BY ViewUnchanged DEF JobPC
<1> QED
  BY <1>1 DEF Lib!Release, Lib!vars

LEMMA FetchTakes ==
    ASSUME TypeOK, JobOK, GcOK, Fetch
    PROVE  (\E k \in Key : Lib!Take(k)) \/ UNCHANGED Lib!vars
<1>1. UNCHANGED <<source, mapping, tree, doomed, broken, condemned>>
  BY DEF Fetch, sourceVars, gcVars, historyVars
<1>2. CASE pc' = "idle"
  BY <1>1, <1>2, ViewUnchanged DEF Fetch, JobPC, Lib!vars
<1>3. CASE pc' # "idle"
  <2>1. /\ UNCHANGED <<source, Shown, Theirs, Whole, broken, Orphans, condemned>>
        /\ Taken = {}
    BY <1>1, ViewUnchanged DEF Fetch, JobPC
  <2>2. Orphans = {}
    BY DEF Fetch, GcOK, GcPC, Orphans
  <2>3. job.key \in Key /\ source[job.key] # None /\ Taken' = {<<job.key, source[job.key]>>}
    BY <1>3 DEF Fetch, TypeOK, JobOK, JobPC, Taken
  <2> QED
    BY <2>1, <2>2, <2>3 DEF Lib!Take
<1> QED
  BY <1>2, <1>3

LEMMA UploadPublishes ==
    ASSUME TypeOK, JobOK, MasterLast, UploadStage
    PROVE  (\E c \in Content : Lib!Publish(c)) \/ UNCHANGED Lib!vars
<1> DEFINE c == job.cid
           p == Stage[job.stage]
<1>1. c \in Content /\ pc = "upload" /\ job.key \in Key /\ job.stage \in 1..6
  BY DEF UploadStage, JobOK, JobPC
<1>2. /\ UNCHANGED <<source, mapping, doomed, condemned>>
      /\ tree' = [tree EXCEPT ![c] = @ \cup {p}]
      /\ broken' = IF p = "master" THEN broken \ {c} ELSE broken
  BY DEF UploadStage, sourceVars, gcVars
<1>3. UNCHANGED Taken /\ <<job.key, c>> \in Taken
  BY <1>1 DEF UploadStage, Taken, JobPC, TypeOK
<1>4. UNCHANGED <<source, Shown, Theirs, Orphans, condemned>>
  BY <1>2, ViewUnchanged
<1>5. Whole' \in {Whole, Whole \cup {c}}
  BY <1>1, <1>2 DEF Whole, TypeOK
<1>6. p = "master" => Whole' = Whole \cup {c}
  BY <1>1, <1>2 DEF Whole, TypeOK, MasterLast, Stage, Playable
<1> HIDE DEF c, p
<1>7. CASE Whole' = Whole \cup {c}
  BY <1>1, <1>2, <1>3, <1>4, <1>7 DEF Lib!Publish
<1>8. CASE Whole' = Whole /\ p # "master"
  BY <1>2, <1>3, <1>4, <1>8 DEF Lib!vars
<1> QED
  BY <1>5, <1>6, <1>7, <1>8

LEMMA WriteMappingShows ==
    ASSUME TypeOK, JobOK, MasterLast, MappedHasMaster, WriteMapping
    PROVE  \E k \in Key, c \in Content : Lib!Show(k, c)
<1> DEFINE k == job.key
           c == job.cid
<1>1. k \in Key /\ c \in Content /\ job.ver \in Content /\ pc = "map"
  BY DEF WriteMapping, JobOK, JobPC
<1>2. c \in Whole \cup broken
  BY <1>1 DEF Whole, MasterLast, MappedHasMaster
<1>3. <<k, c>> \in Taken /\ UNCHANGED Taken
  BY <1>1 DEF WriteMapping, Taken, JobPC
<1>4. /\ mapping' = [mapping EXCEPT ![k] = [ver |-> job.ver, cid |-> c, own |-> TRUE]]
      /\ condemned' = condemned \ {k}
      /\ UNCHANGED <<source, tree, doomed, broken>>
  BY DEF WriteMapping, sourceVars, gcVars
<1>5. Shown' = [Shown EXCEPT ![k] = c]
  BY <1>1, <1>4 DEF Shown, TypeOK
<1>6. Theirs' = Theirs \ {k}
  BY <1>1, <1>4 DEF Theirs, TypeOK, NoMap
<1>7. UNCHANGED <<Whole, Orphans>>
  BY <1>4, ViewUnchanged
<1> HIDE DEF k, c
<1> QED
  BY <1>1, <1>2, <1>3, <1>4, <1>5, <1>6, <1>7 DEF Lib!Show

LEMMA FindOrphansFinds ==
    ASSUME TypeOK, GcOK, FindOrphans
    PROVE  \E S \in SUBSET Key : Lib!FindOrphans(S)
<1>1. UNCHANGED <<source, mapping, tree, condemned, broken>> /\ pc = "idle" /\ pc' = "gc"
  BY DEF FindOrphans, sourceVars, historyVars
<1>2. \A k \in Key : mapping[k].own => Shown[k] # None /\ k \notin Theirs
  BY ConstantsOK DEF Shown, Theirs, TypeOK, NoMap
<1>3. Orphans' = {k \in Key : mapping[k].own /\ source[k] = None} /\ Orphans' # {}
  BY <1>2 DEF FindOrphans, Orphans, Shown
<1>4. Orphans = {}
  BY <1>1 DEF GcOK, GcPC, Orphans
<1>5. Taken = {} /\ UNCHANGED <<Taken, Shown, Theirs, Whole>>
  BY <1>1, ViewUnchanged DEF JobPC
<1>6. Orphans' \in SUBSET Key
  BY DEF Orphans
<1>7. Orphans' \subseteq {k \in Key : Shown[k] # None /\ k \notin Theirs /\ source[k] = None}
  BY <1>2, <1>3
<1> QED
  BY <1>1, <1>3, <1>4, <1>5, <1>6, <1>7 DEF Lib!FindOrphans

\* Whoever is led to the content that is deleted is an orphan or dead.
LEMMA CollectedReferrers ==
    ASSUME TypeOK, GcOK, LiveIsComplete, GcHand, pc = "gctree"
    PROVE  /\ cur.cid \in Content
           /\ \E k \in Orphans : Shown[k] = cur.cid
           /\ Lib!Referrers(cur.cid) \subseteq Orphans \cup condemned
           /\ {k \in Key : doomed[k] = cur.cid} = Orphans \cap Lib!Referrers(cur.cid)
<1>1. cur.cid \in Content /\ cur.live = {}
  BY DEF GcOK, GcPC
<1>2. \A k \in Key : doomed[k] = cur.cid <=> k \in Orphans /\ Shown[k] = cur.cid
  BY <1>1, ConstantsOK DEF GcOK, Orphans, Shown
<1>3. \A k \in Key : Shown[k] = cur.cid => doomed[k] = cur.cid \/ k \in condemned
  BY <1>1 DEF LiveIsComplete, GcPC, Mapped, Shown
<1> QED
  BY <1>1, <1>2, <1>3 DEF GcHand, Lib!Referrers

LEMMA GcTreeCollects ==
    ASSUME TypeOK, GcOK, LiveIsComplete, GcHand,
           NEW remaining \in SUBSET InTree,
           \/ remaining = {} /\ GcTree
           \/ GcTreePartly(remaining)
    PROVE  \E c \in Content : Lib!Collect(c)
<1> DEFINE c == cur.cid
<1>1. /\ pc = "gctree" /\ pc' \in {"gcblob", "idle"}
      /\ DeleteTree(c, remaining)
      /\ UNCHANGED <<source, mapping>>
      /\ UNCHANGED doomed \/ (remaining # {} /\ doomed' = [k \in Key |-> None])
  BY DEF GcTree, GcTreePartly, sourceVars, gcVars
<1>2. /\ c \in Content
      /\ \E k \in Orphans : Shown[k] = c
      /\ Lib!Referrers(c) \subseteq Orphans \cup condemned
      /\ {k \in Key : doomed[k] = c} = Orphans \cap Lib!Referrers(c)
  BY <1>1, CollectedReferrers
<1>3. UNCHANGED <<source, Shown, Theirs, Taken>>
  BY <1>1, ViewUnchanged DEF JobPC
<1>4. condemned' = condemned \cup (Orphans \cap Lib!Referrers(c))
  BY <1>1, <1>2 DEF DeleteTree
<1>5. Whole' \in {Whole, Whole \ {c}} /\ (remaining = {} => Whole' = Whole \ {c})
  <2>1. tree' = [tree EXCEPT ![c] = (@ \ InTree) \cup remaining]
    BY <1>1 DEF DeleteTree
  <2>2. /\ \A d \in Content \ {c} : tree'[d] = tree[d]
        /\ remaining = {} => "master" \notin tree'[c]
    BY <1>2, <2>1 DEF TypeOK, InTree
  <2>3. remaining \subseteq tree[c]
    BY DEF GcTreePartly
  <2>4. tree'[c] \subseteq tree[c]
    BY <1>2, <2>1, <2>3 DEF TypeOK
  <2> QED
    BY <2>2, <2>4 DEF Whole, Playable
<1>6. Orphans' \in {Orphans, {}} /\ (remaining = {} => Orphans' = Orphans)
  BY <1>1 DEF Orphans
<1>7. broken' = IF remaining = {} THEN broken \ {c} ELSE broken \cup {c}
  BY <1>1 DEF DeleteTree
<1> HIDE DEF c
<1> QED
  BY <1>2, <1>3, <1>4, <1>5, <1>6, <1>7 DEF Lib!Collect

LEMMA GcMappingHides ==
    ASSUME TypeOK, GcOK, CollectedIsCondemned, GcHand, NEW k \in Key, GcMapping(k)
    PROVE  Lib!Hide(k)
<1>1. /\ pc = "gcmap" /\ pc' = "gcmap" /\ cur.cid \in Content
      /\ doomed[k] = cur.cid /\ mapping[k].cid = cur.cid
      /\ mapping' = [mapping EXCEPT ![k] = NoMap]
      /\ doomed' = [doomed EXCEPT ![k] = None]
      /\ condemned' = condemned \ {k}
      /\ UNCHANGED <<source, tree, broken>>
  BY ConstantsOK DEF GcMapping, GcOK, GcPC, sourceVars
<1>2. k \in Orphans /\ Orphans' = Orphans \ {k}
  BY <1>1, ConstantsOK DEF Orphans, TypeOK
<1>3. Shown' = [Shown EXCEPT ![k] = None]
  BY <1>1 DEF Shown, TypeOK, NoMap
<1>4. UNCHANGED Theirs
  BY <1>1, ConstantsOK DEF Theirs, GcHand, TypeOK
<1>5. UNCHANGED <<Taken, Whole>>
  BY <1>1, ViewUnchanged DEF JobPC
<1>6. k \in condemned \/ \E j \in Key \ Orphans : Shown[j] = Shown[k]
  <2>1. CASE cur.live = {}
    BY <1>1, <2>1 DEF CollectedIsCondemned, Mapped
  <2>2. CASE cur.live # {}
    <3>1. PICK j \in cur.live : Mapped(j, cur.cid) /\ doomed[j] = None
      BY <1>1, <2>2 DEF GcHand, GcPC
    <3>2. j \in Key
      BY DEF TypeOK
    <3> QED
      BY <1>1, <3>1, <3>2 DEF Mapped, Orphans, Shown
  <2> QED
    BY <2>1, <2>2
<1> QED
  BY <1>1, <1>2, <1>3, <1>4, <1>5, <1>6 DEF Lib!Hide

LEMMA LibraryStep ==
    ASSUME TypeOK, StoreInv, GcHand, [Next]_vars
    PROVE  [Lib!Next]_(Lib!vars)
<1> USE DEF StoreInv
<1>1. ASSUME NEW k \in Key, NEW v \in Content \cup {None}, Edit(k, v)
      PROVE  Lib!Edit(k, v)
  <2>1. UNCHANGED <<Taken, Shown, Theirs, Whole, Orphans>>
    BY <1>1, ViewUnchanged DEF Edit, gcVars
  <2> QED
    BY <1>1, <2>1 DEF Edit, historyVars, Lib!Edit
<1>2. CASE Fetch
  BY <1>2, FetchTakes DEF Lib!Next
<1>3. CASE UploadStage
  BY <1>3, UploadPublishes DEF Lib!Next
<1>4. CASE WriteMapping
  BY <1>4, WriteMappingShows DEF Lib!Next
<1>5. ASSUME \/ \E k \in Key : Begin(k)
             \/ Finish \/ SourceFails \/ RequestFails \/ ClearFails \/ RunCut
      PROVE  Lib!Release \/ UNCHANGED Lib!vars
  <2>1. pc' \in {"idle", "fetch"} /\ UNCHANGED <<source, mapping, tree, doomed, broken, condemned>>
    BY <1>5 DEF Begin, Finish, SourceFails, RequestFails, ClearFails, RunCut, gcVars,
                sourceVars, historyVars
  <2> QED
    BY <2>1, ReleaseLemma
<1>6. CASE FindOrphans
  BY <1>6, FindOrphansFinds DEF Lib!Next
<1>7. ASSUME NEW remaining \in SUBSET InTree,
             \/ remaining = {} /\ GcTree
             \/ GcTreePartly(remaining)
      PROVE  \E c \in Content : Lib!Collect(c)
  BY <1>7, GcTreeCollects
<1>8. ASSUME NEW k \in Key, GcMapping(k)
      PROVE  Lib!Hide(k)
  BY <1>8, GcMappingHides
<1>9. CASE GcCut
  <2>1. /\ UNCHANGED <<source, mapping, tree, broken, condemned>>
        /\ pc \in GcPC /\ pc' = "idle" /\ Orphans' = {}
    BY <1>9 DEF GcCut, sourceVars, historyVars, Orphans
  <2>2. UNCHANGED <<Taken, Shown, Theirs, Whole>>
    BY <2>1, ViewUnchanged DEF GcPC, JobPC
  <2> QED
    BY <2>1, <2>2 DEF Lib!Abandon, Lib!Next, Lib!vars
\* The rest is the store's own business.
<1>10. CASE GcBlob \/ GcRow
  <2>1. UNCHANGED <<source, mapping, doomed, condemned, broken>> /\ {pc, pc'} \subseteq GcPC
    BY <1>10 DEF GcBlob, GcRow, GcPC, sourceVars, gcVars, historyVars
  <2>2. UNCHANGED <<Taken, Shown, Theirs, Orphans>>
    BY <2>1, ViewUnchanged DEF GcPC, JobPC
  <2>3. \A c \in Content : Playable \subseteq tree[c] <=> Playable \subseteq tree'[c]
    BY <1>10 DEF GcBlob, GcRow, TypeOK, Playable
  <2> QED
    BY <2>1, <2>2, <2>3 DEF Whole, Lib!vars
<1>11. ASSUME \/ WriteRef \/ DropOldRef \/ DropOldRefFails
              \/ (\E c \in Content : GcDecide(c)) \/ GcRefs \/ GcNext
              \/ (\E c \in Content : LeaseExpires(c))
              \/ (\E k \in Key : LookupFails(k)) \/ UNCHANGED vars
       PROVE  UNCHANGED Lib!vars
  <2>1. UNCHANGED <<source, mapping, tree, doomed, condemned, broken>>
    BY <1>11 DEF WriteRef, DropOldRef, DropOldRefFails, GcDecide, GcRefs, GcNext,
                 LeaseExpires, LookupFails, vars, sourceVars, gcVars, historyVars
  <2>2. UNCHANGED Taken
    <3>1. CASE UNCHANGED <<pc, job>>
      BY <3>1, ViewUnchanged
    <3>2. CASE {pc, pc'} \subseteq JobPC \ {"fetch"} /\ UNCHANGED job
      BY <3>2 DEF Taken
    <3>3. CASE {pc, pc'} \subseteq GcPC \cup {"idle"}
      BY <3>3, ViewUnchanged DEF GcPC, JobPC
    <3> QED
      BY <1>11, <3>1, <3>2, <3>3
         DEF WriteRef, DropOldRef, DropOldRefFails, GcDecide, GcRefs, GcNext,
             LeaseExpires, LookupFails, vars, JobPC, GcPC
  <2> QED
    BY <2>1, <2>2, ViewUnchanged DEF Lib!vars
<1> QED
  <2>1. CASE \E k \in Key : Delete(k) \/ \E c \in Content : Upload(k, c)
    BY <1>1, <2>1 DEF Delete, Upload, Lib!Next
  <2>2. CASE \/ GcTree \/ \E remaining \in SUBSET InTree : GcTreePartly(remaining)
    <3>1. \E remaining \in SUBSET InTree :
              (remaining = {} /\ GcTree) \/ GcTreePartly(remaining)
      BY <2>2
    <3> QED
      BY <1>7, <3>1 DEF Lib!Next
  <2>3. CASE \E k \in Key : GcMapping(k)
    BY <1>8, <2>3 DEF Lib!Next
  <2>4. CASE Lib!Release \/ UNCHANGED Lib!vars
    BY <2>4 DEF Lib!Next
  <2> QED
    BY <1>2, <1>3, <1>4, <1>5, <1>6, <1>9, <1>10, <1>11, <2>1, <2>2, <2>3, <2>4
       DEF Next, ProcessStep, CleanupStep, FaultStep

LEMMA LibraryInit == Init => Lib!Init /\ GcHand
<1> SUFFICES ASSUME Init
             PROVE  Lib!Init /\ GcHand
  OBVIOUS
<1>1. TypeOK
  BY StoreInit
<1>2. /\ Taken = {} /\ Orphans = {}
      /\ Shown \in [Key -> Content \cup {None}]
      /\ Whole \in SUBSET Content
  BY <1>1 DEF Init, JobPC, Taken, Orphans, Shown, Whole, TypeOK, NoMap
<1>3. Theirs = {k \in Key : Shown[k] # None}
  <2>1. ASSUME NEW k \in Key
        PROVE  mapping[k] = NoMap \/ (mapping[k].cid \in Content /\ ~mapping[k].own)
    BY DEF Init
  <2>2. NoMap.cid = None /\ None \notin Content
    BY ConstantsOK DEF NoMap
  <2>3. ASSUME NEW k \in Key
        PROVE  mapping[k] # NoMap /\ ~mapping[k].own <=> mapping[k].cid # None
    BY <2>1, <2>2
  <2> QED
    BY <2>3 DEF Theirs, Shown
<1>4. \A k \in Theirs : Shown[k] \in Whole
  BY <1>1, <1>3 DEF Init, Shown, Whole, Mapped, Part, InTree, Playable, TypeOK, NoMap
<1> QED
  BY <1>1, <1>2, <1>3, <1>4 DEF Init, TypeOK, GcHand, GcPC, Lib!Init

\* Every behaviour of the store is one of the abstract library: see LibrarySpec.
THEOREM StoreImplementsLibrary == Spec => LibrarySpec
<1>1. Init => Lib!Init /\ GcHand
  BY LibraryInit
<1>2. TypeOK /\ StoreInv /\ GcHand /\ [Next]_vars => GcHand'
  BY GcHandStep DEF StoreInv
<1>3. TypeOK /\ StoreInv /\ GcHand /\ [Next]_vars => [Lib!Next]_(Lib!vars)
  BY LibraryStep
<1> QED
  BY <1>1, <1>2, <1>3, StoreInvariant, PTL DEF Spec, LibrarySpec, Lib!Spec

===============================================================================
