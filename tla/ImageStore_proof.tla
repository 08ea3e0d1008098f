--------------------------- MODULE ImageStore_proof ---------------------------
(***************************************************************************)
(* Proofs about ImageStore, for any keys, versions and sources the pair    *)
(* may be pointed at, and any number of edits, attempts and faults.        *)
(***************************************************************************)
EXTENDS ImageStore, TLAPS

-----------------------------------------------------------------------------
(* Types, and what the worker has in hand where. *)

JobOK ==
    /\ pc \in {"fetch", "map", "clear", "fail"} => job.key \in Key /\ job.ver \in Version
    /\ pc \in {"fetch", "map"} => ~Blocks(job.key, job.ver)
    /\ pc = "fail" => Attempts(job.key, job.ver) <= MaxAttempts + faults
    /\ pc = "map" => job.hash \in Version \ Bad

\* What cleanup did not see in the source is not there, or came back since.
LiveIsComplete ==
    pc = "gc" => \A k \in Under[input.prefix] \ live :
                    Here[k] = None \/ <<Location(input), k>> \in returned

ImageInv == TypeOK /\ JobOK /\ LiveIsComplete

LEMMA InputType ==
    ASSUME NEW i \in Input
    PROVE  /\ Location(i) \in Origin /\ Tag(i) \in {Tag(j) : j \in Input}
           /\ Under[i.prefix] \subseteq Key
BY ConstantsOK DEF Origin

\* The tag of a mapping names the bucket that it was hashed from.
LEMMA TagNamesLocation ==
    ASSUME NEW i, NEW j, Tag(i) = Tag(j)
    PROVE  Location(i) = Location(j)
BY DEF Tag, Location, normalizeEndpoint

TombType == {NoTomb} \cup [ver : Version, n : Nat \ {0}]

\* A bound that holds is not broken by more faults.
LEMMA CountsGrow ==
    ASSUME TypeOK, NEW f \in Nat, faults <= f
    PROVE  \A k \in Key : tomb[k].n <= MaxAttempts + f
<1> SUFFICES ASSUME NEW k \in Key
             PROVE  tomb[k].n <= MaxAttempts + f
  OBVIOUS
<1>1. MaxAttempts \in Nat /\ faults \in Nat
  BY ConstantsOK DEF TypeOK
<1>2. tomb[k].n \in Nat /\ tomb[k].n <= MaxAttempts + faults
  BY DEF TypeOK, NoTomb
<1> QED
  BY <1>1, <1>2

\* What is not blocked has an attempt left; a fault buys one more.
LEMMA AttemptLeft ==
    ASSUME TypeOK, NEW k \in Key, NEW v
    PROVE  /\ Attempts(k, v) \in Nat \ {0}
           /\ ~Blocks(k, v) => Attempts(k, v) <= MaxAttempts + faults
           /\ faults' = faults + 1 => Attempts(k, v) <= MaxAttempts + faults'
<1>1. MaxAttempts \in Nat \ {0} /\ faults \in Nat
  BY ConstantsOK DEF TypeOK
<1>2. tomb[k].n \in Nat /\ tomb[k].n <= MaxAttempts + faults
  BY DEF TypeOK, NoTomb
<1> QED
  BY <1>1, <1>2 DEF Attempts, Blocks

LEMMA InitInv ==
    ASSUME Init
    PROVE  ImageInv
<1>1. TypeOK
  BY ConstantsOK DEF Init, TypeOK, NoMap, NoTomb, NoJob
<1>2. JobOK /\ LiveIsComplete
  BY DEF Init, JobOK, LiveIsComplete
<1> QED
  BY <1>1, <1>2 DEF ImageInv

LEMMA OwnersInv ==
    ASSUME ImageInv, NEW s \in Origin, NEW k \in Key,
           Delete(s, k) \/ \E v \in Version : Upload(s, k, v)
    PROVE  ImageInv'
<1> USE DEF ImageInv
<1>1. /\ source' \in [Origin -> [Key -> Version \cup {None}]]
      /\ edits' \in 0..MaxEdits
  <2>1. edits' \in 0..MaxEdits
    BY ConstantsOK DEF Delete, Upload, TypeOK, Edit
  <2>2. ASSUME NEW v \in Version \cup {None}, source' = [source EXCEPT ![s][k] = v]
        PROVE  source' \in [Origin -> [Key -> Version \cup {None}]]
    BY <2>2 DEF TypeOK
  <2>3. \E v \in Version \cup {None} : source' = [source EXCEPT ![s][k] = v]
    BY DEF Delete, Upload
  <2> QED
    BY <2>1, <2>2, <2>3
<1>2. replaced' \in SUBSET (Key \X Version)
  <2>1. Changed(s, k)
    BY DEF Delete, Upload
  <2>2. pc = "fetch" => job.ver \in Version
    BY DEF JobOK
  <2> QED
    BY <2>1, <2>2 DEF Changed, TypeOK
<1>3. returned' \in SUBSET (Origin \X Key) /\ returned \subseteq returned'
  BY DEF Delete, Upload, TypeOK
<1>4. UNCHANGED <<input, mapping, tomb, pc, job, live, todo, faults>>
  BY DEF Delete, Upload, gcVars
<1>5. TypeOK'
  BY <1>1, <1>2, <1>3, <1>4 DEF TypeOK
<1>6. JobOK'
  BY <1>4 DEF JobOK, Blocks, Attempts
<1>7. LiveIsComplete'
  <2> SUFFICES ASSUME pc = "gc", NEW j \in Under[input.prefix] \ live
               PROVE  Here'[j] = None \/ <<Location(input), j>> \in returned'
    BY <1>4 DEF LiveIsComplete
  <2>1. j \in Key /\ Location(input) \in Origin
    BY InputType DEF TypeOK
  <2>2. Here[j] = None \/ <<Location(input), j>> \in returned
    BY DEF LiveIsComplete
  <2>3. CASE Delete(s, k)
    BY <1>3, <1>4, <2>1, <2>2, <2>3 DEF Delete, Here, TypeOK
  <2>4. ASSUME NEW v \in Version, Upload(s, k, v)
        PROVE  Here'[j] = None \/ <<Location(input), j>> \in returned'
    <3>1. CASE s = Location(input) /\ k = j
      BY <2>4, <3>1 DEF Upload
    <3>2. CASE ~(s = Location(input) /\ k = j)
      BY <1>3, <1>4, <2>1, <2>2, <2>4, <3>2 DEF Upload, Here, TypeOK
    <3> QED
      BY <3>1, <3>2
  <2> QED
    BY <2>3, <2>4
<1> QED
  BY <1>5, <1>6, <1>7

LEMMA ProcessInv ==
    ASSUME ImageInv, ProcessStep \/ RequestFails \/ RunCut \/ \E k \in Key : Begin(k) \/ LookupFails(k)
    PROVE  ImageInv'
<1> USE DEF ImageInv
<1>1. ASSUME NEW k \in Key, Begin(k)
      PROVE  ImageInv'
  <2>1. Here[k] \in Version
    BY <1>1, InputType DEF Begin, TypeOK, Here
  <2>2. TypeOK'
    BY <1>1, <2>1 DEF Begin, TypeOK, gcVars, historyVars
  <2>3. JobOK' /\ LiveIsComplete'
    BY <1>1, <2>1 DEF Begin, JobOK, LiveIsComplete, Blocks
  <2> QED
    BY <2>2, <2>3
<1>2. CASE Hash
  <2>1. TypeOK'
    BY <1>2 DEF Hash, TypeOK, JobOK, gcVars, historyVars
  <2>2. JobOK' /\ LiveIsComplete'
    <3>1. /\ pc = "fetch" /\ UNCHANGED <<source, input, tomb, live, faults, returned>>
          /\ \/ pc' = "map" /\ job'.hash \in Version \ Bad
                /\ job'.key = job.key /\ job'.ver = job.ver
             \/ pc' = "fail" /\ job' = job
      BY <1>2 DEF Hash, gcVars, historyVars, TypeOK
    <3>2. Attempts(job.key, job.ver) <= MaxAttempts + faults
      BY <3>1, AttemptLeft DEF JobOK
    <3> QED
      BY <3>1, <3>2 DEF JobOK, LiveIsComplete, Blocks, Attempts
  <2> QED
    BY <2>1, <2>2
<1>3. ASSUME pc = "map"
      PROVE  [mapping EXCEPT ![job.key] = NewMapping] \in
                [Key -> {NoMap} \cup [tag : {Tag(i) : i \in Input}, ver : Version,
                                      hash : Version \ Bad]]
  BY <1>3, InputType DEF TypeOK, JobOK, NewMapping
<1>4. CASE WriteMapping
  <2>1. TypeOK'
    BY <1>3, <1>4 DEF WriteMapping, TypeOK, gcVars, historyVars
  <2>2. JobOK' /\ LiveIsComplete'
    BY <1>4 DEF WriteMapping, JobOK, LiveIsComplete, Blocks
  <2> QED
    BY <2>1, <2>2
<1>5. CASE RequestFails
  <2>1. TypeOK'
    <3>1. mapping' \in [Key -> {NoMap} \cup [tag : {Tag(i) : i \in Input}, ver : Version,
                                             hash : Version \ Bad]]
      BY <1>3, <1>5 DEF RequestFails, TypeOK
    <3>2. faults' \in 0..MaxFaults /\ faults <= faults' /\ pc' = "fail"
      BY <1>5, ConstantsOK DEF RequestFails, Fault, TypeOK
    <3>3. UNCHANGED <<source, input, tomb, job, live, todo, edits, replaced, returned>>
      BY <1>5 DEF RequestFails, gcVars, historyVars
    <3>4. \A k \in Key : tomb'[k].n <= MaxAttempts + faults'
      BY <3>2, <3>3, CountsGrow
    <3> QED
      BY <3>1, <3>2, <3>3, <3>4 DEF TypeOK
  <2>2. JobOK' /\ LiveIsComplete'
    BY <1>5, AttemptLeft DEF RequestFails, Fault, JobOK, LiveIsComplete, Blocks, Attempts
  <2> QED
    BY <2>1, <2>2
<1>6. CASE ClearTombstone
  <2>1. tomb' \in [Key -> TombType]
    BY <1>6 DEF ClearTombstone, TypeOK, TombType, JobOK
  <2>2. faults' \in 0..MaxFaults /\ faults <= faults'
    BY <1>6, ConstantsOK DEF ClearTombstone, TypeOK, Fault
  <2>5. \A k \in Key : tomb'[k].n <= MaxAttempts + faults'
    <3>1. ASSUME NEW k \in Key
          PROVE  tomb'[k].n \in {tomb[k].n, 0}
      BY <1>6 DEF ClearTombstone, JobOK, TypeOK, NoTomb
    <3>2. MaxAttempts \in Nat /\ faults' \in Nat
      BY <2>2, ConstantsOK
    <3>3. \A k \in Key : tomb[k].n <= MaxAttempts + faults'
      BY <2>2, CountsGrow
    <3> QED
      BY <3>1, <3>2, <3>3
  <2>3. pc' = "idle" /\ job' = NoJob
    BY <1>6 DEF ClearTombstone, Leave
  <2>4. UNCHANGED <<source, input, mapping, live, todo, edits, replaced, returned>>
    BY <1>6 DEF ClearTombstone, gcVars, historyVars
  <2> QED
    BY <2>1, <2>2, <2>3, <2>4, <2>5 DEF NoJob, TypeOK, TombType, JobOK, LiveIsComplete
<1>7. CASE WriteFailureTombstone
  <2>2. faults' \in 0..MaxFaults /\ faults <= faults'
    BY <1>7, ConstantsOK DEF WriteFailureTombstone, TypeOK, Fault
  <2>6. /\ job.key \in Key /\ job.ver \in Version
        /\ Attempts(job.key, job.ver) \in Nat \ {0}
        /\ Attempts(job.key, job.ver) <= MaxAttempts + faults
    BY <1>7, AttemptLeft DEF WriteFailureTombstone, JobOK
  <2>1. tomb' \in [Key -> TombType]
    BY <1>7, <2>6 DEF WriteFailureTombstone, TypeOK, TombType
  <2>5. ASSUME NEW k \in Key
        PROVE  tomb'[k].n <= MaxAttempts + faults'
    <3>1. tomb'[k].n \in {tomb[k].n, 1, Attempts(job.key, job.ver)}
      BY <1>7, <2>6 DEF WriteFailureTombstone, TypeOK
    <3>2. \A n \in {tomb[k].n, 1, Attempts(job.key, job.ver)} : n <= MaxAttempts + faults'
      <4>1. tomb[k].n <= MaxAttempts + faults'
        BY <2>2, CountsGrow
      <4>2. MaxAttempts \in Nat \ {0} /\ faults \in Nat /\ faults' \in Nat
        BY <2>2, ConstantsOK DEF TypeOK
      <4> QED
        BY <2>2, <2>6, <4>1, <4>2
    <3> QED
      BY <3>1, <3>2
  <2>3. pc' = "idle" /\ job' = NoJob
    BY <1>7 DEF WriteFailureTombstone, Leave
  <2>4. UNCHANGED <<source, input, mapping, live, todo, edits, replaced, returned>>
    BY <1>7 DEF WriteFailureTombstone, gcVars, historyVars
  <2> QED
    BY <2>1, <2>2, <2>3, <2>4, <2>5 DEF NoJob, TypeOK, TombType, JobOK, LiveIsComplete
<1>8. CASE RunCut
  <2>1. faults' \in 0..MaxFaults /\ faults <= faults' /\ pc' = "idle" /\ job' = NoJob
    BY <1>8, ConstantsOK DEF RunCut, Leave, Fault, TypeOK
  <2>2. UNCHANGED <<source, input, mapping, tomb, live, todo, edits, replaced, returned>>
    BY <1>8 DEF RunCut, gcVars, historyVars
  <2>3. \A k \in Key : tomb'[k].n <= MaxAttempts + faults'
    BY <2>1, <2>2, CountsGrow
  <2> QED
    BY <2>1, <2>2, <2>3 DEF NoJob, TypeOK, JobOK, LiveIsComplete
<1>9. ASSUME NEW k \in Key, LookupFails(k)
      PROVE  ImageInv'
  <2>1. Here[k] \in Version
    BY <1>9, InputType DEF LookupFails, TypeOK, Here
  <2>2. faults' \in 0..MaxFaults /\ faults' = faults + 1 /\ faults <= faults'
    BY <1>9, ConstantsOK DEF LookupFails, Fault, TypeOK
  <2>3. \A j \in Key : tomb'[j].n <= MaxAttempts + faults'
    BY <1>9, <2>2, CountsGrow DEF LookupFails
  <2>4. TypeOK'
    BY <1>9, <2>1, <2>2, <2>3 DEF LookupFails, TypeOK, gcVars, historyVars
  <2>5. JobOK' /\ LiveIsComplete'
    BY <1>9, <2>1, <2>2, AttemptLeft DEF LookupFails, JobOK, LiveIsComplete, Attempts
  <2> QED
    BY <2>4, <2>5
<1> QED
  BY <1>1, <1>2, <1>4, <1>5, <1>6, <1>7, <1>8, <1>9 DEF ProcessStep

LEMMA CleanupInv ==
    ASSUME ImageInv, GcList \/ CleanupStep \/ GcCut \/ \E i \in Input : Repoint(i)
    PROVE  ImageInv'
<1> USE DEF ImageInv
<1>1. CASE GcList
  <2>1. live' \in SUBSET Key /\ todo' \in SUBSET Key
    BY <1>1, InputType DEF GcList, TypeOK
  <2>2. TypeOK'
    BY <1>1, <2>1 DEF GcList, TypeOK
  <2>3. JobOK'
    BY <1>1 DEF GcList, JobOK
  <2>4. LiveIsComplete'
    BY <1>1 DEF GcList, LiveIsComplete, Here
  <2> QED
    BY <2>2, <2>3, <2>4
<1>2. ASSUME NEW k \in Key, GcMapping(k)
      PROVE  ImageInv'
  <2>1. mapping' \in [Key -> {NoMap} \cup [tag : {Tag(i) : i \in Input}, ver : Version,
                                           hash : Version \ Bad]]
    BY <1>2 DEF GcMapping, TypeOK
  <2>2. TypeOK'
    BY <1>2, <2>1 DEF GcMapping, TypeOK, historyVars
  <2>3. JobOK' /\ LiveIsComplete'
    BY <1>2 DEF GcMapping, JobOK, LiveIsComplete, Here, historyVars
  <2> QED
    BY <2>2, <2>3
<1>3. CASE GcDone
  BY <1>3 DEF GcDone, GcEnds, TypeOK, JobOK, LiveIsComplete
<1>4. CASE GcCut
  <2>1. faults' \in 0..MaxFaults /\ faults <= faults'
    BY <1>4, ConstantsOK DEF GcCut, Fault, TypeOK
  <2>2. \A k \in Key : tomb'[k].n <= MaxAttempts + faults'
    BY <1>4, <2>1, CountsGrow DEF GcCut
  <2> QED
    BY <1>4, <2>1, <2>2 DEF GcCut, GcEnds, TypeOK, JobOK, LiveIsComplete
<1>5. ASSUME NEW i \in Input, Repoint(i)
      PROVE  ImageInv'
  BY <1>5, ConstantsOK DEF Repoint, Edit, TypeOK, JobOK, LiveIsComplete, gcVars, historyVars
<1> QED
  BY <1>1, <1>2, <1>3, <1>4, <1>5 DEF CleanupStep

LEMMA StepInv ==
    ASSUME ImageInv, [Next]_vars
    PROVE  ImageInv'
<1>1. CASE UNCHANGED vars
  BY <1>1 DEF vars, ImageInv, TypeOK, JobOK, LiveIsComplete, Here, Blocks, Attempts
<1>2. CASE Next
  BY <1>2, OwnersInv, ProcessInv, CleanupInv DEF Next
<1> QED
  BY <1>1, <1>2

LEMMA Invariance == Spec => []ImageInv
BY InitInv, StepInv, PTL DEF Spec

\* TypeOK: in particular a mapping never has the hash of an image that cannot
\* be hashed, and a tombstone counts past TOMBSTONE_MAX_ATTEMPTS at most as often
\* as requests have failed.
THEOREM ImagesTypeCorrect == Spec => []TypeOK
BY Invariance, PTL DEF ImageInv

-----------------------------------------------------------------------------
(* Cleanup. *)

LEMMA MappingTypes ==
    ASSUME ImageInv, NEW k \in Key, mapping[k] # NoMap
    PROVE  mapping[k] \in [tag : {Tag(i) : i \in Input}, ver : Version, hash : Version \ Bad]
BY DEF ImageInv, TypeOK

\* A new mapping is one.
LEMMA NewMappingIsOne ==
    ASSUME ImageInv, pc = "map"
    PROVE  NewMapping # NoMap
<1>1. NewMapping.ver \in Version /\ NoMap.ver = None
  BY DEF ImageInv, JobOK, NewMapping, NoMap
<1> QED
  BY <1>1, ConstantsOK

\* Only cleanup removes a mapping.
LEMMA OnlyGcRemoves ==
    ASSUME ImageInv, [Next]_vars, NEW k \in Key, mapping[k] # NoMap, mapping'[k] = NoMap
    PROVE  GcMapping(k) /\ IsOrphan(k)
<1>1. ASSUME pc = "map", mapping' = [mapping EXCEPT ![job.key] = NewMapping]
      PROVE  FALSE
  BY <1>1, NewMappingIsOne DEF ImageInv, TypeOK
<1>2. UNCHANGED mapping => FALSE
  OBVIOUS
<1>3. CASE UNCHANGED vars
  BY <1>2, <1>3 DEF vars
<1>4. ASSUME NEW s \in Origin, NEW j \in Key, Delete(s, j) \/ \E v \in Version : Upload(s, j, v)
      PROVE  FALSE
  BY <1>2, <1>4 DEF Delete, Upload
<1>5. ASSUME (\E i \in Input : Repoint(i)) \/ \E j \in Key : Begin(j) \/ LookupFails(j)
      PROVE  FALSE
  BY <1>2, <1>5 DEF Repoint, Begin, LookupFails
<1>6. CASE ProcessStep \/ RequestFails \/ RunCut
  BY <1>1, <1>2, <1>6 DEF ProcessStep, Hash, WriteMapping, ClearTombstone,
     WriteFailureTombstone, RequestFails, RunCut
<1>7. CASE GcList \/ GcDone \/ GcCut
  BY <1>2, <1>7 DEF GcList, GcDone, GcCut
<1>8. ASSUME NEW j \in Key, GcMapping(j)
      PROVE  GcMapping(k) /\ IsOrphan(k)
  BY <1>8 DEF GcMapping, ImageInv, TypeOK
<1> QED
  BY <1>3, <1>4, <1>5, <1>6, <1>7, <1>8 DEF Next, CleanupStep

\* What cleanup removes is gone from where it was hashed.
LEMMA OrphanIsGone ==
    ASSUME ImageInv, NEW k \in Key, GcMapping(k), IsOrphan(k),
           NEW i \in Input, Tag(i) = mapping[k].tag
    PROVE  source[Location(i)][k] = None \/ <<Location(i), k>> \in returned
<1>1. Location(i) = Location(input)
  BY TagNamesLocation DEF IsOrphan, Owned
<1>2. Here[k] = None \/ <<Location(input), k>> \in returned
  BY DEF ImageInv, LiveIsComplete, GcMapping, IsOrphan
<1> QED
  BY <1>1, <1>2 DEF Here

\* LiveImageKeepsMapping: however often the pair is pointed elsewhere, narrowed
\* or spelled another way, whatever fails and wherever a run is cut.
THEOREM LiveImagesKeepMappings == Spec => LiveImageKeepsMapping
<1>1. ASSUME ImageInv, [Next]_vars, NEW k \in Key, mapping[k] # NoMap, mapping'[k] = NoMap,
             NEW i \in Input, Tag(i) = mapping[k].tag
      PROVE  source[Location(i)][k] = None \/ <<Location(i), k>> \in returned
  BY <1>1, OnlyGcRemoves, OrphanIsGone
<1>2. ImageInv /\ [Next]_vars =>
        [\A k \in Key : mapping[k] # NoMap /\ mapping'[k] = NoMap =>
            \A i \in Input : Tag(i) = mapping[k].tag =>
                source[Location(i)][k] = None \/ <<Location(i), k>> \in returned]_vars
  BY <1>1
<1> QED
  BY <1>2, Invariance, PTL DEF Spec, LiveImageKeepsMapping
=============================================================================
