---------------------------- MODULE Reencode_proof ----------------------------
(***************************************************************************)
(* Proofs about Reencode, for every set of keys and contents, every pair   *)
(* of ladders, and every number of attempts, edits and faults.             *)
(***************************************************************************)
EXTENDS Reencode, TLAPS

Encoding == {"media", "lists", "master", "meta"}

\* What the locals of a source's processing hold at each place.
JobOK ==
    /\ IF pc = "idle" THEN job = NoJob ELSE job.key \in Key /\ job.ver \in Content
    /\ pc \in {"check", "stamp", "restamp"} =>
        mapping[job.key] # NoMap /\ ~job.re /\ job.put = {}
    /\ pc = "fetch" =>
        /\ job.put = {}
        /\ job.re => mapping[job.key] # NoMap /\ meta[mapping[job.key].cid] # "new"
    /\ pc \in Encoding \cup {"map"} => job.cid \in Content /\ job.put \subseteq NewRungs

\* A content is encoded once more than requests fail, since a finished encode is
\* stamped and what is stamped is not encoded.
EncodesOK ==
    /\ \A c \in Content :
        /\ encodes[c] <= faults + 1
        /\ meta[c] # "new" /\ (pc \in Encoding => c # job.cid) => encodes[c] <= faults
    /\ pc \in Encoding => encodes[job.cid] \in Nat \ {0}

\* Nothing is stamped or mapped without a master.
MasterThere ==
    /\ \A c \in Content : meta[c] = "new" => master[c] # None
    /\ \A k \in Key : mapping[k] # NoMap => master[mapping[k].cid] # None
    /\ pc = "meta" => master[job.cid] = encodes[job.cid]
    /\ pc = "map" => master[job.cid] # None

\* The tiers of the encode in hand.
TiersOK ==
    /\ pc = "media" =>
        \A r \in job.put : media[job.cid][<<r, encodes[job.cid]>>] = encodes[job.cid]
    /\ pc \in {"lists", "master"} =>
        \A r \in NewRungs : media[job.cid][<<r, encodes[job.cid]>>] = encodes[job.cid]
    /\ pc = "lists" => \A r \in job.put : lists[job.cid][r] # None
    /\ pc = "master" => \A r \in NewRungs : lists[job.cid][r] # None

\* Which playlists there have been; none is of an encode whose media are under way.
ShownOK ==
    /\ \A c \in Content, r \in Rung : lists[c][r] # None => <<c, r, lists[c][r]>> \in shown
    /\ \A x \in shown : /\ x[3] <= encodes[x[1]]
                        /\ pc = "media" /\ x[1] = job.cid => x[3] < encodes[x[1]]

\* While sources rest: what was listed, downloaded and mapped is one content.
Resting ==
    edits = 0 =>
        /\ \A k \in Key : mapping[k] # NoMap =>
            mapping[k].cid = source[k] /\ mapping[k].ver = source[k]
        /\ pc # "idle" => job.ver = source[job.key]
        /\ pc \in Encoding \cup {"map"} => job.cid = job.ver

\* While sources rest: what is about to be stamped was found right, and only a
\* key without an output is deduplicated.
Deserved ==
    edits = 0 =>
        /\ pc = "stamp" => mapping[job.key].cid \in Upright
        /\ pc = "restamp" => meta[mapping[job.key].cid] = "new"
        /\ pc = "fetch" /\ mapping[job.key] # NoMap => job.re
        /\ pc = "map" => master[job.cid] # 0 \/ mapping[job.key] = NoMap

\* While sources rest: each wrong output has a mapping that will be checked.
DueInv ==
    edits = 0 => \A c \in Content : ~Right(c) =>
        \E k \in Key : mapping[k].cid = c /\ mapping[k].enc = "old"

\* A master names renditions that have playlists.
MasterLists ==
    \A c \in Content : master[c] # None =>
        \A r \in Rungs(master[c]) : lists[c][r] # None

TreeInv ==
    /\ JobOK /\ EncodesOK /\ MasterThere /\ TiersOK /\ MasterLists
    /\ ShownOK /\ OldPlaylistsPlay /\ ReencodesOnlyStale

RestInv == Resting /\ Deserved /\ RestampIsEarned /\ DueInv

-----------------------------------------------------------------------------
(* Type correctness. *)

JobType == [key : Key \cup {None}, ver : Content \cup {None}, cid : Content \cup {None},
            re : BOOLEAN, put : SUBSET Rung]
MapType == [ver : Content, cid : Content, enc : {"old", "new"}] \cup {NoMap}
TombType == [ver : Content, n : 1..MaxCount] \cup {NoTomb}

LEMMA NoJobType == NoJob \in JobType
BY DEF NoJob, JobType

\* A counted failure leaves a tombstone.
LEMMA CountType ==
    ASSUME TypeOK, NEW k \in Key, NEW v \in Content, NEW n \in {1, Attempts(k, v)}, Count(k, v, n)
    PROVE  tomb' \in [Key -> TombType]
<1>1. 1 \in 1..MaxCount /\ MaxCount \in Nat
  BY ConstantsOK
<1>2. tomb[k].ver = v => tomb[k].n \in 1..MaxCount
  BY ConstantsOK DEF TypeOK, NoTomb
<1>3. n \in 1..MaxCount
  BY <1>1, <1>2 DEF Attempts
<1> QED
  BY <1>3 DEF Count, TypeOK, TombType

\* How a source's processing ends in SourceFails and RunFails.
LEMMA FailureEnds ==
    ASSUME TypeOK, SourceFails \/ RunFails
    PROVE  /\ pc # "idle" /\ pc' = "idle" /\ job' = NoJob
           /\ UNCHANGED <<source, mapping, meta, treeVars, edits>>
           /\ faults \in Nat /\ faults' \in 0..MaxFaults /\ faults <= faults'
           /\ pc \in Encoding => faults' = faults + 1
BY ConstantsOK DEF TypeOK, SourceFails, ProbeFails, EncodeFails, RunFails, GiveUp, Fault,
   Encoding

\* And what it leaves in the tombstones.
LEMMA FailureCounts ==
    ASSUME TypeOK, JobOK, SourceFails \/ RunFails
    PROVE  tomb' \in [Key -> TombType]
<1>1. job.key \in Key /\ job.ver \in Content
  BY FailureEnds DEF JobOK
<1>2. \/ Count(job.key, job.ver, Attempts(job.key, job.ver)) \/ Count(job.key, job.ver, 1)
      \/ UNCHANGED tomb
  BY DEF SourceFails, RunFails, CountFailure, Miscount
<1>3. CASE UNCHANGED tomb
  BY <1>3 DEF TypeOK, TombType
<1> QED
  BY <1>1, <1>2, <1>3, CountType

\* A failed look-up costs a fault and leaves a tombstone, and nothing else.
LEMMA LookupEnds ==
    ASSUME TypeOK, NEW k \in Key, LookupFails(k)
    PROVE  /\ tomb' \in [Key -> TombType]
           /\ faults \in Nat /\ faults' = faults + 1 /\ faults' \in 0..MaxFaults
           /\ UNCHANGED <<source, mapping, meta, treeVars, pc, job, edits>>
<1>1. source[k] \in Content
  BY DEF LookupFails, TypeOK
<1>2. tomb' \in [Key -> TombType]
  BY <1>1, CountType DEF LookupFails
<1> QED
  BY <1>2, ConstantsOK DEF LookupFails, Fault, TypeOK

LEMMA TypeStep ==
    ASSUME TypeOK, JobOK, EncodesOK, MasterThere, [Next]_vars
    PROVE  TypeOK'
<1> USE ConstantsOK DEF TypeOK
<1>1. ASSUME NEW k \in Key, NEW v \in Content \cup {None}, Edit(k, v)
      PROVE  TypeOK'
  <2>1. source' \in [Key -> Content \cup {None}]
    BY <1>1 DEF Edit
  <2>2. edits' \in 0..MaxEdits
    BY <1>1 DEF Edit
  <2>3. UNCHANGED <<mapping, tomb, meta, treeVars, pc, job, faults>>
    BY <1>1 DEF Edit
  <2> QED
    BY <2>1, <2>2, <2>3 DEF treeVars
<1>2. ASSUME NEW k \in Key, Begin(k)
      PROVE  TypeOK'
  <2>1. job' \in JobType
    BY <1>2, NoJobType DEF Begin, JobType
  <2> QED
    BY <1>2, <2>1 DEF Begin, JobType, treeVars
<1>3. ASSUME Check
      PROVE  TypeOK'
  <2>1. job' \in JobType
    BY <1>3, NoJobType DEF Check, JobType
  <2>2. pc' \in {"idle", "restamp", "stamp", "fetch"}
    BY <1>3 DEF Check
  <2>3. UNCHANGED <<source, mapping, tomb, meta, treeVars, edits, faults>>
    BY <1>3 DEF Check
  <2> QED
    BY <2>1, <2>2, <2>3 DEF JobType, treeVars
<1>4. ASSUME StampMetadata
      PROVE  TypeOK'
  BY <1>4 DEF StampMetadata, treeVars
<1>5. ASSUME RestampMapping
      PROVE  TypeOK'
  <2>1. mapping[job.key] \in MapType \ {NoMap} /\ job.key \in Key
    BY <1>5 DEF RestampMapping, JobOK, MapType
  <2>2. Restamped(mapping[job.key]) \in MapType
    BY <2>1 DEF Restamped, MapType
  <2>3. mapping' \in [Key -> MapType]
    BY <1>5, <2>1, <2>2 DEF RestampMapping, MapType
  <2> QED
    BY <1>5, <2>3, NoJobType DEF RestampMapping, MapType, JobType, treeVars
<1>6. ASSUME Fetch
      PROVE  TypeOK'
  <2> DEFINE c == source[job.key]
  <2>1. c \in Content /\ job.key \in Key /\ pc = "fetch"
    BY <1>6 DEF Fetch, JobOK
  <2>2. job' \in JobType
    BY <1>6, <2>1 DEF Fetch, JobType
  <2>3. encodes' \in [Content -> Encode]
    <3>1. CASE UNCHANGED encodes
      BY <3>1
    <3>2. CASE encodes' = [encodes EXCEPT ![c] = @ + 1] /\ meta[c] # "new"
      <4>1. encodes[c] \in Nat /\ encodes[c] <= faults /\ faults \in Nat /\ faults <= MaxFaults
        BY <2>1, <3>2 DEF EncodesOK, Encoding, Encode
      <4>2. encodes[c] + 1 \in Encode
        BY <4>1 DEF Encode
      <4> QED
        BY <2>1, <3>2, <4>2
    <3> QED
      BY <1>6, <3>1, <3>2 DEF Fetch, StillApplies, MasterThere, JobOK
  <2> QED
    BY <1>6, <2>2, <2>3 DEF Fetch, JobType
<1>7. ASSUME NEW r \in Rung, PutMedia(r)
      PROVE  TypeOK'
  <2> DEFINE c == job.cid
             e == encodes[job.cid]
  <2>1. c \in Content /\ e \in Encode
    BY <1>7 DEF PutMedia, JobOK, Encoding
  <2>2. media' = [media EXCEPT ![c][<<r, e>>] = e]
    BY <1>7 DEF PutMedia, Tag
  <2>3. media' \in [Content -> [Rung \X Encode -> Encode \cup {None}]]
    <3>1. [media[c] EXCEPT ![<<r, e>>] = e] \in [Rung \X Encode -> Encode \cup {None}]
      BY <2>1
    <3> QED
      BY <2>1, <2>2, <3>1
  <2>4. job' \in JobType
    BY <1>7 DEF PutMedia, JobType
  <2> QED
    BY <1>7, <2>3, <2>4 DEF PutMedia, JobType
<1>8. ASSUME NEW r \in Rung, PutList(r)
      PROVE  TypeOK'
  <2>1. job.cid \in Content /\ encodes[job.cid] \in Encode
    BY <1>8 DEF PutList, JobOK, Encoding
  <2>2. job' \in JobType
    BY <1>8 DEF PutList, JobType
  <2>3. lists' \in [Content -> [Rung -> Encode \cup {None}]]
    BY <1>8, <2>1 DEF PutList
  <2>4. shown' \subseteq Content \X Rung \X Encode
    BY <1>8, <2>1 DEF PutList
  <2> QED
    BY <1>8, <2>2, <2>3, <2>4 DEF PutList, JobType
<1>9. ASSUME NextTier
      PROVE  TypeOK'
  <2>1. job' \in JobType
    BY <1>9 DEF NextTier, JobType
  <2> QED
    BY <1>9, <2>1 DEF NextTier, JobType, treeVars
<1>10. ASSUME PutMaster
       PROVE  TypeOK'
  <2>1. job.cid \in Content /\ encodes[job.cid] \in Encode
    BY <1>10 DEF PutMaster, JobOK, Encoding
  <2> QED
    BY <1>10, <2>1 DEF PutMaster
<1>11. ASSUME PutMetadata
       PROVE  TypeOK'
  BY <1>11 DEF PutMetadata, treeVars
<1>12. ASSUME PutMapping
       PROVE  TypeOK'
  <2>1. job.key \in Key /\ job.ver \in Content /\ job.cid \in Content
    BY <1>12 DEF PutMapping, JobOK
  <2>2. mapping' \in [Key -> MapType]
    BY <1>12, <2>1 DEF PutMapping, MapType
  <2>3. tomb' \in [Key -> TombType] /\ faults' \in 0..MaxFaults
    BY <1>12, <2>1 DEF PutMapping, TombType, Fault
  <2> QED
    BY <1>12, <2>2, <2>3, NoJobType DEF PutMapping, MapType, TombType, JobType, treeVars
<1>13. ASSUME SourceFails \/ RunFails
       PROVE  TypeOK'
  <2>1. /\ tomb' \in [Key -> TombType] /\ faults' \in 0..MaxFaults
        /\ pc' = "idle" /\ job' = NoJob
        /\ UNCHANGED <<source, mapping, meta, treeVars, edits>>
    BY <1>13, FailureEnds, FailureCounts
  <2> QED
    BY <2>1, NoJobType DEF TombType, JobType, treeVars
<1>14. CASE UNCHANGED vars
  BY <1>14 DEF vars
<1>15. ASSUME NEW k \in Key, LookupFails(k)
       PROVE  TypeOK'
  <2>1. /\ tomb' \in [Key -> TombType] /\ faults' \in 0..MaxFaults
        /\ UNCHANGED <<source, mapping, meta, treeVars, pc, job, edits>>
    BY <1>15, LookupEnds
  <2>2. job' \in JobType
    BY <2>1 DEF JobType
  <2> QED
    BY <2>1, <2>2 DEF TombType, JobType, treeVars
<1> HIDE DEF TypeOK
<1> QED
  BY <1>1, <1>2, <1>3, <1>4, <1>5, <1>6, <1>7, <1>8, <1>9, <1>10, <1>11, <1>12, <1>13, <1>14, <1>15
     DEF Next, Upload, Delete, WorkerStep

-----------------------------------------------------------------------------
(* The worker and its tombstones. *)

LEMMA JobStep ==
    ASSUME TypeOK, TypeOK', JobOK, MasterThere, [Next]_vars
    PROVE  JobOK'
<1> USE ConstantsOK DEF TypeOK, JobOK, Encoding, NoMap
<1>1. ASSUME NEW k \in Key, NEW v \in Content \cup {None}, Edit(k, v)
      PROVE  JobOK'
  BY <1>1 DEF Edit, treeVars
<1>2. ASSUME NEW k \in Key, Begin(k)
      PROVE  JobOK'
  <2>1. /\ source[k] \in Content
        /\ job' = [NoJob EXCEPT !.key = k, !.ver = source[k]]
        /\ UNCHANGED <<mapping, meta>>
    BY <1>2 DEF Begin
  <2>2. job'.key = k /\ job'.ver = source[k] /\ ~job'.re /\ job'.put = {}
    BY <2>1 DEF NoJob
  <2>3. pc' = "fetch" \/ (pc' = "check" /\ mapping[k] # NoMap)
    BY <1>2, <2>1 DEF Begin, IsCached
  <2> QED
    BY <2>1, <2>2, <2>3
<1>3. ASSUME Check
      PROVE  JobOK'
  BY <1>3 DEF Check, NoJob, treeVars
<1>4. ASSUME StampMetadata
      PROVE  JobOK'
  BY <1>4 DEF StampMetadata, treeVars
<1>5. ASSUME RestampMapping
      PROVE  JobOK'
  BY <1>5 DEF RestampMapping, Restamped, treeVars
<1>6. ASSUME Fetch
      PROVE  JobOK'
  BY <1>6 DEF Fetch, StillApplies
<1>7. ASSUME NEW r \in Rung, PutMedia(r)
      PROVE  JobOK'
  BY <1>7 DEF PutMedia, Tag
<1>8. ASSUME NEW r \in Rung, PutList(r)
      PROVE  JobOK'
  BY <1>8 DEF PutList
<1>9. ASSUME NextTier
      PROVE  JobOK'
  BY <1>9 DEF NextTier, TierDone, treeVars
<1>10. ASSUME PutMaster
      PROVE  JobOK'
  BY <1>10 DEF PutMaster
<1>11. ASSUME PutMetadata
      PROVE  JobOK'
  BY <1>11 DEF PutMetadata, treeVars
<1>12. ASSUME PutMapping
      PROVE  JobOK'
  BY <1>12 DEF PutMapping, treeVars
<1>13. ASSUME SourceFails \/ RunFails
      PROVE  JobOK'
  BY <1>13, FailureEnds DEF treeVars
<1>14. CASE UNCHANGED vars
  BY <1>14 DEF vars, treeVars
<1>15. ASSUME NEW k \in Key, LookupFails(k)
       PROVE  JobOK'
  BY <1>15, LookupEnds DEF treeVars
<1> QED
  BY <1>1, <1>2, <1>3, <1>4, <1>5, <1>6, <1>7, <1>8, <1>9, <1>10, <1>11, <1>12, <1>13, <1>14, <1>15
     DEF Next, Upload, Delete, WorkerStep

LEMMA EncodesStep ==
    ASSUME TypeOK, TypeOK', JobOK, MasterThere, EncodesOK, [Next]_vars
    PROVE  EncodesOK'
<1>0. SourceFails \/ RunFails =>
        /\ faults \in Nat /\ faults' \in Nat /\ faults <= faults'
        /\ pc \in Encoding => faults' = faults + 1
        /\ pc' = "idle" /\ UNCHANGED <<meta, encodes>>
  BY ConstantsOK, FailureEnds DEF treeVars
<1> USE ConstantsOK DEF TypeOK, JobOK, MasterThere, EncodesOK, Encoding, Encode
<1>1. ASSUME NEW k \in Key, NEW v \in Content \cup {None}, Edit(k, v)
      PROVE  EncodesOK'
  BY <1>1 DEF Edit, treeVars
<1>2. ASSUME NEW k \in Key, Begin(k)
      PROVE  EncodesOK'
  BY <1>2 DEF Begin, NoJob, treeVars
<1>3. ASSUME Check
      PROVE  EncodesOK'
  BY <1>3 DEF Check, NoJob, treeVars
<1>4. ASSUME StampMetadata
      PROVE  EncodesOK'
  BY <1>4 DEF StampMetadata, treeVars
<1>5. ASSUME RestampMapping
      PROVE  EncodesOK'
  BY <1>5 DEF RestampMapping, Restamped, treeVars
<1>6. ASSUME Fetch
      PROVE  EncodesOK'
  BY <1>6 DEF Fetch, StillApplies
<1>7. ASSUME NEW r \in Rung, PutMedia(r)
      PROVE  EncodesOK'
  BY <1>7 DEF PutMedia, Tag
<1>8. ASSUME NEW r \in Rung, PutList(r)
      PROVE  EncodesOK'
  BY <1>8 DEF PutList
<1>9. ASSUME NextTier
      PROVE  EncodesOK'
  BY <1>9 DEF NextTier, TierDone, treeVars
<1>10. ASSUME PutMaster
      PROVE  EncodesOK'
  BY <1>10 DEF PutMaster
<1>11. ASSUME PutMetadata
      PROVE  EncodesOK'
  BY <1>11 DEF PutMetadata, treeVars
<1>12. ASSUME PutMapping
      PROVE  EncodesOK'
  <2>1. /\ faults \in Nat /\ faults' \in Nat /\ faults <= faults'
        /\ pc = "map" /\ pc' = "idle" /\ UNCHANGED <<meta, encodes>>
    BY <1>12 DEF PutMapping, Fault, treeVars
  <2> QED
    BY <2>1
<1>13. ASSUME SourceFails \/ RunFails
      PROVE  EncodesOK'
  <2>1. ASSUME NEW c \in Content
        PROVE  /\ encodes[c] <= faults' + 1
               /\ meta[c] # "new" => encodes[c] <= faults'
    <3>1. encodes[c] \in Nat
      OBVIOUS
    <3> QED
      BY <1>0, <1>13, <3>1
  <2> QED
    BY <1>0, <1>13, <2>1
<1>14. CASE UNCHANGED vars
  BY <1>14 DEF vars, treeVars
<1>15. ASSUME NEW k \in Key, LookupFails(k)
       PROVE  EncodesOK'
  <2>1. /\ faults \in Nat /\ faults' = faults + 1 /\ UNCHANGED <<meta, pc, job, encodes>>
    BY <1>15, LookupEnds DEF treeVars
  <2>2. \A c \in Content : encodes[c] \in Nat
    OBVIOUS
  <2> HIDE DEF TypeOK, JobOK, MasterThere, Encode
  <2> QED
    BY <2>1, <2>2
<1> QED
  BY <1>1, <1>2, <1>3, <1>4, <1>5, <1>6, <1>7, <1>8, <1>9, <1>10, <1>11, <1>12, <1>13, <1>14, <1>15
     DEF Next, Upload, Delete, WorkerStep

LEMMA MasterStep ==
    ASSUME TypeOK, TypeOK', JobOK, EncodesOK, MasterThere, [Next]_vars
    PROVE  MasterThere'
<1> USE ConstantsOK DEF TypeOK, JobOK, EncodesOK, MasterThere, Encoding, Encode, NoMap
<1>1. ASSUME NEW k \in Key, NEW v \in Content \cup {None}, Edit(k, v)
      PROVE  MasterThere'
  BY <1>1 DEF Edit, treeVars
<1>2. ASSUME NEW k \in Key, Begin(k)
      PROVE  MasterThere'
  BY <1>2 DEF Begin, NoJob, treeVars
<1>3. ASSUME Check
      PROVE  MasterThere'
  BY <1>3 DEF Check, NoJob, treeVars
<1>4. ASSUME StampMetadata
      PROVE  MasterThere'
  BY <1>4 DEF StampMetadata, treeVars
<1>5. ASSUME RestampMapping
      PROVE  MasterThere'
  BY <1>5 DEF RestampMapping, Restamped, treeVars
<1>6. ASSUME Fetch
      PROVE  MasterThere'
  BY <1>6 DEF Fetch, StillApplies
<1>7. ASSUME NEW r \in Rung, PutMedia(r)
      PROVE  MasterThere'
  BY <1>7 DEF PutMedia, Tag
<1>8. ASSUME NEW r \in Rung, PutList(r)
      PROVE  MasterThere'
  BY <1>8 DEF PutList
<1>9. ASSUME NextTier
      PROVE  MasterThere'
  BY <1>9 DEF NextTier, TierDone, treeVars
<1>10. ASSUME PutMaster
      PROVE  MasterThere'
  BY <1>10 DEF PutMaster
<1>11. ASSUME PutMetadata
      PROVE  MasterThere'
  BY <1>11 DEF PutMetadata, treeVars
<1>12. ASSUME PutMapping
      PROVE  MasterThere'
  BY <1>12 DEF PutMapping, treeVars
<1>13. ASSUME SourceFails \/ RunFails
      PROVE  MasterThere'
  BY <1>13, FailureEnds DEF treeVars
<1>14. CASE UNCHANGED vars
  BY <1>14 DEF vars, treeVars
<1>15. ASSUME NEW k \in Key, LookupFails(k)
       PROVE  MasterThere'
  BY <1>15, LookupEnds DEF treeVars
<1> QED
  BY <1>1, <1>2, <1>3, <1>4, <1>5, <1>6, <1>7, <1>8, <1>9, <1>10, <1>11, <1>12, <1>13, <1>14, <1>15
     DEF Next, Upload, Delete, WorkerStep

-----------------------------------------------------------------------------
(* The trees and their readers. *)

\* What a media file and a rendition playlist change.
LEMMA PutMediaLemma ==
    ASSUME TypeOK, JobOK, NEW r \in Rung, PutMedia(r)
    PROVE  LET c == job.cid
               e == encodes[job.cid]
           IN  /\ c \in Content /\ e \in Encode /\ pc = "media" /\ pc' = "media"
               /\ \A d \in Content, q \in Rung, f \in Encode :
                    media'[d][<<q, f>>] = IF d = c /\ q = r /\ f = e
                                          THEN e ELSE media[d][<<q, f>>]
               /\ job'.cid = c /\ job'.put = job.put \cup {r}
               /\ UNCHANGED <<lists, encodes, shown, master>>
<1> DEFINE c == job.cid
           e == encodes[job.cid]
<1>1. c \in Content /\ e \in Encode /\ pc = "media" /\ pc' = "media"
  BY DEF TypeOK, JobOK, PutMedia, Encoding
<1>2. media' = [media EXCEPT ![c][<<r, e>>] = e]
  BY DEF PutMedia, Tag
<1>3. ASSUME NEW d \in Content, NEW q \in Rung, NEW f \in Encode
      PROVE  media'[d][<<q, f>>] = IF d = c /\ q = r /\ f = e THEN e ELSE media[d][<<q, f>>]
  <2>1. media \in [Content -> [Rung \X Encode -> Encode \cup {None}]]
    BY DEF TypeOK
  <2>2. d # c => media'[d] = media[d]
    BY <1>1, <1>2, <2>1
  <2>3. media'[c] = [media[c] EXCEPT ![<<r, e>>] = e]
    BY <1>1, <1>2, <2>1
  <2>4. media[c] \in [Rung \X Encode -> Encode \cup {None}] /\ <<q, f>> \in Rung \X Encode
    BY <1>1, <2>1
  <2>5. media'[c][<<q, f>>] = IF <<q, f>> = <<r, e>> THEN e ELSE media[c][<<q, f>>]
    BY <2>3, <2>4
  <2> QED
    BY <2>2, <2>5
<1>4. job'.cid = c /\ job'.put = job.put \cup {r} /\ UNCHANGED <<lists, encodes, shown, master>>
  BY DEF TypeOK, PutMedia
<1> QED
  BY <1>1, <1>3, <1>4

LEMMA PutListLemma ==
    ASSUME TypeOK, JobOK, NEW r \in Rung, PutList(r)
    PROVE  LET c == job.cid
               e == encodes[job.cid]
           IN  /\ c \in Content /\ e \in Encode /\ pc = "lists" /\ pc' = "lists"
               /\ r \in NewRungs
               /\ \A d \in Content, q \in Rung :
                    lists'[d][q] = IF d = c /\ q = r THEN e ELSE lists[d][q]
               /\ shown' = shown \cup {<<c, r, e>>}
               /\ job'.cid = c /\ job'.put = job.put \cup {r}
               /\ UNCHANGED <<media, encodes, master>>
<1>1. job.cid \in Content /\ encodes[job.cid] \in Encode
  BY DEF TypeOK, JobOK, PutList, Encoding
<1> QED
  BY <1>1 DEF TypeOK, PutList

LEMMA TiersStep ==
    ASSUME TypeOK, TypeOK', JobOK, EncodesOK, TiersOK, [Next]_vars
    PROVE  TiersOK'
<1>m. ASSUME NEW r \in Rung, PutMedia(r)
      PROVE  /\ job.cid \in Content /\ encodes[job.cid] \in Encode /\ pc = "media" /\ pc' = "media"
             /\ \A q \in Rung : media'[job.cid][<<q, encodes[job.cid]>>] =
                    IF q = r THEN encodes[job.cid] ELSE media[job.cid][<<q, encodes[job.cid]>>]
             /\ job'.cid = job.cid /\ job'.put = job.put \cup {r} /\ encodes' = encodes
  BY <1>m, PutMediaLemma
<1>l. ASSUME NEW r \in Rung, PutList(r)
      PROVE  /\ job.cid \in Content /\ encodes[job.cid] \in Encode /\ pc = "lists" /\ pc' = "lists"
             /\ \A d \in Content, q \in Rung : lists'[d][q] =
                    IF d = job.cid /\ q = r THEN encodes[job.cid] ELSE lists[d][q]
             /\ job'.cid = job.cid /\ job'.put = job.put \cup {r}
             /\ UNCHANGED <<media, encodes, master>>
  BY <1>l, PutListLemma
<1> USE ConstantsOK DEF TypeOK, JobOK, EncodesOK, TiersOK, Encoding, Encode, Rung
<1>1. ASSUME NEW k \in Key, NEW v \in Content \cup {None}, Edit(k, v)
      PROVE  TiersOK'
  BY <1>1 DEF Edit, treeVars
<1>2. ASSUME NEW k \in Key, Begin(k)
      PROVE  TiersOK'
  BY <1>2 DEF Begin, NoJob, treeVars
<1>3. ASSUME Check
      PROVE  TiersOK'
  BY <1>3 DEF Check, NoJob, treeVars
<1>4. ASSUME StampMetadata
      PROVE  TiersOK'
  BY <1>4 DEF StampMetadata, treeVars
<1>5. ASSUME RestampMapping
      PROVE  TiersOK'
  BY <1>5 DEF RestampMapping, Restamped, treeVars
<1>6. ASSUME Fetch
      PROVE  TiersOK'
  BY <1>6 DEF Fetch, StillApplies
<1>7. ASSUME NEW r \in Rung, PutMedia(r)
      PROVE  TiersOK'
  <2>1. \A q \in job.put : q \in Rung
    OBVIOUS
  <2> QED
    BY <1>7, <1>m, <2>1
<1>8. ASSUME NEW r \in Rung, PutList(r)
      PROVE  TiersOK'
  <2>1. \A q \in job.put : q \in Rung /\ lists[job.cid][q] # None
    BY <1>8, <1>l
  <2>2. encodes[job.cid] # None
    BY <1>8, <1>l
  <2> QED
    BY <1>8, <1>l, <2>1, <2>2
<1>9. ASSUME NextTier
      PROVE  TiersOK'
  BY <1>9 DEF NextTier, TierDone, treeVars
<1>10. ASSUME PutMaster
       PROVE  TiersOK'
  BY <1>10 DEF PutMaster
<1>11. ASSUME PutMetadata
       PROVE  TiersOK'
  BY <1>11 DEF PutMetadata, treeVars
<1>12. ASSUME PutMapping
       PROVE  TiersOK'
  BY <1>12 DEF PutMapping, treeVars
<1>13. ASSUME SourceFails \/ RunFails
       PROVE  TiersOK'
  BY <1>13, FailureEnds DEF treeVars
<1>14. CASE UNCHANGED vars
  BY <1>14 DEF vars, treeVars
<1>15. ASSUME NEW k \in Key, LookupFails(k)
       PROVE  TiersOK'
  BY <1>15, LookupEnds DEF treeVars
<1> QED
  BY <1>1, <1>2, <1>3, <1>4, <1>5, <1>6, <1>7, <1>8, <1>9, <1>10, <1>11, <1>12, <1>13, <1>14, <1>15
     DEF Next, Upload, Delete, WorkerStep

LEMMA MasterListsStep ==
    ASSUME TypeOK, TypeOK', JobOK, EncodesOK, TiersOK, MasterLists, [Next]_vars
    PROVE  MasterLists'
<1>l. ASSUME NEW r \in Rung, PutList(r)
      PROVE  /\ job.cid \in Content /\ encodes[job.cid] \in Encode /\ pc = "lists" /\ pc' = "lists"
             /\ \A d \in Content, q \in Rung : lists'[d][q] =
                    IF d = job.cid /\ q = r THEN encodes[job.cid] ELSE lists[d][q]
             /\ job'.cid = job.cid /\ job'.put = job.put \cup {r}
             /\ UNCHANGED <<media, encodes, master>>
  BY <1>l, PutListLemma
<1>0. SourceFails \/ RunFails \/ (\E k \in Key : LookupFails(k)) => UNCHANGED <<master, lists>>
  BY FailureEnds, LookupEnds DEF treeVars
<1> USE ConstantsOK DEF TypeOK, JobOK, EncodesOK, TiersOK, MasterLists, Encoding, Encode, Rung, Rungs
<1>1. ASSUME NEW k \in Key, NEW v \in Content \cup {None}, Edit(k, v)
      PROVE  MasterLists'
  BY <1>1 DEF Edit, treeVars
<1>2. ASSUME NEW k \in Key, Begin(k)
      PROVE  MasterLists'
  BY <1>2 DEF Begin, NoJob, treeVars
<1>3. ASSUME Check
      PROVE  MasterLists'
  BY <1>3 DEF Check, NoJob, treeVars
<1>4. ASSUME StampMetadata
      PROVE  MasterLists'
  BY <1>4 DEF StampMetadata, treeVars
<1>5. ASSUME RestampMapping
      PROVE  MasterLists'
  BY <1>5 DEF RestampMapping, Restamped, treeVars
<1>6. ASSUME Fetch
      PROVE  MasterLists'
  BY <1>6 DEF Fetch, StillApplies
<1>7. ASSUME NEW r \in Rung, PutMedia(r)
      PROVE  MasterLists'
  BY <1>7 DEF PutMedia, Tag
<1>8. ASSUME NEW r \in Rung, PutList(r)
      PROVE  MasterLists'
  <2>1. encodes[job.cid] # None
    BY <1>8, <1>l
  <2>2. \A d \in Content : Rungs(master[d]) \subseteq Rung
    OBVIOUS
  <2> QED
    BY <1>8, <1>l, <2>1, <2>2
<1>9. ASSUME NextTier
      PROVE  MasterLists'
  BY <1>9 DEF NextTier, TierDone, treeVars
<1>10. ASSUME PutMaster
       PROVE  MasterLists'
  BY <1>10 DEF PutMaster
<1>11. ASSUME PutMetadata
       PROVE  MasterLists'
  BY <1>11 DEF PutMetadata, treeVars
<1>12. ASSUME PutMapping
       PROVE  MasterLists'
  BY <1>12 DEF PutMapping, treeVars
<1>13. ASSUME SourceFails \/ RunFails
       PROVE  MasterLists'
  BY <1>0, <1>13
<1>14. CASE UNCHANGED vars
  BY <1>14 DEF vars, treeVars
<1>15. ASSUME NEW k \in Key, LookupFails(k)
       PROVE  MasterLists'
  BY <1>0, <1>15
<1> QED
  BY <1>1, <1>2, <1>3, <1>4, <1>5, <1>6, <1>7, <1>8, <1>9, <1>10, <1>11, <1>12, <1>13, <1>14, <1>15
     DEF Next, Upload, Delete, WorkerStep

LEMMA ShownStep ==
    ASSUME TypeOK, TypeOK', JobOK, EncodesOK, TiersOK, ShownOK, OldPlaylistsPlay, [Next]_vars
    PROVE  ShownOK' /\ OldPlaylistsPlay'
<1> USE ConstantsOK DEF TypeOK, JobOK, EncodesOK, TiersOK, ShownOK, OldPlaylistsPlay, Encoding, Encode, Tag
<1>1. ASSUME NEW k \in Key, NEW v \in Content \cup {None}, Edit(k, v)
      PROVE  ShownOK' /\ OldPlaylistsPlay'
  BY <1>1 DEF Edit, treeVars
<1>2. ASSUME NEW k \in Key, Begin(k)
      PROVE  ShownOK' /\ OldPlaylistsPlay'
  BY <1>2 DEF Begin, NoJob, treeVars
<1>3. ASSUME Check
      PROVE  ShownOK' /\ OldPlaylistsPlay'
  BY <1>3 DEF Check, NoJob, treeVars
<1>4. ASSUME StampMetadata
      PROVE  ShownOK' /\ OldPlaylistsPlay'
  BY <1>4 DEF StampMetadata, treeVars
<1>5. ASSUME RestampMapping
      PROVE  ShownOK' /\ OldPlaylistsPlay'
  BY <1>5 DEF RestampMapping, Restamped, treeVars
<1>6. ASSUME Fetch
      PROVE  ShownOK' /\ OldPlaylistsPlay'
  BY <1>6 DEF Fetch, StillApplies
<1>7. ASSUME NEW r \in Rung, PutMedia(r)
      PROVE  ShownOK' /\ OldPlaylistsPlay'
  BY <1>7 DEF PutMedia, Tag
<1>8. ASSUME NEW r \in Rung, PutList(r)
      PROVE  ShownOK' /\ OldPlaylistsPlay'
  BY <1>8 DEF PutList, Tag
<1>9. ASSUME NextTier
      PROVE  ShownOK' /\ OldPlaylistsPlay'
  BY <1>9 DEF NextTier, TierDone, treeVars
<1>10. ASSUME PutMaster
       PROVE  ShownOK' /\ OldPlaylistsPlay'
  BY <1>10 DEF PutMaster
<1>11. ASSUME PutMetadata
       PROVE  ShownOK' /\ OldPlaylistsPlay'
  BY <1>11 DEF PutMetadata, treeVars
<1>12. ASSUME PutMapping
       PROVE  ShownOK' /\ OldPlaylistsPlay'
  BY <1>12 DEF PutMapping, treeVars
<1>13. ASSUME SourceFails \/ RunFails
       PROVE  ShownOK' /\ OldPlaylistsPlay'
  BY <1>13, FailureEnds DEF treeVars
<1>14. CASE UNCHANGED vars
  BY <1>14 DEF vars, treeVars
<1>15. ASSUME NEW k \in Key, LookupFails(k)
       PROVE  ShownOK' /\ OldPlaylistsPlay'
  BY <1>15, LookupEnds DEF treeVars
<1> QED
  BY <1>1, <1>2, <1>3, <1>4, <1>5, <1>6, <1>7, <1>8, <1>9, <1>10, <1>11, <1>12, <1>13, <1>14, <1>15
     DEF Next, Upload, Delete, WorkerStep

LEMMA OnlyStaleStep ==
    ASSUME TypeOK, TypeOK', JobOK, MasterThere, ReencodesOnlyStale, [Next]_vars
    PROVE  ReencodesOnlyStale'
<1> USE ConstantsOK DEF TypeOK, JobOK, MasterThere, ReencodesOnlyStale, Encoding
<1>1. ASSUME NEW k \in Key, NEW v \in Content \cup {None}, Edit(k, v)
      PROVE  ReencodesOnlyStale'
  BY <1>1 DEF Edit, treeVars
<1>2. ASSUME NEW k \in Key, Begin(k)
      PROVE  ReencodesOnlyStale'
  BY <1>2 DEF Begin, NoJob, treeVars
<1>3. ASSUME Check
      PROVE  ReencodesOnlyStale'
  BY <1>3 DEF Check, NoJob, treeVars
<1>4. ASSUME StampMetadata
      PROVE  ReencodesOnlyStale'
  BY <1>4 DEF StampMetadata, treeVars
<1>5. ASSUME RestampMapping
      PROVE  ReencodesOnlyStale'
  BY <1>5 DEF RestampMapping, Restamped, treeVars
<1>6. ASSUME Fetch
      PROVE  ReencodesOnlyStale'
  BY <1>6 DEF Fetch, StillApplies
<1>7. ASSUME NEW r \in Rung, PutMedia(r)
      PROVE  ReencodesOnlyStale'
  BY <1>7 DEF PutMedia, Tag
<1>8. ASSUME NEW r \in Rung, PutList(r)
      PROVE  ReencodesOnlyStale'
  BY <1>8 DEF PutList, Tag
<1>9. ASSUME NextTier
      PROVE  ReencodesOnlyStale'
  BY <1>9 DEF NextTier, TierDone, treeVars
<1>10. ASSUME PutMaster
       PROVE  ReencodesOnlyStale'
  BY <1>10 DEF PutMaster
<1>11. ASSUME PutMetadata
       PROVE  ReencodesOnlyStale'
  BY <1>11 DEF PutMetadata, treeVars
<1>12. ASSUME PutMapping
       PROVE  ReencodesOnlyStale'
  BY <1>12 DEF PutMapping, treeVars
<1>13. ASSUME SourceFails \/ RunFails
       PROVE  ReencodesOnlyStale'
  BY <1>13, FailureEnds DEF treeVars
<1>14. CASE UNCHANGED vars
  BY <1>14 DEF vars, treeVars
<1>15. ASSUME NEW k \in Key, LookupFails(k)
       PROVE  ReencodesOnlyStale'
  BY <1>15, LookupEnds DEF treeVars
<1> QED
  BY <1>1, <1>2, <1>3, <1>4, <1>5, <1>6, <1>7, <1>8, <1>9, <1>10, <1>11, <1>12, <1>13, <1>14, <1>15
     DEF Next, Upload, Delete, WorkerStep

-----------------------------------------------------------------------------
(* While sources rest. *)

LEMMA RestingStep ==
    ASSUME TypeOK, TypeOK', JobOK, Resting, [Next]_vars
    PROVE  Resting'
<1> USE ConstantsOK DEF TypeOK, JobOK, Resting, Encoding, NoMap
<1>1. ASSUME NEW k \in Key, NEW v \in Content \cup {None}, Edit(k, v)
      PROVE  Resting'
  BY <1>1 DEF Edit, treeVars
<1>2. ASSUME NEW k \in Key, Begin(k)
      PROVE  Resting'
  BY <1>2 DEF Begin, NoJob, treeVars
<1>3. ASSUME Check
      PROVE  Resting'
  BY <1>3 DEF Check, NoJob, treeVars
<1>4. ASSUME StampMetadata
      PROVE  Resting'
  BY <1>4 DEF StampMetadata, treeVars
<1>5. ASSUME RestampMapping
      PROVE  Resting'
  BY <1>5 DEF RestampMapping, Restamped, treeVars
<1>6. ASSUME Fetch
      PROVE  Resting'
  BY <1>6 DEF Fetch, StillApplies
<1>7. ASSUME NEW r \in Rung, PutMedia(r)
      PROVE  Resting'
  BY <1>7 DEF PutMedia, Tag
<1>8. ASSUME NEW r \in Rung, PutList(r)
      PROVE  Resting'
  BY <1>8 DEF PutList, Tag
<1>9. ASSUME NextTier
      PROVE  Resting'
  BY <1>9 DEF NextTier, TierDone, treeVars
<1>10. ASSUME PutMaster
       PROVE  Resting'
  BY <1>10 DEF PutMaster
<1>11. ASSUME PutMetadata
       PROVE  Resting'
  BY <1>11 DEF PutMetadata, treeVars
<1>12. ASSUME PutMapping
       PROVE  Resting'
  BY <1>12 DEF PutMapping, treeVars
<1>13. ASSUME SourceFails \/ RunFails
       PROVE  Resting'
  BY <1>13, FailureEnds DEF treeVars
<1>14. CASE UNCHANGED vars
  BY <1>14 DEF vars, treeVars
<1>15. ASSUME NEW k \in Key, LookupFails(k)
       PROVE  Resting'
  BY <1>15, LookupEnds DEF treeVars
<1> QED
  BY <1>1, <1>2, <1>3, <1>4, <1>5, <1>6, <1>7, <1>8, <1>9, <1>10, <1>11, <1>12, <1>13, <1>14, <1>15
     DEF Next, Upload, Delete, WorkerStep

LEMMA DeservedStep ==
    ASSUME TypeOK, TypeOK', JobOK, EncodesOK, MasterThere, Resting, Deserved, [Next]_vars
    PROVE  Deserved'
<1> USE ConstantsOK DEF TypeOK, JobOK, EncodesOK, MasterThere, Resting, Deserved, Encoding, Encode, NoMap
<1>1. ASSUME NEW k \in Key, NEW v \in Content \cup {None}, Edit(k, v)
      PROVE  Deserved'
  BY <1>1 DEF Edit, treeVars
<1>2. ASSUME NEW k \in Key, Begin(k)
      PROVE  Deserved'
  BY <1>2 DEF Begin, IsCached, NoJob, treeVars
<1>3. ASSUME Check
      PROVE  Deserved'
  BY <1>3 DEF Check, Wrong, NoJob, treeVars
<1>4. ASSUME StampMetadata
      PROVE  Deserved'
  BY <1>4 DEF StampMetadata, treeVars
<1>5. ASSUME RestampMapping
      PROVE  Deserved'
  BY <1>5 DEF RestampMapping, Restamped, treeVars
<1>6. ASSUME Fetch
      PROVE  Deserved'
  BY <1>6 DEF Fetch, StillApplies
<1>7. ASSUME NEW r \in Rung, PutMedia(r)
      PROVE  Deserved'
  BY <1>7 DEF PutMedia, Tag
<1>8. ASSUME NEW r \in Rung, PutList(r)
      PROVE  Deserved'
  BY <1>8 DEF PutList, Tag
<1>9. ASSUME NextTier
      PROVE  Deserved'
  BY <1>9 DEF NextTier, TierDone, treeVars
<1>10. ASSUME PutMaster
       PROVE  Deserved'
  BY <1>10 DEF PutMaster
<1>11. ASSUME PutMetadata
       PROVE  Deserved'
  BY <1>11 DEF PutMetadata, treeVars
<1>12. ASSUME PutMapping
       PROVE  Deserved'
  BY <1>12 DEF PutMapping, treeVars
<1>13. ASSUME SourceFails \/ RunFails
       PROVE  Deserved'
  BY <1>13, FailureEnds DEF treeVars
<1>14. CASE UNCHANGED vars
  BY <1>14 DEF vars, treeVars
<1>15. ASSUME NEW k \in Key, LookupFails(k)
       PROVE  Deserved'
  BY <1>15, LookupEnds DEF treeVars
<1> QED
  BY <1>1, <1>2, <1>3, <1>4, <1>5, <1>6, <1>7, <1>8, <1>9, <1>10, <1>11, <1>12, <1>13, <1>14, <1>15
     DEF Next, Upload, Delete, WorkerStep

LEMMA EarnedStep ==
    ASSUME TypeOK, TypeOK', JobOK, EncodesOK, MasterThere, Deserved, RestampIsEarned, [Next]_vars
    PROVE  RestampIsEarned'
<1> USE ConstantsOK DEF TypeOK, JobOK, EncodesOK, MasterThere, Deserved, RestampIsEarned, Right, Encoding, Encode
<1>1. ASSUME NEW k \in Key, NEW v \in Content \cup {None}, Edit(k, v)
      PROVE  RestampIsEarned'
  BY <1>1 DEF Edit, treeVars
<1>2. ASSUME NEW k \in Key, Begin(k)
      PROVE  RestampIsEarned'
  BY <1>2 DEF Begin, NoJob, treeVars
<1>3. ASSUME Check
      PROVE  RestampIsEarned'
  BY <1>3 DEF Check, NoJob, treeVars
<1>4. ASSUME StampMetadata
      PROVE  RestampIsEarned'
  BY <1>4 DEF StampMetadata, treeVars
<1>5. ASSUME RestampMapping
      PROVE  RestampIsEarned'
  BY <1>5 DEF RestampMapping, Restamped, treeVars
<1>6. ASSUME Fetch
      PROVE  RestampIsEarned'
  BY <1>6 DEF Fetch, StillApplies
<1>7. ASSUME NEW r \in Rung, PutMedia(r)
      PROVE  RestampIsEarned'
  BY <1>7 DEF PutMedia, Tag
<1>8. ASSUME NEW r \in Rung, PutList(r)
      PROVE  RestampIsEarned'
  BY <1>8 DEF PutList, Tag
<1>9. ASSUME NextTier
      PROVE  RestampIsEarned'
  BY <1>9 DEF NextTier, TierDone, treeVars
<1>10. ASSUME PutMaster
       PROVE  RestampIsEarned'
  BY <1>10 DEF PutMaster
<1>11. ASSUME PutMetadata
       PROVE  RestampIsEarned'
  BY <1>11 DEF PutMetadata, treeVars
<1>12. ASSUME PutMapping
       PROVE  RestampIsEarned'
  BY <1>12 DEF PutMapping, treeVars
<1>13. ASSUME SourceFails \/ RunFails
       PROVE  RestampIsEarned'
  BY <1>13, FailureEnds DEF treeVars
<1>14. CASE UNCHANGED vars
  BY <1>14 DEF vars, treeVars
<1>15. ASSUME NEW k \in Key, LookupFails(k)
       PROVE  RestampIsEarned'
  BY <1>15, LookupEnds DEF treeVars
<1> QED
  BY <1>1, <1>2, <1>3, <1>4, <1>5, <1>6, <1>7, <1>8, <1>9, <1>10, <1>11, <1>12, <1>13, <1>14, <1>15
     DEF Next, Upload, Delete, WorkerStep

LEMMA DueStep ==
    ASSUME TypeOK, TypeOK', JobOK, EncodesOK, MasterThere, Resting, Deserved, RestampIsEarned, DueInv, [Next]_vars
    PROVE  DueInv'
<1>0. SourceFails \/ RunFails => UNCHANGED <<master, mapping, edits>>
  BY FailureEnds DEF treeVars
<1> USE ConstantsOK DEF TypeOK, JobOK, EncodesOK, MasterThere, Resting, Deserved, RestampIsEarned, DueInv, Right, Encoding, Encode, NoMap
<1>1. ASSUME NEW k \in Key, NEW v \in Content \cup {None}, Edit(k, v)
      PROVE  DueInv'
  BY <1>1 DEF Edit, treeVars
<1>2. ASSUME NEW k \in Key, Begin(k)
      PROVE  DueInv'
  BY <1>2 DEF Begin, NoJob, treeVars
<1>3. ASSUME Check
      PROVE  DueInv'
  BY <1>3 DEF Check, NoJob, treeVars
<1>4. ASSUME StampMetadata
      PROVE  DueInv'
  BY <1>4 DEF StampMetadata, treeVars
<1>5. ASSUME RestampMapping
      PROVE  DueInv'
  BY <1>5 DEF RestampMapping, Restamped, treeVars
<1>6. ASSUME Fetch
      PROVE  DueInv'
  BY <1>6 DEF Fetch, StillApplies
<1>7. ASSUME NEW r \in Rung, PutMedia(r)
      PROVE  DueInv'
  BY <1>7 DEF PutMedia, Tag
<1>8. ASSUME NEW r \in Rung, PutList(r)
      PROVE  DueInv'
  BY <1>8 DEF PutList, Tag
<1>9. ASSUME NextTier
      PROVE  DueInv'
  BY <1>9 DEF NextTier, TierDone, treeVars
<1>10. ASSUME PutMaster
       PROVE  DueInv'
  BY <1>10 DEF PutMaster
<1>11. ASSUME PutMetadata
       PROVE  DueInv'
  BY <1>11 DEF PutMetadata, treeVars
<1>12. ASSUME PutMapping
       PROVE  DueInv'
  BY <1>12 DEF PutMapping, treeVars
<1>13. ASSUME SourceFails \/ RunFails
       PROVE  DueInv'
  BY <1>0, <1>13
<1>14. CASE UNCHANGED vars
  BY <1>14 DEF vars, treeVars
<1>15. ASSUME NEW k \in Key, LookupFails(k)
       PROVE  DueInv'
  <2>1. UNCHANGED <<master, mapping, edits>>
    BY <1>15, LookupEnds DEF treeVars
  <2> HIDE DEF TypeOK, JobOK, EncodesOK, MasterThere, Resting, Deserved, RestampIsEarned, NoMap
  <2> QED
    BY <2>1
<1> QED
  BY <1>1, <1>2, <1>3, <1>4, <1>5, <1>6, <1>7, <1>8, <1>9, <1>10, <1>11, <1>12, <1>13, <1>14, <1>15
     DEF Next, Upload, Delete, WorkerStep

-----------------------------------------------------------------------------
(* The theorems. *)

LEMMA InitOK == Init => TypeOK /\ TreeInv /\ RestInv
<1> SUFFICES ASSUME Init
             PROVE  TypeOK /\ TreeInv /\ RestInv
  OBVIOUS
<1> USE ConstantsOK DEF Init
<1>1. TypeOK
  BY NoJobType DEF TypeOK, JobType, Encode, Rung
<1>2. JobOK /\ EncodesOK
  BY DEF JobOK, EncodesOK, Encoding
<1>3. MasterThere /\ TiersOK /\ MasterLists /\ ReencodesOnlyStale
  BY DEF MasterThere, TiersOK, MasterLists, ReencodesOnlyStale, Rungs, Rung, NoMap
<1>4. ShownOK /\ OldPlaylistsPlay
  BY DEF ShownOK, OldPlaylistsPlay, Tag, Rung, Encode
<1>5. Resting /\ Deserved /\ RestampIsEarned
  BY DEF Resting, Deserved, RestampIsEarned, Encoding, NoMap
<1>6. DueInv
  BY DEF DueInv, Right, NoMap
<1> QED
  BY <1>1, <1>2, <1>3, <1>4, <1>5, <1>6 DEF TreeInv, RestInv

LEMMA StepOK == TypeOK /\ TreeInv /\ RestInv /\ [Next]_vars => (TypeOK /\ TreeInv /\ RestInv)'
<1> SUFFICES ASSUME TypeOK, TreeInv, RestInv, [Next]_vars
             PROVE  (TypeOK /\ TreeInv /\ RestInv)'
  OBVIOUS
<1> USE DEF TreeInv, RestInv
<1>1. TypeOK'
  BY TypeStep
<1>2. JobOK' /\ EncodesOK' /\ MasterThere'
  BY <1>1, JobStep, EncodesStep, MasterStep
<1>3. TiersOK' /\ MasterLists' /\ ShownOK' /\ OldPlaylistsPlay' /\ ReencodesOnlyStale'
  BY <1>1, TiersStep, MasterListsStep, ShownStep, OnlyStaleStep
<1>4. Resting' /\ Deserved' /\ RestampIsEarned' /\ DueInv'
  BY <1>1, RestingStep, DeservedStep, EarnedStep, DueStep
<1> QED
  BY <1>1, <1>2, <1>3, <1>4

\* All of it, always.
THEOREM ReencodeInvariant == Spec => [](TypeOK /\ TreeInv /\ RestInv)
BY InitOK, StepOK, PTL DEF Spec

\* Every variable keeps its type; in particular, whatever is replaced, refused and
\* retried, a content is encoded at most once more than requests may fail.
THEOREM TypeCorrect == Spec => []TypeOK
BY ReencodeInvariant, PTL

\* A playlist that was ever published leads to the bytes of its own encode for
\* ever: media are never overwritten, whatever is cut and encoded again.
THEOREM PlaylistsPlay == Spec => []OldPlaylistsPlay
<1>1. TreeInv => OldPlaylistsPlay
  BY DEF TreeInv
<1> QED
  BY <1>1, ReencodeInvariant, PTL

\* A master names renditions that have playlists, and those have their media.
THEOREM MastersResolve == Spec => []MasterResolves
<1>1. TypeOK /\ TreeInv => MasterResolves
  <2> SUFFICES ASSUME TypeOK, TreeInv,
                      NEW c \in Content, master[c] # None, NEW r \in Rungs(master[c])
               PROVE  lists[c][r] # None /\ media[c][<<r, Tag(lists[c][r])>>] # None
    BY DEF MasterResolves
  <2>1. r \in Rung /\ lists[c][r] # None
    BY DEF TreeInv, MasterLists, Rungs, Rung
  <2>2. <<c, r, lists[c][r]>> \in shown /\ lists[c][r] \in Encode
    BY <2>1 DEF TypeOK, TreeInv, ShownOK
  <2>3. media[c][<<r, Tag(lists[c][r])>>] = lists[c][r]
    BY <2>2 DEF TreeInv, OldPlaylistsPlay
  <2> QED
    BY <2>1, <2>3
<1> QED
  BY <1>1, ReencodeInvariant, PTL

\* No tree that is stamped as this encoder's is encoded again.
THEOREM OnlyStaleReencoded == Spec => []ReencodesOnlyStale
<1>1. TreeInv => ReencodesOnlyStale
  BY DEF TreeInv
<1> QED
  BY <1>1, ReencodeInvariant, PTL

\* While sources rest, only what is right is stamped.
THEOREM RestampsAreEarned == Spec => []RestampIsEarned
<1>1. RestInv => RestampIsEarned
  BY DEF RestInv
<1> QED
  BY <1>1, ReencodeInvariant, PTL

\* While sources rest, a wrong output has a mapping that will be checked.
THEOREM WrongAreDue == Spec => []WrongOutputsAreDue
<1>1. RestInv => WrongOutputsAreDue
  BY DEF RestInv, DueInv, WrongOutputsAreDue
<1> QED
  BY <1>1, ReencodeInvariant, PTL
=============================================================================
