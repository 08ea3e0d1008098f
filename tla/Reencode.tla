------------------------------- MODULE Reencode --------------------------------
(***************************************************************************)
(* REENCODE_BELOW_VERSION (core/orchestrator.go, core/ladder.go): outputs  *)
(* of encoders before 0.2.0 are checked and, where they were laid out      *)
(* wrongly, encoded again over the same by-id/<contentId>/ tree while      *)
(* clients play it; and the order in which UploadDirectory                 *)
(* (core/uploader.go) publishes a tree under names that newMediaTag        *)
(* (core/transcode.go) makes unique.                                       *)
(*                                                                         *)
(* One worker in the bucket (module RunnerLock).  Nothing is collected     *)
(* here; leases, the reverse index and the fingerprints, on which nothing  *)
(* below depends, are in module ContentStore.                              *)
(*                                                                         *)
(* Encodes of a content are numbered; 0 is the one of the old encoder.     *)
(***************************************************************************)
EXTENDS Naturals, FiniteSets

CONSTANTS
    Key, Content,
    Upright,    \* contents that the old encoder laid out as the new one does
    Bad,        \* contents that ffprobe refuses, or only the encoder fails on
    OldRungs,   \* renditions of the old encoder's outputs
    NewRungs,   \* renditions of this encoder's outputs
    None,
    MaxAttempts,\* TOMBSTONE_MAX_ATTEMPTS
    MaxCount,   \* failures are told apart up to this many; past MaxAttempts a
                \* sweep asks for no more than that (Blocks)
    MaxEdits,   \* uploads and deletions that are explored
    MaxFaults   \* failed requests and cut runs that are explored

ASSUME ConstantsOK ==
    /\ None \notin Key \cup Content \cup OldRungs \cup NewRungs
    /\ None \notin Nat \cup {"old", "new"}
    /\ Upright \subseteq Content /\ Bad \subseteq Content
    /\ MaxAttempts \in Nat \ {0} /\ MaxCount \in Nat /\ MaxAttempts <= MaxCount
    /\ MaxEdits \in Nat /\ MaxFaults \in Nat

VARIABLES
    source,     \* source[k]: what the source bucket holds under k
    mapping,    \* mapping[k]: listed version, content, and which encoder stamped it
    tomb,       \* tomb[k]: errors/<k>.json
    meta,       \* meta[c]: the encoder that stamped metadata.json, or None
    master,     \* master[c]: the encode master.m3u8 is from, or None
    lists,      \* lists[c][r]: the encode r's playlist is from, or None
    media,      \* media[c][r, t]: the encode whose bytes are under r's names with tag t
    encodes,    \* encodes[c]: number of the latest encode
    pc, job,    \* the worker, and the source it is at
    shown,      \* history: <<c, r, e>> of every rendition playlist ever published
    edits, faults

treeVars == <<master, lists, media, encodes, shown>>
vars == <<source, mapping, tomb, meta, master, lists, media, encodes, pc, job, shown,
          edits, faults>>

\* The old encode, one of this encoder, and one more for each fault.
Encode == 0..(MaxFaults + 1)
Rung   == OldRungs \cup NewRungs
Rungs(e) == IF e = 0 THEN OldRungs ELSE NewRungs

\* Wrong variant: media names carry the encoder version only.
MutTag(e) == IF e = 0 THEN 0 ELSE 1

\* newMediaTag: the encoder version and a random generation, of which none occurs twice.
Tag(e) == e

NoMap == [ver |-> None, cid |-> None, enc |-> "old"]
NoTomb == [ver |-> None, n |-> 0]
NoJob == [key |-> None, ver |-> None, cid |-> None, re |-> FALSE, put |-> {}]

TypeOK ==
    /\ source \in [Key -> Content \cup {None}]
    /\ mapping \in [Key -> [ver : Content, cid : Content, enc : {"old", "new"}] \cup {NoMap}]
    /\ tomb \in [Key -> {NoTomb} \cup [ver : Content, n : 1..MaxCount]]
    /\ meta \in [Content -> {"old", "new", None}]
    /\ master \in [Content -> Encode \cup {None}]
    /\ lists \in [Content -> [Rung -> Encode \cup {None}]]
    /\ media \in [Content -> [Rung \X Encode -> Encode \cup {None}]]
    /\ encodes \in [Content -> Encode]
    /\ pc \in {"idle", "check", "stamp", "restamp", "fetch", "media", "lists", "master",
               "meta", "map"}
    /\ job \in [key : Key \cup {None}, ver : Content \cup {None}, cid : Content \cup {None},
                re : BOOLEAN, put : SUBSET Rung]
    /\ shown \subseteq Content \X Rung \X Encode
    /\ edits \in 0..MaxEdits /\ faults \in 0..MaxFaults

\* Any sources; some have an output of the old encoder, the oldest of which
\* have no metadata.
Init ==
    /\ source \in [Key -> Content \cup {None}]
    /\ mapping \in [Key -> {NoMap} \cup [ver : Content, cid : Content, enc : {"old"}]]
    /\ \A k \in Key : mapping[k] # NoMap =>
        mapping[k].cid = mapping[k].ver /\ source[k] = mapping[k].ver
    /\ tomb = [k \in Key |-> NoTomb]
    /\ LET old == {c \in Content : \E k \in Key : mapping[k].cid = c} IN
        /\ meta \in [Content -> {"old", None}]
        /\ \A c \in Content \ old : meta[c] = None
        /\ master = [c \in Content |-> IF c \in old THEN 0 ELSE None]
        /\ lists = [c \in Content |-> [r \in Rung |->
                        IF c \in old /\ r \in OldRungs THEN 0 ELSE None]]
        /\ media = [c \in Content |-> [x \in Rung \X Encode |->
                        IF c \in old /\ x \in OldRungs \X {0} THEN 0 ELSE None]]
        /\ shown = old \X OldRungs \X {0}
    /\ encodes = [c \in Content |-> 0]
    /\ pc = "idle" /\ job = NoJob
    /\ edits = 0 /\ faults = 0

\* The owners upload, replace and delete sources.
Edit(k, v) ==
    /\ edits < MaxEdits
    /\ source[k] # v
    /\ source' = [source EXCEPT ![k] = v]
    /\ edits' = edits + 1
    /\ UNCHANGED <<mapping, tomb, meta, treeVars, pc, job, faults>>

Upload(k, c) == Edit(k, c)
Delete(k)    == Edit(k, None)

-----------------------------------------------------------------------------
(* The mapping cache check, and what replaces it for old outputs. *)

IsCached(k) == mapping[k].ver = source[k]

Blocks(k, v) == tomb[k].ver = v /\ tomb[k].n >= MaxAttempts

\* A listed source without a mapping of this encoder for the listed version; the
\* look-ups succeed (see LookupFails).
Begin(k) ==
    /\ pc = "idle"
    /\ source[k] # None
    /\ \/ IsCached(k) /\ mapping[k].enc = "old" /\ pc' = "check"
       \/ ~IsCached(k) /\ ~Blocks(k, source[k]) /\ pc' = "fetch"
    /\ job' = [NoJob EXCEPT !.key = k, !.ver = source[k]]
    /\ UNCHANGED <<source, mapping, tomb, meta, treeVars, edits, faults>>

\* Wrong variant: an output without metadata passes for right.
MutWrong(c, m) == c \notin Upright /\ m # None

\* No record of the old output, or the shape of what was probed does not fit it.
Wrong(c, m) == m = None \/ c \notin Upright

\* legacyOutputNeedsReencode, up to its writes: the metadata of the mapped
\* content, then a probe of what the key holds now (see SourceFails for one that
\* is refused).  The tombstone is looked at once the output was found wrong.
Check ==
    LET m == meta[mapping[job.key].cid] IN
    /\ pc = "check"
    /\ \/ m = "new" /\ pc' = "restamp" /\ UNCHANGED job
       \/ /\ m # "new" /\ source[job.key] # None
          /\ \/ ~Wrong(source[job.key], m) /\ pc' = "stamp" /\ UNCHANGED job
             \/ /\ Wrong(source[job.key], m)
                /\ IF Blocks(job.key, job.ver)
                   THEN pc' = "idle" /\ job' = NoJob
                   ELSE pc' = "fetch" /\ job' = [job EXCEPT !.re = TRUE]
    /\ UNCHANGED <<source, mapping, tomb, meta, treeVars, edits, faults>>

\* The layout is already right: the metadata is stamped, then the mapping.
StampMetadata ==
    /\ pc = "stamp"
    /\ meta' = [meta EXCEPT ![mapping[job.key].cid] = "new"]
    /\ pc' = "restamp"
    /\ UNCHANGED <<source, mapping, tomb, treeVars, job, edits, faults>>

\* Wrong variant: the mapping is written back with the version it had.
MutRestamped(m) == m

Restamped(m) == [m EXCEPT !.enc = "new"]

RestampMapping ==
    /\ pc = "restamp"
    /\ mapping' = [mapping EXCEPT ![job.key] = Restamped(@)]
    /\ pc' = "idle" /\ job' = NoJob
    /\ UNCHANGED <<source, tomb, meta, treeVars, edits, faults>>

-----------------------------------------------------------------------------
(* Download, deduplication, encode, upload. *)

\* Wrong variant: what was downloaded is not compared with the mapping.
MutStillApplies(c) == job.re

\* Wrong variant: an existing output is always taken for a duplicate.
MutNeverApplies(c) == FALSE

\* reencodeStillApplies: the bytes downloaded are those the mapping was about.
StillApplies(c) == job.re /\ mapping[job.key].cid = c

Fetch ==
    LET c == source[job.key] IN
    /\ pc = "fetch"
    /\ c # None
    /\ \/ /\ master[c] # None /\ ~StillApplies(c)
          /\ pc' = "map"
          /\ UNCHANGED encodes
       \/ /\ c \notin Bad
          /\ master[c] = None \/ StillApplies(c)
          /\ encodes' = [encodes EXCEPT ![c] = @ + 1]
          /\ pc' = "media"
    /\ job' = [job EXCEPT !.cid = c]
    /\ UNCHANGED <<source, mapping, tomb, meta, master, lists, media, shown, edits, faults>>

\* Wrong variant: the media and the playlists are one tier.
MutTierDone == pc = "media"

\* Every file of a tier is there before the next tier starts.
TierDone == job.put = NewRungs

PutMedia(r) ==
    LET c == job.cid e == encodes[job.cid] IN
    /\ pc = "media"
    /\ r \in NewRungs \ job.put
    /\ media' = [media EXCEPT ![c][<<r, Tag(e)>>] = e]
    /\ job' = [job EXCEPT !.put = @ \cup {r}]
    /\ UNCHANGED <<source, mapping, tomb, meta, master, lists, encodes, shown, pc, edits, faults>>

PutList(r) ==
    LET c == job.cid e == encodes[job.cid] IN
    /\ pc = "lists"
    /\ r \in NewRungs \ job.put
    /\ lists' = [lists EXCEPT ![c][r] = e]
    /\ shown' = shown \cup {<<c, r, e>>}
    /\ job' = [job EXCEPT !.put = @ \cup {r}]
    /\ UNCHANGED <<source, mapping, tomb, meta, master, media, encodes, pc, edits, faults>>

NextTier ==
    /\ pc \in {"media", "lists"}
    /\ TierDone
    /\ pc' = IF pc = "media" THEN "lists" ELSE "master"
    /\ job' = [job EXCEPT !.put = {}]
    /\ UNCHANGED <<source, mapping, tomb, meta, treeVars, edits, faults>>

PutMaster ==
    /\ pc = "master"
    /\ master' = [master EXCEPT ![job.cid] = encodes[job.cid]]
    /\ pc' = "meta"
    /\ UNCHANGED <<source, mapping, tomb, meta, lists, media, encodes, shown, job, edits, faults>>

PutMetadata ==
    /\ pc = "meta"
    /\ meta' = [meta EXCEPT ![job.cid] = "new"]
    /\ pc' = "map"
    /\ UNCHANGED <<source, mapping, tomb, treeVars, job, edits, faults>>

Fault == faults < MaxFaults /\ faults' = faults + 1

\* buildMapping: the listed version, the content found, this encoder's version.
\* Then the tombstone goes, unless that fails or is cut off.
PutMapping ==
    /\ pc = "map"
    /\ mapping' = [mapping EXCEPT ![job.key] = [ver |-> job.ver, cid |-> job.cid, enc |-> "new"]]
    /\ pc' = "idle" /\ job' = NoJob
    /\ \/ tomb' = [tomb EXCEPT ![job.key] = NoTomb] /\ UNCHANGED faults
       \/ tomb' = tomb /\ Fault
    /\ UNCHANGED <<source, meta, treeVars, edits>>

-----------------------------------------------------------------------------
(* Failures. *)

GiveUp ==
    /\ pc' = "idle" /\ job' = NoJob
    /\ UNCHANGED <<source, mapping, meta, treeVars, edits>>

\* Wrong variant: every failure is the first.
MutAttempts(k, v) == 1

\* The same version's failures and one more, saturating at MaxCount.
Attempts(k, v) ==
    IF tomb[k].ver # v THEN 1
    ELSE IF tomb[k].n < MaxCount THEN tomb[k].n + 1 ELSE MaxCount

\* writeFailureTombstone, in the legacy check as anywhere else.
Count(k, v, n) == tomb' = [tomb EXCEPT ![k] = [ver |-> v, n |-> n]]

CountFailure == Count(job.key, job.ver, Attempts(job.key, job.ver))

\* One that cannot be read is taken for none, and one that cannot be written is
\* only logged.
Miscount == Count(job.key, job.ver, 1) \/ UNCHANGED tomb

\* The probe of the legacy check finds no source, or ffprobe refuses it; this is
\* counted in every sweep, since no tombstone has been looked at so far.
ProbeFails ==
    /\ pc = "check"
    /\ meta[mapping[job.key].cid] # "new"
    /\ source[job.key] \in Bad \cup {None}

\* The source is gone when it is downloaded, or cannot be encoded.
EncodeFails ==
    LET c == source[job.key] IN
    /\ pc = "fetch"
    /\ c = None \/ (c \in Bad /\ (master[c] = None \/ StillApplies(c)))

SourceFails ==
    /\ ProbeFails \/ EncodeFails
    /\ GiveUp
    /\ \/ CountFailure /\ UNCHANGED faults
       \/ Miscount /\ Fault

\* The mapping or the tombstone cannot be read, of a source that may be cached or
\* blocked all the same.
LookupFails(k) ==
    /\ Fault
    /\ pc = "idle"
    /\ source[k] # None
    /\ \E n \in {1, Attempts(k, source[k])} : Count(k, source[k], n)
    /\ UNCHANGED <<source, mapping, meta, treeVars, pc, job, edits>>

\* A later request fails; or the lease is busy, the run is cut or the process dies,
\* which count as no failure of the source.
RunFails ==
    /\ Fault
    /\ pc # "idle"
    /\ GiveUp
    /\ CountFailure \/ Miscount

-----------------------------------------------------------------------------
WorkerStep ==
    \/ Check \/ StampMetadata \/ RestampMapping \/ Fetch
    \/ \E r \in Rung : PutMedia(r) \/ PutList(r)
    \/ NextTier \/ PutMaster \/ PutMetadata \/ PutMapping \/ SourceFails

Next ==
    \/ \E k \in Key : Delete(k) \/ \E c \in Content : Upload(k, c)
    \/ \E k \in Key : Begin(k)
    \/ WorkerStep
    \/ \E k \in Key : LookupFails(k)
    \/ RunFails

Spec == Init /\ [][Next]_vars

\* A sweep goes on with what it has begun, and the scheduler passes over no
\* source for ever (module Scheduler).
Fairness == WF_vars(WorkerStep) /\ \A k \in Key : SF_vars(Begin(k))
FairSpec == Spec /\ Fairness

-----------------------------------------------------------------------------
(* Properties. *)

\* INTEGRATION.md:231, "A re-encode in place never overwrites media, so a client
\* holding an old playlist keeps playing": whatever encodes were cut and tried
\* again since, the names in every rendition playlist that was ever published
\* lead to the bytes of the encode it is from.
OldPlaylistsPlay ==
    \A x \in shown : media[x[1]][<<x[2], Tag(x[3])>>] = x[3]

\* uploader.go:37-39, "a reader never sees a playlist before what it references":
\* renditions that the master names have playlists, and a playlist has its media.
MasterResolves ==
    \A c \in Content : master[c] # None =>
        \A r \in Rungs(master[c]) :
            lists[c][r] # None /\ media[c][<<r, Tag(lists[c][r])>>] # None

\* ladder.go, reencodeStillApplies: when the source is replaced between the
\* check and the download, no tree that needs nothing is encoded again.
ReencodesOnlyStale ==
    pc \in {"media", "lists", "master"} => meta[job.cid] # "new"

Right(c) == master[c] # 0 \/ c \in Upright

\* orchestrator.go:225-228: while sources rest, content is stamped as checked
\* only when it has been encoded again or its old layout was right, whatever is
\* cut in between.
RestampIsEarned ==
    edits = 0 => \A c \in Content : meta[c] = "new" => Right(c)

\* PLAN.md:62-68, a worker with the switch on "fixes existing outputs": while
\* sources rest, one that has a mapping and is wrong has a mapping of the old
\* encoder, through which a sweep will check it.
WrongOutputsAreDue ==
    edits = 0 => \A c \in Content : (\E k \in Key : mapping[k].cid = c) /\ ~Right(c) =>
        \E k \in Key : mapping[k].cid = c /\ mapping[k].enc = "old"

\* PLAN.md:68 and config.go:131-132: checking ends; the mapping of a source that
\* stays carries its version and this encoder's in the end, unless this encoder
\* cannot encode it and it was given up.
MigrationEnds ==
    \A k \in Key, c \in Content :
        <>[](source[k] = c) =>
        <>[](\/ mapping[k].ver = c /\ mapping[k].enc = "new"
             \/ c \in Bad /\ Blocks(k, c))

\* INTEGRATION.md:153, "After TOMBSTONE_MAX_ATTEMPTS (default 3) the file stops
\* being retried": a source that stays is downloaded finitely often, also when
\* every sweep finds its old output wrong and cannot encode it again.
DownloadsEnd ==
    \A k \in Key, c \in Content :
        <>[](source[k] = c) => <>[](pc = "fetch" => job.key # k)
=============================================================================
