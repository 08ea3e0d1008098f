# Verification of s3-hls-transcoder

TLA+ models of the worker that turns video files in S3 buckets into HLS: what it
writes, in which order, and what is left when a run is cut anywhere. TLC checks
the models on small instances; TLAPS proves the safety properties the runs check -
of the lock, both stores, re-encoding, the scheduler, the images, the daemon loop
and the ladder - for all values of their constants. Paths below are relative to the
repository root.

## 1. The system

There is no server and no database. Workers (Go: `core/`, `cmd/`; TypeScript:
`lib/`, with entry points for Lambda, Cloudflare and local use) are started by
cron or loop as daemons. All state is objects in a source bucket, which its
owners change at will, and a destination bucket, which workers write and clients
read. A worker may die after any request.

| Component | State it keeps | Operations | What makes it correct |
|---|---|---|---|
| Bucket lock (`core/lock.go`, `lib/src/lock.ts`) | `.transcoder.lock`, holder's body | acquire, take over a stale lock, release | one worker in a bucket; nobody removes another's lock; no lock stays for ever |
| Source processing (`core/orchestrator.go`, `lib/src/orchestrator.ts`) | `mappings/`, `by-id/`, `errors/`, leases | cache check, tombstone, download, dedup, lease, upload, fingerprint, metadata, mapping | a mapping plays; good sources get one, bad ones are given up |
| Reverse index (`core/refs.go`, `lib/src/refs.ts`) | `refs/<id>.json`, bounded | add, remove, list, backfill | it never misses a live reference |
| Cleanup (`core/cleanup.go`, `lib/src/cleanup.ts`) | none of its own | find orphans, decide per content, collect, delete mappings | collects only what nothing refers to; every orphan goes |
| Re-encoding (`core/ladder.go`, `core/hlstree.go`, `core/uploader.go`) | encoder versions in mapping and metadata, media names | check, restamp, encode again in place | old playlists go on playing; only wrong outputs are redone, and all of them |
| Scheduler (`core/scheduler.go`, `core/checkpoint.go`, `core/scan.go`) | tenant and source cursors | turns, listing, deadline, finalisation | no source is skipped or starved |
| Daemon loop (`core/serve.go`) | wake channel, timer, Redis list, HTTP endpoint | wait, wake, sweep, stop | no request is lost; the endpoint's death is noticed |
| Image worker (`core/image.go`, `core/pdq.go`) | `image-mappings/`, the same `errors/` | hash, clean up | every image that stays is hashed or given up; cleanup takes only mappings of images that are gone from where they were hashed |
| Fingerprints (`core/fingerprint*.go`) | `fingerprints/` | blob, index row, match | advisory only |
| Configuration (`core/config.go`) | none; fixed for a process | overlap rule, identity of buckets and pairs | progress written under one configuration does no harm under the next |
| Ladder arithmetic (`core/ladder.go`, `core/ffprobe.go`) | none; its results are in metadata | effective ladder, legacy layout check | frames as close to the source as even sides allow; only wrong old outputs are redone, once |
| ffmpeg, S3 and log wrappers, entry points | none | | |

They interact so: `Serve` starts a sweep; the sweep (`runScheduled`) takes the
bucket lock of each pair, calls `processSource` for one source per turn and the
cleanup pass at the end of a listing; both work on the same destination bucket
through the reverse index; `finalizeScheduledPairs` writes the cursors and
releases the locks. The image worker runs under the same scheduler and the same
lock. Whatever is durable (cursors, versions in mappings, ownership tags) is read
again by a process that may have another configuration.

What is hard here is that every operation is a sequence of requests on separate
objects with nothing atomic across them; that the source changes under the
worker; that a lock is a timestamp; and that progress must survive a budget that
may be too short for one source. `PROJECT.json` lists these hazards line by line
with the properties that watch each of them.

## 2. Modules

| Module | Models | Composed with |
|---|---|---|
| `BucketMutex` | what the lock promises | refined by `RunnerLock` |
| `RunnerLock` | Go lock, request by request | `MutexSpec` is `BucketMutex` under `holders <- Holders` |
| `LibLock` | the TypeScript lock | extends `RunnerLock`, replaces takeover and release |
| `Library` | what a destination bucket promises | refined by `ContentStore` and `LibStore` |
| `ContentStore` | one destination bucket: processing, reverse index, cleanup (Go) | assumes what `RunnerLock` shows; `LibrarySpec` is `Library` under its view |
| `LibStore` | the same under the TypeScript worker | `LibrarySpec` likewise |
| `Reencode` | `REENCODE_BELOW_VERSION`, tiers and names of an HLS tree | |
| `Scheduler` | sweeps over tenants, cursors, locks as flags, restarts with other pairs | extends `PairConfig`; its fairness to sources is what the stores assume |
| `PairConfig` | which buckets, inputs and lists of pairs count as the same | used by `Scheduler`, `ImageStore` |
| `ImageStore` | one destination bucket: image processing and cleanup | extends `PairConfig` |
| `Ladder` | `ladder.go` and the geometry of `ffprobe.go` as operators | used by `Layout` |
| `Layout` | one output over restarts with other ladders and thresholds | extends `Ladder`; `Reencode` has the same steps with failures |
| `Serve` | the daemon loop and its wake sources | a sweep is one step |
| `*_proof` | theorems and proofs of the module they are named after | |
| `MC_*` | instances for TLC | |

`MC_X_y.cfg` is a run of `MC_X`; `ContentStore`, `Serve` and `Reencode` need no
instance module and have a `.cfg` of their own name. `PROJECT.json` names all runs.

### RunnerLock, LibLock

A lock body is an element of `Id`; it stands for the random worker ID and for
the ETag. `age[i]` is the time since body `i` was stamped; `Tick` advances all.
Hosts' clocks differ by up to `Skew`, so near its TTL a body may be judged live
or stale. Each worker walks through `tryPutLock` (`put`), `readLockWithETag`
(`read`), the takeover's DELETE (`del`), the second PUT (`put2`), its run
(`hold`), and `Release`'s GET and DELETE (`relread`, `reldel`), one request per
step. A request whose answer is lost may already have been applied
(`PutResent`), may be lost, or may stand in `late` and arrive at any time later
(`Arrives`). `Prompt = TRUE` bounds a run by `Life`, which is the budget's
context plus the ten seconds of finalisation; `Prompt = FALSE` lets it overrun.

### ContentStore

One worker in the bucket (that is what the lock is for); its writes are single
steps. A read followed by the write it decides is one step, because nobody else
writes these objects while the lock is held. The source is the exception: its
listing (`Begin`) and its download (`Fetch`) are two steps with `Upload` and
`Delete` possible in between, and so are the enumeration of live sources
(`FindOrphans`) and every later step of the cleanup.

`tree[c]` holds, per content, the six objects that matter separately: media,
rendition playlists and master under `by-id/`, metadata, the fingerprint blob
and its index row. `UploadStage` writes them in the order of the code.
`WriteRef`, `WriteMapping`, `DropOldRef`, `Finish` are the tail of
`processSource`; `GcDecide` to `GcNext` the body of `RunCleanupPass`. A request
that fails is a source failure with its tombstone (`RequestFails`, and `LookupFails`
for the reads of mapping and tombstone, which precede the verdict of either), or is only
logged where the code only logs (`DropOldRefFails`, `ClearFails`). A run may be
cut anywhere (`RunCut`, `GcCut`), and a bulk delete may leave any subset behind
(`GcTreePartly`). A content stands for its bytes, ETag, size and SHA-256: two
uploads of the same bytes look alike to the worker, as they do for single-part
uploads in S3.

Two history variables say where documented promises already fail and keep the
remaining properties honest: `condemned` holds keys whose content a cleanup
began to delete while their mapping is still there, `broken` contents of which a
bulk delete left pieces. Both are set by faults only; the run `store_cutgc` and
section 3 show what happens to them.

Left out: `CLEANUP_DRY_RUN`, several pairs that share one source bucket,
`REENCODE_BELOW_VERSION` (module `Reencode`), requests that arrive late
(`RunnerLock` has them for the lock; for the store they would need a worker that
lost its lock).

The mapping to `Library` (`Taken`, `Shown`, `Theirs`, `Whole`, `Orphans`) is what can be
seen from outside: the downloaded content in hand, where mappings lead, which are
foreign, which contents have all they need to play, and the orphans of the pass under
way. Index, leases, tombstones, stages and the cleanup's locals are the store's own.
`Library` has a guard where the documentation has a promise: `Show` maps a key only to
what was downloaded from it and is playable (or `spoilt`), `Collect` takes a content
only if orphans and `dead` mappings are all that lead to it, `Hide` an orphan's mapping
only after its content or because another mapping keeps that alive, `FindOrphans` never
lists a foreign mapping. `spoilt` and `dead` stand for `broken` (`torn`) and `condemned`:
what faults leave behind is in the promise, not outside it.

### LibStore

The same bucket under the TypeScript code. It differs where the code does: files
of a tree are uploaded in any order; when one fails, others are still under way
(`flying`) and may `Land` after the source has been given up; there are no
tombstones; cleanup removes the index row before the refs. `torn` marks contents
of which an upload or a collection was given up half way.

### Reencode

Encodes of a content are numbered, 0 being the old encoder's. `lists[c][r]` is the
encode that rendition `r`'s playlist is from, `media[c][r, t]` the encode whose bytes
are under the names with tag `t`; `Tag` is what `newMediaTag` and `versionHLSTree` do.
`shown` remembers every rendition playlist a client may hold. The arithmetic of
`legacyLayoutWrong` is one predicate (`Wrong`), applied to what the key holds when it is
probed. `Bad` are contents that ffprobe refuses (`ProbeFails`) or that only the encoder
fails on (`EncodeFails`), though an older encoder may have made an output of them:
whether the probe of such a content fails is a choice of the step. `tomb` counts their
failures, also those of the legacy check, which comes before the tombstone is looked at
and so goes on being counted in every sweep. `MaxCount` is where the model's count stops
growing; that loses nothing, since the code asks of a count only whether it has reached
`TOMBSTONE_MAX_ATTEMPTS`, and `ConstantsOK` has `MaxAttempts <= MaxCount`. A failure and
the tombstone it leaves are one step; a tombstone that cannot be read or written
(`Miscount`) and one that is not cleared are faults, and so is a look-up that fails
(`LookupFails`), which counts against a source that may be cached or blocked.

### Scheduler, PairConfig

Pairs are numbered as configured, keys as listed. `start` and `offset` are the
two loops' counters; `st[p]` says whether a pair's scan is new, suspended, or
done with or without a lock; `page`, `more` and `pos` are the listing's iterator.
`ctx` is the context of a sweep: live, past its deadline, or cancelled, which is
all `finalizeScheduledPairs` distinguishes.

`conf` is the list of pairs of the process. `Reconfigure` starts the next process
on any list that `validateNoOverlaps` accepts; the objects of the last one stay:
`cursor[d]` is kept per destination and names the input it was written for,
`tenant[h]` per identity of the whole list. `PairConfig` has the rules by which
they are found or refused; an endpoint is a host and the way it is written. `due`
is history: the sources there when a scan began (the first of an input, or the one
after a scan that ended) that are there still and have not been tried.

### ImageStore

As `ContentStore`, without shared content: one mapping and one tombstone per
key, a listing (`Begin`) and a download (`Hash`) between which owners may act, a
cleanup that lists the source (`GcList`) and then goes through the mappings one
by one. A version stands for ETag and bytes, and, since the hash is a function
of the bytes, for the hash; `Bad` are those that cannot be hashed. A failed read of
mapping or tombstone (`LookupFails`) counts as a failure of the image, also of one that
is hashed already or given up. A mapping
carries the bucket and the endpoint it was hashed from, as they were written, and
`Repoint` gives the pair another source, spelling or prefix between two runs.
`replaced` and `returned` remember what owners did inside the two windows.

### Ladder, Layout

`Ladder` is arithmetic on exact rationals: rotation and pixel shape of a probed stream,
`scaleToShortEdge`, `computeEffectiveLadder` with the bitrate cap, `needsReframe` and
`versionBelow`. Rungs may have negative sides and bitrates, as `parseLadder` lets them,
and a display width may round to zero: the divisions by it give NaN or -Inf in the code,
whose conversions to an integer depend on the processor, but after doubling and `max`
(`roundEven`) both supported ones arrive at 2. `Layout` follows the output of one
content that several keys hold: an old encoder's output with or without metadata, or
none; encoded, checked, left alone, stamped; between any two steps the worker may be
started again with another ladder or threshold. Nothing fails here; `Reencode` has the
failures and interleavings and takes the arithmetic as one predicate.

### Serve

`wake` is the channel of capacity one. `watcher`, `hand` and `queue` are the
Redis side, `server` and `httpFailed` the HTTP side, `timer` the fallback timer.
`owed` and `asked` are uploads, and accepted requests, that no pass has begun
after; `lost` are requests that a Redis error took off the list.

## 3. What the runs show

Every property has been seen to fail on a wrong variant of the code: definitions
named `Mut...` hold these (a dropped condition, a swapped order, a missing reset),
stand beside the definition they replace, and are part of no run.

Passing runs (all finish; symmetry only over model values that Init and every
action treat alike, and never for liveness):

| Run | Bounds | Shows |
|---|---|---|
| `lock_prompt` | 2 workers, 5 bodies, skew 1, TTL 3, life 1, 2 faults | `HolderOwnsLock`, refinement of `BucketMutex` |
| `lock_overrun` | TTLs 1 and 2, runs without a bound on their length, 3 bodies, 2 faults | `RemovalJustified`, `LockGoesAway`, `BucketServed` |
| `store` | 2 keys, 2 contents, one legacy mapping, cap 1, 2 edits, 1 fault | `IndexNeverLosesRef`, `MappedIsPlayable`, refinement of `Library`, with references that move, the index below, at and beyond its cap; under fairness `GoodSourcePublished`, `OrphanMappingGoes` |
| `lib_store` | 2 keys, a good and a bad content, cap 1, 3 edits, 2 faults | the same three of the TypeScript worker |
| `sched` | 7 lists of pairs, of which 2 are refused; 2 keys, pages of 1, 1 edit or change of the list, 1 fault | `CursorSkipsNothing`, `EverySourceTried` |
| `serve` | 3 uploads, Redis and HTTP, 2 faults | `RequestStaysPending`, `UploadIsCovered`, `DeadEndpointSurfaces`, `SigtermStops` |
| `reencode` | 2 keys, one content to encode again and one upright that cannot be probed or encoded any more, a rung dropped and one added, 2 attempts, counts up to 3, 1 edit, 1 fault | `OldPlaylistsPlay`, `MasterResolves`, `ReencodesOnlyStale`, `RestampIsEarned`, `WrongOutputsAreDue`, `MigrationEnds`, `DownloadsEnd` |
| `layout` | 199 streams (19 sizes around the rungs, 3 pixel shapes, 3 rotations; degrees around the eighth turns, a width that rounds to 0; bitrates around the cap), 3 ladders of which one has negative rungs, 4 old layouts, 6 thresholds of which 3 are refused, 2 keys | `FramesFollowSource`, `LeftAloneIsTight`, `CheckedOnce` |
| `images` | 1 key, 2 buckets, 4 ways to configure the source, 3 versions of which 1 is bad, 3 edits, 1 fault | `LiveImageKeepsMapping`, `ImageDecided`, `OrphanImageGoes` |

Why the bounds are enough: sharing, moving and losing a reference need two keys;
overflow needs one key more than the cap, and the cap is a constant, so 1
stands for 1000 (the proofs hold for every cap). The violations below need one
fault and three edits or fewer. `store` checks safety and liveness on one
instance, and its safety half is proved for every instance (section 5). A lock
needs two rivals and the body they fight over; the larger run `lock_prompt` has
two bodies more, for delayed requests. The scheduler's cursor needs two sources
with a page boundary between them; the lists of pairs contain each change an
operator can make once: order, names, spelling, prefix, destinations swapped, a
pair removed. Images share nothing, so one key is enough; three edits are a
replacement, a change of the pair and a change back or a deletion. Sizes in
`layout` lie on, just below and just above the tests the arithmetic makes, in
both orientations and down to one pixel.

Runs that expect a violation each state something the repository says and the
code does not do; `PROJECT.json` quotes the line. In short:

- `lib_lock`: two TypeScript workers that take over one stale lock both run.
- `store_cutgc`: a cleanup cut between tree and mapping leaves a mapping to
  nothing, which a later upload of the same bytes turns into a cache hit for ever.
- `lib_rerun`: an upload that failed after `master.m3u8` is deduplicated onto.

While modelling, the code was also seen to part from the documentation in the
places below. The models contain this behaviour; no property requires the
contrary, and none of them is a run.

- A cached source leaves `processSource` before its tombstone is looked at
  (`core/orchestrator.go:66`): replaced by a broken file and put back, a key is
  both "ready" and "failed" (`docs/INTEGRATION.md:124` and `126`).
- The mapping that a cut cleanup leaves is in no index (`core/cleanup.go:107`), so
  the next collection of the same content does not count it.
- `DeleteByIDDirectory` ignores per-key errors (`core/dest.go:49`); a `master.m3u8`
  left behind passes for a complete output.
- A run cut between `master.m3u8` and metadata is never completed, because
  deduplication goes by the master (`core/orchestrator.go:122`).
- A pass that resumes at a cursor is not the full scan that `core/serve.go:48`
  names; later passes make up for it (`EverySourceTried`).
- Requests pushed to Redis during a pass may make two passes, not one
  (`core/serve.go:50-51`, `147`).
- A re-encode becomes visible rendition by rendition before its master is written
  (`core/uploader.go:76`, whose comment at line 39 says otherwise).
- The legacy check probes what the key holds now and stamps the metadata of the
  mapped content (`core/orchestrator.go:243-255`); a source replaced in between
  stamps an old output as right. Hence `RestampIsEarned` speaks of sources at rest.
- A new key with the bytes of an old output is deduplicated and stamped with this
  encoder's version unchecked (`core/orchestrator.go:126`, `326`). Hence
  `WrongOutputsAreDue` speaks of sources at rest.
- The TypeScript worker releases the lease of a failed source
  (`lib/src/orchestrator.ts:458`; `SPEC.md:129` says it is left to expire).
- A source replaced between listing and download (`core/orchestrator.go:107`) is
  mapped under the listed ETag. Put back, it is a cache hit that plays the other
  bytes, while `docs/INTEGRATION.md:124` calls a matching mapping "ready". The same
  holds for the hash of an image (`core/image.go:196`), hence the exception
  `replaced` in `ImageDecided`.
- An old output whose source cannot be probed is tried past
  `TOMBSTONE_MAX_ATTEMPTS`, because the legacy check (`core/orchestrator.go:71`)
  comes before the tombstone check (line 83); each failure is counted, past the
  maximum (`ProbeFails`). Only the download behind it ends (`DownloadsEnd`).
- A failed read of a mapping or a tombstone is counted against its source
  (`core/scheduler.go:184-189`): a cached one then has a tombstone, a blocked one a
  count past `TOMBSTONE_MAX_ATTEMPTS` (`LookupFails`).
- `SPEC.md:204` caps bitrates at 1.25 times the source's; the code also multiplies
  by the codec's efficiency (`core/ladder.go`, `Worth`), and does not cap sources
  of other codecs.
- "The lowest rung" for a source below the ladder (`core/ladder.go:40`,
  `SPEC.md:203`) is the first that is configured (`Picked`).
- `parseLadder` lets negative sides, negative bitrates and equal names through, and
  anamorphic streams of very few pixels can have a display width of zero. `Layout`
  has all but the names, which are no part of it: a rung with a negative side is
  published with sides of 2, a negative bitrate is recorded as it is.
- The check of an old output calls every anamorphic source wrong; once a later
  encoder raises the threshold, right outputs of this encoder will be encoded
  again for them.
- `SPEC.md:169` lets pairs share a destination; `validateNoOverlaps` does not.
  `docs/INTEGRATION.md:28` speaks of prefixes; the code ignores them.
- The image cleanup compares endpoints as written (`core/image.go:127`). After an
  endpoint is spelled another way, cached mappings keep the old tag, and when
  their image goes they stay. Hence the condition in `OrphanImageGoes`.
- `LOCK_TTL_MULTIPLIER` and `BUDGET_MULTIPLIER` are not compared with each other
  (`core/config.go:106`); `BudgetWithinTTL` in `RunnerLock` is that comparison.

`CHECK_DEADLOCK FALSE` is set for the stores and for re-encoding: with edits and
faults spent and nothing left to publish or collect, no step is left, and that is
a bucket at rest, not a deadlock. Lock, scheduler, daemon, images and layouts
never rest, and there deadlock is checked.

## 4. Fairness

- `RunnerLock`: cron starts runs again and again, requests are answered unless a
  fault is spent, time passes.
- `Scheduler`: sweeps follow one another and each goes on; locks age out. With
  `Generous`, a sweep's budget covers the start of one source; nothing is assumed
  about its end.
- `ContentStore`, `Reencode`: the worker goes on with what it has begun. `Begin`
  of every key and `FindOrphans` are strongly fair because the scheduler comes
  back to every source and every cleanup, though they are disabled whenever
  another source is worked on. `EverySourceTried` is that assumption as a checked
  property of `Scheduler`.
- `ImageStore`: likewise for `Begin` of every key and `GcList`.
- `Serve`: passes end within their budget, goroutines are scheduled, the timer
  runs, a supervisor restarts. `EndpointFailed` is strongly fair because Go's
  `select` picks at random among ready cases.

No fairness is given to owners, faults, crashes or restarts of a live process.

## 5. What is proved

`RunnerLock_proof`, from `ConstantsOK` and, for `MutualExclusion` and
`LockImplementsMutex`, from `Prompt` and `BudgetWithinTTL` (runs end in time, and the
life of a run plus skew is less than the TTL it writes):

- `TypeCorrect`: `TypeInv` (types, and which local is set where).
- `MutualExclusion`: `HolderOwnsLock`. It is not inductive: a holder's object
  might be deleted by somebody who read it earlier. The invariant `LockInv` adds
  that a body is with its writer or stored (`BodyOwned`), that a body which is
  still to be put is neither stored nor aimed at (`NotYetStored`), and that while
  its worker is at work a body is younger than the time the run has used
  (`YoungEnough`), so that it cannot be judged stale.
- `LockImplementsMutex`: the refinement of `BucketMutex`, step by step.
- `RemovalIsJustified`: needs no timing, hence also covers runs that overrun.

`ContentStore_proof`, from `ConstantsOK` alone, so for any finite set of keys,
any contents, cap, edits and faults:

- `StoreTypeCorrect`: `TypeOK`, including the bound on every index.
- `IndexIsComplete`, `MappingsArePlayable`, `GcSparesLiveContent`, all from one
  inductive invariant `StoreInv`, whose parts say in which order things come to
  be: what the worker knows of its job (`JobOK`) and of the content it collects
  (`GcOK`), a master only over media and renditions (`MasterLast`), a mapping
  only over a master (`MappedHasMaster`), content that is being transcoded
  referred to by condemned leftovers only (`FreshIsUnreferenced`), the reference
  before the mapping (`RefBeforeMapping`), whoever refers to the content under
  collection an orphan, condemned or in the live set (`LiveIsComplete`), what is
  under collection condemned (`CollectedIsCondemned`). `GcSparesLiveContent`, of any
  object of a content, is stronger in this than `Library`, which sees what plays.
- `StoreImplementsLibrary`: the refinement of `Library`, one lemma per action that is a
  step there (`FetchTakes`, `UploadPublishes`, `WriteMappingShows`, `FindOrphansFinds`,
  `GcTreeCollects`, `GcMappingHides`, `ReleaseLemma`); every other action is a stutter.
  It needs `GcHand` beside `StoreInv`: what cleanup keeps a content for does lead to
  it, and what it is after is ours.

`Layout_proof`, from `ConstantsOK` (streams with a coded size, ladders that are not
empty and have no zeros, which are what `parseProbeOutput` and `parseLadder` let
through):

- `LayoutTypeCorrect`: no zero gets into metadata, neither by way of rounding nor
  by a display width of zero.
- `FramesAreClosest` rests on lemmas about the operators of `Ladder`: rounding is
  to the nearest (`RoundNearest`), a published side is even, at least 2 and within
  the source's (`SideType`), and neither even neighbour of it is both within the
  source and closer (`SideClosest`, by cases: the rounded value is within, it is not
  positive, or the source's own size is the bound). `LadderFollowsSource` lifts this to
  the ladder; sizes, pixel shapes, rotations and signs of rungs are arbitrary. The
  source's own sides are not taken from the code on trust: `ShownAs` says what they
  must be of any stream, and `ProbeType` that `Probe` finds them.
- `LeftAloneOutputsAreTight`: what the check leaves alone is not anamorphic, is
  compared as it is displayed (`RotationType`), and an aspect within 0.02 bounds
  the bars (`Bars`).
- `OutputsAreCheckedOnce`: no accepted threshold is above this encoder
  (`OwnVersionIsFine`), and what was probed or encoded carries its version
  (`Stamped`, the part that makes the invariant inductive).

`ImageStore_proof`, from `ConstantsOK`: `LiveImagesKeepMappings`, from an invariant
that says what the worker knows of its image (`JobOK`) and that what cleanup did
not list is not there, or came back since (`LiveIsComplete`). Only cleanup removes
a mapping (`OnlyGcRemoves`), and a tag equal to the pair's names the bucket that was
listed (`TagNamesLocation`, `OrphanIsGone`). `ImagesTypeCorrect`: a mapping never has the
hash of a bad image, and a count goes past `TOMBSTONE_MAX_ATTEMPTS` only by failed
requests, once for each.

`Serve_proof`, from `ConstantsOK`: `RequestsStayPending`, which is inductive with the
types.

`LibStore_proof`, from `ConstantsOK`: `LibTypeCorrect`, `LibIndexIsComplete`,
`LibMappingsArePlayable`, `LibGcSparesLiveContent`, `LibStoreImplementsLibrary`. The argument is that of
`ContentStore_proof` without an order of files: an upload that outlives its source is
of torn content (`FlyingIsTorn`), what the worker has still `todo` is all its content
lacks (`UploadOK`), and a master stands over a whole tree or a torn one
(`MasterIsWhole`). Deleting the index row before the references changes where content
under collection must be condemned (`CollectedIsCondemned`), nothing else. In the refinement
a file that lands after its source was given up publishes a `spoilt` content, and the
failure of an upload tears what nothing live leads to (`FailureTears`).

`Reencode_proof`, from `ConstantsOK`, for any sources, ladders, attempts, edits and faults:

- `PlaylistsPlay`, `MastersResolve`, `OnlyStaleReencoded`. Media are never overwritten
  because the encode in hand has a number no playlist shown so far has (`ShownOK`),
  and each tier is complete before the next (`TiersOK`), so that a master, old or
  new, names renditions with playlists (`MasterLists`). That what is stamped is not
  encoded again needs the mapping that was checked to stay while its source is
  downloaded (`JobOK`).
- `RestampsAreEarned`, `WrongAreDue`, for sources that rest: what is listed, downloaded
  and mapped is then one content (`Resting`), and what is about to be stamped was found
  right (`Deserved`).
- `TypeCorrect` has content in it: a content is encoded at most once more than requests
  fail (`EncodesOK`). It puts no bound on the failures that are counted, because the code
  has none.

`Scheduler_proof`, from `ConstantsOK` (any lists of pairs `validateNoOverlaps` accepts, in
any sequence): `SchedulerTypeCorrect` and `NothingIsSkipped`. `CursorSkipsNothing` is not
inductive: the cursor a sweep will write follows from its scans. `ScanInv` says that an
open scan has completed, attempted and listed keys in that order (`ScanOK`); that what is
due to it is on the page, not listed yet or in process, and beyond what the sweep would
save (`DueIsAhead`); and that it is after the durable cursor (`DueIsAfterCursor`), also
while no scan is open. A page is an initial segment of what is left, which needs the
least and the greatest key of a set to exist: `LeastExists` gets them from the
well-foundedness of `<`, without an induction.

Checked by TLC only: everything that depends on fairness, which the prover does
not support (`LockGoesAway`, `BucketServed`, `GoodSourcePublished`,
`OrphanMappingGoes`, `EverySourceTried`, `UploadIsCovered`, `DeadEndpointSurfaces`,
`SigtermStops`, `MigrationEnds`, `DownloadsEnd`, `ImageDecided`, `OrphanImageGoes`). The proofs
cover the abstractions named in section 2 and no more.

## 6. Plan

Done: the lock and the stores with their abstract specifications, the scheduler with
changing configurations, the daemon loop, re-encoding, ladder arithmetic and images;
every safety property a run checks is proved. To come: `Reencode` as an
implementation of `Library` too (an encode in place never takes a playable content
from `whole`), and the abstract promise of a scheduler, that each scan tries what was
there from its beginning to its end.

### Not modelled

- The order in which a TypeScript sweep visits pairs and sources
  (`lib/src/orchestrator.ts:186`): it starts at the first source of the first pair
  every time, so with short budgets a slow source starves the others, and there is
  no promise in it to check. Two TypeScript workers on one index
  (`lib/src/refs.ts:125`): `lib_lock` shows that they can meet, after which every
  read followed by a write may be lost.
- Pieces a bulk delete leaves behind (`core/dest.go:49`) are in `ContentStore`
  (`GcTreePartly`), but no property is asked of such contents.
- The rewriting of playlist text, ffmpeg and ffprobe as processes, S3, JSON and
  logging wrappers, reading the environment, and the entry points: I/O and
  formatting; a request or a subprocess is a step that succeeds or fails.
- Similarity of frames and fingerprints, and how their matches are searched:
  advisory, and nothing is written because of it.
