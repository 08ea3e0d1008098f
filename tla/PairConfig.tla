------------------------------ MODULE PairConfig ------------------------------
(***************************************************************************)
(* What the worker takes for the same bucket, the same input and the same  *)
(* list of pairs: the rule of core/config.go on which pairs may run        *)
(* together and the identities under which core/checkpoint.go keeps        *)
(* progress.  A pair is a record name, source, dest; a bucket is a record  *)
(* endpoint, bucket, prefix.  An endpoint is a record host, spelling: the  *)
(* same host can be written in many ways (case, path, trailing slash).     *)
(***************************************************************************)
EXTENDS Naturals, Sequences

CONSTANT NoName     \* the name of a pair that has none

normalizeEndpoint(e) == e.host

Location(b) == <<normalizeEndpoint(b.endpoint), b.bucket>>

sameBucketLocation(a, b) == Location(a) = Location(b)

BucketsOverlap(a, b) == sameBucketLocation(a, b)

\* Names are unique, every destination has one pair, and no pair reads from a
\* destination; a source may feed several pairs.  Prefixes do not count.
validateNoOverlaps(pairs) ==
    /\ pairs # <<>>
    /\ \A i, j \in DOMAIN pairs :
          /\ i # j => /\ pairs[i].name = pairs[j].name => pairs[i].name = NoName
                      /\ ~sameBucketLocation(pairs[i].dest, pairs[j].dest)
          /\ ~BucketsOverlap(pairs[i].source, pairs[j].dest)

\* Wrong variant: only the buckets' names are compared.
MutSameInput(a, b) == a.bucket = b.bucket

\* Whether a source cursor was written for this input.
SameInput(a, b) == sameBucketLocation(a, b) /\ a.prefix = b.prefix

\* The object that remembers whose turn it is: a hash of these identities.
tenantCheckpointKey(pairs) ==
    [i \in DOMAIN pairs |->
        Location(pairs[i].source) \o <<pairs[i].source.prefix>> \o Location(pairs[i].dest)]
===============================================================================
