---------------------------- MODULE Scheduler_proof ----------------------------
(***************************************************************************)
(* Proofs about Scheduler, for any lists of pairs the operator goes        *)
(* through, any number of keys and prefixes, every page size and any       *)
(* number of edits and faults.                                             *)
(***************************************************************************)
EXTENDS Scheduler, TLAPS, FiniteSetTheorems, SequenceTheorems

\* The pair whose turn it is.
Current == (start + offset) % N

\* A source is in process in an open scan; no scan outlives its sweep.
PlaceOK ==
    /\ pc \in {"turn", "proc"} => offset < N
    /\ pc = "idle" => offset = 0 /\ \A p \in Pair : st[p] = "new"
    /\ pc = "proc" => st[Current] = "open"
    /\ \A p \in Pair : st[p] = "new" => attempted[p] = NoKey /\ completed[p] = NoKey

\* An open scan goes forward: what was completed, what was attempted, what is
\* listed, what is not listed yet.
ScanOK ==
    \A p \in Pair : st[p] = "open" =>
        /\ completed[p] <= attempted[p] /\ attempted[p] <= pos[p]
        /\ \A k \in page[p] : attempted[p] < k /\ k <= pos[p]
        /\ pc = "turn" \/ (pc = "proc" /\ p # Current) => completed[p] = attempted[p]
        /\ pc = "proc" /\ p = Current => completed[p] < attempted[p]

\* What is due is there to be listed.
DueIsThere ==
    \A d \in Target, b \in Sources, k \in Key :
        <<Input(b), k>> \in due[d] => k \in present[Location(b)] /\ k \in Under[b.prefix]

\* What is due to an open scan is ahead of it, or in process.
DueIsAhead ==
    \A p \in Pair, k \in Key :
        st[p] = "open" /\ <<Input(From(p)), k>> \in due[Dest(p)] =>
            /\ pc \in {"turn", "proc"} =>
                  \/ k \in page[p]
                  \/ more[p] /\ pos[p] < k
                  \/ pc = "proc" /\ p = Current /\ k = attempted[p]
            /\ pc = "save" => SaveKey(p) < k

\* What is due is after the durable cursor of its destination.
DueIsAfterCursor ==
    \A d \in Target, k \in Key :
        cursor[d] # None /\ <<Input(cursor[d].source), k>> \in due[d] => cursor[d].key < k

ScanInv == PlaceOK /\ ScanOK /\ DueIsThere /\ DueIsAhead /\ DueIsAfterCursor

-----------------------------------------------------------------------------
(* Pairs, inputs and identities. *)

\* A list of pairs LoadConfig accepts is not empty and has a destination per pair.
LEMMA ConfigShape ==
    ASSUME NEW c \in Config
    PROVE  /\ c \in Seq({c[i] : i \in DOMAIN c})
           /\ Len(c) \in Nat /\ Len(c) >= 1 /\ DOMAIN c = 1..Len(c)
           /\ \A i, j \in DOMAIN c : i # j => Location(c[i].dest) # Location(c[j].dest)
<1>1. c \in Seq({c[i] : i \in DOMAIN c}) /\ c # <<>>
  BY ConstantsOK DEF Config, validateNoOverlaps
<1>2. Len(c) \in Nat /\ DOMAIN c = 1..Len(c)
  BY <1>1, LenProperties
<1>3. Len(c) # 0
  BY <1>1, EmptySeq
<1>4. \A i, j \in DOMAIN c : i # j => Location(c[i].dest) # Location(c[j].dest)
  BY DEF Config, validateNoOverlaps, sameBucketLocation
<1> QED
  BY <1>1, <1>2, <1>3, <1>4

LEMMA PairFacts ==
    ASSUME conf \in Config
    PROVE  /\ N \in Nat /\ N >= 1 /\ Pair \subseteq Position /\ Pair = 0..(N - 1)
           /\ \A p \in Pair : /\ p \in Nat /\ From(p) \in Sources /\ Dest(p) \in Target
                              /\ Location(From(p)) \in Origin
           /\ \A p, q \in Pair : Dest(p) = Dest(q) => p = q
<1>1. N \in Nat /\ N >= 1 /\ DOMAIN conf = 1..N
  BY ConfigShape DEF N
<1>2. \A p \in Pair : p \in Nat /\ p + 1 \in DOMAIN conf
  BY <1>1 DEF Pair
<1>3. \A p, q \in Pair : Dest(p) = Dest(q) => p = q
  <2>1. \A p, q \in Pair : p + 1 = q + 1 => p = q
    BY <1>2
  <2> QED
    BY <1>2, <2>1, ConfigShape DEF Dest
<1>4. Pair \subseteq Position
  BY DEF Pair, Position, N
<1>5. \A p \in Pair : From(p) \in Sources /\ Dest(p) \in Target
  BY <1>2 DEF From, Dest, Sources, Target
<1>6. \A p \in Pair : Location(From(p)) \in Origin
  BY <1>5 DEF Origin
<1> QED
  BY <1>1, <1>2, <1>3, <1>4, <1>5, <1>6 DEF Pair

\* Two buckets are the same input if they are the same bucket and prefix.
LEMMA InputDef ==
    ASSUME NEW a, NEW b
    PROVE  Input(a) = Input(b) <=> SameInput(a, b)
<1> DEFINE T == {a.endpoint.host, a.bucket, a.prefix, b.endpoint.host, b.bucket, b.prefix}
<1>1. /\ Location(a) \in Seq(T) /\ Len(Location(a)) = 2
      /\ Location(a)[1] = a.endpoint.host /\ Location(a)[2] = a.bucket
      /\ Location(b) \in Seq(T) /\ Len(Location(b)) = 2
      /\ Location(b)[1] = b.endpoint.host /\ Location(b)[2] = b.bucket
  BY DEF Location, normalizeEndpoint
<1>2. /\ <<a.prefix>> \in Seq(T) /\ Len(<<a.prefix>>) = 1
      /\ <<b.prefix>> \in Seq(T) /\ Len(<<b.prefix>>) = 1
  OBVIOUS
<1>3. /\ Input(a)[1] = a.endpoint.host /\ Input(a)[2] = a.bucket /\ Input(a)[3] = a.prefix
      /\ Input(b)[1] = b.endpoint.host /\ Input(b)[2] = b.bucket /\ Input(b)[3] = b.prefix
  BY <1>1, <1>2, ConcatProperties DEF Input
<1>4. Location(a) = Location(b) <=> a.endpoint.host = b.endpoint.host /\ a.bucket = b.bucket
  BY DEF Location, normalizeEndpoint
<1> QED
  BY <1>3, <1>4 DEF SameInput, sameBucketLocation, Input

\* The tenant checkpoint of a list of pairs counts its pairs.
LEMMA IdentityLength ==
    ASSUME NEW c \in Config
    PROVE  /\ tenantCheckpointKey(c) \in Identity
           /\ Len(tenantCheckpointKey(c)) = Len(c)
<1> DEFINE h == tenantCheckpointKey(c)
           T == {h[i] : i \in DOMAIN c}
<1>1. Len(c) \in Nat /\ DOMAIN c = 1..Len(c)
  BY ConfigShape
<1>2. h \in [1..Len(c) -> T]
  BY <1>1 DEF tenantCheckpointKey
<1>3. h \in Seq(T)
  BY <1>1, <1>2, SeqDef
<1>4. Len(h) \in Nat /\ 1..Len(h) = 1..Len(c)
  BY <1>2, <1>3, LenProperties
<1>5. Len(h) = Len(c)
  BY <1>1, <1>4
<1> QED
  BY <1>5 DEF Identity

-----------------------------------------------------------------------------
(* The pages of a listing. *)

Below == {x \in Nat \X Nat : x[1] < x[2]}

LEMMA BelowWellFounded == IsWellFoundedOn(Below, Nat)
BY NatLessThanWellFounded DEF OpToRel, Below

LEMMA LeastExists ==
    ASSUME NEW S \in SUBSET Nat, S # {}
    PROVE  \E x \in S : \A y \in S : x <= y
<1>1. S \subseteq Nat
  OBVIOUS
<1>2. \E x \in S : \A y \in S : ~ (<<y, x>> \in Below)
  BY <1>1, BelowWellFounded, WFMin
<1>3. \A x, y \in S : <<y, x>> \notin Below => x <= y
  BY <1>1, SMT DEF Below
<1> QED
  BY <1>2, <1>3

LEMMA MinKey ==
    ASSUME NEW S \in SUBSET Key, S # {}
    PROVE  Min(S) \in S /\ \A k \in S : Min(S) <= k
<1>1. S \in SUBSET Nat
  BY ConstantsOK DEF Key
<1>2. \E x \in S : \A y \in S : x <= y
  BY <1>1, LeastExists
<1> QED
  BY <1>2 DEF Min

LEMMA MaxKey ==
    ASSUME NEW S \in SUBSET Key, S # {}
    PROVE  Max(S) \in S /\ \A k \in S : k <= Max(S)
<1> DEFINE T == {K - k : k \in S}
<1>1. \A k \in S : k \in Nat /\ K - k \in Nat
  BY ConstantsOK DEF Key
<1>2. T \in SUBSET Nat /\ T # {}
  BY <1>1
<1>3. PICK t \in T : \A y \in T : t <= y
  BY <1>2, LeastExists
<1>4. PICK m \in S : t = K - m
  BY <1>3
<1>5. \A k \in S : m >= k
  <2> SUFFICES ASSUME NEW k \in S
               PROVE  m >= k
    OBVIOUS
  <2>1. K - m <= K - k
    BY <1>3, <1>4
  <2> QED
    BY <1>1, <2>1, ConstantsOK
<1>6. Max(S) \in S /\ \A k \in S : Max(S) >= k
  BY <1>5 DEF Max
<1> QED
  BY <1>1, <1>6

\* A page is the beginning of what is to be listed.
LEMMA PageFacts ==
    ASSUME TypeOK, NEW p \in Pair, NEW after \in Key \cup {NoKey}, Page(p, after)
    PROVE  /\ page' \in [Pair -> SUBSET Key] /\ more' \in [Pair -> BOOLEAN]
           /\ pos' \in [Pair -> Key \cup {NoKey}]
           /\ \A q \in Pair \ {p} : /\ page'[q] = page[q] /\ more'[q] = more[q]
                                    /\ pos'[q] = pos[q]
           /\ after <= pos'[p]
           /\ \A k \in page'[p] : after < k /\ k <= pos'[p]
           /\ \A k \in Listed(p) : after < k => k \in page'[p] \/ (more'[p] /\ pos'[p] < k)
<1> DEFINE rest == {k \in Listed(p) : k > after}
           upto == {k \in rest : Cardinality({j \in rest : j <= k}) <= PageSize}
           last == IF upto = {} THEN after ELSE Max(upto)
<1>1. /\ page' = [page EXCEPT ![p] = upto]
      /\ more' = [more EXCEPT ![p] = upto # rest]
      /\ pos' = [pos EXCEPT ![p] = last]
  BY DEF Page
<1>2. Key \subseteq Nat /\ after \in Nat /\ PageSize \in Nat /\ IsFiniteSet(Key)
  BY ConstantsOK, FS_Interval DEF Key, NoKey
<1>3. rest \subseteq Key /\ upto \subseteq Key
  BY PairFacts DEF Listed, TypeOK
<1>4. last \in Key \cup {NoKey} /\ after <= last /\ \A k \in upto : after < k /\ k <= last
  <2>1. CASE upto = {}
    BY <1>2, <2>1
  <2>2. CASE upto # {}
    <3>1. Max(upto) \in upto /\ \A k \in upto : k <= Max(upto)
      BY <1>3, <2>2, MaxKey
    <3>2. \A k \in upto : after < k
      BY <1>2, <1>3
    <3>3. last = Max(upto)
      BY <2>2
    <3>4. last \in upto /\ \A k \in upto : k <= last
      BY <3>1, <3>3
    <3>5. last \in Key /\ after < last
      BY <1>3, <3>2, <3>4
    <3> HIDE DEF upto, last
    <3>6. last \in Nat
      BY <1>2, <3>5
    <3>7. after <= last
      BY <1>2, <3>5, <3>6
    <3> QED
      BY <3>2, <3>4, <3>5, <3>7
  <2> QED
    BY <2>1, <2>2
<1>5. ASSUME NEW j \in rest, NEW k \in upto, j <= k
      PROVE  j \in upto
  <2> DEFINE Upto(x) == {i \in rest : i <= x}
  <2>a. j \in Nat /\ k \in Nat /\ \A i \in rest : i \in Nat
    BY <1>2, <1>3
  <2>b. \A i \in rest : i <= j => i <= k
    BY <1>5, <2>a
  <2>1. Upto(j) \subseteq Upto(k)
    BY <2>b
  <2>2. IsFiniteSet(Upto(k))
    BY <1>2, <1>3, FS_Subset
  <2>3. IsFiniteSet(Upto(j)) /\ Cardinality(Upto(j)) <= Cardinality(Upto(k))
    BY <2>1, <2>2, FS_Subset
  <2>4. Cardinality(Upto(j)) \in Nat /\ Cardinality(Upto(k)) \in Nat
    BY <2>2, <2>3, FS_CardinalityType
  <2>5. Cardinality(Upto(k)) <= PageSize
    OBVIOUS
  <2>6. Cardinality(Upto(j)) <= PageSize
    BY <1>2, <2>3, <2>4, <2>5
  <2> QED
    BY <2>6
<1>6. ASSUME NEW k \in Listed(p), after < k, k \notin upto
      PROVE  upto # rest /\ last < k
  <2>1. k \in rest /\ k \in Nat
    BY <1>2, <1>3, <1>6
  <2>2. CASE upto = {}
    BY <1>6, <2>1, <2>2
  <2>3. CASE upto # {}
    <3>1. last \in upto
      BY <1>3, <2>3, MaxKey
    <3>2. ~ (k <= last)
      BY <1>5, <1>6, <2>1, <3>1
    <3>3. last \in Nat
      BY <1>2, <1>3, <3>1
    <3> HIDE DEF upto, last
    <3> QED
      BY <1>6, <2>1, <3>2, <3>3
  <2> QED
    BY <2>2, <2>3
<1> HIDE DEF rest, upto, last
<1>7. page'[p] = upto /\ more'[p] = (upto # rest) /\ pos'[p] = last
  BY <1>1 DEF TypeOK
<1>8. /\ page' \in [Pair -> SUBSET Key] /\ more' \in [Pair -> BOOLEAN]
      /\ pos' \in [Pair -> Key \cup {NoKey}]
  BY <1>1, <1>3, <1>4 DEF TypeOK
<1> QED
  BY <1>1, <1>4, <1>6, <1>7, <1>8 DEF TypeOK

-----------------------------------------------------------------------------
(* Types. *)

LEMMA Turns ==
    ASSUME NEW n \in Nat, n >= 1, NEW a \in Nat
    PROVE  a % n \in 0..(n - 1)
BY SMT

LEMMA SamePairs ==
    ASSUME UNCHANGED conf
    PROVE  /\ Pair' = Pair /\ N' = N
           /\ \A p : From(p)' = From(p) /\ Dest(p)' = Dest(p)
BY DEF Pair, N, From, Dest

\* The pair in turn is one of the pairs; the next one is, too.
LEMMA TurnFacts ==
    ASSUME TypeOK
    PROVE  /\ Current \in Pair
           /\ (offset + 1) % N \in 0..N
           /\ \A p \in Pair : (p + 1) % N \in Pair
           /\ \A p \in Pair : Turn(p) \/ InProcess(p) => p = Current
<1>1. N \in Nat /\ N >= 1 /\ Pair = 0..(N - 1) /\ \A p \in Pair : p \in Nat
  BY PairFacts DEF TypeOK
<1>2. offset \in Nat /\ start \in Nat
  BY <1>1 DEF TypeOK
<1>3. start + offset \in Nat /\ offset + 1 \in Nat /\ \A p \in Pair : p + 1 \in Nat
  BY <1>1, <1>2
<1>4. (offset + 1) % N \in 0..(N - 1)
  BY <1>1, <1>3, Turns
<1>5. Current \in Pair
  BY <1>1, <1>3, Turns DEF Current
<1>6. \A p \in Pair : (p + 1) % N \in Pair
  BY <1>1, <1>3, Turns
<1>7. (offset + 1) % N \in 0..N
  BY <1>1, <1>4
<1>8. \A p \in Pair : Turn(p) \/ InProcess(p) => p = Current
  BY DEF Current, Turn, InProcess
<1> QED
  BY <1>5, <1>6, <1>7, <1>8

\* A sweep's state is that of no sweep.
LEMMA ForgetType ==
    ASSUME NEW c \in Config, conf' = c, Forget(c)
    PROVE  /\ start' \in Pair' /\ start' = 0 /\ offset' = 0 /\ offset' \in 0..N'
           /\ ctx' = "live"
           /\ st' \in [Pair' -> {"new", "open", "closed", "skipped"}]
           /\ page' \in [Pair' -> SUBSET Key] /\ more' \in [Pair' -> BOOLEAN]
           /\ pos' \in [Pair' -> Key \cup {NoKey}]
           /\ attempted' \in [Pair' -> Key \cup {NoKey}]
           /\ completed' \in [Pair' -> Key \cup {NoKey}]
           /\ \A p \in Pair' : st'[p] = "new" /\ attempted'[p] = NoKey /\ completed'[p] = NoKey
<1>1. N' = Len(c) /\ Pair' = 0..(Len(c) - 1)
  BY DEF N, Pair
<1>2. Len(c) \in Nat /\ Len(c) >= 1
  BY ConfigShape
<1>3. 0 \in Pair' /\ 0 \in 0..N'
  BY <1>1, <1>2
<1> QED
  BY <1>1, <1>3 DEF Forget

\* The tenant checkpoint is a place in the list of pairs.
LEMMA ResumeType ==
    ASSUME TypeOK
    PROVE  Resume \in Pair
<1> DEFINE h == tenantCheckpointKey(conf)
<1>1. h \in Identity /\ Len(h) = N
  BY IdentityLength DEF TypeOK, N
<1>2. CASE tenant[h] # None /\ N >= 2
  <2>1. tenant[h] \in Position /\ tenant[h] < N
    BY <1>1, <1>2 DEF TypeOK
  <2>2. tenant[h] \in Nat
    <3>1. PICK c \in Config : tenant[h] \in 0..(Len(c) - 1)
      BY <2>1 DEF Position
    <3> QED
      BY <3>1, ConfigShape
  <2>3. tenant[h] \in Pair
    BY <2>1, <2>2, PairFacts DEF TypeOK
  <2> QED
    BY <2>3 DEF Resume, TypeOK
<1>3. CASE ~(tenant[h] # None /\ N >= 2)
  <2>1. N < 2 \/ tenant[h] = None
    BY <1>3, PairFacts DEF TypeOK
  <2> QED
    BY <2>1 DEF Resume, TypeOK
<1> QED
  BY <1>2, <1>3

\* What is listed for a pair may be due to its destination.
LEMMA ListedType ==
    ASSUME TypeOK, NEW p \in Pair
    PROVE  /\ Listed(p) \subseteq Key
           /\ Input(From(p)) \in {Input(b) : b \in Sources}
           /\ \A k \in Listed(p) : k \in present[Location(From(p))] /\ k \in Under[From(p).prefix]
<1>1. From(p) \in Sources /\ Location(From(p)) \in Origin
  BY PairFacts DEF TypeOK
<1>2. Listed(p) \subseteq Key
  BY <1>1, ConstantsOK DEF Listed, TypeOK
<1> QED
  BY <1>1, <1>2 DEF Listed

LEMMA CursorType ==
    ASSUME TypeOK, NEW p \in Pair
    PROVE  ReadCursor(p) \in Key \cup {NoKey}
<1>1. Dest(p) \in Target
  BY PairFacts DEF TypeOK
<1> QED
  BY <1>1 DEF ReadCursor, TypeOK

LEMMA SaveKeyType ==
    ASSUME TypeOK, NEW p \in Pair
    PROVE  SaveKey(p) \in Key \cup {NoKey}
BY DEF SaveKey, TypeOK

LEMMA TypeStep ==
    ASSUME TypeOK, [Next]_vars
    PROVE  TypeOK'
<1>a. /\ UNCHANGED conf => Pair' = Pair /\ N' = N
      /\ N \in Nat /\ N >= 1 /\ Pair = 0..(N - 1) /\ Pair \subseteq Position
      /\ \A p \in Pair : From(p) \in Sources /\ Dest(p) \in Target
  BY SamePairs, PairFacts DEF TypeOK
<1>b. /\ (offset + 1) % N \in 0..N
      /\ \A p \in Pair : (p + 1) % N \in Pair
  BY TurnFacts
<1>c. Resume \in Pair
  BY ResumeType
<1>d. conf \in Config
  BY DEF TypeOK
<1> USE DEF TypeOK
<1>1. ASSUME NEW s \in Origin, NEW k \in Key, Upload(s, k)
      PROVE  TypeOK'
  BY <1>1, <1>a, ConstantsOK DEF Upload, Edit, bookVars, scanVars
<1>2. ASSUME NEW s \in Origin, NEW k \in Key, Delete(s, k)
      PROVE  TypeOK'
  BY <1>2, <1>a, ConstantsOK DEF Delete, Edit, bookVars, scanVars
<1>3. ASSUME NEW c \in Config, Reconfigure(c)
      PROVE  TypeOK'
  <2>1. conf' = c /\ Forget(c)
    BY <1>3 DEF Reconfigure
  <2> QED
    BY <1>3, <2>1, ForgetType, ConstantsOK DEF Reconfigure, Edit, bookVars
<1>4. ASSUME NEW p \in Pair, SweepFrom(p), UNCHANGED faults \/ Fault
      PROVE  TypeOK'
  BY <1>4, <1>a, ConstantsOK DEF SweepFrom, Fault, worldVars, bookVars, scanVars
<1>5. CASE StartSweep \/ StartSweepUnhinted
  BY <1>4, <1>5, <1>c DEF StartSweep, StartSweepUnhinted
<1>6. CASE Restart
  BY <1>6, <1>a DEF Restart, worldVars, bookVars, scanVars
<1>7. CASE Expire
  BY <1>7, <1>a DEF Expire, worldVars, bookVars, scanVars
<1>8. CASE Cancel
  BY <1>8, <1>a, ConstantsOK DEF Cancel, Fault, worldVars, bookVars, scanVars
<1>9. CASE Crash
  <2>1. Forget(conf) /\ conf' = conf
    BY <1>9 DEF Crash, worldVars
  <2> QED
    BY <1>9, <1>a, <1>d, <2>1, ForgetType, ConstantsOK DEF Crash, Fault, worldVars, bookVars
<1>10. ASSUME NEW d \in Target, LockExpires(d)
       PROVE  TypeOK'
  BY <1>10, <1>a DEF LockExpires, worldVars, bookVars, scanVars
<1>11. ASSUME NEW p \in Pair, Skip(p)
       PROVE  TypeOK'
  BY <1>11, <1>a, <1>b DEF Skip, EndTurn, worldVars, bookVars, scanVars
<1>12. ASSUME NEW p \in Pair, LockUnavailable(p)
       PROVE  TypeOK'
  BY <1>12, <1>a, <1>b, ConstantsOK
     DEF LockUnavailable, TakeTurn, EndTurn, Fault, worldVars, bookVars
<1>13. ASSUME NEW p \in Pair, OpenPair(p)
       PROVE  TypeOK'
  <2>1. /\ page' \in [Pair -> SUBSET Key] /\ more' \in [Pair -> BOOLEAN]
        /\ pos' \in [Pair -> Key \cup {NoKey}]
    BY <1>13, CursorType, PageFacts DEF OpenPair
  <2>2. due' \in [Target -> SUBSET ({Input(b) : b \in Sources} \X Key)]
    BY <1>13, <1>a, ListedType DEF OpenPair
  <2> QED
    BY <1>13, <1>a, <1>b, <2>1, <2>2 DEF OpenPair, TakeTurn, worldVars, bookVars
<1>14. ASSUME NEW p \in Pair, ReadFails(p)
       PROVE  TypeOK'
  BY <1>14, <1>a, <1>b, ConstantsOK
     DEF ReadFails, TakeTurn, EndTurn, Fault, worldVars, bookVars
<1>15. ASSUME NEW p \in Pair, NextPage(p)
       PROVE  TypeOK'
  <2>1. /\ page' \in [Pair -> SUBSET Key] /\ more' \in [Pair -> BOOLEAN]
        /\ pos' \in [Pair -> Key \cup {NoKey}]
    BY <1>15, PageFacts DEF NextPage
  <2> QED
    BY <1>15, <1>a, <1>b, <2>1 DEF NextPage, TakeTurn, worldVars, bookVars
<1>16. ASSUME NEW p \in Pair, NextSource(p)
       PROVE  TypeOK'
  <2>1. Min(page[p]) \in Key
    BY <1>16, MinKey DEF NextSource
  <2> QED
    BY <1>16, <1>a, <1>b, <2>1 DEF NextSource, TakeTurn, worldVars, bookVars
<1>17. ASSUME NEW p \in Pair, SourceDone(p)
       PROVE  TypeOK'
  BY <1>17, <1>a, <1>b DEF SourceDone, EndTurn, worldVars, bookVars
<1>18. ASSUME NEW p \in Pair, EndOfScan(p)
       PROVE  TypeOK'
  <2>1. /\ cursor' \in [Target -> [source : Sources, key : Key] \cup {None}]
        /\ due' \in [Target -> SUBSET ({Input(b) : b \in Sources} \X Key)]
        /\ faults' \in 0..MaxFaults
    BY <1>18, ConstantsOK DEF EndOfScan, Fault
  <2>2. st' \in [Pair -> {"new", "open", "closed", "skipped"}]
    BY <1>18 DEF EndOfScan
  <2> QED
    BY <1>18, <1>a, <1>b, <2>1, <2>2 DEF EndOfScan, TakeTurn, EndTurn, worldVars
<1>19. CASE StopSweep
  BY <1>19, <1>a DEF StopSweep, worldVars, bookVars, scanVars
<1>20. CASE SavePair
  <2>1. offset \in Pair /\ offset + 1 \in 0..N
    BY <1>20, <1>a DEF SavePair
  <2>2. cursor' \in [Target -> [source : Sources, key : Key] \cup {None}]
    <3> DEFINE new == [source |-> From(offset), key |-> SaveKey(offset)]
    <3>1. CASE cursor' = cursor
      BY <3>1
    <3>2. CASE SaveKey(offset) # NoKey /\ cursor' = [cursor EXCEPT ![Dest(offset)] = new]
      <4>1. SaveKey(offset) \in Key /\ From(offset) \in Sources
        BY <1>a, <2>1, <3>2, SaveKeyType
      <4>2. new \in [source : Sources, key : Key]
        BY <4>1
      <4> HIDE DEF new
      <4> QED
        BY <3>2, <4>2
    <3> QED
      BY <1>20, <3>1, <3>2 DEF SavePair
  <2> QED
    BY <1>20, <1>a, <2>1, <2>2, ConstantsOK DEF SavePair, Fault, worldVars, scanVars
<1>21. CASE SaveTenant
  <2>1. /\ tenantCheckpointKey(conf) \in Identity
        /\ Len(tenantCheckpointKey(conf)) = N
    BY <1>d, IdentityLength DEF N
  <2>2. nextPair \in Position /\ nextPair < N
    BY <1>a
  <2>3. /\ tenant' \in [Identity -> Position \cup {None}]
        /\ \A h \in Identity : tenant'[h] # None => tenant'[h] < Len(h)
    BY <1>21, <2>1, <2>2 DEF SaveTenant
  <2> QED
    BY <1>21, <1>a, <2>3, ConstantsOK DEF SaveTenant, Fault, worldVars, scanVars
<1>22. CASE Release
  <2>1. Forget(conf) /\ conf' = conf
    BY <1>22 DEF Release, worldVars
  <2> QED
    BY <1>22, <1>a, <1>d, <2>1, ForgetType, ConstantsOK
       DEF Release, Fault, worldVars, bookVars
<1>23. CASE UNCHANGED vars
  BY <1>23, <1>a DEF vars
<1> HIDE DEF TypeOK
<1> QED
  BY <1>1, <1>2, <1>3, <1>5, <1>6, <1>7, <1>8, <1>9, <1>10, <1>11, <1>12, <1>13, <1>14,
     <1>15, <1>16, <1>17, <1>18, <1>19, <1>20, <1>21, <1>22, <1>23
     DEF Next, SweepStep, TurnStep

-----------------------------------------------------------------------------
(* The inductive invariant. *)

LEMMA PlaceStep ==
    ASSUME TypeOK, PlaceOK, [Next]_vars
    PROVE  PlaceOK'
<1>a. /\ UNCHANGED conf => Pair' = Pair /\ N' = N
      /\ UNCHANGED <<conf, start, offset>> => Current' = Current
  BY SamePairs DEF Current
<1>b. (offset + 1) % N < N /\ 0 < N
  <2>1. N \in Nat /\ N >= 1 /\ offset + 1 \in Nat
    BY PairFacts DEF TypeOK
  <2> QED
    BY <2>1, Turns
<1>c. /\ Current \in Pair
      /\ \A p \in Pair : Turn(p) \/ InProcess(p) => p = Current
  BY TurnFacts
<1>d. conf \in Config /\ st \in [Pair -> {"new", "open", "closed", "skipped"}]
      /\ attempted \in [Pair -> Key \cup {NoKey}] /\ completed \in [Pair -> Key \cup {NoKey}]
  BY DEF TypeOK
<1> USE DEF PlaceOK
<1>1. ASSUME NEW s \in Origin, NEW k \in Key, Upload(s, k)
      PROVE  PlaceOK'
  BY <1>1, <1>a, <1>b, <1>d DEF Upload, Edit, bookVars, scanVars
<1>2. ASSUME NEW s \in Origin, NEW k \in Key, Delete(s, k)
      PROVE  PlaceOK'
  BY <1>2, <1>a, <1>b, <1>d DEF Delete, Edit, bookVars, scanVars
<1>3. ASSUME NEW c \in Config, Reconfigure(c)
      PROVE  PlaceOK'
  <2>1. conf' = c /\ Forget(c)
    BY <1>3 DEF Reconfigure
  <2> QED
    BY <1>3, <2>1, ForgetType DEF Reconfigure
<1>4. CASE StartSweep \/ StartSweepUnhinted
  BY <1>4, <1>a, <1>b, <1>d DEF StartSweep, StartSweepUnhinted, SweepFrom, worldVars, bookVars, scanVars
<1>5. CASE Restart
  BY <1>5, <1>a, <1>b, <1>d DEF Restart, worldVars, bookVars, scanVars
<1>6. CASE Expire
  BY <1>6, <1>a, <1>b, <1>d DEF Expire, worldVars, bookVars, scanVars
<1>7. CASE Cancel
  BY <1>7, <1>a, <1>b, <1>d DEF Cancel, worldVars, bookVars, scanVars
<1>8. CASE Crash
  <2>1. Forget(conf) /\ conf' = conf
    BY <1>8 DEF Crash, worldVars
  <2> QED
    BY <1>8, <1>d, <2>1, ForgetType DEF Crash
<1>9. ASSUME NEW d \in Target, LockExpires(d)
      PROVE  PlaceOK'
  BY <1>9, <1>a, <1>b, <1>d DEF LockExpires, worldVars, bookVars, scanVars
<1>10. ASSUME NEW p \in Pair, Skip(p)
       PROVE  PlaceOK'
  BY <1>10, <1>a, <1>b, <1>d DEF Skip, EndTurn, Turn, worldVars, bookVars, scanVars
<1>11. ASSUME NEW p \in Pair, LockUnavailable(p)
       PROVE  PlaceOK'
  BY <1>11, <1>a, <1>b, <1>d DEF LockUnavailable, EndTurn, Turn, worldVars, bookVars
<1>12. ASSUME NEW p \in Pair, OpenPair(p)
       PROVE  PlaceOK'
  BY <1>12, <1>a, <1>b, <1>d, <1>c DEF OpenPair, Turn, worldVars, bookVars
<1>13. ASSUME NEW p \in Pair, ReadFails(p)
       PROVE  PlaceOK'
  BY <1>13, <1>a, <1>b, <1>d DEF ReadFails, EndTurn, Turn, worldVars, bookVars
<1>14. ASSUME NEW p \in Pair, NextPage(p)
       PROVE  PlaceOK'
  BY <1>14, <1>a, <1>b, <1>d, <1>c DEF NextPage, Turn, worldVars, bookVars
<1>15. ASSUME NEW p \in Pair, NextSource(p)
       PROVE  PlaceOK'
  BY <1>15, <1>a, <1>b, <1>d, <1>c DEF NextSource, Turn, worldVars, bookVars
<1>16. ASSUME NEW p \in Pair, SourceDone(p)
       PROVE  PlaceOK'
  BY <1>16, <1>a, <1>b, <1>d, <1>c DEF SourceDone, InProcess, EndTurn, worldVars, bookVars
<1>17. ASSUME NEW p \in Pair, EndOfScan(p)
       PROVE  PlaceOK'
  BY <1>17, <1>a, <1>b, <1>d DEF EndOfScan, EndTurn, Turn, worldVars
<1>18. CASE StopSweep
  BY <1>18, <1>a, <1>b, <1>d DEF StopSweep, worldVars, bookVars, scanVars
<1>19. CASE SavePair
  BY <1>19, <1>a, <1>b, <1>d DEF SavePair, worldVars, scanVars
<1>20. CASE SaveTenant
  BY <1>20, <1>a, <1>b, <1>d DEF SaveTenant, worldVars, scanVars
<1>21. CASE Release
  <2>1. Forget(conf) /\ conf' = conf
    BY <1>21 DEF Release, worldVars
  <2> QED
    BY <1>21, <1>d, <2>1, ForgetType DEF Release
<1>22. CASE UNCHANGED vars
  BY <1>22, <1>a, <1>b, <1>d DEF vars
<1> HIDE DEF PlaceOK
<1> QED
  BY <1>1, <1>2, <1>3, <1>4, <1>5, <1>6, <1>7, <1>8, <1>9, <1>10, <1>11,
     <1>12, <1>13, <1>14, <1>15, <1>16, <1>17, <1>18, <1>19, <1>20, <1>21, <1>22
     DEF Next, SweepStep, TurnStep

LEMMA ScanStep ==
    ASSUME TypeOK, TypeOK', PlaceOK, ScanOK, [Next]_vars
    PROVE  ScanOK'
<1>a. /\ UNCHANGED conf => Pair' = Pair /\ N' = N
      /\ UNCHANGED <<conf, start, offset>> => Current' = Current
  BY SamePairs DEF Current
<1>b. /\ Key \subseteq Nat /\ NoKey = 0
      /\ \A p \in Pair : /\ page[p] \subseteq Key
                         /\ attempted[p] \in Nat /\ completed[p] \in Nat /\ pos[p] \in Nat
  BY ConstantsOK DEF TypeOK, Key, NoKey
<1>c. /\ Current \in Pair
      /\ \A p \in Pair : Turn(p) \/ InProcess(p) => p = Current
  BY TurnFacts
<1>d. /\ conf \in Config /\ st \in [Pair -> {"new", "open", "closed", "skipped"}]
      /\ page \in [Pair -> SUBSET Key]
      /\ attempted \in [Pair -> Key \cup {NoKey}] /\ completed \in [Pair -> Key \cup {NoKey}]
  BY DEF TypeOK
<1>e. \A p \in Pair : st[p] = "new" => attempted[p] = 0 /\ completed[p] = 0
  BY <1>b DEF PlaceOK
<1>k. \A k \in Key : k \in Nat /\ 0 < k
  BY ConstantsOK DEF Key
<1>l. \A k \in Key \cup {NoKey} : k \in Nat /\ 0 <= k
  BY ConstantsOK DEF Key, NoKey
<1>f. pc = "idle" => \A p \in Pair : st[p] = "new"
  BY DEF PlaceOK
<1> USE DEF ScanOK
<1>1. ASSUME NEW s \in Origin, NEW k \in Key, Upload(s, k)
      PROVE  ScanOK'
  BY <1>1, <1>a, <1>d DEF Upload, Edit, bookVars, scanVars
<1>2. ASSUME NEW s \in Origin, NEW k \in Key, Delete(s, k)
      PROVE  ScanOK'
  BY <1>2, <1>a, <1>d DEF Delete, Edit, bookVars, scanVars
<1>3. ASSUME NEW c \in Config, Reconfigure(c)
      PROVE  ScanOK'
  <2>1. conf' = c /\ Forget(c)
    BY <1>3 DEF Reconfigure
  <2> QED
    BY <1>3, <2>1, ForgetType DEF Reconfigure
<1>4. CASE StartSweep \/ StartSweepUnhinted
  BY <1>4, <1>a, <1>d, <1>f DEF StartSweep, StartSweepUnhinted, SweepFrom, worldVars, bookVars, scanVars
<1>5. CASE Restart
  BY <1>5, <1>a, <1>d DEF Restart, worldVars, bookVars, scanVars
<1>6. CASE Expire
  BY <1>6, <1>a, <1>d DEF Expire, worldVars, bookVars, scanVars
<1>7. CASE Cancel
  BY <1>7, <1>a, <1>d DEF Cancel, worldVars, bookVars, scanVars
<1>8. CASE Crash
  <2>1. Forget(conf) /\ conf' = conf
    BY <1>8 DEF Crash, worldVars
  <2> QED
    BY <1>8, <1>d, <2>1, ForgetType DEF Crash
<1>9. ASSUME NEW d \in Target, LockExpires(d)
      PROVE  ScanOK'
  BY <1>9, <1>a, <1>d DEF LockExpires, worldVars, bookVars, scanVars
<1>10. ASSUME NEW p \in Pair, Skip(p)
       PROVE  ScanOK'
  BY <1>10, <1>a, <1>d DEF Skip, EndTurn, Turn, worldVars, bookVars, scanVars
<1>11. ASSUME NEW p \in Pair, LockUnavailable(p)
       PROVE  ScanOK'
  BY <1>11, <1>a, <1>d DEF LockUnavailable, EndTurn, Turn, worldVars, bookVars
<1>12. ASSUME NEW p \in Pair, OpenPair(p)
       PROVE  ScanOK'
  <2>1. /\ UNCHANGED <<conf, start, offset, pc, attempted, completed>> /\ pc = "turn"
        /\ st[p] = "new" /\ st' = [st EXCEPT ![p] = "open"]
    BY <1>12 DEF OpenPair, Turn, worldVars
  <2>2. /\ \A q \in Pair \ {p} : page'[q] = page[q] /\ pos'[q] = pos[q]
        /\ \A k \in page'[p] : k <= pos'[p]
        /\ page'[p] \subseteq Key /\ pos'[p] \in Key \cup {NoKey}
    BY <1>12, CursorType, PageFacts DEF OpenPair
  <2>3. pos'[p] \in Nat /\ 0 <= pos'[p]
    BY <1>l, <2>2
  <2>4. \A k \in page'[p] : 0 < k
    BY <1>k, <2>2
  <2> QED
    BY <1>a, <1>d, <1>e, <2>1, <2>2, <2>3, <2>4
<1>13. ASSUME NEW p \in Pair, ReadFails(p)
       PROVE  ScanOK'
  BY <1>13, <1>a, <1>d DEF ReadFails, EndTurn, Turn, worldVars, bookVars
<1>14. ASSUME NEW p \in Pair, NextPage(p)
       PROVE  ScanOK'
  <2>1. /\ UNCHANGED <<conf, start, offset, pc, attempted, completed, st>> /\ st[p] = "open"
    BY <1>14 DEF NextPage, Turn, worldVars
  <2>2. /\ \A q \in Pair \ {p} : page'[q] = page[q] /\ pos'[q] = pos[q]
        /\ \A k \in page'[p] : pos[p] < k /\ k <= pos'[p]
        /\ page'[p] \subseteq Key /\ pos'[p] \in Key \cup {NoKey} /\ pos[p] <= pos'[p]
    BY <1>14, <1>b, PageFacts DEF NextPage, TypeOK
  <2>3. attempted[p] <= pos[p]
    BY <2>1
  <2> HIDE DEF ScanOK
  <2>a. pos[p] \in Nat /\ pos'[p] \in Nat /\ attempted[p] \in Nat /\ page'[p] \subseteq Nat
    BY <1>b, <1>l, <2>2
  <2>4. attempted[p] <= pos'[p] /\ \A k \in page'[p] : attempted[p] < k
    BY <2>a, <2>2, <2>3
  <2> QED
    BY <1>a, <2>1, <2>2, <2>4 DEF ScanOK
<1>15. ASSUME NEW p \in Pair, NextSource(p)
       PROVE  ScanOK'
  <2> DEFINE m == Min(page[p])
  <2>1. m \in page[p] /\ \A k \in page[p] : m <= k
    BY <1>15, <1>b, MinKey DEF NextSource
  <2>2. /\ UNCHANGED <<conf, start, offset, completed, st, pos>> /\ st[p] = "open"
        /\ pc = "turn" /\ pc' = "proc" /\ p = Current
        /\ attempted' = [attempted EXCEPT ![p] = m] /\ page' = [page EXCEPT ![p] = @ \ {m}]
    BY <1>15, <1>c DEF NextSource, Turn, worldVars
  <2> HIDE DEF m
  <2>3. attempted[p] < m /\ m <= pos[p] /\ completed[p] = attempted[p]
    BY <2>1, <2>2
  <2> HIDE DEF ScanOK
  <2>a. /\ m \in Nat /\ attempted[p] \in Nat /\ completed[p] \in Nat
        /\ \A k \in page[p] : k \in Nat
    BY <1>b, <2>1
  <2>4. completed[p] < m /\ completed[p] <= m
    BY <2>a, <2>3
  <2>5. \A k \in page[p] \ {m} : m < k
    BY <2>a, <2>1
  <2> QED
    BY <1>a, <1>d, <2>1, <2>2, <2>3, <2>4, <2>5 DEF ScanOK
<1>16. ASSUME NEW p \in Pair, SourceDone(p)
       PROVE  ScanOK'
  <2>1. /\ UNCHANGED <<conf, start, attempted, st, pos, page>> /\ pc = "proc" /\ pc' = "turn"
        /\ p = Current /\ completed' = [completed EXCEPT ![p] = attempted[p]]
    BY <1>16, <1>c DEF SourceDone, InProcess, worldVars
  <2> QED
    BY <1>a, <1>b, <1>d, <2>1
<1>17. ASSUME NEW p \in Pair, EndOfScan(p)
       PROVE  ScanOK'
  BY <1>17, <1>a, <1>d DEF EndOfScan, EndTurn, Turn, worldVars
<1>18. CASE StopSweep
  BY <1>18, <1>a, <1>d DEF StopSweep, worldVars, bookVars, scanVars
<1>19. CASE SavePair
  BY <1>19, <1>a, <1>d DEF SavePair, worldVars, scanVars
<1>20. CASE SaveTenant
  BY <1>20, <1>a, <1>d DEF SaveTenant, worldVars, scanVars
<1>21. CASE Release
  <2>1. Forget(conf) /\ conf' = conf
    BY <1>21 DEF Release, worldVars
  <2> QED
    BY <1>21, <1>d, <2>1, ForgetType DEF Release
<1>22. CASE UNCHANGED vars
  BY <1>22, <1>a, <1>d DEF vars
<1> HIDE DEF ScanOK
<1> QED
  BY <1>1, <1>2, <1>3, <1>4, <1>5, <1>6, <1>7, <1>8, <1>9, <1>10, <1>11,
     <1>12, <1>13, <1>14, <1>15, <1>16, <1>17, <1>18, <1>19, <1>20, <1>21, <1>22
     DEF Next, SweepStep, TurnStep

LEMMA DueIsThereStep ==
    ASSUME TypeOK, DueIsThere, [Next]_vars
    PROVE  DueIsThere'
<1>a. /\ present \in [Origin -> SUBSET Key]
      /\ due \in [Target -> SUBSET ({Input(b) : b \in Sources} \X Key)]
  BY DEF TypeOK
<1>b. \A p \in Pair : Dest(p) \in Target /\ From(p) \in Sources
  BY PairFacts DEF TypeOK
<1>c. \A b \in Sources : Location(b) \in Origin
  BY DEF Origin
<1> USE DEF DueIsThere
<1>1. ASSUME NEW s \in Origin, NEW k \in Key, Upload(s, k)
      PROVE  DueIsThere'
  <2>1. \A x \in Origin : present[x] \subseteq present'[x]
    BY <1>1, <1>a DEF Upload
  <2>2. UNCHANGED due
    BY <1>1 DEF Upload
  <2> QED
    BY <1>c, <2>1, <2>2
<1>2. ASSUME NEW s \in Origin, NEW k \in Key, Delete(s, k)
      PROVE  DueIsThere'
  <2>1. \A d \in Target, b \in Sources :
            <<Input(b), k>> \in due'[d] => Location(b) # s
    BY <1>2 DEF Delete
  <2>2. \A d \in Target : due'[d] \subseteq due[d]
    BY <1>2 DEF Delete
  <2>3. \A x \in Origin, j \in Key : j \in present[x] /\ (x # s \/ j # k) => j \in present'[x]
    BY <1>2, <1>a DEF Delete
  <2> QED
    BY <1>c, <2>1, <2>2, <2>3
<1>3. ASSUME NEW c \in Config, Reconfigure(c)
      PROVE  DueIsThere'
  BY <1>3, <1>a DEF Reconfigure, Edit, bookVars
<1>4. CASE StartSweep \/ StartSweepUnhinted
  BY <1>4, <1>a DEF StartSweep, StartSweepUnhinted, SweepFrom, worldVars, bookVars, scanVars
<1>5. CASE Restart
  BY <1>5, <1>a DEF Restart, worldVars, bookVars, scanVars
<1>6. CASE Expire
  BY <1>6, <1>a DEF Expire, worldVars, bookVars, scanVars
<1>7. CASE Cancel
  BY <1>7, <1>a DEF Cancel, worldVars, bookVars, scanVars
<1>8. CASE Crash
  BY <1>8, <1>a DEF Crash, worldVars, bookVars
<1>9. ASSUME NEW d \in Target, LockExpires(d)
      PROVE  DueIsThere'
  BY <1>9, <1>a DEF LockExpires, worldVars, bookVars, scanVars
<1>10. ASSUME NEW p \in Pair, Skip(p)
       PROVE  DueIsThere'
  BY <1>10, <1>a DEF Skip, EndTurn, Turn, worldVars, bookVars, scanVars
<1>11. ASSUME NEW p \in Pair, LockUnavailable(p)
       PROVE  DueIsThere'
  BY <1>11, <1>a DEF LockUnavailable, EndTurn, Turn, worldVars, bookVars
<1>12. ASSUME NEW p \in Pair, OpenPair(p)
       PROVE  DueIsThere'
  <2>1. UNCHANGED present
    BY <1>12 DEF OpenPair, worldVars
  <2>2. \A d \in Target, b \in Sources, k \in Key : <<Input(b), k>> \in due'[d] =>
            <<Input(b), k>> \in due[d] \/ (Input(b) = Input(From(p)) /\ k \in Listed(p))
    BY <1>12, <1>a DEF OpenPair
  <2>3. \A b \in Sources, k \in Key : Input(b) = Input(From(p)) /\ k \in Listed(p)
            => k \in present[Location(b)] /\ k \in Under[b.prefix]
    BY InputDef DEF SameInput, sameBucketLocation, Listed
  <2> QED
    BY <2>1, <2>2, <2>3
<1>13. ASSUME NEW p \in Pair, ReadFails(p)
       PROVE  DueIsThere'
  BY <1>13, <1>a DEF ReadFails, EndTurn, Turn, worldVars, bookVars
<1>14. ASSUME NEW p \in Pair, NextPage(p)
       PROVE  DueIsThere'
  BY <1>14, <1>a DEF NextPage, Turn, worldVars, bookVars
<1>15. ASSUME NEW p \in Pair, NextSource(p)
       PROVE  DueIsThere'
  BY <1>15, <1>a DEF NextSource, Turn, worldVars, bookVars
<1>16. ASSUME NEW p \in Pair, SourceDone(p)
       PROVE  DueIsThere'
  <2>1. UNCHANGED present /\ \A d \in Target : due'[d] \subseteq due[d]
    BY <1>16, <1>a DEF SourceDone, worldVars
  <2> QED
    BY <2>1
<1>17. ASSUME NEW p \in Pair, EndOfScan(p)
       PROVE  DueIsThere'
  <2>1. UNCHANGED present /\ \A d \in Target : due'[d] \subseteq due[d]
    BY <1>17, <1>a DEF EndOfScan, worldVars
  <2> QED
    BY <2>1
<1>18. CASE StopSweep
  <2>1. UNCHANGED present /\ \A d \in Target : due'[d] \subseteq due[d]
    BY <1>18 DEF StopSweep, worldVars
  <2> QED
    BY <2>1
<1>19. CASE SavePair
  BY <1>19, <1>a DEF SavePair, worldVars, scanVars
<1>20. CASE SaveTenant
  BY <1>20, <1>a DEF SaveTenant, worldVars, scanVars
<1>21. CASE Release
  BY <1>21, <1>a DEF Release, worldVars, bookVars
<1>22. CASE UNCHANGED vars
  BY <1>22, <1>a DEF vars
<1> HIDE DEF DueIsThere
<1> QED
  BY <1>1, <1>2, <1>3, <1>4, <1>5, <1>6, <1>7, <1>8, <1>9, <1>10, <1>11,
     <1>12, <1>13, <1>14, <1>15, <1>16, <1>17, <1>18, <1>19, <1>20, <1>21, <1>22
     DEF Next, SweepStep, TurnStep

LEMMA DueIsAheadStep ==
    ASSUME TypeOK, PlaceOK, ScanOK, DueIsThere, DueIsAhead, DueIsAfterCursor, [Next]_vars
    PROVE  DueIsAhead'
<1>a. /\ UNCHANGED conf =>
            /\ Pair' = Pair /\ N' = N
            /\ \A p : From(p)' = From(p) /\ Dest(p)' = Dest(p) /\ Input(From(p))' = Input(From(p))
      /\ UNCHANGED <<conf, start, offset>> => Current' = Current
      /\ UNCHANGED <<ctx, attempted, completed>> => \A p : SaveKey(p)' = SaveKey(p)
  BY SamePairs DEF Current, SaveKey
<1>b. /\ \A p \in Pair : Dest(p) \in Target /\ From(p) \in Sources
      /\ \A p, q \in Pair : Dest(p) = Dest(q) => p = q
  BY PairFacts DEF TypeOK
<1>c. /\ Current \in Pair
      /\ \A p \in Pair : Turn(p) \/ InProcess(p) => p = Current
  BY TurnFacts
<1>d. /\ conf \in Config /\ st \in [Pair -> {"new", "open", "closed", "skipped"}]
      /\ attempted \in [Pair -> Key \cup {NoKey}] /\ completed \in [Pair -> Key \cup {NoKey}]
  BY DEF TypeOK
<1>f. pc = "idle" => \A p \in Pair : st[p] = "new"
  BY DEF PlaceOK
<1>g. page \in [Pair -> SUBSET Key] /\ due \in [Target -> SUBSET ({Input(b) : b \in Sources} \X Key)]
  BY DEF TypeOK
<1>h. \A p \in Pair, k \in Key : <<Input(From(p)), k>> \in due[Dest(p)] => k \in Listed(p)
  BY <1>b DEF DueIsThere, Listed
<1>k. \A k \in Key : k \in Nat /\ NoKey < k
  BY ConstantsOK DEF Key, NoKey
<1>l. \A p \in Pair : attempted[p] \in Nat /\ completed[p] \in Nat /\ pos[p] \in Nat
  BY ConstantsOK DEF TypeOK, Key, NoKey
<1> USE DEF DueIsAhead
<1>1. ASSUME NEW s \in Origin, NEW k \in Key, Upload(s, k)
      PROVE  DueIsAhead'
  BY <1>1, <1>a DEF Upload, Edit, bookVars, scanVars
<1>2. ASSUME NEW s \in Origin, NEW k \in Key, Delete(s, k)
      PROVE  DueIsAhead'
  <2>1. UNCHANGED <<conf, st, pc, page, more, pos, attempted, completed, ctx, start, offset>> /\ \A d \in Target : due'[d] \subseteq due[d]
    BY <1>2, <1>g DEF Delete, bookVars, scanVars
  <2> QED
    BY <1>a, <1>b, <2>1
<1>3. ASSUME NEW c \in Config, Reconfigure(c)
      PROVE  DueIsAhead'
  <2>1. conf' = c /\ Forget(c)
    BY <1>3 DEF Reconfigure
  <2> QED
    BY <1>3, <2>1, ForgetType DEF Reconfigure
<1>4. CASE StartSweep \/ StartSweepUnhinted
  BY <1>4, <1>a, <1>f DEF StartSweep, StartSweepUnhinted, SweepFrom, worldVars, bookVars, scanVars
<1>5. CASE Restart
  BY <1>5, <1>a DEF Restart, worldVars, bookVars, scanVars
<1>6. CASE Expire
  BY <1>6, <1>a DEF Expire, worldVars, bookVars, scanVars
<1>7. CASE Cancel
  BY <1>7, <1>a DEF Cancel, worldVars, bookVars, scanVars
<1>8. CASE Crash
  <2>1. Forget(conf) /\ conf' = conf
    BY <1>8 DEF Crash, worldVars
  <2> QED
    BY <1>8, <1>d, <2>1, ForgetType DEF Crash
<1>9. ASSUME NEW d \in Target, LockExpires(d)
      PROVE  DueIsAhead'
  BY <1>9, <1>a DEF LockExpires, worldVars, bookVars, scanVars
<1>10. ASSUME NEW p \in Pair, Skip(p)
       PROVE  DueIsAhead'
  BY <1>10, <1>a DEF Skip, EndTurn, Turn, worldVars, bookVars, scanVars
<1>11. ASSUME NEW p \in Pair, LockUnavailable(p)
       PROVE  DueIsAhead'
  BY <1>11, <1>a, <1>d DEF LockUnavailable, EndTurn, Turn, worldVars, bookVars
<1>12. ASSUME NEW p \in Pair, OpenPair(p)
       PROVE  DueIsAhead'
  <2>1. /\ UNCHANGED <<conf, start, offset, pc, attempted, completed>> /\ pc = "turn"
        /\ st' = [st EXCEPT ![p] = "open"]
    BY <1>12 DEF OpenPair, Turn, worldVars
  <2>2. /\ \A q \in Pair \ {p} : /\ page'[q] = page[q] /\ more'[q] = more[q]
                                 /\ pos'[q] = pos[q]
        /\ \A k \in Listed(p) : ReadCursor(p) < k => k \in page'[p] \/ (more'[p] /\ pos'[p] < k)
    BY <1>12, CursorType, PageFacts DEF OpenPair
  <2>3. \A q \in Pair \ {p} : due'[Dest(q)] = due[Dest(q)]
    BY <1>12, <1>b, <1>g DEF OpenPair
  <2>4. ASSUME NEW k \in Key, <<Input(From(p)), k>> \in due'[Dest(p)]
        PROVE  k \in Listed(p) /\ ReadCursor(p) < k
    <3>1. CASE Resumes(p)
      <4>1. due' = due /\ cursor[Dest(p)] # None
        BY <1>12, <3>1 DEF OpenPair, Resumes
      <4>2. Input(cursor[Dest(p)].source) = Input(From(p))
        BY <3>1 DEF Resumes
      <4>3. ReadCursor(p) = cursor[Dest(p)].key
        BY <4>1, <4>2, InputDef DEF ReadCursor
      <4> QED
        BY <1>b, <1>h, <2>4, <4>1, <4>2, <4>3 DEF DueIsAfterCursor
    <3>2. CASE ~Resumes(p)
      <4>1. <<Input(From(p)), k>> \in {Input(From(p))} \X Listed(p)
        BY <1>12, <1>b, <1>g, <2>4, <3>2 DEF OpenPair
      <4>2. ReadCursor(p) = NoKey
        BY <3>2, InputDef DEF Resumes, ReadCursor
      <4> QED
        BY <1>k, <4>1, <4>2
    <3> QED
      BY <3>1, <3>2
  <2> QED
    BY <1>a, <1>d, <2>1, <2>2, <2>3, <2>4
<1>13. ASSUME NEW p \in Pair, ReadFails(p)
       PROVE  DueIsAhead'
  BY <1>13, <1>a, <1>d DEF ReadFails, EndTurn, Turn, worldVars, bookVars
<1>14. ASSUME NEW p \in Pair, NextPage(p)
       PROVE  DueIsAhead'
  <2>1. /\ UNCHANGED <<conf, start, offset, pc, attempted, completed, st, due>> /\ pc = "turn"
        /\ st[p] = "open" /\ page[p] = {}
    BY <1>14 DEF NextPage, Turn, worldVars
  <2>2. /\ \A q \in Pair \ {p} : /\ page'[q] = page[q] /\ more'[q] = more[q]
                                 /\ pos'[q] = pos[q]
        /\ \A k \in Listed(p) : pos[p] < k => k \in page'[p] \/ (more'[p] /\ pos'[p] < k)
    BY <1>14, PageFacts DEF NextPage, TypeOK
  <2>3. \A k \in Key : <<Input(From(p)), k>> \in due[Dest(p)] => k \in Listed(p) /\ pos[p] < k
    BY <1>h, <2>1
  <2> QED
    BY <1>a, <2>1, <2>2, <2>3
<1>15. ASSUME NEW p \in Pair, NextSource(p)
       PROVE  DueIsAhead'
  <2>1. /\ UNCHANGED <<conf, start, offset, st, due, more, pos>>
        /\ pc = "turn" /\ pc' = "proc" /\ p = Current
        /\ attempted' = [attempted EXCEPT ![p] = Min(page[p])]
        /\ page' = [page EXCEPT ![p] = @ \ {Min(page[p])}]
    BY <1>15, <1>c DEF NextSource, Turn, worldVars
  <2>2. \A q \in Pair, k \in Key : st[q] = "open" /\ <<Input(From(q)), k>> \in due[Dest(q)] =>
            k \in page[q] \/ (more[q] /\ pos[q] < k)
    BY <2>1
  <2>3. \A q \in Pair : \A k \in page[q] : k \in page'[q] \/ (q = p /\ k = attempted'[q])
    BY <1>d, <1>g, <2>1
  <2> QED
    BY <1>a, <2>1, <2>2, <2>3
<1>16. ASSUME NEW p \in Pair, SourceDone(p)
       PROVE  DueIsAhead'
  <2>1. /\ UNCHANGED <<conf, st, page, more, pos>> /\ pc = "proc" /\ pc' = "turn"
        /\ p = Current
    BY <1>16, <1>c DEF SourceDone, InProcess, worldVars
  <2>2. /\ \A d \in Target : due'[d] \subseteq due[d]
        /\ <<Input(From(p)), attempted[p]>> \notin due'[Dest(p)]
    BY <1>16, <1>b, <1>g DEF SourceDone, Try
  <2> QED
    BY <1>a, <1>b, <2>1, <2>2
<1>17. ASSUME NEW p \in Pair, EndOfScan(p)
       PROVE  DueIsAhead'
  <2>1. /\ UNCHANGED <<conf, start, page, more, pos, attempted>> /\ pc = "turn" /\ pc' = "turn"
        /\ st' = [st EXCEPT ![p] = "closed"]
        /\ \A d \in Target : due'[d] \subseteq due[d]
    BY <1>17, <1>g DEF EndOfScan, Turn, worldVars
  <2> QED
    BY <1>a, <1>b, <1>d, <2>1
<1>18. CASE StopSweep
  <2>1. /\ UNCHANGED <<conf, st, attempted, completed, ctx>> /\ pc' = "save"
        /\ pc = "turn" \/ (pc = "proc" /\ ctx \in {"expired", "cancelled"})
        /\ \A d \in Target : due'[d] \subseteq due[d]
    BY <1>18 DEF StopSweep, worldVars, scanVars, TypeOK
  <2>2. ASSUME NEW p \in Pair, NEW k \in Key, st[p] = "open",
               <<Input(From(p)), k>> \in due'[Dest(p)]
        PROVE  SaveKey(p) < k
    <3>1. <<Input(From(p)), k>> \in due[Dest(p)]
      BY <1>b, <2>1, <2>2
    <3>2. /\ completed[p] <= attempted[p] /\ attempted[p] <= pos[p]
          /\ \A j \in page[p] : attempted[p] < j
          /\ pc = "proc" /\ p = Current => completed[p] < attempted[p]
      BY <2>2 DEF ScanOK
    <3>3. CASE k \in page[p] \/ pos[p] < k
      <4> HIDE DEF DueIsAhead
      <4>1. attempted[p] < k
        BY <1>k, <1>l, <3>2, <3>3
      <4>2. completed[p] < k
        BY <1>k, <1>l, <3>2, <4>1
      <4> QED
        BY <4>1, <4>2 DEF SaveKey
    <3>4. CASE pc = "proc" /\ p = Current /\ k = attempted[p]
      <4>1. InProcess(p)
        BY <3>4 DEF InProcess, Current
      <4>2. ctx = "expired" => <<Input(From(p)), k>> \notin due'[Dest(p)]
        BY <1>18, <1>b, <3>4, <4>1 DEF StopSweep, Try
      <4>3. SaveKey(p) = completed[p]
        BY <2>2, <4>2 DEF SaveKey
      <4> QED
        BY <3>2, <3>4, <4>3
    <3> QED
      BY <2>1, <2>2, <3>1, <3>3, <3>4
  <2> QED
    BY <1>a, <2>1, <2>2
<1>19. CASE SavePair
  BY <1>19, <1>a DEF SavePair, worldVars, scanVars
<1>20. CASE SaveTenant
  BY <1>20, <1>a DEF SaveTenant, worldVars, scanVars
<1>21. CASE Release
  <2>1. Forget(conf) /\ conf' = conf
    BY <1>21 DEF Release, worldVars
  <2> QED
    BY <1>21, <1>d, <2>1, ForgetType DEF Release
<1>22. CASE UNCHANGED vars
  BY <1>22, <1>a DEF vars
<1> HIDE DEF DueIsAhead
<1> QED
  BY <1>1, <1>2, <1>3, <1>4, <1>5, <1>6, <1>7, <1>8, <1>9, <1>10, <1>11,
     <1>12, <1>13, <1>14, <1>15, <1>16, <1>17, <1>18, <1>19, <1>20, <1>21, <1>22
     DEF Next, SweepStep, TurnStep

LEMMA DueIsAfterCursorStep ==
    ASSUME TypeOK, DueIsAhead, DueIsAfterCursor, [Next]_vars
    PROVE  DueIsAfterCursor'
<1>b. \A p \in Pair : Dest(p) \in Target
  BY PairFacts DEF TypeOK
<1>c. Pair = 0..(N - 1) /\ N \in Nat /\ offset \in Nat
  BY PairFacts DEF TypeOK
<1>g. /\ due \in [Target -> SUBSET ({Input(b) : b \in Sources} \X Key)]
      /\ cursor \in [Target -> [source : Sources, key : Key] \cup {None}]
  BY DEF TypeOK
<1> USE DEF DueIsAfterCursor
<1>1. ASSUME NEW s \in Origin, NEW k \in Key, Upload(s, k)
      PROVE  DueIsAfterCursor'
  BY <1>1, <1>b DEF Upload, Edit, bookVars, scanVars
<1>2. ASSUME NEW s \in Origin, NEW k \in Key, Delete(s, k)
      PROVE  DueIsAfterCursor'
  <2>1. UNCHANGED cursor /\ \A d \in Target : due'[d] \subseteq due[d]
    BY <1>2, <1>g DEF Delete, bookVars
  <2> QED
    BY <2>1
<1>3. ASSUME NEW c \in Config, Reconfigure(c)
      PROVE  DueIsAfterCursor'
  BY <1>3, <1>b DEF Reconfigure, Edit, bookVars
<1>4. CASE StartSweep \/ StartSweepUnhinted
  BY <1>4, <1>b DEF StartSweep, StartSweepUnhinted, SweepFrom, worldVars, bookVars, scanVars
<1>5. CASE Restart
  BY <1>5, <1>b DEF Restart, worldVars, bookVars, scanVars
<1>6. CASE Expire
  BY <1>6, <1>b DEF Expire, worldVars, bookVars, scanVars
<1>7. CASE Cancel
  BY <1>7, <1>b DEF Cancel, worldVars, bookVars, scanVars
<1>8. CASE Crash
  BY <1>8, <1>b DEF Crash, worldVars, bookVars
<1>9. ASSUME NEW d \in Target, LockExpires(d)
      PROVE  DueIsAfterCursor'
  BY <1>9, <1>b DEF LockExpires, worldVars, bookVars, scanVars
<1>10. ASSUME NEW p \in Pair, Skip(p)
       PROVE  DueIsAfterCursor'
  BY <1>10, <1>b DEF Skip, EndTurn, Turn, worldVars, bookVars, scanVars
<1>11. ASSUME NEW p \in Pair, LockUnavailable(p)
       PROVE  DueIsAfterCursor'
  BY <1>11, <1>b DEF LockUnavailable, EndTurn, Turn, worldVars, bookVars
<1>12. ASSUME NEW p \in Pair, OpenPair(p)
       PROVE  DueIsAfterCursor'
  <2>1. UNCHANGED cursor
    BY <1>12 DEF OpenPair, bookVars
  <2>2. ASSUME NEW d \in Target, NEW k \in Key, cursor[d] # None,
               <<Input(cursor[d].source), k>> \in due'[d]
        PROVE  <<Input(cursor[d].source), k>> \in due[d]
    <3>1. CASE Resumes(p) \/ d # Dest(p)
      BY <1>12, <1>b, <1>g, <2>2, <3>1 DEF OpenPair
    <3>2. CASE ~Resumes(p) /\ d = Dest(p)
      <4>1. Input(cursor[d].source) # Input(From(p))
        BY <2>2, <3>2 DEF Resumes
      <4> QED
        BY <1>12, <1>b, <1>g, <2>2, <3>2, <4>1 DEF OpenPair
    <3> QED
      BY <3>1, <3>2
  <2> QED
    BY <2>1, <2>2
<1>13. ASSUME NEW p \in Pair, ReadFails(p)
       PROVE  DueIsAfterCursor'
  BY <1>13, <1>b DEF ReadFails, EndTurn, Turn, worldVars, bookVars
<1>14. ASSUME NEW p \in Pair, NextPage(p)
       PROVE  DueIsAfterCursor'
  BY <1>14, <1>b DEF NextPage, Turn, worldVars, bookVars
<1>15. ASSUME NEW p \in Pair, NextSource(p)
       PROVE  DueIsAfterCursor'
  BY <1>15, <1>b DEF NextSource, Turn, worldVars, bookVars
<1>16. ASSUME NEW p \in Pair, SourceDone(p)
       PROVE  DueIsAfterCursor'
  <2>1. UNCHANGED cursor /\ \A d \in Target : due'[d] \subseteq due[d]
    BY <1>16, <1>g DEF SourceDone, bookVars
  <2> QED
    BY <2>1
<1>17. ASSUME NEW p \in Pair, EndOfScan(p)
       PROVE  DueIsAfterCursor'
  <2>1. /\ \A d \in Target : due'[d] \subseteq due[d]
        /\ \A d \in Target : cursor'[d] # None => cursor'[d] = cursor[d]
    BY <1>17, <1>g DEF EndOfScan
  <2> QED
    BY <2>1
<1>18. CASE StopSweep
  <2>1. UNCHANGED cursor /\ \A d \in Target : due'[d] \subseteq due[d]
    BY <1>18, <1>g DEF StopSweep, bookVars
  <2> QED
    BY <2>1
<1>19. CASE SavePair
  <2> DEFINE new == [source |-> From(offset), key |-> SaveKey(offset)]
  <2>1. UNCHANGED due /\ pc = "save" /\ offset \in Pair
    BY <1>19, <1>c DEF SavePair
  <2>2. CASE cursor' = cursor
    BY <2>1, <2>2
  <2>3. CASE st[offset] = "open" /\ cursor' = [cursor EXCEPT ![Dest(offset)] = new]
    <3>1. \A k \in Key : <<Input(From(offset)), k>> \in due[Dest(offset)] => SaveKey(offset) < k
      BY <2>1, <2>3 DEF DueIsAhead
    <3>2. new.source = From(offset) /\ new.key = SaveKey(offset)
      OBVIOUS
    <3> HIDE DEF new
    <3>3. \A d \in Target : cursor'[d] = IF d = Dest(offset) THEN new ELSE cursor[d]
      BY <1>g, <2>3
    <3> QED
      BY <2>1, <3>1, <3>2, <3>3
  <2> QED
    BY <1>19, <2>2, <2>3 DEF SavePair
<1>20. CASE SaveTenant
  BY <1>20, <1>b DEF SaveTenant, worldVars, scanVars
<1>21. CASE Release
  BY <1>21, <1>b DEF Release, worldVars, bookVars
<1>22. CASE UNCHANGED vars
  BY <1>22, <1>b DEF vars
<1> HIDE DEF DueIsAfterCursor
<1> QED
  BY <1>1, <1>2, <1>3, <1>4, <1>5, <1>6, <1>7, <1>8, <1>9, <1>10, <1>11,
     <1>12, <1>13, <1>14, <1>15, <1>16, <1>17, <1>18, <1>19, <1>20, <1>21, <1>22
     DEF Next, SweepStep, TurnStep

LEMMA ScanInit ==
    ASSUME Init
    PROVE  TypeOK /\ ScanInv
<1>1. /\ conf \in Config /\ N \in Nat /\ N >= 1 /\ Pair = 0..(N - 1)
  BY ConstantsOK, PairFacts DEF Init
<1>2. 0 \in Pair /\ 0 \in 0..N
  BY <1>1
<1>3. TypeOK
  <2>1. MaxEdits \in Nat /\ MaxFaults \in Nat /\ 0 \in 0..MaxEdits /\ 0 \in 0..MaxFaults
    BY ConstantsOK
  <2> QED
    BY <1>1, <1>2, <2>1 DEF Init, All, TypeOK
<1>4. PlaceOK /\ ScanOK
  BY DEF Init, All, PlaceOK, ScanOK
<1>5. DueIsThere /\ DueIsAfterCursor
  BY DEF Init, DueIsThere, DueIsAfterCursor
<1>6. DueIsAhead
  BY DEF Init, All, DueIsAhead
<1> QED
  BY <1>3, <1>4, <1>5, <1>6 DEF ScanInv

\* Every step keeps what an open scan and the durable cursors say of what is due.
THEOREM ScanInvariant == Spec => [](TypeOK /\ ScanInv)
<1>1. Init => TypeOK /\ ScanInv
  BY ScanInit
<1>2. TypeOK /\ ScanInv /\ [Next]_vars => (TypeOK /\ ScanInv)'
  BY TypeStep, PlaceStep, ScanStep, DueIsThereStep, DueIsAheadStep, DueIsAfterCursorStep
     DEF ScanInv
<1> QED
  BY <1>1, <1>2, PTL DEF Spec

\* The worker's and the buckets' state is what the code takes it for: whose turn
\* it is read back as a place in the list of pairs it was written for, a durable
\* cursor is a listed key of a configured source, whatever lists of pairs follow
\* one another (runScheduled, readTenantCheckpoint, readSourceCheckpoint).
THEOREM SchedulerTypeCorrect == Spec => []TypeOK
BY ScanInvariant, PTL

\* However sweeps are cut, bookkeeping fails and the pairs change, no source that
\* was there all along is passed over before its try: a durable cursor stays
\* before it, and a scan that ends has tried it (writeSourceCheckpoint,
\* finalizeScheduledPairs).
THEOREM NothingIsSkipped == Spec => []CursorSkipsNothing
<1>1. ASSUME TypeOK, ScanInv
      PROVE  CursorSkipsNothing
  <2>1. /\ \A p \in Pair : Dest(p) \in Target
        /\ \A d \in Target : \A e \in due[d] : e = <<e[1], e[2]>> /\ e[2] \in Key
    BY <1>1, PairFacts DEF TypeOK
  <2>2. ASSUME NEW d \in Target, cursor[d] # None, NEW e \in due[d],
               e[1] = Input(cursor[d].source)
        PROVE  cursor[d].key < e[2]
    BY <1>1, <2>1, <2>2 DEF ScanInv, DueIsAfterCursor
  <2>3. ASSUME NEW p \in Pair, AtEnd(p), NEW e \in due[Dest(p)], e[1] = Input(From(p))
        PROVE  FALSE
    BY <1>1, <2>1, <2>3 DEF ScanInv, DueIsAhead, AtEnd
  <2> QED
    BY <2>2, <2>3 DEF CursorSkipsNothing
<1> QED
  BY <1>1, ScanInvariant, PTL

=============================================================================
