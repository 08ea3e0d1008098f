------------------------------- MODULE Library -------------------------------
(***************************************************************************)
(* What a destination bucket promises its clients, whichever worker writes *)
(* it (SPEC.md sections 3 and 6): a mapping leads to content its key held  *)
(* and that plays; content goes only when nothing but orphans leads to it; *)
(* an orphan's mapping goes only after its content, or because others keep *)
(* that alive; what another writer mapped is never an orphan.              *)
(* ContentStore and LibStore implement it.                                 *)
(***************************************************************************)
CONSTANTS Key, Content, None

VARIABLES
    source,     \* source[k]: what the owner has under k
    taken,      \* the key a worker is at, with the content it downloaded
    shown,      \* shown[k]: the content k's mapping leads to
    theirs,     \* keys with a mapping that this kind of worker did not write
    whole,      \* contents that play
    spoilt,     \* contents whose upload or collection was given up half way
    orphan,     \* mappings of keys without a source, found by the cleanup under way
    dead        \* mappings whose content a cleanup began to delete

vars == <<source, taken, shown, theirs, whole, spoilt, orphan, dead>>

Referrers(c) == {k \in Key : shown[k] = c}

\* At first everything shown plays, and is not ours.
Init ==
    /\ source \in [Key -> Content \cup {None}]
    /\ shown \in [Key -> Content \cup {None}]
    /\ theirs = {k \in Key : shown[k] # None}
    /\ whole \in SUBSET Content
    /\ \A k \in theirs : shown[k] \in whole
    /\ taken = {} /\ spoilt = {} /\ orphan = {} /\ dead = {}

\* An owner uploads, replaces or deletes.
Edit(k, v) ==
    /\ source' = [source EXCEPT ![k] = v]
    /\ UNCHANGED <<taken, shown, theirs, whole, spoilt, orphan, dead>>

\* A worker downloads what k holds; it publishes or collects, never both.
Take(k) ==
    /\ taken = {} /\ orphan = {}
    /\ source[k] # None
    /\ taken' = {<<k, source[k]>>}
    /\ UNCHANGED <<source, shown, theirs, whole, spoilt, orphan, dead>>

\* The last object of a tree is there, which mends it or leaves it suspect.
Publish(c) ==
    /\ c \in spoilt \/ \E k \in Key : <<k, c>> \in taken
    /\ whole' = whole \cup {c}
    /\ spoilt' \in {spoilt, spoilt \ {c}}
    /\ UNCHANGED <<source, taken, shown, theirs, orphan, dead>>

\* k is mapped to what was downloaded from it, and this plays.
Show(k, c) ==
    /\ <<k, c>> \in taken
    /\ c \in whole \cup spoilt
    /\ shown' = [shown EXCEPT ![k] = c]
    /\ theirs' = theirs \ {k}
    /\ dead' = dead \ {k}
    /\ taken' \subseteq taken
    /\ UNCHANGED <<source, whole, spoilt, orphan>>

\* The worker is done with its source, or has failed.
Release ==
    /\ taken # {} /\ taken' = {}
    /\ UNCHANGED <<source, shown, theirs, whole, spoilt, orphan, dead>>

\* It fails half way in the upload of what nothing live leads to.
Tear(c) ==
    /\ \E k \in Key : <<k, c>> \in taken
    /\ Referrers(c) \subseteq dead
    /\ spoilt' = spoilt \cup {c}
    /\ taken' = {}
    /\ UNCHANGED <<source, shown, theirs, whole, orphan, dead>>

\* A cleanup lists mappings of ours whose source is gone.
FindOrphans(S) ==
    /\ taken = {} /\ orphan = {}
    /\ S # {}
    /\ S \subseteq {k \in Key : shown[k] # None /\ k \notin theirs /\ source[k] = None}
    /\ orphan' = S
    /\ UNCHANGED <<source, taken, shown, theirs, whole, spoilt, dead>>

\* A content to which only orphans and dead mappings lead is deleted, all of it
\* or in part, and in part perhaps with the cleanup's end.
Collect(c) ==
    /\ \E k \in orphan : shown[k] = c
    /\ Referrers(c) \subseteq orphan \cup dead
    /\ dead' = dead \cup (orphan \cap Referrers(c))
    /\ \/ whole' = whole \ {c} /\ spoilt' = spoilt \ {c} /\ orphan' = orphan
       \/ /\ whole' \in {whole, whole \ {c}}
          /\ spoilt' = spoilt \cup {c}
          /\ orphan' \in {orphan, {}}
    /\ UNCHANGED <<source, taken, shown, theirs>>

\* An orphan's mapping is deleted: its content was, or others live on it.
Hide(k) ==
    /\ k \in orphan
    /\ k \in dead \/ \E j \in Key \ orphan : shown[j] = shown[k]
    /\ shown' = [shown EXCEPT ![k] = None]
    /\ orphan' = orphan \ {k}
    /\ dead' = dead \ {k}
    /\ UNCHANGED <<source, taken, theirs, whole, spoilt>>

\* The cleanup is cut.
Abandon ==
    /\ orphan # {} /\ orphan' = {}
    /\ UNCHANGED <<source, taken, shown, theirs, whole, spoilt, dead>>

Next ==
    \/ \E k \in Key, v \in Content \cup {None} : Edit(k, v)
    \/ \E k \in Key : Take(k) \/ Hide(k)
    \/ \E c \in Content : Publish(c) \/ Tear(c) \/ Collect(c)
    \/ \E k \in Key, c \in Content : Show(k, c)
    \/ \E S \in SUBSET Key : FindOrphans(S)
    \/ Release \/ Abandon

Spec == Init /\ [][Next]_vars
=============================================================================
