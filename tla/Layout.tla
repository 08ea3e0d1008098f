-------------------------------- MODULE Layout --------------------------------
(***************************************************************************)
(* The output of one content over the configurations of its worker: probed, *)
(* encoded with the effective ladder, recorded in metadata.json, and       *)
(* checked when REENCODE_BELOW_VERSION says so (core/orchestrator.go with  *)
(* core/ladder.go, core/ffprobe.go and LoadConfig of core/config.go).      *)
(*                                                                         *)
(* Here the arithmetic is real and nothing fails; module Reencode has the  *)
(* interleavings and failures of the same steps with the arithmetic as one *)
(* predicate.                                                              *)
(***************************************************************************)
EXTENDS Ladder

CONSTANTS
    Key,        \* source keys that hold one content
    Stream,     \* video streams as ffprobe reports them
    Conf,       \* values of HLS_LADDER: sequences of rungs
    Old,        \* boxes that metadata of an old encoder may record
    OldVersion, \* stamps of other encoders; << >> is a missing or malformed one
    Version,    \* core/version.go
    Threshold   \* values of REENCODE_BELOW_VERSION, and None

\* parseLadder refuses zeros only.
Rung  == [w : Int \ {0}, h : Int \ {0}, kbps : Int \ {0}]
Stamp == OldVersion \cup {Version}

\* metadata.json
Metadata == [enc : Stamp, rungs : SUBSET Rung]

\* parseProbeOutput refuses streams without a size (which ffprobe does not report
\* below 0), parseLadder empty ladders.
ASSUME ConstantsOK ==
    /\ Stream \subseteq [w : Nat \ {0}, h : Nat \ {0}, sar : Int \X Int,
                         matrix : Int \cup {None}, tag : Int \cup {None},
                         kbps : Nat, codec : STRING]
    /\ Conf \subseteq Seq(Rung) \ {<< >>}
    /\ Old \subseteq SUBSET Rung
    /\ Version \in [1..3 -> Nat] /\ OldVersion \subseteq Seq(Nat) \ {Version}
    /\ Threshold \subseteq Seq(Nat) \cup {None}
    /\ None \notin Int \cup Metadata

VARIABLES
    conf, below,    \* the worker's HLS_LADDER and REENCODE_BELOW_VERSION
    stream,         \* the content
    mapped,         \* mapped[k]: the encoder version in k's mapping, or None
    meta,           \* metadata.json, or None
    ours,           \* history: the tree is this encoder's
    probes          \* history: how often the tree was checked by probing, up to 2

vars == <<conf, below, stream, mapped, meta, ours, probes>>

\* Wrong variant: thresholds are not compared with the worker's own version.
MutAccepted == {t \in Threshold : t = None \/ ~Malformed(t)}

\* LoadConfig: unset, or a dotted version that is not newer than this encoder.
Accepted == {t \in Threshold : t = None \/ (~Malformed(t) /\ ~versionBelow(Version, t))}

TypeOK ==
    /\ conf \in Conf /\ below \in Threshold /\ stream \in Stream
    /\ mapped \in [Key -> Stamp \cup {None}]
    /\ meta \in Metadata \cup {None}
    /\ ours \in BOOLEAN
    /\ probes \in 0..2

\* No output yet, or one of an old encoder with or without metadata.
Init ==
    /\ conf \in Conf /\ stream \in Stream
    /\ below \in Accepted
    /\ mapped \in [Key -> OldVersion \cup {None}]
    /\ meta \in {None} \cup [enc : OldVersion, rungs : Old]
    /\ (\A k \in Key : mapped[k] = None) => meta = None
    /\ ours = FALSE
    /\ probes = 0

\* The worker is started with another configuration.
Reconfigure(c, t) ==
    /\ conf' = c /\ below' = t
    /\ UNCHANGED <<stream, mapped, meta, ours, probes>>

-----------------------------------------------------------------------------
(* processSource for one key that holds this content. *)

Exists == \E k \in Key : mapped[k] # None

\* A matching mapping is no cache hit when it is older than the threshold.
Due(k) == mapped[k] # None /\ below # None /\ versionBelow(mapped[k], below)

\* The tree was encoded again or checked already, through another key.
Restamp(k) ==
    /\ Due(k)
    /\ meta # None /\ ~versionBelow(meta.enc, below)
    /\ mapped' = [mapped EXCEPT ![k] = meta.enc]
    /\ UNCHANGED <<conf, below, stream, meta, ours, probes>>

\* Otherwise the source is probed.
Probed(k) ==
    /\ Due(k)
    /\ meta # None => versionBelow(meta.enc, below)
    /\ probes < 2 /\ probes' = probes + 1

Wrong == meta # None => legacyLayoutWrong(Probe(stream), meta.rungs)

\* The old layout was right: metadata, then mapping.
LeaveAlone(k) ==
    /\ Probed(k)
    /\ ~Wrong
    /\ meta' = [meta EXCEPT !.enc = Version]
    /\ mapped' = [mapped EXCEPT ![k] = Version]
    /\ UNCHANGED <<conf, below, stream, ours>>

\* The first encode, or one over an old output.
Encode(k) ==
    LET p == Probe(stream) IN
    /\ \/ ~Exists /\ UNCHANGED probes
       \/ Probed(k) /\ Wrong
    /\ meta' = [enc |-> Version,
                rungs |-> computeEffectiveLadder(conf, p.w, p.h, stream.kbps, stream.codec)]
    /\ mapped' = [mapped EXCEPT ![k] = Version]
    /\ ours' = TRUE
    /\ UNCHANGED <<conf, below, stream>>

\* A key without a mapping is deduplicated onto what is there.
Dedup(k) ==
    /\ mapped[k] = None /\ Exists
    /\ mapped' = [mapped EXCEPT ![k] = Version]
    /\ UNCHANGED <<conf, below, stream, meta, ours, probes>>

Next ==
    \/ \E c \in Conf, t \in Accepted : Reconfigure(c, t)
    \/ \E k \in Key : Restamp(k) \/ LeaveAlone(k) \/ Encode(k) \/ Dedup(k)

Spec == Init /\ [][Next]_vars

-----------------------------------------------------------------------------
(* Properties. *)

\* A side that may be published for a source's, and how far it is from the exact
\* scaling of that side to short edge e, times the source's own edge.
Within(n, side) == n % 2 = 0 /\ 2 <= n /\ (n <= side \/ n = 2)
Off(n, side, e, edge) == Distance(n * edge, side * e)

Closest(n, side, e, edge) ==
    /\ Within(n, side)
    /\ \A m \in {n - 2, n + 2} :
        Within(m, side) => Off(n, side, e, edge) <= Off(m, side, e, edge)

\* A stream is shown as w x h: turned when it is closer to a quarter turn than to
\* none or a half, and its own width as many pixels of its shape as are nearest.
Pixels(s, n) == IF s.sar[1] > 0 /\ s.sar[2] > 0
                THEN 2 * Distance(n * s.sar[2], s.w * s.sar[1]) <= s.sar[2] ELSE n = s.w

ShownAs(s, w, h) ==
    /\ Degrees(s) % 180 \in 46..134 => w = s.h /\ Pixels(s, h)
    /\ Degrees(s) % 180 \notin 45..135 => Pixels(s, w) /\ h = s.h

ShortEdges == UNION {{rungShortEdge(f[i]) : i \in DOMAIN f} : f \in Conf}

\* ladder.go:75-78, "Sides round to the nearest even number but never past the
\* source's own (even-floored) size": whatever the pixel shape, the rotation and
\* the ladder, every frame this encoder published has even sides, of which no
\* other even number within those the source is shown with is closer to the exact
\* scaling, and its short edge is that of a configured rung, or the source's own.
FramesFollowSource ==
    ours => LET p == Probe(stream)
                edge == Least(p.w, p.h)
            IN  /\ ShownAs(stream, p.w, p.h)
                /\ meta.rungs # {}
                /\ \A r \in meta.rungs : \E e \in ShortEdges \cup {edge} :
                    /\ e <= edge
                    /\ Closest(r.w, p.w, e, edge) /\ Closest(r.h, p.h, e, edge)

\* PLAN.md:65-66, "if its display aspect matches the ladder's, the old output was
\* already right": an output that was fitted into its landscape boxes and is left
\* alone shows its source, turned as it is displayed, with bars of at most 2%.
LeftAloneIsTight ==
    (meta # None /\ meta.enc = Version /\ ~ours) =>
        LET turned == Rotation(stream) \in {90, 270}
            w == IF turned THEN stream.h ELSE stream.w
            h == IF turned THEN stream.w ELSE stream.h
        IN  \A b \in meta.rungs : b.w >= b.h =>
                /\ 50 * (b.w * h - w * b.h) <= b.w * h
                /\ 50 * (w * b.h - b.w * h) <= w * b.h

\* PLAN.md:67-68, "each output is checked once", and config.go:131-132: whatever
\* thresholds a worker is restarted with, no output is due again after this
\* encoder has stamped it, and none is probed twice.
CheckedOnce ==
    /\ probes <= 1
    /\ \A k \in Key : Due(k) => mapped[k] # Version
=============================================================================
