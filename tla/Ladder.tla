-------------------------------- MODULE Ladder --------------------------------
(***************************************************************************)
(* The arithmetic of core/ladder.go and of the probe's geometry in         *)
(* core/ffprobe.go (lib/src/ladder.ts computes the same ladder).           *)
(*                                                                         *)
(* The doubles of the code are exact rationals here.  The operands are     *)
(* pixels, kbit/s and small factors, so the doubles' rounding decides      *)
(* nothing except whether an aspect that is off by exactly 0.02 is         *)
(* rejected.                                                               *)
(***************************************************************************)
EXTENDS Integers, Sequences

CONSTANT None

Least(a, b) == IF a <= b THEN a ELSE b
Greatest(a, b) == IF a >= b THEN a ELSE b
Distance(a, b) == IF a >= b THEN a - b ELSE b - a

\* math.Round(a / b) for b > 0: halves go up.  Go's go down where a is negative;
\* there is no such a but in roundEven, to which all of them are the same.
Round(a, b) == (2 * a + b) \div (2 * b)

-----------------------------------------------------------------------------
(* What ffprobe reports of a stream and what the code makes of it. *)

\* Display Matrix side data before the rotate tag; degrees of any sign.
Degrees(s) == IF s.matrix # None THEN s.matrix ELSE IF s.tag # None THEN s.tag ELSE 0

\* streamRotation: to the nearest quarter turn, within a circle.
Rotation(s) ==
    LET d == Degrees(s)
        quarters == IF d >= 0 THEN Round(d, 90) ELSE 0 - Round(0 - d, 90)
    IN  (90 * quarters) % 360

\* parseRatio refuses parts that are not positive; 1:1 changes nothing.
Anamorphic(s) == s.sar[1] > 0 /\ s.sar[2] > 0 /\ s.sar[1] # s.sar[2]

\* parseProbeOutput: the coded width times the pixel shape, then the rotation.
Probe(s) ==
    LET width == IF Anamorphic(s) THEN Round(s.w * s.sar[1], s.sar[2]) ELSE s.w
        turned == Rotation(s) % 180 # 0
    IN  [w |-> IF turned THEN s.h ELSE width, h |-> IF turned THEN width ELSE s.h,
         anamorphic |-> Anamorphic(s)]

-----------------------------------------------------------------------------
(* The effective ladder. *)

rungShortEdge(r) == Least(r.w, r.h)
roundEven(a, b)  == Greatest(2, 2 * Round(a, 2 * b))

\* Wrong variant: a side may vanish.
MutFloorEven(v) == v - (v % 2)

floorEven(v)     == Greatest(2, v - (v % 2))

\* Wrong variant: the source's own size is no bound.
MutSide(side, short, edge) == roundEven(side * short, edge)

\* One side of scaleToShortEdge, of a source whose short edge is edge.  Without
\* an edge the quotient is NaN or -Inf, an int whose double wraps to 0: max takes 2.
Side(side, short, edge) ==
    IF edge = 0 THEN 2 ELSE Least(roundEven(side * short, edge), floorEven(side))

\* Rungs that need no upscaling; when there are none, the first that is configured.
Picked(full, edge) ==
    LET fit == {i \in DOMAIN full : rungShortEdge(full[i]) <= edge}
    IN  IF fit = {} THEN {1} ELSE fit

minVideoBitrateKbps == 200

\* codecEfficiency times sourceBitrateHeadroom, in eighths; None: not capped.
Worth(codec) ==
    CASE codec \in {"h264", "mpeg4", "mpeg2video", "mpeg1video", "h263", "mjpeg", "vp8",
                    "theora", "msmpeg4v2", "msmpeg4v3", "wmv1", "wmv2", "wmv3"} -> 10
      [] codec \in {"hevc", "vp9"} -> 20
      [] codec = "av1" -> 25
      [] OTHER -> None

Capped(kbps, src, codec) ==
    IF Worth(codec) = None \/ src <= 0 THEN kbps
    ELSE Least(kbps, Greatest(minVideoBitrateKbps, Round(src * Worth(codec), 8)))

\* The rungs for a source of display size w x h, each with its output frame.
computeEffectiveLadder(full, w, h, src, codec) ==
    LET edge == Least(w, h)
        frame(r) == [w |-> Side(w, Least(rungShortEdge(r), edge), edge),
                     h |-> Side(h, Least(rungShortEdge(r), edge), edge),
                     kbps |-> Capped(r.kbps, src, codec)]
    IN  {frame(full[i]) : i \in Picked(full, edge)}

-----------------------------------------------------------------------------
(* The check of an old output. *)

\* Wrong variant: one rung of the source's aspect is enough.
MutNeedsReframe(w, h, stored) ==
    w <= 0 \/ h <= 0 \/ ~\E r \in stored : 50 * Distance(w * r.h, r.w * h) <= h * r.h

\* The aspects of the source and of a stored rung differ by more than 0.02.
needsReframe(w, h, stored) ==
    \/ w <= 0 \/ h <= 0 \/ stored = {}
    \/ \E r \in stored : r.w <= 0 \/ r.h <= 0 \/ 50 * Distance(w * r.h, r.w * h) > h * r.h

legacyLayoutWrong(p, stored) == p.anamorphic \/ needsReframe(p.w, p.h, stored)

\* A version is one to three numbers; what has other parts than numbers is << >>.
Malformed(v) == Len(v) \notin 1..3

parseVersion(v) == [i \in 1..3 |-> IF i <= Len(v) THEN v[i] ELSE 0]

versionBelow(v, threshold) ==
    LET a == parseVersion(v)
        b == parseVersion(threshold)
    IN  Malformed(v) \/ \E i \in 1..3 : a[i] < b[i] /\ \A j \in 1..(i - 1) : a[j] = b[j]
=============================================================================
