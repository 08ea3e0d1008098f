----------------------------- MODULE Layout_proof -----------------------------
(***************************************************************************)
(* Proofs about Ladder and Layout: for streams of every size, pixel shape  *)
(* and rotation, every ladder, every threshold and every number of keys.   *)
(***************************************************************************)
EXTENDS Layout, TLAPS

-----------------------------------------------------------------------------
(* Arithmetic. *)

\* Round is the nearest integer, halves up.
LEMMA RoundNearest ==
    ASSUME NEW a \in Int, NEW b \in Nat \ {0}
    PROVE  /\ Round(a, b) \in Int
           /\ a >= 0 => Round(a, b) \in Nat
           /\ 2 * (b * Round(a, b)) <= 2 * a + b
           /\ 2 * a + b < 2 * (b * Round(a, b)) + 2 * b
<1> DEFINE q == (2 * a + b) \div (2 * b)
<1>1. /\ q \in Int
      /\ a >= 0 => q \in Nat
      /\ (2 * b) * q <= 2 * a + b
      /\ 2 * a + b < (2 * b) * q + 2 * b
  BY SMT
<1>2. (2 * b) * q = 2 * (b * q)
  BY <1>1, SMT
<1> QED
  BY <1>1, <1>2 DEF Round

LEMMA FloorEvenType ==
    ASSUME NEW v \in Nat
    PROVE  /\ floorEven(v) \in Nat /\ floorEven(v) % 2 = 0 /\ 2 <= floorEven(v)
           /\ floorEven(v) <= v \/ floorEven(v) = 2
           /\ v < floorEven(v) + 2
BY SMT DEF floorEven, Greatest

LEMMA RoundEvenType ==
    ASSUME NEW a \in Int, NEW b \in Nat \ {0}
    PROVE  /\ roundEven(a, b) \in Nat /\ roundEven(a, b) % 2 = 0 /\ 2 <= roundEven(a, b)
<1>1. 2 * b \in Nat \ {0}
  BY SMT
<1>2. Round(a, 2 * b) \in Int
  BY <1>1, RoundNearest
<1> QED
  BY <1>2, SMT DEF roundEven, Greatest

\* A side of a frame is even, at least 2, and within the source's.
LEMMA SideType ==
    ASSUME NEW side \in Nat, NEW short \in Int, NEW edge \in Nat
    PROVE  LET n == Side(side, short, edge)
           IN  n \in Nat /\ n % 2 = 0 /\ 2 <= n /\ (n <= side \/ n = 2)
<1> DEFINE r == roundEven(side * short, edge)
           f == floorEven(side)
<1>1. side * short \in Int
  BY SMT
<1>2. edge # 0 => r \in Nat /\ r % 2 = 0 /\ 2 <= r
  BY <1>1, RoundEvenType
<1>3. f \in Nat /\ f % 2 = 0 /\ 2 <= f /\ (f <= side \/ f = 2)
  BY FloorEvenType
<1>4. Side(side, short, edge) = IF edge = 0 THEN 2 ELSE IF r <= f THEN r ELSE f
  BY DEF Side, Least
<1> HIDE DEF r, f
<1>5. CASE edge = 0
  BY <1>4, <1>5, SMT
<1>6. CASE edge # 0 /\ r <= f
  BY <1>2, <1>3, <1>4, <1>6
<1>7. CASE edge # 0 /\ ~(r <= f)
  BY <1>3, <1>4, <1>7
<1> QED
  BY <1>5, <1>6, <1>7

\* No other even number within the source's side is closer.
LEMMA SideClosest ==
    ASSUME NEW side \in Nat, NEW short \in Int, NEW edge \in Nat \ {0},
           NEW m \in {Side(side, short, edge) - 2, Side(side, short, edge) + 2},
           Within(m, side)
    PROVE  Off(Side(side, short, edge), side, short, edge) <= Off(m, side, short, edge)
<1> DEFINE X == side * short
           n == Side(side, short, edge)
           k == Round(X, 2 * edge)
           f == floorEven(side)
           P == n * edge
<1>1. X \in Int /\ 2 * edge \in Nat \ {0} /\ n \in Nat /\ n % 2 = 0 /\ 2 <= n
  <2>1. X \in Int /\ 2 * edge \in Nat \ {0}
    BY SMT
  <2>2. n \in Nat /\ n % 2 = 0 /\ 2 <= n
    BY SideType
  <2> QED
    BY <2>1, <2>2
<1>2. /\ k \in Int
      /\ 2 * ((2 * edge) * k) <= 2 * X + 2 * edge
      /\ 2 * X + 2 * edge < 2 * ((2 * edge) * k) + 2 * (2 * edge)
  BY <1>1, RoundNearest
<1> DEFINE Q == k * edge
<1>3. /\ Q \in Int /\ P \in Nat
      /\ 2 * Q <= X + edge
      /\ X + edge < 2 * Q + 2 * edge
  <2>1. (2 * edge) * k = 2 * Q
    BY <1>2, SMT
  <2>2. Q \in Int /\ P \in Nat
    BY <1>1, <1>2, SMT
  <2> HIDE DEF Q, X, k
  <2> QED
    BY <1>1, <1>2, <2>1, <2>2, SMT
<1>4. n = Least(Greatest(2, 2 * k), f)
  BY DEF Side, roundEven
<1>5. /\ f \in Nat /\ f % 2 = 0 /\ 2 <= f /\ (f <= side \/ f = 2) /\ side < f + 2
  BY FloorEvenType
<1>6. /\ (n + 2) * edge = P + 2 * edge
      /\ (n - 2) * edge = P - 2 * edge
  BY <1>1, SMT
<1>7. CASE n = 2 * k
  <2>1. P = 2 * Q
    BY <1>7, <1>2, SMT
  <2> HIDE DEF X, k, Q, P, n
  <2> QED
    BY <1>1, <1>3, <1>6, <2>1, SMT DEF Off, Distance, n, P, X
<1>8. CASE k <= 0
  <2>1. n = 2
    BY <1>2, <1>4, <1>5, <1>8, SMT DEF Least, Greatest
  <2>0. Q <= 0
    BY <1>2, <1>8, SMT
  <2>2. m = 4 /\ P = 2 * edge /\ m * edge = 4 * edge
    BY <2>1, SMT DEF Within
  <2> HIDE DEF X, k, Q, P, n
  <2>3. X < edge
    BY <1>1, <1>3, <2>0, SMT
  <2> QED
    BY <1>1, <2>2, <2>3, SMT DEF Off, Distance, n, P, X
<1>9. CASE n = f /\ f < 2 * k
  <2>1. m = n - 2
    BY <1>1, <1>5, <1>9, SMT DEF Within
  <2>2. n + 2 <= 2 * k
    BY <1>1, <1>2, <1>9, SMT
  <2>3. (n + 2) * edge <= (2 * k) * edge
    BY <1>1, <1>2, <2>2, SMT
  <2>4. (2 * k) * edge = 2 * Q
    BY <1>2, SMT
  <2>5. P + 2 * edge <= 2 * Q
    BY <1>6, <2>3, <2>4
  <2>6. m * edge = P - 2 * edge
    BY <1>6, <2>1
  <2> HIDE DEF X, k, Q, P
  <2>7. P <= X - edge
    BY <1>1, <1>3, <2>5, SMT
  <2> QED
    BY <1>1, <1>3, <2>6, <2>7, SMT DEF Off, Distance, P, X
<1>10. n = 2 * k \/ k <= 0 \/ (n = f /\ f < 2 * k)
  BY <1>2, <1>4, <1>5, SMT DEF Least, Greatest
<1> QED
  BY <1>7, <1>8, <1>9, <1>10

LEMMA SideIsClosest ==
    ASSUME NEW side \in Nat, NEW short \in Int, NEW edge \in Nat
    PROVE  Closest(Side(side, short, edge), side, short, edge)
<1>1. Within(Side(side, short, edge), side)
  BY SideType DEF Within
<1>2. CASE edge # 0
  BY <1>1, <1>2, SideClosest DEF Closest
<1>3. CASE edge = 0
  <2>1. Side(side, short, edge) = 2
    BY <1>3 DEF Side
  <2>2. \A m \in {0, 4} : Off(m, side, short, edge) = Off(2, side, short, edge)
    BY <1>3, SMT DEF Off
  <2>3. Off(2, side, short, edge) \in Int
    BY SMT DEF Off, Distance
  <2> QED
    BY <1>1, <2>1, <2>2, <2>3, SMT DEF Closest
<1> QED
  BY <1>2, <1>3

\* The bars of a landscape box around a source of nearly its aspect.
LEMMA Bars ==
    ASSUME NEW w \in Nat \ {0}, NEW h \in Nat \ {0}, NEW bw \in Nat \ {0}, NEW bh \in Nat \ {0},
           bh <= bw, 50 * Distance(w * bh, bw * h) <= h * bh
    PROVE  /\ 50 * (bw * h - w * bh) <= bw * h
           /\ 50 * (w * bh - bw * h) <= w * bh
<1> DEFINE x == w * bh
           y == bw * h
           z == h * bh
<1>1. x \in Nat /\ y \in Nat /\ z \in Nat
  BY SMT
<1>2. z <= y
  <2>1. h * bh <= h * bw
    BY SMT
  <2>2. h * bw = bw * h
    BY SMT
  <2> QED
    BY <2>1, <2>2
<1>3. 50 * Distance(x, y) <= z
  OBVIOUS
<1> HIDE DEF x, y, z
<1>4. 50 * (y - x) <= y /\ 50 * (x - y) <= x
  BY <1>1, <1>2, <1>3, SMT DEF Distance
<1> QED
  BY <1>4 DEF x, y

-----------------------------------------------------------------------------
(* What is probed and what is encoded. *)

\* The rotation is a quarter turn, and swaps the sides exactly for two of them,
\* which are those that are nearest to the degrees.
LEMMA RotationType ==
    ASSUME NEW s \in Stream
    PROVE  /\ Rotation(s) % 180 # 0 <=> Rotation(s) \in {90, 270}
           /\ Degrees(s) % 180 \in 46..134 => Rotation(s) % 180 # 0
           /\ Degrees(s) % 180 \notin 45..135 => Rotation(s) % 180 = 0
<1> DEFINE d == Degrees(s)
           q(x) == Round(x, 90)
           quarters == IF d >= 0 THEN q(d) ELSE 0 - q(0 - d)
<1>1. d \in Int
  BY ConstantsOK DEF Degrees
<1>2. Rotation(s) = (90 * quarters) % 360
  BY DEF Rotation
<1> HIDE DEF d
<1>3. ASSUME NEW x \in Int
      PROVE  q(x) \in Int /\ 90 * q(x) <= x + 45 /\ x < 90 * q(x) + 45
  <2>1. q(x) \in Int /\ 2 * (90 * q(x)) <= 2 * x + 90 /\ 2 * x + 90 < 2 * (90 * q(x)) + 2 * 90
    BY RoundNearest
  <2> HIDE DEF q
  <2> QED
    BY <2>1, SMT
<1> HIDE DEF q
<1>4. quarters \in Int /\ 90 * quarters <= d + 45 /\ d <= 90 * quarters + 45
  <2>1. q(d) \in Int /\ 90 * q(d) <= d + 45 /\ d < 90 * q(d) + 45
    BY <1>1, <1>3
  <2>2. /\ q(0 - d) \in Int
        /\ 90 * q(0 - d) <= (0 - d) + 45 /\ 0 - d < 90 * q(0 - d) + 45
    BY <1>1, <1>3, SMT
  <2> QED
    BY <1>1, <2>1, <2>2, SMT
<1> HIDE DEF quarters
<1>5. Rotation(s) % 180 # 0 <=> Rotation(s) \in {90, 270}
  BY <1>2, <1>4, SMT
<1>6. Rotation(s) % 180 = 0 <=> quarters % 2 = 0
  BY <1>2, <1>4, SMT
<1>7. /\ d % 180 \in 46..134 => quarters % 2 # 0
      /\ d % 180 \notin 45..135 => quarters % 2 = 0
  BY <1>1, <1>4, SMT
<1> QED
  BY <1>5, <1>6, <1>7 DEF d

LEMMA ProbeType ==
    ASSUME NEW s \in Stream
    PROVE  /\ Probe(s).w \in Nat /\ Probe(s).h \in Nat
           /\ ShownAs(s, Probe(s).w, Probe(s).h)
           /\ Probe(s).anamorphic = Anamorphic(s)
           /\ s.w \in Nat \ {0} /\ s.h \in Nat \ {0} /\ s.kbps \in Nat
<1> DEFINE width == IF Anamorphic(s) THEN Round(s.w * s.sar[1], s.sar[2]) ELSE s.w
<1>1. /\ s.w \in Nat \ {0} /\ s.h \in Nat \ {0} /\ s.kbps \in Nat
      /\ s.sar[1] \in Int /\ s.sar[2] \in Int
  BY ConstantsOK
<1>2. width \in Nat /\ Pixels(s, width)
  <2>1. CASE Anamorphic(s)
    <3>1. s.w * s.sar[1] \in Nat /\ s.sar[2] \in Nat \ {0}
      BY <1>1, <2>1, SMT DEF Anamorphic
    <3>2. /\ width \in Nat
          /\ 2 * (s.sar[2] * width) <= 2 * (s.w * s.sar[1]) + s.sar[2]
          /\ 2 * (s.w * s.sar[1]) + s.sar[2] < 2 * (s.sar[2] * width) + 2 * s.sar[2]
      <4> DEFINE a == s.w * s.sar[1]
                 b == s.sar[2]
      <4>1. width = Round(a, b)
        BY <2>1
      <4>2. a \in Nat /\ b \in Nat \ {0}
        BY <3>1
      <4> HIDE DEF a, b, width
      <4>3. /\ Round(a, b) \in Nat
            /\ 2 * (b * Round(a, b)) <= 2 * a + b
            /\ 2 * a + b < 2 * (b * Round(a, b)) + 2 * b
        BY <4>2, RoundNearest
      <4> QED
        BY <4>1, <4>3 DEF a, b
    <3>3. s.sar[2] * width = width * s.sar[2] /\ s.sar[2] * width \in Nat
      BY <3>1, <3>2, SMT
    <3>4. 2 * Distance(width * s.sar[2], s.w * s.sar[1]) <= s.sar[2]
      <4> DEFINE x == width * s.sar[2]
                 y == s.w * s.sar[1]
      <4>1. x \in Nat /\ y \in Nat /\ 2 * x <= 2 * y + s.sar[2]
            /\ 2 * y + s.sar[2] < 2 * x + 2 * s.sar[2]
        BY <3>1, <3>2, <3>3
      <4> HIDE DEF x, y
      <4>2. 2 * Distance(x, y) <= s.sar[2]
        BY <3>1, <4>1, SMT DEF Distance
      <4> QED
        BY <4>2 DEF x, y
    <3> QED
      BY <2>1, <3>2, <3>4 DEF Pixels, Anamorphic
  <2>2. CASE ~Anamorphic(s)
    <3>1. width = s.w
      BY <2>2
    <3>2. ASSUME s.sar[1] > 0, s.sar[2] > 0
          PROVE  Distance(s.w * s.sar[2], s.w * s.sar[1]) = 0
      <4>1. s.sar[1] = s.sar[2] /\ s.w * s.sar[2] \in Int
        BY <1>1, <2>2, <3>2, SMT DEF Anamorphic
      <4> QED
        BY <4>1 DEF Distance
    <3> QED
      BY <1>1, <3>1, <3>2 DEF Pixels
  <2> QED
    BY <2>1, <2>2
<1> HIDE DEF width
<1>3. /\ Probe(s).w = IF Rotation(s) % 180 # 0 THEN s.h ELSE width
      /\ Probe(s).h = IF Rotation(s) % 180 # 0 THEN width ELSE s.h
      /\ Probe(s).anamorphic = Anamorphic(s)
  BY DEF Probe, width
<1>4. ShownAs(s, Probe(s).w, Probe(s).h)
  BY <1>2, <1>3, RotationType DEF ShownAs
<1> QED
  BY <1>1, <1>2, <1>3, <1>4

LEMMA CappedType ==
    ASSUME NEW kbps \in Int \ {0}, NEW src \in Nat, NEW codec
    PROVE  Capped(kbps, src, codec) \in Int \ {0}
<1>1. CASE Worth(codec) = None \/ src <= 0
  BY <1>1 DEF Capped
<1>2. CASE Worth(codec) # None /\ ~(src <= 0)
  <2>1. Worth(codec) \in {10, 20, 25}
    BY <1>2 DEF Worth
  <2>2. src * Worth(codec) \in Nat
    BY <2>1, SMT
  <2>3. Round(src * Worth(codec), 8) \in Nat
    BY <2>2, RoundNearest
  <2> QED
    BY <1>2, <2>3, SMT DEF Capped, Least, Greatest, minVideoBitrateKbps
<1> QED
  BY <1>1, <1>2

LEMMA PickedType ==
    ASSUME NEW full \in Conf, NEW edge \in Nat
    PROVE  Picked(full, edge) # {} /\ Picked(full, edge) \subseteq DOMAIN full
<1>1. full \in Seq(Rung) /\ full # << >>
  BY ConstantsOK
<1>2. 1 \in DOMAIN full
  BY <1>1
<1> QED
  BY <1>2 DEF Picked

\* The effective ladder is not empty, and its rungs are frames of the source.
LEMMA LadderFollowsSource ==
    ASSUME NEW full \in Conf, NEW w \in Nat, NEW h \in Nat, NEW src \in Nat, NEW codec
    PROVE  LET L == computeEffectiveLadder(full, w, h, src, codec)
               edge == Least(w, h)
           IN  /\ L # {} /\ L \subseteq Rung
               /\ \A r \in L : \E e \in ShortEdges \cup {edge} :
                    e <= edge /\ Closest(r.w, w, e, edge) /\ Closest(r.h, h, e, edge)
<1> DEFINE edge == Least(w, h)
           E(i) == Least(rungShortEdge(full[i]), edge)
           frame(i) == [w |-> Side(w, E(i), edge), h |-> Side(h, E(i), edge),
                        kbps |-> Capped(full[i].kbps, src, codec)]
           L == computeEffectiveLadder(full, w, h, src, codec)
<1>1. edge \in Nat
  BY SMT DEF Least
<1>2. L = {frame(i) : i \in Picked(full, edge)}
  BY DEF computeEffectiveLadder
<1>3. Picked(full, edge) # {} /\ Picked(full, edge) \subseteq DOMAIN full
  BY <1>1, PickedType
<1> HIDE DEF edge, L
<1>4. ASSUME NEW i \in DOMAIN full
      PROVE  /\ frame(i) \in Rung
             /\ E(i) \in ShortEdges \cup {edge} /\ E(i) <= edge
             /\ Closest(frame(i).w, w, E(i), edge) /\ Closest(frame(i).h, h, E(i), edge)
  <2>1. full[i] \in Rung
    BY ConstantsOK
  <2>2. rungShortEdge(full[i]) \in Int /\ rungShortEdge(full[i]) \in ShortEdges
    BY <2>1 DEF ShortEdges, rungShortEdge, Least, Rung
  <2>3. E(i) \in Int /\ E(i) \in ShortEdges \cup {edge} /\ E(i) <= edge
    BY <1>1, <2>2 DEF Least
  <2>4. Capped(full[i].kbps, src, codec) \in Int \ {0}
    BY <2>1, CappedType DEF Rung
  <2> HIDE DEF E
  <2>5. /\ Side(w, E(i), edge) \in Int \ {0} /\ Side(h, E(i), edge) \in Int \ {0}
        /\ Closest(Side(w, E(i), edge), w, E(i), edge)
        /\ Closest(Side(h, E(i), edge), h, E(i), edge)
    <3>1. \A side \in {w, h} : /\ Side(side, E(i), edge) \in Nat /\ 2 <= Side(side, E(i), edge)
                              /\ Closest(Side(side, E(i), edge), side, E(i), edge)
      BY <1>1, <2>3, SideType, SideIsClosest
    <3> QED
      BY <3>1
  <2> QED
    BY <2>3, <2>4, <2>5 DEF Rung
<1>5. L # {}
  BY <1>2, <1>3
<1> HIDE DEF frame, E
<1>6. L \subseteq Rung
  BY <1>2, <1>3, <1>4
<1>7. \A r \in L : \E e \in ShortEdges \cup {edge} :
          e <= edge /\ Closest(r.w, w, e, edge) /\ Closest(r.h, h, e, edge)
  BY <1>2, <1>3, <1>4
<1> QED
  BY <1>5, <1>6, <1>7 DEF L, edge

-----------------------------------------------------------------------------
(* Invariants. *)

\* What has been probed is stamped, and a stamp is never due: a tree is this
\* encoder's, or has been checked, only under this encoder's version.
Stamped ==
    /\ below \in Accepted
    /\ probes <= 1
    /\ ours \/ probes >= 1 => meta # None /\ meta.enc = Version

LayoutInv == TypeOK /\ Stamped /\ FramesFollowSource /\ LeftAloneIsTight

\* No accepted threshold is above this encoder.
LEMMA OwnVersionIsFine ==
    ASSUME NEW t \in Accepted, t # None
    PROVE  ~versionBelow(Version, t)
BY DEF Accepted

LEMMA InitInv ==
    ASSUME Init
    PROVE  LayoutInv
<1>1. TypeOK
  <2>1. below \in Threshold
    BY DEF Init, Accepted
  <2>2. meta \in Metadata \cup {None}
    BY ConstantsOK DEF Init, Metadata, Stamp
  <2>3. mapped \in [Key -> Stamp \cup {None}]
    BY DEF Init, Stamp
  <2>4. conf \in Conf /\ stream \in Stream /\ ours \in BOOLEAN
    BY Zenon DEF Init
  <2>5. probes \in 0..2
    BY DEF Init
  <2> QED
    BY <2>1, <2>2, <2>3, <2>4, <2>5 DEF TypeOK
<1>2. Stamped
  BY DEF Init, Stamped
<1>3. FramesFollowSource
  BY DEF Init, FramesFollowSource
<1>4. meta # None => meta.enc # Version
  BY ConstantsOK DEF Init
<1>5. LeftAloneIsTight
  BY <1>4 DEF LeftAloneIsTight
<1> QED
  BY <1>1, <1>2, <1>3, <1>5 DEF LayoutInv

\* A tree that has been probed, or is this encoder's, is not probed again.
LEMMA ProbedIsOld ==
    ASSUME LayoutInv, NEW k \in Key, Probed(k)
    PROVE  /\ probes = 0 /\ probes' = 1 /\ ~ours
           /\ meta # None => meta.enc # Version
<1>1. below # None /\ below \in Accepted /\ probes \in 0..2
  BY DEF Probed, Due, LayoutInv, Stamped, TypeOK
<1>2. ~versionBelow(Version, below)
  BY <1>1, OwnVersionIsFine
<1>3. meta # None => meta.enc # Version
  BY <1>2 DEF Probed
<1>4. ~(ours \/ probes >= 1)
  BY <1>3 DEF LayoutInv, Stamped
<1> QED
  BY <1>1, <1>3, <1>4 DEF Probed

\* What the check leaves alone was right: its boxes have the source's aspect.
LEMMA LeftAlone ==
    ASSUME TypeOK, ~Wrong, NEW b \in meta.rungs, b.w >= b.h
    PROVE  LET turned == Rotation(stream) \in {90, 270}
               w == IF turned THEN stream.h ELSE stream.w
               h == IF turned THEN stream.w ELSE stream.h
           IN  /\ 50 * (b.w * h - w * b.h) <= b.w * h
               /\ 50 * (w * b.h - b.w * h) <= w * b.h
<1> DEFINE turned == Rotation(stream) \in {90, 270}
           w == IF turned THEN stream.h ELSE stream.w
           h == IF turned THEN stream.w ELSE stream.h
<1>1. /\ meta \in Metadata /\ stream \in Stream
      /\ ~legacyLayoutWrong(Probe(stream), meta.rungs)
  BY DEF Wrong, TypeOK
<1>2. b.w \in Nat \ {0} /\ b.h \in Nat \ {0}
  <2>1. b.w \in Int /\ b.h \in Int
    BY <1>1 DEF Metadata, Rung
  <2> QED
    BY <1>1, <2>1 DEF legacyLayoutWrong, needsReframe
<1>3. w \in Nat \ {0} /\ h \in Nat \ {0}
  BY <1>1, ProbeType
<1>4. Probe(stream).w = w /\ Probe(stream).h = h
  <2>1. ~Anamorphic(stream)
    BY <1>1, ProbeType DEF legacyLayoutWrong
  <2> QED
    BY <1>1, <2>1, RotationType DEF Probe
<1>5. 50 * Distance(w * b.h, b.w * h) <= h * b.h
  <2>1. ~(50 * Distance(w * b.h, b.w * h) > h * b.h)
    BY <1>1, <1>4 DEF legacyLayoutWrong, needsReframe
  <2>2. w * b.h \in Nat /\ b.w * h \in Nat /\ h * b.h \in Nat
    BY <1>2, <1>3, SMT
  <2> QED
    BY <2>1, <2>2, SMT DEF Distance
<1> HIDE DEF w, h, turned
<1>6. b.h <= b.w
  BY <1>2
<1>7. 50 * (b.w * h - w * b.h) <= b.w * h /\ 50 * (w * b.h - b.w * h) <= w * b.h
  BY <1>2, <1>3, <1>5, <1>6, Bars
<1> QED
  BY <1>7 DEF w, h, turned

LEMMA ReconfigureInv ==
    ASSUME LayoutInv, NEW c \in Conf, NEW t \in Accepted, Reconfigure(c, t)
    PROVE  LayoutInv'
BY DEF LayoutInv, Reconfigure, TypeOK, Stamped, Accepted, FramesFollowSource,
       LeftAloneIsTight

LEMMA RestampInv ==
    ASSUME LayoutInv, NEW k \in Key, Restamp(k) \/ Dedup(k)
    PROVE  LayoutInv'
<1>1. TypeOK'
  BY DEF LayoutInv, Restamp, Dedup, TypeOK, Metadata, Stamp
<1> QED
  BY <1>1 DEF LayoutInv, Restamp, Dedup, Stamped, FramesFollowSource, LeftAloneIsTight

LEMMA LeaveAloneInv ==
    ASSUME LayoutInv, NEW k \in Key, LeaveAlone(k)
    PROVE  LayoutInv'
<1>1. probes' = 1 /\ ~ours /\ TypeOK /\ ~Wrong /\ UNCHANGED <<conf, below, stream, ours>>
  BY ProbedIsOld DEF LeaveAlone, LayoutInv
<1>2. meta \in Metadata
  BY <1>1 DEF TypeOK, Wrong
<1>3. meta' \in Metadata /\ meta'.enc = Version /\ meta'.rungs = meta.rungs
  BY <1>2 DEF LeaveAlone, Metadata, Stamp
<1>4. meta' # None
  BY <1>3, ConstantsOK
<1>5. TypeOK'
  BY <1>1, <1>3 DEF LeaveAlone, TypeOK, Stamp
<1>6. Stamped'
  BY <1>1, <1>3, <1>4 DEF LayoutInv, Stamped
<1>7. LeftAloneIsTight'
  BY <1>1, <1>3, LeftAlone DEF LeftAloneIsTight
<1>8. FramesFollowSource'
  BY <1>1 DEF FramesFollowSource
<1> QED
  BY <1>5, <1>6, <1>7, <1>8 DEF LayoutInv

LEMMA EncodeInv ==
    ASSUME LayoutInv, NEW k \in Key, Encode(k)
    PROVE  LayoutInv'
<1> DEFINE p == Probe(stream)
           L == computeEffectiveLadder(conf, p.w, p.h, stream.kbps, stream.codec)
<1>1. /\ stream \in Stream /\ conf \in Conf /\ probes \in 0..1 /\ TypeOK
      /\ UNCHANGED <<conf, below, stream>> /\ ours' = TRUE
  BY DEF LayoutInv, TypeOK, Stamped, Encode
<1>2. p.w \in Nat /\ p.h \in Nat /\ ShownAs(stream, p.w, p.h) /\ stream.kbps \in Nat
  BY <1>1, ProbeType
<1>3. meta' = [enc |-> Version, rungs |-> L]
  BY DEF Encode
<1> HIDE DEF p
<1>4. /\ L # {} /\ L \subseteq Rung
      /\ \A r \in L : \E e \in ShortEdges \cup {Least(p.w, p.h)} :
            /\ e <= Least(p.w, p.h)
            /\ Closest(r.w, p.w, e, Least(p.w, p.h)) /\ Closest(r.h, p.h, e, Least(p.w, p.h))
  BY <1>1, <1>2, LadderFollowsSource
<1> HIDE DEF L
<1>5. meta' \in Metadata /\ meta'.enc = Version /\ meta'.rungs = L /\ meta' # None
  BY <1>3, <1>4, ConstantsOK DEF Metadata, Stamp
<1>6. probes' \in 0..1
  <2>1. CASE UNCHANGED probes
    BY <1>1, <2>1
  <2>2. CASE Probed(k)
    BY <2>2, ProbedIsOld
  <2> QED
    BY <2>1, <2>2 DEF Encode
<1>7. TypeOK'
  BY <1>1, <1>5, <1>6 DEF Encode, TypeOK, Stamp
<1>8. Stamped'
  BY <1>1, <1>5, <1>6 DEF LayoutInv, Stamped
<1>9. FramesFollowSource'
  BY <1>1, <1>2, <1>4, <1>5 DEF FramesFollowSource, p
<1>10. LeftAloneIsTight'
  BY <1>1 DEF LeftAloneIsTight
<1> QED
  BY <1>7, <1>8, <1>9, <1>10 DEF LayoutInv

LEMMA StepInv ==
    ASSUME LayoutInv, [Next]_vars
    PROVE  LayoutInv'
<1>1. CASE UNCHANGED vars
  BY <1>1 DEF vars, LayoutInv, TypeOK, Stamped, Accepted, FramesFollowSource,
             LeftAloneIsTight
<1>2. CASE Next
  BY <1>2, ReconfigureInv, RestampInv, LeaveAloneInv, EncodeInv DEF Next
<1> QED
  BY <1>1, <1>2

LEMMA Invariance == Spec => []LayoutInv
BY InitInv, StepInv, PTL DEF Spec

\* TypeOK: no side and no bitrate that metadata records is zero, for every
\* stream with a size and every ladder parseLadder accepts, of rungs with negative
\* sides or bitrates too.
THEOREM LayoutTypeCorrect == Spec => []TypeOK
BY Invariance, PTL DEF LayoutInv

\* FramesFollowSource: ladder.go:75-78 for every source, ladder and restart.
THEOREM FramesAreClosest == Spec => []FramesFollowSource
BY Invariance, PTL DEF LayoutInv

\* LeftAloneIsTight: PLAN.md:65-66 for every source and every recorded layout.
THEOREM LeftAloneOutputsAreTight == Spec => []LeftAloneIsTight
BY Invariance, PTL DEF LayoutInv

\* CheckedOnce: PLAN.md:67-68 for every sequence of thresholds and restarts.
THEOREM OutputsAreCheckedOnce == Spec => []CheckedOnce
<1>1. LayoutInv => CheckedOnce
  <2>1. ASSUME LayoutInv, NEW k \in Key, Due(k)
        PROVE  mapped[k] # Version
    BY <2>1, OwnVersionIsFine DEF LayoutInv, Stamped, Due
  <2> QED
    BY <2>1 DEF LayoutInv, Stamped, CheckedOnce
<1> QED
  BY <1>1, Invariance, PTL
=============================================================================
