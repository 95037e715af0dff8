---------------------------- MODULE Canvas_proofs ----------------------------
(***************************************************************************)
(* For every canvas, every call and every argument of it:                  *)
(*                                                                         *)
(*   LinesAreNear, CirclesAreNear: the loops of canvas_draw_line and       *)
(*   canvas_draw_circle stay near the ideal line and the ideal circle;     *)
(*                                                                         *)
(*   ShapesDrawn: what the canvas shows when a call returns is the call's  *)
(*   shape.                                                                *)
(*                                                                         *)
(* The module goes from the loops' arithmetic to LoopInv and the first two *)
(* theorems, then through the laws of each shape (gradient, corners,       *)
(* bitmap, text, circle, outline) to Painting, the invariant of all calls  *)
(* but lines, and at last to Tracing, the invariant of lines.              *)
(***************************************************************************)
EXTENDS CanvasShapes, FiniteSetTheorems, SequenceTheorems, NaturalsInduction,
        WellFoundedInduction, TLAPS

(***************************************************************************)
(* The line in steps: i in x and j in y so far, of dx and dy; k is how far *)
(* it is beside the ideal line, and k + dx - dy is the code's err.         *)
(***************************************************************************)
StepsX(k, dx, dy) == 2 * (k + dx - dy) >= -dy
StepsY(k, dx, dy) == 2 * (k + dx - dy) <= dx
NextI(i, k, dx, dy) == IF StepsX(k, dx, dy) THEN i + 1 ELSE i
NextJ(j, k, dx, dy) == IF StepsY(k, dx, dy) THEN j + 1 ELSE j
NextK(k, dx, dy) ==
  k - (IF StepsX(k, dx, dy) THEN dy ELSE 0) + (IF StepsY(k, dx, dy) THEN dx ELSE 0)

\* A turn of a flat line always steps in x, and stays within half a pixel and
\* within the box.
LEMMA FlatTurn ==
  ASSUME NEW dx \in Nat, NEW dy \in Nat, NEW i \in 0..dx, NEW j \in 0..dy, NEW k \in Int,
         k = j * dx - i * dy, dy <= dx, -dx <= 2 * k, 2 * k <= dx, ~(i = dx /\ j = dy)
  PROVE  /\ NextI(i, k, dx, dy) = i + 1 /\ i + 1 <= dx /\ NextJ(j, k, dx, dy) \in 0..dy
         /\ -dx <= 2 * NextK(k, dx, dy) /\ 2 * NextK(k, dx, dy) <= dx
<1>1. i < dx
  <2>1. SUFFICES ASSUME i = dx PROVE FALSE
    OBVIOUS
  <2>2. j <= dy - 1
    BY <2>1
  <2>3. k = dx * (j - dy)
    BY <2>1
  <2>4. dx * (dy - j) >= dx
    BY <2>2
  <2>5. dx = 0
    BY <2>3, <2>4
  <2> QED
    BY <2>1, <2>2, <2>5
<1>2. StepsX(k, dx, dy)
  BY DEF StepsX
<1>3. StepsY(k, dx, dy) => j < dy
  <2>1. SUFFICES ASSUME StepsY(k, dx, dy), j = dy PROVE FALSE
    OBVIOUS
  <2>2. k = dy * (dx - i)
    BY <2>1
  <2>3. dy * (dx - i) >= dy
    BY <1>1
  <2> QED
    BY <1>1, <2>1, <2>2, <2>3 DEF StepsY
<1> QED
  BY <1>1, <1>2, <1>3 DEF NextI, NextJ, NextK, StepsY

\* A turn of a steep line always steps in y.
LEMMA SteepTurn ==
  ASSUME NEW dx \in Nat, NEW dy \in Nat, NEW i \in 0..dx, NEW j \in 0..dy, NEW k \in Int,
         k = j * dx - i * dy, dx < dy, -dy <= 2 * k, 2 * k <= dy, ~(i = dx /\ j = dy)
  PROVE  /\ NextI(i, k, dx, dy) \in 0..dx /\ NextJ(j, k, dx, dy) = j + 1 /\ j + 1 <= dy
         /\ -dy <= 2 * NextK(k, dx, dy) /\ 2 * NextK(k, dx, dy) <= dy
<1>1. j < dy
  <2>1. SUFFICES ASSUME j = dy PROVE FALSE
    OBVIOUS
  <2>2. i <= dx - 1
    BY <2>1
  <2>3. k = dy * (dx - i)
    BY <2>1
  <2>4. dy * (dx - i) >= dy
    BY <2>2
  <2> QED
    BY <2>3, <2>4
<1>2. StepsY(k, dx, dy)
  BY DEF StepsY
<1>3. StepsX(k, dx, dy) => i < dx
  <2>1. SUFFICES ASSUME StepsX(k, dx, dy), i = dx PROVE FALSE
    OBVIOUS
  <2>2. k = -(dx * (dy - j))
    BY <2>1
  <2>3. dx * (dy - j) >= dx
    BY <1>1
  <2> QED
    BY <2>1, <2>2, <2>3 DEF StepsX
<1> QED
  BY <1>1, <1>2, <1>3 DEF NextI, NextJ, NextK, StepsX

\* k stays what i and j make of it.
LEMMA TurnKeepsK ==
  ASSUME NEW dx \in Nat, NEW dy \in Nat, NEW i \in Int, NEW j \in Int, NEW k \in Int,
         k = j * dx - i * dy
  PROVE  NextK(k, dx, dy) = NextJ(j, k, dx, dy) * dx - NextI(i, k, dx, dy) * dy
<1>1. (j + 1) * dx = j * dx + dx
  OBVIOUS
<1>2. (i + 1) * dy = i * dy + dy
  OBVIOUS
<1> QED
  BY <1>1, <1>2 DEF NextK, NextJ, NextI

\* What d of a circle's loop amounts to.
Slack(x, y, r) ==
  2 * (x + 1) * (x + 1) + 2 * y * y - 2 * y + 1 - 2 * r * r + 4 * x + 4 * (r - y)

(***************************************************************************)
(* The circle: d counts twice the error of the next pixel, and besides     *)
(* four for each step so far, in x or in y.                                *)
(***************************************************************************)
Drift(x, y, d, r) ==
  d = Slack(x, y, r)

\* A circle of radius 0 is near its centre only.
Near(x, y, r) ==
  r > 0 => /\ x * x + y * y < r * r + y
           /\ y < r => x * x + y * y >= r * r - 2 * r - 2 * x + y + 4

\* A turn that stays at its y keeps what d amounts to, and stays near the circle.
LEMMA CircleStays ==
  ASSUME NEW r \in Nat, NEW x \in Nat, NEW y \in Int, NEW d \in Int,
         y <= r, Drift(x, y, d, r), d <= 0, y >= x, Near(x, y, r)
  PROVE  Drift(x + 1, y, d + 4 * (x + 1) + 6, r) /\ Near(x + 1, y, r)
<1>1. Drift(x + 1, y, d + 4 * (x + 1) + 6, r)
  BY DEF Drift, Slack
<1>2. Near(x + 1, y, r)
  BY DEF Drift, Slack, Near
<1> QED
  BY <1>1, <1>2

\* A turn that goes down by one does too, up to the diagonal.
LEMMA CircleTurns ==
  ASSUME NEW r \in Nat, NEW x \in Nat, NEW y \in Int, NEW d \in Int,
         y <= r, Drift(x, y, d, r), d > 0, y >= x, Near(x, y, r)
  PROVE  /\ Drift(x + 1, y - 1, d + 4 * ((x + 1) - (y - 1)) + 10, r)
         /\ y - 1 >= x + 1 => Near(x + 1, y - 1, r)
<1>1. Drift(x + 1, y - 1, d + 4 * ((x + 1) - (y - 1)) + 10, r)
  BY DEF Drift, Slack
<1>2. ASSUME y - 1 >= x + 1 PROVE Near(x + 1, y - 1, r)
  BY <1>2 DEF Drift, Slack, Near
<1> QED
  BY <1>1, <1>2

\* Near, in the terms of OnCircle.
LEMMA NearIsOnCircle ==
  ASSUME NEW r \in Nat \ {0}, NEW x \in Nat, NEW y \in Int, y <= r, y >= x, Near(x, y, r)
  PROVE  OnCircle(x, y, r)
<1>1. CASE y = r
  <2>1. x * x >= 0
    OBVIOUS
  <2> QED
    BY <1>1, <2>1 DEF Near, OnCircle
<1>2. CASE y < r
  BY <1>2 DEF Near, OnCircle
<1> QED
  BY <1>1, <1>2

-----------------------------------------------------------------------------
(***************************************************************************)
(* What the loops know at each turn.                                       *)
(***************************************************************************)
LineLoops ==
  [op : {"line"}, x1 : Int, y1 : Int, x2 : Int, y2 : Int, c : Int, x : Int, y : Int,
   dx : Nat, sx : {1, -1}, dy : Int, sy : {1, -1}, err : Int]

\* dy is negative in the code: -l.dy is the extent in y.
OnTrack(l, i, j, k) ==
  /\ k = j * l.dx - i * (-l.dy)
  /\ l.x = l.x1 + l.sx * i /\ l.y = l.y1 + l.sy * j
  /\ l.err = k + l.dx - (-l.dy)
  /\ -Larger(l.dx, -l.dy) <= 2 * k /\ 2 * k <= Larger(l.dx, -l.dy)

LineInv(l) ==
  /\ l \in LineLoops
  /\ l.dx = Abs(l.x2 - l.x1) /\ l.sx = (IF l.x1 < l.x2 THEN 1 ELSE -1)
  /\ l.dy = -Abs(l.y2 - l.y1) /\ l.sy = (IF l.y1 < l.y2 THEN 1 ELSE -1)
  /\ \E i \in 0..l.dx, j \in 0..(-l.dy), k \in Int : OnTrack(l, i, j, k)

CircleLoops ==
  [op : {"circle"}, cx : Int, cy : Int, r : Nat, fill : BOOLEAN,
   x : Nat, y : Int, d : Int]

CircleInv(k) ==
  /\ k \in CircleLoops
  /\ k.y <= k.r /\ Drift(k.x, k.y, k.d, k.r)
  /\ k.y >= k.x => Near(k.x, k.y, k.r)

LineParts   == [op : {"line"}, x1 : Int, y1 : Int, x2 : Int, y2 : Int, c : Int]
CircleParts == [op : {"circle"}, cx : Int, cy : Int, r : Int, fill : BOOLEAN]
PixelParts  == [op : {"pixels"}, at : SUBSET (Int \X Int), c : Int]
TextParts   == [op : {"text"}, x : Int, y : Int, text : Texts]
Part        == LineParts \cup CircleParts \cup PixelParts \cup TextParts

LoopInv ==
  /\ todo \in Seq(Part)
  /\ cur.op = "line" => LineInv(cur)
  /\ cur.op = "circle" => CircleInv(cur)

\* canvas_draw_line's loop begins on its line.
LEMMA LineStarts ==
  ASSUME NEW l \in LineParts
  PROVE  LineInv(LineLoop(l))
<1> DEFINE m == LineLoop(l)
<1>1. /\ m \in LineLoops
      /\ m.dx = Abs(m.x2 - m.x1) /\ m.sx = (IF m.x1 < m.x2 THEN 1 ELSE -1)
      /\ m.dy = -Abs(m.y2 - m.y1) /\ m.sy = (IF m.y1 < m.y2 THEN 1 ELSE -1)
      /\ m.x = m.x1 /\ m.y = m.y1 /\ m.err = m.dx + m.dy
  BY DEF LineLoop, LineAt, LineLoops, LineParts, Abs
<1> HIDE DEF m
<1>2. m.dx \in Nat /\ -m.dy \in Nat /\ m.x1 \in Int /\ m.y1 \in Int
  BY <1>1 DEF LineLoops, Abs
<1>3. OnTrack(m, 0, 0, 0)
  BY <1>1, <1>2 DEF OnTrack, LineLoops, Larger
<1> QED
  BY <1>1, <1>2, <1>3 DEF LineInv, m

\* Where a loop is at its end, and what its variables are.
LEMMA LineFacts ==
  ASSUME NEW l, LineInv(l)
  PROVE  /\ l.x1 \in Int /\ l.y1 \in Int /\ l.x2 \in Int /\ l.y2 \in Int /\ l.err \in Int
         /\ l.x \in Int /\ l.y \in Int /\ l.c \in Int /\ l.op = "line"
         /\ l.sx \in {1, -1} /\ l.sy \in {1, -1}
         /\ l.dx \in Nat /\ l.dy \in Int /\ -l.dy \in Nat
         /\ l.x2 = l.x1 + l.sx * l.dx /\ l.y2 = l.y1 + l.sy * (-l.dy)
  BY DEF LineInv, LineLoops, Abs

\* Each turn goes one on along the longer extent.
LEMMA LineGoesOn ==
  ASSUME NEW l, LineInv(l), ~(l.x = l.x2 /\ l.y = l.y2)
  PROVE  /\ LineInv(LineNext(l))
         /\ IF -l.dy <= l.dx THEN Abs(LineNext(l).x - l.x1) = Abs(l.x - l.x1) + 1
                             ELSE Abs(LineNext(l).y - l.y1) = Abs(l.y - l.y1) + 1
<1>1. PICK i \in 0..l.dx, j \in 0..(-l.dy), k \in Int : OnTrack(l, i, j, k)
  BY DEF LineInv
<1> DEFINE dx == l.dx  dy == -l.dy
           i2 == NextI(i, k, dx, dy)  j2 == NextJ(j, k, dx, dy)  k2 == NextK(k, dx, dy)
           m == LineNext(l)
<1>2. /\ dx \in Nat /\ dy \in Nat /\ i \in 0..dx /\ j \in 0..dy
      /\ k = j * dx - i * dy
      /\ -Larger(dx, dy) <= 2 * k /\ 2 * k <= Larger(dx, dy)
      /\ ~(i = dx /\ j = dy)
  BY <1>1, LineFacts DEF OnTrack
<1>3. /\ i2 \in 0..dx /\ j2 \in 0..dy /\ k2 \in Int /\ k2 = j2 * dx - i2 * dy
      /\ IF dy <= dx THEN i2 = i + 1 ELSE j2 = j + 1
      /\ -Larger(dx, dy) <= 2 * k2 /\ 2 * k2 <= Larger(dx, dy)
  <2> HIDE DEF dx, dy
  <2>1. i \in Int /\ j \in Int /\ k2 \in Int
    BY <1>2 DEF NextK
  <2>2. k2 = j2 * dx - i2 * dy
    BY <1>2, <2>1, TurnKeepsK
  <2>3. CASE dy <= dx
    <3>1. /\ i2 = i + 1 /\ i + 1 <= dx /\ j2 \in 0..dy
          /\ -dx <= 2 * k2 /\ 2 * k2 <= dx
      <4>1. Larger(dx, dy) = dx
        BY <1>2, <2>3 DEF Larger
      <4>2. -dx <= 2 * k /\ 2 * k <= dx
        BY <1>2, <4>1
      <4> QED
        BY <1>2, <2>1, <2>3, <4>2, FlatTurn, ZenonT(60)
    <3> HIDE DEF i2, j2, k2
    <3> QED
      BY <1>2, <2>1, <2>2, <2>3, <3>1 DEF Larger
  <2>4. CASE dx < dy
    <3>1. /\ j2 = j + 1 /\ j + 1 <= dy /\ i2 \in 0..dx
          /\ -dy <= 2 * k2 /\ 2 * k2 <= dy
      <4>1. Larger(dx, dy) = dy
        BY <1>2, <2>4 DEF Larger
      <4>2. -dy <= 2 * k /\ 2 * k <= dy
        BY <1>2, <4>1
      <4> QED
        BY <1>2, <2>1, <2>4, <4>2, SteepTurn
    <3> HIDE DEF i2, j2, k2
    <3> QED
      BY <1>2, <2>1, <2>2, <2>4, <3>1 DEF Larger
  <2> QED
    BY <1>2, <2>3, <2>4, <2>1, <2>2
<1>4. /\ (2 * l.err >= l.dy) <=> StepsX(k, dx, dy)
      /\ (2 * l.err <= l.dx) <=> StepsY(k, dx, dy)
  BY <1>1, LineFacts DEF OnTrack, StepsX, StepsY
<1>5. /\ m.op = "line" /\ m.c = l.c
      /\ m.x1 = l.x1 /\ m.y1 = l.y1 /\ m.x2 = l.x2 /\ m.y2 = l.y2
      /\ m.dx = l.dx /\ m.dy = l.dy /\ m.sx = l.sx /\ m.sy = l.sy
  BY DEF LineNext, LineAt, LineInv
<1>6. /\ m.x = (IF StepsX(k, dx, dy) THEN l.x + l.sx ELSE l.x)
      /\ m.y = (IF StepsY(k, dx, dy) THEN l.y + l.sy ELSE l.y)
      /\ m.err = l.err + (IF StepsX(k, dx, dy) THEN l.dy ELSE 0)
                       + (IF StepsY(k, dx, dy) THEN l.dx ELSE 0)
  BY <1>4 DEF LineNext, LineAt
<1>7. m \in LineLoops
  BY LineFacts DEF LineNext, LineAt, LineLoops, LineInv
<1> HIDE DEF m
<1>8. m.x = l.x1 + l.sx * i2 /\ m.y = l.y1 + l.sy * j2
  <2> HIDE DEF dx, dy
  <2>1. l.sx * (i + 1) = l.sx * i + l.sx /\ l.sy * (j + 1) = l.sy * j + l.sy
    BY <1>2, LineFacts
  <2>2. l.sx * i \in Int /\ l.sy * j \in Int
    BY <1>2, LineFacts
  <2>3. l.x = l.x1 + l.sx * i /\ l.y = l.y1 + l.sy * j
    BY <1>1 DEF OnTrack
  <2> QED
    BY <1>6, <2>1, <2>2, <2>3, LineFacts DEF NextI, NextJ
<1>10. m.err = k2 + dx - dy
  BY <1>1, <1>2, <1>6, LineFacts DEF OnTrack, NextK
<1> HIDE DEF i2, j2, k2
<1>11. OnTrack(m, i2, j2, k2)
  BY <1>3, <1>5, <1>8, <1>10 DEF OnTrack
<1>12. /\ m.dx = Abs(m.x2 - m.x1) /\ m.sx = (IF m.x1 < m.x2 THEN 1 ELSE -1)
       /\ m.dy = -Abs(m.y2 - m.y1) /\ m.sy = (IF m.y1 < m.y2 THEN 1 ELSE -1)
  BY <1>5 DEF LineInv
<1>13. LineInv(m)
  BY <1>3, <1>5, <1>7, <1>11, <1>12 DEF LineInv
<1>14. IF dy <= dx THEN Abs(m.x - l.x1) = Abs(l.x - l.x1) + 1
                   ELSE Abs(m.y - l.y1) = Abs(l.y - l.y1) + 1
  <2>1. /\ l.x = l.x1 + l.sx * i /\ l.y = l.y1 + l.sy * j
        /\ l.x1 \in Int /\ l.y1 \in Int /\ l.sx \in {1, -1} /\ l.sy \in {1, -1}
    BY <1>1, LineFacts DEF OnTrack
  <2>2. i \in Nat /\ j \in Nat
    BY <1>2
  <2> HIDE DEF dx, dy
  <2>3. CASE dy <= dx
    <3>1. i2 = i + 1
      BY <1>3, <2>3
    <3>2. Abs(l.sx * i) = i /\ Abs(l.sx * (i + 1)) = i + 1
      BY <2>1, <2>2 DEF Abs
    <3>3. l.x - l.x1 = l.sx * i /\ m.x - l.x1 = l.sx * (i + 1)
      <4>1. l.sx * i \in Int /\ l.sx * (i + 1) \in Int
        BY <2>1, <2>2
      <4> QED
        BY <1>8, <2>1, <3>1, <4>1
    <3> QED
      BY <2>3, <3>2, <3>3
  <2>4. CASE ~(dy <= dx)
    <3>1. j2 = j + 1
      BY <1>3, <2>4
    <3>2. Abs(l.sy * j) = j /\ Abs(l.sy * (j + 1)) = j + 1
      BY <2>1, <2>2 DEF Abs
    <3>3. l.y - l.y1 = l.sy * j /\ m.y - l.y1 = l.sy * (j + 1)
      <4>1. l.sy * j \in Int /\ l.sy * (j + 1) \in Int
        BY <2>1, <2>2
      <4> QED
        BY <1>8, <2>1, <3>1, <4>1
    <3> QED
      BY <2>4, <3>2, <3>3
  <2> QED
    BY <2>3, <2>4
<1> QED
  BY <1>13, <1>14 DEF m

\* canvas_draw_circle's loop begins on its circle.
LEMMA CircleStarts ==
  ASSUME NEW k \in CircleParts, k.r >= 0
  PROVE  CircleInv(CircleLoop(k))
<1> DEFINE m == CircleLoop(k)
<1>1. /\ m \in CircleLoops
      /\ m.r = k.r /\ m.x = 0 /\ m.y = k.r /\ m.d = 3 - 2 * k.r
  BY DEF CircleLoop, CircleAt, CircleLoops, CircleParts
<1>2. k.r \in Nat
  BY DEF CircleParts
<1>3. Drift(0, k.r, 3 - 2 * k.r, k.r) /\ Near(0, k.r, k.r)
  BY <1>2 DEF Drift, Slack, Near
<1> HIDE DEF m
<1> QED
  BY <1>1, <1>2, <1>3 DEF CircleInv, m

\* A turn of the circle's loop stays on its circle.
LEMMA CircleGoesOn ==
  ASSUME NEW k, CircleInv(k), k.y >= k.x
  PROVE  CircleInv(CircleNext(k))
<1> DEFINE m == CircleNext(k)
<1>1. /\ k \in CircleLoops /\ k.r \in Nat /\ k.x \in Nat /\ k.y \in Int /\ k.d \in Int
      /\ k.y <= k.r /\ Drift(k.x, k.y, k.d, k.r) /\ Near(k.x, k.y, k.r)
  BY DEF CircleInv, CircleLoops
<1>2. m \in CircleLoops /\ m.r = k.r /\ m.x = k.x + 1
  BY <1>1 DEF CircleNext, CircleAt, CircleLoops
<1>3. CASE k.d > 0
  <2>1. m.y = k.y - 1 /\ m.d = k.d + 4 * ((k.x + 1) - (k.y - 1)) + 10
    BY <1>3 DEF CircleNext, CircleAt
  <2> HIDE DEF m
  <2>2. Drift(m.x, m.y, m.d, m.r) /\ (m.y >= m.x => Near(m.x, m.y, m.r))
    BY <1>1, <1>2, <1>3, <2>1, CircleTurns
  <2> QED
    BY <1>1, <1>2, <2>1, <2>2 DEF CircleInv, m
<1>4. CASE ~(k.d > 0)
  <2>1. m.y = k.y /\ m.d = k.d + 4 * (k.x + 1) + 6
    BY <1>4 DEF CircleNext, CircleAt
  <2> HIDE DEF m
  <2>2. /\ Drift(k.x + 1, k.y, k.d + 4 * (k.x + 1) + 6, k.r)
        /\ Near(k.x + 1, k.y, k.r)
    <3>1. k.d <= 0
      BY <1>1, <1>4
    <3> QED
      BY <1>1, <3>1, CircleStays
  <2> QED
    BY <1>1, <1>2, <2>1, <2>2 DEF CircleInv, m
<1> QED
  BY <1>3, <1>4
-----------------------------------------------------------------------------
(***************************************************************************)
(* The calls put into todo what the loops can start from.                  *)
(***************************************************************************)
LEMMA LineIsPart ==
  ASSUME NEW x1 \in Int, NEW y1 \in Int, NEW x2 \in Int, NEW y2 \in Int, NEW c \in Int
  PROVE  Line(x1, y1, x2, y2, c) \in Part
  BY DEF Line, Part, LineParts

\* What the calls put into todo are parts.
LEMMA CircleIsPart ==
  ASSUME NEW cx \in Int, NEW cy \in Int, NEW r \in Int, NEW fill \in BOOLEAN
  PROVE  Circle(cx, cy, r, fill) \in Part
  BY DEF Circle, Part, CircleParts

LEMMA PixelsArePart ==
  ASSUME NEW S \in SUBSET (Int \X Int), NEW c \in Int
  PROVE  Pixels(S, c) \in Part
  BY DEF Pixels, Part, PixelParts

LEMMA BoxIsPixels ==
  ASSUME NEW x \in Int, NEW y \in Int, NEW w \in Int, NEW h \in Int
  PROVE  Box(x, y, w, h) \subseteq Int \X Int
  BY DEF Box

\* Colours stay numbers.
LEMMA QuotientIsInt ==
  ASSUME NEW a \in Int, NEW b \in Nat \ {0}
  PROVE  Quotient(a, b) \in Int
  BY DEF Quotient

LEMMA LerpIsInt ==
  ASSUME NEW a \in Int, NEW b \in Int, NEW num \in Int, NEW den \in Nat \ {0}
  PROVE  LerpColor(a, b, num, den) \in Int
<1>1. (b - a) * num \in Int
  OBVIOUS
<1>2. Quotient((b - a) * num, den) \in Int
  BY <1>1, QuotientIsInt
<1> QED
  BY <1>2 DEF LerpColor

\* The parts of each call that has several of them.
LEMMA RectParts ==
  ASSUME NEW x \in Int, NEW y \in Int, NEW w \in Int, NEW h \in Int, NEW fill \in BOOLEAN,
         DrawRect(x, y, w, h, fill)
  PROVE  todo' \in Seq(Part)
<1>1. Pixels(Box(x, y, w, h), Ink) \in Part
  BY BoxIsPixels, PixelsArePart DEF Ink
<1>2. /\ Line(x, y, x + w - 1, y, Ink) \in Part
      /\ Line(x, y + h - 1, x + w - 1, y + h - 1, Ink) \in Part
      /\ Line(x, y, x, y + h - 1, Ink) \in Part
      /\ Line(x + w - 1, y, x + w - 1, y + h - 1, Ink) \in Part
  BY LineIsPart DEF Ink
<1>3. CASE Empty(w, h)
  BY <1>3 DEF DrawRect, Draw
<1>4. CASE ~Empty(w, h)
  BY <1>1, <1>2, <1>4 DEF DrawRect, Draw
<1> QED
  BY <1>3, <1>4

LEMMA RoundedParts ==
  ASSUME NEW x \in Int, NEW y \in Int, NEW w \in Int, NEW h \in Int, NEW r \in Int,
         NEW fill \in BOOLEAN, DrawRoundedRect(x, y, w, h, r, fill)
  PROVE  todo' \in Seq(Part)
<1> DEFINE S == {p \in Box(x, y, w, h) : InsideRoundedRect(p, x, y, w, h, r)}
<1>1. S \in SUBSET (Int \X Int)
  BY BoxIsPixels
<1>2. Pixels(S, Ink) \in Part
  BY <1>1, PixelsArePart DEF Ink
<1>3. /\ Line(x + r, y, x + w - r - 1, y, Ink) \in Part
      /\ Line(x + r, y + h - 1, x + w - r - 1, y + h - 1, Ink) \in Part
      /\ Line(x, y + r, x, y + h - r - 1, Ink) \in Part
      /\ Line(x + w - 1, y + r, x + w - 1, y + h - r - 1, Ink) \in Part
  <2>1. /\ x + r \in Int /\ x + w - r - 1 \in Int /\ y + h - 1 \in Int
        /\ y + r \in Int /\ y + h - r - 1 \in Int /\ x + w - 1 \in Int
    OBVIOUS
  <2>2. \A a, b, c, d \in Int : Line(a, b, c, d, Ink) \in Part
    BY LineIsPart DEF Ink
  <2> QED
    BY <2>1, <2>2, Zenon
<1>4. /\ Circle(x + r, y + r, r, FALSE) \in Part
      /\ Circle(x + w - r - 1, y + r, r, FALSE) \in Part
      /\ Circle(x + r, y + h - r - 1, r, FALSE) \in Part
      /\ Circle(x + w - r - 1, y + h - r - 1, r, FALSE) \in Part
  <2>1. FALSE \in BOOLEAN
    OBVIOUS
  <2>2. \A cx, cy \in Int, k \in BOOLEAN : Circle(cx, cy, r, k) \in Part
    BY CircleIsPart
  <2>3. /\ x + r \in Int /\ x + w - r - 1 \in Int
        /\ y + r \in Int /\ y + h - r - 1 \in Int
    OBVIOUS
  <2> QED
    BY <2>1, <2>2, <2>3, Zenon
<1>5. CASE ~Empty(w, h) /\ fill
  <2>1. todo' = <<Pixels(S, Ink)>>
    BY <1>5 DEF DrawRoundedRect, Draw
  <2> HIDE DEF S
  <2> QED
    BY <1>2, <2>1
<1>6. CASE ~Empty(w, h) /\ ~fill
  <2>1. PICK a, b, c, d, e, f, g, i \in Part : todo' = <<a, b, c, d, e, f, g, i>>
    BY <1>3, <1>4, <1>6 DEF DrawRoundedRect, Draw
  <2> QED
    BY <2>1
<1>7. CASE Empty(w, h)
  BY <1>7 DEF DrawRoundedRect, Draw
<1> QED
  BY <1>5, <1>6, <1>7

LEMMA GradientParts ==
  ASSUME NEW x \in Int, NEW y \in Int, NEW w \in Int, NEW h \in Int,
         NEW top \in Int, NEW bottom \in Int, DrawGradientRect(x, y, w, h, top, bottom)
  PROVE  todo' \in Seq(Part)
<1> DEFINE den == IF h > 1 THEN h - 1 ELSE 1
           row(n) == Line(x, y + n - 1, x + w - 1, y + n - 1, LerpColor(top, bottom, n - 1, den))
<1>1. ASSUME ~Empty(w, h) PROVE \A n \in 1..h : row(n) \in Part
  <2> TAKE n \in 1..h
  <2>1. den \in Nat \ {0} /\ n - 1 \in Int
    BY <1>1 DEF Empty
  <2>2. LerpColor(top, bottom, n - 1, den) \in Int
    BY <2>1, LerpIsInt
  <2> HIDE DEF den
  <2> QED
    BY <2>2, LineIsPart
<1>2. CASE ~Empty(w, h)
  <2>1. todo' = [n \in 1..h |-> row(n)]
    BY <1>2 DEF DrawGradientRect, Draw
  <2>2. h \in Nat
    BY <1>2 DEF Empty
  <2> HIDE DEF row
  <2> QED
    BY <1>1, <1>2, <2>1, <2>2
<1>3. CASE Empty(w, h)
  BY <1>3 DEF DrawGradientRect, Draw
<1> QED
  BY <1>2, <1>3

LEMMA BitmapParts ==
  ASSUME NEW x \in Int, NEW y \in Int, NEW b \in Bitmaps, NEW transparent \in BOOLEAN,
         DrawBitmapMono(x, y, b, transparent)
  PROVE  todo' \in Seq(Part)
<1> DEFINE on  == {q \in Box(0, 0, b.w, b.h) : Bit(b, q[1], q[2])}
           off == IF transparent THEN {} ELSE Box(0, 0, b.w, b.h) \ on
           at(S) == {<<x + q[1], y + q[2]>> : q \in S}
<1>1. on \subseteq Int \X Int /\ off \subseteq Int \X Int
  BY BoxIsPixels, BitmapsHaveSizes
<1>2. \A S \in SUBSET (Int \X Int) : at(S) \in SUBSET (Int \X Int)
  OBVIOUS
<1>3. todo' = <<Pixels(at(on), Ink), Pixels(at(off), Ground)>>
  BY DEF DrawBitmapMono, Draw
<1> HIDE DEF on, off, at
<1>4. Pixels(at(on), Ink) \in Part /\ Pixels(at(off), Ground) \in Part
  BY <1>1, <1>2, PixelsArePart DEF Ink, Ground
<1> QED
  BY <1>3, <1>4

LEMMA ScaledParts ==
  ASSUME NEW x \in Int, NEW y \in Int, NEW b \in Bitmaps, NEW scale \in Scales,
         DrawBitmapMonoScaled(x, y, b, scale)
  PROVE  todo' \in Seq(Part)
<1> DEFINE on == {q \in Box(0, 0, b.w, b.h) : Bit(b, q[1], q[2])}
           dots == UNION {Box(x + q[1] * scale, y + q[2] * scale, scale, scale) : q \in on}
<1>1. \A q \in on : q[1] \in Int /\ q[2] \in Int
  BY BitmapsHaveSizes DEF Box
<1>2. scale \in Nat
  BY BitmapsHaveSizes
<1>3. \A q \in on : Box(x + q[1] * scale, y + q[2] * scale, scale, scale) \subseteq Int \X Int
  <2> TAKE q \in on
  <2>1. x + q[1] * scale \in Int /\ y + q[2] * scale \in Int
    BY <1>1, <1>2
  <2> QED
    BY <2>1, <1>2, BoxIsPixels
<1>4. todo' = <<Pixels(dots, Ink)>>
  BY DEF DrawBitmapMonoScaled, Draw
<1> HIDE DEF on
<1>5. dots \in SUBSET (Int \X Int)
  BY <1>3
<1> HIDE DEF dots
<1> QED
  BY <1>4, <1>5, PixelsArePart DEF Ink

-----------------------------------------------------------------------------
(***************************************************************************)
(* LoopInv holds of every state.                                           *)
(***************************************************************************)
\* What begins at the head of todo is of its kind.
LEMMA HeadIsPart ==
  ASSUME todo \in Seq(Part), todo # <<>>
  PROVE  /\ Head(todo) \in Part /\ Tail(todo) \in Seq(Part)
         /\ Head(todo).op = "line" => Head(todo) \in LineParts
         /\ Head(todo).op = "circle" => Head(todo) \in CircleParts
<1>1. Head(todo) \in Part /\ Tail(todo) \in Seq(Part)
  OBVIOUS
<1>2. \A p \in Part : /\ p.op = "line" => p \in LineParts
                      /\ p.op = "circle" => p \in CircleParts
  BY DEF Part, LineParts, CircleParts, PixelParts, TextParts
<1> QED
  BY <1>1, <1>2

\* A call that draws begins with no loop, or keeps the loop it finds.
LEMMA DrawKeepsLoops ==
  ASSUME LoopInv, NEW c, NEW parts, Draw(c, parts), todo' \in Seq(Part)
  PROVE  LoopInv'
  BY DEF LoopInv, Draw

\* Nothing is drawn at first.
LEMMA LoopInit == Init => LoopInv
  BY DEF Init, LoopInv, NoLoop

\* Every turn of every loop keeps the loops on track.
LEMMA TurnKeepsLoops ==
  ASSUME LoopInv, Turn
  PROVE  LoopInv'
<1>1. CASE LineBegins
  <2>1. /\ cur' = LineLoop(Head(todo)) /\ todo' = Tail(todo)
        /\ Head(todo) \in LineParts /\ todo' \in Seq(Part)
    BY <1>1, HeadIsPart DEF LineBegins, Begins, LoopInv
  <2>2. LineInv(cur') /\ cur'.op = "line"
    BY <2>1, LineStarts, LineFacts
  <2> QED
    BY <2>1, <2>2 DEF LoopInv
<1>2. CASE LineStep
  <2>1. cur.op = "line" /\ LineInv(cur) /\ todo' = todo /\ todo \in Seq(Part)
    BY <1>2 DEF LineStep, LoopInv
  <2>2. CASE cur.x = cur.x2 /\ cur.y = cur.y2
    BY <1>2, <2>1, <2>2 DEF LineStep, LoopInv, NoLoop
  <2>3. CASE ~(cur.x = cur.x2 /\ cur.y = cur.y2)
    <3>1. cur' = LineNext(cur)
      BY <1>2, <2>3 DEF LineStep
    <3>2. LineInv(cur') /\ cur'.op = "line"
      BY <2>1, <2>3, <3>1, LineGoesOn, LineFacts
    <3> QED
      BY <2>1, <3>2 DEF LoopInv
  <2> QED
    BY <2>2, <2>3
<1>3. CASE CircleBegins
  <2>1. Head(todo) \in CircleParts /\ todo' \in Seq(Part)
    BY <1>3, HeadIsPart DEF CircleBegins, Begins, LoopInv
  <2>2. CASE Head(todo).r < 0
    BY <1>3, <2>1, <2>2 DEF CircleBegins, LoopInv
  <2>3. CASE ~(Head(todo).r < 0)
    <3>1. Head(todo).r >= 0 /\ cur' = CircleLoop(Head(todo))
      BY <1>3, <2>1, <2>3 DEF CircleBegins, CircleParts
    <3>2. CircleInv(cur') /\ cur'.op = "circle"
      BY <2>1, <3>1, CircleStarts DEF CircleInv, CircleLoops
    <3> QED
      BY <2>1, <3>2 DEF LoopInv
  <2> QED
    BY <2>2, <2>3
<1>4. CASE CircleStep
  <2>1. cur.op = "circle" /\ CircleInv(cur) /\ todo' = todo /\ todo \in Seq(Part)
    BY <1>4 DEF CircleStep, LoopInv
  <2>2. CASE cur.y >= cur.x
    <3>1. cur' = CircleNext(cur)
      BY <1>4, <2>2 DEF CircleStep
    <3>2. CircleInv(cur') /\ cur'.op = "circle"
      BY <2>1, <2>2, <3>1, CircleGoesOn DEF CircleInv, CircleLoops
    <3> QED
      BY <2>1, <3>2 DEF LoopInv
  <2>3. CASE ~(cur.y >= cur.x)
    BY <1>4, <2>1, <2>3 DEF CircleStep, LoopInv, NoLoop
  <2> QED
    BY <2>2, <2>3
<1>5. CASE TextBegins
  <2>1. todo' \in Seq(Part)
    BY <1>5, HeadIsPart DEF TextBegins, Begins, LoopInv
  <2>2. cur'.op = "text"
    BY <1>5 DEF TextBegins, TextAt
  <2> QED
    BY <2>1, <2>2 DEF LoopInv
<1>6. CASE TextStep
  <2>1. todo' \in Seq(Part)
    BY <1>6 DEF TextStep, LoopInv
  <2>2. cur'.op \in {"text", "none"}
    BY <1>6 DEF TextStep, TextAt, NoLoop
  <2> QED
    BY <2>1, <2>2 DEF LoopInv
<1>7. CASE PaintPixels
  BY <1>7, HeadIsPart DEF PaintPixels, Begins, LoopInv
<1> QED
  BY <1>1, <1>2, <1>3, <1>4, <1>5, <1>6, <1>7 DEF Turn

\* The inductive invariant of both theorems.
THEOREM LoopsOnTrack == Spec => []LoopInv
<1>1. LoopInv /\ [Next]_vars => LoopInv'
  <2> SUFFICES ASSUME LoopInv, [Next]_vars PROVE LoopInv'
    OBVIOUS
  <2>0. ASSUME NEW x \in Coords, NEW y \in Coords, DrawPixel(x, y)
        PROVE  LoopInv'
    <3>1. {<<x, y>>} \in SUBSET (Int \X Int)
      BY CoordsAreInt
    <3>2. Pixels({<<x, y>>}, Ink) \in Part
      BY <3>1, PixelsArePart DEF Ink
    <3> QED
      BY <2>0, <3>2, DrawKeepsLoops DEF DrawPixel, Draw
  <2>1. ASSUME NEW x \in Coords, NEW y \in Coords, NEW x2 \in Coords, NEW y2 \in Coords,
               DrawLine(x, y, x2, y2)
        PROVE  LoopInv'
    <3>1. Line(x, y, x2, y2, Ink) \in Part
      BY LineIsPart, CoordsAreInt DEF Ink
    <3> QED
      BY <2>1, <3>1, DrawKeepsLoops DEF DrawLine, Draw
  <2>2. ASSUME NEW x \in Coords, NEW y \in Coords, NEW w \in Sizes, NEW h \in Sizes,
               NEW fill \in BOOLEAN, DrawRect(x, y, w, h, fill)
        PROVE  LoopInv'
    <3>1. todo' \in Seq(Part)
      BY <2>2, RectParts, CoordsAreInt, SizesAreInt
    <3> QED
      BY <2>2, <3>1, DrawKeepsLoops DEF DrawRect
  <2>3. ASSUME NEW x \in Coords, NEW y \in Coords, NEW w \in Sizes, NEW h \in Sizes,
               NEW r \in Radii, NEW fill \in BOOLEAN, DrawRoundedRect(x, y, w, h, r, fill)
        PROVE  LoopInv'
    <3>1. todo' \in Seq(Part)
      BY <2>3, RoundedParts, CoordsAreInt, SizesAreInt, RadiiAreInt
    <3> QED
      BY <2>3, <3>1, DrawKeepsLoops DEF DrawRoundedRect
  <2>4. ASSUME NEW x \in Coords, NEW y \in Coords, NEW r \in Radii, NEW fill \in BOOLEAN,
               DrawCircle(x, y, r, fill)
        PROVE  LoopInv'
    <3>1. Circle(x, y, r, fill) \in Part
      BY CircleIsPart, CoordsAreInt, RadiiAreInt
    <3> QED
      BY <2>4, <3>1, DrawKeepsLoops DEF DrawCircle, Draw
  <2>5. ASSUME NEW x \in Coords, NEW y \in Coords, NEW w \in Sizes, NEW h \in Sizes,
               NEW top \in Colours, NEW bottom \in Colours,
               DrawGradientRect(x, y, w, h, top, bottom)
        PROVE  LoopInv'
    <3>1. todo' \in Seq(Part)
      <4>1. /\ x \in Int /\ y \in Int /\ w \in Int /\ h \in Int
            /\ top \in Int /\ bottom \in Int
        BY CoordsAreInt, SizesAreInt, ColoursAreInt
      <4> QED
        BY <2>5, <4>1, GradientParts
    <3> QED
      BY <2>5, <3>1, DrawKeepsLoops DEF DrawGradientRect
  <2>6. ASSUME NEW x \in Coords, NEW y \in Coords, NEW b \in Bitmaps,
               NEW transparent \in BOOLEAN, DrawBitmapMono(x, y, b, transparent)
        PROVE  LoopInv'
    <3>1. todo' \in Seq(Part)
      BY <2>6, BitmapParts, CoordsAreInt
    <3> QED
      BY <2>6, <3>1 DEF DrawBitmapMono, Draw, LoopInv
  <2>7. ASSUME NEW x \in Coords, NEW y \in Coords, NEW b \in Bitmaps, NEW scale \in Scales,
               DrawBitmapMonoScaled(x, y, b, scale)
        PROVE  LoopInv'
    <3>1. todo' \in Seq(Part)
      BY <2>7, ScaledParts, CoordsAreInt
    <3> QED
      BY <2>7, <3>1 DEF DrawBitmapMonoScaled, Draw, LoopInv
  <2>8. ASSUME NEW x \in Coords, NEW y \in Coords, NEW text \in Texts, DrawText(x, y, text)
        PROVE  LoopInv'
    <3>1. [op |-> "text", x |-> x, y |-> y, text |-> text] \in Part
      BY CoordsAreInt DEF Part, TextParts
    <3> QED
      BY <2>8, <3>1, DrawKeepsLoops DEF DrawText, Draw
  <2>9. CASE Turn
    BY <2>9, TurnKeepsLoops
  <2>10. CASE Clear
    BY <2>10 DEF Clear, LoopInv
  <2>11. CASE UNCHANGED vars
    BY <2>11 DEF vars, LoopInv
  <2> QED
    BY <2>0, <2>1, <2>2, <2>3, <2>4, <2>5, <2>6, <2>7, <2>8, <2>9, <2>10, <2>11 DEF Next
<1> QED
  BY LoopInit, <1>1, PTL DEF Spec

-----------------------------------------------------------------------------
\* What LineInv says of the ideal line: the product of the signs takes k to the
\* cross product of Deviation.
LEMMA LineIsNear ==
  ASSUME NEW l, LineInv(l)
  PROVE  /\ Between(l.x, l.x1, l.x2) /\ Between(l.y, l.y1, l.y2)
         /\ Deviation(l.x, l.y, l.x1, l.y1, l.x2, l.y2) <= Larger(l.dx, -l.dy)
         /\ 2 * Abs(l.err) <= 3 * Larger(l.dx, -l.dy)
<1>1. PICK i \in 0..l.dx, j \in 0..(-l.dy), k \in Int : OnTrack(l, i, j, k)
  BY DEF LineInv
<1> DEFINE dx == l.dx  dy == -l.dy
<1>2. /\ dx \in Nat /\ dy \in Nat /\ i \in 0..dx /\ j \in 0..dy
      /\ l.x1 \in Int /\ l.y1 \in Int /\ l.x2 \in Int /\ l.y2 \in Int
      /\ l.sx \in {1, -1} /\ l.sy \in {1, -1}
      /\ k = j * dx - i * dy /\ l.err = k + dx - dy
      /\ l.x = l.x1 + l.sx * i /\ l.y = l.y1 + l.sy * j
      /\ l.x2 = l.x1 + l.sx * dx /\ l.y2 = l.y1 + l.sy * dy
      /\ -Larger(dx, dy) <= 2 * k /\ 2 * k <= Larger(dx, dy)
  BY <1>1, LineFacts DEF OnTrack
<1> HIDE DEF dx, dy
<1>3. Between(l.x, l.x1, l.x2) /\ Between(l.y, l.y1, l.y2)
  <2>1. CASE l.sx = 1
    BY <1>2, <2>1 DEF Between
  <2> QED
    BY <1>2 DEF Between
<1>4. (l.y - l.y1) * (l.x2 - l.x1) - (l.x - l.x1) * (l.y2 - l.y1) \in {k, -k}
  <2>1. l.y - l.y1 = l.sy * j /\ l.x2 - l.x1 = l.sx * dx
        /\ l.x - l.x1 = l.sx * i /\ l.y2 - l.y1 = l.sy * dy
    BY <1>2
  <2>2. CASE l.sx = 1 /\ l.sy = 1
    BY <1>2, <2>1, <2>2
  <2>3. CASE l.sx = 1 /\ l.sy = -1
    BY <1>2, <2>1, <2>3
  <2>4. CASE l.sx = -1 /\ l.sy = 1
    BY <1>2, <2>1, <2>4
  <2>5. CASE l.sx = -1 /\ l.sy = -1
    BY <1>2, <2>1, <2>5
  <2> QED
    BY <1>2, <2>2, <2>3, <2>4, <2>5
<1>5. Deviation(l.x, l.y, l.x1, l.y1, l.x2, l.y2) <= Larger(dx, dy)
  <2> DEFINE cross == (l.y - l.y1) * (l.x2 - l.x1) - (l.x - l.x1) * (l.y2 - l.y1)
  <2>1. cross \in {k, -k}
    BY <1>4
  <2>2. Deviation(l.x, l.y, l.x1, l.y1, l.x2, l.y2) = 2 * Abs(cross)
    BY DEF Deviation
  <2> HIDE DEF cross
  <2> QED
    BY <1>2, <2>1, <2>2 DEF Abs, Larger
<1>6. 2 * Abs(l.err) <= 3 * Larger(dx, dy)
  BY <1>2 DEF Abs, Larger
<1> QED
  BY <1>3, <1>5, <1>6 DEF dx, dy

\* canvas_draw_line (lib.rs:268-305), for every two ends: each pixel it paints is
\* in the box of the ends and at most half a pixel beside the line, and the
\* error it adds up is bounded by the extents.
THEOREM LinesAreNear == Spec => []NearLine
<1>1. LoopInv => NearLine
  BY LineIsNear DEF LoopInv, NearLine
<1> QED
  BY <1>1, LoopsOnTrack, PTL

\* canvas_draw_circle (lib.rs:378-418), for every centre and radius: up to the
\* diagonal, its pixels are at most half a pixel outside the circle and at most
\* one and a half inside.
THEOREM CirclesAreNear == Spec => []NearCircle
<1>1. LoopInv => NearCircle
  <2> SUFFICES ASSUME LoopInv, cur.op = "circle", cur.r > 0, cur.y >= cur.x
               PROVE  OnCircle(cur.x, cur.y, cur.r)
    BY DEF NearCircle
  <2>1. CircleInv(cur)
    BY DEF LoopInv
  <2> QED
    BY <2>1, NearIsOnCircle DEF CircleInv, CircleLoops
<1> QED
  BY <1>1, LoopsOnTrack, PTL

-----------------------------------------------------------------------------
(***************************************************************************)
(* Division, and the colours of a gradient.                                *)
(***************************************************************************)

Shades == 0..255

\* Division rounds down, so it keeps the order.
LEMMA DivLaws ==
  ASSUME NEW a \in Int, NEW d \in Nat \ {0}
  PROVE  /\ a \div d \in Int /\ d * (a \div d) <= a /\ a < d * (a \div d) + d
  OBVIOUS

LEMMA DivMonotone ==
  ASSUME NEW a \in Int, NEW b \in Int, NEW d \in Nat \ {0}, a <= b
  PROVE  a \div d <= b \div d
<1> DEFINE m == a \div d  n == b \div d
<1>1. m \in Int /\ n \in Int /\ d * m <= a /\ b < d * n + d
  BY DivLaws
<1> HIDE DEF m, n
<1>2. d * m < d * (n + 1)
  BY <1>1
<1>3. m < n + 1
  <2>1. SUFFICES ASSUME m >= n + 1 PROVE FALSE
    BY <1>1
  <2>2. d * (m - (n + 1)) >= 0
    BY <1>1, <2>1
  <2> QED
    BY <1>1, <1>2, <2>2
<1> QED
  BY <1>1, <1>3 DEF m, n

LEMMA DivExact ==
  ASSUME NEW a \in Int, NEW d \in Nat \ {0}
  PROVE  (a * d) \div d = a
<1> DEFINE m == (a * d) \div d
<1>1. m \in Int /\ d * m <= a * d /\ a * d < d * m + d
  BY DivLaws
<1> HIDE DEF m
<1>2. d * (m - a) <= 0 /\ d * (m - a) > -d
  BY <1>1
<1>3. ~(m - a >= 1) /\ ~(m - a <= -1)
  <2>1. ASSUME m - a >= 1 PROVE FALSE
    <3>1. d * (m - a - 1) >= 0
      BY <1>1, <2>1
    <3> QED
      BY <1>1, <1>2, <3>1
  <2>2. ASSUME m - a <= -1 PROVE FALSE
    <3>1. d * (a - m - 1) >= 0
      BY <1>1, <2>2
    <3> QED
      BY <1>1, <1>2, <3>1
  <2> QED
    BY <2>1, <2>2
<1> QED
  BY <1>1, <1>3 DEF m

\* The part of a range that n of d steps make.
LEMMA QuotientLaws ==
  ASSUME NEW g \in Int, NEW d \in Nat \ {0}, NEW n \in 0..d, NEW m \in 0..d, n <= m
  PROVE  /\ Quotient(g * n, d) \in Int
         /\ Quotient(g * 0, d) = 0 /\ Quotient(g * d, d) = g
         /\ Between(Quotient(g * n, d), 0, Quotient(g * m, d))
<1>1. /\ g * n \in Int /\ g * m \in Int /\ (-g) * n \in Int /\ (-g) * m \in Int
      /\ -(g * n) = (-g) * n /\ -(g * m) = (-g) * m /\ -(g * d) = (-g) * d /\ g * d \in Int
      /\ g * 0 = 0
  OBVIOUS
<1>2. 0 \div d = 0
  BY DivExact
<1>3. CASE g >= 0
  <2>1. g * n >= 0 /\ g * m >= 0 /\ g * d >= 0 /\ g * n <= g * m
    <3>1. g * (m - n) >= 0
      BY <1>3
    <3> QED
      BY <1>3, <3>1
  <2>2. 0 \div d <= (g * n) \div d /\ (g * n) \div d <= (g * m) \div d
    BY <1>1, <2>1, DivMonotone
  <2>3. (g * d) \div d = g
    BY DivExact
  <2>4. (g * n) \div d \in Int /\ (g * m) \div d \in Int
    BY <1>1, DivLaws
  <2> QED
    BY <1>1, <1>2, <2>1, <2>2, <2>3, <2>4 DEF Quotient, Between
<1>4. CASE g < 0
  <2> DEFINE f == -g
  <2>1. f \in Nat \ {0} /\ -(g * n) = f * n /\ -(g * m) = f * m /\ -(g * d) = f * d
    BY <1>1, <1>4
  <2> HIDE DEF f
  <2>2. f * n >= 0 /\ f * m >= 0 /\ f * d > 0 /\ f * n <= f * m /\ f * d \in Int
        /\ f * n \in Int /\ f * m \in Int
    <3>1. f * (m - n) >= 0
      BY <2>1
    <3> QED
      BY <2>1, <3>1
  <2>3. 0 \div d <= (f * n) \div d /\ (f * n) \div d <= (f * m) \div d
    BY <2>2, DivMonotone
  <2>4. (f * d) \div d = f
    BY <2>1, DivExact
  <2>5. (f * n) \div d \in Int /\ (f * m) \div d \in Int
    BY <2>2, DivLaws
  <2>6. Quotient(g * n, d) = -((f * n) \div d) /\ Quotient(g * m, d) = -((f * m) \div d)
    BY <1>1, <1>2, <2>1, <2>2 DEF Quotient
  <2>7. Quotient(g * d, d) = g /\ Quotient(g * 0, d) = 0
    BY <1>1, <1>2, <2>1, <2>2, <2>4 DEF Quotient, f
  <2> QED
    BY <1>2, <2>3, <2>5, <2>6, <2>7 DEF Between
<1> QED
  BY <1>3, <1>4

\* The colour of a row of a gradient.
Shade(c, v) == LerpColor(c.top, c.bottom, v - c.y, IF c.h > 1 THEN c.h - 1 ELSE 1)

\* The rows of a gradient go from one end to the other without a step back.
LEMMA ShadeLaws ==
  ASSUME NEW c, c.y \in Int, c.h \in Int, c.h > 0, c.top \in 0..255, c.bottom \in 0..255,
         NEW u \in c.y..(c.y + c.h - 1), NEW v \in c.y..(c.y + c.h - 1), u <= v
  PROVE  /\ Shade(c, v) \in Shades /\ Between(Shade(c, v), c.top, c.bottom)
         /\ Shade(c, c.y) = c.top /\ (c.h > 1 => Shade(c, c.y + c.h - 1) = c.bottom)
         /\ Between(Shade(c, u), c.top, Shade(c, v))
<1> DEFINE den == IF c.h > 1 THEN c.h - 1 ELSE 1
           g == c.bottom - c.top
           part(n) == Quotient(g * n, den)
<1>0. c.top \in 0..255 /\ c.bottom \in 0..255 /\ c.top \in Int /\ c.bottom \in Int
  OBVIOUS
<1>1. den \in Nat \ {0} /\ g \in Int
  BY <1>0
<1>2. c.h > 1 => den = c.h - 1
  OBVIOUS
<1>12. c.h = 1 => den = 1
  OBVIOUS
<1> DEFINE i == u - c.y  j == v - c.y
<1>3. \A n : Shade(c, n) = c.top + part(n - c.y)
  <2>1. ~(den <= 0)
    BY <1>1
  <2> QED
    BY <2>1 DEF Shade, LerpColor
<1> HIDE DEF den, g
<1>13. /\ i \in 0..den /\ j \in 0..den /\ i <= j /\ 0 \in 0..den /\ den \in 0..den
       /\ 0 <= i /\ j <= den
  BY <1>1, <1>2, <1>12
<1>14. c.y - c.y = 0 /\ (c.h > 1 => c.y + c.h - 1 - c.y = den)
  BY <1>1, <1>2
<1> HIDE DEF i, j
<1>4. /\ part(0) = 0 /\ part(den) = g
      /\ part(i) \in Int /\ part(j) \in Int
      /\ Between(part(i), 0, part(j))
  BY <1>1, <1>13, QuotientLaws
<1>5. Between(part(j), 0, g)
  <2>1. Between(part(j), 0, part(den))
    BY <1>1, <1>13, QuotientLaws
  <2> QED
    BY <1>4, <2>1
<1>6. /\ Shade(c, u) = c.top + part(i) /\ Shade(c, v) = c.top + part(j)
      /\ Shade(c, c.y) = c.top + part(0)
      /\ c.h > 1 => Shade(c, c.y + c.h - 1) = c.top + part(den)
  BY <1>3, <1>14 DEF i, j
<1> HIDE DEF part
<1>7. c.top + g = c.bottom
  BY <1>0 DEF g
<1>8. Between(Shade(c, v), c.top, c.bottom) /\ Between(Shade(c, u), c.top, Shade(c, v))
  BY <1>0, <1>1, <1>4, <1>5, <1>6, <1>7 DEF Between
<1>9. Shade(c, v) \in Shades
  <2>1. Shade(c, v) \in Int
    BY <1>0, <1>4, <1>6
  <2> QED
    <3>1. \A a \in Int, b \in 0..255, d \in 0..255 : Between(a, b, d) => a \in 0..255
      BY DEF Between
    <3> QED
      BY <1>0, <1>8, <2>1, <3>1 DEF Shades
<1> QED
  BY <1>1, <1>4, <1>6, <1>7, <1>8, <1>9

\* The corners of a filled rounded rectangle, by distance and by the code's centres.
LEMMA RoundedAgree ==
  ASSUME NEW c, c.x \in Int, c.y \in Int, c.w \in Int, c.h \in Int, c.r \in Int
  PROVE  {p \in Box(c.x, c.y, c.w, c.h) : InsideRoundedRect(p, c.x, c.y, c.w, c.h, c.r)}
           = RoundedShape(c)
<1> DEFINE half == Smaller(c.r, Smaller(c.w \div 2, c.h \div 2))
           r == Larger(0, Smaller(c.r, Smaller(c.w, c.h) \div 2))
           beyond(a, lo, hi) == Larger(0, Larger(lo - a, a - hi))
           dx(p) == beyond(p[1], c.x + r, c.x + c.w - 1 - r)
           dy(p) == beyond(p[2], c.y + r, c.y + c.h - 1 - r)
           left(p) == p[1] < c.x + half   right(p) == p[1] >= c.x + c.w - half
           top(p) == p[2] < c.y + half    bottom(p) == p[2] >= c.y + c.h - half
           ex(p) == p[1] - (IF left(p) THEN c.x + half ELSE c.x + c.w - half - 1)
           ey(p) == p[2] - (IF top(p) THEN c.y + half ELSE c.y + c.h - half - 1)
<1>1. ASSUME NEW p \in Box(c.x, c.y, c.w, c.h)
      PROVE  InsideRoundedRect(p, c.x, c.y, c.w, c.h, c.r) <=> dx(p) * dx(p) + dy(p) * dy(p) <= r * r
  <2>1. /\ p[1] \in Int /\ p[2] \in Int
        /\ c.x <= p[1] /\ p[1] <= c.x + c.w - 1 /\ c.y <= p[2] /\ p[2] <= c.y + c.h - 1
    BY DEF Box
  <2>2. /\ half \in Int /\ r \in Nat /\ (c.r >= 0 => half = r) /\ (c.r < 0 => half < 0 /\ r = 0)
        /\ 2 * r <= c.w /\ 2 * r <= c.h
    BY <2>1 DEF Smaller, Larger
  <2>3. InsideRoundedRect(p, c.x, c.y, c.w, c.h, c.r)
          <=> ((left(p) \/ right(p)) /\ (top(p) \/ bottom(p))
                  => ex(p) * ex(p) + ey(p) * ey(p) <= half * half)
    BY DEF InsideRoundedRect
  <2> HIDE DEF half, r
  <2>4. CASE c.r < 0
    <3>1. dx(p) = 0 /\ dy(p) = 0 /\ ~left(p) /\ ~right(p)
      BY <2>1, <2>2, <2>4 DEF Larger
    <3> QED
      BY <2>2, <2>3, <2>4, <3>1
  <2>5. CASE c.r >= 0
    <3>1. half = r
      BY <2>2, <2>5
    <3>2. /\ dx(p) \in 0..r /\ dy(p) \in 0..r
          /\ ~(left(p) \/ right(p)) => dx(p) = 0
          /\ ~(top(p) \/ bottom(p)) => dy(p) = 0
          /\ left(p) \/ right(p) => ex(p) \in {dx(p), -dx(p)}
          /\ top(p) \/ bottom(p) => ey(p) \in {dy(p), -dy(p)}
      BY <2>1, <2>2, <3>1 DEF Larger
    <3> HIDE DEF dx, dy, ex, ey, left, right, top, bottom
    <3>3. CASE (left(p) \/ right(p)) /\ (top(p) \/ bottom(p))
      <4>1. ex(p) * ex(p) = dx(p) * dx(p) /\ ey(p) * ey(p) = dy(p) * dy(p)
        <5>1. (-dx(p)) * (-dx(p)) = dx(p) * dx(p) /\ (-dy(p)) * (-dy(p)) = dy(p) * dy(p)
          BY <3>2, <2>2
        <5> QED
          BY <3>2, <3>3, <5>1
      <4> QED
        BY <2>3, <3>1, <3>3, <4>1
    <3>4. CASE ~((left(p) \/ right(p)) /\ (top(p) \/ bottom(p)))
      <4>1. dx(p) = 0 \/ dy(p) = 0
        BY <3>2, <3>4
      <4>2. dx(p) * dx(p) <= r * r /\ dy(p) * dy(p) <= r * r
        BY <2>2, <3>2
      <4>3. dx(p) * dx(p) + dy(p) * dy(p) <= r * r
        BY <2>2, <3>2, <4>1, <4>2
      <4> QED
        BY <2>3, <3>4, <4>3
    <3> QED
      BY <3>3, <3>4
  <2> QED
    BY <2>1, <2>4, <2>5
<1> HIDE DEF half, dx, dy, r
<1>2. RoundedShape(c) = {p \in Box(c.x, c.y, c.w, c.h) : dx(p) * dx(p) + dy(p) * dy(p) <= r * r}
  BY DEF RoundedShape, dx, dy, r
<1> QED
  BY <1>1, <1>2

-----------------------------------------------------------------------------
(***************************************************************************)
(* The dots of a bitmap.                                                   *)
(***************************************************************************)

\* A quotient is known by its two bounds.
LEMMA DivUnique ==
  ASSUME NEW n \in Int, NEW d \in Nat \ {0}, NEW a \in Int, d * a <= n, n < d * a + d
  PROVE  n \div d = a
<1> DEFINE m == n \div d
<1>1. m \in Int /\ d * m <= n /\ n < d * m + d
  BY DivLaws
<1> HIDE DEF m
<1>2. d * (m - a) < d /\ d * (a - m) < d
  BY <1>1
<1>3. ~(m - a >= 1) /\ ~(a - m >= 1)
  <2>1. ASSUME m - a >= 1 PROVE FALSE
    <3>1. d * (m - a - 1) >= 0
      BY <1>1, <2>1
    <3> QED
      BY <1>1, <1>2, <3>1
  <2>2. ASSUME a - m >= 1 PROVE FALSE
    <3>1. d * (a - m - 1) >= 0
      BY <1>1, <2>2
    <3> QED
      BY <1>1, <1>2, <3>1
  <2> QED
    BY <2>1, <2>2
<1> QED
  BY <1>1, <1>3 DEF m

\* A scaled coordinate is of one dot, which is on the bitmap if the coordinate is in
\* its scaled area.
LEMMA DotOf ==
  ASSUME NEW v \in Int, NEW x \in Int, NEW w \in Nat, NEW s \in Nat \ {0}
  PROVE  /\ (v - x) \div s \in Int
         /\ v \in x..(x + w * s - 1) <=> (v - x) \div s \in 0..(w - 1)
         /\ \A a \in Int : v \in (x + a * s)..(x + a * s + s - 1) <=> (v - x) \div s = a
<1> DEFINE q == (v - x) \div s
<1>1. q \in Int /\ s * q <= v - x /\ v - x < s * q + s
  BY DivLaws
<1> HIDE DEF q
<1>2. ASSUME NEW a \in Int
      PROVE  v \in (x + a * s)..(x + a * s + s - 1) <=> q = a
  <2>1. s * a \in Int /\ a * s = s * a
    OBVIOUS
  <2>2. v \in (x + a * s)..(x + a * s + s - 1) <=> s * a <= v - x /\ v - x < s * a + s
    BY <2>1
  <2>3. s * a <= v - x /\ v - x < s * a + s => q = a
    BY DivUnique DEF q
  <2> QED
    BY <1>1, <2>2, <2>3
<1>3. v \in x..(x + w * s - 1) <=> 0 <= v - x /\ v - x < s * w
  <2>1. w * s = s * w /\ s * w \in Int
    OBVIOUS
  <2> QED
    BY <2>1
<1>4. q >= 0 => v - x >= 0
  <2>1. q >= 0 => s * q >= 0
    BY <1>1
  <2> QED
    BY <1>1, <2>1
<1>5. q < 0 => v - x < 0
  <2>1. q < 0 => s * (q + 1) <= 0
    BY <1>1
  <2>2. s * (q + 1) = s * q + s
    BY <1>1
  <2> QED
    BY <1>1, <2>1, <2>2
<1>6. q <= w - 1 => v - x < s * w
  <2>1. q <= w - 1 => s * (w - 1 - q) >= 0
    BY <1>1
  <2>2. s * (w - 1 - q) = s * w - s - s * q
    BY <1>1
  <2> QED
    BY <1>1, <2>1, <2>2
<1>7. q >= w => v - x >= s * w
  <2>1. q >= w => s * (q - w) >= 0
    BY <1>1
  <2>2. s * (q - w) = s * q - s * w
    BY <1>1
  <2> QED
    BY <1>1, <2>1, <2>2
<1> QED
  BY <1>1, <1>2, <1>3, <1>4, <1>5, <1>6, <1>7 DEF q

\* The pixel that shows dot <<i, j>> is lit if the dot's bit is set: rows begin with a
\* byte of their own, as the code's stride has it.
LEMMA LitIsBit ==
  ASSUME NEW c, c.b \in Bitmaps, c.x \in Int, c.y \in Int, c.scale \in Nat \ {0},
         NEW p, p[1] \in Int, p[2] \in Int
  PROVE  Lit(c, p) <=> Bit(c.b, (p[1] - c.x) \div c.scale, (p[2] - c.y) \div c.scale)
<1> DEFINE i == (p[1] - c.x) \div c.scale  j == (p[2] - c.y) \div c.scale
           bytes == (c.b.w + 7) \div 8
<1>1. i \in Int /\ j \in Int
  <2>1. p[1] - c.x \in Int /\ p[2] - c.y \in Int
    OBVIOUS
  <2> QED
    BY <2>1, DivLaws
<1>2. bytes \in Int
  BY BitmapsHaveSizes
<1>3. Lit(c, p) <=> (7 - ((j * (8 * bytes) + i) % 8)) \in c.b.bits[(j * (8 * bytes) + i) \div 8]
  BY DEF Lit
<1>4. Bit(c.b, i, j) <=> (7 - (i % 8)) \in c.b.bits[j * bytes + i \div 8]
  BY DEF Bit
<1> HIDE DEF i, j, bytes
<1>5. \A m \in Int : (8 * m + i) % 8 = i % 8 /\ (8 * m + i) \div 8 = m + i \div 8
  BY <1>1
<1>6. j * bytes \in Int /\ j * (8 * bytes) = 8 * (j * bytes)
  BY <1>1, <1>2
<1>7. (j * (8 * bytes) + i) % 8 = i % 8 /\ (j * (8 * bytes) + i) \div 8 = j * bytes + i \div 8
  BY <1>5, <1>6
<1> QED
  BY <1>3, <1>4, <1>7 DEF i, j

\* The dots of a bitmap that are lit, as the code collects them.
LEMMA DotsAgree ==
  ASSUME NEW c, c.b \in Bitmaps, c.x \in Int, c.y \in Int, c.scale \in Nat
  PROVE  UNION {Box(c.x + q[1] * c.scale, c.y + q[2] * c.scale, c.scale, c.scale) :
                  q \in {q \in Box(0, 0, c.b.w, c.b.h) : Bit(c.b, q[1], q[2])}}
           = {p \in Area(c) : Lit(c, p)}
<1> DEFINE on == {q \in Box(0, 0, c.b.w, c.b.h) : Bit(c.b, q[1], q[2])}
           dot(q) == Box(c.x + q[1] * c.scale, c.y + q[2] * c.scale, c.scale, c.scale)
<1>0. c.b.w \in Nat /\ c.b.h \in Nat
  BY BitmapsHaveSizes
<1>1. CASE c.scale = 0
  <2>1. Area(c) = {}
    BY <1>0, <1>1 DEF Area, Box
  <2>2. \A q \in on : dot(q) = {}
    <3> TAKE q \in on
    <3>1. q[1] \in Int /\ q[2] \in Int
      BY <1>0 DEF Box
    <3> QED
      BY <1>1, <3>1 DEF Box
  <2> HIDE DEF on, dot
  <2>3. UNION {dot(q) : q \in on} = {}
    BY <2>2
  <2> QED
    BY <2>1, <2>3 DEF on, dot
<1>2. CASE c.scale # 0
  <2> DEFINE s == c.scale
             at(p) == <<(p[1] - c.x) \div s, (p[2] - c.y) \div s>>
  <2>0. s \in Nat \ {0}
    BY <1>2
  <2>9. \A v, x \in Int, w \in Nat :
          v \in x..(x + w * s - 1) <=> (v - x) \div s \in 0..(w - 1)
    BY <2>0, DotOf
  <2>1. ASSUME NEW p \in Area(c), Lit(c, p)
        PROVE  at(p) \in on /\ p \in dot(at(p))
    <3>1. p \in (c.x..(c.x + c.b.w * s - 1)) \X (c.y..(c.y + c.b.h * s - 1))
      BY DEF Area, Box
    <3>2. p[1] \in Int /\ p[2] \in Int /\ p = <<p[1], p[2]>>
          /\ p[1] \in c.x..(c.x + c.b.w * s - 1) /\ p[2] \in c.y..(c.y + c.b.h * s - 1)
      BY <3>1
    <3> DEFINE i == (p[1] - c.x) \div s  j == (p[2] - c.y) \div s
    <3>8. i \in Int /\ j \in Int
      BY <2>0, <3>2, DotOf
    <3>3. i \in 0..(c.b.w - 1) /\ p[1] \in (c.x + i * s)..(c.x + i * s + s - 1)
      <4>3. p[1] \in c.x..(c.x + c.b.w * s - 1) <=> i \in 0..(c.b.w - 1)
        BY <1>0, <2>9, <3>2
      <4>1. i \in 0..(c.b.w - 1)
        BY <3>2, <4>3, Zenon
      <4>2. \A a \in Int : i = a => p[1] \in (c.x + a * s)..(c.x + a * s + s - 1)
        BY <1>0, <2>0, <3>2, DotOf
      <4> QED
        BY <3>8, <4>1, <4>2
    <3>4. j \in 0..(c.b.h - 1) /\ p[2] \in (c.y + j * s)..(c.y + j * s + s - 1)
      <4>3. p[2] \in c.y..(c.y + c.b.h * s - 1) <=> j \in 0..(c.b.h - 1)
        BY <1>0, <2>9, <3>2
      <4>1. j \in 0..(c.b.h - 1)
        BY <3>2, <4>3, Zenon
      <4>2. \A a \in Int : j = a => p[2] \in (c.y + a * s)..(c.y + a * s + s - 1)
        BY <1>0, <2>0, <3>2, DotOf, ZenonT(60)
      <4> QED
        BY <3>8, <4>1, <4>2
    <3>5. Bit(c.b, i, j)
      BY <2>0, <2>1, <3>2, LitIsBit
    <3>9. at(p) = <<i, j>>
      OBVIOUS
    <3> HIDE DEF i, j, at
    <3>6. at(p) \in on
      <4>1. at(p) \in Box(0, 0, c.b.w, c.b.h)
        <5>1. 0 + c.b.w - 1 = c.b.w - 1 /\ 0 + c.b.h - 1 = c.b.h - 1
          BY <1>0
        <5> QED
          BY <3>3, <3>4, <3>9, <5>1 DEF Box
      <4> QED
        BY <3>5, <3>9, <4>1
    <3>7. p \in dot(at(p))
      BY <3>2, <3>3, <3>4, <3>9 DEF Box
    <3> QED
      BY <3>6, <3>7
  <2>2. ASSUME NEW q \in on, NEW p \in dot(q)
        PROVE  p \in Area(c) /\ Lit(c, p)
    <3>1. /\ q[1] \in 0..(c.b.w - 1) /\ q[2] \in 0..(c.b.h - 1) /\ Bit(c.b, q[1], q[2])
      BY <1>0 DEF Box
    <3>2. /\ p[1] \in (c.x + q[1] * s)..(c.x + q[1] * s + s - 1)
          /\ p[2] \in (c.y + q[2] * s)..(c.y + q[2] * s + s - 1)
          /\ p = <<p[1], p[2]>>
      BY DEF Box
    <3>3. p[1] \in Int /\ p[2] \in Int /\ q[1] \in Int /\ q[2] \in Int
      BY <3>1, <3>2
    <3>4. (p[1] - c.x) \div s = q[1] /\ p[1] \in c.x..(c.x + c.b.w * s - 1)
      <4>1. (p[1] - c.x) \div s = q[1]
        BY <1>0, <2>0, <3>2, <3>3, DotOf
      <4>2. (p[1] - c.x) \div s \in 0..(c.b.w - 1)
        BY <3>1, <4>1
      <4>3. p[1] \in c.x..(c.x + c.b.w * s - 1) <=> (p[1] - c.x) \div s \in 0..(c.b.w - 1)
        BY <1>0, <2>9, <3>3
      <4> QED
        BY <4>1, <4>2, <4>3, Zenon
    <3>5. (p[2] - c.y) \div s = q[2] /\ p[2] \in c.y..(c.y + c.b.h * s - 1)
      <4>1. (p[2] - c.y) \div s = q[2]
        BY <1>0, <2>0, <3>2, <3>3, DotOf, ZenonT(60)
      <4>2. (p[2] - c.y) \div s \in 0..(c.b.h - 1)
        BY <3>1, <4>1
      <4>3. p[2] \in c.y..(c.y + c.b.h * s - 1) <=> (p[2] - c.y) \div s \in 0..(c.b.h - 1)
        BY <1>0, <2>9, <3>3
      <4> QED
        BY <4>1, <4>2, <4>3, Zenon
    <3>6. Lit(c, p)
      BY <2>0, <3>1, <3>3, <3>4, <3>5, LitIsBit
    <3>7. p \in Area(c)
      BY <3>2, <3>4, <3>5 DEF Area, Box
    <3> QED
      BY <3>6, <3>7
  <2> HIDE DEF on, dot, at
  <2>3. UNION {dot(q) : q \in on} = {p \in Area(c) : Lit(c, p)}
    BY <2>1, <2>2
  <2> QED
    BY <2>3 DEF on, dot
<1> QED
  BY <1>1, <1>2

-----------------------------------------------------------------------------
(***************************************************************************)
(* The letters of a text.                                                  *)
(***************************************************************************)

\* The pen: where byte n + 1 goes, given where byte n went.
LEMMA PenMoves ==
  ASSUME NEW c, NEW S, c.x \in Int, c.y \in Int, c.text \in Seq(S)
  PROVE  /\ CellX(c, 1) = c.x /\ CellY(c, 1) = c.y
         /\ \A n \in 1..Len(c.text) :
              /\ CellX(c, n) \in Int /\ CellY(c, n) \in Int
              /\ IF c.text[n] = "newline"
                   THEN CellX(c, n + 1) = c.x /\ CellY(c, n + 1) = CellY(c, n) + 8
                   ELSE CellX(c, n + 1) = CellX(c, n) + 8 /\ CellY(c, n + 1) = CellY(c, n)
<1>1. Newlines(c.text, 1) = {} /\ Column(c.text, 1) = {}
  BY DEF Newlines, Column
<1>0. Cardinality({}) = 0
  BY FS_EmptySet
<1>2. CellX(c, 1) = c.x /\ CellY(c, 1) = c.y
  <2>1. Cardinality(Newlines(c.text, 1)) = 0 /\ Cardinality(Column(c.text, 1)) = 0
    BY <1>0, <1>1
  <2> QED
    BY <2>1 DEF CellX, CellY
<1>3. ASSUME NEW n \in 1..Len(c.text)
      PROVE  /\ IsFiniteSet(Newlines(c.text, n)) /\ Cardinality(Newlines(c.text, n)) \in Nat
             /\ IsFiniteSet(Column(c.text, n)) /\ Cardinality(Column(c.text, n)) \in Nat
             /\ n \notin Newlines(c.text, n) /\ n \notin Column(c.text, n)
  <2>1. IsFiniteSet(1..(n - 1))
    BY FS_Interval
  <2>2. Newlines(c.text, n) \subseteq 1..(n - 1) /\ Column(c.text, n) \subseteq 1..(n - 1)
    BY DEF Newlines, Column
  <2>3. IsFiniteSet(Newlines(c.text, n)) /\ IsFiniteSet(Column(c.text, n))
    BY <2>1, <2>2, FS_Subset
  <2> QED
    BY <2>2, <2>3, FS_CardinalityType
<1>4. ASSUME NEW n \in 1..Len(c.text)
      PROVE  /\ CellX(c, n) \in Int /\ CellY(c, n) \in Int
             /\ IF c.text[n] = "newline"
                  THEN CellX(c, n + 1) = c.x /\ CellY(c, n + 1) = CellY(c, n) + 8
                  ELSE CellX(c, n + 1) = CellX(c, n) + 8 /\ CellY(c, n + 1) = CellY(c, n)
  <2>1. CellX(c, n) \in Int /\ CellY(c, n) \in Int
    BY <1>3 DEF CellX, CellY
  <2>2. CASE c.text[n] = "newline"
    <3>1. Newlines(c.text, n + 1) = Newlines(c.text, n) \cup {n}
      BY <2>2 DEF Newlines
    <3>2. Column(c.text, n + 1) = {}
      BY <2>2 DEF Column, Newlines
    <3>3. Cardinality(Newlines(c.text, n + 1)) = Cardinality(Newlines(c.text, n)) + 1
      BY <1>3, <3>1, FS_AddElement
    <3>4. Cardinality(Column(c.text, n + 1)) = 0
      BY <1>0, <3>2
    <3>5. CellX(c, n + 1) = c.x
      BY <3>4 DEF CellX
    <3>6. CellY(c, n + 1) = CellY(c, n) + 8
      BY <1>3, <3>3 DEF CellY
    <3> QED
      BY <2>1, <2>2, <3>5, <3>6
  <2>3. CASE c.text[n] # "newline"
    <3>1. Newlines(c.text, n + 1) = Newlines(c.text, n)
      BY <2>3 DEF Newlines
    <3>2. Column(c.text, n + 1) = Column(c.text, n) \cup {n}
      BY <3>1 DEF Column, Newlines
    <3>3. Cardinality(Column(c.text, n + 1)) = Cardinality(Column(c.text, n)) + 1
      BY <1>3, <3>2, FS_AddElement
    <3>4. CellX(c, n + 1) = CellX(c, n) + 8
      BY <1>3, <3>3 DEF CellX
    <3>5. CellY(c, n + 1) = CellY(c, n)
      BY <3>1 DEF CellY
    <3> QED
      BY <2>1, <2>3, <3>4, <3>5
  <2> QED
    BY <2>1, <2>2, <2>3
<1> QED
  BY <1>2, <1>4

\* The letters from byte n on are the one at n and those after it.
LEMMA TextSplits ==
  ASSUME NEW c, NEW S, c.text \in Seq(S), NEW n \in 1..Len(c.text)
  PROVE  /\ TextFrom(c, n) = Char(CellX(c, n), CellY(c, n), c.text[n]) \cup TextFrom(c, n + 1)
         /\ TextFrom(c, Len(c.text) + 1) = {}
<1> DEFINE letters(m) == {j \in m..Len(c.text) : c.text[j] \in DOMAIN Glyph}
           put(i) == At(CellX(c, i), CellY(c, i), Glyph[c.text[i]])
<1>1. \A m : TextFrom(c, m) = UNION {put(i) : i \in letters(m)}
  BY DEF TextFrom
<1>2. letters(Len(c.text) + 1) = {}
  OBVIOUS
<1>3. \A i : i \in letters(n) <=> (i = n /\ c.text[n] \in DOMAIN Glyph) \/ i \in letters(n + 1)
  OBVIOUS
<1>4. Char(CellX(c, n), CellY(c, n), c.text[n])
        = IF c.text[n] \in DOMAIN Glyph THEN put(n) ELSE {}
  BY DEF Char, At
<1> HIDE DEF letters, put
<1>5. UNION {put(i) : i \in letters(Len(c.text) + 1)} = {}
  BY <1>2
<1>6. UNION {put(i) : i \in letters(n)}
        = (IF c.text[n] \in DOMAIN Glyph THEN put(n) ELSE {}) \cup UNION {put(i) : i \in letters(n + 1)}
  BY <1>3
<1> QED
  BY <1>1, <1>4, <1>5, <1>6

\* A text's loop works off its bytes from the front.
LEMMA SuffixLaws ==
  ASSUME NEW S, NEW t \in Seq(S), NEW n \in 1..(Len(t) + 1)
  PROVE  LET rest == SubSeq(t, n, Len(t))
         IN /\ rest = <<>> <=> n = Len(t) + 1
            /\ n <= Len(t) => /\ Head(rest) = t[n] /\ Tail(rest) = SubSeq(t, n + 1, Len(t))
                              /\ Len(t) - Len(Tail(rest)) + 1 = n + 1
<1> DEFINE rest == SubSeq(t, n, Len(t))
<1>1. rest \in Seq(S) /\ Len(rest) = Len(t) - n + 1
  OBVIOUS
<1>3. n <= Len(t) => rest[1] = t[n]
  OBVIOUS
<1>4. rest = <<>> <=> n = Len(t) + 1
  <2>1. rest = <<>> <=> Len(rest) = 0
    BY <1>1, EmptySeq
  <2> QED
    BY <1>1, <2>1
<1>2. ASSUME n <= Len(t)
      PROVE  /\ Head(rest) = t[n] /\ Tail(rest) = SubSeq(t, n + 1, Len(t))
             /\ Len(t) - Len(Tail(rest)) + 1 = n + 1
  <2>1. rest # <<>> /\ Head(rest) = t[n]
    BY <1>1, <1>2, <1>3, <1>4
  <2>2. Tail(rest) = SubSeq(t, n + 1, Len(t))
    BY <1>1, <1>2
  <2>3. Len(Tail(rest)) = Len(rest) - 1
    BY <1>1, <2>1
  <2> QED
    BY <1>1, <1>2, <2>1, <2>2, <2>3
<1> QED
  BY <1>2, <1>4

-----------------------------------------------------------------------------
(***************************************************************************)
(* The rim of a circle: the y of the loop at each of its turns. What is said *)
(* of all turns is said by induction, as a least turn that does not do so. *)
(***************************************************************************)

\* The y of a circle's loop at each of its x, and those x.
Rim(r) ==
  LET rim[x \in 0..(r+1)] ==
        IF x = 0 THEN r
        ELSE IF Slack(x - 1, rim[x-1], r) > 0 THEN rim[x-1] - 1 ELSE rim[x-1]
  IN rim
Turns(r) == {x \in 0..(r+1) : \A a \in 0..(x-1) : Rim(r)[a] >= a}

\* A set of numbers that is not empty has a least one: what induction is here.
LEMMA SmallestNat ==
  ASSUME NEW T \in SUBSET Nat, T # {}
  PROVE  \E n \in T : \A m \in T : n <= m
<1>1. IsWellFoundedOn(OpToRel(<, Nat), Nat)
  BY NatLessThanWellFounded, Zenon
<1>2. PICK n \in T : \A m \in T : ~(<<m, n>> \in OpToRel(<, Nat))
  BY <1>1, WFMin
<1>3. \A m \in T : ~(m < n)
  BY <1>2 DEF OpToRel
<1> QED
  BY <1>3

\* One turn of the circle's loop.
RimStep(x, y, r) == IF Slack(x, y, r) > 0 THEN y - 1 ELSE y

RimTo(f, n, r) == f = [x \in 0..n |-> IF x = 0 THEN r ELSE RimStep(x - 1, f[x-1], r)]

\* The recursive definition of Rim has a solution: by induction on its length.
LEMMA RimExists ==
  ASSUME NEW r \in Nat, NEW n \in Nat
  PROVE  \E f : RimTo(f, n, r)
<1> DEFINE Bad == {m \in Nat : ~\E f : RimTo(f, m, r)}
<1>1. ASSUME NEW m \in Bad, \A a \in Bad : m <= a PROVE FALSE
  <2>1. CASE m = 0
    <3> DEFINE f == [x \in 0..0 |-> r]
    <3>1. RimTo(f, 0, r)
      BY DEF RimTo
    <3> QED
      BY <2>1, <3>1
  <2>2. CASE m # 0
    <3>1. m - 1 \in Nat /\ m - 1 \notin Bad
      BY <1>1, <2>2
    <3>2. PICK f : RimTo(f, m - 1, r)
      BY <3>1
    <3> DEFINE g == [x \in 0..m |-> IF x < m THEN f[x] ELSE RimStep(m - 1, f[m-1], r)]
               h == [x \in 0..m |-> IF x = 0 THEN r ELSE RimStep(x - 1, g[x-1], r)]
    <3>3. \A x \in 0..(m-1) : f[x] = IF x = 0 THEN r ELSE RimStep(x - 1, f[x-1], r)
      BY <3>2 DEF RimTo
    <3>4. \A x \in 0..m : g[x] = h[x]
      <4> SUFFICES ASSUME NEW x \in 0..m PROVE g[x] = h[x]
        OBVIOUS
      <4>1. CASE x = 0
        BY <2>2, <3>3, <4>1
      <4>2. CASE x # 0 /\ x < m
        <5>1. x - 1 \in 0..m /\ x - 1 < m /\ x \in 0..(m-1)
          BY <4>2
        <5>2. g[x-1] = f[x-1] /\ g[x] = f[x]
          BY <4>2, <5>1
        <5>3. h[x] = RimStep(x - 1, g[x-1], r)
          BY <4>2
        <5> QED
          BY <3>3, <4>2, <5>1, <5>2, <5>3
      <4>3. CASE x = m
        <5>1. m - 1 \in 0..m /\ m - 1 < m /\ m \in 0..m
          BY <2>2
        <5>2. g[m-1] = f[m-1]
          BY <5>1
        <5> QED
          BY <2>2, <4>3, <5>1, <5>2
      <4> QED
        BY <4>1, <4>2, <4>3
    <3>5. g = h
      BY <3>4
    <3>6. RimTo(g, m, r)
      BY <3>5 DEF RimTo
    <3> HIDE DEF g
    <3> QED
      BY <3>6
  <2> QED
    BY <2>1, <2>2
<1>2. Bad = {}
  BY <1>1, SmallestNat
<1> QED
  BY <1>2

\* So Rim is what its definition says.
LEMMA RimUnfolds ==
  ASSUME NEW r \in Nat
  PROVE  /\ DOMAIN Rim(r) = 0..(r+1) /\ Rim(r)[0] = r
         /\ \A x \in 0..r : Rim(r)[x+1] = RimStep(x, Rim(r)[x], r)
<1>1. \E f : RimTo(f, r + 1, r)
  BY RimExists
<1>2. \E f : f = [x \in 0..(r+1) |-> IF x = 0 THEN r
                    ELSE IF Slack(x - 1, f[x-1], r) > 0 THEN f[x-1] - 1 ELSE f[x-1]]
  BY <1>1 DEF RimTo, RimStep
<1>3. Rim(r) = [x \in 0..(r+1) |-> IF x = 0 THEN r
                  ELSE IF Slack(x - 1, Rim(r)[x-1], r) > 0 THEN Rim(r)[x-1] - 1 ELSE Rim(r)[x-1]]
  BY <1>2, Zenon DEF Rim
<1> QED
  <2> DEFINE f == Rim(r)
  <2> HIDE DEF f
  <2>1. f = [x \in 0..(r+1) |-> IF x = 0 THEN r ELSE RimStep(x - 1, f[x-1], r)]
    BY <1>3 DEF f, RimStep
  <2>2. ASSUME NEW x \in 0..r PROVE f[x+1] = RimStep(x, f[x], r)
    <3>1. x + 1 \in 0..(r+1) /\ x + 1 # 0 /\ (x + 1) - 1 = x
      OBVIOUS
    <3> QED
      BY <2>1, <3>1
  <2> QED
    BY <2>1, <2>2 DEF f

\* The turns before a turn are turns, all of them above the diagonal.
LEMMA RimTurns ==
  ASSUME NEW r \in Nat, NEW x \in Turns(r)
  PROVE  /\ x \in Nat /\ x <= r + 1
         /\ \A a \in Nat : a < x => a \in Turns(r) /\ Rim(r)[a] >= a
<1>1. x \in 0..(r+1) /\ \A a \in 0..(x-1) : Rim(r)[a] >= a
  BY DEF Turns
<1>2. ASSUME NEW a \in Nat, a < x PROVE a \in Turns(r) /\ Rim(r)[a] >= a
  <2>1. a \in 0..(x-1) /\ a \in 0..(r+1)
    BY <1>1, <1>2
  <2>2. \A b \in 0..(a-1) : b \in 0..(x-1)
    BY <1>1, <1>2
  <2> QED
    BY <1>1, <2>1, <2>2 DEF Turns
<1> QED
  BY <1>1, <1>2

\* The rim up to the diagonal is what CircleInv says of the loop.
LEMMA RimLaws ==
  ASSUME NEW r \in Nat
  PROVE  \A x \in Turns(r) :
           /\ Rim(r)[x] \in Int /\ Rim(r)[x] <= r /\ Rim(r)[x] >= x - 2
           /\ Rim(r)[x] >= x => Near(x, Rim(r)[x], r)
<1> DEFINE F == Rim(r)
           Good(x) == /\ F[x] \in Int /\ F[x] <= r /\ F[x] >= x - 2
                      /\ F[x] >= x => Near(x, F[x], r)
           Bad == {x \in Turns(r) : ~Good(x)}
<1>1. ASSUME NEW m \in Bad, \A a \in Bad : m <= a PROVE FALSE
  <2>0. m \in Nat /\ m <= r + 1 /\ \A a \in Nat : a < m => a \in Turns(r) /\ F[a] >= a
    BY RimTurns
  <2>1. CASE m = 0
    <3>1. F[0] = r
      BY RimUnfolds
    <3>2. Near(0, r, r)
      BY DEF Near
    <3> HIDE DEF F
    <3>3. Good(0)
      BY <3>1, <3>2
    <3> QED
      BY <2>1, <3>3
  <2>2. CASE m # 0
    <3> DEFINE x == m - 1  y == F[x]
    <3>1. x \in Nat /\ x < m /\ x + 1 = m /\ x \in 0..r /\ x \in Turns(r) /\ y >= x
      BY <2>0, <2>2
    <3>2. F[m] = RimStep(x, y, r)
      <4>1. F[x + 1] = RimStep(x, F[x], r)
        BY <3>1, RimUnfolds
      <4> QED
        BY <3>1, <4>1
    <3>3. x \notin Bad
      BY <1>1, <3>1
    <3> HIDE DEF x, F
    <3>4. Good(x)
      BY <3>1, <3>3
    <3>5. y \in Int /\ y <= r /\ Near(x, y, r)
      BY <3>1, <3>4
    <3> DEFINE d == Slack(x, y, r)
    <3>6. d \in Int /\ Drift(x, y, d, r)
      BY <3>1, <3>5 DEF Drift, Slack
    <3> HIDE DEF y
    <3>7. CASE d > 0
      <4>1. F[m] = y - 1
        BY <3>2, <3>7 DEF RimStep
      <4> HIDE DEF d
      <4>2. y - 1 >= x + 1 => Near(x + 1, y - 1, r)
        BY <3>1, <3>5, <3>6, <3>7, CircleTurns
      <4> QED
        BY <3>1, <3>5, <4>1, <4>2
    <3>8. CASE ~(d > 0)
      <4>1. F[m] = y /\ d <= 0
        BY <3>2, <3>6, <3>8 DEF RimStep
      <4> HIDE DEF d
      <4>2. Near(x + 1, y, r)
        BY <3>1, <3>5, <3>6, <4>1, CircleStays
      <4> QED
        BY <3>1, <3>5, <4>1, <4>2
    <3> QED
      BY <3>7, <3>8
  <2> QED
    BY <2>1, <2>2
<1>2. Bad \in SUBSET Nat
  BY DEF Turns
<1> HIDE DEF Bad
<1>3. Bad = {}
  BY <1>1, <1>2, SmallestNat
<1> QED
  BY <1>3 DEF Bad

\* The rim falls by at most one in each turn.
LEMMA RimFalls ==
  ASSUME NEW r \in Nat
  PROVE  \A x \in 0..(r+1) : Rim(r)[x] \in Int /\ Rim(r)[x] <= r
<1> DEFINE F == Rim(r)  Bad == {x \in 0..(r+1) : ~(F[x] \in Int /\ F[x] <= r)}
<1>1. ASSUME NEW m \in Bad, \A a \in Bad : m <= a PROVE FALSE
  <2>1. CASE m = 0
    BY <2>1, RimUnfolds
  <2>2. CASE m # 0
    <3>1. m - 1 \in 0..r /\ m - 1 \in 0..(r+1) /\ m - 1 < m /\ (m - 1) + 1 = m
      BY <2>2
    <3>2. F[m - 1] \in Int /\ F[m - 1] <= r
      BY <1>1, <3>1
    <3>3. F[(m - 1) + 1] = RimStep(m - 1, F[m - 1], r)
      BY <3>1, RimUnfolds
    <3> HIDE DEF F
    <3>4. F[m] \in {F[m-1], F[m-1] - 1}
      BY <3>1, <3>3 DEF RimStep
    <3> QED
      BY <3>2, <3>4
  <2> QED
    BY <2>1, <2>2
<1>2. Bad \in SUBSET Nat
  OBVIOUS
<1> HIDE DEF Bad
<1>3. Bad = {}
  BY <1>1, <1>2, SmallestNat
<1> QED
  BY <1>3 DEF Bad

\* The same, of a single step.
LEMMA RimSteps ==
  ASSUME NEW r \in Nat, NEW x \in 0..r
  PROVE  /\ Rim(r)[x] \in Int /\ Rim(r)[x+1] \in {Rim(r)[x], Rim(r)[x] - 1}
         /\ x \in 0..(r+1) /\ x + 1 \in 0..(r+1)
<1>1. x \in 0..(r+1) /\ x + 1 \in 0..(r+1)
  OBVIOUS
<1>2. Rim(r)[x] \in Int
  BY <1>1, RimFalls
<1>3. Rim(r)[x+1] = RimStep(x, Rim(r)[x], r)
  BY RimUnfolds
<1> QED
  BY <1>1, <1>2, <1>3 DEF RimStep

\* The rim never rises.
LEMMA RimMonotone ==
  ASSUME NEW r \in Nat, NEW a \in 0..(r+1), NEW b \in 0..(r+1), a <= b
  PROVE  Rim(r)[b] <= Rim(r)[a]
<1> DEFINE F == Rim(r)  Bad == {x \in 0..(r+1) : a <= x /\ ~(F[x] <= F[a])}
<1>0. \A x \in 0..(r+1) : F[x] \in Int
  BY RimFalls
<1>1. ASSUME NEW m \in Bad, \A x \in Bad : m <= x PROVE FALSE
  <2>1. m # a
    BY <1>0
  <2>2. m - 1 \in 0..r /\ m - 1 \in 0..(r+1) /\ a <= m - 1 /\ (m - 1) + 1 = m
    BY <2>1
  <2>3. F[m - 1] <= F[a]
    BY <1>1, <2>2
  <2>4. F[m] \in {F[m - 1], F[m - 1] - 1}
    BY <2>2, RimSteps
  <2> QED
    BY <1>0, <2>2, <2>3, <2>4
<1>2. Bad \in SUBSET Nat
  OBVIOUS
<1> HIDE DEF Bad
<1>3. Bad = {}
  BY <1>1, <1>2, SmallestNat
<1> QED
  BY <1>3 DEF Bad

\* So it meets every value between two of its own.
LEMMA RimMeets ==
  ASSUME NEW r \in Nat, NEW a \in 0..(r+1), NEW b \in 0..(r+1), a <= b,
         NEW v \in Int, Rim(r)[b] <= v, v <= Rim(r)[a]
  PROVE  \E c \in 0..(r+1) : a <= c /\ c <= b /\ Rim(r)[c] = v
<1> DEFINE F == Rim(r)  Low == {x \in 0..(r+1) : a <= x /\ F[x] <= v}
<1>0. \A x \in 0..(r+1) : F[x] \in Int
  BY RimFalls
<1>1. Low \in SUBSET Nat /\ b \in Low
  OBVIOUS
<1>2. PICK c \in Low : \A x \in Low : c <= x
  BY <1>1, SmallestNat
<1>3. c \in 0..(r+1) /\ a <= c /\ c <= b /\ F[c] <= v
  BY <1>1, <1>2
<1>4. F[c] = v
  <2>1. CASE c = a
    BY <1>0, <1>3, <2>1
  <2>2. CASE c # a
    <3>1. c - 1 \in 0..r /\ c - 1 \in 0..(r+1) /\ a <= c - 1 /\ (c - 1) + 1 = c
      BY <1>3, <2>2
    <3>2. ~(F[c - 1] <= v)
      BY <1>2, <3>1
    <3>3. F[c] \in {F[c - 1], F[c - 1] - 1}
      BY <3>1, RimSteps
    <3> QED
      BY <1>0, <1>3, <3>1, <3>2, <3>3
  <2> QED
    BY <2>1, <2>2
<1> QED
  BY <1>3, <1>4

\* The loop ends past the diagonal.
LEMMA RimEnds ==
  ASSUME NEW r \in Nat
  PROVE  \E n \in 0..(r+1) : Rim(r)[n] < n /\ Turns(r) = 0..n
<1> DEFINE F == Rim(r)  Past == {x \in 0..(r+1) : F[x] < x}
<1>0. \A x \in 0..(r+1) : F[x] \in Int /\ F[x] <= r
  BY RimFalls
<1>1. Past \in SUBSET Nat /\ r + 1 \in Past
  BY <1>0
<1>2. PICK n \in Past : \A x \in Past : n <= x
  BY <1>1, SmallestNat
<1>3. n \in 0..(r+1) /\ F[n] < n
  BY <1>2
<1>4. ASSUME NEW x \in 0..n PROVE x \in Turns(r)
  <2>1. \A a \in 0..(x-1) : a \in 0..(r+1) /\ ~(n <= a)
    BY <1>3
  <2>2. \A a \in 0..(x-1) : ~(F[a] < a)
    BY <1>2, <2>1
  <2>3. \A a \in 0..(x-1) : F[a] >= a
    BY <1>0, <2>1, <2>2
  <2>4. x \in 0..(r+1)
    BY <1>3
  <2> QED
    BY <2>3, <2>4 DEF Turns
<1>5. ASSUME NEW x \in Turns(r) PROVE x \in 0..n
  <2>1. x \in Nat /\ \A a \in Nat : a < x => F[a] >= a
    BY RimTurns
  <2>2. ~(n < x)
    BY <1>0, <1>3, <2>1
  <2> QED
    BY <1>3, <2>1, <2>2
<1> QED
  BY <1>3, <1>4, <1>5

-----------------------------------------------------------------------------
\* The last pixel, past the diagonal, is about the circle: after a turn that stays,
LEMMA PastByStaying ==
  ASSUME NEW r \in Nat \ {0}, NEW a \in Nat, a <= r, Near(a, a, r), Slack(a, a, r) <= 0
  PROVE  OnCircle(a + 1, a, r)
<1>1. Near(a + 1, a, r)
  <2>1. PICK d \in Int : d = Slack(a, a, r)
    BY DEF Slack
  <2>2. Drift(a, a, d, r) /\ d <= 0 /\ a \in Int /\ r \in Nat /\ a >= a
    BY <2>1 DEF Drift
  <2> QED
    BY <2>1, <2>2, CircleStays
<1> DEFINE s == (a + 1) * (a + 1) + a * a
<1>2. s < r * r + a /\ (a < r => s >= r * r - 2 * r - 2 * (a + 1) + a + 4)
  BY <1>1 DEF Near
<1>3. a # r
  <2>1. a = r => s = r * r + r * r + 2 * r + 1
    OBVIOUS
  <2>2. r * r \in Nat
    OBVIOUS
  <2> HIDE DEF s
  <2> QED
    BY <1>2, <2>1, <2>2
<1>4. 4 * s <= (2 * r + 1) * (2 * r + 1)
  <2>1. (2 * r + 1) * (2 * r + 1) = 4 * (r * r) + 4 * r + 1 /\ r * r \in Int /\ s \in Int
    OBVIOUS
  <2> HIDE DEF s
  <2> QED
    BY <1>2, <2>1
<1>5. (2 * r - 3) * (2 * r - 3) <= 4 * s
  <2>1. (2 * r - 3) * (2 * r - 3) = 4 * (r * r) - 12 * r + 9 /\ r * r \in Int /\ s \in Int
    OBVIOUS
  <2> HIDE DEF s
  <2> QED
    BY <1>2, <1>3, <2>1
<1> QED
  BY <1>4, <1>5 DEF OnCircle

\* and after a turn that goes down.
LEMMA PastByTurning ==
  ASSUME NEW r \in Nat \ {0}, NEW a \in Nat, NEW b \in {a, a + 1}, b <= r, Near(a, b, r),
         Slack(a, b, r) > 0
  PROVE  OnCircle(a + 1, b - 1, r)
<1> DEFINE s == (a + 1) * (a + 1) + (b - 1) * (b - 1)  t == a * a + b * b  q == r * r
<1>0. s \in Int /\ t \in Int /\ q \in Nat /\ b \in Nat
  OBVIOUS
<1>1. s = t + 2 * a - 2 * b + 2
  BY <1>0
<1>2. t < q + b
  BY DEF Near
<1>3. 2 * s > 2 * q - 4 * r - 4 * a + 2 * b
  BY DEF Slack
<1>4. (2 * r + 1) * (2 * r + 1) = 4 * q + 4 * r + 1 /\ (2 * r - 3) * (2 * r - 3) = 4 * q - 12 * r + 9
  OBVIOUS
<1>5. b = a => a <= r - 1
  <2>1. b = a /\ a = r => t = q + q
    OBVIOUS
  <2>2. r <= q
    OBVIOUS
  <2> HIDE DEF t, q
  <2> QED
    BY <1>0, <1>2, <2>1, <2>2
<1>6. 4 * s <= 4 * q + 4 * r + 1
  <2> HIDE DEF s, t, q
  <2> QED
    BY <1>0, <1>1, <1>2, <1>5
<1>7. 4 * q - 12 * r + 9 <= 4 * s
  <2>1. CASE b = a + 1
    <3> HIDE DEF s, t, q
    <3> QED
      BY <1>0, <1>3, <2>1
  <2>2. CASE b = a /\ a <= r - 2
    <3> HIDE DEF s, t, q
    <3> QED
      BY <1>0, <1>3, <2>2
  <2>3. CASE b = a /\ a = r - 1
    <3>1. s = 2 * q - 4 * r + 4
      BY <2>3
    <3>2. q >= r
      OBVIOUS
    <3> HIDE DEF s, t, q
    <3> QED
      BY <1>0, <3>1, <3>2
  <2> QED
    BY <1>5, <2>1, <2>2, <2>3
<1> QED
  BY <1>4, <1>6, <1>7 DEF OnCircle

\* Every pixel of the rim, the last one past the diagonal too, is about the circle.
LEMMA RimOnCircle ==
  ASSUME NEW r \in Nat \ {0}, NEW x \in Turns(r)
  PROVE  OnCircle(x, Rim(r)[x], r)
<1> DEFINE F == Rim(r)
<1>1. /\ x \in Nat /\ x <= r + 1
      /\ \A a \in Nat : a < x => a \in Turns(r) /\ F[a] >= a
  BY RimTurns
<1>2. /\ F[x] \in Int /\ F[x] <= r /\ F[x] >= x - 2
      /\ F[x] >= x => Near(x, F[x], r)
  BY RimLaws
<1>3. CASE F[x] >= x
  BY <1>1, <1>2, <1>3, NearIsOnCircle
<1>4. CASE F[x] < x
  <2> DEFINE a == x - 1  b == F[a]
  <2>1. x # 0
    BY <1>4, RimUnfolds
  <2>2. a \in Nat /\ a < x /\ a + 1 = x /\ a \in 0..r /\ a \in Turns(r) /\ b >= a
    BY <1>1, <2>1
  <2>3. b \in Int /\ b <= r /\ Near(a, b, r)
    BY <2>2, RimLaws
  <2>4. F[a + 1] = RimStep(a, b, r)
    BY <2>2, RimUnfolds
  <2> HIDE DEF a, F
  <2>5. F[x] = IF Slack(a, b, r) > 0 THEN b - 1 ELSE b
    BY <2>2, <2>4 DEF RimStep
  <2> HIDE DEF b
  <2>9. Slack(a, b, r) \in Int
    BY <2>2, <2>3 DEF Slack
  <2>6. CASE Slack(a, b, r) > 0
    <3>1. F[x] = b - 1 /\ b \in {a, a + 1}
      BY <1>4, <2>2, <2>3, <2>5, <2>6
    <3>2. OnCircle(a + 1, b - 1, r)
      BY <2>2, <2>3, <2>6, <3>1, PastByTurning
    <3> QED
      BY <2>2, <3>1, <3>2 DEF F
  <2>7. CASE ~(Slack(a, b, r) > 0)
    <3>1. F[x] = b /\ b = a
      BY <1>4, <2>2, <2>3, <2>5, <2>7
    <3>2. OnCircle(a + 1, a, r)
      BY <2>2, <2>3, <2>7, <2>9, <3>1, PastByStaying
    <3> QED
      BY <2>2, <3>1, <3>2 DEF F
  <2> QED
    BY <2>6, <2>7
<1> QED
  BY <1>1, <1>2, <1>3, <1>4

\* Two turns that stay at the diagonal, or one before it, would be inside the band.
LEMMA NoFlatDiagonal ==
  ASSUME NEW r \in Nat \ {0}, NEW X \in Nat, X <= r
  PROVE  /\ X >= 1 => ~(Near(X - 1, X, r) /\ Slack(X, X, r) <= 0)
         /\ X >= 2 => ~(Near(X - 2, X, r) /\ Slack(X - 1, X, r) <= 0)
<1> DEFINE s == X * X  q == r * r
<1>0. s \in Nat /\ q \in Nat /\ q >= r
  OBVIOUS
<1>1. Slack(X, X, r) = 4 * s + 2 * X + 3 - 2 * q + 4 * r
  BY DEF Slack
<1>2. Slack(X - 1, X, r) = 4 * s - 2 * X - 3 - 2 * q + 4 * r
  BY DEF Slack
<1>3. (X - 1) * (X - 1) = s - 2 * X + 1 /\ (X - 2) * (X - 2) = s - 4 * X + 4
  OBVIOUS
<1>4. X = r => s = q
  OBVIOUS
<1>5. ASSUME X >= 1, Near(X - 1, X, r), Slack(X, X, r) <= 0 PROVE FALSE
  <2>1. X < r => s - 2 * X + 1 + s >= q - 2 * r - 2 * (X - 1) + X + 4
    BY <1>3, <1>5 DEF Near
  <2> HIDE DEF s, q
  <2> QED
    BY <1>0, <1>1, <1>4, <1>5, <2>1
<1>6. ASSUME X >= 2, Near(X - 2, X, r), Slack(X - 1, X, r) <= 0 PROVE FALSE
  <2>1. X < r => s - 4 * X + 4 + s >= q - 2 * r - 2 * (X - 2) + X + 4
    BY <1>3, <1>6 DEF Near
  <2> HIDE DEF s, q
  <2> QED
    BY <1>0, <1>2, <1>4, <1>6, <2>1
<1> QED
  BY <1>5, <1>6

\* The last turn of the loop.
LEMMA LastTurn ==
  ASSUME NEW r \in Nat \ {0}, NEW n \in 0..(r+1), Rim(r)[n] < n, Turns(r) = 0..n
  PROVE  /\ n >= 1 /\ \A x \in 0..n : Rim(r)[x] \in 0..r
         /\ \A u \in Nat : u < Rim(r)[n] => Rim(r)[u] >= n
<1> DEFINE F == Rim(r)
<1>1. /\ \A x \in 0..n : F[x] \in Int /\ F[x] <= r /\ F[x] >= x - 2
      /\ \A x \in 0..n : F[x] >= x => Near(x, F[x], r)
  BY RimLaws
<1>2. n >= 1
  BY RimUnfolds
<1>3. \A a \in 0..(n-1) : F[a] >= a
  <2>1. n \in Turns(r)
    OBVIOUS
  <2>2. \A a \in Nat : a < n => F[a] >= a
    BY <2>1, RimTurns
  <2> HIDE DEF F
  <2> QED
    BY <2>2
<1>4. n - 1 \in 0..r /\ (n - 1) + 1 = n
  BY <1>2
<1>5. F[n] \in {F[n-1], F[n-1] - 1}
  BY <1>4, RimSteps
<1>6. F[n] >= 0
  <2>1. CASE n = 1
    <3>1. F[0] = r
      BY RimUnfolds
    <3> HIDE DEF F
    <3> QED
      BY <1>5, <2>1, <3>1
  <2>2. CASE n # 1
    BY <1>1, <1>2, <2>2
  <2> QED
    BY <2>1, <2>2
<1>7. ASSUME NEW x \in 0..n PROVE F[x] \in 0..r
  BY <1>1, <1>3, <1>6
<1>8. ASSUME NEW u \in Nat, u < F[n], ~(F[u] >= n) PROVE FALSE
  <2>1. u \in 0..n /\ F[u] \in Int /\ u <= n - 2
    BY <1>1, <1>8
  <2>2. F[n] \in {n - 1, n - 2}
    BY <1>1
  <2>3. n - 1 \in 0..n /\ n - 2 \in 0..n /\ n - 2 \in 0..r /\ (n - 2) + 1 = n - 1
    BY <2>1
  <2>4. F[n-1] >= n - 1 /\ F[n-1] \in Int /\ F[n-2] \in Int
    BY <1>1, <1>3, <1>4, <2>3
  <2>5. F[n-1] <= F[n-2]
    BY <2>3, RimMonotone
  <2>6. n - 1 <= r
    OBVIOUS
  <2>7. CASE F[n] = n - 1
    <3>1. F[n-2] <= F[u]
      BY <2>1, <2>3, RimMonotone
    <3>2. F[n-2] = n - 1 /\ F[n-1] = n - 1
      BY <1>8, <2>1, <2>4, <2>5, <3>1
    <3>3. Near(n - 2, n - 1, r)
      BY <1>1, <2>3, <3>2
    <3>4. F[n] = RimStep(n - 1, n - 1, r)
      BY <1>4, <3>2, RimUnfolds
    <3>5. Slack(n - 1, n - 1, r) \in Int
      BY DEF Slack
    <3>6. Slack(n - 1, n - 1, r) <= 0
      BY <2>7, <3>4, <3>5 DEF RimStep
    <3>7. PICK X \in Nat : X = n - 1
      BY <1>4
    <3>8. X >= 1 /\ X <= r /\ X - 1 = n - 2
      BY <2>1, <2>6, <3>7
    <3> QED
      BY <3>3, <3>6, <3>7, <3>8, NoFlatDiagonal
  <2>8. CASE F[n] = n - 2
    <3>0. u <= n - 3
      BY <1>8, <2>8
    <3>1. n - 3 \in 0..n /\ n - 3 \in 0..r /\ n - 3 \in 0..(r+1)
      BY <3>0
    <3>2. F[n-3] <= F[u] /\ F[n-2] <= F[n-3]
      BY <2>1, <2>3, <3>0, <3>1, RimMonotone
    <3>3. F[n-3] \in Int
      BY <1>1, <3>1
    <3>4. F[n-3] = n - 1 /\ F[n-2] = n - 1 /\ F[n-1] = n - 1
      BY <1>8, <2>1, <2>4, <2>5, <3>2, <3>3
    <3>5. Near(n - 3, n - 1, r)
      BY <1>1, <3>1, <3>4
    <3>6. F[n-1] = RimStep(n - 2, n - 1, r)
      BY <2>3, <3>4, RimUnfolds
    <3>7. Slack(n - 2, n - 1, r) \in Int
      BY DEF Slack
    <3>8. Slack(n - 2, n - 1, r) <= 0
      BY <3>4, <3>6, <3>7 DEF RimStep
    <3>9. PICK X \in Nat : X = n - 1
      BY <1>4
    <3>10. X >= 2 /\ X <= r /\ X - 2 = n - 3 /\ X - 1 = n - 2
      BY <2>6, <3>0, <3>9
    <3> QED
      BY <3>5, <3>8, <3>9, <3>10, NoFlatDiagonal
  <2> QED
    BY <2>2, <2>7, <2>8
<1> QED
  BY <1>2, <1>7, <1>8

-----------------------------------------------------------------------------
(***************************************************************************)
(* The pixels of a circle, and those of a box with round corners.          *)
(***************************************************************************)

\* What a circle paints in one turn, and in all.
Turned(q, x) == Octants(CircleAt(q, x, Rim(q.r)[x], 0))
CirclePixels(q) == IF q.r < 0 THEN {} ELSE UNION {Turned(q, x) : x \in Turns(q.r)}

\* A pixel that one turn paints, as seen from the centre.
TurnOf(a, b, x, y, fill) ==
  IF fill THEN \/ Abs(a) <= x /\ Abs(b) = y
               \/ Abs(a) <= y /\ Abs(b) = x
  ELSE \/ Abs(a) = x /\ Abs(b) = y
       \/ Abs(a) = y /\ Abs(b) = x

Disc(r, fill) ==
  {p \in Int \X Int : \E x \in Turns(r) : TurnOf(p[1], p[2], x, Rim(r)[x], fill)}

\* What the code paints in a turn is TurnOf, wherever the centre is.
LEMMA OctantsAt ==
  ASSUME NEW cx \in Int, NEW cy \in Int, NEW r, NEW fill \in BOOLEAN,
         NEW x \in Nat, NEW y \in Nat, NEW a \in Int, NEW b \in Int
  PROVE  <<cx + a, cy + b>> \in Octants(CircleAt(Circle(cx, cy, r, fill), x, y, 0))
           <=> TurnOf(a, b, x, y, fill)
<1>1. CASE fill
  <2>1. /\ (cx + a \in (cx - x)..(cx + x) <=> Abs(a) <= x)
        /\ (cx + a \in (cx - y)..(cx + y) <=> Abs(a) <= y)
        /\ (cy + b \in {cy + y, cy - y} <=> Abs(b) = y)
        /\ (cy + b \in {cy + x, cy - x} <=> Abs(b) = x)
    BY DEF Abs
  <2> QED
    BY <1>1, <2>1 DEF Octants, CircleAt, Circle, TurnOf
<1>2. CASE ~fill
  <2>1. /\ (cx + a \in {cx + x, cx - x} <=> Abs(a) = x)
        /\ (cx + a \in {cx + y, cx - y} <=> Abs(a) = y)
        /\ (cy + b \in {cy + y, cy - y} <=> Abs(b) = y)
        /\ (cy + b \in {cy + x, cy - x} <=> Abs(b) = x)
    BY DEF Abs
  <2> QED
    BY <1>2, <2>1 DEF Octants, CircleAt, Circle, TurnOf
<1> QED
  BY <1>1, <1>2

LEMMA OctantsArePixels ==
  ASSUME NEW cx \in Int, NEW cy \in Int, NEW r, NEW fill \in BOOLEAN,
         NEW x \in Nat, NEW y \in Nat
  PROVE  Octants(CircleAt(Circle(cx, cy, r, fill), x, y, 0)) \subseteq Int \X Int
<1>1. CASE fill
  BY <1>1 DEF Octants, CircleAt, Circle
<1>2. CASE ~fill
  BY <1>2 DEF Octants, CircleAt, Circle
<1> QED
  BY <1>1, <1>2

\* All turns together paint the disc, moved to the centre.
LEMMA CirclePixelsAt ==
  ASSUME NEW cx \in Int, NEW cy \in Int, NEW r \in Nat \ {0}, NEW fill \in BOOLEAN
  PROVE  /\ CirclePixels(Circle(cx, cy, r, fill)) \subseteq Int \X Int
         /\ \A a, b \in Int : <<cx + a, cy + b>> \in CirclePixels(Circle(cx, cy, r, fill))
                                <=> <<a, b>> \in Disc(r, fill)
<1> DEFINE c == Circle(cx, cy, r, fill)
<1>1. c.r = r
  BY DEF Circle
<1>2. \A x \in Turns(r) : x \in Nat /\ Rim(r)[x] \in Nat
  <2>1. PICK n \in 0..(r+1) : Rim(r)[n] < n /\ Turns(r) = 0..n
    BY RimEnds
  <2>2. \A x \in 0..n : Rim(r)[x] \in 0..r
    BY <2>1, LastTurn
  <2> QED
    BY <2>1, <2>2
<1>3. CirclePixels(c) = UNION {Octants(CircleAt(c, x, Rim(r)[x], 0)) : x \in Turns(r)}
  BY <1>1 DEF CirclePixels, Turned
<1>4. CirclePixels(c) \subseteq Int \X Int
  <2>1. \A x \in Turns(r) : Octants(CircleAt(c, x, Rim(r)[x], 0)) \subseteq Int \X Int
    BY <1>2, OctantsArePixels
  <2> HIDE DEF c
  <2> QED
    BY <1>3, <2>1
<1>5. ASSUME NEW a \in Int, NEW b \in Int
      PROVE  <<cx + a, cy + b>> \in CirclePixels(c) <=> <<a, b>> \in Disc(r, fill)
  <2>1. \A x \in Turns(r) : <<cx + a, cy + b>> \in Octants(CircleAt(c, x, Rim(r)[x], 0))
                              <=> TurnOf(a, b, x, Rim(r)[x], fill)
    BY <1>2, OctantsAt
  <2>2. <<a, b>> \in Disc(r, fill) <=> \E x \in Turns(r) : TurnOf(a, b, x, Rim(r)[x], fill)
    BY DEF Disc
  <2> HIDE DEF c
  <2> QED
    BY <1>3, <2>1, <2>2
<1> QED
  BY <1>4, <1>5

-----------------------------------------------------------------------------
\* Squares grow with the distance from 0.
LEMMA Squares ==
  ASSUME NEW a \in Int, NEW b \in Nat
  PROVE  /\ a * a = Abs(a) * Abs(a) /\ Abs(a) \in Nat
         /\ Abs(a) <= b => a * a <= b * b
         /\ Abs(a) > b => a * a > b * b
         /\ Abs(a) <= b <=> a \in -b..b
<1>1. a * a = Abs(a) * Abs(a) /\ Abs(a) \in Nat
  BY DEF Abs
<1>2. \A u, v \in Nat : (u <= v => u * u <= v * v) /\ (u > v => u * u > v * v)
  OBVIOUS
<1>3. Abs(a) <= b <=> a \in -b..b
  BY DEF Abs
<1> QED
  BY <1>1, <1>2, <1>3

\* What the loop paints is about the circle, or inside if it is filled.
LEMMA DiscInBand ==
  ASSUME NEW r \in Nat \ {0}, NEW fill \in BOOLEAN, NEW p \in Disc(r, fill)
  PROVE  p \in Band(r) \/ (fill /\ p \in Inside(r))
<1> DEFINE a == p[1]  b == p[2]
<1>1. PICK n \in 0..(r+1) : Rim(r)[n] < n /\ Turns(r) = 0..n
  BY RimEnds
<1>2. PICK x \in 0..n : TurnOf(a, b, x, Rim(r)[x], fill)
  BY <1>1 DEF Disc
<1>3. a \in Int /\ b \in Int /\ p = <<a, b>>
  BY DEF Disc
<1>4. PICK y \in 0..r : y = Rim(r)[x]
  BY <1>1, LastTurn
<1>5. OnCircle(x, y, r)
  BY <1>1, <1>4, RimOnCircle
<1>6. x <= r
  <2>1. x = r + 1 => 4 * (x * x + y * y) = (2 * r + 1) * (2 * r + 1) + 4 * r + 3 + 4 * (y * y)
    OBVIOUS
  <2>2. y * y \in Nat
    OBVIOUS
  <2> QED
    BY <1>5, <2>1, <2>2 DEF OnCircle
<1> DEFINE m == (2 * r - 3) * (2 * r - 3)  n1 == (2 * r + 1) * (2 * r + 1)
           s == 4 * (a * a + b * b)  t == 4 * (x * x + y * y)
<1>7. m <= t /\ t <= n1
  BY <1>5 DEF OnCircle
<1>8. s <= t /\ (~fill => s = t) /\ a \in -r..r /\ b \in -r..r
  <2> HIDE DEF a, b
  <2>0. a \in Int /\ b \in Int /\ x \in Nat /\ y \in Nat
    BY <1>3
  <2>1. /\ a * a = Abs(a) * Abs(a) /\ Abs(a) \in Nat /\ b * b = Abs(b) * Abs(b) /\ Abs(b) \in Nat
        /\ Abs(a) <= x => a * a <= x * x
        /\ Abs(a) <= y => a * a <= y * y
        /\ Abs(a) <= r <=> a \in -r..r
        /\ Abs(b) <= r <=> b \in -r..r
    <3>1. \A w \in Nat : /\ a * a = Abs(a) * Abs(a) /\ Abs(a) \in Nat
                         /\ Abs(a) <= w => a * a <= w * w
                         /\ Abs(a) <= w <=> a \in -w..w
      BY <2>0, Squares
    <3>2. \A w \in Nat : /\ b * b = Abs(b) * Abs(b) /\ Abs(b) \in Nat
                         /\ Abs(b) <= w <=> b \in -w..w
      BY <2>0, Squares
    <3> QED
      BY <2>0, <3>1, <3>2
  <2>2. \/ Abs(a) <= x /\ Abs(b) = y
        \/ Abs(a) <= y /\ Abs(b) = x
    BY <1>2, <1>4, <2>1 DEF TurnOf
  <2>3. ~fill => (Abs(a) = x /\ Abs(b) = y) \/ (Abs(a) = y /\ Abs(b) = x)
    BY <1>2, <1>4 DEF TurnOf
  <2>4. PICK u \in Nat, v \in Nat, u2 \in Nat, v2 \in Nat :
          u = x * x /\ v = y * y /\ u2 = a * a /\ v2 = b * b
    <3>1. x * x \in Nat /\ y * y \in Nat /\ a * a \in Nat /\ b * b \in Nat
      BY <2>0, <2>1
    <3> QED
      BY <3>1
  <2>5. s <= t
    <3>1. CASE Abs(a) <= x /\ Abs(b) = y
      BY <2>1, <2>4, <3>1
    <3>2. CASE Abs(a) <= y /\ Abs(b) = x
      BY <2>1, <2>4, <3>2
    <3> QED
      BY <2>2, <3>1, <3>2
  <2>6. ~fill => s = t
    BY <2>1, <2>3
  <2>7. a \in -r..r /\ b \in -r..r
    BY <1>6, <2>1, <2>2
  <2> QED
    BY <2>5, <2>6, <2>7
<1>9. s \in Int /\ t \in Int /\ m \in Int /\ n1 \in Int
  BY <1>3
<1>10. CASE m <= s
  <2>1. OnCircle(a, b, r)
    <3> HIDE DEF t
    <3>1. m <= s /\ s <= n1
      <4> HIDE DEF s, m, n1
      <4> QED
        BY <1>7, <1>8, <1>9, <1>10
    <3> QED
      BY <3>1 DEF OnCircle
  <2> HIDE DEF a, b
  <2> QED
    BY <1>3, <1>8, <2>1 DEF Band
<1>11. CASE ~(m <= s)
  <2>1. fill /\ s <= m
    <3> HIDE DEF s, m, n1, t
    <3> QED
      BY <1>7, <1>8, <1>9, <1>11
  <2> HIDE DEF a, b
  <2> QED
    BY <1>3, <1>8, <2>1 DEF Inside
<1> QED
  BY <1>10, <1>11

\* A pixel inside the rim of a turn is inside the disc.
LEMMA FarFromInside ==
  ASSUME NEW r \in Nat \ {0}, NEW a \in Int, NEW b \in Int, <<a, b>> \in Inside(r),
         NEW x \in Nat, NEW y \in Nat, OnCircle(x, y, r)
  PROVE  /\ Abs(b) = y => Abs(a) <= x
         /\ Abs(b) = x => Abs(a) <= y
<1> DEFINE m == (2 * r - 3) * (2 * r - 3)
<1>1. m <= 4 * (x * x + y * y) /\ 4 * (a * a + b * b) <= m /\ m \in Int
  BY DEF Inside, OnCircle
<1>2. /\ b * b = Abs(b) * Abs(b) /\ Abs(a) \in Nat
      /\ Abs(a) > x => a * a > x * x
      /\ Abs(a) > y => a * a > y * y
  BY Squares
<1>3. PICK u \in Int, v \in Int, u2 \in Int, v2 \in Int :
        u = x * x /\ v = y * y /\ u2 = a * a /\ v2 = b * b
  OBVIOUS
<1> HIDE DEF m
<1>4. m <= 4 * (u + v) /\ 4 * (u2 + v2) <= m
  BY <1>1, <1>3
<1>5. (Abs(a) > x => u2 > u) /\ (Abs(a) > y => u2 > v)
  BY <1>2, <1>3
<1>6. (Abs(b) = y => v2 = v) /\ (Abs(b) = x => v2 = u)
  BY <1>2, <1>3
<1> QED
  BY <1>1, <1>2, <1>4, <1>5, <1>6

\* Every column and row up to the radius has a turn on it.
LEMMA RimReaches ==
  ASSUME NEW r \in Nat \ {0}, NEW v \in 0..r
  PROVE  \E x \in Turns(r) : /\ Rim(r)[x] \in 0..r
                             /\ x \in 0..r
                             /\ v = x \/ v = Rim(r)[x]
<1>1. PICK n \in 0..(r+1) : Rim(r)[n] < n /\ Turns(r) = 0..n
  BY RimEnds
<1>2. \A x \in 0..n : Rim(r)[x] \in 0..r
  BY <1>1, LastTurn
<1>3. CASE v <= n
  BY <1>1, <1>2, <1>3
<1>4. CASE v > n
  <2>1. Rim(r)[0] = r /\ n \in 0..n /\ 0 \in 0..(r+1) /\ 0 <= n /\ v \in Int
    BY RimUnfolds
  <2>2. Rim(r)[n] <= v /\ v <= Rim(r)[0] /\ Rim(r)[n] \in Int
    BY <1>1, <1>2, <1>4, <2>1
  <2>3. PICK x \in 0..(r+1) : 0 <= x /\ x <= n /\ Rim(r)[x] = v
    BY <2>1, <2>2, RimMeets, ZenonT(60)
  <2>4. x \in 0..n /\ n <= r
    BY <1>4, <2>3
  <2> QED
    BY <1>1, <1>2, <2>3, <2>4
<1> QED
  BY <1>3, <1>4

\* What is well inside a filled circle is painted.
LEMMA InsideInDisc ==
  ASSUME NEW r \in Nat \ {0}, NEW p \in Inside(r)
  PROVE  p \in Disc(r, TRUE)
<1>1. PICK a \in -r..r, b \in -r..r : p = <<a, b>>
  BY DEF Inside
<1>2. Abs(b) \in 0..r
  BY DEF Abs
<1>3. PICK x \in Turns(r) : /\ Rim(r)[x] \in 0..r /\ x \in 0..r
                            /\ Abs(b) = x \/ Abs(b) = Rim(r)[x]
  BY <1>2, RimReaches
<1>4. OnCircle(x, Rim(r)[x], r)
  BY RimOnCircle
<1>5. /\ Abs(b) = Rim(r)[x] => Abs(a) <= x
      /\ Abs(b) = x => Abs(a) <= Rim(r)[x]
  BY <1>1, <1>3, <1>4, FarFromInside
<1>6. TurnOf(a, b, x, Rim(r)[x], TRUE)
  BY <1>3, <1>5 DEF TurnOf
<1>7. a \in Int /\ b \in Int
  OBVIOUS
<1>8. <<a, b>> \in Disc(r, TRUE)
  BY <1>6, <1>7 DEF Disc
<1> QED
  BY <1>1, <1>8

\* The ring is part of the disc.
LEMMA RingInDisc ==
  ASSUME NEW r \in Nat \ {0}, NEW fill \in BOOLEAN, NEW a \in Int, NEW b \in Int,
         NEW x \in Turns(r), Rim(r)[x] \in Nat, x \in Nat,
         \/ Abs(a) = x /\ Abs(b) = Rim(r)[x]
         \/ Abs(a) = Rim(r)[x] /\ Abs(b) = x
  PROVE  <<a, b>> \in Disc(r, fill)
<1>1. Abs(a) \in Int /\ Abs(b) \in Int
  BY DEF Abs
<1>2. TurnOf(a, b, x, Rim(r)[x], fill)
  BY <1>1 DEF TurnOf
<1> QED
  BY <1>2 DEF Disc

\* The first turn paints the ends of both axes.
LEMMA PolesInDisc ==
  ASSUME NEW r \in Nat \ {0}, NEW fill \in BOOLEAN
  PROVE  Poles(r) \subseteq Disc(r, fill)
<1>1. 0 \in Turns(r) /\ Rim(r)[0] = r
  BY RimUnfolds DEF Turns
<1>2. Abs(0) = 0 /\ Abs(r) = r /\ Abs(-r) = r /\ -r \in Int
  BY DEF Abs
<1>3. <<0, r>> \in Disc(r, fill) /\ <<0, -r>> \in Disc(r, fill)
  BY <1>1, <1>2, RingInDisc
<1>4. <<r, 0>> \in Disc(r, fill) /\ <<-r, 0>> \in Disc(r, fill)
  BY <1>1, <1>2, RingInDisc
<1> QED
  BY <1>3, <1>4 DEF Poles

\* Every column and every row up to the radius has a pixel about the circle.
LEMMA DiscMeetsAll ==
  ASSUME NEW r \in Nat \ {0}, NEW fill \in BOOLEAN, NEW v \in -r..r
  PROVE  \E u \in Int : /\ <<u, v>> \in Disc(r, fill) \cap Band(r)
                        /\ <<v, u>> \in Disc(r, fill) \cap Band(r)
<1>1. Abs(v) \in 0..r
  BY DEF Abs
<1>2. PICK x \in Turns(r) : /\ Rim(r)[x] \in 0..r /\ x \in 0..r
                            /\ Abs(v) = x \/ Abs(v) = Rim(r)[x]
  BY <1>1, RimReaches
<1>3. PICK u \in Nat : \/ Abs(v) = x /\ u = Rim(r)[x]
                       \/ u = x /\ Abs(v) = Rim(r)[x]
  BY <1>2
<1>4. Abs(u) = u /\ u \in -r..r
  BY <1>2, <1>3 DEF Abs
<1>5. <<u, v>> \in Disc(r, fill) /\ <<v, u>> \in Disc(r, fill)
  BY <1>2, <1>3, <1>4, RingInDisc
<1>6. OnCircle(u, v, r) /\ OnCircle(v, u, r)
  <2>1. OnCircle(x, Rim(r)[x], r)
    BY RimOnCircle
  <2>2. v * v = Abs(v) * Abs(v) /\ v \in Int
    BY DEF Abs
  <2>3. 4 * (u * u + v * v) = 4 * (x * x + Rim(r)[x] * Rim(r)[x])
    <3>1. PICK y \in Nat, w \in Nat : y = Rim(r)[x] /\ w = Abs(v)
      BY <1>1, <1>2
    <3>2. (w = x /\ u = y) \/ (u = x /\ w = y)
      BY <1>3, <3>1
    <3>3. u * u + w * w = x * x + y * y
      BY <1>2, <3>2
    <3> QED
      BY <2>2, <3>1, <3>3
  <2>4. 4 * (v * v + u * u) = 4 * (u * u + v * v)
    BY <2>2
  <2> QED
    BY <2>1, <2>3, <2>4 DEF OnCircle
<1> QED
  BY <1>4, <1>5, <1>6 DEF Band

\* The same in all eight octants.
LEMMA DiscTurns ==
  ASSUME NEW r \in Nat \ {0}, NEW fill \in BOOLEAN, NEW a \in Int, NEW b \in Int,
         <<a, b>> \in Disc(r, fill), NEW s \in {1, -1}, NEW t \in {1, -1}
  PROVE  <<s * a, t * b>> \in Disc(r, fill) /\ <<s * b, t * a>> \in Disc(r, fill)
<1>1. PICK n \in 0..(r+1) : Rim(r)[n] < n /\ Turns(r) = 0..n
  BY RimEnds
<1>2. PICK x \in 0..n : TurnOf(a, b, x, Rim(r)[x], fill)
  BY <1>1 DEF Disc
<1>3. \A u \in 0..n : Rim(r)[u] \in 0..r
  BY <1>1, LastTurn
<1>4. /\ s * a \in Int /\ t * b \in Int /\ s * b \in Int /\ t * a \in Int
      /\ Abs(s * a) = Abs(a) /\ Abs(t * b) = Abs(b) /\ Abs(s * b) = Abs(b) /\ Abs(t * a) = Abs(a)
      /\ Abs(a) \in Nat /\ Abs(b) \in Nat
  BY DEF Abs
<1>5. <<s * a, t * b>> \in Disc(r, fill)
  <2>1. TurnOf(s * a, t * b, x, Rim(r)[x], fill)
    BY <1>2, <1>4 DEF TurnOf
  <2> QED
    BY <1>1, <1>4, <2>1 DEF Disc
<1>6. \E u \in 0..n : TurnOf(b, a, u, Rim(r)[u], fill)
  <2>1. CASE ~fill
    BY <1>2, <2>1 DEF TurnOf
  <2>2. CASE fill /\ Abs(a) <= x /\ Abs(b) = Rim(r)[x]
    <3>1. Abs(a) \in 0..n /\ x \in 0..(r+1) /\ Abs(a) \in 0..(r+1)
      BY <1>4, <2>2
    <3>2. Rim(r)[x] <= Rim(r)[Abs(a)]
      BY <2>2, <3>1, RimMonotone
    <3>3. TurnOf(b, a, Abs(a), Rim(r)[Abs(a)], fill)
      BY <2>2, <3>2 DEF TurnOf
    <3> QED
      BY <3>1, <3>3
  <2>3. CASE fill /\ Abs(a) <= Rim(r)[x] /\ Abs(b) = x
    <3>1. x \in 0..(r+1) /\ n \in 0..(r+1) /\ x <= n /\ Rim(r)[x] \in 0..r /\ Rim(r)[n] \in 0..r
      BY <1>3
    <3>2. CASE Abs(a) >= Rim(r)[n]
      <4>1. PICK u \in 0..(r+1) : x <= u /\ u <= n /\ Rim(r)[u] = Abs(a)
        BY <1>4, <2>3, <3>1, <3>2, RimMeets
      <4>2. TurnOf(b, a, u, Rim(r)[u], fill)
        BY <2>3, <4>1 DEF TurnOf
      <4> QED
        BY <4>1, <4>2
    <3>3. CASE Abs(a) < Rim(r)[n]
      <4>1. Rim(r)[Abs(a)] >= n
        BY <1>1, <1>4, <3>3, LastTurn
      <4>2. Abs(a) \in 0..n
        BY <1>1, <1>4, <3>1, <3>3
      <4>3. Abs(b) <= Rim(r)[Abs(a)]
        BY <1>3, <2>3, <3>1, <4>1, <4>2
      <4>4. TurnOf(b, a, Abs(a), Rim(r)[Abs(a)], fill)
        BY <2>3, <4>3 DEF TurnOf
      <4> QED
        BY <4>2, <4>4
    <3> QED
      BY <1>4, <3>1, <3>2, <3>3
  <2> QED
    BY <1>2, <2>1, <2>2, <2>3 DEF TurnOf
<1>7. <<s * b, t * a>> \in Disc(r, fill)
  <2>1. PICK u \in 0..n : TurnOf(b, a, u, Rim(r)[u], fill)
    BY <1>6
  <2>2. TurnOf(s * b, t * a, u, Rim(r)[u], fill)
    BY <1>4, <2>1 DEF TurnOf
  <2> QED
    BY <1>1, <1>4, <2>2 DEF Disc
<1> QED
  BY <1>5, <1>7

-----------------------------------------------------------------------------
\* Together: what all turns of the loop paint is CircleShape.
LEMMA CircleIsShown ==
  ASSUME NEW cx \in Int, NEW cy \in Int, NEW r \in Nat \ {0}, NEW fill \in BOOLEAN,
         Painted = CirclePixels(Circle(cx, cy, r, fill)) \cap Grid
  PROVE  CircleShape(Circle(cx, cy, r, fill))
<1> DEFINE c == Circle(cx, cy, r, fill)  P == CirclePixels(c)
           shown(a, b) == <<cx + a, cy + b>> \in Painted
           seen(a, b)  == <<cx + a, cy + b>> \in Grid
           band == At(cx, cy, Band(r))
<1>1. P \subseteq Int \X Int /\ \A a, b \in Int : <<cx + a, cy + b>> \in P <=> <<a, b>> \in Disc(r, fill)
  BY CirclePixelsAt
<1>2. \A p \in P : \E d \in Disc(r, fill) : d \in Int \X Int /\ p = <<cx + d[1], cy + d[2]>>
  <2> SUFFICES ASSUME NEW p \in P
               PROVE  \E d \in Disc(r, fill) : d \in Int \X Int /\ p = <<cx + d[1], cy + d[2]>>
    OBVIOUS
  <2>1. PICK a \in Int, b \in Int : p = <<a, b>>
    BY <1>1
  <2>2. p = <<cx + (a - cx), cy + (b - cy)>> /\ a - cx \in Int /\ b - cy \in Int
    BY <2>1
  <2>3. <<a - cx, b - cy>> \in Disc(r, fill)
    BY <1>1, <2>2
  <2> QED
    BY <2>2, <2>3
<1>3. \A d \in Disc(r, fill) : d \in Int \X Int /\ <<cx + d[1], cy + d[2]>> \in P
  BY <1>1 DEF Disc
<1>4. \A S : S \subseteq Disc(r, fill) => At(cx, cy, S) \subseteq P
  BY <1>3 DEF At
<1> HIDE DEF P
<1>5. Painted = P \cap Grid
  BY DEF P
<1>6. Painted \subseteq band \cup (IF fill THEN At(cx, cy, Inside(r)) ELSE {})
  <2> SUFFICES ASSUME NEW p \in P PROVE p \in band \cup (IF fill THEN At(cx, cy, Inside(r)) ELSE {})
    BY <1>5
  <2>1. PICK d \in Disc(r, fill) : p = <<cx + d[1], cy + d[2]>>
    BY <1>2
  <2>2. d \in Band(r) \/ (fill /\ d \in Inside(r))
    BY DiscInBand
  <2> QED
    BY <2>1, <2>2 DEF At
<1>7. fill => At(cx, cy, Inside(r)) \cap Grid \subseteq Painted
  <2> SUFFICES ASSUME fill PROVE At(cx, cy, Inside(r)) \subseteq P
    BY <1>5
  <2>1. Inside(r) \subseteq Disc(r, TRUE) /\ fill = TRUE
    BY InsideInDisc
  <2> QED
    BY <1>4, <2>1
<1>8. At(cx, cy, Poles(r)) \cap Grid \subseteq Painted
  BY <1>4, <1>5, PolesInDisc
<1>9. \A p \in band, i \in {1, 2} :
        {q \in band : q[i] = p[i]} \subseteq Grid => \E q \in Painted \cap band : q[i] = p[i]
  <2> SUFFICES ASSUME NEW p \in band, NEW i \in {1, 2}, {q \in band : q[i] = p[i]} \subseteq Grid
               PROVE  \E q \in Painted \cap band : q[i] = p[i]
    OBVIOUS
  <2>1. PICK d \in Band(r) : p = <<cx + d[1], cy + d[2]>>
    BY DEF At
  <2>2. d[1] \in -r..r /\ d[2] \in -r..r
    BY DEF Band
  <2>3. CASE i = 1
    <3>1. PICK u \in Int : <<d[1], u>> \in Disc(r, fill) \cap Band(r)
      BY <2>2, DiscMeetsAll
    <3> DEFINE q == <<cx + d[1], cy + u>>
    <3>2. q \in P /\ q \in band /\ q[i] = p[i]
      BY <1>3, <2>1, <2>3, <3>1 DEF At
    <3> QED
      BY <1>5, <3>2
  <2>4. CASE i = 2
    <3>1. PICK u \in Int : <<u, d[2]>> \in Disc(r, fill) \cap Band(r)
      BY <2>2, DiscMeetsAll
    <3> DEFINE q == <<cx + u, cy + d[2]>>
    <3>2. q \in P /\ q \in band /\ q[i] = p[i]
      BY <1>3, <2>1, <2>4, <3>1 DEF At
    <3> QED
      BY <1>5, <3>2
  <2> QED
    BY <2>3, <2>4
<1>10. ASSUME NEW a \in -r..r, NEW b \in -r..r, shown(a, b), NEW s \in {1, -1}, NEW t \in {1, -1}
       PROVE  /\ seen(s * a, t * b) => shown(s * a, t * b)
              /\ seen(s * b, t * a) => shown(s * b, t * a)
  <2>1. <<a, b>> \in Disc(r, fill)
    BY <1>1, <1>5, <1>10 DEF P
  <2>2. /\ <<s * a, t * b>> \in Disc(r, fill) /\ <<s * b, t * a>> \in Disc(r, fill)
        /\ s * a \in Int /\ t * b \in Int /\ s * b \in Int /\ t * a \in Int
    <3>1. a \in Int /\ b \in Int
      OBVIOUS
    <3>2. s * a \in Int /\ t * b \in Int /\ s * b \in Int /\ t * a \in Int
      BY <3>1
    <3>3. <<s * a, t * b>> \in Disc(r, fill) /\ <<s * b, t * a>> \in Disc(r, fill)
      BY <2>1, <3>1, DiscTurns
    <3> QED
      BY <3>2, <3>3
  <2>3. <<cx + s * a, cy + t * b>> \in P /\ <<cx + s * b, cy + t * a>> \in P
    BY <1>1, <2>2 DEF P
  <2> QED
    BY <1>5, <2>3
<1>11. c.cx = cx /\ c.cy = cy /\ c.r = r /\ c.fill = fill
  BY DEF Circle
<1> HIDE DEF c
<1>12. CircleShape(c)
  <2> DEFINE ring == At(c.cx, c.cy, Band(c.r))
  <2> DEFINE alike(u, v, w) ==
               \A a, b \in -w..w : <<u + a, v + b>> \in Painted =>
                 \A s, t \in {1, -1} :
                   /\ <<u + s * a, v + t * b>> \in Grid => <<u + s * a, v + t * b>> \in Painted
                   /\ <<u + s * b, v + t * a>> \in Grid => <<u + s * b, v + t * a>> \in Painted
  <2>1. alike(c.cx, c.cy, c.r)
    <3>1. alike(cx, cy, r)
      BY <1>10
    <3> HIDE DEF alike
    <3> QED
      BY <1>11, <3>1
  <2>2. Painted \subseteq ring \cup (IF c.fill THEN At(c.cx, c.cy, Inside(c.r)) ELSE {})
    BY <1>6, <1>11
  <2>3. c.fill => At(c.cx, c.cy, Inside(c.r)) \cap Grid \subseteq Painted
    BY <1>7, <1>11
  <2>4. At(c.cx, c.cy, Poles(c.r)) \cap Grid \subseteq Painted
    BY <1>8, <1>11
  <2>5. \A p \in ring, i \in {1, 2} :
          {q \in ring : q[i] = p[i]} \subseteq Grid => \E q \in Painted \cap ring : q[i] = p[i]
    <3>1. ring = band
      BY <1>11
    <3> HIDE DEF ring, band
    <3> QED
      BY <1>9, <3>1
  <2> QED
    BY <2>1, <2>2, <2>3, <2>4, <2>5, ZenonT(60) DEF CircleShape
<1> QED
  BY <1>12 DEF c

\* The edges of a box whose radius fits, with the corners in between.
LEMMA EdgesAre ==
  ASSUME NEW c, c.x \in Int, c.y \in Int, c.w \in Int, c.h \in Int, c.r \in Int, RadiusFits(c)
  PROVE  /\ Edges(c) \subseteq Box(c.x, c.y, c.w, c.h)
         /\ \A u, v \in Int :
              <<u, v>> \in Edges(c) =>
                /\ <<2 * c.x + c.w - 1 - u, v>> \in Edges(c)
                /\ <<u, 2 * c.y + c.h - 1 - v>> \in Edges(c)
<1> DEFINE x == c.x  y == c.y  w == c.w  h == c.h  r == c.r
<1>1. /\ x \in Int /\ y \in Int /\ w \in Int /\ h \in Int /\ r \in Int
      /\ 0 < r /\ 2 * r < w /\ 2 * r < h
  BY DEF RadiusFits
<1>2. Edges(c) = ((x + r)..(x + w - 1 - r)) \X (y..y) \cup ((x + r)..(x + w - 1 - r)) \X ((y+h-1)..(y+h-1))
                   \cup (x..x) \X ((y+r)..(y+h-1-r)) \cup ((x+w-1)..(x+w-1)) \X ((y+r)..(y+h-1-r))
  BY <1>1 DEF Edges, Span, Smaller, Larger
<1> HIDE DEF x, y, w, h, r
<1>3. Edges(c) \subseteq Box(x, y, w, h)
  BY <1>1, <1>2 DEF Box
<1>4. \A u, v \in Int : <<u, v>> \in Edges(c) <=>
        \/ (v = y \/ v = y + h - 1) /\ x + r <= u /\ u <= x + w - 1 - r
        \/ (u = x \/ u = x + w - 1) /\ y + r <= v /\ v <= y + h - 1 - r
  BY <1>1, <1>2
<1>5. ASSUME NEW u \in Int, NEW v \in Int, <<u, v>> \in Edges(c)
      PROVE  /\ <<2 * x + w - 1 - u, v>> \in Edges(c)
             /\ <<u, 2 * y + h - 1 - v>> \in Edges(c)
  <2>1. 2 * x + w - 1 - u \in Int /\ 2 * y + h - 1 - v \in Int
    BY <1>1
  <2>2. \/ (v = y \/ v = y + h - 1) /\ x + r <= u /\ u <= x + w - 1 - r
        \/ (u = x \/ u = x + w - 1) /\ y + r <= v /\ v <= y + h - 1 - r
    BY <1>4, <1>5
  <2> DEFINE m == 2 * x + w - 1 - u  n == 2 * y + h - 1 - v
  <2>3. /\ \/ (v = y \/ v = y + h - 1) /\ x + r <= m /\ m <= x + w - 1 - r
           \/ (m = x \/ m = x + w - 1) /\ y + r <= v /\ v <= y + h - 1 - r
        /\ \/ (n = y \/ n = y + h - 1) /\ x + r <= u /\ u <= x + w - 1 - r
           \/ (u = x \/ u = x + w - 1) /\ y + r <= n /\ n <= y + h - 1 - r
    BY <1>1, <2>2
  <2> HIDE DEF m, n
  <2>4. m \in Int /\ n \in Int
    BY <2>1 DEF m, n
  <2>5. <<m, v>> \in Edges(c) /\ <<u, n>> \in Edges(c)
    BY <1>4, <2>3, <2>4
  <2> QED
    BY <2>5 DEF m, n
<1> QED
  BY <1>3, <1>5 DEF x, y, w, h, r

\* The edges and the four circles show RoundedOutline.
LEMMA OutlineIsShown ==
  ASSUME NEW c, c.x \in Int, c.y \in Int, c.w \in Int, c.h \in Int, c.r \in Int, RadiusFits(c),
         Painted = (Edges(c) \cup UNION {CirclePixels(Circle(q[1], q[2], c.r, FALSE)) : q \in Corners(c)})
                     \cap Grid
  PROVE  RoundedOutline(c)
<1> DEFINE x == c.x  y == c.y  w == c.w  h == c.h  r == c.r
           ring(q) == CirclePixels(Circle(q[1], q[2], r, FALSE))
<1>1. /\ x \in Int /\ y \in Int /\ w \in Int /\ h \in Int /\ r \in Nat \ {0} /\ FALSE \in BOOLEAN
      /\ 2 * r < w /\ 2 * r < h
  BY DEF RadiusFits
<1>2. Corners(c) = {x + r, x + w - r - 1} \X {y + r, y + h - r - 1}
  BY DEF Corners
<1> HIDE DEF x, y, w, h, r
<1>3. \A q \in Corners(c) : q[1] \in Int /\ q[2] \in Int /\ q[1] \in {x + r, x + w - r - 1}
        /\ q[2] \in {y + r, y + h - r - 1} /\ q = <<q[1], q[2]>>
  BY <1>1, <1>2
<1>4. ASSUME NEW q \in Corners(c)
      PROVE  /\ ring(q) \subseteq Int \X Int
             /\ \A a, b \in Int : <<q[1] + a, q[2] + b>> \in ring(q) <=> <<a, b>> \in Disc(r, FALSE)
  <2>1. PICK u \in Int, v \in Int : u = q[1] /\ v = q[2]
    BY <1>3
  <2>2. ring(q) = CirclePixels(Circle(u, v, r, FALSE))
    BY <2>1
  <2>3. /\ CirclePixels(Circle(u, v, r, FALSE)) \subseteq Int \X Int
        /\ \A a, b \in Int : <<u + a, v + b>> \in CirclePixels(Circle(u, v, r, FALSE))
                               <=> <<a, b>> \in Disc(r, FALSE)
    BY <1>1, CirclePixelsAt
  <2> HIDE DEF ring
  <2> QED
    BY <2>1, <2>2, <2>3
<1> HIDE DEF ring
<1>5. Painted = (Edges(c) \cup UNION {ring(q) : q \in Corners(c)}) \cap Grid
  BY DEF ring, r
<1>6. ASSUME NEW q \in Corners(c), NEW p \in ring(q)
      PROVE  \E a, b \in Int : p = <<q[1] + a, q[2] + b>> /\ <<a, b>> \in Disc(r, FALSE)
  <2>1. p \in Int \X Int
    BY <1>4
  <2>2. PICK u \in Int, v \in Int : p = <<u, v>>
    BY <2>1
  <2>3. PICK m \in Int, n \in Int : m = q[1] /\ n = q[2]
    BY <1>3
  <2> DEFINE a == u - m  b == v - n
  <2>4. p = <<m + a, n + b>> /\ a \in Int /\ b \in Int
    BY <2>2
  <2> HIDE DEF a, b
  <2>5. <<q[1] + a, q[2] + b>> \in ring(q) <=> <<a, b>> \in Disc(r, FALSE)
    BY <1>4, <2>4
  <2> QED
    BY <2>3, <2>4, <2>5
<1>7. \A a, b \in Int : <<a, b>> \in Disc(r, FALSE) => <<a, b>> \in Band(r) /\ a \in -r..r /\ b \in -r..r
  <2>1. \A d \in Disc(r, FALSE) : d \in Band(r)
    BY <1>1, DiscInBand
  <2> QED
    BY <2>1 DEF Band
<1>8. Edges(c) \cap Grid \subseteq Painted
  BY <1>5
<1>9. Painted \subseteq Edges(c) \cup UNION {At(q[1], q[2], Band(r)) : q \in Corners(c)}
  <2>1. ASSUME NEW q \in Corners(c), NEW p \in ring(q) PROVE p \in At(q[1], q[2], Band(r))
    <3>1. PICK a \in Int, b \in Int : p = <<q[1] + a, q[2] + b>> /\ <<a, b>> \in Disc(r, FALSE)
      BY <1>6, <2>1
    <3>2. <<a, b>> \in Band(r) /\ <<a, b>>[1] = a /\ <<a, b>>[2] = b
      BY <1>7, <3>1
    <3>3. \E d \in Band(r) : p = <<q[1] + d[1], q[2] + d[2]>>
      BY <3>1, <3>2
    <3> QED
      BY <3>3 DEF At
  <2> QED
    BY <1>5, <2>1, ZenonT(60)
<1>10. Painted \subseteq Box(x, y, w, h)
  <2>1. Edges(c) \subseteq Box(x, y, w, h)
    BY EdgesAre DEF x, y, w, h
  <2>2. ASSUME NEW q \in Corners(c), NEW p \in ring(q) PROVE p \in Box(x, y, w, h)
    <3>0. PICK a0 \in Int, b0 \in Int : p = <<q[1] + a0, q[2] + b0>> /\ <<a0, b0>> \in Disc(r, FALSE)
      BY <1>6, <2>2
    <3>1. PICK a \in -r..r, b \in -r..r : p = <<q[1] + a, q[2] + b>>
      BY <1>7, <3>0
    <3>2. PICK u \in {x + r, x + w - r - 1}, v \in {y + r, y + h - r - 1} : p = <<u + a, v + b>>
      BY <1>3, <3>1
    <3> QED
      BY <1>1, <3>2 DEF Box
  <2> QED
    BY <1>5, <2>1, <2>2
<1>11. ASSUME NEW p \in Painted
       PROVE  {<<2 * x + w - 1 - p[1], p[2]>>, <<p[1], 2 * y + h - 1 - p[2]>>} \cap Grid \subseteq Painted
  <2>1. CASE p \in Edges(c)
    <3>1. PICK u \in Int, v \in Int : p = <<u, v>>
      BY DEF Painted, Grid
    <3>2. <<2 * x + w - 1 - u, v>> \in Edges(c) /\ <<u, 2 * y + h - 1 - v>> \in Edges(c)
      BY <2>1, <3>1, EdgesAre DEF x, y, w, h
    <3> QED
      BY <1>5, <3>1, <3>2
  <2>2. ASSUME NEW q \in Corners(c), p \in ring(q)
        PROVE  {<<2 * x + w - 1 - p[1], p[2]>>, <<p[1], 2 * y + h - 1 - p[2]>>} \cap Grid \subseteq Painted
    <3>1. PICK a \in Int, b \in Int : p = <<q[1] + a, q[2] + b>> /\ <<a, b>> \in Disc(r, FALSE)
      BY <1>6, <2>2
    <3>2. \A s, t \in {1, -1} : <<s * a, t * b>> \in Disc(r, FALSE)
      BY <1>1, <3>1, DiscTurns
    <3>3. <<-a, b>> \in Disc(r, FALSE) /\ <<a, -b>> \in Disc(r, FALSE) /\ -a \in Int /\ -b \in Int
      <4>1. PICK s \in {1, -1}, t \in {1, -1} : s = 1 /\ t = -1
        OBVIOUS
      <4>2. <<t * a, s * b>> \in Disc(r, FALSE) /\ <<s * a, t * b>> \in Disc(r, FALSE)
        BY <3>2
      <4>3. t * a = -a /\ s * b = b /\ s * a = a /\ t * b = -b
        BY <4>1
      <4>4. <<t * a, s * b>> = <<-a, b>> /\ <<s * a, t * b>> = <<a, -b>>
        BY <4>3
      <4>5. -a \in Int /\ -b \in Int
        OBVIOUS
      <4> QED
        BY <4>2, <4>4, <4>5, Zenon
    <3> DEFINE m == <<2 * x + w - 1 - q[1], q[2]>>  n == <<q[1], 2 * y + h - 1 - q[2]>>
    <3>4. m \in Corners(c) /\ n \in Corners(c)
      BY <1>1, <1>2, <1>3
    <3>5. <<m[1] + -a, m[2] + b>> \in ring(m) /\ <<n[1] + a, n[2] + -b>> \in ring(n)
      <4> HIDE DEF m, n
      <4> QED
        BY <1>4, <3>1, <3>3, <3>4
    <3>6. <<2 * x + w - 1 - p[1], p[2]>> = <<m[1] + -a, m[2] + b>>
          /\ <<p[1], 2 * y + h - 1 - p[2]>> = <<n[1] + a, n[2] + -b>>
      BY <1>1, <1>3, <3>1
    <3> HIDE DEF m, n
    <3> QED
      BY <1>5, <3>4, <3>5, <3>6, ZenonT(60)
  <2> QED
    BY <1>5, <2>1, <2>2
<1> QED
  BY <1>8, <1>9, <1>10, <1>11 DEF RoundedOutline, x, y, w, h, r

-----------------------------------------------------------------------------
(***************************************************************************)
(* The inductive invariant of all calls but lines: what is painted, and what *)
(* is still ahead, is what is wanted.                                      *)
(***************************************************************************)

Plain(c) == c.op # "line"

\* The pixels that c gives the colour k.
Wanted(c, k) ==
  CASE c.op = "gradient" -> {p \in Box(c.x, c.y, c.w, c.h) : Shade(c, p[2]) = k}
    [] c.op = "bitmap"   -> {p \in Area(c) : k = IF Lit(c, p) THEN Ink
                                               ELSE IF c.ground THEN Ground ELSE Blank}
    [] c.op = "circle"   -> IF k = Ink THEN CirclePixels(c) ELSE {}
    [] c.op = "rounded" /\ ~c.fill /\ ~Empty(c.w, c.h)
                         -> IF k = Ink
                              THEN Edges(c) \cup UNION {CirclePixels(Circle(q[1], q[2], c.r, FALSE)) :
                                                         q \in Corners(c)}
                              ELSE {}
    [] OTHER             -> IF k = Ink THEN Solid(c) ELSE {}

\* The pixels that a part gives the colour k.
PartPixels(q, k) ==
  CASE q.op = "text"   -> IF k = Ink THEN TextFrom(q, 1) ELSE {}
    [] q.op = "line"   -> IF k = q.c THEN Span(q.x1, q.y1, q.x2, q.y2) ELSE {}
    [] q.op = "circle" -> IF k = Ink THEN CirclePixels(q) ELSE {}
    [] q.op = "pixels" -> IF k = q.c THEN q.at ELSE {}

\* The byte that the loop of a text is at.
Byte == Len(call.text) - Len(cur.rest) + 1

LoopPixels(k) ==
  CASE cur.op = "text" -> IF k = Ink THEN TextFrom(call, Byte) ELSE {}
    [] cur.op = "line" -> IF k = cur.c THEN Span(cur.x, cur.y, cur.x2, cur.y2) ELSE {}
    [] cur.op = "circle" ->
         IF k = Ink THEN UNION {Turned(cur, x) : x \in {x \in Turns(cur.r) : x > cur.x}} ELSE {}
    [] OTHER           -> {}

Ahead(k) == LoopPixels(k) \cup UNION {PartPixels(todo[i], k) : i \in DOMAIN todo}

\* The parts of such a call, and the loops they become.
Simple(q) ==
  /\ q.op \in {"pixels", "line", "circle", "text"}
  /\ q.op \in {"pixels", "line"} => q.c \in Shades
  /\ q.op = "line" => q.x1 = q.x2 \/ q.y1 = q.y2
  /\ q.op = "text" => q = call

SimpleLoop ==
  /\ cur.op \in {"none", "line", "circle", "text"}
  /\ cur.op = "line" => cur.c \in Shades /\ (cur.x1 = cur.x2 \/ cur.y1 = cur.y2)
  /\ cur.op = "circle" => cur.x \in Turns(cur.r) /\ cur.y = Rim(cur.r)[cur.x]
  /\ cur.op = "text" =>
       /\ call.op = "text"
       /\ Byte \in 1..Len(call.text) + 1 /\ cur.rest = SubSeq(call.text, Byte, Len(call.text))
       /\ cur.x = call.x /\ cur.curX = CellX(call, Byte) /\ cur.y = CellY(call, Byte)

Exact ==
  /\ \A p \in Painted : p \in Wanted(call, pixels[p])
  /\ \A k \in Shades : /\ Ahead(k) \subseteq Wanted(call, k)
                       /\ \A p \in Wanted(call, k) \cap Grid : p \in Ahead(k) \/ pixels[p] = k

Painting ==
  Plain(call) => SimpleLoop /\ (\A i \in DOMAIN todo : Simple(todo[i])) /\ Exact

\* A pixel has at most one colour in a call.
LEMMA WantedOnce ==
  ASSUME NEW c, NEW j, NEW k, NEW p, p \in Wanted(c, j), p \in Wanted(c, k)
  PROVE  j = k
<1>1. CASE c.op = "gradient"
  BY <1>1 DEF Wanted
<1>2. CASE c.op = "bitmap"
  BY <1>2 DEF Wanted
<1>3. CASE c.op \notin {"gradient", "bitmap"}
  BY <1>3 DEF Wanted
<1> QED
  BY <1>1, <1>2, <1>3

\* What is painted of what is wanted, and is no longer ahead, keeps the rest exact.
LEMMA ExactKept ==
  ASSUME Exact, call' = call, NEW S, NEW c \in Shades,
         \A p \in Grid : pixels'[p] = IF p \in S THEN c ELSE pixels[p],
         \A p \in S : p \in Ahead(c),
         \A k \in Shades : Ahead(k)' \subseteq Ahead(k),
         \A k \in Shades : \A p \in Ahead(k) : p \in Ahead(k)' \/ (k = c /\ p \in S)
  PROVE  Exact'
<1>1. \A p \in S : p \in Wanted(call, c)
  BY DEF Exact
<1>2. ASSUME NEW p \in Painted' PROVE p \in Wanted(call, pixels'[p])
  <2>1. p \in Grid /\ pixels'[p] # Blank
    BY DEF Painted
  <2>2. CASE p \in S
    BY <1>1, <2>1, <2>2
  <2>3. CASE p \notin S
    <3>1. p \in Painted /\ pixels'[p] = pixels[p]
      BY <2>1, <2>3 DEF Painted
    <3> QED
      BY <3>1 DEF Exact
  <2> QED
    BY <2>2, <2>3
<1>3. ASSUME NEW k \in Shades PROVE Ahead(k)' \subseteq Wanted(call, k)
  BY DEF Exact
<1>4. ASSUME NEW k \in Shades, NEW p \in Wanted(call, k), p \in Grid
      PROVE  p \in Ahead(k)' \/ pixels'[p] = k
  <2>1. CASE p \in S
    <3>1. k = c
      BY <1>1, <1>4, <2>1, WantedOnce
    <3> QED
      BY <1>4, <2>1, <3>1
  <2>2. CASE p \notin S
    BY <1>4, <2>2 DEF Exact
  <2> QED
    BY <2>1, <2>2
<1>5. \A k : Wanted(call, k)' = Wanted(call', k)
  OBVIOUS
<1> QED
  BY <1>2, <1>3, <1>4 DEF Exact

\* What is ahead in todo is what is ahead in its head and in its tail.
LEMMA TodoSplits ==
  ASSUME NEW S, NEW s \in Seq(S), s # <<>>, NEW k
  PROVE  UNION {PartPixels(s[i], k) : i \in DOMAIN s}
           = PartPixels(Head(s), k) \cup UNION {PartPixels(Tail(s)[i], k) : i \in DOMAIN Tail(s)}
<1>1. /\ Len(s) \in Nat \ {0} /\ DOMAIN s = 1..Len(s) /\ Head(s) = s[1]
      /\ Tail(s) \in Seq(S) /\ DOMAIN Tail(s) = 1..(Len(s) - 1)
      /\ \A i \in 1..(Len(s) - 1) : Tail(s)[i] = s[i + 1]
  BY EmptySeq, HeadTailProperties
<1>2. \A i \in DOMAIN s : i = 1 \/ (i - 1 \in DOMAIN Tail(s) /\ s[i] = Tail(s)[i - 1])
  BY <1>1
<1>3. \A i \in DOMAIN Tail(s) : i + 1 \in DOMAIN s /\ Tail(s)[i] = s[i + 1]
  BY <1>1
<1>4. 1 \in DOMAIN s
  BY <1>1
<1>5. \A i \in DOMAIN s : PartPixels(s[i], k) \subseteq
         PartPixels(Head(s), k) \cup UNION {PartPixels(Tail(s)[j], k) : j \in DOMAIN Tail(s)}
  BY <1>1, <1>2
<1>6. \A i \in DOMAIN Tail(s) : PartPixels(Tail(s)[i], k) \subseteq UNION {PartPixels(s[j], k) : j \in DOMAIN s}
  BY <1>3
<1>7. PartPixels(Head(s), k) \subseteq UNION {PartPixels(s[j], k) : j \in DOMAIN s}
  BY <1>1, <1>4
<1> QED
  BY <1>5, <1>6, <1>7

\* The parts of a tail are parts of the whole.
LEMMA TailIsSimple ==
  ASSUME NEW S, NEW s \in Seq(S), s # <<>>, \A i \in DOMAIN s : Simple(s[i])
  PROVE  Simple(Head(s)) /\ \A i \in DOMAIN Tail(s) : Simple(Tail(s)[i])
<1>1. /\ Len(s) \in Nat \ {0} /\ DOMAIN s = 1..Len(s) /\ Head(s) = s[1]
      /\ Tail(s) \in Seq(S) /\ DOMAIN Tail(s) = 1..(Len(s) - 1)
      /\ \A i \in 1..(Len(s) - 1) : Tail(s)[i] = s[i + 1]
  BY EmptySeq, HeadTailProperties
<1>2. 1 \in DOMAIN s /\ \A i \in DOMAIN Tail(s) : i + 1 \in DOMAIN s
  BY <1>1
<1> QED
  BY <1>1, <1>2

-----------------------------------------------------------------------------
(***************************************************************************)
(* The turns of the loops keep it.                                         *)
(***************************************************************************)

\* A line along an axis paints what is between its pixel and its end, pixel after pixel.
LEMMA StraightTurn ==
  ASSUME NEW l, LineInv(l), l.x1 = l.x2 \/ l.y1 = l.y2
  PROVE  /\ <<l.x, l.y>> \in Span(l.x, l.y, l.x2, l.y2)
         /\ l.x = l.x2 /\ l.y = l.y2 => Span(l.x, l.y, l.x2, l.y2) = {<<l.x, l.y>>}
         /\ ~(l.x = l.x2 /\ l.y = l.y2) =>
              Span(l.x, l.y, l.x2, l.y2)
                = {<<l.x, l.y>>} \cup Span(LineNext(l).x, LineNext(l).y, l.x2, l.y2)
<1>1. PICK i \in 0..l.dx, j \in 0..(-l.dy), k \in Int : OnTrack(l, i, j, k)
  BY DEF LineInv
<1>2. /\ l.x1 \in Int /\ l.y1 \in Int /\ l.x2 \in Int /\ l.y2 \in Int /\ l.err \in Int
      /\ l.x \in Int /\ l.y \in Int /\ l.sx \in {1, -1} /\ l.sy \in {1, -1}
      /\ l.dx \in Nat /\ l.dy \in Int /\ -l.dy \in Nat
      /\ l.x2 = l.x1 + l.sx * l.dx /\ l.y2 = l.y1 + l.sy * (-l.dy)
      /\ l.x = l.x1 + l.sx * i /\ l.y = l.y1 + l.sy * j
      /\ k = j * l.dx - i * (-l.dy) /\ l.err = k + l.dx - (-l.dy)
  BY <1>1, LineFacts DEF OnTrack
<1>3. l.dx = Abs(l.x2 - l.x1) /\ l.dy = -Abs(l.y2 - l.y1)
  BY DEF LineInv
<1> DEFINE x == l.x  y == l.y  x2 == l.x2  y2 == l.y2  nx == LineNext(l).x  ny == LineNext(l).y
<1>4. /\ nx = (IF 2 * l.err >= l.dy THEN l.x + l.sx ELSE l.x)
      /\ ny = (IF 2 * l.err <= l.dx THEN l.y + l.sy ELSE l.y)
  BY DEF LineNext, LineAt
<1>7. /\ x \in Int /\ y \in Int /\ x2 \in Int /\ y2 \in Int
      /\ i \in Nat /\ i <= l.dx /\ j \in Nat /\ j <= -l.dy
  BY <1>2
<1> HIDE DEF nx, ny
<1>5. CASE l.y1 = l.y2
  <2>0. l.dy = 0
    BY <1>2, <1>3, <1>5 DEF Abs
  <2>1. j = 0 /\ k = 0 /\ l.err = l.dx /\ y = y2
    BY <1>2, <1>5, <1>7, <2>0
  <2>2. CASE l.sx = 1
    <3>1. x = l.x1 + i /\ x2 = l.x1 + l.dx /\ x <= x2
      BY <1>2, <1>7, <2>0, <2>2
    <3>2. ~(x = x2 /\ y = y2) => x < x2 /\ nx = x + 1 /\ ny = y
      BY <1>2, <1>4, <1>7, <2>0, <2>1, <2>2, <3>1
    <3>3. \A a \in Int : a <= x2 =>
            Span(a, y, x2, y2) = (a..x2) \X {y}
      BY <1>2, <2>0, <2>1 DEF Span, Smaller, Larger
    <3>4. Span(x, y, x2, y2) = (x..x2) \X {y}
      BY <1>2, <3>1, <3>3
    <3>5. x < x2 => Span(nx, ny, x2, y2) = ((x + 1)..x2) \X {y}
      <4>1. SUFFICES ASSUME x < x2 PROVE Span(nx, ny, x2, y2) = ((x + 1)..x2) \X {y}
        OBVIOUS
      <4>2. x + 1 \in Int /\ x + 1 <= x2
        BY <1>7, <4>1
      <4>3. Span(x + 1, y, x2, y2) = ((x + 1)..x2) \X {y}
        BY <3>3, <4>2
      <4>4. <<nx, ny>> = <<x + 1, y>>
        BY <1>7, <3>2, <4>1
      <4> QED
        BY <4>3, <4>4
    <3>6. x < x2 => x..x2 = {x} \cup ((x + 1)..x2)
      <4> HIDE DEF x, y, x2, y2
      <4> QED
        BY <1>7
    <3>7. x = x2 => x..x2 = {x}
      <4> HIDE DEF x, y, x2, y2
      <4> QED
        BY <1>7
    <3> QED
      BY <1>2, <3>1, <3>2, <3>4, <3>5, <3>6, <3>7 DEF nx, ny
  <2>3. CASE l.sx = -1
    <3>1. x = l.x1 - i /\ x2 = l.x1 - l.dx /\ x2 <= x
      BY <1>2, <1>7, <2>0, <2>3
    <3>2. ~(x = x2 /\ y = y2) => x2 < x /\ nx = x - 1 /\ ny = y
      BY <1>2, <1>4, <1>7, <2>0, <2>1, <2>3, <3>1
    <3>3. \A a \in Int : x2 <= a =>
            Span(a, y, x2, y2) = (x2..a) \X {y}
      BY <1>2, <2>0, <2>1 DEF Span, Smaller, Larger
    <3>4. Span(x, y, x2, y2) = (x2..x) \X {y}
      BY <1>2, <3>1, <3>3
    <3>5. x2 < x => Span(nx, ny, x2, y2) = (x2..(x - 1)) \X {y}
      <4>1. SUFFICES ASSUME x2 < x PROVE Span(nx, ny, x2, y2) = (x2..(x - 1)) \X {y}
        OBVIOUS
      <4>2. x - 1 \in Int /\ x2 <= x - 1
        BY <1>7, <4>1
      <4>3. Span(x - 1, y, x2, y2) = (x2..(x - 1)) \X {y}
        BY <3>3, <4>2
      <4>4. <<nx, ny>> = <<x - 1, y>>
        BY <1>7, <3>2, <4>1
      <4> QED
        BY <4>3, <4>4
    <3>6. x2 < x => x2..x = {x} \cup (x2..(x - 1))
      <4> HIDE DEF x, y, x2, y2
      <4> QED
        BY <1>7
    <3>7. x = x2 => x2..x = {x}
      <4> HIDE DEF x, y, x2, y2
      <4> QED
        BY <1>7
    <3> QED
      BY <1>2, <3>1, <3>2, <3>4, <3>5, <3>6, <3>7 DEF nx, ny
  <2> QED
    BY <1>2, <2>2, <2>3
<1>6. CASE l.x1 = l.x2
  <2>0. l.dx = 0
    BY <1>2, <1>3, <1>6 DEF Abs
  <2>1. i = 0 /\ k = 0 /\ l.err = l.dy /\ x = x2
    BY <1>2, <1>6, <1>7, <2>0
  <2>2. CASE l.sy = 1
    <3>1. y = l.y1 + j /\ y2 = l.y1 - l.dy /\ y <= y2
      BY <1>2, <1>7, <2>0, <2>2
    <3>2. ~(x = x2 /\ y = y2) => y < y2 /\ ny = y + 1 /\ nx = x
      BY <1>2, <1>4, <1>7, <2>0, <2>1, <2>2, <3>1
    <3>3. \A a \in Int : a <= y2 =>
            Span(x, a, x2, y2) = {x} \X (a..y2)
      BY <1>2, <2>0, <2>1 DEF Span, Smaller, Larger
    <3>4. Span(x, y, x2, y2) = {x} \X (y..y2)
      BY <1>2, <3>1, <3>3
    <3>5. y < y2 => Span(nx, ny, x2, y2) = {x} \X ((y + 1)..y2)
      <4>1. SUFFICES ASSUME y < y2 PROVE Span(nx, ny, x2, y2) = {x} \X ((y + 1)..y2)
        OBVIOUS
      <4>2. y + 1 \in Int /\ y + 1 <= y2
        BY <1>7, <4>1
      <4>3. Span(x, y + 1, x2, y2) = {x} \X ((y + 1)..y2)
        BY <3>3, <4>2
      <4>4. <<nx, ny>> = <<x, y + 1>>
        BY <1>7, <3>2, <4>1
      <4> QED
        BY <4>3, <4>4
    <3>6. y < y2 => y..y2 = {y} \cup ((y + 1)..y2)
      <4> HIDE DEF x, y, x2, y2
      <4> QED
        BY <1>7
    <3>7. y = y2 => y..y2 = {y}
      <4> HIDE DEF x, y, x2, y2
      <4> QED
        BY <1>7
    <3> QED
      BY <1>2, <3>1, <3>2, <3>4, <3>5, <3>6, <3>7 DEF nx, ny
  <2>3. CASE l.sy = -1
    <3>1. y = l.y1 - j /\ y2 = l.y1 + l.dy /\ y2 <= y
      BY <1>2, <1>7, <2>0, <2>3
    <3>2. ~(x = x2 /\ y = y2) => y2 < y /\ ny = y - 1 /\ nx = x
      BY <1>2, <1>4, <1>7, <2>0, <2>1, <2>3, <3>1
    <3>3. \A a \in Int : y2 <= a =>
            Span(x, a, x2, y2) = {x} \X (y2..a)
      BY <1>2, <2>0, <2>1 DEF Span, Smaller, Larger
    <3>4. Span(x, y, x2, y2) = {x} \X (y2..y)
      BY <1>2, <3>1, <3>3
    <3>5. y2 < y => Span(nx, ny, x2, y2) = {x} \X (y2..(y - 1))
      <4>1. SUFFICES ASSUME y2 < y PROVE Span(nx, ny, x2, y2) = {x} \X (y2..(y - 1))
        OBVIOUS
      <4>2. y - 1 \in Int /\ y2 <= y - 1
        BY <1>7, <4>1
      <4>3. Span(x, y - 1, x2, y2) = {x} \X (y2..(y - 1))
        BY <3>3, <4>2
      <4>4. <<nx, ny>> = <<x, y - 1>>
        BY <1>7, <3>2, <4>1
      <4> QED
        BY <4>3, <4>4
    <3>6. y2 < y => y2..y = {y} \cup (y2..(y - 1))
      <4> HIDE DEF x, y, x2, y2
      <4> QED
        BY <1>7
    <3>7. y = y2 => y2..y = {y}
      <4> HIDE DEF x, y, x2, y2
      <4> QED
        BY <1>7
    <3> QED
      BY <1>2, <3>1, <3>2, <3>4, <3>5, <3>6, <3>7 DEF nx, ny
  <2> QED
    BY <1>2, <2>2, <2>3
<1> QED
  BY <1>5, <1>6

-----------------------------------------------------------------------------
\* What a call is made of.
Calls ==
  [op : {"none"}] \cup [op : {"pixel"}, x : Int, y : Int]
  \cup [op : {"line"}, x1 : Int, y1 : Int, x2 : Int, y2 : Int]
  \cup [op : {"rect"}, x : Int, y : Int, w : Int, h : Int, fill : BOOLEAN]
  \cup CircleParts
  \cup [op : {"rounded"}, x : Int, y : Int, w : Int, h : Int, r : Int, fill : BOOLEAN]
  \cup [op : {"gradient"}, x : Int, y : Int, w : Int, h : Int, top : Shades, bottom : Shades]
  \cup [op : {"bitmap"}, x : Int, y : Int, b : Bitmaps, scale : Nat, ground : BOOLEAN]
  \cup TextParts

CallInv ==
  /\ call \in Calls
  /\ call = NoCall => pixels = Cleared /\ todo = <<>> /\ cur = NoLoop

\* The fields of the calls that are looked at again when they have been made.
LEMMA CallFields ==
  ASSUME CallInv
  PROVE  /\ call.op = "text" => call.x \in Int /\ call.y \in Int /\ call.text \in Texts
         /\ call.op = "gradient" => /\ call.x \in Int /\ call.y \in Int /\ call.w \in Int
                                    /\ call.h \in Int /\ call.top \in Shades /\ call.bottom \in Shades
         /\ call.op = "bitmap" => /\ call.x \in Int /\ call.y \in Int /\ call.b \in Bitmaps
                                  /\ call.scale \in Nat /\ call.ground \in BOOLEAN
         /\ call.op = "circle" => call \in CircleParts
         /\ call.op = "rounded" => /\ call.x \in Int /\ call.y \in Int /\ call.w \in Int
                                   /\ call.h \in Int /\ call.r \in Int /\ call.fill \in BOOLEAN
  BY DEF CallInv, Calls, TextParts, CircleParts

ShapeInv == LoopInv /\ CallInv /\ Painting

\* A part begins: what it does not paint at once is ahead in its loop.
LEMMA BeginPaintsExactly ==
  ASSUME ShapeInv, Plain(call), call' = call, todo # <<>>, todo' = Tail(todo), cur = NoLoop,
         NEW S, NEW c \in Shades,
         \A p \in Grid : pixels'[p] = IF p \in S THEN c ELSE pixels[p],
         S \subseteq PartPixels(Head(todo), c),
         \A k \in Shades : LoopPixels(k)' \subseteq PartPixels(Head(todo), k),
         \A k \in Shades : \A p \in PartPixels(Head(todo), k) :
           p \in LoopPixels(k)' \/ (k = c /\ p \in S)
  PROVE  Exact'
<1> DEFINE rest(k) == UNION {PartPixels(Tail(todo)[i], k) : i \in DOMAIN Tail(todo)}
<1>1. \A k : Ahead(k) = PartPixels(Head(todo), k) \cup rest(k) /\ Ahead(k)' = LoopPixels(k)' \cup rest(k)
  <2> TAKE k
  <2>1. LoopPixels(k) = {}
    BY DEF LoopPixels, NoLoop
  <2>2. UNION {PartPixels(todo[i], k) : i \in DOMAIN todo} = PartPixels(Head(todo), k) \cup rest(k)
    BY TodoSplits DEF ShapeInv, LoopInv
  <2> QED
    BY <2>1, <2>2 DEF Ahead
<1> HIDE DEF rest
<1>2. Exact
  BY DEF ShapeInv, Painting
<1>3. \A p \in S : p \in Ahead(c)
  BY <1>1
<1>4. \A k \in Shades : Ahead(k)' \subseteq Ahead(k)
  BY <1>1
<1>5. \A k \in Shades : \A p \in Ahead(k) : p \in Ahead(k)' \/ (k = c /\ p \in S)
  BY <1>1
<1>6. call' = call /\ \A p \in Grid : pixels'[p] = IF p \in S THEN c ELSE pixels[p]
  OBVIOUS
<1> QED
  BY ONLY <1>2, <1>3, <1>4, <1>5, <1>6, ExactKept, c \in Shades

\* A part begins that paints nothing at once.
LEMMA BeginKeepsExact ==
  ASSUME ShapeInv, Plain(call), UNCHANGED <<pixels, call>>, todo # <<>>, todo' = Tail(todo),
         cur = NoLoop, \A k \in Shades : LoopPixels(k)' = PartPixels(Head(todo), k)
  PROVE  Exact'
<1> DEFINE S == {}
<1>1. \A p \in Grid : pixels'[p] = IF p \in S THEN Ink ELSE pixels[p]
  OBVIOUS
<1>2. Ink \in Shades /\ S \subseteq PartPixels(Head(todo), Ink)
  BY DEF Ink, Shades
<1> HIDE DEF S
<1> QED
  BY <1>1, <1>2, BeginPaintsExactly

\* A line along an axis begins: its whole span is ahead.
LEMMA LineBeginsExactly ==
  ASSUME ShapeInv, Plain(call), LineBegins
  PROVE  (SimpleLoop /\ (\A i \in DOMAIN todo : Simple(todo[i])) /\ Exact)'
<1> DEFINE q == Head(todo)
<1>1. /\ cur = NoLoop /\ todo # <<>> /\ q.op = "line" /\ cur' = LineLoop(q)
      /\ todo' = Tail(todo) /\ UNCHANGED <<pixels, call>>
  BY DEF LineBegins, Begins
<1>2. Simple(q) /\ \A i \in DOMAIN Tail(todo) : Simple(Tail(todo)[i])
  BY <1>1, TailIsSimple DEF ShapeInv, LoopInv, Painting
<1>3. \A r : Simple(r)' <=> Simple(r)
  BY <1>1 DEF Simple
<1>4. /\ cur'.op = "line" /\ cur'.c = q.c /\ cur'.x = q.x1 /\ cur'.y = q.y1
      /\ cur'.x1 = q.x1 /\ cur'.y1 = q.y1 /\ cur'.x2 = q.x2 /\ cur'.y2 = q.y2
  BY <1>1 DEF LineLoop, LineAt
<1>5. SimpleLoop'
  BY <1>1, <1>2, <1>4 DEF SimpleLoop, Simple
<1>6. \A k \in Shades : LoopPixels(k)' = PartPixels(q, k)
  BY <1>1, <1>4 DEF LoopPixels, PartPixels
<1> HIDE DEF q
<1>7. Exact'
  BY <1>1, <1>6, BeginKeepsExact DEF q
<1> QED
  BY <1>1, <1>2, <1>3, <1>5, <1>7

\* A turn of a loop: what it paints is no longer ahead in the loop.
LEMMA LoopKeepsExact ==
  ASSUME ShapeInv, Plain(call), UNCHANGED <<call, todo>>, NEW S, NEW c \in Shades,
         \A p \in Grid : pixels'[p] = IF p \in S THEN c ELSE pixels[p],
         S \subseteq LoopPixels(c),
         \A k \in Shades : LoopPixels(k)' \subseteq LoopPixels(k),
         \A k \in Shades : \A p \in LoopPixels(k) : p \in LoopPixels(k)' \/ (k = c /\ p \in S)
  PROVE  Exact'
<1> DEFINE rest(k) == UNION {PartPixels(todo[i], k) : i \in DOMAIN todo}
<1>1. \A k : Ahead(k) = LoopPixels(k) \cup rest(k) /\ Ahead(k)' = LoopPixels(k)' \cup rest(k)
  BY DEF Ahead
<1> HIDE DEF rest
<1>2. Exact
  BY DEF ShapeInv, Painting
<1>3. \A p \in S : p \in Ahead(c)
  BY <1>1
<1>4. \A k \in Shades : Ahead(k)' \subseteq Ahead(k)
  BY <1>1
<1>5. \A k \in Shades : \A p \in Ahead(k) : p \in Ahead(k)' \/ (k = c /\ p \in S)
  BY <1>1
<1> QED
  BY <1>2, <1>3, <1>4, <1>5, ExactKept

\* Such a line paints a pixel and leaves the rest of the span ahead.
LEMMA LineStepsExactly ==
  ASSUME ShapeInv, Plain(call), LineStep
  PROVE  (SimpleLoop /\ (\A i \in DOMAIN todo : Simple(todo[i])) /\ Exact)'
<1> DEFINE S == {<<cur.x, cur.y>>}
           ends == cur.x = cur.x2 /\ cur.y = cur.y2
           span == Span(cur.x, cur.y, cur.x2, cur.y2)
           next == Span(LineNext(cur).x, LineNext(cur).y, cur.x2, cur.y2)
<1>1. /\ cur.op = "line" /\ LineInv(cur) /\ cur.c \in Shades /\ (cur.x1 = cur.x2 \/ cur.y1 = cur.y2)
      /\ UNCHANGED <<call, todo>>
      /\ cur' = IF ends THEN NoLoop ELSE LineNext(cur)
  BY DEF LineStep, ShapeInv, LoopInv, Painting, SimpleLoop
<1>2. /\ LineNext(cur).op = "line" /\ LineNext(cur).c = cur.c
      /\ LineNext(cur).x1 = cur.x1 /\ LineNext(cur).y1 = cur.y1
      /\ LineNext(cur).x2 = cur.x2 /\ LineNext(cur).y2 = cur.y2
  BY DEF LineNext, LineAt
<1>3. SimpleLoop'
  BY <1>1, <1>2 DEF SimpleLoop, NoLoop
<1>4. (\A i \in DOMAIN todo : Simple(todo[i]))'
  BY <1>1 DEF ShapeInv, Painting, Simple
<1>5. \A p \in Grid : pixels'[p] = IF p \in S THEN cur.c ELSE pixels[p]
  BY DEF LineStep, Put
<1>6. /\ <<cur.x, cur.y>> \in span
      /\ ends => span = S
      /\ ~ends => span = S \cup next
  BY <1>1, StraightTurn
<1>7. \A k : LoopPixels(k) = IF k = cur.c THEN span ELSE {}
  BY <1>1 DEF LoopPixels
<1>8. \A k : LoopPixels(k)' = IF k = cur.c /\ ~ends THEN next ELSE {}
  BY <1>1, <1>2 DEF LoopPixels, NoLoop
<1> HIDE DEF S, ends, span, next
<1>9. /\ S \subseteq LoopPixels(cur.c)
      /\ \A k \in Shades : LoopPixels(k)' \subseteq LoopPixels(k)
      /\ \A k \in Shades : \A p \in LoopPixels(k) : p \in LoopPixels(k)' \/ (k = cur.c /\ p \in S)
  BY <1>6, <1>7, <1>8 DEF S
<1>10. Exact'
  BY <1>1, <1>5, <1>9, LoopKeepsExact
<1> QED
  BY <1>3, <1>4, <1>10

\* A text begins at its first byte.
LEMMA TextBeginsExactly ==
  ASSUME ShapeInv, Plain(call), TextBegins
  PROVE  (SimpleLoop /\ (\A i \in DOMAIN todo : Simple(todo[i])) /\ Exact)'
<1> DEFINE q == Head(todo)  B == DOMAIN Glyph \cup {"newline", "other"}
<1>1. /\ cur = NoLoop /\ todo # <<>> /\ q.op = "text" /\ cur' = TextAt(q.x, q.x, q.y, q.text)
      /\ todo' = Tail(todo) /\ UNCHANGED <<pixels, call>>
  BY DEF TextBegins, Begins
<1>2. Simple(q) /\ \A i \in DOMAIN Tail(todo) : Simple(Tail(todo)[i])
  BY <1>1, TailIsSimple DEF ShapeInv, LoopInv, Painting
<1>3. \A r : Simple(r)' <=> Simple(r)
  BY <1>1 DEF Simple
<1>4. q = call /\ call.op = "text"
  BY <1>1, <1>2 DEF Simple
<1>5. call.x \in Int /\ call.y \in Int /\ call.text \in Seq(B)
  BY <1>4, CallFields, TextsAreBytes DEF ShapeInv
<1>6. CellX(call, 1) = call.x /\ CellY(call, 1) = call.y
  BY <1>5, PenMoves
<1>7. /\ cur'.op = "text" /\ cur'.x = call.x /\ cur'.curX = call.x /\ cur'.y = call.y
      /\ cur'.rest = call.text
  BY <1>1, <1>4 DEF TextAt
<1>8. Byte' = 1 /\ 1 \in 1..Len(call.text) + 1 /\ call.text = SubSeq(call.text, 1, Len(call.text))
  BY <1>1, <1>5, <1>7 DEF Byte
<1>9. SimpleLoop'
  BY <1>1, <1>4, <1>6, <1>7, <1>8 DEF SimpleLoop
<1>10. \A k \in Shades : LoopPixels(k)' = PartPixels(q, k)
  BY <1>1, <1>4, <1>7, <1>8 DEF LoopPixels, PartPixels
<1> HIDE DEF q
<1>11. Exact'
  BY <1>1, <1>10, BeginKeepsExact DEF q
<1> QED
  BY <1>1, <1>2, <1>3, <1>9, <1>11

\* A text draws a letter, or moves the pen, and leaves the later letters ahead.
LEMMA TextStepsExactly ==
  ASSUME ShapeInv, Plain(call), TextStep
  PROVE  (SimpleLoop /\ (\A i \in DOMAIN todo : Simple(todo[i])) /\ Exact)'
<1> DEFINE t == call.text  n == Byte  B == DOMAIN Glyph \cup {"newline", "other"}
<1>1. /\ cur.op = "text" /\ call.op = "text" /\ UNCHANGED <<call, todo>>
      /\ n \in 1..Len(t) + 1 /\ cur.rest = SubSeq(t, n, Len(t))
      /\ cur.x = call.x /\ cur.curX = CellX(call, n) /\ cur.y = CellY(call, n)
  BY DEF TextStep, ShapeInv, Painting, SimpleLoop
<1>2. call.x \in Int /\ call.y \in Int /\ t \in Seq(B) /\ "newline" \notin DOMAIN Glyph
  BY <1>1, CallFields, TextsAreBytes DEF ShapeInv
<1>3. (\A i \in DOMAIN todo : Simple(todo[i]))'
  BY <1>1 DEF ShapeInv, Painting, Simple
<1>4. \A k : LoopPixels(k) = IF k = Ink THEN TextFrom(call, n) ELSE {}
  BY <1>1 DEF LoopPixels
<1>5. Ink \in Shades /\ Len(t) \in Nat
  BY <1>2 DEF Ink, Shades
<1> HIDE DEF n, t
<1>6. CASE cur.rest = <<>>
  <2>1. cur' = NoLoop /\ UNCHANGED pixels
    BY <1>6 DEF TextStep
  <2>2. n = Len(t) + 1
    BY <1>1, <1>2, <1>6, SuffixLaws
  <2>3. TextFrom(call, n) = {}
    <3>1. CASE t = <<>>
      <4>1. n..Len(t) = {}
        BY <1>5, <2>2
      <4> QED
        BY <4>1 DEF TextFrom, t
    <3>2. CASE t # <<>>
      <4>1. 1 \in 1..Len(t)
        BY <1>2, <3>2, EmptySeq
      <4> QED
        BY <1>2, <2>2, <4>1, TextSplits DEF t
    <3> QED
      BY <3>1, <3>2
  <2>4. SimpleLoop'
    BY <2>1 DEF SimpleLoop, NoLoop
  <2>5. \A k : LoopPixels(k) = {} /\ LoopPixels(k)' = {}
    BY <1>4, <2>1, <2>3 DEF LoopPixels, NoLoop
  <2>6. Exact'
    <3> DEFINE S == {}
    <3>1. \A p \in Grid : pixels'[p] = IF p \in S THEN Ink ELSE pixels[p]
      BY <2>1
    <3>2. /\ S \subseteq LoopPixels(Ink)
          /\ \A k \in Shades : LoopPixels(k)' \subseteq LoopPixels(k)
          /\ \A k \in Shades : \A p \in LoopPixels(k) : p \in LoopPixels(k)' \/ (k = Ink /\ p \in S)
      BY <2>5
    <3> HIDE DEF S
    <3> QED
      BY <1>1, <1>5, <3>1, <3>2, LoopKeepsExact, ZenonT(60)
  <2> QED
    BY <1>3, <2>4, <2>6
<1>7. CASE cur.rest # <<>>
  <2>1. /\ n \in 1..Len(t) /\ Head(cur.rest) = t[n] /\ Tail(cur.rest) = SubSeq(t, n + 1, Len(t))
        /\ Len(t) - Len(Tail(cur.rest)) + 1 = n + 1
    <3>1. /\ cur.rest = <<>> <=> n = Len(t) + 1
          /\ n <= Len(t) => /\ Head(cur.rest) = t[n] /\ Tail(cur.rest) = SubSeq(t, n + 1, Len(t))
                            /\ Len(t) - Len(Tail(cur.rest)) + 1 = n + 1
      BY <1>1, <1>2, SuffixLaws, ZenonT(60)
    <3>2. n \in 1..Len(t)
      BY <1>1, <1>5, <1>7, <3>1
    <3>3. n <= Len(t)
      BY <1>5, <3>2
    <3> QED
      BY <3>1, <3>2, <3>3, Zenon
  <2>2. TextFrom(call, n) = Char(cur.curX, cur.y, t[n]) \cup TextFrom(call, n + 1)
    BY <1>1, <1>2, <2>1, TextSplits DEF t
  <2>3. /\ CellX(call, n) \in Int /\ CellY(call, n) \in Int
        /\ IF t[n] = "newline"
             THEN CellX(call, n + 1) = call.x /\ CellY(call, n + 1) = CellY(call, n) + 8
             ELSE CellX(call, n + 1) = CellX(call, n) + 8 /\ CellY(call, n + 1) = CellY(call, n)
    BY <1>2, <2>1, PenMoves DEF t
  <2>4. /\ cur'.op = "text" /\ cur'.x = call.x
        /\ cur'.curX = CellX(call, n + 1) /\ cur'.y = CellY(call, n + 1)
        /\ cur'.rest = Tail(cur.rest)
    <3>1. /\ t[n] = "newline" => cur' = TextAt(cur.x, cur.x, cur.y + 8, Tail(cur.rest))
          /\ t[n] # "newline" => cur' = TextAt(cur.x, cur.curX + 8, cur.y, Tail(cur.rest))
      BY <1>7, <2>1 DEF TextStep
    <3>2. \A a, b, d, s : LET m == TextAt(a, b, d, s)
                         IN m.op = "text" /\ m.x = a /\ m.curX = b /\ m.y = d /\ m.rest = s
      BY DEF TextAt
    <3>3. cur.x = call.x /\ cur.curX = CellX(call, n) /\ cur.y = CellY(call, n)
      BY <1>1
    <3>4. CASE t[n] = "newline"
      <4>1. cur' = TextAt(cur.x, cur.x, cur.y + 8, Tail(cur.rest))
        BY <3>1, <3>4
      <4>2. CellX(call, n + 1) = call.x /\ CellY(call, n + 1) = CellY(call, n) + 8
        BY <2>3, <3>4
      <4> QED
        BY <3>2, <3>3, <4>1, <4>2
    <3>5. CASE t[n] # "newline"
      <4>1. cur' = TextAt(cur.x, cur.curX + 8, cur.y, Tail(cur.rest))
        BY <3>1, <3>5
      <4>2. CellX(call, n + 1) = CellX(call, n) + 8 /\ CellY(call, n + 1) = CellY(call, n)
        BY <2>3, <3>5
      <4> QED
        BY <3>2, <3>3, <4>1, <4>2
    <3> QED
      BY <3>2, <3>3, <3>4, <3>5
  <2>5. Byte' = n + 1
    BY <1>1, <2>1, <2>4 DEF Byte, t
  <2>6. n + 1 \in 1..Len(t) + 1
    BY <1>5, <2>1
  <2>7. SimpleLoop'
    BY <1>1, <2>1, <2>4, <2>5, <2>6 DEF SimpleLoop, t
  <2>8. \A k : LoopPixels(k)' = IF k = Ink THEN TextFrom(call, n + 1) ELSE {}
    BY <1>1, <2>4, <2>5 DEF LoopPixels
  <2> DEFINE S == Char(cur.curX, cur.y, t[n])
  <2>9. \A p \in Grid : pixels'[p] = IF p \in S THEN Ink ELSE pixels[p]
    <3>1. CASE t[n] = "newline"
      BY <1>2, <1>7, <2>1, <3>1 DEF TextStep, Char
    <3>2. CASE t[n] # "newline"
      BY <1>7, <2>1, <3>2 DEF TextStep, Put
    <3> QED
      BY <3>1, <3>2
  <2> HIDE DEF S
  <2>10. /\ S \subseteq LoopPixels(Ink)
         /\ \A k \in Shades : LoopPixels(k)' \subseteq LoopPixels(k)
         /\ \A k \in Shades : \A p \in LoopPixels(k) : p \in LoopPixels(k)' \/ (k = Ink /\ p \in S)
    BY <1>4, <2>2, <2>8 DEF S
  <2>11. Exact'
    BY <1>1, <1>5, <2>9, <2>10, LoopKeepsExact, ZenonT(60)
  <2> QED
    BY <1>3, <2>7, <2>11
<1> QED
  BY <1>6, <1>7

\* A part of single pixels is painted at once.
LEMMA PixelsPaintExactly ==
  ASSUME ShapeInv, Plain(call), PaintPixels
  PROVE  (SimpleLoop /\ (\A i \in DOMAIN todo : Simple(todo[i])) /\ Exact)'
<1> DEFINE q == Head(todo)  S == q.at  c == q.c
<1>1. /\ cur = NoLoop /\ todo # <<>> /\ q.op = "pixels" /\ Put(q.at, q.c)
      /\ todo' = Tail(todo) /\ UNCHANGED <<call, cur>>
  BY DEF PaintPixels, Begins
<1>2. Simple(q) /\ \A i \in DOMAIN Tail(todo) : Simple(Tail(todo)[i])
  BY <1>1, TailIsSimple DEF ShapeInv, LoopInv, Painting
<1>3. \A r : Simple(r)' <=> Simple(r)
  BY <1>1 DEF Simple
<1>4. SimpleLoop'
  BY <1>1 DEF SimpleLoop, NoLoop
<1>5. c \in Shades
  BY <1>1, <1>2 DEF Simple
<1>6. \A p \in Grid : pixels'[p] = IF p \in S THEN c ELSE pixels[p]
  BY <1>1 DEF Put
<1>7. \A k : LoopPixels(k)' = {}
  BY <1>1 DEF LoopPixels, NoLoop
<1>8. \A k : PartPixels(q, k) = IF k = c THEN S ELSE {}
  BY <1>1 DEF PartPixels
<1> HIDE DEF S, c
<1>9. /\ S \subseteq PartPixels(q, c)
      /\ \A k \in Shades : LoopPixels(k)' \subseteq PartPixels(q, k)
      /\ \A k \in Shades : \A p \in PartPixels(q, k) : p \in LoopPixels(k)' \/ (k = c /\ p \in S)
  BY <1>7, <1>8
<1> HIDE DEF q
<1>10. Exact'
  BY <1>1, <1>5, <1>6, <1>9, BeginPaintsExactly, ZenonT(60) DEF q
<1> QED
  BY <1>1, <1>2, <1>3, <1>4, <1>10

-----------------------------------------------------------------------------
\* The turns of a circle's loop after the one at x.
Later(q, x) == UNION {Turned(q, a) : a \in {a \in Turns(q.r) : a > x}}

\* A turn takes its pixels from those that are left; the last one leaves none.
LEMMA TurnGoesOn ==
  ASSUME NEW q, q.r \in Nat, NEW x \in Turns(q.r)
  PROVE  /\ Rim(q.r)[x] \in Int /\ x \in Nat
         /\ Rim(q.r)[x] >= x =>
              /\ x + 1 \in Turns(q.r) /\ x + 1 \in Nat
              /\ Rim(q.r)[x + 1] = RimStep(x, Rim(q.r)[x], q.r)
              /\ Later(q, x) = Turned(q, x + 1) \cup Later(q, x + 1)
         /\ Rim(q.r)[x] < x => Later(q, x) = {}
<1> DEFINE r == q.r
<1>1. /\ x \in Nat /\ x <= r + 1 /\ Rim(r)[x] \in Int /\ Rim(r)[x] <= r
      /\ \A a \in Turns(r) : a \in Nat /\ (x < a => Rim(r)[x] >= x)
  BY RimTurns, RimLaws
<1>2. ASSUME Rim(r)[x] >= x
      PROVE  /\ x + 1 \in Turns(r) /\ x \in 0..r
  <2>1. x \in 0..r /\ x + 1 \in 0..(r+1)
    BY <1>1, <1>2
  <2>2. \A a \in 0..(x+1-1) : Rim(r)[a] >= a
    <3>1. \A a \in 0..(x-1) : Rim(r)[a] >= a
      BY DEF Turns
    <3>2. \A a \in 0..(x+1-1) : a = x \/ a \in 0..(x-1)
      BY <1>1
    <3> QED
      BY <1>2, <3>1, <3>2
  <2> QED
    BY <2>1, <2>2 DEF Turns
<1>3. Rim(r)[x] >= x => Rim(r)[x + 1] = RimStep(x, Rim(r)[x], r)
  BY <1>2, RimUnfolds
<1> HIDE DEF r
<1>4. ASSUME Rim(r)[x] >= x
      PROVE  {a \in Turns(r) : a > x} = {x + 1} \cup {a \in Turns(r) : a > x + 1}
  <2>1. \A a \in Turns(r) : a \in Nat /\ (a > x <=> a = x + 1 \/ a > x + 1)
    BY <1>1
  <2> QED
    BY <1>2, <1>4, <2>1
<1>5. ASSUME Rim(r)[x] < x PROVE {a \in Turns(r) : a > x} = {}
  <2>1. \A a \in Turns(r) : ~(a > x)
    BY <1>1, <1>5
  <2> QED
    BY <2>1
<1> QED
  BY <1>1, <1>2, <1>3, <1>4, <1>5 DEF Later, r

\* What a turn paints depends on the centre, the radius and the filling only.
LEMMA SameTurned ==
  ASSUME NEW q, NEW m, m.cx = q.cx, m.cy = q.cy, m.r = q.r, m.fill = q.fill
  PROVE  /\ \A x : Turned(m, x) = Turned(q, x)
         /\ \A x : Later(m, x) = Later(q, x)
         /\ m.y = Rim(q.r)[m.x] => Octants(m) = Turned(q, m.x)
<1>1. \A x : Turned(m, x) = Turned(q, x)
  BY DEF Turned, Octants, CircleAt
<1>2. \A x : Later(m, x) = Later(q, x)
  BY <1>1 DEF Later
<1>3. m.y = Rim(q.r)[m.x] => Octants(m) = Turned(q, m.x)
  BY DEF Turned, Octants, CircleAt
<1> QED
  BY <1>1, <1>2, <1>3

\* A circle begins at the top: the pixels of all turns but the first are ahead.
LEMMA CircleBeginsExactly ==
  ASSUME ShapeInv, Plain(call), CircleBegins
  PROVE  (SimpleLoop /\ (\A i \in DOMAIN todo : Simple(todo[i])) /\ Exact)'
<1> DEFINE q == Head(todo)
<1>1. /\ cur = NoLoop /\ todo # <<>> /\ q.op = "circle" /\ q \in CircleParts
      /\ todo' = Tail(todo) /\ call' = call
  BY HeadIsPart DEF CircleBegins, Begins, ShapeInv, LoopInv
<1>2. Simple(q) /\ \A i \in DOMAIN Tail(todo) : Simple(Tail(todo)[i])
  BY <1>1, TailIsSimple DEF ShapeInv, LoopInv, Painting
<1>3. \A r : Simple(r)' <=> Simple(r)
  BY <1>1 DEF Simple
<1>4. \A k : PartPixels(q, k) = IF k = Ink THEN CirclePixels(q) ELSE {}
  BY <1>1 DEF PartPixels
<1>5. CASE q.r < 0
  <2>1. UNCHANGED <<pixels, cur>>
    BY <1>5 DEF CircleBegins
  <2>2. SimpleLoop'
    BY <1>1, <2>1 DEF SimpleLoop, NoLoop
  <2>3. \A k : LoopPixels(k)' = PartPixels(q, k)
    BY <1>1, <1>4, <1>5, <2>1 DEF LoopPixels, CirclePixels, NoLoop
  <2> HIDE DEF q
  <2>4. Exact'
    BY <1>1, <2>1, <2>3, BeginKeepsExact DEF q
  <2> QED
    BY <1>1, <1>2, <1>3, <2>2, <2>4
<1>6. CASE ~(q.r < 0)
  <2> DEFINE S == Octants(CircleLoop(q))
  <2>1. q.r \in Nat /\ cur' = CircleLoop(q) /\ Put(S, Ink)
    BY <1>1, <1>6 DEF CircleBegins, CircleParts
  <2>2. /\ cur'.op = "circle" /\ cur'.x = 0 /\ cur'.y = q.r /\ cur'.r = q.r
        /\ cur'.cx = q.cx /\ cur'.cy = q.cy /\ cur'.fill = q.fill
    BY <2>1 DEF CircleLoop, CircleAt
  <2>3. 0 \in Turns(q.r) /\ Rim(q.r)[0] = q.r /\ \A a \in Turns(q.r) : a = 0 \/ a > 0
    BY <2>1, RimUnfolds, RimTurns DEF Turns
  <2>4. SimpleLoop'
    BY <2>2, <2>3 DEF SimpleLoop
  <2>5. S = Turned(q, 0)
    BY <2>1, <2>2, <2>3, SameTurned
  <2>6. \A k : LoopPixels(k)' = IF k = Ink THEN Later(q, 0) ELSE {}
    <3>1. Later(cur', 0) = Later(q, 0)
      BY <2>2, SameTurned
    <3> QED
      BY <2>2, <3>1 DEF LoopPixels, Later
  <2>7. CirclePixels(q) = Turned(q, 0) \cup Later(q, 0)
    BY <1>6, <2>3 DEF CirclePixels, Later
  <2>8. \A p \in Grid : pixels'[p] = IF p \in S THEN Ink ELSE pixels[p]
    BY <2>1 DEF Put
  <2> HIDE DEF S
  <2>9. /\ S \subseteq PartPixels(q, Ink) /\ Ink \in Shades
        /\ \A k \in Shades : LoopPixels(k)' \subseteq PartPixels(q, k)
        /\ \A k \in Shades : \A p \in PartPixels(q, k) : p \in LoopPixels(k)' \/ (k = Ink /\ p \in S)
    BY <1>4, <2>5, <2>6, <2>7 DEF Ink, Shades
  <2> HIDE DEF q
  <2>10. Exact'
    BY <1>1, <2>8, <2>9, BeginPaintsExactly, ZenonT(60) DEF q
  <2> QED
    BY <1>1, <1>2, <1>3, <2>4, <2>10
<1> QED
  BY <1>5, <1>6

\* A circle takes a turn.
LEMMA CircleStepsExactly ==
  ASSUME ShapeInv, Plain(call), CircleStep
  PROVE  (SimpleLoop /\ (\A i \in DOMAIN todo : Simple(todo[i])) /\ Exact)'
<1> DEFINE x == cur.x  r == cur.r
<1>1. /\ cur.op = "circle" /\ UNCHANGED <<call, todo>> /\ CircleInv(cur)
      /\ x \in Turns(r) /\ cur.y = Rim(r)[x]
  BY DEF CircleStep, ShapeInv, LoopInv, Painting, SimpleLoop
<1>2. /\ r \in Nat /\ cur.y \in Int /\ cur.d = Slack(x, cur.y, r) /\ cur.d \in Int
  BY <1>1 DEF CircleInv, CircleLoops, Drift
<1>3. (\A i \in DOMAIN todo : Simple(todo[i]))'
  BY <1>1 DEF ShapeInv, Painting, Simple
<1>4. \A k : LoopPixels(k) = IF k = Ink THEN Later(cur, x) ELSE {}
  BY <1>1 DEF LoopPixels, Later
<1>5. Ink \in Shades
  BY DEF Ink, Shades
<1>6. CASE cur.y >= x
  <2> DEFINE m == CircleNext(cur)  S == Octants(m)
  <2>1. cur' = m /\ Put(S, Ink)
    BY <1>6 DEF CircleStep
  <2>2. /\ m.op = "circle" /\ m.cx = cur.cx /\ m.cy = cur.cy /\ m.r = r /\ m.fill = cur.fill
        /\ m.x = x + 1 /\ m.y = IF cur.d > 0 THEN cur.y - 1 ELSE cur.y
    BY DEF CircleNext, CircleAt
  <2>3. /\ x + 1 \in Turns(r) /\ Rim(r)[x + 1] = RimStep(x, cur.y, r)
        /\ Later(cur, x) = Turned(cur, x + 1) \cup Later(cur, x + 1)
    BY <1>1, <1>2, <1>6, TurnGoesOn
  <2>4. m.y = Rim(r)[m.x]
    BY <1>2, <2>2, <2>3 DEF RimStep
  <2> HIDE DEF m
  <2>5. SimpleLoop'
    BY <2>1, <2>2, <2>3, <2>4 DEF SimpleLoop
  <2>6. S = Turned(cur, x + 1) /\ Later(m, x + 1) = Later(cur, x + 1)
    BY <2>2, <2>4, SameTurned
  <2>7. \A k : LoopPixels(k)' = IF k = Ink THEN Later(cur, x + 1) ELSE {}
    <3>1. \A k : LoopPixels(k)' = IF k = Ink THEN Later(m, m.x) ELSE {}
      BY <2>1, <2>2 DEF LoopPixels, Later
    <3> QED
      BY <2>2, <2>6, <3>1
  <2>8. \A p \in Grid : pixels'[p] = IF p \in S THEN Ink ELSE pixels[p]
    BY <2>1 DEF Put
  <2> HIDE DEF S, x, r
  <2>9. /\ S \subseteq LoopPixels(Ink)
        /\ \A k \in Shades : LoopPixels(k)' \subseteq LoopPixels(k)
        /\ \A k \in Shades : \A p \in LoopPixels(k) : p \in LoopPixels(k)' \/ (k = Ink /\ p \in S)
    BY <1>4, <2>3, <2>6, <2>7
  <2>10. Exact'
    BY <1>1, <1>5, <2>8, <2>9, LoopKeepsExact
  <2> QED
    BY <1>3, <2>5, <2>10
<1>7. CASE ~(cur.y >= x)
  <2>1. cur' = NoLoop /\ UNCHANGED pixels
    BY <1>7 DEF CircleStep
  <2>2. Later(cur, x) = {}
    <3>1. x \in Nat
      BY <1>1, <1>2, TurnGoesOn
    <3>2. Rim(r)[x] < x
      BY <1>1, <1>2, <1>7, <3>1
    <3> QED
      BY <1>1, <1>2, <3>2, TurnGoesOn
  <2>3. SimpleLoop'
    BY <2>1 DEF SimpleLoop, NoLoop
  <2>4. \A k : LoopPixels(k) = {} /\ LoopPixels(k)' = {}
    BY <1>4, <2>1, <2>2 DEF LoopPixels, NoLoop
  <2> DEFINE S == {}
  <2>5. \A p \in Grid : pixels'[p] = IF p \in S THEN Ink ELSE pixels[p]
    BY <2>1
  <2>6. /\ S \subseteq LoopPixels(Ink)
        /\ \A k \in Shades : LoopPixels(k)' \subseteq LoopPixels(k)
        /\ \A k \in Shades : \A p \in LoopPixels(k) : p \in LoopPixels(k)' \/ (k = Ink /\ p \in S)
    BY <2>4
  <2> HIDE DEF S
  <2>7. Exact'
    BY <1>1, <1>5, <2>5, <2>6, LoopKeepsExact
  <2> QED
    BY <1>3, <2>3, <2>7
<1> QED
  BY <1>6, <1>7

-----------------------------------------------------------------------------
(***************************************************************************)
(* The calls begin with it.                                                *)
(***************************************************************************)

\* A call whose parts paint what it wants begins exactly.
LEMMA DrawsExactly ==
  ASSUME CallInv, NEW c, NEW parts, Draw(c, parts),
         Plain(c) => /\ \A i \in DOMAIN parts : Simple(parts[i])'
                     /\ \A k \in Shades : UNION {PartPixels(parts[i], k) : i \in DOMAIN parts}
                                            = Wanted(c, k)
  PROVE  Painting'
<1>1. /\ call' = c /\ todo' = parts /\ cur' = NoLoop /\ pixels' = Cleared
  BY DEF CallInv, Draw
<1> SUFFICES ASSUME Plain(c)
             PROVE  (SimpleLoop /\ (\A i \in DOMAIN todo : Simple(todo[i])) /\ Exact)'
  BY <1>1 DEF Painting
<1>2. SimpleLoop'
  BY <1>1 DEF SimpleLoop, NoLoop
<1>3. (\A i \in DOMAIN todo : Simple(todo[i]))'
  BY <1>1
<1>4. Painted' = {}
  BY <1>1 DEF Painted, Cleared
<1>5. \A k \in Shades : Ahead(k)' = Wanted(c, k)
  BY <1>1 DEF Ahead, LoopPixels, NoLoop
<1>6. Exact'
  BY <1>1, <1>4, <1>5 DEF Exact
<1> QED
  BY <1>2, <1>3, <1>6

\* What a sequence of one, two, four and eight parts paints.
LEMMA OnePart ==
  ASSUME NEW q, NEW k
  PROVE  /\ DOMAIN <<q>> = {1} /\ <<q>>[1] = q
         /\ UNION {PartPixels(<<q>>[i], k) : i \in DOMAIN <<q>>} = PartPixels(q, k)
<1>1. DOMAIN <<q>> = {1} /\ <<q>>[1] = q
  OBVIOUS
<1> QED
  BY <1>1

LEMMA TwoParts ==
  ASSUME NEW q1, NEW q2, NEW k
  PROVE  /\ DOMAIN <<q1, q2>> = {1, 2} /\ <<q1, q2>>[1] = q1 /\ <<q1, q2>>[2] = q2
         /\ UNION {PartPixels(<<q1, q2>>[i], k) : i \in DOMAIN <<q1, q2>>}
              = PartPixels(q1, k) \cup PartPixels(q2, k)
<1>1. DOMAIN <<q1, q2>> = {1, 2} /\ <<q1, q2>>[1] = q1 /\ <<q1, q2>>[2] = q2
  OBVIOUS
<1> QED
  BY <1>1

LEMMA FourParts ==
  ASSUME NEW q1, NEW q2, NEW q3, NEW q4, NEW k
  PROVE  LET s == <<q1, q2, q3, q4>>
         IN /\ DOMAIN s = {1, 2, 3, 4} /\ s[1] = q1 /\ s[2] = q2 /\ s[3] = q3 /\ s[4] = q4
            /\ UNION {PartPixels(s[i], k) : i \in DOMAIN s}
                 = PartPixels(q1, k) \cup PartPixels(q2, k) \cup PartPixels(q3, k) \cup PartPixels(q4, k)
<1> DEFINE s == <<q1, q2, q3, q4>>
<1>1. DOMAIN s = {1, 2, 3, 4} /\ s[1] = q1 /\ s[2] = q2 /\ s[3] = q3 /\ s[4] = q4
  OBVIOUS
<1> HIDE DEF s
<1> QED
  BY <1>1 DEF s

LEMMA EightParts ==
  ASSUME NEW q1, NEW q2, NEW q3, NEW q4, NEW q5, NEW q6, NEW q7, NEW q8, NEW k
  PROVE  LET s == <<q1, q2, q3, q4, q5, q6, q7, q8>>
         IN /\ \A i \in DOMAIN s : s[i] \in {q1, q2, q3, q4, q5, q6, q7, q8}
            /\ UNION {PartPixels(s[i], k) : i \in DOMAIN s}
                 = PartPixels(q1, k) \cup PartPixels(q2, k) \cup PartPixels(q3, k) \cup PartPixels(q4, k)
                     \cup PartPixels(q5, k) \cup PartPixels(q6, k) \cup PartPixels(q7, k) \cup PartPixels(q8, k)
<1> DEFINE s == <<q1, q2, q3, q4, q5, q6, q7, q8>>
<1>1. /\ DOMAIN s = {1, 2, 3, 4, 5, 6, 7, 8}
      /\ s[1] = q1 /\ s[2] = q2 /\ s[3] = q3 /\ s[4] = q4
      /\ s[5] = q5 /\ s[6] = q6 /\ s[7] = q7 /\ s[8] = q8
  OBVIOUS
<1> HIDE DEF s
<1> QED
  BY <1>1 DEF s

\* A call of one part of pixels in one colour.
LEMMA PixelsDraw ==
  ASSUME CallInv, NEW c, NEW S, Draw(c, <<Pixels(S, Ink)>>), c.op \notin {"gradient", "bitmap"},
         S = Solid(c), ~(c.op = "rounded" /\ ~c.fill /\ ~Empty(c.w, c.h)), c.op # "circle"
  PROVE  Painting'
<1> DEFINE q == Pixels(S, Ink)
<1>1. q.op = "pixels" /\ q.at = S /\ q.c = Ink
  BY DEF Pixels
<1>2. Simple(q)'
  BY <1>1 DEF Simple, Ink, Shades
<1>3. \A k : PartPixels(q, k) = Wanted(c, k)
  BY <1>1 DEF PartPixels, Wanted
<1> HIDE DEF q
<1>4. \A i \in DOMAIN <<q>> : Simple(<<q>>[i])'
  BY <1>2, OnePart
<1>5. \A k \in Shades : UNION {PartPixels(<<q>>[i], k) : i \in DOMAIN <<q>>} = Wanted(c, k)
  BY <1>3, OnePart
<1> QED
  BY <1>4, <1>5, DrawsExactly DEF q

\* A call without parts wants nothing.
LEMMA NothingDraws ==
  ASSUME CallInv, NEW c, Draw(c, <<>>), \A k \in Shades : Wanted(c, k) = {}
  PROVE  Painting'
<1>1. DOMAIN <<>> = {}
  OBVIOUS
<1> QED
  BY <1>1, DrawsExactly

\* The span of ends that are in order.
LEMMA SpanIsBox ==
  ASSUME NEW x1 \in Int, NEW y1 \in Int, NEW x2 \in Int, NEW y2 \in Int, x1 <= x2, y1 <= y2
  PROVE  Span(x1, y1, x2, y2) = (x1..x2) \X (y1..y2)
<1>1. Smaller(x1, x2) = x1 /\ Larger(x1, x2) = x2 /\ Smaller(y1, y2) = y1 /\ Larger(y1, y2) = y2
  BY DEF Smaller, Larger
<1> QED
  BY <1>1 DEF Span

\* canvas_draw_rect, filled or as four lines (lib.rs:310-325).
LEMMA RectDraws ==
  ASSUME CallInv, NEW x \in Int, NEW y \in Int, NEW w \in Int, NEW h \in Int, NEW fill \in BOOLEAN,
         DrawRect(x, y, w, h, fill)
  PROVE  Painting'
<1> DEFINE c == [op |-> "rect", x |-> x, y |-> y, w |-> w, h |-> h, fill |-> fill]
<1>1. /\ c.op = "rect" /\ c.x = x /\ c.y = y /\ c.w = w /\ c.h = h /\ c.fill = fill
  OBVIOUS
<1>2. Solid(c) = Box(x, y, w, h) \ (IF fill THEN {} ELSE Box(x + 1, y + 1, w - 2, h - 2))
  BY DEF Solid
<1>3. \A k : Wanted(c, k) = IF k = Ink THEN Solid(c) ELSE {}
  BY <1>1 DEF Wanted
<1>4. Draw(c, IF Empty(w, h) THEN <<>>
              ELSE IF fill THEN <<Pixels(Box(x, y, w, h), Ink)>>
              ELSE <<Line(x, y, x + w - 1, y, Ink),
                     Line(x, y + h - 1, x + w - 1, y + h - 1, Ink),
                     Line(x, y, x, y + h - 1, Ink),
                     Line(x + w - 1, y, x + w - 1, y + h - 1, Ink)>>)
  BY DEF DrawRect
<1> HIDE DEF c
<1>5. CASE Empty(w, h)
  <2>1. Box(x, y, w, h) = {}
    BY <1>5 DEF Box, Empty
  <2> QED
    BY <1>2, <1>3, <1>4, <1>5, <2>1, NothingDraws
<1>6. CASE ~Empty(w, h) /\ fill
  BY <1>1, <1>2, <1>4, <1>6, PixelsDraw
<1>7. CASE ~Empty(w, h) /\ ~fill
  <2> DEFINE q1 == Line(x, y, x + w - 1, y, Ink)
             q2 == Line(x, y + h - 1, x + w - 1, y + h - 1, Ink)
             q3 == Line(x, y, x, y + h - 1, Ink)
             q4 == Line(x + w - 1, y, x + w - 1, y + h - 1, Ink)
             s == <<q1, q2, q3, q4>>
             frame == ((x..(x + w - 1)) \X {y}) \cup ((x..(x + w - 1)) \X {y + h - 1})
                        \cup ({x} \X (y..(y + h - 1))) \cup ({x + w - 1} \X (y..(y + h - 1)))
  <2>1. w > 0 /\ h > 0
    BY <1>7 DEF Empty
  <2>2. Simple(q1)' /\ Simple(q2)' /\ Simple(q3)' /\ Simple(q4)'
    BY DEF Simple, Line, Ink, Shades
  <2>3. /\ \A k : PartPixels(q1, k) = IF k = Ink THEN Span(x, y, x + w - 1, y) ELSE {}
        /\ \A k : PartPixels(q2, k) = IF k = Ink THEN Span(x, y + h - 1, x + w - 1, y + h - 1) ELSE {}
        /\ \A k : PartPixels(q3, k) = IF k = Ink THEN Span(x, y, x, y + h - 1) ELSE {}
        /\ \A k : PartPixels(q4, k) = IF k = Ink THEN Span(x + w - 1, y, x + w - 1, y + h - 1) ELSE {}
    BY DEF PartPixels, Line
  <2>4. /\ x + w - 1 \in Int /\ y + h - 1 \in Int /\ x <= x + w - 1 /\ y <= y + h - 1
    BY <2>1
  <2>5. /\ Span(x, y, x + w - 1, y) = (x..(x + w - 1)) \X (y..y)
        /\ Span(x, y + h - 1, x + w - 1, y + h - 1) = (x..(x + w - 1)) \X ((y + h - 1)..(y + h - 1))
        /\ Span(x, y, x, y + h - 1) = (x..x) \X (y..(y + h - 1))
        /\ Span(x + w - 1, y, x + w - 1, y + h - 1) = ((x + w - 1)..(x + w - 1)) \X (y..(y + h - 1))
    <3>1. x <= x /\ y <= y /\ x + w - 1 <= x + w - 1 /\ y + h - 1 <= y + h - 1
      BY <2>4
    <3>0. \A a1, b1, a2, b2 \in Int : a1 <= a2 /\ b1 <= b2 => Span(a1, b1, a2, b2) = (a1..a2) \X (b1..b2)
      BY SpanIsBox
    <3>2. Span(x, y, x + w - 1, y) = (x..(x + w - 1)) \X (y..y)
      BY <2>4, <3>0, <3>1, SMTT(30)
    <3>3. Span(x, y + h - 1, x + w - 1, y + h - 1) = (x..(x + w - 1)) \X ((y + h - 1)..(y + h - 1))
      BY <2>4, <3>0, <3>1, SMTT(30)
    <3>4. Span(x, y, x, y + h - 1) = (x..x) \X (y..(y + h - 1))
      BY <2>4, <3>0, <3>1, SMTT(30)
    <3>5. Span(x + w - 1, y, x + w - 1, y + h - 1) = ((x + w - 1)..(x + w - 1)) \X (y..(y + h - 1))
      BY <2>4, <3>0, <3>1, SMTT(30)
    <3> QED
      BY <3>2, <3>3, <3>4, <3>5
  <2>6. \A a \in Int : a..a = {a}
    OBVIOUS
  <2>7. Span(x, y, x + w - 1, y) \cup Span(x, y + h - 1, x + w - 1, y + h - 1)
          \cup Span(x, y, x, y + h - 1) \cup Span(x + w - 1, y, x + w - 1, y + h - 1) = frame
    BY <2>4, <2>5, <2>6
  <2>8. frame = Box(x, y, w, h) \ Box(x + 1, y + 1, w - 2, h - 2)
    BY <2>1 DEF Box
  <2> HIDE DEF q1, q2, q3, q4, frame
  <2>9. \A i \in DOMAIN s : Simple(s[i])'
    BY <2>2, FourParts
  <2>10. \A k : UNION {PartPixels(s[i], k) : i \in DOMAIN s}
                  = PartPixels(q1, k) \cup PartPixels(q2, k) \cup PartPixels(q3, k) \cup PartPixels(q4, k)
    BY FourParts
  <2>11. \A k \in Shades : UNION {PartPixels(s[i], k) : i \in DOMAIN s} = Wanted(c, k)
    <3> TAKE k \in Shades
    <3>1. CASE k = Ink
      BY <1>2, <1>3, <1>7, <2>3, <2>7, <2>8, <2>10, <3>1
    <3>2. CASE k # Ink
      BY <1>3, <2>3, <2>10, <3>2
    <3> QED
      BY <3>1, <3>2
  <2>12. Draw(c, s)
    BY <1>4, <1>7 DEF q1, q2, q3, q4
  <2> HIDE DEF s
  <2> QED
    BY <2>9, <2>11, <2>12, DrawsExactly
<1> QED
  BY <1>5, <1>6, <1>7

\* canvas_draw_circle (lib.rs:378-418).
LEMMA CircleDraws ==
  ASSUME CallInv, NEW x, NEW y, NEW r, NEW fill, DrawCircle(x, y, r, fill)
  PROVE  Painting'
<1> DEFINE c == Circle(x, y, r, fill)
<1>1. c.op = "circle" /\ Draw(c, <<c>>)
  BY DEF DrawCircle, Circle
<1> HIDE DEF c
<1>2. Simple(c)'
  BY <1>1 DEF Simple, Draw
<1>3. \A k : PartPixels(c, k) = Wanted(c, k)
  BY <1>1 DEF PartPixels, Wanted
<1>4. \A i \in DOMAIN <<c>> : Simple(<<c>>[i])'
  BY <1>2, OnePart
<1>5. \A k \in Shades : UNION {PartPixels(<<c>>[i], k) : i \in DOMAIN <<c>>} = Wanted(c, k)
  BY <1>3, OnePart
<1> QED
  BY <1>1, <1>4, <1>5, DrawsExactly

\* The outline of canvas_draw_rounded_rect: four lines and four circles.
LEMMA OutlineDraws ==
  ASSUME CallInv, NEW x \in Int, NEW y \in Int, NEW w \in Int, NEW h \in Int, NEW r \in Int,
         ~Empty(w, h), DrawRoundedRect(x, y, w, h, r, FALSE)
  PROVE  Painting'
<1> DEFINE c == [op |-> "rounded", x |-> x, y |-> y, w |-> w, h |-> h, r |-> r, fill |-> FALSE]
           q1 == Line(x + r, y, x + w - r - 1, y, Ink)
           q2 == Line(x + r, y + h - 1, x + w - r - 1, y + h - 1, Ink)
           q3 == Line(x, y + r, x, y + h - r - 1, Ink)
           q4 == Line(x + w - 1, y + r, x + w - 1, y + h - r - 1, Ink)
           ring(a, b) == Circle(a, b, r, FALSE)
           q5 == ring(x + r, y + r)
           q6 == ring(x + w - r - 1, y + r)
           q7 == ring(x + r, y + h - r - 1)
           q8 == ring(x + w - r - 1, y + h - r - 1)
           s == <<q1, q2, q3, q4, q5, q6, q7, q8>>
           lines == Span(x + r, y, x + w - r - 1, y) \cup Span(x + r, y + h - 1, x + w - r - 1, y + h - 1)
                      \cup Span(x, y + r, x, y + h - r - 1) \cup Span(x + w - 1, y + r, x + w - 1, y + h - r - 1)
           rings == CirclePixels(q5) \cup CirclePixels(q6) \cup CirclePixels(q7) \cup CirclePixels(q8)
<1>1. Draw(c, s)
  BY DEF DrawRoundedRect
<1>2. /\ c.op = "rounded" /\ c.x = x /\ c.y = y /\ c.w = w /\ c.h = h /\ c.r = r /\ c.fill = FALSE
  OBVIOUS
<1>3. Edges(c) = lines
  <2>1. x + w - 1 - r = x + w - r - 1 /\ y + h - 1 - r = y + h - r - 1
    OBVIOUS
  <2> QED
    BY <2>1 DEF Edges
<1>4. Corners(c) = {x + r, x + w - r - 1} \X {y + r, y + h - r - 1}
  BY DEF Corners
<1>5. \A a, b : ring(a, b).op = "circle"
  BY DEF Circle
<1> HIDE DEF c
<1>6. UNION {CirclePixels(Circle(q[1], q[2], c.r, FALSE)) : q \in Corners(c)} = rings
  <2>1. \A q : CirclePixels(Circle(q[1], q[2], c.r, FALSE)) = CirclePixels(ring(q[1], q[2]))
    BY <1>2
  <2> HIDE DEF ring
  <2>2. \A p : (\E q \in Corners(c) : p \in CirclePixels(ring(q[1], q[2])))
          <=> \/ p \in CirclePixels(q5) \/ p \in CirclePixels(q6)
              \/ p \in CirclePixels(q7) \/ p \in CirclePixels(q8)
    <3> DEFINE on(p, a, b) == p \in CirclePixels(ring(a, b))
    <3>1. Corners(c) = {<<x + r, y + r>>, <<x + w - r - 1, y + r>>, <<x + r, y + h - r - 1>>,
                        <<x + w - r - 1, y + h - r - 1>>}
      BY <1>4
    <3> HIDE DEF on
    <3>2. \A p : (\E q \in Corners(c) : on(p, q[1], q[2]))
            <=> \/ on(p, x + r, y + r) \/ on(p, x + w - r - 1, y + r)
                \/ on(p, x + r, y + h - r - 1) \/ on(p, x + w - r - 1, y + h - r - 1)
      BY <3>1
    <3> QED
      BY <3>2 DEF on
  <2> HIDE DEF q5, q6, q7, q8
  <2> QED
    BY <2>1, <2>2
<1>7. /\ \A k : PartPixels(q1, k) = IF k = Ink THEN Span(x + r, y, x + w - r - 1, y) ELSE {}
      /\ \A k : PartPixels(q2, k) = IF k = Ink THEN Span(x + r, y + h - 1, x + w - r - 1, y + h - 1) ELSE {}
      /\ \A k : PartPixels(q3, k) = IF k = Ink THEN Span(x, y + r, x, y + h - r - 1) ELSE {}
      /\ \A k : PartPixels(q4, k) = IF k = Ink THEN Span(x + w - 1, y + r, x + w - 1, y + h - r - 1) ELSE {}
  BY DEF PartPixels, Line
<1>8. \A q \in {q5, q6, q7, q8} : \A k : PartPixels(q, k) = IF k = Ink THEN CirclePixels(q) ELSE {}
  BY <1>5 DEF PartPixels
<1>9. \A q \in {q1, q2, q3, q4} : Simple(q)'
  BY DEF Simple, Line, Ink, Shades
<1>10. \A q \in {q5, q6, q7, q8} : Simple(q)'
  BY <1>5 DEF Simple
<1>11. \A k : Wanted(c, k) = IF k = Ink THEN lines \cup rings ELSE {}
  BY <1>2, <1>3, <1>6 DEF Wanted
<1> HIDE DEF q1, q2, q3, q4, q5, q6, q7, q8
<1>12. \A i \in DOMAIN s : Simple(s[i])'
  BY <1>9, <1>10, EightParts
<1>13. \A k : UNION {PartPixels(s[i], k) : i \in DOMAIN s}
                = PartPixels(q1, k) \cup PartPixels(q2, k) \cup PartPixels(q3, k) \cup PartPixels(q4, k)
                    \cup PartPixels(q5, k) \cup PartPixels(q6, k) \cup PartPixels(q7, k) \cup PartPixels(q8, k)
  BY EightParts
<1> HIDE DEF s
<1>14. \A k \in Shades : UNION {PartPixels(s[i], k) : i \in DOMAIN s} = Wanted(c, k)
  <2> TAKE k \in Shades
  <2> HIDE DEF lines, rings
  <2>1. CASE k = Ink
    <3>1. /\ PartPixels(q1, k) \cup PartPixels(q2, k) \cup PartPixels(q3, k) \cup PartPixels(q4, k) = lines
          /\ PartPixels(q5, k) \cup PartPixels(q6, k) \cup PartPixels(q7, k) \cup PartPixels(q8, k) = rings
      BY <1>7, <1>8, <2>1 DEF lines, rings
    <3> QED
      BY <1>11, <1>13, <2>1, <3>1
  <2>2. CASE k # Ink
    <3>1. \A q \in {q1, q2, q3, q4, q5, q6, q7, q8} : PartPixels(q, k) = {}
      BY <1>7, <1>8, <2>2
    <3> QED
      BY <1>11, <1>13, <2>2, <3>1
  <2> QED
    BY <2>1, <2>2
<1> QED
  BY <1>1, <1>12, <1>14, DrawsExactly

\* canvas_draw_rounded_rect.
LEMMA RoundedDraws ==
  ASSUME CallInv, NEW x \in Int, NEW y \in Int, NEW w \in Int, NEW h \in Int, NEW r \in Int,
         NEW fill \in BOOLEAN, DrawRoundedRect(x, y, w, h, r, fill)
  PROVE  Painting'
<1> DEFINE c == [op |-> "rounded", x |-> x, y |-> y, w |-> w, h |-> h, r |-> r, fill |-> fill]
           S == {p \in Box(x, y, w, h) : InsideRoundedRect(p, x, y, w, h, r)}
<1>1. /\ c.op = "rounded" /\ c.x = x /\ c.y = y /\ c.w = w /\ c.h = h /\ c.r = r /\ c.fill = fill
  OBVIOUS
<1>2. Solid(c) = RoundedShape(c)
  BY DEF Solid
<1>3. fill \/ Empty(w, h) => \A k : Wanted(c, k) = IF k = Ink THEN Solid(c) ELSE {}
  BY <1>1 DEF Wanted
<1>4. CASE Empty(w, h)
  <2>1. Draw(c, <<>>)
    BY <1>4 DEF DrawRoundedRect
  <2>2. Box(x, y, w, h) = {}
    BY <1>4 DEF Box, Empty
  <2> HIDE DEF c
  <2>3. RoundedShape(c) = {}
    BY <1>1, <2>2 DEF RoundedShape
  <2> QED
    BY <1>2, <1>3, <1>4, <2>1, <2>3, NothingDraws
<1>5. CASE ~Empty(w, h) /\ fill
  <2>1. Draw(c, <<Pixels(S, Ink)>>)
    BY <1>5 DEF DrawRoundedRect
  <2> HIDE DEF c
  <2>2. S = RoundedShape(c)
    BY <1>1, RoundedAgree
  <2> HIDE DEF S
  <2> QED
    BY <1>1, <1>2, <1>5, <2>1, <2>2, PixelsDraw
<1>6. CASE ~Empty(w, h) /\ ~fill
  BY <1>6, OutlineDraws
<1> QED
  BY <1>4, <1>5, <1>6

\* canvas_draw_gradient_rect: a part for each row, in the row's colour.
LEMMA GradientDraws ==
  ASSUME CallInv, NEW x \in Int, NEW y \in Int, NEW w \in Int, NEW h \in Int,
         NEW top \in Shades, NEW bottom \in Shades, DrawGradientRect(x, y, w, h, top, bottom)
  PROVE  Painting'
<1> DEFINE c == [op |-> "gradient", x |-> x, y |-> y, w |-> w, h |-> h, top |-> top, bottom |-> bottom]
           den == IF h > 1 THEN h - 1 ELSE 1
           s == [row \in 1..h |-> Line(x, y + row - 1, x + w - 1, y + row - 1,
                                       LerpColor(top, bottom, row - 1, den))]
<1>1. /\ c.op = "gradient" /\ c.x = x /\ c.y = y /\ c.w = w /\ c.h = h
      /\ c.top = top /\ c.bottom = bottom
  OBVIOUS
<1>2. \A k : Wanted(c, k) = {p \in Box(x, y, w, h) : Shade(c, p[2]) = k}
  BY <1>1 DEF Wanted
<1>3. CASE Empty(w, h)
  <2>1. Draw(c, <<>>)
    BY <1>3 DEF DrawGradientRect
  <2>2. Box(x, y, w, h) = {}
    BY <1>3 DEF Box, Empty
  <2> HIDE DEF c
  <2> QED
    BY <1>2, <2>1, <2>2, NothingDraws
<1>4. CASE ~Empty(w, h)
  <2>1. Draw(c, s)
    BY <1>4 DEF DrawGradientRect
  <2>2. w > 0 /\ h > 0 /\ x + w - 1 \in Int /\ x <= x + w - 1
    BY <1>4 DEF Empty
  <2>3. \A v : Shade(c, v) = LerpColor(top, bottom, v - y, den)
    BY <1>1 DEF Shade
  <2> HIDE DEF c, den
  <2>4. ASSUME NEW i \in 1..h
        PROVE  /\ y + i - 1 \in y..(y + h - 1)
               /\ LerpColor(top, bottom, i - 1, den) = Shade(c, y + i - 1)
               /\ Shade(c, y + i - 1) \in Shades
    <3>1. y + i - 1 \in y..(y + h - 1) /\ (y + i - 1) - y = i - 1
      BY <2>2
    <3>2. Shade(c, y + i - 1) \in Shades
      <4>1. /\ c.y \in Int /\ c.h \in Int /\ c.h > 0 /\ c.top \in 0..255 /\ c.bottom \in 0..255
            /\ y + i - 1 \in c.y..(c.y + c.h - 1) /\ y + i - 1 <= y + i - 1
        BY <1>1, <2>2, <3>1 DEF Shades
      <4> QED
        BY <4>1, ShadeLaws
    <3> QED
      BY <2>3, <3>1, <3>2
  <2>5. DOMAIN s = 1..h
    OBVIOUS
  <2>6. ASSUME NEW i \in 1..h
        PROVE  /\ s[i].op = "line" /\ s[i].c = Shade(c, y + i - 1)
               /\ s[i].x1 = x /\ s[i].x2 = x + w - 1 /\ s[i].y1 = y + i - 1 /\ s[i].y2 = y + i - 1
    BY <2>4 DEF Line
  <2> HIDE DEF s
  <2>7. \A i \in DOMAIN s : Simple(s[i])'
    BY <2>4, <2>5, <2>6 DEF Simple
  <2>8. ASSUME NEW k, NEW i \in 1..h
        PROVE  PartPixels(s[i], k)
                 = IF Shade(c, y + i - 1) = k THEN (x..(x + w - 1)) \X {y + i - 1} ELSE {}
    <3>1. PartPixels(s[i], k)
            = IF k = Shade(c, y + i - 1) THEN Span(x, y + i - 1, x + w - 1, y + i - 1) ELSE {}
      BY <2>6 DEF PartPixels
    <3>2. y + i - 1 \in Int /\ y + i - 1 <= y + i - 1
      OBVIOUS
    <3>0. \A a1, b1, a2, b2 \in Int : a1 <= a2 /\ b1 <= b2 => Span(a1, b1, a2, b2) = (a1..a2) \X (b1..b2)
      BY SpanIsBox
    <3>3. Span(x, y + i - 1, x + w - 1, y + i - 1) = (x..(x + w - 1)) \X ((y + i - 1)..(y + i - 1))
      BY <2>2, <3>0, <3>2, SMTT(30)
    <3>4. (y + i - 1)..(y + i - 1) = {y + i - 1}
      BY <3>2
    <3> QED
      BY <3>1, <3>3, <3>4
  <2>9. ASSUME NEW k \in Shades
        PROVE  UNION {PartPixels(s[i], k) : i \in DOMAIN s} = Wanted(c, k)
    <3>1. ASSUME NEW i \in 1..h, NEW p \in PartPixels(s[i], k) PROVE p \in Wanted(c, k)
      <4>1. Shade(c, y + i - 1) = k /\ p \in (x..(x + w - 1)) \X {y + i - 1}
        BY <2>8, <3>1
      <4>2. p \in Box(x, y, w, h) /\ p[2] = y + i - 1
        BY <2>4, <4>1 DEF Box
      <4> QED
        BY <1>2, <4>1, <4>2
    <3>2. ASSUME NEW p \in Wanted(c, k)
          PROVE  \E i \in 1..h : p \in PartPixels(s[i], k)
      <4>1. p \in (x..(x + w - 1)) \X (y..(y + h - 1)) /\ Shade(c, p[2]) = k
        BY <1>2 DEF Box
      <4>2. /\ p[2] \in Int /\ p[2] - y + 1 \in 1..h /\ y + (p[2] - y + 1) - 1 = p[2]
        BY <4>1
      <4>3. p \in (x..(x + w - 1)) \X {p[2]}
        BY <4>1
      <4>4. PartPixels(s[p[2] - y + 1], k) = (x..(x + w - 1)) \X {p[2]}
        BY <2>8, <4>1, <4>2
      <4> QED
        BY <4>2, <4>3, <4>4
    <3> QED
      BY <2>5, <3>1, <3>2
  <2> QED
    BY <2>1, <2>7, <2>9, DrawsExactly
<1> QED
  BY <1>3, <1>4

\* canvas_draw_bitmap_mono: lit dots and, unless transparent, the others.
LEMMA BitmapDraws ==
  ASSUME CallInv, NEW x \in Int, NEW y \in Int, NEW b \in Bitmaps, NEW transparent \in BOOLEAN,
         DrawBitmapMono(x, y, b, transparent)
  PROVE  Painting'
<1> DEFINE c == [op |-> "bitmap", x |-> x, y |-> y, b |-> b, scale |-> 1, ground |-> ~transparent]
           on == {q \in Box(0, 0, b.w, b.h) : Bit(b, q[1], q[2])}
           off == IF transparent THEN {} ELSE Box(0, 0, b.w, b.h) \ on
           at(S) == {<<x + q[1], y + q[2]>> : q \in S}
           q1 == Pixels(at(on), Ink)  q2 == Pixels(at(off), Ground)
<1>1. /\ c.op = "bitmap" /\ c.x = x /\ c.y = y /\ c.b = b /\ c.scale = 1
      /\ c.ground = ~transparent
  OBVIOUS
<1>2. Draw(c, <<q1, q2>>)
  BY DEF DrawBitmapMono
<1>3. b.w \in Nat /\ b.h \in Nat
  BY BitmapsHaveSizes
<1> HIDE DEF c
<1>4. Area(c) = Box(x, y, b.w, b.h)
  BY <1>1, <1>3 DEF Area
<1>5. ASSUME NEW p \in Area(c)
      PROVE  /\ p \in Int \X Int /\ <<p[1] - x, p[2] - y>> \in Box(0, 0, b.w, b.h)
             /\ p = <<x + (p[1] - x), y + (p[2] - y)>>
             /\ Lit(c, p) <=> Bit(b, p[1] - x, p[2] - y)
  <2>1. p \in (x..(x + b.w - 1)) \X (y..(y + b.h - 1))
    BY <1>4 DEF Box
  <2>2. p[1] \in Int /\ p[2] \in Int /\ p = <<p[1], p[2]>>
    BY <2>1
  <2>3. (p[1] - x) \div 1 = p[1] - x /\ (p[2] - y) \div 1 = p[2] - y
    BY <2>2
  <2>4. Lit(c, p) <=> Bit(b, p[1] - x, p[2] - y)
    BY <1>1, <2>2, <2>3, LitIsBit
  <2> QED
    BY <1>3, <2>1, <2>2, <2>4 DEF Box
<1>6. ASSUME NEW q \in Box(0, 0, b.w, b.h)
      PROVE  /\ <<x + q[1], y + q[2]>> \in Area(c)
             /\ (x + q[1]) - x = q[1] /\ (y + q[2]) - y = q[2]
  BY <1>3, <1>4 DEF Box
<1>7. at(on) = {p \in Area(c) : Lit(c, p)}
  <2>1. ASSUME NEW p \in Area(c), Lit(c, p) PROVE p \in at(on)
    <3>1. <<p[1] - x, p[2] - y>> \in on
      BY <1>5, <2>1
    <3>2. p = <<x + <<p[1] - x, p[2] - y>>[1], y + <<p[1] - x, p[2] - y>>[2]>>
      BY <1>5
    <3> QED
      BY <3>1, <3>2
  <2>2. ASSUME NEW q \in on
        PROVE  <<x + q[1], y + q[2]>> \in {p \in Area(c) : Lit(c, p)}
    <3>1. q \in Box(0, 0, b.w, b.h) /\ Bit(b, q[1], q[2])
      OBVIOUS
    <3> QED
      BY <1>5, <1>6, <3>1
  <2> QED
    BY <2>1, <2>2
<1>8. at(off) = IF transparent THEN {} ELSE {p \in Area(c) : ~Lit(c, p)}
  <2>1. CASE transparent
    BY <2>1
  <2>2. CASE ~transparent
    <3>0. off = Box(0, 0, b.w, b.h) \ on
      BY <2>2
    <3>1. ASSUME NEW p \in Area(c), ~Lit(c, p) PROVE p \in at(off)
      <4>1. <<p[1] - x, p[2] - y>> \in off
        BY <1>5, <3>0, <3>1
      <4>2. p = <<x + <<p[1] - x, p[2] - y>>[1], y + <<p[1] - x, p[2] - y>>[2]>>
        BY <1>5
      <4> QED
        BY <4>1, <4>2
    <3>2. ASSUME NEW q \in off
          PROVE  <<x + q[1], y + q[2]>> \in {p \in Area(c) : ~Lit(c, p)}
      <4>1. q \in Box(0, 0, b.w, b.h) /\ ~Bit(b, q[1], q[2])
        BY <3>0
      <4> QED
        BY <1>5, <1>6, <4>1
    <3> QED
      BY <2>2, <3>1, <3>2
  <2> QED
    BY <2>1, <2>2
<1> HIDE DEF on, off, at
<1>9. Simple(q1)' /\ Simple(q2)'
  BY DEF Simple, Pixels, Ink, Ground, Shades
<1>10. /\ \A k : PartPixels(q1, k) = IF k = Ink THEN at(on) ELSE {}
       /\ \A k : PartPixels(q2, k) = IF k = Ground THEN at(off) ELSE {}
  BY DEF PartPixels, Pixels
<1>11. \A k : Wanted(c, k) = {p \in Area(c) : k = IF Lit(c, p) THEN Ink
                                                 ELSE IF ~transparent THEN Ground ELSE Blank}
  BY <1>1 DEF Wanted
<1> HIDE DEF q1, q2
<1>12. \A k \in Shades : PartPixels(q1, k) \cup PartPixels(q2, k) = Wanted(c, k)
  <2> TAKE k \in Shades
  <2>1. k # Blank /\ Ink # Ground /\ Ink # Blank /\ Ground # Blank
    BY DEF Blank, Ink, Ground, Shades
  <2>2. CASE k = Ink
    BY <1>7, <1>10, <1>11, <2>1, <2>2
  <2>3. CASE k = Ground
    BY <1>8, <1>10, <1>11, <2>1, <2>3
  <2>4. CASE k # Ink /\ k # Ground
    BY <1>10, <1>11, <2>1, <2>4
  <2> QED
    BY <2>2, <2>3, <2>4
<1>13. \A i \in DOMAIN <<q1, q2>> : Simple(<<q1, q2>>[i])'
  BY <1>9, TwoParts
<1>14. \A k \in Shades : UNION {PartPixels(<<q1, q2>>[i], k) : i \in DOMAIN <<q1, q2>>} = Wanted(c, k)
  BY <1>12, TwoParts
<1> QED
  BY <1>2, <1>13, <1>14, DrawsExactly

\* canvas_draw_bitmap_mono_scaled: a square for each lit dot.
LEMMA ScaledDraws ==
  ASSUME CallInv, NEW x \in Int, NEW y \in Int, NEW b \in Bitmaps, NEW scale \in Nat,
         DrawBitmapMonoScaled(x, y, b, scale)
  PROVE  Painting'
<1> DEFINE c == [op |-> "bitmap", x |-> x, y |-> y, b |-> b, scale |-> scale, ground |-> FALSE]
           S == UNION {Box(x + q[1] * scale, y + q[2] * scale, scale, scale) :
                         q \in {q \in Box(0, 0, b.w, b.h) : Bit(b, q[1], q[2])}}
           q1 == Pixels(S, Ink)
<1>1. /\ c.op = "bitmap" /\ c.x = x /\ c.y = y /\ c.b = b /\ c.scale = scale
      /\ c.ground = FALSE
  OBVIOUS
<1>2. Draw(c, <<q1>>)
  BY DEF DrawBitmapMonoScaled
<1> HIDE DEF c
<1>3. S = {p \in Area(c) : Lit(c, p)}
  BY <1>1, DotsAgree
<1> HIDE DEF S
<1>4. Simple(q1)'
  BY DEF Simple, Pixels, Ink, Shades
<1>5. \A k : PartPixels(q1, k) = IF k = Ink THEN S ELSE {}
  BY DEF PartPixels, Pixels
<1>6. \A k : Wanted(c, k) = {p \in Area(c) : k = IF Lit(c, p) THEN Ink ELSE Blank}
  BY <1>1 DEF Wanted
<1> HIDE DEF q1
<1>7. \A k \in Shades : PartPixels(q1, k) = Wanted(c, k)
  <2> TAKE k \in Shades
  <2>1. k # Blank /\ Ink # Blank
    BY DEF Blank, Ink, Shades
  <2> QED
    BY <1>3, <1>5, <1>6, <2>1
<1>8. \A i \in DOMAIN <<q1>> : Simple(<<q1>>[i])'
  BY <1>4, OnePart
<1>9. \A k \in Shades : UNION {PartPixels(<<q1>>[i], k) : i \in DOMAIN <<q1>>} = Wanted(c, k)
  BY <1>7, OnePart
<1> QED
  BY <1>2, <1>8, <1>9, DrawsExactly

\* canvas_draw_text.
LEMMA TextDraws ==
  ASSUME CallInv, NEW x \in Int, NEW y \in Int, NEW text \in Texts, DrawText(x, y, text)
  PROVE  Painting'
<1> DEFINE c == [op |-> "text", x |-> x, y |-> y, text |-> text]
<1>1. c.op = "text" /\ Draw(c, <<c>>)
  BY DEF DrawText
<1> HIDE DEF c
<1>2. Simple(c)'
  BY <1>1 DEF Simple, Draw
<1>3. \A k : PartPixels(c, k) = Wanted(c, k)
  BY <1>1 DEF PartPixels, Wanted, Solid
<1>4. \A i \in DOMAIN <<c>> : Simple(<<c>>[i])'
  BY <1>2, OnePart
<1>5. \A k \in Shades : UNION {PartPixels(<<c>>[i], k) : i \in DOMAIN <<c>>} = Wanted(c, k)
  BY <1>3, OnePart
<1> QED
  BY <1>1, <1>4, <1>5, DrawsExactly

-----------------------------------------------------------------------------
(***************************************************************************)
(* So all calls but lines show their shape.                                *)
(***************************************************************************)

\* Every step keeps the call one that a program can make.
LEMMA DrawKeepsCall ==
  ASSUME NEW c \in Calls, c.op # "none", NEW parts, Draw(c, parts)
  PROVE  CallInv'
<1>1. call' = c /\ c # NoCall
  BY DEF Draw, NoCall
<1> QED
  BY <1>1 DEF CallInv

LEMMA TurnKeepsCall ==
  ASSUME CallInv, Turn
  PROVE  CallInv'
<1>1. call' = call
  BY DEF Turn, LineBegins, LineStep, CircleBegins, CircleStep, TextBegins, TextStep, PaintPixels
<1>2. call # NoCall
  BY DEF Turn, LineBegins, LineStep, CircleBegins, CircleStep, TextBegins, TextStep, PaintPixels,
         Begins, CallInv, NoLoop
<1> QED
  BY <1>1, <1>2 DEF CallInv

\* Every turn of every loop keeps the painting exact.
LEMMA TurnKeepsPainting ==
  ASSUME ShapeInv, Turn
  PROVE  Painting'
<1>1. call' = call
  BY DEF Turn, LineBegins, LineStep, CircleBegins, CircleStep, TextBegins, TextStep, PaintPixels
<1> SUFFICES ASSUME Plain(call)
             PROVE  (SimpleLoop /\ (\A i \in DOMAIN todo : Simple(todo[i])) /\ Exact)'
  BY <1>1 DEF Painting
<1>2. CASE LineBegins
  BY <1>2, LineBeginsExactly
<1>3. CASE LineStep
  BY <1>3, LineStepsExactly
<1>4. CASE CircleBegins
  BY <1>4, CircleBeginsExactly
<1>5. CASE CircleStep
  BY <1>5, CircleStepsExactly
<1>6. CASE TextBegins
  BY <1>6, TextBeginsExactly
<1>7. CASE TextStep
  BY <1>7, TextStepsExactly
<1>8. CASE PaintPixels
  BY <1>8, PixelsPaintExactly
<1> QED
  BY <1>2, <1>3, <1>4, <1>5, <1>6, <1>7, <1>8 DEF Turn

\* A cleared canvas is exact, and so is the first one.
LEMMA ClearPaints ==
  ASSUME CallInv, Clear
  PROVE  CallInv' /\ Painting'
<1>1. call' = NoCall /\ pixels' = Cleared /\ todo' = <<>> /\ cur' = NoLoop
  BY DEF Clear, Running
<1>2. CallInv'
  BY <1>1 DEF CallInv, Calls, NoCall
<1>3. \A k : Wanted(NoCall, k) = {}
  BY DEF Wanted, NoCall, Solid
<1>4. Painted' = {} /\ \A k : Ahead(k)' = {}
  BY <1>1 DEF Painted, Cleared, Ahead, LoopPixels, NoLoop
<1>5. Exact'
  BY <1>1, <1>3, <1>4 DEF Exact
<1>6. SimpleLoop' /\ (\A i \in DOMAIN todo : Simple(todo[i]))'
  BY <1>1 DEF SimpleLoop, NoLoop
<1> QED
  BY <1>2, <1>5, <1>6 DEF Painting

LEMMA PaintingStarts ==
  ASSUME Init
  PROVE  CallInv /\ Painting
<1>1. call = NoCall /\ pixels = Cleared /\ todo = <<>> /\ cur = NoLoop
  BY DEF Init
<1>2. CallInv
  BY <1>1 DEF CallInv, Calls, NoCall
<1>3. \A k : Wanted(NoCall, k) = {}
  BY DEF Wanted, NoCall, Solid
<1>4. Painted = {} /\ \A k : Ahead(k) = {}
  BY <1>1 DEF Painted, Cleared, Ahead, LoopPixels, NoLoop
<1>5. Exact
  BY <1>1, <1>3, <1>4 DEF Exact
<1>6. SimpleLoop /\ \A i \in DOMAIN todo : Simple(todo[i])
  BY <1>1 DEF SimpleLoop, NoLoop
<1> QED
  BY <1>2, <1>5, <1>6 DEF Painting

\* Painting is inductive: one case for each call and each turn.
LEMMA StepKeepsPainting ==
  ASSUME ShapeInv, [Next]_vars
  PROVE  CallInv' /\ Painting'
<1>0. CallInv
  BY DEF ShapeInv
<1>1. ASSUME NEW x \in Coords, NEW y \in Coords, DrawPixel(x, y)
      PROVE  CallInv' /\ Painting'
  <2> DEFINE c == [op |-> "pixel", x |-> x, y |-> y]
  <2>1. c \in Calls /\ c.op = "pixel" /\ Solid(c) = {<<x, y>>}
    BY CoordsAreInt DEF Calls, Solid
  <2>2. Draw(c, <<Pixels({<<x, y>>}, Ink)>>)
    BY <1>1 DEF DrawPixel
  <2> HIDE DEF c
  <2> QED
    BY <1>0, <2>1, <2>2, PixelsDraw, DrawKeepsCall
<1>2. ASSUME NEW x \in Coords, NEW y \in Coords, NEW x2 \in Coords, NEW y2 \in Coords,
             DrawLine(x, y, x2, y2)
      PROVE  CallInv' /\ Painting'
  <2> DEFINE c == [op |-> "line", x1 |-> x, y1 |-> y, x2 |-> x2, y2 |-> y2]
  <2>1. c \in Calls /\ c.op = "line"
    BY CoordsAreInt DEF Calls
  <2>2. PICK s : Draw(c, s)
    BY <1>2 DEF DrawLine
  <2> HIDE DEF c
  <2> QED
    BY <1>0, <2>1, <2>2, DrawsExactly, DrawKeepsCall DEF Plain
<1>3. ASSUME NEW x \in Coords, NEW y \in Coords, NEW w \in Sizes, NEW h \in Sizes,
             NEW fill \in BOOLEAN, DrawRect(x, y, w, h, fill)
      PROVE  CallInv' /\ Painting'
  <2> DEFINE c == [op |-> "rect", x |-> x, y |-> y, w |-> w, h |-> h, fill |-> fill]
  <2>1. c \in Calls /\ c.op = "rect"
    BY CoordsAreInt, SizesAreInt DEF Calls
  <2>2. PICK s : Draw(c, s)
    BY <1>3 DEF DrawRect
  <2>3. Painting'
    BY <1>0, <1>3, RectDraws, CoordsAreInt, SizesAreInt
  <2> HIDE DEF c
  <2> QED
    BY <2>1, <2>2, <2>3, DrawKeepsCall
<1>4. ASSUME NEW x \in Coords, NEW y \in Coords, NEW w \in Sizes, NEW h \in Sizes,
             NEW r \in Radii, NEW fill \in BOOLEAN, DrawRoundedRect(x, y, w, h, r, fill)
      PROVE  CallInv' /\ Painting'
  <2> DEFINE c == [op |-> "rounded", x |-> x, y |-> y, w |-> w, h |-> h, r |-> r, fill |-> fill]
  <2>1. c \in Calls /\ c.op = "rounded"
    BY CoordsAreInt, SizesAreInt, RadiiAreInt DEF Calls
  <2>2. PICK s : Draw(c, s)
    BY <1>4 DEF DrawRoundedRect
  <2>3. Painting'
    BY <1>0, <1>4, RoundedDraws, CoordsAreInt, SizesAreInt, RadiiAreInt
  <2> HIDE DEF c
  <2> QED
    BY <2>1, <2>2, <2>3, DrawKeepsCall
<1>5. ASSUME NEW x \in Coords, NEW y \in Coords, NEW r \in Radii, NEW fill \in BOOLEAN,
             DrawCircle(x, y, r, fill)
      PROVE  CallInv' /\ Painting'
  <2> DEFINE c == Circle(x, y, r, fill)
  <2>1. c \in Calls /\ c.op = "circle"
    BY CoordsAreInt, RadiiAreInt DEF Calls, Circle, CircleParts
  <2>2. PICK s : Draw(c, s)
    BY <1>5 DEF DrawCircle
  <2>3. Painting'
    BY <1>0, <1>5, CircleDraws
  <2> HIDE DEF c
  <2> QED
    BY <2>1, <2>2, <2>3, DrawKeepsCall
<1>6. ASSUME NEW x \in Coords, NEW y \in Coords, NEW w \in Sizes, NEW h \in Sizes,
             NEW top \in Colours, NEW bottom \in Colours,
             DrawGradientRect(x, y, w, h, top, bottom)
      PROVE  CallInv' /\ Painting'
  <2> DEFINE c == [op |-> "gradient", x |-> x, y |-> y, w |-> w, h |-> h,
                   top |-> top, bottom |-> bottom]
  <2>0. top \in Shades /\ bottom \in Shades
    BY ColoursAreInt DEF Shades
  <2>1. c \in Calls /\ c.op = "gradient"
    BY <2>0, CoordsAreInt, SizesAreInt DEF Calls
  <2>2. PICK s : Draw(c, s)
    BY <1>6 DEF DrawGradientRect
  <2>3. Painting'
    BY <1>0, <1>6, <2>0, GradientDraws, CoordsAreInt, SizesAreInt
  <2> HIDE DEF c
  <2> QED
    BY <2>1, <2>2, <2>3, DrawKeepsCall
<1>7. ASSUME NEW x \in Coords, NEW y \in Coords, NEW b \in Bitmaps,
             NEW transparent \in BOOLEAN, DrawBitmapMono(x, y, b, transparent)
      PROVE  CallInv' /\ Painting'
  <2> DEFINE c == [op |-> "bitmap", x |-> x, y |-> y, b |-> b, scale |-> 1,
                   ground |-> ~transparent]
  <2>1. c \in Calls /\ c.op = "bitmap"
    BY CoordsAreInt DEF Calls
  <2>2. PICK s : Draw(c, s)
    BY <1>7 DEF DrawBitmapMono
  <2>3. Painting'
    BY <1>0, <1>7, BitmapDraws, CoordsAreInt
  <2> HIDE DEF c
  <2> QED
    BY <2>1, <2>2, <2>3, DrawKeepsCall
<1>8. ASSUME NEW x \in Coords, NEW y \in Coords, NEW b \in Bitmaps, NEW scale \in Scales,
             DrawBitmapMonoScaled(x, y, b, scale)
      PROVE  CallInv' /\ Painting'
  <2> DEFINE c == [op |-> "bitmap", x |-> x, y |-> y, b |-> b, scale |-> scale, ground |-> FALSE]
  <2>0. scale \in Nat
    BY BitmapsHaveSizes
  <2>1. c \in Calls /\ c.op = "bitmap"
    BY <2>0, CoordsAreInt DEF Calls
  <2>2. PICK s : Draw(c, s)
    BY <1>8 DEF DrawBitmapMonoScaled
  <2>3. Painting'
    BY <1>0, <1>8, <2>0, ScaledDraws, CoordsAreInt
  <2> HIDE DEF c
  <2> QED
    BY <2>1, <2>2, <2>3, DrawKeepsCall
<1>9. ASSUME NEW x \in Coords, NEW y \in Coords, NEW text \in Texts, DrawText(x, y, text)
      PROVE  CallInv' /\ Painting'
  <2> DEFINE c == [op |-> "text", x |-> x, y |-> y, text |-> text]
  <2>1. c \in Calls /\ c.op = "text"
    BY CoordsAreInt DEF Calls, TextParts
  <2>2. PICK s : Draw(c, s)
    BY <1>9 DEF DrawText
  <2>3. Painting'
    BY <1>0, <1>9, TextDraws, CoordsAreInt
  <2> HIDE DEF c
  <2> QED
    BY <2>1, <2>2, <2>3, DrawKeepsCall
<1>10. CASE Turn
  BY <1>0, <1>10, TurnKeepsCall, TurnKeepsPainting
<1>11. CASE Clear
  BY <1>0, <1>11, ClearPaints
<1>12. CASE UNCHANGED vars
  <2>1. call' = call /\ pixels' = pixels /\ todo' = todo /\ cur' = cur
    BY <1>12 DEF vars
  <2>2. CallInv'
    BY <1>0, <2>1 DEF CallInv
  <2>3. SimpleLoop' <=> SimpleLoop
    BY <2>1 DEF SimpleLoop, Byte
  <2>4. (\A i \in DOMAIN todo : Simple(todo[i]))' <=> \A i \in DOMAIN todo : Simple(todo[i])
    BY <2>1 DEF Simple
  <2>5. Painted' = Painted /\ \A k : Ahead(k)' = Ahead(k)
    BY <2>1 DEF Painted, Ahead, LoopPixels, Byte
  <2>6. Exact' <=> Exact
    BY <2>1, <2>5 DEF Exact
  <2> QED
    BY <2>1, <2>2, <2>3, <2>4, <2>6 DEF Painting, ShapeInv
<1> QED
  BY <1>1, <1>2, <1>3, <1>4, <1>5, <1>6, <1>7, <1>8, <1>9, <1>10, <1>11, <1>12 DEF Next

-----------------------------------------------------------------------------
\* When nothing is ahead, what is painted is what is wanted.
LEMMA PaintedIsWanted ==
  ASSUME ShapeInv, Plain(call), ~Running
  PROVE  /\ \A p \in Painted : p \in Wanted(call, pixels[p])
         /\ \A k \in Shades : \A p \in Wanted(call, k) \cap Grid : pixels[p] = k
<1>1. Exact /\ cur = NoLoop /\ todo = <<>>
  BY DEF ShapeInv, Painting, Running
<1>2. \A k : Ahead(k) = {}
  BY <1>1 DEF Ahead, LoopPixels, NoLoop
<1> QED
  BY <1>1, <1>2 DEF Exact

\* A finished call in one colour shows what is wanted.
LEMMA InkShown ==
  ASSUME ShapeInv, Plain(call), ~Running, call.op \notin {"gradient", "bitmap"}
  PROVE  Painted = Wanted(call, Ink) \cap Grid
<1>1. \A k : k # Ink => Wanted(call, k) = {}
  BY DEF Wanted
<1>2. Ink \in Shades /\ Ink # Blank
  BY DEF Ink, Blank, Shades
<1>3. Painted \subseteq Wanted(call, Ink) \cap Grid
  BY <1>1, PaintedIsWanted DEF Painted
<1>4. \A p \in Wanted(call, Ink) \cap Grid : pixels[p] = Ink
  BY <1>2, PaintedIsWanted
<1> QED
  BY <1>2, <1>3, <1>4 DEF Painted

\* The calls that show Solid.
LEMMA SolidShown ==
  ASSUME ShapeInv, Plain(call), ~Running, call.op \notin {"gradient", "bitmap", "circle"},
         ~(call.op = "rounded" /\ ~call.fill /\ ~Empty(call.w, call.h))
  PROVE  Shows(Solid(call))
<1>1. Wanted(call, Ink) = Solid(call)
  BY DEF Wanted
<1> QED
  BY <1>1, InkShown DEF Shows

\* A finished circle.
LEMMA CircleShown ==
  ASSUME ShapeInv, ~Running, call.op = "circle"
  PROVE  IF call.r < 0 THEN Painted = {} ELSE call.r = 0 \/ CircleShape(call)
<1>1. Plain(call) /\ Wanted(call, Ink) = CirclePixels(call)
  BY DEF Plain, Wanted
<1>2. Painted = CirclePixels(call) \cap Grid
  BY <1>1, InkShown
<1>3. call \in CircleParts
  BY CallFields DEF ShapeInv
<1>4. PICK cx \in Int, cy \in Int, r \in Int, fill \in BOOLEAN : call = Circle(cx, cy, r, fill)
  BY <1>3 DEF CircleParts, Circle
<1>5. call.r = r
  BY <1>4 DEF Circle
<1>6. CASE r < 0
  BY <1>2, <1>5, <1>6 DEF CirclePixels
<1>7. CASE r > 0
  <2>1. r \in Nat \ {0}
    BY <1>7
  <2>2. CircleShape(call)
    BY <1>2, <1>4, <2>1, CircleIsShown
  <2> QED
    BY <1>5, <1>7, <2>2
<1> QED
  BY <1>5, <1>6, <1>7

\* A finished outline of a rounded rectangle.
LEMMA OutlineShown ==
  ASSUME ShapeInv, ~Running, call.op = "rounded", ~call.fill, ~Empty(call.w, call.h),
         RadiusFits(call)
  PROVE  RoundedOutline(call)
<1>1. /\ Plain(call)
      /\ Wanted(call, Ink) = Edges(call)
           \cup UNION {CirclePixels(Circle(q[1], q[2], call.r, FALSE)) : q \in Corners(call)}
  BY DEF Plain, Wanted
<1>2. Painted = Wanted(call, Ink) \cap Grid
  BY <1>1, InkShown
<1>3. call.x \in Int /\ call.y \in Int /\ call.w \in Int /\ call.h \in Int /\ call.r \in Int
  BY CallFields DEF ShapeInv
<1> QED
  BY <1>1, <1>2, <1>3, OutlineIsShown

\* A finished bitmap.
LEMMA BitmapShown ==
  ASSUME ShapeInv, ~Running, call.op = "bitmap"
  PROVE  BitmapShape(call)
<1> DEFINE colour(p) == IF Lit(call, p) THEN Ink ELSE IF call.ground THEN Ground ELSE Blank
<1>1. \A k : Wanted(call, k) = {p \in Area(call) : k = colour(p)}
  BY DEF Wanted
<1>2. Plain(call)
  BY DEF Plain
<1>3. Ink \in Shades /\ Ground \in Shades /\ Ink # Blank /\ Ground # Blank
  BY DEF Ink, Ground, Blank, Shades
<1> SUFFICES ASSUME NEW p \in Grid
             PROVE  pixels[p] = IF p \in Area(call) /\ Lit(call, p) THEN Ink
                                ELSE IF p \in Area(call) /\ call.ground THEN Ground ELSE Blank
  BY DEF BitmapShape
<1>4. p \in Painted => p \in Area(call) /\ pixels[p] = colour(p)
  BY <1>1, <1>2, PaintedIsWanted
<1>5. p \in Area(call) /\ colour(p) \in Shades => pixels[p] = colour(p)
  BY <1>1, <1>2, PaintedIsWanted
<1>6. p \notin Painted => pixels[p] = Blank
  BY DEF Painted
<1> QED
  BY <1>3, <1>4, <1>5, <1>6

\* A finished gradient: rows in order, in colours that go one way.
LEMMA GradientShown ==
  ASSUME ShapeInv, ~Running, call.op = "gradient"
  PROVE  GradientShape(call)
<1> DEFINE c == call
           rows == {p[2] : p \in Painted}
           colour(v) == {pixels[p] : p \in {q \in Painted : q[2] = v}}
<1>1. \A k : Wanted(c, k) = {p \in Box(c.x, c.y, c.w, c.h) : Shade(c, p[2]) = k}
  BY DEF Wanted
<1>2. Plain(c)
  BY DEF Plain
<1>3. /\ c.x \in Int /\ c.y \in Int /\ c.w \in Int /\ c.h \in Int
      /\ c.top \in 0..255 /\ c.bottom \in 0..255
  BY CallFields DEF ShapeInv, Shades
<1>4. ASSUME NEW p \in Box(c.x, c.y, c.w, c.h)
      PROVE  c.h > 0 /\ p[2] \in c.y..(c.y + c.h - 1)
  <2>1. p[2] \in c.y..(c.y + c.h - 1)
    BY DEF Box
  <2> QED
    BY <1>3, <2>1
<1>5. ASSUME NEW u, NEW v, c.h > 0, u \in c.y..(c.y + c.h - 1), v \in c.y..(c.y + c.h - 1), u <= v
      PROVE  /\ Shade(c, v) \in Shades /\ Between(Shade(c, v), c.top, c.bottom)
             /\ v = c.y => Shade(c, v) = c.top
             /\ v = c.y + c.h - 1 /\ c.h > 1 => Shade(c, v) = c.bottom
             /\ Between(Shade(c, u), c.top, Shade(c, v))
  BY <1>3, <1>5, ShadeLaws
<1>6. ASSUME NEW p \in Painted
      PROVE  p \in Box(c.x, c.y, c.w, c.h) /\ pixels[p] = Shade(c, p[2])
  BY <1>1, <1>2, PaintedIsWanted
<1>7. ASSUME NEW p \in Box(c.x, c.y, c.w, c.h), p \in Grid
      PROVE  p \in Painted
  <2>1. p[2] \in Int
    BY <1>3, <1>4
  <2>2. Shade(c, p[2]) \in Shades
    BY <1>4, <1>5, <2>1
  <2>3. pixels[p] = Shade(c, p[2])
    BY <1>1, <1>2, <1>7, <2>2, PaintedIsWanted
  <2> QED
    BY <1>7, <2>2, <2>3 DEF Painted, Shades, Blank
<1>8. Shows(Box(c.x, c.y, c.w, c.h))
  BY <1>6, <1>7 DEF Shows, Painted
<1>9. ASSUME NEW v \in rows
      PROVE  c.h > 0 /\ v \in c.y..(c.y + c.h - 1) /\ colour(v) = {Shade(c, v)}
  <2>1. PICK p \in Painted : v = p[2]
    OBVIOUS
  <2>2. c.h > 0 /\ v \in c.y..(c.y + c.h - 1)
    BY <1>4, <1>6, <2>1
  <2>3. \A q \in Painted : q[2] = v => pixels[q] = Shade(c, v)
    BY <1>6
  <2>4. p \in {q \in Painted : q[2] = v} /\ pixels[p] = Shade(c, v)
    BY <2>1, <2>3
  <2>5. colour(v) = {Shade(c, v)}
    BY <2>3, <2>4
  <2> QED
    BY <2>2, <2>5
<1> HIDE DEF rows, colour, c
<1>10. ASSUME NEW v \in rows, NEW a \in colour(v)
       PROVE  /\ colour(v) = {a} /\ Between(a, c.top, c.bottom)
              /\ v = c.y => a = c.top
              /\ v = c.y + c.h - 1 /\ c.h > 1 => a = c.bottom
  <2>1. a = Shade(c, v) /\ c.h > 0 /\ v \in c.y..(c.y + c.h - 1) /\ v <= v
    BY <1>3, <1>9
  <2> QED
    BY <1>5, <1>9, <2>1
<1>11. ASSUME NEW v \in rows, NEW a \in colour(v), NEW u \in rows, NEW b \in colour(u), u < v
       PROVE  Between(b, c.top, a)
  <2>1. /\ a = Shade(c, v) /\ b = Shade(c, u) /\ c.h > 0
        /\ u \in c.y..(c.y + c.h - 1) /\ v \in c.y..(c.y + c.h - 1)
    BY <1>9
  <2>2. u <= v
    BY <1>3, <1>11, <2>1
  <2> QED
    BY <1>5, <2>1, <2>2
<1>12. GradientShape(c)
       <=> /\ Shows(Box(c.x, c.y, c.w, c.h))
           /\ \A v \in rows : \A a \in colour(v) :
                /\ colour(v) = {a} /\ Between(a, c.top, c.bottom)
                /\ v = c.y => a = c.top
                /\ v = c.y + c.h - 1 /\ c.h > 1 => a = c.bottom
                /\ \A u \in rows : \A b \in colour(u) : u < v => Between(b, c.top, a)
  BY DEF GradientShape, rows, colour
<1> QED
  BY <1>8, <1>10, <1>11, <1>12 DEF c

\* Every call but a line shows its shape when it returns.
LEMMA PlainShown ==
  ASSUME ShapeInv, Plain(call)
  PROVE  ShapeDrawn
<1> SUFFICES ASSUME ~Running PROVE ShapeDrawn
  BY DEF ShapeDrawn
<1>1. call.op # "line"
  BY DEF Plain
<1>2. CASE call.op = "gradient"
  BY <1>2, GradientShown DEF ShapeDrawn
<1>3. CASE call.op = "bitmap"
  BY <1>3, BitmapShown DEF ShapeDrawn
<1>4. CASE call.op = "circle"
  BY <1>4, CircleShown DEF ShapeDrawn
<1>5. CASE call.op = "rounded" /\ ~call.fill /\ ~Empty(call.w, call.h)
  BY <1>5, OutlineShown DEF ShapeDrawn
<1>6. CASE call.op \notin {"gradient", "bitmap", "circle"}
             /\ ~(call.op = "rounded" /\ ~call.fill /\ ~Empty(call.w, call.h))
  BY <1>1, <1>6, SolidShown DEF ShapeDrawn
<1> QED
  BY <1>2, <1>3, <1>4, <1>5, <1>6

-----------------------------------------------------------------------------
(***************************************************************************)
(* The inductive invariant of lines: the loop has painted one pixel for each *)
(* step behind it.                                                         *)
(***************************************************************************)

\* How far p is from the beginning, along the longer extent.
Steps(l, p) == Abs(p[Major(l)] - <<l.x1, l.y1>>[Major(l)])

TracedTo(l, n) ==
  /\ Painted \subseteq Nearest(l) /\ \A p \in Painted : Steps(l, p) < n
  /\ \A p, q \in Painted : Steps(l, p) = Steps(l, q) => p = q
  /\ \A a \in 0..(n-1) : \E q \in Nearest(l) : Steps(l, q) = a /\ (q \in Grid => q \in Painted)

Tracing ==
  call.op = "line" =>
    \/ /\ todo = <<Line(call.x1, call.y1, call.x2, call.y2, Ink)>> /\ cur = NoLoop
       /\ Painted = {}
    \/ /\ todo = <<>> /\ cur.op = "line" /\ cur.c = Ink
       /\ cur.x1 = call.x1 /\ cur.y1 = call.y1 /\ cur.x2 = call.x2 /\ cur.y2 = call.y2
       /\ TracedTo(call, Steps(call, <<cur.x, cur.y>>))
       /\ {<<call.x1, call.y1>>} \cap Grid \subseteq Painted \cup {<<cur.x, cur.y>>}
    \/ todo = <<>> /\ cur = NoLoop /\ LineShape(call)

\* The ends of a line are all that its pixels depend on.
SameEnds(c, l) == c.x1 = l.x1 /\ c.y1 = l.y1 /\ c.x2 = l.x2 /\ c.y2 = l.y2

LEMMA SameLine ==
  ASSUME NEW c, NEW l, SameEnds(c, l)
  PROVE  /\ Nearest(c) = Nearest(l) /\ Major(c) = Major(l)
         /\ \A p : Steps(c, p) = Steps(l, p)
  BY DEF SameEnds, Nearest, Major, Steps

\* The pixels near a line are as many steps from its beginning as their columns,
\* or rows, are, and none is further than its end.
LEMMA StepsLaws ==
  ASSUME NEW c, c.x1 \in Int, c.y1 \in Int, c.x2 \in Int, c.y2 \in Int
  PROVE  /\ \A p \in Nearest(c) : Steps(c, p) \in 0..Steps(c, <<c.x2, c.y2>>)
         /\ \A p, q \in Nearest(c) : Steps(c, p) = Steps(c, q) <=> p[Major(c)] = q[Major(c)]
         /\ Steps(c, <<c.x1, c.y1>>) = 0 /\ Steps(c, <<c.x2, c.y2>>) \in Nat
<1>1. \A p \in Nearest(c) :
        /\ p[1] \in Smaller(c.x1, c.x2)..Larger(c.x1, c.x2)
        /\ p[2] \in Smaller(c.y1, c.y2)..Larger(c.y1, c.y2)
  BY DEF Nearest, Span
<1>2. CASE Major(c) = 1
  <2>1. \A p : Steps(c, p) = Abs(p[1] - c.x1)
    BY <1>2 DEF Steps
  <2>2. ASSUME NEW p \in Nearest(c) PROVE Abs(p[1] - c.x1) \in 0..Abs(c.x2 - c.x1)
    BY <1>1 DEF Smaller, Larger, Abs
  <2>3. ASSUME NEW p \in Nearest(c), NEW q \in Nearest(c)
        PROVE  Abs(p[1] - c.x1) = Abs(q[1] - c.x1) <=> p[1] = q[1]
    BY <1>1 DEF Smaller, Larger, Abs
  <2>4. Abs(c.x1 - c.x1) = 0 /\ Abs(c.x2 - c.x1) \in Nat
    BY DEF Abs
  <2> QED
    BY <1>2, <2>1, <2>2, <2>3, <2>4
<1>3. CASE Major(c) = 2
  <2>1. \A p : Steps(c, p) = Abs(p[2] - c.y1)
    BY <1>3 DEF Steps
  <2>2. ASSUME NEW p \in Nearest(c) PROVE Abs(p[2] - c.y1) \in 0..Abs(c.y2 - c.y1)
    BY <1>1 DEF Smaller, Larger, Abs
  <2>3. ASSUME NEW p \in Nearest(c), NEW q \in Nearest(c)
        PROVE  Abs(p[2] - c.y1) = Abs(q[2] - c.y1) <=> p[2] = q[2]
    BY <1>1 DEF Smaller, Larger, Abs
  <2>4. Abs(c.y1 - c.y1) = 0 /\ Abs(c.y2 - c.y1) \in Nat
    BY DEF Abs
  <2> QED
    BY <1>3, <2>1, <2>2, <2>3, <2>4
<1> QED
  BY <1>2, <1>3 DEF Major

\* Where a line's loop is: near the line, and one step further with each turn.
LEMMA LoopTraces ==
  ASSUME NEW l, LineInv(l)
  PROVE  /\ <<l.x, l.y>> \in Nearest(l)
         /\ ~(l.x = l.x2 /\ l.y = l.y2) =>
              Steps(l, <<LineNext(l).x, LineNext(l).y>>) = Steps(l, <<l.x, l.y>>) + 1
<1>1. /\ l.x1 \in Int /\ l.y1 \in Int /\ l.x2 \in Int /\ l.y2 \in Int
      /\ l.x \in Int /\ l.y \in Int /\ l.dx \in Nat /\ -l.dy \in Nat
  BY LineFacts
<1>2. l.dx = Abs(l.x2 - l.x1) /\ -l.dy = Abs(l.y2 - l.y1)
  <2>1. l.dx = Abs(l.x2 - l.x1) /\ l.dy = -Abs(l.y2 - l.y1)
    BY DEF LineInv
  <2> QED
    BY <1>1, <2>1 DEF Abs
<1>3. <<l.x, l.y>> \in Nearest(l)
  <2>1. /\ Between(l.x, l.x1, l.x2) /\ Between(l.y, l.y1, l.y2)
        /\ Deviation(l.x, l.y, l.x1, l.y1, l.x2, l.y2) <= Larger(l.dx, -l.dy)
    BY LineIsNear
  <2>2. /\ l.x \in Smaller(l.x1, l.x2)..Larger(l.x1, l.x2)
        /\ l.y \in Smaller(l.y1, l.y2)..Larger(l.y1, l.y2)
    BY <1>1, <2>1 DEF Between, Smaller, Larger
  <2> QED
    BY <1>2, <2>1, <2>2 DEF Nearest, Span
<1>4. ASSUME ~(l.x = l.x2 /\ l.y = l.y2)
      PROVE  Steps(l, <<LineNext(l).x, LineNext(l).y>>) = Steps(l, <<l.x, l.y>>) + 1
  <2>1. IF -l.dy <= l.dx THEN Abs(LineNext(l).x - l.x1) = Abs(l.x - l.x1) + 1
                         ELSE Abs(LineNext(l).y - l.y1) = Abs(l.y - l.y1) + 1
    BY <1>4, LineGoesOn
  <2>2. Major(l) = IF -l.dy <= l.dx THEN 1 ELSE 2
    BY <1>1, <1>2 DEF Major
  <2> QED
    BY <2>1, <2>2 DEF Steps
<1> QED
  BY <1>3, <1>4

\* A pixel more, a step further.
LEMMA TraceGrows ==
  ASSUME NEW c, NEW p, p \in Nearest(c), NEW n, n = Steps(c, p), n \in Nat, TracedTo(c, n),
         \A q \in Nearest(c) : Steps(c, q) \in Int, Put({p}, Ink)
  PROVE  TracedTo(c, n + 1)' /\ Painted' = Painted \cup ({p} \cap Grid)
<1>1. Painted' = Painted \cup ({p} \cap Grid)
  BY DEF Painted, Put, Ink, Blank
<1>2. \A q \in Painted : q \in Nearest(c) /\ Steps(c, q) < n
  BY DEF TracedTo
<1>3. \A q \in Painted : Steps(c, q) # n
  BY <1>2
<1>4. Painted' \subseteq Nearest(c)
  BY <1>1, <1>2
<1>5. \A q \in Painted' : Steps(c, q) < n + 1
  <2> SUFFICES ASSUME NEW q \in Painted' PROVE Steps(c, q) < n + 1
    OBVIOUS
  <2>1. CASE q = p
    BY <2>1
  <2>2. CASE q \in Painted
    <3>1. Steps(c, q) < n /\ Steps(c, q) \in Int
      BY <1>2, <2>2 DEF TracedTo
    <3> QED
      BY <3>1
  <2> QED
    BY <1>1, <2>1, <2>2
<1>6. \A q, r \in Painted' : Steps(c, q) = Steps(c, r) => q = r
  BY <1>1, <1>3 DEF TracedTo
<1>7. ASSUME NEW a \in 0..n
      PROVE  \E q \in Nearest(c) : Steps(c, q) = a /\ (q \in Grid => q \in Painted')
  <2>1. CASE a = n
    BY <1>1, <2>1
  <2>2. CASE a # n
    <3>1. a \in 0..(n - 1)
      BY <2>2
    <3> QED
      BY <1>1, <3>1 DEF TracedTo
  <2> QED
    BY <2>1, <2>2
<1>8. 0..((n + 1) - 1) = 0..n
  OBVIOUS
<1> QED
  BY <1>1, <1>4, <1>5, <1>6, <1>7, <1>8 DEF TracedTo

\* A line that is traced to its end has its shape.
LEMMA TraceEnds ==
  ASSUME NEW c, c.x1 \in Int, c.y1 \in Int, c.x2 \in Int, c.y2 \in Int,
         TracedTo(c, Steps(c, <<c.x2, c.y2>>) + 1)',
         {<<c.x1, c.y1>>, <<c.x2, c.y2>>} \cap Grid \subseteq Painted'
  PROVE  LineShape(c)'
<1> DEFINE across(p) == {q \in Nearest(c) : q[Major(c)] = p[Major(c)]}
           n == Steps(c, <<c.x2, c.y2>>)
<1>1. \A p, q \in Nearest(c) : Steps(c, p) = Steps(c, q) <=> p[Major(c)] = q[Major(c)]
  BY StepsLaws
<1>2. \A p \in Nearest(c) : Steps(c, p) \in 0..n
  BY StepsLaws
<1> HIDE DEF n
<1>3. Painted' \subseteq Nearest(c)
  BY DEF TracedTo
<1>4. ASSUME NEW p \in Painted' PROVE across(p) \cap Painted' = {p}
  <2>1. \A q \in across(p) \cap Painted' : q = p
    BY <1>1, <1>3 DEF TracedTo
  <2>2. p \in across(p)
    BY <1>3
  <2> QED
    BY <2>1, <2>2
<1>5. ASSUME NEW p \in Nearest(c), across(p) \subseteq Grid PROVE across(p) \cap Painted' # {}
  <2>1. Steps(c, p) \in 0..((n + 1) - 1)
    <3>1. Steps(c, p) \in 0..n
      BY <1>2
    <3>2. n \in Int => (n + 1) - 1 = n
      OBVIOUS
    <3>3. n \in Int
      BY DEF n, Steps, Abs, Major
    <3> QED
      BY <3>1, <3>2, <3>3
  <2>2. PICK q \in Nearest(c) : Steps(c, q) = Steps(c, p) /\ (q \in Grid => q \in Painted')
    BY <2>1 DEF TracedTo, n
  <2>3. q \in across(p)
    BY <1>1, <2>2
  <2> QED
    BY <1>5, <2>2, <2>3
<1> QED
  BY <1>3, <1>4, <1>5 DEF LineShape

-----------------------------------------------------------------------------
\* The ends of the line of the call.
LEMMA LineFields ==
  ASSUME CallInv, call.op = "line"
  PROVE  /\ call.x1 \in Int /\ call.y1 \in Int /\ call.x2 \in Int /\ call.y2 \in Int
         /\ \A p \in Nearest(call) : Steps(call, p) \in Nat
<1>1. call.x1 \in Int /\ call.y1 \in Int /\ call.x2 \in Int /\ call.y2 \in Int
  BY DEF CallInv, Calls, TextParts, CircleParts
<1>2. /\ Steps(call, <<call.x2, call.y2>>) \in Nat
      /\ \A p \in Nearest(call) : Steps(call, p) \in 0..Steps(call, <<call.x2, call.y2>>)
  BY <1>1, StepsLaws
<1> QED
  BY <1>1, <1>2

\* The loop of the line begins: no step is behind it.
LEMMA LineTraceBegins ==
  ASSUME LoopInv, CallInv, Tracing, call.op = "line", LineBegins
  PROVE  Tracing'
<1> DEFINE q == Line(call.x1, call.y1, call.x2, call.y2, Ink)
<1>1. todo # <<>> /\ cur = NoLoop /\ cur' = LineLoop(Head(todo)) /\ todo' = Tail(todo)
      /\ pixels' = pixels /\ call' = call
  BY DEF LineBegins, Begins
<1>2. todo = <<q>> /\ Painted = {}
  BY <1>1 DEF Tracing, NoLoop
<1>3. Head(todo) = q /\ todo' = <<>>
  BY <1>1, <1>2
<1>4. /\ q.x1 = call.x1 /\ q.y1 = call.y1 /\ q.x2 = call.x2 /\ q.y2 = call.y2 /\ q.c = Ink
  BY DEF Line
<1> HIDE DEF q
<1>5. /\ cur'.op = "line" /\ cur'.c = Ink
      /\ cur'.x1 = call.x1 /\ cur'.y1 = call.y1 /\ cur'.x2 = call.x2 /\ cur'.y2 = call.y2
      /\ cur'.x = call.x1 /\ cur'.y = call.y1
  BY <1>1, <1>3, <1>4 DEF LineLoop, LineAt
<1>6. Painted' = {}
  BY <1>1, <1>2 DEF Painted
<1>7. Steps(call, <<call.x1, call.y1>>) = 0
  BY LineFields, StepsLaws
<1>8. TracedTo(call, 0)'
  BY <1>1, <1>6 DEF TracedTo
<1> QED
  BY <1>1, <1>3, <1>5, <1>7, <1>8 DEF Tracing

\* The loop paints its pixel and takes a step, or ends.
LEMMA LineTraceSteps ==
  ASSUME LoopInv, CallInv, Tracing, call.op = "line", LineStep
  PROVE  Tracing'
<1>0. PICK c, p, n : c = call /\ p = <<cur.x, cur.y>> /\ n = Steps(c, p)
  OBVIOUS
<1> DEFINE first == <<c.x1, c.y1>>  last == <<c.x2, c.y2>>
<1>1. /\ cur.op = "line" /\ LineInv(cur) /\ call' = c /\ todo' = todo
      /\ Put({p}, cur.c)
      /\ cur' = IF cur.x = cur.x2 /\ cur.y = cur.y2 THEN NoLoop ELSE LineNext(cur)
  BY <1>0 DEF LineStep, LoopInv
<1>2. /\ todo = <<>> /\ cur.c = Ink /\ SameEnds(c, cur) /\ TracedTo(c, n)
      /\ {first} \cap Grid \subseteq Painted \cup {p}
  BY <1>0, <1>1 DEF Tracing, NoLoop, SameEnds
<1>3. /\ Nearest(c) = Nearest(cur) /\ \A r : Steps(c, r) = Steps(cur, r)
  BY <1>2, SameLine
<1>5. \A r \in Nearest(c) : Steps(c, r) \in Nat /\ Steps(c, r) \in Int
  BY <1>0, LineFields
<1>4. p \in Nearest(c) /\ n \in Nat
  <2>1. p \in Nearest(c)
    BY <1>0, <1>1, <1>3, LoopTraces
  <2> QED
    BY <1>0, <1>5, <2>1
<1>6. TracedTo(c, n + 1)' /\ Painted' = Painted \cup ({p} \cap Grid)
  BY <1>0, <1>1, <1>2, <1>4, <1>5, TraceGrows
<1>7. {first} \cap Grid \subseteq Painted'
  BY <1>2, <1>6
<1>8. CASE cur.x = cur.x2 /\ cur.y = cur.y2
  <2>1. p = last
    BY <1>0, <1>2, <1>8 DEF SameEnds
  <2>2. {first, last} \cap Grid \subseteq Painted'
    BY <1>6, <1>7, <2>1
  <2>3. TracedTo(c, Steps(c, last) + 1)'
    <3>1. n = Steps(c, last)
      BY <1>0, <2>1
    <3> QED
      BY <1>6, <3>1
  <2>4. LineShape(c)'
    <3>1. /\ c.x1 \in Int /\ c.y1 \in Int /\ c.x2 \in Int /\ c.y2 \in Int
      BY <1>0, LineFields
    <3> QED
      BY <2>2, <2>3, <3>1, TraceEnds
  <2> QED
    BY <1>1, <1>2, <1>8, <2>4 DEF Tracing
<1>9. CASE ~(cur.x = cur.x2 /\ cur.y = cur.y2)
  <2>1. cur' = LineNext(cur)
    BY <1>1, <1>9
  <2>2. /\ cur'.op = "line" /\ cur'.c = cur.c
        /\ cur'.x1 = cur.x1 /\ cur'.y1 = cur.y1 /\ cur'.x2 = cur.x2 /\ cur'.y2 = cur.y2
    BY <2>1 DEF LineNext, LineAt
  <2>3. Steps(c, <<cur'.x, cur'.y>>) = n + 1
    BY <1>0, <1>1, <1>3, <1>9, <2>1, LoopTraces
  <2>4. Steps(call, <<cur.x, cur.y>>)' = n + 1
    BY <1>1, <2>3
  <2>5. TracedTo(call, Steps(call, <<cur.x, cur.y>>))'
    BY <1>1, <1>6, <2>4
  <2>6. {<<call'.x1, call'.y1>>} \cap Grid \subseteq Painted' \cup {<<cur'.x, cur'.y>>}
    BY <1>1, <1>7
  <2> QED
    BY <1>1, <1>2, <2>2, <2>5, <2>6 DEF Tracing, SameEnds
<1> QED
  BY <1>8, <1>9

\* No other turn is taken in a line.
LEMMA TurnKeepsTracing ==
  ASSUME LoopInv, CallInv, Tracing, Turn
  PROVE  Tracing'
<1>1. call' = call
  BY DEF Turn, LineBegins, LineStep, CircleBegins, CircleStep, TextBegins, TextStep, PaintPixels
<1> SUFFICES ASSUME call.op = "line" PROVE Tracing'
  BY <1>1 DEF Tracing
<1>2. /\ todo # <<>> => Head(todo).op = "line"
      /\ cur.op \in {"none", "line"}
  BY DEF Tracing, NoLoop, Line
<1>3. LineBegins \/ LineStep
  BY <1>2 DEF Turn, LineBegins, LineStep, CircleBegins, CircleStep, TextBegins, TextStep, PaintPixels,
              Begins
<1> QED
  BY <1>3, LineTraceBegins, LineTraceSteps

\* Calls other than lines have nothing to trace.
LEMMA StepKeepsTracing ==
  ASSUME LoopInv, CallInv, Tracing, [Next]_vars
  PROVE  Tracing'
<1>1. ASSUME NEW x \in Coords, NEW y \in Coords, NEW x2 \in Coords, NEW y2 \in Coords,
             DrawLine(x, y, x2, y2)
      PROVE  Tracing'
  <2>1. /\ call' = [op |-> "line", x1 |-> x, y1 |-> y, x2 |-> x2, y2 |-> y2]
        /\ todo' = <<Line(x, y, x2, y2, Ink)>> /\ cur' = NoLoop /\ pixels' = Cleared
    BY <1>1 DEF DrawLine, Draw, CallInv
  <2>2. Painted' = {}
    BY <2>1 DEF Painted, Cleared
  <2>3. todo' = <<Line(call'.x1, call'.y1, call'.x2, call'.y2, Ink)>>
    BY <2>1
  <2> QED
    BY <2>1, <2>2, <2>3 DEF Tracing
<1>2. ASSUME NEW c, NEW parts, c.op # "line", Draw(c, parts)
      PROVE  Tracing'
  BY <1>2 DEF Draw, Tracing
<1>6. ASSUME NEW x \in Coords, NEW y \in Coords,
             \/ DrawPixel(x, y)
             \/ \E w, h \in Sizes, fill \in BOOLEAN :
                  \/ DrawRect(x, y, w, h, fill)
                  \/ \E r \in Radii : DrawRoundedRect(x, y, w, h, r, fill)
             \/ \E r \in Radii, fill \in BOOLEAN : DrawCircle(x, y, r, fill)
             \/ \E w, h \in Sizes, top, bottom \in Colours :
                  DrawGradientRect(x, y, w, h, top, bottom)
             \/ \E b \in Bitmaps, transparent \in BOOLEAN : DrawBitmapMono(x, y, b, transparent)
             \/ \E b \in Bitmaps, scale \in Scales : DrawBitmapMonoScaled(x, y, b, scale)
             \/ \E text \in Texts : DrawText(x, y, text)
      PROVE  Tracing'
  <2>1. CASE DrawPixel(x, y)
    BY <1>2, <2>1 DEF DrawPixel
  <2>2. CASE \E w, h \in Sizes, fill \in BOOLEAN :
               \/ DrawRect(x, y, w, h, fill)
               \/ \E r \in Radii : DrawRoundedRect(x, y, w, h, r, fill)
    <3>1. PICK w \in Sizes, h \in Sizes, fill \in BOOLEAN :
            \/ DrawRect(x, y, w, h, fill)
            \/ \E r \in Radii : DrawRoundedRect(x, y, w, h, r, fill)
      BY <2>2
    <3>2. CASE DrawRect(x, y, w, h, fill)
      BY <1>2, <3>2 DEF DrawRect
    <3>3. CASE \E r \in Radii : DrawRoundedRect(x, y, w, h, r, fill)
      BY <1>2, <3>3 DEF DrawRoundedRect
    <3> QED
      BY <3>1, <3>2, <3>3
  <2>3. CASE \E r \in Radii, fill \in BOOLEAN : DrawCircle(x, y, r, fill)
    BY <1>2, <2>3 DEF DrawCircle, Circle
  <2>4. CASE \E w, h \in Sizes, top, bottom \in Colours :
               DrawGradientRect(x, y, w, h, top, bottom)
    BY <1>2, <2>4 DEF DrawGradientRect
  <2>5. CASE \E b \in Bitmaps, transparent \in BOOLEAN : DrawBitmapMono(x, y, b, transparent)
    BY <1>2, <2>5 DEF DrawBitmapMono
  <2>6. CASE \E b \in Bitmaps, scale \in Scales : DrawBitmapMonoScaled(x, y, b, scale)
    BY <1>2, <2>6 DEF DrawBitmapMonoScaled
  <2>7. CASE \E text \in Texts : DrawText(x, y, text)
    BY <1>2, <2>7 DEF DrawText
  <2> QED
    BY <1>6, <2>1, <2>2, <2>3, <2>4, <2>5, <2>6, <2>7
<1>3. CASE Turn
  BY <1>3, TurnKeepsTracing
<1>4. CASE Clear
  BY <1>4 DEF Clear, NoCall, Tracing
<1>5. CASE UNCHANGED vars
  <2>1. call' = call /\ pixels' = pixels /\ todo' = todo /\ cur' = cur
    BY <1>5 DEF vars
  <2>2. Painted' = Painted
    BY <2>1 DEF Painted
  <2> QED
    BY <2>1, <2>2 DEF Tracing, TracedTo, LineShape
<1> QED
  BY <1>1, <1>3, <1>4, <1>5, <1>6 DEF Next

\* A finished line.
LEMMA LineShown ==
  ASSUME Tracing, call.op = "line", ~Running
  PROVE  LineShape(call)
<1>1. cur = NoLoop /\ cur.op = "none" /\ todo = <<>>
  BY DEF Running, NoLoop
<1>2. todo # <<Line(call.x1, call.y1, call.x2, call.y2, Ink)>>
  BY <1>1
<1> QED
  BY <1>1, <1>2 DEF Tracing

-----------------------------------------------------------------------------
\* libgraphics (lib.rs:260-607): when a call returns, the canvas shows the shape of
\* the call, for every canvas, every argument and whatever order the calls come in.
THEOREM ShapesDrawn == Spec => []ShapeDrawn
<1>1. Init => ShapeInv /\ Tracing
  <2>1. Init => Tracing
    BY DEF Init, Tracing, NoCall
  <2> QED
    BY <2>1, LoopInit, PaintingStarts DEF ShapeInv
<1>2. ShapeInv /\ Tracing /\ [Next]_vars /\ LoopInv' => ShapeInv' /\ Tracing'
  BY StepKeepsPainting, StepKeepsTracing DEF ShapeInv
<1>3. ShapeInv /\ Tracing => ShapeDrawn
  <2>1. CASE Plain(call)
    BY <2>1, PlainShown
  <2>2. CASE ~Plain(call)
    BY <2>2, LineShown DEF Plain, ShapeDrawn
  <2> QED
    BY <2>1, <2>2
<1> QED
  BY LoopsOnTrack, <1>1, <1>2, <1>3, PTL DEF Spec
=============================================================================
