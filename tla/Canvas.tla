------------------------------- MODULE Canvas -------------------------------
(***************************************************************************)
(* libgraphics, the rasterizer of every shell and application: the drawing *)
(* calls on a canvas, one at a time on a cleared canvas. A call becomes a  *)
(* sequence of parts: lines and circles, which are loops over integers,    *)
(* one step for each turn, and sets of pixels.                             *)
(*                                                                         *)
(* A colour is the value of one channel: lerp_color treats the four alike. *)
(* The arithmetic is that of i32 as long as nothing overflows; NearLine    *)
(* bounds what the line's loop adds up.                                    *)
(***************************************************************************)
EXTENDS Integers, Sequences

CONSTANTS
  Width, Height,  \* the canvas
  Coords,         \* where programs put shapes, on the canvas or not
  Sizes,          \* their widths and heights, positive or not
  Radii,          \* their radii
  Colours,        \* ends of gradients
  Scales,         \* of bitmaps
  Bitmaps,        \* [w, h, bits]: rows of whole bytes, a byte as its set of 1 bits
  Glyph,          \* the font: letter -> its pixels, of 8 x 8
  Texts           \* sequences of letters, "newline" and "other" bytes

ASSUME CanvasSize    == Width \in Nat /\ Height \in Nat
ASSUME CoordsAreInt  == Coords \subseteq Int
ASSUME SizesAreInt   == Sizes \subseteq Int
ASSUME RadiiAreInt   == Radii \subseteq Int
ASSUME ColoursAreInt == Colours \subseteq 0..255
ASSUME TextsAreBytes ==
  "newline" \notin DOMAIN Glyph /\ Texts \subseteq Seq(DOMAIN Glyph \cup {"newline", "other"})
ASSUME BitmapsHaveSizes == Scales \subseteq Nat /\ \A b \in Bitmaps : b.w \in Nat /\ b.h \in Nat

VARIABLES
  pixels,  \* the colour of each pixel
  call,    \* the call that runs or has just returned
  todo,    \* its parts that have not begun
  cur      \* the loop of the part that runs

vars == <<pixels, call, todo, cur>>

Blank == -1  \* the colour of canvas_clear
Ink   == 1   \* the colour of all calls but gradients
Ground == 2  \* the background of a bitmap

Grid    == (0..Width-1) \X (0..Height-1)
Cleared == [p \in Grid |-> Blank]
NoCall  == [op |-> "none"]
NoLoop  == [op |-> "none"]

Abs(a)       == IF a < 0 THEN -a ELSE a
Larger(a, b) == IF a < b THEN b ELSE a
Smaller(a, b) == IF a < b THEN a ELSE b
\* The integer division of i32, towards zero.
Quotient(a, b) == IF a < 0 THEN -((-a) \div b) ELSE a \div b

\* set_pixel_raw, which drops what is not on the canvas.
Put(S, c) == pixels' = [p \in Grid |-> IF p \in S THEN c ELSE pixels[p]]

Init == pixels = Cleared /\ call = NoCall /\ todo = <<>> /\ cur = NoLoop

Running  == cur # NoLoop \/ todo # <<>>
Begins(op) == cur = NoLoop /\ todo # <<>> /\ Head(todo).op = op

-----------------------------------------------------------------------------
(***************************************************************************)
(* canvas_draw_line                                                        *)
(***************************************************************************)
Line(x1, y1, x2, y2, c) ==
  [op |-> "line", x1 |-> x1, y1 |-> y1, x2 |-> x2, y2 |-> y2, c |-> c]

\* The loop's variables; dx, sx, dy and sy are those of its ends.
LineAt(l, x, y, err) ==
  [op |-> "line", x1 |-> l.x1, y1 |-> l.y1, x2 |-> l.x2, y2 |-> l.y2, c |-> l.c,
   dx |-> Abs(l.x2 - l.x1), sx |-> IF l.x1 < l.x2 THEN 1 ELSE -1,
   dy |-> -Abs(l.y2 - l.y1), sy |-> IF l.y1 < l.y2 THEN 1 ELSE -1,
   x |-> x, y |-> y, err |-> err]

LineLoop(l) == LineAt(l, l.x1, l.y1, Abs(l.x2 - l.x1) - Abs(l.y2 - l.y1))

\* Mutant: the two tests have their bounds swapped.
LineNextStuck(l) ==
  LET stepX == 2 * l.err >= l.dx
      stepY == 2 * l.err <= l.dy
  IN LineAt(l, IF stepX THEN l.x + l.sx ELSE l.x, IF stepY THEN l.y + l.sy ELSE l.y,
            l.err + (IF stepX THEN l.dy ELSE 0) + (IF stepY THEN l.dx ELSE 0))

\* Mutant: the error is doubled once for both tests, after the first one.
LineNextLate(l) ==
  LET stepX == 2 * l.err >= l.dy
      stepY == 2 * (l.err + (IF stepX THEN l.dy ELSE 0)) <= l.dx
  IN LineAt(l, IF stepX THEN l.x + l.sx ELSE l.x, IF stepY THEN l.y + l.sy ELSE l.y,
            l.err + (IF stepX THEN l.dy ELSE 0) + (IF stepY THEN l.dx ELSE 0))

LineNext(l) ==
  LET stepX == 2 * l.err >= l.dy
      stepY == 2 * l.err <= l.dx
  IN LineAt(l, IF stepX THEN l.x + l.sx ELSE l.x, IF stepY THEN l.y + l.sy ELSE l.y,
            l.err + (IF stepX THEN l.dy ELSE 0) + (IF stepY THEN l.dx ELSE 0))

LineBegins ==
  /\ Begins("line")
  /\ cur' = LineLoop(Head(todo)) /\ todo' = Tail(todo)
  /\ UNCHANGED <<pixels, call>>

LineStep ==
  /\ cur.op = "line"
  /\ Put({<<cur.x, cur.y>>}, cur.c)
  /\ cur' = IF cur.x = cur.x2 /\ cur.y = cur.y2 THEN NoLoop ELSE LineNext(cur)
  /\ UNCHANGED <<call, todo>>

-----------------------------------------------------------------------------
(***************************************************************************)
(* canvas_draw_circle                                                      *)
(***************************************************************************)
Circle(cx, cy, r, fill) == [op |-> "circle", cx |-> cx, cy |-> cy, r |-> r, fill |-> fill]

CircleAt(k, x, y, d) ==
  [op |-> "circle", cx |-> k.cx, cy |-> k.cy, r |-> k.r, fill |-> k.fill,
   x |-> x, y |-> y, d |-> d]

CircleLoop(k) == CircleAt(k, 0, k.r, 3 - 2 * k.r)

\* Mutant: d gets the increment of the other branch.
CircleNextSwapped(k) ==
  IF k.d > 0
    THEN CircleAt(k, k.x + 1, k.y - 1, k.d + 4 * (k.x + 1) + 6)
    ELSE CircleAt(k, k.x + 1, k.y, k.d + 4 * ((k.x + 1) - k.y) + 10)

CircleNext(k) ==
  IF k.d > 0
    THEN CircleAt(k, k.x + 1, k.y - 1, k.d + 4 * ((k.x + 1) - (k.y - 1)) + 10)
    ELSE CircleAt(k, k.x + 1, k.y, k.d + 4 * (k.x + 1) + 6)

\* draw_circle_octants, draw_circle_filled_octants
Octants(k) ==
  IF k.fill
    THEN (((k.cx - k.x)..(k.cx + k.x)) \X {k.cy + k.y, k.cy - k.y})
           \cup (((k.cx - k.y)..(k.cx + k.y)) \X {k.cy + k.x, k.cy - k.x})
    ELSE ({k.cx + k.x, k.cx - k.x} \X {k.cy + k.y, k.cy - k.y})
           \cup ({k.cx + k.y, k.cx - k.y} \X {k.cy + k.x, k.cy - k.x})

CircleBegins ==
  /\ Begins("circle") /\ todo' = Tail(todo)
  /\ IF Head(todo).r < 0
       THEN UNCHANGED <<pixels, cur>>
       ELSE cur' = CircleLoop(Head(todo)) /\ Put(Octants(CircleLoop(Head(todo))), Ink)
  /\ UNCHANGED call

\* The last turn may go past the diagonal.
CircleStep ==
  /\ cur.op = "circle"
  /\ IF cur.y >= cur.x
       THEN cur' = CircleNext(cur) /\ Put(Octants(CircleNext(cur)), Ink)
       ELSE cur' = NoLoop /\ UNCHANGED pixels
  /\ UNCHANGED <<call, todo>>

-----------------------------------------------------------------------------
(***************************************************************************)
(* canvas_draw_text, with the pen at <<curX, y>>                           *)
(***************************************************************************)
\* canvas_draw_char; a byte outside 32..126 has no glyph.
Char(x, y, ch) ==
  IF ch \in DOMAIN Glyph THEN {<<x + g[1], y + g[2]>> : g \in Glyph[ch]} ELSE {}

TextAt(x, curX, y, rest) == [op |-> "text", x |-> x, curX |-> curX, y |-> y, rest |-> rest]

TextBegins ==
  /\ Begins("text")
  /\ LET t == Head(todo) IN cur' = TextAt(t.x, t.x, t.y, t.text)
  /\ todo' = Tail(todo)
  /\ UNCHANGED <<pixels, call>>

TextStep ==
  /\ cur.op = "text"
  /\ IF cur.rest = <<>> THEN cur' = NoLoop /\ UNCHANGED pixels
     ELSE IF Head(cur.rest) = "newline"
       THEN /\ cur' = TextAt(cur.x, cur.x, cur.y + 8, Tail(cur.rest))
            /\ UNCHANGED pixels
       ELSE /\ cur' = TextAt(cur.x, cur.curX + 8, cur.y, Tail(cur.rest))
            /\ Put(Char(cur.curX, cur.y, Head(cur.rest)), Ink)
  /\ UNCHANGED <<call, todo>>

-----------------------------------------------------------------------------
(***************************************************************************)
(* The calls that paint pixel by pixel, and the parts of the others.       *)
(***************************************************************************)
Pixels(S, c) == [op |-> "pixels", at |-> S, c |-> c]

PaintPixels ==
  /\ Begins("pixels")
  /\ Put(Head(todo).at, Head(todo).c) /\ todo' = Tail(todo)
  /\ UNCHANGED <<call, cur>>

Draw(c, parts) ==
  /\ call = NoCall
  /\ call' = c /\ todo' = parts
  /\ UNCHANGED <<pixels, cur>>

\* canvas_set_pixel
DrawPixel(x, y) == Draw([op |-> "pixel", x |-> x, y |-> y], <<Pixels({<<x, y>>}, Ink)>>)

DrawLine(x1, y1, x2, y2) ==
  Draw([op |-> "line", x1 |-> x1, y1 |-> y1, x2 |-> x2, y2 |-> y2],
       <<Line(x1, y1, x2, y2, Ink)>>)

\* A shape without pixels is not drawn.
Empty(w, h) == w <= 0 \/ h <= 0

Box(x, y, w, h) == (x..(x + w - 1)) \X (y..(y + h - 1))

DrawRect(x, y, w, h, fill) ==
  Draw([op |-> "rect", x |-> x, y |-> y, w |-> w, h |-> h, fill |-> fill],
       IF Empty(w, h) THEN <<>>
       ELSE IF fill THEN <<Pixels(Box(x, y, w, h), Ink)>>
       ELSE <<Line(x, y, x + w - 1, y, Ink),
              Line(x, y + h - 1, x + w - 1, y + h - 1, Ink),
              Line(x, y, x, y + h - 1, Ink),
              Line(x + w - 1, y, x + w - 1, y + h - 1, Ink)>>)

DrawCircle(cx, cy, r, fill) ==
  Draw(Circle(cx, cy, r, fill), <<Circle(cx, cy, r, fill)>>)

\* Mutant: the corners on the right and below take the first pixel beyond them.
InsideWiderRect(p, x, y, w, h, radius) ==
  LET r  == Smaller(radius, Smaller(w \div 2, h \div 2))
      left == p[1] < x + r   right == p[1] >= x + w - r
      top  == p[2] < y + r   bottom == p[2] >= y + h - r
      dx == p[1] - (IF left THEN x + r ELSE x + w - r)
      dy == p[2] - (IF top THEN y + r ELSE y + h - r)
  IN (left \/ right) /\ (top \/ bottom) => dx * dx + dy * dy <= r * r

\* Which centre each corner has; elsewhere a pixel of the box is inside.
InsideRoundedRect(p, x, y, w, h, radius) ==
  LET r  == Smaller(radius, Smaller(w \div 2, h \div 2))
      left == p[1] < x + r   right == p[1] >= x + w - r
      top  == p[2] < y + r   bottom == p[2] >= y + h - r
      dx == p[1] - (IF left THEN x + r ELSE x + w - r - 1)
      dy == p[2] - (IF top THEN y + r ELSE y + h - r - 1)
  IN (left \/ right) /\ (top \/ bottom) => dx * dx + dy * dy <= r * r

\* The outline does not limit its radius.
DrawRoundedRect(x, y, w, h, r, fill) ==
  Draw([op |-> "rounded", x |-> x, y |-> y, w |-> w, h |-> h, r |-> r, fill |-> fill],
       IF Empty(w, h) THEN <<>>
       ELSE IF fill
         THEN <<Pixels({p \in Box(x, y, w, h) : InsideRoundedRect(p, x, y, w, h, r)}, Ink)>>
         ELSE <<Line(x + r, y, x + w - r - 1, y, Ink),
                Line(x + r, y + h - 1, x + w - r - 1, y + h - 1, Ink),
                Line(x, y + r, x, y + h - r - 1, Ink),
                Line(x + w - 1, y + r, x + w - 1, y + h - r - 1, Ink),
                Circle(x + r, y + r, r, FALSE),
                Circle(x + w - r - 1, y + r, r, FALSE),
                Circle(x + r, y + h - r - 1, r, FALSE),
                Circle(x + w - r - 1, y + h - r - 1, r, FALSE)>>)

LerpColor(a, b, num, den) == IF den <= 0 THEN a ELSE a + Quotient((b - a) * num, den)

DrawGradientRect(x, y, w, h, top, bottom) ==
  Draw([op |-> "gradient", x |-> x, y |-> y, w |-> w, h |-> h, top |-> top, bottom |-> bottom],
       IF Empty(w, h) THEN <<>>
       ELSE [row \in 1..h |->
               Line(x, y + row - 1, x + w - 1, y + row - 1,
                    LerpColor(top, bottom, row - 1, IF h > 1 THEN h - 1 ELSE 1))])

Bit(b, col, row) == (7 - (col % 8)) \in b.bits[row * ((b.w + 7) \div 8) + col \div 8]

DrawBitmapMono(x, y, b, transparent) ==
  LET on  == {q \in Box(0, 0, b.w, b.h) : Bit(b, q[1], q[2])}
      off == IF transparent THEN {} ELSE Box(0, 0, b.w, b.h) \ on
      at(S) == {<<x + q[1], y + q[2]>> : q \in S}
  IN Draw([op |-> "bitmap", x |-> x, y |-> y, b |-> b, scale |-> 1,
           ground |-> ~transparent],
          <<Pixels(at(on), Ink), Pixels(at(off), Ground)>>)

DrawBitmapMonoScaled(x, y, b, scale) ==
  LET on == {q \in Box(0, 0, b.w, b.h) : Bit(b, q[1], q[2])}
  IN Draw([op |-> "bitmap", x |-> x, y |-> y, b |-> b, scale |-> scale, ground |-> FALSE],
          <<Pixels(UNION {Box(x + q[1] * scale, y + q[2] * scale, scale, scale) : q \in on}, Ink)>>)

DrawText(x, y, text) ==
  Draw([op |-> "text", x |-> x, y |-> y, text |-> text],
       <<[op |-> "text", x |-> x, y |-> y, text |-> text]>>)

\* The next frame begins with canvas_clear.
Clear ==
  /\ call # NoCall /\ ~Running
  /\ call' = NoCall /\ pixels' = Cleared
  /\ UNCHANGED <<todo, cur>>

Turn ==
  \/ LineBegins \/ LineStep \/ CircleBegins \/ CircleStep
  \/ TextBegins \/ TextStep \/ PaintPixels

Next ==
  \/ \E x, y \in Coords :
       \/ \E x2, y2 \in Coords : DrawLine(x, y, x2, y2)
       \/ DrawPixel(x, y)
       \/ \E w, h \in Sizes, fill \in BOOLEAN :
            \/ DrawRect(x, y, w, h, fill)
            \/ \E r \in Radii : DrawRoundedRect(x, y, w, h, r, fill)
       \/ \E r \in Radii, fill \in BOOLEAN : DrawCircle(x, y, r, fill)
       \/ \E w, h \in Sizes, top, bottom \in Colours : DrawGradientRect(x, y, w, h, top, bottom)
       \/ \E b \in Bitmaps, transparent \in BOOLEAN : DrawBitmapMono(x, y, b, transparent)
       \/ \E b \in Bitmaps, scale \in Scales : DrawBitmapMonoScaled(x, y, b, scale)
       \/ \E text \in Texts : DrawText(x, y, text)
  \/ Turn
  \/ Clear

Spec == Init /\ [][Next]_vars

\* A call runs on the thread that made it, until it returns.
FairSpec == Spec /\ WF_vars(Turn)

-----------------------------------------------------------------------------
Between(a, b, c) == (b <= a /\ a <= c) \/ (c <= a /\ a <= b)

\* Twice the distance from <<x, y>> to the line through <<x1, y1>> and
\* <<x2, y2>>, along the shorter of its two extents and times the longer one.
Deviation(x, y, x1, y1, x2, y2) == 2 * Abs((y - y1) * (x2 - x1) - (x - x1) * (y2 - y1))

\* <<x, y>> is at most half a pixel outside the circle of radius r around 0
\* and at most one and a half inside.
OnCircle(x, y, r) ==
  LET s == 4 * (x * x + y * y)
  IN (2 * r - 3) * (2 * r - 3) <= s /\ s <= (2 * r + 1) * (2 * r + 1)

\* A line's loop never leaves the box of its ends, is never more than half a
\* pixel beside the line, and its error stays within three times its longer
\* extent, so that no i32 overflows for shapes below 2^29 (lib.rs:284-304).
NearLine ==
  cur.op = "line" =>
    /\ Between(cur.x, cur.x1, cur.x2) /\ Between(cur.y, cur.y1, cur.y2)
    /\ Deviation(cur.x, cur.y, cur.x1, cur.y1, cur.x2, cur.y2) <= Larger(cur.dx, -cur.dy)
    /\ 2 * Abs(cur.err) <= 3 * Larger(cur.dx, -cur.dy)

\* Up to the diagonal, the pixels of a circle are at most half a pixel outside
\* it and one and a half inside (lib.rs:394-417). The half would be exact, but
\* lib.rs:405-410 adds the new x and y where the error needs the old ones.
NearCircle ==
  cur.op = "circle" /\ cur.r > 0 /\ cur.y >= cur.x => OnCircle(cur.x, cur.y, cur.r)

\* Every call returns, whatever it is called with (lib.rs:290-304, 404-417).
CallEnds == Running ~> ~Running
=============================================================================
