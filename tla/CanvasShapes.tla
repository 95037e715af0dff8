---------------------------- MODULE CanvasShapes ----------------------------
(***************************************************************************)
(* What each drawing call of Canvas should have painted, in other words    *)
(* than those of the code.                                                 *)
(***************************************************************************)
EXTENDS Canvas, FiniteSets

Painted  == {p \in Grid : pixels[p] # Blank}
Shows(S) == Painted = S \cap Grid

Span(x1, y1, x2, y2) ==
  (Smaller(x1, x2)..Larger(x1, x2)) \X (Smaller(y1, y2)..Larger(y1, y2))

\* The pixels at most half a pixel beside a line, along the shorter extent.
Nearest(l) ==
  {p \in Span(l.x1, l.y1, l.x2, l.y2) :
     Deviation(p[1], p[2], l.x1, l.y1, l.x2, l.y2)
       <= Larger(Abs(l.x2 - l.x1), Abs(l.y2 - l.y1))}

Major(l) == IF Abs(l.x2 - l.x1) >= Abs(l.y2 - l.y1) THEN 1 ELSE 2

\* One pixel, of those that are nearest, in each column, or in each row if the
\* line is steep.
LineShape(l) ==
  LET across(p) == {q \in Nearest(l) : q[Major(l)] = p[Major(l)]}
  IN /\ Painted \subseteq Nearest(l)
     /\ {<<l.x1, l.y1>>, <<l.x2, l.y2>>} \cap Grid \subseteq Painted
     /\ \A p \in Painted : across(p) \cap Painted = {p}
     /\ \A p \in Nearest(l) : across(p) \subseteq Grid => across(p) \cap Painted # {}

At(x, y, S) == {<<x + p[1], y + p[2]>> : p \in S}

\* The pixels about a circle, and those well inside it.
Band(r)   == {p \in (-r..r) \X (-r..r) : OnCircle(p[1], p[2], r)}
Inside(r) == {p \in (-r..r) \X (-r..r) :
                4 * (p[1] * p[1] + p[2] * p[2]) <= (2 * r - 3) * (2 * r - 3)}
\* The two pixels at the ends of each axis.
Poles(r)  == {<<r, 0>>, <<-r, 0>>, <<0, r>>, <<0, -r>>}

\* A ring is a part of the band without a gap in a row or a column, a disc fills
\* it; both are the same in all eight octants.
CircleShape(c) ==
  LET band == At(c.cx, c.cy, Band(c.r))
      shown(a, b) == <<c.cx + a, c.cy + b>> \in Painted
      seen(a, b)  == <<c.cx + a, c.cy + b>> \in Grid
  IN /\ Painted \subseteq band \cup (IF c.fill THEN At(c.cx, c.cy, Inside(c.r)) ELSE {})
     /\ c.fill => At(c.cx, c.cy, Inside(c.r)) \cap Grid \subseteq Painted
     /\ At(c.cx, c.cy, Poles(c.r)) \cap Grid \subseteq Painted
     /\ \A p \in band, i \in {1, 2} :
          {q \in band : q[i] = p[i]} \subseteq Grid => \E q \in Painted \cap band : q[i] = p[i]
     /\ \A a, b \in -c.r..c.r : shown(a, b) =>
          \A s, t \in {1, -1} : /\ seen(s * a, t * b) => shown(s * a, t * b)
                               /\ seen(s * b, t * a) => shown(s * b, t * a)

\* The pixels at most r from the box that is r smaller on each side.
RoundedShape(c) ==
  LET r == Larger(0, Smaller(c.r, Smaller(c.w, c.h) \div 2))
      beyond(a, lo, hi) == Larger(0, Larger(lo - a, a - hi))
      dx(p) == beyond(p[1], c.x + r, c.x + c.w - 1 - r)
      dy(p) == beyond(p[2], c.y + r, c.y + c.h - 1 - r)
  IN {p \in Box(c.x, c.y, c.w, c.h) : dx(p) * dx(p) + dy(p) * dy(p) <= r * r}

\* The four edges as far as the corners, and in each corner a circle of its own.
Edges(c) ==
  LET x2 == c.x + c.w - 1   y2 == c.y + c.h - 1
  IN Span(c.x + c.r, c.y, x2 - c.r, c.y) \cup Span(c.x + c.r, y2, x2 - c.r, y2)
       \cup Span(c.x, c.y + c.r, c.x, y2 - c.r) \cup Span(x2, c.y + c.r, x2, y2 - c.r)
Corners(c) == {c.x + c.r, c.x + c.w - c.r - 1} \X {c.y + c.r, c.y + c.h - c.r - 1}

RoundedOutline(c) ==
  /\ Edges(c) \cap Grid \subseteq Painted
  /\ Painted \subseteq Edges(c) \cup UNION {At(q[1], q[2], Band(c.r)) : q \in Corners(c)}
  /\ Painted \subseteq Box(c.x, c.y, c.w, c.h)
  /\ \A p \in Painted :
       {<<2 * c.x + c.w - 1 - p[1], p[2]>>, <<p[1], 2 * c.y + c.h - 1 - p[2]>>} \cap Grid
         \subseteq Painted

RadiusFits(c) == 0 < c.r /\ 2 * c.r < c.w /\ 2 * c.r < c.h

\* Rows of one colour each, from one end to the other without a step back.
GradientShape(c) ==
  LET rows == {p[2] : p \in Painted}
      colour(v) == {pixels[p] : p \in {q \in Painted : q[2] = v}}
  IN /\ Shows(Box(c.x, c.y, c.w, c.h))
     /\ \A v \in rows : \A a \in colour(v) :
          /\ colour(v) = {a} /\ Between(a, c.top, c.bottom)
          /\ v = c.y => a = c.top
          /\ v = c.y + c.h - 1 /\ c.h > 1 => a = c.bottom
          /\ \A u \in rows : \A b \in colour(u) : u < v => Between(b, c.top, a)

\* Each row begins with a byte of its own, highest bit first.
Area(c) == Box(c.x, c.y, c.b.w * c.scale, c.b.h * c.scale)
Lit(c, p) ==
  LET stride == 8 * ((c.b.w + 7) \div 8)
      bit == ((p[2] - c.y) \div c.scale) * stride + (p[1] - c.x) \div c.scale
  IN (7 - (bit % 8)) \in c.b.bits[bit \div 8]

BitmapShape(c) ==
  \A p \in Grid :
    pixels[p] = IF p \in Area(c) /\ Lit(c, p) THEN Ink
                ELSE IF p \in Area(c) /\ c.ground THEN Ground ELSE Blank

\* Byte i is drawn as many cells to the right as bytes are in its line before
\* it, and as many down as newlines are before it.
Newlines(text, i) == {j \in 1..(i-1) : text[j] = "newline"}
Column(text, i) == {j \in 1..(i-1) : \A k \in Newlines(text, i) : j > k}
CellX(c, i) == c.x + 8 * Cardinality(Column(c.text, i))
CellY(c, i) == c.y + 8 * Cardinality(Newlines(c.text, i))
\* The pixels of the letters from the n-th byte on.
TextFrom(c, n) ==
  UNION {At(CellX(c, i), CellY(c, i), Glyph[c.text[i]]) :
           i \in {j \in n..Len(c.text) : c.text[j] \in DOMAIN Glyph}}

\* What the calls show that paint with one colour.
Solid(c) ==
  CASE c.op = "none"    -> {}
    [] c.op = "pixel"   -> {<<c.x, c.y>>}
    [] c.op = "rect"    -> Box(c.x, c.y, c.w, c.h) \
                             (IF c.fill THEN {} ELSE Box(c.x + 1, c.y + 1, c.w - 2, c.h - 2))
    [] c.op = "rounded" -> RoundedShape(c)
    [] c.op = "text"    -> TextFrom(c, 1)

-----------------------------------------------------------------------------
\* When a call returns, the canvas shows its shape, cut off at the edges of the
\* canvas, and nothing else (lib.rs:260-607). Two kinds of calls are excepted,
\* which no program of the repository makes: a circle of radius 0 paints four pixels
\* beside its centre, and the outline of a rounded rectangle does not limit its
\* radius as the filled one does (lib.rs:168-173, 489-498).
ShapeDrawn ==
  ~Running =>
    CASE call.op = "line"     -> LineShape(call)
      [] call.op = "circle"   -> IF call.r < 0 THEN Painted = {}
                                 ELSE call.r = 0 \/ CircleShape(call)
      [] call.op = "gradient" -> GradientShape(call)
      [] call.op = "bitmap"   -> BitmapShape(call)
      [] call.op = "rounded" /\ ~call.fill /\ ~Empty(call.w, call.h)
                              -> RadiusFits(call) => RoundedOutline(call)
      [] OTHER                -> Shows(Solid(call))
=============================================================================
