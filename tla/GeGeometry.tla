----------------------------- MODULE GeGeometry -----------------------------
(***************************************************************************)
(* Rectangles, surfaces and clipping of the graphics engine library.       *)
(* A rectangle is [x, y, w, h], a surface [w, h, phys, pitch, bytes], a    *)
(* clip region [x1, y1, x2, y2] with both corners inside.  Field is the    *)
(* largest value of the engine's 12-bit coordinate fields (0xfff).         *)
(***************************************************************************)
EXTENDS Integers, Sequences, FiniteSets, FiniteSetsExt

Pixels(r) == (r.x .. r.x + r.w - 1) \X (r.y .. r.y + r.h - 1)

RectangleValid(r, Field) ==
    /\ r.x \in 0..Field /\ r.y \in 0..Field
    /\ r.w \in 1..Field /\ r.h \in 1..Field

RectangleInSurface(r, s, Field) ==
    /\ RectangleValid(r, Field)
    /\ r.x + r.w <= s.w
    /\ r.y + r.h <= s.h

SurfaceValid(s, Field) ==
    /\ s.w \in 1..Field /\ s.h \in 1..Field
    /\ s.phys # 0 /\ s.phys % s.bytes = 0
    /\ s.pitch >= s.w * s.bytes
    /\ s.pitch % s.bytes = 0
    /\ s.pitch \div s.bytes <= Field

(* Address of the first byte of a pixel. *)
SurfaceOffset(s, x, y) == s.phys + y * s.pitch + x * s.bytes

(* Every byte of the surface, and of a rectangle that starts at an address
   and has the surface's pitch. *)
SurfaceBytes(s) == s.phys .. s.phys + s.h * s.pitch - 1
RectBytes(address, s, w, h) ==
    UNION {address + j * s.pitch .. address + j * s.pitch + w * s.bytes - 1 :
               j \in 0..h - 1}
-----------------------------------------------------------------------------
(* Clipping *)

Least(a, b) == IF a < b THEN a ELSE b
Most(a, b) == IF a > b THEN a ELSE b

Intersect(r, left, top, right, bottom) ==
    LET x == Most(r.x, left)
        y == Most(r.y, top)
    IN  [x |-> x, y |-> y,
         w |-> Least(r.x + r.w, right) - x,
         h |-> Least(r.y + r.h, bottom) - y]

(* Slip: the clip region's corner taken as the first pixel outside. *)
ClippedToCorner(clip, s, r) ==
    Intersect(r, Most(clip.x1, 0), Most(clip.y1, 0),
              Least(clip.x2, s.w), Least(clip.y2, s.h))

(* hcge_clip_rect; the call fails when w or h of the result is not positive. *)
Clipped(clip, s, r) ==
    Intersect(r, Most(clip.x1, 0), Most(clip.y1, 0),
              Least(clip.x2 + 1, s.w), Least(clip.y2 + 1, s.h))

NotEmpty(r) == r.w > 0 /\ r.h > 0

(* hcge_clip_blit: the source rectangle that goes with the clipped
   destination. *)
ClipBlitSource(clip, s, src, dx, dy) ==
    LET d == Clipped(clip, s, [x |-> dx, y |-> dy, w |-> src.w, h |-> src.h])
    IN  [x |-> src.x + d.x - dx, y |-> src.y + d.y - dy, w |-> d.w, h |-> d.h]

(* Slip: the source is not shortened for what was cut off on the right. *)
ClipStretchLeftOnly(clip, s, src, dst) ==
    LET d == Clipped(clip, s, dst)
        left == d.x - dst.x
        top == d.y - dst.y
    IN  [x |-> src.x + (left * src.w) \div dst.w,
         y |-> src.y + (top * src.h) \div dst.h, w |-> src.w, h |-> src.h]

(* hcge_clip_stretch_blit: the source shrinks in proportion, and by one more
   column when the destination was cut on the left or on the right. *)
ClipStretchSource(clip, s, src, dst) ==
    LET d == Clipped(clip, s, dst)
        left == d.x - dst.x
        top == d.y - dst.y
        right == dst.x + dst.w - d.x - d.w
        bottom == dst.y + dst.h - d.y - d.h
        w == src.w - ((left * src.w) \div dst.w + (right * src.w) \div dst.w)
        h == src.h - ((top * src.h) \div dst.h + (bottom * src.h) \div dst.h)
    IN  [x |-> src.x + (left * src.w) \div dst.w,
         y |-> src.y + (top * src.h) \div dst.h,
         w |-> IF left + right # 0 /\ w > 0 THEN w - 1 ELSE w, h |-> h]

(* hcge_clip_qw: the engine writes whole quadwords, the hardware clip keeps
   the original rectangle. *)
ClipQw(r) == [r EXCEPT !.w = ((r.x + r.w + 3) \div 4) * 4 - r.x]
-----------------------------------------------------------------------------
(* hcge_get_bounding_rect for a matrix <<a, b, c, d, e, f>> given in halves:
   the corners are transformed, then rounded outward, and the result is cut to
   the destination.  The first corner starts minimum and maximum rounded down. *)

Corners(r) == <<<<r.x, r.y>>, <<r.x + r.w - 1, r.y>>,
                <<r.x, r.y + r.h - 1>>, <<r.x + r.w - 1, r.y + r.h - 1>>>>

Moved(m, p) == <<m[1] * p[1] + m[2] * p[2] + m[3],
                 m[4] * p[1] + m[5] * p[2] + m[6]>>

Floor(v) == v \div 2
Ceil(v) == (v + 1) \div 2

Bounds(m, r) ==
    LET q == [i \in 1..4 |-> Moved(m, Corners(r)[i])]
        low(k) == Min({Floor(q[i][k]) : i \in 1..4})
        high(k) == Max({Floor(q[1][k])} \cup {Ceil(q[i][k]) : i \in 2..4})
    IN  [x1 |-> low(1), y1 |-> low(2), x2 |-> high(1), y2 |-> high(2)]

(* Slip: a box that sticks out is returned uncut. *)
BoundingRectUncut(m, s, r) ==
    LET b == Bounds(m, r)
    IN  [x |-> b.x1, y |-> b.y1, w |-> b.x2 - b.x1 + 1, h |-> b.y2 - b.y1 + 1]

BoundsVisible(m, s, r) ==
    LET b == Bounds(m, r)
    IN  b.x2 >= 0 /\ b.y2 >= 0 /\ b.x1 < s.w /\ b.y1 < s.h

BoundingRect(m, s, r) ==
    LET b == Bounds(m, r)
        x == Most(b.x1, 0)
        y == Most(b.y1, 0)
    IN  [x |-> x, y |-> y, w |-> Least(b.x2, s.w - 1) - x + 1,
         h |-> Least(b.y2, s.h - 1) - y + 1]
-----------------------------------------------------------------------------
(* hcge_draw_rect: the edges it fills, in order. *)

(* Slip: the vertical edges start in the corners. *)
EdgesOverlapping(r) ==
    <<[r EXCEPT !.h = 1], [r EXCEPT !.y = r.y + r.h - 1, !.h = 1],
      [r EXCEPT !.w = 1], [r EXCEPT !.x = r.x + r.w - 1, !.w = 1]>>

Edges(r) ==
    LET side == [x |-> r.x, y |-> r.y + 1, w |-> 1, h |-> r.h - 2]
        opt(c, e) == IF c THEN <<e>> ELSE <<>>
    IN  <<[r EXCEPT !.h = 1]>>
        \o opt(r.h > 1, [r EXCEPT !.y = r.y + r.h - 1, !.h = 1])
        \o opt(r.h > 2, side)
        \o opt(r.h > 2 /\ r.w > 1, [side EXCEPT !.x = r.x + r.w - 1])

Border(r) == {p \in Pixels(r) : \/ p[1] \in {r.x, r.x + r.w - 1}
                                \/ p[2] \in {r.y, r.y + r.h - 1}}
-----------------------------------------------------------------------------
(* hcge_linux_cache_clean_rect and _rects: what is written back for a
   rectangle of a cached image, as offset and length. *)

CleanAccepted(r, pitch, bpp) ==
    /\ r.x >= 0 /\ r.y >= 0 /\ r.w > 0 /\ r.h > 0
    /\ pitch # 0 /\ bpp # 0
    /\ (r.x + r.w) * bpp <= pitch

(* Slip: the last row is cleaned only up to the rectangle's width in pixels. *)
CleanRangeShort(r, pitch, bpp) ==
    [offset |-> r.y * pitch + r.x * bpp, bytes |-> (r.h - 1) * pitch + r.w]

CleanRange(r, pitch, bpp) ==
    [offset |-> r.y * pitch + r.x * bpp,
     bytes |-> (r.h - 1) * pitch + r.w * bpp]
=============================================================================
