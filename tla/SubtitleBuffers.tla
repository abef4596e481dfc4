---------------------------- MODULE SubtitleBuffers ----------------------------
(***************************************************************************)
(* How a picture becomes a subtitle for the encoder: make_subtitle of      *)
(* src/dvb_sub.c and the pool of buffers, src/pool_alloc.c, it takes the   *)
(* index plane and the palette from.  Only the failures of make_subtitle   *)
(* give buffers back to the pool: free_subtitle frees them for good, and   *)
(* no program calls pool_destroy.                                          *)
(*                                                                         *)
(* A buffer is the size it was allocated with; 0 is a null pointer.        *)
(***************************************************************************)
EXTENDS Integers, Sequences

CONSTANTS
  MaxPerBucket,   \* MAX_PER_BUCKET, 32 in the code
  PaletteMax,     \* AVPALETTE_SIZE / 4, 256 in libavcodec
  DefaultColors   \* the colours of a picture that does not tell, 16 in the code

ASSUME BuffersAssumption ==
  MaxPerBucket \in Nat \ {0} /\ PaletteMax \in Nat \ {0} /\ DefaultColors \in 1..PaletteMax

VARIABLE buckets   \* for each size with a bucket, the buffers cached in it

-----------------------------------------------------------------------------
(* src/pool_alloc.c.                                                       *)

NoBuckets == [s \in {} |-> <<>>]

find_bucket(b, size) == size \in DOMAIN b

\* The buffer and the buckets after an allocation; ok says whether the allocator
\* has memory when no buffer is cached.
pool_alloc(b, size, ok) ==
  IF find_bucket(b, size) /\ b[size] # <<>>
  THEN [buf |-> Head(b[size]), buckets |-> [b EXCEPT ![size] = Tail(@)]]
  ELSE [buf |-> IF ok THEN size ELSE 0, buckets |-> b]

\* The buckets after buffer buf is given back as one of the given size; ok says
\* whether there is memory for a bucket.
pool_free(b, buf, size, ok) ==
  IF buf = 0 \/ size = 0 THEN b
  ELSE IF ~find_bucket(b, size) THEN IF ok THEN [s \in DOMAIN b \cup {size} |-> IF s = size THEN <<buf>> ELSE b[s]] ELSE b
  ELSE IF Len(b[size]) < MaxPerBucket THEN [b EXCEPT ![size] = <<buf>> \o @]
  ELSE b

-----------------------------------------------------------------------------
(* src/dvb_sub.c.  A picture has a position, rows of colour indices and a  *)
(* palette, with the lengths its maker recorded for them.                  *)

\* Mutant: the two sizes are exchanged.
free_sub_and_rects_Swapped(b, r, ok) ==
  pool_free(pool_free(b, r.palette, r.w * r.h, ok), r.plane, 4 * r.colors, ok)

\* The planes of a subtitle that is given up go to the buckets of the sizes its
\* rectangle tells.
free_sub_and_rects(b, r, ok) ==
  pool_free(pool_free(b, r.palette, IF r.linesize = 0 THEN 4 * r.colors ELSE r.linesize, ok),
            r.plane, r.w * r.h, ok)

Blank(bm) == bm.w <= 0 \/ bm.h <= 0 \/ bm.idx = <<>>

Colors(bm) ==
  IF bm.colors <= 0 THEN DefaultColors
  ELSE IF bm.colors > PaletteMax THEN PaletteMax ELSE bm.colors

\* The time on screen, never negative.
Duration(from, to) == IF to < from THEN 0 ELSE to - from

NoSubtitle == [made |-> FALSE]

\* The clear event of an empty picture has no rectangle.
Cleared(from, to) ==
  [made |-> TRUE, idx |-> <<>>, palette |-> <<>>, x |-> 0, y |-> 0, dur |-> Duration(from, to)]

\* The subtitle for a picture and the buckets after it was made.  failing holds
\* the allocations that fail.
make_subtitle(b, bm, from, to, failing) ==
  LET n == bm.w * bm.h
      c == Colors(bm)
      plane == pool_alloc(b, n, "plane" \notin failing)
      palette == pool_alloc(plane.buckets, 4 * c, "palette" \notin failing)
      rect == [w |-> bm.w, h |-> bm.h, colors |-> c, linesize |-> 0, plane |-> plane.buf, palette |-> 0]
      full == [rect EXCEPT !.linesize = 4 * c, !.palette = palette.buf]
      Refused(bs, r) == [sub |-> NoSubtitle, buckets |-> free_sub_and_rects(bs, r, "bucket" \notin failing)]
  IN  IF "sub" \in failing THEN [sub |-> NoSubtitle, buckets |-> b]
      ELSE IF Blank(bm) THEN [sub |-> Cleared(from, to), buckets |-> b]
      ELSE IF "rects" \in failing THEN [sub |-> NoSubtitle, buckets |-> b]
      ELSE IF plane.buf = 0 \/ bm.len < n THEN Refused(plane.buckets, rect)
      ELSE IF palette.buf = 0 \/ (bm.palette # <<>> /\ bm.bytes < 4 * c)
           THEN Refused(palette.buckets, full)
      ELSE [sub |-> [made |-> TRUE, idx |-> bm.idx, palette |-> bm.palette, x |-> bm.x, y |-> bm.y,
                     dur |-> Duration(from, to)],
            buckets |-> palette.buckets]

\* The allocations of make_subtitle.
Allocations == {"sub", "rects", "plane", "palette", "bucket"}

-----------------------------------------------------------------------------

\* A cached buffer lies in the bucket of its own size, so that pool_alloc never
\* hands out one that is too small, and a bucket holds at most one: make_subtitle
\* takes the cached buffer before it can give one back.
CacheSound ==
  \A s \in DOMAIN buckets : Len(buckets[s]) <= 1 /\ \A i \in DOMAIN buckets[s] : buckets[s][i] = s
==============================================================================
