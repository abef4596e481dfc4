-------------------------- MODULE Converter_operators --------------------------
(***************************************************************************)
(* What the functions of src/dvdbr2dvbsub.c return, whatever main does     *)
(* with them: the buffers make_subtitle takes and gives back, the palette  *)
(* and the plane of a bitmap, and the pixels of a scaled picture.          *)
(***************************************************************************)
EXTENDS Converter, FiniteSetTheorems, SequenceTheorems, WellFoundedInduction, TLAPS

-----------------------------------------------------------------------------
(* The buffers of make_subtitle.                                           *)

\* A bucket is empty or holds one buffer of its size.
Cached(b) == \A s \in DOMAIN b : b[s] = <<>> \/ b[s] = <<s>>

\* make_subtitle does not refuse the palette of bm.
PaletteFits(bm) ==
  \/ Blank(bm)
  \/ /\ bm.colors \in Int /\ bm.bytes \in Int
     /\ bm.palette = <<>> \/ bm.bytes >= 4 * Colors(bm)

\* make_subtitle does not refuse the indices of bm.
PlaneFits(bm) == Blank(bm) \/ (bm.w * bm.h \in Nat \ {0} /\ bm.len \in Int /\ bm.len >= bm.w * bm.h)

\* An allocation leaves the bucket of its size empty and the others as they were.
LEMMA AllocCached ==
  ASSUME NEW b, Cached(b), NEW size, NEW ok
  PROVE  LET a == pool_alloc(b, size, ok)
         IN  /\ Cached(a.buckets) /\ DOMAIN a.buckets = DOMAIN b
             /\ size \in DOMAIN b => a.buckets[size] = <<>>
             /\ \A s \in DOMAIN b : b[s] = <<>> => a.buckets[s] = <<>>
             /\ a.buf \in {0, size}
<1>1. CASE find_bucket(b, size) /\ b[size] # <<>>
  <2>1. size \in DOMAIN b /\ b[size] = <<size>>
    BY <1>1, Zenon DEF Cached, find_bucket
  <2>2. Head(<<size>>) = size /\ Tail(<<size>>) = <<>>
    OBVIOUS
  <2>3. /\ pool_alloc(b, size, ok).buf = size
        /\ pool_alloc(b, size, ok).buckets = [b EXCEPT ![size] = <<>>]
    BY <1>1, <2>1, <2>2, Zenon DEF pool_alloc
  <2> QED
    BY <2>1, <2>3, Zenon DEF Cached
<1>2. CASE ~(find_bucket(b, size) /\ b[size] # <<>>)
  <2>1. /\ pool_alloc(b, size, ok).buf = (IF ok THEN size ELSE 0)
        /\ pool_alloc(b, size, ok).buckets = b
    BY <1>2, Zenon DEF pool_alloc
  <2> QED
    BY <1>2, <2>1, Zenon DEF find_bucket
<1> QED
  BY <1>1, <1>2, Zenon

\* A buffer of its own size goes to a bucket that holds none.
LEMMA FreeCached ==
  ASSUME NEW b, Cached(b), NEW size, NEW buf \in {0, size}, NEW ok,
         size \in DOMAIN b => b[size] = <<>>
  PROVE  Cached(pool_free(b, buf, size, ok))
<1>1. CASE buf = 0 \/ size = 0
  BY <1>1, Zenon DEF pool_free
<1>2. CASE buf = size /\ buf # 0 /\ size \notin DOMAIN b
  <2> DEFINE c == [s \in DOMAIN b \cup {size} |-> IF s = size THEN <<buf>> ELSE b[s]]
  <2>1. pool_free(b, buf, size, ok) \in {b, c}
    BY <1>2, Zenon DEF pool_free, find_bucket
  <2>2. Cached(c)
    BY <1>2, Zenon DEF Cached
  <2> QED
    BY <2>1, <2>2, Zenon
<1>3. CASE buf = size /\ buf # 0 /\ size \in DOMAIN b
  <2> DEFINE c == [b EXCEPT ![size] = <<buf>> \o @]
  <2>1. pool_free(b, buf, size, ok) \in {b, c}
    BY <1>3, Zenon DEF pool_free, find_bucket
  <2>2. <<buf>> \o b[size] = <<size>>
    BY <1>3
  <2>3. Cached(c)
    BY <1>3, <2>2, Zenon DEF Cached
  <2> QED
    BY <2>1, <2>3, Zenon
<1> QED
  BY <1>1, <1>2, <1>3, Zenon

\* The rectangle of a subtitle that is given up holds no palette.
LEMMA GivenUp ==
  ASSUME NEW b, Cached(b), NEW r, NEW ok, NEW size, r.w * r.h = size,
         r.palette = 0, r.plane \in {0, size}, size \in DOMAIN b => b[size] = <<>>
  PROVE  Cached(free_sub_and_rects(b, r, ok))
<1>1. \A l : pool_free(b, r.palette, l, ok) = b
  BY Zenon DEF pool_free
<1>2. free_sub_and_rects(b, r, ok) = pool_free(b, r.plane, size, ok)
  BY <1>1 DEF free_sub_and_rects
<1> QED
  BY <1>2, FreeCached, Zenon

\* make_subtitle keeps at most one buffer of each size: it has taken the cached one
\* before it can give one back, and never gives back a palette.
LEMMA MakeCached ==
  ASSUME NEW b, Cached(b), NEW bm, PaletteFits(bm), NEW from, NEW to, NEW failing
  PROVE  Cached(make_subtitle(b, bm, from, to, failing).buckets)
<1> DEFINE n == bm.w * bm.h
           c == Colors(bm)
           plane == pool_alloc(b, n, "plane" \notin failing)
           palette == pool_alloc(plane.buckets, 4 * c, "palette" \notin failing)
           rect == [w |-> bm.w, h |-> bm.h, colors |-> c, linesize |-> 0, plane |-> plane.buf,
                    palette |-> 0]
           full == [rect EXCEPT !.linesize = 4 * c, !.palette = palette.buf]
           ok == "bucket" \notin failing
           m == make_subtitle(b, bm, from, to, failing)
<1> SUFFICES Cached(m.buckets)
  BY Zenon
<1>1. \/ m.buckets = b
      \/ m.buckets = free_sub_and_rects(plane.buckets, rect, ok)
      \/ /\ ~Blank(bm) /\ (palette.buf = 0 \/ (bm.palette # <<>> /\ bm.bytes < 4 * c))
         /\ m.buckets = free_sub_and_rects(palette.buckets, full, ok)
      \/ m.buckets = palette.buckets
  BY Zenon DEF make_subtitle
<1>2. /\ Cached(plane.buckets) /\ plane.buf \in {0, n} /\ DOMAIN plane.buckets = DOMAIN b
      /\ n \in DOMAIN plane.buckets => plane.buckets[n] = <<>>
  <2> HIDE DEF n
  <2> QED
    BY AllocCached
<1>3. /\ Cached(palette.buckets)
      /\ n \in DOMAIN palette.buckets => palette.buckets[n] = <<>>
  <2> HIDE DEF n, plane
  <2> QED
    BY <1>2, AllocCached
<1> HIDE DEF m
<1>4. CASE m.buckets = free_sub_and_rects(plane.buckets, rect, ok)
  <2>1. rect.palette = 0 /\ rect.plane = plane.buf /\ rect.w * rect.h = n
    BY Zenon
  <2> HIDE DEF rect, plane, n, ok
  <2> QED
    BY <1>2, <1>4, <2>1, GivenUp, ZenonT(60)
<1>5. CASE /\ ~Blank(bm) /\ (palette.buf = 0 \/ (bm.palette # <<>> /\ bm.bytes < 4 * c))
           /\ m.buckets = free_sub_and_rects(palette.buckets, full, ok)
  <2>1. palette.buf = 0
    <3>1. c \in Int
      BY <1>5, BuffersAssumption DEF Colors, PaletteFits
    <3>2. bm.palette # <<>> => bm.bytes >= 4 * c /\ bm.bytes \in Int
      BY <1>5, Zenon DEF PaletteFits
    <3> HIDE DEF palette, c
    <3> QED
      BY <1>5, <3>1, <3>2
  <2>2. full.palette = 0 /\ full.plane = plane.buf /\ full.w * full.h = n
    <3> HIDE DEF plane, palette
    <3> QED
      BY <2>1, Zenon
  <2> HIDE DEF full, plane, palette, n, ok
  <2> QED
    BY <1>2, <1>3, <1>5, <2>2, GivenUp, ZenonT(60)
<1> HIDE DEF plane, palette, rect, full, n, c, ok
<1> QED
  BY <1>1, <1>3, <1>4, <1>5, ZenonT(60)

\* A buffer is handed out when there is memory.
LEMMA BufferGiven ==
  ASSUME NEW b, Cached(b), NEW size \in Nat \ {0}
  PROVE  pool_alloc(b, size, TRUE).buf # 0
<1>1. CASE find_bucket(b, size) /\ b[size] # <<>>
  <2>1. b[size] = <<size>>
    BY <1>1, Zenon DEF Cached, find_bucket
  <2> QED
    BY <1>1, <2>1 DEF pool_alloc
<1>2. CASE ~(find_bucket(b, size) /\ b[size] # <<>>)
  BY <1>2, Zenon DEF pool_alloc
<1> QED
  BY <1>1, <1>2, ZenonT(60)

\* When no allocation fails, make_subtitle refuses no bitmap of the conversion.
LEMMA SubtitleMade ==
  ASSUME NEW b, Cached(b), NEW bm, PaletteFits(bm), PlaneFits(bm), NEW from, NEW to
  PROVE  make_subtitle(b, bm, from, to, {}).sub.made
<1> DEFINE n == bm.w * bm.h
           c == Colors(bm)
           plane == pool_alloc(b, n, TRUE)
           palette == pool_alloc(plane.buckets, 4 * c, TRUE)
           m == make_subtitle(b, bm, from, to, {})
<1>1. CASE Blank(bm)
  BY <1>1, Zenon DEF make_subtitle, Cleared
<1>2. CASE ~Blank(bm)
  <2>1. n \in Nat \ {0} /\ bm.len \in Int /\ bm.len >= n
    BY <1>2, Zenon DEF PlaneFits
  <2>2. c \in Nat \ {0} /\ (bm.palette = <<>> \/ (bm.bytes \in Int /\ bm.bytes >= 4 * c))
    BY <1>2, BuffersAssumption, SMTT(60) DEF PaletteFits, Colors
  <2>3. plane.buf # 0 /\ Cached(plane.buckets)
    <3> HIDE DEF n
    <3> QED
      BY <2>1, AllocCached, BufferGiven, ZenonT(60)
  <2>4. palette.buf # 0
    <3> HIDE DEF plane, c
    <3>1. 4 * c \in Nat \ {0}
      BY <2>2
    <3> QED
      BY <2>3, <3>1, BufferGiven, ZenonT(60)
  <2>5. /\ ("plane" \notin {}) = TRUE /\ ("palette" \notin {}) = TRUE
        /\ "sub" \notin {} /\ "rects" \notin {}
    BY Zenon
  <2>6. m.sub = IF plane.buf = 0 \/ bm.len < n THEN NoSubtitle
                ELSE IF palette.buf = 0 \/ (bm.palette # <<>> /\ bm.bytes < 4 * c) THEN NoSubtitle
                ELSE [made |-> TRUE, idx |-> bm.idx, palette |-> bm.palette, x |-> bm.x, y |-> bm.y,
                      dur |-> Duration(from, to)]
    BY <1>2, <2>5, ZenonT(60) DEF make_subtitle
  <2>7. ~(bm.len < n) /\ ~(bm.palette # <<>> /\ bm.bytes < 4 * c)
    <3> HIDE DEF n, c
    <3> QED
      BY <2>1, <2>2
  <2> HIDE DEF plane, palette, n, c, m
  <2> QED
    BY <2>3, <2>4, <2>6, <2>7 DEF m
<1> QED
  BY <1>1, <1>2, Zenon

-----------------------------------------------------------------------------
(* Numbers and sequences.                                                  *)

\* The PTS of a packet comes after the last one of its track, and not before the time
\* asked for.
LEMMA LaterFacts ==
  ASSUME NEW last \in Int \cup {NoPts}, NEW pts \in Int
  PROVE  LET at == Later(last, pts)
         IN  /\ at \in Int /\ at >= pts
             /\ last # NoPts => at > last
             /\ at > pts => last # NoPts /\ at = last + 90
<1>1. NoPts \notin Int
  BY ConverterAssumption, Zenon
<1>2. CASE last \in Int
  <2>1. last # NoPts
    BY <1>1, <1>2, Zenon
  <2> QED
    BY <1>2, <2>1 DEF Later
<1>3. CASE last = NoPts
  BY <1>3 DEF Later
<1> QED
  BY <1>2, <1>3, Zenon

\* The quotient of integers by a positive one.
LEMMA Quotient ==
  ASSUME NEW a \in Int, NEW b \in Nat, b > 0
  PROVE  /\ a \div b \in Int
         /\ b * (a \div b) <= a
         /\ a < b * (a \div b) + b
  BY SMTT(60)

\* The quotient is the one number that fits.
LEMMA QuotientIs ==
  ASSUME NEW n \in Int, NEW d \in Nat, d > 0, NEW q \in Int, d * q <= n, n < d * q + d
  PROVE  n \div d = q
<1> DEFINE p == n \div d
<1>1. p \in Int /\ d * p <= n /\ n < d * p + d
  BY Quotient, Zenon
<1> HIDE DEF p
<1>2. \A a, b \in Int : a + 1 <= b => d * a + d <= d * b
  BY SMTT(60)
<1>3. d * p \in Int /\ d * q \in Int
  BY <1>1, SMTT(60)
<1>4. ~(p + 1 <= q) /\ ~(q + 1 <= p)
  BY <1>1, <1>2, <1>3, SMTT(60)
<1>5. p = q
  BY <1>1, <1>4, SMTT(60)
<1> QED
  BY <1>5, Zenon DEF p

\* A quotient rounded to the nearest: off by at most one half.
LEMMA Rounded ==
  ASSUME NEW x \in Int, NEW s \in Int, NEW d \in Nat, d > 0
  PROVE  LET q == (2 * x * s + d) \div (2 * d)
         IN  q \in Int /\ 2 * (q * d - x * s) \in (-d)..d
<1> DEFINE a == 2 * x * s + d
           b == 2 * d
           q == a \div b
<1>1. a \in Int /\ b \in Nat /\ b > 0
  BY SMTT(60)
<1>2. q \in Int /\ b * q <= a /\ a < b * q + b
  <2> HIDE DEF a, b
  <2> QED
    BY <1>1, Quotient, Zenon
<1>3. x * s \in Int /\ a = 2 * (x * s) + d
  BY SMTT(60)
<1> HIDE DEF q
<1>4. q * d \in Int /\ b * q = 2 * (q * d)
  BY <1>2, SMTT(60)
<1>5. PICK y \in Int, z \in Int : y = x * s /\ z = q * d
  BY <1>3, <1>4, Zenon
<1>6. 2 * z <= 2 * y + d /\ 2 * y + d < 2 * z + 2 * d
  BY <1>2, <1>3, <1>4, <1>5, Zenon
<1>7. 2 * (z - y) \in (-d)..d
  BY <1>6
<1> QED
  BY <1>2, <1>5, <1>7, Zenon DEF q

\* The remainder, from the quotient.
LEMMA Remainder ==
  ASSUME NEW a \in Int, NEW w \in Nat, w > 0
  PROVE  a % w = a - w * (a \div w) /\ a % w \in Int
  BY SMTT(60)

\* A nonempty set of natural numbers has a least element.
LEMMA Smallest ==
  ASSUME NEW T, T \subseteq Nat, T # {}
  PROVE  \E x \in T : \A y \in T : x <= y
<1> DEFINE R == OpToRel(<, Nat)
<1>1. IsWellFoundedOn(R, Nat)
  BY NatLessThanWellFounded, ZenonT(60)
<1>2. \A x \in Nat, y \in Nat : y < x => <<y, x>> \in R
  BY Zenon DEF OpToRel
<1> HIDE DEF R
<1>3. PICK x \in T : \A y \in T : ~(<<y, x>> \in R)
  BY <1>1, WFMin, ZenonT(60)
<1>4. ASSUME NEW y \in T
      PROVE  x <= y
  <2>1. x \in Nat /\ y \in Nat /\ ~(y < x)
    BY <1>2, <1>3, ZenonT(60)
  <2> QED
    BY <2>1
<1> QED
  BY <1>4, Zenon

\* make_subtitle makes a finite number of allocations.
LEMMA AllocationsFinite == IsFiniteSet(Allocations)
<1>1. Allocations = {"sub"} \cup {"rects"} \cup {"plane"} \cup {"palette"} \cup {"bucket"}
  BY Zenon DEF Allocations
<1>2. \A x : IsFiniteSet({x})
  BY FS_Singleton, Zenon
<1>3. \A S, T : IsFiniteSet(S) /\ IsFiniteSet(T) => IsFiniteSet(S \cup T)
  BY FS_Union, ZenonT(60)
<1> QED
  BY <1>1, <1>2, <1>3, ZenonT(60)

\* A function on 1..n is a sequence of length n.
LEMMA SequenceOn ==
  ASSUME NEW n \in Nat, NEW f, DOMAIN f = 1..n, f = [i \in 1..n |-> f[i]]
  PROVE  Len(f) = n /\ f \in Seq({f[i] : i \in 1..n})
<1> DEFINE S == {f[i] : i \in 1..n}
<1>1. f \in [1..n -> S]
  BY Zenon
<1>2. f \in Seq(S)
  BY <1>1, SeqDef, Zenon
<1>3. DOMAIN f = 1..Len(f) /\ Len(f) \in Nat
  BY <1>2, LenProperties, Zenon
<1> QED
  BY <1>2, <1>3

-----------------------------------------------------------------------------
(* The bitmap of an event.                                                 *)

\* The palette of an image of at least one pixel has at most MaxColors entries.
LEMMA PaletteLength ==
  ASSUME NEW img, NEW w \in Nat, NEW h \in Nat, Len(img) = h, Len(img[1]) = w
  PROVE  /\ Len(PaletteOf(img)) \in 0..MaxColors
         /\ Len(PaletteOf(img)) = 0 => PaletteOf(img) = <<>>
<1> DEFINE s == Pixels(img)
           n == Room(Cardinality(Firsts(s)))
<1>1. w * h \in Nat
  BY SMTT(60)
<1>2. DOMAIN s = 1..(w * h)
  BY Zenon DEF Pixels
<1>3. IsFiniteSet(1..(w * h))
  BY <1>1, FS_Interval
<1>4. Firsts(s) \subseteq 1..(w * h)
  BY <1>2, Zenon DEF Firsts
<1>5. Cardinality(Firsts(s)) \in Nat
  BY <1>3, <1>4, FS_Subset, FS_CardinalityType, Zenon
<1>6. n \in 0..MaxColors
  BY <1>5, ConverterAssumption, BuffersAssumption DEF Room
<1> HIDE DEF n
<1>7. PaletteOf(img) = [i \in 1..n |-> s[First(s, i)]]
  BY Zenon DEF PaletteOf, n
<1> HIDE DEF s
<1>8. n \in Nat
  BY <1>6, ConverterAssumption
<1>9. DOMAIN PaletteOf(img) = 1..n /\ PaletteOf(img) = [i \in 1..n |-> PaletteOf(img)[i]]
  BY <1>7, Zenon
<1>10. Len(PaletteOf(img)) = n /\ PaletteOf(img) \in Seq({PaletteOf(img)[i] : i \in 1..n})
  BY <1>8, <1>9, SequenceOn, Zenon
<1> QED
  BY <1>6, <1>10, EmptySeq, Zenon

\* The length recorded for a converted picture is that of its pixels.
LEMMA PlaneLength ==
  ASSUME NEW e, IsEvent(e), e # Nothing, NEW scale, NEW k \in Nat, NEW flush
  PROVE  PlaneFits(Bitmap(e, scale, k, flush))
<1>1. e.w \in Nat /\ e.h \in Nat
  BY Zenon DEF IsEvent
<1> DEFINE bm == Bitmap(e, scale, k, flush)
<1>2. bm.w = e.w * k /\ bm.h = e.h * k /\ bm.len = e.w * k * e.h * k
  BY ZenonT(60) DEF Bitmap, LengthOf
<1>3. \A a, c \in Nat : /\ (a * k) * (c * k) \in Nat /\ a * k * c * k = (a * k) * (c * k)
                        /\ ~(a * k <= 0) /\ ~(c * k <= 0) => (a * k) * (c * k) # 0
  <2>1. ASSUME NEW x \in Nat, NEW y \in Nat
        PROVE  x * y \in Nat /\ (~(x <= 0) /\ ~(y <= 0) => x * y # 0)
    BY SMTT(60)
  <2>2. \A x, y \in Nat : x * y * k = x * (y * k)
    BY SMTT(60)
  <2>3. ASSUME NEW a \in Nat, NEW c \in Nat
        PROVE  /\ (a * k) * (c * k) \in Nat /\ a * k * c * k = (a * k) * (c * k)
               /\ ~(a * k <= 0) /\ ~(c * k <= 0) => (a * k) * (c * k) # 0
    <3>1. a * k \in Nat /\ c * k \in Nat
      BY <2>1, Zenon
    <3> QED
      BY <2>1, <2>2, <3>1, Zenon
  <2> QED
    BY <2>3, Zenon
<1>4. Blank(bm) \/ (~(bm.w <= 0) /\ ~(bm.h <= 0))
  BY Zenon DEF Blank
<1> DEFINE n == bm.w * bm.h
<1>5. n \in Nat /\ bm.len = n /\ (Blank(bm) \/ n # 0)
  BY <1>1, <1>2, <1>3, <1>4, SMTT(60)
<1> HIDE DEF bm
<1>6. PlaneFits(bm)
  BY <1>5, SMTT(60) DEF PlaneFits
<1> QED
  BY <1>6, Zenon DEF bm

-----------------------------------------------------------------------------
(* What a bitmap shows.                                                    *)

\* pic shows the picture of event e, scaled; late when the decoder held it back.
Shows(pic, e, late) ==
  LET k == Len(pic.idx) \div e.h
  IN  \A y \in DOMAIN pic.idx : \A x \in DOMAIN pic.idx[y] :
        LET from == e.img[(y + k - 1) \div k][(x + k - 1) \div k]
            to == pic.idx[y][x]
        IN  IF e.kind = "rgba"
            THEN /\ to \in 1..MaxColors
                 /\ Cardinality(Range(Pixels(PackedImage(e.img)))) <= MaxColors =>
                      pic.palette[to] = Packed(from)
            ELSE IF from \in 1..Entries(e)
            THEN to = from /\ pic.palette[to] = e.palette[from]
            ELSE to = from \/ (to = 1 /\ late)

\* Two ways to find the row a scaled row was taken from: resize_nn's, and by counting
\* k rows for each.
LEMMA ScaledFrom ==
  ASSUME NEW h \in Nat, NEW k \in Nat, h > 0, k > 0, NEW y \in 1..(h * k)
  PROVE  /\ 1 + ((y - 1) * h) \div (h * k) = (y + k - 1) \div k
         /\ (y + k - 1) \div k \in 1..h
<1>0. h * k \in Nat /\ h * k > 0
  BY SMTT(60)
<1> DEFINE z == y - 1
           q == z \div k
<1>1. z \in Nat /\ z < h * k /\ y = z + 1
  BY <1>0
<1> HIDE DEF z
<1>2. q \in Int /\ k * q <= z /\ z < k * q + k
  BY <1>1, Quotient
<1> HIDE DEF q
<1>3. k * q \in Int /\ k * (q + 1) = k * q + k
  BY <1>2, SMTT(60)
<1>4. (y + k - 1) \div k = q + 1
  <2> DEFINE n == y + k - 1
  <2>1. n \in Int /\ q + 1 \in Int /\ k * (q + 1) <= n /\ n < k * (q + 1) + k
    BY <1>1, <1>2, <1>3
  <2> HIDE DEF n
  <2>2. n \div k = q + 1
    BY <2>1, QuotientIs, Zenon
  <2> QED
    BY <2>2, Zenon DEF n
<1>5. (z * h) \div (h * k) = q
  <2> DEFINE d == h * k
             n == z * h
  <2>1. d \in Nat /\ d > 0 /\ n \in Int
    BY <1>0, <1>1, SMTT(60)
  <2>2. d * q = h * (k * q) /\ d = h * k /\ h * (k * q + k) = d * q + d
    <3>1. \A a \in Int : (h * k) * a = h * (k * a) /\ h * (k * a + k) = (h * k) * a + h * k
      BY SMTT(60)
    <3> QED
      BY <1>2, <3>1
  <2>3. \A a, b \in Int : (a <= b => h * a <= b * h) /\ (a < b => a * h < h * b)
    BY SMTT(60)
  <2>4. h * (k * q) <= n /\ n < h * (k * q + k)
    BY <1>1, <1>2, <1>3, <2>3, SMTT(60)
  <2>5. d * q <= n /\ n < d * q + d
    BY <2>2, <2>4
  <2> HIDE DEF d, n
  <2>6. n \div d = q
    BY <1>2, <2>1, <2>5, QuotientIs, SMTT(60)
  <2> QED
    BY <2>6, Zenon DEF d, n
<1>6. q + 1 \in 1..h
  <2>1. \A a \in Int : (a <= -1 => k * a + k <= 0) /\ (a >= h => k * a >= h * k)
    BY SMTT(60)
  <2>2. ~(q <= -1) /\ ~(q >= h)
    BY <1>0, <1>1, <1>2, <1>3, <2>1, SMTT(60)
  <2> QED
    BY <1>2, <2>2
<1>7. y - 1 = z
  BY <1>1
<1> QED
  BY <1>2, <1>4, <1>5, <1>6, <1>7, SMTT(60)

\* A picture of w columns and h rows.
Sized(img, w, h) ==
  /\ Len(img) = h /\ DOMAIN img = 1..h
  /\ \A y \in 1..h : Len(img[y]) = w /\ DOMAIN img[y] = 1..w

\* A picture has the pixels of its rows.
LEMMA PixelsOf ==
  ASSUME NEW img, NEW w \in Nat, NEW h \in Nat, w > 0, h > 0, Sized(img, w, h)
  PROVE  /\ w * h \in Nat /\ DOMAIN Pixels(img) = 1..(w * h)
         /\ Pixels(img) = [n \in 1..(w * h) |-> img[1 + ((n - 1) \div w)][1 + ((n - 1) % w)]]
<1>1. w * h \in Nat
  BY SMTT(60)
<1>2. Len(img) = h /\ Len(img[1]) = w
  BY DEF Sized
<1> QED
  BY <1>1, <1>2, Zenon DEF Pixels

\* Each pixel lies in a row and a column.
LEMMA PixelFrom ==
  ASSUME NEW img, NEW w \in Nat, NEW h \in Nat, w > 0, h > 0, Sized(img, w, h),
         NEW n \in 1..(w * h)
  PROVE  \E y \in 1..h, x \in 1..w : Pixels(img)[n] = img[y][x]
<1>1. w * h \in Nat /\ Pixels(img)[n] = img[1 + ((n - 1) \div w)][1 + ((n - 1) % w)]
  BY PixelsOf
<1> DEFINE a == n - 1
           q == a \div w
<1>2. a \in Nat /\ a < w * h
  BY <1>1
<1> HIDE DEF a
<1>3. q \in Int /\ w * q <= a /\ a < w * q + w /\ a % w = a - w * q
  BY <1>2, Quotient, Remainder
<1> HIDE DEF q
<1>4. \A c \in Int : (c <= -1 => w * c + w <= 0) /\ (c >= h => w * c >= w * h) /\ w * c \in Int
  BY SMTT(60)
<1>5. ~(q <= -1) /\ ~(q >= h) /\ w * q \in Int
  BY <1>1, <1>2, <1>3, <1>4, SMTT(60)
<1>6. 1 + q \in 1..h /\ 1 + (a % w) \in 1..w
  BY <1>2, <1>3, <1>5, SMTT(60)
<1> QED
  BY <1>1, <1>6, Zenon DEF a, q

\* Each row and column has its pixel.
LEMMA PixelAt ==
  ASSUME NEW img, NEW w \in Nat, NEW h \in Nat, w > 0, h > 0, Sized(img, w, h),
         NEW y \in 1..h, NEW x \in 1..w
  PROVE  \E n \in 1..(w * h) : Pixels(img)[n] = img[y][x]
<1>0. w * h \in Nat
  BY PixelsOf, Zenon
<1>1. Pixels(img) = [n \in 1..(w * h) |-> img[1 + ((n - 1) \div w)][1 + ((n - 1) % w)]]
  BY PixelsOf
<1> DEFINE a == w * (y - 1) + (x - 1)
<1>2. y - 1 \in Nat /\ y - 1 <= h - 1 /\ w * (y - 1) \in Nat /\ w * (y - 1) + w <= w * h
  <2>1. \A c \in Int : c <= h - 1 => w * c + w <= w * h
    BY SMTT(60)
  <2>2. \A c \in Nat : w * c \in Nat
    BY SMTT(60)
  <2> QED
    BY <2>1, <2>2
<1>3. a \in Nat /\ a + 1 \in 1..(w * h) /\ w * (y - 1) <= a /\ a < w * (y - 1) + w
  BY <1>0, <1>2
<1>4. a - w * (y - 1) = x - 1
  BY <1>2
<1> HIDE DEF a
<1>5. a \div w = y - 1
  BY <1>2, <1>3, QuotientIs, SMTT(60)
<1>6. a % w = x - 1
  BY <1>3, <1>4, <1>5, Remainder
<1>7. Pixels(img)[a + 1] = img[1 + (a \div w)][1 + (a % w)]
  <2>1. (a + 1) - 1 = a
    BY <1>3
  <2> QED
    BY <1>1, <1>3, <2>1, ZenonT(60)
<1>8. 1 + (a \div w) = y /\ 1 + (a % w) = x
  BY <1>5, <1>6, SMTT(60)
<1> QED
  BY <1>3, <1>7, <1>8, SMTT(60)

\* A picture scaled k times shows each pixel of its source k times in both directions.
LEMMA ScaledImage ==
  ASSUME NEW e, IsEvent(e), e # Nothing, NEW k \in Nat, e.w > 0, e.h > 0, k > 0
  PROVE  LET img == IF k > 1 THEN resize_nn(e.img, e.w, e.h, k) ELSE e.img
         IN  /\ Sized(img, e.w * k, e.h * k)
             /\ \A y \in 1..(e.h * k), x \in 1..(e.w * k) :
                  /\ (y + k - 1) \div k \in 1..e.h /\ (x + k - 1) \div k \in 1..e.w
                  /\ img[y][x] = e.img[(y + k - 1) \div k][(x + k - 1) \div k]
<1>1. e.w \in Nat /\ e.h \in Nat /\ Sized(e.img, e.w, e.h)
  BY Zenon DEF IsEvent, Sized
<1>2. \A y \in 1..(e.h * k) : /\ 1 + ((y - 1) * e.h) \div (e.h * k) = (y + k - 1) \div k
                              /\ (y + k - 1) \div k \in 1..e.h
  BY <1>1, ScaledFrom, ZenonT(60)
<1>3. \A x \in 1..(e.w * k) : /\ 1 + ((x - 1) * e.w) \div (e.w * k) = (x + k - 1) \div k
                              /\ (x + k - 1) \div k \in 1..e.w
  BY <1>1, ScaledFrom, ZenonT(60)
<1>4. CASE k > 1
  <2> DEFINE r == resize_nn(e.img, e.w, e.h, k)
             a == e.h * k
             b == e.w * k
  <2>1. a \in Nat /\ b \in Nat
    BY <1>1, SMTT(60)
  <2>2. /\ DOMAIN r = 1..a /\ r = [y \in 1..a |-> r[y]]
        /\ \A y \in 1..a : DOMAIN r[y] = 1..b /\ r[y] = [x \in 1..b |-> r[y][x]]
    BY ZenonT(60) DEF resize_nn
  <2>3. \A y \in 1..a, x \in 1..b : r[y][x] = e.img[1 + ((y - 1) * e.h) \div (e.h * k)]
                                                    [1 + ((x - 1) * e.w) \div (e.w * k)]
    BY ZenonT(60) DEF resize_nn
  <2>4. \A y \in 1..a, x \in 1..b : r[y][x] = e.img[(y + k - 1) \div k][(x + k - 1) \div k]
    BY <1>2, <1>3, <2>3, ZenonT(60)
  <2>5. Sized(r, b, a)
    <3> HIDE DEF r, a, b
    <3>1. Len(r) = a
      BY <2>1, <2>2, SequenceOn
    <3>2. \A y \in 1..a : Len(r[y]) = b
      BY <2>1, <2>2, SequenceOn, Zenon
    <3> QED
      BY <2>2, <3>1, <3>2, ZenonT(60) DEF Sized
  <2> QED
    BY <1>2, <1>3, <1>4, <2>4, <2>5, ZenonT(60)
<1>5. CASE ~(k > 1)
  <2>1. k = 1 /\ e.h * k = e.h /\ e.w * k = e.w
    BY <1>1, <1>5
  <2>2. \A n \in Int : (n + 1 - 1) \div 1 = n
    BY SMTT(60)
  <2>3. \A y \in 1..e.h, x \in 1..e.w : (y + k - 1) \div k = y /\ (x + k - 1) \div k = x
    BY <2>1, <2>2, SMTT(60)
  <2> QED
    BY <1>1, <1>5, <2>1, <2>3, ZenonT(60)
<1> QED
  BY <1>4, <1>5, ZenonT(60)

\* The words of a picture lie as its pixels do.
LEMMA PackedSized ==
  ASSUME NEW img, NEW w \in Nat, NEW h \in Nat, Sized(img, w, h)
  PROVE  /\ Sized(PackedImage(img), w, h)
         /\ \A y \in 1..h, x \in 1..w : PackedImage(img)[y][x] = Packed(img[y][x])
<1> DEFINE p == PackedImage(img)
<1>1. DOMAIN img = 1..h /\ \A y \in 1..h : DOMAIN img[y] = 1..w
  BY ZenonT(60) DEF Sized
<1>2. p = [y \in 1..h |-> [x \in DOMAIN img[y] |-> Packed(img[y][x])]]
  BY <1>1, ZenonT(60) DEF PackedImage
<1>3. \A y \in 1..h : p[y] = [x \in 1..w |-> Packed(img[y][x])]
  BY <1>1, <1>2, ZenonT(60)
<1>4. /\ DOMAIN p = 1..h /\ p = [y \in 1..h |-> p[y]]
      /\ \A y \in 1..h : DOMAIN p[y] = 1..w /\ p[y] = [x \in 1..w |-> p[y][x]]
  BY <1>2, <1>3, ZenonT(60)
<1>5. \A y \in 1..h, x \in 1..w : p[y][x] = Packed(img[y][x])
  BY <1>3, ZenonT(60)
<1> HIDE DEF p
<1>6. Len(p) = h
  BY <1>4, SequenceOn, ZenonT(60)
<1>7. \A y \in 1..h : Len(p[y]) = w
  BY <1>4, SequenceOn, ZenonT(60)
<1>8. Sized(p, w, h)
  BY <1>4, <1>6, <1>7, ZenonT(60) DEF Sized
<1> QED
  BY <1>5, <1>8, Zenon DEF p

\* The entries of a palette are counted, and libavcodec has room for them.
LEMMA EntriesFit ==
  ASSUME NEW e, IsEvent(e), e # Nothing
  PROVE  Entries(e) \in 1..PaletteMax
<1>1. e.colors \in 0..PaletteMax /\ e.linesize \in 0..(4 * PaletteMax)
  BY Zenon DEF IsEvent
<1>2. PaletteMax \in Nat /\ DefaultColors \in 1..PaletteMax
  BY BuffersAssumption
<1>3. e.linesize \div 4 \in Int /\ e.linesize \div 4 <= PaletteMax
  BY <1>1, <1>2, SMTT(60)
<1> QED
  BY <1>1, <1>2, <1>3 DEF Entries

\* The palette of a converted picture is long enough for make_subtitle.
LEMMA BitmapFits ==
  ASSUME NEW e, IsEvent(e), e # Nothing, NEW scale, NEW k \in Nat, NEW flush
  PROVE  PaletteFits(Bitmap(e, scale, k, flush))
<1> DEFINE bm == Bitmap(e, scale, k, flush)
           img == IF k > 1 THEN resize_nn(e.img, e.w, e.h, k) ELSE e.img
           words == PackedImage(img)
           n == IF e.kind = "rgba" THEN Len(PaletteOf(words)) ELSE Entries(e)
<1> SUFFICES ASSUME ~Blank(bm)
             PROVE  PaletteFits(bm)
  BY Zenon DEF PaletteFits
<1>1. /\ bm.w = e.w * k /\ bm.h = e.h * k
      /\ bm.colors = n /\ bm.bytes = PaletteBytes(e, n, scale, k, flush)
      /\ e.kind = "rgba" => bm.palette = PaletteOf(words)
  BY ZenonT(60) DEF Bitmap, rgba_to_indexed
<1>2. e.w \in Nat /\ e.h \in Nat /\ (e.kind = "text" => e.w = 0)
  BY Zenon DEF IsEvent
<1>3. ~(e.w * k <= 0) /\ ~(e.h * k <= 0)
  BY <1>1, Zenon DEF Blank
<1>4. e.w > 0 /\ e.h > 0 /\ k > 0 /\ e.w * k \in Nat /\ e.h * k \in Nat
  BY <1>2, <1>3, SMTT(60)
<1>5. bm.bytes = 4 * n
  <2>1. e.kind # "text"
    BY <1>2, <1>4
  <2> HIDE DEF bm, n
  <2> QED
    BY <1>1, <2>1, Zenon DEF PaletteBytes
<1>6. n \in Nat /\ (n = 0 => bm.palette = <<>>)
  <2>1. CASE e.kind = "rgba"
    <3>1. Sized(img, e.w * k, e.h * k)
      BY <1>4, ScaledImage, ZenonT(60)
    <3> HIDE DEF img
    <3>2. Len(words) = e.h * k /\ Len(words[1]) = e.w * k
      <4>1. Sized(words, e.w * k, e.h * k)
        BY <1>4, <3>1, PackedSized, ZenonT(60)
      <4> DEFINE h == e.h * k
      <4>2. 1 \in 1..h
        BY <1>3, <1>4
      <4> QED
        BY <4>1, <4>2, ZenonT(60) DEF Sized
    <3> HIDE DEF words
    <3>3. Len(PaletteOf(words)) \in 0..MaxColors /\ (Len(PaletteOf(words)) = 0 => PaletteOf(words) = <<>>)
      BY <1>4, <3>2, PaletteLength, ZenonT(60)
    <3> QED
      BY <1>1, <2>1, <3>3, ConverterAssumption, BuffersAssumption
  <2>2. CASE e.kind # "rgba"
    BY <2>2, EntriesFit, BuffersAssumption
  <2> QED
    BY <2>1, <2>2, Zenon
<1> HIDE DEF bm, n
<1>7. n # 0 => Colors(bm) \in Int /\ Colors(bm) <= n
  BY <1>1, <1>6, BuffersAssumption DEF Colors
<1> QED
  BY <1>1, <1>5, <1>6, <1>7 DEF PaletteFits

\* The colours of a picture can be counted.
LEMMA ColorsCounted ==
  ASSUME NEW img, NEW w \in Nat, NEW h \in Nat, w > 0, h > 0, Sized(img, w, h)
  PROVE  /\ IsFiniteSet(Range(Pixels(img))) /\ Cardinality(Range(Pixels(img))) \in Nat
         /\ Cardinality(Firsts(Pixels(img))) \in Nat
<1> DEFINE s == Pixels(img)
           g == [n \in 1..(w * h) |-> s[n]]
<1>1. w * h \in Nat /\ DOMAIN s = 1..(w * h)
  BY PixelsOf, Zenon
<1>2. IsFiniteSet(1..(w * h))
  BY <1>1, FS_Interval, SMTT(60)
<1>3. g \in Surjection(1..(w * h), Range(s))
  BY <1>1, Zenon DEF Surjection, Range
<1>4. Firsts(s) \subseteq 1..(w * h)
  BY <1>1 DEF Firsts
<1> HIDE DEF g, s
<1>5. IsFiniteSet(Range(s)) /\ Cardinality(Range(s)) \in Nat
  BY <1>2, <1>3, FS_Surjection, FS_CardinalityType, SMTT(60)
<1>6. Cardinality(Firsts(s)) \in Nat
  BY <1>2, <1>4, FS_Subset, FS_CardinalityType, SMTT(60)
<1> QED
  BY <1>5, <1>6, Zenon DEF s

\* The index of a colour is one of the palette, or the first.
LEMMA IndexInside ==
  ASSUME NEW img, NEW w \in Nat, NEW h \in Nat, w > 0, h > 0, Sized(img, w, h), NEW color
  PROVE  IndexOf(PaletteOf(img), color) \in 1..MaxColors
<1> DEFINE s == Pixels(img)
           n == Room(Cardinality(Firsts(s)))
<1>1. Cardinality(Firsts(s)) \in Nat
  BY ColorsCounted, Zenon
<1>2. n \in 0..MaxColors /\ MaxColors \in Nat /\ MaxColors >= 1
  BY <1>1, ConverterAssumption, BuffersAssumption DEF Room
<1> HIDE DEF n
<1>3. DOMAIN PaletteOf(img) = 1..n
  BY Zenon DEF PaletteOf, n
<1>4. \A i \in 1..n : i \in 1..MaxColors
  BY <1>2
<1>5. 1 \in 1..MaxColors
  BY <1>2, SMTT(60)
<1> QED
  BY <1>3, <1>4, <1>5, ZenonT(60) DEF IndexOf

\* A pixel that brings a colour is found again by its rank among them.
LEMMA FirstOf ==
  ASSUME NEW s, NEW n \in Nat, DOMAIN s = 1..n, NEW i \in Firsts(s)
  PROVE  LET r == Cardinality({m \in Firsts(s) : m <= i})
         IN  r \in 1..Cardinality(Firsts(s)) /\ First(s, r) = i
<1> DEFINE F == Firsts(s)
           U(j) == {m \in F : m <= j}
           r == Cardinality(U(i))
<1>1. F \subseteq 1..n /\ IsFiniteSet(F) /\ Cardinality(F) \in Nat
  <2>1. F \subseteq 1..n
    BY Zenon DEF Firsts
  <2>2. IsFiniteSet(1..n)
    BY FS_Interval
  <2> HIDE DEF F
  <2> QED
    BY <2>1, <2>2, FS_Subset, FS_CardinalityType, ZenonT(60)
<1> HIDE DEF F
<1>2. \A j : IsFiniteSet(U(j)) /\ Cardinality(U(j)) \in Nat /\ Cardinality(U(j)) <= Cardinality(F)
  BY <1>1, FS_Subset, FS_CardinalityType, Zenon
<1>3. ASSUME NEW j \in F, NEW l \in F, j < l
      PROVE  Cardinality(U(j)) < Cardinality(U(l))
  <2>1. j \in Nat /\ l \in Nat /\ F \subseteq Nat
    BY <1>1
  <2>2. U(j) \subseteq U(l) /\ l \in U(l) /\ l \notin U(j)
    <3>1. \A m \in F : m <= j => m <= l
      BY <1>3, <2>1
    <3>2. l <= l /\ ~(l <= j)
      BY <1>3, <2>1
    <3> QED
      BY <1>3, <3>1, <3>2, Zenon
  <2> HIDE DEF U
  <2>3. Cardinality(U(j)) <= Cardinality(U(l)) /\ Cardinality(U(j)) # Cardinality(U(l))
    BY <1>2, <2>2, FS_Subset
  <2> QED
    BY <1>2, <2>3
<1>4. i \in F
  BY Zenon DEF F
<1>5. r \in 1..Cardinality(F)
  <2>1. i \in U(i)
    BY <1>1, <1>4
  <2> HIDE DEF U
  <2>2. r # 0
    BY <1>2, <2>1, FS_EmptySet, SMTT(60)
  <2> QED
    BY <1>1, <1>2, <2>2
<1>6. \A j \in F : Cardinality(U(j)) = r => j = i
  <2>1. \A j \in F : j \in Nat
    BY <1>1
  <2>2. \A j \in F : j = i \/ j < i \/ i < j
    BY <1>4, <2>1
  <2> HIDE DEF U
  <2> QED
    BY <1>2, <1>3, <1>4, <2>2
<1>7. First(s, r) = CHOOSE j \in F : Cardinality(U(j)) = r
  BY Zenon DEF First, F
<1>8. First(s, r) = i
  <2> HIDE DEF U
  <2> QED
    BY <1>4, <1>6, <1>7, ZenonT(60)
<1> QED
  BY <1>5, <1>8, Zenon DEF F

\* With room for all its colours, a picture shows what it was made of.
LEMMA PaletteShows ==
  ASSUME NEW img, NEW w \in Nat, NEW h \in Nat, w > 0, h > 0, Sized(img, w, h),
         Cardinality(Firsts(Pixels(img))) <= MaxColors, NEW y \in 1..h, NEW x \in 1..w
  PROVE  PaletteOf(img)[IndexOf(PaletteOf(img), img[y][x])] = img[y][x]
<1> DEFINE s == Pixels(img)
           c == img[y][x]
           T == {m \in 1..(w * h) : s[m] = c}
           pal == PaletteOf(img)
<1>1. w * h \in Nat /\ DOMAIN s = 1..(w * h)
  BY PixelsOf, Zenon
<1>2. T # {} /\ T \subseteq Nat
  <2>1. PICK m \in 1..(w * h) : s[m] = c
    BY PixelAt, Zenon
  <2>2. \A n \in 1..(w * h) : n \in Nat
    BY <1>1, SMTT(60)
  <2> QED
    BY <2>1, <2>2, ZenonT(60)
<1>3. PICK i \in T : \A j \in T : i <= j
  BY <1>2, Smallest, ZenonT(60)
<1>4. i \in Firsts(s) /\ s[i] = c
  <2>1. \A m \in 1..(i - 1) : m \in 1..(w * h) /\ ~(i <= m)
    BY <1>1, SMTT(60)
  <2> QED
    BY <1>1, <1>3, <2>1, ZenonT(60) DEF Firsts
<1> HIDE DEF s, c
<1>5. PICK r \in 1..Cardinality(Firsts(s)) : First(s, r) = i
  BY <1>1, <1>4, FirstOf, ZenonT(60)
<1>6. pal = [l \in 1..Room(Cardinality(Firsts(s))) |-> s[First(s, l)]]
  BY Zenon DEF PaletteOf, s
<1>7. Cardinality(Firsts(s)) \in Nat /\ Room(Cardinality(Firsts(s))) = Cardinality(Firsts(s))
  <2>1. Cardinality(Firsts(s)) \in Nat
    BY ColorsCounted, Zenon DEF s
  <2>2. Cardinality(Firsts(s)) <= MaxColors
    BY Zenon DEF s
  <2> QED
    BY <2>1, <2>2, ConverterAssumption, BuffersAssumption DEF Room
<1>8. r \in DOMAIN pal /\ pal[r] = c
  BY <1>4, <1>5, <1>6, <1>7, SMTT(60)
<1> HIDE DEF pal
<1>9. pal[IndexOf(pal, c)] = c
  BY <1>8, ZenonT(60) DEF IndexOf
<1> QED
  BY <1>9, ZenonT(60) DEF pal, c

\* A picture has no more colours than the one its pixels come from.
LEMMA FewColors ==
  ASSUME NEW img, NEW w \in Nat, NEW h \in Nat, w > 0, h > 0, Sized(img, w, h),
         NEW src, NEW v \in Nat, NEW u \in Nat, v > 0, u > 0, Sized(src, v, u),
         \A y \in 1..h, x \in 1..w : \E b \in 1..u, a \in 1..v : img[y][x] = src[b][a]
  PROVE  Cardinality(Firsts(Pixels(img))) <= Cardinality(Range(Pixels(src)))
<1> DEFINE s == Pixels(img)
           p == Pixels(src)
           F == Firsts(s)
           R == Range(p)
           f == [n \in F |-> s[n]]
<1>1. w * h \in Nat /\ DOMAIN s = 1..(w * h) /\ v * u \in Nat /\ DOMAIN p = 1..(v * u)
  BY PixelsOf, ZenonT(60)
<1>2. IsFiniteSet(R)
  BY ColorsCounted, ZenonT(60)
<1>3. \A n \in F : s[n] \in R
  <2>1. \A n \in F : n \in 1..(w * h)
    BY <1>1, SMTT(60) DEF Firsts
  <2>2. ASSUME NEW n \in 1..(w * h)
        PROVE  s[n] \in R
    <3>1. PICK y \in 1..h, x \in 1..w : s[n] = img[y][x]
      BY PixelFrom, SMTT(60)
    <3>2. PICK b \in 1..u, a \in 1..v : img[y][x] = src[b][a]
      BY Zenon
    <3>3. PICK m \in 1..(v * u) : p[m] = src[b][a]
      BY PixelAt, SMTT(60)
    <3> HIDE DEF s, p
    <3> QED
      BY <1>1, <3>1, <3>2, <3>3, ZenonT(60) DEF Range
  <2> QED
    BY <2>1, <2>2, Zenon
<1>4. ASSUME NEW m \in F, NEW n \in F, s[m] = s[n]
      PROVE  m = n
  <2>1. m \in Nat /\ n \in Nat /\ m > 0 /\ n > 0
    <3>1. m \in 1..(w * h) /\ n \in 1..(w * h)
      BY <1>1, ZenonT(60) DEF Firsts
    <3> QED
      BY <1>1, <3>1
  <2>2. ~(m < n) /\ ~(n < m)
    <3>1. \A j \in F, l \in F : j \in 1..(l - 1) => s[j] # s[l]
      BY Zenon DEF Firsts
    <3> HIDE DEF F, s
    <3> QED
      BY <1>4, <2>1, <3>1, SMTT(60)
  <2> QED
    BY <2>1, <2>2, SMTT(60)
<1> HIDE DEF s, p, F, R
<1>5. f \in Injection(F, R)
  BY <1>3, <1>4, SMTT(60) DEF Injection, IsInjective
<1> HIDE DEF f
<1>6. Cardinality(F) <= Cardinality(R)
  BY <1>2, <1>5, FS_Injection, SMTT(60)
<1> QED
  BY <1>6, ZenonT(60) DEF F, R, s, p

\* A converted picture shows its source.
LEMMA BitmapShows ==
  ASSUME NEW e, IsEvent(e), e # Nothing, NEW scale, NEW k \in Nat, NEW flush \in BOOLEAN,
         NEW late \in BOOLEAN, flush => late, ~Blank(Bitmap(e, scale, k, flush))
  PROVE  Shows(Bitmap(e, scale, k, flush), e, late)
<1> DEFINE clamp == flush /\ k = 1
           bm == Bitmap(e, scale, k, flush)
           img == IF k > 1 THEN resize_nn(e.img, e.w, e.h, k) ELSE e.img
           words == PackedImage(img)
           all == PackedImage(e.img)
           n == Entries(e)
           w == e.w * k
           h == e.h * k
           From(y, x) == e.img[(y + k - 1) \div k][(x + k - 1) \div k]
<1>1. /\ bm.w = w /\ bm.h = h
      /\ bm.idx = IF e.kind = "rgba"
                  THEN [y \in DOMAIN img |-> [x \in DOMAIN img[y] |-> IndexOf(PaletteOf(words), words[y][x])]]
                  ELSE IF clamp THEN Clamped(img, n) ELSE img
      /\ bm.palette = IF e.kind = "rgba" THEN PaletteOf(words) ELSE Copied(e, n)
  BY ZenonT(60) DEF Bitmap, rgba_to_indexed
<1>2. /\ e.w \in Nat /\ e.h \in Nat /\ Sized(e.img, e.w, e.h)
      /\ e.kind \in {"rgba", "indexed", "clear", "text"} /\ (e.kind \in {"clear", "text"} => e.w = 0)
  BY ZenonT(60) DEF IsEvent, Sized
<1>3. e.w > 0 /\ e.h > 0 /\ k > 0 /\ w \in Nat /\ h \in Nat /\ w > 0 /\ h > 0
  <2>1. ~(w <= 0) /\ ~(h <= 0)
    BY <1>1, ZenonT(60) DEF Blank
  <2> QED
    BY <1>2, <2>1, SMTT(60)
<1>4. /\ Sized(img, w, h)
      /\ \A y \in 1..h, x \in 1..w : /\ (y + k - 1) \div k \in 1..e.h /\ (x + k - 1) \div k \in 1..e.w
                                     /\ img[y][x] = From(y, x)
  BY <1>3, ScaledImage
<1>5. h \div e.h = k
  <2>1. e.h * k = h /\ k \in Int /\ h \in Int /\ e.h * k <= h /\ h < e.h * k + e.h
    BY <1>2, <1>3
  <2> HIDE DEF h
  <2> QED
    BY <1>2, <1>3, <2>1, QuotientIs, Zenon
<1> HIDE DEF bm, img, n, w, h, clamp
<1>6. DOMAIN img = 1..h /\ \A y \in 1..h : DOMAIN img[y] = 1..w
  BY <1>4, ZenonT(60) DEF Sized
<1>7. DOMAIN bm.idx = 1..h /\ Len(bm.idx) = h /\ \A y \in 1..h : DOMAIN bm.idx[y] = 1..w
  <2> HIDE DEF words
  <2>1. CASE e.kind = "rgba" \/ clamp
    <3>1. DOMAIN bm.idx = 1..h /\ bm.idx = [y \in 1..h |-> bm.idx[y]] /\ \A y \in 1..h : DOMAIN bm.idx[y] = 1..w
      <4>1. CASE e.kind = "rgba"
        BY <1>1, <1>6, <4>1, SMTT(60)
      <4>2. CASE e.kind # "rgba" /\ clamp
        BY <1>1, <1>6, <4>2, SMTT(60) DEF Clamped
      <4> QED
        BY <2>1, <4>1, <4>2, SMTT(60)
    <3> QED
      BY <1>3, <3>1, SequenceOn, SMTT(60)
  <2>2. CASE e.kind # "rgba" /\ ~clamp
    BY <1>1, <1>4, <2>2, SMTT(60) DEF Sized
  <2> QED
    BY <2>1, <2>2, Zenon
<1>8. /\ Sized(words, w, h) /\ \A y \in 1..h, x \in 1..w : words[y][x] = Packed(img[y][x])
      /\ Sized(all, e.w, e.h) /\ \A y \in 1..e.h, x \in 1..e.w : all[y][x] = Packed(e.img[y][x])
  <2>1. Sized(words, w, h) /\ \A y \in 1..h, x \in 1..w : words[y][x] = Packed(img[y][x])
    BY <1>3, <1>4, PackedSized, ZenonT(60)
  <2>2. Sized(all, e.w, e.h) /\ \A y \in 1..e.h, x \in 1..e.w : all[y][x] = Packed(e.img[y][x])
    BY <1>2, PackedSized, ZenonT(60)
  <2> QED
    BY <2>1, <2>2, Zenon
<1> HIDE DEF words, all
<1>9. ASSUME NEW y \in 1..h, NEW x \in 1..w, e.kind # "rgba"
      PROVE  IF From(y, x) \in 1..n
             THEN bm.idx[y][x] = From(y, x) /\ bm.palette[bm.idx[y][x]] = e.palette[From(y, x)]
             ELSE bm.idx[y][x] = From(y, x) \/ (bm.idx[y][x] = 1 /\ late)
  <2>1. img[y][x] = From(y, x)
    BY <1>4, ZenonT(60)
  <2> HIDE DEF From
  <2>2. e.kind = "indexed"
    BY <1>2, <1>3, <1>9
  <2>3. bm.idx[y][x] = IF clamp /\ img[y][x] > n THEN 1 ELSE img[y][x]
    <3>1. CASE clamp
      <4>1. bm.idx = Clamped(img, n) /\ y \in DOMAIN img /\ x \in DOMAIN img[y]
        BY <1>1, <1>6, <1>9, <3>1, ZenonT(60)
      <4>2. bm.idx[y] = [a \in DOMAIN img[y] |-> IF img[y][a] > n THEN 1 ELSE img[y][a]]
        BY <4>1, ZenonT(60) DEF Clamped
      <4> QED
        BY <3>1, <4>1, <4>2, ZenonT(60)
    <3>2. CASE ~clamp
      BY <1>1, <1>9, <3>2, ZenonT(60)
    <3> QED
      BY <3>1, <3>2, ZenonT(60)
  <2>4. clamp => late
    BY Zenon DEF clamp
  <2>5. CASE From(y, x) \in 1..n
    <3>1. n \in Nat
      BY EntriesFit, BuffersAssumption DEF n
    <3>2. ~(From(y, x) > n)
      BY <2>5, <3>1
    <3>3. bm.idx[y][x] = From(y, x)
      BY <2>1, <2>3, <3>2, ZenonT(60)
    <3>4. bm.palette = [i \in 1..n |-> e.palette[i]]
      BY <1>1, <1>9, <2>2, ZenonT(60) DEF Copied
    <3> QED
      BY <2>5, <3>3, <3>4, ZenonT(60)
  <2>6. CASE From(y, x) \notin 1..n
    BY <2>1, <2>3, <2>4, <2>6, ZenonT(60)
  <2> QED
    BY <2>5, <2>6, ZenonT(60)
<1>10. ASSUME NEW y \in 1..h, NEW x \in 1..w, e.kind = "rgba"
       PROVE  /\ bm.idx[y][x] \in 1..MaxColors
              /\ Cardinality(Range(Pixels(all))) <= MaxColors => bm.palette[bm.idx[y][x]] = Packed(From(y, x))
  <2>1. words[y][x] = Packed(From(y, x))
    BY <1>4, <1>8, ZenonT(60)
  <2> HIDE DEF From
  <2>2. bm.idx[y][x] = IndexOf(PaletteOf(words), words[y][x]) /\ bm.palette = PaletteOf(words)
    <3>1. /\ bm.idx = [b \in DOMAIN img |-> [a \in DOMAIN img[b] |-> IndexOf(PaletteOf(words), words[b][a])]]
          /\ bm.palette = PaletteOf(words)
      BY <1>1, <1>10, ZenonT(60)
    <3>2. y \in DOMAIN img /\ x \in DOMAIN img[y]
      BY <1>6, ZenonT(60)
    <3>3. bm.idx[y] = [a \in DOMAIN img[y] |-> IndexOf(PaletteOf(words), words[y][a])]
      BY <3>1, <3>2, ZenonT(60)
    <3> QED
      BY <3>1, <3>2, <3>3, SMTT(60)
  <2>3. bm.idx[y][x] \in 1..MaxColors
    BY <1>3, <1>8, <2>2, IndexInside, ZenonT(60)
  <2>4. ASSUME Cardinality(Range(Pixels(all))) <= MaxColors
        PROVE  bm.palette[bm.idx[y][x]] = words[y][x]
    <3>1. \A b \in 1..h, a \in 1..w : \E d \in 1..e.h, c \in 1..e.w : words[b][a] = all[d][c]
      <4> TAKE b \in 1..h, a \in 1..w
      <4>1. (b + k - 1) \div k \in 1..e.h /\ (a + k - 1) \div k \in 1..e.w /\ img[b][a] = From(b, a)
        BY <1>4, ZenonT(60)
      <4>2. words[b][a] = Packed(img[b][a])
        BY <1>8, Zenon
      <4>3. all[(b + k - 1) \div k][(a + k - 1) \div k] = Packed(From(b, a))
        BY <1>8, <4>1, ZenonT(60) DEF From
      <4> QED
        BY <4>1, <4>2, <4>3, ZenonT(60)
    <3>2. Cardinality(Firsts(Pixels(words))) <= Cardinality(Range(Pixels(all)))
      BY <1>2, <1>3, <1>8, <3>1, FewColors, ZenonT(60)
    <3>3. Cardinality(Firsts(Pixels(words))) \in Int /\ Cardinality(Range(Pixels(all))) \in Int
      <4>1. Cardinality(Firsts(Pixels(words))) \in Nat
        BY <1>3, <1>8, ColorsCounted, ZenonT(60)
      <4>2. Cardinality(Range(Pixels(all))) \in Nat
        BY <1>2, <1>3, <1>8, ColorsCounted, ZenonT(60)
      <4> QED
        BY <4>1, <4>2
    <3>4. Cardinality(Firsts(Pixels(words))) <= MaxColors
      BY <2>4, <3>2, <3>3, ConverterAssumption, BuffersAssumption, SMTT(60)
    <3> QED
      BY <1>3, <1>8, <2>2, <3>4, PaletteShows
  <2> QED
    BY <2>1, <2>3, <2>4, ZenonT(60)
<1>11. Len(bm.idx) \div e.h = k
  BY <1>5, <1>7
<1>12. Shows(bm, e, late)
  <2>1. SUFFICES ASSUME NEW y \in DOMAIN bm.idx, NEW x \in DOMAIN bm.idx[y]
        PROVE  IF e.kind = "rgba"
               THEN /\ bm.idx[y][x] \in 1..MaxColors
                    /\ Cardinality(Range(Pixels(PackedImage(e.img)))) <= MaxColors =>
                         bm.palette[bm.idx[y][x]] = Packed(From(y, x))
               ELSE IF From(y, x) \in 1..Entries(e)
               THEN bm.idx[y][x] = From(y, x) /\ bm.palette[bm.idx[y][x]] = e.palette[From(y, x)]
               ELSE bm.idx[y][x] = From(y, x) \/ (bm.idx[y][x] = 1 /\ late)
    BY <1>11, ZenonT(60) DEF Shows
  <2>2. y \in 1..h /\ x \in 1..w
    BY <1>7, ZenonT(60)
  <2> HIDE DEF From
  <2> QED
    BY <1>9, <1>10, <2>2, ZenonT(60) DEF n, all
<1> QED
  BY <1>12, Zenon DEF bm

================================================================================
