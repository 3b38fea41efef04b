-------------------------- MODULE ArtGeometry_proofs ------------------------
(* What the geometry of the art scripts guarantees, whatever the size of
   the sheet, of the picture, of the frame or of the brick.                *)
EXTENDS ArtGeometry, TLAPS

(***************************************************************************)
(* Division.                                                               *)
(***************************************************************************)
LEMMA DivBounds ==
    ASSUME NEW a \in Nat, NEW b \in Nat, b > 0
    PROVE  a \div b \in Nat /\ b * (a \div b) <= a /\ a < b * (a \div b) + b
  BY SMTT(20)

LEMMA DivAtMost ==
    ASSUME NEW a \in Nat, NEW b \in Nat, b > 0, NEW k \in Nat, a <= k * b
    PROVE  a \div b <= k
  BY DivBounds, SMTT(20)

LEMMA DivAtLeast ==
    ASSUME NEW a \in Nat, NEW b \in Nat, b > 0, NEW k \in Nat, k * b <= a
    PROVE  k <= a \div b
  BY DivBounds, SMTT(20)

LEMMA DivMonotonic ==
    ASSUME NEW a \in Nat, NEW c \in Nat, a <= c, NEW b \in Nat, b > 0
    PROVE  a \div b <= c \div b
<1>1. b * (a \div b) <= c
  BY DivBounds
<1>2. c \div b \in Nat /\ a \div b \in Nat
  BY DivBounds
<1> QED BY <1>1, <1>2, DivAtLeast

LEMMA ProductMonotonic ==
    ASSUME NEW a \in Nat, NEW b \in Nat, a <= b, NEW c \in Nat
    PROVE  a * c \in Nat /\ b * c \in Nat /\ a * c <= b * c
  BY SMTT(20)

(***************************************************************************)
(* Cells.                                                                  *)
(***************************************************************************)
LEMMA EdgeMonotonic ==
    ASSUME NEW n \in Nat \ {0}, NEW len \in Nat, NEW i \in Nat, NEW j \in Nat, i <= j
    PROVE  /\ Edge(i, n, len) \in Nat /\ Edge(j, n, len) \in Nat
           /\ Edge(i, n, len) <= Edge(j, n, len)
  BY ProductMonotonic, DivMonotonic, DivBounds DEF Edge

LEMMA EdgeLast ==
    ASSUME NEW n \in Nat \ {0}, NEW len \in Nat, NEW i \in Nat, i <= n
    PROVE  Edge(i, n, len) <= len
<1>1. i * len \in Nat /\ i * len <= len * n
  BY ProductMonotonic
<1> QED BY <1>1, DivAtMost DEF Edge

(* Two crops of a row or of a column share no pixel, whatever the sheet's
   size: no badge shows a piece of its neighbour (the loops over NAMES,
   COLOURS and SIZES of the sheet scripts).                                *)
THEOREM CellsDisjoint ==
    ASSUME NEW n \in Nat \ {0}, NEW skip \in Nat, NEW len \in Nat, skip <= len,
           NEW margin \in Nat, NEW i \in 0..n-1, NEW j \in 0..n-1, i < j
    PROVE  Span(i, n, skip, len, margin).to <= Span(j, n, skip, len, margin).from
<1>1. len - skip \in Nat /\ i + 1 \in Nat /\ j \in Nat /\ i + 1 <= j
  OBVIOUS
<1>2. /\ Edge(i + 1, n, len - skip) \in Nat /\ Edge(j, n, len - skip) \in Nat
      /\ Edge(i + 1, n, len - skip) <= Edge(j, n, len - skip)
  BY <1>1, EdgeMonotonic
<1> QED BY <1>2 DEF Span

(* Every crop lies inside the sheet and clear of its header.               *)
THEOREM CellsInsideSheet ==
    ASSUME NEW n \in Nat \ {0}, NEW skip \in Nat, NEW len \in Nat, skip <= len,
           NEW margin \in Nat, NEW i \in 0..n-1
    PROVE  /\ skip + margin <= Span(i, n, skip, len, margin).from
           /\ Span(i, n, skip, len, margin).to <= len - margin
<1>1. len - skip \in Nat /\ i + 1 \in Nat /\ i \in Nat /\ i + 1 <= n /\ i <= i + 1
  OBVIOUS
<1>2. /\ Edge(i, n, len - skip) \in Nat /\ Edge(i + 1, n, len - skip) \in Nat
      /\ Edge(i + 1, n, len - skip) <= len - skip
  BY <1>1, EdgeMonotonic, EdgeLast
<1> QED BY <1>2 DEF Span

(* A sheet that gives each cell more than its two margins has no empty
   crop: sub.crop never fails in the middle of a sheet.                    *)
THEOREM CellsNotEmpty ==
    ASSUME NEW n \in Nat \ {0}, NEW skip \in Nat, NEW len \in Nat, skip <= len,
           NEW margin \in Nat, NEW i \in 0..n-1,
           n * (2 * margin + 2) <= len - skip
    PROVE  Span(i, n, skip, len, margin).from < Span(i, n, skip, len, margin).to
<1> DEFINE g == len - skip
           e == Edge(i, n, g)
           f == Edge(i + 1, n, g)
<1>1. g \in Nat /\ i \in Nat /\ i + 1 \in Nat
  OBVIOUS
<1>2. i * g \in Nat /\ (i + 1) * g \in Nat /\ (i + 1) * g = i * g + g
  BY <1>1, SMTT(20)
<1>3. e \in Nat /\ f \in Nat /\ n * e <= i * g /\ i * g + g < n * f + n
  BY <1>1, <1>2, DivBounds DEF Edge
<1> HIDE DEF e, f
<1>4. n * e + n * (2 * margin + 2) < n * f + n
  BY <1>1, <1>2, <1>3, SMTT(20)
<1>5. n * (e + 2 * margin + 1) < n * f
  BY <1>3, <1>4, SMTT(20)
<1>6. e + 2 * margin + 1 <= f
  BY <1>3, <1>5, SMTT(20)
<1> QED BY <1>3, <1>6 DEF Span, e, f

(***************************************************************************)
(* Pictures in frames.                                                     *)
(***************************************************************************)
LEMMA TruncatedBounds ==
    ASSUME NEW a \in Nat, NEW b \in Nat \ {0}, NEW k \in Truncated(a, b)
    PROVE  k \in Int /\ k * b <= a /\ a <= k * b + b
<1>1. a \div b \in Nat /\ b * (a \div b) <= a /\ a < b * (a \div b) + b
  BY DivBounds
<1> DEFINE q == a \div b
<1> HIDE DEF q
<1>2. k = q \/ (q * b = a /\ k = q - 1)
  BY DEF Truncated, q
<1> QED BY <1>1, <1>2, SMTT(20) DEF q

(* The two sides of a scaled picture, before the one-pixel minimum.        *)
LEMMA ScaledSides ==
    ASSUME NEW w \in Nat \ {0}, NEW h \in Nat \ {0}, NEW tw \in Nat \ {0},
           NEW th \in Nat \ {0}, NEW s \in Scaled(w, h, tw, th)
    PROVE  \E x, y \in Int :
              /\ s.w = AtLeastOne(x) /\ s.h = AtLeastOne(y)
              /\ x <= tw /\ y <= th
              /\ x * h - y * w <= w /\ -h <= x * h - y * w
<1>1. tw * h \in Nat /\ th * w \in Nat /\ tw * w \in Nat /\ th * h \in Nat
  BY SMTT(20)
<1>2. CASE tw * h <= th * w
  <2>1. PICK x \in Truncated(tw * w, w), y \in Truncated(tw * h, w) :
           s.w = AtLeastOne(x) /\ s.h = AtLeastOne(y)
    BY <1>2 DEF Scaled
  <2>2. /\ x \in Int /\ x * w <= tw * w /\ tw * w <= x * w + w
        /\ y \in Int /\ y * w <= tw * h /\ tw * h <= y * w + w
    BY <1>1, <2>1, TruncatedBounds
  <2>3. x <= tw /\ tw <= x + 1
    BY <2>2, SMTT(20)
  <2>4. x * h <= tw * h /\ tw * h <= x * h + h
    BY <2>2, <2>3, SMTT(20)
  <2>5. y <= th
    BY <1>1, <1>2, <2>2, SMTT(20)
  <2>6. x * h \in Int /\ y * w \in Int
    BY <2>2, SMTT(20)
  <2>7. x * h - y * w <= w /\ -h <= x * h - y * w
    BY <1>1, <2>2, <2>4, <2>6
  <2> QED BY <2>1, <2>2, <2>3, <2>5, <2>7
<1>3. CASE ~(tw * h <= th * w)
  <2>1. PICK x \in Truncated(th * w, h), y \in Truncated(th * h, h) :
           s.w = AtLeastOne(x) /\ s.h = AtLeastOne(y)
    BY <1>3 DEF Scaled
  <2>2. /\ x \in Int /\ x * h <= th * w /\ th * w <= x * h + h
        /\ y \in Int /\ y * h <= th * h /\ th * h <= y * h + h
    BY <1>1, <2>1, TruncatedBounds
  <2>3. y <= th /\ th <= y + 1
    BY <2>2, SMTT(20)
  <2>4. y * w <= th * w /\ th * w <= y * w + w
    BY <2>2, <2>3, SMTT(20)
  <2>5. x <= tw
    BY <1>1, <1>3, <2>2, SMTT(20)
  <2>6. x * h \in Int /\ y * w \in Int
    BY <2>2, SMTT(20)
  <2>7. x * h - y * w <= w /\ -h <= x * h - y * w
    BY <1>1, <2>2, <2>4, <2>6
  <2> QED BY <2>1, <2>2, <2>3, <2>5, <2>7
<1> QED BY <1>2, <1>3

(* A picture that is fitted and pasted in the middle stays inside its frame,
   with the frame's border free on all sides (target = out_size - border in
   the crop helpers).                                                      *)
THEOREM FittedInsideFrame ==
    ASSUME NEW w \in Nat \ {0}, NEW h \in Nat \ {0}, NEW border \in Nat,
           NEW tw \in Nat \ {0}, NEW th \in Nat \ {0},
           NEW s \in Scaled(w, h, tw, th)
    PROVE  /\ 1 <= s.w /\ 1 <= s.h
           /\ border \div 2 <= PasteAt(tw + border, s.w)
           /\ PasteAt(tw + border, s.w) + s.w <= tw + border - border \div 2
           /\ border \div 2 <= PasteAt(th + border, s.h)
           /\ PasteAt(th + border, s.h) + s.h <= th + border - border \div 2
<1>1. PICK x, y \in Int :
         /\ s.w = AtLeastOne(x) /\ s.h = AtLeastOne(y)
         /\ x <= tw /\ y <= th
         /\ x * h - y * w <= w /\ -h <= x * h - y * w
  BY ScaledSides
<1>2. s.w \in 1..tw /\ s.h \in 1..th
  BY <1>1 DEF AtLeastOne
<1>3. ASSUME NEW t \in Nat, NEW k \in 1..t
      PROVE  /\ border \div 2 <= PasteAt(t + border, k)
             /\ PasteAt(t + border, k) + k <= t + border - border \div 2
  BY SMTT(20) DEF PasteAt
<1> QED BY <1>2, <1>3

(* Fitting stretches nothing: the two sides keep their ratio to the pixel,
   unless one of them has shrunk to the minimum.                           *)
THEOREM FittedKeepsShape ==
    ASSUME NEW w \in Nat \ {0}, NEW h \in Nat \ {0},
           NEW tw \in Nat \ {0}, NEW th \in Nat \ {0},
           NEW s \in Scaled(w, h, tw, th), s.w > 1, s.h > 1
    PROVE  s.w * h - s.h * w <= w /\ -h <= s.w * h - s.h * w
<1>1. PICK x, y \in Int : /\ s.w = AtLeastOne(x) /\ s.h = AtLeastOne(y)
                         /\ x * h - y * w <= w /\ -h <= x * h - y * w
  BY ScaledSides
<1>2. s.w = x /\ s.h = y
  BY <1>1 DEF AtLeastOne
<1> QED BY <1>1, <1>2

(* A panel cut from the middle of a picture lies inside it and has the shape
   asked for, to the pixel (crop_panel).                                   *)
THEOREM CentreCropInside ==
    ASSUME NEW w \in Nat \ {0}, NEW h \in Nat \ {0}, NEW tw \in Nat \ {0},
           NEW th \in Nat \ {0}, NEW c \in CentreCrop(w, h, tw, th)
    PROVE  /\ 0 <= c.x /\ c.x + c.w <= w /\ 0 <= c.y /\ c.y + c.h <= h
           /\ c.w * th <= c.h * tw + tw /\ c.h * tw <= c.w * th + th
<1>1. w * th \in Nat /\ h * tw \in Nat /\ tw * h = h * tw
  BY SMTT(20)
<1>2. CASE w * th > tw * h
  <2>1. PICK k \in Truncated(h * tw, th) : c = [x |-> (w - k) \div 2, y |-> 0, w |-> k, h |-> h]
    BY <1>2 DEF CentreCrop
  <2>2. k \in Int /\ k * th <= h * tw /\ h * tw <= k * th + th
    BY <1>1, <2>1, TruncatedBounds
  <2>3. k <= w
    BY <1>1, <1>2, <2>2, SMTT(20)
  <2>4. 0 <= (w - k) \div 2 /\ (w - k) \div 2 + k <= w
    BY <2>2, <2>3, SMTT(20)
  <2>5. k * th \in Int
    BY <2>2, SMTT(20)
  <2>6. k * th <= h * tw + tw
    BY <1>1, <2>2, <2>5
  <2>7. c.x = (w - k) \div 2 /\ c.y = 0 /\ c.w = k /\ c.h = h
    BY <2>1
  <2> QED BY <2>2, <2>4, <2>6, <2>7
<1>3. CASE ~(w * th > tw * h)
  <2>1. PICK k \in Truncated(w * th, tw) : c = [x |-> 0, y |-> (h - k) \div 2, w |-> w, h |-> k]
    BY <1>3 DEF CentreCrop
  <2>2. k \in Int /\ k * tw <= w * th /\ w * th <= k * tw + tw
    BY <1>1, <2>1, TruncatedBounds
  <2>3. k <= h
    BY <1>1, <1>3, <2>2, SMTT(20)
  <2>4. 0 <= (h - k) \div 2 /\ (h - k) \div 2 + k <= h
    BY <2>2, <2>3, SMTT(20)
  <2>5. k * tw \in Int
    BY <2>2, SMTT(20)
  <2>6. k * tw <= w * th + th
    BY <1>1, <2>2, <2>5
  <2>7. c.x = 0 /\ c.y = (h - k) \div 2 /\ c.w = w /\ c.h = k
    BY <2>1
  <2> QED BY <2>2, <2>4, <2>6, <2>7
<1> QED BY <1>2, <1>3

(* A tile cut from the middle is a whole square of the picture's shorter
   side (crop_square).                                                     *)
THEOREM CentreSquareInside ==
    ASSUME NEW w \in Nat \ {0}, NEW h \in Nat \ {0}
    PROVE  LET c == CentreSquare(w, h)
           IN  /\ 0 <= c.x /\ c.x + c.side <= w
               /\ 0 <= c.y /\ c.y + c.side <= h
               /\ c.side > 0 /\ (c.side = w \/ c.side = h)
  BY SMTT(20) DEF CentreSquare

(***************************************************************************)
(* Studs.                                                                  *)
(***************************************************************************)
LEMMA StudMirrored ==
    ASSUME NEW n \in Nat \ {0}, NEW i \in 0..n-1
    PROVE  /\ n - 1 - i \in 0..n-1
           /\ StudAt(n - 1 - i, n) = -StudAt(i, n)
  BY SMTT(20) DEF StudAt, StudPitch

(* Every stud of the exported mesh has its anchor, and every anchor its
   stud, though the export mirrors the mesh and not the anchors
   (add_stud_grid, export_glb).                                            *)
THEOREM AnchorsAtStuds ==
    ASSUME NEW fx \in Nat \ {0}, NEW fz \in Nat \ {0}
    PROVE  Anchors(fx, fz) = Exported(StudsBuilt(fx, fz))
<1>1. ASSUME NEW a \in Anchors(fx, fz)
      PROVE  a \in Exported(StudsBuilt(fx, fz))
  <2>1. PICK ix \in 0..fx-1, iz \in 0..fz-1 : a = <<StudAt(ix, fx), StudAt(iz, fz)>>
    BY DEF Anchors
  <2>2. /\ fz - 1 - iz \in 0..fz-1
        /\ <<StudAt(ix, fx), StudAt(fz - 1 - iz, fz)>> \in StudsBuilt(fx, fz)
    BY StudMirrored DEF StudsBuilt
  <2>3. StudAt(iz, fz) \in Int /\ StudAt(fz - 1 - iz, fz) = -StudAt(iz, fz)
    BY StudMirrored, SMTT(20) DEF StudAt, StudPitch
  <2>4. a = <<StudAt(ix, fx), -StudAt(fz - 1 - iz, fz)>>
    BY <2>1, <2>3
  <2> QED BY <2>2, <2>4 DEF Exported
<1>2. ASSUME NEW e \in Exported(StudsBuilt(fx, fz))
      PROVE  e \in Anchors(fx, fz)
  <2>1. PICK ix \in 0..fx-1, iz \in 0..fz-1 : e = <<StudAt(ix, fx), -StudAt(iz, fz)>>
    BY DEF Exported, StudsBuilt
  <2>2. e = <<StudAt(ix, fx), StudAt(fz - 1 - iz, fz)>> /\ fz - 1 - iz \in 0..fz-1
    BY <2>1, StudMirrored
  <2> QED BY <2>2 DEF Anchors
<1> QED BY <1>1, <1>2

(* The studs stay on the top of a rectangular brick (make_rect).           *)
THEOREM StudsOnBrick ==
    ASSUME NEW n \in Nat \ {0}, NEW i \in 0..n-1
    PROVE  /\ StudAt(i, n) + StudRadius <= (n * StudPitch) \div 2
           /\ -((n * StudPitch) \div 2) <= StudAt(i, n) - StudRadius
  BY SMTT(20) DEF StudAt, StudPitch, StudRadius

(***************************************************************************)
(* The voxel atlas.                                                        *)
(***************************************************************************)

LEMMA OneTile ==
    ASSUME NEW q \in Int, NEW c \in Nat, NEW d \in Nat,
           c * 256 <= q, q < (c + 1) * 256, d * 256 <= q, q < (d + 1) * 256
    PROVE  c = d
  BY SMTT(20)

(* Tiles do not overpaint each other, and each fits into the atlas (main of
   generate_voxel_atlas).                                                  *)
THEOREM AtlasTilesDisjoint ==
    ASSUME NEW a \in 0..(AtlasColumns * AtlasRows - 1),
           NEW b \in 0..(AtlasColumns * AtlasRows - 1), a # b
    PROVE  TilePixels(Slot(a)) \cap TilePixels(Slot(b)) = {}
<1>1. /\ Slot(a)[1] \in Nat /\ Slot(a)[2] \in Nat
      /\ Slot(b)[1] \in Nat /\ Slot(b)[2] \in Nat
      /\ Slot(a)[1] # Slot(b)[1] \/ Slot(a)[2] # Slot(b)[2]
  BY SMTT(20) DEF Slot, AtlasColumns, AtlasRows
<1> HIDE DEF Slot
<1>2. ASSUME NEW p \in TilePixels(Slot(a)), p \in TilePixels(Slot(b))
      PROVE  FALSE
  <2>1. p[1] \in Int /\ p[2] \in Int
    BY <1>2 DEF TilePixels
  <2>2. \A k \in 1..2 : /\ Slot(a)[k] * 256 <= p[k] /\ p[k] < (Slot(a)[k] + 1) * 256
                       /\ Slot(b)[k] * 256 <= p[k] /\ p[k] < (Slot(b)[k] + 1) * 256
    BY <1>2 DEF TilePixels, TileSize
  <2>3. Slot(a)[1] = Slot(b)[1]
    <3>1. /\ Slot(a)[1] * 256 <= p[1] /\ p[1] < (Slot(a)[1] + 1) * 256
          /\ Slot(b)[1] * 256 <= p[1] /\ p[1] < (Slot(b)[1] + 1) * 256
      BY <2>2, 1 \in 1..2
    <3> QED BY <1>1, <2>1, <3>1, OneTile
  <2>4. Slot(a)[2] = Slot(b)[2]
    <3>1. /\ Slot(a)[2] * 256 <= p[2] /\ p[2] < (Slot(a)[2] + 1) * 256
          /\ Slot(b)[2] * 256 <= p[2] /\ p[2] < (Slot(b)[2] + 1) * 256
      BY <2>2, 2 \in 1..2
    <3> QED BY <1>1, <2>1, <3>1, OneTile
  <2> QED BY <1>1, <2>3, <2>4
<1> QED BY <1>2
=============================================================================
