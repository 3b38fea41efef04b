------------------------------ MODULE ArtGeometry ---------------------------
(***************************************************************************)
(* How the art scripts cut a sheet, fit a picture into its frame, lay out  *)
(* the studs of a brick and the tiles of the voxel atlas.                  *)
(*                                                                         *)
(* Lengths are integers: pixels, or half millimetres for bricks.  Python   *)
(* computes the pixels in floating point and truncates.                    *)
(***************************************************************************)
EXTENDS Integers, Sequences

(***************************************************************************)
(* Cutting a sheet into a grid of cells.                                   *)
(***************************************************************************)

(* Where cell i begins, n cells along len pixels: int(i * (len / n)), which
   the floats of sheets up to 4096 pixels and the 3, 4, 5, 6, 9 or 10
   cells of the scripts compute exactly.                                   *)
Edge(i, n, len) == (i * len) \div n

(* What is cropped of cell i: the sheet has a header of skip pixels (the
   labels of the brick sheet), a cell loses margin pixels at either end.   *)
Span(i, n, skip, len, margin) ==
    [from |-> skip + Edge(i, n, len - skip) + margin,
     to   |-> skip + Edge(i + 1, n, len - skip) - margin]

(***************************************************************************)
(* Fitting a picture of w by h pixels into a frame.                        *)
(***************************************************************************)

(* int() of a float whose exact value is a / b: an exact integer may come
   out just below itself.                                                  *)
Truncated(a, b) ==
    LET q == a \div b IN IF q * b = a THEN {q - 1, q} ELSE {q}

AtLeastOne(k) == IF k < 1 THEN 1 ELSE k

(* The size of the picture when it has been scaled by min(tw/w, th/h).     *)
Scaled(w, h, tw, th) ==
    LET wide == tw * h <= th * w
    IN  [w : {AtLeastOne(k) : k \in Truncated(IF wide THEN tw * w ELSE th * w,
                                              IF wide THEN w ELSE h)},
         h : {AtLeastOne(k) : k \in Truncated(IF wide THEN tw * h ELSE th * h,
                                              IF wide THEN w ELSE h)}]

(* Where a picture of n pixels is pasted in the middle of out pixels.      *)
PasteAt(out, n) == (out - n) \div 2

(* The part of a picture that has the shape tw by th, cut from its middle. *)
CentreCrop(w, h, tw, th) ==
    IF w * th > tw * h
    THEN {[x |-> (w - k) \div 2, y |-> 0, w |-> k, h |-> h] : k \in Truncated(h * tw, th)}
    ELSE {[x |-> 0, y |-> (h - k) \div 2, w |-> w, h |-> k] : k \in Truncated(w * th, tw)}

(* The same for a square, in integers.                                     *)
CentreSquare(w, h) ==
    LET side == IF w <= h THEN w ELSE h
    IN  [x |-> (w - side) \div 2, y |-> (h - side) \div 2, side |-> side]

(***************************************************************************)
(* Studs of a brick of fx by fz studs.                                     *)
(***************************************************************************)
StudPitch == 250
StudRadius == 80

(* The middle of stud i of n, from the middle of the brick.                *)
StudAt(i, n) == ((2 * i - (n - 1)) * StudPitch) \div 2

(* In Blender x and y are horizontal: the studs that are built, and what
   export_yup makes of them, which turns y into -z.                        *)
StudsBuilt(fx, fz) == {<<StudAt(ix, fx), StudAt(iz, fz)>> : ix \in 0..fx-1, iz \in 0..fz-1}
Exported(studs) == {<<s[1], -s[2]>> : s \in studs}

(* What the anchors file says: x and z as they were computed.              *)
Anchors(fx, fz) == {<<StudAt(ix, fx), StudAt(iz, fz)>> : ix \in 0..fx-1, iz \in 0..fz-1}

(***************************************************************************)
(* Faces of the slope bricks, over the indices of their corners.           *)
(***************************************************************************)
SlopeFaces == {<<0, 1, 2, 3>>, <<0, 4, 5, 1>>, <<5, 4, 3, 2>>, <<0, 3, 4>>, <<1, 5, 2>>}
SlopeCornerFaces == {<<0, 1, 2, 3>>, <<0, 4, 1>>, <<0, 3, 4>>, <<1, 4, 2>>, <<2, 4, 3>>}

(***************************************************************************)
(* The voxel atlas: tile idx is painted at slot <<column, row>>.           *)
(***************************************************************************)
AtlasColumns == 5
AtlasRows == 4
TileSize == 256

Slot(idx) == <<idx % AtlasColumns, idx \div AtlasColumns>>

(* The pixels of the tile in a slot.                                       *)
TilePixels(slot) ==
    {p \in Int \X Int : \A k \in 1..2 :
        slot[k] * TileSize <= p[k] /\ p[k] < (slot[k] + 1) * TileSize}

Tiles == <<"grass_top", "grass_face", "sand_top", "sand_face", "snow_top",
           "snow_face", "stone_top", "stone_face", "sandstone_top", "sandstone_face",
           "ice_top", "ice_face", "water_top", "water_face", "wood_log_top",
           "wood_log_face", "dirt_top", "dirt_face", "leaves_top", "leaves_face">>

(* The slots the game takes for the top and the sides of each block.       *)
GameSlots ==
    [grass     |-> <<<<0, 0>>, <<1, 0>>>>, sand |-> <<<<2, 0>>, <<3, 0>>>>,
     snow      |-> <<<<4, 0>>, <<0, 1>>>>, stone |-> <<<<1, 1>>, <<2, 1>>>>,
     sandstone |-> <<<<3, 1>>, <<4, 1>>>>, ice |-> <<<<0, 2>>, <<1, 2>>>>,
     water     |-> <<<<2, 2>>, <<3, 2>>>>, wood_log |-> <<<<4, 2>>, <<0, 3>>>>,
     dirt      |-> <<<<1, 3>>, <<2, 3>>>>, leaves |-> <<<<3, 3>>, <<4, 3>>>>]
=============================================================================
