---------------------------- MODULE MCAssetPipeline -------------------------
(* Small instances of AssetPipeline for TLC.                               *)
EXTENDS AssetPipeline, AssetScripts, ArtGeometry, TLC

(* Any two runs, of any scripts, one after the other or side by side.      *)
AnyTwo == [scripts |-> Script, runs |-> 2]

(* The chain from a crop to the mesh of a creature, with room for a second
   batch after a first one.                                                *)
CreatureChain ==
    [scripts |-> {"crop_savannah", "batch_from_user_art", "apply_palette",
                  "generate_creatures"},
     runs |-> 4]

AllSettings == {AnyTwo, CreatureChain}

(***************************************************************************)
(* Facts about the tables of ArtGeometry, which TLC evaluates.             *)
(***************************************************************************)

(* The generator paints each tile where the game looks for it
   (_VOXEL_TILES in main_scene.gd).                                        *)
TileAt(slot) ==
    CHOOSE name \in Range(Tiles) :
        \E i \in 1..Len(Tiles) : Tiles[i] = name /\ Slot(i - 1) = slot

ASSUME GameFindsTiles ==
    \A block \in DOMAIN GameSlots :
        /\ TileAt(GameSlots[block][1]) = block \o "_top"
        /\ TileAt(GameSlots[block][2]) = block \o "_face"

(* The slope bricks are closed: each edge of a face is, the other way
   round, an edge of exactly one other face.                               *)
Edges(face) == {<<face[i], face[(i % Len(face)) + 1]>> : i \in 1..Len(face)}

ASSUME SlopesClosed ==
    \A faces \in {SlopeFaces, SlopeCornerFaces} : \A f \in faces : \A e \in Edges(f) :
        \E g \in faces :
            /\ <<e[2], e[1]>> \in Edges(g)
            /\ \A o \in faces \ {g} : <<e[2], e[1]>> \notin Edges(o)
=============================================================================
