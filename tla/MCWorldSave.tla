----------------------------- MODULE MCWorldSave ----------------------------
(* Small instances of WorldSave for TLC.  The chunks are interchangeable.  *)
EXTENDS WorldSave, TLC

Symmetry == Permutations(Chunk)
=============================================================================
