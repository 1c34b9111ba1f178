----------------------------- MODULE MCChunkCache -----------------------------
(* Instances of ChunkCache for TLC; every constant is given in the .cfg    *)
(* files. Paths are interchangeable.                                       *)
EXTENDS ChunkCache, TLC

PathSymmetry == Permutations(Path)
=============================================================================
