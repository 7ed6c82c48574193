---------------------------- MODULE MCChunkStore ----------------------------
(* Small instances of ChunkStore. *)
EXTENDS ChunkStore
Symmetry == Permutations(Workers)
ChunkSymmetry == Permutations(Chunks)
=============================================================================
