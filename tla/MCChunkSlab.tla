---------------------------- MODULE MCChunkSlab ----------------------------
(* Instances of ChunkSlab for TLC. *)
EXTENDS ChunkSlab
=============================================================================
