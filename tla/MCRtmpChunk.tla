----------------------------- MODULE MCRtmpChunk -----------------------------
(* Symmetry for model-checking RtmpChunk. *)
EXTENDS RtmpChunk, TLC

Symmetry == Permutations(Channels) \cup Permutations(MediaTypes)
=============================================================================
