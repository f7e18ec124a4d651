----------------------------- MODULE MCLiveStream -----------------------------
(* Constant values and symmetry for model-checking LiveStream. *)
EXTENDS LiveStream, TLC

Symmetry ==
  Permutations(Encoders \ Players) \cup Permutations(Streams) \cup Permutations(Viewers)
=============================================================================
