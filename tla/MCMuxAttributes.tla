--------------------------- MODULE MCMuxAttributes ---------------------------
(* MuxPlatform and MuxAttributes on a small instance: two libraries of two  *)
(* real ids each, three ids, one attribute value of at most two ids.        *)
EXTENDS MuxAttributes, TLC

\* The two interface types are treated alike, and so are libraries and real ids.
Symmetry ==
  Permutations(InterfaceTypes) \cup Permutations(Adapters) \cup Permutations(RealIds)
=============================================================================
