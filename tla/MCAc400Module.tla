----------------------------- MODULE MCAc400Module -----------------------------
(* Ac400Module with two lanes, two register values and one bad one; lanes  *)
(* and register values are interchangeable.                                *)
EXTENDS Ac400Module, TLC

Symmetry == Permutations(Netifs) \cup Permutations(Formats)
=============================================================================
