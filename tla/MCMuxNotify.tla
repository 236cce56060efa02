----------------------------- MODULE MCMuxNotify -----------------------------
(* MuxNotify on small instances: model values in the .cfg, no symmetry,    *)
(* since a liveness property is checked.                                   *)
EXTENDS MuxNotify
=============================================================================
