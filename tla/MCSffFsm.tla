------------------------------- MODULE MCSffFsm -------------------------------
(* SffFsm with two network interfaces and one host interface.              *)
EXTENDS SffFsm
=============================================================================
