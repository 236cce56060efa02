---------------------------- MODULE MCAc400Presence ----------------------------
(* Ac400Presence with two modules and two threads: a second session, or a  *)
(* second thread in the first one.                                         *)
EXTENDS Ac400Presence
=============================================================================
