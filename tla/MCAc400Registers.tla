---------------------------- MODULE MCAc400Registers ----------------------------
(* Ac400Status with all interfaces; control registers that are all zero,   *)
(* all one, and alternating; values that are zero, one, and all ones of a  *)
(* field of each width.  MCOversized is a number of eleven bits.           *)
EXTENDS Ac400Status

MCWords == {{}, Bits, {b \in Bits : b % 2 = 0}, {b \in Bits : b % 2 = 1}}
MCValues == {{}, {0}, {1}, {0, 1}} \cup {0 .. width - 1 : width \in 3 .. 10}
MCOversized == {{10}}
=============================================================================
