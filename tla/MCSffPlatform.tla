---------------------------- MODULE MCSffPlatform ----------------------------
(* Three locations: two ports that fit a byte, and one like the first.       *)
EXTENDS SffPlatform, Bitwise, TLC

MCPort == "a" :> 1 @@ "b" :> 3 @@ "c" :> 257

MCBitOr(a, b) == a | b
=============================================================================
