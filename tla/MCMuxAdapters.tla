---------------------------- MODULE MCMuxAdapters ----------------------------
(* Two locations that share a library, for MuxAdapters on its own.         *)
EXTENDS MuxAdapters, TLC

CONSTANTS liba, libb

MCOneConfig == {1 :> liba @@ 2 :> liba}

MCStableAnswers == 1 :> {liba, Null} @@ 2 :> {libb, Null} @@ 3 :> {liba, Null}
=============================================================================
