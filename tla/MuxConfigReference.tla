-------------------------- MODULE MuxConfigReference --------------------------
(***************************************************************************)
(* The table of the static platform adapter compared with what its file    *)
(* denotes by the grammar of JSON.                                         *)
(***************************************************************************)
EXTENDS MuxConfig, JsonReference

\* The table that is used is the one that was written: the locations the
\* static adapter has from its file are the keys of the document, and the
\* library of each is the one the document names last for it.
TableAsWritten ==
  [][config' # config /\ reading = "accepted" =>
       \E document \in Denoted(file) :
         /\ DOMAIN config' = {LocationOf[k] : k \in DOMAIN document.members}
         /\ \A k \in DOMAIN document.members :
              config'[LocationOf[k]] = LibraryNamed(document.members[k])]_configVars
=============================================================================
