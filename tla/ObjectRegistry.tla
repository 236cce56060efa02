--------------------------- MODULE ObjectRegistry ---------------------------
(***************************************************************************)
(* What a TAI library promises the holder of an object id, whatever lies   *)
(* behind it: a successful create answers an id nobody holds and binds it  *)
(* to one real object, the binding never changes while the id is live, a   *)
(* successful remove ends exactly that one binding, and a call that fails  *)
(* changes nothing.  MuxPlatform is shown to implement this.               *)
(***************************************************************************)
EXTENDS Integers

CONSTANTS
  Handles,    \* the ids a caller can be given
  NoHandle,   \* the id of an answer that names no object
  Bindings,   \* what an id can stand for
  Failures    \* the statuses of a failed call

VARIABLES
  reg,        \* live ids, each with its binding
  ret         \* the answer of the last call

vars == <<reg, ret>>

Init ==
  /\ reg = <<>>
  /\ ret = [status |-> "SUCCESS", id |-> NoHandle]

\* A create that succeeds.
Register ==
  \E h \in Handles \ DOMAIN reg, b \in Bindings :
    /\ reg' = [x \in DOMAIN reg \cup {h} |-> IF x = h THEN b ELSE reg[x]]
    /\ ret' = [status |-> "SUCCESS", id |-> h]

\* A remove that succeeds.
Retire ==
  \E h \in DOMAIN reg :
    /\ reg' = [x \in DOMAIN reg \ {h} |-> reg[x]]
    /\ ret' = [status |-> "SUCCESS", id |-> NoHandle]

\* Any call that fails.
Refuse ==
  /\ ret' \in [status : Failures, id : {NoHandle}]
  /\ UNCHANGED reg

Next == Register \/ Retire \/ Refuse

Spec == Init /\ [][Next]_vars
=============================================================================
