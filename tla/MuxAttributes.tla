---------------------------- MODULE MuxAttributes ----------------------------
(***************************************************************************)
(* Ids inside attributes: what PlatformAdapter::set, get and convert_oid   *)
(* (tai_mux/platform_adapter.cpp) do to attributes whose values are object *)
(* ids, over the tables of MuxPlatform.                                    *)
(*                                                                         *)
(* A set turns every id of every attribute into a real id before the       *)
(* library is called, a get turns what the library answers back, in place, *)
(* up to the first id that has no counterpart.  An id, a list of ids and a *)
(* map of id lists are converted alike, one id after the other, so the     *)
(* value of an attribute is the sequence of the ids it holds.              *)
(***************************************************************************)
EXTENDS MuxPlatform, Sequences

CONSTANTS
  MaxIds,       \* ids in one attribute value (a bound of the model)
  MaxStored     \* attribute values kept at a time (a bound of the model)

ASSUME BoundsAssumption == MaxIds \in Nat /\ MaxStored \in Nat

VARIABLES
  stored,   \* the attribute's value in the library, by real object
  wrote     \* ids a caller has set and nobody has changed since (history)

attrVars == <<stored, wrote>>

IdLists(S) == UNION {[1 .. n -> S] : n \in 0 .. MaxIds}
RealLists == IdLists(RealIds)

-----------------------------------------------------------------------------
(* Conversion.                                                             *)

\* convert_oid on the way to a library: the real id an id stands for, of
\* whichever library it is.
Forward(id) == IF id \in DOMAIN map THEN GetMapping(id).real ELSE NoReal

\* Fault: the library that reports the id is not looked at.
FaultBackwardAnyLibrary(r, a) ==
  LET ids == {o \in DOMAIN map : map[o].real = r}
  IN  IF ids = {} THEN NullOid ELSE CHOOSE o \in ids : \A p \in ids : o <= p

\* Fault: the last id is not looked at.
FaultBackwardSkipsLast(r, a) ==
  IF ReverseMapping(r, a) = MaxOid THEN NullOid ELSE ReverseMapping(r, a)

\* convert_oid with reversed set: the id that stands for what a library
\* reports.
Backward(r, a) == ReverseMapping(r, a)

Convertible(reals, a) == \A i \in DOMAIN reals : Backward(reals[i], a) # NullOid

-----------------------------------------------------------------------------
(* get changes nothing but the caller's buffer: it is an operator of the   *)
(* state.                                                                  *)

\* What the library has for a real object.
Reported(t) == IF t \in DOMAIN stored THEN stored[t] ELSE <<>>

\* Fault: an id without a counterpart is skipped, the rest is answered.
FaultGetSkips(o) ==
  [status |-> "SUCCESS",
   ids |-> [i \in DOMAIN Reported(GetMapping(o)) |->
             Backward(Reported(GetMapping(o))[i], GetMapping(o).adapter)]]

\* PlatformAdapter::get when the library succeeds.
Get(o) ==
  LET t == GetMapping(o)
      reals == Reported(t)
  IN  IF Convertible(reals, t.adapter)
      THEN [status |-> "SUCCESS",
            ids |-> [i \in DOMAIN reals |-> Backward(reals[i], t.adapter)]]
      ELSE [status |-> "FAILURE", ids |-> <<>>]

\* get_mux_attribute of TAI_*_ATTR_MUX_REAL_OID, the one attribute that does
\* answer a real id.
GetRealOid(o) == GetMapping(o).real

-----------------------------------------------------------------------------
(* The calls.                                                              *)

AttrInit == Init /\ stored = <<>> /\ wrote = <<>>

Forget(o) == wrote' = Erase(wrote, o)

CanStore(t) == Cardinality(DOMAIN stored \cup {t}) <= MaxStored

\* PlatformAdapter::set: every id has to stand for something, then the
\* library takes the real ids.
Set(o, ids) ==
  /\ o \in DOMAIN map
  /\ \A i \in DOMAIN ids : Forward(ids[i]) # NoReal
  /\ CanStore(GetMapping(o))
  /\ stored' = Put(stored, GetMapping(o), [i \in DOMAIN ids |-> Forward(ids[i])])
  /\ wrote' = Put(wrote, o, ids)
  /\ UNCHANGED vars

\* The library answers an error, having taken the value or not.
SetRefused(o, ids) ==
  /\ o \in DOMAIN map
  /\ \A i \in DOMAIN ids : Forward(ids[i]) # NoReal
  /\ CanStore(GetMapping(o))
  /\ stored' = Put(stored, GetMapping(o), [i \in DOMAIN ids |-> Forward(ids[i])])
  /\ Forget(o)
  /\ UNCHANGED vars

\* A library changes the value by itself, to ids of its live objects.
LibraryChanges(t, reals) ==
  /\ t.real \in DOMAIN real[t.adapter]
  /\ \A i \in DOMAIN reals : reals[i] \in DOMAIN real[t.adapter]
  /\ CanStore(t)
  /\ stored' = Put(stored, t, reals)
  /\ wrote' = [o \in {p \in DOMAIN wrote : map[p] # t} |-> wrote[o]]
  /\ UNCHANGED vars

\* A removed object takes its attribute along; values of other objects keep
\* its real id.
RemoveObject(o) ==
  /\ Remove(o)
  /\ stored' = Erase(stored, GetMapping(o))
  /\ wrote' = [p \in {q \in DOMAIN wrote \ {o} :
                        \A i \in DOMAIN wrote[q] : wrote[q][i] # o} |-> wrote[p]]

AttrNext ==
  \/ /\ \/ CreateModuleRefused
        \/ CreateModule
        \/ CreateUnknownType
        \/ \E id \in Oids \cup {NullOid} :
             CreateInterfaceRefused(id) \/ CreateInterface(id) \/ RemoveRefused(id)
     /\ UNCHANGED attrVars
  \/ \E o \in Oids : RemoveObject(o)
  \/ \E o \in Oids, ids \in IdLists(Oids \cup {NullOid}) :
       Set(o, ids) \/ SetRefused(o, ids)
  \/ \E t \in Targets, reals \in RealLists : LibraryChanges(t, reals)

AttrSpec == AttrInit /\ [][AttrNext]_<<vars, stored, wrote>>

-----------------------------------------------------------------------------
(* Properties.                                                             *)

Library(o) == GetMapping(o).adapter

\* Ids of one library set in an attribute are read back as they were set, for
\* as long as none of the objects is removed: real ids reused in the library,
\* ids reused here and equal real ids in another library notwithstanding.
\* (convert_oid does not compare libraries on the way in: of an object of
\* another library no such promise holds.)
ReadsBack ==
  FreshRealIds =>
    \A o \in DOMAIN wrote :
      (\A i \in DOMAIN wrote[o] : Library(wrote[o][i]) = Library(o))
        => Get(o) = [status |-> "SUCCESS", ids |-> wrote[o]]

\* A get that succeeds answers, in the place of every real id, the id of an
\* object of the same library behind which that real id lies; no real id
\* passes for an id, whatever the library holds.
ReportsTranslated ==
  \A o \in DOMAIN map :
    LET answer == Get(o)
        reals == Reported(GetMapping(o))
    IN  answer.status = "SUCCESS" =>
          /\ DOMAIN answer.ids = DOMAIN reals
          /\ \A i \in DOMAIN reals :
               /\ answer.ids[i] \in DOMAIN objects
               /\ GetRealOid(answer.ids[i]) = reals[i]
               /\ Library(answer.ids[i]) = Library(o)

\* A library that reports only its live objects is always understood, unless
\* one of them was orphaned by a create at the allocator's limit.
LiveReportsAnswered ==
  Orphans = {} =>
    \A o \in DOMAIN map :
      LET t == GetMapping(o) IN
      (\A i \in DOMAIN Reported(t) : Reported(t)[i] \in DOMAIN real[t.adapter])
        => Get(o).status = "SUCCESS"
=============================================================================
