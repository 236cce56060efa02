----------------------------- MODULE MuxPlatform -----------------------------
(***************************************************************************)
(* The object table of the TAI multiplexer (tai_mux/mux.cpp Platform       *)
(* together with OIDAllocator and the id mapping of PlatformAdapter).      *)
(* The multiplexer gives its callers ids of its own and forwards           *)
(* every call to the real library ("module adapter") that owns the object. *)
(* Three tables have to agree for that to work: the allocator's bitset,    *)
(* the mapping m_map and the framework's object table m_objects.           *)
(*                                                                         *)
(* One API call is one step: the framework serialises calls and none of    *)
(* these tables is touched while a real library runs.  Which adapter a     *)
(* location leads to is left open here (see MuxAdapters), so is every      *)
(* answer of a real library.                                               *)
(***************************************************************************)
EXTENDS Integers, FiniteSets

CONSTANTS
  InterfaceTypes,   \* NETWORKIF and HOSTIF, which are treated alike
  Adapters,         \* loaded real libraries
  RealIds,          \* ids the real libraries give out
  NoReal,           \* "no real object"
  MaxOid,           \* TAI_MUX_NUM_MAX_OBJECT - 1, 255 in the code
  FreshRealIds      \* TRUE: create in a real library never answers the id of
                    \* an object that is still live there

ASSUME TypesAssumption == "MODULE" \notin InterfaceTypes
ASSUME MaxOidAssumption == MaxOid \in Nat
ASSUME NoRealAssumption == NoReal \notin RealIds
ASSUME LibraryAssumption == FreshRealIds \in BOOLEAN

VARIABLES
  bitset,     \* OIDAllocator::m_bitset, the ids taken
  map,        \* PlatformAdapter::m_map, id -> real id and adapter
  objects,    \* framework Platform::m_objects, id -> object
  real,       \* the objects live in each real library
  ret         \* what the last call answered

vars == <<bitset, map, objects, real, ret>>

NullOid == 0      \* TAI_NULL_OBJECT_ID; the allocator starts at 1
Oids == 1 .. MaxOid
ObjectTypes == {"MODULE"} \cup InterfaceTypes
Failures == {"FAILURE", "MANDATORY_ATTRIBUTE_MISSING", "UNINITIALIZED",
             "INVALID_OBJECT_ID", "NOT_SUPPORTED", "ITEM_NOT_FOUND",
             "ITEM_ALREADY_EXISTS", "REAL_LIBRARY_ERROR"}

Targets == [real : RealIds, adapter : Adapters]
Objects == [type : ObjectTypes, real : RealIds, adapter : Adapters,
            module : Oids \cup {NullOid}]
RealObjects == [type : ObjectTypes, parent : RealIds \cup {NoReal}]

\* f is a std::map from keys in S to values in T.
IsMap(f, S, T) == DOMAIN f \subseteq S /\ f \in [DOMAIN f -> T]

Put(f, k, v) == [x \in DOMAIN f \cup {k} |-> IF x = k THEN v ELSE f[x]]
Erase(f, k) == [x \in DOMAIN f \ {k} |-> f[x]]

Answer(status, id) == ret' = [status |-> status, id |-> id]
Fails(status) == Answer(status, NullOid)

-----------------------------------------------------------------------------
(* OIDAllocator and the mapping.                                           *)

\* Fault: the allocator forgets to set the bit it found clear.
FaultFreeAlways == Oids

\* Fault: the scan starts at 0 and gives out the null id.
FaultFreeFromZero == (0 .. MaxOid) \ bitset

FreeOids == Oids \ bitset

\* OIDAllocator::next takes the lowest free bit.
NextOid == CHOOSE i \in FreeOids : \A j \in FreeOids : i <= j

\* PlatformAdapter::get_mapping: where a call on an id is forwarded to.
GetMapping(id) == map[id]

\* PlatformAdapter::get_reverse_mapping: the first id, in the order of the
\* std::map, that stands for the real object.
ReverseMapping(r, a) ==
  LET ids == {o \in DOMAIN map : map[o] = [real |-> r, adapter |-> a]}
  IN  IF ids = {} THEN NullOid ELSE CHOOSE o \in ids : \A p \in ids : o <= p

\* Fault: the bit stays set.
FaultRemoveMappingKeepsBit(id) ==
  map' = Erase(map, id) /\ UNCHANGED bitset

\* Fault: the entry stays in m_map.
FaultRemoveMappingKeepsEntry(id) ==
  bitset' = bitset \ {id} /\ UNCHANGED map

\* PlatformAdapter::remove_mapping.
RemoveMapping(id) ==
  IF id \in DOMAIN map
  THEN map' = Erase(map, id) /\ bitset' = bitset \ {id}
  ELSE UNCHANGED <<map, bitset>>

-----------------------------------------------------------------------------
(* The real libraries, as the multiplexer uses them.                       *)

\* A library answers a create with an id of its choosing.
RealCreate(a, r, type, parent) ==
  /\ r \in DOMAIN real[a] => ~FreshRealIds /\ real[a][r].type = type
  /\ real' = [real EXCEPT ![a] =
                Put(@, r, [type |-> type, parent |-> parent])]

\* A library may agree to remove a module that still has interfaces, as
\* ac400_remove_module does.
RealRemove(a, r) == real' = [real EXCEPT ![a] = Erase(@, r)]

-----------------------------------------------------------------------------
(* The calls.                                                              *)

Init ==
  /\ bitset = {}
  /\ map = <<>>
  /\ objects = <<>>
  /\ real = [a \in Adapters |-> <<>>]
  /\ ret = [status |-> "SUCCESS", id |-> NullOid]

\* The end of every constructor, and of Platform::create: the real object is
\* created, then an id is taken for it.  When no id is left the allocator
\* throws, create answers FAILURE, and the real object stays.
Instantiate(type, a, parent, module) ==
  \E r \in RealIds :
    /\ RealCreate(a, r, type, parent)
    /\ IF FreeOids = {}
       THEN Fails("FAILURE") /\ UNCHANGED <<bitset, map, objects>>
       ELSE /\ bitset' = bitset \cup {NextOid}
            /\ map' = Put(map, NextOid, [real |-> r, adapter |-> a])
            /\ IF NextOid \in DOMAIN objects
               THEN Fails("ITEM_ALREADY_EXISTS") /\ UNCHANGED objects
               ELSE /\ objects' = Put(objects, NextOid,
                         [type |-> type, real |-> r, adapter |-> a,
                          module |-> module])
                    /\ Answer("SUCCESS", NextOid)

\* create(MODULE): the location is missing, no adapter answers for it, the
\* log settings cannot be applied, or the real library refuses.
CreateModuleRefused ==
  /\ \/ Fails("MANDATORY_ATTRIBUTE_MISSING")
     \/ Fails("FAILURE")
     \/ Fails("REAL_LIBRARY_ERROR")
  /\ UNCHANGED <<bitset, map, objects, real>>

CreateModule == \E a \in Adapters : Instantiate("MODULE", a, NoReal, NullOid)

\* create(NETWORKIF | HOSTIF): the module id must name a module.
CreateInterfaceRefused(id) ==
  /\ \/ id \notin DOMAIN objects /\ Fails("UNINITIALIZED")
     \/ /\ id \in DOMAIN objects
        /\ objects[id].type # "MODULE"
        /\ Fails("INVALID_OBJECT_ID")
     \/ /\ id \in DOMAIN objects
        /\ objects[id].type = "MODULE"
        /\ Fails("REAL_LIBRARY_ERROR")
  /\ UNCHANGED <<bitset, map, objects, real>>

\* Fault: the type of the object named as the module is not looked at.
FaultCreateInterfaceUnderAny(id) ==
  /\ id \in DOMAIN objects
  /\ \E type \in InterfaceTypes :
       Instantiate(type, objects[id].adapter, objects[id].real, id)

CreateInterface(id) ==
  /\ id \in DOMAIN objects
  /\ objects[id].type = "MODULE"
  /\ \E type \in InterfaceTypes :
       Instantiate(type, objects[id].adapter, objects[id].real, id)

\* create of any other type.
CreateUnknownType ==
  /\ Fails("NOT_SUPPORTED")
  /\ UNCHANGED <<bitset, map, objects, real>>

\* Fault: remove_mapping runs before the library's answer is looked at.
FaultRemoveUnmapsFirst(id) ==
  /\ id \in DOMAIN objects
  /\ RemoveMapping(id)
  /\ Fails("REAL_LIBRARY_ERROR")
  /\ UNCHANGED <<objects, real>>

\* Fault: the library is not asked at all.
FaultRemoveSkipsLibrary(id) ==
  /\ id \in DOMAIN objects
  /\ objects' = Erase(objects, id)
  /\ RemoveMapping(id)
  /\ Answer("SUCCESS", NullOid)
  /\ UNCHANGED real

\* Fault: the object stays in the table.
FaultRemoveKeepsObject(id) ==
  /\ id \in DOMAIN objects
  /\ RealRemove(objects[id].adapter, objects[id].real)
  /\ RemoveMapping(id)
  /\ Answer("SUCCESS", NullOid)
  /\ UNCHANGED objects

\* remove: only when the real library agrees is the id given back.
RemoveRefused(id) ==
  /\ \/ id \notin DOMAIN objects /\ Fails("ITEM_NOT_FOUND")
     \/ id \in DOMAIN objects /\ Fails("REAL_LIBRARY_ERROR")
  /\ UNCHANGED <<bitset, map, objects, real>>

Remove(id) ==
  /\ id \in DOMAIN objects
  /\ RealRemove(objects[id].adapter, objects[id].real)
  /\ objects' = Erase(objects, id)
  /\ RemoveMapping(id)
  /\ Answer("SUCCESS", NullOid)

Next ==
  \/ CreateModuleRefused
  \/ CreateModule
  \/ CreateUnknownType
  \/ \E id \in Oids \cup {NullOid} :
       \/ CreateInterfaceRefused(id)
       \/ CreateInterface(id)
       \/ RemoveRefused(id)
       \/ Remove(id)

Spec == Init /\ [][Next]_vars

\* get_object_type and get_module_id.
GetObjectType(id) == IF id \in DOMAIN objects THEN objects[id].type ELSE "NULL"
GetModuleId(id) ==
  IF id \notin DOMAIN objects THEN NullOid
  ELSE IF objects[id].type = "MODULE" THEN id ELSE objects[id].module

-----------------------------------------------------------------------------
(* Properties.                                                             *)

\* Type correctness of every table.
TypeOK ==
  /\ bitset \in SUBSET Oids
  /\ IsMap(map, Oids, Targets)
  /\ IsMap(objects, Oids, Objects)
  /\ real = [a \in Adapters |-> real[a]]
  /\ \A a \in Adapters : IsMap(real[a], RealIds, RealObjects)
  /\ ret \in [status : Failures \cup {"SUCCESS"}, id : Oids \cup {NullOid}]

\* No id leaks: after any sequence of successful and failed calls, at the
\* limit of the allocator too, the ids taken, the ids mapped and the ids of
\* the object table are the same set.
OidAccounting == bitset = DOMAIN map /\ DOMAIN map = DOMAIN objects

\* A get or set on an id, which goes through m_map, and a remove, which goes
\* through the object, reach the same real object.
MappingAgrees ==
  \A o \in DOMAIN objects \cap DOMAIN map :
    GetMapping(o) = [real |-> objects[o].real, adapter |-> objects[o].adapter]

\* An id a real library reports (an oid attribute, an object list) is turned
\* into the one id its object was given: no object has two ids, even after
\* ids of both sides have been given back and reused.
ReverseRoundTrip ==
  FreshRealIds =>
    \A o \in DOMAIN map : ReverseMapping(map[o].real, map[o].adapter) = o

\* No id stands for a real object that is gone or is of another type.
NoDanglingTarget ==
  FreshRealIds =>
    \A o \in DOMAIN objects :
      LET lib == real[objects[o].adapter]
      IN  objects[o].real \in DOMAIN lib /\ lib[objects[o].real].type = objects[o].type

\* get_module_id of o answers a live module of o's library, for an interface
\* the one under which the real interface was created.
NamesModule(o) ==
  LET m == GetModuleId(o) IN
  /\ GetObjectType(m) = "MODULE"
  /\ objects[m].adapter = objects[o].adapter
  /\ objects[o].type # "MODULE" =>
       real[objects[o].adapter][objects[o].real].parent = objects[m].real

\* Every object is born naming its module, and goes on naming it through all
\* creates and removes but one, the remove of that very module.  (A library
\* may agree to it, and the multiplexer does not look for interfaces either:
\* from then on the interface names an id that is gone or, once the allocator
\* gives it out again, another object.)
ModuleOfInterfaceKept ==
  [][FreshRealIds =>
       \A o \in DOMAIN objects' :
         \/ NamesModule(o)'
         \/ /\ o \in DOMAIN objects
            /\ \/ ~NamesModule(o)
               \/ objects' = Erase(objects, GetModuleId(o))]_vars

\* Real objects no id stands for.
Orphans ==
  {t \in Targets : t.real \in DOMAIN real[t.adapter]
                   /\ ~\E o \in DOMAIN map : map[o] = t}

\* The only call that leaves a real object behind without an id is a create
\* made when every id is taken.
OrphansOnlyAtLimit == [][bitset = Oids \/ Orphans' \subseteq Orphans]_vars

\* The table the callers see: an id with what it is forwarded to.
RegistryView == [o \in DOMAIN objects |->
                   [type |-> objects[o].type,
                    target |-> IF o \in DOMAIN map THEN map[o] ELSE NoReal]]

Registry == INSTANCE ObjectRegistry
              WITH Handles <- Oids, NoHandle <- NullOid,
                   Bindings <- [type : ObjectTypes, target : Targets],
                   Failures <- Failures, reg <- RegistryView, ret <- ret

\* The multiplexer keeps the promises of ObjectRegistry.
RegistrySpec == Registry!Spec
=============================================================================
