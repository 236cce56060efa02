----------------------------- MODULE SffPlatform -----------------------------
(***************************************************************************)
(* The objects of the SFF library over all its locations (tai_sff sff.cpp, *)
(* sff.hpp and the set_* functions of sff_fsm.cpp): which state machines   *)
(* exist, which objects are registered, and the ids, which are put         *)
(* together from a port number and an index.  What a state machine does    *)
(* once it has its module is SffFsm's; remove is not supported here, so    *)
(* nothing ever leaves.                                                    *)
(***************************************************************************)
EXTENDS Integers, FiniteSets

CONSTANTS
  Port,            \* location -> the number after "port" in its port_name
  Indices,         \* the indices interfaces are created with
  None,
  BitOr(_, _),     \* the operator | on numbers
  MaxInterfaces    \* bound: interfaces that are registered at once

Locations == DOMAIN Port

ASSUME SffPlatformAssumption ==
  /\ \A l \in Locations : Port[l] \in Nat
  /\ Indices \subseteq Nat /\ MaxInterfaces \in Nat
  /\ None \notin [type : {"module"}, location : Locations]
  /\ None \notin [type : {"netif", "hostif"}, location : Locations, index : Indices]

\* An index is put below a port's byte: the low byte of the result is that of
\* the index, and one that is a byte is only added.
ASSUME BitOrAssumption ==
  \A l \in Locations, i \in Indices :
    LET id == BitOr((Port[l] % 256) * 256, i)
    IN  /\ id \in Nat /\ id % 256 = i % 256
        /\ i < 256 => id = (Port[l] % 256) * 256 + i

VARIABLES
  served,     \* the host has a module_presence callback
  fsms,       \* m_fsms: the locations that have a state machine
  moduleOf,   \* m_module of each state machine
  slots,      \* m_netif and m_hostif of each state machine
  objects     \* m_objects: id -> object

vars == <<served, fsms, moduleOf, slots, objects>>

SFF_NUM_NETIF == 4
SFF_NUM_HOSTIF == 1

InterfaceTypes == {"netif", "hostif"}
Slots == [netif |-> 0..(SFF_NUM_NETIF - 1), hostif |-> 0..(SFF_NUM_HOSTIF - 1)]

\* The constructor of Platform: with a presence callback a state machine is
\* started for every location that has an eeprom.
Init ==
  /\ served \in BOOLEAN
  /\ fsms \in IF served THEN SUBSET Locations ELSE {{}}
  /\ moduleOf = [l \in Locations |-> None]
  /\ slots = [l \in Locations |-> [type \in InterfaceTypes |-> [k \in Slots[type] |-> None]]]
  /\ objects = <<>>

-----------------------------------------------------------------------------
(* Objects and their ids.  An id is a type and the 48 bits below it.       *)

Module(l) == [type |-> "module", location |-> l]
Interface(type, l, index) == [type |-> type, location |-> l, index |-> index]

ModuleId(l) == <<"module", Port[l]>>

\* Fault: the port number is shifted by a digit, not by a byte.
FaultInterfaceId(type, l, index) == <<type, BitOr((Port[l] % 256) * 16, index)>>

\* (module->id() & 0xff) << 8 | index: neither number is checked.
InterfaceId(type, l, index) == <<type, BitOr((Port[l] % 256) * 256, index)>>

\* get_module_id of a registered object.
GetModuleId(id) ==
  IF id[1] = "module" THEN id
  ELSE LET module == <<"module", (id[2] \div 256) % 256>>
       IN  IF module \in DOMAIN objects THEN module ELSE None

\* The end of create: the object is registered unless its id is taken.
Register(id, o) ==
  objects' =
    IF id \in DOMAIN objects THEN objects
    ELSE [x \in DOMAIN objects \cup {id} |-> IF x = id THEN o ELSE objects[x]]

-----------------------------------------------------------------------------

\* create(MODULE) goes no further than the state machine: without a callback
\* it is new and stays in m_fsms, although starting it failed, or the port
\* name could not be read.  The location can never be created again.
CreateModuleFails(l) ==
  /\ ~served /\ l \notin fsms
  /\ fsms' = fsms \cup {l}
  /\ UNCHANGED <<served, moduleOf, slots, objects>>

\* create(MODULE): the state machine is the one of the present location, or a
\* new one; it gets the module, and then the module is registered.
CreateModule(l) ==
  /\ served <=> l \in fsms
  /\ moduleOf[l] = None
  /\ fsms' = fsms \cup {l}
  /\ moduleOf' = [moduleOf EXCEPT ![l] = Module(l)]
  /\ Register(ModuleId(l), Module(l))
  /\ UNCHANGED <<served, slots>>

\* Fault: an index beyond the last slot wraps around.
FaultSlotOf(type, id) == (id[2] % 256) % Cardinality(Slots[type])

\* The slot of an interface: the low byte of its id.
SlotOf(type, id) == id[2] % 256

\* create(NETWORKIF) and create(HOSTIF): set_netif and set_hostif refuse a slot
\* that is taken or does not exist, and nobody looks at what they return.
CreateInterface(m, type, index) ==
  LET l == objects[m].location
      id == InterfaceId(type, l, index)
      k == SlotOf(type, id)
      o == Interface(type, l, index)
  IN  /\ objects[m].type = "module"
      /\ Cardinality({x \in DOMAIN objects : x[1] # "module"}) < MaxInterfaces
      /\ slots' = IF k \in Slots[type] /\ slots[l][type][k] = None
                  THEN [slots EXCEPT ![l][type][k] = o] ELSE slots
      /\ Register(id, o)
      /\ UNCHANGED <<served, fsms, moduleOf>>

Next ==
  \/ \E l \in Locations : CreateModule(l) \/ CreateModuleFails(l)
  \/ \E m \in DOMAIN objects, type \in InterfaceTypes, index \in Indices :
       CreateInterface(m, type, index)

Spec == Init /\ [][Next]_vars

-----------------------------------------------------------------------------

\* The numbers that fit in the byte an id has for them.
InRange(o) == Port[o.location] < 256 /\ (o.type = "module" \/ o.index < 256)

\* get_module_id answers the module an interface was created under, however
\* many modules there are and whatever other ids alias it, as long as port and
\* index of the interface itself fit their byte.
ModuleIdAnswered ==
  \A id \in DOMAIN objects :
    InRange(objects[id]) => GetModuleId(id) = ModuleId(objects[id].location)

InSlots ==
  (UNION {{slots[l][type][k] : k \in Slots[type]} :
            l \in Locations, type \in InterfaceTypes}) \ {None}

InObjects == {objects[id] : id \in DOMAIN objects}

Holders == {moduleOf[l] : l \in Locations} \ {None}

\* What the state machines hold is what is registered: a module or an
\* interface the host was refused is in no state machine, and one it was given
\* an id for, with an index that has a slot, is in the slot of that index.
\* With numbers that do not fit, an id is refused after the state machine has
\* the object.
HeldIsRegistered ==
  (\A o \in InSlots \cup InObjects \cup Holders : InRange(o)) =>
    /\ InSlots \cup Holders \subseteq InObjects
    /\ \A o \in InObjects :
         IF o.type = "module" THEN moduleOf[o.location] = o
         ELSE o.index \in Slots[o.type] => slots[o.location][o.type][o.index] = o
=============================================================================
