-------------------------- MODULE SffPlatformProofs --------------------------
(***************************************************************************)
(* Proofs about SffPlatform, for any locations, ports and indices.  Every  *)
(* id is the one its object is registered under (Registered), which is all *)
(* that get_module_id needs.  That the state machines hold what is         *)
(* registered holds where no two locations have one port (PortsDiffer) and *)
(* as long as every number fits its byte (Held): then an id determines its *)
(* object, and nothing is refused after a state machine has taken it.      *)
(***************************************************************************)
EXTENDS SffPlatform, TLAPS

\* The host gives every location a port of its own.
PortsDiffer == \A l, m \in Locations : Port[l] = Port[m] => l = m

IsModule(id, l) == objects[id] = Module(l) /\ id = ModuleId(l)

\* An interface is registered under the module it was created for.
IsInterface(id, type, l, index) ==
  /\ objects[id] = Interface(type, l, index)
  /\ id = InterfaceId(type, l, index)
  /\ ModuleId(l) \in DOMAIN objects

Registered ==
  \A id \in DOMAIN objects :
    \/ \E l \in Locations : IsModule(id, l)
    \/ \E l \in Locations, type \in InterfaceTypes, index \in Indices :
         IsInterface(id, type, l, index)

\* A state machine has its own module, and in its slots its own interfaces, at
\* the low byte of their index.
Members ==
  /\ DOMAIN moduleOf = Locations /\ DOMAIN slots = Locations
  /\ \A l \in Locations :
       /\ moduleOf[l] \in {None, Module(l)}
       /\ DOMAIN slots[l] = InterfaceTypes
       /\ \A type \in InterfaceTypes :
            /\ DOMAIN slots[l][type] = Slots[type]
            /\ \A k \in Slots[type] : slots[l][type][k] # None =>
                 \E index \in Indices :
                   slots[l][type][k] = Interface(type, l, index) /\ k = index % 256

\* Every number that has been used fits its byte.
AllInRange ==
  /\ \A l \in Locations : moduleOf[l] # None => Port[l] < 256
  /\ \A l \in Locations, type \in InterfaceTypes : \A k \in Slots[type] :
       slots[l][type][k] # None => InRange(slots[l][type][k])
  /\ \A id \in DOMAIN objects : InRange(objects[id])

\* What a state machine has is registered, and the other way round.
Held ==
  AllInRange =>
    /\ \A l \in Locations : moduleOf[l] # None =>
         ModuleId(l) \in DOMAIN objects /\ objects[ModuleId(l)] = moduleOf[l]
    /\ \A l \in Locations, type \in InterfaceTypes : \A k \in Slots[type] :
         slots[l][type][k] # None =>
           /\ InterfaceId(type, l, k) \in DOMAIN objects
           /\ objects[InterfaceId(type, l, k)] = slots[l][type][k]
    /\ \A id \in DOMAIN objects, l \in Locations :
         objects[id] = Module(l) => moduleOf[l] = Module(l)
    /\ \A id \in DOMAIN objects, l \in Locations, type \in InterfaceTypes :
         \A index \in Slots[type] :
           objects[id] = Interface(type, l, index) =>
             slots[l][type][index] = Interface(type, l, index)

-----------------------------------------------------------------------------
(* Objects and ids.                                                        *)

\* Objects differ from each other, and from no object.
LEMMA ObjectsDiffer ==
  /\ \A l \in Locations : Module(l) # None /\ Module(l).type = "module" /\ Module(l).location = l
  /\ \A type \in InterfaceTypes, l \in Locations, index \in Indices :
       /\ Interface(type, l, index) # None
       /\ Interface(type, l, index).type = type /\ type # "module"
       /\ Interface(type, l, index).location = l
       /\ Interface(type, l, index).index = index
<1>1. \A l \in Locations : Module(l) \in [type : {"module"}, location : Locations]
  BY DEF Module
<1>2. \A type \in InterfaceTypes, l \in Locations, index \in Indices :
        Interface(type, l, index) \in
          [type : {"netif", "hostif"}, location : Locations, index : Indices]
  BY DEF Interface, InterfaceTypes
<1> QED
  BY <1>1, <1>2, SffPlatformAssumption DEF Module, Interface, InterfaceTypes

\* A port and an index that fit their bytes are the two bytes of the id.
LEMMA IdParts ==
  ASSUME NEW type \in InterfaceTypes, NEW l \in Locations, NEW index \in Indices,
         Port[l] < 256, index < 256
  PROVE  /\ InterfaceId(type, l, index) = <<type, Port[l] * 256 + index>>
         /\ ((Port[l] * 256 + index) \div 256) % 256 = Port[l]
         /\ (Port[l] * 256 + index) % 256 = index
<1>1. Port[l] \in 0 .. 255 /\ index \in 0 .. 255
  BY SffPlatformAssumption
<1>2. Port[l] % 256 = Port[l] /\ index % 256 = index
  BY <1>1
<1>3. BitOr((Port[l] % 256) * 256, index) = (Port[l] % 256) * 256 + index
  BY BitOrAssumption
<1>4. InterfaceId(type, l, index) = <<type, Port[l] * 256 + index>>
  BY <1>2, <1>3 DEF InterfaceId
<1>5. PICK p \in 0 .. 255, i \in 0 .. 255 : p = Port[l] /\ i = index
  BY <1>1
<1>6. PICK n \in Nat : n = p * 256 + i
  OBVIOUS
<1>7. n \div 256 = p /\ n % 256 = i /\ p % 256 = p
  <2>1. n \div 256 = p
    BY <1>6
  <2>2. n % 256 = i
    BY <1>6
  <2> QED
    BY <2>1, <2>2
<1>8. n = Port[l] * 256 + index
  BY <1>5, <1>6
<1> QED
  BY <1>4, <1>5, <1>7, <1>8

\* The slot of an interface is the low byte of its index.
LEMMA SlotOfIndex ==
  ASSUME NEW type \in InterfaceTypes, NEW l \in Locations, NEW index \in Indices
  PROVE  SlotOf(type, InterfaceId(type, l, index)) = index % 256
  BY BitOrAssumption DEF SlotOf, InterfaceId

\* Ids of interfaces that fit tell type, port and index.
LEMMA IdsTell ==
  ASSUME NEW t \in InterfaceTypes, NEW u \in InterfaceTypes,
         NEW l \in Locations, NEW m \in Locations, NEW i \in Indices, NEW j \in Indices,
         Port[l] < 256, Port[m] < 256, i < 256, j < 256,
         InterfaceId(t, l, i) = InterfaceId(u, m, j)
  PROVE  t = u /\ Port[l] = Port[m] /\ i = j
<1>1. t = u /\ Port[l] * 256 + i = Port[m] * 256 + j
  BY IdParts
<1> QED
  BY <1>1, IdParts

\* The end of create.
LEMMA RegisterFacts ==
  ASSUME NEW id, NEW o, Register(id, o)
  PROVE  /\ DOMAIN objects' = DOMAIN objects \cup {id}
         /\ \A x \in DOMAIN objects : objects'[x] = objects[x]
         /\ id \notin DOMAIN objects => objects'[id] = o
  BY DEF Register

-----------------------------------------------------------------------------
(* Registered: get_module_id.                                              *)

\* Nothing is registered at first.
LEMMA InitRegistered == Init => Registered
  BY DEF Init, Registered

\* A registered object stays under its id.
LEMMA StillRegistered ==
  ASSUME Registered, NEW id, NEW o, Register(id, o), NEW x \in DOMAIN objects
  PROVE  \/ \E l \in Locations : IsModule(x, l)'
         \/ \E l \in Locations, type \in InterfaceTypes, index \in Indices :
              IsInterface(x, type, l, index)'
<1>1. objects'[x] = objects[x] /\ DOMAIN objects \subseteq DOMAIN objects'
  BY RegisterFacts
<1>2. CASE \E l \in Locations : IsModule(x, l)
  BY <1>1, <1>2 DEF IsModule
<1>3. CASE \E l \in Locations, type \in InterfaceTypes, index \in Indices :
             IsInterface(x, type, l, index)
  BY <1>1, <1>3 DEF IsInterface
<1> QED
  BY <1>2, <1>3 DEF Registered

\* The module of an interface is under the id that is made of its port.
LEMMA ModuleOfId ==
  ASSUME Registered, NEW m \in DOMAIN objects, objects[m].type = "module"
  PROVE  objects[m].location \in Locations /\ m = ModuleId(objects[m].location)
<1>1. CASE \E l \in Locations : IsModule(m, l)
  BY <1>1, ObjectsDiffer DEF IsModule
<1>2. CASE \E l \in Locations, type \in InterfaceTypes, index \in Indices :
             IsInterface(m, type, l, index)
  BY <1>2, ObjectsDiffer DEF IsInterface
<1> QED
  BY <1>1, <1>2 DEF Registered

\* Every create registers its object under the id of the object.
LEMMA NextRegistered ==
  ASSUME Registered, [Next]_vars
  PROVE  Registered'
<1>1. ASSUME NEW l \in Locations, CreateModule(l)
      PROVE  Registered'
  <2>1. Register(ModuleId(l), Module(l))
    BY <1>1 DEF CreateModule
  <2>2. ModuleId(l) \notin DOMAIN objects => IsModule(ModuleId(l), l)'
    BY <2>1, RegisterFacts DEF IsModule
  <2>3. ASSUME NEW x \in DOMAIN objects'
        PROVE  \/ \E k \in Locations : IsModule(x, k)'
               \/ \E k \in Locations, t \in InterfaceTypes, i \in Indices :
                    IsInterface(x, t, k, i)'
    <3>1. CASE x \in DOMAIN objects
      BY <2>1, <3>1, StillRegistered
    <3>2. CASE x \notin DOMAIN objects
      <4>1. x = ModuleId(l)
        BY <2>1, <3>2 DEF Register
      <4> QED
        BY <2>2, <3>2, <4>1 DEF IsModule
    <3> QED
      BY <3>1, <3>2
  <2> QED
    BY <2>3 DEF Registered
<1>2. ASSUME NEW m \in DOMAIN objects, NEW type \in InterfaceTypes, NEW index \in Indices,
             CreateInterface(m, type, index)
      PROVE  Registered'
  <2>1. PICK l : l = objects[m].location
    OBVIOUS
  <2>2. objects[m].type = "module" /\ Register(InterfaceId(type, l, index), Interface(type, l, index))
    BY <1>2, <2>1 DEF CreateInterface
  <2>3. l \in Locations /\ ModuleId(l) \in DOMAIN objects
    BY <2>1, <2>2, ModuleOfId
  <2>4. InterfaceId(type, l, index) \notin DOMAIN objects =>
          IsInterface(InterfaceId(type, l, index), type, l, index)'
    BY <2>2, <2>3, RegisterFacts DEF IsInterface
  <2>5. ASSUME NEW x \in DOMAIN objects'
        PROVE  \/ \E k \in Locations : IsModule(x, k)'
               \/ \E k \in Locations, t \in InterfaceTypes, i \in Indices :
                    IsInterface(x, t, k, i)'
    <3>1. CASE x \in DOMAIN objects
      BY <2>2, <3>1, StillRegistered
    <3>2. CASE x \notin DOMAIN objects
      <4>1. x = InterfaceId(type, l, index)
        BY <2>2, <3>2, RegisterFacts
      <4> QED
        BY <2>3, <2>4, <3>2, <4>1 DEF IsInterface
    <3> QED
      BY <3>1, <3>2
  <2> QED
    BY <2>5 DEF Registered
<1>3. CASE UNCHANGED objects
  BY <1>3 DEF Registered, IsModule, IsInterface
<1> QED
  BY <1>1, <1>2, <1>3 DEF Next, CreateModuleFails, vars

\* Every id is registered for the object it is made for, interfaces under a
\* module that is registered, too.
THEOREM Registration == Spec => []Registered
  BY InitRegistered, NextRegistered, PTL DEF Spec

\* get_module_id answers the module an interface was created under, for any
\* number of modules and whatever other ids alias it, as long as port and index
\* of the interface itself fit their byte.
THEOREM ModuleAnswered == Spec => []ModuleIdAnswered
<1>1. Registered => ModuleIdAnswered
  <2> SUFFICES ASSUME Registered, NEW id \in DOMAIN objects, InRange(objects[id])
               PROVE  GetModuleId(id) = ModuleId(objects[id].location)
    BY DEF ModuleIdAnswered
  <2>1. ASSUME NEW l \in Locations, IsModule(id, l)
        PROVE  GetModuleId(id) = ModuleId(objects[id].location)
    BY <2>1, ObjectsDiffer DEF IsModule, GetModuleId, ModuleId
  <2>2. ASSUME NEW l \in Locations, NEW type \in InterfaceTypes, NEW index \in Indices,
               IsInterface(id, type, l, index)
        PROVE  GetModuleId(id) = ModuleId(objects[id].location)
    <3>1. Port[l] < 256 /\ index < 256 /\ type # "module" /\ objects[id].location = l
      BY <2>2, ObjectsDiffer DEF IsInterface, InRange
    <3>2. PICK n : n = Port[l] * 256 + index
      OBVIOUS
    <3>3. id = <<type, n>> /\ (n \div 256) % 256 = Port[l]
      BY <2>2, <3>1, <3>2, IdParts DEF IsInterface
    <3>4. <<"module", Port[l]>> \in DOMAIN objects
      BY <2>2 DEF IsInterface, ModuleId
    <3> QED
      BY <3>1, <3>3, <3>4 DEF GetModuleId, ModuleId
  <2> QED
    BY <2>1, <2>2 DEF Registered
<1> QED
  BY <1>1, Registration, PTL

-----------------------------------------------------------------------------
(* Held: the state machines and the table of objects.                      *)

\* The state machines are empty at first.
LEMMA InitHeld == Init => Members /\ Held
<1> SUFFICES ASSUME Init PROVE Members /\ Held
  OBVIOUS
<1>1. /\ DOMAIN moduleOf = Locations /\ DOMAIN slots = Locations
      /\ \A l \in Locations : /\ moduleOf[l] = None
                              /\ DOMAIN slots[l] = InterfaceTypes
                              /\ \A type \in InterfaceTypes :
                                   /\ DOMAIN slots[l][type] = Slots[type]
                                   /\ \A k \in Slots[type] : slots[l][type][k] = None
      /\ DOMAIN objects = {}
  BY DEF Init
<1> QED
  BY <1>1 DEF Members, Held

\* A module is created: its state machine had none, so its id was free, and it
\* is registered.
LEMMA CreateModuleHeld ==
  ASSUME PortsDiffer, Registered, Members, Held, NEW l \in Locations, CreateModule(l)
  PROVE  Members' /\ Held'
<1> DEFINE id == ModuleId(l)
<1>1. /\ moduleOf[l] = None /\ moduleOf' = [moduleOf EXCEPT ![l] = Module(l)]
      /\ slots' = slots /\ Register(id, Module(l))
  BY DEF CreateModule
<1>2. /\ DOMAIN moduleOf' = Locations /\ moduleOf'[l] = Module(l)
      /\ \A m \in Locations : m # l => moduleOf'[m] = moduleOf[m]
  BY <1>1 DEF Members
<1>3. Members'
  BY <1>1, <1>2 DEF Members
<1>4. /\ DOMAIN objects' = DOMAIN objects \cup {id}
      /\ \A x \in DOMAIN objects : objects'[x] = objects[x]
      /\ id \notin DOMAIN objects => objects'[id] = Module(l)
  BY <1>1 DEF Register
<1>5. AllInRange' => AllInRange
  <2> SUFFICES ASSUME AllInRange' PROVE AllInRange
    OBVIOUS
  <2>1. \A m \in Locations : moduleOf[m] # None => Port[m] < 256
    BY <1>1, <1>2 DEF AllInRange
  <2>2. \A x \in DOMAIN objects : InRange(objects[x])
    BY <1>4 DEF AllInRange, InRange
  <2> QED
    BY <1>1, <2>1, <2>2 DEF AllInRange, InRange
<1>6. SUFFICES ASSUME AllInRange' PROVE Held'
  BY <1>3 DEF Held
<1>7. id \notin DOMAIN objects
  <2> SUFFICES ASSUME id \in DOMAIN objects PROVE FALSE
    OBVIOUS
  <2>1. ASSUME NEW m \in Locations, IsModule(id, m)
        PROVE  FALSE
    <3>1. m = l
      BY <2>1 DEF IsModule, ModuleId, PortsDiffer
    <3>2. moduleOf[l] = Module(l)
      BY <1>5, <1>6, <2>1, <3>1 DEF Held, IsModule
    <3> QED
      BY <1>1, <3>2, ObjectsDiffer
  <2>2. ASSUME NEW m \in Locations, NEW type \in InterfaceTypes, NEW index \in Indices,
               IsInterface(id, type, m, index)
        PROVE  FALSE
    BY <2>2, ObjectsDiffer DEF IsInterface, ModuleId, InterfaceId
  <2> QED
    BY <2>1, <2>2 DEF Registered
<1>8. \A m \in Locations : moduleOf'[m] # None =>
        ModuleId(m) \in DOMAIN objects' /\ objects'[ModuleId(m)] = moduleOf'[m]
  BY <1>2, <1>4, <1>5, <1>6, <1>7 DEF Held
<1>9. \A m \in Locations, type \in InterfaceTypes : \A k \in Slots[type] :
        slots'[m][type][k] # None =>
          /\ InterfaceId(type, m, k) \in DOMAIN objects'
          /\ objects'[InterfaceId(type, m, k)] = slots'[m][type][k]
  BY <1>1, <1>4, <1>5, <1>6 DEF Held
<1>10. \A x \in DOMAIN objects', m \in Locations :
         objects'[x] = Module(m) => moduleOf'[m] = Module(m)
  <2> SUFFICES ASSUME NEW x \in DOMAIN objects', NEW m \in Locations, objects'[x] = Module(m)
               PROVE  moduleOf'[m] = Module(m)
    OBVIOUS
  <2>1. CASE x = id
    <3>1. Module(m) = Module(l)
      BY <1>4, <1>7, <2>1
    <3>2. m = l
      BY <3>1 DEF Module
    <3> QED
      BY <1>2, <3>2
  <2>2. CASE x \in DOMAIN objects
    BY <1>2, <1>4, <1>5, <1>6, <2>2 DEF Held
  <2> QED
    BY <1>4, <2>1, <2>2
<1>11. \A x \in DOMAIN objects', m \in Locations, type \in InterfaceTypes :
         \A index \in Slots[type] : objects'[x] = Interface(type, m, index) =>
           slots'[m][type][index] = Interface(type, m, index)
  <2> SUFFICES ASSUME NEW x \in DOMAIN objects', NEW m \in Locations, NEW type \in InterfaceTypes,
                      NEW index \in Slots[type], objects'[x] = Interface(type, m, index)
               PROVE  slots'[m][type][index] = Interface(type, m, index)
    OBVIOUS
  <2>1. x # id
    BY <1>4, <1>7 DEF Module, Interface, InterfaceTypes
  <2> QED
    BY <1>1, <1>4, <1>5, <1>6, <2>1 DEF Held
<1> QED
  BY <1>8, <1>9, <1>10, <1>11 DEF Held

\* An interface is created.  If its slot is taken, the interface there has its
\* id; if it is free, nobody has the id; and without a slot only the table
\* changes.
LEMMA CreateInterfaceHeld ==
  ASSUME PortsDiffer, Registered, Members, Held,
         NEW m \in DOMAIN objects, NEW type \in InterfaceTypes, NEW index \in Indices,
         CreateInterface(m, type, index)
  PROVE  Members' /\ Held'
<1>1. PICK l, id, k, o :
        /\ l \in Locations /\ l = objects[m].location /\ id = InterfaceId(type, l, index)
        /\ k = SlotOf(type, id) /\ o = Interface(type, l, index)
  BY ModuleOfId DEF CreateInterface
<1>2. /\ slots' = IF k \in Slots[type] /\ slots[l][type][k] = None
                  THEN [slots EXCEPT ![l][type][k] = o] ELSE slots
      /\ Register(id, o) /\ moduleOf' = moduleOf
  BY <1>1 DEF CreateInterface
<1>3. k = index % 256 /\ o # None
  BY <1>1, SlotOfIndex, ObjectsDiffer
<1>4. /\ DOMAIN objects' = DOMAIN objects \cup {id}
      /\ \A x \in DOMAIN objects : objects'[x] = objects[x]
      /\ id \notin DOMAIN objects => objects'[id] = o
  BY <1>2 DEF Register
<1>5. /\ DOMAIN slots' = Locations
      /\ \A n \in Locations : /\ DOMAIN slots'[n] = InterfaceTypes
                              /\ \A t \in InterfaceTypes : DOMAIN slots'[n][t] = Slots[t]
      /\ \A n \in Locations, t \in InterfaceTypes : \A j \in Slots[t] :
           slots[n][t][j] # None \/ n # l \/ t # type \/ j # k =>
             slots'[n][t][j] = slots[n][t][j]
      /\ k \in Slots[type] /\ slots[l][type][k] = None => slots'[l][type][k] = o
  <2>1. CASE k \in Slots[type] /\ slots[l][type][k] = None
    <3>1. slots' = [slots EXCEPT ![l][type][k] = o]
      BY <1>2, <2>1
    <3>2. /\ DOMAIN slots' = Locations
          /\ \A n \in Locations : /\ DOMAIN slots'[n] = InterfaceTypes
                                  /\ \A t \in InterfaceTypes : DOMAIN slots'[n][t] = Slots[t]
          /\ slots'[l][type][k] = o
          /\ \A n \in Locations, t \in InterfaceTypes : \A j \in Slots[t] :
               n # l \/ t # type \/ j # k => slots'[n][t][j] = slots[n][t][j]
      BY <1>1, <2>1, <3>1 DEF Members
    <3> QED
      BY <2>1, <3>2
  <2>2. CASE ~(k \in Slots[type] /\ slots[l][type][k] = None)
    BY <1>2, <2>2 DEF Members
  <2> QED
    BY <2>1, <2>2
<1>6. \A n \in Locations, t \in InterfaceTypes : \A j \in Slots[t] :
        \/ slots'[n][t][j] = slots[n][t][j]
        \/ n = l /\ t = type /\ j = k /\ slots[l][type][k] = None /\ slots'[l][type][k] = o
  BY <1>5
<1>7. Members'
  <2>1. ASSUME NEW n \in Locations, NEW t \in InterfaceTypes, NEW j \in Slots[t],
               slots'[n][t][j] # None
        PROVE  \E i \in Indices : slots'[n][t][j] = Interface(t, n, i) /\ j = i % 256
    <3>1. CASE slots'[n][t][j] = slots[n][t][j]
      BY <2>1, <3>1 DEF Members
    <3>2. CASE n = l /\ t = type /\ j = k /\ slots'[l][type][k] = o
      BY <1>1, <1>3, <3>2
    <3> QED
      BY <1>6, <3>1, <3>2
  <2> QED
    BY <1>2, <1>5, <2>1 DEF Members
<1>8. AllInRange' => AllInRange
  <2> SUFFICES ASSUME AllInRange' PROVE AllInRange
    OBVIOUS
  <2>1. \A x \in DOMAIN objects : InRange(objects[x])
    BY <1>4 DEF AllInRange, InRange
  <2>2. ASSUME NEW n \in Locations, NEW t \in InterfaceTypes, NEW j \in Slots[t],
               slots[n][t][j] # None
        PROVE  InRange(slots[n][t][j])
    BY <1>5, <2>2 DEF AllInRange, InRange
  <2> QED
    BY <1>2, <2>1, <2>2 DEF AllInRange, InRange
<1>9. SUFFICES ASSUME AllInRange' PROVE Held'
  BY <1>7 DEF Held
<1>10. CASE id \in DOMAIN objects /\ slots' = slots
  <2>1. objects' = objects
    BY <1>2, <1>10 DEF Register
  <2> QED
    BY <1>2, <1>8, <1>9, <1>10, <2>1 DEF Held
<1>11. CASE ~(id \in DOMAIN objects /\ slots' = slots)
  <2>1. Port[l] < 256 /\ index < 256
    <3>1. InRange(o)
      <4>1. CASE id \notin DOMAIN objects
        BY <1>4, <1>9, <4>1 DEF AllInRange, InRange
      <4>2. CASE slots' # slots
        <5>1. k \in Slots[type] /\ slots'[l][type][k] = o
          BY <1>1, <1>2, <1>5, <4>2
        <5> QED
          BY <1>1, <1>3, <1>9, <5>1 DEF AllInRange, InRange
      <4> QED
        BY <1>11, <4>1, <4>2
    <3> QED
      BY <1>1, <3>1, ObjectsDiffer DEF InRange
  <2>2. k = index
    BY <1>3, <2>1, SffPlatformAssumption
  <2>3. ASSUME id \in DOMAIN objects
        PROVE  objects[id] = o
    <3>1. ASSUME NEW n \in Locations, IsModule(id, n)
          PROVE  FALSE
      BY <1>1, <3>1, ObjectsDiffer DEF IsModule, ModuleId, InterfaceId
    <3>2. ASSUME NEW n \in Locations, NEW t \in InterfaceTypes, NEW i \in Indices,
                 IsInterface(id, t, n, i)
          PROVE  objects[id] = o
      <4>1. Port[n] < 256 /\ i < 256
        BY <1>8, <1>9, <2>3, <3>2, ObjectsDiffer DEF AllInRange, IsInterface, InRange
      <4>2. t = type /\ Port[n] = Port[l] /\ i = index
        <5>1. InterfaceId(t, n, i) = InterfaceId(type, l, index)
          BY <1>1, <3>2 DEF IsInterface
        <5> QED
          BY <1>1, <2>1, <4>1, <5>1, IdsTell
      <4> QED
        BY <1>1, <3>2, <4>2 DEF IsInterface, PortsDiffer
    <3> QED
      BY <2>3, <3>1, <3>2 DEF Registered
  <2>4. objects'[id] = o
    BY <1>4, <2>3
  <2>5. k \in Slots[type] => slots'[l][type][k] = o
    <3>1. CASE k \in Slots[type] /\ slots[l][type][k] # None
      BY <1>1, <1>4, <1>5, <1>8, <1>9, <2>2, <2>4, <3>1 DEF Held
    <3> QED
      BY <1>5, <3>1
  <2>6. \A n \in Locations : moduleOf'[n] # None =>
          ModuleId(n) \in DOMAIN objects' /\ objects'[ModuleId(n)] = moduleOf'[n]
    BY <1>2, <1>4, <1>8, <1>9 DEF Held
  <2>7. ASSUME NEW n \in Locations, NEW t \in InterfaceTypes, NEW j \in Slots[t],
               slots'[n][t][j] # None
        PROVE  /\ InterfaceId(t, n, j) \in DOMAIN objects'
               /\ objects'[InterfaceId(t, n, j)] = slots'[n][t][j]
    <3>1. CASE slots'[n][t][j] = slots[n][t][j]
      BY <1>4, <1>8, <1>9, <2>7, <3>1 DEF Held
    <3>2. CASE n = l /\ t = type /\ j = k /\ slots'[l][type][k] = o
      BY <1>1, <1>4, <2>2, <2>4, <3>2
    <3> QED
      BY <1>6, <3>1, <3>2
  <2>8. ASSUME NEW x \in DOMAIN objects', NEW n \in Locations, objects'[x] = Module(n)
        PROVE  moduleOf'[n] = Module(n)
    <3>1. x # id
      BY <1>1, <2>4, <2>8, ObjectsDiffer
    <3> QED
      BY <1>2, <1>4, <1>8, <1>9, <2>8, <3>1 DEF Held
  <2>9. ASSUME NEW x \in DOMAIN objects', NEW n \in Locations, NEW t \in InterfaceTypes,
               NEW i \in Slots[t], objects'[x] = Interface(t, n, i)
        PROVE  slots'[n][t][i] = Interface(t, n, i)
    <3>1. CASE x = id
      <4>1. t = type /\ n = l /\ i = index
        BY <1>1, <2>4, <2>9, <3>1 DEF Interface
      <4> QED
        BY <1>1, <2>2, <2>5, <4>1
    <3>2. CASE x \in DOMAIN objects
      <4>1. slots[n][t][i] = Interface(t, n, i)
        BY <1>4, <1>8, <1>9, <2>9, <3>2 DEF Held
      <4>2. slots[n][t][i] = slots'[n][t][i] \/ (t = type /\ n = l /\ i = k)
        BY <1>6
      <4>3. CASE t = type /\ n = l /\ i = k
        BY <1>1, <2>2, <2>5, <4>3
      <4> QED
        BY <4>1, <4>2, <4>3
    <3> QED
      BY <1>4, <3>1, <3>2
  <2> QED
    BY <2>6, <2>7, <2>8, <2>9 DEF Held
<1> QED
  BY <1>10, <1>11

\* Every create keeps the state machines and the table together.
LEMMA NextHeld ==
  ASSUME PortsDiffer, Registered, Members, Held, [Next]_vars
  PROVE  Members' /\ Held'
<1>1. CASE UNCHANGED <<moduleOf, slots, objects>>
  BY <1>1 DEF Members, Held, AllInRange, InRange
<1> QED
  BY <1>1, CreateModuleHeld, CreateInterfaceHeld DEF Next, CreateModuleFails, vars

\* Where no two locations have one port, a module or an interface the host was
\* refused is in no state machine, and one it was given an id for, with an
\* index that has a slot, is in the slot of that index, as long as every
\* number fits its byte.
THEOREM HeldRegistered == PortsDiffer => (Spec => []HeldIsRegistered)
<1>1. ASSUME Registered, Members, Held
      PROVE  HeldIsRegistered
  <2> SUFFICES ASSUME \A o \in InSlots \cup InObjects \cup Holders : InRange(o)
               PROVE  /\ InSlots \cup Holders \subseteq InObjects
                      /\ \A o \in InObjects :
                           IF o.type = "module" THEN moduleOf[o.location] = o
                           ELSE o.index \in Slots[o.type] =>
                                  slots[o.location][o.type][o.index] = o
    BY DEF HeldIsRegistered
  <2>1. ASSUME NEW l \in Locations, NEW type \in InterfaceTypes, NEW k \in Slots[type],
               slots[l][type][k] # None
        PROVE  slots[l][type][k] \in InSlots
    <3> DEFINE Here == {slots[l][type][j] : j \in Slots[type]}
               All == {{slots[m][t][j] : j \in Slots[t]} : m \in Locations, t \in InterfaceTypes}
    <3>1. slots[l][type][k] \in Here /\ Here \in All
      OBVIOUS
    <3>2. InSlots = (UNION All) \ {None}
      BY DEF InSlots
    <3> HIDE DEF Here, All
    <3> QED
      BY <2>1, <3>1, <3>2
  <2>2. AllInRange
    <3>1. ASSUME NEW l \in Locations, moduleOf[l] # None
          PROVE  Port[l] < 256
      <4>1. moduleOf[l] = Module(l) /\ moduleOf[l] \in Holders
        BY <1>1, <3>1 DEF Members, Holders
      <4>2. InRange(Module(l))
        BY <4>1
      <4> QED
        BY <4>2, ObjectsDiffer DEF InRange
    <3> QED
      BY <2>1, <3>1 DEF AllInRange, InObjects
  <2>3. Holders \subseteq InObjects
    BY <1>1, <2>2 DEF Held, Holders, InObjects
  <2>4. InSlots \subseteq InObjects
    <3> SUFFICES ASSUME NEW o \in InSlots PROVE o \in InObjects
      OBVIOUS
    <3>1. PICK l \in Locations, t \in InterfaceTypes : o \in {slots[l][t][k] : k \in Slots[t]}
      BY DEF InSlots
    <3>2. PICK k \in Slots[t] : o = slots[l][t][k]
      BY <3>1
    <3>3. o # None
      BY DEF InSlots
    <3> QED
      BY <1>1, <2>2, <3>2, <3>3 DEF Held, InObjects
  <2>5. ASSUME NEW id \in DOMAIN objects
        PROVE  IF objects[id].type = "module"
               THEN moduleOf[objects[id].location] = objects[id]
               ELSE objects[id].index \in Slots[objects[id].type] =>
                      slots[objects[id].location][objects[id].type][objects[id].index] = objects[id]
    <3>1. ASSUME NEW l \in Locations, IsModule(id, l)
          PROVE  objects[id].type = "module" /\ moduleOf[objects[id].location] = objects[id]
      BY <1>1, <2>2, <3>1, ObjectsDiffer DEF Held, IsModule
    <3>2. ASSUME NEW l \in Locations, NEW type \in InterfaceTypes, NEW index \in Indices,
                 IsInterface(id, type, l, index)
          PROVE  /\ objects[id].type # "module"
                 /\ objects[id].index \in Slots[objects[id].type] =>
                      slots[objects[id].location][objects[id].type][objects[id].index] = objects[id]
      <4>1. /\ objects[id] = Interface(type, l, index) /\ type # "module"
            /\ objects[id].type = type /\ objects[id].location = l /\ objects[id].index = index
        BY <3>2, ObjectsDiffer DEF IsInterface
      <4> QED
        BY <1>1, <2>2, <4>1 DEF Held
    <3> QED
      BY <1>1, <3>1, <3>2 DEF Registered
  <2> QED
    BY <2>3, <2>4, <2>5 DEF InObjects
<1>2. SUFFICES ASSUME PortsDiffer PROVE Spec => []HeldIsRegistered
  OBVIOUS
<1>3. Registered /\ Members /\ Held /\ [Next]_vars => (Members /\ Held)'
  BY <1>2, NextHeld
<1> QED
  BY <1>1, <1>3, InitHeld, Registration, PTL DEF Spec
=============================================================================
