-------------------------- MODULE MuxPlatformProofs --------------------------
(***************************************************************************)
(* Proofs about MuxPlatform and MuxAttributes, for any number of           *)
(* libraries, real ids and multiplexer ids, and any attribute values.  The *)
(* inductive invariant joins the checked invariants with UniqueIds: that   *)
(* no two ids stand for one real object is what makes removing one of them *)
(* leave the others' real objects alone.  In MuxAttributes every step is   *)
(* one of MuxPlatform or leaves its tables alone, so all that is proved of *)
(* the tables holds there (SameTables); what a get answers then follows    *)
(* from the tables (Translated, Answered), and that it answers what was    *)
(* set from Written: an attribute that was set and not disturbed since     *)
(* holds, in its library, the real ids its ids stand for.                  *)
(***************************************************************************)
EXTENDS MuxAttributes, WellFoundedInduction, TLAPS

UniqueIds ==
  FreshRealIds => \A o, p \in DOMAIN map : map[o] = map[p] => o = p

IInv ==
  /\ TypeOK
  /\ OidAccounting
  /\ MappingAgrees
  /\ UniqueIds
  /\ NoDanglingTarget

\* A non-empty set of naturals has a least element.
LEMMA LeastNatural ==
  ASSUME NEW S, S \subseteq Nat, S # {}
  PROVE  \E i \in S : \A j \in S : i <= j
<1>1. \E x \in S : \A y \in S : ~(<<y, x>> \in OpToRel(<, Nat))
  BY WFMin, NatLessThanWellFounded
<1>2. PICK x \in S : \A y \in S : ~(<<y, x>> \in OpToRel(<, Nat))
  BY <1>1
<1>3. \A y \in S : ~(y < x)
  BY <1>2 DEF OpToRel
<1>4. \A y \in S : x <= y
  BY <1>3
<1> QED
  BY <1>4

\* OIDAllocator::next answers an id that is free and not the null id.
LEMMA NextOidFree ==
  ASSUME FreeOids # {}
  PROVE  NextOid \in Oids /\ NextOid \notin bitset /\ NextOid # NullOid
<1>1. FreeOids \subseteq Nat
  BY MaxOidAssumption DEF FreeOids, Oids
<1>2. \E i \in FreeOids : \A j \in FreeOids : i <= j
  BY <1>1, LeastNatural
<1>3. NextOid \in FreeOids
  BY <1>2 DEF NextOid
<1> QED
  BY <1>3, MaxOidAssumption DEF FreeOids, Oids, NullOid

\* A std::map after an insertion and after an erasure is a std::map.
LEMMA PutMap ==
  ASSUME NEW S, NEW T, NEW f, IsMap(f, S, T), NEW k \in S, NEW v \in T
  PROVE  /\ IsMap(Put(f, k, v), S, T)
         /\ DOMAIN Put(f, k, v) = DOMAIN f \cup {k}
         /\ Put(f, k, v)[k] = v
         /\ \A x \in DOMAIN f : x # k => Put(f, k, v)[x] = f[x]
  BY DEF IsMap, Put

\* Erasing an entry of a map.
LEMMA EraseMap ==
  ASSUME NEW S, NEW T, NEW f, IsMap(f, S, T), NEW k
  PROVE  /\ IsMap(Erase(f, k), S, T)
         /\ DOMAIN Erase(f, k) = DOMAIN f \ {k}
         /\ \A x \in DOMAIN f : x # k => Erase(f, k)[x] = f[x]
  BY DEF IsMap, Erase

-----------------------------------------------------------------------------

\* The tables are empty at first.
LEMMA InitIInv == Init => IInv
<1> SUFFICES ASSUME Init PROVE IInv
  OBVIOUS
<1>1. DOMAIN map = {} /\ DOMAIN objects = {} /\ bitset = {}
  BY DEF Init
<1>2. IsMap(map, Oids, Targets) /\ IsMap(objects, Oids, Objects)
  BY DEF Init, IsMap
<1>3. \A a \in Adapters : IsMap(real[a], RealIds, RealObjects)
  BY DEF Init, IsMap
<1>4. real = [a \in Adapters |-> real[a]]
  BY DEF Init
<1>5. TypeOK
  BY <1>1, <1>2, <1>3, <1>4 DEF TypeOK, Init, NullOid
<1> QED
  BY <1>1, <1>5 DEF IInv, OidAccounting, MappingAgrees, UniqueIds,
     NoDanglingTarget

\* The tables of the real libraries after a create: one more object, or with
\* libraries that answer live ids the same object again.
LEMMA RealCreateEffect ==
  ASSUME TypeOK, NEW a \in Adapters, NEW r \in RealIds, NEW type \in ObjectTypes,
         NEW parent \in RealIds \cup {NoReal}, RealCreate(a, r, type, parent)
  PROVE  /\ real' = [x \in Adapters |-> real'[x]]
         /\ \A x \in Adapters : IsMap(real'[x], RealIds, RealObjects)
         /\ \A x \in Adapters : DOMAIN real[x] \subseteq DOMAIN real'[x]
         /\ \A x \in Adapters : \A y \in DOMAIN real'[x] :
              y \in DOMAIN real[x] \/ <<x, y>> = <<a, r>>
         /\ r \in DOMAIN real'[a]
         /\ real'[a][r] = [type |-> type, parent |-> parent]
         /\ FreshRealIds => r \notin DOMAIN real[a]
         /\ \A x \in Adapters : \A y \in DOMAIN real[x] :
              <<x, y>> # <<a, r>> => real'[x][y] = real[x][y]
<1> DEFINE obj == [type |-> type, parent |-> parent]
<1>1. obj \in RealObjects
  BY DEF RealObjects
<1>2. IsMap(real[a], RealIds, RealObjects)
  BY DEF TypeOK
<1>3. real' = [real EXCEPT ![a] = Put(real[a], r, obj)]
  BY DEF RealCreate
<1>4. real = [x \in Adapters |-> real[x]]
  BY DEF TypeOK
<1>5. real'[a] = Put(real[a], r, obj) /\ \A x \in Adapters : x # a => real'[x] = real[x]
  BY <1>3, <1>4
<1>6. real' = [x \in Adapters |-> real'[x]]
  BY <1>3, <1>4
<1>7. /\ IsMap(real'[a], RealIds, RealObjects)
      /\ DOMAIN real'[a] = DOMAIN real[a] \cup {r}
      /\ real'[a][r] = obj
      /\ \A x \in DOMAIN real[a] : x # r => real'[a][x] = real[a][x]
  <2> HIDE DEF obj
  <2> QED BY <1>1, <1>2, <1>5, PutMap
<1>8. \A x \in Adapters : IsMap(real[x], RealIds, RealObjects)
  BY DEF TypeOK
<1>9. FreshRealIds => r \notin DOMAIN real[a]
  BY LibraryAssumption DEF RealCreate
<1> QED
  BY <1>5, <1>6, <1>7, <1>8, <1>9

\* The mapping and the object table after one more id.
LEMMA TablesGrow ==
  ASSUME TypeOK, NEW n \in Oids, NEW t \in Targets, NEW obj \in Objects,
         n \notin DOMAIN map, n \notin DOMAIN objects,
         map' = Put(map, n, t), objects' = Put(objects, n, obj)
  PROVE  /\ IsMap(map', Oids, Targets)
         /\ DOMAIN map' = DOMAIN map \cup {n}
         /\ map'[n] = t
         /\ \A x \in DOMAIN map : map'[x] = map[x]
         /\ IsMap(objects', Oids, Objects)
         /\ DOMAIN objects' = DOMAIN objects \cup {n}
         /\ objects'[n] = obj
         /\ \A x \in DOMAIN objects : objects'[x] = objects[x]
<1>1. IsMap(map, Oids, Targets) /\ IsMap(objects, Oids, Objects)
  BY DEF TypeOK
<1>2. /\ IsMap(map', Oids, Targets)
      /\ DOMAIN map' = DOMAIN map \cup {n}
      /\ map'[n] = t
      /\ \A x \in DOMAIN map : map'[x] = map[x]
  BY <1>1, PutMap
<1>3. /\ IsMap(objects', Oids, Objects)
      /\ DOMAIN objects' = DOMAIN objects \cup {n}
      /\ objects'[n] = obj
      /\ \A x \in DOMAIN objects : objects'[x] = objects[x]
  BY <1>1, PutMap
<1> QED
  BY <1>2, <1>3

\* The two outcomes of Instantiate once the real object r exists: no id is
\* left and nothing else changes, or the free id n enters all three tables.
NoIdLeft ==
  /\ bitset = Oids
  /\ UNCHANGED <<bitset, map, objects>>
  /\ ret' = [status |-> "FAILURE", id |-> NullOid]

Enters(n, type, a, r, module) ==
  /\ n \notin bitset /\ n \notin DOMAIN map /\ n \notin DOMAIN objects
  /\ n # NullOid
  /\ bitset' = bitset \cup {n}
  /\ map' = Put(map, n, [real |-> r, adapter |-> a])
  /\ objects' = Put(objects, n,
       [type |-> type, real |-> r, adapter |-> a, module |-> module])
  /\ ret' = [status |-> "SUCCESS", id |-> n]

\* What Instantiate does to the multiplexer's tables, given that they agree:
\* nothing when no id is left, otherwise a free id enters all three.
LEMMA InstantiateEffect ==
  ASSUME IInv, NEW type \in ObjectTypes, NEW a \in Adapters,
         NEW parent \in RealIds \cup {NoReal}, NEW module \in Oids \cup {NullOid},
         Instantiate(type, a, parent, module)
  PROVE  \E r \in RealIds :
           /\ RealCreate(a, r, type, parent)
           /\ NoIdLeft \/ \E n \in Oids : Enters(n, type, a, r, module)
<1>1. CASE FreeOids = {}
  <2>1. bitset = Oids
    BY <1>1 DEF FreeOids, IInv, TypeOK
  <2> QED
    BY <1>1, <2>1 DEF Instantiate, Fails, Answer, NoIdLeft
<1>2. CASE FreeOids # {}
  <2>1. NextOid \in Oids /\ NextOid \notin bitset /\ NextOid # NullOid
    BY <1>2, NextOidFree
  <2>2. NextOid \notin DOMAIN objects /\ NextOid \notin DOMAIN map
    BY <2>1 DEF IInv, OidAccounting
  <2> QED
    BY <1>2, <2>1, <2>2 DEF Instantiate, Answer, Enters
<1> QED
  BY <1>1, <1>2

\* Creating an object and taking an id for it keeps the invariant, provided
\* an interface is created under a live module.
LEMMA InstantiateIInv ==
  ASSUME IInv, NEW type \in ObjectTypes, NEW a \in Adapters,
         NEW parent \in RealIds \cup {NoReal}, NEW module \in Oids \cup {NullOid},
         \/ type = "MODULE"
         \/ /\ module \in DOMAIN objects
            /\ objects[module].type = "MODULE"
            /\ objects[module].adapter = a
            /\ objects[module].real = parent,
         Instantiate(type, a, parent, module)
  PROVE  IInv'
<1> USE DEF IInv
<1>1. PICK r \in RealIds :
        /\ RealCreate(a, r, type, parent)
        /\ NoIdLeft \/ \E n \in Oids : Enters(n, type, a, r, module)
  BY InstantiateEffect
<1>2. /\ real' = [x \in Adapters |-> real'[x]]
      /\ \A x \in Adapters : IsMap(real'[x], RealIds, RealObjects)
      /\ \A x \in Adapters : DOMAIN real[x] \subseteq DOMAIN real'[x]
      /\ r \in DOMAIN real'[a]
      /\ real'[a][r] = [type |-> type, parent |-> parent]
      /\ FreshRealIds => r \notin DOMAIN real[a]
      /\ \A x \in Adapters : \A y \in DOMAIN real[x] :
           <<x, y>> # <<a, r>> => real'[x][y] = real[x][y]
  BY <1>1, RealCreateEffect
<1>3. /\ DOMAIN objects \subseteq Oids /\ DOMAIN map = DOMAIN objects
      /\ \A o \in DOMAIN objects : /\ objects[o] \in Objects
                                   /\ map[o] \in Targets
  BY DEF TypeOK, IsMap, OidAccounting
<1>4. FreshRealIds => \A o \in DOMAIN objects :
        /\ objects[o].real \in DOMAIN real[objects[o].adapter]
        /\ <<objects[o].adapter, objects[o].real>> # <<a, r>>
        /\ real'[objects[o].adapter][objects[o].real]
             = real[objects[o].adapter][objects[o].real]
        /\ objects[o].real \in DOMAIN real'[objects[o].adapter]
  BY <1>2, <1>3 DEF NoDanglingTarget, Objects
<1>5. CASE NoIdLeft
  <2>1. /\ UNCHANGED <<bitset, map, objects>>
        /\ ret' = [status |-> "FAILURE", id |-> NullOid]
    BY <1>5 DEF NoIdLeft
  <2>2. TypeOK'
    BY <1>2, <2>1 DEF TypeOK, Failures
  <2>3. OidAccounting' /\ MappingAgrees' /\ UniqueIds'
    BY <2>1 DEF OidAccounting, MappingAgrees, UniqueIds, GetMapping
  <2>4. NoDanglingTarget'
    BY <1>4, <2>1 DEF NoDanglingTarget
  <2> QED
    BY <2>2, <2>3, <2>4
<1>6. ASSUME NEW n \in Oids, Enters(n, type, a, r, module)
      PROVE  IInv'
  <2> DEFINE t == [real |-> r, adapter |-> a]
             obj == [type |-> type, real |-> r, adapter |-> a, module |-> module]
  <2>1. /\ n \notin bitset /\ n \notin DOMAIN map /\ n \notin DOMAIN objects
        /\ n # NullOid
        /\ bitset' = bitset \cup {n}
        /\ map' = Put(map, n, t) /\ objects' = Put(objects, n, obj)
        /\ ret' = [status |-> "SUCCESS", id |-> n]
    BY <1>6 DEF Enters
  <2>4. t \in Targets /\ obj \in Objects
    BY DEF Targets, Objects
  <2> HIDE DEF t, obj
  <2>5. /\ IsMap(map', Oids, Targets)
        /\ DOMAIN map' = DOMAIN map \cup {n}
        /\ map'[n] = t
        /\ \A x \in DOMAIN map : map'[x] = map[x]
    BY <2>1, <2>4, TablesGrow
  <2>6. /\ IsMap(objects', Oids, Objects)
        /\ DOMAIN objects' = DOMAIN objects \cup {n}
        /\ objects'[n] = obj
        /\ \A x \in DOMAIN objects : objects'[x] = objects[x]
    BY <2>1, <2>4, TablesGrow
  <2>7. TypeOK'
    BY <1>2, <2>1, <2>5, <2>6 DEF TypeOK
  <2>8. OidAccounting'
    BY <2>1, <2>5, <2>6 DEF OidAccounting
  <2>9. MappingAgrees'
    BY <2>5, <2>6, <1>3 DEF MappingAgrees, GetMapping, t, obj
  <2>10. UniqueIds'
    <3> SUFFICES ASSUME FreshRealIds, NEW o \in DOMAIN map', NEW p \in DOMAIN map',
                        map'[o] = map'[p]
                 PROVE  o = p
      BY DEF UniqueIds
    <3>1. \A x \in DOMAIN map : map[x] # t
      BY <1>3, <1>4 DEF MappingAgrees, GetMapping, t
    <3> QED
      BY <2>5, <3>1 DEF UniqueIds
  <2>11. NoDanglingTarget'
    BY <1>2, <1>4, <2>6 DEF NoDanglingTarget, obj
  <2> QED
    BY <2>7, <2>8, <2>9, <2>10, <2>11
<1> QED
  BY <1>1, <1>5, <1>6

\* The mapping and the object table after an id has been given back.
LEMMA TablesShrink ==
  ASSUME TypeOK, NEW n \in Oids,
         map' = Erase(map, n), objects' = Erase(objects, n)
  PROVE  /\ IsMap(map', Oids, Targets)
         /\ DOMAIN map' = DOMAIN map \ {n}
         /\ \A x \in DOMAIN map : x # n => map'[x] = map[x]
         /\ IsMap(objects', Oids, Objects)
         /\ DOMAIN objects' = DOMAIN objects \ {n}
         /\ \A x \in DOMAIN objects : x # n => objects'[x] = objects[x]
<1>1. IsMap(map, Oids, Targets) /\ IsMap(objects, Oids, Objects)
  BY DEF TypeOK
<1>2. /\ IsMap(map', Oids, Targets)
      /\ DOMAIN map' = DOMAIN map \ {n}
      /\ \A x \in DOMAIN map : x # n => map'[x] = map[x]
  <2>1. /\ IsMap(Erase(map, n), Oids, Targets)
        /\ DOMAIN Erase(map, n) = DOMAIN map \ {n}
        /\ \A x \in DOMAIN map : x # n => Erase(map, n)[x] = map[x]
    BY <1>1 DEF IsMap, Erase
  <2> QED
    BY <2>1
<1>3. /\ IsMap(objects', Oids, Objects)
      /\ DOMAIN objects' = DOMAIN objects \ {n}
      /\ \A x \in DOMAIN objects : x # n => objects'[x] = objects[x]
  BY <1>1, EraseMap
<1> QED
  BY <1>2, <1>3

\* The tables of the real libraries after a remove that was not refused.
LEMMA RealRemoveEffect ==
  ASSUME TypeOK, NEW a \in Adapters, NEW r \in RealIds, RealRemove(a, r)
  PROVE  /\ real' = [x \in Adapters |-> real'[x]]
         /\ \A x \in Adapters : IsMap(real'[x], RealIds, RealObjects)
         /\ \A x \in Adapters : DOMAIN real'[x] = IF x = a THEN DOMAIN real[x] \ {r}
                                                 ELSE DOMAIN real[x]
         /\ \A x \in Adapters : \A y \in DOMAIN real[x] :
              <<x, y>> # <<a, r>> => real'[x][y] = real[x][y]
<1>1. real' = [real EXCEPT ![a] = Erase(real[a], r)]
  BY DEF RealRemove
<1>2. real = [x \in Adapters |-> real[x]]
  BY DEF TypeOK
<1>3. real'[a] = Erase(real[a], r) /\ \A x \in Adapters : x # a => real'[x] = real[x]
  BY <1>1, <1>2
<1>4. real' = [x \in Adapters |-> real'[x]]
  BY <1>1, <1>2
<1>5. \A x \in Adapters : IsMap(real[x], RealIds, RealObjects)
  BY DEF TypeOK
<1>6. /\ IsMap(real'[a], RealIds, RealObjects)
      /\ DOMAIN real'[a] = DOMAIN real[a] \ {r}
      /\ \A x \in DOMAIN real[a] : x # r => real'[a][x] = real[a][x]
  BY <1>3, <1>5, EraseMap
<1> QED
  BY <1>3, <1>4, <1>5, <1>6

\* What Remove does to the multiplexer's own tables, given that they agree.
LEMMA RemoveEffect ==
  ASSUME IInv, NEW id \in Oids, Remove(id)
  PROVE  /\ id \in DOMAIN objects /\ id \in DOMAIN map
         /\ map' = Erase(map, id)
         /\ objects' = Erase(objects, id)
         /\ bitset' = bitset \ {id}
         /\ ret' = [status |-> "SUCCESS", id |-> NullOid]
         /\ objects[id].adapter \in Adapters /\ objects[id].real \in RealIds
         /\ RealRemove(objects[id].adapter, objects[id].real)
<1>1. id \in DOMAIN objects /\ objects' = Erase(objects, id)
  BY DEF Remove
<1>2. id \in DOMAIN map
  BY <1>1 DEF IInv, OidAccounting
<1>3. map' = Erase(map, id) /\ bitset' = bitset \ {id}
  BY <1>2 DEF Remove, RemoveMapping
<1>4. objects[id] \in Objects
  BY <1>1 DEF IInv, TypeOK, IsMap
<1>5. objects[id].adapter \in Adapters /\ objects[id].real \in RealIds
  BY <1>4 DEF Objects
<1> QED
  BY <1>1, <1>2, <1>3, <1>5 DEF Remove, Answer

\* A remove leaves the real objects of all other ids alone.
LEMMA RemoveKeepsReal ==
  ASSUME IInv, FreshRealIds, NEW id \in Oids, Remove(id), NEW o \in DOMAIN objects'
  PROVE  /\ objects'[o] = objects[o]
         /\ objects[o].real \in DOMAIN real[objects[o].adapter]
         /\ objects[o].real \in DOMAIN real'[objects[o].adapter]
         /\ real'[objects[o].adapter][objects[o].real]
              = real[objects[o].adapter][objects[o].real]
<1> USE DEF IInv
<1> DEFINE a == objects[id].adapter
           r == objects[id].real
<1>1. /\ id \in DOMAIN objects /\ id \in DOMAIN map
      /\ map' = Erase(map, id)
      /\ objects' = Erase(objects, id)
      /\ a \in Adapters /\ r \in RealIds
      /\ RealRemove(a, r)
  BY RemoveEffect
<1> HIDE DEF a, r
<1>2. /\ DOMAIN objects' = DOMAIN objects \ {id}
      /\ \A x \in DOMAIN objects : x # id => objects'[x] = objects[x]
  BY <1>1, TablesShrink
<1>3. /\ \A x \in Adapters : DOMAIN real'[x] = IF x = a THEN DOMAIN real[x] \ {r}
                                               ELSE DOMAIN real[x]
      /\ \A x \in Adapters : \A y \in DOMAIN real[x] :
           <<x, y>> # <<a, r>> => real'[x][y] = real[x][y]
  BY <1>1, RealRemoveEffect
<1>4. /\ DOMAIN map = DOMAIN objects
      /\ \A p \in DOMAIN objects :
           objects[p].adapter \in Adapters /\ objects[p].real \in RealIds
  BY DEF TypeOK, IsMap, OidAccounting, Objects
<1>5. o \in DOMAIN objects /\ o # id
  BY <1>2
<1>6. map[o] # map[id]
  BY <1>1, <1>4, <1>5 DEF UniqueIds
<1>7. <<objects[o].adapter, objects[o].real>> # <<a, r>>
  BY <1>1, <1>4, <1>5, <1>6 DEF MappingAgrees, GetMapping, a, r
<1>8. objects[o].real \in DOMAIN real[objects[o].adapter]
  BY <1>5 DEF NoDanglingTarget
<1> QED
  BY <1>2, <1>3, <1>4, <1>5, <1>7, <1>8

\* A remove keeps the invariant.
LEMMA RemoveIInv ==
  ASSUME IInv, NEW id \in Oids, Remove(id)
  PROVE  IInv'
<1> USE DEF IInv
<1> DEFINE a == objects[id].adapter
           r == objects[id].real
<1>1. /\ id \in DOMAIN objects /\ id \in DOMAIN map
      /\ map' = Erase(map, id)
      /\ objects' = Erase(objects, id)
      /\ bitset' = bitset \ {id}
      /\ ret' = [status |-> "SUCCESS", id |-> NullOid]
      /\ a \in Adapters /\ r \in RealIds
      /\ RealRemove(a, r)
  BY RemoveEffect
<1> HIDE DEF a, r
<1>2. /\ IsMap(map', Oids, Targets)
      /\ DOMAIN map' = DOMAIN map \ {id}
      /\ \A x \in DOMAIN map : x # id => map'[x] = map[x]
      /\ IsMap(objects', Oids, Objects)
      /\ DOMAIN objects' = DOMAIN objects \ {id}
      /\ \A x \in DOMAIN objects : x # id => objects'[x] = objects[x]
  BY <1>1, TablesShrink
<1>3. /\ real' = [x \in Adapters |-> real'[x]]
      /\ \A x \in Adapters : IsMap(real'[x], RealIds, RealObjects)
  BY <1>1, RealRemoveEffect
<1>4. FreshRealIds => \A o \in DOMAIN objects' :
        /\ objects'[o] = objects[o]
        /\ objects[o].real \in DOMAIN real'[objects[o].adapter]
        /\ real'[objects[o].adapter][objects[o].real]
             = real[objects[o].adapter][objects[o].real]
  BY RemoveKeepsReal
<1>5. TypeOK'
  BY <1>1, <1>2, <1>3 DEF TypeOK
<1>6. OidAccounting'
  BY <1>1, <1>2 DEF OidAccounting
<1>7. MappingAgrees'
  BY <1>2 DEF MappingAgrees, GetMapping
<1>8. UniqueIds'
  BY <1>2 DEF UniqueIds
<1>9. NoDanglingTarget'
  BY <1>2, <1>4 DEF NoDanglingTarget
<1> QED
  BY <1>5, <1>6, <1>7, <1>8, <1>9

\* A call that fails before any table is touched.
LEMMA RefusedIInv ==
  ASSUME IInv, UNCHANGED <<bitset, map, objects, real>>,
         ret' \in [status : Failures \cup {"SUCCESS"}, id : Oids \cup {NullOid}]
  PROVE  IInv'
  BY DEF IInv, TypeOK, OidAccounting, MappingAgrees, UniqueIds, NoDanglingTarget,
         GetMapping

\* Every call keeps the invariant.
LEMMA NextIInv == IInv /\ [Next]_vars => IInv'
<1> SUFFICES ASSUME IInv, [Next]_vars PROVE IInv'
  OBVIOUS
<1>1. CASE CreateModuleRefused
  BY <1>1, RefusedIInv DEF CreateModuleRefused, Fails, Answer, Failures
<1>2. CASE CreateModule
  <2>1. PICK a \in Adapters : Instantiate("MODULE", a, NoReal, NullOid)
    BY <1>2 DEF CreateModule
  <2> QED
    BY <2>1, InstantiateIInv DEF ObjectTypes
<1>3. CASE CreateUnknownType
  BY <1>3, RefusedIInv DEF CreateUnknownType, Fails, Answer, Failures
<1>4. ASSUME NEW id \in Oids \cup {NullOid}, CreateInterfaceRefused(id)
      PROVE  IInv'
  BY <1>4, RefusedIInv DEF CreateInterfaceRefused, Fails, Answer, Failures
<1>5. ASSUME NEW id \in Oids \cup {NullOid}, CreateInterface(id)
      PROVE  IInv'
  <2>1. id \in DOMAIN objects /\ objects[id].type = "MODULE"
    BY <1>5 DEF CreateInterface
  <2>2. objects[id] \in Objects
    BY <2>1 DEF IInv, TypeOK, IsMap
  <2>3. objects[id].adapter \in Adapters /\ objects[id].real \in RealIds
    BY <2>2 DEF Objects
  <2>4. PICK type \in InterfaceTypes :
          Instantiate(type, objects[id].adapter, objects[id].real, id)
    BY <1>5 DEF CreateInterface
  <2> QED
    BY <2>1, <2>3, <2>4, InstantiateIInv DEF ObjectTypes
<1>6. ASSUME NEW id \in Oids \cup {NullOid}, RemoveRefused(id)
      PROVE  IInv'
  BY <1>6, RefusedIInv DEF RemoveRefused, Fails, Answer, Failures
<1>7. ASSUME NEW id \in Oids \cup {NullOid}, Remove(id)
      PROVE  IInv'
  <2>1. id \in Oids
    BY <1>7 DEF Remove, IInv, TypeOK, IsMap
  <2> QED
    BY <1>7, <2>1, RemoveIInv
<1>8. CASE UNCHANGED vars
  BY <1>8, RefusedIInv DEF vars, IInv, TypeOK
<1> QED
  BY <1>1, <1>2, <1>3, <1>4, <1>5, <1>6, <1>7, <1>8 DEF Next

\* Every state satisfies the invariant.
LEMMA InductiveInvariant == Spec => []IInv
  BY InitIInv, NextIInv, PTL DEF Spec

-----------------------------------------------------------------------------
(* The checked properties.                                                 *)

\* Every table keeps its type.
THEOREM TypeCorrect == Spec => []TypeOK
<1>1. IInv => TypeOK
  BY DEF IInv
<1> QED
  BY <1>1, InductiveInvariant, PTL

\* The allocator, the mapping and the object table always hold the same ids,
\* whatever calls failed on the way: no id is ever lost.
THEOREM OidsAccounted == Spec => []OidAccounting
<1>1. IInv => OidAccounting
  BY DEF IInv
<1> QED
  BY <1>1, InductiveInvariant, PTL

\* A forwarded call and a remove reach the same real object.
THEOREM MappingsAgree == Spec => []MappingAgrees
<1>1. IInv => MappingAgrees
  BY DEF IInv
<1> QED
  BY <1>1, InductiveInvariant, PTL

\* The id of the object behind which a real id lies is found again.
LEMMA ReverseIsOwn ==
  ASSUME IInv, FreshRealIds, NEW o \in DOMAIN map
  PROVE  ReverseMapping(map[o].real, map[o].adapter) = o
<1> DEFINE ids == {p \in DOMAIN map :
                     map[p] = [real |-> map[o].real, adapter |-> map[o].adapter]}
<1>1. map[o] \in Targets
  BY DEF IInv, TypeOK, IsMap
<1>2. map[o] = [real |-> map[o].real, adapter |-> map[o].adapter]
  BY <1>1 DEF Targets
<1>3. ids = {o}
  BY <1>2 DEF IInv, UniqueIds
<1>4. o \in Nat
  BY MaxOidAssumption DEF IInv, TypeOK, IsMap, Oids
<1>5. (CHOOSE x \in {o} : \A p \in {o} : x <= p) = o
  BY <1>4
<1>6. ReverseMapping(map[o].real, map[o].adapter)
        = IF ids = {} THEN NullOid ELSE CHOOSE x \in ids : \A p \in ids : x <= p
  BY DEF ReverseMapping
<1> HIDE DEF ids
<1> QED
  BY <1>3, <1>5, <1>6

\* With libraries that give out fresh ids, turning an id into a real id and
\* back is the identity.
THEOREM RoundTrip == Spec => []ReverseRoundTrip
<1>1. IInv => ReverseRoundTrip
  BY ReverseIsOwn DEF ReverseRoundTrip
<1> QED
  BY <1>1, InductiveInvariant, PTL

\* With libraries that give out fresh ids, no id stands for a real object
\* that is gone.
THEOREM NoDangling == Spec => []NoDanglingTarget
<1>1. IInv => NoDanglingTarget
  BY DEF IInv
<1> QED
  BY <1>1, InductiveInvariant, PTL

\* A create under the module it names: the object it enters names that
\* module, and no other object comes to name another.
LEMMA InstantiateNames ==
  ASSUME IInv, FreshRealIds, NEW type \in ObjectTypes, NEW a \in Adapters,
         NEW parent \in RealIds \cup {NoReal}, NEW module \in Oids \cup {NullOid},
         \/ type = "MODULE"
         \/ /\ module \in DOMAIN objects
            /\ objects[module].type = "MODULE"
            /\ objects[module].adapter = a
            /\ objects[module].real = parent,
         Instantiate(type, a, parent, module),
         NEW o \in DOMAIN objects'
  PROVE  NamesModule(o)' \/ (o \in DOMAIN objects /\ ~NamesModule(o))
<1>1. PICK r \in RealIds :
        /\ RealCreate(a, r, type, parent)
        /\ NoIdLeft \/ \E n \in Oids : Enters(n, type, a, r, module)
  BY InstantiateEffect
<1>2. /\ real'[a][r] = [type |-> type, parent |-> parent]
      /\ r \notin DOMAIN real[a]
      /\ \A x \in Adapters : \A y \in DOMAIN real[x] :
           <<x, y>> # <<a, r>> => real'[x][y] = real[x][y]
  BY <1>1, RealCreateEffect DEF IInv
<1>3. ASSUME NEW p \in DOMAIN objects
      PROVE  real'[objects[p].adapter][objects[p].real]
               = real[objects[p].adapter][objects[p].real]
  <2>1. /\ objects[p].adapter \in Adapters
        /\ objects[p].real \in DOMAIN real[objects[p].adapter]
    BY DEF IInv, TypeOK, IsMap, Objects, NoDanglingTarget
  <2> QED
    BY <1>2, <2>1
<1>4. SUFFICES ASSUME o \in DOMAIN objects => NamesModule(o)
               PROVE  NamesModule(o)'
  OBVIOUS
<1>5. CASE NoIdLeft
  <2>1. objects' = objects
    BY <1>5 DEF NoIdLeft
  <2> QED
    BY <1>3, <1>4, <2>1 DEF NamesModule, GetModuleId, GetObjectType
<1>6. ASSUME NEW n \in Oids, Enters(n, type, a, r, module)
      PROVE  NamesModule(o)'
  <2> DEFINE obj == [type |-> type, real |-> r, adapter |-> a, module |-> module]
  <2>1. n \notin DOMAIN objects /\ objects' = Put(objects, n, obj)
    BY <1>6 DEF Enters
  <2>2. /\ DOMAIN objects' = DOMAIN objects \cup {n}
        /\ objects'[n] = obj
        /\ \A x \in DOMAIN objects : objects'[x] = objects[x]
    BY <2>1 DEF Put
  <2>3. CASE o = n
    BY <1>2, <2>1, <2>2, <2>3 DEF NamesModule, GetModuleId, GetObjectType
  <2>4. CASE o \in DOMAIN objects
    <3>1. /\ GetModuleId(o)' = GetModuleId(o)
          /\ objects'[o] = objects[o]
      BY <2>2, <2>4 DEF GetModuleId
    <3>2. GetModuleId(o) \in DOMAIN objects /\ objects[GetModuleId(o)].type = "MODULE"
      BY <1>4, <2>4 DEF NamesModule, GetObjectType
    <3>3. /\ objects'[GetModuleId(o)] = objects[GetModuleId(o)]
          /\ GetObjectType(GetModuleId(o))' = "MODULE"
      BY <2>2, <3>1, <3>2 DEF GetObjectType
    <3> QED
      BY <1>3, <1>4, <2>4, <3>1, <3>3 DEF NamesModule
  <2> QED
    BY <2>2, <2>3, <2>4
<1> QED
  BY <1>1, <1>5, <1>6

\* A remove of another object than o's module: what o names is left alone.
LEMMA RemoveNames ==
  ASSUME IInv, FreshRealIds, NEW id \in Oids, Remove(id), NEW o \in DOMAIN objects',
         NamesModule(o), GetModuleId(o) # id
  PROVE  NamesModule(o)'
<1>1. objects' = Erase(objects, id)
  BY RemoveEffect
<1>2. /\ DOMAIN objects' = DOMAIN objects \ {id}
      /\ \A x \in DOMAIN objects : x # id => objects'[x] = objects[x]
  BY <1>1 DEF Erase
<1>3. /\ GetModuleId(o)' = GetModuleId(o)
      /\ objects'[o] = objects[o]
      /\ o \in DOMAIN objects
  BY <1>2 DEF GetModuleId
<1>4. GetModuleId(o) \in DOMAIN objects /\ objects[GetModuleId(o)].type = "MODULE"
  BY DEF NamesModule, GetObjectType
<1>5. /\ objects'[GetModuleId(o)] = objects[GetModuleId(o)]
      /\ GetObjectType(GetModuleId(o))' = "MODULE"
  BY <1>2, <1>3, <1>4 DEF GetObjectType
<1>6. real'[objects[o].adapter][objects[o].real] = real[objects[o].adapter][objects[o].real]
  BY RemoveKeepsReal
<1> QED
  BY <1>3, <1>5, <1>6 DEF NamesModule

\* With libraries that give out fresh ids, every object is created naming its
\* module, and only the remove of that module makes it name another id: no
\* other create or remove, of the same library or of another, through any reuse
\* of ids of both sides, comes between an interface and its module.
THEOREM ModuleKept == Spec => ModuleOfInterfaceKept
<1> DEFINE Kept == FreshRealIds =>
      \A o \in DOMAIN objects' :
        \/ NamesModule(o)'
        \/ /\ o \in DOMAIN objects
           /\ \/ ~NamesModule(o)
              \/ objects' = Erase(objects, GetModuleId(o))
<1>1. ASSUME IInv, [Next]_vars
      PROVE  [Kept]_vars
  <2> SUFFICES ASSUME FreshRealIds, NEW o \in DOMAIN objects', Next,
                      o \in DOMAIN objects => NamesModule(o)
               PROVE  \/ NamesModule(o)'
                      \/ /\ o \in DOMAIN objects
                         /\ objects' = Erase(objects, GetModuleId(o))
    BY <1>1
  <2> USE <1>1
  <2>1. ASSUME UNCHANGED <<bitset, map, objects, real>>
        PROVE  NamesModule(o)'
    BY <2>1 DEF NamesModule, GetModuleId, GetObjectType
  <2>2. CASE CreateModuleRefused \/ CreateUnknownType
    BY <2>1, <2>2 DEF CreateModuleRefused, CreateUnknownType
  <2>3. CASE CreateModule
    <3>1. PICK a \in Adapters : Instantiate("MODULE", a, NoReal, NullOid)
      BY <2>3 DEF CreateModule
    <3> QED
      BY <3>1, InstantiateNames DEF ObjectTypes
  <2>4. ASSUME NEW id \in Oids \cup {NullOid}, CreateInterfaceRefused(id) \/ RemoveRefused(id)
        PROVE  NamesModule(o)'
    BY <2>1, <2>4 DEF CreateInterfaceRefused, RemoveRefused
  <2>5. ASSUME NEW id \in Oids \cup {NullOid}, CreateInterface(id)
        PROVE  NamesModule(o)'
    <3>1. id \in DOMAIN objects /\ objects[id].type = "MODULE"
      BY <2>5 DEF CreateInterface
    <3>2. objects[id] \in Objects
      BY <3>1 DEF IInv, TypeOK, IsMap
    <3>3. objects[id].adapter \in Adapters /\ objects[id].real \in RealIds
      BY <3>2 DEF Objects
    <3>4. PICK type \in InterfaceTypes :
            Instantiate(type, objects[id].adapter, objects[id].real, id)
      BY <2>5 DEF CreateInterface
    <3> QED
      BY <3>1, <3>3, <3>4, InstantiateNames DEF ObjectTypes
  <2>6. ASSUME NEW id \in Oids \cup {NullOid}, Remove(id)
        PROVE  \/ NamesModule(o)'
               \/ /\ o \in DOMAIN objects
                  /\ objects' = Erase(objects, GetModuleId(o))
    <3>1. id \in Oids
      BY <2>6 DEF Remove, IInv, TypeOK, IsMap
    <3>2. objects' = Erase(objects, id) /\ o \in DOMAIN objects
      BY <2>6, <3>1, RemoveEffect DEF Erase
    <3> QED
      BY <2>6, <3>1, <3>2, RemoveNames
  <2> QED
    BY <2>2, <2>3, <2>4, <2>5, <2>6 DEF Next
<1> QED
  BY <1>1, InductiveInvariant, PTL DEF Spec, ModuleOfInterfaceKept

\* A create leaves a real object without an id only when no id is left.
LEMMA InstantiateOrphans ==
  ASSUME IInv, NEW type \in ObjectTypes, NEW a \in Adapters,
         NEW parent \in RealIds \cup {NoReal}, NEW module \in Oids \cup {NullOid},
         Instantiate(type, a, parent, module)
  PROVE  Orphans' \subseteq Orphans \/ bitset = Oids
<1>1. PICK r \in RealIds :
        /\ RealCreate(a, r, type, parent)
        /\ NoIdLeft \/ \E n \in Oids : Enters(n, type, a, r, module)
  BY InstantiateEffect
<1>2. \A x \in Adapters : \A y \in DOMAIN real'[x] :
        y \in DOMAIN real[x] \/ <<x, y>> = <<a, r>>
  BY <1>1, RealCreateEffect DEF IInv
<1>3. SUFFICES ASSUME NEW n \in Oids, Enters(n, type, a, r, module),
                      NEW t \in Targets,
                      t.real \in DOMAIN real'[t.adapter],
                      ~\E o \in DOMAIN map' : map'[o] = t
               PROVE  t \in Orphans
  BY <1>1 DEF Orphans, NoIdLeft
<1>4. /\ DOMAIN map' = DOMAIN map \cup {n}
      /\ map'[n] = [real |-> r, adapter |-> a]
      /\ \A o \in DOMAIN map : map'[o] = map[o]
  BY <1>3 DEF Put, Enters
<1>5. t = [real |-> t.real, adapter |-> t.adapter] /\ t.adapter \in Adapters
  BY DEF Targets
<1>6. <<t.adapter, t.real>> # <<a, r>>
  BY <1>3, <1>4, <1>5
<1> QED
  BY <1>2, <1>3, <1>4, <1>5, <1>6 DEF Orphans

\* A remove leaves no real object without an id.
LEMMA RemoveOrphans ==
  ASSUME IInv, NEW id \in Oids, Remove(id)
  PROVE  Orphans' \subseteq Orphans
<1> DEFINE a == objects[id].adapter
           r == objects[id].real
<1>1. /\ id \in DOMAIN objects /\ id \in DOMAIN map
      /\ map' = Erase(map, id)
      /\ a \in Adapters /\ r \in RealIds
      /\ RealRemove(a, r)
  BY RemoveEffect
<1>2. \A x \in Adapters : DOMAIN real'[x] = IF x = a THEN DOMAIN real[x] \ {r}
                                            ELSE DOMAIN real[x]
  BY <1>1, RealRemoveEffect DEF IInv
<1>3. map[id] = [real |-> r, adapter |-> a]
  BY <1>1 DEF IInv, MappingAgrees, GetMapping
<1> HIDE DEF a, r
<1>4. SUFFICES ASSUME NEW t \in Targets, t.real \in DOMAIN real'[t.adapter],
                      ~\E o \in DOMAIN map' : map'[o] = t
               PROVE  t \in Orphans
  BY DEF Orphans
<1>5. t = [real |-> t.real, adapter |-> t.adapter] /\ t.adapter \in Adapters
  BY DEF Targets
<1>6. t # map[id] /\ t.real \in DOMAIN real[t.adapter]
  <2>1. t.real \in DOMAIN real[t.adapter] /\ ~(t.adapter = a /\ t.real = r)
    BY <1>2, <1>4, <1>5
  <2>2. t # map[id]
    BY <1>3, <2>1
  <2> QED
    BY <2>1, <2>2
<1>7. \A o \in DOMAIN map : o # id => o \in DOMAIN map' /\ map'[o] = map[o]
  BY <1>1 DEF Erase
<1> QED
  BY <1>4, <1>6, <1>7 DEF Orphans

\* Only a create made when every id is taken leaves a real object without id.
THEOREM OrphansAtLimit == Spec => OrphansOnlyAtLimit
<1>1. IInv /\ [Next]_vars => [Orphans' \subseteq Orphans \/ bitset = Oids]_vars
  <2> SUFFICES ASSUME IInv, Next
               PROVE  Orphans' \subseteq Orphans \/ bitset = Oids
    OBVIOUS
  <2>1. ASSUME UNCHANGED <<bitset, map, objects, real>>
        PROVE  Orphans' \subseteq Orphans
    BY <2>1 DEF Orphans
  <2>2. CASE CreateModule
    <3>1. PICK a \in Adapters : Instantiate("MODULE", a, NoReal, NullOid)
      BY <2>2 DEF CreateModule
    <3> QED
      BY <3>1, InstantiateOrphans DEF ObjectTypes
  <2>3. ASSUME NEW id \in Oids \cup {NullOid}, CreateInterface(id)
        PROVE  Orphans' \subseteq Orphans \/ bitset = Oids
    <3>1. id \in DOMAIN objects
      BY <2>3 DEF CreateInterface
    <3>2. objects[id] \in Objects
      BY <3>1 DEF IInv, TypeOK, IsMap
    <3>3. objects[id].adapter \in Adapters /\ objects[id].real \in RealIds
      BY <3>2 DEF Objects
    <3>4. PICK type \in InterfaceTypes :
            Instantiate(type, objects[id].adapter, objects[id].real, id)
      BY <2>3 DEF CreateInterface
    <3> QED
      BY <3>3, <3>4, InstantiateOrphans DEF ObjectTypes
  <2>4. ASSUME NEW id \in Oids \cup {NullOid}, Remove(id)
        PROVE  Orphans' \subseteq Orphans
    <3>1. id \in Oids
      BY <2>4 DEF Remove, IInv, TypeOK, IsMap
    <3> QED
      BY <2>4, <3>1, RemoveOrphans
  <2> QED
    BY <2>1, <2>2, <2>3, <2>4
    DEF Next, CreateModuleRefused, CreateUnknownType, CreateInterfaceRefused,
        RemoveRefused
<1> QED
  BY <1>1, InductiveInvariant, PTL DEF Spec, OrphansOnlyAtLimit

-----------------------------------------------------------------------------
(* The multiplexer implements ObjectRegistry.                              *)

\* The view of the callers, given that the tables agree.
LEMMA ViewEntries ==
  ASSUME IInv
  PROVE  /\ DOMAIN RegistryView = DOMAIN objects
         /\ \A o \in DOMAIN objects :
              RegistryView[o] = [type |-> objects[o].type, target |-> map[o]]
  BY DEF RegistryView, IInv, OidAccounting

\* A create registers an object in the view of the callers, or refuses.
LEMMA InstantiateRefines ==
  ASSUME IInv, IInv', NEW type \in ObjectTypes, NEW a \in Adapters,
         NEW parent \in RealIds \cup {NoReal}, NEW module \in Oids \cup {NullOid},
         Instantiate(type, a, parent, module)
  PROVE  Registry!Register \/ Registry!Refuse
<1>1. PICK r \in RealIds :
        /\ RealCreate(a, r, type, parent)
        /\ NoIdLeft \/ \E n \in Oids : Enters(n, type, a, r, module)
  BY InstantiateEffect
<1>2. CASE NoIdLeft
  <2>1. UNCHANGED RegistryView
    BY <1>2 DEF RegistryView, NoIdLeft
  <2> QED
    BY <1>2, <2>1 DEF Registry!Refuse, Failures, NoIdLeft
<1>3. ASSUME NEW n \in Oids, Enters(n, type, a, r, module)
      PROVE  Registry!Register
  <2> DEFINE b == [type |-> type, target |-> [real |-> r, adapter |-> a]]
  <2>1. /\ DOMAIN objects' = DOMAIN objects \cup {n} /\ DOMAIN map' = DOMAIN map \cup {n}
        /\ objects'[n].type = type /\ map'[n] = [real |-> r, adapter |-> a]
        /\ \A o \in DOMAIN objects : objects'[o] = objects[o]
        /\ \A o \in DOMAIN map : map'[o] = map[o]
    BY <1>3 DEF Put, Enters
  <2>2. DOMAIN map = DOMAIN objects
    BY DEF IInv, OidAccounting
  <2>3. RegistryView' =
          [x \in DOMAIN RegistryView \cup {n} |-> IF x = n THEN b ELSE RegistryView[x]]
    BY <1>3, <2>1, <2>2, ViewEntries DEF RegistryView
  <2>4. b \in [type : ObjectTypes, target : Targets]
    BY DEF Targets
  <2>5. n \in Oids \ DOMAIN RegistryView
    BY <1>3, ViewEntries DEF Enters
  <2> QED
    BY <1>3, <2>3, <2>4, <2>5 DEF Registry!Register, Enters
<1> QED
  BY <1>1, <1>2, <1>3

\* A remove that succeeds retires the id.
LEMMA RemoveRefines ==
  ASSUME IInv, NEW id \in Oids, Remove(id)
  PROVE  Registry!Retire
<1>1. /\ id \in DOMAIN objects
      /\ map' = Erase(map, id)
      /\ objects' = Erase(objects, id)
      /\ ret' = [status |-> "SUCCESS", id |-> NullOid]
  BY RemoveEffect
<1>2. /\ DOMAIN objects' = DOMAIN objects \ {id} /\ DOMAIN map' = DOMAIN map \ {id}
      /\ \A o \in DOMAIN objects' : objects'[o] = objects[o]
      /\ \A o \in DOMAIN map' : map'[o] = map[o]
  BY <1>1 DEF Erase
<1>3. DOMAIN map = DOMAIN objects
  BY DEF IInv, OidAccounting
<1>4. RegistryView' = [x \in DOMAIN RegistryView \ {id} |-> RegistryView[x]]
  BY <1>2, <1>3, ViewEntries DEF RegistryView
<1>5. id \in DOMAIN RegistryView
  BY <1>1, ViewEntries
<1> QED
  BY <1>1, <1>4, <1>5 DEF Registry!Retire

\* A call that fails before any table is touched fails in the registry.
LEMMA RefusalRefines ==
  ASSUME UNCHANGED <<bitset, map, objects, real>>,
         ret' \in [status : Failures, id : {NullOid}]
  PROVE  Registry!Refuse
<1>1. UNCHANGED RegistryView
  BY DEF RegistryView
<1> QED
  BY <1>1 DEF Registry!Refuse

\* The multiplexer keeps the promises of ObjectRegistry: ids are given out
\* fresh, bindings never change, and a failed call changes nothing.
THEOREM RefinesRegistry == Spec => RegistrySpec
<1>1. Init => Registry!Init
  BY DEF Init, Registry!Init, RegistryView
<1>2. IInv /\ IInv' /\ [Next]_vars => [Registry!Next]_(Registry!vars)
  <2> SUFFICES ASSUME IInv, IInv', [Next]_vars
               PROVE  Registry!Next \/ UNCHANGED <<RegistryView, ret>>
    BY DEF Registry!vars
  <2>1. CASE UNCHANGED vars
    BY <2>1 DEF vars, RegistryView
  <2>2. CASE CreateModule
    <3>1. PICK a \in Adapters : Instantiate("MODULE", a, NoReal, NullOid)
      BY <2>2 DEF CreateModule
    <3> QED
      BY <3>1, InstantiateRefines DEF ObjectTypes, Registry!Next
  <2>3. ASSUME NEW id \in Oids \cup {NullOid}, CreateInterface(id)
        PROVE  Registry!Next
    <3>1. id \in DOMAIN objects
      BY <2>3 DEF CreateInterface
    <3>2. objects[id] \in Objects
      BY <3>1 DEF IInv, TypeOK, IsMap
    <3>3. objects[id].adapter \in Adapters /\ objects[id].real \in RealIds
      BY <3>2 DEF Objects
    <3>4. PICK type \in InterfaceTypes :
            Instantiate(type, objects[id].adapter, objects[id].real, id)
      BY <2>3 DEF CreateInterface
    <3> QED
      BY <3>3, <3>4, InstantiateRefines DEF ObjectTypes, Registry!Next
  <2>4. ASSUME NEW id \in Oids \cup {NullOid}, Remove(id)
        PROVE  Registry!Next
    <3>1. id \in Oids
      BY <2>4 DEF Remove, IInv, TypeOK, IsMap
    <3> QED
      BY <2>4, <3>1, RemoveRefines DEF Registry!Next
  <2>5. ASSUME \/ CreateModuleRefused
               \/ CreateUnknownType
               \/ \E id \in Oids \cup {NullOid} :
                    CreateInterfaceRefused(id) \/ RemoveRefused(id)
        PROVE  Registry!Next
    BY <2>5, RefusalRefines
    DEF CreateModuleRefused, CreateUnknownType, CreateInterfaceRefused,
        RemoveRefused, Fails, Answer, Failures, Registry!Next
  <2> QED
    BY <2>1, <2>2, <2>3, <2>4, <2>5 DEF Next
<1> QED
  BY <1>1, <1>2, InductiveInvariant, PTL DEF Spec, RegistrySpec, Registry!Spec

-----------------------------------------------------------------------------
(* Attributes.                                                             *)

attributeVars == <<vars, stored, wrote>>

\* Attributes move no table: any behaviour of MuxAttributes is one of
\* MuxPlatform, with all that is proved of it.
LEMMA PlatformStep ==
  ASSUME [AttrNext]_attributeVars
  PROVE  [Next]_vars
<1>1. CASE \E o \in Oids : RemoveObject(o)
  BY <1>1 DEF RemoveObject, Next
<1>2. CASE \E o \in Oids, ids \in IdLists(Oids \cup {NullOid}) : Set(o, ids) \/ SetRefused(o, ids)
  BY <1>2 DEF Set, SetRefused
<1>3. CASE \E t \in Targets, reals \in RealLists : LibraryChanges(t, reals)
  BY <1>3 DEF LibraryChanges
<1>4. CASE UNCHANGED attributeVars
  BY <1>4 DEF attributeVars
<1> QED
  BY <1>1, <1>2, <1>3, <1>4 DEF AttrNext, Next

\* Forwarding attributes leaves the object table as MuxPlatform has it: every
\* step of the composition is one of MuxPlatform or changes none of its tables,
\* so that the theorems about MuxPlatform hold here, too.
THEOREM SameTables == AttrSpec => Spec
<1>1. AttrInit => Init
  BY DEF AttrInit
<1>2. [AttrNext]_attributeVars => [Next]_vars
  BY PlatformStep
<1> QED
  BY <1>1, <1>2, PTL DEF AttrSpec, Spec, attributeVars

-----------------------------------------------------------------------------
(* What follows from the tables.                                           *)

\* An id that a reported real id is turned into is the id of an object of the
\* reporting library that lies behind it, if it is an id at all.
LEMMA BackwardFacts ==
  ASSUME IInv, NEW r, NEW a, Backward(r, a) # NullOid
  PROVE  /\ Backward(r, a) \in DOMAIN map
         /\ map[Backward(r, a)] = [real |-> r, adapter |-> a]
<1> DEFINE ids == {o \in DOMAIN map : map[o] = [real |-> r, adapter |-> a]}
<1>1. Backward(r, a) = IF ids = {} THEN NullOid ELSE CHOOSE o \in ids : \A p \in ids : o <= p
  BY DEF Backward, ReverseMapping
<1>2. ids # {}
  BY <1>1
<1>3. ids \subseteq Nat
  BY MaxOidAssumption DEF IInv, TypeOK, IsMap, Oids
<1>4. \E o \in ids : \A p \in ids : o <= p
  BY <1>2, <1>3, LeastNatural
<1>5. Backward(r, a) \in ids
  BY <1>1, <1>2, <1>4
<1> QED
  BY <1>5

\* A real id behind which an object lies is turned into an id.
LEMMA BackwardFinds ==
  ASSUME IInv, NEW o \in DOMAIN map, NEW r, NEW a, map[o] = [real |-> r, adapter |-> a]
  PROVE  Backward(r, a) # NullOid
<1> DEFINE ids == {p \in DOMAIN map : map[p] = [real |-> r, adapter |-> a]}
<1>1. Backward(r, a) = IF ids = {} THEN NullOid ELSE CHOOSE x \in ids : \A p \in ids : x <= p
  BY DEF Backward, ReverseMapping
<1>2. ids # {} /\ ids \subseteq DOMAIN map
  OBVIOUS
<1>3. ids \subseteq Nat /\ NullOid \notin DOMAIN map
  BY MaxOidAssumption DEF IInv, TypeOK, IsMap, Oids, NullOid
<1>4. \E x \in ids : \A p \in ids : x <= p
  BY <1>2, <1>3, LeastNatural
<1>5. Backward(r, a) \in ids
  BY <1>1, <1>2, <1>4
<1> QED
  BY <1>3, <1>5

\* No real id passes for an id: a get that succeeds (PlatformAdapter::get with
\* convert_oid) answers, in the place of every real id, the id of an object of
\* the same library behind which that real id lies.
THEOREM Translated == AttrSpec => []ReportsTranslated
<1>1. IInv => ReportsTranslated
  <2> SUFFICES ASSUME IInv, NEW o \in DOMAIN map, Get(o).status = "SUCCESS"
               PROVE  /\ DOMAIN Get(o).ids = DOMAIN Reported(GetMapping(o))
                      /\ \A i \in DOMAIN Reported(GetMapping(o)) :
                           /\ Get(o).ids[i] \in DOMAIN objects
                           /\ GetRealOid(Get(o).ids[i]) = Reported(GetMapping(o))[i]
                           /\ Library(Get(o).ids[i]) = Library(o)
    BY DEF ReportsTranslated
  <2> DEFINE a == GetMapping(o).adapter
             reals == Reported(GetMapping(o))
  <2>1. Convertible(reals, a) /\ Get(o).ids = [i \in DOMAIN reals |-> Backward(reals[i], a)]
    BY DEF Get
  <2>2. ASSUME NEW i \in DOMAIN reals
        PROVE  /\ Get(o).ids[i] \in DOMAIN map
               /\ map[Get(o).ids[i]] = [real |-> reals[i], adapter |-> a]
    <3>1. Get(o).ids[i] = Backward(reals[i], a) /\ Backward(reals[i], a) # NullOid
      BY <2>1 DEF Convertible
    <3> QED
      BY <3>1, BackwardFacts
  <2>3. ASSUME NEW i \in DOMAIN reals
        PROVE  /\ Get(o).ids[i] \in DOMAIN objects
               /\ GetRealOid(Get(o).ids[i]) = reals[i]
               /\ Library(Get(o).ids[i]) = Library(o)
    <3>1. PICK id : id = Get(o).ids[i]
      OBVIOUS
    <3>2. id \in DOMAIN objects /\ map[id] = [real |-> reals[i], adapter |-> a]
      BY <2>2, <3>1 DEF IInv, OidAccounting
    <3>3. GetRealOid(id) = reals[i] /\ Library(id) = a
      BY <3>2 DEF GetRealOid, Library, GetMapping
    <3> QED
      BY <3>1, <3>2, <3>3 DEF Library
  <2>4. DOMAIN Get(o).ids = DOMAIN reals
    BY <2>1
  <2> QED
    BY <2>3, <2>4
<1> QED
  BY <1>1, SameTables, InductiveInvariant, PTL

\* A library that reports only its live objects is always understood, unless
\* one of them was orphaned at the allocator's limit.
THEOREM Answered == AttrSpec => []LiveReportsAnswered
<1>1. IInv => LiveReportsAnswered
  <2> SUFFICES ASSUME IInv, Orphans = {}, NEW o \in DOMAIN map,
                      NEW t, t = GetMapping(o),
                      \A i \in DOMAIN Reported(t) : Reported(t)[i] \in DOMAIN real[t.adapter]
               PROVE  Get(o).status = "SUCCESS"
    BY DEF LiveReportsAnswered
  <2>1. t \in Targets /\ t.adapter \in Adapters
    BY DEF GetMapping, IInv, TypeOK, IsMap, Targets
  <2>2. ASSUME NEW i \in DOMAIN Reported(t)
        PROVE  Backward(Reported(t)[i], t.adapter) # NullOid
    <3>1. PICK r : r = Reported(t)[i]
      OBVIOUS
    <3>2. r \in DOMAIN real[t.adapter] /\ r \in RealIds
      BY <2>1, <3>1 DEF IInv, TypeOK, IsMap
    <3>3. PICK target \in Targets : target = [real |-> r, adapter |-> t.adapter]
      BY <2>1, <3>2 DEF Targets
    <3>4. PICK p \in DOMAIN map : map[p] = target
      BY <3>2, <3>3 DEF Orphans
    <3> QED
      BY <3>1, <3>3, <3>4, BackwardFinds
  <2> QED
    BY <2>2 DEF Get, Convertible
<1> QED
  BY <1>1, SameTables, InductiveInvariant, PTL

-----------------------------------------------------------------------------
(* What is set is read back.                                               *)

\* An attribute that was set and not disturbed since holds the real ids of the
\* objects that its ids stand for, and all of them are there.
Written ==
  FreshRealIds =>
    \A o \in DOMAIN wrote :
      /\ o \in DOMAIN map
      /\ wrote[o] = [i \in DOMAIN wrote[o] |-> wrote[o][i]]
      /\ \A i \in DOMAIN wrote[o] : wrote[o][i] \in DOMAIN map
      /\ map[o] \in DOMAIN stored
      /\ stored[map[o]] = [i \in DOMAIN wrote[o] |-> map[wrote[o][i]].real]

AttrInv == IInv /\ Written

\* Ids that are set all stand for something.
LEMMA SetIsForwarded ==
  ASSUME NEW o, NEW ids \in IdLists(Oids \cup {NullOid}),
         \A i \in DOMAIN ids : Forward(ids[i]) # NoReal
  PROVE  /\ ids = [i \in DOMAIN ids |-> ids[i]]
         /\ \A i \in DOMAIN ids : ids[i] \in DOMAIN map /\ Forward(ids[i]) = map[ids[i]].real
<1>1. \A i \in DOMAIN ids : ids[i] \in DOMAIN map /\ Forward(ids[i]) = map[ids[i]].real
  BY DEF Forward, GetMapping
<1>2. PICK n \in 0 .. MaxIds : ids \in [1 .. n -> Oids \cup {NullOid}]
  BY DEF IdLists
<1> QED
  BY <1>1, <1>2

\* As long as their objects stay and no value is disturbed, written values
\* stay, whatever ids are added.
LEMMA WrittenKept ==
  ASSUME Written,
         DOMAIN wrote' \subseteq DOMAIN wrote,
         FreshRealIds => \A o \in DOMAIN wrote' :
           /\ wrote'[o] = wrote[o]
           /\ o \in DOMAIN map' /\ map'[o] = map[o]
           /\ \A i \in DOMAIN wrote[o] :
                wrote[o][i] \in DOMAIN map' /\ map'[wrote[o][i]] = map[wrote[o][i]]
           /\ map[o] \in DOMAIN stored' /\ stored'[map[o]] = stored[map[o]]
  PROVE  Written'
<1> SUFFICES ASSUME FreshRealIds, NEW o \in DOMAIN wrote'
             PROVE  /\ o \in DOMAIN map'
                    /\ wrote'[o] = [i \in DOMAIN wrote'[o] |-> wrote'[o][i]]
                    /\ \A i \in DOMAIN wrote'[o] : wrote'[o][i] \in DOMAIN map'
                    /\ map'[o] \in DOMAIN stored'
                    /\ stored'[map'[o]] = [i \in DOMAIN wrote'[o] |-> map'[wrote'[o][i]].real]
  BY DEF Written
<1>1. PICK w : w = wrote[o]
  OBVIOUS
<1>2. /\ wrote'[o] = w /\ w = [i \in DOMAIN w |-> w[i]]
      /\ map'[o] = map[o] /\ stored'[map[o]] = stored[map[o]]
      /\ stored[map[o]] = [i \in DOMAIN w |-> map[w[i]].real]
      /\ \A i \in DOMAIN w : w[i] \in DOMAIN map' /\ map'[w[i]] = map[w[i]]
      /\ o \in DOMAIN map' /\ map[o] \in DOMAIN stored'
  BY <1>1 DEF Written
<1>3. [i \in DOMAIN w |-> map[w[i]].real] = [i \in DOMAIN w |-> map'[w[i]].real]
  BY <1>2
<1> QED
  BY <1>2, <1>3

\* A create adds ids and changes none.
LEMMA MapGrows ==
  ASSUME IInv, NEW type \in ObjectTypes, NEW a \in Adapters,
         NEW parent \in RealIds \cup {NoReal}, NEW module \in Oids \cup {NullOid},
         Instantiate(type, a, parent, module)
  PROVE  DOMAIN map \subseteq DOMAIN map' /\ \A o \in DOMAIN map : map'[o] = map[o]
<1>1. PICK r \in RealIds : NoIdLeft \/ \E n \in Oids : Enters(n, type, a, r, module)
  BY InstantiateEffect
<1>2. CASE NoIdLeft
  BY <1>2 DEF NoIdLeft
<1>3. ASSUME NEW n \in Oids, Enters(n, type, a, r, module)
      PROVE  DOMAIN map \subseteq DOMAIN map' /\ \A o \in DOMAIN map : map'[o] = map[o]
  BY <1>3 DEF Enters, Put
<1> QED
  BY <1>1, <1>2, <1>3

\* An object is removed: what named it, or was stored with it, is forgotten.
LEMMA RemoveObjectWritten ==
  ASSUME AttrInv, NEW o \in Oids, RemoveObject(o)
  PROVE  Written'
<1> USE DEF AttrInv
<1>1. /\ o \in DOMAIN map /\ map' = Erase(map, o)
      /\ stored' = Erase(stored, map[o])
      /\ wrote' = [p \in {q \in DOMAIN wrote \ {o} :
                            \A i \in DOMAIN wrote[q] : wrote[q][i] # o} |-> wrote[p]]
  BY RemoveEffect DEF RemoveObject, GetMapping
<1>2. /\ DOMAIN map' = DOMAIN map \ {o}
      /\ \A p \in DOMAIN map' : map'[p] = map[p]
  BY <1>1 DEF Erase
<1>3. /\ DOMAIN stored' = DOMAIN stored \ {map[o]}
      /\ \A t \in DOMAIN stored' : stored'[t] = stored[t]
  BY <1>1 DEF Erase
<1>4. DOMAIN wrote' \subseteq DOMAIN wrote /\ \A p \in DOMAIN wrote' : wrote'[p] = wrote[p]
  BY <1>1
<1>5. ASSUME FreshRealIds, NEW p \in DOMAIN wrote'
      PROVE  /\ p \in DOMAIN map'
             /\ \A i \in DOMAIN wrote[p] : wrote[p][i] \in DOMAIN map'
             /\ map[p] \in DOMAIN stored'
  <2>1. p # o /\ \A i \in DOMAIN wrote[p] : wrote[p][i] # o
    BY <1>1
  <2>2. /\ p \in DOMAIN map /\ map[p] \in DOMAIN stored
        /\ \A i \in DOMAIN wrote[p] : wrote[p][i] \in DOMAIN map
    BY <1>4, <1>5 DEF Written
  <2>3. map[p] # map[o]
    BY <1>1, <1>5, <2>1, <2>2 DEF IInv, UniqueIds
  <2> QED
    BY <1>2, <1>3, <2>1, <2>2, <2>3
<1> QED
  BY <1>2, <1>3, <1>4, <1>5, WrittenKept

\* An attribute's value is replaced in the library, by the caller or not: what
\* was written through another id lies with another real object.
LEMMA StoreWritten ==
  ASSUME AttrInv, UNCHANGED map, NEW t, NEW reals,
         stored' = Put(stored, t, reals),
         DOMAIN wrote' \subseteq DOMAIN wrote,
         \A p \in DOMAIN wrote' : wrote'[p] = wrote[p] /\ (FreshRealIds => map[p] # t)
  PROVE  Written'
<1>1. /\ DOMAIN stored \subseteq DOMAIN stored'
      /\ \A u \in DOMAIN stored : u # t => stored'[u] = stored[u]
  BY DEF Put
<1>2. ASSUME FreshRealIds, NEW p \in DOMAIN wrote'
      PROVE  /\ p \in DOMAIN map
             /\ \A i \in DOMAIN wrote[p] : wrote[p][i] \in DOMAIN map
             /\ map[p] \in DOMAIN stored' /\ stored'[map[p]] = stored[map[p]]
  BY <1>1, <1>2 DEF AttrInv, Written
<1> QED
  BY <1>2, WrittenKept DEF AttrInv

\* A set that the library takes is what the caller has written.
LEMMA SetWritten ==
  ASSUME AttrInv, NEW o \in Oids, NEW ids \in IdLists(Oids \cup {NullOid}), Set(o, ids)
  PROVE  Written'
<1> USE DEF AttrInv
<1>1. /\ o \in DOMAIN map /\ map' = map
      /\ \A i \in DOMAIN ids : Forward(ids[i]) # NoReal
      /\ stored' = Put(stored, map[o], [i \in DOMAIN ids |-> Forward(ids[i])])
      /\ wrote' = Put(wrote, o, ids)
  BY DEF Set, vars, GetMapping
<1>2. /\ ids = [i \in DOMAIN ids |-> ids[i]]
      /\ \A i \in DOMAIN ids : ids[i] \in DOMAIN map /\ Forward(ids[i]) = map[ids[i]].real
  BY <1>1, SetIsForwarded
<1>3. /\ wrote'[o] = ids
      /\ DOMAIN wrote' = DOMAIN wrote \cup {o}
      /\ \A p \in DOMAIN wrote' \ {o} : wrote'[p] = wrote[p]
  BY <1>1 DEF Put
<1>4. /\ DOMAIN stored' = DOMAIN stored \cup {map[o]}
      /\ stored'[map[o]] = [i \in DOMAIN ids |-> map[ids[i]].real]
      /\ \A u \in DOMAIN stored : u # map[o] => stored'[u] = stored[u]
  <2>1. [i \in DOMAIN ids |-> Forward(ids[i])] = [i \in DOMAIN ids |-> map[ids[i]].real]
    BY <1>2
  <2> QED
    BY <1>1, <2>1 DEF Put
<1> SUFFICES ASSUME FreshRealIds, NEW p \in DOMAIN wrote'
             PROVE  /\ p \in DOMAIN map
                    /\ wrote'[p] = [i \in DOMAIN wrote'[p] |-> wrote'[p][i]]
                    /\ \A i \in DOMAIN wrote'[p] : wrote'[p][i] \in DOMAIN map
                    /\ map[p] \in DOMAIN stored'
                    /\ stored'[map[p]] = [i \in DOMAIN wrote'[p] |-> map[wrote'[p][i]].real]
  BY <1>1 DEF Written
<1>5. CASE p = o
  BY <1>1, <1>2, <1>3, <1>4, <1>5
<1>6. CASE p # o
  <2>1. p \in DOMAIN wrote /\ wrote'[p] = wrote[p]
    BY <1>3, <1>6
  <2>2. PICK w : w = wrote[p]
    OBVIOUS
  <2>3. /\ p \in DOMAIN map /\ map[p] \in DOMAIN stored
        /\ w = [i \in DOMAIN w |-> w[i]] /\ \A i \in DOMAIN w : w[i] \in DOMAIN map
        /\ stored[map[p]] = [i \in DOMAIN w |-> map[w[i]].real]
    BY <2>1, <2>2 DEF Written
  <2>4. map[p] # map[o]
    BY <1>1, <1>6, <2>3 DEF IInv, UniqueIds
  <2> QED
    BY <1>4, <2>1, <2>2, <2>3, <2>4
<1> QED
  BY <1>5, <1>6

\* Every step of the composition keeps the invariant.
LEMMA AttrNextInv ==
  ASSUME AttrInv, [AttrNext]_attributeVars
  PROVE  AttrInv'
<1> USE DEF AttrInv
<1>1. IInv'
  BY PlatformStep, NextIInv
<1>2. ASSUME UNCHANGED attrVars, DOMAIN map \subseteq DOMAIN map',
             \A o \in DOMAIN map : map'[o] = map[o]
      PROVE  Written'
  <2>1. stored' = stored /\ wrote' = wrote
    BY <1>2 DEF attrVars
  <2> QED
    BY <1>2, <2>1, WrittenKept DEF Written
<1>3. ASSUME CreateModule, UNCHANGED attrVars
      PROVE  Written'
  <2>1. PICK a \in Adapters : Instantiate("MODULE", a, NoReal, NullOid)
    BY <1>3 DEF CreateModule
  <2>2. "MODULE" \in ObjectTypes /\ NoReal \in RealIds \cup {NoReal}
    BY DEF ObjectTypes
  <2>3. DOMAIN map \subseteq DOMAIN map' /\ \A o \in DOMAIN map : map'[o] = map[o]
    BY <2>1, <2>2, MapGrows
  <2> QED
    BY <1>2, <1>3, <2>3
<1>4. ASSUME NEW id \in Oids \cup {NullOid}, CreateInterface(id), UNCHANGED attrVars
      PROVE  Written'
  <2>1. id \in DOMAIN objects
    BY <1>4 DEF CreateInterface
  <2>2. objects[id] \in Objects
    BY <2>1 DEF IInv, TypeOK, IsMap
  <2>3. objects[id].adapter \in Adapters /\ objects[id].real \in RealIds
    BY <2>2 DEF Objects
  <2>4. PICK type \in InterfaceTypes :
          Instantiate(type, objects[id].adapter, objects[id].real, id)
    BY <1>4 DEF CreateInterface
  <2>5. DOMAIN map \subseteq DOMAIN map' /\ \A o \in DOMAIN map : map'[o] = map[o]
    BY <2>3, <2>4, MapGrows DEF ObjectTypes
  <2> QED
    BY <1>2, <1>4, <2>5
<1>5. CASE /\ \/ CreateModuleRefused
              \/ CreateUnknownType
              \/ \E id \in Oids \cup {NullOid} : CreateInterfaceRefused(id) \/ RemoveRefused(id)
           /\ UNCHANGED attrVars
  <2>1. map' = map
    BY <1>5 DEF CreateModuleRefused, CreateUnknownType, CreateInterfaceRefused, RemoveRefused
  <2>2. DOMAIN map \subseteq DOMAIN map' /\ \A o \in DOMAIN map : map'[o] = map[o]
    BY <2>1
  <2> QED
    BY <1>1, <1>2, <1>5, <2>2
<1>6. ASSUME NEW o \in Oids, RemoveObject(o)
      PROVE  Written'
  BY <1>6, RemoveObjectWritten
<1>7. ASSUME NEW o \in Oids, NEW ids \in IdLists(Oids \cup {NullOid}), Set(o, ids)
      PROVE  Written'
  BY <1>7, SetWritten
<1>8. ASSUME NEW o \in Oids, NEW ids \in IdLists(Oids \cup {NullOid}), SetRefused(o, ids)
      PROVE  Written'
  <2>1. /\ o \in DOMAIN map /\ map' = map
        /\ stored' = Put(stored, map[o], [i \in DOMAIN ids |-> Forward(ids[i])])
        /\ wrote' = Erase(wrote, o)
    BY <1>8 DEF SetRefused, Forget, vars, GetMapping
  <2>2. /\ DOMAIN wrote' \subseteq DOMAIN wrote
        /\ \A p \in DOMAIN wrote' : wrote'[p] = wrote[p] /\ p # o
    BY <2>1 DEF Erase
  <2>3. ASSUME FreshRealIds, NEW p \in DOMAIN wrote'
        PROVE  map[p] # map[o]
    BY <2>1, <2>2, <2>3 DEF Written, IInv, UniqueIds
  <2> QED
    BY <2>1, <2>2, <2>3, StoreWritten
<1>9. ASSUME NEW t \in Targets, NEW reals \in RealLists, LibraryChanges(t, reals)
      PROVE  Written'
  <2>1. /\ map' = map /\ stored' = Put(stored, t, reals)
        /\ wrote' = [o \in {p \in DOMAIN wrote : map[p] # t} |-> wrote[o]]
    BY <1>9 DEF LibraryChanges, vars
  <2>2. /\ DOMAIN wrote' \subseteq DOMAIN wrote
        /\ \A p \in DOMAIN wrote' : wrote'[p] = wrote[p] /\ map[p] # t
    BY <2>1
  <2> QED
    BY <2>1, <2>2, StoreWritten
<1>10. CASE UNCHANGED attributeVars
  <2>1. map' = map /\ UNCHANGED attrVars
    BY <1>10 DEF attributeVars, vars, attrVars
  <2>2. DOMAIN map \subseteq DOMAIN map' /\ \A o \in DOMAIN map : map'[o] = map[o]
    BY <2>1
  <2> QED
    BY <1>1, <1>2, <2>1, <2>2
<1> QED
  BY <1>1, <1>3, <1>4, <1>5, <1>6, <1>7, <1>8, <1>9, <1>10 DEF AttrNext

\* Every state of the composition satisfies the inductive invariant: the ids
\* that an attribute was set to and that nothing has disturbed since are, in its
\* library, the real ids they stand for.
THEOREM AttrInvariance == AttrSpec => []AttrInv
<1>1. AttrInit => AttrInv
  BY InitIInv DEF AttrInit, AttrInv, Written
<1>2. AttrInv /\ [AttrNext]_attributeVars => AttrInv'
  BY AttrNextInv
<1> QED
  BY <1>1, <1>2, PTL DEF AttrSpec, attributeVars

\* Ids of one library set in an attribute are read back as they were set, for
\* as long as none of the objects is removed, though real ids are reused in
\* the library, and ids by the allocator.
THEOREM SetIsRead == AttrSpec => []ReadsBack
<1>1. AttrInv => ReadsBack
  <2> SUFFICES ASSUME AttrInv, FreshRealIds, NEW o \in DOMAIN wrote,
                      \A i \in DOMAIN wrote[o] : Library(wrote[o][i]) = Library(o)
               PROVE  Get(o) = [status |-> "SUCCESS", ids |-> wrote[o]]
    BY DEF ReadsBack
  <2> USE DEF AttrInv
  <2>1. PICK w, reals : w = wrote[o] /\ reals = Reported(GetMapping(o))
    OBVIOUS
  <2>2. /\ o \in DOMAIN map /\ w = [i \in DOMAIN w |-> w[i]]
        /\ \A i \in DOMAIN w : w[i] \in DOMAIN map
        /\ reals = [i \in DOMAIN w |-> map[w[i]].real]
    BY <2>1 DEF Written, Reported, GetMapping
  <2>3. ASSUME NEW i \in DOMAIN reals
        PROVE  Backward(reals[i], GetMapping(o).adapter) = w[i] /\ w[i] # NullOid
    <3>1. w[i] \in DOMAIN map /\ reals[i] = map[w[i]].real
      BY <2>2
    <3>2. GetMapping(o).adapter = map[w[i]].adapter
      BY <2>1, <2>2 DEF Library, GetMapping
    <3>3. ReverseMapping(map[w[i]].real, map[w[i]].adapter) = w[i]
      BY <3>1, ReverseIsOwn
    <3>4. w[i] # NullOid
      BY <3>1, MaxOidAssumption DEF IInv, TypeOK, IsMap, Oids, NullOid
    <3> QED
      BY <3>1, <3>2, <3>3, <3>4 DEF Backward
  <2>4. Convertible(reals, GetMapping(o).adapter)
    BY <2>3 DEF Convertible
  <2>5. [i \in DOMAIN reals |-> Backward(reals[i], GetMapping(o).adapter)] = w
    <3>1. DOMAIN reals = DOMAIN w
      BY <2>2
    <3>2. [i \in DOMAIN w |-> Backward(reals[i], GetMapping(o).adapter)] = [i \in DOMAIN w |-> w[i]]
      BY <2>3, <3>1
    <3> QED
      BY <2>2, <3>1, <3>2
  <2> QED
    BY <2>1, <2>4, <2>5 DEF Get
<1> QED
  BY <1>1, AttrInvariance, PTL
=============================================================================
