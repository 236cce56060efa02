--------------------------- MODULE MuxNotifyProofs ---------------------------
(***************************************************************************)
(* Proofs about MuxNotify, for any number of ids, attributes, handlers,    *)
(* objects and contexts, and lists of any length.  What the checked        *)
(* invariants need beside each other is said in five parts: no two ids are *)
(* one object, a context names the id of its key, what a call that is      *)
(* under way has done so far, the contexts it may still allocate, and      *)
(* which key a running callback works for.                                 *)
(***************************************************************************)
EXTENDS MuxNotify, SequenceTheorems, TLAPS

ApiRecords ==
  [pc : {"idle", "convert", "library", "cleanup", "remove"}, oid : Oids \cup {0},
   list : Lists, next : Nat \ {0}, waits : SUBSET Attrs, ok : BOOLEAN]

CbRecords ==
  [pc : {"idle", "entered", "converted", "delivering", "stray"},
   context : Nat \cup {NoContext}, object : Nat, attr : Attrs \cup {NoHandler}]

Records == api \in ApiRecords /\ cb \in CbRecords /\ drains \in BOOLEAN

\* No object has two ids.
ObjectsUnshared == \A o, p \in DOMAIN map : map[o] = map[p] => o = p

\* convert_oid fills in the id of the key it stores the context under.
ContextNamesKey == \A k \in DOMAIN nmap : ctx[nmap[k]].oid = k[1]

\* The first n entries of the list have the contexts they need.
HaveContexts(n) ==
  \A i \in 1 .. n : api.list[i].handler # NoHandler =>
                      <<api.oid, api.list[i].attr>> \in DOMAIN nmap

\* The library holds no handler for the attribute of the call's object.
NotHeld(at) == <<map[api.oid], at>> \notin DOMAIN sub

\* A call that has begun: its id stays mapped, since only the API thread takes
\* ids away; handlers it has converted have a context; what the library waits
\* for it has disabled; and what its entries have left without a handler so
\* far is disabled and, with a draining library, no longer running.
CallUnderWay ==
  /\ api.next <= Len(api.list) + 1
  /\ api.pc # "idle" => api.oid \in DOMAIN map
  /\ api.pc = "convert" => api.ok /\ api.waits = {} /\ HaveContexts(api.next - 1)
  /\ api.pc = "library" => HaveContexts(Len(api.list))
  /\ api.pc \in {"library", "remove"} => \A at \in api.waits : NotHeld(at)
  /\ api.pc = "library" /\ api.ok =>
       \A at \in LeftOff(api.next - 1) :
         /\ NotHeld(at)
         /\ drains /\ at \notin api.waits => ~InFlight(map[api.oid], {at})
  /\ api.pc = "cleanup" =>
       \A at \in LeftOff(Len(api.list)) :
         NotHeld(at) /\ (drains => ~InFlight(map[api.oid], {at}))
  /\ api.pc = "remove" => api.waits = Attrs

\* The bound on contexts suffices for what is still to be converted.
ContextsLeft ==
  api.pc = "convert" => contexts + (Len(api.list) + 1 - api.next) <= MaxContexts

\* A callback has a context that was allocated once, and an attribute; with
\* draining libraries it is still the one of the key of a live object, or was
\* freed by a list that had filled it again.
CallbackBacked ==
  cb.pc # "idle" =>
    /\ cb.attr \in Attrs
    /\ cb.context \in 1 .. contexts
    /\ drains => \/ cb.context \in refilled
                 \/ \E o \in DOMAIN map :
                      /\ map[o] = cb.object
                      /\ <<o, cb.attr>> \in DOMAIN nmap
                      /\ nmap[<<o, cb.attr>>] = cb.context

IInv ==
  /\ TypeOK
  /\ Records
  /\ ObjectsUnshared
  /\ ContextNamesKey
  /\ ContextsUnshared
  /\ SubscriptionsBacked
  /\ CallUnderWay
  /\ ContextsLeft
  /\ CallbackBacked

-----------------------------------------------------------------------------
(* Lists and records.                                                      *)

\* The length and the entries of a list that a call may be given.
LEMMA ListFacts ==
  ASSUME NEW list \in Lists
  PROVE  /\ Len(list) \in 0 .. MaxList /\ Len(list) \in Nat
         /\ \A i \in 1 .. Len(list) : /\ list[i].attr \in Attrs
                                      /\ list[i].handler \in Handlers \cup {NoHandler}
<1>1. PICK n \in 0 .. MaxList : list \in [1 .. n -> Entries]
  BY DEF Lists
<1>2. n \in Nat
  BY NotifyAssumption
<1>3. list \in Seq(Entries)
  BY <1>1, <1>2, SeqDef
<1>4. Len(list) = n
  BY <1>1, <1>2, <1>3, LenProperties
<1> QED
  BY <1>1, <1>2, <1>4, NotifyAssumption DEF Entries

\* The record of an idle API thread.
LEMMA IdleRecord ==
  /\ ApiIdle \in ApiRecords
  /\ ApiIdle.pc = "idle" /\ ApiIdle.list = <<>> /\ ApiIdle.next = 1 /\ Len(ApiIdle.list) = 0
<1>1. <<>> \in [1 .. 0 -> Entries] /\ 0 \in 0 .. MaxList
  BY NotifyAssumption
<1>2. <<>> \in Lists
  BY <1>1 DEF Lists
<1> QED
  BY <1>2 DEF ApiIdle, ApiRecords

\* What is known of a call that is at an entry of its list.
LEMMA EntryFacts ==
  ASSUME IInv
  PROVE  /\ Len(api.list) \in Nat /\ api.next \in Nat \ {0} /\ api.next <= Len(api.list) + 1
         /\ api.next <= Len(api.list) =>
              /\ Entry.attr \in Attrs /\ Entry.handler \in Handlers \cup {NoHandler}
              /\ api.next \in 1 .. Len(api.list)
<1>1. api.list \in Lists /\ api.next \in Nat \ {0} /\ api.next <= Len(api.list) + 1
  BY DEF IInv, Records, ApiRecords, CallUnderWay
<1> QED
  BY <1>1, ListFacts DEF Entry

\* One more entry: a null one adds its attribute to those without a handler,
\* any other takes it away.
LEMMA NextLeftOff ==
  ASSUME NEW n \in Nat \ {0}, NEW at \in LeftOff(n)
  PROVE  \/ at = api.list[n].attr /\ api.list[n].handler = NoHandler
         \/ at \in LeftOff(n - 1) /\ at # api.list[n].attr
<1>1. PICK i \in 1 .. n :
        /\ api.list[i].attr = at /\ api.list[i].handler = NoHandler
        /\ \A j \in i + 1 .. n : api.list[j].attr # at
  BY DEF LeftOff
<1>2. CASE i = n
  BY <1>1, <1>2
<1>3. CASE i # n
  <2>1. i \in 1 .. n - 1 /\ n \in i + 1 .. n /\ i + 1 .. n - 1 \subseteq i + 1 .. n
    BY <1>3
  <2>2. at \in Attrs
    BY DEF LeftOff
  <2> QED
    BY <1>1, <2>1, <2>2 DEF LeftOff
<1> QED
  BY <1>2, <1>3

\* A step of the API thread that keeps the list keeps what it leaves off.
LEMMA SameList ==
  ASSUME api'.list = api.list
  PROVE  \A n \in Nat : LeftOff(n)' = LeftOff(n)
BY DEF LeftOff

-----------------------------------------------------------------------------
(* The API thread.                                                         *)

\* No subscription at first.
LEMMA InitIInv == Init => IInv
<1> SUFFICES ASSUME Init PROVE IInv
  OBVIOUS
<1>1. /\ DOMAIN map = {} /\ DOMAIN nmap = {} /\ DOMAIN ctx = {} /\ DOMAIN sub = {}
      /\ objects = 0 /\ contexts = 0 /\ locked = {} /\ refilled = {} /\ drains \in BOOLEAN
      /\ api = ApiIdle /\ cb.pc = "idle"
  BY DEF Init, CbIdle
<1>2. TypeOK
  BY <1>1, NotifyAssumption DEF TypeOK
<1>3. Records
  BY <1>1, IdleRecord DEF Init, CbIdle, Records, CbRecords
<1>4. CallUnderWay /\ ContextsLeft
  BY <1>1, IdleRecord DEF CallUnderWay, ContextsLeft
<1> QED
  BY <1>1, <1>2, <1>3, <1>4 DEF IInv, ObjectsUnshared, ContextNamesKey, ContextsUnshared,
     SubscriptionsBacked, CallbackBacked

\* A step that only moves the API thread on.
LEMMA TablesSame ==
  ASSUME IInv,
         UNCHANGED <<drains, map, nmap, ctx, locked, sub, refilled, cb, objects, contexts>>
  PROVE  /\ TypeOK' /\ ObjectsUnshared' /\ ContextNamesKey' /\ ContextsUnshared'
         /\ SubscriptionsBacked' /\ CallbackBacked'
<1> USE DEF IInv
<1>1. TypeOK'
  BY DEF TypeOK
<1>2. ObjectsUnshared' /\ ContextNamesKey' /\ ContextsUnshared'
  BY DEF ObjectsUnshared, ContextNamesKey, ContextsUnshared
<1>3. SubscriptionsBacked'
  BY DEF SubscriptionsBacked
<1>4. CallbackBacked'
  BY DEF CallbackBacked
<1> QED
  BY <1>1, <1>2, <1>3, <1>4

\* When a call is over, whatever became of it, the tables are as they were.
LEMMA ApiEndsIInv ==
  ASSUME IInv, api' = ApiIdle,
         UNCHANGED <<drains, map, nmap, ctx, locked, sub, refilled, cb, objects, contexts>>
  PROVE  IInv'
<1> USE DEF IInv
<1>1. TypeOK' /\ ObjectsUnshared' /\ ContextNamesKey' /\ ContextsUnshared'
      /\ SubscriptionsBacked' /\ CallbackBacked'
  BY TablesSame
<1> QED
  BY <1>1, IdleRecord DEF Records, CallUnderWay, ContextsLeft

\* A call begins with nothing converted.
LEMMA SetBeginIInv ==
  ASSUME IInv, NEW o \in Oids, NEW list \in Lists, SetBegin(o, list)
  PROVE  IInv'
<1> USE DEF IInv
<1>1. /\ api' = [ApiIdle EXCEPT !.pc = "convert", !.oid = o, !.list = list]
      /\ o \in DOMAIN map
      /\ contexts + Len(list) <= MaxContexts
      /\ UNCHANGED <<drains, map, nmap, ctx, locked, sub, refilled, cb, objects, contexts>>
  BY DEF SetBegin
<1>2. /\ api'.pc = "convert" /\ api'.oid = o /\ api'.list = list /\ api'.next = 1
      /\ api'.ok /\ api'.waits = {} /\ api' \in ApiRecords
  BY <1>1, IdleRecord DEF ApiIdle, ApiRecords
<1>3. TypeOK' /\ ObjectsUnshared' /\ ContextNamesKey' /\ ContextsUnshared'
      /\ SubscriptionsBacked' /\ CallbackBacked'
  BY <1>1, TablesSame
<1>4. Records'
  BY <1>1, <1>2 DEF Records
<1>5. Len(list) \in Nat /\ contexts \in Nat
  BY ListFacts DEF TypeOK
<1>6. CallUnderWay'
  BY <1>1, <1>2, <1>5 DEF CallUnderWay, HaveContexts
<1>7. ContextsLeft'
  BY <1>1, <1>2, <1>5 DEF ContextsLeft
<1> QED
  BY <1>3, <1>4, <1>6, <1>7


\* An entry that disables a callback needs no context.
LEMMA ConvertNullIInv ==
  ASSUME IInv, ConvertNull
  PROVE  IInv'
<1> USE DEF IInv
<1>1. /\ api.pc = "convert" /\ api.next <= Len(api.list) /\ Entry.handler = NoHandler
      /\ api' = [api EXCEPT !.next = @ + 1]
      /\ UNCHANGED <<drains, map, nmap, ctx, locked, sub, refilled, cb, objects, contexts>>
  BY DEF ConvertNull, AtEntry
<1>2. /\ Len(api.list) \in Nat /\ api.next \in Nat \ {0} /\ api.next <= Len(api.list) + 1
      /\ contexts \in Nat /\ api \in ApiRecords
  BY EntryFacts DEF TypeOK, Records
<1>3. /\ api'.pc = "convert" /\ api'.oid = api.oid /\ api'.list = api.list
      /\ api'.next = api.next + 1 /\ api'.ok = api.ok
      /\ api'.waits = api.waits /\ api' \in ApiRecords
  BY <1>1, <1>2 DEF ApiRecords
<1>4. TypeOK' /\ ObjectsUnshared' /\ ContextNamesKey' /\ ContextsUnshared'
      /\ SubscriptionsBacked' /\ CallbackBacked'
  BY <1>1, TablesSame
<1>5. Records'
  BY <1>1, <1>3 DEF Records
<1>6. CallUnderWay'
  <2>1. ASSUME NEW i \in 1 .. api.next, api.list[i].handler # NoHandler
        PROVE  <<api.oid, api.list[i].attr>> \in DOMAIN nmap
    <3>1. i \in 1 .. api.next - 1
      BY <1>1, <1>2, <2>1 DEF Entry
    <3> QED
      BY <1>1, <2>1, <3>1 DEF CallUnderWay, HaveContexts
  <2>2. (HaveContexts(api.next - 1))'
    BY <1>1, <1>2, <1>3, <2>1 DEF HaveContexts
  <2> QED
    BY <1>1, <1>2, <1>3, <2>2 DEF CallUnderWay
<1>7. ContextsLeft'
  BY <1>1, <1>2, <1>3, NotifyAssumption DEF ContextsLeft
<1> QED
  BY <1>4, <1>5, <1>6, <1>7

\* convert_oid stores a context for one key.  Every other key keeps its own,
\* since the context is either the key's or one that was never allocated.
LEMMA ConvertHandlerIInv ==
  ASSUME IInv, ConvertHandler
  PROVE  IInv'
<1> USE DEF IInv
<1> DEFINE key == <<api.oid, Entry.attr>>
           c == IF key \in DOMAIN nmap THEN nmap[key] ELSE contexts + 1
           v == [handler |-> Entry.handler, oid |-> api.oid]
<1>1. /\ api.pc = "convert" /\ api.next <= Len(api.list) /\ Entry.handler # NoHandler
      /\ nmap' = Put(nmap, key, c) /\ ctx' = Put(ctx, c, v)
      /\ contexts' = IF key \in DOMAIN nmap THEN contexts ELSE c
      /\ api' = [api EXCEPT !.next = @ + 1]
      /\ UNCHANGED <<drains, map, locked, sub, refilled, cb, objects>>
  BY DEF ConvertHandler, AtEntry
<1>2. /\ Len(api.list) \in Nat /\ api.next \in Nat \ {0} /\ api.next <= Len(api.list) + 1
      /\ Entry.attr \in Attrs /\ Entry.handler \in Handlers
      /\ contexts \in Nat /\ api \in ApiRecords
  BY <1>1, EntryFacts DEF TypeOK, Records
<1>3. /\ api.oid \in DOMAIN map /\ api.oid \in Oids /\ key \in Oids \X Attrs
      /\ key[1] = api.oid
  BY <1>1, <1>2 DEF CallUnderWay, TypeOK
<1>4. /\ api'.pc = "convert" /\ api'.oid = api.oid /\ api'.list = api.list
      /\ api'.next = api.next + 1 /\ api'.ok = api.ok
      /\ api'.waits = api.waits /\ api' \in ApiRecords
  BY <1>1, <1>2 DEF ApiRecords
<1>5. v \in [handler : Handlers, oid : Oids] /\ v.oid = api.oid
  BY <1>2, <1>3
<1>6. /\ contexts \in Nat /\ contexts' \in Nat /\ contexts <= contexts' /\ c \in 1 .. contexts'
      /\ \A k \in DOMAIN nmap : k # key => nmap[k] # c
      /\ key \notin DOMAIN nmap => c \notin DOMAIN ctx
      /\ contexts' <= contexts + 1
  BY <1>1 DEF TypeOK, ContextsUnshared
<1> HIDE DEF v
<1>7. key \in DOMAIN nmap => nmap[key] = c
  OBVIOUS
<1> HIDE DEF c
<1> HIDE DEF key
<1>8. /\ DOMAIN nmap' = DOMAIN nmap \cup {key} /\ nmap'[key] = c
      /\ \A k \in DOMAIN nmap : nmap'[k] = nmap[k]
      /\ DOMAIN ctx' = DOMAIN ctx \cup {c} /\ ctx'[c] = v
      /\ \A x \in DOMAIN ctx : x # c => ctx'[x] = ctx[x]
  BY <1>1, <1>7 DEF Put
<1>9. TypeOK'
  <2>1. contexts' \in 0 .. MaxContexts
    BY <1>1, <1>2, <1>6, NotifyAssumption DEF ContextsLeft
  <2>2. /\ DOMAIN ctx' \subseteq 1 .. contexts' /\ locked' \subseteq 1 .. contexts'
        /\ refilled' \subseteq 1 .. contexts'
    BY <1>1, <1>6, <1>8 DEF TypeOK
  <2>3. \A x \in DOMAIN ctx' : ctx'[x] \in [handler : Handlers, oid : Oids]
    BY <1>5, <1>8 DEF TypeOK
  <2>4. DOMAIN nmap' \subseteq Oids \X Attrs
    BY <1>3, <1>8 DEF TypeOK
  <2>5. \A k \in DOMAIN nmap' : nmap'[k] \in DOMAIN ctx'
    BY <1>8 DEF TypeOK
  <2> QED
    BY <1>1, <2>1, <2>2, <2>3, <2>4, <2>5 DEF TypeOK
<1>10. Records'
  BY <1>1, <1>4 DEF Records
<1>11. ObjectsUnshared'
  BY <1>1 DEF ObjectsUnshared
<1>12. ContextNamesKey'
  BY <1>3, <1>5, <1>6, <1>8 DEF ContextNamesKey, TypeOK
<1>13. ContextsUnshared'
  BY <1>6, <1>8 DEF ContextsUnshared
<1>14. SubscriptionsBacked'
  <2> SUFFICES ASSUME NEW k \in DOMAIN sub, sub[k] \notin refilled
               PROVE  \E o \in DOMAIN map :
                        /\ map[o] = k[1]
                        /\ <<o, k[2]>> \in DOMAIN nmap'
                        /\ nmap'[<<o, k[2]>>] = sub[k]
                        /\ ctx'[sub[k]].oid = o
    BY <1>1 DEF SubscriptionsBacked
  <2>1. PICK o \in DOMAIN map : /\ map[o] = k[1]
                                /\ <<o, k[2]>> \in DOMAIN nmap
                                /\ nmap[<<o, k[2]>>] = sub[k]
                                /\ ctx[sub[k]].oid = o
    BY DEF SubscriptionsBacked
  <2>2. sub[k] \in DOMAIN ctx
    BY <2>1 DEF TypeOK
  <2>3. ctx'[sub[k]].oid = o
    <3>1. CASE sub[k] = c
      <4>1. <<o, k[2]>> = key
        BY <1>6, <2>1, <3>1
      <4> QED
        BY <1>5, <1>8, <3>1, <4>1 DEF key
    <3>2. CASE sub[k] # c
      BY <1>8, <2>1, <2>2, <3>2
    <3> QED
      BY <3>1, <3>2
  <2> QED
    BY <1>8, <2>1, <2>3
<1>15. CallUnderWay'
  <2>1. ASSUME NEW i \in 1 .. api.next, api.list[i].handler # NoHandler
        PROVE  <<api.oid, api.list[i].attr>> \in DOMAIN nmap'
    <3>1. CASE i = api.next
      BY <1>8, <3>1 DEF key, Entry
    <3>2. CASE i # api.next
      <4>1. i \in 1 .. api.next - 1
        BY <1>2, <3>2
      <4> QED
        BY <1>1, <1>8, <2>1, <4>1 DEF CallUnderWay, HaveContexts
    <3> QED
      BY <3>1, <3>2
  <2>2. (HaveContexts(api.next - 1))'
    BY <1>1, <1>2, <1>4, <2>1 DEF HaveContexts
  <2> QED
    BY <1>1, <1>2, <1>4, <2>2 DEF CallUnderWay
<1>16. ContextsLeft'
  <2>1. contexts + (Len(api.list) + 1 - api.next) <= MaxContexts
    BY <1>1 DEF ContextsLeft
  <2>2. contexts' + (Len(api.list) + 1 - (api.next + 1)) <= MaxContexts
    BY <1>2, <1>6, <2>1, NotifyAssumption
  <2> QED
    BY <1>1, <1>4, <2>2 DEF ContextsLeft
<1>17. CallbackBacked'
  BY <1>1, <1>6, <1>8 DEF CallbackBacked
<1> QED
  BY <1>9, <1>10, <1>11, <1>12, <1>13, <1>14, <1>15, <1>16, <1>17

\* The library gets a list whose handlers all have contexts, and has applied
\* nothing yet.
LEMMA LibraryCallIInv ==
  ASSUME IInv, LibraryCall
  PROVE  IInv'
<1> USE DEF IInv
<1>1. /\ api.pc = "convert" /\ api.next > Len(api.list)
      /\ api' = [api EXCEPT !.pc = "library", !.next = 1]
      /\ UNCHANGED <<drains, map, nmap, ctx, locked, sub, refilled, cb, objects, contexts>>
  BY DEF LibraryCall
<1>2. /\ Len(api.list) \in Nat /\ api.next \in Nat \ {0} /\ api.next <= Len(api.list) + 1
      /\ api \in ApiRecords
  BY EntryFacts DEF Records
<1>3. /\ api'.pc = "library" /\ api'.oid = api.oid /\ api'.list = api.list /\ api'.next = 1
      /\ api'.waits = api.waits /\ api'.ok = api.ok /\ api' \in ApiRecords
  <2>1. 1 \in Nat \ {0}
    OBVIOUS
  <2> QED
    BY <1>1, <1>2, <2>1 DEF ApiRecords
<1>4. TypeOK' /\ ObjectsUnshared' /\ ContextNamesKey' /\ ContextsUnshared'
      /\ SubscriptionsBacked' /\ CallbackBacked'
  BY <1>1, TablesSame
<1>5. Records' /\ ContextsLeft'
  BY <1>1, <1>3 DEF Records, ContextsLeft
<1>6. CallUnderWay'
  <2>1. api.next - 1 = Len(api.list)
    BY <1>1, <1>2
  <2>2. HaveContexts(Len(api.list))
    BY <1>1, <2>1 DEF CallUnderWay
  <2>3. (HaveContexts(Len(api.list)))'
    BY <1>1, <1>3, <2>2 DEF HaveContexts
  <2>4. (LeftOff(api.next - 1))' = {}
    <3>1. LeftOff(0)' = {}
      BY DEF LeftOff
    <3>2. api'.next - 1 = 0
      BY <1>3
    <3> QED
      BY <3>1, <3>2
  <2>5. api.waits = {}
    BY <1>1 DEF CallUnderWay
  <2> QED
    BY <1>1, <1>2, <1>3, <2>3, <2>4, <2>5 DEF CallUnderWay
<1> QED
  BY <1>4, <1>5, <1>6

\* The library goes on to the next entry: what it has just disabled it waits
\* for, and the callbacks of what it disabled before are over.
LEMMA LibraryEntryIInv ==
  ASSUME IInv, api.pc = "library", api.next <= Len(api.list), LibraryDone,
         api' \in ApiRecords, api'.pc = "library", api'.oid = api.oid,
         api'.list = api.list, api'.next = api.next + 1, api'.ok => api.ok,
         UNCHANGED <<drains, map, nmap, cb>>,
         \A at \in api'.waits : NotHeld(at)',
         api'.ok /\ Entry.handler = NoHandler => Entry.attr \in api'.waits,
         \A at \in Attrs : NotHeld(at) /\ at # Entry.attr => NotHeld(at)'
  PROVE  CallUnderWay' /\ ContextsLeft'
<1> USE DEF IInv
<1>1. /\ Len(api.list) \in Nat /\ api.next \in Nat \ {0} /\ api.next <= Len(api.list) + 1
  BY EntryFacts
<1>2. ASSUME NEW at \in (LeftOff(api.next - 1))', api'.ok
      PROVE  NotHeld(at)' /\ (drains /\ at \notin api'.waits => ~InFlight(map[api.oid], {at})')
  <2>1. at \in LeftOff(api.next)
    BY <1>1, <1>2, SameList
  <2>2. \/ at = Entry.attr /\ Entry.handler = NoHandler
        \/ at \in LeftOff(api.next - 1) /\ at # Entry.attr
    BY <1>1, <2>1, NextLeftOff DEF Entry
  <2>3. CASE at = Entry.attr /\ Entry.handler = NoHandler
    BY <1>2, <2>3
  <2>4. CASE at \in LeftOff(api.next - 1) /\ at # Entry.attr
    <3>1. NotHeld(at) /\ at \in Attrs
      BY <1>2, <2>1, <2>4 DEF CallUnderWay, LeftOff
    <3>2. drains => ~InFlight(map[api.oid], {at})
      BY <1>2, <2>4 DEF CallUnderWay, LibraryDone, InFlight
    <3>3. InFlight(map[api.oid], {at})' = InFlight(map[api.oid], {at})
      BY DEF InFlight
    <3> QED
      BY <2>4, <3>1, <3>2, <3>3
  <2> QED
    BY <2>2, <2>3, <2>4
<1>3. (HaveContexts(Len(api.list)))'
  BY DEF CallUnderWay, HaveContexts
<1>4. (api.ok => \A at \in LeftOff(api.next - 1) :
                   /\ NotHeld(at)
                   /\ drains /\ at \notin api.waits => ~InFlight(map[api.oid], {at}))'
  BY <1>2
<1>5. (api.next <= Len(api.list) + 1)' /\ (api.oid \in DOMAIN map)'
  BY <1>1 DEF CallUnderWay
<1> QED
  BY <1>3, <1>4, <1>5 DEF CallUnderWay, ContextsLeft

\* A null entry drops the handler the library has for the attribute.
LEMMA LibraryDisablesIInv ==
  ASSUME IInv, LibraryDisables
  PROVE  IInv'
<1> USE DEF IInv
<1> DEFINE key == <<map[api.oid], Entry.attr>>
<1>1. /\ api.pc = "library" /\ api.next <= Len(api.list) /\ LibraryDone
      /\ Entry.handler = NoHandler
      /\ sub' = Without(sub, {key})
      /\ api' = [api EXCEPT !.next = @ + 1, !.waits = {Entry.attr}]
      /\ UNCHANGED <<drains, map, nmap, ctx, locked, refilled, cb, objects, contexts>>
  BY DEF LibraryDisables, AtEntry
<1>2. /\ api.next \in Nat \ {0} /\ Entry.attr \in Attrs /\ api \in ApiRecords
  BY <1>1, EntryFacts DEF Records
<1>3. /\ api'.pc = "library" /\ api'.oid = api.oid /\ api'.list = api.list
      /\ api'.next = api.next + 1 /\ api'.waits = {Entry.attr} /\ api'.ok = api.ok
      /\ api' \in ApiRecords
  <2>1. {Entry.attr} \in SUBSET Attrs /\ api.next + 1 \in Nat \ {0}
    BY <1>2
  <2> QED
    BY <1>1, <1>2, <2>1 DEF ApiRecords
<1>4. DOMAIN sub' = DOMAIN sub \ {key} /\ \A k \in DOMAIN sub' : sub'[k] = sub[k]
  BY <1>1 DEF Without
<1>5. TypeOK'
  BY <1>1, <1>4 DEF TypeOK
<1>6. Records' /\ ObjectsUnshared' /\ ContextNamesKey' /\ ContextsUnshared' /\ CallbackBacked'
  BY <1>1, <1>3 DEF Records, ObjectsUnshared, ContextNamesKey, ContextsUnshared, CallbackBacked
<1>7. SubscriptionsBacked'
  <2> SUFFICES ASSUME NEW k \in DOMAIN sub'
               PROVE  \E o \in DOMAIN map :
                        /\ map[o] = k[1]
                        /\ \/ sub'[k] \in refilled
                           \/ /\ <<o, k[2]>> \in DOMAIN nmap
                              /\ nmap[<<o, k[2]>>] = sub'[k]
                              /\ ctx[sub'[k]].oid = o
    BY <1>1 DEF SubscriptionsBacked
  <2>1. k \in DOMAIN sub /\ sub'[k] = sub[k]
    BY <1>4
  <2> QED
    BY <2>1 DEF SubscriptionsBacked
<1>8. CallUnderWay' /\ ContextsLeft'
  <2>1. \A at \in Attrs : NotHeld(at) \/ at = Entry.attr => NotHeld(at)'
    BY <1>1, <1>3, <1>4 DEF NotHeld
  <2> QED
    BY <1>1, <1>2, <1>3, <2>1, LibraryEntryIInv
<1> QED
  BY <1>5, <1>6, <1>7, <1>8

\* Any other entry gives the library the context the list's conversion has
\* stored for the attribute.
LEMMA LibraryEnablesIInv ==
  ASSUME IInv, LibraryEnables
  PROVE  IInv'
<1> USE DEF IInv
<1> DEFINE key == <<map[api.oid], Entry.attr>>
           c == nmap[<<api.oid, Entry.attr>>]
<1>1. /\ api.pc = "library" /\ api.next <= Len(api.list) /\ LibraryDone
      /\ Entry.handler # NoHandler
      /\ sub' = Put(sub, key, c)
      /\ api' = [api EXCEPT !.next = @ + 1, !.waits = {}]
      /\ UNCHANGED <<drains, map, nmap, ctx, locked, refilled, cb, objects, contexts>>
  BY DEF LibraryEnables, AtEntry
<1>2. /\ api.next \in 1 .. Len(api.list) /\ Entry.attr \in Attrs /\ api \in ApiRecords
  BY <1>1, EntryFacts DEF Records
<1>3. /\ api'.pc = "library" /\ api'.oid = api.oid /\ api'.list = api.list
      /\ api'.next = api.next + 1 /\ api'.waits = {} /\ api'.ok = api.ok
      /\ api' \in ApiRecords
  <2>1. api.next + 1 \in Nat \ {0}
    BY <1>2
  <2> QED
    BY <1>1, <1>2, <2>1 DEF ApiRecords
<1>4. /\ DOMAIN sub' = DOMAIN sub \cup {key} /\ sub'[key] = c
      /\ \A k \in DOMAIN sub : k # key => sub'[k] = sub[k]
  BY <1>1 DEF Put
<1>5. /\ api.oid \in DOMAIN map /\ map[api.oid] \in 1 .. objects
      /\ <<api.oid, Entry.attr>> \in DOMAIN nmap
  BY <1>1, <1>2 DEF CallUnderWay, HaveContexts, Entry, TypeOK
<1>6. TypeOK'
  <2>1. key \in (1 .. objects) \X Attrs
    BY <1>2, <1>5
  <2> HIDE DEF key
  <2> QED
    BY <1>1, <1>4, <2>1 DEF TypeOK
<1>7. Records' /\ ObjectsUnshared' /\ ContextNamesKey' /\ ContextsUnshared' /\ CallbackBacked'
  BY <1>1, <1>3 DEF Records, ObjectsUnshared, ContextNamesKey, ContextsUnshared, CallbackBacked
<1>8. SubscriptionsBacked'
  <2> SUFFICES ASSUME NEW k \in DOMAIN sub'
               PROVE  \E o \in DOMAIN map :
                        /\ map[o] = k[1]
                        /\ \/ sub'[k] \in refilled
                           \/ /\ <<o, k[2]>> \in DOMAIN nmap
                              /\ nmap[<<o, k[2]>>] = sub'[k]
                              /\ ctx[sub'[k]].oid = o
    BY <1>1 DEF SubscriptionsBacked
  <2>1. CASE k = key
    <3>1. k[1] = map[api.oid] /\ k[2] = Entry.attr /\ sub'[k] = c
      BY <1>4, <2>1
    <3>2. ctx[c].oid = api.oid
      BY <1>5 DEF ContextNamesKey
    <3> QED
      BY <1>5, <3>1, <3>2
  <2>2. CASE k # key
    <3>1. k \in DOMAIN sub /\ sub'[k] = sub[k]
      BY <1>4, <2>2
    <3> QED
      BY <3>1 DEF SubscriptionsBacked
  <2> QED
    BY <2>1, <2>2
<1>9. CallUnderWay' /\ ContextsLeft'
  <2>1. \A at \in Attrs : NotHeld(at) /\ at # Entry.attr => NotHeld(at)'
    BY <1>1, <1>3, <1>4 DEF NotHeld
  <2> QED
    BY <1>1, <1>2, <1>3, <2>1, LibraryEntryIInv
<1> QED
  BY <1>6, <1>7, <1>8, <1>9

\* An entry that is not applied leaves everything as it is.
LEMMA LibraryRefusesIInv ==
  ASSUME IInv, LibraryRefuses
  PROVE  IInv'
<1> USE DEF IInv
<1>1. /\ api.pc = "library" /\ api.next <= Len(api.list) /\ LibraryDone
      /\ api' = [api EXCEPT !.next = @ + 1, !.waits = {}, !.ok = FALSE]
      /\ UNCHANGED <<drains, map, nmap, ctx, locked, sub, refilled, cb, objects, contexts>>
  BY DEF LibraryRefuses, AtEntry
<1>2. api.next \in Nat \ {0} /\ api \in ApiRecords
  BY EntryFacts DEF Records
<1>3. /\ api'.pc = "library" /\ api'.oid = api.oid /\ api'.list = api.list
      /\ api'.next = api.next + 1 /\ api'.waits = {} /\ ~api'.ok /\ api' \in ApiRecords
  <2>1. api.next + 1 \in Nat \ {0}
    BY <1>2
  <2> QED
    BY <1>1, <1>2, <2>1 DEF ApiRecords
<1>4. TypeOK' /\ ObjectsUnshared' /\ ContextNamesKey' /\ ContextsUnshared'
      /\ SubscriptionsBacked' /\ CallbackBacked'
  BY <1>1, TablesSame
<1>5. Records'
  BY <1>1, <1>3 DEF Records
<1>6. CallUnderWay' /\ ContextsLeft'
  <2>1. \A at \in Attrs : NotHeld(at) => NotHeld(at)'
    BY <1>1, <1>3 DEF NotHeld
  <2> QED
    BY <1>1, <1>3, <2>1, LibraryEntryIInv
<1> QED
  BY <1>4, <1>5, <1>6

\* When the library has returned, a draining one has no callback left for the
\* attributes that the list leaves without a handler.
LEMMA LibraryReturnIInv ==
  ASSUME IInv, NEW ok \in BOOLEAN, LibraryReturn(ok)
  PROVE  IInv'
<1> USE DEF IInv
<1>1. /\ api.pc = "library" /\ api.next > Len(api.list) /\ LibraryDone
      /\ ok => api.ok
      /\ api' = IF ok THEN [api EXCEPT !.pc = "cleanup"] ELSE ApiIdle
      /\ UNCHANGED <<drains, map, nmap, ctx, locked, sub, refilled, cb, objects, contexts>>
  BY DEF LibraryReturn
<1>2. CASE ok
  <2>1. /\ api'.pc = "cleanup" /\ api'.oid = api.oid /\ api'.list = api.list
        /\ api'.next = api.next /\ api' \in ApiRecords
    BY <1>1, <1>2 DEF Records, ApiRecords
  <2>2. Len(api.list) \in Nat /\ api.next - 1 = Len(api.list)
    BY <1>1, EntryFacts
  <2>3. ASSUME NEW at \in (LeftOff(Len(api.list)))'
        PROVE  NotHeld(at)' /\ (drains => ~InFlight(map[api.oid], {at})')
    <3>1. at \in LeftOff(api.next - 1)
      BY <2>1, <2>2, <2>3, SameList
    <3>2. NotHeld(at) /\ (drains => ~InFlight(map[api.oid], {at}))
      BY <1>1, <1>2, <3>1 DEF CallUnderWay, LibraryDone, InFlight
    <3> QED
      BY <1>1, <2>1, <3>2 DEF NotHeld, InFlight
  <2>4. CallUnderWay'
    <3>1. (\A at \in LeftOff(Len(api.list)) :
             NotHeld(at) /\ (drains => ~InFlight(map[api.oid], {at})))'
      BY <1>1, <2>3
    <3>2. (api.next <= Len(api.list) + 1)' /\ (api.oid \in DOMAIN map)'
      BY <1>1, <2>1 DEF CallUnderWay
    <3> QED
      BY <2>1, <3>1, <3>2 DEF CallUnderWay
  <2>5. Records' /\ ContextsLeft'
    BY <1>1, <2>1 DEF Records, ContextsLeft
  <2>6. TypeOK' /\ ObjectsUnshared' /\ ContextNamesKey' /\ ContextsUnshared'
        /\ SubscriptionsBacked' /\ CallbackBacked'
    BY <1>1, TablesSame
  <2> QED
    BY <2>4, <2>5, <2>6
<1>3. CASE ~ok
  BY <1>1, <1>3, ApiEndsIInv
<1> QED
  BY <1>2, <1>3

\* The contexts of keys_to_remove are freed with their entries.  The library
\* still holds those of them that the list has filled again, which is what
\* refilled records, and none of the others; every other key's context is
\* another one.
LEMMA CleanupIInv ==
  ASSUME IInv, Cleanup
  PROVE  IInv'
<1> USE DEF IInv
<1> DEFINE off == LeftOff(Len(api.list))
           keys == {<<api.oid, at>> : at \in Cleared} \cap DOMAIN nmap
           freed == {nmap[k] : k \in keys}
           held == {nmap[k] : k \in {l \in keys : l[2] \notin off}}
<1>1. /\ api.pc = "cleanup"
      /\ nmap' = Without(nmap, keys) /\ ctx' = Without(ctx, freed)
      /\ refilled' = refilled \cup held
      /\ api' = ApiIdle
      /\ UNCHANGED <<drains, map, locked, sub, cb, objects, contexts>>
  BY DEF Cleanup
<1>2. /\ DOMAIN nmap' = DOMAIN nmap \ keys
      /\ \A k \in DOMAIN nmap' : nmap'[k] = nmap[k]
      /\ DOMAIN ctx' = DOMAIN ctx \ freed
      /\ \A c \in DOMAIN ctx' : ctx'[c] = ctx[c]
  BY <1>1 DEF Without
<1>3. \A k \in DOMAIN nmap' : nmap[k] \in DOMAIN ctx'
  BY <1>2 DEF TypeOK, ContextsUnshared
<1>4. /\ api.oid \in DOMAIN map
      /\ \A at \in off : NotHeld(at) /\ (drains => ~InFlight(map[api.oid], {at}))
  BY <1>1 DEF CallUnderWay
<1>5. refilled' \subseteq 1 .. contexts
  BY <1>1 DEF TypeOK
<1>6. TypeOK'
  BY <1>1, <1>2, <1>3, <1>5 DEF TypeOK
<1>7. ObjectsUnshared' /\ ContextsUnshared'
  BY <1>1, <1>2 DEF ObjectsUnshared, ContextsUnshared
<1>8. ContextNamesKey'
  BY <1>2, <1>3 DEF ContextNamesKey
<1>9. SubscriptionsBacked'
  <2> SUFFICES ASSUME NEW k \in DOMAIN sub
               PROVE  \E o \in DOMAIN map :
                        /\ map[o] = k[1]
                        /\ \/ sub[k] \in refilled'
                           \/ /\ <<o, k[2]>> \in DOMAIN nmap'
                              /\ nmap'[<<o, k[2]>>] = sub[k]
                              /\ ctx'[sub[k]].oid = o
    BY <1>1 DEF SubscriptionsBacked
  <2>1. PICK o \in DOMAIN map : /\ map[o] = k[1]
                                /\ \/ sub[k] \in refilled
                                   \/ /\ <<o, k[2]>> \in DOMAIN nmap
                                      /\ nmap[<<o, k[2]>>] = sub[k]
                                      /\ ctx[sub[k]].oid = o
    BY DEF SubscriptionsBacked
  <2>2. CASE sub[k] \in refilled
    BY <1>1, <2>1, <2>2
  <2>3. CASE sub[k] \notin refilled /\ <<o, k[2]>> \in keys
    <3>1. o = api.oid
      BY <2>3
    <3>2. k = <<map[api.oid], k[2]>>
      BY <2>1, <3>1 DEF TypeOK
    <3>3. k[2] \notin off
      BY <1>4, <3>2 DEF NotHeld
    <3>4. sub[k] \in held
      BY <2>1, <2>3, <3>3
    <3> QED
      BY <1>1, <2>1, <3>4
  <2>4. CASE sub[k] \notin refilled /\ <<o, k[2]>> \notin keys
    BY <1>2, <1>3, <2>1, <2>4
  <2> QED
    BY <2>2, <2>3, <2>4
<1>10. CallbackBacked'
  <2> SUFFICES ASSUME cb.pc # "idle", drains, cb.context \notin refilled'
               PROVE  \E o \in DOMAIN map : /\ map[o] = cb.object
                                            /\ <<o, cb.attr>> \in DOMAIN nmap'
                                            /\ nmap'[<<o, cb.attr>>] = cb.context
    BY <1>1 DEF CallbackBacked
  <2>1. PICK o \in DOMAIN map : /\ map[o] = cb.object
                                /\ <<o, cb.attr>> \in DOMAIN nmap
                                /\ nmap[<<o, cb.attr>>] = cb.context
    BY <1>1 DEF CallbackBacked
  <2>2. <<o, cb.attr>> \notin keys
    <3> SUFFICES ASSUME <<o, cb.attr>> \in keys PROVE FALSE
      OBVIOUS
    <3>1. o = api.oid
      OBVIOUS
    <3>2. cb.attr \notin off
      BY <1>4, <2>1, <3>1 DEF InFlight
    <3>3. cb.context \in held
      BY <2>1, <3>2
    <3> QED
      BY <1>1, <3>3
  <2> QED
    BY <1>2, <2>1, <2>2
<1>11. Records' /\ CallUnderWay' /\ ContextsLeft'
  BY <1>1, IdleRecord DEF Records, CallUnderWay, ContextsLeft
<1> QED
  BY <1>6, <1>7, <1>8, <1>9, <1>10, <1>11

\* A new object has a number nobody has had, so an old owner's callback or
\* context is never taken for its own.
LEMMA CreateIInv ==
  ASSUME IInv, Create
  PROVE  IInv'
<1> USE DEF IInv
<1>1. PICK o \in Oids \ DOMAIN map :
        /\ api.pc = "idle" /\ objects < MaxObjects
        /\ map' = Put(map, o, objects + 1) /\ objects' = objects + 1
        /\ UNCHANGED <<drains, nmap, ctx, locked, sub, refilled, api, cb, contexts>>
  BY DEF Create
<1>2. /\ DOMAIN map' = DOMAIN map \cup {o} /\ map'[o] = objects + 1
      /\ \A p \in DOMAIN map : map'[p] = map[p] /\ map[p] \in 1 .. objects
      /\ objects \in 0 .. MaxObjects
  BY <1>1 DEF Put, TypeOK
<1>3. TypeOK'
  <2>1. objects' \in 0 .. MaxObjects /\ 1 .. objects \subseteq 1 .. objects'
        /\ objects + 1 \in 1 .. objects'
    BY <1>1, <1>2, NotifyAssumption
  <2>2. DOMAIN map' \subseteq Oids /\ \A p \in DOMAIN map' : map'[p] \in 1 .. objects'
    BY <1>1, <1>2, <2>1 DEF TypeOK
  <2>3. DOMAIN sub' \subseteq (1 .. objects') \X Attrs
    BY <1>1, <2>1 DEF TypeOK
  <2> QED
    BY <1>1, <2>1, <2>2, <2>3 DEF TypeOK
<1>4. ObjectsUnshared'
  BY <1>2 DEF ObjectsUnshared
<1>5. ContextNamesKey' /\ ContextsUnshared' /\ Records'
  BY <1>1 DEF ContextNamesKey, ContextsUnshared, Records
<1>6. SubscriptionsBacked'
  <2> SUFFICES ASSUME NEW k \in DOMAIN sub'
               PROVE  \E p \in DOMAIN map' :
                        /\ map'[p] = k[1]
                        /\ \/ sub'[k] \in refilled
                           \/ /\ <<p, k[2]>> \in DOMAIN nmap
                              /\ nmap[<<p, k[2]>>] = sub'[k]
                              /\ ctx[sub'[k]].oid = p
    BY <1>1 DEF SubscriptionsBacked
  <2>1. PICK p \in DOMAIN map : /\ map[p] = k[1]
                                /\ \/ sub[k] \in refilled
                                   \/ /\ <<p, k[2]>> \in DOMAIN nmap
                                      /\ nmap[<<p, k[2]>>] = sub[k]
                                      /\ ctx[sub[k]].oid = p
    BY <1>1 DEF SubscriptionsBacked
  <2>2. p \in DOMAIN map' /\ map'[p] = map[p] /\ sub' = sub
    BY <1>1, <1>2
  <2> QED
    BY <2>1, <2>2
<1>7. CallUnderWay' /\ ContextsLeft'
  <2>1. api.next <= Len(api.list) + 1
    BY DEF CallUnderWay
  <2> QED
    BY <1>1, <2>1 DEF CallUnderWay, ContextsLeft
<1>8. CallbackBacked'
  BY <1>1, <1>2 DEF CallbackBacked
<1> QED
  BY <1>3, <1>4, <1>5, <1>6, <1>7, <1>8

\* The real remove forgets the object's handlers; its id is still mapped.
LEMMA RemoveBeginIInv ==
  ASSUME IInv, NEW o \in Oids, RemoveBegin(o)
  PROVE  IInv'
<1> USE DEF IInv
<1> DEFINE dropped == {<<map[o], at>> : at \in Attrs}
<1>1. /\ o \in DOMAIN map
      /\ sub' = Without(sub, dropped)
      /\ api' = [ApiIdle EXCEPT !.pc = "remove", !.oid = o, !.waits = Attrs]
      /\ UNCHANGED <<drains, map, nmap, ctx, locked, refilled, cb, objects, contexts>>
  BY DEF RemoveBegin
<1>2. /\ api'.pc = "remove" /\ api'.oid = o /\ api'.waits = Attrs
      /\ api'.next = 1 /\ Len(api'.list) = 0 /\ api' \in ApiRecords
  <2>1. Attrs \in SUBSET Attrs
    OBVIOUS
  <2> QED
    BY <1>1, <2>1, IdleRecord DEF ApiIdle, ApiRecords
<1>3. DOMAIN sub' = DOMAIN sub \ dropped /\ \A k \in DOMAIN sub' : sub'[k] = sub[k]
  BY <1>1 DEF Without
<1>4. TypeOK'
  BY <1>1, <1>3 DEF TypeOK
<1>5. ObjectsUnshared' /\ ContextNamesKey' /\ ContextsUnshared' /\ ContextsLeft' /\ Records'
  BY <1>1, <1>2 DEF ObjectsUnshared, ContextNamesKey, ContextsUnshared, ContextsLeft, Records
<1>6. SubscriptionsBacked'
  <2> SUFFICES ASSUME NEW k \in DOMAIN sub'
               PROVE  \E p \in DOMAIN map :
                        /\ map[p] = k[1]
                        /\ \/ sub'[k] \in refilled
                           \/ /\ <<p, k[2]>> \in DOMAIN nmap
                              /\ nmap[<<p, k[2]>>] = sub'[k]
                              /\ ctx[sub'[k]].oid = p
    BY <1>1 DEF SubscriptionsBacked
  <2>1. k \in DOMAIN sub /\ sub'[k] = sub[k]
    BY <1>3
  <2> QED
    BY <2>1 DEF SubscriptionsBacked
<1>7. CallUnderWay'
  <2>1. \A at \in Attrs : NotHeld(at)'
    BY <1>1, <1>2, <1>3 DEF NotHeld
  <2> QED
    BY <1>1, <1>2, <2>1 DEF CallUnderWay
<1>8. CallbackBacked'
  BY <1>1 DEF CallbackBacked
<1> QED
  BY <1>4, <1>5, <1>6, <1>7, <1>8

\* The id is given back when the library holds no handler for its object and,
\* if it drains, runs no callback for it.
LEMMA RemoveReturnIInv ==
  ASSUME IInv, RemoveReturn
  PROVE  IInv'
<1> USE DEF IInv
<1>1. /\ api.pc = "remove"
      /\ LibraryDone
      /\ map' = Without(map, {api.oid})
      /\ api' = ApiIdle
      /\ UNCHANGED <<drains, nmap, ctx, locked, sub, refilled, cb, objects, contexts>>
  BY DEF RemoveReturn
<1>2. api.waits = Attrs /\ \A at \in Attrs : NotHeld(at)
  BY <1>1 DEF CallUnderWay
<1>3. DOMAIN map' = DOMAIN map \ {api.oid} /\ \A o \in DOMAIN map' : map'[o] = map[o]
  BY <1>1 DEF Without
<1>4. TypeOK'
  BY <1>1, <1>3 DEF TypeOK
<1>5. ObjectsUnshared'
  BY <1>3 DEF ObjectsUnshared
<1>6. ContextNamesKey' /\ ContextsUnshared' /\ ContextsLeft' /\ Records' /\ CallUnderWay'
  BY <1>1, IdleRecord DEF ContextNamesKey, ContextsUnshared, ContextsLeft, Records, CallUnderWay
<1>7. SubscriptionsBacked'
  <2>1. ASSUME NEW k \in DOMAIN sub PROVE k[1] # map[api.oid]
    <3>1. k[2] \in Attrs /\ k = <<k[1], k[2]>>
      BY <2>1 DEF TypeOK
    <3> QED
      BY <1>2, <2>1, <3>1 DEF NotHeld
  <2> SUFFICES ASSUME NEW k \in DOMAIN sub'
               PROVE  \E o \in DOMAIN map' :
                        /\ map'[o] = k[1]
                        /\ \/ sub'[k] \in refilled
                           \/ /\ <<o, k[2]>> \in DOMAIN nmap
                              /\ nmap[<<o, k[2]>>] = sub'[k]
                              /\ ctx[sub'[k]].oid = o
    BY <1>1 DEF SubscriptionsBacked
  <2>2. PICK o \in DOMAIN map : /\ map[o] = k[1]
                                /\ \/ sub[k] \in refilled
                                   \/ /\ <<o, k[2]>> \in DOMAIN nmap
                                      /\ nmap[<<o, k[2]>>] = sub[k]
                                      /\ ctx[sub[k]].oid = o
    BY <1>1 DEF SubscriptionsBacked
  <2>3. o \in DOMAIN map' /\ map'[o] = map[o] /\ sub' = sub
    BY <1>1, <1>3, <2>1, <2>2
  <2> QED
    BY <2>2, <2>3
<1>8. CallbackBacked'
  <2>1. cb.pc # "idle" /\ drains => cb.object # map[api.oid]
    BY <1>1, <1>2 DEF LibraryDone, InFlight, CallbackBacked
  <2> QED
    BY <1>1, <1>3, <2>1 DEF CallbackBacked
<1> QED
  BY <1>4, <1>5, <1>6, <1>7, <1>8

-----------------------------------------------------------------------------
(* The callback thread.                                                    *)

\* A step of the callback thread leaves the API thread's tables alone; what
\* remains to show is about the callback, and that a call which has waited
\* for it finds it over: what the library does not hold is not raised.
LEMMA CallbackStepIInv ==
  ASSUME IInv, UNCHANGED <<drains, map, nmap, ctx, sub, refilled, api, objects, contexts>>,
         locked' \subseteq 1 .. contexts, cb' \in CbRecords, CallbackBacked',
         \A at : NotHeld(at) /\ InFlight(map[api.oid], {at})' => InFlight(map[api.oid], {at})
  PROVE  IInv'
<1> USE DEF IInv
<1>1. TypeOK' /\ Records'
  BY DEF TypeOK, Records
<1>2. ObjectsUnshared' /\ ContextNamesKey' /\ ContextsUnshared' /\ ContextsLeft'
  BY DEF ObjectsUnshared, ContextNamesKey, ContextsUnshared, ContextsLeft
<1>3. SubscriptionsBacked'
  BY DEF SubscriptionsBacked
<1>4. CallUnderWay'
  <2>1. \A at : NotHeld(at)' <=> NotHeld(at)
    BY DEF NotHeld
  <2>2. /\ LeftOff(Len(api.list))' = LeftOff(Len(api.list))
        /\ (LeftOff(api.next - 1))' = LeftOff(api.next - 1)
    BY DEF LeftOff
  <2>3. /\ (HaveContexts(Len(api.list)))' <=> HaveContexts(Len(api.list))
        /\ (HaveContexts(api.next - 1))' <=> HaveContexts(api.next - 1)
    BY DEF HaveContexts
  <2> QED
    BY <2>1, <2>2, <2>3 DEF CallUnderWay
<1> QED
  BY <1>1, <1>2, <1>3, <1>4

\* A callback starts on what the library holds, and that is backed.
LEMMA RaiseIInv ==
  ASSUME IInv, NEW key \in (1 .. MaxObjects) \X Attrs, Raise(key)
  PROVE  IInv'
<1> USE DEF IInv
<1>1. /\ key \in DOMAIN sub
      /\ cb' = [pc |-> "entered", context |-> sub[key], object |-> key[1], attr |-> key[2]]
      /\ UNCHANGED <<drains, map, nmap, ctx, locked, sub, refilled, api, objects, contexts>>
  BY DEF Raise
<1>2. PICK o \in DOMAIN map : /\ map[o] = key[1]
                              /\ \/ sub[key] \in refilled
                                 \/ /\ <<o, key[2]>> \in DOMAIN nmap
                                    /\ nmap[<<o, key[2]>>] = sub[key]
  BY <1>1 DEF SubscriptionsBacked
<1>3. /\ sub[key] \in 1 .. contexts /\ key[2] \in Attrs /\ key[1] \in Nat
      /\ key = <<key[1], key[2]>>
  <2>1. contexts \in Nat /\ refilled \subseteq 1 .. contexts /\ DOMAIN ctx \subseteq 1 .. contexts
    BY DEF TypeOK
  <2>2. sub[key] \in 1 .. contexts
    BY <1>2, <2>1 DEF TypeOK
  <2>3. key[2] \in Attrs /\ key[1] \in Nat /\ key = <<key[1], key[2]>>
    OBVIOUS
  <2> QED
    BY <2>2, <2>3
<1>4. /\ cb'.pc = "entered" /\ cb'.context = sub[key]
      /\ cb'.object = key[1] /\ cb'.attr = key[2]
  BY <1>1
<1>5. cb' \in CbRecords
  BY <1>1, <1>3, NotifyAssumption DEF CbRecords, TypeOK
<1>6. CallbackBacked'
  BY <1>1, <1>2, <1>3, <1>4 DEF CallbackBacked
<1>7. \A at : NotHeld(at) /\ InFlight(map[api.oid], {at})' => InFlight(map[api.oid], {at})
  <2> SUFFICES ASSUME NEW at, NotHeld(at), key[1] = map[api.oid], key[2] = at
               PROVE  FALSE
    BY <1>1, <1>4 DEF InFlight
  <2> QED
    BY <1>1, <1>3 DEF NotHeld
<1>8. locked' \subseteq 1 .. contexts
  BY <1>1 DEF TypeOK
<1> QED
  BY <1>1, <1>5, <1>6, <1>7, <1>8, CallbackStepIInv

\* A callback that goes on works for the key it has worked for.
LEMMA CallbackGoesOnIInv ==
  ASSUME IInv, cb.pc # "idle",
         \/ cb' = CbIdle
         \/ cb' \in CbRecords /\ cb'.context = cb.context
              /\ cb'.object = cb.object /\ cb'.attr = cb.attr,
         locked' \subseteq 1 .. contexts,
         UNCHANGED <<drains, map, nmap, ctx, sub, refilled, api, objects, contexts>>
  PROVE  IInv'
<1> USE DEF IInv
<1>1. CbIdle \in CbRecords /\ CbIdle.pc = "idle"
  BY DEF CbIdle, CbRecords
<1>2. CallbackBacked'
  BY <1>1 DEF CallbackBacked
<1>3. \A at : InFlight(map[api.oid], {at})' => InFlight(map[api.oid], {at})
  BY <1>1 DEF InFlight
<1> QED
  BY <1>1, <1>2, <1>3, CallbackStepIInv

\* The callback reads its context.
LEMMA LookupIInv ==
  ASSUME IInv, Lookup
  PROVE  IInv'
<1>1. /\ cb.pc = "entered"
      /\ cb' = [cb EXCEPT !.pc = "converted"] \/ cb' = CbIdle
      /\ UNCHANGED <<drains, map, nmap, ctx, locked, sub, refilled, api, objects, contexts>>
  BY DEF Lookup
<1>2. cb \in CbRecords /\ locked \subseteq 1 .. contexts
  BY DEF IInv, Records, TypeOK
<1>3. CASE cb' = [cb EXCEPT !.pc = "converted"]
  <2>1. /\ cb' \in CbRecords /\ cb'.context = cb.context
        /\ cb'.object = cb.object /\ cb'.attr = cb.attr
    BY <1>2, <1>3 DEF CbRecords
  <2> QED
    BY <1>1, <1>2, <2>1, CallbackGoesOnIInv
<1>4. CASE cb' = CbIdle
  BY <1>1, <1>2, <1>4, CallbackGoesOnIInv
<1> QED
  BY <1>1, <1>3, <1>4

\* The handler is called, or has been cleared meanwhile.
LEMMA DeliverIInv ==
  ASSUME IInv, Deliver
  PROVE  IInv'
<1>1. /\ cb.pc = "converted" /\ locked' = locked \cup {cb.context}
      /\ cb' = [cb EXCEPT !.pc = "delivering"]
      /\ UNCHANGED <<drains, map, nmap, ctx, sub, refilled, api, objects, contexts>>
  BY DEF Deliver
<1>2. /\ cb' \in CbRecords /\ cb'.context = cb.context
      /\ cb'.object = cb.object /\ cb'.attr = cb.attr
  BY <1>1 DEF IInv, Records, CbRecords
<1>3. locked' \subseteq 1 .. contexts
  BY <1>1 DEF IInv, TypeOK, CallbackBacked
<1> QED
  BY <1>1, <1>2, <1>3, CallbackGoesOnIInv

\* The callback is over.
LEMMA ReturnIInv ==
  ASSUME IInv, Return
  PROVE  IInv'
<1>1. /\ cb.pc = "delivering" /\ locked' = locked \ {cb.context} /\ cb' = CbIdle
      /\ UNCHANGED <<drains, map, nmap, ctx, sub, refilled, api, objects, contexts>>
  BY DEF Return
<1>2. locked' \subseteq 1 .. contexts
  BY <1>1 DEF IInv, TypeOK
<1> QED
  BY <1>1, <1>2, CallbackGoesOnIInv

\* A callback that strays stays where it was raised.
LEMMA StrayIInv ==
  ASSUME IInv, Stray
  PROVE  IInv'
<1>1. /\ cb.pc # "idle" /\ locked' = locked \ {cb.context}
      /\ cb' = [cb EXCEPT !.pc = "stray"]
      /\ UNCHANGED <<drains, map, nmap, ctx, sub, refilled, api, objects, contexts>>
  BY DEF Stray
<1>2. /\ cb' \in CbRecords /\ cb'.context = cb.context
      /\ cb'.object = cb.object /\ cb'.attr = cb.attr
  BY <1>1 DEF IInv, Records, CbRecords
<1>3. locked' \subseteq 1 .. contexts
  BY <1>1 DEF IInv, TypeOK
<1> QED
  BY <1>1, <1>2, <1>3, CallbackGoesOnIInv

-----------------------------------------------------------------------------

\* Every step of either thread keeps the invariant.
LEMMA NextIInv == IInv /\ [Next]_vars => IInv'
<1> SUFFICES ASSUME IInv, [Next]_vars PROVE IInv'
  OBVIOUS
<1>1. CASE ApiSteps
  <2>1. ASSUME NEW o \in Oids, RemoveBegin(o) PROVE IInv'
    BY <2>1, RemoveBeginIInv
  <2>2. ASSUME NEW o \in Oids, NEW list \in Lists, SetBegin(o, list) PROVE IInv'
    BY <2>2, SetBeginIInv
  <2>3. CASE Create
    BY <2>3, CreateIInv
  <2>4. CASE Convert
    BY <2>4, ConvertNullIInv, ConvertHandlerIInv DEF Convert
  <2>5. CASE ConvertFails
    BY <2>5, ApiEndsIInv DEF ConvertFails
  <2>6. CASE LibraryCall
    BY <2>6, LibraryCallIInv
  <2>7. CASE LibraryApplies
    BY <2>7, LibraryDisablesIInv, LibraryEnablesIInv, LibraryRefusesIInv DEF LibraryApplies
  <2>8. CASE LibraryReturns
    BY <2>8, LibraryReturnIInv DEF LibraryReturns
  <2>9. CASE Cleanup
    BY <2>9, CleanupIInv
  <2>10. CASE RemoveReturn
    BY <2>10, RemoveReturnIInv
  <2>11. CASE RemoveRefused
    BY <2>11, ApiEndsIInv DEF RemoveRefused
  <2> QED
    BY <1>1, <2>1, <2>2, <2>3, <2>4, <2>5, <2>6, <2>7, <2>8, <2>9, <2>10, <2>11 DEF ApiSteps
<1>2. CASE CallbackSteps
  BY <1>2, RaiseIInv, LookupIInv, DeliverIInv, ReturnIInv, StrayIInv DEF CallbackSteps
<1>3. CASE UNCHANGED vars
  <2> USE DEF IInv
  <2>1. UNCHANGED <<map, nmap, ctx, locked, drains, sub, refilled, api, cb, objects, contexts>>
    BY <1>3 DEF vars
  <2>2. TypeOK' /\ ObjectsUnshared' /\ ContextNamesKey' /\ ContextsUnshared'
        /\ SubscriptionsBacked' /\ CallbackBacked'
    BY <2>1, TablesSame
  <2>3. Records' /\ ContextsLeft'
    BY <2>1 DEF Records, ContextsLeft
  <2>4. CallUnderWay'
    BY <2>1 DEF CallUnderWay, LeftOff, HaveContexts, NotHeld, InFlight
  <2> QED
    BY <2>2, <2>3, <2>4
<1> QED
  BY <1>1, <1>2, <1>3 DEF Next

\* Every state of the two threads satisfies the inductive invariant.
THEOREM Invariance == Spec => []IInv
<1>1. Init => IInv
  BY InitIInv
<1>2. IInv /\ [Next]_vars => IInv'
  BY NextIInv
<1> QED
  BY <1>1, <1>2, PTL DEF Spec

-----------------------------------------------------------------------------
(* The theorems.                                                           *)

\* The tables keep their types, every key's context is allocated, and calls
\* never need more contexts than were set aside when they began.
THEOREM TypeCorrect == Spec => []TypeOK
<1>1. IInv => TypeOK
  BY DEF IInv
<1> QED
  BY <1>1, Invariance, PTL

\* Whatever calls fail or stop half way, whatever the order and the
\* repetitions of a list, no library ever holds a handler on a foreign
\* context, and on a freed one only where a list has freed a context that it
\* had filled again.
THEOREM Backed == Spec => []SubscriptionsBacked
<1>1. IInv => SubscriptionsBacked
  BY DEF IInv
<1> QED
  BY <1>1, Invariance, PTL

\* No two ids and no two attributes share a context.
THEOREM Unshared == Spec => []ContextsUnshared
<1>1. IInv => ContextsUnshared
  BY DEF IInv
<1> QED
  BY <1>1, Invariance, PTL

\* With libraries that finish their callbacks before they return, a callback
\* works on a freed context only where a list has freed what it had filled
\* again.
THEOREM NoFreedContext == Spec => []NoUseAfterFree
<1>1. IInv => NoUseAfterFree
  BY DEF IInv, NoUseAfterFree, CallbackBacked, TypeOK
<1> QED
  BY <1>1, Invariance, PTL

\* With such libraries, and apart from those contexts, a handler is told the
\* id of the object that raised the notification, however often the id has
\* changed its owner.
THEOREM OwnIdDelivered == Spec => []DeliveredUnderOwnId
<1>1. IInv => DeliveredUnderOwnId
  BY DEF IInv, DeliveredUnderOwnId, CallbackBacked, ContextNamesKey
<1> QED
  BY <1>1, Invariance, PTL

-----------------------------------------------------------------------------
(* Who waits for whom: the part of CallsReturn that needs no fairness.     *)

\* The only mutex that is held is the one of a handler that is being called.
MutexHeld == locked = IF cb.pc = "delivering" THEN {cb.context} ELSE {}

\* The context convert_oid takes for an attribute of the list.
ContextFor(at) ==
  IF <<api.oid, at>> \in DOMAIN nmap THEN nmap[<<api.oid, at>>] ELSE contexts + 1

\* The guards of the steps that a call which has begun may take: Convert,
\* LibraryCall, LibraryApplies, LibraryReturns, RemoveReturn and Cleanup.
CallCanStep ==
  \/ AtEntry("convert") /\ (Entry.handler # NoHandler => ContextFor(Entry.attr) \notin locked)
  \/ api.pc = "convert" /\ api.next > Len(api.list)
  \/ api.pc \in {"library", "remove"} /\ LibraryDone
  \/ api.pc = "cleanup"

\* The guards of Lookup, Deliver and Return.
CallbackCanStep == cb.pc \in {"entered", "converted", "delivering"}

\* Nobody waits in a circle: a call that cannot go on waits for a callback,
\* which waits for nobody, or for one that has strayed on a freed context.
NoCircle == api.pc # "idle" => CallCanStep \/ CallbackCanStep \/ cb.pc = "stray"

\* How many steps a call, and a callback, still have to take.
CallRank ==
  LET left == Len(api.list) + 1 - api.next IN
  CASE api.pc = "convert" -> left + Len(api.list) + 3
    [] api.pc = "library" -> left + 2
    [] api.pc \in {"cleanup", "remove"} -> 1
    [] OTHER -> 0

CallbackRank ==
  CASE cb.pc = "entered" -> 3
    [] cb.pc = "converted" -> 2
    [] cb.pc = "delivering" -> 1
    [] OTHER -> 0

\* Each step of a call brings it nearer to its end, each step of a callback
\* that callback, and nothing sets them back; and a library that has no
\* callback left to wait for gets no new one: what it has disabled is not
\* raised again.
CallsComeNearer ==
  /\ api.pc # "idle" => CallRank' <= CallRank /\ (ApiSteps => CallRank' < CallRank)
  /\ cb.pc # "idle" =>
       CallbackRank' <= CallbackRank /\ (CallbackSteps => CallbackRank' < CallbackRank)
  /\ api.pc \in {"library", "remove"} /\ LibraryDone /\ api' = api => LibraryDone'

\* The steps of the API thread leave the callback and the mutexes alone.
LEMMA ApiStepsQuiet ==
  ASSUME ApiSteps
  PROVE  UNCHANGED <<cb, locked, drains>>
BY DEF ApiSteps, Convert, RemoveBegin, SetBegin, Create, ConvertNull, ConvertHandler,
   ConvertFails, LibraryCall, LibraryApplies, LibraryDisables, LibraryEnables,
   LibraryRefuses, LibraryReturns, LibraryReturn, Cleanup, RemoveReturn, RemoveRefused

\* What the steps of the callback's thread do to it.
LEMMA CallbackStepsFacts ==
  ASSUME IInv, CallbackSteps
  PROVE  /\ UNCHANGED <<drains, map, nmap, ctx, sub, refilled, api, objects, contexts>>
         /\ \/ /\ cb.pc = "idle" /\ cb'.pc = "entered" /\ locked' = locked
               /\ <<cb'.object, cb'.attr>> \in DOMAIN sub
            \/ cb.pc = "entered" /\ cb'.pc \in {"converted", "idle"} /\ locked' = locked
            \/ /\ cb.pc = "converted" /\ cb'.pc = "delivering" /\ cb'.context = cb.context
               /\ locked' = locked \cup {cb.context}
            \/ cb.pc = "delivering" /\ cb'.pc = "idle" /\ locked' = locked \ {cb.context}
            \/ /\ cb.pc \in {"entered", "converted", "delivering"} /\ cb'.pc = "stray"
               /\ locked' = locked \ {cb.context}
         /\ cb.pc = "idle" \/ cb'.pc = "idle"
              \/ (cb'.object = cb.object /\ cb'.attr = cb.attr)
<1>1. UNCHANGED <<drains, map, nmap, ctx, sub, refilled, api, objects, contexts>>
  BY DEF CallbackSteps, Raise, Lookup, Deliver, Return, Stray
<1>2. cb \in CbRecords /\ CbIdle.pc = "idle"
  BY DEF IInv, Records, CbIdle
<1>3. ASSUME NEW key \in (1 .. MaxObjects) \X Attrs, Raise(key)
      PROVE  /\ cb.pc = "idle" /\ cb'.pc = "entered" /\ locked' = locked
             /\ <<cb'.object, cb'.attr>> \in DOMAIN sub
  <2>1. cb' = [pc |-> "entered", context |-> sub[key], object |-> key[1], attr |-> key[2]]
    BY <1>3 DEF Raise
  <2>2. key = <<cb'.object, cb'.attr>>
    BY <2>1
  <2> QED
    BY <1>3, <2>1, <2>2 DEF Raise
<1>4. CASE Lookup
  <2>1. CASE cb' = [cb EXCEPT !.pc = "converted"]
    BY <1>1, <1>2, <1>4, <2>1 DEF Lookup, CbRecords
  <2>2. CASE cb' = CbIdle
    BY <1>1, <1>2, <1>4, <2>2 DEF Lookup
  <2> QED
    BY <1>4, <2>1, <2>2 DEF Lookup
<1>5. CASE Deliver
  BY <1>1, <1>2, <1>5 DEF Deliver, CbRecords
<1>6. CASE Return
  BY <1>1, <1>2, <1>6 DEF Return
<1>7. CASE Stray
  BY <1>1, <1>2, <1>7 DEF Stray, CbRecords
<1> QED
  BY <1>1, <1>3, <1>4, <1>5, <1>6, <1>7 DEF CallbackSteps

\* The mutexes of the callback.
LEMMA NextMutexHeld ==
  ASSUME MutexHeld, IInv, [Next]_vars
  PROVE  MutexHeld'
<1>1. CASE ApiSteps
  BY <1>1, ApiStepsQuiet DEF MutexHeld
<1>2. CASE CallbackSteps
  BY <1>2, CallbackStepsFacts DEF MutexHeld
<1>3. CASE UNCHANGED vars
  BY <1>3 DEF vars, MutexHeld
<1> QED
  BY <1>1, <1>2, <1>3 DEF Next

\* A rank is a number.
LEMMA RankTypes == IInv => CallRank \in Nat /\ CallbackRank \in Nat
<1> SUFFICES ASSUME IInv PROVE CallRank \in Nat /\ CallbackRank \in Nat
  OBVIOUS
<1>1. Len(api.list) + 1 - api.next \in Nat /\ Len(api.list) \in Nat
  BY EntryFacts
<1> QED
  BY <1>1 DEF CallRank, CallbackRank

\* A step of a call.
LEMMA CallStepNearer ==
  ASSUME IInv, api.pc # "idle", ApiSteps
  PROVE  CallRank' < CallRank
<1>1. /\ api \in ApiRecords
      /\ Len(api.list) \in Nat /\ api.next \in Nat \ {0} /\ api.next <= Len(api.list) + 1
  BY EntryFacts DEF IInv, Records
<1>2. ASSUME api' = ApiIdle
      PROVE  CallRank' < CallRank
  BY <1>1, <1>2, IdleRecord DEF CallRank, ApiRecords
<1>3. ASSUME api.pc \in {"convert", "library"}, api'.pc = api.pc,
             api'.list = api.list, api'.next = api.next + 1
      PROVE  CallRank' < CallRank
  <2>1. Len(api'.list) + 1 - api'.next = (Len(api.list) + 1 - api.next) - 1
    BY <1>1, <1>3
  <2>2. CASE api.pc = "convert"
    BY <1>1, <1>3, <2>1, <2>2 DEF CallRank
  <2>3. CASE api.pc = "library"
    BY <1>1, <1>3, <2>1, <2>3 DEF CallRank
  <2> QED
    BY <1>3, <2>2, <2>3
<1>4. CASE Convert
  BY <1>1, <1>3, <1>4 DEF Convert, ConvertNull, ConvertHandler, AtEntry, ApiRecords
<1>5. CASE LibraryCall
  <2>1. /\ api.pc = "convert" /\ api'.pc = "library" /\ api'.list = api.list
        /\ api'.next = 1 /\ api.next = Len(api.list) + 1
    BY <1>1, <1>5 DEF LibraryCall, ApiRecords
  <2> QED
    BY <1>1, <2>1 DEF CallRank
<1>6. CASE LibraryApplies
  BY <1>1, <1>3, <1>6 DEF LibraryApplies, LibraryDisables, LibraryEnables, LibraryRefuses,
     AtEntry, ApiRecords
<1>7. CASE LibraryReturns
  <2>1. PICK ok \in BOOLEAN : LibraryReturn(ok)
    BY <1>7 DEF LibraryReturns
  <2>2. CASE ok
    <3>1. api.pc = "library" /\ api'.pc = "cleanup" /\ api.next = Len(api.list) + 1
      BY <1>1, <2>1, <2>2 DEF LibraryReturn, ApiRecords
    <3> QED
      BY <1>1, <3>1 DEF CallRank
  <2>3. CASE ~ok
    BY <1>2, <2>1, <2>3 DEF LibraryReturn
  <2> QED
    BY <2>2, <2>3
<1>8. CASE ConvertFails \/ Cleanup \/ RemoveReturn \/ RemoveRefused
  BY <1>2, <1>8 DEF ConvertFails, Cleanup, RemoveReturn, RemoveRefused
<1> QED
  BY <1>4, <1>5, <1>6, <1>7, <1>8 DEF ApiSteps, RemoveBegin, SetBegin, Create

\* What the library has disabled does not call back again.
LEMMA DoneStaysDone ==
  ASSUME IInv, CallbackSteps, NEW attrs,
         \A at \in attrs : <<map[api.oid], at>> \notin DOMAIN sub,
         ~InFlight(map[api.oid], attrs)
  PROVE  ~InFlight(map[api.oid], attrs)'
<1> SUFFICES ASSUME cb'.pc # "idle", cb'.object = map[api.oid], cb'.attr \in attrs
             PROVE  FALSE
  BY CallbackStepsFacts DEF InFlight
<1> QED
  BY CallbackStepsFacts DEF InFlight

\* A set or a remove that has begun never waits in a circle, and takes at
\* most as many steps of its own as its rank says; a callback takes at most
\* three, and waits for nobody.  What CallsReturn adds is that the two
\* threads, the mutex and the library are fair.
THEOREM CallsEnd ==
  Spec => []NoCircle /\ [][CallsComeNearer]_vars
<1>1. Init => MutexHeld
  BY DEF Init, CbIdle, MutexHeld
<1>2. ASSUME IInv, MutexHeld
      PROVE  NoCircle
  <2> SUFFICES ASSUME api.pc # "idle", ~CallCanStep
               PROVE  CallbackCanStep \/ cb.pc = "stray"
    BY DEF NoCircle
  <2>1. CASE api.pc = "convert"
    <3>1. api.next <= Len(api.list) \/ api.next > Len(api.list)
      BY <1>2, EntryFacts
    <3>2. ContextFor(Entry.attr) \in locked
      BY <2>1, <3>1 DEF CallCanStep, AtEntry
    <3> QED
      BY <1>2, <3>2 DEF MutexHeld, CallbackCanStep
  <2>2. CASE api.pc \in {"library", "remove"}
    <3>1. cb.pc # "idle"
      BY <2>2 DEF CallCanStep, LibraryDone, InFlight
    <3> QED
      BY <1>2, <3>1 DEF IInv, Records, CbRecords, CallbackCanStep
  <2> QED
    BY <1>2, <2>1, <2>2 DEF IInv, Records, ApiRecords, CallCanStep
<1>3. ASSUME IInv, [Next]_vars
      PROVE  [CallsComeNearer]_vars
  <2> SUFFICES ASSUME Next PROVE CallsComeNearer
    BY <1>3
  <2>0. CallRank \in Nat /\ CallRank' \in Nat /\ CallbackRank \in Nat
    <3>1. (IInv => CallRank \in Nat /\ CallbackRank \in Nat)'
      BY RankTypes, PTL
    <3> QED
      BY <1>3, <3>1, NextIInv, RankTypes
  <2>1. CASE ApiSteps
    <3>1. UNCHANGED <<cb, locked, drains>> /\ CallbackRank' = CallbackRank
      BY <2>1, ApiStepsQuiet DEF CallbackRank
    <3>2. cb.pc # "idle" => ~CallbackSteps
      <4> SUFFICES ASSUME CallbackSteps, cb.pc # "idle" PROVE FALSE
        OBVIOUS
      <4> QED
        BY <1>3, <3>1, CallbackStepsFacts
    <3>3. api.pc # "idle" => CallRank' < CallRank
      BY <1>3, <2>1, CallStepNearer
    <3>4. api.pc # "idle" => api' # api
      <4> SUFFICES ASSUME api.pc # "idle", api' = api PROVE FALSE
        OBVIOUS
      <4>1. CallRank' = CallRank
        BY DEF CallRank
      <4> QED
        BY <2>0, <3>3, <4>1
    <3>5. CallRank' <= CallRank \/ api.pc = "idle"
      BY <2>0, <3>3
    <3> QED
      BY <2>0, <3>1, <3>2, <3>3, <3>4, <3>5 DEF CallsComeNearer
  <2>2. CASE CallbackSteps
    <3>1. UNCHANGED <<drains, map, sub, api>> /\ CallRank' = CallRank
      BY <1>3, <2>2, CallbackStepsFacts DEF CallRank
    <3>2. api.pc # "idle" => ~ApiSteps
      <4> SUFFICES ASSUME ApiSteps, api.pc # "idle" PROVE FALSE
        OBVIOUS
      <4>1. CallRank' < CallRank
        BY <1>3, CallStepNearer
      <4> QED
        BY <2>0, <3>1, <4>1
    <3>3. cb.pc # "idle" => CallbackRank' < CallbackRank
      BY <1>3, <2>2, CallbackStepsFacts DEF CallbackRank
    <3>4. ASSUME api.pc \in {"library", "remove"}, LibraryDone
          PROVE  LibraryDone'
      <4>1. \A at \in api.waits : <<map[api.oid], at>> \notin DOMAIN sub
        BY <1>3, <3>4 DEF IInv, CallUnderWay, NotHeld
      <4> QED
        BY <1>3, <2>2, <3>1, <3>4, <4>1, DoneStaysDone DEF LibraryDone
    <3>5. cb.pc # "idle" => CallbackRank' <= CallbackRank
      BY <2>0, <3>3, <1>3, <2>2, CallbackStepsFacts DEF CallbackRank
    <3> QED
      BY <2>0, <3>1, <3>2, <3>3, <3>4, <3>5 DEF CallsComeNearer
  <2> QED
    BY <2>1, <2>2 DEF Next
<1> QED
  BY <1>1, <1>2, <1>3, NextMutexHeld, Invariance, PTL DEF Spec
=============================================================================
