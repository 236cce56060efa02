------------------------------ MODULE MuxNotify ------------------------------
(***************************************************************************)
(* Notifications through the TAI multiplexer (tai_mux/platform_adapter.cpp).*)
(* A caller's set of a notification attribute stores the caller's handler  *)
(* in a context and hands the real library the context and the             *)
(* multiplexer's own callback.  The library calls back from a thread of    *)
(* its own: notify reads the context, looks the id up, converts, locks the *)
(* context and calls the handler, while the API thread goes on setting,    *)
(* clearing, removing and creating.                                        *)
(*                                                                         *)
(* An object is the number of its creation, so that an id that was given   *)
(* back and taken again can be told from its earlier owner.  A list of     *)
(* attributes has an order and may name an attribute more than once.       *)
(* Bounds: MaxObjects creations, MaxContexts contexts allocated, MaxList   *)
(* attributes in a list.                                                   *)
(***************************************************************************)
EXTENDS Integers, Sequences

CONSTANTS
  MaxOid, Attrs, Handlers,
  NoHandler,      \* a null notify pointer
  NoContext,      \* "no context"
  MaxObjects, MaxContexts, MaxList

ASSUME NotifyAssumption ==
  /\ MaxOid \in Nat /\ MaxObjects \in Nat /\ MaxContexts \in Nat
  /\ MaxList \in Nat
  /\ NoHandler \notin Handlers

VARIABLES
  map,        \* m_map: id -> object
  nmap,       \* m_notification_map: <<id, attribute>> -> context
  ctx,        \* the contexts allocated and not freed: handler and muxed_oid
  locked,     \* contexts whose mutex the callback thread holds
  drains,     \* the library has finished its callbacks when it returns from
              \* clearing a handler or from a remove
  sub,        \* the library's table: <<object, attribute>> -> context
  refilled,   \* history, read by no step: the contexts that were freed by a
              \* list that had filled them again after its null entry
  api,        \* the API thread
  cb,         \* the library's callback thread
  objects,    \* number of objects created so far
  contexts    \* number of contexts allocated so far

vars == <<map, nmap, ctx, locked, drains, sub, refilled, api, cb, objects, contexts>>

Oids == 1 .. MaxOid
Put(f, k, v) == [x \in DOMAIN f \cup {k} |-> IF x = k THEN v ELSE f[x]]
Without(f, S) == [x \in DOMAIN f \ S |-> f[x]]

Entries == [attr : Attrs, handler : Handlers \cup {NoHandler}]
Lists == UNION {[1 .. n -> Entries] : n \in 0 .. MaxList}

\* A call: where it is, the id and list it was given, the next entry of the
\* list, the attributes whose callbacks a draining library is waiting for,
\* and whether the library has applied every entry so far.
ApiIdle == [pc |-> "idle", oid |-> 0, list |-> <<>>, next |-> 1, waits |-> {}, ok |-> TRUE]
CbIdle == [pc |-> "idle", context |-> NoContext, object |-> 0, attr |-> NoHandler]

Init ==
  /\ map = <<>> /\ nmap = <<>> /\ ctx = <<>> /\ locked = {} /\ sub = <<>>
  /\ drains \in BOOLEAN
  /\ refilled = {}
  /\ api = ApiIdle /\ cb = CbIdle
  /\ objects = 0 /\ contexts = 0

-----------------------------------------------------------------------------
(* PlatformAdapter::set.                                                   *)

\* The id is mapped; an unmapped one is answered FAILURE and changes nothing.
\* The bound on contexts stops new calls, never a call that has begun.
SetBegin(o, list) ==
  /\ api.pc = "idle"
  /\ o \in DOMAIN map
  /\ contexts + Len(list) <= MaxContexts
  /\ api' = [ApiIdle EXCEPT !.pc = "convert", !.oid = o, !.list = list]
  /\ UNCHANGED <<drains, map, nmap, ctx, locked, sub, refilled, cb, objects, contexts>>

\* The entry of the list that the call, or the library, is at.
AtEntry(pc) == api.pc = pc /\ api.next <= Len(api.list)
Entry == api.list[api.next]

\* convert_oid with a null handler leaves the context alone.
ConvertNull ==
  /\ AtEntry("convert") /\ Entry.handler = NoHandler
  /\ api' = [api EXCEPT !.next = @ + 1]
  /\ UNCHANGED <<drains, map, nmap, ctx, locked, sub, refilled, cb, objects, contexts>>

\* Fault: contexts are looked up by the id alone.
FaultConvertHandlerPerObject ==
  /\ AtEntry("convert") /\ Entry.handler # NoHandler
  /\ \E c \in {nmap[k] : k \in {l \in DOMAIN nmap : l[1] = api.oid}} \cup {contexts + 1} :
       /\ c \notin locked
       /\ c = contexts + 1 => \A l \in DOMAIN nmap : l[1] # api.oid
       /\ nmap' = Put(nmap, <<api.oid, Entry.attr>>, c)
       /\ ctx' = Put(ctx, c, [handler |-> Entry.handler, oid |-> api.oid])
       /\ contexts' = IF c > contexts THEN c ELSE contexts
  /\ api' = [api EXCEPT !.next = @ + 1]
  /\ UNCHANGED <<drains, map, locked, sub, refilled, cb, objects>>

\* Fault: a key that has a context is given a new one, which frees the other.
FaultConvertHandlerReplaces ==
  /\ AtEntry("convert") /\ Entry.handler # NoHandler
  /\ LET key == <<api.oid, Entry.attr>>
         old == {nmap[k] : k \in {key} \cap DOMAIN nmap}
         c == contexts + 1
     IN  /\ nmap' = Put(nmap, key, c)
         /\ ctx' = Put(Without(ctx, old), c, [handler |-> Entry.handler, oid |-> api.oid])
         /\ contexts' = c
  /\ api' = [api EXCEPT !.next = @ + 1]
  /\ UNCHANGED <<drains, map, locked, sub, refilled, cb, objects>>

\* convert_oid with a handler: the context of the key is made if missing and,
\* under its mutex, filled in.
ConvertHandler ==
  /\ AtEntry("convert") /\ Entry.handler # NoHandler
  /\ LET key == <<api.oid, Entry.attr>>
         known == key \in DOMAIN nmap
         c == IF known THEN nmap[key] ELSE contexts + 1
     IN  /\ c \notin locked
         /\ nmap' = Put(nmap, key, c)
         /\ ctx' = Put(ctx, c, [handler |-> Entry.handler, oid |-> api.oid])
         /\ contexts' = IF known THEN contexts ELSE c
  /\ api' = [api EXCEPT !.next = @ + 1]
  /\ UNCHANGED <<drains, map, locked, sub, refilled, cb, objects>>

\* No metadata for an attribute of the list: set returns, what it has already
\* stored in contexts stays.
ConvertFails ==
  /\ AtEntry("convert")
  /\ api' = ApiIdle
  /\ UNCHANGED <<drains, map, nmap, ctx, locked, sub, refilled, cb, objects, contexts>>

\* The whole list is converted and handed to the real set_attributes.
LibraryCall ==
  /\ api.pc = "convert" /\ api.next > Len(api.list)
  /\ api' = [api EXCEPT !.pc = "library", !.next = 1]
  /\ UNCHANGED <<drains, map, nmap, ctx, locked, sub, refilled, cb, objects, contexts>>

InFlight(object, attrs) ==
  cb.pc # "idle" /\ cb.object = object /\ cb.attr \in attrs

\* A draining library goes on only after the callbacks of what it has just
\* disabled.
LibraryDone == drains => ~InFlight(map[api.oid], api.waits)

\* The library takes the entries in order.  A null entry takes the handler out
\* of its table,
LibraryDisables ==
  /\ AtEntry("library") /\ LibraryDone
  /\ Entry.handler = NoHandler
  /\ sub' = Without(sub, {<<map[api.oid], Entry.attr>>})
  /\ api' = [api EXCEPT !.next = @ + 1, !.waits = {Entry.attr}]
  /\ UNCHANGED <<drains, map, nmap, ctx, locked, refilled, cb, objects, contexts>>

\* any other puts the context in that convert_oid has written into the entry,
LibraryEnables ==
  /\ AtEntry("library") /\ LibraryDone
  /\ Entry.handler # NoHandler
  /\ sub' = Put(sub, <<map[api.oid], Entry.attr>>, nmap[<<api.oid, Entry.attr>>])
  /\ api' = [api EXCEPT !.next = @ + 1, !.waits = {}]
  /\ UNCHANGED <<drains, map, nmap, ctx, locked, refilled, cb, objects, contexts>>

\* and an entry the library does not apply makes the call fail in the end.
LibraryRefuses ==
  /\ AtEntry("library") /\ LibraryDone
  /\ api' = [api EXCEPT !.next = @ + 1, !.waits = {}, !.ok = FALSE]
  /\ UNCHANGED <<drains, map, nmap, ctx, locked, sub, refilled, cb, objects, contexts>>

\* Fault: the contexts are cleaned up although the library has refused.
FaultLibraryReturnCleansAlways(ok) ==
  /\ api.pc = "library" /\ api.next > Len(api.list) /\ LibraryDone
  /\ ok => api.ok
  /\ api' = [api EXCEPT !.pc = "cleanup"]
  /\ UNCHANGED <<drains, map, nmap, ctx, locked, sub, refilled, cb, objects, contexts>>

\* After the last entry the call returns; a library may report a failure
\* although it has applied everything.
LibraryReturn(ok) ==
  /\ api.pc = "library" /\ api.next > Len(api.list) /\ LibraryDone
  /\ ok => api.ok
  /\ api' = IF ok THEN [api EXCEPT !.pc = "cleanup"] ELSE ApiIdle
  /\ UNCHANGED <<drains, map, nmap, ctx, locked, sub, refilled, cb, objects, contexts>>

\* keys_to_remove: every attribute with a null entry anywhere in the list.
Cleared == {at \in Attrs :
              \E i \in 1 .. Len(api.list) :
                api.list[i].attr = at /\ api.list[i].handler = NoHandler}

\* The attributes that the first n entries leave without a handler: those
\* whose last entry among them is a null one.
LeftOff(n) == {at \in Attrs :
                 \E i \in 1 .. n :
                   /\ api.list[i].attr = at /\ api.list[i].handler = NoHandler
                   /\ \A j \in i + 1 .. n : api.list[j].attr # at}

\* Fault: the context is freed, its entry stays.
FaultCleanupKeepsEntry ==
  /\ api.pc = "cleanup"
  /\ LET keys == {<<api.oid, at>> : at \in Cleared} \cap DOMAIN nmap
     IN  ctx' = Without(ctx, {nmap[k] : k \in keys})
  /\ api' = ApiIdle
  /\ UNCHANGED <<drains, map, nmap, locked, sub, refilled, cb, objects, contexts>>

\* After a successful call the contexts of keys_to_remove are erased from the
\* map, which frees them, also those that a later entry of the list has
\* filled again and the library has just been given.
Cleanup ==
  /\ api.pc = "cleanup"
  /\ LET keys == {<<api.oid, at>> : at \in Cleared} \cap DOMAIN nmap
     IN  /\ nmap' = Without(nmap, keys)
         /\ ctx' = Without(ctx, {nmap[k] : k \in keys})
         /\ refilled' = refilled \cup
              {nmap[k] : k \in {l \in keys : l[2] \notin LeftOff(Len(api.list))}}
  /\ api' = ApiIdle
  /\ UNCHANGED <<drains, map, locked, sub, cb, objects, contexts>>

-----------------------------------------------------------------------------
(* Platform::create and remove, as far as they matter here.                *)

Create ==
  /\ api.pc = "idle"
  /\ objects < MaxObjects
  /\ \E o \in Oids \ DOMAIN map :
       /\ \A p \in Oids \ DOMAIN map : o <= p
       /\ map' = Put(map, o, objects + 1)
  /\ objects' = objects + 1
  /\ UNCHANGED <<drains, nmap, ctx, locked, sub, refilled, api, cb, contexts>>

\* The real remove takes the object's handlers out of the library.
RemoveBegin(o) ==
  /\ api.pc = "idle"
  /\ o \in DOMAIN map
  /\ sub' = Without(sub, {<<map[o], at>> : at \in Attrs})
  /\ api' = [ApiIdle EXCEPT !.pc = "remove", !.oid = o, !.waits = Attrs]
  /\ UNCHANGED <<drains, map, nmap, ctx, locked, refilled, cb, objects, contexts>>

\* Fault: the id is given back while the library is still at work.
FaultRemoveReturnEarly ==
  /\ api.pc = "remove"
  /\ map' = Without(map, {api.oid})
  /\ api' = ApiIdle
  /\ UNCHANGED <<drains, nmap, ctx, locked, sub, refilled, cb, objects, contexts>>

\* Then the id is given back; m_notification_map is not looked at.
RemoveReturn ==
  /\ api.pc = "remove"
  /\ LibraryDone
  /\ map' = Without(map, {api.oid})
  /\ api' = ApiIdle
  /\ UNCHANGED <<drains, nmap, ctx, locked, sub, refilled, cb, objects, contexts>>

\* A remove that the library refuses in the end leaves the id mapped.
RemoveRefused ==
  /\ api.pc = "remove"
  /\ api' = ApiIdle
  /\ UNCHANGED <<drains, map, nmap, ctx, locked, sub, refilled, cb, objects, contexts>>

-----------------------------------------------------------------------------
(* notification_callback and PlatformAdapter::notify.                      *)

\* The library calls back with the context it was given.
Raise(key) ==
  /\ cb.pc = "idle"
  /\ key \in DOMAIN sub
  /\ cb' = [pc |-> "entered", context |-> sub[key], object |-> key[1], attr |-> key[2]]
  /\ UNCHANGED <<drains, map, nmap, ctx, locked, sub, refilled, api, objects, contexts>>

\* muxed_oid is read without the mutex and looked up; an id that is gone ends
\* the callback.  Reading a freed context yields anything.
Lookup ==
  /\ cb.pc = "entered"
  /\ \E o \in IF cb.context \in DOMAIN ctx THEN {ctx[cb.context].oid} ELSE Oids \cup {0} :
       cb' = IF o \in DOMAIN map THEN [cb EXCEPT !.pc = "converted"] ELSE CbIdle
  /\ UNCHANGED <<drains, map, nmap, ctx, locked, sub, refilled, api, objects, contexts>>

\* The handler is called under the context's mutex.
Deliver ==
  /\ cb.pc = "converted"
  /\ locked' = locked \cup {cb.context}
  /\ cb' = [cb EXCEPT !.pc = "delivering"]
  /\ UNCHANGED <<drains, map, nmap, ctx, sub, refilled, api, objects, contexts>>

\* Fault: the mutex is not released.
FaultReturnKeepsMutex ==
  /\ cb.pc = "delivering"
  /\ cb' = CbIdle
  /\ UNCHANGED <<drains, map, nmap, ctx, locked, sub, refilled, api, objects, contexts>>

Return ==
  /\ cb.pc = "delivering"
  /\ locked' = locked \ {cb.context}
  /\ cb' = CbIdle
  /\ UNCHANGED <<drains, map, nmap, ctx, sub, refilled, api, objects, contexts>>

\* A callback whose context has been freed under it calls through whatever
\* is there by now, or waits for a mutex that is none: its thread does not
\* come back.
Stray ==
  /\ cb.pc \notin {"idle", "stray"}
  /\ cb.context \notin DOMAIN ctx
  /\ cb' = [cb EXCEPT !.pc = "stray"]
  /\ locked' = locked \ {cb.context}
  /\ UNCHANGED <<drains, map, nmap, ctx, sub, refilled, api, objects, contexts>>

-----------------------------------------------------------------------------

Convert == ConvertNull \/ ConvertHandler

LibraryApplies == LibraryDisables \/ LibraryEnables \/ LibraryRefuses

LibraryReturns == \E ok \in BOOLEAN : LibraryReturn(ok)

ApiSteps ==
  \/ \E o \in Oids : \/ RemoveBegin(o)
                     \/ \E list \in Lists : SetBegin(o, list)
  \/ Create
  \/ Convert
  \/ ConvertFails
  \/ LibraryCall
  \/ LibraryApplies
  \/ LibraryReturns
  \/ Cleanup
  \/ RemoveReturn
  \/ RemoveRefused

CallbackSteps ==
  \/ \E key \in (1 .. MaxObjects) \X Attrs : Raise(key)
  \/ Lookup
  \/ Deliver
  \/ Return
  \/ Stray

Next == ApiSteps \/ CallbackSteps

Spec == Init /\ [][Next]_vars

\* A call that has begun and a callback that has begun run on; a mutex that
\* is free again and again is granted; a library returns from a call once
\* what it waits for is over.  Nobody has to begin anything.
Fairness ==
  /\ WF_vars(Lookup) /\ WF_vars(Deliver) /\ WF_vars(Return)
  /\ SF_vars(Convert)
  /\ WF_vars(LibraryCall) /\ WF_vars(LibraryApplies) /\ WF_vars(LibraryReturns)
  /\ WF_vars(Cleanup) /\ WF_vars(RemoveReturn)

FairSpec == Spec /\ Fairness

-----------------------------------------------------------------------------
(* Properties.                                                             *)

\* Types, and every key's context is allocated.
TypeOK ==
  /\ DOMAIN map \subseteq Oids /\ \A o \in DOMAIN map : map[o] \in 1 .. objects
  /\ DOMAIN nmap \subseteq Oids \X Attrs
  /\ \A k \in DOMAIN nmap : nmap[k] \in DOMAIN ctx
  /\ DOMAIN ctx \subseteq 1 .. contexts
  /\ \A c \in DOMAIN ctx : ctx[c] \in [handler : Handlers, oid : Oids]
  /\ locked \subseteq 1 .. contexts /\ refilled \subseteq 1 .. contexts
  /\ DOMAIN sub \subseteq (1 .. objects) \X Attrs
  /\ objects \in 0 .. MaxObjects /\ contexts \in 0 .. MaxContexts

\* Whatever calls fail or stop half way, a handler the library holds for a
\* live object points to the context m_notification_map has for the object's
\* id, and that context names the id: no library callback is registered on a
\* freed or foreign context, except on one that a list has freed after it had
\* filled it again.
SubscriptionsBacked ==
  \A k \in DOMAIN sub :
    \E o \in DOMAIN map :
      /\ map[o] = k[1]
      /\ \/ sub[k] \in refilled
         \/ /\ <<o, k[2]>> \in DOMAIN nmap
            /\ nmap[<<o, k[2]>>] = sub[k]
            /\ ctx[sub[k]].oid = o

\* "we'll clean the context after disabling the callback", says convert_oid
\* (platform_adapter.cpp:130-132): a context that is gone is one the library
\* no longer holds.  A list with a null entry and then a handler for the same
\* attribute has its context erased with the callback enabled.
CleanedAfterDisabling == \A k \in DOMAIN sub : sub[k] \in DOMAIN ctx

\* A context belongs to one key: two notification attributes, or two ids,
\* never share a handler slot.
ContextsUnshared ==
  \A k, l \in DOMAIN nmap : nmap[k] = nmap[l] => k = l

\* With draining libraries a callback works on a freed context only where a
\* list has freed what it had filled again.
NoUseAfterFree ==
  drains /\ cb.pc # "idle" => cb.context \in DOMAIN ctx \cup refilled

\* With draining libraries, and apart from those contexts, a handler is told
\* the id of the very object that raised the notification, even when the id
\* had an earlier owner whose context is still in m_notification_map.
DeliveredUnderOwnId ==
  drains /\ cb.pc = "delivering" /\ cb.context \notin refilled =>
    LET o == ctx[cb.context].oid IN o \in DOMAIN map /\ map[o] = cb.object

\* A set or a remove that has begun returns, unless a callback has strayed on
\* a freed context: the API thread waiting for the library, the library
\* waiting for its callback and the callback under the context's mutex never
\* wait in a circle.
CallsReturn == api.pc # "idle" ~> api.pc = "idle" \/ cb.pc = "stray"
=============================================================================
