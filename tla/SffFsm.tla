-------------------------------- MODULE SffFsm --------------------------------
(***************************************************************************)
(* One transceiver slot of the SFF library (tai_sff/sff_fsm.cpp, and the   *)
(* part of Platform::create in sff.cpp that concerns one location): the    *)
(* state machine's thread, the API thread, and the eeprom file stream that *)
(* both of them read, while the transceiver is plugged and pulled.         *)
(*                                                                         *)
(* The state machine's loop belongs to the framework: it calls the state's *)
(* callback, then, when the state changes, the state change callback, and  *)
(* then takes the new state, until END.  transit writes the wanted state   *)
(* and an event descriptor that stays readable until it is read.           *)
(*                                                                         *)
(* FSM::remove_module, remove_netif and remove_hostif are operations of the *)
(* class that Platform::remove does not call yet (it answers NOT_SUPPORTED, *)
(* sff.hpp:21); they are modelled as if it did.                             *)
(*                                                                         *)
(* Bounds: FileSize and BufferSize stand for the length of the eeprom file *)
(* and of the stream's buffer, in bytes.                                   *)
(***************************************************************************)
EXTENDS Integers

CONSTANTS
  Services,     \* with and without a module_presence service, SUBSET BOOLEAN
  Netifs,       \* 0 .. SFF_NUM_NETIF - 1
  Hostifs,      \* 0 .. SFF_NUM_HOSTIF - 1
  FileSize, BufferSize,
  Addresses     \* where the attributes lie in the eeprom

ASSUME FsmAssumption ==
  /\ Services \subseteq BOOLEAN
  /\ FileSize \in Nat \ {0} /\ BufferSize \in Nat \ {0}
  /\ Addresses \subseteq 0 .. FileSize - 1

VARIABLES
  served,     \* the caller gave a module_presence service
  plugged,    \* the transceiver answers
  stream,     \* m_eeprom: failed, file position, bytes buffered from there on
  fsm,        \* the current state; "none" before the state machine exists
  next,       \* what the state's callback has returned, "none" while it runs
  event,      \* the event descriptor is readable
  seen,       \* _init_cb: what was last told of the module's presence
  module,     \* m_module # nullptr
  oper,       \* the module's OPER_STATUS, "unset" until it is first set
  netif,      \* slots of m_netif in use
  hostif,     \* slots of m_hostif in use
  api         \* the API thread: "idle", "creating", "removing"

vars == <<served, plugged, stream, fsm, next, event, seen, module, oper, netif, hostif, api>>

States == {"INIT", "WAITING_CONFIGURATION", "READY", "END"}

FreshStream == [failed |-> FALSE, pos |-> 0, buffered |-> 0]

-----------------------------------------------------------------------------
(* The stream.                                                             *)

Lesser(m, n) == IF m < n THEN m ELSE n

\* Reading one byte: from the buffer if it holds one, even of a transceiver
\* that is gone; else from the file.  A read that fails, or the end of the
\* file, sets failbit, and nothing in the code ever clears it.
ReadByte(s) ==
  IF s.failed THEN s
  ELSE IF s.buffered > 0 THEN [s EXCEPT !.pos = @ + 1, !.buffered = @ - 1]
  ELSE IF plugged /\ s.pos < FileSize
       THEN [s EXCEPT !.pos = @ + 1,
                      !.buffered = Lesser(BufferSize, FileSize - s.pos) - 1]
  ELSE [s EXCEPT !.failed = TRUE]

\* Fault: the buffer stays.
FaultSeekTo(s, address) == IF s.failed THEN s ELSE [s EXCEPT !.pos = address]

\* seekg drops the buffer, and does nothing on a failed stream.
SeekTo(s, address) ==
  IF s.failed THEN s ELSE [s EXCEPT !.pos = address, !.buffered = 0]

\* is_present: a byte was read.
IsPresent(s) == ~ReadByte(s).failed

-----------------------------------------------------------------------------
(* The framework's loop and the callbacks of the states.                   *)

Init ==
  /\ served \in Services
  /\ plugged \in BOOLEAN
  /\ stream = FreshStream
  /\ fsm = IF served THEN "INIT" ELSE "none"
  /\ next = "none"
  /\ event = FALSE
  /\ seen = "nothing"
  /\ module = FALSE /\ oper = "unset"
  /\ netif = {} /\ hostif = {}
  /\ api = "idle"

\* The timer of _init_cb: the presence is told when it changes.
InitPoll ==
  /\ fsm = "INIT" /\ next = "none" /\ ~event
  /\ stream' = ReadByte(stream)
  /\ seen' = IF IsPresent(stream) THEN "present" ELSE "absent"
  /\ next' = IF IsPresent(stream) THEN "WAITING_CONFIGURATION" ELSE "none"
  /\ UNCHANGED <<served, plugged, fsm, event, module, oper, netif, hostif, api>>

\* Fault: the presence is asked for once more.
FaultWaitingPoll ==
  /\ fsm = "WAITING_CONFIGURATION" /\ next = "none" /\ ~event
  /\ module /\ IsPresent(stream)
  /\ stream' = ReadByte(stream)
  /\ next' = "READY"
  /\ UNCHANGED <<served, plugged, fsm, event, seen, module, oper, netif, hostif, api>>

\* The timer of _waiting_configuration_cb.
WaitingPoll ==
  /\ fsm = "WAITING_CONFIGURATION" /\ next = "none" /\ ~event
  /\ module
  /\ next' = "READY"
  /\ UNCHANGED <<served, plugged, stream, fsm, event, seen, module, oper, netif, hostif, api>>

\* An attribute is read, by the API thread or, for a notification, at the
\* timer of _ready_cb: seek, then read.
EepromGet(address) ==
  /\ module
  /\ api = "idle" \/ fsm = "READY"
  /\ stream' = ReadByte(SeekTo(stream, address))
  /\ UNCHANGED <<served, plugged, fsm, next, event, seen, module, oper, netif, hostif, api>>

\* Fault: the INIT callback reads the event and drops it.
FaultEndEvent ==
  /\ fsm \in {"INIT", "WAITING_CONFIGURATION", "READY"} /\ next = "none"
  /\ event
  /\ event' = FALSE
  /\ next' = IF fsm = "INIT" THEN "none" ELSE "END"
  /\ UNCHANGED <<served, plugged, stream, fsm, seen, module, oper, netif, hostif, api>>

\* Any callback, when the event descriptor is readable: END is the only state
\* anybody transits to.
EndEvent ==
  /\ fsm \in {"INIT", "WAITING_CONFIGURATION", "READY"} /\ next = "none"
  /\ event
  /\ event' = FALSE
  /\ next' = "END"
  /\ UNCHANGED <<served, plugged, stream, fsm, seen, module, oper, netif, hostif, api>>

\* Fault: the module is told only of READY.
FaultStateChange ==
  /\ next # "none"
  /\ fsm' = next
  /\ next' = "none"
  /\ oper' = IF module /\ next = "READY" THEN "READY" ELSE oper
  /\ UNCHANGED <<served, plugged, stream, event, seen, module, netif, hostif, api>>

\* _state_change_cb, and the loop takes the new state.
StateChange ==
  /\ next # "none"
  /\ fsm' = next
  /\ next' = "none"
  /\ oper' = IF ~module THEN oper ELSE IF next = "READY" THEN "READY" ELSE "INITIALIZE"
  /\ UNCHANGED <<served, plugged, stream, event, seen, module, netif, hostif, api>>

-----------------------------------------------------------------------------
(* The API thread.                                                         *)

\* create(MODULE), first part, with the service: the slot must be present.
CreateServed ==
  /\ api = "idle"
  /\ served
  /\ stream' = ReadByte(stream)
  /\ api' = IF IsPresent(stream) THEN "creating" ELSE "idle"
  /\ UNCHANGED <<served, plugged, fsm, next, event, seen, module, oper, netif, hostif>>

\* Without it, the state machine is made and started; a location that has
\* one is refused.
CreateUnserved ==
  /\ api = "idle"
  /\ ~served
  /\ fsm = "none"
  /\ fsm' = "INIT"
  /\ api' = "creating"
  /\ UNCHANGED <<served, plugged, stream, next, event, seen, module, oper, netif, hostif>>

\* Second part: the constructor of Module throws, leaving the state machine
\* as it is, or set_module takes the module if there is none.
CreateFinish ==
  /\ api = "creating"
  /\ api' = "idle"
  /\ \/ module' = TRUE /\ oper' = IF module THEN oper ELSE "unset"
     \/ UNCHANGED <<module, oper>>
  /\ UNCHANGED <<served, plugged, stream, fsm, next, event, seen, netif, hostif>>

\* set_netif and set_hostif take a free slot of a configured module.
SetNetif(i) ==
  /\ api = "idle" /\ module
  /\ i \notin netif
  /\ netif' = netif \cup {i}
  /\ UNCHANGED <<served, plugged, stream, fsm, next, event, seen, module, oper, hostif, api>>

SetHostif(i) ==
  /\ api = "idle" /\ module
  /\ i \notin hostif
  /\ hostif' = hostif \cup {i}
  /\ UNCHANGED <<served, plugged, stream, fsm, next, event, seen, module, oper, netif, api>>

RemoveNetif(i) ==
  /\ api = "idle"
  /\ i \in netif
  /\ netif' = netif \ {i}
  /\ UNCHANGED <<served, plugged, stream, fsm, next, event, seen, module, oper, hostif, api>>

RemoveHostif(i) ==
  /\ api = "idle"
  /\ i \in hostif
  /\ hostif' = hostif \ {i}
  /\ UNCHANGED <<served, plugged, stream, fsm, next, event, seen, module, oper, netif, api>>

\* remove_module: refused while interfaces are left; then END is asked for.
RemoveModule ==
  /\ api = "idle"
  /\ module
  /\ netif = {} /\ hostif = {}
  /\ event' = TRUE
  /\ api' = "removing"
  /\ UNCHANGED <<served, plugged, stream, fsm, next, seen, module, oper, netif, hostif>>

\* Fault: remove_module does not wait for the state machine.
FaultRemoveModuleWaits ==
  /\ api = "removing"
  /\ module' = FALSE /\ oper' = "unset"
  /\ api' = "idle"
  /\ UNCHANGED <<served, plugged, stream, fsm, next, event, seen, netif, hostif>>

\* Its loop polls the state until the thread has come to END.
RemoveModuleWaits ==
  /\ api = "removing"
  /\ fsm = "END"
  /\ module' = FALSE /\ oper' = "unset"
  /\ api' = "idle"
  /\ UNCHANGED <<served, plugged, stream, fsm, next, event, seen, netif, hostif>>

-----------------------------------------------------------------------------

\* The transceiver is plugged or pulled.
Replug ==
  /\ plugged' = ~plugged
  /\ UNCHANGED <<served, stream, fsm, next, event, seen, module, oper, netif, hostif, api>>

Loop == InitPoll \/ WaitingPoll \/ EndEvent \/ StateChange

Next ==
  \/ InitPoll
  \/ WaitingPoll
  \/ EndEvent
  \/ StateChange
  \/ \E address \in Addresses : EepromGet(address)
  \/ CreateServed
  \/ CreateUnserved
  \/ CreateFinish
  \/ \E i \in Netifs : SetNetif(i) \/ RemoveNetif(i)
  \/ \E i \in Hostifs : SetHostif(i) \/ RemoveHostif(i)
  \/ RemoveModule
  \/ RemoveModuleWaits
  \/ Replug

Spec == Init /\ [][Next]_vars

\* The state machine's thread runs (its timers expire every second), and a
\* call that has begun goes on.  The transceiver and the callers owe nothing.
FairSpec == Spec /\ WF_vars(Loop) /\ WF_vars(CreateFinish) /\ WF_vars(RemoveModuleWaits)

-----------------------------------------------------------------------------
(* Properties.                                                             *)

TypeOK ==
  /\ served \in BOOLEAN /\ plugged \in BOOLEAN /\ event \in BOOLEAN /\ module \in BOOLEAN
  /\ stream \in [failed : BOOLEAN, pos : 0 .. FileSize, buffered : 0 .. BufferSize]
  /\ stream.pos + stream.buffered <= FileSize
  /\ fsm \in States \cup {"none"} /\ next \in States \cup {"none"}
  /\ seen \in {"nothing", "present", "absent"}
  /\ oper \in {"unset", "INITIALIZE", "READY"}
  /\ netif \subseteq Netifs /\ hostif \subseteq Hostifs
  /\ api \in {"idle", "creating", "removing"}

\* While the READY callback walks m_netif and m_module nobody takes the
\* module away: the thread is in READY only with a module, and interfaces
\* only exist under one.
ReadyHasModule ==
  /\ fsm = "READY" => module
  /\ netif \cup hostif # {} => module

\* OPER_STATUS says READY exactly while the state machine is in READY,
\* whatever order the creation of the module and the changes of state come in.
\* (StateChange is one step: between set_readonly, the notification and the
\* loop's taking of the new state, a getter may see one before the other.)
OperStatusTruth == module => (oper = "READY" <=> fsm = "READY")

\* A module that is created on a running state machine that has seen its
\* eeprom becomes READY, unless it is being removed.
CreatedBecomesReady ==
  fsm = "WAITING_CONFIGURATION" /\ module ~> fsm \in {"READY", "END"}

\* remove_module comes back, whatever state the machine is in when it asks
\* and even when a change of state is just under way.
RemoveReturns == api = "removing" ~> api = "idle"

\* "wait eeprom get readable" (sff_fsm.cpp:173): a state machine that waits
\* in INIT leaves it once the transceiver stays plugged.
ReadableLeavesInit == <>[]plugged => (fsm = "INIT" ~> fsm # "INIT")
=============================================================================
