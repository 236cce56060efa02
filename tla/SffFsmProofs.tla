----------------------------- MODULE SffFsmProofs -----------------------------
(***************************************************************************)
(* Proofs about SffFsm, for an eeprom and a stream's buffer of any length, *)
(* any attributes in it and any number of slots.  The checked invariants   *)
(* are not inductive by themselves: a module may be created or removed     *)
(* between the moment a state's callback returns and the moment the loop   *)
(* takes the state, so the invariant says what holds in between            *)
(* (Transitions), and what a call that has begun may rely on (Calls).      *)
(***************************************************************************)
EXTENDS SffFsm, TLAPS

\* The only edges of the state machine: nobody asks for INIT, READY is asked
\* for in WAITING_CONFIGURATION by a callback that saw a module, and a state
\* machine that does not exist or has ended asks for nothing.
Transitions ==
  /\ next \in {"none", "WAITING_CONFIGURATION", "READY", "END"}
  /\ next = "WAITING_CONFIGURATION" => fsm = "INIT"
  /\ next = "READY" => fsm = "WAITING_CONFIGURATION" /\ module
  /\ fsm \in {"none", "END"} => next = "none"

\* The state machine exists where the service is given, and a module is
\* created on an existing one; while remove_module
\* waits, its module is there and has no interface.
Calls ==
  /\ served \/ module \/ api = "creating" => fsm # "none"
  /\ api = "removing" => module /\ netif = {} /\ hostif = {}

IInv ==
  /\ TypeOK
  /\ Transitions
  /\ Calls
  /\ ReadyHasModule
  /\ OperStatusTruth

-----------------------------------------------------------------------------
(* The stream.                                                             *)

Streams == [failed : BOOLEAN, pos : 0 .. FileSize, buffered : 0 .. BufferSize]

\* What is buffered lies within the file.
WithinFile(s) == s \in Streams /\ s.pos + s.buffered <= FileSize

\* A stream whose position and buffer are moved within the file.
LEMMA MovedWithin ==
  ASSUME NEW s \in Streams, NEW p \in 0 .. FileSize, NEW b \in 0 .. BufferSize,
         p + b <= FileSize
  PROVE  WithinFile([s EXCEPT !.pos = p, !.buffered = b])
<1> DEFINE u == [s EXCEPT !.pos = p, !.buffered = b]
<1>1. u \in Streams
  BY DEF Streams
<1>2. u.pos = p /\ u.buffered = b
  BY DEF Streams
<1> QED
  BY <1>1, <1>2 DEF WithinFile

\* Reading a byte never leaves the file, nor fills more than the buffer.
LEMMA ReadByteWithin ==
  ASSUME NEW s, WithinFile(s)
  PROVE  WithinFile(ReadByte(s))
<1>0. /\ s \in Streams /\ s.failed \in BOOLEAN
      /\ s.pos \in 0 .. FileSize /\ s.buffered \in 0 .. BufferSize
      /\ s.pos + s.buffered <= FileSize
      /\ FileSize \in Nat \ {0} /\ BufferSize \in Nat \ {0}
  BY FsmAssumption DEF WithinFile, Streams
<1>1. CASE s.failed
  BY <1>1 DEF ReadByte
<1>2. CASE ~s.failed /\ s.buffered > 0
  <2>1. /\ s.pos + 1 \in 0 .. FileSize /\ s.buffered - 1 \in 0 .. BufferSize
        /\ (s.pos + 1) + (s.buffered - 1) <= FileSize
    BY <1>0, <1>2
  <2>2. ReadByte(s) = [s EXCEPT !.pos = s.pos + 1, !.buffered = s.buffered - 1]
    BY <1>2 DEF ReadByte
  <2> QED
    BY <1>0, <2>1, <2>2, MovedWithin
<1>3. CASE ~s.failed /\ ~(s.buffered > 0) /\ plugged /\ s.pos < FileSize
  <2> DEFINE n == Lesser(BufferSize, FileSize - s.pos)
  <2>1. n \in 1 .. BufferSize /\ n <= FileSize - s.pos
    BY <1>0, <1>3 DEF Lesser
  <2>2. ReadByte(s) = [s EXCEPT !.pos = s.pos + 1, !.buffered = n - 1]
    BY <1>3 DEF ReadByte
  <2> HIDE DEF n
  <2>3. /\ s.pos + 1 \in 0 .. FileSize /\ n - 1 \in 0 .. BufferSize
        /\ (s.pos + 1) + (n - 1) <= FileSize
    BY <1>0, <1>3, <2>1
  <2> QED
    BY <1>0, <2>2, <2>3, MovedWithin
<1>4. CASE ~s.failed /\ ~(s.buffered > 0) /\ ~(plugged /\ s.pos < FileSize)
  <2>1. ReadByte(s) = [s EXCEPT !.failed = TRUE]
    BY <1>4 DEF ReadByte
  <2> DEFINE u == [s EXCEPT !.failed = TRUE]
  <2>2. u \in Streams
    BY <1>0 DEF Streams
  <2>3. u.pos = s.pos /\ u.buffered = s.buffered
    BY <1>0 DEF Streams
  <2> QED
    BY <1>0, <2>1, <2>2, <2>3 DEF WithinFile
<1> QED
  BY <1>0, <1>1, <1>2, <1>3, <1>4

\* Seeking to an attribute stays within the file.
LEMMA SeekToWithin ==
  ASSUME NEW s, WithinFile(s), NEW address \in Addresses
  PROVE  WithinFile(SeekTo(s, address))
<1>1. /\ address \in 0 .. FileSize /\ 0 \in 0 .. BufferSize
      /\ address + 0 <= FileSize
  BY FsmAssumption
<1>2. s \in Streams
  BY DEF WithinFile
<1>3. CASE s.failed
  BY <1>3 DEF SeekTo
<1>4. CASE ~s.failed
  <2>1. SeekTo(s, address) = [s EXCEPT !.pos = address, !.buffered = 0]
    BY <1>4 DEF SeekTo
  <2> QED
    BY <1>1, <1>2, <2>1, MovedWithin
<1> QED
  BY <1>3, <1>4

-----------------------------------------------------------------------------

\* The state machine before its thread runs.
LEMMA InitIInv == Init => IInv
<1> SUFFICES ASSUME Init PROVE IInv
  OBVIOUS
<1>1. served \in BOOLEAN
  BY FsmAssumption DEF Init
<1>2. /\ stream \in [failed : BOOLEAN, pos : 0 .. FileSize, buffered : 0 .. BufferSize]
      /\ stream.pos + stream.buffered <= FileSize
  BY FsmAssumption DEF Init, FreshStream
<1> QED
  BY <1>1, <1>2 DEF Init, FreshStream, States, IInv, TypeOK, Transitions, Calls,
     ReadyHasModule, OperStatusTruth

\* Every step of the state machine's thread, of the API thread and of the
\* transceiver keeps the invariant.
LEMMA NextIInv == IInv /\ [Next]_vars => IInv'
<1> SUFFICES ASSUME IInv, [Next]_vars PROVE IInv'
  OBVIOUS
<1>0. WithinFile(stream)
  BY DEF IInv, TypeOK, WithinFile, Streams
<1>r. WithinFile(ReadByte(stream))
  BY <1>0, ReadByteWithin
<1> USE DEF IInv, TypeOK, States, Transitions, Calls, ReadyHasModule, OperStatusTruth
<1>1. CASE InitPoll
  BY <1>1, <1>r DEF InitPoll, WithinFile, Streams
<1>2. CASE WaitingPoll
  BY <1>2 DEF WaitingPoll
<1>3. CASE EndEvent
  BY <1>3 DEF EndEvent
<1>4. CASE StateChange
  BY <1>4 DEF StateChange
<1>5. ASSUME NEW address \in Addresses, EepromGet(address) PROVE IInv'
  <2>1. WithinFile(ReadByte(SeekTo(stream, address)))
    BY <1>0, SeekToWithin, ReadByteWithin
  <2> QED
    BY <1>5, <2>1 DEF EepromGet, WithinFile, Streams
<1>6. CASE CreateServed
  <2>1. fsm # "none"
    BY <1>6 DEF CreateServed
  <2> QED
    BY <1>6, <1>r, <2>1 DEF CreateServed, WithinFile, Streams
<1>7. CASE CreateUnserved
  BY <1>7 DEF CreateUnserved
<1>8. CASE CreateFinish
  <2>1. CASE module' = TRUE /\ oper' = IF module THEN oper ELSE "unset"
    BY <1>8, <2>1 DEF CreateFinish
  <2>2. CASE UNCHANGED <<module, oper>>
    BY <1>8, <2>2 DEF CreateFinish
  <2> QED
    BY <1>8, <2>1, <2>2 DEF CreateFinish
<1>9. ASSUME NEW i \in Netifs, SetNetif(i) \/ RemoveNetif(i) PROVE IInv'
  BY <1>9 DEF SetNetif, RemoveNetif
<1>10. ASSUME NEW i \in Hostifs, SetHostif(i) \/ RemoveHostif(i) PROVE IInv'
  BY <1>10 DEF SetHostif, RemoveHostif
<1>11. CASE RemoveModule
  BY <1>11 DEF RemoveModule
<1>12. CASE RemoveModuleWaits
  BY <1>12 DEF RemoveModuleWaits
<1>13. CASE Replug
  BY <1>13 DEF Replug
<1>14. CASE UNCHANGED vars
  BY <1>14 DEF vars
<1> QED
  BY <1>1, <1>2, <1>3, <1>4, <1>5, <1>6, <1>7, <1>8, <1>9, <1>10, <1>11, <1>12, <1>13,
     <1>14 DEF Next

\* Every state of the state machine satisfies the inductive invariant.
THEOREM Invariance == Spec => []IInv
<1>1. Init => IInv
  BY InitIInv
<1>2. IInv /\ [Next]_vars => IInv'
  BY NextIInv
<1> QED
  BY <1>1, <1>2, PTL DEF Spec

-----------------------------------------------------------------------------
(* The theorems.                                                           *)

\* The threads' variables keep their types; the stream's position and what
\* it has buffered never pass the end of the eeprom file.
THEOREM TypeCorrect == Spec => []TypeOK
<1>1. IInv => TypeOK
  BY DEF IInv
<1> QED
  BY <1>1, Invariance, PTL

\* The READY callback and the interfaces always have a module under them,
\* whenever the API thread creates or removes it.
THEOREM ReadyModule == Spec => []ReadyHasModule
<1>1. IInv => ReadyHasModule
  BY DEF IInv
<1> QED
  BY <1>1, Invariance, PTL

\* A module's OPER_STATUS is READY exactly while the state machine is READY.
THEOREM OperStatus == Spec => []OperStatusTruth
<1>1. IInv => OperStatusTruth
  BY DEF IInv
<1> QED
  BY <1>1, Invariance, PTL

\* remove_module takes a module away when no interface is left on it and
\* the state machine's thread has come to END; and from END it never comes
\* back, so that neither its callbacks nor a change of state that was under
\* way can meet the freed module.
EndIsFinal ==
  /\ module /\ ~module' => fsm = "END" /\ netif \cup hostif = {}
  /\ fsm = "END" => fsm' = "END" /\ next' = "none"

\* Every step is safe for the module in this sense: what RemoveModuleWaits
\* waits for is the last thing the thread does.
THEOREM RemovedAtEnd == Spec => [][EndIsFinal]_vars
<1>1. IInv /\ [Next]_vars => [EndIsFinal]_vars
  BY DEF EndIsFinal, IInv, TypeOK, Transitions, Calls, Next, vars, InitPoll, WaitingPoll,
     EndEvent, StateChange, EepromGet, CreateServed, CreateUnserved, CreateFinish, SetNetif,
     RemoveNetif, SetHostif, RemoveHostif, RemoveModule, RemoveModuleWaits, Replug
<1> QED
  BY <1>1, Invariance, PTL DEF Spec

-----------------------------------------------------------------------------
(* How far the thread still is from what others wait for: the part of the  *)
(* liveness properties that needs no fairness.                             *)

\* What remove_module has asked for is on its way, or done.
RemovalAsked == api = "removing" => fsm = "END" \/ next = "END" \/ event

\* The steps of the loop until END: a change of state that is just under way,
\* the event, the change to END.
RemoveRank ==
  IF fsm = "END" THEN 0
  ELSE IF next = "END" THEN 1
  ELSE IF next = "none" THEN 2
  ELSE 3

\* While remove_module waits, the loop has a step to take or it need wait no
\* longer: the guards of StateChange, EndEvent and RemoveModuleWaits.
RemoveGoesOn ==
  api = "removing" =>
    \/ fsm = "END"
    \/ next # "none"
    \/ fsm \in {"INIT", "WAITING_CONFIGURATION", "READY"} /\ event

\* It waits until its module has gone; every step of the loop meanwhile brings
\* the thread nearer to END, and nothing takes it away from there again.
RemoveComesNearer ==
  api = "removing" =>
    /\ api' = "removing" \/ ~module'
    /\ RemoveRank' <= RemoveRank
    /\ Loop => RemoveRank' < RemoveRank

\* The steps of the loop until a configured module is READY.
ReadyRank ==
  IF fsm # "WAITING_CONFIGURATION" THEN 0 ELSE IF next = "none" THEN 2 ELSE 1

\* With a module, WAITING_CONFIGURATION is left for READY or END only, the
\* module is there until then, and every step of the loop brings it nearer.
ReadyComesNearer ==
  fsm = "WAITING_CONFIGURATION" /\ module =>
    /\ (fsm' = fsm /\ module') \/ fsm' \in {"READY", "END"}
    /\ ReadyRank' <= ReadyRank
    /\ Loop => ReadyRank' < ReadyRank

\* The event stays until a callback has read it, and what that returned until
\* the loop has taken it.
LEMMA AskedStays ==
  ASSUME IInv, RemovalAsked, [Next]_vars
  PROVE  RemovalAsked'
BY DEF IInv, RemovalAsked, Transitions, Next, vars, InitPoll, WaitingPoll,
   EndEvent, StateChange, EepromGet, CreateServed, CreateUnserved, CreateFinish, SetNetif,
   RemoveNetif, SetHostif, RemoveHostif, RemoveModule, RemoveModuleWaits, Replug

\* What RemoveReturns says is that remove_module comes back.  It does, after at
\* most three steps of the state machine's thread: it is never stuck, whatever
\* state and whatever change of state it finds.
THEOREM RemoveEnds ==
  Spec => [](RemoveGoesOn /\ RemoveRank \in 0 .. 3) /\ [][RemoveComesNearer]_vars
<1>1. Init => RemovalAsked
  BY DEF Init, RemovalAsked
<1>2. IInv /\ RemovalAsked => RemoveGoesOn /\ RemoveRank \in 0 .. 3
  BY DEF IInv, TypeOK, States, Calls, RemovalAsked, RemoveGoesOn, RemoveRank
<1>3. ASSUME IInv, RemovalAsked, [Next]_vars
      PROVE  [RemoveComesNearer]_vars
  <2> SUFFICES ASSUME api = "removing", Next PROVE RemoveComesNearer
    BY <1>3 DEF RemoveComesNearer
  <2> USE <1>3 DEF IInv, Transitions, RemoveRank
  <2>1. CASE Loop
    <3>1. api' = api /\ RemoveRank' < RemoveRank
      BY <2>1 DEF Loop, RemovalAsked, InitPoll, WaitingPoll, EndEvent, StateChange
    <3> QED
      BY <3>1 DEF RemoveComesNearer
  <2>2. CASE ~Loop
    <3>1. UNCHANGED <<fsm, next>> /\ (api' = api \/ ~module')
      BY <2>2 DEF Loop, Next, EepromGet, CreateServed, CreateUnserved,
         CreateFinish, SetNetif, RemoveNetif, SetHostif, RemoveHostif, RemoveModule,
         RemoveModuleWaits, Replug
    <3> QED
      BY <2>2, <3>1 DEF RemoveComesNearer
  <2> QED
    BY <2>1, <2>2
<1> QED
  BY <1>1, <1>2, <1>3, AskedStays, Invariance, PTL DEF Spec

\* What CreatedBecomesReady says is that a module becomes READY.  It does,
\* after at most two steps of the thread, unless it is being removed.
THEOREM ReadyComes == Spec => [][ReadyComesNearer]_vars
<1>1. ASSUME IInv, [Next]_vars
      PROVE  [ReadyComesNearer]_vars
  <2> SUFFICES ASSUME fsm = "WAITING_CONFIGURATION", module, Next PROVE ReadyComesNearer
    BY <1>1 DEF ReadyComesNearer
  <2> USE <1>1 DEF IInv, TypeOK, Transitions, ReadyRank
  <2>1. CASE Loop
    <3>1. module'
      BY <2>1 DEF Loop, InitPoll, WaitingPoll, EndEvent, StateChange
    <3>2. ReadyRank' < ReadyRank
      <4>1. CASE next = "none" /\ fsm' = fsm /\ next' # "none"
        BY <4>1
      <4>2. CASE next # "none" /\ fsm' = next
        BY <4>2
      <4> QED
        BY <2>1, <4>1, <4>2 DEF Loop, InitPoll, WaitingPoll, EndEvent, StateChange
    <3>3. fsm' = fsm \/ fsm' \in {"READY", "END"}
      BY <2>1 DEF Loop, InitPoll, WaitingPoll, EndEvent, StateChange
    <3> QED
      BY <3>1, <3>2, <3>3 DEF ReadyComesNearer
  <2>2. CASE ~Loop
    <3>1. UNCHANGED <<fsm, next>> /\ module'
      BY <2>2 DEF Loop, Next, EepromGet, CreateServed, CreateUnserved,
         CreateFinish, SetNetif, RemoveNetif, SetHostif, RemoveHostif, RemoveModule,
         RemoveModuleWaits, Replug
    <3> QED
      BY <2>2, <3>1 DEF ReadyComesNearer
  <2> QED
    BY <2>1, <2>2
<1> QED
  BY <1>1, Invariance, PTL DEF Spec
=============================================================================
