------------------------------ MODULE Ac400Module ------------------------------
(***************************************************************************)
(* One AC400 module under its TAI adapter: the hardware signals and the    *)
(* operational state they lead to, the registers that the hardware lets    *)
(* nobody change while it transmits, and the calls that change them        *)
(* (ac400_tai_module.c, ac400_tai_networkif.c).                            *)
(*                                                                         *)
(* One thread calls.  A call is a sequence of register and signal accesses *)
(* and waits, and the hardware moves between them.  Every access may fail  *)
(* and every wait may run out, when Failures is TRUE; time is not counted. *)
(***************************************************************************)
EXTENDS Naturals, Sequences

CONSTANTS
  Netifs,     \* the lanes of the module, AC400_NUM_NETIF of them
  Formats,    \* values a lane's mode register may take
  BadFormats, \* attribute values the setters have no register value for
  Failures    \* accesses fail, waits run out, and the hardware breaks down

ASSUME ModuleAssumption == Formats \cap BadFormats = {} /\ Failures \in BOOLEAN

VARIABLES
  signals,    \* the signals that are asserted
  hw,         \* the state the hardware is in
  mode,       \* DEVICE_SETUP_CNTL: "INDEPENDENT" or "COUPLED" lanes
  enable,     \* NTWK_LANES_ENABLE_CNTL: lanes whose master enable is set
  format,     \* NTWK_GEN_MODE_CNTL of each lane: modulation, encoding, FEC
  created,    \* module_init of the slot
  pc,         \* what the calling thread does next
  call,       \* the call under way, its arguments and its local variables
  result,     \* what the last call returned, "none" during a call
  asked,      \* history: states asked for since a change last succeeded, and that one
  began       \* history: signals, lanes enabled and whether hw was at rest
              \* when the call under way began

hardware == <<signals, hw, mode, enable, format>>
vars == <<hardware, created, pc, call, result, asked, began>>

Modes == {"INDEPENDENT", "COUPLED"}
Signals == {"reset", "power", "lopwr", "txdis1", "txdis2"}

\* The states a caller can ask for and those the hardware passes through.
Statuses == {"RESET", "LOW_POWER", "TX_OFF", "READY"}
States == Statuses \cup {"INITIALIZE", "HIGH_POWER_UP", "TX_TURN_ON", "TX_TURN_OFF",
                         "HIGH_POWER_DOWN", "FAULT"}

-----------------------------------------------------------------------------
(* The hardware.                                                           *)

\* Where the signals lead to.
Wanted(asserted) ==
  IF "reset" \in asserted \/ "power" \notin asserted THEN "RESET"
  ELSE IF "lopwr" \in asserted THEN "LOW_POWER"
  ELSE IF {"txdis1", "txdis2"} \subseteq asserted THEN "TX_OFF"
  ELSE "READY"

AtRest == hw = Wanted(signals)

\* From, to, and the wanted states for which the hardware takes the step.
Moves == {
  <<"RESET",           "INITIALIZE",      Statuses \ {"RESET"}>>,
  <<"INITIALIZE",      "LOW_POWER",       Statuses \ {"RESET"}>>,
  <<"LOW_POWER",       "HIGH_POWER_UP",   {"TX_OFF", "READY"}>>,
  <<"HIGH_POWER_UP",   "TX_OFF",          {"TX_OFF", "READY"}>>,
  <<"HIGH_POWER_UP",   "HIGH_POWER_DOWN", {"LOW_POWER"}>>,
  <<"TX_OFF",          "TX_TURN_ON",      {"READY"}>>,
  <<"TX_OFF",          "HIGH_POWER_DOWN", {"LOW_POWER"}>>,
  <<"TX_TURN_ON",      "READY",           {"READY"}>>,
  <<"TX_TURN_ON",      "TX_TURN_OFF",     {"TX_OFF", "LOW_POWER"}>>,
  <<"READY",           "TX_TURN_OFF",     {"TX_OFF", "LOW_POWER"}>>,
  <<"TX_TURN_OFF",     "TX_OFF",          Statuses \ {"RESET"}>>,
  <<"HIGH_POWER_DOWN", "LOW_POWER",       Statuses \ {"RESET"}>> }

HardwareMoves ==
  /\ \E m \in Moves : hw = m[1] /\ Wanted(signals) \in m[3] /\ hw' = m[2]
  /\ UNCHANGED <<signals, mode, enable, format, created, pc, call, result, asked, began>>

HardwareFails ==
  /\ Failures
  /\ hw # "RESET" /\ hw' = "FAULT"
  /\ UNCHANGED <<signals, mode, enable, format, created, pc, call, result, asked, began>>

-----------------------------------------------------------------------------
(* Calls begin and return.                                                 *)

NoCall == [op |-> "none", netif |-> "none", arg |-> "none", prev |-> "none",
           lit |-> FALSE, target |-> "none", from |-> "none", next |-> "none",
           todo |-> <<>>]

NoSnapshot == [signals |-> {}, enable |-> {}, atRest |-> TRUE]
Snapshot == [signals |-> signals, enable |-> enable, atRest |-> AtRest]

Begin(op, netif, arg) ==
  /\ pc = "idle"
  /\ call' = [NoCall EXCEPT !.op = op, !.netif = netif, !.arg = arg]
  /\ began' = Snapshot
  /\ result' = "none"

Return(status) ==
  /\ pc' = "idle"
  /\ result' = status
  /\ began' = NoSnapshot
  /\ call' = NoCall

\* The thread goes on in set_module_oper_status, and then at next.
ChangeStatus(c, status, next) ==
  /\ pc' = "status"
  /\ call' = [c EXCEPT !.target = status, !.next = next]

-----------------------------------------------------------------------------
(* set_module_oper_status.                                                 *)

\* Fault: TX_OFF does not fall through to the transmitters.
FaultSignalWrites(status) ==
  << <<"reset",  status = "RESET">>,
     <<"lopwr",  status \in {"RESET", "LOW_POWER"}>>,
     <<"txdis1", status \in {"RESET", "LOW_POWER"}>>,
     <<"txdis2", status \in {"RESET", "LOW_POWER"}>> >>

\* The order and the values in which a status writes the signals.
SignalWrites(status) ==
  << <<"reset",  status = "RESET">>,
     <<"lopwr",  status \in {"RESET", "LOW_POWER"}>>,
     <<"txdis1", status \in {"RESET", "LOW_POWER", "TX_OFF"}>>,
     <<"txdis2", status \in {"RESET", "LOW_POWER", "TX_OFF"}>> >>

\* get_module_oper_status: RESET is read off the signal, any other state off
\* the register; a module that is about to leave reset shows as initializing.
OperStatus ==
  IF "reset" \in signals THEN "RESET" ELSE IF hw = "RESET" THEN "INITIALIZE" ELSE hw

\* The state is read and kept; a status that cannot be asked for is refused.
StatusBegin ==
  /\ pc = "status"
  /\ IF call.target \in Statuses
     THEN /\ pc' = "signals"
          /\ call' = [call EXCEPT !.from = OperStatus, !.todo = SignalWrites(call.target)]
          /\ UNCHANGED <<result, began>>
     ELSE Return("INVALID_ATTRIBUTE")
  /\ UNCHANGED <<hardware, created, asked>>

\* Fault: the loop over the signals runs once more.
FaultWriteSignal ==
  /\ pc = "signals"
  /\ LET signal == Head(call.todo)[1]
     IN  signals' = IF Head(call.todo)[2] THEN signals \cup {signal} ELSE signals \ {signal}
  /\ hw' = IF "reset" \in signals' THEN "RESET" ELSE hw
  /\ call' = [call EXCEPT !.todo = Tail(@)]
  /\ pc' = IF Len(call.todo) > 0 THEN pc ELSE "poll"
  /\ UNCHANGED <<mode, enable, format, created, result, asked, began>>

\* One signal is written; the hardware is in reset at once when reset is
\* asserted.  After the last of them comes the wait.
WriteSignal ==
  /\ pc = "signals"
  /\ LET signal == Head(call.todo)[1]
     IN  signals' = IF Head(call.todo)[2] THEN signals \cup {signal} ELSE signals \ {signal}
  /\ hw' = IF "reset" \in signals' THEN "RESET" ELSE hw
  /\ call' = [call EXCEPT !.todo = Tail(@)]
  /\ pc' = IF Len(call.todo) > 1 THEN pc
           ELSE IF call.op = "create" \/ (call.from = "RESET" /\ call.target # "RESET")
           THEN "alarm" ELSE "poll"
  /\ UNCHANGED <<mode, enable, format, created, result, asked, began>>

\* The global alarm is seen, or a failing access left the flag set.
AlarmSeen ==
  /\ pc = "alarm"
  /\ Failures \/ hw \notin {"RESET", "INITIALIZE"}
  /\ IF call.op # "create"
     THEN pc' = "poll" /\ UNCHANGED <<created, call, result, asked, began>>
     ELSE /\ created' = TRUE
          /\ asked' = {"LOW_POWER"}
          /\ IF call.arg = "none" THEN Return("SUCCESS")
             ELSE /\ pc' = "mode" /\ call' = [call EXCEPT !.op = "mode"]
                  /\ began' = Snapshot /\ UNCHANGED result
  /\ UNCHANGED hardware

\* The transition time table: no time for a state that is there already, and
\* none from FAULT or to RESET.
HasTime(from, to) == to # "RESET" /\ from \notin {to, "FAULT"}

\* Fault: the state is taken as reached without being read.
FaultReached ==
  /\ pc = "poll"
  /\ IF call.next = "return" THEN Return("SUCCESS")
     ELSE pc' = call.next /\ UNCHANGED <<call, result, began>>
  /\ asked' = IF call.op = "status" THEN {call.target} ELSE asked
  /\ UNCHANGED <<hardware, created>>

\* The poll finds the state.
Reached ==
  /\ pc = "poll"
  /\ OperStatus = call.target
  /\ IF call.next = "return" THEN Return("SUCCESS")
     ELSE pc' = call.next /\ UNCHANGED <<call, result, began>>
  /\ asked' = IF call.op = "status" THEN {call.target} ELSE asked
  /\ UNCHANGED <<hardware, created>>

\* The time has run out, at the first poll when there is none.
TimedOut ==
  /\ pc = "poll"
  /\ OperStatus # call.target
  /\ Failures \/ ~HasTime(call.from, call.target)
  /\ Return("FAILURE")
  /\ UNCHANGED <<hardware, created, asked>>

\* Any access of a call fails, and the call gives up where it is.  (Reading
\* the network mode and the state, and the writes, come down to this.)
AccessFails ==
  /\ Failures
  /\ pc # "idle"
  /\ Return("FAILURE")
  /\ UNCHANGED <<hardware, created, asked>>

-----------------------------------------------------------------------------
(* The calls.                                                              *)

\* create_module: module_init asserts everything, powers up, and lets the
\* module out of reset; then the attribute for the network mode, if given.
CreateModule(arg) ==
  /\ Begin("create", "none", arg)
  /\ pc' = "init"
  /\ asked' = asked \cup {"LOW_POWER"}
  /\ UNCHANGED <<hardware, created>>

InitWrites ==
  << <<"reset", TRUE>>, <<"power", TRUE>>, <<"lopwr", TRUE>>, <<"txdis1", TRUE>>,
     <<"txdis2", TRUE>>, <<"reset", FALSE>> >>

InitBegin ==
  /\ pc = "init"
  /\ pc' = "signals"
  /\ call' = [call EXCEPT !.todo = InitWrites]
  /\ UNCHANGED <<hardware, created, result, asked, began>>

RemoveModule ==
  /\ pc = "idle" /\ created
  /\ created' = FALSE
  /\ UNCHANGED <<hardware, pc, call, result, asked, began>>

\* OPER_STATUS of a network interface.
SetOperStatus(status) ==
  /\ created
  /\ pc = "idle"
  /\ ChangeStatus([NoCall EXCEPT !.op = "status"], status, "return")
  /\ began' = Snapshot
  /\ result' = "none"
  /\ asked' = asked \cup ({status} \cap Statuses)
  /\ UNCHANGED <<hardware, created>>

SetMasterEnable(n, on) ==
  /\ created
  /\ pc = "idle"
  /\ enable' = IF on THEN enable \cup {n} ELSE enable \ {n}
  /\ UNCHANGED <<signals, hw, mode, format, created, pc, call, result, asked, began>>

SetNetworkMode(m) ==
  /\ created
  /\ Begin("mode", "none", m)
  /\ pc' = "mode"
  /\ UNCHANGED <<hardware, created, asked>>

\* MODULATION_FORMAT, DIFFERENTIAL_ENCODING and FEC_MODE.
SetFormat(n, f) ==
  /\ created
  /\ Begin("format", n, f)
  /\ pc' = IF mode = "COUPLED" THEN "mode" ELSE "lane"
  /\ UNCHANGED <<hardware, created, asked>>

\* To low power, of set_network_mode and, for coupled lanes, move_to_low_power.
MoveModule ==
  /\ pc = "mode"
  /\ IF OperStatus = "LOW_POWER"
     THEN pc' = "write" /\ call' = [call EXCEPT !.prev = OperStatus]
     ELSE ChangeStatus([call EXCEPT !.prev = OperStatus], "LOW_POWER", "write")
  /\ UNCHANGED <<hardware, created, result, asked, began>>

\* Fault: the lane is only looked at.
FaultMoveLane ==
  /\ pc = "lane"
  /\ call' = [call EXCEPT !.lit = call.netif \in enable]
  /\ pc' = "write"
  /\ UNCHANGED <<hardware, created, result, asked, began>>

\* move_to_low_power for independent lanes: the master enable is cleared.
MoveLane ==
  /\ pc = "lane"
  /\ enable' = enable \ {call.netif}
  /\ call' = [call EXCEPT !.lit = call.netif \in enable]
  /\ pc' = "write"
  /\ UNCHANGED <<signals, hw, mode, format, created, result, asked, began>>

\* The setter's register access; a value without a register value is found
\* out only here.
Write ==
  /\ pc = "write"
  /\ IF call.arg \in BadFormats THEN Return("FAILURE") /\ UNCHANGED <<mode, format>>
     ELSE /\ pc' = "restore"
          /\ IF call.op = "mode"
             THEN mode' = call.arg /\ UNCHANGED format
             ELSE format' = [format EXCEPT ![call.netif] = call.arg] /\ UNCHANGED mode
          /\ UNCHANGED <<call, result, began>>
  /\ UNCHANGED <<signals, hw, enable, created, asked>>

\* Fault: the state is not restored.
FaultRestoreModule ==
  /\ pc = "restore"
  /\ call.op = "mode" \/ mode = "COUPLED"
  /\ Return("SUCCESS")
  /\ UNCHANGED <<hardware, created, asked>>

\* The end of set_network_mode, and restore_from_low_power.
RestoreModule ==
  /\ pc = "restore"
  /\ call.op = "mode" \/ mode = "COUPLED"
  /\ IF call.prev = "LOW_POWER" THEN Return("SUCCESS")
     ELSE ChangeStatus(call, call.prev, "return") /\ UNCHANGED <<result, began>>
  /\ UNCHANGED <<hardware, created, asked>>

RestoreLane ==
  /\ pc = "restore"
  /\ call.op = "format" /\ mode # "COUPLED"
  /\ enable' = IF call.lit THEN enable \cup {call.netif} ELSE enable
  /\ Return("SUCCESS")
  /\ UNCHANGED <<signals, hw, mode, format, created, asked>>

-----------------------------------------------------------------------------

\* The adapter may be started beside a module that is off or at work.
Init ==
  /\ signals \in { {} } \cup {{"power"} \cup {w[1] : w \in {v \in
        {SignalWrites(s)[i] : i \in 1 .. 4} : v[2]}} : s \in Statuses}
  /\ hw = Wanted(signals)
  /\ mode \in Modes
  /\ enable \in SUBSET Netifs
  /\ format \in [Netifs -> Formats]
  /\ created = FALSE
  /\ pc = "idle" /\ call = NoCall /\ result = "SUCCESS"
  /\ asked = {Wanted(signals)}
  /\ began = NoSnapshot

Next ==
  \/ HardwareMoves
  \/ HardwareFails
  \/ \E m \in Modes \cup {"none"} : CreateModule(m)
  \/ InitBegin
  \/ RemoveModule
  \/ \E s \in Statuses \cup {"INITIALIZE"} : SetOperStatus(s)
  \/ \E n \in Netifs, on \in BOOLEAN : SetMasterEnable(n, on)
  \/ \E m \in Modes : SetNetworkMode(m)
  \/ \E n \in Netifs, f \in Formats \cup BadFormats : SetFormat(n, f)
  \/ StatusBegin
  \/ WriteSignal
  \/ AlarmSeen
  \/ Reached
  \/ TimedOut
  \/ AccessFails
  \/ MoveModule
  \/ MoveLane
  \/ Write
  \/ RestoreModule
  \/ RestoreLane

Spec == Init /\ [][Next]_vars

-----------------------------------------------------------------------------
(* Properties.                                                             *)

TypeOK ==
  /\ signals \subseteq Signals /\ hw \in States
  /\ mode \in Modes /\ enable \subseteq Netifs /\ format \in [Netifs -> Formats]
  /\ created \in BOOLEAN
  /\ pc \in {"idle", "init", "status", "signals", "alarm", "poll", "mode", "lane",
             "write", "restore"}
  /\ result \in {"none", "SUCCESS", "FAILURE", "INVALID_ATTRIBUTE"}
  /\ asked \subseteq Statuses
  /\ pc = "idle" <=> call = NoCall
  /\ pc # "idle" <=> result = "none"
  /\ pc = "signals" => call.todo # <<>>
  /\ pc \in {"write", "restore"} => call.op \in {"mode", "format"}

Silent == {"RESET", "INITIALIZE", "LOW_POWER", "FAULT"}

\* "Some registers in the AC400 can only be modified when the module is in
\* the low power state, or the network lane being modified is in the disabled
\* state" (ac400_tai_networkif.c:762): so they are, whatever the hardware does
\* meanwhile, by every call that finds the module at rest.
ChangedInLowPower ==
  [][began.atRest =>
       /\ mode' # mode => hw \in Silent
       /\ \A n \in Netifs : format'[n] # format[n] => hw \in Silent \/ n \notin enable]_vars

Returned(op) == call.op = op /\ pc' = "idle"

\* Where the signals led to and which lanes were enabled is as it was.
Restored == Wanted(signals') = Wanted(began.signals) /\ enable' = began.enable

\* A setter that reports success has put the module's signals back to where
\* they led when it began, and every lane as it was: through every failed
\* access in between, and whatever way the hardware takes meanwhile.  (Where the
\* hardware is by then is not promised: a setter that has found LOW_POWER moves
\* no signal and does not wait, and the hardware may have gone to FAULT.)
SuccessRestores ==
  [][began.atRest /\ result' = "SUCCESS" /\ (Returned("mode") \/ Returned("format")) =>
       Restored]_vars

\* OPER_STATUS reports success only of a state the hardware is in and stays in.
SuccessIsReached ==
  [][result' = "SUCCESS" /\ Returned("status") => hw = call.target /\ AtRest]_vars

\* No transmitter turns on unless READY was asked for since a change of state
\* last succeeded: not by a setter that passes through low power, not by a
\* failing call, not when the module is created over one at work.
LaserOnlyOnRequest ==
  [][hw' = "TX_TURN_ON" /\ hw # hw' => "READY" \in asked]_vars

\* "This routine restores the state after such a modification."
\* (ac400_tai_networkif.c:817): a setter that returns, with or without
\* success, leaves the module as it found it, if no access failed.
RestoresState == [][began.atRest /\ Returned("format") => Restored]_vars
=============================================================================
