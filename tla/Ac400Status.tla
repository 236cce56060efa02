------------------------------ MODULE Ac400Status ------------------------------
(***************************************************************************)
(* The status attributes of an AC400's interfaces: turn-up states,         *)
(* alignment and lane faults, each a set of states that bits of a read-    *)
(* only register stand for (ac400_tai_networkif.c, ac400_tai_hostif.c,     *)
(* ac400.h).  The hardware raises and lowers the bits while a getter reads *)
(* its registers one by one.                                               *)
(*                                                                         *)
(* Bounds: a behaviour is one call, of Ac400Registers or of a getter here; *)
(* while a getter runs at most MaxMoves bits move, each of them once, and  *)
(* all of them are raised or all are not when it begins.                   *)
(***************************************************************************)
EXTENDS Ac400Registers, FiniteSets

CONSTANT MaxMoves

ASSUME StatusAssumption == MaxMoves \in Nat

VARIABLES
  raised,     \* the status bits that are raised: register and bit
  asked,      \* the attribute a getter is called for, NoStatus before it
  reports,    \* what it has found in its registers so far
  answer,     \* "none" until it returns
  moved       \* history: bits that have moved since the call began

statusVars == <<raised, asked, reports, answer, moved>>

-----------------------------------------------------------------------------

\* The states each attribute reports, and the bit of each.
StatusBits ==
  [TX_TURN_UP_STATE |-> [PATH_INIT |-> 0, DATA_PATH |-> 1, LASER_OFF |-> 2,
                         LASER_READY |-> 3, MODULATOR_CONV |-> 4, POWER_ADJUST |-> 5],
   RX_TURN_UP_STATE |-> [PATH_INIT |-> 0, DATA_PATH |-> 1, OPTICAL_SIGNAL |-> 2,
                         ADC_OUTPUT |-> 3, GOOD_DISP |-> 4, DEMOD_LOCK |-> 5],
   TX_ALIGN |-> [OUT |-> 14, CMU_LOCK |-> 13, REF_CLOCK |-> 12],
   RX_ALIGN |-> [MODEM_SYNC |-> 15, MODEM_LOCK |-> 14, LOSS |-> 13, OUT |-> 12,
                 TIMING |-> 11],
   CLIENT_TX_ALIGN |-> [LOSS |-> 14, OUT |-> 13, DESKEW_LOCK |-> 12],
   LANE_FAULTS |-> [LOSS_OF_LOCK |-> 0, TX_FIFO_ERR |-> 1]]

StatusAttributes ==
  [name : DOMAIN StatusBits \ {"CLIENT_TX_ALIGN", "LANE_FAULTS"}, index : Netifs]
    \cup [name : {"CLIENT_TX_ALIGN", "LANE_FAULTS"}, index : Hostifs]

NoStatus == [name |-> "none", index |-> 0]

\* AC400_NUM_HOST_LANES registers for the faults, one for everything else.
Lanes(name) == IF name = "LANE_FAULTS" THEN 4 ELSE 1

\* Host interface n has the lanes 4 n to 4 n + 3, and every lane a register.
HostLanes == << <<0, 1, 2, 3>>, <<4, 5, 6, 7>>, <<8, 9, 10, 11>>, <<12, 13, 14, 15>> >>

OwnRegister(a, lane) ==
  <<a.name, IF a.name = "LANE_FAULTS" THEN HostLanes[a.index + 1][lane] ELSE a.index>>

\* Fault: the lanes of an interface begin at its index.
FaultStatusRegister(a, lane) == <<a.name, a.index + lane - 1>>

\* The register a getter reads.
StatusRegister(a, lane) == <<a.name, Lanes(a.name) * a.index + lane - 1>>

\* The bits of a number, where it is taken for a mask.
NumberAsMask(n) == {b \in Bits : (n \div (2 ^ b)) % 2 = 1}

\* Where the getters test the number of the bit for the bit.
Misread(name, state) == name = "CLIENT_TX_ALIGN" \/ state = "LOSS_OF_LOCK"

\* The bits a getter tests for a state.
Tested(name, state) ==
  IF Misread(name, state) THEN NumberAsMask(StatusBits[name][state])
  ELSE {StatusBits[name][state]}

\* The bits that move while an attribute is read: those of its registers, of
\* this and of the other interfaces.
StatusBitsOf(name) ==
  {<<OwnRegister(a, lane), StatusBits[name][state]>> :
     a \in {b \in StatusAttributes : b.name = name}, lane \in 1 .. Lanes(name),
     state \in DOMAIN StatusBits[name]}

-----------------------------------------------------------------------------

StatusInit ==
  /\ Init
  /\ raised = {} /\ asked = NoStatus /\ reports = <<>> /\ answer = "none" /\ moved = {}

Reading == asked # NoStatus /\ answer = "none"

\* The call; with too small a buffer for its lanes it ends here.
GetStatus(a) ==
  /\ list = <<>> /\ asked = NoStatus
  /\ asked' = a
  /\ raised' \in {{}, StatusBitsOf(a.name)}
  /\ UNCHANGED <<vars, reports, answer, moved>>

BufferOverflow ==
  /\ Reading /\ reports = <<>> /\ Lanes(asked.name) > 1
  /\ answer' = "BUFFER_OVERFLOW"
  /\ UNCHANGED <<vars, raised, asked, reports, moved>>

\* The hardware.
StatusMoves ==
  /\ Reading /\ Cardinality(moved) < MaxMoves
  /\ \E p \in StatusBitsOf(asked.name) \ moved :
       /\ raised' = IF p \in raised THEN raised \ {p} ELSE raised \cup {p}
       /\ moved' = moved \cup {p}
  /\ UNCHANGED <<vars, asked, reports, answer>>

ReadStatus ==
  /\ Reading /\ Len(reports) < Lanes(asked.name)
  /\ LET register == StatusRegister(asked, Len(reports) + 1)
         word == {b \in Bits : <<register, b>> \in raised}
     IN  reports' = Append(reports, {state \in DOMAIN StatusBits[asked.name] :
                                       word \cap Tested(asked.name, state) # {}})
  /\ UNCHANGED <<vars, raised, asked, answer, moved>>

ReadStatusFails ==
  /\ Reading /\ Len(reports) < Lanes(asked.name)
  /\ answer' = "FAILURE"
  /\ UNCHANGED <<vars, raised, asked, reports, moved>>

StatusReturns ==
  /\ Reading /\ Len(reports) = Lanes(asked.name)
  /\ answer' = "SUCCESS"
  /\ UNCHANGED <<vars, raised, asked, reports, moved>>

StatusNext ==
  \/ asked = NoStatus /\ Next /\ UNCHANGED statusVars
  \/ \E a \in StatusAttributes : GetStatus(a)
  \/ BufferOverflow
  \/ StatusMoves
  \/ ReadStatus
  \/ ReadStatusFails
  \/ StatusReturns

StatusSpec == StatusInit /\ [][StatusNext]_<<vars, statusVars>>

-----------------------------------------------------------------------------

\* A getter that succeeds reports of every lane of its own interface exactly
\* the states whose bits were raised, as far as they did not move meanwhile
\* ("A bit in this attribute is set for each state successfully completed",
\* voyager_tai_adapter.h:92), whatever other lanes and interfaces do.  Of a
\* host interface's alignment and of its loss of lock this is not so: they are
\* misread.
StatusWasTrue ==
  answer = "SUCCESS" =>
    \A lane \in 1 .. Lanes(asked.name), state \in DOMAIN StatusBits[asked.name] :
      LET p == <<OwnRegister(asked, lane), StatusBits[asked.name][state]>> IN
      p \notin moved /\ ~Misread(asked.name, state)
        => (state \in reports[lane] <=> p \in raised)
=============================================================================
