----------------------------- MODULE Ac400Registers -----------------------------
(***************************************************************************)
(* The control registers of an AC400 module and the attributes that are    *)
(* fields of them (ac400_tai_networkif.c, ac400_tai_hostif.c, ac400.h).    *)
(* A list of attributes is set one by one: the register is read, the field *)
(* put into the word, and the word written; the list ends at the first     *)
(* attribute that fails.                                                   *)
(*                                                                         *)
(* A register's word, a field and an attribute's value are sets of bits:   *)
(* TRUE is {0}, the k-th value of an enumeration the bits of its register  *)
(* value k (those that the getters answer UNKNOWN are kept apart).  The two *)
(* attributes that fill a register by themselves are left out.             *)
(*                                                                         *)
(* Bound: a behaviour is one call, with one attribute or with two of the   *)
(* same register.                                                          *)
(***************************************************************************)
EXTENDS Integers, Sequences

CONSTANTS
  Netifs,       \* 0 .. AC400_NUM_NETIF - 1
  Hostifs,      \* 0 .. AC400_NUM_HOSTIF - 1
  Words,        \* what the registers hold at first, the same word in all
  Values,       \* values a caller sets, as far as they fit the attribute
  Oversized     \* values that do not fit

ASSUME RegisterAssumption ==
  /\ Netifs \subseteq 0 .. 1 /\ Hostifs \subseteq 0 .. 3
  /\ \A word \in Words \cup Values \cup Oversized : word \subseteq 0 .. 15

VARIABLES
  regs,         \* the module's registers
  list,         \* the attributes and values of the call, <<>> before it
  done,         \* how many of them have been set
  result        \* "none" until the call returns

vars == <<regs, list, done, result>>

Bits == 0 .. 15

-----------------------------------------------------------------------------
(* Where an attribute lies: register, most and least significant bit.      *)

\* Registers there is one of for each network interface.
LaneFields ==
  [CLEAR_FEC_COUNTERS       |-> <<"NTWK_FEC_ACCUM_CNTS_CNTL", 0, 0>>,
   TX_GRID_SPACING          |-> <<"NTWK_TX_CHAN_CNTL", 15, 13>>,
   TX_CHANNEL               |-> <<"NTWK_TX_CHAN_CNTL", 9, 0>>,
   MODULATION_FORMAT        |-> <<"NTWK_GEN_MODE_CNTL", 11, 8>>,
   DIFFERENTIAL_ENCODING    |-> <<"NTWK_GEN_MODE_CNTL", 7, 7>>,
   FEC_MODE                 |-> <<"NTWK_GEN_MODE_CNTL", 2, 0>>,
   TX_RESET                 |-> <<"NTWK_TX_CNTL", 8, 8>>,
   TX_FIFO_RESET            |-> <<"NTWK_TX_CNTL", 10, 10>>,
   RX_RESET                 |-> <<"NTWK_RX_CNTL", 8, 8>>,
   RX_FIFO_RESET            |-> <<"NTWK_RX_CNTL", 4, 4>>]

\* Registers there is one of for each host interface.
ClientFields ==
  [FEC_DECODER              |-> <<"CLIENT_GEN_CNTL", 15, 15>>,
   FEC_ENCODER              |-> <<"CLIENT_GEN_CNTL", 7, 7>>,
   TX_RESET                 |-> <<"CLIENT_GEN_CNTL", 11, 11>>,
   RX_RESET                 |-> <<"CLIENT_GEN_CNTL", 5, 5>>,
   LF_CTLE_GAIN             |-> <<"CLIENT_HOST_TX_EQUAL_CNTL", 15, 12>>,
   CTLE_GAIN                |-> <<"CLIENT_HOST_TX_EQUAL_CNTL", 11, 7>>,
   DFE_COEFFICIENT          |-> <<"CLIENT_HOST_TX_EQUAL_CNTL", 5, 0>>,
   TAP0_GAIN                |-> <<"CLIENT_HOST_RX_TAP_0_CNTL", 6, 4>>,
   TAP0_DELAY               |-> <<"CLIENT_HOST_RX_TAP_0_CNTL", 2, 0>>,
   TAP1_GAIN                |-> <<"CLIENT_HOST_RX_TAP_1_CNTL", 6, 4>>,
   TAP2_GAIN                |-> <<"CLIENT_HOST_RX_TAP_2_CNTL", 7, 4>>,
   TAP2_DELAY               |-> <<"CLIENT_HOST_RX_TAP_2_CNTL", 2, 0>>]

\* Registers that all interfaces share: the field moves with the index.
SharedLaneField(name, i) ==
  IF name = "TX_ENABLE" THEN <<"IND_NTWK_LANE_TX_DIS_CNTL", i, i>>
  ELSE <<"NTWK_LANES_ENABLE_CNTL", i, i>>

\* Fault: the rate fields taken to be four bits apart.
FaultSharedClientField(name, i) ==
  IF name = "ENABLE" THEN <<"HOST_LANES_CLIENT_INTF_DEF_CNTL", 12 + i, 12 + i>>
  ELSE <<"HOST_LANES_CLIENT_INTF_DEF_CNTL", 4 * i + 2, 4 * i>>

SharedClientField(name, i) ==
  IF name = "ENABLE" THEN <<"HOST_LANES_CLIENT_INTF_DEF_CNTL", 12 + i, 12 + i>>
  ELSE <<"HOST_LANES_CLIENT_INTF_DEF_CNTL", 3 * i + 2, 3 * i>>

SharedLane == {"TX_ENABLE", "MASTER_ENABLE"}
SharedClient == {"RATE", "ENABLE"}

Attributes ==
  [of : {"netif"}, name : DOMAIN LaneFields \cup SharedLane, index : Netifs]
    \cup [of : {"hostif"}, name : DOMAIN ClientFields \cup SharedClient, index : Hostifs]

\* Register (with the interface it is for, or "all"), msb and lsb.
Field(a) ==
  LET own(field) == [reg |-> <<field[1], a.of, a.index>>, msb |-> field[2], lsb |-> field[3]]
      shared(field) == [reg |-> <<field[1], "all", 0>>, msb |-> field[2], lsb |-> field[3]]
  IN  IF a.of = "netif"
      THEN IF a.name \in SharedLane THEN shared(SharedLaneField(a.name, a.index))
           ELSE own(LaneFields[a.name])
      ELSE IF a.name \in SharedClient THEN shared(SharedClientField(a.name, a.index))
           ELSE own(ClientFields[a.name])

Width(a) == Field(a).msb - Field(a).lsb + 1

Registers == {Field(a).reg : a \in Attributes}

-----------------------------------------------------------------------------
(* Words and values.                                                       *)

\* AC400_GET_FIELD, AC400_GET_BIT, ac400_get_field_from_reg_list.
GetField(word, msb, lsb) == {b - lsb : b \in word \cap lsb .. msb}

\* Fault: the field is not cleared first.
FaultPutField(word, msb, lsb, value) ==
  word \cup ({b + lsb : b \in value} \cap Bits)

\* AC400_PUT_FIELD, AC400_PUT_BIT, ac400_set_field_from_reg_list: what the
\* value has beyond the field goes into the word, as far as the word reaches.
PutField(word, msb, lsb, value) ==
  (word \ (lsb .. msb)) \cup ({b + lsb : b \in value} \cap Bits)

Flip(value) == {0} \ value

\* Attributes that are TRUE or FALSE; those neither here nor in Known are
\* numbers, which nothing limits to the width of the field.
Flags == {"CLEAR_FEC_COUNTERS", "DIFFERENTIAL_ENCODING", "TX_RESET", "TX_FIFO_RESET",
          "RX_RESET", "RX_FIFO_RESET", "FEC_DECODER", "FEC_ENCODER", "TX_ENABLE",
          "MASTER_ENABLE", "ENABLE"}

\* Attributes that say the opposite of their bit, for the setter and for the
\* getter.
SetInverted == {"TX_ENABLE", "DIFFERENTIAL_ENCODING", "FEC_DECODER", "FEC_ENCODER",
                "CLEAR_FEC_COUNTERS"}
GetInverted == {"TX_ENABLE", "DIFFERENTIAL_ENCODING", "FEC_DECODER", "FEC_ENCODER"}

\* Enumerations, and the register values their setters know.
Known == [TX_GRID_SPACING |-> {{}, {0}, {1}, {0, 1}, {2}, {0, 2}},
          MODULATION_FORMAT |-> {{}, {0}, {1}},
          FEC_MODE |-> {{}, {0}, {1}},
          RATE |-> {{}, {0}}]

Accepted(name, value) == name \in DOMAIN Known => value \in Known[name]

\* get of one attribute.
Get(a) ==
  LET field == GetField(regs[Field(a).reg], Field(a).msb, Field(a).lsb)
  IN  IF a.name \in GetInverted THEN Flip(field) ELSE field

-----------------------------------------------------------------------------
(* set_..._attributes.                                                     *)

Init ==
  /\ \E word \in Words : regs = [r \in Registers |-> word]
  /\ list = <<>> /\ done = 0 /\ result = "none"

\* What callers set: values that fit; and oversized ones only where the
\* attribute is a number.
Settings ==
  {s \in [attr : Attributes, value : Values \cup Oversized] :
     \/ s.value \subseteq 0 .. Width(s.attr) - 1
     \/ s.value \in Oversized /\ s.attr.name \notin Flags \cup DOMAIN Known}

Lists ==
  {<<s>> : s \in Settings}
    \cup {l \in Settings \X Settings : Field(l[1].attr).reg = Field(l[2].attr).reg}

SetAttributes(l) ==
  /\ list' = l
  /\ UNCHANGED <<regs, done, result>>

Current == list[done + 1]
Setting == list # <<>> /\ result = "none" /\ done < Len(list)

\* One attribute is set: read, put, write.
SetAttribute ==
  /\ Setting
  /\ LET a == Current.attr
         f == Field(a)
         value == IF a.name \in SetInverted THEN Flip(Current.value) ELSE Current.value
     IN  /\ Accepted(a.name, Current.value)
         /\ regs' = [regs EXCEPT ![f.reg] = PutField(@, f.msb, f.lsb, value)]
  /\ done' = done + 1
  /\ UNCHANGED <<list, result>>

\* The value is not known, or an access fails; the rest of the list is left.
SetFails ==
  /\ Setting
  /\ result' = "FAILURE"
  /\ UNCHANGED <<regs, list, done>>

SetReturns ==
  /\ list # <<>> /\ result = "none" /\ done = Len(list)
  /\ result' = "SUCCESS"
  /\ UNCHANGED <<regs, list, done>>

Next ==
  \/ list = <<>> /\ \E l \in Lists : SetAttributes(l)
  \/ SetAttribute
  \/ SetFails
  \/ SetReturns

Spec == Init /\ [][Next]_vars
-----------------------------------------------------------------------------
(* Properties.                                                             *)

TypeOK ==
  /\ regs \in [Registers -> SUBSET Bits]
  /\ list \in Lists \cup {<<>>}
  /\ done \in 0 .. Len(list)
  /\ result \in {"none", "SUCCESS", "FAILURE"}

\* Setting an attribute changes no other attribute, of this or of any other
\* interface, although up to eight share a register: "This routine modifies a
\* field in these registers" (ac400_tai_networkif.c:242), and no other.
OthersKept ==
  [][\A a \in Attributes :
       Get(a)' # Get(a) => done < Len(list) /\ a = Current.attr]_vars

\* What an attribute reads once s has been set: the value, but for
\* CLEAR_FEC_COUNTERS, which the setter alone inverts.
ReadAs(s) == IF s.attr.name = "CLEAR_FEC_COUNTERS" THEN Flip(s.value) ELSE s.value

\* Whether the call has returned success or failure, the attributes of the
\* list before the one that failed read back what they were set to, the later
\* value where one is set twice.  "Clear FEC accumuluative counters"
\* (voyager_tai_adapter.h:112) is the exception: set to TRUE its bit, and what
\* is read back, is FALSE.
ListReadsBack ==
  result # "none" =>
    \A i \in 1 .. done :
      \/ \E j \in i + 1 .. done : list[j].attr = list[i].attr
      \/ Get(list[i].attr) = ReadAs(list[i])
=============================================================================
