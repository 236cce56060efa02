-------------------------- MODULE Ac400RegistersProofs --------------------------
(***************************************************************************)
(* Proofs about Ac400Registers and Ac400Status, for any interfaces of an   *)
(* AC400, any words in its registers and any values that fit their         *)
(* attributes.  No two attributes overlap in a register (FieldsDisjoint),  *)
(* what is put into a field is read back from it (PutThenGet) and from no  *)
(* other (PutKeepsOthers); on these lie what a list of settings promises,  *)
(* though the two directions of an attribute are inverted in two places.   *)
(* What a number that does not fit can change is bounded too (OnlyAbove).  *)
(***************************************************************************)
EXTENDS Ac400Status, TLAPS

-----------------------------------------------------------------------------
(* Fields of words.                                                        *)

\* What fits a field is read back from it.
LEMMA PutThenGet ==
  ASSUME NEW word, NEW lsb \in Bits, NEW msb \in lsb .. 15,
         NEW value \in SUBSET (0 .. msb - lsb)
  PROVE  GetField(PutField(word, msb, lsb, value), msb, lsb) = value
<1> DEFINE put == PutField(word, msb, lsb, value)
<1>1. ASSUME NEW v \in value
      PROVE  v \in GetField(put, msb, lsb)
  <2>1. v \in 0 .. msb - lsb
    BY <1>1
  <2>2. v + lsb \in lsb .. msb /\ v + lsb \in Bits /\ (v + lsb) - lsb = v
    BY <2>1 DEF Bits
  <2>3. v + lsb \in put
    BY <1>1, <2>2 DEF PutField
  <2> QED
    BY <2>2, <2>3 DEF GetField
<1>2. ASSUME NEW v \in GetField(put, msb, lsb)
      PROVE  v \in value
  <2>1. PICK b \in put \cap lsb .. msb : v = b - lsb
    BY <1>2 DEF GetField
  <2>2. PICK w \in value : b = w + lsb
    BY <2>1 DEF PutField
  <2>3. w \in 0 .. msb - lsb
    BY <2>2
  <2>4. v = w
    BY <2>1, <2>2, <2>3 DEF Bits
  <2> QED
    BY <2>2, <2>4
<1> QED
  BY <1>1, <1>2

\* What fits a field leaves the fields above and below it alone.
LEMMA PutKeepsOthers ==
  ASSUME NEW word, NEW lsb \in Bits, NEW msb \in lsb .. 15,
         NEW value \in SUBSET (0 .. msb - lsb),
         NEW l \in Bits, NEW m \in l .. 15, m < lsb \/ msb < l
  PROVE  GetField(PutField(word, msb, lsb, value), m, l) = GetField(word, m, l)
<1> DEFINE put == PutField(word, msb, lsb, value)
<1>1. ASSUME NEW b \in l .. m
      PROVE  b \in put <=> b \in word
  <2>1. b \notin lsb .. msb
    BY DEF Bits
  <2>2. \A w \in value : w + lsb \in lsb .. msb
    BY DEF Bits
  <2> QED
    BY <2>1, <2>2 DEF PutField
<1>2. put \cap l .. m = word \cap l .. m
  BY <1>1
<1> QED
  BY <1>2 DEF GetField

-----------------------------------------------------------------------------
(* Where the attributes lie.                                               *)

\* The fields of the registers of a lane, one by one.
LEMMA LaneFieldValues ==
  ASSUME NEW n \in DOMAIN LaneFields
  PROVE  \/ n = "CLEAR_FEC_COUNTERS" /\ LaneFields[n] = <<"NTWK_FEC_ACCUM_CNTS_CNTL", 0, 0>>
         \/ n = "TX_GRID_SPACING" /\ LaneFields[n] = <<"NTWK_TX_CHAN_CNTL", 15, 13>>
         \/ n = "TX_CHANNEL" /\ LaneFields[n] = <<"NTWK_TX_CHAN_CNTL", 9, 0>>
         \/ n = "MODULATION_FORMAT" /\ LaneFields[n] = <<"NTWK_GEN_MODE_CNTL", 11, 8>>
         \/ n = "DIFFERENTIAL_ENCODING" /\ LaneFields[n] = <<"NTWK_GEN_MODE_CNTL", 7, 7>>
         \/ n = "FEC_MODE" /\ LaneFields[n] = <<"NTWK_GEN_MODE_CNTL", 2, 0>>
         \/ n = "TX_RESET" /\ LaneFields[n] = <<"NTWK_TX_CNTL", 8, 8>>
         \/ n = "TX_FIFO_RESET" /\ LaneFields[n] = <<"NTWK_TX_CNTL", 10, 10>>
         \/ n = "RX_RESET" /\ LaneFields[n] = <<"NTWK_RX_CNTL", 8, 8>>
         \/ n = "RX_FIFO_RESET" /\ LaneFields[n] = <<"NTWK_RX_CNTL", 4, 4>>
BY DEF LaneFields

\* The fields of the registers of a client, one by one.
LEMMA ClientFieldValues ==
  ASSUME NEW n \in DOMAIN ClientFields
  PROVE  \/ n = "FEC_DECODER" /\ ClientFields[n] = <<"CLIENT_GEN_CNTL", 15, 15>>
         \/ n = "FEC_ENCODER" /\ ClientFields[n] = <<"CLIENT_GEN_CNTL", 7, 7>>
         \/ n = "TX_RESET" /\ ClientFields[n] = <<"CLIENT_GEN_CNTL", 11, 11>>
         \/ n = "RX_RESET" /\ ClientFields[n] = <<"CLIENT_GEN_CNTL", 5, 5>>
         \/ n = "LF_CTLE_GAIN" /\ ClientFields[n] = <<"CLIENT_HOST_TX_EQUAL_CNTL", 15, 12>>
         \/ n = "CTLE_GAIN" /\ ClientFields[n] = <<"CLIENT_HOST_TX_EQUAL_CNTL", 11, 7>>
         \/ n = "DFE_COEFFICIENT" /\ ClientFields[n] = <<"CLIENT_HOST_TX_EQUAL_CNTL", 5, 0>>
         \/ n = "TAP0_GAIN" /\ ClientFields[n] = <<"CLIENT_HOST_RX_TAP_0_CNTL", 6, 4>>
         \/ n = "TAP0_DELAY" /\ ClientFields[n] = <<"CLIENT_HOST_RX_TAP_0_CNTL", 2, 0>>
         \/ n = "TAP1_GAIN" /\ ClientFields[n] = <<"CLIENT_HOST_RX_TAP_1_CNTL", 6, 4>>
         \/ n = "TAP2_GAIN" /\ ClientFields[n] = <<"CLIENT_HOST_RX_TAP_2_CNTL", 7, 4>>
         \/ n = "TAP2_DELAY" /\ ClientFields[n] = <<"CLIENT_HOST_RX_TAP_2_CNTL", 2, 0>>
BY DEF ClientFields

\* Within the registers of one interface no two fields overlap.
LEMMA LaneFieldsDisjoint ==
  ASSUME NEW n \in DOMAIN LaneFields, NEW o \in DOMAIN LaneFields, n # o,
         LaneFields[n][1] = LaneFields[o][1]
  PROVE  LaneFields[n][2] < LaneFields[o][3] \/ LaneFields[o][2] < LaneFields[n][3]
BY LaneFieldValues

\* Two fields of one register of a client do not meet.
LEMMA ClientFieldsDisjoint ==
  ASSUME NEW n \in DOMAIN ClientFields, NEW o \in DOMAIN ClientFields, n # o,
         ClientFields[n][1] = ClientFields[o][1]
  PROVE  ClientFields[n][2] < ClientFields[o][3] \/ ClientFields[o][2] < ClientFields[n][3]
BY ClientFieldValues

\* A field is the bits from its least to its most significant one, in a word.
LEMMA FieldType ==
  ASSUME NEW a \in Attributes
  PROVE  /\ Field(a).reg \in Registers
         /\ Field(a).lsb \in Bits
         /\ Field(a).msb \in Field(a).lsb .. 15
         /\ Width(a) - 1 = Field(a).msb - Field(a).lsb
<1>1. Field(a).reg \in Registers
  BY DEF Registers
<1>2. Field(a).lsb \in Bits /\ Field(a).msb \in Field(a).lsb .. 15
  <2>1. CASE a.of = "netif" /\ a.name \notin SharedLane
    <3>1. a.name \in DOMAIN LaneFields
      BY <2>1 DEF Attributes
    <3>2. Field(a).msb = LaneFields[a.name][2] /\ Field(a).lsb = LaneFields[a.name][3]
      BY <2>1 DEF Field
    <3> QED
      BY <3>1, <3>2, LaneFieldValues DEF Bits
  <2>2. CASE a.of = "netif" /\ a.name \in SharedLane
    <3>1. a.index \in 0 .. 1
      BY <2>2, RegisterAssumption DEF Attributes
    <3>2. Field(a).msb = a.index /\ Field(a).lsb = a.index
      BY <2>2 DEF Field, SharedLaneField
    <3> QED
      BY <3>1, <3>2 DEF Bits
  <2>3. CASE a.of = "hostif" /\ a.name \notin SharedClient
    <3>1. a.name \in DOMAIN ClientFields
      BY <2>3 DEF Attributes
    <3>2. Field(a).msb = ClientFields[a.name][2] /\ Field(a).lsb = ClientFields[a.name][3]
      BY <2>3 DEF Field
    <3> QED
      BY <3>1, <3>2, ClientFieldValues DEF Bits
  <2>4. CASE a.of = "hostif" /\ a.name \in SharedClient
    <3>1. a.index \in 0 .. 3
      BY <2>4, RegisterAssumption DEF Attributes
    <3>2. \/ Field(a).msb = 12 + a.index /\ Field(a).lsb = 12 + a.index
          \/ Field(a).msb = 3 * a.index + 2 /\ Field(a).lsb = 3 * a.index
      BY <2>4 DEF Field, SharedClientField
    <3> QED
      BY <3>1, <3>2 DEF Bits
  <2> QED
    BY <2>1, <2>2, <2>3, <2>4 DEF Attributes
<1>3. Width(a) - 1 = Field(a).msb - Field(a).lsb
  BY <1>2 DEF Width, Bits
<1> QED
  BY <1>1, <1>2, <1>3

\* Two attributes, of the same or of different interfaces, never overlap.
LEMMA FieldsDisjoint ==
  ASSUME NEW a \in Attributes, NEW b \in Attributes, a # b, Field(a).reg = Field(b).reg
  PROVE  Field(a).msb < Field(b).lsb \/ Field(b).msb < Field(a).lsb
<1>1. /\ a.of \in {"netif", "hostif"} /\ b.of \in {"netif", "hostif"}
      /\ a.of = b.of /\ a.name = b.name => a.index # b.index
  BY DEF Attributes
<1>2. ASSUME NEW c \in Attributes, c.of = "netif", c.name \notin SharedLane
      PROVE  /\ c.name \in DOMAIN LaneFields
             /\ Field(c).reg = <<LaneFields[c.name][1], "netif", c.index>>
             /\ Field(c).msb = LaneFields[c.name][2] /\ Field(c).lsb = LaneFields[c.name][3]
  BY <1>2 DEF Attributes, Field
<1>3. ASSUME NEW c \in Attributes, c.of = "netif", c.name \in SharedLane
      PROVE  /\ Field(c).msb = c.index /\ Field(c).lsb = c.index /\ c.index \in 0 .. 1
             /\ Field(c).reg = <<IF c.name = "TX_ENABLE" THEN "IND_NTWK_LANE_TX_DIS_CNTL"
                                 ELSE "NTWK_LANES_ENABLE_CNTL", "all", 0>>
             /\ c.name \in {"TX_ENABLE", "MASTER_ENABLE"}
  BY <1>3, RegisterAssumption DEF Attributes, Field, SharedLane, SharedLaneField
<1>4. ASSUME NEW c \in Attributes, c.of = "hostif", c.name \notin SharedClient
      PROVE  /\ c.name \in DOMAIN ClientFields
             /\ Field(c).reg = <<ClientFields[c.name][1], "hostif", c.index>>
             /\ Field(c).msb = ClientFields[c.name][2] /\ Field(c).lsb = ClientFields[c.name][3]
  BY <1>4 DEF Attributes, Field
<1>5. ASSUME NEW c \in Attributes, c.of = "hostif", c.name \in SharedClient
      PROVE  /\ \/ /\ c.name = "ENABLE"
                   /\ Field(c).msb = 12 + c.index /\ Field(c).lsb = 12 + c.index
                \/ /\ c.name = "RATE"
                   /\ Field(c).msb = 3 * c.index + 2 /\ Field(c).lsb = 3 * c.index
             /\ c.index \in 0 .. 3
             /\ Field(c).reg = <<"HOST_LANES_CLIENT_INTF_DEF_CNTL", "all", 0>>
  BY <1>5, RegisterAssumption DEF Attributes, Field, SharedClient, SharedClientField
<1>6. CASE a.of = "netif" /\ a.name \notin SharedLane
  <2>1. b.of = "netif" /\ b.name \notin SharedLane
    BY <1>1, <1>2, <1>3, <1>4, <1>5, <1>6
  <2>2. /\ LaneFields[a.name][1] = LaneFields[b.name][1] /\ a.index = b.index
    BY <1>2, <1>6, <2>1
  <2> QED
    BY <1>1, <1>2, <1>6, <2>1, <2>2, LaneFieldsDisjoint
<1>7. CASE a.of = "hostif" /\ a.name \notin SharedClient
  <2>1. b.of = "hostif" /\ b.name \notin SharedClient
    BY <1>1, <1>2, <1>3, <1>4, <1>5, <1>7
  <2>2. /\ ClientFields[a.name][1] = ClientFields[b.name][1] /\ a.index = b.index
    BY <1>4, <1>7, <2>1
  <2> QED
    BY <1>1, <1>4, <1>7, <2>1, <2>2, ClientFieldsDisjoint
<1>8. CASE a.of = "netif" /\ a.name \in SharedLane
  <2>1. b.of = "netif" /\ b.name \in SharedLane
    BY <1>1, <1>2, <1>3, <1>4, <1>5, <1>8
  <2>2. a.name = b.name
    BY <1>3, <1>8, <2>1
  <2> QED
    BY <1>1, <1>3, <1>8, <2>1, <2>2
<1>9. CASE a.of = "hostif" /\ a.name \in SharedClient
  <2>1. b.of = "hostif" /\ b.name \in SharedClient
    BY <1>1, <1>2, <1>3, <1>4, <1>5, <1>9
  <2>2. a.name = b.name => a.index # b.index
    BY <1>1, <2>1, <1>9
  <2> QED
    BY <1>5, <1>9, <2>1, <2>2
<1> QED
  BY <1>1, <1>6, <1>7, <1>8, <1>9

\* An attribute that says the opposite of its bit is one bit wide.
LEMMA InvertedAreBits ==
  ASSUME NEW a \in Attributes, a.name \in SetInverted
  PROVE  Field(a).msb = Field(a).lsb
<1>1. CASE a.of = "netif"
  <2>1. CASE a.name \in SharedLane
    BY <1>1, <2>1 DEF Field, SharedLaneField
  <2>2. CASE a.name \notin SharedLane
    <3>1. a.name \in DOMAIN LaneFields
      BY <1>1, <2>2 DEF Attributes
    <3> QED
      BY <1>1, <2>2, <3>1, LaneFieldValues DEF Field, SetInverted
  <2> QED
    BY <2>1, <2>2
<1>2. CASE a.of = "hostif"
  <2>1. a.name \notin SharedClient
    BY DEF SetInverted, SharedClient
  <2>2. a.name \in DOMAIN ClientFields
    BY <1>2, <2>1 DEF Attributes
  <2> QED
    BY <1>2, <2>1, <2>2, ClientFieldValues DEF Field, SetInverted
<1> QED
  BY <1>1, <1>2 DEF Attributes

-----------------------------------------------------------------------------
(* Lists of settings.                                                      *)

\* While the call is under way, what it has set reads back.
SetSoFar ==
  \A i \in 1 .. done :
    \/ \E j \in i + 1 .. done : list[j].attr = list[i].attr
    \/ Get(list[i].attr) = ReadAs(list[i])

ListInv == TypeOK /\ SetSoFar

\* What is in a list: an attribute and a value that fits it.
LEMMA SettingFits ==
  ASSUME Oversized = {}, NEW s \in Settings
  PROVE  s.attr \in Attributes /\ s.value \in SUBSET (0 .. Width(s.attr) - 1)
BY DEF Settings

\* A call carries settings.
LEMMA ListElements ==
  ASSUME NEW l \in Lists \cup {<<>>}, NEW i \in 1 .. Len(l)
  PROVE  l[i] \in Settings
<1>1. CASE l = <<>>
  BY <1>1
<1>2. CASE \E s \in Settings : l = <<s>>
  BY <1>2
<1>3. CASE l \in Settings \X Settings
  <2>1. PICK s \in Settings, t \in Settings : l = <<s, t>>
    BY <1>3
  <2> QED
    BY <2>1
<1> QED
  BY <1>1, <1>2, <1>3 DEF Lists

\* A call carries finitely many of them.
LEMMA ListLength ==
  ASSUME NEW l \in Lists \cup {<<>>}
  PROVE  Len(l) \in Nat
<1>1. CASE l = <<>>
  BY <1>1
<1>2. CASE \E q \in Settings : l = <<q>>
  BY <1>2
<1>3. CASE l \in Settings \X Settings
  BY <1>3
<1> QED
  BY <1>1, <1>2, <1>3 DEF Lists

\* The value as the register takes it fits the field too.
LEMMA InvertedFits ==
  ASSUME NEW a \in Attributes, NEW value \in SUBSET (0 .. Width(a) - 1),
         NEW put, put = IF a.name \in SetInverted THEN Flip(value) ELSE value
  PROVE  put \in SUBSET (0 .. Field(a).msb - Field(a).lsb)
<1>1. Width(a) - 1 = Field(a).msb - Field(a).lsb /\ Field(a).lsb \in Bits
  BY FieldType
<1>2. CASE a.name \in SetInverted
  <2>1. Field(a).msb - Field(a).lsb = 0
    BY <1>1, <1>2, InvertedAreBits DEF Bits
  <2> QED
    BY <1>2, <2>1 DEF Flip
<1>3. CASE a.name \notin SetInverted
  BY <1>1, <1>3
<1> QED
  BY <1>2, <1>3

\* What the setting of one attribute does to the register.
LEMMA RegisterPut ==
  ASSUME Oversized = {}, TypeOK, SetAttribute,
         NEW s, s = list[done + 1]
  PROVE  /\ s \in Settings /\ s.attr \in Attributes /\ s.value \in SUBSET (0 .. Width(s.attr) - 1)
         /\ done \in Nat /\ done < Len(list) /\ done' = done + 1 /\ list' = list
         /\ \E put \in SUBSET (0 .. Field(s.attr).msb - Field(s.attr).lsb) :
              /\ put = IF s.attr.name \in SetInverted THEN Flip(s.value) ELSE s.value
              /\ regs' = [regs EXCEPT ![Field(s.attr).reg] =
                            PutField(regs[Field(s.attr).reg], Field(s.attr).msb,
                                     Field(s.attr).lsb, put)]
<1>1. /\ done < Len(list) /\ done' = done + 1 /\ list' = list
  BY DEF SetAttribute, Setting
<1>2. done \in Nat /\ Len(list) \in Nat
  BY ListLength DEF TypeOK
<1>3. s \in Settings
  BY <1>1, <1>2, ListElements DEF TypeOK
<1>4. s.attr \in Attributes /\ s.value \in SUBSET (0 .. Width(s.attr) - 1)
  BY <1>3, SettingFits
<1>5. PICK put : put = IF s.attr.name \in SetInverted THEN Flip(s.value) ELSE s.value
  OBVIOUS
<1>6. put \in SUBSET (0 .. Field(s.attr).msb - Field(s.attr).lsb)
  BY <1>4, <1>5, InvertedFits
<1>7. regs' = [regs EXCEPT ![Field(s.attr).reg] =
                 PutField(regs[Field(s.attr).reg], Field(s.attr).msb, Field(s.attr).lsb, put)]
  BY <1>5 DEF SetAttribute, Current
<1> QED
  BY <1>1, <1>2, <1>3, <1>4, <1>5, <1>6, <1>7

\* Setting an attribute leaves every other one alone, and the one that is set
\* reads back what it was set to, or the inverse if it clears the FEC counters.
LEMMA SetOne ==
  ASSUME Oversized = {}, TypeOK, SetAttribute,
         NEW s, s = list[done + 1]
  PROVE  /\ \A a \in Attributes : a # s.attr => Get(a)' = Get(a)
         /\ Get(s.attr)' = ReadAs(s)
<1>1. PICK put \in SUBSET (0 .. Field(s.attr).msb - Field(s.attr).lsb) :
        /\ put = IF s.attr.name \in SetInverted THEN Flip(s.value) ELSE s.value
        /\ regs' = [regs EXCEPT ![Field(s.attr).reg] =
                      PutField(regs[Field(s.attr).reg], Field(s.attr).msb,
                               Field(s.attr).lsb, put)]
  BY RegisterPut
<1>2. s.attr \in Attributes /\ s.value \in SUBSET (0 .. Width(s.attr) - 1)
  BY RegisterPut
<1>3. PICK f : f = Field(s.attr)
  OBVIOUS
<1>4. /\ f.reg \in Registers /\ f.lsb \in Bits /\ f.msb \in f.lsb .. 15
      /\ put \in SUBSET (0 .. f.msb - f.lsb) /\ Width(s.attr) - 1 = f.msb - f.lsb
  BY <1>1, <1>2, <1>3, FieldType
<1>5. /\ regs'[f.reg] = PutField(regs[f.reg], f.msb, f.lsb, put)
      /\ \A r \in Registers : r # f.reg => regs'[r] = regs[r]
  BY <1>1, <1>3, <1>4 DEF TypeOK
<1>6. ASSUME NEW a \in Attributes, a # s.attr
      PROVE  Get(a)' = Get(a)
  <2>1. /\ Field(a).reg \in Registers /\ Field(a).lsb \in Bits
        /\ Field(a).msb \in Field(a).lsb .. 15
    BY FieldType
  <2>2. GetField(regs'[Field(a).reg], Field(a).msb, Field(a).lsb)
          = GetField(regs[Field(a).reg], Field(a).msb, Field(a).lsb)
    <3>1. CASE Field(a).reg # f.reg
      BY <1>5, <2>1, <3>1
    <3>2. CASE Field(a).reg = f.reg
      <4>1. Field(a).msb < f.lsb \/ f.msb < Field(a).lsb
        BY <1>2, <1>3, <1>6, <3>2, FieldsDisjoint
      <4> QED
        BY <1>4, <1>5, <2>1, <3>2, <4>1, PutKeepsOthers
    <3> QED
      BY <3>1, <3>2
  <2> QED
    BY <2>2 DEF Get
<1>7. GetField(regs'[f.reg], f.msb, f.lsb) = put
  BY <1>4, <1>5, PutThenGet
<1>8. Get(s.attr)' = IF s.attr.name \in GetInverted THEN Flip(put) ELSE put
  BY <1>3, <1>7 DEF Get
<1>9. CASE s.attr.name = "CLEAR_FEC_COUNTERS"
  <2>1. put = Flip(s.value) /\ s.attr.name \notin GetInverted
    BY <1>1, <1>9 DEF SetInverted, GetInverted
  <2>2. Get(s.attr)' = Flip(s.value)
    BY <1>8, <2>1
  <2> QED
    BY <1>6, <1>9, <2>2 DEF ReadAs
<1>10. CASE s.attr.name # "CLEAR_FEC_COUNTERS"
  <2>1. s.attr.name \in SetInverted <=> s.attr.name \in GetInverted
    BY <1>10 DEF SetInverted, GetInverted
  <2>2. Get(s.attr)' = s.value
    <3>1. CASE s.attr.name \in SetInverted
      <4>1. f.msb = f.lsb
        BY <1>2, <1>3, <3>1, InvertedAreBits
      <4>2. s.value \subseteq {0}
        BY <1>2, <1>4, <4>1 DEF Bits
      <4>3. Flip(put) = s.value
        BY <1>1, <3>1, <4>2 DEF Flip
      <4> QED
        BY <1>8, <2>1, <3>1, <4>3
    <3>2. CASE s.attr.name \notin SetInverted
      BY <1>1, <1>8, <2>1, <3>2
    <3> QED
      BY <3>1, <3>2
  <2> QED
    BY <1>6, <1>10, <2>2 DEF ReadAs
<1> QED
  BY <1>9, <1>10

\* No call has begun.
LEMMA ListInitInv == Init => ListInv
<1> SUFFICES ASSUME Init PROVE ListInv
  OBVIOUS
<1>1. regs \in [Registers -> SUBSET Bits]
  BY RegisterAssumption DEF Init, Bits
<1>2. SetSoFar
  BY DEF Init, SetSoFar
<1> QED
  BY <1>1, <1>2 DEF Init, ListInv, TypeOK

\* A step that leaves the registers alone keeps what is set.
LEMMA RegistersKept ==
  ASSUME ListInv, UNCHANGED <<regs, list, done>>,
         result' \in {"none", "SUCCESS", "FAILURE"}
  PROVE  ListInv'
BY DEF ListInv, TypeOK, SetSoFar, Get

\* One more attribute is set, and those before it that it is not another value
\* for keep theirs.
LEMMA SetAttributeInv ==
  ASSUME Oversized = {}, ListInv, SetAttribute
  PROVE  ListInv'
<1> USE DEF ListInv
<1>1. PICK s : s = list[done + 1]
  OBVIOUS
<1>2. /\ s.attr \in Attributes
      /\ done \in Nat /\ done < Len(list) /\ done' = done + 1 /\ list' = list
  BY <1>1, RegisterPut
<1>3. Len(list) \in Nat
  BY <1>2, ListLength DEF TypeOK
<1>4. PICK put \in SUBSET (0 .. Field(s.attr).msb - Field(s.attr).lsb) :
        regs' = [regs EXCEPT ![Field(s.attr).reg] =
                   PutField(regs[Field(s.attr).reg], Field(s.attr).msb, Field(s.attr).lsb, put)]
  BY <1>1, RegisterPut
<1>5. TypeOK'
  <2>1. Field(s.attr).reg \in Registers
    BY <1>2, FieldType
  <2>2. PutField(regs[Field(s.attr).reg], Field(s.attr).msb, Field(s.attr).lsb, put)
          \in SUBSET Bits
    BY <2>1 DEF PutField, TypeOK
  <2>3. regs' \in [Registers -> SUBSET Bits]
    BY <1>4, <2>2 DEF TypeOK
  <2>4. done' \in 0 .. Len(list')
    BY <1>2, <1>3
  <2> QED
    BY <1>2, <2>3, <2>4 DEF SetAttribute, TypeOK
<1>6. SetSoFar'
  <2> SUFFICES ASSUME NEW i \in 1 .. done + 1
               PROVE  \/ \E j \in i + 1 .. done + 1 : list[j].attr = list[i].attr
                      \/ Get(list[i].attr)' = ReadAs(list[i])
    BY <1>2 DEF SetSoFar, Get, ReadAs
  <2>1. CASE i = done + 1
    BY <1>1, <1>2, <2>1, SetOne
  <2>2. CASE i # done + 1
    <3>1. i \in 1 .. done /\ list[i].attr \in Attributes
      <4>1. i \in 1 .. done /\ i \in 1 .. Len(list)
        BY <1>2, <1>3, <2>2
      <4>2. list[i] \in Settings
        BY <4>1, ListElements DEF TypeOK
      <4> QED
        BY <4>1, <4>2, SettingFits
    <3>2. CASE list[i].attr = s.attr
      BY <1>1, <1>2, <3>1, <3>2
    <3>3. CASE list[i].attr # s.attr
      <4>1. Get(list[i].attr)' = Get(list[i].attr)
        BY <1>1, <1>2, <3>1, <3>3, SetOne
      <4>2. \A j \in i + 1 .. done : j \in i + 1 .. done + 1
        BY <1>2, <3>1
      <4> QED
        BY <3>1, <4>1, <4>2 DEF SetSoFar
    <3> QED
      BY <3>2, <3>3
  <2> QED
    BY <2>1, <2>2
<1> QED
  BY <1>5, <1>6

\* Every access of a call keeps the invariant.
LEMMA ListNextInv ==
  ASSUME Oversized = {}, ListInv, [Next]_vars
  PROVE  ListInv'
<1>1. CASE list = <<>> /\ \E l \in Lists : SetAttributes(l)
  <2>1. done = 0 /\ done' = 0 /\ list' \in Lists /\ UNCHANGED <<regs, result>>
    BY <1>1 DEF SetAttributes, ListInv, TypeOK
  <2>2. Len(list') \in Nat
    BY <2>1, ListLength
  <2> QED
    BY <2>1, <2>2 DEF ListInv, TypeOK, SetSoFar
<1>2. CASE SetAttribute
  BY <1>2, SetAttributeInv
<1>3. CASE SetFails
  BY <1>3, RegistersKept DEF SetFails
<1>4. CASE SetReturns
  BY <1>4, RegistersKept DEF SetReturns
<1>5. CASE UNCHANGED vars
  BY <1>5, RegistersKept DEF vars, ListInv, TypeOK
<1> QED
  BY <1>1, <1>2, <1>3, <1>4, <1>5 DEF Next

\* The getters of the status leave the control registers alone.
LEMMA StatusStep ==
  ASSUME [StatusNext]_<<vars, statusVars>>
  PROVE  [Next]_vars
BY DEF StatusNext, statusVars, GetStatus, BufferOverflow, StatusMoves, ReadStatus,
       ReadStatusFails, StatusReturns

\* Registers hold words and lists are the callers', in every behaviour.
THEOREM ListInvariance == Oversized = {} => (StatusSpec => []ListInv)
<1> SUFFICES ASSUME Oversized = {} PROVE StatusSpec => []ListInv
  OBVIOUS
<1>1. StatusInit => ListInv
  BY ListInitInv DEF StatusInit
<1>2. ListInv /\ [StatusNext]_<<vars, statusVars>> => ListInv'
  BY StatusStep, ListNextInv
<1> QED
  BY <1>1, <1>2, PTL DEF StatusSpec

\* Of values that fit, whether the call has returned success or failure, those
\* before the one that failed read back, the later one where an attribute is
\* set twice (set_..._attributes and get_..._attributes of both interfaces).
THEOREM ReadBack == Oversized = {} => (StatusSpec => []ListReadsBack)
<1> SUFFICES ASSUME Oversized = {} PROVE StatusSpec => []ListReadsBack
  OBVIOUS
<1>1. ListInv => ListReadsBack
  BY DEF ListInv, SetSoFar, ListReadsBack
<1>2. StatusSpec => []ListInv
  BY ListInvariance
<1> QED
  BY <1>1, <1>2, PTL

\* Setting an attribute to a value that fits changes no other attribute, of
\* this or of any other interface, although up to eight share a register.
THEOREM OthersAreKept == Oversized = {} => (StatusSpec => OthersKept)
<1> SUFFICES ASSUME Oversized = {} PROVE StatusSpec => OthersKept
  OBVIOUS
<1>1. ListInv /\ [StatusNext]_<<vars, statusVars>> =>
        [\A a \in Attributes :
           Get(a)' # Get(a) => done < Len(list) /\ a = Current.attr]_vars
  <2> SUFFICES ASSUME ListInv, [Next]_vars, NEW a \in Attributes, Get(a)' # Get(a)
               PROVE  done < Len(list) /\ a = Current.attr
    BY StatusStep
  <2>1. SetAttribute
    <3>1. regs' # regs
      BY DEF Get
    <3> QED
      BY <3>1 DEF Next, SetAttributes, SetFails, SetReturns, vars
  <2>2. done < Len(list)
    BY <2>1 DEF SetAttribute, Setting
  <2>3. a = Current.attr
    BY <2>1, SetOne DEF Current, ListInv
  <2> QED
    BY <2>2, <2>3
<1>2. StatusSpec => []ListInv
  BY ListInvariance
<1> QED
  BY <1>1, <1>2, PTL DEF StatusSpec, OthersKept

-----------------------------------------------------------------------------
(* Numbers of any size.                                                    *)

\* What is put into a field leaves the fields below it alone, and of those
\* above it takes no bit away.
LEMMA PutAnyNumber ==
  ASSUME NEW word, NEW lsb \in Bits, NEW msb \in lsb .. 15, NEW value \in SUBSET Nat,
         NEW l \in Bits, NEW m \in l .. 15
  PROVE  /\ m < lsb => GetField(PutField(word, msb, lsb, value), m, l) = GetField(word, m, l)
         /\ msb < l => GetField(word, m, l) \subseteq GetField(PutField(word, msb, lsb, value), m, l)
<1> DEFINE put == PutField(word, msb, lsb, value)
<1>1. ASSUME m < lsb, NEW b \in l .. m
      PROVE  b \in put <=> b \in word
  <2>1. b \notin lsb .. msb /\ \A w \in value : w + lsb # b
    BY <1>1 DEF Bits
  <2> QED
    BY <2>1 DEF PutField
<1>2. ASSUME msb < l, NEW b \in word \cap l .. m
      PROVE  b \in put
  <2>1. b \notin lsb .. msb
    BY <1>2 DEF Bits
  <2> QED
    BY <1>2, <2>1 DEF PutField
<1>3. m < lsb => put \cap l .. m = word \cap l .. m
  BY <1>1
<1>4. msb < l => word \cap l .. m \subseteq put \cap l .. m
  BY <1>2
<1> HIDE DEF put
<1> QED
  BY <1>3, <1>4 DEF GetField, put

\* The bits of an attribute.
FieldOf(a) == GetField(regs[Field(a).reg], Field(a).msb, Field(a).lsb)

Fits(s) == s.value \subseteq 0 .. Width(s.attr) - 1

\* Whatever the number, setting an attribute changes no other register, in
\* its own none but the attributes above it, and those by setting bits; and
\* none of them if the number fits.
OnlyAbove ==
  \A a \in Attributes :
    Get(a)' # Get(a) =>
      /\ done < Len(list) /\ Field(a).reg = Field(Current.attr).reg
      /\ a # Current.attr =>
           /\ ~Fits(Current)
           /\ Field(a).lsb > Field(Current.attr).msb
           /\ FieldOf(a) \subseteq FieldOf(a)'

\* Of any setting, the number that goes into the register.
LEMMA AnyRegisterPut ==
  ASSUME TypeOK, SetAttribute, NEW s, s = list[done + 1]
  PROVE  /\ s.attr \in Attributes
         /\ done \in Nat /\ Len(list) \in Nat /\ done < Len(list) /\ done' = done + 1
         /\ list' = list
         /\ \E put \in SUBSET Nat :
              /\ Fits(s) => put \in SUBSET (0 .. Field(s.attr).msb - Field(s.attr).lsb)
              /\ regs' = [regs EXCEPT ![Field(s.attr).reg] =
                            PutField(regs[Field(s.attr).reg], Field(s.attr).msb,
                                     Field(s.attr).lsb, put)]
<1>1. /\ done < Len(list) /\ done' = done + 1 /\ list' = list
  BY DEF SetAttribute, Setting
<1>2. done \in Nat /\ Len(list) \in Nat
  BY ListLength DEF TypeOK
<1>3. s \in Settings
  BY <1>1, <1>2, ListElements DEF TypeOK
<1>4. s.attr \in Attributes /\ s.value \in Values \cup Oversized
  BY <1>3 DEF Settings
<1>5. s.value \in SUBSET Nat
  BY <1>4, RegisterAssumption
<1>6. PICK put : put = IF s.attr.name \in SetInverted THEN Flip(s.value) ELSE s.value
  OBVIOUS
<1>7. put \in SUBSET Nat
  BY <1>5, <1>6 DEF Flip
<1>8. ASSUME Fits(s)
      PROVE  put \in SUBSET (0 .. Field(s.attr).msb - Field(s.attr).lsb)
  BY <1>4, <1>6, <1>8, InvertedFits DEF Fits
<1>9. regs' = [regs EXCEPT ![Field(s.attr).reg] =
                 PutField(regs[Field(s.attr).reg], Field(s.attr).msb, Field(s.attr).lsb, put)]
  BY <1>6 DEF SetAttribute, Current
<1> QED
  BY <1>1, <1>2, <1>4, <1>7, <1>8, <1>9

\* Setting one attribute to any number.
LEMMA SetAny ==
  ASSUME TypeOK, SetAttribute
  PROVE  TypeOK' /\ OnlyAbove
<1>1. PICK s : s = list[done + 1] /\ s = Current
  BY DEF Current
<1>2. /\ s.attr \in Attributes
      /\ done \in Nat /\ Len(list) \in Nat /\ done < Len(list) /\ done' = done + 1
      /\ list' = list
  BY <1>1, AnyRegisterPut
<1>3. PICK put \in SUBSET Nat :
        /\ Fits(s) => put \in SUBSET (0 .. Field(s.attr).msb - Field(s.attr).lsb)
        /\ regs' = [regs EXCEPT ![Field(s.attr).reg] =
                      PutField(regs[Field(s.attr).reg], Field(s.attr).msb,
                               Field(s.attr).lsb, put)]
  BY <1>1, AnyRegisterPut
<1>4. PICK f : f = Field(s.attr)
  OBVIOUS
<1>5. f.reg \in Registers /\ f.lsb \in Bits /\ f.msb \in f.lsb .. 15
  BY <1>2, <1>4, FieldType
<1>6. /\ regs'[f.reg] = PutField(regs[f.reg], f.msb, f.lsb, put)
      /\ \A r \in Registers : r # f.reg => regs'[r] = regs[r]
  BY <1>3, <1>4, <1>5 DEF TypeOK
<1>7. TypeOK'
  <2>1. PutField(regs[f.reg], f.msb, f.lsb, put) \in SUBSET Bits
    BY <1>5 DEF PutField, TypeOK
  <2>2. regs' \in [Registers -> SUBSET Bits]
    BY <1>3, <1>4, <2>1 DEF TypeOK
  <2>3. done' \in 0 .. Len(list')
    BY <1>2
  <2> QED
    BY <1>2, <2>2, <2>3 DEF SetAttribute, TypeOK
<1>8. ASSUME NEW a \in Attributes, Get(a)' # Get(a)
      PROVE  /\ Field(a).reg = f.reg
             /\ a # s.attr => /\ ~Fits(s) /\ Field(a).lsb > f.msb
                              /\ FieldOf(a) \subseteq FieldOf(a)'
  <2>1. /\ Field(a).reg \in Registers /\ Field(a).lsb \in Bits
        /\ Field(a).msb \in Field(a).lsb .. 15
    BY FieldType
  <2>2. FieldOf(a)' # FieldOf(a)
    BY <1>8 DEF Get, FieldOf
  <2>3. Field(a).reg = f.reg
    BY <1>6, <2>1, <2>2 DEF FieldOf
  <2>4. ASSUME a # s.attr
        PROVE  ~Fits(s) /\ Field(a).lsb > f.msb /\ FieldOf(a) \subseteq FieldOf(a)'
    <3>1. Field(a).msb < f.lsb \/ f.msb < Field(a).lsb
      BY <1>2, <1>4, <2>3, <2>4, FieldsDisjoint
    <3>2. ~(Field(a).msb < f.lsb)
      <4> SUFFICES ASSUME Field(a).msb < f.lsb
                   PROVE  FieldOf(a)' = FieldOf(a)
        BY <2>2
      <4>1. GetField(PutField(regs[f.reg], f.msb, f.lsb, put), Field(a).msb, Field(a).lsb)
              = GetField(regs[f.reg], Field(a).msb, Field(a).lsb)
        BY <1>5, <2>1, PutAnyNumber
      <4> QED
        BY <1>6, <2>3, <4>1 DEF FieldOf
    <3>3. f.msb < Field(a).lsb /\ FieldOf(a) \subseteq FieldOf(a)'
      BY <1>5, <1>6, <2>1, <2>3, <3>1, <3>2, PutAnyNumber DEF FieldOf
    <3>4. ~Fits(s)
      BY <1>3, <1>4, <1>5, <1>6, <2>1, <2>2, <2>3, <3>1, PutKeepsOthers DEF FieldOf
    <3>5. Field(a).lsb > f.msb
      BY <1>5, <2>1, <3>3 DEF Bits
    <3> QED
      BY <3>3, <3>4, <3>5
  <2> QED
    BY <2>3, <2>4
<1>9. OnlyAbove
  BY <1>1, <1>2, <1>4, <1>8 DEF OnlyAbove
<1> QED
  BY <1>7, <1>9

\* Whatever numbers the callers give, the registers hold words of 16 bits
\* (TypeOK), and an attribute changes for one of two reasons: it is set, or a
\* number that does not fit is given to one below it in the same register
\* (ac400_set_field_from_reg_list).
THEOREM AnyNumber == StatusSpec => []TypeOK /\ [][OnlyAbove]_vars
<1>1. StatusInit => TypeOK
  BY ListInitInv DEF StatusInit, ListInv
<1>2. ASSUME TypeOK, [StatusNext]_<<vars, statusVars>>
      PROVE  TypeOK' /\ [OnlyAbove]_vars
  <2>1. [Next]_vars
    BY <1>2, StatusStep
  <2>2. CASE SetAttribute
    BY <1>2, <2>2, SetAny
  <2>3. CASE list = <<>> /\ \E l \in Lists : SetAttributes(l)
    <3>1. /\ done = 0 /\ done' = 0 /\ list' \in Lists /\ UNCHANGED <<regs, result>>
      BY <1>2, <2>3 DEF SetAttributes, TypeOK
    <3>2. Len(list') \in Nat
      BY <3>1, ListLength
    <3> QED
      BY <1>2, <3>1, <3>2 DEF TypeOK, OnlyAbove, Get
  <2>4. CASE SetFails \/ SetReturns \/ UNCHANGED vars
    BY <1>2, <2>4 DEF SetFails, SetReturns, vars, TypeOK, OnlyAbove, Get
  <2> QED
    BY <2>1, <2>2, <2>3, <2>4 DEF Next
<1> QED
  BY <1>1, <1>2, PTL DEF StatusSpec

-----------------------------------------------------------------------------
(* Status.                                                                 *)

\* A getter's lanes so far: each state that it has tested the right bit for,
\* and whose bit has not moved, is reported as it is.
ReportsTrue ==
  \A lane \in 1 .. Len(reports), state \in DOMAIN StatusBits[asked.name] :
    LET p == <<OwnRegister(asked, lane), StatusBits[asked.name][state]>> IN
    p \notin moved /\ ~Misread(asked.name, state)
      => (state \in reports[lane] <=> p \in raised)

StatusInv ==
  \/ asked = NoStatus /\ reports = <<>> /\ moved = {} /\ answer = "none"
  \/ /\ asked \in StatusAttributes
     /\ reports \in Seq(SUBSET DOMAIN StatusBits[asked.name])
     /\ Len(reports) <= Lanes(asked.name)
     /\ answer = "SUCCESS" => Len(reports) = Lanes(asked.name)
     /\ ReportsTrue

\* The getters find the registers of the lanes of their own interface.
LEMMA RegisterIsOwn ==
  ASSUME NEW a \in StatusAttributes, NEW lane \in 1 .. Lanes(a.name)
  PROVE  StatusRegister(a, lane) = OwnRegister(a, lane)
<1>1. CASE a.name = "LANE_FAULTS"
  <2>1. a.index \in 0 .. 3 /\ lane \in 1 .. 4
    BY <1>1, RegisterAssumption DEF StatusAttributes, Lanes
  <2>2. /\ HostLanes[1] = <<0, 1, 2, 3>> /\ HostLanes[2] = <<4, 5, 6, 7>>
        /\ HostLanes[3] = <<8, 9, 10, 11>> /\ HostLanes[4] = <<12, 13, 14, 15>>
    BY DEF HostLanes
  <2>3. HostLanes[a.index + 1][lane] = 4 * a.index + lane - 1
    BY <2>1, <2>2
  <2> QED
    BY <1>1, <2>3 DEF StatusRegister, OwnRegister, Lanes
<1>2. CASE a.name # "LANE_FAULTS"
  <2>1. lane = 1 /\ a.index \in Int
    <3>1. a.index \in Netifs \/ a.index \in Hostifs
      BY DEF StatusAttributes
    <3>2. \A i \in Netifs \cup Hostifs : i \in Int
      BY RegisterAssumption
    <3>3. lane = 1
      BY <1>2 DEF Lanes
    <3> QED
      BY <3>1, <3>2, <3>3
  <2>2. 1 * a.index + 1 - 1 = a.index
    BY <2>1
  <2> QED
    BY <1>2, <2>1, <2>2 DEF StatusRegister, OwnRegister, Lanes
<1> QED
  BY <1>1, <1>2

\* Every status bit is a bit of a word.
LEMMA StatusBitType ==
  ASSUME NEW name \in DOMAIN StatusBits
  PROVE  \A state \in DOMAIN StatusBits[name] : StatusBits[name][state] \in Bits
<1>1. /\ DOMAIN StatusBits = {"TX_TURN_UP_STATE", "RX_TURN_UP_STATE", "TX_ALIGN", "RX_ALIGN",
                              "CLIENT_TX_ALIGN", "LANE_FAULTS"}
      /\ StatusBits["TX_TURN_UP_STATE"] =
           [PATH_INIT |-> 0, DATA_PATH |-> 1, LASER_OFF |-> 2, LASER_READY |-> 3,
            MODULATOR_CONV |-> 4, POWER_ADJUST |-> 5]
      /\ StatusBits["RX_TURN_UP_STATE"] =
           [PATH_INIT |-> 0, DATA_PATH |-> 1, OPTICAL_SIGNAL |-> 2, ADC_OUTPUT |-> 3,
            GOOD_DISP |-> 4, DEMOD_LOCK |-> 5]
      /\ StatusBits["TX_ALIGN"] = [OUT |-> 14, CMU_LOCK |-> 13, REF_CLOCK |-> 12]
      /\ StatusBits["RX_ALIGN"] =
           [MODEM_SYNC |-> 15, MODEM_LOCK |-> 14, LOSS |-> 13, OUT |-> 12, TIMING |-> 11]
      /\ StatusBits["CLIENT_TX_ALIGN"] = [LOSS |-> 14, OUT |-> 13, DESKEW_LOCK |-> 12]
      /\ StatusBits["LANE_FAULTS"] = [LOSS_OF_LOCK |-> 0, TX_FIFO_ERR |-> 1]
  BY DEF StatusBits
<1>2. CASE name \in {"TX_TURN_UP_STATE"}
  BY <1>1, <1>2 DEF Bits
<1>3. CASE name \in {"RX_TURN_UP_STATE"}
  BY <1>1, <1>3 DEF Bits
<1>4. CASE name \in {"TX_ALIGN", "CLIENT_TX_ALIGN"}
  BY <1>1, <1>4 DEF Bits
<1>5. CASE name \in {"RX_ALIGN", "LANE_FAULTS"}
  BY <1>1, <1>5 DEF Bits
<1> QED
  BY <1>1, <1>2, <1>3, <1>4, <1>5

\* The register, read where the getter reads it, shows its bits.
LEMMA TestedIsRaised ==
  ASSUME NEW a \in StatusAttributes, NEW lane \in 1 .. Lanes(a.name),
         NEW state \in DOMAIN StatusBits[a.name], ~Misread(a.name, state)
  PROVE  {b \in Bits : <<StatusRegister(a, lane), b>> \in raised} \cap Tested(a.name, state) # {}
           <=> <<OwnRegister(a, lane), StatusBits[a.name][state]>> \in raised
<1>1. a.name \in DOMAIN StatusBits
  BY DEF StatusAttributes, StatusBits
<1>2. StatusBits[a.name][state] \in Bits
  BY <1>1, StatusBitType
<1>3. Tested(a.name, state) = {StatusBits[a.name][state]}
  BY DEF Tested
<1> QED
  BY <1>2, <1>3, RegisterIsOwn

\* No status attribute is the absent one.
LEMMA NoStatusIsNone == NoStatus \notin StatusAttributes
  BY DEF StatusAttributes, NoStatus, StatusBits

\* No status has been read yet.
LEMMA StatusInitInv == StatusInit => StatusInv
BY DEF StatusInit, StatusInv, ReportsTrue, Lanes, NoStatus

\* One more lane is read.
LEMMA ReadStatusInv ==
  ASSUME StatusInv, ReadStatus
  PROVE  StatusInv'
<1> USE DEF StatusInv
<1>1. /\ asked \in StatusAttributes /\ answer = "none" /\ Len(reports) < Lanes(asked.name)
      /\ UNCHANGED <<raised, asked, answer, moved>>
  BY DEF ReadStatus, Reading
<1>2. PICK n : n = Len(reports) + 1
  OBVIOUS
<1>3. n \in Nat /\ n \in 1 .. Lanes(asked.name) /\ Lanes(asked.name) \in Nat
  BY <1>1, <1>2 DEF Lanes
<1>4. PICK report \in SUBSET DOMAIN StatusBits[asked.name] :
        /\ report = {state \in DOMAIN StatusBits[asked.name] :
                       {b \in Bits : <<StatusRegister(asked, n), b>> \in raised}
                         \cap Tested(asked.name, state) # {}}
        /\ reports' = Append(reports, report)
  BY <1>2 DEF ReadStatus
<1>5. /\ reports' \in Seq(SUBSET DOMAIN StatusBits[asked.name])
      /\ Len(reports') = n /\ reports'[n] = report
      /\ \A lane \in 1 .. Len(reports) : reports'[lane] = reports[lane]
  <2>1. reports \in Seq(SUBSET DOMAIN StatusBits[asked.name])
    BY <1>1, NoStatusIsNone
  <2>2. PICK S : S = SUBSET DOMAIN StatusBits[asked.name]
    OBVIOUS
  <2>3. reports \in Seq(S) /\ report \in S
    BY <2>1, <2>2
  <2>4. /\ Append(reports, report) \in Seq(S) /\ Len(Append(reports, report)) = n
        /\ Append(reports, report)[n] = report
        /\ \A lane \in 1 .. Len(reports) : Append(reports, report)[lane] = reports[lane]
    BY <1>2, <2>3
  <2> QED
    BY <1>4, <2>2, <2>4
<1>6. ReportsTrue'
  <2> SUFFICES ASSUME NEW lane \in 1 .. n, NEW state \in DOMAIN StatusBits[asked.name],
                      NEW p, p = <<OwnRegister(asked, lane), StatusBits[asked.name][state]>>,
                      p \notin moved, ~Misread(asked.name, state)
               PROVE  state \in reports'[lane] <=> p \in raised
    BY <1>1, <1>5 DEF ReportsTrue
  <2>1. CASE lane = n
    BY <1>1, <1>3, <1>4, <1>5, <2>1, TestedIsRaised
  <2>2. CASE lane # n
    <3>1. lane \in 1 .. Len(reports)
      BY <1>2, <1>3, <2>2
    <3> QED
      BY <1>5, <3>1 DEF ReportsTrue
  <2> QED
    BY <2>1, <2>2
<1> QED
  BY <1>1, <1>2, <1>3, <1>5, <1>6

\* Reads and the hardware, in any order, keep the invariant.
LEMMA StatusNextInv ==
  ASSUME StatusInv, [StatusNext]_<<vars, statusVars>>
  PROVE  StatusInv'
<1> USE DEF StatusInv
<1>1. CASE UNCHANGED statusVars
  BY <1>1 DEF statusVars, ReportsTrue
<1> USE DEF Reading
<1>2. ASSUME NEW a \in StatusAttributes, GetStatus(a)
      PROVE  StatusInv'
  <2>1. asked' = a /\ reports' = <<>> /\ moved' = {} /\ answer' = "none"
    BY <1>2, NoStatusIsNone DEF GetStatus
  <2> QED
    BY <2>1 DEF ReportsTrue, Lanes
<1>3. CASE BufferOverflow \/ ReadStatusFails
  <2>1. /\ Reading /\ UNCHANGED <<raised, asked, reports, moved>>
        /\ answer' \in {"BUFFER_OVERFLOW", "FAILURE"}
    BY <1>3 DEF BufferOverflow, ReadStatusFails
  <2> QED
    BY <2>1 DEF ReportsTrue
<1>4. CASE StatusMoves
  <2>1. PICK p \in StatusBitsOf(asked.name) \ moved :
          /\ raised' = IF p \in raised THEN raised \ {p} ELSE raised \cup {p}
          /\ moved' = moved \cup {p}
    BY <1>4 DEF StatusMoves
  <2>2. Reading /\ UNCHANGED <<asked, reports, answer>>
    BY <1>4 DEF StatusMoves
  <2>3. \A q : q \notin moved' => q \notin moved /\ (q \in raised' <=> q \in raised)
    BY <2>1
  <2>4. ReportsTrue'
    BY <2>2, <2>3 DEF ReportsTrue
  <2> QED
    BY <2>2, <2>4 DEF Reading
<1>5. CASE ReadStatus
  BY <1>5, ReadStatusInv
<1>6. CASE StatusReturns
  <2>1. /\ Reading /\ Len(reports) = Lanes(asked.name)
        /\ UNCHANGED <<raised, asked, reports, moved>>
    BY <1>6 DEF StatusReturns
  <2> QED
    BY <2>1 DEF ReportsTrue
<1> QED
  BY <1>1, <1>2, <1>3, <1>4, <1>5, <1>6 DEF StatusNext

\* A getter that succeeds reports of every lane of its own interface exactly
\* the states whose bits were raised and did not move, though the hardware
\* moves them between its reads (get_tx_turn_up_state and its like,
\* get_lane_faults).
THEOREM StatusTrue == StatusSpec => []StatusWasTrue
<1>1. StatusInit => StatusInv
  BY StatusInitInv
<1>2. StatusInv /\ [StatusNext]_<<vars, statusVars>> => StatusInv'
  BY StatusNextInv
<1>3. StatusInv => StatusWasTrue
  BY DEF StatusInv, ReportsTrue, StatusWasTrue
<1> QED
  BY <1>1, <1>2, <1>3, PTL DEF StatusSpec
=============================================================================
