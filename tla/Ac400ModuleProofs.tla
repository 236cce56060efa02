--------------------------- MODULE Ac400ModuleProofs ---------------------------
(***************************************************************************)
(* Proofs about Ac400Module, for any lanes and register values, whether or *)
(* not accesses fail.  The invariant follows a call from its beginning to  *)
(* its return: which of its signals are written (Writing), what has been   *)
(* found out when it comes to wait, to write a register and to restore     *)
(* (Settled, Lowered, LaneWay, ModuleWay), and, for the transmitters, that *)
(* whatever was not asked for stays switched off (Quiet).                  *)
(***************************************************************************)
EXTENDS Ac400Module, SequenceTheorems, TLAPS

Names == States \cup {"none"}

CallRecords ==
  [op : {"none", "create", "status", "mode", "format"}, netif : Netifs \cup {"none"},
   arg : Modes \cup Formats \cup BadFormats \cup {"none"}, prev : Names, lit : BOOLEAN,
   target : Names, from : Names, next : {"none", "return", "write"},
   todo : Seq(Signals \X BOOLEAN)]

Snapshots == [signals : SUBSET Signals, enable : SUBSET Netifs, atRest : BOOLEAN]

Records == call \in CallRecords /\ began \in Snapshots

ChangingStatus == pc \in {"status", "signals", "alarm", "poll"}

\* Which call is at which step, and with which arguments.  A setter changes
\* the state twice: to low power, to write then, and back to where it was.
Phases ==
  /\ pc = "init" => call.op = "create"
  /\ pc \in {"status", "poll"} => call.op # "create"
  /\ pc # "idle" => call.op # "none"
  /\ pc \in {"mode", "write", "restore"} => call.op \in {"mode", "format"}
  /\ pc = "lane" => call.op = "format" /\ mode # "COUPLED"
  /\ pc \in {"init", "mode", "lane"} => call.prev = "none"
  /\ call.op = "create" =>
       /\ call.arg \in Modes \cup {"none"} /\ call.prev = "none" /\ call.target = "none"
       /\ pc \in {"init", "signals", "alarm"}
  /\ call.op = "status" => call.next = "return" /\ call.prev = "none" /\ ChangingStatus
  /\ call.op = "status" => {call.target} \cap Statuses \subseteq asked
  /\ call.op = "mode" => call.arg \in Modes
  /\ call.op = "format" => call.arg \in Formats \cup BadFormats /\ call.netif \in Netifs
  /\ call.op \in {"mode", "format"} /\ ChangingStatus =>
       /\ \/ call.next = "write" /\ call.target = "LOW_POWER"
          \/ call.next = "return" /\ call.target = call.prev
       /\ call.prev # "LOW_POWER"
  /\ pc \in {"signals", "alarm", "poll"} /\ call.op # "create" => call.target \in Statuses
  /\ call.op \notin {"none", "create"} => created

\* todo is what remains of the writes.
SuffixOf(todo, writes) ==
  /\ Len(todo) \in 1 .. Len(writes)
  /\ \A i \in 1 .. Len(todo) : todo[i] = writes[Len(writes) - Len(todo) + i]

\* The first n of the writes are done.
Done(writes, n) == \A i \in 1 .. n : writes[i][1] \in signals <=> writes[i][2]

\* The signals on the way: those before the rest of the list are written.
Writing ==
  pc = "signals" =>
    LET writes == IF call.op = "create" THEN InitWrites ELSE SignalWrites(call.target)
    IN  SuffixOf(call.todo, writes) /\ Done(writes, Len(writes) - Len(call.todo))

\* The signals when they are all written: those of the status, or those of a
\* module that has just been let out of reset, and that has not turned on.
Settled ==
  /\ pc \in {"alarm", "poll"} /\ call.op # "create" =>
       Done(SignalWrites(call.target), 4)
  /\ pc = "alarm" /\ call.op = "create" =>
       /\ {"power", "lopwr", "txdis1", "txdis2"} \subseteq signals /\ "reset" \notin signals
       /\ hw \in Silent

\* A created module is powered, and reset holds the hardware.
Powered ==
  /\ created => "power" \in signals
  /\ "reset" \in signals => hw = "RESET"

\* While READY is not asked for, both transmitters are disabled, or the module
\* is in reset or off and nobody can ask for anything; nor is READY a state
\* that a setter has found and will go back to.
Quiet ==
  "READY" \notin asked =>
    /\ \/ {"txdis1", "txdis2"} \subseteq signals
       \/ ~created /\ Wanted(signals) = "RESET"
    /\ hw # "READY" /\ call.prev # "READY" /\ call.target # "READY"

\* A call that has found the module at rest finds it so until it acts, or
\* broken down; and then writes in low power.
Lowered ==
  began.atRest =>
    /\ pc \in {"mode", "lane"} => hw \in {Wanted(signals), "FAULT"}
    /\ pc = "write" /\ (call.op = "mode" \/ mode = "COUPLED") =>
         Wanted(signals) = "LOW_POWER" /\ hw \in {"LOW_POWER", "FAULT"}

\* What a setter remembers of independent lanes: the one lane it has disabled.
LaneWay ==
  call.op = "format" /\ mode # "COUPLED" =>
    /\ pc \in {"lane", "write", "restore"}
    /\ signals = began.signals
    /\ IF pc = "lane" THEN enable = began.enable
       ELSE /\ enable = began.enable \ {call.netif}
            /\ call.lit <=> call.netif \in began.enable

\* And of the whole module: the state it has found, if it was at rest.
ModuleWay ==
  call.op = "mode" \/ (call.op = "format" /\ mode = "COUPLED") =>
    /\ enable = began.enable
    /\ pc = "mode" \/ call.prev = "LOW_POWER" => signals = began.signals
    /\ pc # "mode" => call.prev # "none"
    /\ began.atRest /\ call.prev \in Statuses => call.prev = Wanted(began.signals)

IInv ==
  /\ TypeOK
  /\ Records
  /\ Phases
  /\ Writing
  /\ Settled
  /\ Powered
  /\ Quiet
  /\ Lowered
  /\ LaneWay
  /\ ModuleWay

-----------------------------------------------------------------------------
(* The hardware.                                                           *)

\* What a step of the hardware tells: it is not at rest, no step leads out of
\* a breakdown or anywhere while it is held in reset, a transmitter turns on
\* only when READY is wanted, and where low power is wanted a module that has
\* just been let out of reset stays silent.
LEMMA MoveFacts ==
  ASSUME HardwareMoves
  PROVE  /\ hw # Wanted(signals) /\ hw # "FAULT" /\ Wanted(signals) # "RESET"
         /\ hw' \in States \ {"RESET", "FAULT"}
         /\ hw' \in {"TX_TURN_ON", "READY"} => Wanted(signals) = "READY"
         /\ Wanted(signals) = "LOW_POWER" /\ hw \in Silent => hw' \in Silent
<1>1. PICK m \in Moves : hw = m[1] /\ Wanted(signals) \in m[3] /\ hw' = m[2]
  BY DEF HardwareMoves
<1>2. \/ hw = "RESET" /\ hw' = "INITIALIZE"
      \/ hw = "INITIALIZE" /\ hw' = "LOW_POWER"
      \/ hw = "LOW_POWER" /\ hw' = "HIGH_POWER_UP" /\ Wanted(signals) \in {"TX_OFF", "READY"}
      \/ hw = "HIGH_POWER_UP" /\ hw' \in {"TX_OFF", "HIGH_POWER_DOWN"}
      \/ hw = "TX_OFF" /\ hw' = "TX_TURN_ON" /\ Wanted(signals) = "READY"
      \/ hw = "TX_OFF" /\ hw' = "HIGH_POWER_DOWN" /\ Wanted(signals) = "LOW_POWER"
      \/ hw = "TX_TURN_ON" /\ hw' = "READY" /\ Wanted(signals) = "READY"
      \/ hw = "TX_TURN_ON" /\ hw' = "TX_TURN_OFF"
      \/ hw = "READY" /\ hw' = "TX_TURN_OFF" /\ Wanted(signals) \in {"TX_OFF", "LOW_POWER"}
      \/ hw = "TX_TURN_OFF" /\ hw' = "TX_OFF"
      \/ hw = "HIGH_POWER_DOWN" /\ hw' = "LOW_POWER"
  BY <1>1 DEF Moves
<1>3. Wanted(signals) \in Statuses \ {"RESET"}
  BY <1>1 DEF Moves, Statuses
<1> QED
  BY <1>2, <1>3 DEF Statuses, States, Silent

\* What a status and module_init write, one by one.
LEMMA StatusWrites ==
  ASSUME NEW s
  PROVE  /\ Len(SignalWrites(s)) = 4
         /\ SignalWrites(s)[1] = <<"reset", s = "RESET">>
         /\ SignalWrites(s)[2] = <<"lopwr", s \in {"RESET", "LOW_POWER"}>>
         /\ SignalWrites(s)[3] = <<"txdis1", s \in {"RESET", "LOW_POWER", "TX_OFF"}>>
         /\ SignalWrites(s)[4] = <<"txdis2", s \in {"RESET", "LOW_POWER", "TX_OFF"}>>
         /\ SignalWrites(s) \in Seq(Signals \X BOOLEAN)
<1>1. ASSUME NEW S, NEW a \in S, NEW b \in S, NEW c \in S, NEW d \in S
      PROVE  <<a, b, c, d>> \in Seq(S) /\ Len(<<a, b, c, d>>) = 4
  OBVIOUS
<1> DEFINE S == Signals \X BOOLEAN
           low == s \in {"RESET", "LOW_POWER"}
           off == s \in {"RESET", "LOW_POWER", "TX_OFF"}
<1>2. /\ <<"reset", s = "RESET">> \in S
      /\ <<"lopwr", low>> \in S /\ <<"txdis1", off>> \in S /\ <<"txdis2", off>> \in S
  <2>1. low \in BOOLEAN /\ off \in BOOLEAN
    OBVIOUS
  <2> HIDE DEF low, off
  <2> QED
    BY <2>1 DEF Signals
<1> HIDE DEF S
<1>3. SignalWrites(s) \in Seq(S) /\ Len(SignalWrites(s)) = 4
  BY <1>1, <1>2 DEF SignalWrites
<1>4. /\ SignalWrites(s)[1] = <<"reset", s = "RESET">>
      /\ SignalWrites(s)[2] = <<"lopwr", s \in {"RESET", "LOW_POWER"}>>
      /\ SignalWrites(s)[3] = <<"txdis1", s \in {"RESET", "LOW_POWER", "TX_OFF"}>>
      /\ SignalWrites(s)[4] = <<"txdis2", s \in {"RESET", "LOW_POWER", "TX_OFF"}>>
  BY DEF SignalWrites
<1> QED
  BY <1>3, <1>4 DEF S

\* The signals that ac400_module_init writes, in order.
LEMMA ModuleInitWrites ==
  /\ Len(InitWrites) = 6
  /\ InitWrites[1] = <<"reset", TRUE>> /\ InitWrites[2] = <<"power", TRUE>>
  /\ InitWrites[3] = <<"lopwr", TRUE>> /\ InitWrites[4] = <<"txdis1", TRUE>>
  /\ InitWrites[5] = <<"txdis2", TRUE>> /\ InitWrites[6] = <<"reset", FALSE>>
  /\ InitWrites \in Seq(Signals \X BOOLEAN)
<1>1. ASSUME NEW S, NEW a \in S, NEW b \in S, NEW c \in S, NEW d \in S, NEW e \in S,
             NEW f \in S
      PROVE  <<a, b, c, d, e, f>> \in Seq(S) /\ Len(<<a, b, c, d, e, f>>) = 6
  OBVIOUS
<1> DEFINE S == Signals \X BOOLEAN
<1>2. /\ <<"reset", TRUE>> \in S /\ <<"power", TRUE>> \in S /\ <<"lopwr", TRUE>> \in S
      /\ <<"txdis1", TRUE>> \in S /\ <<"txdis2", TRUE>> \in S /\ <<"reset", FALSE>> \in S
  BY DEF Signals
<1> HIDE DEF S
<1>3. InitWrites \in Seq(S) /\ Len(InitWrites) = 6
  BY <1>1, <1>2 DEF InitWrites
<1>4. /\ InitWrites[1] = <<"reset", TRUE>> /\ InitWrites[2] = <<"power", TRUE>>
      /\ InitWrites[3] = <<"lopwr", TRUE>> /\ InitWrites[4] = <<"txdis1", TRUE>>
      /\ InitWrites[5] = <<"txdis2", TRUE>> /\ InitWrites[6] = <<"reset", FALSE>>
  BY DEF InitWrites
<1> QED
  BY <1>3, <1>4 DEF S

\* When the signals of a status are written on a powered module, the hardware
\* wants that status; and unless it is READY both transmitters are disabled.
LEMMA WrittenIsWanted ==
  ASSUME NEW status \in Statuses, "power" \in signals, Done(SignalWrites(status), 4)
  PROVE  /\ Wanted(signals) = status
         /\ status # "READY" => {"txdis1", "txdis2"} \subseteq signals
<1>1. \A i \in {1, 2, 3, 4} :
        SignalWrites(status)[i][1] \in signals <=> SignalWrites(status)[i][2]
  BY DEF Done
<1>2. /\ "reset" \in signals <=> status = "RESET"
      /\ "lopwr" \in signals <=> status \in {"RESET", "LOW_POWER"}
      /\ "txdis1" \in signals <=> status \in {"RESET", "LOW_POWER", "TX_OFF"}
      /\ "txdis2" \in signals <=> status \in {"RESET", "LOW_POWER", "TX_OFF"}
  BY <1>1, StatusWrites
<1> QED
  BY <1>2 DEF Statuses, Wanted

\* The signals always lead to one of the states that can be asked for.
LEMMA WantedType == Wanted(signals) \in Statuses
  BY DEF Wanted, Statuses

\* A state the module answers that can be asked for is the hardware's.
LEMMA OperStatusFacts ==
  ASSUME Powered, hw \in States
  PROVE  /\ OperStatus \in States
         /\ OperStatus \in Statuses => OperStatus = hw
         /\ OperStatus = "RESET" => "reset" \in signals
         /\ hw = "READY" => OperStatus = "READY"
  BY DEF Powered, OperStatus, States, Statuses

-----------------------------------------------------------------------------
(* The initial states.                                                     *)

\* The empty call, and the empty snapshot, are of their types.
LEMMA NoCallRecord ==
  /\ NoCall \in CallRecords /\ NoSnapshot \in Snapshots
  /\ NoCall.op = "none" /\ NoCall.prev = "none" /\ NoCall.target = "none"
  BY DEF NoCall, CallRecords, NoSnapshot, Snapshots, Names

\* The adapter finds the module off, or as one of the states leaves it.
LEMMA InitSignals ==
  ASSUME Init
  PROVE  /\ signals \subseteq Signals
         /\ Wanted(signals) \notin {"RESET", "READY"} => {"txdis1", "txdis2"} \subseteq signals
<1>1. CASE signals = {}
  BY <1>1 DEF Wanted
<1>2. ASSUME NEW s \in Statuses,
             signals = {"power"} \cup {w[1] : w \in {v \in
                         {SignalWrites(s)[i] : i \in 1 .. 4} : v[2]}}
      PROVE  /\ signals \subseteq Signals
             /\ Wanted(signals) \notin {"RESET", "READY"} =>
                  {"txdis1", "txdis2"} \subseteq signals
  <2>1. 1 .. 4 = {1, 2, 3, 4}
    OBVIOUS
  <2>2. \A x : x \in signals <=> x = "power" \/ \E i \in {1, 2, 3, 4} :
                 SignalWrites(s)[i][1] = x /\ SignalWrites(s)[i][2]
    BY <1>2, <2>1, Zenon
  <2>3. \A x : x \in signals <=>
          \/ x = "power"
          \/ x = "reset" /\ s = "RESET"
          \/ x = "lopwr" /\ s \in {"RESET", "LOW_POWER"}
          \/ x \in {"txdis1", "txdis2"} /\ s \in {"RESET", "LOW_POWER", "TX_OFF"}
    BY <2>2, StatusWrites
  <2> QED
    BY <2>3 DEF Statuses, Signals, Wanted
<1> QED
  BY <1>1, <1>2 DEF Init

\* The module as the adapter finds it, before any call.
LEMMA InitIInv == Init => IInv
<1> SUFFICES ASSUME Init PROVE IInv
  OBVIOUS
<1> USE NoCallRecord
<1>1. /\ pc = "idle" /\ call = NoCall /\ result = "SUCCESS" /\ created = FALSE
      /\ began = NoSnapshot /\ hw = Wanted(signals) /\ asked = {Wanted(signals)}
  BY DEF Init
<1>2. /\ signals \subseteq Signals
      /\ Wanted(signals) \notin {"RESET", "READY"} => {"txdis1", "txdis2"} \subseteq signals
  BY InitSignals
<1>3. TypeOK
  BY <1>1, <1>2, WantedType DEF TypeOK, Init, States
<1>4. Records
  BY <1>1 DEF Records
<1>5. Phases /\ Writing /\ Settled /\ Lowered /\ LaneWay /\ ModuleWay
  BY <1>1 DEF Phases, Writing, Settled, Lowered, LaneWay, ModuleWay, ChangingStatus
<1>6. Powered
  BY <1>1 DEF Powered, Wanted
<1>7. Quiet
  BY <1>1, <1>2 DEF Quiet
<1> QED
  BY <1>3, <1>4, <1>5, <1>6, <1>7 DEF IInv

-----------------------------------------------------------------------------
(* Steps of the hardware and between calls.                                *)

\* The hardware moves by itself.
LEMMA HardwareMovesIInv ==
  ASSUME IInv, HardwareMoves
  PROVE  IInv'
<1> USE DEF IInv
<1>1. UNCHANGED <<signals, mode, enable, format, created, pc, call, result, asked, began>>
  BY DEF HardwareMoves
<1>2. /\ hw # Wanted(signals) /\ hw # "FAULT" /\ Wanted(signals) # "RESET"
      /\ hw' \in States \ {"RESET", "FAULT"}
      /\ hw' \in {"TX_TURN_ON", "READY"} => Wanted(signals) = "READY"
      /\ Wanted(signals) = "LOW_POWER" /\ hw \in Silent => hw' \in Silent
  BY MoveFacts
<1>3. Wanted(signals)' = Wanted(signals)
  BY <1>1 DEF Wanted
<1>4. TypeOK' /\ Records' /\ Phases' /\ Writing' /\ LaneWay' /\ ModuleWay'
  <2>1. TypeOK'
    BY <1>1, <1>2 DEF TypeOK
  <2>2. Records' /\ Writing' /\ LaneWay'
    BY <1>1 DEF Records, Writing, LaneWay, Done
  <2>3. Phases'
    BY <1>1 DEF Phases, ChangingStatus
  <2>4. ModuleWay'
    BY <1>1 DEF ModuleWay
  <2> QED
    BY <2>1, <2>2, <2>3, <2>4
<1>5. Settled'
  <2>1. pc = "alarm" /\ call.op = "create" => Wanted(signals) = "LOW_POWER"
    BY DEF Settled, Wanted
  <2> QED
    BY <1>1, <1>2, <2>1 DEF Settled, Done
<1>6. Powered'
  BY <1>1, <1>2 DEF Powered, Wanted
<1>7. Quiet'
  <2>1. "READY" \notin asked => Wanted(signals) # "READY"
    BY DEF Quiet, Wanted
  <2> QED
    BY <1>1, <1>2, <1>3, <2>1 DEF Quiet
<1>8. Lowered'
  BY <1>1, <1>2, <1>3 DEF Lowered
<1> QED
  BY <1>4, <1>5, <1>6, <1>7, <1>8

\* The hardware breaks down by itself, unless it is held in reset.
LEMMA HardwareFailsIInv ==
  ASSUME IInv, HardwareFails
  PROVE  IInv'
<1> USE DEF IInv
<1>1. /\ hw # "RESET" /\ hw' = "FAULT"
      /\ UNCHANGED <<signals, mode, enable, format, created, pc, call, result, asked, began>>
  BY DEF HardwareFails
<1>2. Wanted(signals)' = Wanted(signals)
  BY <1>1 DEF Wanted
<1>3. TypeOK'
  BY <1>1 DEF TypeOK, States
<1>4. Records' /\ Writing' /\ LaneWay'
  BY <1>1 DEF Records, Writing, LaneWay, Done
<1>5. Phases'
  BY <1>1 DEF Phases, ChangingStatus
<1>6. ModuleWay'
  BY <1>1 DEF ModuleWay
<1>7. Settled'
  BY <1>1 DEF Settled, Done, Silent
<1>8. Powered'
  BY <1>1 DEF Powered
<1>9. Quiet'
  BY <1>1, <1>2 DEF Quiet
<1>10. Lowered'
  BY <1>1, <1>2 DEF Lowered
<1> QED
  BY <1>3, <1>4, <1>5, <1>6, <1>7, <1>8, <1>9, <1>10

\* A call that returns leaves nothing behind, provided that what it no longer
\* counts as asked for stays switched off.
LEMMA ReturnIInv ==
  ASSUME IInv, pc # "idle",
         NEW status \in {"SUCCESS", "FAILURE", "INVALID_ATTRIBUTE"}, Return(status),
         UNCHANGED <<signals, hw>>,
         mode' \in Modes, enable' \subseteq Netifs, format' \in [Netifs -> Formats],
         created' = created \/ (created' = TRUE /\ "power" \in signals),
         asked' \subseteq Statuses,
         "READY" \notin asked' =>
           /\ \/ {"txdis1", "txdis2"} \subseteq signals
              \/ ~created' /\ Wanted(signals) = "RESET"
           /\ hw # "READY"
  PROVE  IInv'
<1> USE NoCallRecord DEF IInv
<1>1. pc' = "idle" /\ result' = status /\ began' = NoSnapshot /\ call' = NoCall
  BY DEF Return
<1>2. Wanted(signals)' = Wanted(signals)
  BY DEF Wanted
<1>3. TypeOK'
  BY <1>1 DEF TypeOK
<1>4. Records'
  BY <1>1 DEF Records
<1>5. Phases' /\ Writing' /\ Settled' /\ Lowered' /\ LaneWay' /\ ModuleWay'
  BY <1>1 DEF Phases, Writing, Settled, Lowered, LaneWay, ModuleWay, ChangingStatus
<1>6. Powered'
  BY DEF Powered
<1>7. Quiet'
  BY <1>1, <1>2 DEF Quiet
<1> QED
  BY <1>3, <1>4, <1>5, <1>6, <1>7

\* In the ordinary case nothing but the call is over.
LEMMA ReturnUnchangedIInv ==
  ASSUME IInv, pc # "idle",
         NEW status \in {"SUCCESS", "FAILURE", "INVALID_ATTRIBUTE"}, Return(status),
         UNCHANGED <<hardware, created, asked>>
  PROVE  IInv'
<1>1. UNCHANGED <<signals, hw, mode, enable, format, created, asked>>
  BY DEF hardware
<1>2. /\ mode' \in Modes /\ enable' \subseteq Netifs /\ format' \in [Netifs -> Formats]
      /\ asked' \subseteq Statuses /\ created' = created
  BY <1>1 DEF IInv, TypeOK
<1>3. "READY" \notin asked' =>
        /\ \/ {"txdis1", "txdis2"} \subseteq signals
           \/ ~created' /\ Wanted(signals) = "RESET"
        /\ hw # "READY"
  BY <1>1 DEF IInv, Quiet
<1> QED
  BY <1>1, <1>2, <1>3, ReturnIInv

-----------------------------------------------------------------------------
(* Calls begin.                                                            *)

\* A new call has found nothing out and changed nothing.
LEMMA BeginIInv ==
  ASSUME IInv, pc = "idle", pc' \in {"init", "status", "mode", "lane"},
         began' = Snapshot, result' = "none", UNCHANGED <<hardware, created>>,
         call' \in CallRecords, call'.op # "none", call'.prev = "none", Phases',
         call'.op = "mode" => pc' = "mode",
         call'.op = "format" => pc' = IF mode = "COUPLED" THEN "mode" ELSE "lane",
         asked \subseteq asked', asked' \subseteq Statuses,
         call'.target = "READY" => "READY" \in asked'
  PROVE  IInv'
<1> USE NoCallRecord DEF IInv
<1>1. UNCHANGED <<signals, hw, mode, enable, format, created>>
  BY DEF hardware
<1>2. /\ began'.signals = signals /\ began'.enable = enable /\ began'.atRest = AtRest
      /\ began' \in Snapshots
  BY DEF Snapshot, Snapshots, TypeOK, AtRest
<1>3. Wanted(signals)' = Wanted(signals)
  BY <1>1 DEF Wanted
<1>4. TypeOK'
  BY <1>1 DEF TypeOK
<1>5. Records'
  BY <1>2 DEF Records
<1>6. Writing' /\ Settled'
  BY DEF Writing, Settled
<1>7. Powered'
  BY <1>1 DEF Powered
<1>8. Quiet'
  BY <1>1, <1>3 DEF Quiet
<1>9. Lowered'
  BY <1>1, <1>2, <1>3 DEF Lowered, AtRest
<1>10. LaneWay' /\ ModuleWay'
  BY <1>1, <1>2 DEF LaneWay, ModuleWay, Statuses
<1> QED
  BY <1>4, <1>5, <1>6, <1>7, <1>8, <1>9, <1>10

\* The record of a call that begins.
LEMMA BeginFacts ==
  ASSUME NEW op \in {"create", "mode", "format"}, NEW netif \in Netifs \cup {"none"},
         NEW arg \in Modes \cup Formats \cup BadFormats \cup {"none"}, Begin(op, netif, arg)
  PROVE  /\ pc = "idle" /\ began' = Snapshot /\ result' = "none"
         /\ call' \in CallRecords
         /\ call'.op = op /\ call'.netif = netif /\ call'.arg = arg
         /\ call'.prev = "none" /\ call'.target = "none" /\ call'.next = "none"
<1>1. call' = [NoCall EXCEPT !.op = op, !.netif = netif, !.arg = arg]
  BY DEF Begin
<1>2. NoCall \in CallRecords
  BY NoCallRecord
<1>3. call' \in CallRecords
  BY <1>1, <1>2 DEF CallRecords
<1>4. /\ call'.op = op /\ call'.netif = netif /\ call'.arg = arg
      /\ call'.prev = "none" /\ call'.target = "none" /\ call'.next = "none"
  BY <1>1 DEF NoCall
<1> QED
  BY <1>3, <1>4 DEF Begin

\* create of the module begins.
LEMMA CreateModuleIInv ==
  ASSUME IInv, NEW arg \in Modes \cup {"none"}, CreateModule(arg)
  PROVE  IInv'
<1>1. /\ Begin("create", "none", arg) /\ pc' = "init"
      /\ asked' = asked \cup {"LOW_POWER"} /\ UNCHANGED <<hardware, created>>
  BY DEF CreateModule
<1>2. /\ pc = "idle" /\ began' = Snapshot /\ result' = "none" /\ call' \in CallRecords
      /\ call'.op = "create" /\ call'.arg = arg /\ call'.prev = "none"
      /\ call'.target = "none"
  BY <1>1, BeginFacts
<1>3. Phases'
  BY <1>1, <1>2 DEF Phases
<1>4. asked \subseteq asked' /\ asked' \subseteq Statuses
  BY <1>1 DEF IInv, TypeOK, Statuses
<1> QED
  BY <1>1, <1>2, <1>3, <1>4, BeginIInv

\* set_network_mode begins.
LEMMA SetNetworkModeIInv ==
  ASSUME IInv, NEW m \in Modes, SetNetworkMode(m)
  PROVE  IInv'
<1>1. /\ created /\ Begin("mode", "none", m) /\ pc' = "mode"
      /\ UNCHANGED <<hardware, created, asked>>
  BY DEF SetNetworkMode
<1>2. /\ pc = "idle" /\ began' = Snapshot /\ result' = "none" /\ call' \in CallRecords
      /\ call'.op = "mode" /\ call'.arg = m /\ call'.prev = "none"
      /\ call'.target = "none"
  BY <1>1, BeginFacts
<1>3. Phases'
  BY <1>1, <1>2 DEF Phases, ChangingStatus
<1>4. asked \subseteq asked' /\ asked' \subseteq Statuses
  BY <1>1 DEF IInv, TypeOK
<1> QED
  BY <1>1, <1>2, <1>3, <1>4, BeginIInv

\* A setter of a format begins.
LEMMA SetFormatIInv ==
  ASSUME IInv, NEW n \in Netifs, NEW f \in Formats \cup BadFormats, SetFormat(n, f)
  PROVE  IInv'
<1>1. /\ created /\ Begin("format", n, f)
      /\ pc' = IF mode = "COUPLED" THEN "mode" ELSE "lane"
      /\ UNCHANGED <<hardware, created, asked>>
  BY DEF SetFormat
<1>2. /\ pc = "idle" /\ began' = Snapshot /\ result' = "none" /\ call' \in CallRecords
      /\ call'.op = "format" /\ call'.arg = f /\ call'.netif = n /\ call'.prev = "none"
      /\ call'.target = "none"
  BY <1>1, BeginFacts
<1>3. Phases'
  BY <1>1, <1>2 DEF Phases, ChangingStatus, hardware
<1>4. asked \subseteq asked' /\ asked' \subseteq Statuses
  BY <1>1 DEF IInv, TypeOK
<1> QED
  BY <1>1, <1>2, <1>3, <1>4, BeginIInv

\* set_oper_status begins.
LEMMA SetOperStatusIInv ==
  ASSUME IInv, NEW status \in Statuses \cup {"INITIALIZE"}, SetOperStatus(status)
  PROVE  IInv'
<1>1. /\ created /\ pc = "idle" /\ pc' = "status"
      /\ call' = [[NoCall EXCEPT !.op = "status"] EXCEPT !.target = status, !.next = "return"]
      /\ began' = Snapshot /\ result' = "none"
      /\ asked' = asked \cup ({status} \cap Statuses)
      /\ UNCHANGED <<hardware, created>>
  BY DEF SetOperStatus, ChangeStatus
<1>2. status \in Names
  BY DEF Names, States
<1>3. [NoCall EXCEPT !.op = "status"] \in CallRecords
  BY NoCallRecord DEF CallRecords
<1>4. call' \in CallRecords
  BY <1>1, <1>2, <1>3 DEF CallRecords
<1>5. /\ call'.op = "status" /\ call'.target = status /\ call'.next = "return"
      /\ call'.prev = "none"
  BY <1>1 DEF NoCall
<1>6. Phases'
  BY <1>1, <1>5 DEF Phases, ChangingStatus
<1>7. asked \subseteq asked' /\ asked' \subseteq Statuses
  BY <1>1 DEF IInv, TypeOK
<1>8. call'.target = "READY" => "READY" \in asked'
  BY <1>1, <1>5 DEF Statuses
<1> QED
  BY <1>1, <1>4, <1>5, <1>6, <1>7, <1>8, BeginIInv

\* A slot is freed, and a lane's laser is switched, between two calls.
LEMMA RemoveModuleIInv ==
  ASSUME IInv, RemoveModule
  PROVE  IInv'
<1> USE NoCallRecord DEF IInv
<1>1. /\ pc = "idle" /\ created /\ created' = FALSE
      /\ UNCHANGED <<signals, hw, mode, enable, format, pc, call, result, asked, began>>
  BY DEF RemoveModule, hardware
<1>2. call = NoCall
  BY <1>1 DEF TypeOK
<1>3. TypeOK' /\ Records'
  BY <1>1 DEF TypeOK, Records
<1>4. Phases' /\ Writing' /\ Settled' /\ Lowered' /\ LaneWay' /\ ModuleWay'
  BY <1>1, <1>2 DEF Phases, Writing, Settled, Lowered, LaneWay, ModuleWay, ChangingStatus
<1>5. Powered'
  BY <1>1 DEF Powered
<1>6. Quiet'
  BY <1>1 DEF Quiet
<1> QED
  BY <1>3, <1>4, <1>5, <1>6

\* The master enable is one write to a lane.
LEMMA SetMasterEnableIInv ==
  ASSUME IInv, NEW n \in Netifs, NEW on \in BOOLEAN, SetMasterEnable(n, on)
  PROVE  IInv'
<1> USE NoCallRecord DEF IInv
<1>1. /\ pc = "idle" /\ enable' = IF on THEN enable \cup {n} ELSE enable \ {n}
      /\ UNCHANGED <<signals, hw, mode, format, created, pc, call, result, asked, began>>
  BY DEF SetMasterEnable
<1>2. call = NoCall
  BY <1>1 DEF TypeOK
<1>3. Wanted(signals)' = Wanted(signals)
  BY <1>1 DEF Wanted
<1>4. TypeOK' /\ Records'
  BY <1>1 DEF TypeOK, Records
<1>5. Phases' /\ Writing' /\ Settled' /\ Lowered' /\ LaneWay' /\ ModuleWay'
  BY <1>1, <1>2 DEF Phases, Writing, Settled, Lowered, LaneWay, ModuleWay, ChangingStatus
<1>6. Powered'
  BY <1>1 DEF Powered
<1>7. Quiet'
  BY <1>1, <1>3 DEF Quiet
<1> QED
  BY <1>4, <1>5, <1>6, <1>7

-----------------------------------------------------------------------------
(* The signals are written.                                                *)

\* One write more is done, if no earlier one was of the same signal.
LEMMA OneMoreDone ==
  ASSUME NEW writes, NEW k \in Nat \ {0}, Done(writes, k - 1),
         \A i \in 1 .. k - 1 : writes[i][1] # writes[k][1],
         writes[k][2] \in BOOLEAN,
         signals' = IF writes[k][2] THEN signals \cup {writes[k][1]}
                    ELSE signals \ {writes[k][1]}
  PROVE  Done(writes, k)'
<1> SUFFICES ASSUME NEW i \in 1 .. k
             PROVE  writes[i][1] \in signals' <=> writes[i][2]
  BY DEF Done
<1>1. CASE i = k
  BY <1>1
<1>2. CASE i # k
  <2>1. i \in 1 .. k - 1
    BY <1>2
  <2> QED
    BY <2>1 DEF Done
<1> QED
  BY <1>1, <1>2

\* No signal is written twice, but that reset is released at the end.
LEMMA WritesDiffer ==
  /\ \A s : \A i, j \in 1 .. 4 : i # j => SignalWrites(s)[i][1] # SignalWrites(s)[j][1]
  /\ \A i, j \in 1 .. 5 : i # j => InitWrites[i][1] # InitWrites[j][1]
<1>1. ASSUME NEW s, NEW i \in 1 .. 4, NEW j \in 1 .. 4, i # j
      PROVE  SignalWrites(s)[i][1] # SignalWrites(s)[j][1]
  <2>1. i \in {1, 2, 3, 4} /\ j \in {1, 2, 3, 4}
    OBVIOUS
  <2> QED
    BY <1>1, <2>1, StatusWrites
<1>2. ASSUME NEW i \in 1 .. 5, NEW j \in 1 .. 5, i # j
      PROVE  InitWrites[i][1] # InitWrites[j][1]
  <2>1. i \in {1, 2, 3, 4, 5} /\ j \in {1, 2, 3, 4, 5}
    OBVIOUS
  <2> QED
    BY <1>2, <2>1, ModuleInitWrites
<1> QED
  BY <1>1, <1>2

\* What remains to be written after one write.
LEMMA TailIsSuffix ==
  ASSUME NEW S, NEW todo \in Seq(S), NEW writes \in Seq(S), SuffixOf(todo, writes)
  PROVE  /\ Head(todo) = writes[Len(writes) - Len(todo) + 1] /\ Head(todo) \in S
         /\ Tail(todo) \in Seq(S) /\ Len(Tail(todo)) = Len(todo) - 1
         /\ Len(todo) > 1 => SuffixOf(Tail(todo), writes)
<1>1. todo # <<>> /\ Len(todo) \in Nat /\ Len(writes) \in Nat
  BY DEF SuffixOf
<1>2. /\ Head(todo) \in S /\ Tail(todo) \in Seq(S) /\ Len(Tail(todo)) = Len(todo) - 1
      /\ \A i \in 1 .. Len(Tail(todo)) : Tail(todo)[i] = todo[i + 1]
  BY <1>1, HeadTailProperties
<1>3. Head(todo) = todo[1]
  BY <1>1
<1>4. todo[1] = writes[Len(writes) - Len(todo) + 1]
  BY <1>1 DEF SuffixOf
<1>5. ASSUME Len(todo) > 1 PROVE SuffixOf(Tail(todo), writes)
  <2>1. Len(Tail(todo)) \in 1 .. Len(writes)
    BY <1>1, <1>2, <1>5 DEF SuffixOf
  <2>2. ASSUME NEW i \in 1 .. Len(Tail(todo))
        PROVE  Tail(todo)[i] = writes[Len(writes) - Len(Tail(todo)) + i]
    <3>1. i + 1 \in 1 .. Len(todo)
      BY <1>1, <1>2
    <3>2. Tail(todo)[i] = writes[Len(writes) - Len(todo) + (i + 1)]
      BY <1>2, <3>1 DEF SuffixOf
    <3>3. Len(writes) - Len(todo) + (i + 1) = Len(writes) - Len(Tail(todo)) + i
      BY <1>1, <1>2
    <3> QED
      BY <3>2, <3>3
  <2> QED
    BY <2>1, <2>2 DEF SuffixOf
<1> QED
  BY <1>2, <1>3, <1>4, <1>5

\* The whole list is what remains before the first write.
LEMMA NothingWritten ==
  ASSUME NEW S, NEW writes \in Seq(S), writes # <<>>
  PROVE  SuffixOf(writes, writes) /\ Done(writes, Len(writes) - Len(writes))
<1>1. Len(writes) \in Nat \ {0}
  BY EmptySeq
<1> QED
  BY <1>1 DEF SuffixOf, Done

\* The state is read, and with it what the call has to do.
LEMMA StatusBeginIInv ==
  ASSUME IInv, StatusBegin
  PROVE  IInv'
<1> USE DEF IInv
<1>1. pc = "status" /\ UNCHANGED <<hardware, created, asked>>
  BY DEF StatusBegin
<1>2. CASE call.target \notin Statuses
  BY <1>1, <1>2, ReturnUnchangedIInv DEF StatusBegin
<1>3. CASE call.target \in Statuses
  <2> DEFINE writes == SignalWrites(call.target)
  <2>1. /\ pc' = "signals" /\ call' = [call EXCEPT !.from = OperStatus, !.todo = writes]
        /\ UNCHANGED <<signals, hw, mode, enable, format, created, asked, result, began>>
    BY <1>1, <1>3 DEF StatusBegin, hardware
  <2>2. writes \in Seq(Signals \X BOOLEAN) /\ Len(writes) = 4 /\ writes # <<>>
    <3>1. writes \in Seq(Signals \X BOOLEAN) /\ Len(writes) = 4
      BY StatusWrites
    <3> QED
      BY <3>1, EmptySeq
  <2> HIDE DEF writes
  <2>3. OperStatus \in States
    BY OperStatusFacts DEF TypeOK
  <2>4. /\ call' \in CallRecords /\ call'.todo = writes
        /\ call'.op = call.op /\ call'.netif = call.netif /\ call'.arg = call.arg
        /\ call'.prev = call.prev /\ call'.lit = call.lit /\ call'.target = call.target
        /\ call'.next = call.next
    BY <2>1, <2>2, <2>3 DEF Records, CallRecords, Names
  <2>5. Wanted(signals)' = Wanted(signals)
    BY <2>1 DEF Wanted
  <2>6. call.op # "none" /\ call.op # "create"
    BY <1>1 DEF Phases
  <2>7. TypeOK'
    BY <1>1, <2>1, <2>2, <2>4, <2>6, NoCallRecord DEF TypeOK
  <2>8. Records'
    BY <2>1, <2>4 DEF Records
  <2>9. Phases'
    BY <1>1, <1>3, <2>1, <2>4 DEF Phases, ChangingStatus
  <2>10. Writing'
    BY <2>1, <2>2, <2>4, <2>6, NothingWritten DEF Writing, Done, writes
  <2>11. Settled' /\ Lowered'
    BY <2>1 DEF Settled, Lowered
  <2>12. Powered'
    BY <2>1 DEF Powered
  <2>13. Quiet'
    BY <2>1, <2>4, <2>5 DEF Quiet
  <2>14. LaneWay'
    BY <1>1, <2>1, <2>4 DEF LaneWay
  <2>15. ModuleWay'
    BY <1>1, <2>1, <2>4 DEF ModuleWay
  <2> QED
    BY <2>7, <2>8, <2>9, <2>10, <2>11, <2>12, <2>13, <2>14, <2>15
<1> QED
  BY <1>2, <1>3

\* The initialisation of the module comes to its signals.
LEMMA InitBeginIInv ==
  ASSUME IInv, InitBegin
  PROVE  IInv'
<1> USE DEF IInv
<1>1. /\ pc = "init" /\ pc' = "signals" /\ call' = [call EXCEPT !.todo = InitWrites]
      /\ UNCHANGED <<signals, hw, mode, enable, format, created, result, asked, began>>
  BY DEF InitBegin, hardware
<1>2. InitWrites \in Seq(Signals \X BOOLEAN) /\ InitWrites # <<>>
  <2>1. InitWrites \in Seq(Signals \X BOOLEAN) /\ Len(InitWrites) = 6
    BY ModuleInitWrites
  <2> QED
    BY <2>1, EmptySeq
<1>3. /\ call' \in CallRecords /\ call'.todo = InitWrites
      /\ call'.op = call.op /\ call'.netif = call.netif /\ call'.arg = call.arg
      /\ call'.prev = call.prev /\ call'.target = call.target /\ call'.next = call.next
  BY <1>1, <1>2 DEF Records, CallRecords
<1>4. call.op = "create"
  BY <1>1 DEF Phases
<1>5. TypeOK'
  BY <1>1, <1>2, <1>3, <1>4, NoCallRecord DEF TypeOK
<1>6. Records'
  BY <1>1, <1>3 DEF Records
<1>7. Phases'
  BY <1>1, <1>3, <1>4 DEF Phases, ChangingStatus
<1>8. Writing'
  BY <1>1, <1>2, <1>3, <1>4, NothingWritten DEF Writing, Done
<1>9. Settled' /\ Lowered' /\ LaneWay' /\ ModuleWay'
  BY <1>1, <1>3, <1>4 DEF Settled, Lowered, LaneWay, ModuleWay
<1>10. Powered'
  BY <1>1 DEF Powered
<1>11. Quiet'
  BY <1>1, <1>3 DEF Quiet, Wanted
<1> QED
  BY <1>5, <1>6, <1>7, <1>8, <1>9, <1>10, <1>11

\* The list a call is writing.
Writes == IF call.op = "create" THEN InitWrites ELSE SignalWrites(call.target)

\* What a step does that writes the k-th signal of the list w.
Written(w, k) ==
  /\ k \in 1 .. Len(w) /\ k \in Nat \ {0} /\ Len(w) \in Nat
  /\ w[k] \in Signals \X BOOLEAN
  /\ signals' = IF w[k][2] THEN signals \cup {w[k][1]} ELSE signals \ {w[k][1]}
  /\ hw' = IF "reset" \in signals' THEN "RESET" ELSE hw
  /\ Done(w, k - 1)
  /\ IF k < Len(w) THEN pc' = "signals" /\ SuffixOf(call'.todo, w)
     ELSE pc' = IF call.op = "create" \/ (call.from = "RESET" /\ call.target # "RESET")
                THEN "alarm" ELSE "poll"
  /\ Len(call'.todo) = Len(w) - k
  /\ call' \in CallRecords
  /\ call'.op = call.op /\ call'.netif = call.netif /\ call'.arg = call.arg
  /\ call'.prev = call.prev /\ call'.target = call.target /\ call'.next = call.next
  /\ call'.lit = call.lit
  /\ UNCHANGED <<mode, enable, format, created, result, asked, began>>

\* After a signal is written, the first signals of the list are as listed.
LEMMA WriteSignalWrites ==
  ASSUME IInv, WriteSignal, NEW w, w = Writes
  PROVE  \E k \in Nat : Written(w, k)
<1> USE DEF IInv
<1>1. /\ pc = "signals"
      /\ signals' = IF Head(call.todo)[2] THEN signals \cup {Head(call.todo)[1]}
                    ELSE signals \ {Head(call.todo)[1]}
      /\ hw' = IF "reset" \in signals' THEN "RESET" ELSE hw
      /\ call' = [call EXCEPT !.todo = Tail(call.todo)]
      /\ pc' = IF Len(call.todo) > 1 THEN pc
               ELSE IF call.op = "create" \/ (call.from = "RESET" /\ call.target # "RESET")
               THEN "alarm" ELSE "poll"
      /\ UNCHANGED <<mode, enable, format, created, result, asked, began>>
  BY DEF WriteSignal
<1>2. w \in Seq(Signals \X BOOLEAN) /\ call.todo \in Seq(Signals \X BOOLEAN)
  BY StatusWrites, ModuleInitWrites DEF Records, CallRecords, Writes
<1>3. SuffixOf(call.todo, w) /\ Done(w, Len(w) - Len(call.todo))
  BY <1>1 DEF Writing, Writes
<1> DEFINE k == Len(w) - Len(call.todo) + 1
<1>4. /\ Len(call.todo) \in 1 .. Len(w) /\ Len(w) \in Nat
      /\ k \in 1 .. Len(w) /\ k \in Nat \ {0} /\ Len(w) - Len(call.todo) = k - 1
  BY <1>2, <1>3 DEF SuffixOf
<1>8. IF k < Len(w) THEN Len(call.todo) > 1 ELSE ~(Len(call.todo) > 1)
  <2>1. \A m, n \in Nat : IF n - m + 1 < n THEN m > 1 ELSE ~(m > 1)
    OBVIOUS
  <2>2. Len(call.todo) \in Nat /\ Len(w) \in Nat
    BY <1>4
  <2> QED
    BY <2>1, <2>2
<1>5. /\ Head(call.todo) = w[k] /\ w[k] \in Signals \X BOOLEAN
      /\ Tail(call.todo) \in Seq(Signals \X BOOLEAN)
      /\ Len(Tail(call.todo)) = Len(call.todo) - 1
      /\ Len(call.todo) > 1 => SuffixOf(Tail(call.todo), w)
  BY <1>2, <1>3, TailIsSuffix
<1>6. /\ call' \in CallRecords /\ call'.todo = Tail(call.todo)
      /\ call'.op = call.op /\ call'.netif = call.netif /\ call'.arg = call.arg
      /\ call'.prev = call.prev /\ call'.target = call.target /\ call'.next = call.next
      /\ call'.lit = call.lit
  BY <1>1, <1>5 DEF Records, CallRecords
<1>7. Len(call'.todo) = Len(w) - k
  BY <1>4, <1>5, <1>6
<1> HIDE DEF k
<1> QED
  BY <1>1, <1>3, <1>4, <1>5, <1>6, <1>7, <1>8 DEF Written

\* What a write keeps, whichever list it is of.
LEMMA WrittenKeeps ==
  ASSUME IInv, pc = "signals", NEW w, w = Writes, NEW k \in Nat, Written(w, k),
         k < Len(w) => Done(w, k)'
  PROVE  /\ TypeOK' /\ Records' /\ Phases' /\ Writing' /\ Lowered' /\ LaneWay' /\ ModuleWay'
<1> USE DEF IInv
<1>0. /\ k \in 1 .. Len(w) /\ k \in Nat \ {0} /\ Len(w) \in Nat
      /\ w[k] \in Signals \X BOOLEAN
      /\ signals' = IF w[k][2] THEN signals \cup {w[k][1]} ELSE signals \ {w[k][1]}
      /\ hw' = IF "reset" \in signals' THEN "RESET" ELSE hw
      /\ IF k < Len(w) THEN pc' = "signals" /\ SuffixOf(call'.todo, w)
         ELSE pc' = IF call.op = "create" \/ (call.from = "RESET" /\ call.target # "RESET")
                    THEN "alarm" ELSE "poll"
      /\ Len(call'.todo) = Len(w) - k
      /\ call' \in CallRecords
      /\ call'.op = call.op /\ call'.netif = call.netif /\ call'.arg = call.arg
      /\ call'.prev = call.prev /\ call'.target = call.target /\ call'.next = call.next
      /\ call'.lit = call.lit
      /\ UNCHANGED <<mode, enable, format, created, result, asked, began>>
  BY DEF Written
<1>1. /\ pc' \in {"signals", "alarm", "poll"} /\ call.op = "create" => pc' # "poll"
  BY <1>0
<1>2. call.op # "none"
  BY DEF Phases
<1>3. TypeOK'
  <2>1. signals' \subseteq Signals /\ hw' \in States
    BY <1>0 DEF TypeOK, States, Statuses
  <2>2. pc' = "signals" => call'.todo # <<>>
    BY <1>0, EmptySeq
  <2> QED
    BY <1>0, <1>1, <1>2, <2>1, <2>2, NoCallRecord DEF TypeOK
<1>4. Records'
  BY <1>0 DEF Records
<1>5. Phases'
  BY <1>0, <1>1 DEF Phases, ChangingStatus
<1>6. Writing'
  <2>1. Writes' = w
    BY <1>0 DEF Writes
  <2>2. pc' = "signals" => SuffixOf(call'.todo, w) /\ Done(w, k)' /\ Len(w) - Len(call'.todo) = k
    BY <1>0
  <2>3. pc' = "signals" => SuffixOf(call.todo, Writes)' /\ Done(Writes, Len(Writes) - Len(call.todo))'
    BY <2>1, <2>2 DEF Done, SuffixOf
  <2> QED
    BY <2>3 DEF Writing, Writes
<1>7. Lowered' /\ LaneWay'
  BY <1>0, <1>1 DEF Lowered, LaneWay
<1>8. ModuleWay'
  BY <1>0, <1>1 DEF ModuleWay, Phases, ChangingStatus
<1> QED
  BY <1>3, <1>4, <1>5, <1>6, <1>7, <1>8

\* One write of a status.  While READY is not asked for it is of another
\* status, which releases no transmitter that is disabled.
LEMMA WriteStatusSignalIInv ==
  ASSUME IInv, WriteSignal, call.op # "create"
  PROVE  IInv'
<1> USE DEF IInv
<1>1. PICK s : s = call.target
  OBVIOUS
<1>2. PICK w : w = SignalWrites(s) /\ w = Writes
  BY <1>1 DEF Writes
<1>3. PICK k \in Nat : Written(w, k)
  BY <1>2, WriteSignalWrites
<1>4. pc = "signals" /\ s \in Statuses /\ created /\ call.op # "none"
  BY <1>1 DEF WriteSignal, Phases, Records, CallRecords
<1>5. /\ Len(w) = 4
      /\ w[1] = <<"reset", s = "RESET">>
      /\ w[2] = <<"lopwr", s \in {"RESET", "LOW_POWER"}>>
      /\ w[3] = <<"txdis1", s \in {"RESET", "LOW_POWER", "TX_OFF"}>>
      /\ w[4] = <<"txdis2", s \in {"RESET", "LOW_POWER", "TX_OFF"}>>
  BY <1>2, StatusWrites
<1>6. k \in {1, 2, 3, 4} /\ w[k][2] \in BOOLEAN /\ k \in Nat \ {0}
  BY <1>3, <1>5 DEF Written
<1>7. Done(w, k)'
  <2>1. \A i \in 1 .. k - 1 : w[i][1] # w[k][1]
    BY <1>5, <1>6
  <2> QED
    BY <1>3, <1>6, <2>1, OneMoreDone DEF Written
<1>8. /\ signals' = IF w[k][2] THEN signals \cup {w[k][1]} ELSE signals \ {w[k][1]}
      /\ hw' = IF "reset" \in signals' THEN "RESET" ELSE hw
      /\ pc' # "signals" => k = 4
      /\ call'.op = call.op /\ call'.target = call.target /\ call'.prev = call.prev
      /\ UNCHANGED <<created, asked>>
  BY <1>3, <1>5 DEF Written
<1>9. w[k][1] # "power"
  BY <1>5, <1>6
<1>10. s # "READY" => w[k][2] \/ w[k][1] \in {"reset", "lopwr"}
  BY <1>4, <1>5, <1>6 DEF Statuses
<1>11. Settled'
  <2>1. pc' # "signals" => Done(SignalWrites(s), 4)'
    BY <1>2, <1>7, <1>8
  <2>2. pc' # "signals" => Done(SignalWrites(call.target), 4)'
    <3>1. SignalWrites(call.target)' = SignalWrites(s)
      BY <1>1, <1>8 DEF SignalWrites
    <3> QED
      BY <2>1, <3>1 DEF Done
  <2> QED
    BY <1>8, <2>2 DEF Settled
<1>12. Powered'
  BY <1>8, <1>9 DEF Powered
<1>13. Quiet'
  <2> SUFFICES ASSUME "READY" \notin asked
               PROVE  /\ {"txdis1", "txdis2"} \subseteq signals'
                      /\ hw' # "READY" /\ call.prev # "READY" /\ call.target # "READY"
    BY <1>8 DEF Quiet
  <2> QED
    BY <1>1, <1>4, <1>8, <1>10 DEF Quiet
<1> QED
  BY <1>2, <1>3, <1>4, <1>7, <1>11, <1>12, <1>13, WrittenKeeps

\* One write of module_init.  It finds the module in any state, and holds it
\* in reset until the transmitters are disabled and all else is written.
LEMMA WriteInitSignalIInv ==
  ASSUME IInv, WriteSignal, call.op = "create"
  PROVE  IInv'
<1> USE DEF IInv
<1>1. PICK w : w = InitWrites /\ w = Writes
  BY DEF Writes
<1>2. PICK k \in Nat : Written(w, k)
  BY <1>1, WriteSignalWrites
<1>3. pc = "signals"
  BY DEF WriteSignal
<1>4. /\ Len(w) = 6
      /\ w[1] = <<"reset", TRUE>> /\ w[2] = <<"power", TRUE>> /\ w[3] = <<"lopwr", TRUE>>
      /\ w[4] = <<"txdis1", TRUE>> /\ w[5] = <<"txdis2", TRUE>> /\ w[6] = <<"reset", FALSE>>
  BY <1>1, ModuleInitWrites
<1>5. k \in {1, 2, 3, 4, 5, 6} /\ w[k][2] \in BOOLEAN /\ k \in Nat \ {0} /\ Done(w, k - 1)
  BY <1>2, <1>4 DEF Written
<1>6. /\ w[1][1] = "reset" /\ w[2][1] = "power" /\ w[3][1] = "lopwr" /\ w[4][1] = "txdis1"
      /\ w[5][1] = "txdis2" /\ w[6][1] = "reset"
      /\ w[1][2] /\ w[2][2] /\ w[3][2] /\ w[4][2] /\ w[5][2] /\ ~w[6][2]
  BY <1>4
<1>7. /\ signals' = IF w[k][2] THEN signals \cup {w[k][1]} ELSE signals \ {w[k][1]}
      /\ hw' = IF "reset" \in signals' THEN "RESET" ELSE hw
      /\ pc' = IF k < 6 THEN "signals" ELSE "alarm"
      /\ call'.op = call.op /\ call'.target = call.target /\ call'.prev = call.prev
      /\ UNCHANGED <<created, asked>>
  BY <1>2, <1>4, <1>5 DEF Written
<1>8. k # 6 => Done(w, k)'
  <2>1. k # 6 => \A i \in 1 .. k - 1 : w[i][1] # w[k][1]
    BY <1>1, <1>5, WritesDiffer
  <2> QED
    BY <1>2, <1>5, <2>1, OneMoreDone DEF Written
<1>9. k # 1 => "reset" \in signals
  <2>1. k # 1 => 1 \in 1 .. k - 1
    BY <1>5
  <2>2. k # 1 => (w[1][1] \in signals <=> w[1][2])
    BY <1>5, <2>1 DEF Done
  <2> QED
    BY <1>6, <2>2
<1>10. k = 6 => {"power", "lopwr", "txdis1", "txdis2"} \subseteq signals
  <2>1. k = 6 => \A i \in {2, 3, 4, 5} : w[i][1] \in signals <=> w[i][2]
    BY <1>5 DEF Done
  <2> QED
    BY <1>6, <2>1
<1>11. k # 6 => signals \subseteq signals' /\ "reset" \in signals'
  <2>1. k # 6 => w[k][2] /\ (k = 1 => w[k][1] = "reset")
    BY <1>5, <1>6
  <2> QED
    BY <1>7, <1>9, <2>1
<1>12. k = 6 => hw = "RESET" /\ signals' = signals \ {"reset"}
  BY <1>6, <1>7, <1>9 DEF Powered
<1>13. Settled'
  <2>1. k = 6 => /\ {"power", "lopwr", "txdis1", "txdis2"} \subseteq signals'
                 /\ "reset" \notin signals' /\ hw' = "RESET"
    BY <1>7, <1>10, <1>12
  <2>2. k # 6 => pc' = "signals"
    BY <1>5, <1>7
  <2> QED
    BY <1>7, <2>1, <2>2 DEF Settled, Silent
<1>14. Powered'
  BY <1>7, <1>10, <1>11, <1>12 DEF Powered
<1>15. Quiet'
  <2>1. "reset" \in signals' => Wanted(signals') = "RESET"
    BY DEF Wanted
  <2>2. Wanted(signals)' = Wanted(signals')
    BY DEF Wanted
  <2> QED
    BY <1>7, <1>10, <1>11, <1>12, <2>1, <2>2 DEF Quiet
<1>16. k < Len(w) => Done(w, k)'
  BY <1>4, <1>5, <1>8
<1> QED
  BY <1>1, <1>2, <1>3, <1>16, <1>13, <1>14, <1>15, WrittenKeeps

-----------------------------------------------------------------------------
(* The waits.                                                              *)

\* The module is created: it was let out of reset with its transmitters
\* disabled and has stayed silent since, so that nothing but low power is
\* asked for any more.
LEMMA AlarmSeenIInv ==
  ASSUME IInv, AlarmSeen
  PROVE  IInv'
<1> USE DEF IInv
<1>1. pc = "alarm" /\ UNCHANGED <<signals, hw, mode, enable, format>>
  BY DEF AlarmSeen, hardware
<1>2. Wanted(signals)' = Wanted(signals)
  BY <1>1 DEF Wanted
<1>3. CASE call.op # "create"
  <2>1. pc' = "poll" /\ UNCHANGED <<created, call, result, asked, began>>
    BY <1>3 DEF AlarmSeen
  <2>2. TypeOK' /\ Records' /\ Writing' /\ Lowered'
    BY <1>1, <2>1 DEF TypeOK, Records, Writing, Lowered
  <2>3. Phases'
    BY <1>1, <1>3, <2>1 DEF Phases, ChangingStatus
  <2>4. Settled'
    BY <1>1, <1>3, <2>1 DEF Settled, Done
  <2>5. Powered' /\ Quiet'
    BY <1>1, <1>2, <2>1 DEF Powered, Quiet
  <2>6. LaneWay' /\ ModuleWay'
    BY <1>1, <2>1 DEF LaneWay, ModuleWay
  <2> QED
    BY <2>2, <2>3, <2>4, <2>5, <2>6
<1>4. CASE call.op = "create"
  <2>1. /\ {"power", "lopwr", "txdis1", "txdis2"} \subseteq signals /\ hw \in Silent
        /\ call.arg \in Modes \cup {"none"} /\ call.prev = "none" /\ call.target = "none"
    BY <1>1, <1>4 DEF Settled, Phases
  <2>2. created' = TRUE /\ asked' = {"LOW_POWER"}
    BY <1>4 DEF AlarmSeen
  <2>3. hw # "READY"
    BY <2>1 DEF Silent
  <2>4. CASE call.arg = "none"
    <3>1. Return("SUCCESS")
      BY <1>4, <2>4 DEF AlarmSeen
    <3>2. mode' \in Modes /\ enable' \subseteq Netifs /\ format' \in [Netifs -> Formats]
      BY <1>1 DEF TypeOK
    <3> QED
      BY <1>1, <2>1, <2>2, <2>3, <3>1, <3>2, ReturnIInv DEF Statuses
  <2>5. CASE call.arg # "none"
    <3>1. /\ pc' = "mode" /\ call' = [call EXCEPT !.op = "mode"]
          /\ began' = Snapshot /\ UNCHANGED result
      BY <1>4, <2>5 DEF AlarmSeen
    <3>2. /\ call' \in CallRecords /\ call'.op = "mode" /\ call'.arg = call.arg
          /\ call'.prev = "none" /\ call'.target = "none"
      BY <2>1, <3>1 DEF Records, CallRecords
    <3>3. /\ began'.signals = signals /\ began'.enable = enable /\ began'.atRest = AtRest
          /\ began' \in Snapshots
      BY <3>1 DEF Snapshot, Snapshots, TypeOK, AtRest
    <3>4. TypeOK'
      BY <1>1, <2>2, <3>1, <3>2, NoCallRecord DEF TypeOK, Statuses
    <3>5. Records'
      BY <3>2, <3>3 DEF Records
    <3>6. Phases'
      BY <2>1, <2>2, <2>5, <3>1, <3>2 DEF Phases, ChangingStatus
    <3>7. Writing' /\ Settled' /\ LaneWay'
      BY <3>1, <3>2 DEF Writing, Settled, LaneWay
    <3>8. Powered' /\ Quiet'
      BY <1>1, <2>1, <2>2, <2>3, <3>2 DEF Powered, Quiet
    <3>9. Lowered'
      BY <1>1, <1>2, <3>1, <3>3 DEF Lowered, AtRest
    <3>10. ModuleWay'
      BY <1>1, <3>1, <3>2, <3>3 DEF ModuleWay, Statuses
    <3> QED
      BY <3>4, <3>5, <3>6, <3>7, <3>8, <3>9, <3>10
  <2> QED
    BY <2>4, <2>5
<1> QED
  BY <1>3, <1>4

\* What is true when the wanted state is found.
LEMMA ReachedFacts ==
  ASSUME IInv, pc = "poll", OperStatus = call.target
  PROVE  /\ call.target \in Statuses /\ created /\ call.op \in {"status", "mode", "format"}
         /\ Wanted(signals) = call.target /\ hw = call.target
         /\ call.target # "READY" => {"txdis1", "txdis2"} \subseteq signals
         /\ hw \in States
<1> USE DEF IInv
<1>1. call.target \in Statuses /\ created /\ call.op \in {"status", "mode", "format"}
  BY DEF Phases, Records, CallRecords
<1>2. "power" \in signals /\ Done(SignalWrites(call.target), 4)
  BY <1>1 DEF Powered, Settled
<1>3. /\ Wanted(signals) = call.target
      /\ call.target # "READY" => {"txdis1", "txdis2"} \subseteq signals
  BY <1>1, <1>2, WrittenIsWanted
<1>4. hw \in States /\ hw = call.target
  BY <1>1, OperStatusFacts DEF TypeOK
<1> QED
  BY <1>1, <1>3, <1>4

\* The state is reached: the call is over, or the setter goes on to write.
LEMMA ReachedIInv ==
  ASSUME IInv, Reached
  PROVE  IInv'
<1> USE DEF IInv
<1>1. /\ pc = "poll" /\ OperStatus = call.target
      /\ IF call.next = "return" THEN Return("SUCCESS")
         ELSE pc' = call.next /\ UNCHANGED <<call, result, began>>
      /\ asked' = IF call.op = "status" THEN {call.target} ELSE asked
      /\ UNCHANGED <<signals, hw, mode, enable, format, created>>
  BY DEF Reached, hardware
<1>2. /\ call.target \in Statuses /\ created /\ call.op \in {"status", "mode", "format"}
      /\ Wanted(signals) = call.target /\ hw = call.target
      /\ call.target # "READY" => {"txdis1", "txdis2"} \subseteq signals
  BY <1>1, ReachedFacts
<1>3. CASE call.next = "return"
  <2>1. "READY" \notin asked' =>
          /\ {"txdis1", "txdis2"} \subseteq signals \/ (~created' /\ Wanted(signals) = "RESET")
          /\ hw # "READY"
    BY <1>1, <1>2 DEF Quiet
  <2>2. /\ mode' \in Modes /\ enable' \subseteq Netifs /\ format' \in [Netifs -> Formats]
        /\ asked' \subseteq Statuses
    BY <1>1, <1>2 DEF TypeOK
  <2> QED
    BY <1>1, <1>3, <2>1, <2>2, ReturnIInv
<1>4. CASE call.next # "return"
  <2>1. /\ call.next = "write" /\ call.target = "LOW_POWER" /\ call.op \in {"mode", "format"}
        /\ call.prev # "LOW_POWER"
    BY <1>1, <1>2, <1>4 DEF Phases, ChangingStatus
  <2>2. pc' = "write" /\ UNCHANGED <<call, result, began, asked>>
    BY <1>1, <1>4, <2>1
  <2>3. Wanted(signals)' = Wanted(signals)
    BY <1>1 DEF Wanted
  <2>4. call.op = "format" => mode = "COUPLED"
    BY <1>1 DEF LaneWay
  <2>5. TypeOK' /\ Records'
    BY <1>1, <2>1, <2>2 DEF TypeOK, Records
  <2>6. Phases'
    BY <1>1, <1>2, <2>1, <2>2 DEF Phases, ChangingStatus
  <2>7. Writing' /\ Settled'
    BY <2>2 DEF Writing, Settled
  <2>8. Powered' /\ Quiet'
    BY <1>1, <2>2, <2>3 DEF Powered, Quiet
  <2>9. Lowered'
    BY <1>1, <1>2, <2>1, <2>2, <2>3 DEF Lowered
  <2>10. LaneWay' /\ ModuleWay'
    BY <1>1, <2>1, <2>2, <2>4 DEF LaneWay, ModuleWay
  <2> QED
    BY <2>5, <2>6, <2>7, <2>8, <2>9, <2>10
<1> QED
  BY <1>3, <1>4

\* A wait has run out.
LEMMA TimedOutIInv ==
  ASSUME IInv, TimedOut
  PROVE  IInv'
  BY ReturnUnchangedIInv DEF TimedOut

\* Any access may fail and end the call where it is.
LEMMA AccessFailsIInv ==
  ASSUME IInv, AccessFails
  PROVE  IInv'
  BY ReturnUnchangedIInv DEF AccessFails

-----------------------------------------------------------------------------
(* The setters.                                                            *)

\* The whole module goes to low power.  A module found at rest in a state that
\* can be asked for is in the state its signals lead to; so that is what the
\* setter remembers.
LEMMA MoveModuleIInv ==
  ASSUME IInv, MoveModule
  PROVE  IInv'
<1> USE DEF IInv
<1>1. /\ pc = "mode"
      /\ UNCHANGED <<signals, hw, mode, enable, format, created, result, asked, began>>
      /\ IF OperStatus = "LOW_POWER"
         THEN pc' = "write" /\ call' = [call EXCEPT !.prev = OperStatus]
         ELSE /\ pc' = "status"
              /\ call' = [[call EXCEPT !.prev = OperStatus]
                            EXCEPT !.target = "LOW_POWER", !.next = "write"]
  BY DEF MoveModule, ChangeStatus, hardware
<1>2. /\ call.op \in {"mode", "format"} /\ created /\ call \in CallRecords
      /\ call.op = "format" => mode = "COUPLED"
  BY <1>1 DEF Phases, LaneWay, Records
<1>3. /\ OperStatus \in States /\ OperStatus \in Names /\ OperStatus # "none"
      /\ OperStatus \in Statuses => OperStatus = hw
      /\ OperStatus = "RESET" => "reset" \in signals
      /\ hw = "READY" => OperStatus = "READY"
  BY OperStatusFacts DEF TypeOK, Names, States, Statuses
<1>4. /\ call' \in CallRecords /\ call'.op = call.op /\ call'.netif = call.netif
      /\ call'.arg = call.arg /\ call'.prev = OperStatus
  <2>1. CASE OperStatus = "LOW_POWER"
    BY <1>1, <1>2, <1>3, <2>1 DEF CallRecords
  <2>2. CASE OperStatus # "LOW_POWER"
    <3>1. PICK c : c = [call EXCEPT !.prev = OperStatus]
      OBVIOUS
    <3>2. /\ c \in CallRecords /\ c.op = call.op /\ c.netif = call.netif
          /\ c.arg = call.arg /\ c.prev = OperStatus
      BY <1>2, <1>3, <3>1 DEF CallRecords
    <3>3. call' = [c EXCEPT !.target = "LOW_POWER", !.next = "write"]
      BY <2>2, <3>1, MoveModule DEF MoveModule, ChangeStatus
    <3>4. /\ call' \in CallRecords /\ call'.op = c.op /\ call'.netif = c.netif
          /\ call'.arg = c.arg /\ call'.prev = c.prev
      <4>1. "LOW_POWER" \in Names
        BY DEF Names, States, Statuses
      <4>2. call' \in CallRecords
        BY <3>2, <3>3, <4>1 DEF CallRecords
      <4>3. call'.op = c.op /\ call'.netif = c.netif /\ call'.arg = c.arg /\ call'.prev = c.prev
        BY <3>2, <3>3 DEF CallRecords
      <4> QED
        BY <4>2, <4>3
    <3> QED
      BY <3>2, <3>4
  <2> QED
    BY <2>1, <2>2
<1>5. IF OperStatus = "LOW_POWER" THEN pc' = "write" /\ call'.target = call.target
      ELSE pc' = "status" /\ call'.target = "LOW_POWER" /\ call'.next = "write"
  BY <1>1, <1>2 DEF CallRecords
<1>6. Wanted(signals)' = Wanted(signals)
  BY <1>1 DEF Wanted
<1>7. TypeOK'
  BY <1>1, <1>2, <1>4, <1>5, NoCallRecord DEF TypeOK
<1>8. Records'
  BY <1>1, <1>4 DEF Records
<1>9. Phases'
  BY <1>1, <1>2, <1>4, <1>5 DEF Phases, ChangingStatus
<1>10. Writing' /\ Settled'
  BY <1>5 DEF Writing, Settled
<1>11. Powered'
  BY <1>1 DEF Powered
<1>12. Quiet'
  BY <1>1, <1>3, <1>4, <1>5, <1>6 DEF Quiet, Statuses
<1>13. Lowered'
  BY <1>1, <1>3, <1>4, <1>5, <1>6 DEF Lowered, Statuses
<1>14. LaneWay'
  BY <1>1, <1>2, <1>4 DEF LaneWay
<1>15. ModuleWay'
  <2>1. signals = began.signals /\ enable = began.enable
    BY <1>1, <1>2 DEF ModuleWay
  <2>2. began.atRest /\ OperStatus \in Statuses => OperStatus = Wanted(signals)
    BY <1>1, <1>3 DEF Lowered, Statuses
  <2> QED
    BY <1>1, <1>3, <1>4, <1>5, <2>1, <2>2 DEF ModuleWay
<1> QED
  BY <1>7, <1>8, <1>9, <1>10, <1>11, <1>12, <1>13, <1>14, <1>15

\* One lane is disabled, and whether it was enabled is remembered.
LEMMA MoveLaneIInv ==
  ASSUME IInv, MoveLane
  PROVE  IInv'
<1> USE DEF IInv
<1>1. /\ pc = "lane" /\ pc' = "write"
      /\ enable' = enable \ {call.netif}
      /\ call' = [call EXCEPT !.lit = call.netif \in enable]
      /\ UNCHANGED <<signals, hw, mode, format, created, result, asked, began>>
  BY DEF MoveLane
<1>2. call.op = "format" /\ mode # "COUPLED" /\ call \in CallRecords
  BY <1>1 DEF Phases, Records
<1>3. /\ call' \in CallRecords /\ call'.op = call.op /\ call'.netif = call.netif
      /\ call'.arg = call.arg /\ call'.prev = call.prev /\ call'.target = call.target
      /\ call'.next = call.next /\ call'.lit <=> call.netif \in enable
  <2> DEFINE lit == call.netif \in enable
  <2>1. lit \in BOOLEAN /\ call' = [call EXCEPT !.lit = lit]
    BY <1>1
  <2> HIDE DEF lit
  <2>2. call' \in CallRecords /\ call'.lit = lit
    BY <1>2, <2>1 DEF CallRecords
  <2>3. /\ call'.op = call.op /\ call'.netif = call.netif
        /\ call'.arg = call.arg /\ call'.prev = call.prev /\ call'.target = call.target
        /\ call'.next = call.next
    BY <1>2, <2>1 DEF CallRecords
  <2> QED
    BY <2>2, <2>3 DEF lit
<1>4. Wanted(signals)' = Wanted(signals)
  BY <1>1 DEF Wanted
<1>5. TypeOK'
  BY <1>1, <1>2, <1>3, NoCallRecord DEF TypeOK
<1>6. Records'
  BY <1>1, <1>3 DEF Records
<1>7. Phases'
  BY <1>1, <1>2, <1>3 DEF Phases, ChangingStatus
<1>8. Writing' /\ Settled'
  BY <1>1 DEF Writing, Settled
<1>9. Powered' /\ Quiet'
  BY <1>1, <1>3, <1>4 DEF Powered, Quiet
<1>10. Lowered' /\ ModuleWay'
  BY <1>1, <1>2, <1>3 DEF Lowered, ModuleWay
<1>11. LaneWay'
  BY <1>1, <1>2, <1>3 DEF LaneWay
<1> QED
  BY <1>5, <1>6, <1>7, <1>8, <1>9, <1>10, <1>11

\* The mode register is written, inside the bracket.
LEMMA WriteIInv ==
  ASSUME IInv, Write
  PROVE  IInv'
<1> USE DEF IInv
<1>1. pc = "write" /\ UNCHANGED <<signals, hw, enable, created, asked>>
  BY DEF Write
<1>2. call.op \in {"mode", "format"}
  BY <1>1 DEF Phases
<1>3. CASE call.arg \in BadFormats
  <2>1. Return("FAILURE") /\ UNCHANGED <<mode, format>>
    BY <1>3 DEF Write
  <2> QED
    BY <1>1, <2>1, ReturnUnchangedIInv DEF hardware
<1>4. CASE call.arg \notin BadFormats
  <2>1. /\ pc' = "restore" /\ UNCHANGED <<call, result, began>>
        /\ IF call.op = "mode" THEN mode' = call.arg /\ UNCHANGED format
           ELSE format' = [format EXCEPT ![call.netif] = call.arg] /\ UNCHANGED mode
    BY <1>4 DEF Write
  <2>2. Wanted(signals)' = Wanted(signals)
    BY <1>1 DEF Wanted
  <2>3. mode' \in Modes /\ format' \in [Netifs -> Formats]
    BY <1>2, <1>4, <2>1 DEF TypeOK, Phases
  <2>4. TypeOK' /\ Records'
    BY <1>1, <1>2, <2>1, <2>3 DEF TypeOK, Records
  <2>5. Phases'
    BY <1>1, <1>2, <2>1 DEF Phases, ChangingStatus
  <2>6. Writing' /\ Settled' /\ Lowered'
    BY <2>1 DEF Writing, Settled, Lowered
  <2>7. Powered' /\ Quiet'
    BY <1>1, <2>1, <2>2 DEF Powered, Quiet
  <2>8. LaneWay' /\ ModuleWay'
    BY <1>1, <1>2, <2>1 DEF LaneWay, ModuleWay
  <2> QED
    BY <2>4, <2>5, <2>6, <2>7, <2>8
<1> QED
  BY <1>3, <1>4

\* The way back of the whole module.
LEMMA RestoreModuleIInv ==
  ASSUME IInv, RestoreModule
  PROVE  IInv'
<1> USE DEF IInv
<1>1. /\ pc = "restore" /\ (call.op = "mode" \/ mode = "COUPLED")
      /\ UNCHANGED <<signals, hw, mode, enable, format, created, asked>>
  BY DEF RestoreModule, hardware
<1>2. CASE call.prev = "LOW_POWER"
  <2>1. Return("SUCCESS") /\ UNCHANGED <<hardware, created, asked>>
    BY <1>2 DEF RestoreModule
  <2> QED
    BY <1>1, <2>1, ReturnUnchangedIInv
<1>3. CASE call.prev # "LOW_POWER"
  <2>1. /\ pc' = "status" /\ UNCHANGED <<result, began>>
        /\ call' = [call EXCEPT !.target = call.prev, !.next = "return"]
    BY <1>3 DEF RestoreModule, ChangeStatus
  <2>2. /\ call' \in CallRecords /\ call'.op = call.op /\ call'.netif = call.netif
        /\ call'.arg = call.arg /\ call'.prev = call.prev /\ call'.target = call.prev
        /\ call'.next = "return"
    BY <2>1 DEF Records, CallRecords
  <2>3. call.op \in {"mode", "format"} /\ created
    BY <1>1 DEF Phases
  <2>4. Wanted(signals)' = Wanted(signals)
    BY <1>1 DEF Wanted
  <2>5. TypeOK'
    BY <1>1, <2>1, <2>2, <2>3, NoCallRecord DEF TypeOK
  <2>6. Records'
    BY <2>1, <2>2 DEF Records
  <2>7. Phases'
    BY <1>1, <1>3, <2>1, <2>2, <2>3 DEF Phases, ChangingStatus
  <2>8. Writing' /\ Settled' /\ Lowered'
    BY <2>1 DEF Writing, Settled, Lowered
  <2>9. Powered' /\ Quiet'
    BY <1>1, <2>2, <2>4 DEF Powered, Quiet
  <2>10. LaneWay'
    BY <1>1, <2>2 DEF LaneWay
  <2>11. ModuleWay'
    BY <1>1, <1>3, <2>1, <2>2, <2>3 DEF ModuleWay
  <2> QED
    BY <2>5, <2>6, <2>7, <2>8, <2>9, <2>10, <2>11
<1> QED
  BY <1>2, <1>3

\* The lane is enabled again as it was before.
LEMMA RestoreLaneIInv ==
  ASSUME IInv, RestoreLane
  PROVE  IInv'
<1> USE DEF IInv
<1>1. /\ pc = "restore" /\ call.op = "format"
      /\ enable' = IF call.lit THEN enable \cup {call.netif} ELSE enable
      /\ Return("SUCCESS") /\ UNCHANGED <<signals, hw, mode, format, created, asked>>
  BY DEF RestoreLane
<1>2. /\ mode' \in Modes /\ enable' \subseteq Netifs /\ format' \in [Netifs -> Formats]
      /\ asked' \subseteq Statuses /\ created' = created
  BY <1>1 DEF TypeOK, Phases
<1>3. "READY" \notin asked' =>
        /\ {"txdis1", "txdis2"} \subseteq signals \/ (~created' /\ Wanted(signals) = "RESET")
        /\ hw # "READY"
  BY <1>1 DEF Quiet
<1> QED
  BY <1>1, <1>2, <1>3, ReturnIInv

-----------------------------------------------------------------------------
(* Every step.                                                             *)

\* A step that changes nothing.
LEMMA StutterIInv ==
  ASSUME IInv, UNCHANGED vars
  PROVE  IInv'
<1> USE DEF IInv
<1>1. UNCHANGED <<signals, hw, mode, enable, format, created, pc, call, result, asked, began>>
  BY DEF vars, hardware
<1>2. Wanted(signals)' = Wanted(signals)
  BY <1>1 DEF Wanted
<1>3. TypeOK' /\ Records'
  BY <1>1 DEF TypeOK, Records
<1>4. Phases'
  BY <1>1 DEF Phases, ChangingStatus
<1>5. Writing' /\ Settled'
  BY <1>1 DEF Writing, SuffixOf, Done, Settled
<1>6. Powered' /\ Quiet' /\ Lowered'
  BY <1>1, <1>2 DEF Powered, Quiet, Lowered
<1>7. LaneWay' /\ ModuleWay'
  BY <1>1 DEF LaneWay, ModuleWay
<1> QED
  BY <1>3, <1>4, <1>5, <1>6, <1>7

\* Every step keeps the invariant.
LEMMA NextIInv ==
  ASSUME IInv, [Next]_vars
  PROVE  IInv'
<1>1. CASE HardwareMoves
  BY <1>1, HardwareMovesIInv
<1>2. CASE HardwareFails
  BY <1>2, HardwareFailsIInv
<1>3. CASE \E m \in Modes \cup {"none"} : CreateModule(m)
  BY <1>3, CreateModuleIInv
<1>4. CASE InitBegin
  BY <1>4, InitBeginIInv
<1>5. CASE RemoveModule
  BY <1>5, RemoveModuleIInv
<1>6. CASE \E s \in Statuses \cup {"INITIALIZE"} : SetOperStatus(s)
  BY <1>6, SetOperStatusIInv
<1>7. CASE \E n \in Netifs, on \in BOOLEAN : SetMasterEnable(n, on)
  BY <1>7, SetMasterEnableIInv
<1>8. CASE \E m \in Modes : SetNetworkMode(m)
  BY <1>8, SetNetworkModeIInv
<1>9. CASE \E n \in Netifs, f \in Formats \cup BadFormats : SetFormat(n, f)
  BY <1>9, SetFormatIInv
<1>10. CASE StatusBegin
  BY <1>10, StatusBeginIInv
<1>11. CASE WriteSignal
  BY <1>11, WriteStatusSignalIInv, WriteInitSignalIInv
<1>12. CASE AlarmSeen
  BY <1>12, AlarmSeenIInv
<1>13. CASE Reached
  BY <1>13, ReachedIInv
<1>14. CASE TimedOut
  BY <1>14, TimedOutIInv
<1>15. CASE AccessFails
  BY <1>15, AccessFailsIInv
<1>16. CASE MoveModule
  BY <1>16, MoveModuleIInv
<1>17. CASE MoveLane
  BY <1>17, MoveLaneIInv
<1>18. CASE Write
  BY <1>18, WriteIInv
<1>19. CASE RestoreModule
  BY <1>19, RestoreModuleIInv
<1>20. CASE RestoreLane
  BY <1>20, RestoreLaneIInv
<1>21. CASE UNCHANGED vars
  BY <1>21, StutterIInv
<1> QED
  BY <1>1, <1>2, <1>3, <1>4, <1>5, <1>6, <1>7, <1>8, <1>9, <1>10, <1>11, <1>12, <1>13,
     <1>14, <1>15, <1>16, <1>17, <1>18, <1>19, <1>20, <1>21 DEF Next

\* The invariant follows every call through every step of it and of the
\* hardware (ac400_tai_module.c, ac400_tai_networkif.c).
THEOREM Invariance == Spec => []IInv
<1>1. Init => IInv
  BY InitIInv
<1>2. IInv /\ [Next]_vars => IInv'
  BY NextIInv
<1> QED
  BY <1>1, <1>2, PTL DEF Spec

\* Signals, registers and the call's local variables keep to their types; a
\* call has a result exactly when it is over.
THEOREM TypeCorrect == Spec => []TypeOK
<1>1. IInv => TypeOK
  BY DEF IInv
<1> QED
  BY <1>1, Invariance, PTL

-----------------------------------------------------------------------------
(* What a step may never do.                                               *)

\* What a call answers, it answers when it is over.
LEMMA ReturnsOnce ==
  ASSUME IInv, IInv', pc' = "idle", pc # "idle"
  PROVE  ~ \/ HardwareMoves
           \/ HardwareFails
           \/ \E m \in Modes \cup {"none"} : CreateModule(m)
           \/ InitBegin
           \/ RemoveModule
           \/ \E s \in Statuses \cup {"INITIALIZE"} : SetOperStatus(s)
           \/ \E n \in Netifs, on \in BOOLEAN : SetMasterEnable(n, on)
           \/ \E m \in Modes : SetNetworkMode(m)
           \/ \E n \in Netifs, f \in Formats \cup BadFormats : SetFormat(n, f)
           \/ WriteSignal
           \/ MoveModule
           \/ MoveLane
           \/ UNCHANGED vars
<1>1. ~HardwareMoves /\ ~HardwareFails
  BY DEF HardwareMoves, HardwareFails
<1>2. /\ \A m \in Modes \cup {"none"} : ~CreateModule(m)
      /\ \A m \in Modes : ~SetNetworkMode(m)
      /\ \A n \in Netifs, f \in Formats \cup BadFormats : ~SetFormat(n, f)
  BY DEF CreateModule, SetNetworkMode, SetFormat, Begin
<1>3. ~InitBegin /\ ~WriteSignal /\ ~MoveModule /\ ~MoveLane
  BY DEF InitBegin, WriteSignal, MoveModule, ChangeStatus, MoveLane
<1>4. /\ ~RemoveModule
      /\ \A s \in Statuses \cup {"INITIALIZE"} : ~SetOperStatus(s)
      /\ \A n \in Netifs, on \in BOOLEAN : ~SetMasterEnable(n, on)
  BY DEF RemoveModule, SetOperStatus, SetMasterEnable
<1>5. ~UNCHANGED vars
  BY DEF vars
<1> QED
  BY <1>1, <1>2, <1>3, <1>4, <1>5

\* The steps with which a call returns, and those of a success.
LEMMA SuccessSteps ==
  ASSUME IInv, [Next]_vars, pc' = "idle", call.op \in {"status", "mode", "format"},
         result' = "SUCCESS"
  PROVE  /\ pc # "idle"
         /\ Reached \/ RestoreModule \/ RestoreLane
<1>1. pc # "idle"
  BY DEF IInv, TypeOK, NoCall
<1>2. ~InitBegin /\ (AlarmSeen => FALSE)
  BY DEF InitBegin, AlarmSeen, IInv, Phases
<1>3. ~StatusBegin /\ ~TimedOut /\ ~AccessFails /\ ~Write
  BY DEF StatusBegin, TimedOut, AccessFails, Write, Return
<1>4. IInv'
  BY NextIInv
<1> QED
  BY <1>1, <1>2, <1>3, <1>4, ReturnsOnce DEF Next

\* OPER_STATUS reports success only of a state the hardware is in and stays in
\* (set_module_oper_status, ac400_tai_module.c).
THEOREM SuccessReached == Spec => SuccessIsReached
<1>1. IInv /\ [Next]_vars =>
        (result' = "SUCCESS" /\ Returned("status") => hw = call.target /\ AtRest)
  <2> SUFFICES ASSUME IInv, [Next]_vars, result' = "SUCCESS", Returned("status")
               PROVE  hw = call.target /\ AtRest
    OBVIOUS
  <2>1. call.op = "status" /\ pc' = "idle"
    BY DEF Returned
  <2>2. Reached \/ RestoreModule \/ RestoreLane
    BY <2>1, SuccessSteps
  <2>3. ~RestoreModule /\ ~RestoreLane
    BY <2>1 DEF RestoreModule, RestoreLane, IInv, Phases
  <2> QED
    BY <2>2, <2>3, ReachedFacts DEF Reached, AtRest
<1> QED
  BY <1>1, Invariance, PTL DEF Spec, SuccessIsReached

\* A setter that reports success has put the module, and every lane, back
\* where it found them (restore_from_low_power, set_network_mode).
THEOREM Restores == Spec => SuccessRestores
<1>1. IInv /\ [Next]_vars =>
        (began.atRest /\ result' = "SUCCESS" /\ (Returned("mode") \/ Returned("format"))
           => Restored)
  <2> SUFFICES ASSUME IInv, [Next]_vars, began.atRest, result' = "SUCCESS",
                      Returned("mode") \/ Returned("format")
               PROVE  Restored
    OBVIOUS
  <2> USE DEF IInv
  <2>1. call.op \in {"mode", "format"} /\ pc' = "idle"
    BY DEF Returned
  <2>2. Reached \/ RestoreModule \/ RestoreLane
    BY <2>1, SuccessSteps
  <2>3. CASE Reached
    <3>1. /\ pc = "poll" /\ OperStatus = call.target /\ signals' = signals /\ enable' = enable
          /\ call.next = "return"
      BY <2>1, <2>3 DEF Reached, hardware, Phases, ChangingStatus
    <3>2. call.target \in Statuses /\ Wanted(signals) = call.target
      BY <3>1, ReachedFacts
    <3>3. call.target = call.prev /\ (call.op = "format" => mode = "COUPLED")
      BY <2>1, <3>1 DEF Phases, LaneWay, ChangingStatus
    <3>4. enable = began.enable /\ call.prev = Wanted(began.signals)
      BY <2>1, <3>2, <3>3 DEF ModuleWay
    <3>5. Wanted(signals') = Wanted(signals)
      BY <3>1 DEF Wanted
    <3> QED
      BY <3>1, <3>2, <3>3, <3>4, <3>5 DEF Restored
  <2>4. CASE RestoreModule
    <3>1. /\ pc = "restore" /\ (call.op = "mode" \/ mode = "COUPLED")
          /\ signals' = signals /\ enable' = enable /\ call.prev = "LOW_POWER"
      BY <2>1, <2>4 DEF RestoreModule, hardware, ChangeStatus
    <3>2. enable = began.enable /\ signals = began.signals
      BY <2>1, <3>1 DEF ModuleWay
    <3> QED
      BY <3>1, <3>2 DEF Restored
  <2>5. CASE RestoreLane
    <3>1. /\ pc = "restore" /\ call.op = "format" /\ mode # "COUPLED" /\ signals' = signals
          /\ enable' = IF call.lit THEN enable \cup {call.netif} ELSE enable
      BY <2>5 DEF RestoreLane
    <3>2. /\ enable = began.enable \ {call.netif} /\ signals = began.signals
          /\ call.lit <=> call.netif \in began.enable
      BY <3>1 DEF LaneWay
    <3> QED
      BY <3>1, <3>2 DEF Restored
  <2> QED
    BY <2>2, <2>3, <2>4, <2>5
<1> QED
  BY <1>1, Invariance, PTL DEF Spec, SuccessRestores

\* The steps that leave the mode and format registers alone.
LEMMA OnlyWriteChanges ==
  ASSUME [Next]_vars, ~Write
  PROVE  mode' = mode /\ format' = format
<1>1. CASE HardwareMoves \/ HardwareFails
  BY <1>1 DEF HardwareMoves, HardwareFails
<1>2. CASE \/ \E m \in Modes \cup {"none"} : CreateModule(m)
           \/ InitBegin \/ RemoveModule
           \/ \E s \in Statuses \cup {"INITIALIZE"} : SetOperStatus(s)
  BY <1>2 DEF CreateModule, InitBegin, RemoveModule, SetOperStatus, hardware
<1>3. CASE \/ \E n \in Netifs, on \in BOOLEAN : SetMasterEnable(n, on)
           \/ \E m \in Modes : SetNetworkMode(m)
           \/ \E n \in Netifs, f \in Formats \cup BadFormats : SetFormat(n, f)
  BY <1>3 DEF SetMasterEnable, SetNetworkMode, SetFormat, hardware
<1>4. CASE StatusBegin \/ WriteSignal \/ AlarmSeen \/ Reached \/ TimedOut \/ AccessFails
  BY <1>4 DEF StatusBegin, WriteSignal, AlarmSeen, Reached, TimedOut, AccessFails, hardware
<1>5. CASE MoveModule \/ MoveLane \/ RestoreModule \/ RestoreLane
  BY <1>5 DEF MoveModule, MoveLane, RestoreModule, RestoreLane, hardware
<1>6. CASE UNCHANGED vars
  BY <1>6 DEF vars, hardware
<1> QED
  BY <1>1, <1>2, <1>3, <1>4, <1>5, <1>6 DEF Next

\* "Some registers in the AC400 can only be modified when the module is in the
\* low power state, or the network lane being modified is in the disabled
\* state" (ac400_tai_networkif.c:762): the setters modify them only then.
THEOREM LowPower == Spec => ChangedInLowPower
<1>1. IInv /\ [Next]_vars =>
        (began.atRest =>
           /\ mode' # mode => hw \in Silent
           /\ \A n \in Netifs : format'[n] # format[n] => hw \in Silent \/ n \notin enable)
  <2> SUFFICES ASSUME IInv, [Next]_vars, began.atRest, Write
               PROVE  /\ mode' # mode => hw \in Silent
                      /\ \A n \in Netifs :
                           format'[n] # format[n] => hw \in Silent \/ n \notin enable
    BY OnlyWriteChanges
  <2> USE DEF IInv
  <2>1. pc = "write"
    BY DEF Write
  <2>2. CASE call.op = "mode" \/ mode = "COUPLED"
    BY <2>1, <2>2 DEF Lowered, Silent
  <2>3. CASE call.op # "mode" /\ mode # "COUPLED"
    <3>1. call.op = "format"
      BY <2>1, <2>3 DEF Phases
    <3>2. mode' = mode /\ (format' = format \/ format' = [format EXCEPT ![call.netif] = call.arg])
      BY <3>1 DEF Write
    <3>3. enable = began.enable \ {call.netif}
      BY <2>1, <2>3, <3>1 DEF LaneWay
    <3>4. \A n \in Netifs : format'[n] # format[n] => n = call.netif
      BY <3>2 DEF TypeOK
    <3> QED
      BY <3>2, <3>3, <3>4
  <2> QED
    BY <2>2, <2>3
<1> QED
  BY <1>1, Invariance, PTL DEF Spec, ChangedInLowPower

\* No transmitter turns on unless READY was asked for since a change of state
\* last succeeded, whatever calls fail or are made on the way.
THEOREM LaserOnRequest == Spec => LaserOnlyOnRequest
<1>1. IInv /\ [Next]_vars => (hw' = "TX_TURN_ON" /\ hw # hw' => "READY" \in asked)
  <2> SUFFICES ASSUME IInv, [Next]_vars, hw' = "TX_TURN_ON", hw # hw'
               PROVE  "READY" \in asked
    OBVIOUS
  <2> USE DEF IInv
  <2>1. HardwareMoves
    <3>1. ~HardwareFails /\ ~WriteSignal
      BY DEF HardwareFails, WriteSignal
    <3>2. /\ ~ \E m \in Modes \cup {"none"} : CreateModule(m)
          /\ ~ InitBegin /\ ~RemoveModule
          /\ ~ \E s \in Statuses \cup {"INITIALIZE"} : SetOperStatus(s)
      BY DEF CreateModule, InitBegin, RemoveModule, SetOperStatus, hardware
    <3>3. /\ ~ \E n \in Netifs, on \in BOOLEAN : SetMasterEnable(n, on)
          /\ ~ \E m \in Modes : SetNetworkMode(m)
          /\ ~ \E n \in Netifs, f \in Formats \cup BadFormats : SetFormat(n, f)
      BY DEF SetMasterEnable, SetNetworkMode, SetFormat, hardware
    <3>4. ~StatusBegin /\ ~AlarmSeen /\ ~Reached /\ ~TimedOut /\ ~AccessFails
      BY DEF StatusBegin, AlarmSeen, Reached, TimedOut, AccessFails, hardware
    <3>5. ~MoveModule /\ ~MoveLane /\ ~Write /\ ~RestoreModule /\ ~RestoreLane
      BY DEF MoveModule, MoveLane, Write, RestoreModule, RestoreLane, hardware
    <3>6. ~UNCHANGED vars
      BY DEF vars, hardware
    <3> QED
      BY <3>1, <3>2, <3>3, <3>4, <3>5, <3>6 DEF Next
  <2>2. Wanted(signals) = "READY"
    BY <2>1, MoveFacts
  <2> QED
    BY <2>2 DEF Quiet, Wanted
<1> QED
  BY <1>1, Invariance, PTL DEF Spec, LaserOnlyOnRequest
=============================================================================
