-------------------------- MODULE Ac400PresenceProofs --------------------------
(***************************************************************************)
(* Proofs about Ac400Presence, for any number of modules, of threads and   *)
(* of changes.  While the host has not misused the adapter, the thread     *)
(* that the handle names is the only one that runs, it runs only between   *)
(* the creation and the join, and the function table is not touched while  *)
(* it does (Alone): so the end of a session is orderly, though the flag    *)
(* and the functions are shared without a lock.                            *)
(***************************************************************************)
EXTENDS Ac400Presence, TLAPS

Pcs == {"unborn", "loop", "read", "test", "call", "keep", "exited"}

Locals == [pc : Pcs, mod : Modules, absent : [Modules -> BOOLEAN], seen : BOOLEAN]

Typed ==
  /\ initialized \in BOOLEAN
  /\ service \in {"null", "presence"}
  /\ handle \in Threads \cup {0}
  /\ thread \in [Threads -> Locals]
  /\ host \in {"idle", "flag", "create", "join", "wipe", "crashed"}
  /\ misused \in BOOLEAN

\* A session has begun and the thread has not been joined yet.
Session == (initialized /\ host = "idle") \/ host = "join"

Alone ==
  ~misused =>
    /\ host # "crashed"
    /\ host \in {"flag", "join", "wipe"} => ~initialized
    /\ host = "create" => initialized
    /\ Session => handle # 0
    /\ \A t \in Threads : Running(t) => t = handle /\ Session
    /\ \A t \in Threads : thread[t].pc = "call" => service # "null"

IInv == Typed /\ Alone

\* Two threads never run at a time, and one that runs is the one that
\* tai_api_uninitialize will join.
OneWatcher ==
  ~misused => \A t \in Threads : Running(t) => t = handle

-----------------------------------------------------------------------------

\* No session and no thread at first.
LEMMA InitIInv == Init => IInv
<1> SUFFICES ASSUME Init PROVE IInv
  OBVIOUS
<1>1. Unborn \in Locals /\ Unborn.pc = "unborn"
  BY PresenceAssumption DEF Unborn, Locals, Pcs, Modules
<1> QED
  BY <1>1 DEF Init, IInv, Typed, Alone, Session, Running

\* Where a thread goes on it is either at a module's signal or at the flag.
LEMMA NextModuleType ==
  ASSUME NEW local \in Locals
  PROVE  /\ NextModule(local) \in Locals
         /\ NextModule(local).pc \in {"read", "loop"}
<1>1. local.mod \in 1 .. Slots /\ Slots \in Nat
  BY PresenceAssumption DEF Locals, Modules
<1>2. CASE local.mod < Slots
  <2>1. local.mod + 1 \in Modules
    BY <1>1, <1>2 DEF Modules
  <2>2. NextModule(local) = [local EXCEPT !.mod = local.mod + 1, !.pc = "read"]
    BY <1>2 DEF NextModule
  <2> QED
    BY <2>1, <2>2 DEF Locals, Pcs
<1>3. CASE ~(local.mod < Slots)
  BY <1>3 DEF NextModule, Locals, Pcs
<1> QED
  BY <1>2, <1>3

\* What a step of a thread preserves, when nothing else changes but the
\* thread's own locals: one that ran still runs or has exited, and one that
\* is about to call has found a function.
LEMMA ThreadStep ==
  ASSUME IInv, NEW t \in Threads, NEW local \in Locals,
         Running(t), thread' = [thread EXCEPT ![t] = local],
         local.pc = "call" => service # "null",
         UNCHANGED <<initialized, service, handle, host, misused>>
  PROVE  IInv'
<1> USE DEF IInv
<1>1. Typed'
  BY DEF Typed
<1>2. \A u \in Threads : u # t => thread'[u] = thread[u]
  BY DEF Typed
<1>3. thread'[t] = local
  BY DEF Typed
<1>4. Alone'
  <2> SUFFICES ASSUME ~misused' PROVE Alone'
    BY DEF Alone
  <2>1. /\ host' # "crashed"
        /\ host' \in {"flag", "join", "wipe"} => ~initialized'
        /\ host' = "create" => initialized'
        /\ Session' => handle' # 0
    BY DEF Alone, Session
  <2>2. \A u \in Threads : Running(u)' => u = handle' /\ Session'
    BY <1>2 DEF Alone, Session, Running
  <2>3. \A u \in Threads : thread'[u].pc = "call" => service' # "null"
    BY <1>2, <1>3 DEF Alone
  <2> QED
    BY <2>1, <2>2, <2>3 DEF Alone
<1> QED
  BY <1>1, <1>4

\* A step of the host in which no thread changes, and which leaves none at
\* work outside a session.
LEMMA HostStep ==
  ASSUME IInv, UNCHANGED thread, Typed',
         misused => misused',
         ~misused' =>
           /\ host' # "crashed"
           /\ host' \in {"flag", "join", "wipe"} => ~initialized'
           /\ host' = "create" => initialized'
           /\ Session' => handle' # 0
           /\ \A t \in Threads : Running(t) => t = handle' /\ Session' /\ service' = service
  PROVE  IInv'
BY DEF IInv, Alone, Running

-----------------------------------------------------------------------------

\* A step of a thread keeps it: the only thread is the one of the handle.
LEMMA ThreadStepsIInv ==
  ASSUME IInv, host # "crashed", NEW t \in Threads, Step(t)
  PROVE  IInv'
<1>1. thread[t] \in Locals
  BY DEF IInv, Typed
<1>2. PICK local : local = thread[t]
  OBVIOUS
<1>3. local \in Locals /\ local.mod \in Modules
  BY <1>1, <1>2 DEF Locals
<1> USE <1>1, <1>2, <1>3
<1>4. CASE TestFlag(t)
  <2>1. PICK next \in {"read", "exited"} :
          thread' = [thread EXCEPT ![t] = [local EXCEPT !.pc = next, !.mod = 1]]
    BY <1>4 DEF TestFlag, IInv, Typed, Locals
  <2>2. 1 \in Modules
    BY PresenceAssumption DEF Modules
  <2>3. /\ [local EXCEPT !.pc = next, !.mod = 1] \in Locals
        /\ [local EXCEPT !.pc = next, !.mod = 1].pc = next
    BY <2>2 DEF Locals, Pcs
  <2> QED
    BY <1>4, <2>1, <2>3, ThreadStep DEF TestFlag, Running
<1>5. CASE ReadSignal(t)
  <2>1. PICK mod_abs \in BOOLEAN :
          thread' = [thread EXCEPT ![t] =
                       IF local.absent[local.mod] # mod_abs
                       THEN [local EXCEPT !.pc = "test", !.seen = mod_abs]
                       ELSE NextModule(local)]
    BY <1>5 DEF ReadSignal
  <2>2. /\ [local EXCEPT !.pc = "test", !.seen = mod_abs] \in Locals
        /\ [local EXCEPT !.pc = "test", !.seen = mod_abs].pc = "test"
    BY DEF Locals, Pcs
  <2>3. NextModule(local) \in Locals /\ NextModule(local).pc # "call"
    BY NextModuleType
  <2> QED
    BY <1>5, <2>1, <2>2, <2>3, ThreadStep DEF ReadSignal, Running
<1>6. CASE ReadFails(t)
  <2>1. NextModule(local) \in Locals /\ NextModule(local).pc # "call"
    BY NextModuleType
  <2> QED
    BY <1>6, <2>1, ThreadStep DEF ReadFails, Running
<1>7. CASE TestService(t)
  <2>1. PICK next \in {"keep", "call"} :
          /\ thread' = [thread EXCEPT ![t] = [local EXCEPT !.pc = next]]
          /\ next = "call" => service # "null"
    BY <1>7 DEF TestService, IInv, Typed
  <2>2. [local EXCEPT !.pc = next] \in Locals /\ [local EXCEPT !.pc = next].pc = next
    BY DEF Locals, Pcs
  <2> QED
    BY <1>7, <2>1, <2>2, ThreadStep DEF TestService, Running
<1>8. CASE CallHost(t)
  <2>1. /\ thread' = [thread EXCEPT ![t] = [local EXCEPT !.pc = "keep"]]
        /\ thread[t].pc = "call"
        /\ UNCHANGED <<initialized, service, handle, misused>>
        /\ host' = host \/ (service = "null" /\ host' = "crashed")
    BY <1>8 DEF CallHost, IInv, Typed
  <2>2. [local EXCEPT !.pc = "keep"] \in Locals /\ [local EXCEPT !.pc = "keep"].pc = "keep"
    BY DEF Locals, Pcs
  <2>3. CASE host' = host
    BY <2>1, <2>2, <2>3, ThreadStep DEF Running
  <2>4. CASE service = "null" /\ host' = "crashed"
    <3>1. misused
      BY <2>1, <2>4 DEF IInv, Alone
    <3>2. Typed'
      BY <2>1, <2>2, <2>4 DEF IInv, Typed
    <3> QED
      BY <2>1, <3>1, <3>2 DEF IInv, Alone
  <2> QED
    BY <2>1, <2>3, <2>4
<1>9. CASE Keep(t)
  <2>1. PICK seen \in BOOLEAN : seen = local.seen
    BY DEF Locals
  <2>2. PICK kept : kept = [local EXCEPT !.absent[local.mod] = seen]
    OBVIOUS
  <2>3. kept \in Locals
    BY <2>2 DEF Locals
  <2>4. thread' = [thread EXCEPT ![t] = NextModule(kept)]
    BY <1>9, <2>1, <2>2 DEF Keep
  <2>5. NextModule(kept) \in Locals /\ NextModule(kept).pc # "call"
    BY <2>3, NextModuleType
  <2> QED
    BY <1>9, <2>4, <2>5, ThreadStep DEF Keep, Running
<1> QED
  BY <1>4, <1>5, <1>6, <1>7, <1>8, <1>9 DEF Step

\* The thread is created where none runs, or the session is misused.
LEMMA CreateThreadIInv ==
  ASSUME IInv, CreateThread
  PROVE  IInv'
<1> USE DEF IInv
<1>1. PICK t \in Threads :
        thread[t] = Unborn /\ thread' = [thread EXCEPT ![t].pc = "loop"] /\ handle' = t
  BY DEF CreateThread
<1>2. /\ host = "create" /\ host' = "idle"
      /\ UNCHANGED <<initialized, service, misused>>
  BY DEF CreateThread
<1>3. /\ [thread[t] EXCEPT !.pc = "loop"] \in Locals
      /\ [thread[t] EXCEPT !.pc = "loop"].pc = "loop"
  BY <1>1 DEF Typed, Locals, Pcs
<1>4. /\ thread' \in [Threads -> Locals] /\ thread'[t].pc = "loop"
      /\ \A u \in Threads : u # t => thread'[u] = thread[u]
  BY <1>1, <1>3 DEF Typed
<1>5. Typed'
  BY <1>1, <1>2, <1>4 DEF Typed
<1>6. t # 0
  BY <1>1, PresenceAssumption DEF Threads
<1>7. Alone'
  <2> SUFFICES ASSUME ~misused' PROVE Alone'
    BY DEF Alone
  <2>1. initialized /\ \A u \in Threads : ~Running(u)
    BY <1>2 DEF Alone, Session
  <2>2. \A u \in Threads : Running(u)' => u = handle' /\ Session'
    BY <1>1, <1>2, <1>4, <2>1 DEF Running, Session
  <2>3. \A u \in Threads : thread'[u].pc # "call"
    BY <1>4, <2>1 DEF Running
  <2> QED
    BY <1>1, <1>2, <1>6, <2>1, <2>2, <2>3 DEF Alone, Session
<1> QED
  BY <1>5, <1>7

\* Every step keeps the invariant.
LEMMA NextIInv ==
  ASSUME IInv, [Next]_vars
  PROVE  IInv'
<1> USE DEF IInv
<1>1. ASSUME NEW function \in {"null", "presence"}, Initialize(function)
      PROVE  IInv'
  BY <1>1, HostStep DEF Initialize, Typed, Alone, Session
<1>2. CASE SetFlag
  BY <1>2, HostStep DEF SetFlag, Typed, Alone, Session
<1>3. CASE CreateThread
  BY <1>3, CreateThreadIInv
<1>4. CASE CreateThreadFails
  BY <1>4, HostStep DEF CreateThreadFails, Typed
<1>5. CASE Uninitialize
  BY <1>5, HostStep DEF Uninitialize, Typed, Alone, Session
<1>6. CASE Join
  <2>1. /\ host = "join" /\ host' = "wipe" /\ ~Running(handle)
        /\ UNCHANGED <<initialized, service, handle, thread, misused>>
    BY <1>6 DEF Join, Running
  <2> QED
    BY <2>1, HostStep DEF Typed, Alone, Session
<1>7. CASE JoinNothing
  <2>1. misused
    BY <1>7 DEF JoinNothing, Alone, Session
  <2> QED
    BY <1>7, <2>1, HostStep DEF JoinNothing, Typed
<1>8. CASE Wipe
  BY <1>8, HostStep DEF Wipe, Typed, Alone, Session
<1>9. ASSUME host # "crashed", NEW t \in Threads, Step(t)
      PROVE  IInv'
  BY <1>9, ThreadStepsIInv
<1>10. ASSUME NEW m \in Modules, Change(m)
       PROVE  IInv'
  BY <1>10, HostStep DEF Change, Typed, Alone, Session
<1>11. CASE UNCHANGED vars
  BY <1>11, HostStep DEF vars, Typed, Alone, Session
<1> QED
  BY <1>1, <1>2, <1>3, <1>4, <1>5, <1>6, <1>7, <1>8, <1>9, <1>10, <1>11 DEF Next

\* Who runs, and when, in every interleaving of the host's thread, the
\* presence threads and the modules (ac400_tai_interface.c).
THEOREM Invariance == Spec => []IInv
<1>1. Init => IInv
  BY InitIInv
<1>2. IInv /\ [Next]_vars => IInv'
  BY NextIInv
<1> QED
  BY <1>1, <1>2, PTL DEF Spec

\* tai_api_uninitialize leaves nothing behind: when the functions are wiped,
\* and until the adapter is initialised again, no thread of its runs; and no
\* thread calls a null function, whenever the table is filled and wiped.
THEOREM Orderly == Spec => []OrderlyEnd
<1>1. IInv => OrderlyEnd
  BY DEF IInv, Alone, Session, OrderlyEnd
<1> QED
  BY <1>1, Invariance, PTL

\* One presence thread at a time, and the handle names it.
THEOREM Watcher == Spec => []OneWatcher
<1>1. IInv => OneWatcher
  BY DEF IInv, Alone, OneWatcher
<1> QED
  BY <1>1, Invariance, PTL

-----------------------------------------------------------------------------
(* The join: tai_api_uninitialize comes back, as far as that needs no      *)
(* fairness.                                                               *)

\* How many steps the thread with these locals takes at most once the flag is
\* cleared: it goes through the modules that are left of the round.
RankOf(local) ==
  IF local.pc \in {"unborn", "exited"} THEN 0
  ELSE IF local.pc = "loop" THEN 1
  ELSE 1 + 4 * (Slots - local.mod)
         + (IF local.pc = "read" THEN 4 ELSE IF local.pc = "test" THEN 3
            ELSE IF local.pc = "call" THEN 2 ELSE 1)

\* A handle is one of a thread that was created.
HandleBorn == handle # 0 => thread[handle].pc # "unborn"

\* Who waits in the join waits for a thread that is there and still runs, or
\* need wait no longer: the guards of Join and of a step of the thread.
JoinGoesOn ==
  ~misused /\ host = "join" =>
    handle \in Threads /\ (thread[handle].pc = "exited" \/ Running(handle))

\* While the host waits, every step of a thread brings it nearer to its end,
\* and nothing else sets one back or creates another.
JoinComesNearer ==
  ~misused /\ host = "join" =>
    \A t \in Threads : /\ RankOf(thread'[t]) <= RankOf(thread[t])
                       /\ Step(t) => RankOf(thread'[t]) < RankOf(thread[t])

\* Ranks are numbers, and going on to the next module lowers them.
LEMMA NextModuleRank ==
  ASSUME NEW local \in Locals, local.pc \in {"read", "test", "call", "keep"}
  PROVE  /\ RankOf(local) \in Nat
         /\ RankOf(NextModule(local)) < RankOf(local)
<1>1. local.mod \in 1 .. Slots /\ Slots \in Nat
  BY PresenceAssumption DEF Locals, Modules
<1>2. RankOf(local) \in Nat /\ RankOf(local) > 1 + 4 * (Slots - local.mod)
  BY <1>1 DEF RankOf
<1>3. CASE local.mod < Slots
  <2>1. NextModule(local) = [local EXCEPT !.mod = local.mod + 1, !.pc = "read"]
    BY <1>3 DEF NextModule
  <2>2. NextModule(local).pc = "read" /\ NextModule(local).mod = local.mod + 1
    BY <2>1 DEF Locals
  <2>3. RankOf(NextModule(local)) = 1 + 4 * (Slots - (local.mod + 1)) + 4
    BY <2>2 DEF RankOf
  <2> QED
    BY <1>1, <1>2, <2>3
<1>4. CASE ~(local.mod < Slots)
  <2>1. NextModule(local).pc = "loop"
    BY <1>4 DEF NextModule, Locals
  <2>2. RankOf(NextModule(local)) = 1
    BY <2>1 DEF RankOf
  <2> QED
    BY <1>1, <1>2, <2>2
<1> QED
  BY <1>2, <1>3, <1>4

\* What has no module before it has a small rank.
LEMMA RankType ==
  ASSUME NEW local \in Locals
  PROVE  RankOf(local) \in Nat
<1>1. CASE local.pc \in {"read", "test", "call", "keep"}
  BY <1>1, NextModuleRank
<1>2. CASE local.pc \in {"unborn", "exited", "loop"}
  BY <1>2 DEF RankOf
<1> QED
  BY <1>1, <1>2 DEF Locals, Pcs

\* A step of a thread leaves the others alone.
LEMMA OthersSame ==
  ASSUME Typed, NEW t \in Threads, Step(t)
  PROVE  /\ \A u \in Threads : u # t => thread'[u] = thread[u]
         /\ UNCHANGED <<initialized, service, handle, misused>>
<1>1. UNCHANGED <<initialized, service, handle, misused>>
  BY DEF Step, TestFlag, ReadSignal, ReadFails, TestService, CallHost, Keep
<1>2. \E local : thread' = [thread EXCEPT ![t] = local]
  BY DEF Step, TestFlag, ReadSignal, ReadFails, TestService, CallHost, Keep, Typed
<1> QED
  BY <1>1, <1>2 DEF Typed

\* A step of a thread when the flag is cleared.
LEMMA StepRank ==
  ASSUME Typed, ~initialized, NEW t \in Threads, Step(t)
  PROVE  RankOf(thread'[t]) < RankOf(thread[t])
<1>1. PICK local \in Locals : local = thread[t]
  BY DEF Typed
<1>2. CASE TestFlag(t)
  <2>1. local.pc = "loop" /\ thread'[t].pc = "exited"
    BY <1>1, <1>2 DEF TestFlag, Typed, Locals
  <2> QED
    BY <1>1, <2>1 DEF RankOf
<1>3. ASSUME local.pc \in {"read", "test", "call", "keep"}, thread'[t] = NextModule(local)
      PROVE  RankOf(thread'[t]) < RankOf(local)
  BY <1>3, NextModuleRank
<1>4. ASSUME \/ local.pc = "read" /\ thread'[t].pc = "test"
             \/ local.pc = "test" /\ thread'[t].pc \in {"call", "keep"}
             \/ local.pc = "call" /\ thread'[t].pc = "keep",
             thread'[t].mod = local.mod
      PROVE  RankOf(thread'[t]) < RankOf(local)
  <2>1. PICK left \in Int : left = 1 + 4 * (Slots - local.mod)
    BY <1>1, PresenceAssumption DEF Locals, Modules
  <2> QED
    BY <1>4, <2>1 DEF RankOf
<1>5. CASE ReadSignal(t)
  <2>1. PICK mod_abs \in BOOLEAN :
          thread'[t] = IF local.absent[local.mod] # mod_abs
                       THEN [local EXCEPT !.pc = "test", !.seen = mod_abs]
                       ELSE NextModule(local)
    BY <1>1, <1>5 DEF ReadSignal, Typed
  <2>2. local.pc = "read"
    BY <1>1, <1>5 DEF ReadSignal
  <2>3. CASE thread'[t] = [local EXCEPT !.pc = "test", !.seen = mod_abs]
    <3>1. thread'[t].pc = "test" /\ thread'[t].mod = local.mod
      BY <2>3 DEF Locals
    <3> QED
      BY <1>1, <1>4, <2>2, <3>1
  <2> QED
    BY <1>1, <1>3, <2>1, <2>2, <2>3
<1>6. CASE ReadFails(t)
  BY <1>1, <1>3, <1>6 DEF ReadFails, Typed
<1>7. CASE TestService(t)
  <2>1. /\ local.pc = "test" /\ thread'[t].pc \in {"call", "keep"}
        /\ thread'[t].mod = local.mod
    BY <1>1, <1>7 DEF TestService, Typed, Locals
  <2> QED
    BY <1>1, <1>4, <2>1
<1>8. CASE CallHost(t)
  <2>1. local.pc = "call" /\ thread'[t].pc = "keep" /\ thread'[t].mod = local.mod
    BY <1>1, <1>8 DEF CallHost, Typed, Locals
  <2> QED
    BY <1>1, <1>4, <2>1
<1>9. CASE Keep(t)
  <2>1. PICK kept : kept = [local EXCEPT !.absent[local.mod] = local.seen]
    OBVIOUS
  <2>2. kept \in Locals /\ kept.pc = local.pc /\ kept.mod = local.mod /\ local.pc = "keep"
    BY <1>1, <1>9, <2>1 DEF Keep, Locals
  <2>3. thread'[t] = NextModule(kept)
    BY <1>1, <1>9, <2>1 DEF Keep, Typed
  <2>4. RankOf(kept) = RankOf(local)
    BY <2>2 DEF RankOf
  <2> QED
    BY <1>1, <2>2, <2>3, <2>4, NextModuleRank
<1> QED
  BY <1>2, <1>5, <1>6, <1>7, <1>8, <1>9 DEF Step
\* A thread that was created stays so.
LEMMA StepBorn ==
  ASSUME Typed, NEW t \in Threads, Step(t)
  PROVE  thread'[t].pc # "unborn" /\ Running(t)
<1>1. PICK local \in Locals : local = thread[t]
  BY DEF Typed
<1>2. Running(t)
  BY DEF Step, TestFlag, ReadSignal, ReadFails, TestService, CallHost, Keep, Running
<1> SUFFICES thread'[t].pc # "unborn"
  BY <1>2
<1>3. CASE TestFlag(t) \/ TestService(t) \/ CallHost(t)
  BY <1>1, <1>3 DEF TestFlag, TestService, CallHost, Typed, Locals
<1>4. CASE ReadSignal(t) \/ ReadFails(t)
  <2>1. \/ thread'[t] = NextModule(local)
        \/ \E mod_abs : thread'[t] = [local EXCEPT !.pc = "test", !.seen = mod_abs]
    BY <1>1, <1>4 DEF ReadSignal, ReadFails, Typed
  <2> QED
    BY <2>1, NextModuleType DEF Locals
<1>5. CASE Keep(t)
  <2>1. PICK kept : kept = [local EXCEPT !.absent[local.mod] = local.seen]
    OBVIOUS
  <2>2. kept \in Locals
    BY <2>1 DEF Locals
  <2>3. thread'[t] = NextModule(kept)
    BY <1>1, <1>5, <2>1 DEF Keep, Typed
  <2> QED
    BY <2>2, <2>3, NextModuleType
<1> QED
  BY <1>2, <1>3, <1>4, <1>5 DEF Step

\* No step makes the handle name a thread that does not exist.
LEMMA NextHandleBorn ==
  ASSUME IInv, HandleBorn, [Next]_vars
  PROVE  HandleBorn'
<1> USE DEF IInv, HandleBorn
<1>1. ASSUME NEW t \in Threads, Step(t)
      PROVE  HandleBorn'
  <2>1. handle' = handle /\ (handle # 0 => handle \in Threads)
    BY <1>1, OthersSame DEF Typed
  <2> QED
    BY <1>1, <2>1, OthersSame, StepBorn
<1>2. CASE CreateThread
  <2>1. PICK t \in Threads : thread' = [thread EXCEPT ![t].pc = "loop"] /\ handle' = t
    BY <1>2 DEF CreateThread
  <2> QED
    BY <2>1 DEF Typed, Locals
<1>3. CASE CreateThreadFails \/ Wipe
  BY <1>3 DEF CreateThreadFails, Wipe
<1>4. CASE UNCHANGED <<handle, thread>>
  BY <1>4
<1> QED
  BY <1>1, <1>2, <1>3, <1>4 DEF Next, Initialize, SetFlag, Uninitialize, Join, JoinNothing,
     Change, vars

\* tai_api_uninitialize is never stuck: it joins a thread that exists, and
\* which takes at most 4 * Slots + 1 more steps, since the flag is cleared and
\* stays so, and no other thread is made meanwhile.
THEOREM JoinEnds ==
  Spec => []JoinGoesOn /\ [][JoinComesNearer]_vars
<1>1. Init => HandleBorn
  BY DEF Init, HandleBorn
<1>2. IInv /\ HandleBorn => JoinGoesOn
  BY DEF IInv, Typed, Alone, Session, HandleBorn, Running, JoinGoesOn
<1>3. ASSUME IInv, [Next]_vars
      PROVE  [JoinComesNearer]_vars
  <2> SUFFICES ASSUME ~misused, host = "join", Next PROVE JoinComesNearer
    BY <1>3 DEF JoinComesNearer
  <2> USE <1>3 DEF IInv
  <2>1. ~initialized /\ \A t \in Threads : RankOf(thread[t]) \in Nat
    BY RankType DEF Alone, Typed
  <2>2. ASSUME NEW t \in Threads, Step(t)
        PROVE  JoinComesNearer
    <3>1. RankOf(thread'[t]) < RankOf(thread[t])
      BY <2>1, <2>2, StepRank
    <3>2. RankOf(thread'[t]) \in Nat
      BY RankType, NextIInv DEF Typed
    <3>3. ASSUME NEW u \in Threads, Step(u), u # t
          PROVE  FALSE
      <4>1. RankOf(thread'[u]) < RankOf(thread[u])
        BY <2>1, <3>3, StepRank
      <4>2. thread'[u] = thread[u]
        BY <2>2, <3>3, OthersSame
      <4> QED
        BY <2>1, <4>1, <4>2
    <3> QED
      BY <2>1, <2>2, <3>1, <3>2, <3>3, OthersSame DEF JoinComesNearer
  <2>3. CASE UNCHANGED thread
    <3>1. ASSUME NEW t \in Threads, Step(t)
          PROVE  FALSE
      <4>1. RankOf(thread'[t]) < RankOf(thread[t])
        BY <2>1, <3>1, StepRank
      <4> QED
        BY <2>1, <2>3, <4>1
    <3> QED
      BY <2>1, <2>3, <3>1 DEF JoinComesNearer
  <2> QED
    BY <2>2, <2>3 DEF Next, Initialize, SetFlag, CreateThread, CreateThreadFails,
       Uninitialize, Join, JoinNothing, Wipe, Change
<1> QED
  BY <1>1, <1>2, <1>3, NextHandleBorn, Invariance, PTL DEF Spec

-----------------------------------------------------------------------------
(* What the host was told.                                                 *)

Word(is_absent) == IF is_absent THEN "absent" ELSE "present"

\* What the thread with these locals has told the host of a module: what it
\* keeps, or what it is about to keep.
ToldOf(local, m) ==
  Word(IF local.pc = "keep" /\ local.mod = m THEN local.seen ELSE local.absent[m])

\* The thread and the host agree: at the start of a session on modules that
\* are all absent, and in a session that has a function to call on what was
\* last reported; what the thread reports is always news to it.
Agreed ==
  /\ said \in [Modules -> {"absent", "present"}]
  /\ ~misused =>
       /\ host \in {"flag", "create"} => said = [m \in Modules |-> "absent"]
       /\ \A t \in Threads :
            /\ thread[t] = Unborn \/ thread[t].pc # "unborn"
            /\ thread[t].pc \in {"test", "call", "keep"} =>
                 thread[t].absent[thread[t].mod] # thread[t].seen
            /\ service # "null" /\ Running(t) =>
                 \A m \in Modules : said[m] = ToldOf(thread[t], m)

\* "alerts the adapter when the state changes" (ac400_tai_interface.c:26): the
\* host is never told of a module what it was told before.
OnlyNews ==
  ~misused =>
    \A t \in Threads : CallHost(t) => said'[thread[t].mod] # said[thread[t].mod]

\* What a step of a thread does to what it and the host know of the modules.
LEMMA StepTold ==
  ASSUME Typed, ~misused, Alone, Agreed, NEW t \in Threads, Step(t)
  PROVE  /\ thread'[t].pc \in {"test", "call", "keep"} =>
              thread'[t].absent[thread'[t].mod] # thread'[t].seen
         /\ service # "null" /\ Running(t)' =>
              \A m \in Modules : said'[m] = ToldOf(thread'[t], m)
         /\ service = "null" => said' = said
<1> DEFINE News(local) ==
             local.pc \in {"test", "call", "keep"} => local.absent[local.mod] # local.seen
           Same(local) ==
             service # "null" => \A m \in Modules : said'[m] = ToldOf(local, m)
<1>1. PICK local \in Locals : local = thread[t]
  BY DEF Typed
<1>2. /\ local.mod \in Modules /\ local.absent \in [Modules -> BOOLEAN] /\ local.seen \in BOOLEAN
      /\ Running(t)
  BY <1>1, StepBorn DEF Locals
<1>3. /\ News(local)
      /\ service # "null" => \A m \in Modules : said[m] = ToldOf(local, m)
  BY <1>1, <1>2 DEF Agreed
<1>4. ASSUME NEW kept \in Locals, thread'[t] = NextModule(kept), said' = said,
             service # "null" => \A m \in Modules : said[m] = Word(kept.absent[m])
      PROVE  News(thread'[t]) /\ Same(thread'[t])
  <2>1. thread'[t].pc \in {"read", "loop"}
    BY <1>4, NextModuleType
  <2>2. thread'[t].absent = kept.absent
    <3>1. CASE thread'[t] = [kept EXCEPT !.mod = @ + 1, !.pc = "read"]
      BY <3>1 DEF Locals
    <3>2. CASE thread'[t] = [kept EXCEPT !.pc = "loop"]
      BY <3>2 DEF Locals
    <3> QED
      BY <1>4, <3>1, <3>2 DEF NextModule
  <2> QED
    BY <1>4, <2>1, <2>2 DEF ToldOf
<1>5. CASE TestFlag(t)
  <2>1. /\ local.pc = "loop" /\ thread'[t].pc \in {"read", "exited"}
        /\ thread'[t].absent = local.absent /\ said' = said
    BY <1>1, <1>5 DEF TestFlag, Typed, Locals
  <2> QED
    BY <1>3, <2>1 DEF ToldOf
<1>6. CASE ReadSignal(t)
  <2>1. PICK mod_abs \in BOOLEAN :
          thread'[t] = IF local.absent[local.mod] # mod_abs
                       THEN [local EXCEPT !.pc = "test", !.seen = mod_abs]
                       ELSE NextModule(local)
    BY <1>1, <1>6 DEF ReadSignal, Typed
  <2>2. local.pc = "read" /\ said' = said
    BY <1>1, <1>6 DEF ReadSignal
  <2>3. CASE /\ local.absent[local.mod] # mod_abs
             /\ thread'[t] = [local EXCEPT !.pc = "test", !.seen = mod_abs]
    <3>1. /\ thread'[t].pc = "test" /\ thread'[t].mod = local.mod
          /\ thread'[t].seen = mod_abs /\ thread'[t].absent = local.absent
      BY <2>3 DEF Locals
    <3> QED
      BY <1>3, <2>2, <2>3, <3>1 DEF ToldOf
  <2>4. CASE thread'[t] = NextModule(local)
    BY <1>3, <1>4, <2>2, <2>4 DEF ToldOf
  <2> QED
    BY <2>1, <2>2, <2>3, <2>4
<1>7. CASE ReadFails(t)
  <2>1. local.pc = "read" /\ thread'[t] = NextModule(local) /\ said' = said
    BY <1>1, <1>7 DEF ReadFails, Typed
  <2> QED
    BY <1>3, <1>4, <2>1 DEF ToldOf
<1>8. CASE TestService(t)
  <2>1. /\ local.pc = "test" /\ thread'[t].pc = (IF service = "null" THEN "keep" ELSE "call")
        /\ thread'[t].mod = local.mod /\ thread'[t].seen = local.seen
        /\ thread'[t].absent = local.absent /\ said' = said
    BY <1>1, <1>8 DEF TestService, Typed, Locals
  <2> QED
    BY <1>3, <2>1 DEF ToldOf
<1>9. CASE CallHost(t)
  <2>1. /\ local.pc = "call" /\ thread'[t].pc = "keep" /\ thread'[t].mod = local.mod
        /\ thread'[t].seen = local.seen /\ thread'[t].absent = local.absent
    BY <1>1, <1>9 DEF CallHost, Typed, Locals
  <2>2. service # "null" /\ said' = [said EXCEPT ![local.mod] = Word(local.seen)]
    BY <1>1, <1>9, <2>1 DEF CallHost, Alone, Word
  <2>3. \A m \in Modules : said'[m] = IF m = local.mod THEN Word(local.seen) ELSE said[m]
    BY <2>2 DEF Agreed
  <2> QED
    BY <1>2, <1>3, <2>1, <2>2, <2>3 DEF ToldOf
<1>10. CASE Keep(t)
  <2>1. PICK kept : kept = [local EXCEPT !.absent[local.mod] = local.seen]
    OBVIOUS
  <2>2. /\ kept \in Locals /\ local.pc = "keep" /\ said' = said
        /\ \A m \in Modules : kept.absent[m] = IF m = local.mod THEN local.seen ELSE local.absent[m]
    BY <1>1, <1>10, <2>1 DEF Keep, Locals
  <2>3. thread'[t] = NextModule(kept)
    BY <1>1, <1>10, <2>1 DEF Keep, Typed
  <2>4. service # "null" => \A m \in Modules : said[m] = Word(kept.absent[m])
    BY <1>3, <2>2 DEF ToldOf
  <2> QED
    BY <1>4, <2>2, <2>3, <2>4
<1> QED
  BY <1>5, <1>6, <1>7, <1>8, <1>9, <1>10 DEF Step
\* Every step keeps what the thread and the host agree on.
LEMMA NextAgreed ==
  ASSUME IInv, Agreed, [Next]_vars
  PROVE  Agreed'
<1> USE DEF IInv
<1>1. ASSUME NEW function \in {"null", "presence"}, Initialize(function)
      PROVE  Agreed'
  <2>1. said' = [m \in Modules |-> "absent"] /\ thread' = thread
    BY <1>1 DEF Initialize
  <2>2. ~misused' => ~misused /\ \A t \in Threads : ~Running(t)
    BY <1>1 DEF Initialize, Alone, Session
  <2> QED
    BY <2>1, <2>2 DEF Agreed, Running
<1>2. CASE CreateThread
  <2>1. PICK t \in Threads :
          thread[t] = Unborn /\ thread' = [thread EXCEPT ![t].pc = "loop"]
    BY <1>2 DEF CreateThread
  <2>2. host = "create" /\ host' = "idle" /\ UNCHANGED <<said, service, misused>>
    BY <1>2 DEF CreateThread
  <2>3. /\ thread'[t].pc = "loop" /\ thread'[t].absent = [m \in Modules |-> TRUE]
        /\ \A u \in Threads : u # t => thread'[u] = thread[u]
    BY <2>1 DEF Typed, Unborn
  <2> SUFFICES ASSUME ~misused PROVE Agreed'
    BY <2>2 DEF Agreed
  <2>4. said = [m \in Modules |-> "absent"] /\ \A u \in Threads : ~Running(u)
    BY <2>2 DEF Agreed, Alone, Session
  <2>5. \A m \in Modules : said'[m] = ToldOf(thread'[t], m)
    BY <2>2, <2>3, <2>4 DEF ToldOf, Word
  <2> QED
    BY <2>2, <2>3, <2>4, <2>5 DEF Agreed, Running
<1>3. CASE CreateThreadFails
  BY <1>3 DEF CreateThreadFails, Agreed
<1>4. CASE SetFlag
  BY <1>4 DEF SetFlag, Agreed, Running
<1>5. CASE Uninitialize \/ Join \/ JoinNothing \/ Wipe
  <2>1. /\ UNCHANGED <<thread, said, misused>> /\ host' \notin {"flag", "create"}
        /\ service' \in {service, "null"}
    BY <1>5 DEF Uninitialize, Join, JoinNothing, Wipe
  <2> QED
    BY <2>1 DEF Agreed, Running
<1>6. ASSUME NEW t \in Threads, Step(t)
      PROVE  Agreed'
  <2>1. /\ said' \in [Modules -> {"absent", "present"}]
        /\ host' = host \/ host' = "crashed"
    BY <1>6 DEF Step, TestFlag, ReadSignal, ReadFails, TestService, CallHost, Keep, Agreed
  <2>2. UNCHANGED <<service, misused>> /\ \A u \in Threads : u # t => thread'[u] = thread[u]
    BY <1>6, OthersSame
  <2> SUFFICES ASSUME ~misused PROVE Agreed'
    BY <2>1, <2>2 DEF Agreed
  <2>3. Running(t) /\ thread'[t].pc # "unborn"
    BY <1>6, StepBorn
  <2>4. host' \notin {"flag", "create"} /\ \A u \in Threads : u # t => ~Running(u)
    BY <2>1, <2>3 DEF Alone, Session
  <2>5. /\ thread'[t].pc \in {"test", "call", "keep"} =>
             thread'[t].absent[thread'[t].mod] # thread'[t].seen
        /\ service # "null" /\ Running(t)' =>
             \A m \in Modules : said'[m] = ToldOf(thread'[t], m)
    BY <1>6, StepTold
  <2>6. \A u \in Threads : u # t => ~Running(u)'
    BY <2>2, <2>4 DEF Running
  <2>7. \A u \in Threads : thread'[u] = Unborn \/ thread'[u].pc # "unborn"
    BY <2>2, <2>3 DEF Agreed
  <2>8. \A u \in Threads : thread'[u].pc \in {"test", "call", "keep"} =>
          thread'[u].absent[thread'[u].mod] # thread'[u].seen
    BY <2>2, <2>5 DEF Agreed
  <2> QED
    BY <2>1, <2>2, <2>4, <2>5, <2>6, <2>7, <2>8 DEF Agreed
<1>7. CASE UNCHANGED <<thread, said, service, host, misused>>
  BY <1>7 DEF Agreed, Running
<1> QED
  BY <1>1, <1>2, <1>3, <1>4, <1>5, <1>6, <1>7 DEF Next, Change, vars

\* Every call of the host's function is about a change: however readings fail
\* and sessions begin and end, the thread never tells the host of a module
\* what it told it last, nor at the start of a session that it is absent.
THEOREM NewsOnly == Spec => [][OnlyNews]_vars
<1>1. Init => Agreed
  <2> SUFFICES ASSUME Init PROVE Agreed
    OBVIOUS
  <2>1. \A t \in Threads : thread[t] = Unborn /\ thread[t].pc = "unborn"
    BY DEF Init, Unborn
  <2> QED
    BY <2>1 DEF Init, Agreed, Running
<1>2. ASSUME IInv, Agreed, [Next]_vars
      PROVE  [OnlyNews]_vars
  <2> SUFFICES ASSUME ~misused, NEW t \in Threads, CallHost(t)
               PROVE  said'[thread[t].mod] # said[thread[t].mod]
    BY DEF OnlyNews
  <2>1. /\ thread[t].pc = "call" /\ thread[t].mod \in Modules
        /\ thread[t].seen \in BOOLEAN /\ thread[t].absent \in [Modules -> BOOLEAN]
    BY <1>2 DEF CallHost, IInv, Typed, Locals
  <2>2. service # "null" /\ Running(t)
    BY <1>2, <2>1 DEF IInv, Alone, Running
  <2>3. said'[thread[t].mod] = Word(thread[t].seen)
    BY <1>2, <2>1, <2>2 DEF CallHost, Agreed, Word
  <2>4. said[thread[t].mod] = Word(thread[t].absent[thread[t].mod])
    BY <1>2, <2>1, <2>2 DEF Agreed, ToldOf
  <2>5. thread[t].absent[thread[t].mod] # thread[t].seen
    BY <1>2, <2>1 DEF Agreed
  <2> QED
    BY <2>1, <2>3, <2>4, <2>5 DEF Word
<1> QED
  BY <1>1, <1>2, NextAgreed, Invariance, PTL DEF Spec
=============================================================================
