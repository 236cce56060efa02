----------------------------- MODULE Ac400Presence -----------------------------
(***************************************************************************)
(* The AC400 adapter's entry points and its presence thread                *)
(* (ac400_tai_interface.c): tai_api_initialize copies the host's functions *)
(* and starts a thread that polls the MOD_ABS signal of every module and   *)
(* tells the host of each change; tai_api_uninitialize clears the flag     *)
(* that the thread's loop tests, joins the thread, and only then wipes the *)
(* functions.                                                              *)
(*                                                                         *)
(* One host thread calls, the threads it started run beside it, and        *)
(* modules are plugged and unplugged meanwhile.  The flag, the functions   *)
(* and the handle are shared without a lock; a step here is one access.    *)
(*                                                                         *)
(* Bounds: MaxThreads threads are created, modules are plugged or          *)
(* unplugged MaxChanges times in all, and a host that has misused the      *)
(* adapter initialises it no more.                                         *)
(***************************************************************************)
EXTENDS Integers

CONSTANTS
  Slots,        \* VOYAGER_NUM_AC400: modules are 1 .. Slots
  MaxThreads,   \* how many threads can be created
  MaxChanges    \* how often modules are plugged or unplugged

ASSUME PresenceAssumption ==
  Slots \in Nat \ {0} /\ MaxThreads \in Nat /\ MaxChanges \in Nat

VARIABLES
  plugged,      \* the modules that are there: MOD_ABS is not asserted
  changes,      \* how often that has changed
  initialized,  \* the flag
  service,      \* adapter_host_fns.module_presence: "null", or the host's
  handle,       \* module_presence_thread: a thread, or 0 when it names none
  thread,       \* what each thread does next, and its local variables
  host,         \* what the host's thread does next
  said,         \* history: what the host was last told of each module
  misused       \* history: initialised again before it was uninitialised,
                \* or the thread could not be created

vars == <<plugged, changes, initialized, service, handle, thread, host, said, misused>>

Modules == 1 .. Slots
Threads == 1 .. MaxThreads

\* mod, absent[] and mod_abs of module_presence.
Unborn == [pc |-> "unborn", mod |-> 1, absent |-> [m \in Modules |-> TRUE], seen |-> TRUE]

Running(t) == thread[t].pc \notin {"unborn", "exited"}

Init ==
  /\ plugged \in SUBSET Modules /\ changes = 0
  /\ initialized = FALSE /\ service = "null" /\ handle = 0
  /\ thread = [t \in Threads |-> Unborn]
  /\ host = "idle"
  /\ said = [m \in Modules |-> "absent"]
  /\ misused = FALSE

-----------------------------------------------------------------------------
(* The host.                                                               *)

\* tai_api_initialize with the host's functions, among them module_presence
\* or not.  A host that is told nothing takes a module to be absent.
Initialize(function) ==
  /\ host = "idle" /\ ~misused
  /\ service' = function
  /\ host' = "flag"
  /\ said' = [m \in Modules |-> "absent"]
  /\ misused' = (misused \/ initialized)
  /\ UNCHANGED <<plugged, changes, initialized, handle, thread>>

SetFlag ==
  /\ host = "flag"
  /\ initialized' = TRUE
  /\ host' = "create"
  /\ UNCHANGED <<plugged, changes, service, handle, thread, said, misused>>

\* pthread_create; a handle that is still in use is overwritten.
CreateThread ==
  /\ host = "create"
  /\ \E t \in Threads :
       /\ thread[t] = Unborn /\ \A u \in 1 .. t - 1 : thread[u] # Unborn
       /\ thread' = [thread EXCEPT ![t].pc = "loop"]
       /\ handle' = t
  /\ host' = "idle"
  /\ UNCHANGED <<plugged, changes, initialized, service, said, misused>>

\* It fails: that is logged, the handle is undefined, and the call succeeds.
CreateThreadFails ==
  /\ host = "create"
  /\ handle' = 0
  /\ misused' = TRUE
  /\ host' = "idle"
  /\ UNCHANGED <<plugged, changes, initialized, service, thread, said>>

\* tai_api_uninitialize, by a host that has initialised.
Uninitialize ==
  /\ host = "idle" /\ initialized
  /\ initialized' = FALSE
  /\ host' = "join"
  /\ UNCHANGED <<plugged, changes, service, handle, thread, said, misused>>

\* Fault: the functions are wiped without waiting for the thread.
FaultJoin ==
  /\ host = "join"
  /\ handle # 0
  /\ host' = "wipe"
  /\ UNCHANGED <<plugged, changes, initialized, service, handle, thread, said, misused>>

Join ==
  /\ host = "join"
  /\ handle # 0 /\ thread[handle].pc = "exited"
  /\ host' = "wipe"
  /\ UNCHANGED <<plugged, changes, initialized, service, handle, thread, said, misused>>

\* A handle that names no thread: the join returns an error, or crashes.
JoinNothing ==
  /\ host = "join"
  /\ handle = 0
  /\ host' \in {"wipe", "crashed"}
  /\ UNCHANGED <<plugged, changes, initialized, service, handle, thread, said, misused>>

Wipe ==
  /\ host = "wipe"
  /\ service' = "null"
  /\ handle' = 0
  /\ host' = "idle"
  /\ UNCHANGED <<plugged, changes, initialized, thread, said, misused>>

-----------------------------------------------------------------------------
(* The thread t.                                                           *)

\* The flag is tested before each round.
TestFlag(t) ==
  /\ thread[t].pc = "loop"
  /\ thread' = [thread EXCEPT ![t].pc = IF initialized THEN "read" ELSE "exited",
                              ![t].mod = 1]
  /\ UNCHANGED <<plugged, changes, initialized, service, handle, host, said, misused>>

\* Where a thread that is done with its module goes on.
NextModule(local) ==
  IF local.mod < Slots THEN [local EXCEPT !.mod = @ + 1, !.pc = "read"]
  ELSE [local EXCEPT !.pc = "loop"]

\* MOD_ABS is read, and differs from what the thread knows or not.
ReadSignal(t) ==
  /\ thread[t].pc = "read"
  /\ LET mod_abs == thread[t].mod \notin plugged
         local == thread[t]
     IN  thread' = [thread EXCEPT ![t] =
           IF local.absent[local.mod] # mod_abs
           THEN [local EXCEPT !.pc = "test", !.seen = mod_abs]
           ELSE NextModule(local)]
  /\ UNCHANGED <<plugged, changes, initialized, service, handle, host, said, misused>>

\* Fault: a signal that cannot be read counts as absence.
FaultReadFails(t) ==
  /\ thread[t].pc = "read"
  /\ thread' = [thread EXCEPT ![t] =
                  NextModule([@ EXCEPT !.absent[@.mod] = TRUE])]
  /\ UNCHANGED <<plugged, changes, initialized, service, handle, host, said, misused>>

\* The signal cannot be read; the module is left for the next round.
ReadFails(t) ==
  /\ thread[t].pc = "read"
  /\ thread' = [thread EXCEPT ![t] = NextModule(@)]
  /\ UNCHANGED <<plugged, changes, initialized, service, handle, host, said, misused>>

\* Is there a function to call?
TestService(t) ==
  /\ thread[t].pc = "test"
  /\ thread' = [thread EXCEPT ![t].pc = IF service = "null" THEN "keep" ELSE "call"]
  /\ UNCHANGED <<plugged, changes, initialized, service, handle, host, said, misused>>

\* The function is read again, and called: a null one is a crash.
CallHost(t) ==
  /\ thread[t].pc = "call"
  /\ thread' = [thread EXCEPT ![t].pc = "keep"]
  /\ IF service = "null"
     THEN host' = "crashed" /\ UNCHANGED said
     ELSE /\ said' = [said EXCEPT ![thread[t].mod] =
                        IF thread[t].seen THEN "absent" ELSE "present"]
          /\ UNCHANGED host
  /\ UNCHANGED <<plugged, changes, initialized, service, handle, misused>>

\* What was read is kept, whether the host was told or not.
Keep(t) ==
  /\ thread[t].pc = "keep"
  /\ thread' = [thread EXCEPT ![t] =
                  NextModule([@ EXCEPT !.absent[thread[t].mod] = thread[t].seen])]
  /\ UNCHANGED <<plugged, changes, initialized, service, handle, host, said, misused>>

-----------------------------------------------------------------------------

\* A module is plugged in or taken out.
Change(m) ==
  /\ changes < MaxChanges
  /\ changes' = changes + 1
  /\ plugged' = IF m \in plugged THEN plugged \ {m} ELSE plugged \cup {m}
  /\ UNCHANGED <<initialized, service, handle, thread, host, said, misused>>

Step(t) ==
  TestFlag(t) \/ ReadSignal(t) \/ ReadFails(t) \/ TestService(t) \/ CallHost(t) \/ Keep(t)

\* Nothing happens in a process that has crashed.
Next ==
  /\ host # "crashed"
  /\ \/ \E function \in {"null", "presence"} : Initialize(function)
     \/ SetFlag
     \/ CreateThread
     \/ CreateThreadFails
     \/ Uninitialize
     \/ Join
     \/ JoinNothing
     \/ Wipe
     \/ \E t \in Threads : Step(t)
     \/ \E m \in Modules : Change(m)

\* Every thread is scheduled, and a module's signal, read again and again, is
\* not unreadable for ever.  Nothing obliges the host to call, but a call of
\* its, once made, goes on.
Fairness ==
  /\ WF_vars(SetFlag \/ CreateThread \/ CreateThreadFails \/ Join \/ JoinNothing \/ Wipe)
  /\ \A t \in Threads :
       /\ WF_vars(host # "crashed" /\ Step(t))
       /\ \A m \in Modules : SF_vars(host # "crashed" /\ thread[t].mod = m /\ ReadSignal(t))

Spec == Init /\ [][Next]_vars /\ Fairness

-----------------------------------------------------------------------------
(* Properties.                                                             *)

\* "A separate thread which monitors the presence of modules and alerts the
\* adapter when the state changes" (ac400_tai_interface.c:26): once a module
\* stays where it is and the adapter is up, the last the host hears of it is
\* the truth, though readings fail, are overtaken while they are reported, and
\* only changes are reported.  (With a second thread in the session it may not
\* be: the thread that was left over can report late what it saw, and exit.)
Watched == ~misused /\ handle # 0 /\ initialized /\ service = "presence"

PresenceLearned ==
  \A m \in Modules :
    /\ <>[](Watched /\ m \in plugged) => <>[](said[m] = "present")
    /\ <>[](Watched /\ m \notin plugged) => <>[](said[m] = "absent")

\* tai_api_uninitialize leaves nothing behind: when the function table is
\* wiped, and as long as the adapter is not initialised again, no thread of
\* its runs, so none calls the host or a null function.  (A host that initialised
\* twice has lost the handle of the first thread, and one that got no thread
\* joins a handle that is not one.)
OrderlyEnd ==
  ~misused =>
    /\ host # "crashed"
    /\ ~initialized /\ host \in {"wipe", "idle"} => ~\E t \in Threads : Running(t)
=============================================================================
