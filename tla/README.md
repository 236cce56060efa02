# TLA+ verification of the TAI implementations

This directory models, checks and proves properties of the three TAI
(Transponder Abstraction Interface) libraries of this repository:

- `src/tai_mux`: a multiplexer that loads other TAI libraries and forwards to
  the one a location belongs to;
- `src/tai_sff`: a library for SFF transceivers read through their eeprom file;
- `src/tai_ac400`: a library for AC400 coherent modules on the Voyager switch.

Everything is translated from the source. The TAI framework (`tai::framework`,
a git submodule), the libraries that the multiplexer loads, and the hardware
are not in `src/`; they are modelled from how the code uses them, and marked
external in `PROJECT.json`.

## 1. Inventory

### tai_mux

| Part | State | Operations |
|---|---|---|
| Object table (`mux.cpp`, `mux.hpp`, `platform_adapter.hpp`) | `OIDAllocator::m_bitset`, `PlatformAdapter::m_map` (id to real id and library), the framework's `m_objects` | `create`, `remove`, `get_object_type`, `get_module_id` |
| Notifications (`platform_adapter.cpp`) | `m_notification_map` (id and attribute to context), the contexts (handler, id, mutex) | `set` of a notification attribute, `convert_oid`, `notification_callback`, `notify` |
| Platform adapters (`static_platform_adapter`, `exec_platform_adapter`, `module_adapter`) | `m_ma_map` (location to library), `m_lib_map` (address to library), the libraries in the process | `get_module_adapter`, `list_module_adapters`, load, destructor |
| Log settings (`mux.cpp`) | `m_log_setting` | `set_log`, and its repetition when a module is created |
| Attribute forwarding (`platform_adapter.cpp`, `module_adapter.hpp`) | none of its own | `get`, `set`, `get_capability`, ids inside attributes |
| Configuration file (`static_platform_adapter.cpp`, `json.hpp`) | the bytes, the token, the stack of open arrays and objects, the document | `json::parse`, iteration over the document, `get<std::string>` |

*Interactions.* The API thread calls `Platform`; it asks the platform adapter
for a library, calls it, and records its answer in three tables. The library
calls back from a thread of its own. *Hard.* Failures between the steps of a
create or a remove; the allocator at its limit; ids reused on both sides;
handlers cleared while they are called; lookups and initialisations that fail
and leave entries; libraries that stay in the process when the multiplexer
goes; ids inside attribute values; the edges of JSON. *Correct when* the tables stay one table, an id means one
live real object, a notification is delivered under the id of the object that
raised it, no context is used after it is freed, calls return, a log setting
reaches every library that serves a module, an id set in an attribute is read
back, and the table of libraries is the one the file says.

### tai_sff

| Part | State | Operations |
|---|---|---|
| State machine of a location (`sff_fsm.cpp`) | state, event, `m_eeprom` stream, `m_module`, `m_netif`, `m_hostif` | callbacks of the states, `set_*`, `remove_*`, `get` |
| Platform (`sff.cpp`, `sff.hpp`) | `m_fsms`, `m_objects`; ids made of type, port and index | `create`, `get_object_type`, `get_module_id` |

*Interactions.* Each state machine has a thread; the API thread creates
objects in it, and both read one eeprom stream. *Hard.* The two threads in any
order; a transceiver pulled and plugged; a stream that has failed; a
`remove_module` that waits for the thread; ids from unbounded numbers. *Correct
when* `OPER_STATUS` tells the truth, READY has a module, a created module
becomes READY, `remove_module` returns, and ids are unique.

### tai_ac400

| Part | State | Operations |
|---|---|---|
| API entry, presence thread (`ac400_tai_interface.c`) | the service table, the thread | initialise, uninitialise, query, presence poll |
| Module (`ac400_tai_module.c`) | `module_init`; hardware signals and state | create, remove, operational status, network mode |
| Network interface (`ac400_tai_networkif.c`) | `netif_info`; registers per lane | create, remove, attributes; the low-power bracket around the mode registers |
| Host interface (`ac400_tai_hostif.c`) | `hostif_info`; registers per client | create, remove, attributes |
| Register access (`ac400_voyager.c`) | the file name buffer, the address file | signals, `mdio_read`, `mdio_write` |
| Utilities (`ac400_tai_utils.c`) | log level | transition times, error lists, logging |

*Interactions.* A call is a sequence of signal and register accesses and waits,
while the hardware moves by itself. *Hard.* An access that fails or a wait that
runs out half way; values refused after the module was moved; fields that share
a register; lists that fail half way; a module at work when the library
starts. *Correct when* the mode registers change only where the hardware allows
it, a call that reports success has restored or reached what it should, the
transmitters turn on only on request, and setting an attribute changes no
other.

The behaviours of this code that a test hardly reaches are listed, at their
lines, under `hazards` in `PROJECT.json`.

## 2. Modules

| Module | Models | Status |
|---|---|---|
| `ObjectRegistry` | abstract: what a TAI library promises the holder of an id | done |
| `MuxPlatform` | the multiplexer's object table; refines `ObjectRegistry` | done |
| `MuxNotify` | notifications, with the library's thread | done |
| `MuxAttributes` | ids inside attributes, to a library and back; extends `MuxPlatform` | done |
| `MuxAdapters` | construction, lookup and loading of libraries, log settings, destruction | done |
| `JsonLexer`, `JsonParser` | `json::parse`: bytes to tokens, tokens to a document | done |
| `JsonReference` | reference: what a text denotes by the grammar of RFC 8259 | done |
| `MuxConfig` | `MuxAdapters` composed with the parser: from the bytes of the file | done |
| `MuxConfigReference` | reference: the table a file stands for by that grammar | done |
| `SffFsm` | one location's state machine, the API thread and the stream | done |
| `SffPlatform` | the SFF objects of all locations and their ids | done |
| `Ac400Module` | one module's signals, states and mode registers | done |
| `Ac400Registers` | the attributes that are fields of registers | done |
| `Ac400Status` | the status attributes, read while they move; extends `Ac400Registers` | done |
| `Ac400Presence` | initialise, uninitialise and the presence thread | done |
| `MuxNotifyProofs`, `SffFsmProofs`, `SffPlatformProofs`, `Ac400ModuleProofs`, `Ac400PresenceProofs` | theorems about the module they are named after | done |
| `MuxPlatformProofs` | theorems about `MuxPlatform` and `MuxAttributes` | done |
| `MuxAdaptersProofs` | theorems about `MuxAdapters`, `MuxConfig`, `JsonParser` and `JsonLexer` | done |
| `Ac400RegistersProofs` | theorems about `Ac400Registers` and `Ac400Status` | done |

`MC*` modules give the instances for TLC. A definition `FaultX` next to a
definition `X` is `X` with a plausible bug; it is used in no specification.
`PROJECT.json` (`mutants`) says which property each of them violates.

### MuxPlatform

`bitset`, `map`, `objects` are the three tables, `real` what is alive in each
library, `ret` the answer of the last call. One API call is one step, as the
framework serialises calls and no callback touches these tables. `Instantiate`
is the common end of the three constructors and of `Platform::create`: the real
object first, then the id (the allocator throws at its limit, and the real
object stays), then `m_objects`. `Remove` asks the library first and drops the
mapping only when it agrees. Which library answers and what it answers is open;
`FreshRealIds` restricts it where a property needs it: a library does not give
out a live id again. A library may agree to remove a module that still has
interfaces, as `ac400_remove_module` does, and the multiplexer does not look for
them either: `ModuleOfInterfaceKept` says that this remove is all that comes
between an interface and its module.

### MuxNotify

The API thread (`api`) and the library's thread (`cb`) step by step. A set has a
list of attributes, with its order and its repetitions (`Lists`): `SetBegin`,
`ConvertNull` or `ConvertHandler` per entry (the latter under the context's
mutex), `LibraryCall`; the library then takes the entries in the list's order
(`LibraryDisables`, `LibraryEnables`, `LibraryRefuses`, so that it may apply a
part and fail), `LibraryReturn`, `Cleanup`. `Raise`, `Lookup` (`muxed_oid` is read
without the mutex), `Deliver` (under it), `Return`. `RemoveReturn` gives the id
back and leaves `m_notification_map` alone, as the code does; `RemoveRefused`
keeps it. An object is the number of its creation, to tell an id's owners apart.

`Cleanup` erases the context of every attribute with a null entry anywhere in the
list (`Cleared`), also where a later entry has filled that context again and the
library has just been given it. `refilled`, a history variable that no step
reads, holds exactly the contexts freed in that way: the properties except them
by name, and nothing else. A callback on a freed context reads any id there
(`Lookup`) or never comes back (`Stray`).

`drains` says whether the library waits for its callbacks before it returns from
disabling a handler or from a remove; the two properties about freed contexts
and reused ids hold for those that do, and the code gives no protection with
those that do not.

### MuxAttributes

`stored` is an id attribute's value in a library, by real object, as real ids;
`wrote` remembers what a caller has set. `Set` converts every id first
(`Forward`, of whichever library the id is) and calls the library only when all
have a counterpart; `SetRefused` is a library that answers an error with the
value taken or not; `LibraryChanges` one that changes its attribute; `Get`
converts back in place (`Backward`: the least id that stands for the real id
in the same library) and stops at the first real id nobody holds. `GetRealOid`
is the multiplexer's own attribute. All of `MuxPlatform`'s actions go on
beside these; the registry's properties are checked in the composition.

### MuxAdapters

A process goes through any number of platforms: `StartWith`, `NextLocation`,
`Configure` and `ConfigureThrows` are the constructor, one location at a time,
`StartRefused` its exceptions, `Destroy` and `DestroyCrashes` its end. What
`dlopen` has opened stays (`opened`): the handle is never closed, so that a
library can be "loaded" without an adapter (`libMap` answers `Null`), and an
adapter whose constructor found no meta api has a pointer that was never
assigned (`wild`). `kind` chooses the adapter. The static one looks up its
table with `operator[]`; the exec one runs a script, whose answer may be none,
and recognises a library that is in the process by its address. `SetLog`,
`SetLogFails` and `SetLogCrashes` are the ends of `set_log`: over all libraries,
up to one that refuses, or at a null adapter. `CreateModule` repeats the
settings in key order.

### JsonLexer, JsonParser, JsonReference, MuxConfig, MuxConfigReference

`JsonLexer` is the lexer as functions of a text and a position: `ScanString`
with its escapes, surrogate pairs and UTF-8 ranges (`Utf8Ranges`, the `case`
labels of `scan_string`), `ScanNumber` as the machine its labels and `goto`s
are (`IntegerMoves`, `FractionMoves`, `ExponentMoves`), literals and
punctuation, the byte order mark. The two loops of the lexer are recursive
functions of the position; what one turn does, given what the later ones do, is
an operator of its own (`StringFrom`, `NumberFrom`). `JsonParser` is the loop of
`sax_parse_internal` over a stack of what is open, a step for each turn, with
the SAX callbacks that build the document (`HandleValue`, `SetMember`).
Formatting, error texts and positions are left out; a number is its lexeme, and
whether it overflows a double. `MuxConfig` reads a file (`ReadFile`), parses it
(`ParseStep`), and hands the table to the constructor (`UseDocument`, with the
iterator over objects, arrays, scalars and null; `DocumentRefused`). `dlopen`
sees a path up to its first null byte (`CString`). `LocationOf` numbers the keys
in the order of `std::string`, as the locations of `MuxAdapters` are numbers.
`JsonReference` gives, independently, the set of all documents a text denotes
by the grammar (`Denoted`). Two exceptions to the grammar are built into it: a
null byte ends the text, and a number out of the range of a double is refused,
where it takes from the parser which numbers these are (`Overflows`).
`MuxConfigReference` compares the table that is used with it (`TableAsWritten`).

### SffFsm

`fsm` is the loop's state and `next` what the callback has returned, so that the
state change callback and the taking of the new state are a step of their own:
one step, from `set_readonly` through the notification to the loop's assignment
(`sff_fsm.cpp:136-153`), so that `OperStatusTruth` says nothing of a getter that
runs in between.
`stream` is the `ifstream`: failed or not, position, and bytes buffered; a read
from the buffer succeeds without the transceiver, a read that fails sets failbit
for good, and a seek drops the buffer. One byte stands for the bytes of an
attribute. `served` tells the two modes of the library apart: with a presence
service the state machines exist before any create, without it `create` makes
them. `start()` is assumed to succeed. `remove_module`, `remove_netif` and
`remove_hostif` are modelled as public operations of the class;
`Platform::remove` answers NOT_SUPPORTED and does not call them yet.

### SffPlatform

`fsms`, `moduleOf`, `slots` and `objects` are `m_fsms`, the members of each
state machine, and `m_objects`. `ModuleId` and `InterfaceId` put an id together
from type, port and index with the shifts and ors of `sff.hpp`, without a mask,
and `SlotOf` takes the slot back out of an id; `Register` refuses an id that is
there, after the state machine has the object. The operator `|` is the parameter
`BitOr`: TLC is given the bitwise one, the proofs what `BitOrAssumption` says of
it. `CreateModuleFails` leaves the
location's state machine behind, as the code does.

### Ac400Module

`signals` and `hw` are the module's signals and state; the external part
`HardwareMoves` is the AC400 state machine, of which the source names the
states and the shortest paths (`ac400_get_transition_time`). `mode`, `enable`
and `format` are the registers that matter to the low-power bracket. A call is
`call` with its program counter `pc`: `StatusBegin` reads the state,
`WriteSignal` writes one signal of `SignalWrites`, `AlarmSeen`, `Reached` and
`TimedOut` are the waits. `MoveModule`/`MoveLane`, `Write`,
`RestoreModule`/`RestoreLane` are the bracket, shared by the three format
setters (`SetFormat`) and, for the module, by `set_network_mode`. `AccessFails`
ends a call at any of its accesses. `SuccessRestores` is about the signals and
the lanes that are enabled: a setter that has found LOW_POWER does not move the
module and does not wait, so that of the hardware's own state, which may have
become FAULT, it promises nothing. A failed read of the alarm leaves its flag
with whatever was there (`ac400_voyager.c:83`), hence `AlarmSeen` when
`Failures`. A wait without a time in the table polls once. `asked` and `began`
are history variables.

### Ac400Registers

Words, fields and values are sets of bits. `LaneFields`, `ClientFields`,
`SharedLaneField` and `SharedClientField` are the tables of the dispatching
setters, with the positions of `ac400.h`. `PutField` keeps what a value has
beyond its field, as the macro does. The hardware writes none of these
registers. The low-power bracket is in `Ac400Module`. `OUTPUT_POWER` and
`TX_FINE_TUNE_LASER_FREQ` are left out: each fills a register of its own, and
their conversions are floating point.

### Ac400Status

Beside the writable attributes, a getter of turn-up, alignment or lane faults
(`GetStatus`, then `ReadStatus` for each of its registers) while the hardware
raises and lowers bits of its own and of the other interfaces' registers
(`StatusMoves`). `Tested` are the bits the code tests: where it takes the number
of the bit for the mask (`Misread`), it tests others.

### Ac400Presence

Each access to the flag, the function table and the thread's handle is a step:
`Initialize` (copies the functions), `SetFlag`, `CreateThread` or
`CreateThreadFails`; `Uninitialize` (clears the flag), `Join`, `Wipe`. A thread
tests the flag (`TestFlag`), reads the signal of the next module (`ReadSignal`,
`ReadFails`), tests the function (`TestService`), reads it again and calls it
(`CallHost`), and keeps what it saw (`Keep`). A null function called is a
crash; `JoinNothing` joins a handle that is not one. `said` is what the host
was last told, `misused` whether the session was initialised twice or got no
thread.

## 3. Runs

| Run | States | Shows |
|---|---|---|
| `mux_platform` | 277 256 | tables are one table, an interface keeps its module, ids round-trip also inside attributes, refinement of `ObjectRegistry` |
| `mux_notify` | 702 470 | which subscriptions are backed, no other use after free, right id, calls return |
| `mux_config` | 748 382 | the parser is RFC 8259, the table is the file's, settings reach modules, null adapters, nothing left initialised |
| `sff_fsm` | 3 826 | READY has a module, OPER_STATUS, created becomes READY, remove returns |
| `sff_platform` | 59 638 | the module of an interface, state machines hold what is registered |
| `ac400_module` | 3.2 million | low power, restoring, reaching, no laser without request |
| `ac400_registers` | 127 524 | no attribute disturbs another, lists read back, status tells the truth |
| `ac400_presence` | 118 204 | no thread outlives uninitialise, the host learns the last change |
| `mux_notify_clean` | violation | a list (null, handler) frees the context of the handler it enables |
| `mux_adapters_restart` | violation | after a restart the configured locations lead to null |
| `sff_readable` | violation | a failed first poll keeps the machine in INIT for ever |
| `ac400_restores` | violation | a refused value leaves the lane disabled or the module in low power |

### Bounds, and why they are enough

- `mux_platform`: two libraries with two real ids each, three ids, and one
  attribute value of up to two ids kept at a time. The allocator reaches its
  limit with a real object left over, ids are reused on both sides, a real id
  may be live in both libraries, a value may name an object that is removed and
  its real id taken again, a list may fail at its second id, and a module may be
  removed under an interface and its id given to another. Libraries, real ids
  and the two types of interfaces are interchangeable (symmetry; no liveness).
  The proofs remove the bounds.
- `mux_notify`: two ids, two attributes, one handler value, two creations, three
  contexts, and lists of up to two entries. An id gets a second owner while a
  context of the first is left, two attributes of an object are set in one call,
  and a list names one attribute twice, in each order of null and handler.
  Contexts count allocations, so the bound stops new sets only. The proofs
  remove the bounds.
- `mux_notify_clean`: one id and one attribute; the violation needs one list of
  two entries.
- `mux_config`: the file is every sequence of up to five lexemes out of eleven,
  every text of up to five characters of a number, every string of two bytes of
  the classes the lexer tells apart, every UTF-8 form at the edges of its
  ranges, every `\uXXXX` over five digits and every pair of the surrogates'
  edges, every object of two members over three spellings of keys and six
  values, and byte order marks. The lexer looks ahead one byte and the parser
  one token, so that each decision is met. Once a file has been used, only its
  table matters: later platforms read one table or a broken file. Three
  locations, two libraries, two apis (a prefix of settings), two levels. The
  script of the exec adapter keeps to one library per location, or fails.
- `mux_adapters_restart`: one table, nothing fails; two constructions suffice.
- `sff_fsm`: a file of four bytes and a buffer of three, so that the buffer ends
  before the file, at it, and is dropped by a seek into it; two network
  interfaces and a host interface, of equal slots in the code. A longer file
  changes how many polls succeed before the end, nothing else.
- `sff_platform`: ports 1, 3 and 257 (which is 1 in a byte), indices 0, 3, 4 and
  512: with and without a slot, and beyond a byte; three interfaces at a time.
- `sff_readable`: no attributes are read; the violation needs one poll.
- `ac400_module`: two lanes as in the hardware, two register values and a
  refused one. Lanes and values are interchangeable. Nothing limits the number
  of calls. `ac400_restores` sets `Failures` to FALSE: the violation owes
  nothing to a failing access.
- `ac400_registers`: all attributes of all six interfaces; words all zero, all
  one and alternating; values zero, one, and all ones of every width. A call has
  one attribute or two of one register: attributes of different registers do not
  meet. A behaviour is one call, from any of the words; a later call would find
  a word of the same kind. While a status is read one bit moves, of any of the
  interfaces, at any point; the bits begin all raised or all not.
- `ac400_presence`: both modules, two threads (a second session, or a second
  thread in the first), two changes: one may be overtaken by the other while it
  is reported.

`CHECK_DEADLOCK FALSE` is given where the system may stop: callers that do
nothing more, a process that has crashed, a call that has returned, or ids used
up by a bound. `mux_platform` and the two `ac400_module` runs check deadlock.

### Fairness

- `MuxNotify`: a call and a callback that have begun go on (threads are
  scheduled), a library goes on to its next entry, and returns, once what it
  waits for is over, and a mutex that is free again and again is granted (strong
  fairness of `Convert`). Nobody has to begin a call or raise a notification.
  Nothing is assumed of a callback that has strayed on a freed context, and
  `CallsReturn` excepts the calls that wait for it.
- `SffFsm`: the state machine's thread runs (its timers expire every second),
  and a call that has begun goes on. Nothing is assumed of the transceiver or
  the callers.

- `Ac400Presence`: threads are scheduled, a call of the host that has begun goes
  on, and a signal that is read again and again is not unreadable for ever
  (strong fairness of `ReadSignal`: the thread goes on with the next round after
  a failure). Nobody has to call, to plug or to pull.

The other modules are checked for safety only. In `Ac400Module` every wait is bounded by the code, so that calls
return by their loops' counters, which are not modelled.

## 4. Proofs

Each theorem is about the specification that a run checks, about the one it
extends or one it implements, for every value of the constants that the module's `ASSUME` allows. In
each proof module `IInv` (`ListInv`, `StatusInv`, `AttrInv`; `Registered`,
`Members` and `Held` in `SffPlatformProofs`; `Served`, `Configured`,
`NothingStale` and `ParserInv` beside `IInv` in `MuxAdaptersProofs`) is the inductive invariant; TLC has checked each of them on the instances of section 3.

| Module | Theorem | States |
|---|---|---|
| `MuxPlatformProofs` | `TypeCorrect` | `Spec => []TypeOK` |
| | `OidsAccounted` | `Spec => []OidAccounting` |
| | `MappingsAgree` | `Spec => []MappingAgrees` |
| | `RoundTrip` | `Spec => []ReverseRoundTrip` |
| | `NoDangling` | `Spec => []NoDanglingTarget` |
| | `ModuleKept` | `Spec => ModuleOfInterfaceKept` |
| | `OrphansAtLimit` | `Spec => OrphansOnlyAtLimit` |
| | `RefinesRegistry` | `Spec => RegistrySpec` |
| | `SameTables` | `AttrSpec => Spec`: the eight above hold here, too |
| | `Translated` | `AttrSpec => []ReportsTranslated` |
| | `Answered` | `AttrSpec => []LiveReportsAnswered` |
| | `SetIsRead` | `AttrSpec => []ReadsBack` |
| `MuxNotifyProofs` | `TypeCorrect` | `Spec => []TypeOK` |
| | `Backed` | `Spec => []SubscriptionsBacked` |
| | `Unshared` | `Spec => []ContextsUnshared` |
| | `NoFreedContext` | `Spec => []NoUseAfterFree` |
| | `OwnIdDelivered` | `Spec => []DeliveredUnderOwnId` |
| | `CallsEnd` | `Spec => []NoCircle /\ [][CallsComeNearer]_vars` |
| `MuxAdaptersProofs` | `TypeCorrect` | `AnySpec => []TypeOK` |
| | `NoNullCalled` | `AnySpec => []NoNullAdapterCalled` |
| | `SettingsReach` | `Stable => (AnySpec => []SettingsReachModules)` |
| | `Uninitialized` | `Stable => (AnySpec => AllUninitialized)` |
| | `OwnOrNull` | `AnySpec => []ConfiguredOrStale` |
| | `FirstIsUsed` | `AnySpec /\ FirstInProcess => []ConfiguredIsUsed` |
| | `ConfigIsAny` | `ConfigSpec /\ []KeysNumbered => AnySpec` |
| | `ConfigSafe` | `ConfigSpec /\ []KeysNumbered => [](TypeOK /\ NoNullAdapterCalled /\ ConfiguredOrStale)` |
| | `ConfigServed` | `Stable => (ConfigSpec /\ []KeysNumbered => []SettingsReachModules /\ AllUninitialized)` |
| | `ParseEnds` | `ConfigSpec => [](ParserGoesOn /\ ParseRank \in 0..(2 * Len(file) + 1)) /\ [][ParseComesNearer]_configVars` |
| `SffFsmProofs` | `TypeCorrect` | `Spec => []TypeOK` |
| | `ReadyModule` | `Spec => []ReadyHasModule` |
| | `OperStatus` | `Spec => []OperStatusTruth` |
| | `RemovedAtEnd` | `Spec => [][EndIsFinal]_vars` |
| | `RemoveEnds` | `Spec => [](RemoveGoesOn /\ RemoveRank \in 0..3) /\ [][RemoveComesNearer]_vars` |
| | `ReadyComes` | `Spec => [][ReadyComesNearer]_vars` |
| `SffPlatformProofs` | `ModuleAnswered` | `Spec => []ModuleIdAnswered` |
| | `HeldRegistered` | `PortsDiffer => (Spec => []HeldIsRegistered)` |
| `Ac400ModuleProofs` | `TypeCorrect` | `Spec => []TypeOK` |
| | `SuccessReached` | `Spec => SuccessIsReached` |
| | `Restores` | `Spec => SuccessRestores` |
| | `LowPower` | `Spec => ChangedInLowPower` |
| | `LaserOnRequest` | `Spec => LaserOnlyOnRequest` |
| `Ac400PresenceProofs` | `Orderly` | `Spec => []OrderlyEnd` |
| | `Watcher` | `Spec => []OneWatcher` |
| | `JoinEnds` | `Spec => []JoinGoesOn /\ [][JoinComesNearer]_vars` |
| | `NewsOnly` | `Spec => [][OnlyNews]_vars` |
| `Ac400RegistersProofs` | `ReadBack` | `Oversized = {} => (StatusSpec => []ListReadsBack)` |
| | `OthersAreKept` | `Oversized = {} => (StatusSpec => OthersKept)` |
| | `AnyNumber` | `StatusSpec => []TypeOK /\ [][OnlyAbove]_vars` |
| | `StatusTrue` | `StatusSpec => []StatusWasTrue` |

`AnySpec` is `MuxAdapters` with any table in the place of those in `Configs`:
`Spec` implements it (`SpecIsAny`), and so does `ConfigSpec` (`ConfigIsAny`), so
that the theorems about it hold of the instances of `mux_config` and of
`mux_adapters_restart`. Five theorems (`ParseEnds`, `RemoveEnds`, `ReadyComes`,
`CallsEnd`, `JoinEnds`) say of something that must come to an end what can be
said without fairness: every step of its own lowers a rank, nothing raises that
rank again and, but for `ReadyComes`, where the loop's guards show it at once,
it is never stuck.

### Assumptions and hypotheses

The `ASSUME`s fix the types of the constants: which are sets of numbers, which
value is in no set (`NoReal`, `Null`, `NoHandler`, ...), that a file of the
static adapter is a sequence of bytes and names libraries for locations. `BitOrAssumption` says of `|` that an
index below a shifted port keeps its low byte and is added if it is a byte. TLC
evaluates them in every run, `BitOrAssumption` with the bitwise operator. Some theorems have a
hypothesis about the environment:

- `Stable`: where the exec adapter may be used, its script names one library
  for a location, always the same, or none. Without it `ReuseLibrary` or
  `LoadLibrary` overwrites the entry of a location that led to another library,
  and that library is in no table that `set_log` or the destructor goes
  through (`exec_platform_adapter.cpp:94`). A multiplexer that uses the static
  adapter only satisfies it, and so does the checked instance, in which
  scripts fail at any time.
- `Oversized = {}`: numbers fit their field. `ac400_set_field_from_reg_list` does not mask
  (`PutField`), so one that does not fit changes the attributes above it, and
  the two theorems would be false. `StatusTrue` does not need it, and
  `AnyNumber` says what is left without it: only attributes above the one that
  is set, in the same register, change, and only by bits that are set.
- `FirstInProcess`: a constructor begins only where nothing has been opened in
  the process. It is the action property that a restart does not satisfy: that
  `ConfiguredIsUsed` fails without it is the run `mux_adapters_restart`.
- `[]KeysNumbered`: `LocationOf` numbers every key of the documents that are
  read. It is a matter of the model, which has numbers in the place of names;
  the checked instance satisfies it. `ParseEnds` does not need it.
- `PortsDiffer`: the host gives every location a port of its own. Ids are made
  of ports: of two locations with one port, the second one's module is refused
  its id when its state machine has taken it already, and `HeldRegistered` would
  be false. The checked instance has different ports (one that aliases another
  in a byte among them). `ModuleAnswered` does not need it.

### The arguments

*MuxPlatform.* The invariant is the conjunction of the checked invariants with
`UniqueIds` in the place of `ReverseRoundTrip`. None of them is inductive
alone. That a target is not dangling survives a remove only because no other id
stands for the removed real object (`UniqueIds`); `UniqueIds` survives a create
only because a mapped real object is live (`NoDanglingTarget`, `OidAccounting`
and `MappingAgrees`), so that a fresh real id is not mapped. With them, a create
or a remove leaves the real objects of all other ids alone (`RemoveKeepsReal`),
from which `ModuleKept` follows action by action (`InstantiateNames`,
`RemoveNames`). `RoundTrip` follows from `UniqueIds` and from a non-empty set of
naturals having a least element, which is also why `NextOid` is a free id. The
effects of create and remove on the tables are lemmas (`InstantiateEffect`,
`RemoveEffect`), from which both the invariance and the refinement follow. For
the refinement, the view of the callers gains, loses or keeps an entry as
`Register`, `Retire` or `Refuse` says, and a step that changes nothing stutters.

*MuxAttributes.* Every step is a step of `MuxPlatform` or leaves its tables
alone, which gives `SameTables`. What a get answers follows from the tables
(`ReverseIsOwn`: looking a real id up backwards finds the id of its object).
`SetIsRead` needs `Written`: an attribute that was set and not disturbed since
holds, in its library, the real ids its ids stand for; it survives a create and
a change through another id because no two ids stand for one real object.

*MuxNotify.* The checked invariants need each other and five more parts.
`CallUnderWay` follows a call through its list: what has been converted has a
context, and the attributes that the entries applied so far leave without a
handler (`LeftOff`: those whose last entry is null) are no longer held by the
library nor, if it drains, at work in a callback. `Cleanup` erases more than
those: all of `Cleared`. The difference, a context filled again after its null
entry, is what `refilled` records, so that what it frees is either in `refilled`
or used by nobody. `CallbackBacked` says that a callback works, where libraries
drain, for a key that is still in `m_notification_map`, or on such a context.
`ContextNamesKey` and `ObjectsUnshared` turn the id in a context into the object
that raised the notification. `ContextsLeft` is about the bound on contexts,
without which a call might stop half way. For `CallsEnd`, a mutex that is taken
is that of the callback (`MutexHeld`) and the callback waits for nobody, so that
who waits for it does not wait in a circle; the one thing a call may wait for in
vain is a callback that has strayed on a freed context.

*MuxAdapters.* `Maps` relates the two maps of a platform: a location leads to a
library that is known under its own address (`MapsAgree`), or to null for one of
two reasons (`NullsExplained`): the static adapter was asked for a location it
does not have, or a library is in the process for which the platform has no
adapter, and that stays so, as nothing is ever closed. `Phases` says that the
constructor has handled exactly the locations that are not in `todo`, so that
later on a null for a configured location has the second reason. With stable
scripts `Served` is inductive as well: every library in `m_lib_map` serves a
location (`AllServed`) and no lookup changes where a location leads (`Kept`), so
that the library of a live module is among those that `set_log` goes through
(`ModulesServed`), as the destructor does. `Configured` says of a table what
`Maps` says of the libraries: its locations lead to their own library, or to
null where that library was in the process and the platform has not loaded it,
which stays so; where nothing was in the process before, every library in it is
one that the platform has loaded (`NothingStale`). For `MuxConfig`, a step is a
step of `MuxAdapters` or leaves it alone (`ConfigStep`), and the table of a
document is one that a platform may start with (`DocumentTable`).

*The parser.* The lexer's recursive functions have to be shown to exist before
anything can be said of them: what `StringFrom` and `NumberFrom` say at a
position depends only on later positions (`StringLocal`, `NumberLocal`), so that
a function that is right from a position on can be made right one position
earlier; were there a text without such a function, there would be a greatest
position where it fails, and none does (`StringExists`, `NumberExists`). Then a
token ends after it begins, or is one of the two after which the parser stops
(`EndsAfter`). `ParserInv` keeps the position of the token and what is open; a
turn of the loop reads a token or completes a value with the one it has
(`Turn`), and `ParseRank` counts the bytes left twice, as a token may take two
turns.

*SffFsm.* A module may come or go between the moment a state's callback has
returned and the moment the loop takes the new state: `Transitions` says which
states may then be asked for (READY only with a module), `Calls` what a
`remove_module` that waits may rely on. For its end, `RemovalAsked`: the event
that asks for END is there until a callback has read it, and what that returned
until the loop has taken it.

*SffPlatform.* `Registered`: an id in the table is that of the module or the
interface under it, and the module of an interface is registered, too; no step
takes one away. With `Members` (a state machine's module is its location's) and
as long as every number fits, an id determines its object (`IdsTell`), so that a
create that finds its id taken finds its own object there, and one that finds
its slot taken finds the interface that has its id (`Held`). Objects never
leave, so that numbers that fit after a step did so before it.

*Ac400Module.* The invariant follows a call from step to step. `Writing` says
which of a list of signals are written, `Settled` that all are when the call
waits, so that the signals then want the status asked for (`WrittenIsWanted`,
from the table of signals). `LaneWay` and `ModuleWay` keep what a setter has to
restore, `Lowered` that the module is where the bracket has put it when the
register is written. For the transmitters, `Quiet`: while READY is not asked
for, both are disabled, or the module is held in reset, at every step of every
call, and no call has found READY as a state to go back to.

*Ac400Presence.* Flag and function table are shared without a lock. `Alone`:
without misuse the only thread that runs is the one the handle names, between
its creation and its join, and the table is wiped only after that.
For `JoinEnds` the rank of a thread counts the steps left of its round over the
modules. For `NewsOnly`, `Agreed`: what the host was told last and what the
thread believes to have told it are the same, but for the call under way.

*Ac400Registers, Ac400Status.* Two lemmas about words, `PutThenGet` and
`PutKeepsOthers`, and the disjointness of the fields (`FieldsDisjoint`), proved
from the tables, carry both theorems about lists; `ListInv` says what the part
of the list that is done has left. `StatusInv` says the same of the registers a
getter has read so far: a bit that has not moved is as it was read. For numbers
of any size, `PutAnyNumber`: as the field is cleared and the number shifted to
its place, the bits below the field stay and those above it are only set.

### Only model-checked

- Liveness under fairness: `CallsReturn`, `CreatedBecomesReady`, `RemoveReturns`,
  `PresenceLearned`. The prover does not reason about ENABLED. Of the first
  three, and of the join, the ranks are proved (`CallsEnd`, `ReadyComes`,
  `RemoveEnds`, `JoinEnds`); that the threads take those steps is fairness.
- That the parser accepts exactly what the grammar allows and makes of it what
  it denotes (`ParsesAsJson`, `TableAsWritten`): the reference is recursive over
  the text, by operators that the prover cannot expand. That the parser ends,
  and that what it accepts is used as a table, is proved.

## 5. Where code and documentation disagree

Each is a violated property of a run, with the code's line and the quoted
statement in `PROJECT.json` (`findings`): a list that sets a handler after
clearing it, whose context is freed, against "we'll clean the context after
disabling the callback"; null adapters after a restart against
"By using the configuration above, `libtai-a.so` is used"; INIT against "wait
eeprom get readable"; the refused value against "restores the state after such a
modification".

One more has no run of its own, as `ListReadsBack` states what the code does
(`ReadAs`): CLEAR_FEC_COUNTERS, "Clear FEC accumuluative counters"
(`voyager_tai_adapter.h:112`), is inverted by its setter
(`ac400_tai_networkif.c:1406`) and not by its getter, so that TRUE writes 0 to
the reset bit and reads back FALSE.

## 6. Not modelled, and limits

- Of `json.hpp` the program calls `parse`, the iterator, `key` and
  `get<std::string>`. Serialisation, binary formats, patches, pointers and its
  other entry points, most of the header, are never reached and not modelled.
  A number's value is not computed: only whether it overflows a double, by its
  lexeme (the edge near 1e308 itself is left out), as `get<std::string>`
  refuses every number.
- The empty path in a configuration names the program itself for `dlopen`; it
  is left out.
- Logging, formatting, decoding of eeprom bytes and floating-point conversions
  (output power, frequency) have no state that a property is about. The output
  power is truncated, so that some values read back one hundredth lower.
- Data races on C++ containers and streams are undefined behaviour; the models
  keep each container operation, and each seek and read, whole.
- Libraries that do not drain may deliver under the id of a later owner, and
  may use a freed context: `MuxNotify` models them, and no property promises
  anything about them. After a remove, `m_notification_map` keeps the earlier
  owner's handler. A library is taken to apply a list in its order, and to wait,
  if it drains, for the callbacks of what it has disabled before its next entry.
- A list that names a notification attribute twice, null first, leaves the
  library with a freed context. What callbacks on it do is not promised:
  `SubscriptionsBacked`, `NoUseAfterFree`, `DeliveredUnderOwnId` and
  `CallsReturn` say that these are the only ones that are not.
- What becomes of an interface when its module is removed under it: its id of a
  module is gone or, once reused, another's, and `get_module_id` answers it.
- An id of another library in an attribute is sent under its real id and comes
  back as another id or not at all; `ReadsBack` excludes it.
- `MuxAdapters`: a lookup of a location the static table does not have inserts a
  null adapter, which `NoNullAdapterCalled` names as a cause. A script that
  names another library for a location drops the earlier one from the list of
  loaded ones, so that log settings and the destructor miss it; the promises
  are checked and proved for scripts that do not.
- A number wider than its AC400 field changes its neighbours (`Oversized` in
  `Ac400Registers` lets one in); the checked instance has numbers that fit, and
  the theorems that need it say so. What such a number may change is `AnyNumber`.
- AC400 object slots: `create` and `remove` set one entry of `netif_info`,
  `hostif_info` or `module_init`; only the operational status reads the last of
  them (through an id taken for a pointer), nothing reads the others' flags, and
  no two ids share an entry. There is no behaviour to check.
- AC400: one thread calls the library. The presence thread reads one signal
  file under a mutex, with a file name buffer of its own, and shares no
  register access. The read-only numbers (temperature, voltage, powers) keep no
  state; the error counters are two registers read one after the other, which
  the hardware may change between the two.
- `PresenceLearned` is not promised after a double initialise: the thread that
  was left over can report late what it saw, and exit.

## 7. What is left

- A proof that the parser is correct: that the document on its stack, at every
  turn, is what the bytes read so far denote. It needs the grammar in a form
  that is not recursive.
- Fairness: the four liveness properties from the ranks that are proved.
- The decoding of numbers and of eeprom bytes, if a property is to be about them.
