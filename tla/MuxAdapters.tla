----------------------------- MODULE MuxAdapters -----------------------------
(***************************************************************************)
(* Which real library a location leads to, and which libraries a log       *)
(* setting reaches (tai_mux static_platform_adapter, exec_platform_adapter,*)
(* module_adapter, Platform::set_log and the Module constructor), through  *)
(* any number of initialisations of the multiplexer in one process.        *)
(*                                                                         *)
(* The static adapter takes its table from a file; the exec adapter runs a *)
(* script on every lookup and loads the library it names.  A library is    *)
(* recognised by the address dlopen(RTLD_NOLOAD) answers.  Nothing closes  *)
(* that handle, so a library stays in the process for ever; one whose      *)
(* initialisation failed, or that an earlier platform had loaded, is       *)
(* "loaded" and yet has no adapter.                                        *)
(***************************************************************************)
EXTENDS Integers

CONSTANTS
  Kinds,            \* the platform adapters looked at: "static", "exec"
  Locations,        \* keys of the table, numbers: iterated in key order
  Libraries,
  Null,             \* a null S_ModuleAdapter, and a script that names no library
  NoLibrary,        \* a value in the configuration that names no library: no
                    \* string, or no file
  Configs,          \* static: what the file may hold, location -> library
  Answers,          \* exec: location -> what the script may answer for it
  Apis,             \* tai_api_t, numbers: m_log_setting iterates in key order
  Levels,
  Unset,            \* the level of a library nobody has set
  LoadMayFail,      \* a library may be missing, or one of the calls the
                    \* constructor of ModuleAdapter makes may fail
  MetaMayFail,      \* a library may have no meta api
  LogMayFail        \* a library's tai_log_set may fail

ASSUME AdaptersAssumption ==
  /\ Kinds \subseteq {"static", "exec"}
  /\ Null \notin Libraries /\ NoLibrary \notin Libraries
  /\ Apis \subseteq Nat /\ Locations \subseteq Nat
  /\ \A c \in Configs : /\ DOMAIN c \subseteq Locations
                        /\ \A l \in DOMAIN c : c[l] \in Libraries \cup {NoLibrary}

VARIABLES
  phase,        \* "off", "starting" (in the constructor), "failed" (it threw),
                \* "up", "crashed"
  kind,         \* TAI_MUX_PLATFORM_ADAPTER, read by the constructor; "none"
                \* without a platform
  config,       \* static: the table in the file the constructor read
  todo,         \* static: the locations of it that are still to be handled
  maMap,        \* m_ma_map: location -> adapter, null included
  libMap,       \* m_lib_map (exec) or map (static ctor): library -> adapter
  opened,       \* libraries mapped into the process
  running,      \* libraries initialised and not uninitialised since
  wild,         \* adapters whose m_meta_api was never assigned
  logSetting,   \* m_log_setting: api -> level
  libLog,       \* the level each library works with
  modules,      \* live modules: location and library
  failedLog     \* apis whose last set_log answered an error

startVars == <<kind, config, todo>>
libVars == <<libMap, opened, running, wild>>
logVars == <<logSetting, libLog, failedLog>>
vars == <<phase, startVars, maMap, libVars, logVars, modules>>

\* There is no platform, and none of its maps.
Gone ==
  /\ kind' = "none" /\ config' = <<>> /\ todo' = {}
  /\ maMap' = <<>> /\ libMap' = <<>> /\ wild' = {}
  /\ logSetting' = <<>> /\ failedLog' = {}

Put(f, k, v) == [x \in DOMAIN f \cup {k} |-> IF x = k THEN v ELSE f[x]]

Init ==
  /\ phase = "off"
  /\ kind = "none"
  /\ config = <<>> /\ todo = {}
  /\ maMap = <<>> /\ libMap = <<>>
  /\ opened = {} /\ running = {} /\ wild = {}
  /\ logSetting = <<>>
  /\ libLog = [lib \in Libraries |-> [api \in Apis |-> Unset]]
  /\ modules = {}
  /\ failedLog = {}

-----------------------------------------------------------------------------
(* The constructor of ModuleAdapter.                                       *)

\* Fault: the address is not asked again after the load, so that the adapter
\* is recorded under the null address.
FaultLoadForgetsAddress(lib) ==
  /\ opened' = opened \cup {lib}
  /\ running' = running \cup {lib}
  /\ libMap' = Put(libMap, Null, lib)
  /\ UNCHANGED wild

\* The library is loaded, initialised and asked for its tables; without a
\* meta api the pointer keeps what was in the memory.
LoadSucceeds(lib) ==
  /\ opened' = opened \cup {lib}
  /\ running' = running \cup {lib}
  /\ libMap' = Put(libMap, lib, lib)
  /\ \/ wild' = wild \ {lib}
     \/ MetaMayFail /\ wild' = wild \cup {lib}

\* It throws: there is no such library, a symbol is missing or initialise
\* fails, or a table is refused after initialise succeeded.  The handle is
\* not closed and the library not uninitialised.
LoadFails(lib) ==
  /\ LoadMayFail
  /\ \/ UNCHANGED <<opened, running>>
     \/ opened' = opened \cup {lib} /\ UNCHANGED running
     \/ opened' = opened \cup {lib} /\ running' = running \cup {lib}

\* operator[] of the map from addresses to adapters, for a library that is in
\* the process already.
Loaded(lib) == IF lib \in DOMAIN libMap THEN libMap[lib] ELSE Null

-----------------------------------------------------------------------------
(* The constructors of the platform adapters.                              *)

\* A new platform of kind k, with empty maps; the libraries are as the last
\* one left them.  The static one has read the table c.
StartWith(k, c) ==
  /\ phase \in {"off", "failed"}
  /\ kind' = k
  /\ config' = c
  /\ todo' = DOMAIN c
  /\ maMap' = <<>> /\ libMap' = <<>> /\ wild' = {}
  /\ logSetting' = <<>> /\ failedLog' = {}
  /\ phase' = IF DOMAIN c = {} THEN "up" ELSE "starting"
  /\ UNCHANGED <<opened, running, libLog, modules>>

\* Whichever kind the environment names now.  Without a file the table of the
\* static one is empty; the exec one lists its locations for the host only.
Start ==
  \E k \in Kinds : \E c \in IF k = "static" THEN Configs ELSE {<<>>} : StartWith(k, c)

\* The file is no JSON document; the script fails for "list"; the kind is
\* unknown.
StartRefused ==
  /\ phase \in {"off", "failed"}
  /\ phase' = "failed"
  /\ Gone
  /\ UNCHANGED <<opened, running, libLog, modules>>

NextLocation == CHOOSE l \in todo : \A x \in todo : l <= x

\* One entry of the table is handled.
Configure(l, lib) ==
  \/ lib \notin opened /\ LoadSucceeds(lib) /\ maMap' = Put(maMap, l, lib)
  \/ /\ lib \in opened
     /\ maMap' = Put(maMap, l, Loaded(lib))
     /\ libMap' = Put(libMap, lib, Loaded(lib))
     /\ UNCHANGED <<opened, running, wild>>

ConfigureLocation ==
  /\ phase = "starting"
  /\ config[NextLocation] # NoLibrary
  /\ Configure(NextLocation, config[NextLocation])
  /\ todo' = todo \ {NextLocation}
  /\ phase' = IF todo' = {} THEN "up" ELSE "starting"
  /\ UNCHANGED <<kind, config, logVars, modules>>

\* The value names no library, or its library cannot be loaded: the constructor
\* throws, its maps go, and the destructor is not run.
ConfigureThrows ==
  /\ phase = "starting"
  /\ \/ config[NextLocation] = NoLibrary /\ UNCHANGED <<opened, running>>
     \/ /\ config[NextLocation] \in Libraries \ opened
        /\ LoadFails(config[NextLocation])
  /\ phase' = "failed"
  /\ Gone
  /\ UNCHANGED <<libLog, modules>>

-----------------------------------------------------------------------------
(* get_module_adapter(location): `found' is the adapter it returns.        *)

\* Static: std::map::operator[], which inserts a null adapter for a location
\* that is not configured.
StaticLookup(l, found) ==
  /\ found = IF l \in DOMAIN maMap THEN maMap[l] ELSE Null
  /\ maMap' = Put(maMap, l, found)
  /\ UNCHANGED libVars

\* Fault: a failed script leaves a null adapter behind.
FaultScriptNamesNone(l, found) ==
  /\ Null \in Answers[l]
  /\ found = Null
  /\ maMap' = Put(maMap, l, Null)
  /\ UNCHANGED libVars

\* Exec: the script fails or prints nothing.
ScriptNamesNone(l, found) ==
  /\ Null \in Answers[l]
  /\ found = Null
  /\ UNCHANGED <<maMap, libVars>>

\* Exec: the library is not in the process yet and is loaded.
LoadLibrary(l, lib, found) ==
  /\ lib \in Answers[l] \ (opened \cup {Null})
  /\ \/ found = lib /\ LoadSucceeds(lib) /\ maMap' = Put(maMap, l, lib)
     \/ found = Null /\ LoadFails(lib) /\ UNCHANGED <<maMap, libMap, wild>>

\* Fault: the location is not recorded when its library is loaded already.
FaultReuseUnrecorded(l, lib, found) ==
  /\ lib \in Answers[l] \cap opened
  /\ found = Loaded(lib)
  /\ libMap' = Put(libMap, lib, found)
  /\ maMap' = [x \in DOMAIN maMap \ {l} |-> maMap[x]]
  /\ UNCHANGED <<opened, running, wild>>

\* Exec: the library is mapped: its adapter is taken from m_lib_map, with
\* operator[], and the location is recorded, an earlier library forgotten.
ReuseLibrary(l, lib, found) ==
  /\ lib \in Answers[l] \cap opened
  /\ found = Loaded(lib)
  /\ libMap' = Put(libMap, lib, found)
  /\ maMap' = Put(maMap, l, found)
  /\ UNCHANGED <<opened, running, wild>>

GetModuleAdapter(l, found) ==
  \/ kind = "static" /\ StaticLookup(l, found)
  \/ /\ kind = "exec"
     /\ \/ ScriptNamesNone(l, found)
        \/ \E lib \in Libraries : LoadLibrary(l, lib, found) \/ ReuseLibrary(l, lib, found)

\* list_module_adapters.
ListModuleAdapters == {maMap[l] : l \in DOMAIN maMap}

-----------------------------------------------------------------------------

\* The settings m_log_setting holds, in key order, up to some api.
SettingPrefixes ==
  {done \in SUBSET DOMAIN logSetting :
     \A x \in done, y \in DOMAIN logSetting : y < x => y \in done}

WithSettings(lib, done) ==
  [libLog EXCEPT ![lib] = [api \in Apis |-> IF api \in done THEN logSetting[api] ELSE @[api]]]

\* Fault: the settings made before the library was loaded are not applied.
FaultCreateModuleUnlogged(l) ==
  /\ phase = "up"
  /\ \E found \in Libraries \cup {Null} :
       /\ GetModuleAdapter(l, found)
       /\ modules' \in {modules, modules \cup {[location |-> l, library |-> found]}}
       /\ found = Null => modules' = modules
       /\ UNCHANGED libLog
  /\ UNCHANGED <<phase, startVars, logSetting, failedLog>>

\* create(MODULE): look up, apply the log settings, then the real create.
CreateModule(l) ==
  /\ phase = "up"
  /\ \E found \in Libraries \cup {Null} :
       /\ GetModuleAdapter(l, found)
       /\ \/ found = Null /\ UNCHANGED <<libLog, modules>>
          \/ /\ found # Null
             /\ \E done \in SettingPrefixes :
                  /\ ~LogMayFail => done = DOMAIN logSetting
                  /\ libLog' = WithSettings(found, done)
                  /\ \/ UNCHANGED modules
                     \/ /\ done = DOMAIN logSetting
                        /\ modules' = modules \cup {[location |-> l, library |-> found]}
  /\ UNCHANGED <<phase, startVars, logSetting, failedLog>>

\* list_metadata, get_attr_metadata and get_object_info with a location key;
\* without an adapter the framework's metadata are answered.
QueryMetadata(l) ==
  /\ phase = "up"
  /\ \E found \in Libraries \cup {Null} : GetModuleAdapter(l, found)
  /\ UNCHANGED <<phase, startVars, logVars, modules>>

\* Metadata of an adapter, as every get and set asks for too, through a
\* pointer that was never assigned: it may be null by luck.
UseWildPointer ==
  /\ phase = "up"
  /\ ListModuleAdapters \cap wild # {}
  /\ phase' = "crashed"
  /\ UNCHANGED <<startVars, maMap, libVars, logVars, modules>>

RemoveModule(m) ==
  /\ phase = "up"
  /\ m \in modules
  /\ modules' = modules \ {m}
  /\ UNCHANGED <<phase, startVars, maMap, libVars, logVars>>

WithLevel(libs, api, level) ==
  [lib \in Libraries |->
     IF lib \in libs THEN [libLog[lib] EXCEPT ![api] = level] ELSE libLog[lib]]

\* set_log, stopped by the first library that refuses.  The order of the
\* unordered_set is anyone's.
SetLogFails(api, level) ==
  /\ phase = "up"
  /\ LogMayFail
  /\ \E failing \in ListModuleAdapters \ {Null} :
       \E done \in SUBSET (ListModuleAdapters \ {failing, Null}) :
         libLog' = WithLevel(done, api, level)
  /\ failedLog' = failedLog \cup {api}
  /\ UNCHANGED <<phase, startVars, maMap, libVars, logSetting, modules>>

\* set_log, accepted everywhere.
SetLog(api, level) ==
  /\ phase = "up"
  /\ Null \notin ListModuleAdapters
  /\ libLog' = WithLevel(ListModuleAdapters, api, level)
  /\ logSetting' = Put(logSetting, api, level)
  /\ failedLog' = failedLog \ {api}
  /\ UNCHANGED <<phase, startVars, maMap, libVars, modules>>

\* set_log comes to a null adapter and calls through it.
SetLogCrashes(api, level) ==
  /\ phase = "up"
  /\ Null \in ListModuleAdapters
  /\ \E done \in SUBSET (ListModuleAdapters \ {Null}) :
       libLog' = WithLevel(done, api, level)
  /\ phase' = "crashed"
  /\ UNCHANGED <<startVars, maMap, libVars, logSetting, modules, failedLog>>

\* The destructor calls tai_api_uninitialize for every location; the handles
\* dl_address has opened keep the libraries in the process.
Destroy ==
  /\ phase = "up"
  /\ modules = {}
  /\ Null \notin ListModuleAdapters
  /\ running' = running \ ListModuleAdapters
  /\ phase' = "off"
  /\ Gone
  /\ UNCHANGED <<opened, libLog, modules>>

\* The destructor comes to a null adapter.
DestroyCrashes ==
  /\ phase = "up"
  /\ modules = {}
  /\ Null \in ListModuleAdapters
  /\ phase' = "crashed"
  /\ UNCHANGED <<startVars, maMap, libVars, logVars, modules>>

Next ==
  \/ Start \/ StartRefused \/ ConfigureLocation \/ ConfigureThrows
  \/ \E l \in Locations : CreateModule(l) \/ QueryMetadata(l)
  \/ UseWildPointer
  \/ \E m \in modules : RemoveModule(m)
  \/ \E api \in Apis, level \in Levels :
       SetLog(api, level) \/ SetLogFails(api, level) \/ SetLogCrashes(api, level)
  \/ Destroy \/ DestroyCrashes

Spec == Init /\ [][Next]_vars

-----------------------------------------------------------------------------
(* Properties.                                                             *)

\* The adapters this platform has loaded and initialised.
LoadedAdapters == {libMap[lib] : lib \in DOMAIN libMap} \ {Null}

\* Types.
TypeOK ==
  /\ phase \in {"off", "starting", "failed", "up", "crashed"}
  /\ kind \in {"none", "static", "exec"}
  /\ todo \subseteq DOMAIN config /\ DOMAIN config \subseteq Locations
  /\ DOMAIN maMap \subseteq Locations
  /\ \A l \in DOMAIN maMap : maMap[l] \in Libraries \cup {Null}
  /\ DOMAIN libMap \subseteq opened /\ opened \subseteq Libraries
  /\ \A lib \in DOMAIN libMap : libMap[lib] \in {lib, Null}
  /\ running \subseteq opened /\ wild \subseteq opened
  /\ DOMAIN logSetting \subseteq Apis
  /\ libLog \in [Libraries -> [Apis -> Levels \cup {Unset}]]
  /\ modules \subseteq [location : Locations, library : Libraries]

\* "By using the configuration above, libtai-a.so is used for modules whose
\* location is 1,2,3,4" (README.md): once the multiplexer is initialised, a
\* configured location leads to the library of the configuration.
ConfiguredIsUsed ==
  phase = "up" => \A l \in DOMAIN config : maMap[l] = config[l]

\* A log setting that was accepted governs every library that serves a
\* module, whether the library was loaded before the setting or after it,
\* whatever lookups and failed creates came between, and whatever an earlier
\* platform had set.
SettingsReachModules ==
  phase = "up" =>
    \A m \in modules : \A api \in DOMAIN logSetting \ failedLog :
      libLog[m.library][api] = logSetting[api]

\* The multiplexer calls through a pointer that leads nowhere only when a
\* location outside the static table was asked for, when a library is in the
\* process that this platform has not initialised (an initialisation failed,
\* or an earlier platform had loaded it), or when a library has no meta api:
\* failing scripts, creates and log settings never lead there.
NoNullAdapterCalled ==
  phase = "crashed" =>
    \/ kind = "static" /\ \E l \in DOMAIN maMap : l \notin DOMAIN config
    \/ opened # LoadedAdapters
    \/ wild # {}

\* The destructor leaves no library running that this platform has loaded,
\* however many locations share it.
AllUninitialized ==
  [][phase = "up" /\ phase' = "off" => LoadedAdapters \cap running' = {}]_vars
=============================================================================
