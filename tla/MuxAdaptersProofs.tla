--------------------------- MODULE MuxAdaptersProofs ---------------------------
(***************************************************************************)
(* Proofs about MuxAdapters and MuxConfig, for any locations, libraries,   *)
(* tables, files and scripts, whatever loading, scripts and log settings   *)
(* fail.  The maps of a platform agree with each other (Maps): a location  *)
(* leads to a library that the platform has loaded, or to null for one of  *)
(* two reasons.  With scripts that name one library for a location, always *)
(* the same, an adapter once found is never lost (Served), and log         *)
(* settings reach it.  A file is read and parsed without changing any of   *)
(* this (ConfigStep), and the parser ends on every text (ParserInv).       *)
(***************************************************************************)
EXTENDS MuxConfig, WellFoundedInduction, TLAPS

\* Where the exec adapter may be used, the script answers one library for a
\* location, always the same, or none.
Stable ==
  "exec" \in Kinds => \A l \in Locations : \A x, y \in Answers[l] \ {Null} : x = y

\* What the file may hold.
TableOK(c) ==
  /\ DOMAIN c \subseteq Locations
  /\ \A l \in DOMAIN c : c[l] \in Libraries \cup {NoLibrary}

\* A platform starts with any table, not only those of Configs.
AnyStart ==
  \E k \in Kinds : \E c : /\ TableOK(c) /\ (k = "exec" => DOMAIN c = {})
                         /\ StartWith(k, c)

AnyNext == AnyStart \/ Next

AnySpec == Init /\ [][AnyNext]_vars

MapsTyped ==
  /\ DOMAIN maMap \subseteq Locations
  /\ \A l \in DOMAIN maMap : maMap[l] \in Libraries \cup {Null}
  /\ DOMAIN libMap \subseteq opened /\ opened \subseteq Libraries
  /\ \A lib \in DOMAIN libMap : libMap[lib] \in {lib, Null}
  /\ running \subseteq opened /\ wild \subseteq opened

\* Where a location leads, the platform knows the library under its address.
MapsAgree ==
  \A l \in DOMAIN maMap :
    maMap[l] # Null => maMap[l] \in DOMAIN libMap /\ libMap[maMap[l]] = maMap[l]

\* A library that is in the process and that this platform has no adapter for.
BadLibrary == \E lib \in opened : Loaded(lib) = Null

NullsExplained ==
  \A l \in DOMAIN maMap :
    maMap[l] = Null => (kind = "static" /\ l \notin DOMAIN config) \/ BadLibrary

Maps == MapsTyped /\ MapsAgree /\ NullsExplained

\* The constructor goes through the table, and then there are modules.
Phases ==
  /\ phase \in {"off", "starting", "failed", "up", "crashed"}
  /\ kind \in {"none", "static", "exec"}
  /\ TableOK(config) /\ todo \subseteq DOMAIN config
  /\ phase = "starting" => todo # {} /\ kind = "static" /\ DOMAIN maMap = DOMAIN config \ todo
  /\ phase = "up" => DOMAIN config \subseteq DOMAIN maMap
  /\ phase \in {"off", "failed", "starting"} => modules = {}

Logs ==
  /\ DOMAIN logSetting \subseteq Apis
  /\ \A api \in DOMAIN logSetting : logSetting[api] \in Levels
  /\ libLog \in [Libraries -> [Apis -> Levels \cup {Unset}]]
  /\ modules \subseteq [location : Locations, library : Libraries]

IInv == Phases /\ Maps /\ Logs /\ NoNullAdapterCalled

-----------------------------------------------------------------------------
(* The maps.                                                               *)

\* A library the platform has no adapter for shows in its maps.
LEMMA BadShows ==
  ASSUME MapsTyped, BadLibrary
  PROVE  opened # LoadedAdapters
<1>1. PICK lib \in opened : Loaded(lib) = Null
  BY DEF BadLibrary
<1>2. lib # Null
  BY <1>1, AdaptersAssumption DEF MapsTyped
<1>3. ASSUME lib \in LoadedAdapters
      PROVE  FALSE
  <2>1. PICK x \in DOMAIN libMap : libMap[x] = lib
    BY <1>3 DEF LoadedAdapters
  <2>2. x = lib
    BY <1>2, <2>1 DEF MapsTyped
  <2> QED
    BY <1>1, <1>2, <2>1, <2>2 DEF Loaded
<1> QED
  BY <1>1, <1>3

\* A library is loaded for a location.
LEMMA MapsLoad ==
  ASSUME Maps, NEW l \in Locations, NEW lib \in Libraries \ opened,
         LoadSucceeds(lib), maMap' = Put(maMap, l, lib), UNCHANGED <<kind, config>>
  PROVE  Maps'
<1> USE DEF Maps
<1>1. /\ opened' = opened \cup {lib} /\ running' = running \cup {lib}
      /\ wild' \subseteq wild \cup {lib}
      /\ DOMAIN libMap' = DOMAIN libMap \cup {lib} /\ libMap'[lib] = lib
      /\ \A x \in DOMAIN libMap : x # lib => libMap'[x] = libMap[x]
  BY DEF LoadSucceeds, Put
<1>2. /\ DOMAIN maMap' = DOMAIN maMap \cup {l} /\ maMap'[l] = lib
      /\ \A x \in DOMAIN maMap : x # l => maMap'[x] = maMap[x]
  BY DEF Put
<1>3. lib \notin DOMAIN libMap /\ lib # Null
  BY AdaptersAssumption DEF MapsTyped
<1>4. MapsTyped'
  <2>1. DOMAIN maMap' \subseteq Locations /\ \A x \in DOMAIN maMap' : maMap'[x] \in Libraries \cup {Null}
    BY <1>2 DEF MapsTyped
  <2>2. DOMAIN libMap' \subseteq opened' /\ \A x \in DOMAIN libMap' : libMap'[x] \in {x, Null}
    BY <1>1 DEF MapsTyped
  <2>3. opened' \subseteq Libraries /\ running' \subseteq opened' /\ wild' \subseteq opened'
    BY <1>1 DEF MapsTyped
  <2> QED
    BY <2>1, <2>2, <2>3 DEF MapsTyped
<1>5. MapsAgree'
  BY <1>1, <1>2, <1>3 DEF MapsAgree
<1>6. BadLibrary => BadLibrary'
  <2> SUFFICES ASSUME NEW x \in opened, Loaded(x) = Null PROVE Loaded(x)' = Null
    BY <1>1 DEF BadLibrary
  <2> QED
    BY <1>1 DEF Loaded
<1>7. NullsExplained'
  BY <1>2, <1>3, <1>6 DEF NullsExplained
<1> QED
  BY <1>4, <1>5, <1>7

\* A library that is in the process already is recorded, as the platform
\* knows it, or as null.
LEMMA MapsReuse ==
  ASSUME Maps, NEW l \in Locations, NEW lib \in opened,
         maMap' = Put(maMap, l, Loaded(lib)), libMap' = Put(libMap, lib, Loaded(lib)),
         UNCHANGED <<kind, config, opened, running, wild>>
  PROVE  Maps'
<1> USE DEF Maps
<1>1. PICK found : found = Loaded(lib)
  OBVIOUS
<1>2. /\ found \in {lib, Null}
      /\ lib \in DOMAIN libMap => libMap[lib] = found
      /\ lib \notin DOMAIN libMap => found = Null
  BY <1>1 DEF Loaded, MapsTyped
<1>3. /\ DOMAIN libMap' = DOMAIN libMap \cup {lib} /\ libMap'[lib] = found
      /\ \A x \in DOMAIN libMap : libMap'[x] = libMap[x]
  BY <1>1, <1>2 DEF Put
<1>4. /\ DOMAIN maMap' = DOMAIN maMap \cup {l} /\ maMap'[l] = found
      /\ \A x \in DOMAIN maMap : x # l => maMap'[x] = maMap[x]
  BY <1>1 DEF Put
<1>5. MapsTyped'
  BY <1>2, <1>3, <1>4 DEF MapsTyped
<1>6. MapsAgree'
  BY <1>2, <1>3, <1>4 DEF MapsAgree
<1>7. \A x : Loaded(x)' = Loaded(x)
  BY <1>2, <1>3 DEF Loaded
<1>8. NullsExplained'
  BY <1>1, <1>4, <1>7 DEF NullsExplained, BadLibrary
<1> QED
  BY <1>5, <1>6, <1>8

\* The static adapter inserts null for a location that it has not configured.
LEMMA MapsStatic ==
  ASSUME Maps, NEW l \in Locations, kind = "static",
         l \in DOMAIN config => l \in DOMAIN maMap,
         maMap' = Put(maMap, l, IF l \in DOMAIN maMap THEN maMap[l] ELSE Null),
         UNCHANGED <<kind, config, libVars>>
  PROVE  Maps'
<1> USE DEF Maps
<1>1. /\ DOMAIN maMap' = DOMAIN maMap \cup {l}
      /\ \A x \in DOMAIN maMap : maMap'[x] = maMap[x]
      /\ l \notin DOMAIN maMap => maMap'[l] = Null
  BY DEF Put
<1>2. UNCHANGED <<libMap, opened, running, wild>>
  BY DEF libVars
<1>3. MapsTyped'
  BY <1>1, <1>2 DEF MapsTyped
<1>4. MapsAgree'
  BY <1>1, <1>2 DEF MapsAgree
<1>5. NullsExplained'
  BY <1>1, <1>2 DEF NullsExplained, BadLibrary, Loaded
<1> QED
  BY <1>3, <1>4, <1>5

\* A library that fails to load may stay in the process, running or not.
LEMMA MapsFail ==
  ASSUME Maps, opened \subseteq opened', opened' \subseteq Libraries,
         running' \subseteq opened',
         UNCHANGED <<kind, config, maMap, libMap, wild>>
  PROVE  Maps'
<1> USE DEF Maps
<1>1. MapsTyped' /\ MapsAgree'
  BY DEF MapsTyped, MapsAgree
<1>2. BadLibrary => BadLibrary'
  BY DEF BadLibrary, Loaded
<1>3. NullsExplained'
  BY <1>2 DEF NullsExplained
<1> QED
  BY <1>1, <1>3

\* However a load fails, what is running has been opened.
LEMMA LoadFailsFacts ==
  ASSUME MapsTyped, NEW lib \in Libraries, LoadFails(lib)
  PROVE  opened \subseteq opened' /\ opened' \subseteq Libraries /\ running' \subseteq opened'
  BY DEF LoadFails, MapsTyped

\* Every way in which a lookup of a running platform can end.
LEMMA MapsLookup ==
  ASSUME IInv, phase = "up", NEW l \in Locations, NEW found \in Libraries \cup {Null},
         GetModuleAdapter(l, found), UNCHANGED <<kind, config>>
  PROVE  Maps' /\ DOMAIN maMap \subseteq DOMAIN maMap'
<1> USE DEF IInv, Maps
<1>1. CASE kind = "static" /\ StaticLookup(l, found)
  <2>1. maMap' = Put(maMap, l, IF l \in DOMAIN maMap THEN maMap[l] ELSE Null) /\ UNCHANGED libVars
    BY <1>1 DEF StaticLookup
  <2> QED
    BY <1>1, <2>1, MapsStatic DEF Phases, Put
<1>2. CASE ScriptNamesNone(l, found)
  <2>1. UNCHANGED <<maMap, libMap, opened, running, wild>>
    BY <1>2 DEF ScriptNamesNone, libVars
  <2>2. opened \subseteq opened' /\ opened' \subseteq Libraries /\ running' \subseteq opened'
    BY <2>1 DEF MapsTyped
  <2> QED
    BY <2>1, <2>2, MapsFail
<1>3. ASSUME NEW lib \in Libraries, LoadLibrary(l, lib, found)
      PROVE  Maps' /\ DOMAIN maMap \subseteq DOMAIN maMap'
  <2>1. lib \in Libraries \ opened
    BY <1>3 DEF LoadLibrary
  <2>2. CASE LoadSucceeds(lib) /\ maMap' = Put(maMap, l, lib)
    BY <2>1, <2>2, MapsLoad DEF Put
  <2>3. CASE LoadFails(lib) /\ UNCHANGED <<maMap, libMap, wild>>
    BY <2>3, MapsFail, LoadFailsFacts
  <2> QED
    BY <1>3, <2>2, <2>3 DEF LoadLibrary
<1>4. ASSUME NEW lib \in Libraries, ReuseLibrary(l, lib, found)
      PROVE  Maps' /\ DOMAIN maMap \subseteq DOMAIN maMap'
  <2>1. /\ lib \in opened
        /\ maMap' = Put(maMap, l, Loaded(lib)) /\ libMap' = Put(libMap, lib, Loaded(lib))
        /\ UNCHANGED <<opened, running, wild>>
    BY <1>4 DEF ReuseLibrary
  <2> QED
    BY <2>1, MapsReuse DEF Put
<1> QED
  BY <1>1, <1>2, <1>3, <1>4 DEF GetModuleAdapter

-----------------------------------------------------------------------------
(* The steps.                                                              *)

\* A non-empty set of naturals has a least element.
LEMMA LeastNatural ==
  ASSUME NEW S, S \subseteq Nat, S # {}
  PROVE  \E i \in S : \A j \in S : i <= j
<1>1. PICK x \in S : \A y \in S : ~(<<y, x>> \in OpToRel(<, Nat))
  BY WFMin, NatLessThanWellFounded
<1>2. \A y \in S : ~(y < x)
  BY <1>1 DEF OpToRel
<1> QED
  BY <1>2

\* The entry of the table that the constructor comes to is one it still has
\* to handle.
LEMMA NextIsLeft ==
  ASSUME Phases, phase = "starting"
  PROVE  /\ NextLocation \in todo /\ NextLocation \in DOMAIN config
         /\ NextLocation \in Locations /\ NextLocation \notin DOMAIN maMap
         /\ config[NextLocation] \in Libraries \cup {NoLibrary}
<1>1. todo # {} /\ todo \subseteq DOMAIN config /\ todo \subseteq Locations
  BY DEF Phases, TableOK
<1>2. \E l \in todo : \A x \in todo : l <= x
  BY <1>1, LeastNatural, AdaptersAssumption
<1>3. NextLocation \in todo
  BY <1>2 DEF NextLocation
<1> QED
  BY <1>1, <1>3 DEF Phases, TableOK

\* Where there is no platform, its maps are in order.
LEMMA GoneFacts ==
  ASSUME IInv, Gone, phase' \in {"off", "failed"}, modules' = {}, libLog' = libLog,
         opened' \subseteq Libraries, running' \subseteq opened'
  PROVE  IInv'
<1>1. Phases'
  BY DEF Gone, Phases, TableOK
<1>2. Maps'
  BY DEF Gone, Maps, MapsTyped, MapsAgree, NullsExplained
<1>3. Logs'
  BY DEF Gone, Logs, IInv
<1> QED
  BY <1>1, <1>2, <1>3 DEF IInv, NoNullAdapterCalled

\* A platform starts, whatever its file holds.
LEMMA StartKeepsIInv ==
  ASSUME IInv, NEW k \in {"static", "exec"}, NEW c, TableOK(c),
         k = "exec" => DOMAIN c = {}, StartWith(k, c)
  PROVE  IInv'
<1> USE DEF IInv
<1>1. Phases'
  <2>1. /\ kind' = k /\ config' = c /\ todo' = DOMAIN c /\ maMap' = <<>>
        /\ phase' = IF DOMAIN c = {} THEN "up" ELSE "starting"
        /\ modules' = {}
    BY DEF StartWith, Phases
  <2>2. DOMAIN maMap' = {}
    BY <2>1
  <2> QED
    BY <2>1, <2>2 DEF Phases, TableOK
<1>2. Maps'
  BY DEF StartWith, Maps, MapsTyped, MapsAgree, NullsExplained
<1>3. Logs'
  BY DEF StartWith, Logs
<1> QED
  BY <1>1, <1>2, <1>3 DEF NoNullAdapterCalled, StartWith

\* The constructor of the static adapter handles one entry of the table.
LEMMA ConfigureKeepsIInv ==
  ASSUME IInv, ConfigureLocation
  PROVE  IInv'
<1> USE DEF IInv
<1>1. PICK l, lib : l = NextLocation /\ lib = config[NextLocation]
  OBVIOUS
<1>2. phase = "starting" /\ lib \in Libraries /\ l \in Locations /\ l \in todo
  BY <1>1, NextIsLeft DEF ConfigureLocation
<1>3. /\ Configure(l, lib) /\ todo' = todo \ {l}
      /\ phase' = IF todo' = {} THEN "up" ELSE "starting"
      /\ UNCHANGED <<kind, config, logSetting, libLog, failedLog, modules>>
  BY <1>1 DEF ConfigureLocation, logVars
<1>4. Maps' /\ DOMAIN maMap' = DOMAIN maMap \cup {l}
  <2>1. CASE lib \notin opened /\ LoadSucceeds(lib) /\ maMap' = Put(maMap, l, lib)
    BY <1>2, <1>3, <2>1, MapsLoad DEF Put
  <2>2. CASE /\ lib \in opened
             /\ maMap' = Put(maMap, l, Loaded(lib)) /\ libMap' = Put(libMap, lib, Loaded(lib))
             /\ UNCHANGED <<opened, running, wild>>
    BY <1>2, <1>3, <2>2, MapsReuse DEF Put
  <2> QED
    BY <1>3, <2>1, <2>2 DEF Configure
<1>5. Phases'
  BY <1>2, <1>3, <1>4 DEF Phases, TableOK
<1>6. Logs' /\ NoNullAdapterCalled'
  BY <1>3 DEF Logs, NoNullAdapterCalled
<1> QED
  BY <1>4, <1>5, <1>6

\* It throws at an entry, and leaves libraries in the process.
LEMMA ConfigureThrowsKeepsIInv ==
  ASSUME IInv, ConfigureThrows
  PROVE  IInv'
<1> USE DEF IInv
<1>1. opened' \subseteq Libraries /\ running' \subseteq opened'
  <2>1. CASE UNCHANGED <<opened, running>>
    BY <2>1 DEF Maps, MapsTyped
  <2>2. CASE config[NextLocation] \in Libraries /\ LoadFails(config[NextLocation])
    BY <2>2, LoadFailsFacts DEF Maps
  <2> QED
    BY <2>1, <2>2 DEF ConfigureThrows
<1>2. Gone /\ phase' = "failed" /\ modules' = {} /\ libLog' = libLog
  BY DEF ConfigureThrows, Phases
<1> QED
  BY <1>1, <1>2, GoneFacts

\* The settings are applied to a library that serves a new module.
LEMMA SettingsTyped ==
  ASSUME Logs, NEW lib \in Libraries, NEW done \in SUBSET DOMAIN logSetting
  PROVE  WithSettings(lib, done) \in [Libraries -> [Apis -> Levels \cup {Unset}]]
  BY DEF WithSettings, Logs

\* create of a module.
LEMMA CreateKeepsIInv ==
  ASSUME IInv, NEW l \in Locations, CreateModule(l)
  PROVE  IInv'
<1> USE DEF IInv
<1>1. /\ phase = "up"
      /\ UNCHANGED <<phase, kind, config, todo, logSetting, failedLog>>
  BY DEF CreateModule, startVars
<1>2. PICK found \in Libraries \cup {Null} :
        /\ GetModuleAdapter(l, found)
        /\ \/ found = Null /\ UNCHANGED <<libLog, modules>>
           \/ /\ found # Null
              /\ \E done \in SettingPrefixes :
                   /\ libLog' = WithSettings(found, done)
                   /\ \/ UNCHANGED modules
                      \/ modules' = modules \cup {[location |-> l, library |-> found]}
  BY DEF CreateModule
<1>3. Maps' /\ DOMAIN maMap \subseteq DOMAIN maMap'
  BY <1>1, <1>2, MapsLookup
<1>4. Logs'
  <2>1. CASE UNCHANGED <<libLog, modules>>
    BY <1>1, <2>1 DEF Logs
  <2>2. CASE found # Null
    <3>1. PICK done \in SettingPrefixes :
            /\ libLog' = WithSettings(found, done)
            /\ \/ UNCHANGED modules
               \/ modules' = modules \cup {[location |-> l, library |-> found]}
      BY <1>2, <2>2
    <3>2. done \in SUBSET DOMAIN logSetting /\ found \in Libraries
      BY <2>2 DEF SettingPrefixes
    <3>3. libLog' \in [Libraries -> [Apis -> Levels \cup {Unset}]]
      BY <3>1, <3>2, SettingsTyped
    <3> QED
      BY <1>1, <3>1, <3>2, <3>3 DEF Logs
  <2> QED
    BY <1>2, <2>1, <2>2
<1>5. Phases'
  BY <1>1, <1>3 DEF Phases, TableOK
<1> QED
  BY <1>1, <1>3, <1>4, <1>5 DEF NoNullAdapterCalled

\* A query of metadata.
LEMMA QueryKeepsIInv ==
  ASSUME IInv, NEW l \in Locations, QueryMetadata(l)
  PROVE  IInv'
<1> USE DEF IInv
<1>1. /\ phase = "up"
      /\ UNCHANGED <<phase, kind, config, todo, logSetting, libLog, failedLog, modules>>
  BY DEF QueryMetadata, startVars, logVars
<1>2. Maps' /\ DOMAIN maMap \subseteq DOMAIN maMap'
  BY <1>1, MapsLookup DEF QueryMetadata
<1> QED
  BY <1>1, <1>2 DEF Phases, TableOK, Logs, NoNullAdapterCalled

\* A level is set in some libraries.
LEMMA LevelTyped ==
  ASSUME Logs, NEW libs, NEW api \in Apis, NEW level \in Levels
  PROVE  WithLevel(libs, api, level) \in [Libraries -> [Apis -> Levels \cup {Unset}]]
  BY DEF WithLevel, Logs

\* A null adapter among those of the platform has one of the two reasons.
LEMMA NullReason ==
  ASSUME Maps, Null \in ListModuleAdapters
  PROVE  \/ kind = "static" /\ \E l \in DOMAIN maMap : l \notin DOMAIN config
         \/ opened # LoadedAdapters
<1>1. PICK l \in DOMAIN maMap : maMap[l] = Null
  BY DEF ListModuleAdapters
<1> QED
  BY <1>1, BadShows DEF Maps, NullsExplained

\* set_log, accepted, refused, or come to a null adapter.
LEMMA LogKeepsIInv ==
  ASSUME IInv, NEW api \in Apis, NEW level \in Levels,
         SetLog(api, level) \/ SetLogFails(api, level) \/ SetLogCrashes(api, level)
  PROVE  IInv'
<1> USE DEF IInv
<1>1. /\ phase = "up" /\ phase' \in {"up", "crashed"}
      /\ UNCHANGED <<kind, config, todo, maMap, libMap, opened, running, wild, modules>>
  BY DEF SetLog, SetLogFails, SetLogCrashes, startVars, libVars
<1>2. Maps'
  BY <1>1 DEF Maps, MapsTyped, MapsAgree, NullsExplained, BadLibrary, Loaded
<1>3. Phases'
  BY <1>1 DEF Phases, TableOK
<1>4. libLog' \in [Libraries -> [Apis -> Levels \cup {Unset}]]
  <2>1. CASE SetLog(api, level)
    BY <2>1, LevelTyped DEF SetLog
  <2>2. CASE SetLogFails(api, level)
    <3>1. PICK failing \in ListModuleAdapters \ {Null} :
            \E done \in SUBSET (ListModuleAdapters \ {failing, Null}) :
              libLog' = WithLevel(done, api, level)
      BY <2>2 DEF SetLogFails
    <3> QED
      BY <3>1, LevelTyped
  <2>3. CASE SetLogCrashes(api, level)
    <3>1. PICK done \in SUBSET (ListModuleAdapters \ {Null}) :
            libLog' = WithLevel(done, api, level)
      BY <2>3 DEF SetLogCrashes
    <3> QED
      BY <3>1, LevelTyped
  <2> QED
    BY <2>1, <2>2, <2>3
<1>5. logSetting' = logSetting \/ logSetting' = Put(logSetting, api, level)
  BY DEF SetLog, SetLogFails, SetLogCrashes
<1>6. Logs'
  BY <1>1, <1>4, <1>5 DEF Logs, Put
<1>7. phase' = "crashed" => Null \in ListModuleAdapters
  BY DEF SetLog, SetLogFails, SetLogCrashes
<1>8. NoNullAdapterCalled'
  BY <1>1, <1>7, NullReason DEF NoNullAdapterCalled, LoadedAdapters
<1> QED
  BY <1>2, <1>3, <1>6, <1>8

\* The process ends at an adapter that leads nowhere.
LEMMA CrashKeepsIInv ==
  ASSUME IInv, UseWildPointer \/ DestroyCrashes
  PROVE  IInv'
<1> USE DEF IInv
<1>1. /\ phase = "up" /\ phase' = "crashed"
      /\ UNCHANGED <<kind, config, todo, maMap, libMap, opened, running, wild,
                     logSetting, libLog, failedLog, modules>>
  BY DEF UseWildPointer, DestroyCrashes, startVars, libVars, logVars
<1>2. Maps'
  BY <1>1 DEF Maps, MapsTyped, MapsAgree, NullsExplained, BadLibrary, Loaded
<1>3. Phases' /\ Logs'
  BY <1>1 DEF Phases, TableOK, Logs
<1>4. wild # {} \/ Null \in ListModuleAdapters
  BY DEF UseWildPointer, DestroyCrashes
<1>5. NoNullAdapterCalled'
  BY <1>1, <1>4, NullReason DEF NoNullAdapterCalled, LoadedAdapters
<1> QED
  BY <1>2, <1>3, <1>5

\* Nothing is known at first.
LEMMA InitIInv ==
  ASSUME Init
  PROVE  IInv
<1>1. Phases
  BY DEF Init, Phases, TableOK
<1>2. Maps
  BY DEF Init, Maps, MapsTyped, MapsAgree, NullsExplained
<1>3. Logs
  BY DEF Init, Logs
<1> QED
  BY <1>1, <1>2, <1>3 DEF Init, IInv, NoNullAdapterCalled

\* The tables of Configs are tables.
LEMMA StartIsAny == Start => AnyStart
<1> SUFFICES ASSUME Start PROVE AnyStart
  OBVIOUS
<1>1. PICK k \in Kinds : \E c \in IF k = "static" THEN Configs ELSE {<<>>} : StartWith(k, c)
  BY DEF Start
<1>2. PICK c \in IF k = "static" THEN Configs ELSE {<<>>} : StartWith(k, c)
  BY <1>1
<1>3. TableOK(c) /\ (k = "exec" => DOMAIN c = {})
  <2>1. CASE k = "static"
    BY <2>1, AdaptersAssumption DEF TableOK
  <2>2. CASE k # "static"
    <3>1. DOMAIN c = {}
      BY <2>2
    <3> QED
      BY <3>1 DEF TableOK
  <2> QED
    BY <2>1, <2>2
<1> QED
  BY <1>2, <1>3 DEF AnyStart

\* Every step keeps the invariant.
LEMMA NextIInv ==
  ASSUME IInv, [AnyNext]_vars
  PROVE  IInv'
<1>1. CASE AnyStart
  <2>1. PICK k \in Kinds : \E c : /\ TableOK(c) /\ (k = "exec" => DOMAIN c = {})
                                /\ StartWith(k, c)
    BY <1>1 DEF AnyStart
  <2>2. k \in {"static", "exec"}
    BY AdaptersAssumption
  <2> QED
    BY <2>1, <2>2, StartKeepsIInv
<1>2. CASE StartRefused
  <2>1. /\ Gone /\ phase' = "failed" /\ modules' = {} /\ libLog' = libLog
        /\ opened' = opened /\ running' = running
    BY <1>2 DEF StartRefused, IInv, Phases
  <2> QED
    BY <2>1, GoneFacts DEF IInv, Maps, MapsTyped
<1>3. CASE Destroy
  <2>1. /\ Gone /\ phase' = "off" /\ modules' = {} /\ libLog' = libLog
        /\ opened' = opened /\ running' \subseteq running
    BY <1>3 DEF Destroy
  <2> QED
    BY <2>1, GoneFacts DEF IInv, Maps, MapsTyped
<1>4. ASSUME NEW m \in modules, RemoveModule(m)
      PROVE  IInv'
  <2>1. /\ modules' \subseteq modules /\ phase = "up"
        /\ UNCHANGED <<phase, kind, config, todo, maMap, libMap, opened, running, wild,
                       logSetting, libLog, failedLog>>
    BY <1>4 DEF RemoveModule, startVars, libVars, logVars
  <2>2. Phases' /\ Logs'
    BY <2>1 DEF IInv, Phases, TableOK, Logs
  <2>3. Maps'
    BY <2>1 DEF IInv, Maps, MapsTyped, MapsAgree, NullsExplained, BadLibrary, Loaded
  <2> QED
    BY <2>1, <2>2, <2>3 DEF IInv, NoNullAdapterCalled
<1>5. CASE UNCHANGED vars
  <2>1. UNCHANGED <<phase, kind, config, todo, maMap, libMap, opened, running, wild,
                    logSetting, libLog, failedLog, modules>>
    BY <1>5 DEF vars, startVars, libVars, logVars
  <2>2. Phases' /\ Logs'
    BY <2>1 DEF IInv, Phases, TableOK, Logs
  <2>3. Maps'
    BY <2>1 DEF IInv, Maps, MapsTyped, MapsAgree, NullsExplained, BadLibrary, Loaded
  <2> QED
    BY <2>1, <2>2, <2>3 DEF IInv, NoNullAdapterCalled, LoadedAdapters
<1> QED
  BY <1>1, <1>2, <1>3, <1>4, <1>5, ConfigureKeepsIInv, ConfigureThrowsKeepsIInv,
     CreateKeepsIInv, QueryKeepsIInv, LogKeepsIInv, CrashKeepsIInv, StartIsAny
     DEF AnyNext, Next

-----------------------------------------------------------------------------
(* The theorems that hold whatever fails and whatever the scripts answer.  *)

\* The tables of Configs are among all tables.
LEMMA SpecIsAny == Spec => AnySpec
<1>1. [Next]_vars => [AnyNext]_vars
  BY DEF AnyNext
<1> QED
  BY <1>1, PTL DEF Spec, AnySpec

\* Every state of the multiplexer satisfies the inductive invariant, whatever
\* tables it is given.
THEOREM Invariance == AnySpec => []IInv
<1>1. Init => IInv
  BY InitIInv
<1>2. IInv /\ [AnyNext]_vars => IInv'
  BY NextIInv
<1> QED
  BY <1>1, <1>2, PTL DEF AnySpec

\* Type correctness: whatever fails, the maps of the adapters hold libraries
\* that are in the process, under their own address.
THEOREM TypeCorrect == AnySpec => []TypeOK
<1>1. IInv => TypeOK
  BY DEF IInv, Phases, TableOK, Maps, MapsTyped, Logs, TypeOK
<1> QED
  BY <1>1, Invariance, PTL

\* The multiplexer calls through a pointer that leads nowhere only when a
\* location outside the static table was asked for, a library is in the
\* process that this platform has not initialised, or one has no meta api.
THEOREM NoNullCalled == AnySpec => []NoNullAdapterCalled
<1>1. IInv => NoNullAdapterCalled
  BY DEF IInv
<1> QED
  BY <1>1, Invariance, PTL

-----------------------------------------------------------------------------
(* Scripts that name one library for a location.                           *)

\* The exec adapter records what the script answers.
ExecAnswers ==
  kind = "exec" =>
    "exec" \in Kinds /\ \A l \in DOMAIN maMap : maMap[l] \in Answers[l] \cup {Null}

\* Every adapter that the platform has loaded serves a location: it is one of
\* those that log settings and the destructor go through.
AllServed ==
  \A lib \in DOMAIN libMap : libMap[lib] # Null => \E l \in DOMAIN maMap : maMap[l] = lib

\* The location of a live module still leads to the library that serves it.
ModulesServed ==
  phase = "up" =>
    \A m \in modules : m.location \in DOMAIN maMap /\ maMap[m.location] = m.library

Served == ExecAnswers /\ AllServed /\ ModulesServed /\ SettingsReachModules

\* A location that leads to an adapter leads to it after the step, too.
Kept ==
  \A l \in DOMAIN maMap : maMap[l] # Null => l \in DOMAIN maMap' /\ maMap'[l] = maMap[l]

\* A library is recorded for a location that leads to no other one.
LEMMA RecordedServes ==
  ASSUME MapsTyped, AllServed, NEW l, NEW lib \in Libraries, NEW found \in {lib, Null},
         maMap' = Put(maMap, l, found), libMap' = Put(libMap, lib, found),
         l \in DOMAIN maMap /\ maMap[l] # Null => maMap[l] = found
  PROVE  Kept /\ AllServed'
<1>1. /\ DOMAIN maMap' = DOMAIN maMap \cup {l} /\ maMap'[l] = found
      /\ \A x \in DOMAIN maMap : x # l => maMap'[x] = maMap[x]
  BY DEF Put
<1>2. /\ DOMAIN libMap' = DOMAIN libMap \cup {lib} /\ libMap'[lib] = found
      /\ \A x \in DOMAIN libMap : x # lib => libMap'[x] = libMap[x]
  BY DEF Put
<1>3. Kept
  BY <1>1 DEF Kept
<1>4. ASSUME NEW x \in DOMAIN libMap', libMap'[x] # Null
      PROVE  \E y \in DOMAIN maMap' : maMap'[y] = x
  <2>1. CASE x = lib
    BY <1>1, <1>2, <1>4, <2>1
  <2>2. CASE x # lib
    <3>1. x \in DOMAIN libMap /\ libMap[x] # Null /\ x # Null
      BY <1>2, <1>4, <2>2, AdaptersAssumption DEF MapsTyped
    <3>2. PICK y \in DOMAIN maMap : maMap[y] = x
      BY <3>1 DEF AllServed
    <3> QED
      BY <1>3, <3>1, <3>2 DEF Kept
  <2> QED
    BY <2>1, <2>2
<1> QED
  BY <1>3, <1>4 DEF AllServed

\* An answer of the script is the library that the location leads to already.
LEMMA SameAnswer ==
  ASSUME Stable, ExecAnswers, kind = "exec", NEW l \in Locations,
         NEW lib \in Answers[l] \ {Null}, l \in DOMAIN maMap, maMap[l] # Null
  PROVE  maMap[l] = lib
  BY DEF Stable, ExecAnswers

\* However a lookup ends, no location loses its adapter, and the one that is
\* found serves its location.
LEMMA LookupServes ==
  ASSUME Stable, IInv, Served, phase = "up",
         NEW l \in Locations, NEW found \in Libraries \cup {Null},
         GetModuleAdapter(l, found), UNCHANGED kind
  PROVE  /\ Kept /\ AllServed' /\ ExecAnswers'
         /\ found # Null => l \in DOMAIN maMap' /\ maMap'[l] = found
<1> USE DEF IInv, Maps, Served
<1>1. CASE kind = "static" /\ StaticLookup(l, found)
  <2>1. /\ found = IF l \in DOMAIN maMap THEN maMap[l] ELSE Null
        /\ maMap' = Put(maMap, l, found) /\ libMap' = libMap
    BY <1>1 DEF StaticLookup, libVars
  <2>2. /\ DOMAIN maMap' = DOMAIN maMap \cup {l} /\ maMap'[l] = found
        /\ \A x \in DOMAIN maMap : maMap'[x] = maMap[x]
    BY <2>1 DEF Put
  <2> QED
    BY <1>1, <2>1, <2>2 DEF Kept, AllServed, ExecAnswers
<1>2. CASE ScriptNamesNone(l, found)
  <2>1. found = Null /\ maMap' = maMap /\ libMap' = libMap
    BY <1>2 DEF ScriptNamesNone, libVars
  <2> QED
    BY <2>1 DEF Kept, AllServed, ExecAnswers
<1>3. ASSUME NEW lib \in Libraries, kind = "exec", LoadLibrary(l, lib, found)
      PROVE  /\ Kept /\ AllServed' /\ ExecAnswers'
             /\ found # Null => l \in DOMAIN maMap' /\ maMap'[l] = found
  <2>1. lib \in Answers[l] \ {Null} /\ lib \notin opened
    BY <1>3 DEF LoadLibrary
  <2>2. CASE found = lib /\ LoadSucceeds(lib) /\ maMap' = Put(maMap, l, lib)
    <3>1. l \in DOMAIN maMap => maMap[l] = Null
      BY <1>3, <2>1, SameAnswer DEF MapsAgree, MapsTyped
    <3>2. libMap' = Put(libMap, lib, lib)
      BY <2>2 DEF LoadSucceeds
    <3>3. Kept /\ AllServed'
      BY <2>2, <3>1, <3>2, RecordedServes
    <3> QED
      BY <1>3, <2>1, <2>2, <3>3 DEF ExecAnswers, Put
  <2>3. CASE found = Null /\ UNCHANGED <<maMap, libMap>>
    BY <2>3 DEF Kept, AllServed, ExecAnswers
  <2> QED
    BY <1>3, <2>2, <2>3 DEF LoadLibrary
<1>4. ASSUME NEW lib \in Libraries, kind = "exec", ReuseLibrary(l, lib, found)
      PROVE  /\ Kept /\ AllServed' /\ ExecAnswers'
             /\ found # Null => l \in DOMAIN maMap' /\ maMap'[l] = found
  <2>1. /\ lib \in Answers[l] \ {Null} /\ lib \in opened /\ found = Loaded(lib)
        /\ maMap' = Put(maMap, l, found) /\ libMap' = Put(libMap, lib, found)
    BY <1>4, AdaptersAssumption DEF ReuseLibrary
  <2>2. found \in {lib, Null}
    BY <2>1 DEF Loaded, MapsTyped
  <2>3. l \in DOMAIN maMap /\ maMap[l] # Null => maMap[l] = found
    BY <1>4, <2>1, SameAnswer DEF MapsAgree, Loaded
  <2>4. Kept /\ AllServed'
    BY <2>1, <2>2, <2>3, RecordedServes
  <2> QED
    BY <1>4, <2>1, <2>2, <2>4 DEF ExecAnswers, Put
<1> QED
  BY <1>1, <1>2, <1>3, <1>4 DEF GetModuleAdapter

\* Modules and settings that a step leaves alone stay as they are.
LEMMA KeptServes ==
  ASSUME Served, Logs, Kept, UNCHANGED <<phase, logSetting, libLog, failedLog>>,
         modules' \subseteq modules
  PROVE  ModulesServed' /\ SettingsReachModules'
<1>1. ModulesServed'
  <2>1. \A m \in modules : m.library # Null
    BY AdaptersAssumption DEF Logs
  <2> QED
    BY <2>1 DEF Served, ModulesServed, Kept
<1>2. SettingsReachModules'
  BY DEF Served, SettingsReachModules
<1> QED
  BY <1>1, <1>2

\* Without a platform, or with a new one, there is nothing to serve.
LEMMA NothingToServe ==
  ASSUME maMap' = <<>>, libMap' = <<>>, modules' = {}, kind' \in Kinds \cup {"none"}
  PROVE  Served'
<1>1. DOMAIN maMap' = {} /\ DOMAIN libMap' = {}
  OBVIOUS
<1> QED
  BY <1>1 DEF Served, ExecAnswers, AllServed, ModulesServed, SettingsReachModules

\* An entry of the static table is recorded where there was none.
LEMMA ConfigureServes ==
  ASSUME IInv, Served, ConfigureLocation
  PROVE  Served'
<1> USE DEF IInv
<1>1. PICK l, lib : l = NextLocation /\ lib = config[NextLocation]
  OBVIOUS
<1>2. /\ phase = "starting" /\ kind = "static" /\ modules = {}
      /\ lib \in Libraries /\ l \notin DOMAIN maMap
  BY <1>1, NextIsLeft DEF ConfigureLocation, Phases
<1>3. Configure(l, lib) /\ UNCHANGED <<kind, modules>>
  BY <1>1 DEF ConfigureLocation
<1>4. AllServed'
  <2>1. CASE LoadSucceeds(lib) /\ maMap' = Put(maMap, l, lib)
    BY <1>2, <2>1, RecordedServes DEF LoadSucceeds, Maps, Served
  <2>2. CASE /\ maMap' = Put(maMap, l, Loaded(lib)) /\ libMap' = Put(libMap, lib, Loaded(lib))
    <3>1. Loaded(lib) \in {lib, Null}
      BY DEF Loaded, Maps, MapsTyped
    <3> QED
      BY <1>2, <2>2, <3>1, RecordedServes DEF Maps, Served
  <2> QED
    BY <1>3, <2>1, <2>2 DEF Configure
<1> QED
  BY <1>2, <1>3, <1>4 DEF Served, ExecAnswers, ModulesServed, SettingsReachModules

\* create applies every accepted setting to the library of the new module,
\* and takes none away from the others.
LEMMA CreateServes ==
  ASSUME Stable, IInv, Served, NEW l \in Locations, CreateModule(l)
  PROVE  Served'
<1> USE DEF IInv
<1>1. phase = "up" /\ UNCHANGED <<phase, kind, config, logSetting, failedLog>>
  BY DEF CreateModule, startVars
<1>2. PICK found \in Libraries \cup {Null} :
        /\ GetModuleAdapter(l, found)
        /\ \/ found = Null /\ UNCHANGED <<libLog, modules>>
           \/ /\ found # Null
              /\ \E done \in SettingPrefixes :
                   /\ ~LogMayFail => done = DOMAIN logSetting
                   /\ libLog' = WithSettings(found, done)
                   /\ \/ UNCHANGED modules
                      \/ /\ done = DOMAIN logSetting
                         /\ modules' = modules \cup {[location |-> l, library |-> found]}
  BY DEF CreateModule
<1>3. /\ Kept /\ AllServed' /\ ExecAnswers'
      /\ found # Null => l \in DOMAIN maMap' /\ maMap'[l] = found
  BY <1>1, <1>2, LookupServes
<1>4. CASE UNCHANGED <<libLog, modules>>
  BY <1>1, <1>3, <1>4, KeptServes DEF Served
<1>5. CASE found # Null
  <2>1. PICK done \in SettingPrefixes :
          /\ libLog' = WithSettings(found, done)
          /\ \/ UNCHANGED modules
             \/ /\ done = DOMAIN logSetting
                /\ modules' = modules \cup {[location |-> l, library |-> found]}
    BY <1>2, <1>5
  <2>2. \A m \in modules : m.library \in Libraries
    BY DEF Logs
  <2>3. \A m \in modules' : m \notin modules =>
          m.location = l /\ m.library = found /\ done = DOMAIN logSetting
    BY <2>1
  <2>4. ModulesServed'
    <3>1. ASSUME NEW m \in modules'
          PROVE  m.location \in DOMAIN maMap' /\ maMap'[m.location] = m.library
      <4>1. CASE m \in modules
        BY <1>1, <1>3, <2>2, <4>1, AdaptersAssumption DEF Served, ModulesServed, Kept
      <4>2. CASE m \notin modules
        BY <1>3, <1>5, <2>3, <4>2
      <4> QED
        BY <4>1, <4>2
    <3> QED
      BY <3>1 DEF ModulesServed
  <2>5. /\ \A lib \in Libraries \ {found} : libLog'[lib] = libLog[lib]
        /\ \A api \in Apis :
             libLog'[found][api] = IF api \in done THEN logSetting[api] ELSE libLog[found][api]
    BY <1>5, <2>1 DEF WithSettings, Logs
  <2>6. SettingsReachModules'
    <3>1. ASSUME NEW m \in modules', NEW api \in DOMAIN logSetting \ failedLog
          PROVE  libLog'[m.library][api] = logSetting[api]
      <4>1. api \in Apis
        BY DEF Logs
      <4>2. CASE m \in modules
        <5>1. libLog[m.library][api] = logSetting[api]
          BY <1>1, <4>2 DEF Served, SettingsReachModules
        <5> QED
          BY <2>2, <2>5, <4>1, <4>2, <5>1
      <4>3. CASE m \notin modules
        BY <2>3, <2>5, <4>1, <4>3
      <4> QED
        BY <4>2, <4>3
    <3> QED
      BY <1>1, <3>1 DEF SettingsReachModules
  <2> QED
    BY <1>3, <2>4, <2>6 DEF Served
<1> QED
  BY <1>2, <1>4, <1>5

\* set_log reaches every library that serves a module, because each of them
\* is among the adapters that it goes through.
LEMMA LogServes ==
  ASSUME IInv, Served, NEW api \in Apis, NEW level \in Levels,
         SetLog(api, level) \/ SetLogFails(api, level)
  PROVE  Served'
<1> USE DEF IInv
<1>1. phase = "up" /\ UNCHANGED <<phase, kind, maMap, libMap, modules>>
  BY DEF SetLog, SetLogFails, startVars, libVars
<1>2. ExecAnswers' /\ AllServed' /\ ModulesServed'
  BY <1>1 DEF Served, ExecAnswers, AllServed, ModulesServed
<1>3. \A m \in modules : m.library \in ListModuleAdapters /\ m.library \in Libraries
  BY <1>1 DEF Served, ModulesServed, ListModuleAdapters, Logs
<1>4. ASSUME NEW libs, NEW lib \in Libraries, NEW a \in Apis, libLog' = WithLevel(libs, api, level)
      PROVE  libLog'[lib][a] = IF lib \in libs /\ a = api THEN level ELSE libLog[lib][a]
  BY <1>4 DEF WithLevel, Logs
<1>5. ASSUME NEW m \in modules, NEW a \in DOMAIN logSetting' \ failedLog'
      PROVE  libLog'[m.library][a] = logSetting'[a]
  <2>1. CASE SetLog(api, level)
    <3>1. /\ libLog' = WithLevel(ListModuleAdapters, api, level)
          /\ DOMAIN logSetting' = DOMAIN logSetting \cup {api}
          /\ logSetting'[api] = level
          /\ \A x \in DOMAIN logSetting : x # api => logSetting'[x] = logSetting[x]
          /\ failedLog' = failedLog \ {api}
      BY <2>1 DEF SetLog, Put
    <3>2. a \in Apis
      BY <3>1 DEF Logs
    <3>3. CASE a = api
      BY <1>3, <1>4, <3>1, <3>2, <3>3
    <3>4. CASE a # api
      <4>1. libLog[m.library][a] = logSetting[a] /\ logSetting'[a] = logSetting[a]
        BY <1>1, <3>1, <3>4 DEF Served, SettingsReachModules
      <4> QED
        BY <1>3, <1>4, <3>1, <3>2, <3>4, <4>1
    <3> QED
      BY <3>3, <3>4
  <2>2. CASE SetLogFails(api, level)
    <3>1. logSetting' = logSetting /\ failedLog' = failedLog \cup {api}
      BY <2>2 DEF SetLogFails
    <3>2. PICK failing \in ListModuleAdapters \ {Null} :
            \E done \in SUBSET (ListModuleAdapters \ {failing, Null}) :
              libLog' = WithLevel(done, api, level)
      BY <2>2 DEF SetLogFails
    <3>3. PICK done \in SUBSET (ListModuleAdapters \ {failing, Null}) :
            libLog' = WithLevel(done, api, level)
      BY <3>2
    <3>4. a # api /\ a \in Apis /\ libLog[m.library][a] = logSetting[a]
      BY <1>1, <3>1 DEF Served, SettingsReachModules, Logs
    <3> QED
      BY <1>3, <1>4, <3>1, <3>3, <3>4
  <2> QED
    BY <2>1, <2>2
<1>6. SettingsReachModules'
  BY <1>1, <1>5 DEF SettingsReachModules
<1> QED
  BY <1>2, <1>6 DEF Served

\* With stable scripts every step keeps the served libraries served.
LEMMA NextServed ==
  ASSUME Stable, IInv, Served, [AnyNext]_vars
  PROVE  Served'
<1> USE DEF IInv
<1>1. CASE AnyStart
  <2>1. PICK k \in Kinds : \E c : StartWith(k, c)
    BY <1>1 DEF AnyStart
  <2>2. maMap' = <<>> /\ libMap' = <<>> /\ modules' = {} /\ kind' = k
    BY <2>1 DEF StartWith, Phases
  <2> QED
    BY <2>2, NothingToServe
<1>2. CASE StartRefused \/ ConfigureThrows \/ Destroy
  <2>1. maMap' = <<>> /\ libMap' = <<>> /\ modules' = {} /\ kind' = "none"
    BY <1>2 DEF StartRefused, ConfigureThrows, Destroy, Gone, Phases
  <2> QED
    BY <2>1, NothingToServe
<1>3. ASSUME NEW l \in Locations, QueryMetadata(l)
      PROVE  Served'
  <2>1. /\ phase = "up" /\ UNCHANGED <<phase, kind, config, logSetting, libLog, failedLog, modules>>
        /\ \E found \in Libraries \cup {Null} : GetModuleAdapter(l, found)
    BY <1>3 DEF QueryMetadata, startVars, logVars
  <2>2. Kept /\ AllServed' /\ ExecAnswers'
    BY <2>1, LookupServes
  <2> QED
    BY <2>1, <2>2, KeptServes DEF Served
<1>4. ASSUME NEW m \in modules, RemoveModule(m)
      PROVE  Served'
  <2>1. UNCHANGED <<phase, kind, maMap, libMap, logSetting, libLog, failedLog>> /\ modules' \subseteq modules
    BY <1>4 DEF RemoveModule, startVars, libVars, logVars
  <2>2. Kept /\ AllServed' /\ ExecAnswers'
    BY <2>1 DEF Kept, Served, AllServed, ExecAnswers
  <2> QED
    BY <2>1, <2>2, KeptServes DEF Served
<1>5. ASSUME NEW api \in Apis, NEW level \in Levels,
             SetLogCrashes(api, level)
      PROVE  Served'
  <2>1. phase' = "crashed" /\ UNCHANGED <<kind, maMap, libMap>>
    BY <1>5 DEF SetLogCrashes, startVars, libVars
  <2> QED
    BY <2>1 DEF Served, ExecAnswers, AllServed, ModulesServed, SettingsReachModules
<1>6. CASE UseWildPointer \/ DestroyCrashes
  <2>1. phase' = "crashed" /\ UNCHANGED <<kind, maMap, libMap>>
    BY <1>6 DEF UseWildPointer, DestroyCrashes, startVars, libVars
  <2> QED
    BY <2>1 DEF Served, ExecAnswers, AllServed, ModulesServed, SettingsReachModules
<1>7. CASE UNCHANGED vars
  <2>1. UNCHANGED <<phase, kind, maMap, libMap, logSetting, libLog, failedLog, modules>>
    BY <1>7 DEF vars, startVars, libVars, logVars
  <2> QED
    BY <2>1 DEF Served, ExecAnswers, AllServed, ModulesServed, SettingsReachModules
<1> QED
  BY <1>1, <1>2, <1>3, <1>4, <1>5, <1>6, <1>7, ConfigureServes, CreateServes, LogServes, StartIsAny
     DEF AnyNext, Next

\* With stable scripts every adapter of every state is served.
THEOREM ServedInvariance == Stable => (AnySpec => []Served)
<1>1. Init => Served
  <2>1. Init => DOMAIN maMap = {} /\ DOMAIN libMap = {} /\ modules = {} /\ kind = "none"
    BY DEF Init
  <2> QED
    BY <2>1 DEF Served, ExecAnswers, AllServed, ModulesServed, SettingsReachModules
<1>2. ASSUME Stable
      PROVE  IInv /\ Served /\ [AnyNext]_vars => Served'
  BY <1>2, NextServed
<1>3. SUFFICES ASSUME Stable PROVE AnySpec => []Served
  OBVIOUS
<1>4. IInv /\ Served /\ [AnyNext]_vars => Served'
  BY <1>2, <1>3
<1> QED
  BY <1>1, <1>4, Invariance, PTL DEF AnySpec

\* With stable scripts, a log setting that was accepted governs every library
\* that serves a module, whenever the library was loaded and whatever lookups,
\* creates, settings and initialisations failed.
THEOREM SettingsReach == Stable => (AnySpec => []SettingsReachModules)
<1>1. Served => SettingsReachModules
  BY DEF Served
<1> QED
  BY <1>1, ServedInvariance, PTL

\* With stable scripts, the destructor leaves no library running that the
\* platform has loaded: each of them serves a location.
THEOREM Uninitialized == Stable => (AnySpec => AllUninitialized)
<1>1. IInv /\ Served /\ [AnyNext]_vars =>
        [phase = "up" /\ phase' = "off" => LoadedAdapters \cap running' = {}]_vars
  <2> SUFFICES ASSUME IInv, Served, AnyNext, phase = "up", phase' = "off"
               PROVE  LoadedAdapters \cap running' = {}
    OBVIOUS
  <2>1. Destroy
    BY DEF AnyNext, AnyStart, Next, Start, StartWith, StartRefused, ConfigureLocation, ConfigureThrows,
           CreateModule, QueryMetadata, UseWildPointer, RemoveModule,
           SetLog, SetLogFails, SetLogCrashes, DestroyCrashes
  <2>2. LoadedAdapters \subseteq ListModuleAdapters
    BY DEF IInv, Maps, MapsTyped, Served, AllServed, LoadedAdapters, ListModuleAdapters
  <2> QED
    BY <2>1, <2>2 DEF Destroy
<1> QED
  BY <1>1, Invariance, ServedInvariance, PTL DEF AnySpec, AllUninitialized

-----------------------------------------------------------------------------
(* Where the locations of the static table lead.                           *)

\* A location of the table that has been handled leads to the library of the
\* table, or to null because the platform has no adapter for that library,
\* although it is in the process.
Configured ==
  /\ kind # "static" => DOMAIN config = {}
  /\ \A l \in DOMAIN maMap \cap DOMAIN config :
       \/ maMap[l] = config[l]
       \/ maMap[l] = Null /\ config[l] \in opened /\ Loaded(config[l]) = Null

\* What is left of ConfiguredIsUsed through any number of initialisations: no
\* location of the table ever leads to another's library, and one that does
\* not lead to its own leads to null, as that library was in the process
\* before the platform could load it.
ConfiguredOrStale ==
  phase = "up" =>
    \A l \in DOMAIN config :
      \/ maMap[l] = config[l]
      \/ maMap[l] = Null /\ config[l] \in opened \ LoadedAdapters

\* A step that leaves the maps of the platform alone.
LEMMA ConfiguredSame ==
  ASSUME Configured, UNCHANGED <<kind, config, maMap, libMap, opened>>
  PROVE  Configured'
  BY DEF Configured, Loaded

\* A lookup of a running platform changes nothing for the static table.
LEMMA ConfiguredLookup ==
  ASSUME Configured, IInv, phase = "up", NEW l \in Locations, NEW found \in Libraries \cup {Null},
         GetModuleAdapter(l, found), UNCHANGED <<kind, config>>
  PROVE  Configured'
<1>1. CASE kind = "static" /\ StaticLookup(l, found)
  <2>1. /\ found = IF l \in DOMAIN maMap THEN maMap[l] ELSE Null
        /\ maMap' = Put(maMap, l, found) /\ UNCHANGED <<libMap, opened>>
    BY <1>1 DEF StaticLookup, libVars
  <2>2. DOMAIN maMap' = DOMAIN maMap \cup {l} /\ \A x \in DOMAIN maMap : maMap'[x] = maMap[x]
    BY <2>1 DEF Put
  <2>3. DOMAIN config \subseteq DOMAIN maMap
    BY DEF IInv, Phases
  <2> QED
    BY <1>1, <2>1, <2>2, <2>3 DEF Configured, Loaded
<1>2. CASE kind = "exec"
  BY <1>2 DEF Configured
<1> QED
  BY <1>1, <1>2 DEF GetModuleAdapter

\* The constructor handles one entry of the table.
LEMMA ConfiguredConfigure ==
  ASSUME Configured, IInv, ConfigureLocation
  PROVE  Configured'
<1>1. PICK l, lib : l = NextLocation /\ lib = config[NextLocation]
  OBVIOUS
<1>2. /\ phase = "starting" /\ kind = "static" /\ lib \in Libraries
      /\ l \in DOMAIN config /\ lib = config[l] /\ l \notin DOMAIN maMap
  BY <1>1, NextIsLeft DEF ConfigureLocation, IInv, Phases
<1>3. Configure(l, lib) /\ UNCHANGED <<kind, config>>
  BY <1>1 DEF ConfigureLocation
<1>4. CASE lib \notin opened /\ LoadSucceeds(lib) /\ maMap' = Put(maMap, l, lib)
  <2>1. /\ opened' = opened \cup {lib}
        /\ \A x \in opened : Loaded(x)' = Loaded(x)
    BY <1>4 DEF LoadSucceeds, Put, Loaded
  <2>2. /\ DOMAIN maMap' = DOMAIN maMap \cup {l} /\ maMap'[l] = lib
        /\ \A x \in DOMAIN maMap : maMap'[x] = maMap[x]
    BY <1>2, <1>4 DEF Put
  <2> QED
    BY <1>2, <1>3, <2>1, <2>2 DEF Configured
<1>5. CASE /\ lib \in opened
           /\ maMap' = Put(maMap, l, Loaded(lib)) /\ libMap' = Put(libMap, lib, Loaded(lib))
           /\ UNCHANGED opened
  <2>1. Loaded(lib) \in {lib, Null}
    BY DEF Loaded, IInv, Maps, MapsTyped
  <2>2. \A x : Loaded(x)' = Loaded(x)
    BY <1>5 DEF Put, Loaded
  <2>3. /\ DOMAIN maMap' = DOMAIN maMap \cup {l} /\ maMap'[l] = Loaded(lib)
        /\ \A x \in DOMAIN maMap : maMap'[x] = maMap[x]
    BY <1>2, <1>5 DEF Put
  <2> QED
    BY <1>2, <1>3, <1>5, <2>1, <2>2, <2>3 DEF Configured
<1> QED
  BY <1>3, <1>4, <1>5 DEF Configure

\* Every step keeps the table's locations where they lead.
LEMMA NextConfigured ==
  ASSUME Configured, IInv, [AnyNext]_vars
  PROVE  Configured'
<1>1. CASE AnyStart
  <2>1. PICK k \in Kinds : \E c : /\ TableOK(c) /\ (k = "exec" => DOMAIN c = {})
                                /\ StartWith(k, c)
    BY <1>1 DEF AnyStart
  <2>2. maMap' = <<>> /\ (kind' # "static" => DOMAIN config' = {})
    BY <2>1, AdaptersAssumption DEF StartWith
  <2> QED
    BY <2>2 DEF Configured
<1>2. CASE StartRefused \/ ConfigureThrows \/ Destroy
  <2>1. maMap' = <<>> /\ config' = <<>>
    BY <1>2 DEF StartRefused, ConfigureThrows, Destroy, Gone
  <2> QED
    BY <2>1 DEF Configured
<1>3. ASSUME NEW l \in Locations, CreateModule(l) \/ QueryMetadata(l)
      PROVE  Configured'
  <2>1. phase = "up" /\ UNCHANGED <<kind, config>>
    BY <1>3 DEF CreateModule, QueryMetadata, startVars
  <2>2. \E found \in Libraries \cup {Null} : GetModuleAdapter(l, found)
    BY <1>3 DEF CreateModule, QueryMetadata
  <2> QED
    BY <2>1, <2>2, ConfiguredLookup
<1>4. ASSUME NEW m \in modules, RemoveModule(m)
      PROVE  Configured'
  BY <1>4, ConfiguredSame DEF RemoveModule, startVars, libVars
<1>5. ASSUME NEW api \in Apis, NEW level \in Levels,
             SetLog(api, level) \/ SetLogFails(api, level) \/ SetLogCrashes(api, level)
      PROVE  Configured'
  BY <1>5, ConfiguredSame DEF SetLog, SetLogFails, SetLogCrashes, startVars, libVars
<1>6. CASE UseWildPointer \/ DestroyCrashes
  BY <1>6, ConfiguredSame DEF UseWildPointer, DestroyCrashes, startVars, libVars
<1>7. CASE UNCHANGED vars
  BY <1>7, ConfiguredSame DEF vars, startVars, libVars
<1> QED
  BY <1>1, <1>2, <1>3, <1>4, <1>5, <1>6, <1>7, ConfiguredConfigure, StartIsAny
     DEF AnyNext, Next

\* No platform, no table.
LEMMA InitConfigured == Init => Configured
<1> SUFFICES ASSUME Init PROVE Configured
  OBVIOUS
<1>1. DOMAIN config = {} /\ DOMAIN maMap = {}
  BY DEF Init
<1> QED
  BY <1>1 DEF Configured

\* Through any number of initialisations, whatever fails: a location of the
\* table never leads to a library that the table has for another, and leads to
\* null only if its library was in the process before.
THEOREM OwnOrNull == AnySpec => []ConfiguredOrStale
<1>1. ASSUME IInv, Configured
      PROVE  ConfiguredOrStale
  <2> SUFFICES ASSUME phase = "up", NEW l \in DOMAIN config, maMap[l] # config[l]
               PROVE  maMap[l] = Null /\ config[l] \in opened \ LoadedAdapters
    BY DEF ConfiguredOrStale
  <2>1. l \in DOMAIN maMap
    BY <1>1 DEF IInv, Phases
  <2>2. maMap[l] = Null /\ config[l] \in opened /\ Loaded(config[l]) = Null
    BY <1>1, <2>1 DEF Configured
  <2>3. ASSUME config[l] \in LoadedAdapters
        PROVE  FALSE
    <3>1. PICK x \in DOMAIN libMap : libMap[x] = config[l] /\ libMap[x] # Null
      BY <2>3 DEF LoadedAdapters
    <3>2. x = config[l]
      BY <1>1, <3>1 DEF IInv, Maps, MapsTyped
    <3> QED
      BY <2>2, <3>1, <3>2 DEF Loaded
  <2> QED
    BY <2>2, <2>3
<1> QED
  BY <1>1, InitConfigured, NextConfigured, Invariance, PTL DEF AnySpec

\* A constructor that has a table to go through finds no library in the
\* process: it is the first, or none before it came to open one.
FirstInProcess ==
  [][phase # "starting" /\ phase' = "starting" => opened = {}]_vars

\* Then every library in the process is one that the platform has loaded.
NothingStale ==
  kind = "static" /\ phase \in {"starting", "up"} /\ DOMAIN config # {} =>
    \A lib \in opened : Loaded(lib) # Null

\* A step of a platform with a table keeps it so.
LEMMA NextNothingStale ==
  ASSUME NothingStale, IInv, Configured, [AnyNext]_vars,
         [phase # "starting" /\ phase' = "starting" => opened = {}]_vars
  PROVE  NothingStale'
<1>1. CASE AnyStart
  <2>1. PICK k \in Kinds : \E c : StartWith(k, c)
    BY <1>1 DEF AnyStart
  <2>2. PICK c : StartWith(k, c)
    BY <2>1
  <2>3. /\ phase \in {"off", "failed"} /\ config' = c /\ opened' = opened
        /\ phase' = IF DOMAIN c = {} THEN "up" ELSE "starting"
    BY <2>2 DEF StartWith
  <2>4. phase' = "starting" => opened = {}
    BY <2>3 DEF vars
  <2> QED
    BY <2>3, <2>4 DEF NothingStale
<1>2. CASE StartRefused \/ ConfigureThrows \/ Destroy
  <2>1. kind' = "none"
    BY <1>2 DEF StartRefused, ConfigureThrows, Destroy, Gone
  <2> QED
    BY <2>1 DEF NothingStale
<1>3. CASE ConfigureLocation
  <2>1. PICK l, lib : l = NextLocation /\ lib = config[NextLocation]
    OBVIOUS
  <2>2. phase = "starting" /\ kind = "static" /\ lib \in Libraries /\ DOMAIN config # {}
    BY <1>3, <2>1, NextIsLeft DEF ConfigureLocation, IInv, Phases
  <2>3. Configure(l, lib)
    BY <1>3, <2>1 DEF ConfigureLocation
  <2>4. \A x \in opened : Loaded(x) # Null
    BY <2>2 DEF NothingStale
  <2>5. CASE LoadSucceeds(lib)
    <3>1. /\ opened' = opened \cup {lib} /\ Loaded(lib)' = lib
          /\ \A x \in opened : x # lib => Loaded(x)' = Loaded(x)
      BY <2>5 DEF LoadSucceeds, Put, Loaded
    <3> QED
      BY <2>2, <2>4, <3>1, AdaptersAssumption DEF NothingStale
  <2>6. CASE libMap' = Put(libMap, lib, Loaded(lib)) /\ UNCHANGED opened
    <3>1. \A x : Loaded(x)' = Loaded(x)
      BY <2>6 DEF Put, Loaded
    <3> QED
      BY <2>4, <2>6, <3>1 DEF NothingStale
  <2> QED
    BY <2>3, <2>5, <2>6 DEF Configure
<1>4. ASSUME NEW l \in Locations, CreateModule(l) \/ QueryMetadata(l)
      PROVE  NothingStale'
  <2>1. phase = "up" /\ UNCHANGED <<phase, kind, config>>
    BY <1>4 DEF CreateModule, QueryMetadata, startVars
  <2>2. PICK found \in Libraries \cup {Null} : GetModuleAdapter(l, found)
    BY <1>4 DEF CreateModule, QueryMetadata
  <2>3. CASE kind = "static" /\ StaticLookup(l, found)
    BY <2>1, <2>3 DEF StaticLookup, libVars, NothingStale, Loaded
  <2>4. CASE kind = "exec"
    BY <2>1, <2>4 DEF NothingStale
  <2> QED
    BY <2>2, <2>3, <2>4 DEF GetModuleAdapter
<1>5. CASE \/ \E m \in modules : RemoveModule(m)
           \/ UseWildPointer \/ DestroyCrashes \/ UNCHANGED vars
           \/ \E api \in Apis, level \in Levels :
                SetLog(api, level) \/ SetLogFails(api, level) \/ SetLogCrashes(api, level)
  <2>1. /\ UNCHANGED <<kind, config, libMap, opened>>
        /\ phase' = phase \/ phase' = "crashed"
    BY <1>5 DEF RemoveModule, UseWildPointer, DestroyCrashes, SetLog, SetLogFails, SetLogCrashes,
       vars, startVars, libVars
  <2> QED
    BY <2>1 DEF NothingStale, Loaded
<1> QED
  BY <1>1, <1>2, <1>3, <1>4, <1>5, StartIsAny DEF AnyNext, Next

\* What README.md promises of a configuration holds as long as no platform of
\* the process has opened a library before the one that reads it, whatever
\* fails in it: every location of the table leads to the library that the
\* table has for it.
THEOREM FirstIsUsed == AnySpec /\ FirstInProcess => []ConfiguredIsUsed
<1>1. Init => NothingStale
  BY DEF Init, NothingStale
<1>2. IInv /\ Configured /\ NothingStale => ConfiguredIsUsed
  <2> SUFFICES ASSUME IInv, Configured, NothingStale, phase = "up", NEW l \in DOMAIN config
               PROVE  maMap[l] = config[l]
    BY DEF ConfiguredIsUsed
  <2>1. l \in DOMAIN maMap /\ kind = "static"
    BY DEF IInv, Phases, Configured
  <2> QED
    BY <2>1 DEF Configured, NothingStale
<1> QED
  BY <1>1, <1>2, InitConfigured, NextConfigured, NextNothingStale, Invariance, PTL
     DEF AnySpec, FirstInProcess

-----------------------------------------------------------------------------
(* From the bytes of the file: the steps of MuxConfig are steps of the     *)
(* adapters, with the table of the document that was parsed.               *)

\* LocationOf has a number for every key of the documents that are read.
KeysNumbered ==
  reading = "accepted" /\ HasKeys(root) => DOMAIN root.members \subseteq DOMAIN LocationOf

\* Only the static adapter reads a file.
OnlyStaticReads == reading # "idle" => "static" \in Kinds

\* An object gives a table of libraries and of values that name none.
LEMMA DocumentTable ==
  ASSUME NEW document, DOMAIN document.members \subseteq DOMAIN LocationOf
  PROVE  TableOK(Table(document))
<1>1. \A v : LibraryNamed(v) \in Libraries \cup {NoLibrary}
  BY ConfigAssumption DEF LibraryNamed
<1>2. DOMAIN Table(document) = {LocationOf[k] : k \in DOMAIN document.members}
  BY DEF Table
<1>3. \A l \in DOMAIN Table(document) : \E v : Table(document)[l] = LibraryNamed(v)
  BY DEF Table
<1>4. DOMAIN Table(document) \subseteq Locations
  BY <1>2, ConfigAssumption
<1> QED
  BY <1>1, <1>3, <1>4 DEF TableOK

\* A document is read, and parsed, for the static adapter only.
LEMMA ReadingIsStatic ==
  ASSUME OnlyStaticReads, [ConfigNext]_configVars
  PROVE  OnlyStaticReads'
<1>1. CASE ReadFile
  BY <1>1 DEF ReadFile, OnlyStaticReads
<1>2. CASE ParseStep
  <2>1. reading # "idle"
    BY <1>2 DEF ParseStep, ParseNext, OpenArray, OpenObject, Scalar, Unexpected, EvaluateArray,
       EvaluateObject, Finish
  <2> QED
    BY <2>1 DEF OnlyStaticReads
<1>3. CASE UseDocument \/ DocumentRefused
  BY <1>3 DEF UseDocument, DocumentRefused, Reset, OnlyStaticReads
<1>4. CASE StartWithoutFile \/ Configuring \/ Serving \/ UNCHANGED configVars
  <2>1. reading' = reading
    BY <1>4 DEF StartWithoutFile, Configuring, Serving, configVars, parseVars
  <2> QED
    BY <2>1 DEF OnlyStaticReads
<1> QED
  BY <1>1, <1>2, <1>3, <1>4 DEF ConfigNext

\* What the constructor does with the document: it starts with its table, or
\* it throws.
LEMMA DocumentUsed ==
  ASSUME OnlyStaticReads, KeysNumbered, UseDocument
  PROVE  AnyNext
<1>1. "static" \in Kinds
  BY DEF UseDocument, OnlyStaticReads
<1>2. ASSUME NEW c, TableOK(c), StartWith("static", c)
      PROVE  AnyStart
  BY <1>1, <1>2 DEF AnyStart
<1>3. CASE StartWith("static", <<>>)
  <2>1. TableOK(<<>>)
    BY DEF TableOK
  <2> QED
    BY <1>2, <1>3, <2>1 DEF AnyNext
<1>4. CASE HasKeys(root) /\ StartWith("static", Table(root))
  <2>1. TableOK(Table(root))
    BY <1>4, DocumentTable DEF UseDocument, KeysNumbered
  <2> QED
    BY <1>2, <1>4, <2>1 DEF AnyNext
<1>5. CASE StartRefused
  BY <1>5 DEF AnyNext, Next
<1> QED
  BY <1>3, <1>4, <1>5 DEF UseDocument

\* Every step of the multiplexer with its parser is one of the adapters or
\* leaves them alone.
LEMMA ConfigStep ==
  ASSUME OnlyStaticReads, KeysNumbered, [ConfigNext]_configVars
  PROVE  [AnyNext]_vars
<1>1. CASE ReadFile \/ ParseStep \/ UNCHANGED configVars
  BY <1>1 DEF ReadFile, ParseStep, configVars
<1>2. CASE UseDocument
  BY <1>2, DocumentUsed
<1>3. CASE DocumentRefused
  BY <1>3 DEF DocumentRefused, AnyNext, Next
<1>4. CASE StartWithoutFile
  <2>1. CASE StartRefused
    BY <2>1 DEF AnyNext, Next
  <2>2. ASSUME NEW k \in Kinds, StartWith(k, <<>>)
        PROVE  AnyStart
    <3>1. TableOK(<<>>) /\ DOMAIN <<>> = {}
      BY DEF TableOK
    <3> QED
      BY <2>2, <3>1 DEF AnyStart
  <2> QED
    BY <1>4, <2>1, <2>2 DEF StartWithoutFile, AnyNext
<1>5. CASE Configuring
  BY <1>5 DEF Configuring, AnyNext, Next
<1>6. CASE Serving
  BY <1>6 DEF Serving, AnyNext, Next
<1> QED
  BY <1>1, <1>2, <1>3, <1>4, <1>5, <1>6 DEF ConfigNext

\* The multiplexer from the bytes of its file implements the adapters with
\* any table: reading and parsing are stuttering, and using the document is a
\* start with the table it makes.
THEOREM ConfigIsAny == ConfigSpec /\ []KeysNumbered => AnySpec
<1>1. ConfigInit => Init /\ OnlyStaticReads
  BY DEF ConfigInit, Idle, OnlyStaticReads
<1> QED
  BY <1>1, ReadingIsStatic, ConfigStep, PTL DEF ConfigSpec, AnySpec

\* So a platform that was made from a file keeps what the adapters keep:
\* types, no call through a pointer that leads nowhere but for the reasons of
\* NoNullAdapterCalled, and locations that never lead to another's library.
THEOREM ConfigSafe ==
  ConfigSpec /\ []KeysNumbered => [](TypeOK /\ NoNullAdapterCalled /\ ConfiguredOrStale)
BY ConfigIsAny, TypeCorrect, NoNullCalled, OwnOrNull, PTL

\* With scripts that keep to one library for a location, log settings reach
\* the libraries of the file's table and of the script, and the destructor
\* leaves none running.
THEOREM ConfigServed ==
  Stable => (ConfigSpec /\ []KeysNumbered => []SettingsReachModules /\ AllUninitialized)
BY ConfigIsAny, SettingsReach, Uninitialized, PTL

-----------------------------------------------------------------------------
(* The lexer, on any text.                                                 *)

Texts == Seq(0..255)

\* The bytes of a text, and its end.
LEMMA ByteFacts ==
  ASSUME NEW text \in Texts, NEW i \in Nat
  PROVE  /\ Len(text) \in Nat
         /\ Byte(text, i) # EOF => i \in 1..Len(text)
         /\ Byte(text, Len(text) + 1) = EOF
BY DEF Byte, EOF, Texts

\* The bytes that have a meaning for the lexer are bytes, and not the end.
LEMMA NoEnd ==
  /\ EOF \notin DOMAIN Escapes /\ EOF \notin DOMAIN HexValue /\ EOF \notin DOMAIN Structural
  /\ EOF \notin PlainCharacters
BY DEF EOF, Escapes, HexValue, Digit, Structural, PlainCharacters, OpenBracket, CloseBracket,
   OpenBrace, CloseBrace, Colon, Comma, Quote, Backslash, Slash

\* The ranges of a form of several bytes: none of them is the end.
LEMMA RangesFacts ==
  ASSUME NEW r \in Utf8Ranges
  PROVE  Len(r) \in {2, 3, 4} /\ EOF \notin r[Len(r)]
<1> DEFINE T == Trail
<1>1. EOF \notin T
  BY DEF Trail, EOF
<1> HIDE DEF T
<1>2. \/ \E a : r = <<a, T>>
      \/ \E a, b : r = <<a, b, T>>
      \/ \E a, b, c : r = <<a, b, c, T>>
  BY DEF Utf8Ranges, T
<1> QED
  BY <1>1, <1>2

\* A unit of a string lies within the text.
LEMMA UnitForward ==
  ASSUME NEW text \in Texts, NEW i \in Nat \ {0}, NEW unit \in UnitAt(text, i)
  PROVE  unit.next \in (i + 1)..(Len(text) + 1)
<1>1. CASE unit \in PlainUnit(text, i)
  <2>1. Byte(text, i) # EOF /\ unit.next = i + 1
    BY <1>1, NoEnd DEF PlainUnit, Unit
  <2> QED
    BY <2>1, ByteFacts
<1>2. CASE unit \in ShortEscape(text, i)
  <2>1. Byte(text, i + 1) # EOF /\ unit.next = i + 2
    BY <1>2, NoEnd DEF ShortEscape, Unit
  <2> QED
    BY <2>1, ByteFacts
<1>3. ASSUME NEW j \in Nat \ {0}, CodePoint(text, j) # {}
      PROVE  j + 5 <= Len(text)
  <2>1. Byte(text, j + 5) # EOF
    BY <1>3, NoEnd DEF CodePoint
  <2> QED
    BY <2>1, ByteFacts
<1>4. CASE unit \in UnicodeEscape(text, i)
  <2>1. \/ CodePoint(text, i) # {} /\ unit.next = i + 6
        \/ CodePoint(text, i + 6) # {} /\ unit.next = i + 12
    BY <1>4 DEF UnicodeEscape, Unit
  <2> QED
    BY <1>3, <2>1, ByteFacts
<1>5. CASE unit \in MultiByte(text, i)
  <2>1. PICK r \in Utf8Ranges : /\ \A k \in 1..Len(r) : Byte(text, i + k - 1) \in r[k]
                                /\ unit.next = i + Len(r)
    BY <1>5 DEF MultiByte, Unit
  <2>2. PICK n \in {2, 3, 4} : n = Len(r) /\ EOF \notin r[n]
    BY RangesFacts
  <2>3. Byte(text, i + n - 1) # EOF
    BY <2>1, <2>2
  <2>4. i + n - 1 \in 1..Len(text)
    BY <2>3, ByteFacts
  <2> QED
    BY <2>1, <2>2, <2>4, ByteFacts
<1> QED
  BY <1>1, <1>2, <1>4, <1>5 DEF UnitAt

-----------------------------------------------------------------------------
(* Strings: what scan_string computes from a place depends only on later   *)
(* places, so the recursive function exists, on any text.                  *)

StringFunction(text, f, D) == f = [k \in D |-> StringFrom(text, f, k)]

\* What is read from a place depends on later places only.
LEMMA StringLocal ==
  ASSUME NEW text \in Texts, NEW f, NEW g, NEW k \in 1..(Len(text) + 1),
         \A j \in (k + 1)..(Len(text) + 1) : f[j] = g[j]
  PROVE  StringFrom(text, f, k) = StringFrom(text, g, k)
<1>1. CASE UnitAt(text, k) = {}
  BY <1>1 DEF StringFrom
<1>2. CASE UnitAt(text, k) # {}
  <2> DEFINE unit == CHOOSE u \in UnitAt(text, k) : TRUE
  <2>1. unit \in UnitAt(text, k)
    BY <1>2
  <2>2. unit.next \in (k + 1)..(Len(text) + 1)
    BY <2>1, UnitForward
  <2>3. f[unit.next] = g[unit.next]
    BY <2>2
  <2> QED
    BY <2>3 DEF StringFrom
<1> QED
  BY <1>1, <1>2

\* One more place.
LEMMA StringLonger ==
  ASSUME NEW text \in Texts, NEW m \in 1..(Len(text) + 1), NEW g,
         StringFunction(text, g, (m + 1)..(Len(text) + 1))
  PROVE  \E f : StringFunction(text, f, m..(Len(text) + 1))
<1> DEFINE N == Len(text) + 1
           f == [k \in m..N |-> IF k = m THEN StringFrom(text, g, m) ELSE g[k]]
<1>1. /\ \A k \in (m + 1)..N : f[k] = g[k] /\ g[k] = StringFrom(text, g, k)
      /\ f[m] = StringFrom(text, g, m)
  BY DEF StringFunction
<1>2. f = [k \in m..N |-> f[k]]
  OBVIOUS
<1> HIDE DEF f
<1>3. ASSUME NEW k \in m..N
      PROVE  f[k] = StringFrom(text, f, k)
  <2>1. StringFrom(text, f, k) = StringFrom(text, g, k)
    BY <1>1, StringLocal
  <2>2. f[k] = StringFrom(text, g, k)
    BY <1>1
  <2> QED
    BY <2>1, <2>2
<1>4. f = [k \in m..N |-> StringFrom(text, f, k)]
  BY <1>2, <1>3
<1> QED
  BY <1>4 DEF StringFunction

\* The function of scan_string exists.
LEMMA StringExists ==
  ASSUME NEW text \in Texts
  PROVE  \E f : StringFunction(text, f, 1..(Len(text) + 1))
<1> DEFINE N == Len(text) + 1
           S == {n \in Nat : n <= N /\ ~\E f : StringFunction(text, f, (N + 1 - n)..N)}
<1>1. N \in Nat /\ N >= 1
  BY DEF Texts
<1>2. ASSUME S # {}
      PROVE  FALSE
  <2>1. PICK n \in S : \A j \in S : n <= j
    BY <1>2, LeastNatural
  <2>2. n # 0
    <3>1. (N + 1 - 0)..N = {}
      BY <1>1
    <3>2. StringFunction(text, [k \in {} |-> k], {})
      BY DEF StringFunction
    <3> QED
      BY <2>1, <3>1, <3>2
  <2>3. n - 1 \in Nat /\ n - 1 <= N /\ n - 1 \notin S /\ n \in Nat /\ n <= N
    BY <2>1, <2>2, <1>1
  <2>4. PICK g : StringFunction(text, g, (N + 1 - (n - 1))..N)
    BY <2>3
  <2>5. N + 1 - n \in 1..N /\ N + 1 - (n - 1) = (N + 1 - n) + 1
    BY <2>2, <2>3, <1>1
  <2>6. \E f : StringFunction(text, f, (N + 1 - n)..N)
    <3> DEFINE m == N + 1 - n
    <3>1. m \in 1..N /\ StringFunction(text, g, (m + 1)..N)
      BY <2>4, <2>5
    <3> HIDE DEF m
    <3>2. \E f : StringFunction(text, f, m..N)
      BY <3>1, StringLonger
    <3> QED
      BY <3>2 DEF m
  <2> QED
    BY <2>1, <2>6
<1>3. N \in Nat /\ N <= N /\ N + 1 - N = 1
  BY <1>1
<1> HIDE DEF N
<1>4. \E f : StringFunction(text, f, (N + 1 - N)..N)
  BY <1>2, <1>3
<1> QED
  BY <1>3, <1>4 DEF N

\* scan_string ends on any text: in an error, or after the quote that ends
\* the string, within the text.
LEMMA StringForward ==
  ASSUME NEW text \in Texts, NEW i \in 1..(Len(text) + 1)
  PROVE  \/ ScanString(text, i).type = "parse_error"
         \/ ScanString(text, i).next \in (i + 1)..(Len(text) + 1)
<1> DEFINE N == Len(text) + 1
           scan == CHOOSE f : f = [k \in 1..N |-> StringFrom(text, f, k)]
           Ends(k) == \/ scan[k].type = "parse_error"
                      \/ \E v, n : scan[k] = Token("value_string", v, n) /\ n \in (k + 1)..N
<1>1. scan = [k \in 1..N |-> StringFrom(text, scan, k)]
  BY StringExists DEF StringFunction
<1>2. ScanString(text, i) = scan[i]
  BY DEF ScanString
<1>3. N \in Nat /\ N >= 1
  BY DEF Texts
<1> HIDE DEF scan
<1>4. \A k \in 1..N : scan[k] = StringFrom(text, scan, k)
  BY <1>1
<1>5. ASSUME NEW k \in 1..N, \A j \in (k + 1)..N : Ends(j)
      PROVE  Ends(k)
  <2>1. CASE Byte(text, k) = Quote
    <3>1. k + 1 <= N
      BY <2>1, ByteFacts DEF Quote, EOF
    <3>2. scan[k] = Token("value_string", <<>>, k + 1)
      BY <1>4, <2>1 DEF StringFrom
    <3> QED
      BY <3>1, <3>2, <1>3
  <2>2. CASE /\ Byte(text, k) # Quote
             /\ Byte(text, k) \in ControlCharacters \cup {EOF} \/ UnitAt(text, k) = {}
    <3>1. scan[k] = ParseError(k)
      BY <1>4, <2>2 DEF StringFrom
    <3> QED
      BY <3>1 DEF ParseError, Token
  <2>3. CASE Byte(text, k) # Quote /\ Byte(text, k) \notin ControlCharacters \cup {EOF} /\ UnitAt(text, k) # {}
    <3> DEFINE unit == CHOOSE u \in UnitAt(text, k) : TRUE
               rest == scan[unit.next]
    <3>1. unit \in UnitAt(text, k)
      BY <2>3
    <3>2. unit.next \in (k + 1)..N
      BY <3>1, UnitForward
    <3>3. Ends(unit.next)
      BY <1>5, <3>2
    <3>4. StringFrom(text, scan, k) = IF rest.type = "parse_error" THEN rest
                                      ELSE [rest EXCEPT !.value = unit.bytes \o @]
      BY <2>3 DEF StringFrom
    <3>5. CASE rest.type = "parse_error"
      BY <3>4, <3>5, <1>4
    <3>6. CASE rest.type # "parse_error"
      <4>1. PICK v, n : rest = Token("value_string", v, n) /\ n \in (unit.next + 1)..N
        BY <3>3, <3>6
      <4>2. scan[k] = [rest EXCEPT !.value = unit.bytes \o @]
        BY <3>4, <3>6, <1>4
      <4> DEFINE longer == unit.bytes \o rest.value
      <4>3. scan[k] = Token("value_string", longer, n)
        <5>1. scan[k] = [rest EXCEPT !.value = longer]
          BY <4>2
        <5> HIDE DEF longer, unit, rest
        <5> QED
          BY <4>1, <5>1 DEF Token
      <4>4. n \in (k + 1)..N
        <5> HIDE DEF unit, rest
        <5> QED
          BY <4>1, <3>2, <1>3
      <4> QED
        BY <4>3, <4>4
    <3> QED
      BY <3>5, <3>6
  <2> QED
    BY <2>1, <2>2, <2>3
<1> DEFINE S == {n \in Nat : n < N /\ ~Ends(N - n)}
<1>6. ASSUME S # {}
      PROVE  FALSE
  <2>1. PICK n \in S : \A j \in S : n <= j
    BY <1>6, LeastNatural
  <2>2. N - n \in 1..N /\ ~Ends(N - n)
    BY <2>1, <1>3
  <2>3. ASSUME NEW j \in ((N - n) + 1)..N
        PROVE  Ends(j)
    <3>1. N - j \in Nat /\ N - j < N /\ N - j < n /\ N - (N - j) = j
      BY <2>1, <2>2, <1>3
    <3>2. N - j \notin S
      BY <2>1, <3>1
    <3> HIDE DEF Ends
    <3> QED
      BY <3>1, <3>2
  <2> HIDE DEF Ends
  <2> QED
    BY <1>5, <2>2, <2>3
<1>7. Ends(i)
  <2>1. N - i \in Nat /\ N - i < N /\ N - (N - i) = i
    BY <1>3
  <2> HIDE DEF Ends
  <2> QED
    BY <1>6, <2>1
<1>8. CASE scan[i].type # "parse_error"
  <2>1. PICK v, n : scan[i] = Token("value_string", v, n) /\ n \in (i + 1)..N
    BY <1>7, <1>8
  <2>2. ScanString(text, i).next = n
    BY <1>2, <2>1 DEF Token
  <2> QED
    BY <2>1, <2>2
<1> QED
  BY <1>2, <1>8

-----------------------------------------------------------------------------
(* Numbers: the same of the automaton of scan_number.                      *)

NumberFunction(text, f, D) ==
  f = [p \in D \X NumberStates |-> NumberFrom(text, f, p[1], p[2])]

\* The automaton reads bytes, never the end, and never stays in its first
\* state.
LEMMA MovesFacts ==
  ASSUME NEW m \in Moves
  PROVE  EOF \notin m.bytes /\ m.from \in NumberStates /\ m.to \in NumberStates
<1>1. EOF \notin m.bytes
  BY DEF Moves, IntegerMoves, FractionMoves, ExponentMoves, Move, EOF, Digit, Minus, Point,
     Exponent, Plus
<1> QED
  BY <1>1 DEF NumberStates

\* What the automaton does from a byte depends on later bytes only.
LEMMA NumberLocal ==
  ASSUME NEW text \in Texts, NEW f, NEW g, NEW k \in 1..(Len(text) + 1), NEW state,
         \A p \in ((k + 1)..(Len(text) + 1)) \X NumberStates : f[p] = g[p]
  PROVE  NumberFrom(text, f, k, state) = NumberFrom(text, g, k, state)
<1> DEFINE moves == {m \in Moves : m.from = state /\ Byte(text, k) \in m.bytes}
           move == CHOOSE m \in moves : TRUE
           next == <<k + 1, move.to>>
<1>1. CASE moves = {}
  BY <1>1 DEF NumberFrom
<1>2. CASE moves # {}
  <2>1. move \in Moves /\ Byte(text, k) \in move.bytes
    BY <1>2
  <2>2. NumberFrom(text, f, k, state) = f[next] /\ NumberFrom(text, g, k, state) = g[next]
    BY <1>2 DEF NumberFrom
  <2>3. next \in ((k + 1)..(Len(text) + 1)) \X NumberStates
    <3> HIDE DEF move
    <3>1. move.to \in NumberStates /\ Byte(text, k) # EOF
      BY <2>1, MovesFacts
    <3> QED
      BY <3>1, ByteFacts
  <2> QED
    BY <2>2, <2>3
<1> QED
  BY <1>1, <1>2

\* One more byte for the automaton.
LEMMA NumberLonger ==
  ASSUME NEW text \in Texts, NEW m \in 1..(Len(text) + 1), NEW g,
         NumberFunction(text, g, (m + 1)..(Len(text) + 1))
  PROVE  \E f : NumberFunction(text, f, m..(Len(text) + 1))
<1> DEFINE N == Len(text) + 1
           f == [p \in (m..N) \X NumberStates |->
                   IF p[1] = m THEN NumberFrom(text, g, m, p[2]) ELSE g[p]]
<1>1. /\ \A p \in ((m + 1)..N) \X NumberStates :
           f[p] = g[p] /\ g[p] = NumberFrom(text, g, p[1], p[2])
      /\ \A p \in (m..N) \X NumberStates : p[1] = m => f[p] = NumberFrom(text, g, p[1], p[2])
  BY DEF NumberFunction
<1>2. f = [p \in (m..N) \X NumberStates |-> f[p]]
  OBVIOUS
<1> HIDE DEF f
<1>3. ASSUME NEW p \in (m..N) \X NumberStates
      PROVE  f[p] = NumberFrom(text, f, p[1], p[2])
  <2>1. p[1] \in 1..N /\ p[1] \in m..N
    BY <1>3
  <2>2. \A q \in ((p[1] + 1)..N) \X NumberStates : q \in ((m + 1)..N) \X NumberStates
    BY <2>1
  <2>3. NumberFrom(text, f, p[1], p[2]) = NumberFrom(text, g, p[1], p[2])
    BY <1>1, <2>1, <2>2, NumberLocal
  <2>4. f[p] = NumberFrom(text, g, p[1], p[2])
    BY <1>1, <2>1
  <2> QED
    BY <2>3, <2>4
<1>4. f = [p \in (m..N) \X NumberStates |-> NumberFrom(text, f, p[1], p[2])]
  BY <1>2, <1>3
<1> QED
  BY <1>4 DEF NumberFunction

\* The function of scan_number exists.
LEMMA NumberExists ==
  ASSUME NEW text \in Texts
  PROVE  \E f : NumberFunction(text, f, 1..(Len(text) + 1))
<1> DEFINE N == Len(text) + 1
           S == {n \in Nat : n <= N /\ ~\E f : NumberFunction(text, f, (N + 1 - n)..N)}
<1>1. N \in Nat /\ N >= 1
  BY DEF Texts
<1>2. ASSUME S # {}
      PROVE  FALSE
  <2>1. PICK n \in S : \A j \in S : n <= j
    BY <1>2, LeastNatural
  <2>2. n # 0
    <3>1. (N + 1 - 0)..N = {}
      BY <1>1
    <3>2. NumberFunction(text, [p \in {} |-> p], {})
      BY DEF NumberFunction
    <3> QED
      BY <2>1, <3>1, <3>2
  <2>3. n - 1 \in Nat /\ n - 1 <= N /\ n - 1 \notin S /\ n \in Nat /\ n <= N
    BY <2>1, <2>2, <1>1
  <2>4. PICK g : NumberFunction(text, g, (N + 1 - (n - 1))..N)
    BY <2>3
  <2>5. N + 1 - n \in 1..N /\ N + 1 - (n - 1) = (N + 1 - n) + 1
    BY <2>2, <2>3, <1>1
  <2>6. \E f : NumberFunction(text, f, (N + 1 - n)..N)
    <3> DEFINE m == N + 1 - n
    <3>1. m \in 1..N /\ NumberFunction(text, g, (m + 1)..N)
      BY <2>4, <2>5
    <3> HIDE DEF m
    <3>2. \E f : NumberFunction(text, f, m..N)
      BY <3>1, NumberLonger
    <3> QED
      BY <3>2 DEF m
  <2> QED
    BY <2>1, <2>6
<1>3. N \in Nat /\ N <= N /\ N + 1 - N = 1
  BY <1>1
<1> HIDE DEF N
<1>4. \E f : NumberFunction(text, f, (N + 1 - N)..N)
  BY <1>2, <1>3
<1> QED
  BY <1>3, <1>4 DEF N

\* The states that scan_number accepts in.
Accepting == {"zero", "any1", "decimal2", "any2"}

\* scan_number ends on any text: in an error, or after at least one byte.
LEMMA NumberForward ==
  ASSUME NEW text \in Texts, NEW i \in 1..(Len(text) + 1)
  PROVE  \/ ScanNumber(text, i).type = "parse_error"
         \/ ScanNumber(text, i).next \in (i + 1)..(Len(text) + 1)
<1> DEFINE N == Len(text) + 1
           D == (1..N) \X NumberStates
           run == CHOOSE f : f = [p \in D |-> NumberFrom(text, f, p[1], p[2])]
           Ends(k) == \A s \in NumberStates :
                        \E t, n : /\ run[<<k, s>>] = [state |-> t, next |-> n]
                                  /\ (n = k /\ t = s) \/ n \in (k + 1)..N
<1>1. run = [p \in D |-> NumberFrom(text, run, p[1], p[2])]
  BY NumberExists DEF NumberFunction
<1>2. RunNumber(text, i) = run[<<i, "init">>]
  BY DEF RunNumber
<1>3. N \in Nat /\ N >= 1
  BY DEF Texts
<1> HIDE DEF run
<1>4. \A k \in 1..N, s \in NumberStates : run[<<k, s>>] = NumberFrom(text, run, k, s)
  BY <1>1
<1>5. ASSUME NEW k \in 1..N, \A j \in (k + 1)..N : Ends(j)
      PROVE  Ends(k)
  <2> SUFFICES ASSUME NEW s \in NumberStates
               PROVE  \E t, n : /\ run[<<k, s>>] = [state |-> t, next |-> n]
                                /\ (n = k /\ t = s) \/ n \in (k + 1)..N
    OBVIOUS
  <2> DEFINE moves == {m \in Moves : m.from = s /\ Byte(text, k) \in m.bytes}
             move == CHOOSE m \in moves : TRUE
  <2>1. CASE moves = {}
    <3>1. run[<<k, s>>] = [state |-> s, next |-> k]
      BY <1>4, <2>1 DEF NumberFrom
    <3> QED
      BY <3>1
  <2>2. CASE moves # {}
    <3>1. move \in Moves /\ Byte(text, k) \in move.bytes
      BY <2>2
    <3>2. run[<<k, s>>] = run[<<k + 1, move.to>>]
      BY <1>4, <2>2 DEF NumberFrom
    <3> HIDE DEF move
    <3>3. move.to \in NumberStates /\ k + 1 \in (k + 1)..N
      <4>1. move.to \in NumberStates /\ Byte(text, k) # EOF
        BY <3>1, MovesFacts
      <4> QED
        BY <4>1, ByteFacts
    <3>4. PICK t, n : /\ run[<<k + 1, move.to>>] = [state |-> t, next |-> n]
                      /\ (n = k + 1 /\ t = move.to) \/ n \in (k + 2)..N
      <4>1. Ends(k + 1)
        <5> HIDE DEF Ends
        <5> QED
          BY <1>5, <3>3
      <4>2. k + 1 + 1 = k + 2
        OBVIOUS
      <4> QED
        BY <3>3, <4>1, <4>2
    <3>5. n \in (k + 1)..N
      BY <3>3, <3>4, <1>3
    <3> QED
      BY <3>2, <3>4, <3>5
  <2> QED
    BY <2>1, <2>2
<1> HIDE DEF Ends
<1> DEFINE S == {n \in Nat : n < N /\ ~Ends(N - n)}
<1>6. ASSUME S # {}
      PROVE  FALSE
  <2>1. PICK n \in S : \A j \in S : n <= j
    BY <1>6, LeastNatural
  <2>2. N - n \in 1..N /\ ~Ends(N - n)
    BY <2>1, <1>3
  <2>3. ASSUME NEW j \in ((N - n) + 1)..N
        PROVE  Ends(j)
    <3>1. N - j \in Nat /\ N - j < N /\ N - j < n /\ N - (N - j) = j
      BY <2>1, <2>2, <1>3
    <3>2. N - j \notin S
      BY <2>1, <3>1
    <3> QED
      BY <3>1, <3>2
  <2> QED
    BY <1>5, <2>2, <2>3
<1>7. Ends(i)
  <2>1. N - i \in Nat /\ N - i < N /\ N - (N - i) = i
    BY <1>3
  <2> QED
    BY <1>6, <2>1
<1>8. "init" \in NumberStates /\ "init" \notin Accepting
  <2>1. Move("init", {48}, "zero") \in Moves
    BY DEF Moves, IntegerMoves
  <2> QED
    BY <2>1 DEF NumberStates, Move, Accepting
<1>9. PICK t, n : /\ RunNumber(text, i) = [state |-> t, next |-> n]
                  /\ (n = i /\ t = "init") \/ n \in (i + 1)..N
  BY <1>2, <1>7, <1>8 DEF Ends
<1>10. CASE t \in Accepting
  <2>1. PICK type, value : ScanNumber(text, i) = Token(type, value, n)
    BY <1>9, <1>10 DEF ScanNumber, Accepting
  <2>2. ScanNumber(text, i).next = n
    BY <2>1 DEF Token
  <2> QED
    BY <1>8, <1>9, <1>10, <2>2
<1>11. CASE t \notin Accepting
  <2>1. ScanNumber(text, i) = ParseError(i)
    BY <1>9, <1>11 DEF ScanNumber, Accepting
  <2> QED
    BY <2>1 DEF ParseError, Token
<1> QED
  BY <1>10, <1>11

-----------------------------------------------------------------------------
(* Tokens.                                                                 *)

\* No token follows these two.
LastTokens == {"parse_error", "end_of_input"}

\* The token that is read from i on ends later, within the text.
EndsAfter(text, t, i) == t.type \in LastTokens \/ t.next \in (i + 1)..(Len(text) + 1)

\* A literal is four or five bytes, and the end is none of them.
LEMMA LiteralFacts ==
  ASSUME NEW l \in Literals
  PROVE  \E n \in {4, 5} : n \in 1..Len(l.bytes) /\ n = Len(l.bytes) /\ l.bytes[n] # EOF
<1>1. CASE l = [bytes |-> <<116, 114, 117, 101>>, type |-> "literal_true"]
  <2>1. l.bytes = <<116, 114, 117, 101>>
    BY <1>1
  <2> QED
    BY <2>1 DEF EOF
<1>2. CASE l = [bytes |-> <<102, 97, 108, 115, 101>>, type |-> "literal_false"]
  <2>1. l.bytes = <<102, 97, 108, 115, 101>>
    BY <1>2
  <2> QED
    BY <2>1 DEF EOF
<1>3. CASE l = [bytes |-> <<110, 117, 108, 108>>, type |-> "literal_null"]
  <2>1. l.bytes = <<110, 117, 108, 108>>
    BY <1>3
  <2> QED
    BY <2>1 DEF EOF
<1> QED
  BY <1>1, <1>2, <1>3 DEF Literals

\* scan_literal ends after the literal, or in an error.
LEMMA LiteralForward ==
  ASSUME NEW text \in Texts, NEW i \in 1..(Len(text) + 1)
  PROVE  EndsAfter(text, ScanLiteral(text, i), i)
<1> DEFINE found == {l \in Literals : \A k \in 1..Len(l.bytes) : Byte(text, i + k - 1) = l.bytes[k]}
           l == CHOOSE x \in found : TRUE
<1>1. CASE found = {}
  <2>1. ScanLiteral(text, i) = ParseError(i)
    BY <1>1 DEF ScanLiteral
  <2> QED
    BY <2>1 DEF EndsAfter, LastTokens, ParseError, Token
<1>2. CASE found # {}
  <2>1. l \in Literals /\ \A k \in 1..Len(l.bytes) : Byte(text, i + k - 1) = l.bytes[k]
    BY <1>2
  <2>2. ScanLiteral(text, i) = Token(l.type, <<>>, i + Len(l.bytes))
    BY <1>2 DEF ScanLiteral
  <2> HIDE DEF l
  <2>3. PICK n \in {4, 5} : n \in 1..Len(l.bytes) /\ n = Len(l.bytes) /\ l.bytes[n] # EOF
    BY <2>1, LiteralFacts
  <2>4. Byte(text, i + n - 1) # EOF
    BY <2>1, <2>3
  <2>5. i + n - 1 \in 1..Len(text)
    BY <2>4, ByteFacts
  <2>6. ScanLiteral(text, i).next = i + n
    BY <2>2, <2>3 DEF Token
  <2> QED
    BY <2>5, <2>6, ByteFacts DEF EndsAfter
<1> QED
  BY <1>1, <1>2

\* The characters between the values begin no value.
LEMMA StructuralApart ==
  ASSUME NEW byte \in DOMAIN Structural
  PROVE  byte # Quote /\ byte \notin Digit \cup {Minus} /\ byte \notin {0, EOF}
<1>1. DOMAIN Structural = {91, 93, 123, 125, 58, 44}
  BY DEF Structural, OpenBracket, CloseBracket, OpenBrace, CloseBrace, Colon, Comma
<1>2. byte \in {91, 93, 123, 125, 58, 44}
  BY <1>1
<1>3. byte # Quote
  BY <1>2 DEF Quote
<1>4. byte \notin Digit \cup {Minus}
  BY <1>2 DEF Digit, Minus
<1>5. byte \notin {0, EOF}
  BY <1>2 DEF EOF
<1> QED
  BY <1>3, <1>4, <1>5

\* Every token ends after where it begins, whatever the bytes are.
LEMMA TokenForward ==
  ASSUME NEW text \in Texts, NEW i \in 1..(Len(text) + 1)
  PROVE  EndsAfter(text, TokenAt(text, i), i)
<1> DEFINE byte == Byte(text, i)
<1>1. CASE byte \in DOMAIN Structural
  <2>1. TokenAt(text, i) = Token(Structural[byte], <<>>, i + 1)
    <3>1. byte # Quote /\ byte \notin Digit \cup {Minus} /\ byte \notin {0, EOF}
      BY <1>1, StructuralApart
    <3> QED
      BY <1>1, <3>1 DEF TokenAt
  <2>2. TokenAt(text, i).next = i + 1 /\ byte # EOF
    BY <1>1, <2>1, NoEnd DEF Token
  <2> QED
    BY <2>2, ByteFacts DEF EndsAfter
<1>2. CASE byte = Quote
  <2>1. TokenAt(text, i) = ScanString(text, i + 1)
    BY <1>2 DEF TokenAt, Structural, Quote, Digit, Minus, OpenBracket, CloseBracket, OpenBrace,
       CloseBrace, Colon, Comma, EOF
  <2>2. i + 1 \in 1..(Len(text) + 1)
    BY <1>2, ByteFacts DEF Quote, EOF
  <2>3. \/ ScanString(text, i + 1).type = "parse_error"
        \/ ScanString(text, i + 1).next \in (i + 1 + 1)..(Len(text) + 1)
    BY <2>2, StringForward
  <2> QED
    BY <2>1, <2>2, <2>3, ByteFacts DEF EndsAfter, LastTokens
<1>3. CASE byte \in Digit \cup {Minus}
  <2>1. TokenAt(text, i) = ScanNumber(text, i)
    BY <1>3 DEF TokenAt, Structural, Quote, Digit, Minus, OpenBracket, CloseBracket, OpenBrace,
       CloseBrace, Colon, Comma, EOF
  <2> QED
    BY <2>1, NumberForward DEF EndsAfter, LastTokens
<1>4. CASE byte \in {0, EOF}
  <2>1. TokenAt(text, i) = Token("end_of_input", <<>>, i + 1)
    BY <1>4 DEF TokenAt, Structural, Quote, Digit, Minus, OpenBracket, CloseBracket, OpenBrace,
       CloseBrace, Colon, Comma, EOF
  <2> QED
    BY <2>1 DEF EndsAfter, LastTokens, Token
<1>5. CASE byte \notin DOMAIN Structural /\ byte # Quote /\ byte \notin Digit \cup {Minus} /\ byte \notin {0, EOF}
  <2>1. TokenAt(text, i) = ScanLiteral(text, i)
    BY <1>5 DEF TokenAt
  <2> QED
    BY <2>1, LiteralForward
<1> QED
  BY <1>1, <1>2, <1>3, <1>4, <1>5

\* scan goes on to the next token, past the whitespace, and the end of the
\* text is always there to stop at.
LEMMA ScanForward ==
  ASSUME NEW text \in Texts, NEW i \in 1..(Len(text) + 1)
  PROVE  EndsAfter(text, Scan(text, i), i)
<1> DEFINE N == Len(text) + 1
           S == {k \in i..N : Byte(text, k) \notin Whitespace}
<1>1. N \in Nat /\ Byte(text, N) \notin Whitespace
  BY ByteFacts DEF EOF, Whitespace
<1>2. N \in S /\ S \subseteq Nat
  BY <1>1
<1>3. PICK first \in S : \A k \in S : first <= k
  BY <1>2, LeastNatural
<1>4. Min(S) \in S
  BY <1>3 DEF Min
<1>5. Scan(text, i) = TokenAt(text, Min(S))
  BY DEF Scan
<1>6. Min(S) \in i..N
  BY <1>4
<1> HIDE DEF S
<1>7. EndsAfter(text, Scan(text, i), Min(S))
  BY <1>5, <1>6, TokenForward
<1> QED
  BY <1>1, <1>6, <1>7 DEF EndsAfter

\* The first token ends after its beginning, with or without a byte order
\* mark.
LEMMA FirstForward ==
  ASSUME NEW text \in Texts
  PROVE  EndsAfter(text, FirstScan(text), 1)
<1>1. Len(text) \in Nat
  BY DEF Texts
<1>2. CASE FirstScan(text) = Scan(text, 1)
  BY <1>1, <1>2, ScanForward
<1>3. CASE FirstScan(text) = Scan(text, 4) /\ \A k \in 1..3 : Byte(text, k) = ByteOrderMark[k]
  <2>1. Byte(text, 3) # EOF
    BY <1>3 DEF ByteOrderMark, EOF
  <2>2. 4 \in 1..(Len(text) + 1)
    BY <2>1, ByteFacts
  <2>3. EndsAfter(text, FirstScan(text), 4)
    BY <1>3, <2>2, ScanForward
  <2> QED
    BY <1>1, <2>3 DEF EndsAfter
<1>4. CASE FirstScan(text) = ParseError(1)
  BY <1>4 DEF EndsAfter, LastTokens, ParseError, Token
<1> QED
  BY <1>2, <1>3, <1>4 DEF FirstScan

-----------------------------------------------------------------------------
(* The parser: every turn of its loop comes nearer to the end of the text. *)

\* The containers of a stack.
Container(c) ==
  \/ \E items : c = [kind |-> "array", items |-> items]
  \/ \E members, key : c = [kind |-> "object", members |-> members, key |-> key]

Stack(s) == \E S : s \in Seq(S) /\ \A c \in S : Container(c)

\* The stack with nothing in it.
LEMMA NothingOpen == Stack(<<>>)
<1> DEFINE none == {}
<1>1. <<>> \in Seq(none) /\ \A c \in none : Container(c)
  OBVIOUS
<1> HIDE DEF none
<1> QED
  BY <1>1 DEF Stack

\* A container stays one when a value is put into it or its key is set.
LEMMA ContainerFacts ==
  ASSUME NEW c, Container(c)
  PROVE  /\ c.kind \in {"array", "object"}
         /\ \A v : Container(WithValue(c, v))
         /\ \A key : c.kind = "object" => Container([c EXCEPT !.key = key])
<1>1. CASE \E items : c = [kind |-> "array", items |-> items]
  <2>1. PICK items : c = [kind |-> "array", items |-> items]
    BY <1>1
  <2>2. c.kind = "array" /\ c.items = items
    BY <2>1
  <2>3. ASSUME NEW v
        PROVE  Container(WithValue(c, v))
    <3> DEFINE longer == Append(c.items, v)
    <3>1. WithValue(c, v) = [c EXCEPT !.items = longer]
      BY <2>2 DEF WithValue
    <3> HIDE DEF longer
    <3>2. WithValue(c, v) = [kind |-> "array", items |-> longer]
      BY <2>1, <3>1
    <3> QED
      BY <3>2 DEF Container
  <2> QED
    BY <2>2, <2>3
<1>2. CASE \E members, key : c = [kind |-> "object", members |-> members, key |-> key]
  <2>1. PICK members, k : c = [kind |-> "object", members |-> members, key |-> k]
    BY <1>2
  <2>2. c.kind = "object" /\ c.key = k /\ c.members = members
    BY <2>1
  <2>3. ASSUME NEW v
        PROVE  Container(WithValue(c, v))
    <3> DEFINE more == SetMember(c.members, c.key, v)
    <3>1. WithValue(c, v) = [c EXCEPT !.members = more]
      BY <2>2 DEF WithValue
    <3> HIDE DEF more
    <3>2. WithValue(c, v) = [kind |-> "object", members |-> more, key |-> k]
      BY <2>1, <3>1
    <3> QED
      BY <3>2 DEF Container
  <2>4. ASSUME NEW key
        PROVE  Container([c EXCEPT !.key = key])
    <3>1. [c EXCEPT !.key = key] = [kind |-> "object", members |-> members, key |-> key]
      BY <2>1
    <3> QED
      BY <3>1 DEF Container
  <2> QED
    BY <2>2, <2>3, <2>4
<1> QED
  BY <1>1, <1>2 DEF Container

\* Putting a container on a stack and taking it off.
LEMMA StackFacts ==
  ASSUME NEW s, Stack(s)
  PROVE  /\ \A c : Container(c) => /\ Stack(Append(s, c)) /\ Append(s, c) # <<>>
                                   /\ Last(Append(s, c)) = c
         /\ s # <<>> => Stack(Front(s)) /\ Container(Last(s))
<1>1. PICK S : s \in Seq(S) /\ \A c \in S : Container(c)
  BY DEF Stack
<1>2. ASSUME NEW c, Container(c)
      PROVE  Stack(Append(s, c)) /\ Append(s, c) # <<>> /\ Last(Append(s, c)) = c
  <2> DEFINE T == S \cup {c}
  <2>1. c \in T /\ \A x \in T : Container(x)
    BY <1>1, <1>2
  <2>2. s \in Seq(T)
    BY <1>1
  <2> HIDE DEF T
  <2>3. Append(s, c) \in Seq(T) /\ Len(s) \in Nat
    BY <2>1, <2>2
  <2>4. Len(Append(s, c)) = Len(s) + 1 /\ Append(s, c)[Len(s) + 1] = c
    BY <2>1, <2>2
  <2>5. Append(s, c) # <<>>
    BY <2>3, <2>4
  <2>6. Last(Append(s, c)) = c
    BY <2>4 DEF Last
  <2> QED
    BY <2>1, <2>3, <2>5, <2>6 DEF Stack
<1>3. ASSUME s # <<>>
      PROVE  Stack(Front(s)) /\ Container(Last(s))
  <2>1. Len(s) \in Nat /\ Len(s) >= 1
    BY <1>1, <1>3
  <2>2. Front(s) \in Seq(S) /\ Last(s) \in S
    BY <1>1, <2>1 DEF Front, Last
  <2> QED
    BY <1>1, <2>2 DEF Stack
<1> QED
  BY <1>2, <1>3

\* What is left to read after a token.
Left(t) == IF t.type \in LastTokens THEN 0 ELSE Len(file) + 2 - t.next

\* The turns of the loop that are left at most.
ParseRank ==
  IF reading = "value" THEN 2 * Left(token) + 1
  ELSE IF reading = "state" THEN 2 * Left(token)
  ELSE 0

Parsing == reading \in {"value", "state"}

\* A parser that has not stopped has a turn to make: a value is read whatever
\* its token is, and a value that is complete is within an array, within an
\* object, or the document.
ParserGoesOn == reading = "state" => open = <<>> \/ Last(open).kind \in {"array", "object"}

\* While the file is parsed nothing but the parser makes a step, and each of
\* its steps comes nearer to the end.
ParseComesNearer == Parsing => (ParseRank' < ParseRank /\ ParseStep) \/ UNCHANGED configVars

\* A file is read where there is no platform.
ReadsBefore == reading # "idle" => phase \in {"off", "failed"}

\* The inductive invariant of the parser.
ParserInv ==
  /\ file \in Texts
  /\ Stack(open)
  /\ Parsing => token.type \in LastTokens \/ token.next \in 2..(Len(file) + 1)
  /\ reading = "state" => token.type \notin LastTokens

\* A turn of the loop: it stops, completes a value with the token that it
\* has or a later one, or begins a value with a later one.
Turn ==
  /\ file' = file
  /\ Stack(open')
  /\ \/ reading' \in {"accepted", "rejected"}
     \/ /\ reading' = "state"
        /\ token'.type \notin LastTokens
        /\ \/ reading = "value" /\ token' = token
           \/ EndsAfter(file, token', token.next) /\ token.type \notin LastTokens
     \/ /\ reading' = "value"
        /\ EndsAfter(file, token', token.next) /\ token.type \notin LastTokens

\* A turn leaves less of the text and keeps the invariant.
LEMMA TurnNearer ==
  ASSUME ParserInv, Parsing, Turn
  PROVE  ParserInv' /\ ParseRank' < ParseRank
<1> DEFINE N == Len(file) + 1
<1>1. N \in Nat /\ N >= 1
  BY DEF ParserInv, Texts
<1>2. Left(token) \in Nat /\ (token.type \notin LastTokens => Left(token) >= 1)
  BY <1>1 DEF ParserInv, Left
<1>3. ParseRank \in Nat /\ ParseRank >= 1
  BY <1>2 DEF Parsing, ParseRank, ParserInv
<1>4. CASE reading' \in {"accepted", "rejected"}
  BY <1>3, <1>4 DEF Turn, ParserInv, Parsing, ParseRank
<1>5. ASSUME EndsAfter(file, token', token.next), token.type \notin LastTokens
      PROVE  /\ token'.type \in LastTokens \/ token'.next \in 2..N
             /\ Left(token)' \in Nat /\ Left(token)' < Left(token)
  BY <1>1, <1>5 DEF Turn, ParserInv, EndsAfter, Left
<1>6. CASE reading' = "state"
  <2>1. CASE reading = "value" /\ token' = token
    BY <1>2, <1>6, <2>1 DEF Turn, ParserInv, Parsing, ParseRank, Left
  <2>2. CASE EndsAfter(file, token', token.next) /\ token.type \notin LastTokens
    BY <1>2, <1>5, <1>6, <2>2 DEF Turn, ParserInv, Parsing, ParseRank
  <2> QED
    BY <1>6, <2>1, <2>2 DEF Turn
<1>7. CASE reading' = "value"
  BY <1>2, <1>5, <1>7 DEF Turn, ParserInv, Parsing, ParseRank
<1> QED
  BY <1>4, <1>6, <1>7 DEF Turn

\* handle_value: a value is complete, with the containers around it.
LEMMA HandleValueFacts ==
  ASSUME NEW s, NEW v, Stack(s), HandleValue(s, v)
  PROVE  reading' = "state" /\ Stack(open')
<1>1. CASE s = <<>>
  BY <1>1 DEF HandleValue
<1>2. CASE s # <<>>
  <2>1. Stack(Front(s)) /\ Container(WithValue(Last(s), v))
    BY <1>2, StackFacts, ContainerFacts
  <2>2. Stack(Append(Front(s), WithValue(Last(s), v)))
    BY <2>1, StackFacts
  <2> QED
    BY <1>2, <2>2 DEF HandleValue
<1> QED
  BY <1>1, <1>2

\* After a token that has another one behind it.
LEMMA AfterForward ==
  ASSUME file \in Texts, NEW t, t.next \in 1..(Len(file) + 1)
  PROVE  EndsAfter(file, After(t), t.next)
BY ScanForward DEF After

\* A key, its colon and the first token of its value.
LEMMA ReadKeyFacts ==
  ASSUME file \in Texts, NEW i \in 1..(Len(file) + 1), NEW key, EndsAfter(file, key, i),
         NEW s, Stack(s), s # <<>>, Last(s).kind = "object", Stack(open), ReadKey(key, s)
  PROVE  /\ Stack(open')
         /\ \/ reading' = "rejected"
            \/ reading' = "value" /\ EndsAfter(file, token', i)
<1>1. CASE key.type = "value_string" /\ After(key).type = "name_separator"
  <2>1. /\ token' = After(After(key)) /\ reading' = "value"
        /\ open' = Append(Front(s), [Last(s) EXCEPT !.key = key.value])
    BY <1>1 DEF ReadKey
  <2>2. key.next \in (i + 1)..(Len(file) + 1)
    BY <1>1 DEF EndsAfter, LastTokens
  <2>3. Len(file) \in Nat
    BY DEF Texts
  <2>4. EndsAfter(file, After(key), key.next)
    BY <2>2, <2>3, AfterForward
  <2>5. After(key).next \in (i + 2)..(Len(file) + 1)
    BY <1>1, <2>2, <2>3, <2>4 DEF EndsAfter, LastTokens
  <2>6. EndsAfter(file, After(After(key)), After(key).next)
    BY <2>3, <2>5, AfterForward
  <2>7. EndsAfter(file, token', i)
    BY <2>1, <2>3, <2>5, <2>6 DEF EndsAfter
  <2>8. Stack(Front(s)) /\ Container([Last(s) EXCEPT !.key = key.value])
    BY StackFacts, ContainerFacts
  <2>9. Stack(open')
    BY <2>1, <2>8, StackFacts
  <2> QED
    BY <2>1, <2>7, <2>9
<1>2. CASE ~(key.type = "value_string" /\ After(key).type = "name_separator")
  BY <1>2 DEF ReadKey, Reject
<1> QED
  BY <1>1, <1>2

\* Every action of the parser is a turn.
LEMMA StepIsTurn ==
  ASSUME ParserInv, ParseNext
  PROVE  Parsing /\ Turn
<1> DEFINE N == Len(file) + 1
<1>1. N \in Nat /\ N >= 1 /\ file \in Texts /\ Stack(open)
  BY DEF ParserInv, Texts
<1>2. ASSUME Parsing, token.type \notin LastTokens
      PROVE  token.next \in 1..N /\ EndsAfter(file, After(token), token.next)
  <2>1. token.next \in 1..N
    BY <1>1, <1>2 DEF ParserInv
  <2> QED
    BY <1>1, <2>1, AfterForward
<1>3. CASE OpenArray
  <2>1. reading = "value" /\ token.type \notin LastTokens /\ file' = file /\ token' = After(token)
    BY <1>3 DEF OpenArray, LastTokens
  <2>2. EndsAfter(file, token', token.next)
    BY <1>2, <2>1 DEF Parsing
  <2>3. CASE token'.type = "end_array"
    <3>1. HandleValue(open, Array(<<>>))
      BY <1>3, <2>3 DEF OpenArray
    <3> QED
      BY <1>1, <2>1, <2>2, <2>3, <3>1, HandleValueFacts DEF Turn, Parsing, LastTokens
  <2>4. CASE token'.type # "end_array"
    <3>1. open' = Append(open, [kind |-> "array", items |-> <<>>]) /\ reading' = "value"
      BY <1>3, <2>1, <2>4 DEF OpenArray
    <3>2. Container([kind |-> "array", items |-> <<>>])
      BY DEF Container
    <3> QED
      BY <1>1, <2>1, <2>2, <3>1, <3>2, StackFacts DEF Turn, Parsing
  <2> QED
    BY <2>3, <2>4
<1>4. CASE OpenObject
  <2>1. reading = "value" /\ token.type \notin LastTokens /\ file' = file
    BY <1>4 DEF OpenObject, LastTokens
  <2>2. token.next \in 1..N /\ EndsAfter(file, After(token), token.next)
    BY <1>2, <2>1 DEF Parsing
  <2>3. CASE After(token).type = "end_object"
    <3>1. token' = After(token) /\ HandleValue(open, Object(<<>>))
      BY <1>4, <2>3 DEF OpenObject
    <3> QED
      BY <1>1, <2>1, <2>2, <2>3, <3>1, HandleValueFacts DEF Turn, Parsing, LastTokens
  <2>4. CASE After(token).type # "end_object"
    <3> DEFINE c == [kind |-> "object", members |-> <<>>, key |-> <<>>]
               s == Append(open, c)
    <3>1. ReadKey(After(token), s)
      BY <1>4, <2>4 DEF OpenObject
    <3>2. Container(c) /\ c.kind = "object"
      BY DEF Container
    <3> HIDE DEF c
    <3>3. Stack(s) /\ s # <<>> /\ Last(s).kind = "object"
      BY <1>1, <3>2, StackFacts
    <3> HIDE DEF s
    <3> QED
      BY <1>1, <2>1, <2>2, <3>1, <3>3, ReadKeyFacts DEF Turn, Parsing
  <2> QED
    BY <2>3, <2>4
<1>5. CASE Scalar
  <2>1. reading = "value" /\ token.type \notin LastTokens /\ file' = file /\ token' = token
    BY <1>5 DEF Scalar, LastTokens, ScalarOf
  <2>2. PICK v : HandleValue(open, v)
    BY <1>5 DEF Scalar
  <2> QED
    BY <1>1, <2>1, <2>2, HandleValueFacts DEF Turn, Parsing
<1>6. CASE Unexpected
  BY <1>1, <1>6 DEF Unexpected, Reject, Turn, Parsing
<1>7. CASE EvaluateArray
  <2>1. reading = "state" /\ token.type \notin LastTokens /\ file' = file /\ open # <<>>
    BY <1>7 DEF EvaluateArray, ParserInv
  <2>2. token.next \in 1..N /\ EndsAfter(file, After(token), token.next)
    BY <1>2, <2>1 DEF Parsing
  <2> DEFINE t == After(token)
  <2> HIDE DEF t
  <2>3. CASE /\ t.type = "value_separator" /\ token' = After(t) /\ reading' = "value"
             /\ open' = open
    <3>1. t.next \in (token.next + 1)..N
      BY <2>2, <2>3 DEF EndsAfter, LastTokens, t
    <3>2. EndsAfter(file, After(t), t.next)
      BY <1>1, <2>2, <3>1, AfterForward
    <3>3. EndsAfter(file, token', token.next)
      BY <1>1, <2>2, <2>3, <3>1, <3>2 DEF EndsAfter
    <3> QED
      BY <1>1, <2>1, <2>3, <3>3 DEF Turn, Parsing
  <2>4. CASE /\ t.type = "end_array" /\ token' = t
             /\ HandleValue(Front(open), Array(Last(open).items))
    <3>1. EndsAfter(file, token', token.next) /\ token'.type \notin LastTokens
      BY <2>2, <2>4 DEF t, LastTokens
    <3>2. Stack(Front(open))
      BY <1>1, <2>1, StackFacts
    <3> QED
      BY <2>1, <2>4, <3>1, <3>2, HandleValueFacts DEF Turn, Parsing
  <2>5. CASE Reject
    BY <1>1, <2>1, <2>5 DEF Reject, Turn, Parsing
  <2> QED
    BY <1>7, <2>3, <2>4, <2>5 DEF EvaluateArray, t
<1>8. CASE EvaluateObject
  <2>1. /\ reading = "state" /\ token.type \notin LastTokens /\ file' = file
        /\ open # <<>> /\ Last(open).kind = "object"
    BY <1>8 DEF EvaluateObject, ParserInv
  <2>2. token.next \in 1..N /\ EndsAfter(file, After(token), token.next)
    BY <1>2, <2>1 DEF Parsing
  <2> DEFINE t == After(token)
  <2> HIDE DEF t
  <2>3. CASE t.type = "value_separator" /\ ReadKey(After(t), open)
    <3>1. t.next \in (token.next + 1)..N
      BY <2>2, <2>3 DEF EndsAfter, LastTokens, t
    <3>2. EndsAfter(file, After(t), t.next)
      BY <1>1, <2>2, <3>1, AfterForward
    <3>3. EndsAfter(file, After(t), token.next)
      BY <1>1, <2>2, <3>1, <3>2 DEF EndsAfter
    <3> QED
      BY <1>1, <2>1, <2>2, <2>3, <3>3, ReadKeyFacts DEF Turn, Parsing
  <2>4. CASE /\ t.type = "end_object" /\ token' = t
             /\ HandleValue(Front(open), Object(Last(open).members))
    <3>1. EndsAfter(file, token', token.next) /\ token'.type \notin LastTokens
      BY <2>2, <2>4 DEF t, LastTokens
    <3>2. Stack(Front(open))
      BY <1>1, <2>1, StackFacts
    <3> QED
      BY <2>1, <2>4, <3>1, <3>2, HandleValueFacts DEF Turn, Parsing
  <2>5. CASE Reject
    BY <1>1, <2>1, <2>5 DEF Reject, Turn, Parsing
  <2> QED
    BY <1>8, <2>3, <2>4, <2>5 DEF EvaluateObject, t
<1>9. CASE Finish
  BY <1>1, <1>9 DEF Finish, Turn, Parsing
<1> QED
  BY <1>3, <1>4, <1>5, <1>6, <1>7, <1>8, <1>9 DEF ParseNext

\* Every step, of the parser or of the multiplexer around it, keeps the
\* invariant, and none but the parser's own is made while it reads.
LEMMA NextParserInv ==
  ASSUME ParserInv, ReadsBefore, [ConfigNext]_configVars
  PROVE  ParserInv' /\ ReadsBefore' /\ ParseComesNearer
<1>1. CASE ParseStep
  <2>1. Parsing /\ Turn
    BY <1>1, StepIsTurn DEF ParseStep
  <2>2. ParserInv' /\ ParseRank' < ParseRank
    BY <2>1, TurnNearer
  <2>3. ReadsBefore'
    BY <1>1, <2>1 DEF ParseStep, ReadsBefore, Parsing, vars
  <2> QED
    BY <1>1, <2>2, <2>3 DEF ParseComesNearer
<1>2. CASE UNCHANGED configVars
  BY <1>2 DEF ParseComesNearer, ParserInv, ReadsBefore, configVars, parseVars, vars, Parsing
<1>3. CASE ReadFile
  <2>1. PICK text \in FirstFiles \cup LaterFiles : BeginParse(text)
    BY <1>3 DEF ReadFile
  <2>2. text \in Texts
    BY ConfigAssumption DEF Texts
  <2>3. file' = text /\ token' = FirstScan(text) /\ open' = open /\ reading' = "value"
    BY <2>1 DEF BeginParse
  <2>4. ParserInv'
    BY <2>2, <2>3, FirstForward DEF ParserInv, EndsAfter
  <2> QED
    BY <1>3, <2>4 DEF ReadFile, ReadsBefore, ParseComesNearer, Parsing, vars
<1>4. CASE UseDocument \/ DocumentRefused
  <2>1. Reset /\ ~Parsing
    BY <1>4 DEF UseDocument, DocumentRefused, Parsing
  <2>2. Stack(<<>>) /\ <<>> \in Texts
    BY NothingOpen DEF Texts
  <2> QED
    BY <2>1, <2>2 DEF Reset, ParserInv, ReadsBefore, ParseComesNearer, Parsing
<1>5. CASE StartWithoutFile
  BY <1>5 DEF StartWithoutFile, ParserInv, ReadsBefore, ParseComesNearer, Parsing, parseVars
<1>6. CASE Configuring \/ Serving
  <2>1. phase \notin {"off", "failed"} /\ UNCHANGED parseVars
    BY <1>6 DEF Configuring, Serving, ConfigureLocation, ConfigureThrows, CreateModule,
       QueryMetadata, UseWildPointer, RemoveModule, SetLog, SetLogFails, SetLogCrashes, Destroy,
       DestroyCrashes
  <2>2. reading = "idle"
    BY <2>1 DEF ReadsBefore
  <2> QED
    BY <2>1, <2>2 DEF ParserInv, ReadsBefore, ParseComesNearer, Parsing, parseVars
<1> QED
  BY <1>1, <1>2, <1>3, <1>4, <1>5, <1>6 DEF ConfigNext

\* json::parse ends, whatever is in the file: it never stands still, each
\* turn of its loop leaves less of the text, and it makes no more turns than
\* twice the bytes of the file and one.
THEOREM ParseEnds ==
  ConfigSpec => /\ [](ParserGoesOn /\ ParseRank \in 0..(2 * Len(file) + 1))
                /\ [][ParseComesNearer]_configVars
<1>1. ConfigInit => ParserInv /\ ReadsBefore
  <2>1. Stack(<<>>) /\ <<>> \in Texts
    BY NothingOpen DEF Texts
  <2> QED
    BY <2>1 DEF ConfigInit, Idle, ParserInv, ReadsBefore, Parsing
<1>2. ParserInv => ParserGoesOn
  <2> SUFFICES ASSUME ParserInv, open # <<>>
               PROVE  Last(open).kind \in {"array", "object"}
    BY DEF ParserGoesOn
  <2>1. Container(Last(open))
    BY StackFacts DEF ParserInv
  <2> QED
    BY <2>1, ContainerFacts
<1>3. ParserInv => ParseRank \in 0..(2 * Len(file) + 1)
  <2> SUFFICES ASSUME ParserInv
               PROVE  ParseRank \in 0..(2 * Len(file) + 1)
    OBVIOUS
  <2>1. Len(file) \in Nat
    BY DEF ParserInv, Texts
  <2>2. Parsing => Left(token) \in 0..Len(file)
    BY <2>1 DEF ParserInv, Left
  <2> QED
    BY <2>1, <2>2 DEF ParseRank, Parsing
<1> QED
  BY <1>1, <1>2, <1>3, NextParserInv, PTL DEF ConfigSpec
=============================================================================
