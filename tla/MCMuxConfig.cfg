\* Every file of the instance, both platform adapters, and scripts,
\* initialisations and log settings that fail.
CONSTANTS
  liba = liba
  libb = libb
  Kinds = {"static", "exec"}
  Locations = {1, 2, 3}
  Libraries = {liba, libb}
  Null = Null
  NoLibrary = NoLibrary
  Configs = {}
  Answers <- MCStableAnswers
  Apis = {1, 2}
  Levels = {debug, info}
  Unset = Unset
  LoadMayFail = TRUE
  MetaMayFail = TRUE
  LogMayFail = TRUE
  FirstFiles <- MCFirstFiles
  LaterFiles <- MCLaterFiles
  LocationOf <- MCLocationOf
  LibraryOf <- MCLibraryOf
SPECIFICATION ConfigSpec
INVARIANTS TypeOK SettingsReachModules NoNullAdapterCalled ParsesAsJson
PROPERTIES AllUninitialized TableAsWritten
CHECK_DEADLOCK FALSE
