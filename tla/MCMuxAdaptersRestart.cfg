\* The multiplexer is initialised, uninitialised and initialised again.
CONSTANTS
  liba = liba
  libb = libb
  Kinds = {"static"}
  Locations = {1, 2, 3}
  Libraries = {liba, libb}
  Null = Null
  NoLibrary = NoLibrary
  Configs <- MCOneConfig
  Answers <- MCStableAnswers
  Apis = {1, 2}
  Levels = {debug, info}
  Unset = Unset
  LoadMayFail = FALSE
  MetaMayFail = FALSE
  LogMayFail = FALSE
SPECIFICATION Spec
INVARIANTS ConfiguredIsUsed
CHECK_DEADLOCK FALSE
