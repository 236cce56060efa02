\* Libraries that give out fresh ids.
CONSTANTS
  InterfaceTypes = {NETWORKIF, HOSTIF}
  Adapters = {a1, a2}
  RealIds = {r1, r2}
  NoReal = NoReal
  MaxOid = 3
  FreshRealIds = TRUE
  MaxIds = 2
  MaxStored = 1
SPECIFICATION AttrSpec
SYMMETRY Symmetry
INVARIANTS TypeOK OidAccounting MappingAgrees ReverseRoundTrip
           NoDanglingTarget ReadsBack ReportsTranslated LiveReportsAnswered
PROPERTIES ModuleOfInterfaceKept OrphansOnlyAtLimit RegistrySpec
