SPECIFICATION Spec
CONSTANTS
  Kinds <- MCKinds
  Injected = TRUE
  MaxDocs = 2
  MaxConnects = 3
  MaxLoads = 1
  None = None
  Keys <- MCKeys
  Prims <- MCPrims
  Held <- MCHeld
  Place <- MCPlace
  Rules <- MCRules
  NoRule = NoRule
  Loadable <- MCLoadable
  MaxLength = 2
  MaxEdits = 2
  Full = Full
  Empty = Empty
  Absent = Absent
  Closed = Closed
  Budget = 3
INVARIANTS
  FilterMissesOnlyRepeats
  DialogNamesWhatItDeletes
PROPERTY
  OnlyALateOpenStraysAProvider
CHECK_DEADLOCK FALSE
