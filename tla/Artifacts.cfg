SPECIFICATION Spec
CONSTANTS
  Networks <- ThreeNetworks
  Dir <- SanitizedNames
  Packaged = {"bao"}
  Service <- Services
  NewNode <- Added
  NewCodes <- AddedCodes
  MaxRelease = 2
  MaxCommands <- Few
  MaxTotal = 5
  MaxCuts = 1
INVARIANTS
  TypeOK
  BuiltWhole
  SourceNamed
  InstalledWhole
PROPERTIES
  KeepsNodes
CHECK_DEADLOCK FALSE
