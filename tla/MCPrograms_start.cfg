\* Every program, with up to three arguments.
SPECIFICATION Spec
CONSTANTS
  MaxIdSize = 8
  MaxPathSize = 6
  ServiceNameMaxLen = 9
  Arguments <- UserArguments
  MaxArgs = 3
  Characters <- Letters
  Paths <- PathsAroundSize
  NoValue = NoValue
  EndNames <- TrickyNames
INVARIANTS
  TypeOK
  WiredTogether
  ReachesOnlyNamed
  PrintsNamed
  NamesRoundTrip
PROPERTIES
  OnlyOwnerResets
