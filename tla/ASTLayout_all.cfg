SPECIFICATION FairCheckSpec
CONSTANTS
  f = f
  g = g
  m = m
  x = x
  y = y
  int = int
  NoName = NoName
  Names <- MCNames
  ReservedNames <- MCReserved
  Sources <- AllSources
INVARIANTS
  ReadsAsWritten
  BuilderFollowsReader
  ScopedAsWritten
  ExportsAsWritten
  ReadsAllButMetaBodies
  SemaTypeOK
  DepthIsPath
  AcceptsWhatFits
  NullOnlyWhereUnresolved
  DependenciesResolved
PROPERTIES
  Terminates
