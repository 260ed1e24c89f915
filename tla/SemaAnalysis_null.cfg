SPECIFICATION CheckSpec
CONSTANTS
  f = f
  g = g
  m = m
  x = x
  y = y
  int = int
  NoName = NoName
  Names <- MCNames
  ReservedNames <- MCReserved
  Sources <- InstSources
INVARIANT NoNullDereference
