SPECIFICATION Spec
CONSTANTS
  Nodes <- MCNodes
  NoNode = 0
  Asts <- MCAsts
  MaxNodes = 48
INVARIANTS
  TypeOK
  InsertPointAgrees
  BlocksWellFormed
  RunsAsWritten
  OnlyDeadCodeFails
