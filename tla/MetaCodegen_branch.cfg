SPECIFICATION MetaSpec
CONSTANTS
  Nodes <- MCNodes
  NoNode = 0
  Asts <- MCAsts
  MaxNodes = 70
INVARIANTS
  OnlyAvailableIsRead
