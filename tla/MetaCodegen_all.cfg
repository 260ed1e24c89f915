SPECIFICATION MetaSpec
CONSTANTS
  Nodes <- MCNodes
  NoNode = 0
  Asts <- MCAsts
  MaxNodes = 70
INVARIANTS
  MetaTypeOK
  GeneratorsAgree
  ExpandsAsWritten
  StoredBeforeRead
  NoMetaAssertion
