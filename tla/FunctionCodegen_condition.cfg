SPECIFICATION Spec
CONSTANTS
  Nodes <- MCNodes
  NoNode = 0
  Asts <- VariableCondition
  MaxNodes = 48
INVARIANTS
  IfIsConditional
