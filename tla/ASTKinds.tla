------------------------------ MODULE ASTKinds ------------------------------
(***************************************************************************)
(* The kinds of nodes of the abstract syntax tree.  Names of types, the    *)
(* values of literals and which operator a binary expression has are left  *)
(* out, except that the assignment is a kind of its own.                   *)
(***************************************************************************)
ExprKinds == {"literal", "ref", "call", "binary", "assign", "instantiation"}
StmtKinds == {"decl", "expr", "return", "if", "compound", "unscoped",
              "metaIf", "metaCalculation"}
OtherKinds == {"compilationUnit", "metaUnit", "function", "meta", "constant",
               "args", "arg", "type", "contribution"}
Kinds == ExprKinds \cup StmtKinds \cup OtherKinds

\* Nodes with a varying number of children end with a reduce marker in a layout
RequiresReduceMarker(kind) ==
  kind \in {"compilationUnit", "metaUnit", "function", "args", "contribution", "call",
            "instantiation", "compound", "unscoped", "return", "if", "metaIf"}

\* Nodes that exist at compile time only
IsIntermediate(kind) ==
  kind \in {"metaUnit", "meta", "contribution", "metaIf", "metaCalculation"}
=============================================================================
