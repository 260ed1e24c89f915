-------------------------------- MODULE AST --------------------------------
(***************************************************************************)
(* The abstract syntax tree, as far as statements, meta statements and     *)
(* layouts need it: what kind each node is, its children in the order of   *)
(* children(), and for a reference the decl it was resolved to.  Names and *)
(* literals do not matter, and of the binary operators only whether one is *)
(* the assignment; the callee of a call is not one of its children here.   *)
(***************************************************************************)
EXTENDS ASTKinds, Naturals, Sequences, FiniteSets

CONSTANTS
  Nodes,   \* the nodes, numbered in preorder from the root 1
  NoNode,  \* no decl: the reference is to a constant
  Asts     \* the trees of which one is processed, see AstType

AstType ==
  [kind : [Nodes -> Kinds],
   kids : [Nodes -> Seq(Nodes)],
   decl : [Nodes -> Nodes \cup {NoNode}]]

\* How many children the nodes have, by their classes, that are not lists
Arity(a) ==
  \A n \in Nodes :
    LET count == Len(a.kids[n]) IN
    /\ a.kind[n] \in {"expr", "decl", "metaCalculation"} => count = 1
    /\ a.kind[n] \in {"binary", "assign"} => count = 2
    /\ a.kind[n] \in {"if", "metaIf"} => count \in 2 .. 3
    /\ a.kind[n] = "return" => count \in 0 .. 1

\* BasicIfStmtASTNode: what the branches of a meta if are
MetaBranches(a) ==
  \A n \in Nodes : a.kind[n] = "metaIf" =>
    \A k \in 2 .. Len(a.kids[n]) : a.kind[a.kids[n][k]] = "contribution"

\* The nodes are numbered in preorder; the root has its arguments and its body
Preorder(a) == \A n \in Nodes : \A k \in 1 .. Len(a.kids[n]) : a.kids[n][k] > n
Root(a) == Len(a.kids[1]) >= 2

ASSUME NodesAssumption ==
  IsFiniteSet(Nodes) /\ Nodes # {} /\ Nodes = 1 .. Cardinality(Nodes) /\ NoNode = 0
ASSUME AstsAssumption  ==
  /\ Asts \subseteq AstType
  /\ \A a \in Asts : Arity(a) /\ MetaBranches(a) /\ Preorder(a) /\ Root(a)
=============================================================================
