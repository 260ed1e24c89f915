---------------------------- MODULE LayoutWriter ----------------------------
(***************************************************************************)
(* Who writes layouts: LocalScopeVisitor from the parse tree of a source,  *)
(* and NodeContributor from the callbacks of a meta function.  A layout is *)
(* a sequence of nodes in preorder, in which a reduce marker ends the      *)
(* children of every node that has a varying number of them.               *)
(* A tree is [kind, name, children]; an anonymous node has the name NoName.*)
(***************************************************************************)
EXTENDS ASTKinds, Sequences
LOCAL INSTANCE SequencesExt

CONSTANT NoName

NodeOf(kind, name) == [kind |-> kind, name |-> name]
Marker == NodeOf("marker", NoName)

\* scopedWrite: a node, what is written in its scope, and the marker
ScopedWrite(node, below) ==
  <<node>> \o below \o (IF RequiresReduceMarker(node.kind) THEN <<Marker>> ELSE << >>)
Write(node) == ScopedWrite(node, << >>)

\* LocalScopeVisitor
RECURSIVE Visit(_)
Visit(tree) ==
  ScopedWrite(NodeOf(tree.kind, tree.name),
              FlattenSeq([k \in 1 .. Len(tree.children) |-> Visit(tree.children[k])]))

\* NodeContributor::introduce: a statement in a function, a constant outside
IntroduceNode(name, insideFunction) ==
  Write(NodeOf(IF insideFunction THEN "decl" ELSE "constant", name))
    \o Write(NodeOf("literal", NoName))

\* ASTCloner::clone: a new node of the same kind and name, without children and,
\* if it is a reference, without a decl
Clone(tree) == NodeOf(tree.kind, tree.name)

\* What is written by the callbacks of a meta function, in the order in which
\* MetaCodegen calls them when the conditions of all meta ifs are outcome
RECURSIVE Contribute(_, _, _)
Contribute(tree, insideFunction, outcome) ==
  LET Each(trees, inside) ==
        FlattenSeq([k \in 1 .. Len(trees) |-> Contribute(trees[k], inside, outcome)])
      Exported == SelectSeq(tree.children[1].children, LAMBDA t : t.kind = "decl")
      branch == IF outcome THEN 2 ELSE 3
  IN CASE tree.kind = "contribution" -> Each(tree.children, insideFunction)
       [] tree.kind = "metaIf" ->
            IF branch \in DOMAIN tree.children
            THEN Contribute(tree.children[branch], insideFunction, outcome) ELSE << >>
       [] tree.kind = "metaCalculation" ->
            FlattenSeq([k \in DOMAIN Exported |-> IntroduceNode(Exported[k].name, insideFunction)])
       [] OTHER ->
            ScopedWrite(Clone(tree),
                        Each(tree.children, insideFunction \/ tree.kind = "function"))

\* CodeExecutor::instantiate: a meta unit around what the meta decl contributes,
\* its named arguments first
Instantiated(meta, outcome) ==
  LET named == SelectSeq(meta.children[1].children, LAMBDA t : t.name # NoName)
      arguments == FlattenSeq([k \in DOMAIN named |-> IntroduceNode(named[k].name, FALSE)])
  IN ScopedWrite(NodeOf("metaUnit", NoName),
                 arguments \o Contribute(meta.children[2], FALSE, outcome))
=============================================================================
