---------------------------- MODULE MCMetaCodegen ----------------------------
(* Meta decls with one argument: functions, meta blocks and meta ifs at the *)
(* top level, and meta blocks and meta ifs inside of a function.            *)
EXTENDS MetaCodegen
INSTANCE MCTrees

CONSTANTS MaxNodes
MCNodes == 1 .. MaxNodes

Condition == Tree("call", <<Ref>>)
Calculation(l)  == Tree("metaCalculation", <<Tree("unscoped", l)>>)
Contribution(l) == Tree("contribution", l)
MetaIf(t)        == Tree("metaIf", <<Condition, Contribution(t)>>)
MetaIfElse(t, e) == Tree("metaIf", <<Condition, Contribution(t), Contribution(e)>>)
MetaIfs(branches) ==
  {MetaIf(t) : t \in branches} \cup {MetaIfElse(t, e) : t \in branches, e \in branches}

\* Meta blocks: what they export depends on ifs, and on scopes
Calculations ==
  {Calculation(l) : l \in {<< >>, <<Use>>, <<DeclOf(Ref)>>,
                           <<Decl, IfElse(Condition, Block(<<DeclOf(Ref)>>), Block(<<Use>>)), DeclOf(Ref)>>}}

\* Functions that are contributed, with meta statements in their blocks
Inside == {<< >>, <<Use>>, <<Calculation(<<DeclOf(Ref)>>), If(Condition, Block(<<Calculation(<<Decl>>)>>))>>}
Bodies == {Block(l) : l \in Inside}
            \cup {Block(<<Calculation(<<Decl>>), i, Return0>>) : i \in MetaIfs(Inside)}
            \cup {Block(<<i, i>>) : i \in {MetaIf(<<MetaIfElse(<<Use>>, <<ReturnRef>>)>>)}}
Functions == {Tree("function", <<Tree("args", <<Leaf("arg"), Leaf("arg")>>), Leaf("type"), b>>) : b \in Bodies}
Function0 == Tree("function", <<Leaf("args"), Return0>>)

TopLevels ==
  {<<c, f>> : c \in Calculations, f \in Functions}
    \cup {<<f, c, Function0>> : c \in Calculations, f \in Functions}
    \cup {<<c, i, d>> : c \in Calculations, d \in Calculations,
                        i \in MetaIfs({<<Function0>>, <<Calculation(<<Decl>>), Calculation(<<Use>>)>>})}
    \cup {<<MetaIf(<<i, c>>)>> : c \in Calculations,
             i \in MetaIfs({<<Function0>>, <<Calculation(<<Decl, Use>>)>>})}

MetaOf(l) == Tree("meta", <<Tree("args", <<Leaf("arg")>>), Contribution(l)>>)
MCAsts == {Resolved(MetaOf(l), Earliest, MaxNodes) : l \in TopLevels}
            \cup {Resolved(MetaOf(l), Latest, MaxNodes) : l \in TopLevels}
===============================================================================
