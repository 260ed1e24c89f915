----------------------------- MODULE MCASTLayout -----------------------------
(* Layouts of small sources with functions and a meta decl, and of what the  *)
(* meta decl contributes.                                                    *)
EXTENDS SemaAnalysis
LOCAL INSTANCE LayoutWriter

CONSTANTS f, g, m, x, y, int
MCNames == {f, g, m, x, y, int}
MCReserved == {int}

Tree(kind, name, children) == [kind |-> kind, name |-> name, children |-> children]
Node(kind, children) == Tree(kind, NoName, children)

Literal  == Node("literal", << >>)
Ref(n)   == Tree("ref", n, << >>)
Use(n)   == Node("expr", <<Node("call", <<Ref(n), Literal>>)>>)
Let(n, e) == Tree("decl", n, <<e>>)
Give(e)  == Node("return", <<e>>)
Block(l) == Node("compound", l)
Arg(n)   == Tree("arg", n, << >>)
Args(l)  == Node("args", l)
Fn(n, args, body) == Tree("function", n, <<Args(args), body>>)
TypedFn(n, args, type, body) == Tree("function", n, <<Args(args), type, body>>)
MetaFn(n, args, l) == Tree("meta", n, <<Args(args), Node("contribution", l)>>)
MetaBlock(l) == Node("metaCalculation", <<Node("unscoped", l)>>)
MetaIf(c, t) == Node("metaIf", <<c, Node("contribution", t)>>)
MetaIfElse(c, t, e) == Node("metaIf", <<c, Node("contribution", t), Node("contribution", e)>>)

\* Statements of functions: names that clash, are unknown, are used too early,
\* and are used behind the block that declares them
Simple == {<< >>, <<Use(f)>>, <<Let(x, Ref(x))>>, <<Let(y, Ref(x)), Use(y)>>,
           <<Let(g, Literal)>>, <<Use(y), Let(y, Literal)>>}
Compounds ==
  {<<Block(s), t[1]>> : s \in Simple, t \in Simple \ {<< >>}}
    \cup {<<Node("if", <<Ref(x), Block(s)>>), Node("return", << >>)>> : s \in Simple}
    \cup {<<Node("if", <<Literal, Block(s), Block(t)>>)>> : s \in Simple, t \in Simple}
    \cup {<<Node("expr", <<Node("assign", <<Ref(x), Node("binary", <<Ref(y), Literal>>)>>)>>)>>}
Bodies == {Block(s) : s \in Simple \cup Compounds} \cup {Give(Ref(x))}

\* What a meta decl with an argument x contributes
MetaBlocks ==
  {MetaBlock(l) : l \in {<< >>, <<Let(y, Ref(x))>>, <<Let(y, Literal), Let(g, Ref(y))>>,
                         <<Let(x, Literal)>>, <<Block(<<Let(y, Literal)>>), Let(g, Ref(x))>>,
                         <<Block(<<Let(y, Literal)>>), Use(y)>>}}
MetaIfs(t, e) ==
  {MetaIf(Ref(x), t), MetaIfElse(Node("binary", <<Ref(y), Literal>>), t, e)}
Inner == {<<b>> : b \in MetaBlocks} \cup {<<Let(y, Ref(x))>>, <<Block(<<Use(m)>>)>>}
Functions ==
  {Fn(m, << >>, Block(s \o t)) : s \in Inner, t \in Inner}
    \cup {Fn(m, << >>, Block(s \o <<i>> \o t)) : s \in Inner, t \in Inner,
             i \in MetaIfs(<<MetaBlock(<<Let(f, Ref(x))>>)>>, <<Use(y), MetaBlock(<<Let(f, Ref(y))>>)>>)}
    \cup {TypedFn(n, <<Arg(NoName), Arg(y)>>, Arg(x), Give(Ref(y))) : n \in {m, f}}
    \cup {TypedFn(m, << >>, Arg(NoName), Give(Node("instantiation", <<Ref(m), Literal>>)))}
TopLevels ==
  {<<h>> : h \in Functions}
    \cup {<<b, h>> : b \in MetaBlocks, h \in {Fn(m, << >>, Give(Ref(y))), Fn(f, << >>, Block(<<Use(m)>>))}}
    \cup {<<h, b>> : b \in MetaBlocks, h \in {Fn(m, << >>, Give(Ref(y))), Fn(g, <<Arg(y)>>, Block(<< >>))}}
    \cup {<<b, i, c>> : b \in MetaBlocks, c \in MetaBlocks,
             i \in MetaIfs(<<Fn(m, <<Arg(x)>>, Block(<< >>))>>,
                           <<Fn(g, << >>, Block(<<Use(m)>>)), Fn(m, << >>, Block(<< >>))>>)}
    \cup {<<Fn(m, << >>, Block(<< >>)), Fn(m, << >>, Block(<<Use(m)>>))>>}

\* The body of a function is a meta statement
BodyOf(s) == <<Fn(m, << >>, s)>>
OneStatement == {BodyOf(MetaBlock(<<Let(y, Ref(x))>>)), BodyOf(MetaIf(Ref(x), <<Give(Literal)>>))}
NotOneStatement ==
  {BodyOf(MetaBlock(<< >>)), BodyOf(MetaBlock(<<Let(y, Ref(x)), Let(g, Ref(y))>>)),
   BodyOf(MetaIf(Ref(x), <<Use(f), Give(Literal)>>))}

\* Sources, the last ones with a meta decl m that is instantiated
SourceOf(l) == [layout |-> Visit(Node("compilationUnit", l)), units |-> {}]
WithUnits(meta, others) ==
  [SourceOf(<<meta>> \o others) EXCEPT
     !.units = {[layout |-> Instantiated(meta, outcome), of |-> m] : outcome \in BOOLEAN}]
Instance(content) ==
  WithUnits(MetaFn(m, <<Arg(x)>>, content),
            <<Fn(f, << >>, Give(Node("instantiation", <<Ref(m), Literal>>)))>>)

MCSources ==
  {SourceOf(<<Fn(f, <<Arg(x)>>, b), Fn(g, << >>, Block(<<Use(f)>>))>>) : b \in Bodies}
    \cup {SourceOf(<<Fn(f, <<Arg(n)>>, Block(<< >>)), Fn(h, << >>, Block(<<Let(n, Literal)>>))>>) :
            n \in {f, g, x}, h \in {f, g}}
    \cup {SourceOf(<<MetaFn(m, <<Arg(n)>>, <<MetaBlock(<<Let(n, Literal)>>)>>),
                     Fn(f, << >>, Give(Ref(m)))>>) : n \in {m, f}}
    \cup {Instance(c) : c \in TopLevels \cup OneStatement \cup NotOneStatement}

\* Calls with every number of arguments of every kind of decl, as a statement and
\* as a value; decls with a reserved name; a condition that assigns
Call(n, args)  == Node("call", <<Ref(n)>> \o args)
Some(k)        == [j \in 1 .. k |-> Literal]
Statement(e)   == Node("expr", <<e>>)
CallBodies ==
  {Block(<<Statement(Call(n, Some(k)))>>) : n \in {f, g, m, x, y}, k \in 0 .. 2}
    \cup {Give(Call(n, Some(k))) : n \in {f, g, m}, k \in 0 .. 1}
    \cup {Block(<<Statement(Call(f, <<Call(n, << >>)>>))>>) : n \in {f, g}}
    \cup {Block(<<Node("if", <<Node("assign", <<Ref(x), Call(n, << >>)>>), Block(<< >>)>>)>>) :
            n \in {f, g}}
CallSources ==
  {SourceOf(<<Fn(f, <<Arg(x)>>, b), TypedFn(g, << >>, Arg(NoName), Give(Literal)),
              MetaFn(m, << >>, << >>)>>) : b \in CallBodies}
    \cup {SourceOf(<<MetaFn(n, << >>, << >>), Fn(h, << >>, Block(<< >>))>>) :
            n \in {int, m}, h \in {int, f}}

\* Instantiations of everything, wherever they can be
Inst(n, args) == Node("instantiation", <<Ref(n)>> \o args)
Insts == {Inst(n, a) : n \in {m, f}, a \in {<< >>, <<Literal>>, <<Ref(x)>>, <<Literal, Literal>>}}
MetaContents ==
  UNION {{<<MetaBlock(<<Let(y, i)>>)>>,
          <<Fn(m, << >>, Give(i))>>,
          <<Fn(m, << >>, Block(<<MetaBlock(<<Statement(Node("call", <<i>>))>>), Use(y)>>))>>,
          <<MetaIf(i, <<Fn(m, << >>, Block(<< >>))>>)>>,
          <<MetaIf(Literal, <<MetaBlock(<<Let(y, i)>>)>>), Fn(m, << >>, Block(<< >>))>>,
          <<MetaIfElse(Literal, <<Fn(m, << >>, Block(<< >>))>>,
                       <<Fn(m, << >>, Give(Node("call", <<i, Literal>>)))>>)>>} :
           i \in {Inst(m, <<Literal>>), Inst(m, << >>)}}
\* What is contributed calls the decls of both units
Contributed ==
  {<<Fn(m, <<Arg(y)>>, Block(<<Statement(Call(n, Some(k)))>>)), Fn(int, << >>, Give(Call(m, Some(k))))>> :
     n \in {f, g, m, x, y, int}, k \in 0 .. 1}
    \cup {<<Fn(h, <<Arg(y)>>, Give(Call(f, << >>)))>> : h \in {m, int}}
InstSources ==
  {SourceOf(<<MetaFn(m, <<Arg(x)>>, << >>), Fn(f, <<Arg(x)>>, Give(i))>>) : i \in Insts}
    \cup {SourceOf(<<MetaFn(m, <<Arg(x)>>, << >>), Fn(f, << >>, Block(<<Statement(Call(g, <<i>>))>>)),
                     Fn(g, <<Arg(x)>>, Block(<< >>))>>) : i \in Insts}
    \cup {Instance(c) : c \in MetaContents \cup Contributed}

AllSources == MCSources \cup CallSources \cup InstSources

\* What is written instead of a statement that is the body of a function
BodySources == {Instance(c) : c \in OneStatement \cup NotOneStatement}

\* The units that are not read: those with a function whose body is a meta
\* statement that does not contribute exactly one statement (ASTLayout.cpp:174)
Unreadable ==
  {Instantiated(MetaFn(m, <<Arg(x)>>, c), TRUE) : c \in NotOneStatement}
    \cup {Instantiated(MetaFn(m, <<Arg(x)>>, c), FALSE) :
            c \in NotOneStatement \cup {BodyOf(MetaIf(Ref(x), <<Give(Literal)>>))}}
ReadsAllButMetaBodies ==
  /\ status \in Failures => layout \in Unreadable
  /\ status = "read" => layout \notin Unreadable
===============================================================================
