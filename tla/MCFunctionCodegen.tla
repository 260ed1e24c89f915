-------------------------- MODULE MCFunctionCodegen --------------------------
(* Functions with one argument: ifs nested two deep, between, before and    *)
(* after other statements, and straight lines of nested expressions.        *)
EXTENDS FunctionCodegen
INSTANCE MCTrees

CONSTANTS MaxNodes
MCNodes == 1 .. MaxNodes

\* Branches of up to two statements, of which only the last may return
Inner == {Block(l) : l \in {<< >>, <<Use>>, <<Return0>>, <<Decl, ReturnRef>>,
                             <<Decl, Block(<<Decl, Use>>)>>}}
Ifs   == IfsOf({Tree("call", <<Ref>>)}, Inner)
Outer == Inner \cup {Block(l) : l \in UNION {{<<i>>, <<i, ReturnRef>>, <<Decl, i, Use>>} : i \in Ifs}}
NestedIfs ==
  {If(Call0, b) : b \in Outer}
    \cup {IfElse(Call0, b, e) : b \in Outer, e \in {Block(<< >>), Block(<<Use>>), Block(<<Return0>>)}}
    \cup {IfElse(Call0, b, e) : b \in {Block(<<Use>>), Block(<<ReturnRef>>)}, e \in Outer}
Bodies ==
  {Block(<<i>>) : i \in NestedIfs} \cup {Block(<<Decl, i, Block(<<Decl, Use>>), Use>>) : i \in NestedIfs}

\* Expressions that read variables after they assign them
Arg  == Leaf("literal")
Exprs == {Ref, Assign(Ref, Tree("call", <<Ref>>)), Binary(Ref, Assign(Ref, Arg)),
          Assign(Ref, Assign(Ref, Ref)), Tree("call", <<Assign(Ref, Ref), Binary(Ref, Arg)>>)}
Straight == {Block(<<DeclOf(e), Tree("expr", <<f>>), Tree("return", <<g>>)>>) :
               e \in Exprs, f \in Exprs, g \in Exprs}

FunctionOf(body) == Tree("function", <<Tree("args", <<Leaf("arg")>>), body>>)

\* A statement that ends its compound is the last one
RECURSIVE Ends(_)
Ends(t) ==
  CASE t.k = "return"   -> TRUE
    [] t.k = "compound" -> \E k \in 1 .. Len(t.c) : Ends(t.c[k])
    [] t.k = "if"       -> Len(t.c) = 3 /\ Ends(t.c[2]) /\ Ends(t.c[3])
    [] OTHER            -> FALSE
RECURSIVE EndsLast(_)
EndsLast(t) ==
  /\ t.k = "compound" => \A k \in 1 .. Len(t.c) - 1 : ~Ends(t.c[k])
  /\ \A k \in 1 .. Len(t.c) : EndsLast(t.c[k])

Functions == {FunctionOf(b) : b \in {b \in Bodies : EndsLast(b)} \cup Straight}
\* Statements behind one that returns
Behind == {Resolved(FunctionOf(Block(<<s, Use>>)), Latest, MaxNodes) :
             s \in {Return0, IfElse(Call0, Block(<<Return0>>), Block(<<Return0>>))}}

MCAsts == {Resolved(f, Earliest, MaxNodes) : f \in Functions}
            \cup {Resolved(f, Latest, MaxNodes) : f \in Functions} \cup Behind

\* A condition that is a variable
VariableCondition ==
  {Resolved(FunctionOf(If(Ref, Block(<<ReturnRef>>))), Latest, MaxNodes)}

\* "Didn't catch early termination in sema!" (FunctionCodegen.cpp:154): what is
\* generated in no block is a statement behind one that ends its compound, and
\* nothing else; such a function is never generated.  Each local is in a scope of
\* the hash table when it is looked up, although a scope is left where its
\* compound ends: lookupLocal asserts it
OnlyDeadCodeFails ==
  /\ status # "localMissing"
  /\ status = "nullBlock" => ast \in Behind
  /\ status \in {"running", "returned"} => ast \notin Behind
===============================================================================
