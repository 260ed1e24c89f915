--------------------------- MODULE GeneratorProofs ---------------------------
(***************************************************************************)
(* What FunctionCodegen and MetaCodegen generate is well formed, for every *)
(* tree.  The two share their blocks, their builder and their stack, and   *)
(* so their invariant: each open block is the one code is inserted into or *)
(* is owned by exactly one if that will close it, and every other block is *)
(* closed.                                                                 *)
(***************************************************************************)
EXTENDS MetaCodegen, SequenceTheorems, FiniteSetTheorems, RecursionProofs

(***************************************************************************)
(* The types of what a run and the proofs look at.                         *)
(***************************************************************************)
AllOps == Ops \cup {"contribute", "reduce"} \cup Introducing
AllStatuses ==
  Statuses \cup {"intermediateContributed", "unbalanced", "calculationTerminated"}

\* Instructions within n blocks
PlainCode(ops) == [op : ops \ Terminators, node : Nodes \cup {NoNode}, to : {<< >>}]
CodeIn(ops, n) ==
  [op : ops \ {"br", "condbr"}, node : Nodes \cup {NoNode}, to : {<< >>}]
    \cup [op : {"br"}, node : {NoNode}, to : {<<b>> : b \in 1 .. n}]
    \cup [op : {"condbr"}, node : Nodes, to : {<<b, c>> : b \in 1 .. n, c \in 1 .. n}]

FrameIn(n) ==
  [pc : PCs, node : Nodes, block : 0 .. n, todo : Seq(Nodes),
   trueBlock : 0 .. n, falseBlock : 0 .. n, cont : 0 .. n]

\* The types of what is generated
GenTypes(ops) ==
  /\ ast \in Asts
  /\ blocks \in Seq(Seq(CodeIn(ops, Len(blocks))))
  /\ builder \in 1 .. Len(blocks)
  /\ values \in Seq(SUBSET Nodes)
  /\ stack \in Seq(FrameIn(Len(blocks)))
  /\ ret \in 0 .. Len(blocks) \cup {Pending}

(***************************************************************************)
(* The frames.  A call is active while it runs and suspended while a call  *)
(* of its own does.                                                        *)
(***************************************************************************)
Active    == {"stmt", "children", "condition", "meta", "metaChildren"}
Suspended == {"children", "true", "false", "metaChildren", "calculation"}
IfPcs     == {"true", "false", "condition"}

FrameOk(tree, f) ==
  /\ f.pc \in {"stmt", "meta"} => f.block # Null /\ f.cont = Null
  /\ f.pc \in {"stmt", "meta", "true"} => f.falseBlock = Null
  /\ f.pc \in IfPcs =>
       /\ f.block # Null /\ f.trueBlock # Null /\ f.block # f.cont
       /\ tree.kind[f.node] \in {"if", "metaIf"}
  /\ f.pc \in {"false", "condition"} => f.falseBlock # Null
  /\ f.pc = "calculation" => tree.kind[f.node] = "metaCalculation"

InState(f, r) == f.pc \in (IF r = Pending THEN Active ELSE Suspended)

FramesOk(tree, st, r) ==
  /\ \A k \in 1 .. Len(st) : FrameOk(tree, st[k])
  /\ \A k \in 1 .. Len(st) - 1 : st[k].pc \in Suspended
  /\ st # << >> => InState(st[Len(st)], r)

(***************************************************************************)
(* The open blocks.                                                        *)
(***************************************************************************)
\* The block that is passed on by the innermost call f, or has been returned
PassedOn(f, r) ==
  (IF r # Pending THEN {r} ELSE IF f.pc # "condition" THEN {f.block} ELSE {}) \ {Null}
Position(st, r) ==
  IF st # << >> THEN PassedOn(st[Len(st)], r) ELSE IF r # Pending THEN {r} \ {Null} ELSE {}

\* An if closes the block of its condition and hands on the continue block
Owns(f)   == IF f.pc \in IfPcs THEN {f.block, f.cont} \ {Null} ELSE {}
Awaits(f) == IF f.pc \in IfPcs THEN {f.trueBlock, f.falseBlock} ELSE {}
OwnedBy(st)   == UNION {Owns(st[k]) : k \in 1 .. Len(st)}
AwaitedBy(st) == UNION {Awaits(st[k]) : k \in 1 .. Len(st)}
Apart(st) == \A j, k \in 1 .. Len(st) : j # k => Owns(st[j]) \cap Owns(st[k]) = {}

\* The block that is passed on is the position b of the builder, and no if's
PositionOk(st, r, b) ==
  /\ Position(st, r) \subseteq {b}
  /\ Position(st, r) \cap OwnedBy(st) = {}
  /\ Apart(st)

Straight(c) == \A k \in 1 .. Len(c) : c[k].op \notin Terminators
Closed(c) ==
  /\ c # << >> /\ c[Len(c)].op \in Terminators
  /\ \A k \in 1 .. Len(c) - 1 : c[k].op \notin Terminators
Branched(bs, b) ==
  \E p \in 1 .. Len(bs) : \E k \in 1 .. Len(bs[p]) : b \in Targets(bs[p][k])

\* The blocks when those in open are open and those in awaited not yet branched to
BlocksOk(bs, open, awaited) ==
  /\ open \subseteq 1 .. Len(bs)
  /\ \A b \in 1 .. Len(bs) : IF b \in open THEN Straight(bs[b]) ELSE Closed(bs[b])
  /\ \A b \in 1 .. Len(bs) : b = 1 \/ b \in awaited \/ Branched(bs, b)

StackInv(tree, st, r, b, bs) ==
  /\ FramesOk(tree, st, r)
  /\ PositionOk(st, r, b)
  /\ BlocksOk(bs, Position(st, r) \cup OwnedBy(st), AwaitedBy(st))

GenInv ==
  /\ StackInv(ast, stack, ret, builder, blocks)
  /\ status = "generating" /\ stack = << >> => ret # Pending
  /\ status \in {"running", "returned"} => stack = << >> /\ ret = Pending

\* What runs is an instruction that there is
RunInv ==
  /\ at \in Nat \X Nat
  /\ DOMAIN outcomes \subseteq Nodes
  /\ status = "generating" => at = <<1, 1>>
  /\ status = "running" =>
       at[1] \in 1 .. Len(blocks) /\ at[2] \in 1 .. Len(blocks[at[1]])

(***************************************************************************)
(* The calls of codegenMeta.  They never end in null: only a meta block can*)
(* hold statements that return.                                            *)
(***************************************************************************)
OfMeta(tree, f) ==
  \/ f.pc \in {"meta", "metaChildren", "calculation"}
  \/ f.pc \in IfPcs /\ tree.kind[f.node] = "metaIf"
CallsMeta(tree, f) ==
  f.pc = "metaChildren" \/ (f.pc \in {"true", "false"} /\ tree.kind[f.node] = "metaIf")
LiveMeta(tree, f) ==
  /\ f.pc = "metaChildren" => f.block # Null
  /\ f.pc \in {"false", "condition"} /\ tree.kind[f.node] = "metaIf" => f.cont # Null

\* The innermost call was made by codegenMeta, or by codegen of the meta decl
ForMeta(tree, st) == st = << >> \/ CallsMeta(tree, st[Len(st)])
MetaCalls(tree, st) ==
  /\ st # << >> => OfMeta(tree, st[1])
  /\ \A k \in 1 .. Len(st) - 1 : CallsMeta(tree, st[k]) => OfMeta(tree, st[k + 1])
  /\ \A k \in 1 .. Len(st) : LiveMeta(tree, st[k])
MetaStack(tree, st, r) == MetaCalls(tree, st) /\ (ForMeta(tree, st) => r # Null)
MetaInv == MetaStack(ast, stack, ret)

\* The invariant of FunctionCodegen, and that of MetaCodegen on top of it
FunctionInv == GenTypes(Ops) /\ RunInv /\ status \in Statuses /\ GenInv
MetaGenInv ==
  /\ GenTypes(AllOps) /\ RunInv /\ status \in AllStatuses /\ cursor \in Levels
  /\ GenInv /\ MetaInv

(***************************************************************************)
(* The code of sequences of expressions.                                   *)
(***************************************************************************)
LEMMA FlattenedType ==
  ASSUME NEW S, NEW s \in Seq(Seq(S))
  PROVE  FlattenSeq(s) \in Seq(S)
<1>1. CASE Len(s) = 0
  <2>1. s = << >>
    BY <1>1
  <2> QED BY <1>1, <2>1 DEF FlattenSeq
<1>2. CASE Len(s) # 0
  <2>1. FlattenSeq(s) = Joined(s)[Len(s)]
    BY <1>2 DEF FlattenSeq, Joined
  <2>2. Joined(s) \in [1 .. Len(s) -> Seq(S)]
    BY <1>2, Concatenations
  <2>3. Len(s) \in 1 .. Len(s)
    BY <1>2
  <2> QED BY <2>1, <2>2, <2>3
<1> QED BY <1>1, <1>2

\* The nodes are numbered from one on, which is a rank for recursion over a tree
LEMMA NodesFinite == \E N \in Nat : Nodes = 1 .. N
BY NodesAssumption, FS_CardinalityType

\* What the assumptions on the trees say of the one that is processed
LEMMA Trees ==
  ASSUME ast \in Asts
  PROVE  /\ \A n \in Nodes : Kids(n) \in Seq(Nodes) /\ ast.decl[n] \in Nodes \cup {NoNode}
         /\ \A n \in Nodes : \A k \in 1 .. Len(Kids(n)) : Kid(n, k) \in Nodes /\ Kid(n, k) > n
         /\ \A n \in Nodes : Kind(n) \in {"expr", "decl", "metaCalculation"} => Len(Kids(n)) = 1
         /\ \A n \in Nodes : Kind(n) \in {"binary", "assign"} => Len(Kids(n)) = 2
         /\ \A n \in Nodes : Kind(n) \in {"if", "metaIf"} => Len(Kids(n)) \in 2 .. 3
         /\ \A n \in Nodes : Kind(n) = "return" => Len(Kids(n)) \in 0 .. 1
         /\ \A n \in Nodes : Kind(n) = "metaIf" =>
              \A k \in 2 .. Len(Kids(n)) : Kind(Kid(n, k)) = "contribution"
         /\ 1 \in Nodes /\ Len(Kids(1)) >= 2
<1>1. ast \in AstType /\ Arity(ast) /\ MetaBranches(ast) /\ Preorder(ast) /\ Root(ast)
  BY AstsAssumption
<1>2. \A n \in Nodes : Kids(n) \in Seq(Nodes) /\ ast.decl[n] \in Nodes \cup {NoNode}
  BY <1>1 DEF AstType, Kids
<1>3. \A n \in Nodes : \A k \in 1 .. Len(Kids(n)) : Kid(n, k) \in Nodes
  BY <1>2 DEF Kids, Kid
<1>4. \A n \in Nodes : \A k \in 1 .. Len(Kids(n)) : Kid(n, k) > n
  BY <1>1 DEF Preorder, Kids, Kid
<1>5. 1 \in Nodes
  BY NodesFinite, NodesAssumption
<1> QED
  BY <1>1, <1>2, <1>3, <1>4, <1>5 DEF Arity, MetaBranches, Root, Kind, Kids, Kid

\* The children of a node are nodes
LEMMA KidNode ==
  ASSUME ast \in Asts, NEW n \in Nodes, NEW k \in 1 .. Len(Kids(n))
  PROVE  Kid(n, k) \in Nodes
BY Trees

\* The address of an expression is that of a decl
LEMMA AddressType ==
  ASSUME ast \in Asts
  PROVE  \A e \in Nodes : Address[e] \in Nodes \cup {NoNode}
<1> DEFINE S == Nodes \cup {NoNode}
           Body(f, e) == IF Kind(e) = "assign" THEN f[Kid(e, 2)]
                         ELSE IF Kind(e) = "ref" THEN ast.decl[e] ELSE NoNode
           G == [e \in Nodes |-> [f \in [Nodes -> S] |-> Body(f, e)]]
<1>1. Address = CHOOSE f : f = [e \in Nodes |-> Body(f, e)]
  BY DEF Address
<1>2. PICK N \in Nat : Nodes = 1 .. N
  BY NodesFinite
<1> DEFINE rank == [e \in Nodes |-> N - e]
<1>3. rank \in [Nodes -> 0 .. N] /\ rank \in [Nodes -> Nat]
  BY <1>2
<1>4. \A e \in Nodes : Kind(e) = "assign" => Kid(e, 2) \in Nodes /\ rank[Kid(e, 2)] < rank[e]
  <2> SUFFICES ASSUME NEW e \in Nodes, Kind(e) = "assign"
               PROVE  Kid(e, 2) \in Nodes /\ rank[Kid(e, 2)] < rank[e]
    OBVIOUS
  <2>1. 2 \in 1 .. Len(Kids(e))
    <3>1. Len(Kids(e)) = 2
      BY Trees
    <3> QED BY <3>1
  <2>2. Kid(e, 2) \in Nodes /\ Kid(e, 2) > e
    BY <2>1, Trees
  <2>3. e \in Int /\ Kid(e, 2) \in Int /\ N \in Int
    BY <2>2, <1>2
  <2>4. rank[e] = N - e /\ rank[Kid(e, 2)] = N - Kid(e, 2)
    BY <2>2
  <2> HIDE DEF rank
  <2> QED BY <2>2, <2>3, <2>4
<1>5. \A e \in Nodes : ast.decl[e] \in S /\ NoNode \in S
  BY Trees
<1>6. G \in [Nodes -> [[Nodes -> S] -> S]]
  BY <1>4, <1>5
<1> HIDE DEF rank, S
<1>7. LowerOnly(Nodes, rank, S, G)
  BY <1>4 DEF LowerOnly
<1>8. Solvable(Nodes, S, G)
  <2> HIDE DEF G
  <2>1. S # {}
    BY DEF S
  <2> QED BY <1>2, <1>3, <1>6, <1>7, <2>1, RecursionExists, Zenon
<1>9. PICK f \in [Nodes -> S] : \A e \in Nodes : f[e] = G[e][f]
  BY <1>8 DEF Solvable
<1>10. f = [e \in Nodes |-> Body(f, e)]
  BY <1>9
<1>11. Address = [e \in Nodes |-> Body(Address, e)]
  BY <1>1, <1>10
<1> DEFINE B == {e \in Nodes : Address[e] \in S}
<1>12. Inductive(Nodes, rank, B)
  BY <1>4, <1>5, <1>11 DEF Inductive
<1>13. B = Nodes
  <2> B \in SUBSET Nodes
    OBVIOUS
  <2> HIDE DEF B
  <2> QED BY <1>3, <1>12, RankInduction
<1> QED BY <1>13 DEF S

\* The typed code of an expression: one instruction, a load, an operation, a value
LEMMA DoType ==
  ASSUME NEW op \in Ops \ Terminators, NEW n \in Nodes \cup {NoNode}
  PROVE  <<Do(op, n)>> \in Seq(PlainCode(Ops))
BY DEF Do, Instruction, PlainCode

LEMMA LoadMemoryType ==
  ASSUME ast \in Asts, NEW e \in Nodes
  PROVE  LoadMemory(e) \in Seq(PlainCode(Ops))
<1>1. "load" \in Ops \ Terminators
  BY DEF Ops, Terminators
<1>2. <<Do("load", Address[e])>> \in Seq(PlainCode(Ops))
  BY <1>1, AddressType, DoType
<1> QED BY <1>2 DEF LoadMemory

LEMMA CodeOfType ==
  ASSUME ast \in Asts, NEW e \in Nodes,
         NEW codes \in [1 .. Len(Kids(e)) -> Seq(PlainCode(Ops))]
  PROVE  CodeOf(codes, e) \in Seq(PlainCode(Ops))
<1> DEFINE P == PlainCode(Ops)
<1>1. \A op \in {"store", "call", "compute"} : op \in Ops \ Terminators
  BY DEF Ops, Terminators
<1>2. \A op \in {"store", "call", "compute"} : \A n \in Nodes \cup {NoNode} : <<Do(op, n)>> \in Seq(P)
  BY <1>1, DoType
<1>3. \A k \in 1 .. Len(Kids(e)) : LoadMemory(Kid(e, k)) \in Seq(P) /\ codes[k] \in Seq(P)
  BY Trees, LoadMemoryType
<1>4. Kind(e) \in {"binary", "assign"} => 1 \in 1 .. Len(Kids(e)) /\ 2 \in 1 .. Len(Kids(e))
  <2>1. Kind(e) \in {"binary", "assign"} => Len(Kids(e)) = 2
    BY Trees
  <2> QED BY <2>1
<1> HIDE DEF P
<1>5. \A s, t \in Seq(P) : s \o t \in Seq(P)
  BY ConcatProperties
<1>6. CASE Kind(e) = "call"
  <2>1. CodeOf(codes, e) = ArgumentsCode(codes, e) \o <<Do("call", e)>>
    BY <1>6, Zenon DEF CodeOf
  <2> DEFINE s == [k \in 1 .. Len(Kids(e)) |-> codes[k] \o LoadMemory(Kid(e, k))]
  <2>2. s \in Seq(Seq(P))
    <3>1. Len(Kids(e)) \in Nat
      <4>1. Kids(e) \in Seq(Nodes)
        BY Trees
      <4> QED BY <4>1, LenProperties
    <3>2. \A k \in 1 .. Len(Kids(e)) : s[k] \in Seq(P)
      BY <1>3, <1>5
    <3> QED BY <3>1, <3>2, IsASeq
  <2>3. ArgumentsCode(codes, e) \in Seq(P)
    <3>1. ArgumentsCode(codes, e) = FlattenSeq(s)
      BY DEF ArgumentsCode
    <3> HIDE DEF s
    <3> QED BY <2>2, <3>1, FlattenedType
  <2> QED BY <2>1, <2>3, <1>2, <1>5 DEF P
<1>7. CASE Kind(e) = "binary"
  <2>1. CodeOf(codes, e) = OperandsCode(codes, e) \o <<Do("compute", e)>>
    BY <1>7, Zenon DEF CodeOf
  <2>2. OperandsCode(codes, e) \in Seq(P)
    BY <1>3, <1>4, <1>5, <1>7 DEF OperandsCode
  <2> QED BY <2>1, <2>2, <1>2, <1>5 DEF P
<1>8. CASE Kind(e) = "assign"
  <2>1. CodeOf(codes, e) = AssignCode(codes, e)
    BY <1>8, Zenon DEF CodeOf
  <2>2. <<Do("store", Address[Kid(e, 1)])>> \in Seq(P)
    BY <1>2, <1>4, <1>8, Trees, AddressType
  <2>3. AssignCode(codes, e) \in Seq(P)
    BY <1>3, <1>4, <1>5, <1>8, <2>2 DEF AssignCode
  <2> QED BY <2>1, <2>3 DEF P
<1>9. CASE Kind(e) \notin {"call", "binary", "assign"}
  <2>1. CodeOf(codes, e) = << >>
    BY <1>9, Zenon DEF CodeOf
  <2> QED BY <2>1
<1> QED BY <1>6, <1>7, <1>8, <1>9

\* No instruction of an expression ends a block
LEMMA ExprCodeType ==
  ASSUME ast \in Asts
  PROVE  \A e \in Nodes : ExprCode[e] \in Seq(PlainCode(Ops))
<1> DEFINE S == Seq(PlainCode(Ops))
           Operands(f, e) == [k \in 1 .. Len(Kids(e)) |-> f[Kid(e, k)]]
           Body(f, e) == CodeOf(Operands(f, e), e)
           G == [e \in Nodes |-> [f \in [Nodes -> S] |-> Body(f, e)]]
<1>1. ExprCode = CHOOSE f : f = [e \in Nodes |-> Body(f, e)]
  BY DEF ExprCode
<1>2. PICK N \in Nat : Nodes = 1 .. N
  BY NodesFinite
<1> DEFINE rank == [e \in Nodes |-> N - e]
<1>3. rank \in [Nodes -> 0 .. N] /\ rank \in [Nodes -> Nat]
  BY <1>2
<1>4. \A e \in Nodes : \A k \in 1 .. Len(Kids(e)) :
         Kid(e, k) \in Nodes /\ rank[Kid(e, k)] < rank[e]
  BY <1>2, Trees
<1> HIDE DEF rank
<1>5. \A e \in Nodes : \A f :
         (\A k \in 1 .. Len(Kids(e)) : f[Kid(e, k)] \in S) => Body(f, e) \in S
  BY CodeOfType
<1>6. G \in [Nodes -> [[Nodes -> S] -> S]]
  BY <1>4, <1>5
<1>7. LowerOnly(Nodes, rank, S, G)
  <2> SUFFICES ASSUME NEW e \in Nodes, NEW f \in [Nodes -> S], NEW g \in [Nodes -> S],
                      \A m \in Nodes : rank[m] < rank[e] => f[m] = g[m]
               PROVE  G[e][f] = G[e][g]
    BY DEF LowerOnly
  <2>1. Operands(f, e) = Operands(g, e)
    BY <1>4
  <2> QED BY <2>1
<1> HIDE DEF S
<1>8. Solvable(Nodes, S, G)
  <2> HIDE DEF G
  <2>1. << >> \in S
    BY EmptySeq DEF S
  <2> QED BY <1>2, <1>3, <1>6, <1>7, <2>1, RecursionExists, Zenon
<1>9. PICK f \in [Nodes -> S] : \A e \in Nodes : f[e] = G[e][f]
  BY <1>8 DEF Solvable
<1> HIDE DEF Operands
<1>10. f = [e \in Nodes |-> Body(f, e)]
  BY <1>9
<1>11. ExprCode = [e \in Nodes |-> Body(ExprCode, e)]
  BY <1>1, <1>10
<1> DEFINE B == {e \in Nodes : ExprCode[e] \in S}
<1>12. Inductive(Nodes, rank, B)
  <2> SUFFICES ASSUME NEW e \in Nodes, \A m \in Nodes : rank[m] < rank[e] => m \in B
               PROVE  e \in B
    BY DEF Inductive
  <2>1. \A k \in 1 .. Len(Kids(e)) : ExprCode[Kid(e, k)] \in S
    BY <1>4
  <2>2. Body(ExprCode, e) \in S
    BY <2>1, <1>5
  <2>3. ExprCode[e] = Body(ExprCode, e)
    BY <1>11
  <2> QED BY <2>2, <2>3
<1>13. B = Nodes
  <2> B \in SUBSET Nodes
    OBVIOUS
  <2> HIDE DEF B
  <2> QED BY <1>3, <1>12, RankInduction
<1> QED BY <1>13 DEF S

LEMMA ValueCodeType ==
  ASSUME ast \in Asts, NEW e \in Nodes
  PROVE  ValueCode(e) \in Seq(PlainCode(Ops))
BY ExprCodeType, LoadMemoryType, ConcatProperties DEF ValueCode

(***************************************************************************)
(* Blocks: code is inserted at the end of an open one, which a terminator  *)
(* closes, and new ones are open.                                          *)
(***************************************************************************)
LEMMA Emitted ==
  ASSUME NEW P, NEW bs \in Seq(Seq(P)), NEW b \in 1 .. Len(bs), NEW c \in Seq(P)
  PROVE  /\ Emit(bs, b, c) \in Seq(Seq(P)) /\ Len(Emit(bs, b, c)) = Len(bs)
         /\ Emit(bs, b, c)[b] = bs[b] \o c
         /\ \A d \in 1 .. Len(bs) : d # b => Emit(bs, b, c)[d] = bs[d]
<1>1. bs[b] \in Seq(P)
  OBVIOUS
<1>2. bs[b] \o c \in Seq(P)
  BY <1>1, ConcatProperties
<1>3. Emit(bs, b, c) = [bs EXCEPT ![b] = bs[b] \o c]
  BY DEF Emit
<1> QED BY <1>2, <1>3, ExceptSeq, SMTT(30)

\* createBlock appends an empty block and leaves the others alone
LEMMA Created ==
  ASSUME NEW P, NEW bs \in Seq(Seq(P))
  PROVE  /\ CreateBlock(bs) \in Seq(Seq(P)) /\ Len(CreateBlock(bs)) = Len(bs) + 1
         /\ CreateBlock(bs)[Len(bs) + 1] = << >>
         /\ \A d \in 1 .. Len(bs) : CreateBlock(bs)[d] = bs[d]
<1>1. << >> \in Seq(P)
  BY EmptySeq
<1> QED BY <1>1, AppendProperties DEF CreateBlock

\* A block that is branched to stays one
LEMMA BranchedAfterEmit ==
  ASSUME NEW P, NEW bs \in Seq(Seq(P)), NEW b \in 1 .. Len(bs), NEW c \in Seq(P),
         NEW d, Branched(bs, d)
  PROVE  Branched(Emit(bs, b, c), d)
<1>0. PICK p \in 1 .. Len(bs) : \E k \in 1 .. Len(bs[p]) : d \in Targets(bs[p][k])
  BY DEF Branched
<1>1. PICK k \in 1 .. Len(bs[p]) : d \in Targets(bs[p][k])
  BY <1>0
<1>2. bs[p] \in Seq(P) /\ Len(bs[p]) \in Nat
  OBVIOUS
<1>3. CASE p = b
  <2>1. Emit(bs, b, c)[p] = bs[p] \o c
    BY <1>3, Emitted
  <2>2. k \in 1 .. Len(bs[p] \o c) /\ (bs[p] \o c)[k] = bs[p][k]
    BY <1>2, ConcatProperties
  <2>3. p \in 1 .. Len(Emit(bs, b, c))
    BY Emitted
  <2> QED BY <1>1, <2>1, <2>2, <2>3 DEF Branched
<1>4. CASE p # b
  <2>1. Emit(bs, b, c)[p] = bs[p] /\ p \in 1 .. Len(Emit(bs, b, c))
    BY <1>4, Emitted
  <2> QED BY <1>1, <2>1 DEF Branched
<1> QED BY <1>3, <1>4

\* Straight code behind straight code is straight
LEMMA StraightOn ==
  ASSUME NEW P, NEW s \in Seq(P), NEW c \in Seq(P), Straight(s), Straight(c)
  PROVE  Straight(s \o c)
<1> DEFINE e == s \o c
<1>1. PICK m \in Nat, n \in Nat : m = Len(s) /\ n = Len(c)
  OBVIOUS
<1>2. Len(e) = m + n /\ \A k \in 1 .. m + n : e[k] = IF k <= m THEN s[k] ELSE c[k - m]
  BY <1>1, ConcatProperties, SMTT(30)
<1> HIDE DEF e
<1>3. ASSUME NEW k \in 1 .. m + n PROVE e[k].op \notin Terminators
  <2>1. CASE k <= m
    <3>1. k \in 1 .. m
      BY <2>1
    <3> QED BY <1>1, <1>2, <2>1, <3>1 DEF Straight
  <2>2. CASE ~(k <= m)
    <3>1. k - m \in 1 .. n
      BY <2>2
    <3> QED BY <1>1, <1>2, <2>2, <3>1 DEF Straight
  <2> QED BY <2>1, <2>2
<1>4. Straight(e)
  BY <1>2, <1>3 DEF Straight
<1> QED BY <1>4 DEF e

\* Straight code can be inserted into an open block
LEMMA BlocksKept ==
  ASSUME NEW P, NEW bs \in Seq(Seq(P)), NEW open, NEW awaited, BlocksOk(bs, open, awaited),
         NEW b \in open, NEW c \in Seq(P), Straight(c)
  PROVE  BlocksOk(Emit(bs, b, c), open, awaited)
<1> DEFINE es == Emit(bs, b, c)
<1>1. open \subseteq 1 .. Len(bs) /\ b \in 1 .. Len(bs) /\ Straight(bs[b])
  BY DEF BlocksOk
<1>2. /\ Len(es) = Len(bs) /\ es[b] = bs[b] \o c
      /\ \A d \in 1 .. Len(bs) : d # b => es[d] = bs[d]
  BY <1>1, Emitted, ZenonT(60)
<1>3. Straight(bs[b] \o c)
  <2>1. bs[b] \in Seq(P)
    BY <1>1
  <2> QED BY <1>1, <2>1, StraightOn
<1>4. \A d : Branched(bs, d) => Branched(es, d)
  BY <1>1, BranchedAfterEmit
<1> HIDE DEF es
<1>5. \A d \in 1 .. Len(es) : IF d \in open THEN Straight(es[d]) ELSE Closed(es[d])
  BY <1>2, <1>3 DEF BlocksOk
<1>6. \A d \in 1 .. Len(es) : d = 1 \/ d \in awaited \/ Branched(es, d)
  BY <1>2, <1>4 DEF BlocksOk
<1> QED BY <1>1, <1>2, <1>5, <1>6 DEF BlocksOk, es

\* A terminator closes the block, and branches to those that waited for it
LEMMA BlocksClosed ==
  ASSUME NEW P, NEW bs \in Seq(Seq(P)), NEW open, NEW awaited, BlocksOk(bs, open, awaited),
         NEW b \in open, NEW c \in Seq(P), Straight(c), NEW i \in P, i.op \in Terminators
  PROVE  BlocksOk(Emit(bs, b, c \o <<i>>), open \ {b}, awaited \ Targets(i))
<1> DEFINE e  == c \o <<i>>
           es == Emit(bs, b, e)
<1>1. open \subseteq 1 .. Len(bs) /\ b \in 1 .. Len(bs) /\ Straight(bs[b])
  BY DEF BlocksOk
<1>2. bs[b] \in Seq(P) /\ <<i>> \in Seq(P)
  BY <1>1
<1>3. e \in Seq(P)
  BY <1>2, ConcatProperties
<1>4. /\ Len(es) = Len(bs) /\ es[b] = bs[b] \o e
      /\ \A d \in 1 .. Len(bs) : d # b => es[d] = bs[d]
  <2> HIDE DEF e
  <2> QED BY <1>1, <1>3, Emitted, ZenonT(60)
<1>5. /\ Len(e) = Len(c) + 1 /\ e[Len(e)] = i
      /\ \A k \in 1 .. Len(c) : e[k] = c[k]
  BY <1>2, ConcatProperties
<1>6. \A d : Branched(bs, d) => Branched(es, d)
  <2> HIDE DEF e
  <2> QED BY <1>1, <1>3, BranchedAfterEmit
<1> HIDE DEF e
<1> DEFINE w == bs[b] \o e
<1>7. /\ w \in Seq(P) /\ Len(w) = Len(bs[b]) + Len(c) + 1 /\ w[Len(w)] = i
      /\ \A k \in 1 .. Len(bs[b]) : w[k] = bs[b][k]
      /\ \A k \in Len(bs[b]) + 1 .. Len(w) - 1 : w[k] = c[k - Len(bs[b])]
  <2>1. /\ Len(w) = Len(bs[b]) + Len(e) /\ w \in Seq(P)
        /\ \A k \in 1 .. Len(w) : w[k] = IF k <= Len(bs[b]) THEN bs[b][k] ELSE e[k - Len(bs[b])]
    BY <1>2, <1>3, ConcatProperties
  <2>2. Len(bs[b]) \in Nat /\ Len(c) \in Nat
    BY <1>2
  <2> HIDE DEF w, es
  <2>3. PICK m \in Nat, n \in Nat : m = Len(bs[b]) /\ n = Len(c)
    BY <2>2
  <2>0. Len(w) = m + n + 1 /\ Len(e) = n + 1
    <3>1. Len(w) = m + Len(e) /\ Len(e) = n + 1
      BY <1>5, <2>1, <2>3
    <3> QED BY <3>1
  <2>4. w[Len(w)] = i
    <3>1. Len(w) \in 1 .. Len(w) /\ ~(Len(w) <= m) /\ Len(w) - m = Len(e)
      BY <2>0
    <3> QED BY <3>1, <1>5, <2>1, <2>3
  <2>5. \A k \in 1 .. Len(bs[b]) : w[k] = bs[b][k]
    <3> TAKE k \in 1 .. Len(bs[b])
    <3>1. k \in 1 .. m
      BY <2>3
    <3>2. k \in 1 .. Len(w) /\ k <= m
      BY <2>0, <3>1
    <3> QED BY <3>2, <2>1, <2>3
  <2>6. ASSUME NEW k \in Len(bs[b]) + 1 .. Len(w) - 1 PROVE w[k] = c[k - Len(bs[b])]
    <3>1. k \in m + 1 .. m + n
      BY <2>0, <2>3
    <3>2. k - m \in 1 .. n /\ k \in 1 .. Len(w) /\ ~(k <= m)
      BY <2>0, <3>1
    <3> QED BY <3>2, <1>5, <2>1, <2>3
  <2> QED BY <2>1, <2>0, <2>3, <2>4, <2>5, <2>6
<1> HIDE DEF w
<1>8. Closed(w)
  <2>1. Len(bs[b]) \in Nat /\ Len(c) \in Nat
    BY <1>2
  <2>2. \A k \in 1 .. Len(bs[b]) : w[k].op \notin Terminators
    BY <1>1, <1>7 DEF Straight
  <2>3. \A k \in Len(bs[b]) + 1 .. Len(w) - 1 : w[k].op \notin Terminators
    <3> TAKE k \in Len(bs[b]) + 1 .. Len(w) - 1
    <3>1. k - Len(bs[b]) \in 1 .. Len(c)
      BY <2>1, <1>7
    <3> QED BY <3>1, <1>7 DEF Straight
  <2>4. \A k \in 1 .. Len(w) - 1 : w[k].op \notin Terminators
    BY <2>1, <2>2, <2>3, <1>7
  <2>5. w # << >>
    BY <1>7, <2>1
  <2> QED BY <2>4, <2>5, <1>7 DEF Closed
<1>9. \A d \in Targets(i) : Branched(es, d)
  <2>1. b \in 1 .. Len(es) /\ es[b] = w
    BY <1>1, <1>4 DEF w
  <2>2. Len(w) \in 1 .. Len(es[b]) /\ es[b][Len(w)] = i
    BY <2>1, <1>2, <1>7
  <2> HIDE DEF es
  <2> QED BY <2>1, <2>2 DEF Branched
<1>10. es[b] = w
  BY <1>4 DEF w
<1> HIDE DEF es
<1>11. \A d \in 1 .. Len(es) : IF d \in open \ {b} THEN Straight(es[d]) ELSE Closed(es[d])
  BY <1>4, <1>8, <1>10 DEF BlocksOk
<1>12. \A d \in 1 .. Len(es) : d = 1 \/ d \in awaited \ Targets(i) \/ Branched(es, d)
  BY <1>4, <1>6, <1>9 DEF BlocksOk
<1> QED BY <1>1, <1>4, <1>11, <1>12 DEF BlocksOk, es, e

\* A new block is open and waits to be branched to
LEMMA BlocksCreated ==
  ASSUME NEW P, NEW bs \in Seq(Seq(P)), NEW open, NEW awaited, BlocksOk(bs, open, awaited)
  PROVE  BlocksOk(CreateBlock(bs), open \cup {Len(bs) + 1}, awaited \cup {Len(bs) + 1})
<1> DEFINE n  == Len(bs) + 1
           cs == CreateBlock(bs)
<1>1. Len(bs) \in Nat /\ Len(cs) = n /\ cs[n] = << >> /\ \A d \in 1 .. Len(bs) : cs[d] = bs[d]
  BY Created
<1> HIDE DEF cs
<1>2. Straight(<< >>)
  BY DEF Straight
<1>3. \A d : Branched(bs, d) => Branched(cs, d)
  BY <1>1 DEF Branched
<1>4. open \subseteq 1 .. Len(bs)
  BY DEF BlocksOk
<1>5. \A d \in 1 .. Len(cs) : IF d \in open \cup {n} THEN Straight(cs[d]) ELSE Closed(cs[d])
  BY <1>1, <1>2, <1>4 DEF BlocksOk
<1>6. \A d \in 1 .. Len(cs) : d = 1 \/ d \in awaited \cup {n} \/ Branched(cs, d)
  BY <1>1, <1>3 DEF BlocksOk
<1>7. open \cup {n} \subseteq 1 .. Len(cs)
  <2>1. PICK m \in Nat : m = Len(bs)
    BY <1>1
  <2>2. n = m + 1 /\ Len(cs) = m + 1 /\ open \subseteq 1 .. m
    BY <2>1, <1>1, <1>4
  <2> HIDE DEF n
  <2> QED BY <2>2
<1> HIDE DEF n
<1>8. BlocksOk(cs, open \cup {n}, awaited \cup {n})
  BY <1>5, <1>6, <1>7 DEF BlocksOk
<1> QED BY <1>8 DEF cs, n

\* More blocks may be waited for
LEMMA BlocksAwaited ==
  ASSUME NEW bs, NEW open, NEW awaited, NEW more, awaited \ {Null} \subseteq more,
         BlocksOk(bs, open, awaited)
  PROVE  BlocksOk(bs, open, more)
BY DEF BlocksOk, Null

(***************************************************************************)
(* The stack: its innermost call is replaced, calls another, or ends.      *)
(***************************************************************************)
LEMMA FrontType ==
  ASSUME NEW F, NEW st \in Seq(F), st # << >>
  PROVE  /\ Front(st) \in Seq(F) /\ Len(st) \in Nat \ {0} /\ st[Len(st)] \in F
         /\ Len(Front(st)) = Len(st) - 1
         /\ \A k \in 1 .. Len(st) - 1 : Front(st)[k] = st[k]
<1>1. Len(st) \in Nat \ {0}
  BY EmptySeq
<1>2. st[Len(st)] \in F
  BY <1>1, ElementOfSeq
<1>3. PICK n \in Nat \ {0} : n = Len(st)
  BY <1>1
<1>4. Front(st) = SubSeq(st, 1, n - 1)
  BY <1>3 DEF Front
<1>5. /\ SubSeq(st, 1, n - 1) \in Seq(F) /\ Len(SubSeq(st, 1, n - 1)) = n - 1
      /\ \A k \in 1 .. n - 1 : SubSeq(st, 1, n - 1)[k] = st[k]
  BY <1>3, SubSeqProperties
<1> QED BY <1>1, <1>2, <1>3, <1>4, <1>5

\* Sequences and their fronts
LEMMA FrontEmpty == Front(<< >>) = << >>
BY EmptySeq DEF Front

LEMMA AppendedType ==
  ASSUME NEW F, NEW st \in Seq(F), NEW f \in F
  PROVE  /\ Append(st, f) \in Seq(F) /\ Append(st, f) # << >>
         /\ Len(Append(st, f)) = Len(st) + 1 /\ Append(st, f)[Len(st) + 1] = f
         /\ \A k \in 1 .. Len(st) : Append(st, f)[k] = st[k]
         /\ Front(Append(st, f)) = st
<1>1. /\ Append(st, f) \in Seq(F) /\ Append(st, f) # << >>
      /\ Len(Append(st, f)) = Len(st) + 1 /\ Append(st, f)[Len(st) + 1] = f
      /\ \A k \in 1 .. Len(st) : Append(st, f)[k] = st[k]
  BY AppendProperties
<1> DEFINE s == Append(st, f)
<1>2. Len(st) \in Nat
  OBVIOUS
<1> HIDE DEF s
<1>3. /\ Front(s) \in Seq(F) /\ Len(Front(s)) = Len(s) - 1
      /\ \A k \in 1 .. Len(s) - 1 : Front(s)[k] = s[k]
  BY <1>1, FrontType DEF s
<1>4. Len(s) - 1 = Len(st)
  BY <1>1, <1>2 DEF s
<1>5. Front(s) = st
  BY <1>1, <1>3, <1>4, SeqEqual DEF s
<1> QED BY <1>1, <1>5 DEF s

LEMMA TwoAppended ==
  ASSUME NEW F, NEW st \in Seq(F), NEW f \in F, NEW g \in F
  PROVE  st \o <<f, g>> = Append(Append(st, f), g)
OBVIOUS

\* What the calls own, and wait for
LEMMA AppendedOwns ==
  ASSUME NEW F, NEW st \in Seq(F), NEW f \in F
  PROVE  /\ OwnedBy(Append(st, f)) = OwnedBy(st) \cup Owns(f)
         /\ AwaitedBy(Append(st, f)) = AwaitedBy(st) \cup Awaits(f)
         /\ Apart(Append(st, f)) <=> Apart(st) /\ Owns(f) \cap OwnedBy(st) = {}
<1> DEFINE s == Append(st, f)
<1>0. PICK n \in Nat : n = Len(st)
  OBVIOUS
<1>1. Len(s) = n + 1 /\ s[n + 1] = f /\ \A k \in 1 .. n : s[k] = st[k]
  BY <1>0, AppendedType
<1> HIDE DEF s
<1>2. 1 .. n + 1 = 1 .. n \cup {n + 1} /\ n + 1 \notin 1 .. n
  OBVIOUS
<1>3. OwnedBy(s) = OwnedBy(st) \cup Owns(f)
  <2>1. \A x : x \in OwnedBy(s) <=> \E k \in 1 .. n \cup {n + 1} : x \in Owns(s[k])
    BY <1>1, <1>2 DEF OwnedBy
  <2>2. \A x : x \in OwnedBy(st) <=> \E k \in 1 .. n : x \in Owns(st[k])
    BY <1>0 DEF OwnedBy
  <2> QED BY <1>1, <2>1, <2>2
<1>4. AwaitedBy(s) = AwaitedBy(st) \cup Awaits(f)
  <2>1. \A x : x \in AwaitedBy(s) <=> \E k \in 1 .. n \cup {n + 1} : x \in Awaits(s[k])
    BY <1>1, <1>2 DEF AwaitedBy
  <2>2. \A x : x \in AwaitedBy(st) <=> \E k \in 1 .. n : x \in Awaits(st[k])
    BY <1>0 DEF AwaitedBy
  <2> QED BY <1>1, <2>1, <2>2
<1>5. Owns(f) \cap OwnedBy(st) = {} <=> \A k \in 1 .. n : Owns(f) \cap Owns(st[k]) = {}
  BY <1>0 DEF OwnedBy
<1>6. Apart(s) <=> \A j, k \in 1 .. n \cup {n + 1} : j # k => Owns(s[j]) \cap Owns(s[k]) = {}
  BY <1>1, <1>2 DEF Apart
<1>7. Apart(st) <=> \A j, k \in 1 .. n : j # k => Owns(st[j]) \cap Owns(st[k]) = {}
  BY <1>0 DEF Apart
<1>8. Apart(s) <=> Apart(st) /\ Owns(f) \cap OwnedBy(st) = {}
  <2>1. ASSUME Apart(s) PROVE Apart(st) /\ Owns(f) \cap OwnedBy(st) = {}
    BY <2>1, <1>1, <1>2, <1>5, <1>6, <1>7
  <2>2. ASSUME Apart(st), Owns(f) \cap OwnedBy(st) = {} PROVE Apart(s)
    <3> SUFFICES ASSUME NEW j \in 1 .. n \cup {n + 1}, NEW k \in 1 .. n \cup {n + 1}, j # k
                 PROVE  Owns(s[j]) \cap Owns(s[k]) = {}
      BY <1>6
    <3>1. CASE j \in 1 .. n /\ k \in 1 .. n
      BY <3>1, <2>2, <1>1, <1>7
    <3>2. CASE j = n + 1 /\ k \in 1 .. n
      BY <3>2, <2>2, <1>1, <1>5
    <3>3. CASE j \in 1 .. n /\ k = n + 1
      BY <3>3, <2>2, <1>1, <1>5
    <3> QED BY <3>1, <3>2, <3>3
  <2> QED BY <2>1, <2>2
<1> QED BY <1>3, <1>4, <1>8 DEF s

LEMMA FrontAppended ==
  ASSUME NEW F, NEW st \in Seq(F), st # << >>
  PROVE  st = Append(Front(st), st[Len(st)])
<1> DEFINE s == Append(Front(st), st[Len(st)])
<1>0. PICK n \in Nat : Len(st) = n + 1
  <2>1. PICK m \in Nat \ {0} : m = Len(st)
    BY FrontType
  <2>2. m - 1 \in Nat /\ m = (m - 1) + 1
    OBVIOUS
  <2> QED BY <2>1, <2>2
<1>1. /\ Front(st) \in Seq(F) /\ st[n + 1] \in F /\ Len(Front(st)) = n
      /\ \A k \in 1 .. n : Front(st)[k] = st[k]
  BY <1>0, FrontType
<1>2. s \in Seq(F) /\ Len(s) = n + 1 /\ s[n + 1] = st[n + 1] /\ \A k \in 1 .. n : s[k] = st[k]
  BY <1>0, <1>1, AppendedType
<1> HIDE DEF s
<1>3. \A k \in 1 .. n + 1 : s[k] = st[k]
  <2>1. 1 .. n + 1 = 1 .. n \cup {n + 1}
    OBVIOUS
  <2> QED BY <2>1, <1>2
<1>4. s = st
  BY <1>0, <1>2, <1>3, SeqEqual
<1> QED BY <1>4 DEF s

\* The invariant, of the calls below the innermost and of the innermost
Waiting(tree, st) == \A k \in 1 .. Len(st) : FrameOk(tree, st[k]) /\ st[k].pc \in Suspended
Parts(tree, st, f, r, b, bs) ==
  /\ Waiting(tree, st) /\ Apart(st)
  /\ FrameOk(tree, f) /\ InState(f, r)
  /\ PassedOn(f, r) \subseteq {b}
  /\ PassedOn(f, r) \cap OwnedBy(st) = {} /\ PassedOn(f, r) \cap Owns(f) = {}
  /\ Owns(f) \cap OwnedBy(st) = {}
  /\ BlocksOk(bs, PassedOn(f, r) \cup OwnedBy(st) \cup Owns(f), AwaitedBy(st) \cup Awaits(f))

\* Everything below the innermost call waits
LEMMA AppendedWaits ==
  ASSUME NEW F, NEW st \in Seq(F), NEW f \in F, NEW tree
  PROVE  Waiting(tree, Append(st, f)) <=>
           Waiting(tree, st) /\ FrameOk(tree, f) /\ f.pc \in Suspended
<1> DEFINE s == Append(st, f)
<1>0. PICK n \in Nat : n = Len(st)
  OBVIOUS
<1>1. Len(s) = n + 1 /\ s[n + 1] = f /\ \A k \in 1 .. n : s[k] = st[k]
  BY <1>0, AppendedType
<1> HIDE DEF s
<1>2. 1 .. n + 1 = 1 .. n \cup {n + 1}
  OBVIOUS
<1>3. Waiting(tree, s) <=> \A k \in 1 .. n \cup {n + 1} : FrameOk(tree, s[k]) /\ s[k].pc \in Suspended
  BY <1>1, <1>2 DEF Waiting
<1>4. Waiting(tree, st) <=> \A k \in 1 .. n : FrameOk(tree, st[k]) /\ st[k].pc \in Suspended
  BY <1>0 DEF Waiting
<1> QED BY <1>1, <1>3, <1>4 DEF s

\* The calls are those that wait and the innermost one
LEMMA AppendedFrames ==
  ASSUME NEW F, NEW st \in Seq(F), NEW f \in F, NEW tree, NEW r
  PROVE  FramesOk(tree, Append(st, f), r) <=>
           Waiting(tree, st) /\ FrameOk(tree, f) /\ InState(f, r)
<1> DEFINE s == Append(st, f)
<1>0. PICK n \in Nat : n = Len(st)
  OBVIOUS
<1>1. Len(s) = n + 1 /\ s[n + 1] = f /\ s # << >> /\ \A k \in 1 .. n : s[k] = st[k]
  BY <1>0, AppendedType
<1> HIDE DEF s
<1>2. 1 .. n + 1 = 1 .. n \cup {n + 1} /\ n + 1 - 1 = n
  OBVIOUS
<1>3. FramesOk(tree, s, r) <=>
        /\ \A k \in 1 .. n \cup {n + 1} : FrameOk(tree, s[k])
        /\ \A k \in 1 .. n : s[k].pc \in Suspended
        /\ InState(f, r)
  BY <1>1, <1>2 DEF FramesOk
<1>4. Waiting(tree, st) <=> \A k \in 1 .. n : FrameOk(tree, st[k]) /\ st[k].pc \in Suspended
  BY <1>0 DEF Waiting
<1> QED BY <1>1, <1>3, <1>4 DEF s

\* The invariant, taken apart into that of the innermost call and of the others
LEMMA StackAppended ==
  ASSUME NEW F, NEW st \in Seq(F), NEW f \in F, NEW tree, NEW r, NEW b, NEW bs
  PROVE  StackInv(tree, Append(st, f), r, b, bs) <=> Parts(tree, st, f, r, b, bs)
<1> DEFINE s == Append(st, f)
<1>1. FramesOk(tree, s, r) <=> Waiting(tree, st) /\ FrameOk(tree, f) /\ InState(f, r)
  BY AppendedFrames
<1>2. Position(s, r) = PassedOn(f, r)
  BY AppendedType DEF Position
<1>3. /\ OwnedBy(s) = OwnedBy(st) \cup Owns(f)
      /\ AwaitedBy(s) = AwaitedBy(st) \cup Awaits(f)
      /\ Apart(s) <=> Apart(st) /\ Owns(f) \cap OwnedBy(st) = {}
  BY AppendedOwns
<1> HIDE DEF s
<1> DEFINE P == PassedOn(f, r)
           O == OwnedBy(st)
           W == Owns(f)
<1>4. PositionOk(s, r, b) <=>
        /\ P \subseteq {b} /\ P \cap O = {} /\ P \cap W = {}
        /\ Apart(st) /\ W \cap O = {}
  <2>1. PositionOk(s, r, b) <=> P \subseteq {b} /\ P \cap (O \cup W) = {} /\ Apart(s)
    BY <1>2, <1>3 DEF PositionOk
  <2> HIDE DEF P, O, W
  <2>2. P \cap (O \cup W) = {} <=> P \cap O = {} /\ P \cap W = {}
    OBVIOUS
  <2> QED BY <2>1, <2>2, <1>3 DEF O, W
<1>5. Position(s, r) \cup OwnedBy(s) = P \cup O \cup W
  BY <1>2, <1>3
<1>6. BlocksOk(bs, Position(s, r) \cup OwnedBy(s), AwaitedBy(s))
        <=> BlocksOk(bs, P \cup O \cup W, AwaitedBy(st) \cup Awaits(f))
  BY <1>3, <1>5
<1> HIDE DEF P, O, W
<1>7. StackInv(tree, s, r, b, bs) <=>
        FramesOk(tree, s, r) /\ PositionOk(s, r, b)
          /\ BlocksOk(bs, Position(s, r) \cup OwnedBy(s), AwaitedBy(s))
  BY DEF StackInv
<1>8. Parts(tree, st, f, r, b, bs) <=>
        /\ Waiting(tree, st) /\ Apart(st) /\ FrameOk(tree, f) /\ InState(f, r)
        /\ P \subseteq {b} /\ P \cap O = {} /\ P \cap W = {} /\ W \cap O = {}
        /\ BlocksOk(bs, P \cup O \cup W, AwaitedBy(st) \cup Awaits(f))
  BY DEF Parts, P, O, W
<1>9. StackInv(tree, s, r, b, bs) <=> Parts(tree, st, f, r, b, bs)
  BY <1>1, <1>4, <1>6, <1>7, <1>8
<1> QED BY <1>9 DEF s

LEMMA StackParts ==
  ASSUME NEW F, NEW st \in Seq(F), st # << >>, NEW tree, NEW r, NEW b, NEW bs,
         StackInv(tree, st, r, b, bs)
  PROVE  Parts(tree, Front(st), st[Len(st)], r, b, bs)
<1>1. Front(st) \in Seq(F) /\ st[Len(st)] \in F
  BY FrontType
<1>2. StackInv(tree, Append(Front(st), st[Len(st)]), r, b, bs)
  BY FrontAppended, Zenon
<1> QED BY <1>1, <1>2, StackAppended, Zenon

\* A call of f that begins at the position of the builder
LEMMA StackCalls ==
  ASSUME NEW F, NEW st \in Seq(F), NEW f \in F, NEW g \in F, NEW tree, NEW b, NEW bs,
         Waiting(tree, st), Apart(st), FrameOk(tree, f), f.pc \in Suspended,
         Owns(f) \cap OwnedBy(st) = {},
         FrameOk(tree, g), g.pc \in {"stmt", "meta"},
         g.block = b, b \notin OwnedBy(st) \cup Owns(f),
         BlocksOk(bs, {b} \cup OwnedBy(st) \cup Owns(f), AwaitedBy(st) \cup Awaits(f))
  PROVE  StackInv(tree, st \o <<f, g>>, Pending, b, bs)
<1> DEFINE s == Append(st, f)
<1>1. s \in Seq(F)
  BY AppendedType
<1>2. Waiting(tree, s)
  BY AppendedWaits
<1>3. OwnedBy(s) = OwnedBy(st) \cup Owns(f) /\ AwaitedBy(s) = AwaitedBy(st) \cup Awaits(f) /\ Apart(s)
  BY AppendedOwns
<1> HIDE DEF s
<1>4. Owns(g) = {} /\ Awaits(g) = {} /\ InState(g, Pending)
  BY DEF Owns, Awaits, IfPcs, InState, Active
<1>5. b # Null
  BY DEF FrameOk
<1>6. PassedOn(g, Pending) = {b}
  BY <1>5 DEF PassedOn
<1>7. {b} \cup OwnedBy(s) \cup {} = {b} \cup OwnedBy(st) \cup Owns(f)
      /\ AwaitedBy(s) \cup {} = AwaitedBy(st) \cup Awaits(f)
  BY <1>3
<1>8. BlocksOk(bs, {b} \cup OwnedBy(s) \cup {}, AwaitedBy(s) \cup {})
  BY <1>7
<1>9. Parts(tree, s, g, Pending, b, bs)
  BY <1>2, <1>3, <1>4, <1>6, <1>8 DEF Parts
<1>10. StackInv(tree, Append(s, g), Pending, b, bs)
  BY <1>1, <1>9, StackAppended, Zenon
<1>11. st \o <<f, g>> = Append(Append(st, f), g)
  BY TwoAppended
<1> QED BY <1>10, <1>11 DEF s

\* A call that hands the position, or nothing, to the one that waits for it
LEMMA StackReturns ==
  ASSUME NEW st, NEW tree, NEW r, NEW b, NEW bs, r # Pending,
         Waiting(tree, st), Apart(st),
         {r} \ {Null} \subseteq {b}, ({r} \ {Null}) \cap OwnedBy(st) = {},
         BlocksOk(bs, ({r} \ {Null}) \cup OwnedBy(st), AwaitedBy(st)),
         st # << >> => Len(st) \in 1 .. Len(st) /\ Len(st) \in Nat
  PROVE  StackInv(tree, st, r, b, bs)
<1>1. Position(st, r) = {r} \ {Null}
  BY DEF Position, PassedOn
<1>2. FramesOk(tree, st, r)
  <2>1. \A k \in 1 .. Len(st) : FrameOk(tree, st[k]) /\ st[k].pc \in Suspended
    BY DEF Waiting
  <2>2. \A k \in 1 .. Len(st) - 1 : st # << >> => k \in 1 .. Len(st)
    OBVIOUS
  <2> QED BY <2>1, <2>2 DEF FramesOk, InState
<1> QED BY <1>1, <1>2 DEF StackInv, PositionOk

(***************************************************************************)
(* The types, which only grow with the blocks.                             *)
(***************************************************************************)
LEMMA TypesGrow ==
  ASSUME NEW ops, NEW n \in Nat, NEW m \in Nat, n <= m
  PROVE  CodeIn(ops, n) \subseteq CodeIn(ops, m) /\ FrameIn(n) \subseteq FrameIn(m)
<1>1. 1 .. n \subseteq 1 .. m /\ 0 .. n \subseteq 0 .. m
  OBVIOUS
<1>2. CodeIn(ops, n) \subseteq CodeIn(ops, m)
  BY <1>1 DEF CodeIn
<1>3. FrameIn(n) \subseteq FrameIn(m)
  BY <1>1 DEF FrameIn
<1> QED BY <1>2, <1>3

\* Code without terminators branches nowhere
LEMMA PlainInCode ==
  ASSUME NEW ops, Ops \subseteq ops, NEW n
  PROVE  PlainCode(Ops) \subseteq CodeIn(ops, n)
BY DEF PlainCode, CodeIn, Terminators

LEMMA PlainStraight ==
  ASSUME NEW ops, NEW c \in Seq(PlainCode(ops))
  PROVE  Straight(c)
<1>1. \A k \in 1 .. Len(c) : c[k] \in PlainCode(ops)
  BY ElementOfSeq
<1> QED BY <1>1 DEF PlainCode, Straight

\* What the invariant says of the innermost call
LEMMA TopFacts ==
  ASSUME NEW ops, GenTypes(ops), GenInv, stack # << >>
  PROVE  /\ Len(blocks) \in Nat
         /\ Front(stack) \in Seq(FrameIn(Len(blocks))) /\ Top \in FrameIn(Len(blocks))
         /\ Front(stack) # << >> =>
              Len(Front(stack)) \in Nat /\ Len(Front(stack)) \in 1 .. Len(Front(stack))
         /\ Parts(ast, Front(stack), Top, ret, builder, blocks)
<1>1. stack \in Seq(FrameIn(Len(blocks))) /\ Len(blocks) \in Nat
  BY DEF GenTypes
<1>2. StackInv(ast, stack, ret, builder, blocks)
  BY DEF GenInv
<1>3. Front(stack) \in Seq(FrameIn(Len(blocks))) /\ Top \in FrameIn(Len(blocks))
  BY <1>1, FrontType DEF Top
<1>4. Front(stack) # << >> => Len(Front(stack)) \in Nat \ {0}
  BY <1>3, EmptySeq
<1>5. Parts(ast, Front(stack), Top, ret, builder, blocks)
  BY <1>1, <1>2, StackParts, Zenon DEF Top
<1> QED BY <1>1, <1>3, <1>4, <1>5

\* The three changes of the stack keep the invariant: a return ...
LEMMA ReturnKeeps ==
  ASSUME NEW ops, GenTypes(ops), GenInv, stack # << >>, NEW r, Return(r), ast' = ast,
         r \in 0 .. Len(blocks'), Len(blocks) <= Len(blocks'),
         blocks' \in Seq(Seq(CodeIn(ops, Len(blocks')))),
         builder' \in 1 .. Len(blocks'), values' \in Seq(SUBSET Nodes),
         r # Null => r = builder' /\ r \notin OwnedBy(Front(stack)),
         BlocksOk(blocks', ({r} \ {Null}) \cup OwnedBy(Front(stack)), AwaitedBy(Front(stack))),
         status' \notin {"running", "returned"}
  PROVE  GenTypes(ops)' /\ GenInv'
<1>1. stack' = Front(stack) /\ ret' = r
  BY DEF Return
<1>2. Len(blocks') \in Nat /\ r # Pending
  BY DEF Pending
<1>3. /\ Front(stack) \in Seq(FrameIn(Len(blocks))) /\ Len(blocks) \in Nat
      /\ Front(stack) # << >> =>
              Len(Front(stack)) \in Nat /\ Len(Front(stack)) \in 1 .. Len(Front(stack))
      /\ Waiting(ast, Front(stack)) /\ Apart(Front(stack))
  BY TopFacts DEF Parts
<1>4. stack' \in Seq(FrameIn(Len(blocks')))
  <2>1. FrameIn(Len(blocks)) \subseteq FrameIn(Len(blocks'))
    BY <1>2, <1>3, TypesGrow
  <2> QED BY <1>1, <1>3, <2>1, SeqMonotonic
<1>5. StackInv(ast, Front(stack), r, builder', blocks')
  <2>1. {r} \ {Null} \subseteq {builder'} /\ ({r} \ {Null}) \cap OwnedBy(Front(stack)) = {}
    OBVIOUS
  <2> QED BY <1>2, <1>3, <2>1, StackReturns
<1>6. GenInv'
  BY <1>1, <1>2, <1>5 DEF GenInv
<1>7. GenTypes(ops)'
  BY <1>1, <1>4 DEF GenTypes
<1> QED BY <1>6, <1>7

\* ... the next place in the innermost call ...
LEMMA GotoKeeps ==
  ASSUME NEW ops, GenTypes(ops), GenInv, stack # << >>, NEW f, Goto(f), ast' = ast,
         f \in FrameIn(Len(blocks')), Len(blocks) <= Len(blocks'),
         ret' \in 0 .. Len(blocks') \cup {Pending},
         blocks' \in Seq(Seq(CodeIn(ops, Len(blocks')))),
         builder' \in 1 .. Len(blocks'), values' \in Seq(SUBSET Nodes),
         Parts(ast, Front(stack), f, ret', builder', blocks'),
         status' \notin {"running", "returned"}
  PROVE  GenTypes(ops)' /\ GenInv'
<1>1. stack' = Append(Front(stack), f)
  BY DEF Goto
<1>2. Len(blocks') \in Nat
  OBVIOUS
<1>3. Front(stack) \in Seq(FrameIn(Len(blocks'))) 
  <2>1. Front(stack) \in Seq(FrameIn(Len(blocks))) /\ Len(blocks) \in Nat
    BY TopFacts
  <2>2. FrameIn(Len(blocks)) \subseteq FrameIn(Len(blocks'))
    BY <1>2, <2>1, TypesGrow
  <2> QED BY <2>1, <2>2, SeqMonotonic
<1>4. stack' \in Seq(FrameIn(Len(blocks'))) /\ stack' # << >>
  BY <1>1, <1>3, AppendedType
<1>5. StackInv(ast, stack', ret', builder', blocks')
  BY <1>1, <1>3, StackAppended, Zenon
<1>6. GenInv'
  BY <1>4, <1>5 DEF GenInv
<1>7. GenTypes(ops)'
  BY <1>4 DEF GenTypes
<1> QED BY <1>6, <1>7

\* ... and a nested call
LEMMA CallKeeps ==
  ASSUME NEW ops, GenTypes(ops), GenInv, stack # << >>, NEW f, NEW g, Call(f, g), ast' = ast,
         f \in FrameIn(Len(blocks')), g \in FrameIn(Len(blocks')),
         Len(blocks) <= Len(blocks'), ret' = Pending,
         blocks' \in Seq(Seq(CodeIn(ops, Len(blocks')))),
         builder' \in 1 .. Len(blocks'), values' \in Seq(SUBSET Nodes),
         FrameOk(ast, f), f.pc \in Suspended, Owns(f) \cap OwnedBy(Front(stack)) = {},
         g.pc \in {"stmt", "meta"}, g.block = builder', g.cont = Null, g.falseBlock = Null,
         builder' \notin OwnedBy(Front(stack)) \cup Owns(f),
         BlocksOk(blocks', {builder'} \cup OwnedBy(Front(stack)) \cup Owns(f),
                  AwaitedBy(Front(stack)) \cup Awaits(f)),
         status' \notin {"running", "returned"}
  PROVE  GenTypes(ops)' /\ GenInv'
<1>1. stack' = Front(stack) \o <<f, g>>
  BY DEF Call
<1>2. Len(blocks') \in Nat
  OBVIOUS
<1>3. Front(stack) \in Seq(FrameIn(Len(blocks')))  /\ Waiting(ast, Front(stack)) /\ Apart(Front(stack))
  <2>1. Front(stack) \in Seq(FrameIn(Len(blocks))) /\ Len(blocks) \in Nat
        /\ Waiting(ast, Front(stack)) /\ Apart(Front(stack))
    BY TopFacts DEF Parts
  <2>2. FrameIn(Len(blocks)) \subseteq FrameIn(Len(blocks'))
    BY <1>2, <2>1, TypesGrow
  <2> QED BY <2>1, <2>2, SeqMonotonic
<1>4. stack' \in Seq(FrameIn(Len(blocks'))) /\ stack' # << >>
  <2> DEFINE s == Append(Front(stack), f)
  <2>1. s \in Seq(FrameIn(Len(blocks')))
    BY <1>3, AppendedType
  <2>2. stack' = Append(s, g)
    BY <1>1, <1>3, TwoAppended
  <2> HIDE DEF s
  <2>3. Append(s, g) \in Seq(FrameIn(Len(blocks'))) /\ Append(s, g) # << >>
    BY <2>1, AppendedType
  <2> QED BY <2>2, <2>3
<1>5. FrameOk(ast, g)
  BY DEF FrameOk, IfPcs, Null
<1>6. StackInv(ast, stack', Pending, builder', blocks')
  <2> HIDE DEF Pending
  <2> QED BY <1>1, <1>3, <1>5, StackCalls
<1>7. GenInv'
  BY <1>4, <1>6 DEF GenInv
<1>8. GenTypes(ops)'
  BY <1>4 DEF GenTypes
<1> QED BY <1>7, <1>8

(***************************************************************************)
(* Where code is inserted: at the position of the innermost call, which no *)
(* if owns and which is open.                                              *)
(***************************************************************************)
LEMMA AtPosition ==
  ASSUME NEW ops, GenTypes(ops), GenInv, stack # << >>, ret = Pending, Top.block # Null,
         Top.pc \in {"stmt", "meta", "children", "metaChildren"}
  PROVE  /\ Top.block = builder /\ builder \notin OwnedBy(Front(stack))
         /\ BlocksOk(blocks, {builder} \cup OwnedBy(Front(stack)), AwaitedBy(Front(stack)))
<1>1. Parts(ast, Front(stack), Top, Pending, builder, blocks)
  BY TopFacts
<1>2. Owns(Top) = {} /\ Awaits(Top) = {} /\ PassedOn(Top, Pending) = {Top.block}
  BY DEF Owns, Awaits, IfPcs, PassedOn
<1>3. Top.block = builder /\ builder \notin OwnedBy(Front(stack))
  BY <1>1, <1>2 DEF Parts
<1>4. BlocksOk(blocks, {builder} \cup OwnedBy(Front(stack)) \cup {}, AwaitedBy(Front(stack)) \cup {})
  BY <1>1, <1>2, <1>3 DEF Parts
<1> QED BY <1>3, <1>4

\* The same where a statement begins
LEMMA AtStmt ==
  ASSUME NEW ops, GenTypes(ops), GenInv, Idle("stmt") \/ Idle("meta")
  PROVE  /\ stack # << >> /\ ret = Pending /\ status = "generating"
         /\ Top \in FrameIn(Len(blocks)) /\ Top.block # Null
         /\ Top.block = builder /\ builder \notin OwnedBy(Front(stack))
         /\ BlocksOk(blocks, {builder} \cup OwnedBy(Front(stack)), AwaitedBy(Front(stack)))
<1>1. stack # << >> /\ ret = Pending /\ status = "generating" /\ Top.pc \in {"stmt", "meta"}
  BY DEF Idle, At, Generating
<1>2. Top \in FrameIn(Len(blocks)) /\ FrameOk(ast, Top)
  BY <1>1, TopFacts DEF Parts
<1>3. Top.block # Null
  BY <1>1, <1>2 DEF FrameOk
<1> QED BY <1>1, <1>2, <1>3, AtPosition

\* The code of expressions may be inserted
LEMMA CodeTypes ==
  ASSUME NEW ops, Ops \subseteq ops, NEW c \in Seq(PlainCode(Ops)), NEW n
  PROVE  c \in Seq(CodeIn(ops, n)) /\ Straight(c)
<1>1. PlainCode(Ops) \subseteq CodeIn(ops, n)
  BY PlainInCode
<1> QED BY <1>1, SeqMonotonic, PlainStraight

\* A statement that only inserts code and hands on its block
LEMMA InsertReturnKeeps ==
  ASSUME NEW ops, GenTypes(ops), GenInv, Idle("stmt"), NEW c, c \in Seq(CodeIn(ops, Len(blocks))),
         Straight(c), blocks' = Emit(blocks, builder, c), Return(Top.block),
         ast' = ast, builder' = builder, values' \in Seq(SUBSET Nodes),
         status' \notin {"running", "returned"}
  PROVE  GenTypes(ops)' /\ GenInv'
<1> DEFINE P == CodeIn(ops, Len(blocks))
<1>1. /\ blocks \in Seq(Seq(P)) /\ builder \in 1 .. Len(blocks) /\ Len(blocks) \in Nat
  BY DEF GenTypes
<1>2. /\ stack # << >> /\ ret = Pending /\ Top.block # Null
      /\ Top.block = builder /\ builder \notin OwnedBy(Front(stack))
      /\ BlocksOk(blocks, {builder} \cup OwnedBy(Front(stack)), AwaitedBy(Front(stack)))
  BY AtStmt
<1>3. blocks' \in Seq(Seq(P)) /\ Len(blocks') = Len(blocks)
  BY <1>1, Emitted
<1> DEFINE O == {builder} \cup OwnedBy(Front(stack))
<1>4. BlocksOk(blocks', O, AwaitedBy(Front(stack)))
  <2>1. builder \in O
    OBVIOUS
  <2> HIDE DEF O, P
  <2>2. BlocksOk(Emit(blocks, builder, c), O, AwaitedBy(Front(stack)))
    BY <1>1, <1>2, <2>1, BlocksKept DEF O, P
  <2> QED BY <2>2
<1>5. Top.block \in 0 .. Len(blocks') /\ Len(blocks) <= Len(blocks') /\ builder' \in 1 .. Len(blocks')
  BY <1>1, <1>2, <1>3
<1>6. ({Top.block} \ {Null}) \cup OwnedBy(Front(stack)) = O
  BY <1>2
<1>7. BlocksOk(blocks', ({Top.block} \ {Null}) \cup OwnedBy(Front(stack)), AwaitedBy(Front(stack)))
  BY <1>4, <1>6
<1>8. blocks' \in Seq(Seq(CodeIn(ops, Len(blocks'))))
  BY <1>3
<1>9. Top.block # Null => Top.block = builder' /\ Top.block \notin OwnedBy(Front(stack))
  BY <1>2
<1> QED BY <1>2, <1>5, <1>7, <1>8, <1>9, ReturnKeeps

\* codegenStmt(ExpressionStmt) and codegenStmt(DeclStmt)
LEMMA ExpressionStmtKeeps ==
  ASSUME NEW ops, Ops \subseteq ops, GenTypes(ops), GenInv, CodegenExpressionStmt
  PROVE  GenTypes(ops)' /\ GenInv'
<1> DEFINE e == Kid(Top.node, 1)
<1>1. Idle("stmt") /\ Kind(Top.node) = "expr"
  BY DEF CodegenExpressionStmt, Stmt
<1>2. Top \in FrameIn(Len(blocks)) /\ status = "generating" /\ ast \in Asts /\ values \in Seq(SUBSET Nodes)
  BY <1>1, AtStmt DEF GenTypes
<1>3. e \in Nodes
  <2>1. Top.node \in Nodes
    BY <1>2 DEF FrameIn
  <2>2. Len(Kids(Top.node)) = 1
    BY <1>1, <1>2, <2>1, Trees
  <2>3. 1 \in 1 .. Len(Kids(Top.node))
    BY <2>2
  <2> QED BY <1>2, <2>1, <2>3, KidNode
<1>4. ExprCode[e] \in Seq(PlainCode(Ops))
  BY <1>2, <1>3, ExprCodeType
<1>5. status' \notin {"running", "returned"}
  BY <1>2 DEF CodegenExpressionStmt, CheckLookups
<1> QED
  BY <1>1, <1>2, <1>4, <1>5, CodeTypes, InsertReturnKeeps DEF CodegenExpressionStmt

LEMMA DeclStmtKeeps ==
  ASSUME NEW ops, Ops \subseteq ops, GenTypes(ops), GenInv, CodegenDeclStmt
  PROVE  GenTypes(ops)' /\ GenInv'
<1> DEFINE e == Kid(Top.node, 1)
           c == ValueCode(e) \o <<Do("store", Top.node)>>
<1>1. Idle("stmt") /\ Kind(Top.node) = "decl"
  BY DEF CodegenDeclStmt, Stmt
<1>2. Top \in FrameIn(Len(blocks)) /\ status = "generating" /\ ast \in Asts /\ values \in Seq(SUBSET Nodes)
  BY <1>1, AtStmt DEF GenTypes
<1>3. Top.node \in Nodes /\ e \in Nodes
  <2>1. Top.node \in Nodes
    BY <1>2 DEF FrameIn
  <2>2. Len(Kids(Top.node)) = 1
    BY <1>1, <1>2, <2>1, Trees
  <2>3. 1 \in 1 .. Len(Kids(Top.node))
    BY <2>2
  <2> QED BY <1>2, <2>1, <2>3, KidNode
<1>4. c \in Seq(PlainCode(Ops))
  <2>1. "store" \in Ops \ Terminators
    BY DEF Ops, Terminators
  <2>2. <<Do("store", Top.node)>> \in Seq(PlainCode(Ops))
    BY <1>3, <2>1, DoType
  <2>3. ValueCode(e) \in Seq(PlainCode(Ops))
    BY <1>2, <1>3, ValueCodeType
  <2> QED BY <2>2, <2>3, ConcatProperties
<1>5. status' \notin {"running", "returned"}
  BY <1>2 DEF CodegenDeclStmt, CheckLookups
<1>6. values' \in Seq(SUBSET Nodes)
  <2>1. values' = [values EXCEPT ![Len(values)] = @ \cup {Top.node}]
    BY DEF CodegenDeclStmt
  <2>2. CASE Len(values) \in 1 .. Len(values)
    <3>1. values[Len(values)] \in SUBSET Nodes
      BY <1>2, <2>2, ElementOfSeq
    <3>2. values[Len(values)] \cup {Top.node} \in SUBSET Nodes
      BY <3>1, <1>3
    <3> QED BY <1>2, <2>1, <2>2, <3>2, ExceptSeq
  <2>3. CASE Len(values) \notin 1 .. Len(values)
    <3>1. Len(values) = 0
      BY <1>2, <2>3
    <3>2. values = << >>
      BY <1>2, <3>1
    <3>3. values' = values
      BY <2>1, <3>2
    <3> QED BY <1>2, <3>3
  <2> QED BY <2>2, <2>3
<1> HIDE DEF c
<1>7. blocks' = Emit(blocks, builder, c) /\ Return(Top.block) /\ ast' = ast /\ builder' = builder
  BY DEF CodegenDeclStmt, c
<1> QED
  BY <1>1, <1>4, <1>5, <1>6, <1>7, CodeTypes, InsertReturnKeeps

\* A terminator closes the block that nobody else owns
LEMMA Closing ==
  ASSUME NEW P, NEW bs \in Seq(Seq(P)), NEW b, NEW O, NEW W, b \notin O,
         BlocksOk(bs, {b} \cup O, W), NEW c \in Seq(P), Straight(c), NEW i \in P,
         i.op \in Terminators
  PROVE  BlocksOk(Emit(bs, b, c \o <<i>>), O, W \ Targets(i))
<1> DEFINE A == {b} \cup O
<1>1. b \in A /\ A \ {b} = O
  OBVIOUS
<1> HIDE DEF A
<1>2. BlocksOk(bs, A, W)
  BY DEF A
<1>3. BlocksOk(Emit(bs, b, c \o <<i>>), A \ {b}, W \ Targets(i))
  BY <1>1, <1>2, BlocksClosed
<1> QED BY <1>1, <1>3

\* A statement that ends its block hands on none
LEMMA CloseReturnKeeps ==
  ASSUME NEW ops, Ops \subseteq ops, GenTypes(ops), GenInv, Idle("stmt"),
         NEW c \in Seq(PlainCode(Ops)), NEW n \in Nodes,
         blocks' = Emit(blocks, builder, c \o <<Do("ret", n)>>), Return(Null),
         ast' = ast, builder' = builder, values' = values,
         status' \notin {"running", "returned"}
  PROVE  GenTypes(ops)' /\ GenInv'
<1> DEFINE P == CodeIn(ops, Len(blocks))
           i == Do("ret", n)
           R == Front(stack)
<1>1. /\ blocks \in Seq(Seq(P)) /\ builder \in 1 .. Len(blocks) /\ Len(blocks) \in Nat
      /\ values \in Seq(SUBSET Nodes)
  BY DEF GenTypes
<1>2. /\ stack # << >> /\ builder \notin OwnedBy(R)
      /\ BlocksOk(blocks, {builder} \cup OwnedBy(R), AwaitedBy(R))
  BY AtStmt
<1>3. c \in Seq(P) /\ Straight(c)
  BY CodeTypes
<1>4. i \in P /\ i.op \in Terminators /\ Targets(i) = {}
  BY DEF Do, Instruction, CodeIn, Ops, Terminators, Targets
<1> HIDE DEF P, i, R
<1>5. <<i>> \in Seq(P)
  BY <1>4
<1>6. c \o <<i>> \in Seq(P)
  BY <1>3, <1>5, ConcatProperties
<1>7. blocks' \in Seq(Seq(P)) /\ Len(blocks') = Len(blocks)
  <2>1. blocks' = Emit(blocks, builder, c \o <<i>>)
    BY DEF i
  <2> DEFINE e == c \o <<i>>
  <2>2. e \in Seq(P)
    BY <1>6
  <2> HIDE DEF e
  <2>3. Emit(blocks, builder, e) \in Seq(Seq(P)) /\ Len(Emit(blocks, builder, e)) = Len(blocks)
    BY <1>1, <2>2, Emitted
  <2> QED BY <2>1, <2>3 DEF e
<1>8. BlocksOk(blocks', OwnedBy(R), AwaitedBy(R) \ Targets(i))
  BY <1>1, <1>2, <1>3, <1>4, Closing DEF i
<1>9. BlocksOk(blocks', ({Null} \ {Null}) \cup OwnedBy(R), AwaitedBy(R))
  <2>1. ({Null} \ {Null}) \cup OwnedBy(R) = OwnedBy(R) /\ AwaitedBy(R) \ Targets(i) = AwaitedBy(R)
    BY <1>4
  <2> QED BY <2>1, <1>8
<1>10. Null \in 0 .. Len(blocks') /\ Len(blocks) <= Len(blocks') /\ builder' \in 1 .. Len(blocks')
  BY <1>1, <1>7 DEF Null
<1>11. blocks' \in Seq(Seq(CodeIn(ops, Len(blocks'))))
  BY <1>7 DEF P
<1> QED BY <1>1, <1>2, <1>9, <1>10, <1>11, ReturnKeeps DEF R

\* codegenStmt(ReturnStmt)
LEMMA ReturnStmtKeeps ==
  ASSUME NEW ops, Ops \subseteq ops, GenTypes(ops), GenInv, CodegenReturnStmt
  PROVE  GenTypes(ops)' /\ GenInv'
<1> DEFINE e == Kid(Top.node, 1)
<1>1. Idle("stmt") /\ Kind(Top.node) = "return"
  BY DEF CodegenReturnStmt, Stmt
<1>2. Top \in FrameIn(Len(blocks)) /\ status = "generating" /\ ast \in Asts
  BY <1>1, AtStmt DEF GenTypes
<1>3. Top.node \in Nodes
  BY <1>2 DEF FrameIn
<1>4. /\ Return(Null) /\ ast' = ast /\ builder' = builder /\ values' = values
      /\ status' \notin {"running", "returned"}
  BY <1>2 DEF CodegenReturnStmt, CheckLookups
<1>5. CASE Kids(Top.node) = << >>
  <2>1. blocks' = Emit(blocks, builder, <<Do("ret", Top.node)>>)
    BY <1>5 DEF CodegenReturnStmt
  <2>2. << >> \in Seq(PlainCode(Ops)) /\ << >> \o <<Do("ret", Top.node)>> = <<Do("ret", Top.node)>>
    OBVIOUS
  <2> QED BY <1>1, <1>3, <1>4, <2>1, <2>2, CloseReturnKeeps
<1>6. CASE Kids(Top.node) # << >>
  <2>1. blocks' = Emit(blocks, builder, ValueCode(e) \o <<Do("ret", Top.node)>>)
    BY <1>6 DEF CodegenReturnStmt
  <2>2. 1 \in 1 .. Len(Kids(Top.node))
    <3>1. Kids(Top.node) \in Seq(Nodes)
      BY <1>2, <1>3, Trees
    <3> QED BY <3>1, <1>6, EmptySeq
  <2>3. e \in Nodes
    BY <1>2, <1>3, <2>2, KidNode
  <2>4. ValueCode(e) \in Seq(PlainCode(Ops))
    BY <1>2, <2>3, ValueCodeType
  <2> QED BY <1>1, <1>3, <1>4, <2>1, <2>4, CloseReturnKeeps
<1> QED BY <1>5, <1>6

(***************************************************************************)
(* The nodes with children, of both generators.                            *)
(***************************************************************************)
\* What is inserted at the position, or nothing
Inserted(ops) ==
  /\ blocks' \in Seq(Seq(CodeIn(ops, Len(blocks)))) /\ Len(blocks') = Len(blocks)
  /\ builder' = builder
  /\ BlocksOk(blocks', {builder} \cup OwnedBy(Front(stack)), AwaitedBy(Front(stack)))

\* Emit inserts: what a callback needs before the loop over the children
LEMMA EmitInserts ==
  ASSUME NEW ops, GenTypes(ops),
         BlocksOk(blocks, {builder} \cup OwnedBy(Front(stack)), AwaitedBy(Front(stack))),
         NEW c \in Seq(CodeIn(ops, Len(blocks))), Straight(c),
         blocks' = Emit(blocks, builder, c), builder' = builder
  PROVE  Inserted(ops)
<1> DEFINE P == CodeIn(ops, Len(blocks))
           O == {builder} \cup OwnedBy(Front(stack))
<1>1. blocks \in Seq(Seq(P)) /\ builder \in 1 .. Len(blocks)
  BY DEF GenTypes
<1>2. blocks' \in Seq(Seq(P)) /\ Len(blocks') = Len(blocks)
  BY <1>1, Emitted
<1>3. builder \in O /\ c \in Seq(P) /\ BlocksOk(blocks, O, AwaitedBy(Front(stack)))
  OBVIOUS
<1> HIDE DEF O, P
<1>4. BlocksOk(Emit(blocks, builder, c), O, AwaitedBy(Front(stack)))
  BY <1>1, <1>3, BlocksKept
<1> QED BY <1>2, <1>4 DEF Inserted, O, P

\* The loops over children, which codegenStmt and codegenMeta share
LEMMA EnterChildren ==
  ASSUME NEW ops, GenTypes(ops), GenInv, Idle("stmt") \/ Idle("meta"), Inserted(ops),
         NEW pc \in {"children", "metaChildren"},
         Goto([Top EXCEPT !.pc = pc, !.todo = Kids(Top.node)]),
         ast' = ast, ret' = ret, values' \in Seq(SUBSET Nodes),
         status' \notin {"running", "returned"}
  PROVE  GenTypes(ops)' /\ GenInv'
<1> DEFINE f == [Top EXCEPT !.pc = pc, !.todo = Kids(Top.node)]
           R == Front(stack)
<1>1. /\ stack # << >> /\ ret = Pending /\ Top \in FrameIn(Len(blocks)) /\ Top.block # Null
      /\ Top.block = builder /\ builder \notin OwnedBy(R)
  BY AtStmt
<1>2. Top.node \in Nodes /\ Kids(Top.node) \in Seq(Nodes)
  BY <1>1, Trees DEF FrameIn, GenTypes
<1>3. f \in FrameIn(Len(blocks)) /\ f.pc = pc /\ f.block = builder
  BY <1>1, <1>2 DEF FrameIn, PCs
<1>4. Waiting(ast, R) /\ Apart(R)
  BY <1>1, TopFacts DEF Parts
<1> HIDE DEF f, R
<1>5. FrameOk(ast, f) /\ InState(f, Pending) /\ Owns(f) = {} /\ Awaits(f) = {}
  BY <1>3 DEF FrameOk, InState, Owns, Awaits, Active, IfPcs
<1>6. PassedOn(f, Pending) = {builder}
  BY <1>1, <1>3 DEF PassedOn
<1>7. BlocksOk(blocks', {builder} \cup OwnedBy(R) \cup {}, AwaitedBy(R) \cup {})
  <2>1. {builder} \cup OwnedBy(R) \cup {} = {builder} \cup OwnedBy(R) /\ AwaitedBy(R) \cup {} = AwaitedBy(R)
    OBVIOUS
  <2> QED BY <2>1 DEF Inserted, R
<1>8. Parts(ast, R, f, Pending, builder, blocks')
  BY <1>1, <1>4, <1>5, <1>6, <1>7 DEF Parts
<1>9. /\ Len(blocks') = Len(blocks) /\ blocks' \in Seq(Seq(CodeIn(ops, Len(blocks'))))
      /\ builder' = builder /\ builder' \in 1 .. Len(blocks') /\ Len(blocks) <= Len(blocks')
  BY DEF Inserted, GenTypes
<1>10. Goto(f) /\ f \in FrameIn(Len(blocks')) /\ ret' = Pending
  BY <1>1, <1>3, <1>9 DEF f
<1>11. Parts(ast, Front(stack), f, ret', builder', blocks')
  BY <1>8, <1>9, <1>10 DEF R
<1> QED BY <1>1, <1>9, <1>10, <1>11, GotoKeeps

LEMMA ChildCalled ==
  ASSUME NEW ops, GenTypes(ops), GenInv,
         NEW pc \in {"children", "metaChildren"}, Idle(pc), Top.todo # << >>, Top.block # Null,
         NEW callee \in {"stmt", "meta"},
         Call([Top EXCEPT !.todo = Tail(@)], CallOf(callee, Head(Top.todo), Top.block)),
         UNCHANGED <<ast, blocks, builder, values, ret, status>>
  PROVE  GenTypes(ops)' /\ GenInv'
<1> DEFINE f == [Top EXCEPT !.todo = Tail(Top.todo)]
           g == CallOf(callee, Head(Top.todo), Top.block)
           R == Front(stack)
<1>1. /\ stack # << >> /\ ret = Pending /\ Top.pc = pc /\ status = "generating"
  BY DEF Idle, At, Generating
<1>2. Top \in FrameIn(Len(blocks)) /\ Len(blocks) \in Nat
  BY <1>1, TopFacts
<1>3. /\ Top.block = builder /\ builder \notin OwnedBy(R)
      /\ BlocksOk(blocks, {builder} \cup OwnedBy(R), AwaitedBy(R))
  BY <1>1, AtPosition
<1>4. Head(Top.todo) \in Nodes /\ Tail(Top.todo) \in Seq(Nodes)
  <2>1. Top.todo \in Seq(Nodes)
    BY <1>2 DEF FrameIn
  <2> QED BY <2>1, HeadTailProperties
<1>5. f \in FrameIn(Len(blocks)) /\ f.pc = pc /\ f.block = builder
  BY <1>1, <1>2, <1>3, <1>4 DEF FrameIn
<1>6. /\ g \in FrameIn(Len(blocks)) /\ g.pc = callee /\ g.block = builder
      /\ g.cont = Null /\ g.falseBlock = Null
  BY <1>2, <1>3, <1>4 DEF CallOf, FrameIn, PCs, Null
<1>7. Call(f, g)
  OBVIOUS
<1> HIDE DEF f, g, R
<1>8. FrameOk(ast, f) /\ f.pc \in Suspended /\ Owns(f) = {} /\ Awaits(f) = {}
  BY <1>5 DEF FrameOk, Owns, Awaits, Suspended, IfPcs
<1>9. BlocksOk(blocks', {builder'} \cup OwnedBy(R) \cup Owns(f), AwaitedBy(R) \cup Awaits(f))
  <2>1. {builder'} \cup OwnedBy(R) \cup {} = {builder} \cup OwnedBy(R) /\ AwaitedBy(R) \cup {} = AwaitedBy(R)
    OBVIOUS
  <2> QED BY <2>1, <1>3, <1>8
<1>10. /\ Len(blocks) <= Len(blocks') /\ blocks' \in Seq(Seq(CodeIn(ops, Len(blocks'))))
       /\ builder' \in 1 .. Len(blocks') /\ values' \in Seq(SUBSET Nodes)
       /\ f \in FrameIn(Len(blocks')) /\ g \in FrameIn(Len(blocks'))
  BY <1>2, <1>5, <1>6 DEF GenTypes
<1>11. Owns(f) \cap OwnedBy(R) = {} /\ builder' \notin OwnedBy(R) \cup Owns(f)
  BY <1>3, <1>8
<1>12. ret' = Pending /\ status' \notin {"running", "returned"} /\ g.block = builder' /\ g.pc \in {"stmt", "meta"}
  BY <1>1, <1>6
<1> QED BY <1>1, <1>6, <1>7, <1>8, <1>9, <1>10, <1>11, <1>12, CallKeeps DEF R

\* An assertion that fails changes nothing and ends the process
LEMMA FailureKeeps ==
  ASSUME NEW ops, GenTypes(ops), GenInv,
         UNCHANGED <<ast, blocks, builder, values, stack, ret>>,
         status' \notin {"generating", "running", "returned"}
  PROVE  GenTypes(ops)' /\ GenInv'
BY DEF GenTypes, GenInv

LEMMA ChildEnded ==
  ASSUME NEW ops, GenTypes(ops), GenInv,
         NEW pc \in {"children", "metaChildren"}, Returned(pc),
         Goto([Top EXCEPT !.block = ret]), ret' = Pending,
         UNCHANGED <<ast, blocks, builder, values, status>>
  PROVE  GenTypes(ops)' /\ GenInv'
<1> DEFINE f == [Top EXCEPT !.block = ret]
           R == Front(stack)
<1>1. stack # << >> /\ ret # Pending /\ Top.pc = pc /\ status = "generating"
  BY DEF Returned, At, Generating
<1>2. Top \in FrameIn(Len(blocks)) /\ Len(blocks) \in Nat /\ Parts(ast, R, Top, ret, builder, blocks)
  BY <1>1, TopFacts
<1>3. ret \in 0 .. Len(blocks)
  BY <1>1 DEF GenTypes
<1>4. f \in FrameIn(Len(blocks)) /\ f.pc = pc /\ f.block = ret
  BY <1>1, <1>2, <1>3 DEF FrameIn
<1>5. Goto(f)
  OBVIOUS
<1> HIDE DEF f, R
<1>6. /\ FrameOk(ast, f) /\ InState(f, Pending) /\ Owns(f) = Owns(Top) /\ Awaits(f) = Awaits(Top)
  BY <1>1, <1>4 DEF FrameOk, InState, Active, Owns, Awaits, IfPcs
<1>7. PassedOn(f, Pending) = PassedOn(Top, ret)
  BY <1>1, <1>4 DEF PassedOn
<1>8. Parts(ast, R, f, Pending, builder, blocks)
  BY <1>2, <1>6, <1>7 DEF Parts
<1>9. /\ Len(blocks) <= Len(blocks') /\ blocks' \in Seq(Seq(CodeIn(ops, Len(blocks'))))
      /\ builder' \in 1 .. Len(blocks') /\ values' \in Seq(SUBSET Nodes)
      /\ f \in FrameIn(Len(blocks'))
  BY <1>2, <1>4 DEF GenTypes
<1>10. Parts(ast, Front(stack), f, ret', builder', blocks')
  BY <1>8 DEF R
<1>11. ret' \in 0 .. Len(blocks') \cup {Pending} /\ status' \notin {"running", "returned"}
  BY <1>1
<1> QED BY <1>1, <1>5, <1>9, <1>10, <1>11, GotoKeeps

\* What a block or a contribution returns is where its last child has ended
LEMMA ChildrenEnded ==
  ASSUME NEW ops, GenTypes(ops), GenInv,
         NEW pc \in {"children", "metaChildren"}, Idle(pc), Return(Top.block),
         Inserted(ops) \/ UNCHANGED <<blocks, builder>>, Top.block = Null => UNCHANGED <<blocks, builder>>,
         ast' = ast, values' \in Seq(SUBSET Nodes), status' = status
  PROVE  GenTypes(ops)' /\ GenInv'
<1> DEFINE R == Front(stack)
<1>1. stack # << >> /\ ret = Pending /\ Top.pc = pc /\ status = "generating"
  BY DEF Idle, At, Generating
<1>2. Top \in FrameIn(Len(blocks)) /\ Len(blocks) \in Nat /\ Parts(ast, R, Top, Pending, builder, blocks)
  BY <1>1, TopFacts
<1>3. /\ Len(blocks') = Len(blocks) /\ blocks' \in Seq(Seq(CodeIn(ops, Len(blocks'))))
      /\ builder' = builder /\ builder' \in 1 .. Len(blocks') /\ Len(blocks) <= Len(blocks')
  BY <1>2, SMTT(30) DEF Inserted, GenTypes
<1>4. Top.block \in 0 .. Len(blocks')
  BY <1>2, <1>3 DEF FrameIn
<1>5. /\ Top.block # Null => Top.block = builder' /\ Top.block \notin OwnedBy(R)
      /\ BlocksOk(blocks', ({Top.block} \ {Null}) \cup OwnedBy(R), AwaitedBy(R))
  <2>1. CASE Top.block = Null
    <3>1. /\ PassedOn(Top, Pending) = {} /\ Owns(Top) = {} /\ Awaits(Top) = {}
          /\ {Top.block} \ {Null} = {}
      BY <1>1, <2>1 DEF PassedOn, Owns, Awaits, IfPcs
    <3>2. BlocksOk(blocks, {} \cup OwnedBy(R) \cup {}, AwaitedBy(R) \cup {})
      BY <1>2, <3>1 DEF Parts
    <3>3. {} \cup OwnedBy(R) \cup {} = {} \cup OwnedBy(R) /\ AwaitedBy(R) \cup {} = AwaitedBy(R)
      OBVIOUS
    <3>4. BlocksOk(blocks, {} \cup OwnedBy(R), AwaitedBy(R))
      BY <3>2, <3>3
    <3> QED BY <2>1, <3>1, <3>4
  <2>2. CASE Top.block # Null
    <3>1. /\ Top.block = builder /\ builder \notin OwnedBy(R)
          /\ BlocksOk(blocks, {builder} \cup OwnedBy(R), AwaitedBy(R))
      BY <1>1, <2>2, AtPosition
    <3>2. BlocksOk(blocks', {builder} \cup OwnedBy(R), AwaitedBy(R))
      BY <3>1 DEF Inserted
    <3>3. {Top.block} \ {Null} = {builder}
      BY <2>2, <3>1
    <3> QED BY <1>3, <3>1, <3>2, <3>3
  <2> QED BY <2>1, <2>2
<1>6. status' \notin {"running", "returned"}
  BY <1>1
<1> QED BY <1>1, <1>3, <1>4, <1>5, <1>6, ReturnKeeps

(***************************************************************************)
(* The compounds of FunctionCodegen.                                       *)
(***************************************************************************)
LEMMA NothingInserted ==
  ASSUME NEW ops, GenTypes(ops), GenInv, Idle("stmt") \/ Idle("meta"),
         UNCHANGED <<blocks, builder>>
  PROVE  Inserted(ops)
BY AtStmt DEF Inserted, GenTypes

\* codegenStmt(CompoundStmt)
LEMMA EnterCompoundKeeps ==
  ASSUME NEW ops, GenTypes(ops), GenInv, EnterCompound
  PROVE  GenTypes(ops)' /\ GenInv'
<1>1. /\ Idle("stmt") /\ Goto([Top EXCEPT !.pc = "children", !.todo = Kids(Top.node)])
      /\ UNCHANGED <<ast, blocks, builder, ret, status>>
  BY DEF EnterCompound, Stmt
<1>2. Inserted(ops)
  BY <1>1, NothingInserted
<1>3. values' \in Seq(SUBSET Nodes)
  <2>1. values \in Seq(SUBSET Nodes) /\ {} \in SUBSET Nodes
    BY DEF GenTypes
  <2>2. Append(values, {}) \in Seq(SUBSET Nodes)
    BY <2>1, AppendProperties
  <2> QED BY <2>1, <2>2 DEF EnterCompound
<1>4. status' \notin {"running", "returned"}
  BY <1>1, AtStmt
<1> QED BY <1>1, <1>2, <1>3, <1>4, EnterChildren

LEMMA CodegenChildKeeps ==
  ASSUME NEW ops, GenTypes(ops), GenInv, CodegenChild
  PROVE  GenTypes(ops)' /\ GenInv'
<1>1. /\ Idle("children") /\ Top.todo # << >>
      /\ UNCHANGED <<ast, blocks, builder, values, ret>>
  BY DEF CodegenChild
<1>2. CASE Top.block = Null
  <2>1. status' = "nullBlock" /\ stack' = stack
    BY <1>2 DEF CodegenChild
  <2> QED BY <1>1, <2>1, FailureKeeps
<1>3. CASE Top.block # Null
  <2>1. /\ Call([Top EXCEPT !.todo = Tail(@)], CallOf("stmt", Head(Top.todo), Top.block))
        /\ status' = status
    BY <1>3 DEF CodegenChild, CodegenStmt
  <2> QED BY <1>1, <1>3, <2>1, ChildCalled
<1> QED BY <1>2, <1>3

LEMMA ChildReturnedKeeps ==
  ASSUME NEW ops, GenTypes(ops), GenInv, ChildReturned
  PROVE  GenTypes(ops)' /\ GenInv'
BY ChildEnded DEF ChildReturned

LEMMA LeaveCompoundKeeps ==
  ASSUME NEW ops, GenTypes(ops), GenInv, LeaveCompound
  PROVE  GenTypes(ops)' /\ GenInv'
<1>1. /\ Idle("children") /\ Return(Top.block)
      /\ UNCHANGED <<ast, blocks, builder, status>>
  BY DEF LeaveCompound
<1>2. values' \in Seq(SUBSET Nodes)
  <2>1. values \in Seq(SUBSET Nodes)
    BY DEF GenTypes
  <2>2. Front(values) \in Seq(SUBSET Nodes)
    <3>1. CASE values = << >>
      BY <2>1, <3>1, FrontEmpty
    <3>2. CASE values # << >>
      BY <2>1, <3>2, FrontType
    <3> QED BY <3>1, <3>2
  <2> QED BY <2>1, <2>2 DEF LeaveCompound
<1> QED BY <1>1, <1>2, ChildrenEnded

(***************************************************************************)
(* The structure of an if.                                                 *)
(***************************************************************************)
LEMMA SupplierFrame ==
  ASSUME NEW m \in Nat, NEW n \in Nodes, NEW b \in 1 .. m
  PROVE  /\ Supplier(n, b) \in FrameIn(m) /\ Supplier(n, b).pc \in {"stmt", "meta"}
         /\ Supplier(n, b).block = b /\ Supplier(n, b).cont = Null
         /\ Supplier(n, b).falseBlock = Null
<1>1. << >> \in Seq(Nodes)
  BY EmptySeq
<1> QED BY <1>1 DEF Supplier, CallOf, FrameIn, PCs, Null

\* A block more, and all branches still lead to blocks
LEMMA CreatedCode ==
  ASSUME NEW ops, NEW bs, bs \in Seq(Seq(CodeIn(ops, Len(bs))))
  PROVE  /\ Len(bs) \in Nat /\ Len(CreateBlock(bs)) = Len(bs) + 1
         /\ CreateBlock(bs) \in Seq(Seq(CodeIn(ops, Len(CreateBlock(bs)))))
<1> DEFINE P == CodeIn(ops, Len(bs))
           Q == CodeIn(ops, Len(CreateBlock(bs)))
<1>1. Len(bs) \in Nat
  OBVIOUS
<1>2. CreateBlock(bs) \in Seq(Seq(P)) /\ Len(CreateBlock(bs)) = Len(bs) + 1
  BY Created
<1>3. P \subseteq Q
  BY <1>1, <1>2, TypesGrow
<1> HIDE DEF P, Q
<1>4. Seq(P) \subseteq Seq(Q)
  BY <1>3, SeqMonotonic
<1>5. CreateBlock(bs) \in Seq(Seq(Q))
  BY <1>2, <1>4, SeqMonotonic
<1> QED BY <1>1, <1>2, <1>5 DEF Q

\* codegenIfStructure: the block of the condition and that of the true branch
LEMMA EnterIfKeeps ==
  ASSUME NEW ops, GenTypes(ops), GenInv, Idle("stmt") \/ Idle("meta"),
         Kind(Top.node) \in {"if", "metaIf"}, EnterIfStructure
  PROVE  GenTypes(ops)' /\ GenInv'
<1> DEFINE n == Len(blocks)
           t == Len(blocks) + 1
           f == [Top EXCEPT !.pc = "true", !.trueBlock = t]
           g == Supplier(Kid(Top.node, 2), t)
           R == Front(stack)
<1>1. /\ stack # << >> /\ ret = Pending /\ status = "generating"
      /\ Top \in FrameIn(n) /\ Top.block # Null
      /\ Top.block = builder /\ builder \notin OwnedBy(R)
      /\ BlocksOk(blocks, {builder} \cup OwnedBy(R), AwaitedBy(R))
  BY AtStmt
<1>2. Waiting(ast, R) /\ Apart(R) /\ FrameOk(ast, Top) /\ Top.pc \in {"stmt", "meta"}
  BY <1>1, TopFacts DEF Parts, Idle, At
<1>3. /\ blocks \in Seq(Seq(CodeIn(ops, n))) /\ builder \in 1 .. n /\ ast \in Asts
      /\ values \in Seq(SUBSET Nodes)
  BY DEF GenTypes
<1>4. /\ blocks' = CreateBlock(blocks) /\ builder' = t /\ Call(f, g)
      /\ UNCHANGED <<ast, values, ret, status>>
  BY DEF EnterIfStructure
<1>5. /\ n \in Nat /\ Len(blocks') = n + 1
      /\ blocks' \in Seq(Seq(CodeIn(ops, Len(blocks'))))
  BY <1>3, <1>4, CreatedCode
<1>6. Top.node \in Nodes /\ Kid(Top.node, 2) \in Nodes
  <2>1. Top.node \in Nodes
    BY <1>1 DEF FrameIn
  <2>2. Len(Kids(Top.node)) \in 2 .. 3
    BY <1>3, <2>1, Trees
  <2>3. 2 \in 1 .. Len(Kids(Top.node))
    BY <2>2
  <2> QED BY <1>3, <2>1, <2>3, KidNode
<1>7. /\ g \in FrameIn(n + 1) /\ g.pc \in {"stmt", "meta"} /\ g.block = t
      /\ g.cont = Null /\ g.falseBlock = Null
  <2>1. n + 1 \in Nat /\ t \in 1 .. n + 1
    BY <1>5
  <2> QED BY <1>6, <2>1, SupplierFrame
<1>8. /\ f \in FrameIn(n + 1) /\ f.pc = "true" /\ f.trueBlock = t /\ f.block = builder
      /\ f.cont = Null /\ f.falseBlock = Null /\ f.node = Top.node
  <2>0. \A m \in Nat : m + 1 \in Nat /\ m <= m + 1
    OBVIOUS
  <2>1. FrameIn(n) \subseteq FrameIn(n + 1)
    BY <1>5, <2>0, TypesGrow
  <2>2. Top \in FrameIn(n + 1) /\ t \in 0 .. n + 1
    BY <1>1, <1>5, <2>1
  <2> QED BY <1>1, <1>2, <2>2 DEF FrameIn, PCs, FrameOk
<1> HIDE DEF f, g, R
<1>9. t # Null /\ t \in Nat
  BY <1>5 DEF Null
<1>10. FrameOk(ast, f) /\ f.pc \in Suspended /\ Owns(f) = {builder} /\ Awaits(f) = {t, Null}
  <2>1. Owns(f) = {builder} /\ Awaits(f) = {t, Null}
    BY <1>1, <1>8 DEF Owns, Awaits, IfPcs
  <2>2. FrameOk(ast, f) /\ f.pc \in Suspended
    BY <1>1, <1>8, <1>9 DEF FrameOk, Suspended, IfPcs, Kind
  <2> QED BY <2>1, <2>2
<1>11. BlocksOk(blocks', {t} \cup OwnedBy(R) \cup Owns(f), AwaitedBy(R) \cup Awaits(f))
  <2>1. BlocksOk(blocks', ({builder} \cup OwnedBy(R)) \cup {t}, AwaitedBy(R) \cup {t})
    BY <1>1, <1>3, <1>4, BlocksCreated
  <2>2. ({builder} \cup OwnedBy(R)) \cup {t} = {t} \cup OwnedBy(R) \cup {builder}
    OBVIOUS
  <2>3. (AwaitedBy(R) \cup {t}) \ {Null} \subseteq AwaitedBy(R) \cup {t, Null}
    OBVIOUS
  <2> HIDE DEF t
  <2> QED BY <1>10, <2>1, <2>2, <2>3, BlocksAwaited
<1>12. t \notin OwnedBy(R) /\ t # builder
  <2>1. OwnedBy(R) \subseteq 1 .. n
    BY <1>1 DEF BlocksOk
  <2> QED BY <2>1, <1>3, <1>5
<1>13. Owns(f) \cap OwnedBy(R) = {} /\ builder' \notin OwnedBy(R) \cup Owns(f)
  BY <1>1, <1>4, <1>10, <1>12
<1>14. /\ Len(blocks) <= Len(blocks') /\ builder' \in 1 .. Len(blocks')
       /\ f \in FrameIn(Len(blocks')) /\ g \in FrameIn(Len(blocks'))
       /\ ret' = Pending /\ values' \in Seq(SUBSET Nodes) /\ status' \notin {"running", "returned"}
       /\ g.block = builder'
  BY <1>1, <1>3, <1>4, <1>5, <1>7, <1>8
<1>15. BlocksOk(blocks', {builder'} \cup OwnedBy(R) \cup Owns(f), AwaitedBy(R) \cup Awaits(f))
  BY <1>4, <1>11
<1> QED BY <1>1, <1>4, <1>5, <1>7, <1>10, <1>13, <1>14, <1>15, CallKeeps DEF R

\* The branch from where a branch of an if has ended to the continue block
LEMMA BrCloses ==
  ASSUME NEW ops, "br" \in ops, NEW bs, bs \in Seq(Seq(CodeIn(ops, Len(bs)))),
         NEW b \in 1 .. Len(bs), NEW to \in 1 .. Len(bs), NEW O, NEW W, b \notin O,
         BlocksOk(bs, {b} \cup O, W)
  PROVE  /\ CreateBr(bs, b, to) \in Seq(Seq(CodeIn(ops, Len(bs))))
         /\ Len(CreateBr(bs, b, to)) = Len(bs)
         /\ BlocksOk(CreateBr(bs, b, to), O, W \ {to})
<1> DEFINE P == CodeIn(ops, Len(bs))
           i == Instruction("br", NoNode, <<to>>)
<1>1. i \in P
  BY DEF Instruction, CodeIn
<1>2. i.op \in Terminators /\ Targets(i) = {to}
  BY DEF Instruction, Terminators, Targets
<1> HIDE DEF i, P
<1>3. << >> \in Seq(P) /\ Straight(<< >>) /\ << >> \o <<i>> = <<i>>
  BY EmptySeq DEF Straight
<1>4. <<i>> \in Seq(P) /\ bs \in Seq(Seq(P))
  BY <1>1 DEF P
<1>5. CreateBr(bs, b, to) = Emit(bs, b, <<i>>)
  BY DEF CreateBr, i
<1>6. BlocksOk(Emit(bs, b, << >> \o <<i>>), O, W \ Targets(i))
  BY <1>1, <1>2, <1>3, <1>4, Closing
<1>7. \A c \in Seq(P) : Emit(bs, b, c) \in Seq(Seq(P)) /\ Len(Emit(bs, b, c)) = Len(bs)
  BY <1>4, Emitted
<1>8. Emit(bs, b, <<i>>) \in Seq(Seq(P)) /\ Len(Emit(bs, b, <<i>>)) = Len(bs)
  BY <1>4, <1>7
<1> QED BY <1>2, <1>3, <1>5, <1>6, <1>8 DEF P

\* What a branch of an if leaves when it has ended: its end is closed by a branch
\* to the continue block, which is there as soon as one branch can continue
LEMMA Continued ==
  ASSUME NEW ops, Ops \subseteq ops, GenTypes(ops), NEW O, NEW W, NEW cont \in 0 .. Len(blocks),
         ret \in 0 .. Len(blocks), {ret} \ {Null} \subseteq {builder}, ret # Null => builder \notin O,
         {cont} \ {Null} \subseteq O,
         BlocksOk(blocks, ({ret} \ {Null}) \cup O, W)
  PROVE  /\ ContinueBlocks(cont) \in Seq(Seq(CodeIn(ops, Len(ContinueBlocks(cont)))))
         /\ Len(ContinueBlocks(cont)) \in {Len(blocks), Len(blocks) + 1}
         /\ Continue(cont) \in 0 .. Len(ContinueBlocks(cont))
         /\ Continue(cont) \in {cont, Len(blocks) + 1}
         /\ cont # Null => Continue(cont) = cont
         /\ ret # Null => Continue(cont) # Null
         /\ BlocksOk(ContinueBlocks(cont), O \cup ({Continue(cont)} \ {Null}), W)
<1>1. /\ blocks \in Seq(Seq(CodeIn(ops, Len(blocks)))) /\ builder \in 1 .. Len(blocks)
      /\ Len(blocks) \in Nat
  BY DEF GenTypes
<1>2. CASE ret = Null
  <2>1. ContinueBlocks(cont) = blocks /\ Continue(cont) = cont
    BY <1>2 DEF ContinueBlocks, Continue
  <2>2. ({ret} \ {Null}) \cup O = O /\ O \cup ({cont} \ {Null}) = O
    BY <1>2
  <2>3. BlocksOk(blocks, O, W)
    BY <2>2
  <2> QED BY <1>1, <1>2, <2>1, <2>2, <2>3
<1> SUFFICES ASSUME ret # Null PROVE
         /\ ContinueBlocks(cont) \in Seq(Seq(CodeIn(ops, Len(ContinueBlocks(cont)))))
         /\ Len(ContinueBlocks(cont)) \in {Len(blocks), Len(blocks) + 1}
         /\ Continue(cont) \in 0 .. Len(ContinueBlocks(cont))
         /\ Continue(cont) \in {cont, Len(blocks) + 1}
         /\ cont # Null => Continue(cont) = cont
         /\ ret # Null => Continue(cont) # Null
         /\ BlocksOk(ContinueBlocks(cont), O \cup ({Continue(cont)} \ {Null}), W)
  BY <1>2
<1>3. ret = builder /\ ({ret} \ {Null}) \cup O = {builder} \cup O
  OBVIOUS
<1>4. BlocksOk(blocks, {builder} \cup O, W) /\ "br" \in ops
  BY <1>3 DEF Ops, Terminators
<1>0. builder \notin O
  OBVIOUS
<1>5. CASE cont # Null
  <2>1. ContinueBlocks(cont) = CreateBr(blocks, builder, cont) /\ Continue(cont) = cont
    BY <1>5 DEF ContinueBlocks, Continue, LazyCreate, LazyBlock
  <2>2. cont \in 1 .. Len(blocks)
    BY <1>1, <1>5 DEF Null
  <2>3. /\ CreateBr(blocks, builder, cont) \in Seq(Seq(CodeIn(ops, Len(blocks))))
        /\ Len(CreateBr(blocks, builder, cont)) = Len(blocks)
        /\ BlocksOk(CreateBr(blocks, builder, cont), O, W \ {cont})
    BY <1>0, <1>1, <1>4, <2>2, BrCloses
  <2>4. BlocksOk(CreateBr(blocks, builder, cont), O, W)
    BY <2>3, BlocksAwaited
  <2>5. O \cup ({cont} \ {Null}) = O
    OBVIOUS
  <2> QED BY <1>1, <1>5, <2>1, <2>2, <2>3, <2>4, <2>5
<1>6. CASE cont = Null
  <2> DEFINE c  == Len(blocks) + 1
             cs == CreateBlock(blocks)
             A  == O \cup {c}
  <2>1. ContinueBlocks(cont) = CreateBr(cs, builder, c) /\ Continue(cont) = c
    BY <1>6 DEF ContinueBlocks, Continue, LazyCreate, LazyBlock
  <2>2. /\ cs \in Seq(Seq(CodeIn(ops, Len(cs)))) /\ Len(cs) = c
    BY <1>1, CreatedCode
  <2>3. BlocksOk(cs, ({builder} \cup O) \cup {c}, W \cup {c})
    BY <1>1, <1>4, BlocksCreated
  <2>4. ({builder} \cup O) \cup {c} = {builder} \cup A
    OBVIOUS
  <2>5. c # Null /\ c # builder /\ c \in Nat /\ c \in 1 .. c /\ builder \in 1 .. c
    <3>1. \A m \in Nat : m + 1 # 0 /\ m + 1 \in Nat /\ m + 1 \in 1 .. m + 1
            /\ \A b \in 1 .. m : b # m + 1 /\ b \in 1 .. m + 1
      OBVIOUS
    <3> QED BY <1>1, <3>1 DEF Null
  <2> HIDE DEF cs, c
  <2>6. builder \notin A /\ BlocksOk(cs, {builder} \cup A, W \cup {c})
    BY <1>0, <2>3, <2>4, <2>5
  <2> HIDE DEF A
  <2>7. /\ CreateBr(cs, builder, c) \in Seq(Seq(CodeIn(ops, Len(cs))))
        /\ Len(CreateBr(cs, builder, c)) = Len(cs)
        /\ BlocksOk(CreateBr(cs, builder, c), A, (W \cup {c}) \ {c})
    <3>1. builder \in 1 .. Len(cs) /\ c \in 1 .. Len(cs)
      BY <2>2, <2>5
    <3> DEFINE V == W \cup {c}
    <3>2. BlocksOk(cs, {builder} \cup A, V)
      BY <2>6
    <3> HIDE DEF V
    <3>3. /\ CreateBr(cs, builder, c) \in Seq(Seq(CodeIn(ops, Len(cs))))
          /\ Len(CreateBr(cs, builder, c)) = Len(cs)
          /\ BlocksOk(CreateBr(cs, builder, c), A, V \ {c})
      <4>1. /\ "br" \in ops /\ cs \in Seq(Seq(CodeIn(ops, Len(cs)))) /\ builder \notin A
        BY <1>4, <2>2, <2>6
      <4> QED BY <4>1, <3>1, <3>2, BrCloses
    <3> QED BY <3>3 DEF V
  <2>8. BlocksOk(CreateBr(cs, builder, c), A, W)
    <3>1. ((W \cup {c}) \ {c}) \ {Null} \subseteq W
      OBVIOUS
    <3> QED BY <2>7, <3>1, BlocksAwaited
  <2>9. A = O \cup ({c} \ {Null})
    BY <2>5 DEF A
  <2>10. c \in 0 .. c
    BY <2>5
  <2>11. c = Len(blocks) + 1
    BY DEF c
  <2> QED BY <1>6, <2>1, <2>2, <2>5, <2>7, <2>8, <2>9, <2>10, <2>11
<1> QED BY <1>5, <1>6

\* Where a branch of an if has ended
LEMMA AtBranchEnd ==
  ASSUME NEW ops, GenTypes(ops), GenInv, NEW pc \in {"true", "false"}, Returned(pc)
  PROVE  /\ stack # << >> /\ status = "generating" /\ ret # Pending /\ Top.pc = pc
         /\ Len(blocks) \in Nat /\ Top \in FrameIn(Len(blocks)) /\ ret \in 0 .. Len(blocks)
         /\ FrameOk(ast, Top) /\ Waiting(ast, Front(stack)) /\ Apart(Front(stack))
         /\ {ret} \ {Null} \subseteq {builder}
         /\ Top.block # Null /\ Top.trueBlock # Null /\ Top.block # Top.cont
         /\ ({Top.block, Top.cont} \ {Null}) \cap OwnedBy(Front(stack)) = {}
         /\ ({ret} \ {Null}) \cap OwnedBy(Front(stack)) = {}
         /\ ret = Null \/ ret \notin {Top.block, Top.cont}
         /\ BlocksOk(blocks, ({ret} \ {Null}) \cup OwnedBy(Front(stack))
                               \cup ({Top.block, Top.cont} \ {Null}),
                     AwaitedBy(Front(stack)) \cup {Top.trueBlock, Top.falseBlock})
<1>1. stack # << >> /\ status = "generating" /\ ret # Pending /\ Top.pc = pc
  BY DEF Returned, At, Generating
<1>2. /\ Len(blocks) \in Nat /\ Top \in FrameIn(Len(blocks))
      /\ Parts(ast, Front(stack), Top, ret, builder, blocks)
  BY <1>1, TopFacts
<1>3. ret \in 0 .. Len(blocks)
  BY <1>1 DEF GenTypes
<1>4. /\ Owns(Top) = {Top.block, Top.cont} \ {Null} /\ Awaits(Top) = {Top.trueBlock, Top.falseBlock}
      /\ PassedOn(Top, ret) = {ret} \ {Null}
  BY <1>1 DEF Owns, Awaits, PassedOn, IfPcs
<1>5. Top.block # Null /\ Top.trueBlock # Null /\ Top.block # Top.cont
  BY <1>1, <1>2 DEF Parts, FrameOk, IfPcs
<1>6. /\ FrameOk(ast, Top) /\ Waiting(ast, Front(stack)) /\ Apart(Front(stack))
      /\ {ret} \ {Null} \subseteq {builder}
      /\ ({ret} \ {Null}) \cap ({Top.block, Top.cont} \ {Null}) = {}
      /\ ({Top.block, Top.cont} \ {Null}) \cap OwnedBy(Front(stack)) = {}
      /\ ({ret} \ {Null}) \cap OwnedBy(Front(stack)) = {}
  BY <1>2, <1>4 DEF Parts
<1>7. BlocksOk(blocks, ({ret} \ {Null}) \cup OwnedBy(Front(stack))
                         \cup ({Top.block, Top.cont} \ {Null}),
               AwaitedBy(Front(stack)) \cup {Top.trueBlock, Top.falseBlock})
  BY <1>2, <1>4 DEF Parts
<1> QED BY <1>1, <1>2, <1>3, <1>5, <1>6, <1>7

\* The branch that ended has closed its block or left it at the position, and is
\* joined with the continue block, which is created at the first branch that continues
LEMMA BranchEnded ==
  ASSUME NEW ops, Ops \subseteq ops, GenTypes(ops), GenInv,
         NEW pc \in {"true", "false"}, Returned(pc)
  PROVE  /\ ContinueBlocks(Top.cont) \in Seq(Seq(CodeIn(ops, Len(ContinueBlocks(Top.cont)))))
         /\ Len(ContinueBlocks(Top.cont)) \in Nat /\ Len(blocks) <= Len(ContinueBlocks(Top.cont))
         /\ Top \in FrameIn(Len(ContinueBlocks(Top.cont)))
         /\ builder \in 1 .. Len(ContinueBlocks(Top.cont))
         /\ Continue(Top.cont) \in 0 .. Len(ContinueBlocks(Top.cont))
         /\ Continue(Top.cont) # Top.block
         /\ Continue(Top.cont) = Null \/ Continue(Top.cont) \notin OwnedBy(Front(stack))
         /\ Top.block \notin OwnedBy(Front(stack))
         /\ BlocksOk(ContinueBlocks(Top.cont),
                     OwnedBy(Front(stack)) \cup ({Top.block, Continue(Top.cont)} \ {Null}),
                     AwaitedBy(Front(stack)) \cup {Top.trueBlock, Top.falseBlock})
<1> DEFINE R == Front(stack)
           n == Len(blocks)
           linked == ContinueBlocks(Top.cont)
           cont == Continue(Top.cont)
           O == OwnedBy(R) \cup ({Top.block, Top.cont} \ {Null})
           W == AwaitedBy(R) \cup {Top.trueBlock, Top.falseBlock}
<1>1. /\ stack # << >> /\ status = "generating" /\ ret # Pending /\ Top.pc = pc
      /\ n \in Nat /\ Top \in FrameIn(n) /\ ret \in 0 .. n
      /\ {ret} \ {Null} \subseteq {builder}
      /\ Top.block # Null /\ Top.block # Top.cont
      /\ ({Top.block, Top.cont} \ {Null}) \cap OwnedBy(R) = {}
      /\ ({ret} \ {Null}) \cap OwnedBy(R) = {}
      /\ ret = Null \/ ret \notin {Top.block, Top.cont}
  BY AtBranchEnd
<1>2. BlocksOk(blocks, ({ret} \ {Null}) \cup O, W)
  <2>1. BlocksOk(blocks, ({ret} \ {Null}) \cup OwnedBy(R) \cup ({Top.block, Top.cont} \ {Null}), W)
    BY AtBranchEnd
  <2>2. ({ret} \ {Null}) \cup OwnedBy(R) \cup ({Top.block, Top.cont} \ {Null}) = ({ret} \ {Null}) \cup O
    OBVIOUS
  <2> QED BY <2>1, <2>2
<1>3. ret # Null => builder \notin O
  BY <1>1
<1>4. Top.cont \in 0 .. n /\ Top.block \in 1 .. n /\ {Top.cont} \ {Null} \subseteq O
  BY <1>1 DEF FrameIn, Null
<1>5. OwnedBy(R) \subseteq 1 .. n
  BY <1>2 DEF BlocksOk
<1> HIDE DEF O, W, R
<1>6. /\ linked \in Seq(Seq(CodeIn(ops, Len(linked)))) /\ Len(linked) \in {n, n + 1}
      /\ cont \in 0 .. Len(linked) /\ cont \in {Top.cont, n + 1}
      /\ Top.cont # Null => cont = Top.cont
      /\ BlocksOk(linked, O \cup ({cont} \ {Null}), W)
  BY <1>1, <1>2, <1>3, <1>4, Continued
<1> HIDE DEF linked, cont
<1>7. Len(linked) \in Nat /\ n <= Len(linked) /\ FrameIn(n) \subseteq FrameIn(Len(linked))
  <2>1. \A m \in Nat : m + 1 \in Nat /\ m <= m + 1 /\ m <= m
    OBVIOUS
  <2>2. Len(linked) \in Nat /\ n <= Len(linked)
    BY <1>1, <1>6, <2>1
  <2> QED BY <1>1, <2>2, TypesGrow
<1>8. builder \in 1 .. Len(linked)
  <2>1. builder \in 1 .. n
    BY DEF GenTypes
  <2>2. \A m \in Nat, k \in Nat : m <= k => \A b \in 1 .. m : b \in 1 .. k
    OBVIOUS
  <2> QED BY <1>1, <1>7, <2>1, <2>2
<1>9. cont # Top.block /\ (cont = Null \/ cont \notin OwnedBy(R)) /\ Top.block \notin OwnedBy(R)
  <2>1. \A m \in Nat : m + 1 \notin 1 .. m
    OBVIOUS
  <2>2. n + 1 # Top.block /\ n + 1 \notin OwnedBy(R)
    BY <1>1, <1>4, <1>5, <2>1
  <2> HIDE DEF n
  <2> QED BY <1>1, <1>6, <2>2 DEF R
<1>10. O \cup ({cont} \ {Null}) = OwnedBy(R) \cup ({Top.block, cont} \ {Null})
  BY <1>6 DEF O
<1>11. Top \in FrameIn(Len(linked))
  BY <1>1, <1>7
<1> QED BY <1>6, <1>7, <1>8, <1>9, <1>10, <1>11 DEF linked, cont, W, R

\* Behind the else branch, and behind the true branch with and without an else
LEMMA FalseBranchReturnedKeeps ==
  ASSUME NEW ops, Ops \subseteq ops, GenTypes(ops), GenInv, FalseBranchReturned
  PROVE  GenTypes(ops)' /\ GenInv'
<1> DEFINE R == Front(stack)
           f == [Top EXCEPT !.pc = "condition", !.cont = Continue(Top.cont)]
<1>1. /\ Returned("false") /\ Goto(f) /\ blocks' = ContinueBlocks(Top.cont)
      /\ ret' = Pending /\ UNCHANGED <<ast, builder, values, status>>
  BY DEF FalseBranchReturned
<1>2. /\ stack # << >> /\ status = "generating" /\ Top.pc = "false"
      /\ FrameOk(ast, Top) /\ Waiting(ast, R) /\ Apart(R)
  BY <1>1, AtBranchEnd
<1>3. /\ blocks' \in Seq(Seq(CodeIn(ops, Len(blocks')))) /\ Len(blocks) <= Len(blocks')
      /\ Top \in FrameIn(Len(blocks')) /\ builder' \in 1 .. Len(blocks')
      /\ Continue(Top.cont) \in 0 .. Len(blocks') /\ Continue(Top.cont) # Top.block
      /\ Continue(Top.cont) = Null \/ Continue(Top.cont) \notin OwnedBy(R)
      /\ Top.block \notin OwnedBy(R)
      /\ BlocksOk(blocks', OwnedBy(R) \cup ({Top.block, Continue(Top.cont)} \ {Null}),
                     AwaitedBy(R) \cup {Top.trueBlock, Top.falseBlock})
  BY <1>1, BranchEnded
<1>4. /\ f \in FrameIn(Len(blocks')) /\ f.pc = "condition" /\ f.cont = Continue(Top.cont)
      /\ f.block = Top.block /\ f.trueBlock = Top.trueBlock /\ f.falseBlock = Top.falseBlock
      /\ f.node = Top.node
  BY <1>3 DEF FrameIn, PCs
<1> HIDE DEF f, R
<1>5. FrameOk(ast, f) /\ InState(f, Pending)
  BY <1>2, <1>3, <1>4 DEF FrameOk, IfPcs, InState, Active
<1>6. /\ PassedOn(f, Pending) = {} /\ Awaits(f) = {Top.trueBlock, Top.falseBlock}
      /\ Owns(f) = {Top.block, Continue(Top.cont)} \ {Null}
  BY <1>4 DEF PassedOn, Awaits, Owns, IfPcs
<1>7. Parts(ast, R, f, Pending, builder', blocks')
  <2>1. Owns(f) \cap OwnedBy(R) = {}
    BY <1>3, <1>6
  <2>2. {} \cup OwnedBy(R) \cup Owns(f) = OwnedBy(R) \cup ({Top.block, Continue(Top.cont)} \ {Null})
    BY <1>6
  <2>3. BlocksOk(blocks', PassedOn(f, Pending) \cup OwnedBy(R) \cup Owns(f), AwaitedBy(R) \cup Awaits(f))
    BY <1>3, <1>6, <2>2
  <2> QED BY <1>2, <1>5, <1>6, <2>1, <2>3 DEF Parts
<1>8. values' \in Seq(SUBSET Nodes) /\ ret' \in 0 .. Len(blocks') \cup {Pending}
  BY <1>1 DEF GenTypes
<1>9. Parts(ast, Front(stack), f, ret', builder', blocks') /\ ast' = ast /\ Goto(f)
  BY <1>1, <1>7 DEF R
<1>10. status' \notin {"running", "returned"}
  BY <1>1, <1>2
<1> QED BY <1>2, <1>3, <1>4, <1>8, <1>9, <1>10, GotoKeeps

LEMMA ElseBranchKeeps ==
  ASSUME NEW ops, Ops \subseteq ops, GenTypes(ops), GenInv, TrueBranchReturned,
         Len(Kids(Top.node)) = 3
  PROVE  GenTypes(ops)' /\ GenInv'
<1> DEFINE R == Front(stack)
           linked == ContinueBlocks(Top.cont)
           cont == Continue(Top.cont)
           n == Len(linked)
           e == n + 1
           f == [Top EXCEPT !.pc = "false", !.cont = cont, !.falseBlock = e]
           g == Supplier(Kid(Top.node, 3), e)
<1>1. /\ Returned("true") /\ Call(f, g) /\ blocks' = CreateBlock(linked) /\ builder' = e
      /\ ret' = Pending /\ UNCHANGED <<ast, values, status>>
  BY DEF TrueBranchReturned
<1>2. /\ stack # << >> /\ status = "generating" /\ Top.pc = "true"
      /\ FrameOk(ast, Top) /\ Waiting(ast, R) /\ Apart(R)
      /\ Top.block # Null /\ Top.trueBlock # Null
  BY <1>1, AtBranchEnd
<1>3. /\ linked \in Seq(Seq(CodeIn(ops, n))) /\ n \in Nat /\ Len(blocks) <= n
      /\ Top \in FrameIn(n)
      /\ cont \in 0 .. n /\ cont # Top.block
      /\ (cont = Null \/ cont \notin OwnedBy(R)) /\ Top.block \notin OwnedBy(R)
      /\ BlocksOk(linked, OwnedBy(R) \cup ({Top.block, cont} \ {Null}),
                  AwaitedBy(R) \cup {Top.trueBlock, Top.falseBlock})
  BY <1>1, BranchEnded
<1>4. Top.node \in Nodes /\ Kid(Top.node, 3) \in Nodes
  <2>1. Top.node \in Nodes
    BY <1>3 DEF FrameIn
  <2>2. ast \in Asts /\ 3 \in 1 .. Len(Kids(Top.node))
    BY DEF GenTypes
  <2> QED BY <2>1, <2>2, KidNode
<1> HIDE DEF linked, cont, R
<1>5. Len(blocks') = e /\ blocks' \in Seq(Seq(CodeIn(ops, Len(blocks'))))
  BY <1>1, <1>3, CreatedCode
<1>6. BlocksOk(blocks', (OwnedBy(R) \cup ({Top.block, cont} \ {Null})) \cup {e},
               (AwaitedBy(R) \cup {Top.trueBlock, Top.falseBlock}) \cup {e})
  BY <1>1, <1>3, BlocksCreated
<1>7. OwnedBy(R) \cup ({Top.block, cont} \ {Null}) \subseteq 1 .. n
  BY <1>3 DEF BlocksOk
<1>8. e \in Nat /\ e # Null /\ n <= e /\ e \in 1 .. e /\ e \in 0 .. e /\ e \notin 1 .. n
  <2>1. \A m \in Nat : m + 1 \in Nat /\ m + 1 # 0 /\ m <= m + 1 /\ m + 1 \in 1 .. m + 1
           /\ m + 1 \in 0 .. m + 1 /\ m + 1 \notin 1 .. m
    OBVIOUS
  <2> QED BY <1>3, <2>1 DEF Null
<1>9. FrameIn(n) \subseteq FrameIn(e)
  BY <1>3, <1>8, TypesGrow
<1>10. 0 .. n \subseteq 0 .. e /\ Len(blocks) <= e
  <2>1. Len(blocks) \in Nat
    BY DEF GenTypes
  <2>2. \A k, m \in Nat : k <= m => 0 .. m \subseteq 0 .. m + 1 /\ k <= m + 1
    OBVIOUS
  <2> QED BY <1>3, <2>1, <2>2
<1>11. /\ g \in FrameIn(e) /\ g.pc \in {"stmt", "meta"} /\ g.block = e
       /\ g.cont = Null /\ g.falseBlock = Null
  BY <1>4, <1>8, SupplierFrame
<1> HIDE DEF e, n
<1>12. /\ f \in FrameIn(e) /\ f.pc = "false" /\ f.trueBlock = Top.trueBlock
       /\ f.block = Top.block /\ f.cont = cont /\ f.falseBlock = e /\ f.node = Top.node
  BY <1>3, <1>8, <1>9, <1>10 DEF FrameIn, PCs
<1> HIDE DEF f, g
<1>13. FrameOk(ast, f) /\ f.pc \in Suspended
  BY <1>2, <1>3, <1>8, <1>12 DEF FrameOk, Suspended, IfPcs
<1>14. Owns(f) = {Top.block, cont} \ {Null} /\ Awaits(f) = {Top.trueBlock, e}
  BY <1>12 DEF Owns, Awaits, IfPcs
<1>15. Owns(f) \cap OwnedBy(R) = {} /\ builder' \notin OwnedBy(R) \cup Owns(f)
  BY <1>1, <1>3, <1>7, <1>8, <1>14
<1>16. BlocksOk(blocks', {builder'} \cup OwnedBy(R) \cup Owns(f), AwaitedBy(R) \cup Awaits(f))
  <2>1. (OwnedBy(R) \cup ({Top.block, cont} \ {Null})) \cup {e} = {builder'} \cup OwnedBy(R) \cup Owns(f)
    BY <1>1, <1>14
  <2>2. ((AwaitedBy(R) \cup {Top.trueBlock, Top.falseBlock}) \cup {e}) \ {Null}
           \subseteq AwaitedBy(R) \cup Awaits(f)
    <3>1. Top.falseBlock = Null
      BY <1>2 DEF FrameOk
    <3> QED BY <1>14, <3>1
  <2>3. BlocksOk(blocks', (OwnedBy(R) \cup ({Top.block, cont} \ {Null})) \cup {e},
                 AwaitedBy(R) \cup Awaits(f))
    BY <1>6, <2>2, BlocksAwaited
  <2> QED BY <2>1, <2>3
<1>17. /\ f \in FrameIn(Len(blocks')) /\ g \in FrameIn(Len(blocks')) /\ Len(blocks) <= Len(blocks')
       /\ builder' \in 1 .. Len(blocks') /\ g.block = builder'
  BY <1>1, <1>5, <1>8, <1>10, <1>11, <1>12
<1>18. values' \in Seq(SUBSET Nodes) /\ status' \notin {"running", "returned"}
  BY <1>1, <1>2 DEF GenTypes
<1> QED BY <1>1, <1>2, <1>5, <1>11, <1>13, <1>15, <1>16, <1>17, <1>18, CallKeeps DEF R

LEMMA NoElseBranchKeeps ==
  ASSUME NEW ops, Ops \subseteq ops, GenTypes(ops), GenInv, TrueBranchReturned,
         Len(Kids(Top.node)) # 3
  PROVE  GenTypes(ops)' /\ GenInv'
<1> DEFINE R == Front(stack)
           linked == ContinueBlocks(Top.cont)
           cont == Continue(Top.cont)
           n == Len(linked)
           last == LazyBlock(linked, cont)
           f == [Top EXCEPT !.pc = "condition", !.cont = last, !.falseBlock = last]
<1>1. /\ Returned("true") /\ Goto(f) /\ blocks' = LazyCreate(linked, cont) /\ builder' = builder
      /\ ret' = Pending /\ UNCHANGED <<ast, values, status>>
  BY DEF TrueBranchReturned
<1>2. /\ stack # << >> /\ status = "generating" /\ Top.pc = "true"
      /\ FrameOk(ast, Top) /\ Waiting(ast, R) /\ Apart(R)
      /\ Top.block # Null /\ Top.trueBlock # Null
  BY <1>1, AtBranchEnd
<1>3. /\ linked \in Seq(Seq(CodeIn(ops, n))) /\ n \in Nat /\ Len(blocks) <= n
      /\ Top \in FrameIn(n) /\ builder \in 1 .. n
      /\ cont \in 0 .. n /\ cont # Top.block
      /\ (cont = Null \/ cont \notin OwnedBy(R)) /\ Top.block \notin OwnedBy(R)
      /\ BlocksOk(linked, OwnedBy(R) \cup ({Top.block, cont} \ {Null}),
                  AwaitedBy(R) \cup {Top.trueBlock, Top.falseBlock})
  BY <1>1, BranchEnded
<1>4. OwnedBy(R) \cup ({Top.block, cont} \ {Null}) \subseteq 1 .. n
  BY <1>3 DEF BlocksOk
<1>5. Top.falseBlock = Null
  BY <1>2 DEF FrameOk
<1> HIDE DEF linked, R, cont
<1>6. /\ blocks' \in Seq(Seq(CodeIn(ops, Len(blocks')))) /\ Len(blocks') \in Nat
      /\ n <= Len(blocks') /\ last \in 1 .. Len(blocks') /\ last # Null
      /\ last # Top.block /\ last \notin OwnedBy(R)
      /\ BlocksOk(blocks', OwnedBy(R) \cup {Top.block, last}, AwaitedBy(R) \cup {Top.trueBlock, last})
  <2>1. CASE cont # Null
    <3>1. blocks' = linked /\ last = cont
      BY <1>1, <2>1 DEF LazyCreate, LazyBlock
    <3>2. cont \in 1 .. n /\ n <= n
      BY <1>3, <2>1 DEF Null
    <3> HIDE DEF last
    <3>3. OwnedBy(R) \cup ({Top.block, cont} \ {Null}) = OwnedBy(R) \cup {Top.block, cont}
      BY <1>2, <2>1
    <3>4. (AwaitedBy(R) \cup {Top.trueBlock, Top.falseBlock}) \ {Null}
            \subseteq AwaitedBy(R) \cup {Top.trueBlock, cont}
      BY <1>5
    <3>5. BlocksOk(linked, OwnedBy(R) \cup {Top.block, cont}, AwaitedBy(R) \cup {Top.trueBlock, cont})
      BY <1>3, <3>3, <3>4, BlocksAwaited
    <3> QED BY <1>3, <2>1, <3>1, <3>2, <3>5
  <2>2. CASE cont = Null
    <3>1. blocks' = CreateBlock(linked) /\ last = n + 1
      BY <1>1, <2>2 DEF LazyCreate, LazyBlock
    <3>2. Len(blocks') = n + 1 /\ blocks' \in Seq(Seq(CodeIn(ops, Len(blocks'))))
      BY <1>3, <3>1, CreatedCode
    <3>3. BlocksOk(blocks', (OwnedBy(R) \cup ({Top.block, cont} \ {Null})) \cup {n + 1},
                   (AwaitedBy(R) \cup {Top.trueBlock, Top.falseBlock}) \cup {n + 1})
      BY <1>3, <3>1, BlocksCreated
    <3>4. n + 1 \in Nat /\ n <= n + 1 /\ n + 1 \in 1 .. n + 1 /\ n + 1 # Null /\ n + 1 \notin 1 .. n
      <4>1. \A m \in Nat : m + 1 \in Nat /\ m <= m + 1 /\ m + 1 \in 1 .. m + 1 /\ m + 1 # 0
              /\ m + 1 \notin 1 .. m
        OBVIOUS
      <4> QED BY <1>3, <4>1 DEF Null
    <3> HIDE DEF last, n
    <3>5. (OwnedBy(R) \cup ({Top.block, cont} \ {Null})) \cup {last} = OwnedBy(R) \cup {Top.block, last}
      BY <1>2, <2>2
    <3>6. ((AwaitedBy(R) \cup {Top.trueBlock, Top.falseBlock}) \cup {last}) \ {Null}
            \subseteq AwaitedBy(R) \cup {Top.trueBlock, last}
      BY <1>5
    <3>7. BlocksOk(blocks', OwnedBy(R) \cup {Top.block, last}, AwaitedBy(R) \cup {Top.trueBlock, last})
      BY <3>1, <3>3, <3>5, <3>6, BlocksAwaited
    <3>8. last # Top.block /\ last \notin OwnedBy(R)
      BY <1>2, <1>4, <2>2, <3>1, <3>4
    <3> QED BY <3>1, <3>2, <3>4, <3>7, <3>8
  <2> QED BY <2>1, <2>2
<1>7. /\ FrameIn(n) \subseteq FrameIn(Len(blocks')) /\ Len(blocks) <= Len(blocks')
      /\ builder' \in 1 .. Len(blocks') /\ last \in 0 .. Len(blocks')
  <2>1. Len(blocks) \in Nat
    BY DEF GenTypes
  <2>2. \A k, m, l \in Nat : k <= m /\ m <= l =>
          k <= l /\ (\A b \in 1 .. m : b \in 1 .. l) /\ (\A b \in 1 .. l : b \in 0 .. l)
    OBVIOUS
  <2>3. FrameIn(n) \subseteq FrameIn(Len(blocks'))
    BY <1>3, <1>6, TypesGrow
  <2> HIDE DEF last, n
  <2> QED BY <1>1, <1>3, <1>6, <2>1, <2>2, <2>3
<1> HIDE DEF last, n
<1>8. /\ f \in FrameIn(Len(blocks')) /\ f.pc = "condition" /\ f.trueBlock = Top.trueBlock
      /\ f.block = Top.block /\ f.cont = last /\ f.falseBlock = last /\ f.node = Top.node
  BY <1>3, <1>7 DEF FrameIn, PCs
<1> HIDE DEF f
<1>9. FrameOk(ast, f) /\ InState(f, Pending)
  BY <1>2, <1>6, <1>8 DEF FrameOk, IfPcs, InState, Active
<1>10. /\ PassedOn(f, Pending) = {} /\ Owns(f) = {Top.block, last}
       /\ Awaits(f) = {Top.trueBlock, last}
  BY <1>2, <1>6, <1>8 DEF PassedOn, Owns, Awaits, IfPcs
<1>11. Parts(ast, R, f, Pending, builder', blocks')
  <2>1. Owns(f) \cap OwnedBy(R) = {}
    BY <1>3, <1>6, <1>10
  <2>2. {} \cup OwnedBy(R) \cup Owns(f) = OwnedBy(R) \cup {Top.block, last}
    BY <1>10
  <2>3. BlocksOk(blocks', PassedOn(f, Pending) \cup OwnedBy(R) \cup Owns(f), AwaitedBy(R) \cup Awaits(f))
    BY <1>6, <1>10, <2>2
  <2> QED BY <1>2, <1>9, <1>10, <2>1, <2>3 DEF Parts
<1>12. values' \in Seq(SUBSET Nodes) /\ ret' \in 0 .. Len(blocks') \cup {Pending}
  BY <1>1 DEF GenTypes
<1>13. Parts(ast, Front(stack), f, ret', builder', blocks') /\ ast' = ast
  BY <1>1, <1>11 DEF R
<1>14. status' \notin {"running", "returned"}
  BY <1>1, <1>2
<1> QED BY <1>1, <1>2, <1>6, <1>7, <1>8, <1>12, <1>13, <1>14, GotoKeeps

\* The condition closes the block that was left open and hands on the continue block
LEMMA ConditionKeeps ==
  ASSUME NEW ops, Ops \subseteq ops, GenTypes(ops), GenInv, CodegenCondition
  PROVE  GenTypes(ops)' /\ GenInv'
<1> DEFINE P == CodeIn(ops, Len(blocks))
           R == Front(stack)
           c == ExprCode[Kid(Top.node, 1)]
           i == Instruction("condbr", Top.node, <<Top.trueBlock, Top.falseBlock>>)
           O == OwnedBy(R) \cup ({Top.cont} \ {Null})
           W == AwaitedBy(R) \cup {Top.trueBlock, Top.falseBlock}
<1>1. stack # << >> /\ status = "generating" /\ Top.pc = "condition" /\ ret = Pending
  BY DEF CodegenCondition, Idle, At, Generating
<1>2. /\ blocks' = Emit(blocks, Top.block, c \o <<i>>) /\ Return(Top.cont)
      /\ builder' = IF Top.cont # Null THEN Top.cont ELSE Top.block
      /\ UNCHANGED <<ast, values>> /\ status' \notin {"running", "returned"}
  BY <1>1 DEF CodegenCondition, CheckLookups
<1>3. /\ Len(blocks) \in Nat /\ Top \in FrameIn(Len(blocks))
      /\ Parts(ast, R, Top, Pending, builder, blocks)
  BY <1>1, TopFacts
<1>4. /\ PassedOn(Top, Pending) = {} /\ Owns(Top) = {Top.block, Top.cont} \ {Null}
      /\ Awaits(Top) = {Top.trueBlock, Top.falseBlock}
  BY <1>1 DEF PassedOn, Owns, Awaits, IfPcs
<1>5. /\ Top.block # Null /\ Top.trueBlock # Null /\ Top.falseBlock # Null
      /\ Top.block # Top.cont /\ Kind(Top.node) \in {"if", "metaIf"}
  BY <1>1, <1>3 DEF Parts, FrameOk, IfPcs, Kind
<1>6. /\ Top.block \in 1 .. Len(blocks) /\ Top.trueBlock \in 1 .. Len(blocks)
      /\ Top.falseBlock \in 1 .. Len(blocks) /\ Top.cont \in 0 .. Len(blocks) /\ Top.node \in Nodes
  BY <1>3, <1>5 DEF FrameIn, Null
<1>7. c \in Seq(P) /\ Straight(c)
  <2>1. ast \in Asts
    BY DEF GenTypes
  <2>2. Len(Kids(Top.node)) \in 2 .. 3
    BY <1>5, <1>6, <2>1, Trees
  <2>3. 1 \in 1 .. Len(Kids(Top.node))
    BY <2>2
  <2>4. Kid(Top.node, 1) \in Nodes
    BY <1>6, <2>1, <2>3, KidNode
  <2>5. c \in Seq(PlainCode(Ops))
    BY <2>1, <2>4, ExprCodeType
  <2> HIDE DEF c
  <2> QED BY <2>5, CodeTypes
<1>8. i \in P
  <2>1. "condbr" \in ops
    BY DEF Ops, Terminators
  <2>2. <<Top.trueBlock, Top.falseBlock>> \in {<<b, d>> : b \in 1 .. Len(blocks), d \in 1 .. Len(blocks)}
    BY <1>6
  <2> QED BY <1>6, <2>1, <2>2 DEF Instruction, CodeIn
<1>9. i.op \in Terminators /\ Targets(i) = {Top.trueBlock, Top.falseBlock}
  BY DEF Instruction, Terminators, Targets
<1> HIDE DEF c, i, P
<1>10. Top.block \notin O /\ BlocksOk(blocks, {Top.block} \cup O, W)
  <2>1. Top.block \notin O
    BY <1>3, <1>4, <1>5 DEF Parts
  <2>2. {} \cup OwnedBy(R) \cup ({Top.block, Top.cont} \ {Null}) = {Top.block} \cup O
    BY <1>5
  <2>3. BlocksOk(blocks, {} \cup OwnedBy(R) \cup ({Top.block, Top.cont} \ {Null}), W)
    BY <1>3, <1>4 DEF Parts
  <2> QED BY <2>1, <2>2, <2>3
<1>11. blocks \in Seq(Seq(P))
  BY DEF GenTypes, P
<1>12. Top.cont = Null \/ Top.cont \notin OwnedBy(R)
  BY <1>3, <1>4 DEF Parts
<1>13. OwnedBy(R) \cup ({Top.cont} \ {Null}) = O
  OBVIOUS
<1>14. (W \ Targets(i)) \ {Null} \subseteq AwaitedBy(R)
  BY <1>9
<1> HIDE DEF O, W
<1>15. BlocksOk(blocks', O, W \ Targets(i))
  BY <1>2, <1>7, <1>8, <1>9, <1>10, <1>11, Closing
<1>16. BlocksOk(blocks', ({Top.cont} \ {Null}) \cup OwnedBy(R), AwaitedBy(R))
  <2>1. BlocksOk(blocks', O, AwaitedBy(R))
    BY <1>14, <1>15, BlocksAwaited
  <2>2. ({Top.cont} \ {Null}) \cup OwnedBy(R) = O
    BY <1>13
  <2> QED BY <2>1, <2>2
<1>17. blocks' \in Seq(Seq(P)) /\ Len(blocks') = Len(blocks)
  <2> DEFINE d == c \o <<i>>
  <2>1. d \in Seq(P)
    <3>1. <<i>> \in Seq(P)
      BY <1>8
    <3> QED BY <1>7, <3>1, ConcatProperties
  <2>2. blocks' = Emit(blocks, Top.block, d)
    BY <1>2
  <2> HIDE DEF d
  <2> DEFINE b == Top.block
  <2>3. b \in 1 .. Len(blocks)
    BY <1>6
  <2>4. blocks' = Emit(blocks, b, d)
    BY <2>2
  <2> HIDE DEF b
  <2>5. Emit(blocks, b, d) \in Seq(Seq(P)) /\ Len(Emit(blocks, b, d)) = Len(blocks)
    BY <1>11, <2>1, <2>3, Emitted
  <2> QED BY <2>4, <2>5
<1>18. /\ blocks' \in Seq(Seq(CodeIn(ops, Len(blocks')))) /\ Len(blocks) <= Len(blocks')
       /\ Top.cont \in 0 .. Len(blocks') /\ builder' \in 1 .. Len(blocks')
       /\ values' \in Seq(SUBSET Nodes)
  <2>1. values' \in Seq(SUBSET Nodes)
    BY <1>2 DEF GenTypes
  <2>2. builder' \in 1 .. Len(blocks)
    BY <1>2, <1>3, <1>6 DEF Null
  <2>3. Len(blocks) <= Len(blocks)
    BY <1>3
  <2> QED BY <1>6, <1>17, <2>1, <2>2, <2>3 DEF P
<1>19. Top.cont # Null => Top.cont = builder' /\ Top.cont \notin OwnedBy(R)
  BY <1>2, <1>12
<1> QED BY <1>1, <1>2, <1>16, <1>18, <1>19, ReturnKeeps DEF R

\* A step of the generator keeps its invariant
LEMMA GenerateStmtKeeps ==
  ASSUME NEW ops, Ops \subseteq ops, GenTypes(ops), GenInv, GenerateStmt
  PROVE  GenTypes(ops)' /\ GenInv'
<1>1. CASE CodegenExpressionStmt
  BY <1>1, ExpressionStmtKeeps
<1>2. CASE CodegenDeclStmt
  BY <1>2, DeclStmtKeeps
<1>3. CASE CodegenReturnStmt
  BY <1>3, ReturnStmtKeeps
<1>4. CASE EnterCompound
  BY <1>4, EnterCompoundKeeps
<1>5. CASE CodegenChild
  BY <1>5, CodegenChildKeeps
<1>6. CASE ChildReturned
  BY <1>6, ChildReturnedKeeps
<1>7. CASE LeaveCompound
  BY <1>7, LeaveCompoundKeeps
<1>8. CASE EnterIf
  <2>1. Idle("stmt") /\ Kind(Top.node) \in {"if", "metaIf"} /\ EnterIfStructure
    BY <1>8 DEF EnterIf, Stmt
  <2> QED BY <2>1, EnterIfKeeps
<1>9. CASE TrueBranchReturned
  BY <1>9, ElseBranchKeeps, NoElseBranchKeeps
<1>10. CASE FalseBranchReturned
  BY <1>10, FalseBranchReturnedKeeps
<1>11. CASE CodegenCondition
  BY <1>11, ConditionKeeps
<1> QED
  BY <1>1, <1>2, <1>3, <1>4, <1>5, <1>6, <1>7, <1>8, <1>9, <1>10, <1>11 DEF GenerateStmt

(***************************************************************************)
(* The end of the generation, and what runs.                               *)
(***************************************************************************)
\* Beside the calls, nothing is open when the outermost one has returned
LEMMA AtEnd ==
  ASSUME NEW ops, GenTypes(ops), GenInv, status = "generating", stack = << >>
  PROVE  /\ ret \in 0 .. Len(blocks) /\ {ret} \ {Null} \subseteq {builder}
         /\ BlocksOk(blocks, {ret} \ {Null}, {})
<1>1. ret # Pending /\ ret \in 0 .. Len(blocks)
  BY DEF GenInv, GenTypes
<1>2. Len(<< >>) = 0 /\ 1 .. 0 = {}
  OBVIOUS
<1>3. OwnedBy(stack) = {} /\ AwaitedBy(stack) = {}
  BY <1>2 DEF OwnedBy, AwaitedBy
<1>4. Position(stack, ret) = {ret} \ {Null}
  BY <1>1 DEF Position
<1>5. /\ Position(stack, ret) \subseteq {builder}
      /\ BlocksOk(blocks, Position(stack, ret) \cup OwnedBy(stack), AwaitedBy(stack))
  BY DEF GenInv, StackInv, PositionOk
<1>6. BlocksOk(blocks, ({ret} \ {Null}) \cup {}, {})
  BY <1>3, <1>4, <1>5
<1> QED BY <1>1, <1>4, <1>5, <1>6

\* Generation ends with no block open, and what is run is complete
LEMMA EmptyStack ==
  ASSUME NEW tree, NEW b, NEW bs, BlocksOk(bs, {}, {})
  PROVE  StackInv(tree, << >>, Pending, b, bs)
<1>1. Len(<< >>) = 0 /\ 1 .. 0 = {} /\ 1 .. 0 - 1 = {}
  OBVIOUS
<1>2. OwnedBy(<< >>) = {} /\ AwaitedBy(<< >>) = {} /\ Apart(<< >>) /\ FramesOk(tree, << >>, Pending)
  BY <1>1 DEF OwnedBy, AwaitedBy, Apart, FramesOk
<1>3. Position(<< >>, Pending) = {}
  BY DEF Position
<1>4. BlocksOk(bs, {} \cup {}, {})
  OBVIOUS
<1> QED BY <1>2, <1>3, <1>4 DEF StackInv, PositionOk

\* The last block is closed by a return
LEMMA RetCloses ==
  ASSUME NEW ops, Ops \subseteq ops, NEW bs, bs \in Seq(Seq(CodeIn(ops, Len(bs)))),
         NEW b \in 1 .. Len(bs), BlocksOk(bs, {b}, {})
  PROVE  /\ Emit(bs, b, <<Do("ret", NoNode)>>) \in Seq(Seq(CodeIn(ops, Len(bs))))
         /\ Len(Emit(bs, b, <<Do("ret", NoNode)>>)) = Len(bs)
         /\ BlocksOk(Emit(bs, b, <<Do("ret", NoNode)>>), {}, {})
<1> DEFINE P == CodeIn(ops, Len(bs))
           i == Do("ret", NoNode)
<1>1. i \in P /\ i.op \in Terminators /\ Targets(i) = {}
  BY DEF Do, Instruction, CodeIn, Ops, Terminators, Targets
<1> HIDE DEF i, P
<1>2. << >> \in Seq(P) /\ Straight(<< >>) /\ << >> \o <<i>> = <<i>>
  BY EmptySeq DEF Straight
<1>3. <<i>> \in Seq(P) /\ bs \in Seq(Seq(P))
  BY <1>1 DEF P
<1>4. BlocksOk(bs, {b} \cup {}, {}) /\ b \notin {}
  OBVIOUS
<1>5. BlocksOk(Emit(bs, b, << >> \o <<i>>), {}, {} \ Targets(i))
  BY <1>1, <1>2, <1>3, <1>4, Closing
<1>6. Emit(bs, b, <<i>>) \in Seq(Seq(P)) /\ Len(Emit(bs, b, <<i>>)) = Len(bs)
  BY <1>3, Emitted, ZenonT(60)
<1>7. {} \ Targets(i) = {}
  OBVIOUS
<1> QED BY <1>2, <1>5, <1>6, <1>7 DEF P, i

\* What begins to run is complete
LEMMA RunBegins ==
  ASSUME NEW ops, GenTypes(ops), RunInv, status = "generating", stack = << >>,
         blocks' \in Seq(Seq(CodeIn(ops, Len(blocks)))), Len(blocks') = Len(blocks),
         BlocksOk(blocks', {}, {}), ret' = Pending, status' = "running",
         UNCHANGED <<ast, builder, values, stack, runVars>>
  PROVE  GenTypes(ops)' /\ GenInv' /\ RunInv'
<1>1. GenTypes(ops)'
  BY DEF GenTypes
<1>2. GenInv'
  <2>1. StackInv(ast', << >>, Pending, builder', blocks')
    BY EmptyStack
  <2> QED BY <2>1 DEF GenInv
<1>3. RunInv'
  <2>1. at' = <<1, 1>> /\ at' = at /\ outcomes' = outcomes
    BY DEF RunInv, runVars
  <2>2. Len(blocks) \in Nat /\ 1 \in 1 .. Len(blocks)
    BY DEF GenTypes
  <2>3. Closed(blocks'[1]) /\ blocks'[1] \in Seq(CodeIn(ops, Len(blocks)))
    BY <2>2 DEF BlocksOk
  <2>4. 1 \in 1 .. Len(blocks'[1])
    BY <2>3, EmptySeq DEF Closed
  <2> QED BY <2>1, <2>2, <2>4 DEF RunInv
<1> QED BY <1>1, <1>2, <1>3

LEMMA FinishFunctionKeeps ==
  ASSUME NEW ops, Ops \subseteq ops, GenTypes(ops), GenInv, RunInv, FinishFunction
  PROVE  GenTypes(ops)' /\ GenInv' /\ RunInv'
<1>1. status = "generating" /\ stack = << >> /\ ret' = Pending /\ status' = "running"
      /\ UNCHANGED <<ast, builder, values, stack, runVars>>
  BY DEF FinishFunction, Generating
<1>2. blocks \in Seq(Seq(CodeIn(ops, Len(blocks)))) /\ builder \in 1 .. Len(blocks)
  BY DEF GenTypes
<1>3. {ret} \ {Null} \subseteq {builder} /\ BlocksOk(blocks, {ret} \ {Null}, {})
  BY <1>1, AtEnd
<1>4. /\ blocks' \in Seq(Seq(CodeIn(ops, Len(blocks)))) /\ Len(blocks') = Len(blocks)
      /\ BlocksOk(blocks', {}, {})
  <2>1. CASE ret = Null
    <3>1. blocks' = blocks /\ {ret} \ {Null} = {}
      BY <2>1 DEF FinishFunction
    <3> QED BY <1>2, <1>3, <3>1
  <2>2. CASE ret # Null
    <3>1. blocks' = Emit(blocks, builder, <<Do("ret", NoNode)>>) /\ {ret} \ {Null} = {builder}
      BY <1>3, <2>2 DEF FinishFunction
    <3> QED BY <1>2, <1>3, <3>1, RetCloses
  <2> QED BY <2>1, <2>2
<1> QED BY <1>1, <1>4, RunBegins

\* Nothing is generated while the function runs
LEMMA RunKeepsGenerated ==
  ASSUME NEW ops, GenTypes(ops), GenInv, UNCHANGED genVars,
         status' = status \/ (status = "running" /\ status' = "returned")
  PROVE  GenTypes(ops)' /\ GenInv'
BY DEF genVars, GenTypes, GenInv

\* What runs is in a closed block
LEMMA Running ==
  ASSUME NEW ops, GenTypes(ops), GenInv, RunInv, status = "running"
  PROVE  /\ at[1] \in 1 .. Len(blocks) /\ at[2] \in 1 .. Len(Instructions) /\ at \in Nat \X Nat
         /\ Instructions \in Seq(CodeIn(ops, Len(blocks))) /\ Closed(Instructions)
         /\ \A b \in 1 .. Len(blocks) : 1 \in 1 .. Len(blocks[b])
         /\ Instructions[at[2]] \in CodeIn(ops, Len(blocks))
<1>1. at[1] \in 1 .. Len(blocks) /\ at[2] \in 1 .. Len(Instructions) /\ at \in Nat \X Nat
  BY DEF RunInv, Instructions
<1>2. stack = << >> /\ ret = Pending /\ StackInv(ast, << >>, Pending, builder, blocks)
  BY DEF GenInv
<1>3. Len(<< >>) = 0 /\ 1 .. 0 = {}
  OBVIOUS
<1>4. OwnedBy(<< >>) = {} /\ AwaitedBy(<< >>) = {} /\ Position(<< >>, Pending) = {}
  BY <1>3 DEF OwnedBy, AwaitedBy, Position
<1>5. BlocksOk(blocks, {} \cup {}, {})
  BY <1>2, <1>4 DEF StackInv
<1>6. \A b \in 1 .. Len(blocks) : Closed(blocks[b]) /\ blocks[b] \in Seq(CodeIn(ops, Len(blocks)))
  BY <1>5 DEF BlocksOk, GenTypes
<1>7. \A b \in 1 .. Len(blocks) : 1 \in 1 .. Len(blocks[b])
  BY <1>6, EmptySeq DEF Closed
<1>8. Instructions \in Seq(CodeIn(ops, Len(blocks))) /\ Closed(Instructions)
  BY <1>1, <1>6 DEF Instructions
<1>9. Instructions[at[2]] \in CodeIn(ops, Len(blocks))
  BY <1>1, <1>8, ElementOfSeq
<1> QED BY <1>1, <1>7, <1>8, <1>9

\* A run stays within the blocks
LEMMA RunFunctionKeeps ==
  ASSUME NEW ops, GenTypes(ops), GenInv, RunInv, RunFunction
  PROVE  /\ GenTypes(ops)' /\ GenInv' /\ RunInv'
         /\ status' \in {status, "returned"}
<1> DEFINE i == Instructions[at[2]]
<1>1. status = "running" /\ UNCHANGED genVars
  BY DEF RunFunction, Run, Branch, ReturnFromFunction
<1>2. status' \in {"running", "returned"}
  BY DEF RunFunction, Run, Branch, ReturnFromFunction
<1>3. GenTypes(ops)' /\ GenInv'
  BY <1>1, <1>2, RunKeepsGenerated
<1>4. /\ at[1] \in 1 .. Len(blocks) /\ at[2] \in 1 .. Len(Instructions) /\ at \in Nat \X Nat
      /\ Closed(Instructions) /\ i \in CodeIn(ops, Len(blocks))
      /\ Instructions \in Seq(CodeIn(ops, Len(blocks)))
      /\ \A b \in 1 .. Len(blocks) : 1 \in 1 .. Len(blocks[b])
  BY <1>1, Running
<1>5. blocks' = blocks
  BY <1>1 DEF genVars
<1>6. CASE Run
  <2>1. /\ i.op \notin Terminators /\ at' = [at EXCEPT ![2] = @ + 1] /\ status' = "running"
        /\ outcomes' = outcomes
    BY <1>6 DEF Run
  <2>2. at[2] # Len(Instructions)
    BY <1>4, <2>1 DEF Closed
  <2>3. PICK m \in Nat : m = Len(Instructions)
    BY <1>4
  <2>4. \A a, l \in Nat : a \in 1 .. l /\ a # l => a + 1 \in Nat /\ a + 1 \in 1 .. l
    OBVIOUS
  <2>5. at[2] \in Nat /\ at[2] + 1 \in Nat /\ at[2] + 1 \in 1 .. Len(Instructions)
    BY <1>4, <2>2, <2>3, <2>4
  <2>6. at' \in Nat \X Nat /\ at'[1] = at[1] /\ at'[2] = at[2] + 1
    BY <1>4, <2>1, <2>5
  <2>7. at'[1] \in 1 .. Len(blocks') /\ at'[2] \in 1 .. Len(blocks'[at'[1]])
    BY <1>4, <1>5, <2>5, <2>6 DEF Instructions
  <2>8. DOMAIN outcomes' \subseteq Nodes
    BY <2>1 DEF RunInv
  <2>9. RunInv'
    BY <2>1, <2>6, <2>7, <2>8 DEF RunInv
  <2> QED BY <1>3, <2>1, <1>1, <2>9
<1>7. CASE Branch
  <2>1. status' = "running" /\ outcomes' # outcomes => i.op = "condbr"
    BY <1>1, <1>7 DEF Branch
  <2>2. DOMAIN outcomes' \subseteq Nodes
    <3>1. CASE outcomes' = outcomes
      BY <3>1 DEF RunInv
    <3>2. CASE outcomes' # outcomes
      <4>1. PICK v \in BOOLEAN :
              outcomes' = [n \in DOMAIN outcomes \cup {i.node} |->
                             IF n = i.node THEN v ELSE outcomes[n]]
        BY <1>7, <3>2 DEF Branch
      <4>2. i.op = "condbr"
        BY <1>7, <3>2 DEF Branch
      <4>3. i.node \in Nodes
        BY <1>4, <4>2 DEF CodeIn
      <4>4. DOMAIN outcomes \subseteq Nodes
        BY DEF RunInv
      <4> QED BY <4>1, <4>3, <4>4
    <3> QED BY <3>1, <3>2
  <2>3. \E b \in 1 .. Len(blocks) : at' = <<b, 1>>
    <3>1. CASE i.op = "br"
      <4>1. at' = <<i.to[1], 1>>
        BY <1>7, <3>1 DEF Branch
      <4>2. i.to[1] \in 1 .. Len(blocks)
        BY <1>4, <3>1 DEF CodeIn
      <4> QED BY <4>1, <4>2
    <3>2. CASE i.op # "br"
      <4>1. i.op = "condbr" /\ \E v \in BOOLEAN :
              at' = <<IF v \/ IsMemory(Kid(i.node, 1)) THEN i.to[1] ELSE i.to[2], 1>>
        BY <1>7, <3>2 DEF Branch
      <4>2. i.to[1] \in 1 .. Len(blocks) /\ i.to[2] \in 1 .. Len(blocks)
        BY <1>4, <4>1 DEF CodeIn
      <4> QED BY <4>1, <4>2
    <3> QED BY <3>1, <3>2
  <2>4. PICK b \in 1 .. Len(blocks) : at' = <<b, 1>>
    BY <2>3
  <2>5. at' \in Nat \X Nat /\ at'[1] = b /\ at'[2] = 1
    BY <2>4
  <2>6. status' = "running"
    BY <1>1, <1>7 DEF Branch
  <2> QED BY <1>3, <1>4, <1>5, <2>2, <2>4, <2>5, <2>6, <1>1 DEF RunInv
<1>8. CASE ReturnFromFunction
  <2>1. status' = "returned" /\ at' = at /\ outcomes' = outcomes
    BY <1>8 DEF ReturnFromFunction
  <2> QED BY <1>3, <2>1 DEF RunInv
<1>9. status' \in {status, "returned"}
  BY <1>1, <1>2
<1> QED BY <1>3, <1>6, <1>7, <1>8, <1>9 DEF RunFunction

(***************************************************************************)
(* FunctionCodegen: the first call, and every step.                        *)
(***************************************************************************)
LEMMA ArgumentTypes ==
  ASSUME ast \in Asts
  PROVE  /\ Args \in Seq(Nodes) /\ Last(Kids(1)) \in Nodes
         /\ ArgCode \in Seq(PlainCode(Ops))
         /\ {Args[k] : k \in 1 .. Len(Args)} \in SUBSET Nodes
<1>1. 1 \in Nodes /\ Len(Kids(1)) >= 2 /\ Kids(1) \in Seq(Nodes)
  BY Trees
<1>2. PICK m \in Nat : m = Len(Kids(1))
  BY <1>1
<1>3. m >= 2
  BY <1>1, <1>2
<1>4. 1 \in 1 .. Len(Kids(1)) /\ Len(Kids(1)) \in 1 .. Len(Kids(1))
  BY <1>2, <1>3
<1>5. Kid(1, 1) \in Nodes
  BY <1>1, <1>4, KidNode
<1>6. Args \in Seq(Nodes)
  BY <1>5, Trees DEF Args
<1>7. Last(Kids(1)) \in Nodes
  BY <1>1, <1>4, ElementOfSeq DEF Last
<1>8. Len(Args) \in Nat /\ \A k \in 1 .. Len(Args) : Args[k] \in Nodes
  BY <1>6, ElementOfSeq
<1>9. \A k \in 1 .. Len(Args) : ArgCode[k] \in PlainCode(Ops)
  <2>1. "store" \in Ops \ Terminators
    BY DEF Ops, Terminators
  <2> QED BY <1>8, <2>1 DEF ArgCode, Do, Instruction, PlainCode
<1>10. ArgCode \in Seq(PlainCode(Ops))
  <2>1. ArgCode = [k \in 1 .. Len(Args) |-> ArgCode[k]]
    BY DEF ArgCode
  <2> QED BY <1>8, <1>9, <2>1, IsASeq
<1> QED BY <1>6, <1>7, <1>8, <1>10

\* The entry block is open, at the position, and all there is
LEMMA GenerationBegins ==
  ASSUME NEW ops, ast \in Asts, NEW c \in Seq(CodeIn(ops, 1)), Straight(c),
         NEW pc \in {"stmt", "meta"},
         blocks = <<c>>, builder = 1, values = <<{Args[k] : k \in 1 .. Len(Args)}>>,
         stack = <<CallOf(pc, Last(Kids(1)), 1)>>, ret = Pending,
         at = <<1, 1>>, outcomes = << >>, status = "generating"
  PROVE  GenTypes(ops) /\ GenInv /\ RunInv
<1> DEFINE f == CallOf(pc, Last(Kids(1)), 1)
<1>1. /\ Last(Kids(1)) \in Nodes /\ {Args[k] : k \in 1 .. Len(Args)} \in SUBSET Nodes
  BY ArgumentTypes
<1>2. Len(blocks) = 1 /\ blocks[1] = c /\ 1 \in 1 .. Len(blocks) /\ 1 .. Len(blocks) = {1}
  OBVIOUS
<1>3. blocks \in Seq(Seq(CodeIn(ops, Len(blocks))))
  BY <1>2
<1>4. f \in FrameIn(1) /\ f.pc = pc /\ f.block = 1 /\ f.cont = Null /\ f.falseBlock = Null
  <2>1. << >> \in Seq(Nodes)
    BY EmptySeq
  <2> QED BY <1>1, <2>1 DEF CallOf, FrameIn, PCs, Null
<1>5. values \in Seq(SUBSET Nodes)
  <2> DEFINE v == {Args[k] : k \in 1 .. Len(Args)}
  <2>1. v \in SUBSET Nodes /\ values = <<v>>
    BY <1>1
  <2> HIDE DEF v
  <2> QED BY <2>1
<1>6. stack = <<f>>
  OBVIOUS
<1> HIDE DEF f
<1>7. stack \in Seq(FrameIn(Len(blocks))) /\ stack # << >>
  BY <1>2, <1>4, <1>6
<1>8. GenTypes(ops)
  BY <1>2, <1>3, <1>5, <1>7 DEF GenTypes
<1>9. Len(<< >>) = 0 /\ 1 .. 0 = {}
  OBVIOUS
<1>10. Waiting(ast, << >>) /\ Apart(<< >>) /\ OwnedBy(<< >>) = {} /\ AwaitedBy(<< >>) = {}
  BY <1>9 DEF Waiting, Apart, OwnedBy, AwaitedBy
<1>11. /\ FrameOk(ast, f) /\ InState(f, Pending) /\ PassedOn(f, Pending) = {1}
       /\ Owns(f) = {} /\ Awaits(f) = {}
  BY <1>4 DEF FrameOk, InState, PassedOn, Owns, Awaits, IfPcs, Active, Null, Pending
<1>12. BlocksOk(blocks, {1} \cup {} \cup {}, {} \cup {})
  BY <1>2 DEF BlocksOk
<1>13. Parts(ast, << >>, f, Pending, builder, blocks)
  BY <1>10, <1>11, <1>12 DEF Parts
<1>14. StackInv(ast, stack, Pending, builder, blocks)
  <2>1. << >> \in Seq(FrameIn(1)) /\ stack = Append(<< >>, f)
    BY <1>6
  <2> QED BY <1>4, <1>13, <2>1, StackAppended, Zenon
<1>15. GenInv
  BY <1>7, <1>14 DEF GenInv
<1>16. RunInv
  <2>1. DOMAIN << >> = {}
    OBVIOUS
  <2> QED BY <2>1 DEF RunInv
<1> QED BY <1>8, <1>15, <1>16

LEMMA FunctionBegins == Init => FunctionInv
<1> SUFFICES ASSUME Init PROVE FunctionInv
  OBVIOUS
<1>1. ast \in Asts /\ ArgCode \in Seq(PlainCode(Ops))
  BY ArgumentTypes DEF Init
<1>2. ArgCode \in Seq(CodeIn(Ops, 1)) /\ Straight(ArgCode)
  BY <1>1, CodeTypes
<1>3. GenTypes(Ops) /\ GenInv /\ RunInv
  <2> DEFINE c == ArgCode
  <2>1. c \in Seq(CodeIn(Ops, 1)) /\ Straight(c) /\ blocks = <<c>>
    BY <1>2 DEF Init
  <2> HIDE DEF c
  <2> QED BY <1>1, <2>1, GenerationBegins DEF Init, CodegenStmt
<1> QED BY <1>3 DEF FunctionInv, Init, Statuses

\* A step of the generator does not touch what runs
LEMMA GenerateStmtRuns ==
  ASSUME GenerateStmt, RunInv
  PROVE  RunInv' /\ status' \in {"generating", "nullBlock", "localMissing"}
<1>1. UNCHANGED runVars /\ status = "generating"
  BY DEF GenerateStmt, CodegenExpressionStmt, CodegenDeclStmt, CodegenReturnStmt,
         EnterCompound, CodegenChild, ChildReturned, LeaveCompound, EnterIf, EnterIfStructure,
         TrueBranchReturned, FalseBranchReturned, CodegenCondition,
         Stmt, Idle, Returned, At, Generating
<1>2. status' \in {"generating", "nullBlock", "localMissing"}
  BY <1>1
  DEF GenerateStmt, CodegenExpressionStmt, CodegenDeclStmt, CodegenReturnStmt,
      EnterCompound, CodegenChild, ChildReturned, LeaveCompound, EnterIf, EnterIfStructure,
      TrueBranchReturned, FalseBranchReturned, CodegenCondition, CheckLookups
<1> QED BY <1>1, <1>2 DEF RunInv, runVars

LEMMA FunctionSteps == FunctionInv /\ [Next]_vars => FunctionInv'
<1> SUFFICES ASSUME FunctionInv, [Next]_vars PROVE FunctionInv'
  OBVIOUS
<1>0. GenTypes(Ops) /\ RunInv /\ status \in Statuses /\ GenInv
  BY DEF FunctionInv
<1>1. CASE GenerateStmt
  <2>1. GenTypes(Ops)' /\ GenInv'
    BY <1>0, <1>1, GenerateStmtKeeps
  <2>2. RunInv' /\ status' \in Statuses
    BY <1>0, <1>1, GenerateStmtRuns DEF Statuses
  <2> QED BY <2>1, <2>2 DEF FunctionInv
<1>2. CASE FinishFunction
  <2>1. status' \in Statuses
    BY <1>2 DEF FinishFunction, Statuses
  <2> QED BY <1>0, <1>2, <2>1, FinishFunctionKeeps DEF FunctionInv
<1>3. CASE RunFunction
  <2>1. GenTypes(Ops)' /\ GenInv' /\ RunInv' /\ status' \in Statuses
    BY <1>0, <1>3, RunFunctionKeeps DEF Statuses
  <2> QED BY <2>1 DEF FunctionInv
<1>4. CASE UNCHANGED vars
  <2>1. UNCHANGED genVars /\ UNCHANGED runVars /\ status' = status
    BY <1>4 DEF vars
  <2>2. GenTypes(Ops)' /\ GenInv'
    BY <1>0, <2>1, RunKeepsGenerated
  <2>3. RunInv'
    BY <1>0, <2>1 DEF RunInv, genVars, runVars
  <2> QED BY <1>0, <2>1, <2>2, <2>3 DEF FunctionInv
<1> QED BY <1>1, <1>2, <1>3, <1>4 DEF Next, Ended

\* While a function is generated and run, everything is typed, each open block is the
\* position of the builder or belongs to one if that closes it, and every other block
\* is closed: codegenIfStructure leaves no block without a terminator, however ifs nest
THEOREM FunctionInvariant == Spec => []FunctionInv
<1>1. Init => FunctionInv
  BY FunctionBegins
<1>2. FunctionInv /\ [Next]_vars => FunctionInv'
  BY FunctionSteps
<1> QED BY <1>1, <1>2, PTL DEF Spec

(***************************************************************************)
(* What the invariant says of the blocks and of the types.                 *)
(***************************************************************************)
LEMMA CodeIsTyped ==
  ASSUME NEW ops, NEW n \in Nat, NEW i \in CodeIn(ops, n), Ops \subseteq ops
  PROVE  i.op \in ops /\ i.node \in Nodes \cup {NoNode} /\ \A j \in DOMAIN i.to : i.to[j] \in 1 .. n
<1>1. CASE i \in [op : ops \ {"br", "condbr"}, node : Nodes \cup {NoNode}, to : {<< >>}]
  <2>1. DOMAIN << >> = {}
    OBVIOUS
  <2> QED BY <1>1, <2>1
<1>2. CASE i \in [op : {"br"}, node : {NoNode}, to : {<<b>> : b \in 1 .. n}]
  <2>1. PICK b \in 1 .. n : i.to = <<b>>
    BY <1>2
  <2>2. "br" \in ops
    BY DEF Ops, Terminators
  <2>3. DOMAIN <<b>> = {1} /\ <<b>>[1] = b
    OBVIOUS
  <2> QED BY <1>2, <2>1, <2>2, <2>3
<1>3. CASE i \in [op : {"condbr"}, node : Nodes, to : {<<b, c>> : b \in 1 .. n, c \in 1 .. n}]
  <2>1. PICK b \in 1 .. n, c \in 1 .. n : i.to = <<b, c>>
    BY <1>3
  <2>2. "condbr" \in ops
    BY DEF Ops, Terminators
  <2>3. DOMAIN <<b, c>> = {1, 2} /\ <<b, c>>[1] = b /\ <<b, c>>[2] = c
    OBVIOUS
  <2> QED BY <1>3, <2>1, <2>2, <2>3
<1> QED BY <1>1, <1>2, <1>3 DEF CodeIn

\* What the invariant says of the types, the terminators and the positions
LEMMA TypesHold ==
  ASSUME NEW ops, Ops \subseteq ops, NEW statuses, GenTypes(ops), RunInv, status \in statuses
  PROVE  WellTyped(ops, statuses)
<1>1. /\ ast \in Asts /\ blocks \in Seq(Seq(CodeIn(ops, Len(blocks)))) /\ Len(blocks) \in Nat
      /\ builder \in BlockIds /\ values \in Seq(SUBSET Nodes)
      /\ stack \in Seq(FrameIn(Len(blocks))) /\ ret \in 0 .. Len(blocks) \cup {Pending}
  BY DEF GenTypes, BlockIds
<1>2. ast \in AstType
  BY <1>1, AstsAssumption
<1>3. ASSUME NEW b \in BlockIds, NEW k \in DOMAIN blocks[b]
      PROVE  LET i == blocks[b][k] IN
             i.op \in ops /\ i.node \in Nodes \cup {NoNode} /\ \A j \in DOMAIN i.to : i.to[j] \in BlockIds
  <2>1. blocks[b] \in Seq(CodeIn(ops, Len(blocks)))
    BY <1>1, <1>3 DEF BlockIds
  <2>2. blocks[b][k] \in CodeIn(ops, Len(blocks))
    BY <2>1, <1>3, ElementOfSeq
  <2> QED BY <1>1, <2>2, CodeIsTyped DEF BlockIds
<1>4. \A k \in DOMAIN values : values[k] \subseteq Nodes
  BY <1>1
<1>5. ASSUME NEW k \in DOMAIN stack
      PROVE  /\ stack[k].pc \in PCs /\ stack[k].node \in Nodes
             /\ {stack[k].block, stack[k].trueBlock, stack[k].falseBlock, stack[k].cont}
                  \subseteq BlockIds \cup {Null}
  <2>1. stack[k] \in FrameIn(Len(blocks))
    BY <1>1, <1>5
  <2>2. 0 .. Len(blocks) = BlockIds \cup {Null}
    BY <1>1 DEF BlockIds, Null
  <2> QED BY <2>1, <2>2 DEF FrameIn
<1>6. ret \in BlockIds \cup {Null, Pending}
  BY <1>1 DEF BlockIds, Null
<1>7. DOMAIN outcomes \subseteq Nodes
  BY DEF RunInv
<1> QED BY <1>1, <1>2, <1>3, <1>4, <1>5, <1>6, <1>7 DEF WellTyped

LEMMA EachEndsOnce ==
  ASSUME NEW ops, GenTypes(ops), GenInv
  PROVE  /\ OneTerminator
         /\ status = "running" => \A b \in BlockIds \ {1} : Branched(blocks, b)
<1>1. StackInv(ast, stack, ret, builder, blocks)
  BY DEF GenInv
<1>2. \A b \in 1 .. Len(blocks) : Straight(blocks[b]) \/ Closed(blocks[b])
  BY <1>1 DEF StackInv, BlocksOk
<1>3. ASSUME NEW b \in BlockIds, NEW k \in 1 .. Len(blocks[b]) - 1 PROVE ~IsTerminator(b, k)
  <2>1. b \in 1 .. Len(blocks)
    BY DEF BlockIds
  <2>2. blocks[b] \in Seq(CodeIn(ops, Len(blocks)))
    BY <2>1 DEF GenTypes
  <2>3. k \in 1 .. Len(blocks[b])
    <3>1. PICK m \in Nat : m = Len(blocks[b])
      BY <2>2
    <3>2. k \in 1 .. m - 1
      BY <3>1
    <3> QED BY <3>1, <3>2
  <2> QED BY <1>2, <2>1, <2>3 DEF Straight, Closed, IsTerminator
<1>4. ASSUME status \in {"running", "returned"}
      PROVE  BlocksOk(blocks, {}, {})
  <2>1. stack = << >> /\ ret = Pending
    BY <1>4 DEF GenInv
  <2>2. Len(<< >>) = 0 /\ 1 .. 0 = {}
    OBVIOUS
  <2>3. OwnedBy(<< >>) = {} /\ AwaitedBy(<< >>) = {} /\ Position(<< >>, Pending) = {}
    BY <2>2 DEF OwnedBy, AwaitedBy, Position
  <2>4. BlocksOk(blocks, {} \cup {}, {})
    BY <1>1, <2>1, <2>3 DEF StackInv
  <2> QED BY <2>4
<1>5. ASSUME status \in {"running", "returned"}, NEW b \in BlockIds
      PROVE  blocks[b] # << >> /\ IsTerminator(b, Len(blocks[b]))
  <2>1. Closed(blocks[b])
    BY <1>4, <1>5 DEF BlocksOk, BlockIds
  <2> QED BY <2>1 DEF Closed, IsTerminator
<1>6. status = "running" => \A b \in BlockIds \ {1} : Branched(blocks, b)
  BY <1>4 DEF BlocksOk, BlockIds
<1>7. OneTerminator
  BY <1>3, <1>5 DEF OneTerminator
<1> QED BY <1>6, <1>7

LEMMA PositionsAgree ==
  ASSUME NEW ops, GenTypes(ops), GenInv, Idle("stmt") \/ Idle("meta")
  PROVE  builder = Top.block
BY AtStmt

\* Every variable of FunctionCodegen has its type: what is branched to is a block
\* that there is, for any tree the classes of AST.hpp can hold
THEOREM GeneratedTypes == Spec => []TypeOK
<1>1. FunctionInv => TypeOK
  BY TypesHold DEF FunctionInv, TypeOK
<1> QED BY <1>1, FunctionInvariant, PTL

\* The position of the IR builder is the block that is passed on whenever a
\* statement begins, although the block of a condition is left open while its
\* branches are generated
THEOREM BuilderFollowsBlock == Spec => []InsertPointAgrees
<1>1. FunctionInv => InsertPointAgrees
  BY PositionsAgree DEF FunctionInv, InsertPointAgrees
<1> QED BY <1>1, FunctionInvariant, PTL

\* Each block ends with its only terminator, and each but the entry is branched to:
\* a continue block is there only when a branch continues
THEOREM WellFormedFunctions == Spec => []BlocksWellFormed
<1>1. FunctionInv => BlocksWellFormed
  <2> SUFFICES ASSUME FunctionInv PROVE BlocksWellFormed
    OBVIOUS
  <2>1. GenTypes(Ops) /\ GenInv
    BY DEF FunctionInv
  <2>2. OneTerminator /\ (status = "running" => \A b \in BlockIds \ {1} : Branched(blocks, b))
    BY <2>1, EachEndsOnce
  <2>3. \A p \in BlockIds : DOMAIN blocks[p] = 1 .. Len(blocks[p])
    BY <2>1 DEF GenTypes, BlockIds
  <2>4. \A b : Branched(blocks, b) =>
          \E p \in BlockIds : \E k \in DOMAIN blocks[p] : b \in Targets(blocks[p][k])
    BY <2>3 DEF Branched, BlockIds
  <2> QED BY <2>2, <2>4 DEF BlocksWellFormed
<1> QED BY <1>1, FunctionInvariant, PTL

(***************************************************************************)
(* MetaCodegen: what a call of codegenMeta returns is a block.             *)
(***************************************************************************)
LEMMA MetaAppended ==
  ASSUME NEW F, NEW st \in Seq(F), NEW f \in F, NEW tree
  PROVE  /\ MetaCalls(tree, Append(st, f)) <=>
              /\ MetaCalls(tree, st) /\ LiveMeta(tree, f)
              /\ (ForMeta(tree, st) => OfMeta(tree, f))
         /\ ForMeta(tree, Append(st, f)) <=> CallsMeta(tree, f)
<1> DEFINE s == Append(st, f)
<1>0. PICK n \in Nat : n = Len(st)
  OBVIOUS
<1>1. s # << >> /\ Len(s) = n + 1 /\ s[n + 1] = f /\ \A k \in 1 .. n : s[k] = st[k]
  BY <1>0, AppendedType
<1>2. st = << >> <=> n = 0
  BY <1>0, EmptySeq
<1> HIDE DEF s
<1>3. /\ 1 .. n + 1 = 1 .. n \cup {n + 1} /\ n + 1 - 1 = n
      /\ n # 0 => n \in 1 .. n /\ 1 \in 1 .. n /\ 1 .. n = 1 .. n - 1 \cup {n}
      /\ \A k \in 1 .. n - 1 : k \in 1 .. n /\ k + 1 \in 1 .. n
  OBVIOUS
<1>4. ForMeta(tree, s) <=> CallsMeta(tree, f)
  BY <1>1 DEF ForMeta
<1>5. MetaCalls(tree, s) <=>
        /\ OfMeta(tree, s[1])
        /\ \A k \in 1 .. n : CallsMeta(tree, s[k]) => OfMeta(tree, s[k + 1])
        /\ \A k \in 1 .. n : LiveMeta(tree, st[k])
        /\ LiveMeta(tree, f)
  BY <1>1, <1>3 DEF MetaCalls
<1>6. CASE n = 0
  <2>1. 1 .. n = {} /\ 1 .. n - 1 = {} /\ s[1] = f
    BY <1>1, <1>6
  <2>2. MetaCalls(tree, st) /\ ForMeta(tree, st)
    BY <1>0, <1>2, <1>6, <2>1 DEF MetaCalls, ForMeta
  <2> QED BY <1>4, <1>5, <2>1, <2>2 DEF s
<1>7. CASE n # 0
  <2>1. ForMeta(tree, st) <=> CallsMeta(tree, st[n])
    BY <1>0, <1>2, <1>7 DEF ForMeta
  <2>2. MetaCalls(tree, st) <=>
          /\ OfMeta(tree, st[1])
          /\ \A k \in 1 .. n - 1 : CallsMeta(tree, st[k]) => OfMeta(tree, st[k + 1])
          /\ \A k \in 1 .. n : LiveMeta(tree, st[k])
    BY <1>0, <1>2, <1>7 DEF MetaCalls
  <2>3. s[1] = st[1]
    BY <1>1, <1>3, <1>7
  <2>4. (\A k \in 1 .. n : CallsMeta(tree, s[k]) => OfMeta(tree, s[k + 1])) <=>
          /\ \A k \in 1 .. n - 1 : CallsMeta(tree, st[k]) => OfMeta(tree, st[k + 1])
          /\ (CallsMeta(tree, st[n]) => OfMeta(tree, f))
    <3>1. \A k \in 1 .. n - 1 : s[k] = st[k] /\ s[k + 1] = st[k + 1]
      BY <1>1, <1>3
    <3>2. s[n] = st[n] /\ s[n + 1] = f
      BY <1>1, <1>3, <1>7
    <3> QED BY <1>3, <1>7, <3>1, <3>2
  <2> QED BY <1>4, <1>5, <2>1, <2>2, <2>3, <2>4 DEF s
<1> QED BY <1>6, <1>7

\* What MetaInv says of the innermost call
LEMMA MetaTop ==
  ASSUME NEW ops, GenTypes(ops), MetaInv, stack # << >>
  PROVE  /\ stack \in Seq(FrameIn(Len(blocks)))
         /\ Front(stack) \in Seq(FrameIn(Len(blocks))) /\ Top \in FrameIn(Len(blocks))
         /\ MetaCalls(ast, Front(stack)) /\ LiveMeta(ast, Top)
         /\ ForMeta(ast, Front(stack)) => OfMeta(ast, Top)
         /\ CallsMeta(ast, Top) => ret # Null
<1>1. stack \in Seq(FrameIn(Len(blocks)))
  BY DEF GenTypes
<1>2. Front(stack) \in Seq(FrameIn(Len(blocks))) /\ Top \in FrameIn(Len(blocks))
  BY <1>1, FrontType DEF Top
<1>3. stack = Append(Front(stack), Top)
  BY <1>1, FrontAppended DEF Top
<1>4. /\ MetaCalls(ast, Append(Front(stack), Top))
      /\ ForMeta(ast, Append(Front(stack), Top)) => ret # Null
  BY <1>3, Zenon DEF MetaInv, MetaStack
<1> QED BY <1>1, <1>2, <1>4, MetaAppended, Zenon

\* The three changes of the stack keep MetaInv
LEMMA MetaReturns ==
  ASSUME NEW ops, GenTypes(ops), MetaInv, stack # << >>, NEW b, Return(b), ast' = ast,
         OfMeta(ast, Top) => b # Null
  PROVE  MetaInv'
BY MetaTop DEF Return, MetaInv, MetaStack

LEMMA MetaGoes ==
  ASSUME NEW ops, GenTypes(ops), MetaInv, stack # << >>, NEW f, Goto(f), ast' = ast,
         OfMeta(ast, Top) => OfMeta(ast, f), LiveMeta(ast, f), CallsMeta(ast, f) => ret' # Null
  PROVE  MetaInv'
<1> DEFINE F == FrameIn(Len(blocks)) \cup {f}
<1>1. /\ Front(stack) \in Seq(FrameIn(Len(blocks))) /\ MetaCalls(ast, Front(stack))
      /\ ForMeta(ast, Front(stack)) => OfMeta(ast, Top)
  BY MetaTop
<1>2. Front(stack) \in Seq(F) /\ f \in F
  BY <1>1, SeqMonotonic
<1> HIDE DEF F
<1>3. stack' = Append(Front(stack), f)
  BY DEF Goto
<1>4. /\ MetaCalls(ast, Append(Front(stack), f)) <=>
           /\ MetaCalls(ast, Front(stack)) /\ LiveMeta(ast, f)
           /\ (ForMeta(ast, Front(stack)) => OfMeta(ast, f))
      /\ ForMeta(ast, Append(Front(stack), f)) <=> CallsMeta(ast, f)
  BY <1>2, MetaAppended
<1> QED BY <1>1, <1>3, <1>4, Zenon DEF MetaInv, MetaStack

LEMMA MetaCallsOn ==
  ASSUME NEW ops, GenTypes(ops), MetaInv, stack # << >>, NEW f, NEW g, Call(f, g), ast' = ast,
         g.pc \in {"stmt", "meta"}, OfMeta(ast, Top) => OfMeta(ast, f), LiveMeta(ast, f),
         CallsMeta(ast, f) => g.pc = "meta"
  PROVE  MetaInv'
<1> DEFINE F == FrameIn(Len(blocks)) \cup {f, g}
           s == Append(Front(stack), f)
<1>1. /\ Front(stack) \in Seq(FrameIn(Len(blocks))) /\ MetaCalls(ast, Front(stack))
      /\ ForMeta(ast, Front(stack)) => OfMeta(ast, Top)
  BY MetaTop
<1>2. Front(stack) \in Seq(F) /\ f \in F /\ g \in F
  BY <1>1, SeqMonotonic
<1> HIDE DEF F
<1>3. s \in Seq(F)
  BY <1>2, AppendedType
<1>4. /\ MetaCalls(ast, s) <=>
           /\ MetaCalls(ast, Front(stack)) /\ LiveMeta(ast, f)
           /\ (ForMeta(ast, Front(stack)) => OfMeta(ast, f))
      /\ ForMeta(ast, s) <=> CallsMeta(ast, f)
  BY <1>2, MetaAppended
<1>5. LiveMeta(ast, g) /\ ~CallsMeta(ast, g) /\ (g.pc = "meta" => OfMeta(ast, g))
  BY DEF LiveMeta, CallsMeta, OfMeta
<1>6. stack' = Append(s, g)
  BY <1>2, TwoAppended DEF Call
<1> HIDE DEF s
<1>7. /\ MetaCalls(ast, Append(s, g)) <=>
           /\ MetaCalls(ast, s) /\ LiveMeta(ast, g) /\ (ForMeta(ast, s) => OfMeta(ast, g))
      /\ ForMeta(ast, Append(s, g)) <=> CallsMeta(ast, g)
  BY <1>2, <1>3, MetaAppended
<1> QED BY <1>1, <1>4, <1>5, <1>6, <1>7, Zenon DEF MetaInv, MetaStack

\* The steps of FunctionCodegen return a block to codegenMeta, where they do: an if
\* whose branches are meta continues
LEMMA MetaThroughStmts ==
  ASSUME NEW ops, Ops \subseteq ops, GenTypes(ops), GenInv, MetaInv, GenerateStmt
  PROVE  MetaInv'
<1>1. ASSUME NEW pc \in {"stmt", "children"}, stack # << >>, Top.pc = pc
      PROVE  ~OfMeta(ast, Top)
  BY <1>1 DEF OfMeta, IfPcs
<1>2. CASE CodegenExpressionStmt \/ CodegenDeclStmt
  <2>1. stack # << >> /\ Top.pc = "stmt" /\ Return(Top.block) /\ ast' = ast
    BY <1>2 DEF CodegenExpressionStmt, CodegenDeclStmt, Stmt, Idle, At
  <2> QED BY <1>1, <2>1, MetaReturns
<1>3. CASE CodegenReturnStmt
  <2>1. stack # << >> /\ Top.pc = "stmt" /\ Return(Null) /\ ast' = ast
    BY <1>3 DEF CodegenReturnStmt, Stmt, Idle, At
  <2> QED BY <1>1, <2>1, MetaReturns
<1>4. CASE LeaveCompound
  <2>1. stack # << >> /\ Top.pc = "children" /\ Return(Top.block) /\ ast' = ast
    BY <1>4 DEF LeaveCompound, Idle, At
  <2> QED BY <1>1, <2>1, MetaReturns
<1>5. CASE EnterCompound
  <2> DEFINE f == [Top EXCEPT !.pc = "children", !.todo = Kids(Top.node)]
  <2>1. stack # << >> /\ Top.pc = "stmt" /\ Goto(f) /\ ast' = ast
    BY <1>5 DEF EnterCompound, Stmt, Idle, At
  <2>2. f.pc = "children"
    BY MetaTop, <2>1 DEF FrameIn
  <2> HIDE DEF f
  <2>3. LiveMeta(ast, f) /\ ~CallsMeta(ast, f)
    BY <2>2 DEF LiveMeta, CallsMeta
  <2> QED BY <1>1, <2>1, <2>3, MetaGoes
<1>6. CASE ChildReturned
  <2> DEFINE f == [Top EXCEPT !.block = ret]
  <2>1. stack # << >> /\ Top.pc = "children" /\ Goto(f) /\ ast' = ast
    BY <1>6 DEF ChildReturned, Returned, At
  <2>2. f.pc = "children"
    BY MetaTop, <2>1 DEF FrameIn
  <2> HIDE DEF f
  <2>3. LiveMeta(ast, f) /\ ~CallsMeta(ast, f)
    BY <2>2 DEF LiveMeta, CallsMeta
  <2> QED BY <1>1, <2>1, <2>3, MetaGoes
<1>7. CASE CodegenChild
  <2>1. stack # << >> /\ Top.pc = "children" /\ ast' = ast /\ ret' = ret
    BY <1>7 DEF CodegenChild, Idle, At
  <2>2. CASE Top.block = Null
    BY <1>7, <2>1, <2>2 DEF CodegenChild, MetaInv
  <2>3. CASE Top.block # Null
    <3> DEFINE f == [Top EXCEPT !.todo = Tail(Top.todo)]
               g == CodegenStmt(Head(Top.todo), Top.block)
    <3>1. Call(f, g)
      BY <1>7, <2>3 DEF CodegenChild
    <3>2. f.pc = "children" /\ g.pc = "stmt"
      BY MetaTop, <2>1 DEF FrameIn, CodegenStmt, CallOf
    <3> HIDE DEF f, g
    <3>3. LiveMeta(ast, f) /\ ~CallsMeta(ast, f)
      BY <3>2 DEF LiveMeta, CallsMeta
    <3> QED BY <1>1, <2>1, <3>1, <3>2, <3>3, MetaCallsOn
  <2> QED BY <2>2, <2>3
<1>8. CASE EnterIf
  <2> DEFINE t == Len(blocks) + 1
             f == [Top EXCEPT !.pc = "true", !.trueBlock = t]
             g == Supplier(Kid(Top.node, 2), t)
  <2>1. /\ stack # << >> /\ Top.pc = "stmt" /\ Kind(Top.node) = "if" /\ ast' = ast
        /\ Call(f, g)
    BY <1>8 DEF EnterIf, EnterIfStructure, Stmt, Idle, At
  <2>2. f.pc = "true" /\ f.node = Top.node /\ g.pc \in {"stmt", "meta"}
    BY MetaTop, <2>1 DEF FrameIn, Supplier, CallOf
  <2> HIDE DEF f, g
  <2>3. LiveMeta(ast, f) /\ ~CallsMeta(ast, f)
    BY <2>1, <2>2 DEF LiveMeta, CallsMeta, Kind
  <2> QED BY <1>1, <2>1, <2>2, <2>3, MetaCallsOn
<1>9. ASSUME NEW cont, NEW f, stack # << >>, Top.pc \in {"true", "false"},
             f.pc \in {"false", "condition"}, f.node = Top.node, f.cont = cont,
             ret # Null => cont # Null
      PROVE  /\ OfMeta(ast, Top) => OfMeta(ast, f)
             /\ LiveMeta(ast, f)
             /\ CallsMeta(ast, f) => f.pc = "false" /\ Kind(Top.node) = "metaIf"
  <2>1. CallsMeta(ast, Top) => ret # Null
    BY <1>9, MetaTop
  <2> QED BY <1>9, <2>1 DEF OfMeta, LiveMeta, CallsMeta, IfPcs, Kind
<1>10. CASE TrueBranchReturned
  <2>1. /\ stack # << >> /\ Top.pc = "true" /\ ast' = ast /\ ret' = Pending
        /\ Returned("true") /\ Top \in FrameIn(Len(blocks)) /\ ast \in Asts
    BY <1>10, MetaTop DEF TrueBranchReturned, Returned, At, GenTypes
  <2> DEFINE linked == ContinueBlocks(Top.cont)
             cont == Continue(Top.cont)
  <2>2. ret # Null => cont # Null
    <3>1. LazyBlock(blocks, Top.cont) # Null
      <4>1. Len(blocks) \in Nat
        BY DEF GenTypes
      <4>2. \A m \in Nat : m + 1 # 0
        OBVIOUS
      <4> QED BY <4>1, <4>2 DEF LazyBlock, Null
    <3> QED BY <3>1 DEF Continue
  <2>3. LazyBlock(linked, cont) # Null
    <3>1. Len(linked) \in Nat
      BY <2>1, BranchEnded
    <3>2. \A m \in Nat : m + 1 # 0
      OBVIOUS
    <3> HIDE DEF linked, cont
    <3> QED BY <3>1, <3>2 DEF LazyBlock, Null
  <2> HIDE DEF linked, cont
  <2>4. CASE Len(Kids(Top.node)) = 3
    <3> DEFINE e == Len(linked) + 1
               f == [Top EXCEPT !.pc = "false", !.cont = cont, !.falseBlock = e]
               g == Supplier(Kid(Top.node, 3), e)
    <3>1. Call(f, g)
      BY <1>10, <2>4 DEF TrueBranchReturned, linked, cont
    <3>2. f.pc = "false" /\ f.node = Top.node /\ f.cont = cont
      BY <2>1 DEF FrameIn
    <3>3. /\ g.pc \in {"stmt", "meta"}
          /\ Kind(Top.node) = "metaIf" => g.pc = "meta"
      <4>1. Top.node \in Nodes /\ 3 \in 2 .. Len(Kids(Top.node))
        BY <2>1, <2>4 DEF FrameIn
      <4>2. Kind(Top.node) = "metaIf" => Kind(Kid(Top.node, 3)) = "contribution"
        BY <2>1, <4>1, Trees
      <4> QED BY <4>2 DEF Supplier, CallOf
    <3> HIDE DEF f, g
    <3>4. /\ OfMeta(ast, Top) => OfMeta(ast, f)
          /\ LiveMeta(ast, f)
          /\ CallsMeta(ast, f) => g.pc = "meta"
      BY <1>9, <2>1, <2>2, <3>2, <3>3
    <3> QED BY <2>1, <3>1, <3>3, <3>4, MetaCallsOn
  <2>5. CASE Len(Kids(Top.node)) # 3
    <3> DEFINE c == LazyBlock(linked, cont)
               f == [Top EXCEPT !.pc = "condition", !.cont = c, !.falseBlock = c]
    <3>1. Goto(f)
      BY <1>10, <2>5 DEF TrueBranchReturned, linked, cont
    <3>2. f.pc = "condition" /\ f.node = Top.node /\ f.cont = c
      BY <2>1 DEF FrameIn
    <3> HIDE DEF f, c
    <3>3. OfMeta(ast, Top) => OfMeta(ast, f)
      BY <2>1, <3>2 DEF OfMeta, IfPcs
    <3>4. LiveMeta(ast, f) /\ ~CallsMeta(ast, f)
      BY <2>3, <3>2 DEF LiveMeta, CallsMeta, c
    <3> QED BY <2>1, <3>1, <3>3, <3>4, MetaGoes
  <2> QED BY <2>4, <2>5
<1>11. CASE FalseBranchReturned
  <2> DEFINE cont == Continue(Top.cont)
             f == [Top EXCEPT !.pc = "condition", !.cont = cont]
  <2>1. /\ stack # << >> /\ Top.pc = "false" /\ ast' = ast /\ Goto(f)
        /\ Top \in FrameIn(Len(blocks))
    BY <1>11, MetaTop DEF FalseBranchReturned, Returned, At
  <2>2. ret # Null => cont # Null
    <3>1. LazyBlock(blocks, Top.cont) # Null
      <4>1. Len(blocks) \in Nat
        BY DEF GenTypes
      <4>2. \A m \in Nat : m + 1 # 0
        OBVIOUS
      <4> QED BY <4>1, <4>2 DEF LazyBlock, Null
    <3> QED BY <3>1 DEF Continue
  <2>3. f.pc = "condition" /\ f.node = Top.node /\ f.cont = cont
    BY <2>1 DEF FrameIn
  <2> HIDE DEF f, cont
  <2>4. (OfMeta(ast, Top) => OfMeta(ast, f)) /\ LiveMeta(ast, f) /\ ~CallsMeta(ast, f)
    BY <1>9, <2>1, <2>2, <2>3
  <2> QED BY <2>1, <2>4, MetaGoes
<1>12. CASE CodegenCondition
  <2>1. stack # << >> /\ Top.pc = "condition" /\ Return(Top.cont) /\ ast' = ast
    BY <1>12 DEF CodegenCondition, Idle, At
  <2>2. LiveMeta(ast, Top)
    BY <2>1, MetaTop
  <2>3. OfMeta(ast, Top) => Top.cont # Null
    BY <2>1, <2>2 DEF OfMeta, LiveMeta
  <2> QED BY <2>1, <2>3, MetaReturns
<1> QED
  BY <1>2, <1>3, <1>4, <1>5, <1>6, <1>7, <1>8, <1>10, <1>11, <1>12 DEF GenerateStmt

(***************************************************************************)
(* The code that calls the callbacks.                                      *)
(***************************************************************************)
LEMMA CallbackCode ==
  ASSUME NEW c \in Seq(PlainCode(AllOps)), NEW n
  PROVE  c \in Seq(CodeIn(AllOps, n)) /\ Straight(c)
<1>1. PlainCode(AllOps) \subseteq CodeIn(AllOps, n)
  BY DEF PlainCode, CodeIn, Terminators
<1> QED BY <1>1, SeqMonotonic, PlainStraight

\* The callbacks are instructions of a meta function
LEMMA CallbackType ==
  ASSUME NEW op \in {"contribute", "reduce"} \cup Introducing, NEW n \in Nodes
  PROVE  Do(op, n) \in PlainCode(AllOps)
BY DEF Do, Instruction, PlainCode, AllOps, Introducing, Terminators

LEMMA IntroducingType ==
  ASSUME NEW ds \in Seq(Nodes), NEW level
  PROVE  [k \in 1 .. Len(ds) |-> Introduce(level, ds[k])] \in Seq(PlainCode(AllOps))
<1>1. \A d \in Nodes : Introduce(level, d) \in PlainCode(AllOps)
  BY CallbackType DEF Introduce, Introducing
<1>2. Len(ds) \in Nat /\ \A k \in 1 .. Len(ds) : ds[k] \in Nodes
  BY ElementOfSeq
<1> DEFINE s == [k \in 1 .. Len(ds) |-> Introduce(level, ds[k])]
<1>3. \A k \in 1 .. Len(ds) : s[k] \in PlainCode(AllOps)
  BY <1>1, <1>2
<1> QED BY <1>2, <1>3, IsASeq

LEMMA ExportedType ==
  ASSUME ast \in Asts, NEW n \in Nodes, Kind(n) = "metaCalculation"
  PROVE  Kid(n, 1) \in Nodes /\ Exported(n) \in Seq(Nodes)
<1>1. Kid(n, 1) \in Nodes
  <2>1. Len(Kids(n)) = 1
    BY Trees
  <2>2. 1 \in 1 .. Len(Kids(n))
    BY <2>1
  <2> QED BY <2>2, KidNode
<1> DEFINE children == Kids(Kid(n, 1))
           s == [k \in 1 .. Len(children) |->
                   IF Kind(children[k]) = "decl" THEN <<children[k]>> ELSE << >>]
<1>2. children \in Seq(Nodes)
  BY <1>1, Trees
<1>3. Exported(n) = FlattenSeq(s)
  BY DEF Exported
<1> HIDE DEF children
<1>4. Len(children) \in Nat /\ \A k \in 1 .. Len(children) : s[k] \in Seq(Nodes)
  <2>1. \A k \in 1 .. Len(children) : children[k] \in Nodes
    BY <1>2, ElementOfSeq
  <2> QED BY <1>2, <2>1
<1>5. s \in Seq(Seq(Nodes))
  BY <1>4, IsASeq
<1> HIDE DEF s
<1> QED BY <1>1, <1>3, <1>5, FlattenedType

(***************************************************************************)
(* The steps of MetaCodegen.                                               *)
(***************************************************************************)
MetaKept ==
  GenTypes(AllOps)' /\ GenInv' /\ MetaInv'

\* The children of a contribution are entered
LEMMA MetaEnters ==
  ASSUME GenTypes(AllOps), GenInv, MetaInv, Idle("meta"), Inserted(AllOps),
         Goto([Top EXCEPT !.pc = "metaChildren", !.todo = Kids(Top.node)]),
         UNCHANGED <<ast, values, ret>>, status' \notin {"running", "returned"}
  PROVE  MetaKept
<1> DEFINE f == [Top EXCEPT !.pc = "metaChildren", !.todo = Kids(Top.node)]
<1>1. /\ stack # << >> /\ ret = Pending /\ Top \in FrameIn(Len(blocks)) /\ Top.block # Null
  BY AtStmt
<1>2. GenTypes(AllOps)' /\ GenInv'
  <2>1. values' \in Seq(SUBSET Nodes)
    BY DEF GenTypes
  <2> QED BY <2>1, EnterChildren
<1>3. f.pc = "metaChildren" /\ f.block = Top.block
  BY <1>1 DEF FrameIn
<1>4. Goto(f) /\ ret' # Null
  BY <1>1 DEF Pending, Null
<1> HIDE DEF f
<1>5. OfMeta(ast, f) /\ LiveMeta(ast, f)
  BY <1>1, <1>3 DEF OfMeta, LiveMeta
<1>6. MetaInv'
  BY <1>1, <1>4, <1>5, MetaGoes
<1> QED BY <1>2, <1>6 DEF MetaKept

\* The actions of MetaCodegen, one by one
LEMMA EnterContributionKeeps ==
  ASSUME GenTypes(AllOps), GenInv, MetaInv, EnterContribution
  PROVE  MetaKept
<1>1. /\ Idle("meta") /\ Goto([Top EXCEPT !.pc = "metaChildren", !.todo = Kids(Top.node)])
      /\ UNCHANGED <<ast, blocks, builder, values, ret, status>>
  BY DEF EnterContribution, Meta
<1>2. Inserted(AllOps)
  BY <1>1, NothingInserted
<1>3. status' \notin {"running", "returned"}
  BY <1>1, AtStmt
<1> QED BY <1>1, <1>2, <1>3, MetaEnters

LEMMA ContributeKeeps ==
  ASSUME GenTypes(AllOps), GenInv, MetaInv, Contribute
  PROVE  MetaKept
<1> DEFINE c == <<ContributeNode(Top.node)>>
<1>1. /\ Idle("meta") /\ Goto([Top EXCEPT !.pc = "metaChildren", !.todo = Kids(Top.node)])
      /\ blocks' = Emit(blocks, builder, c) /\ UNCHANGED <<ast, builder, values, ret>>
  BY DEF Contribute, Meta
<1>2. /\ status = "generating" /\ Top \in FrameIn(Len(blocks))
      /\ BlocksOk(blocks, {builder} \cup OwnedBy(Front(stack)), AwaitedBy(Front(stack)))
  BY <1>1, AtStmt
<1>3. status' \notin {"running", "returned"}
  BY <1>2 DEF Contribute
<1>4. c \in Seq(PlainCode(AllOps))
  <2>1. Top.node \in Nodes
    BY <1>2 DEF FrameIn
  <2>2. ContributeNode(Top.node) \in PlainCode(AllOps)
    BY <2>1, CallbackType DEF ContributeNode
  <2> QED BY <2>2
<1> HIDE DEF c
<1>5. c \in Seq(CodeIn(AllOps, Len(blocks))) /\ Straight(c)
  BY <1>4, CallbackCode
<1>6. Inserted(AllOps)
  BY <1>1, <1>2, <1>5, EmitInserts
<1> QED BY <1>1, <1>3, <1>6, MetaEnters

LEMMA CodegenMetaChildKeeps ==
  ASSUME GenTypes(AllOps), GenInv, MetaInv, CodegenMetaChild
  PROVE  MetaKept
<1>1. /\ Idle("metaChildren") /\ Top.todo # << >> /\ stack # << >> /\ Top.pc = "metaChildren"
      /\ UNCHANGED <<ast, blocks, builder, values, ret>>
  BY DEF CodegenMetaChild, Idle, At
<1>2. Top.block # Null
  BY <1>1, MetaTop DEF LiveMeta
<1> DEFINE f == [Top EXCEPT !.todo = Tail(Top.todo)]
           g == CallOf("meta", Head(Top.todo), Top.block)
<1>3. Call(f, g) /\ status' = status
  BY <1>2 DEF CodegenMetaChild, CodegenMeta
<1>4. GenTypes(AllOps)' /\ GenInv'
  BY <1>1, <1>2, <1>3, ChildCalled
<1>5. f.pc = "metaChildren" /\ f.block = Top.block /\ g.pc = "meta"
  BY <1>1, MetaTop DEF FrameIn, CallOf
<1> HIDE DEF f, g
<1>6. OfMeta(ast, f) /\ LiveMeta(ast, f)
  BY <1>2, <1>5 DEF OfMeta, LiveMeta
<1>7. MetaInv'
  BY <1>1, <1>3, <1>5, <1>6, MetaCallsOn
<1> QED BY <1>4, <1>7 DEF MetaKept

LEMMA MetaChildReturnedKeeps ==
  ASSUME GenTypes(AllOps), GenInv, MetaInv, MetaChildReturned
  PROVE  MetaKept
<1> DEFINE f == [Top EXCEPT !.block = ret]
<1>1. /\ Returned("metaChildren") /\ stack # << >> /\ Top.pc = "metaChildren"
      /\ Goto(f) /\ ret' = Pending /\ UNCHANGED <<ast, blocks, builder, values, status>>
  BY DEF MetaChildReturned, Returned, At
<1>2. GenTypes(AllOps)' /\ GenInv'
  BY <1>1, ChildEnded
<1>3. ret # Null
  BY <1>1, MetaTop DEF CallsMeta
<1>4. f.pc = "metaChildren" /\ f.block = ret
  BY <1>1, MetaTop DEF FrameIn
<1> HIDE DEF f
<1>5. OfMeta(ast, f) /\ LiveMeta(ast, f) /\ ret' # Null
  BY <1>1, <1>3, <1>4 DEF OfMeta, LiveMeta, Pending, Null
<1>6. MetaInv'
  BY <1>1, <1>5, MetaGoes
<1> QED BY <1>2, <1>6 DEF MetaKept

LEMMA LeaveContributionKeeps ==
  ASSUME GenTypes(AllOps), GenInv, MetaInv, LeaveContribution
  PROVE  MetaKept
<1>1. /\ Idle("metaChildren") /\ stack # << >> /\ Top.pc = "metaChildren" /\ ret = Pending
      /\ Return(Top.block) /\ UNCHANGED <<ast, builder, values, status>>
  BY DEF LeaveContribution, Idle, At
<1>2. Top.block # Null /\ Top \in FrameIn(Len(blocks))
  BY <1>1, MetaTop DEF LiveMeta
<1>3. BlocksOk(blocks, {builder} \cup OwnedBy(Front(stack)), AwaitedBy(Front(stack)))
  BY <1>1, <1>2, AtPosition
<1>4. Inserted(AllOps) \/ UNCHANGED <<blocks, builder>>
  <2>1. CASE Kind(Top.node) = "contribution"
    BY <1>1, <2>1 DEF LeaveContribution
  <2>2. CASE Kind(Top.node) # "contribution"
    <3> DEFINE c == ReduceNode(Top.node)
    <3>1. blocks' = Emit(blocks, builder, c)
      BY <2>2 DEF LeaveContribution
    <3>2. c \in Seq(PlainCode(AllOps))
      <4>1. Top.node \in Nodes
        BY <1>2 DEF FrameIn
      <4>2. Do("reduce", Top.node) \in PlainCode(AllOps)
        BY <4>1, CallbackType
      <4> QED BY <4>2 DEF ReduceNode
    <3> HIDE DEF c
    <3>3. c \in Seq(CodeIn(AllOps, Len(blocks))) /\ Straight(c)
      BY <3>2, CallbackCode
    <3> QED BY <1>1, <1>3, <3>1, <3>3, EmitInserts
  <2> QED BY <2>1, <2>2
<1>5. values' \in Seq(SUBSET Nodes)
  BY <1>1 DEF GenTypes
<1>6. GenTypes(AllOps)' /\ GenInv'
  BY <1>1, <1>2, <1>4, <1>5, ChildrenEnded
<1>7. MetaInv'
  BY <1>1, <1>2, MetaReturns
<1> QED BY <1>6, <1>7 DEF MetaKept

LEMMA EnterMetaIfKeeps ==
  ASSUME GenTypes(AllOps), GenInv, MetaInv, EnterMetaIf
  PROVE  MetaKept
<1> DEFINE t == Len(blocks) + 1
           f == [Top EXCEPT !.pc = "true", !.trueBlock = t]
           g == Supplier(Kid(Top.node, 2), t)
<1>1. /\ Idle("meta") /\ Kind(Top.node) = "metaIf" /\ EnterIfStructure
      /\ stack # << >> /\ Top.pc = "meta" /\ Call(f, g) /\ ast' = ast
  BY DEF EnterMetaIf, Meta, EnterIfStructure, Idle, At
<1>2. GenTypes(AllOps)' /\ GenInv'
  BY <1>1, EnterIfKeeps
<1>3. Top \in FrameIn(Len(blocks)) /\ ast \in Asts
  BY <1>1, MetaTop DEF GenTypes
<1>4. f.pc = "true" /\ f.node = Top.node
  BY <1>3 DEF FrameIn
<1>5. g.pc = "meta"
  <2>1. Top.node \in Nodes
    BY <1>3 DEF FrameIn
  <2>2. Len(Kids(Top.node)) \in 2 .. 3
    BY <1>1, <1>3, <2>1, Trees
  <2>3. 2 \in 2 .. Len(Kids(Top.node))
    BY <2>2, SMTT(30)
  <2>4. Kind(Kid(Top.node, 2)) = "contribution"
    BY <1>1, <1>3, <2>1, <2>3, Trees
  <2> QED BY <2>4 DEF Supplier, CallOf
<1> HIDE DEF f, g
<1>6. OfMeta(ast, f) /\ LiveMeta(ast, f)
  BY <1>1, <1>4 DEF OfMeta, LiveMeta, IfPcs, Kind
<1>7. MetaInv'
  BY <1>1, <1>5, <1>6, MetaCallsOn
<1> QED BY <1>2, <1>7 DEF MetaKept

LEMMA EnterMetaCalculationKeeps ==
  ASSUME GenTypes(AllOps), GenInv, MetaInv, EnterMetaCalculation
  PROVE  MetaKept
<1> DEFINE n == Len(blocks)
           c == n + 1
           cs == CreateBlock(blocks)
           R == Front(stack)
           A == OwnedBy(R) \cup {c}
           V == AwaitedBy(R) \cup {c}
           f == [Top EXCEPT !.pc = "calculation"]
           g == CodegenStmt(Kid(Top.node, 1), c)
<1>1. /\ Idle("meta") /\ Kind(Top.node) = "metaCalculation" /\ Top.pc = "meta"
      /\ blocks' = CreateBr(cs, builder, c) /\ builder' = c /\ Call(f, g)
      /\ UNCHANGED <<ast, values, ret, status>>
  BY DEF EnterMetaCalculation, Meta, Idle, At
<1>2. /\ stack # << >> /\ ret = Pending /\ status = "generating"
      /\ Top \in FrameIn(n) /\ Top.block # Null
      /\ Top.block = builder /\ builder \notin OwnedBy(R)
      /\ BlocksOk(blocks, {builder} \cup OwnedBy(R), AwaitedBy(R))
  BY <1>1, AtStmt
<1>3. /\ blocks \in Seq(Seq(CodeIn(AllOps, n))) /\ builder \in 1 .. n /\ ast \in Asts
      /\ values \in Seq(SUBSET Nodes) /\ n \in Nat
  BY DEF GenTypes
<1>4. cs \in Seq(Seq(CodeIn(AllOps, Len(cs)))) /\ Len(cs) = c
  BY <1>3, CreatedCode
<1>5. BlocksOk(cs, ({builder} \cup OwnedBy(R)) \cup {c}, V)
  BY <1>2, <1>3, BlocksCreated
<1>6. OwnedBy(R) \subseteq 1 .. n
  BY <1>2 DEF BlocksOk
<1>7. /\ c \in Nat /\ c # Null /\ n <= c /\ c \in 1 .. c /\ c \notin 1 .. n /\ c # builder
      /\ builder \in 1 .. c
  <2>1. \A m \in Nat : m + 1 \in Nat /\ m + 1 # 0 /\ m <= m + 1 /\ m + 1 \in 1 .. m + 1
          /\ m + 1 \notin 1 .. m /\ \A b \in 1 .. m : b # m + 1 /\ b \in 1 .. m + 1
    OBVIOUS
  <2> QED BY <1>3, <2>1 DEF Null
<1>8. FrameIn(n) \subseteq FrameIn(c)
  BY <1>3, <1>7, TypesGrow
<1>9. Top.node \in Nodes /\ Kid(Top.node, 1) \in Nodes
  <2>1. Top.node \in Nodes
    BY <1>2 DEF FrameIn
  <2> QED BY <1>1, <1>3, <2>1, ExportedType
<1>10. ({builder} \cup OwnedBy(R)) \cup {c} = {builder} \cup A /\ builder \notin A
  BY <1>2, <1>7
<1>11. f \in FrameIn(c) /\ f.pc = "calculation" /\ f.node = Top.node
  BY <1>2, <1>8 DEF FrameIn, PCs
<1> HIDE DEF c
<1>12. /\ g \in FrameIn(c) /\ g.pc = "stmt" /\ g.block = c
       /\ g.cont = Null /\ g.falseBlock = Null
  <2>1. << >> \in Seq(Nodes) /\ c \in 0 .. c /\ 0 \in 0 .. c
    BY <1>7, EmptySeq
  <2> QED BY <1>9, <2>1 DEF CodegenStmt, CallOf, FrameIn, PCs, Null
<1> HIDE DEF cs, A, V, n, f, g, R
<1>13. /\ blocks' \in Seq(Seq(CodeIn(AllOps, Len(cs)))) /\ Len(blocks') = Len(cs)
       /\ BlocksOk(blocks', A, V \ {c})
  <2>1. BlocksOk(cs, {builder} \cup A, V)
    BY <1>5, <1>10
  <2>2. builder \in 1 .. Len(cs) /\ c \in 1 .. Len(cs) /\ "br" \in AllOps
    BY <1>4, <1>7 DEF AllOps, Ops, Terminators
  <2> QED BY <1>1, <1>4, <1>10, <2>1, <2>2, BrCloses, ZenonT(60)
<1>14. FrameOk(ast, f) /\ f.pc \in Suspended /\ Owns(f) = {} /\ Awaits(f) = {}
  BY <1>1, <1>11 DEF FrameOk, Suspended, Owns, Awaits, IfPcs, Kind
<1>15. BlocksOk(blocks', {builder'} \cup OwnedBy(R) \cup Owns(f), AwaitedBy(R) \cup Awaits(f))
  <2>1. A = {builder'} \cup OwnedBy(R) \cup Owns(f)
    BY <1>1, <1>14 DEF A
  <2>2. (V \ {c}) \ {Null} \subseteq AwaitedBy(R) \cup Awaits(f)
    BY DEF V
  <2>3. BlocksOk(blocks', A, AwaitedBy(R) \cup Awaits(f))
    BY <1>13, <2>2, BlocksAwaited
  <2> QED BY <2>1, <2>3
<1>16. builder' \notin OwnedBy(R) \cup Owns(f) /\ Owns(f) \cap OwnedBy(R) = {}
  BY <1>1, <1>6, <1>7, <1>14
<1>17. /\ Len(blocks') = c /\ blocks' \in Seq(Seq(CodeIn(AllOps, Len(blocks'))))
       /\ Len(blocks) <= Len(blocks') /\ builder' \in 1 .. Len(blocks')
       /\ f \in FrameIn(Len(blocks')) /\ g \in FrameIn(Len(blocks'))
       /\ ret' = Pending /\ values' \in Seq(SUBSET Nodes) /\ status' \notin {"running", "returned"}
       /\ g.block = builder' /\ g.pc \in {"stmt", "meta"}
  BY <1>1, <1>2, <1>3, <1>4, <1>7, <1>11, <1>12, <1>13 DEF n
<1>18. GenTypes(AllOps)' /\ GenInv'
  BY <1>1, <1>2, <1>12, <1>14, <1>15, <1>16, <1>17, CallKeeps DEF R
<1>19. OfMeta(ast, f) /\ LiveMeta(ast, f) /\ ~CallsMeta(ast, f)
  BY <1>11 DEF OfMeta, LiveMeta, CallsMeta
<1>20. MetaInv'
  BY <1>1, <1>2, <1>17, <1>19, MetaCallsOn
<1> QED BY <1>18, <1>20 DEF MetaKept

LEMMA MetaCalculationReturnedKeeps ==
  ASSUME GenTypes(AllOps), GenInv, MetaInv, MetaCalculationReturned
  PROVE  MetaKept
<1> DEFINE R == Front(stack)
           ds == Exported(Top.node)
           c == [k \in 1 .. Len(ds) |-> Introduce(cursor, ds[k])]
<1>1. /\ stack # << >> /\ ret # Pending /\ Top.pc = "calculation" /\ status = "generating"
      /\ UNCHANGED <<ast, builder, values>>
  BY DEF MetaCalculationReturned, Returned, At, Generating
<1>2. CASE ret = Null
  <2>1. status' = "calculationTerminated" /\ UNCHANGED <<blocks, stack, ret>>
    BY <1>2 DEF MetaCalculationReturned
  <2>2. GenTypes(AllOps)' /\ GenInv'
    BY <1>1, <2>1, FailureKeeps
  <2>3. MetaInv'
    BY <1>1, <2>1 DEF MetaInv
  <2> QED BY <2>2, <2>3 DEF MetaKept
<1>3. CASE ret # Null
  <2>1. /\ blocks' = Emit(blocks, builder, c) /\ Return(ret)
        /\ status' \notin {"running", "returned"}
    BY <1>1, <1>3 DEF MetaCalculationReturned
  <2>2. /\ Len(blocks) \in Nat /\ Top \in FrameIn(Len(blocks))
        /\ Parts(ast, R, Top, ret, builder, blocks)
    BY <1>1, TopFacts
  <2>3. /\ blocks \in Seq(Seq(CodeIn(AllOps, Len(blocks)))) /\ builder \in 1 .. Len(blocks)
        /\ ast \in Asts /\ values \in Seq(SUBSET Nodes) /\ ret \in 0 .. Len(blocks)
    BY <1>1 DEF GenTypes
  <2>4. PassedOn(Top, ret) = {ret} /\ Owns(Top) = {} /\ Awaits(Top) = {}
    BY <1>1, <1>3 DEF PassedOn, Owns, Awaits, IfPcs
  <2>5. ret = builder /\ builder \notin OwnedBy(R)
    BY <2>2, <2>4 DEF Parts
  <2>6. BlocksOk(blocks, {builder} \cup OwnedBy(R) \cup {}, AwaitedBy(R) \cup {})
    BY <2>2, <2>4, <2>5 DEF Parts
  <2>7. BlocksOk(blocks, {builder} \cup OwnedBy(R), AwaitedBy(R))
    <3>1. {builder} \cup OwnedBy(R) \cup {} = {builder} \cup OwnedBy(R) /\ AwaitedBy(R) \cup {} = AwaitedBy(R)
      OBVIOUS
    <3> QED BY <2>6, <3>1
  <2>8. Top.node \in Nodes /\ Kind(Top.node) = "metaCalculation"
    BY <1>1, <2>2 DEF Parts, FrameOk, FrameIn, Kind
  <2>9. ds \in Seq(Nodes)
    BY <2>3, <2>8, ExportedType
  <2> HIDE DEF ds
  <2>10. c \in Seq(PlainCode(AllOps))
    BY <2>9, IntroducingType
  <2> HIDE DEF c
  <2>11. c \in Seq(CodeIn(AllOps, Len(blocks))) /\ Straight(c)
    BY <2>10, CallbackCode
  <2>12. Inserted(AllOps)
    BY <1>1, <2>1, <2>7, <2>11, EmitInserts DEF R
  <2>13. /\ blocks' \in Seq(Seq(CodeIn(AllOps, Len(blocks')))) /\ Len(blocks) <= Len(blocks')
         /\ ret \in 0 .. Len(blocks') /\ builder' \in 1 .. Len(blocks')
         /\ values' \in Seq(SUBSET Nodes)
    BY <1>1, <2>2, <2>3, <2>12 DEF Inserted
  <2>14. BlocksOk(blocks', ({ret} \ {Null}) \cup OwnedBy(R), AwaitedBy(R))
    <3>1. ({ret} \ {Null}) \cup OwnedBy(R) = {builder} \cup OwnedBy(R)
      BY <1>3, <2>5
    <3> QED BY <2>12, <3>1 DEF Inserted, R
  <2>15. ret # Null => ret = builder' /\ ret \notin OwnedBy(R)
    BY <1>1, <2>5
  <2> DEFINE r == ret
  <2>16. /\ Return(r) /\ r \in 0 .. Len(blocks')
         /\ BlocksOk(blocks', ({r} \ {Null}) \cup OwnedBy(R), AwaitedBy(R))
         /\ r # Null => r = builder' /\ r \notin OwnedBy(R)
         /\ r # Null
    BY <1>3, <2>1, <2>13, <2>14, <2>15
  <2> HIDE DEF r
  <2>17. GenTypes(AllOps)' /\ GenInv'
    BY <1>1, <2>1, <2>13, <2>16, ReturnKeeps DEF R
  <2>18. MetaInv'
    BY <1>1, <2>16, MetaReturns
  <2> QED BY <2>17, <2>18 DEF MetaKept
<1> QED BY <1>2, <1>3

\* codegen(MetaDecl) ends its function with a return, since there is a block
LEMMA FinishMetaDeclKeeps ==
  ASSUME GenTypes(AllOps), GenInv, MetaInv, RunInv, FinishMetaDecl
  PROVE  MetaKept /\ RunInv'
<1>1. /\ status = "generating" /\ stack = << >> /\ ret' = Pending /\ status' = "running"
      /\ blocks' = Emit(blocks, builder, <<Do("ret", NoNode)>>)
      /\ UNCHANGED <<ast, builder, values, stack, runVars>>
  BY DEF FinishMetaDecl, Generating
<1>2. ret # Null
  BY <1>1 DEF MetaInv, MetaStack, ForMeta
<1>3. {ret} \ {Null} \subseteq {builder} /\ BlocksOk(blocks, {ret} \ {Null}, {})
  BY <1>1, AtEnd
<1>4. {ret} \ {Null} = {builder}
  BY <1>2, <1>3
<1>5. /\ blocks \in Seq(Seq(CodeIn(AllOps, Len(blocks)))) /\ builder \in 1 .. Len(blocks)
      /\ BlocksOk(blocks, {builder}, {}) /\ Ops \subseteq AllOps
  BY <1>3, <1>4 DEF GenTypes, AllOps
<1>6. /\ blocks' \in Seq(Seq(CodeIn(AllOps, Len(blocks)))) /\ Len(blocks') = Len(blocks)
      /\ BlocksOk(blocks', {}, {})
  BY <1>1, <1>5, RetCloses
<1>7. GenTypes(AllOps)' /\ GenInv' /\ RunInv'
  BY <1>1, <1>6, RunBegins
<1>8. MetaInv'
  <2>1. stack' = << >> /\ ret' # Null
    BY <1>1 DEF Pending, Null
  <2>2. Len(<< >>) = 0 /\ 1 .. 0 = {} /\ 1 .. 0 - 1 = {}
    OBVIOUS
  <2> QED BY <2>1, <2>2 DEF MetaInv, MetaStack, MetaCalls
<1> QED BY <1>7, <1>8 DEF MetaKept

LEMMA MetaDeclBegins == MetaInit => MetaGenInv
<1> SUFFICES ASSUME MetaInit PROVE MetaGenInv
  OBVIOUS
<1> DEFINE c == ArgCode \o [k \in 1 .. Len(Args) |-> Introduce("TopLevel", Args[k])]
<1>1. ast \in Asts /\ blocks = <<c>>
  BY DEF MetaInit
<1>2. Args \in Seq(Nodes) /\ ArgCode \in Seq(PlainCode(Ops)) /\ Last(Kids(1)) \in Nodes
  BY <1>1, ArgumentTypes
<1>3. c \in Seq(CodeIn(AllOps, 1)) /\ Straight(c)
  <2>1. ArgCode \in Seq(PlainCode(AllOps))
    <3>1. PlainCode(Ops) \subseteq PlainCode(AllOps)
      BY DEF PlainCode, AllOps
    <3> QED BY <1>2, <3>1, SeqMonotonic
  <2>2. [k \in 1 .. Len(Args) |-> Introduce("TopLevel", Args[k])] \in Seq(PlainCode(AllOps))
    BY <1>2, IntroducingType
  <2>3. c \in Seq(PlainCode(AllOps))
    BY <2>1, <2>2, ConcatProperties
  <2> HIDE DEF c
  <2> QED BY <2>3, CallbackCode
<1> HIDE DEF c
<1>4. GenTypes(AllOps) /\ GenInv /\ RunInv
  BY <1>1, <1>3, GenerationBegins DEF MetaInit, CodegenMeta
<1>5. MetaInv
  <2> DEFINE f == CallOf("meta", Last(Kids(1)), 1)
  <2>1. stack = <<f>> /\ f.pc = "meta"
    BY DEF MetaInit, CodegenMeta, CallOf
  <2> HIDE DEF f
  <2>2. Len(<<f>>) = 1 /\ <<f>>[1] = f /\ 1 .. 1 = {1} /\ 1 .. 1 - 1 = {}
    OBVIOUS
  <2>3. OfMeta(ast, f) /\ LiveMeta(ast, f)
    BY <2>1 DEF OfMeta, LiveMeta, IfPcs
  <2>4. ret # Null
    BY DEF MetaInit, Pending, Null
  <2> QED BY <2>1, <2>2, <2>3, <2>4 DEF MetaInv, MetaStack, MetaCalls
<1> QED BY <1>4, <1>5 DEF MetaGenInv, MetaInit, AllStatuses, Statuses, Levels

\* The cursor stays within the levels
LEMMA CursorType ==
  ASSUME cursor \in Levels, MetaNext
  PROVE  cursor' \in Levels
BY DEF MetaNext, EnterContribution, Contribute, CodegenMetaChild, MetaChildReturned,
       LeaveContribution, EnterMetaIf, EnterMetaCalculation, MetaCalculationReturned,
       FinishMetaDecl, Descended, Ascended, Levels

\* The steps of codegenMeta, but for the end, do not touch what runs
MetaStep ==
  \/ EnterContribution \/ Contribute \/ CodegenMetaChild \/ MetaChildReturned
  \/ LeaveContribution \/ EnterMetaIf \/ EnterMetaCalculation \/ MetaCalculationReturned

LEMMA MetaStepKeeps ==
  ASSUME GenTypes(AllOps), GenInv, MetaInv, RunInv, MetaStep
  PROVE  MetaKept /\ RunInv' /\ status' \in AllStatuses
<1>1. MetaKept
  BY EnterContributionKeeps, ContributeKeeps, CodegenMetaChildKeeps, MetaChildReturnedKeeps,
     LeaveContributionKeeps, EnterMetaIfKeeps, EnterMetaCalculationKeeps,
     MetaCalculationReturnedKeeps
  DEF MetaStep
<1>2. UNCHANGED runVars /\ status = "generating"
  BY DEF MetaStep, EnterContribution, Contribute, CodegenMetaChild, MetaChildReturned,
         LeaveContribution, EnterMetaIf, EnterIfStructure, EnterMetaCalculation,
         MetaCalculationReturned, Meta, Idle, Returned, At, Generating
<1>3. status' \in {"generating", "nullBlock", "localMissing", "intermediateContributed",
                   "unbalanced", "calculationTerminated"}
  BY <1>2
  DEF MetaStep, EnterContribution, Contribute, CodegenMetaChild, MetaChildReturned,
      LeaveContribution, EnterMetaIf, EnterIfStructure, EnterMetaCalculation,
      MetaCalculationReturned
<1>4. RunInv'
  BY <1>2, <1>3 DEF RunInv, runVars
<1> QED BY <1>1, <1>3, <1>4 DEF AllStatuses, Statuses

LEMMA MetaDeclSteps == MetaGenInv /\ [MetaNext]_metaVars => MetaGenInv'
<1> SUFFICES ASSUME MetaGenInv, [MetaNext]_metaVars PROVE MetaGenInv'
  OBVIOUS
<1>0. /\ GenTypes(AllOps) /\ RunInv /\ status \in AllStatuses /\ cursor \in Levels
      /\ GenInv /\ MetaInv /\ Ops \subseteq AllOps
  BY DEF MetaGenInv, AllOps
<1>1. cursor' \in Levels
  BY <1>0, CursorType DEF metaVars
<1>2. CASE MetaStep
  BY <1>0, <1>1, <1>2, MetaStepKeeps DEF MetaGenInv, MetaKept
<1>3. CASE FinishMetaDecl
  <2>1. status' \in AllStatuses
    BY <1>3 DEF FinishMetaDecl, AllStatuses, Statuses
  <2> QED BY <1>0, <1>1, <1>3, <2>1, FinishMetaDeclKeeps DEF MetaGenInv, MetaKept
<1>4. CASE GenerateStmt
  <2>1. GenTypes(AllOps)' /\ GenInv'
    BY <1>0, <1>4, GenerateStmtKeeps
  <2>2. RunInv' /\ status' \in AllStatuses
    BY <1>0, <1>4, GenerateStmtRuns DEF AllStatuses, Statuses
  <2>3. MetaInv'
    BY <1>0, <1>4, MetaThroughStmts
  <2> QED BY <1>1, <2>1, <2>2, <2>3 DEF MetaGenInv
<1>5. CASE RunFunction
  <2>1. GenTypes(AllOps)' /\ GenInv' /\ RunInv' /\ status' \in AllStatuses
    BY <1>0, <1>5, RunFunctionKeeps DEF AllStatuses, Statuses
  <2>2. MetaInv'
    <3>1. UNCHANGED genVars
      BY <1>5 DEF RunFunction, Run, Branch, ReturnFromFunction
    <3> QED BY <1>0, <3>1 DEF MetaInv, genVars
  <2> QED BY <1>1, <2>1, <2>2 DEF MetaGenInv
<1>6. CASE UNCHANGED vars
  <2>1. UNCHANGED genVars /\ UNCHANGED runVars /\ status' = status
    BY <1>6 DEF vars
  <2>2. GenTypes(AllOps)' /\ GenInv'
    BY <1>0, <2>1, RunKeepsGenerated
  <2>3. RunInv' /\ MetaInv'
    BY <1>0, <2>1 DEF RunInv, MetaInv, genVars, runVars
  <2> QED BY <1>0, <1>1, <2>1, <2>2, <2>3 DEF MetaGenInv
<1> QED BY <1>2, <1>3, <1>4, <1>5, <1>6 DEF MetaNext, MetaStep, Ended, metaVars

\* The same while a meta function is generated by MetaCodegen and FunctionCodegen in
\* turns, and what codegenMeta returns is never the null block
THEOREM MetaInvariant == MetaSpec => []MetaGenInv
<1>1. MetaInit => MetaGenInv
  BY MetaDeclBegins
<1>2. MetaGenInv /\ [MetaNext]_metaVars => MetaGenInv'
  BY MetaDeclSteps
<1> QED BY <1>1, <1>2, PTL DEF MetaSpec

\* Every variable of MetaCodegen has its type: no branch leads out of the function,
\* whether FunctionCodegen or MetaCodegen has created its block
THEOREM GeneratedMetaTypes == MetaSpec => []MetaTypeOK
<1>1. MetaGenInv => MetaTypeOK
  <2> SUFFICES ASSUME MetaGenInv PROVE MetaTypeOK
    OBVIOUS
  <2>1. /\ GenTypes(AllOps) /\ RunInv /\ status \in AllStatuses /\ cursor \in Levels
        /\ Ops \subseteq AllOps
    BY DEF MetaGenInv, AllOps
  <2>2. WellTyped(AllOps, AllStatuses)
    BY <2>1, TypesHold
  <2> QED BY <2>1, <2>2 DEF MetaTypeOK, AllOps, AllStatuses
<1> QED BY <1>1, MetaInvariant, PTL

\* Wherever one generator hands over to the other, the block that is passed on is the
\* position of the builder, and the two end each block once: the end of a meta if is
\* never lost, since what codegenMeta returns is always a block
THEOREM GeneratorsHandOver == MetaSpec => []GeneratorsAgree
<1>1. MetaGenInv => GeneratorsAgree
  <2> SUFFICES ASSUME MetaGenInv PROVE GeneratorsAgree
    OBVIOUS
  <2>1. GenTypes(AllOps) /\ GenInv
    BY DEF MetaGenInv
  <2>2. OneTerminator /\ (Idle("meta") \/ Idle("stmt") => builder = Top.block)
    BY <2>1, EachEndsOnce, PositionsAgree
  <2> QED BY <2>2 DEF GeneratorsAgree
<1> QED BY <1>1, MetaInvariant, PTL
=============================================================================
