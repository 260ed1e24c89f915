--------------------------- MODULE FunctionCodegen ---------------------------
(***************************************************************************)
(* FunctionCodegen translates the statements of a function into basic      *)
(* blocks, recursively; every call is given the block to continue in and   *)
(* returns the block where the statement has ended, or null when it never  *)
(* does.  Beside the blocks that are passed on there is a second position: *)
(* the insertion point of the IR builder.  The function then runs.         *)
(***************************************************************************)
EXTENDS AST, Integers
INSTANCE SequencesExt

VARIABLES
  ast,       \* the tree, see AstType
  blocks,    \* the code of each basic block, the entry first
  builder,   \* builder_: the block instructions are appended to
  values,    \* values_: the decls each scope of the hash table knows
  stack,     \* the active calls, the innermost last
  ret,       \* the block returned by the call that has just ended
  at,        \* the instruction that runs next
  outcomes,  \* the value of each condition tested so far
  trace,     \* what has run
  status     \* "generating", "running", "returned", or the check that failed

genVars == <<ast, blocks, builder, values, stack, ret>>
runVars == <<at, outcomes, trace>>
vars == <<genVars, runVars, status>>

Kind(n)   == ast.kind[n]
Kids(n)   == ast.kids[n]
Kid(n, k) == ast.kids[n][k]

Null    == 0    \* no block
Pending == -1   \* no call has ended

Terminators == {"br", "condbr", "ret"}
Instruction(op, node, to) == [op |-> op, node |-> node, to |-> to]
Do(op, node) == Instruction(op, node, << >>)

(***************************************************************************)
(* Expressions.  A reference to a variable evaluates to its address, which *)
(* is loaded where a value is needed; a condition is not loaded.  The      *)
(* operands of a binary operator are loaded when both are evaluated, and   *)
(* an assignment evaluates to what its right side evaluates to.            *)
(***************************************************************************)
Address[e \in Nodes] ==
  IF Kind(e) = "assign" THEN Address[Kid(e, 2)]
  ELSE IF Kind(e) = "ref" THEN ast.decl[e]
  ELSE NoNode
IsMemory(e) == Address[e] # NoNode
LoadMemory(e) == IF IsMemory(e) THEN <<Do("load", Address[e])>> ELSE << >>

ArgumentsCode(codes, e) ==
  FlattenSeq([k \in 1 .. Len(Kids(e)) |-> codes[k] \o LoadMemory(Kid(e, k))])
\* Mutant: the left operand is loaded before the right one is evaluated
LoadLeftFirst(codes, e) ==
  codes[1] \o LoadMemory(Kid(e, 1)) \o codes[2] \o LoadMemory(Kid(e, 2))

OperandsCode(codes, e) ==
  codes[1] \o codes[2] \o LoadMemory(Kid(e, 1)) \o LoadMemory(Kid(e, 2))
AssignCode(codes, e) ==
  codes[1] \o codes[2] \o LoadMemory(Kid(e, 2)) \o <<Do("store", Address[Kid(e, 1)])>>

\* The code of an expression, given the codes of its operands
CodeOf(codes, e) ==
  CASE Kind(e) = "call"   -> ArgumentsCode(codes, e) \o <<Do("call", e)>>
    [] Kind(e) = "binary" -> OperandsCode(codes, e) \o <<Do("compute", e)>>
    [] Kind(e) = "assign" -> AssignCode(codes, e)
    [] OTHER              -> << >>

ExprCode[e \in Nodes] == CodeOf([k \in 1 .. Len(Kids(e)) |-> ExprCode[Kid(e, k)]], e)

ValueCode(e) == ExprCode[e] \o LoadMemory(e)

\* The locals an expression looks up
Lookups[e \in Nodes] ==
  IF Kind(e) = "ref" THEN {ast.decl[e]} \ {NoNode}
  ELSE UNION {Lookups[Kid(e, k)] : k \in 1 .. Len(Kids(e))}

Known == UNION {values[k] : k \in 1 .. Len(values)}

\* lookupLocal: "The value of the decl should be present!"
CheckLookups(e) == status' = IF Lookups[e] \subseteq Known THEN status ELSE "localMissing"

(***************************************************************************)
(* Calls.                                                                  *)
(***************************************************************************)
PCs == {"stmt", "children", "true", "false", "condition",
        "meta", "metaChildren", "calculation"}   \* those of MetaCodegen
CallOf(pc, n, b) ==
  [pc |-> pc, node |-> n, block |-> b, todo |-> << >>,
   trueBlock |-> Null, falseBlock |-> Null, cont |-> Null]
CodegenStmt(n, b) == CallOf("stmt", n, b)

Top == stack[Len(stack)]
Generating == status = "generating"
At(pc)   == Generating /\ stack # << >> /\ Top.pc = pc
Idle(pc) == At(pc) /\ ret = Pending
Returned(pc) == At(pc) /\ ret # Pending
Stmt(kind) == Idle("stmt") /\ Kind(Top.node) = kind

Goto(frame)       == stack' = Append(Front(stack), frame)
Call(frame, next) == stack' = Front(stack) \o <<frame, next>>
Return(b)         == stack' = Front(stack) /\ ret' = b

\* Blocks
CreateBlock(bs) == Append(bs, << >>)
Emit(bs, b, code) == [bs EXCEPT ![b] = @ \o code]
CreateBr(bs, from, to) == Emit(bs, from, <<Instruction("br", NoNode, <<to>>)>>)

\* setUpStackFrame: each argument gets a place in memory
Args == Kids(Kid(1, 1))
ArgCode == [k \in 1 .. Len(Args) |-> Do("store", Args[k])]

Init ==
  /\ ast \in Asts
  /\ blocks = <<ArgCode>> /\ builder = 1
  /\ values = <<{Args[k] : k \in 1 .. Len(Args)}>>
  /\ stack = <<CodegenStmt(Last(Kids(1)), 1)>> /\ ret = Pending
  /\ at = <<1, 1>> /\ outcomes = << >> /\ trace = << >>
  /\ status = "generating"

(***************************************************************************)
(* Statements without statements in them.                                  *)
(***************************************************************************)
CodegenExpressionStmt ==
  /\ Stmt("expr")
  /\ LET e == Kid(Top.node, 1) IN
     /\ CheckLookups(e)
     /\ blocks' = Emit(blocks, builder, ExprCode[e])
  /\ Return(Top.block)
  /\ UNCHANGED <<ast, builder, values, runVars>>

CodegenDeclStmt ==
  /\ Stmt("decl")
  /\ LET e == Kid(Top.node, 1) IN
     /\ CheckLookups(e)
     /\ blocks' = Emit(blocks, builder, ValueCode(e) \o <<Do("store", Top.node)>>)
  /\ values' = [values EXCEPT ![Len(values)] = @ \cup {Top.node}]
  /\ Return(Top.block)
  /\ UNCHANGED <<ast, builder, runVars>>

CodegenReturnStmt ==
  /\ Stmt("return")
  /\ IF Kids(Top.node) = << >>
     THEN /\ blocks' = Emit(blocks, builder, <<Do("ret", Top.node)>>)
          /\ UNCHANGED status
     ELSE LET e == Kid(Top.node, 1) IN
          /\ CheckLookups(e)
          /\ blocks' = Emit(blocks, builder, ValueCode(e) \o <<Do("ret", Top.node)>>)
  /\ Return(Null)
  /\ UNCHANGED <<ast, builder, values, runVars>>

(***************************************************************************)
(* Compounds.  The block the last child has ended in is kept in the frame. *)
(***************************************************************************)
EnterCompound ==
  /\ Stmt("compound") \/ Stmt("unscoped")
  /\ values' = IF Kind(Top.node) = "compound" THEN Append(values, {}) ELSE values
  /\ Goto([Top EXCEPT !.pc = "children", !.todo = Kids(Top.node)])
  /\ UNCHANGED <<ast, blocks, builder, ret, runVars, status>>

\* The null block is dereferenced when a child follows one that has terminated
CodegenChild ==
  /\ Idle("children") /\ Top.todo # << >>
  /\ IF Top.block = Null
     THEN status' = "nullBlock" /\ UNCHANGED stack
     ELSE /\ Call([Top EXCEPT !.todo = Tail(@)], CodegenStmt(Head(Top.todo), Top.block))
          /\ UNCHANGED status
  /\ UNCHANGED <<ast, blocks, builder, values, ret, runVars>>

ChildReturned ==
  /\ Returned("children")
  /\ Goto([Top EXCEPT !.block = ret])
  /\ ret' = Pending
  /\ UNCHANGED <<ast, blocks, builder, values, runVars, status>>

LeaveCompound ==
  /\ Idle("children") /\ Top.todo = << >>
  /\ values' = IF Kind(Top.node) = "compound" THEN Front(values) ELSE values
  /\ Return(Top.block)
  /\ UNCHANGED <<ast, blocks, builder, runVars, status>>

(***************************************************************************)
(* codegenIfStructure.  The supplier of a branch is codegenStmt, or the    *)
(* codegenMeta of MetaCodegen for a meta if.                               *)
(***************************************************************************)
Supplier(n, b) == CallOf(IF Kind(n) = "contribution" THEN "meta" ELSE "stmt", n, b)

\* Mutant: the continue block is created at once
EnterIfEagerly ==
  LET trueBlock == Len(blocks) + 1 IN
  /\ blocks' = CreateBlock(CreateBlock(blocks))
  /\ builder' = trueBlock
  /\ Call([Top EXCEPT !.pc = "true", !.trueBlock = trueBlock, !.cont = trueBlock + 1],
          Supplier(Kid(Top.node, 2), trueBlock))
  /\ UNCHANGED <<ast, values, ret, runVars, status>>

EnterIfStructure ==
  LET trueBlock == Len(blocks) + 1 IN
  /\ blocks' = CreateBlock(blocks)
  /\ builder' = trueBlock
  /\ Call([Top EXCEPT !.pc = "true", !.trueBlock = trueBlock],
          Supplier(Kid(Top.node, 2), trueBlock))
  /\ UNCHANGED <<ast, values, ret, runVars, status>>

EnterIf == Stmt("if") /\ EnterIfStructure

\* lazyGetContinueBlock, and the branch to it from where a branch has ended
LazyBlock(bs, cont) == IF cont = Null THEN Len(bs) + 1 ELSE cont
\* Mutant: the continue block is not inserted
NeverCreate(bs, cont) == bs

LazyCreate(bs, cont) == IF cont = Null THEN CreateBlock(bs) ELSE bs
\* Mutant: a branch that has terminated forgets where the other one continues
ForgetContinue(cont) == IF ret = Null THEN Null ELSE LazyBlock(blocks, cont)

Continue(cont) == IF ret = Null THEN cont ELSE LazyBlock(blocks, cont)
\* Mutant: a branch that has terminated is continued
AlwaysContinue(cont) ==
  CreateBr(LazyCreate(blocks, cont), builder, LazyBlock(blocks, cont))

ContinueBlocks(cont) ==
  IF ret = Null THEN blocks
  ELSE CreateBr(LazyCreate(blocks, cont), builder, LazyBlock(blocks, cont))

TrueBranchReturned ==
  /\ Returned("true")
  /\ LET cont   == Continue(Top.cont)
         linked == ContinueBlocks(Top.cont)
     IN IF Len(Kids(Top.node)) = 3
        THEN LET falseBlock == Len(linked) + 1 IN
             /\ blocks' = CreateBlock(linked)
             /\ builder' = falseBlock
             /\ Call([Top EXCEPT !.pc = "false", !.cont = cont, !.falseBlock = falseBlock],
                     Supplier(Kid(Top.node, 3), falseBlock))
        ELSE /\ blocks' = LazyCreate(linked, cont)
             /\ Goto([Top EXCEPT !.pc = "condition", !.cont = LazyBlock(linked, cont),
                                 !.falseBlock = LazyBlock(linked, cont)])
             /\ UNCHANGED builder
  /\ ret' = Pending
  /\ UNCHANGED <<ast, values, runVars, status>>

FalseBranchReturned ==
  /\ Returned("false")
  /\ blocks' = ContinueBlocks(Top.cont)
  /\ Goto([Top EXCEPT !.pc = "condition", !.cont = Continue(@)])
  /\ ret' = Pending
  /\ UNCHANGED <<ast, builder, values, runVars, status>>

\* Mutant: the builder stays where the condition was generated
StayAtCondition ==
  /\ Idle("condition")
  /\ LET e == Kid(Top.node, 1) IN
     /\ CheckLookups(e)
     /\ blocks' = Emit(blocks, Top.block,
                    ExprCode[e] \o <<Instruction("condbr", Top.node,
                                       <<Top.trueBlock, Top.falseBlock>>)>>)
  /\ builder' = Top.block
  /\ Return(Top.cont)
  /\ UNCHANGED <<ast, values, runVars>>

CodegenCondition ==
  /\ Idle("condition")
  /\ LET e == Kid(Top.node, 1) IN
     /\ CheckLookups(e)
     /\ blocks' = Emit(blocks, Top.block,
                    ExprCode[e] \o <<Instruction("condbr", Top.node,
                                       <<Top.trueBlock, Top.falseBlock>>)>>)
  /\ builder' = IF Top.cont # Null THEN Top.cont ELSE Top.block
  /\ Return(Top.cont)
  /\ UNCHANGED <<ast, values, runVars>>

\* codegen(FunctionDecl) returns void where the body can still continue
FinishFunction ==
  /\ Generating /\ stack = << >>
  /\ blocks' = IF ret = Null THEN blocks
               ELSE Emit(blocks, builder, <<Do("ret", NoNode)>>)
  /\ ret' = Pending
  /\ status' = "running"
  /\ UNCHANGED <<ast, builder, values, stack, runVars>>

(***************************************************************************)
(* The function runs.  The address of a variable is never null.            *)
(***************************************************************************)
Instructions == blocks[at[1]]

Run ==
  /\ status = "running"
  /\ LET i == Instructions[at[2]] IN
     /\ i.op \notin Terminators
     /\ trace' = Append(trace, <<i.op, i.node>>)
  /\ at' = [at EXCEPT ![2] = @ + 1]
  /\ UNCHANGED <<genVars, outcomes, status>>

Branch ==
  /\ status = "running"
  /\ LET i == Instructions[at[2]] IN
     \/ /\ i.op = "br"
        /\ at' = <<i.to[1], 1>>
        /\ UNCHANGED <<outcomes, trace>>
     \/ /\ i.op = "condbr"
        /\ \E v \in BOOLEAN :
             /\ outcomes' = [n \in DOMAIN outcomes \cup {i.node} |->
                               IF n = i.node THEN v ELSE outcomes[n]]
             /\ at' = <<IF v \/ IsMemory(Kid(i.node, 1)) THEN i.to[1] ELSE i.to[2], 1>>
        /\ trace' = Append(trace, <<"test", i.node>>)
  /\ UNCHANGED <<genVars, status>>

ReturnFromFunction ==
  /\ status = "running"
  /\ LET i == Instructions[at[2]] IN
     /\ i.op = "ret"
     /\ trace' = Append(trace, <<i.op, i.node>>)
  /\ status' = "returned"
  /\ UNCHANGED <<genVars, at, outcomes>>

\* What has been checked has failed, or the function has returned
Ended == status \notin {"generating", "running"} /\ UNCHANGED vars

GenerateStmt ==
  \/ CodegenExpressionStmt \/ CodegenDeclStmt \/ CodegenReturnStmt
  \/ EnterCompound \/ CodegenChild \/ ChildReturned \/ LeaveCompound
  \/ EnterIf \/ TrueBranchReturned \/ FalseBranchReturned \/ CodegenCondition

RunFunction == Run \/ Branch \/ ReturnFromFunction

Next == GenerateStmt \/ FinishFunction \/ RunFunction \/ Ended

Spec == Init /\ [][Next]_vars

(***************************************************************************)
(* What the statements mean: the events of a run in which the conditions   *)
(* have the given outcomes.                                                *)
(***************************************************************************)
\* An expression takes effect operand by operand; the value of an assignment is
\* read from its right side again
Effects[e \in Nodes] ==
  LET operands == FlattenSeq([k \in 1 .. Len(Kids(e)) |-> Effects[Kid(e, k)]])
      Read(k)  == IF Address[Kid(e, k)] = NoNode THEN << >>
                  ELSE <<<<"load", Address[Kid(e, k)]>>>>
  IN CASE Kind(e) = "call" ->
            FlattenSeq([k \in 1 .. Len(Kids(e)) |-> Effects[Kid(e, k)] \o Read(k)])
              \o <<<<"call", e>>>>
       [] Kind(e) = "binary" -> operands \o Read(1) \o Read(2) \o <<<<"compute", e>>>>
       [] Kind(e) = "assign" -> operands \o Read(2) \o <<<<"store", Address[Kid(e, 1)]>>>>
       [] OTHER              -> << >>

Evaluation(e) ==
  Effects[e] \o (IF Address[e] = NoNode THEN << >> ELSE <<<<"load", Address[e]>>>>)

Events(trc)  == [events |-> trc, ends |-> FALSE]
Then(first, second) ==
  IF first.ends THEN first
  ELSE [second EXCEPT !.events = first.events \o @]

Evaluate(kids) == FlattenSeq([k \in 1 .. Len(kids) |-> Evaluation(kids[k])])

Meaning[n \in Nodes] ==
  CASE Kind(n) = "expr"   -> Events(Effects[Kid(n, 1)])
    [] Kind(n) = "decl"   -> Events(Evaluate(Kids(n)) \o <<<<"store", n>>>>)
    [] Kind(n) = "return" -> [events |-> Evaluate(Kids(n)) \o <<<<"ret", n>>>>, ends |-> TRUE]
    [] Kind(n) \in {"compound", "unscoped"} ->
         FoldLeft(LAMBDA done, c : Then(done, Meaning[c]), Events(<< >>), Kids(n))
    [] Kind(n) = "if" ->
         LET branch == IF n \in DOMAIN outcomes /\ outcomes[n] THEN 2 ELSE 3
         IN Then(Events(Evaluation(Kid(n, 1)) \o <<<<"test", n>>>>),
                 IF branch <= Len(Kids(n)) THEN Meaning[Kid(n, branch)] ELSE Events(<< >>))

FunctionMeaning ==
  Then(Then(Events([k \in 1 .. Len(Args) |-> <<"store", Args[k]>>]), Meaning[Last(Kids(1))]),
       Events(<<<<"ret", NoNode>>>>)).events

(***************************************************************************)
(* Properties.                                                             *)
(***************************************************************************)
BlockIds == 1 .. Len(blocks)
Ops == {"load", "store", "call", "compute"} \cup Terminators
Statuses == {"generating", "running", "returned", "nullBlock", "localMissing"}

WellTyped(ops, statuses) ==
  /\ ast \in AstType
  /\ \A b \in BlockIds : \A k \in DOMAIN blocks[b] :
       LET i == blocks[b][k] IN
       i.op \in ops /\ i.node \in Nodes \cup {NoNode} /\ \A j \in DOMAIN i.to : i.to[j] \in BlockIds
  /\ builder \in BlockIds
  /\ \A k \in DOMAIN values : values[k] \subseteq Nodes
  /\ \A k \in DOMAIN stack :
       /\ stack[k].pc \in PCs /\ stack[k].node \in Nodes
       /\ {stack[k].block, stack[k].trueBlock, stack[k].falseBlock, stack[k].cont}
            \subseteq BlockIds \cup {Null}
  /\ ret \in BlockIds \cup {Null, Pending}
  /\ DOMAIN outcomes \subseteq Nodes
  /\ status \in statuses

\* Every variable has its type
TypeOK == WellTyped(Ops, Statuses)

\* The block that is passed on and the position of the IR builder agree at
\* every call, although a condition is generated after its branches
InsertPointAgrees == Idle("stmt") => builder = Top.block

IsTerminator(b, k) == blocks[b][k].op \in Terminators

\* No instruction follows a terminator, and when the function is complete each
\* of its blocks ends with one
OneTerminator ==
  \A b \in BlockIds :
    /\ \A k \in 1 .. Len(blocks[b]) - 1 : ~IsTerminator(b, k)
    /\ status \in {"running", "returned"} =>
         blocks[b] # << >> /\ IsTerminator(b, Len(blocks[b]))

Targets(i) == {i.to[k] : k \in DOMAIN i.to}

\* The blocks are well formed, and "never create the continue block when both
\* statements terminate the control flow" (FunctionCodegen.cpp:358): each block
\* but the entry is branched to
BlocksWellFormed ==
  /\ OneTerminator
  /\ status = "running" =>
       \A b \in BlockIds \ {1} :
         \E p \in BlockIds : \E k \in DOMAIN blocks[p] : b \in Targets(blocks[p][k])

\* What has run is what the statements mean
RunsAsWritten == status = "returned" => trace = FunctionMeaning

\* "A conditional if statement" (AST.hpp:458) takes the branch its condition
\* tells, whatever expression the condition is
IfIsConditional == RunsAsWritten
=============================================================================
