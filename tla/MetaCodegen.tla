----------------------------- MODULE MetaCodegen -----------------------------
(***************************************************************************)
(* MetaCodegen translates a meta decl into a function that, when it runs,  *)
(* writes the nodes of the instantiation through the callbacks of          *)
(* NodeContributor: meta blocks and meta ifs are run, every other node is  *)
(* contributed.  It has FunctionCodegen generate the meta blocks and the   *)
(* structure of the meta ifs, in the same blocks with the same builder.    *)
(***************************************************************************)
EXTENDS FunctionCodegen

VARIABLE cursor   \* the depth of the node that is generated

metaVars == <<vars, cursor>>

CodegenMeta(n, b) == CallOf("meta", n, b)
Meta(kinds) == Idle("meta") /\ Kind(Top.node) \in kinds

(***************************************************************************)
(* The callbacks.  The depth is a constant argument of the call.           *)
(***************************************************************************)
\* Mutant: the depth is not looked at
IntroduceConstant(level, d) == Do("introduceConstant", d)

Introduce(level, d) ==
  Do(IF level = "InsideFunctionDecl" THEN "introduceStmt" ELSE "introduceConstant", d)
ContributeNode(n) == Do("contribute", n)
ReduceNode(n) ==
  IF RequiresReduceMarker(Kind(n)) THEN <<Do("reduce", n)>> ELSE << >>

\* The cursor.  Its meta depth stays InsideMetaDecl: no meta node is contributed.
Descended(kind, level) == IF kind = "function" THEN "InsideFunctionDecl" ELSE level
Ascended(kind, level)  == IF kind = "function" THEN "TopLevel" ELSE level
Unbalanced(kind, level) == kind = "function" /\ level # "TopLevel"

\* The named arguments are exported as constants
MetaInit ==
  /\ ast \in Asts
  /\ blocks = <<ArgCode \o [k \in 1 .. Len(Args) |-> Introduce("TopLevel", Args[k])]>>
  /\ builder = 1
  /\ values = <<{Args[k] : k \in 1 .. Len(Args)}>>
  /\ stack = <<CodegenMeta(Last(Kids(1)), 1)>> /\ ret = Pending
  /\ at = <<1, 1>> /\ outcomes = << >> /\ trace = << >>
  /\ status = "generating"
  /\ cursor = "TopLevel"

(***************************************************************************)
(* codegenMeta of a MetaContribution and of the nodes that are contributed.*)
(***************************************************************************)
EnterContribution ==
  /\ Meta({"contribution"})
  /\ Goto([Top EXCEPT !.pc = "metaChildren", !.todo = Kids(Top.node)])
  /\ UNCHANGED <<ast, blocks, builder, values, ret, runVars, status, cursor>>

Contribute ==
  /\ Meta(Kinds \ {"contribution", "metaIf", "metaCalculation"})
  /\ IF IsIntermediate(Kind(Top.node)) THEN status' = "intermediateContributed"
     ELSE IF Unbalanced(Kind(Top.node), cursor) THEN status' = "unbalanced"
     ELSE UNCHANGED status
  /\ cursor' = Descended(Kind(Top.node), cursor)
  /\ blocks' = Emit(blocks, builder, <<ContributeNode(Top.node)>>)
  /\ Goto([Top EXCEPT !.pc = "metaChildren", !.todo = Kids(Top.node)])
  /\ UNCHANGED <<ast, builder, values, ret, runVars>>

CodegenMetaChild ==
  /\ Idle("metaChildren") /\ Top.todo # << >>
  /\ IF Top.block = Null
     THEN status' = "nullBlock" /\ UNCHANGED stack
     ELSE /\ Call([Top EXCEPT !.todo = Tail(@)], CodegenMeta(Head(Top.todo), Top.block))
          /\ UNCHANGED status
  /\ UNCHANGED <<ast, blocks, builder, values, ret, runVars, cursor>>

MetaChildReturned ==
  /\ Returned("metaChildren")
  /\ Goto([Top EXCEPT !.block = ret])
  /\ ret' = Pending
  /\ UNCHANGED <<ast, blocks, builder, values, runVars, status, cursor>>

\* Mutant: the cursor does not ascend
LeaveWithoutAscending ==
  /\ Idle("metaChildren") /\ Top.todo = << >>
  /\ blocks' = IF Kind(Top.node) = "contribution" THEN blocks
               ELSE Emit(blocks, builder, ReduceNode(Top.node))
  /\ Return(Top.block)
  /\ UNCHANGED <<ast, builder, values, runVars, status, cursor>>

LeaveContribution ==
  /\ Idle("metaChildren") /\ Top.todo = << >>
  /\ IF Kind(Top.node) = "contribution"
     THEN UNCHANGED <<blocks, cursor>>
     ELSE /\ blocks' = Emit(blocks, builder, ReduceNode(Top.node))
          /\ cursor' = Ascended(Kind(Top.node), cursor)
  /\ Return(Top.block)
  /\ UNCHANGED <<ast, builder, values, runVars, status>>

(***************************************************************************)
(* Meta ifs and meta blocks.                                               *)
(***************************************************************************)
EnterMetaIf == Meta({"metaIf"}) /\ EnterIfStructure /\ UNCHANGED cursor

\* The decls that are directly in the block of a meta calculation
Exported(n) ==
  LET children == Kids(Kid(n, 1)) IN
  FlattenSeq([k \in 1 .. Len(children) |->
                IF Kind(children[k]) = "decl" THEN <<children[k]>> ELSE << >>])

\* Mutant: the region is not inserted into the function
EnterUninsertedRegion ==
  /\ Meta({"metaCalculation"})
  /\ LET region == Len(blocks) + 1 IN
     /\ blocks' = CreateBr(blocks, builder, region)
     /\ builder' = region
     /\ Call([Top EXCEPT !.pc = "calculation"], CodegenStmt(Kid(Top.node, 1), region))
  /\ UNCHANGED <<ast, values, ret, runVars, status, cursor>>

\* Mutant: the builder is not moved to the region
EnterRegionOnly ==
  /\ Meta({"metaCalculation"})
  /\ LET region == Len(blocks) + 1 IN
     /\ blocks' = CreateBr(CreateBlock(blocks), builder, region)
     /\ Call([Top EXCEPT !.pc = "calculation"], CodegenStmt(Kid(Top.node, 1), region))
  /\ UNCHANGED <<ast, builder, values, ret, runVars, status, cursor>>

\* Mutant: the values are introduced before the meta block has run
IntroduceAtEntry ==
  /\ Meta({"metaCalculation"})
  /\ LET region   == Len(blocks) + 1
         exported == Exported(Top.node)
         early    == [k \in 1 .. Len(exported) |-> Introduce(cursor, exported[k])]
     IN /\ blocks' = CreateBr(CreateBlock(Emit(blocks, builder, early)), builder, region)
        /\ builder' = region
        /\ Call([Top EXCEPT !.pc = "calculation"], CodegenStmt(Kid(Top.node, 1), region))
  /\ UNCHANGED <<ast, values, ret, runVars, status, cursor>>

\* createRegionAfter branches from the insertion point to a new block
EnterMetaCalculation ==
  /\ Meta({"metaCalculation"})
  /\ LET region == Len(blocks) + 1 IN
     /\ blocks' = CreateBr(CreateBlock(blocks), builder, region)
     /\ builder' = region
     /\ Call([Top EXCEPT !.pc = "calculation"], CodegenStmt(Kid(Top.node, 1), region))
  /\ UNCHANGED <<ast, values, ret, runVars, status, cursor>>

\* A calculation that never ends has nothing to introduce its values in
MetaCalculationReturned ==
  /\ Returned("calculation")
  /\ IF ret = Null
     THEN status' = "calculationTerminated" /\ UNCHANGED <<blocks, stack, ret>>
     ELSE LET exported == Exported(Top.node) IN
          /\ status' = IF \E k \in DOMAIN exported : exported[k] \notin Known
                       THEN "localMissing" ELSE status
          /\ blocks' = Emit(blocks, builder,
                            [k \in 1 .. Len(exported) |-> Introduce(cursor, exported[k])])
          /\ Return(ret)
  /\ UNCHANGED <<ast, builder, values, runVars, cursor>>

\* The assertion on the block that was returned (MetaCodegen.cpp:56) is left out:
\* each contribution returns a block, see GeneratorProofs!MetaInv
FinishMetaDecl ==
  /\ Generating /\ stack = << >>
  /\ blocks' = Emit(blocks, builder, <<Do("ret", NoNode)>>)
  /\ ret' = Pending
  /\ status' = "running"
  /\ UNCHANGED <<ast, builder, values, stack, runVars, cursor>>

MetaNext ==
  \/ EnterContribution \/ Contribute \/ CodegenMetaChild \/ MetaChildReturned
  \/ LeaveContribution \/ EnterMetaIf \/ EnterMetaCalculation \/ MetaCalculationReturned
  \/ FinishMetaDecl
  \/ (GenerateStmt \/ RunFunction \/ Ended) /\ UNCHANGED cursor

MetaSpec == MetaInit /\ [][MetaNext]_metaVars

(***************************************************************************)
(* What a meta decl means: the calls of the callbacks, in the order of the *)
(* nodes, without the branches of meta ifs that are not taken.             *)
(***************************************************************************)
Below[n \in Nodes] == {n} \cup UNION {Below[Kid(n, k)] : k \in 1 .. Len(Kids(n))}
InsideFunction(n) == \E f \in Nodes : Kind(f) = "function" /\ n \in Below[f]

Introductions(ds) ==
  [k \in 1 .. Len(ds) |->
     <<IF InsideFunction(ds[k]) THEN "introduceStmt" ELSE "introduceConstant", ds[k]>>]

Expansion[n \in Nodes] ==
  LET children == FoldLeft(LAMBDA done, c : Then(done, Expansion[c]), Events(<< >>), Kids(n))
  IN CASE Kind(n) = "contribution" -> children
       [] Kind(n) = "metaIf" ->
            LET branch == IF n \in DOMAIN outcomes /\ outcomes[n] THEN 2 ELSE 3
            IN Then(Events(Evaluation(Kid(n, 1)) \o <<<<"test", n>>>>),
                    IF branch <= Len(Kids(n)) THEN Expansion[Kid(n, branch)] ELSE Events(<< >>))
       [] Kind(n) = "metaCalculation" ->
            Then(Meaning[Kid(n, 1)], Events(Introductions(Exported(n))))
       [] OTHER ->
            Then(Then(Events(<<<<"contribute", n>>>>), children),
                 Events(IF RequiresReduceMarker(Kind(n)) THEN <<<<"reduce", n>>>> ELSE << >>))

MetaMeaning ==
  Then(Then(Events([k \in 1 .. Len(Args) |-> <<"store", Args[k]>>] \o Introductions(Args)),
            Expansion[Last(Kids(1))]),
       Events(<<<<"ret", NoNode>>>>)).events

(***************************************************************************)
(* Properties, beside those of FunctionCodegen.                            *)
(***************************************************************************)
Levels == {"TopLevel", "InsideFunctionDecl"}
Introducing == {"introduceStmt", "introduceConstant"}

\* Every variable has its type
MetaTypeOK ==
  /\ WellTyped(Ops \cup {"contribute", "reduce"} \cup Introducing,
               Statuses \cup {"intermediateContributed", "unbalanced", "calculationTerminated"})
  /\ cursor \in Levels

\* The two generators agree: the block that is passed on is the position of the
\* IR builder also where codegenMeta hands over to FunctionCodegen and back, and
\* whichever of them ends a block, it ends it once
GeneratorsAgree ==
  /\ Idle("meta") \/ Idle("stmt") => builder = Top.block
  /\ OneTerminator

\* The callbacks are called as the meta decl is written: each node of the
\* branches taken is contributed once, between the nodes it is in, and each
\* exported value is introduced at the depth it is written at
ExpandsAsWritten == status = "returned" => trace = MetaMeaning

\* d is declared in a branch of a meta if that was not taken
Skipped(d) ==
  \E n \in DOMAIN outcomes :
    /\ Kind(n) = "metaIf"
    /\ \E k \in (2 .. Len(Kids(n))) \ {IF outcomes[n] THEN 2 ELSE 3} : d \in Below[Kid(n, k)]

\* The values that were read so far, with the place of the read in the trace
Reads == {k \in DOMAIN trace : trace[k][1] \in {"load"} \cup Introducing}

\* A value is stored before it is read, by an expression or by the callback
\* that introduces it (CodeExecutor.cpp:596), unless its decl is in a branch that
\* was not taken: no other read is of what the path has not written
StoredBeforeRead ==
  \A k \in Reads :
    \/ \E j \in 1 .. k - 1 : trace[j] = <<"store", trace[k][2]>>
    \/ Skipped(trace[k][2])

\* No assertion of MetaCodegen or ASTCursor fails.  The meta decls of the runs have
\* no meta block that returns: the grammar permits one (GeneratedParser.g4:111), and
\* the assertion behind it fails (MetaCodegen.cpp:116)
NoMetaAssertion ==
  status \notin {"localMissing", "intermediateContributed", "unbalanced", "calculationTerminated"}

\* A meta if "makes it's AST children available dependent on the given expression"
\* (AST.hpp:468): what is declared in a branch that is not taken is not read
OnlyAvailableIsRead == \A k \in Reads : ~Skipped(trace[k][2])
===============================================================================
