# A verification of the swy compiler

swy compiles a small language whose *meta decls* are run at compile time: an
instantiation `get<4>()` calls the meta function of `get` inside a JIT, the
meta function contributes AST nodes to a layout, the layout is read into a new
meta unit, and the function that unit exports takes the place of the
expression. Code generation therefore runs the program it generates. This
directory models that machinery in TLA+, checks the models with TLC and proves
their main invariants with TLAPS.

All paths below are relative to the repository, e.g. `src/Codegen/CodeExecutor.cpp`.

## 1. Inventory

| Component | State it keeps | Operations | What makes it correct |
|---|---|---|---|
| **Driver** `src/Main.cpp`, `src/Frontend` | the invocation (emit action, verbose flags), the stage it is in | `compileSourceFile`, `CompilationUnit::translate` | stages run in order; no stage runs after an error; the module is dumped only when the code generation succeeded |
| **Diagnostics** `src/Diag` | the counters, the builders that are alive and which of them owns the diagnostic | `diagnose`, `syntaxError`, moves, the destructor of `DiagnosticBuilder` | every diagnostic that is counted is dispatched exactly once |
| **Parser** `src/Parse/GeneratedParser.g4`, `BasicParser`, `LocalScopeVisitor`, `BasicASTBuilder` | the meta depth stack, mode, the scope stack, the operator stack | grammar actions, `contribute*`, `introduce`, `lookup` | depths balance; a meta statement only where one is allowed; precedence |
| **Scopes** `src/AST/ASTScope` | chain of name tables, per-scope listeners | `introduce`, `lookup`, `lookupLocal` | a name resolves to its innermost decl; shadowing is reported; a decl of a meta block ends up in the enclosing scope and in the exports |
| **Layout** `src/Parse/ASTLayout` | the flat node sequence with reduce markers, read position | `write`, `scopedWrite`, `consume*`, `crawlCurrentScope` | what is written is read back as the same tree |
| **Meta codegen** `src/Codegen/MetaCodegen`, `NodeContributor`, `src/AST/ASTCursor` | cursor (depth, meta depth), the layout that is being written | `contribute`, `introduce`, `reduce` callbacks | whatever way the meta ifs go, the layout read back is a legal unit |
| **Semantic analysis** `src/Sema/SemaAnalysis`, `DependencyAnalysis` | the stack of visited nodes | `accept`, `visit`, `behind`, `consumeMetaInstantiationsOf` | what it accepts the code generation can process; all instantiations a body needs are found |
| **Function codegen** `src/Codegen/FunctionCodegen` | basic blocks, insertion point, local values | statements, `codegenIfStructure`, `createRegionAfter` | each block has one terminator; the blocks run what the AST says |
| **CodegenInstance** | worklist, source map, current generation, amalgamation | `codegen`, `lookupGlobal`, `resolveGlobal`, `instantiate` | each function is generated once, after its instantiations; the amalgamation is complete |
| **CodeExecutor** | available symbols, unresolved set, shipment, JIT modules, instantiation cache | `instantiate`, `codegen(MetaDecl)`, `pull`, `shipToJIT` | each symbol is defined once; what a jump pad reaches is defined |
| **AST** classes and cloner `src/AST` | the nodes | `addChild`, `children`, `clone` | every copy has the kind and the name of its original |
| Dumpers, stringers, name mangling text, ANTLR output, LLVM itself | | | not modelled |

How they interact. The driver calls the parser, which writes a layout that the
layout reader turns into the AST, introducing names into scopes as it goes; the
semantic analysis visits the AST; `CodegenInstance::codegen` works off the
global decls. `CodegenInstance` owns a `CodeExecutor` and the two call each
other: generating a function body consumes the instantiations in it
(`CodeExecutor::instantiate`); instantiating needs a meta function in the JIT,
so `CodeExecutor` generates it and pulls every function it calls out of the
amalgamation (`CodegenInstance::resolveGlobal`), which generates those bodies,
which may contain instantiations, and so on. Running the jump pad calls back
into `NodeContributor`, whose layout goes through the layout reader and the
semantic analysis again.

Nothing runs concurrently. What is hard here is *re-entrancy*: one worklist,
one unresolved set and one open shipment are shared by all nested calls; sets
are hash sets keyed by pointers, so every order of their elements is possible;
errors have to unwind through frames that hold half-finished state; and a flat
layout produced by run-time decisions must be well formed for every decision.

## 2. Modules

| Module | Models | Status |
|---|---|---|
| `CodegenEngine` | `CodegenInstance` and `CodeExecutor`, composed | checked, invariants proved |
| `InstantiationStore` | what the engine promises: instantiations evaluated once over a growing set of defined functions | implemented by `CodegenEngine` (checked and proved) |
| `CodegenEngineProofs`, `CodegenOnceProofs` | types, errors, the JIT; what is generated once, completely, the refinement, and the programs that do not fail | proved |
| `ASTKinds`, `AST` | kinds of nodes, which end with a reduce marker, which exist at compile time only; trees | |
| `FunctionCodegen` | the class of that name, and the run of the function it generates | checked |
| `MetaCodegen` | the class of that name and `ASTCursor`, on top of `FunctionCodegen` as in the code, and the run of the meta function | checked |
| `GeneratorProofs` | blocks, positions and types of both generators, for every tree | proved |
| `LayoutWriter` | the two writers of layouts: `LocalScopeVisitor`, and `NodeContributor` with the callbacks that reach it | |
| `ASTLayout` | `ASTLayoutReader` on top of `BasicASTBuilder` and the scopes, for a source and then for an instantiated unit | checked, with `SemaAnalysis`; invariants proved |
| `SemaAnalysis` | `SemaAnalysis` behind the reader, and the traversals of `DependencyAnalysis` over the trees that were read | checked, invariants proved |
| `RecursionProofs` | that a function which recurs on lower ranks exists, and has the properties it passes on; joined sequences | proved |
| `LayoutProofs` | the invariant of the reader, for every source, and what it says of a tree that was read | proved |
| `ScopeProofs` | what names mean to the reader, for every source: the scopes and errors of the builder against the tree | proved |
| `SemaAnalysisProofs` | the properties of `ASTLayout` and `SemaAnalysis`: types, scopes, what was written, the path of visited nodes, what is accepted, where the analysis ends, which instantiations are found | proved |
| `Diagnostics` | `DiagnosticEngine`, `DiagnosticBuilder`, `DiagnosticListener`, `Ownership` | checked, with `Frontend` |
| `MetaDepth` | the rules of the grammar, the actions and predicates in them, and the stack of `BasicParser` | checked, with `Frontend` |
| `Frontend` | `main`, `CompilerInstance`, `CompilationUnit::translate`, `ASTParser::parse`; composes `Diagnostics` and `MetaDepth` | checked |
| `FrontendProofs` | the gates and the diagnostics, for all bounds, and the meta depths, for every source and any syntax errors | proved |
| `MCCodegenEngine`, `MCTrees`, `MCFunctionCodegen`, `MCMetaCodegen`, `MCASTLayout` | the small programs, trees and sources TLC runs them on | |

What is left of the plan, in order:

1. `MetaCodegen`'s trace as the input of the reader, in place of the operator
   `LayoutWriter!Contribute`, which calls the callbacks in the same order;
2. the type of a value, for the returns a function may lack and the left side of
   an assignment, which no part of the compiler checks;
3. proofs: `NoMetaAssertion` for every meta decl.

## 3. CodegenEngine

### State and control

| TLA+ | Code |
|---|---|
| `dependencies`, `functionSource`, `generation` | `CodegenInstance::dependencies_`, the keys of `functionSource_`, `currentGeneration_` |
| `bodies` | functions of `amalgamation_` that are no declarations |
| `available`, `unresolved`, `instantiations` | `availableSymbols_`, `unresolvedDependencies_`, the keys of `instantiations_` |
| `shipment`, `jit` | symbols defined by `shipment_` and by the modules given to the engine |
| `errors` | `DiagnosticEngine::hasErrors` |
| `stack`, `ret` | the C++ call stack and the value the last call returned |
| `status` | `running`; `generated`/`failed`: what `codegen(CompilationUnit)` returned; anything else: the assertion that ended the process |

The two classes are one module because neither has a state of its own that the
other's calls do not depend on. Every action is one call or the part of a call
between two nested calls; the frame's `pc` says where it is:

    CodegenInstance::codegen(FunctionDecl):  codegen -> consume -> generate
    CodeExecutor::instantiate:  instantiate -> consumeMeta -> jumpPad -> ship -> invoke

An element of `unresolved` is a pair: the code's set holds `FunctionDecl*` and
`llvm::Function*` and treats them as different even if they are the same
symbol. The alternative for a `MetaInstantiationExpr` is never inserted.
A *program* is what the engine sees of an AST: who calls whom, which
instantiation occurs where, what it exports. A program is a constant of a
behaviour; `Programs` is any set of them. What it says of instantiations is what
`ConsumeAll` and `ConsumeAllMeta` of `SemaAnalysis` compute from a tree.

`JitClosed` models the JIT: OrcMCJITReplacement emits a module when one of its
symbols is asked for, and ends the process when an external of that module has
no definition. Since the shipment is invoked in the step after it is
transferred, the module asked for is the only one whose externals have not
been looked up before, so that "every module is closed" and "the module is
closed" agree.

### Runs

`MCCodegenEngine` has two global functions, two meta decls and two
instantiations, each exporting a function or nothing, with all call edges and
meta calls that do not make an instantiation recursive (the second exported
function and the edges from a to itself add no interleaving of interest and
are left out). This is enough for: a nested instantiation at every point of an
outer one, a shared callee, a cycle through the JIT, an export that is missing,
and an error at any depth.

| Run | Question | Distinct states |
|---|---|---|
| `engine_all` | all invariants, for every program, up to the point where it stops; and for programs outside five classes (`Plain`): no assertion fails, no symbol is unresolved, and the process ends | 2.1 million |
| `engine_branch`, `_nested`, `_cycle` | the findings below | |

Invariants. `DefinedOnce`: `availableSymbols_` is exactly what shipment and JIT
define, each once. `NoLostReference` is the "differential set" of
CodeExecutor.hpp: whatever a module refers to is available, queued, or being
generated for a waiting shipment; a nested call that empties the queue cannot
lose an entry. `OuterInvokeClosed` follows from it when no shipment waits.
`GenerationConsistent`, `AmalgamationComplete` say
that on-demand generation and the worklist together generate each function
once, after its instantiations, and none is missing at the end.
`NothingAfterError` is an action property: with an error, calls only unwind.
`PlainDoesNotFail` is about the programs for which there is a set of
functions that holds all that may run at compile time, closed under calls, none of
which instantiates or is called by a meta block and by another one of the set.
`ImplementsStore` is the refinement: seen through the generated bodies and the
keys of `instantiations_`, the engine is an `InstantiationStore`, which cannot
generate a body before all its instantiations are evaluated and evaluates each
once. `DependencyNotResolved` is the code's branch for a dependency that could not be
generated; no run takes it, because the error it needs comes from an
instantiation that was run with the reference unresolved (finding 2) before.

Fairness. `FairSpec` assumes weak fairness of the whole next-state relation:
one thread runs the compiler and never blocks. It is used for
`PlainTerminates` only. Recursive instantiation (a meta decl that instantiates itself in its own
meta block) does not terminate in the code either and no program of the runs
has it. Deadlock is checked in every run; `Ended` is the self-loop of an ended
process.

### Findings

Three properties the repository states are violated; section "What the engine
does not keep" of the module and the runs of the same name show each.

1. `engine_branch`: an instantiation in a meta block inside a branch of a
   `meta if` is not found by the dependency analysis; the assertion at
   CodeExecutor.cpp:300 fails.
2. `engine_nested`: a function that runs at compile time and itself
   instantiates ships the outer shipment before its dependency is in it.
3. `engine_cycle`: `enterGeneration` is reached after the only calls that can
   re-enter, so cycles are not detected but run into other assertions.

`Plain` excludes two more classes of programs. The model has the behaviour of both;
no run is spent on them.

* A meta block uses an instantiation that exports nothing. In a function this is an
  error that stops the generation in time. A meta decl consumes its instantiations
  without a look at the export (CodeExecutor.cpp:476), so it is noticed in the middle
  of the generation only: the error is diagnosed (CodegenInstance.cpp:284-295), and
  then the assertion "Expected all instantiations to be resolved before the
  generation of the function!" fails (FunctionCodegen.cpp:264) and ends the process
  (`notExported`).
* A function is called by a meta block *and* by another function that runs at
  compile time. It is queued under two identities, as a `FunctionDecl*` and as an
  `llvm::Function*` (CodeExecutor.hpp:55), and pulled twice; the assertion at
  CodeExecutor.cpp:419 fails (`availableAlready`).

## 4. FunctionCodegen and MetaCodegen

### State and control

A tree (`AST.tla`) is a table: the kind, the children and, for references, the
decl of each node. Literals, names and types are left out. The callee of a call
is not one of the children of a call here, since a function is no local value.

| TLA+ | Code |
|---|---|
| `stack`, `ret` | the recursive calls of `codegenStmt`, `codegenMeta`, `codegenIfStructure` and the block the last one returned (`Null` is the empty `Nullable`) |
| `blocks`, `builder` | the basic blocks of `function_`, `builder_`'s insertion point |
| `values` | the scopes of `values_` |
| `cursor` | `MetaCodegen::cursor`, its depth |
| `at`, `outcomes`, `trace` | the run of the generated function, in LLVM's place |

`frame.pc` names the place in a function where a nested call returns: `stmt` and
`meta` are the entries of `codegenStmt` and `codegenMeta`, `children` and
`metaChildren` their loops, `true`, `false`, `condition` the three parts of
`codegenIfStructure`, `calculation` the meta calculation. `codegenIfStructure`
is one set of actions that both generators use; `Supplier` is the callback each
passes. When generation is complete the blocks are executed, each condition with
either outcome: the `trace` of loads, stores, calls and callbacks is compared to
`Meaning` and `Expansion`, which are defined over the tree and know no blocks.

A failed assertion and the dereference of a null block are a `status` in which
the process has ended; nothing behind the assertion is done, so a meta
calculation without an end introduces none of the values it exports. `status` never returns to `generating`.

### Runs

| Run | Question | Distinct states |
|---|---|---|
| `function_all` | the blocks are well formed and run as written | 130 000 |
| `meta_all` | the callbacks are called as written, for every outcome of the conditions | 62 000 |
| `function_condition`, `meta_branch` | the findings below | |

`InsertPointAgrees` is the property the generators rely on without saying it:
`codegenStmt` is handed a block but emits at the builder's position; the two are
set in different places, and an if generates its condition last, in a block that
was left long before. `GeneratorsAgree` is the same for the two generators that
share the builder. `BlocksWellFormed` is what LLVM's verifier demands, plus the
intent stated in the comment on the continue block. `StoredBeforeRead` says that
a path reads no variable that it has not written, the pointers the callbacks
read through included, with one exception: what is declared in a branch of a meta
if that was not taken (`Skipped`), the subject of finding 5. `RunsAsWritten` and
`ExpandsAsWritten` imply that callbacks nest: each `contribute` of a node with a
reduce marker has its `reduce`, on every path.

Bounds. The functions have an argument, straight lines of three statements with
nested expressions, and ifs nested two deep, with and without else, with empty,
returning and continuing branches of up to two statements, in front of, behind
and between other statements, and references to the oldest or the newest visible
decl. An if inside a branch already meets every state `codegenIfStructure` can
be re-entered in; a third level repeats them. The meta decls have up to three
top-level nodes, meta ifs two deep, meta blocks with exported decls, scopes and
ifs, and functions with meta statements at two depths. There is no state bound.
`MaxNodes` is the length of the tables and larger than every tree used.

Inputs. In `function_all` and `meta_all` a statement that ends the control flow
is the last of its block except in three functions, conditions are no bare
variables, and meta blocks do not return. A meta block that returns is accepted
by the grammar and fails the assertion at MetaCodegen.cpp:116, or, inside of an
if, silently ends the meta function; `NoMetaAssertion` is about the others. The
restriction on conditions is the subject of finding 4. A statement behind one that
ends its block is generated with a null block: the semantic analysis does not catch it, as the TODO at
FunctionCodegen.cpp:154 says it should. `OnlyDeadCodeFails` shows that this is
the one way to fail, `lookupLocal` included.

No fairness is assumed: the language has no loops, the properties are safety, and
deadlock is checked, so a generation that gets stuck would be found.

### Findings

4. `function_condition`: an if whose condition is a variable (or an assignment of
   one) tests the address of the variable, FunctionCodegen.cpp:399-400.
5. `meta_branch`: a meta if "makes it's AST children available dependent on the
   given expression" (AST.hpp:468), but a branch opens no scope (ASTLayout.cpp:312):
   what it declares can be named behind the meta if or in its other branch, and is
   then read without having been stored when the branch was not taken.
   `OnlyAvailableIsRead` says that it is not.

## 5. ASTLayout and SemaAnalysis

### State and control

| TLA+ | Code |
|---|---|
| `input.layout`, `pos` | `layout_`, `pos_` |
| `stack` | the consume methods that run, each with the node it shifted |
| `kids`, `decl`, `exports`, `exported` | what `addChild`, `setBody`, ..., `setDecl`, `addExportedDecl`, `setExportedNode` build |
| `scopes` | the chain from `currentScope_` outwards, down to the scope of the unit; `input.outer` is what the scope of the enclosing unit holds |
| `modes` | `metaDeclMode_` |
| `crawl` | `pos_` within `crawlCurrentScope`, which restores it |
| `errors` | the errors the reader diagnosed; the notes to them are left out |
| `depth` | `SemaAnalysis::depth_`, with the position of the loop over the children of each node |
| `diagnosed` | what the analysis diagnosed, and where; the hints to decls are left out |
| `declaring` | what is asked of a decl of the unit around an instantiated one |
| `verdict` | where the analysis is, or the dereference that ended the process |

A node is the position of its entry. The reader is a recursive descent over the
layout; each consume method is its *production* (`ProductionOf`): the children
it needs, and those it goes on to read until it sees a marker. What a method
does besides (enter a scope, change the mode, introduce a name, resolve one) is
an action of its own, at the entry (`Consume...`) or the exit (`Finish`) of the
method; the methods that do nothing else share `ConsumeOther`. `ModesBehind` has
the two places where a mode changes between two children.

The unit's own decls are introduced before any is consumed: `CrawlNode` visits
the entries of the unit and skips what is inside of nodes with a marker. The
crawl has no production; a meta decl, which has no marker itself, is skipped
because both of its children have one, and nothing below a constant has a name.

When a source was read without errors, the contribution of a meta decl in it may
be read (`Instantiate`), with the scope of its unit as parent. `SemaAnalysis`
extends `ASTLayout` and puts the analysis between the two: `CheckAST` is enabled
behind the gate of the parser, and only what was accepted is instantiated
(`InstantiateAccepted`), read, and analysed in turn.

The visitor is one action per overload of `visit`; `Accept` is what they share:
`accept` pushes the next child, and its node is diagnosed before its children.
`LeaveNode` is the return of `accept`. `behind(1)` is read off the stack.
The traversals of `DependencyAnalysis` change no state and are the functions
`ConsumeAll` and `ConsumeAllMeta` over the tree that was read.

### Runs

| Run | Question | Distinct states |
|---|---|---|
| `layout_all` | what is written is read and analysed, with the scopes and errors the tree says | 35 000 |
| `layout_body`, `sema_null` | the findings below | |

The properties compare the reader with definitions over the tree that know
neither its order nor its state. `ReadsAsWritten` writes the tree that was read
again and gets the layout back. `ScopedAsWritten` says what each reference means
from *where* decl and reference are (`SeenAt`: everywhere in the unit, or behind
the decl in the innermost node that opens a scope) and which decls clash
(`Accepted`), for exactly the references that are not merely contributed; the
errors are those of this definition, no more and no fewer. `ExportsAsWritten`
does the same for what a meta block exports and a unit shows.
`BuilderFollowsReader` is the assertion of the destructor of BasicASTBuilder in
a stronger form: at any time the scopes are those of the running methods.
`ReadsAllButMetaBodies` says which layouts fail: none but those of finding 6.

Of the analysis, `DepthIsPath` says that the stack is a path of the tree from the
root to the visited node, which is what `behind` relies on. `AcceptsWhatFits`
defines from the tree and the decls which calls and instantiations fit, and
says that the analysis objects to exactly the others, wherever they are.
An argument of an instantiation fits if it is a literal; the code accepts those
of integers only (SemaAnalysis.cpp:118-124), the model has no literals of booleans.
`NullOnlyWhereUnresolved` says which trees end in an assertion: those with an
instantiation in a part that is merely contributed, or of what is no meta decl,
and no others. `DependenciesResolved` relates the dependency analysis to the
modes of the reader: what the traversal of a meta decl finds are its computed
instantiations but for those in branches of meta ifs (finding 1), each of them
resolved.

Bounds. Two functions with bodies of up to three statements and compounds nested
two deep, in which names clash, are unknown, used too early, and used behind the
block that declares them; and meta decls that contribute functions, constants and
the exported values of meta blocks, at the top level and inside of a function,
with and without meta ifs, with either outcome of their conditions. Scopes are up
to six deep and all kinds that can nest do, which is what `Lookup`
and `Insert` can tell apart. For the analysis: calls with none to two arguments of
every kind of decl, as a statement, as a value and nested; decls with the reserved
name; instantiations of meta decls and of functions with fitting and other
arguments, in meta blocks, in conditions, in branches and in what is contributed;
and contributed calls of the decls of both units. There is no state bound.

Fairness. `FairCheckSpec`: one thread that never waits; a pass over a finite
layout or tree ends (`Terminates`).

### Findings

6. `layout_body`: the grammar lets a meta statement be the body of a function in
   a meta decl, but it contributes as many statements as it exports or holds and
   the reader takes exactly one; the assertion at ASTLayout.cpp:79 fails.
7. `sema_null`: references in the contributed parts of a meta decl are left
   unresolved (BasicASTBuilder.cpp:143), but the analysis visits these parts and
   dereferences the decl of an instantiation in them (SemaAnalysis.cpp:127). A
   meta decl that contributes a function with an instantiation is valid and read
   without an error; with assertions on, compiling it ends in Nullable.hpp:38.

## 6. Diagnostics, MetaDepth and Frontend

### State and control

| TLA+ | Code |
|---|---|
| `occurrence` | `DiagnosticEngine::occurrence_` |
| `builders` | the `DiagnosticBuilder`s alive, with `ownership_` |
| `emitting` | which statements of `diagnose`, `createDiagnosticBuilder` or `syntaxError` are still to run |
| `printed` | calls of `consumeDiagnostic` |
| `rules` | the rules being parsed, with the items each has left |
| `depths` | `metaDepthStack_` |
| `syntaxErrors` | `getNumberOfSyntaxErrors` |
| `parser` | whether the parser runs, is done, or failed an assertion |
| `emitAction` | `emitAction_` |
| `stage` | where `main`, `compileSourceFile`, `translate` and `parse` are |
| `output`, `message` | what was dumped, and what the driver logged instead |

*Diagnostics.* A diagnostic is counted by `createDiagnosticBuilder` and printed by
the destructor of whichever builder owns it last. Where the language lets the
compiler elide a move, the model may move or not (`MoveResult`, at most `MaxMoves`
times). `addRange` and `addFixIt` return the builder as an rvalue: the diagnostic
with a range is returned through it (`ReturnTemporary`), the listener discards it
(`Annotate`).

*MetaDepth.* `Grammar` is a table of rules; an item is an action, a predicate, an
assertion, a rule, a loop, or tokens. Which alternative is taken and how often a
loop iterates is the choice of the source, since tokens are left out; a
predicate restricts it. ANTLR is external: an item that cannot be parsed is
reported unless the parser is recovering already, and then either a token was
repaired or the rule is left, with every action it still had (`Abandoned`). The
token behind `enterDepth` in a meta calculation was seen by the prediction that
chose the rule, so it cannot be missing (`Predicted`).

*Frontend.* Each stage may diagnose what its code diagnoses (`Diagnosed`) and is
left through its gate (`Gate`). While the parser runs, lexer errors come in
between, as tokens are fetched on demand. What the stages do otherwise is the
subject of the other modules. `LeaveCodegen` uses that the code generation
returns true unless there was an error: in `CodegenEngine` the one other way to
return false, a dependency that was not generated, comes behind an error only.

### Run

| Run | Question | Distinct states |
|---|---|---|
| `frontend_all` | one run of the compiler, for every emit action and any errors | 860 000 |

`CountedIsPrinted` is the promise of the move-only builder. `DepthFollowsRules`
says that the stack holds exactly the depths of the rules that entered one, also
in the middle of a recovery: no rule can both enter a depth and fail before it
leaves it, since all the tokens between the two are in rules of their own. Two
mutants write such a block out in place, and unbalance the stack.
`MetaWhereAllowed` is what the predicates are for. Of the depth in a meta decl,
`DepthGlobalScope`, BasicParser.hpp:29 says that "Top level nodes like functions or
meta decls are allowed", but the grammar has no rule for a meta decl there:
`metaScopeNode` takes a `runtimeGlobalScopeNode` in that depth
(GeneratedParser.g4:36-39), and `metaDecl` asserts that it is not in a meta decl
(:58). The model follows the grammar, and no property is about meta decls in meta
decls; that the assertion holds is part of `NoParserAssertion`. `NoParserAssertion` covers the
assertions of the grammar and of `BasicParser`. `VisitsWhatWasParsed` relates the
parser's own error count, which the driver never asks, to that of the diagnostics.
`NothingBehindErrors` and `EndsAccounted` are the gates: nothing is done with what
was rejected, and every run ends with a result or with the reason why not, with
the number of errors that were in fact printed.

Bounds. `MaxIterations` 4 reaches a meta statement inside of a meta block inside
of a meta if inside of a function of a meta decl, which has every depth on the stack above
each depth that can be below it. `MaxSyntaxErrors` 2 and `MaxLexerErrors` 1 give a
second error during and after the recovery from a first, and one of the other
source in between; `MaxDiagnostics` 3 leaves room for these together, and for a
note and a warning beside errors; a builder is moved once more than it must.

Fairness. `FairCompilerSpec`: one thread that never waits. That the parser ends
(`Terminates`) relies on the bound of the iterations, as a source is finite, and
on the recovery leaving a rule, as ANTLR's does.

## 7. What is left out

LLVM (optimiser, verifier, native code) is external: a function is its name
and its references, a module the set of names it defines. The pass manager,
linkage, argument names and debug output are not state the properties depend
on. Verbose flags and the optimisation level change only what is printed and how
the result is optimised. `CodegenBase` and `IRContext` construct types and
prototypes in LLVM's terms and keep no state that outlives a call. Tokens, the
precedence of operators, source locations, ranges, fix-its, hints and similar
names are text, or decided by code ANTLR generates. Dumpers, stringers, name
mangling text and support templates without state are not modelled: mangled names are injective (the instantiation's address is part of
them), which the model uses by identifying a function with its name.

## 8. Proofs

`CodegenEngineProofs` proves, for all sets of functions, meta decls and
instantiations and every program (assuming only that the four kinds of symbols
are disjoint and `Programs` consists of programs):

* `TypeCorrect`: `Spec => []TypeOK`. The lemmas `GotoStack`, `CallStack`,
  `ReturnStack` say what the three stack changes do.
* `ControlCorrect`: `Spec => []ControlInv`, the control part of the inductive
  invariant: each frame that is not innermost is at a call site of the frame
  above it (`CallsNest`), only shipments resolve (`DepsOfShipments`), an idle
  frame has nothing outstanding (`IdleFrame`), an error unwinds
  (`ErrorUnwinds`, `FailedMeansError`).
* `ErrorsStopGeneration`: `Spec => NothingAfterError`, from `ControlInv`.

`CodegenEngineProofs` also proves that the JIT is consistent, under the same
assumptions. Its inductive invariant is `JitInv`, four facts that need each
other: each frame that ships or invokes has its jump pad where it says
(`JumpPadReady`); when a frame invokes, the shipment and the unresolved set are
empty (`InvokeReady`); `DefinedOnce`; and `NoLostReference`, which counts a
dependency that some frame is waiting for as kept.
The invariant is inductive only together with `ControlInv`, since a dependency
under way is found in the frames between a shipment and the top of the stack.

* `SymbolsDefinedOnce`: `Spec => []DefinedOnce`.
* `ReferencesKept`: `Spec => []NoLostReference`.
* `OuterInvokesResolved`: `Spec => []OuterInvokeClosed`: the nested case, which
  `engine_nested` shows to fail, is the only one.

`CodegenOnceProofs` proves, from these two,

* `ConsistentGeneration`: `Spec => []GenerationConsistent`;
* `CompleteAmalgamation`: `Spec => []AmalgamationComplete`;
* `EngineImplementsStore`: `Spec => ImplementsStore`.

Its invariant, `OnceInv`, is about the calls that wait. What a call in progress will
complete is not complete yet (`FrameOk`), however many calls are nested in it: a
body that is being generated cannot be generated by a shipment of an instantiation
it consumes. And what it has consumed stays consumed (`MetaConsumed`, `LinkOk`), so that the
instantiations of a body are evaluated when it is generated, which is the guard of
the step of the store. `SourceOk` and `NeededOk` keep the source map ahead of what can
be asked for. `Queued` is the invariant behind `AmalgamationComplete`: what a body
refers to has a body, is in the worklist, or belongs to a call in progress. The
refinement then goes action by action: each maps to one step of the store or leaves
`bodies`, `instantiations`, `errors` and the outcome alone.

`CodegenOnceProofs` also proves

* `PlainProgramsDoNotFail`: `Spec => []PlainDoesNotFail`.

Its invariant, `PlainInv`, says why the plain programs are those that work: shipments
do not nest in each other (`ShipLast`), since nothing that runs at compile time
instantiates; each symbol is unresolved under one of its two identities and not
asked for again while or after it is resolved (`AskedOnce`); and a shipment with something
unresolved is only open at the top (`OpenAtTop`). With `NoLostReference` the JIT is
closed when a jump pad is invoked.

`LayoutProofs` states what the reader keeps, for every set of names and every source,
and `SemaAnalysisProofs` concludes

* `SemaTyped`: `CheckSpec => []SemaTypeOK`;
* `BuilderAlwaysFollows`: `CheckSpec => []BuilderFollowsReader`;
* `AlwaysReadsAsWritten`: `CheckSpec => []ReadsAsWritten`;
* `ScopedAlwaysAsWritten`: `CheckSpec => []ScopedAsWritten`;
* `DepthIsAlwaysPath`: `CheckSpec => []DepthIsPath`;
* `AcceptsExactly`: `CheckSpec => []AcceptsWhatFits`;
* `NullExactly`: `CheckSpec => []NullOnlyWhereUnresolved`;
* `DependenciesAlwaysResolved`: `CheckSpec => []DependenciesResolved`.

Of a source they assume what both writers ensure (`SourcesAssumption`): a layout is
well written (`WellWritten`) if its markers close what requires one, its last entry
closes the unit and none before it does, units do not nest, and decls other than
arguments have a name. TLC evaluates this on the sources of the runs. Nothing is
assumed of what is between a node and its marker: layouts the reader fails on are among
the sources.

*The reader.* No property says what the modes, the stack and the tree have to do with
each other while a node is half read. `ReaderInv` does, by a function `lv` that gives
each node the level it is read in, and is a function of the tree alone: the edge from
a node to its k-th child determines it (`LevelOf`). With it, `RunningOk` says that
`modes` is what the level of the innermost method asks for, at whatever child it is
(`LevelsOk`); that the stack is a chain of children that are still to be added
(`StackOk`); that the tree has, for each node, the children its production lets it
have, in the order of the layout (`TreeOk`, `Edge`, `Complete`); and that the methods on
the stack that wait for a marker are as many as the layout has opened and not closed
(`MarkersOk`), which is why a reader that is done has read everything. References are
resolved or not by their level only (`RefFits`): this is what makes the
instantiations the analysis dereferences predictable. `ScopesOk` says that the scopes
are those of the running methods that open one, in their order. Since a method keeps
its node, its level and its scope from its entry to its return, each step has to touch
the innermost one only; there is a lemma per action, and `Called`, `CallStep` and
`Returns` are what the calls and returns have in common.

*What was written.* `SpanInv` adds where each node that is read ends: a function `en` in
which each child begins behind the end of the one before it, and the first behind its
parent's entry (`Follows`). `Written`, the recursive definition of what the writer makes
of a tree, is then the segment of the layout from a node to that end (`Spanned`), by
induction from the leaves (`BottomUp`): the children's segments are joined
without a gap, and a marker stands exactly where one is required. For the root this is
`ReadsAsWritten`.

*What names mean.* `ScopedAsWritten` speaks of the whole tree, `BasicASTBuilder` only ever
has the scopes that are open: a name in a scope that was closed is forgotten, and a decl
behind a reference was not met yet, except that those of the unit are crawled before
anything is read. `ScopeInv` (`ScopeProofs`) relates the two by a second function of the
tree, `anc`, the nodes around each node (`LinksOk`, `OpenOk`, `TopsOk`). From it follow the
node whose scope a decl belongs to (`HomeIs`) and what can be seen from where (`Visible`).
Of the decls that were met so far (`Met`) it says:

* the scopes belong to the nodes on the stack that open one, the inner ones behind the
  outer ones (`OwnersOk`), and hold exactly the decls that were met, not refused, and
  have their home there, each name once among all open scopes (`NamesOk`);
* refused are those that conflict with one that was not, and those that hide a name of
  the enclosing unit without being the meta decl that is instantiated (`RefusedOk`);
* the references that were read mean what is visible from them (`RefsOk`). This must also
  be kept by the decls met later: none of them is visible from a reference before it.

When a layout was read, `anc` is what the tree says is around a node (`AroundBelow`), and
`Visible` is `SeenAt` (`SeenRead`). `Accepted` is recursive in the decls and not in the
tree, since those of a unit are seen before they are written: its equation is shown to
have one solution (`AdmittedOnce`), which what was not refused is.

*The analysis.* `PathInv` adds to `DepthIsPath` that the stack of visited nodes is a
sequence of frames; it needs nothing of the reader, as no step of the reader is
enabled while the stack is not empty. `AnalysisInv` is about the nodes that were
visited: those of the frames, and what is below the children a frame is done with. What
has been diagnosed, and whether there was a null dereference, is what the definition of
`AcceptsWhatFits` and `NullOnlyWhereUnresolved` says of these nodes (`Seen`,
`SeenVerdict`); when the stack is empty they are all nodes. `NullExactly` needs that
each node is the child of one parent and was read in its level, and `ContributedLevel`
relates the level to the path above a node, which is what the property is stated with.
`DependenciesAlwaysResolved` compares the traversals `ConsumeAll` and `ConsumeAllMeta`,
two recursive functions, with the modes of the reader, by the same inductions over the
tree (`BottomUp`, `TopDown`, `TreeRecursion`).

`GeneratorProofs` proves about `FunctionCodegen` and `MetaCodegen`, for every tree,

* `WellFormedFunctions`: `Spec => []BlocksWellFormed`;
* `BuilderFollowsBlock`: `Spec => []InsertPointAgrees`;
* `GeneratorsHandOver`: `MetaSpec => []GeneratorsAgree`;
* `GeneratedTypes` and `GeneratedMetaTypes`: `TypeOK` and `MetaTypeOK`.

The two generators share blocks, builder and stack, so they share an invariant,
`GenInv`. While a branch of an if is generated, several blocks are open: the one the
builder is at, the block of each condition (which is closed last), and each continue block
that a branch has created already. No property says who will close them, so none is
inductive. `GenInv` does: an open block is the *position*, which is what the
innermost call was handed or has returned, or is *owned* by exactly one suspended
if (`Owns`, `Apart`), and nobody owns the position (`PositionOk`). Every other block
is closed by its only terminator, and every block but the entry is branched to or
*awaited* by the if that has created it (`BlocksOk`). When the stack is empty nobody
owns or awaits anything, and what is left is `BlocksWellFormed`. `FrameOk` keeps the
parts of `codegenIfStructure` in order: the block of the condition is never the
continue block. The lemmas `ReturnKeeps`, `GotoKeeps` and `CallKeeps`
say once what a change of the stack must bring with it; each action then has a lemma
of its own, for any set of instructions, so that `MetaCodegen`, which adds the
callbacks, reuses those of `FunctionCodegen`.

For `MetaCodegen` the invariant is `GenInv` and `MetaInv`: what `codegenMeta` hands
back is never the null block. That is why a contribution behind a meta if always has
a block to be inserted into, although `codegenIfStructure` may return none: its
branches are contributions, and only a meta block can hold a statement that returns,
which ends in the assertion at MetaCodegen.cpp:116 and nowhere else.

These proofs assume of a tree what its classes ensure (`AST.tla`): the number of
children of each class (`Arity`), that the branches of a meta if are contributions
(`MetaBranches`, AST.hpp:470), that function and meta decl have arguments and a body
(`Root`), and that nodes are numbered in preorder, which only names them
(`Preorder`). TLC evaluates the assumptions on the trees of every run.

`ExprCode` and `Address` are recursive functions, and TLA+ knows of such a function
only that it is *chosen* among those which satisfy the equation. `RecursionExists`
(in `RecursionProofs`) shows that there is one whenever the equation asks for
elements of lower rank only, here children, which come behind their parent in the
numbering. It is proved by applying the least number principle to the set of ranks up
to which the function can be built, since no induction theorem with an operator as
parameter can be used; `RankInduction` is its counterpart for the properties of what
such a function returns.

`FrontendProofs` proves, for every bound, that

* `DiagnosticsPrintedOnce`: `CompilerSpec => []CountedIsPrinted`;
* `EndIsAccounted`: `CompilerSpec => []EndsAccounted`;
* `ErrorsEndTheRun`: `CompilerSpec => NothingBehindErrors`.

The inductive invariant `CompilerInv` (`CompilerCorrect`) has a part for the
diagnostics and one for the driver. `DiagInv`: the youngest builder that is alive
owns the diagnostic and any other one does not (`Owners`), so that moving and
destroying builders keeps the balance of counters and prints. `DriverInv`: in the
stages in which nothing can be diagnosed there is no error, nothing is dumped or
told before the end, and what is told agrees with the counters. The two meet
where a run ends: no stage is left while a builder is alive, so the counters the
gates read are those that were printed.

`FrontendProofs` also proves, for every source and any number of syntax errors,

* `DepthIsThatOfRules`: `CompilerSpec => []DepthFollowsRules`;
* `MetaIsWhereAllowed`: `CompilerSpec => []MetaWhereAllowed`;
* `NoAssertionFails`: `CompilerSpec => []NoParserAssertion`;
* `VisitedIsParsed`: `CompilerSpec => []VisitsWhatWasParsed`;
* `FrontendTypes`: `CompilerSpec => []FrontendTypeOK`.

`ParserInv` says of each rule being parsed (`RuleOk`) what is left of it (`Rests`:
a suffix of one of its alternatives), what may be around it (`AllowedIn`), and, between
a predicate and the rule it guards, what the predicate has told (`Remembered`). The
last is what makes it inductive: the predicate and the call behind it are two steps, and
the call is only safe because nothing can happen between them. `Holding` lists the
rests of the rules that have entered a depth and still are to leave it; the invariant is that
the stack of depths is the one which belongs to the rules so holding (`Stack`). All
that can fail while a rule holds its depth is a rule of its own (`Progressing`), so
the recovery from an error never ends a rule that still is to leave one. `FrontendInv`
adds `CompilerInv`, and that behind the parser there was no syntax error: each one the
parser counts is counted by the diagnostics, too, and the gate asks these.

Model-checked only:

* termination (`PlainTerminates`, `Terminates`), since liveness under fairness is
  out of the prover's reach;
* `RunsAsWritten`, `ExpandsAsWritten`, `StoredBeforeRead`: the first two compare all
  runs of the generated blocks with a recursive definition over the tree, the third
  rests on the same order. For *every* tree this needs the agreement
  of the two at every point of a run, nested as the recursion is, as an invariant;
* `ExportsAsWritten`, which is not true of every layout: it is of those the writers
  produce, in which a meta calculation has one block, and that opens no scope;
* `OnlyDeadCodeFails`, `ReadsAllButMetaBodies`: they are about the trees
  and sources of the runs;
* `NoMetaAssertion`: it depends on how the trees of the runs were chosen (section 4).
