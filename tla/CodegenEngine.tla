--------------------------- MODULE CodegenEngine ---------------------------
(***************************************************************************)
(* The code generation engine of the compiler: CodegenInstance, which      *)
(* generates the functions of the compilation unit into the amalgamation   *)
(* module, and CodeExecutor, which generates meta functions, ships them    *)
(* with everything they call to the JIT, and runs them to instantiate meta *)
(* decls.  The two call each other recursively, so the control state is an *)
(* explicit call stack; the worklists are unordered sets, so the order in  *)
(* which their elements are taken is nondeterministic.                     *)
(*                                                                         *)
(* A failed assertion or llvm_unreachable ends the process: it is a final  *)
(* value of status, named after the check that failed.                     *)
(***************************************************************************)
EXTENDS Naturals, Sequences, FiniteSets

CONSTANTS
  Globals,    \* the FunctionDecls that are children of the compilation unit
  UnitFns,    \* the FunctionDecls of the meta units instantiations produce
  Metas,      \* the MetaDecls of the compilation unit
  Insts,      \* the MetaInstantiationExprs of the program
  None,       \* no function, no instantiation
  Programs    \* the programs of which one is compiled, see ProgramType

Fns == Globals \cup UnitFns

(***************************************************************************)
(* What the engine sees of a program that passed the semantic analysis.    *)
(* An instantiation belongs to the body of one function, or to one meta    *)
(* decl: to its meta blocks and meta if conditions ("metaInsts", what      *)
(* consumeMetaInstantiationsOf finds) or to a meta block inside a branch   *)
(* of a meta if ("branchInsts", what it does not descend into).            *)
(***************************************************************************)
ProgramType ==
  [calls       : [Fns -> SUBSET Fns],
   insts       : [Fns -> SUBSET Insts],
   decl        : [Insts -> Metas],
   exports     : [Insts -> UnitFns \cup {None}],
   metaCalls   : [Metas -> SUBSET Fns],
   metaInsts   : [Metas -> SUBSET Insts],
   branchInsts : [Metas -> SUBSET Insts]]

ASSUME SymbolsAssumption ==
  /\ Globals \cap UnitFns = {}
  /\ Fns \cap Metas = {} /\ Fns \cap Insts = {} /\ Metas \cap Insts = {}
  /\ None \notin Fns \cup Metas \cup Insts

ASSUME ProgramsAssumption == Programs \subseteq ProgramType

VARIABLES
  prog,            \* the program being compiled
  dependencies,    \* CodegenInstance::dependencies_
  functionSource,  \* keys of CodegenInstance::functionSource_: the functions
                   \* of which the amalgamation has at least a prototype
  bodies,          \* the functions the amalgamation has a body of
  generation,      \* CodegenInstance::currentGeneration_
  available,       \* CodeExecutor::availableSymbols_
  unresolved,      \* CodeExecutor::unresolvedDependencies_
  shipment,        \* the symbols CodeExecutor::shipment_ defines
  jit,             \* the symbols of the modules given to the JIT
  instantiations,  \* keys of CodeExecutor::instantiations_
  errors,          \* DiagnosticEngine::hasErrors
  stack,           \* the active calls, the innermost last
  ret,             \* what the call that has just ended returned
  status           \* "running", or how the generation ended

vars == <<prog, dependencies, functionSource, bodies, generation, available,
          unresolved, shipment, jit, instantiations, errors, stack, ret, status>>

amalgamation == <<dependencies, functionSource, bodies, generation>>
executor     == <<available, unresolved, shipment, jit, instantiations>>

(***************************************************************************)
(* The symbols a generated symbol refers to.                               *)
(***************************************************************************)
\* Mutant: a meta unit without export is not told from one with
ExportsOrNull(is) == {prog.exports[i] : i \in is}

ExportsOf(is) == {prog.exports[i] : i \in is} \ {None}

FnRefs(f)   == prog.calls[f] \cup ExportsOf(prog.insts[f])
UsedInsts(m) == prog.metaInsts[m] \cup prog.branchInsts[m]
MetaRefs(m) == prog.metaCalls[m] \cup ExportsOf(UsedInsts(m))

Refs(s) == IF s \in Fns THEN FnRefs(s)
           ELSE IF s \in Metas THEN MetaRefs(s)
           ELSE {prog.decl[s]}

JitClosed == \A s \in jit : Refs(s) \subseteq jit

(***************************************************************************)
(* Calls.  Every frame that is not the innermost waits for the call it     *)
(* made; ret hands the result of a call to the frame that made it.         *)
(***************************************************************************)
FnPCs   == {"codegen", "consume", "generate"}
InstPCs == {"instantiate", "consumeMeta", "jumpPad", "ship", "invoke"}

FnFrame   == [pc : FnPCs, fn : Fns, inst : Insts \cup {None},
              todo : SUBSET Insts, dep : {None}]
InstFrame == [pc : InstPCs, fn : {None}, inst : Insts,
              todo : SUBSET Insts, dep : Fns \cup {None}]
Frame == FnFrame \cup InstFrame

CodegenOf(f) ==
  [pc |-> "codegen", fn |-> f, inst |-> None, todo |-> {}, dep |-> None]
InstantiateOf(i) ==
  [pc |-> "instantiate", fn |-> None, inst |-> i, todo |-> {}, dep |-> None]

Top     == stack[Len(stack)]
At(pc)  == status = "running" /\ stack # << >> /\ Top.pc = pc
Idle(pc) == At(pc) /\ ret = "none"

Goto(frame)       == stack' = [stack EXCEPT ![Len(stack)] = frame]
Call(frame, next) == stack' = Append([stack EXCEPT ![Len(stack)] = frame], next)
Return(result) ==
  /\ stack' = SubSeq(stack, 1, Len(stack) - 1)
  /\ ret' = result

\* assert: the process ends when it does not hold
Check(condition, failure) == status' = IF condition THEN status ELSE failure

Failures ==
  {"cycleDetected", "functionNotEmpty", "notInSourceMap", "notCompleted",
   "notExported", "pulledDeclaration", "availableAlready", "cachedAlready",
   "unresolvedExternal"}
Statuses == {"running", "generated", "failed"} \cup Failures

Init ==
  /\ prog \in Programs
  /\ dependencies = Globals \cup Metas
  /\ functionSource = {} /\ bodies = {} /\ generation = {}
  /\ available = {} /\ unresolved = {} /\ shipment = {} /\ jit = {}
  /\ instantiations = {}
  /\ errors = FALSE
  /\ stack = << >> /\ ret = "none" /\ status = "running"

(***************************************************************************)
(* CodegenInstance::codegen(CompilationUnit): the worklist.                *)
(***************************************************************************)
\* Mutant: the popped dependency stays in the worklist
PeekDependency ==
  /\ status = "running" /\ stack = << >> /\ ret = "none"
  /\ \E d \in dependencies : stack' = IF d \in Fns THEN <<CodegenOf(d)>> ELSE << >>
  /\ UNCHANGED <<prog, amalgamation, executor, errors, ret, status>>

PopDependency ==
  /\ status = "running" /\ stack = << >> /\ ret = "none"
  /\ \E d \in dependencies :
       /\ dependencies' = dependencies \ {d}
       /\ stack' = IF d \in Fns THEN <<CodegenOf(d)>> ELSE << >>
  /\ UNCHANGED <<prog, functionSource, bodies, generation, executor, errors, ret, status>>

DependencyReturned ==
  /\ status = "running" /\ stack = << >> /\ ret # "none"
  /\ ret' = "none"
  /\ status' = IF ret = "ok" THEN "running" ELSE "failed"
  /\ UNCHANGED <<prog, amalgamation, executor, errors, stack>>

FinishGeneration ==
  /\ status = "running" /\ stack = << >> /\ ret = "none"
  /\ dependencies = {}
  /\ status' = "generated"
  /\ UNCHANGED <<prog, amalgamation, executor, errors, stack, ret>>

(***************************************************************************)
(* CodegenInstance::lookupGlobal on the functions fs, when those of        *)
(* "generated" have a body.                                                *)
(***************************************************************************)
\* Mutant: a prototype is created, but its body is not queued
CreatePrototypes(fs, generated) ==
  /\ functionSource' = functionSource \cup fs
  /\ UNCHANGED dependencies

LookupGlobals(fs, generated) ==
  /\ functionSource' = functionSource \cup fs
  /\ dependencies' = dependencies \cup (fs \ generated)

(***************************************************************************)
(* CodegenInstance::codegen(FunctionDecl).                                 *)
(***************************************************************************)
\* Mutant: the body is generated whether or not there is one already
EnterFunctionAgain ==
  /\ Idle("codegen")
  /\ LookupGlobals({Top.fn}, bodies)
  /\ Goto([Top EXCEPT !.pc = "consume", !.todo = prog.insts[Top.fn]])
  /\ UNCHANGED <<prog, bodies, generation, executor, errors, ret, status>>

\* Mutant: the instantiations of the body are not consumed
EnterFunctionOnly ==
  /\ Idle("codegen")
  /\ LookupGlobals({Top.fn}, bodies)
  /\ IF Top.fn \in bodies
     THEN Return("ok")
     ELSE Goto([Top EXCEPT !.pc = "consume"]) /\ UNCHANGED ret
  /\ UNCHANGED <<prog, bodies, generation, executor, errors, status>>

EnterFunction ==
  /\ Idle("codegen")
  /\ LET f == Top.fn IN
     /\ LookupGlobals({f}, bodies)
     /\ IF f \in bodies
        THEN Return("ok")
        ELSE /\ Goto([Top EXCEPT !.pc = "consume", !.todo = prog.insts[f]])
             /\ UNCHANGED ret
  /\ UNCHANGED <<prog, bodies, generation, executor, errors, status>>

\* The next instantiation in the body of the function
ConsumeInstantiation ==
  /\ Idle("consume")
  /\ \E i \in Top.todo :
       Call([Top EXCEPT !.todo = @ \ {i}, !.inst = i], InstantiateOf(i))
  /\ UNCHANGED <<prog, amalgamation, executor, errors, ret, status>>

\* CodegenInstance::instantiate and lookupGlobal on its result: a meta unit
\* that exports nothing is an error, and an error stops the consumption
InstantiationConsumed ==
  /\ At("consume") /\ Top.inst # None /\ ret # "none"
  /\ LET exported == ExportsOf({Top.inst})
         consumed == ret = "ok" /\ exported # {}
     IN /\ LookupGlobals(IF consumed THEN exported ELSE {}, bodies)
        /\ errors' = (errors \/ (ret = "ok" /\ exported = {}))
        /\ Goto([Top EXCEPT !.inst = None, !.todo = IF consumed THEN @ ELSE {}])
  /\ ret' = "none"
  /\ UNCHANGED <<prog, bodies, generation, executor, status>>

\* Mutant: canContinue is not asked
EnterGenerationAnyway ==
  /\ Idle("consume") /\ Top.todo = {}
  /\ Check(Top.fn \notin generation, "cycleDetected")
  /\ generation' = generation \cup {Top.fn}
  /\ Goto([Top EXCEPT !.pc = "generate"])
  /\ UNCHANGED <<prog, dependencies, functionSource, bodies, executor, errors, ret>>

\* canContinue and enterGeneration
EnterGeneration ==
  /\ Idle("consume") /\ Top.todo = {}
  /\ IF errors
     THEN /\ Return("fail")
          /\ UNCHANGED <<generation, status>>
     ELSE /\ Check(Top.fn \notin generation, "cycleDetected")
          /\ generation' = generation \cup {Top.fn}
          /\ Goto([Top EXCEPT !.pc = "generate"])
          /\ UNCHANGED ret
  /\ UNCHANGED <<prog, dependencies, functionSource, bodies, executor, errors>>

\* FunctionCodegen on the body, as far as it concerns global symbols.  The
\* entry block exists before the first lookup: the function itself is no
\* declaration any more.
GenerateFunction ==
  /\ Idle("generate")
  /\ LET f == Top.fn IN
     /\ Check(f \notin bodies, "functionNotEmpty")
     /\ bodies' = bodies \cup {f}
     /\ LookupGlobals(FnRefs(f), bodies \cup {f})
     /\ generation' = generation \ {f}
  /\ Return("ok")
  /\ UNCHANGED <<prog, executor, errors>>

(***************************************************************************)
(* CodeExecutor::instantiate and CodeExecutor::codegen(MetaDecl).          *)
(***************************************************************************)
EnterInstantiate ==
  /\ Idle("instantiate")
  /\ LET i == Top.inst
         m == prog.decl[i]
     IN IF i \in instantiations
        THEN Return("ok")
        ELSE /\ IF m \in available
                THEN Goto([Top EXCEPT !.pc = "jumpPad"])
                ELSE Goto([Top EXCEPT !.pc = "consumeMeta",
                                      !.todo = prog.metaInsts[m]])
             /\ UNCHANGED ret
  /\ UNCHANGED <<prog, amalgamation, executor, errors, status>>

\* The next instantiation the meta decl itself depends on
ConsumeMetaInstantiation ==
  /\ Idle("consumeMeta")
  /\ \E i \in Top.todo : Call([Top EXCEPT !.todo = @ \ {i}], InstantiateOf(i))
  /\ UNCHANGED <<prog, amalgamation, executor, errors, ret, status>>

MetaInstantiationConsumed ==
  /\ At("consumeMeta") /\ ret # "none"
  /\ Goto([Top EXCEPT !.todo = IF ret = "ok" THEN @ ELSE {}])
  /\ ret' = "none"
  /\ UNCHANGED <<prog, amalgamation, executor, errors, status>>

\* The meta function may have been generated while its dependencies were
MetaDependenciesConsumed ==
  /\ Idle("consumeMeta") /\ Top.todo = {}
  /\ errors \/ prog.decl[Top.inst] \in available
  /\ IF errors THEN Return("fail")
               ELSE Goto([Top EXCEPT !.pc = "jumpPad"]) /\ UNCHANGED ret
  /\ UNCHANGED <<prog, amalgamation, executor, errors, status>>

\* CodegenInstance::instantiate on what a meta decl uses, which must be completed
\* by now.  One that exports nothing is diagnosed, and then the assertion fails
\* that it was resolved before the generation
RequireExports(is) ==
  \/ /\ \A i \in is : i \in instantiations /\ prog.exports[i] # None
     /\ UNCHANGED <<errors, status>>
  \/ /\ \E i \in is : i \notin instantiations
     /\ status' = "notCompleted"
     /\ UNCHANGED errors
  \/ /\ \E i \in is : i \in instantiations /\ prog.exports[i] = None
     /\ status' = "notExported"
     /\ errors' = TRUE

\* MetaCodegen on the meta decl.  Each function it calls that the JIT does
\* not have is to be resolved: as a decl when the program names it, as an
\* llvm::Function when it is what an instantiation exported.
GenerateMetaFunction ==
  /\ Idle("consumeMeta") /\ Top.todo = {}
  /\ ~errors /\ prog.decl[Top.inst] \notin available
  /\ LET m        == prog.decl[Top.inst]
         exported == ExportsOf(UsedInsts(m))
     IN /\ available' = available \cup {m}
        /\ shipment' = shipment \cup {m}
        /\ unresolved' = unresolved
              \cup {<<"decl", f>> : f \in prog.metaCalls[m] \ available}
              \cup {<<"function", f>> : f \in exported \ available}
        /\ LookupGlobals(exported, bodies)
        /\ RequireExports(UsedInsts(m))
  /\ Goto([Top EXCEPT !.pc = "jumpPad"])
  /\ UNCHANGED <<prog, bodies, generation, jit, instantiations, ret>>

CreateJumpPad ==
  /\ Idle("jumpPad")
  /\ shipment' = shipment \cup {Top.inst}
  /\ Goto([Top EXCEPT !.pc = "ship"])
  /\ UNCHANGED <<prog, amalgamation, available, unresolved, jit, instantiations,
                 errors, ret, status>>

(***************************************************************************)
(* CodeExecutor::shipToJIT, resolveDependencies and pull.                  *)
(***************************************************************************)
\* Mutant: one dependency is taken out, the others are dropped with it
ResolveOneDependency ==
  /\ Idle("ship")
  /\ \E u \in unresolved : Call([Top EXCEPT !.dep = u[2]], CodegenOf(u[2]))
  /\ unresolved' = {}
  /\ UNCHANGED <<prog, amalgamation, available, shipment, jit, instantiations,
                 errors, ret, status>>

\* Mutant: the dependency is resolved but not erased
ResolveAgain ==
  /\ Idle("ship")
  /\ \E u \in unresolved : Call([Top EXCEPT !.dep = u[2]], CodegenOf(u[2]))
  /\ UNCHANGED <<prog, amalgamation, executor, errors, ret, status>>

ResolveDependency ==
  /\ Idle("ship")
  /\ \E u \in unresolved :
       /\ unresolved' = unresolved \ {u}
       /\ Check(u[1] = "decl" \/ u[2] \in functionSource, "notInSourceMap")
       /\ Call([Top EXCEPT !.dep = u[2]], CodegenOf(u[2]))
  /\ UNCHANGED <<prog, amalgamation, available, shipment, jit, instantiations, errors, ret>>

DependencyNotResolved ==
  /\ Return("fail")
  /\ UNCHANGED <<prog, amalgamation, executor, errors, status>>

\* The function is cloned into the shipment with a prototype for each function
\* it refers to; those not available yet are unresolved in turn
Pull ==
  /\ LET f == Top.dep IN
     /\ available' = available \cup {f}
     /\ shipment' = shipment \cup {f}
     /\ unresolved' = unresolved
           \cup {<<"function", g>> : g \in FnRefs(f) \ (available \cup {f})}
     /\ IF f \in bodies THEN Check(f \notin available, "availableAlready")
                        ELSE status' = "pulledDeclaration"
  /\ Goto([Top EXCEPT !.dep = None])
  /\ ret' = "none"
  /\ UNCHANGED <<prog, amalgamation, jit, instantiations, errors>>

\* The call that resolves a dependency has ended.  (It fails only in theory: an
\* error takes an instantiation inside that call, which ships the reference to
\* the dependency unresolved and so ends the process, see ShippedResolved.)
DependencyResolved ==
  /\ At("ship") /\ Top.dep # None /\ ret # "none"
  /\ IF ret = "ok" THEN Pull ELSE DependencyNotResolved

\* Mutant: the shipment is transferred before its dependencies are resolved
ShipUnresolved ==
  /\ Idle("ship")
  /\ jit' = jit \cup shipment
  /\ shipment' = {}
  /\ Goto([Top EXCEPT !.pc = "invoke"])
  /\ UNCHANGED <<prog, amalgamation, available, unresolved, instantiations, errors,
                 ret, status>>

\* Mutant: the next shipment starts with the symbols of the last
ShipAndKeep ==
  /\ Idle("ship")
  /\ unresolved = {}
  /\ jit' = jit \cup shipment
  /\ Goto([Top EXCEPT !.pc = "invoke"])
  /\ UNCHANGED <<prog, amalgamation, available, unresolved, shipment, instantiations,
                 errors, ret, status>>

ShipToJIT ==
  /\ Idle("ship")
  /\ unresolved = {}
  /\ jit' = jit \cup shipment
  /\ shipment' = {}
  /\ Goto([Top EXCEPT !.pc = "invoke"])
  /\ UNCHANGED <<prog, amalgamation, available, unresolved, instantiations, errors,
                 ret, status>>

(***************************************************************************)
(* The jump pad runs; its layout is read into a meta unit, which is        *)
(* checked.  The reader and the semantic analysis may diagnose errors.     *)
(* Calling into a JIT that cannot resolve a symbol ends the process.       *)
(***************************************************************************)
Invoke ==
  /\ Idle("invoke")
  /\ LET i == Top.inst IN
     \E diagnosed \in BOOLEAN :
       /\ errors' = (errors \/ diagnosed)
       /\ IF errors' THEN /\ Return("fail")
                          /\ UNCHANGED instantiations
                     ELSE /\ Return("ok")
                          /\ instantiations' = instantiations \cup {i}
       /\ IF JitClosed THEN Check(errors' \/ i \notin instantiations, "cachedAlready")
                       ELSE status' = "unresolvedExternal"
  /\ UNCHANGED <<prog, amalgamation, available, unresolved, shipment, jit>>

Ended == status # "running" /\ UNCHANGED vars

Next ==
  \/ PopDependency \/ DependencyReturned \/ FinishGeneration
  \/ EnterFunction \/ ConsumeInstantiation \/ InstantiationConsumed
  \/ EnterGeneration \/ GenerateFunction
  \/ EnterInstantiate \/ ConsumeMetaInstantiation \/ MetaInstantiationConsumed
  \/ MetaDependenciesConsumed \/ GenerateMetaFunction \/ CreateJumpPad
  \/ ResolveDependency \/ DependencyResolved \/ ShipToJIT \/ Invoke
  \/ Ended

Spec == Init /\ [][Next]_vars

\* One thread runs the compiler and never waits for another
FairSpec == Spec /\ WF_vars(Next)

(***************************************************************************)
(* Properties.                                                             *)
(***************************************************************************)
\* Every variable has its type
TypeOK ==
  /\ prog \in ProgramType
  /\ dependencies \subseteq Fns \cup Metas
  /\ functionSource \subseteq Fns /\ bodies \subseteq Fns /\ generation \subseteq Fns
  /\ available \subseteq Fns \cup Metas
  /\ unresolved \subseteq {"decl", "function"} \X Fns
  /\ shipment \subseteq Fns \cup Metas \cup Insts
  /\ jit \subseteq Fns \cup Metas \cup Insts
  /\ instantiations \subseteq Insts
  /\ errors \in BOOLEAN
  /\ stack \in Seq(Frame)
  /\ ret \in {"none", "ok", "fail"}
  /\ status \in Statuses

Running == status = "running"

\* The shipments that wait until one of their dependencies is generated
Resolving == {stack[k].dep : k \in 1 .. Len(stack)} \ {None}

\* availableSymbols_ names exactly the functions and meta functions that the
\* JIT or the open shipment defines, and no function is shipped twice
\* (CodeExecutor.hpp:51, setGlobalAsResolved)
DefinedOnce ==
  Running =>
    /\ available = (shipment \cup jit) \cap (Fns \cup Metas)
    /\ shipment \cap jit \cap (Fns \cup Metas) = {}

\* The "differential set": whatever a shipped or still open module refers to
\* is available, is queued as unresolved, or is being generated for a shipment
\* that waits for it; no reference is forgotten across the nested calls
\* (CodeExecutor::lookupGlobal, pull and resolveDependencies)
NoLostReference ==
  (Running /\ ~errors) =>
    \A s \in shipment \cup jit :
      Refs(s) \subseteq available \cup {u[2] : u \in unresolved} \cup Resolving

\* When a jump pad is invoked and no other shipment is waiting, everything
\* the modules in the JIT refer to is in the JIT (CodeExecutor.hpp:53-54)
OuterInvokeClosed ==
  (Idle("invoke") /\ Resolving = {}) => JitClosed

\* Whatever ends up in the JIT was completely generated before: only complete
\* functions are pulled, and those the source map knows; no jump pad and no
\* body is generated a second time, however the calls nest
GenerationConsistent ==
  status \notin {"functionNotEmpty", "notInSourceMap", "pulledDeclaration",
                 "cachedAlready"}

\* When the generation succeeds the amalgamation is complete: it has a body
\* for each global function and for each function a body refers to, although
\* bodies were generated both from the worklist and on demand of the JIT
AmalgamationComplete ==
  status = "generated" =>
    /\ ~errors
    /\ Globals \subseteq bodies
    /\ \A f \in bodies : FnRefs(f) \subseteq bodies

\* Once an error was diagnosed the calls only unwind: nothing is generated,
\* pulled, shipped, run or cached any more (the canContinue checks)
NothingAfterError == [][errors => UNCHANGED <<bodies, executor>>]_vars

\* The generation of every program ends, whatever the order of the worklists
Terminates == <>(status # "running")

(***************************************************************************)
(* The promise of both classes together.  A failed check is an abort.      *)
(***************************************************************************)
Store == INSTANCE InstantiationStore WITH
  Functions      <- Fns,
  Instantiations <- Insts,
  needs          <- prog.insts,
  loaded         <- jit \cap Insts,
  evaluated      <- instantiations,
  generated      <- bodies,
  failed         <- errors,
  outcome        <- IF status \in Failures THEN "aborted" ELSE status

\* The engine implements the store: nested or not, each instantiation is run
\* once and each function generated once and in time, and only errors fail it
ImplementsStore == Store!Spec

(***************************************************************************)
(* The programs the engine supports.                                       *)
(***************************************************************************)
\* All functions that may run at compile time in p are in C
RunAtCompileTime(p, C) ==
  /\ \A m \in Metas :
       p.metaCalls[m] \cup ({p.exports[i] : i \in p.metaInsts[m]} \ {None}) \subseteq C
  /\ \A f \in C : p.calls[f] \subseteq C

\* Nothing is instantiated in a branch of a meta if, by a function that runs at
\* compile time, or in a meta block without export; a function a meta block calls
\* by name is global and not called by another function that runs at compile time
PlainWith(p, C) ==
  /\ RunAtCompileTime(p, C)
  /\ \A f \in C : p.insts[f] = {}
  /\ \A m \in Metas :
       /\ p.branchInsts[m] = {}
       /\ \A i \in p.metaInsts[m] : p.exports[i] # None
       /\ \A g \in p.metaCalls[m] : g \in Globals /\ \A f \in C \ {g} : g \notin p.calls[f]

Plain(p) == \E C \in SUBSET Fns : PlainWith(p, C)

\* No assertion fails and no symbol is unresolved in the JIT
NoFailure == status \notin Failures

\* Of the programs the engine supports: none of the checks of the two classes
\* fails, whatever the order in which the worklists are taken.  It does not hold for
\* the classes of programs of the last three properties below, and two more:
\* - a meta block uses an instantiation without export (see RequireExports);
\* - a function that a meta block calls by name is pulled by another function, too:
\*   the set of unresolved entities has it as a FunctionDecl and as an
\*   llvm::Function, both are resolved, and "The symbol shouldn't be available yet!"
\*   fails (CodeExecutor.cpp:419)
PlainDoesNotFail == NoFailure \/ ~Plain(prog)

(***************************************************************************)
(* What makes them inductive: how calls nest, and what holds at the points *)
(* of a call that the next step relies on.                                 *)
(***************************************************************************)
\* f waits for the call g it has made
Awaits(f, g) ==
  \/ f.pc = "consume" /\ f.inst # None /\ g.fn = None /\ g.inst = f.inst
  \/ f.pc = "consumeMeta" /\ g.fn = None
  \/ f.pc = "ship" /\ f.dep # None /\ g.fn = f.dep

CallsNest == \A k \in 1 .. Len(stack) - 1 : Awaits(stack[k], stack[k+1])

\* Only a shipment resolves a dependency
DepsOfShipments == \A k \in 1 .. Len(stack) : stack[k].pc # "ship" => stack[k].dep = None

\* A frame that is not waiting has neither a dependency nor an instantiation
\* outstanding
IdleFrame ==
  (stack # << >> /\ ret = "none")
    => Top.dep = None /\ (Top.pc \in FnPCs => Top.inst = None)

\* An error unwinds: the innermost call has failed or is about to
ErrorUnwinds ==
  (Running /\ errors) =>
    \/ ret = "fail"
    \/ /\ stack # << >> /\ ret = "none"
       /\ Top.pc \in {"consume", "consumeMeta"} /\ Top.todo = {}

FailedMeansError == ret = "fail" => errors

ControlInv ==
  CallsNest /\ DepsOfShipments /\ IdleFrame /\ ErrorUnwinds /\ FailedMeansError

JumpPadReady == At("jumpPad") => prog.decl[Top.inst] \in available
InvokeReady  == At("invoke") => shipment = {} /\ unresolved = {}

JitInv == JumpPadReady /\ InvokeReady /\ DefinedOnce /\ NoLostReference

\* What a call in progress f completes is not complete, and what it has consumed
\* is: no call nested in it completes it first
FrameOk(f) ==
  /\ f.pc \in {"consume", "generate"} => f.fn \in functionSource \ bodies
  /\ f.pc \in InstPCs \ {"instantiate"} => f.inst \notin instantiations
  /\ f.pc = "consumeMeta" => prog.decl[f.inst] \notin available
  /\ f.pc \in {"jumpPad", "ship", "invoke"} => prog.decl[f.inst] \in available
  /\ f.pc \in {"ship", "invoke"} => f.inst \in shipment \cup jit
  /\ f.pc = "consume" =>
       /\ f.todo \subseteq prog.insts[f.fn]
       /\ f.inst # None => f.inst \in prog.insts[f.fn]
       /\ ~errors => prog.insts[f.fn] \ (f.todo \cup {f.inst}) \subseteq instantiations
  /\ f.pc = "generate" /\ ~errors => prog.insts[f.fn] \subseteq instantiations
  /\ f.pc = "consumeMeta" => f.todo \subseteq prog.metaInsts[prog.decl[f.inst]]

\* f has consumed what its meta decl depends on, but for what is left and for is
MetaConsumed(f, is) ==
  f.pc = "consumeMeta" /\ ~errors =>
    prog.metaInsts[prog.decl[f.inst]] \ (f.todo \cup is) \subseteq instantiations

\* The call of g is one that f still has to consume
LinkOk(f, g) ==
  /\ MetaConsumed(f, {g.inst})
  /\ f.pc = "consumeMeta" => g.inst \in prog.metaInsts[prog.decl[f.inst]]

\* A call that returned ok has completed what it was for
TopOk ==
  stack # << >> =>
    /\ MetaConsumed(Top, {})
    /\ ret = "ok" /\ Top.pc = "consume" => Top.inst \in instantiations
    /\ ret = "ok" /\ Top.pc = "ship" => Top.dep \in bodies

\* What is unresolved or resolved is referred to by what is shipped
Needed(g) == \E s \in shipment \cup jit : g \in Refs(s)
NeededOk == (\A u \in unresolved : Needed(u[2])) /\ (\A g \in Resolving : Needed(g))

\* What can be asked for is in the source map, and what was pulled has a body
SourceOk ==
  /\ bodies \subseteq functionSource
  /\ \A f \in bodies : FnRefs(f) \subseteq functionSource
  /\ \A u \in unresolved : u[1] = "function" => u[2] \in functionSource
  /\ available \cap Fns \subseteq bodies

OnceInv ==
  Running =>
    /\ \A k \in 1 .. Len(stack) : FrameOk(stack[k])
    /\ \A k \in 1 .. Len(stack) - 1 : LinkOk(stack[k], stack[k+1])
    /\ TopOk /\ NeededOk /\ SourceOk

\* What a body refers to has a body, is queued, or is about to get one
Queued ==
  (Running /\ ~errors) =>
    Globals \cup UNION {FnRefs(g) : g \in bodies}
      \subseteq bodies \cup dependencies \cup {stack[k].fn : k \in 1 .. Len(stack)}

\* Only the innermost call is in the middle of generating a body
GenerationLast ==
  Running => generation \subseteq {f \in Fns : At("generate") /\ f = Top.fn}

\* While the calls of a plain program resolve a dependency they do not nest, and
\* what is or was asked for is asked for once, under one of its two identities
ShipLast == \A k \in 1 .. Len(stack) - 1 : stack[k].pc = "ship" => k = Len(stack) - 1

AskedOnce(C) ==
  /\ \A u \in unresolved :
       /\ u[2] \in C \ available /\ u[2] \notin Resolving
       /\ u[1] = "decl" => u[2] \in UNION {prog.metaCalls[m] : m \in Metas}
  /\ \A u, v \in unresolved : u[2] = v[2] => u = v
  /\ Resolving \subseteq C \ available

\* A shipment is open only while its jump pad is about to be shipped
OpenAtTop ==
  unresolved # {} => stack # << >> /\ (Top.pc \in {"jumpPad", "ship"} \/ Resolving # {})

PlainInv ==
  /\ GenerationLast
  /\ \A C \in SUBSET Fns :
       PlainWith(prog, C) /\ Running /\ ~errors => ShipLast /\ AskedOnce(C) /\ OpenAtTop

(***************************************************************************)
(* What the engine does not keep.                                          *)
(***************************************************************************)
\* "Expected the instantiated to be completed before!" (CodeExecutor.cpp:300)
InstantiationsCompleted == status # "notCompleted"

\* Unresolved entities "need to be resolved before the shipment can be
\* successfully transferred to the JIT" (CodeExecutor.hpp:53)
ShippedResolved == Idle("invoke") => JitClosed

\* A function whose generation needs its own code is a strong cycle, which
\* enterGeneration detects (CodegenInstance.hpp:107, CodegenInstance.cpp:176)
CycleIsDetected ==
  Running =>
    \A k, l \in 1 .. Len(stack) :
      (k < l /\ stack[k].fn # None /\ stack[k].fn = stack[l].fn)
        => stack[l].pc = "codegen"
=============================================================================
