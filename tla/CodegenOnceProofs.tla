-------------------------- MODULE CodegenOnceProofs --------------------------
(***************************************************************************)
(* The engine completes what it promises, for every program: nothing is    *)
(* generated or cached twice however the calls nest, the amalgamation is   *)
(* complete at the end, the two classes together implement the store, and  *)
(* every plain program is supported.                                       *)
(***************************************************************************)
EXTENDS CodegenEngineProofs

StackOk ==
  /\ \A k \in 1 .. Len(stack) : FrameOk(stack[k])
  /\ \A k \in 1 .. Len(stack) - 1 : LinkOk(stack[k], stack[k+1])

\* The calls below the innermost one are as they should be after the step, too
Kept ==
  \A f : (\E k \in 1 .. Len(stack) - 1 : f = stack[k]) => FrameOk(f)'

\* What only grows in every step
Grows ==
  /\ prog' = prog /\ (errors => errors')
  /\ bodies \subseteq bodies' /\ instantiations \subseteq instantiations'
  /\ functionSource \subseteq functionSource'

\* A step that completes nothing
Advances ==
  /\ Grows /\ bodies' = bodies /\ instantiations' = instantiations
  /\ available \subseteq available' /\ available' \cap Metas = available \cap Metas
  /\ shipment \cup jit \subseteq shipment' \cup jit'

\* A step that completes nothing does not concern the calls that wait
LEMMA FrameKept ==
  ASSUME TypeOK, Advances, NEW f \in Frame, FrameOk(f)
  PROVE  FrameOk(f)'
  <1>1. f.pc \in InstPCs => prog.decl[f.inst] \in Metas
    BY ProgramTypes, FrameKind DEF InstFrame
  <1> QED
    BY <1>1 DEF FrameOk, Advances, Grows, InstPCs

LEMMA AdvanceKeeps == ASSUME TypeOK, StackOk, Advances PROVE Kept
  <1> SUFFICES ASSUME NEW f, NEW k \in 1 .. Len(stack) - 1, f = stack[k]
               PROVE  FrameOk(f)'
    BY DEF Kept
  <1>1. k \in 1 .. Len(stack) /\ stack[k] \in Frame
    BY FramesTyped
  <1>2. FrameOk(f)
    BY <1>1 DEF StackOk, FrameOk
  <1> QED
    BY <1>1, <1>2, FrameKept

\* Consumed instantiations stay consumed
LEMMA LinkKept ==
  ASSUME Grows, NEW f, NEW g, NEW h, LinkOk(f, g), h.inst = g.inst
  PROVE  LinkOk(f, h)'
  BY DEF LinkOk, MetaConsumed, Grows

\* The three changes of the stack keep what the calls know
LEMMA GotoOk ==
  ASSUME TypeOK, CallsNest, StackOk, stack # << >>, NEW e \in Frame, Goto(e),
         e.fn = Top.fn, e.fn = None => e.inst = Top.inst,
         Kept, Grows, FrameOk(e)', MetaConsumed(e, {})', ret' = "none"
  PROVE  StackOk' /\ TopOk'
  <1>1. /\ stack' \in Seq(Frame) /\ Len(stack') = Len(stack) /\ Len(stack) \in Nat \ {0}
        /\ stack'[Len(stack)] = e
        /\ \A k \in 1 .. Len(stack) - 1 : stack'[k] = stack[k]
    BY FramesTyped, GotoStack DEF Goto
  <1>2. ASSUME NEW k \in 1 .. Len(stack) PROVE FrameOk(stack[k])'
    <2>1. CASE k = Len(stack)
      BY <1>1, <2>1 DEF FrameOk
    <2>2. CASE k # Len(stack)
      <3>1. PICK f : f = stack[k]
        OBVIOUS
      <3>2. k \in 1 .. Len(stack) - 1 /\ stack'[k] = f
        BY <1>1, <2>2, <3>1
      <3>3. FrameOk(f)'
        BY <3>1, <3>2 DEF Kept
      <3> QED
        BY <3>2, <3>3 DEF FrameOk
    <2> QED
      BY <2>1, <2>2
  <1>3. ASSUME NEW k \in 1 .. Len(stack) - 1 PROVE LinkOk(stack[k], stack[k+1])'
    <2>1. PICK f, g, h : f = stack[k] /\ g = stack[k+1] /\ h = stack'[k+1]
      OBVIOUS
    <2>2. LinkOk(f, g) /\ Awaits(f, g) /\ stack'[k] = f
      BY <1>1, <2>1 DEF StackOk, CallsNest, LinkOk, MetaConsumed, Awaits
    <2>3. f.pc = "consumeMeta" => h.inst = g.inst
      <3>1. CASE k + 1 = Len(stack)
        BY <1>1, <2>1, <2>2, <3>1 DEF Top, Awaits
      <3>2. CASE k + 1 # Len(stack)
        BY <1>1, <2>1, <3>2
      <3> QED
        BY <3>1, <3>2
    <2>4. LinkOk(f, h)'
      BY <2>2, <2>3, LinkKept DEF LinkOk, MetaConsumed
    <2> QED
      BY <2>1, <2>2, <2>4 DEF LinkOk, MetaConsumed
  <1>4. TopOk'
    <2>1. Top' = e
      BY <1>1 DEF Top
    <2> QED
      BY <2>1 DEF TopOk, MetaConsumed
  <1> QED
    BY <1>1, <1>2, <1>3, <1>4 DEF StackOk

LEMMA CallOk ==
  ASSUME TypeOK, CallsNest, StackOk, stack # << >>, NEW e \in Frame, NEW n \in Frame,
         Call(e, n), e.fn = Top.fn, e.fn = None => e.inst = Top.inst,
         Kept, Grows, FrameOk(e)', FrameOk(n)', LinkOk(e, n)',
         n.pc # "consumeMeta", ret' = "none"
  PROVE  StackOk' /\ TopOk'
  <1>1. /\ stack' \in Seq(Frame) /\ Len(stack') = Len(stack) + 1
        /\ Len(stack) \in Nat \ {0}
        /\ stack'[Len(stack) + 1] = n /\ stack'[Len(stack)] = e
        /\ \A k \in 1 .. Len(stack) - 1 : stack'[k] = stack[k]
    BY FramesTyped, CallStack DEF Call
  <1>2. ASSUME NEW k \in 1 .. Len(stack) + 1 PROVE FrameOk(stack[k])'
    <2>1. CASE k = Len(stack) + 1
      BY <1>1, <2>1 DEF FrameOk
    <2>2. CASE k = Len(stack)
      BY <1>1, <2>2 DEF FrameOk
    <2>3. CASE k \notin {Len(stack), Len(stack) + 1}
      <3>1. PICK f : f = stack[k]
        OBVIOUS
      <3>2. k \in 1 .. Len(stack) - 1 /\ stack'[k] = f
        BY <1>1, <2>3, <3>1
      <3>3. FrameOk(f)'
        BY <3>1, <3>2 DEF Kept
      <3> QED
        BY <3>2, <3>3 DEF FrameOk
    <2> QED
      BY <2>1, <2>2, <2>3
  <1>3. ASSUME NEW k \in 1 .. Len(stack) PROVE LinkOk(stack[k], stack[k+1])'
    <2>1. CASE k = Len(stack)
      BY <1>1, <2>1 DEF LinkOk, MetaConsumed
    <2>2. CASE k # Len(stack)
      <3>1. PICK f, g, h : f = stack[k] /\ g = stack[k+1] /\ h = stack'[k+1]
        OBVIOUS
      <3>2. k \in 1 .. Len(stack) - 1
        BY <1>1, <2>2
      <3>3. LinkOk(f, g) /\ Awaits(f, g) /\ stack'[k] = f
        BY <1>1, <3>1, <3>2 DEF StackOk, CallsNest, LinkOk, MetaConsumed, Awaits
      <3>4. f.pc = "consumeMeta" => h.inst = g.inst
        <4>1. CASE k + 1 = Len(stack)
          BY <1>1, <3>1, <3>3, <4>1 DEF Top, Awaits
        <4>2. CASE k + 1 # Len(stack)
          BY <1>1, <3>1, <3>2, <4>2
        <4> QED
          BY <4>1, <4>2
      <3>5. LinkOk(f, h)'
        BY <3>3, <3>4, LinkKept DEF LinkOk, MetaConsumed
      <3> QED
        BY <3>1, <3>3, <3>5 DEF LinkOk, MetaConsumed
    <2> QED
      BY <2>1, <2>2
  <1>4. TopOk'
    <2>1. Top' = n
      BY <1>1 DEF Top
    <2> QED
      BY <2>1 DEF TopOk, MetaConsumed
  <1> QED
    BY <1>1, <1>2, <1>3, <1>4 DEF StackOk

\* A call that returned has completed what it was for, or has met an error
Completed(f) ==
  \/ ret' = "fail" /\ errors'
  \/ IF f.fn = None THEN f.inst \in instantiations' ELSE f.fn \in bodies'

LEMMA ReturnOk ==
  ASSUME TypeOK, CallsNest, StackOk, stack # << >>,
         stack' = SubSeq(stack, 1, Len(stack) - 1),
         Kept, Grows, Completed(Top)
  PROVE  StackOk' /\ TopOk'
  <1>1. /\ stack' \in Seq(Frame) /\ Len(stack') = Len(stack) - 1
        /\ Len(stack) \in Nat \ {0}
        /\ \A k \in 1 .. Len(stack) - 1 : stack'[k] = stack[k]
    BY FramesTyped, ReturnStack, ZenonT(60)
  <1>2. ASSUME NEW k \in 1 .. Len(stack) - 1 PROVE FrameOk(stack[k])'
    <2>1. PICK f : f = stack[k]
      OBVIOUS
    <2>2. FrameOk(f)' /\ stack'[k] = f
      BY <1>1, <2>1 DEF Kept
    <2> QED
      BY <2>2 DEF FrameOk
  <1>3. ASSUME NEW k \in 1 .. Len(stack) - 2 PROVE LinkOk(stack[k], stack[k+1])'
    <2>1. PICK f, g : f = stack[k] /\ g = stack[k+1]
      OBVIOUS
    <2>2. LinkOk(f, g) /\ stack'[k] = f /\ stack'[k+1] = g
      BY <1>1, <2>1, SMTT(30) DEF StackOk, LinkOk, MetaConsumed
    <2>3. LinkOk(f, g)'
      BY <2>2, LinkKept
    <2> QED
      BY <2>2, <2>3 DEF LinkOk, MetaConsumed
  <1>4. StackOk'
    BY <1>1, <1>2, <1>3 DEF StackOk
  <1>5. ASSUME stack' # << >> PROVE TopOk'
    <2>1. PICK f, g : f = Top' /\ g = Top
      OBVIOUS
    <2>2. Len(stack) - 1 \in 1 .. Len(stack) - 1 /\ Len(stack') = Len(stack) - 1
      BY <1>1, <1>5
    <2>3. f = stack[Len(stack) - 1] /\ g = stack[Len(stack) - 1 + 1] /\ g \in Frame
      BY <1>1, <2>1, <2>2, FramesTyped DEF Top
    <2>4. LinkOk(f, g) /\ Awaits(f, g)
      BY <2>2, <2>3 DEF StackOk, CallsNest, LinkOk, MetaConsumed, Awaits
    <2>5. MetaConsumed(f, {g.inst})'
      BY <2>4 DEF LinkOk, MetaConsumed, Grows
    <2>6. Completed(g)
      BY <2>1 DEF Completed
    <2>7. MetaConsumed(f, {})'
      BY <2>4, <2>5, <2>6 DEF MetaConsumed, Completed, Awaits
    <2>8. ret' = "ok" /\ f.pc = "consume" => f.inst \in instantiations'
      BY <2>4, <2>6 DEF Completed, Awaits
    <2>9. ret' = "ok" /\ f.pc = "ship" => f.dep \in bodies'
      <3>1. g.fn = None \/ g.fn # None
        OBVIOUS
      <3> QED
        BY <2>4, <2>6, <3>1 DEF Completed, Awaits
    <2> QED
      BY <2>1, <2>7, <2>8, <2>9 DEF TopOk, MetaConsumed
  <1> QED
    BY <1>4, <1>5 DEF TopOk

(***************************************************************************)
(* What is asked for is in the source map, and what is resolved is needed. *)
(***************************************************************************)
\* Nothing but what a step calls for is resolved after it
LEMMA NothingElseResolved ==
  ASSUME TypeOK, stack # << >>, NEW D,
         \/ \E e \in Frame : Goto(e) /\ e.dep \in D
         \/ \E e, n \in Frame : Call(e, n) /\ e.dep \in D /\ n.dep \in D
         \/ stack' = SubSeq(stack, 1, Len(stack) - 1)
  PROVE  Resolving' \subseteq Resolving \cup (D \ {None})
  <1>1. CASE \E e \in Frame : Goto(e) /\ e.dep \in D
    <2>1. PICK e \in Frame : Goto(e) /\ e.dep \in D
      BY <1>1
    <2>2. PICK N \in Nat \ {0} : N = Len(stack)
      BY FramesTyped, GotoStack DEF Goto
    <2>3. /\ Len(stack') = N /\ stack'[N] = e
          /\ \A k \in 1 .. N - 1 : stack'[k] = stack[k]
      BY <2>1, <2>2, FramesTyped, GotoStack DEF Goto
    <2>4. ASSUME NEW k \in 1 .. N
          PROVE  stack'[k].dep \in D \/ \E l \in 1 .. N : stack'[k].dep = stack[l].dep
      BY <2>1, <2>2, <2>3
    <2> QED
      BY <2>2, <2>3, <2>4 DEF Resolving
  <1>2. CASE \E e, n \in Frame : Call(e, n) /\ e.dep \in D /\ n.dep \in D
    <2>1. PICK e \in Frame, n \in Frame : Call(e, n) /\ e.dep \in D /\ n.dep \in D
      BY <1>2
    <2>2. PICK N \in Nat \ {0} : N = Len(stack)
      BY <2>1, FramesTyped, CallStack DEF Call
    <2>3. /\ Len(stack') = N + 1 /\ stack'[N] = e /\ stack'[N + 1] = n
          /\ \A k \in 1 .. N - 1 : stack'[k] = stack[k]
      BY <2>1, <2>2, FramesTyped, CallStack DEF Call
    <2>4. ASSUME NEW k \in 1 .. N + 1
          PROVE  stack'[k].dep \in D \/ \E l \in 1 .. N : stack'[k].dep = stack[l].dep
      BY <2>1, <2>2, <2>3
    <2> QED
      BY <2>2, <2>3, <2>4 DEF Resolving
  <1>3. CASE stack' = SubSeq(stack, 1, Len(stack) - 1)
    <2>1. PICK N \in Nat \ {0} : N = Len(stack)
      BY FramesTyped, ReturnStack
    <2>2. Len(stack') = N - 1 /\ \A k \in 1 .. N - 1 : stack'[k] = stack[k]
      BY <1>3, <2>1, FramesTyped, ReturnStack
    <2> QED
      BY <2>1, <2>2 DEF Resolving
  <1> QED
    BY <1>1, <1>2, <1>3

\* What is needed stays needed: modules are never taken back
LEMMA NeededKept ==
  ASSUME prog' = prog, shipment \cup jit \subseteq shipment' \cup jit', NeededOk,
         \A g \in Resolving' \ Resolving : Needed(g)',
         \A u \in unresolved' \ unresolved : Needed(u[2])'
  PROVE  NeededOk'
  <1>1. \A s : Refs(s)' = Refs(s)
    BY DEF Refs, FnRefs, MetaRefs, UsedInsts, ExportsOf
  <1>2. \A g : Needed(g) => Needed(g)'
    BY <1>1 DEF Needed
  <1> QED
    BY <1>2 DEF NeededOk

\* The steps that leave the open shipment and the JIT alone
LEMMA QuietNeeded ==
  ASSUME TypeOK, ControlInv, NeededOk,
         \/ PopDependency \/ DependencyReturned \/ FinishGeneration
         \/ EnterFunction \/ ConsumeInstantiation \/ InstantiationConsumed
         \/ EnterGeneration \/ GenerateFunction \/ EnterInstantiate
         \/ ConsumeMetaInstantiation \/ MetaInstantiationConsumed
         \/ MetaDependenciesConsumed \/ Invoke
  PROVE  NeededOk'
  <1> USE TopTyped, FrameKind, NewFrames
      DEF Idle, At, Running, FnPCs, InstPCs, amalgamation, executor
  <1>1. CASE PopDependency \/ DependencyReturned \/ FinishGeneration
    <2>1. Resolving' = {}
      BY <1>1 DEF PopDependency, DependencyReturned, FinishGeneration, Resolving, CodegenOf
    <2>2. UNCHANGED <<prog, unresolved, shipment, jit>>
      BY <1>1 DEF PopDependency, DependencyReturned, FinishGeneration
    <2> QED
      BY <2>1, <2>2, NeededKept
  <1>2. CASE ~(PopDependency \/ DependencyReturned \/ FinishGeneration)
    <2>1. stack # << >> /\ Top \in Frame /\ Top.dep = None
      <3>1. stack # << >> /\ (ret = "none" \/ Top.pc # "ship")
        BY <1>2 DEF EnterFunction, ConsumeInstantiation, InstantiationConsumed,
           EnterGeneration, GenerateFunction, EnterInstantiate,
           ConsumeMetaInstantiation, MetaInstantiationConsumed,
           MetaDependenciesConsumed, Invoke
      <3> QED
        BY <3>1, TopDep
    <2>2. UNCHANGED <<prog, unresolved, shipment, jit>>
      BY <1>2 DEF EnterFunction, ConsumeInstantiation, InstantiationConsumed,
         EnterGeneration, GenerateFunction, EnterInstantiate,
         ConsumeMetaInstantiation, MetaInstantiationConsumed,
         MetaDependenciesConsumed, Invoke
    <2>3. \A pc, is, T :
            /\ [Top EXCEPT !.pc = pc].dep = None
            /\ [Top EXCEPT !.pc = pc, !.todo = T].dep = None
            /\ [Top EXCEPT !.todo = T].dep = None
            /\ [Top EXCEPT !.todo = T, !.inst = is].dep = None
            /\ [Top EXCEPT !.inst = is, !.todo = T].dep = None
      BY <2>1 DEF Frame, FnFrame, InstFrame
    <2>4. \/ \E e \in Frame : Goto(e) /\ e.dep \in {None}
          \/ \E e, n \in Frame : Call(e, n) /\ e.dep \in {None} /\ n.dep \in {None}
          \/ stack' = SubSeq(stack, 1, Len(stack) - 1)
      <3>1. CASE EnterFunction
        <4>1. Top \in FnFrame
          BY <3>1 DEF EnterFunction
        <4>2. [Top EXCEPT !.pc = "consume", !.todo = prog.insts[Top.fn]] \in Frame
          BY <4>1, ProgramTypes DEF FnFrame, Frame
        <4> QED
          BY <2>3, <3>1, <4>2 DEF EnterFunction, Return
      <3>2. CASE ConsumeInstantiation
        <4>1. PICK i \in Top.todo :
                Call([Top EXCEPT !.todo = @ \ {i}, !.inst = i], InstantiateOf(i))
          BY <3>2 DEF ConsumeInstantiation
        <4>2. Top \in FnFrame /\ i \in Insts
          BY <3>2 DEF ConsumeInstantiation, FnFrame
        <4>3. /\ [Top EXCEPT !.todo = @ \ {i}, !.inst = i] \in Frame
              /\ InstantiateOf(i) \in Frame /\ InstantiateOf(i).dep = None
          BY <4>2 DEF FnFrame, Frame, InstantiateOf
        <4> QED
          BY <2>3, <4>1, <4>3
      <3>3. CASE InstantiationConsumed
        <4>1. Top \in FnFrame /\ Top.todo \in SUBSET Insts
          BY <3>3 DEF InstantiationConsumed, FnFrame
        <4>2. Goto([Top EXCEPT !.inst = None, !.todo = @]) \/ Goto([Top EXCEPT !.inst = None, !.todo = {}])
          BY <3>3 DEF InstantiationConsumed
        <4>3. /\ [Top EXCEPT !.inst = None, !.todo = @] \in Frame
              /\ [Top EXCEPT !.inst = None, !.todo = {}] \in Frame
          BY <4>1 DEF FnFrame, Frame
        <4> QED
          <5>1. [Top EXCEPT !.inst = None, !.todo = @].dep = None
            BY <2>1 DEF Frame, FnFrame, InstFrame
          <5> QED
            BY <2>3, <4>2, <4>3, <5>1
      <3>4. CASE EnterGeneration
        <4>1. Top \in FnFrame
          BY <3>4 DEF EnterGeneration
        <4>2. [Top EXCEPT !.pc = "generate"] \in Frame
          BY <4>1 DEF FnFrame, Frame
        <4> QED
          BY <2>3, <3>4, <4>2 DEF EnterGeneration, Return
      <3>5. CASE GenerateFunction \/ Invoke
        BY <3>5 DEF GenerateFunction, Invoke, Return
      <3>6. CASE EnterInstantiate
        <4>1. Top \in InstFrame /\ prog.metaInsts[prog.decl[Top.inst]] \subseteq Insts
          BY <3>6, ProgramTypes DEF EnterInstantiate, InstFrame
        <4>2. /\ [Top EXCEPT !.pc = "jumpPad"] \in Frame
              /\ [Top EXCEPT !.pc = "consumeMeta",
                             !.todo = prog.metaInsts[prog.decl[Top.inst]]] \in Frame
          BY <4>1 DEF InstFrame, Frame
        <4> QED
          BY <2>3, <3>6, <4>2 DEF EnterInstantiate, Return
      <3>7. CASE ConsumeMetaInstantiation
        <4>1. PICK i \in Top.todo : Call([Top EXCEPT !.todo = @ \ {i}], InstantiateOf(i))
          BY <3>7 DEF ConsumeMetaInstantiation
        <4>2. Top \in InstFrame /\ i \in Insts
          BY <3>7 DEF ConsumeMetaInstantiation, InstFrame
        <4>3. /\ [Top EXCEPT !.todo = @ \ {i}] \in Frame
              /\ InstantiateOf(i) \in Frame /\ InstantiateOf(i).dep = None
          BY <4>2 DEF InstFrame, Frame, InstantiateOf
        <4> QED
          BY <2>3, <4>1, <4>3
      <3>8. CASE MetaInstantiationConsumed
        <4>1. Top \in InstFrame
          BY <3>8 DEF MetaInstantiationConsumed
        <4>2. [Top EXCEPT !.todo = @] \in Frame /\ [Top EXCEPT !.todo = {}] \in Frame
          BY <4>1 DEF InstFrame, Frame
        <4>3. Goto([Top EXCEPT !.todo = @]) \/ Goto([Top EXCEPT !.todo = {}])
          BY <3>8 DEF MetaInstantiationConsumed
        <4> QED
          BY <2>3, <4>2, <4>3
      <3>9. CASE MetaDependenciesConsumed
        <4>1. Top \in InstFrame
          BY <3>9 DEF MetaDependenciesConsumed
        <4>2. [Top EXCEPT !.pc = "jumpPad"] \in Frame
          BY <4>1 DEF InstFrame, Frame
        <4> QED
          BY <2>3, <3>9, <4>2 DEF MetaDependenciesConsumed, Return
      <3> QED
        BY <1>2, <3>1, <3>2, <3>3, <3>4, <3>5, <3>6, <3>7, <3>8, <3>9
    <2>5. Resolving' \subseteq Resolving
      BY <2>1, <2>4, NothingElseResolved
    <2> QED
      BY <2>2, <2>5, NeededKept
  <1> QED
    BY <1>1, <1>2

\* The steps that add a module or take a dependency out
LEMMA ShipmentNeeded ==
  ASSUME TypeOK, ControlInv, NeededOk,
         \/ GenerateMetaFunction \/ CreateJumpPad \/ ResolveDependency
         \/ DependencyResolved \/ ShipToJIT
  PROVE  NeededOk'
  <1> USE TopTyped, FrameKind, NewFrames
      DEF Idle, At, Running, FnPCs, InstPCs, amalgamation, executor
  <1>a. stack # << >> /\ Top \in InstFrame
    BY DEF GenerateMetaFunction, CreateJumpPad, ResolveDependency, DependencyResolved, ShipToJIT
  <1>b. prog' = prog /\ shipment \cup jit \subseteq shipment' \cup jit'
    BY DEF GenerateMetaFunction, CreateJumpPad, ResolveDependency, DependencyResolved,
       ShipToJIT, Pull, DependencyNotResolved
  <1>c. \A s : Refs(s)' = Refs(s)
    BY <1>b DEF Refs, FnRefs, MetaRefs, UsedInsts, ExportsOf
  <1>1. CASE GenerateMetaFunction
    <2> DEFINE m == prog.decl[Top.inst]
               e == [Top EXCEPT !.pc = "jumpPad"]
    <2>1. m \in Metas /\ Refs(m) = prog.metaCalls[m] \cup ExportsOf(UsedInsts(m))
      BY <1>a, ProgramTypes, SymbolsAssumption DEF Refs, MetaRefs, Fns, InstFrame
    <2>2. m \in shipment' /\ \A u \in unresolved' \ unresolved : u[2] \in Refs(m)
      <3>1. m \in shipment'
        BY <1>1, SMTT(30) DEF GenerateMetaFunction
      <3>2. ASSUME NEW u \in unresolved' \ unresolved
            PROVE  \/ \E f \in prog.metaCalls[m] : u = <<"decl", f>>
                   \/ \E f \in ExportsOf(UsedInsts(m)) : u = <<"function", f>>
        BY <1>1, ZenonT(60) DEF GenerateMetaFunction
      <3> QED
        BY <2>1, <3>1, <3>2, SMTT(30)
    <2>3. e \in Frame /\ Goto(e) /\ e.dep = None
      BY <1>1, <1>a, TopDep DEF GenerateMetaFunction, InstFrame, Frame
    <2>4. Resolving' \subseteq Resolving
      BY <1>a, <2>3, NothingElseResolved
    <2>5. \A u \in unresolved' \ unresolved : Needed(u[2])'
      BY <1>c, <2>2 DEF Needed
    <2> QED
      BY <1>b, <2>4, <2>5, NeededKept
  <1>2. CASE CreateJumpPad
    <2> DEFINE e == [Top EXCEPT !.pc = "ship"]
    <2>1. e \in Frame /\ Goto(e) /\ e.dep = None
      BY <1>2, <1>a, TopDep DEF CreateJumpPad, InstFrame, Frame
    <2>2. Resolving' \subseteq Resolving /\ unresolved' = unresolved
      BY <1>2, <1>a, <2>1, NothingElseResolved DEF CreateJumpPad
    <2> QED
      BY <1>b, <2>2, NeededKept
  <1>3. CASE ResolveDependency
    <2>1. PICK u \in unresolved :
            /\ unresolved' = unresolved \ {u}
            /\ Call([Top EXCEPT !.dep = u[2]], CodegenOf(u[2]))
      BY <1>3 DEF ResolveDependency
    <2> DEFINE e == [Top EXCEPT !.dep = u[2]]
               n == CodegenOf(u[2])
    <2>2. u[2] \in Fns
      BY DEF TypeOK
    <2>3. e \in Frame /\ n \in Frame /\ e.dep = u[2] /\ n.dep = None
      BY <1>3, <1>a, <2>2 DEF ResolveDependency, InstFrame, Frame, CodegenOf
    <2>4. Resolving' \subseteq Resolving \cup {u[2]}
      <3>1. e.dep \in {u[2], None} /\ n.dep \in {u[2], None}
        BY <2>3
      <3>2. Resolving' \subseteq Resolving \cup ({u[2], None} \ {None})
        BY <1>a, <2>1, <2>3, <3>1, NothingElseResolved
      <3> QED
        BY <3>2
    <2>5. Needed(u[2])'
      <3>1. Needed(u[2])
        BY DEF NeededOk
      <3> QED
        BY <1>b, <1>c, <3>1 DEF Needed
    <2> QED
      BY <1>b, <2>1, <2>4, <2>5, NeededKept
  <1>4. CASE DependencyResolved /\ ret # "ok"
    <2>1. stack' = SubSeq(stack, 1, Len(stack) - 1) /\ unresolved' = unresolved
      BY <1>4 DEF DependencyResolved, DependencyNotResolved, Return
    <2>2. Resolving' \subseteq Resolving
      BY <1>a, <2>1, NothingElseResolved
    <2> QED
      BY <1>b, <2>1, <2>2, NeededKept
  <1>5. CASE DependencyResolved /\ ret = "ok"
    <2> DEFINE f == Top.dep
               e == [Top EXCEPT !.dep = None]
    <2>1. f \in Fns /\ e \in Frame /\ e.dep = None /\ Goto(e)
      BY <1>5, <1>a DEF DependencyResolved, Pull, InstFrame, Frame
    <2>2. f \in shipment' /\ \A u \in unresolved' \ unresolved : u[2] \in FnRefs(f)
      BY <1>5 DEF DependencyResolved, Pull
    <2>3. \A u \in unresolved' \ unresolved : Needed(u[2])'
      BY <1>c, <2>1, <2>2 DEF Needed, Refs
    <2>4. Resolving' \subseteq Resolving
      BY <1>a, <2>1, NothingElseResolved
    <2> QED
      BY <1>b, <2>3, <2>4, NeededKept
  <1>6. CASE ShipToJIT
    <2> DEFINE e == [Top EXCEPT !.pc = "invoke"]
    <2>1. e \in Frame /\ Goto(e) /\ e.dep = None
      BY <1>6, <1>a, TopDep DEF ShipToJIT, InstFrame, Frame
    <2>2. Resolving' \subseteq Resolving /\ unresolved' = unresolved
      BY <1>6, <1>a, <2>1, NothingElseResolved DEF ShipToJIT
    <2> QED
      BY <1>b, <2>2, NeededKept
  <1> QED
    BY <1>1, <1>2, <1>3, <1>4, <1>5, <1>6

\* The innermost call is as it should be
LEMMA TopFrameOk == ASSUME TypeOK, StackOk, stack # << >> PROVE FrameOk(Top)
  <1>1. Len(stack) \in 1 .. Len(stack)
    BY TopTyped
  <1>2. FrameOk(stack[Len(stack)])
    BY <1>1 DEF StackOk, FrameOk
  <1> QED
    BY <1>2 DEF Top, FrameOk

\* What can be asked for stays in the source map
LEMMA SourceStep ==
  ASSUME TypeOK, ControlInv, StackOk, TopOk, SourceOk, Next
  PROVE  SourceOk' \/ ~Running'
  <1> USE TopTyped, FrameKind
      DEF Idle, At, Running, FnPCs, InstPCs, amalgamation, executor
  <1>a. prog' = prog /\ \A f : FnRefs(f)' = FnRefs(f)
    BY DEF Next, Ended, vars, PopDependency, DependencyReturned, FinishGeneration,
       EnterFunction, ConsumeInstantiation, InstantiationConsumed, EnterGeneration,
       GenerateFunction, EnterInstantiate, ConsumeMetaInstantiation,
       MetaInstantiationConsumed, MetaDependenciesConsumed, GenerateMetaFunction,
       CreateJumpPad, ResolveDependency, DependencyResolved, Pull,
       DependencyNotResolved, ShipToJIT, Invoke, FnRefs, ExportsOf
  <1>1. CASE GenerateFunction
    <2>1. Top.fn \in functionSource
      BY <1>1, TopFrameOk DEF GenerateFunction, FrameOk
    <2>2. /\ bodies' = bodies \cup {Top.fn} /\ available' = available
          /\ functionSource' = functionSource \cup FnRefs(Top.fn)
          /\ unresolved' = unresolved
      BY <1>1 DEF GenerateFunction, LookupGlobals
    <2> QED
      BY <1>a, <2>1, <2>2 DEF SourceOk
  <1>2. CASE GenerateMetaFunction
    <2> DEFINE m == prog.decl[Top.inst]
    <2>1. m \in Metas
      BY <1>2, ProgramTypes DEF GenerateMetaFunction, InstFrame
    <2>2. /\ bodies' = bodies /\ available' = available \cup {m}
          /\ functionSource' = functionSource \cup ExportsOf(UsedInsts(m))
      BY <1>2 DEF GenerateMetaFunction, LookupGlobals
    <2>3. unresolved' = unresolved
              \cup {<<"decl", f>> : f \in prog.metaCalls[m] \ available}
              \cup {<<"function", f>> : f \in ExportsOf(UsedInsts(m)) \ available}
      BY <1>2 DEF GenerateMetaFunction
    <2>4. \A u \in unresolved' : u[1] = "function" => u[2] \in functionSource'
      BY <2>2, <2>3 DEF SourceOk
    <2>5. available' \cap Fns \subseteq bodies'
      BY <2>1, <2>2, SymbolsAssumption DEF SourceOk
    <2> QED
      BY <1>a, <2>2, <2>4, <2>5 DEF SourceOk
  <1>3. CASE DependencyResolved /\ ret = "ok"
    <2> DEFINE f == Top.dep
    <2>1. f \in bodies
      BY <1>3 DEF DependencyResolved, TopOk
    <2>2. /\ UNCHANGED <<bodies, functionSource>> /\ available' = available \cup {f}
          /\ unresolved' = unresolved
               \cup {<<"function", g>> : g \in FnRefs(f) \ (available \cup {f})}
      BY <1>3 DEF DependencyResolved, Pull
    <2>3. \A u \in unresolved' : u[1] = "function" => u[2] \in functionSource
      BY <2>1, <2>2 DEF SourceOk
    <2> QED
      BY <1>a, <2>1, <2>2, <2>3 DEF SourceOk
  <1>4. CASE ~(GenerateFunction \/ GenerateMetaFunction \/ (DependencyResolved /\ ret = "ok"))
    <2>1. /\ UNCHANGED <<bodies, available>> /\ functionSource \subseteq functionSource'
          /\ unresolved' \subseteq unresolved
      BY <1>4 DEF Next, Ended, vars, PopDependency, DependencyReturned, FinishGeneration,
         EnterFunction, ConsumeInstantiation, InstantiationConsumed, EnterGeneration,
         EnterInstantiate, ConsumeMetaInstantiation, MetaInstantiationConsumed,
         MetaDependenciesConsumed, CreateJumpPad, ResolveDependency, DependencyResolved,
         DependencyNotResolved, ShipToJIT, Invoke, LookupGlobals
    <2> QED
      BY <1>a, <2>1 DEF SourceOk
  <1> QED
    BY <1>1, <1>2, <1>3, <1>4

(***************************************************************************)
(* No call nested in another completes what that one is about to.          *)
(***************************************************************************)
\* An instantiation that is waited for, or under way, is not evaluated
LEMMA NotInstantiated ==
  ASSUME TypeOK, CallsNest, StackOk, NEW k \in 1 .. Len(stack), stack[k].fn = None,
         k = Len(stack) => stack[k].pc # "instantiate"
  PROVE  stack[k].inst \notin instantiations
  <1>1. stack[k] \in Frame /\ FrameOk(stack[k])
    BY FramesTyped DEF StackOk, FrameOk
  <1>2. stack[k] \in InstFrame
    BY <1>1, SymbolsAssumption DEF Frame, FnFrame
  <1>3. k # Len(stack) => Awaits(stack[k], stack[k+1])
    <2>1. Len(stack) \in Nat
      BY FramesTyped
    <2> QED
      BY <2>1 DEF CallsNest
  <1>4. stack[k].pc \in InstPCs \ {"instantiate"}
    BY <1>2, <1>3 DEF Awaits, InstFrame, InstPCs
  <1> QED
    BY <1>1, <1>4 DEF FrameOk

\* The body of a function is generated: no call below it is about to
LEMMA GenerateKeeps ==
  ASSUME TypeOK, ControlInv, StackOk, GenerateFunction
  PROVE  Kept
  <1> USE TopTyped, FrameKind DEF Idle, At, Running, FnPCs, InstPCs, executor
  <1>1. /\ stack # << >> /\ Top \in FnFrame /\ Top.pc = "generate" /\ CallsNest
        /\ ~errors
    BY DEF GenerateFunction, ControlInv, ErrorUnwinds
  <1>2. /\ UNCHANGED <<prog, available, instantiations, shipment, jit, errors>>
        /\ bodies' = bodies \cup {Top.fn} /\ functionSource \subseteq functionSource'
    BY DEF GenerateFunction, LookupGlobals
  <1>3. prog.insts[Top.fn] \subseteq instantiations
    BY <1>1, TopFrameOk DEF FrameOk
  <1> SUFFICES ASSUME NEW f, NEW k \in 1 .. Len(stack) - 1, f = stack[k]
               PROVE  FrameOk(f)'
    BY DEF Kept
  <1>4. Len(stack) \in Nat \ {0} /\ k \in 1 .. Len(stack) /\ k + 1 \in 1 .. Len(stack)
    BY <1>1
  <1>5. FrameOk(f) /\ Awaits(f, stack[k+1])
    BY <1>1, <1>4 DEF StackOk, FrameOk, CallsNest
  <1>6. ASSUME f.pc \in {"consume", "generate"} PROVE f.fn # Top.fn
    <2>1. f.pc = "consume" /\ f.inst # None /\ stack[k+1].fn = None /\ stack[k+1].inst = f.inst
      BY <1>5, <1>6 DEF Awaits
    <2>2. k + 1 = Len(stack) => stack[k+1].pc = "generate"
      BY <1>1 DEF Top
    <2>3. f.inst \notin instantiations
      BY <1>1, <1>4, <2>1, <2>2, NotInstantiated
    <2>4. f.inst \in prog.insts[f.fn]
      BY <1>5, <2>1 DEF FrameOk
    <2> QED
      BY <1>3, <2>3, <2>4
  <1> QED
    BY <1>2, <1>5, <1>6 DEF FrameOk

\* A meta function is generated: no call below it is about to
LEMMA MetaFunctionKeeps ==
  ASSUME TypeOK, ControlInv, StackOk, TopOk, GenerateMetaFunction
  PROVE  Kept
  <1> USE TopTyped, FrameKind DEF Idle, At, Running, FnPCs, InstPCs
  <1> DEFINE m == prog.decl[Top.inst]
  <1>1. /\ stack # << >> /\ Top \in InstFrame /\ Top.pc = "consumeMeta" /\ Top.todo = {}
        /\ CallsNest /\ ~errors
    BY DEF GenerateMetaFunction, ControlInv
  <1>2. /\ UNCHANGED <<prog, bodies, instantiations, jit>>
        /\ available' = available \cup {m} /\ shipment \subseteq shipment'
        /\ functionSource \subseteq functionSource'
    BY DEF GenerateMetaFunction, LookupGlobals
  <1>3. prog.metaInsts[m] \subseteq instantiations
    BY <1>1 DEF TopOk, MetaConsumed
  <1> SUFFICES ASSUME NEW f, NEW k \in 1 .. Len(stack) - 1, f = stack[k]
               PROVE  FrameOk(f)'
    BY DEF Kept
  <1>4. Len(stack) \in Nat \ {0} /\ k \in 1 .. Len(stack) /\ k + 1 \in 1 .. Len(stack)
    BY <1>1
  <1>5. FrameOk(f) /\ Awaits(f, stack[k+1]) /\ LinkOk(f, stack[k+1])
    BY <1>1, <1>4 DEF StackOk, FrameOk, CallsNest, LinkOk, MetaConsumed
  <1>6. ASSUME f.pc = "consumeMeta" PROVE prog.decl[f.inst] # m
    <2>1. stack[k+1].fn = None /\ stack[k+1].inst \in prog.metaInsts[prog.decl[f.inst]]
      BY <1>5, <1>6 DEF Awaits, LinkOk
    <2>2. k + 1 = Len(stack) => stack[k+1].pc = "consumeMeta"
      BY <1>1 DEF Top
    <2>3. stack[k+1].inst \notin instantiations
      BY <1>1, <1>4, <2>1, <2>2, NotInstantiated
    <2> QED
      BY <1>3, <2>1, <2>3
  <1> QED
    BY <1>1, <1>2, <1>5, <1>6 DEF FrameOk

\* A jump pad ran in a JIT that has everything: no call below it is about to
\* run the same, for it would wait for a function that is still missing
LEMMA InvokeKeeps ==
  ASSUME TypeOK, ControlInv, JitInv, OnceInv, Invoke, Running'
  PROVE  Kept
  <1> USE TopTyped, FrameKind DEF Idle, At, Running, FnPCs, InstPCs, amalgamation
  <1>1. /\ stack # << >> /\ Top \in InstFrame /\ Top.pc = "invoke" /\ CallsNest
        /\ StackOk /\ NeededOk /\ SourceOk /\ DefinedOnce /\ shipment = {} /\ JitClosed
        /\ Running
    BY DEF Invoke, ControlInv, OnceInv, StackOk, JitInv, InvokeReady
  <1>2. /\ UNCHANGED <<prog, bodies, functionSource, available, shipment, jit>>
        /\ (errors => errors') /\ instantiations' \subseteq instantiations \cup {Top.inst}
        /\ instantiations \subseteq instantiations'
    BY DEF Invoke
  <1>3. FrameOk(Top)
    BY <1>1, TopFrameOk
  <1> SUFFICES ASSUME NEW f, NEW k \in 1 .. Len(stack) - 1, f = stack[k]
               PROVE  FrameOk(f)'
    BY DEF Kept
  <1>4. Len(stack) \in Nat \ {0} /\ k \in 1 .. Len(stack) /\ k + 1 \in 1 .. Len(stack)
    BY <1>1
  <1>5. FrameOk(f) /\ Awaits(f, stack[k+1]) /\ f \in Frame
    BY <1>1, <1>4, FramesTyped DEF StackOk, FrameOk, CallsNest
  <1>6. ASSUME f.pc \in InstPCs \ {"instantiate"} PROVE f.inst # Top.inst
    <2>1. CASE f.pc = "consumeMeta"
      BY <1>1, <1>3, <1>5, <2>1 DEF FrameOk
    <2>2. CASE f.pc = "ship"
      <3> DEFINE g == stack[k+1]
      <3>1. f.dep # None /\ g.fn = f.dep /\ f.dep \in Fns /\ g \in Frame
        BY <1>4, <1>5, <2>2, FramesTyped DEF Awaits, InstFrame
      <3>2. g \in FnFrame
        BY <3>1, SymbolsAssumption DEF Frame, InstFrame
      <3>3. k + 1 # Len(stack)
        BY <1>1, <3>2 DEF Top, FnFrame
      <3>4. Awaits(g, stack[k+1+1]) /\ FrameOk(g)
        BY <1>1, <1>4, <3>3, SMTT(30) DEF CallsNest, StackOk, FrameOk
      <3>5. g.pc = "consume"
        BY <3>2, <3>4 DEF Awaits, FnFrame
      <3>6. f.dep \notin available
        BY <1>1, <3>1, <3>4, <3>5 DEF FrameOk, SourceOk
      <3>7. f.dep \in Resolving
        BY <1>4, <3>1 DEF Resolving
      <3>8. f.dep \in jit
        BY <1>1, <3>7 DEF NeededOk, Needed, JitClosed
      <3> QED
        BY <1>1, <3>1, <3>6, <3>8 DEF DefinedOnce
    <2> QED
      BY <1>5, <1>6, <2>1, <2>2 DEF Awaits
  <1>7. ASSUME f.pc \in InstPCs \ {"instantiate"} PROVE f.inst \notin instantiations'
    <2>1. f.inst \notin instantiations
      BY <1>5, <1>7 DEF FrameOk
    <2>2. f.inst # Top.inst
      BY <1>6, <1>7
    <2> QED
      BY <1>2, <2>1, <2>2
  <1> QED
    BY <1>2, <1>5, <1>7 DEF FrameOk

(***************************************************************************)
(* The calls of CodegenInstance.                                           *)
(***************************************************************************)
LEMMA AmalgamationCalls ==
  ASSUME TypeOK, ControlInv, JitInv, StackOk, TopOk, Running',
         \/ PopDependency \/ DependencyReturned \/ FinishGeneration
         \/ EnterFunction \/ ConsumeInstantiation \/ InstantiationConsumed
         \/ EnterGeneration \/ GenerateFunction
  PROVE  StackOk' /\ TopOk'
  <1> USE TopTyped, FrameKind, NewFrames, ProgramTypes
      DEF Idle, At, Running, FnPCs, InstPCs, amalgamation, executor
  <1>a. /\ CallsNest
        /\ stack # << >> => FrameOk(Top)
    BY TopFrameOk DEF ControlInv
  <1>1. CASE PopDependency
    <2>1. PICK d \in dependencies :
            /\ stack' = IF d \in Fns THEN <<CodegenOf(d)>> ELSE << >>
            /\ ret' = "none"
      BY <1>1 DEF PopDependency
    <2>2. \A k \in 1 .. Len(stack') : stack'[k].pc = "codegen"
      BY <2>1 DEF CodegenOf
    <2>3. \A k \in 1 .. Len(stack') - 1 : FALSE
      BY <2>1
    <2>4. stack' # << >> => Top'.pc = "codegen"
      BY <2>1 DEF CodegenOf, Top
    <2>5. StackOk'
      BY <2>2, <2>3 DEF StackOk, FrameOk
    <2> QED
      BY <2>1, <2>4, <2>5 DEF TopOk, MetaConsumed
  <1>2. CASE DependencyReturned \/ FinishGeneration
    <2>1. stack' = << >>
      BY <1>2 DEF DependencyReturned, FinishGeneration
    <2> QED
      BY <2>1 DEF StackOk, TopOk
  <1>b. CASE ~(PopDependency \/ DependencyReturned \/ FinishGeneration \/ GenerateFunction)
    <2>1. /\ Advances /\ stack # << >> /\ Top \in FnFrame
      <3>1. CASE EnterFunction
        BY <3>1 DEF Advances, Grows, EnterFunction, LookupGlobals
      <3>2. CASE ConsumeInstantiation
        BY <3>2 DEF Advances, Grows, ConsumeInstantiation
      <3>3. CASE InstantiationConsumed
        BY <3>3 DEF Advances, Grows, InstantiationConsumed, LookupGlobals
      <3>4. CASE EnterGeneration
        BY <3>4 DEF Advances, Grows, EnterGeneration
      <3> QED
        BY <1>b, <3>1, <3>2, <3>3, <3>4
    <2>2. Kept /\ Grows
      BY <2>1, AdvanceKeeps DEF Advances
    <2>3. Top.fn \in Fns /\ Top.fn # None /\ Top.todo \in SUBSET Insts
      BY <2>1, SymbolsAssumption DEF FnFrame
    <2>4. CASE EnterFunction
      <3>1. CASE Top.fn \in bodies
        <4>1. Completed(Top) /\ stack' = SubSeq(stack, 1, Len(stack) - 1)
          BY <2>3, <2>4, <3>1 DEF EnterFunction, Return, Completed
        <4> QED
          BY <1>a, <2>1, <2>2, <4>1, ReturnOk
      <3>2. CASE Top.fn \notin bodies
        <4>a. PICK e : e = [Top EXCEPT !.pc = "consume", !.todo = prog.insts[Top.fn]]
          OBVIOUS
        <4>1. /\ e \in Frame /\ e.fn = Top.fn /\ e.fn # None /\ e.inst = None
              /\ e.pc = "consume" /\ e.todo = prog.insts[Top.fn]
          BY <4>a, <2>1, <2>3, <2>4 DEF EnterFunction, FnFrame, Frame, ControlInv, IdleFrame
        <4>2. /\ Goto(e) /\ ret' = "none" /\ bodies' = bodies /\ prog' = prog
              /\ functionSource' = functionSource \cup {Top.fn}
          BY <4>a, <2>4, <3>2 DEF EnterFunction, LookupGlobals
        <4>3. FrameOk(e)' /\ MetaConsumed(e, {})'
          BY <3>2, <4>1, <4>2 DEF FrameOk, MetaConsumed
        <4> QED
          BY <1>a, <2>1, <2>2, <4>1, <4>2, <4>3, GotoOk
      <3> QED
        BY <3>1, <3>2
    <2>5. CASE ConsumeInstantiation
      <3>1. PICK i \in Top.todo :
              Call([Top EXCEPT !.todo = @ \ {i}, !.inst = i], InstantiateOf(i))
        BY <2>5 DEF ConsumeInstantiation
      <3>a. PICK e, n : /\ e = [Top EXCEPT !.todo = @ \ {i}, !.inst = i]
                        /\ n = InstantiateOf(i)
        OBVIOUS
      <3>2. /\ e \in Frame /\ e.fn = Top.fn /\ e.fn # None /\ e.inst = i
            /\ e.pc = "consume" /\ e.todo = Top.todo \ {i}
            /\ n \in Frame /\ n.pc = "instantiate"
        BY <3>a, <2>1, <2>3, <2>5 DEF ConsumeInstantiation, FnFrame, Frame, InstantiateOf
      <3>3. /\ ret' = "none" /\ Top.pc = "consume" /\ Top.inst = None
            /\ UNCHANGED <<prog, bodies, functionSource, instantiations, errors>>
        BY <2>5 DEF ConsumeInstantiation, ControlInv, IdleFrame
      <3>4. FrameOk(e)'
        <4>1. /\ i \in prog.insts[Top.fn] /\ None \notin prog.insts[Top.fn]
              /\ Top.todo \subseteq prog.insts[Top.fn]
          BY <1>a, <2>1, <2>3, <3>3, SymbolsAssumption DEF FrameOk
        <4>2. ~errors => prog.insts[Top.fn] \ ((Top.todo \ {i}) \cup {i}) \subseteq instantiations
          BY <1>a, <2>1, <3>3, <4>1 DEF FrameOk
        <4> QED
          BY <1>a, <2>1, <3>2, <3>3, <4>1, <4>2 DEF FrameOk
      <3>5. FrameOk(n)' /\ LinkOk(e, n)'
        BY <3>2 DEF FrameOk, LinkOk, MetaConsumed
      <3> QED
        BY <1>a, <2>1, <2>2, <3>1, <3>2, <3>3, <3>4, <3>5, <3>a, CallOk
    <2>6. CASE InstantiationConsumed
      <3>1. PICK T \in SUBSET Insts :
              /\ Goto([Top EXCEPT !.inst = None, !.todo = T])
              /\ T \subseteq Top.todo
              /\ ~errors' => ~errors /\ ret = "ok" /\ T = Top.todo
        <4>1. ret # "ok" => errors
          BY <2>6 DEF InstantiationConsumed, ControlInv, FailedMeansError, TypeOK
        <4>2. CASE ret = "ok" /\ ExportsOf({Top.inst}) # {}
          BY <2>3, <2>6, <4>2 DEF InstantiationConsumed
        <4>3. CASE ~(ret = "ok" /\ ExportsOf({Top.inst}) # {})
          BY <2>3, <2>6, <4>1, <4>3 DEF InstantiationConsumed
        <4> QED
          BY <4>2, <4>3
      <3>a. PICK e : e = [Top EXCEPT !.inst = None, !.todo = T]
        OBVIOUS
      <3>2. /\ e \in Frame /\ e.fn = Top.fn /\ e.fn # None /\ e.inst = None
            /\ e.pc = "consume" /\ e.todo = T
        BY <3>a, <2>1, <2>3, <2>6, <3>1 DEF InstantiationConsumed, FnFrame, Frame
      <3>3. /\ ret' = "none" /\ Top.pc = "consume" /\ Top.inst # None
            /\ UNCHANGED <<prog, bodies, instantiations>>
            /\ functionSource \subseteq functionSource'
        BY <2>6 DEF InstantiationConsumed, LookupGlobals
      <3>4. ret = "ok" => Top.inst \in instantiations
        BY <2>1, <3>3 DEF TopOk
      <3>5. FrameOk(e)' /\ MetaConsumed(e, {})'
        BY <1>a, <2>1, <3>1, <3>2, <3>3, <3>4 DEF FrameOk, MetaConsumed
      <3> QED
        BY <1>a, <2>1, <2>2, <3>1, <3>2, <3>3, <3>5, <3>a, GotoOk
    <2>7. CASE EnterGeneration
      <3>1. CASE errors
        <4>1. Completed(Top) /\ stack' = SubSeq(stack, 1, Len(stack) - 1)
          BY <2>7, <3>1 DEF EnterGeneration, Return, Completed
        <4> QED
          BY <1>a, <2>1, <2>2, <4>1, ReturnOk
      <3>2. CASE ~errors
        <4>a. PICK e : e = [Top EXCEPT !.pc = "generate"]
          OBVIOUS
        <4>1. /\ e \in Frame /\ e.fn = Top.fn /\ e.fn # None /\ e.pc = "generate"
          BY <4>a, <2>1, <2>3 DEF FnFrame, Frame
        <4>2. /\ Goto(e) /\ ret' = "none" /\ Top.pc = "consume" /\ Top.todo = {}
              /\ Top.inst = None
              /\ UNCHANGED <<prog, bodies, functionSource, instantiations, errors>>
          BY <4>a, <2>7, <3>2 DEF EnterGeneration, ControlInv, IdleFrame
        <4>3. None \notin prog.insts[Top.fn]
          BY <2>3, SymbolsAssumption
        <4>4. FrameOk(e)' /\ MetaConsumed(e, {})'
          BY <1>a, <2>1, <3>2, <4>1, <4>2, <4>3 DEF FrameOk, MetaConsumed
        <4> QED
          BY <1>a, <2>1, <2>2, <4>1, <4>2, <4>4, GotoOk
      <3> QED
        BY <3>1, <3>2
    <2> QED
      BY <1>b, <2>4, <2>5, <2>6, <2>7
  <1>3. CASE GenerateFunction
    <2>1. /\ stack # << >> /\ Top \in FnFrame
          /\ stack' = SubSeq(stack, 1, Len(stack) - 1)
      BY <1>3 DEF GenerateFunction, Return
    <2>2. Grows
      BY <1>3 DEF GenerateFunction, LookupGlobals, Grows
    <2>3. Completed(Top)
      BY <1>3, <2>1, SymbolsAssumption DEF GenerateFunction, Completed, FnFrame
    <2> QED
      BY <1>3, <1>a, <2>1, <2>2, <2>3, GenerateKeeps, ReturnOk
  <1> QED
    BY <1>1, <1>2, <1>3, <1>b

(***************************************************************************)
(* The calls of CodeExecutor.                                              *)
(***************************************************************************)
LEMMA InstantiationCalls ==
  ASSUME TypeOK, ControlInv, StackOk, TopOk,
         \/ EnterInstantiate \/ ConsumeMetaInstantiation \/ MetaInstantiationConsumed
         \/ MetaDependenciesConsumed \/ GenerateMetaFunction
  PROVE  StackOk' /\ TopOk'
  <1> USE TopTyped, FrameKind, NewFrames, ProgramTypes
      DEF Idle, At, Running, FnPCs, InstPCs, amalgamation, executor
  <1> DEFINE m == prog.decl[Top.inst]
  <1>a. /\ stack # << >> /\ Top \in InstFrame /\ CallsNest /\ FrameOk(Top)
        /\ Top.inst \in Insts /\ Top.fn = None /\ m \in Metas
        /\ Top.todo \in SUBSET Insts /\ prog.metaInsts[m] \in SUBSET Insts
    BY TopFrameOk DEF ControlInv, InstFrame, EnterInstantiate, ConsumeMetaInstantiation,
       MetaInstantiationConsumed, MetaDependenciesConsumed, GenerateMetaFunction
  <1>1. CASE EnterInstantiate
    <2>a. Kept /\ Grows
      <3>1. Advances
        BY <1>1 DEF Advances, Grows, EnterInstantiate
      <3> QED
        BY <3>1, AdvanceKeeps DEF Advances
    <2>1. CASE Top.inst \in instantiations
      <3>1. Completed(Top) /\ stack' = SubSeq(stack, 1, Len(stack) - 1)
        BY <1>1, <1>a, <2>1 DEF EnterInstantiate, Return, Completed
      <3> QED
        BY <1>a, <2>a, <3>1, ReturnOk
    <2>2. CASE Top.inst \notin instantiations /\ m \in available
      <3>1. PICK e : e = [Top EXCEPT !.pc = "jumpPad"]
        OBVIOUS
      <3>2. /\ e \in Frame /\ e.fn = None /\ e.inst = Top.inst /\ e.pc = "jumpPad"
        BY <1>a, <3>1 DEF InstFrame, Frame
      <3>3. /\ Goto(e) /\ ret' = "none"
            /\ UNCHANGED <<prog, available, instantiations>>
        BY <1>1, <2>2, <3>1 DEF EnterInstantiate
      <3>4. FrameOk(e)' /\ MetaConsumed(e, {})'
        BY <2>2, <3>2, <3>3 DEF FrameOk, MetaConsumed
      <3> QED
        BY <1>a, <2>a, <3>2, <3>3, <3>4, GotoOk
    <2>3. CASE Top.inst \notin instantiations /\ m \notin available
      <3>1. PICK e : e = [Top EXCEPT !.pc = "consumeMeta", !.todo = prog.metaInsts[m]]
        OBVIOUS
      <3>2. /\ e \in Frame /\ e.fn = None /\ e.inst = Top.inst /\ e.pc = "consumeMeta"
            /\ e.todo = prog.metaInsts[m]
        BY <1>a, <3>1 DEF InstFrame, Frame
      <3>3. /\ Goto(e) /\ ret' = "none"
            /\ UNCHANGED <<prog, available, instantiations>>
        BY <1>1, <2>3, <3>1 DEF EnterInstantiate
      <3>4. FrameOk(e)' /\ MetaConsumed(e, {})'
        BY <2>3, <3>2, <3>3 DEF FrameOk, MetaConsumed
      <3> QED
        BY <1>a, <2>a, <3>2, <3>3, <3>4, GotoOk
    <2> QED
      BY <2>1, <2>2, <2>3
  <1>2. CASE ConsumeMetaInstantiation
    <2>a. Kept /\ Grows
      <3>1. Advances
        BY <1>2 DEF Advances, Grows, ConsumeMetaInstantiation
      <3> QED
        BY <3>1, AdvanceKeeps DEF Advances
    <2>1. PICK i \in Top.todo : Call([Top EXCEPT !.todo = @ \ {i}], InstantiateOf(i))
      BY <1>2 DEF ConsumeMetaInstantiation
    <2>2. PICK e, n : e = [Top EXCEPT !.todo = @ \ {i}] /\ n = InstantiateOf(i)
      OBVIOUS
    <2>3. /\ e \in Frame /\ e.fn = None /\ e.inst = Top.inst /\ e.pc = "consumeMeta"
          /\ e.todo = Top.todo \ {i}
          /\ n \in Frame /\ n.pc = "instantiate" /\ n.inst = i
      BY <1>2, <1>a, <2>2 DEF ConsumeMetaInstantiation, InstFrame, Frame, InstantiateOf
    <2>4. /\ ret' = "none" /\ Top.pc = "consumeMeta"
          /\ UNCHANGED <<prog, available, instantiations, errors>>
      BY <1>2 DEF ConsumeMetaInstantiation
    <2>5. FrameOk(e)' /\ FrameOk(n)'
      BY <1>a, <2>3, <2>4 DEF FrameOk
    <2>6. MetaConsumed(Top, {}) /\ i \in prog.metaInsts[m]
      BY <1>a, <2>4 DEF TopOk, FrameOk
    <2>7. LinkOk(e, n)'
      BY <2>3, <2>4, <2>6 DEF LinkOk, MetaConsumed
    <2> QED
      BY <1>a, <2>a, <2>1, <2>2, <2>3, <2>4, <2>5, <2>7, CallOk
  <1>3. CASE MetaInstantiationConsumed
    <2>a. Kept /\ Grows
      <3>1. Advances
        BY <1>3 DEF Advances, Grows, MetaInstantiationConsumed
      <3> QED
        BY <3>1, AdvanceKeeps DEF Advances
    <2>1. PICK T \in SUBSET Insts :
            /\ Goto([Top EXCEPT !.todo = T]) /\ T \subseteq Top.todo
            /\ ~errors => T = Top.todo
      <3>1. ret # "ok" => errors
        BY <1>3 DEF MetaInstantiationConsumed, ControlInv, FailedMeansError, TypeOK
      <3>2. CASE ret = "ok"
        BY <1>3, <1>a, <3>2 DEF MetaInstantiationConsumed
      <3>3. CASE ret # "ok"
        <4>1. Goto([Top EXCEPT !.todo = {}])
          BY <1>3, <3>3 DEF MetaInstantiationConsumed
        <4>2. {} \in SUBSET Insts /\ {} \subseteq Top.todo /\ errors
          BY <3>1, <3>3
        <4> QED
          BY <4>1, <4>2
      <3> QED
        BY <3>2, <3>3
    <2>2. PICK e : e = [Top EXCEPT !.todo = T]
      OBVIOUS
    <2>3. /\ e \in Frame /\ e.fn = None /\ e.inst = Top.inst /\ e.pc = "consumeMeta"
          /\ e.todo = T
      BY <1>3, <1>a, <2>2 DEF MetaInstantiationConsumed, InstFrame, Frame
    <2>4. /\ ret' = "none" /\ Top.pc = "consumeMeta"
          /\ UNCHANGED <<prog, available, instantiations, errors>>
      BY <1>3 DEF MetaInstantiationConsumed
    <2>5. MetaConsumed(Top, {})
      BY <1>a DEF TopOk
    <2>6. FrameOk(e)' /\ MetaConsumed(e, {})'
      BY <1>a, <2>1, <2>3, <2>4, <2>5 DEF FrameOk, MetaConsumed
    <2> QED
      BY <1>a, <2>a, <2>1, <2>2, <2>3, <2>4, <2>6, GotoOk
  <1>4. CASE MetaDependenciesConsumed
    <2>a. Kept /\ Grows
      <3>1. Advances
        BY <1>4 DEF Advances, Grows, MetaDependenciesConsumed
      <3> QED
        BY <3>1, AdvanceKeeps DEF Advances
    <2>1. CASE errors
      <3>1. Completed(Top) /\ stack' = SubSeq(stack, 1, Len(stack) - 1)
        BY <1>4, <2>1 DEF MetaDependenciesConsumed, Return, Completed
      <3> QED
        BY <1>a, <2>a, <3>1, ReturnOk
    <2>2. CASE ~errors
      <3>1. PICK e : e = [Top EXCEPT !.pc = "jumpPad"]
        OBVIOUS
      <3>2. e \in Frame /\ e.fn = None /\ e.inst = Top.inst /\ e.pc = "jumpPad"
        BY <1>a, <3>1 DEF InstFrame, Frame
      <3>3. /\ Goto(e) /\ ret' = "none" /\ Top.pc = "consumeMeta" /\ m \in available
            /\ UNCHANGED <<prog, available, instantiations>>
        BY <1>4, <2>2, <3>1 DEF MetaDependenciesConsumed
      <3>4. FrameOk(e)' /\ MetaConsumed(e, {})'
        BY <1>a, <3>2, <3>3 DEF FrameOk, MetaConsumed
      <3> QED
        BY <1>a, <2>a, <3>2, <3>3, <3>4, GotoOk
    <2> QED
      BY <2>1, <2>2
  <1>5. CASE GenerateMetaFunction
    <2>1. PICK e : e = [Top EXCEPT !.pc = "jumpPad"]
      OBVIOUS
    <2>2. e \in Frame /\ e.fn = None /\ e.inst = Top.inst /\ e.pc = "jumpPad"
      BY <1>a, <2>1 DEF InstFrame, Frame
    <2>3. /\ Goto(e) /\ ret' = "none" /\ Top.pc = "consumeMeta"
          /\ available' = available \cup {m} /\ UNCHANGED <<prog, instantiations>>
      BY <1>5, <2>1 DEF GenerateMetaFunction
    <2>4. FrameOk(e)' /\ MetaConsumed(e, {})'
      BY <1>a, <2>2, <2>3 DEF FrameOk, MetaConsumed
    <2>5. Grows
      BY <1>5 DEF GenerateMetaFunction, LookupGlobals, Grows
    <2> QED
      BY <1>5, <1>a, <2>2, <2>3, <2>4, <2>5, MetaFunctionKeeps, GotoOk
  <1> QED
    BY <1>1, <1>2, <1>3, <1>4, <1>5

\* The calls of CodeExecutor behind the generation of the meta function
LEMMA ShipmentCalls ==
  ASSUME TypeOK, ControlInv, JitInv, OnceInv, Running',
         \/ CreateJumpPad \/ ResolveDependency \/ DependencyResolved \/ ShipToJIT \/ Invoke
  PROVE  StackOk' /\ TopOk'
  <1> USE TopTyped, FrameKind, NewFrames
      DEF Idle, At, Running, FnPCs, InstPCs, amalgamation, executor
  <1>a. /\ stack # << >> /\ Top \in InstFrame /\ CallsNest /\ StackOk /\ TopOk
        /\ Top.inst \in Insts /\ Top.fn = None
    BY DEF ControlInv, InstFrame, OnceInv, StackOk, CreateJumpPad, ResolveDependency,
       DependencyResolved, ShipToJIT, Invoke
  <1>b. FrameOk(Top)
    BY <1>a, TopFrameOk
  <1>1. CASE CreateJumpPad
    <2>1. PICK e : e = [Top EXCEPT !.pc = "ship"]
      OBVIOUS
    <2>2. e \in Frame /\ e.fn = None /\ e.inst = Top.inst /\ e.pc = "ship"
      BY <1>a, <2>1 DEF InstFrame, Frame
    <2>3. /\ Goto(e) /\ ret' = "none" /\ Top.pc = "jumpPad"
          /\ shipment' = shipment \cup {Top.inst}
          /\ UNCHANGED <<prog, bodies, functionSource, available, jit, instantiations, errors>>
      BY <1>1, <2>1 DEF CreateJumpPad
    <2>4. FrameOk(e)' /\ MetaConsumed(e, {})'
      BY <1>b, <2>2, <2>3 DEF FrameOk, MetaConsumed
    <2>5. Advances
      BY <2>3 DEF Advances, Grows
    <2> QED
      BY <1>a, <2>2, <2>3, <2>4, <2>5, AdvanceKeeps, GotoOk DEF Advances
  <1>2. CASE ResolveDependency
    <2>1. PICK u \in unresolved : Call([Top EXCEPT !.dep = u[2]], CodegenOf(u[2]))
      BY <1>2 DEF ResolveDependency
    <2>2. PICK e, n : e = [Top EXCEPT !.dep = u[2]] /\ n = CodegenOf(u[2])
      OBVIOUS
    <2>3. u[2] \in Fns
      BY DEF TypeOK
    <2>4. /\ e \in Frame /\ e.fn = None /\ e.inst = Top.inst /\ e.pc = "ship"
          /\ n \in Frame /\ n.pc = "codegen"
      BY <1>2, <1>a, <2>2, <2>3 DEF ResolveDependency, InstFrame, Frame, CodegenOf
    <2>5. /\ ret' = "none" /\ Top.pc = "ship"
          /\ UNCHANGED <<prog, bodies, functionSource, available, shipment, jit,
                         instantiations, errors>>
      BY <1>2 DEF ResolveDependency
    <2>6. FrameOk(e)' /\ FrameOk(n)' /\ LinkOk(e, n)'
      BY <1>b, <2>4, <2>5 DEF FrameOk, LinkOk, MetaConsumed
    <2>7. Advances
      BY <2>5 DEF Advances, Grows
    <2> QED
      BY <1>a, <2>1, <2>2, <2>4, <2>5, <2>6, <2>7, AdvanceKeeps, CallOk DEF Advances
  <1>3. CASE DependencyResolved /\ ret # "ok"
    <2>1. ret = "fail" /\ errors
      BY <1>3 DEF DependencyResolved, TypeOK, ControlInv, FailedMeansError
    <2>2. /\ stack' = SubSeq(stack, 1, Len(stack) - 1)
          /\ Advances /\ Completed(Top)
      BY <1>3, <2>1
      DEF DependencyResolved, DependencyNotResolved, Return, Advances, Grows, Completed
    <2> QED
      BY <1>a, <2>2, AdvanceKeeps, ReturnOk DEF Advances
  <1>4. CASE DependencyResolved /\ ret = "ok"
    <2>1. PICK e : e = [Top EXCEPT !.dep = None]
      OBVIOUS
    <2>2. e \in Frame /\ e.fn = None /\ e.inst = Top.inst /\ e.pc = "ship"
      BY <1>4, <1>a, <2>1 DEF DependencyResolved, InstFrame, Frame
    <2>3. Top.dep \in Fns
      BY <1>4, <1>a DEF DependencyResolved, InstFrame
    <2>4. /\ Goto(e) /\ ret' = "none" /\ Top.pc = "ship"
          /\ shipment' = shipment \cup {Top.dep} /\ available' = available \cup {Top.dep}
          /\ UNCHANGED <<prog, bodies, functionSource, jit, instantiations, errors>>
      BY <1>4, <2>1 DEF DependencyResolved, Pull
    <2>5. FrameOk(e)' /\ MetaConsumed(e, {})'
      BY <1>b, <2>2, <2>4 DEF FrameOk, MetaConsumed
    <2>6. Advances
      BY <2>3, <2>4, SymbolsAssumption DEF Advances, Grows
    <2> QED
      BY <1>a, <2>2, <2>4, <2>5, <2>6, AdvanceKeeps, GotoOk DEF Advances
  <1>5. CASE ShipToJIT
    <2>1. PICK e : e = [Top EXCEPT !.pc = "invoke"]
      OBVIOUS
    <2>2. e \in Frame /\ e.fn = None /\ e.inst = Top.inst /\ e.pc = "invoke"
      BY <1>a, <2>1 DEF InstFrame, Frame
    <2>3. /\ Goto(e) /\ ret' = "none" /\ Top.pc = "ship"
          /\ shipment' = {} /\ jit' = jit \cup shipment
          /\ UNCHANGED <<prog, bodies, functionSource, available, instantiations, errors>>
      BY <1>5, <2>1 DEF ShipToJIT
    <2>4. FrameOk(e)' /\ MetaConsumed(e, {})'
      BY <1>b, <2>2, <2>3 DEF FrameOk, MetaConsumed
    <2>5. Advances
      BY <2>3 DEF Advances, Grows
    <2> QED
      BY <1>a, <2>2, <2>3, <2>4, <2>5, AdvanceKeeps, GotoOk DEF Advances
  <1>6. CASE Invoke
    <2>1. /\ stack' = SubSeq(stack, 1, Len(stack) - 1)
          /\ Grows /\ Completed(Top)
      BY <1>6, <1>a DEF Invoke, Return, Grows, Completed
    <2> QED
      BY <1>6, <1>a, <2>1, InvokeKeeps, ReturnOk
  <1> QED
    BY <1>1, <1>2, <1>3, <1>4, <1>5, <1>6

(***************************************************************************)
(* The invariant, and what it shows.                                       *)
(***************************************************************************)
LEMMA OnceStep ==
  ASSUME TypeOK, ControlInv, JitInv, OnceInv, [Next]_vars
  PROVE  OnceInv'
  <1>1. CASE UNCHANGED vars
    <2>1. /\ UNCHANGED <<prog, bodies, functionSource, available, unresolved, shipment>>
          /\ UNCHANGED <<jit, instantiations, errors, stack, ret, status>>
      BY <1>1 DEF vars
    <2>2. /\ (\A k \in 1 .. Len(stack) : FrameOk(stack[k]))
            => (\A k \in 1 .. Len(stack) : FrameOk(stack[k]))'
          /\ (\A k \in 1 .. Len(stack) - 1 : LinkOk(stack[k], stack[k+1]))
            => (\A k \in 1 .. Len(stack) - 1 : LinkOk(stack[k], stack[k+1]))'
      BY <2>1 DEF FrameOk, LinkOk, MetaConsumed
    <2>3. (TopOk => TopOk') /\ (SourceOk => SourceOk')
      BY <2>1 DEF TopOk, Top, MetaConsumed, SourceOk, FnRefs, ExportsOf
    <2>4. NeededOk => NeededOk'
      <3>1. Resolving' = Resolving
        BY <2>1 DEF Resolving
      <3> QED
        BY <2>1, <3>1, NeededKept
    <2> QED
      BY <2>1, <2>2, <2>3, <2>4 DEF OnceInv, Running
  <1>2. CASE Next /\ Running'
    <2>1. CASE Ended
      BY <1>2, <2>1 DEF Ended, Running, vars
    <2>2. CASE ~Ended
      <3>1. Running /\ StackOk /\ TopOk /\ NeededOk /\ SourceOk
        <4>1. Running
          BY <1>2, <2>2
          DEF Next, Running, At, Idle, PopDependency, DependencyReturned,
              FinishGeneration, EnterFunction, ConsumeInstantiation,
              InstantiationConsumed, EnterGeneration, GenerateFunction,
              EnterInstantiate, ConsumeMetaInstantiation, MetaInstantiationConsumed,
              MetaDependenciesConsumed, GenerateMetaFunction, CreateJumpPad,
              ResolveDependency, DependencyResolved, ShipToJIT, Invoke
        <4> QED
          BY <4>1 DEF OnceInv, StackOk
      <3>2. StackOk' /\ TopOk'
        BY <1>2, <2>2, <3>1, AmalgamationCalls, InstantiationCalls, ShipmentCalls DEF Next
      <3>3. NeededOk'
        BY <1>2, <2>2, <3>1, QuietNeeded, ShipmentNeeded DEF Next
      <3>4. SourceOk'
        BY <1>2, <3>1, SourceStep
      <3> QED
        BY <3>2, <3>3, <3>4 DEF OnceInv, StackOk
    <2> QED
      BY <2>1, <2>2
  <1> QED
    BY <1>1, <1>2 DEF OnceInv

\* What every reachable state satisfies: the types, how calls nest, what the
\* executor's sets hold, and what the calls in progress rely on
EngineInv == TypeOK /\ ControlInv /\ JitInv /\ OnceInv

\* The invariants of the engine, together
LEMMA EngineInvariant == Spec => []EngineInv
  <1>1. Init => OnceInv
    BY DEF Init, OnceInv, TopOk, NeededOk, Needed, SourceOk, Resolving
  <1>2. TypeOK /\ ControlInv /\ JitInv /\ OnceInv /\ [Next]_vars => OnceInv'
    BY OnceStep
  <1> QED
    BY <1>1, <1>2, TypeCorrect, ControlCorrect, JitCorrect, PTL DEF Spec, EngineInv

\* Only complete functions are pulled, those the source map knows, and no body
\* and no jump pad comes a second time: the assertions of FunctionCodegen (an
\* empty function), CodeExecutor::pull and CodeExecutor::instantiate hold
THEOREM ConsistentGeneration == Spec => []GenerationConsistent
  <1>1. Init => GenerationConsistent
    BY DEF Init, GenerationConsistent
  <1>2. ASSUME EngineInv, GenerationConsistent, [Next]_vars PROVE GenerationConsistent'
    <2> USE DEF Idle, At, Running
    <2>1. /\ TypeOK
          /\ Running => StackOk /\ TopOk /\ SourceOk
      BY <1>2 DEF EngineInv, OnceInv, StackOk
    <2>2. Running /\ stack # << >> => FrameOk(Top)
      BY <2>1, TopFrameOk
    <2>3. CASE UNCHANGED vars
      BY <1>2, <2>3 DEF vars, GenerationConsistent
    <2>4. CASE GenerateFunction
      <3>1. Top.fn \notin bodies
        BY <2>2, <2>4 DEF GenerateFunction, FrameOk
      <3> QED
        BY <1>2, <2>4, <3>1 DEF GenerateFunction, Check, GenerationConsistent
    <2>5. CASE ResolveDependency
      <3>1. PICK u \in unresolved : Check(u[1] = "decl" \/ u[2] \in functionSource, "notInSourceMap")
        BY <2>5 DEF ResolveDependency
      <3>2. u[1] = "decl" \/ u[2] \in functionSource
        BY <2>1, <2>5 DEF ResolveDependency, SourceOk, TypeOK
      <3> QED
        BY <1>2, <3>1, <3>2 DEF Check, GenerationConsistent
    <2>6. CASE DependencyResolved
      <3>1. ret = "ok" => Top.dep \in bodies
        BY <2>1, <2>6 DEF DependencyResolved, TopOk
      <3> QED
        BY <1>2, <2>6, <3>1
        DEF DependencyResolved, Pull, DependencyNotResolved, Check, GenerationConsistent
    <2>7. CASE Invoke
      <3>1. Top.inst \notin instantiations
        BY <2>2, <2>7 DEF Invoke, FrameOk, InstPCs
      <3> QED
        BY <1>2, <2>7, <3>1 DEF Invoke, Check, GenerationConsistent
    <2>8. CASE \/ PopDependency \/ DependencyReturned \/ FinishGeneration
               \/ EnterFunction \/ ConsumeInstantiation \/ InstantiationConsumed
               \/ EnterGeneration
      BY <1>2, <2>8 DEF PopDependency, DependencyReturned, FinishGeneration, EnterFunction,
         ConsumeInstantiation, InstantiationConsumed, EnterGeneration, Check,
         GenerationConsistent
    <2>9. CASE \/ EnterInstantiate \/ ConsumeMetaInstantiation
               \/ MetaInstantiationConsumed \/ MetaDependenciesConsumed
               \/ GenerateMetaFunction \/ CreateJumpPad \/ ShipToJIT
      BY <1>2, <2>9 DEF EnterInstantiate, ConsumeMetaInstantiation,
         MetaInstantiationConsumed, MetaDependenciesConsumed, GenerateMetaFunction,
         RequireExports, CreateJumpPad, ShipToJIT, GenerationConsistent
    <2> QED
      BY <1>2, <2>3, <2>4, <2>5, <2>6, <2>7, <2>8, <2>9 DEF Next, Ended
  <1> QED
    BY <1>1, <1>2, EngineInvariant, PTL DEF Spec

(***************************************************************************)
(* The amalgamation is complete.                                           *)
(***************************************************************************)
\* The functions whose codegen is in progress
ActiveFns == {stack[k].fn : k \in 1 .. Len(stack)}

\* A call goes on, calls another one or has completed its function
CallsGoOn ==
  \/ \E e \in Frame : Goto(e) /\ e.fn = Top.fn
  \/ \E e, n \in Frame : Call(e, n) /\ e.fn = Top.fn
  \/ stack' = SubSeq(stack, 1, Len(stack) - 1) /\ Completed(Top)

\* A function that is being generated stays so until its body is complete
LEMMA ActiveKept ==
  ASSUME TypeOK, stack # << >>, CallsGoOn
  PROVE  \A f \in ActiveFns : f \in ActiveFns' \/ (f = Top.fn /\ Completed(Top))
  <1>1. CASE \E e \in Frame : Goto(e) /\ e.fn = Top.fn
    <2>1. PICK e \in Frame : Goto(e) /\ e.fn = Top.fn
      BY <1>1
    <2>2. /\ Len(stack') = Len(stack) /\ Len(stack) \in Nat \ {0}
          /\ stack'[Len(stack)] = e
          /\ \A k \in 1 .. Len(stack) - 1 : stack'[k] = stack[k]
      BY <2>1, FramesTyped, GotoStack DEF Goto
    <2>3. \A k \in 1 .. Len(stack) : stack'[k].fn = stack[k].fn /\ k \in 1 .. Len(stack')
      BY <2>1, <2>2 DEF Top
    <2>4. ASSUME NEW f \in ActiveFns PROVE f \in ActiveFns'
      <3>1. PICK k \in 1 .. Len(stack) : f = stack[k].fn
        BY DEF ActiveFns
      <3> QED
        BY <2>3, <3>1 DEF ActiveFns
    <2> QED
      BY <2>4
  <1>2. CASE \E e, n \in Frame : Call(e, n) /\ e.fn = Top.fn
    <2>1. PICK e \in Frame, n \in Frame : Call(e, n) /\ e.fn = Top.fn
      BY <1>2
    <2>2. /\ Len(stack') = Len(stack) + 1 /\ Len(stack) \in Nat \ {0}
          /\ stack'[Len(stack)] = e
          /\ \A k \in 1 .. Len(stack) - 1 : stack'[k] = stack[k]
      BY <2>1, FramesTyped, CallStack DEF Call
    <2>3. \A k \in 1 .. Len(stack) : stack'[k].fn = stack[k].fn /\ k \in 1 .. Len(stack')
      BY <2>1, <2>2 DEF Top
    <2>4. ASSUME NEW f \in ActiveFns PROVE f \in ActiveFns'
      <3>1. PICK k \in 1 .. Len(stack) : f = stack[k].fn
        BY DEF ActiveFns
      <3> QED
        BY <2>3, <3>1 DEF ActiveFns
    <2> QED
      BY <2>4
  <1>3. CASE stack' = SubSeq(stack, 1, Len(stack) - 1) /\ Completed(Top)
    <2>1. PICK N \in Nat \ {0} : N = Len(stack)
      BY FramesTyped, ReturnStack
    <2>2. Len(stack') = N - 1 /\ \A k \in 1 .. N - 1 : stack'[k] = stack[k]
      BY <1>3, <2>1, FramesTyped, ReturnStack
    <2>3. \A k \in 1 .. N : k \in 1 .. N - 1 \/ stack[k] = Top
      BY <2>1 DEF Top
    <2> QED
      BY <1>3, <2>1, <2>2, <2>3 DEF ActiveFns
  <1> QED
    BY <1>1, <1>2, <1>3 DEF CallsGoOn

\* Every step but those of the worklist
LEMMA EveryCallGoesOn ==
  ASSUME TypeOK, ControlInv, Next, Running,
         ~(PopDependency \/ DependencyReturned \/ FinishGeneration)
  PROVE  stack # << >> /\ Top \in Frame /\ CallsGoOn
  <1> USE TopTyped, FrameKind, NewFrames, ProgramTypes
      DEF Idle, At, Running, FnPCs, InstPCs, amalgamation, executor
  <1>1. stack # << >> /\ Top \in Frame
    BY DEF Next, Ended, EnterFunction, ConsumeInstantiation, InstantiationConsumed,
       EnterGeneration, GenerateFunction, EnterInstantiate, ConsumeMetaInstantiation,
       MetaInstantiationConsumed, MetaDependenciesConsumed, GenerateMetaFunction,
       CreateJumpPad, ResolveDependency, DependencyResolved, ShipToJIT, Invoke
  <1>2. Top.pc \in FnPCs => Top.fn \in Fns /\ Top.fn # None
    BY <1>1, SymbolsAssumption DEF FnFrame
  <1>3. Top.pc \in InstPCs => Top.fn = None /\ Top.inst \in Insts
    BY <1>1 DEF InstFrame
  <1>4. CASE EnterFunction
    <2>1. CASE Top.fn \in bodies
      BY <1>2, <1>4, <2>1 DEF EnterFunction, Return, Completed, CallsGoOn
    <2>2. CASE Top.fn \notin bodies
      <3> DEFINE e == [Top EXCEPT !.pc = "consume", !.todo = prog.insts[Top.fn]]
      <3>1. Top \in FnFrame /\ prog.insts[Top.fn] \subseteq Insts /\ Goto(e)
        BY <1>1, <1>2, <1>4, <2>2 DEF EnterFunction
      <3>2. e \in Frame /\ e.fn = Top.fn
        BY <3>1 DEF FnFrame, Frame
      <3> QED
        BY <1>1, <3>1, <3>2 DEF CallsGoOn
    <2> QED
      BY <1>1, <2>1, <2>2
  <1>5. CASE ConsumeInstantiation
    <2>1. PICK i \in Top.todo :
            Call([Top EXCEPT !.todo = @ \ {i}, !.inst = i], InstantiateOf(i))
      BY <1>5 DEF ConsumeInstantiation
    <2> DEFINE e == [Top EXCEPT !.todo = @ \ {i}, !.inst = i]
    <2>a. Top \in FnFrame /\ i \in Insts
      BY <1>1, <1>5 DEF ConsumeInstantiation, FnFrame
    <2>2. e \in Frame /\ e.fn = Top.fn /\ InstantiateOf(i) \in Frame
      BY <2>a DEF FnFrame, Frame
    <2> QED
      BY <1>1, <2>1, <2>2 DEF CallsGoOn
  <1>6. CASE InstantiationConsumed
    <2>1. PICK T \in SUBSET Insts : Goto([Top EXCEPT !.inst = None, !.todo = T])
      <3>1. Top.todo \in SUBSET Insts
        BY <1>1 DEF Frame, FnFrame, InstFrame
      <3>2. Goto([Top EXCEPT !.inst = None, !.todo = @]) \/ Goto([Top EXCEPT !.inst = None, !.todo = {}])
        BY <1>6 DEF InstantiationConsumed
      <3> QED
        BY <3>1, <3>2
    <2> DEFINE e == [Top EXCEPT !.inst = None, !.todo = T]
    <2>a. Top \in FnFrame
      BY <1>1, <1>6 DEF InstantiationConsumed
    <2>2. e \in Frame /\ e.fn = Top.fn
      BY <2>a DEF FnFrame, Frame
    <2> QED
      BY <1>1, <2>1, <2>2 DEF CallsGoOn
  <1>7. CASE EnterGeneration
    <2>1. CASE errors
      BY <1>1, <1>7, <2>1 DEF EnterGeneration, Return, Completed, CallsGoOn
    <2>2. CASE ~errors
      <3> DEFINE e == [Top EXCEPT !.pc = "generate"]
      <3>1. e \in Frame /\ e.fn = Top.fn /\ Goto(e)
        BY <1>1, <1>7, <2>2 DEF EnterGeneration, FnFrame, Frame
      <3> QED
        BY <1>1, <3>1 DEF CallsGoOn
    <2> QED
      BY <2>1, <2>2
  <1>8. CASE GenerateFunction
    BY <1>1, <1>2, <1>8 DEF GenerateFunction, Return, Completed, CallsGoOn
  <1>9. CASE EnterInstantiate
    <2>1. CASE Top.inst \in instantiations
      BY <1>1, <1>3, <1>9, <2>1 DEF EnterInstantiate, Return, Completed, CallsGoOn
    <2>2. CASE Top.inst \notin instantiations
      <3> DEFINE m == prog.decl[Top.inst]
                 e == [Top EXCEPT !.pc = "jumpPad"]
                 c == [Top EXCEPT !.pc = "consumeMeta", !.todo = prog.metaInsts[m]]
      <3>1. Goto(e) \/ Goto(c)
        BY <1>9, <2>2 DEF EnterInstantiate
      <3>2. e \in Frame /\ e.fn = Top.fn
        BY <1>1, <1>9 DEF EnterInstantiate, InstFrame, Frame
      <3>3. c \in Frame /\ c.fn = Top.fn
        <4>1. Top \in InstFrame /\ prog.metaInsts[m] \subseteq Insts
          BY <1>1, <1>3, <1>9 DEF EnterInstantiate
        <4> QED
          BY <4>1 DEF InstFrame, Frame
      <3> QED
        BY <1>1, <3>1, <3>2, <3>3 DEF CallsGoOn
    <2> QED
      BY <2>1, <2>2
  <1>10. CASE ConsumeMetaInstantiation
    <2>1. PICK i \in Top.todo : Call([Top EXCEPT !.todo = @ \ {i}], InstantiateOf(i))
      BY <1>10 DEF ConsumeMetaInstantiation
    <2> DEFINE e == [Top EXCEPT !.todo = @ \ {i}]
    <2>2. e \in Frame /\ e.fn = Top.fn /\ InstantiateOf(i) \in Frame
      BY <1>1, <1>10 DEF ConsumeMetaInstantiation, InstFrame, Frame
    <2> QED
      BY <1>1, <2>1, <2>2 DEF CallsGoOn
  <1>11. CASE MetaInstantiationConsumed
    <2>1. Goto([Top EXCEPT !.todo = @]) \/ Goto([Top EXCEPT !.todo = {}])
      BY <1>11 DEF MetaInstantiationConsumed
    <2>2. \A T \in SUBSET Insts :
            [Top EXCEPT !.todo = T] \in Frame /\ [Top EXCEPT !.todo = T].fn = Top.fn
      BY <1>1 DEF InstFrame, FnFrame, Frame
    <2>3. Top.todo \in SUBSET Insts
      BY <1>1 DEF Frame, FnFrame, InstFrame
    <2> QED
      BY <1>1, <2>1, <2>2, <2>3 DEF CallsGoOn
  <1>12. CASE MetaDependenciesConsumed
    <2>1. CASE errors
      BY <1>1, <1>12, <2>1 DEF MetaDependenciesConsumed, Return, Completed, CallsGoOn
    <2>2. CASE ~errors
      <3> DEFINE e == [Top EXCEPT !.pc = "jumpPad"]
      <3>1. e \in Frame /\ e.fn = Top.fn /\ Goto(e)
        BY <1>1, <1>12, <2>2 DEF MetaDependenciesConsumed, InstFrame, Frame
      <3> QED
        BY <1>1, <3>1 DEF CallsGoOn
    <2> QED
      BY <2>1, <2>2
  <1>13. CASE GenerateMetaFunction
    <2> DEFINE e == [Top EXCEPT !.pc = "jumpPad"]
    <2>1. e \in Frame /\ e.fn = Top.fn /\ Goto(e)
      BY <1>1, <1>13 DEF GenerateMetaFunction, InstFrame, Frame
    <2> QED
      BY <1>1, <2>1 DEF CallsGoOn
  <1>14. CASE CreateJumpPad
    <2> DEFINE e == [Top EXCEPT !.pc = "ship"]
    <2>1. e \in Frame /\ e.fn = Top.fn /\ Goto(e)
      BY <1>1, <1>14 DEF CreateJumpPad, InstFrame, Frame
    <2> QED
      BY <1>1, <2>1 DEF CallsGoOn
  <1>15. CASE ResolveDependency
    <2>1. PICK u \in unresolved : Call([Top EXCEPT !.dep = u[2]], CodegenOf(u[2]))
      BY <1>15 DEF ResolveDependency
    <2> DEFINE e == [Top EXCEPT !.dep = u[2]]
    <2>2. u[2] \in Fns
      BY DEF TypeOK
    <2>3. e \in Frame /\ e.fn = Top.fn /\ CodegenOf(u[2]) \in Frame
      BY <1>1, <1>15, <2>2 DEF ResolveDependency, InstFrame, Frame
    <2> QED
      BY <1>1, <2>1, <2>3 DEF CallsGoOn
  <1>16. CASE DependencyResolved /\ ret # "ok"
    <2>1. ret = "fail" /\ errors
      BY <1>16 DEF DependencyResolved, TypeOK, ControlInv, FailedMeansError
    <2> QED
      BY <1>1, <1>16, <2>1
      DEF DependencyResolved, DependencyNotResolved, Return, Completed, CallsGoOn
  <1>17. CASE DependencyResolved /\ ret = "ok"
    <2> DEFINE e == [Top EXCEPT !.dep = None]
    <2>1. e \in Frame /\ e.fn = Top.fn /\ Goto(e)
      BY <1>1, <1>17 DEF DependencyResolved, Pull, InstFrame, Frame
    <2> QED
      BY <1>1, <2>1 DEF CallsGoOn
  <1>18. CASE ShipToJIT
    <2> DEFINE e == [Top EXCEPT !.pc = "invoke"]
    <2>1. e \in Frame /\ e.fn = Top.fn /\ Goto(e)
      <3>1. Top.dep = None \/ Top.dep \in Fns
        BY <1>1 DEF Frame, FnFrame, InstFrame
      <3> QED
        BY <1>1, <1>18, <3>1 DEF ShipToJIT, InstFrame, Frame
    <2> QED
      BY <1>1, <2>1 DEF CallsGoOn
  <1>19. CASE Invoke
    <2>1. stack' = SubSeq(stack, 1, Len(stack) - 1) /\ Completed(Top)
      BY <1>3, <1>19 DEF Invoke, Return, Completed
    <2> QED
      BY <1>1, <2>1 DEF CallsGoOn
  <1> QED
    BY <1>4, <1>5, <1>6, <1>7, <1>8, <1>9, <1>10, <1>11, <1>12, <1>13, <1>14,
       <1>15, <1>16, <1>17, <1>18, <1>19, <1>1 DEF Next, Ended

\* The worklist and the calls in progress know what is missing
LEMMA QueuedStep ==
  ASSUME EngineInv, Queued, [Next]_vars
  PROVE  Queued'
  <1> USE DEF Idle, At, Running, amalgamation, executor
  <1> DEFINE Wanted == Globals \cup UNION {FnRefs(g) : g \in bodies}
  <1>a. /\ TypeOK /\ ControlInv
        /\ Running /\ ~errors => Wanted \subseteq bodies \cup dependencies \cup ActiveFns
    BY DEF EngineInv, Queued, ActiveFns
  <1>b. Wanted \subseteq Fns /\ None \notin Wanted
    BY <1>a, ProgramTypes, SymbolsAssumption DEF TypeOK, Fns
  <1>1. CASE UNCHANGED vars
    BY <1>1 DEF vars, Queued, FnRefs, ExportsOf
  <1>2. CASE PopDependency
    <2>1. PICK d \in dependencies :
            /\ dependencies' = dependencies \ {d}
            /\ stack' = IF d \in Fns THEN <<CodegenOf(d)>> ELSE << >>
      BY <1>2 DEF PopDependency
    <2>2. UNCHANGED <<prog, bodies, errors, status>> /\ stack = << >>
      BY <1>2 DEF PopDependency
    <2>3. d \in Fns => d \in ActiveFns'
      BY <2>1 DEF ActiveFns, CodegenOf
    <2>4. ActiveFns = {} /\ Wanted' = Wanted
      BY <2>2 DEF ActiveFns, FnRefs, ExportsOf
    <2>5. ~errors /\ Running => Wanted' \subseteq bodies' \cup dependencies' \cup ActiveFns'
      BY <1>a, <1>b, <2>1, <2>2, <2>3, <2>4
    <2> QED
      BY <2>2, <2>5 DEF Queued, ActiveFns
  <1>3. CASE DependencyReturned \/ FinishGeneration
    <2>1. UNCHANGED <<prog, bodies, dependencies, errors, stack>> /\ Running
      BY <1>3 DEF DependencyReturned, FinishGeneration
    <2> QED
      BY <2>1 DEF Queued, FnRefs, ExportsOf
  <1>4. CASE Next /\ ~(PopDependency \/ DependencyReturned \/ FinishGeneration)
             /\ Running' /\ ~errors'
    <2>1. Running /\ ~errors
      <3>1. Running
        BY <1>4 DEF Next, Ended, vars, EnterFunction, ConsumeInstantiation,
           InstantiationConsumed, EnterGeneration, GenerateFunction, EnterInstantiate,
           ConsumeMetaInstantiation, MetaInstantiationConsumed,
           MetaDependenciesConsumed, GenerateMetaFunction, CreateJumpPad,
           ResolveDependency, DependencyResolved, ShipToJIT, Invoke
      <3>2. errors => errors'
        BY <1>4 DEF Next, Ended, vars, EnterFunction, ConsumeInstantiation,
           InstantiationConsumed, EnterGeneration, GenerateFunction, EnterInstantiate,
           ConsumeMetaInstantiation, MetaInstantiationConsumed,
           MetaDependenciesConsumed, GenerateMetaFunction, CreateJumpPad,
           ResolveDependency, DependencyResolved, DependencyNotResolved, Pull,
           ShipToJIT, Invoke
      <3> QED
        BY <1>4, <3>1, <3>2
    <2>2. \A f \in ActiveFns : f \in ActiveFns' \/ (f = Top.fn /\ Completed(Top))
      BY <1>4, <1>a, <2>1, EveryCallGoesOn, ActiveKept
    <2>3. \A f \in ActiveFns \ {None} : f \in ActiveFns' \cup bodies'
      BY <1>4, <2>2 DEF Completed
    <2>4. CASE GenerateFunction
      <3> DEFINE f == Top.fn
      <3>1. prog' = prog /\ bodies' = bodies \cup {f}
            /\ dependencies' = dependencies \cup (FnRefs(f) \ (bodies \cup {f}))
        BY <2>4 DEF GenerateFunction, LookupGlobals
      <3>2. \A g : FnRefs(g)' = FnRefs(g)
        BY <3>1 DEF FnRefs, ExportsOf
      <3>3. Wanted' \subseteq Wanted \cup FnRefs(f)
        BY <3>1, <3>2
      <3>4. Wanted \subseteq bodies' \cup dependencies' \cup ActiveFns'
        BY <1>a, <1>b, <2>1, <2>3, <3>1
      <3> QED
        BY <3>1, <3>3, <3>4 DEF Queued, ActiveFns
    <2>5. CASE ~GenerateFunction
      <3>1. UNCHANGED <<prog, bodies>> /\ dependencies \subseteq dependencies'
        BY <1>4, <2>5 DEF Next, Ended, vars, EnterFunction, ConsumeInstantiation,
           InstantiationConsumed, EnterGeneration, EnterInstantiate,
           ConsumeMetaInstantiation, MetaInstantiationConsumed,
           MetaDependenciesConsumed, GenerateMetaFunction, CreateJumpPad,
           ResolveDependency, DependencyResolved, DependencyNotResolved, Pull,
           ShipToJIT, Invoke, LookupGlobals
      <3>2. Wanted' = Wanted
        BY <3>1 DEF FnRefs, ExportsOf
      <3>3. Wanted \subseteq bodies' \cup dependencies' \cup ActiveFns'
        BY <1>a, <1>b, <2>1, <2>3, <3>1
      <3> QED
        BY <3>2, <3>3 DEF Queued, ActiveFns
    <2> QED
      BY <2>4, <2>5
  <1> QED
    BY <1>1, <1>2, <1>3, <1>4 DEF Queued

\* Whatever the order of the worklist and whatever the JIT asks for meanwhile,
\* a generation that succeeds has a body for every global function and for every
\* function a body refers to, and diagnosed no error (CodegenInstance::codegen)
THEOREM CompleteAmalgamation == Spec => []AmalgamationComplete
  <1>1. Init => Queued /\ AmalgamationComplete
    <2>1. Init => UNION {FnRefs(g) : g \in bodies} = {}
      BY DEF Init
    <2> QED
      BY <2>1 DEF Init, Queued, AmalgamationComplete
  <1>2. ASSUME EngineInv, Queued, AmalgamationComplete, [Next]_vars
        PROVE  AmalgamationComplete'
    <2> USE DEF Idle, At, Running
    <2>1. CASE UNCHANGED vars
      BY <1>2, <2>1 DEF vars, AmalgamationComplete, FnRefs, ExportsOf
    <2>2. CASE FinishGeneration
      <3>1. /\ Running /\ stack = << >> /\ ret = "none" /\ dependencies = {}
            /\ UNCHANGED <<prog, bodies, errors>>
        BY <2>2 DEF FinishGeneration, amalgamation
      <3>2. ~errors
        BY <1>2, <3>1 DEF EngineInv, ControlInv, ErrorUnwinds
      <3>3. Globals \cup UNION {FnRefs(g) : g \in bodies} \subseteq bodies
        BY <1>2, <3>1, <3>2 DEF Queued
      <3>4. \A g : FnRefs(g)' = FnRefs(g)
        BY <3>1 DEF FnRefs, ExportsOf
      <3> QED
        BY <3>1, <3>2, <3>3, <3>4 DEF AmalgamationComplete
    <2>3. CASE Next /\ ~FinishGeneration /\ ~Ended
      <3>1. status' # "generated"
        BY <2>3 DEF Next, Check, PopDependency, DependencyReturned, EnterFunction,
           ConsumeInstantiation, InstantiationConsumed, EnterGeneration,
           GenerateFunction, EnterInstantiate, ConsumeMetaInstantiation,
           MetaInstantiationConsumed, MetaDependenciesConsumed, GenerateMetaFunction,
           RequireExports, CreateJumpPad, ResolveDependency, DependencyResolved,
           DependencyNotResolved, Pull, ShipToJIT, Invoke
      <3> QED
        BY <3>1 DEF AmalgamationComplete
    <2> QED
      BY <1>2, <2>1, <2>2, <2>3 DEF Ended
  <1>3. EngineInv /\ Queued /\ [Next]_vars => Queued'
    BY QueuedStep
  <1> QED
    BY <1>1, <1>2, <1>3, EngineInvariant, PTL DEF Spec

(***************************************************************************)
(* The two classes together implement the store.                           *)
(***************************************************************************)
\* Nested or not, an instantiation is run once and after it was loaded, a
\* function is generated once and after the instantiations in it, the first
\* error stops both, and only an error fails the generation: each step of the
\* engine is a step of the store, or none
THEOREM EngineImplementsStore == Spec => ImplementsStore
  <1> DEFINE outcome == IF status \in Failures THEN "aborted" ELSE status
  <1> USE DEF Idle, At, Running, amalgamation, executor
  <1>1. Init => Store!Init
    <2> SUFFICES ASSUME Init PROVE Store!Init
      OBVIOUS
    <2>1. prog.insts \in [Fns -> SUBSET Insts]
      BY ProgramsAssumption DEF Init, ProgramType
    <2> QED
      BY <2>1 DEF Init, Store!Init, Failures
  <1>2. ASSUME EngineInv, [Next]_vars PROVE [Store!Next]_(Store!vars)
    <2> USE <1>2
    <2>a. TypeOK /\ ControlInv
      BY DEF EngineInv
    <2>b. Running /\ stack # << >> => FrameOk(Top) /\ Top \in Frame
      <3>1. Running => StackOk
        BY DEF EngineInv, OnceInv, StackOk
      <3> QED
        BY <2>a, <3>1, TopFrameOk, TopTyped
    <2>c. Running => outcome = "running"
      BY DEF Failures
    <2>1. CASE UNCHANGED vars
      BY <2>1 DEF vars, Store!vars
    <2>2. CASE DependencyReturned
      <3>1. CASE ret = "ok"
        BY <2>2, <3>1 DEF DependencyReturned, Store!vars
      <3>2. CASE ret # "ok"
        <4>1. errors
          BY <2>a, <2>2, <3>2 DEF DependencyReturned, TypeOK, ControlInv, FailedMeansError
        <4>2. Store!Finish
          BY <2>2, <2>c, <3>2, <4>1 DEF DependencyReturned, Store!Finish, Failures
        <4> QED
          BY <4>2 DEF Store!Next
      <3> QED
        BY <3>1, <3>2
    <2>3. CASE FinishGeneration
      <3>1. ~errors
        BY <2>a, <2>3 DEF FinishGeneration, ControlInv, ErrorUnwinds
      <3>2. Store!Finish
        BY <2>3, <2>c, <3>1 DEF FinishGeneration, Store!Finish, Failures
      <3> QED
        BY <3>2 DEF Store!Next
    <2>4. CASE InstantiationConsumed
      <3>1. CASE errors' = errors
        BY <2>4, <3>1 DEF InstantiationConsumed, Store!vars
      <3>2. CASE errors' # errors
        <4>1. ~errors /\ errors' = TRUE
          BY <2>a, <2>4, <3>2 DEF InstantiationConsumed, TypeOK
        <4>2. Store!Diagnose
          BY <2>4, <2>c, <4>1 DEF InstantiationConsumed, Store!Diagnose, Store!Active
        <4> QED
          BY <4>2 DEF Store!Next
      <3> QED
        BY <3>1, <3>2
    <2>5. CASE EnterGeneration \/ GenerateMetaFunction \/ ResolveDependency
               \/ DependencyResolved
      <3>1. /\ UNCHANGED <<prog, jit, instantiations, bodies>> /\ Running
            /\ (status' = status /\ errors' = errors) \/ status' \in Failures
        <4>1. CASE EnterGeneration
          BY <4>1 DEF EnterGeneration, Check, Failures
        <4>2. CASE GenerateMetaFunction
          BY <4>2 DEF GenerateMetaFunction, RequireExports, Failures
        <4>3. CASE ResolveDependency
          BY <4>3 DEF ResolveDependency, Check, Failures
        <4>4. CASE DependencyResolved
          BY <4>4 DEF DependencyResolved, Pull, DependencyNotResolved, Check, Failures
        <4> QED
          BY <2>5, <4>1, <4>2, <4>3, <4>4
      <3>2. CASE status' = status /\ errors' = errors
        BY <3>1, <3>2 DEF Store!vars
      <3>3. CASE status' \in Failures
        <4>1. Store!Abort
          BY <2>c, <3>1, <3>3 DEF Store!Abort
        <4> QED
          BY <4>1 DEF Store!Next
      <3> QED
        BY <3>1, <3>2, <3>3
    <2>6. CASE GenerateFunction
      <3> DEFINE f == Top.fn
      <3>1. f \in Fns /\ f \notin bodies /\ ~errors /\ prog.insts[f] \subseteq instantiations
        <4>1. /\ Running /\ stack # << >> /\ ret = "none" /\ Top.pc = "generate"
          BY <2>6 DEF GenerateFunction
        <4>2. ~errors
          BY <2>a, <4>1 DEF ControlInv, ErrorUnwinds
        <4> QED
          BY <2>b, <4>1, <4>2, FrameKind DEF FrameOk, FnPCs, FnFrame
      <3>2. /\ UNCHANGED <<prog, jit, instantiations, errors, status>>
            /\ bodies' = bodies \cup {f} /\ Running
        BY <2>6, <3>1 DEF GenerateFunction, Check
      <3>3. Store!Generate(f)
        BY <2>c, <3>1, <3>2 DEF Store!Generate, Store!Active
      <3> QED
        BY <3>1, <3>3 DEF Store!Next
    <2>7. CASE ShipToJIT
      <3>1. ~errors
        BY <2>a, <2>7 DEF ShipToJIT, ControlInv, ErrorUnwinds
      <3>2. /\ UNCHANGED <<prog, instantiations, bodies, errors, status>>
            /\ jit \subseteq jit' /\ Running
        BY <2>7 DEF ShipToJIT
      <3>3. Store!Load
        BY <2>c, <3>1, <3>2 DEF Store!Load, Store!Active
      <3> QED
        BY <3>3 DEF Store!Next
    <2>8. CASE Invoke
      <3> DEFINE i == Top.inst
      <3>1. /\ Running /\ stack # << >> /\ ret = "none" /\ Top.pc = "invoke"
            /\ UNCHANGED <<prog, jit, bodies>>
        BY <2>8 DEF Invoke
      <3>2. ~errors
        BY <2>a, <3>1 DEF ControlInv, ErrorUnwinds
      <3>3. i \in Insts /\ i \in jit /\ i \notin instantiations
        <4>1. shipment = {}
          BY <3>1 DEF EngineInv, JitInv, InvokeReady
        <4> QED
          BY <2>b, <3>1, <4>1, FrameKind DEF FrameOk, InstPCs, InstFrame
      <3>4. CASE ~JitClosed
        <4>1. Store!Abort
          BY <2>8, <2>c, <3>1, <3>4 DEF Invoke, Store!Abort, Failures
        <4> QED
          BY <4>1 DEF Store!Next
      <3>5. CASE JitClosed /\ errors'
        <4>1. UNCHANGED <<instantiations, status>> /\ errors' = TRUE
          BY <2>a, <2>8, <3>2, <3>5 DEF Invoke, Check, TypeOK
        <4>2. Store!Diagnose
          BY <2>c, <3>1, <3>2, <4>1 DEF Store!Diagnose, Store!Active
        <4> QED
          BY <4>2 DEF Store!Next
      <3>6. CASE JitClosed /\ ~errors'
        <4>1. /\ instantiations' = instantiations \cup {i} /\ UNCHANGED status
              /\ errors' = errors
          BY <2>a, <2>8, <3>2, <3>3, <3>6 DEF Invoke, Check, TypeOK
        <4>2. Store!Evaluate(i)
          BY <2>c, <3>1, <3>2, <3>3, <4>1 DEF Store!Evaluate, Store!Active
        <4> QED
          BY <3>3, <4>2 DEF Store!Next
      <3> QED
        BY <3>4, <3>5, <3>6
    <2>9. CASE \/ PopDependency \/ EnterFunction \/ ConsumeInstantiation
               \/ EnterInstantiate \/ ConsumeMetaInstantiation
               \/ MetaInstantiationConsumed \/ MetaDependenciesConsumed \/ CreateJumpPad
      <3>1. UNCHANGED <<prog, jit, instantiations, bodies, errors, status>>
        BY <2>9 DEF PopDependency, EnterFunction, ConsumeInstantiation, EnterInstantiate,
           ConsumeMetaInstantiation, MetaInstantiationConsumed,
           MetaDependenciesConsumed, CreateJumpPad
      <3> QED
        BY <3>1 DEF Store!vars
    <2> QED
      BY <2>1, <2>2, <2>3, <2>4, <2>5, <2>6, <2>7, <2>8, <2>9 DEF Next, Ended
  <1> QED
    BY <1>1, <1>2, EngineInvariant, PTL DEF Spec, ImplementsStore, Store!Spec

(***************************************************************************)
(* The engine supports every plain program: no assertion of the two        *)
(* classes fails and no symbol is unresolved in the JIT.                   *)
(***************************************************************************)
\* What PlainInv says of a plain program while it is generated without error
ShipmentInv(C) == ShipLast /\ AskedOnce(C) /\ OpenAtTop

(***************************************************************************)
(* The shipments that wait.                                                *)
(***************************************************************************)
\* Below a call of CodeExecutor no shipment waits
LEMMA NoneWaitsBelow ==
  ASSUME TypeOK, ControlInv, ShipLast, stack # << >>, Top.fn = None
  PROVE  /\ \A k \in 1 .. Len(stack) - 1 : stack[k].pc # "ship"
         /\ Resolving \subseteq {Top.dep} \ {None}
  <1>1. Len(stack) \in Nat \ {0}
    BY TopTyped
  <1>2. ASSUME NEW k \in 1 .. Len(stack) - 1 PROVE stack[k].pc # "ship"
    <2>1. Awaits(stack[k], stack[k+1])
      BY DEF ControlInv, CallsNest
    <2>2. k = Len(stack) - 1 => stack[k+1] = Top
      BY <1>1 DEF Top
    <2> QED
      BY <2>1, <2>2 DEF ShipLast, Awaits
  <1>3. \A k \in 1 .. Len(stack) : k \in 1 .. Len(stack) - 1 \/ stack[k] = Top
    BY <1>1 DEF Top
  <1>4. \A k \in 1 .. Len(stack) - 1 : stack[k].dep = None
    BY <1>1, <1>2 DEF ControlInv, DepsOfShipments
  <1> QED
    BY <1>2, <1>3, <1>4 DEF Resolving

\* A call of CodegenInstance that a shipment waits for is of what it resolves
LEMMA CallerWaits ==
  ASSUME TypeOK, ControlInv, stack # << >>, NEW k \in 1 .. Len(stack) - 1,
         k = Len(stack) - 1, stack[k].pc = "ship"
  PROVE  Top.fn \in Resolving
  <1>1. Len(stack) \in Nat \ {0} /\ k \in 1 .. Len(stack)
    BY TopTyped
  <1>2. Awaits(stack[k], stack[k+1]) /\ stack[k+1] = Top
    BY <1>1 DEF ControlInv, CallsNest, Top
  <1> QED
    BY <1>1, <1>2 DEF Awaits, Resolving

\* What the three changes of the stack do to the shipments that wait
LEMMA GotoWaits ==
  ASSUME TypeOK, stack # << >>, ShipLast, NEW e \in Frame, Goto(e)
  PROVE  /\ ShipLast' /\ stack' # << >> /\ Top' = e
         /\ Resolving \ {Top.dep} \subseteq Resolving'
         /\ e.dep # None => e.dep \in Resolving'
         /\ Resolving' \subseteq Resolving \cup ({e.dep} \ {None})
  <1>1. /\ Len(stack') = Len(stack) /\ Len(stack) \in Nat \ {0}
        /\ stack'[Len(stack)] = e
        /\ \A k \in 1 .. Len(stack) - 1 : stack'[k] = stack[k]
    BY FramesTyped, GotoStack DEF Goto
  <1>2. ShipLast' /\ stack' # << >> /\ Top' = e
    BY <1>1 DEF ShipLast, Top
  <1>3. Resolving' \subseteq Resolving \cup ({e.dep} \ {None})
    BY NothingElseResolved
  <1> QED
    BY <1>2, <1>3, GotoResolving DEF Goto

LEMMA CallWaits ==
  ASSUME TypeOK, stack # << >>, NEW e \in Frame, NEW n \in Frame, Call(e, n), n.dep = None,
         \A k \in 1 .. Len(stack) - 1 : stack[k].pc # "ship"
  PROVE  /\ ShipLast' /\ stack' # << >> /\ Top' = n
         /\ Resolving \ {Top.dep} \subseteq Resolving'
         /\ e.dep # None => e.dep \in Resolving'
         /\ Resolving' \subseteq Resolving \cup ({e.dep} \ {None})
  <1>1. /\ Len(stack') = Len(stack) + 1 /\ Len(stack) \in Nat \ {0}
        /\ stack'[Len(stack) + 1] = n /\ stack'[Len(stack)] = e
        /\ \A k \in 1 .. Len(stack) - 1 : stack'[k] = stack[k]
    BY FramesTyped, CallStack DEF Call
  <1>2. ShipLast' /\ stack' # << >> /\ Top' = n
    BY <1>1 DEF ShipLast, Top
  <1>3. Resolving' \subseteq Resolving \cup ({e.dep, None} \ {None})
    <2>1. e.dep \in {e.dep, None} /\ n.dep \in {e.dep, None}
      OBVIOUS
    <2> QED
      BY <2>1, NothingElseResolved
  <1> QED
    BY <1>2, <1>3, CallResolving DEF Call

LEMMA ReturnWaits ==
  ASSUME TypeOK, stack # << >>, ShipLast, Top.dep = None,
         stack' = SubSeq(stack, 1, Len(stack) - 1)
  PROVE  /\ ShipLast' /\ Resolving' = Resolving
         /\ Resolving # {} => stack' # << >>
  <1>1. /\ Len(stack') = Len(stack) - 1 /\ Len(stack) \in Nat \ {0}
        /\ \A k \in 1 .. Len(stack) - 1 : stack'[k] = stack[k]
    BY FramesTyped, ReturnStack, ZenonT(60)
  <1>2. ShipLast'
    <2>1. \A k \in 1 .. Len(stack) - 2 : stack[k].pc # "ship"
      BY <1>1 DEF ShipLast
    <2> QED
      BY <1>1, <2>1 DEF ShipLast
  <1>3. Resolving' \subseteq Resolving
    <2>1. Resolving' \subseteq Resolving \cup ({} \ {None})
      BY NothingElseResolved
    <2> QED
      BY <2>1
  <1>4. Resolving \subseteq Resolving'
    <2>1. None \notin Resolving
      BY DEF Resolving
    <2> QED
      BY <2>1, ReturnResolving
  <1>5. stack' = << >> => Resolving' = {}
    <2>1. stack' = << >> => Len(stack') = 0
      OBVIOUS
    <2> QED
      BY <2>1 DEF Resolving
  <1> QED
    BY <1>2, <1>3, <1>4, <1>5

\* A step that leaves the executor's sets alone and resolves nothing else
LEMMA QuietPlain ==
  ASSUME NEW C, ShipmentInv(C), UNCHANGED <<prog, available, unresolved>>,
         ShipLast', Resolving' = Resolving,
         Resolving # {} => stack' # << >>,
         Resolving = {} /\ unresolved # {} => stack' # << >> /\ Top'.pc \in {"jumpPad", "ship"}
  PROVE  ShipmentInv(C)'
  BY DEF ShipmentInv, AskedOnce, OpenAtTop


(***************************************************************************)
(* The steps of a plain program.                                           *)
(***************************************************************************)
LEMMA AmalgamationPlain ==
  ASSUME EngineInv, Running, ~errors', NEW C \in SUBSET Fns, PlainWith(prog, C),
         ShipmentInv(C),
         \/ EnterFunction \/ ConsumeInstantiation \/ InstantiationConsumed
         \/ EnterGeneration \/ GenerateFunction
  PROVE  ShipmentInv(C)'
  <1> USE TopTyped, FrameKind, NewFrames, ProgramTypes
      DEF Idle, At, Running, FnPCs, InstPCs, executor
  <1>1. /\ TypeOK /\ ControlInv /\ stack # << >> /\ Top \in FnFrame /\ ShipLast
        /\ Top.dep = None /\ FrameOk(Top)
    <2>1. TypeOK /\ ControlInv /\ stack # << >> /\ Top \in FnFrame /\ ShipLast
      BY DEF EngineInv, ShipmentInv, EnterFunction, ConsumeInstantiation,
         InstantiationConsumed, EnterGeneration, GenerateFunction
    <2>2. StackOk
      BY DEF EngineInv, OnceInv, StackOk
    <2> QED
      BY <2>1, <2>2, TopFrameOk DEF FnFrame
  <1>2. UNCHANGED <<prog, available, unresolved>> /\ ~errors
    <2>1. CASE EnterFunction
      BY <2>1 DEF EnterFunction
    <2>2. CASE ConsumeInstantiation
      BY <2>2 DEF ConsumeInstantiation
    <2>3. CASE InstantiationConsumed
      BY <2>3 DEF InstantiationConsumed
    <2>4. CASE EnterGeneration
      BY <2>4 DEF EnterGeneration
    <2>5. CASE GenerateFunction
      BY <2>5 DEF GenerateFunction
    <2> QED
      BY <2>1, <2>2, <2>3, <2>4, <2>5
  <1>3. Resolving = {} => unresolved = {}
    BY <1>1 DEF ShipmentInv, OpenAtTop, FnFrame
  <1>4. \A pc, T : /\ [Top EXCEPT !.pc = pc].dep = None
                   /\ [Top EXCEPT !.pc = pc, !.todo = T].dep = None
                   /\ [Top EXCEPT !.inst = None, !.todo = T].dep = None
    BY <1>1 DEF FnFrame
  <1>5. CASE \/ stack' = SubSeq(stack, 1, Len(stack) - 1)
             \/ \E e \in Frame : Goto(e) /\ e.dep = None
    <2>1. /\ ShipLast' /\ Resolving' = Resolving
          /\ Resolving # {} => stack' # << >>
      <3>1. CASE stack' = SubSeq(stack, 1, Len(stack) - 1)
        BY <1>1, <3>1, ReturnWaits
      <3>2. CASE \E e \in Frame : Goto(e) /\ e.dep = None
        <4>1. PICK e \in Frame : Goto(e) /\ e.dep = None
          BY <3>2
        <4>2. None \notin Resolving
          BY DEF Resolving
        <4>3. /\ ShipLast' /\ stack' # << >>
              /\ Resolving \ {Top.dep} \subseteq Resolving'
              /\ Resolving' \subseteq Resolving \cup ({e.dep} \ {None})
          BY <1>1, <4>1, GotoWaits
        <4> QED
          BY <1>1, <4>1, <4>2, <4>3
      <3> QED
        BY <1>5, <3>1, <3>2
    <2> QED
      BY <1>2, <1>3, <2>1, QuietPlain
  <1>6. CASE EnterFunction
    <2>1. CASE Top.fn \in bodies
      BY <1>5, <1>6, <2>1 DEF EnterFunction, Return
    <2>2. CASE Top.fn \notin bodies
      <3>1. [Top EXCEPT !.pc = "consume", !.todo = prog.insts[Top.fn]] \in Frame
        <4>1. prog.insts[Top.fn] \subseteq Insts
          BY <1>1 DEF FnFrame
        <4> QED
          BY <1>1, <4>1 DEF FnFrame, Frame
      <3> QED
        BY <1>4, <1>5, <1>6, <2>2, <3>1 DEF EnterFunction
    <2> QED
      BY <2>1, <2>2
  <1>7. CASE ConsumeInstantiation
    <2>1. PICK i \in Top.todo :
            Call([Top EXCEPT !.todo = @ \ {i}, !.inst = i], InstantiateOf(i))
      BY <1>7 DEF ConsumeInstantiation
    <2> DEFINE e == [Top EXCEPT !.todo = @ \ {i}, !.inst = i]
               n == InstantiateOf(i)
    <2>2. e \in Frame /\ e.dep = None /\ n \in Frame /\ n.dep = None
      BY <1>1, <1>7 DEF ConsumeInstantiation, FnFrame, Frame, InstantiateOf
    <2>3. Top.fn \notin C
      <3>1. i \in prog.insts[Top.fn]
        BY <1>1, <1>7 DEF ConsumeInstantiation, FrameOk
      <3> QED
        BY <3>1 DEF PlainWith
    <2>4. \A k \in 1 .. Len(stack) - 1 : stack[k].pc # "ship"
      <3>1. Top.fn \notin Resolving
        BY <2>3 DEF ShipmentInv, AskedOnce
      <3> QED
        BY <1>1, <3>1, CallerWaits DEF ShipLast
    <2>5. ShipLast' /\ stack' # << >> /\ Resolving' = Resolving
      <3>1. None \notin Resolving
        BY DEF Resolving
      <3>2. /\ ShipLast' /\ stack' # << >>
            /\ Resolving \ {Top.dep} \subseteq Resolving'
            /\ Resolving' \subseteq Resolving \cup ({e.dep} \ {None})
        BY <1>1, <2>1, <2>2, <2>4, CallWaits
      <3> QED
        BY <1>1, <2>2, <3>1, <3>2
    <2> QED
      BY <1>2, <1>3, <2>5, QuietPlain
  <1>8. CASE InstantiationConsumed
    <2>1. Goto([Top EXCEPT !.inst = None, !.todo = @]) \/ Goto([Top EXCEPT !.inst = None, !.todo = {}])
      BY <1>8 DEF InstantiationConsumed
    <2>2. \A T \in SUBSET Insts : [Top EXCEPT !.inst = None, !.todo = T] \in Frame
      BY <1>1 DEF FnFrame, Frame
    <2>3. Top.todo \in SUBSET Insts
      BY <1>1 DEF FnFrame
    <2> QED
      BY <1>4, <1>5, <2>1, <2>2, <2>3
  <1>9. CASE EnterGeneration
    <2>1. [Top EXCEPT !.pc = "generate"] \in Frame
      BY <1>1 DEF FnFrame, Frame
    <2> QED
      BY <1>2, <1>4, <1>5, <1>9, <2>1 DEF EnterGeneration
  <1>10. CASE GenerateFunction
    BY <1>5, <1>10 DEF GenerateFunction, Return
  <1> QED
    BY <1>6, <1>7, <1>8, <1>9, <1>10

\* The calls of CodeExecutor up to the jump pad, and its invocation
LEMMA InstantiationPlain ==
  ASSUME EngineInv, Running, ~errors', NEW C \in SUBSET Fns, PlainWith(prog, C),
         ShipmentInv(C),
         \/ EnterInstantiate \/ ConsumeMetaInstantiation \/ MetaInstantiationConsumed
         \/ MetaDependenciesConsumed \/ Invoke
  PROVE  ShipmentInv(C)'
  <1> USE TopTyped, FrameKind, NewFrames, ProgramTypes
      DEF Idle, At, Running, FnPCs, InstPCs, amalgamation
  <1>1. /\ TypeOK /\ ControlInv /\ stack # << >> /\ Top \in InstFrame /\ ShipLast
        /\ Top.dep = None /\ Top.fn = None
    <2>1. /\ TypeOK /\ ControlInv /\ stack # << >> /\ Top \in InstFrame /\ ShipLast
          /\ ret = "none" \/ Top.pc # "ship"
      BY DEF EngineInv, ShipmentInv, EnterInstantiate, ConsumeMetaInstantiation,
         MetaInstantiationConsumed, MetaDependenciesConsumed, Invoke
    <2> QED
      BY <2>1, TopDep DEF InstFrame
  <1>2. UNCHANGED <<prog, available, unresolved>>
    BY DEF EnterInstantiate, ConsumeMetaInstantiation, MetaInstantiationConsumed,
       MetaDependenciesConsumed, Invoke, executor
  <1>3. Resolving = {} /\ \A k \in 1 .. Len(stack) - 1 : stack[k].pc # "ship"
    BY <1>1, NoneWaitsBelow
  <1>4. unresolved = {}
    <2>1. CASE Invoke
      BY <2>1 DEF Invoke, EngineInv, JitInv, InvokeReady
    <2>2. CASE ~Invoke
      BY <1>3, <2>2 DEF ShipmentInv, OpenAtTop, EnterInstantiate, ConsumeMetaInstantiation,
         MetaInstantiationConsumed, MetaDependenciesConsumed
    <2> QED
      BY <2>1, <2>2
  <1>5. CASE \/ stack' = SubSeq(stack, 1, Len(stack) - 1)
             \/ \E e \in Frame : Goto(e) /\ e.dep = None
             \/ \E e, n \in Frame : Call(e, n) /\ e.dep = None /\ n.dep = None
    <2>1. ShipLast' /\ Resolving' = Resolving
      <3>1. CASE stack' = SubSeq(stack, 1, Len(stack) - 1)
        BY <1>1, <3>1, ReturnWaits
      <3>2. CASE \E e \in Frame : Goto(e) /\ e.dep = None
        BY <1>1, <1>3, <3>2, GotoWaits
      <3>3. CASE \E e, n \in Frame : Call(e, n) /\ e.dep = None /\ n.dep = None
        BY <1>1, <1>3, <3>3, CallWaits
      <3> QED
        BY <1>5, <3>1, <3>2, <3>3
    <2> QED
      BY <1>2, <1>3, <1>4, <2>1, QuietPlain
  <1>6. CASE EnterInstantiate
    <2>1. CASE Top.inst \in instantiations
      BY <1>5, <1>6, <2>1 DEF EnterInstantiate, Return
    <2>2. CASE Top.inst \notin instantiations
      <3> DEFINE m == prog.decl[Top.inst]
                 e == [Top EXCEPT !.pc = "jumpPad"]
                 c == [Top EXCEPT !.pc = "consumeMeta", !.todo = prog.metaInsts[m]]
      <3>1. Goto(e) \/ Goto(c)
        BY <1>6, <2>2 DEF EnterInstantiate
      <3>2. e \in Frame /\ e.dep = None
        BY <1>1 DEF InstFrame, Frame
      <3>3. c \in Frame /\ c.dep = None
        <4>1. prog.metaInsts[m] \subseteq Insts
          BY <1>1 DEF InstFrame
        <4> QED
          BY <1>1, <4>1 DEF InstFrame, Frame
      <3> QED
        BY <1>5, <3>1, <3>2, <3>3
    <2> QED
      BY <2>1, <2>2
  <1>7. CASE ConsumeMetaInstantiation
    <2>1. PICK i \in Top.todo : Call([Top EXCEPT !.todo = @ \ {i}], InstantiateOf(i))
      BY <1>7 DEF ConsumeMetaInstantiation
    <2> DEFINE e == [Top EXCEPT !.todo = @ \ {i}]
               n == InstantiateOf(i)
    <2>2. i \in Insts
      BY <1>1, <2>1 DEF InstFrame
    <2>3. e \in Frame /\ e.dep = None /\ n \in Frame /\ n.dep = None
      BY <1>1, <2>2 DEF InstFrame, Frame, InstantiateOf
    <2> QED
      BY <1>5, <2>1, <2>3
  <1>8. CASE MetaInstantiationConsumed
    <2>1. Goto([Top EXCEPT !.todo = @]) \/ Goto([Top EXCEPT !.todo = {}])
      BY <1>8 DEF MetaInstantiationConsumed
    <2>2. \A T \in SUBSET Insts :
            [Top EXCEPT !.todo = T] \in Frame /\ [Top EXCEPT !.todo = T].dep = None
      BY <1>1 DEF InstFrame, Frame
    <2>3. Top.todo \in SUBSET Insts
      BY <1>1 DEF InstFrame
    <2> QED
      BY <1>5, <2>1, <2>2, <2>3
  <1>9. CASE MetaDependenciesConsumed
    <2>1. [Top EXCEPT !.pc = "jumpPad"] \in Frame /\ [Top EXCEPT !.pc = "jumpPad"].dep = None
      BY <1>1 DEF InstFrame, Frame
    <2> QED
      BY <1>5, <1>9, <2>1 DEF MetaDependenciesConsumed, Return
  <1>10. CASE Invoke
    BY <1>5, <1>10 DEF Invoke, Return
  <1> QED
    BY <1>6, <1>7, <1>8, <1>9, <1>10

\* The steps that change what is unresolved
LEMMA ShipmentPlain ==
  ASSUME EngineInv, Running, ~errors', NEW C \in SUBSET Fns, PlainWith(prog, C),
         ShipmentInv(C),
         \/ GenerateMetaFunction \/ CreateJumpPad \/ ResolveDependency
         \/ DependencyResolved \/ ShipToJIT
  PROVE  ShipmentInv(C)'
  <1> USE TopTyped, FrameKind, NewFrames, ProgramTypes
      DEF Idle, At, Running, FnPCs, InstPCs, amalgamation
  <1>1. /\ TypeOK /\ ControlInv /\ stack # << >> /\ Top \in InstFrame /\ ShipLast
        /\ Top.fn = None /\ Top.inst \in Insts /\ AskedOnce(C) /\ prog' = prog
    BY DEF EngineInv, ShipmentInv, InstFrame, GenerateMetaFunction, CreateJumpPad,
       ResolveDependency, DependencyResolved, Pull, DependencyNotResolved, ShipToJIT
  <1>2. /\ \A k \in 1 .. Len(stack) - 1 : stack[k].pc # "ship"
        /\ Resolving \subseteq {Top.dep} \ {None}
    BY <1>1, NoneWaitsBelow
  <1>3. C \cap Metas = {} /\ None \notin C
    BY SymbolsAssumption
  <1>4. CASE GenerateMetaFunction
    <2> DEFINE m == prog.decl[Top.inst]
               e == [Top EXCEPT !.pc = "jumpPad"]
    <2>1. m \in Metas /\ Top.dep = None
      BY <1>1, <1>4, TopDep DEF GenerateMetaFunction
    <2>2. Resolving = {} /\ unresolved = {}
      BY <1>2, <1>4, <2>1 DEF ShipmentInv, OpenAtTop, GenerateMetaFunction
    <2>3. e \in Frame /\ e.dep = None /\ e.pc = "jumpPad"
      BY <1>1, <2>1 DEF InstFrame, Frame
    <2>4. ShipLast' /\ stack' # << >> /\ Top' = e /\ Resolving' = {}
      BY <1>1, <1>4, <2>2, <2>3, GotoWaits DEF GenerateMetaFunction
    <2>5. /\ available' = available \cup {m}
          /\ unresolved' = {<<"decl", f>> : f \in prog.metaCalls[m] \ available}
                \cup {<<"function", f>> : f \in ExportsOf(UsedInsts(m)) \ available}
      BY <1>4, <2>2 DEF GenerateMetaFunction
    <2>6. /\ prog.metaCalls[m] \subseteq C \cap Globals
          /\ ExportsOf(UsedInsts(m)) \subseteq C
      BY <2>1 DEF PlainWith, RunAtCompileTime, ExportsOf, UsedInsts
    <2>7. ExportsOf(UsedInsts(m)) \cap Globals = {}
      <3>1. \A i \in Insts : prog.exports[i] \in UnitFns \cup {None}
        BY <1>1 DEF TypeOK, ProgramType
      <3>2. UsedInsts(m) \subseteq Insts
        BY <1>1, <2>1
      <3> QED
        BY <3>1, <3>2, SymbolsAssumption DEF ExportsOf
    <2>8. ASSUME NEW u \in unresolved'
          PROVE  /\ u[2] \in C \ available'
                 /\ u[1] = "decl" => u[2] \in prog.metaCalls[m]
      BY <1>3, <2>1, <2>5, <2>6
    <2>9. \A u, v \in unresolved' : u[2] = v[2] => u = v
      BY <2>5, <2>6, <2>7
    <2>10. AskedOnce(C)'
      BY <1>1, <2>1, <2>4, <2>8, <2>9 DEF AskedOnce
    <2> QED
      BY <2>3, <2>4, <2>10 DEF ShipmentInv, OpenAtTop
  <1>5. CASE CreateJumpPad
    <2> DEFINE e == [Top EXCEPT !.pc = "ship"]
    <2>1. Top.dep = None /\ UNCHANGED <<available, unresolved>> /\ Goto(e)
      BY <1>1, <1>5, TopDep DEF CreateJumpPad
    <2>2. e \in Frame /\ e.dep = None /\ e.pc = "ship" /\ Resolving = {}
      BY <1>1, <1>2, <2>1 DEF InstFrame, Frame
    <2>3. ShipLast' /\ stack' # << >> /\ Top' = e /\ Resolving' = {}
      BY <1>1, <2>1, <2>2, GotoWaits
    <2> QED
      BY <1>1, <2>1, <2>2, <2>3, QuietPlain
  <1>6. CASE ResolveDependency
    <2>1. PICK u \in unresolved :
            /\ unresolved' = unresolved \ {u}
            /\ Call([Top EXCEPT !.dep = u[2]], CodegenOf(u[2]))
      BY <1>6 DEF ResolveDependency
    <2> DEFINE e == [Top EXCEPT !.dep = u[2]]
               n == CodegenOf(u[2])
    <2>2. Top.dep = None /\ available' = available /\ Top.pc = "ship"
      BY <1>1, <1>6, TopDep DEF ResolveDependency
    <2>3. u[2] \in C \ available /\ u[2] \in Fns /\ u[2] # None
      BY <1>1, <1>3 DEF AskedOnce
    <2>4. e \in Frame /\ e.dep = u[2] /\ n \in Frame /\ n.dep = None
      BY <1>1, <2>2, <2>3 DEF InstFrame, Frame, CodegenOf
    <2>5. ShipLast' /\ stack' # << >> /\ Resolving' = {u[2]}
      <3>1. /\ ShipLast' /\ stack' # << >>
            /\ e.dep # None => e.dep \in Resolving'
            /\ Resolving' \subseteq Resolving \cup ({e.dep} \ {None})
        BY <1>1, <1>2, <2>1, <2>4, CallWaits
      <3> QED
        BY <1>2, <2>2, <2>3, <2>4, <3>1
    <2>6. \A v \in unresolved' : v[2] # u[2]
      BY <1>1, <2>1 DEF AskedOnce
    <2>7. AskedOnce(C)'
      BY <1>1, <2>1, <2>2, <2>3, <2>5, <2>6 DEF AskedOnce
    <2> QED
      BY <2>5, <2>7 DEF ShipmentInv, OpenAtTop
  <1>7. CASE DependencyResolved
    <2> DEFINE f == Top.dep
               e == [Top EXCEPT !.dep = None]
    <2>1. ret = "ok"
      BY <1>1, <1>7 DEF DependencyResolved, DependencyNotResolved, TypeOK, ControlInv,
         FailedMeansError
    <2>2. /\ available' = available \cup {f} /\ Goto(e) /\ f # None /\ Top.pc = "ship"
          /\ unresolved' = unresolved
               \cup {<<"function", g>> : g \in FnRefs(f) \ (available \cup {f})}
      BY <1>7, <2>1 DEF DependencyResolved, Pull
    <2>3. f \in Resolving
      <3>1. Len(stack) \in 1 .. Len(stack)
        BY <1>1
      <3> QED
        BY <2>2, <3>1 DEF Resolving, Top
    <2>4. f \in C /\ \A u \in unresolved : u[2] # f
      BY <1>1, <2>3 DEF AskedOnce
    <2>5. FnRefs(f) = prog.calls[f] /\ FnRefs(f) \subseteq C
      BY <2>4 DEF PlainWith, RunAtCompileTime, FnRefs, ExportsOf
    <2>6. \A g \in FnRefs(f) \ {f} : g \notin UNION {prog.metaCalls[m] : m \in Metas}
      BY <2>4, <2>5 DEF PlainWith
    <2>7. e \in Frame /\ e.dep = None /\ e.pc = "ship"
      BY <1>1, <2>2 DEF InstFrame, Frame
    <2>8. ShipLast' /\ stack' # << >> /\ Top' = e /\ Resolving' = {}
      <3>1. /\ ShipLast' /\ stack' # << >> /\ Top' = e
            /\ Resolving' \subseteq Resolving \cup ({e.dep} \ {None})
        BY <1>1, <2>2, <2>7, GotoWaits
      <3>2. f \notin Resolving'
        <4>1. Len(stack) \in Nat \ {0}
          BY <1>1
        <4>2. /\ Len(stack') = Len(stack) /\ stack'[Len(stack)] = e
              /\ \A k \in 1 .. Len(stack) - 1 : stack'[k] = stack[k]
          BY <1>1, <2>2, <2>7, FramesTyped, GotoStack DEF Goto
        <4>3. \A k \in 1 .. Len(stack) - 1 : stack[k].dep = None
          BY <1>1, <1>2, <4>1 DEF ControlInv, DepsOfShipments
        <4>4. ASSUME NEW k \in 1 .. Len(stack') PROVE stack'[k].dep = None
          <5>1. k = Len(stack) \/ k \in 1 .. Len(stack) - 1
            BY <4>1, <4>2
          <5> QED
            BY <2>7, <4>2, <4>3, <5>1
        <4> QED
          BY <4>4 DEF Resolving
      <3> QED
        BY <1>2, <2>7, <3>1, <3>2
    <2>9. \A u \in unresolved' :
            \/ u \in unresolved
            \/ u = <<"function", u[2]>> /\ u[2] \in FnRefs(f) \ (available \cup {f})
      BY <2>2
    <2>10. ASSUME NEW u \in unresolved'
           PROVE  /\ u[2] \in C \ available'
                  /\ u[1] = "decl" => u[2] \in UNION {prog.metaCalls[m] : m \in Metas}
      BY <1>1, <2>2, <2>4, <2>5, <2>9 DEF AskedOnce
    <2>11. \A u, v \in unresolved' : u[2] = v[2] => u = v
      BY <1>1, <2>6, <2>9 DEF AskedOnce, TypeOK
    <2>12. AskedOnce(C)'
      BY <1>1, <2>8, <2>10, <2>11 DEF AskedOnce
    <2> QED
      BY <2>7, <2>8, <2>12 DEF ShipmentInv, OpenAtTop
  <1>8. CASE ShipToJIT
    <2> DEFINE e == [Top EXCEPT !.pc = "invoke"]
    <2>1. /\ Top.dep = None /\ UNCHANGED <<available, unresolved>> /\ Goto(e)
          /\ unresolved = {}
      BY <1>1, <1>8, TopDep DEF ShipToJIT
    <2>2. e \in Frame /\ e.dep = None /\ Resolving = {}
      BY <1>1, <1>2, <2>1 DEF InstFrame, Frame
    <2>3. ShipLast' /\ Resolving' = {}
      BY <1>1, <2>1, <2>2, GotoWaits
    <2> QED
      BY <1>1, <2>1, <2>2, <2>3, QuietPlain
  <1> QED
    BY <1>4, <1>5, <1>6, <1>7, <1>8

\* The loop over the worklist
LEMMA WorklistPlain ==
  ASSUME EngineInv, Running, NEW C, ShipmentInv(C),
         PopDependency \/ DependencyReturned \/ FinishGeneration
  PROVE  ShipmentInv(C)'
  <1> USE DEF Idle, At, Running, amalgamation, executor
  <1>1. stack = << >> /\ UNCHANGED <<prog, available, unresolved>>
    BY DEF PopDependency, DependencyReturned, FinishGeneration
  <1>2. Resolving = {}
    BY <1>1 DEF Resolving
  <1>3. unresolved = {}
    BY <1>1 DEF ShipmentInv, OpenAtTop
  <1>4. ShipLast' /\ Resolving' = {}
    <2>1. CASE PopDependency
      <3>1. PICK d \in dependencies : stack' = IF d \in Fns THEN <<CodegenOf(d)>> ELSE << >>
        BY <2>1 DEF PopDependency
      <3>2. /\ \A k \in 1 .. Len(stack') : stack'[k].dep = None
            /\ \A k \in 1 .. Len(stack') - 1 : FALSE
        BY <3>1 DEF CodegenOf
      <3> QED
        BY <3>2 DEF ShipLast, Resolving
    <2>2. CASE DependencyReturned \/ FinishGeneration
      <3>1. stack' = << >>
        BY <1>1, <2>2 DEF DependencyReturned, FinishGeneration
      <3> QED
        BY <3>1 DEF ShipLast, Resolving
    <2> QED
      BY <2>1, <2>2
  <1> QED
    BY <1>1, <1>2, <1>3, <1>4, QuietPlain

\* A function is in generation only while its body is: no call comes between
LEMMA GenerationStep ==
  ASSUME TypeOK, GenerationLast, [Next]_vars
  PROVE  GenerationLast'
  <1> USE TopTyped, FrameKind DEF Idle, At, Running, executor
  <1>1. CASE UNCHANGED vars
    BY <1>1 DEF vars, GenerationLast, Top
  <1>2. CASE GenerateFunction
    BY <1>2 DEF GenerateFunction, GenerationLast
  <1>3. CASE EnterGeneration
    <2>1. CASE errors
      BY <1>3, <2>1 DEF EnterGeneration, GenerationLast
    <2>2. CASE ~errors
      <3> DEFINE e == [Top EXCEPT !.pc = "generate"]
      <3>1. /\ generation = {} /\ generation' = {Top.fn} /\ Goto(e) /\ stack # << >>
            /\ Top \in FnFrame
        BY <1>3, <2>2 DEF EnterGeneration, GenerationLast, FnPCs
      <3>2. e \in Frame /\ e.pc = "generate" /\ e.fn = Top.fn /\ Top.fn \in Fns
        BY <3>1 DEF FnFrame, FnPCs, Frame
      <3>3. stack' # << >> /\ Top' = e
        BY <3>1, <3>2, FramesTyped, GotoStack DEF Goto, Top
      <3> QED
        BY <3>1, <3>2, <3>3 DEF GenerationLast
    <2> QED
      BY <2>1, <2>2
  <1>4. CASE Next /\ ~GenerateFunction /\ ~EnterGeneration
    <2>1. Running' => generation' = generation /\ Running /\ ~At("generate")
      BY <1>4 DEF Next, Ended, vars, amalgamation, PopDependency, DependencyReturned,
         FinishGeneration, EnterFunction, ConsumeInstantiation, InstantiationConsumed,
         EnterInstantiate, ConsumeMetaInstantiation, MetaInstantiationConsumed,
         MetaDependenciesConsumed, GenerateMetaFunction, CreateJumpPad,
         ResolveDependency, DependencyResolved, DependencyNotResolved, Pull,
         ShipToJIT, Invoke
    <2> QED
      BY <2>1 DEF GenerationLast
  <1> QED
    BY <1>1, <1>2, <1>3, <1>4

\* The invariant of plain programs is inductive
LEMMA PlainStep ==
  ASSUME EngineInv, PlainInv, [Next]_vars
  PROVE  PlainInv'
  <1>1. GenerationLast'
    BY GenerationStep DEF EngineInv, PlainInv
  <1>2. CASE UNCHANGED vars
    BY <1>1, <1>2 DEF vars, PlainInv, Running, ShipLast, AskedOnce, OpenAtTop, Resolving, Top
  <1>3. CASE Next
    <2> SUFFICES ASSUME NEW C \in SUBSET Fns, PlainWith(prog, C)', Running', ~errors'
                 PROVE  ShipmentInv(C)'
      BY <1>1 DEF PlainInv, ShipmentInv
    <2>1. CASE Ended
      BY <2>1 DEF Ended, Running, vars
    <2>2. CASE ~Ended
      <3>1. Running /\ prog' = prog /\ (errors => errors')
        <4>1. Running /\ prog' = prog
          BY <1>3, <2>2
          DEF Next, Running, At, Idle, PopDependency, DependencyReturned,
              FinishGeneration, EnterFunction, ConsumeInstantiation,
              InstantiationConsumed, EnterGeneration, GenerateFunction,
              EnterInstantiate, ConsumeMetaInstantiation, MetaInstantiationConsumed,
              MetaDependenciesConsumed, GenerateMetaFunction, CreateJumpPad,
              ResolveDependency, DependencyResolved, DependencyNotResolved, Pull,
              ShipToJIT, Invoke
        <4>2. errors => errors'
          BY <1>3, <2>2
          DEF Next, Running, At, Idle, PopDependency, DependencyReturned,
              FinishGeneration, EnterFunction, ConsumeInstantiation,
              InstantiationConsumed, EnterGeneration, GenerateFunction,
              EnterInstantiate, ConsumeMetaInstantiation, MetaInstantiationConsumed,
              MetaDependenciesConsumed, GenerateMetaFunction, CreateJumpPad,
              ResolveDependency, DependencyResolved, DependencyNotResolved, Pull,
              ShipToJIT, Invoke
        <4> QED
          BY <4>1, <4>2
      <3>2. PlainWith(prog, C) /\ ShipmentInv(C)
        <4>1. PlainWith(prog, C)
          BY <3>1 DEF PlainWith, RunAtCompileTime
        <4> QED
          BY <3>1, <4>1 DEF PlainInv, ShipmentInv
      <3> QED
        BY <1>3, <2>2, <3>1, <3>2, WorklistPlain, AmalgamationPlain, InstantiationPlain,
           ShipmentPlain DEF Next
    <2> QED
      BY <2>1, <2>2
  <1> QED
    BY <1>2, <1>3

\* Whatever the order of the worklists, no assertion of the two classes fails for a
\* plain program, no cycle is met, and each symbol the JIT needs when a jump pad is
\* invoked is there (CodegenInstance::codegen, CodeExecutor::instantiate)
THEOREM PlainProgramsDoNotFail == Spec => []PlainDoesNotFail
  <1> USE TopTyped, FrameKind DEF Idle, At, Running, FnPCs, InstPCs
  <1>1. Init => PlainInv /\ PlainDoesNotFail
    BY DEF Init, PlainInv, GenerationLast, ShipLast, AskedOnce, OpenAtTop, Resolving,
       PlainDoesNotFail, NoFailure, Failures
  <1>2. EngineInv /\ PlainInv /\ [Next]_vars => PlainInv'
    BY PlainStep
  <1>3. ASSUME EngineInv, PlainInv, OuterInvokeClosed, GenerationConsistent',
               PlainDoesNotFail, [Next]_vars
        PROVE  PlainDoesNotFail'
    <2> SUFFICES ASSUME NEW C \in SUBSET Fns, PlainWith(prog, C)', status' \in Failures
                 PROVE  FALSE
      BY DEF PlainDoesNotFail, NoFailure, Plain
    <2>1. prog' = prog
      BY <1>3 DEF Next, Ended, vars, PopDependency, DependencyReturned,
         FinishGeneration, EnterFunction, ConsumeInstantiation,
         InstantiationConsumed, EnterGeneration, GenerateFunction,
         EnterInstantiate, ConsumeMetaInstantiation, MetaInstantiationConsumed,
         MetaDependenciesConsumed, GenerateMetaFunction, CreateJumpPad,
         ResolveDependency, DependencyResolved, DependencyNotResolved, Pull,
         ShipToJIT, Invoke
    <2>2. PlainWith(prog, C)
      BY <2>1 DEF PlainWith, RunAtCompileTime
    <2>3. status \notin Failures
      BY <1>3, <2>2 DEF PlainDoesNotFail, NoFailure, Plain
    <2>4. /\ TypeOK /\ ControlInv
          /\ Running /\ ~errors => ShipmentInv(C)
      BY <1>3, <2>2 DEF EngineInv, PlainInv, ShipmentInv
    <2>5. CASE EnterGeneration
      BY <1>3, <2>3, <2>5
      DEF EnterGeneration, Check, PlainInv, GenerationLast, Failures
    <2>6. CASE GenerateMetaFunction
      <3> DEFINE m == prog.decl[Top.inst]
      <3>1. /\ Running /\ ~errors /\ Top \in InstFrame /\ Top.todo = {}
            /\ Top.pc = "consumeMeta" /\ stack # << >>
        BY <2>4, <2>6 DEF GenerateMetaFunction
      <3>2. m \in Metas
        BY <2>4, <3>1, ProgramTypes DEF InstFrame
      <3>3. UsedInsts(m) = prog.metaInsts[m] /\ \A i \in UsedInsts(m) : prog.exports[i] # None
        BY <2>2, <3>2 DEF PlainWith, UsedInsts
      <3>4. UsedInsts(m) \subseteq instantiations
        <4>1. MetaConsumed(Top, {})
          BY <1>3, <3>1 DEF EngineInv, OnceInv, TopOk
        <4> QED
          BY <3>1, <3>3, <4>1 DEF MetaConsumed
      <3> QED
        BY <2>3, <2>6, <3>3, <3>4 DEF GenerateMetaFunction, RequireExports
    <2>7. CASE DependencyResolved
      <3>1. CASE ret = "ok"
        <4>1. /\ Running /\ ~errors /\ stack # << >> /\ Top.dep # None
          BY <2>4, <2>7, <3>1 DEF DependencyResolved, ControlInv, ErrorUnwinds
        <4>2. Top.dep \in Resolving
          <5>1. Len(stack) \in 1 .. Len(stack)
            BY <2>4, <4>1
          <5> QED
            BY <4>1, <5>1 DEF Resolving, Top
        <4>3. Top.dep \notin available
          BY <2>4, <4>1, <4>2 DEF ShipmentInv, AskedOnce
        <4> QED
          BY <1>3, <2>3, <2>7, <3>1, <4>3
          DEF DependencyResolved, Pull, Check, GenerationConsistent, Failures
      <3>2. CASE ret # "ok"
        BY <2>3, <2>7, <3>2 DEF DependencyResolved, DependencyNotResolved
      <3> QED
        BY <3>1, <3>2
    <2>8. CASE Invoke
      <3>1. /\ Running /\ ~errors /\ stack # << >> /\ ret = "none" /\ Top.pc = "invoke"
            /\ Top \in InstFrame
        BY <2>4, <2>8 DEF Invoke, ControlInv, ErrorUnwinds
      <3>2. Top.dep = None /\ Top.fn = None
        BY <2>4, <3>1, TopDep DEF InstFrame
      <3>3. Resolving = {}
        BY <2>4, <3>1, <3>2, NoneWaitsBelow DEF ShipmentInv
      <3>4. JitClosed
        BY <1>3, <3>1, <3>3 DEF OuterInvokeClosed
      <3> QED
        BY <1>3, <2>3, <2>8, <3>4 DEF Invoke, Check, GenerationConsistent, Failures
    <2>9. CASE GenerateFunction \/ ResolveDependency
      BY <1>3, <2>3, <2>9
      DEF GenerateFunction, ResolveDependency, Check, GenerationConsistent
    <2>10. CASE \/ UNCHANGED vars \/ Ended \/ PopDependency \/ DependencyReturned
                \/ FinishGeneration \/ EnterFunction \/ ConsumeInstantiation
                \/ InstantiationConsumed \/ EnterInstantiate
                \/ ConsumeMetaInstantiation \/ MetaInstantiationConsumed
                \/ MetaDependenciesConsumed \/ CreateJumpPad \/ ShipToJIT
      BY <2>3, <2>10 DEF vars, Ended, PopDependency, DependencyReturned, FinishGeneration,
         EnterFunction, ConsumeInstantiation, InstantiationConsumed, EnterInstantiate,
         ConsumeMetaInstantiation, MetaInstantiationConsumed,
         MetaDependenciesConsumed, CreateJumpPad, ShipToJIT, Failures
    <2> QED
      BY <1>3, <2>5, <2>6, <2>7, <2>8, <2>9, <2>10 DEF Next
  <1> QED
    BY <1>1, <1>2, <1>3, EngineInvariant, OuterInvokesResolved, ConsistentGeneration, PTL
    DEF Spec
=============================================================================
