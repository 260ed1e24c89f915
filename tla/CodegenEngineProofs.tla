------------------------ MODULE CodegenEngineProofs ------------------------
(***************************************************************************)
(* Proofs of the safety properties of CodegenEngine, for every set of      *)
(* functions, meta decls and instantiations and for every program.         *)
(***************************************************************************)
EXTENDS CodegenEngine, SequenceTheorems, TLAPS

(***************************************************************************)
(* The three changes of the call stack: its length, and what it holds.     *)
(***************************************************************************)
\* Goto replaces the innermost frame and keeps every other
LEMMA GotoStack ==
  ASSUME NEW S, NEW s \in Seq(S), s # << >>, NEW e \in S,
         NEW t, t = [s EXCEPT ![Len(s)] = e]
  PROVE  /\ t \in Seq(S) /\ Len(t) = Len(s) /\ Len(s) \in Nat \ {0}
         /\ t[Len(t)] = e
         /\ \A k \in 1 .. Len(s) - 1 : t[k] = s[k]
  OBVIOUS

\* Call replaces the innermost frame and adds one
LEMMA CallStack ==
  ASSUME NEW S, NEW s \in Seq(S), s # << >>, NEW e \in S, NEW n \in S,
         NEW t, t = Append([s EXCEPT ![Len(s)] = e], n)
  PROVE  /\ t \in Seq(S) /\ Len(t) = Len(s) + 1 /\ Len(s) \in Nat \ {0}
         /\ t[Len(t)] = n /\ t[Len(s)] = e
         /\ \A k \in 1 .. Len(s) - 1 : t[k] = s[k]
  OBVIOUS

\* Return drops the innermost frame
LEMMA ReturnStack ==
  ASSUME NEW S, NEW s \in Seq(S), s # << >>,
         NEW t, t = SubSeq(s, 1, Len(s) - 1)
  PROVE  /\ t \in Seq(S) /\ Len(t) = Len(s) - 1 /\ Len(s) \in Nat \ {0}
         /\ \A k \in 1 .. Len(s) - 1 : t[k] = s[k]
  <1>1. PICK n \in Nat : n = Len(s) /\ n >= 1
    OBVIOUS
  <1>2. \A k \in 1 .. n - 1 : s[k] \in S
    BY <1>1
  <1>3. /\ t \in Seq(S)
        /\ Len(t) = IF 1 <= n - 1 THEN (n - 1) - 1 + 1 ELSE 0
        /\ \A k \in 1 .. (n - 1) - 1 + 1 : t[k] = s[1 + k - 1]
    BY <1>1, <1>2, SubSeqProperties
  <1>4. Len(t) = n - 1
    BY <1>1, <1>3
  <1>5. \A k \in 1 .. n - 1 : t[k] = s[k]
    BY <1>3
  <1> QED
    BY <1>1, <1>3, <1>4, <1>5

\* The part of the type invariant that says what a frame is
LEMMA FramesTyped == TypeOK => stack \in Seq(Frame)
  BY DEF TypeOK

\* A frame's program counter tells which of the two kinds it is
LEMMA FrameKind ==
  ASSUME NEW f \in Frame
  PROVE  /\ f.pc \in FnPCs => f \in FnFrame
         /\ f.pc \in InstPCs => f \in InstFrame
  BY DEF Frame, FnFrame, InstFrame, FnPCs, InstPCs

\* The calls the engine makes push frames
LEMMA NewFrames ==
  /\ \A f \in Fns : CodegenOf(f) \in FnFrame
  /\ \A i \in Insts : InstantiateOf(i) \in InstFrame
  BY DEF CodegenOf, InstantiateOf, FnFrame, InstFrame, FnPCs, InstPCs

\* What a program names are functions and instantiations
LEMMA ProgramTypes ==
  ASSUME TypeOK
  PROVE  /\ \A f \in Fns : /\ prog.insts[f] \subseteq Insts
                           /\ prog.calls[f] \subseteq Fns
                           /\ FnRefs(f) \subseteq Fns
         /\ \A i \in Insts : prog.decl[i] \in Metas
         /\ \A m \in Metas : /\ prog.metaInsts[m] \subseteq Insts
                             /\ prog.metaCalls[m] \subseteq Fns
                             /\ UsedInsts(m) \subseteq Insts
                             /\ ExportsOf(UsedInsts(m)) \subseteq Fns
         /\ \A i \in Insts : ExportsOf({i}) \subseteq Fns
  <1>1. prog \in ProgramType
    BY DEF TypeOK
  <1>2. \A is \in SUBSET Insts : ExportsOf(is) \subseteq Fns
    BY <1>1 DEF ExportsOf, ProgramType, Fns
  <1>3. /\ \A f \in Fns : prog.insts[f] \subseteq Insts /\ prog.calls[f] \subseteq Fns
        /\ \A i \in Insts : prog.decl[i] \in Metas
        /\ \A m \in Metas : /\ prog.metaInsts[m] \subseteq Insts
                            /\ prog.metaCalls[m] \subseteq Fns
                            /\ prog.branchInsts[m] \subseteq Insts
    BY <1>1 DEF ProgramType
  <1> QED
    BY <1>2, <1>3 DEF FnRefs, UsedInsts

(***************************************************************************)
(* Type correctness.                                                       *)
(***************************************************************************)
LEMMA TopTyped ==
  ASSUME TypeOK, stack # << >>
  PROVE  Top \in Frame /\ Len(stack) \in Nat \ {0}
  BY DEF TypeOK, Top, Frame

\* A step that only replaces, calls or returns keeps the stack well typed
LEMMA StackTyped ==
  ASSUME TypeOK, stack # << >>,
         \/ \E f \in Frame : Goto(f)
         \/ \E f, g \in Frame : Call(f, g)
         \/ stack' = SubSeq(stack, 1, Len(stack) - 1)
  PROVE  stack' \in Seq(Frame)
  BY GotoStack, CallStack, ReturnStack, SMTT(30) DEF TypeOK, Frame, Goto, Call

\* Every variable keeps its type (every operation of both classes)
THEOREM TypeCorrect == Spec => []TypeOK
  <1>1. Init => TypeOK
    <2> SUFFICES ASSUME Init PROVE TypeOK
      OBVIOUS
    <2>1. prog \in ProgramType
      BY ProgramsAssumption DEF Init
    <2>2. stack \in Seq(Frame)
      BY EmptySeq DEF Init
    <2> QED
      BY <2>1, <2>2 DEF Init, TypeOK, Fns, Statuses
  <1>2. TypeOK /\ [Next]_vars => TypeOK'
    <2> SUFFICES ASSUME TypeOK, [Next]_vars PROVE TypeOK'
      OBVIOUS
    <2> USE ProgramTypes, TopTyped, FrameKind, NewFrames
        DEF Idle, At, FnPCs, InstPCs, Statuses, Failures, amalgamation, executor
    <2>1. CASE PopDependency
      <3>1. PICK d \in dependencies :
              /\ dependencies' = dependencies \ {d}
              /\ stack' = IF d \in Fns THEN <<CodegenOf(d)>> ELSE << >>
        BY <2>1 DEF PopDependency
      <3>2. d \in Fns => CodegenOf(d) \in Frame
        BY DEF Frame
      <3>3. stack' \in Seq(Frame)
        BY <3>1, <3>2
      <3> QED BY <2>1, <3>1, <3>3 DEF PopDependency, TypeOK
    <2>2. CASE DependencyReturned
      BY <2>2 DEF DependencyReturned, TypeOK
    <2>3. CASE FinishGeneration
      BY <2>3 DEF FinishGeneration, TypeOK
    <2>4. CASE EnterFunction
      <3>1. Top \in FnFrame /\ Top.fn \in Fns
        BY <2>4 DEF EnterFunction, FnFrame
      <3>2. [Top EXCEPT !.pc = "consume", !.todo = prog.insts[Top.fn]] \in Frame
        BY <3>1 DEF FnFrame, Frame
      <3>3. stack' \in Seq(Frame)
        BY <2>4, <3>2, StackTyped DEF EnterFunction, Return
      <3> QED
        BY <2>4, <3>1, <3>3 DEF EnterFunction, TypeOK, LookupGlobals, Return
    <2>5. CASE ConsumeInstantiation
      <3>1. PICK i \in Top.todo :
              Call([Top EXCEPT !.todo = @ \ {i}, !.inst = i], InstantiateOf(i))
        BY <2>5 DEF ConsumeInstantiation
      <3>2. Top \in FnFrame /\ i \in Insts
        BY <2>5 DEF ConsumeInstantiation, FnFrame
      <3>3. [Top EXCEPT !.todo = @ \ {i}, !.inst = i] \in Frame /\ InstantiateOf(i) \in Frame
        BY <3>2 DEF FnFrame, Frame
      <3>4. stack' \in Seq(Frame)
        BY <2>5, <3>1, <3>3, StackTyped DEF ConsumeInstantiation
      <3> QED
        BY <2>5, <3>4 DEF ConsumeInstantiation, TypeOK
    <2>6. CASE InstantiationConsumed
      <3>1. Top \in FnFrame /\ Top.inst \in Insts
        BY <2>6 DEF InstantiationConsumed, FnFrame
      <3>2. ExportsOf({Top.inst}) \subseteq Fns
        BY <3>1
      <3>3. \A T \in SUBSET Insts : [Top EXCEPT !.inst = None, !.todo = T] \in Frame
        BY <3>1 DEF FnFrame, Frame
      <3>4. PICK T \in SUBSET Insts : Goto([Top EXCEPT !.inst = None, !.todo = T])
        <4>1. Top.todo \in SUBSET Insts
          BY <3>1 DEF FnFrame
        <4>2. Goto([Top EXCEPT !.inst = None, !.todo = @]) \/ Goto([Top EXCEPT !.inst = None, !.todo = {}])
          BY <2>6 DEF InstantiationConsumed
        <4> QED BY <4>1, <4>2
      <3>5. stack' \in Seq(Frame)
        BY <2>6, <3>3, <3>4, StackTyped DEF InstantiationConsumed
      <3> QED
        BY <2>6, <3>2, <3>5 DEF InstantiationConsumed, TypeOK, LookupGlobals
    <2>7. CASE EnterGeneration
      <3>1. Top \in FnFrame /\ Top.fn \in Fns
        BY <2>7 DEF EnterGeneration, FnFrame
      <3>2. [Top EXCEPT !.pc = "generate"] \in Frame
        BY <3>1 DEF FnFrame, Frame
      <3>3. stack' \in Seq(Frame)
        BY <2>7, <3>2, StackTyped DEF EnterGeneration, Return
      <3> QED
        BY <2>7, <3>1, <3>3 DEF EnterGeneration, TypeOK, Return, Check
    <2>8. CASE GenerateFunction
      <3>1. Top.fn \in Fns /\ FnRefs(Top.fn) \subseteq Fns
        BY <2>8 DEF GenerateFunction, FnFrame
      <3>2. stack' \in Seq(Frame)
        BY <2>8, StackTyped DEF GenerateFunction, Return
      <3> QED
        BY <2>8, <3>1, <3>2 DEF GenerateFunction, TypeOK, Return, Check, LookupGlobals
    <2>9. CASE EnterInstantiate
      <3>1. Top \in InstFrame /\ prog.metaInsts[prog.decl[Top.inst]] \subseteq Insts
        BY <2>9 DEF EnterInstantiate, InstFrame
      <3>2. /\ [Top EXCEPT !.pc = "jumpPad"] \in Frame
            /\ [Top EXCEPT !.pc = "consumeMeta",
                           !.todo = prog.metaInsts[prog.decl[Top.inst]]] \in Frame
        BY <3>1 DEF InstFrame, Frame
      <3>3. stack' \in Seq(Frame)
        BY <2>9, <3>2, StackTyped DEF EnterInstantiate, Return
      <3> QED
        BY <2>9, <3>3 DEF EnterInstantiate, TypeOK, Return
    <2>10. CASE ConsumeMetaInstantiation
      <3>1. PICK i \in Top.todo : Call([Top EXCEPT !.todo = @ \ {i}], InstantiateOf(i))
        BY <2>10 DEF ConsumeMetaInstantiation
      <3>2. Top \in InstFrame /\ i \in Insts
        BY <2>10 DEF ConsumeMetaInstantiation, InstFrame
      <3>3. [Top EXCEPT !.todo = @ \ {i}] \in Frame /\ InstantiateOf(i) \in Frame
        BY <3>2 DEF InstFrame, Frame
      <3>4. stack' \in Seq(Frame)
        BY <2>10, <3>1, <3>3, StackTyped DEF ConsumeMetaInstantiation
      <3> QED
        BY <2>10, <3>4 DEF ConsumeMetaInstantiation, TypeOK
    <2>11. CASE MetaInstantiationConsumed
      <3>1. Top \in InstFrame
        BY <2>11 DEF MetaInstantiationConsumed
      <3>2. [Top EXCEPT !.todo = @] \in Frame /\ [Top EXCEPT !.todo = {}] \in Frame
        BY <3>1 DEF InstFrame, Frame
      <3>3. Goto([Top EXCEPT !.todo = @]) \/ Goto([Top EXCEPT !.todo = {}])
        BY <2>11 DEF MetaInstantiationConsumed
      <3>4. stack' \in Seq(Frame)
        BY <2>11, <3>2, <3>3, StackTyped DEF MetaInstantiationConsumed
      <3> QED
        BY <2>11, <3>4 DEF MetaInstantiationConsumed, TypeOK
    <2>12. CASE MetaDependenciesConsumed
      <3>1. Top \in InstFrame
        BY <2>12 DEF MetaDependenciesConsumed
      <3>2. [Top EXCEPT !.pc = "jumpPad"] \in Frame
        BY <3>1 DEF InstFrame, Frame
      <3>3. stack' \in Seq(Frame)
        BY <2>12, <3>2, StackTyped DEF MetaDependenciesConsumed, Return
      <3> QED
        BY <2>12, <3>3 DEF MetaDependenciesConsumed, TypeOK, Return
    <2>13. CASE GenerateMetaFunction
      <3>1. Top \in InstFrame /\ prog.decl[Top.inst] \in Metas
        BY <2>13 DEF GenerateMetaFunction, InstFrame
      <3>2. [Top EXCEPT !.pc = "jumpPad"] \in Frame
        BY <3>1 DEF InstFrame, Frame
      <3>3. stack' \in Seq(Frame)
        BY <2>13, <3>2, StackTyped DEF GenerateMetaFunction
      <3>4. status' \in Statuses
        BY <2>13 DEF GenerateMetaFunction, RequireExports, TypeOK, Statuses, Failures
      <3>5. /\ available' \subseteq Fns \cup Metas
            /\ shipment' \subseteq Fns \cup Metas \cup Insts
            /\ unresolved' \subseteq {"decl", "function"} \X Fns
            /\ functionSource' \subseteq Fns /\ dependencies' \subseteq Fns \cup Metas
        BY <2>13, <3>1 DEF GenerateMetaFunction, TypeOK, LookupGlobals
      <3>6. errors' \in BOOLEAN
        BY <2>13 DEF GenerateMetaFunction, RequireExports, TypeOK
      <3> QED
        BY <2>13, <3>3, <3>4, <3>5, <3>6 DEF GenerateMetaFunction, TypeOK
    <2>14. CASE CreateJumpPad
      <3>1. Top \in InstFrame /\ Top.inst \in Insts
        BY <2>14 DEF CreateJumpPad, InstFrame
      <3>2. [Top EXCEPT !.pc = "ship"] \in Frame
        BY <3>1 DEF InstFrame, Frame
      <3>3. stack' \in Seq(Frame)
        BY <2>14, <3>2, StackTyped DEF CreateJumpPad
      <3> QED
        BY <2>14, <3>1, <3>3 DEF CreateJumpPad, TypeOK
    <2>15. CASE ResolveDependency
      <3>1. PICK u \in unresolved :
              /\ unresolved' = unresolved \ {u}
              /\ Check(u[1] = "decl" \/ u[2] \in functionSource, "notInSourceMap")
              /\ Call([Top EXCEPT !.dep = u[2]], CodegenOf(u[2]))
        BY <2>15 DEF ResolveDependency
      <3>2. Top \in InstFrame /\ u[2] \in Fns
        BY <2>15 DEF ResolveDependency, TypeOK
      <3>3. [Top EXCEPT !.dep = u[2]] \in Frame /\ CodegenOf(u[2]) \in Frame
        BY <3>2 DEF InstFrame, Frame
      <3>4. stack' \in Seq(Frame)
        BY <2>15, <3>1, <3>3, StackTyped DEF ResolveDependency
      <3> QED
        BY <2>15, <3>1, <3>4 DEF ResolveDependency, TypeOK, Check
    <2>16. CASE DependencyResolved /\ ret # "ok"
      <3>1. stack' \in Seq(Frame)
        BY <2>16, StackTyped DEF DependencyResolved, DependencyNotResolved, Return
      <3> QED
        BY <2>16, <3>1 DEF DependencyResolved, DependencyNotResolved, TypeOK, Return
    <2>17. CASE DependencyResolved /\ ret = "ok"
      <3>1. Top \in InstFrame /\ Top.dep \in Fns
        BY <2>17 DEF DependencyResolved, Pull, InstFrame
      <3>2. [Top EXCEPT !.dep = None] \in Frame
        BY <3>1 DEF InstFrame, Frame
      <3>3. stack' \in Seq(Frame)
        BY <2>17, <3>2, StackTyped DEF DependencyResolved, Pull
      <3> QED
        BY <2>17, <3>1, <3>3 DEF DependencyResolved, Pull, TypeOK, Check
    <2>18. CASE ShipToJIT
      <3>1. Top \in InstFrame
        BY <2>18 DEF ShipToJIT
      <3>2. [Top EXCEPT !.pc = "invoke"] \in Frame
        BY <3>1 DEF InstFrame, Frame
      <3>3. stack' \in Seq(Frame)
        BY <2>18, <3>2, StackTyped DEF ShipToJIT
      <3> QED
        BY <2>18, <3>3 DEF ShipToJIT, TypeOK
    <2>19. CASE Invoke
      <3>1. Top.inst \in Insts
        BY <2>19 DEF Invoke, InstFrame
      <3>2. stack' \in Seq(Frame)
        BY <2>19, StackTyped DEF Invoke, Return
      <3> QED
        BY <2>19, <3>1, <3>2 DEF Invoke, TypeOK, Return, Check
    <2>20. CASE UNCHANGED vars
      BY <2>20 DEF vars, TypeOK
    <2> QED
      BY <2>1, <2>2, <2>3, <2>4, <2>5, <2>6, <2>7, <2>8, <2>9, <2>10, <2>11,
         <2>12, <2>13, <2>14, <2>15, <2>16, <2>17, <2>18, <2>19, <2>20
      DEF Next, Ended
  <1> QED
    BY <1>1, <1>2, PTL DEF Spec

(***************************************************************************)
(* How calls nest.                                                         *)
(***************************************************************************)
\* Goto keeps CallsNest when the call stays the one its caller awaits
LEMMA GotoNests ==
  ASSUME TypeOK, CallsNest, stack # << >>, NEW e \in Frame, Goto(e),
         e.fn = Top.fn, e.fn = None => e.inst = Top.inst
  PROVE  CallsNest'
  <1>1. /\ stack' \in Seq(Frame) /\ Len(stack') = Len(stack) /\ Len(stack) \in Nat \ {0}
        /\ stack'[Len(stack)] = e
        /\ \A k \in 1 .. Len(stack) - 1 : stack'[k] = stack[k]
    BY FramesTyped, GotoStack DEF Goto
  <1>2. ASSUME NEW k \in 1 .. Len(stack) - 1
        PROVE  Awaits(stack'[k], stack'[k+1])
    <2>1. Awaits(stack[k], stack[k+1]) /\ stack'[k] = stack[k]
      BY <1>1 DEF CallsNest
    <2>2. CASE k + 1 = Len(stack)
      <3>1. stack[k+1] = Top /\ stack'[k+1] = e
        BY <1>1, <2>2 DEF Top
      <3>2. Top.fn # None \/ e.inst = Top.inst
        OBVIOUS
      <3> QED
        BY <2>1, <3>1, <3>2 DEF Awaits
    <2>3. CASE k + 1 # Len(stack)
      BY <1>1, <2>1, <2>3
    <2> QED
      BY <2>2, <2>3
  <1> QED
    BY <1>1, <1>2 DEF CallsNest

\* Call keeps CallsNest when the caller awaits the new call
LEMMA CallNests ==
  ASSUME TypeOK, CallsNest, stack # << >>, NEW e \in Frame, NEW n \in Frame,
         Call(e, n), e.fn = Top.fn, e.fn = None => e.inst = Top.inst, Awaits(e, n)
  PROVE  CallsNest'
  <1>1. /\ stack' \in Seq(Frame) /\ Len(stack') = Len(stack) + 1
        /\ Len(stack) \in Nat \ {0}
        /\ stack'[Len(stack) + 1] = n /\ stack'[Len(stack)] = e
        /\ \A k \in 1 .. Len(stack) - 1 : stack'[k] = stack[k]
    BY FramesTyped, CallStack DEF Call
  <1>2. ASSUME NEW k \in 1 .. Len(stack)
        PROVE  Awaits(stack'[k], stack'[k+1])
    <2>1. CASE k = Len(stack)
      BY <1>1, <2>1
    <2>2. CASE k + 1 = Len(stack)
      <3>1. stack[k+1] = Top /\ stack'[k+1] = e /\ stack'[k] = stack[k]
        BY <1>1, <2>2 DEF Top
      <3>2. Awaits(stack[k], stack[k+1])
        BY <1>1, <2>2 DEF CallsNest
      <3> QED
        BY <3>1, <3>2 DEF Awaits
    <2>3. CASE k < Len(stack) - 1
      BY <1>1, <2>3 DEF CallsNest
    <2> QED
      BY <1>1, <2>1, <2>2, <2>3
  <1> QED
    BY <1>1, <1>2 DEF CallsNest

\* Return keeps CallsNest and leaves a frame that awaited the call as the
\* innermost
LEMMA ReturnNests ==
  ASSUME TypeOK, CallsNest, stack # << >>, stack' = SubSeq(stack, 1, Len(stack) - 1)
  PROVE  /\ CallsNest'
         /\ stack' # << >> => Top' \in Frame /\ Awaits(Top', Top)
  <1>1. /\ stack' \in Seq(Frame) /\ Len(stack') = Len(stack) - 1
        /\ Len(stack) \in Nat \ {0}
        /\ \A k \in 1 .. Len(stack) - 1 : stack'[k] = stack[k]
    BY FramesTyped, ReturnStack, ZenonT(60)
  <1>2. CallsNest'
    <2>1. ASSUME NEW k \in 1 .. Len(stack) - 2
          PROVE  Awaits(stack'[k], stack'[k+1])
      BY <1>1 DEF CallsNest
    <2> QED
      BY <1>1, <2>1 DEF CallsNest
  <1>3. ASSUME stack' # << >> PROVE Top' \in Frame /\ Awaits(Top', Top)
    <2>1. Len(stack') \in 1 .. Len(stack) - 1
      BY <1>1, <1>3
    <2>2. Top' = stack[Len(stack) - 1] /\ Top' \in Frame
      BY <1>1, <2>1 DEF Top
    <2> QED
      BY <1>1, <2>1, <2>2 DEF CallsNest, Top
  <1> QED
    BY <1>2, <1>3

\* The three stack changes on the whole of the control state
LEMMA GotoControl ==
  ASSUME TypeOK, CallsNest, DepsOfShipments, stack # << >>, NEW e \in Frame, Goto(e),
         e.fn = Top.fn, e.fn = None => e.inst = Top.inst,
         e.pc # "ship" => e.dep = None
  PROVE  CallsNest' /\ DepsOfShipments' /\ stack' # << >> /\ Top' = e
  <1>1. /\ stack' \in Seq(Frame) /\ Len(stack') = Len(stack) /\ Len(stack) \in Nat \ {0}
        /\ stack'[Len(stack)] = e
        /\ \A k \in 1 .. Len(stack) - 1 : stack'[k] = stack[k]
    BY FramesTyped, GotoStack DEF Goto
  <1> QED
    BY <1>1, GotoNests DEF DepsOfShipments, Top

\* The call and the return keep the control part of the invariant
LEMMA CallControl ==
  ASSUME TypeOK, CallsNest, DepsOfShipments, stack # << >>,
         NEW e \in Frame, NEW n \in Frame, Call(e, n),
         e.fn = Top.fn, e.fn = None => e.inst = Top.inst, Awaits(e, n),
         e.pc # "ship" => e.dep = None, n.pc # "ship" => n.dep = None
  PROVE  CallsNest' /\ DepsOfShipments' /\ stack' # << >> /\ Top' = n
  <1>1. /\ stack' \in Seq(Frame) /\ Len(stack') = Len(stack) + 1
        /\ Len(stack) \in Nat \ {0}
        /\ stack'[Len(stack) + 1] = n /\ stack'[Len(stack)] = e
        /\ \A k \in 1 .. Len(stack) - 1 : stack'[k] = stack[k]
    BY FramesTyped, CallStack DEF Call
  <1>2. DepsOfShipments' /\ Top' = n /\ stack' # << >>
    BY <1>1 DEF DepsOfShipments, Top
  <1> QED
    BY <1>2, CallNests

LEMMA ReturnControl ==
  ASSUME TypeOK, CallsNest, DepsOfShipments, stack # << >>,
         stack' = SubSeq(stack, 1, Len(stack) - 1)
  PROVE  /\ CallsNest' /\ DepsOfShipments'
         /\ stack' # << >> => Top' \in Frame /\ Awaits(Top', Top)
  <1>1. /\ Len(stack') = Len(stack) - 1 /\ Len(stack) \in Nat \ {0}
        /\ \A k \in 1 .. Len(stack) - 1 : stack'[k] = stack[k]
    BY FramesTyped, ReturnStack, ZenonT(60)
  <1> QED
    BY <1>1, ReturnNests DEF DepsOfShipments

\* How the calls nest and how errors unwind, whatever the step
LEMMA ControlStep == TypeOK /\ ControlInv /\ [Next]_vars => ControlInv'
  <1> SUFFICES ASSUME TypeOK, ControlInv, [Next]_vars PROVE ControlInv'
    OBVIOUS
  <1> USE TopTyped, FrameKind, NewFrames
      DEF Idle, At, Running, FnPCs, InstPCs, amalgamation, executor
  <1>a. CallsNest /\ DepsOfShipments /\ IdleFrame /\ ErrorUnwinds /\ FailedMeansError
    BY DEF ControlInv
  <1>b. stack # << >> => (Top.pc # "ship" => Top.dep = None)
    BY <1>a DEF DepsOfShipments, Top
  <1>1. CASE PopDependency
    <2>1. PICK d \in dependencies :
            stack' = IF d \in Fns THEN <<CodegenOf(d)>> ELSE << >>
      BY <1>1 DEF PopDependency
    <2>2. CallsNest' /\ DepsOfShipments' /\ IdleFrame'
      BY <1>1, <2>1 DEF PopDependency, CallsNest, DepsOfShipments, IdleFrame, Top, CodegenOf
    <2> QED
      BY <1>1, <1>a, <2>2 DEF PopDependency, ControlInv, ErrorUnwinds, FailedMeansError
  <1>2. CASE DependencyReturned
    BY <1>2, <1>a DEF DependencyReturned, ControlInv, CallsNest, DepsOfShipments,
       IdleFrame, ErrorUnwinds, FailedMeansError
  <1>3. CASE FinishGeneration
    BY <1>3, <1>a DEF FinishGeneration, ControlInv, CallsNest, DepsOfShipments,
       IdleFrame, ErrorUnwinds, FailedMeansError, Top
  <1>4. CASE EnterFunction
    <2>1. Top \in FnFrame /\ ~errors /\ Top.inst = None
      BY <1>4, <1>a DEF EnterFunction, ErrorUnwinds, IdleFrame
    <2>2. CASE Top.fn \in bodies
      BY <1>4, <1>a, <2>1, <2>2, ReturnControl
      DEF EnterFunction, Return, ControlInv, IdleFrame, ErrorUnwinds, FailedMeansError
    <2>3. CASE Top.fn \notin bodies
      <3> DEFINE e == [Top EXCEPT !.pc = "consume", !.todo = prog.insts[Top.fn]]
      <3>1. e \in Frame
        BY <2>1, ProgramTypes DEF FnFrame, Frame
      <3>2. Goto(e) /\ UNCHANGED <<ret, errors, status>>
        BY <1>4, <2>3 DEF EnterFunction
      <3>3. e.fn = Top.fn /\ e.fn # None /\ e.dep = None /\ e.inst = None
        BY <2>1, SymbolsAssumption DEF FnFrame
      <3>4. CallsNest' /\ DepsOfShipments' /\ stack' # << >> /\ Top' = e
        BY <1>4, <1>a, <3>1, <3>2, <3>3, GotoControl DEF EnterFunction
      <3> QED
        BY <1>4, <1>a, <2>1, <3>2, <3>3, <3>4
        DEF EnterFunction, ControlInv, IdleFrame, ErrorUnwinds, FailedMeansError
    <2> QED
      BY <2>2, <2>3
  <1>5. CASE ConsumeInstantiation
    <2>1. PICK i \in Top.todo :
            Call([Top EXCEPT !.todo = @ \ {i}, !.inst = i], InstantiateOf(i))
      BY <1>5 DEF ConsumeInstantiation
    <2> DEFINE e == [Top EXCEPT !.todo = @ \ {i}, !.inst = i]
    <2>2. Top \in FnFrame /\ i \in Insts /\ ~errors
      BY <1>5, <1>a DEF ConsumeInstantiation, FnFrame, ErrorUnwinds
    <2>3. /\ e \in Frame /\ InstantiateOf(i) \in Frame
          /\ e.fn = Top.fn /\ e.fn # None /\ e.dep = None
          /\ InstantiateOf(i).dep = None /\ InstantiateOf(i).pc = "instantiate"
          /\ Awaits(e, InstantiateOf(i))
      BY <1>5, <2>2, SymbolsAssumption
      DEF ConsumeInstantiation, FnFrame, Frame, Awaits, InstantiateOf
    <2>4. CallsNest' /\ DepsOfShipments' /\ stack' # << >> /\ Top' = InstantiateOf(i)
      BY <1>5, <1>a, <2>1, <2>3, CallControl DEF ConsumeInstantiation
    <2> QED
      BY <1>5, <1>a, <2>2, <2>3, <2>4
      DEF ConsumeInstantiation, ControlInv, IdleFrame, ErrorUnwinds, FailedMeansError
  <1>6. CASE InstantiationConsumed
    <2>1. PICK T \in SUBSET Insts :
            /\ Goto([Top EXCEPT !.inst = None, !.todo = T])
            /\ errors' => T = {}
      <3>1. Top \in FnFrame /\ Top.todo \in SUBSET Insts /\ Top.inst \in Insts
        BY <1>6 DEF InstantiationConsumed, FnFrame
      <3>2. errors => ret = "fail"
        BY <1>6, <1>a DEF InstantiationConsumed, ErrorUnwinds
      <3>3. CASE ret = "ok" /\ ExportsOf({Top.inst}) # {}
        <4>1. ~errors' /\ Goto([Top EXCEPT !.inst = None, !.todo = @])
          BY <1>6, <3>2, <3>3 DEF InstantiationConsumed
        <4> QED
          BY <3>1, <4>1
      <3>4. CASE ~(ret = "ok" /\ ExportsOf({Top.inst}) # {})
        <4>1. Goto([Top EXCEPT !.inst = None, !.todo = {}])
          BY <1>6, <3>4 DEF InstantiationConsumed
        <4> QED
          BY <4>1
      <3> QED
        BY <3>3, <3>4
    <2> DEFINE e == [Top EXCEPT !.inst = None, !.todo = T]
    <2>2. Top \in FnFrame
      BY <1>6 DEF InstantiationConsumed
    <2>3. /\ e \in Frame /\ e.fn = Top.fn /\ e.fn # None /\ e.dep = None
          /\ e.inst = None /\ e.pc = "consume" /\ e.todo = T
      BY <1>6, <2>2, SymbolsAssumption DEF InstantiationConsumed, FnFrame, Frame
    <2>4. CallsNest' /\ DepsOfShipments' /\ stack' # << >> /\ Top' = e
      BY <1>6, <1>a, <2>1, <2>3, GotoControl DEF InstantiationConsumed
    <2> QED
      BY <1>6, <1>a, <2>1, <2>3, <2>4
      DEF InstantiationConsumed, ControlInv, IdleFrame, ErrorUnwinds, FailedMeansError
  <1>7. CASE EnterGeneration
    <2>1. Top \in FnFrame
      BY <1>7 DEF EnterGeneration
    <2>2. CASE errors
      BY <1>7, <1>a, <2>2, ReturnControl
      DEF EnterGeneration, Return, ControlInv, IdleFrame, ErrorUnwinds, FailedMeansError
    <2>3. CASE ~errors
      <3> DEFINE e == [Top EXCEPT !.pc = "generate"]
      <3>1. /\ e \in Frame /\ e.fn = Top.fn /\ e.fn # None
            /\ e.dep = None /\ e.inst = None
        BY <1>7, <1>a, <2>1, SymbolsAssumption DEF EnterGeneration, FnFrame, Frame, IdleFrame
      <3>2. CallsNest' /\ DepsOfShipments' /\ stack' # << >> /\ Top' = e
        BY <1>7, <1>a, <2>3, <3>1, GotoControl DEF EnterGeneration
      <3> QED
        BY <1>7, <1>a, <2>3, <3>1, <3>2
        DEF EnterGeneration, ControlInv, IdleFrame, ErrorUnwinds, FailedMeansError
    <2> QED
      BY <2>2, <2>3
  <1>8. CASE GenerateFunction
    BY <1>8, <1>a, ReturnControl
    DEF GenerateFunction, Return, ControlInv, IdleFrame, ErrorUnwinds, FailedMeansError
  <1>9. CASE EnterInstantiate
    <2>1. Top \in InstFrame /\ ~errors
      BY <1>9, <1>a DEF EnterInstantiate, ErrorUnwinds
    <2>2. CASE Top.inst \in instantiations
      BY <1>9, <1>a, <2>1, <2>2, ReturnControl
      DEF EnterInstantiate, Return, ControlInv, IdleFrame, ErrorUnwinds, FailedMeansError
    <2>3. CASE Top.inst \notin instantiations
      <3>1. PICK pc \in {"jumpPad", "consumeMeta"}, T \in SUBSET Insts :
              Goto([Top EXCEPT !.pc = pc, !.todo = T])
        <4>1. CASE prog.decl[Top.inst] \in available
          <5>1. Goto([Top EXCEPT !.pc = "jumpPad"]) /\ Top.todo \in SUBSET Insts
            BY <1>9, <2>1, <2>3, <4>1 DEF EnterInstantiate, InstFrame
          <5>2. [Top EXCEPT !.pc = "jumpPad"] = [Top EXCEPT !.pc = "jumpPad", !.todo = Top.todo]
            BY <2>1 DEF InstFrame
          <5> QED
            BY <5>1, <5>2
        <4>2. CASE prog.decl[Top.inst] \notin available
          BY <1>9, <2>1, <2>3, <4>2, ProgramTypes DEF EnterInstantiate, InstFrame
        <4> QED
          BY <4>1, <4>2
      <3> DEFINE e == [Top EXCEPT !.pc = pc, !.todo = T]
      <3>2. /\ e \in Frame /\ e.fn = Top.fn /\ e.inst = Top.inst /\ e.dep = None
            /\ e.pc = pc
        BY <1>9, <1>b, <2>1 DEF EnterInstantiate, InstFrame, Frame
      <3>3. CallsNest' /\ DepsOfShipments' /\ stack' # << >> /\ Top' = e
        BY <1>9, <1>a, <3>1, <3>2, GotoControl DEF EnterInstantiate
      <3> QED
        BY <1>9, <1>a, <2>1, <2>3, <3>2, <3>3
        DEF EnterInstantiate, ControlInv, IdleFrame, ErrorUnwinds, FailedMeansError
    <2> QED
      BY <2>2, <2>3
  <1>10. CASE ConsumeMetaInstantiation
    <2>1. PICK i \in Top.todo : Call([Top EXCEPT !.todo = @ \ {i}], InstantiateOf(i))
      BY <1>10 DEF ConsumeMetaInstantiation
    <2> DEFINE e == [Top EXCEPT !.todo = @ \ {i}]
    <2>2. Top \in InstFrame /\ i \in Insts /\ ~errors
      BY <1>10, <1>a DEF ConsumeMetaInstantiation, InstFrame, ErrorUnwinds
    <2>3. /\ e \in Frame /\ InstantiateOf(i) \in Frame
          /\ e.fn = Top.fn /\ e.inst = Top.inst /\ e.dep = None
          /\ InstantiateOf(i).dep = None /\ InstantiateOf(i).pc = "instantiate"
          /\ Awaits(e, InstantiateOf(i))
      BY <1>10, <1>b, <2>2
      DEF ConsumeMetaInstantiation, InstFrame, Frame, Awaits, InstantiateOf
    <2>4. CallsNest' /\ DepsOfShipments' /\ stack' # << >> /\ Top' = InstantiateOf(i)
      BY <1>10, <1>a, <2>1, <2>3, CallControl DEF ConsumeMetaInstantiation
    <2> QED
      BY <1>10, <1>a, <2>2, <2>3, <2>4
      DEF ConsumeMetaInstantiation, ControlInv, IdleFrame, ErrorUnwinds, FailedMeansError
  <1>11. CASE MetaInstantiationConsumed
    <2>1. Top \in InstFrame /\ (errors => ret = "fail")
      BY <1>11, <1>a DEF MetaInstantiationConsumed, ErrorUnwinds
    <2>2. PICK T \in SUBSET Insts : Goto([Top EXCEPT !.todo = T]) /\ (errors => T = {})
      <3>1. CASE ret = "ok"
        BY <1>11, <2>1, <3>1 DEF MetaInstantiationConsumed, InstFrame
      <3>2. CASE ret # "ok"
        BY <1>11, <3>2 DEF MetaInstantiationConsumed
      <3> QED
        BY <3>1, <3>2
    <2> DEFINE e == [Top EXCEPT !.todo = T]
    <2>3. /\ e \in Frame /\ e.fn = Top.fn /\ e.inst = Top.inst /\ e.dep = None
          /\ e.pc = "consumeMeta" /\ e.todo = T
      BY <1>11, <1>b, <2>1 DEF MetaInstantiationConsumed, InstFrame, Frame
    <2>4. CallsNest' /\ DepsOfShipments' /\ stack' # << >> /\ Top' = e
      BY <1>11, <1>a, <2>2, <2>3, GotoControl DEF MetaInstantiationConsumed
    <2> QED
      BY <1>11, <1>a, <2>2, <2>3, <2>4
      DEF MetaInstantiationConsumed, ControlInv, IdleFrame, ErrorUnwinds, FailedMeansError
  <1>12. CASE MetaDependenciesConsumed
    <2>1. Top \in InstFrame
      BY <1>12 DEF MetaDependenciesConsumed
    <2>2. CASE errors
      BY <1>12, <1>a, <2>2, ReturnControl
      DEF MetaDependenciesConsumed, Return, ControlInv, IdleFrame, ErrorUnwinds,
          FailedMeansError
    <2>3. CASE ~errors
      <3> DEFINE e == [Top EXCEPT !.pc = "jumpPad"]
      <3>1. /\ e \in Frame /\ e.fn = Top.fn /\ e.inst = Top.inst /\ e.dep = None
            /\ e.pc = "jumpPad"
        BY <1>12, <1>b, <2>1 DEF MetaDependenciesConsumed, InstFrame, Frame
      <3>2. CallsNest' /\ DepsOfShipments' /\ stack' # << >> /\ Top' = e
        BY <1>12, <1>a, <2>3, <3>1, GotoControl DEF MetaDependenciesConsumed
      <3> QED
        BY <1>12, <1>a, <2>3, <3>1, <3>2
        DEF MetaDependenciesConsumed, ControlInv, IdleFrame, ErrorUnwinds, FailedMeansError
    <2> QED
      BY <2>2, <2>3
  <1>13. CASE GenerateMetaFunction
    <2> DEFINE e == [Top EXCEPT !.pc = "jumpPad"]
    <2>1. /\ e \in Frame /\ e.fn = Top.fn /\ e.inst = Top.inst /\ e.dep = None
          /\ e.pc = "jumpPad"
      BY <1>13, <1>b DEF GenerateMetaFunction, InstFrame, Frame
    <2>2. CallsNest' /\ DepsOfShipments' /\ stack' # << >> /\ Top' = e
      BY <1>13, <1>a, <2>1, GotoControl DEF GenerateMetaFunction
    <2> QED
      BY <1>13, <1>a, <2>1, <2>2
      DEF GenerateMetaFunction, RequireExports, ControlInv, IdleFrame, ErrorUnwinds,
          FailedMeansError
  <1>14. CASE CreateJumpPad
    <2> DEFINE e == [Top EXCEPT !.pc = "ship"]
    <2>1. /\ e \in Frame /\ e.fn = Top.fn /\ e.inst = Top.inst /\ e.dep = None
          /\ e.pc = "ship"
      BY <1>14, <1>b DEF CreateJumpPad, InstFrame, Frame
    <2>2. CallsNest' /\ DepsOfShipments' /\ stack' # << >> /\ Top' = e
      BY <1>14, <1>a, <2>1, GotoControl DEF CreateJumpPad
    <2> QED
      BY <1>14, <1>a, <2>1, <2>2
      DEF CreateJumpPad, ControlInv, IdleFrame, ErrorUnwinds, FailedMeansError
  <1>15. CASE ResolveDependency
    <2>1. PICK u \in unresolved : Call([Top EXCEPT !.dep = u[2]], CodegenOf(u[2]))
      BY <1>15 DEF ResolveDependency
    <2> DEFINE e == [Top EXCEPT !.dep = u[2]]
               n == CodegenOf(u[2])
    <2>2. Top \in InstFrame /\ u[2] \in Fns /\ u[2] # None /\ ~errors
      BY <1>15, <1>a, SymbolsAssumption DEF ResolveDependency, TypeOK, ErrorUnwinds
    <2>3. /\ e \in Frame /\ n \in Frame
          /\ e.fn = Top.fn /\ e.inst = Top.inst /\ e.pc = "ship"
          /\ n.dep = None /\ n.inst = None /\ n.pc = "codegen" /\ Awaits(e, n)
      BY <1>15, <2>2 DEF ResolveDependency, InstFrame, Frame, Awaits, CodegenOf
    <2>4. CallsNest' /\ DepsOfShipments' /\ stack' # << >> /\ Top' = n
      BY <1>15, <1>a, <2>1, <2>3, CallControl DEF ResolveDependency
    <2> QED
      BY <1>15, <1>a, <2>2, <2>3, <2>4
      DEF ResolveDependency, ControlInv, IdleFrame, ErrorUnwinds, FailedMeansError
  <1>16. CASE DependencyResolved /\ ret # "ok"
    <2>1. ret = "fail"
      BY <1>16 DEF DependencyResolved, TypeOK
    <2> QED
      BY <1>16, <1>a, <2>1, ReturnControl
      DEF DependencyResolved, DependencyNotResolved, Return, ControlInv, IdleFrame,
          ErrorUnwinds, FailedMeansError
  <1>17. CASE DependencyResolved /\ ret = "ok"
    <2> DEFINE e == [Top EXCEPT !.dep = None]
    <2>1. /\ e \in Frame /\ e.fn = Top.fn /\ e.inst = Top.inst /\ e.dep = None
          /\ e.pc = "ship"
      BY <1>17 DEF DependencyResolved, Pull, InstFrame, Frame
    <2>2. CallsNest' /\ DepsOfShipments' /\ stack' # << >> /\ Top' = e
      BY <1>17, <1>a, <2>1, GotoControl DEF DependencyResolved, Pull
    <2>3. ~errors
      BY <1>17, <1>a DEF DependencyResolved, Pull, ErrorUnwinds
    <2> QED
      BY <1>17, <1>a, <2>1, <2>2, <2>3
      DEF DependencyResolved, Pull, ControlInv, IdleFrame, ErrorUnwinds, FailedMeansError
  <1>18. CASE ShipToJIT
    <2> DEFINE e == [Top EXCEPT !.pc = "invoke"]
    <2>1. Top.dep = None
      BY <1>18, <1>a DEF ShipToJIT, IdleFrame
    <2>2. /\ e \in Frame /\ e.fn = Top.fn /\ e.inst = Top.inst /\ e.dep = None
          /\ e.pc = "invoke"
      BY <1>18, <2>1 DEF ShipToJIT, InstFrame, Frame
    <2>3. CallsNest' /\ DepsOfShipments' /\ stack' # << >> /\ Top' = e
      BY <1>18, <1>a, <2>2, GotoControl DEF ShipToJIT
    <2> QED
      BY <1>18, <1>a, <2>2, <2>3
      DEF ShipToJIT, ControlInv, IdleFrame, ErrorUnwinds, FailedMeansError
  <1>19. CASE Invoke
    <2>1. Return("ok") \/ (Return("fail") /\ errors')
      BY <1>19 DEF Invoke
    <2>2. stack # << >> /\ stack' = SubSeq(stack, 1, Len(stack) - 1)
      BY <1>19, <2>1 DEF Invoke, Return
    <2>3. CallsNest' /\ DepsOfShipments'
      BY <1>a, <2>2, ReturnControl
    <2>4. errors' => ret' = "fail"
      BY <1>19 DEF Invoke, Return
    <2> QED
      BY <2>1, <2>3, <2>4
      DEF Return, ControlInv, IdleFrame, ErrorUnwinds, FailedMeansError
  <1>20. CASE UNCHANGED vars
    BY <1>20, <1>a DEF vars, ControlInv, CallsNest, DepsOfShipments, IdleFrame,
       ErrorUnwinds, FailedMeansError, Top
  <1> QED
    BY <1>1, <1>2, <1>3, <1>4, <1>5, <1>6, <1>7, <1>8, <1>9, <1>10, <1>11, <1>12,
       <1>13, <1>14, <1>15, <1>16, <1>17, <1>18, <1>19, <1>20 DEF Next, Ended

\* The control part of the invariant
LEMMA ControlCorrect == Spec => []ControlInv
  <1>1. Init => ControlInv
    BY DEF Init, ControlInv, CallsNest, DepsOfShipments, IdleFrame, ErrorUnwinds,
       FailedMeansError
  <1> QED
    BY <1>1, TypeCorrect, ControlStep, PTL DEF Spec

\* After an error nothing is generated, pulled, shipped, run or cached (the
\* canContinue checks of both classes)
THEOREM ErrorsStopGeneration == Spec => NothingAfterError
  <1>1. ControlInv /\ [Next]_vars => [errors => UNCHANGED <<bodies, executor>>]_vars
    <2> SUFFICES ASSUME ControlInv, Next, errors PROVE UNCHANGED <<bodies, executor>>
      BY DEF vars, executor
    <2>1. Running => \/ ret = "fail"
                     \/ /\ ret = "none" /\ stack # << >>
                        /\ Top.pc \in {"consume", "consumeMeta"} /\ Top.todo = {}
      BY DEF ControlInv, ErrorUnwinds
    <2>2. ~ (EnterFunction \/ GenerateFunction \/ EnterInstantiate)
      BY <2>1 DEF EnterFunction, GenerateFunction, EnterInstantiate, Idle, At, Running
    <2>3. ~ (GenerateMetaFunction \/ CreateJumpPad \/ ResolveDependency)
      BY <2>1 DEF GenerateMetaFunction, CreateJumpPad, ResolveDependency, Idle, At, Running
    <2>4. ~ (ShipToJIT \/ Invoke \/ (DependencyResolved /\ ret = "ok"))
      BY <2>1 DEF DependencyResolved, ShipToJIT, Invoke, Idle, At, Running
    <2>5. (PopDependency \/ DependencyReturned \/ FinishGeneration)
             => UNCHANGED <<bodies, executor>>
      BY DEF PopDependency, DependencyReturned, FinishGeneration, amalgamation
    <2>6. (ConsumeInstantiation \/ InstantiationConsumed \/ EnterGeneration)
             => UNCHANGED <<bodies, executor>>
      BY DEF ConsumeInstantiation, InstantiationConsumed, EnterGeneration, amalgamation
    <2>7. (ConsumeMetaInstantiation \/ MetaInstantiationConsumed
             \/ MetaDependenciesConsumed) => UNCHANGED <<bodies, executor>>
      BY DEF ConsumeMetaInstantiation, MetaInstantiationConsumed,
             MetaDependenciesConsumed, amalgamation
    <2>8. ((DependencyResolved /\ ret # "ok") \/ Ended)
             => UNCHANGED <<bodies, executor>>
      BY DEF DependencyResolved, DependencyNotResolved, Ended, amalgamation, vars, executor
    <2> QED
      BY <2>2, <2>3, <2>4, <2>5, <2>6, <2>7, <2>8 DEF Next
  <1> QED
    BY <1>1, ControlCorrect, PTL DEF Spec, NothingAfterError

(***************************************************************************)
(* The "differential set" of CodeExecutor, for every program: each symbol  *)
(* is defined once, no reference of a module is forgotten by nested calls, *)
(* and an outermost jump pad is invoked in a JIT that has everything.      *)
(***************************************************************************)

\* What a module may refer to
Covered == available \cup {u[2] : u \in unresolved} \cup Resolving

\* How the three changes of the stack change what is being resolved
LEMMA GotoResolving ==
  ASSUME TypeOK, stack # << >>, NEW e \in Frame,
         stack' = [stack EXCEPT ![Len(stack)] = e]
  PROVE  /\ Resolving \ {Top.dep} \subseteq Resolving'
         /\ e.dep # None => e.dep \in Resolving'
  <1>1. PICK n \in Nat \ {0} : n = Len(stack)
    BY FramesTyped, GotoStack
  <1>2. /\ Len(stack') = n /\ stack'[n] = e
        /\ \A k \in 1 .. n - 1 : stack'[k] = stack[k]
    BY <1>1, FramesTyped, GotoStack
  <1>3. ASSUME NEW d \in Resolving, d # Top.dep PROVE d \in Resolving'
    <2>1. PICK k \in 1 .. n : stack[k].dep = d
      BY <1>1 DEF Resolving
    <2>2. k \in 1 .. n - 1
      BY <1>1, <1>3, <2>1 DEF Top
    <2> QED
      BY <1>2, <1>3, <2>1, <2>2 DEF Resolving
  <1>4. n \in 1 .. Len(stack') /\ stack'[n].dep = e.dep
    BY <1>2
  <1>5. e.dep # None => e.dep \in Resolving'
    BY <1>4 DEF Resolving
  <1> QED
    BY <1>3, <1>5

\* What is resolved stays so over a call and a return ...
LEMMA CallResolving ==
  ASSUME TypeOK, stack # << >>, NEW e \in Frame, NEW n \in Frame,
         stack' = Append([stack EXCEPT ![Len(stack)] = e], n)
  PROVE  /\ Resolving \ {Top.dep} \subseteq Resolving'
         /\ e.dep # None => e.dep \in Resolving'
  <1>1. /\ Len(stack') = Len(stack) + 1 /\ Len(stack) \in Nat \ {0}
        /\ stack'[Len(stack)] = e
        /\ \A k \in 1 .. Len(stack) - 1 : stack'[k] = stack[k]
    BY FramesTyped, CallStack
  <1> QED
    BY <1>1 DEF Resolving, Top

LEMMA ReturnResolving ==
  ASSUME TypeOK, stack # << >>, stack' = SubSeq(stack, 1, Len(stack) - 1)
  PROVE  Resolving \ {Top.dep} \subseteq Resolving'
  <1>1. /\ Len(stack') = Len(stack) - 1 /\ Len(stack) \in Nat \ {0}
        /\ \A k \in 1 .. Len(stack) - 1 : stack'[k] = stack[k]
    BY FramesTyped, ReturnStack, ZenonT(60)
  <1> QED
    BY <1>1 DEF Resolving, Top

\* The caller of a call that returns is at one of the three call sites
LEMMA ReturnTop ==
  ASSUME TypeOK, CallsNest, stack # << >>,
         stack' = SubSeq(stack, 1, Len(stack) - 1), stack' # << >>
  PROVE  Top'.pc \in {"consume", "consumeMeta", "ship"}
  <1>1. /\ stack' \in Seq(Frame)
        /\ Len(stack') = Len(stack) - 1 /\ Len(stack) \in Nat \ {0}
        /\ \A k \in 1 .. Len(stack) - 1 : stack'[k] = stack[k]
    BY FramesTyped, ReturnStack
  <1>2. Len(stack') \in 1 .. Len(stack) - 1
    BY <1>1
  <1> QED
    BY <1>1, <1>2 DEF Top, CallsNest, Awaits

\* Only a shipment that waits for a dependency has one
LEMMA TopDep ==
  ASSUME ControlInv, stack # << >>, ret = "none" \/ Top.pc # "ship"
  PROVE  Top.dep = None
  BY DEF ControlInv, IdleFrame, DepsOfShipments, Top

\* References stay covered when nothing loses its cover and each new symbol
\* has one
LEMMA CoverPreserved ==
  ASSUME NoLostReference, prog' = prog,
         Running' => Running, errors => errors',
         Covered \subseteq Covered',
         \A s \in (shipment' \cup jit') \ (shipment \cup jit) :
           (Running' /\ ~errors') => Refs(s) \subseteq Covered'
  PROVE  NoLostReference'
  <1>1. \A s : Refs(s)' = Refs(s)
    BY DEF Refs, FnRefs, MetaRefs, UsedInsts, ExportsOf
  <1> QED
    BY <1>1 DEF NoLostReference, Covered

\* A step on the stack alone, whose innermost frame has no dependency and which
\* does not reach a jump pad, keeps what is being resolved
LEMMA GotoQuiet ==
  ASSUME TypeOK, stack # << >>, Top.dep = None, NEW e \in Frame, Goto(e),
         e.pc \notin {"jumpPad", "invoke"}
  PROVE  Resolving \subseteq Resolving' /\ ~ At("jumpPad")' /\ ~ At("invoke")'
  <1>1. stack' # << >> /\ Top' = e
    BY FramesTyped, GotoStack DEF Goto, Top
  <1>2. Resolving \ {None} \subseteq Resolving'
    BY GotoResolving DEF Goto
  <1> QED
    BY <1>1, <1>2 DEF At, Resolving

\* ... and the same for those that do not concern a shipment
LEMMA CallQuiet ==
  ASSUME TypeOK, stack # << >>, Top.dep = None, NEW e \in Frame, NEW n \in Frame,
         Call(e, n), n.pc \notin {"jumpPad", "invoke"}
  PROVE  Resolving \subseteq Resolving' /\ ~ At("jumpPad")' /\ ~ At("invoke")'
  <1>1. stack' # << >> /\ Top' = n
    BY FramesTyped, CallStack DEF Call, Top
  <1>2. Resolving \ {None} \subseteq Resolving'
    BY CallResolving DEF Call
  <1> QED
    BY <1>1, <1>2 DEF At, Resolving

LEMMA ReturnQuiet ==
  ASSUME TypeOK, CallsNest, stack # << >>, Top.dep = None,
         stack' = SubSeq(stack, 1, Len(stack) - 1)
  PROVE  Resolving \subseteq Resolving' /\ ~ At("jumpPad")' /\ ~ At("invoke")'
  <1>1. stack' # << >> => Top'.pc \in {"consume", "consumeMeta", "ship"}
    BY ReturnTop
  <1>2. Resolving \ {None} \subseteq Resolving'
    BY ReturnResolving
  <1> QED
    BY <1>1, <1>2 DEF At, Resolving

\* What a step that leaves the executor's sets alone must keep
LEMMA QuietStep ==
  ASSUME JitInv, UNCHANGED <<prog, available, unresolved, shipment, jit>>,
         Running' => Running, errors => errors', Resolving \subseteq Resolving',
         ~ At("jumpPad")', ~ At("invoke")'
  PROVE  JitInv'
  <1>1. NoLostReference'
    BY CoverPreserved DEF JitInv, Covered
  <1> QED
    BY <1>1 DEF JitInv, JumpPadReady, InvokeReady, DefinedOnce

\* The steps of the two classes that only move control or touch the
\* amalgamation
LEMMA QuietActions ==
  ASSUME TypeOK, ControlInv, JitInv,
         \/ PopDependency \/ DependencyReturned \/ FinishGeneration
         \/ EnterFunction \/ ConsumeInstantiation \/ InstantiationConsumed
         \/ EnterGeneration \/ GenerateFunction \/ ConsumeMetaInstantiation
         \/ MetaInstantiationConsumed \/ Invoke
  PROVE  JitInv'
  <1> USE TopTyped, FrameKind, NewFrames
      DEF Idle, At, Running, FnPCs, InstPCs, amalgamation, executor
  <1>a. CallsNest
    BY DEF ControlInv
  <1>1. CASE PopDependency \/ DependencyReturned \/ FinishGeneration
    <2>1. Resolving = {}
      BY <1>1 DEF PopDependency, DependencyReturned, FinishGeneration, Resolving
    <2>2. stack' # << >> => Top'.pc = "codegen"
      BY <1>1 DEF PopDependency, DependencyReturned, FinishGeneration, Top, CodegenOf
    <2> QED
      BY <1>1, <2>1, <2>2, QuietStep
      DEF PopDependency, DependencyReturned, FinishGeneration
  <1>2. CASE EnterFunction
    <2>1. Top \in FnFrame /\ Top.dep = None
      BY <1>2 DEF EnterFunction, FnFrame
    <2>2. CASE Top.fn \in bodies
      BY <1>2, <1>a, <2>1, <2>2, ReturnQuiet, QuietStep DEF EnterFunction, Return
    <2>3. CASE Top.fn \notin bodies
      <3> DEFINE e == [Top EXCEPT !.pc = "consume", !.todo = prog.insts[Top.fn]]
      <3>1. e \in Frame /\ e.pc = "consume" /\ Goto(e)
        BY <1>2, <2>1, <2>3, ProgramTypes DEF EnterFunction, FnFrame, Frame
      <3> QED
        BY <1>2, <2>1, <3>1, GotoQuiet, QuietStep DEF EnterFunction
    <2> QED
      BY <2>2, <2>3
  <1>3. CASE ConsumeInstantiation
    <2>1. PICK i \in Top.todo :
            Call([Top EXCEPT !.todo = @ \ {i}, !.inst = i], InstantiateOf(i))
      BY <1>3 DEF ConsumeInstantiation
    <2> DEFINE e == [Top EXCEPT !.todo = @ \ {i}, !.inst = i]
    <2>2. Top \in FnFrame /\ i \in Insts /\ Top.dep = None
      BY <1>3 DEF ConsumeInstantiation, FnFrame
    <2>3. e \in Frame /\ InstantiateOf(i) \in Frame /\ InstantiateOf(i).pc = "instantiate"
      BY <1>3, <2>2 DEF ConsumeInstantiation, FnFrame, Frame, InstantiateOf
    <2> QED
      BY <1>3, <2>1, <2>2, <2>3, CallQuiet, QuietStep DEF ConsumeInstantiation
  <1>4. CASE InstantiationConsumed
    <2>1. Top \in FnFrame /\ Top.dep = None /\ Top.todo \in SUBSET Insts
      BY <1>4 DEF InstantiationConsumed, FnFrame
    <2>2. PICK T \in SUBSET Insts : Goto([Top EXCEPT !.inst = None, !.todo = T])
      <3>1. CASE ret = "ok" /\ ExportsOf({Top.inst}) # {}
        <4>1. Goto([Top EXCEPT !.inst = None, !.todo = @])
          BY <1>4, <3>1 DEF InstantiationConsumed
        <4> QED
          BY <2>1, <4>1
      <3>2. CASE ~(ret = "ok" /\ ExportsOf({Top.inst}) # {})
        <4>1. Goto([Top EXCEPT !.inst = None, !.todo = {}])
          BY <1>4, <3>2 DEF InstantiationConsumed
        <4> QED
          BY <4>1
      <3> QED
        BY <3>1, <3>2
    <2> DEFINE e == [Top EXCEPT !.inst = None, !.todo = T]
    <2>3. e \in Frame /\ e.pc = "consume"
      BY <1>4, <2>1 DEF InstantiationConsumed, FnFrame, Frame
    <2>4. errors => errors'
      BY <1>4 DEF InstantiationConsumed
    <2> QED
      BY <1>4, <2>1, <2>2, <2>3, <2>4, GotoQuiet, QuietStep DEF InstantiationConsumed
  <1>5. CASE EnterGeneration
    <2>1. Top \in FnFrame /\ Top.dep = None
      BY <1>5 DEF EnterGeneration, FnFrame
    <2>2. CASE errors
      BY <1>5, <1>a, <2>1, <2>2, ReturnQuiet, QuietStep DEF EnterGeneration, Return
    <2>3. CASE ~errors
      <3> DEFINE e == [Top EXCEPT !.pc = "generate"]
      <3>1. e \in Frame /\ e.pc = "generate" /\ Goto(e) /\ (Running' => Running)
        BY <1>5, <2>1, <2>3 DEF EnterGeneration, FnFrame, Frame
      <3> QED
        BY <1>5, <2>1, <2>3, <3>1, GotoQuiet, QuietStep DEF EnterGeneration
    <2> QED
      BY <2>2, <2>3
  <1>6. CASE GenerateFunction
    <2>1. Top.dep = None
      BY <1>6 DEF GenerateFunction, FnFrame
    <2> QED
      BY <1>6, <1>a, <2>1, ReturnQuiet, QuietStep DEF GenerateFunction, Return
  <1>7. CASE ConsumeMetaInstantiation
    <2>1. PICK i \in Top.todo : Call([Top EXCEPT !.todo = @ \ {i}], InstantiateOf(i))
      BY <1>7 DEF ConsumeMetaInstantiation
    <2> DEFINE e == [Top EXCEPT !.todo = @ \ {i}]
    <2>2. Top \in InstFrame /\ i \in Insts /\ Top.dep = None
      BY <1>7, TopDep DEF ConsumeMetaInstantiation, InstFrame
    <2>3. e \in Frame /\ InstantiateOf(i) \in Frame /\ InstantiateOf(i).pc = "instantiate"
      BY <1>7, <2>2 DEF ConsumeMetaInstantiation, InstFrame, Frame, InstantiateOf
    <2> QED
      BY <1>7, <2>1, <2>2, <2>3, CallQuiet, QuietStep DEF ConsumeMetaInstantiation
  <1>8. CASE MetaInstantiationConsumed
    <2>1. Top \in InstFrame /\ Top.dep = None
      BY <1>8, TopDep DEF MetaInstantiationConsumed
    <2>2. PICK T \in SUBSET Insts : Goto([Top EXCEPT !.todo = T])
      <3>1. CASE ret = "ok"
        BY <1>8, <2>1, <3>1 DEF MetaInstantiationConsumed, InstFrame
      <3>2. CASE ret # "ok"
        BY <1>8, <3>2 DEF MetaInstantiationConsumed
      <3> QED
        BY <3>1, <3>2
    <2> DEFINE e == [Top EXCEPT !.todo = T]
    <2>3. e \in Frame /\ e.pc = "consumeMeta"
      BY <1>8, <2>1 DEF MetaInstantiationConsumed, InstFrame, Frame
    <2> QED
      BY <1>8, <2>1, <2>2, <2>3, GotoQuiet, QuietStep DEF MetaInstantiationConsumed
  <1>9. CASE Invoke
    <2>1. Top.dep = None
      BY <1>9, TopDep DEF Invoke
    <2>2. /\ stack' = SubSeq(stack, 1, Len(stack) - 1)
          /\ errors => errors'
          /\ UNCHANGED <<prog, available, unresolved, shipment, jit>>
      BY <1>9 DEF Invoke, Return
    <2> QED
      BY <1>9, <1>a, <2>1, <2>2, ReturnQuiet, QuietStep DEF Invoke
  <1> QED
    BY <1>1, <1>2, <1>3, <1>4, <1>5, <1>6, <1>7, <1>8, <1>9

(***************************************************************************)
(* The steps that change the executor's sets or reach a jump pad.          *)
(***************************************************************************)
\* A step to the frame e that adds symbols to the open shipment, each of which
\* has its references covered
LEMMA ShipmentStep ==
  ASSUME TypeOK, JitInv, stack # << >>, NEW e \in Frame, Goto(e),
         Top.dep \in available' \cup {e.dep, None},
         UNCHANGED <<prog, jit>>, errors => errors', Running' => Running,
         shipment \subseteq shipment', available \subseteq available',
         unresolved \subseteq unresolved',
         Running' => \A s \in shipment' \ shipment : Refs(s) \subseteq Covered'
  PROVE  NoLostReference' /\ stack' # << >> /\ Top' = e
  <1>1. stack' # << >> /\ Top' = e
    BY FramesTyped, GotoStack DEF Goto, Top
  <1>a. /\ Resolving \ {Top.dep} \subseteq Resolving'
        /\ e.dep # None => e.dep \in Resolving'
    BY GotoResolving DEF Goto
  <1>b. None \notin Resolving
    BY DEF Resolving
  <1>2. Resolving \subseteq Covered'
    BY <1>a, <1>b DEF Covered
  <1>3. Covered \subseteq Covered'
    BY <1>2 DEF Covered
  <1> QED
    BY <1>1, <1>3, CoverPreserved DEF JitInv

\* CodeExecutor::instantiate finds the meta function or has it generated
LEMMA InstantiateSteps ==
  ASSUME TypeOK, ControlInv, JitInv,
         EnterInstantiate \/ MetaDependenciesConsumed \/ GenerateMetaFunction
  PROVE  JitInv'
  <1> USE TopTyped, FrameKind DEF Idle, At, Running, FnPCs, InstPCs, amalgamation, executor
  <1>a. CallsNest
    BY DEF ControlInv
  <1>b. Top \in InstFrame /\ Top.dep = None /\ stack # << >>
    BY TopDep DEF EnterInstantiate, MetaDependenciesConsumed, GenerateMetaFunction
  <1> DEFINE m == prog.decl[Top.inst]
  <1>c. m \in Metas
    BY <1>b, ProgramTypes DEF InstFrame
  <1>1. CASE /\ EnterInstantiate \/ MetaDependenciesConsumed
             /\ stack' = SubSeq(stack, 1, Len(stack) - 1)
    BY <1>1, <1>a, <1>b, ReturnQuiet, QuietStep DEF EnterInstantiate, MetaDependenciesConsumed
  <1>2. CASE /\ EnterInstantiate \/ MetaDependenciesConsumed
             /\ Goto([Top EXCEPT !.pc = "jumpPad"]) /\ m \in available
    <2> DEFINE e == [Top EXCEPT !.pc = "jumpPad"]
    <2>1. e \in Frame /\ e.pc = "jumpPad" /\ e.inst = Top.inst /\ e.dep = None
      BY <1>b DEF InstFrame, Frame
    <2>2. UNCHANGED <<prog, available, unresolved, shipment, jit, errors, status>>
      BY <1>2 DEF EnterInstantiate, MetaDependenciesConsumed
    <2>3. NoLostReference' /\ stack' # << >> /\ Top' = e
      BY <1>2, <1>b, <2>1, <2>2, ShipmentStep
    <2> QED
      BY <1>2, <2>1, <2>2, <2>3 DEF JitInv, JumpPadReady, InvokeReady, DefinedOnce
  <1>3. CASE /\ EnterInstantiate
             /\ Goto([Top EXCEPT !.pc = "consumeMeta", !.todo = prog.metaInsts[m]])
    <2> DEFINE e == [Top EXCEPT !.pc = "consumeMeta", !.todo = prog.metaInsts[m]]
    <2>1. e \in Frame /\ e.pc = "consumeMeta"
      BY <1>b, <1>c, ProgramTypes DEF InstFrame, Frame
    <2> QED
      BY <1>3, <1>b, <2>1, GotoQuiet, QuietStep DEF EnterInstantiate
  <1>4. CASE GenerateMetaFunction
    <2> DEFINE e == [Top EXCEPT !.pc = "jumpPad"]
    <2>1. e \in Frame /\ e.pc = "jumpPad" /\ e.inst = Top.inst /\ e.dep = None
      BY <1>b DEF InstFrame, Frame
    <2>2. /\ available' = available \cup {m} /\ shipment' = shipment \cup {m}
          /\ m \notin available /\ Goto(e) /\ Running
          /\ UNCHANGED <<prog, jit>>
          /\ ~errors
      BY <1>4 DEF GenerateMetaFunction
    <2>3. unresolved' = unresolved
              \cup {<<"decl", f>> : f \in prog.metaCalls[m] \ available}
              \cup {<<"function", f>> : f \in ExportsOf(UsedInsts(m)) \ available}
      BY <1>4 DEF GenerateMetaFunction
    <2>4. Refs(m) = prog.metaCalls[m] \cup ExportsOf(UsedInsts(m))
      BY <1>c, SymbolsAssumption DEF Refs, MetaRefs, Fns
    <2>5. ASSUME NEW f \in prog.metaCalls[m] PROVE f \in Covered'
      <3>1. f \notin available => <<"decl", f>> \in unresolved'
        BY <2>3
      <3> QED
        BY <2>2, <3>1 DEF Covered
    <2>6. ASSUME NEW f \in ExportsOf(UsedInsts(m)) PROVE f \in Covered'
      <3>1. f \notin available => <<"function", f>> \in unresolved'
        BY <2>3
      <3> QED
        BY <2>2, <3>1 DEF Covered
    <2>7. \A s \in shipment' \ shipment : Refs(s) \subseteq Covered'
      BY <2>2, <2>4, <2>5, <2>6
    <2>8. NoLostReference' /\ stack' # << >> /\ Top' = e
      BY <1>b, <2>1, <2>2, <2>3, <2>7, ShipmentStep
    <2>9. DefinedOnce'
      BY <1>c, <2>2 DEF JitInv, DefinedOnce
    <2> QED
      BY <2>1, <2>2, <2>8, <2>9 DEF JitInv, JumpPadReady, InvokeReady
  <1> QED
    <2>1. CASE EnterInstantiate
      BY <1>1, <1>2, <1>3, <2>1 DEF EnterInstantiate, Return
    <2>2. CASE MetaDependenciesConsumed
      BY <1>1, <1>2, <2>2 DEF MetaDependenciesConsumed, Return
    <2> QED
      BY <1>4, <2>1, <2>2

\* The jump pad is created, its dependencies are resolved and pulled, and the
\* shipment is transferred
LEMMA ShipmentSteps ==
  ASSUME TypeOK, ControlInv, JitInv,
         CreateJumpPad \/ ResolveDependency \/ DependencyResolved \/ ShipToJIT
  PROVE  JitInv'
  <1> USE TopTyped, FrameKind, NewFrames
      DEF Idle, At, Running, FnPCs, InstPCs, amalgamation, executor
  <1>a. CallsNest
    BY DEF ControlInv
  <1>b. Top \in InstFrame /\ stack # << >> /\ Running
    BY DEF CreateJumpPad, ResolveDependency, DependencyResolved, ShipToJIT
  <1>1. CASE CreateJumpPad
    <2> DEFINE e == [Top EXCEPT !.pc = "ship"]
    <2>1. e \in Frame /\ e.pc = "ship" /\ Top.inst \in Insts /\ Top.dep = None
      BY <1>1, <1>b, TopDep DEF CreateJumpPad, InstFrame, Frame
    <2>2. /\ shipment' = shipment \cup {Top.inst} /\ Goto(e)
          /\ UNCHANGED <<prog, available, unresolved, jit, errors, status>>
      BY <1>1 DEF CreateJumpPad
    <2>3. Refs(Top.inst) = {prog.decl[Top.inst]} /\ prog.decl[Top.inst] \in available
      BY <1>1, <2>1, SymbolsAssumption DEF Refs, JitInv, JumpPadReady, CreateJumpPad, Fns
    <2>4. \A s \in shipment' \ shipment : Refs(s) \subseteq Covered'
      BY <2>2, <2>3 DEF Covered
    <2>5. NoLostReference' /\ stack' # << >> /\ Top' = e
      BY <1>b, <2>1, <2>2, <2>4, ShipmentStep
    <2>6. DefinedOnce'
      BY <2>1, <2>2, SymbolsAssumption DEF JitInv, DefinedOnce
    <2> QED
      BY <2>1, <2>5, <2>6 DEF JitInv, JumpPadReady, InvokeReady
  <1>2. CASE ResolveDependency
    <2>1. PICK u \in unresolved :
            /\ unresolved' = unresolved \ {u}
            /\ Call([Top EXCEPT !.dep = u[2]], CodegenOf(u[2]))
      BY <1>2 DEF ResolveDependency
    <2> DEFINE e == [Top EXCEPT !.dep = u[2]]
               n == CodegenOf(u[2])
    <2>2. /\ UNCHANGED <<prog, available, shipment, jit, errors>>
          /\ Top.dep = None /\ Top.pc = "ship"
      BY <1>2, TopDep DEF ResolveDependency
    <2>3. u[2] \in Fns /\ u[2] # None
      BY SymbolsAssumption DEF TypeOK
    <2>4. e \in Frame /\ n \in Frame /\ n.pc = "codegen" /\ e.dep = u[2]
      BY <1>b, <2>2, <2>3 DEF InstFrame, Frame, CodegenOf
    <2>5. stack' # << >> /\ Top' = n
      BY <1>b, <2>1, <2>4, FramesTyped, CallStack DEF Call, Top
    <2>6. Resolving \ {None} \subseteq Resolving' /\ u[2] \in Resolving'
      BY <1>b, <2>1, <2>2, <2>3, <2>4, CallResolving DEF Call
    <2>7. Covered \subseteq Covered'
      BY <2>1, <2>2, <2>6 DEF Covered, Resolving
    <2>8. NoLostReference'
      BY <1>b, <2>2, <2>7, CoverPreserved DEF JitInv
    <2> QED
      BY <1>b, <2>2, <2>4, <2>5, <2>8 DEF JitInv, DefinedOnce, JumpPadReady, InvokeReady
  <1>3. CASE DependencyResolved /\ ret # "ok"
    <2>1. ret = "fail" /\ errors
      BY <1>3 DEF DependencyResolved, TypeOK, ControlInv, FailedMeansError
    <2>2. /\ stack' = SubSeq(stack, 1, Len(stack) - 1)
          /\ UNCHANGED <<prog, available, unresolved, shipment, jit, errors, status>>
      BY <1>3, <2>1 DEF DependencyResolved, DependencyNotResolved, Return
    <2>3. stack' # << >> => Top'.pc \in {"consume", "consumeMeta", "ship"}
      BY <1>a, <1>b, <2>2, ReturnTop
    <2> QED
      BY <2>1, <2>2, <2>3
      DEF JitInv, DefinedOnce, NoLostReference, JumpPadReady, InvokeReady
  <1>4. CASE DependencyResolved /\ ret = "ok"
    <2> DEFINE f == Top.dep
               e == [Top EXCEPT !.dep = None]
    <2>1. f \in Fns /\ e \in Frame /\ e.pc = "ship"
      BY <1>4, <1>b DEF DependencyResolved, InstFrame, Frame
    <2>2. /\ available' = available \cup {f} /\ shipment' = shipment \cup {f}
          /\ Goto(e) /\ UNCHANGED <<prog, jit, errors>>
      BY <1>4 DEF DependencyResolved, Pull
    <2>3. unresolved' = unresolved
              \cup {<<"function", g>> : g \in FnRefs(f) \ (available \cup {f})}
      BY <1>4 DEF DependencyResolved, Pull
    <2>4. Running' => f \notin available
      BY <1>4 DEF DependencyResolved, Pull, Check
    <2>5. ASSUME NEW g \in FnRefs(f) PROVE g \in Covered'
      <3>1. g \notin available \cup {f} => <<"function", g>> \in unresolved'
        BY <2>3
      <3> QED
        BY <2>2, <3>1 DEF Covered
    <2>6. \A s \in shipment' \ shipment : Refs(s) \subseteq Covered'
      BY <2>1, <2>2, <2>5 DEF Refs
    <2>7. NoLostReference' /\ stack' # << >> /\ Top' = e
      BY <1>b, <2>1, <2>2, <2>3, <2>6, ShipmentStep
    <2>8. DefinedOnce'
      BY <1>b, <2>1, <2>2, <2>4 DEF JitInv, DefinedOnce
    <2> QED
      BY <2>1, <2>7, <2>8 DEF JitInv, JumpPadReady, InvokeReady
  <1>5. CASE ShipToJIT
    <2> DEFINE e == [Top EXCEPT !.pc = "invoke"]
    <2>1. e \in Frame /\ e.pc = "invoke" /\ Top.dep = None
      BY <1>5, <1>b, TopDep DEF ShipToJIT, InstFrame, Frame
    <2>2. /\ unresolved = {} /\ jit' = jit \cup shipment /\ shipment' = {} /\ Goto(e)
          /\ UNCHANGED <<prog, available, unresolved, errors, status>>
      BY <1>5 DEF ShipToJIT
    <2>3. stack' # << >> /\ Top' = e
      BY <1>b, <2>1, <2>2, FramesTyped, GotoStack DEF Goto, Top
    <2>4. Resolving \ {None} \subseteq Resolving'
      BY <1>b, <2>1, <2>2, GotoResolving DEF Goto
    <2>5. Covered \subseteq Covered'
      BY <2>2, <2>4 DEF Covered, Resolving
    <2>6. NoLostReference'
      BY <1>b, <2>2, <2>5, CoverPreserved DEF JitInv
    <2>7. DefinedOnce'
      BY <2>2 DEF JitInv, DefinedOnce
    <2> QED
      BY <2>1, <2>2, <2>3, <2>6, <2>7 DEF JitInv, JumpPadReady, InvokeReady
  <1> QED
    BY <1>1, <1>2, <1>3, <1>4, <1>5

\* The invariant of the JIT is inductive
LEMMA JitStep ==
  ASSUME TypeOK, ControlInv, JitInv, [Next]_vars
  PROVE  JitInv'
  <1>1. CASE UNCHANGED vars
    BY <1>1 DEF vars, JitInv, JumpPadReady, InvokeReady, DefinedOnce, NoLostReference,
       At, Top, Running, Resolving, Refs, FnRefs, MetaRefs, UsedInsts, ExportsOf
  <1> QED
    BY <1>1, QuietActions, InstantiateSteps, ShipmentSteps DEF Next, Ended

LEMMA JitCorrect == Spec => []JitInv
  <1>1. Init => JitInv
    BY DEF Init, JitInv, JumpPadReady, InvokeReady, DefinedOnce, NoLostReference, At
  <1> QED
    BY <1>1, TypeCorrect, ControlCorrect, JitStep, PTL DEF Spec

\* Each symbol is defined once, by the open shipment or by the JIT, and those
\* are the available ones (setGlobalAsResolved and its callers)
THEOREM SymbolsDefinedOnce == Spec => []DefinedOnce
  <1>1. JitInv => DefinedOnce
    BY DEF JitInv
  <1> QED
    BY <1>1, JitCorrect, PTL

\* No reference of a module is forgotten, however the calls of instantiate,
\* resolveDependencies and pull nest
THEOREM ReferencesKept == Spec => []NoLostReference
  <1>1. JitInv => NoLostReference
    BY DEF JitInv
  <1> QED
    BY <1>1, JitCorrect, PTL

\* An outermost jump pad is invoked in a JIT that defines all it refers to
THEOREM OuterInvokesResolved == Spec => []OuterInvokeClosed
  <1>1. ControlInv /\ JitInv => OuterInvokeClosed
    <2> SUFFICES ASSUME ControlInv, JitInv, Idle("invoke"), Resolving = {}, NEW s \in jit
                 PROVE  Refs(s) \subseteq jit
      BY DEF OuterInvokeClosed, JitClosed
    <2>1. Running /\ shipment = {} /\ unresolved = {}
      BY DEF JitInv, InvokeReady, Idle, At, Running
    <2>2. ~errors
      BY DEF ControlInv, ErrorUnwinds, Idle, At, Running
    <2>3. Refs(s) \subseteq available
      BY <2>1, <2>2 DEF JitInv, NoLostReference
    <2>4. available \subseteq jit
      BY <2>1 DEF JitInv, DefinedOnce
    <2> QED
      BY <2>3, <2>4
  <1> QED
    BY <1>1, ControlCorrect, JitCorrect, PTL
=============================================================================
