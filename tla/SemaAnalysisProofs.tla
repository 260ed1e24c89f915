------------------------- MODULE SemaAnalysisProofs -------------------------
(***************************************************************************)
(* SemaAnalysis behind the reader, for every source: the nodes it visits   *)
(* are a path of the tree, what it diagnoses is what does not fit, it ends *)
(* in an assertion only for what was left unresolved, and the traversals   *)
(* of DependencyAnalysis find the instantiations that are computed.        *)
(***************************************************************************)
EXTENDS SemaAnalysis, ScopeProofs

Frames(S) == [node : S, visited : Nat]

\* A path is followed in the tree as long as nothing is read: depth is a
\* sequence of frames, whatever the nodes are
PathInv == (\E S : depth \in Seq(Frames(S))) /\ DepthIsPath

\* The sequences and their last elements
LEMMA PoppedSequence ==
  ASSUME NEW F, NEW s \in Seq(F), s # << >>
  PROVE  /\ Popped(s) \in Seq(F) /\ Len(Popped(s)) = Len(s) - 1
         /\ Len(s) \in Nat \ {0}
         /\ \A i \in 1 .. Len(s) - 1 : Popped(s)[i] = s[i]
<1>1. PICK n \in Nat : n = Len(s) /\ n >= 1
  OBVIOUS
<1>2. \A k \in 1 .. n - 1 : s[k] \in F
  BY <1>1
<1>3. /\ SubSeq(s, 1, n - 1) \in Seq(F)
      /\ Len(SubSeq(s, 1, n - 1)) = IF 1 <= n - 1 THEN (n - 1) - 1 + 1 ELSE 0
      /\ \A k \in 1 .. (n - 1) - 1 + 1 : SubSeq(s, 1, n - 1)[k] = s[1 + k - 1]
  BY <1>1, <1>2, SubSeqProperties
<1>4. Popped(s) = SubSeq(s, 1, n - 1)
  BY <1>1 DEF Popped
<1>5. Len(Popped(s)) = n - 1
  BY <1>1, <1>3, <1>4
<1>6. \A k \in 1 .. n - 1 : Popped(s)[k] = s[k]
  BY <1>3, <1>4
<1> QED
  BY <1>1, <1>3, <1>4, <1>5, <1>6

\* The last position or one before it
LEMMA LastOrBefore ==
  ASSUME NEW m \in Nat \ {0} PROVE \A i \in 1 .. m : i = m \/ i \in 1 .. m - 1
  OBVIOUS

\* t is s with a new frame of n, where the node below went on to its next child
IsPushed(s, S, n, t) ==
  /\ t \in Seq(Frames(S \cup {n})) /\ t # << >>
  /\ Len(s) \in Nat \ {0} /\ Len(t) = Len(s) + 1
  /\ t[Len(t)].node = n /\ t[Len(t)].visited = 0
  /\ t[Len(s)].visited = s[Len(s)].visited + 1
  /\ \A i \in 1 .. Len(s) : t[i].node = s[i].node
  /\ \A i \in 1 .. Len(s) - 1 : t[i] = s[i]

\* accept pushes the next child of the visited node
LEMMA PushedFrames ==
  ASSUME NEW S, NEW s \in Seq(Frames(S)), s # << >>, NEW n
  PROVE  IsPushed(s, S, n, Pushed(s, n))
<1> DEFINE F == Frames(S \cup {n})
           below == [s EXCEPT ![Len(s)].visited = @ + 1]
           new == [node |-> n, visited |-> 0]
<1>0. PICK t : t = Pushed(s, n)
  OBVIOUS
<1>1. Len(s) \in Nat \ {0} /\ DOMAIN s = 1 .. Len(s)
  OBVIOUS
<1>2. \A i \in 1 .. Len(s) : s[i] \in F /\ s[i] \in Frames(S)
  <2> DEFINE G == Frames(S)
  <2>1. s \in Seq(G) /\ G \subseteq F
    BY DEF Frames
  <2> HIDE DEF G, F, below, new
  <2>2. \A i \in 1 .. Len(s) : s[i] \in G
    BY <2>1
  <2> QED
    BY <2>1, <2>2 DEF G
<1>3. /\ below[Len(s)].visited = s[Len(s)].visited + 1
      /\ below[Len(s)].node = s[Len(s)].node
      /\ below[Len(s)] \in F
  BY <1>1, <1>2, SMTT(30) DEF Frames
<1>4. \A i \in 1 .. Len(s) - 1 : below[i] = s[i]
  BY <1>1
<1>5. below \in Seq(F) /\ Len(below) = Len(s)
  <2>1. DOMAIN below = 1 .. Len(s)
    BY <1>1
  <2>2. \A i \in 1 .. Len(s) : below[i] \in F
    BY <1>1, <1>2, <1>3, <1>4
  <2>3. below = [i \in 1 .. Len(s) |-> below[i]]
    BY <2>1, <1>1
  <2> HIDE DEF below, F
  <2>4. below \in [1 .. Len(s) -> F]
    BY <2>2, <2>3
  <2> QED
    BY <2>4, <1>1
<1>6. new \in F
  BY DEF Frames
<1>7. t = Append(below, new)
  BY <1>0 DEF Pushed
<1> HIDE DEF below, new, F
<1>8. /\ t \in Seq(F) /\ t # << >> /\ Len(t) = Len(s) + 1 /\ t[Len(s) + 1] = new
      /\ \A i \in 1 .. Len(s) : t[i] = below[i]
  <2>1. below \in Seq(F) /\ Len(below) = Len(s) /\ new \in F /\ t = Append(below, new)
    BY <1>5, <1>6, <1>7
  <2>2. /\ Append(below, new) \in Seq(F) /\ Append(below, new) # << >>
        /\ Len(Append(below, new)) = Len(below) + 1
        /\ Append(below, new)[Len(below) + 1] = new
        /\ \A i \in 1 .. Len(below) : Append(below, new)[i] = below[i]
    BY <2>1, PushedSeq
  <2> QED
    BY <2>1, <2>2, Zenon
<1>9. new.node = n /\ new.visited = 0
  BY DEF new
<1>10. t[Len(s)] = below[Len(s)] /\ \A i \in 1 .. Len(s) - 1 : t[i] = s[i]
  <2>1. Len(s) \in 1 .. Len(s) /\ 1 .. Len(s) - 1 \subseteq 1 .. Len(s)
    BY <1>1
  <2> QED
    BY <2>1, <1>4, <1>8, Zenon
<1>11. t[Len(s)].visited = s[Len(s)].visited + 1 /\ t[Len(s)].node = s[Len(s)].node
  BY <1>3, <1>10, Zenon
<1>13. \A i \in 1 .. Len(s) : t[i].node = s[i].node
  <2>1. \A i \in 1 .. Len(s) : i = Len(s) \/ i \in 1 .. Len(s) - 1
    BY <1>1, LastOrBefore, Zenon
  <2> QED
    BY <2>1, <1>10, <1>11, Zenon
<1>12. t # << >> /\ t[Len(t)].node = n /\ t[Len(t)].visited = 0
  BY <1>1, <1>8, <1>9
<1> QED
  BY <1>0, <1>1, <1>8, <1>10, <1>11, <1>12, <1>13, Zenon DEF F, IsPushed

\* Reading goes on only while there is nothing to analyse
LEMMA ReadIsNotRead == ASSUME Read PROVE status # "read"
  BY DEF Read, ConsumeUnit, CrawlNode, LeaveCrawl, ConsumeScoped, ConsumeMetaIf,
         ConsumeMetaCalculation, ConsumeArgument, ConsumeDeclRef, ConsumeOther,
         Reject, Finish, Consumes, Reading

\* The invariant of the path holds initially
LEMMA PathInit == CheckInit => PathInv
<1> SUFFICES ASSUME CheckInit PROVE PathInv
  OBVIOUS
<1>1. depth = << >>
  BY DEF CheckInit
<1> QED
  BY <1>1 DEF PathInv, DepthIsPath

\* The positions of a stack of m nodes and one more
LEMMA StackPositions ==
  \A m \in Nat :
    /\ (m + 1) - 1 = m
    /\ m # 0 => 1 \in 1 .. m /\ m \in 1 .. m
    /\ \A j \in 2 .. m + 1 :
         j # m + 1 => j \in 2 .. m /\ j - 1 \in 1 .. m - 1 /\ j \in 1 .. m
OBVIOUS

\* One overload of visit, whatever it diagnoses
LEMMA AcceptKeepsPath ==
  ASSUME PathInv, Checking, depth # << >>, UNCHANGED vars,
         depth' = Pushed(depth, kids[Visited.node][Visited.visited + 1])
  PROVE  PathInv'
<1>1. PICK S : depth \in Seq(Frames(S))
  BY DEF PathInv
<1>0. PICK n : n = kids[Visited.node][Visited.visited + 1]
  OBVIOUS
<1>2. depth' = Pushed(depth, n)
  BY <1>0
<1>3. /\ depth' \in Seq(Frames(S \cup {n})) /\ depth' # << >>
      /\ Len(depth) \in Nat \ {0} /\ Len(depth') = Len(depth) + 1
      /\ depth'[Len(depth')].node = n
      /\ depth'[Len(depth)].visited = depth[Len(depth)].visited + 1
      /\ \A i \in 1 .. Len(depth) : depth'[i].node = depth[i].node
      /\ \A i \in 1 .. Len(depth) - 1 : depth'[i] = depth[i]
  <2>1. IsPushed(depth, S, n, Pushed(depth, n))
    BY <1>1, PushedFrames
  <2> QED
    BY <2>1, <1>2, Zenon DEF IsPushed
<1>4. status' = status /\ errors' = errors /\ kids' = kids
  BY DEF vars, treeVars, scopeVars
<1>5. status' = "read" /\ errors' = {} /\ depth'[1].node = 1
  <2>1. 1 \in 1 .. Len(depth)
    BY <1>3, StackPositions, Zenon
  <2>2. depth'[1].node = depth[1].node
    BY <1>3, <2>1, Zenon
  <2> QED
    BY <1>3, <1>4, <2>2 DEF PathInv, DepthIsPath
<1>6. ASSUME NEW i \in 2 .. Len(depth')
      PROVE  depth'[i].node = kids'[depth'[i - 1].node][depth'[i - 1].visited]
  <2>1. CASE i = Len(depth')
    <3>1. i - 1 = Len(depth)
      <4>1. Len(depth) \in Nat /\ i = Len(depth) + 1
        BY <2>1, <1>3, Zenon
      <4> QED
        BY <4>1, StackPositions, Zenon
    <3>2. /\ depth'[i - 1].node = Visited.node
          /\ depth'[i - 1].visited = Visited.visited + 1
      <4>1. Len(depth) \in 1 .. Len(depth)
        BY <1>3, StackPositions, Zenon
      <4> QED
        BY <4>1, <3>1, <1>3, Zenon DEF Visited
    <3> QED
      BY <2>1, <3>2, <1>0, <1>3, <1>4
  <2>2. CASE i # Len(depth')
    <3>1. /\ i \in 2 .. Len(depth) /\ i - 1 \in 1 .. Len(depth) - 1
          /\ i \in 1 .. Len(depth)
      <4>1. Len(depth) \in Nat /\ Len(depth') = Len(depth) + 1
        BY <1>3, Zenon
      <4> QED
        BY <2>2, <4>1, StackPositions, Zenon
    <3>2. depth'[i].node = depth[i].node /\ depth'[i - 1] = depth[i - 1]
      BY <3>1, <1>3
    <3> QED
      BY <3>1, <3>2, <1>4 DEF PathInv, DepthIsPath
  <2> QED
    BY <2>1, <2>2
<1> QED
  BY <1>3, <1>5, <1>6 DEF PathInv, DepthIsPath

\* A node is left
LEMMA LeaveKeepsPath == ASSUME PathInv, LeaveNode PROVE PathInv'
<1>1. PICK S : depth \in Seq(Frames(S))
  BY DEF PathInv
<1>2. depth # << >> /\ depth' = Popped(depth)
  BY DEF LeaveNode
<1>3. /\ depth' \in Seq(Frames(S)) /\ Len(depth') = Len(depth) - 1
      /\ Len(depth) \in Nat \ {0}
      /\ \A i \in 1 .. Len(depth) - 1 : depth'[i] = depth[i]
  BY <1>1, <1>2, PoppedSequence
<1>4. status' = status /\ errors' = errors /\ kids' = kids
  BY DEF LeaveNode, vars, treeVars, scopeVars
<1>5. depth' # << >> => status' = "read" /\ errors' = {} /\ depth'[1].node = 1
  <2>1. depth' # << >> => 1 \in 1 .. Len(depth) - 1
    BY <1>3
  <2> QED
    BY <2>1, <1>2, <1>3, <1>4 DEF PathInv, DepthIsPath
<1>6. ASSUME NEW i \in 2 .. Len(depth')
      PROVE  depth'[i].node = kids'[depth'[i - 1].node][depth'[i - 1].visited]
  <2>1. /\ i \in 2 .. Len(depth) /\ i - 1 \in 1 .. Len(depth) - 1
        /\ i \in 1 .. Len(depth) - 1
    BY <1>3
  <2> QED
    BY <2>1, <1>3, <1>4 DEF PathInv, DepthIsPath
<1> QED
  BY <1>3, <1>5, <1>6 DEF PathInv, DepthIsPath

\* The invariant of the analysis is inductive
LEMMA PathStep == ASSUME PathInv, [CheckNext]_allVars PROVE PathInv'
<1>1. CASE Read /\ UNCHANGED semaVars
  <2>1. depth' = depth /\ depth = << >>
    BY <1>1, ReadIsNotRead DEF semaVars, PathInv, DepthIsPath
  <2> QED
    BY <2>1 DEF PathInv, DepthIsPath
<1>2. CASE CheckAST
  <2>1. /\ depth' = <<[node |-> 1, visited |-> 0]>>
        /\ status' = "read" /\ errors' = {}
    BY <1>2 DEF CheckAST, vars, scopeVars
  <2>2. [node |-> 1, visited |-> 0] \in Frames({1})
    BY DEF Frames
  <2>3. depth' \in Seq(Frames({1})) /\ Len(depth') = 1 /\ depth'[1].node = 1
    BY <2>1, <2>2
  <2> QED
    BY <2>1, <2>3 DEF PathInv, DepthIsPath
<1>3. CASE VisitCall
  BY <1>3, AcceptKeepsPath DEF VisitCall, Accept
<1>4. CASE VisitIf
  BY <1>4, AcceptKeepsPath DEF VisitIf, Accept
<1>5. CASE VisitFunction
  BY <1>5, AcceptKeepsPath DEF VisitFunction, Accept
<1>6. CASE VisitMeta
  BY <1>6, AcceptKeepsPath DEF VisitMeta, Accept
<1>7. CASE VisitInstantiation
  BY <1>7, AcceptKeepsPath DEF VisitInstantiation, Accept
<1>8. CASE VisitOther
  BY <1>8, AcceptKeepsPath DEF VisitOther, Accept
<1>9. CASE LeaveNode
  BY <1>9, LeaveKeepsPath
<1>10. CASE InstantiateAccepted
  <2>1. depth' = << >>
    BY <1>10 DEF InstantiateAccepted
  <2> QED
    BY <2>1 DEF PathInv, DepthIsPath
<1>11. CASE AnalysisEnded
  BY <1>11 DEF AnalysisEnded, allVars, semaVars, vars, treeVars, scopeVars,
               PathInv, DepthIsPath
<1>12. CASE UNCHANGED allVars
  BY <1>12 DEF allVars, semaVars, vars, treeVars, scopeVars, PathInv, DepthIsPath
<1> QED
  BY <1>1, <1>2, <1>3, <1>4, <1>5, <1>6, <1>7, <1>8, <1>9, <1>10, <1>11, <1>12
  DEF CheckNext, Analyse

\* Whatever is read, the analysis is inside of a path from the root of a tree that
\* was read without errors: behind(1) is the parent of the node that is visited
THEOREM DepthIsAlwaysPath == CheckSpec => []DepthIsPath
<1>1. CheckInit => PathInv
  BY PathInit
<1>2. PathInv /\ [CheckNext]_allVars => PathInv'
  BY PathStep
<1>3. PathInv => DepthIsPath
  BY DEF PathInv
<1> QED
  BY <1>1, <1>2, <1>3, PTL DEF CheckSpec

(***************************************************************************)
(* What the analysis keeps: its types, with those of the reader.           *)
(***************************************************************************)
SemaTypes ==
  /\ depth \in Seq(Frames(Nodes))
  /\ diagnosed \subseteq (Errors \cup Warnings) \X Nodes
  /\ DOMAIN declaring = DOMAIN input.outer
  /\ verdict \in Verdicts
  /\ Checking => depth # << >>
SemaInv == ReaderInv /\ PathInv /\ SemaTypes

\* What visit diagnoses of the node n below p
CallDiagnosed(p, n) ==
  LET s == Signature(Callee(n))
      isFunction == s.kind = "function"
  IN IF ~Callable(n) THEN {}
     ELSE Only(isFunction /\ ~s.typed /\ Kind(p) # "expr", "ReturnsVoid", n)
            \cup Only(isFunction /\ Actual(n) # s.args, "FunctionArgCountMismatch", n)
            \cup Only(~isFunction, "CanOnlyCallFunctions", n)
DiagnosedBelow(p, n) ==
  CASE Kind(n) = "call"          -> CallDiagnosed(p, n)
    [] Kind(n) = "if"            -> DiagnosedIf(n)
    [] Kind(n) = "function"      -> Only(IsReserved(n), "FunctionNameReserved", n)
    [] Kind(n) = "meta"          -> Only(IsReserved(n), "MetaNameReserved", n)
    [] Kind(n) = "instantiation" -> DiagnosedInstantiation(n)
    [] OTHER                     -> {}

\* A visit, whichever overload it is
Visits(p, n) ==
  /\ Checking /\ depth # << >> /\ p = Visited.node
  /\ Visited.visited < Len(kids[p]) /\ n = kids[p][Visited.visited + 1]
  /\ depth' = Pushed(depth, n)
  /\ diagnosed' = diagnosed \cup DiagnosedBelow(p, n)
  /\ verdict' = IF Kind(n) = "instantiation" THEN Dereferenced(n) ELSE verdict
  /\ UNCHANGED <<vars, declaring>>

Visit == \/ VisitCall \/ VisitIf \/ VisitFunction \/ VisitMeta \/ VisitInstantiation \/ VisitOther

\* What is diagnosed of a call, told by its node and what is above it
LEMMA CallBelow ==
  ASSUME NEW n, Len(depth) \in Nat
  PROVE  DiagnosedCall(n) = CallDiagnosed(Visited.node, n)
<1>1. BehindVisited(1) = Visited.node
  <2>1. Len(depth) + 1 - 1 = Len(depth)
    OBVIOUS
  <2> QED BY <2>1 DEF BehindVisited, Visited
<1> QED BY <1>1 DEF DiagnosedCall, CallDiagnosed

\* A visit is of a child of the node visited
LEMMA VisitsOne ==
  ASSUME Visit, Len(depth) \in Nat
  PROVE  Visits(Visited.node, kids[Visited.node][Visited.visited + 1])
<1>1. PICK p, n : p = Visited.node /\ n = kids[p][Visited.visited + 1]
  OBVIOUS
<1>2. CASE VisitCall
  BY <1>1, <1>2, CallBelow DEF VisitCall, Accept, Visits, DiagnosedBelow
<1>3. CASE VisitIf
  BY <1>1, <1>3 DEF VisitIf, Accept, Visits, DiagnosedBelow
<1>4. CASE VisitFunction
  BY <1>1, <1>4 DEF VisitFunction, Accept, Visits, DiagnosedBelow
<1>5. CASE VisitMeta
  BY <1>1, <1>5 DEF VisitMeta, Accept, Visits, DiagnosedBelow
<1>6. CASE VisitInstantiation
  BY <1>1, <1>6 DEF VisitInstantiation, Accept, Visits, DiagnosedBelow
<1>7. CASE VisitOther
  BY <1>1, <1>7 DEF VisitOther, Accept, Visits, DiagnosedBelow
<1> QED BY <1>2, <1>3, <1>4, <1>5, <1>6, <1>7 DEF Visit

\* A node is diagnosed by no other visit than its own
LEMMA DiagnosesItself ==
  ASSUME NEW p, NEW n, NEW d \in DiagnosedBelow(p, n)
  PROVE  d \in (Errors \cup Warnings) \X {n}
<1>1. \A b : Only(b, "ReturnsVoid", n) \subseteq (Errors \cup Warnings) \X {n}
             /\ Only(b, "FunctionArgCountMismatch", n) \subseteq (Errors \cup Warnings) \X {n}
             /\ Only(b, "CanOnlyCallFunctions", n) \subseteq (Errors \cup Warnings) \X {n}
  BY DEF Only, Errors
<1>2. \A b : Only(b, "FunctionNameReserved", n) \subseteq (Errors \cup Warnings) \X {n}
             /\ Only(b, "MetaNameReserved", n) \subseteq (Errors \cup Warnings) \X {n}
             /\ Only(b, "DidYouMeanEquals", n) \subseteq (Errors \cup Warnings) \X {n}
  BY DEF Only, Errors, Warnings
<1>3. \A b : Only(b, "IntegralForMetaDecl", n) \subseteq (Errors \cup Warnings) \X {n}
             /\ Only(b, "InstantiatedNonMetaDecl", n) \subseteq (Errors \cup Warnings) \X {n}
             /\ Only(b, "InstantiationArgCountMismatch", n) \subseteq (Errors \cup Warnings) \X {n}
  BY DEF Only, Errors
<1>4. CallDiagnosed(p, n) \subseteq (Errors \cup Warnings) \X {n}
  BY <1>1 DEF CallDiagnosed
<1>5. DiagnosedIf(n) \subseteq (Errors \cup Warnings) \X {n}
  BY <1>2 DEF DiagnosedIf
<1>6. DiagnosedInstantiation(n) \subseteq (Errors \cup Warnings) \X {n}
  BY <1>3 DEF DiagnosedInstantiation
<1>7. DiagnosedBelow(p, n) \subseteq (Errors \cup Warnings) \X {n}
  BY <1>2, <1>4, <1>5, <1>6 DEF DiagnosedBelow
<1> QED BY <1>7

\* The root of a tree that was read
LEMMA RootOfTree ==
  ASSUME ReaderInv, status = "read"
  PROVE  1 \in Nodes /\ Kind(1) \in UnitKinds
<1>1. PICK lv : Running(lv)
  BY DEF ReaderInv, Failures, RunningOk, Running
<1>2. PICK m : m = Len(layout) /\ m \in Nat \ {0} /\ Positions = 1 .. m
               /\ \A n \in Positions : n \in Nodes <=> Kind(n) # "marker"
  BY LayoutFacts DEF ReaderInv, ReaderTypes
<1>3. pos = m /\ pos > 0 /\ 1 \in Positions /\ Kind(1) \in UnitKinds
  BY <1>1, <1>2 DEF Running, StackOk
<1> QED BY <1>2, <1>3 DEF UnitKinds

\* A reader stays with its input
LEMMA ReadKeepsInput == ASSUME Read PROVE input' = input
BY DEF Read, ConsumeUnit, CrawlNode, LeaveCrawl, ConsumeScoped, ConsumeMetaIf,
       ConsumeMetaCalculation, ConsumeArgument, ConsumeDeclRef, ConsumeOther, Reject, Finish

\* The node that is visited, and the next of its children
LEMMA VisitedNodes ==
  ASSUME SemaInv, depth # << >>
  PROVE  /\ Len(depth) \in Nat \ {0} /\ depth[Len(depth)] = Visited
         /\ Visited.node \in Nodes /\ Visited.visited \in Nat
         /\ kids[Visited.node] \in Seq(Nodes) /\ Len(kids[Visited.node]) \in Nat
         /\ Visited.visited < Len(kids[Visited.node])
              => kids[Visited.node][Visited.visited + 1] \in Nodes
<1>1. PICK n : n = Len(depth) /\ n \in Nat \ {0}
  BY DEF SemaInv, SemaTypes
<1>2. depth[n] \in Frames(Nodes)
  <2>1. PICK F : F = Frames(Nodes)
    OBVIOUS
  <2>2. depth \in Seq(F) /\ n \in 1 .. Len(depth)
    BY <2>1, <1>1 DEF SemaInv, SemaTypes
  <2>3. depth[n] \in F
    BY <2>2
  <2> QED BY <2>1, <2>3
<1>3. depth[n] = Visited /\ Visited.node \in Nodes /\ Visited.visited \in Nat
  BY <1>1, <1>2 DEF Visited, Frames
<1>4. kids[Visited.node] \in Seq(Nodes)
  BY <1>3, LayoutFacts DEF SemaInv, ReaderInv, ReaderTypes
<1>5. PICK s, v : s = kids[Visited.node] /\ v = Visited.visited
  OBVIOUS
<1>6. s \in Seq(Nodes) /\ Len(s) \in Nat /\ (v < Len(s) => s[v + 1] \in Nodes)
  BY <1>3, <1>4, <1>5
<1> QED BY <1>1, <1>3, <1>4, <1>5, <1>6

\* The analysis keeps its types when it visits a node
LEMMA VisitKeepsTypes == ASSUME SemaInv, Visit PROVE SemaTypes'
<1>1. Checking /\ depth # << >>
  BY DEF Visit, VisitCall, VisitIf, VisitFunction, VisitMeta, VisitInstantiation, VisitOther, Accept
<1>2. PICK p, n : p = Visited.node /\ n = kids[Visited.node][Visited.visited + 1]
  OBVIOUS
<1>3. Len(depth) \in Nat \ {0} /\ Len(depth) \in Nat
  BY <1>1, VisitedNodes
<1>4. Visits(p, n)
  BY <1>2, <1>3, VisitsOne
<1>5. n \in Nodes
  BY <1>1, <1>2, <1>4, VisitedNodes DEF Visits
<1>6. UNCHANGED vars /\ input' = input /\ Nodes' = Nodes
  BY <1>4, SameInput DEF Visits, vars
<1>7. depth' \in Seq(Frames(Nodes)) /\ depth' # << >>
  <2>1. depth \in Seq(Frames(Nodes)) /\ depth' = Pushed(depth, n)
    BY <1>4 DEF Visits, SemaInv, SemaTypes
  <2>2. IsPushed(depth, Nodes, n, depth')
    BY <2>1, <1>1, PushedFrames
  <2>3. Nodes \cup {n} = Nodes
    BY <1>5
  <2> QED BY <2>2, <2>3 DEF IsPushed
<1>8. diagnosed' \subseteq (Errors \cup Warnings) \X Nodes
  <2>1. DiagnosedBelow(p, n) \subseteq (Errors \cup Warnings) \X Nodes
    BY <1>5, DiagnosesItself
  <2> QED BY <2>1, <1>4 DEF Visits, SemaInv, SemaTypes
<1>9. verdict' \in Verdicts
  BY <1>4 DEF Visits, Dereferenced, Verdicts, SemaInv, SemaTypes
<1>10. DOMAIN declaring' = DOMAIN input'.outer
  BY <1>4, <1>6 DEF Visits, SemaInv, SemaTypes
<1> QED BY <1>6, <1>7, <1>8, <1>9, <1>10 DEF SemaTypes

\* The analysis keeps its types when it leaves a node
LEMMA LeaveKeepsTypes == ASSUME SemaInv, LeaveNode PROVE SemaTypes'
<1>1. /\ Checking /\ depth # << >> /\ depth' = Popped(depth)
      /\ verdict' = IF Len(depth) = 1 THEN "checked" ELSE verdict
      /\ UNCHANGED vars /\ diagnosed' = diagnosed /\ declaring' = declaring
  BY DEF LeaveNode
<1>2. input' = input /\ Nodes' = Nodes
  BY <1>1, SameInput DEF vars
<1>3. /\ depth' \in Seq(Frames(Nodes)) /\ Len(depth') = Len(depth) - 1
      /\ Len(depth) \in Nat \ {0}
  BY <1>1, PoppedSequence DEF SemaInv, SemaTypes
<1>4. Len(depth) # 1 => depth' # << >>
  BY <1>3
<1> QED BY <1>1, <1>2, <1>3, <1>4 DEF SemaInv, SemaTypes, Checking, Verdicts

\* Every step keeps the invariant of reader and analysis
LEMMA SemaStep == ASSUME SemaInv, [CheckNext]_allVars PROVE SemaInv'
<1>1. PathInv'
  BY PathStep DEF SemaInv
<1>2. CASE Read /\ UNCHANGED semaVars
  <2>1. ReaderInv'
    BY <1>2, ReaderStep DEF SemaInv
  <2>2. input' = input /\ Nodes' = Nodes
    BY <1>2, ReadKeepsInput, SameInput
  <2>3. /\ depth' = depth /\ diagnosed' = diagnosed /\ declaring' = declaring
        /\ verdict' = verdict
    BY <1>2 DEF semaVars
  <2> QED BY <1>1, <2>1, <2>2, <2>3 DEF SemaInv, SemaTypes, Checking
<1>3. CASE UNCHANGED vars /\ SemaTypes'
  <2>1. ReaderInv'
    BY <1>3, ReaderStutter DEF SemaInv
  <2> QED BY <1>1, <1>3, <2>1 DEF SemaInv
<1>4. CASE CheckAST
  <2>1. /\ UNCHANGED vars /\ depth' = <<[node |-> 1, visited |-> 0]>> /\ verdict' = "checking"
        /\ status = "read" /\ diagnosed' = diagnosed /\ declaring' = declaring
    BY <1>4 DEF CheckAST
  <2>2. input' = input /\ Nodes' = Nodes
    BY <2>1, SameInput DEF vars
  <2>3. depth' \in Seq(Frames(Nodes))
    <3>1. [node |-> 1, visited |-> 0] \in Frames(Nodes)
      BY <2>1, RootOfTree DEF Frames, SemaInv
    <3> QED BY <3>1, <2>1
  <2>4. SemaTypes'
    BY <2>1, <2>2, <2>3 DEF SemaInv, SemaTypes, Verdicts
  <2> QED BY <1>3, <2>1, <2>4
<1>5. CASE Visit
  <2>1. UNCHANGED vars
    BY <1>5 DEF Visit, VisitCall, VisitIf, VisitFunction, VisitMeta, VisitInstantiation,
                VisitOther, Accept
  <2> QED BY <1>3, <1>5, <2>1, VisitKeepsTypes
<1>6. CASE LeaveNode
  BY <1>3, <1>6, LeaveKeepsTypes DEF LeaveNode
<1>7. CASE InstantiateAccepted
  <2>1. ReaderInv'
    BY <1>7, ReaderStep DEF InstantiateAccepted, SemaInv
  <2>2. /\ depth' = << >> /\ diagnosed' = {} /\ verdict' = "unchecked" /\ declaring' = Declaring
        /\ \E u : input' = [layout |-> u.layout, outer |-> UnitScope, instantiated |-> u.of]
    BY <1>7 DEF InstantiateAccepted, Instantiate
  <2>3. DOMAIN declaring' = DOMAIN input'.outer
    <3>1. input'.outer = UnitScope
      BY <2>2
    <3> QED BY <2>2, <3>1 DEF Declaring, UnitScope
  <2>4. SemaTypes'
    BY <2>2, <2>3 DEF SemaTypes, Verdicts, Checking
  <2> QED BY <1>1, <2>1, <2>4 DEF SemaInv
<1>8. CASE UNCHANGED allVars
  <2>1. /\ UNCHANGED vars /\ depth' = depth /\ diagnosed' = diagnosed
        /\ declaring' = declaring /\ verdict' = verdict
    BY <1>8 DEF allVars, semaVars
  <2>2. input' = input /\ Nodes' = Nodes
    BY <2>1, SameInput DEF vars
  <2>3. SemaTypes'
    BY <2>1, <2>2 DEF SemaInv, SemaTypes, Checking
  <2> QED BY <1>3, <2>1, <2>3
<1> QED BY <1>2, <1>4, <1>5, <1>6, <1>7, <1>8 DEF CheckNext, Analyse, AnalysisEnded, Visit

\* The invariant of reader and analysis holds initially
LEMMA SemaInit == CheckInit => SemaInv
<1> SUFFICES ASSUME CheckInit PROVE SemaInv
  OBVIOUS
<1>1. ReaderInv /\ PathInv
  BY InitKeeps, PathInit DEF CheckInit
<1>2. SemaTypes
  <2>1. DOMAIN input.outer = {} /\ DOMAIN declaring = {}
    BY DEF CheckInit, Init
  <2> QED BY <2>1 DEF CheckInit, SemaTypes, Verdicts, Checking
<1> QED BY <1>1, <1>2 DEF SemaInv

\* The invariant of reader and analysis always holds
LEMMA SemaAlways == CheckSpec => []SemaInv
BY SemaInit, SemaStep, PTL DEF CheckSpec

\* Every variable of the reader and of the analysis has its type: what the
\* consume methods, the builder and the visitor keep between their calls
THEOREM SemaTyped == CheckSpec => []SemaTypeOK
<1>1. SemaInv => SemaTypeOK
  <2> SUFFICES ASSUME SemaInv PROVE SemaTypeOK
    OBVIOUS
  <2>1. TypeOK
    BY ReaderTypeOK DEF SemaInv, ReaderInv
  <2> QED BY <2>1 DEF SemaInv, SemaTypes, SemaTypeOK, Frames
<1> QED BY <1>1, SemaAlways, PTL

\* The scopes and the modes of BasicASTBuilder are those of the consume methods
\* of ASTLayoutReader that are running, in their order, and none is left over
THEOREM BuilderAlwaysFollows == CheckSpec => []BuilderFollowsReader
<1>1. SemaInv => BuilderFollowsReader
  BY BuilderFollows DEF SemaInv
<1> QED BY <1>1, SemaAlways, PTL

\* Where the nodes are in the layout is left alone by the analysis
LEMMA SpansAlways == CheckSpec => [](SemaInv /\ SpanInv)
<1>1. CheckInit => SpanInv
  BY InitFresh, FreshSpans DEF CheckInit
<1>2. ASSUME SemaInv, SpanInv, [CheckNext]_allVars PROVE SpanInv'
  <2>1. CASE Read \/ Instantiate
    BY <1>2, <2>1, SpanStep DEF SemaInv
  <2>2. CASE UNCHANGED vars
    BY <1>2, <2>2, SpansStay DEF vars, treeVars
  <2>3. Analyse \/ AnalysisEnded \/ UNCHANGED allVars => UNCHANGED vars
    BY DEF Analyse, CheckAST, VisitCall, VisitIf, VisitFunction, VisitMeta,
           VisitInstantiation, VisitOther, Accept, LeaveNode, AnalysisEnded, allVars
  <2> QED BY <1>2, <2>1, <2>2, <2>3 DEF CheckNext, InstantiateAccepted
<1> QED BY <1>1, <1>2, SemaInit, SemaStep, PTL DEF CheckSpec

\* ASTLayoutReader is the inverse of ASTLayoutWriter: what it has read, written
\* again, is the layout it was given
THEOREM AlwaysReadsAsWritten == CheckSpec => []ReadsAsWritten
<1>1. SemaInv /\ SpanInv => ReadsAsWritten
  BY ReadsBack DEF SemaInv
<1> QED BY <1>1, SpansAlways, PTL

\* What the builder has resolved is left alone by the analysis
LEMMA ScopesAlways == CheckSpec => [](SemaInv /\ ScopeInv)
<1>1. CheckInit => ScopeInv
  BY InitFresh, FreshNames DEF CheckInit
<1>2. ASSUME SemaInv, ScopeInv, [CheckNext]_allVars PROVE ScopeInv'
  <2>1. CASE Read \/ Instantiate
    BY <1>2, <2>1, ScopeStep DEF SemaInv
  <2>2. CASE UNCHANGED vars
    BY <1>2, <2>2, ScopeStutter
  <2>3. Analyse \/ AnalysisEnded \/ UNCHANGED allVars => UNCHANGED vars
    BY DEF Analyse, CheckAST, VisitCall, VisitIf, VisitFunction, VisitMeta,
           VisitInstantiation, VisitOther, Accept, LeaveNode, AnalysisEnded, allVars
  <2> QED BY <1>2, <2>1, <2>2, <2>3 DEF CheckNext, InstantiateAccepted
<1> QED BY <1>1, <1>2, SemaInit, SemaStep, PTL DEF CheckSpec

\* Every reference is resolved to the declaration its place in the tree gives it,
\* and every error of BasicASTBuilder is one the tree deserves, although the
\* builder only ever sees the scopes that are open and the names waiting in them
THEOREM ScopedAlwaysAsWritten == CheckSpec => []ScopedAsWritten
<1>1. SemaInv /\ ScopeInv => ScopedAsWritten
  BY ScopesAsWritten DEF SemaInv
<1> QED BY <1>1, ScopesAlways, PTL

(***************************************************************************)
(* What the analysis has seen: a set V of nodes, which are visited or have *)
(* all of their children in it.  Once nothing is visited it is the tree.   *)
(***************************************************************************)
Fits(i) == Resolved(Callee(i)) /\ Signature(Callee(i)).kind = "meta"

Seen(V) ==
  /\ V \in SUBSET Nodes /\ 1 \in V
  /\ diagnosed = UNION {DiagnosedBelow(Parent(n), n) : n \in V}
  /\ \A i \in DOMAIN depth :
       /\ depth[i].node \in V
       /\ \A k \in 1 .. depth[i].visited : kids[depth[i].node][k] \in V
  /\ \A n \in V : \/ \E i \in DOMAIN depth : depth[i].node = n
                  \/ \A k \in DOMAIN kids[n] : kids[n][k] \in V

\* Of the instantiations among them, only the last one may have ended the analysis
SeenVerdict(V) ==
  /\ verdict \in {"checking", "checked"} =>
       \A n \in V : Kind(n) = "instantiation" => Fits(n)
  /\ verdict = "checked" => depth = << >>
  /\ verdict \in {"nullDecl", "nullMetaDecl"} =>
       depth # << >> /\ Kind(Visited.node) = "instantiation"
  /\ verdict = "nullDecl" => ~Resolved(Callee(Visited.node))
  /\ verdict = "nullMetaDecl" => Signature(Callee(Visited.node)).kind # "meta"

AnalysisInv ==
  /\ verdict = "unchecked" => depth = << >> /\ diagnosed = {}
  /\ verdict # "unchecked" =>
       status = "read" /\ errors = {} /\ \E V : Seen(V) /\ SeenVerdict(V)

\* What a decl is asked for does not change while it is analysed
LEMMA SameDiagnosis ==
  ASSUME UNCHANGED vars, declaring' = declaring
  PROVE  /\ Nodes' = Nodes /\ kids' = kids /\ status' = status /\ errors' = errors
         /\ \A n : Kind(n)' = Kind(n) /\ Parent(n)' = Parent(n) /\ Callee(n)' = Callee(n)
                   /\ Resolved(Callee(n))' = Resolved(Callee(n))
                   /\ Signature(Callee(n))' = Signature(Callee(n))
                   /\ Fits(n)' = Fits(n)
         /\ \A n : DiagnosedBelow(Parent(n), n)' = DiagnosedBelow(Parent(n), n)
<1>1. input' = input /\ kids' = kids /\ decl' = decl /\ status' = status /\ errors' = errors
  BY DEF vars, treeVars, scopeVars
<1>2. Nodes' = Nodes /\ \A n : Kind(n)' = Kind(n) /\ Name(n)' = Name(n)
  BY <1>1 DEF Nodes, Kind, Name, layout
<1>3. \A n : Parent(n)' = Parent(n) /\ Callee(n)' = Callee(n) /\ Actual(n)' = Actual(n)
  BY <1>1, <1>2 DEF Parent, Callee, Actual
<1>4. \A r : /\ Resolved(r)' = Resolved(r) /\ Signature(r)' = Signature(r)
  BY <1>1, <1>2 DEF Resolved, Signature, SignatureOf
<1>5. \A n : /\ Resolved(Callee(n))' = Resolved(Callee(n))
             /\ Signature(Callee(n))' = Signature(Callee(n))
             /\ Callable(n)' = Callable(n) /\ Fits(n)' = Fits(n)
  BY <1>2, <1>3, <1>4 DEF Callable, Fits
<1>6. \A n : NoLiteral(n)' = NoLiteral(n) /\ IsReserved(n)' = IsReserved(n)
  BY <1>1, <1>2 DEF NoLiteral, IsReserved
<1>7. ASSUME NEW n
      PROVE  DiagnosedBelow(Parent(n), n)' = DiagnosedBelow(Parent(n), n)
  <2>1. CallDiagnosed(Parent(n), n)' = CallDiagnosed(Parent(n), n)
    BY <1>2, <1>3, <1>5 DEF CallDiagnosed, Only
  <2>2. DiagnosedIf(n)' = DiagnosedIf(n)
    BY <1>1, <1>2 DEF DiagnosedIf, Only
  <2>3. DiagnosedInstantiation(n)' = DiagnosedInstantiation(n)
    BY <1>3, <1>5, <1>6 DEF DiagnosedInstantiation, Only
  <2> QED BY <1>2, <1>6, <2>1, <2>2, <2>3 DEF DiagnosedBelow, Only
<1> QED BY <1>1, <1>2, <1>3, <1>5, <1>7

\* What is analysed is a tree that was read
LEMMA TreeOfAnalysis == ASSUME SemaInv, status = "read" PROVE \E lv : TreeRead(lv)
BY DEF SemaInv, ReaderInv, TreeRead, Running, RunningOk, Failures

\* accept: the next child has been seen
LEMMA VisitSees == ASSUME SemaInv, AnalysisInv, Visit PROVE AnalysisInv'
<1>1. Checking /\ depth # << >>
  BY DEF Visit, VisitCall, VisitIf, VisitFunction, VisitMeta, VisitInstantiation, VisitOther, Accept
<1>2. status = "read" /\ errors = {} /\ verdict = "checking"
  BY <1>1 DEF AnalysisInv, Checking
<1>3. PICK V : Seen(V) /\ SeenVerdict(V)
  BY <1>2 DEF AnalysisInv
<1>4. PICK p, k, n : p = Visited.node /\ k = Visited.visited + 1 /\ n = kids[p][k]
  OBVIOUS
<1>5. PICK m : m = Len(depth) /\ m \in Nat \ {0}
  BY <1>1, VisitedNodes
<1>6. Visits(p, n)
  BY <1>4, <1>5, VisitsOne
<1>7. p \in Nodes /\ n \in Nodes /\ k \in DOMAIN kids[p] /\ depth[m] = Visited
  <2>1. /\ p \in Nodes /\ Visited.visited \in Nat /\ kids[p] \in Seq(Nodes)
        /\ depth[m] = Visited /\ n \in Nodes
    BY <1>1, <1>4, <1>5, <1>6, VisitedNodes DEF Visits
  <2>2. PICK s, v : s = kids[p] /\ v = Visited.visited
    OBVIOUS
  <2>3. s \in Seq(Nodes) /\ v \in Nat /\ v < Len(s)
    BY <1>6, <2>1, <2>2 DEF Visits
  <2>4. v + 1 \in DOMAIN s
    BY <2>3
  <2> QED BY <1>4, <2>1, <2>2, <2>4
<1>8. Parent(n) = p
  BY <1>2, <1>4, <1>7, TreeOfAnalysis, ParentOf
<1>9. UNCHANGED vars /\ declaring' = declaring
  BY <1>6 DEF Visits
<1>10. /\ depth' # << >> /\ DOMAIN depth = 1 .. m /\ DOMAIN depth' = 1 .. m + 1
       /\ Visited' = depth'[m + 1] /\ depth'[m + 1].node = n /\ depth'[m + 1].visited = 0
       /\ depth'[m].visited = k
       /\ \A i \in 1 .. m : depth'[i].node = depth[i].node
       /\ \A i \in 1 .. m - 1 : depth'[i] = depth[i]
  <2>1. depth \in Seq(Frames(Nodes)) /\ depth' = Pushed(depth, n)
    BY <1>6 DEF Visits, SemaInv, SemaTypes
  <2>2. IsPushed(depth, Nodes, n, depth')
    BY <2>1, <1>1, PushedFrames
  <2>3. depth' \in Seq(Frames(Nodes \cup {n})) /\ Len(depth') = m + 1
    BY <2>2, <1>5 DEF IsPushed
  <2>4. DOMAIN depth = 1 .. m /\ DOMAIN depth' = 1 .. m + 1
    BY <2>1, <2>3, <1>5
  <2> QED BY <2>2, <2>3, <2>4, <1>4, <1>5, <1>7 DEF IsPushed, Visited
<1> DEFINE W == V \cup {n}
<1>11. Seen(W)'
  <2>1. W \in SUBSET Nodes' /\ 1 \in W
    BY <1>3, <1>7, <1>9, SameDiagnosis DEF Seen
  <2>2. diagnosed' = UNION {DiagnosedBelow(Parent(x), x)' : x \in W}
    <3>1. diagnosed' = diagnosed \cup DiagnosedBelow(Parent(n), n)
      BY <1>6, <1>8 DEF Visits
    <3>2. diagnosed = UNION {DiagnosedBelow(Parent(x), x) : x \in V}
      BY <1>3 DEF Seen
    <3>3. diagnosed' = UNION {DiagnosedBelow(Parent(x), x) : x \in W}
      BY <3>1, <3>2
    <3> QED BY <3>3, <1>9, SameDiagnosis
  <2>3. ASSUME NEW i \in DOMAIN depth'
        PROVE  /\ depth'[i].node \in W
               /\ \A j \in 1 .. depth'[i].visited : kids'[depth'[i].node][j] \in W
    <3>1. kids' = kids
      BY <1>9, SameDiagnosis
    <3>2. CASE i = m + 1
      BY <3>2, <1>10
    <3>3. CASE i \in 1 .. m - 1
      <4>1. i \in DOMAIN depth
        BY <3>3, <1>5, <1>10
      <4> QED BY <3>1, <3>3, <4>1, <1>3, <1>10 DEF Seen
    <3>4. CASE i = m
      <4>1. m \in DOMAIN depth /\ depth'[m].node = p /\ p \in V
        BY <1>3, <1>4, <1>5, <1>7, <1>10 DEF Seen
      <4>2. \A j \in 1 .. Visited.visited : kids[p][j] \in V
        BY <4>1, <1>3, <1>4, <1>7 DEF Seen
      <4>3. Visited.visited \in Nat
        BY <1>1, VisitedNodes
      <4>4. \A j \in 1 .. k : j \in 1 .. Visited.visited \/ j = k
        BY <4>3, <1>4
      <4>5. \A j \in 1 .. k : kids[p][j] \in W
        BY <4>2, <4>4, <1>4
      <4> QED BY <3>1, <3>4, <4>1, <4>5, <1>10
    <3>5. i = m + 1 \/ i = m \/ i \in 1 .. m - 1
      BY <1>5, <1>10
    <3> QED BY <3>2, <3>3, <3>4, <3>5
  <2>4. ASSUME NEW x \in W
        PROVE  \/ \E i \in DOMAIN depth' : depth'[i].node = x
               \/ \A j \in DOMAIN kids'[x] : kids'[x][j] \in W
    <3>1. CASE x = n
      <4>1. m + 1 \in DOMAIN depth'
        BY <1>5, <1>10
      <4> QED BY <3>1, <4>1, <1>10
    <3>2. CASE x \in V /\ \E i \in DOMAIN depth : depth[i].node = x
      <4>1. PICK i \in 1 .. m : depth[i].node = x
        BY <3>2, <1>10
      <4>2. i \in DOMAIN depth' /\ depth'[i].node = x
        BY <4>1, <1>5, <1>10
      <4> QED BY <4>2
    <3>3. CASE x \in V /\ \A j \in DOMAIN kids[x] : kids[x][j] \in V
      BY <3>3, <1>9, SameDiagnosis
    <3> QED BY <3>1, <3>2, <3>3, <1>3 DEF Seen
  <2> QED BY <2>1, <2>2, <2>3, <2>4 DEF Seen
<1>12. SeenVerdict(W)'
  <2>1. CASE Kind(n) # "instantiation"
    <3>1. verdict' = "checking"
      BY <2>1, <1>2, <1>6 DEF Visits
    <3>2. \A x \in W : Kind(x)' = "instantiation" => Fits(x)'
      BY <2>1, <1>2, <1>3, <1>9, SameDiagnosis DEF SeenVerdict
    <3> QED BY <3>1, <3>2 DEF SeenVerdict
  <2>2. CASE Kind(n) = "instantiation"
    <3>1. verdict' = Dereferenced(n)
      BY <2>2, <1>6 DEF Visits
    <3>2. depth' # << >> /\ Visited'.node = n /\ Kind(n)' = "instantiation"
      BY <2>2, <1>9, <1>10, SameDiagnosis
    <3>3. CASE ~Resolved(Callee(n))
      <4>1. verdict' = "nullDecl"
        BY <3>1, <3>3 DEF Dereferenced
      <4>2. ~Resolved(Callee(n))'
        BY <3>3, <1>9, SameDiagnosis
      <4>3. ~Resolved(Callee(Visited.node))'
        BY <3>2, <4>2
      <4> QED BY <3>2, <4>1, <4>3 DEF SeenVerdict
    <3>4. CASE Resolved(Callee(n)) /\ Signature(Callee(n)).kind # "meta"
      <4>1. verdict' = "nullMetaDecl"
        BY <3>1, <3>4 DEF Dereferenced
      <4>2. Signature(Callee(n))'.kind # "meta"
        BY <3>4, <1>9, SameDiagnosis
      <4>3. Signature(Callee(Visited.node))'.kind # "meta"
        BY <3>2, <4>2
      <4> QED BY <3>2, <4>1, <4>3 DEF SeenVerdict
    <3>5. CASE Resolved(Callee(n)) /\ Signature(Callee(n)).kind = "meta"
      <4>1. verdict' = "checking"
        BY <3>1, <3>5, <1>2 DEF Dereferenced
      <4>2. \A x \in W : Kind(x)' = "instantiation" => Fits(x)'
        BY <3>5, <1>2, <1>3, <1>9, SameDiagnosis DEF SeenVerdict, Fits
      <4> QED BY <4>1, <4>2 DEF SeenVerdict
    <3> QED BY <3>3, <3>4, <3>5
  <2> QED BY <2>1, <2>2
<1>13. verdict' # "unchecked" /\ status' = "read" /\ errors' = {}
  BY <1>2, <1>6, <1>9, SameDiagnosis DEF Visits, Dereferenced
<1> HIDE DEF W
<1> QED BY <1>11, <1>12, <1>13 DEF AnalysisInv

\* A node is left when all of its children have been seen
LEMMA LeaveSees == ASSUME SemaInv, AnalysisInv, LeaveNode PROVE AnalysisInv'
<1>1. /\ Checking /\ depth # << >> /\ Visited.visited = Len(kids[Visited.node])
      /\ depth' = Popped(depth) /\ UNCHANGED vars
      /\ verdict' = IF Len(depth) = 1 THEN "checked" ELSE verdict
      /\ diagnosed' = diagnosed /\ declaring' = declaring
  BY DEF LeaveNode
<1>2. status = "read" /\ errors = {} /\ verdict = "checking"
  BY <1>1 DEF AnalysisInv, Checking
<1>3. PICK V : Seen(V) /\ SeenVerdict(V)
  BY <1>2 DEF AnalysisInv
<1>4. PICK m : m = Len(depth) /\ m \in Nat \ {0} /\ depth[m] = Visited
  BY <1>1, VisitedNodes
<1>5. /\ DOMAIN depth = 1 .. m /\ DOMAIN depth' = 1 .. m - 1
      /\ \A i \in 1 .. m - 1 : depth'[i] = depth[i]
      /\ m = 1 => depth' = << >>
  <2>1. PICK F : F = Frames(Nodes)
    OBVIOUS
  <2>2. /\ depth \in Seq(F) /\ depth' \in Seq(F) /\ Len(depth') = m - 1
        /\ \A i \in 1 .. m - 1 : depth'[i] = depth[i]
    BY <2>1, <1>1, <1>4, PoppedSequence DEF SemaInv, SemaTypes
  <2>3. DOMAIN depth = 1 .. m /\ DOMAIN depth' = 1 .. m - 1
    BY <2>2, <1>4
  <2>4. m = 1 => depth' = << >>
    BY <2>2
  <2> QED BY <2>2, <2>3, <2>4
<1>6. Seen(V)'
  <2>1. \A k \in DOMAIN kids[Visited.node] : kids[Visited.node][k] \in V
    <3>1. m \in DOMAIN depth
      BY <1>4, <1>5
    <3>2. \A k \in 1 .. Visited.visited : kids[Visited.node][k] \in V
      BY <3>1, <1>3, <1>4 DEF Seen
    <3>3. kids[Visited.node] \in Seq(Nodes)
      BY <1>1, VisitedNodes
    <3>4. DOMAIN kids[Visited.node] = 1 .. Len(kids[Visited.node])
      BY <3>3
    <3> QED BY <3>2, <3>4, <1>1
  <2>2. V \in SUBSET Nodes' /\ 1 \in V
    BY <1>1, <1>3, SameDiagnosis DEF Seen
  <2>3. diagnosed' = UNION {DiagnosedBelow(Parent(x), x)' : x \in V}
    BY <1>1, <1>3, SameDiagnosis DEF Seen
  <2>4. ASSUME NEW i \in DOMAIN depth'
        PROVE  /\ depth'[i].node \in V
               /\ \A j \in 1 .. depth'[i].visited : kids'[depth'[i].node][j] \in V
    <3>1. i \in DOMAIN depth /\ depth'[i] = depth[i]
      BY <1>4, <1>5
    <3> QED BY <3>1, <1>1, <1>3, SameDiagnosis DEF Seen
  <2>5. ASSUME NEW x \in V
        PROVE  \/ \E i \in DOMAIN depth' : depth'[i].node = x
               \/ \A j \in DOMAIN kids'[x] : kids'[x][j] \in V
    <3>1. CASE \E i \in DOMAIN depth : depth[i].node = x
      <4>1. PICK i \in 1 .. m : depth[i].node = x
        BY <3>1, <1>5
      <4>2. CASE i = m
        BY <2>1, <4>1, <4>2, <1>1, <1>4, SameDiagnosis
      <4>3. CASE i # m
        <5>1. i \in 1 .. m - 1
          BY <4>1, <4>3, <1>4
        <5> QED BY <4>1, <5>1, <1>5
      <4> QED BY <4>2, <4>3
    <3>2. CASE \A j \in DOMAIN kids[x] : kids[x][j] \in V
      BY <3>2, <1>1, SameDiagnosis
    <3> QED BY <3>1, <3>2, <1>3 DEF Seen
  <2> QED BY <2>2, <2>3, <2>4, <2>5 DEF Seen
<1>7. SeenVerdict(V)'
  <2>1. \A x \in V : Kind(x)' = "instantiation" => Fits(x)'
    BY <1>1, <1>2, <1>3, SameDiagnosis DEF SeenVerdict
  <2>2. verdict' \in {"checking", "checked"} /\ (verdict' = "checked" => depth' = << >>)
    BY <1>1, <1>2, <1>4, <1>5
  <2> QED BY <2>1, <2>2 DEF SeenVerdict
<1>8. verdict' # "unchecked" /\ status' = "read" /\ errors' = {}
  BY <1>1, <1>2, SameDiagnosis
<1> QED BY <1>6, <1>7, <1>8 DEF AnalysisInv

\* The analysis starts at the root, which is not diagnosed
LEMMA CheckSees == ASSUME SemaInv, AnalysisInv, CheckAST PROVE AnalysisInv'
<1>1. /\ status = "read" /\ errors = {} /\ verdict = "unchecked" /\ verdict' = "checking"
      /\ depth' = <<[node |-> 1, visited |-> 0]>> /\ UNCHANGED vars
      /\ diagnosed' = diagnosed /\ declaring' = declaring
  BY DEF CheckAST
<1>2. diagnosed = {} /\ 1 \in Nodes /\ Kind(1) \in UnitKinds
  BY <1>1, RootOfTree DEF AnalysisInv, SemaInv
<1>3. DiagnosedBelow(Parent(1), 1) = {}
  BY <1>2 DEF DiagnosedBelow, UnitKinds
<1>4. DOMAIN depth' = {1} /\ depth'[1].node = 1 /\ depth'[1].visited = 0
  <2>1. DOMAIN depth' = 1 .. 1 /\ depth'[1] = [node |-> 1, visited |-> 0]
    BY <1>1
  <2> QED BY <2>1
<1>5. PICK V : V = {1}
  OBVIOUS
<1>6. Seen(V)'
  <2>1. V \in SUBSET Nodes' /\ 1 \in V
    BY <1>1, <1>2, <1>5, SameDiagnosis
  <2>2. diagnosed' = UNION {DiagnosedBelow(Parent(x), x)' : x \in V}
    BY <1>1, <1>2, <1>3, <1>5, SameDiagnosis
  <2>3. \A i \in DOMAIN depth' :
          /\ depth'[i].node \in V
          /\ \A j \in 1 .. depth'[i].visited : kids'[depth'[i].node][j] \in V
    BY <1>4, <1>5
  <2>4. \A x \in V : \E i \in DOMAIN depth' : depth'[i].node = x
    BY <1>4, <1>5
  <2> QED BY <2>1, <2>2, <2>3, <2>4 DEF Seen
<1>7. SeenVerdict(V)'
  <2>1. \A x \in V : Kind(x)' # "instantiation"
    BY <1>1, <1>2, <1>5, SameDiagnosis DEF UnitKinds
  <2> QED BY <1>1, <2>1 DEF SeenVerdict
<1> QED BY <1>1, <1>6, <1>7, SameDiagnosis DEF AnalysisInv

\* Steps of the reader leave the analysis alone
LEMMA AnalysisStays ==
  ASSUME AnalysisInv, UNCHANGED vars, depth' = depth, diagnosed' = diagnosed,
         declaring' = declaring, verdict' = verdict
  PROVE  AnalysisInv'
<1>1. CASE verdict = "unchecked"
  BY <1>1 DEF AnalysisInv
<1>2. CASE verdict # "unchecked"
  <2>1. PICK V : Seen(V) /\ SeenVerdict(V)
    BY <1>2 DEF AnalysisInv
  <2>2. Seen(V)'
    BY <2>1, SameDiagnosis DEF Seen
  <2>3. SeenVerdict(V)'
    <3>1. Visited' = Visited
      BY DEF Visited
    <3>2. \A n \in V : Kind(n)' = "instantiation" => (verdict \in {"checking", "checked"} => Fits(n)')
      BY <2>1, SameDiagnosis DEF SeenVerdict
    <3>3. /\ verdict \in {"nullDecl", "nullMetaDecl"} =>
               depth # << >> /\ Kind(Visited.node)' = "instantiation"
          /\ verdict = "nullDecl" => ~Resolved(Callee(Visited.node))'
          /\ verdict = "nullMetaDecl" => Signature(Callee(Visited.node))'.kind # "meta"
      <4>1. PICK v : v = Visited.node
        OBVIOUS
      <4>2. Visited.node' = v /\ Kind(v)' = Kind(v) /\ Resolved(Callee(v))' = Resolved(Callee(v))
            /\ Signature(Callee(v))' = Signature(Callee(v))
        BY <3>1, <4>1, SameDiagnosis
      <4> QED BY <2>1, <3>1, <4>1, <4>2 DEF SeenVerdict
    <3> QED BY <2>1, <3>2, <3>3 DEF SeenVerdict
  <2> QED BY <1>2, <2>2, <2>3, SameDiagnosis DEF AnalysisInv
<1> QED BY <1>1, <1>2

\* Every step keeps the invariant of what was seen
LEMMA AnalysisStep ==
  ASSUME SemaInv, AnalysisInv, [CheckNext]_allVars PROVE AnalysisInv'
<1>1. CASE Read /\ UNCHANGED semaVars
  <2>1. status # "read"
    BY <1>1, ReadIsNotRead
  <2>2. verdict = "unchecked" /\ depth = << >> /\ diagnosed = {}
    BY <2>1 DEF AnalysisInv
  <2> QED BY <1>1, <2>2 DEF semaVars, AnalysisInv
<1>2. CASE CheckAST
  BY <1>2, CheckSees
<1>3. CASE Visit
  BY <1>3, VisitSees
<1>4. CASE LeaveNode
  BY <1>4, LeaveSees
<1>5. CASE InstantiateAccepted
  BY <1>5 DEF InstantiateAccepted, AnalysisInv
<1>6. CASE UNCHANGED allVars
  BY <1>6, AnalysisStays DEF allVars, semaVars
<1> QED BY <1>1, <1>2, <1>3, <1>4, <1>5, <1>6 DEF CheckNext, Analyse, AnalysisEnded, Visit

\* The invariant of what was seen always holds
LEMMA AnalysisAlways == CheckSpec => [](SemaInv /\ AnalysisInv)
<1>1. CheckInit => SemaInv /\ AnalysisInv
  BY SemaInit DEF CheckInit, AnalysisInv
<1>2. SemaInv /\ AnalysisInv /\ [CheckNext]_allVars => (SemaInv /\ AnalysisInv)'
  BY SemaStep, AnalysisStep
<1> QED BY <1>1, <1>2, PTL DEF CheckSpec

\* The analysis ends when it has seen the whole tree
LEMMA AllSeen ==
  ASSUME SemaInv, AnalysisInv, verdict = "checked"
  PROVE  /\ diagnosed = UNION {DiagnosedBelow(Parent(n), n) : n \in Nodes}
         /\ \A i \in Instantiations : Fits(i)
<1>1. PICK V : Seen(V) /\ SeenVerdict(V)
  BY DEF AnalysisInv
<1>2. PICK lv : TreeRead(lv)
  BY TreeOfAnalysis DEF AnalysisInv
<1>3. V \in SUBSET Nodes /\ 1 \in V /\ \A p \in V : \A k \in DOMAIN kids[p] : kids[p][k] \in V
  <2>1. DOMAIN depth = {}
    BY <1>1 DEF SeenVerdict
  <2> QED BY <1>1, <2>1 DEF Seen
<1>4. V = Nodes
  BY <1>2, <1>3, TopDown
<1> QED BY <1>1, <1>4 DEF Seen, SeenVerdict, Instantiations

\* What is diagnosed at a node is what its visit did
LEMMA ErrorsOf ==
  ASSUME SemaInv, AnalysisInv, verdict = "checked", NEW n \in Nodes
  PROVE  ErrorsAt(n) = {} <=> DiagnosedBelow(Parent(n), n) = {}
<1>1. diagnosed = UNION {DiagnosedBelow(Parent(m), m) : m \in Nodes}
  BY AllSeen
<1>2. \A m : \A d \in DiagnosedBelow(Parent(m), m) : d[2] = m
  BY DiagnosesItself
<1>3. {d \in diagnosed : d[2] = n} = DiagnosedBelow(Parent(n), n)
  BY <1>1, <1>2
<1> QED BY <1>3 DEF ErrorsAt

\* What SemaAnalysis accepts fits, and it rejects nothing else: a node is diagnosed
\* by its visit, which is made exactly once and with the parent behind it
THEOREM AcceptsExactly == CheckSpec => []AcceptsWhatFits
<1>1. ASSUME SemaInv, AnalysisInv, verdict = "checked" PROVE AcceptsWhatFits
  <2> USE <1>1
  <2>1. ASSUME NEW c \in Calls, NEW s, s = Signature(Callee(c))
        PROVE  (s.kind = "function" /\ s.args = Actual(c) /\ (s.typed \/ Kind(Parent(c)) = "expr"))
                 <=> ErrorsAt(c) = {}
    <3>1. c \in Nodes /\ Kind(c) = "call" /\ Callable(c)
      BY DEF Calls
    <3>2. DiagnosedBelow(Parent(c), c) = CallDiagnosed(Parent(c), c)
      BY <3>1 DEF DiagnosedBelow
    <3>3. CallDiagnosed(Parent(c), c) = {} <=>
            /\ ~(s.kind = "function" /\ ~s.typed /\ Kind(Parent(c)) # "expr")
            /\ ~(s.kind = "function" /\ Actual(c) # s.args)
            /\ s.kind = "function"
      BY <2>1, <3>1 DEF CallDiagnosed, Only
    <3> QED BY <3>1, <3>2, <3>3, ErrorsOf
  <2>2. ASSUME NEW i \in Instantiations, NEW s, s = Signature(Callee(i))
        PROVE  (s.kind = "meta" /\ s.args = Actual(i) /\ ~NoLiteral(i)) <=> ErrorsAt(i) = {}
    <3>1. i \in Nodes /\ Kind(i) = "instantiation" /\ Resolved(Callee(i))
      BY AllSeen DEF Instantiations, Fits
    <3>2. DiagnosedBelow(Parent(i), i) = DiagnosedInstantiation(i)
      BY <3>1 DEF DiagnosedBelow
    <3>3. DiagnosedInstantiation(i) = {} <=>
            ~NoLiteral(i) /\ s.kind = "meta" /\ ~(s.kind = "meta" /\ Actual(i) # s.args)
      BY <2>2, <3>1 DEF DiagnosedInstantiation, Only
    <3> QED BY <3>1, <3>2, <3>3, ErrorsOf
  <2>3. ASSUME NEW d \in diagnosed
        PROVE  \/ d[2] \in Calls \cup Instantiations
               \/ d[1] = "DidYouMeanEquals" /\ Kind(d[2]) = "if"
               \/ IsReserved(d[2]) /\ Kind(d[2]) \in {"function", "meta"}
    <3>1. PICK n \in Nodes : d \in DiagnosedBelow(Parent(n), n)
      BY AllSeen
    <3>2. d[2] = n
      BY <3>1, DiagnosesItself
    <3>3. CASE Kind(n) = "call"
      BY <3>1, <3>2, <3>3 DEF DiagnosedBelow, CallDiagnosed, Calls
    <3>4. CASE Kind(n) = "if"
      BY <3>1, <3>2, <3>4 DEF DiagnosedBelow, DiagnosedIf, Only
    <3>5. CASE Kind(n) \in {"function", "meta"}
      BY <3>1, <3>2, <3>5 DEF DiagnosedBelow, Only
    <3>6. CASE Kind(n) = "instantiation"
      BY <3>2, <3>6 DEF Instantiations
    <3> QED BY <3>1, <3>3, <3>4, <3>5, <3>6 DEF DiagnosedBelow
  <2>4. ASSUME NEW n \in Nodes, Kind(n) \in {"function", "meta"}, IsReserved(n)
        PROVE  ErrorsAt(n) # {}
    <3>1. DiagnosedBelow(Parent(n), n) # {}
      BY <2>4 DEF DiagnosedBelow, Only
    <3> QED BY <3>1, ErrorsOf
  <2> QED BY <2>1, <2>2, <2>3, <2>4 DEF AcceptsWhatFits
<1>2. SemaInv /\ AnalysisInv => AcceptsWhatFits
  BY <1>1 DEF AcceptsWhatFits
<1> QED BY <1>2, AnalysisAlways, PTL

(***************************************************************************)
(* Which decls are there when they are asked for.                          *)
(***************************************************************************)
\* Without errors an instantiation has a decl unless it is only contributed
LEMMA ResolvedOutside ==
  ASSUME NEW lv, TreeRead(lv), errors = {}, NEW i \in Nodes, Kind(i) = "instantiation"
  PROVE  Resolved(Callee(i)) <=> ~ContributedOnly(i)
<1>1. 1 \in DOMAIN kids[i]
  <2>1. Complete(i) /\ kids[i] \in Seq(Nodes)
    BY TreeFacts, LayoutFacts DEF TreeRead, ReaderTypes
  <2> QED BY <2>1 DEF Complete
<1>2. PICK r : r = Callee(i) /\ r = kids[i][1]
  BY DEF Callee
<1>3. r \in Nodes /\ ChildFits(i, 1, r)
  BY <1>1, <1>2, KidLevel
<1>4. Kind(r) = "ref"
  BY <1>3 DEF ChildFits
<1>5. lv[r] = lv[i]
  BY <1>1, <1>2, <1>4, KidLevel
<1>6. RefFits(lv, r)
  BY <1>3, <1>4, TreeFacts
<1>7. Resolved(r) <=> lv[i] # "InsideMetaDecl"
  BY <1>5, <1>6 DEF RefFits, Resolved
<1> QED BY <1>2, <1>7, ContributedLevel

\* The analysis meets an instantiation without a decl exactly when the tree has one
\* in a part of a meta decl that is only contributed (SemaAnalysis.cpp:127, :135)
THEOREM NullExactly == CheckSpec => []NullOnlyWhereUnresolved
<1>1. ASSUME SemaInv, AnalysisInv, verdict = "nullDecl"
      PROVE  Kind(Visited.node) = "instantiation" /\ ContributedOnly(Visited.node)
  <2>1. PICK V : SeenVerdict(V)
    BY <1>1 DEF AnalysisInv
  <2>2. /\ depth # << >> /\ Kind(Visited.node) = "instantiation"
        /\ ~Resolved(Callee(Visited.node))
    BY <1>1, <2>1 DEF SeenVerdict
  <2>3. Visited.node \in Nodes
    BY <1>1, <2>2, VisitedNodes
  <2>4. PICK lv : TreeRead(lv)
    BY <1>1, TreeOfAnalysis DEF AnalysisInv
  <2>5. errors = {}
    BY <1>1 DEF AnalysisInv
  <2>6. PICK i : i = Visited.node
    OBVIOUS
  <2> QED BY <2>2, <2>3, <2>4, <2>5, <2>6, ResolvedOutside
<1>2. ASSUME SemaInv, AnalysisInv, verdict = "nullMetaDecl"
      PROVE  Signature(Callee(Visited.node)).kind # "meta"
  BY <1>2 DEF AnalysisInv, SeenVerdict
<1>3. ASSUME SemaInv, AnalysisInv, verdict = "checked", NEW i \in Instantiations
      PROVE  ~ContributedOnly(i) /\ Signature(Callee(i)).kind = "meta"
  <2>1. Fits(i) /\ i \in Nodes /\ Kind(i) = "instantiation"
    BY <1>3, AllSeen DEF Instantiations
  <2>2. PICK lv : TreeRead(lv)
    BY <1>3, TreeOfAnalysis DEF AnalysisInv
  <2>3. errors = {}
    BY <1>3 DEF AnalysisInv
  <2> QED BY <2>1, <2>2, <2>3, ResolvedOutside DEF Fits
<1>4. SemaInv /\ AnalysisInv => NullOnlyWhereUnresolved
  BY <1>1, <1>2, <1>3 DEF NullOnlyWhereUnresolved
<1> QED BY <1>4, AnalysisAlways, PTL

(***************************************************************************)
(* DependencyAnalysis.                                                     *)
(***************************************************************************)
\* consume finds the instantiations below a node
LEMMA ConsumesBelow ==
  ASSUME NEW lv, TreeRead(lv)
  PROVE  \A n \in Nodes : ConsumeAll[n] = Instantiations \cap Below[n]
<1> DEFINE Body(f, n) == Consumed(n) \cup UNION {f[kids[n][k]] : k \in DOMAIN kids[n]}
           found == [n \in Nodes |-> Instantiations \cap Below[n]]
<1>1. ConsumeAll = CHOOSE f : f = [n \in Nodes |-> Body(f, n)]
  BY DEF ConsumeAll
<1>2. \A n \in Nodes : found[n] = Body(found, n)
  <2> TAKE n \in Nodes
  <2>1. Below[n] = {n} \cup UNION {Below[kids[n][k]] : k \in DOMAIN kids[n]}
    BY BelowEquation
  <2>2. \A k \in DOMAIN kids[n] : kids[n][k] \in Nodes
    BY TreeFacts
  <2>3. \A k \in DOMAIN kids[n] : found[kids[n][k]] = Instantiations \cap Below[kids[n][k]]
    BY <2>2
  <2>4. Consumed(n) = Instantiations \cap {n}
    BY DEF Consumed, Instantiations
  <2>5. found[n] = Instantiations \cap Below[n]
    OBVIOUS
  <2> HIDE DEF found
  <2> QED BY <2>1, <2>3, <2>4, <2>5
<1>3. found = [n \in Nodes |-> Body(found, n)]
  <2>1. found = [n \in Nodes |-> found[n]]
    OBVIOUS
  <2> HIDE DEF found, Body
  <2> QED BY <1>2, <2>1
<1>4. ConsumeAll = [n \in Nodes |-> Body(ConsumeAll, n)]
  <2> HIDE DEF found, Body
  <2> QED BY <1>1, <1>3
<1>5. \A n \in Nodes : ConsumeAll[n] = Body(ConsumeAll, n)
  <2> HIDE DEF Body
  <2> QED BY <1>4
<1> DEFINE B == {n \in Nodes : ConsumeAll[n] = found[n]}
<1>6. \A n \in Nodes : (\A k \in DOMAIN kids[n] : kids[n][k] \in B) => n \in B
  <2> HIDE DEF found
  <2> SUFFICES ASSUME NEW n \in Nodes, \A k \in DOMAIN kids[n] : kids[n][k] \in B
               PROVE  ConsumeAll[n] = found[n]
    OBVIOUS
  <2>1. \A k \in DOMAIN kids[n] : ConsumeAll[kids[n][k]] = found[kids[n][k]]
    OBVIOUS
  <2>2. Body(ConsumeAll, n) = Body(found, n)
    BY <2>1
  <2> HIDE DEF Body
  <2> QED BY <2>2, <1>2, <1>5
<1>7. B \in SUBSET Nodes
  OBVIOUS
<1> HIDE DEF B
<1>8. B = Nodes
  BY <1>6, <1>7, BottomUp
<1>9. \A n \in Nodes : ConsumeAll[n] = found[n]
  BY <1>8 DEF B
<1> QED BY <1>9

\* What is consumed of a child of something that is not consumed itself
ConsumedOf(f, c) ==
  IF Kind(c) \in {"metaIf", "metaCalculation"} THEN UNION {ConsumeAll[e] : e \in Computed(c)}
  ELSE f[c]

\* ConsumeAllMeta satisfies its equation on a tree that was read
LEMMA ConsumesMeta ==
  ASSUME NEW lv, TreeRead(lv)
  PROVE  \A n \in Nodes :
           ConsumeAllMeta[n] = UNION {ConsumedOf(ConsumeAllMeta, kids[n][k]) : k \in DOMAIN kids[n]}
<1> DEFINE S == SUBSET Nodes
           Body(f, n) == UNION {ConsumedOf(f, kids[n][k]) : k \in DOMAIN kids[n]}
           G == [n \in Nodes |-> [f \in [Nodes -> S] |-> Body(f, n)]]
<1>1. ConsumeAllMeta = CHOOSE f : f = [n \in Nodes |-> Body(f, n)]
  BY DEF ConsumeAllMeta, ConsumedOf
<1>2. \A c \in Nodes : \A f \in [Nodes -> S] : ConsumedOf(f, c) \in S
  <2> SUFFICES ASSUME NEW c \in Nodes, NEW f \in [Nodes -> S] PROVE ConsumedOf(f, c) \in S
    OBVIOUS
  <2>1. CASE Kind(c) = "metaIf"
    <3>1. kids[c][1] \in Nodes
      BY <2>1, ConditionComputed
    <3>2. ConsumeAll[kids[c][1]] \in S
      BY <3>1, ConsumesBelow DEF Instantiations
    <3> QED BY <2>1, <3>2 DEF ConsumedOf, Computed
  <2>2. CASE Kind(c) = "metaCalculation"
    <3>1. ConsumeAll[c] \in S
      BY ConsumesBelow DEF Instantiations
    <3> QED BY <2>2, <3>1 DEF ConsumedOf, Computed
  <2>3. CASE Kind(c) \notin {"metaIf", "metaCalculation"}
    BY <2>3 DEF ConsumedOf
  <2> QED BY <2>1, <2>2, <2>3
<1>3. G \in [Nodes -> [[Nodes -> S] -> S]]
  <2>1. \A n \in Nodes : \A f \in [Nodes -> S] : Body(f, n) \in S
    BY <1>2, TreeFacts
  <2> HIDE DEF Body, S
  <2> QED BY <2>1
<1>4. OfChildren(S, G)
  <2>1. \A n \in Nodes : \A f, g \in [Nodes -> S] :
          (\A k \in DOMAIN kids[n] : f[kids[n][k]] = g[kids[n][k]]) => Body(f, n) = Body(g, n)
    BY DEF ConsumedOf
  <2>2. \A n \in Nodes : \A f \in [Nodes -> S] : G[n][f] = Body(f, n)
    OBVIOUS
  <2> HIDE DEF Body, S, G
  <2> QED BY <2>1, <2>2 DEF OfChildren
<1>5. PICK f \in [Nodes -> S] : \A n \in Nodes : f[n] = G[n][f]
  <2>1. S # {}
    OBVIOUS
  <2>2. Solvable(Nodes, S, G)
    <3> HIDE DEF S, G
    <3> QED BY <1>3, <1>4, <2>1, TreeRecursion, Zenon
  <2> QED BY <2>2 DEF Solvable
<1>6. f = [n \in Nodes |-> Body(f, n)]
  BY <1>5
<1>7. ConsumeAllMeta = [n \in Nodes |-> Body(ConsumeAllMeta, n)]
  <2> HIDE DEF Body
  <2> QED BY <1>1, <1>6
<1> QED BY <1>7

\* What consumeMeta finds is computed: it is in a meta calculation or the condition
\* of a meta if, and no other meta if is between that and the node
LEMMA MetaFindsComputed ==
  ASSUME NEW lv, TreeRead(lv)
  PROVE  \A n \in Nodes : Kind(n) \notin {"metaIf", "metaCalculation"} =>
           \A i \in ConsumeAllMeta[n] :
             /\ i \in Instantiations \cap Below[n] /\ lv[i] = "InsideComputation"
             /\ \A b \in Nodes : Kind(b) = "metaIf" /\ i \in Below[b]
                  => n \in Below[b] \/ i \in Below[kids[b][1]]
<1> DEFINE Found(n, i) ==
             /\ i \in Instantiations \cap Below[n] /\ lv[i] = "InsideComputation"
             /\ \A b \in Nodes : Kind(b) = "metaIf" /\ i \in Below[b]
                  => n \in Below[b] \/ i \in Below[kids[b][1]]
           B == {n \in Nodes : Kind(n) \notin {"metaIf", "metaCalculation"} =>
                                 \A i \in ConsumeAllMeta[n] : Found(n, i)}
<1>1. ASSUME NEW n \in Nodes, \A k \in DOMAIN kids[n] : kids[n][k] \in B,
             Kind(n) \notin {"metaIf", "metaCalculation"}, NEW i \in ConsumeAllMeta[n]
      PROVE  Found(n, i)
  <2>1. PICK k \in DOMAIN kids[n] : i \in ConsumedOf(ConsumeAllMeta, kids[n][k])
    BY ConsumesMeta
  <2>2. PICK c : c = kids[n][k]
    OBVIOUS
  <2>3. c \in Nodes /\ c \in Below[n] /\ c \in B /\ Parent(c) = n
    BY <1>1, <2>2, TreeFacts, BelowSelf, BelowKids, ParentOf
  <2>4. \A b \in Nodes : c \in Below[b] /\ b # c => n \in Below[b]
    <3> SUFFICES ASSUME NEW b \in Nodes, c \in Below[b], b # c PROVE n \in Below[b]
      OBVIOUS
    <3>1. PICK p \in Below[b] : \E j \in DOMAIN kids[p] : c = kids[p][j]
      BY BelowParent
    <3>2. p \in Nodes
      BY BelowEquation
    <3> QED BY <2>2, <3>1, <3>2, TreeFacts
  <2>5. CASE Kind(c) \notin {"metaIf", "metaCalculation"}
    <3>1. i \in ConsumeAllMeta[c]
      BY <2>1, <2>2, <2>5 DEF ConsumedOf
    <3>2. Found(c, i)
      BY <2>3, <2>5, <3>1
    <3>3. Below[c] \subseteq Below[n]
      BY <2>3, BelowBelow
    <3> QED BY <2>4, <2>5, <3>2, <3>3
  <2>6. ASSUME NEW e \in Nodes, e \in Below[c], lv[e] = "InsideComputation", i \in ConsumeAll[e],
               e = c \/ (Kind(c) = "metaIf" /\ e = kids[c][1])
        PROVE  Found(n, i)
    <3>1. i \in Instantiations \cap Below[e]
      BY <2>6, ConsumesBelow
    <3>2. Below[e] \subseteq Below[c] /\ Below[c] \subseteq Below[n]
      BY <2>3, <2>6, BelowBelow
    <3>3. lv[i] = "InsideComputation"
      BY <2>6, <3>1, ComputedBelow
    <3>4. ASSUME NEW b \in Nodes, Kind(b) = "metaIf", i \in Below[b]
          PROVE  n \in Below[b] \/ i \in Below[kids[b][1]]
      <4>1. lv[b] = "InsideMetaDecl"
        BY <3>4, ConditionComputed
      <4>2. b \notin Below[e]
        BY <4>1, <2>6, ComputedBelow
      <4>3. e \in Below[b] /\ e # b
        BY <2>6, <3>1, <3>4, <4>1, <4>2, BelowChain DEF Instantiations
      <4>4. c \in Below[b]
        <5>1. CASE e = c
          BY <4>3, <5>1
        <5>2. CASE Kind(c) = "metaIf" /\ e = kids[c][1]
          <6>0. PICK p \in Below[b] : \E j \in DOMAIN kids[p] : e = kids[p][j]
            BY <4>3, BelowParent
          <6>1. PICK j \in DOMAIN kids[p] : e = kids[p][j]
            BY <6>0
          <6>2. p \in Nodes /\ 1 \in DOMAIN kids[c]
            BY <2>3, <5>2, BelowEquation, ConditionComputed
          <6>3. kids[p][j] = kids[c][1]
            BY <5>2, <6>1
          <6>4. p = c
            BY <2>3, <6>2, <6>3, TreeFacts
          <6> QED BY <6>1, <6>4
        <5> QED BY <2>6, <5>1, <5>2
      <4>5. CASE b = c
        <5>1. e # c
          BY <4>3, <4>5
        <5> QED BY <2>6, <3>1, <4>5, <5>1
      <4>6. CASE b # c
        BY <2>4, <4>4, <4>6
      <4> QED BY <4>5, <4>6
    <3> QED BY <3>1, <3>2, <3>3, <3>4
  <2>7. CASE Kind(c) = "metaCalculation"
    <3>1. i \in ConsumeAll[c]
      BY <2>1, <2>2, <2>7 DEF ConsumedOf, Computed
    <3>2. lv[c] = "InsideComputation" /\ c \in Below[c]
      BY <2>2, <2>3, <2>7, KidLevel, BelowSelf
    <3> QED BY <2>3, <2>6, <3>1, <3>2
  <2>8. CASE Kind(c) = "metaIf"
    <3>1. i \in ConsumeAll[kids[c][1]]
      BY <2>1, <2>2, <2>8 DEF ConsumedOf, Computed
    <3>2. /\ kids[c][1] \in Nodes /\ 1 \in DOMAIN kids[c]
          /\ lv[kids[c][1]] = "InsideComputation"
      BY <2>3, <2>8, ConditionComputed
    <3>3. kids[c][1] \in Below[c]
      BY <2>3, <3>2, BelowSelf, BelowKids
    <3> QED BY <2>6, <2>8, <3>1, <3>2, <3>3
  <2> QED BY <2>5, <2>7, <2>8
<1>2. \A n \in Nodes : (\A k \in DOMAIN kids[n] : kids[n][k] \in B) => n \in B
  <2> HIDE DEF Found
  <2> QED BY <1>1
<1>3. B \in SUBSET Nodes
  OBVIOUS
<1> HIDE DEF B
<1>4. B = Nodes
  BY <1>2, <1>3, BottomUp
<1> QED BY <1>4 DEF B

\* And it finds all of it that no branch of a meta if contributes
LEMMA MetaFindsAll ==
  ASSUME NEW lv, TreeRead(lv), NEW i \in Instantiations, lv[i] = "InsideComputation",
         \A b \in Nodes : Kind(b) = "metaIf" /\ i \in Below[b] => i \in Below[kids[b][1]]
  PROVE  \A n \in Nodes :
           /\ Kind(n) \notin {"metaIf", "metaCalculation"}
           /\ lv[n] = "InsideMetaDecl" /\ i \in Below[n]
           => i \in ConsumeAllMeta[n]
<1> DEFINE B == {n \in Nodes : /\ Kind(n) \notin {"metaIf", "metaCalculation"}
                               /\ lv[n] = "InsideMetaDecl" /\ i \in Below[n]
                               => i \in ConsumeAllMeta[n]}
<1>1. ASSUME NEW n \in Nodes, \A k \in DOMAIN kids[n] : kids[n][k] \in B,
             Kind(n) \notin {"metaIf", "metaCalculation"},
             lv[n] = "InsideMetaDecl", i \in Below[n]
      PROVE  i \in ConsumeAllMeta[n]
  <2>1. Below[n] = {n} \cup UNION {Below[kids[n][k]] : k \in DOMAIN kids[n]}
    BY BelowEquation
  <2>2. PICK k \in DOMAIN kids[n] : i \in Below[kids[n][k]]
    BY <1>1, <2>1
  <2>3. PICK c : c = kids[n][k]
    OBVIOUS
  <2>4. c \in Nodes /\ c \in B
    BY <1>1, <2>3, KidLevel
  <2>5. i \in ConsumedOf(ConsumeAllMeta, c)
    <3>1. CASE Kind(c) = "metaIf"
      <4>1. kids[c][1] \in Nodes /\ i \in Below[kids[c][1]]
        BY <2>2, <2>3, <2>4, <3>1, ConditionComputed
      <4>2. i \in ConsumeAll[kids[c][1]]
        BY <4>1, ConsumesBelow
      <4> QED BY <3>1, <4>2 DEF ConsumedOf, Computed
    <3>2. CASE Kind(c) = "metaCalculation"
      <4>1. i \in ConsumeAll[c]
        BY <2>2, <2>3, <2>4, ConsumesBelow
      <4> QED BY <3>2, <4>1 DEF ConsumedOf, Computed
    <3>3. CASE Kind(c) \notin {"metaIf", "metaCalculation"}
      <4>1. Kind(n) # "meta" /\ lv[c] = "InsideMetaDecl"
        BY <1>1, <2>3, <3>3, KidLevel
      <4> QED BY <2>2, <2>3, <2>4, <3>3, <4>1 DEF ConsumedOf
    <3> QED BY <3>1, <3>2, <3>3
  <2> QED BY <2>3, <2>5, ConsumesMeta
<1>2. \A n \in Nodes : (\A k \in DOMAIN kids[n] : kids[n][k] \in B) => n \in B
  BY <1>1
<1>3. B \in SUBSET Nodes
  OBVIOUS
<1> HIDE DEF B
<1>4. B = Nodes
  BY <1>2, <1>3, BottomUp
<1> QED BY <1>4 DEF B

\* Below a function nothing is only contributed unless the function is, too: there
\* is no meta decl in it
LEMMA NotContributedBelow ==
  ASSUME NEW lv, TreeRead(lv), NEW n \in Nodes, Kind(n) = "function",
         lv[n] # "InsideMetaDecl", NEW x \in Below[n]
  PROVE  lv[x] # "InsideMetaDecl"
<1>1. CASE lv[n] = "InsideComputation"
  BY <1>1, ComputedBelow
<1>2. CASE lv[n] = "Outside"
  <2> DEFINE X == {y \in Nodes : /\ lv[y] = "Outside"
                                 /\ Kind(y) \notin {"meta", "contribution"} \cup UnitKinds}
  <2>1. \A p \in X : \A k \in DOMAIN kids[p] : kids[p][k] \in X
    <3> SUFFICES ASSUME NEW p \in X, NEW k \in DOMAIN kids[p], NEW c, c = kids[p][k]
                 PROVE  c \in X
      OBVIOUS
    <3>1. c \in Nodes /\ ChildFits(p, k, c)
      BY KidLevel
    <3>2. Kind(p) # "metaIf" /\ Kind(p) # "meta" /\ Kind(c) # "metaCalculation"
      BY KidLevel
    <3>3. lv[c] = "Outside"
      BY <3>2, KidLevel
    <3> QED BY <3>1, <3>2, <3>3 DEF ChildFits
  <2>2. X \in SUBSET Nodes /\ n \in X
    BY <1>2 DEF UnitKinds
  <2> HIDE DEF X
  <2>3. Below[n] \subseteq X
    BY <2>1, <2>2, BelowLeast
  <2> QED BY <2>3 DEF X
<1> QED BY <1>1, <1>2, TreeFacts DEF Levels

\* A meta decl is not inside of another one, and only arguments are below its first child
LEMMA MetaParts ==
  ASSUME NEW lv, TreeRead(lv), NEW n \in Nodes, Kind(n) = "meta"
  PROVE  /\ lv[n] = "Outside"
         /\ \A k \in DOMAIN kids[n] : kids[n][k] \in Nodes
         /\ \A k \in DOMAIN kids[n] : k = 1 =>
              \A x \in Below[kids[n][k]] : Kind(x) \in {"args", "arg"}
         /\ \A k \in DOMAIN kids[n] : k # 1 =>
              Kind(kids[n][k]) = "contribution" /\ lv[kids[n][k]] = "InsideMetaDecl"
<1>1. lv[n] = "Outside"
  <2>1. Complete(n) /\ kids[n] \in Seq(Nodes)
    BY TreeFacts, LayoutFacts DEF TreeRead, ReaderTypes
  <2>2. kids[n] # << >>
    BY <2>1 DEF Complete
  <2> QED BY <2>2, TreeFacts DEF LevelFits
<1>2. ASSUME NEW k \in DOMAIN kids[n], NEW c, c = kids[n][k], k = 1
      PROVE  \A x \in Below[c] : Kind(x) \in {"args", "arg"}
  <2> DEFINE X == {y \in Nodes : Kind(y) \in {"args", "arg"}}
  <2>1. \A p \in X : \A j \in DOMAIN kids[p] : kids[p][j] \in X
    <3> SUFFICES ASSUME NEW p \in X, NEW j \in DOMAIN kids[p], NEW d, d = kids[p][j]
                 PROVE  d \in X
      OBVIOUS
    <3>1. d \in Nodes /\ ChildFits(p, j, d)
      BY KidLevel
    <3> QED BY <3>1 DEF ChildFits
  <2>2. c \in X
    <3>1. c \in Nodes /\ ChildFits(n, k, c)
      BY <1>2, KidLevel
    <3> QED BY <1>2, <3>1 DEF ChildFits
  <2>3. X \in SUBSET Nodes
    OBVIOUS
  <2> HIDE DEF X
  <2>4. Below[c] \subseteq X
    BY <2>1, <2>2, <2>3, BelowLeast
  <2> QED BY <2>4 DEF X
<1>3. ASSUME NEW k \in DOMAIN kids[n], NEW c, c = kids[n][k]
      PROVE  c \in Nodes /\ (k # 1 => Kind(c) = "contribution" /\ lv[c] = "InsideMetaDecl")
  <2>1. c \in Nodes /\ ChildFits(n, k, c)
    BY <1>3, KidLevel
  <2>2. k # 1 => Kind(c) = "contribution"
    BY <2>1 DEF ChildFits
  <2> QED BY <1>3, <2>1, <2>2, KidLevel
<1> QED BY <1>1, <1>2, <1>3

\* The instantiations that DependencyAnalysis gives to a generator have a decl: what
\* it takes for computed is what the reader's modes resolved, for every tree that
\* is read without an error (DependencyAnalysis.cpp:39, BasicASTBuilder.cpp:143)
THEOREM DependenciesAlwaysResolved == CheckSpec => []DependenciesResolved
<1>1. ASSUME SemaInv, status = "read", errors = {}, NEW n \in Nodes,
             Kind(n) \in {"function", "meta"}, ~ContributedOnly(n), NEW i \in MetaInstantiationsOf(n)
      PROVE  Resolved(Callee(i)) /\ ~ContributedOnly(i)
  <2>1. PICK lv : TreeRead(lv)
    BY <1>1, TreeOfAnalysis
  <2>2. i \in Instantiations /\ lv[i] # "InsideMetaDecl"
    <3>1. CASE Kind(n) = "function"
      <4>1. i \in Instantiations \cap Below[n]
        BY <1>1, <2>1, <3>1, ConsumesBelow DEF MetaInstantiationsOf
      <4>2. lv[n] # "InsideMetaDecl"
        BY <1>1, <2>1, ContributedLevel
      <4> QED BY <2>1, <3>1, <4>1, <4>2, NotContributedBelow
    <3>2. CASE Kind(n) = "meta"
      <4>1. i \in ConsumeAllMeta[n]
        BY <1>1, <3>2 DEF MetaInstantiationsOf
      <4> QED BY <2>1, <3>2, <4>1, MetaFindsComputed
    <3> QED BY <1>1, <3>1, <3>2
  <2>3. i \in Nodes /\ Kind(i) = "instantiation"
    BY <2>2 DEF Instantiations
  <2>4. ~ContributedOnly(i)
    BY <2>1, <2>2, <2>3, ContributedLevel
  <2> QED BY <1>1, <2>1, <2>3, <2>4, ResolvedOutside
<1>2. ASSUME SemaInv, status = "read", NEW n \in Nodes, Kind(n) = "meta", NEW i
      PROVE  i \in MetaInstantiationsOf(n) <=>
               /\ i \in Instantiations \cap Below[n] /\ ~ContributedOnly(i)
               /\ \A b \in Nodes : Kind(b) = "metaIf" /\ i \in Below[b] => i \in Below[kids[b][1]]
  <2>1. PICK lv : TreeRead(lv)
    BY <1>2, TreeOfAnalysis
  <2>2. MetaInstantiationsOf(n) = ConsumeAllMeta[n]
    BY <1>2 DEF MetaInstantiationsOf
  <2>3. lv[n] = "Outside"
    BY <1>2, <2>1, MetaParts
  <2>4. ASSUME i \in ConsumeAllMeta[n]
        PROVE  /\ i \in Instantiations \cap Below[n] /\ ~ContributedOnly(i)
               /\ \A b \in Nodes : Kind(b) = "metaIf" /\ i \in Below[b] => i \in Below[kids[b][1]]
    <3>1. /\ i \in Instantiations \cap Below[n] /\ lv[i] = "InsideComputation"
          /\ \A b \in Nodes : Kind(b) = "metaIf" /\ i \in Below[b]
               => n \in Below[b] \/ i \in Below[kids[b][1]]
      BY <1>2, <2>1, <2>4, MetaFindsComputed
    <3>2. \A b \in Nodes : Kind(b) = "metaIf" => n \notin Below[b]
      <4> SUFFICES ASSUME NEW b \in Nodes, Kind(b) = "metaIf" PROVE n \notin Below[b]
        OBVIOUS
      <4>1. lv[b] # "Outside"
        BY <2>1, ConditionComputed
      <4> QED BY <2>1, <2>3, <4>1, InsideBelow
    <3>3. ~ContributedOnly(i)
      BY <2>1, <3>1, ContributedLevel DEF Instantiations
    <3> QED BY <3>1, <3>2, <3>3
  <2>5. ASSUME i \in Instantiations \cap Below[n], ~ContributedOnly(i),
               \A b \in Nodes : Kind(b) = "metaIf" /\ i \in Below[b] => i \in Below[kids[b][1]]
        PROVE  i \in ConsumeAllMeta[n]
    <3>1. i \in Nodes /\ Kind(i) = "instantiation"
      BY <2>5 DEF Instantiations
    <3>2. PICK k \in DOMAIN kids[n] : i \in Below[kids[n][k]]
      <4>1. Below[n] = {n} \cup UNION {Below[kids[n][k]] : k \in DOMAIN kids[n]}
        BY <1>2, <2>1, BelowEquation
      <4> QED BY <1>2, <2>5, <3>1, <4>1
    <3>3. PICK c : c = kids[n][k]
      OBVIOUS
    <3>4. k # 1
      BY <1>2, <2>1, <3>1, <3>2, MetaParts
    <3>5. c \in Nodes /\ Kind(c) = "contribution" /\ lv[c] = "InsideMetaDecl"
      BY <1>2, <2>1, <3>3, <3>4, MetaParts
    <3>6. lv[i] = "InsideComputation"
      <4>1. lv[i] # "Outside"
        BY <2>1, <3>2, <3>3, <3>5, InsideBelow
      <4>2. lv[i] # "InsideMetaDecl"
        BY <2>1, <2>5, <3>1, ContributedLevel
      <4> QED BY <2>1, <3>1, <4>1, <4>2, TreeFacts DEF Levels
    <3>7. i \in ConsumeAllMeta[c]
      BY <2>1, <2>5, <3>2, <3>3, <3>5, <3>6, MetaFindsAll
    <3>8. i \in ConsumedOf(ConsumeAllMeta, kids[n][k])
      BY <3>3, <3>5, <3>7 DEF ConsumedOf
    <3> QED BY <1>2, <2>1, <3>8, ConsumesMeta
  <2> QED BY <2>2, <2>4, <2>5
<1>3. SemaInv => DependenciesResolved
  <2> SUFFICES ASSUME SemaInv, status = "read", errors = {}, NEW n \in Nodes
               PROVE  /\ Kind(n) \in {"function", "meta"} /\ ~ContributedOnly(n) =>
                           \A i \in MetaInstantiationsOf(n) : Resolved(Callee(i)) /\ ~ContributedOnly(i)
                      /\ Kind(n) = "meta" =>
                           MetaInstantiationsOf(n) =
                             {i \in Instantiations \cap Below[n] :
                                /\ ~ContributedOnly(i)
                                /\ \A b \in Nodes : Kind(b) = "metaIf" /\ i \in Below[b]
                                     => i \in Below[kids[b][1]]}
    BY DEF DependenciesResolved
  <2>1. Kind(n) \in {"function", "meta"} /\ ~ContributedOnly(n) =>
          \A i \in MetaInstantiationsOf(n) : Resolved(Callee(i)) /\ ~ContributedOnly(i)
    BY <1>1
  <2>2. ASSUME Kind(n) = "meta"
        PROVE  \A i : i \in MetaInstantiationsOf(n) <=>
                 i \in {j \in Instantiations \cap Below[n] :
                          /\ ~ContributedOnly(j)
                          /\ \A b \in Nodes : Kind(b) = "metaIf" /\ j \in Below[b]
                               => j \in Below[kids[b][1]]}
    BY <1>2, <2>2
  <2> QED BY <2>1, <2>2
<1> QED BY <1>3, AnalysisAlways, PTL
=============================================================================
