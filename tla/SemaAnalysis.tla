---------------------------- MODULE SemaAnalysis ----------------------------
(***************************************************************************)
(* SemaAnalysis visits what ASTLayoutReader has read, if that was read     *)
(* without an error; what a meta decl contributes is instantiated only if  *)
(* the analysis of its unit found no error, and is analysed in turn.  The  *)
(* analysis takes the decl of a reference as the reader left it: in the    *)
(* parts of a meta decl that are only contributed there is none.           *)
(***************************************************************************)
EXTENDS ASTLayout

CONSTANT ReservedNames  \* the names no decl may have ("int")

ASSUME ReservedNamesAssumption == ReservedNames \subseteq Names

VARIABLES
  depth,      \* the nodes that are visited, and how many of its children each has visited
  diagnosed,  \* the diagnostics, but for the hints to a decl
  declaring,  \* the signatures of the decls of the enclosing unit
  verdict     \* "unchecked", "checking", "checked", or the assertion that failed

semaVars == <<depth, diagnosed, declaring, verdict>>
allVars  == <<vars, semaVars>>

Errors == {"ReturnsVoid", "FunctionArgCountMismatch", "CanOnlyCallFunctions",
           "FunctionNameReserved", "MetaNameReserved", "IntegralForMetaDecl",
           "InstantiatedNonMetaDecl", "InstantiationArgCountMismatch"}
Warnings == {"DidYouMeanEquals"}

Rejected == \E d \in diagnosed : d[1] \in Errors

(***************************************************************************)
(* What the analysis asks a decl for.                                      *)
(***************************************************************************)
SignatureOf(d) ==
  [kind  |-> Kind(d),
   args  |-> IF Kind(d) \in {"function", "meta"} THEN Len(kids[kids[d][1]]) ELSE 0,
   typed |-> Kind(d) = "function" /\ Len(kids[d]) = 3]

Resolved(r)  == r \in DOMAIN decl
Signature(r) == IF decl[r] = OuterDecl THEN declaring[Name(r)] ELSE SignatureOf(decl[r])

\* The first child of a call or of an instantiation, and the number of the others
Callee(n)   == kids[n][1]
Actual(n)   == Len(kids[n]) - 1
Callable(n) == Kind(Callee(n)) = "ref" /\ Resolved(Callee(n))

\* Mutant: the node itself is not counted
BehindOneMore(back) == depth[Len(depth) - back].node

\* behind, of the node that is about to be pushed
BehindVisited(back) == depth[Len(depth) + 1 - back].node

(***************************************************************************)
(* What the overloads of visit diagnose.                                   *)
(***************************************************************************)
Only(condition, diagnostic, n) == IF condition THEN {<<diagnostic, n>>} ELSE {}

DiagnosedCall(n) ==
  LET s == Signature(Callee(n))
      isFunction == s.kind = "function"
  IN IF ~Callable(n) THEN {}
     ELSE Only(isFunction /\ ~s.typed /\ Kind(BehindVisited(1)) # "expr", "ReturnsVoid", n)
            \cup Only(isFunction /\ Actual(n) # s.args, "FunctionArgCountMismatch", n)
            \cup Only(~isFunction, "CanOnlyCallFunctions", n)

DiagnosedIf(n) == Only(Kind(kids[n][1]) = "assign", "DidYouMeanEquals", n)

IsReserved(n) == Name(n) \in ReservedNames

\* The code asks for literals of integers, which all literals are here: that of a
\* boolean is diagnosed like any other expression
NoLiteral(n) == \E k \in 2 .. Len(kids[n]) : Kind(kids[n][k]) # "literal"
DiagnosedInstantiation(n) ==
  LET s == Signature(Callee(n))
  IN Only(NoLiteral(n), "IntegralForMetaDecl", n)
       \cup IF ~Resolved(Callee(n)) THEN {}
            ELSE Only(s.kind # "meta", "InstantiatedNonMetaDecl", n)
                   \cup Only(s.kind = "meta" /\ Actual(n) # s.args,
                             "InstantiationArgCountMismatch", n)

\* Mutant: the hint is skipped for what is no meta decl
VerdictNonNull(n) == IF ~Resolved(Callee(n)) THEN "nullDecl" ELSE verdict

\* The decl of an instantiation is dereferenced, and so is the meta decl for the
\* hint when it is none (SemaAnalysis.cpp:127, :135)
Dereferenced(n) ==
  IF ~Resolved(Callee(n)) THEN "nullDecl"
  ELSE IF Signature(Callee(n)).kind # "meta" THEN "nullMetaDecl" ELSE verdict

(***************************************************************************)
(* The visitor: accept pushes a node, diagnoses and visits the children.   *)
(***************************************************************************)
Checking == verdict = "checking"
Visited  == depth[Len(depth)]

\* Mutant: the node is put below those that are visited
PushedBelow(s, n) ==
  <<[node |-> n, visited |-> 0]>> \o [s EXCEPT ![Len(s)].visited = @ + 1]

Pushed(s, n) ==
  Append([s EXCEPT ![Len(s)].visited = @ + 1], [node |-> n, visited |-> 0])

\* The next child is one of these kinds, and visiting it diagnoses this
Accept(kinds, Diagnosed(_)) ==
  /\ Checking /\ depth # << >> /\ Visited.visited < Len(kids[Visited.node])
  /\ LET n == kids[Visited.node][Visited.visited + 1] IN
       /\ Kind(n) \in kinds
       /\ depth' = Pushed(depth, n)
       /\ diagnosed' = diagnosed \cup Diagnosed(n)
       /\ verdict' = IF Kind(n) = "instantiation" THEN Dereferenced(n) ELSE verdict
  /\ UNCHANGED <<vars, declaring>>

VisitCall          == Accept({"call"}, DiagnosedCall)
VisitIf            == Accept({"if"}, DiagnosedIf)
VisitFunction      == Accept({"function"},
                            LAMBDA n : Only(IsReserved(n), "FunctionNameReserved", n))
VisitMeta          == Accept({"meta"}, LAMBDA n : Only(IsReserved(n), "MetaNameReserved", n))
VisitInstantiation == Accept({"instantiation"}, DiagnosedInstantiation)
VisitOther ==
  Accept(Kinds \ {"call", "if", "function", "meta", "instantiation"}, LAMBDA n : {})

\* Mutant: visit pops the node, too
PoppedTwice(s) == SubSeq(s, 1, Len(s) - 2)

Popped(s) == SubSeq(s, 1, Len(s) - 1)

LeaveNode ==
  /\ Checking /\ depth # << >> /\ Visited.visited = Len(kids[Visited.node])
  /\ depth' = Popped(depth)
  /\ verdict' = IF Len(depth) = 1 THEN "checked" ELSE verdict
  /\ UNCHANGED <<vars, diagnosed, declaring>>

\* checkAST, behind canContinue
CheckAST ==
  /\ status = "read" /\ errors = {} /\ verdict = "unchecked"
  /\ verdict' = "checking"
  /\ depth' = <<[node |-> 1, visited |-> 0]>>
  /\ UNCHANGED <<vars, diagnosed, declaring>>

(***************************************************************************)
(* DependencyAnalysis: the instantiations it gives to its consumer.        *)
(***************************************************************************)
Consumed(n) == IF Kind(n) = "instantiation" THEN {n} ELSE {}

ConsumeAll[n \in Nodes] ==
  Consumed(n) \cup UNION {ConsumeAll[kids[n][k]] : k \in DOMAIN kids[n]}

\* Mutant: a meta if is consumed with what it contributes
ComputedWithBranches(n) == IF Kind(n) = "metaIf" THEN {kids[n][k] : k \in DOMAIN kids[n]} ELSE {n}

\* Of a meta if the condition, a meta calculation as a whole
Computed(n) == IF Kind(n) = "metaIf" THEN {kids[n][1]} ELSE {n}

\* consumeMeta: of everything else, what is computed below it
ConsumeAllMeta[n \in Nodes] ==
  UNION {LET c == kids[n][k] IN
         IF Kind(c) \in {"metaIf", "metaCalculation"}
         THEN UNION {ConsumeAll[e] : e \in Computed(c)}
         ELSE ConsumeAllMeta[c] : k \in DOMAIN kids[n]}

MetaInstantiationsOf(n) == IF Kind(n) = "function" THEN ConsumeAll[n] ELSE ConsumeAllMeta[n]

(***************************************************************************)
(* The specification: reading, analysing, and both again for a unit.       *)
(***************************************************************************)
CheckInit ==
  /\ Init
  /\ depth = << >> /\ diagnosed = {} /\ declaring = << >> /\ verdict = "unchecked"

Declaring ==
  LET named == {kids[1][k] : k \in DOMAIN kids[1]}
  IN [name \in {Name(d) : d \in named} |-> SignatureOf(CHOOSE d \in named : Name(d) = name)]

Accepting == verdict = "checked" /\ ~Rejected
InstantiateAccepted ==
  /\ Accepting
  /\ Instantiate
  /\ declaring' = Declaring
  /\ depth' = << >> /\ diagnosed' = {} /\ verdict' = "unchecked"

AnalysisEnded ==
  /\ ~Reading /\ status # "crawling"
  /\ status = "read" /\ errors = {} => ~Checking /\ verdict # "unchecked"
  /\ ~(Accepting /\ Instantiable)
  /\ UNCHANGED allVars

Analyse ==
  \/ CheckAST \/ VisitCall \/ VisitIf \/ VisitFunction \/ VisitMeta
  \/ VisitInstantiation \/ VisitOther \/ LeaveNode

CheckNext == (Read /\ UNCHANGED semaVars) \/ Analyse \/ InstantiateAccepted \/ AnalysisEnded

CheckSpec     == CheckInit /\ [][CheckNext]_allVars
FairCheckSpec == CheckSpec /\ WF_allVars(CheckNext)

(***************************************************************************)
(* Properties.                                                             *)
(***************************************************************************)
Verdicts == {"unchecked", "checking", "checked", "nullDecl", "nullMetaDecl"}

\* Every variable has its type, those of the reader included, and the root is
\* visited as long as anything is
SemaTypeOK ==
  /\ TypeOK
  /\ depth \in Seq([node : Nodes, visited : Nat])
  /\ diagnosed \subseteq (Errors \cup Warnings) \X Nodes
  /\ DOMAIN declaring = DOMAIN input.outer
  /\ verdict \in Verdicts
  /\ Checking => depth # << >>

\* The nodes that are visited are a path from the root of a tree that was read
\* without errors, so that behind(1) is there and is the parent of the node
\* (SemaAnalysis.cpp:161): a call is in depth only below the unit
DepthIsPath ==
  /\ depth # << >> => status = "read" /\ errors = {} /\ depth[1].node = 1
  /\ \A i \in 2 .. Len(depth) :
       depth[i].node = kids[depth[i - 1].node][depth[i - 1].visited]

Calls          == {n \in Nodes : Kind(n) = "call" /\ Callable(n)}
Instantiations == {n \in Nodes : Kind(n) = "instantiation"}
ErrorsAt(n)    == {d[1] : d \in {d \in diagnosed : d[2] = n}}

\* What the analysis accepts the generators can process: a call with a callee
\* that is resolved is one of a function, with as many arguments as that has, and
\* has a result unless it is a statement; an instantiation is one of a meta
\* decl, with as many literals.  And nothing else than what violates this is
\* rejected, wherever in the tree it is
AcceptsWhatFits ==
  verdict = "checked" =>
    /\ \A c \in Calls :
         LET s == Signature(Callee(c))
             fits == /\ s.kind = "function" /\ s.args = Actual(c)
                     /\ s.typed \/ Kind(Parent(c)) = "expr"
         IN fits <=> ErrorsAt(c) = {}
    /\ \A i \in Instantiations :
         LET s == Signature(Callee(i))
             fits == s.kind = "meta" /\ s.args = Actual(i) /\ ~NoLiteral(i)
         IN fits <=> ErrorsAt(i) = {}
    /\ \A d \in diagnosed :
         \/ d[2] \in Calls \cup Instantiations
         \/ d[1] = "DidYouMeanEquals" /\ Kind(d[2]) = "if"
         \/ IsReserved(d[2]) /\ Kind(d[2]) \in {"function", "meta"}
    /\ \A n \in Nodes : Kind(n) \in {"function", "meta"} /\ IsReserved(n) => ErrorsAt(n) # {}

\* The analysis ends in an assertion for the trees with an instantiation in a
\* part of a meta decl that is only contributed, or of what is no meta decl, and
\* for no others (SemaAnalysis.cpp:127, :135)
NullOnlyWhereUnresolved ==
  /\ verdict = "nullDecl" =>
       /\ Kind(Visited.node) = "instantiation" /\ ContributedOnly(Visited.node)
  /\ verdict = "nullMetaDecl" => Signature(Callee(Visited.node)).kind # "meta"
  /\ verdict = "checked" =>
       \A i \in Instantiations :
         ~ContributedOnly(i) /\ Signature(Callee(i)).kind = "meta"

\* The instantiations a generator is given have a decl, since the traversal of
\* DependencyAnalysis and the modes of the reader agree on what is computed and
\* what is contributed: of a meta decl, exactly those in meta blocks and
\* conditions are found that are not in the branch of a meta if
DependenciesResolved ==
  status = "read" /\ errors = {} =>
    \A n \in Nodes :
      /\ Kind(n) \in {"function", "meta"} /\ ~ContributedOnly(n) =>
           \A i \in MetaInstantiationsOf(n) : Resolved(Callee(i)) /\ ~ContributedOnly(i)
      /\ Kind(n) = "meta" =>
           MetaInstantiationsOf(n) =
             {i \in Instantiations \cap Below[n] :
                /\ ~ContributedOnly(i)
                /\ \A b \in Nodes : Kind(b) = "metaIf" /\ i \in Below[b]
                     => i \in Below[kids[b][1]]}

\* "Require the pointer to be non null!" (Nullable.hpp:38): the decl of an
\* instantiation is there when the analysis dereferences it
NoNullDereference == verdict # "nullDecl"
=============================================================================
