------------------------------ MODULE ASTLayout ------------------------------
(***************************************************************************)
(* ASTLayoutReader turns a flat layout back into a tree.  While it reads,  *)
(* BasicASTBuilder keeps the scopes and the meta depth the reader is in:   *)
(* decls are introduced into the current scope and references are resolved *)
(* through it, but not in the parts of a meta decl that are only           *)
(* contributed.  A node is the position of its entry in the layout, and    *)
(* the consume methods that are running are a stack of nodes.              *)
(***************************************************************************)
EXTENDS ASTKinds, Integers, Sequences, FiniteSets
INSTANCE SequencesExt

CONSTANTS
  Names,    \* the identifiers
  NoName,   \* the name of anonymous nodes
  Sources   \* the sources of which one is read, see SourceType

EntryKinds == Kinds \cup {"marker"}
Layouts    == Seq([kind : EntryKinds, name : Names \cup {NoName}]) \ {<< >>}

\* How many nodes with a reduce marker are open behind the k-th entry of a layout
Depth(l, k) ==
  Cardinality({j \in 1 .. k : RequiresReduceMarker(l[j].kind)})
    - Cardinality({j \in 1 .. k : l[j].kind = "marker"})

\* ASTLayoutWriter: a layout is one node, which ends where its own marker is; only
\* the root is a unit, and all decls but arguments have a name
WellWritten(l) ==
  /\ Depth(l, Len(l)) = 0 /\ \A k \in 1 .. Len(l) - 1 : Depth(l, k) > 0
  /\ \A k \in 2 .. Len(l) : l[k].kind \notin {"compilationUnit", "metaUnit"}
  /\ \A k \in 1 .. Len(l) :
       l[k].kind \in {"function", "meta", "constant", "decl"} => l[k].name # NoName

\* A source, and what the meta decls in it may contribute when one is instantiated
SourceType == [layout : Layouts, units : SUBSET [layout : Layouts, of : Names]]

\* What the reader gets: a layout, the decls of the enclosing unit (a kind for
\* each name), and the name of the meta decl that is instantiated
InputType ==
  [layout : Layouts,
   outer  : UNION {[ns -> {"function", "meta", "constant"}] : ns \in SUBSET Names},
   instantiated : Names \cup {NoName}]

ASSUME NamesAssumption   == NoName \notin Names
ASSUME SourcesAssumption ==
  \A s \in Sources :
    /\ s \in SourceType
    /\ WellWritten(s.layout) /\ \A u \in s.units : WellWritten(u.layout)

VARIABLES
  units,     \* what may still be instantiated
  input,     \* what is read
  pos,       \* the number of entries shifted
  stack,     \* the nodes that are consumed, the outermost first
  kids,      \* the children of each node
  decl,      \* the decl of each resolved reference; OuterDecl in the enclosing unit
  scopes,    \* the scopes entered
  crawl,     \* the position of the crawl through a unit
  modes,     \* the stack of meta depth levels
  exported,  \* the exported node of the unit
  exports,   \* the exported decls of each meta calculation
  errors,    \* the errors diagnosed
  status     \* "reading", "crawling", "read", or the assertion that failed

treeVars  == <<kids, decl>>
scopeVars == <<scopes, exports, errors>>
vars == <<units, input, pos, stack, crawl, treeVars, scopeVars, modes, exported, status>>

OuterDecl == 0
None      == -1
Failures  == {"pastEnd", "nullNode", "unexpectedKind", "noReduceMarker", "wrongMode"}

layout    == input.layout
Nodes     == {n \in DOMAIN layout : layout[n].kind # "marker"}
Kind(n)   == layout[n].kind
Name(n)   == layout[n].name

Reading   == status = "reading"
Top       == Last(stack)
PastEnd   == pos = Len(layout)
Entry     == layout[pos + 1]
ShouldReduce == ~PastEnd /\ Entry.kind = "marker"

(***************************************************************************)
(* The productions: the children a node needs, then those it may have.     *)
(***************************************************************************)
TopLevelKinds == {"metaUnit", "function", "meta", "constant"}
NamedKinds    == {"function", "meta", "constant", "decl", "arg"}
IsNamedDecl(n) == Kind(n) \in NamedKinds /\ Name(n) # NoName

Members(class) ==
  CASE class = "unit"     -> {"compilationUnit", "metaUnit"}
    [] class = "topLevel" -> TopLevelKinds
    [] class = "stmt"     -> StmtKinds
    [] class = "expr"     -> ExprKinds
    [] class = "constantExpr" -> {"literal"}
    [] class = "any"      -> Kinds
    [] OTHER              -> {class}

Production(required, optional, most) ==
  [required |-> required, optional |-> optional, most |-> Len(required) + most]
Exactly(required) == Production(required, "nothing", 0)
ManyOf(optional)  == Production(<< >>, optional, Len(layout))

\* Mutant: a named return type is not taken for a return type
HasAnonymousReturnType(n) ==
  CASE Len(kids[n]) = 1 -> ~PastEnd /\ Entry.kind = "arg" /\ Entry.name = NoName
    [] Len(kids[n]) > 1 -> Kind(kids[n][2]) = "arg"
    [] OTHER            -> FALSE

\* Whether a function has a return type shows in what follows its arguments
HasReturnType(n) ==
  CASE Len(kids[n]) = 1 -> ~PastEnd /\ Entry.kind = "arg"
    [] Len(kids[n]) > 1 -> Kind(kids[n][2]) = "arg"
    [] OTHER            -> FALSE

ProductionOf(n) ==
  CASE Kind(n) \in {"compilationUnit", "metaUnit"} -> ManyOf("topLevel")
    [] Kind(n) = "function" ->
         Exactly(IF HasReturnType(n) THEN <<"args", "arg", "stmt">> ELSE <<"args", "stmt">>)
    [] Kind(n) = "args"          -> ManyOf("arg")
    [] Kind(n) = "meta"          -> Exactly(<<"args", "contribution">>)
    [] Kind(n) = "constant"      -> Exactly(<<"constantExpr">>)
    [] Kind(n) = "contribution"  -> ManyOf("any")
    [] Kind(n) \in {"compound", "unscoped"} -> ManyOf("stmt")
    [] Kind(n) = "return"        -> Production(<< >>, "expr", 1)
    [] Kind(n) \in {"expr", "decl"} -> Exactly(<<"expr">>)
    [] Kind(n) = "if"            -> Production(<<"expr", "stmt">>, "stmt", 1)
    [] Kind(n) = "metaIf"        -> Production(<<"expr", "contribution">>, "contribution", 1)
    [] Kind(n) = "metaCalculation" -> Exactly(<<"stmt">>)
    [] Kind(n) \in {"binary", "assign"} -> Exactly(<<"expr", "expr">>)
    [] Kind(n) = "call"          -> Production(<<"expr">>, "expr", Len(layout))
    [] Kind(n) = "instantiation" -> Production(<<"ref">>, "expr", Len(layout))
    [] OTHER                     -> Exactly(<< >>)

\* What the consume method of the top node consumes next
Wanted ==
  IF stack = << >> THEN (IF pos = 0 THEN "unit" ELSE "nothing")
  ELSE LET p == ProductionOf(Top)
           k == Len(kids[Top])
       IN IF k < Len(p.required) THEN p.required[k + 1]
          ELSE IF k < p.most /\ ~ShouldReduce THEN p.optional
          ELSE "nothing"

Consumes(ks) ==
  /\ Reading /\ Wanted # "nothing" /\ ~PastEnd
  /\ Entry.kind \in ks \cap Members(Wanted)
Shift == pos' = pos + 1 /\ stack' = Append(stack, pos + 1)

(***************************************************************************)
(* The meta depth: a stack of levels, Outside when it is empty.            *)
(***************************************************************************)
Mode(ms) == IF ms = << >> THEN "Outside" ELSE Last(ms)
MayIntroduce == Mode(modes) # "InsideMetaDecl"
MayResolve   == Mode(modes) # "InsideMetaDecl"

EnterMode(required, level) ==
  /\ modes' = Append(modes, level)
  /\ status' = IF Mode(modes) = required THEN status ELSE "wrongMode"

(***************************************************************************)
(* The scopes.  An inplace scope passes everything on to its parent and    *)
(* tells the meta calculation that entered it what is inserted.            *)
(***************************************************************************)
Scope(kind, owner) == [kind |-> kind, owner |-> owner, names |-> << >>]
EnterScope(kind, owner) == scopes' = Append(scopes, Scope(kind, owner))

\* directLookup: the decl of that name in the chain of the scopes
Lookup(sc, name) ==
  LET holding == {i \in DOMAIN sc : name \in DOMAIN sc[i].names}
  IN IF holding # {} THEN sc[CHOOSE i \in holding : \A j \in holding : j <= i].names[name]
     ELSE IF name \in DOMAIN input.outer THEN OuterDecl
     ELSE None

\* The exported node of a meta unit may shadow the meta decl it instantiates
MayShadow(n, previous, exportedNode) ==
  /\ previous = OuterDecl /\ input.outer[Name(n)] = "meta"
  /\ Kind(n) \in TopLevelKinds
  /\ Name(n) = input.instantiated
  /\ n = exportedNode

\* A map behind insert: a key it has already keeps its value
Inserted(map, key, value) ==
  [k \in DOMAIN map \cup {key} |-> IF k \in DOMAIN map THEN map[k] ELSE value]

Insert(sc, n) ==
  LET allocated == {i \in DOMAIN sc : sc[i].kind # "inplace"}
      target    == CHOOSE i \in allocated : \A j \in allocated : j <= i
  IN [sc EXCEPT ![target].names = Inserted(@, Name(n), n)]

\* Mutant: the meta calculation is told of the decls of inner blocks, too
IntroduceTellingAll(s, n, exportedNode) ==
  LET previous == Lookup(s.scopes, Name(n))
      inplace  == {i \in DOMAIN s.scopes : s.scopes[i].kind = "inplace"}
  IN IF previous # None /\ ~MayShadow(n, previous, exportedNode)
     THEN [s EXCEPT !.errors = @ \cup {<<"declaredAlready", n>>}]
     ELSE [s EXCEPT !.scopes = Insert(@, n),
                    !.exports = [k \in DOMAIN @ |->
                                   IF \E i \in inplace : s.scopes[i].owner = k
                                   THEN Append(@[k], n) ELSE @[k]]]

\* An inplace scope tells its owner of a decl
Told(exportsOf, scope, n) ==
  IF scope.kind = "inplace"
  THEN [exportsOf EXCEPT ![scope.owner] = Append(@, n)] ELSE exportsOf

\* introduce, on a record of the scopes, the exported decls and the errors
Introduce(s, n, exportedNode) ==
  LET previous == Lookup(s.scopes, Name(n))
  IN IF previous # None /\ ~MayShadow(n, previous, exportedNode)
     THEN [s EXCEPT !.errors = @ \cup {<<"declaredAlready", n>>}]
     ELSE [s EXCEPT !.scopes = Insert(@, n), !.exports = Told(@, Last(s.scopes), n)]

Scoping == [scopes |-> scopes, exports |-> exports, errors |-> errors]
Becomes(s) == scopes' = s.scopes /\ exports' = s.exports /\ errors' = s.errors

(***************************************************************************)
(* The consume methods.                                                    *)
(***************************************************************************)
NothingOf(l) == [n \in DOMAIN l |-> << >>]

Init ==
  /\ \E s \in Sources :
       /\ units = s.units
       /\ input = [layout |-> s.layout, outer |-> << >>, instantiated |-> NoName]
  /\ pos = 0 /\ stack = << >> /\ crawl = None
  /\ kids = NothingOf(layout) /\ decl = << >>
  /\ scopes = << >> /\ modes = << >> /\ exported = None
  /\ exports = NothingOf(layout) /\ errors = {}
  /\ status = "reading"

\* Without errors, a meta decl of the unit is instantiated: another reader reads
\* what it contributes, inside of the scope of the unit that declares it
Instantiable == status = "read" /\ errors = {} /\ units # {}
UnitScope ==
  LET named == {kids[1][k] : k \in DOMAIN kids[1]}
  IN [name \in {Name(d) : d \in named} |-> Kind(CHOOSE d \in named : Name(d) = name)]
Instantiate ==
  /\ Instantiable
  /\ \E u \in units :
       /\ input' = [layout |-> u.layout, outer |-> UnitScope, instantiated |-> u.of]
       /\ kids' = NothingOf(u.layout) /\ exports' = NothingOf(u.layout)
  /\ units' = {}
  /\ pos' = 0 /\ decl' = << >> /\ crawl' = None /\ exported' = None
  /\ status' = "reading"
  /\ UNCHANGED <<stack, scopes, modes, errors>>

ConsumeUnit ==
  /\ Consumes({"compilationUnit", "metaUnit"})
  /\ EnterScope("consistent", pos + 1)
  /\ Shift
  /\ crawl' = pos + 2 /\ status' = "crawling"
  /\ UNCHANGED <<units, input, treeVars, exports, errors, modes, exported>>

ConsumeScoped ==
  /\ Consumes({"function", "meta", "compound"})
  /\ EnterScope("temporary", pos + 1)
  /\ Shift
  /\ UNCHANGED <<units, input, crawl, treeVars, exports, errors, modes, exported, status>>

ConsumeMetaIf ==
  /\ Consumes({"metaIf"})
  /\ EnterMode("InsideMetaDecl", "InsideComputation")
  /\ Shift
  /\ UNCHANGED <<units, input, crawl, treeVars, scopeVars, exported>>

ConsumeMetaCalculation ==
  /\ Consumes({"metaCalculation"})
  /\ EnterScope("inplace", pos + 1)
  /\ EnterMode("InsideMetaDecl", "InsideComputation")
  /\ Shift
  /\ UNCHANGED <<units, input, crawl, treeVars, exports, errors, exported>>

ConsumeArgument ==
  /\ Consumes({"arg"})
  /\ IF IsNamedDecl(pos + 1) /\ MayIntroduce
     THEN Becomes(Introduce(Scoping, pos + 1, exported)) ELSE UNCHANGED scopeVars
  /\ Shift
  /\ UNCHANGED <<units, input, crawl, treeVars, modes, exported, status>>

ConsumeDeclRef ==
  /\ Consumes({"ref"})
  /\ LET found == Lookup(scopes, Name(pos + 1)) IN
     /\ decl' = IF MayResolve /\ found # None THEN Inserted(decl, pos + 1, found) ELSE decl
     /\ errors' = IF MayResolve /\ found = None
                  THEN errors \cup {<<"unknown", pos + 1>>} ELSE errors
  /\ Shift
  /\ UNCHANGED <<units, input, crawl, kids, scopes, exports, modes, exported, status>>

(***************************************************************************)
(* introduceScope: the decls of a unit are introduced before it is read.   *)
(* crawlCurrentScope skips what is inside of nodes with a reduce marker.   *)
(***************************************************************************)
\* Mutant: the node is not shifted
NotBehind(n) == n

\* crawlExpand: the position behind n and what is inside of it
Behind(n) ==
  IF RequiresReduceMarker(Kind(n))
  THEN 1 + CHOOSE k \in n + 1 .. Len(layout) :
             /\ Depth(layout, k) = Depth(layout, n - 1)
             /\ \A j \in n .. k - 1 : Depth(layout, j) > Depth(layout, n - 1)
  ELSE n + 1

\* The exported node is set before it is introduced: it may shadow the meta decl
CrawlNode ==
  /\ status = "crawling" /\ Kind(crawl) # "marker"
  /\ LET node == IF IsNamedDecl(crawl) /\ Name(crawl) = input.instantiated
                 THEN crawl ELSE exported
     IN /\ exported' = node
        /\ IF IsNamedDecl(crawl) THEN Becomes(Introduce(Scoping, crawl, node))
           ELSE UNCHANGED scopeVars
  /\ crawl' = Behind(crawl)
  /\ UNCHANGED <<units, input, pos, stack, treeVars, modes, status>>

LeaveCrawl ==
  /\ status = "crawling" /\ Kind(crawl) = "marker"
  /\ status' = "reading"
  /\ UNCHANGED <<units, input, pos, stack, crawl, treeVars, scopeVars, modes, exported>>

\* The methods that only build the node
ConsumeOther ==
  /\ Consumes(Kinds \ {"compilationUnit", "metaUnit", "function", "meta", "compound",
                       "metaIf", "metaCalculation", "arg", "ref"})
  /\ Shift
  /\ UNCHANGED <<units, input, crawl, treeVars, scopeVars, modes, exported, status>>

\* There is no node, or one of a kind that is not expected
Reject ==
  /\ Reading /\ Wanted # "nothing"
  /\ PastEnd \/ Entry.kind \notin Members(Wanted)
  /\ status' = IF PastEnd THEN "pastEnd"
               ELSE IF ShouldReduce THEN "nullNode" ELSE "unexpectedKind"
  /\ UNCHANGED <<units, input, crawl, pos, stack, treeVars, scopeVars, modes, exported>>

(***************************************************************************)
(* A consume method returns: a variable is introduced behind its           *)
(* expression, modes and scopes are left, the marker is reduced, and the   *)
(* method that called it goes on with the child it got.                    *)
(***************************************************************************)
HoldsScope(kind) ==
  kind \in {"compilationUnit", "metaUnit", "function", "meta", "compound", "metaCalculation"}

\* Mutant: a child is set in front of the ones before it
WithFirstChild(parent, n) == [kids EXCEPT ![parent] = <<n>> \o @]

WithChild(parent, n) == [kids EXCEPT ![parent] = Append(@, n)]

\* Mutant: the computation mode is kept behind the condition of a meta if
ModesBehindArguments(parent, k, ms) ==
  IF Kind(parent) = "meta" /\ k = 1 THEN Append(ms, "InsideMetaDecl") ELSE ms

\* The modes behind the k-th child of a node
ModesBehind(parent, k, ms) ==
  CASE Kind(parent) = "meta" /\ k = 1   -> Append(ms, "InsideMetaDecl")
    [] Kind(parent) = "metaIf" /\ k = 1 -> Front(ms)
    [] OTHER -> ms

LeaveMode(kind, ms) == IF kind \in {"meta", "metaCalculation"} THEN Front(ms) ELSE ms

\* Mutant: the scope of a meta calculation is not left
LeaveAllocatedScope(kind, s) ==
  IF HoldsScope(kind) /\ kind # "metaCalculation" THEN [s EXCEPT !.scopes = Front(@)] ELSE s

LeaveScope(kind, s) == IF HoldsScope(kind) THEN [s EXCEPT !.scopes = Front(@)] ELSE s

Finished(n) ==
  LeaveScope(Kind(n), IF Kind(n) = "decl" /\ MayIntroduce
                      THEN Introduce(Scoping, n, exported) ELSE Scoping)

Finish ==
  /\ Reading /\ stack # << >> /\ Wanted = "nothing"
  /\ Becomes(Finished(Top))
  /\ stack' = Front(stack)
  /\ LET ms == LeaveMode(Kind(Top), modes)
         parent == Last(Front(stack))
     IN IF Len(stack) = 1
        THEN /\ modes' = ms /\ UNCHANGED kids
             /\ status' = IF RequiresReduceMarker(Kind(Top)) /\ ~ShouldReduce
                          THEN "noReduceMarker" ELSE "read"
        ELSE /\ kids' = WithChild(parent, Top)
             /\ modes' = ModesBehind(parent, Len(kids'[parent]), ms)
             /\ status' =
                  IF RequiresReduceMarker(Kind(Top)) /\ ~ShouldReduce THEN "noReduceMarker"
                  ELSE IF Kind(parent) = "meta" /\ Len(kids'[parent]) = 1 /\ Mode(ms) # "Outside"
                  THEN "wrongMode" ELSE status
  /\ pos' = IF RequiresReduceMarker(Kind(Top)) /\ ShouldReduce THEN pos + 1 ELSE pos
  /\ UNCHANGED <<units, input, crawl, decl, exported>>

\* Reading; SemaAnalysis is the specification that composes it with what follows
Read ==
  \/ ConsumeUnit \/ CrawlNode \/ LeaveCrawl
  \/ ConsumeScoped \/ ConsumeMetaIf \/ ConsumeMetaCalculation
  \/ ConsumeArgument \/ ConsumeDeclRef \/ ConsumeOther
  \/ Reject \/ Finish

(***************************************************************************)
(* What a layout means, told from the tree alone.                          *)
(***************************************************************************)
Parent(n) == CHOOSE p \in Nodes : \E k \in DOMAIN kids[p] : kids[p][k] = n
Below[n \in Nodes] == {n} \cup UNION {Below[kids[n][k]] : k \in DOMAIN kids[n]}
AtTopLevel(n) == n # 1 /\ Parent(n) = 1

\* Parts of a meta decl that are only contributed: what is in its block, but
\* neither in a meta calculation nor in the condition of a meta if
ContributedOnly(n) ==
  /\ \E c \in Nodes : Kind(c) = "contribution" /\ n \in Below[c]
  /\ \A c \in Nodes :
       /\ Kind(c) = "metaCalculation" => n \notin Below[c]
       /\ Kind(c) = "metaIf" => n \notin Below[kids[c][1]]

Declares(n) == IsNamedDecl(n) /\ ~ContributedOnly(n)

\* The units, functions, meta decls and compounds a decl is in: it can be seen
\* in the innermost one, there everywhere if it is a unit and otherwise behind it
Region(d) ==
  LET around == {s \in Nodes : HoldsScope(Kind(s)) /\ Kind(s) # "metaCalculation"
                                 /\ d \in Below[s] \ {s}}
  IN Below[CHOOSE s \in around : \A o \in around : o <= s]
SeenAt(d, n) ==
  /\ n \in Region(d)
  /\ AtTopLevel(d) \/ (d < n /\ n \notin Below[d])

\* A name may be declared once among the decls that are seen, except that the
\* meta decl that is instantiated may be declared anew at the top level
Exports(d) == AtTopLevel(d) /\ Name(d) = input.instantiated
Clashes(d, e) == Name(d) = Name(e) /\ SeenAt(e, d) /\ (AtTopLevel(d) => e < d)
Accepted[d \in Nodes] ==
  /\ Declares(d)
  /\ Name(d) \in DOMAIN input.outer => Exports(d) /\ input.outer[Name(d)] = "meta"
  /\ ~\E e \in Nodes \ {d} : Declares(e) /\ Clashes(d, e) /\ Accepted[e]

MeantBy(r) ==
  LET seen == {d \in Nodes : Name(d) = Name(r) /\ Accepted[d] /\ SeenAt(d, r)}
  IN IF seen # {} THEN seen
     ELSE IF Name(r) \in DOMAIN input.outer THEN {OuterDecl} ELSE {}

\* The layout of the tree below n
Written[n \in Nodes] ==
  LET below == FlattenSeq([k \in DOMAIN kids[n] |-> Written[kids[n][k]]])
  IN <<n>> \o below \o (IF RequiresReduceMarker(Kind(n)) THEN <<None>> ELSE << >>)

(***************************************************************************)
(* Properties.                                                             *)
(***************************************************************************)
Positions == DOMAIN layout

\* Every variable has its type
TypeOK ==
  /\ input \in InputType /\ pos \in 0 .. Len(layout)
  /\ stack \in Seq(Nodes) /\ kids \in [Positions -> Seq(Nodes)]
  /\ DOMAIN decl \subseteq Nodes /\ \A r \in DOMAIN decl : decl[r] \in Nodes \cup {OuterDecl}
  /\ \A i \in DOMAIN scopes :
       /\ scopes[i].kind \in {"consistent", "temporary", "inplace"} /\ scopes[i].owner \in Nodes
       /\ \A name \in DOMAIN scopes[i].names : name \in Names /\ scopes[i].names[name] \in Nodes
  /\ modes \in Seq({"InsideMetaDecl", "InsideComputation"})
  /\ exported \in Nodes \cup {None} /\ exports \in [Positions -> Seq(Nodes)]
  /\ errors \subseteq {"declaredAlready", "unknown"} \X Nodes
  /\ crawl \in Positions \cup {None}
  /\ status \in {"reading", "crawling", "read"} \cup Failures

\* Reading is the inverse of writing: written again, the tree is the layout
ReadsAsWritten ==
  status = "read" =>
    Written[1] = [k \in Positions |-> IF layout[k].kind = "marker" THEN None ELSE k]

\* How many of the i outermost methods that are running hold a scope
ScopesHeld(i) == Cardinality({j \in 1 .. i : HoldsScope(Kind(stack[j]))})

\* The scopes are those of the methods that are running, in their order, and no
\* scope and no meta depth is left over ("Ended with imbalanced scopes!",
\* BasicASTBuilder.cpp:27)
BuilderFollowsReader ==
  /\ Len(scopes) = ScopesHeld(Len(stack))
  /\ \A i \in DOMAIN stack :
       HoldsScope(Kind(stack[i])) => scopes[ScopesHeld(i)].owner = stack[i]
  /\ status = "read" => modes = << >>

\* References are resolved, and errors are reported, as the tree says: it does
\* not matter in which order the reader introduces decls and changes its modes
ScopedAsWritten ==
  status = "read" =>
    /\ \A r \in Nodes : Kind(r) = "ref" =>
         (IF r \in DOMAIN decl THEN {decl[r]} ELSE {})
           = (IF ContributedOnly(r) THEN {} ELSE MeantBy(r))
    /\ errors = {<<"declaredAlready", d>> : d \in {d \in Nodes : Declares(d) /\ ~Accepted[d]}}
                  \cup {<<"unknown", r>> : r \in {r \in Nodes :
                          Kind(r) = "ref" /\ ~ContributedOnly(r) /\ MeantBy(r) = {}}}

\* A meta calculation exports the variables of its own block, in their order,
\* and a unit the last top level decl with the name of the meta decl
ExportsAsWritten ==
  status = "read" =>
    /\ \A c \in Nodes : Kind(c) = "metaCalculation" =>
         exports[c] = SelectSeq(kids[kids[c][1]], LAMBDA d : Kind(d) = "decl" /\ Accepted[d])
    /\ exported = LET named == {d \in Nodes \ {1} : Exports(d)}
                  IN IF named = {} THEN None
                     ELSE CHOOSE d \in named : \A e \in named : e <= d

\* Every layout is read to its end
Terminates == <>[](status \notin {"reading", "crawling"})

\* assert(shouldReduce() && "Expected a reduce mark at the current position!")
\* (ASTLayout.cpp:79): behind the children of a node is its marker
ReducesAsExpected == status # "noReduceMarker"
===============================================================================
