---------------------------- MODULE LayoutProofs ----------------------------
(***************************************************************************)
(* ASTLayoutReader, for every set of names and every well written source:  *)
(* its variables have their types, the scopes and modes of BasicASTBuilder *)
(* follow its methods, and which references are resolved is decided by     *)
(* where they are in the tree, not by what was read before them.           *)
(***************************************************************************)
EXTENDS ASTLayout, SequenceTheorems, FiniteSetTheorems, RecursionProofs

(***************************************************************************)
(* The invariant.  lv is the level each node is read in: a function of the *)
(* tree, told by the edges from a node p to its k-th child c.              *)
(***************************************************************************)
Levels == {"Outside", "InsideMetaDecl", "InsideComputation"}
UnitKinds == {"compilationUnit", "metaUnit"}

\* The level in which the k-th child of p is consumed, and the one it is read in
LevelBefore(lv, p, k) ==
  IF Kind(p) = "metaIf" /\ k = 1 THEN "InsideComputation"
  ELSE IF Kind(p) = "meta" /\ k # 1 THEN "InsideMetaDecl" ELSE lv[p]
LevelOf(lv, p, k, c) ==
  IF Kind(c) = "metaCalculation" THEN "InsideComputation" ELSE LevelBefore(lv, p, k)

\* The stack of modes that belongs to a level
ModesOf(level) ==
  CASE level = "Outside"        -> << >>
    [] level = "InsideMetaDecl" -> <<"InsideMetaDecl">>
    [] OTHER                    -> <<"InsideMetaDecl", "InsideComputation">>

\* What the productions say of a child
ChildFits(p, k, c) ==
  /\ Kind(c) = "contribution" =>
       Kind(p) = "contribution" \/ (Kind(p) \in {"meta", "metaIf"} /\ k # 1)
  /\ Kind(p) = "meta" => k \in 1 .. 2 /\ Kind(c) = (IF k = 1 THEN "args" ELSE "contribution")
  /\ Kind(p) = "args" => Kind(c) = "arg"
  /\ Kind(p) \notin {"arg", "literal"}
  /\ Kind(p) = "constant" => Kind(c) = "literal"
  /\ Kind(p) \in ExprKinds \cup {"decl"} => Kind(c) \in ExprKinds
  /\ Kind(p) = "instantiation" /\ k = 1 => Kind(c) = "ref"
  /\ Kind(c) \in {"function", "meta", "constant"} => Kind(p) \in UnitKinds \cup {"contribution"}
  /\ Kind(p) \in UnitKinds => Kind(c) \in TopLevelKinds
  /\ Kind(c) \notin UnitKinds

Edge(lv, p, k, c) ==
  /\ p < c
  /\ ChildFits(p, k, c)
  /\ lv[c] = LevelOf(lv, p, k, c)
  /\ Kind(c) \in {"metaIf", "metaCalculation"} => LevelBefore(lv, p, k) = "InsideMetaDecl"

\* A node whose method has returned has the children its class needs
Complete(n) ==
  /\ Kind(n) \in {"meta", "metaIf"} => Len(kids[n]) >= 2
  /\ Kind(n) = "instantiation" => Len(kids[n]) >= 1

LevelFits(lv, n) ==
  /\ Kind(n) = "metaIf" => lv[n] = "InsideMetaDecl"
  /\ Kind(n) = "metaCalculation" => lv[n] = "InsideComputation"
  /\ Kind(n) = "contribution" => lv[n] # "Outside"
  /\ Kind(n) = "meta" /\ kids[n] # << >> => lv[n] = "Outside"

RefFits(lv, r) ==
  IF lv[r] = "InsideMetaDecl" THEN r \notin DOMAIN decl
  ELSE r \in DOMAIN decl \/ <<"unknown", r>> \in errors

NextLevel(lv) ==
  IF stack = << >> THEN "Outside" ELSE LevelBefore(lv, Top, Len(kids[Top]) + 1)

\* The methods that are running: each was called for the next child of the one
\* around it
StackOk(lv) ==
  /\ \A i \in DOMAIN stack : stack[i] <= pos
  /\ \A i, j \in DOMAIN stack : i < j => stack[i] < stack[j]
  /\ stack # << >> => stack[1] = 1
  /\ \A i \in 2 .. Len(stack) :
       Edge(lv, stack[i - 1], Len(kids[stack[i - 1]]) + 1, stack[i])
  /\ status = "reading" => (stack = << >> <=> pos = 0)
  /\ status = "read" => stack = << >> /\ pos = Len(layout)
  /\ status = "crawling" => stack = <<1>> /\ pos = 1
  /\ pos > 0 => Kind(1) \in UnitKinds

\* The tree: what has been consumed is running or a child of exactly one node
TreeOk(lv) ==
  /\ \A p \in Nodes : \A k \in DOMAIN kids[p] :
       /\ kids[p][k] <= pos /\ Edge(lv, p, k, kids[p][k]) /\ Complete(kids[p][k])
       /\ \A i \in DOMAIN stack : stack[i] # kids[p][k]
  /\ \A p, q \in Nodes : \A j \in DOMAIN kids[p], k \in DOMAIN kids[q] :
       kids[p][j] = kids[q][k] => p = q /\ j = k
  /\ \A n \in Nodes : n > pos => kids[n] = << >>
  /\ \A n \in Nodes : n <= pos =>
       \/ n = 1
       \/ \E i \in DOMAIN stack : stack[i] = n
       \/ \E p \in Nodes : \E k \in DOMAIN kids[p] : kids[p][k] = n

\* The modes are those of the level, and the references are resolved by it
LevelsOk(lv) ==
  /\ lv \in [Nodes -> Levels]
  /\ pos > 0 => lv[1] = "Outside"
  /\ modes = ModesOf(NextLevel(lv))
  /\ \A n \in Nodes : n <= pos => LevelFits(lv, n)
  /\ \A r \in Nodes : r <= pos /\ Kind(r) = "ref" => RefFits(lv, r)
  /\ \A r \in DOMAIN decl : r <= pos

\* The markers that are still to come are those of the methods that are running
Unreduced(i) == Cardinality({j \in 1 .. i : RequiresReduceMarker(Kind(stack[j]))})
MarkersOk ==
  /\ Depth(layout, pos) = Unreduced(Len(stack))
  /\ status = "crawling" => crawl \in 2 .. Len(layout) /\ Depth(layout, crawl - 1) = 1

RunningOk == \E lv : StackOk(lv) /\ TreeOk(lv) /\ LevelsOk(lv) /\ MarkersOk

(***************************************************************************)
(* Types.                                                                  *)
(***************************************************************************)
MapsOf(K, V) == UNION {[ks -> V] : ks \in SUBSET K}
NameMaps  == MapsOf(Names, Nodes)
DeclMaps  == MapsOf(Nodes, Nodes \cup {OuterDecl})
ScopeKinds == {"consistent", "temporary", "inplace"}
ScopeType == [kind : ScopeKinds, owner : Nodes, names : NameMaps]
ErrorType == {"declaredAlready", "unknown"} \X Nodes
ModeType  == {"InsideMetaDecl", "InsideComputation"}

InputOk ==
  /\ input \in InputType /\ WellWritten(layout)
  /\ \A u \in units : u \in [layout : Layouts, of : Names] /\ WellWritten(u.layout)
ScopingType ==
  [scopes : Seq(ScopeType), exports : [Positions -> Seq(Nodes)], errors : SUBSET ErrorType]
ReaderTypes ==
  /\ InputOk
  /\ pos \in 0 .. Len(layout) /\ stack \in Seq(Nodes)
  /\ kids \in [Positions -> Seq(Nodes)] /\ decl \in DeclMaps
  /\ Scoping \in ScopingType
  /\ modes \in Seq(ModeType) /\ exported \in Nodes \cup {None}
  /\ crawl \in Positions \cup {None}
  /\ status \in {"reading", "crawling", "read"} \cup Failures

\* The scopes are those of the methods that are running; the outermost is that of
\* the unit
ScopesOk ==
  /\ Len(scopes) = ScopesHeld(Len(stack))
  /\ \A i \in DOMAIN stack :
       HoldsScope(Kind(stack[i])) => scopes[ScopesHeld(i)].owner = stack[i]
  /\ stack # << >> => HoldsScope(Kind(stack[1]))
  /\ scopes # << >> => scopes[1].kind = "consistent"

ReaderInv == ReaderTypes /\ ScopesOk /\ (status \notin Failures => RunningOk)

(***************************************************************************)
(* Sequences.                                                              *)
(***************************************************************************)
\* What a sequence is behind push_back
LEMMA PushedSeq ==
  ASSUME NEW F, NEW b \in Seq(F), NEW e \in F
  PROVE  /\ Append(b, e) \in Seq(F) /\ Append(b, e) # << >>
         /\ Len(b) \in Nat /\ Len(Append(b, e)) = Len(b) + 1
         /\ Append(b, e)[Len(b) + 1] = e
         /\ \A i \in 1 .. Len(b) : Append(b, e)[i] = b[i]
  OBVIOUS

\* And behind pop_back
LEMMA FrontSeq ==
  ASSUME NEW F, NEW s \in Seq(F), s # << >>
  PROVE  /\ Front(s) \in Seq(F) /\ Len(Front(s)) = Len(s) - 1
         /\ Len(s) \in Nat \ {0} /\ Last(s) = s[Len(s)] /\ Last(s) \in F
         /\ \A i \in 1 .. Len(s) - 1 : Front(s)[i] = s[i]
<1>1. PICK n \in Nat : n = Len(s) /\ n >= 1
  OBVIOUS
<1>2. \A k \in 1 .. n : s[k] \in F
  BY <1>1
<1>3. /\ SubSeq(s, 1, n - 1) \in Seq(F)
      /\ Len(SubSeq(s, 1, n - 1)) = IF 1 <= n - 1 THEN (n - 1) - 1 + 1 ELSE 0
      /\ \A k \in 1 .. (n - 1) - 1 + 1 : SubSeq(s, 1, n - 1)[k] = s[1 + k - 1]
  <2>1. \A k \in 1 .. n - 1 : s[k] \in F
    BY <1>2
  <2> QED BY <1>1, <2>1, SubSeqProperties
<1>4. Front(s) = SubSeq(s, 1, n - 1)
  BY <1>1 DEF Front
<1>5. Len(Front(s)) = n - 1
  BY <1>1, <1>3, <1>4
<1>6. \A k \in 1 .. n - 1 : Front(s)[k] = s[k]
  BY <1>3, <1>4
<1>7. Last(s) = s[n] /\ s[n] \in F
  BY <1>1, <1>2 DEF Last
<1> QED
  BY <1>1, <1>3, <1>4, <1>5, <1>6, <1>7

\* The front of the empty sequence is empty, too
LEMMA FrontTyped == ASSUME NEW F, NEW s \in Seq(F) PROVE Front(s) \in Seq(F)
<1>1. CASE s = << >>
  <2>1. Front(s) = << >>
    BY <1>1 DEF Front
  <2> QED BY <2>1
<1>2. CASE s # << >>
  BY <1>2, FrontSeq
<1> QED BY <1>1, <1>2

\* Counting the positions up to n with a property, a set of positions here
Count(S, n) == Cardinality({j \in 1 .. n : j \in S})
\* No element is at most 0
LEMMA CountZero == ASSUME NEW S PROVE Count(S, 0) = 0
<1>1. {j \in 1 .. 0 : j \in S} = {}
  OBVIOUS
<1> QED BY <1>1, FS_EmptySet DEF Count

\* Counting goes up by one at an element
LEMMA CountStep ==
  ASSUME NEW S, NEW n \in Nat
  PROVE  /\ Count(S, 0) = 0 /\ Count(S, n) \in Nat
         /\ Count(S, n + 1) = Count(S, n) + (IF n + 1 \in S THEN 1 ELSE 0)
<1> DEFINE A == {j \in 1 .. n : j \in S}
           B == {j \in 1 .. n + 1 : j \in S}
<1>1. IsFiniteSet(A)
  <2>1. IsFiniteSet(1 .. n)
    BY FS_Interval
  <2>2. A \subseteq 1 .. n
    OBVIOUS
  <2> QED BY <2>1, <2>2, FS_Subset
<1>2. Cardinality(A) \in Nat
  BY <1>1, FS_CardinalityType
<1>3. CASE n + 1 \in S
  <2>1. B = A \cup {n + 1} /\ n + 1 \notin A
    BY <1>3
  <2>2. Cardinality(B) = Cardinality(A) + 1
    BY <1>1, <2>1, FS_AddElement
  <2> QED BY <2>2, <1>2, <1>3, CountZero DEF Count
<1>4. CASE n + 1 \notin S
  <2>1. B = A
    BY <1>4
  <2> QED BY <2>1, <1>2, <1>4, CountZero DEF Count
<1> QED BY <1>3, <1>4

\* Sets with the same elements up to n have the same count there
LEMMA CountSame ==
  ASSUME NEW S, NEW T, NEW n \in Nat, \A j \in 1 .. n : j \in S <=> j \in T
  PROVE  Count(S, n) = Count(T, n)
<1>1. {j \in 1 .. n : j \in S} = {j \in 1 .. n : j \in T}
  OBVIOUS
<1> QED BY <1>1 DEF Count

\* Counting is monotone
LEMMA CountOrder ==
  ASSUME NEW S, NEW i \in Nat, NEW n \in Nat, i <= n
  PROVE  Count(S, i) <= Count(S, n) /\ (i \in S /\ 0 < i => 0 < Count(S, i))
<1>1. IsFiniteSet({j \in 1 .. n : j \in S})
  <2>1. IsFiniteSet(1 .. n) /\ {j \in 1 .. n : j \in S} \subseteq 1 .. n
    BY FS_Interval
  <2> QED BY <2>1, FS_Subset
<1>2. {j \in 1 .. i : j \in S} \subseteq {j \in 1 .. n : j \in S}
  OBVIOUS
<1>3. Count(S, i) <= Count(S, n)
  BY <1>1, <1>2, FS_Subset DEF Count
<1>4. ASSUME i \in S, 0 < i PROVE 0 < Count(S, i)
  <2>1. PICK m \in Nat : i = m + 1
    <3>1. i - 1 \in Nat /\ i = (i - 1) + 1
      BY <1>4
    <3> QED BY <3>1
  <2> QED BY <2>1, <1>4, CountStep
<1> QED BY <1>3, <1>4

\* The greatest of some positions
LEMMA Greatest ==
  ASSUME NEW n \in Nat, NEW S \in SUBSET (1 .. n), S # {}
  PROVE  \E i \in S : \A j \in S : j <= i
<1> DEFINE T == {n - i : i \in S}
<1>1. T \in SUBSET Nat /\ T # {}
  <2>1. \A i \in 1 .. n : n - i \in Nat
    OBVIOUS
  <2>2. PICK i : i \in S
    OBVIOUS
  <2>3. n - i \in T
    BY <2>2
  <2>4. \A t \in T : t \in Nat
    BY <2>1
  <2> QED BY <2>3, <2>4
<1> HIDE DEF T
<1>2. PICK x \in T : \A y \in T : x <= y
  BY <1>1, NatMin
<1>3. PICK i \in S : x = n - i
  BY <1>2 DEF T
<1>4. ASSUME NEW j \in S PROVE j <= i
  <2>1. n - j \in T
    BY DEF T
  <2>2. n - i <= n - j
    BY <2>1, <1>2, <1>3
  <2> QED BY <2>2
<1> QED BY <1>4

(***************************************************************************)
(* Layouts.                                                                *)
(***************************************************************************)
Opening(l) == {j \in Nat : RequiresReduceMarker(l[j].kind)}
Closing(l) == {j \in Nat : l[j].kind = "marker"}

\* The depth of a layout is the opening entries less the closing ones
LEMMA DepthCounts ==
  ASSUME NEW l, NEW k \in Nat
  PROVE  Depth(l, k) = Count(Opening(l), k) - Count(Closing(l), k)
<1>1. {j \in 1 .. k : RequiresReduceMarker(l[j].kind)} = {j \in 1 .. k : j \in Opening(l)}
  BY DEF Opening
<1>2. {j \in 1 .. k : l[j].kind = "marker"} = {j \in 1 .. k : j \in Closing(l)}
  BY DEF Closing
<1> QED BY <1>1, <1>2 DEF Depth, Count

\* One entry opens a node, closes one, or is a node without a marker
LEMMA DepthStep ==
  ASSUME NEW l, NEW k \in Nat
  PROVE  /\ Depth(l, k) \in Int /\ Depth(l, 0) = 0
         /\ Depth(l, k + 1) =
              Depth(l, k) + (IF RequiresReduceMarker(l[k + 1].kind) THEN 1
                             ELSE IF l[k + 1].kind = "marker" THEN -1 ELSE 0)
<1>1. k + 1 \in Opening(l) <=> RequiresReduceMarker(l[k + 1].kind)
  BY DEF Opening
<1>2. k + 1 \in Closing(l) <=> l[k + 1].kind = "marker"
  BY DEF Closing
<1>3. l[k + 1].kind = "marker" => ~RequiresReduceMarker(l[k + 1].kind)
  BY DEF RequiresReduceMarker
<1>4. /\ Count(Opening(l), 0) = 0 /\ Count(Opening(l), k) \in Nat
      /\ Count(Opening(l), k + 1) = Count(Opening(l), k) + (IF k + 1 \in Opening(l) THEN 1 ELSE 0)
  BY CountStep
<1>5. /\ Count(Closing(l), 0) = 0 /\ Count(Closing(l), k) \in Nat
      /\ Count(Closing(l), k + 1) = Count(Closing(l), k) + (IF k + 1 \in Closing(l) THEN 1 ELSE 0)
  BY CountStep
<1>6. /\ Depth(l, k) = Count(Opening(l), k) - Count(Closing(l), k)
      /\ Depth(l, 0) = Count(Opening(l), 0) - Count(Closing(l), 0)
      /\ Depth(l, k + 1) = Count(Opening(l), k + 1) - Count(Closing(l), k + 1)
  BY DepthCounts
<1> QED BY <1>1, <1>2, <1>3, <1>4, <1>5, <1>6

\* The depth changes by one at a node with a reduce marker, and at a marker
LEMMA DepthBefore ==
  ASSUME NEW l, NEW k \in Nat \ {0}
  PROVE  /\ Depth(l, k) \in Int /\ Depth(l, k - 1) \in Int
         /\ Depth(l, k) =
              Depth(l, k - 1) + (IF RequiresReduceMarker(l[k].kind) THEN 1
                                 ELSE IF l[k].kind = "marker" THEN -1 ELSE 0)
<1>1. PICK m \in Nat : m = k - 1
  OBVIOUS
<1>2. k = m + 1 /\ m + 1 \in Nat
  BY <1>1
<1>3. Depth(l, m + 1) \in Int /\ Depth(l, m) \in Int
  BY <1>2, DepthStep
<1> QED BY <1>1, <1>2, <1>3, DepthStep

\* Behind a node that was opened there is the place where it is closed
LEMMA NodeCloses ==
  ASSUME NEW l, WellWritten(l), Len(l) \in Nat, NEW n \in 2 .. Len(l),
         RequiresReduceMarker(l[n].kind), Depth(l, n - 1) = 1
  PROVE  \E k \in n + 1 .. Len(l) :
           /\ Depth(l, k) = Depth(l, n - 1)
           /\ \A j \in n .. k - 1 : Depth(l, j) > Depth(l, n - 1)
<1> DEFINE T == {k \in n .. Len(l) : Depth(l, k) <= 1}
<1>1. Depth(l, n) = 2
  BY DepthBefore
<1>2. Depth(l, Len(l)) = 0 /\ Len(l) \in T
  BY DEF WellWritten
<1>3. T \in SUBSET Nat /\ T # {}
  BY <1>2
<1>4. PICK k \in T : \A y \in T : k <= y
  BY <1>3, NatMin
<1>5. k \in n + 1 .. Len(l)
  BY <1>1, <1>4
<1>6. \A j \in n .. k - 1 : Depth(l, j) > 1
  <2> TAKE j \in n .. k - 1
  <2>1. j \notin T /\ j \in n .. Len(l) /\ j \in Nat
    BY <1>4, <1>5
  <2> QED BY <2>1, DepthStep
<1>7. Depth(l, k) = 1
  <2>1. k \in Nat \ {0} /\ k - 1 \in n .. k - 1
    BY <1>5
  <2>2. Depth(l, k - 1) > 1 /\ Depth(l, k) <= 1
    BY <2>1, <1>4, <1>6
  <2>3. PICK d \in {-1, 0, 1} : Depth(l, k) = Depth(l, k - 1) + d
    BY <2>1, DepthBefore
  <2>4. Depth(l, k) \in Int /\ Depth(l, k - 1) \in Int
    BY <2>1, DepthBefore
  <2> HIDE DEF T
  <2> QED BY <2>2, <2>3, <2>4
<1> QED BY <1>5, <1>6, <1>7

\* The entries of what is read are nodes or markers
LEMMA LayoutFacts ==
  ASSUME InputOk
  PROVE  /\ Len(layout) \in Nat \ {0} /\ Positions = 1 .. Len(layout)
         /\ \A n \in Positions : Kind(n) \in EntryKinds /\ Name(n) \in Names \cup {NoName}
         /\ \A n \in Nodes : n \in Positions /\ Kind(n) \in Kinds
         /\ \A n \in Positions : n \in Nodes <=> Kind(n) # "marker"
<1>1. layout \in Seq([kind : EntryKinds, name : Names \cup {NoName}]) /\ layout # << >>
  BY DEF InputOk, InputType, Layouts, layout
<1>2. Len(layout) \in Nat \ {0} /\ Positions = 1 .. Len(layout)
  <2>1. PICK F : F = [kind : EntryKinds, name : Names \cup {NoName}]
    OBVIOUS
  <2>2. PICK l : l = layout
    OBVIOUS
  <2>3. l \in Seq(F) /\ l # << >>
    BY <1>1, <2>1, <2>2
  <2>4. Len(l) \in Nat \ {0} /\ DOMAIN l = 1 .. Len(l)
    BY <2>3
  <2> QED BY <2>2, <2>4 DEF Positions
<1>3. \A n \in Positions : layout[n] \in [kind : EntryKinds, name : Names \cup {NoName}]
  <2>1. PICK F : F = [kind : EntryKinds, name : Names \cup {NoName}]
    OBVIOUS
  <2>2. \A l \in Seq(F) : \A n \in DOMAIN l : l[n] \in F
    OBVIOUS
  <2> QED BY <1>1, <2>1, <2>2, Zenon DEF Positions
<1>4. \A n \in Nodes : n \in Positions /\ Kind(n) # "marker"
  BY DEF Nodes, Positions, Kind
<1>5. \A n \in Positions : Kind(n) \in EntryKinds /\ Name(n) \in Names \cup {NoName}
  BY <1>3 DEF Kind, Name
<1>6. \A n \in Positions : n \in Nodes <=> Kind(n) # "marker"
  BY DEF Nodes, Positions, Kind
<1> QED BY <1>2, <1>4, <1>5, <1>6, Zenon DEF EntryKinds

\* What is read is well written, the source and what is instantiated
LEMMA WellWrittenFacts ==
  ASSUME InputOk
  PROVE  /\ Depth(layout, Len(layout)) = 0
         /\ \A k \in 1 .. Len(layout) - 1 : Depth(layout, k) > 0
         /\ \A n \in 2 .. Len(layout) : Kind(n) \notin UnitKinds
         /\ \A n \in Nodes : Kind(n) \in {"function", "meta", "constant", "decl"} => Name(n) \in Names
<1>1. \A n \in 2 .. Len(layout) : Kind(n) \notin UnitKinds
  BY DEF InputOk, WellWritten, Kind, UnitKinds
<1>2. \A n \in 1 .. Len(layout) : Kind(n) \in {"function", "meta", "constant", "decl"} => Name(n) # NoName
  BY DEF InputOk, WellWritten, Kind, Name
<1>3. \A n \in Nodes : Kind(n) \in {"function", "meta", "constant", "decl"} => Name(n) \in Names
  BY <1>2, LayoutFacts
<1> QED BY <1>1, <1>3 DEF InputOk, WellWritten

\* What can be consumed next, for every class
WantedIn(kind, k) ==
  CASE kind \in UnitKinds       -> {"topLevel"}
    [] kind = "args"            -> {"arg"}
    [] kind = "meta"            -> IF k = 0 THEN {"args"} ELSE IF k = 1 THEN {"contribution"} ELSE {}
    [] kind = "contribution"    -> {"any"}
    [] kind = "metaIf"          -> IF k = 0 THEN {"expr"} ELSE {"contribution"}
    [] kind = "instantiation"   -> IF k = 0 THEN {"ref"} ELSE {"expr"}
    [] kind = "constant"        -> {"constantExpr"}
    [] kind \in {"arg", "literal", "ref"} -> {}
    [] kind \in {"call", "binary", "assign", "decl"} -> {"expr"}
    [] OTHER                    -> {"args", "arg", "stmt", "expr", "constantExpr"}

\* What is consumed next is told by the kind of the node and the number of its children
LEMMA WantedClass ==
  ASSUME ReaderTypes, stack # << >>, Wanted # "nothing"
  PROVE  Wanted \in WantedIn(Kind(Top), Len(kids[Top]))
<1>1. Top \in Nodes /\ Kind(Top) \in Kinds /\ Len(kids[Top]) \in Nat
  <2>1. Top \in Nodes
    BY FrontSeq DEF ReaderTypes, Top
  <2>2. Kind(Top) \in Kinds /\ Top \in Positions
    BY <2>1, LayoutFacts DEF ReaderTypes
  <2>3. kids[Top] \in Seq(Nodes)
    BY <2>2 DEF ReaderTypes
  <2> QED BY <2>1, <2>2, <2>3
<1>2. PICK n : n = Top
  OBVIOUS
<1>3. PICK k \in Nat : k = Len(kids[n])
  BY <1>1, <1>2
<1>4. PICK p : p = ProductionOf(n)
  OBVIOUS
<1>5. Wanted = IF k < Len(p.required) THEN p.required[k + 1]
               ELSE IF k < p.most /\ ~ShouldReduce THEN p.optional ELSE "nothing"
  BY <1>2, <1>3, <1>4 DEF Wanted
<1> SUFFICES Wanted \in WantedIn(Kind(n), k)
  BY <1>2, <1>3
<1> USE DEF WantedIn, UnitKinds, ProductionOf, ManyOf, Exactly, Production
<1>6. CASE Kind(n) \in UnitKinds
  BY <1>4, <1>5, <1>6
<1>7. CASE Kind(n) = "args"
  BY <1>4, <1>5, <1>7
<1>8. CASE Kind(n) = "meta"
  BY <1>4, <1>5, <1>8
<1>9. CASE Kind(n) = "contribution"
  BY <1>4, <1>5, <1>9
<1>10. CASE Kind(n) = "metaIf"
  BY <1>4, <1>5, <1>10
<1>11. CASE Kind(n) = "instantiation"
  BY <1>4, <1>5, <1>11
<1>12. CASE Kind(n) \in {"arg", "type", "literal", "ref"}
  BY <1>4, <1>5, <1>12
<1>13. CASE Kind(n) = "function"
  BY <1>4, <1>5, <1>13
<1>14. CASE Kind(n) \in {"compound", "unscoped", "constant", "return", "expr", "decl"}
  BY <1>4, <1>5, <1>14
<1>15. CASE Kind(n) \in {"if", "metaCalculation", "binary", "assign", "call"}
  BY <1>4, <1>5, <1>15
<1> QED
  BY <1>1, <1>2, <1>6, <1>7, <1>8, <1>9, <1>10, <1>11, <1>12, <1>13, <1>14, <1>15
  DEF Kinds, ExprKinds, StmtKinds, OtherKinds

\* Whatever is consumed is a node the production of the top node allows
LEMMA ConsumeFits ==
  ASSUME ReaderTypes, NEW ks \in SUBSET Kinds, Consumes(ks)
  PROVE  /\ status = "reading" /\ pos \in Nat /\ pos + 1 <= Len(layout)
         /\ pos + 1 \in Nodes /\ Kind(pos + 1) \in ks
         /\ stack = << >> => pos = 0 /\ Kind(pos + 1) \in UnitKinds
         /\ stack # << >> => Top \in Nodes /\ kids[Top] \in Seq(Nodes)
         /\ stack # << >> /\ pos # 0 => ChildFits(Top, Len(kids[Top]) + 1, pos + 1)
<1> USE DEF ReaderTypes
<1>0. PICK c : c = pos + 1
  OBVIOUS
<1>1. /\ status = "reading" /\ Kind(c) \in ks /\ Kind(c) \in Members(Wanted)
      /\ Wanted # "nothing" /\ pos # Len(layout)
  BY <1>0 DEF Consumes, Reading, PastEnd, Entry, Kind
<1>2. pos \in Nat /\ c \in 1 .. Len(layout)
  BY <1>0, <1>1, LayoutFacts
<1>3. c \in Nodes
  <2>1. "marker" \notin Kinds
    BY DEF Kinds, ExprKinds, StmtKinds, OtherKinds
  <2> QED BY <1>1, <1>2, <2>1, LayoutFacts
<1>4. ASSUME stack = << >> PROVE pos = 0 /\ Kind(c) \in UnitKinds
  <2>1. pos = 0 /\ Wanted = "unit"
    BY <1>1, <1>4 DEF Wanted
  <2> QED BY <1>1, <2>1 DEF Members, UnitKinds
<1>5. ASSUME stack # << >> PROVE Top \in Nodes /\ kids[Top] \in Seq(Nodes)
  BY <1>5, FrontSeq, LayoutFacts DEF Top
<1>6. ASSUME stack # << >>, pos # 0 PROVE ChildFits(Top, Len(kids[Top]) + 1, c)
  <2>1. Kind(c) \notin UnitKinds
    <3>1. c \in 2 .. Len(layout)
      BY <1>0, <1>2, <1>6
    <3> QED BY <3>1, WellWrittenFacts
  <2>2. Wanted \in WantedIn(Kind(Top), Len(kids[Top]))
    BY <1>1, <1>6, WantedClass
  <2>3. PICK w, p, k, n : w = Wanted /\ p = Kind(Top) /\ k = Len(kids[Top]) /\ n = Kind(c)
    OBVIOUS
  <2>4. k \in Nat /\ w \in WantedIn(p, k) /\ n \in Members(w) /\ n \notin UnitKinds
    BY <1>1, <1>5, <1>6, <2>1, <2>2, <2>3
  <2>5. /\ n = "contribution" => p = "contribution" \/ (p \in {"meta", "metaIf"} /\ k + 1 # 1)
        /\ p = "meta" => k + 1 \in 1 .. 2 /\ n = (IF k + 1 = 1 THEN "args" ELSE "contribution")
        /\ p = "args" => n = "arg"
        /\ p \notin {"arg", "literal"}
    BY <2>4 DEF WantedIn, Members, UnitKinds, TopLevelKinds, StmtKinds, ExprKinds
  <2>6. /\ p = "instantiation" /\ k + 1 = 1 => n = "ref"
        /\ n \in {"function", "meta", "constant"} => p \in UnitKinds \cup {"contribution"}
        /\ p \in UnitKinds => n \in TopLevelKinds
    BY <2>4 DEF WantedIn, Members, UnitKinds, TopLevelKinds, StmtKinds, ExprKinds
  <2>7. /\ p = "constant" => n = "literal"
        /\ p \in ExprKinds \cup {"decl"} => n \in ExprKinds
    BY <2>4 DEF WantedIn, Members, UnitKinds, TopLevelKinds, StmtKinds, ExprKinds
  <2> QED BY <2>1, <2>3, <2>5, <2>6, <2>7, Zenon DEF ChildFits
<1>7. pos + 1 <= Len(layout)
  BY <1>0, <1>2, LayoutFacts
<1> QED BY <1>0, <1>1, <1>2, <1>3, <1>4, <1>5, <1>6, <1>7, Zenon

(***************************************************************************)
(* What introduce does to the scopes.                                      *)
(***************************************************************************)
LEMMA InsertedMap ==
  ASSUME NEW K, NEW V, NEW m \in MapsOf(K, V), NEW k \in K, NEW v \in V
  PROVE  Inserted(m, k, v) \in MapsOf(K, V)
<1>1. PICK ns \in SUBSET K : m \in [ns -> V]
  BY DEF MapsOf
<1>2. Inserted(m, k, v) \in [ns \cup {k} -> V]
  BY <1>1 DEF Inserted
<1>3. ns \cup {k} \in SUBSET K
  OBVIOUS
<1> HIDE DEF Inserted
<1> QED BY <1>1, <1>2, <1>3 DEF MapsOf

\* A map holds what it held and the new key
LEMMA InsertedDomain ==
  ASSUME NEW m, NEW k, NEW v, NEW x
  PROVE  x \in DOMAIN Inserted(m, k, v) <=> x \in DOMAIN m \/ x = k
BY DEF Inserted

\* The scopes keep their number, owners and kinds
SameScopes(sc, t) ==
  /\ t \in Seq(ScopeType) /\ Len(t) = Len(sc)
  /\ \A i \in 1 .. Len(sc) : t[i].owner = sc[i].owner /\ t[i].kind = sc[i].kind

\* Inserting a decl keeps the kinds and owners of the scopes
LEMMA InsertKeepsScopes ==
  ASSUME NEW sc \in Seq(ScopeType), sc # << >>, sc[1].kind # "inplace",
         NEW n \in Nodes, Name(n) \in Names
  PROVE  SameScopes(sc, Insert(sc, n))
<1> DEFINE allocated == {i \in DOMAIN sc : sc[i].kind # "inplace"}
           target == CHOOSE i \in allocated : \A j \in allocated : j <= i
<1>1. PICK m \in Nat \ {0} : m = Len(sc) /\ DOMAIN sc = 1 .. m
  OBVIOUS
<1>2. target \in 1 .. m
  <2>1. allocated \in SUBSET (1 .. m) /\ 1 \in allocated
    BY <1>1
  <2>2. \E i \in allocated : \A j \in allocated : j <= i
    BY <2>1, Greatest
  <2> QED BY <2>1, <2>2
<1>3. PICK t \in 1 .. m : t = target
  BY <1>2
<1>4. \A i \in 1 .. m : sc[i] \in ScopeType
  BY <1>1
<1> DEFINE new == [sc[t] EXCEPT !.names = Inserted(@, Name(n), n)]
           r == [sc EXCEPT ![t] = new]
<1>5. Inserted(sc[t].names, Name(n), n) \in NameMaps
  <2>1. sc[t].names \in NameMaps
    BY <1>4 DEF ScopeType
  <2> QED BY <2>1, InsertedMap DEF NameMaps
<1>6. new \in ScopeType /\ new.owner = sc[t].owner /\ new.kind = sc[t].kind
  BY <1>4, <1>5 DEF ScopeType
<1>7. Insert(sc, n) = r
  BY <1>3 DEF Insert
<1> HIDE DEF new, target, allocated
<1>8. /\ DOMAIN r = 1 .. m /\ r[t] = new
      /\ \A i \in 1 .. m : i # t => r[i] = sc[i]
  BY <1>1, <1>3
<1> HIDE DEF r
<1>9. r \in Seq(ScopeType) /\ Len(r) = m
  <2>1. \A i \in 1 .. m : r[i] \in ScopeType
    BY <1>4, <1>6, <1>8
  <2>2. r = [i \in 1 .. m |-> r[i]]
    BY <1>8, <1>7 DEF Insert
  <2>3. r \in [1 .. m -> ScopeType]
    BY <2>1, <2>2
  <2> QED BY <2>3, <1>1
<1>10. \A i \in 1 .. m : r[i].owner = sc[i].owner /\ r[i].kind = sc[i].kind
  BY <1>6, <1>8
<1> QED BY <1>1, <1>7, <1>9, <1>10, Zenon DEF SameScopes

\* The scoping behind a change of its errors, or of its scopes and exports
LEMMA ErrorsBehind ==
  ASSUME NEW r \in ScopingType, NEW e
  PROVE  [r EXCEPT !.errors = e] = [scopes |-> r.scopes, exports |-> r.exports, errors |-> e]
<1>1. PICK A, B, C : ScopingType = [scopes : A, exports : B, errors : C]
  BY DEF ScopingType
<1>2. r \in [scopes : A, exports : B, errors : C]
  BY <1>1
<1> QED BY <1>2

\* The fields of the record behind introduce
LEMMA ScopesBehind ==
  ASSUME NEW r \in ScopingType, NEW a, NEW b
  PROVE  [r EXCEPT !.scopes = a, !.exports = b] =
           [scopes |-> a, exports |-> b, errors |-> r.errors]
<1>1. PICK A, B, C : ScopingType = [scopes : A, exports : B, errors : C]
  BY DEF ScopingType
<1>2. PICK q : q = [r EXCEPT !.scopes = a]
  OBVIOUS
<1>3. q = [scopes |-> a, exports |-> r.exports, errors |-> r.errors]
  <2>1. r \in [scopes : A, exports : B, errors : C]
    BY <1>1
  <2> QED BY <1>2, <2>1
<1>4. [q EXCEPT !.exports = b] = [scopes |-> a, exports |-> b, errors |-> r.errors]
  BY <1>3
<1>5. [r EXCEPT !.scopes = a, !.exports = b] = [q EXCEPT !.exports = b]
  BY <1>2, Zenon
<1> QED BY <1>4, <1>5, Zenon

\* Introducing a decl keeps the kinds and owners of the scopes, and no error is lost
LEMMA IntroduceKeepsScopes ==
  ASSUME NEW s \in ScopingType, s.scopes # << >>, s.scopes[1].kind # "inplace",
         NEW n \in Nodes, Name(n) \in Names, Nodes \subseteq Positions, NEW x
  PROVE  /\ Introduce(s, n, x) \in ScopingType
         /\ SameScopes(s.scopes, Introduce(s, n, x).scopes)
         /\ s.errors \subseteq Introduce(s, n, x).errors
<1>1. PICK sc, ex, er : s = [scopes |-> sc, exports |-> ex, errors |-> er]
                        /\ sc \in Seq(ScopeType) /\ ex \in [Positions -> Seq(Nodes)]
                        /\ er \in SUBSET ErrorType
  BY DEF ScopingType
<1>2. s.scopes = sc /\ s.exports = ex /\ s.errors = er
  BY <1>1
<1>3. SameScopes(sc, sc) /\ SameScopes(sc, Insert(sc, n))
  <2>1. SameScopes(sc, sc)
    BY <1>1 DEF SameScopes
  <2> QED BY <1>1, <1>2, <2>1, InsertKeepsScopes
<1> DEFINE current == Last(sc)
           told == Told(ex, current, n)
           refused == [s EXCEPT !.errors = er \cup {<<"declaredAlready", n>>}]
           inserted == [s EXCEPT !.scopes = Insert(sc, n), !.exports = told]
<1>4. told \in [Positions -> Seq(Nodes)]
  <2>1. current \in ScopeType
    BY <1>1, <1>2, FrontSeq
  <2>2. current.owner \in Positions
    BY <2>1 DEF ScopeType
  <2> HIDE DEF current
  <2>3. ex[current.owner] \in Seq(Nodes)
    BY <2>2, <1>1
  <2>4. Append(ex[current.owner], n) \in Seq(Nodes)
    BY <2>3, PushedSeq
  <2> QED BY <1>1, <2>2, <2>4 DEF Told
<1>5. Introduce(s, n, x) \in {refused, inserted}
  BY <1>2 DEF Introduce
<1> HIDE DEF told, current
<1>6. refused = [scopes |-> sc, exports |-> ex, errors |-> er \cup {<<"declaredAlready", n>>}]
  BY <1>2, ErrorsBehind, Zenon
<1>7. inserted = [scopes |-> Insert(sc, n), exports |-> told, errors |-> er]
  BY <1>2, ScopesBehind, Zenon
<1>8. <<"declaredAlready", n>> \in ErrorType
  BY DEF ErrorType
<1> HIDE DEF refused, inserted
<1>9. Insert(sc, n) \in Seq(ScopeType)
  BY <1>3 DEF SameScopes
<1>10. /\ refused \in ScopingType /\ refused.scopes = sc
       /\ er \subseteq refused.errors
  BY <1>1, <1>6, <1>8 DEF ScopingType
<1>11. /\ inserted \in ScopingType /\ inserted.scopes = Insert(sc, n)
       /\ er \subseteq inserted.errors
  BY <1>1, <1>4, <1>7, <1>9 DEF ScopingType
<1> QED BY <1>2, <1>3, <1>5, <1>10, <1>11, Zenon

\* The three variables of the scoping are those of its record
LEMMA BecomesScoping ==
  ASSUME NEW s \in ScopingType, Becomes(s)
  PROVE  Scoping' = s
<1>1. PICK sc, ex, er : s = [scopes |-> sc, exports |-> ex, errors |-> er]
  BY DEF ScopingType
<1> QED BY <1>1 DEF Becomes, Scoping

\* The record introduce works on
LEMMA ScopingFields ==
  /\ Scoping.scopes = scopes /\ Scoping.exports = exports /\ Scoping.errors = errors
  /\ Scoping \in ScopingType <=>
       /\ scopes \in Seq(ScopeType) /\ exports \in [Positions -> Seq(Nodes)]
       /\ errors \subseteq ErrorType
BY DEF Scoping, ScopingType

(***************************************************************************)
(* One step: what does not depend on more than the input.                  *)
(***************************************************************************)
LEMMA SameInput ==
  ASSUME input' = input
  PROVE  /\ layout' = layout /\ Nodes' = Nodes /\ Positions' = Positions
         /\ \A n : Kind(n)' = Kind(n) /\ Name(n)' = Name(n)
         /\ ScopeType' = ScopeType /\ ErrorType' = ErrorType /\ ScopingType' = ScopingType
         /\ DeclMaps' = DeclMaps /\ NameMaps' = NameMaps
<1>1. layout' = layout
  BY DEF layout
<1>2. \A n : Kind(n)' = Kind(n) /\ Name(n)' = Name(n)
  BY <1>1 DEF Kind, Name
<1>3. Nodes' = Nodes /\ Positions' = Positions
  BY <1>1 DEF Nodes, Positions
<1>4. ErrorType' = ErrorType /\ DeclMaps' = DeclMaps /\ NameMaps' = NameMaps
  BY <1>3 DEF ErrorType, DeclMaps, NameMaps, MapsOf
<1>5. ScopeType' = ScopeType
  BY <1>3, <1>4 DEF ScopeType
<1> QED BY <1>1, <1>2, <1>3, <1>4, <1>5 DEF ScopingType

\* What fits below a node depends on the layout only
LEMMA SameEdges ==
  ASSUME input' = input
  PROVE  \A lv, p, k, c :
           /\ LevelBefore(lv, p, k)' = LevelBefore(lv, p, k)
           /\ LevelOf(lv, p, k, c)' = LevelOf(lv, p, k, c)
           /\ ChildFits(p, k, c)' <=> ChildFits(p, k, c)
           /\ Edge(lv, p, k, c)' <=> Edge(lv, p, k, c)
<1>1. \A n : Kind(n)' = Kind(n)
  BY SameInput
<1>2. \A lv, p, k : LevelBefore(lv, p, k)' = LevelBefore(lv, p, k)
  BY <1>1 DEF LevelBefore
<1>3. \A lv, p, k, c : LevelOf(lv, p, k, c)' = LevelOf(lv, p, k, c)
  BY <1>1, <1>2 DEF LevelOf
<1>4. \A p, k, c : ChildFits(p, k, c)' <=> ChildFits(p, k, c)
  BY <1>1 DEF ChildFits
<1>5. \A lv, p, k, c : Edge(lv, p, k, c)' <=> Edge(lv, p, k, c)
  BY <1>1, <1>2, <1>3, <1>4 DEF Edge
<1> QED BY <1>2, <1>3, <1>4, <1>5

(***************************************************************************)
(* The scopes and the markers of the methods that are running.             *)
(***************************************************************************)
HeldIn(s)   == {j \in Nat : HoldsScope(Kind(s[j]))}
MarkedIn(s) == {j \in Nat : RequiresReduceMarker(Kind(s[j]))}

\* The methods that hold a scope or wait for a marker, as counts
LEMMA HeldCounts ==
  ASSUME input' = input
  PROVE  \A i \in Nat :
           /\ ScopesHeld(i) = Count(HeldIn(stack), i) /\ Unreduced(i) = Count(MarkedIn(stack), i)
           /\ ScopesHeld(i)' = Count(HeldIn(stack'), i)
           /\ Unreduced(i)' = Count(MarkedIn(stack'), i)
<1> TAKE i \in Nat
<1>1. /\ {j \in 1 .. i : HoldsScope(Kind(stack[j]))} = {j \in 1 .. i : j \in HeldIn(stack)}
      /\ {j \in 1 .. i : RequiresReduceMarker(Kind(stack[j]))} = {j \in 1 .. i : j \in MarkedIn(stack)}
  BY DEF HeldIn, MarkedIn
<1>2. \A j : Kind(stack[j])' = Kind(stack'[j])
  BY DEF Kind, layout
<1>3. /\ {j \in 1 .. i : HoldsScope(Kind(stack[j])')} = {j \in 1 .. i : j \in HeldIn(stack')}
      /\ {j \in 1 .. i : RequiresReduceMarker(Kind(stack[j])')} = {j \in 1 .. i : j \in MarkedIn(stack')}
  BY <1>2 DEF HeldIn, MarkedIn
<1> QED BY <1>1, <1>3 DEF ScopesHeld, Unreduced, Count

\* s is t with one method more on top, which is that of c
OneMore(t, s, c) ==
  /\ Len(t) \in Nat /\ Len(s) = Len(t) + 1 /\ s[Len(t) + 1] = c
  /\ \A i \in 1 .. Len(t) : s[i] = t[i]

Held(kind)   == IF HoldsScope(kind) THEN 1 ELSE 0
Marked(kind) == IF RequiresReduceMarker(kind) THEN 1 ELSE 0

\* One more method counts for itself and for none of the others
LEMMA OneMoreCounts ==
  ASSUME NEW s, NEW t, NEW c, OneMore(t, s, c)
  PROVE  /\ \A i \in 0 .. Len(t) : /\ Count(HeldIn(s), i) = Count(HeldIn(t), i)
                                   /\ Count(MarkedIn(s), i) = Count(MarkedIn(t), i)
         /\ Count(HeldIn(s), Len(t) + 1) = Count(HeldIn(t), Len(t)) + Held(Kind(c))
         /\ Count(MarkedIn(s), Len(t) + 1) = Count(MarkedIn(t), Len(t)) + Marked(Kind(c))
         /\ Count(HeldIn(t), Len(t)) \in Nat /\ Count(MarkedIn(t), Len(t)) \in Nat
<1>1. PICK n \in Nat : n = Len(t)
  BY DEF OneMore
<1>3. \A j \in 1 .. n : (j \in HeldIn(s) <=> j \in HeldIn(t)) /\ (j \in MarkedIn(s) <=> j \in MarkedIn(t))
  BY <1>1 DEF HeldIn, MarkedIn, OneMore
<1>4. ASSUME NEW i \in 0 .. n
      PROVE  Count(HeldIn(s), i) = Count(HeldIn(t), i) /\ Count(MarkedIn(s), i) = Count(MarkedIn(t), i)
  <2>1. i \in Nat /\ \A j \in 1 .. i : j \in 1 .. n
    OBVIOUS
  <2>2. Count(HeldIn(s), i) = Count(HeldIn(t), i)
    BY <1>3, <2>1, CountSame
  <2>3. Count(MarkedIn(s), i) = Count(MarkedIn(t), i)
    BY <1>3, <2>1, CountSame
  <2> QED BY <2>2, <2>3
<1>5. /\ n + 1 \in HeldIn(s) <=> HoldsScope(Kind(c))
      /\ n + 1 \in MarkedIn(s) <=> RequiresReduceMarker(Kind(c))
  BY <1>1 DEF HeldIn, MarkedIn, OneMore
<1>6. /\ Count(HeldIn(s), n) \in Nat /\ Count(HeldIn(s), n + 1) = Count(HeldIn(s), n) + Held(Kind(c))
      /\ Count(MarkedIn(s), n) \in Nat /\ Count(MarkedIn(s), n + 1) = Count(MarkedIn(s), n) + Marked(Kind(c))
  BY <1>5, CountStep DEF Held, Marked
<1>7. n \in 0 .. n
  OBVIOUS
<1>8. Count(HeldIn(s), n) = Count(HeldIn(t), n) /\ Count(MarkedIn(s), n) = Count(MarkedIn(t), n)
  BY <1>4, <1>7
<1>9. /\ Count(HeldIn(t), n) \in Nat /\ Count(MarkedIn(t), n) \in Nat
      /\ Count(HeldIn(s), n + 1) = Count(HeldIn(t), n) + Held(Kind(c))
      /\ Count(MarkedIn(s), n + 1) = Count(MarkedIn(t), n) + Marked(Kind(c))
  BY <1>6, <1>8
<1> QED BY <1>1, <1>4, <1>9

\* What a method adds when it is called
LEMMA PushedCounts ==
  ASSUME NEW c, OneMore(stack, stack', c), input' = input, NEW n, n = Len(stack)
  PROVE  /\ \A i \in 0 .. n : ScopesHeld(i)' = ScopesHeld(i)
         /\ ScopesHeld(n + 1)' = ScopesHeld(n) + Held(Kind(c)) /\ ScopesHeld(n) \in Nat
         /\ Unreduced(n + 1)' = Unreduced(n) + Marked(Kind(c)) /\ Unreduced(n) \in Nat
<1>1. n \in Nat /\ n + 1 \in Nat /\ \A i \in 0 .. n : i \in Nat
  BY DEF OneMore
<1>2. PICK s, t : s = stack' /\ t = stack
  OBVIOUS
<1>3. OneMore(t, s, c) /\ n = Len(t)
  BY <1>2
<1>4. \A i \in Nat :
           /\ ScopesHeld(i) = Count(HeldIn(t), i) /\ Unreduced(i) = Count(MarkedIn(t), i)
           /\ ScopesHeld(i)' = Count(HeldIn(s), i) /\ Unreduced(i)' = Count(MarkedIn(s), i)
  BY <1>2, HeldCounts
<1>6. /\ \A i \in 0 .. n : Count(HeldIn(s), i) = Count(HeldIn(t), i)
      /\ Count(HeldIn(s), n + 1) = Count(HeldIn(t), n) + Held(Kind(c))
      /\ Count(MarkedIn(s), n + 1) = Count(MarkedIn(t), n) + Marked(Kind(c))
      /\ Count(HeldIn(t), n) \in Nat /\ Count(MarkedIn(t), n) \in Nat
  BY <1>3, OneMoreCounts
<1>8. ASSUME NEW i \in 0 .. n PROVE ScopesHeld(i)' = ScopesHeld(i)
  <2>1. i \in Nat
    BY <1>1
  <2>2. ScopesHeld(i) = Count(HeldIn(t), i) /\ ScopesHeld(i)' = Count(HeldIn(s), i)
    BY <2>1, <1>4, Zenon
  <2> QED BY <2>2, <1>6
<1>9. /\ ScopesHeld(n + 1)' = ScopesHeld(n) + Held(Kind(c)) /\ ScopesHeld(n) \in Nat
      /\ Unreduced(n + 1)' = Unreduced(n) + Marked(Kind(c)) /\ Unreduced(n) \in Nat
  BY <1>1, <1>4, <1>6, Zenon
<1> QED BY <1>8, <1>9, Zenon

\* What a method adds, seen when it returns
LEMMA PoppedCounts ==
  ASSUME NEW c, OneMore(stack', stack, c), input' = input, NEW n, n = Len(stack')
  PROVE  /\ \A i \in 0 .. n : ScopesHeld(i)' = ScopesHeld(i)
         /\ ScopesHeld(n + 1) = ScopesHeld(n)' + Held(Kind(c)) /\ ScopesHeld(n)' \in Nat
         /\ Unreduced(n + 1) = Unreduced(n)' + Marked(Kind(c)) /\ Unreduced(n)' \in Nat
<1>1. n \in Nat /\ n + 1 \in Nat /\ \A i \in 0 .. n : i \in Nat
  BY DEF OneMore
<1>2. PICK s, t : s = stack' /\ t = stack
  OBVIOUS
<1>3. OneMore(s, t, c) /\ n = Len(s)
  BY <1>2
<1>4. \A i \in Nat :
           /\ ScopesHeld(i) = Count(HeldIn(t), i) /\ Unreduced(i) = Count(MarkedIn(t), i)
           /\ ScopesHeld(i)' = Count(HeldIn(s), i) /\ Unreduced(i)' = Count(MarkedIn(s), i)
  BY <1>2, HeldCounts
<1>6. /\ \A i \in 0 .. n : Count(HeldIn(t), i) = Count(HeldIn(s), i)
      /\ Count(HeldIn(t), n + 1) = Count(HeldIn(s), n) + Held(Kind(c))
      /\ Count(MarkedIn(t), n + 1) = Count(MarkedIn(s), n) + Marked(Kind(c))
      /\ Count(HeldIn(s), n) \in Nat /\ Count(MarkedIn(s), n) \in Nat
  BY <1>3, OneMoreCounts
<1>8. ASSUME NEW i \in 0 .. n PROVE ScopesHeld(i)' = ScopesHeld(i)
  <2>1. i \in Nat
    BY <1>1
  <2>2. ScopesHeld(i) = Count(HeldIn(t), i) /\ ScopesHeld(i)' = Count(HeldIn(s), i)
    BY <2>1, <1>4, Zenon
  <2> QED BY <2>2, <1>6
<1>9. /\ ScopesHeld(n + 1) = ScopesHeld(n)' + Held(Kind(c)) /\ ScopesHeld(n)' \in Nat
      /\ Unreduced(n + 1) = Unreduced(n)' + Marked(Kind(c)) /\ Unreduced(n)' \in Nat
  BY <1>1, <1>4, <1>6, Zenon
<1> QED BY <1>8, <1>9, Zenon

\* The method that holds a scope finds it at its own position
LEMMA HeldIndex ==
  ASSUME input' = input, NEW n \in Nat, NEW i \in 1 .. n, HoldsScope(Kind(stack[i]))
  PROVE  ScopesHeld(i) \in 1 .. ScopesHeld(n) /\ ScopesHeld(n) \in Nat
<1>1. ScopesHeld(i) = Count(HeldIn(stack), i) /\ ScopesHeld(n) = Count(HeldIn(stack), n)
  BY HeldCounts
<1>2. i \in HeldIn(stack) /\ i \in Nat /\ 0 < i /\ i <= n
  BY DEF HeldIn
<1>3. /\ Count(HeldIn(stack), i) <= Count(HeldIn(stack), n)
      /\ 0 < Count(HeldIn(stack), i)
  BY <1>2, CountOrder
<1>4. Count(HeldIn(stack), i) \in Nat /\ Count(HeldIn(stack), n) \in Nat
  BY <1>2, CountStep
<1> QED BY <1>1, <1>3, <1>4

\* A method is called: it enters a scope, or it changes at most those that are there
Entered(c) ==
  \E kind \in ScopeKinds : /\ scopes' = Append(scopes, Scope(kind, c))
                           /\ stack = << >> => kind = "consistent"
\* A method that enters a scope, or keeps those there are, leaves one scope per holder
LEMMA ScopesPushed ==
  ASSUME ScopesOk, scopes \in Seq(ScopeType), stack \in Seq(Nodes), stack' \in Seq(Nodes),
         input' = input, NEW c \in Nodes, OneMore(stack, stack', c),
         stack = << >> => HoldsScope(Kind(c)),
         IF HoldsScope(Kind(c)) THEN Entered(c) ELSE SameScopes(scopes, scopes')
  PROVE  ScopesOk' /\ scopes' \in Seq(ScopeType)
<1>1. PICK n \in Nat : n = Len(stack) /\ DOMAIN stack = 1 .. n /\ Len(stack') = n + 1
                       /\ DOMAIN stack' = 1 .. n + 1
  BY DEF OneMore
<1>2. PICK h \in Nat : h = ScopesHeld(n) /\ Len(scopes) = h
  BY <1>1, PushedCounts DEF ScopesOk
<1>3. /\ \A i \in 0 .. n : ScopesHeld(i)' = ScopesHeld(i)
      /\ ScopesHeld(n + 1)' = h + Held(Kind(c))
  BY <1>1, <1>2, PushedCounts
<1>4. \A j : Kind(j)' = Kind(j)
  BY SameInput
<1>5. stack'[n + 1] = c /\ \A i \in 1 .. n : stack'[i] = stack[i]
  BY <1>1 DEF OneMore
<1>6. /\ scopes' \in Seq(ScopeType) /\ Len(scopes') = h + Held(Kind(c))
      /\ \A i \in 1 .. h : scopes'[i].owner = scopes[i].owner /\ scopes'[i].kind = scopes[i].kind
      /\ HoldsScope(Kind(c)) => scopes'[h + 1].owner = c
      /\ stack = << >> => scopes'[h + 1].kind = "consistent"
  <2>1. CASE HoldsScope(Kind(c))
    <3>1. PICK kind \in ScopeKinds : scopes' = Append(scopes, Scope(kind, c))
                                     /\ (stack = << >> => kind = "consistent")
      BY <2>1 DEF Entered
    <3>2. PICK e : e = Scope(kind, c)
      OBVIOUS
    <3>3. e \in ScopeType /\ e.owner = c /\ e.kind = kind
      <4>1. << >> \in NameMaps
        <5>1. << >> \in [{} -> Nodes]
          OBVIOUS
        <5> QED BY <5>1 DEF NameMaps, MapsOf
      <4> QED BY <3>2, <4>1 DEF Scope, ScopeType
    <3>4. /\ scopes' \in Seq(ScopeType) /\ Len(scopes') = h + 1 /\ scopes'[h + 1] = e
          /\ \A i \in 1 .. h : scopes'[i] = scopes[i]
      BY <1>2, <3>1, <3>2, <3>3, PushedSeq
    <3>5. Held(Kind(c)) = 1
      BY <2>1 DEF Held
    <3> QED BY <2>1, <3>1, <3>3, <3>4, <3>5
  <2>2. CASE ~HoldsScope(Kind(c))
    <3>1. Held(Kind(c)) = 0 /\ SameScopes(scopes, scopes') /\ stack # << >>
      BY <2>2 DEF Held
    <3> QED BY <1>2, <2>2, <3>1 DEF SameScopes
  <2> QED BY <2>1, <2>2
<1>7. Len(scopes') = ScopesHeld(n + 1)'
  BY <1>3, <1>6
<1>8. ASSUME NEW i \in 1 .. n + 1, HoldsScope(Kind(stack'[i]))
      PROVE  scopes'[ScopesHeld(i)'].owner = stack'[i]
  <2>1. CASE i = n + 1
    <3>1. HoldsScope(Kind(c)) /\ Held(Kind(c)) = 1
      BY <1>5, <1>8, <2>1 DEF Held
    <3> QED BY <1>3, <1>5, <1>6, <2>1, <3>1
  <2>2. CASE i # n + 1
    <3>1. i \in 1 .. n /\ i \in 0 .. n /\ stack'[i] = stack[i]
      BY <1>5, <2>2
    <3>2. ScopesHeld(i) \in 1 .. h
      BY <1>2, <1>8, <3>1, HeldIndex
    <3>3. scopes[ScopesHeld(i)].owner = stack[i]
      BY <1>1, <1>8, <3>1 DEF ScopesOk
    <3> QED BY <1>3, <1>6, <3>1, <3>2, <3>3
  <2> QED BY <2>1, <2>2
<1>9. HoldsScope(Kind(stack'[1]))
  <2>1. CASE stack = << >>
    <3>1. n + 1 = 1
      BY <1>1, <2>1
    <3> QED BY <1>5, <2>1, <3>1
  <2>2. CASE stack # << >>
    <3>1. 1 \in 1 .. n
      BY <1>1, <2>2
    <3> QED BY <1>5, <2>2, <3>1 DEF ScopesOk
  <2> QED BY <2>1, <2>2
<1>10. scopes'[1].kind = "consistent"
  <2>1. CASE stack = << >>
    <3>1. n = 0
      BY <1>1, <2>1
    <3>2. ScopesHeld(0) = 0
      BY HeldCounts, CountZero
    <3>3. h = 0
      BY <3>1, <3>2, <1>2
    <3> QED BY <1>6, <2>1, <3>3
  <2>2. CASE stack # << >>
    <3>1. 1 \in 1 .. n /\ HoldsScope(Kind(stack[1]))
      BY <1>1, <2>2 DEF ScopesOk
    <3>2. ScopesHeld(1) \in 1 .. h
      BY <3>1, <1>2, HeldIndex
    <3>3. 1 \in 1 .. h /\ scopes # << >>
      BY <3>2, <1>2
    <3> QED BY <1>6, <3>3 DEF ScopesOk
  <2> QED BY <2>1, <2>2
<1>11. \A i \in 1 .. n + 1 : HoldsScope(Kind(stack'[i])) <=> HoldsScope(Kind(stack[i])')
  BY DEF Kind, layout
<1>12. /\ Len(stack)' = n + 1 /\ DOMAIN stack' = 1 .. n + 1
       /\ Len(scopes)' = ScopesHeld(n + 1)'
  BY <1>1, <1>7
<1>13. ScopesHeld(Len(stack))' = ScopesHeld(n + 1)'
  BY <1>12 DEF ScopesHeld
<1> QED BY <1>4, <1>6, <1>8, <1>9, <1>10, <1>12, <1>13 DEF ScopesOk

\* A method returns and leaves its scope
LEMMA ScopesPopped ==
  ASSUME ScopesOk, scopes \in Seq(ScopeType), stack \in Seq(Nodes), stack # << >>,
         input' = input, stack' = Front(stack), NEW t, SameScopes(scopes, t),
         scopes' = IF HoldsScope(Kind(Top)) THEN Front(t) ELSE t
  PROVE  ScopesOk' /\ scopes' \in Seq(ScopeType)
<1>1. PICK n \in Nat : /\ Len(stack) = n + 1 /\ DOMAIN stack = 1 .. n + 1
                       /\ Len(stack') = n /\ DOMAIN stack' = 1 .. n
                       /\ Top = stack[n + 1] /\ \A i \in 1 .. n : stack'[i] = stack[i]
  <2>1. /\ stack' \in Seq(Nodes) /\ Len(stack') = Len(stack) - 1
        /\ Len(stack) \in Nat \ {0} /\ Top = stack[Len(stack)]
        /\ \A i \in 1 .. Len(stack) - 1 : stack'[i] = stack[i]
    BY FrontSeq DEF Top
  <2>2. PICK n \in Nat : n = Len(stack) - 1
    BY <2>1
  <2> QED BY <2>1, <2>2
<1>2. OneMore(stack', stack, Top)
  BY <1>1 DEF OneMore
<1>3. /\ \A i \in 0 .. n : ScopesHeld(i)' = ScopesHeld(i)
      /\ ScopesHeld(n + 1) = ScopesHeld(n)' + Held(Kind(Top)) /\ ScopesHeld(n)' \in Nat
  BY <1>1, <1>2, PoppedCounts
<1>4. PICK h \in Nat : h = ScopesHeld(n)' /\ Len(scopes) = h + Held(Kind(Top))
                       /\ h = ScopesHeld(n)
  <2>1. Len(scopes) = ScopesHeld(n + 1) /\ n \in 0 .. n
    BY <1>1 DEF ScopesOk
  <2> QED BY <2>1, <1>3
<1>5. /\ t \in Seq(ScopeType) /\ Len(t) = h + Held(Kind(Top))
      /\ \A i \in 1 .. Len(t) : t[i].owner = scopes[i].owner /\ t[i].kind = scopes[i].kind
  BY <1>4 DEF SameScopes
<1>6. /\ scopes' \in Seq(ScopeType) /\ Len(scopes') = h
      /\ \A i \in 1 .. h : scopes'[i].owner = scopes[i].owner /\ scopes'[i].kind = scopes[i].kind
  <2>1. CASE HoldsScope(Kind(Top))
    <3>1. Held(Kind(Top)) = 1 /\ scopes' = Front(t)
      BY <2>1 DEF Held
    <3>2. t # << >> /\ Len(t) = h + 1
      BY <3>1, <1>5
    <3>3. /\ Front(t) \in Seq(ScopeType) /\ Len(Front(t)) = Len(t) - 1
          /\ \A i \in 1 .. Len(t) - 1 : Front(t)[i] = t[i]
      BY <1>5, <3>2, FrontSeq
    <3> QED BY <3>1, <3>2, <3>3, <1>5
  <2>2. CASE ~HoldsScope(Kind(Top))
    <3>1. Held(Kind(Top)) = 0 /\ scopes' = t
      BY <2>2 DEF Held
    <3> QED BY <3>1, <1>5
  <2> QED BY <2>1, <2>2
<1>7. ASSUME NEW i \in 1 .. n, HoldsScope(Kind(stack'[i]))
      PROVE  scopes'[ScopesHeld(i)'].owner = stack'[i]
  <2>1. stack'[i] = stack[i] /\ i \in 1 .. n + 1 /\ i \in 0 .. n
    BY <1>1
  <2>2. ScopesHeld(i) \in 1 .. h
    BY <1>4, <1>7, <2>1, HeldIndex
  <2>3. scopes[ScopesHeld(i)].owner = stack[i]
    BY <1>1, <1>7, <2>1 DEF ScopesOk
  <2> QED BY <1>3, <1>6, <2>1, <2>2, <2>3
<1>8. stack' # << >> => HoldsScope(Kind(stack'[1]))
  <2>1. stack' # << >> => 1 \in 1 .. n
    BY <1>1
  <2> QED BY <2>1, <1>1 DEF ScopesOk
<1>9. scopes' # << >> => scopes'[1].kind = "consistent"
  <2>1. scopes' # << >> => 1 \in 1 .. h /\ scopes # << >>
    BY <1>4, <1>6 DEF Held
  <2> QED BY <2>1, <1>6 DEF ScopesOk
<1>10. \A j : Kind(j)' = Kind(j)
  BY SameInput
<1>11. Len(stack)' = n /\ Len(scopes)' = ScopesHeld(n)'
  BY <1>1, <1>4, <1>6
<1>12. ScopesHeld(Len(stack))' = ScopesHeld(n)'
  BY <1>11 DEF ScopesHeld
<1> QED BY <1>1, <1>6, <1>7, <1>8, <1>9, <1>10, <1>11, <1>12 DEF ScopesOk

\* Decls are introduced while the same methods are running
LEMMA ScopesStay ==
  ASSUME ScopesOk, scopes \in Seq(ScopeType), stack \in Seq(Nodes), input' = input,
         stack' = stack, SameScopes(scopes, scopes')
  PROVE  ScopesOk' /\ scopes' \in Seq(ScopeType)
<1>1. PICK n \in Nat : n = Len(stack) /\ DOMAIN stack = 1 .. n
  OBVIOUS
<1>2. \A i : ScopesHeld(i)' = ScopesHeld(i)
  BY DEF ScopesHeld, Kind, layout
<1>3. \A j : Kind(j)' = Kind(j)
  BY SameInput
<1>4. n \in Nat /\ Len(scopes) = ScopesHeld(n)
  BY <1>1 DEF ScopesOk
<1>5. ASSUME NEW i \in 1 .. n, HoldsScope(Kind(stack[i]))
      PROVE  scopes'[ScopesHeld(i)].owner = stack[i]
  <2>1. ScopesHeld(i) \in 1 .. Len(scopes)
    BY <1>4, <1>5, HeldIndex
  <2>2. scopes[ScopesHeld(i)].owner = stack[i]
    BY <1>1, <1>5 DEF ScopesOk
  <2> QED BY <2>1, <2>2 DEF SameScopes
<1>6. scopes' # << >> => 1 \in 1 .. Len(scopes) /\ scopes # << >>
  BY DEF SameScopes
<1>7. scopes' # << >> => scopes'[1].kind = "consistent"
  BY <1>6 DEF ScopesOk, SameScopes
<1>8. ScopesHeld(Len(stack))' = ScopesHeld(n)
  BY <1>1, <1>2
<1>9. scopes' \in Seq(ScopeType) /\ Len(scopes') = Len(scopes)
  BY DEF SameScopes
<1> QED BY <1>1, <1>2, <1>3, <1>4, <1>5, <1>7, <1>8, <1>9 DEF ScopesOk

(***************************************************************************)
(* A consume method is called.                                             *)
(***************************************************************************)
Running(lv) == StackOk(lv) /\ TreeOk(lv) /\ LevelsOk(lv) /\ MarkersOk

\* The levels behind the call: the node that is shifted gets its own
Called(lv, c) == [lv EXCEPT ![c] = LevelOf(lv, Top, Len(kids[Top]) + 1, c)]

\* The next entry is the node of a method the top one calls
CallStep(lv, c) ==
  /\ ReaderTypes /\ Running(lv) /\ status = "reading" /\ stack # << >>
  /\ c = pos + 1 /\ c \in Nodes /\ ChildFits(Top, Len(kids[Top]) + 1, c)
  /\ Kind(c) \in {"metaIf", "metaCalculation"} => NextLevel(lv) = "InsideMetaDecl"

\* Where the reader is when a method is called
LEMMA CallFacts ==
  ASSUME NEW lv, NEW c, CallStep(lv, c)
  PROVE  /\ pos \in Nat \ {0} /\ c \in Nat /\ pos < c
         /\ Top \in Nodes /\ Top <= pos /\ Top \in Nat /\ Len(stack) \in Nat \ {0}
         /\ Top = stack[Len(stack)] /\ DOMAIN stack = 1 .. Len(stack)
         /\ Nodes \subseteq Nat \ {0} /\ \A p \in Nodes : kids[p] \in Seq(Nodes)
         /\ \A i \in 1 .. Len(stack) : stack[i] \in Nodes /\ stack[i] <= pos
<1> USE DEF CallStep, Running
<1>1. /\ Nodes \subseteq Nat \ {0} /\ \A p \in Nodes : p \in Positions
      /\ Positions = 1 .. Len(layout)
  BY LayoutFacts DEF ReaderTypes
<1>2. \A p \in Nodes : kids[p] \in Seq(Nodes)
  BY <1>1 DEF ReaderTypes
<1>0. stack \in Seq(Nodes) /\ stack # << >>
  BY DEF ReaderTypes
<1>3. Len(stack) \in Nat \ {0} /\ Top = stack[Len(stack)] /\ DOMAIN stack = 1 .. Len(stack)
  <2>1. Last(stack) = stack[Len(stack)]
    BY <1>0, FrontSeq
  <2> QED BY <1>0, <2>1 DEF Top
<1>4. \A i \in 1 .. Len(stack) : stack[i] \in Nodes /\ stack[i] <= pos
  BY <1>0, <1>3 DEF StackOk
<1>5. pos \in Nat
  BY LayoutFacts DEF ReaderTypes
<1>6. Top \in Nodes /\ Top <= pos
  BY <1>3, <1>4
<1> QED BY <1>1, <1>2, <1>3, <1>4, <1>5, <1>6

\* The level of a node is added when it is consumed, no other one changes
LEMMA CalledLevels ==
  ASSUME NEW lv, NEW c, CallStep(lv, c)
  PROVE  /\ Called(lv, c) \in [Nodes -> Levels]
         /\ \A n \in Nodes : n <= pos => Called(lv, c)[n] = lv[n]
         /\ Called(lv, c)[c] = LevelOf(lv, Top, Len(kids[Top]) + 1, c)
         /\ Called(lv, c)[c] \in Levels
<1>1. lv \in [Nodes -> Levels] /\ c \in Nodes /\ Top \in Nodes
  BY CallFacts DEF CallStep, Running, LevelsOk
<1>2. LevelOf(lv, Top, Len(kids[Top]) + 1, c) \in Levels
  BY <1>1 DEF LevelOf, LevelBefore, Levels
<1>3. \A n \in Nodes : n <= pos => n # c
  BY CallFacts
<1> QED BY <1>1, <1>2, <1>3 DEF Called

\* Edges stay, and the new node is an edge below its caller
LEMMA CalledEdges ==
  ASSUME NEW lv, NEW c, CallStep(lv, c), NEW w, w = Called(lv, c)
  PROVE  /\ \A p, q \in Nodes : \A k : p <= pos /\ q <= pos /\ Edge(lv, p, k, q) => Edge(w, p, k, q)
         /\ Edge(w, Top, Len(kids[Top]) + 1, c)
         /\ Kind(c) # "metaCalculation" => w[c] = NextLevel(lv)
<1>1. \A n \in Nodes : n <= pos => w[n] = lv[n]
  BY CalledLevels
<1>2. \A p \in Nodes : \A k : p <= pos => LevelBefore(w, p, k) = LevelBefore(lv, p, k)
  BY <1>1 DEF LevelBefore
<1>3. \A p, q \in Nodes : \A k : p <= pos /\ q <= pos =>
        /\ LevelOf(w, p, k, q) = LevelOf(lv, p, k, q)
        /\ Edge(lv, p, k, q) => Edge(w, p, k, q)
  BY <1>1, <1>2 DEF LevelOf, Edge
<1>4. PICK k : k = Len(kids[Top]) + 1
  OBVIOUS
<1>5. /\ Top \in Nodes /\ Top <= pos /\ Top < c /\ ChildFits(Top, k, c)
      /\ NextLevel(lv) = LevelBefore(lv, Top, k)
  BY <1>4, CallFacts DEF CallStep, NextLevel
<1>6. w[c] = LevelOf(lv, Top, k, c)
  BY <1>4, CalledLevels
<1>7. LevelOf(w, Top, k, c) = LevelOf(lv, Top, k, c) /\ LevelBefore(w, Top, k) = LevelBefore(lv, Top, k)
  BY <1>2, <1>5 DEF LevelOf
<1>8. Edge(w, Top, k, c)
  BY <1>5, <1>6, <1>7 DEF Edge, CallStep
<1>9. Kind(c) # "metaCalculation" => w[c] = NextLevel(lv)
  BY <1>5, <1>6 DEF LevelOf
<1> QED BY <1>3, <1>4, <1>8, <1>9

\* What a call does to the stack
Pushes(c) ==
  /\ input' = input /\ units' = units /\ kids' = kids
  /\ pos' = c /\ stack' = Append(stack, c)

\* The stack with the method that is called
LEMMA PushedStack ==
  ASSUME NEW lv, NEW c, CallStep(lv, c), Pushes(c)
  PROVE  /\ stack' \in Seq(Nodes) /\ stack' # << >> /\ OneMore(stack, stack', c)
         /\ DOMAIN stack' = 1 .. Len(stack) + 1
         /\ \A i \in 1 .. Len(stack) : stack'[i] = stack[i]
         /\ stack'[Len(stack) + 1] = c /\ Last(stack') = c
<1>1. stack \in Seq(Nodes) /\ c \in Nodes
  BY DEF CallStep, ReaderTypes
<1>2. /\ Append(stack, c) \in Seq(Nodes) /\ Append(stack, c) # << >>
      /\ Len(stack) \in Nat /\ Len(Append(stack, c)) = Len(stack) + 1
      /\ Append(stack, c)[Len(stack) + 1] = c
      /\ \A i \in 1 .. Len(stack) : Append(stack, c)[i] = stack[i]
  BY <1>1, PushedSeq
<1>3. Last(Append(stack, c)) = c
  BY <1>2 DEF Last
<1>4. DOMAIN Append(stack, c) = 1 .. Len(stack) + 1
  BY <1>1, <1>2
<1> QED BY <1>2, <1>3, <1>4 DEF OneMore, Pushes

\* The stack stays one of edges when a method is called
LEMMA PushedStackOk ==
  ASSUME NEW lv, NEW c, CallStep(lv, c), Pushes(c), status' = "reading", NEW w, w = Called(lv, c)
  PROVE  StackOk(w)'
<1>2. PICK m \in Nat \ {0} : m = Len(stack)
  BY CallFacts
<1>3. /\ DOMAIN stack = 1 .. m /\ DOMAIN stack' = 1 .. m + 1 /\ Len(stack') = m + 1
      /\ \A i \in 1 .. m : stack'[i] = stack[i] /\ stack[i] \in Nodes /\ stack[i] <= pos
      /\ stack'[m + 1] = c /\ Top = stack[m] /\ stack' # << >>
      /\ \A i \in 1 .. m : stack[i] \in Nat
  BY <1>2, PushedStack, CallFacts DEF OneMore
<1>4. /\ pos \in Nat \ {0} /\ c \in Nat /\ pos < c /\ pos' = c /\ kids' = kids
      /\ Nodes \subseteq Nat \ {0}
  BY CallFacts DEF Pushes
<1>5. \A i \in 1 .. m + 1 : stack'[i] <= c
  <2>1. \A i \in 1 .. m + 1 : i = m + 1 \/ i \in 1 .. m
    OBVIOUS
  <2>2. \A i \in 1 .. m : stack'[i] <= c
    BY <1>3, <1>4
  <2> QED BY <2>1, <2>2, <1>3, <1>4
<1>6. \A i, j \in 1 .. m + 1 : i < j => stack'[i] < stack'[j]
  <2> TAKE i, j \in 1 .. m + 1
  <2> HAVE i < j
  <2>1. i \in 1 .. m
    OBVIOUS
  <2>2. CASE j = m + 1
    <3>1. stack'[i] \in Nat /\ stack'[i] <= pos /\ stack'[j] = c
      BY <2>1, <2>2, <1>3
    <3> QED BY <3>1, <1>4
  <2>3. CASE j \in 1 .. m
    BY <2>1, <2>3, <1>3 DEF CallStep, Running, StackOk
  <2> QED BY <2>2, <2>3
<1>7. stack'[1] = 1
  <2>1. 1 \in 1 .. m
    OBVIOUS
  <2> QED BY <2>1, <1>3 DEF CallStep, Running, StackOk
<1>8. ASSUME NEW i \in 2 .. m + 1
      PROVE  Edge(w, stack'[i - 1], Len(kids[stack'[i - 1]]) + 1, stack'[i])
  <2>1. CASE i = m + 1
    <3>1. m \in 1 .. m /\ i - 1 = m
      BY <2>1
    <3>2. stack'[i - 1] = Top /\ stack'[i] = c
      BY <2>1, <3>1, <1>3
    <3> QED BY <3>2, CalledEdges
  <2>2. CASE i # m + 1
    <3>1. i \in 2 .. m /\ i \in 1 .. m /\ i - 1 \in 1 .. m
      BY <2>2
    <3>2. Edge(lv, stack[i - 1], Len(kids[stack[i - 1]]) + 1, stack[i])
      BY <3>1, <1>2 DEF CallStep, Running, StackOk
    <3>3. Edge(w, stack[i - 1], Len(kids[stack[i - 1]]) + 1, stack[i])
      BY <3>1, <3>2, <1>3, CalledEdges
    <3> QED BY <3>1, <3>3, <1>3
  <2> QED BY <2>1, <2>2
<1>10. Kind(1)' \in UnitKinds
  <2>1. Kind(1) \in UnitKinds
    BY <1>4 DEF CallStep, Running, StackOk
  <2> QED BY <2>1, SameInput DEF Pushes
<1>11. pos' # 0 /\ status' # "read" /\ status' # "crawling" /\ stack' # << >>
  BY <1>3, <1>4
<1>12. \A i \in 2 .. m + 1 :
         Edge(w, stack[i - 1], Len(kids[stack[i - 1]]) + 1, stack[i])'
  <2>1. \A i \in 2 .. m + 1 :
          Edge(w, stack'[i - 1], Len(kids'[stack'[i - 1]]) + 1, stack'[i])
    BY <1>4, <1>8
  <2>2. \A p, k, q : Edge(w, p, k, q)' <=> Edge(w, p, k, q)
    BY SameEdges DEF Pushes
  <2> QED BY <2>1, <2>2
<1> QED
  BY <1>3, <1>4, <1>5, <1>6, <1>7, <1>10, <1>11, <1>12 DEF StackOk

\* The tree stays one when a method is called: the new node is nobody's child yet
LEMMA PushedTreeOk ==
  ASSUME NEW lv, NEW c, CallStep(lv, c), Pushes(c), NEW w, w = Called(lv, c)
  PROVE  TreeOk(w)'
<1>1. PICK m \in Nat \ {0} : m = Len(stack)
  BY CallFacts
<1>2. /\ DOMAIN stack = 1 .. m /\ DOMAIN stack' = 1 .. m + 1
      /\ \A i \in 1 .. m : stack'[i] = stack[i]
      /\ stack'[m + 1] = c
  BY <1>1, PushedStack, CallFacts
<1>3. /\ pos \in Nat /\ c = pos + 1 /\ pos' = c /\ kids' = kids /\ Nodes' = Nodes
      /\ Nodes \subseteq Nat
  BY CallFacts, SameInput DEF Pushes, CallStep
<1>4. TreeOk(lv)
  BY DEF CallStep, Running
<1>5. ASSUME NEW p \in Nodes, NEW k \in DOMAIN kids[p]
      PROVE  /\ kids[p][k] <= c /\ Edge(w, p, k, kids[p][k])' /\ Complete(kids[p][k])'
             /\ \A i \in 1 .. m + 1 : stack'[i] # kids[p][k]
  <2>1. PICK q : q = kids[p][k]
    OBVIOUS
  <2>2. /\ q <= pos /\ Edge(lv, p, k, q) /\ Complete(q)
        /\ \A i \in 1 .. m : stack[i] # q
    BY <1>2, <1>4, <2>1 DEF TreeOk
  <2>3. q \in Nodes /\ q \in Nat /\ p \in Nat
    <3>1. kids[p] \in Seq(Nodes)
      BY CallFacts
    <3>2. kids[p][k] \in Nodes
      BY <3>1
    <3> QED BY <2>1, <3>2, <1>3
  <2>4. p <= pos
    BY <2>2, <2>3, <1>3 DEF Edge
  <2>5. Edge(w, p, k, q)
    BY <2>2, <2>3, <2>4, CalledEdges
  <2>6. Edge(w, p, k, kids[p][k])'
    BY <2>1, <2>5, SameEdges DEF Pushes
  <2>7. Complete(kids[p][k])'
    BY <2>1, <2>2 DEF Pushes, Complete, Kind, layout
  <2>8. \A i \in 1 .. m + 1 : stack'[i] # q
    <3>1. c # q
      BY <2>2, <2>3, <1>3
    <3>2. \A i \in 1 .. m + 1 : i = m + 1 \/ i \in 1 .. m
      OBVIOUS
    <3> QED BY <3>1, <3>2, <1>2, <2>2
  <2>9. q <= c
    BY <2>2, <2>3, <1>3
  <2> QED BY <2>1, <2>6, <2>7, <2>8, <2>9
<1>6. \A p, q \in Nodes : \A j \in DOMAIN kids[p], k \in DOMAIN kids[q] :
        kids[p][j] = kids[q][k] => p = q /\ j = k
  BY <1>4 DEF TreeOk
<1>7. \A n \in Nodes : n > c => kids[n] = << >>
  <2>1. \A n \in Nodes : n > c => n > pos
    BY <1>3
  <2> QED BY <2>1, <1>4 DEF TreeOk
<1>8. ASSUME NEW n \in Nodes, n <= c
      PROVE  \/ n = 1
             \/ \E i \in 1 .. m + 1 : stack'[i] = n
             \/ \E p \in Nodes : \E k \in DOMAIN kids[p] : kids[p][k] = n
  <2>1. CASE n = c
    <3>1. m + 1 \in 1 .. m + 1
      OBVIOUS
    <3> QED BY <3>1, <2>1, <1>2
  <2>2. CASE n # c
    <3>1. n <= pos
      BY <2>2, <1>3, <1>8
    <3>2. \/ n = 1
          \/ \E i \in 1 .. m : stack[i] = n
          \/ \E p \in Nodes : \E k \in DOMAIN kids[p] : kids[p][k] = n
      BY <3>1, <1>2, <1>4 DEF TreeOk
    <3>3. \A i \in 1 .. m : i \in 1 .. m + 1
      OBVIOUS
    <3> QED BY <3>2, <3>3, <1>2
  <2> QED BY <2>1, <2>2
<1>9. (\A p \in Nodes : \A k \in DOMAIN kids[p] :
         /\ kids[p][k] <= pos /\ Edge(w, p, k, kids[p][k]) /\ Complete(kids[p][k])
         /\ \A i \in DOMAIN stack : stack[i] # kids[p][k])'
  <2>1. \A p \in Nodes' : \A k \in DOMAIN kids[p] :
          /\ kids[p][k] <= c /\ Edge(w, p, k, kids[p][k])' /\ Complete(kids[p][k])'
          /\ \A i \in 1 .. m + 1 : stack'[i] # kids[p][k]
    BY <1>3, <1>5
  <2>2. DOMAIN stack' = 1 .. m + 1 /\ pos' = c /\ kids' = kids
    BY <1>2, <1>3
  <2> QED BY <2>1, <2>2
<1>10. (\A n \in Nodes : n <= pos =>
          \/ n = 1
          \/ \E i \in DOMAIN stack : stack[i] = n
          \/ \E p \in Nodes : \E k \in DOMAIN kids[p] : kids[p][k] = n)'
  BY <1>2, <1>3, <1>8
<1>11. (\A n \in Nodes : n > pos => kids[n] = << >>)'
  BY <1>3, <1>7
<1>12. (\A p, q \in Nodes : \A j \in DOMAIN kids[p], k \in DOMAIN kids[q] :
          kids[p][j] = kids[q][k] => p = q /\ j = k)'
  BY <1>3, <1>6
<1> QED BY <1>9, <1>10, <1>11, <1>12 DEF TreeOk

\* What a call does to the modes and to the decls of the references
Resolves(c, w) ==
  /\ modes' = ModesOf(LevelBefore(w, c, 1))
  /\ errors \subseteq errors'
  /\ \A r : r # c => (r \in DOMAIN decl' <=> r \in DOMAIN decl)
  /\ Kind(c) # "ref" => c \notin DOMAIN decl'
  /\ Kind(c) = "ref" =>
       IF w[c] = "InsideMetaDecl" THEN c \notin DOMAIN decl'
       ELSE c \in DOMAIN decl' \/ <<"unknown", c>> \in errors'

\* Levels, resolved references and modes still agree when a method is called
LEMMA PushedLevelsOk ==
  ASSUME NEW lv, NEW c, CallStep(lv, c), Pushes(c), NEW w, w = Called(lv, c), Resolves(c, w)
  PROVE  LevelsOk(w)'
<1>1. /\ pos \in Nat \ {0} /\ c \in Nat /\ pos < c /\ c = pos + 1 /\ pos' = c
      /\ kids' = kids /\ Nodes' = Nodes /\ Nodes \subseteq Nat \ {0} /\ c \in Nodes
  BY CallFacts, SameInput DEF Pushes, CallStep
<1>2. /\ w \in [Nodes -> Levels] /\ \A n \in Nodes : n <= pos => w[n] = lv[n]
      /\ w[c] = LevelOf(lv, Top, Len(kids[Top]) + 1, c)
  BY CalledLevels
<1>3. LevelsOk(lv) /\ TreeOk(lv) /\ StackOk(lv)
  BY DEF CallStep, Running
<1>4. \A n : Kind(n)' = Kind(n)
  BY SameInput DEF Pushes
<1>5. \A n \in Nodes : n <= c => n = c \/ n <= pos
  BY <1>1
<1>6. kids[c] = << >>
  BY <1>1, <1>3 DEF TreeOk
<1>7. w[1] = "Outside"
  <2>1. 1 \in Nodes /\ 1 <= pos /\ lv[1] = "Outside"
    <3>1. stack[1] \in Nodes /\ stack[1] = 1
      BY <1>3, CallFacts DEF CallStep, StackOk
    <3> QED BY <3>1, <1>1, <1>3 DEF LevelsOk
  <2> QED BY <2>1, <1>2
<1>8. modes' = ModesOf(NextLevel(w)')
  <2>1. Last(stack') = c /\ stack' # << >>
    BY PushedStack
  <2>2. Len(kids[c]) + 1 = 1
    BY <1>6
  <2>3. NextLevel(w)' = LevelBefore(w, c, 1)
    BY <2>1, <2>2, <1>1, <1>4 DEF NextLevel, Top, LevelBefore
  <2> QED BY <2>3 DEF Resolves
<1>9. ASSUME NEW n \in Nodes, n <= c PROVE LevelFits(w, n)'
  <2>1. CASE n = c
    <3>1. Kind(c) = "metaIf" => w[c] = "InsideMetaDecl"
      BY CalledEdges DEF CallStep
    <3>2. Kind(c) = "metaCalculation" => w[c] = "InsideComputation"
      BY <1>2 DEF LevelOf
    <3>3. Kind(c) = "contribution" => w[c] # "Outside"
      <4> HAVE Kind(c) = "contribution"
      <4>1. PICK k, p : k = Len(kids[Top]) + 1 /\ p = Top
        OBVIOUS
      <4>2. /\ ChildFits(p, k, c) /\ p \in Nodes /\ p <= pos /\ w[c] = LevelOf(lv, p, k, c)
        BY <4>1, <1>2, CallFacts DEF CallStep
      <4>3. w[c] = LevelBefore(lv, p, k)
        BY <4>2 DEF LevelOf
      <4>4. Kind(p) = "contribution" \/ (Kind(p) \in {"meta", "metaIf"} /\ k # 1)
        BY <4>2 DEF ChildFits
      <4>5. LevelFits(lv, p)
        BY <4>2, <1>3 DEF LevelsOk
      <4> QED BY <4>3, <4>4, <4>5 DEF LevelBefore, LevelFits
    <3> QED BY <2>1, <3>1, <3>2, <3>3, <1>1, <1>4, <1>6 DEF LevelFits
  <2>2. CASE n <= pos
    <3>1. LevelFits(lv, n) /\ w[n] = lv[n]
      BY <2>2, <1>2, <1>3 DEF LevelsOk
    <3> QED BY <3>1, <1>1, <1>4 DEF LevelFits
  <2> QED BY <2>1, <2>2, <1>5, <1>9
<1>10. ASSUME NEW r \in Nodes, r <= c, Kind(r) = "ref" PROVE RefFits(w, r)'
  <2>1. CASE r = c
    BY <2>1, <1>10 DEF RefFits, Resolves
  <2>2. CASE r <= pos
    <3>1. RefFits(lv, r) /\ w[r] = lv[r] /\ r # c
      BY <2>2, <1>1, <1>2, <1>3, <1>10 DEF LevelsOk
    <3> QED BY <3>1 DEF RefFits, Resolves
  <2> QED BY <2>1, <2>2, <1>5, <1>10
<1>11. \A r \in DOMAIN decl' : r <= c
  <2> TAKE r \in DOMAIN decl'
  <2>1. CASE r = c
    BY <2>1, <1>1
  <2>2. CASE r # c
    <3>1. r \in DOMAIN decl /\ r <= pos
      BY <2>2, <1>3 DEF Resolves, LevelsOk
    <3>2. r \in Nat
      <4>1. DOMAIN decl \subseteq Nodes
        BY DEF CallStep, ReaderTypes, DeclMaps, MapsOf
      <4> QED BY <4>1, <3>1, <1>1
    <3> QED BY <3>1, <3>2, <1>1
  <2> QED BY <2>1, <2>2
<1> QED
  BY <1>1, <1>2, <1>4, <1>7, <1>8, <1>9, <1>10, <1>11 DEF LevelsOk

\* The markers that are left belong to the methods running, the new one among them
LEMMA PushedMarkersOk ==
  ASSUME NEW lv, NEW c, CallStep(lv, c), Pushes(c), status' = "reading"
  PROVE  MarkersOk'
<1>1. PICK m \in Nat \ {0} : m = Len(stack)
  BY CallFacts
<1>2. OneMore(stack, stack', c) /\ Len(stack)' = m + 1
  BY <1>1, PushedStack DEF OneMore
<1>3. Unreduced(m + 1)' = Unreduced(m) + Marked(Kind(c)) /\ Unreduced(m) \in Nat
  BY <1>1, <1>2, PushedCounts DEF Pushes
<1>4. Depth(layout, pos) = Unreduced(m)
  BY <1>1 DEF CallStep, Running, MarkersOk
<1>5. pos \in Nat /\ c = pos + 1 /\ pos' = c /\ layout' = layout /\ c \in Nodes
  BY CallFacts, SameInput DEF CallStep, Pushes
<1>6. Depth(layout, pos + 1) = Depth(layout, pos) + Marked(Kind(c))
  <2>1. Kind(c) # "marker"
    BY <1>5 DEF Nodes, Kind
  <2> QED BY <2>1, <1>5, DepthStep DEF Marked, Kind
<1>7. Unreduced(Len(stack))' = Unreduced(m + 1)'
  BY <1>2 DEF Unreduced
<1> QED BY <1>3, <1>4, <1>5, <1>6, <1>7 DEF MarkersOk

\* A consume method that is called by another one goes on with a tree that fits
LEMMA PushedRunning ==
  ASSUME NEW lv, NEW c, CallStep(lv, c), Pushes(c), status' = "reading",
         Resolves(c, Called(lv, c))
  PROVE  RunningOk'
<1>1. PICK w : w = Called(lv, c)
  OBVIOUS
<1>2. Resolves(c, w)
  BY <1>1
<1>3. StackOk(w)' /\ TreeOk(w)' /\ LevelsOk(w)' /\ MarkersOk'
  BY <1>1, <1>2, PushedStackOk, PushedTreeOk, PushedLevelsOk, PushedMarkersOk
<1> QED BY <1>3 DEF RunningOk

(***************************************************************************)
(* The unit: the reader starts, and the crawl through its decls.           *)
(***************************************************************************)
LEMMA UnitStarts ==
  ASSUME ReaderTypes, stack = << >>, pos = 0, NEW lv, Running(lv), 1 \in Nodes,
         Kind(1) \in UnitKinds, Pushes(1), modes' = modes, decl' = decl,
         status' = "crawling", crawl' = 2
  PROVE  RunningOk' /\ crawl' \in Positions
<1>1. PICK w : w = [lv EXCEPT ![1] = "Outside"]
  OBVIOUS
<1>2. lv \in [Nodes -> Levels]
  BY DEF Running, LevelsOk
<1>3. w \in [Nodes -> Levels] /\ w[1] = "Outside"
  BY <1>1, <1>2 DEF Levels
<1>4. /\ stack' = <<1>> /\ Len(stack') = 1 /\ DOMAIN stack' = 1 .. 1 /\ stack'[1] = 1
      /\ Last(stack') = 1 /\ pos' = 1 /\ kids' = kids
  <2>1. stack' = <<1>>
    BY DEF Pushes
  <2> QED BY <2>1 DEF Last, Pushes
<1>5. /\ \A n \in Nodes : n \in Nat \ {0} /\ n \in Positions
      /\ Nodes' = Nodes /\ layout' = layout /\ \A n : Kind(n)' = Kind(n)
      /\ Len(layout) \in Nat \ {0} /\ Positions = 1 .. Len(layout)
  BY LayoutFacts, SameInput DEF ReaderTypes, Pushes
<1>6. \A n \in Nodes : kids[n] = << >> /\ (n <= 1 => n = 1)
  BY <1>5 DEF Running, TreeOk
<1>7. StackOk(w)'
  BY <1>4, <1>5 DEF StackOk
<1>8. TreeOk(w)'
  BY <1>4, <1>5, <1>6 DEF TreeOk
<1>9. LevelsOk(w)'
  <2>1. \A r \in DOMAIN decl' : r <= 1
    <3>1. \A r \in DOMAIN decl : r <= 0 /\ r \in Nodes
      BY DEF Running, LevelsOk, ReaderTypes, DeclMaps, MapsOf
    <3> QED BY <3>1, <1>5
  <2>2. modes' = << >>
    BY DEF Running, LevelsOk, NextLevel, ModesOf
  <2>3. NextLevel(w)' = "Outside"
    BY <1>3, <1>4, <1>5, <1>6 DEF NextLevel, Top, LevelBefore, UnitKinds
  <2>4. \A n \in Nodes : n <= 1 => LevelFits(w, n)'
    BY <1>5, <1>6 DEF LevelFits, UnitKinds
  <2>5. \A r \in Nodes : r <= 1 => Kind(r) # "ref"
    BY <1>6 DEF UnitKinds
  <2> QED BY <2>1, <2>2, <2>3, <2>4, <2>5, <1>3, <1>4, <1>5 DEF LevelsOk, ModesOf
<1>10. Depth(layout, 1) = 1
  <2>1. RequiresReduceMarker(layout[1].kind)
    BY DEF UnitKinds, RequiresReduceMarker, Kind
  <2>2. Depth(layout, 0 + 1) = Depth(layout, 0) + 1 /\ Depth(layout, 0) = 0
    BY <2>1, DepthStep
  <2> QED BY <2>2
<1>11. 2 \in 2 .. Len(layout)
  <2>1. Depth(layout, Len(layout)) = 0
    BY WellWrittenFacts DEF ReaderTypes
  <2>2. PICK m \in Nat \ {0} : m = Len(layout)
    BY <1>5
  <2>3. m # 1
    <3>1. Depth(layout, m) = 0
      BY <2>1, <2>2
    <3> QED BY <3>1, <1>10
  <2>4. 2 \in 2 .. m
    BY <2>2, <2>3
  <2> QED BY <2>2, <2>4
<1>12. MarkersOk'
  <2>1. OneMore(stack, stack', 1) /\ Len(stack) = 0 /\ Len(stack)' = 1
    BY <1>4 DEF OneMore
  <2>2. Unreduced(0 + 1)' = Unreduced(0) + Marked(Kind(1))
    BY <2>1, PushedCounts DEF Pushes
  <2>3. Unreduced(0) = 0
    BY HeldCounts, CountZero DEF Pushes
  <2>4. Marked(Kind(1)) = 1
    BY DEF Marked, UnitKinds, RequiresReduceMarker
  <2>5. Unreduced(Len(stack))' = Unreduced(1)'
    BY <2>1 DEF Unreduced
  <2>6. Unreduced(1)' = 1
    BY <2>2, <2>3, <2>4
  <2> QED BY <2>5, <2>6, <1>4, <1>5, <1>10, <1>11 DEF MarkersOk
<1> QED BY <1>5, <1>7, <1>8, <1>9, <1>11, <1>12 DEF RunningOk

\* The crawl goes from one node at the top level to the next one
LEMMA BehindStays ==
  ASSUME ReaderTypes, crawl \in 2 .. Len(layout), Kind(crawl) # "marker",
         Depth(layout, crawl - 1) = 1
  PROVE  Behind(crawl) \in 2 .. Len(layout) /\ Depth(layout, Behind(crawl) - 1) = 1
<1>1. /\ Len(layout) \in Nat \ {0} /\ crawl \in Nat \ {0} /\ WellWritten(layout)
      /\ Depth(layout, Len(layout)) = 0
  BY LayoutFacts, WellWrittenFacts DEF ReaderTypes, InputOk
<1>2. CASE RequiresReduceMarker(Kind(crawl))
  <2> DEFINE Closes(k) == /\ Depth(layout, k) = Depth(layout, crawl - 1)
                          /\ \A j \in crawl .. k - 1 : Depth(layout, j) > Depth(layout, crawl - 1)
             closed == CHOOSE k \in crawl + 1 .. Len(layout) : Closes(k)
  <2>1. \E k \in crawl + 1 .. Len(layout) : Closes(k)
    BY <1>1, <1>2, NodeCloses DEF Kind
  <2>2. closed \in crawl + 1 .. Len(layout) /\ Closes(closed)
    BY <2>1, Zenon
  <2>3. Behind(crawl) = 1 + closed
    BY <1>2 DEF Behind
  <2> HIDE DEF closed
  <2>4. Depth(layout, closed) = 1 /\ closed # Len(layout)
    BY <2>2, <1>1
  <2> HIDE DEF Closes
  <2>5. 1 + closed \in 2 .. Len(layout) /\ (1 + closed) - 1 = closed
    BY <2>2, <2>4, <1>1
  <2> QED BY <2>3, <2>4, <2>5
<1>3. CASE ~RequiresReduceMarker(Kind(crawl))
  <2>1. Behind(crawl) = crawl + 1
    BY <1>3 DEF Behind
  <2>2. Depth(layout, crawl) = Depth(layout, crawl - 1) + 0
    BY <1>1, <1>3, DepthBefore DEF Kind
  <2>3. Depth(layout, crawl) = 1
    BY <2>2
  <2>4. crawl # Len(layout)
    BY <2>3, <1>1
  <2>5. crawl + 1 \in 2 .. Len(layout) /\ (crawl + 1) - 1 = crawl
    BY <2>4, <1>1
  <2> QED BY <2>1, <2>3, <2>5
<1> QED BY <1>2, <1>3

\* Where nothing but the crawl, the errors and the scopes change, the tree stays
LEMMA StaysRunning ==
  ASSUME NEW lv, Running(lv), input' = input, pos' = pos, stack' = stack, kids' = kids,
         decl' = decl, modes' = modes, errors \subseteq errors',
         \/ status' = status /\ crawl' = crawl
         \/ status' = "reading" /\ status = "crawling"
         \/ status' = "crawling" /\ status = "crawling"
            /\ crawl' \in 2 .. Len(layout) /\ Depth(layout, crawl' - 1) = 1
  PROVE  RunningOk'
<1>1. layout' = layout /\ Nodes' = Nodes /\ \A n : Kind(n)' = Kind(n)
  BY SameInput
<1>2. StackOk(lv)'
  <2>1. \A i \in 2 .. Len(stack) :
          Edge(lv, stack[i - 1], Len(kids[stack[i - 1]]) + 1, stack[i])'
    BY DEF Running, StackOk, Edge, LevelOf, LevelBefore, ChildFits, Kind, layout
  <2> QED BY <2>1, <1>1 DEF Running, StackOk
<1>3. TreeOk(lv)'
  <2>1. \A p \in Nodes : \A k \in DOMAIN kids[p] :
          Edge(lv, p, k, kids[p][k])' /\ Complete(kids[p][k])'
    BY DEF Running, TreeOk, Edge, LevelOf, LevelBefore, ChildFits, Complete, Kind, layout
  <2> QED BY <2>1, <1>1 DEF Running, TreeOk
<1>4. LevelsOk(lv)'
  <2>1. NextLevel(lv)' = NextLevel(lv)
    BY DEF NextLevel, Top, LevelBefore, Kind, layout
  <2>2. \A n : LevelFits(lv, n)' <=> LevelFits(lv, n)
    BY <1>1 DEF LevelFits
  <2>3. \A r : RefFits(lv, r) => RefFits(lv, r)'
    BY DEF RefFits
  <2> QED BY <2>1, <2>2, <2>3, <1>1 DEF Running, LevelsOk
<1>5. MarkersOk'
  <2>1. Unreduced(Len(stack))' = Unreduced(Len(stack))
    BY DEF Unreduced, Kind, layout
  <2> QED BY <2>1, <1>1 DEF Running, MarkersOk
<1> QED BY <1>2, <1>3, <1>4, <1>5 DEF RunningOk

(***************************************************************************)
(* A consume method returns.                                               *)
(***************************************************************************)
Returns(lv) == ReaderTypes /\ Running(lv) /\ Finish /\ status' \notin Failures

\* A method only returns when its node has the children its class needs
LEMMA WantsNothing ==
  ASSUME ReaderTypes, stack # << >>, Wanted = "nothing"
  PROVE  Complete(Top)
<1>1. Top \in Nodes /\ Kind(Top) \in Kinds
  <2>1. Top \in Nodes
    BY FrontSeq DEF ReaderTypes, Top
  <2> QED BY <2>1, LayoutFacts DEF ReaderTypes
<1>2. PICK n : n = Top
  OBVIOUS
<1>3. Len(kids[n]) \in Nat
  <2>1. kids[n] \in Seq(Nodes)
    BY <1>1, <1>2, LayoutFacts DEF ReaderTypes
  <2> QED BY <2>1
<1>4. PICK k \in Nat : k = Len(kids[n])
  BY <1>3
<1>5. PICK p : p = ProductionOf(n)
  OBVIOUS
<1>6. "nothing" = IF k < Len(p.required) THEN p.required[k + 1]
                  ELSE IF k < p.most /\ ~ShouldReduce THEN p.optional ELSE "nothing"
  BY <1>2, <1>4, <1>5 DEF Wanted
<1> USE DEF ProductionOf, Exactly, Production
<1>7. CASE Kind(n) = "meta"
  <2>1. p.required = <<"args", "contribution">>
    BY <1>5, <1>7
  <2>2. k # 0 /\ k # 1
    BY <1>6, <2>1
  <2>3. k >= 2
    BY <2>2
  <2>4. Len(kids[n]) >= 2
    BY <2>3, <1>4
  <2> QED BY <2>4, <1>2, <1>7 DEF Complete
<1>8. CASE Kind(n) = "metaIf"
  <2>1. p.required = <<"expr", "contribution">>
    BY <1>5, <1>8
  <2>2. k # 0 /\ k # 1
    BY <1>6, <2>1
  <2>3. k >= 2
    BY <2>2
  <2>4. Len(kids[n]) >= 2
    BY <2>3, <1>4
  <2> QED BY <2>4, <1>2, <1>8 DEF Complete
<1>9. CASE Kind(n) = "instantiation"
  BY <1>4, <1>5, <1>6, <1>9, <1>2 DEF Complete
<1>10. CASE Kind(n) \notin {"meta", "metaIf", "instantiation"}
  BY <1>2, <1>10 DEF Complete
<1> QED BY <1>7, <1>8, <1>9, <1>10

\* The node is popped with the reduce marker it may have
LEMMA ReturnFacts ==
  ASSUME NEW lv, Returns(lv)
  PROVE  /\ stack # << >> /\ status = "reading" /\ Complete(Top)
         /\ Top \in Nodes /\ Top \in Nat \ {0} /\ Top <= pos
         /\ pos \in Nat /\ pos' = pos + Marked(Kind(Top)) /\ pos' <= Len(layout)
         /\ Nodes \subseteq Nat \ {0} /\ \A p \in Nodes : kids[p] \in Seq(Nodes)
         /\ \A n \in Nodes : n <= pos' => n <= pos
         /\ Marked(Kind(Top)) = 1 => Kind(pos + 1) = "marker"
<1> USE DEF Returns, Running
<1>1. stack \in Seq(Nodes) /\ stack # << >> /\ status = "reading" /\ Wanted = "nothing"
  BY DEF ReaderTypes, Finish, Reading
<1>2. Complete(Top)
  BY <1>1, WantsNothing
<1>3. /\ Nodes \subseteq Nat \ {0} /\ \A p \in Nodes : p \in Positions
      /\ Positions = 1 .. Len(layout) /\ Len(layout) \in Nat
      /\ \A n \in Nodes : Kind(n) # "marker"
  BY LayoutFacts DEF ReaderTypes, Nodes, Kind
<1>4. Top \in Nodes /\ Top <= pos
  <2>1. Top = stack[Len(stack)] /\ Len(stack) \in Nat \ {0} /\ Top \in Nodes
    BY <1>1, FrontSeq DEF Top
  <2>2. Len(stack) \in DOMAIN stack
    BY <1>1, <2>1
  <2> QED BY <2>1, <2>2 DEF StackOk
<1>5. \A p \in Nodes : kids[p] \in Seq(Nodes)
  BY <1>3 DEF ReaderTypes
<1>6. pos \in 0 .. Len(layout)
  BY DEF ReaderTypes
<1>7. RequiresReduceMarker(Kind(Top)) => ShouldReduce
  BY DEF Finish, Failures
<1>8. pos' = pos + Marked(Kind(Top))
  BY <1>6, <1>7 DEF Finish, Marked
<1>9. Marked(Kind(Top)) = 1 => Kind(pos + 1) = "marker" /\ pos # Len(layout)
  BY <1>7 DEF Marked, ShouldReduce, PastEnd, Entry, Kind
<1>10. Marked(Kind(Top)) \in {0, 1}
  BY DEF Marked
<1>11. pos' <= Len(layout)
  BY <1>3, <1>6, <1>8, <1>9, <1>10
<1>12. ASSUME NEW n \in Nodes, n <= pos' PROVE n <= pos
  <2>1. n # pos + 1 \/ Marked(Kind(Top)) = 0
    BY <1>3, <1>9, <1>10
  <2>2. n \in Nat /\ pos \in Nat
    BY <1>3, <1>6
  <2> QED BY <2>1, <2>2, <1>8, <1>10, <1>12
<1> QED BY <1>1, <1>2, <1>3, <1>4, <1>5, <1>6, <1>8, <1>9, <1>11, <1>12

\* The stack without the method that returns
LEMMA PoppedStack ==
  ASSUME NEW lv, Returns(lv), NEW m, m = Len(stack) - 1
  PROVE  /\ m \in Nat /\ DOMAIN stack = 1 .. m + 1 /\ Len(stack) = m + 1
         /\ Len(stack') = m /\ DOMAIN stack' = 1 .. m /\ stack' \in Seq(Nodes)
         /\ Top = stack[m + 1] /\ OneMore(stack', stack, Top)
         /\ \A i \in 1 .. m : stack'[i] = stack[i] /\ stack[i] \in Nodes /\ stack[i] < Top
         /\ m # 0 => Last(stack') = stack[m]
<1>1. stack \in Seq(Nodes) /\ stack # << >> /\ stack' = Front(stack)
  BY ReturnFacts DEF Returns, ReaderTypes, Finish
<1>2. /\ Front(stack) \in Seq(Nodes) /\ Len(Front(stack)) = Len(stack) - 1
      /\ Len(stack) \in Nat \ {0} /\ Last(stack) = stack[Len(stack)]
      /\ \A i \in 1 .. Len(stack) - 1 : Front(stack)[i] = stack[i]
  BY <1>1, FrontSeq
<1>3. m \in Nat /\ Len(stack) = m + 1 /\ Len(stack') = m /\ stack' \in Seq(Nodes)
  BY <1>1, <1>2
<1>4. DOMAIN stack = 1 .. m + 1 /\ DOMAIN stack' = 1 .. m
  BY <1>1, <1>3
<1>5. Top = stack[m + 1] /\ \A i \in 1 .. m : stack'[i] = stack[i]
  BY <1>1, <1>2, <1>3 DEF Top
<1>6. \A i \in 1 .. m : stack[i] \in Nodes
  BY <1>1, <1>4
<1>7. \A i \in 1 .. m : stack[i] < Top
  <2> TAKE i \in 1 .. m
  <2>1. i \in DOMAIN stack /\ m + 1 \in DOMAIN stack /\ i < m + 1
    BY <1>3, <1>4
  <2> QED BY <2>1, <1>5 DEF Returns, Running, StackOk
<1>8. m # 0 => Last(stack') = stack[m]
  <2> HAVE m # 0
  <2>1. m \in 1 .. m
    BY <1>3
  <2> QED BY <2>1, <1>3, <1>5 DEF Last
<1>9. OneMore(stack', stack, Top)
  BY <1>3, <1>5 DEF OneMore
<1> QED BY <1>3, <1>4, <1>5, <1>6, <1>7, <1>8, <1>9

\* The method that called it gets the node as its next child
Caller == Last(stack')
\* What the caller gets
LEMMA GivenChild ==
  ASSUME NEW lv, Returns(lv), NEW m, m = Len(stack) - 1
  PROVE  /\ m = 0 => kids' = kids /\ status' = "read" /\ modes' = LeaveMode(Kind(Top), modes)
         /\ m # 0 =>
              /\ status' = "reading" /\ Caller \in Nodes /\ Caller = stack[m] /\ Caller < Top
              /\ kids'[Caller] = Append(kids[Caller], Top)
              /\ \A n \in Nodes : n # Caller => kids'[n] = kids[n]
              /\ Len(kids'[Caller]) = Len(kids[Caller]) + 1 /\ Len(kids[Caller]) \in Nat
              /\ kids'[Caller][Len(kids[Caller]) + 1] = Top
              /\ \A k \in 1 .. Len(kids[Caller]) : kids'[Caller][k] = kids[Caller][k]
              /\ DOMAIN kids[Caller] = 1 .. Len(kids[Caller])
              /\ DOMAIN kids'[Caller] = 1 .. Len(kids[Caller]) + 1
              /\ Edge(lv, Caller, Len(kids[Caller]) + 1, Top)
              /\ Kind(Caller) = "meta" /\ Len(kids[Caller]) = 0
                   => Mode(LeaveMode(Kind(Top), modes)) = "Outside"
              /\ modes' = ModesBehind(Caller, Len(kids[Caller]) + 1, LeaveMode(Kind(Top), modes))
<1>1. m \in Nat /\ Len(stack) = m + 1 /\ stack' = Front(stack)
  BY PoppedStack DEF Returns, Finish
<1>2. CASE m = 0
  <2>1. Len(stack) = 1
    BY <1>1, <1>2
  <2>2. kids' = kids /\ modes' = LeaveMode(Kind(Top), modes) /\ status' = "read"
    BY <2>1, <1>1 DEF Returns, Finish, Failures
  <2> QED BY <1>2, <2>2
<1>3. CASE m # 0
  <2>1. m \in 1 .. m /\ Len(stack) # 1 /\ m + 1 \in 2 .. Len(stack) /\ (m + 1) - 1 = m
    BY <1>1, <1>3
  <2>2. Caller = stack[m] /\ Caller \in Nodes /\ Caller < Top
    BY <1>3, <2>1, PoppedStack DEF Caller
  <2>3. PICK c : c = Caller
    OBVIOUS
  <2>4. c = Last(Front(stack))
    BY <1>1, <2>3 DEF Caller
  <2>5. kids' = [kids EXCEPT ![c] = Append(kids[c], Top)]
    BY <2>1, <2>4 DEF Returns, Finish, WithChild
  <2>6. DOMAIN kids = Positions /\ c \in Positions /\ kids[c] \in Seq(Nodes) /\ Top \in Nodes
    BY <2>2, <2>3, LayoutFacts, ReturnFacts DEF Returns, ReaderTypes
  <2>7. kids'[c] = Append(kids[c], Top) /\ \A n \in Nodes : n # c => kids'[n] = kids[n]
    <3>1. \A n \in Nodes : n \in Positions
      BY LayoutFacts DEF Returns, ReaderTypes
    <3> QED BY <2>5, <2>6, <3>1
  <2>8. PICK k \in Nat : k = Len(kids[c])
    BY <2>6
  <2>9. /\ Len(kids'[c]) = k + 1 /\ kids'[c][k + 1] = Top
        /\ \A j \in 1 .. k : kids'[c][j] = kids[c][j]
        /\ DOMAIN kids[c] = 1 .. k /\ DOMAIN kids'[c] = 1 .. k + 1
    <3>1. kids'[c] \in Seq(Nodes)
      BY <2>6, <2>7, PushedSeq
    <3>2. /\ Len(Append(kids[c], Top)) = Len(kids[c]) + 1
          /\ Append(kids[c], Top)[Len(kids[c]) + 1] = Top
          /\ \A i \in 1 .. Len(kids[c]) : Append(kids[c], Top)[i] = kids[c][i]
      BY <2>6, PushedSeq
    <3> QED BY <3>1, <3>2, <2>6, <2>7, <2>8
  <2>10. Edge(lv, c, k + 1, Top)
    <3>1. Edge(lv, stack[(m + 1) - 1], Len(kids[stack[(m + 1) - 1]]) + 1, stack[m + 1])
      BY <2>1 DEF Returns, Running, StackOk
    <3> QED BY <3>1, <2>1, <2>2, <2>3, <2>8, PoppedStack
  <2>11. /\ modes' = ModesBehind(c, Len(kids'[c]), LeaveMode(Kind(Top), modes))
         /\ status' = IF RequiresReduceMarker(Kind(Top)) /\ ~ShouldReduce THEN "noReduceMarker"
                      ELSE IF Kind(c) = "meta" /\ Len(kids'[c]) = 1
                                 /\ Mode(LeaveMode(Kind(Top), modes)) # "Outside"
                      THEN "wrongMode" ELSE status
    BY <2>1, <2>4 DEF Returns, Finish
  <2>12. status' = "reading" /\ ~(Kind(c) = "meta" /\ Len(kids'[c]) = 1
                                    /\ Mode(LeaveMode(Kind(Top), modes)) # "Outside")
    BY <2>11, ReturnFacts DEF Returns, Failures
  <2>13. k = 0 => Len(kids'[c]) = 1
    BY <2>8, <2>9
  <2> QED BY <1>3, <2>2, <2>3, <2>7, <2>8, <2>9, <2>10, <2>11, <2>12, <2>13, Zenon
<1> QED BY <1>2, <1>3

\* The stack stays one of edges when a method returns
LEMMA PoppedStackOk == ASSUME NEW lv, Returns(lv) PROVE StackOk(lv)'
<1>1. PICK m : m = Len(stack) - 1
  OBVIOUS
<1>2. /\ m \in Nat /\ DOMAIN stack = 1 .. m + 1 /\ Len(stack) = m + 1
      /\ Len(stack') = m /\ DOMAIN stack' = 1 .. m
      /\ \A i \in 1 .. m : stack'[i] = stack[i] /\ stack[i] \in Nodes
      /\ Top = stack[m + 1]
  BY <1>1, PoppedStack
<1>3. /\ pos \in Nat /\ pos' = pos + Marked(Kind(Top)) /\ pos' <= Len(layout)
      /\ Marked(Kind(Top)) \in {0, 1} /\ Nodes \subseteq Nat \ {0} /\ Top <= pos
      /\ Top \in Nat \ {0}
  BY ReturnFacts DEF Marked
<1>4. pos' \in Nat \ {0} /\ pos \in Nat \ {0} /\ pos <= pos'
  BY <1>3
<1>17. \A i \in 1 .. m : i \in DOMAIN stack /\ stack[i] \in Nat /\ stack'[i] = stack[i]
  <2>1. \A i \in 1 .. m : i \in 1 .. m + 1
    BY <1>2
  <2> QED BY <2>1, <1>2, <1>3
<1>5. StackOk(lv)
  BY DEF Returns, Running
<1>6. \A i \in 1 .. m : stack'[i] <= pos'
  <2> TAKE i \in 1 .. m
  <2>1. i \in DOMAIN stack /\ stack[i] \in Nat /\ stack'[i] = stack[i]
    BY <1>17
  <2>2. stack[i] <= pos
    BY <2>1, <1>5 DEF StackOk
  <2> QED BY <2>1, <2>2, <1>4
<1>7. \A i, j \in 1 .. m : i < j => stack'[i] < stack'[j]
  <2>1. \A i \in 1 .. m : i \in 1 .. m + 1
    BY <1>2
  <2> QED BY <2>1, <1>2, <1>5 DEF StackOk
<1>8. m # 0 => stack'[1] = 1
  <2>1. m # 0 => 1 \in 1 .. m
    BY <1>2
  <2>2. stack[1] = 1
    BY <1>5, ReturnFacts DEF StackOk
  <2> QED BY <2>1, <2>2, <1>2
<1>9. ASSUME NEW i \in 2 .. m
      PROVE  Edge(lv, stack'[i - 1], Len(kids'[stack'[i - 1]]) + 1, stack'[i])
  <2>1. i \in 2 .. Len(stack) /\ i - 1 \in 1 .. m /\ m \in 1 .. m /\ i \in 1 .. m /\ m # 0
        /\ i - 1 < m
    BY <1>2
  <2>2. Edge(lv, stack[i - 1], Len(kids[stack[i - 1]]) + 1, stack[i])
    BY <2>1, <1>5 DEF StackOk
  <2>3. stack[i - 1] # stack[m]
    <3>1. stack'[i - 1] < stack'[m]
      BY <2>1, <1>7
    <3>2. stack[i - 1] \in Nat /\ stack[i - 1] < stack[m]
      BY <3>1, <2>1, <1>17
    <3> QED BY <3>2
  <2>4. kids'[stack[i - 1]] = kids[stack[i - 1]]
    BY <2>1, <2>3, <1>1, <1>2, GivenChild
  <2> QED BY <2>1, <2>2, <2>4, <1>2
<1>10. \A i \in 2 .. m : Edge(lv, stack[i - 1], Len(kids[stack[i - 1]]) + 1, stack[i])'
  <2>1. \A l, p, k, c : Edge(l, p, k, c)' <=> Edge(l, p, k, c)
    BY SameEdges DEF Returns, Finish
  <2> QED BY <2>1, <1>9
<1>11. m = 0 => status' = "read" /\ pos' = Len(layout)
  <2> HAVE m = 0
  <2>1. status' = "read"
    BY <1>1, GivenChild
  <2>2. PICK d : d = Depth(layout, pos')
    OBVIOUS
  <2>3. Unreduced(0 + 1) = Unreduced(0)' + Marked(Kind(Top)) /\ Unreduced(0)' = 0
    <3>1. input' = input /\ OneMore(stack', stack, Top) /\ 0 = Len(stack')
      BY <1>1, <1>2, PoppedStack DEF Returns, Finish
    <3>2. Unreduced(0)' = 0
      BY <3>1, HeldCounts, CountZero
    <3>3. \A n : n = Len(stack') => Unreduced(n + 1) = Unreduced(n)' + Marked(Kind(Top))
      BY <3>1, PoppedCounts
    <3> QED BY <3>1, <3>2, <3>3
  <2>4. Depth(layout, pos) = Marked(Kind(Top))
    BY <2>3, <1>2, <1>3 DEF Returns, Running, MarkersOk
  <2>5. Depth(layout, pos') = 0
    <3>1. CASE Marked(Kind(Top)) = 0
      <4>1. pos' = pos
        BY <3>1, <1>3
      <4> QED BY <4>1, <2>4, <3>1
    <3>2. CASE Marked(Kind(Top)) = 1
      <4>1. pos' = pos + 1 /\ layout[pos + 1].kind = "marker"
        BY <3>2, <1>3, ReturnFacts DEF Kind
      <4>2. ~RequiresReduceMarker(layout[pos + 1].kind)
        BY <4>1 DEF RequiresReduceMarker
      <4>3. Depth(layout, pos + 1) = Depth(layout, pos) + (-1)
        BY <4>1, <4>2, <1>3, DepthStep
      <4> QED BY <4>1, <4>3, <2>4, <3>2
    <3> QED BY <3>1, <3>2, <1>3
  <2>6. pos' \notin 1 .. Len(layout) - 1
    BY <2>5, WellWrittenFacts DEF Returns, ReaderTypes
  <2>7. Len(layout) \in Nat
    BY LayoutFacts DEF Returns, ReaderTypes
  <2> QED BY <2>1, <2>6, <2>7, <1>3, <1>4
<1>12. m # 0 => status' = "reading" /\ stack' # << >>
  BY <1>1, <1>2, GivenChild
<1>13. m = 0 => stack' = << >>
  <2>1. stack' \in Seq(Nodes)
    BY <1>1, PoppedStack
  <2> QED BY <2>1, <1>2
<1>14. Kind(1)' \in UnitKinds
  <2>1. Kind(1) \in UnitKinds
    BY <1>4, <1>5 DEF StackOk
  <2> QED BY <2>1 DEF Kind, layout, Returns, Finish
<1>15. layout' = layout
  BY DEF layout, Returns, Finish
<1>16. Len(stack)' = m
  BY <1>2
<1> QED
  BY <1>2, <1>4, <1>6, <1>7, <1>8, <1>10, <1>11, <1>12, <1>13, <1>14, <1>15, <1>16 DEF StackOk

\* The tree stays one when a method returns: its node becomes the last child of its caller
LEMMA PoppedTreeOk == ASSUME NEW lv, Returns(lv) PROVE TreeOk(lv)'
<1>1. PICK m : m = Len(stack) - 1
  OBVIOUS
<1>2. /\ m \in Nat /\ DOMAIN stack = 1 .. m + 1 /\ Len(stack) = m + 1
      /\ DOMAIN stack' = 1 .. m /\ Top = stack[m + 1]
      /\ \A i \in 1 .. m : stack'[i] = stack[i] /\ stack[i] \in Nodes /\ stack[i] < Top
  BY <1>1, PoppedStack
<1>3. /\ pos \in Nat /\ pos' \in Nat /\ pos <= pos' /\ Nodes \subseteq Nat \ {0}
      /\ Top \in Nodes /\ Top \in Nat /\ Top <= pos /\ Complete(Top)
      /\ \A p \in Nodes : kids[p] \in Seq(Nodes)
      /\ \A n \in Nodes : n <= pos' => n <= pos
  BY ReturnFacts DEF Marked
<1>4. TreeOk(lv) /\ StackOk(lv)
  BY DEF Returns, Running
<1>5. /\ \A n : Kind(n)' = Kind(n)
      /\ Nodes' = Nodes /\ \A l, p, k, c : Edge(l, p, k, c)' <=> Edge(l, p, k, c)
  BY SameInput, SameEdges DEF Returns, Finish
<1>6. ASSUME m = 0 PROVE kids' = kids /\ Top = 1
  BY <1>1, <1>2, <1>4, <1>6, GivenChild, ReturnFacts DEF StackOk
<1>7. ASSUME m # 0
      PROVE  /\ Caller \in Nodes /\ Caller = stack[m] /\ m \in 1 .. m /\ Caller # Top
             /\ \A n \in Nodes : n # Caller => kids'[n] = kids[n]
             /\ \A k \in 1 .. Len(kids[Caller]) : kids'[Caller][k] = kids[Caller][k]
             /\ kids'[Caller][Len(kids[Caller]) + 1] = Top
             /\ DOMAIN kids[Caller] = 1 .. Len(kids[Caller])
             /\ DOMAIN kids'[Caller] = 1 .. Len(kids[Caller]) + 1
             /\ Len(kids'[Caller]) = Len(kids[Caller]) + 1 /\ Len(kids[Caller]) \in Nat
             /\ Edge(lv, Caller, Len(kids[Caller]) + 1, Top)
  <2>1. /\ Caller \in Nodes /\ Caller = stack[m] /\ Caller < Top
        /\ kids'[Caller] = Append(kids[Caller], Top)
        /\ \A n \in Nodes : n # Caller => kids'[n] = kids[n]
        /\ Edge(lv, Caller, Len(kids[Caller]) + 1, Top)
    BY <1>1, <1>7, GivenChild
  <2>2. m \in 1 .. m /\ Caller # Top
    BY <1>1, <1>2, <1>3, <1>7, <2>1
  <2>3. kids[Caller] \in Seq(Nodes)
    BY <1>3, <2>1
  <2> QED BY <1>3, <2>1, <2>2, <2>3
\* A child of now was one before, or is the node that returned
<1>8. ASSUME NEW p \in Nodes, NEW k \in DOMAIN kids'[p]
      PROVE  \/ k \in DOMAIN kids[p] /\ kids'[p][k] = kids[p][k]
             \/ m # 0 /\ p = Caller /\ k = Len(kids[p]) + 1 /\ kids'[p][k] = Top
  <2>1. CASE m # 0 /\ p = Caller
    <3>1. k \in 1 .. Len(kids[p]) + 1 /\ Len(kids[p]) \in Nat
      BY <2>1, <1>7
    <3>2. CASE k = Len(kids[p]) + 1
      BY <3>2, <2>1, <1>7
    <3>3. CASE k \in 1 .. Len(kids[p])
      BY <3>3, <2>1, <1>7
    <3> QED BY <3>1, <3>2, <3>3
  <2>2. CASE ~(m # 0 /\ p = Caller)
    <3>1. kids'[p] = kids[p]
      BY <2>2, <1>6, <1>7
    <3> QED BY <3>1
  <2> QED BY <2>1, <2>2
<1>9. ASSUME NEW p \in Nodes, NEW k \in DOMAIN kids[p]
      PROVE  /\ kids[p][k] \in Nodes /\ kids[p][k] # Top /\ kids[p][k] <= pos
             /\ Edge(lv, p, k, kids[p][k]) /\ Complete(kids[p][k])
             /\ \A i \in 1 .. m : stack'[i] # kids[p][k]
  <2>1. kids[p][k] \in Nodes
    <3>1. kids[p] \in Seq(Nodes)
      BY <1>3
    <3> QED BY <3>1
  <2>2. \A i \in 1 .. m : i \in 1 .. m + 1
    BY <1>2
  <2>3. m + 1 \in 1 .. m + 1
    BY <1>2
  <2> QED BY <2>1, <2>2, <2>3, <1>2, <1>4 DEF TreeOk
<1>10. ASSUME NEW n \in Nodes, Complete(n) PROVE Complete(n)'
  <2>1. CASE m # 0 /\ n = Caller
    <3>1. Len(kids'[n]) >= Len(kids[n]) /\ Len(kids[n]) \in Nat /\ Len(kids'[n]) \in Nat
      BY <2>1, <1>7
    <3> QED BY <3>1, <1>5, <1>10 DEF Complete
  <2>2. CASE ~(m # 0 /\ n = Caller)
    <3>1. kids'[n] = kids[n]
      BY <2>2, <1>6, <1>7
    <3> QED BY <3>1, <1>5, <1>10 DEF Complete
  <2> QED BY <2>1, <2>2
<1>11. ASSUME NEW p \in Nodes, NEW k \in DOMAIN kids'[p], NEW q, q = kids'[p][k]
       PROVE  /\ q <= pos' /\ Edge(lv, p, k, q)' /\ Complete(q)'
              /\ \A i \in 1 .. m : stack'[i] # q
  <2>1. CASE k \in DOMAIN kids[p] /\ q = kids[p][k]
    <3>1. q \in Nodes /\ q <= pos /\ Edge(lv, p, k, q) /\ Complete(q) /\ \A i \in 1 .. m : stack'[i] # q
      BY <2>1, <1>9
    <3>2. q \in Nat
      BY <3>1, <1>3
    <3> QED BY <3>1, <3>2, <1>3, <1>5, <1>10
  <2>2. CASE m # 0 /\ p = Caller /\ k = Len(kids[p]) + 1 /\ q = Top
    <3>1. Edge(lv, p, k, q) /\ q \in Nodes /\ Complete(q) /\ q <= pos /\ q \in Nat
      BY <2>2, <1>3, <1>7
    <3>2. \A i \in 1 .. m : stack'[i] # q
      <4> TAKE i \in 1 .. m
      <4>1. stack'[i] < Top /\ stack'[i] \in Nodes
        BY <1>2
      <4>2. stack'[i] \in Nat
        BY <4>1, <1>3
      <4> QED BY <4>1, <4>2, <1>3, <2>2
    <3> QED BY <3>1, <3>2, <1>3, <1>5, <1>10
  <2> QED BY <2>1, <2>2, <1>8, <1>11
<1>12. ASSUME NEW p \in Nodes, NEW q \in Nodes, NEW j \in DOMAIN kids'[p], NEW k \in DOMAIN kids'[q],
              kids'[p][j] = kids'[q][k]
       PROVE  p = q /\ j = k
  <2>1. CASE j \in DOMAIN kids[p] /\ kids'[p][j] = kids[p][j] /\ k \in DOMAIN kids[q] /\ kids'[q][k] = kids[q][k]
    <3>1. \A a, b \in Nodes : \A i \in DOMAIN kids[a], l \in DOMAIN kids[b] :
            kids[a][i] = kids[b][l] => a = b /\ i = l
      BY <1>4 DEF TreeOk
    <3>2. kids[p][j] = kids[q][k]
      BY <2>1, <1>12
    <3> QED BY <2>1, <3>1, <3>2, Zenon
  <2> QED BY <2>1, <1>8, <1>9, <1>12
<1>13. \A n \in Nodes : n > pos' => kids'[n] = << >>
  <2> TAKE n \in Nodes
  <2> HAVE n > pos'
  <2>1. n > pos /\ n \in Nat
    BY <1>3
  <2>2. kids[n] = << >>
    BY <2>1, <1>4 DEF TreeOk
  <2>3. m # 0 => n # Caller
    <3>1. m # 0 => Caller < Top /\ Caller \in Nat
      BY <1>2, <1>3, <1>7
    <3> QED BY <3>1, <2>1, <1>3
  <2> QED BY <2>2, <2>3, <1>6, <1>7
<1>14. ASSUME NEW n \in Nodes, n <= pos'
       PROVE  \/ n = 1
              \/ \E i \in 1 .. m : stack'[i] = n
              \/ \E p \in Nodes : \E k \in DOMAIN kids'[p] : kids'[p][k] = n
  <2>1. n <= pos
    BY <1>3, <1>14
  <2>2. \/ n = 1
        \/ \E i \in 1 .. m + 1 : stack[i] = n
        \/ \E p \in Nodes : \E k \in DOMAIN kids[p] : kids[p][k] = n
    BY <2>1, <1>2, <1>4 DEF TreeOk
  <2>3. CASE n = Top
    <3>1. CASE m = 0
      BY <2>3, <3>1, <1>6
    <3>2. CASE m # 0
      <4>1. Len(kids[Caller]) + 1 \in DOMAIN kids'[Caller]
        BY <3>2, <1>7
      <4> QED BY <4>1, <2>3, <3>2, <1>7
    <3> QED BY <3>1, <3>2
  <2>4. CASE \E i \in 1 .. m + 1 : stack[i] = n /\ n # Top
    <3>1. PICK i \in 1 .. m + 1 : stack[i] = n /\ n # Top
      BY <2>4
    <3>2. i \in 1 .. m
      BY <3>1, <1>2
    <3> QED BY <3>1, <3>2, <1>2
  <2>5. CASE \E p \in Nodes : \E k \in DOMAIN kids[p] : kids[p][k] = n
    <3>1. PICK p \in Nodes : \E k \in DOMAIN kids[p] : kids[p][k] = n
      BY <2>5
    <3>2. PICK k \in DOMAIN kids[p] : kids[p][k] = n
      BY <3>1
    <3>3. k \in DOMAIN kids'[p] /\ kids'[p][k] = n
      <4>1. CASE m # 0 /\ p = Caller
        BY <4>1, <3>2, <1>7
      <4>2. CASE ~(m # 0 /\ p = Caller)
        BY <4>2, <3>2, <1>6, <1>7
      <4> QED BY <4>1, <4>2
    <3> QED BY <3>3
  <2> QED BY <2>2, <2>3, <2>4, <2>5
<1>15. \A p \in Nodes : \A k \in DOMAIN kids'[p] :
         /\ kids'[p][k] <= pos' /\ Edge(lv, p, k, kids[p][k])' /\ Complete(kids[p][k])'
         /\ \A i \in 1 .. m : stack'[i] # kids'[p][k]
  <2> TAKE p \in Nodes
  <2> TAKE k \in DOMAIN kids'[p]
  <2>1. PICK q : q = kids'[p][k]
    OBVIOUS
  <2>2. /\ q <= pos' /\ Edge(lv, p, k, q)' /\ Complete(q)'
        /\ \A i \in 1 .. m : stack'[i] # q
    BY <2>1, <1>11
  <2>3. Edge(lv, p, k, kids[p][k])' /\ Complete(kids[p][k])'
    BY <2>1, <2>2
  <2> QED BY <2>1, <2>2, <2>3
<1> QED
  BY <1>2, <1>5, <1>12, <1>13, <1>14, <1>15 DEF TreeOk

\* The stacks of modes without their last one
LEMMA ModeFronts ==
  /\ Front(<<"InsideMetaDecl">>) = << >>
  /\ Front(<<"InsideMetaDecl", "InsideComputation">>) = <<"InsideMetaDecl">>
<1>1. PICK a, b : a = "InsideMetaDecl" /\ b = "InsideComputation"
  OBVIOUS
<1>2. <<a>> \in Seq({a}) /\ <<a>> # << >> /\ Len(<<a>>) = 1
  OBVIOUS
<1>3. Front(<<a>>) \in Seq({a}) /\ Len(Front(<<a>>)) = 1 - 1
  BY <1>2, FrontSeq
<1>4. <<a, b>> \in Seq({a, b}) /\ <<a, b>> # << >> /\ Len(<<a, b>>) = 2
  OBVIOUS
<1>5. /\ Front(<<a, b>>) \in Seq({a, b}) /\ Len(Front(<<a, b>>)) = 2 - 1
      /\ \A i \in 1 .. 2 - 1 : Front(<<a, b>>)[i] = <<a, b>>[i]
  BY <1>4, FrontSeq
<1>6. Front(<<a>>) = << >>
  BY <1>3
<1>7. Front(<<a, b>>)[1] = a /\ Len(Front(<<a, b>>)) = 1
  BY <1>5
<1>8. Front(<<a, b>>) = <<a>>
  BY <1>5, <1>7
<1> QED BY <1>1, <1>6, <1>8

\* The modes that are left belong to the level of the next child
LEMMA PoppedModes ==
  ASSUME NEW lv, Returns(lv), NEW m, m = Len(stack) - 1
  PROVE  /\ m = 0 => modes' = << >>
         /\ m # 0 => modes' = ModesOf(LevelBefore(lv, Caller, Len(kids[Caller]) + 2))
         /\ m # 0 /\ Kind(Caller) = "meta" /\ Len(kids[Caller]) = 0 => lv[Caller] = "Outside"
<1>1. m \in Nat /\ stack # << >> /\ LevelsOk(lv) /\ StackOk(lv)
  BY PoppedStack, ReturnFacts DEF Returns, Running
<1>2. PICK t, k : t = Top /\ k = Len(kids[Top])
  OBVIOUS
<1>3. /\ t \in Nodes /\ t <= pos /\ kids[t] \in Seq(Nodes) /\ k \in Nat /\ Complete(t)
      /\ lv[t] \in Levels
  <2>1. t \in Nodes /\ t <= pos /\ kids[t] \in Seq(Nodes) /\ Complete(t)
    BY <1>2, ReturnFacts
  <2>2. k \in Nat
    BY <1>2, <2>1
  <2> QED BY <2>1, <2>2, <1>1 DEF LevelsOk
<1>4. modes = ModesOf(LevelBefore(lv, t, k + 1))
  BY <1>1, <1>2 DEF LevelsOk, NextLevel
<1>5. LevelFits(lv, t)
  BY <1>1, <1>3 DEF LevelsOk
<1>6. /\ Front(<<"InsideMetaDecl">>) = << >>
      /\ Front(<<"InsideMetaDecl", "InsideComputation">>) = <<"InsideMetaDecl">>
      /\ Mode(<<"InsideMetaDecl">>) = "InsideMetaDecl"
      /\ Mode(<<"InsideMetaDecl", "InsideComputation">>) = "InsideComputation"
  BY ModeFronts DEF Mode, Last
<1>7. PICK ms : ms = LeaveMode(Kind(t), modes)
  OBVIOUS
<1>8. CASE m = 0
  <2>1. t = 1 /\ pos > 0
    <3>1. stack[1] = 1 /\ Top = stack[1]
      BY <1>1, <1>8, PoppedStack DEF StackOk
    <3>2. pos \in Nat /\ 1 <= pos
      BY <3>1, <1>2, <1>3, ReturnFacts
    <3> QED BY <3>1, <3>2, <1>2
  <2>2. Kind(t) \in UnitKinds /\ lv[t] = "Outside"
    BY <1>1, <2>1 DEF StackOk, LevelsOk
  <2>3. modes = << >>
    BY <1>4, <2>2 DEF LevelBefore, ModesOf, UnitKinds
  <2>4. ms = << >>
    BY <1>7, <2>2, <2>3 DEF LeaveMode, UnitKinds
  <2> QED BY <1>2, <1>7, <1>8, <2>4, GivenChild
<1>9. CASE m # 0
  <2>1. PICK c, j : c = Caller /\ j = Len(kids[Caller])
    OBVIOUS
  <2>2. /\ c \in Nodes /\ j \in Nat /\ Edge(lv, c, j + 1, t) /\ c <= pos
        /\ Kind(c) = "meta" /\ j = 0 => Mode(ms) = "Outside"
        /\ modes' = ModesBehind(c, j + 1, ms)
    <3>1. /\ Caller \in Nodes /\ Len(kids[Caller]) \in Nat /\ Caller < Top
          /\ Edge(lv, Caller, Len(kids[Caller]) + 1, Top)
          /\ Kind(Caller) = "meta" /\ Len(kids[Caller]) = 0
               => Mode(LeaveMode(Kind(Top), modes)) = "Outside"
          /\ modes' = ModesBehind(Caller, Len(kids[Caller]) + 1, LeaveMode(Kind(Top), modes))
      BY <1>9, GivenChild
    <3>2. c \in Nat /\ t \in Nat /\ pos \in Nat
      BY <3>1, <2>1, <1>2, ReturnFacts
    <3>3. c < t /\ t <= pos
      BY <3>1, <2>1, <1>2, <1>3
    <3>4. c <= pos
      BY <3>2, <3>3
    <3> QED BY <3>1, <3>4, <2>1, <1>2, <1>7, Zenon
  <2>3. /\ lv[t] = LevelOf(lv, c, j + 1, t) /\ ChildFits(c, j + 1, t)
        /\ Kind(t) \in {"metaIf", "metaCalculation"} => LevelBefore(lv, c, j + 1) = "InsideMetaDecl"
    BY <2>2 DEF Edge
  <2>4. LevelFits(lv, c) /\ lv[c] \in Levels
    BY <1>1, <2>2 DEF LevelsOk
  <2>5. ms = ModesOf(LevelBefore(lv, c, j + 1))
    <3>1. CASE Kind(t) = "meta"
      <4>1. k >= 2 /\ kids[t] # << >>
        BY <3>1, <1>2, <1>3 DEF Complete
      <4>2. modes = <<"InsideMetaDecl">>
        BY <3>1, <4>1, <1>3, <1>4 DEF LevelBefore, ModesOf
      <4>3. ms = << >>
        BY <3>1, <4>2, <1>6, <1>7 DEF LeaveMode
      <4>4. lv[t] = "Outside" /\ LevelOf(lv, c, j + 1, t) = LevelBefore(lv, c, j + 1)
        BY <3>1, <4>1, <1>5 DEF LevelFits, LevelOf
      <4> QED BY <4>3, <4>4, <2>3 DEF ModesOf
    <3>2. CASE Kind(t) = "metaCalculation"
      <4>1. modes = <<"InsideMetaDecl", "InsideComputation">>
        BY <3>2, <1>4, <1>5 DEF LevelBefore, ModesOf, LevelFits
      <4>2. ms = <<"InsideMetaDecl">>
        BY <3>2, <4>1, <1>6, <1>7 DEF LeaveMode
      <4> QED BY <3>2, <4>2, <2>3 DEF ModesOf
    <3>3. CASE Kind(t) \notin {"meta", "metaCalculation"}
      <4>1. ms = modes
        BY <3>3, <1>7 DEF LeaveMode
      <4>2. LevelBefore(lv, t, k + 1) = lv[t]
        <5>1. Kind(t) = "metaIf" => k + 1 # 1
          BY <1>2, <1>3 DEF Complete
        <5> QED BY <5>1, <3>3 DEF LevelBefore
      <4>3. lv[t] = LevelBefore(lv, c, j + 1)
        BY <3>3, <2>3 DEF LevelOf
      <4> QED BY <4>1, <4>2, <4>3, <1>4
    <3> QED BY <3>1, <3>2, <3>3
  <2>6. Kind(c) = "meta" /\ j = 0 => lv[c] = "Outside"
    <3> HAVE Kind(c) = "meta" /\ j = 0
    <3>1. LevelBefore(lv, c, j + 1) = lv[c]
      BY DEF LevelBefore
    <3> QED BY <3>1, <2>2, <2>4, <2>5, <1>6 DEF ModesOf, Levels
  <2>7. modes' = ModesOf(LevelBefore(lv, c, j + 2))
    <3>1. CASE Kind(c) = "meta" /\ j = 0
      <4>1. ms = << >>
        BY <3>1, <2>5, <2>6 DEF LevelBefore, ModesOf
      <4>2. Append(<< >>, "InsideMetaDecl") = <<"InsideMetaDecl">>
        OBVIOUS
      <4>3. modes' = <<"InsideMetaDecl">>
        BY <3>1, <4>1, <4>2, <2>2 DEF ModesBehind
      <4> QED BY <3>1, <4>3 DEF LevelBefore, ModesOf
    <3>2. CASE Kind(c) = "metaIf" /\ j = 0
      <4>1. ms = <<"InsideMetaDecl", "InsideComputation">>
        BY <3>2, <2>5 DEF LevelBefore, ModesOf
      <4>2. modes' = <<"InsideMetaDecl">>
        BY <3>2, <4>1, <1>6, <2>2 DEF ModesBehind
      <4> QED BY <3>2, <4>2, <2>4 DEF LevelBefore, ModesOf, LevelFits
    <3>3. CASE ~(Kind(c) \in {"meta", "metaIf"} /\ j = 0)
      <4>1. j + 1 # 1 \/ Kind(c) \notin {"meta", "metaIf"}
        BY <3>3, <2>2
      <4>2. modes' = ms
        BY <4>1, <2>2 DEF ModesBehind
      <4>3. j + 2 # 1
        BY <2>2
      <4>4. LevelBefore(lv, c, j + 2) = LevelBefore(lv, c, j + 1)
        BY <4>1, <4>3 DEF LevelBefore
      <4> QED BY <4>2, <4>4, <2>5
    <3> QED BY <3>1, <3>2, <3>3
  <2> QED BY <1>9, <2>1, <2>6, <2>7
<1> QED BY <1>8, <1>9

\* Levels, resolved references and modes still agree when a method returns
LEMMA PoppedLevelsOk ==
  ASSUME NEW lv, Returns(lv), errors \subseteq errors'
  PROVE  LevelsOk(lv)'
<1>1. PICK m : m = Len(stack) - 1
  OBVIOUS
<1>2. /\ LevelsOk(lv) /\ m \in Nat /\ decl' = decl /\ DOMAIN decl \subseteq Nodes
      /\ \A n : Kind(n)' = Kind(n)
      /\ Nodes' = Nodes
  BY <1>1, SameInput, PoppedStack DEF Returns, Running, Finish, ReaderTypes, DeclMaps, MapsOf
<1>3. /\ pos \in Nat \ {0} /\ pos' \in Nat /\ pos <= pos' /\ Nodes \subseteq Nat
      /\ \A n \in Nodes : n <= pos' => n <= pos
  BY ReturnFacts DEF Marked
<1>4. m = 0 => kids' = kids /\ stack' = << >>
  <2>1. m = 0 => stack' = << >>
    <3>1. stack' \in Seq(Nodes) /\ Len(stack') = m
      BY <1>1, PoppedStack
    <3> QED BY <3>1
  <2> QED BY <2>1, <1>1, GivenChild
<1>5. ASSUME m # 0
      PROVE  /\ stack' # << >> /\ Caller \in Nodes
             /\ Len(kids'[Caller]) + 1 = Len(kids[Caller]) + 2 /\ Len(kids[Caller]) \in Nat
             /\ \A n \in Nodes : n # Caller => kids'[n] = kids[n]
             /\ kids[Caller] = << >> => Len(kids[Caller]) = 0
  <2>1. stack' # << >>
    BY <1>1, <1>5, PoppedStack
  <2>2. Caller \in Nodes /\ Len(kids'[Caller]) = Len(kids[Caller]) + 1 /\ Len(kids[Caller]) \in Nat
        /\ \A n \in Nodes : n # Caller => kids'[n] = kids[n]
    BY <1>1, <1>5, GivenChild
  <2> QED BY <2>1, <2>2
<1>6. modes' = ModesOf(NextLevel(lv)')
  <2>1. CASE m = 0
    BY <2>1, <1>1, <1>4, PoppedModes DEF NextLevel, ModesOf
  <2>2. CASE m # 0
    <3>1. modes' = ModesOf(LevelBefore(lv, Caller, Len(kids[Caller]) + 2))
      BY <2>2, <1>1, PoppedModes
    <3>2. NextLevel(lv)' = LevelBefore(lv, Top, Len(kids[Top]) + 1)'
      BY <2>2, <1>5 DEF NextLevel
    <3>3. LevelBefore(lv, Top, Len(kids[Top]) + 1)' = LevelBefore(lv, Caller, Len(kids[Caller]) + 2)
      <4>1. PICK c, k : c = Caller /\ k = Len(kids[Caller]) + 2
        OBVIOUS
      <4>2. Top' = c /\ Len(kids'[c]) + 1 = k
        BY <4>1, <2>2, <1>5 DEF Top, Caller
      <4>3. LevelBefore(lv, c, k)' = LevelBefore(lv, c, k)
        BY <1>2 DEF LevelBefore
      <4>4. LevelBefore(lv, Top, Len(kids[Top]) + 1)' = LevelBefore(lv, c, k)'
        BY <4>2 DEF LevelBefore
      <4> QED BY <4>1, <4>3, <4>4
    <3> QED BY <3>1, <3>2, <3>3
  <2> QED BY <2>1, <2>2
<1>7. ASSUME NEW n \in Nodes, n <= pos' PROVE LevelFits(lv, n)'
  <2>1. LevelFits(lv, n)
    BY <1>2, <1>3, <1>7 DEF LevelsOk
  <2>2. Kind(n) = "meta" /\ kids'[n] # << >> => lv[n] = "Outside"
    <3>1. CASE m # 0 /\ n = Caller /\ kids[n] = << >>
      BY <3>1, <1>1, <1>5, PoppedModes
    <3>2. CASE kids[n] # << >>
      BY <2>1, <3>2 DEF LevelFits
    <3>3. CASE ~(m # 0 /\ n = Caller)
      <4>1. kids'[n] = kids[n]
        BY <3>3, <1>4, <1>5
      <4> QED BY <4>1, <2>1 DEF LevelFits
    <3> QED BY <3>1, <3>2, <3>3
  <2> QED BY <2>1, <2>2, <1>2 DEF LevelFits
<1>8. ASSUME NEW r \in Nodes, r <= pos', Kind(r) = "ref" PROVE RefFits(lv, r)'
  <2>1. RefFits(lv, r)
    BY <1>2, <1>3, <1>8 DEF LevelsOk
  <2> QED BY <2>1, <1>2 DEF RefFits
<1>9. \A r \in DOMAIN decl' : r <= pos'
  <2> TAKE r \in DOMAIN decl'
  <2>1. r \in DOMAIN decl /\ r <= pos /\ r \in Nat
    BY <1>2, <1>3 DEF LevelsOk
  <2> QED BY <2>1, <1>3
<1>10. lv \in [Nodes -> Levels] /\ lv[1] = "Outside"
  BY <1>2, <1>3 DEF LevelsOk
<1> QED
  BY <1>2, <1>3, <1>6, <1>7, <1>8, <1>9, <1>10 DEF LevelsOk

\* The markers that are left belong to the methods running, when one has returned
LEMMA PoppedMarkersOk == ASSUME NEW lv, Returns(lv) PROVE MarkersOk'
<1>1. PICK m : m = Len(stack) - 1
  OBVIOUS
<1>2. m \in Nat /\ OneMore(stack', stack, Top) /\ Len(stack)' = m /\ Len(stack) = m + 1
  BY <1>1, PoppedStack
<1>3. Unreduced(m + 1) = Unreduced(m)' + Marked(Kind(Top)) /\ Unreduced(m)' \in Nat
  BY <1>2, PoppedCounts DEF Returns, Finish
<1>4. /\ pos \in Nat /\ pos' = pos + Marked(Kind(Top)) /\ Marked(Kind(Top)) \in {0, 1}
      /\ Marked(Kind(Top)) = 1 => layout[pos + 1].kind = "marker"
  BY ReturnFacts DEF Marked, Kind
<1>5. Depth(layout, pos) = Unreduced(m + 1)
  BY <1>2 DEF Returns, Running, MarkersOk
<1>6. Depth(layout, pos') = Depth(layout, pos) - Marked(Kind(Top)) /\ Depth(layout, pos) \in Int
  <2>1. CASE Marked(Kind(Top)) = 0
    <3>1. pos' = pos
      BY <2>1, <1>4
    <3> QED BY <2>1, <3>1, <1>4, DepthStep
  <2>2. CASE Marked(Kind(Top)) = 1
    <3>1. ~RequiresReduceMarker("marker")
      BY DEF RequiresReduceMarker
    <3>2. Depth(layout, pos + 1) = Depth(layout, pos) + (-1) /\ Depth(layout, pos) \in Int
      BY <2>2, <3>1, <1>4, DepthStep
    <3> QED BY <2>2, <3>2, <1>4
  <2> QED BY <2>1, <2>2, <1>4
<1>7. Depth(layout, pos') = Unreduced(m)'
  BY <1>3, <1>4, <1>5, <1>6
<1>8. Unreduced(Len(stack))' = Unreduced(m)' /\ layout' = layout /\ status' # "crawling"
  <2>1. Unreduced(Len(stack))' = Unreduced(m)' /\ layout' = layout
    BY <1>2 DEF Unreduced, layout, Returns, Finish
  <2>2. status' # "crawling"
    BY <1>1, GivenChild
  <2> QED BY <2>1, <2>2
<1> QED BY <1>7, <1>8 DEF MarkersOk

\* All of this together when a method returns
LEMMA PoppedRunning ==
  ASSUME NEW lv, Returns(lv), errors \subseteq errors' PROVE RunningOk'
<1>1. StackOk(lv)' /\ TreeOk(lv)' /\ LevelsOk(lv)' /\ MarkersOk'
  BY PoppedStackOk, PoppedTreeOk, PoppedLevelsOk, PoppedMarkersOk
<1> QED BY <1>1 DEF RunningOk

(***************************************************************************)
(* Every step of the reader keeps the invariant.                           *)
(***************************************************************************)
LEMMA TypesKept ==
  ASSUME ReaderTypes, input' = input, units' = units,
         pos' \in 0 .. Len(layout), stack' \in Seq(Nodes), kids' \in [Positions -> Seq(Nodes)],
         decl' \in DeclMaps, Scoping' \in ScopingType, modes' \in Seq(ModeType),
         exported' \in Nodes \cup {None}, crawl' \in Positions \cup {None},
         status' \in {"reading", "crawling", "read"} \cup Failures
  PROVE  ReaderTypes'
<1>1. layout' = layout /\ Nodes' = Nodes /\ Positions' = Positions
      /\ DeclMaps' = DeclMaps /\ ScopingType' = ScopingType
  BY SameInput
<1>2. InputOk'
  BY <1>1 DEF ReaderTypes, InputOk
<1> QED BY <1>1, <1>2 DEF ReaderTypes

\* The record behind introduce has its type
LEMMA ScopingTyped ==
  ASSUME scopes' \in Seq(ScopeType), exports' \in [Positions -> Seq(Nodes)],
         errors' \subseteq ErrorType
  PROVE  Scoping' \in ScopingType
  BY DEF Scoping, ScopingType

\* The scope of the unit is there as long as anything is consumed
LEMMA ScopeOfUnit ==
  ASSUME ReaderTypes, ScopesOk, stack # << >>
  PROVE  scopes # << >> /\ scopes[1].kind = "consistent"
<1>1. PICK n \in Nat \ {0} : n = Len(stack)
  BY FrontSeq DEF ReaderTypes
<1>2. {j \in 1 .. n : HoldsScope(Kind(stack[j]))} = {j \in 1 .. n : j \in HeldIn(stack)}
  BY DEF HeldIn
<1>3. ScopesHeld(n) = Count(HeldIn(stack), n)
  BY <1>2 DEF ScopesHeld, Count
<1>4. 1 \in HeldIn(stack) /\ 1 <= n
  BY <1>1 DEF HeldIn, ScopesOk
<1>5. 0 < Count(HeldIn(stack), 1) /\ Count(HeldIn(stack), 1) <= Count(HeldIn(stack), n)
      /\ Count(HeldIn(stack), 1) \in Nat /\ Count(HeldIn(stack), n) \in Nat
  <2>1. PICK H : H = HeldIn(stack)
    OBVIOUS
  <2>2. 1 \in Nat /\ n \in Nat /\ 1 \in H
    BY <1>4, <2>1
  <2>3. Count(H, 1) <= Count(H, n) /\ (1 \in H /\ 0 < 1 => 0 < Count(H, 1))
    BY <1>4, <2>2, CountOrder
  <2>4. Count(H, 1) \in Nat /\ Count(H, n) \in Nat
    BY <2>2, CountStep
  <2> QED BY <2>1, <2>2, <2>3, <2>4
<1>6. Len(scopes) # 0
  BY <1>1, <1>3, <1>5 DEF ScopesOk
<1>7. scopes # << >>
  BY <1>6
<1> QED BY <1>7 DEF ScopesOk

\* A decl that is introduced
LEMMA Introduced ==
  ASSUME ReaderTypes, ScopesOk, stack # << >>, NEW n \in Nodes, IsNamedDecl(n), NEW x
  PROVE  /\ Introduce(Scoping, n, x) \in ScopingType
         /\ SameScopes(scopes, Introduce(Scoping, n, x).scopes)
         /\ errors \subseteq Introduce(Scoping, n, x).errors
<1>1. Name(n) \in Names /\ Nodes \subseteq Positions
  BY LayoutFacts DEF ReaderTypes, IsNamedDecl
<1>2. /\ Scoping \in ScopingType /\ Scoping.scopes = scopes /\ Scoping.errors = errors
  BY ScopingFields DEF ReaderTypes
<1>3. scopes # << >> /\ scopes[1].kind = "consistent"
  BY ScopeOfUnit
<1>4. PICK s : s = Scoping
  OBVIOUS
<1>5. s \in ScopingType /\ s.scopes # << >> /\ s.scopes[1].kind # "inplace"
  BY <1>2, <1>3, <1>4
<1>6. /\ Introduce(s, n, x) \in ScopingType
      /\ SameScopes(s.scopes, Introduce(s, n, x).scopes)
      /\ s.errors \subseteq Introduce(s, n, x).errors
  BY <1>1, <1>5, IntroduceKeepsScopes
<1> QED BY <1>2, <1>4, <1>6

\* A step that leaves the scopes alone keeps them
LEMMA Unchanged ==
  ASSUME ReaderTypes
  PROVE  SameScopes(scopes, scopes) /\ errors \subseteq errors
  BY ScopingFields DEF ReaderTypes, SameScopes

\* The stack of modes when a computation is entered
LEMMA ModesPushed ==
  Append(<<"InsideMetaDecl">>, "InsideComputation") = <<"InsideMetaDecl", "InsideComputation">>
<1>1. PICK a, b : a = "InsideMetaDecl" /\ b = "InsideComputation"
  OBVIOUS
<1>2. PICK r : r = Append(<<a>>, b)
  OBVIOUS
<1>3. <<a>> \in Seq({a, b}) /\ Len(<<a>>) = 1 /\ <<a>>[1] = a
  OBVIOUS
<1>4. r \in Seq({a, b}) /\ Len(r) = 1 + 1 /\ r[1 + 1] = b /\ \A i \in 1 .. 1 : r[i] = <<a>>[i]
  BY <1>2, <1>3, PushedSeq
<1>5. r \in Seq({a, b}) /\ Len(r) = 2 /\ r[1] = a /\ r[2] = b
  BY <1>3, <1>4
<1>6. r = <<a, b>>
  BY <1>5
<1> QED BY <1>1, <1>2, <1>6

\* The modes tell the level
LEMMA ModeOfLevel ==
  ASSUME NEW level \in Levels
  PROVE  Mode(ModesOf(level)) = level
  BY DEF Mode, ModesOf, Levels, Last

Enters(c) == Kind(c) \in {"metaIf", "metaCalculation"}
\* All parts of the invariant together when a method is called
LEMMA CallKeeps ==
  ASSUME NEW lv, ReaderTypes, Running(lv), status = "reading", stack # << >>,
         NEW c, c = pos + 1, c \in Nodes, ChildFits(Top, Len(kids[Top]) + 1, c),
         Pushes(c), status' = "reading", errors \subseteq errors',
         modes' = IF Enters(c) THEN Append(modes, "InsideComputation") ELSE modes,
         Enters(c) => Mode(modes) = "InsideMetaDecl",
         Kind(c) # "ref" => decl' = decl,
         \A r : r # c => (r \in DOMAIN decl' <=> r \in DOMAIN decl),
         Kind(c) = "ref" => IF MayResolve THEN c \in DOMAIN decl' \/ <<"unknown", c>> \in errors'
                            ELSE c \notin DOMAIN decl'
  PROVE  RunningOk'
<1>1. LevelsOk(lv) /\ modes = ModesOf(NextLevel(lv))
  BY DEF Running, LevelsOk
<1>2. NextLevel(lv) \in Levels
  <2>1. Top \in Nodes
    BY FrontSeq DEF ReaderTypes, Top
  <2> QED BY <2>1, <1>1 DEF NextLevel, LevelBefore, Levels, LevelsOk
<1>3. Mode(modes) = NextLevel(lv)
  BY <1>1, <1>2, ModeOfLevel
<1>4. CallStep(lv, c)
  BY <1>3 DEF CallStep, Enters
<1>5. PICK w : w = Called(lv, c)
  OBVIOUS
<1>6. w[c] = LevelOf(lv, Top, Len(kids[Top]) + 1, c) /\ (Kind(c) # "metaCalculation" => w[c] = NextLevel(lv))
  BY <1>4, <1>5, CalledLevels, CalledEdges
<1>7. modes' = ModesOf(LevelBefore(w, c, 1))
  <2>1. CASE Enters(c)
    <3>1. modes = <<"InsideMetaDecl">>
      BY <2>1, <1>1, <1>3 DEF ModesOf
    <3>2. modes' = <<"InsideMetaDecl", "InsideComputation">>
      BY <2>1, <3>1, ModesPushed
    <3>3. LevelBefore(w, c, 1) = "InsideComputation"
      BY <2>1, <1>6 DEF Enters, LevelBefore, LevelOf
    <3> QED BY <3>2, <3>3 DEF ModesOf
  <2>2. CASE ~Enters(c)
    <3>1. LevelBefore(w, c, 1) = NextLevel(lv)
      BY <2>2, <1>6 DEF Enters, LevelBefore
    <3> QED BY <2>2, <3>1, <1>1
  <2> QED BY <2>1, <2>2
<1>8. c \notin DOMAIN decl
  <2>1. \A r \in DOMAIN decl : r <= pos
    BY <1>1 DEF LevelsOk
  <2>2. pos < c /\ pos \in Nat /\ c \in Nat
    BY <1>4, CallFacts
  <2>3. ~(c <= pos)
    BY <2>2
  <2> QED BY <2>1, <2>3
<1>9. Kind(c) = "ref" => (MayResolve <=> w[c] # "InsideMetaDecl")
  BY <1>3, <1>6 DEF MayResolve
<1>10. Resolves(c, w)
  BY <1>7, <1>8, <1>9 DEF Resolves
<1> QED BY <1>4, <1>5, <1>10, PushedRunning

\* What every method does that is called by another one
LEMMA ConsumedNode ==
  ASSUME ReaderInv, NEW ks \in SUBSET Kinds, Consumes(ks), Shift, ks \cap UnitKinds = {},
         input' = input, units' = units, kids' = kids, NEW c, c = pos + 1
  PROVE  /\ status = "reading" /\ stack # << >> /\ c \in Nodes /\ Kind(c) \in ks /\ Pushes(c)
         /\ ChildFits(Top, Len(kids[Top]) + 1, c)
         /\ pos' \in 0 .. Len(layout) /\ stack' \in Seq(Nodes)
         /\ OneMore(stack, stack', c)
<1> USE DEF ReaderInv
<1>1. /\ status = "reading" /\ pos \in Nat /\ c <= Len(layout)
      /\ c \in Nodes /\ Kind(c) \in ks
      /\ stack = << >> => pos = 0 /\ Kind(c) \in UnitKinds
      /\ stack # << >> => Top \in Nodes /\ kids[Top] \in Seq(Nodes)
      /\ stack # << >> /\ pos # 0 => ChildFits(Top, Len(kids[Top]) + 1, c)
  BY ConsumeFits
<1>2. stack # << >>
  BY <1>1
<1>3. PICK lv : StackOk(lv)
  BY <1>1 DEF RunningOk, Failures
<1>4. pos # 0
  BY <1>1, <1>2, <1>3 DEF StackOk
<1>5. Pushes(c)
  BY DEF Pushes, Shift
<1>6. stack \in Seq(Nodes) /\ stack' = Append(stack, c)
  BY <1>5 DEF Pushes, ReaderTypes
<1>7. stack' \in Seq(Nodes) /\ OneMore(stack, stack', c)
  BY <1>1, <1>6, PushedSeq DEF OneMore
<1>8. pos' \in 0 .. Len(layout)
  <2>1. Len(layout) \in Nat
    BY LayoutFacts DEF ReaderTypes
  <2> QED BY <2>1, <1>1 DEF Shift
<1> QED BY <1>1, <1>2, <1>4, <1>5, <1>7, <1>8

\* A node that is only built, or that enters a scope or a mode
LEMMA BuildKeeps ==
  ASSUME ReaderInv, NEW ks \in SUBSET Kinds, Consumes(ks), Shift, ks \cap UnitKinds = {},
         UNCHANGED <<units, input, crawl, kids, decl, exports, errors, exported>>,
         "ref" \notin ks,
         IF HoldsScope(Kind(pos + 1)) THEN Entered(pos + 1) ELSE SameScopes(scopes, scopes'),
         IF Enters(pos + 1) THEN EnterMode("InsideMetaDecl", "InsideComputation")
         ELSE modes' = modes /\ status' = status
  PROVE  ReaderInv'
<1>1. PICK c : c = pos + 1
  OBVIOUS
<1>2. /\ status = "reading" /\ stack # << >> /\ c \in Nodes /\ Kind(c) \in ks /\ Pushes(c)
      /\ ChildFits(Top, Len(kids[Top]) + 1, c)
      /\ pos' \in 0 .. Len(layout) /\ stack' \in Seq(Nodes)
      /\ OneMore(stack, stack', c)
  BY <1>1, ConsumedNode
<1>3. ReaderTypes /\ ScopesOk
  BY DEF ReaderInv
<1>4. /\ scopes \in Seq(ScopeType) /\ exports \in [Positions -> Seq(Nodes)]
      /\ errors \subseteq ErrorType
  BY <1>3, ScopingFields DEF ReaderTypes
<1>5. ScopesOk' /\ scopes' \in Seq(ScopeType)
  <2>1. IF HoldsScope(Kind(c)) THEN Entered(c) ELSE SameScopes(scopes, scopes')
    BY <1>1
  <2>2. input' = input /\ stack \in Seq(Nodes)
    BY <1>3 DEF ReaderTypes
  <2> QED BY <1>2, <1>3, <1>4, <2>1, <2>2, ScopesPushed
<1>6. modes \in Seq(ModeType) /\ modes' \in Seq(ModeType)
      /\ status' \in {"reading", "wrongMode"}
  <2>1. modes \in Seq(ModeType)
    BY <1>3 DEF ReaderTypes
  <2>2. "InsideComputation" \in ModeType
    BY DEF ModeType
  <2>3. Append(modes, "InsideComputation") \in Seq(ModeType)
    BY <2>1, <2>2, PushedSeq
  <2> QED BY <2>1, <2>3, <1>1, <1>2 DEF EnterMode
<1>7. ReaderTypes'
  <2>1. Scoping' \in ScopingType
    BY <1>4, <1>5, ScopingTyped
  <2>2. /\ kids' \in [Positions -> Seq(Nodes)] /\ decl' \in DeclMaps
        /\ exported' \in Nodes \cup {None} /\ crawl' \in Positions \cup {None}
    BY <1>3 DEF ReaderTypes
  <2>3. status' \in {"reading", "crawling", "read"} \cup Failures
    BY <1>6 DEF Failures
  <2> QED BY <1>2, <1>3, <1>6, <2>1, <2>2, <2>3, TypesKept
<1>8. ASSUME status' \notin Failures PROVE RunningOk'
  <2>1. status' = "reading"
    BY <1>6, <1>8 DEF Failures
  <2>2. PICK lv : Running(lv)
    BY <1>2 DEF ReaderInv, Failures, RunningOk, Running
  <2>3. Enters(c) => Mode(modes) = "InsideMetaDecl" /\ modes' = Append(modes, "InsideComputation")
    BY <2>1, <1>1 DEF EnterMode
  <2>4. Kind(c) # "ref" /\ errors \subseteq errors' /\ decl' = decl
    BY <1>2
  <2>5. modes' = IF Enters(c) THEN Append(modes, "InsideComputation") ELSE modes
    BY <2>3, <1>1
  <2> QED BY <1>1, <1>2, <1>3, <2>1, <2>2, <2>3, <2>4, <2>5, CallKeeps
<1> QED BY <1>5, <1>7, <1>8 DEF ReaderInv

\* A function, meta decl or compound is consumed
LEMMA ScopedKeeps == ASSUME ReaderInv, ConsumeScoped PROVE ReaderInv'
<1>1. PICK ks : ks = {"function", "meta", "compound"}
  OBVIOUS
<1>2. /\ ks \in SUBSET Kinds /\ ks \cap UnitKinds = {} /\ "ref" \notin ks /\ Consumes(ks) /\ Shift
      /\ \A kind \in ks : HoldsScope(kind) /\ kind \notin {"metaIf", "metaCalculation"}
  BY <1>1 DEF ConsumeScoped, Kinds, StmtKinds, OtherKinds, UnitKinds, HoldsScope
<1>3. /\ UNCHANGED <<units, input, crawl, kids, decl, exports, errors, exported>>
      /\ modes' = modes /\ status' = status
  BY DEF ConsumeScoped, treeVars
<1>4. Kind(pos + 1) \in ks /\ stack # << >>
  BY <1>2, <1>3, ConsumedNode
<1>5. Entered(pos + 1)
  <2>1. scopes' = Append(scopes, Scope("temporary", pos + 1)) /\ "temporary" \in ScopeKinds
    BY DEF ConsumeScoped, EnterScope, ScopeKinds
  <2> QED BY <2>1, <1>4 DEF Entered
<1>6. HoldsScope(Kind(pos + 1)) /\ ~Enters(pos + 1)
  BY <1>2, <1>4 DEF Enters
<1> QED BY <1>2, <1>3, <1>5, <1>6, BuildKeeps

\* A meta if is consumed
LEMMA MetaIfKeeps == ASSUME ReaderInv, ConsumeMetaIf PROVE ReaderInv'
<1>1. PICK ks : ks = {"metaIf"}
  OBVIOUS
<1>2. /\ ks \in SUBSET Kinds /\ ks \cap UnitKinds = {} /\ "ref" \notin ks /\ Consumes(ks) /\ Shift
      /\ \A kind \in ks : ~HoldsScope(kind) /\ kind \in {"metaIf", "metaCalculation"}
  BY <1>1 DEF ConsumeMetaIf, Kinds, StmtKinds, UnitKinds, HoldsScope
<1>3. /\ UNCHANGED <<units, input, crawl, kids, decl, exports, errors, exported>>
      /\ EnterMode("InsideMetaDecl", "InsideComputation")
      /\ scopes' = scopes
  BY DEF ConsumeMetaIf, treeVars, scopeVars
<1>4. Kind(pos + 1) \in ks
  BY <1>2, <1>3, ConsumedNode
<1>5. SameScopes(scopes, scopes')
  BY <1>3, Unchanged DEF ReaderInv
<1>6. ~HoldsScope(Kind(pos + 1)) /\ Enters(pos + 1)
  BY <1>2, <1>4 DEF Enters
<1> QED BY <1>2, <1>3, <1>5, <1>6, BuildKeeps

\* A meta calculation is consumed
LEMMA MetaCalculationKeeps == ASSUME ReaderInv, ConsumeMetaCalculation PROVE ReaderInv'
<1>1. PICK ks : ks = {"metaCalculation"}
  OBVIOUS
<1>2. /\ ks \in SUBSET Kinds /\ ks \cap UnitKinds = {} /\ "ref" \notin ks /\ Consumes(ks) /\ Shift
      /\ \A kind \in ks : HoldsScope(kind) /\ kind \in {"metaIf", "metaCalculation"}
  BY <1>1 DEF ConsumeMetaCalculation, Kinds, StmtKinds, UnitKinds, HoldsScope
<1>3. /\ UNCHANGED <<units, input, crawl, kids, decl, exports, errors, exported>>
      /\ EnterMode("InsideMetaDecl", "InsideComputation")
  BY DEF ConsumeMetaCalculation, treeVars
<1>4. Kind(pos + 1) \in ks /\ stack # << >>
  BY <1>2, <1>3, ConsumedNode
<1>5. Entered(pos + 1)
  <2>1. scopes' = Append(scopes, Scope("inplace", pos + 1)) /\ "inplace" \in ScopeKinds
    BY DEF ConsumeMetaCalculation, EnterScope, ScopeKinds
  <2> QED BY <2>1, <1>4 DEF Entered
<1>6. HoldsScope(Kind(pos + 1)) /\ Enters(pos + 1)
  BY <1>2, <1>4 DEF Enters
<1> QED BY <1>2, <1>3, <1>5, <1>6, BuildKeeps

\* A node that is only built is consumed
LEMMA OtherKeeps == ASSUME ReaderInv, ConsumeOther PROVE ReaderInv'
<1>1. PICK ks : ks = Kinds \ {"compilationUnit", "metaUnit", "function", "meta", "compound",
                              "metaIf", "metaCalculation", "arg", "ref"}
  OBVIOUS
<1>2. /\ ks \in SUBSET Kinds /\ ks \cap UnitKinds = {} /\ "ref" \notin ks /\ Consumes(ks) /\ Shift
      /\ \A kind \in ks : ~HoldsScope(kind) /\ kind \notin {"metaIf", "metaCalculation"}
  BY <1>1 DEF ConsumeOther, UnitKinds, HoldsScope
<1>3. /\ UNCHANGED <<units, input, crawl, kids, decl, exports, errors, exported>>
      /\ modes' = modes /\ status' = status /\ scopes' = scopes
  BY DEF ConsumeOther, treeVars, scopeVars
<1>4. Kind(pos + 1) \in ks
  BY <1>2, <1>3, ConsumedNode
<1>5. SameScopes(scopes, scopes')
  BY <1>3, Unchanged DEF ReaderInv
<1>6. ~HoldsScope(Kind(pos + 1)) /\ ~Enters(pos + 1)
  BY <1>2, <1>4 DEF Enters
<1> QED BY <1>2, <1>3, <1>5, <1>6, BuildKeeps

\* An argument is introduced unless it is only contributed
LEMMA ArgumentKeeps == ASSUME ReaderInv, ConsumeArgument PROVE ReaderInv'
<1>1. PICK ks : ks = {"arg"}
  OBVIOUS
<1>2. PICK c : c = pos + 1
  OBVIOUS
<1>3. /\ ks \in SUBSET Kinds /\ ks \cap UnitKinds = {} /\ Consumes(ks) /\ Shift
      /\ UNCHANGED <<units, input, crawl, kids, decl, modes, exported, status>>
  BY <1>1 DEF ConsumeArgument, Kinds, OtherKinds, UnitKinds, treeVars
<1>4. /\ status = "reading" /\ stack # << >> /\ c \in Nodes /\ Kind(c) \in ks /\ Pushes(c)
      /\ ChildFits(Top, Len(kids[Top]) + 1, c)
      /\ pos' \in 0 .. Len(layout) /\ stack' \in Seq(Nodes)
      /\ OneMore(stack, stack', c)
  BY <1>2, <1>3, ConsumedNode
<1>5. Kind(c) = "arg" /\ ~HoldsScope(Kind(c)) /\ ~Enters(c)
  BY <1>1, <1>4 DEF HoldsScope, Enters
<1>6. ReaderTypes /\ ScopesOk
  BY DEF ReaderInv
<1>7. Scoping' \in ScopingType /\ SameScopes(scopes, scopes') /\ errors \subseteq errors'
  <2>1. CASE IsNamedDecl(c) /\ MayIntroduce
    <3>1. PICK s : s = Introduce(Scoping, c, exported)
      OBVIOUS
    <3>2. s \in ScopingType /\ SameScopes(scopes, s.scopes) /\ errors \subseteq s.errors
      BY <2>1, <3>1, <1>4, <1>6, Introduced
    <3>3. Becomes(s)
      BY <2>1, <3>1, <1>2 DEF ConsumeArgument
    <3>4. scopes' = s.scopes /\ errors' = s.errors
      BY <3>3 DEF Becomes
    <3>5. Scoping' = s
      BY <3>2, <3>3, BecomesScoping
    <3> QED BY <3>2, <3>4, <3>5
  <2>2. CASE ~(IsNamedDecl(c) /\ MayIntroduce)
    <3>1. scopes' = scopes /\ errors' = errors /\ exports' = exports
      BY <2>2, <1>2 DEF ConsumeArgument, scopeVars
    <3>2. Scoping' = Scoping
      BY <3>1 DEF Scoping
    <3> QED BY <3>1, <3>2, <1>6, Unchanged DEF ReaderTypes
  <2> QED BY <2>1, <2>2
<1>8. ScopesOk'
  <2>1. scopes \in Seq(ScopeType) /\ stack \in Seq(Nodes)
    BY <1>6, ScopingFields DEF ReaderTypes
  <2>2. input' = input
    BY <1>3
  <2> QED BY <1>4, <1>5, <1>6, <1>7, <2>1, <2>2, ScopesPushed
<1>9. ReaderTypes'
  <2>1. /\ kids' \in [Positions -> Seq(Nodes)] /\ decl' \in DeclMaps /\ modes' \in Seq(ModeType)
        /\ exported' \in Nodes \cup {None} /\ crawl' \in Positions \cup {None}
        /\ status' \in {"reading", "crawling", "read"} \cup Failures
        /\ input' = input /\ units' = units
    BY <1>3, <1>6 DEF ReaderTypes
  <2> QED BY <1>4, <1>6, <1>7, <2>1, TypesKept
<1>10. RunningOk'
  <2>1. PICK lv : Running(lv)
    BY <1>4 DEF ReaderInv, Failures, RunningOk, Running
  <2>2. status' = "reading" /\ modes' = modes /\ decl' = decl /\ Kind(c) # "ref"
    BY <1>3, <1>4, <1>5
  <2> QED BY <1>2, <1>4, <1>5, <1>6, <1>7, <2>1, <2>2, CallKeeps
<1> QED BY <1>8, <1>9, <1>10 DEF ReaderInv

\* What directLookup finds is a decl of this layout, or of the enclosing unit
LEMMA LookupTyped ==
  ASSUME NEW sc \in Seq(ScopeType), NEW name
  PROVE  Lookup(sc, name) \in Nodes \cup {OuterDecl, None}
<1> DEFINE holding == {i \in DOMAIN sc : name \in DOMAIN sc[i].names}
           found == CHOOSE i \in holding : \A j \in holding : j <= i
<1>1. PICK m \in Nat : m = Len(sc) /\ DOMAIN sc = 1 .. m
  OBVIOUS
<1>2. CASE holding # {}
  <2>1. holding \in SUBSET (1 .. m)
    BY <1>1
  <2>2. \E i \in holding : \A j \in holding : j <= i
    BY <1>2, <2>1, Greatest
  <2>3. found \in holding
    BY <2>2
  <2>4. Lookup(sc, name) = sc[found].names[name]
    BY <1>2 DEF Lookup
  <2>5. PICK i \in 1 .. m : i = found /\ name \in DOMAIN sc[i].names
    BY <2>1, <2>3
  <2> HIDE DEF found, holding
  <2>6. sc[i].names \in NameMaps
    <3>1. sc[i] \in ScopeType
      BY <1>1
    <3> QED BY <3>1 DEF ScopeType
  <2>7. \A map \in NameMaps : \A k \in DOMAIN map : map[k] \in Nodes
    BY DEF NameMaps, MapsOf
  <2>8. sc[i].names[name] \in Nodes
    BY <2>5, <2>6, <2>7
  <2> QED BY <2>4, <2>5, <2>8
<1>3. CASE holding = {}
  BY <1>3 DEF Lookup
<1> QED BY <1>2, <1>3

\* A reference is consumed
LEMMA DeclRefKeeps == ASSUME ReaderInv, ConsumeDeclRef PROVE ReaderInv'
<1>1. PICK ks : ks = {"ref"}
  OBVIOUS
<1>2. PICK c : c = pos + 1
  OBVIOUS
<1>3. /\ ks \in SUBSET Kinds /\ ks \cap UnitKinds = {} /\ Consumes(ks) /\ Shift
      /\ UNCHANGED <<units, input, crawl, kids, scopes, exports, modes, exported, status>>
  BY <1>1 DEF ConsumeDeclRef, Kinds, ExprKinds, UnitKinds
<1>4. /\ status = "reading" /\ stack # << >> /\ c \in Nodes /\ Kind(c) \in ks /\ Pushes(c)
      /\ ChildFits(Top, Len(kids[Top]) + 1, c)
      /\ pos' \in 0 .. Len(layout) /\ stack' \in Seq(Nodes)
      /\ OneMore(stack, stack', c)
  BY <1>2, <1>3, ConsumedNode
<1>5. Kind(c) = "ref" /\ ~HoldsScope(Kind(c)) /\ ~Enters(c)
  BY <1>1, <1>4 DEF HoldsScope, Enters
<1>6. ReaderTypes /\ ScopesOk
  BY DEF ReaderInv
<1>7. /\ scopes \in Seq(ScopeType) /\ exports \in [Positions -> Seq(Nodes)]
      /\ errors \subseteq ErrorType /\ decl \in DeclMaps
  BY <1>6, ScopingFields DEF ReaderTypes
<1>8. PICK found : found = Lookup(scopes, Name(c))
  OBVIOUS
<1>9. /\ decl' = IF MayResolve /\ found # None THEN Inserted(decl, c, found) ELSE decl
      /\ errors' = IF MayResolve /\ found = None THEN errors \cup {<<"unknown", c>>} ELSE errors
  BY <1>2, <1>8 DEF ConsumeDeclRef
<1>10. found \in Nodes \cup {OuterDecl, None}
  BY <1>7, <1>8, LookupTyped
<1>11. found # None =>
         /\ Inserted(decl, c, found) \in DeclMaps
         /\ \A r : r \in DOMAIN Inserted(decl, c, found) <=> r \in DOMAIN decl \/ r = c
  <2> HAVE found # None
  <2>1. PICK K, V : K = Nodes /\ V = Nodes \cup {OuterDecl} /\ DeclMaps = MapsOf(K, V)
    BY DEF DeclMaps
  <2>2. found \in V /\ c \in K /\ decl \in MapsOf(K, V)
    BY <1>4, <1>7, <1>10, <2>1
  <2>3. Inserted(decl, c, found) \in MapsOf(K, V)
    BY <2>2, InsertedMap
  <2> QED BY <2>1, <2>3, InsertedDomain
<1>12. decl' \in DeclMaps /\ \A r : r # c => (r \in DOMAIN decl' <=> r \in DOMAIN decl)
  BY <1>7, <1>9, <1>11
<1>13. errors \subseteq errors' /\ errors' \subseteq ErrorType
  <2>1. <<"unknown", c>> \in ErrorType
    BY <1>4 DEF ErrorType
  <2> QED BY <2>1, <1>7, <1>9
<1>14. ScopesOk' /\ scopes' \in Seq(ScopeType)
  <2>1. SameScopes(scopes, scopes') /\ stack \in Seq(Nodes) /\ input' = input
    BY <1>3, <1>6, Unchanged DEF ReaderTypes
  <2> QED BY <1>4, <1>5, <1>6, <1>7, <2>1, ScopesPushed
<1>15. ReaderTypes'
  <2>1. Scoping' \in ScopingType
    <3>1. exports' \in [Positions -> Seq(Nodes)]
      BY <1>3, <1>7
    <3> QED BY <3>1, <1>13, <1>14, ScopingTyped
  <2>2. /\ kids' \in [Positions -> Seq(Nodes)] /\ modes' \in Seq(ModeType)
        /\ exported' \in Nodes \cup {None} /\ crawl' \in Positions \cup {None}
        /\ status' \in {"reading", "crawling", "read"} \cup Failures
        /\ input' = input /\ units' = units
    BY <1>3, <1>6 DEF ReaderTypes
  <2> QED BY <1>4, <1>6, <1>12, <2>1, <2>2, TypesKept
<1>16. RunningOk'
  <2>1. PICK lv : Running(lv)
    BY <1>4 DEF ReaderInv, Failures, RunningOk, Running
  <2>2. status' = "reading" /\ modes' = modes
    BY <1>3, <1>4
  <2>3. IF MayResolve THEN c \in DOMAIN decl' \/ <<"unknown", c>> \in errors' ELSE c \notin DOMAIN decl'
    <3>1. c \notin DOMAIN decl
      <4>1. \A r \in DOMAIN decl : r <= pos
        BY <2>1 DEF Running, LevelsOk
      <4>2. pos \in Nat
        BY <1>6, LayoutFacts DEF ReaderTypes
      <4>3. ~(c <= pos)
        BY <4>2, <1>2
      <4> QED BY <4>1, <4>3
    <3> QED BY <3>1, <1>9, <1>11
  <2> QED BY <1>2, <1>4, <1>5, <1>6, <1>12, <1>13, <2>1, <2>2, <2>3, CallKeeps
<1> QED BY <1>14, <1>15, <1>16 DEF ReaderInv

\* The unit is consumed first, in a scope of its own
LEMMA UnitKeeps == ASSUME ReaderInv, ConsumeUnit PROVE ReaderInv'
<1>1. PICK ks : ks = {"compilationUnit", "metaUnit"}
  OBVIOUS
<1>2. /\ ks \in SUBSET Kinds /\ Consumes(ks) /\ Shift
      /\ UNCHANGED <<units, input, kids, decl, exports, errors, modes, exported>>
      /\ scopes' = Append(scopes, Scope("consistent", pos + 1))
      /\ crawl' = pos + 2 /\ status' = "crawling"
  BY <1>1 DEF ConsumeUnit, Kinds, OtherKinds, treeVars, EnterScope
<1>3. ReaderTypes /\ ScopesOk
  BY DEF ReaderInv
<1>4. /\ status = "reading" /\ pos \in Nat /\ pos + 1 <= Len(layout)
      /\ pos + 1 \in Nodes /\ Kind(pos + 1) \in ks
      /\ stack = << >> => pos = 0
      /\ stack # << >> /\ pos # 0 => ChildFits(Top, Len(kids[Top]) + 1, pos + 1)
  BY <1>2, <1>3, ConsumeFits
<1>5. PICK lv : Running(lv)
  BY <1>4 DEF ReaderInv, Failures, RunningOk, Running
<1>6. stack = << >> /\ pos = 0
  <2>1. ~ChildFits(Top, Len(kids[Top]) + 1, pos + 1)
    BY <1>1, <1>4 DEF ChildFits, UnitKinds
  <2> QED BY <2>1, <1>4, <1>5 DEF Running, StackOk
<1>7. 1 \in Nodes /\ Kind(1) \in UnitKinds /\ HoldsScope(Kind(1)) /\ crawl' = 2
  BY <1>1, <1>2, <1>4, <1>6 DEF UnitKinds, HoldsScope
<1>8. Pushes(1)
  BY <1>2, <1>6 DEF Pushes, Shift
<1>9. RunningOk' /\ crawl' \in Positions
  BY <1>2, <1>3, <1>5, <1>6, <1>7, <1>8, UnitStarts
<1>10. /\ scopes \in Seq(ScopeType) /\ exports \in [Positions -> Seq(Nodes)]
       /\ errors \subseteq ErrorType
  BY <1>3, ScopingFields DEF ReaderTypes
<1>11. stack \in Seq(Nodes) /\ stack' \in Seq(Nodes) /\ OneMore(stack, stack', 1)
  <2>1. stack \in Seq(Nodes) /\ stack' = Append(stack, 1)
    BY <1>3, <1>8 DEF ReaderTypes, Pushes
  <2> QED BY <2>1, <1>7, PushedSeq DEF OneMore
<1>12. ScopesOk' /\ scopes' \in Seq(ScopeType)
  <2>1. Entered(1)
    BY <1>2, <1>6 DEF Entered, ScopeKinds
  <2>2. input' = input
    BY <1>2
  <2> QED BY <1>3, <1>7, <1>10, <1>11, <2>1, <2>2, ScopesPushed
<1>13. ReaderTypes'
  <2>1. Scoping' \in ScopingType
    BY <1>2, <1>10, <1>12, ScopingTyped
  <2>2. pos' \in 0 .. Len(layout)
    <3>1. Len(layout) \in Nat \ {0} /\ pos' = 1
      BY <1>2, <1>3, <1>6, LayoutFacts DEF ReaderTypes, Shift
    <3> QED BY <3>1
  <2>3. /\ kids' \in [Positions -> Seq(Nodes)] /\ decl' \in DeclMaps /\ modes' \in Seq(ModeType)
        /\ exported' \in Nodes \cup {None} /\ crawl' \in Positions \cup {None}
        /\ status' \in {"reading", "crawling", "read"} \cup Failures
        /\ input' = input /\ units' = units
    BY <1>2, <1>3, <1>9 DEF ReaderTypes
  <2> QED BY <1>3, <1>11, <2>1, <2>2, <2>3, TypesKept
<1> QED BY <1>9, <1>12, <1>13 DEF ReaderInv

\* The crawl introduces a decl of the unit, or skips a node
LEMMA CrawlKeeps == ASSUME ReaderInv, CrawlNode PROVE ReaderInv'
<1>1. /\ UNCHANGED <<units, input, pos, stack, kids, decl, modes, status>>
      /\ status = "crawling" /\ Kind(crawl) # "marker" /\ crawl' = Behind(crawl)
  BY DEF CrawlNode, treeVars
<1>2. ReaderTypes /\ ScopesOk
  BY DEF ReaderInv
<1>3. PICK lv : Running(lv)
  BY <1>1 DEF ReaderInv, Failures, RunningOk, Running
<1>4. /\ crawl \in 2 .. Len(layout) /\ Depth(layout, crawl - 1) = 1 /\ stack = <<1>>
  BY <1>1, <1>3 DEF Running, StackOk, MarkersOk
<1>5. crawl' \in 2 .. Len(layout) /\ Depth(layout, crawl' - 1) = 1
  BY <1>1, <1>2, <1>4, BehindStays
<1>6. crawl \in Nodes /\ crawl' \in Positions /\ stack # << >>
  <2>1. Len(layout) \in Nat /\ Positions = 1 .. Len(layout) /\ \A n \in Positions : n \in Nodes <=> Kind(n) # "marker"
    BY <1>2, LayoutFacts DEF ReaderTypes
  <2>2. crawl \in Positions /\ crawl' \in Positions
    BY <2>1, <1>4, <1>5
  <2>3. stack # << >>
    BY <1>4
  <2> QED BY <2>1, <2>2, <2>3, <1>1
<1>7. /\ Scoping' \in ScopingType /\ SameScopes(scopes, scopes') /\ errors \subseteq errors'
      /\ exported' \in Nodes \cup {None}
  <2>1. PICK node : node = IF IsNamedDecl(crawl) /\ Name(crawl) = input.instantiated
                           THEN crawl ELSE exported
    OBVIOUS
  <2>2. exported' = node /\ node \in Nodes \cup {None}
    BY <2>1, <1>2, <1>6 DEF CrawlNode, ReaderTypes
  <2>3. CASE IsNamedDecl(crawl)
    <3>1. PICK s : s = Introduce(Scoping, crawl, node)
      OBVIOUS
    <3>2. s \in ScopingType /\ SameScopes(scopes, s.scopes) /\ errors \subseteq s.errors
      BY <2>3, <3>1, <1>2, <1>6, Introduced
    <3>3. Becomes(s)
      BY <2>1, <2>3, <3>1 DEF CrawlNode
    <3>4. scopes' = s.scopes /\ errors' = s.errors
      BY <3>3 DEF Becomes
    <3>5. Scoping' = s
      BY <3>2, <3>3, BecomesScoping
    <3> QED BY <2>2, <3>2, <3>4, <3>5
  <2>4. CASE ~IsNamedDecl(crawl)
    <3>1. scopes' = scopes /\ errors' = errors /\ exports' = exports
      BY <2>4 DEF CrawlNode, scopeVars
    <3>2. Scoping' = Scoping
      BY <3>1 DEF Scoping
    <3> QED BY <2>2, <3>1, <3>2, <1>2, Unchanged DEF ReaderTypes
  <2> QED BY <2>3, <2>4
<1>8. ScopesOk'
  <2>1. scopes \in Seq(ScopeType) /\ stack \in Seq(Nodes)
    BY <1>2, ScopingFields DEF ReaderTypes
  <2>2. input' = input /\ stack' = stack
    BY <1>1
  <2> QED BY <1>2, <1>7, <2>1, <2>2, ScopesStay
<1>9. ReaderTypes'
  <2>1. /\ kids' \in [Positions -> Seq(Nodes)] /\ decl' \in DeclMaps /\ modes' \in Seq(ModeType)
        /\ status' \in {"reading", "crawling", "read"} \cup Failures
        /\ input' = input /\ units' = units /\ pos' \in 0 .. Len(layout) /\ stack' \in Seq(Nodes)
        /\ crawl' \in Positions \cup {None}
    BY <1>1, <1>2, <1>6 DEF ReaderTypes
  <2> QED BY <1>2, <1>7, <2>1, TypesKept
<1>10. RunningOk'
  <2>1. /\ input' = input /\ pos' = pos /\ stack' = stack /\ kids' = kids /\ decl' = decl
        /\ modes' = modes /\ status' = "crawling"
    BY <1>1
  <2> QED BY <1>1, <1>3, <1>5, <1>7, <2>1, StaysRunning
<1> QED BY <1>8, <1>9, <1>10 DEF ReaderInv

\* The crawl ends
LEMMA LeaveCrawlKeeps == ASSUME ReaderInv, LeaveCrawl PROVE ReaderInv'
<1>1. /\ UNCHANGED <<units, input, pos, stack, kids, decl, modes, crawl, scopes, exports, errors, exported>>
      /\ status = "crawling" /\ status' = "reading"
  BY DEF LeaveCrawl, treeVars, scopeVars
<1>2. ReaderTypes /\ ScopesOk
  BY DEF ReaderInv
<1>3. PICK lv : Running(lv)
  BY <1>1 DEF ReaderInv, Failures, RunningOk, Running
<1>4. Scoping' = Scoping
  BY <1>1 DEF Scoping
<1>5. ScopesOk'
  <2>1. scopes \in Seq(ScopeType) /\ stack \in Seq(Nodes) /\ SameScopes(scopes, scopes')
    BY <1>1, <1>2, ScopingFields, Unchanged DEF ReaderTypes
  <2>2. input' = input /\ stack' = stack
    BY <1>1
  <2> QED BY <1>2, <2>1, <2>2, ScopesStay
<1>6. ReaderTypes'
  <2>1. /\ kids' \in [Positions -> Seq(Nodes)] /\ decl' \in DeclMaps /\ modes' \in Seq(ModeType)
        /\ status' \in {"reading", "crawling", "read"} \cup Failures
        /\ input' = input /\ units' = units /\ pos' \in 0 .. Len(layout) /\ stack' \in Seq(Nodes)
        /\ crawl' \in Positions \cup {None} /\ exported' \in Nodes \cup {None}
        /\ Scoping' \in ScopingType
    BY <1>1, <1>2, <1>4 DEF ReaderTypes
  <2> QED BY <1>2, <2>1, TypesKept
<1>7. RunningOk'
  <2>1. /\ input' = input /\ pos' = pos /\ stack' = stack /\ kids' = kids /\ decl' = decl
        /\ modes' = modes /\ errors \subseteq errors'
    BY <1>1
  <2> QED BY <1>1, <1>3, <2>1, StaysRunning
<1> QED BY <1>5, <1>6, <1>7 DEF ReaderInv

\* Something that is not expected is rejected
LEMMA RejectKeeps == ASSUME ReaderInv, Reject PROVE ReaderInv'
<1>1. /\ UNCHANGED <<units, input, pos, stack, kids, decl, modes, crawl, scopes, exports, errors, exported>>
      /\ status' \in {"pastEnd", "nullNode", "unexpectedKind"}
  BY DEF Reject, treeVars, scopeVars
<1>2. ReaderTypes /\ ScopesOk
  BY DEF ReaderInv
<1>3. Scoping' = Scoping
  BY <1>1 DEF Scoping
<1>4. ScopesOk'
  <2>1. scopes \in Seq(ScopeType) /\ stack \in Seq(Nodes) /\ SameScopes(scopes, scopes')
    BY <1>1, <1>2, ScopingFields, Unchanged DEF ReaderTypes
  <2>2. input' = input /\ stack' = stack
    BY <1>1
  <2> QED BY <1>2, <2>1, <2>2, ScopesStay
<1>5. ReaderTypes'
  <2>1. /\ kids' \in [Positions -> Seq(Nodes)] /\ decl' \in DeclMaps /\ modes' \in Seq(ModeType)
        /\ status' \in {"reading", "crawling", "read"} \cup Failures
        /\ input' = input /\ units' = units /\ pos' \in 0 .. Len(layout) /\ stack' \in Seq(Nodes)
        /\ crawl' \in Positions \cup {None} /\ exported' \in Nodes \cup {None}
        /\ Scoping' \in ScopingType
    BY <1>1, <1>2, <1>3 DEF ReaderTypes, Failures
  <2> QED BY <1>2, <2>1, TypesKept
<1>6. status' \in Failures
  BY <1>1 DEF Failures
<1> QED BY <1>4, <1>5, <1>6 DEF ReaderInv

\* What a method does to the scoping when it returns
LEMMA FinishedScoping ==
  ASSUME ReaderTypes, ScopesOk, stack # << >>, Becomes(Finished(Top))
  PROVE  /\ Scoping' \in ScopingType /\ errors \subseteq errors'
         /\ \E t : /\ SameScopes(scopes, t)
                   /\ scopes' = IF HoldsScope(Kind(Top)) THEN Front(t) ELSE t
<1>1. Top \in Nodes
  BY FrontSeq DEF ReaderTypes, Top
<1>2. PICK s : s = IF Kind(Top) = "decl" /\ MayIntroduce
                   THEN Introduce(Scoping, Top, exported) ELSE Scoping
  OBVIOUS
<1>3. s \in ScopingType /\ SameScopes(scopes, s.scopes) /\ errors \subseteq s.errors
  <2>1. CASE Kind(Top) = "decl" /\ MayIntroduce
    <3>1. IsNamedDecl(Top)
      <4>1. Name(Top) \in Names
        BY <2>1, <1>1, WellWrittenFacts DEF ReaderTypes
      <4> QED BY <2>1, <4>1, NamesAssumption DEF IsNamedDecl, NamedKinds
    <3> QED BY <2>1, <3>1, <1>1, <1>2, Introduced
  <2>2. CASE ~(Kind(Top) = "decl" /\ MayIntroduce)
    <3>1. s = Scoping
      BY <2>2, <1>2
    <3> QED BY <3>1, Unchanged, ScopingFields DEF ReaderTypes
  <2> QED BY <2>1, <2>2
<1>4. PICK sc, ex, er : /\ s = [scopes |-> sc, exports |-> ex, errors |-> er]
                        /\ sc \in Seq(ScopeType) /\ ex \in [Positions -> Seq(Nodes)]
                        /\ er \subseteq ErrorType
  BY <1>3 DEF ScopingType
<1>5. SameScopes(scopes, sc) /\ errors \subseteq er
  BY <1>3, <1>4
<1>6. PICK z : z = IF HoldsScope(Kind(Top)) THEN Front(sc) ELSE sc
  OBVIOUS
<1>7. LeaveScope(Kind(Top), s) = [scopes |-> z, exports |-> ex, errors |-> er]
  <2>1. CASE HoldsScope(Kind(Top))
    <3>1. [s EXCEPT !.scopes = Front(@)] = [scopes |-> Front(sc), exports |-> ex, errors |-> er]
      BY <1>4
    <3> QED BY <2>1, <3>1, <1>6 DEF LeaveScope
  <2>2. CASE ~HoldsScope(Kind(Top))
    BY <2>2, <1>4, <1>6 DEF LeaveScope
  <2> QED BY <2>1, <2>2
<1>8. PICK f : f = LeaveScope(Kind(Top), s)
  OBVIOUS
<1>9. scopes' = z /\ exports' = ex /\ errors' = er
  <2>1. Becomes(f)
    BY <1>2, <1>8 DEF Finished
  <2> QED BY <2>1, <1>7, <1>8 DEF Becomes
<1>10. z \in Seq(ScopeType)
  BY <1>4, <1>6, FrontTyped
<1>11. Scoping' \in ScopingType
  BY <1>4, <1>9, <1>10, ScopingTyped
<1> QED BY <1>5, <1>6, <1>9, <1>11

\* A method returns
LEMMA FinishKeeps == ASSUME ReaderInv, Finish PROVE ReaderInv'
<1>1. ReaderTypes /\ ScopesOk
  BY DEF ReaderInv
<1>2. /\ status = "reading" /\ stack # << >> /\ stack' = Front(stack)
      /\ Becomes(Finished(Top)) /\ UNCHANGED <<units, input, crawl, decl, exported>>
      /\ pos' = IF RequiresReduceMarker(Kind(Top)) /\ ShouldReduce THEN pos + 1 ELSE pos
  BY DEF Finish, Reading
<1>3. PICK lv : Running(lv)
  BY <1>2 DEF ReaderInv, Failures, RunningOk, Running
<1>4. Scoping' \in ScopingType /\ errors \subseteq errors'
  BY <1>1, <1>2, FinishedScoping
<1>5. ScopesOk'
  <2>1. PICK t : /\ SameScopes(scopes, t)
                 /\ scopes' = IF HoldsScope(Kind(Top)) THEN Front(t) ELSE t
    BY <1>1, <1>2, FinishedScoping
  <2>2. scopes \in Seq(ScopeType) /\ stack \in Seq(Nodes)
    BY <1>1, ScopingFields DEF ReaderTypes
  <2> QED BY <1>1, <1>2, <2>1, <2>2, ScopesPopped
<1>6. pos' \in 0 .. Len(layout)
  <2>1. PICK m : m = Len(layout) /\ m \in Nat /\ pos \in 0 .. m
    BY <1>1, LayoutFacts DEF ReaderTypes
  <2>2. ShouldReduce => pos # m
    BY <2>1 DEF ShouldReduce, PastEnd
  <2> QED BY <1>2, <2>1, <2>2
<1>7. stack' \in Seq(Nodes) /\ Top \in Nodes
  BY <1>1, <1>2, FrontTyped, FrontSeq DEF ReaderTypes, Top
<1>8. PICK ms : ms = LeaveMode(Kind(Top), modes) /\ ms \in Seq(ModeType)
  <2>1. modes \in Seq(ModeType)
    BY <1>1 DEF ReaderTypes
  <2> QED BY <2>1, FrontTyped DEF LeaveMode
<1>9. /\ kids' \in [Positions -> Seq(Nodes)] /\ modes' \in Seq(ModeType)
      /\ status' \in {"reading", "crawling", "read"} \cup Failures
  <2>1. CASE Len(stack) = 1
    <3>1. kids' = kids /\ modes' = ms /\ status' \in {"noReduceMarker", "read"}
      BY <2>1, <1>8 DEF Finish
    <3> QED BY <3>1, <1>1, <1>8 DEF ReaderTypes, Failures
  <2>2. CASE Len(stack) # 1
    <3>1. PICK p : p = Last(Front(stack))
      OBVIOUS
    <3>2. /\ kids' = WithChild(p, Top) /\ modes' = ModesBehind(p, Len(kids'[p]), ms)
          /\ status' \in {"noReduceMarker", "wrongMode", "reading"}
      <4>1. status' \in {"noReduceMarker", "wrongMode", status}
        BY <2>2, <3>1, <1>8 DEF Finish
      <4> QED BY <2>2, <3>1, <4>1, <1>2, <1>8 DEF Finish
    <3>3. kids' \in [Positions -> Seq(Nodes)]
      <4>1. PICK ks, P, K : ks = kids /\ P = Positions /\ K = Nodes
        OBVIOUS
      <4>2. ks \in [P -> Seq(K)] /\ Top \in K
        BY <4>1, <1>1, <1>7 DEF ReaderTypes
      <4>3. \A x \in P : Append(ks[x], Top) \in Seq(K)
        BY <4>2
      <4>4. [ks EXCEPT ![p] = Append(@, Top)] \in [P -> Seq(K)]
        BY <4>2, <4>3
      <4> QED BY <3>2, <4>1, <4>4 DEF WithChild
    <3>4. modes' \in Seq(ModeType)
      <4>1. Append(ms, "InsideMetaDecl") \in Seq(ModeType) /\ Front(ms) \in Seq(ModeType)
        <5>1. "InsideMetaDecl" \in ModeType
          BY DEF ModeType
        <5> QED BY <5>1, <1>8, FrontTyped, PushedSeq
      <4> QED BY <3>2, <4>1, <1>8 DEF ModesBehind
    <3> QED BY <3>2, <3>3, <3>4 DEF Failures
  <2> QED BY <2>1, <2>2
<1>10. ReaderTypes'
  <2>1. /\ decl' \in DeclMaps /\ exported' \in Nodes \cup {None}
        /\ crawl' \in Positions \cup {None} /\ input' = input /\ units' = units
    BY <1>1, <1>2 DEF ReaderTypes
  <2> QED BY <1>1, <1>4, <1>6, <1>7, <1>9, <2>1, TypesKept
<1>11. status' \notin Failures => RunningOk'
  BY <1>1, <1>3, <1>4, PoppedRunning DEF Returns
<1> QED BY <1>5, <1>10, <1>11 DEF ReaderInv

(***************************************************************************)
(* A reader starts: the first one, and one for each instantiation.         *)
(***************************************************************************)
Fresh ==
  /\ InputOk
  /\ pos = 0 /\ stack = << >> /\ crawl = None
  /\ kids = NothingOf(layout) /\ decl = << >>
  /\ scopes = << >> /\ modes = << >> /\ exported = None
  /\ exports = NothingOf(layout) /\ errors = {}
  /\ status = "reading"

\* The empty map has any type of a map
LEMMA EmptyMap == ASSUME NEW K, NEW V PROVE << >> \in MapsOf(K, V)
<1>1. << >> \in [{} -> V]
  OBVIOUS
<1> QED BY <1>1 DEF MapsOf

\* Nothing was read yet
LEMMA FreshRunning == ASSUME Fresh PROVE RunningOk
<1>1. /\ Len(layout) \in Nat /\ Positions = 1 .. Len(layout)
      /\ \A n \in Nodes : n \in Positions
  BY LayoutFacts DEF Fresh
<1>2. /\ pos = 0 /\ stack = << >> /\ Len(stack) = 0 /\ DOMAIN stack = {} /\ decl = << >>
      /\ DOMAIN decl = {} /\ status = "reading" /\ modes = << >>
  BY DEF Fresh
<1>3. \A n \in Nodes : n \in Nat /\ n > 0 /\ kids[n] = << >> /\ DOMAIN kids[n] = {}
  <2> TAKE n \in Nodes
  <2>1. n \in Positions /\ n \in Nat \ {0}
    BY <1>1
  <2>2. kids[n] = << >>
    BY <2>1 DEF Fresh, NothingOf, Positions
  <2> QED BY <2>1, <2>2
<1>4. PICK lv : lv = [n \in Nodes |-> "Outside"]
  OBVIOUS
<1>5. StackOk(lv)
  BY <1>2 DEF StackOk
<1>6. TreeOk(lv)
  <2>1. \A n \in Nodes : ~(n <= pos)
    BY <1>2, <1>3
  <2> QED BY <1>3, <2>1 DEF TreeOk
<1>7. LevelsOk(lv)
  <2>1. lv \in [Nodes -> Levels]
    BY <1>4 DEF Levels
  <2>2. NextLevel(lv) = "Outside" /\ modes = ModesOf("Outside")
    BY <1>2 DEF NextLevel, ModesOf
  <2>3. \A n \in Nodes : ~(n <= pos)
    BY <1>2, <1>3
  <2> QED BY <1>2, <2>1, <2>2, <2>3 DEF LevelsOk
<1>8. MarkersOk
  <2>1. Depth(layout, 0) = 0
    BY DepthCounts, CountZero
  <2>2. Unreduced(0) = 0
    <3>1. {j \in 1 .. 0 : RequiresReduceMarker(Kind(stack[j]))} = {}
      OBVIOUS
    <3> QED BY <3>1, FS_EmptySet DEF Unreduced
  <2> QED BY <1>2, <2>1, <2>2 DEF MarkersOk
<1> QED BY <1>5, <1>6, <1>7, <1>8 DEF RunningOk

\* A reader that has read nothing
LEMMA FreshInv == Fresh => ReaderInv
<1> SUFFICES ASSUME Fresh PROVE ReaderInv
  OBVIOUS
<1>1. RunningOk
  BY FreshRunning
<1>2. Len(layout) \in Nat /\ 0 \in 0 .. Len(layout)
  <2>1. Len(layout) \in Nat
    BY LayoutFacts DEF Fresh
  <2> QED BY <2>1
<1>3. NothingOf(layout) \in [Positions -> Seq(Nodes)]
  <2>1. << >> \in Seq(Nodes)
    OBVIOUS
  <2> QED BY <2>1 DEF NothingOf, Positions
<1>4. Scoping \in ScopingType
  <2>1. << >> \in Seq(ScopeType) /\ {} \subseteq ErrorType
    OBVIOUS
  <2> QED BY <1>3, <2>1, ScopingFields DEF Fresh
<1>5. ReaderTypes
  <2>1. decl \in DeclMaps
    BY EmptyMap DEF Fresh, DeclMaps
  <2>2. stack \in Seq(Nodes) /\ modes \in Seq(ModeType)
    BY DEF Fresh
  <2> QED BY <1>2, <1>3, <1>4, <2>1, <2>2 DEF Fresh, ReaderTypes
<1>6. ScopesOk
  <2>1. Len(stack) = 0 /\ DOMAIN stack = {} /\ stack = << >> /\ scopes = << >> /\ Len(scopes) = 0
    BY DEF Fresh
  <2>2. ScopesHeld(0) = 0
    <3>1. {j \in 1 .. 0 : HoldsScope(Kind(stack[j]))} = {}
      OBVIOUS
    <3> QED BY <3>1, FS_EmptySet DEF ScopesHeld
  <2> QED BY <2>1, <2>2 DEF ScopesOk
<1> QED BY <1>1, <1>5, <1>6 DEF ReaderInv

\* The same for the state behind a step
LEMMA FreshInvBehind == Fresh' => ReaderInv'
BY FreshInv, PTL

\* A source is well written
LEMMA InitFresh == ASSUME Init PROVE Fresh
<1>1. PICK s \in Sources :
        /\ units = s.units
        /\ input = [layout |-> s.layout, outer |-> << >>, instantiated |-> NoName]
  BY DEF Init
<1>2. /\ s.layout \in Layouts /\ s.units \in SUBSET [layout : Layouts, of : Names]
      /\ WellWritten(s.layout) /\ \A u \in s.units : WellWritten(u.layout)
  BY <1>1, SourcesAssumption DEF SourceType
<1>3. << >> \in UNION {[ns -> {"function", "meta", "constant"}] : ns \in SUBSET Names}
  <2>1. << >> \in MapsOf(Names, {"function", "meta", "constant"})
    BY EmptyMap
  <2> QED BY <2>1 DEF MapsOf
<1>4. InputOk
  <2>1. layout = s.layout
    BY <1>1 DEF layout
  <2>2. input \in InputType
    BY <1>1, <1>2, <1>3 DEF InputType
  <2>3. \A u \in units : u \in [layout : Layouts, of : Names] /\ WellWritten(u.layout)
    BY <1>1, <1>2
  <2> QED BY <1>2, <2>1, <2>2, <2>3 DEF InputOk
<1> QED BY <1>4 DEF Init, Fresh

\* The invariant holds initially
LEMMA InitKeeps == ASSUME Init PROVE ReaderInv
BY InitFresh, FreshInv

\* The decls of a unit have a name, and none of them is a unit
LEMMA UnitDecls ==
  ASSUME ReaderInv, status = "read", NEW k \in DOMAIN kids[1]
  PROVE  /\ kids[1][k] \in Nodes /\ Name(kids[1][k]) \in Names
         /\ Kind(kids[1][k]) \in {"function", "meta", "constant"}
<1>1. PICK lv : Running(lv)
  BY DEF ReaderInv, Failures, RunningOk, Running
<1>2. ReaderTypes
  BY DEF ReaderInv
<1>3. PICK m : m = Len(layout) /\ m \in Nat \ {0} /\ Positions = 1 .. m
               /\ \A n \in Positions : n \in Nodes <=> Kind(n) # "marker"
  BY <1>2, LayoutFacts DEF ReaderTypes
<1>4. pos = m /\ pos > 0 /\ 1 \in Positions /\ Kind(1) \in UnitKinds
  BY <1>1, <1>3 DEF Running, StackOk
<1>5. 1 \in Nodes
  BY <1>3, <1>4 DEF UnitKinds
<1>6. PICK c : c = kids[1][k]
  OBVIOUS
<1>7. c \in Nodes
  <2>1. kids[1] \in Seq(Nodes)
    BY <1>2, <1>4 DEF ReaderTypes
  <2> QED BY <2>1, <1>6
<1>8. Edge(lv, 1, k, c) /\ c <= pos
  BY <1>1, <1>5, <1>6 DEF Running, TreeOk
<1>9. Kind(c) \in TopLevelKinds
  BY <1>4, <1>8 DEF Edge, ChildFits
<1>10. c \in Positions /\ c > 1
  <2>1. c \in Positions
    BY <1>7 DEF Nodes, Positions
  <2> QED BY <2>1, <1>8 DEF Edge
<1>11. c \in 2 .. Len(layout)
  BY <1>3, <1>10
<1>12. Kind(c) \notin UnitKinds
  BY <1>2, <1>11, WellWrittenFacts DEF ReaderTypes
<1>13. Kind(c) \in {"function", "meta", "constant"}
  BY <1>9, <1>12 DEF TopLevelKinds, UnitKinds
<1>14. Name(c) \in Names
  BY <1>2, <1>7, <1>13, WellWrittenFacts DEF ReaderTypes
<1> QED BY <1>6, <1>7, <1>13, <1>14

\* The decls of a unit that was read are an input for the units instantiated in it
LEMMA UnitScopeTyped ==
  ASSUME ReaderInv, status = "read"
  PROVE  UnitScope \in UNION {[ns -> {"function", "meta", "constant"}] : ns \in SUBSET Names}
<1> DEFINE named == {kids[1][k] : k \in DOMAIN kids[1]}
           ns == {Name(d) : d \in named}
           ofName(name) == CHOOSE d \in named : Name(d) = name
<1>1. \A d \in named : Name(d) \in Names /\ Kind(d) \in {"function", "meta", "constant"}
  BY UnitDecls
<1>2. UnitScope = [name \in ns |-> Kind(ofName(name))]
  BY DEF UnitScope
<1>3. \A name \in ns : ofName(name) \in named
  OBVIOUS
<1> HIDE DEF named
<1>4. ns \in SUBSET Names
  BY <1>1
<1>5. \A name \in ns : Kind(ofName(name)) \in {"function", "meta", "constant"}
  BY <1>1, <1>3
<1> HIDE DEF ns, ofName
<1>6. UnitScope \in [ns -> {"function", "meta", "constant"}]
  BY <1>2, <1>5
<1> QED BY <1>4, <1>6

\* The reader of an instantiation starts anew
\* And so is what a meta decl contributes, which is read with no method running
LEMMA InstantiateFresh == ASSUME ReaderInv, Instantiate PROVE Fresh'
<1>1. PICK u \in units :
        /\ input' = [layout |-> u.layout, outer |-> UnitScope, instantiated |-> u.of]
        /\ kids' = NothingOf(u.layout) /\ exports' = NothingOf(u.layout)
  BY DEF Instantiate
<1>2. /\ status = "read" /\ errors = {} /\ units' = {}
      /\ pos' = 0 /\ decl' = << >> /\ crawl' = None /\ exported' = None /\ status' = "reading"
      /\ UNCHANGED <<stack, scopes, modes, errors>>
  BY DEF Instantiate, Instantiable
<1>3. ReaderTypes /\ ScopesOk
  BY DEF ReaderInv
<1>4. PICK lv : Running(lv)
  BY <1>2 DEF ReaderInv, Failures, RunningOk, Running
<1>5. stack = << >> /\ modes = << >>
  <2>1. stack = << >>
    BY <1>2, <1>4 DEF Running, StackOk
  <2>2. NextLevel(lv) = "Outside" /\ ModesOf("Outside") = << >>
    BY <2>1 DEF NextLevel, ModesOf
  <2> QED BY <2>1, <2>2, <1>4 DEF Running, LevelsOk
<1>6. scopes = << >>
  <2>1. {j \in 1 .. 0 : HoldsScope(Kind(stack[j]))} = {}
    OBVIOUS
  <2>2. ScopesHeld(0) = 0
    BY <2>1, FS_EmptySet DEF ScopesHeld
  <2>3. Len(stack) = 0
    BY <1>5
  <2>4. Len(scopes) = 0 /\ scopes \in Seq(ScopeType)
    BY <2>2, <2>3, <1>3, ScopingFields DEF ScopesOk, ReaderTypes
  <2> QED BY <2>4
<1>7. u.layout \in Layouts /\ u.of \in Names /\ WellWritten(u.layout)
  BY <1>3 DEF ReaderTypes, InputOk
<1>8. layout' = u.layout
  BY <1>1 DEF layout
<1>9. InputOk'
  <2>1. input' \in InputType
    BY <1>1, <1>2, <1>7, UnitScopeTyped DEF InputType
  <2>2. WellWritten(layout)'
    BY <1>7, <1>8 DEF WellWritten, Depth
  <2> QED BY <1>2, <2>1, <2>2 DEF InputOk
<1>10. Fresh'
  <2>1. kids' = NothingOf(layout)' /\ exports' = NothingOf(layout)'
    BY <1>1, <1>8 DEF NothingOf
  <2> QED BY <1>2, <1>5, <1>6, <1>9, <2>1 DEF Fresh
<1> QED BY <1>10

\* A unit is instantiated
LEMMA InstantiateKeeps == ASSUME ReaderInv, Instantiate PROVE ReaderInv'
BY InstantiateFresh, FreshInvBehind

(***************************************************************************)
(* The invariant holds as long as the reader reads or starts anew, whatever *)
(* uses it.                                                                *)
(***************************************************************************)
LEMMA ReaderStep == ASSUME ReaderInv, Read \/ Instantiate PROVE ReaderInv'
BY UnitKeeps, CrawlKeeps, LeaveCrawlKeeps, ScopedKeeps, MetaIfKeeps, MetaCalculationKeeps,
   ArgumentKeeps, DeclRefKeeps, OtherKeeps, RejectKeeps, FinishKeeps, InstantiateKeeps DEF Read

\* Nothing happens
LEMMA ReaderStutter == ASSUME ReaderInv, UNCHANGED vars PROVE ReaderInv'
<1>1. /\ units' = units /\ input' = input /\ pos' = pos /\ stack' = stack /\ crawl' = crawl
      /\ kids' = kids /\ decl' = decl /\ scopes' = scopes /\ exports' = exports
      /\ errors' = errors /\ modes' = modes /\ exported' = exported /\ status' = status
  BY DEF vars, treeVars, scopeVars
<1>2. ReaderTypes /\ ScopesOk
  BY DEF ReaderInv
<1>3. ReaderTypes'
  <2>1. Scoping' = Scoping
    BY <1>1 DEF Scoping
  <2>2. /\ pos' \in 0 .. Len(layout) /\ stack' \in Seq(Nodes) /\ kids' \in [Positions -> Seq(Nodes)]
        /\ decl' \in DeclMaps /\ Scoping' \in ScopingType /\ modes' \in Seq(ModeType)
        /\ exported' \in Nodes \cup {None} /\ crawl' \in Positions \cup {None}
        /\ status' \in {"reading", "crawling", "read"} \cup Failures
    BY <1>1, <1>2, <2>1 DEF ReaderTypes
  <2> QED BY <1>1, <1>2, <2>2, TypesKept
<1>4. ScopesOk'
  <2>1. scopes \in Seq(ScopeType) /\ stack \in Seq(Nodes) /\ SameScopes(scopes, scopes')
    BY <1>1, <1>2, ScopingFields, Unchanged DEF ReaderTypes
  <2> QED BY <1>1, <1>2, <2>1, ScopesStay
<1>5. status \notin Failures => RunningOk'
  <2> HAVE status \notin Failures
  <2>1. PICK lv : Running(lv)
    BY DEF ReaderInv, RunningOk, Running
  <2>2. errors \subseteq errors'
    BY <1>1
  <2> QED BY <1>1, <2>1, <2>2, StaysRunning
<1> QED BY <1>1, <1>3, <1>4, <1>5 DEF ReaderInv, Failures

\* The types of the invariant are those the run checks
LEMMA ReaderTypeOK == ASSUME ReaderTypes PROVE TypeOK
<1>1. /\ input \in InputType /\ pos \in 0 .. Len(layout)
      /\ stack \in Seq(Nodes) /\ kids \in [Positions -> Seq(Nodes)]
      /\ modes \in Seq({"InsideMetaDecl", "InsideComputation"})
      /\ exported \in Nodes \cup {None} /\ crawl \in Positions \cup {None}
      /\ status \in {"reading", "crawling", "read"} \cup Failures
  BY DEF ReaderTypes, InputOk, ModeType
<1>2. DOMAIN decl \subseteq Nodes /\ \A r \in DOMAIN decl : decl[r] \in Nodes \cup {OuterDecl}
  BY DEF ReaderTypes, DeclMaps, MapsOf
<1>3. exports \in [Positions -> Seq(Nodes)] /\ errors \subseteq {"declaredAlready", "unknown"} \X Nodes
  BY ScopingFields DEF ReaderTypes, ErrorType
<1>4. \A i \in DOMAIN scopes :
        /\ scopes[i].kind \in {"consistent", "temporary", "inplace"} /\ scopes[i].owner \in Nodes
        /\ \A name \in DOMAIN scopes[i].names : name \in Names /\ scopes[i].names[name] \in Nodes
  <2> TAKE i \in DOMAIN scopes
  <2>1. scopes[i] \in ScopeType
    <3>1. scopes \in Seq(ScopeType)
      BY ScopingFields DEF ReaderTypes
    <3> QED BY <3>1
  <2>2. scopes[i].names \in NameMaps
    BY <2>1 DEF ScopeType
  <2>3. \A name \in DOMAIN scopes[i].names : name \in Names /\ scopes[i].names[name] \in Nodes
    BY <2>2 DEF NameMaps, MapsOf
  <2> QED BY <2>1, <2>3 DEF ScopeType, ScopeKinds
<1> QED BY <1>1, <1>2, <1>3, <1>4 DEF TypeOK

\* The scopes are left with the methods, and no mode is left over
LEMMA BuilderFollows == ASSUME ReaderInv PROVE BuilderFollowsReader
<1>1. status = "read" => modes = << >>
  <2> HAVE status = "read"
  <2>1. PICK lv : Running(lv)
    BY DEF ReaderInv, Failures, RunningOk, Running
  <2>2. stack = << >>
    BY <2>1 DEF Running, StackOk
  <2>3. NextLevel(lv) = "Outside" /\ ModesOf("Outside") = << >>
    BY <2>2 DEF NextLevel, ModesOf
  <2> QED BY <2>1, <2>3 DEF Running, LevelsOk
<1> QED BY <1>1 DEF ReaderInv, ScopesOk, BuilderFollowsReader

(***************************************************************************)
(* The tree that was read: what is below a node, and its level.            *)
(***************************************************************************)
TreeRead(lv) == ReaderTypes /\ Running(lv) /\ status = "read"

\* A tree has a finite number of nodes, each behind its parent, which is one node
LEMMA TreeFacts ==
  ASSUME NEW lv, TreeRead(lv)
  PROVE  /\ Nodes \in SUBSET (Nat \ {0}) /\ 1 \in Nodes
         /\ \A p \in Nodes : \A k \in DOMAIN kids[p] :
              /\ kids[p][k] \in Nodes /\ p < kids[p][k]
              /\ Edge(lv, p, k, kids[p][k]) /\ k \in Nat \ {0}
         /\ \A p, q \in Nodes : \A j \in DOMAIN kids[p], k \in DOMAIN kids[q] :
              kids[p][j] = kids[q][k] => p = q /\ j = k
         /\ \A n \in Nodes : n = 1 \/ \E p \in Nodes : \E k \in DOMAIN kids[p] : n = kids[p][k]
         /\ \A n \in Nodes : Complete(n) /\ LevelFits(lv, n)
         /\ \A r \in Nodes : Kind(r) = "ref" => RefFits(lv, r)
         /\ lv[1] = "Outside" /\ lv \in [Nodes -> Levels]
<1> USE DEF TreeRead, Running
<1>1. PICK m : /\ m = Len(layout) /\ m \in Nat \ {0} /\ Positions = 1 .. m
               /\ \A n \in Nodes : n \in Positions /\ Kind(n) \in Kinds
               /\ \A n \in Positions : n \in Nodes <=> Kind(n) # "marker"
  BY LayoutFacts DEF ReaderTypes
<1>2. pos = m /\ stack = << >> /\ pos > 0 /\ Kind(1) \in UnitKinds
  BY <1>1 DEF StackOk
<1>3. Nodes \in SUBSET (Nat \ {0}) /\ 1 \in Nodes /\ \A n \in Nodes : n <= pos
  BY <1>1, <1>2 DEF UnitKinds
<1>4. \A p \in Nodes : \A k \in DOMAIN kids[p] : kids[p][k] \in Nodes /\ k \in Nat \ {0}
  <2> TAKE p \in Nodes
  <2>1. kids[p] \in Seq(Nodes)
    BY <1>1 DEF ReaderTypes
  <2> QED BY <2>1
<1>5. \A p \in Nodes : \A k \in DOMAIN kids[p] : Edge(lv, p, k, kids[p][k]) /\ Complete(kids[p][k])
  BY DEF TreeOk
<1>6. \A p \in Nodes : \A k \in DOMAIN kids[p] : p < kids[p][k]
  BY <1>5 DEF Edge
<1>7. \A p, q \in Nodes : \A j \in DOMAIN kids[p], k \in DOMAIN kids[q] :
        kids[p][j] = kids[q][k] => p = q /\ j = k
  BY DEF TreeOk
<1>8. \A n \in Nodes : n = 1 \/ \E p \in Nodes : \E k \in DOMAIN kids[p] : n = kids[p][k]
  <2>1. \A i \in DOMAIN stack : FALSE
    BY <1>2
  <2> QED BY <1>3, <2>1 DEF TreeOk
<1>9. \A n \in Nodes : Complete(n)
  <2> TAKE n \in Nodes
  <2>1. CASE n = 1
    BY <2>1, <1>2 DEF Complete, UnitKinds
  <2>2. CASE n # 1
    BY <2>2, <1>5, <1>8
  <2> QED BY <2>1, <2>2
<1>10. /\ \A n \in Nodes : LevelFits(lv, n)
       /\ \A r \in Nodes : Kind(r) = "ref" => RefFits(lv, r)
       /\ lv[1] = "Outside" /\ lv \in [Nodes -> Levels]
  BY <1>2, <1>3 DEF LevelsOk
<1> QED BY <1>3, <1>4, <1>5, <1>6, <1>7, <1>8, <1>9, <1>10

\* What holds for a node once it holds for its children holds for all
LEMMA BottomUp ==
  ASSUME NEW lv, TreeRead(lv), NEW B \in SUBSET Nodes,
         \A n \in Nodes : (\A k \in DOMAIN kids[n] : kids[n][k] \in B) => n \in B
  PROVE  B = Nodes
<1>1. PICK m \in Nat : \A n \in Nodes : n \in 1 .. m
  BY LayoutFacts DEF TreeRead, ReaderTypes
<1> DEFINE rank == [n \in Nodes |-> m - n]
<1>2. rank \in [Nodes -> Nat]
  BY <1>1
<1>3. \A p \in Nodes : \A k \in DOMAIN kids[p] :
        kids[p][k] \in Nodes /\ rank[kids[p][k]] < rank[p]
  <2> TAKE p \in Nodes
  <2> TAKE k \in DOMAIN kids[p]
  <2>1. kids[p][k] \in Nodes /\ p < kids[p][k]
    BY TreeFacts
  <2>2. PICK c : c = kids[p][k]
    OBVIOUS
  <2>3. c \in Nodes /\ p < c /\ c \in 1 .. m /\ p \in 1 .. m
    BY <2>1, <2>2, <1>1
  <2>4. rank[c] = m - c /\ rank[p] = m - p
    BY <2>3
  <2> HIDE DEF rank
  <2>5. rank[c] < rank[p]
    BY <2>3, <2>4
  <2> QED BY <2>2, <2>3, <2>5
<1> HIDE DEF rank
<1>4. Inductive(Nodes, rank, B)
  BY <1>3 DEF Inductive
<1> QED BY <1>2, <1>4, RankInduction

\* And what holds for a node once it holds for its parent
LEMMA TopDown ==
  ASSUME NEW lv, TreeRead(lv), NEW B \in SUBSET Nodes, 1 \in B,
         \A p \in B : \A k \in DOMAIN kids[p] : kids[p][k] \in B
  PROVE  B = Nodes
<1> DEFINE rank == [n \in Nodes |-> n]
<1>1. rank \in [Nodes -> Nat] /\ \A n \in Nodes : rank[n] = n
  BY TreeFacts
<1> HIDE DEF rank
<1>2. \A n \in Nodes : n # 1 => \E p \in Nodes : \E k \in DOMAIN kids[p] :
         n = kids[p][k] /\ rank[p] < rank[n]
  BY <1>1, TreeFacts
<1>3. Inductive(Nodes, rank, B)
  BY <1>2 DEF Inductive
<1> QED BY <1>1, <1>3, RankInduction

\* There is a function that is defined for a node by what it is for its children
OfChildren(S, G) ==
  \A n \in Nodes : \A f, g \in [Nodes -> S] :
    (\A k \in DOMAIN kids[n] : f[kids[n][k]] = g[kids[n][k]]) => G[n][f] = G[n][g]
\* A function that recurs on the children of a tree that was read exists
LEMMA TreeRecursion ==
  ASSUME NEW lv, TreeRead(lv), NEW S, S # {}, NEW G \in [Nodes -> [[Nodes -> S] -> S]],
         OfChildren(S, G)
  PROVE  Solvable(Nodes, S, G)
<1>1. PICK m \in Nat : \A n \in Nodes : n \in 1 .. m
  BY LayoutFacts DEF TreeRead, ReaderTypes
<1> DEFINE rank == [n \in Nodes |-> m - n]
<1>2. rank \in [Nodes -> 0 .. m]
  BY <1>1
<1>3. \A p \in Nodes : \A k \in DOMAIN kids[p] :
        kids[p][k] \in Nodes /\ rank[kids[p][k]] < rank[p]
  <2> TAKE p \in Nodes
  <2> TAKE k \in DOMAIN kids[p]
  <2>1. kids[p][k] \in Nodes /\ p < kids[p][k]
    BY TreeFacts
  <2>2. PICK c : c = kids[p][k]
    OBVIOUS
  <2>3. c \in Nodes /\ p < c /\ c \in 1 .. m /\ p \in 1 .. m
    BY <2>1, <2>2, <1>1
  <2>4. rank[c] = m - c /\ rank[p] = m - p
    BY <2>3
  <2> HIDE DEF rank
  <2>5. rank[c] < rank[p]
    BY <2>3, <2>4
  <2> QED BY <2>2, <2>3, <2>5
<1> HIDE DEF rank
<1>4. ASSUME NEW n \in Nodes, NEW f \in [Nodes -> S], NEW g \in [Nodes -> S],
             \A x \in Nodes : rank[x] < rank[n] => f[x] = g[x]
      PROVE  G[n][f] = G[n][g]
  <2>1. \A k \in DOMAIN kids[n] : f[kids[n][k]] = g[kids[n][k]]
    BY <1>3, <1>4
  <2> QED BY <2>1 DEF OfChildren
<1>5. LowerOnly(Nodes, rank, S, G)
  BY <1>4 DEF LowerOnly
<1> QED BY <1>1, <1>2, <1>5, RecursionExists, Zenon

\* The nodes below a node are itself and those below its children
LEMMA BelowEquation ==
  ASSUME NEW lv, TreeRead(lv)
  PROVE  /\ \A n \in Nodes : Below[n] = {n} \cup UNION {Below[kids[n][k]] : k \in DOMAIN kids[n]}
         /\ \A n \in Nodes : Below[n] \in SUBSET Nodes
<1> DEFINE S == SUBSET Nodes
           Body(f, n) == {n} \cup UNION {f[kids[n][k]] : k \in DOMAIN kids[n]}
           G == [n \in Nodes |-> [f \in [Nodes -> S] |-> Body(f, n)]]
<1>1. Below = CHOOSE f : f = [n \in Nodes |-> Body(f, n)]
  BY DEF Below
<1>2. G \in [Nodes -> [[Nodes -> S] -> S]]
  <2>1. \A n \in Nodes : \A f \in [Nodes -> S] : Body(f, n) \in S
    BY TreeFacts
  <2> HIDE DEF Body, S
  <2> QED BY <2>1
<1>3. OfChildren(S, G)
  <2>1. \A n \in Nodes : \A f, g \in [Nodes -> S] :
          (\A k \in DOMAIN kids[n] : f[kids[n][k]] = g[kids[n][k]]) => Body(f, n) = Body(g, n)
    OBVIOUS
  <2>2. \A n \in Nodes : \A f \in [Nodes -> S] : G[n][f] = Body(f, n)
    OBVIOUS
  <2> HIDE DEF Body, S, G
  <2> QED BY <2>1, <2>2 DEF OfChildren
<1>4. PICK f \in [Nodes -> S] : \A n \in Nodes : f[n] = G[n][f]
  <2>1. S # {}
    OBVIOUS
  <2>2. Solvable(Nodes, S, G)
    <3> HIDE DEF S, G
    <3> QED BY <1>2, <1>3, <2>1, TreeRecursion, Zenon
  <2> QED BY <2>2 DEF Solvable
<1>5. f = [n \in Nodes |-> Body(f, n)]
  BY <1>4
<1>6. Below = [n \in Nodes |-> Body(Below, n)]
  <2> HIDE DEF Body
  <2> QED BY <1>1, <1>5
<1>7. \A n \in Nodes : Below[n] = Body(Below, n)
  <2> HIDE DEF Body
  <2> QED BY <1>6
<1> DEFINE B == {n \in Nodes : Below[n] \in S}
<1>8. B = Nodes
  <2>1. \A n \in Nodes : (\A k \in DOMAIN kids[n] : kids[n][k] \in B) => n \in B
    BY <1>7
  <2>2. B \in SUBSET Nodes
    OBVIOUS
  <2> HIDE DEF B
  <2> QED BY <2>1, <2>2, BottomUp
<1> QED BY <1>7, <1>8

\* A node is below itself
LEMMA BelowSelf == ASSUME NEW lv, TreeRead(lv), NEW n \in Nodes PROVE n \in Below[n]
BY BelowEquation

\* With a node, its children are below another one
LEMMA BelowKids ==
  ASSUME NEW lv, TreeRead(lv), NEW c \in Nodes, NEW p \in Below[c], NEW k \in DOMAIN kids[p]
  PROVE  kids[p][k] \in Below[c]
<1> DEFINE B == {n \in Nodes : \A q \in Below[n] : \A j \in DOMAIN kids[q] : kids[q][j] \in Below[n]}
<1>1. \A n \in Nodes : (\A k_1 \in DOMAIN kids[n] : kids[n][k_1] \in B) => n \in B
  <2> SUFFICES ASSUME NEW n \in Nodes, \A i \in DOMAIN kids[n] : kids[n][i] \in B,
                      NEW q \in Below[n], NEW j \in DOMAIN kids[q]
               PROVE  kids[q][j] \in Below[n]
    OBVIOUS
  <2>1. Below[n] = {n} \cup UNION {Below[kids[n][i]] : i \in DOMAIN kids[n]}
    BY BelowEquation
  <2>2. CASE q = n
    <3>1. kids[n][j] \in Below[kids[n][j]]
      BY <2>2, TreeFacts, BelowSelf
    <3> QED BY <2>1, <2>2, <3>1
  <2>3. CASE q # n
    <3>1. PICK i \in DOMAIN kids[n] : q \in Below[kids[n][i]]
      BY <2>1, <2>3
    <3>2. kids[q][j] \in Below[kids[n][i]]
      BY <3>1
    <3> QED BY <2>1, <3>2
  <2> QED BY <2>2, <2>3
<1>2. B \in SUBSET Nodes
  OBVIOUS
<1> HIDE DEF B
<1>3. B = Nodes
  BY <1>1, <1>2, BottomUp
<1> QED BY <1>3 DEF B

\* A set of nodes with the children of its nodes has all that is below them
LEMMA BelowLeast ==
  ASSUME NEW lv, TreeRead(lv), NEW X \in SUBSET Nodes, NEW c \in X,
         \A p \in X : \A k \in DOMAIN kids[p] : kids[p][k] \in X
  PROVE  Below[c] \subseteq X
<1> DEFINE B == {n \in Nodes : n \in X => Below[n] \subseteq X}
<1>1. \A n \in Nodes : (\A k \in DOMAIN kids[n] : kids[n][k] \in B) => n \in B
  <2> SUFFICES ASSUME NEW n \in X, \A k \in DOMAIN kids[n] : kids[n][k] \in B
               PROVE  Below[n] \subseteq X
    OBVIOUS
  <2>1. Below[n] = {n} \cup UNION {Below[kids[n][k]] : k \in DOMAIN kids[n]}
    BY BelowEquation
  <2>2. \A k \in DOMAIN kids[n] : Below[kids[n][k]] \subseteq X
    OBVIOUS
  <2> QED BY <2>1, <2>2
<1>2. B \in SUBSET Nodes
  OBVIOUS
<1> HIDE DEF B
<1>3. B = Nodes
  BY <1>1, <1>2, BottomUp
<1> QED BY <1>3 DEF B

\* What is below a node is that node or a child of what is below it
LEMMA BelowParent ==
  ASSUME NEW lv, TreeRead(lv), NEW c \in Nodes, NEW n \in Below[c], n # c
  PROVE  \E p \in Below[c] : \E k \in DOMAIN kids[p] : n = kids[p][k]
<1> DEFINE X == {x \in Below[c] : x = c \/ \E p \in Below[c] : \E k \in DOMAIN kids[p] : x = kids[p][k]}
<1>1. X \in SUBSET Nodes /\ c \in X
  BY BelowEquation, BelowSelf
<1>2. \A p \in X : \A k \in DOMAIN kids[p] : kids[p][k] \in X
  BY BelowKids
<1> HIDE DEF X
<1>3. Below[c] \subseteq X
  BY <1>1, <1>2, BelowLeast
<1> QED BY <1>3 DEF X

\* To be below a node is transitive
LEMMA BelowBelow ==
  ASSUME NEW lv, TreeRead(lv), NEW c \in Nodes, NEW m \in Below[c]
  PROVE  Below[m] \subseteq Below[c]
<1>1. Below[c] \in SUBSET Nodes
  BY BelowEquation
<1>2. \A p \in Below[c] : \A k \in DOMAIN kids[p] : kids[p][k] \in Below[c]
  BY BelowKids
<1> QED BY <1>1, <1>2, BelowLeast

\* The nodes a node is below are below one another
LEMMA BelowChain ==
  ASSUME NEW lv, TreeRead(lv), NEW a \in Nodes, NEW b \in Nodes, NEW n \in Nodes,
         n \in Below[a], n \in Below[b]
  PROVE  a \in Below[b] \/ b \in Below[a]
<1> DEFINE B == {x \in Nodes : x \in Below[a] /\ x \in Below[b] => a \in Below[b] \/ b \in Below[a]}
<1>1. ASSUME NEW x \in Nodes, x \in Below[a], x \in Below[b],
             \A p \in Nodes : \A k \in DOMAIN kids[p] : x = kids[p][k] => p \in B
      PROVE  a \in Below[b] \/ b \in Below[a]
  <2>1. CASE x = a \/ x = b
    BY <2>1, <1>1
  <2>2. CASE x # a /\ x # b
    <3>1. PICK p \in Below[a] : \E k \in DOMAIN kids[p] : x = kids[p][k]
      BY <2>2, <1>1, BelowParent
    <3>2. PICK q \in Below[b] : \E k \in DOMAIN kids[q] : x = kids[q][k]
      BY <2>2, <1>1, BelowParent
    <3>3. p \in Nodes /\ q \in Nodes
      BY BelowEquation
    <3>4. \A j \in DOMAIN kids[p], k \in DOMAIN kids[q] : kids[p][j] = kids[q][k] => p = q
      BY <3>3, TreeFacts
    <3>5. p = q
      BY <3>1, <3>2, <3>4
    <3> QED BY <1>1, <3>1, <3>2, <3>3, <3>5
  <2> QED BY <2>1, <2>2
<1>2. 1 \in B
  <2>1. \A p \in Nodes : \A k \in DOMAIN kids[p] : 1 # kids[p][k]
    <3> TAKE p \in Nodes
    <3> TAKE k \in DOMAIN kids[p]
    <3>1. PICK c : c = kids[p][k]
      OBVIOUS
    <3>2. p \in Nat \ {0} /\ p < c /\ c \in Nat
      BY <3>1, TreeFacts
    <3> QED BY <3>1, <3>2
  <2> QED BY <1>1, <2>1, TreeFacts
<1>3. \A p \in B : \A k \in DOMAIN kids[p] : kids[p][k] \in B
  <2> TAKE p \in B
  <2> TAKE k \in DOMAIN kids[p]
  <2>1. kids[p][k] \in Nodes
    BY TreeFacts
  <2>2. \A q \in Nodes : \A j \in DOMAIN kids[q] : kids[p][k] = kids[q][j] => q \in B
    BY TreeFacts
  <2> QED BY <1>1, <2>1, <2>2
<1>4. B \in SUBSET Nodes
  OBVIOUS
<1> HIDE DEF B
<1>5. B = Nodes
  BY <1>2, <1>3, <1>4, TopDown
<1> QED BY <1>5 DEF B

\* Parent is the node it is a child of
LEMMA ParentOf ==
  ASSUME NEW lv, TreeRead(lv), NEW p \in Nodes, NEW k \in DOMAIN kids[p]
  PROVE  Parent(kids[p][k]) = p
<1>1. PICK n : n = kids[p][k]
  OBVIOUS
<1>2. \A q \in Nodes : (\E j \in DOMAIN kids[q] : kids[q][j] = n) <=> q = p
  BY <1>1, TreeFacts
<1> QED BY <1>1, <1>2 DEF Parent

(***************************************************************************)
(* The level of a node is where it is: ContributedOnly and what is computed *)
(***************************************************************************)
\* A child is on the level of its parent, but for the branches of a meta decl, the
\* condition of a meta if and the meta calculations
LEMMA KidLevel ==
  ASSUME NEW lv, TreeRead(lv), NEW p \in Nodes, NEW k \in DOMAIN kids[p],
         NEW c, c = kids[p][k]
  PROVE  /\ c \in Nodes /\ ChildFits(p, k, c)
         /\ Kind(p) = "metaIf" => lv[p] = "InsideMetaDecl"
         /\ Kind(p) = "meta" => lv[p] = "Outside"
         /\ Kind(c) = "metaCalculation" => lv[c] = "InsideComputation"
         /\ Kind(c) = "metaCalculation" => Kind(p) # "meta" /\ lv[p] = "InsideMetaDecl" /\ ~(Kind(p) = "metaIf" /\ k = 1)
         /\ Kind(c) # "metaCalculation" =>
              lv[c] = IF Kind(p) = "metaIf" /\ k = 1 THEN "InsideComputation"
                      ELSE IF Kind(p) = "meta" /\ k # 1 THEN "InsideMetaDecl" ELSE lv[p]
<1>1. c \in Nodes /\ Edge(lv, p, k, c)
  BY TreeFacts
<1>2. kids[p] # << >>
  <2>1. kids[p] \in Seq(Nodes)
    BY LayoutFacts DEF TreeRead, ReaderTypes
  <2> QED BY <2>1
<1>3. LevelFits(lv, p)
  BY TreeFacts
<1> QED BY <1>1, <1>2, <1>3 DEF Edge, LevelFits, LevelOf, LevelBefore, ChildFits

\* What is below a computation is computed
LEMMA ComputedBelow ==
  ASSUME NEW lv, TreeRead(lv), NEW c \in Nodes, lv[c] = "InsideComputation", NEW n \in Below[c]
  PROVE  lv[n] = "InsideComputation"
<1> DEFINE X == {x \in Nodes : lv[x] = "InsideComputation"}
<1>1. \A p \in X : \A k \in DOMAIN kids[p] : kids[p][k] \in X
  BY KidLevel
<1>2. X \in SUBSET Nodes /\ c \in X
  OBVIOUS
<1> HIDE DEF X
<1>3. Below[c] \subseteq X
  BY <1>1, <1>2, BelowLeast
<1> QED BY <1>3 DEF X

\* What is below a part of a meta decl is not outside of it
LEMMA InsideBelow ==
  ASSUME NEW lv, TreeRead(lv), NEW c \in Nodes, lv[c] # "Outside", NEW n \in Below[c]
  PROVE  lv[n] # "Outside"
<1> DEFINE X == {x \in Nodes : lv[x] # "Outside"}
<1>1. \A p \in X : \A k \in DOMAIN kids[p] : kids[p][k] \in X
  BY KidLevel
<1>2. X \in SUBSET Nodes /\ c \in X
  OBVIOUS
<1> HIDE DEF X
<1>3. Below[c] \subseteq X
  BY <1>1, <1>2, BelowLeast
<1> QED BY <1>3 DEF X

\* What is not outside of a meta decl is below its contribution
LEMMA InsideContribution ==
  ASSUME NEW lv, TreeRead(lv), NEW n \in Nodes, lv[n] # "Outside"
  PROVE  \E c \in Nodes : Kind(c) = "contribution" /\ n \in Below[c]
<1> DEFINE Inside(x) == \E c \in Nodes : Kind(c) = "contribution" /\ x \in Below[c]
           B == {x \in Nodes : lv[x] # "Outside" => Inside(x)}
<1>1. 1 \in B
  BY TreeFacts
<1>2. \A p \in B : \A k \in DOMAIN kids[p] : kids[p][k] \in B
  <2> SUFFICES ASSUME NEW p \in B, NEW k \in DOMAIN kids[p], NEW x, x = kids[p][k],
                      lv[x] # "Outside"
               PROVE  x \in Nodes /\ Inside(x)
    BY TreeFacts
  <2>1. x \in Nodes /\ ChildFits(p, k, x)
    BY KidLevel
  <2>2. CASE Kind(x) = "contribution"
    BY <2>1, <2>2, BelowSelf
  <2>3. CASE Kind(x) # "contribution"
    <3>1. ~(Kind(p) = "meta" /\ k # 1)
      BY <2>1, <2>3 DEF ChildFits
    <3>2. lv[p] # "Outside"
      BY <3>1, KidLevel
    <3>3. PICK c \in Nodes : Kind(c) = "contribution" /\ p \in Below[c]
      BY <3>2
    <3>4. x \in Below[c]
      BY <3>3, BelowKids
    <3> QED BY <2>1, <3>3, <3>4
  <2> QED BY <2>2, <2>3
<1>3. B \in SUBSET Nodes
  OBVIOUS
<1> HIDE DEF B
<1>4. B = Nodes
  BY <1>1, <1>2, <1>3, TopDown
<1> QED BY <1>4 DEF B

\* What is computed is below a meta calculation or the condition of a meta if
LEMMA InsideComputation ==
  ASSUME NEW lv, TreeRead(lv), NEW n \in Nodes, lv[n] = "InsideComputation"
  PROVE  \E c \in Nodes : \/ Kind(c) = "metaCalculation" /\ n \in Below[c]
                          \/ Kind(c) = "metaIf" /\ n \in Below[kids[c][1]]
<1> DEFINE Inside(x) == \E c \in Nodes : \/ Kind(c) = "metaCalculation" /\ x \in Below[c]
                                         \/ Kind(c) = "metaIf" /\ x \in Below[kids[c][1]]
           B == {x \in Nodes : lv[x] = "InsideComputation" => Inside(x)}
<1>1. 1 \in B
  BY TreeFacts
<1>2. \A p \in B : \A k \in DOMAIN kids[p] : kids[p][k] \in B
  <2> SUFFICES ASSUME NEW p \in B, NEW k \in DOMAIN kids[p], NEW x, x = kids[p][k],
                      lv[x] = "InsideComputation"
               PROVE  x \in Nodes /\ Inside(x)
    BY TreeFacts
  <2>1. x \in Nodes /\ x \in Below[x]
    BY TreeFacts, BelowSelf
  <2>2. CASE Kind(x) = "metaCalculation"
    BY <2>1, <2>2
  <2>3. CASE Kind(p) = "metaIf" /\ k = 1
    BY <2>1, <2>3
  <2>4. CASE Kind(x) # "metaCalculation" /\ ~(Kind(p) = "metaIf" /\ k = 1)
    <3>1. lv[p] = "InsideComputation"
      BY <2>4, KidLevel
    <3>2. PICK c \in Nodes : \/ Kind(c) = "metaCalculation" /\ p \in Below[c]
                             \/ Kind(c) = "metaIf" /\ p \in Below[kids[c][1]]
      BY <3>1
    <3>3. CASE Kind(c) = "metaCalculation" /\ p \in Below[c]
      <4>1. x \in Below[c]
        BY <3>3, BelowKids
      <4> QED BY <2>1, <3>3, <4>1
    <3>4. CASE Kind(c) = "metaIf" /\ p \in Below[kids[c][1]]
      <4>1. kids[c][1] \in Nodes
        <5>1. Complete(c) /\ kids[c] \in Seq(Nodes)
          BY TreeFacts, LayoutFacts DEF TreeRead, ReaderTypes
        <5> QED BY <5>1, <3>4 DEF Complete
      <4>2. x \in Below[kids[c][1]]
        BY <3>4, <4>1, BelowKids
      <4> QED BY <2>1, <3>4, <4>2
    <3> QED BY <3>2, <3>3, <3>4
  <2> QED BY <2>2, <2>3, <2>4
<1>3. B \in SUBSET Nodes
  OBVIOUS
<1> HIDE DEF B
<1>4. B = Nodes
  BY <1>1, <1>2, <1>3, TopDown
<1> QED BY <1>4 DEF B

\* The condition of a meta if is computed
LEMMA ConditionComputed ==
  ASSUME NEW lv, TreeRead(lv), NEW c \in Nodes, Kind(c) = "metaIf"
  PROVE  /\ 1 \in DOMAIN kids[c] /\ kids[c][1] \in Nodes
         /\ lv[kids[c][1]] = "InsideComputation" /\ lv[c] = "InsideMetaDecl"
<1>1. 1 \in DOMAIN kids[c]
  <2>1. Complete(c) /\ kids[c] \in Seq(Nodes)
    BY TreeFacts, LayoutFacts DEF TreeRead, ReaderTypes
  <2> QED BY <2>1 DEF Complete
<1>2. PICK x : x = kids[c][1]
  OBVIOUS
<1> QED BY <1>1, <1>2, KidLevel

\* The modes of the reader are those of the tree: a node is only contributed
\* exactly when it was read inside of a meta decl and not inside of a computation
LEMMA ContributedLevel ==
  ASSUME NEW lv, TreeRead(lv), NEW n \in Nodes
  PROVE  ContributedOnly(n) <=> lv[n] = "InsideMetaDecl"
<1>1. ASSUME lv[n] = "InsideMetaDecl" PROVE ContributedOnly(n)
  <2>1. \E c \in Nodes : Kind(c) = "contribution" /\ n \in Below[c]
    BY <1>1, InsideContribution
  <2>2. \A c \in Nodes : Kind(c) = "metaCalculation" => n \notin Below[c]
    <3> TAKE c \in Nodes
    <3>1. Kind(c) = "metaCalculation" => lv[c] = "InsideComputation"
      BY TreeFacts DEF LevelFits
    <3> QED BY <1>1, <3>1, ComputedBelow
  <2>3. \A c \in Nodes : Kind(c) = "metaIf" => n \notin Below[kids[c][1]]
    BY <1>1, ConditionComputed, ComputedBelow
  <2> QED BY <2>1, <2>2, <2>3 DEF ContributedOnly
<1>2. ASSUME ContributedOnly(n) PROVE lv[n] = "InsideMetaDecl"
  <2>1. PICK c \in Nodes : Kind(c) = "contribution" /\ n \in Below[c]
    BY <1>2 DEF ContributedOnly
  <2>2. lv[c] # "Outside"
    BY <2>1, TreeFacts DEF LevelFits
  <2>3. lv[n] # "Outside"
    BY <2>1, <2>2, InsideBelow
  <2>4. lv[n] # "InsideComputation"
    BY <1>2, InsideComputation DEF ContributedOnly
  <2> QED BY <2>3, <2>4, TreeFacts DEF Levels
<1> QED BY <1>1, <1>2

(***************************************************************************)
(* Where the nodes are: behind a node are its children, each behind what   *)
(* is inside of the one before it, and then the marker it may have.        *)
(***************************************************************************)
\* en[n] is the position of the last entry of n
InnerEnd(en, n) == IF kids[n] = << >> THEN n ELSE en[kids[n][Len(kids[n])]]
EndOf(en, n)    == InnerEnd(en, n) + Marked(Kind(n))
Follows(en, p, k) ==
  /\ kids[p][k] = (IF k = 1 THEN p ELSE en[kids[p][k - 1]]) + 1
  /\ en[kids[p][k]] = EndOf(en, kids[p][k])
  /\ Marked(Kind(kids[p][k])) = 1 => Kind(en[kids[p][k]]) = "marker"

Spans(en) ==
  /\ en \in [Nodes -> Nat]
  /\ \A p \in Nodes : \A k \in DOMAIN kids[p] : Follows(en, p, k)
  /\ \A i \in 2 .. Len(stack) : stack[i] = InnerEnd(en, stack[i - 1]) + 1
  /\ stack # << >> => pos = InnerEnd(en, Top)
  /\ status = "read" => pos = EndOf(en, 1) /\ Kind(pos) = "marker"

SpanInv == status \notin Failures => \E en : Spans(en)

\* The node that is shifted is behind what was read of the node around it
LEMMA ShiftSpans ==
  ASSUME NEW lv, NEW c, CallStep(lv, c), Pushes(c), status' = "reading", NEW en, Spans(en)
  PROVE  SpanInv'
<1>1. Nodes' = Nodes /\ layout' = layout /\ \A n : Kind(n)' = Kind(n)
  BY DEF Pushes, layout, Nodes, Kind
<1>2. PICK m \in Nat \ {0} : m = Len(stack) /\ Top = stack[m] /\ DOMAIN stack = 1 .. m
  BY CallFacts
<1>3. /\ Len(stack') = m + 1 /\ stack'[m + 1] = c /\ stack' # << >>
      /\ \A i \in 1 .. m : stack'[i] = stack[i]
  <2>1. stack \in Seq(Nodes) /\ c \in Nodes /\ stack' = Append(stack, c)
    BY DEF CallStep, ReaderTypes, Pushes
  <2> QED BY <1>2, <2>1, PushedSeq
<1>4. c = pos + 1 /\ kids' = kids /\ pos' = c /\ c \in Nodes /\ stack # << >>
  BY DEF CallStep, Pushes
<1>5. kids[c] = << >>
  <2>1. c > pos
    BY <1>4, CallFacts
  <2> QED BY <1>4, <2>1 DEF CallStep, Running, TreeOk
<1>6. \A n : InnerEnd(en, n)' = InnerEnd(en, n) /\ EndOf(en, n)' = EndOf(en, n)
  BY <1>1, <1>4 DEF InnerEnd, EndOf, Marked
<1>7. \A p \in Nodes' : \A k \in DOMAIN kids'[p] : Follows(en, p, k)'
  <2> SUFFICES ASSUME NEW p \in Nodes, NEW k \in DOMAIN kids[p] PROVE Follows(en, p, k)'
    BY <1>1, <1>4
  <2>1. Follows(en, p, k)
    BY DEF Spans
  <2> QED BY <2>1, <1>1, <1>4, <1>6 DEF Follows, Marked
<1>8. Top' = c
  BY <1>3 DEF Top, Last
<1>9. (\A i \in 2 .. Len(stack) : stack[i] = InnerEnd(en, stack[i - 1]) + 1)'
  <2> SUFFICES ASSUME NEW i \in 2 .. m + 1 PROVE stack'[i] = InnerEnd(en, stack'[i - 1]) + 1
    <3>1. \A n : InnerEnd(en, n)' = InnerEnd(en, n)
      BY <1>6
    <3> QED BY <3>1, <1>3 DEF InnerEnd
  <2>1. CASE i = m + 1
    <3>1. i - 1 = m /\ stack'[i - 1] = Top /\ stack'[i] = c
      BY <2>1, <1>2, <1>3
    <3> QED BY <3>1, <1>4 DEF Spans
  <2>2. CASE i # m + 1
    <3>1. i \in 2 .. Len(stack) /\ i - 1 \in 1 .. m /\ i \in 1 .. m
      BY <2>2, <1>2
    <3>2. stack'[i] = stack[i] /\ stack'[i - 1] = stack[i - 1]
      BY <3>1, <1>3
    <3> QED BY <3>1, <3>2 DEF Spans
  <2> QED BY <2>1, <2>2
<1>10. (pos = InnerEnd(en, Top))'
  BY <1>4, <1>5, <1>8 DEF InnerEnd
<1>11. Spans(en)'
  BY <1>1, <1>4, <1>7, <1>9, <1>10 DEF Spans
<1> QED BY <1>11 DEF SpanInv

\* The node whose method returns ends where the reader is
LEMMA ReturnSpans ==
  ASSUME NEW lv, Returns(lv), NEW en, Spans(en) PROVE SpanInv'
<1>1. Nodes' = Nodes /\ layout' = layout /\ \A n : Kind(n)' = Kind(n)
  BY DEF Returns, Finish, layout, Nodes, Kind
<1>2. PICK m : m = Len(stack) - 1
  OBVIOUS
<1>3. /\ m \in Nat /\ DOMAIN stack = 1 .. m + 1 /\ Len(stack) = m + 1
      /\ Len(stack') = m /\ DOMAIN stack' = 1 .. m /\ stack' \in Seq(Nodes)
      /\ Top = stack[m + 1]
      /\ \A i \in 1 .. m : stack'[i] = stack[i] /\ stack[i] \in Nodes /\ stack[i] < Top
  BY <1>2, PoppedStack
<1>4. PICK c : c = Top
  OBVIOUS
<1>5. /\ stack # << >> /\ c \in Nodes /\ c \in Nat \ {0} /\ c <= pos /\ pos \in Nat
      /\ pos' = pos + Marked(Kind(c)) /\ Nodes \subseteq Nat \ {0}
      /\ \A p \in Nodes : kids[p] \in Seq(Nodes)
      /\ Marked(Kind(c)) = 1 => Kind(pos + 1) = "marker"
  BY <1>4, ReturnFacts
<1>6. pos = InnerEnd(en, c) /\ en \in [Nodes -> Nat] /\ Marked(Kind(c)) \in {0, 1}
  BY <1>4, <1>5 DEF Spans, Marked
<1>7. Marked(Kind(c)) = 1 => Kind(pos') = "marker"
  BY <1>5
<1>8. CASE m = 0
  <2>1. kids' = kids /\ status' = "read" /\ c = 1 /\ stack' = << >>
    <3>1. kids' = kids /\ status' = "read"
      BY <1>2, <1>8, GivenChild
    <3>2. stack[1] = 1
      BY <1>5 DEF Returns, Running, StackOk
    <3> QED BY <3>1, <3>2, <1>3, <1>4, <1>8
  <2>2. \A n : InnerEnd(en, n)' = InnerEnd(en, n) /\ EndOf(en, n)' = EndOf(en, n)
    BY <1>1, <2>1 DEF InnerEnd, EndOf, Marked
  <2>3. \A p \in Nodes' : \A k \in DOMAIN kids'[p] : Follows(en, p, k)'
    <3> SUFFICES ASSUME NEW p \in Nodes, NEW k \in DOMAIN kids[p] PROVE Follows(en, p, k)'
      BY <1>1, <2>1
    <3>1. Follows(en, p, k)
      BY DEF Spans
    <3> QED BY <3>1, <1>1, <2>1, <2>2 DEF Follows, Marked
  <2>4. Marked(Kind(1)) = 1
    <3>1. pos > 0
      BY <1>5
    <3>2. Kind(1) \in UnitKinds
      BY <3>1 DEF Returns, Running, StackOk
    <3> QED BY <3>2 DEF UnitKinds, Marked, RequiresReduceMarker
  <2>5. (pos = EndOf(en, 1))' /\ (Kind(pos) = "marker")'
    <3>1. EndOf(en, 1)' = InnerEnd(en, 1) + Marked(Kind(1))
      BY <2>2 DEF EndOf
    <3>2. pos' = InnerEnd(en, 1) + Marked(Kind(1))
      BY <1>5, <1>6, <2>1
    <3>3. Kind(pos') = "marker"
      BY <1>7, <2>1, <2>4
    <3> QED BY <1>1, <3>1, <3>2, <3>3 DEF Kind
  <2>6. Spans(en)'
    BY <1>1, <1>3, <1>6, <1>8, <2>1, <2>3, <2>5 DEF Spans
  <2> QED BY <2>6 DEF SpanInv
<1>9. CASE m # 0
  <2>1. PICK q, j : q = Caller /\ j = Len(kids[Caller])
    OBVIOUS
  <2>2. /\ status' = "reading" /\ q \in Nodes /\ q = stack[m] /\ q < c
        /\ kids'[q] = Append(kids[q], c) /\ \A n \in Nodes : n # q => kids'[n] = kids[n]
        /\ j = Len(kids[q]) /\ Len(kids'[q]) = j + 1 /\ j \in Nat /\ kids'[q][j + 1] = c
        /\ \A k \in 1 .. j : kids'[q][k] = kids[q][k]
        /\ DOMAIN kids[q] = 1 .. j /\ DOMAIN kids'[q] = 1 .. j + 1
    BY <1>2, <1>4, <1>9, <2>1, GivenChild
  <2>3. \A p \in Nodes : \A k \in DOMAIN kids[p] : kids[p][k] \in Nodes /\ kids[p][k] # c
    <3> SUFFICES ASSUME NEW p \in Nodes, NEW k \in DOMAIN kids[p]
                 PROVE  kids[p][k] \in Nodes /\ kids[p][k] # c
      OBVIOUS
    <3>1. kids[p][k] \in Nodes
      BY <1>5
    <3>2. m + 1 \in DOMAIN stack
      BY <1>3
    <3> QED BY <3>1, <3>2, <1>3, <1>4 DEF Returns, Running, TreeOk
  <2>4. PICK w : w = [en EXCEPT ![c] = pos']
    OBVIOUS
  <2>5. w \in [Nodes -> Nat] /\ w[c] = pos' /\ \A n \in Nodes : n # c => w[n] = en[n]
    BY <1>5, <1>6, <2>4
  <2>6. \A n \in Nodes : n # q => InnerEnd(w, n)' = InnerEnd(en, n) /\ EndOf(w, n)' = EndOf(en, n)
    <3> SUFFICES ASSUME NEW n \in Nodes, n # q PROVE InnerEnd(w, n)' = InnerEnd(en, n)
      BY <1>1 DEF EndOf, Marked
    <3>1. kids'[n] = kids[n]
      BY <2>2
    <3>2. CASE kids[n] = << >>
      BY <3>1, <3>2 DEF InnerEnd
    <3>3. CASE kids[n] # << >>
      <4>1. Len(kids[n]) \in DOMAIN kids[n]
        BY <3>3, <1>5
      <4>2. w[kids[n][Len(kids[n])]] = en[kids[n][Len(kids[n])]]
        BY <4>1, <2>3, <2>5
      <4> QED BY <3>1, <3>3, <4>2 DEF InnerEnd
    <3> QED BY <3>2, <3>3
  <2>7. InnerEnd(w, q)' = pos'
    <3>1. kids'[q] # << >>
      <4>1. Len(kids'[q]) # 0
        BY <2>2
      <4> QED BY <4>1
    <3> QED BY <2>2, <2>5, <3>1 DEF InnerEnd
  <2>8. q # c
    BY <1>5, <2>2
  <2>9. c = InnerEnd(en, q) + 1
    <3>1. m + 1 \in 2 .. Len(stack) /\ (m + 1) - 1 = m
      BY <1>3, <1>9
    <3> QED BY <3>1, <1>3, <1>4, <2>2 DEF Spans
  <2>10. \A p \in Nodes' : \A k \in DOMAIN kids'[p] : Follows(w, p, k)'
    <3> SUFFICES ASSUME NEW p \in Nodes, NEW k \in DOMAIN kids'[p] PROVE Follows(w, p, k)'
      BY <1>1
    <3>1. CASE p = q /\ k = j + 1
      <4>1. kids'[p][k] = c /\ w[c] = pos' /\ EndOf(w, c)' = EndOf(en, c)
        BY <3>1, <1>5, <2>2, <2>5, <2>6, <2>8
      <4>2. pos' = EndOf(en, c)
        BY <1>5, <1>6 DEF EndOf
      <4>3. c = (IF k = 1 THEN p ELSE w[kids'[p][k - 1]]) + 1
        <5>1. CASE j = 0
          <6>1. kids[q] = << >>
            BY <5>1, <2>2, <1>5
          <6> QED BY <6>1, <3>1, <5>1, <2>9 DEF InnerEnd
        <5>2. CASE j # 0
          <6>1. k - 1 = j /\ k # 1 /\ j \in 1 .. j /\ kids[q] # << >>
            BY <3>1, <5>2, <2>2
          <6>2. kids'[q][j] = kids[q][j] /\ kids[q][j] \in Nodes /\ kids[q][j] # c
            BY <6>1, <2>2, <2>3
          <6>3. w[kids'[q][j]] = en[kids[q][j]]
            BY <6>2, <2>5
          <6> QED BY <6>1, <6>3, <3>1, <2>2, <2>9 DEF InnerEnd
        <5> QED BY <5>1, <5>2
      <4> QED BY <4>1, <4>2, <4>3, <1>1, <1>7 DEF Follows, Marked
    <3>2. CASE ~(p = q /\ k = j + 1)
      <4>1. k \in DOMAIN kids[p] /\ kids'[p][k] = kids[p][k]
            /\ (k # 1 => k - 1 \in DOMAIN kids[p] /\ kids'[p][k - 1] = kids[p][k - 1])
        <5>1. CASE p # q
          <6>1. kids'[p] = kids[p] /\ kids[p] \in Seq(Nodes)
            BY <5>1, <1>5, <2>2
          <6> QED BY <6>1
        <5>2. CASE p = q
          <6>1. k \in 1 .. j + 1 /\ k # j + 1
            BY <5>2, <3>2, <2>2
          <6>2. k \in 1 .. j /\ (k # 1 => k - 1 \in 1 .. j)
            BY <6>1, <2>2
          <6> QED BY <6>2, <5>2, <2>2
        <5> QED BY <5>1, <5>2
      <4>2. PICK d : d = kids[p][k] /\ d \in Nodes /\ d # c
        BY <4>1, <2>3
      <4>3. Follows(en, p, k)
        BY <4>1 DEF Spans
      <4>4. w[d] = en[d] /\ (k # 1 => w[kids[p][k - 1]] = en[kids[p][k - 1]])
        BY <4>1, <4>2, <2>3, <2>5
      <4>5. EndOf(w, d)' = EndOf(en, d)
        <5>1. d # q
          <6>1. m \in DOMAIN stack
            BY <1>3, <1>9
          <6> QED BY <6>1, <4>1, <4>2, <2>2 DEF Returns, Running, TreeOk
        <5> QED BY <5>1, <4>2, <2>6
      <4> QED BY <4>1, <4>2, <4>3, <4>4, <4>5, <1>1 DEF Follows, Marked
    <3> QED BY <3>1, <3>2
  <2>11. (\A i \in 2 .. Len(stack) : stack[i] = InnerEnd(w, stack[i - 1]) + 1)'
    <3> SUFFICES ASSUME NEW i \in 2 .. m, NEW x, x = stack'[i - 1]
                 PROVE  stack'[i] = InnerEnd(w, x)' + 1
      BY <1>3 DEF InnerEnd
    <3>1. i \in 1 .. m /\ i - 1 \in 1 .. m /\ i \in 2 .. Len(stack) /\ i - 1 < m
      BY <1>3
    <3>2. stack'[i] = stack[i] /\ stack'[i - 1] = stack[i - 1] /\ stack[i - 1] \in Nodes
      BY <3>1, <1>3
    <3>3. stack[i - 1] # q
      <4>1. i - 1 \in DOMAIN stack /\ m \in DOMAIN stack
        BY <3>1, <1>3
      <4>2. stack[i - 1] < stack[m]
        BY <3>1, <4>1 DEF Returns, Running, StackOk
      <4> QED BY <4>2, <2>2, <3>2, <1>5
    <3>4. stack[i] = InnerEnd(en, stack[i - 1]) + 1
      BY <3>1 DEF Spans
    <3>5. InnerEnd(w, x)' = InnerEnd(en, x)
      BY <3>2, <3>3, <2>6
    <3> QED BY <3>2, <3>4, <3>5
  <2>12. Top' = q
    <3>1. m \in 1 .. m
      BY <1>3, <1>9
    <3> QED BY <3>1, <1>3, <2>2 DEF Top, Last
  <2>13. (pos = InnerEnd(w, Top))'
    BY <2>7, <2>12 DEF InnerEnd
  <2>14. Spans(w)'
    BY <1>1, <2>2, <2>5, <2>10, <2>11, <2>13 DEF Spans
  <2> QED BY <2>14 DEF SpanInv
<1> QED BY <1>3, <1>8, <1>9

\* The ends of the nodes when one is consumed
LEMMA ShiftKeepsSpans ==
  ASSUME ReaderInv, SpanInv, NEW ks \in SUBSET Kinds, Consumes(ks), Shift, ks \cap UnitKinds = {},
         input' = input, units' = units, kids' = kids, status' \in {"reading", "wrongMode"},
         status' = "reading" /\ Enters(pos + 1) => Mode(modes) = "InsideMetaDecl"
  PROVE  SpanInv'
<1>1. PICK c : c = pos + 1
  OBVIOUS
<1>2. /\ status = "reading" /\ stack # << >> /\ c \in Nodes /\ Pushes(c)
      /\ ChildFits(Top, Len(kids[Top]) + 1, c)
  BY <1>1, ConsumedNode
<1>3. CASE status' = "reading"
  <2>1. PICK lv : Running(lv)
    BY <1>2 DEF ReaderInv, Failures, RunningOk, Running
  <2>2. PICK en : Spans(en)
    BY <1>2 DEF SpanInv, Failures
  <2>3. ReaderTypes
    BY DEF ReaderInv
  <2>4. Mode(modes) = NextLevel(lv)
    <3>1. Top \in Nodes
      BY <1>2, <2>3, FrontSeq DEF ReaderTypes, Top
    <3>2. modes = ModesOf(NextLevel(lv)) /\ NextLevel(lv) \in Levels
      BY <2>1, <3>1, <1>2 DEF Running, NextLevel, LevelBefore, Levels, LevelsOk
    <3> QED BY <3>2, ModeOfLevel
  <2>5. CallStep(lv, c)
    BY <1>1, <1>2, <1>3, <2>1, <2>3, <2>4 DEF CallStep, Enters
  <2> QED BY <1>2, <1>3, <2>2, <2>5, ShiftSpans
<1>4. CASE status' # "reading"
  BY <1>4 DEF SpanInv, Failures
<1> QED BY <1>3, <1>4

\* The unit is the first entry
LEMMA UnitSpans == ASSUME ReaderInv, SpanInv, ConsumeUnit PROVE SpanInv'
<1>1. PICK ks : ks = {"compilationUnit", "metaUnit"}
  OBVIOUS
<1>2. /\ ks \in SUBSET Kinds /\ Consumes(ks) /\ Shift /\ input' = input /\ kids' = kids
      /\ status' = "crawling"
  BY <1>1 DEF ConsumeUnit, Kinds, OtherKinds, treeVars
<1>3. ReaderTypes
  BY DEF ReaderInv
<1>4. /\ status = "reading" /\ pos \in Nat /\ pos + 1 \in Nodes /\ Kind(pos + 1) \in ks
      /\ stack = << >> => pos = 0
      /\ stack # << >> /\ pos # 0 => ChildFits(Top, Len(kids[Top]) + 1, pos + 1)
  BY <1>2, <1>3, ConsumeFits
<1>5. PICK lv : Running(lv)
  BY <1>4 DEF ReaderInv, Failures, RunningOk, Running
<1>6. stack = << >> /\ pos = 0
  <2>1. ~ChildFits(Top, Len(kids[Top]) + 1, pos + 1)
    BY <1>1, <1>4 DEF ChildFits, UnitKinds
  <2> QED BY <2>1, <1>4, <1>5 DEF Running, StackOk
<1>7. Nodes' = Nodes /\ \A n \in Nodes : kids'[n] = << >> /\ DOMAIN kids'[n] = {}
  <2>1. \A n \in Nodes : n \in Nat \ {0}
    BY <1>3, LayoutFacts DEF ReaderTypes
  <2>2. \A n \in Nodes : n > pos
    BY <2>1, <1>6
  <2>3. \A n \in Nodes : kids[n] = << >>
    BY <2>2, <1>5 DEF Running, TreeOk
  <2>4. Nodes' = Nodes
    BY <1>2, SameInput
  <2> QED BY <2>3, <2>4, <1>2
<1>8. pos' = 1 /\ stack' = <<1>> /\ Len(stack') = 1 /\ Top' = 1
  <2>1. pos' = 1 /\ stack' = <<1>>
    BY <1>2, <1>6 DEF Shift
  <2> QED BY <2>1 DEF Top, Last
<1>9. PICK en : en = [n \in Nodes |-> 0]
  OBVIOUS
<1>10. en \in [Nodes -> Nat] /\ 1 \in Nodes
  BY <1>9, <1>4, <1>6
<1>11. (pos = InnerEnd(en, Top))'
  BY <1>7, <1>8, <1>10 DEF InnerEnd
<1>12. Spans(en)'
  BY <1>2, <1>7, <1>8, <1>10, <1>11 DEF Spans
<1> QED BY <1>12 DEF SpanInv

\* Where the nodes are does not change while decls are introduced
LEMMA SpansStay ==
  ASSUME SpanInv, input' = input, pos' = pos, stack' = stack, kids' = kids,
         status' = status \/ (status = "crawling" /\ status' = "reading")
  PROVE  SpanInv'
<1> SUFFICES ASSUME NEW en, Spans(en), status \notin Failures PROVE Spans(en)'
  BY DEF SpanInv, Failures
<1>1. Nodes' = Nodes /\ \A n : Kind(n)' = Kind(n)
  BY SameInput
<1>2. \A n : InnerEnd(en, n)' = InnerEnd(en, n) /\ EndOf(en, n)' = EndOf(en, n)
  BY <1>1 DEF InnerEnd, EndOf, Marked
<1>3. \A p \in Nodes' : \A k \in DOMAIN kids'[p] : Follows(en, p, k)'
  <2> SUFFICES ASSUME NEW p \in Nodes, NEW k \in DOMAIN kids[p] PROVE Follows(en, p, k)'
    BY <1>1
  <2>1. Follows(en, p, k)
    BY DEF Spans
  <2> QED BY <2>1, <1>1, <1>2 DEF Follows, Marked
<1>4. (\A i \in 2 .. Len(stack) : stack[i] = InnerEnd(en, stack[i - 1]) + 1)'
  BY DEF Spans, InnerEnd
<1>5. (stack # << >> => pos = InnerEnd(en, Top))'
  BY DEF Spans, InnerEnd, Top
<1>6. (status = "read" => pos = EndOf(en, 1) /\ Kind(pos) = "marker")'
  BY <1>1, <1>2 DEF Spans
<1> QED BY <1>1, <1>3, <1>4, <1>5, <1>6 DEF Spans

\* Nothing was read yet
LEMMA FreshSpans == Fresh => SpanInv
<1> SUFFICES ASSUME Fresh PROVE Spans([n \in Nodes |-> 0])
  BY DEF SpanInv
<1>1. \A n \in Nodes : DOMAIN kids[n] = {}
  <2>1. \A n \in Nodes : n \in DOMAIN layout
    BY DEF Nodes
  <2> QED BY <2>1 DEF Fresh, NothingOf
<1>2. stack = << >> /\ Len(stack) = 0 /\ status # "read"
  BY DEF Fresh
<1> QED BY <1>1, <1>2 DEF Spans

\* No node has an end behind a step that starts a reader
LEMMA FreshSpansBehind == Fresh' => SpanInv'
BY FreshSpans, PTL

\* As long as the reader reads or starts anew, the nodes are one behind the other
LEMMA SpanStep == ASSUME ReaderInv, SpanInv, Read \/ Instantiate PROVE SpanInv'
<1>1. CASE ConsumeUnit
  BY <1>1, UnitSpans
<1>2. CASE CrawlNode \/ LeaveCrawl
  BY <1>2, SpansStay DEF CrawlNode, LeaveCrawl, treeVars
<1>3. CASE ConsumeScoped
  <2>1. PICK ks : ks = {"function", "meta", "compound"}
    OBVIOUS
  <2>2. /\ ks \in SUBSET Kinds /\ ks \cap UnitKinds = {} /\ Consumes(ks) /\ Shift
        /\ \A kind \in ks : kind \notin {"metaIf", "metaCalculation"}
    BY <2>1, <1>3 DEF ConsumeScoped, Kinds, StmtKinds, OtherKinds, UnitKinds
  <2>3. UNCHANGED <<units, input, kids, status>>
    BY <1>3 DEF ConsumeScoped, treeVars
  <2>4. status = "reading" /\ ~Enters(pos + 1)
    BY <2>2, <2>3, ConsumedNode DEF Enters
  <2> QED BY <2>2, <2>3, <2>4, ShiftKeepsSpans
<1>4. CASE ConsumeMetaIf
  <2>1. PICK ks : ks = {"metaIf"}
    OBVIOUS
  <2>2. /\ ks \in SUBSET Kinds /\ ks \cap UnitKinds = {} /\ Consumes(ks) /\ Shift
    BY <2>1, <1>4 DEF ConsumeMetaIf, Kinds, StmtKinds, UnitKinds
  <2>3. UNCHANGED <<units, input, kids>> /\ EnterMode("InsideMetaDecl", "InsideComputation")
    BY <1>4 DEF ConsumeMetaIf, treeVars
  <2>4. status = "reading"
    BY <2>2, <2>3, ConsumedNode
  <2>5. /\ status' \in {"reading", "wrongMode"}
        /\ status' = "reading" => Mode(modes) = "InsideMetaDecl"
    BY <2>3, <2>4 DEF EnterMode
  <2> QED BY <2>2, <2>3, <2>5, ShiftKeepsSpans
<1>5. CASE ConsumeMetaCalculation
  <2>1. PICK ks : ks = {"metaCalculation"}
    OBVIOUS
  <2>2. /\ ks \in SUBSET Kinds /\ ks \cap UnitKinds = {} /\ Consumes(ks) /\ Shift
    BY <2>1, <1>5 DEF ConsumeMetaCalculation, Kinds, StmtKinds, UnitKinds
  <2>3. UNCHANGED <<units, input, kids>> /\ EnterMode("InsideMetaDecl", "InsideComputation")
    BY <1>5 DEF ConsumeMetaCalculation, treeVars
  <2>4. status = "reading"
    BY <2>2, <2>3, ConsumedNode
  <2>5. /\ status' \in {"reading", "wrongMode"}
        /\ status' = "reading" => Mode(modes) = "InsideMetaDecl"
    BY <2>3, <2>4 DEF EnterMode
  <2> QED BY <2>2, <2>3, <2>5, ShiftKeepsSpans
<1>6. CASE ConsumeArgument
  <2>1. PICK ks : ks = {"arg"}
    OBVIOUS
  <2>2. /\ ks \in SUBSET Kinds /\ ks \cap UnitKinds = {} /\ Consumes(ks) /\ Shift
        /\ \A kind \in ks : kind \notin {"metaIf", "metaCalculation"}
    BY <2>1, <1>6 DEF ConsumeArgument, Kinds, OtherKinds, UnitKinds
  <2>3. UNCHANGED <<units, input, kids, status>>
    BY <1>6 DEF ConsumeArgument, treeVars
  <2>4. status = "reading" /\ ~Enters(pos + 1)
    BY <2>2, <2>3, ConsumedNode DEF Enters
  <2> QED BY <2>2, <2>3, <2>4, ShiftKeepsSpans
<1>7. CASE ConsumeDeclRef
  <2>1. PICK ks : ks = {"ref"}
    OBVIOUS
  <2>2. /\ ks \in SUBSET Kinds /\ ks \cap UnitKinds = {} /\ Consumes(ks) /\ Shift
        /\ \A kind \in ks : kind \notin {"metaIf", "metaCalculation"}
    BY <2>1, <1>7 DEF ConsumeDeclRef, Kinds, ExprKinds, UnitKinds
  <2>3. UNCHANGED <<units, input, kids, status>>
    BY <1>7 DEF ConsumeDeclRef
  <2>4. status = "reading" /\ ~Enters(pos + 1)
    BY <2>2, <2>3, ConsumedNode DEF Enters
  <2> QED BY <2>2, <2>3, <2>4, ShiftKeepsSpans
<1>8. CASE ConsumeOther
  <2>1. PICK ks : ks = Kinds \ {"compilationUnit", "metaUnit", "function", "meta", "compound",
                                "metaIf", "metaCalculation", "arg", "ref"}
    OBVIOUS
  <2>2. /\ ks \in SUBSET Kinds /\ ks \cap UnitKinds = {} /\ Consumes(ks) /\ Shift
        /\ \A kind \in ks : kind \notin {"metaIf", "metaCalculation"}
    BY <2>1, <1>8 DEF ConsumeOther, UnitKinds
  <2>3. UNCHANGED <<units, input, kids, status>>
    BY <1>8 DEF ConsumeOther, treeVars
  <2>4. status = "reading" /\ ~Enters(pos + 1)
    BY <2>2, <2>3, ConsumedNode DEF Enters
  <2> QED BY <2>2, <2>3, <2>4, ShiftKeepsSpans
<1>9. CASE Reject
  <2>1. status' \in Failures
    BY <1>9 DEF Reject, Failures
  <2> QED BY <2>1 DEF SpanInv
<1>10. CASE Finish
  <2>1. status = "reading"
    BY <1>10 DEF Finish, Reading
  <2>2. PICK lv : Running(lv)
    BY <2>1 DEF ReaderInv, Failures, RunningOk, Running
  <2>3. PICK en : Spans(en)
    BY <2>1 DEF SpanInv, Failures
  <2>4. CASE status' \in Failures
    BY <2>4 DEF SpanInv
  <2>5. CASE status' \notin Failures
    <3>1. Returns(lv)
      BY <1>10, <2>2, <2>5 DEF Returns, ReaderInv
    <3> QED BY <3>1, <2>3, ReturnSpans
  <2> QED BY <2>4, <2>5
<1>11. CASE Instantiate
  BY <1>11, InstantiateFresh, FreshSpansBehind
<1> QED BY <1>1, <1>2, <1>3, <1>4, <1>5, <1>6, <1>7, <1>8, <1>9, <1>10, <1>11 DEF Read

(***************************************************************************)
(* What is written below a node is the part of the layout it spans.        *)
(***************************************************************************)
Token(k) == IF Kind(k) = "marker" THEN None ELSE k
Segment(a, b) == [j \in 1 .. b + 1 - a |-> Token(a + j - 1)]

\* A segment has one token per entry
LEMMA SegmentTyped ==
  ASSUME NEW a \in Nat, NEW b \in Nat, a <= b + 1
  PROVE  /\ Segment(a, b) \in Seq(Int) /\ Len(Segment(a, b)) = b + 1 - a
         /\ \A j \in 1 .. b + 1 - a : Segment(a, b)[j] = Token(a + j - 1)
<1>1. PICK n \in Nat : n = b + 1 - a
  OBVIOUS
<1>2. \A k \in Int : Token(k) \in Int
  BY DEF Token, None
<1>3. \A j \in 1 .. n : Token(a + j - 1) \in Int
  BY <1>2
<1>4. [j \in 1 .. n |-> Token(a + j - 1)] \in Seq(Int)
  BY <1>3
<1> QED BY <1>1, <1>4 DEF Segment

\* The segment of one entry
LEMMA SegmentOne == ASSUME NEW a \in Nat PROVE Segment(a, a) = <<Token(a)>>
<1>1. PICK s : s = Segment(a, a)
  OBVIOUS
<1>2. a <= a + 1 /\ a + 1 - a = 1
  OBVIOUS
<1>3. s \in Seq(Int) /\ Len(s) = 1 /\ \A j \in 1 .. 1 : s[j] = Token(a + j - 1)
  BY <1>1, <1>2, SegmentTyped
<1>4. 1 \in 1 .. 1 /\ a + 1 - 1 = a
  OBVIOUS
<1>5. s[1] = Token(a)
  BY <1>3, <1>4
<1>6. s = <<Token(a)>>
  BY <1>3, <1>5
<1> QED BY <1>1, <1>6

\* Two parts of the layout, one behind the other
LEMMA SegmentJoin ==
  ASSUME NEW a \in Nat, NEW b \in Nat, NEW c \in Nat, a <= b + 1, b <= c
  PROVE  Segment(a, b) \o Segment(b + 1, c) = Segment(a, c)
<1>1. PICK s, t, u : s = Segment(a, b) /\ t = Segment(b + 1, c) /\ u = Segment(a, c)
  OBVIOUS
<1>2. /\ s \in Seq(Int) /\ Len(s) = b + 1 - a
      /\ \A j \in 1 .. b + 1 - a : s[j] = Token(a + j - 1)
  BY <1>1, SegmentTyped
<1>3. /\ t \in Seq(Int) /\ Len(t) = c - b
      /\ \A j \in 1 .. c - b : t[j] = Token(b + j)
  <2>1. b + 1 \in Nat /\ b + 1 <= c + 1 /\ c + 1 - (b + 1) = c - b
    OBVIOUS
  <2>2. /\ t \in Seq(Int) /\ Len(t) = c - b
        /\ \A j \in 1 .. c - b : t[j] = Token((b + 1) + j - 1)
    <3>1. PICK d \in Nat : d = b + 1 /\ d <= c + 1 /\ c + 1 - d = c - b
      BY <2>1
    <3>2. /\ Segment(d, c) \in Seq(Int) /\ Len(Segment(d, c)) = c + 1 - d
          /\ \A j \in 1 .. c + 1 - d : Segment(d, c)[j] = Token(d + j - 1)
      BY <3>1, SegmentTyped
    <3> QED BY <3>1, <3>2, <1>1
  <2>3. \A j \in 1 .. c - b : (b + 1) + j - 1 = b + j
    OBVIOUS
  <2> QED BY <2>2, <2>3
<1>4. /\ u \in Seq(Int) /\ Len(u) = c + 1 - a
      /\ \A j \in 1 .. c + 1 - a : u[j] = Token(a + j - 1)
  <2>1. a <= c + 1
    OBVIOUS
  <2> QED BY <1>1, <2>1, SegmentTyped
<1>5. /\ s \o t \in Seq(Int) /\ Len(s \o t) = c + 1 - a
      /\ \A j \in 1 .. c + 1 - a :
           (s \o t)[j] = IF j <= b + 1 - a THEN s[j] ELSE t[j - (b + 1 - a)]
  <2>1. /\ s \o t \in Seq(Int) /\ Len(s \o t) = Len(s) + Len(t)
        /\ \A j \in 1 .. Len(s) + Len(t) :
             (s \o t)[j] = IF j <= Len(s) THEN s[j] ELSE t[j - Len(s)]
    BY <1>2, <1>3, ConcatProperties
  <2>2. Len(s) + Len(t) = c + 1 - a
    BY <1>2, <1>3
  <2> QED BY <1>2, <2>1, <2>2
<1>6. ASSUME NEW j \in 1 .. c + 1 - a PROVE (s \o t)[j] = u[j]
  <2>1. CASE j <= b + 1 - a
    <3>1. j \in 1 .. b + 1 - a
      BY <2>1
    <3> QED BY <2>1, <3>1, <1>2, <1>4, <1>5
  <2>2. CASE ~(j <= b + 1 - a)
    <3>1. PICK k : k = j - (b + 1 - a)
      OBVIOUS
    <3>2. k \in 1 .. c - b /\ b + k = a + j - 1
      BY <2>2, <3>1
    <3>3. (s \o t)[j] = t[k]
      BY <2>2, <3>1, <1>5
    <3> QED BY <3>2, <3>3, <1>3, <1>4
  <2> QED BY <2>1, <2>2
<1>7. s \o t = u
  BY <1>4, <1>5, <1>6, SeqEqual
<1> QED BY <1>1, <1>7

\* FlattenSeq returns the last concatenation
LEMMA Flattened ==
  ASSUME NEW S, NEW s \in Seq(Seq(S))
  PROVE  /\ FlattenSeq(s) \in Seq(S) /\ (s = << >> => FlattenSeq(s) = << >>)
         /\ s # << >> => FlattenSeq(s) = Joined(s)[Len(s)]
<1>1. CASE Len(s) = 0
  <2>1. s = << >>
    BY <1>1
  <2>2. FlattenSeq(s) = << >>
    BY <1>1, <2>1 DEF FlattenSeq
  <2>3. FlattenSeq(s) \in Seq(S)
    BY <2>2
  <2> QED BY <2>1, <2>2, <2>3, Zenon
<1>2. CASE Len(s) # 0
  <2>1. FlattenSeq(s) = Joined(s)[Len(s)]
    BY <1>2 DEF FlattenSeq, Joined
  <2>2. Joined(s) \in [1 .. Len(s) -> Seq(S)]
    BY <1>2, Concatenations
  <2>3. Len(s) \in 1 .. Len(s) /\ s # << >>
    BY <1>2
  <2> QED BY <2>1, <2>2, <2>3
<1> QED BY <1>1, <1>2

\* A node is written as itself, what is below it and its marker
MarkerOf(n) == IF RequiresReduceMarker(Kind(n)) THEN <<None>> ELSE << >>
\* Written satisfies its equation on a tree that was read
LEMMA WrittenEquation ==
  ASSUME NEW lv, TreeRead(lv)
  PROVE  /\ Written \in [Nodes -> Seq(Int)]
         /\ \A n \in Nodes : Written[n] =
              <<n>> \o FlattenSeq([k \in DOMAIN kids[n] |-> Written[kids[n][k]]]) \o MarkerOf(n)
<1> DEFINE S == Seq(Int)
           Kids(f, n) == [k \in DOMAIN kids[n] |-> f[kids[n][k]]]
           Body(f, n) == <<n>> \o FlattenSeq(Kids(f, n)) \o MarkerOf(n)
           G == [n \in Nodes |-> [f \in [Nodes -> S] |-> Body(f, n)]]
<1>1. Written = CHOOSE f : f = [n \in Nodes |-> Body(f, n)]
  BY DEF Written, MarkerOf
<1>2. \A n \in Nodes : \A f \in [Nodes -> S] : Body(f, n) \in S
  <2> TAKE n \in Nodes
  <2> TAKE f \in [Nodes -> S]
  <2>1. kids[n] \in Seq(Nodes)
    <3>1. n \in Positions
      BY DEF Nodes, Positions
    <3> QED BY <3>1 DEF TreeRead, ReaderTypes
  <2>2. Kids(f, n) \in Seq(S)
    <3>1. PICK m \in Nat : DOMAIN kids[n] = 1 .. m
      BY <2>1
    <3>2. \A k \in 1 .. m : f[kids[n][k]] \in S
      BY <2>1, <3>1
    <3> QED BY <3>1, <3>2
  <2>3. FlattenSeq(Kids(f, n)) \in Seq(Int)
    BY <2>2, Flattened
  <2>4. <<n>> \in Seq(Int) /\ MarkerOf(n) \in Seq(Int)
    <3>1. n \in Int /\ None \in Int
      BY TreeFacts DEF None
    <3> QED BY <3>1 DEF MarkerOf
  <2> HIDE DEF Kids
  <2>5. <<n>> \o FlattenSeq(Kids(f, n)) \in Seq(Int)
    BY <2>3, <2>4, ConcatProperties
  <2> QED BY <2>4, <2>5, ConcatProperties
<1>3. G \in [Nodes -> [[Nodes -> S] -> S]]
  <2> HIDE DEF Body, S
  <2> QED BY <1>2
<1>4. OfChildren(S, G)
  <2>1. \A n \in Nodes : \A f, g \in [Nodes -> S] :
          (\A k \in DOMAIN kids[n] : f[kids[n][k]] = g[kids[n][k]]) => Kids(f, n) = Kids(g, n)
    OBVIOUS
  <2>2. \A n \in Nodes : \A f \in [Nodes -> S] : G[n][f] = Body(f, n)
    OBVIOUS
  <2>3. ASSUME NEW n \in Nodes, NEW f \in [Nodes -> S], NEW g \in [Nodes -> S],
               \A k \in DOMAIN kids[n] : f[kids[n][k]] = g[kids[n][k]]
        PROVE  G[n][f] = G[n][g]
    <3>1. Kids(f, n) = Kids(g, n)
      BY <2>1, <2>3
    <3> HIDE DEF Kids
    <3>2. Body(f, n) = Body(g, n)
      BY <3>1
    <3> HIDE DEF G, Body
    <3> QED BY <2>2, <3>2
  <2> HIDE DEF Kids, S, G
  <2> QED BY <2>3 DEF OfChildren
<1>5. PICK f \in [Nodes -> S] : \A n \in Nodes : f[n] = G[n][f]
  <2>1. S # {}
    <3>1. << >> \in Seq(Int)
      OBVIOUS
    <3> QED BY <3>1
  <2>2. Solvable(Nodes, S, G)
    <3> HIDE DEF S, G
    <3> QED BY <1>3, <1>4, <2>1, TreeRecursion, Zenon
  <2> QED BY <2>2 DEF Solvable
<1>6. f = [n \in Nodes |-> Body(f, n)]
  <2> HIDE DEF Body
  <2> QED BY <1>5
<1>7. Written = [n \in Nodes |-> Body(Written, n)]
  <2> HIDE DEF Body
  <2> QED BY <1>1, <1>6
<1>8. \A n \in Nodes : Written[n] = Body(Written, n)
  <2> HIDE DEF Body
  <2> QED BY <1>7
<1>9. DOMAIN Written = Nodes
  <2> HIDE DEF Body
  <2> QED BY <1>7
<1> DEFINE B == {n \in Nodes : Written[n] \in S}
<1>10. B = Nodes
  <2>1. ASSUME NEW n \in Nodes, \A k \in DOMAIN kids[n] : kids[n][k] \in B PROVE n \in B
    <3> DEFINE g == [m \in Nodes |-> IF m \in B THEN Written[m] ELSE << >>]
    <3>1. g \in [Nodes -> S]
      <4>1. << >> \in S
        OBVIOUS
      <4> HIDE DEF S
      <4> QED BY <4>1
    <3>2. Body(g, n) \in S
      <4> HIDE DEF g, Body, S
      <4> QED BY <3>1, <1>2
    <3>3. \A k \in DOMAIN kids[n] : g[kids[n][k]] = Written[kids[n][k]]
      BY <2>1
    <3>4. Kids(g, n) = Kids(Written, n)
      <4> HIDE DEF g
      <4> QED BY <3>3
    <3>5. Written[n] = Body(g, n)
      <4> HIDE DEF Kids, g
      <4> QED BY <3>4, <1>8
    <3> HIDE DEF Body, g
    <3> QED BY <3>2, <3>5
  <2>2. B \in SUBSET Nodes
    OBVIOUS
  <2> HIDE DEF B
  <2> QED BY <2>1, <2>2, BottomUp
<1>11. \A n \in Nodes : Written[n] \in S
  BY <1>10
<1>12. Written \in [Nodes -> S]
  <2> HIDE DEF Body, S, B
  <2> QED BY <1>7, <1>9, <1>11
<1> QED BY <1>8, <1>12

\* A node with a marker ends with it
LEMMA EndMarked ==
  ASSUME NEW lv, TreeRead(lv), NEW en, Spans(en), NEW n \in Nodes, Marked(Kind(n)) = 1
  PROVE  Kind(EndOf(en, n)) = "marker"
<1>1. CASE n = 1
  BY <1>1 DEF TreeRead, Spans
<1>2. CASE n # 1
  <2>1. PICK p \in Nodes : \E k \in DOMAIN kids[p] : n = kids[p][k]
    BY <1>2, TreeFacts
  <2>2. PICK k \in DOMAIN kids[p] : n = kids[p][k]
    BY <2>1
  <2>3. Follows(en, p, k)
    BY DEF Spans
  <2> QED BY <2>2, <2>3 DEF Follows
<1> QED BY <1>1, <1>2

Spanned(en, n) == n <= EndOf(en, n) /\ Written[n] = Segment(n, EndOf(en, n))

\* The children of a node are written one behind the other
LEMMA ChildrenSpanned ==
  ASSUME NEW lv, TreeRead(lv), NEW en, Spans(en), NEW n \in Nodes, kids[n] # << >>,
         \A k \in DOMAIN kids[n] : Spanned(en, kids[n][k])
  PROVE  /\ n < InnerEnd(en, n) /\ InnerEnd(en, n) \in Nat
         /\ FlattenSeq([k \in DOMAIN kids[n] |-> Written[kids[n][k]]])
              = Segment(n + 1, InnerEnd(en, n))
<1>1. n \in Nat \ {0} /\ Nodes \subseteq Nat \ {0} /\ kids[n] \in Seq(Nodes)
  <2>1. n \in Positions
    BY DEF Nodes, Positions
  <2> QED BY <2>1, TreeFacts DEF TreeRead, ReaderTypes
<1>2. PICK m \in Nat \ {0} : m = Len(kids[n]) /\ DOMAIN kids[n] = 1 .. m
  BY <1>1
<1>3. PICK s : s = [k \in DOMAIN kids[n] |-> Written[kids[n][k]]]
  OBVIOUS
<1>4. \A k \in 1 .. m : kids[n][k] \in Nodes
  BY <1>1, <1>2
<1>5. s \in Seq(Seq(Int)) /\ Len(s) = m /\ s # << >> /\ \A k \in 1 .. m : s[k] = Written[kids[n][k]]
  <2>1. \A k \in 1 .. m : Written[kids[n][k]] \in Seq(Int)
    BY <1>4, WrittenEquation
  <2>2. s = [k \in 1 .. m |-> Written[kids[n][k]]]
    BY <1>2, <1>3
  <2>3. s \in Seq(Seq(Int)) /\ Len(s) = m
    BY <2>1, <2>2
  <2>4. \A k \in 1 .. m : s[k] = Written[kids[n][k]]
    BY <2>2
  <2> QED BY <2>3, <2>4
<1>6. PICK f :
        /\ FlattenSeq(s) = f[m] /\ f[1] = s[1]
        /\ \A i \in 2 .. m : f[i] = f[i - 1] \o s[i]
  <2>1. FlattenSeq(s) = Joined(s)[m]
    BY <1>5, Flattened
  <2>2. Len(s) # 0
    BY <1>5
  <2>3. Joined(s)[1] = s[1] /\ \A i \in 2 .. m : Joined(s)[i] = Joined(s)[i - 1] \o s[i]
    BY <1>5, <2>2, Concatenations
  <2> QED BY <2>1, <2>3
<1>7. PICK c, e : c = [k \in 1 .. m |-> kids[n][k]] /\ e = [k \in 1 .. m |-> en[kids[n][k]]]
  OBVIOUS
<1>8. \A k \in 1 .. m : c[k] = kids[n][k] /\ e[k] = en[kids[n][k]] /\ c[k] \in Nat /\ e[k] \in Nat
  <2>1. \A k \in 1 .. m : c[k] = kids[n][k] /\ e[k] = en[kids[n][k]]
    BY <1>7
  <2>2. \A k \in 1 .. m : en[kids[n][k]] \in Nat
    BY <1>4 DEF Spans
  <2> QED BY <2>1, <2>2, <1>1, <1>4
<1>9. \A k \in 1 .. m : Follows(en, n, k)
  BY <1>2 DEF Spans
<1>10. ASSUME NEW k \in 1 .. m PROVE c[k] <= e[k] /\ s[k] = Segment(c[k], e[k])
  <2>1. EndOf(en, kids[n][k]) = e[k]
    BY <1>8, <1>9 DEF Follows
  <2>2. Spanned(en, kids[n][k])
    BY <1>2
  <2> QED BY <2>1, <2>2, <1>5, <1>8 DEF Spanned
<1>11. 1 \in 1 .. m /\ c[1] = n + 1
  <2>1. 1 \in 1 .. m
    OBVIOUS
  <2> QED BY <2>1, <1>8, <1>9 DEF Follows
<1>12. ASSUME NEW k \in 2 .. m PROVE k - 1 \in 1 .. m /\ k \in 1 .. m /\ c[k] = e[k - 1] + 1
  <2>1. k - 1 \in 1 .. m /\ k \in 1 .. m /\ k # 1
    OBVIOUS
  <2> QED BY <2>1, <1>8, <1>9 DEF Follows
<1> DEFINE B == {k \in 1 .. m : n < e[k] /\ f[k] = Segment(n + 1, e[k])}
           rank == [k \in 1 .. m |-> k]
<1>13. ASSUME NEW k \in 1 .. m, \A j \in 1 .. m : rank[j] < rank[k] => j \in B PROVE k \in B
  <2>1. CASE k = 1
    <3>1. n + 1 <= e[1]
      BY <1>10, <1>11
    <3>2. n < e[1]
      BY <3>1, <1>1, <1>8, <1>11
    <3> QED BY <2>1, <3>2, <1>6, <1>10, <1>11
  <2>2. CASE k # 1
    <3>1. k \in 2 .. m
      BY <2>2
    <3>2. k - 1 \in 1 .. m /\ c[k] = e[k - 1] + 1
      BY <3>1, <1>12
    <3>3. k - 1 \in B
      BY <3>2, <1>13
    <3>4. PICK a, b : a = e[k - 1] /\ b = e[k]
      OBVIOUS
    <3>5. a \in Nat /\ b \in Nat /\ n < a /\ f[k - 1] = Segment(n + 1, a)
      BY <3>2, <3>3, <3>4, <1>8
    <3>6. a + 1 <= b /\ s[k] = Segment(a + 1, b)
      BY <3>2, <3>4, <1>10
    <3>7. f[k] = Segment(n + 1, a) \o Segment(a + 1, b)
      BY <3>1, <3>5, <3>6, <1>6
    <3>8. n + 1 \in Nat /\ n + 1 <= a + 1 /\ a <= b /\ n < b
      BY <3>5, <3>6, <1>1
    <3>9. f[k] = Segment(n + 1, b)
      BY <3>5, <3>7, <3>8, SegmentJoin
    <3> QED BY <3>4, <3>8, <3>9
  <2> QED BY <2>1, <2>2
<1>14. rank \in [1 .. m -> Nat] /\ B \in SUBSET (1 .. m)
  <2>1. \A k \in 1 .. m : k \in Nat
    OBVIOUS
  <2>2. rank \in [1 .. m -> Nat]
    BY <2>1
  <2>3. B \in SUBSET (1 .. m)
    OBVIOUS
  <2> QED BY <2>2, <2>3
<1>15. B = 1 .. m
  <2> HIDE DEF B, rank
  <2>1. Inductive(1 .. m, rank, B)
    BY <1>13 DEF Inductive
  <2> QED BY <1>14, <2>1, RankInduction
<1>16. m \in 1 .. m /\ m \in B
  BY <1>15
<1>17. InnerEnd(en, n) = e[m]
  BY <1>2, <1>8, <1>16 DEF InnerEnd
<1>18. n < e[m] /\ f[m] = Segment(n + 1, e[m]) /\ e[m] \in Nat
  BY <1>8, <1>16
<1> QED BY <1>3, <1>6, <1>17, <1>18

\* A node is written as the part of the layout it spans
LEMMA NodesSpanned ==
  ASSUME NEW lv, TreeRead(lv), NEW en, Spans(en)
  PROVE  \A n \in Nodes : Spanned(en, n)
<1> DEFINE B == {n \in Nodes : Spanned(en, n)}
<1>1. ASSUME NEW n \in Nodes, \A k \in DOMAIN kids[n] : kids[n][k] \in B PROVE n \in B
  <2>1. PICK x, t : /\ x = InnerEnd(en, n)
                    /\ t = FlattenSeq([k \in DOMAIN kids[n] |-> Written[kids[n][k]]])
    OBVIOUS
  <2>2. n \in Nat \ {0} /\ Token(n) = n
    BY TreeFacts DEF Token, Nodes, Kind
  <2>3. Written[n] = <<n>> \o t \o MarkerOf(n)
    BY <2>1, WrittenEquation
  <2>4. /\ x \in Nat /\ n <= x /\ t \in Seq(Int)
        /\ <<n>> \o t = Segment(n, x)
    <3>1. Segment(n, n) = <<n>>
      BY <2>2, SegmentOne
    <3>2. CASE kids[n] = << >>
      <4>1. x = n
        BY <2>1, <3>2 DEF InnerEnd
      <4>2. t = << >>
        <5>1. [k \in DOMAIN kids[n] |-> Written[kids[n][k]]] = << >>
          BY <3>2
        <5>2. << >> \in Seq(Seq(Int))
          OBVIOUS
        <5> QED BY <2>1, <5>1, <5>2, Flattened
      <4>3. <<n>> \o << >> = <<n>>
        BY <2>2
      <4> QED BY <2>2, <3>1, <4>1, <4>2, <4>3
    <3>3. CASE kids[n] # << >>
      <4>1. \A k \in DOMAIN kids[n] : Spanned(en, kids[n][k])
        BY <1>1
      <4>2. n < x /\ x \in Nat /\ t = Segment(n + 1, x)
        BY <2>1, <3>3, <4>1, ChildrenSpanned
      <4>3. n <= n + 1 /\ n <= x /\ n + 1 <= x + 1 /\ n + 1 \in Nat
        BY <2>2, <4>2
      <4>4. Segment(n, n) \o Segment(n + 1, x) = Segment(n, x)
        BY <2>2, <4>2, <4>3, SegmentJoin
      <4>5. t \in Seq(Int)
        BY <4>2, <4>3, SegmentTyped
      <4> QED BY <3>1, <4>2, <4>3, <4>4, <4>5
    <3> QED BY <3>2, <3>3
  <2>5. CASE Marked(Kind(n)) = 0
    <3>1. MarkerOf(n) = << >> /\ EndOf(en, n) = x
      BY <2>1, <2>4, <2>5 DEF MarkerOf, EndOf, Marked
    <3>2. Segment(n, x) \in Seq(Int)
      <4>1. n <= x + 1
        BY <2>2, <2>4
      <4> QED BY <2>2, <2>4, <4>1, SegmentTyped
    <3>3. Segment(n, x) \o << >> = Segment(n, x)
      BY <3>2
    <3> QED BY <2>3, <2>4, <3>1, <3>3 DEF Spanned
  <2>6. CASE Marked(Kind(n)) = 1
    <3>1. MarkerOf(n) = <<None>> /\ EndOf(en, n) = x + 1
      BY <2>1, <2>6 DEF MarkerOf, EndOf, Marked
    <3>2. Kind(x + 1) = "marker"
      BY <2>6, <3>1, EndMarked
    <3>3. Segment(x + 1, x + 1) = <<None>>
      <4>1. PICK y \in Nat : y = x + 1
        BY <2>4
      <4>3. Segment(y, y) = <<Token(y)>>
        BY SegmentOne
      <4>4. Token(y) = None
        BY <3>2, <4>1 DEF Token
      <4>5. Segment(y, y) = <<None>>
        BY <4>3, <4>4
      <4> QED BY <4>1, <4>5
    <3>4. n <= x + 1 /\ x <= x + 1 /\ x + 1 \in Nat
      BY <2>2, <2>4
    <3>5. Segment(n, x) \o Segment(x + 1, x + 1) = Segment(n, x + 1)
      BY <2>2, <2>4, <3>4, SegmentJoin
    <3> QED BY <2>3, <2>4, <3>1, <3>3, <3>4, <3>5 DEF Spanned
  <2> QED BY <2>5, <2>6 DEF Marked
<1>2. B \in SUBSET Nodes
  OBVIOUS
<1>3. B = Nodes
  <2> HIDE DEF B
  <2> QED BY <1>1, <1>2, BottomUp
<1> QED BY <1>3

\* Written again, the tree is the layout
LEMMA ReadsBack == ASSUME ReaderInv, SpanInv PROVE ReadsAsWritten
<1> SUFFICES ASSUME status = "read"
             PROVE  Written[1] = [k \in Positions |-> IF layout[k].kind = "marker" THEN None ELSE k]
  BY DEF ReadsAsWritten
<1>1. PICK lv : Running(lv)
  BY DEF ReaderInv, Failures, RunningOk, Running
<1>2. PICK en : Spans(en)
  BY DEF SpanInv, Failures
<1>3. TreeRead(lv)
  BY <1>1 DEF TreeRead, ReaderInv
<1>4. 1 \in Nodes /\ Spanned(en, 1)
  BY <1>2, <1>3, NodesSpanned, TreeFacts
<1>5. EndOf(en, 1) = Len(layout)
  BY <1>1, <1>2 DEF Spans, Running, StackOk
<1>6. Len(layout) \in Nat /\ Positions = 1 .. Len(layout)
  BY <1>3, LayoutFacts DEF TreeRead, ReaderTypes
<1>7. Segment(1, Len(layout)) = [k \in Positions |-> Token(k)]
  <2>1. PICK m \in Nat : m = Len(layout)
    BY <1>6
  <2>2. m + 1 - 1 = m /\ \A k \in 1 .. m : 1 + k - 1 = k
    OBVIOUS
  <2>3. [j \in 1 .. m + 1 - 1 |-> Token(1 + j - 1)] = [k \in 1 .. m |-> Token(k)]
    BY <2>2
  <2> QED BY <2>1, <2>3, <1>6 DEF Segment
<1>8. \A k \in Positions : Token(k) = IF layout[k].kind = "marker" THEN None ELSE k
  BY DEF Token, Kind
<1> QED BY <1>4, <1>5, <1>7, <1>8 DEF Spanned
=============================================================================
