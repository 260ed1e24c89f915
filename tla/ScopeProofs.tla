---------------------------- MODULE ScopeProofs ----------------------------
(***************************************************************************)
(* What names mean to ASTLayoutReader, for every set of names and every    *)
(* well written source: the decls BasicASTBuilder finds through its scopes *)
(* are those that can be seen from where a node is in the tree.            *)
(***************************************************************************)
EXTENDS LayoutProofs

(***************************************************************************)
(* The invariant.  anc[n] are the nodes around n, n included: a function   *)
(* of the tree, as the levels lv are.                                      *)
(***************************************************************************)
\* What the edge from p to its k-th child c says
Linked(lv, anc, p, k, c) == lv[c] = LevelOf(lv, p, k, c) /\ anc[c] = anc[p] \cup {c}

LinksOk(lv, anc) ==
  /\ lv \in [Nodes -> Levels] /\ anc \in [Nodes -> SUBSET Nodes]
  /\ pos > 0 => lv[1] = "Outside" /\ anc[1] = {1}
  /\ \A p \in Nodes : \A k \in DOMAIN kids[p] : Linked(lv, anc, p, k, kids[p][k])
  /\ \A i \in 2 .. Len(stack) :
       Linked(lv, anc, stack[i - 1], Len(kids[stack[i - 1]]) + 1, stack[i])

\* What was consumed behind a node whose method runs is inside of it
OpenOk(anc) ==
  \A i \in DOMAIN stack : \A n \in Nodes : stack[i] <= n /\ n <= pos => stack[i] \in anc[n]

\* A decl of the unit, as crawlCurrentScope finds it
TopDecl(d) == d # 1 /\ IsNamedDecl(d) /\ Depth(layout, d - 1) = 1

\* It is one that the reader finds right below the unit
TopsOk(anc) ==
  \A n \in Nodes : n # 1 /\ n <= pos /\ IsNamedDecl(n) => (TopDecl(n) <=> anc[n] = {1, n})

\* The node whose scope holds a decl: the innermost one that has a scope of its own
Opens(n) == HoldsScope(Kind(n)) /\ Kind(n) # "metaCalculation"
HomeIs(anc, s, d) ==
  IF TopDecl(d) THEN s = 1
  ELSE /\ s \in anc[d] \ {d} /\ Opens(s)
       /\ \A o \in anc[d] \ {d} : Opens(o) => o <= s

\* A decl that can be seen from n, if it was not refused
Visible(anc, e, n) ==
  TopDecl(e) \/ (e < n /\ e \notin anc[n] /\ \E s \in anc[n] : HomeIs(anc, s, e))

\* The decls that were introduced or refused so far
Met(lv) ==
  {d \in Nodes :
     /\ IsNamedDecl(d) /\ pos > 0
     /\ IF TopDecl(d) THEN status = "crawling" => d < crawl
        ELSE /\ Kind(d) \in {"arg", "decl"} /\ d <= pos /\ lv[d] # "InsideMetaDecl"
             /\ Kind(d) = "decl" => \A i \in DOMAIN stack : stack[i] # d}
Refused == {d \in Nodes : <<"declaredAlready", d>> \in errors}
Unknown == {r \in Nodes : <<"unknown", r>> \in errors}

\* What may be declared although the enclosing unit has that name
Welcome(d) ==
  Name(d) \in DOMAIN input.outer =>
    /\ TopDecl(d) /\ Kind(d) \in TopLevelKinds
    /\ Name(d) = input.instantiated /\ input.outer[Name(d)] = "meta"
Conflict(anc, d, e) ==
  /\ Name(d) = Name(e) /\ d # e
  /\ IF TopDecl(d) THEN TopDecl(e) /\ e < d ELSE Visible(anc, e, d)

\* The scopes sc hold the decls T, each in its home, and a name once
OwnersOk ==
  /\ \A i, j \in DOMAIN scopes : i < j => scopes[i].owner < scopes[j].owner
  /\ \A i \in DOMAIN scopes :
       /\ HoldsScope(Kind(scopes[i].owner)) /\ \E k \in DOMAIN stack : stack[k] = scopes[i].owner
       /\ scopes[i].kind = "inplace" <=> Kind(scopes[i].owner) = "metaCalculation"
  /\ \A k \in DOMAIN stack : HoldsScope(Kind(stack[k])) =>
       \E i \in DOMAIN scopes : scopes[i].owner = stack[k]
NamesOk(sc, T, anc) ==
  /\ \A i \in DOMAIN sc : \A name \in DOMAIN sc[i].names :
       LET d == sc[i].names[name] IN d \in T /\ Name(d) = name /\ HomeIs(anc, sc[i].owner, d)
  /\ \A d \in T : \A i \in DOMAIN sc : HomeIs(anc, sc[i].owner, d) =>
       Name(d) \in DOMAIN sc[i].names /\ sc[i].names[Name(d)] = d
  /\ \A i, j \in DOMAIN sc : \A name \in DOMAIN sc[i].names :
       name \in DOMAIN sc[j].names => i = j

\* M were met, R of them refused: those that conflict with one that was not
RefusedOk(M, R, anc) ==
  /\ R \subseteq M
  /\ \A d \in M : d \in R <=> ~Welcome(d) \/ \E e \in M \ R : Conflict(anc, d, e)

\* What a reference means when the decls T were introduced
MeantAs(T, anc, r) == {d \in T : Name(d) = Name(r) /\ Visible(anc, d, r)}
Resolution(dc, U, T, anc, r) ==
  IF MeantAs(T, anc, r) # {} THEN r \in DOMAIN dc /\ MeantAs(T, anc, r) = {dc[r]} /\ r \notin U
  ELSE IF Name(r) \in DOMAIN input.outer THEN r \in DOMAIN dc /\ dc[r] = OuterDecl /\ r \notin U
  ELSE r \notin DOMAIN dc /\ r \in U
RefsOk(dc, U, T, lv, anc, upto) ==
  /\ \A r \in U : r <= upto /\ Kind(r) = "ref"
  /\ \A r \in Nodes : r <= upto /\ Kind(r) = "ref" =>
       IF lv[r] = "InsideMetaDecl" THEN r \notin DOMAIN dc /\ r \notin U
       ELSE Resolution(dc, U, T, anc, r)

Scoped(lv, anc) ==
  /\ LinksOk(lv, anc) /\ OpenOk(anc) /\ TopsOk(anc)
  /\ NamesOk(scopes, Met(lv) \ Refused, anc)
  /\ RefusedOk(Met(lv), Refused, anc)
  /\ RefsOk(decl, Unknown, Met(lv) \ Refused, lv, anc, pos)
ScopeInv == status \notin Failures => OwnersOk /\ \E lv, anc : Scoped(lv, anc)

(***************************************************************************)
(* What is around a node.                                                  *)
(***************************************************************************)
\* Everything is known of the nodes the reader has consumed
Reads(lv, anc) == ReaderTypes /\ Running(lv) /\ LinksOk(lv, anc)

\* The nodes and positions, and the stack
LEMMA ReadFacts ==
  ASSUME NEW lv, ReaderTypes, Running(lv)
  PROVE  /\ Nodes \subseteq Nat \ {0} /\ pos \in Nat /\ Len(stack) \in Nat /\ Len(layout) \in Nat
         /\ DOMAIN stack = 1 .. Len(stack)
         /\ \A i \in 1 .. Len(stack) : stack[i] \in Nodes /\ stack[i] <= pos
         /\ \A i, j \in 1 .. Len(stack) : i < j => stack[i] < stack[j]
         /\ stack # << >> => Top = stack[Len(stack)] /\ Len(stack) >= 1 /\ Top \in Nodes /\ stack[1] = 1
         /\ \A p \in Nodes : kids[p] \in Seq(Nodes)
         /\ \A p \in Nodes : \A k \in DOMAIN kids[p] : kids[p][k] \in Nodes
         /\ stack # << >> => pos > 0
<1>1. /\ Nodes \subseteq Nat \ {0} /\ \A p \in Nodes : p \in Positions
      /\ Positions = 1 .. Len(layout) /\ Len(layout) \in Nat
  BY LayoutFacts DEF ReaderTypes
<1>2. \A p \in Nodes : kids[p] \in Seq(Nodes)
  BY <1>1 DEF ReaderTypes
<1>3. stack \in Seq(Nodes) /\ pos \in Nat
  BY <1>1 DEF ReaderTypes
<1>4. Len(stack) \in Nat /\ DOMAIN stack = 1 .. Len(stack)
      /\ \A i \in 1 .. Len(stack) : stack[i] \in Nodes
  BY <1>3
<1>5. StackOk(lv)
  BY DEF Running
<1>6. /\ \A i \in 1 .. Len(stack) : stack[i] <= pos
      /\ \A i, j \in 1 .. Len(stack) : i < j => stack[i] < stack[j]
      /\ stack # << >> => stack[1] = 1
  BY <1>4, <1>5 DEF StackOk
<1>7. ASSUME stack # << >> PROVE Top = stack[Len(stack)] /\ Len(stack) >= 1 /\ Top \in Nodes /\ pos > 0
  <2>1. Len(stack) \in Nat \ {0} /\ Last(stack) = stack[Len(stack)]
    BY <1>3, <1>7, FrontSeq
  <2>2. Top = stack[Len(stack)] /\ Len(stack) >= 1 /\ 1 \in 1 .. Len(stack)
    BY <2>1 DEF Top
  <2>3. 1 <= pos
    BY <2>2, <1>6, <1>7
  <2> QED BY <2>1, <2>2, <2>3, <1>3, <1>4
<1>8. \A p \in Nodes : \A k \in DOMAIN kids[p] : kids[p][k] \in Nodes
  BY <1>2
<1> QED BY <1>1, <1>2, <1>3, <1>4, <1>6, <1>7, <1>8

\* A node that was consumed is the child of one before it, or one that runs
LEMMA UpEdge ==
  ASSUME NEW lv, ReaderTypes, Running(lv), NEW n \in Nodes, n <= pos, n # 1
  PROVE  \/ \E p \in Nodes : \E k \in DOMAIN kids[p] : kids[p][k] = n /\ p < n /\ Edge(lv, p, k, n)
         \/ \E i \in 2 .. Len(stack) :
              stack[i] = n /\ Edge(lv, stack[i - 1], Len(kids[stack[i - 1]]) + 1, n)
<1>1. TreeOk(lv) /\ StackOk(lv)
  BY DEF Running
<1>2. \/ \E i \in DOMAIN stack : stack[i] = n
      \/ \E p \in Nodes : \E k \in DOMAIN kids[p] : kids[p][k] = n
  BY <1>1 DEF TreeOk
<1>3. CASE \E p \in Nodes : \E k \in DOMAIN kids[p] : kids[p][k] = n
  BY <1>1, <1>3 DEF TreeOk, Edge
<1>4. ASSUME NEW i \in DOMAIN stack, stack[i] = n
      PROVE  i \in 2 .. Len(stack) /\ Edge(lv, stack[i - 1], Len(kids[stack[i - 1]]) + 1, stack[i])
  <2>1. i \in 1 .. Len(stack) /\ stack # << >>
    BY ReadFacts
  <2>2. stack[1] = 1
    BY <2>1, ReadFacts
  <2>3. i # 1
    BY <2>2, <1>4
  <2>4. i \in 2 .. Len(stack)
    BY <2>1, <2>3, ReadFacts
  <2> QED BY <2>4, <1>1 DEF StackOk
<1> QED BY <1>2, <1>3, <1>4

\* The level of a node is the same for all functions that follow the edges
LEMMA LevelsAgree ==
  ASSUME NEW lv, NEW w, NEW anc, ReaderTypes, Running(w), LinksOk(lv, anc)
  PROVE  \A n \in Nodes : n <= pos => lv[n] = w[n]
<1> DEFINE T == {n \in Nodes : n <= pos /\ lv[n] # w[n]}
<1> SUFFICES ASSUME T # {} PROVE FALSE
  OBVIOUS
<1>1. T \in SUBSET Nat
  BY ReadFacts
<1> HIDE DEF T
<1>2. PICK n \in T : \A y \in T : n <= y
  BY <1>1, NatMin
<1>3. n \in Nodes /\ n <= pos /\ lv[n] # w[n] /\ n \in Nat /\ n # 0 /\ pos \in Nat
  BY <1>2, ReadFacts DEF T
<1>4. n # 1
  <2>1. pos > 0
    BY <1>3
  <2> QED BY <2>1, <1>3 DEF LinksOk, Running, LevelsOk
<1>5. ASSUME NEW p \in Nodes, NEW k, p < n, LevelOf(w, p, k, n) = w[n], LevelOf(lv, p, k, n) = lv[n]
      PROVE  FALSE
  <2>1. p \in Nat
    BY ReadFacts
  <2>2. p <= pos /\ ~(n <= p)
    BY <2>1, <1>3, <1>5
  <2>3. p \notin T
    BY <2>2, <1>2
  <2>4. lv[p] = w[p]
    BY <2>2, <2>3 DEF T
  <2>5. LevelOf(w, p, k, n) = LevelOf(lv, p, k, n)
    BY <2>4 DEF LevelOf, LevelBefore
  <2> QED BY <2>5, <1>3, <1>5
<1>6. CASE \E p \in Nodes : \E k \in DOMAIN kids[p] : kids[p][k] = n /\ p < n /\ Edge(w, p, k, n)
  <2>1. PICK p \in Nodes : \E k \in DOMAIN kids[p] : kids[p][k] = n /\ p < n /\ Edge(w, p, k, n)
    BY <1>6
  <2>2. PICK k \in DOMAIN kids[p] : kids[p][k] = n /\ p < n /\ Edge(w, p, k, n)
    BY <2>1
  <2>3. Linked(lv, anc, p, k, n)
    BY <2>2 DEF LinksOk
  <2> QED BY <2>2, <2>3, <1>5 DEF Edge, Linked
<1>7. CASE \E i \in 2 .. Len(stack) :
             stack[i] = n /\ Edge(w, stack[i - 1], Len(kids[stack[i - 1]]) + 1, n)
  <2>1. PICK i \in 2 .. Len(stack) :
             stack[i] = n /\ Edge(w, stack[i - 1], Len(kids[stack[i - 1]]) + 1, n)
    BY <1>7
  <2>2. Linked(lv, anc, stack[i - 1], Len(kids[stack[i - 1]]) + 1, n)
    BY <2>1 DEF LinksOk
  <2>3. stack[i - 1] \in Nodes /\ stack[i - 1] < n
    <3>1. i - 1 \in 1 .. Len(stack) /\ i \in 1 .. Len(stack) /\ i - 1 < i
      BY ReadFacts
    <3> QED BY <3>1, <2>1, ReadFacts
  <2> QED BY <2>1, <2>2, <2>3, <1>5 DEF Edge, Linked
<1> QED BY <1>3, <1>4, <1>6, <1>7, UpEdge

\* So the levels that follow the edges are those of the reader
LEMMA LinksRun ==
  ASSUME NEW lv, NEW w, NEW anc, ReaderTypes, Running(w), LinksOk(lv, anc)
  PROVE  Reads(lv, anc)
<1>1. \A n \in Nodes : n <= pos => lv[n] = w[n]
  BY LevelsAgree
<1>2. \A p, c \in Nodes : \A k : p <= pos /\ c <= pos =>
        /\ LevelBefore(lv, p, k) = LevelBefore(w, p, k)
        /\ Edge(w, p, k, c) => Edge(lv, p, k, c)
  BY <1>1 DEF Edge, LevelOf, LevelBefore
<1>3. /\ StackOk(w) /\ TreeOk(w) /\ LevelsOk(w) /\ MarkersOk
      /\ DOMAIN stack = 1 .. Len(stack) /\ Len(stack) \in Nat /\ pos \in Nat
      /\ \A i \in 1 .. Len(stack) : stack[i] \in Nodes /\ stack[i] <= pos
      /\ \A p \in Nodes : \A k \in DOMAIN kids[p] : kids[p][k] \in Nodes
      /\ stack # << >> => Top \in Nodes /\ Top = stack[Len(stack)] /\ Len(stack) >= 1
  BY ReadFacts DEF Running
<1>4. StackOk(lv)
  <2>1. ASSUME NEW i \in 2 .. Len(stack)
        PROVE  Edge(lv, stack[i - 1], Len(kids[stack[i - 1]]) + 1, stack[i])
    <3>1. i - 1 \in 1 .. Len(stack) /\ i \in 1 .. Len(stack)
      BY <1>3
    <3>2. Edge(w, stack[i - 1], Len(kids[stack[i - 1]]) + 1, stack[i])
      BY <1>3 DEF StackOk
    <3> QED BY <3>1, <3>2, <1>2, <1>3
  <2> QED BY <2>1, <1>3 DEF StackOk
<1>5. TreeOk(lv)
  <2>1. ASSUME NEW p \in Nodes, NEW k \in DOMAIN kids[p]
        PROVE  /\ kids[p][k] <= pos /\ Edge(lv, p, k, kids[p][k]) /\ Complete(kids[p][k])
               /\ \A i \in DOMAIN stack : stack[i] # kids[p][k]
    <3>1. /\ kids[p][k] <= pos /\ Edge(w, p, k, kids[p][k]) /\ Complete(kids[p][k])
          /\ \A i \in DOMAIN stack : stack[i] # kids[p][k]
      BY <1>3 DEF TreeOk
    <3>2. p < kids[p][k] /\ p \in Nat /\ kids[p][k] \in Nat
      BY <3>1, <1>3, ReadFacts DEF Edge
    <3>3. p <= pos
      BY <3>1, <3>2, <1>3
    <3> QED BY <3>1, <3>3, <1>2, <1>3
  <2> QED BY <2>1, <1>3 DEF TreeOk
<1>6. LevelsOk(lv)
  <2>1. NextLevel(lv) = NextLevel(w)
    BY <1>2, <1>3 DEF NextLevel
  <2>2. \A n \in Nodes : n <= pos => LevelFits(lv, n)
    BY <1>1, <1>3 DEF LevelsOk, LevelFits
  <2>3. \A r \in Nodes : r <= pos /\ Kind(r) = "ref" => RefFits(lv, r)
    BY <1>1, <1>3 DEF LevelsOk, RefFits
  <2> QED BY <2>1, <2>2, <2>3, <1>3 DEF LevelsOk, LinksOk
<1> QED BY <1>3, <1>4, <1>5, <1>6 DEF Reads, Running

\* What is around a node is what is around the one it is a child of
LEMMA UpLink ==
  ASSUME NEW lv, NEW anc, Reads(lv, anc), NEW n \in Nodes, n <= pos, n # 1
  PROVE  \E p \in Nodes : \E k : p < n /\ p <= pos /\ ChildFits(p, k, n) /\ Linked(lv, anc, p, k, n)
<1> USE DEF Reads
<1>1. CASE \E p \in Nodes : \E k \in DOMAIN kids[p] : kids[p][k] = n /\ p < n /\ Edge(lv, p, k, n)
  <2>1. PICK p \in Nodes : \E k \in DOMAIN kids[p] : kids[p][k] = n /\ p < n /\ Edge(lv, p, k, n)
    BY <1>1
  <2>2. PICK k \in DOMAIN kids[p] : kids[p][k] = n /\ p < n /\ Edge(lv, p, k, n)
    BY <2>1
  <2>3. Linked(lv, anc, p, k, n)
    BY <2>2 DEF LinksOk
  <2>4. p <= pos
    BY <2>2, ReadFacts
  <2> QED BY <2>2, <2>3, <2>4 DEF Edge
<1>2. CASE \E i \in 2 .. Len(stack) :
             stack[i] = n /\ Edge(lv, stack[i - 1], Len(kids[stack[i - 1]]) + 1, n)
  <2>1. PICK i \in 2 .. Len(stack) :
             stack[i] = n /\ Edge(lv, stack[i - 1], Len(kids[stack[i - 1]]) + 1, n)
    BY <1>2
  <2>2. Linked(lv, anc, stack[i - 1], Len(kids[stack[i - 1]]) + 1, n)
    BY <2>1 DEF LinksOk
  <2>3. stack[i - 1] \in Nodes /\ stack[i - 1] < n /\ stack[i - 1] <= pos
    <3>1. i - 1 \in 1 .. Len(stack) /\ i \in 1 .. Len(stack) /\ i - 1 < i
      BY ReadFacts
    <3> QED BY <3>1, <2>1, ReadFacts
  <2> QED BY <2>1, <2>2, <2>3 DEF Edge
<1> QED BY <1>1, <1>2, UpEdge

\* What is around a node, and where decls of the unit can be
AroundOk(lv, anc, n) ==
  /\ n \in anc[n] /\ 1 \in anc[n] /\ \A a \in anc[n] : a <= n
  /\ \A a \in anc[n] \ {n} : /\ Kind(a) \notin {"arg", "literal"}
                             /\ Kind(a) \in ExprKinds \cup {"decl"} => Kind(n) \in ExprKinds
  /\ Kind(n) = "contribution" => lv[n] = "InsideMetaDecl"
  /\ Kind(n) \in {"function", "meta", "constant"} => anc[n] = {1, n} \/ lv[n] = "InsideMetaDecl"
  /\ n # 1 => \/ /\ anc[n] = {1, n} /\ lv[n] = "Outside"
                 /\ Kind(n) \in {"function", "meta", "constant"}
              \/ Kind(n) = "literal"
              \/ \E a \in anc[n] \ {n} : Kind(a) \in {"function", "meta"}

\* What is around a node says the same of its child
LEMMA AroundChild ==
  ASSUME NEW lv, NEW anc, Reads(lv, anc), NEW n \in Nodes, n <= pos, n # 1, NEW p \in Nodes,
         NEW k, p < n, p <= pos, ChildFits(p, k, n), Linked(lv, anc, p, k, n), AroundOk(lv, anc, p)
  PROVE  AroundOk(lv, anc, n)
<1>1. p \in Nat \ {0} /\ n \in Nat \ {0} /\ pos \in Nat /\ pos > 0 /\ Nodes \subseteq Nat
  <2>1. p \in Nat \ {0} /\ n \in Nat \ {0} /\ pos \in Nat /\ Nodes \subseteq Nat
    BY ReadFacts DEF Reads
  <2> QED BY <2>1
<1>2. /\ anc[n] = anc[p] \cup {n} /\ lv[n] = LevelOf(lv, p, k, n) /\ anc[1] = {1}
      /\ lv[1] = "Outside" /\ anc[p] \subseteq Nodes
  BY <1>1 DEF Linked, LinksOk, Reads
<1>3. n \in anc[n] /\ 1 \in anc[n] /\ \A a \in anc[n] : a <= n
  <2>1. 1 \in anc[p] /\ \A a \in anc[p] : a <= p
    BY DEF AroundOk
  <2>2. \A a \in anc[n] : a = n \/ (a \in Nat /\ a <= p)
    BY <2>1, <1>1, <1>2
  <2> QED BY <2>1, <2>2, <1>1, <1>2
<1>4. n \notin anc[p]
  BY <1>1 DEF AroundOk
<1>5. ASSUME NEW a \in anc[n] \ {n}
      PROVE  /\ Kind(a) \notin {"arg", "literal"}
             /\ Kind(a) \in ExprKinds \cup {"decl"} => Kind(n) \in ExprKinds
  <2>1. CASE a = p
    BY <2>1 DEF ChildFits
  <2>2. CASE a # p
    <3>1. a \in anc[p] \ {p}
      BY <2>2, <1>2
    <3> QED BY <3>1 DEF AroundOk, ChildFits
  <2> QED BY <2>1, <2>2
<1>6. Kind(n) = "contribution" => lv[n] = "InsideMetaDecl"
  <2> HAVE Kind(n) = "contribution"
  <2>1. lv[n] = LevelBefore(lv, p, k)
    BY <1>2 DEF LevelOf
  <2>2. Kind(p) = "contribution" \/ (Kind(p) \in {"meta", "metaIf"} /\ k # 1)
    BY DEF ChildFits
  <2>3. Kind(p) = "metaIf" => lv[p] = "InsideMetaDecl"
    BY DEF Reads, Running, LevelsOk, LevelFits
  <2> QED BY <2>1, <2>2, <2>3 DEF LevelBefore, AroundOk
<1>7. Kind(p) \in UnitKinds => p = 1
  <2>1. p # 1 => p \in 2 .. Len(layout)
    <3>1. p \in 1 .. Len(layout) /\ Len(layout) \in Nat
      BY LayoutFacts DEF Reads, ReaderTypes
    <3> QED BY <3>1
  <2> QED BY <2>1, WellWrittenFacts DEF Reads, ReaderTypes
<1>8. Kind(n) \in {"function", "meta", "constant"} => anc[n] = {1, n} \/ lv[n] = "InsideMetaDecl"
  <2> HAVE Kind(n) \in {"function", "meta", "constant"}
  <2>1. Kind(p) \in UnitKinds \cup {"contribution"}
    BY DEF ChildFits
  <2>2. CASE Kind(p) \in UnitKinds
    BY <2>2, <1>2, <1>7
  <2>3. CASE Kind(p) = "contribution"
    BY <2>3, <1>2 DEF LevelOf, LevelBefore, AroundOk
  <2> QED BY <2>1, <2>2, <2>3
<1>9. \/ /\ anc[n] = {1, n} /\ lv[n] = "Outside" /\ Kind(n) \in {"function", "meta", "constant"}
      \/ Kind(n) = "literal"
      \/ \E a \in anc[n] \ {n} : Kind(a) \in {"function", "meta"}
  <2>1. CASE p = 1
    <3>1. Kind(1) \in UnitKinds
      BY <1>1 DEF Reads, Running, StackOk
    <3>2. Kind(n) \in {"function", "meta", "constant"}
      BY <3>1, <2>1 DEF ChildFits, TopLevelKinds, UnitKinds
    <3>3. lv[n] = "Outside"
      BY <3>1, <3>2, <2>1, <1>2 DEF LevelOf, LevelBefore, UnitKinds
    <3> QED BY <3>2, <3>3, <2>1, <1>2
  <2>2. CASE p # 1 /\ Kind(p) \in {"function", "meta", "constant"}
    <3>1. p \in anc[n] \ {n}
      BY <1>1, <1>2 DEF AroundOk
    <3> QED BY <3>1, <2>2 DEF ChildFits
  <2>3. CASE p # 1 /\ Kind(p) = "literal"
    BY <2>3 DEF ChildFits
  <2>4. CASE p # 1 /\ \E a \in anc[p] \ {p} : Kind(a) \in {"function", "meta"}
    <3>1. PICK a \in anc[p] \ {p} : Kind(a) \in {"function", "meta"}
      BY <2>4
    <3>2. a \in anc[n] \ {n}
      BY <1>2, <1>4
    <3> QED BY <3>1, <3>2
  <2> QED BY <2>1, <2>2, <2>3, <2>4 DEF AroundOk
<1> QED BY <1>3, <1>5, <1>6, <1>8, <1>9 DEF AroundOk

\* Hence it says so of everything that was consumed
LEMMA Around ==
  ASSUME NEW lv, NEW anc, Reads(lv, anc)
  PROVE  \A n \in Nodes : n <= pos => AroundOk(lv, anc, n)
<1> DEFINE T == {n \in Nodes : n <= pos /\ ~AroundOk(lv, anc, n)}
<1> SUFFICES ASSUME T # {} PROVE FALSE
  OBVIOUS
<1>1. T \in SUBSET Nat
  BY ReadFacts DEF Reads
<1> HIDE DEF T
<1>2. PICK n \in T : \A y \in T : n <= y
  BY <1>1, NatMin
<1>3. n \in Nodes /\ n <= pos /\ ~AroundOk(lv, anc, n) /\ n \in Nat /\ n # 0 /\ pos \in Nat
  BY <1>2, ReadFacts DEF T, Reads
<1>4. CASE n = 1
  <2>1. pos > 0 /\ Kind(1) \in UnitKinds
    BY <1>3 DEF Reads, Running, StackOk
  <2>2. anc[1] = {1}
    BY <2>1 DEF Reads, LinksOk
  <2>3. Kind(1) \notin {"contribution", "function", "meta", "constant"}
    BY <2>1 DEF UnitKinds
  <2>4. AroundOk(lv, anc, 1)
    BY <2>2, <2>3 DEF AroundOk
  <2> QED BY <2>4, <1>3, <1>4
<1>5. CASE n # 1
  <2>1. PICK p \in Nodes :
          \E k : p < n /\ p <= pos /\ ChildFits(p, k, n) /\ Linked(lv, anc, p, k, n)
    BY <1>3, <1>5, UpLink
  <2>2. p \in Nat
    BY ReadFacts DEF Reads
  <2>3. p \notin T
    BY <2>1, <2>2, <1>2, <1>3
  <2>4. AroundOk(lv, anc, p)
    BY <2>1, <2>3 DEF T
  <2> QED BY <2>1, <2>4, <1>3, <1>5, AroundChild
<1> QED BY <1>4, <1>5

\* What is around the node of a running method are those of the methods below it
LEMMA StackAround ==
  ASSUME NEW lv, NEW anc, Reads(lv, anc)
  PROVE  \A i \in 1 .. Len(stack) : anc[stack[i]] = {stack[j] : j \in 1 .. i}
<1> DEFINE T == {i \in 1 .. Len(stack) : anc[stack[i]] # {stack[j] : j \in 1 .. i}}
<1> SUFFICES ASSUME T # {} PROVE FALSE
  OBVIOUS
<1>0. Len(stack) \in Nat /\ stack # << >> => stack[1] = 1 /\ pos > 0
  BY ReadFacts DEF Reads
<1>1. T \in SUBSET Nat
  OBVIOUS
<1> HIDE DEF T
<1>2. PICK i \in T : \A y \in T : i <= y
  BY <1>1, NatMin
<1>3. i \in 1 .. Len(stack) /\ anc[stack[i]] # {stack[j] : j \in 1 .. i} /\ Len(stack) \in Nat
  BY <1>2, ReadFacts DEF T, Reads
<1>4. CASE i = 1
  <2>1. stack # << >>
    BY <1>3
  <2>2. stack[1] = 1 /\ anc[1] = {1}
    BY <2>1, ReadFacts DEF Reads, LinksOk
  <2>3. {stack[j] : j \in 1 .. 1} = {stack[1]}
    OBVIOUS
  <2> QED BY <2>2, <2>3, <1>3, <1>4
<1>5. CASE i # 1
  <2>1. i - 1 \in 1 .. Len(stack) /\ i \in 2 .. Len(stack) /\ ~(i <= i - 1)
    BY <1>3, <1>5
  <2>2. i - 1 \notin T
    BY <2>1, <1>2
  <2>3. anc[stack[i - 1]] = {stack[j] : j \in 1 .. i - 1}
    BY <2>1, <2>2 DEF T
  <2>4. anc[stack[i]] = anc[stack[i - 1]] \cup {stack[i]}
    BY <2>1 DEF Reads, LinksOk, Linked
  <2>5. {stack[j] : j \in 1 .. i} = {stack[j] : j \in 1 .. i - 1} \cup {stack[i]}
    BY <2>1
  <2> QED BY <2>3, <2>4, <2>5, <1>3
<1> QED BY <1>4, <1>5
(***************************************************************************)
(* What is around the node of a method that is called.                     *)
(***************************************************************************)
\* The nodes around the node that is shifted
Inside(anc, c) == [anc EXCEPT ![c] = anc[Top] \cup {c}]

\* A node that is consumed by the method of another one
CallAt(lv, anc, c) == CallStep(lv, c) /\ LinksOk(lv, anc) /\ Pushes(c)

\* The links do not change but for the new one
LEMMA CalledLinks ==
  ASSUME NEW lv, NEW anc, NEW c, CallAt(lv, anc, c), NEW w, w = Called(lv, c),
         NEW b, b = Inside(anc, c)
  PROVE  /\ \A n \in Nodes : n <= pos => w[n] = lv[n] /\ b[n] = anc[n]
         /\ Linked(w, b, Top, Len(kids[Top]) + 1, c)
         /\ b[c] = anc[Top] \cup {c} /\ b \in [Nodes -> SUBSET Nodes]
         /\ \A p, q \in Nodes : \A k : p <= pos /\ q <= pos /\ Linked(lv, anc, p, k, q)
              => Linked(w, b, p, k, q)
<1> USE DEF CallAt
<1>1. \A n \in Nodes : n <= pos => w[n] = lv[n]
  BY CalledLevels
<1>2. /\ c \in Nodes /\ Top \in Nodes /\ Top <= pos /\ pos \in Nat /\ c = pos + 1
      /\ anc \in [Nodes -> SUBSET Nodes] /\ Nodes \subseteq Nat
  BY CallFacts DEF CallStep, LinksOk
<1>3. \A n \in Nodes : n <= pos => n # c
  BY <1>2
<1>4. /\ \A n \in Nodes : n # c => b[n] = anc[n]
      /\ b[c] = anc[Top] \cup {c} /\ b \in [Nodes -> SUBSET Nodes]
  BY <1>2 DEF Inside
<1>5. \A p, q \in Nodes : \A k : p <= pos => LevelOf(w, p, k, q) = LevelOf(lv, p, k, q)
  BY <1>1 DEF LevelOf, LevelBefore
<1>6. w[c] = LevelOf(lv, Top, Len(kids[Top]) + 1, c)
  BY CalledLevels
<1>7. Linked(w, b, Top, Len(kids[Top]) + 1, c)
  BY <1>2, <1>3, <1>4, <1>5, <1>6 DEF Linked
<1>8. ASSUME NEW p \in Nodes, NEW q \in Nodes, NEW k, p <= pos, q <= pos, Linked(lv, anc, p, k, q)
      PROVE  Linked(w, b, p, k, q)
  BY <1>1, <1>3, <1>4, <1>5, <1>8 DEF Linked
<1> QED BY <1>1, <1>3, <1>4, <1>7, <1>8

\* What the definitions over the layout say does not depend on the state
LEMMA SameWords ==
  ASSUME input' = input
  PROVE  /\ \A lv, anc, p, k, c : Linked(lv, anc, p, k, c)' <=> Linked(lv, anc, p, k, c)
         /\ \A d : /\ TopDecl(d)' <=> TopDecl(d)
                   /\ Welcome(d)' <=> Welcome(d)
                   /\ IsNamedDecl(d)' <=> IsNamedDecl(d)
         /\ \A anc, s, d : HomeIs(anc, s, d)' <=> HomeIs(anc, s, d)
         /\ \A anc, e, n : /\ Visible(anc, e, n)' <=> Visible(anc, e, n)
                           /\ Conflict(anc, e, n)' <=> Conflict(anc, e, n)
<1>1. layout' = layout /\ Nodes' = Nodes /\ \A n : Kind(n)' = Kind(n) /\ Name(n)' = Name(n)
  BY SameInput
<1>2. \A d : IsNamedDecl(d)' <=> IsNamedDecl(d)
  BY <1>1 DEF IsNamedDecl
<1>3. \A d : TopDecl(d)' <=> TopDecl(d)
  BY <1>1, <1>2 DEF TopDecl, Depth
<1>4. \A d : Welcome(d)' <=> Welcome(d)
  BY <1>1, <1>3 DEF Welcome
<1>5. \A anc, s, d : HomeIs(anc, s, d)' <=> HomeIs(anc, s, d)
  BY <1>1, <1>3 DEF HomeIs, Opens
<1>6. \A anc, e, n : Visible(anc, e, n)' <=> Visible(anc, e, n)
  BY <1>3, <1>5 DEF Visible
<1>7. \A anc, e, n : Conflict(anc, e, n)' <=> Conflict(anc, e, n)
  BY <1>1, <1>3, <1>6 DEF Conflict
<1>8. \A lv, anc, p, k, c : Linked(lv, anc, p, k, c)' <=> Linked(lv, anc, p, k, c)
  BY <1>1 DEF Linked, LevelOf, LevelBefore
<1> QED BY <1>2, <1>3, <1>4, <1>5, <1>6, <1>7, <1>8

\* The links when a method is called
LEMMA PushedLinks ==
  ASSUME NEW lv, NEW anc, NEW c, CallAt(lv, anc, c), NEW w, w = Called(lv, c),
         NEW b, b = Inside(anc, c)
  PROVE  LinksOk(w, b)'
<1>0. /\ \A n \in Nodes : n <= pos => w[n] = lv[n] /\ b[n] = anc[n]
      /\ Linked(w, b, Top, Len(kids[Top]) + 1, c)
      /\ b[c] = anc[Top] \cup {c} /\ b \in [Nodes -> SUBSET Nodes]
      /\ \A p, q \in Nodes : \A k : p <= pos /\ q <= pos /\ Linked(lv, anc, p, k, q)
           => Linked(w, b, p, k, q)
  BY CalledLinks
<1> USE DEF CallAt
<1>1. PICK m \in Nat \ {0} : m = Len(stack)
  BY CallFacts
<1>2. /\ DOMAIN stack' = 1 .. m + 1 /\ Len(stack') = m + 1
      /\ \A i \in 1 .. m : stack'[i] = stack[i] /\ stack[i] \in Nodes /\ stack[i] <= pos
      /\ stack'[m + 1] = c /\ Top = stack[m]
  BY <1>1, PushedStack, CallFacts DEF OneMore
<1>3. /\ pos \in Nat \ {0} /\ pos < c /\ kids' = kids /\ Nodes' = Nodes /\ input' = input
      /\ c = pos + 1 /\ pos' = c /\ 1 <= pos
  BY CallFacts, SameInput DEF Pushes, CallStep
<1>4. w \in [Nodes -> Levels] /\ b \in [Nodes -> SUBSET Nodes]
  BY CalledLevels, <1>0
<1>5. w[1] = "Outside" /\ b[1] = {1}
  <2>1. 1 \in Nodes
    <3>1. stack # << >> /\ stack[1] = 1 /\ 1 \in 1 .. m
      BY <1>1 DEF CallStep, Running, StackOk
    <3> QED BY <3>1, <1>2
  <2>2. lv[1] = "Outside" /\ anc[1] = {1}
    BY <1>3 DEF LinksOk
  <2> QED BY <2>1, <2>2, <1>3, <1>0
<1>6. \A p \in Nodes : \A k \in DOMAIN kids[p] : Linked(w, b, p, k, kids[p][k])
  <2> TAKE p \in Nodes
  <2> TAKE k \in DOMAIN kids[p]
  <2>1. Linked(lv, anc, p, k, kids[p][k])
    BY DEF LinksOk
  <2>2. kids[p][k] <= pos /\ p < kids[p][k] /\ kids[p][k] \in Nodes /\ Nodes \subseteq Nat
    BY ReadFacts DEF CallStep, Running, TreeOk, Edge
  <2>3. p <= pos
    BY <2>2, <1>3
  <2> QED BY <2>1, <2>2, <2>3, <1>0
<1>7. ASSUME NEW i \in 2 .. m + 1
      PROVE  Linked(w, b, stack'[i - 1], Len(kids[stack'[i - 1]]) + 1, stack'[i])
  <2>1. CASE i = m + 1
    <3>1. m \in 1 .. m /\ i - 1 = m
      BY <2>1
    <3>2. stack'[i - 1] = Top /\ stack'[i] = c
      BY <2>1, <3>1, <1>2
    <3> QED BY <3>2, <1>0
  <2>2. CASE i # m + 1
    <3>1. i \in 2 .. m /\ i \in 1 .. m /\ i - 1 \in 1 .. m
      BY <2>2
    <3>2. Linked(lv, anc, stack[i - 1], Len(kids[stack[i - 1]]) + 1, stack[i])
      BY <3>1, <1>1 DEF LinksOk
    <3>3. Linked(w, b, stack[i - 1], Len(kids[stack[i - 1]]) + 1, stack[i])
      BY <3>1, <3>2, <1>2, <1>0
    <3> QED BY <3>1, <3>3, <1>2
  <2> QED BY <2>1, <2>2
<1>8. \A p, k, q : Linked(w, b, p, k, q)' <=> Linked(w, b, p, k, q)
  BY <1>3, SameWords
<1>9. \A p \in Nodes' : \A k \in DOMAIN kids'[p] : Linked(w, b, p, k, kids[p][k])'
  BY <1>3, <1>6, <1>8
<1>10. \A i \in 2 .. Len(stack') :
         Linked(w, b, stack[i - 1], Len(kids[stack[i - 1]]) + 1, stack[i])'
  <2>1. \A i \in 2 .. m + 1 :
          Linked(w, b, stack'[i - 1], Len(kids'[stack'[i - 1]]) + 1, stack'[i])
    BY <1>3, <1>7
  <2> QED BY <2>1, <1>2, <1>8
<1> QED BY <1>3, <1>4, <1>5, <1>9, <1>10 DEF LinksOk

\* What is inside of the nodes that are consumed, when a method is called
LEMMA PushedOpen ==
  ASSUME NEW lv, NEW anc, NEW c, CallAt(lv, anc, c), OpenOk(anc), NEW b, b = Inside(anc, c)
  PROVE  OpenOk(b)'
<1>0. /\ \A n \in Nodes : n <= pos => b[n] = anc[n]
      /\ b[c] = anc[Top] \cup {c}
  <2>1. PICK w : w = Called(lv, c)
    OBVIOUS
  <2> QED BY <2>1, CalledLinks
<1> USE DEF CallAt
<1>1. PICK m \in Nat \ {0} : m = Len(stack)
  BY CallFacts
<1>2. /\ DOMAIN stack = 1 .. m /\ DOMAIN stack' = 1 .. m + 1
      /\ \A i \in 1 .. m : stack'[i] = stack[i] /\ stack[i] \in Nodes /\ stack[i] <= pos
      /\ stack'[m + 1] = c /\ Top = stack[m]
  BY <1>1, PushedStack, CallFacts DEF OneMore
<1>3. /\ pos \in Nat \ {0} /\ pos < c /\ Nodes' = Nodes /\ c = pos + 1 /\ pos' = c /\ Nodes \subseteq Nat
  BY CallFacts, SameInput DEF Pushes, CallStep
<1>5. b[c] = {stack[j] : j \in 1 .. m} \cup {c}
  <2>1. anc[stack[m]] = {stack[j] : j \in 1 .. m}
    <3>1. Reads(lv, anc)
      BY DEF Reads, CallStep
    <3>2. m \in 1 .. Len(stack)
      BY <1>1
    <3>3. anc[stack[m]] = {stack[j] : j \in 1 .. m}
      BY <3>1, <3>2, StackAround
    <3> QED BY <3>3
  <2> QED BY <2>1, <1>2, <1>0
<1>6. ASSUME NEW i \in 1 .. m + 1, NEW n \in Nodes, stack'[i] <= n, n <= c PROVE stack'[i] \in b[n]
  <2>1. CASE n = c
    <3>1. i = m + 1 \/ i \in 1 .. m
      OBVIOUS
    <3> QED BY <3>1, <2>1, <1>2, <1>5
  <2>2. CASE n # c
    <3>1. n <= pos /\ n < c
      BY <2>2, <1>3, <1>6
    <3>2. i \in 1 .. m
      BY <3>1, <1>2, <1>3, <1>6
    <3> QED BY <3>1, <3>2, <1>2, <1>0, <1>6 DEF OpenOk
  <2> QED BY <2>1, <2>2
<1> QED BY <1>2, <1>3, <1>6 DEF OpenOk
\* Behind the entry of a function or a list of arguments more than the unit is open
LEMMA OneOpen ==
  ASSUME NEW lv, ReaderTypes, Running(lv), stack # << >>, Depth(layout, pos) = 1
  PROVE  \A j \in 2 .. Len(stack) : ~RequiresReduceMarker(Kind(stack[j]))
<1>1. PICK m \in Nat : m = Len(stack) /\ stack[1] = 1 /\ Kind(1) \in UnitKinds
  BY ReadFacts DEF Running, StackOk
<1>2. Unreduced(m) = 1
  BY <1>1 DEF Running, MarkersOk
<1> DEFINE S == {j \in Nat : RequiresReduceMarker(Kind(stack[j]))}
<1>3. \A i \in Nat : Unreduced(i) = Count(S, i)
  <2> TAKE i \in Nat
  <2>1. {j \in 1 .. i : RequiresReduceMarker(Kind(stack[j]))} = {j \in 1 .. i : j \in S}
    OBVIOUS
  <2> QED BY <2>1 DEF Unreduced, Count
<1>4. 1 \in S
  BY <1>1 DEF RequiresReduceMarker, UnitKinds
<1>5. \A j \in Nat : j \in S <=> RequiresReduceMarker(Kind(stack[j]))
  OBVIOUS
<1> HIDE DEF S
<1>6. ASSUME NEW j \in 2 .. m, j \in S PROVE FALSE
  <2>1. j - 1 \in Nat /\ 1 <= j - 1 /\ j \in Nat /\ j <= m /\ j - 1 + 1 = j
    OBVIOUS
  <2>2. Count(S, j - 1) \in Nat /\ 0 < Count(S, 1) /\ Count(S, 1) <= Count(S, j - 1)
        /\ Count(S, 1) \in Nat
    <3>1. 1 \in Nat /\ 0 < 1
      OBVIOUS
    <3>2. Count(S, 1) <= Count(S, j - 1) /\ 0 < Count(S, 1)
      BY <3>1, <2>1, <1>4, CountOrder
    <3>3. Count(S, 1) \in Nat /\ Count(S, j - 1) \in Nat
      BY <3>1, <2>1, CountStep
    <3> QED BY <3>2, <3>3
  <2>3. Count(S, j - 1 + 1) = Count(S, j - 1) + 1
    BY <2>1, <1>6, CountStep
  <2>4. Count(S, j) <= Count(S, m) /\ Count(S, m) \in Nat
    BY <2>1, CountOrder, CountStep
  <2> QED BY <2>1, <2>2, <2>3, <2>4, <1>2, <1>3
<1> QED BY <1>1, <1>5, <1>6

\* A named decl that is shifted is one of the unit if only the unit is open
LEMMA TopShifted ==
  ASSUME NEW lv, NEW anc, NEW c, CallAt(lv, anc, c), IsNamedDecl(c)
  PROVE  TopDecl(c) <=> Len(stack) = 1
<1>1. PICK m \in Nat \ {0} : m = Len(stack)
  BY CallFacts DEF CallAt
<1>2. /\ ReaderTypes /\ Running(lv) /\ stack # << >> /\ c = pos + 1 /\ pos > 0 /\ pos \in Nat
      /\ ChildFits(Top, Len(kids[Top]) + 1, c) /\ Reads(lv, anc)
      /\ Top \in Nodes /\ Top <= pos /\ Top = stack[m] /\ stack[1] = 1
      /\ \A i \in 1 .. m : stack[i] \in Nodes /\ stack[i] <= pos
      /\ Kind(1) \in UnitKinds /\ Kind(c) \in NamedKinds
  <2>1. ReaderTypes /\ Running(lv) /\ stack # << >> /\ c = pos + 1
        /\ ChildFits(Top, Len(kids[Top]) + 1, c) /\ LinksOk(lv, anc)
    BY DEF CallAt, CallStep
  <2>2. pos > 0 /\ pos \in Nat /\ Kind(1) \in UnitKinds
    BY <2>1, ReadFacts DEF Running, StackOk
  <2> QED BY <1>1, <2>1, <2>2, ReadFacts DEF Reads, IsNamedDecl
<1>3. TopDecl(c) <=> Depth(layout, pos) = 1
  <2>1. c - 1 = pos /\ c # 1
    BY <1>2
  <2> QED BY <2>1 DEF TopDecl
<1>4. CASE m = 1
  <2>1. Unreduced(1) = 1
    <3>1. RequiresReduceMarker(Kind(stack[1]))
      BY <1>2 DEF RequiresReduceMarker, UnitKinds
    <3>2. {j \in 1 .. 1 : RequiresReduceMarker(Kind(stack[j]))} = {1}
      BY <3>1
    <3> QED BY <3>2, FS_Singleton DEF Unreduced
  <2>2. Depth(layout, pos) = Unreduced(m)
    BY <1>1, <1>2 DEF Running, MarkersOk
  <2> QED BY <2>1, <2>2, <1>1, <1>3, <1>4
<1>5. ASSUME m # 1, Depth(layout, pos) = 1 PROVE FALSE
  <2>1. \A j \in 2 .. m : ~RequiresReduceMarker(Kind(stack[j]))
    BY <1>1, <1>2, <1>5, OneOpen
  <2>2. m \in 2 .. m /\ m \in 1 .. m /\ 1 \in 1 .. m /\ 1 < m
    BY <1>5
  <2>3. Top # 1
    <3>1. stack[1] < stack[m]
      BY <1>1, <1>2, <2>2, ReadFacts
    <3> QED BY <3>1, <1>2
  <2>4. AroundOk(lv, anc, Top)
    BY <1>2, Around
  <2>5. Kind(Top) \notin {"function", "meta", "constant", "literal"}
    <3>1. Kind(Top) # "function"
      BY <1>2, <2>1, <2>2 DEF RequiresReduceMarker
    <3> QED BY <3>1, <1>2 DEF ChildFits, NamedKinds
  <2>6. PICK a \in anc[Top] \ {Top} : Kind(a) \in {"function", "meta"}
    BY <2>3, <2>4, <2>5 DEF AroundOk
  <2>7. anc[stack[m]] = {stack[j] : j \in 1 .. m}
    <3>1. m \in 1 .. Len(stack)
      BY <1>1
    <3> QED BY <3>1, <1>2, StackAround
  <2>8. PICK j \in 1 .. m : a = stack[j]
    BY <2>6, <2>7, <1>2
  <2>9. j # m /\ j # 1
    BY <2>6, <2>8, <1>2 DEF UnitKinds
  <2>10. j \in 2 .. m /\ j + 1 \in 2 .. m /\ j + 1 - 1 = j
    BY <2>9
  <2>11. Kind(a) = "meta"
    BY <2>1, <2>6, <2>8, <2>10 DEF RequiresReduceMarker
  <2>12. ChildFits(stack[j], Len(kids[stack[j]]) + 1, stack[j + 1])
    <3>1. \A i \in 2 .. Len(stack) : Edge(lv, stack[i - 1], Len(kids[stack[i - 1]]) + 1, stack[i])
      BY <1>2 DEF Running, StackOk
    <3>2. Edge(lv, stack[j + 1 - 1], Len(kids[stack[j + 1 - 1]]) + 1, stack[j + 1])
      BY <3>1, <1>1, <2>10
    <3> QED BY <3>2, <2>10 DEF Edge
  <2>13. RequiresReduceMarker(Kind(stack[j + 1]))
    BY <2>8, <2>11, <2>12 DEF ChildFits, RequiresReduceMarker
  <2> QED BY <2>1, <2>10, <2>13
<1> QED BY <1>1, <1>3, <1>4, <1>5

\* The decls of the unit are those right below it, when a method is called
LEMMA PushedTops ==
  ASSUME NEW lv, NEW anc, NEW c, CallAt(lv, anc, c), TopsOk(anc), NEW b, b = Inside(anc, c)
  PROVE  TopsOk(b)' /\ (IsNamedDecl(c) => (TopDecl(c) <=> b[c] = {1, c}))
<1>0. /\ \A n \in Nodes : n <= pos => b[n] = anc[n]
      /\ b[c] = anc[Top] \cup {c}
  <2>1. PICK w : w = Called(lv, c)
    OBVIOUS
  <2> QED BY <2>1, CalledLinks
<1>1. PICK m \in Nat \ {0} : m = Len(stack)
  BY CallFacts DEF CallAt
<1>2. /\ Nodes' = Nodes /\ c = pos + 1 /\ pos' = c /\ pos \in Nat /\ Nodes \subseteq Nat
      /\ Top = stack[m] /\ stack[1] = 1 /\ Reads(lv, anc) /\ input' = input
      /\ ReaderTypes /\ Running(lv) /\ \A i \in 1 .. m : stack[i] <= pos /\ stack[i] \in Nat
  <2>1. ReaderTypes /\ Running(lv) /\ stack # << >> /\ c = pos + 1 /\ input' = input /\ pos' = c
        /\ LinksOk(lv, anc)
    BY DEF CallAt, CallStep, Pushes
  <2> QED BY <1>1, <2>1, ReadFacts, SameInput DEF Reads
<1>3. IsNamedDecl(c) => (TopDecl(c) <=> b[c] = {1, c})
  <2> HAVE IsNamedDecl(c)
  <2>1. anc[stack[m]] = {stack[j] : j \in 1 .. m}
    <3>1. m \in 1 .. Len(stack)
      BY <1>1
    <3> QED BY <3>1, <1>2, StackAround
  <2>2. CASE m = 1
    <3>1. {stack[j] : j \in 1 .. 1} = {1}
      BY <1>2
    <3>2. b[c] = {1, c}
      BY <3>1, <2>1, <2>2, <1>0, <1>2
    <3> QED BY <3>2, <2>2, <1>1, TopShifted
  <2>3. CASE m # 1
    <3>1. m \in 1 .. m /\ 1 \in 1 .. m /\ 1 < m
      BY <2>3
    <3>2. stack[1] < stack[m]
      BY <3>1, <1>1, <1>2, ReadFacts
    <3>3. stack[m] \in b[c] /\ stack[m] # 1 /\ stack[m] # c
      BY <3>1, <3>2, <2>1, <1>0, <1>2
    <3>4. b[c] # {1, c}
      BY <3>3
    <3> QED BY <3>4, <2>3, <1>1, TopShifted
  <2> QED BY <2>2, <2>3
<1>4. ASSUME NEW n \in Nodes, n # 1, n <= c, IsNamedDecl(n) PROVE TopDecl(n) <=> b[n] = {1, n}
  <2>1. CASE n = c
    BY <2>1, <1>3, <1>4
  <2>2. CASE n # c
    <3>1. n <= pos
      BY <2>2, <1>2, <1>4
    <3> QED BY <3>1, <1>0, <1>4 DEF TopsOk
  <2> QED BY <2>1, <2>2
<1>5. \A d : (TopDecl(d)' <=> TopDecl(d)) /\ (IsNamedDecl(d)' <=> IsNamedDecl(d))
  BY <1>2, SameWords
<1>6. TopsOk(b)'
  BY <1>2, <1>4, <1>5 DEF TopsOk
<1> QED BY <1>3, <1>6
(***************************************************************************)
(* What is around nodes when a method returns: nothing changes.            *)
(***************************************************************************)
LEMMA PoppedLinks ==
  ASSUME NEW lv, NEW anc, Returns(lv), LinksOk(lv, anc) PROVE LinksOk(lv, anc)'
<1>1. PICK m : m = Len(stack) - 1
  OBVIOUS
<1>2. /\ m \in Nat /\ DOMAIN stack = 1 .. m + 1 /\ Len(stack) = m + 1
      /\ Len(stack') = m /\ DOMAIN stack' = 1 .. m /\ Top = stack[m + 1]
      /\ \A i \in 1 .. m : stack'[i] = stack[i] /\ stack[i] \in Nodes /\ stack[i] < Top
  BY <1>1, PoppedStack
<1>3. /\ Top \in Nodes /\ pos \in Nat /\ pos > 0 /\ Nodes \subseteq Nat
      /\ \A p \in Nodes : kids[p] \in Seq(Nodes)
  <2>1. /\ Top \in Nodes /\ Top \in Nat \ {0} /\ Top <= pos /\ pos \in Nat
        /\ Nodes \subseteq Nat \ {0} /\ \A p \in Nodes : kids[p] \in Seq(Nodes)
    BY ReturnFacts
  <2> QED BY <2>1
<1>4. input' = input /\ Nodes' = Nodes
  <2>1. input' = input
    BY DEF Returns, Finish
  <2> QED BY <2>1, SameInput
<1>5. \A p, k, q : Linked(lv, anc, p, k, q)' <=> Linked(lv, anc, p, k, q)
  BY <1>4, SameWords
<1>6. \A i, j \in 1 .. m + 1 : i < j => stack[i] < stack[j]
  BY <1>2, ReadFacts DEF Returns
<1>7. \A p \in Nodes : \A k \in DOMAIN kids'[p] : Linked(lv, anc, p, k, kids'[p][k])
  <2>1. CASE m = 0
    <3>1. kids' = kids
      BY <2>1, <1>1, GivenChild
    <3> QED BY <3>1 DEF LinksOk
  <2>2. CASE m # 0
    <3>1. /\ Caller \in Nodes /\ Caller = stack[m]
          /\ \A n \in Nodes : n # Caller => kids'[n] = kids[n]
          /\ Len(kids[Caller]) \in Nat
          /\ kids'[Caller][Len(kids[Caller]) + 1] = Top
          /\ \A k \in 1 .. Len(kids[Caller]) : kids'[Caller][k] = kids[Caller][k]
          /\ DOMAIN kids[Caller] = 1 .. Len(kids[Caller])
          /\ DOMAIN kids'[Caller] = 1 .. Len(kids[Caller]) + 1
      BY <2>2, <1>1, GivenChild
    <3>2. ASSUME NEW k \in 1 .. Len(kids[Caller]) + 1
          PROVE  Linked(lv, anc, Caller, k, kids'[Caller][k])
      <4>1. CASE k = Len(kids[Caller]) + 1
        <5>1. m + 1 \in 2 .. Len(stack) /\ m + 1 - 1 = m
          BY <2>2, <1>2
        <5>2. Linked(lv, anc, stack[m], Len(kids[stack[m]]) + 1, stack[m + 1])
          <6>1. PICK i \in 2 .. Len(stack) : i = m + 1 /\ i - 1 = m
            BY <5>1, <1>2
          <6>2. Linked(lv, anc, stack[i - 1], Len(kids[stack[i - 1]]) + 1, stack[i])
            BY DEF LinksOk
          <6> QED BY <6>1, <6>2
        <5> QED BY <5>2, <4>1, <3>1, <1>2
      <4>2. CASE k # Len(kids[Caller]) + 1
        <5>1. k \in 1 .. Len(kids[Caller]) /\ k \in DOMAIN kids[Caller]
          BY <4>2, <3>1
        <5> QED BY <5>1, <3>1 DEF LinksOk
      <4> QED BY <4>1, <4>2
    <3>3. ASSUME NEW p \in Nodes, NEW k \in DOMAIN kids'[p]
          PROVE  Linked(lv, anc, p, k, kids'[p][k])
      <4>1. CASE p = Caller
        BY <4>1, <3>1, <3>2, <3>3
      <4>2. CASE p # Caller
        BY <4>2, <3>1, <3>3 DEF LinksOk
      <4> QED BY <4>1, <4>2
    <3> QED BY <3>3
  <2> QED BY <2>1, <2>2
<1>8. \A i \in 2 .. m : Linked(lv, anc, stack'[i - 1], Len(kids'[stack'[i - 1]]) + 1, stack'[i])
  <2> TAKE i \in 2 .. m
  <2>1. /\ m # 0 /\ i \in 1 .. m /\ i - 1 \in 1 .. m /\ i - 1 \in 1 .. m + 1 /\ m \in 1 .. m + 1
        /\ i - 1 < m /\ i \in 2 .. Len(stack)
    BY <1>2
  <2>2. Caller = stack[m] /\ \A n \in Nodes : n # Caller => kids'[n] = kids[n]
    BY <2>1, <1>1, GivenChild
  <2>3. stack[i - 1] < stack[m] /\ stack[i - 1] \in Nodes /\ stack[i - 1] \in Nat
    BY <2>1, <1>2, <1>3, <1>6
  <2>4. stack[i - 1] # Caller
    BY <2>2, <2>3
  <2>5. kids'[stack[i - 1]] = kids[stack[i - 1]]
    BY <2>2, <2>3, <2>4
  <2>6. Linked(lv, anc, stack[i - 1], Len(kids[stack[i - 1]]) + 1, stack[i])
    BY <2>1 DEF LinksOk
  <2> QED BY <2>1, <2>5, <2>6, <1>2
<1>9. \A p \in Nodes' : \A k \in DOMAIN kids'[p] : Linked(lv, anc, p, k, kids[p][k])'
  BY <1>4, <1>5, <1>7
<1>10. \A i \in 2 .. Len(stack') :
         Linked(lv, anc, stack[i - 1], Len(kids[stack[i - 1]]) + 1, stack[i])'
  BY <1>2, <1>5, <1>8
<1>11. lv[1] = "Outside" /\ anc[1] = {1}
  BY <1>3 DEF LinksOk
<1> QED BY <1>4, <1>9, <1>10, <1>11 DEF LinksOk

\* A method that returns leaves every other method open
LEMMA PoppedOpen ==
  ASSUME NEW lv, NEW anc, Returns(lv), OpenOk(anc), TopsOk(anc)
  PROVE  OpenOk(anc)' /\ TopsOk(anc)'
<1>1. PICK m : m = Len(stack) - 1
  OBVIOUS
<1>2. /\ DOMAIN stack' = 1 .. m /\ DOMAIN stack = 1 .. m + 1
      /\ \A i \in 1 .. m : stack'[i] = stack[i] /\ i \in 1 .. m + 1
  BY <1>1, PoppedStack
<1>3. \A n \in Nodes : n <= pos' => n <= pos
  BY ReturnFacts
<1>4. input' = input /\ Nodes' = Nodes
  <2>1. input' = input
    BY DEF Returns, Finish
  <2> QED BY <2>1, SameInput
<1>5. \A d : (TopDecl(d)' <=> TopDecl(d)) /\ (IsNamedDecl(d)' <=> IsNamedDecl(d))
  BY <1>4, SameWords
<1>6. OpenOk(anc)'
  BY <1>2, <1>3, <1>4 DEF OpenOk
<1>7. TopsOk(anc)'
  BY <1>3, <1>4, <1>5 DEF TopsOk
<1> QED BY <1>6, <1>7
(***************************************************************************)
(* What was found out stays true as more is read.                          *)
(***************************************************************************)
\* b says the same as anc of what was consumed
Agrees(b, anc) == \A n \in Nodes : n <= pos => b[n] = anc[n]

\* What was consumed is seen from where it was seen before
LEMMA Frozen ==
  ASSUME NEW anc, NEW b, Agrees(b, anc), pos \in Nat, Nodes \subseteq Nat
  PROVE  /\ \A d \in Nodes : \A s : d <= pos \/ TopDecl(d) => (HomeIs(b, s, d) <=> HomeIs(anc, s, d))
         /\ \A e, n \in Nodes : n <= pos => (Visible(b, e, n) <=> Visible(anc, e, n))
         /\ \A d, e \in Nodes : d <= pos \/ TopDecl(d) => (Conflict(b, d, e) <=> Conflict(anc, d, e))
<1>1. \A d \in Nodes : \A s : d <= pos \/ TopDecl(d) => (HomeIs(b, s, d) <=> HomeIs(anc, s, d))
  BY DEF HomeIs, Agrees
<1>2. ASSUME NEW e \in Nodes, NEW n \in Nodes, n <= pos
      PROVE  Visible(b, e, n) <=> Visible(anc, e, n)
  <2>0. b[n] = anc[n]
    BY <1>2 DEF Agrees
  <2>1. e < n => e <= pos
    <3>1. e \in Nat /\ n \in Nat /\ pos \in Nat /\ n <= pos
      BY <1>2
    <3> HIDE <1>1
    <3> QED BY <3>1
  <2>2. e < n => \A s : HomeIs(b, s, e) <=> HomeIs(anc, s, e)
    BY <1>1, <2>1
  <2> QED BY <2>0, <2>2, Zenon DEF Visible
<1>3. \A d, e \in Nodes : d <= pos \/ TopDecl(d) => (Conflict(b, d, e) <=> Conflict(anc, d, e))
  BY <1>2, Zenon DEF Conflict
<1> QED BY <1>1, <1>2, <1>3

\* One more decl was met, which those that were met before do not conflict with
LEMMA RefusedMore ==
  ASSUME NEW M, NEW R, NEW anc, NEW b, NEW x, NEW Q, RefusedOk(M, R, anc), x \notin M,
         \A d, e \in M : Conflict(b, d, e) <=> Conflict(anc, d, e),
         \A d \in M : ~Conflict(b, d, x),
         Q \subseteq M \cup {x}, \A d \in M : d \in Q <=> d \in R,
         x \in Q <=> ~Welcome(x) \/ \E e \in M \ R : Conflict(b, x, e)
  PROVE  RefusedOk(M \cup {x}, Q, b)
<1>1. ~Conflict(b, x, x)
  BY DEF Conflict
<1>2. ASSUME NEW d \in M PROVE d \in Q <=> ~Welcome(d) \/ \E e \in (M \cup {x}) \ Q : Conflict(b, d, e)
  <2>1. (\E e \in (M \cup {x}) \ Q : Conflict(b, d, e)) <=> \E e \in M \ R : Conflict(anc, d, e)
    OBVIOUS
  <2> QED BY <2>1 DEF RefusedOk
<1>3. x \in Q <=> ~Welcome(x) \/ \E e \in (M \cup {x}) \ Q : Conflict(b, x, e)
  BY <1>1
<1> QED BY <1>2, <1>3 DEF RefusedOk

\* The names that are refused depend on their conflicts alone
LEMMA RefusedSame ==
  ASSUME NEW M, NEW R, NEW anc, NEW b, RefusedOk(M, R, anc),
         \A d, e \in M : Conflict(b, d, e) <=> Conflict(anc, d, e)
  PROVE  RefusedOk(M, R, b)
BY DEF RefusedOk

\* The references up to a node mean what they meant, and those behind it are resolved
Kept(dc, U, T, lv, anc, ec, W, V, w, b, upto) ==
  /\ U \subseteq Nodes
  /\ \A r \in Nodes : r <= upto =>
       /\ w[r] = lv[r]
       /\ \A d : d \in V /\ Visible(b, d, r) <=> d \in T /\ Visible(anc, d, r)
       /\ (r \in DOMAIN ec <=> r \in DOMAIN dc) /\ (r \in W <=> r \in U)
       /\ r \in DOMAIN dc => ec[r] = dc[r]
NewlyResolved(ec, W, V, w, b, upto, more) ==
  \A r \in Nodes : r > upto /\ r <= more /\ Kind(r) = "ref" =>
    IF w[r] = "InsideMetaDecl" THEN r \notin DOMAIN ec /\ r \notin W
    ELSE Resolution(ec, W, V, b, r)

\* References that were resolved stay resolved as the tree says, and new ones join them
LEMMA RefsStay ==
  ASSUME NEW dc, NEW U, NEW T, NEW V, NEW lv, NEW w, NEW anc, NEW b, NEW upto \in Nat,
         NEW more \in Nat, NEW ec, NEW W,
         RefsOk(dc, U, T, lv, anc, upto), upto <= more, Nodes \subseteq Nat,
         Kept(dc, U, T, lv, anc, ec, W, V, w, b, upto),
         \A r \in W : r \in U \/ (r \in Nodes /\ r <= more /\ Kind(r) = "ref"),
         NewlyResolved(ec, W, V, w, b, upto, more)
  PROVE  RefsOk(ec, W, V, w, b, more)
<1> USE DEF Kept, NewlyResolved
<1>1. ASSUME NEW r \in W PROVE r <= more /\ Kind(r) = "ref"
  <2>1. CASE r \in U
    <3>1. r \in Nat /\ r <= upto /\ Kind(r) = "ref"
      BY <2>1 DEF RefsOk
    <3> QED BY <3>1
  <2>2. CASE r \notin U
    BY <2>2
  <2> QED BY <2>1, <2>2
<1>2. ASSUME NEW r \in Nodes, r <= more, Kind(r) = "ref"
      PROVE  IF w[r] = "InsideMetaDecl" THEN r \notin DOMAIN ec /\ r \notin W
             ELSE Resolution(ec, W, V, b, r)
  <2>1. CASE r > upto
    BY <2>1, <1>2
  <2>2. CASE ~(r > upto)
    <3>1. r <= upto
      BY <2>2
    <3>2. IF lv[r] = "InsideMetaDecl" THEN r \notin DOMAIN dc /\ r \notin U
          ELSE Resolution(dc, U, T, anc, r)
      BY <3>1, <1>2 DEF RefsOk
    <3>3. MeantAs(V, b, r) = MeantAs(T, anc, r)
      BY <3>1 DEF MeantAs
    <3>4. /\ r \in DOMAIN ec <=> r \in DOMAIN dc
          /\ r \in W <=> r \in U
          /\ r \in DOMAIN dc => ec[r] = dc[r]
          /\ w[r] = lv[r]
      BY <3>1
    <3> QED BY <3>2, <3>3, <3>4, Zenon DEF Resolution
  <2> QED BY <2>1, <2>2
<1> QED BY <1>1, <1>2 DEF RefsOk

(***************************************************************************)
(* The scopes.                                                             *)
(***************************************************************************)
\* What is found is the decl of the scope that holds the name
LEMMA LookupFinds ==
  ASSUME NEW sc \in Seq(ScopeType), NEW name
  PROVE  /\ (\E i \in DOMAIN sc : name \in DOMAIN sc[i].names) =>
              \E i \in DOMAIN sc : /\ name \in DOMAIN sc[i].names
                                   /\ Lookup(sc, name) = sc[i].names[name]
         /\ (\A i \in DOMAIN sc : name \notin DOMAIN sc[i].names) =>
              Lookup(sc, name) = IF name \in DOMAIN input.outer THEN OuterDecl ELSE None
<1> DEFINE holding == {i \in DOMAIN sc : name \in DOMAIN sc[i].names}
<1>1. PICK m \in Nat : m = Len(sc) /\ DOMAIN sc = 1 .. m
  OBVIOUS
<1>2. ASSUME holding # {}
      PROVE  \E i \in DOMAIN sc : /\ name \in DOMAIN sc[i].names
                                  /\ Lookup(sc, name) = sc[i].names[name]
  <2>1. holding \in SUBSET (1 .. m)
    BY <1>1
  <2>2. \E i \in holding : \A j \in holding : j <= i
    BY <1>2, <2>1, Greatest
  <2>3. PICK i : i = CHOOSE k \in holding : \A j \in holding : j <= k
    OBVIOUS
  <2>4. i \in holding
    BY <2>2, <2>3
  <2>5. Lookup(sc, name) = sc[i].names[name]
    BY <1>2, <2>3 DEF Lookup
  <2> QED BY <2>4, <2>5
<1>3. holding = {} => Lookup(sc, name) = IF name \in DOMAIN input.outer THEN OuterDecl ELSE None
  BY DEF Lookup
<1> QED BY <1>2, <1>3

\* The types of a scope
LEMMA ScopeFacts ==
  ASSUME NEW sc \in Seq(ScopeType), NEW i \in DOMAIN sc
  PROVE  /\ sc[i] \in ScopeType /\ sc[i].owner \in Nodes /\ sc[i].kind \in ScopeKinds
         /\ sc[i].names \in NameMaps
         /\ \A name \in DOMAIN sc[i].names : name \in Names /\ sc[i].names[name] \in Nodes
<1>1. sc[i] \in ScopeType
  OBVIOUS
<1>2. sc[i].owner \in Nodes /\ sc[i].kind \in ScopeKinds /\ sc[i].names \in NameMaps
  BY <1>1 DEF ScopeType
<1>3. PICK ks \in SUBSET Names : sc[i].names \in [ks -> Nodes]
  BY <1>2 DEF NameMaps, MapsOf
<1> QED BY <1>1, <1>2, <1>3

\* What introduce does: it refuses a name that is taken, or adds it to the
\* innermost scope that is no inplace one
Taken(d) == \E i \in DOMAIN scopes : Name(d) \in DOMAIN scopes[i].names
Foreign(d, x) ==
  /\ Name(d) \in DOMAIN input.outer
  /\ ~(/\ Kind(d) \in TopLevelKinds /\ Name(d) = input.instantiated
       /\ input.outer[Name(d)] = "meta" /\ d = x)
Target(sc, t) ==
  /\ t \in DOMAIN sc /\ sc[t].kind # "inplace"
  /\ \A j \in DOMAIN sc : sc[j].kind # "inplace" => j <= t
Adds(sc, tc, t, d) ==
  /\ DOMAIN tc = DOMAIN sc
  /\ \A i \in DOMAIN sc : tc[i].owner = sc[i].owner /\ tc[i].kind = sc[i].kind
  /\ \A i \in DOMAIN sc : i # t => tc[i].names = sc[i].names
  /\ tc[t].names = Inserted(sc[t].names, Name(d), d)

\* introduce either reports the name or adds the decl to one open scope, and does no more
LEMMA IntroduceFacts ==
  ASSUME ReaderTypes, scopes # << >>, scopes[1].kind # "inplace",
         NEW d \in Nodes, IsNamedDecl(d), NEW x, NEW s, s = Introduce(Scoping, d, x)
  PROVE  IF Taken(d) \/ Foreign(d, x)
         THEN s.scopes = scopes /\ s.errors = errors \cup {<<"declaredAlready", d>>}
         ELSE s.errors = errors /\ \E t : Target(scopes, t) /\ Adds(scopes, s.scopes, t, d)
<1>1. /\ Scoping.scopes = scopes /\ Scoping.errors = errors /\ Scoping \in ScopingType
      /\ scopes \in Seq(ScopeType)
  BY ScopingFields DEF ReaderTypes
<1>2. PICK previous : previous = Lookup(scopes, Name(d))
  OBVIOUS
<1>3. Nodes \subseteq Nat \ {0}
  BY LayoutFacts DEF ReaderTypes
<1>4. Taken(d) => previous \in Nodes
  <2> HAVE Taken(d)
  <2>1. PICK i \in DOMAIN scopes : /\ Name(d) \in DOMAIN scopes[i].names
                                   /\ Lookup(scopes, Name(d)) = scopes[i].names[Name(d)]
    BY <1>1, LookupFinds DEF Taken
  <2> QED BY <2>1, <1>1, <1>2, ScopeFacts
<1>5. ~Taken(d) => previous = IF Name(d) \in DOMAIN input.outer THEN OuterDecl ELSE None
  BY <1>1, <1>2, LookupFinds DEF Taken
<1>6. previous # None /\ ~MayShadow(d, previous, x) <=> Taken(d) \/ Foreign(d, x)
  <2>1. CASE Taken(d)
    <3>1. previous # None /\ previous # OuterDecl
      BY <2>1, <1>3, <1>4 DEF None, OuterDecl
    <3> QED BY <2>1, <3>1 DEF MayShadow
  <2>2. CASE ~Taken(d) /\ Name(d) \notin DOMAIN input.outer
    BY <2>2, <1>5 DEF Foreign
  <2>3. CASE ~Taken(d) /\ Name(d) \in DOMAIN input.outer
    <3>1. previous = OuterDecl /\ previous # None
      BY <2>3, <1>5 DEF None, OuterDecl
    <3> QED BY <2>3, <3>1 DEF Foreign, MayShadow
  <2> QED BY <2>1, <2>2, <2>3
<1>7. CASE Taken(d) \/ Foreign(d, x)
  <2>1. s = [Scoping EXCEPT !.errors = @ \cup {<<"declaredAlready", d>>}]
    BY <1>1, <1>2, <1>6, <1>7 DEF Introduce
  <2>2. s = [Scoping EXCEPT !.errors = errors \cup {<<"declaredAlready", d>>}]
    BY <2>1, <1>1
  <2>3. s = [scopes |-> scopes, exports |-> Scoping.exports,
             errors |-> errors \cup {<<"declaredAlready", d>>}]
    BY <2>2, <1>1, ErrorsBehind
  <2> QED BY <2>3, <1>7
<1>8. CASE ~(Taken(d) \/ Foreign(d, x))
  <2>1. s = [Scoping EXCEPT !.scopes = Insert(@, d), !.exports = Told(@, Last(Scoping.scopes), d)]
    BY <1>1, <1>2, <1>6, <1>8 DEF Introduce
  <2>2. s = [Scoping EXCEPT !.scopes = Insert(scopes, d),
                            !.exports = Told(Scoping.exports, Last(Scoping.scopes), d)]
    BY <2>1, <1>1
  <2>3. s = [scopes |-> Insert(scopes, d),
             exports |-> Told(Scoping.exports, Last(Scoping.scopes), d), errors |-> errors]
    BY <2>2, <1>1, ScopesBehind
  <2>4. s.errors = errors /\ s.scopes = Insert(scopes, d)
    BY <2>3
  <2> DEFINE allocated == {i \in DOMAIN scopes : scopes[i].kind # "inplace"}
  <2>5. \E i \in allocated : \A j \in allocated : j <= i
    <3>1. PICK m \in Nat : m = Len(scopes) /\ DOMAIN scopes = 1 .. m /\ m # 0
      BY <1>1
    <3>2. allocated \in SUBSET (1 .. m) /\ 1 \in allocated
      BY <3>1
    <3> HIDE DEF allocated
    <3>3. allocated # {}
      BY <3>2
    <3> QED BY <3>1, <3>2, <3>3, Greatest
  <2>6. PICK t : t = CHOOSE i \in allocated : \A j \in allocated : j <= i
    OBVIOUS
  <2>7. Target(scopes, t)
    BY <2>5, <2>6 DEF Target
  <2>8. Insert(scopes, d) = [scopes EXCEPT ![t].names = Inserted(@, Name(d), d)]
    BY <2>6 DEF Insert
  <2>9. Adds(scopes, Insert(scopes, d), t, d)
    <3>1. t \in DOMAIN scopes
      BY <2>7 DEF Target
    <3>2. scopes[t] \in ScopeType
      BY <3>1, <1>1
    <3> QED BY <3>1, <3>2, <2>8, <1>1 DEF Adds, ScopeType
  <2> QED BY <1>8, <2>4, <2>7, <2>9
<1> QED BY <1>7, <1>8
\* A decl has one home
LEMMA OneHome ==
  ASSUME NEW anc, NEW d, NEW s, NEW t, anc[d] \subseteq Nat, HomeIs(anc, s, d), HomeIs(anc, t, d)
  PROVE  s = t
<1>1. CASE TopDecl(d)
  BY <1>1 DEF HomeIs
<1>2. CASE ~TopDecl(d)
  <2>1. s \in Nat /\ t \in Nat /\ s <= t /\ t <= s
    BY <1>2 DEF HomeIs
  <2> HIDE <1>2
  <2> QED BY <2>1
<1> QED BY <1>1, <1>2

\* The decls whose home is one of the scopes
HeldBy(sc, anc, e) == \E i \in DOMAIN sc : HomeIs(anc, sc[i].owner, e)

\* A name is taken by a decl that the scopes hold
LEMMA TakenHeld ==
  ASSUME NEW T, NEW anc, NamesOk(scopes, T, anc), NEW d
  PROVE  Taken(d) <=> \E e \in T : Name(e) = Name(d) /\ HeldBy(scopes, anc, e)
<1>1. ASSUME NEW e \in T, Name(e) = Name(d), HeldBy(scopes, anc, e) PROVE Taken(d)
  BY <1>1 DEF HeldBy, NamesOk, Taken
<1>2. ASSUME NEW i \in DOMAIN scopes, Name(d) \in DOMAIN scopes[i].names
      PROVE  \E e \in T : Name(e) = Name(d) /\ HeldBy(scopes, anc, e)
  BY <1>2 DEF HeldBy, NamesOk
<1> QED BY <1>1, <1>2 DEF Taken

\* The lookup finds the decl that the scopes hold
LEMMA LookupMeans ==
  ASSUME NEW sc \in Seq(ScopeType), NEW T, NEW anc, NamesOk(sc, T, anc), NEW r,
         NEW held, \A e : e \in held <=> e \in T /\ Name(e) = Name(r) /\ HeldBy(sc, anc, e)
  PROVE  /\ held # {} => held = {Lookup(sc, Name(r))}
         /\ held = {} => Lookup(sc, Name(r)) =
                           IF Name(r) \in DOMAIN input.outer THEN OuterDecl ELSE None
<1>1. ASSUME NEW e \in held
      PROVE  \E i \in DOMAIN sc : Name(r) \in DOMAIN sc[i].names /\ sc[i].names[Name(r)] = e
  BY <1>1 DEF HeldBy, NamesOk
<1>2. ASSUME NEW i \in DOMAIN sc, Name(r) \in DOMAIN sc[i].names
      PROVE  sc[i].names[Name(r)] \in held
  BY <1>2 DEF HeldBy, NamesOk
<1>3. ASSUME NEW e \in held PROVE e = Lookup(sc, Name(r))
  <2>1. PICK i \in DOMAIN sc : Name(r) \in DOMAIN sc[i].names /\ sc[i].names[Name(r)] = e
    BY <1>1
  <2>2. PICK j \in DOMAIN sc : /\ Name(r) \in DOMAIN sc[j].names
                               /\ Lookup(sc, Name(r)) = sc[j].names[Name(r)]
    BY <2>1, LookupFinds
  <2>3. i = j
    BY <2>1, <2>2 DEF NamesOk
  <2> QED BY <2>1, <2>2, <2>3
<1>4. held = {} => \A i \in DOMAIN sc : Name(r) \notin DOMAIN sc[i].names
  BY <1>2
<1>5. held # {} => \E i \in DOMAIN sc : Name(r) \in DOMAIN sc[i].names
  BY <1>1
<1>6. held = {} => Lookup(sc, Name(r)) =
                     IF Name(r) \in DOMAIN input.outer THEN OuterDecl ELSE None
  BY <1>4, LookupFinds
<1> HIDE DEF Lookup
<1>7. held # {} => held = {Lookup(sc, Name(r))}
  <2> HAVE held # {}
  <2> QED BY <1>3
<1> QED BY <1>4, <1>5, <1>6, <1>7

\* The homes do not change
LEMMA SameNames ==
  ASSUME NEW sc, NEW T, NEW anc, NEW b, NamesOk(sc, T, anc),
         \A e \in T : \A s : HomeIs(b, s, e) <=> HomeIs(anc, s, e)
  PROVE  NamesOk(sc, T, b)
<1>1. \A i \in DOMAIN sc : \A name \in DOMAIN sc[i].names :
        LET d == sc[i].names[name] IN d \in T /\ Name(d) = name /\ HomeIs(b, sc[i].owner, d)
  BY DEF NamesOk
<1>2. \A d \in T : \A i \in DOMAIN sc : HomeIs(b, sc[i].owner, d) =>
        Name(d) \in DOMAIN sc[i].names /\ sc[i].names[Name(d)] = d
  BY DEF NamesOk
<1> QED BY <1>1, <1>2 DEF NamesOk

\* A decl is added to the scope that is its home
LEMMA InsertNames ==
  ASSUME NEW sc, NEW tc, NEW t, NEW T, NEW b, NEW d, NamesOk(sc, T, b),
         Target(sc, t), Adds(sc, tc, t, d), b[d] \subseteq Nat,
         \A i \in DOMAIN sc : Name(d) \notin DOMAIN sc[i].names,
         HomeIs(b, sc[t].owner, d),
         \A i, j \in DOMAIN sc : sc[i].owner = sc[j].owner => i = j
  PROVE  NamesOk(tc, T \cup {d}, b)
<1>1. /\ t \in DOMAIN sc /\ DOMAIN tc = DOMAIN sc
      /\ \A i \in DOMAIN sc : tc[i].owner = sc[i].owner
      /\ \A i \in DOMAIN sc : i # t => tc[i].names = sc[i].names
  BY DEF Target, Adds
<1>2. /\ DOMAIN tc[t].names = DOMAIN sc[t].names \cup {Name(d)}
      /\ tc[t].names[Name(d)] = d
      /\ \A name \in DOMAIN sc[t].names : tc[t].names[name] = sc[t].names[name]
  <2>1. tc[t].names = [k \in DOMAIN sc[t].names \cup {Name(d)} |->
                         IF k \in DOMAIN sc[t].names THEN sc[t].names[k] ELSE d]
    BY DEF Adds, Inserted
  <2>2. Name(d) \notin DOMAIN sc[t].names
    BY <1>1
  <2> QED BY <2>1, <2>2
<1>3. ASSUME NEW i \in DOMAIN tc, NEW name \in DOMAIN tc[i].names, NEW e, e = tc[i].names[name]
      PROVE  e \in T \cup {d} /\ Name(e) = name /\ HomeIs(b, tc[i].owner, e)
  <2>1. CASE i = t /\ name = Name(d)
    BY <2>1, <1>1, <1>2, <1>3
  <2>2. CASE ~(i = t /\ name = Name(d))
    <3>1. name \in DOMAIN sc[i].names /\ e = sc[i].names[name] /\ i \in DOMAIN sc
      BY <2>2, <1>1, <1>2, <1>3
    <3> QED BY <3>1, <1>1 DEF NamesOk
  <2> QED BY <2>1, <2>2
<1>4. ASSUME NEW e \in T \cup {d}, NEW i \in DOMAIN tc, HomeIs(b, tc[i].owner, e)
      PROVE  Name(e) \in DOMAIN tc[i].names /\ tc[i].names[Name(e)] = e
  <2>1. CASE e = d
    <3>1. sc[i].owner = sc[t].owner
      BY <2>1, <1>1, <1>4, OneHome
    <3>2. i = t
      BY <3>1, <1>1
    <3> QED BY <3>2, <2>1, <1>2
  <2>2. CASE e # d
    <3>1. i \in DOMAIN sc /\ Name(e) \in DOMAIN sc[i].names /\ sc[i].names[Name(e)] = e
      BY <2>2, <1>1, <1>4 DEF NamesOk
    <3> QED BY <3>1, <1>1, <1>2
  <2> QED BY <2>1, <2>2
<1>5. ASSUME NEW i \in DOMAIN tc, NEW j \in DOMAIN tc, NEW name \in DOMAIN tc[i].names,
             name \in DOMAIN tc[j].names
      PROVE  i = j
  <2>1. CASE name = Name(d)
    <3>1. i = t /\ j = t
      BY <2>1, <1>1, <1>5
    <3> QED BY <3>1
  <2>2. CASE name # Name(d)
    <3>1. i \in DOMAIN sc /\ j \in DOMAIN sc /\ name \in DOMAIN sc[i].names /\ name \in DOMAIN sc[j].names
      BY <2>2, <1>1, <1>2, <1>5
    <3> QED BY <3>1 DEF NamesOk
  <2> QED BY <2>1, <2>2
<1> QED BY <1>3, <1>4, <1>5 DEF NamesOk

\* A scope is entered that is nobody's home so far
LEMMA PushedNames ==
  ASSUME NEW sc \in Seq(ScopeType), NEW T, NEW b, NamesOk(sc, T, b), NEW kind, NEW c,
         \A e \in T : ~HomeIs(b, c, e)
  PROVE  NamesOk(Append(sc, Scope(kind, c)), T, b)
<1>1. PICK m \in Nat : m = Len(sc) /\ DOMAIN sc = 1 .. m
  OBVIOUS
<1>2. PICK tc : tc = Append(sc, Scope(kind, c))
  OBVIOUS
<1>3. /\ DOMAIN tc = 1 .. m + 1 /\ \A i \in 1 .. m : tc[i] = sc[i]
      /\ tc[m + 1] = Scope(kind, c)
  BY <1>1, <1>2
<1>4. tc[m + 1].owner = c /\ DOMAIN tc[m + 1].names = {}
  BY <1>3 DEF Scope
<1>5. \A i \in DOMAIN tc : i = m + 1 \/ (i \in DOMAIN sc /\ tc[i] = sc[i])
  BY <1>1, <1>3
<1> QED BY <1>2, <1>4, <1>5 DEF NamesOk

\* A scope is left
LEMMA PoppedNames ==
  ASSUME NEW sc \in Seq(ScopeType), sc # << >>, NEW T, NEW b, NamesOk(sc, T, b)
  PROVE  NamesOk(Front(sc), T, b)
<1>1. PICK m \in Nat : m = Len(sc) /\ DOMAIN sc = 1 .. m
  OBVIOUS
<1>2. PICK tc : tc = Front(sc)
  OBVIOUS
<1>3. DOMAIN tc = 1 .. m - 1 /\ \A i \in 1 .. m - 1 : tc[i] = sc[i]
  BY <1>1, <1>2, FrontSeq
<1>4. \A i \in DOMAIN tc : i \in DOMAIN sc /\ tc[i] = sc[i]
  BY <1>1, <1>3
<1> QED BY <1>2, <1>4 DEF NamesOk
(***************************************************************************)
(* What can be seen from the node that is consumed is what the scopes hold.*)
(***************************************************************************)
LEMMA MetFacts ==
  ASSUME NEW lv, NEW d \in Met(lv)
  PROVE  /\ d \in Nodes /\ IsNamedDecl(d) /\ pos > 0
         /\ TopDecl(d) \/ (d <= pos /\ Kind(d) \in {"arg", "decl"})
         /\ Kind(d) = "decl" /\ ~TopDecl(d) => \A i \in DOMAIN stack : stack[i] # d
BY DEF Met

\* A home is a scope that is held if its method runs
LEMMA HeldOnStack ==
  ASSUME NEW lv, ReaderTypes, Running(lv), OwnersOk, stack # << >>, NEW anc, NEW e
  PROVE  HeldBy(scopes, anc, e) <=> \E k \in DOMAIN stack : HomeIs(anc, stack[k], e)
<1>1. ASSUME NEW i \in DOMAIN scopes, HomeIs(anc, scopes[i].owner, e)
      PROVE  \E k \in DOMAIN stack : HomeIs(anc, stack[k], e)
  <2>1. PICK k \in DOMAIN stack : stack[k] = scopes[i].owner
    BY DEF OwnersOk
  <2> QED BY <2>1, <1>1
<1>2. ASSUME NEW k \in DOMAIN stack, HomeIs(anc, stack[k], e) PROVE HeldBy(scopes, anc, e)
  <2>1. HoldsScope(Kind(stack[k]))
    <3>1. CASE TopDecl(e)
      <4>1. stack[k] = 1 /\ pos > 0 /\ Kind(1) \in UnitKinds
        BY <3>1, <1>2, ReadFacts DEF HomeIs, Running, StackOk
      <4> QED BY <4>1 DEF HoldsScope, UnitKinds
    <3>2. CASE ~TopDecl(e)
      BY <3>2, <1>2 DEF HomeIs, Opens
    <3> QED BY <3>1, <3>2
  <2>2. PICK i \in DOMAIN scopes : scopes[i].owner = stack[k]
    BY <2>1 DEF OwnersOk
  <2> QED BY <2>2, <1>2 DEF HeldBy
<1> QED BY <1>1, <1>2 DEF HeldBy

\* The home of a node that is consumed is the innermost scope that is no inplace one
LEMMA TargetHome ==
  ASSUME ReaderTypes, OwnersOk, NEW t, Target(scopes, t), NEW a, NEW d, ~TopDecl(d),
         \A s : Opens(s) => (s \in a[d] \ {d} <=> \E k \in DOMAIN stack : stack[k] = s)
  PROVE  HomeIs(a, scopes[t].owner, d)
<1>1. t \in DOMAIN scopes /\ scopes[t].kind # "inplace"
  BY DEF Target
<1>2. Opens(scopes[t].owner) /\ \E k \in DOMAIN stack : stack[k] = scopes[t].owner
  BY <1>1 DEF OwnersOk, Opens
<1>3. ASSUME NEW o \in a[d] \ {d}, Opens(o) PROVE o <= scopes[t].owner
  <2>1. PICK k \in DOMAIN stack : stack[k] = o
    BY <1>3
  <2>2. PICK i \in DOMAIN scopes : scopes[i].owner = o
    BY <2>1, <1>3 DEF OwnersOk, Opens
  <2>3. scopes[i].kind # "inplace"
    BY <2>2, <1>3 DEF OwnersOk, Opens
  <2>4. /\ scopes \in Seq(ScopeType) /\ Nodes \subseteq Nat
    <3>1. scopes \in Seq(ScopeType)
      BY ScopingFields DEF ReaderTypes
    <3> QED BY <3>1, LayoutFacts DEF ReaderTypes
  <2>5. scopes[t].owner \in Nat /\ scopes[i].owner \in Nat /\ t \in Nat /\ i \in Nat /\ i <= t
    <3>1. scopes[t].owner \in Nodes /\ scopes[i].owner \in Nodes
      BY <2>4, <1>1, ScopeFacts
    <3>2. i <= t
      BY <2>3 DEF Target
    <3>3. t \in Nat /\ i \in Nat
      BY <2>4, <1>1
    <3> QED BY <3>1, <3>2, <3>3, <2>4
  <2>6. i < t => scopes[i].owner < scopes[t].owner
    BY <1>1 DEF OwnersOk
  <2>7. i < t \/ i = t
    BY <2>5
  <2> QED BY <2>2, <2>5, <2>6, <2>7
<1> QED BY <1>2, <1>3 DEF HomeIs

\* The nodes of the methods that run
OnStack == {stack[k] : k \in DOMAIN stack}

\* No arg or decl is a decl of the unit
LEMMA NotTop ==
  ASSUME NEW lv, NEW anc, Reads(lv, anc), TopsOk(anc), NEW n \in Nodes, n <= pos,
         Kind(n) \in {"arg", "decl"}
  PROVE  ~TopDecl(n)
<1>1. AroundOk(lv, anc, n)
  BY Around
<1>2. n # 1 /\ Kind(1) \in UnitKinds
  <2>1. n \in Nat \ {0} /\ pos \in Nat
    BY ReadFacts DEF Reads
  <2>2. pos > 0
    BY <2>1
  <2> QED BY <2>2 DEF Reads, Running, StackOk, UnitKinds
<1>3. PICK a \in anc[n] \ {n} : Kind(a) \in {"function", "meta"}
  BY <1>1, <1>2 DEF AroundOk
<1>4. anc[n] # {1, n}
  BY <1>2, <1>3 DEF UnitKinds
<1> QED BY <1>2, <1>4 DEF TopsOk, TopDecl

\* What is seen from the node that is shifted, which is not met yet
LEMMA SeenFromCall ==
  ASSUME NEW lv, NEW anc, NEW c, CallAt(lv, anc, c), OwnersOk, NEW b, b = Inside(anc, c),
         NEW e \in Met(lv)
  PROVE  Visible(b, e, c) <=> HeldBy(scopes, anc, e)
<1>1. /\ \A n \in Nodes : n <= pos => b[n] = anc[n]
      /\ b[c] = anc[Top] \cup {c}
  <2>1. PICK w : w = Called(lv, c)
    OBVIOUS
  <2> QED BY <2>1, CalledLinks
<1> USE DEF CallAt
<1>2. Reads(lv, anc) /\ stack # << >>
  BY DEF Reads, CallStep
<1>3. anc[Top] = OnStack /\ Top \in OnStack
  <2>1. PICK k \in Nat \ {0} : k = Len(stack)
    BY CallFacts
  <2>2. k \in 1 .. Len(stack) /\ Top = stack[k] /\ DOMAIN stack = 1 .. k
    BY <2>1, CallFacts
  <2>3. anc[stack[k]] = {stack[j] : j \in 1 .. k}
    BY <2>2, <1>2, StackAround
  <2> QED BY <2>2, <2>3 DEF OnStack
<1>4. /\ pos \in Nat /\ c = pos + 1 /\ Nodes \subseteq Nat /\ Top \in Nodes /\ Top <= pos
      /\ \A s \in OnStack : s \in Nodes /\ s <= pos
  <2>1. /\ pos \in Nat /\ c = pos + 1 /\ Nodes \subseteq Nat /\ Top \in Nodes /\ Top <= pos
        /\ DOMAIN stack = 1 .. Len(stack)
        /\ \A i \in 1 .. Len(stack) : stack[i] \in Nodes /\ stack[i] <= pos
    BY CallFacts DEF CallStep
  <2> QED BY <2>1 DEF OnStack
<1>5. e \in Nodes /\ (TopDecl(e) \/ (e <= pos /\ Kind(e) \in {"arg", "decl"}))
  BY MetFacts
<1>6. Agrees(b, anc)
  BY <1>1 DEF Agrees
<1>7. \A s : HomeIs(b, s, e) <=> HomeIs(anc, s, e)
  BY <1>4, <1>5, <1>6, Frozen
<1>8. HeldBy(scopes, anc, e) <=> \E s \in OnStack : HomeIs(anc, s, e)
  <2>1. HeldBy(scopes, anc, e) <=> \E k \in DOMAIN stack : HomeIs(anc, stack[k], e)
    BY <1>2, HeldOnStack DEF Reads
  <2> QED BY <2>1 DEF OnStack
<1>9. CASE TopDecl(e)
  <2>1. 1 \in OnStack
    <3>1. AroundOk(lv, anc, Top)
      BY <1>2, <1>4, Around
    <3> QED BY <3>1, <1>3 DEF AroundOk
  <2>2. HomeIs(anc, 1, e)
    BY <1>9 DEF HomeIs
  <2> QED BY <2>1, <2>2, <1>8, <1>9 DEF Visible
<1>10. CASE ~TopDecl(e)
  <2>1. e <= pos /\ Kind(e) \in {"arg", "decl"} /\ e < c /\ e # c
    <3>1. e <= pos /\ Kind(e) \in {"arg", "decl"} /\ e \in Nat
      BY <1>4, <1>5, <1>10
    <3> QED BY <3>1, <1>4
  <2>2. e \notin b[c]
    <3>1. e \notin OnStack
      <4>1. CASE Kind(e) = "decl"
        BY <4>1, <1>10, MetFacts DEF OnStack
      <4>2. CASE Kind(e) = "arg" /\ e # Top
        <5>1. AroundOk(lv, anc, Top)
          BY <1>2, <1>4, Around
        <5> QED BY <5>1, <4>2, <1>3 DEF AroundOk
      <4>3. CASE Kind(e) = "arg" /\ e = Top
        BY <4>3 DEF CallStep, ChildFits
      <4> QED BY <4>1, <4>2, <4>3, <2>1
    <3> QED BY <3>1, <2>1, <1>1, <1>3
  <2>3. ~HomeIs(b, c, e)
    <3>1. AroundOk(lv, anc, e)
      BY <2>1, <1>2, <1>5, Around
    <3>2. c \notin b[e]
      <4>0. e \in Nat /\ pos \in Nat /\ c = pos + 1 /\ e <= pos
        BY <2>1, <1>4, <1>5
      <4>1. b[e] = anc[e] /\ ~(c <= e)
        <5>1. ~(c <= e)
          BY ONLY <4>0
        <5> QED BY <5>1, <2>1, <1>1, <1>5
      <4> QED BY <3>1, <4>1 DEF AroundOk
    <3> QED BY <3>2, <1>10 DEF HomeIs
  <2>4. Visible(b, e, c) <=> \E s \in b[c] : HomeIs(b, s, e)
    BY <2>1, <2>2, <1>10 DEF Visible
  <2> QED BY <2>3, <2>4, <1>1, <1>3, <1>7, <1>8
<1> QED BY <1>9, <1>10

\* What is seen from a decl behind its expression
LEMMA SeenFromDecl ==
  ASSUME NEW lv, NEW anc, Reads(lv, anc), OwnersOk, OpenOk(anc), stack # << >>,
         Kind(Top) = "decl", NEW e \in Met(lv)
  PROVE  Visible(anc, e, Top) <=> HeldBy(scopes, anc, e)
<1>1. Top \in Nodes /\ Top <= pos /\ Nodes \subseteq Nat /\ pos \in Nat
  BY ReadFacts DEF Reads
<1>2. anc[Top] = OnStack /\ Top \in OnStack /\ 1 \in OnStack
  <2>1. PICK k \in Nat \ {0} : k = Len(stack)
    BY ReadFacts DEF Reads
  <2>2. k \in 1 .. Len(stack) /\ 1 \in 1 .. Len(stack) /\ Top = stack[k] /\ DOMAIN stack = 1 .. k /\ stack[1] = 1
    BY <2>1, ReadFacts DEF Reads
  <2>3. anc[stack[k]] = {stack[j] : j \in 1 .. k}
    BY <2>2, StackAround
  <2> QED BY <2>1, <2>2, <2>3 DEF OnStack
<1>3. e \in Nodes /\ (TopDecl(e) \/ (e <= pos /\ Kind(e) \in {"arg", "decl"}))
  BY MetFacts
<1>4. HeldBy(scopes, anc, e) <=> \E s \in OnStack : HomeIs(anc, s, e)
  <2>1. HeldBy(scopes, anc, e) <=> \E k \in DOMAIN stack : HomeIs(anc, stack[k], e)
    BY HeldOnStack DEF Reads
  <2> QED BY <2>1 DEF OnStack
<1>5. CASE TopDecl(e)
  BY <1>2, <1>4, <1>5 DEF Visible, HomeIs
<1>6. CASE ~TopDecl(e)
  <2>1. e <= pos /\ Kind(e) \in {"arg", "decl"} /\ e \in Nat
    BY <1>1, <1>3, <1>6
  <2>2. AroundOk(lv, anc, Top) /\ AroundOk(lv, anc, e)
    BY <1>1, <1>3, <2>1, Around
  <2>3. e # Top /\ e \notin OnStack
    <3>1. CASE Kind(e) = "decl"
      BY <3>1, <1>2, <1>6, MetFacts DEF OnStack
    <3>2. CASE Kind(e) = "arg"
      <4>1. e # Top
        BY <3>2
      <4> QED BY <4>1, <3>2, <2>2, <1>2 DEF AroundOk
    <3> QED BY <3>1, <3>2, <2>1
  <2>4. e < Top
    <3>1. Top <= e => Top \in anc[e]
      <4>1. PICK k \in DOMAIN stack : stack[k] = Top
        BY <1>2 DEF OnStack
      <4> QED BY <4>1, <2>1, <1>3 DEF OpenOk
    <3>2. Top \notin anc[e]
      BY <2>1, <2>2, <2>3 DEF AroundOk, ExprKinds
    <3>3. ~(Top <= e)
      BY <3>1, <3>2
    <3> QED BY <3>3, <2>1, <1>1
  <2>5. Visible(anc, e, Top) <=> \E s \in anc[Top] : HomeIs(anc, s, e)
    BY <2>3, <2>4, <1>2, <1>6 DEF Visible
  <2> QED BY <2>5, <1>2, <1>4
<1> QED BY <1>5, <1>6
\* No two scopes have the same owner
LEMMA OwnersDiffer ==
  ASSUME ReaderTypes, OwnersOk
  PROVE  \A i, j \in DOMAIN scopes : scopes[i].owner = scopes[j].owner => i = j
<1> TAKE i, j \in DOMAIN scopes
<1> HAVE scopes[i].owner = scopes[j].owner
<1>1. scopes \in Seq(ScopeType) /\ Nodes \subseteq Nat
  BY ScopingFields, LayoutFacts DEF ReaderTypes
<1>2. i \in Nat /\ j \in Nat
  BY <1>1
<1>3. scopes[i].owner \in Nat
  BY <1>1, ScopeFacts
<1>4. ~(i < j) /\ ~(j < i)
  BY <1>3 DEF OwnersOk
<1> QED BY <1>2, <1>4

\* What is known of a decl that is introduced, when M were met and R of them refused
Introducible(M, R, anc, b, d, x) ==
  /\ NamesOk(scopes, M \ R, anc) /\ RefusedOk(M, R, anc)
  /\ d \in Nodes /\ IsNamedDecl(d) /\ d \notin M /\ b[d] \subseteq Nat
  /\ Foreign(d, x) <=> ~Welcome(d)
  /\ \A e \in M : \A h : HomeIs(b, h, e) <=> HomeIs(anc, h, e)
  /\ \A e, o \in M : Conflict(b, e, o) <=> Conflict(anc, e, o)
  /\ \A e \in M : ~Conflict(b, e, d)
  /\ \A e \in M : Conflict(b, d, e) <=> Name(e) = Name(d) /\ HeldBy(scopes, anc, e)
  /\ \A t : Target(scopes, t) => HomeIs(b, scopes[t].owner, d)

\* A decl is introduced: it is refused if it conflicts with one that was not
LEMMA IntroduceScoped ==
  ASSUME ReaderTypes, OwnersOk, scopes # << >>, scopes[1].kind # "inplace",
         NEW M, NEW R, R = Refused, NEW anc, NEW b, NEW d, NEW x,
         Introducible(M, R, anc, b, d, x),
         NEW s, s = Introduce(Scoping, d, x),
         NEW Q, Q = {e \in Nodes : <<"declaredAlready", e>> \in s.errors}
  PROVE  /\ NamesOk(s.scopes, (M \cup {d}) \ Q, b) /\ RefusedOk(M \cup {d}, Q, b)
         /\ \A r : <<"unknown", r>> \in s.errors <=> <<"unknown", r>> \in errors
<1>0. /\ NamesOk(scopes, M \ R, anc) /\ RefusedOk(M, R, anc)
      /\ d \in Nodes /\ IsNamedDecl(d) /\ d \notin M /\ b[d] \subseteq Nat
      /\ Foreign(d, x) <=> ~Welcome(d)
      /\ \A e \in M : \A h : HomeIs(b, h, e) <=> HomeIs(anc, h, e)
      /\ \A e, o \in M : Conflict(b, e, o) <=> Conflict(anc, e, o)
      /\ \A e \in M : ~Conflict(b, e, d)
      /\ \A e \in M : Conflict(b, d, e) <=> Name(e) = Name(d) /\ HeldBy(scopes, anc, e)
      /\ \A t : Target(scopes, t) => HomeIs(b, scopes[t].owner, d)
  BY DEF Introducible
<1> USE <1>0
<1>1. IF Taken(d) \/ Foreign(d, x)
      THEN s.scopes = scopes /\ s.errors = errors \cup {<<"declaredAlready", d>>}
      ELSE s.errors = errors /\ \E t : Target(scopes, t) /\ Adds(scopes, s.scopes, t, d)
  BY IntroduceFacts
<1>2. Taken(d) <=> \E e \in M \ R : Conflict(b, d, e)
  <2>1. Taken(d) <=> \E e \in M \ R : Name(e) = Name(d) /\ HeldBy(scopes, anc, e)
    BY TakenHeld
  <2> QED BY <2>1
<1>3. R \subseteq M /\ d \notin R
  BY DEF RefusedOk
<1>4. NamesOk(scopes, M \ R, b)
  BY SameNames
<1>5. CASE Taken(d) \/ Foreign(d, x)
  <2>1. s.scopes = scopes /\ s.errors = errors \cup {<<"declaredAlready", d>>}
    BY <1>1, <1>5
  <2>2. Q = R \cup {d}
    BY <2>1 DEF Refused
  <2>3. (M \cup {d}) \ Q = M \ R
    BY <2>2
  <2>4. RefusedOk(M \cup {d}, Q, b)
    <3>1. d \in Q <=> ~Welcome(d) \/ \E e \in M \ R : Conflict(b, d, e)
      BY <2>2, <1>2, <1>5
    <3>2. Q \subseteq M \cup {d} /\ \A e \in M : e \in Q <=> e \in R
      BY <2>2, <1>3
    <3> QED BY <3>1, <3>2, RefusedMore
  <2> QED BY <2>1, <2>3, <2>4, <1>4
<1>6. CASE ~(Taken(d) \/ Foreign(d, x))
  <2>1. s.errors = errors
    BY <1>1, <1>6
  <2>2. Q = R
    BY <2>1 DEF Refused
  <2>3. PICK t : Target(scopes, t) /\ Adds(scopes, s.scopes, t, d)
    BY <1>1, <1>6
  <2>4. NamesOk(s.scopes, (M \ R) \cup {d}, b)
    <3>1. \A i \in DOMAIN scopes : Name(d) \notin DOMAIN scopes[i].names
      BY <1>6 DEF Taken
    <3>2. HomeIs(b, scopes[t].owner, d)
      BY <2>3
    <3> QED BY <3>1, <3>2, <2>3, <1>4, OwnersDiffer, InsertNames
  <2>5. (M \cup {d}) \ Q = (M \ R) \cup {d}
    BY <2>2, <1>3
  <2>6. RefusedOk(M \cup {d}, Q, b)
    <3>1. d \in Q <=> ~Welcome(d) \/ \E e \in M \ R : Conflict(b, d, e)
      BY <2>2, <1>2, <1>3, <1>6
    <3>2. Q \subseteq M \cup {d} /\ \A e \in M : e \in Q <=> e \in R
      BY <2>2, <1>3
    <3> QED BY <3>1, <3>2, RefusedMore
  <2> QED BY <2>1, <2>4, <2>5, <2>6
<1> QED BY <1>5, <1>6

\* Everything together, behind a step
LEMMA ScopedBehind ==
  ASSUME input' = input, NEW w, NEW b, LinksOk(w, b)', OpenOk(b)', TopsOk(b)',
         NEW M, M = Met(w)', NEW Q, Q = Refused', NEW W, W = Unknown',
         NamesOk(scopes', M \ Q, b), RefusedOk(M, Q, b), RefsOk(decl', W, M \ Q, w, b, pos')
  PROVE  Scoped(w, b)'
<1>1. Nodes' = Nodes /\ \A n : Kind(n)' = Kind(n) /\ Name(n)' = Name(n)
  BY SameInput
<1>2. \A d : Welcome(d)' <=> Welcome(d)
  BY SameWords
<1>3. \A s, d : HomeIs(b, s, d)' <=> HomeIs(b, s, d)
  BY SameWords
<1>4. \A e, n : (Visible(b, e, n)' <=> Visible(b, e, n)) /\ (Conflict(b, e, n)' <=> Conflict(b, e, n))
  BY SameWords
<1>5. NamesOk(scopes, Met(w) \ Refused, b)'
  BY <1>1, <1>3 DEF NamesOk
<1>6. RefusedOk(Met(w), Refused, b)'
  BY <1>1, <1>2, <1>4 DEF RefusedOk
<1>7. RefsOk(decl, Unknown, Met(w) \ Refused, w, b, pos)'
  <2>1. \A r : MeantAs(M \ Q, b, r)' = MeantAs(M \ Q, b, r)
    BY <1>1, <1>4 DEF MeantAs
  <2>2. DOMAIN input.outer = DOMAIN input'.outer
    OBVIOUS
  <2> QED BY <2>1, <2>2, <1>1 DEF RefsOk, Resolution
<1> QED BY <1>5, <1>6, <1>7 DEF Scoped
(***************************************************************************)
(* A method is called.                                                     *)
(***************************************************************************)
LEMMA CallNotTop ==
  ASSUME NEW lv, NEW anc, NEW c, CallAt(lv, anc, c), Kind(c) \in {"arg", "decl"}
  PROVE  ~TopDecl(c)
<1> SUFFICES ASSUME TopDecl(c) PROVE FALSE
  OBVIOUS
<1>1. Len(stack) = 1
  BY TopShifted DEF TopDecl
<1>2. stack # << >> /\ ReaderTypes /\ Running(lv) /\ ChildFits(Top, Len(kids[Top]) + 1, c)
  BY DEF CallAt, CallStep
<1>3. Top = 1 /\ Kind(1) \in UnitKinds
  BY <1>1, <1>2, ReadFacts DEF Running, StackOk
<1> QED BY <1>2, <1>3 DEF ChildFits, TopLevelKinds

\* The decls that were met: an argument is one more, where decls are introduced
LEMMA PushedMet ==
  ASSUME NEW lv, NEW anc, NEW c, CallAt(lv, anc, c), status' = "reading",
         NEW w, w = Called(lv, c)
  PROVE  Met(w)' = Met(lv) \cup (IF /\ Kind(c) = "arg" /\ IsNamedDecl(c)
                                    /\ w[c] # "InsideMetaDecl" THEN {c} ELSE {})
<1>1. \A n \in Nodes : n <= pos => w[n] = lv[n]
  BY CalledLinks
<1>2. PICK k \in Nat \ {0} : k = Len(stack)
  BY CallFacts DEF CallAt
<1>3. /\ DOMAIN stack = 1 .. k /\ DOMAIN stack' = 1 .. k + 1
      /\ \A i \in 1 .. k : stack'[i] = stack[i]
      /\ stack'[k + 1] = c
  BY <1>2, PushedStack, CallFacts DEF CallAt
<1>4. /\ pos \in Nat \ {0} /\ pos < c /\ c = pos + 1 /\ pos' = c /\ Nodes \subseteq Nat
      /\ Nodes' = Nodes /\ c \in Nodes /\ status = "reading" /\ input' = input
      /\ \A n : Kind(n)' = Kind(n)
  BY CallFacts, SameInput DEF Pushes, CallStep, CallAt
<1>5. \A d : (TopDecl(d)' <=> TopDecl(d)) /\ (IsNamedDecl(d)' <=> IsNamedDecl(d))
  BY <1>4, SameWords
<1>6. (\E i \in DOMAIN stack' : stack'[i] = c) /\ ~(c <= pos) /\ c <= pos' /\ pos' > 0
  <2>1. k + 1 \in 1 .. k + 1
    OBVIOUS
  <2> QED BY <2>1, <1>3, <1>4
<1>7. \A d \in Nodes : d # c => /\ d <= pos' <=> d <= pos
                                /\ (\A i \in DOMAIN stack' : stack'[i] # d)
                                     <=> \A i \in DOMAIN stack : stack[i] # d
  <2> TAKE d \in Nodes
  <2> HAVE d # c
  <2>1. d <= pos' <=> d <= pos
    <3>1. d \in Nat /\ pos \in Nat /\ pos' = pos + 1 /\ d # pos + 1
      BY <1>4
    <3> QED BY ONLY <3>1
  <2>2. \A i \in 1 .. k + 1 : i \in 1 .. k \/ i = k + 1
    OBVIOUS
  <2>3. \A i \in 1 .. k : i \in 1 .. k + 1
    OBVIOUS
  <2> QED BY <2>1, <2>2, <2>3, <1>3
<1>8. ASSUME NEW d \in Nodes, d # c PROVE d \in Met(w)' <=> d \in Met(lv)
  BY <1>1, <1>4, <1>5, <1>7, <1>8 DEF Met
<1>9. c \in Met(w)' <=> c \in Met(lv) \/ (/\ Kind(c) = "arg" /\ IsNamedDecl(c)
                                          /\ w[c] # "InsideMetaDecl")
  BY <1>4, <1>5, <1>6 DEF Met
<1>10. Met(w)' \subseteq Nodes /\ Met(lv) \subseteq Nodes
  BY <1>4 DEF Met
<1> QED BY <1>4, <1>8, <1>9, <1>10

\* What was met before means what it meant
LEMMA CalledFrozen ==
  ASSUME NEW lv, NEW anc, NEW c, CallAt(lv, anc, c), NEW b, b = Inside(anc, c)
  PROVE  /\ \A d \in Met(lv) : \A s : HomeIs(b, s, d) <=> HomeIs(anc, s, d)
         /\ \A e, n \in Nodes : n <= pos => (Visible(b, e, n) <=> Visible(anc, e, n))
         /\ \A d, e \in Met(lv) : Conflict(b, d, e) <=> Conflict(anc, d, e)
         /\ ~TopDecl(c) => /\ \A n \in Nodes : n <= pos => ~Visible(b, c, n)
                           /\ \A d \in Met(lv) : ~Conflict(b, d, c)
         /\ \A d \in Met(lv) : ~HomeIs(b, c, d)
         /\ c \notin Met(lv) \/ TopDecl(c)
<1>1. Agrees(b, anc)
  <2>1. PICK w : w = Called(lv, c)
    OBVIOUS
  <2> QED BY <2>1, CalledLinks DEF Agrees
<1>2. pos \in Nat \ {0} /\ Nodes \subseteq Nat /\ c = pos + 1 /\ Reads(lv, anc)
  BY CallFacts DEF CallAt, CallStep, Reads
<1>3. \A d \in Met(lv) : d \in Nodes /\ (TopDecl(d) \/ d <= pos)
  BY MetFacts
<1>4. \A n \in Nodes : n <= pos => ~(c < n) /\ ~(c <= n)
  <2> TAKE n \in Nodes
  <2>1. n \in Nat /\ pos \in Nat /\ c = pos + 1
    BY <1>2
  <2> QED BY ONLY <2>1
<1>5. \A n \in Nodes : n <= pos /\ ~TopDecl(c) => ~Visible(b, c, n)
  BY <1>4 DEF Visible
<1>6. \A d \in Met(lv) : ~TopDecl(c) => ~Conflict(b, d, c)
  BY <1>3, <1>5 DEF Conflict
<1>7. ASSUME NEW d \in Met(lv) PROVE ~HomeIs(b, c, d)
  <2>1. CASE TopDecl(d)
    <3>1. c # 1
      BY <1>2
    <3> QED BY <2>1, <3>1 DEF HomeIs
  <2>2. CASE ~TopDecl(d)
    <3>1. d \in Nodes /\ d <= pos
      BY <2>2, <1>3
    <3>2. AroundOk(lv, anc, d) /\ b[d] = anc[d] /\ ~(c <= d)
      BY <3>1, <1>1, <1>2, <1>4, Around DEF Agrees
    <3> QED BY <2>2, <3>2 DEF AroundOk, HomeIs
  <2> QED BY <2>1, <2>2
<1>8. c \notin Met(lv) \/ TopDecl(c)
  <2>1. ~(c <= pos)
    BY <1>2
  <2> QED BY <1>3, <2>1
<1>9. /\ \A d \in Met(lv) : \A s : HomeIs(b, s, d) <=> HomeIs(anc, s, d)
      /\ \A e, n \in Nodes : n <= pos => (Visible(b, e, n) <=> Visible(anc, e, n))
      /\ \A d, e \in Met(lv) : Conflict(b, d, e) <=> Conflict(anc, d, e)
  <2>1. pos \in Nat
    BY <1>2
  <2> QED BY <2>1, <1>1, <1>2, <1>3, Frozen
<1> QED BY <1>5, <1>6, <1>7, <1>8, <1>9

\* The references, when a node is shifted
LEMMA PushedRefs ==
  ASSUME NEW lv, NEW anc, NEW c, CallAt(lv, anc, c), NEW b, b = Inside(anc, c),
         NEW w, w = Called(lv, c), NEW T, T \subseteq Nodes, NEW V,
         RefsOk(decl, Unknown, T, lv, anc, pos),
         V = T \/ (V = T \cup {c} /\ ~TopDecl(c)), NEW ec, NEW W, W \subseteq Nodes,
         \A r \in Nodes : r # c => /\ r \in DOMAIN ec <=> r \in DOMAIN decl
                                   /\ r \in DOMAIN decl => ec[r] = decl[r]
                                   /\ r \in W <=> r \in Unknown,
         IF Kind(c) # "ref" THEN c \notin W
         ELSE IF w[c] = "InsideMetaDecl" THEN c \notin DOMAIN ec /\ c \notin W
         ELSE Resolution(ec, W, V, b, c)
  PROVE  RefsOk(ec, W, V, w, b, c)
<1>1. /\ pos \in Nat /\ c \in Nat /\ Nodes \subseteq Nat /\ c = pos + 1 /\ pos <= c
  BY CallFacts DEF CallAt, CallStep
<1>2. \A n \in Nodes : n <= pos => n # c /\ w[n] = lv[n]
  <2>1. \A n \in Nodes : n <= pos => n # c
    <3> TAKE n \in Nodes
    <3>1. n \in Nat
      BY <1>1
    <3> QED BY ONLY <3>1, <1>1
  <2> QED BY <2>1, CalledLinks
<1>3. \A n \in Nodes : n > pos /\ n <= c => n = c
  <2> TAKE n \in Nodes
  <2>1. n \in Nat
    BY <1>1
  <2> QED BY ONLY <2>1, <1>1
<1>4. \A r \in Nodes : r <= pos =>
        \A d : d \in V /\ Visible(b, d, r) <=> d \in T /\ Visible(anc, d, r)
  <2>1. \A e, n \in Nodes : n <= pos => (Visible(b, e, n) <=> Visible(anc, e, n))
    BY CalledFrozen
  <2>2. ~TopDecl(c) => \A n \in Nodes : n <= pos => ~Visible(b, c, n)
    BY CalledFrozen
  <2>3. c \in Nodes
    BY DEF CallAt, CallStep
  <2> QED BY <2>1, <2>2, <2>3
<1>5. Unknown \subseteq Nodes
  BY DEF Unknown
<1>6. \A r \in W : r \in Unknown \/ (r \in Nodes /\ r <= c /\ Kind(r) = "ref")
  <2>1. c <= c
    BY <1>1
  <2> QED BY <2>1
<1>7. \A r \in Nodes : r > pos /\ r <= c /\ Kind(r) = "ref" =>
        IF w[r] = "InsideMetaDecl" THEN r \notin DOMAIN ec /\ r \notin W
        ELSE Resolution(ec, W, V, b, r)
  BY <1>3
<1>8. /\ \A r \in Nodes : r <= pos =>
           (r \in DOMAIN ec <=> r \in DOMAIN decl) /\ (r \in W <=> r \in Unknown)
      /\ \A r \in Nodes : r <= pos /\ r \in DOMAIN decl => ec[r] = decl[r]
  BY <1>2
<1>9. \A r \in Nodes : r <= pos => w[r] = lv[r]
  BY <1>2
<1>10. Kept(decl, Unknown, T, lv, anc, ec, W, V, w, b, pos)
  BY <1>4, <1>5, <1>8, <1>9 DEF Kept
<1>11. NewlyResolved(ec, W, V, w, b, pos, c)
  BY <1>7 DEF NewlyResolved
<1>12. PICK more \in Nat : more = c
  BY <1>1
<1>13. /\ pos \in Nat /\ Nodes \subseteq Nat /\ pos <= more
       /\ RefsOk(decl, Unknown, T, lv, anc, pos)
       /\ \A r \in W : r \in Unknown \/ (r \in Nodes /\ r <= more /\ Kind(r) = "ref")
       /\ NewlyResolved(ec, W, V, w, b, pos, more)
  BY <1>1, <1>6, <1>11, <1>12
<1>14. RefsOk(ec, W, V, w, b, more)
  BY ONLY <1>10, <1>13, RefsStay
<1> QED BY <1>12, <1>14
(***************************************************************************)
(* The scopes are those of the methods that hold one, in their order.      *)
(***************************************************************************)
\* OwnersOk of scopes and methods
OwnersFit(sc, st) ==
  /\ \A i, j \in DOMAIN sc : i < j => sc[i].owner < sc[j].owner
  /\ \A i \in DOMAIN sc :
       /\ HoldsScope(Kind(sc[i].owner)) /\ \E k \in DOMAIN st : st[k] = sc[i].owner
       /\ sc[i].kind = "inplace" <=> Kind(sc[i].owner) = "metaCalculation"
  /\ \A k \in DOMAIN st : HoldsScope(Kind(st[k])) => \E i \in DOMAIN sc : sc[i].owner = st[k]

\* The owners of the scopes are those of the stack, also behind a step
LEMMA OwnersFitBehind ==
  /\ OwnersOk <=> OwnersFit(scopes, stack)
  /\ input' = input /\ OwnersFit(scopes', stack') => OwnersOk'
<1>1. OwnersOk <=> OwnersFit(scopes, stack)
  BY DEF OwnersOk, OwnersFit
<1>2. ASSUME input' = input, OwnersFit(scopes', stack') PROVE OwnersOk'
  <2>1. \A n : Kind(n)' = Kind(n)
    BY <1>2, SameInput
  <2> QED BY <2>1, <1>2 DEF OwnersOk, OwnersFit, HoldsScope
<1> QED BY <1>1, <1>2

\* The same owners
LEMMA OwnersSame ==
  ASSUME NEW sc, NEW st, OwnersFit(sc, st), sc \in Seq(ScopeType), NEW t, SameScopes(sc, t)
  PROVE  OwnersFit(t, st)
<1>1. PICK k \in Nat : k = Len(sc) /\ DOMAIN sc = 1 .. k
  OBVIOUS
<1>2. DOMAIN t = DOMAIN sc /\ \A i \in DOMAIN sc : t[i].owner = sc[i].owner /\ t[i].kind = sc[i].kind
  BY <1>1 DEF SameScopes
<1> QED BY <1>2 DEF OwnersFit

\* A method without a scope is called or returns
LEMMA OwnersBare ==
  ASSUME NEW sc, NEW s, NEW t, NEW c, OneMore(t, s, c), s \in Seq(Nodes), t \in Seq(Nodes),
         ~HoldsScope(Kind(c))
  PROVE  OwnersFit(sc, s) <=> OwnersFit(sc, t)
<1>1. PICK k \in Nat : k = Len(t) /\ DOMAIN t = 1 .. k /\ DOMAIN s = 1 .. k + 1
  BY DEF OneMore
<1>2. s[k + 1] = c /\ \A i \in 1 .. k : s[i] = t[i]
  BY <1>1 DEF OneMore
<1>3. \A o : HoldsScope(Kind(o)) => ((\E i \in DOMAIN s : s[i] = o) <=> \E i \in DOMAIN t : t[i] = o)
  <2>1. \A i \in 1 .. k + 1 : i = k + 1 \/ i \in 1 .. k
    OBVIOUS
  <2>2. \A i \in 1 .. k : i \in 1 .. k + 1
    OBVIOUS
  <2> QED BY <2>1, <2>2, <1>1, <1>2
<1>4. OwnersFit(sc, s) <=>
        /\ \A i, j \in DOMAIN sc : i < j => sc[i].owner < sc[j].owner
        /\ \A i \in DOMAIN sc :
             /\ HoldsScope(Kind(sc[i].owner)) /\ \E j \in DOMAIN s : s[j] = sc[i].owner
             /\ sc[i].kind = "inplace" <=> Kind(sc[i].owner) = "metaCalculation"
        /\ \A o : HoldsScope(Kind(o)) /\ (\E j \in DOMAIN s : s[j] = o) =>
             \E i \in DOMAIN sc : sc[i].owner = o
  BY DEF OwnersFit
<1>5. OwnersFit(sc, t) <=>
        /\ \A i, j \in DOMAIN sc : i < j => sc[i].owner < sc[j].owner
        /\ \A i \in DOMAIN sc :
             /\ HoldsScope(Kind(sc[i].owner)) /\ \E j \in DOMAIN t : t[j] = sc[i].owner
             /\ sc[i].kind = "inplace" <=> Kind(sc[i].owner) = "metaCalculation"
        /\ \A o : HoldsScope(Kind(o)) /\ (\E j \in DOMAIN t : t[j] = o) =>
             \E i \in DOMAIN sc : sc[i].owner = o
  BY DEF OwnersFit
<1> QED BY <1>3, <1>4, <1>5

\* A method with a scope is called
LEMMA OwnersEntered ==
  ASSUME NEW sc, NEW s, NEW t, NEW c \in Nodes, OneMore(t, s, c), s \in Seq(Nodes),
         t \in Seq(Nodes), OwnersFit(sc, t), sc \in Seq(ScopeType), HoldsScope(Kind(c)),
         \A i \in DOMAIN t : t[i] < c,
         NEW kind, kind = "inplace" <=> Kind(c) = "metaCalculation"
  PROVE  OwnersFit(Append(sc, Scope(kind, c)), s)
<1>1. PICK k \in Nat : k = Len(t) /\ DOMAIN t = 1 .. k /\ DOMAIN s = 1 .. k + 1
  BY DEF OneMore
<1>2. s[k + 1] = c /\ \A i \in 1 .. k : s[i] = t[i]
  BY <1>1 DEF OneMore
<1>3. PICK n \in Nat : n = Len(sc) /\ DOMAIN sc = 1 .. n
  OBVIOUS
<1>4. PICK tc : tc = Append(sc, Scope(kind, c))
  OBVIOUS
<1>5. /\ DOMAIN tc = 1 .. n + 1 /\ \A i \in 1 .. n : tc[i] = sc[i]
      /\ tc[n + 1].owner = c /\ tc[n + 1].kind = kind
  <2>1. tc[n + 1] = Scope(kind, c) /\ DOMAIN tc = 1 .. n + 1 /\ \A i \in 1 .. n : tc[i] = sc[i]
    BY <1>3, <1>4
  <2> QED BY <2>1 DEF Scope
<1>6. \A i \in 1 .. n + 1 : i = n + 1 \/ i \in 1 .. n
  OBVIOUS
<1>7. \A i \in 1 .. k + 1 : i = k + 1 \/ i \in 1 .. k
  OBVIOUS
<1>8. n + 1 \in 1 .. n + 1 /\ k + 1 \in 1 .. k + 1
      /\ (\A i \in 1 .. n : i \in 1 .. n + 1) /\ \A i \in 1 .. k : i \in 1 .. k + 1
  OBVIOUS
<1>9. \A i \in 1 .. n : sc[i].owner < c
  BY <1>1, <1>3 DEF OwnersFit
<1>10. ASSUME NEW i \in DOMAIN tc, NEW j \in DOMAIN tc, i < j PROVE tc[i].owner < tc[j].owner
  <2>1. i \in 1 .. n
    BY <1>3, <1>5, <1>10
  <2>2. CASE j = n + 1
    BY <2>1, <2>2, <1>5, <1>9
  <2>3. CASE j \in 1 .. n
    BY <2>1, <2>3, <1>3, <1>5, <1>10 DEF OwnersFit
  <2> QED BY <2>2, <2>3, <1>5, <1>6
<1>11. ASSUME NEW i \in DOMAIN tc
       PROVE  /\ HoldsScope(Kind(tc[i].owner)) /\ \E j \in DOMAIN s : s[j] = tc[i].owner
              /\ tc[i].kind = "inplace" <=> Kind(tc[i].owner) = "metaCalculation"
  <2>1. CASE i = n + 1
    BY <2>1, <1>1, <1>2, <1>5, <1>8
  <2>2. CASE i \in 1 .. n
    <3>1. PICK j \in DOMAIN t : t[j] = sc[i].owner
      BY <2>2, <1>3 DEF OwnersFit
    <3>2. j \in DOMAIN s /\ s[j] = sc[i].owner
      BY <3>1, <1>1, <1>2, <1>8
    <3> QED BY <3>2, <2>2, <1>3, <1>5 DEF OwnersFit
  <2> QED BY <2>1, <2>2, <1>5, <1>6
<1>12. ASSUME NEW j \in DOMAIN s, HoldsScope(Kind(s[j]))
       PROVE  \E i \in DOMAIN tc : tc[i].owner = s[j]
  <2>1. CASE j = k + 1
    BY <2>1, <1>2, <1>5, <1>8
  <2>2. CASE j \in 1 .. k
    <3>1. PICK i \in DOMAIN sc : sc[i].owner = t[j]
      BY <2>2, <1>1, <1>2, <1>12 DEF OwnersFit
    <3> QED BY <3>1, <2>2, <1>2, <1>3, <1>5, <1>8
  <2> QED BY <2>1, <2>2, <1>1, <1>7
<1> QED BY <1>4, <1>10, <1>11, <1>12 DEF OwnersFit

\* A method with a scope returns: its scope is the last one
LEMMA OwnersLeft ==
  ASSUME NEW sc, NEW s, NEW t, NEW c \in Nodes, OneMore(t, s, c), s \in Seq(Nodes),
         t \in Seq(Nodes), OwnersFit(sc, s), sc \in Seq(ScopeType), HoldsScope(Kind(c)),
         Nodes \subseteq Nat, \A i \in DOMAIN t : t[i] < c
  PROVE  sc # << >> /\ OwnersFit(Front(sc), t)
<1>1. PICK k \in Nat : k = Len(t) /\ DOMAIN t = 1 .. k /\ DOMAIN s = 1 .. k + 1
  BY DEF OneMore
<1>2. s[k + 1] = c /\ \A i \in 1 .. k : s[i] = t[i]
  BY <1>1 DEF OneMore
<1>3. k + 1 \in 1 .. k + 1 /\ (\A i \in 1 .. k : i \in 1 .. k + 1)
      /\ \A i \in 1 .. k + 1 : i = k + 1 \/ i \in 1 .. k
  OBVIOUS
<1>4. PICK n \in Nat : n = Len(sc) /\ DOMAIN sc = 1 .. n
  OBVIOUS
<1>5. PICK z \in DOMAIN sc : sc[z].owner = c
  BY <1>1, <1>2, <1>3 DEF OwnersFit
<1>6. \A i \in DOMAIN sc : sc[i].owner \in Nat /\ (sc[i].owner = c \/ sc[i].owner < c)
  <2> TAKE i \in DOMAIN sc
  <2>1. sc[i].owner \in Nodes
    BY ScopeFacts
  <2>2. PICK j \in DOMAIN s : s[j] = sc[i].owner
    BY DEF OwnersFit
  <2> QED BY <2>1, <2>2, <1>1, <1>2, <1>3
<1>7. z = n
  <2>1. z \in 1 .. n /\ n \in 1 .. n /\ n \in DOMAIN sc
    BY <1>4, <1>5
  <2>2. ~(z < n)
    <3>1. z < n => sc[z].owner < sc[n].owner
      BY <2>1 DEF OwnersFit
    <3>2. ~(c < sc[n].owner)
      BY <2>1, <1>6
    <3> QED BY <3>1, <3>2, <1>5
  <2> QED BY ONLY <2>1, <2>2
<1>8. PICK tc : tc = Front(sc)
  OBVIOUS
<1>9. sc # << >>
  BY <1>5
<1>10. DOMAIN tc = 1 .. n - 1 /\ (\A i \in 1 .. n - 1 : tc[i] = sc[i])
  <2>1. tc \in Seq(ScopeType) /\ Len(tc) = n - 1 /\ \A i \in 1 .. n - 1 : tc[i] = sc[i]
    BY <1>4, <1>8, <1>9, FrontSeq
  <2> QED BY <2>1
<1>11. \A i \in 1 .. n - 1 : i \in DOMAIN sc /\ i # n
  BY <1>4
<1>12. \A i \in DOMAIN sc : i # n => i \in 1 .. n - 1
  BY <1>4
<1>13. \A i, j \in DOMAIN tc : i < j => tc[i].owner < tc[j].owner
  BY <1>10, <1>11 DEF OwnersFit
<1>14. ASSUME NEW i \in DOMAIN tc
       PROVE  /\ HoldsScope(Kind(tc[i].owner)) /\ \E j \in DOMAIN t : t[j] = tc[i].owner
              /\ tc[i].kind = "inplace" <=> Kind(tc[i].owner) = "metaCalculation"
  <2>1. i \in DOMAIN sc /\ tc[i] = sc[i] /\ i \in Nat /\ i < n /\ n \in DOMAIN sc
    BY <1>4, <1>5, <1>7, <1>10
  <2>2. sc[i].owner < c
    BY <2>1, <1>5, <1>7 DEF OwnersFit
  <2>3. PICK j \in DOMAIN s : s[j] = sc[i].owner
    BY <2>1 DEF OwnersFit
  <2>4. sc[i].owner # c
    BY <2>1, <2>2, <1>6
  <2>5. j \in DOMAIN t /\ t[j] = sc[i].owner
    BY <2>3, <2>4, <1>1, <1>2, <1>3
  <2> QED BY <2>1, <2>5 DEF OwnersFit
<1>15. ASSUME NEW j \in DOMAIN t, HoldsScope(Kind(t[j]))
       PROVE  \E i \in DOMAIN tc : tc[i].owner = t[j]
  <2>0. j \in DOMAIN s /\ t[j] = s[j]
    BY <1>1, <1>2, <1>3, <1>15
  <2>1. PICK i \in DOMAIN sc : sc[i].owner = t[j]
    BY <2>0, <1>15 DEF OwnersFit
  <2>2. t[j] # c
    <3>1. t[j] \in Nat /\ c \in Nat
      BY <1>6, <1>5, <2>1
    <3> QED BY <3>1
  <2>3. i # n
    BY <2>1, <2>2, <1>5, <1>7
  <2> QED BY <2>1, <2>3, <1>10, <1>12
<1> QED BY <1>8, <1>9, <1>13, <1>14, <1>15 DEF OwnersFit
(***************************************************************************)
(* The invariant when a method is called.                                  *)
(***************************************************************************)
LEMMA CallFrom ==
  ASSUME ReaderInv, NEW lv, NEW anc, LinksOk(lv, anc), NEW ks \in SUBSET Kinds, Consumes(ks),
         Shift, ks \cap UnitKinds = {}, input' = input, units' = units, kids' = kids,
         NEW c, c = pos + 1, Enters(c) => Mode(modes) = "InsideMetaDecl"
  PROVE  /\ CallAt(lv, anc, c) /\ Kind(c) \in ks /\ status = "reading" /\ c \in Nodes
         /\ stack' \in Seq(Nodes) /\ stack \in Seq(Nodes) /\ OneMore(stack, stack', c)
         /\ stack # << >>
         /\ Kind(c) # "metaCalculation" => Called(lv, c)[c] = Mode(modes)
<1>1. /\ status = "reading" /\ stack # << >> /\ c \in Nodes /\ Pushes(c) /\ Kind(c) \in ks
      /\ ChildFits(Top, Len(kids[Top]) + 1, c) /\ stack' \in Seq(Nodes) /\ OneMore(stack, stack', c)
  BY ConsumedNode
<1>2. ReaderTypes
  BY DEF ReaderInv
<1>3. PICK w : Running(w)
  BY <1>1 DEF ReaderInv, Failures, RunningOk, Running
<1>4. Running(lv)
  BY <1>2, <1>3, LinksRun DEF Reads
<1>5. Mode(modes) = NextLevel(lv)
  <2>1. Top \in Nodes
    BY <1>1, <1>2, FrontSeq DEF ReaderTypes, Top
  <2>2. modes = ModesOf(NextLevel(lv)) /\ NextLevel(lv) \in Levels
    BY <1>4, <2>1, <1>1 DEF Running, NextLevel, LevelBefore, Levels, LevelsOk
  <2> QED BY <2>2, ModeOfLevel
<1>6. CallStep(lv, c)
  BY <1>1, <1>2, <1>4, <1>5 DEF CallStep, Enters
<1>7. Kind(c) # "metaCalculation" => Called(lv, c)[c] = NextLevel(lv)
  BY <1>6, CalledEdges
<1>8. stack \in Seq(Nodes)
  BY <1>2 DEF ReaderTypes
<1> QED BY <1>1, <1>5, <1>6, <1>7, <1>8 DEF CallAt

\* The owners
LEMMA CallOwners ==
  ASSUME NEW lv, NEW anc, NEW c, CallAt(lv, anc, c), OwnersOk,
         IF HoldsScope(Kind(c))
         THEN \E kind : /\ scopes' = Append(scopes, Scope(kind, c))
                        /\ kind = "inplace" <=> Kind(c) = "metaCalculation"
         ELSE SameScopes(scopes, scopes')
  PROVE  OwnersOk'
<1>1. /\ OneMore(stack, stack', c) /\ stack' \in Seq(Nodes) /\ stack \in Seq(Nodes) /\ c \in Nodes
      /\ scopes \in Seq(ScopeType) /\ input' = input
  BY PushedStack, ScopingFields DEF CallAt, CallStep, ReaderTypes, Pushes
<1>2. \A i \in DOMAIN stack : stack[i] < c
  <2>1. /\ pos \in Nat /\ c = pos + 1 /\ Nodes \subseteq Nat /\ DOMAIN stack = 1 .. Len(stack)
        /\ \A i \in 1 .. Len(stack) : stack[i] \in Nodes /\ stack[i] <= pos
    BY CallFacts DEF CallAt, CallStep
  <2> TAKE i \in DOMAIN stack
  <2>2. stack[i] \in Nat /\ stack[i] <= pos /\ pos \in Nat /\ c = pos + 1
    BY <2>1
  <2> QED BY ONLY <2>2
<1>3. OwnersFit(scopes, stack)
  BY OwnersFitBehind
<1>4. OwnersFit(scopes', stack')
  <2>1. CASE HoldsScope(Kind(c))
    <3>1. PICK kind : /\ scopes' = Append(scopes, Scope(kind, c))
                      /\ kind = "inplace" <=> Kind(c) = "metaCalculation"
      BY <2>1
    <3> QED BY <3>1, <2>1, <1>1, <1>2, <1>3, OwnersEntered
  <2>2. CASE ~HoldsScope(Kind(c))
    <3>1. OwnersFit(scopes, stack')
      BY <2>2, <1>1, <1>3, OwnersBare
    <3> QED BY <3>1, <2>2, <1>1, OwnersSame
  <2> QED BY <2>1, <2>2
<1> QED BY <1>1, <1>4, OwnersFitBehind

\* The nodes around the one that is shifted
LEMMA AroundCall ==
  ASSUME NEW lv, NEW anc, NEW c, CallAt(lv, anc, c), NEW b, b = Inside(anc, c)
  PROVE  b[c] = OnStack \cup {c} /\ c \notin OnStack /\ b[c] \subseteq Nat
<1>1. b[c] = anc[Top] \cup {c} /\ b \in [Nodes -> SUBSET Nodes]
  <2>1. PICK w : w = Called(lv, c)
    OBVIOUS
  <2> QED BY <2>1, CalledLinks
<1>2. /\ pos \in Nat /\ c = pos + 1 /\ c \in Nodes /\ Nodes \subseteq Nat /\ DOMAIN stack = 1 .. Len(stack)
      /\ \A i \in 1 .. Len(stack) : stack[i] \in Nodes /\ stack[i] <= pos
  BY CallFacts DEF CallAt, CallStep
<1>3. anc[Top] = OnStack
  <2>1. PICK k \in Nat \ {0} : k = Len(stack)
    BY CallFacts DEF CallAt
  <2>2. k \in 1 .. Len(stack) /\ Top = stack[k] /\ DOMAIN stack = 1 .. k
    BY <2>1, CallFacts DEF CallAt
  <2>3. anc[stack[k]] = {stack[j] : j \in 1 .. k}
    <3>1. Reads(lv, anc)
      BY DEF Reads, CallAt, CallStep
    <3> QED BY <3>1, <2>2, StackAround
  <2> QED BY <2>2, <2>3 DEF OnStack
<1>4. \A s \in OnStack : s <= pos
  BY <1>2 DEF OnStack
<1>5. ~(c <= pos)
  BY ONLY <1>2
<1> QED BY <1>1, <1>2, <1>3, <1>4, <1>5

\* The links and the tree
LEMMA CallTree ==
  ASSUME NEW lv, NEW anc, NEW c, CallAt(lv, anc, c), Scoped(lv, anc), NEW w, w = Called(lv, c),
         NEW b, b = Inside(anc, c)
  PROVE  LinksOk(w, b)' /\ OpenOk(b)' /\ TopsOk(b)'
BY PushedLinks, PushedOpen, PushedTops DEF Scoped

\* A node is only built, or a scope is entered
LEMMA QuietCall ==
  ASSUME NEW lv, NEW anc, NEW c, CallAt(lv, anc, c), OwnersOk, Scoped(lv, anc),
         status' = "reading", errors' = errors, decl' = decl, Kind(c) # "ref",
         NEW w, w = Called(lv, c), NEW b, b = Inside(anc, c),
         Kind(c) = "arg" => ~(IsNamedDecl(c) /\ w[c] # "InsideMetaDecl"),
         scopes' = scopes \/ \E kind : scopes' = Append(scopes, Scope(kind, c))
  PROVE  Scoped(w, b)'
<1>1. LinksOk(w, b)' /\ OpenOk(b)' /\ TopsOk(b)'
  BY CallTree
<1>2. PICK M : M = Met(lv)
  OBVIOUS
<1>3. /\ \A d \in M : \A s : HomeIs(b, s, d) <=> HomeIs(anc, s, d)
      /\ \A d, e \in M : Conflict(b, d, e) <=> Conflict(anc, d, e)
      /\ \A d \in M : ~HomeIs(b, c, d)
  BY <1>2, CalledFrozen
<1>4. Met(w)' = M
  <2>1. Met(w)' = Met(lv) \cup {}
    BY PushedMet
  <2> QED BY <2>1, <1>2
<1>5. input' = input /\ pos' = c /\ Nodes' = Nodes /\ scopes \in Seq(ScopeType)
  <2>1. input' = input /\ pos' = c /\ scopes \in Seq(ScopeType)
    BY ScopingFields DEF CallAt, CallStep, Pushes, ReaderTypes
  <2> QED BY <2>1, SameInput
<1>6. Refused' = Refused /\ Unknown' = Unknown
  BY <1>5 DEF Refused, Unknown
<1>7. /\ NamesOk(scopes, M \ Refused, anc) /\ RefusedOk(M, Refused, anc)
      /\ RefsOk(decl, Unknown, M \ Refused, lv, anc, pos)
  BY <1>2 DEF Scoped
<1>8. NamesOk(scopes', M \ Refused, b)
  <2>1. NamesOk(scopes, M \ Refused, b)
    BY <1>3, <1>7, SameNames
  <2>2. CASE scopes' = scopes
    BY <2>1, <2>2
  <2>3. ASSUME NEW kind, scopes' = Append(scopes, Scope(kind, c)) PROVE NamesOk(scopes', M \ Refused, b)
    BY <2>1, <2>3, <1>3, <1>5, PushedNames
  <2> QED BY <2>2, <2>3
<1>9. RefusedOk(M, Refused, b)
  BY <1>3, <1>7, RefusedSame
<1>10. RefsOk(decl, Unknown, M \ Refused, w, b, c)
  <2>1. c \notin Unknown
    BY <1>7 DEF RefsOk
  <2>2. M \ Refused \subseteq Nodes /\ Unknown \subseteq Nodes
    BY <1>2 DEF Met, Unknown
  <2> QED BY <2>1, <2>2, <1>7, PushedRefs
<1>11. RefsOk(decl', Unknown', Met(w)' \ Refused', w, b, pos')
  BY <1>4, <1>5, <1>6, <1>10
<1>12. NamesOk(scopes', Met(w)' \ Refused', b) /\ RefusedOk(Met(w)', Refused', b)
  BY <1>4, <1>6, <1>8, <1>9
<1> QED BY <1>1, <1>5, <1>11, <1>12, ScopedBehind
\* An argument is introduced
LEMMA ArgCall ==
  ASSUME NEW lv, NEW anc, NEW c, CallAt(lv, anc, c), OwnersOk, Scoped(lv, anc), ScopesOk,
         status' = "reading", decl' = decl, Kind(c) = "arg", IsNamedDecl(c),
         NEW w, w = Called(lv, c), NEW b, b = Inside(anc, c), w[c] # "InsideMetaDecl",
         NEW x, NEW s, s = Introduce(Scoping, c, x), scopes' = s.scopes, errors' = s.errors
  PROVE  Scoped(w, b)'
<1>1. LinksOk(w, b)' /\ OpenOk(b)' /\ TopsOk(b)'
  BY CallTree
<1>2. PICK M : M = Met(lv)
  OBVIOUS
<1>3. ~TopDecl(c)
  BY CallNotTop
<1>4. /\ \A d \in M : \A h : HomeIs(b, h, d) <=> HomeIs(anc, h, d)
      /\ \A d, e \in M : Conflict(b, d, e) <=> Conflict(anc, d, e)
      /\ \A d \in M : ~Conflict(b, d, c)
      /\ c \notin M
  BY <1>2, <1>3, CalledFrozen
<1>5. Met(w)' = M \cup {c}
  BY <1>2, PushedMet
<1>6. /\ input' = input /\ pos' = c /\ Nodes' = Nodes /\ ReaderTypes /\ c \in Nodes /\ stack # << >>
  <2>1. input' = input /\ pos' = c /\ ReaderTypes /\ c \in Nodes /\ stack # << >>
    BY DEF CallAt, CallStep, Pushes
  <2> QED BY <2>1, SameInput
<1>7. /\ NamesOk(scopes, M \ Refused, anc) /\ RefusedOk(M, Refused, anc)
      /\ RefsOk(decl, Unknown, M \ Refused, lv, anc, pos)
  BY <1>2 DEF Scoped
<1>8. Foreign(c, x) <=> ~Welcome(c)
  <2>1. Kind(c) \notin TopLevelKinds
    BY DEF TopLevelKinds
  <2> QED BY <2>1, <1>3 DEF Foreign, Welcome
<1>9. \A e \in M : Conflict(b, c, e) <=> Name(e) = Name(c) /\ HeldBy(scopes, anc, e)
  BY <1>2, <1>3, <1>4, SeenFromCall DEF Conflict
<1>10. b[c] = OnStack \cup {c} /\ c \notin OnStack /\ b[c] \subseteq Nat
  BY AroundCall
<1>11. \A t : Target(scopes, t) => HomeIs(b, scopes[t].owner, c)
  <2>1. \A h : Opens(h) => (h \in b[c] \ {c} <=> \E k \in DOMAIN stack : stack[k] = h)
    BY <1>10 DEF OnStack
  <2> QED BY <2>1, <1>3, <1>6, TargetHome
<1>12. scopes # << >> /\ scopes[1].kind # "inplace"
  BY <1>6, ScopeOfUnit
<1>13. PICK Q : Q = {e \in Nodes : <<"declaredAlready", e>> \in s.errors}
  OBVIOUS
<1>14. PICK R : R = Refused
  OBVIOUS
<1>15. /\ NamesOk(s.scopes, (M \cup {c}) \ Q, b) /\ RefusedOk(M \cup {c}, Q, b)
       /\ \A r : <<"unknown", r>> \in s.errors <=> <<"unknown", r>> \in errors
  <2>1. Introducible(M, R, anc, b, c, x)
    BY <1>4, <1>6, <1>7, <1>8, <1>9, <1>10, <1>11, <1>14 DEF Introducible
  <2>2. ReaderTypes /\ OwnersOk /\ s = Introduce(Scoping, c, x)
    BY <1>6
  <2> QED BY ONLY <2>1, <2>2, <1>12, <1>13, <1>14, IntroduceScoped
<1>16. Refused' = Q /\ Unknown' = Unknown
  BY <1>6, <1>13, <1>15 DEF Refused, Unknown
<1>17. (M \cup {c}) \ Q = M \ R \/ (M \cup {c}) \ Q = (M \ R) \cup {c}
  <2>1. IF Taken(c) \/ Foreign(c, x)
        THEN s.errors = errors \cup {<<"declaredAlready", c>>} ELSE s.errors = errors
    BY <1>6, <1>12, IntroduceFacts
  <2>2. Q = R \/ Q = R \cup {c}
    BY <2>1, <1>6, <1>13, <1>14 DEF Refused
  <2> QED BY <2>2, <1>4
<1>18. RefsOk(decl, Unknown, (M \cup {c}) \ Q, w, b, c)
  <2>1. c \notin Unknown
    BY <1>7 DEF RefsOk
  <2>2. M \ R \subseteq Nodes /\ Unknown \subseteq Nodes
    BY <1>2 DEF Met, Unknown
  <2>3. RefsOk(decl, Unknown, M \ R, lv, anc, pos) /\ Kind(c) # "ref"
    BY <1>7, <1>14
  <2>4. PICK V : V = (M \cup {c}) \ Q
    OBVIOUS
  <2>5. V = M \ R \/ (V = (M \ R) \cup {c} /\ ~TopDecl(c))
    BY <2>4, <1>3, <1>17
  <2>6. RefsOk(decl, Unknown, V, w, b, c)
    BY <2>1, <2>2, <2>3, <2>5, PushedRefs
  <2> QED BY <2>4, <2>6
<1>19. RefsOk(decl', Unknown', Met(w)' \ Refused', w, b, pos')
  BY <1>5, <1>6, <1>16, <1>18
<1>20. NamesOk(scopes', Met(w)' \ Refused', b) /\ RefusedOk(Met(w)', Refused', b)
  BY <1>5, <1>15, <1>16
<1> QED BY <1>1, <1>6, <1>19, <1>20, ScopedBehind

\* What is kept of what was found for a reference that is read in a level
KeepsFound(c, level, found) ==
  /\ decl' = IF level # "InsideMetaDecl" /\ found # None THEN Inserted(decl, c, found) ELSE decl
  /\ errors' = IF level # "InsideMetaDecl" /\ found = None
               THEN errors \cup {<<"unknown", c>>} ELSE errors

\* A reference is resolved through the scopes, where references are resolved
LEMMA RefCall ==
  ASSUME NEW lv, NEW anc, NEW c, CallAt(lv, anc, c), OwnersOk, Scoped(lv, anc),
         status' = "reading", scopes' = scopes, Kind(c) = "ref",
         NEW w, w = Called(lv, c), NEW b, b = Inside(anc, c),
         NEW found, found = Lookup(scopes, Name(c)), KeepsFound(c, w[c], found)
  PROVE  Scoped(w, b)'
<1>0. /\ decl' = IF w[c] # "InsideMetaDecl" /\ found # None
                 THEN Inserted(decl, c, found) ELSE decl
      /\ errors' = IF w[c] # "InsideMetaDecl" /\ found = None
                   THEN errors \cup {<<"unknown", c>>} ELSE errors
  BY DEF KeepsFound
<1> USE <1>0
<1>1. LinksOk(w, b)' /\ OpenOk(b)' /\ TopsOk(b)'
  BY CallTree
<1>2. PICK M : M = Met(lv)
  OBVIOUS
<1>3. /\ \A d \in M : \A s : HomeIs(b, s, d) <=> HomeIs(anc, s, d)
      /\ \A d, e \in M : Conflict(b, d, e) <=> Conflict(anc, d, e)
  BY <1>2, CalledFrozen
<1>4. Met(w)' = M
  <2>1. Met(w)' = Met(lv) \cup {}
    BY PushedMet
  <2> QED BY <2>1, <1>2
<1>5. /\ input' = input /\ pos' = c /\ Nodes' = Nodes /\ ReaderTypes /\ Running(lv) /\ c \in Nodes
      /\ scopes \in Seq(ScopeType) /\ pos \in Nat /\ c = pos + 1 /\ Nodes \subseteq Nat \ {0}
  <2>1. /\ input' = input /\ pos' = c /\ ReaderTypes /\ Running(lv) /\ c \in Nodes
        /\ scopes \in Seq(ScopeType)
    BY ScopingFields DEF CallAt, CallStep, Pushes, ReaderTypes
  <2> QED BY <2>1, SameInput, CallFacts DEF CallAt, CallStep
<1>6. PICK T : T = M \ Refused
  OBVIOUS
<1>7. /\ NamesOk(scopes, T, anc) /\ RefusedOk(M, Refused, anc)
      /\ RefsOk(decl, Unknown, T, lv, anc, pos) /\ T \subseteq Nodes
  BY <1>2, <1>6 DEF Scoped, Met
<1>8. Refused' = Refused
  <2>1. \A d : <<"declaredAlready", d>> \in errors' <=> <<"declaredAlready", d>> \in errors
    OBVIOUS
  <2> QED BY <2>1, <1>5 DEF Refused
<1>9. PICK U : U = Unknown'
  OBVIOUS
<1>10. /\ U = IF w[c] # "InsideMetaDecl" /\ found = None THEN Unknown \cup {c} ELSE Unknown
       /\ U \subseteq Nodes
  BY <1>5, <1>9 DEF Unknown
<1>11. c \notin Unknown /\ c \notin DOMAIN decl
  <2>1. ~(c <= pos)
    BY ONLY <1>5
  <2>2. \A r \in DOMAIN decl : r <= pos
    BY <1>5 DEF Running, LevelsOk
  <2> QED BY <2>1, <2>2, <1>7 DEF RefsOk
<1>12. MeantAs(T, b, c) = {d \in T : Name(d) = Name(c) /\ HeldBy(scopes, anc, d)}
  <2>1. \A d \in T : Visible(b, d, c) <=> HeldBy(scopes, anc, d)
    BY <1>2, <1>6, SeenFromCall
  <2> QED BY <2>1 DEF MeantAs
<1>13. PICK held : held = MeantAs(T, b, c)
  OBVIOUS
<1>14. /\ held # {} => held = {found}
       /\ held = {} => found = IF Name(c) \in DOMAIN input.outer THEN OuterDecl ELSE None
  <2>1. \A e : e \in held <=> e \in T /\ Name(e) = Name(c) /\ HeldBy(scopes, anc, e)
    BY <1>12, <1>13
  <2> QED BY <2>1, <1>5, <1>7, LookupMeans
<1>15. held # {} => found # None
  <2> HAVE held # {}
  <2>1. found \in Nodes
    BY <1>7, <1>13, <1>14 DEF MeantAs
  <2> QED BY <2>1, <1>5 DEF None
<1>16. OuterDecl # None
  BY DEF OuterDecl, None
<1>17. \A k : k \in DOMAIN decl' <=> k \in DOMAIN decl \/ (w[c] # "InsideMetaDecl" /\ found # None /\ k = c)
  BY InsertedDomain
<1>18. /\ w[c] # "InsideMetaDecl" /\ found # None => decl'[c] = found
       /\ \A r \in DOMAIN decl : decl'[r] = decl[r]
  BY <1>11 DEF Inserted
<1>19. w[c] # "InsideMetaDecl" => Resolution(decl', U, T, b, c)
  <2> HAVE w[c] # "InsideMetaDecl"
  <2>1. CASE held # {}
    <3>1. c \in DOMAIN decl' /\ decl'[c] = found /\ c \notin U
      BY <2>1, <1>10, <1>11, <1>15, <1>17, <1>18
    <3> QED BY <3>1, <2>1, <1>13, <1>14 DEF Resolution
  <2>2. CASE held = {} /\ Name(c) \in DOMAIN input.outer
    <3>1. c \in DOMAIN decl' /\ decl'[c] = OuterDecl /\ c \notin U
      BY <2>2, <1>10, <1>11, <1>14, <1>16, <1>17, <1>18
    <3> QED BY <3>1, <2>2, <1>13 DEF Resolution
  <2>3. CASE held = {} /\ Name(c) \notin DOMAIN input.outer
    <3>1. c \notin DOMAIN decl' /\ c \in U
      BY <2>3, <1>10, <1>11, <1>14, <1>17
    <3> QED BY <3>1, <2>3, <1>13 DEF Resolution
  <2> QED BY <2>1, <2>2, <2>3
<1>20. w[c] = "InsideMetaDecl" => c \notin DOMAIN decl' /\ c \notin U
  BY <1>10, <1>11
<1>21. RefsOk(decl', U, T, w, b, c)
  <2>1. \A r \in Nodes : r # c => /\ r \in DOMAIN decl' <=> r \in DOMAIN decl
                                  /\ r \in DOMAIN decl => decl'[r] = decl[r]
                                  /\ r \in U <=> r \in Unknown
    BY <1>10, <1>17, <1>18
  <2>2. PICK ec : ec = decl'
    OBVIOUS
  <2>3. IF Kind(c) # "ref" THEN c \notin U
        ELSE IF w[c] = "InsideMetaDecl" THEN c \notin DOMAIN ec /\ c \notin U
        ELSE Resolution(ec, U, T, b, c)
    BY <2>2, <1>19, <1>20
  <2>4. RefsOk(ec, U, T, w, b, c)
    BY <2>1, <2>2, <2>3, <1>7, <1>10, PushedRefs
  <2> QED BY <2>2, <2>4
<1>22. NamesOk(scopes', T, b) /\ RefusedOk(M, Refused, b)
  <2>1. \A d \in T : \A s : HomeIs(b, s, d) <=> HomeIs(anc, s, d)
    BY <1>3, <1>6
  <2> QED BY <2>1, <1>3, <1>7, SameNames, RefusedSame
<1>23. RefsOk(decl', Unknown', Met(w)' \ Refused', w, b, pos')
  BY <1>4, <1>5, <1>6, <1>8, <1>9, <1>21
<1>24. NamesOk(scopes', Met(w)' \ Refused', b) /\ RefusedOk(Met(w)', Refused', b)
  BY <1>4, <1>6, <1>8, <1>22
<1> QED BY <1>1, <1>5, <1>23, <1>24, ScopedBehind

\* What is known where a method is called
LEMMA ScopeNow ==
  ASSUME ScopeInv, status \notin Failures
  PROVE  OwnersOk /\ \E lv, anc : Scoped(lv, anc) /\ LinksOk(lv, anc)
BY DEF ScopeInv, Scoped

\* A node is consumed that declares and refers to nothing
LEMMA QuietKeeps ==
  ASSUME ReaderInv, ScopeInv, NEW ks \in SUBSET Kinds, Consumes(ks), Shift,
         ks \cap UnitKinds = {}, "arg" \notin ks, "ref" \notin ks,
         input' = input, units' = units, kids' = kids, decl' = decl, errors' = errors,
         NEW c, c = pos + 1, status' \in {"reading"} \cup Failures,
         status' = "reading" /\ Enters(c) => Mode(modes) = "InsideMetaDecl",
         IF HoldsScope(Kind(c))
         THEN \E kind : /\ scopes' = Append(scopes, Scope(kind, c))
                        /\ kind = "inplace" <=> Kind(c) = "metaCalculation"
         ELSE scopes' = scopes
  PROVE  ScopeInv'
<1> SUFFICES ASSUME status' \notin Failures PROVE ScopeInv'
  BY DEF ScopeInv
<1>1. status' = "reading" /\ status = "reading" /\ status \notin Failures
  BY DEF Consumes, Reading, Failures
<1>2. PICK lv, anc : Scoped(lv, anc) /\ LinksOk(lv, anc)
  BY <1>1, ScopeNow
<1>3. OwnersOk
  BY <1>1, ScopeNow
<1>4. Enters(c) => Mode(modes) = "InsideMetaDecl"
  BY <1>1
<1>5. CallAt(lv, anc, c) /\ Kind(c) \in ks
  BY <1>2, <1>4, CallFrom
<1>6. OwnersOk'
  <2>1. scopes' = scopes => SameScopes(scopes, scopes')
    BY Unchanged DEF ReaderInv
  <2>2. IF HoldsScope(Kind(c))
        THEN \E kind : /\ scopes' = Append(scopes, Scope(kind, c))
                       /\ kind = "inplace" <=> Kind(c) = "metaCalculation"
        ELSE SameScopes(scopes, scopes')
    BY <2>1
  <2> QED BY <2>2, <1>3, <1>5, CallOwners
<1>7. PICK w, b : w = Called(lv, c) /\ b = Inside(anc, c)
  OBVIOUS
<1>8. Scoped(w, b)'
  <2>1. Kind(c) # "ref" /\ Kind(c) # "arg"
    BY <1>5
  <2>2. scopes' = scopes \/ \E kind : scopes' = Append(scopes, Scope(kind, c))
    OBVIOUS
  <2> QED BY <2>1, <2>2, <1>1, <1>2, <1>3, <1>5, <1>7, QuietCall
<1> QED BY <1>6, <1>8 DEF ScopeInv

\* A function, meta decl or compound is consumed
LEMMA ScopedNames == ASSUME ReaderInv, ScopeInv, ConsumeScoped PROVE ScopeInv'
<1>1. PICK ks : ks = {"function", "meta", "compound"}
  OBVIOUS
<1>2. /\ ks \in SUBSET Kinds /\ ks \cap UnitKinds = {} /\ "ref" \notin ks /\ "arg" \notin ks
      /\ Consumes(ks) /\ Shift
      /\ \A kind \in ks : HoldsScope(kind) /\ kind \notin {"metaIf", "metaCalculation"}
  BY <1>1 DEF ConsumeScoped, Kinds, StmtKinds, OtherKinds, UnitKinds, HoldsScope
<1>3. /\ UNCHANGED <<units, input, kids, decl, errors>> /\ status' = status
      /\ scopes' = Append(scopes, Scope("temporary", pos + 1))
  BY DEF ConsumeScoped, treeVars, EnterScope
<1>4. PICK c : c = pos + 1
  OBVIOUS
<1>5. Kind(c) \in ks /\ status = "reading"
  BY <1>2, <1>3, <1>4, ConsumedNode
<1>6. PICK kind : kind = "temporary"
  OBVIOUS
<1>7. /\ HoldsScope(Kind(c)) /\ ~Enters(c) /\ scopes' = Append(scopes, Scope(kind, c))
      /\ kind = "inplace" <=> Kind(c) = "metaCalculation"
  BY <1>2, <1>3, <1>4, <1>5, <1>6 DEF Enters
<1> QED BY <1>2, <1>3, <1>4, <1>5, <1>7, QuietKeeps

\* A meta if is consumed
LEMMA MetaIfNames == ASSUME ReaderInv, ScopeInv, ConsumeMetaIf PROVE ScopeInv'
<1>1. PICK ks : ks = {"metaIf"}
  OBVIOUS
<1>2. /\ ks \in SUBSET Kinds /\ ks \cap UnitKinds = {} /\ "ref" \notin ks /\ "arg" \notin ks
      /\ Consumes(ks) /\ Shift /\ \A kind \in ks : ~HoldsScope(kind)
  BY <1>1 DEF ConsumeMetaIf, Kinds, StmtKinds, UnitKinds, HoldsScope
<1>3. /\ UNCHANGED <<units, input, kids, decl, errors>> /\ scopes' = scopes
      /\ EnterMode("InsideMetaDecl", "InsideComputation")
  BY DEF ConsumeMetaIf, treeVars, scopeVars
<1>4. PICK c : c = pos + 1
  OBVIOUS
<1>5. Kind(c) \in ks /\ status = "reading"
  BY <1>2, <1>3, <1>4, ConsumedNode
<1>6. /\ status' \in {"reading"} \cup Failures
      /\ status' = "reading" => Mode(modes) = "InsideMetaDecl"
  BY <1>3, <1>5 DEF EnterMode, Failures
<1> QED BY <1>2, <1>3, <1>4, <1>5, <1>6, QuietKeeps

\* A meta calculation is consumed
LEMMA MetaCalculationNames == ASSUME ReaderInv, ScopeInv, ConsumeMetaCalculation PROVE ScopeInv'
<1>1. PICK ks : ks = {"metaCalculation"}
  OBVIOUS
<1>2. /\ ks \in SUBSET Kinds /\ ks \cap UnitKinds = {} /\ "ref" \notin ks /\ "arg" \notin ks
      /\ Consumes(ks) /\ Shift /\ \A kind \in ks : HoldsScope(kind) /\ kind = "metaCalculation"
  BY <1>1 DEF ConsumeMetaCalculation, Kinds, StmtKinds, UnitKinds, HoldsScope
<1>3. /\ UNCHANGED <<units, input, kids, decl, errors>>
      /\ scopes' = Append(scopes, Scope("inplace", pos + 1))
      /\ EnterMode("InsideMetaDecl", "InsideComputation")
  BY DEF ConsumeMetaCalculation, treeVars, EnterScope
<1>4. PICK c : c = pos + 1
  OBVIOUS
<1>5. Kind(c) \in ks /\ status = "reading"
  BY <1>2, <1>3, <1>4, ConsumedNode
<1>6. /\ status' \in {"reading"} \cup Failures
      /\ status' = "reading" => Mode(modes) = "InsideMetaDecl"
  BY <1>3, <1>5 DEF EnterMode, Failures
<1>7. \E kind : /\ scopes' = Append(scopes, Scope(kind, c))
                /\ kind = "inplace" <=> Kind(c) = "metaCalculation"
  BY <1>2, <1>3, <1>4, <1>5
<1> QED BY <1>2, <1>3, <1>4, <1>5, <1>6, <1>7, QuietKeeps

\* A node that is only built is consumed
LEMMA OtherNames == ASSUME ReaderInv, ScopeInv, ConsumeOther PROVE ScopeInv'
<1>1. PICK ks : ks = Kinds \ {"compilationUnit", "metaUnit", "function", "meta", "compound",
                              "metaIf", "metaCalculation", "arg", "ref"}
  OBVIOUS
<1>2. /\ ks \in SUBSET Kinds /\ ks \cap UnitKinds = {} /\ "ref" \notin ks /\ "arg" \notin ks
      /\ Consumes(ks) /\ Shift
      /\ \A kind \in ks : ~HoldsScope(kind) /\ kind \notin {"metaIf", "metaCalculation"}
  BY <1>1 DEF ConsumeOther, UnitKinds, HoldsScope
<1>3. UNCHANGED <<units, input, kids, decl, errors>> /\ scopes' = scopes /\ status' = status
  BY DEF ConsumeOther, treeVars, scopeVars
<1>4. PICK c : c = pos + 1
  OBVIOUS
<1>5. Kind(c) \in ks /\ status = "reading"
  BY <1>2, <1>3, <1>4, ConsumedNode
<1>6. ~HoldsScope(Kind(c)) /\ ~Enters(c)
  BY <1>2, <1>5 DEF Enters
<1> QED BY <1>2, <1>3, <1>4, <1>5, <1>6, QuietKeeps

\* An argument is introduced unless it is only contributed
LEMMA ArgumentNames == ASSUME ReaderInv, ScopeInv, ConsumeArgument PROVE ScopeInv'
<1>1. PICK ks : ks = {"arg"}
  OBVIOUS
<1>2. PICK c : c = pos + 1
  OBVIOUS
<1>3. /\ ks \in SUBSET Kinds /\ ks \cap UnitKinds = {} /\ Consumes(ks) /\ Shift
      /\ UNCHANGED <<units, input, kids, decl, modes, exported, status>>
  BY <1>1 DEF ConsumeArgument, Kinds, OtherKinds, UnitKinds, treeVars
<1>4. Kind(c) \in ks /\ status = "reading" /\ status \notin Failures
  BY <1>2, <1>3, ConsumedNode DEF Failures
<1>5. Kind(c) = "arg" /\ ~HoldsScope(Kind(c)) /\ ~Enters(c)
  BY <1>1, <1>4 DEF HoldsScope, Enters
<1>6. PICK lv, anc : Scoped(lv, anc) /\ LinksOk(lv, anc)
  BY <1>4, ScopeNow
<1>7. OwnersOk
  BY <1>4, ScopeNow
<1>8. /\ CallAt(lv, anc, c) /\ stack # << >> /\ c \in Nodes
      /\ Called(lv, c)[c] = Mode(modes)
  BY <1>2, <1>3, <1>5, <1>6, CallFrom
<1>9. PICK w, b : w = Called(lv, c) /\ b = Inside(anc, c)
  OBVIOUS
<1>10. status' = "reading" /\ decl' = decl /\ input' = input
  BY <1>3, <1>4
<1>11. ReaderTypes /\ ScopesOk
  BY DEF ReaderInv
<1>12. CASE IsNamedDecl(c) /\ MayIntroduce
  <2>1. PICK x, s : x = exported /\ s = Introduce(Scoping, c, x)
    OBVIOUS
  <2>2. scopes' = s.scopes /\ errors' = s.errors
    BY <2>1, <1>2, <1>12 DEF ConsumeArgument, Becomes
  <2>3. SameScopes(scopes, scopes')
    BY <2>1, <2>2, <1>8, <1>11, <1>12, Introduced
  <2>4. OwnersOk'
    BY <2>3, <1>5, <1>7, <1>8, CallOwners
  <2>5. w[c] # "InsideMetaDecl"
    BY <1>8, <1>9, <1>12 DEF MayIntroduce
  <2>6. Scoped(w, b)'
    <3>1. IsNamedDecl(c)
      BY <1>12
    <3> QED BY ONLY <3>1, <2>1, <2>2, <2>5, <1>5, <1>6, <1>7, <1>8, <1>9, <1>10, <1>11, ArgCall
  <2> QED BY <2>4, <2>6 DEF ScopeInv
<1>13. CASE ~(IsNamedDecl(c) /\ MayIntroduce)
  <2>1. scopes' = scopes /\ errors' = errors
    BY <1>2, <1>13 DEF ConsumeArgument, scopeVars
  <2>2. SameScopes(scopes, scopes')
    BY <2>1, <1>11, Unchanged
  <2>3. OwnersOk'
    BY <2>2, <1>5, <1>7, <1>8, CallOwners
  <2>4. ~(IsNamedDecl(c) /\ w[c] # "InsideMetaDecl")
    BY <1>8, <1>9, <1>13 DEF MayIntroduce
  <2>5. Scoped(w, b)'
    <3>1. Kind(c) # "ref"
      BY <1>5
    <3> QED BY ONLY <3>1, <2>1, <2>4, <1>6, <1>7, <1>8, <1>9, <1>10, QuietCall
  <2> QED BY <2>3, <2>5 DEF ScopeInv
<1> QED BY <1>12, <1>13

\* A reference is resolved unless it is only contributed
LEMMA DeclRefNames == ASSUME ReaderInv, ScopeInv, ConsumeDeclRef PROVE ScopeInv'
<1>1. PICK ks : ks = {"ref"}
  OBVIOUS
<1>2. PICK c : c = pos + 1
  OBVIOUS
<1>3. /\ ks \in SUBSET Kinds /\ ks \cap UnitKinds = {} /\ Consumes(ks) /\ Shift
      /\ UNCHANGED <<units, input, kids, scopes, modes, exported, status>>
  BY <1>1 DEF ConsumeDeclRef, Kinds, ExprKinds, UnitKinds
<1>4. Kind(c) \in ks /\ status = "reading" /\ status \notin Failures
  BY <1>2, <1>3, ConsumedNode DEF Failures
<1>5. Kind(c) = "ref" /\ ~HoldsScope(Kind(c)) /\ ~Enters(c)
  BY <1>1, <1>4 DEF HoldsScope, Enters
<1>6. PICK lv, anc : Scoped(lv, anc) /\ LinksOk(lv, anc)
  BY <1>4, ScopeNow
<1>7. OwnersOk
  BY <1>4, ScopeNow
<1>8. CallAt(lv, anc, c) /\ Called(lv, c)[c] = Mode(modes)
  BY <1>2, <1>3, <1>5, <1>6, CallFrom
<1>9. PICK w, b, found : w = Called(lv, c) /\ b = Inside(anc, c) /\ found = Lookup(scopes, Name(c))
  OBVIOUS
<1>10. status' = "reading" /\ scopes' = scopes
  BY <1>3, <1>4
<1>11. MayResolve <=> w[c] # "InsideMetaDecl"
  BY <1>8, <1>9 DEF MayResolve
<1>12. KeepsFound(c, w[c], found)
  BY <1>2, <1>9, <1>11 DEF ConsumeDeclRef, KeepsFound
<1>13. Scoped(w, b)'
  BY ONLY <1>5, <1>6, <1>7, <1>8, <1>9, <1>10, <1>12, RefCall
<1>14. OwnersOk'
  <2>1. SameScopes(scopes, scopes')
    BY <1>10, Unchanged DEF ReaderInv
  <2> QED BY <2>1, <1>5, <1>7, <1>8, CallOwners
<1> QED BY <1>13, <1>14 DEF ScopeInv
(***************************************************************************)
(* A reader starts, and crawls through the unit.                           *)
(***************************************************************************)
\* No name was read yet
LEMMA FreshNames == Fresh => ScopeInv
<1> SUFFICES ASSUME Fresh PROVE ScopeInv
  OBVIOUS
<1>1. /\ pos = 0 /\ stack = << >> /\ kids = NothingOf(layout) /\ decl = << >> /\ scopes = << >>
      /\ errors = {}
  BY DEF Fresh
<1>2. /\ DOMAIN stack = {} /\ DOMAIN scopes = {} /\ Len(stack) = 0 /\ ~(pos > 0)
  BY <1>1
<1>3. \A n \in Nodes : n \in DOMAIN layout /\ n \in Nat \ {0} /\ ~(n <= pos)
  <2>1. Nodes \subseteq Nat \ {0} /\ \A n \in Nodes : n \in DOMAIN layout
    BY LayoutFacts DEF Fresh, Positions
  <2> QED BY <2>1, <1>1
<1>4. \A n \in Nodes : DOMAIN kids[n] = {}
  BY <1>1, <1>3 DEF NothingOf
<1>5. PICK lv, anc : lv = [n \in Nodes |-> "Outside"] /\ anc = [n \in Nodes |-> {}]
  OBVIOUS
<1>6. lv \in [Nodes -> Levels] /\ anc \in [Nodes -> SUBSET Nodes]
  BY <1>5 DEF Levels
<1>7. LinksOk(lv, anc)
  <2>1. 2 .. Len(stack) = {}
    BY <1>2
  <2> QED BY <2>1, <1>2, <1>4, <1>6 DEF LinksOk
<1>8. OpenOk(anc) /\ TopsOk(anc)
  BY <1>2, <1>3 DEF OpenOk, TopsOk
<1>9. Met(lv) = {} /\ Refused = {} /\ Unknown = {}
  BY <1>1, <1>2 DEF Met, Refused, Unknown
<1>10. NamesOk(scopes, {}, anc) /\ RefusedOk({}, {}, anc) /\ RefsOk(decl, {}, {}, lv, anc, pos)
  BY <1>2, <1>3 DEF NamesOk, RefusedOk, RefsOk
<1>11. Scoped(lv, anc)
  <2>1. Met(lv) \ Refused = {}
    BY <1>9
  <2> QED BY <2>1, <1>7, <1>8, <1>9, <1>10 DEF Scoped
<1>12. OwnersOk
  BY <1>2 DEF OwnersOk
<1> QED BY <1>11, <1>12 DEF ScopeInv

\* The same for the state behind a step
LEMMA FreshNamesBehind == Fresh' => ScopeInv'
BY FreshNames, PTL

\* What only depends on the tree, where that does not change
LEMMA TreeStays ==
  ASSUME input' = input, pos' = pos, stack' = stack, kids' = kids,
         NEW lv, NEW anc, LinksOk(lv, anc), OpenOk(anc), TopsOk(anc)
  PROVE  LinksOk(lv, anc)' /\ OpenOk(anc)' /\ TopsOk(anc)'
<1>1. Nodes' = Nodes
  BY SameInput
<1>2. \A d : (TopDecl(d)' <=> TopDecl(d)) /\ (IsNamedDecl(d)' <=> IsNamedDecl(d))
  BY SameWords
<1>3. \A p, k, c : Linked(lv, anc, p, k, c)' <=> Linked(lv, anc, p, k, c)
  BY SameWords
<1>4. LinksOk(lv, anc)'
  <2>1. \A p \in Nodes' : \A k \in DOMAIN kids'[p] : Linked(lv, anc, p, k, kids[p][k])'
    BY <1>1, <1>3 DEF LinksOk
  <2>2. \A i \in 2 .. Len(stack') :
          Linked(lv, anc, stack[i - 1], Len(kids[stack[i - 1]]) + 1, stack[i])'
    BY <1>3 DEF LinksOk
  <2> QED BY <2>1, <2>2, <1>1 DEF LinksOk
<1>5. OpenOk(anc)'
  BY <1>1 DEF OpenOk
<1>6. TopsOk(anc)'
  BY <1>1, <1>2 DEF TopsOk
<1> QED BY <1>4, <1>5, <1>6

\* Nothing changes but what is told by the same decls
LEMMA ScopedStays ==
  ASSUME input' = input, pos' = pos, stack' = stack, kids' = kids, decl' = decl,
         scopes' = scopes, errors' = errors, OwnersOk,
         NEW lv, NEW anc, Scoped(lv, anc), Met(lv)' = Met(lv)
  PROVE  OwnersOk' /\ Scoped(lv, anc)'
<1>1. OwnersOk'
  BY OwnersFitBehind
<1>2. LinksOk(lv, anc)' /\ OpenOk(anc)' /\ TopsOk(anc)'
  BY TreeStays DEF Scoped
<1>3. Refused' = Refused /\ Unknown' = Unknown
  BY SameInput DEF Refused, Unknown
<1>4. PICK M, Q, W : M = Met(lv)' /\ Q = Refused' /\ W = Unknown'
  OBVIOUS
<1>5. NamesOk(scopes', M \ Q, anc) /\ RefusedOk(M, Q, anc) /\ RefsOk(decl', W, M \ Q, lv, anc, pos')
  BY <1>3, <1>4 DEF Scoped
<1> QED BY <1>1, <1>2, <1>4, <1>5, ScopedBehind

\* Nothing happens
LEMMA ScopeStutter == ASSUME ScopeInv, UNCHANGED vars PROVE ScopeInv'
<1>1. /\ input' = input /\ pos' = pos /\ stack' = stack /\ crawl' = crawl
      /\ kids' = kids /\ decl' = decl /\ scopes' = scopes
      /\ errors' = errors /\ status' = status
  BY DEF vars, treeVars, scopeVars
<1> SUFFICES ASSUME status \notin Failures PROVE ScopeInv'
  BY <1>1 DEF ScopeInv, Failures
<1>2. PICK lv, anc : Scoped(lv, anc)
  BY ScopeNow
<1>3. OwnersOk
  BY ScopeNow
<1>4. Met(lv)' = Met(lv)
  <2>1. Nodes' = Nodes /\ \A n : Kind(n)' = Kind(n)
    BY <1>1, SameInput
  <2>2. \A d : (TopDecl(d)' <=> TopDecl(d)) /\ (IsNamedDecl(d)' <=> IsNamedDecl(d))
    BY <1>1, SameWords
  <2> QED BY <1>1, <2>1, <2>2 DEF Met
<1>5. OwnersOk' /\ Scoped(lv, anc)'
  BY <1>1, <1>2, <1>3, <1>4, ScopedStays
<1> QED BY <1>5 DEF ScopeInv

\* The unit is consumed
LEMMA UnitNames == ASSUME ReaderInv, ScopeInv, ConsumeUnit PROVE ScopeInv'
<1>1. /\ Consumes({"compilationUnit", "metaUnit"}) /\ Shift
      /\ UNCHANGED <<units, input, kids, decl, errors, modes>>
      /\ scopes' = Append(scopes, Scope("consistent", pos + 1))
      /\ crawl' = pos + 2 /\ status' = "crawling"
  BY DEF ConsumeUnit, treeVars, EnterScope
<1>2. ReaderTypes
  BY DEF ReaderInv
<1>3. PICK ks : ks = {"compilationUnit", "metaUnit"} /\ ks \in SUBSET Kinds
  BY DEF Kinds, OtherKinds
<1>4. /\ status = "reading" /\ pos \in Nat /\ pos + 1 <= Len(layout)
      /\ pos + 1 \in Nodes /\ Kind(pos + 1) \in ks
      /\ stack = << >> => pos = 0
      /\ stack # << >> /\ pos # 0 => ChildFits(Top, Len(kids[Top]) + 1, pos + 1)
  BY <1>1, <1>2, <1>3, ConsumeFits
<1>5. PICK wo : Running(wo)
  BY <1>4 DEF ReaderInv, Failures, RunningOk, Running
<1>6. stack = << >> /\ pos = 0
  <2>1. ~ChildFits(Top, Len(kids[Top]) + 1, pos + 1)
    BY <1>3, <1>4 DEF ChildFits, UnitKinds
  <2> QED BY <2>1, <1>4, <1>5 DEF Running, StackOk
<1>7. /\ 1 \in Nodes /\ Kind(1) \in UnitKinds /\ HoldsScope(Kind(1)) /\ crawl' = 2 /\ pos' = 1
      /\ stack' = <<1>> /\ DOMAIN stack' = {1} /\ stack'[1] = 1 /\ Len(stack') = 1
  BY <1>1, <1>3, <1>4, <1>6 DEF UnitKinds, HoldsScope, Shift
<1>8. PICK lv, anc : Scoped(lv, anc)
  BY <1>4, ScopeNow DEF Failures
<1>9. OwnersOk
  BY <1>4, ScopeNow DEF Failures
<1>10. scopes = << >> /\ scopes' = <<Scope("consistent", 1)>>
  <2>1. \A i \in DOMAIN scopes : FALSE
    BY <1>6, <1>9 DEF OwnersOk
  <2>2. scopes \in Seq(ScopeType)
    BY <1>2, ScopingFields DEF ReaderTypes
  <2>3. PICK m \in Nat : m = Len(scopes) /\ DOMAIN scopes = 1 .. m
    BY <2>2
  <2>4. m = 0
    BY <2>1, <2>3
  <2>5. scopes = << >>
    BY <2>2, <2>3, <2>4
  <2> QED BY <2>5, <1>1, <1>6
<1>11. /\ DOMAIN scopes' = {1} /\ scopes'[1].owner = 1 /\ scopes'[1].kind # "inplace"
       /\ DOMAIN scopes'[1].names = {}
  BY <1>10 DEF Scope
<1>12. /\ Nodes' = Nodes /\ (\A n : Kind(n)' = Kind(n)) /\ Nodes \subseteq Nat \ {0}
       /\ \A n \in Nodes : (n <= 1 => n = 1) /\ kids[n] = << >> /\ ~(n <= 0)
  <2>1. Nodes' = Nodes /\ (\A n : Kind(n)' = Kind(n)) /\ Nodes \subseteq Nat \ {0}
    BY <1>1, <1>2, SameInput, LayoutFacts DEF ReaderTypes
  <2> QED BY <2>1, <1>5, <1>6 DEF Running, TreeOk
<1>13. PICK w, b : w = [lv EXCEPT ![1] = "Outside"] /\ b = [anc EXCEPT ![1] = {1}]
  OBVIOUS
<1>14. /\ w \in [Nodes -> Levels] /\ b \in [Nodes -> SUBSET Nodes] /\ w[1] = "Outside" /\ b[1] = {1}
  <2>1. lv \in [Nodes -> Levels] /\ anc \in [Nodes -> SUBSET Nodes]
    BY <1>8 DEF Scoped, LinksOk
  <2>2. {1} \in SUBSET Nodes /\ "Outside" \in Levels
    BY <1>7 DEF Levels
  <2> QED BY <2>1, <2>2, <1>7, <1>13
<1>15. \A d : (TopDecl(d)' <=> TopDecl(d)) /\ (IsNamedDecl(d)' <=> IsNamedDecl(d))
  BY <1>1, SameWords
<1>16. LinksOk(w, b)' /\ OpenOk(b)' /\ TopsOk(b)'
  <2>1. LinksOk(w, b)'
    <3>1. 2 .. Len(stack') = {}
      BY <1>7
    <3>2. \A p \in Nodes' : DOMAIN kids'[p] = {}
      BY <1>1, <1>12
    <3> QED BY <3>1, <3>2, <1>12, <1>14 DEF LinksOk
  <2>2. OpenOk(b)'
    BY <1>7, <1>12, <1>14 DEF OpenOk
  <2>3. TopsOk(b)'
    BY <1>7, <1>12 DEF TopsOk
  <2> QED BY <2>1, <2>2, <2>3
<1>17. Met(lv) = {} /\ Refused = {} /\ Unknown = {}
  <2>1. ~(pos > 0)
    BY <1>6
  <2>2. Met(lv) = {}
    BY <2>1 DEF Met
  <2>3. Refused = {}
    BY <2>2, <1>8 DEF Scoped, RefusedOk
  <2>4. Unknown = {}
    <3>1. \A r \in Unknown : r \in Nodes /\ r <= 0
      BY <1>6, <1>8 DEF Scoped, RefsOk, Unknown
    <3> QED BY <3>1, <1>12
  <2> QED BY <2>2, <2>3, <2>4
<1>18. Met(w)' = {} /\ Refused' = {} /\ Unknown' = {}
  <2>1. Refused' = Refused /\ Unknown' = Unknown
    BY <1>1, <1>12 DEF Refused, Unknown
  <2>2. \A d \in Nodes : d < 2 => d = 1
    BY <1>12
  <2>3. ASSUME NEW d \in Met(w)' PROVE FALSE
    <3>1. /\ d \in Nodes /\ IF TopDecl(d) THEN d < 2 ELSE d <= 1 /\ Kind(d) \in {"arg", "decl"}
      BY <1>1, <1>7, <1>12, <1>15 DEF Met
    <3>2. d = 1
      BY <3>1, <2>2, <1>12
    <3> QED BY <3>1, <3>2, <1>7 DEF TopDecl, UnitKinds
  <2> QED BY <2>1, <2>3, <1>17
<1>19. NamesOk(scopes', {}, b) /\ RefusedOk({}, {}, b)
  BY <1>11 DEF NamesOk, RefusedOk
<1>20. RefsOk(decl', {}, {}, w, b, pos')
  BY <1>7, <1>12 DEF RefsOk, UnitKinds
<1>21. Scoped(w, b)'
  <2>1. PICK M, Q, W : M = Met(w)' /\ Q = Refused' /\ W = Unknown'
    OBVIOUS
  <2>2. M = {} /\ Q = {} /\ W = {} /\ M \ Q = {}
    BY <2>1, <1>18
  <2>3. /\ NamesOk(scopes', M \ Q, b) /\ RefusedOk(M, Q, b)
        /\ RefsOk(decl', W, M \ Q, w, b, pos') /\ input' = input
    BY <2>2, <1>1, <1>19, <1>20
  <2> QED BY <2>1, <2>3, <1>16, ScopedBehind
<1>22. OwnersOk'
  <2>1. OwnersFit(scopes', stack')
    BY <1>7, <1>11 DEF OwnersFit, UnitKinds
  <2> QED BY <2>1, <1>1, OwnersFitBehind
<1> QED BY <1>21, <1>22 DEF ScopeInv

\* Where the crawl is, and what it has met
LEMMA CrawlFacts ==
  ASSUME ReaderInv, ScopeInv, status = "crawling"
  PROVE  \E lv, anc :
           /\ Scoped(lv, anc) /\ Running(lv) /\ ReaderTypes /\ OwnersOk
           /\ stack = <<1>> /\ pos = 1 /\ crawl \in 2 .. Len(layout) /\ Len(layout) \in Nat
           /\ Depth(layout, crawl - 1) = 1 /\ Kind(1) \in UnitKinds /\ 1 \in Nodes
           /\ \A n \in Nodes : n \in 1 .. Len(layout) /\ (n <= 1 => n = 1)
           /\ Met(lv) = {d \in Nodes : TopDecl(d) /\ d < crawl}
           /\ anc \in [Nodes -> SUBSET Nodes]
<1>1. ReaderTypes /\ status \notin Failures
  BY DEF ReaderInv, Failures
<1>2. PICK lv, anc : Scoped(lv, anc) /\ LinksOk(lv, anc)
  BY <1>1, ScopeNow
<1>3. OwnersOk
  BY <1>1, ScopeNow
<1>4. PICK w : Running(w)
  BY <1>1 DEF ReaderInv, RunningOk, Running
<1>5. Running(lv)
  BY <1>1, <1>2, <1>4, LinksRun DEF Reads
<1>6. /\ stack = <<1>> /\ pos = 1 /\ crawl \in 2 .. Len(layout) /\ Depth(layout, crawl - 1) = 1
      /\ Kind(1) \in UnitKinds
  BY <1>5 DEF Running, StackOk, MarkersOk
<1>7. Len(layout) \in Nat /\ 1 \in Nodes /\ \A n \in Nodes : n \in 1 .. Len(layout) /\ (n <= 1 => n = 1)
  <2>1. Len(layout) \in Nat /\ Positions = 1 .. Len(layout) /\ \A n \in Nodes : n \in Positions
    BY <1>1, LayoutFacts DEF ReaderTypes
  <2>2. stack \in Seq(Nodes)
    BY <1>1 DEF ReaderTypes
  <2>3. 1 \in Nodes
    BY <2>2, <1>6
  <2> QED BY <2>1, <2>3
<1>8. Met(lv) = {d \in Nodes : TopDecl(d) /\ d < crawl}
  <2>1. ASSUME NEW d \in Nodes, d <= pos, Kind(d) \in {"arg", "decl"} PROVE FALSE
    BY <2>1, <1>6, <1>7 DEF UnitKinds
  <2> QED BY <2>1, <1>6 DEF Met, TopDecl
<1>9. anc \in [Nodes -> SUBSET Nodes]
  BY <1>2 DEF LinksOk
<1> QED BY <1>1, <1>2, <1>3, <1>5, <1>6, <1>7, <1>8, <1>9

\* The crawl ends where the unit does
LEMMA LeaveCrawlNames == ASSUME ReaderInv, ScopeInv, LeaveCrawl PROVE ScopeInv'
<1>1. /\ UNCHANGED <<input, pos, stack, kids, decl, crawl, scopes, errors>>
      /\ status = "crawling" /\ status' = "reading" /\ Kind(crawl) = "marker"
  BY DEF LeaveCrawl, treeVars, scopeVars
<1>2. PICK lv, anc :
        /\ Scoped(lv, anc) /\ Running(lv) /\ ReaderTypes /\ OwnersOk
        /\ stack = <<1>> /\ pos = 1 /\ crawl \in 2 .. Len(layout) /\ Len(layout) \in Nat
        /\ Depth(layout, crawl - 1) = 1 /\ Kind(1) \in UnitKinds /\ 1 \in Nodes
        /\ \A n \in Nodes : n \in 1 .. Len(layout) /\ (n <= 1 => n = 1)
        /\ Met(lv) = {d \in Nodes : TopDecl(d) /\ d < crawl}
        /\ anc \in [Nodes -> SUBSET Nodes]
  BY <1>1, CrawlFacts
<1>3. crawl = Len(layout)
  <2>1. crawl - 1 \in Nat /\ crawl - 1 + 1 = crawl /\ crawl - 1 + 1 \in 1 .. Len(layout)
        /\ crawl \in Nat
    BY <1>2
  <2>2. Depth(layout, crawl) = Depth(layout, crawl - 1) - 1
    BY <2>1, <1>1, DepthStep DEF Kind, RequiresReduceMarker
  <2>3. crawl < Len(layout) => Depth(layout, crawl) > 0
    BY <2>1, <1>2, WellWrittenFacts DEF ReaderTypes
  <2> QED BY <2>2, <2>3, <1>2
<1>4. Met(lv)' = Met(lv)
  <2>1. Nodes' = Nodes /\ \A n : Kind(n)' = Kind(n)
    BY <1>1, SameInput
  <2>2. \A d : (TopDecl(d)' <=> TopDecl(d)) /\ (IsNamedDecl(d)' <=> IsNamedDecl(d))
    BY <1>1, SameWords
  <2>3. \A d \in Nodes : d < crawl
    <3> TAKE d \in Nodes
    <3>1. d # crawl
      BY <1>1 DEF Nodes, Kind
    <3> QED BY <3>1, <1>2, <1>3
  <2>4. ASSUME NEW d \in Nodes, d <= pos, Kind(d) \in {"arg", "decl"} PROVE FALSE
    BY <2>4, <1>2 DEF UnitKinds
  <2>5. Met(lv)' = {d \in Nodes : TopDecl(d)}
    BY <2>1, <2>2, <2>4, <1>1, <1>2 DEF Met, TopDecl
  <2> QED BY <2>3, <2>5, <1>2
<1>5. OwnersOk' /\ Scoped(lv, anc)'
  BY <1>1, <1>2, <1>4, ScopedStays
<1> QED BY <1>5 DEF ScopeInv

\* What is behind a node of the unit, and what the crawl skips
LEMMA CrawlSkips ==
  ASSUME ReaderTypes, crawl \in 2 .. Len(layout), Len(layout) \in Nat, Kind(crawl) # "marker",
         Depth(layout, crawl - 1) = 1
  PROVE  Behind(crawl) \in Nat /\ crawl < Behind(crawl)
         /\ \A d \in Nodes : TopDecl(d) /\ crawl < d => ~(d < Behind(crawl))
<1>1. /\ crawl \in Nat \ {0} /\ WellWritten(layout) /\ Depth(layout, Len(layout)) = 0
      /\ \A n \in Nodes : n \in Nat \ {0}
  BY LayoutFacts, WellWrittenFacts DEF ReaderTypes, InputOk
<1>2. CASE RequiresReduceMarker(Kind(crawl))
  <2> DEFINE Closes(k) == /\ Depth(layout, k) = Depth(layout, crawl - 1)
                          /\ \A j \in crawl .. k - 1 : Depth(layout, j) > Depth(layout, crawl - 1)
             closed == CHOOSE k \in crawl + 1 .. Len(layout) : Closes(k)
  <2>1. \E k \in crawl + 1 .. Len(layout) : Closes(k)
    BY <1>1, <1>2, NodeCloses DEF Kind
  <2>2. closed \in crawl + 1 .. Len(layout) /\ Closes(closed)
    BY <2>1, Zenon
  <2>3. Behind(crawl) = 1 + closed
    BY <1>2 DEF Behind
  <2> HIDE DEF closed
  <2>4. \A j \in crawl .. closed - 1 : Depth(layout, j) > 1
    BY <2>2
  <2> HIDE DEF Closes
  <2>5. Behind(crawl) \in Nat /\ crawl < Behind(crawl)
    BY <2>2, <2>3, <1>1
  <2>6. ASSUME NEW d \in Nodes, TopDecl(d), crawl < d, d < Behind(crawl) PROVE FALSE
    <3>1. d \in Nat /\ closed \in Nat /\ crawl \in Nat
      BY <2>2, <1>1
    <3>2. d - 1 \in crawl .. closed - 1
      BY <3>1, <2>3, <2>6
    <3> QED BY <3>2, <2>4, <2>6 DEF TopDecl
  <2> QED BY <2>5, <2>6
<1>3. CASE ~RequiresReduceMarker(Kind(crawl))
  <2>1. Behind(crawl) = crawl + 1
    BY <1>3 DEF Behind
  <2>2. \A d \in Nodes : crawl < d => ~(d < crawl + 1)
    BY <1>1
  <2> QED BY <2>1, <2>2, <1>1
<1> QED BY <1>2, <1>3

\* A decl of the unit is introduced
LEMMA CrawlIntroduces ==
  ASSUME ReaderTypes, ScopesOk, OwnersOk, stack = << 1 >>, Kind(1) \in UnitKinds,
         NEW d \in Nodes, IsNamedDecl(d), TopDecl(d),
         NEW M, \A e : e \in M <=> e \in Nodes /\ TopDecl(e) /\ e < d,
         NEW R, NEW anc, NamesOk(scopes, M \ R, anc), RefusedOk(M, R, anc),
         anc \in [Nodes -> SUBSET Nodes],
         NEW x, Name(d) = input.instantiated => x = d
  PROVE  Introducible(M, R, anc, anc, d, x)
<1>1. Nodes \subseteq Nat
  BY LayoutFacts DEF ReaderTypes
<1>2. anc[d] \subseteq Nat
  BY <1>1
<1>3. \A e \in Nodes : e < d => ~(d < e) /\ e # d
  <2> TAKE e \in Nodes
  <2>1. e \in Nat /\ d \in Nat
    BY <1>1
  <2> QED BY ONLY <2>1
<1>4. d \notin M /\ \A e \in M : TopDecl(e) /\ ~(d < e) /\ e < d /\ e # d
  BY <1>3
<1>5. Foreign(d, x) <=> ~Welcome(d)
  BY DEF Foreign, Welcome
<1>6. DOMAIN stack = {1} /\ stack[1] = 1
  OBVIOUS
<1>7. \A i \in DOMAIN scopes : scopes[i].owner = 1
  BY <1>6 DEF OwnersOk
<1>8. \E i \in DOMAIN scopes : scopes[i].owner = 1
  <2>1. HoldsScope(Kind(1))
    BY DEF HoldsScope, UnitKinds
  <2> QED BY <2>1, <1>6 DEF OwnersOk
<1>9. \A e : TopDecl(e) => HeldBy(scopes, anc, e)
  BY <1>8 DEF HeldBy, HomeIs
<1>10. \A e \in M : ~Conflict(anc, e, d)
  BY <1>4 DEF Conflict
<1>11. \A e \in M : Conflict(anc, d, e) <=> Name(e) = Name(d) /\ HeldBy(scopes, anc, e)
  BY <1>4, <1>9 DEF Conflict
<1>12. \A t : Target(scopes, t) => HomeIs(anc, scopes[t].owner, d)
  BY <1>7 DEF Target, HomeIs
<1> QED BY <1>2, <1>4, <1>5, <1>10, <1>11, <1>12 DEF Introducible

\* The crawl goes on
LEMMA CrawlNames == ASSUME ReaderInv, ScopeInv, CrawlNode PROVE ScopeInv'
<1>1. /\ UNCHANGED <<units, input, pos, stack, kids, decl, modes, status>>
      /\ status = "crawling" /\ Kind(crawl) # "marker" /\ crawl' = Behind(crawl)
  BY DEF CrawlNode, treeVars
<1>2. PICK lv, anc :
        /\ Scoped(lv, anc) /\ Running(lv) /\ ReaderTypes /\ OwnersOk
        /\ stack = <<1>> /\ pos = 1 /\ crawl \in 2 .. Len(layout) /\ Len(layout) \in Nat
        /\ Depth(layout, crawl - 1) = 1 /\ Kind(1) \in UnitKinds /\ 1 \in Nodes
        /\ \A n \in Nodes : n \in 1 .. Len(layout) /\ (n <= 1 => n = 1)
        /\ Met(lv) = {d \in Nodes : TopDecl(d) /\ d < crawl}
        /\ anc \in [Nodes -> SUBSET Nodes]
  BY <1>1, CrawlFacts
<1>3. ScopesOk /\ ReaderTypes /\ stack # << >>
  BY <1>2 DEF ReaderInv
<1>4. crawl \in Nodes /\ crawl # 1 /\ crawl \in Nat /\ Nodes \subseteq Nat
  <2>1. Positions = 1 .. Len(layout) /\ \A n \in Positions : n \in Nodes <=> Kind(n) # "marker"
    BY <1>3, LayoutFacts DEF ReaderTypes
  <2>2. crawl \in Positions
    BY <2>1, <1>2
  <2> QED BY <2>1, <2>2, <1>1, <1>2
<1>5. TopDecl(crawl) <=> IsNamedDecl(crawl)
  BY <1>2, <1>4 DEF TopDecl
<1>6. Behind(crawl) \in Nat /\ crawl < Behind(crawl)
      /\ \A d \in Nodes : TopDecl(d) /\ crawl < d => ~(d < Behind(crawl))
  BY <1>1, <1>2, CrawlSkips
<1>7. PICK M : M = Met(lv)
  OBVIOUS
<1>8. PICK R : R = Refused
  OBVIOUS
<1>9. NamesOk(scopes, M \ R, anc) /\ RefusedOk(M, R, anc) /\ RefsOk(decl, Unknown, M \ R, lv, anc, pos)
  BY <1>2, <1>7, <1>8 DEF Scoped
<1>10. /\ Nodes' = Nodes /\ (\A n : Kind(n)' = Kind(n))
       /\ \A d : (TopDecl(d)' <=> TopDecl(d)) /\ (IsNamedDecl(d)' <=> IsNamedDecl(d))
  BY <1>1, SameInput, SameWords
<1>11. Met(lv)' = M \cup (IF IsNamedDecl(crawl) THEN {crawl} ELSE {})
  <2>1. ASSUME NEW d \in Nodes, d <= pos, Kind(d) \in {"arg", "decl"} PROVE FALSE
    BY <2>1, <1>2 DEF UnitKinds
  <2>2. Met(lv)' = {d \in Nodes : TopDecl(d) /\ d < Behind(crawl)}
    BY <2>1, <1>1, <1>2, <1>10 DEF Met, TopDecl
  <2>3. \A d \in Nodes : TopDecl(d) => (d < Behind(crawl) <=> d < crawl \/ d = crawl)
    <3> TAKE d \in Nodes
    <3> HAVE TopDecl(d)
    <3>1. d \in Nat /\ crawl \in Nat /\ Behind(crawl) \in Nat /\ crawl < Behind(crawl)
          /\ (crawl < d => ~(d < Behind(crawl)))
      BY <1>4, <1>6
    <3> QED BY ONLY <3>1
  <2> QED BY <2>2, <2>3, <1>2, <1>4, <1>5, <1>7
<1>12. LinksOk(lv, anc)' /\ OpenOk(anc)' /\ TopsOk(anc)'
  BY <1>1, <1>2, TreeStays DEF Scoped
<1>13. \A r \in Nodes : r <= 1 => Kind(r) # "ref"
  BY <1>2 DEF UnitKinds
<1>14. PICK node : node = IF IsNamedDecl(crawl) /\ Name(crawl) = input.instantiated
                          THEN crawl ELSE exported
  OBVIOUS
<1>15. CASE IsNamedDecl(crawl)
  <2>1. PICK s : s = Introduce(Scoping, crawl, node)
    OBVIOUS
  <2>2. scopes' = s.scopes /\ errors' = s.errors
    BY <2>1, <1>14, <1>15 DEF CrawlNode, Becomes
  <2>3. SameScopes(scopes, scopes')
    BY <2>1, <2>2, <1>3, <1>4, <1>15, Introduced
  <2>4. PICK d : d = crawl
    OBVIOUS
  <2>5. /\ d \in Nodes /\ IsNamedDecl(d) /\ TopDecl(d)
        /\ \A e : e \in M <=> e \in Nodes /\ TopDecl(e) /\ e < d
        /\ Name(d) = input.instantiated => node = d
    BY <2>4, <1>2, <1>4, <1>5, <1>7, <1>14, <1>15
  <2>6. Introducible(M, R, anc, anc, d, node)
    BY <2>5, <1>2, <1>3, <1>9, CrawlIntroduces
  <2>7. PICK Q : Q = {e \in Nodes : <<"declaredAlready", e>> \in s.errors}
    OBVIOUS
  <2>8. s = Introduce(Scoping, d, node) /\ scopes # << >> /\ scopes[1].kind # "inplace" /\ OwnersOk
    BY <2>1, <2>4, <1>2, <1>3, ScopeOfUnit
  <2>9. /\ NamesOk(s.scopes, (M \cup {d}) \ Q, anc) /\ RefusedOk(M \cup {d}, Q, anc)
        /\ \A r : <<"unknown", r>> \in s.errors <=> <<"unknown", r>> \in errors
    BY ONLY <2>6, <2>7, <2>8, <1>3, <1>8, IntroduceScoped
  <2>10. Refused' = Q /\ Unknown' = Unknown
    BY <2>2, <2>7, <2>9, <1>10 DEF Refused, Unknown
  <2>11. PICK N, W : N = Met(lv)' /\ W = Unknown'
    OBVIOUS
  <2>12. N = M \cup {d} /\ W = Unknown
    BY <2>4, <2>10, <2>11, <1>11, <1>15
  <2>13. RefsOk(decl', W, N \ Q, lv, anc, pos')
    BY <2>12, <1>1, <1>2, <1>9, <1>13 DEF RefsOk
  <2>14. Scoped(lv, anc)'
    BY <2>2, <2>9, <2>10, <2>11, <2>12, <2>13, <1>1, <1>12, ScopedBehind
  <2>15. OwnersOk'
    <3>1. OwnersFit(scopes, stack) /\ scopes \in Seq(ScopeType)
      BY <1>2, <1>3, OwnersFitBehind, ScopingFields DEF ReaderTypes
    <3>2. OwnersFit(scopes', stack)
      BY <3>1, <2>3, OwnersSame
    <3> QED BY <3>2, <1>1, OwnersFitBehind
  <2> QED BY <2>14, <2>15 DEF ScopeInv
<1>16. CASE ~IsNamedDecl(crawl)
  <2>1. scopes' = scopes /\ errors' = errors
    BY <1>16 DEF CrawlNode, scopeVars
  <2>2. Met(lv)' = Met(lv)
    BY <1>7, <1>11, <1>16
  <2>3. OwnersOk' /\ Scoped(lv, anc)'
    BY <2>1, <2>2, <1>1, <1>2, ScopedStays
  <2> QED BY <2>3 DEF ScopeInv
<1> QED BY <1>15, <1>16

(***************************************************************************)
(* A method returns: a variable is introduced behind its expression.       *)
(***************************************************************************)
\* What a method leaves in the scopes and the errors
LEMMA FinishedFacts ==
  ASSUME ReaderTypes, ScopesOk, stack # << >>, Becomes(Finished(Top)),
         NEW s, s = IF Kind(Top) = "decl" /\ MayIntroduce
                    THEN Introduce(Scoping, Top, exported) ELSE Scoping
  PROVE  /\ scopes' = IF HoldsScope(Kind(Top)) THEN Front(s.scopes) ELSE s.scopes
         /\ errors' = s.errors
<1>1. Top \in Nodes
  BY FrontSeq DEF ReaderTypes, Top
<1>3. s \in ScopingType
  <2>1. CASE Kind(Top) = "decl" /\ MayIntroduce
    <3>1. IsNamedDecl(Top)
      <4>1. Name(Top) \in Names
        BY <2>1, <1>1, WellWrittenFacts DEF ReaderTypes
      <4> QED BY <2>1, <4>1, NamesAssumption DEF IsNamedDecl, NamedKinds
    <3> QED BY <2>1, <3>1, <1>1, Introduced
  <2>2. CASE ~(Kind(Top) = "decl" /\ MayIntroduce)
    <3>1. s = Scoping
      BY <2>2
    <3> QED BY <3>1 DEF ReaderTypes
  <2> QED BY <2>1, <2>2
<1>4. PICK sc, ex, er : s = [scopes |-> sc, exports |-> ex, errors |-> er]
  BY <1>3 DEF ScopingType
<1>6. PICK z : z = IF HoldsScope(Kind(Top)) THEN Front(sc) ELSE sc
  OBVIOUS
<1>7. LeaveScope(Kind(Top), s) = [scopes |-> z, exports |-> ex, errors |-> er]
  <2>1. CASE HoldsScope(Kind(Top))
    <3>1. [s EXCEPT !.scopes = Front(@)] = [scopes |-> Front(sc), exports |-> ex, errors |-> er]
      BY <1>4
    <3> QED BY <2>1, <3>1, <1>6 DEF LeaveScope
  <2>2. CASE ~HoldsScope(Kind(Top))
    BY <2>2, <1>4, <1>6 DEF LeaveScope
  <2> QED BY <2>1, <2>2
<1>8. PICK f : f = LeaveScope(Kind(Top), s)
  OBVIOUS
<1>9. scopes' = z /\ errors' = er
  <2>1. Becomes(f)
    BY <1>8 DEF Finished
  <2> QED BY <2>1, <1>7, <1>8 DEF Becomes
<1>10. s.scopes = sc /\ s.errors = er
  BY <1>4
<1> QED BY <1>6, <1>9, <1>10

\* The variable whose method returns
LEMMA DeclFacts ==
  ASSUME NEW lv, NEW anc, Returns(lv), LinksOk(lv, anc), TopsOk(anc), Kind(Top) = "decl"
  PROVE  /\ Top \notin Met(lv) /\ ~TopDecl(Top) /\ IsNamedDecl(Top)
         /\ MayIntroduce <=> lv[Top] # "InsideMetaDecl"
<1>1. Top \in Nodes /\ Top <= pos /\ stack # << >>
  BY ReturnFacts
<1>2. ~TopDecl(Top)
  BY <1>1, NotTop DEF Reads, Returns
<1>3. IsNamedDecl(Top)
  <2>1. Name(Top) \in Names
    BY <1>1, WellWrittenFacts DEF Returns, ReaderTypes
  <2> QED BY <2>1, NamesAssumption DEF IsNamedDecl, NamedKinds
<1>4. Top \notin Met(lv)
  <2>1. PICK m : m = Len(stack) - 1
    OBVIOUS
  <2>2. m \in Nat /\ DOMAIN stack = 1 .. m + 1 /\ Top = stack[m + 1]
    BY <2>1, PoppedStack
  <2>3. \E i \in DOMAIN stack : stack[i] = Top
    BY <2>2
  <2> QED BY <2>3, <1>2, MetFacts
<1>5. MayIntroduce <=> lv[Top] # "InsideMetaDecl"
  <2>1. modes = ModesOf(NextLevel(lv)) /\ lv[Top] \in Levels
    BY <1>1 DEF Returns, Running, LevelsOk
  <2>2. NextLevel(lv) = lv[Top]
    BY <1>1 DEF NextLevel, LevelBefore
  <2>3. Mode(modes) = lv[Top]
    BY <2>1, <2>2, ModeOfLevel
  <2> QED BY <2>3 DEF MayIntroduce
<1> QED BY <1>2, <1>3, <1>4, <1>5

\* What was met behind it
LEMMA PoppedMet ==
  ASSUME NEW lv, NEW anc, Returns(lv), LinksOk(lv, anc), TopsOk(anc)
  PROVE  Met(lv)' = Met(lv) \cup (IF Kind(Top) = "decl" /\ lv[Top] # "InsideMetaDecl"
                                  THEN {Top} ELSE {})
<1>1. PICK m : m = Len(stack) - 1
  OBVIOUS
<1>2. /\ m \in Nat /\ DOMAIN stack = 1 .. m + 1 /\ DOMAIN stack' = 1 .. m
      /\ Top = stack[m + 1]
      /\ \A i \in 1 .. m : stack'[i] = stack[i] /\ stack[i] < Top
  BY <1>1, PoppedStack
<1>3. /\ Top \in Nodes /\ Top <= pos /\ pos \in Nat \ {0} /\ pos' \in Nat \ {0} /\ status = "reading"
      /\ \A n \in Nodes : n <= pos' <=> n <= pos
  <2>1. /\ Top \in Nodes /\ Top \in Nat \ {0} /\ Top <= pos /\ pos \in Nat /\ status = "reading"
        /\ pos' = pos + Marked(Kind(Top)) /\ Nodes \subseteq Nat \ {0}
        /\ \A n \in Nodes : n <= pos' => n <= pos
    BY ReturnFacts
  <2>2. Marked(Kind(Top)) \in {0, 1}
    BY DEF Marked
  <2> QED BY <2>1, <2>2
<1>4. status' # "crawling" /\ input' = input /\ Nodes' = Nodes /\ \A n : Kind(n)' = Kind(n)
  <2>1. input' = input
    BY DEF Returns, Finish
  <2>2. m = 0 => status' = "read"
    BY <1>1, GivenChild
  <2>3. m # 0 => status' = "reading"
    BY <1>1, GivenChild
  <2> QED BY <2>1, <2>2, <2>3, SameInput
<1>5. \A d : (TopDecl(d)' <=> TopDecl(d)) /\ (IsNamedDecl(d)' <=> IsNamedDecl(d))
  BY <1>4, SameWords
<1>6. \A d \in Nodes : d # Top => ((\A i \in DOMAIN stack' : stack'[i] # d)
                                    <=> \A i \in DOMAIN stack : stack[i] # d)
  <2>1. \A i \in 1 .. m + 1 : i = m + 1 \/ i \in 1 .. m
    BY <1>2
  <2>2. \A i \in 1 .. m : i \in 1 .. m + 1
    BY <1>2
  <2> QED BY <2>1, <2>2, <1>2
<1>7. ASSUME NEW d \in Nodes, d # Top PROVE d \in Met(lv)' <=> d \in Met(lv)
  BY <1>3, <1>4, <1>5, <1>6, <1>7 DEF Met
<1>8. CASE Kind(Top) = "decl"
  <2>1. Top \notin Met(lv) /\ ~TopDecl(Top) /\ IsNamedDecl(Top)
    BY <1>8, DeclFacts
  <2>2. \A i \in DOMAIN stack' : stack'[i] # Top
    <3>1. Top \in Nat /\ \A i \in 1 .. m : stack[i] \in Nat
      BY <1>1, PoppedStack, ReturnFacts
    <3> QED BY <3>1, <1>2
  <2>3. Top \in Met(lv)' <=> lv[Top] # "InsideMetaDecl"
    BY <2>1, <2>2, <1>3, <1>4, <1>5, <1>8 DEF Met
  <2>4. Met(lv)' \subseteq Nodes /\ Met(lv) \subseteq Nodes
    BY <1>4 DEF Met
  <2> QED BY <2>1, <2>3, <2>4, <1>3, <1>7, <1>8
<1>9. CASE Kind(Top) # "decl"
  <2>1. Top \in Met(lv)' <=> Top \in Met(lv)
    BY <1>3, <1>4, <1>5, <1>9 DEF Met
  <2>2. Met(lv)' \subseteq Nodes /\ Met(lv) \subseteq Nodes
    BY <1>4 DEF Met
  <2> QED BY <2>1, <2>2, <1>7, <1>9
<1> QED BY <1>8, <1>9

\* The owners of the scopes that are left
LEMMA ReturnOwners ==
  ASSUME NEW lv, Returns(lv), ScopesOk, OwnersOk PROVE OwnersOk'
<1>1. /\ ReaderTypes /\ stack # << >> /\ Becomes(Finished(Top)) /\ input' = input
  BY ReturnFacts DEF Returns, Finish
<1>2. PICK t : /\ SameScopes(scopes, t)
               /\ scopes' = IF HoldsScope(Kind(Top)) THEN Front(t) ELSE t
  BY <1>1, FinishedScoping
<1>3. OwnersFit(scopes, stack) /\ scopes \in Seq(ScopeType) /\ stack \in Seq(Nodes)
  BY <1>1, OwnersFitBehind, ScopingFields DEF ReaderTypes
<1>4. OwnersFit(t, stack) /\ t \in Seq(ScopeType)
  BY <1>2, <1>3, OwnersSame DEF SameScopes
<1>5. PICK m : m = Len(stack) - 1
  OBVIOUS
<1>6. /\ OneMore(stack', stack, Top) /\ stack' \in Seq(Nodes) /\ DOMAIN stack' = 1 .. m
      /\ \A i \in 1 .. m : stack'[i] = stack[i] /\ stack[i] < Top
  BY <1>5, PoppedStack
<1>7. \A i \in DOMAIN stack' : stack'[i] < Top
  BY <1>6
<1>8. Top \in Nodes /\ Nodes \subseteq Nat
  BY ReturnFacts
<1>9. OwnersFit(scopes', stack')
  <2>1. CASE HoldsScope(Kind(Top))
    <3>1. OwnersFit(Front(t), stack')
      BY ONLY <2>1, <1>3, <1>4, <1>6, <1>7, <1>8, OwnersLeft
    <3> QED BY <3>1, <2>1, <1>2
  <2>2. CASE ~HoldsScope(Kind(Top))
    <3>1. OwnersFit(t, stack')
      BY ONLY <2>2, <1>3, <1>4, <1>6, OwnersBare
    <3> QED BY <3>1, <2>2, <1>2
  <2> QED BY <2>1, <2>2
<1> QED BY <1>1, <1>9, OwnersFitBehind

\* What is known when a method returns
LEMMA ReturnTree ==
  ASSUME NEW lv, NEW anc, Returns(lv), Scoped(lv, anc)
  PROVE  /\ LinksOk(lv, anc) /\ OpenOk(anc) /\ TopsOk(anc)
         /\ LinksOk(lv, anc)' /\ OpenOk(anc)' /\ TopsOk(anc)'
         /\ input' = input /\ decl' = decl /\ Nodes' = Nodes /\ ReaderTypes /\ stack # << >>
         /\ Becomes(Finished(Top)) /\ pos \in Nat /\ pos' \in Nat /\ pos <= pos'
         /\ Nodes \subseteq Nat /\ Top \in Nodes /\ Top <= pos
         /\ \A n \in Nodes : ~(n > pos /\ n <= pos')
<1>1. LinksOk(lv, anc) /\ OpenOk(anc) /\ TopsOk(anc)
  BY DEF Scoped
<1>2. LinksOk(lv, anc)'
  BY <1>1, PoppedLinks
<1>3. OpenOk(anc)' /\ TopsOk(anc)'
  BY <1>1, PoppedOpen
<1>4. input' = input /\ decl' = decl /\ ReaderTypes /\ Becomes(Finished(Top))
  BY DEF Returns, Finish
<1>5. /\ Top \in Nodes /\ Top <= pos /\ pos \in Nat /\ stack # << >>
      /\ pos' = pos + Marked(Kind(Top)) /\ Nodes \subseteq Nat \ {0}
      /\ \A n \in Nodes : n <= pos' => n <= pos
  BY ReturnFacts
<1>6. Marked(Kind(Top)) \in {0, 1}
  BY DEF Marked
<1>7. pos' \in Nat /\ pos <= pos'
  BY <1>5, <1>6
<1>8. \A n \in Nodes : ~(n > pos /\ n <= pos')
  BY <1>5
<1>9. Nodes' = Nodes
  BY <1>4, SameInput
<1> QED BY <1>1, <1>2, <1>3, <1>4, <1>5, <1>7, <1>8, <1>9

\* A method returns that introduces nothing
LEMMA QuietReturn ==
  ASSUME NEW lv, NEW anc, Returns(lv), ScopesOk, OwnersOk, Scoped(lv, anc),
         ~(Kind(Top) = "decl" /\ MayIntroduce)
  PROVE  Scoped(lv, anc)'
<1>1. /\ LinksOk(lv, anc) /\ OpenOk(anc) /\ TopsOk(anc)
      /\ LinksOk(lv, anc)' /\ OpenOk(anc)' /\ TopsOk(anc)'
      /\ input' = input /\ decl' = decl /\ Nodes' = Nodes /\ ReaderTypes /\ stack # << >>
      /\ Becomes(Finished(Top)) /\ pos \in Nat /\ pos' \in Nat /\ pos <= pos'
      /\ Nodes \subseteq Nat /\ \A n \in Nodes : ~(n > pos /\ n <= pos')
  BY ReturnTree
<1>2. scopes' = (IF HoldsScope(Kind(Top)) THEN Front(scopes) ELSE scopes) /\ errors' = errors
  <2>1. PICK s : s = IF Kind(Top) = "decl" /\ MayIntroduce
                     THEN Introduce(Scoping, Top, exported) ELSE Scoping
    OBVIOUS
  <2>2. s.scopes = scopes /\ s.errors = errors
    BY <2>1, ScopingFields
  <2>3. /\ scopes' = IF HoldsScope(Kind(Top)) THEN Front(s.scopes) ELSE s.scopes
        /\ errors' = s.errors
    BY <2>1, <1>1, FinishedFacts
  <2> QED BY <2>2, <2>3
<1>3. Met(lv)' = Met(lv)
  <2>1. ~(Kind(Top) = "decl" /\ lv[Top] # "InsideMetaDecl")
    BY <1>1, DeclFacts
  <2> QED BY <2>1, <1>1, PoppedMet
<1>4. Refused' = Refused /\ Unknown' = Unknown
  BY <1>1, <1>2 DEF Refused, Unknown
<1>5. PICK M, Q, W : M = Met(lv)' /\ Q = Refused' /\ W = Unknown'
  OBVIOUS
<1>6. NamesOk(scopes, M \ Q, anc) /\ RefusedOk(M, Q, anc) /\ RefsOk(decl, W, M \ Q, lv, anc, pos)
  BY <1>3, <1>4, <1>5 DEF Scoped
<1>7. NamesOk(scopes', M \ Q, anc)
  <2>1. scopes \in Seq(ScopeType) /\ scopes # << >>
    BY <1>1, ScopeOfUnit, ScopingFields DEF ReaderTypes
  <2>2. NamesOk(Front(scopes), M \ Q, anc)
    BY ONLY <2>1, <1>6, PoppedNames
  <2> QED BY <2>2, <1>2, <1>6
<1>8. RefsOk(decl', W, M \ Q, lv, anc, pos')
  <2>1. Kept(decl, W, M \ Q, lv, anc, decl, W, M \ Q, lv, anc, pos)
    BY <1>4, <1>5 DEF Kept, Unknown
  <2>2. NewlyResolved(decl, W, M \ Q, lv, anc, pos, pos')
    BY <1>1 DEF NewlyResolved
  <2>3. PICK T, more : T = M \ Q /\ more = pos'
    OBVIOUS
  <2>4. RefsOk(decl, W, T, lv, anc, more)
    BY <2>1, <2>2, <2>3, <1>1, <1>6, RefsStay
  <2> QED BY <2>3, <2>4, <1>1
<1> QED BY <1>1, <1>5, <1>6, <1>7, <1>8, ScopedBehind

\* The variable that is introduced when its method returns
LEMMA ReturnIntroduces ==
  ASSUME NEW lv, NEW anc, Returns(lv), OwnersOk, Scoped(lv, anc),
         Kind(Top) = "decl", NEW M, M = Met(lv), NEW R, R = Refused, NEW d, d = Top, NEW x
  PROVE  Introducible(M, R, anc, anc, d, x)
<1>1. /\ LinksOk(lv, anc) /\ OpenOk(anc) /\ TopsOk(anc)
      /\ ReaderTypes /\ stack # << >> /\ pos \in Nat
      /\ Nodes \subseteq Nat /\ Top \in Nodes /\ Top <= pos
  BY ReturnTree
<1>2. Reads(lv, anc)
  BY <1>1 DEF Reads, Returns
<1>3. d \notin M /\ ~TopDecl(d) /\ IsNamedDecl(d)
  BY <1>1, DeclFacts
<1>4. NamesOk(scopes, M \ R, anc) /\ RefusedOk(M, R, anc)
  BY DEF Scoped
<1>5. anc[d] = OnStack
  <2>1. PICK k \in Nat \ {0} : k = Len(stack)
    BY <1>1, <1>2, ReadFacts DEF Reads
  <2>2. k \in 1 .. Len(stack) /\ Top = stack[k] /\ DOMAIN stack = 1 .. k
    BY <2>1, <1>1, <1>2, ReadFacts DEF Reads
  <2>3. anc[stack[k]] = {stack[j] : j \in 1 .. k}
    BY <2>2, <1>2, StackAround
  <2> QED BY <2>2, <2>3 DEF OnStack
<1>6. anc[d] \subseteq Nat
  BY <1>1 DEF LinksOk
<1>7. Foreign(d, x) <=> ~Welcome(d)
  <2>1. Kind(d) \notin TopLevelKinds
    BY DEF TopLevelKinds
  <2> QED BY <2>1, <1>3 DEF Foreign, Welcome
<1>8. \A e \in M : ~Conflict(anc, e, d)
  <2> TAKE e \in M
  <2>1. CASE TopDecl(e)
    BY <2>1, <1>3 DEF Conflict
  <2>2. CASE ~TopDecl(e)
    <3>1. e \in Nodes /\ e <= pos
      BY <2>2, MetFacts
    <3>2. d < e => d \in anc[e]
      <4>1. \E k \in DOMAIN stack : stack[k] = d
        <5>1. PICK k \in Nat \ {0} : k = Len(stack)
          BY <1>1, <1>2, ReadFacts DEF Reads
        <5> QED BY <5>1, <1>1, <1>2, ReadFacts DEF Reads
      <4>2. d < e => d <= e
        BY <1>1, <3>1
      <4> QED BY <4>1, <4>2, <3>1, <1>1 DEF OpenOk
    <3> QED BY <3>2, <2>2, <1>3 DEF Conflict, Visible
  <2> QED BY <2>1, <2>2
<1>9. \A e \in M : Conflict(anc, d, e) <=> Name(e) = Name(d) /\ HeldBy(scopes, anc, e)
  <2> TAKE e \in M
  <2>1. Visible(anc, e, d) <=> HeldBy(scopes, anc, e)
    BY <1>1, <1>2, SeenFromDecl
  <2> QED BY <2>1, <1>3 DEF Conflict
<1>10. \A t : Target(scopes, t) => HomeIs(anc, scopes[t].owner, d)
  <2>1. \A h : Opens(h) => (h \in anc[d] \ {d} <=> \E k \in DOMAIN stack : stack[k] = h)
    <3>1. ~Opens(d)
      BY DEF Opens, HoldsScope
    <3> QED BY <3>1, <1>5 DEF OnStack
  <2> QED BY <2>1, <1>1, <1>3, TargetHome
<1> QED BY <1>1, <1>3, <1>4, <1>6, <1>7, <1>8, <1>9, <1>10 DEF Introducible

\* A variable is introduced
LEMMA DeclReturn ==
  ASSUME NEW lv, NEW anc, Returns(lv), ScopesOk, OwnersOk, Scoped(lv, anc),
         Kind(Top) = "decl", MayIntroduce
  PROVE  Scoped(lv, anc)'
<1>1. /\ LinksOk(lv, anc) /\ OpenOk(anc) /\ TopsOk(anc)
      /\ LinksOk(lv, anc)' /\ OpenOk(anc)' /\ TopsOk(anc)'
      /\ input' = input /\ decl' = decl /\ Nodes' = Nodes /\ ReaderTypes /\ stack # << >>
      /\ Becomes(Finished(Top)) /\ pos \in Nat /\ pos' \in Nat /\ pos <= pos'
      /\ Nodes \subseteq Nat /\ Top \in Nodes /\ Top <= pos
      /\ \A n \in Nodes : ~(n > pos /\ n <= pos')
  BY ReturnTree
<1>2. PICK d, x : d = Top /\ x = exported
  OBVIOUS
<1>3. PICK s : s = Introduce(Scoping, d, x)
  OBVIOUS
<1>4. scopes' = s.scopes /\ errors' = s.errors
  <2>1. s = IF Kind(Top) = "decl" /\ MayIntroduce
            THEN Introduce(Scoping, Top, exported) ELSE Scoping
    BY <1>2, <1>3
  <2>2. /\ scopes' = IF HoldsScope(Kind(Top)) THEN Front(s.scopes) ELSE s.scopes
        /\ errors' = s.errors
    BY <2>1, <1>1, FinishedFacts
  <2> QED BY <2>2 DEF HoldsScope
<1>5. PICK M, R, Q : M = Met(lv) /\ R = Refused
                     /\ Q = {e \in Nodes : <<"declaredAlready", e>> \in s.errors}
  OBVIOUS
<1>6. d \notin M /\ ~TopDecl(d) /\ lv[d] # "InsideMetaDecl"
  BY <1>1, <1>2, <1>5, DeclFacts
<1>7. Met(lv)' = M \cup {d}
  BY <1>1, <1>2, <1>5, <1>6, PoppedMet
<1>8. /\ NamesOk(s.scopes, (M \cup {d}) \ Q, anc) /\ RefusedOk(M \cup {d}, Q, anc)
      /\ \A r : <<"unknown", r>> \in s.errors <=> <<"unknown", r>> \in errors
  <2>1. Introducible(M, R, anc, anc, d, x)
    BY <1>2, <1>5, ReturnIntroduces
  <2>2. scopes # << >> /\ scopes[1].kind # "inplace"
    BY <1>1, ScopeOfUnit
  <2> QED BY ONLY <2>1, <2>2, <1>1, <1>3, <1>5, OwnersOk, IntroduceScoped
<1>9. Refused' = Q /\ Unknown' = Unknown
  BY <1>1, <1>4, <1>5, <1>8 DEF Refused, Unknown
<1>10. PICK N, W : N = Met(lv)' /\ W = Unknown'
  OBVIOUS
<1>11. RefsOk(decl, W, M \ R, lv, anc, pos) /\ W = Unknown
  BY <1>5, <1>9, <1>10 DEF Scoped
<1>12. \A e : e # d => (e \in N \ Q <=> e \in M \ R)
  <2>1. \A e \in M : e \in Q <=> e \in R
    <3>1. IF Taken(d) \/ Foreign(d, x)
          THEN s.errors = errors \cup {<<"declaredAlready", d>>} ELSE s.errors = errors
      <4>1. IsNamedDecl(d) /\ d \in Nodes
        BY <1>1, <1>2, DeclFacts
      <4>2. scopes # << >> /\ scopes[1].kind # "inplace"
        BY <1>1, ScopeOfUnit
      <4> QED BY <4>1, <4>2, <1>1, <1>3, IntroduceFacts
    <3>2. d \notin R /\ M \subseteq Nodes
      BY <1>5, <1>6 DEF Scoped, RefusedOk, Met
    <3>3. \A e \in Nodes : e # d => (e \in Q <=> e \in R)
      BY <3>1, <1>5 DEF Refused
    <3> QED BY <3>2, <3>3, <1>6
  <2> QED BY <2>1, <1>7, <1>10
<1>13. RefsOk(decl', W, N \ Q, lv, anc, pos')
  <2>1. \A r \in Nodes : r <= pos => ~Visible(anc, d, r)
    <3> TAKE r \in Nodes
    <3> HAVE r <= pos
    <3>1. \E k \in DOMAIN stack : stack[k] = d
      <4>1. PICK m : m = Len(stack) - 1
        OBVIOUS
      <4> QED BY <4>1, <1>2, PoppedStack
    <3>2. d < r => d <= r
      BY <1>1, <1>2
    <3>3. d < r => d \in anc[r]
      BY <3>1, <3>2, <1>1 DEF OpenOk
    <3> QED BY <3>3, <1>6 DEF Visible
  <2>2. PICK T, V, more : T = M \ R /\ V = N \ Q /\ more = pos'
    OBVIOUS
  <2>3. \A r \in Nodes : r <= pos => \A e : e \in V /\ Visible(anc, e, r) <=> e \in T /\ Visible(anc, e, r)
    BY <2>1, <2>2, <1>12
  <2>4. Kept(decl, W, T, lv, anc, decl, W, V, lv, anc, pos)
    BY <2>3, <1>11 DEF Kept, Unknown
  <2>5. NewlyResolved(decl, W, V, lv, anc, pos, more)
    BY <2>2, <1>1 DEF NewlyResolved
  <2>6. RefsOk(decl, W, V, lv, anc, more)
    BY <2>2, <2>4, <2>5, <1>1, <1>11, RefsStay
  <2> QED BY <2>2, <2>6, <1>1
<1>14. NamesOk(scopes', N \ Q, anc) /\ RefusedOk(N, Q, anc)
  BY <1>4, <1>7, <1>8, <1>10
<1>15. Q = Refused'
  BY <1>9
<1> QED BY <1>1, <1>10, <1>13, <1>14, <1>15, ScopedBehind

\* A method returns
LEMMA FinishNames == ASSUME ReaderInv, ScopeInv, Finish PROVE ScopeInv'
<1> SUFFICES ASSUME status' \notin Failures PROVE ScopeInv'
  BY DEF ScopeInv
<1>1. status = "reading" /\ status \notin Failures /\ ReaderTypes /\ ScopesOk
  BY DEF Finish, Reading, Failures, ReaderInv
<1>2. PICK lv, anc : Scoped(lv, anc) /\ LinksOk(lv, anc)
  BY <1>1, ScopeNow
<1>3. OwnersOk
  BY <1>1, ScopeNow
<1>4. PICK w : Running(w)
  BY <1>1 DEF ReaderInv, RunningOk, Running
<1>5. Returns(lv)
  BY <1>1, <1>2, <1>4, LinksRun DEF Reads, Returns
<1>6. OwnersOk'
  BY <1>1, <1>3, <1>5, ReturnOwners
<1>7. Scoped(lv, anc)'
  <2>1. CASE Kind(Top) = "decl" /\ MayIntroduce
    BY <2>1, <1>1, <1>2, <1>3, <1>5, DeclReturn
  <2>2. CASE ~(Kind(Top) = "decl" /\ MayIntroduce)
    BY <2>2, <1>1, <1>2, <1>3, <1>5, QuietReturn
  <2> QED BY <2>1, <2>2
<1> QED BY <1>6, <1>7 DEF ScopeInv

\* There is no node that fits
LEMMA RejectNames == ASSUME Reject PROVE ScopeInv'
BY DEF Reject, ScopeInv, Failures

\* What a meta decl contributes is read anew
LEMMA InstantiateNames == ASSUME ReaderInv, Instantiate PROVE ScopeInv'
BY InstantiateFresh, FreshNamesBehind

\* All steps of the reader
LEMMA ScopeStep == ASSUME ReaderInv, ScopeInv, Read \/ Instantiate PROVE ScopeInv'
BY UnitNames, CrawlNames, LeaveCrawlNames, ScopedNames, MetaIfNames, MetaCalculationNames,
   ArgumentNames, DeclRefNames, OtherNames, RejectNames, FinishNames, InstantiateNames DEF Read

(***************************************************************************)
(* When the layout is read, what the invariant says is what the tree says. *)
(***************************************************************************)
ScopesRead(lv, anc) == TreeRead(lv) /\ OwnersOk /\ Scoped(lv, anc)

\* Everything was consumed, and no method runs
LEMMA ReadWhole ==
  ASSUME NEW lv, NEW anc, ScopesRead(lv, anc)
  PROVE  /\ TreeRead(lv) /\ Reads(lv, anc) /\ LinksOk(lv, anc) /\ TopsOk(anc)
         /\ stack = << >> /\ status = "read" /\ pos \in Nat /\ pos > 0 /\ Kind(1) \in UnitKinds
         /\ Nodes \subseteq Nat \ {0} /\ 1 \in Nodes /\ \A n \in Nodes : n <= pos
         /\ anc[1] = {1} /\ anc \in [Nodes -> SUBSET Nodes]
         /\ \A n \in Nodes : AroundOk(lv, anc, n)
         /\ \A p \in Nodes : \A k \in DOMAIN kids[p] :
              kids[p][k] \in Nodes /\ anc[kids[p][k]] = anc[p] \cup {kids[p][k]}
<1>1. TreeRead(lv) /\ LinksOk(lv, anc) /\ TopsOk(anc)
  BY DEF ScopesRead, Scoped
<1>2. Reads(lv, anc)
  BY <1>1 DEF Reads, TreeRead
<1>3. PICK m : /\ m = Len(layout) /\ m \in Nat \ {0} /\ Positions = 1 .. m
               /\ \A n \in Nodes : n \in Positions
  BY <1>1, LayoutFacts DEF TreeRead, ReaderTypes
<1>4. pos = m /\ stack = << >> /\ pos > 0 /\ Kind(1) \in UnitKinds /\ status = "read"
  BY <1>1, <1>3 DEF TreeRead, Running, StackOk
<1>5. Nodes \subseteq Nat \ {0} /\ 1 \in Nodes
  BY <1>1, TreeFacts
<1>6. \A n \in Nodes : n <= pos
  BY <1>3, <1>4
<1>7. anc[1] = {1} /\ anc \in [Nodes -> SUBSET Nodes]
  BY <1>1, <1>4 DEF LinksOk
<1>8. \A n \in Nodes : AroundOk(lv, anc, n)
  BY <1>2, <1>6, Around
<1>9. \A p \in Nodes : \A k \in DOMAIN kids[p] :
        kids[p][k] \in Nodes /\ anc[kids[p][k]] = anc[p] \cup {kids[p][k]}
  BY <1>1, TreeFacts DEF LinksOk, Linked
<1> QED BY <1>1, <1>2, <1>3, <1>4, <1>5, <1>6, <1>7, <1>8, <1>9

\* The nodes around a node are those it is below of
LEMMA AroundBelow ==
  ASSUME NEW lv, NEW anc, ScopesRead(lv, anc)
  PROVE  \A n, a \in Nodes : a \in anc[n] <=> n \in Below[a]
<1>1. /\ TreeRead(lv) /\ 1 \in Nodes /\ anc[1] = {1} /\ anc \in [Nodes -> SUBSET Nodes]
      /\ \A n \in Nodes : n \in anc[n]
      /\ \A p \in Nodes : \A k \in DOMAIN kids[p] :
           kids[p][k] \in Nodes /\ anc[kids[p][k]] = anc[p] \cup {kids[p][k]}
  BY ReadWhole DEF AroundOk
<1>2. ASSUME NEW a \in Nodes PROVE \A n \in Below[a] : a \in anc[n]
  <2>1. PICK X : X = {n \in Nodes : a \in anc[n]}
    OBVIOUS
  <2>2. X \in SUBSET Nodes /\ a \in X
    BY <2>1, <1>1
  <2>3. \A p \in X : \A k \in DOMAIN kids[p] : kids[p][k] \in X
    BY <2>1, <1>1
  <2>4. Below[a] \subseteq X
    BY <2>2, <2>3, <1>1, BelowLeast
  <2> QED BY <2>1, <2>4
<1>3. \A n \in Nodes : \A a \in anc[n] : n \in Below[a]
  <2>1. PICK B : B = {n \in Nodes : \A a \in anc[n] : n \in Below[a]}
    OBVIOUS
  <2>2. B \in SUBSET Nodes /\ 1 \in B
    BY <2>1, <1>1, BelowSelf
  <2>3. ASSUME NEW p \in B, NEW k \in DOMAIN kids[p] PROVE kids[p][k] \in B
    <3>1. PICK c : c = kids[p][k]
      OBVIOUS
    <3>2. p \in Nodes /\ c \in Nodes /\ anc[c] = anc[p] \cup {c}
      BY <3>1, <2>1, <1>1
    <3>3. c \in Below[c]
      BY <3>2, <1>1, BelowSelf
    <3>4. ASSUME NEW a \in anc[p] PROVE c \in Below[a]
      <4>1. p \in Below[a] /\ a \in Nodes
        BY <2>1, <3>2, <1>1
      <4> QED BY <4>1, <3>1, <1>1, BelowKids
    <3> QED BY <3>1, <3>2, <3>3, <3>4, <2>1
  <2>4. B = Nodes
    BY <2>2, <2>3, <1>1, TopDown
  <2> QED BY <2>1, <2>4
<1> QED BY <1>2, <1>3

\* The decls of the unit are its children
LEMMA TopsRead ==
  ASSUME NEW lv, NEW anc, ScopesRead(lv, anc), NEW d \in Nodes, IsNamedDecl(d)
  PROVE  /\ d # 1 /\ (AtTopLevel(d) <=> TopDecl(d))
         /\ TopDecl(d) <=> anc[d] = {1, d}
<1>1. /\ TreeRead(lv) /\ TopsOk(anc) /\ Kind(1) \in UnitKinds /\ anc[1] = {1}
      /\ \A n \in Nodes : n <= pos /\ n \in anc[n] /\ 1 \in anc[n]
      /\ \A p \in Nodes : \A k \in DOMAIN kids[p] : anc[kids[p][k]] = anc[p] \cup {kids[p][k]}
  BY ReadWhole DEF AroundOk
<1>2. d # 1
  BY <1>1 DEF IsNamedDecl, NamedKinds, UnitKinds
<1>3. TopDecl(d) <=> anc[d] = {1, d}
  BY <1>1, <1>2 DEF TopsOk
<1>4. PICK p \in Nodes : \E k \in DOMAIN kids[p] : d = kids[p][k] /\ p < d
  BY <1>1, <1>2, TreeFacts
<1>5. PICK k \in DOMAIN kids[p] : d = kids[p][k] /\ p < d
  BY <1>4
<1>6. Parent(d) = p /\ anc[d] = anc[p] \cup {d} /\ p \in anc[p]
  BY <1>1, <1>5, ParentOf
<1>7. p # d
  BY <1>4, <1>5, ReadWhole
<1>8. anc[d] = {1, d} <=> p = 1
  BY <1>1, <1>2, <1>6, <1>7
<1> QED BY <1>2, <1>3, <1>6, <1>8 DEF AtTopLevel

\* A decl is seen where it is visible
LEMMA SeenRead ==
  ASSUME NEW lv, NEW anc, ScopesRead(lv, anc), NEW d \in Nodes, IsNamedDecl(d), NEW n \in Nodes
  PROVE  SeenAt(d, n) <=> Visible(anc, d, n)
<1>1. /\ Nodes \subseteq Nat \ {0} /\ anc \in [Nodes -> SUBSET Nodes] /\ Kind(1) \in UnitKinds
      /\ 1 \in Nodes /\ \A m \in Nodes : m \in anc[m] /\ 1 \in anc[m] /\ \A a \in anc[m] : a <= m
  BY ReadWhole DEF AroundOk
<1>2. \A m, a \in Nodes : a \in anc[m] <=> m \in Below[a]
  BY AroundBelow
<1>3. d # 1 /\ (AtTopLevel(d) <=> TopDecl(d)) /\ (TopDecl(d) <=> anc[d] = {1, d})
  BY TopsRead
<1>4. PICK S : S = {s \in Nodes : Opens(s) /\ s \in anc[d] \ {d}}
  OBVIOUS
<1>5. {s \in Nodes : HoldsScope(Kind(s)) /\ Kind(s) # "metaCalculation" /\ d \in Below[s] \ {s}} = S
  <2>1. \A s \in Nodes : d \in Below[s] \ {s} <=> s \in anc[d] \ {d}
    BY <1>2
  <2> QED BY <2>1, <1>4 DEF Opens
<1>6. PICK h : h = CHOOSE s \in S : \A o \in S : o <= s
  OBVIOUS
<1>7. Region(d) = Below[h]
  BY <1>5, <1>6 DEF Region
<1>8. h \in S /\ \A o \in S : o <= h
  <2>1. 1 \in S
    BY <1>1, <1>3, <1>4 DEF Opens, HoldsScope, UnitKinds
  <2>2. S \in SUBSET (1 .. d) /\ d \in Nat
    <3>1. d \in Nat /\ \A s \in S : s \in Nat \ {0} /\ s <= d
      BY <1>1, <1>4
    <3> QED BY ONLY <3>1
  <2>3. \E s \in S : \A o \in S : o <= s
    BY <2>1, <2>2, Greatest
  <2> QED BY <2>3, <1>6
<1>9. \A s : HomeIs(anc, s, d) <=> s = h
  <2>1. CASE TopDecl(d)
    <3>1. h = 1
      BY <2>1, <1>3, <1>4, <1>8
    <3> QED BY <3>1, <2>1 DEF HomeIs
  <2>2. CASE ~TopDecl(d)
    <3>1. HomeIs(anc, h, d)
      BY <2>2, <1>1, <1>4, <1>8 DEF HomeIs
    <3>2. ASSUME NEW s, HomeIs(anc, s, d) PROVE s = h
      <4>1. anc[d] \subseteq Nat
        BY <1>1
      <4> QED BY <4>1, <3>1, <3>2, OneHome
    <3> QED BY <3>1, <3>2
  <2> QED BY <2>1, <2>2
<1>10. n \in Region(d) <=> h \in anc[n]
  BY <1>2, <1>4, <1>7, <1>8
<1>11. n \in Below[d] <=> d \in anc[n]
  BY <1>2
<1>12. TopDecl(d) => h \in anc[n]
  BY <1>1, <1>9 DEF HomeIs
<1> QED BY <1>3, <1>9, <1>10, <1>11, <1>12 DEF SeenAt, Visible

\* What was met is what the tree declares
LEMMA MetRead ==
  ASSUME NEW lv, NEW anc, ScopesRead(lv, anc)
  PROVE  Met(lv) = {d \in Nodes : Declares(d)}
<1>1. /\ TreeRead(lv) /\ stack = << >> /\ status = "read" /\ pos > 0 /\ Kind(1) \in UnitKinds
      /\ \A n \in Nodes : n <= pos /\ AroundOk(lv, anc, n)
  BY ReadWhole
<1>2. ASSUME NEW d \in Nodes PROVE d \in Met(lv) <=> Declares(d)
  <2>1. ContributedOnly(d) <=> lv[d] = "InsideMetaDecl"
    BY <1>1, ContributedLevel
  <2>2. CASE IsNamedDecl(d) /\ TopDecl(d)
    <3>1. d # 1 /\ anc[d] = {1, d}
      BY <2>2, TopsRead
    <3>2. lv[d] = "Outside"
      <4>1. Kind(d) # "literal"
        BY <2>2 DEF IsNamedDecl, NamedKinds
      <4>2. \A a \in anc[d] \ {d} : Kind(a) \notin {"function", "meta"}
        BY <3>1, <1>1 DEF UnitKinds
      <4> QED BY <4>1, <4>2, <3>1, <1>1 DEF AroundOk
    <3> QED BY <3>2, <2>1, <2>2, <1>1 DEF Met, Declares
  <2>3. CASE IsNamedDecl(d) /\ ~TopDecl(d)
    <3>1. anc[d] # {1, d}
      BY <2>3, TopsRead
    <3>2. Kind(d) \in {"arg", "decl"} \/ lv[d] = "InsideMetaDecl"
      BY <3>1, <2>3, <1>1 DEF AroundOk, IsNamedDecl, NamedKinds
    <3> QED BY <3>2, <2>1, <2>3, <1>1 DEF Met, Declares
  <2>4. CASE ~IsNamedDecl(d)
    BY <2>4 DEF Met, Declares
  <2> QED BY <2>2, <2>3, <2>4
<1> QED BY <1>2 DEF Met

\* A decl is in conflict with those that are seen, as the tree says
LEMMA ConflictRead ==
  ASSUME NEW lv, NEW anc, ScopesRead(lv, anc), NEW d \in Nodes, NEW e \in Nodes,
         Declares(d), Declares(e), d # e
  PROVE  /\ Conflict(anc, d, e) <=> Clashes(d, e)
         /\ Conflict(anc, d, e) => IF TopDecl(d) THEN TopDecl(e) /\ e < d ELSE TopDecl(e) \/ e < d
<1>1. IsNamedDecl(d) /\ IsNamedDecl(e)
  BY DEF Declares
<1>2. /\ Nodes \subseteq Nat \ {0} /\ Kind(1) \in UnitKinds /\ anc \in [Nodes -> SUBSET Nodes]
      /\ \A n \in Nodes : AroundOk(lv, anc, n)
  BY ReadWhole
<1>3. SeenAt(e, d) <=> Visible(anc, e, d)
  BY <1>1, SeenRead
<1>4. /\ AtTopLevel(d) <=> TopDecl(d)
      /\ TopDecl(d) <=> anc[d] = {1, d}
      /\ TopDecl(e) <=> anc[e] = {1, e}
  BY <1>1, TopsRead
<1>5. ASSUME TopDecl(d), Visible(anc, e, d), e < d PROVE TopDecl(e)
  <2> SUFFICES ASSUME ~TopDecl(e) PROVE FALSE
    OBVIOUS
  <2>1. PICK s \in anc[d] : HomeIs(anc, s, e)
    BY <1>5 DEF Visible
  <2>2. s \in anc[e] \ {e} /\ \A o \in anc[e] \ {e} : Opens(o) => o <= s
    BY <2>1 DEF HomeIs
  <2>3. s \in Nodes /\ s <= e
    BY <2>2, <1>2 DEF AroundOk
  <2>4. s = 1
    <3>1. s \in Nat /\ e \in Nat /\ d \in Nat
      BY <2>3, <1>2
    <3>2. s # d
      BY <3>1, <2>3, <1>5
    <3> QED BY <3>2, <2>1, <1>4, <1>5
  <2>5. e # 1 /\ Kind(e) # "literal" /\ anc[e] # {1, e}
    BY <1>1, <1>2, <1>4 DEF IsNamedDecl, NamedKinds, UnitKinds
  <2>6. PICK a \in anc[e] \ {e} : Kind(a) \in {"function", "meta"}
    BY <2>5, <1>2 DEF AroundOk
  <2>7. a <= 1 /\ a \in Nodes
    BY <2>2, <2>4, <2>6, <1>2 DEF Opens, HoldsScope
  <2>8. a = 1
    BY <2>7, <1>2
  <2> QED BY <2>6, <2>8, <1>2 DEF UnitKinds
<1>6. Conflict(anc, d, e) <=> Clashes(d, e)
  <2>1. TopDecl(e) => Visible(anc, e, d)
    BY DEF Visible
  <2> QED BY <2>1, <1>3, <1>4, <1>5 DEF Conflict, Clashes
<1>7. Conflict(anc, d, e) => IF TopDecl(d) THEN TopDecl(e) /\ e < d ELSE TopDecl(e) \/ e < d
  BY DEF Conflict, Visible
<1> QED BY <1>6, <1>7

\* What is welcome although the enclosing unit has that name
LEMMA WelcomeRead ==
  ASSUME NEW lv, NEW anc, ScopesRead(lv, anc), NEW d \in Nodes, Declares(d)
  PROVE  Welcome(d) <=> (Name(d) \in DOMAIN input.outer
                           => Exports(d) /\ input.outer[Name(d)] = "meta")
<1>1. IsNamedDecl(d)
  BY DEF Declares
<1>2. d # 1 /\ (AtTopLevel(d) <=> TopDecl(d)) /\ (TopDecl(d) <=> anc[d] = {1, d})
  BY <1>1, TopsRead
<1>3. Kind(1) \in UnitKinds /\ AroundOk(lv, anc, d)
  BY ReadWhole
<1>4. TopDecl(d) => Kind(d) \in TopLevelKinds
  <2> HAVE TopDecl(d)
  <2>1. Kind(d) # "literal"
    BY <1>1 DEF IsNamedDecl, NamedKinds
  <2>2. \A a \in anc[d] \ {d} : Kind(a) \notin {"function", "meta"}
    BY <1>2, <1>3 DEF UnitKinds
  <2> QED BY <2>1, <2>2, <1>2, <1>3 DEF AroundOk, TopLevelKinds
<1> QED BY <1>2, <1>4 DEF Welcome, Exports

\* The equation of Accepted, which says f of the others to say it of d
Admitted(f, d) ==
  /\ Declares(d)
  /\ Name(d) \in DOMAIN input.outer => Exports(d) /\ input.outer[Name(d)] = "meta"
  /\ ~\E e \in Nodes \ {d} : Declares(e) /\ Clashes(d, e) /\ f[e]

\* It has one solution: a decl asks only those that are seen from it
LEMMA AdmittedOnce ==
  ASSUME NEW lv, NEW anc, ScopesRead(lv, anc), NEW f, NEW g,
         \A d \in Nodes : f[d] = Admitted(f, d), \A d \in Nodes : g[d] = Admitted(g, d)
  PROVE  \A d \in Nodes : f[d] = g[d]
<1>1. Nodes \subseteq Nat
  BY ReadWhole
<1>2. ASSUME NEW d \in Nodes,
             \A e \in Nodes : Declares(d) /\ Declares(e) /\ d # e /\ Clashes(d, e) => f[e] = g[e]
      PROVE  f[d] = g[d]
  <2>1. Admitted(f, d) <=> Admitted(g, d)
    BY <1>2 DEF Admitted
  <2>2. Admitted(f, d) \in BOOLEAN /\ Admitted(g, d) \in BOOLEAN
    BY DEF Admitted
  <2> QED BY <2>1, <2>2
<1>3. \A d, e \in Nodes : Declares(d) /\ Declares(e) /\ d # e /\ Clashes(d, e) =>
        IF TopDecl(d) THEN TopDecl(e) /\ e < d ELSE TopDecl(e) \/ e < d
  BY ConflictRead
<1>4. \A d \in Nodes : TopDecl(d) => f[d] = g[d]
  <2>1. PICK T : T = {d \in Nodes : TopDecl(d) /\ f[d] # g[d]}
    OBVIOUS
  <2> SUFFICES ASSUME T # {} PROVE FALSE
    BY <2>1
  <2>2. PICK d \in T : \A y \in T : d <= y
    BY <2>1, <1>1, NatMin
  <2>3. \A e \in Nodes : TopDecl(e) /\ e < d => f[e] = g[e]
    <3> TAKE e \in Nodes
    <3> HAVE TopDecl(e) /\ e < d
    <3>1. ~(d <= e)
      BY <2>1, <1>1
    <3> QED BY <3>1, <2>1, <2>2
  <2> QED BY <2>1, <2>3, <1>2, <1>3
<1>5. \A d \in Nodes : f[d] = g[d]
  <2>1. PICK T : T = {d \in Nodes : f[d] # g[d]}
    OBVIOUS
  <2> SUFFICES ASSUME T # {} PROVE FALSE
    BY <2>1
  <2>2. PICK d \in T : \A y \in T : d <= y
    BY <2>1, <1>1, NatMin
  <2>3. \A e \in Nodes : e < d => f[e] = g[e]
    <3> TAKE e \in Nodes
    <3> HAVE e < d
    <3>1. ~(d <= e)
      BY <2>1, <1>1
    <3> QED BY <3>1, <2>1, <2>2
  <2> QED BY <2>1, <2>3, <1>2, <1>3, <1>4
<1> QED BY <1>5

\* The decls that are accepted were met and not refused
LEMMA AcceptedRead ==
  ASSUME NEW lv, NEW anc, ScopesRead(lv, anc), NEW M, M = Met(lv), NEW R, R = Refused
  PROVE  \A d \in Nodes : Accepted[d] <=> d \in M \ R
<1>1. M = {d \in Nodes : Declares(d)} /\ RefusedOk(M, R, anc)
  BY MetRead DEF ScopesRead, Scoped
<1>2. PICK f : f = [d \in Nodes |-> d \in M \ R]
  OBVIOUS
<1>3. \A d \in Nodes : f[d] = Admitted(f, d)
  <2> TAKE d \in Nodes
  <2>1. CASE d \notin M
    <3>1. ~Admitted(f, d) /\ Admitted(f, d) \in BOOLEAN
      BY <2>1, <1>1 DEF Admitted
    <3>2. f[d] = FALSE
      <4>1. f[d] = (d \in M \ R)
        BY <1>2
      <4>2. (d \in M \ R) = FALSE
        BY <2>1
      <4> QED BY <4>1, <4>2
    <3> QED BY <3>1, <3>2
  <2>2. CASE d \in M
    <3>1. d \in R <=> ~Welcome(d) \/ \E e \in M \ R : Conflict(anc, d, e)
      BY <2>2, <1>1 DEF RefusedOk
    <3>2. Declares(d)
      BY <2>2, <1>1
    <3>3. \A e \in Nodes : (d # e /\ Declares(e) /\ Clashes(d, e)) <=> (e \in M /\ Conflict(anc, d, e))
      <4> TAKE e \in Nodes
      <4>1. Conflict(anc, d, e) => d # e
        BY DEF Conflict
      <4> QED BY <4>1, <3>2, <1>1, ConflictRead
    <3>4. (\E e \in M \ R : Conflict(anc, d, e))
            <=> \E e \in Nodes \ {d} : Declares(e) /\ Clashes(d, e) /\ f[e]
      BY <3>3, <1>1, <1>2
    <3>5. Admitted(f, d) <=> d \notin R
      BY <3>1, <3>2, <3>4, WelcomeRead DEF Admitted
    <3>6. Admitted(f, d) \in BOOLEAN
      BY DEF Admitted
    <3>7. f[d] = (d \notin R)
      BY <2>2, <1>2
    <3> QED BY <3>5, <3>6, <3>7
  <2> QED BY <2>1, <2>2
<1>4. Accepted = [d \in Nodes |-> Admitted(Accepted, d)]
  <2>1. Accepted = CHOOSE a : a = [d \in Nodes |-> Admitted(a, d)]
    BY DEF Accepted, Admitted
  <2>2. f = [d \in Nodes |-> Admitted(f, d)]
    BY <1>2, <1>3
  <2> QED BY <2>1, <2>2, Zenon
<1>5. \A d \in Nodes : Accepted[d] = Admitted(Accepted, d)
  BY <1>4
<1>6. \A d \in Nodes : Accepted[d] = f[d]
  BY <1>3, <1>5, AdmittedOnce
<1> QED BY <1>2, <1>6

\* What a reference means
LEMMA MeantRead ==
  ASSUME NEW lv, NEW anc, ScopesRead(lv, anc), NEW T, T = Met(lv) \ Refused, NEW r \in Nodes
  PROVE  MeantBy(r) = IF MeantAs(T, anc, r) # {} THEN MeantAs(T, anc, r)
                      ELSE IF Name(r) \in DOMAIN input.outer THEN {OuterDecl} ELSE {}
<1>1. \A d \in Nodes : Accepted[d] <=> d \in T
  BY AcceptedRead
<1>2. T \subseteq Nodes /\ \A d \in T : IsNamedDecl(d)
  BY DEF Met
<1>3. {d \in Nodes : Name(d) = Name(r) /\ Accepted[d] /\ SeenAt(d, r)} = MeantAs(T, anc, r)
  <2>1. \A d \in T : SeenAt(d, r) <=> Visible(anc, d, r)
    BY <1>2, SeenRead
  <2> QED BY <2>1, <1>1, <1>2 DEF MeantAs
<1> QED BY <1>3 DEF MeantBy

\* The references and the errors are as the tree says
LEMMA ReadScoped ==
  ASSUME NEW lv, NEW anc, ScopesRead(lv, anc) PROVE ScopedAsWritten
<1>1. PICK M, R, T, U : M = Met(lv) /\ R = Refused /\ T = M \ R /\ U = Unknown
  OBVIOUS
<1>2. TreeRead(lv) /\ \A n \in Nodes : n <= pos
  BY ReadWhole
<1>3. /\ M = {d \in Nodes : Declares(d)} /\ R \subseteq M
      /\ \A d \in Nodes : Accepted[d] <=> d \in T
  BY <1>1, MetRead, AcceptedRead DEF ScopesRead, Scoped, RefusedOk
<1>4. \A r \in Nodes : ContributedOnly(r) <=> lv[r] = "InsideMetaDecl"
  BY <1>2, ContributedLevel
<1>5. RefsOk(decl, U, T, lv, anc, pos)
  BY <1>1 DEF ScopesRead, Scoped
<1>6. ASSUME NEW r \in Nodes, Kind(r) = "ref"
      PROVE  /\ (IF r \in DOMAIN decl THEN {decl[r]} ELSE {})
                  = (IF ContributedOnly(r) THEN {} ELSE MeantBy(r))
             /\ r \in U <=> ~ContributedOnly(r) /\ MeantBy(r) = {}
  <2>1. IF lv[r] = "InsideMetaDecl" THEN r \notin DOMAIN decl /\ r \notin U
        ELSE Resolution(decl, U, T, anc, r)
    BY <1>2, <1>5, <1>6 DEF RefsOk
  <2>2. MeantBy(r) = IF MeantAs(T, anc, r) # {} THEN MeantAs(T, anc, r)
                     ELSE IF Name(r) \in DOMAIN input.outer THEN {OuterDecl} ELSE {}
    BY <1>1, MeantRead
  <2> QED BY <2>1, <2>2, <1>4 DEF Resolution
<1>7. \A r \in U : r \in Nodes /\ Kind(r) = "ref"
  BY <1>1, <1>5 DEF RefsOk, Unknown
<1>8. R = {d \in {d \in Nodes : Declares(d)} : ~Accepted[d]}
  BY <1>1, <1>3
<1>9. U = {r \in Nodes : Kind(r) = "ref" /\ ~ContributedOnly(r) /\ MeantBy(r) = {}}
  BY <1>6, <1>7
<1>10. errors = {<<"declaredAlready", d>> : d \in R} \cup {<<"unknown", r>> : r \in U}
  <2>1. errors \subseteq ErrorType
    BY <1>2, ScopingFields DEF TreeRead, ReaderTypes
  <2>2. /\ \A d \in R : <<"declaredAlready", d>> \in errors
        /\ \A r \in U : <<"unknown", r>> \in errors
    BY <1>1 DEF Refused, Unknown
  <2>3. ASSUME NEW e \in errors
        PROVE  (\E d \in R : e = <<"declaredAlready", d>>) \/ \E r \in U : e = <<"unknown", r>>
    <3>1. PICK n \in Nodes : e = <<"declaredAlready", n>> \/ e = <<"unknown", n>>
      BY <2>1 DEF ErrorType
    <3>2. e = <<"declaredAlready", n>> => n \in R
      BY <1>1 DEF Refused
    <3>3. e = <<"unknown", n>> => n \in U
      BY <1>1 DEF Unknown
    <3> QED BY <3>1, <3>2, <3>3
  <2> QED BY <2>2, <2>3
<1>11. {d \in Nodes : Declares(d) /\ ~Accepted[d]} = R
  BY <1>8
<1> QED BY <1>6, <1>9, <1>10, <1>11 DEF ScopedAsWritten

\* The reader resolves the references, and reports the errors, that the tree says
LEMMA ScopesAsWritten == ASSUME ReaderInv, ScopeInv PROVE ScopedAsWritten
<1> SUFFICES ASSUME status = "read" PROVE ScopedAsWritten
  BY DEF ScopedAsWritten
<1>1. status \notin Failures /\ ReaderTypes
  BY DEF Failures, ReaderInv
<1>2. PICK lv, anc : Scoped(lv, anc) /\ LinksOk(lv, anc)
  BY <1>1, ScopeNow
<1>3. OwnersOk
  BY <1>1, ScopeNow
<1>4. PICK w : Running(w)
  BY <1>1 DEF ReaderInv, RunningOk, Running
<1>5. ScopesRead(lv, anc)
  BY <1>1, <1>2, <1>3, <1>4, LinksRun DEF Reads, ScopesRead, TreeRead
<1> QED BY <1>5, ReadScoped
============================================================================
