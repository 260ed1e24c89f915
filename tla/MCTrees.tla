------------------------------- MODULE MCTrees -------------------------------
(* Small trees for the modules about the AST.  A tree is a kind and the       *)
(* sequence of its subtrees; it becomes a table of nodes in preorder.         *)
EXTENDS Integers, Sequences, FiniteSets
LOCAL INSTANCE SequencesExt

Tree(kind, kids) == [k |-> kind, c |-> kids]
Leaf(kind) == Tree(kind, << >>)

RECURSIVE TreeSize(_)
TreeSize(t) == 1 + FoldLeft(LAMBDA n, c : n + TreeSize(c), 0, t.c)

\* The nodes of a tree in preorder, the root numbered first
RECURSIVE Table(_, _)
Table(t, first) ==
  LET From(k)  == first + 1 + FoldLeft(LAMBDA n, c : n + TreeSize(c), 0, SubSeq(t.c, 1, k - 1))
      node == [kind |-> t.k, kids |-> [k \in 1 .. Len(t.c) |-> From(k)], size |-> TreeSize(t)]
  IN <<node>> \o FlattenSeq([k \in 1 .. Len(t.c) |-> Table(t.c[k], From(k))])

Under(table, n) == n .. n + table[n].size - 1
ScopeOf(table, n) ==
  CHOOSE s \in 1 .. n - 1 :
    /\ table[s].kind \in {"function", "meta", "compound"} /\ n \in Under(table, s)
    /\ \A o \in s + 1 .. n - 1 :
         table[o].kind \in {"function", "meta", "compound"} => n \notin Under(table, o)

\* In a meta decl only its arguments, its meta blocks and the conditions of its
\* meta ifs are resolved
Computations(table) ==
  UNION {Under(table, table[n].kids[1]) :
           n \in {n \in 1 .. Len(table) : table[n].kind \in {"metaIf", "metaCalculation"}}}
    \cup IF table[1].kind = "meta" THEN Under(table, table[1].kids[1]) ELSE 1 .. Len(table)

\* The decls a reference may be resolved to: those before it in its scopes, of
\* which a branch of a meta if is none
Visible(table, r) ==
  {d \in Computations(table) :
     /\ d < r /\ r \in Computations(table)
     /\ table[d].kind \in {"decl", "arg"}
     /\ r \notin Under(table, d)
     /\ r \in Under(table, ScopeOf(table, d))}

\* The tree as the modules take it, padded to max nodes: each reference is to
\* the visible decl that Pick chooses, or to a constant when there is none
Resolved(t, Pick(_), max) ==
  LET table == Table(t, 1)
      n == Len(table)
      Decl(r) == LET vs == Visible(table, r) IN IF vs = {} THEN 0 ELSE Pick(vs)
  IN [kind |-> [m \in 1 .. max |-> IF m <= n THEN table[m].kind ELSE "literal"],
      kids |-> [m \in 1 .. max |-> IF m <= n THEN table[m].kids ELSE << >>],
      decl |-> [m \in 1 .. max |-> IF m <= n /\ table[m].kind = "ref" THEN Decl(m) ELSE 0]]

Earliest(vs) == CHOOSE d \in vs : \A e \in vs : d <= e
Latest(vs)   == CHOOSE d \in vs : \A e \in vs : d >= e

(******************************************************************************)
(* Statements.                                                                *)
(******************************************************************************)
Ref       == Leaf("ref")
Call0      == Leaf("call")
Decl      == Tree("decl", <<Leaf("literal")>>)
DeclOf(e) == Tree("decl", <<e>>)
Binary(l, r) == Tree("binary", <<l, r>>)
Assign(l, r) == Tree("assign", <<l, r>>)
Use       == Tree("expr", <<Tree("call", <<Ref>>)>>)
ReturnRef == Tree("return", <<Ref>>)
Return0   == Leaf("return")
Block(l)  == Tree("compound", l)
If(c, t)       == Tree("if", <<c, t>>)
IfElse(c, t, e) == Tree("if", <<c, t, e>>)

\* The ifs with the given conditions and branches, with and without else
IfsOf(conditions, branches) ==
  {If(c, b) : c \in conditions, b \in branches}
    \cup {IfElse(c, b, e) : c \in conditions, b \in branches, e \in branches}
===============================================================================
