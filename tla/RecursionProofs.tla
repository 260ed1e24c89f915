--------------------------- MODULE RecursionProofs ---------------------------
(***************************************************************************)
(* Recursion over the tree.  TLA+ knows of a function that is defined by   *)
(* recursion only that it is chosen among those that satisfy its equation: *)
(* there is one when what it is at each element only depends on what it is *)
(* at those of a lower rank.  The order of the naturals stands in for      *)
(* induction.                                                              *)
(***************************************************************************)
EXTENDS Integers, Sequences, SequenceTheorems, WellFoundedInduction, TLAPS

\* Every set of naturals that is not empty has a least element
LEMMA NatMin ==
  ASSUME NEW T \in SUBSET Nat, T # {}
  PROVE  \E x \in T : \A y \in T : x <= y
<1> DEFINE R == OpToRel(<, Nat)
<1>1. IsWellFoundedOn(R, Nat)
  BY NatLessThanWellFounded
<1>2. \A x, y \in Nat : x < y => <<x, y>> \in R
  BY DEF OpToRel
<1> HIDE DEF R
<1>3. PICK x \in T : \A y \in T : ~(<<y, x>> \in R)
  BY <1>1, WFMin
<1>4. ASSUME NEW y \in T PROVE x <= y
  <2>1. ~(y < x)
    BY <1>2, <1>3, Zenon
  <2> QED BY <2>1, SMT
<1> QED BY <1>4

\* Induction over the rank of the elements of a set, for a set of them
Inductive(D, rank, B) ==
  \A e \in D : (\A m \in D : rank[m] < rank[e] => m \in B) => e \in B

\* What holds for an element once it holds for those of a lower rank holds for all
LEMMA RankInduction ==
  ASSUME NEW D, NEW rank \in [D -> Nat], NEW B \in SUBSET D, Inductive(D, rank, B)
  PROVE  B = D
<1> SUFFICES ASSUME B # D PROVE FALSE
  OBVIOUS
<1>0. \A e \in D : (\A m \in D : rank[m] < rank[e] => m \in B) => e \in B
  BY DEF Inductive
<1> DEFINE T == {rank[e] : e \in D \ B}
<1>1. T \in SUBSET Nat /\ T # {}
  OBVIOUS
<1> HIDE DEF T
<1>2. PICK x \in T : \A y \in T : x <= y
  BY <1>1, NatMin
<1>3. PICK e \in D \ B : rank[e] = x
  BY <1>2 DEF T
<1>4. ASSUME NEW m \in D, rank[m] < rank[e] PROVE m \in B
  <2>1. CASE m \notin B
    <3>1. rank[m] \in T
      BY <2>1 DEF T
    <3>2. rank[e] <= rank[m]
      BY <3>1, <1>2, <1>3
    <3> QED BY <3>2, <1>4
  <2> QED BY <2>1
<1> QED BY <1>0, <1>3, <1>4

\* G[e][f] is what the equation gives at e for the function f
LowerOnly(D, rank, S, G) ==
  \A e \in D : \A f, g \in [D -> S] :
    (\A m \in D : rank[m] < rank[e] => f[m] = g[m]) => G[e][f] = G[e][g]
Solvable(D, S, G) == \E f \in [D -> S] : \A e \in D : f[e] = G[e][f]

\* There is a function that satisfies an equation which only asks for lower ranks
LEMMA RecursionExists ==
  ASSUME NEW D, NEW N \in Nat, NEW rank \in [D -> 0 .. N], NEW S, S # {},
         NEW G \in [D -> [[D -> S] -> S]], LowerOnly(D, rank, S, G)
  PROVE  Solvable(D, S, G)
<1> DEFINE Upto(n) == \E f \in [D -> S] : \A e \in D : rank[e] < n => f[e] = G[e][f]
           T == {n \in 0 .. N + 1 : ~Upto(n)}
<1>1. SUFFICES Upto(N + 1)
  <2>1. PICK f \in [D -> S] : \A e \in D : rank[e] < N + 1 => f[e] = G[e][f]
    BY <1>1
  <2>2. \A e \in D : rank[e] < N + 1
    OBVIOUS
  <2> QED BY <2>1, <2>2 DEF Solvable
<1> SUFFICES ASSUME T # {} PROVE FALSE
  <2>1. N + 1 \in 0 .. N + 1
    OBVIOUS
  <2> QED BY <2>1
<1>2. PICK n \in T : \A y \in T : n <= y
  <2>1. T \in SUBSET Nat
    OBVIOUS
  <2> HIDE DEF T
  <2> QED BY <2>1, NatMin
<1>3. n # 0
  <2>1. PICK s : s \in S
    OBVIOUS
  <2>2. [e \in D |-> s] \in [D -> S]
    BY <2>1
  <2>3. \A e \in D : ~(rank[e] < 0)
    OBVIOUS
  <2>4. Upto(0)
    BY <2>2, <2>3
  <2> QED BY <2>4, <1>2
<1>4. n \in 0 .. N + 1 /\ n - 1 \in 0 .. N + 1 /\ n - 1 \notin T
  BY <1>2, <1>3
<1>5. Upto(n - 1)
  BY <1>4
<1>6. PICK f \in [D -> S] : \A e \in D : rank[e] < n - 1 => f[e] = G[e][f]
  BY <1>5
<1> DEFINE g == [e \in D |-> IF rank[e] = n - 1 THEN G[e][f] ELSE f[e]]
<1>7. g \in [D -> S]
  OBVIOUS
<1>8. \A e \in D : rank[e] # n - 1 => g[e] = f[e]
  OBVIOUS
<1>9. \A e \in D : rank[e] = n - 1 => g[e] = G[e][f]
  OBVIOUS
<1> HIDE DEF g
<1>10. ASSUME NEW e \in D, rank[e] < n PROVE g[e] = G[e][g]
  <2>1. rank[e] \in Int /\ n \in Int
    BY <1>4
  <2>2. \A m \in D : rank[m] < rank[e] => f[m] = g[m]
    BY <1>8, <1>10, <2>1
  <2>3. G[e][f] = G[e][g]
    BY <2>2, <1>7 DEF LowerOnly
  <2>4. CASE rank[e] = n - 1
    BY <2>3, <2>4, <1>9
  <2>5. CASE rank[e] # n - 1
    <3>1. rank[e] < n - 1
      <4>1. \A a, b \in Int : a < b /\ a # b - 1 => a < b - 1
        OBVIOUS
      <4> HIDE DEF T
      <4> QED BY <2>5, <1>10, <2>1, <4>1, Zenon
    <3> QED BY <3>1, <1>6, <1>8, <2>3, <2>5
  <2> QED BY <2>4, <2>5
<1>11. Upto(n)
  BY <1>7, <1>10
<1> QED BY <1>11, <1>2

\* The concatenations of the first of some sequences, as FlattenSeq defines them
Joined(s) ==
  CHOOSE f : f = [i \in 1 .. Len(s) |-> IF i = 1 THEN s[i] ELSE f[i - 1] \o s[i]]
\* There are such concatenations, and they follow the equation
LEMMA Concatenations ==
  ASSUME NEW S, NEW s \in Seq(Seq(S)), Len(s) # 0
  PROVE  /\ Joined(s) \in [1 .. Len(s) -> Seq(S)] /\ Joined(s)[1] = s[1]
         /\ \A i \in 2 .. Len(s) : Joined(s)[i] = Joined(s)[i - 1] \o s[i]
<1> DEFINE fl == Joined(s)
<1> DEFINE D == 1 .. Len(s)
           Body(f, i) == IF i = 1 THEN s[i] ELSE f[i - 1] \o s[i]
           rank == [i \in D |-> i]
           G == [i \in D |-> [f \in [D -> Seq(S)] |-> Body(f, i)]]
<1>1. fl = CHOOSE f : f = [i \in D |-> Body(f, i)]
  BY DEF Joined
<1> HIDE DEF fl
<1>2. Len(s) \in Nat /\ \A i \in D : s[i] \in Seq(S)
  OBVIOUS
<1>3. rank \in [D -> 0 .. Len(s)] /\ Seq(S) # {}
  BY <1>2
<1>4. \A f \in [D -> Seq(S)] : \A i \in D : Body(f, i) \in Seq(S)
  <2> TAKE f \in [D -> Seq(S)]
  <2> TAKE i \in D
  <2>1. CASE i = 1
    BY <2>1, <1>2
  <2>2. CASE i # 1
    <3>1. i - 1 \in D
      BY <2>2
    <3>2. f[i - 1] \in Seq(S) /\ s[i] \in Seq(S)
      BY <3>1, <1>2
    <3>3. f[i - 1] \o s[i] \in Seq(S)
      BY <3>2, ConcatProperties
    <3> QED BY <3>3, <2>2
  <2> QED BY <2>1, <2>2
<1>5. G \in [D -> [[D -> Seq(S)] -> Seq(S)]]
  BY <1>4
<1>6. ASSUME NEW e \in D, NEW f \in [D -> Seq(S)], NEW g \in [D -> Seq(S)],
             \A m \in D : rank[m] < rank[e] => f[m] = g[m]
      PROVE  G[e][f] = G[e][g]
  <2>1. e # 1 => e - 1 \in D /\ rank[e - 1] < rank[e]
    OBVIOUS
  <2>2. e # 1 => f[e - 1] = g[e - 1]
    BY <2>1, <1>6
  <2>3. Body(f, e) = Body(g, e)
    BY <2>2
  <2> QED BY <2>3
<1> HIDE DEF rank
<1>7. \E f \in [D -> Seq(S)] : \A e \in D : f[e] = G[e][f]
  <2> HIDE DEF G, D
  <2>1. LowerOnly(D, rank, Seq(S), G)
    BY <1>6 DEF LowerOnly
  <2>2. Len(s) \in Nat /\ rank \in [D -> 0 .. Len(s)] /\ Seq(S) # {}
    BY <1>2, <1>3
  <2> HIDE DEF Body
  <2>3. Solvable(D, Seq(S), G)
    BY <2>2, <1>5, <2>1, RecursionExists, Zenon
  <2> QED BY <2>3 DEF Solvable
<1>8. PICK f \in [D -> Seq(S)] : \A e \in D : f[e] = G[e][f]
  BY <1>7
<1>9. f = [i \in D |-> Body(f, i)]
  BY <1>8
<1>10. fl = [i \in D |-> Body(fl, i)]
  BY <1>1, <1>9
<1> DEFINE B == {i \in D : fl[i] \in Seq(S)}
<1>11. ASSUME NEW e \in D, \A m \in D : rank[m] < rank[e] => m \in B PROVE e \in B
  <2>1. e # 1 => e - 1 \in D /\ rank[e - 1] < rank[e]
    BY DEF rank
  <2>2. e # 1 => fl[e - 1] \in Seq(S)
    BY <2>1, <1>11
  <2>3. fl[e] = Body(fl, e)
    BY <1>10
  <2>4. Body(fl, e) \in Seq(S)
    BY <2>2, <1>2
  <2> QED BY <2>3, <2>4
<1>12. rank \in [D -> Nat] /\ B \in SUBSET D
  <2>1. \A i \in D : i \in Nat
    OBVIOUS
  <2>2. rank \in [D -> Nat]
    BY <2>1 DEF rank
  <2>3. B \in SUBSET D
    OBVIOUS
  <2> QED BY <2>2, <2>3
<1>13. B = D
  <2> HIDE DEF B, D
  <2>1. Inductive(D, rank, B)
    BY <1>11 DEF Inductive
  <2> QED BY <1>12, <2>1, RankInduction
<1>14. fl \in [D -> Seq(S)]
  BY <1>10, <1>13
<1>15. 1 \in D /\ fl[1] = s[1]
  <2>1. 1 \in D
    BY <1>2
  <2>2. fl[1] = Body(fl, 1)
    BY <2>1, <1>10
  <2> QED BY <2>1, <2>2
<1>16. \A i \in 2 .. Len(s) : fl[i] = fl[i - 1] \o s[i]
  <2> TAKE i \in 2 .. Len(s)
  <2>1. i \in D /\ i # 1
    BY <1>2
  <2>2. fl[i] = Body(fl, i)
    BY <2>1, <1>10
  <2> QED BY <2>1, <2>2
<1> QED BY <1>14, <1>15, <1>16 DEF fl
=============================================================================
