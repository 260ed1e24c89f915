----------------------------- MODULE MetaDepth -----------------------------
(***************************************************************************)
(* The generated parser and its stack of meta depths.  The rules of the    *)
(* grammar push and pop depths between their tokens and are guarded by     *)
(* predicates on the stack.  A syntax error ends the rule that meets it,   *)
(* with the actions it still had to run; its caller goes on.  Tokens are   *)
(* left out: the source is whatever choices the parser makes.              *)
(***************************************************************************)
EXTENDS Naturals, Sequences, FiniteSets

CONSTANTS
  MaxIterations,    \* bound: iterations of the loops of the grammar
  MaxSyntaxErrors   \* bound: errors that are reported

ASSUME MetaDepthAssumption == MaxIterations \in Nat /\ MaxSyntaxErrors \in Nat

VARIABLES
  rules,         \* the rules that are parsed, each with what is left of it
  depths,        \* metaDepthStack_, the top last
  left,          \* how many iterations are left
  syntaxErrors,  \* getNumberOfSyntaxErrors
  parser         \* "ready", "parsing", "parsed", or the assertion that failed

parserVars == <<rules, depths, left, syntaxErrors, parser>>

Levels == {"global", "local", "none"}  \* MetaDepth

(***************************************************************************)
(* The grammar: what a rule is made of.                                    *)
(***************************************************************************)
Item(op, of) == [op |-> op, of |-> of]

Tokens      == Item("tokens", {})     \* and rules that never consult the depth
Predicted   == Item("predicted", {})  \* a token the choice of this rule has seen
Invoke(rs)  == Item("rule", rs)       \* one of these rules
Many(rs)    == Item("many", rs)
Maybe(rs)   == Item("maybe", rs)
Enter(d)    == Item("enter", {d})
Leave       == Item("leave", {})
Predicate(p) == Item("predicate", {p})
Assert(p)   == Item("assert", {p})
NoViable    == Item("fail", {})       \* no alternative is viable

EnterFunction == Item("enterFunction", {})
LeaveFunction == Item("leaveFunction", {})

\* Mutant: the block of a meta calculation is written out between the actions
MetaBlockInline ==
  {<<Enter("none"), Predicted, Tokens, Many({"statement"}), Tokens, Leave>>}

MetaBlock == {<<Enter("none"), Predicted, Invoke({"basicCompoundStmt"}), Leave>>}

\* Mutant: whatever is in a meta decl may be a meta statement
StatementInMetaDecl ==
  {<<Tokens>>, <<Invoke({"ifStmt", "basicCompoundStmt"})>>,
   <<Predicate("inMetaDecl"), Invoke({"metaStmt"})>>, <<NoViable>>}

Statement ==
  {<<Tokens>>, <<Invoke({"ifStmt", "basicCompoundStmt"})>>,
   <<Predicate("inMetaContribution"), Invoke({"metaStmt"})>>, <<NoViable>>}

\* Mutant: the body is a block that is written out between the actions
FunctionBlockInline ==
  {<<Tokens, EnterFunction, Tokens, Many({"statement"}), Tokens, LeaveFunction>>}

Function == {<<Tokens, EnterFunction, Invoke({"statement"}), LeaveFunction>>}

\* Each rule with its alternatives
Grammar ==
  [compilationUnit |-> {<<Many({"runtimeGlobalScopeNode", "metaDecl"}), Tokens>>},
   runtimeGlobalScopeNode |->
     {<<Invoke({"functionDecl"})>>,
      <<Predicate("inMetaDecl"), Invoke({"metaStmt"})>>, <<NoViable>>},
   functionDecl |-> Function,
   metaDecl |->
     {<<Tokens, Assert("outside"), Enter("global"),
        Invoke({"metaContribution"}), Leave, Assert("outside")>>},
   metaContribution |-> {<<Tokens, Many({"metaScopeNode"}), Tokens>>},
   metaScopeNode |->
     {<<Predicate("global"), Invoke({"runtimeGlobalScopeNode"})>>,
      <<Predicate("local"), Invoke({"statement"})>>, <<NoViable>>},
   metaStmt |-> {<<Invoke({"metaCalculationStmt", "metaIfStmt"})>>, <<NoViable>>},
   metaCalculationStmt |-> MetaBlock,
   metaIfStmt |->
     {<<Tokens, Invoke({"metaCalculationExpr"}), Invoke({"metaContribution"}),
        Maybe({"metaElseStmt"})>>},
   metaElseStmt |-> {<<Tokens, Invoke({"metaContribution"})>>},
   statement |-> Statement,
   basicCompoundStmt |-> {<<Tokens, Many({"statement"}), Tokens>>},
   ifStmt |-> {<<Tokens, Invoke({"basicCompoundStmt"}), Maybe({"elseStmt"})>>},
   elseStmt |-> {<<Tokens, Invoke({"basicCompoundStmt"})>>},
   metaCalculationExpr |-> {<<Enter("none"), Invoke({"expr"}), Leave>>},
   expr |-> {<<Tokens>>}]

RuleNames == DOMAIN Grammar

(***************************************************************************)
(* The parser.                                                             *)
(***************************************************************************)
isInMetaDecl     == depths # << >>
\* behind the assertion that it is in a meta decl
isInMetaDepth(d) == isInMetaDecl /\ depths[Len(depths)] = d

ParserInit ==
  /\ rules = << >> /\ depths = << >> /\ left = MaxIterations
  /\ syntaxErrors = 0 /\ parser = "ready"

Parsing == parser = "parsing"
Current == rules[Len(rules)]
Upcoming == Current.rest[1]
At(ops) == Parsing /\ Current.rest # << >> /\ Upcoming.op \in ops

Left      == SubSeq(rules, 1, Len(rules) - 1)
Continued == Append(Left, [Current EXCEPT !.rest = Tail(@)])
Frame(r, alternative) == [rule |-> r, rest |-> alternative]

\* compilationUnit()
StartParsing ==
  /\ parser = "ready"
  /\ parser' = "parsing"
  /\ \E a \in Grammar["compilationUnit"] : rules' = <<Frame("compilationUnit", a)>>
  /\ UNCHANGED <<depths, left, syntaxErrors>>

Continue == rules' = Continued /\ UNCHANGED <<depths, left, syntaxErrors, parser>>

MatchTokens == At({"tokens", "predicted"}) /\ Continue
LeaveLoop   == At({"many", "maybe"}) /\ Continue

\* A rule is called; the loop is entered again behind it
CallRule ==
  /\ At({"rule", "maybe"})
  /\ \E r \in Upcoming.of : \E a \in Grammar[r] : rules' = Append(Continued, Frame(r, a))
  /\ UNCHANGED <<depths, left, syntaxErrors, parser>>
IterateLoop ==
  /\ At({"many"}) /\ left > 0
  /\ left' = left - 1
  /\ \E r \in Upcoming.of : \E a \in Grammar[r] : rules' = Append(rules, Frame(r, a))
  /\ UNCHANGED <<depths, syntaxErrors, parser>>

Holds(p) ==
  CASE p = "inMetaDecl"         -> isInMetaDecl
    [] p = "inMetaContribution" -> isInMetaDecl /\ ~isInMetaDepth("none")
    [] p = "outside"            -> ~isInMetaDecl
    [] OTHER                    -> isInMetaDepth(p)
NextHolds == \A p \in Upcoming.of : Holds(p)

\* isInMetaDepth, asked for outside of a meta decl
AskedOutside == Upcoming.of \subseteq Levels /\ ~isInMetaDecl

\* An action of the grammar that leaves this stack and asserts this
Act(stack, assertion) ==
  /\ depths' = stack
  /\ rules' = Continued
  /\ parser' = IF assertion THEN parser ELSE "assertionFailed"
  /\ UNCHANGED <<left, syntaxErrors>>

\* A predicate; one that fails is a syntax error, below
PredicateHolds ==
  At({"predicate"}) /\ (NextHolds \/ AskedOutside) /\ Act(depths, ~AskedOutside)

Popped == SubSeq(depths, 1, Len(depths) - 1)

CheckAssert == At({"assert"}) /\ Act(depths, NextHolds)
EnterDepth  == At({"enter"}) /\ \E d \in Upcoming.of : Act(Append(depths, d), TRUE)
LeaveDepth  == At({"leave"}) /\ Act(Popped, isInMetaDecl)

\* The two actions of functionDecl, of which neither does anything outside of a
\* meta decl
EnterFunctionDepth ==
  /\ At({"enterFunction"})
  /\ IF isInMetaDecl THEN Act(Append(depths, "local"), isInMetaDepth("global"))
                     ELSE Act(depths, TRUE)
LeaveFunctionDepth ==
  /\ At({"leaveFunction"})
  /\ IF isInMetaDecl
     THEN Act(Popped, Popped # << >> /\ Popped[Len(Popped)] = "global")
     ELSE Act(depths, TRUE)

\* The end of a rule; with the outermost the parser is done, and its destructor
\* asserts that no depth is left
ReturnRule ==
  /\ Parsing /\ Current.rest = << >>
  /\ rules' = Left
  /\ parser' = IF Len(rules) > 1 THEN "parsing"
               ELSE IF syntaxErrors > 0 \/ depths = << >> THEN "parsed"
               ELSE "assertionFailed"
  /\ UNCHANGED <<depths, left, syntaxErrors>>

\* The next item cannot be parsed: a token is missing, no alternative is viable
\* or a predicate fails.  The error strategy leaves the rule
Fails ==
  \/ At({"tokens", "many", "maybe", "fail"})
  \/ At({"predicate"}) /\ ~NextHolds /\ ~AskedOutside

\* Mutants: the error strategy neither consumes a token nor leaves the rule; the
\* error ends all rules
Unmoved      == rules
AllAbandoned == << >>

\* The rule that failed is left as it is
Abandoned == Append(Left, [Current EXCEPT !.rest = << >>])

\* An error is reported, and either one token was repaired or the rule is left
SyntaxErrorReported ==
  /\ syntaxErrors < MaxSyntaxErrors
  /\ syntaxErrors' = syntaxErrors + 1
  /\ \/ At({"tokens", "many", "maybe"}) /\ rules' = rules
     \/ Fails /\ rules' = Abandoned
  /\ UNCHANGED <<depths, left, parser>>

\* Until a token matches again, further errors are not reported
LeaveSilently ==
  /\ syntaxErrors > 0 /\ Fails
  /\ rules' = Abandoned
  /\ UNCHANGED <<depths, left, syntaxErrors, parser>>

ParseOn ==
  \/ MatchTokens \/ LeaveLoop \/ CallRule \/ IterateLoop \/ PredicateHolds
  \/ CheckAssert \/ EnterDepth \/ LeaveDepth \/ EnterFunctionDepth \/ LeaveFunctionDepth
  \/ ReturnRule \/ LeaveSilently

(***************************************************************************)
(* Properties.                                                             *)
(***************************************************************************)
Ops == {"tokens", "predicted", "rule", "many", "maybe", "enter", "leave", "predicate", "assert",
        "fail", "enterFunction", "leaveFunction"}
Asked == Levels \cup {"inMetaDecl", "inMetaContribution", "outside"}
Items == [op : Ops, of : SUBSET (RuleNames \cup Asked)]

ParserTypeOK ==
  /\ rules \in Seq([rule : RuleNames, rest : Seq(Items)])
  /\ depths \in Seq(Levels)
  /\ left \in 0 .. MaxIterations /\ syntaxErrors \in 0 .. MaxSyntaxErrors
  /\ parser \in {"ready", "parsing", "parsed", "assertionFailed"}
  /\ parser = "parsing" => rules # << >>

Inside(rs, i) == \E j \in 1 .. i - 1 : rules[j].rule \in rs
Pending(op, i) == \E k \in DOMAIN rules[i].rest : rules[i].rest[k].op = op

\* The rules that have entered a depth and still are to leave it
Holders ==
  {i \in DOMAIN rules :
     \/ Pending("leave", i) /\ ~Pending("enter", i)
     \/ /\ Pending("leaveFunction", i) /\ ~Pending("enterFunction", i)
        /\ Inside({"metaDecl"}, i)}
LevelOf(r) == CASE r = "metaDecl" -> "global" [] r = "functionDecl" -> "local" [] OTHER -> "none"

\* The stack holds the depth of each rule that entered one, and nothing else,
\* whatever rules a syntax error ended (GeneratedParser.g4:48-54, :58-60): no
\* rule is left with the depth it entered, and none leaves that of another rule
DepthFollowsRules ==
  /\ Len(depths) = Cardinality(Holders)
  /\ \A i \in Holders :
       depths[Cardinality({j \in Holders : j <= i})] = LevelOf(rules[i].rule)

\* What the predicates are for: a meta statement is parsed inside of a meta decl
\* only and not in what is calculated; what a meta decl contributes inside of a
\* function is statements, and no function is inside of another one.  (The depth
\* of a meta decl is documented to allow meta decls, too, BasicParser.hpp:29, for
\* which the grammar has no rule, GeneratedParser.g4:36-39 and :58.)
MetaWhereAllowed ==
  \A i \in DOMAIN rules :
    LET r == rules[i].rule IN
    /\ r = "metaStmt" =>
         /\ Inside({"metaDecl"}, i)
         /\ ~Inside({"metaCalculationStmt", "metaCalculationExpr"}, i)
    /\ r = "functionDecl" => ~Inside({"functionDecl", "metaCalculationStmt"}, i)
    /\ r = "statement" => Inside({"functionDecl", "metaCalculationStmt"}, i)

\* No assertion of the grammar or of BasicParser fails, "Ended with an unbalanced
\* depth stack" and "Tried to access the meta depth without being in a meta decl"
\* among them, also for sources with syntax errors
NoParserAssertion == parser # "assertionFailed"
=============================================================================
