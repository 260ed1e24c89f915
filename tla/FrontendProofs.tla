--------------------------- MODULE FrontendProofs ---------------------------
(***************************************************************************)
(* What holds for all runs of the compiler, whatever the source, the       *)
(* diagnostics and the moves of their builders: every diagnostic is        *)
(* printed exactly once, errors end the run, and the end is accounted for. *)
(***************************************************************************)
EXTENDS Frontend, SequenceTheorems, FiniteSetTheorems, TLAPS

(***************************************************************************)
(* Diagnostics.                                                            *)
(***************************************************************************)

\* The last builder, and none but it, owns the diagnostic; a temporary was not
\* moved yet
Owners ==
  /\ Len(builders) = 1 => builders[1].owner = TRUE
  /\ Len(builders) = 2 => builders[1].owner = FALSE /\ builders[2].owner = TRUE
  /\ emitting = "temporary" => builders[1].moves = 0

DiagInv == DiagTypeOK /\ Owners /\ CountedIsPrinted

DiagSteps ==
  Emit \/ \E s \in Severities : \E p \in Phases \ {"idle"} : Create(s, p)

\* The diagnostics
LEMMA DiagInitially == DiagInit => DiagInv
BY DiagnosticsAssumption DEF DiagInit, DiagInv, DiagTypeOK, Owners, CountedIsPrinted, Severities,
   Phases, OnlyBuilder

LEMMA TailOfTwo ==
  ASSUME NEW S, NEW s \in Seq(S), Len(s) = 2
  PROVE  /\ Tail(s) \in Seq(S) /\ Len(Tail(s)) = 1 /\ Tail(s)[1] = s[2]
         /\ s # << >> /\ Tail(s) # << >>
<1>1. s # << >>
  OBVIOUS
<1>2. Tail(s) \in Seq(S) /\ Len(Tail(s)) = 1 /\ Tail(s)[1] = s[2]
  BY <1>1, HeadTailProperties
<1>3. Tail(s) # << >>
  BY <1>2
<1> QED BY <1>1, <1>2, <1>3

LEMMA BuilderAt ==
  ASSUME DiagTypeOK, NEW k \in 1 .. Len(builders)
  PROVE  /\ builders[k] \in Builder
         /\ builders[k].severity \in Severities /\ builders[k].moves \in Nat
<1>1. builders[k] \in Builder
  BY DEF DiagTypeOK
<1> QED BY <1>1, DiagnosticsAssumption DEF Builder

LEMMA MovedTyped ==
  ASSUME NEW b \in Builder, b.moves <= MaxMoves
  PROVE  /\ [b EXCEPT !.owner = FALSE] \in Builder
         /\ [b EXCEPT !.moves = @ + 1] \in Builder
<1>1. b.moves \in 0 .. MaxMoves + 1
  BY DEF Builder
<1>2. b.moves + 1 \in 0 .. MaxMoves + 1
  BY <1>1, DiagnosticsAssumption
<1>3. [b EXCEPT !.owner = FALSE] \in Builder
  BY DEF Builder
<1>4. [b EXCEPT !.moves = b.moves + 1] \in Builder
  BY <1>2 DEF Builder
<1> QED BY <1>3, <1>4

\* What a builder is moved into owns what it owned
LEMMA Moving ==
  ASSUME DiagInv, OnlyBuilder, builders' = MovedFrom(builders[1]),
         builders[1].moves <= MaxMoves,
         emitting # "idle", emitting' \in {"lexer", "parser", "result"},
         UNCHANGED <<occurrence, printed>>
  PROVE  DiagInv'
<1> DEFINE b == builders[1]
<1>1. /\ b \in Builder /\ b.severity \in Severities /\ b.moves \in Nat
      /\ b.owner = TRUE /\ Len(builders) = 1
  BY BuilderAt DEF DiagInv, Owners, OnlyBuilder
<1>2. builders' = <<[b EXCEPT !.owner = FALSE], [b EXCEPT !.moves = @ + 1]>>
  BY DEF MovedFrom
<1>3. /\ [b EXCEPT !.owner = FALSE] \in Builder
      /\ [b EXCEPT !.moves = @ + 1] \in Builder
  BY <1>1, MovedTyped
<1>4. /\ builders' \in Seq(Builder) /\ Len(builders') = 2
      /\ builders'[1].owner = FALSE /\ builders'[2].owner = TRUE
      /\ builders'[2].severity = b.severity
  BY <1>1, <1>2, <1>3 DEF Builder
<1>5. DiagTypeOK'
  BY <1>4 DEF DiagInv, DiagTypeOK, Phases, OnlyBuilder
<1>6. Owners'
  BY <1>4 DEF Owners
<1>7. CountedIsPrinted'
  BY <1>1, <1>4 DEF DiagInv, CountedIsPrinted
<1> QED BY <1>5, <1>6, <1>7 DEF DiagInv

LEMMA Creating ==
  ASSUME DiagInv, NEW s \in Severities, NEW p \in Phases \ {"idle"}, Create(s, p)
  PROVE  DiagInv'
<1> DEFINE b == [severity |-> s, owner |-> TRUE, moves |-> 0]
<1>1. builders = << >> /\ builders' = <<b>> /\ b \in Builder
  BY DiagnosticsAssumption DEF Create, Idle, DiagInv, DiagTypeOK, Builder
<1>2. /\ builders' \in Seq(Builder) /\ Len(builders') = 1
      /\ builders'[1] = b /\ builders' # << >>
  BY <1>1
<1>3. occurrence' \in [Severities -> Nat]
  BY DEF Create, DiagInv, DiagTypeOK
<1>4. DiagTypeOK'
  BY <1>2, <1>3 DEF Create, DiagInv, DiagTypeOK, OnlyBuilder
<1>5. Owners'
  BY <1>2 DEF Owners
<1>6. CountedIsPrinted'
  BY <1>1, <1>2 DEF Create, DiagInv, DiagTypeOK, CountedIsPrinted
<1> QED BY <1>4, <1>5, <1>6 DEF DiagInv

LEMMA DiagStep == ASSUME DiagInv, DiagSteps PROVE DiagInv'
<1>1. CASE \E s \in Severities : \E p \in Phases \ {"idle"} : Create(s, p)
  BY <1>1, Creating
<1>2. CASE ReturnTemporary
  <2>1. builders[1].moves = 0
    BY <1>2 DEF ReturnTemporary, DiagInv, Owners
  <2> QED BY <1>2, <2>1, Moving, DiagnosticsAssumption DEF ReturnTemporary
<1>3. CASE MoveResult
  <2>1. builders[1].moves \in Nat /\ builders[1].moves <= MaxMoves
    BY <1>3, BuilderAt, DiagnosticsAssumption DEF MoveResult, OnlyBuilder, DiagInv
  <2> QED BY <1>3, <2>1, Moving DEF MoveResult
<1>4. CASE Annotate
  BY <1>4 DEF Annotate, DiagInv, DiagTypeOK, Owners, CountedIsPrinted, Phases, OnlyBuilder
<1>5. CASE DestroyMoved
  <2>1. /\ builders' = Tail(builders) /\ Len(builders) = 2
        /\ builders[1].owner = FALSE /\ builders[2].owner = TRUE
    BY <1>5 DEF DestroyMoved, DiagInv, Owners
  <2>2. /\ builders' \in Seq(Builder) /\ Len(builders') = 1
        /\ builders'[1] = builders[2] /\ builders # << >> /\ builders' # << >>
    <3>1. builders \in Seq(Builder)
      BY DEF DiagInv, DiagTypeOK
    <3> QED BY <2>1, <3>1, TailOfTwo
  <2>3. printed' = printed
    BY <1>5, <2>1 DEF DestroyMoved, Dispatch
  <2>4. emitting # "temporary" /\ emitting # "idle"
    BY <2>1, <2>2 DEF DiagInv, DiagTypeOK, OnlyBuilder
  <2>5. DiagTypeOK'
    BY <1>5, <2>2, <2>3, <2>4, SMTT(30) DEF DestroyMoved, DiagInv, DiagTypeOK, OnlyBuilder
  <2>6. Owners'
    BY <1>5, <2>1, <2>2, <2>4 DEF DestroyMoved, Owners
  <2>7. CountedIsPrinted'
    BY <1>5, <2>1, <2>2, <2>3 DEF DestroyMoved, DiagInv, CountedIsPrinted
  <2> QED BY <2>5, <2>6, <2>7 DEF DiagInv
<1>6. CASE DestroyResult
  <2> DEFINE b == builders[1]
  <2>1. Len(builders) = 1 /\ b.owner = TRUE /\ b.severity \in Severities
    BY <1>6, BuilderAt DEF DestroyResult, OnlyBuilder, DiagInv, Owners
  <2>2. /\ printed' = [printed EXCEPT ![b.severity] = @ + 1] /\ builders' = << >>
        /\ emitting' = "idle" /\ occurrence' = occurrence /\ builders # << >>
    BY <1>6, <2>1 DEF DestroyResult, Dispatch
  <2>3. DiagTypeOK'
    BY <2>1, <2>2 DEF DiagInv, DiagTypeOK, Phases, OnlyBuilder
  <2>4. Owners' /\ CountedIsPrinted'
    BY <2>1, <2>2 DEF DiagInv, DiagTypeOK, Owners, CountedIsPrinted
  <2> QED BY <2>3, <2>4 DEF DiagInv
<1> QED BY <1>1, <1>2, <1>3, <1>4, <1>5, <1>6 DEF DiagSteps, Emit

LEMMA DiagUnchanged == ASSUME DiagInv, UNCHANGED diagVars PROVE DiagInv'
BY DEF diagVars, DiagInv, DiagTypeOK, Owners, CountedIsPrinted, OnlyBuilder

(***************************************************************************)
(* The driver.                                                             *)
(***************************************************************************)
Quiet == {"main", "create", "open", "createCodegen"}

\* EndsAccounted, said of what was counted
Accounted ==
  /\ output = IF occurrence["Error"] = 0 /\ message.text = "none"
              THEN Dumped[emitAction] ELSE "none"
  /\ message.errors = IF message.text = "none" THEN 0 ELSE occurrence["Error"]
  /\ message.text \in {"lexing", "parsing", "checking"} => message.errors > 0

\* Nothing is diagnosed where no gate follows; nothing is dumped or told before
\* the end
DriverInv ==
  /\ DriverTypeOK
  /\ stage \in Quiet \cup {"ended"} => Idle
  /\ stage \in Quiet => ~HasErrors
  /\ stage # "ended" => output = "none" /\ message = [text |-> "none", errors |-> 0]
  /\ stage = "ended" => Accounted

CompilerInv == DiagInv /\ DriverInv

\* The driver
LEMMA CompilerInitially == CompilerInit => CompilerInv
<1> SUFFICES ASSUME CompilerInit PROVE CompilerInv
  OBVIOUS
<1>1. DiagInv
  BY DiagInitially DEF CompilerInit
<1>2. DriverTypeOK
  BY DEF CompilerInit, DriverTypeOK, Dumped, Stages, Texts
<1>3. Idle /\ ~HasErrors
  BY DEF CompilerInit, DiagInit, Idle, HasErrors, Severities
<1> QED BY <1>1, <1>2, <1>3 DEF CompilerInit, CompilerInv, DriverInv, Quiet

\* A stage that is left by the driver: from one without errors to one where there
\* may be some, or to the end
Forward == stage' \in Stages \ {"ended"} /\ output' = output /\ message' = message

LEMMA Forwarding ==
  ASSUME CompilerInv, Forward, stage # "ended", UNCHANGED diagVars, ~HasErrors, Idle,
         emitAction' \in DOMAIN Dumped
  PROVE  CompilerInv'
<1>1. DiagInv'
  BY DiagUnchanged DEF CompilerInv
<1>2. Idle' /\ ~HasErrors'
  BY DEF Idle, HasErrors, diagVars
<1>3. DriverTypeOK'
  BY DEF CompilerInv, DriverInv, DriverTypeOK, Forward
<1> QED BY <1>1, <1>2, <1>3 DEF CompilerInv, DriverInv, Forward

LEMMA Dumping ==
  ASSUME CompilerInv, Dump, stage # "ended", UNCHANGED <<diagVars, emitAction>>, ~HasErrors, Idle
  PROVE  CompilerInv'
<1>1. DiagInv'
  BY DiagUnchanged DEF CompilerInv
<1>2. Idle' /\ occurrence' = occurrence /\ occurrence["Error"] = 0
  BY DEF Idle, HasErrors, diagVars
<1>3. DriverTypeOK'
  BY DEF CompilerInv, DriverInv, DriverTypeOK, Dump, Stages
<1>4. Accounted'
  BY <1>2 DEF CompilerInv, DriverInv, Dump, Accounted
<1> QED BY <1>1, <1>2, <1>3, <1>4 DEF CompilerInv, DriverInv, Dump, Quiet

LEMMA Logging ==
  ASSUME CompilerInv, NEW text \in Texts, Log(text), stage # "ended", Idle,
         text \in {"lexing", "parsing", "checking"} => HasErrors,
         UNCHANGED <<diagVars, emitAction>>
  PROVE  CompilerInv'
<1>1. DiagInv'
  BY DiagUnchanged DEF CompilerInv
<1>2. Idle' /\ occurrence' = occurrence /\ occurrence["Error"] \in Nat
  BY DEF Idle, diagVars, CompilerInv, DiagInv, DiagTypeOK, Severities
<1>3. message'.text = text /\ message'.errors = occurrence["Error"] /\ text # "none"
  BY DEF Log, Texts
<1>4. DriverTypeOK'
  BY <1>2 DEF CompilerInv, DriverInv, DriverTypeOK, Log, Stages
<1>5. Accounted'
  BY <1>2, <1>3 DEF CompilerInv, DriverInv, Log, Accounted, HasErrors
<1> QED BY <1>1, <1>2, <1>4, <1>5 DEF CompilerInv, DriverInv, Log, Quiet

\* The driver is not at a gate while a diagnostic is built
LEMMA Diagnosing ==
  ASSUME CompilerInv, DiagSteps, UNCHANGED driverVars, stage \notin Quiet \cup {"ended"}
  PROVE  CompilerInv'
<1>1. DiagInv'
  BY DiagStep DEF CompilerInv
<1> QED BY <1>1 DEF CompilerInv, DriverInv, DriverTypeOK, driverVars

LEMMA Standing ==
  ASSUME CompilerInv, UNCHANGED <<diagVars, driverVars>>
  PROVE  CompilerInv'
<1>1. DiagInv'
  BY DiagUnchanged DEF CompilerInv
<1> QED BY <1>1 DEF CompilerInv, DriverInv, DriverTypeOK, Accounted, Idle, HasErrors, driverVars,
                    diagVars

\* The generation that failed has nothing to dump, and the errors were printed
LEMMA Failing ==
  ASSUME CompilerInv, GoTo("ended"), stage # "ended", HasErrors, Idle,
         UNCHANGED <<diagVars, emitAction>>
  PROVE  CompilerInv'
<1>1. DiagInv'
  BY DiagUnchanged DEF CompilerInv
<1>2. Idle' /\ occurrence' = occurrence /\ occurrence["Error"] # 0
  BY DEF Idle, HasErrors, diagVars
<1>3. DriverTypeOK'
  BY DEF CompilerInv, DriverInv, DriverTypeOK, GoTo, Stages
<1>4. Accounted'
  BY <1>2 DEF CompilerInv, DriverInv, GoTo, Accounted
<1> QED BY <1>1, <1>2, <1>3, <1>4 DEF CompilerInv, DriverInv, GoTo, Quiet

LEMMA CompilerStep == ASSUME CompilerInv, [CompilerNext]_compilerVars PROVE CompilerInv'
<1> DEFINE Same == UNCHANGED <<diagVars, emitAction>>
<1>a. emitAction \in DOMAIN Dumped /\ (stage \in Quiet => Idle /\ ~HasErrors)
  BY DEF CompilerInv, DriverInv, DriverTypeOK
<1>1. CASE ParseCommandLine
  BY <1>1, <1>a, Forwarding DEF ParseCommandLine, Driver, GoTo, Forward, Stages, Quiet
<1>2. CASE CreateInstance
  <2>1. stage = "create" /\ Same /\ Idle /\ ~HasErrors
    BY <1>2, <1>a DEF CreateInstance, Driver, Quiet
  <2>2. CASE GoTo("open")
    BY <2>1, <2>2, <1>a, Forwarding DEF GoTo, Forward, Stages
  <2>3. CASE Log("noTarget")
    BY <2>1, <2>3, Logging DEF Texts
  <2> QED BY <1>2, <2>2, <2>3 DEF CreateInstance, Driver
<1>3. CASE CompileSourceFile
  <2>1. stage = "open" /\ Same /\ Idle /\ ~HasErrors
    BY <1>3, <1>a DEF CompileSourceFile, Driver, Quiet
  <2>2. CASE GoTo(IF hasEmitAction("EmitTokens") THEN "lex" ELSE "parse")
    BY <2>1, <2>2, <1>a, Forwarding DEF GoTo, Forward, Stages
  <2>3. CASE Log("noFile")
    BY <2>1, <2>3, Logging DEF Texts
  <2> QED BY <1>3, <2>2, <2>3 DEF CompileSourceFile, Driver
<1>4. CASE EmitTokens
  <2>1. stage = "lex" /\ Same /\ Idle /\ Gate("lexing", Dump)
    BY <1>4 DEF EmitTokens, Driver, Ready
  <2>2. CASE HasErrors
    BY <2>1, <2>2, Logging DEF Gate, Texts
  <2>3. CASE ~HasErrors
    BY <2>1, <2>3, Dumping DEF Gate
  <2> QED BY <2>2, <2>3
<1>5. CASE Parse
  BY <1>5, Standing DEF Parse
<1>6. CASE ReportSyntaxError
  <2>1. DiagSteps
    BY <1>6 DEF ReportSyntaxError, SyntaxError, DiagSteps, Severities, Phases
  <2> QED BY <1>6, <2>1, Diagnosing DEF ReportSyntaxError, Ready, Quiet
<1>7. CASE ReportLexerError
  <2>1. DiagSteps
    BY <1>7 DEF ReportLexerError, SyntaxError, DiagSteps, Severities, Phases
  <2> QED BY <1>7, <2>1, Diagnosing DEF ReportLexerError, Ready, Quiet
<1>8. CASE LeaveParser
  <2>1. stage = "parse" /\ Same /\ Idle /\ Gate("parsing", GoTo("visit"))
    BY <1>8 DEF LeaveParser, Driver, Ready
  <2>2. CASE HasErrors
    BY <2>1, <2>2, Logging DEF Gate, Texts
  <2>3. CASE ~HasErrors
    BY <2>1, <2>3, <1>a, Forwarding DEF Gate, GoTo, Forward, Stages
  <2> QED BY <2>2, <2>3
<1>9. CASE LeaveVisitor
  <2> DEFINE Last == hasEmitAction("EmitFlatLayout") \/ hasEmitAction("EmitLayout")
  <2>1. /\ stage = "visit" /\ Same /\ Idle
        /\ Gate("parsing", IF Last THEN Dump ELSE GoTo("read"))
    BY <1>9 DEF LeaveVisitor, Driver, Ready
  <2>2. CASE HasErrors
    BY <2>1, <2>2, Logging DEF Gate, Texts
  <2>3. CASE ~HasErrors /\ Last
    BY <2>1, <2>3, Dumping DEF Gate
  <2>4. CASE ~HasErrors /\ ~Last
    BY <2>1, <2>4, <1>a, Forwarding DEF Gate, GoTo, Forward, Stages
  <2> QED BY <2>2, <2>3, <2>4
<1>10. CASE LeaveReader
  <2>1. stage = "read" /\ Same /\ Idle /\ Gate("parsing", GoTo("check"))
    BY <1>10 DEF LeaveReader, Driver, Ready
  <2>2. CASE HasErrors
    BY <2>1, <2>2, Logging DEF Gate, Texts
  <2>3. CASE ~HasErrors
    BY <2>1, <2>3, <1>a, Forwarding DEF Gate, GoTo, Forward, Stages
  <2> QED BY <2>2, <2>3
<1>11. CASE LeaveAnalysis
  <2>1. /\ stage = "check" /\ Same /\ Idle
        /\ Gate("checking", IF hasEmitAction("EmitAST") THEN Dump ELSE GoTo("createCodegen"))
    BY <1>11 DEF LeaveAnalysis, Driver, Ready
  <2>2. CASE HasErrors
    BY <2>1, <2>2, Logging DEF Gate, Texts
  <2>3. CASE ~HasErrors /\ hasEmitAction("EmitAST")
    BY <2>1, <2>3, Dumping DEF Gate
  <2>4. CASE ~HasErrors /\ ~hasEmitAction("EmitAST")
    BY <2>1, <2>4, <1>a, Forwarding DEF Gate, GoTo, Forward, Stages
  <2> QED BY <2>2, <2>3, <2>4
<1>12. CASE CreateCodegen
  <2>1. stage = "createCodegen" /\ Same /\ Idle /\ ~HasErrors
    BY <1>12, <1>a DEF CreateCodegen, Driver, Quiet
  <2>2. CASE GoTo("codegen")
    BY <2>1, <2>2, <1>a, Forwarding DEF GoTo, Forward, Stages
  <2>3. CASE Log("noEngine")
    BY <2>1, <2>3, Logging DEF Texts
  <2> QED BY <1>12, <2>2, <2>3 DEF CreateCodegen, Driver
<1>13. CASE LeaveCodegen
  <2>1. stage = "codegen" /\ Same /\ Idle /\ IF HasErrors THEN GoTo("ended") ELSE Dump
    BY <1>13 DEF LeaveCodegen, Driver, Ready
  <2> QED BY <2>1, Failing, Dumping
<1>14. CASE Diagnose
  <2>1. DiagSteps
    BY <1>14 DEF Diagnose, DiagnoseAt, DiagnoseRange, DiagSteps, Phases
  <2>2. stage \notin Quiet \cup {"ended"}
    BY <1>14 DEF Diagnose, Diagnosed, Quiet
  <2> QED BY <1>14, <2>1, <2>2, Diagnosing DEF Diagnose
<1>15. CASE Display
  <2>1. ~Idle
    BY <1>15 DEF Display, Emit, ReturnTemporary, MoveResult, Annotate, DestroyMoved,
       DestroyResult, Idle, CompilerInv, DiagInv, DiagTypeOK
  <2>2. stage \notin Quiet \cup {"ended"}
    BY <2>1 DEF CompilerInv, DriverInv
  <2> QED BY <1>15, <2>2, Diagnosing DEF Display, DiagSteps
<1>16. CASE UNCHANGED compilerVars
  BY <1>16, Standing DEF compilerVars
<1> QED BY <1>1, <1>2, <1>3, <1>4, <1>5, <1>6, <1>7, <1>8, <1>9, <1>10, <1>11, <1>12,
           <1>13, <1>14, <1>15, <1>16 DEF CompilerNext, Ended

\* The invariant of the driver and the diagnostics, on every run of the compiler
THEOREM CompilerCorrect == CompilerSpec => []CompilerInv
<1> QED BY CompilerInitially, CompilerStep, PTL DEF CompilerSpec

\* Each diagnostic that is counted is printed exactly once, but for the one that
\* is being built, however often its builder is moved
THEOREM DiagnosticsPrintedOnce == CompilerSpec => []CountedIsPrinted
<1>1. CompilerInv => CountedIsPrinted
  BY DEF CompilerInv, DiagInv
<1> QED BY <1>1, CompilerCorrect, PTL

\* A run ends with the dump that was asked for or with the reason why not: with
\* no error printed in the one case, and with all of them told in the other
THEOREM EndIsAccounted == CompilerSpec => []EndsAccounted
<1>1. CompilerInv => EndsAccounted
  <2> SUFFICES ASSUME CompilerInv, stage = "ended"
               PROVE  Accounted /\ printed["Error"] = occurrence["Error"]
    BY DEF EndsAccounted, Accounted
  <2>1. builders = << >> /\ Accounted
    BY DEF CompilerInv, DriverInv, DiagInv, DiagTypeOK, Idle
  <2>2. occurrence["Error"] = printed["Error"] + 0 /\ printed["Error"] \in Nat
    BY <2>1 DEF CompilerInv, DiagInv, DiagTypeOK, CountedIsPrinted, Severities
  <2> QED BY <2>1, <2>2
<1> QED BY <1>1, CompilerCorrect, PTL

\* With an error, no stage is entered and nothing is dumped
THEOREM ErrorsEndTheRun == CompilerSpec => NothingBehindErrors
<1>1. ASSUME CompilerInv, [CompilerNext]_compilerVars, HasErrors
      PROVE  stage' \in {stage, "ended"} /\ output' = output
  <2>1. stage \notin Quiet
    BY <1>1 DEF CompilerInv, DriverInv
  <2>2. CASE UNCHANGED driverVars
    BY <2>2 DEF driverVars
  <2>3. CASE EmitTokens \/ LeaveParser \/ LeaveVisitor \/ LeaveReader \/ LeaveAnalysis \/ LeaveCodegen
    BY <1>1, <2>3 DEF EmitTokens, LeaveParser, LeaveVisitor, LeaveReader, LeaveAnalysis,
       LeaveCodegen, Driver, Gate, Log, GoTo
  <2>4. ~(ParseCommandLine \/ CreateInstance \/ CompileSourceFile \/ CreateCodegen)
    BY <2>1 DEF ParseCommandLine, CreateInstance, CompileSourceFile, CreateCodegen, Quiet
  <2> QED BY <1>1, <2>2, <2>3, <2>4 DEF CompilerNext, Parse, ReportSyntaxError,
             ReportLexerError, Diagnose, Display, Ended, compilerVars
<1>2. CompilerInv /\ [CompilerNext]_compilerVars
        => [HasErrors => stage' \in {stage, "ended"} /\ output' = output]_compilerVars
  BY <1>1
<1> QED BY <1>2, CompilerCorrect, PTL DEF CompilerSpec, NothingBehindErrors

(***************************************************************************)
(* What holds for all parses, whatever the source, its syntax errors and   *)
(* the rules they end: the stack of meta depths is that of the rules which *)
(* entered one, and the predicates of the grammar keep meta code where it  *)
(* is allowed.                                                             *)
(***************************************************************************)

(***************************************************************************)
(* What may be left of a rule.                                             *)
(***************************************************************************)
From1(a)          == {<<a>>, << >>}
From2(a, b)       == {<<a, b>>, <<b>>, << >>}
From3(a, b, c)    == {<<a, b, c>>, <<b, c>>, <<c>>, << >>}
From4(a, b, c, d) == {<<a, b, c, d>>, <<b, c, d>>, <<c, d>>, <<d>>, << >>}
From6(a, b, c, d, e, f) ==
  {<<a, b, c, d, e, f>>, <<b, c, d, e, f>>, <<c, d, e, f>>, <<d, e, f>>, <<e, f>>, <<f>>, << >>}

Calculations == {"metaCalculationStmt", "metaCalculationExpr"}
Entering     == {"metaDecl", "functionDecl"} \cup Calculations

\* The suffixes of the alternatives of a rule
Rests(r) ==
  CASE r = "compilationUnit" -> From2(Many({"runtimeGlobalScopeNode", "metaDecl"}), Tokens)
    [] r = "runtimeGlobalScopeNode" ->
         From1(Invoke({"functionDecl"}))
           \cup From2(Predicate("inMetaDecl"), Invoke({"metaStmt"})) \cup From1(NoViable)
    [] r = "functionDecl" ->
         From4(Tokens, EnterFunction, Invoke({"statement"}), LeaveFunction)
    [] r = "metaDecl" ->
         From6(Tokens, Assert("outside"), Enter("global"), Invoke({"metaContribution"}),
               Leave, Assert("outside"))
    [] r = "metaContribution" -> From3(Tokens, Many({"metaScopeNode"}), Tokens)
    [] r = "metaScopeNode" ->
         From2(Predicate("global"), Invoke({"runtimeGlobalScopeNode"}))
           \cup From2(Predicate("local"), Invoke({"statement"})) \cup From1(NoViable)
    [] r = "metaStmt" -> From1(Invoke({"metaCalculationStmt", "metaIfStmt"})) \cup From1(NoViable)
    [] r = "metaCalculationStmt" ->
         From4(Enter("none"), Predicted, Invoke({"basicCompoundStmt"}), Leave)
    [] r = "metaIfStmt" ->
         From4(Tokens, Invoke({"metaCalculationExpr"}), Invoke({"metaContribution"}),
               Maybe({"metaElseStmt"}))
    [] r = "metaElseStmt" -> From2(Tokens, Invoke({"metaContribution"}))
    [] r = "statement" ->
         From1(Tokens) \cup From1(Invoke({"ifStmt", "basicCompoundStmt"}))
           \cup From2(Predicate("inMetaContribution"), Invoke({"metaStmt"}))
           \cup From1(NoViable)
    [] r = "basicCompoundStmt" -> From3(Tokens, Many({"statement"}), Tokens)
    [] r = "ifStmt" -> From3(Tokens, Invoke({"basicCompoundStmt"}), Maybe({"elseStmt"}))
    [] r = "elseStmt" -> From2(Tokens, Invoke({"basicCompoundStmt"}))
    [] r = "metaCalculationExpr" -> From3(Enter("none"), Invoke({"expr"}), Leave)
    [] OTHER -> From1(Tokens)

\* Those of a rule that has entered a depth and still is to leave it
Holding(r) ==
  CASE r = "metaDecl" ->
         {<<Invoke({"metaContribution"}), Leave, Assert("outside")>>,
          <<Leave, Assert("outside")>>}
    [] r = "functionDecl" ->
         {<<Invoke({"statement"}), LeaveFunction>>, <<LeaveFunction>>}
    [] r = "metaCalculationStmt" ->
         {<<Predicted, Invoke({"basicCompoundStmt"}), Leave>>,
          <<Invoke({"basicCompoundStmt"}), Leave>>, <<Leave>>}
    [] r = "metaCalculationExpr" -> {<<Invoke({"expr"}), Leave>>, <<Leave>>}
    [] OTHER -> {}

\* The rules of the grammar by name, to go through them
LEMMA TheRules ==
  RuleNames =
    {"compilationUnit", "runtimeGlobalScopeNode", "functionDecl", "metaDecl",
     "metaContribution", "metaScopeNode", "metaStmt", "metaCalculationStmt", "metaIfStmt",
     "metaElseStmt", "statement", "basicCompoundStmt", "ifStmt", "elseStmt",
     "metaCalculationExpr", "expr"}
BY DEF RuleNames, Grammar

\* What a rule starts with is one of its rests, and holds nothing
LEMMA Starting ==
  ASSUME NEW r \in RuleNames, NEW a \in Grammar[r]
  PROVE  a \in Rests(r) /\ a \notin Holding(r)
<1>1. a \in Rests(r)
  BY TheRules
     DEF Grammar, Rests, From1, From2, From3, From4, From6, Function, MetaBlock, Statement
<1>2. a \notin Holding(r)
  BY TheRules DEF Grammar, Holding, Function, MetaBlock
<1> QED BY <1>1, <1>2

\* Tuples without their first element
LEMMA Tails ==
  /\ \A a : Tail(<<a>>) = << >>
  /\ \A a, b : Tail(<<a, b>>) = <<b>>
  /\ \A a, b, c : Tail(<<a, b, c>>) = <<b, c>>
  /\ \A a, b, c, d : Tail(<<a, b, c, d>>) = <<b, c, d>>
  /\ \A a, b, c, d, e : Tail(<<a, b, c, d, e>>) = <<b, c, d, e>>
  /\ \A a, b, c, d, e, f : Tail(<<a, b, c, d, e, f>>) = <<b, c, d, e, f>>
OBVIOUS

\* A rest without its first item is a rest of the same rule
LEMMA Shorter ==
  ASSUME NEW r \in RuleNames, NEW s \in Rests(r), s # << >>
  PROVE  Tail(s) \in Rests(r)
<1>1. ASSUME NEW a, s \in From1(a) PROVE Tail(s) \in From1(a)
  <2>1. CASE s = <<a>>
    BY <2>1, Tails DEF From1
  <2> QED BY <1>1, <2>1 DEF From1
<1>2. ASSUME NEW a, NEW b, s \in From2(a, b) PROVE Tail(s) \in From2(a, b)
  <2>1. CASE s = <<a, b>>
    BY <2>1, Tails DEF From2
  <2>2. CASE s = <<b>>
    BY <2>2, Tails DEF From2
  <2> QED BY <1>2, <2>1, <2>2 DEF From2
<1>3. ASSUME NEW a, NEW b, NEW c, s \in From3(a, b, c) PROVE Tail(s) \in From3(a, b, c)
  <2>1. CASE s = <<a, b, c>>
    BY <2>1, Tails DEF From3
  <2>2. CASE s = <<b, c>>
    BY <2>2, Tails DEF From3
  <2>3. CASE s = <<c>>
    BY <2>3, Tails DEF From3
  <2> QED BY <1>3, <2>1, <2>2, <2>3 DEF From3
<1>4. ASSUME NEW a, NEW b, NEW c, NEW d, s \in From4(a, b, c, d) PROVE Tail(s) \in From4(a, b, c, d)
  <2>1. CASE s = <<a, b, c, d>>
    BY <2>1, Tails DEF From4
  <2>2. CASE s = <<b, c, d>>
    BY <2>2, Tails DEF From4
  <2>3. CASE s = <<c, d>>
    BY <2>3, Tails DEF From4
  <2>4. CASE s = <<d>>
    BY <2>4, Tails DEF From4
  <2> QED BY <1>4, <2>1, <2>2, <2>3, <2>4 DEF From4
<1>5. ASSUME NEW a, NEW b, NEW c, NEW d, NEW e, NEW f, s \in From6(a, b, c, d, e, f) PROVE Tail(s) \in From6(a, b, c, d, e, f)
  <2>1. CASE s = <<a, b, c, d, e, f>>
    BY <2>1, Tails DEF From6
  <2>2. CASE s = <<b, c, d, e, f>>
    BY <2>2, Tails DEF From6
  <2>3. CASE s = <<c, d, e, f>>
    BY <2>3, Tails DEF From6
  <2>4. CASE s = <<d, e, f>>
    BY <2>4, Tails DEF From6
  <2>5. CASE s = <<e, f>>
    BY <2>5, Tails DEF From6
  <2>6. CASE s = <<f>>
    BY <2>6, Tails DEF From6
  <2> QED BY <1>5, <2>1, <2>2, <2>3, <2>4, <2>5, <2>6 DEF From6
<1> QED BY <1>1, <1>2, <1>3, <1>4, <1>5, TheRules DEF Rests

\* A rule that ended holds nothing, whether it was parsed or abandoned
LEMMA NoRest == ASSUME NEW r \in RuleNames PROVE << >> \in Rests(r) /\ << >> \notin Holding(r)
BY TheRules DEF Rests, From1, From2, From3, From4, From6, Holding

Changing == {"enter", "leave", "enterFunction", "leaveFunction"}
MayFail  == {"tokens", "many", "maybe", "fail", "predicate"}

Progress(r, s) ==
  /\ s[1].op \in Changing \cup MayFail \cup {"predicted", "rule", "assert"}
  /\ s[1].op \in {"enter", "enterFunction"} => s \notin Holding(r) /\ Tail(s) \in Holding(r)
  /\ s[1].op \in {"leave", "leaveFunction"} => s \in Holding(r) /\ Tail(s) \notin Holding(r)
  /\ s[1].op \notin Changing => (s \in Holding(r) <=> Tail(s) \in Holding(r))
  /\ s[1].op \in MayFail => s \notin Holding(r)
  /\ s[1].op \in {"enter", "leave"} => r \in {"metaDecl"} \cup Calculations
  /\ s[1].op \in {"enterFunction", "leaveFunction"} => r = "functionDecl"
  /\ s[1].op \in {"rule", "maybe"} /\ r \in Entering => s \in Holding(r)
  /\ s[1].op = "many" => r \notin Entering

\* What the first item of a rest is, and what it leaves to be held
LEMMA Progressing ==
  ASSUME NEW r \in RuleNames, NEW s \in Rests(r), s # << >>
  PROVE  Progress(r, s)
<1> USE DEF Progress, Rests, Holding, Changing, MayFail, Item, Tokens, Predicted, Invoke, Many, Maybe,
  Enter, Leave, Predicate, Assert, NoViable, EnterFunction, LeaveFunction, Entering, Calculations
<1>1. CASE r = "metaDecl"
  <2>1. CASE s = <<Tokens, Assert("outside"), Enter("global"), Invoke({"metaContribution"}), Leave, Assert("outside")>>
    BY <1>1, <2>1, Tails
  <2>2. CASE s = <<Assert("outside"), Enter("global"), Invoke({"metaContribution"}), Leave, Assert("outside")>>
    BY <1>1, <2>2, Tails
  <2>3. CASE s = <<Enter("global"), Invoke({"metaContribution"}), Leave, Assert("outside")>>
    BY <1>1, <2>3, Tails
  <2>4. CASE s = <<Invoke({"metaContribution"}), Leave, Assert("outside")>>
    BY <1>1, <2>4, Tails
  <2>5. CASE s = <<Leave, Assert("outside")>>
    BY <1>1, <2>5, Tails
  <2>6. CASE s = <<Assert("outside")>>
    BY <1>1, <2>6, Tails
  <2> QED BY <1>1, <2>1, <2>2, <2>3, <2>4, <2>5, <2>6 DEF From6
<1>2. CASE r = "functionDecl"
  <2>1. CASE s = <<Tokens, EnterFunction, Invoke({"statement"}), LeaveFunction>>
    BY <1>2, <2>1, Tails
  <2>2. CASE s = <<EnterFunction, Invoke({"statement"}), LeaveFunction>>
    BY <1>2, <2>2, Tails
  <2>3. CASE s = <<Invoke({"statement"}), LeaveFunction>>
    BY <1>2, <2>3, Tails
  <2>4. CASE s = <<LeaveFunction>>
    BY <1>2, <2>4, Tails
  <2> QED BY <1>2, <2>1, <2>2, <2>3, <2>4 DEF From4
<1>3. CASE r = "metaCalculationStmt"
  <2>1. CASE s = <<Enter("none"), Predicted, Invoke({"basicCompoundStmt"}), Leave>>
    BY <1>3, <2>1, Tails
  <2>2. CASE s = <<Predicted, Invoke({"basicCompoundStmt"}), Leave>>
    BY <1>3, <2>2, Tails
  <2>3. CASE s = <<Invoke({"basicCompoundStmt"}), Leave>>
    BY <1>3, <2>3, Tails
  <2>4. CASE s = <<Leave>>
    BY <1>3, <2>4, Tails
  <2> QED BY <1>3, <2>1, <2>2, <2>3, <2>4 DEF From4
<1>4. CASE r = "metaCalculationExpr"
  <2>1. CASE s = <<Enter("none"), Invoke({"expr"}), Leave>>
    BY <1>4, <2>1, Tails
  <2>2. CASE s = <<Invoke({"expr"}), Leave>>
    BY <1>4, <2>2, Tails
  <2>3. CASE s = <<Leave>>
    BY <1>4, <2>3, Tails
  <2> QED BY <1>4, <2>1, <2>2, <2>3 DEF From3
<1>5. CASE r \notin Entering
  <2>1. s[1].op \in MayFail \cup {"predicted", "rule", "assert"}
    BY <1>5, TheRules DEF From1, From2, From3, From4
  <2> QED BY <1>5, <2>1
<1> QED BY <1>1, <1>2, <1>3, <1>4, <1>5

(***************************************************************************)
(* Where a rule may be.                                                    *)
(***************************************************************************)

\* The rules which enter a depth that the i-th rule is inside of
Around(i) == {q \in Entering : Inside({q}, i)}

MetaRules == {"metaContribution", "metaScopeNode", "metaStmt", "metaIfStmt", "metaElseStmt"}
               \cup Calculations
StatementRules == {"statement", "basicCompoundStmt", "ifStmt", "elseStmt"}

\* What may be around a rule
AllowedIn(r, around) ==
  /\ around \cap Calculations # {} => "metaDecl" \in around
  /\ r \in {"compilationUnit", "metaDecl"} => around = {}
  /\ r \in {"runtimeGlobalScopeNode", "functionDecl"} => around \subseteq {"metaDecl"}
  /\ r \in MetaRules =>
       "metaDecl" \in around /\ around \subseteq {"metaDecl", "functionDecl"}
  /\ r \in StatementRules => around \cap {"functionDecl", "metaCalculationStmt"} # {}

\* What the predicate of an alternative has told, until the alternative is called
Remembered(r, s, around) ==
  /\ r = "metaScopeNode" /\ s = <<Invoke({"runtimeGlobalScopeNode"})>>
       => "functionDecl" \notin around
  /\ r = "metaScopeNode" /\ s = <<Invoke({"statement"})>> => "functionDecl" \in around
  /\ r \in {"statement", "runtimeGlobalScopeNode"} /\ s = <<Invoke({"metaStmt"})>>
       => "metaDecl" \in around /\ around \cap Calculations = {}

\* A rule which is called is where it may be
LEMMA Calling ==
  ASSUME NEW r \in RuleNames, NEW s \in Rests(r), s # << >>, NEW around,
         around \subseteq Entering,
         AllowedIn(r, around), Remembered(r, s, around),
         s[1].op \in {"rule", "maybe", "many"}, NEW q \in s[1].of
  PROVE  /\ q \in RuleNames \ {"compilationUnit"}
         /\ AllowedIn(q, around \cup ({r} \cap Entering))
         /\ q = "metaDecl" => r = "compilationUnit"
<1> USE DEF Rests, Item, Tokens, Predicted, Invoke, Many, Maybe, Enter, Leave, Predicate, Assert,
  NoViable, EnterFunction, LeaveFunction, Entering, Calculations, AllowedIn, Remembered,
  MetaRules, StatementRules
<1>1. CASE r = "compilationUnit"
  BY <1>1, TheRules DEF From2
<1>2. CASE r = "runtimeGlobalScopeNode"
  BY <1>2, TheRules DEF From1, From2
<1>3. CASE r = "functionDecl"
  BY <1>3, TheRules DEF From4
<1>4. CASE r = "metaDecl"
  BY <1>4, TheRules DEF From6
<1>5. CASE r = "metaContribution"
  BY <1>5, TheRules DEF From3
<1>6. CASE r = "metaScopeNode"
  BY <1>6, TheRules DEF From1, From2
<1>7. CASE r = "metaStmt"
  BY <1>7, TheRules DEF From1
<1>8. CASE r = "metaCalculationStmt"
  BY <1>8, TheRules, SMTT(30) DEF From4
<1>9. CASE r = "metaIfStmt"
  BY <1>9, TheRules DEF From4
<1>10. CASE r = "metaElseStmt"
  BY <1>10, TheRules DEF From2
<1>11. CASE r = "statement"
  BY <1>11, TheRules DEF From1, From2
<1>12. CASE r = "basicCompoundStmt"
  BY <1>12, TheRules DEF From3
<1>13. CASE r = "ifStmt"
  BY <1>13, TheRules DEF From3
<1>14. CASE r = "elseStmt"
  BY <1>14, TheRules DEF From2
<1>15. CASE r = "metaCalculationExpr"
  BY <1>15, TheRules DEF From3
<1>16. CASE r = "expr"
  BY <1>16, TheRules DEF From1
<1> QED BY <1>1, <1>2, <1>3, <1>4, <1>5, <1>6, <1>7, <1>8, <1>9, <1>10, <1>11, <1>12, <1>13,
           <1>14, <1>15, <1>16, TheRules

\* The predicates of the grammar, with what they guard
LEMMA Predicates ==
  ASSUME NEW r \in RuleNames, NEW s \in Rests(r), s # << >>, s[1].op = "predicate"
  PROVE  \/ /\ r = "runtimeGlobalScopeNode" /\ s[1].of = {"inMetaDecl"}
            /\ Tail(s) = <<Invoke({"metaStmt"})>>
         \/ /\ r = "metaScopeNode" /\ s[1].of = {"global"}
            /\ Tail(s) = <<Invoke({"runtimeGlobalScopeNode"})>>
         \/ /\ r = "metaScopeNode" /\ s[1].of = {"local"}
            /\ Tail(s) = <<Invoke({"statement"})>>
         \/ /\ r = "statement" /\ s[1].of = {"inMetaContribution"}
            /\ Tail(s) = <<Invoke({"metaStmt"})>>
<1> USE DEF Item, Tokens, Predicted, Invoke, Many, Maybe, Enter, Leave, Predicate, Assert,
  NoViable, EnterFunction, LeaveFunction
<1>1. \A a, b : Tail(<<a, b>>) = <<b>> /\ <<a, b>>[1] = a
  BY Tails
<1>2. r \in {"runtimeGlobalScopeNode", "metaScopeNode", "statement"}
  BY TheRules DEF Rests, From1, From2, From3, From4, From6
<1>3. CASE r = "runtimeGlobalScopeNode"
  <2>1. s = <<Predicate("inMetaDecl"), Invoke({"metaStmt"})>>
    BY <1>3 DEF Rests, From1, From2
  <2> QED BY <1>1, <1>3, <2>1
<1>4. CASE r = "metaScopeNode"
  <2>1. \/ s = <<Predicate("global"), Invoke({"runtimeGlobalScopeNode"})>>
        \/ s = <<Predicate("local"), Invoke({"statement"})>>
    BY <1>4 DEF Rests, From1, From2
  <2>2. CASE s = <<Predicate("global"), Invoke({"runtimeGlobalScopeNode"})>>
    BY <1>1, <1>4, <2>2
  <2>3. CASE s = <<Predicate("local"), Invoke({"statement"})>>
    BY <1>1, <1>4, <2>3
  <2> QED BY <2>1, <2>2, <2>3
<1>5. CASE r = "statement"
  <2>1. s = <<Predicate("inMetaContribution"), Invoke({"metaStmt"})>>
    BY <1>5 DEF Rests, From1, From2
  <2> QED BY <1>1, <1>5, <2>1
<1> QED BY <1>2, <1>3, <1>4, <1>5

\* Only a predicate leaves a rest that relies on it
LEMMA NothingRemembered ==
  ASSUME NEW r \in RuleNames, NEW around
  PROVE  /\ Remembered(r, << >>, around)
         /\ \A s \in Rests(r) : s # << >> /\ s[1].op # "predicate" => Remembered(r, Tail(s), around)
         /\ \A s \in Grammar[r] : Remembered(r, s, around)
<1> USE DEF Item, Tokens, Predicted, Invoke, Many, Maybe, Enter, Leave, Predicate, Assert,
  NoViable, EnterFunction, LeaveFunction, Remembered
<1>1. Remembered(r, << >>, around)
  OBVIOUS
<1>2. ASSUME NEW s \in Rests(r), s # << >>, s[1].op # "predicate"
      PROVE  Remembered(r, Tail(s), around)
  <2>1. CASE r \in {"metaScopeNode", "statement", "runtimeGlobalScopeNode"}
    <3>1. \E a : s = <<a>>
      BY <1>2, <2>1 DEF From1, From2, Rests
    <3> QED BY <1>1, <3>1, Tails
  <2> QED BY <2>1
<1>3. ASSUME NEW s \in Grammar[r] PROVE Remembered(r, s, around)
  BY DEF Grammar, Statement
<1> QED BY <1>1, <1>2, <1>3

\* Each predicate asks for what the rest behind it relies on
LEMMA Remembering ==
  ASSUME NEW around
  PROVE  /\ "metaDecl" \in around /\ around \cap Calculations = {} =>
              /\ Remembered("runtimeGlobalScopeNode", <<Invoke({"metaStmt"})>>, around)
              /\ Remembered("statement", <<Invoke({"metaStmt"})>>, around)
         /\ "functionDecl" \notin around =>
              Remembered("metaScopeNode", <<Invoke({"runtimeGlobalScopeNode"})>>, around)
         /\ "functionDecl" \in around =>
              Remembered("metaScopeNode", <<Invoke({"statement"})>>, around)
BY DEF Remembered, Invoke, Item

\* A rule enters the depth that is its own, and asserts where it must
LEMMA EntersItsLevel ==
  ASSUME NEW r \in RuleNames, NEW s \in Rests(r), s # << >>
  PROVE  /\ s[1].op = "enter" => s[1].of = {LevelOf(r)}
         /\ s[1].op = "assert" => r = "metaDecl" /\ s[1].of = {"outside"} /\ s \notin Holding(r)
BY TheRules DEF Rests, From1, From2, From3, From4, From6, Item, Tokens, Predicted, Invoke, Many,
   Maybe, Enter, Leave, Predicate, Assert, NoViable, EnterFunction, LeaveFunction, LevelOf, Holding

(***************************************************************************)
(* The invariant.                                                          *)
(***************************************************************************)

\* The rules that have entered a depth and still are to leave it
Entered ==
  {q \in Entering : \E i \in DOMAIN rules : rules[i].rule = q /\ rules[i].rest \in Holding(q)}

\* The depths of these: there is one of each level at most, in this order
Stack(entered) ==
  IF "metaDecl" \notin entered THEN << >>
  ELSE IF "functionDecl" \notin entered
       THEN IF entered \cap Calculations = {} THEN <<"global">> ELSE <<"global", "none">>
       ELSE IF entered \cap Calculations = {} THEN <<"global", "local">>
                                              ELSE <<"global", "local", "none">>

Remains == [rule : RuleNames, rest : UNION {Rests(r) : r \in RuleNames}]

RuleOk(i) ==
  LET r == rules[i].rule
      s == rules[i].rest IN
  /\ s \in Rests(r)
  /\ AllowedIn(r, Around(i))
  /\ Remembered(r, s, Around(i))
  /\ i < Len(rules) /\ r \in Entering => s \in Holding(r)
  /\ r = "compilationUnit" <=> i = 1
  /\ r = "metaDecl" => i = 2

ParserInv ==
  /\ rules \in Seq(Remains)
  /\ left \in 0 .. MaxIterations /\ syntaxErrors \in 0 .. MaxSyntaxErrors
  /\ parser \in {"ready", "parsing", "parsed"}
  /\ parser = "parsing" <=> rules # << >>
  /\ \A i \in DOMAIN rules : RuleOk(i)
  /\ depths = Stack(Entered)

(***************************************************************************)
(* The rule on top, and how the steps change the rules.                    *)
(***************************************************************************)

WithLast(s, f) == Append(SubSeq(s, 1, Len(s) - 1), f)

\* A sequence with another last element
LEMMA LastReplaced ==
  ASSUME NEW S, NEW s \in Seq(S), s # << >>, NEW f \in S
  PROVE  /\ WithLast(s, f) \in Seq(S) /\ Len(WithLast(s, f)) = Len(s)
         /\ \A i \in 1 .. Len(s) - 1 : WithLast(s, f)[i] = s[i]
         /\ WithLast(s, f)[Len(s)] = f
<1>1. Len(s) \in Nat \ {0}
  BY EmptySeq, LenProperties
<1> DEFINE m == Len(s) - 1
           u == SubSeq(s, 1, m)
<1>2. m \in Nat /\ 1 \in Int /\ m \in Int /\ Len(s) = m + 1
  BY <1>1
<1>3. \A i \in 1 .. m : s[i] \in S
  BY <1>1, ElementOfSeq
<1> HIDE DEF m
<1>4. /\ u \in Seq(S) /\ Len(u) = IF 1 <= m THEN m - 1 + 1 ELSE 0
      /\ \A i \in 1 .. m - 1 + 1 : u[i] = s[1 + i - 1]
  BY <1>2, <1>3, SubSeqProperties
<1>5. Len(u) = m /\ \A i \in 1 .. m : u[i] = s[i]
  BY <1>2, <1>4
<1>6. WithLast(s, f) = Append(u, f)
  BY DEF m, WithLast
<1> HIDE DEF u
<1> QED BY <1>2, <1>4, <1>5, <1>6, AppendProperties

\* What the invariant says of the rule that is being parsed
LEMMA Top ==
  ASSUME ParserInv, Parsing
  PROVE  /\ rules # << >> /\ Len(rules) \in Nat \ {0} /\ Len(rules) \in DOMAIN rules
         /\ DOMAIN rules = 1 .. Len(rules)
         /\ Current.rule \in RuleNames /\ Current.rest \in Rests(Current.rule)
         /\ \A t : [Current EXCEPT !.rest = t] = Frame(Current.rule, t)
         /\ Current \in Remains
         /\ RuleOk(Len(rules))
<1>1. rules # << >> /\ rules \in Seq(Remains)
  BY DEF ParserInv, Parsing
<1>2. Len(rules) \in Nat \ {0} /\ Len(rules) \in DOMAIN rules /\ DOMAIN rules = 1 .. Len(rules)
  BY <1>1, EmptySeq, LenProperties
<1>3. Current \in Remains
  BY <1>1, <1>2 DEF Current
<1>4. RuleOk(Len(rules))
  BY <1>2 DEF ParserInv
<1>5. Current.rule \in RuleNames /\ Current.rest \in Rests(Current.rule)
  BY <1>3, <1>4 DEF RuleOk, Remains, Current
<1>6. \A t : [Current EXCEPT !.rest = t] = Frame(Current.rule, t)
  BY <1>3 DEF Frame, Remains
<1> QED BY <1>1, <1>2, <1>3, <1>4, <1>5, <1>6

\* What has entered a depth: the rules around the last one, and that one when it has
LEMMA EnteredAround ==
  ASSUME ParserInv, Parsing
  PROVE  Entered = Around(Len(rules)) \cup
                     {q \in Entering : Current.rule = q /\ Current.rest \in Holding(q)}
<1> DEFINE n == Len(rules)
           E == {q \in Entering : Current.rule = q /\ Current.rest \in Holding(q)}
<1>1. ASSUME NEW q \in Entered PROVE q \in Around(n) \cup E
  <2>1. PICK i \in 1 .. n : rules[i].rule = q /\ rules[i].rest \in Holding(q)
    BY <1>1, Top DEF Entered
  <2>2. q \in Entering
    BY <1>1 DEF Entered
  <2>3. CASE i = n
    BY <2>1, <2>2, <2>3 DEF Current
  <2>4. CASE i # n
    <3>1. i \in 1 .. n - 1
      BY <2>4, Top
    <3> QED BY <2>1, <2>2, <3>1 DEF Around, Inside
  <2> QED BY <2>3, <2>4
<1>2. ASSUME NEW q \in Around(n) PROVE q \in Entered
  <2>1. q \in Entering
    BY <1>2 DEF Around
  <2>2. PICK i \in 1 .. n - 1 : rules[i].rule = q
    BY <1>2 DEF Around, Inside
  <2>3. i \in DOMAIN rules /\ i < n
    BY Top
  <2>4. RuleOk(i)
    BY <2>3 DEF ParserInv
  <2> QED BY <2>1, <2>2, <2>3, <2>4 DEF Entered, RuleOk
<1>3. ASSUME NEW q \in E PROVE q \in Entered
  BY <1>3, Top DEF Entered, Current
<1> QED BY <1>1, <1>2, <1>3

\* A rule is around another one as long as those below do not change
LEMMA SameAround ==
  ASSUME NEW i \in Nat, \A j \in 1 .. i - 1 : rules'[j].rule = rules[j].rule
  PROVE  Around(i)' = Around(i)
BY DEF Around, Inside

\* The rules below the last one stay where they may be
LEMMA Kept ==
  ASSUME ParserInv, Parsing, NEW i \in 1 .. Len(rules) - 1,
         \A j \in 1 .. i : rules'[j] = rules[j]
  PROVE  RuleOk(i)'
<1>1. i \in DOMAIN rules /\ i < Len(rules) /\ i \in Nat
  BY Top
<1>2. RuleOk(i)
  BY <1>1 DEF ParserInv
<1>3. Around(i)' = Around(i)
  BY <1>1, SameAround
<1>4. rules'[i] = rules[i]
  OBVIOUS
<1> QED BY <1>1, <1>2, <1>3, <1>4 DEF RuleOk

LEMMA RestReplaced ==
  ASSUME ParserInv, Parsing, NEW t \in Rests(Current.rule),
         NEW u, u = WithLast(rules, Frame(Current.rule, t)), NEW n, n = Len(rules)
  PROVE  /\ u \in Seq(Remains) /\ Len(u) = n /\ u # << >> /\ DOMAIN u = 1 .. n
         /\ \A i \in 1 .. n - 1 : u[i] = rules[i]
         /\ u[n] = Frame(Current.rule, t)
<1> DEFINE f == Frame(Current.rule, t)
<1>1. f \in Remains
  BY Top DEF Remains, Frame
<1>2. rules \in Seq(Remains) /\ rules # << >> /\ n \in Nat \ {0}
  BY Top DEF ParserInv
<1> HIDE DEF f
<1>3. Len(WithLast(rules, f)) = Len(rules)
  BY <1>1, <1>2, LastReplaced
<1>4. WithLast(rules, f) \in Seq(Remains)
  BY <1>1, <1>2, LastReplaced
<1>5. WithLast(rules, f) # << >>
  BY <1>2, <1>3
<1>6. WithLast(rules, f)[n] = f
  BY <1>1, <1>2, LastReplaced
<1>7. u = WithLast(rules, f)
  BY DEF f
<1>8. \A i \in 1 .. n - 1 : u[i] = rules[i]
  <2> SUFFICES ASSUME NEW i \in 1 .. Len(rules) - 1 PROVE WithLast(rules, f)[i] = rules[i]
    BY <1>7
  <2> QED BY <1>1, <1>2, LastReplaced
<1> QED BY <1>2, <1>3, <1>4, <1>5, <1>6, <1>7, <1>8 DEF f

LEMMA LastKept ==
  ASSUME ParserInv, Parsing
  PROVE  WithLast(rules, Frame(Current.rule, Current.rest)) = rules
<1>1. PICK u, n : u = WithLast(rules, Frame(Current.rule, Current.rest)) /\ n = Len(rules)
  OBVIOUS
<1>2. /\ u \in Seq(Remains) /\ Len(u) = n
      /\ \A i \in 1 .. n - 1 : u[i] = rules[i]
      /\ u[n] = Frame(Current.rule, Current.rest)
  BY <1>1, Top, RestReplaced
<1>3. Frame(Current.rule, Current.rest) = rules[n]
  BY <1>1, Top DEF Frame, Remains, Current
<1>4. rules \in Seq(Remains) /\ n \in Nat \ {0}
  BY <1>1, Top DEF ParserInv
<1> QED BY <1>1, <1>2, <1>3, <1>4, SeqEqual

\* The rest of the last rule becomes t
Advance(t) == rules' = Append(Left, [Current EXCEPT !.rest = t])

\* A rule goes on to the next item: what is around the others stays
LEMMA Advancing ==
  ASSUME ParserInv, Parsing, NEW t \in Rests(Current.rule),
         Remembered(Current.rule, t, Around(Len(rules))), Advance(t)
  PROVE  /\ rules' \in Seq(Remains) /\ rules' # << >>
         /\ \A i \in DOMAIN rules' : RuleOk(i)'
         /\ Entered' = Around(Len(rules)) \cup
                         {q \in Entering : Current.rule = q /\ t \in Holding(q)}
<1> DEFINE f == Frame(Current.rule, t)
<1>n. PICK n \in Nat \ {0} : n = Len(rules)
  BY Top
<1>1. f \in Remains /\ f.rule = Current.rule /\ f.rest = t
  BY Top DEF Remains, Frame
<1>2. /\ rules' \in Seq(Remains) /\ Len(rules') = n /\ rules' # << >>
      /\ \A i \in 1 .. n : rules'[i] = IF i = n THEN f ELSE rules[i]
  <2>1. rules' = WithLast(rules, f)
    BY Top DEF Advance, Left, WithLast
  <2> HIDE DEF f
  <2>2. PICK u : u = rules'
    OBVIOUS
  <2>3. /\ u \in Seq(Remains) /\ Len(u) = n /\ u # << >>
        /\ \A i \in 1 .. n - 1 : u[i] = rules[i]
        /\ u[n] = f
    BY <1>n, <2>1, <2>2, RestReplaced DEF f
  <2> QED BY <2>2, <2>3
<1>3. DOMAIN rules' = 1 .. n /\ DOMAIN rules = 1 .. n
  BY <1>n, <1>2, Top
<1>4. rules'[n] = f /\ rules[n] = Current
  BY <1>n, <1>2 DEF Current
<1> HIDE DEF f
<1>5. \A i \in 1 .. n : rules'[i].rule = rules[i].rule
  BY <1>1, <1>2, <1>3, <1>4
<1>6. Around(n)' = Around(n)
  <2>1. n \in Nat /\ \A j \in 1 .. n - 1 : rules'[j].rule = rules[j].rule
    BY <1>5
  <2> QED BY <2>1, SameAround
<1>7. RuleOk(n)'
  <2>1. RuleOk(n)
    BY <1>n, Top
  <2> QED BY <1>n, <1>1, <1>2, <1>4, <1>6, <2>1 DEF RuleOk
<1>8. \A i \in DOMAIN rules' : RuleOk(i)'
  <2> SUFFICES ASSUME NEW i \in 1 .. n - 1 PROVE RuleOk(i)'
    BY <1>3, <1>7
  <2>1. \A j \in 1 .. i : rules'[j] = rules[j]
    BY <1>2, <1>3
  <2> QED BY <1>n, <2>1, Kept
<1>9. ASSUME NEW q \in Entering
      PROVE  q \in Entered' <=> q \in Around(n) \/ (Current.rule = q /\ t \in Holding(q))
  <2>1. q \in Entered' <=> \E i \in 1 .. n : rules'[i].rule = q /\ rules'[i].rest \in Holding(q)
    BY <1>3 DEF Entered
  <2>2. (\E i \in 1 .. n : rules'[i].rule = q /\ rules'[i].rest \in Holding(q)) <=>
          \/ \E i \in 1 .. n - 1 : rules[i].rule = q /\ rules[i].rest \in Holding(q)
          \/ Current.rule = q /\ t \in Holding(q)
    BY <1>1, <1>2, <1>3, <1>4
  <2>3. (\E i \in 1 .. n - 1 : rules[i].rule = q /\ rules[i].rest \in Holding(q))
          <=> q \in Around(n)
    <3>1. \A i \in 1 .. n - 1 : RuleOk(i) /\ i < Len(rules)
      BY <1>n, <1>3 DEF ParserInv
    <3> QED BY <3>1 DEF RuleOk, Around, Inside
  <2> QED BY <2>1, <2>2, <2>3
<1>10. Entered' = Around(n) \cup {q \in Entering : Current.rule = q /\ t \in Holding(q)}
  BY <1>9 DEF Entered, Around
<1> QED BY <1>n, <1>2, <1>8, <1>10

\* A rule is called, and the rest of its caller becomes t
Call(t, q, a) == rules' = Append(WithLast(rules, Frame(Current.rule, t)), Frame(q, a))

\* A rule is called by another one, in which it may be
LEMMA CallingOn ==
  ASSUME ParserInv, Parsing,
         NEW t \in Rests(Current.rule), Remembered(Current.rule, t, Around(Len(rules))),
         Current.rule \in Entering => /\ Current.rest \in Holding(Current.rule)
                                      /\ t \in Holding(Current.rule),
         NEW q \in RuleNames \ {"compilationUnit"}, NEW a \in Grammar[q],
         AllowedIn(q, Around(Len(rules)) \cup ({Current.rule} \cap Entering)),
         q = "metaDecl" => Current.rule = "compilationUnit",
         Call(t, q, a)
  PROVE  /\ rules' \in Seq(Remains) /\ rules' # << >>
         /\ \A i \in DOMAIN rules' : RuleOk(i)'
         /\ Entered' = Entered
<1> DEFINE f == Frame(Current.rule, t)
           g == Frame(q, a)
<1>n. PICK n \in Nat \ {0} : n = Len(rules)
  BY Top
<1>1. /\ f.rule = Current.rule /\ f.rest = t /\ g.rule = q /\ g.rest = a
      /\ g \in Remains /\ a \in Rests(q) /\ a \notin Holding(q)
  BY Starting DEF Remains, Frame
<1>2. /\ rules' \in Seq(Remains) /\ Len(rules') = n + 1
      /\ \A i \in 1 .. n - 1 : rules'[i] = rules[i]
      /\ rules'[n] = f /\ rules'[n + 1] = g
  <2>1. PICK u : u = WithLast(rules, f)
    OBVIOUS
  <2>2. /\ u \in Seq(Remains) /\ Len(u) = n
        /\ \A i \in 1 .. n - 1 : u[i] = rules[i]
        /\ u[n] = f
    BY <1>n, <2>1, RestReplaced
  <2>3. rules' = Append(u, g)
    BY <2>1 DEF Call
  <2> HIDE DEF f, g
  <2> QED BY <1>1, <2>2, <2>3, AppendProperties
<1>3. DOMAIN rules' = 1 .. n + 1 /\ DOMAIN rules = 1 .. n /\ rules' # << >>
  BY <1>n, <1>2, Top
<1> HIDE DEF f, g
<1>4. rules[n] = Current
  BY <1>n DEF Current
<1>5. \A i \in 1 .. n : rules'[i].rule = rules[i].rule
  BY <1>1, <1>2, <1>4
<1>6. Around(n)' = Around(n)
  <2>1. n \in Nat /\ \A j \in 1 .. n - 1 : rules'[j].rule = rules[j].rule
    BY <1>5
  <2> QED BY <2>1, SameAround
<1>7. PICK m \in Nat : m = n + 1
  OBVIOUS
<1>8. Around(m)' = Around(n) \cup ({Current.rule} \cap Entering)
  <2>1. ASSUME NEW x \in Entering
        PROVE  (\E j \in 1 .. n : rules'[j].rule \in {x}) <=> 
                 (\E j \in 1 .. n - 1 : rules[j].rule \in {x}) \/ x = Current.rule
    BY <1>2, <1>4, <1>5
  <2> QED BY <1>7, <2>1 DEF Around, Inside
<1>9. RuleOk(n)'
  <2>1. RuleOk(n)
    BY <1>n, Top
  <2> QED BY <1>n, <1>1, <1>2, <1>6, <1>4, <2>1 DEF RuleOk
<1>10. RuleOk(m)'
  <2>1. Remembered(q, a, Around(m)')
    BY NothingRemembered
  <2>2. rules'[m].rule = q /\ rules'[m].rest = a /\ Len(rules') = m /\ m # 1
    BY <1>1, <1>2, <1>7
  <2>3. q = "metaDecl" => m = 2
    BY <1>n, <1>7, Top DEF RuleOk, Current
  <2> QED BY <1>n, <1>1, <1>8, <2>1, <2>2, <2>3 DEF RuleOk
<1>11. \A i \in DOMAIN rules' : RuleOk(i)'
  <2> SUFFICES ASSUME NEW i \in 1 .. n - 1 PROVE RuleOk(i)'
    BY <1>3, <1>7, <1>9, <1>10
  <2>1. \A j \in 1 .. i : rules'[j] = rules[j]
    BY <1>2, <1>3
  <2> QED BY <1>n, <2>1, Kept
<1>12. ASSUME NEW x \in Entering
       PROVE  x \in Entered' <=> x \in Entered
  <2>1. x \in Entered' <=> \E i \in 1 .. n + 1 : rules'[i].rule = x /\ rules'[i].rest \in Holding(x)
    BY <1>3 DEF Entered
  <2>2. x \in Entered <=> \E i \in 1 .. n : rules[i].rule = x /\ rules[i].rest \in Holding(x)
    BY <1>3 DEF Entered
  <2> QED BY <1>1, <1>2, <1>4, <2>1, <2>2
<1>13. Entered' = Entered
  BY <1>12 DEF Entered
<1> QED BY <1>2, <1>3, <1>11, <1>13

\* The last rule ends
LEMMA Returning ==
  ASSUME ParserInv, Parsing, Current.rest = << >>, rules' = Left
  PROVE  /\ rules' \in Seq(Remains)
         /\ rules' = << >> <=> Len(rules) = 1
         /\ \A i \in DOMAIN rules' : RuleOk(i)'
         /\ Entered' = Entered
         /\ Len(rules) = 1 => Entered = {}
<1>n. PICK n \in Nat \ {0} : n = Len(rules)
  BY Top
<1>1. /\ rules' \in Seq(Remains) /\ Len(rules') = n - 1
      /\ \A i \in 1 .. n - 1 : rules'[i] = rules[i]
  <2>1. PICK u, m : u = SubSeq(rules, 1, m) /\ m = n - 1
    OBVIOUS
  <2>2. m \in Nat /\ 1 \in Int /\ m \in Int /\ n = m + 1
    BY <2>1
  <2>3. \A i \in 1 .. m : rules[i] \in Remains
    <3>1. rules \in Seq(Remains)
      BY DEF ParserInv
    <3>2. \A i \in 1 .. Len(rules) : rules[i] \in Remains
      BY <3>1, ElementOfSeq
    <3> QED BY <1>n, <2>2, <3>2
  <2>4. /\ u \in Seq(Remains) /\ Len(u) = IF 1 <= m THEN m - 1 + 1 ELSE 0
        /\ \A i \in 1 .. m - 1 + 1 : u[i] = rules[1 + i - 1]
    BY <2>1, <2>2, <2>3, SubSeqProperties
  <2>5. Len(u) = m /\ \A i \in 1 .. m : u[i] = rules[i]
    BY <2>2, <2>4
  <2>6. rules' = u
    BY <1>n, <2>1 DEF Left
  <2> QED BY <2>1, <2>4, <2>5, <2>6
<1>2. DOMAIN rules' = 1 .. n - 1 /\ DOMAIN rules = 1 .. n
  BY <1>n, <1>1, Top
<1>3. rules' = << >> <=> Len(rules) = 1
  BY <1>n, <1>1
<1>4. \A i \in DOMAIN rules' : RuleOk(i)'
  <2> SUFFICES ASSUME NEW i \in 1 .. n - 1 PROVE RuleOk(i)'
    BY <1>2
  <2>1. \A j \in 1 .. i : rules'[j] = rules[j]
    BY <1>1, <1>2
  <2> QED BY <1>n, <2>1, Kept
<1>5. ASSUME NEW x \in Entering
      PROVE  x \in Entered' <=> x \in Entered
  <2>1. x \in Entered' <=> \E i \in 1 .. n - 1 : rules'[i].rule = x /\ rules'[i].rest \in Holding(x)
    BY <1>2 DEF Entered
  <2>2. x \in Entered <=> \E i \in 1 .. n : rules[i].rule = x /\ rules[i].rest \in Holding(x)
    BY <1>2 DEF Entered
  <2>3. rules[n].rest \notin Holding(rules[n].rule)
    BY <1>n, Top, NoRest DEF Current
  <2> QED BY <1>1, <1>2, <2>1, <2>2, <2>3
<1>6. Entered' = Entered
  BY <1>5 DEF Entered
<1>7. Len(rules) = 1 => Entered = {}
  <2>1. Len(rules) = 1 => Entered' = {}
    BY <1>3 DEF Entered
  <2> QED BY <1>6, <2>1
<1> QED BY <1>1, <1>3, <1>4, <1>6, <1>7

(***************************************************************************)
(* The steps of the parser.                                                *)
(***************************************************************************)

\* What is known where the parser stands in front of an item
LEMMA InFront ==
  ASSUME ParserInv, NEW ops, At(ops)
  PROVE  /\ Parsing /\ Current.rest # << >> /\ Upcoming = Current.rest[1] /\ Upcoming.op \in ops
         /\ Tail(Current.rest) \in Rests(Current.rule)
         /\ Progress(Current.rule, Current.rest)
         /\ AllowedIn(Current.rule, Around(Len(rules)))
         /\ Remembered(Current.rule, Current.rest, Around(Len(rules)))
         /\ Around(Len(rules)) \subseteq Entering
<1>1. Parsing /\ Current.rest # << >> /\ Upcoming = Current.rest[1] /\ Upcoming.op \in ops
  BY DEF At, Upcoming
<1>2. /\ Tail(Current.rest) \in Rests(Current.rule)
      /\ Progress(Current.rule, Current.rest)
  BY <1>1, Top, Shorter, Progressing
<1> QED BY <1>1, <1>2, Top DEF RuleOk, Current, Around

\* An item is done that is no predicate
LEMMA Done ==
  ASSUME ParserInv, NEW ops, At(ops), "predicate" \notin ops, rules' = Continued
  PROVE  /\ rules' \in Seq(Remains) /\ rules' # << >>
         /\ \A i \in DOMAIN rules' : RuleOk(i)'
         /\ Entered' = Around(Len(rules)) \cup
              {q \in Entering : Current.rule = q /\ Tail(Current.rest) \in Holding(q)}
<1>1. Remembered(Current.rule, Tail(Current.rest), Around(Len(rules)))
  <2>1. Current.rest # << >> /\ Current.rest[1].op # "predicate" /\ Parsing
    BY InFront
  <2>2. Current.rule \in RuleNames /\ Current.rest \in Rests(Current.rule)
    BY <2>1, Top
  <2> QED BY <2>1, <2>2, NothingRemembered
<1>2. Advance(Tail(Current.rest))
  BY Top DEF Continued, Advance
<1> QED BY <1>1, <1>2, InFront, Advancing

\* The rule that fails is left
LEMMA Abandoning ==
  ASSUME ParserInv, Fails, rules' = Abandoned
  PROVE  /\ rules' \in Seq(Remains) /\ rules' # << >>
         /\ \A i \in DOMAIN rules' : RuleOk(i)'
         /\ Entered' = Entered
<1>1. At(MayFail)
  BY DEF Fails, At, MayFail
<1>2. Remembered(Current.rule, << >>, Around(Len(rules))) /\ << >> \in Rests(Current.rule)
  BY <1>1, InFront, Top, NothingRemembered, NoRest
<1>3. Advance(<< >>)
  BY DEF Abandoned, Advance
<1>4. /\ rules' \in Seq(Remains) /\ rules' # << >>
      /\ \A i \in DOMAIN rules' : RuleOk(i)'
      /\ Entered' = Around(Len(rules)) \cup
           {q \in Entering : Current.rule = q /\ << >> \in Holding(q)}
  BY <1>1, <1>2, <1>3, InFront, Advancing
<1>5. Entered' = Entered
  BY <1>1, <1>4, InFront, EnteredAround, Top, NoRest DEF Progress
<1> QED BY <1>4, <1>5

\* A rule is called
LEMMA CallKept ==
  ASSUME ParserInv, CallRule \/ IterateLoop
  PROVE  /\ rules' \in Seq(Remains) /\ rules' # << >>
         /\ \A i \in DOMAIN rules' : RuleOk(i)'
         /\ Entered' = Entered
<1>1. At({"rule", "maybe", "many"})
  BY DEF CallRule, IterateLoop, At
<1>q. PICK q \in Upcoming.of :
        \E a \in Grammar[q] :
          \/ CallRule /\ rules' = Append(Continued, Frame(q, a))
          \/ IterateLoop /\ rules' = Append(rules, Frame(q, a))
  BY DEF CallRule, IterateLoop
<1>2. PICK a \in Grammar[q] :
        \/ CallRule /\ rules' = Append(Continued, Frame(q, a))
        \/ IterateLoop /\ rules' = Append(rules, Frame(q, a))
  BY <1>q
<1>3. /\ q \in RuleNames \ {"compilationUnit"}
      /\ AllowedIn(q, Around(Len(rules)) \cup ({Current.rule} \cap Entering))
      /\ q = "metaDecl" => Current.rule = "compilationUnit"
  <2>1. /\ Current.rest # << >> /\ Current.rest[1].op \in {"rule", "maybe", "many"}
        /\ Parsing /\ q \in Current.rest[1].of
        /\ AllowedIn(Current.rule, Around(Len(rules)))
        /\ Remembered(Current.rule, Current.rest, Around(Len(rules)))
        /\ Around(Len(rules)) \subseteq Entering
    BY <1>1, InFront
  <2>2. Current.rule \in RuleNames /\ Current.rest \in Rests(Current.rule)
    BY <2>1, Top
  <2> QED BY <2>1, <2>2, Calling
<1>4. CASE CallRule /\ rules' = Append(Continued, Frame(q, a))
  <2>1. At({"rule", "maybe"})
    BY <1>4 DEF CallRule
  <2>2. Call(Tail(Current.rest), q, a)
    BY <1>4, Top, <1>1, InFront DEF Continued, Call, WithLast, Left
  <2>3. Remembered(Current.rule, Tail(Current.rest), Around(Len(rules)))
    <3>1. Current.rest # << >> /\ Current.rest[1].op # "predicate" /\ Parsing
      BY <2>1, InFront
    <3>2. Current.rule \in RuleNames /\ Current.rest \in Rests(Current.rule)
      BY <3>1, Top
    <3> QED BY <3>1, <3>2, NothingRemembered
  <2>4. Current.rule \in Entering => /\ Current.rest \in Holding(Current.rule)
                                     /\ Tail(Current.rest) \in Holding(Current.rule)
    BY <2>1, InFront DEF Progress, Changing
  <2> QED BY <1>1, <1>3, <2>2, <2>3, <2>4, InFront, CallingOn
<1>5. CASE IterateLoop /\ rules' = Append(rules, Frame(q, a))
  <2>1. At({"many"})
    BY <1>5 DEF IterateLoop
  <2>2. Call(Current.rest, q, a)
    BY <1>1, <1>5, InFront, LastKept DEF Call
  <2>3. Current.rule \notin Entering
    BY <2>1, InFront DEF Progress
  <2> QED BY <1>1, <1>3, <2>2, <2>3, InFront, Top, CallingOn
<1> QED BY <1>2, <1>4, <1>5

\* What the invariant says of the new state when the rules are as they should be
LEMMA Closing ==
  ASSUME ParserInv,
         rules' \in Seq(Remains), rules' # << >>, \A i \in DOMAIN rules' : RuleOk(i)',
         parser' = "parsing", left' \in 0 .. MaxIterations, syntaxErrors' \in 0 .. MaxSyntaxErrors,
         depths' = Stack(Entered')
  PROVE  ParserInv'
BY DEF ParserInv, Stack

\* Where the parser stands in front of a predicate it is in a meta decl, and what
\* the predicate tells is remembered
LEMMA PredicateRemembered ==
  ASSUME ParserInv, At({"predicate"})
  PROVE  /\ ~AskedOutside
         /\ NextHolds => Remembered(Current.rule, Tail(Current.rest), Around(Len(rules)))
<1> DEFINE A == Around(Len(rules))
<1>1. /\ Parsing /\ Current.rest # << >> /\ Upcoming = Current.rest[1]
      /\ Current.rest[1].op = "predicate"
      /\ Current.rest \notin Holding(Current.rule)
      /\ AllowedIn(Current.rule, A) /\ A \subseteq Entering
  BY InFront DEF Progress, MayFail
<1>2. Current.rule \in RuleNames /\ Current.rest \in Rests(Current.rule)
  BY <1>1, Top
<1>3. depths = Stack(A)
  BY <1>1, EnteredAround DEF ParserInv
<1>4. \A p : Upcoming.of = {p} => (NextHolds <=> Holds(p))
  BY DEF NextHolds
<1> HIDE DEF A
<1>5. isInMetaDecl <=> "metaDecl" \in A
  BY <1>3 DEF isInMetaDecl, Stack
<1>6. /\ isInMetaDepth("global") => "functionDecl" \notin A
      /\ isInMetaDepth("local") => "functionDecl" \in A
      /\ isInMetaDecl /\ ~isInMetaDepth("none") => A \cap Calculations = {}
  BY <1>3, <1>5 DEF isInMetaDepth, isInMetaDecl, Stack
<1>7. isInMetaDecl => ~AskedOutside
  BY DEF AskedOutside
<1>8. CASE /\ Current.rule = "runtimeGlobalScopeNode" /\ Upcoming.of = {"inMetaDecl"}
           /\ Tail(Current.rest) = <<Invoke({"metaStmt"})>>
  <2>1. ~AskedOutside
    BY <1>8 DEF AskedOutside, Levels
  <2>2. NextHolds => "metaDecl" \in A
    BY <1>4, <1>5, <1>8 DEF Holds
  <2>3. A \cap Calculations = {}
    BY <1>1, <1>8 DEF AllowedIn, Calculations
  <2>4. NextHolds => Remembered("runtimeGlobalScopeNode", <<Invoke({"metaStmt"})>>, A)
    BY <2>2, <2>3, Remembering
  <2> QED BY <1>8, <2>1, <2>4 DEF A
<1>9. CASE /\ Current.rule = "metaScopeNode" /\ Upcoming.of = {"global"}
           /\ Tail(Current.rest) = <<Invoke({"runtimeGlobalScopeNode"})>>
  <2>1. ~AskedOutside
    BY <1>1, <1>5, <1>7, <1>9 DEF AllowedIn, MetaRules
  <2>2. NextHolds => "functionDecl" \notin A
    BY <1>4, <1>6, <1>9 DEF Holds
  <2>3. NextHolds => Remembered("metaScopeNode", <<Invoke({"runtimeGlobalScopeNode"})>>, A)
    BY <2>2, Remembering
  <2> QED BY <1>9, <2>1, <2>3 DEF A
<1>10. CASE /\ Current.rule = "metaScopeNode" /\ Upcoming.of = {"local"}
            /\ Tail(Current.rest) = <<Invoke({"statement"})>>
  <2>1. ~AskedOutside
    BY <1>1, <1>5, <1>7, <1>10 DEF AllowedIn, MetaRules
  <2>2. NextHolds => "functionDecl" \in A
    BY <1>4, <1>6, <1>10 DEF Holds
  <2>3. NextHolds => Remembered("metaScopeNode", <<Invoke({"statement"})>>, A)
    BY <2>2, Remembering
  <2> QED BY <1>10, <2>1, <2>3 DEF A
<1>11. CASE /\ Current.rule = "statement" /\ Upcoming.of = {"inMetaContribution"}
            /\ Tail(Current.rest) = <<Invoke({"metaStmt"})>>
  <2>1. ~AskedOutside
    BY <1>11 DEF AskedOutside, Levels
  <2>2. NextHolds => "metaDecl" \in A /\ A \cap Calculations = {}
    BY <1>4, <1>5, <1>6, <1>11 DEF Holds
  <2>3. NextHolds => Remembered("statement", <<Invoke({"metaStmt"})>>, A)
    BY <2>2, Remembering
  <2> QED BY <1>11, <2>1, <2>3 DEF A
<1>12. Upcoming.of = Current.rest[1].of
  BY <1>1
<1> QED BY <1>1, <1>2, <1>8, <1>9, <1>10, <1>11, <1>12, Predicates

\* The depths that belong to a set of rules
LEMMA StackTyped == \A entered : Stack(entered) \in Seq(Levels)
<1>1. "global" \in Levels /\ "local" \in Levels /\ "none" \in Levels
  BY DEF Levels
<1>2. \A S : << >> \in Seq(S)
  OBVIOUS
<1>3. \A S : \A a \in S : <<a>> \in Seq(S)
  OBVIOUS
<1>4. \A S : \A a, b \in S : <<a, b>> \in Seq(S)
  OBVIOUS
<1>5. \A S : \A a, b, c \in S : <<a, b, c>> \in Seq(S)
  OBVIOUS
<1> QED BY <1>1, <1>2, <1>3, <1>4, <1>5 DEF Stack

LEMMA Appended ==
  /\ \A a : Append(<< >>, a) = <<a>>
  /\ \A a, b : Append(<<a>>, b) = <<a, b>>
  /\ \A a, b, c : Append(<<a, b>>, c) = <<a, b, c>>
<1>1. ASSUME NEW a PROVE Append(<< >>, a) = <<a>>
  OBVIOUS
<1>2. ASSUME NEW a, NEW b PROVE Append(<<a>>, b) = <<a, b>>
  <2>1. <<a>> \in Seq({a, b}) /\ <<a, b>> \in Seq({a, b}) /\ Len(<<a>>) = 1 /\ Len(<<a, b>>) = 2
    OBVIOUS
  <2>2. PICK t : t = Append(<<a>>, b)
    OBVIOUS
  <2>3. t \in Seq({a, b}) /\ Len(t) = 2 /\ t[1] = <<a>>[1] /\ t[2] = b
    BY <2>1, <2>2, AppendProperties
  <2>4. PICK u : u = <<a, b>>
    OBVIOUS
  <2>5. \A i \in 1 .. 2 : t[i] = u[i]
    BY <2>3, <2>4
  <2>6. t \in Seq({a, b}) /\ u \in Seq({a, b}) /\ Len(t) = 2 /\ Len(u) = 2
    BY <2>1, <2>3, <2>4
  <2> QED BY <2>2, <2>4, <2>5, <2>6, SeqEqual
<1>3. ASSUME NEW a, NEW b, NEW c PROVE Append(<<a, b>>, c) = <<a, b, c>>
  <2>1. /\ <<a, b>> \in Seq({a, b, c}) /\ <<a, b, c>> \in Seq({a, b, c})
        /\ Len(<<a, b>>) = 2 /\ Len(<<a, b, c>>) = 3
    OBVIOUS
  <2>2. PICK t : t = Append(<<a, b>>, c)
    OBVIOUS
  <2>3. /\ t \in Seq({a, b, c}) /\ Len(t) = 3
        /\ t[1] = <<a, b>>[1] /\ t[2] = <<a, b>>[2] /\ t[3] = c
    BY <2>1, <2>2, AppendProperties
  <2>4. PICK u : u = <<a, b, c>>
    OBVIOUS
  <2>5. \A i \in 1 .. 3 : t[i] = u[i]
    BY <2>3, <2>4
  <2>6. t \in Seq({a, b, c}) /\ u \in Seq({a, b, c}) /\ Len(t) = 3 /\ Len(u) = 3
    BY <2>1, <2>3, <2>4
  <2> QED BY <2>2, <2>4, <2>5, <2>6, SeqEqual
<1> QED BY <1>1, <1>2, <1>3

\* What a rule that enters a depth does to the stack
LEMMA StackGrows ==
  ASSUME NEW r \in Entering, NEW around, around \subseteq Entering, AllowedIn(r, around),
         r = "functionDecl" => "metaDecl" \in around
  PROVE  /\ Stack(around \cup {r}) = Append(Stack(around), LevelOf(r))
         /\ r = "functionDecl" => Stack(around) = <<"global">>
<1>1. CASE r = "metaDecl"
  BY <1>1, Appended DEF AllowedIn, Stack, LevelOf, Calculations
<1>2. CASE r = "functionDecl"
  BY <1>2, Appended DEF AllowedIn, Stack, LevelOf, Calculations
<1>3. CASE r \in Calculations
  <2>1. "metaDecl" \in around /\ around \cap Calculations = {}
    BY <1>3 DEF AllowedIn, MetaRules, Calculations
  <2>2. "metaDecl" \in around \cup {r} /\ (around \cup {r}) \cap Calculations # {}
    BY <1>3, <2>1
  <2>3. "functionDecl" \in around \cup {r} <=> "functionDecl" \in around
    BY <1>3 DEF Calculations
  <2>4. LevelOf(r) = "none"
    BY <1>3 DEF LevelOf, Calculations
  <2>5. /\ Append(<<"global">>, "none") = <<"global", "none">>
        /\ Append(<<"global", "local">>, "none") = <<"global", "local", "none">>
    BY Appended
  <2> QED BY <2>1, <2>2, <2>3, <2>4, <2>5 DEF Stack
<1> QED BY <1>1, <1>2, <1>3 DEF Entering

LEMMA AppendPopped ==
  ASSUME NEW S, NEW s \in Seq(S), NEW x \in S
  PROVE  /\ Append(s, x) # << >>
         /\ SubSeq(Append(s, x), 1, Len(Append(s, x)) - 1) = s
<1> DEFINE t == Append(s, x)
<1>1. /\ t \in Seq(S) /\ Len(t) = Len(s) + 1 /\ Len(s) \in Nat
      /\ \A i \in 1 .. Len(s) : t[i] = s[i]
  BY AppendProperties, LenProperties
<1>2. t # << >>
  BY <1>1
<1> HIDE DEF t
<1>3. \A i \in 1 .. Len(s) : t[i] \in S
  BY <1>1, ElementOfSeq
<1>4. /\ SubSeq(t, 1, Len(s)) \in Seq(S)
      /\ Len(SubSeq(t, 1, Len(s))) = IF 1 <= Len(s) THEN Len(s) - 1 + 1 ELSE 0
      /\ \A i \in 1 .. Len(s) - 1 + 1 : SubSeq(t, 1, Len(s))[i] = t[1 + i - 1]
  BY <1>1, <1>3, SubSeqProperties
<1>5. Len(SubSeq(t, 1, Len(s))) = Len(s) /\ \A i \in 1 .. Len(s) : SubSeq(t, 1, Len(s))[i] = s[i]
  BY <1>1, <1>4
<1>6. SubSeq(t, 1, Len(s)) = s
  BY <1>4, <1>5, SeqEqual
<1>7. Len(t) - 1 = Len(s)
  BY <1>1
<1> QED BY <1>2, <1>6, <1>7 DEF t

\* The actions of the grammar that enter or leave a depth or assert one
LEMMA ActKept ==
  ASSUME ParserInv,
         CheckAssert \/ EnterDepth \/ LeaveDepth \/ EnterFunctionDepth \/ LeaveFunctionDepth
  PROVE  /\ parser' = parser /\ UNCHANGED <<left, syntaxErrors>>
         /\ rules' \in Seq(Remains) /\ rules' # << >>
         /\ \A i \in DOMAIN rules' : RuleOk(i)'
         /\ depths' = Stack(Entered')
<1> DEFINE r == Current.rule
           s == Current.rest
           A == Around(Len(rules))
           ops == {"assert"} \cup Changing
<1>1. At(ops) /\ rules' = Continued /\ UNCHANGED <<left, syntaxErrors>>
  BY DEF CheckAssert, EnterDepth, LeaveDepth, EnterFunctionDepth, LeaveFunctionDepth, Act, At,
     Changing
<1>2. /\ rules' \in Seq(Remains) /\ rules' # << >>
      /\ \A i \in DOMAIN rules' : RuleOk(i)'
      /\ Entered' = A \cup {q \in Entering : r = q /\ Tail(s) \in Holding(q)}
  BY <1>1, Done DEF Changing
<1>3. /\ Parsing /\ s # << >> /\ Upcoming = s[1] /\ s[1].op \in ops /\ Progress(r, s)
      /\ AllowedIn(r, A) /\ A \subseteq Entering
  BY <1>1, InFront
<1>4. r \in RuleNames /\ s \in Rests(r)
  BY <1>3, Top
<1>5. depths = Stack(A \cup {q \in Entering : r = q /\ s \in Holding(q)})
  BY <1>3, EnteredAround DEF ParserInv
<1> HIDE DEF r, s, A
<1>6. CASE s[1].op = "assert"
  <2>1. r = "metaDecl" /\ s[1].of = {"outside"} /\ s \notin Holding(r) /\ Tail(s) \notin Holding(r)
    BY <1>3, <1>4, <1>6, EntersItsLevel DEF Progress, Changing
  <2>2. A = {} /\ depths = << >> /\ Entered' = {}
    BY <1>2, <1>3, <1>5, <2>1 DEF AllowedIn, Stack
  <2>3. CheckAssert /\ NextHolds
    BY <1>3, <1>6, <2>1, <2>2 DEF CheckAssert, EnterDepth, LeaveDepth, EnterFunctionDepth,
       LeaveFunctionDepth, At, NextHolds, Holds, isInMetaDecl
  <2>4. depths' = depths /\ parser' = parser
    BY <2>3 DEF CheckAssert, Act
  <2> QED BY <1>1, <1>2, <2>2, <2>4 DEF Stack
<1>7. CASE s[1].op = "enter"
  <2>1. /\ r \in Entering /\ r # "functionDecl" /\ s \notin Holding(r) /\ Tail(s) \in Holding(r)
        /\ s[1].of = {LevelOf(r)}
    BY <1>3, <1>4, <1>7, EntersItsLevel DEF Progress, Changing, Entering, Calculations
  <2>2. depths = Stack(A) /\ Entered' = A \cup {r}
    BY <1>2, <1>5, <2>1
  <2>3. EnterDepth
    BY <1>3, <1>7 DEF CheckAssert, EnterDepth, LeaveDepth, EnterFunctionDepth,
       LeaveFunctionDepth, At
  <2>4. depths' = Append(depths, LevelOf(r)) /\ parser' = parser
    BY <1>3, <2>1, <2>3 DEF EnterDepth, Act
  <2> QED BY <1>1, <1>2, <1>3, <2>1, <2>2, <2>4, StackGrows
<1>8. CASE s[1].op = "leave"
  <2>1. r \in Entering /\ r # "functionDecl" /\ s \in Holding(r) /\ Tail(s) \notin Holding(r)
    BY <1>3, <1>8 DEF Progress, Entering, Calculations
  <2>2. depths = Stack(A \cup {r}) /\ Entered' = A
    BY <1>2, <1>5, <2>1
  <2>3. LeaveDepth
    BY <1>3, <1>8 DEF CheckAssert, EnterDepth, LeaveDepth, EnterFunctionDepth,
       LeaveFunctionDepth, At
  <2>4. depths = Append(Stack(A), LevelOf(r)) /\ LevelOf(r) \in Levels
    BY <1>3, <2>1, <2>2, StackGrows DEF LevelOf, Levels
  <2>5. Popped = Stack(A) /\ isInMetaDecl
    BY <2>4, StackTyped, AppendPopped DEF Popped, isInMetaDecl
  <2>6. depths' = Popped /\ parser' = parser
    BY <2>3, <2>5 DEF LeaveDepth, Act
  <2> QED BY <1>1, <1>2, <2>2, <2>5, <2>6
<1>9. CASE s[1].op = "enterFunction"
  <2>1. r = "functionDecl" /\ r \in Entering /\ s \notin Holding(r) /\ Tail(s) \in Holding(r)
    BY <1>3, <1>9 DEF Progress, Entering
  <2>2. depths = Stack(A) /\ Entered' = A \cup {r}
    BY <1>2, <1>5, <2>1
  <2>3. EnterFunctionDepth
    BY <1>3, <1>9 DEF CheckAssert, EnterDepth, LeaveDepth, EnterFunctionDepth,
       LeaveFunctionDepth, At
  <2>4. CASE "metaDecl" \in A
    <3>1. depths = <<"global">> /\ Stack(A \cup {r}) = Append(depths, "local")
      BY <1>3, <2>1, <2>2, <2>4, StackGrows DEF LevelOf
    <3>2. isInMetaDecl /\ isInMetaDepth("global")
      BY <3>1 DEF isInMetaDecl, isInMetaDepth
    <3>3. depths' = Append(depths, "local") /\ parser' = parser
      BY <2>3, <3>2 DEF EnterFunctionDepth, Act
    <3> QED BY <1>1, <1>2, <2>2, <3>1, <3>3
  <2>5. CASE "metaDecl" \notin A
    <3>1. depths = << >> /\ Stack(A \cup {r}) = << >>
      BY <2>1, <2>2, <2>5 DEF Stack
    <3>2. depths' = depths /\ parser' = parser
      BY <2>3, <3>1 DEF EnterFunctionDepth, Act, isInMetaDecl
    <3> QED BY <1>1, <1>2, <2>2, <3>1, <3>2
  <2> QED BY <2>4, <2>5
<1>10. CASE s[1].op = "leaveFunction"
  <2>1. r = "functionDecl" /\ r \in Entering /\ s \in Holding(r) /\ Tail(s) \notin Holding(r)
    BY <1>3, <1>10 DEF Progress, Entering
  <2>2. depths = Stack(A \cup {r}) /\ Entered' = A
    BY <1>2, <1>5, <2>1
  <2>3. LeaveFunctionDepth
    BY <1>3, <1>10 DEF CheckAssert, EnterDepth, LeaveDepth, EnterFunctionDepth,
       LeaveFunctionDepth, At
  <2>4. CASE "metaDecl" \in A
    <3>1. Stack(A) = <<"global">> /\ depths = Append(Stack(A), "local")
      BY <1>3, <2>1, <2>2, <2>4, StackGrows DEF LevelOf
    <3>2. isInMetaDecl /\ Popped = Stack(A)
      <4>1. Stack(A) \in Seq(Levels) /\ "local" \in Levels
        BY StackTyped DEF Levels
      <4> QED BY <3>1, <4>1, AppendPopped DEF isInMetaDecl, Popped
    <3>3. Popped # << >> /\ Popped[Len(Popped)] = "global"
      BY <3>1, <3>2
    <3>4. depths' = Popped /\ parser' = parser
      BY <2>3, <3>2, <3>3 DEF LeaveFunctionDepth, Act
    <3> QED BY <1>1, <1>2, <2>2, <3>2, <3>4
  <2>5. CASE "metaDecl" \notin A
    <3>1. depths = << >> /\ Stack(A) = << >>
      BY <2>1, <2>2, <2>5 DEF Stack
    <3>2. depths' = depths /\ parser' = parser
      BY <2>3, <3>1 DEF LeaveFunctionDepth, Act, isInMetaDecl
    <3> QED BY <1>1, <1>2, <2>2, <3>1, <3>2
  <2> QED BY <2>4, <2>5
<1> QED BY <1>3, <1>6, <1>7, <1>8, <1>9, <1>10 DEF Changing

LEMMA ParserInitially == ParserInit => ParserInv
<1> SUFFICES ASSUME ParserInit PROVE ParserInv
  OBVIOUS
<1>1. rules = << >> /\ depths = << >> /\ DOMAIN rules = {}
  BY DEF ParserInit
<1>2. Entered = {}
  BY <1>1 DEF Entered
<1> QED BY <1>1, <1>2, MetaDepthAssumption DEF ParserInit, ParserInv, Stack

\* The invariant of the parser is inductive
LEMMA ParserStep ==
  ASSUME ParserInv, StartParsing \/ ParseOn \/ SyntaxErrorReported
  PROVE  ParserInv'
<1>a. left \in 0 .. MaxIterations /\ syntaxErrors \in 0 .. MaxSyntaxErrors /\ depths = Stack(Entered)
  BY DEF ParserInv
<1>1. CASE StartParsing
  <2>1. PICK a \in Grammar["compilationUnit"] : rules' = <<Frame("compilationUnit", a)>>
    BY <1>1 DEF StartParsing
  <2> DEFINE f == Frame("compilationUnit", a)
  <2>2. "compilationUnit" \in RuleNames
    BY TheRules
  <2>3. /\ f.rule = "compilationUnit" /\ f.rest = a /\ f \in Remains
        /\ a \in Rests("compilationUnit") /\ a \notin Holding("compilationUnit")
    BY <2>2, Starting DEF Frame, Remains
  <2> HIDE DEF f
  <2>4. /\ rules' \in Seq(Remains) /\ rules' # << >> /\ rules'[1] = f /\ Len(rules') = 1
        /\ DOMAIN rules' = 1 .. 1
    BY <2>1, <2>3 DEF f
  <2>5. Around(1)' = {}
    BY DEF Around, Inside
  <2>6. RuleOk(1)'
    <3>1. AllowedIn("compilationUnit", {})
      BY DEF AllowedIn, MetaRules, StatementRules, Calculations
    <3>2. Remembered("compilationUnit", a, {})
      BY DEF Remembered
    <3> QED BY <2>3, <2>4, <2>5, <3>1, <3>2 DEF RuleOk
  <2>7. Entered' = {}
    <3>1. "compilationUnit" \notin Entering
      BY DEF Entering, Calculations
    <3> QED BY <2>3, <2>4, <3>1 DEF Entered
  <2>8. depths' = Stack(Entered')
    <3>1. rules = << >> /\ depths' = depths
      BY <1>1 DEF StartParsing, ParserInv
    <3>2. Entered = {}
      BY <3>1 DEF Entered
    <3> QED BY <1>a, <2>7, <3>1, <3>2
  <2>9. \A i \in DOMAIN rules' : RuleOk(i)'
    BY <2>4, <2>6
  <2>10. parser' = "parsing" /\ UNCHANGED <<left, syntaxErrors>>
    BY <1>1 DEF StartParsing
  <2> QED BY <1>a, <2>4, <2>8, <2>9, <2>10, Closing
<1>2. CASE MatchTokens \/ LeaveLoop
  <2>1. /\ At({"tokens", "predicted", "many", "maybe"}) /\ rules' = Continued
        /\ UNCHANGED <<depths, left, syntaxErrors, parser>>
    BY <1>2 DEF MatchTokens, LeaveLoop, Continue, At
  <2>2. /\ rules' \in Seq(Remains) /\ rules' # << >>
        /\ \A i \in DOMAIN rules' : RuleOk(i)'
        /\ Entered' = Around(Len(rules)) \cup
             {q \in Entering : Current.rule = q /\ Tail(Current.rest) \in Holding(q)}
    BY <2>1, Done
  <2>3. Current.rest \in Holding(Current.rule) <=> Tail(Current.rest) \in Holding(Current.rule)
    BY <2>1, InFront DEF Progress, Changing
  <2>4. Entered' = Entered /\ parser = "parsing"
    BY <2>1, <2>2, <2>3, InFront, EnteredAround DEF Parsing
  <2> QED BY <1>a, <2>1, <2>2, <2>4, Closing
<1>3. CASE CallRule \/ IterateLoop
  <2>1. /\ rules' \in Seq(Remains) /\ rules' # << >>
        /\ \A i \in DOMAIN rules' : RuleOk(i)'
        /\ Entered' = Entered
    BY <1>3, CallKept
  <2>2. parser' = "parsing" /\ UNCHANGED <<depths, syntaxErrors>>
    BY <1>3 DEF CallRule, IterateLoop, At, Parsing
  <2>3. left' \in 0 .. MaxIterations
    BY <1>3, <1>a, MetaDepthAssumption DEF CallRule, IterateLoop
  <2> QED BY <1>a, <2>1, <2>2, <2>3, Closing
<1>4. CASE PredicateHolds
  <2>1. At({"predicate"}) /\ Parsing
    BY <1>4 DEF PredicateHolds, At
  <2>2. ~AskedOutside /\ Remembered(Current.rule, Tail(Current.rest), Around(Len(rules)))
    BY <1>4, <2>1, PredicateRemembered DEF PredicateHolds
  <2>3. /\ rules' = Continued /\ UNCHANGED <<depths, parser, left, syntaxErrors>>
    BY <1>4, <2>2 DEF PredicateHolds, Act
  <2>4. Advance(Tail(Current.rest))
    BY <2>3 DEF Continued, Advance
  <2>5. /\ rules' \in Seq(Remains) /\ rules' # << >>
        /\ \A i \in DOMAIN rules' : RuleOk(i)'
        /\ Entered' = Around(Len(rules)) \cup
             {q \in Entering : Current.rule = q /\ Tail(Current.rest) \in Holding(q)}
    BY <2>1, <2>2, <2>4, InFront, Advancing
  <2>6. Current.rest \in Holding(Current.rule) <=> Tail(Current.rest) \in Holding(Current.rule)
    BY <2>1, InFront DEF Progress, Changing
  <2>7. Entered' = Entered
    BY <2>1, <2>5, <2>6, EnteredAround
  <2> QED BY <1>a, <2>1, <2>3, <2>5, <2>7, Closing DEF Parsing
<1>5. CASE CheckAssert \/ EnterDepth \/ LeaveDepth \/ EnterFunctionDepth \/ LeaveFunctionDepth
  <2>1. parser = "parsing"
    BY <1>5 DEF CheckAssert, EnterDepth, LeaveDepth, EnterFunctionDepth, LeaveFunctionDepth, At,
       Parsing
  <2> QED BY <1>5, <1>a, <2>1, ActKept, Closing
<1>6. CASE ReturnRule
  <2>1. /\ Parsing /\ Current.rest = << >> /\ rules' = Left
        /\ UNCHANGED <<depths, left, syntaxErrors>>
    BY <1>6 DEF ReturnRule
  <2>2. /\ rules' \in Seq(Remains)
        /\ rules' = << >> <=> Len(rules) = 1
        /\ \A i \in DOMAIN rules' : RuleOk(i)'
        /\ Entered' = Entered
        /\ Len(rules) = 1 => Entered = {}
    BY <2>1, Returning
  <2>3. CASE Len(rules) = 1
    <3>1. depths = << >>
      BY <1>a, <2>2, <2>3 DEF Stack
    <3>2. parser' = "parsed"
      BY <1>6, <2>3, <3>1 DEF ReturnRule
    <3> QED BY <1>a, <2>1, <2>2, <2>3, <3>2 DEF ParserInv
  <2>4. CASE Len(rules) # 1
    <3>1. Len(rules) > 1
      BY <2>1, <2>4, Top
    <3>2. parser' = "parsing"
      BY <1>6, <3>1 DEF ReturnRule
    <3> QED BY <1>a, <2>1, <2>2, <2>4, <3>2, Closing
  <2> QED BY <2>3, <2>4
<1>7. CASE LeaveSilently
  <2>1. Fails /\ rules' = Abandoned /\ UNCHANGED <<depths, left, syntaxErrors, parser>>
    BY <1>7 DEF LeaveSilently
  <2>2. parser = "parsing"
    BY <2>1 DEF Fails, At, Parsing
  <2> QED BY <1>a, <2>1, <2>2, Abandoning, Closing
<1>8. CASE SyntaxErrorReported
  <2>1. /\ syntaxErrors' \in 0 .. MaxSyntaxErrors /\ UNCHANGED <<depths, left, parser>>
        /\ parser = "parsing"
    BY <1>8, <1>a, MetaDepthAssumption DEF SyntaxErrorReported, Fails, At, Parsing
  <2>2. CASE rules' = rules
    <3>1. Entered' = Entered
      BY <2>2 DEF Entered
    <3>2. \A i : RuleOk(i)' <=> RuleOk(i)
      BY <2>2 DEF RuleOk, Around, Inside
    <3> QED BY <1>a, <2>1, <2>2, <3>1, <3>2 DEF ParserInv
  <2>3. CASE Fails /\ rules' = Abandoned
    BY <1>a, <2>1, <2>3, Abandoning, Closing
  <2> QED BY <1>8, <2>2, <2>3 DEF SyntaxErrorReported
<1> QED BY <1>1, <1>2, <1>3, <1>4, <1>5, <1>6, <1>7, <1>8 DEF ParseOn

LEMMA ParserUnchanged == ASSUME ParserInv, UNCHANGED parserVars PROVE ParserInv'
<1>1. Entered' = Entered
  BY DEF Entered, parserVars
<1>2. \A i : RuleOk(i)' <=> RuleOk(i)
  BY DEF RuleOk, Around, Inside, parserVars
<1> QED BY <1>1, <1>2 DEF ParserInv, parserVars

(***************************************************************************)
(* The parser as the driver runs it.                                       *)
(***************************************************************************)
BehindParser == {"visit", "read", "check", "createCodegen", "codegen"}

\* Each error that the parser counts is one that the diagnostics count, so that
\* the gate behind the parser lets none pass
FrontendInv ==
  /\ CompilerInv /\ ParserInv
  /\ syntaxErrors <= occurrence["Error"]
  /\ stage \in BehindParser => parser = "parsed" /\ syntaxErrors = 0

LEMMA FrontendInitially == CompilerInit => FrontendInv
<1> SUFFICES ASSUME CompilerInit PROVE FrontendInv
  OBVIOUS
<1>1. CompilerInv /\ ParserInv
  BY CompilerInitially, ParserInitially DEF CompilerInit
<1> QED BY <1>1 DEF FrontendInv, BehindParser, CompilerInit, DiagInit, ParserInit, Severities

\* Errors are never taken back
LEMMA MoreErrors ==
  ASSUME DiagInv, DiagSteps
  PROVE  occurrence["Error"] <= occurrence'["Error"]
BY DEF DiagInv, DiagTypeOK, DiagSteps, Emit, Create, ReturnTemporary, MoveResult, Annotate,
   DestroyMoved, DestroyResult, Dispatch, Severities

\* A syntax error is counted by the diagnostics when the parser counts it
LEMMA ErrorCounted ==
  ASSUME DiagInv, SyntaxError("parser")
  PROVE  occurrence'["Error"] = occurrence["Error"] + 1
BY DEF DiagInv, DiagTypeOK, SyntaxError, Create, Severities

\* Behind the parser, only the driver and what diagnoses take steps
Elsewhere ==
  /\ UNCHANGED parserVars
  /\ \/ UNCHANGED occurrence
     \/ UNCHANGED stage /\ DiagSteps
  /\ stage' \in BehindParser => \/ stage \in BehindParser
                                \/ stage = "parse" /\ parser = "parsed" /\ ~HasErrors

\* The invariant of the parser and that of the diagnostics, together
LEMMA FrontendStep == ASSUME FrontendInv, [CompilerNext]_compilerVars PROVE FrontendInv'
<1>1. CompilerInv'
  BY CompilerStep DEF FrontendInv
<1>2. /\ CompilerInv /\ ParserInv /\ DiagInv
      /\ syntaxErrors \in Nat /\ occurrence["Error"] \in Nat
  BY DEF FrontendInv, CompilerInv, ParserInv, DiagInv, DiagTypeOK, Severities
<1>3. CASE Parse
  <2>1. ParserInv'
    BY <1>2, <1>3, ParserStep DEF Parse
  <2>2. stage = "parse" /\ UNCHANGED <<occurrence, stage>>
    BY <1>3 DEF Parse, Ready, diagVars, driverVars
  <2>3. syntaxErrors' = syntaxErrors
    BY <1>3 DEF Parse, StartParsing, ParseOn, MatchTokens, LeaveLoop, Continue, CallRule,
       IterateLoop, PredicateHolds, CheckAssert, EnterDepth, LeaveDepth, EnterFunctionDepth,
       LeaveFunctionDepth, Act, ReturnRule, LeaveSilently
  <2> QED BY <1>1, <2>1, <2>2, <2>3 DEF FrontendInv, BehindParser
<1>4. CASE ReportSyntaxError
  <2>1. ParserInv'
    BY <1>2, <1>4, ParserStep DEF ReportSyntaxError
  <2>2. stage = "parse" /\ stage' = stage
    BY <1>4 DEF ReportSyntaxError, Ready, driverVars
  <2>3. syntaxErrors' = syntaxErrors + 1 /\ occurrence'["Error"] = occurrence["Error"] + 1
    BY <1>2, <1>4, ErrorCounted DEF ReportSyntaxError, SyntaxErrorReported
  <2> QED BY <1>1, <1>2, <2>1, <2>2, <2>3 DEF FrontendInv, BehindParser
<1>5. ASSUME Elsewhere PROVE FrontendInv'
  <2>1. ParserInv' /\ UNCHANGED <<parser, syntaxErrors>>
    BY <1>2, <1>5, ParserUnchanged DEF Elsewhere, parserVars
  <2>2. occurrence["Error"] <= occurrence'["Error"]
    BY <1>2, <1>5, MoreErrors DEF Elsewhere
  <2>3. occurrence'["Error"] \in Nat
    BY <1>1 DEF CompilerInv, DiagInv, DiagTypeOK, Severities
  <2>4. syntaxErrors' <= occurrence'["Error"]
    BY <1>2, <2>1, <2>2, <2>3 DEF FrontendInv
  <2>5. stage' \in BehindParser => parser' = "parsed" /\ syntaxErrors' = 0
    BY <1>2, <1>5, <2>1 DEF FrontendInv, Elsewhere, HasErrors
  <2> QED BY <1>1, <2>1, <2>4, <2>5 DEF FrontendInv
<1>6. CASE LeaveParser
  BY <1>5, <1>6 DEF Elsewhere, LeaveParser, Driver, Ready, Gate, GoTo, Log, diagVars,
     BehindParser
<1>7. CASE \/ ParseCommandLine \/ CreateInstance \/ CompileSourceFile \/ EmitTokens
           \/ LeaveVisitor \/ LeaveReader \/ LeaveAnalysis \/ CreateCodegen \/ LeaveCodegen
  BY <1>5, <1>7 DEF Elsewhere, ParseCommandLine, CreateInstance, CompileSourceFile, EmitTokens,
     LeaveVisitor, LeaveReader, LeaveAnalysis, CreateCodegen, LeaveCodegen, Driver, Ready, Gate,
     GoTo, Log, Dump, diagVars, BehindParser
<1>8. CASE ReportLexerError \/ Diagnose \/ Display
  <2>1. DiagSteps
    BY <1>8 DEF ReportLexerError, SyntaxError, Diagnose, DiagnoseAt, DiagnoseRange, Display,
       DiagSteps, Severities, Phases
  <2>2. UNCHANGED <<parserVars, stage>>
    BY <1>8 DEF ReportLexerError, Diagnose, Display, driverVars
  <2> QED BY <1>5, <2>1, <2>2 DEF Elsewhere
<1>9. CASE UNCHANGED compilerVars
  BY <1>5, <1>9 DEF Elsewhere, compilerVars, diagVars, driverVars
<1> QED BY <1>3, <1>4, <1>6, <1>7, <1>8, <1>9 DEF CompilerNext, Ended

LEMMA FrontendCorrect == CompilerSpec => []FrontendInv
<1> QED BY FrontendInitially, FrontendStep, PTL DEF CompilerSpec

\* No assertion of the grammar or of BasicParser fails, whatever the source and
\* its syntax errors
THEOREM NoAssertionFails == CompilerSpec => []NoParserAssertion
<1>1. FrontendInv => NoParserAssertion
  BY DEF FrontendInv, ParserInv, NoParserAssertion
<1> QED BY <1>1, FrontendCorrect, PTL

\* Meta statements are parsed inside of a meta decl only and not in what is
\* calculated, statements in functions and meta calculations, and functions neither
\* in a function nor in a meta calculation
THEOREM MetaIsWhereAllowed == CompilerSpec => []MetaWhereAllowed
<1>1. FrontendInv => MetaWhereAllowed
  <2> SUFFICES ASSUME ParserInv, NEW i \in DOMAIN rules,
                      NEW r, r = rules[i].rule
               PROVE  /\ r = "metaStmt" => /\ Inside({"metaDecl"}, i)
                                           /\ ~Inside(Calculations, i)
                      /\ r = "functionDecl" => ~Inside({"functionDecl", "metaCalculationStmt"}, i)
                      /\ r = "statement" => Inside({"functionDecl", "metaCalculationStmt"}, i)
    BY DEF FrontendInv, MetaWhereAllowed, Calculations
  <2>1. RuleOk(i)
    BY DEF ParserInv
  <2>2. AllowedIn(r, Around(i))
    BY <2>1 DEF RuleOk
  <2>3. \A q \in Entering : q \in Around(i) <=> \E j \in 1 .. i - 1 : rules[j].rule = q
    BY DEF Around, Inside
  <2>4. r = "metaStmt" => Inside({"metaDecl"}, i) /\ ~Inside(Calculations, i)
    BY <2>2, <2>3 DEF AllowedIn, MetaRules, Inside, Entering, Calculations
  <2>5. r = "functionDecl" => ~Inside({"functionDecl", "metaCalculationStmt"}, i)
    BY <2>2, <2>3 DEF AllowedIn, Inside, Entering, Calculations
  <2>6. r = "statement" => Inside({"functionDecl", "metaCalculationStmt"}, i)
    BY <2>2, <2>3 DEF AllowedIn, StatementRules, Inside, Entering, Calculations
  <2> QED BY <2>4, <2>5, <2>6
<1> QED BY <1>1, FrontendCorrect, PTL

\* A tree that is visited was parsed to the end, without a syntax error and with
\* each depth left again
THEOREM VisitedIsParsed == CompilerSpec => []VisitsWhatWasParsed
<1>1. FrontendInv => VisitsWhatWasParsed
  <2> SUFFICES ASSUME FrontendInv, parser = "parsed" PROVE rules = << >> /\ depths = << >>
    BY DEF FrontendInv, BehindParser, VisitsWhatWasParsed
  <2>1. rules = << >> /\ depths = Stack(Entered)
    BY DEF FrontendInv, ParserInv
  <2>2. Entered = {}
    BY <2>1 DEF Entered
  <2> QED BY <2>1, <2>2 DEF Stack
<1> QED BY <1>1, FrontendCorrect, PTL

(***************************************************************************)
(* The stack holds the depths of the rules which entered one.              *)
(***************************************************************************)
PendingIn(op, s) == \E k \in DOMAIN s : s[k].op = op

\* A rule that still is to leave a depth and no longer to enter it
LEMMA HoldingIsPending ==
  ASSUME NEW r \in RuleNames, NEW s \in Rests(r)
  PROVE  /\ PendingIn("leave", s) /\ ~PendingIn("enter", s)
              <=> s \in Holding(r) /\ r # "functionDecl"
         /\ PendingIn("leaveFunction", s) /\ ~PendingIn("enterFunction", s)
              <=> s \in Holding(r) /\ r = "functionDecl"
<1>e. ASSUME NEW op PROVE ~PendingIn(op, << >>)
  BY DEF PendingIn
<1> USE DEF Item, Tokens, Predicted, Invoke, Many, Maybe, Enter, Leave, Predicate, Assert, NoViable,
  EnterFunction, LeaveFunction
<1>p1. \A a, op : PendingIn(op, <<a>>) <=> a.op = op
  BY DEF PendingIn
<1>p2. \A a, b, op : PendingIn(op, <<a, b>>) <=> a.op = op \/ b.op = op
  BY DEF PendingIn
<1>p3. \A a, b, c, op : PendingIn(op, <<a, b, c>>) <=> a.op = op \/ b.op = op \/ c.op = op
  BY DEF PendingIn
<1>p4. \A a, b, c, d, op : PendingIn(op, <<a, b, c, d>>) <=> a.op = op \/ b.op = op \/ c.op = op \/ d.op = op
  BY DEF PendingIn
<1>p5. \A a, b, c, d, e, op : PendingIn(op, <<a, b, c, d, e>>) <=> a.op = op \/ b.op = op \/ c.op = op \/ d.op = op \/ e.op = op
  BY DEF PendingIn
<1>p6. \A a, b, c, d, e, f, op : PendingIn(op, <<a, b, c, d, e, f>>) <=> a.op = op \/ b.op = op \/ c.op = op \/ d.op = op \/ e.op = op \/ f.op = op
  BY DEF PendingIn
<1>1. CASE r = "metaDecl"
  <2>1. CASE s = <<Tokens, Assert("outside"), Enter("global"), Invoke({"metaContribution"}), Leave, Assert("outside")>>
    BY <1>1, <2>1, <1>p6 DEF Holding
  <2>2. CASE s = <<Assert("outside"), Enter("global"), Invoke({"metaContribution"}), Leave, Assert("outside")>>
    BY <1>1, <2>2, <1>p5 DEF Holding
  <2>3. CASE s = <<Enter("global"), Invoke({"metaContribution"}), Leave, Assert("outside")>>
    BY <1>1, <2>3, <1>p4 DEF Holding
  <2>4. CASE s = <<Invoke({"metaContribution"}), Leave, Assert("outside")>>
    BY <1>1, <2>4, <1>p3 DEF Holding
  <2>5. CASE s = <<Leave, Assert("outside")>>
    BY <1>1, <2>5, <1>p2 DEF Holding
  <2>6. CASE s = <<Assert("outside")>>
    BY <1>1, <2>6, <1>p1 DEF Holding
  <2>7. CASE s = << >>
    BY <1>1, <2>7, <1>e DEF Holding
  <2> QED BY <1>1, <2>1, <2>2, <2>3, <2>4, <2>5, <2>6, <2>7 DEF Rests, From6
<1>2. CASE r = "functionDecl"
  <2>1. CASE s = <<Tokens, EnterFunction, Invoke({"statement"}), LeaveFunction>>
    BY <1>2, <2>1, <1>p4 DEF Holding
  <2>2. CASE s = <<EnterFunction, Invoke({"statement"}), LeaveFunction>>
    BY <1>2, <2>2, <1>p3 DEF Holding
  <2>3. CASE s = <<Invoke({"statement"}), LeaveFunction>>
    BY <1>2, <2>3, <1>p2 DEF Holding
  <2>4. CASE s = <<LeaveFunction>>
    BY <1>2, <2>4, <1>p1 DEF Holding
  <2>5. CASE s = << >>
    BY <1>2, <2>5, <1>e DEF Holding
  <2> QED BY <1>2, <2>1, <2>2, <2>3, <2>4, <2>5 DEF Rests, From4
<1>3. CASE r = "metaCalculationStmt"
  <2>1. CASE s = <<Enter("none"), Predicted, Invoke({"basicCompoundStmt"}), Leave>>
    BY <1>3, <2>1, <1>p4 DEF Holding
  <2>2. CASE s = <<Predicted, Invoke({"basicCompoundStmt"}), Leave>>
    BY <1>3, <2>2, <1>p3 DEF Holding
  <2>3. CASE s = <<Invoke({"basicCompoundStmt"}), Leave>>
    BY <1>3, <2>3, <1>p2 DEF Holding
  <2>4. CASE s = <<Leave>>
    BY <1>3, <2>4, <1>p1 DEF Holding
  <2>5. CASE s = << >>
    BY <1>3, <2>5, <1>e DEF Holding
  <2> QED BY <1>3, <2>1, <2>2, <2>3, <2>4, <2>5 DEF Rests, From4
<1>4. CASE r = "metaCalculationExpr"
  <2>1. CASE s = <<Enter("none"), Invoke({"expr"}), Leave>>
    BY <1>4, <2>1, <1>p3 DEF Holding
  <2>2. CASE s = <<Invoke({"expr"}), Leave>>
    BY <1>4, <2>2, <1>p2 DEF Holding
  <2>3. CASE s = <<Leave>>
    BY <1>4, <2>3, <1>p1 DEF Holding
  <2>4. CASE s = << >>
    BY <1>4, <2>4, <1>e DEF Holding
  <2> QED BY <1>4, <2>1, <2>2, <2>3, <2>4 DEF Rests, From3
<1>5. CASE r \notin Entering
  <2>1. ~PendingIn("leave", s) /\ ~PendingIn("leaveFunction", s)
    BY <1>5, <1>e, <1>p1, <1>p2, <1>p3, <1>p4, TheRules
       DEF Rests, From1, From2, From3, From4, Entering, Calculations
  <2> QED BY <1>5, <2>1 DEF Holding, Entering, Calculations
<1> QED BY <1>1, <1>2, <1>3, <1>4, <1>5 DEF Entering, Calculations

\* The i-th rule has entered a depth, which is on the stack
Held(i) ==
  /\ rules[i].rest \in Holding(rules[i].rule)
  /\ rules[i].rule = "functionDecl" => Inside({"metaDecl"}, i)

\* The rules that hold a depth, in terms of the property and of the invariant
LEMMA HoldersAreHeld ==
  ASSUME ParserInv
  PROVE  Holders = {i \in DOMAIN rules : Held(i)}
<1> SUFFICES ASSUME NEW i \in DOMAIN rules PROVE i \in Holders <=> Held(i)
  BY DEF Holders
<1>1. rules[i].rest \in Rests(rules[i].rule) /\ rules[i].rule \in RuleNames
  <2>1. rules \in Seq(Remains) /\ DOMAIN rules = 1 .. Len(rules) /\ RuleOk(i)
    BY DEF ParserInv
  <2>2. rules[i] \in Remains
    BY <2>1, ElementOfSeq
  <2> QED BY <2>1, <2>2 DEF RuleOk, Remains
<1>2. \A op : Pending(op, i) <=> PendingIn(op, rules[i].rest)
  BY DEF Pending, PendingIn
<1> QED BY <1>1, <1>2, HoldingIsPending DEF Holders, Held

\* There is one rule of each level at most that holds a depth, one below the other
LEMMA HeldInOrder ==
  ASSUME ParserInv, NEW i \in DOMAIN rules, NEW j \in DOMAIN rules, Held(i), Held(j)
  PROVE  /\ rules[i].rule \in Entering
         /\ rules[i].rule = "metaDecl" => i = 2
         /\ rules[i].rule # "metaDecl" => i > 2 /\ 2 \in DOMAIN rules /\ rules[2].rule = "metaDecl"
                                             /\ Held(2)
         /\ rules[i].rule = rules[j].rule => i = j
         /\ rules[i].rule \in Calculations /\ rules[j].rule \in Calculations => i = j
         /\ rules[i].rule = "functionDecl" /\ rules[j].rule \in Calculations => i < j
<1>1. RuleOk(i) /\ RuleOk(j) /\ i \in Nat /\ j \in Nat /\ i >= 1 /\ j >= 1
      /\ DOMAIN rules = 1 .. Len(rules)
  BY DEF ParserInv
<1>2. rules[i].rule \in Entering /\ rules[j].rule \in Entering
  BY DEF Held, Holding, Entering, Calculations
<1>3. AllowedIn(rules[i].rule, Around(i)) /\ AllowedIn(rules[j].rule, Around(j))
  BY <1>1 DEF RuleOk
<1>4. \A q \in Entering, k \in {i, j} : q \in Around(k) <=> \E m \in 1 .. k - 1 : rules[m].rule = q
  BY DEF Around, Inside
<1>5. i < j => rules[i].rule \in Around(j)
  BY <1>1, <1>2, <1>4
<1>6. j < i => rules[j].rule \in Around(i)
  BY <1>1, <1>2, <1>4
<1>7. rules[i].rule = "metaDecl" => i = 2
  BY <1>1 DEF RuleOk
<1>8. ASSUME rules[i].rule # "metaDecl"
      PROVE  i > 2 /\ 2 \in DOMAIN rules /\ rules[2].rule = "metaDecl" /\ Held(2)
  <2>1. "metaDecl" \in Around(i)
    BY <1>2, <1>3, <1>8 DEF AllowedIn, MetaRules, Calculations, Held, Around, Entering
  <2>2. PICK m \in 1 .. i - 1 : rules[m].rule = "metaDecl"
    BY <1>4, <2>1 DEF Entering
  <2>3. m \in DOMAIN rules /\ m < Len(rules) /\ m < i
    BY <1>1
  <2>4. RuleOk(m)
    BY <2>3 DEF ParserInv
  <2>5. m = 2 /\ rules[m].rest \in Holding("metaDecl")
    BY <2>2, <2>3, <2>4 DEF RuleOk, Entering
  <2> QED BY <2>2, <2>3, <2>5 DEF Held
<1>9. rules[i].rule = rules[j].rule => i = j
  <2>1. rules[i].rule = rules[j].rule => i < j \/ j < i \/ i = j
    BY <1>1
  <2>2. ASSUME NEW q \in Entering, NEW around, AllowedIn(q, around), q \in around PROVE FALSE
    BY <2>2 DEF AllowedIn, MetaRules, Entering, Calculations
  <2> QED BY <1>2, <1>3, <1>5, <1>6, <2>1, <2>2
<1>10. \A q \in Calculations : \A around : AllowedIn(q, around) => around \cap Calculations = {}
  BY DEF AllowedIn, MetaRules, Calculations
<1>11. rules[i].rule \in Calculations /\ rules[j].rule \in Calculations => i = j
  BY <1>1, <1>3, <1>5, <1>6, <1>10
<1>12. rules[i].rule = "functionDecl" /\ rules[j].rule \in Calculations => i < j
  <2>1. rules[i].rule = "functionDecl" => Around(i) \cap Calculations = {}
    BY <1>3 DEF AllowedIn, Calculations
  <2>2. rules[i].rule = "functionDecl" /\ rules[j].rule \in Calculations => i # j
    BY DEF Calculations
  <2> QED BY <1>1, <1>6, <2>1, <2>2
<1> QED BY <1>2, <1>7, <1>8, <1>9, <1>11, <1>12

\* At most three rules hold a depth: counting them
LEMMA CountOne == Cardinality({2}) = 1 /\ \A i \in {2} : Cardinality({j \in {2} : j <= i}) = 1
<1>1. \A i \in {2} : {j \in {2} : j <= i} = {2}
  OBVIOUS
<1> QED BY <1>1, FS_Singleton

LEMMA CountTwo ==
  ASSUME NEW a \in Nat, NEW b \in Nat, a < b
  PROVE  /\ IsFiniteSet({a, b}) /\ Cardinality({a, b}) = 2
         /\ Cardinality({j \in {a, b} : j <= a}) = 1
         /\ Cardinality({j \in {a, b} : j <= b}) = 2
<1>1. IsFiniteSet({a}) /\ Cardinality({a}) = 1 /\ b \notin {a}
  BY FS_Singleton
<1>2. IsFiniteSet({a} \cup {b}) /\ Cardinality({a} \cup {b}) = Cardinality({a}) + 1
  BY <1>1, FS_AddElement
<1>3. {a, b} = {a} \cup {b} /\ {j \in {a, b} : j <= a} = {a} /\ {j \in {a, b} : j <= b} = {a, b}
  OBVIOUS
<1> QED BY <1>1, <1>2, <1>3

LEMMA CountThree ==
  ASSUME NEW a \in Nat, NEW b \in Nat, NEW c \in Nat, a < b, b < c
  PROVE  /\ Cardinality({a, b, c}) = 3
         /\ Cardinality({j \in {a, b, c} : j <= a}) = 1
         /\ Cardinality({j \in {a, b, c} : j <= b}) = 2
         /\ Cardinality({j \in {a, b, c} : j <= c}) = 3
<1>1. IsFiniteSet({a, b}) /\ Cardinality({a, b}) = 2 /\ c \notin {a, b}
  <2>1. IsFiniteSet({a, b}) /\ Cardinality({a, b}) = 2
    BY CountTwo
  <2> QED BY <2>1
<1>2. Cardinality({a, b} \cup {c}) = Cardinality({a, b}) + 1
  BY <1>1, FS_AddElement
<1>3. /\ {a, b, c} = {a, b} \cup {c} /\ {j \in {a, b, c} : j <= a} = {a}
      /\ {j \in {a, b, c} : j <= b} = {a, b} /\ {j \in {a, b, c} : j <= c} = {a, b, c}
  OBVIOUS
<1> QED BY <1>1, <1>2, <1>3, FS_Singleton, SMTT(30)

\* Which rules have entered a depth tells which ones hold it, and in which order
LEMMA EnteredIsHeld ==
  ASSUME ParserInv
  PROVE  /\ "metaDecl" \in Entered <=> \E i \in DOMAIN rules : Held(i)
         /\ "metaDecl" \in Entered =>
              /\ 2 \in DOMAIN rules /\ Held(2) /\ rules[2].rule = "metaDecl"
              /\ "functionDecl" \in Entered <=>
                   \E i \in DOMAIN rules : Held(i) /\ rules[i].rule = "functionDecl"
              /\ Entered \cap Calculations # {} <=>
                   \E i \in DOMAIN rules : Held(i) /\ rules[i].rule \in Calculations
<1>1. \A i \in DOMAIN rules : RuleOk(i) /\ i \in Nat
  BY DEF ParserInv
<1>2. ASSUME NEW i \in DOMAIN rules, Held(i) PROVE "metaDecl" \in Entered
  <2>1. 2 \in DOMAIN rules /\ rules[2].rule = "metaDecl" /\ Held(2)
    BY <1>2, HeldInOrder
  <2> QED BY <2>1 DEF Entered, Held, Entering
<1>3. ASSUME "metaDecl" \in Entered
      PROVE  2 \in DOMAIN rules /\ Held(2) /\ rules[2].rule = "metaDecl"
  <2>1. PICK i \in DOMAIN rules : rules[i].rule = "metaDecl" /\ rules[i].rest \in Holding("metaDecl")
    BY <1>3 DEF Entered
  <2>2. i = 2
    BY <1>1, <2>1 DEF RuleOk
  <2> QED BY <2>1, <2>2 DEF Held
<1>4. ASSUME "metaDecl" \in Entered, NEW i \in DOMAIN rules, rules[i].rule = "functionDecl"
      PROVE  Inside({"metaDecl"}, i)
  <2>1. i # 1 /\ i # 2 /\ i \in Nat \ {0}
    BY <1>1, <1>3, <1>4 DEF RuleOk, ParserInv
  <2>2. 2 \in 1 .. i - 1
    BY <2>1
  <2> QED BY <1>3, <1>4, <2>2 DEF Inside
<1>5. ASSUME "metaDecl" \in Entered
      PROVE  "functionDecl" \in Entered <=>
               \E i \in DOMAIN rules : Held(i) /\ rules[i].rule = "functionDecl"
  BY <1>4, <1>5 DEF Entered, Held, Entering
<1>6. Entered \cap Calculations # {} <=>
        \E i \in DOMAIN rules : Held(i) /\ rules[i].rule \in Calculations
  BY DEF Entered, Held, Entering, Calculations
<1> QED BY <1>2, <1>3, <1>5, <1>6

\* The stack holds the depth of each rule that entered one and still is to leave
\* it, and nothing else, whatever rules a syntax error ended
THEOREM DepthIsThatOfRules == CompilerSpec => []DepthFollowsRules
<1>1. FrontendInv => DepthFollowsRules
  <2> SUFFICES ASSUME ParserInv PROVE DepthFollowsRules
    BY DEF FrontendInv
  <2> DEFINE H == {i \in DOMAIN rules : Held(i)}
  <2>1. Holders = H /\ depths = Stack(Entered) /\ H \subseteq Nat
    BY HoldersAreHeld DEF ParserInv
  <2>2. ASSUME NEW s, depths = s, NEW h, H = h,
               Len(s) = Cardinality(h),
               \A i \in h : s[Cardinality({j \in h : j <= i})] = LevelOf(rules[i].rule)
        PROVE  DepthFollowsRules
    BY <2>1, <2>2 DEF DepthFollowsRules
  <2>3. CASE "metaDecl" \notin Entered
    <3>1. H = {} /\ depths = << >>
      BY <2>1, <2>3, EnteredIsHeld DEF Stack
    <3> QED BY <2>2, <3>1, FS_EmptySet
  <2>4. CASE "metaDecl" \in Entered
    <3>1. 2 \in H /\ rules[2].rule = "metaDecl" /\ LevelOf("metaDecl") = "global"
      BY <2>4, EnteredIsHeld DEF LevelOf
    <3>2. ASSUME NEW i \in H
          PROVE  /\ i = 2 \/ (i > 2 /\ rules[i].rule \in {"functionDecl"} \cup Calculations)
                 /\ i \in DOMAIN rules /\ Held(i)
      BY HeldInOrder DEF Entering
    <3>3. ASSUME NEW f \in H, rules[f].rule = "functionDecl"
          PROVE  /\ LevelOf(rules[f].rule) = "local" /\ f > 2 /\ f \in Nat
                 /\ \A i \in H : rules[i].rule = "functionDecl" => i = f
      BY <2>1, <3>1, <3>2, <3>3, HeldInOrder DEF LevelOf
    <3>4. ASSUME NEW c \in H, rules[c].rule \in Calculations
          PROVE  /\ LevelOf(rules[c].rule) = "none" /\ c > 2 /\ c \in Nat
                 /\ \A i \in H : /\ rules[i].rule \in Calculations => i = c
                                 /\ rules[i].rule = "functionDecl" => i < c
      BY <2>1, <3>1, <3>2, <3>4, HeldInOrder DEF LevelOf, Calculations
    <3>5. CASE "functionDecl" \notin Entered /\ Entered \cap Calculations = {}
      <4>1. H = {2} /\ depths = <<"global">>
        BY <2>1, <2>4, <3>1, <3>2, <3>5, EnteredIsHeld DEF Stack
      <4>2. \A i \in {2} : <<"global">>[Cardinality({j \in {2} : j <= i})] = LevelOf(rules[i].rule)
        BY <3>1, CountOne
      <4>3. Cardinality({2}) = 1
        BY FS_Singleton
      <4> QED BY <2>2, <4>1, <4>2, <4>3
    <3>6. CASE "functionDecl" \in Entered /\ Entered \cap Calculations = {}
      <4>1. PICK f \in H : rules[f].rule = "functionDecl"
        BY <2>4, <3>6, EnteredIsHeld
      <4>2. H = {2, f} /\ depths = <<"global", "local">>
        BY <2>1, <2>4, <3>1, <3>2, <3>3, <3>6, <4>1, EnteredIsHeld DEF Stack
      <4>3. /\ Cardinality({2, f}) = 2
            /\ Cardinality({j \in {2, f} : j <= 2}) = 1 /\ Cardinality({j \in {2, f} : j <= f}) = 2
        BY <3>3, <4>1, CountTwo
      <4>4. \A i \in {2, f} : <<"global", "local">>[Cardinality({j \in {2, f} : j <= i})]
                                = LevelOf(rules[i].rule)
        <5>1. <<"global", "local">>[1] = LevelOf(rules[2].rule) /\ <<"global", "local">>[2] = LevelOf(rules[f].rule)
          BY <3>1, <3>3, <4>1
        <5> QED BY <4>3, <5>1
      <4> QED BY <2>2, <4>2, <4>3, <4>4, ZenonT(60)
    <3>7. CASE "functionDecl" \notin Entered /\ Entered \cap Calculations # {}
      <4>1. PICK c \in H : rules[c].rule \in Calculations
        BY <2>4, <3>7, EnteredIsHeld
      <4>2. H = {2, c} /\ depths = <<"global", "none">>
        BY <2>1, <2>4, <3>1, <3>2, <3>4, <3>7, <4>1, EnteredIsHeld DEF Stack
      <4>3. /\ Cardinality({2, c}) = 2
            /\ Cardinality({j \in {2, c} : j <= 2}) = 1 /\ Cardinality({j \in {2, c} : j <= c}) = 2
        BY <3>4, <4>1, CountTwo
      <4>4. \A i \in {2, c} : <<"global", "none">>[Cardinality({j \in {2, c} : j <= i})]
                                = LevelOf(rules[i].rule)
        <5>1. <<"global", "none">>[1] = LevelOf(rules[2].rule) /\ <<"global", "none">>[2] = LevelOf(rules[c].rule)
          BY <3>1, <3>4, <4>1
        <5> QED BY <4>3, <5>1
      <4> QED BY <2>2, <4>2, <4>3, <4>4, ZenonT(60)
    <3>8. CASE "functionDecl" \in Entered /\ Entered \cap Calculations # {}
      <4>1. PICK f \in H, c \in H : rules[f].rule = "functionDecl" /\ rules[c].rule \in Calculations
        BY <2>4, <3>8, EnteredIsHeld
      <4>2. H = {2, f, c} /\ f < c /\ depths = <<"global", "local", "none">>
        BY <2>1, <2>4, <3>1, <3>2, <3>3, <3>4, <3>8, <4>1 DEF Stack
      <4>3. /\ Cardinality({2, f, c}) = 3
            /\ Cardinality({j \in {2, f, c} : j <= 2}) = 1
            /\ Cardinality({j \in {2, f, c} : j <= f}) = 2
            /\ Cardinality({j \in {2, f, c} : j <= c}) = 3
        <5>1. 2 \in Nat /\ f \in Nat /\ c \in Nat /\ 2 < f /\ f < c
          BY <3>3, <3>4, <4>1, <4>2
        <5> QED BY <5>1, CountThree
      <4>4. \A i \in {2, f, c} :
              <<"global", "local", "none">>[Cardinality({j \in {2, f, c} : j <= i})]
                = LevelOf(rules[i].rule)
        <5>1. /\ <<"global", "local", "none">>[1] = LevelOf(rules[2].rule)
              /\ <<"global", "local", "none">>[2] = LevelOf(rules[f].rule)
              /\ <<"global", "local", "none">>[3] = LevelOf(rules[c].rule)
          BY <3>1, <3>3, <3>4, <4>1
        <5> QED BY <4>3, <5>1
      <4> QED BY <2>2, <4>2, <4>3, <4>4, ZenonT(60)
    <3> QED BY <3>5, <3>6, <3>7, <3>8
  <2> QED BY <2>3, <2>4
<1> QED BY <1>1, FrontendCorrect, PTL

(***************************************************************************)
(* Types.                                                                  *)
(***************************************************************************)
LEMMA SuffixesTyped ==
  ASSUME NEW a \in Items, NEW b \in Items, NEW c \in Items, NEW d \in Items, NEW e \in Items,
         NEW f \in Items
  PROVE  /\ From1(a) \subseteq Seq(Items) /\ From2(a, b) \subseteq Seq(Items)
         /\ From3(a, b, c) \subseteq Seq(Items) /\ From4(a, b, c, d) \subseteq Seq(Items)
         /\ From6(a, b, c, d, e, f) \subseteq Seq(Items)
BY DEF From1, From2, From3, From4, From6

\* The types of what is left of a rule
LEMMA RestsTyped == ASSUME NEW r \in RuleNames PROVE Rests(r) \subseteq Seq(Items)
<1> DEFINE Of == RuleNames \cup Asked
<1>1. \A op \in Ops, of \in SUBSET Of : Item(op, of) \in Items
  BY DEF Item, Items
<1>3. /\ Tokens \in Items /\ Predicted \in Items /\ Leave \in Items /\ NoViable \in Items
      /\ EnterFunction \in Items /\ LeaveFunction \in Items
  BY <1>1 DEF Tokens, Predicted, Leave, NoViable, EnterFunction, LeaveFunction, Ops
<1>4. \A x \in Asked : Enter(x) \in Items /\ Predicate(x) \in Items /\ Assert(x) \in Items
  BY <1>1 DEF Enter, Predicate, Assert, Ops
<1>5. \A x \in SUBSET RuleNames : Invoke(x) \in Items /\ Many(x) \in Items /\ Maybe(x) \in Items
  BY <1>1 DEF Invoke, Many, Maybe, Ops
<1>2. /\ \A a \in Items : From1(a) \subseteq Seq(Items)
      /\ \A a, b \in Items : From2(a, b) \subseteq Seq(Items)
      /\ \A a, b, c \in Items : From3(a, b, c) \subseteq Seq(Items)
      /\ \A a, b, c, d \in Items : From4(a, b, c, d) \subseteq Seq(Items)
      /\ \A a, b, c, d, e, f \in Items : From6(a, b, c, d, e, f) \subseteq Seq(Items)
  BY SuffixesTyped
<1>6. CASE r = "compilationUnit"
  BY <1>2, <1>3, <1>4, <1>5, <1>6, TheRules DEF Rests, Asked, Levels
<1>7. CASE r = "runtimeGlobalScopeNode"
  BY <1>2, <1>3, <1>4, <1>5, <1>7, TheRules DEF Rests, Asked, Levels
<1>8. CASE r = "functionDecl"
  BY <1>2, <1>3, <1>4, <1>5, <1>8, TheRules DEF Rests, Asked, Levels
<1>9. CASE r = "metaDecl"
  BY <1>2, <1>3, <1>4, <1>5, <1>9, TheRules DEF Rests, Asked, Levels
<1>10. CASE r = "metaContribution"
  BY <1>2, <1>3, <1>4, <1>5, <1>10, TheRules DEF Rests, Asked, Levels
<1>11. CASE r = "metaScopeNode"
  BY <1>2, <1>3, <1>4, <1>5, <1>11, TheRules DEF Rests, Asked, Levels
<1>12. CASE r = "metaStmt"
  BY <1>2, <1>3, <1>4, <1>5, <1>12, TheRules DEF Rests, Asked, Levels
<1>13. CASE r = "metaCalculationStmt"
  BY <1>2, <1>3, <1>4, <1>5, <1>13, TheRules DEF Rests, Asked, Levels
<1>14. CASE r = "metaIfStmt"
  BY <1>2, <1>3, <1>4, <1>5, <1>14, TheRules DEF Rests, Asked, Levels
<1>15. CASE r = "metaElseStmt"
  BY <1>2, <1>3, <1>4, <1>5, <1>15, TheRules DEF Rests, Asked, Levels
<1>16. CASE r = "statement"
  BY <1>2, <1>3, <1>4, <1>5, <1>16, TheRules DEF Rests, Asked, Levels
<1>17. CASE r = "basicCompoundStmt"
  BY <1>2, <1>3, <1>4, <1>5, <1>17, TheRules DEF Rests, Asked, Levels
<1>18. CASE r = "ifStmt"
  BY <1>2, <1>3, <1>4, <1>5, <1>18, TheRules DEF Rests, Asked, Levels
<1>19. CASE r = "elseStmt"
  BY <1>2, <1>3, <1>4, <1>5, <1>19, TheRules DEF Rests, Asked, Levels
<1>20. CASE r = "metaCalculationExpr"
  BY <1>2, <1>3, <1>4, <1>5, <1>20, TheRules DEF Rests, Asked, Levels
<1>21. CASE r = "expr"
  BY <1>2, <1>3, <1>4, <1>5, <1>21, TheRules DEF Rests, Asked, Levels
<1> QED BY <1>6, <1>7, <1>8, <1>9, <1>10, <1>11, <1>12, <1>13, <1>14, <1>15, <1>16, <1>17, <1>18, <1>19, <1>20, <1>21, TheRules

\* The variables of the driver, the parser and the diagnostics have their types
THEOREM FrontendTypes == CompilerSpec => []FrontendTypeOK
<1>1. FrontendInv => FrontendTypeOK
  <2> SUFFICES ASSUME FrontendInv PROVE ParserTypeOK
    BY DEF FrontendInv, CompilerInv, DiagInv, DriverInv, FrontendTypeOK
  <2>1. ParserInv
    BY DEF FrontendInv
  <2>2. Remains \subseteq [rule : RuleNames, rest : Seq(Items)]
    BY RestsTyped DEF Remains
  <2>3. rules \in Seq([rule : RuleNames, rest : Seq(Items)])
    <3>1. rules \in Seq(Remains)
      BY <2>1 DEF ParserInv
    <3>2. \A S, T : S \subseteq T => Seq(S) \subseteq Seq(T)
      OBVIOUS
    <3> QED BY <2>2, <3>1, <3>2
  <2>4. depths \in Seq(Levels)
    BY <2>1, StackTyped DEF ParserInv
  <2> QED BY <2>1, <2>3, <2>4 DEF ParserInv, ParserTypeOK, Items
<1> QED BY <1>1, FrontendCorrect, PTL
=============================================================================
