------------------------------ MODULE Frontend ------------------------------
(***************************************************************************)
(* The driver: one run of the compiler, from the command line to the dump  *)
(* of what was asked for.  The parser is that of MetaDepth, what a stage   *)
(* diagnoses goes through Diagnostics, and the gates between the stages    *)
(* are here.  What the visitor, the reader, the analysis and the           *)
(* generators do is the subject of other modules: here they diagnose what  *)
(* they may.                                                               *)
(***************************************************************************)
EXTENDS Diagnostics, MetaDepth

CONSTANT MaxLexerErrors  \* bound: errors the lexer reports

ASSUME FrontendAssumption ==
  /\ MaxLexerErrors \in Nat /\ MaxSyntaxErrors > 0
  /\ MaxSyntaxErrors + MaxLexerErrors <= MaxDiagnostics

VARIABLES
  emitAction,  \* what the invocation asks for
  stage,       \* where main, compileSourceFile, translate and parse are
  output,      \* what was dumped
  message      \* the message of the driver, with the number of errors it tells

driverVars == <<emitAction, stage, output, message>>
compilerVars == <<diagVars, parserVars, driverVars>>

\* What is dumped for an action
Dumped ==
  [EmitTokens |-> "tokens", EmitFlatLayout |-> "flatLayout", EmitLayout |-> "layout",
   EmitAST |-> "AST", EmitNone |-> "module"]

Stages == {"main", "create", "open", "lex", "parse", "visit", "read", "check",
           "createCodegen", "codegen", "ended"}
Texts  == {"lexing", "parsing", "checking", "noTarget", "noFile", "noEngine"}

CompilerInit ==
  /\ DiagInit /\ ParserInit
  /\ emitAction = "EmitNone" /\ stage = "main" /\ output = "none"
  /\ message = [text |-> "none", errors |-> 0]

(***************************************************************************)
(* How a stage is left: none goes on while a diagnostic is built.          *)
(***************************************************************************)
hasEmitAction(a) == emitAction = a

Ready(s) == stage = s /\ Idle

GoTo(s) == stage' = s /\ UNCHANGED <<output, message>>
Dump    == stage' = "ended" /\ output' = Dumped[emitAction] /\ UNCHANGED message
Log(text) ==
  /\ stage' = "ended"
  /\ message' = [text |-> text, errors |-> occurrence["Error"]]
  /\ UNCHANGED output

\* Mutant: only the last of the gates looks for errors
GateOfAnalysis(text, Then) == IF HasErrors /\ text = "checking" THEN Log(text) ELSE Then

\* canContinue and the gates of translate: with errors, their number is logged
\* and the compilation is aborted
Gate(text, Then) == IF HasErrors THEN Log(text) ELSE Then

\* What of the driver does not touch the parser and the diagnostics
Driver(Step) == Step /\ UNCHANGED <<diagVars, parserVars>>

(***************************************************************************)
(* main, CompilerInstance and CompilationUnit::translate                   *)
(***************************************************************************)
ParseCommandLine ==
  /\ stage = "main"
  /\ \E a \in DOMAIN Dumped : emitAction' = a
  /\ Driver(GoTo("create"))

\* There is a target machine for the triple, or there is none
CreateInstance ==
  /\ stage = "create"
  /\ Driver(GoTo("open") \/ Log("noTarget")) /\ UNCHANGED emitAction

CompileSourceFile ==
  /\ stage = "open"
  /\ Driver(GoTo(IF hasEmitAction("EmitTokens") THEN "lex" ELSE "parse") \/ Log("noFile"))
  /\ UNCHANGED emitAction

EmitTokens ==
  /\ Ready("lex")
  /\ Driver(Gate("lexing", Dump)) /\ UNCHANGED emitAction

\* The parser asks for the tokens as it goes, so that the lexer reports in between
Parse ==
  /\ Ready("parse")
  /\ StartParsing \/ ParseOn
  /\ UNCHANGED <<diagVars, driverVars>>

\* Mutant: the parser's error listeners were removed and none was added
ReportUnheard ==
  Ready("parse") /\ SyntaxErrorReported /\ UNCHANGED <<diagVars, driverVars>>

ReportSyntaxError ==
  /\ Ready("parse")
  /\ SyntaxErrorReported /\ SyntaxError("parser")
  /\ UNCHANGED driverVars
ReportLexerError ==
  /\ Ready("lex") \/ (Ready("parse") /\ Parsing)
  /\ occurrence["Error"] - syntaxErrors < MaxLexerErrors
  /\ SyntaxError("lexer")
  /\ UNCHANGED <<parserVars, driverVars>>

LeaveParser ==
  /\ Ready("parse") /\ parser = "parsed"
  /\ Driver(Gate("parsing", GoTo("visit"))) /\ UNCHANGED emitAction

\* buildLayout, and the dumps of the layout
LeaveVisitor ==
  /\ Ready("visit")
  /\ Driver(Gate("parsing",
                 IF hasEmitAction("EmitFlatLayout") \/ hasEmitAction("EmitLayout")
                 THEN Dump ELSE GoTo("read")))
  /\ UNCHANGED emitAction

LeaveReader ==
  /\ Ready("read")
  /\ Driver(Gate("parsing", GoTo("check"))) /\ UNCHANGED emitAction

LeaveAnalysis ==
  /\ Ready("check")
  /\ Driver(Gate("checking", IF hasEmitAction("EmitAST") THEN Dump ELSE GoTo("createCodegen")))
  /\ UNCHANGED emitAction

\* The execution engine is built, or there is none for the host
CreateCodegen ==
  /\ stage = "createCodegen"
  /\ Driver(GoTo("codegen") \/ Log("noEngine")) /\ UNCHANGED emitAction

\* codegen returns whether all dependencies were generated, which they are unless
\* there was an error
LeaveCodegen ==
  /\ Ready("codegen")
  /\ Driver(IF HasErrors THEN GoTo("ended") ELSE Dump) /\ UNCHANGED emitAction

(***************************************************************************)
(* What the stages diagnose.  A note follows an error; that an export was  *)
(* introduced is noted on request.                                         *)
(***************************************************************************)
Diagnosed(severity) ==
  \/ stage = "visit" /\ severity = "Error"
  \/ stage = "read" /\ severity \in (IF HasErrors THEN {"Error", "Note"} ELSE {"Error"})
  \/ stage = "check" /\ severity \in (IF HasErrors THEN Severities ELSE {"Error", "Warning"})
  \/ stage = "codegen"

Diagnose ==
  /\ \E s \in Severities : Diagnosed(s) /\ (DiagnoseAt(s) \/ DiagnoseRange(s))
  /\ UNCHANGED <<parserVars, driverVars>>

Display == Emit /\ UNCHANGED <<parserVars, driverVars>>

Ended == stage = "ended" /\ UNCHANGED compilerVars

CompilerNext ==
  \/ ParseCommandLine \/ CreateInstance \/ CompileSourceFile \/ EmitTokens
  \/ Parse \/ ReportSyntaxError \/ ReportLexerError \/ LeaveParser
  \/ LeaveVisitor \/ LeaveReader \/ LeaveAnalysis \/ CreateCodegen \/ LeaveCodegen
  \/ Diagnose \/ Display \/ Ended

CompilerSpec == CompilerInit /\ [][CompilerNext]_compilerVars
FairCompilerSpec == CompilerSpec /\ WF_compilerVars(CompilerNext)

(***************************************************************************)
(* Properties.                                                             *)
(***************************************************************************)
DriverTypeOK ==
  /\ emitAction \in DOMAIN Dumped
  /\ stage \in Stages
  /\ output \in {"none"} \cup {Dumped[a] : a \in DOMAIN Dumped}
  /\ message \in [text : Texts \cup {"none"}, errors : Nat]

FrontendTypeOK == DiagTypeOK /\ ParserTypeOK /\ DriverTypeOK

\* A run of the compiler ends with what was asked for, or with the reason why
\* not: something is dumped if and only if no error was diagnosed in any stage
\* and the driver had nothing to say; otherwise an error was printed, or the
\* driver's message was, and the number of errors it tells is that of the errors
\* that were printed (CompilationUnit.cpp:65, :85, ASTParser.cpp:83)
EndsAccounted ==
  stage = "ended" =>
    /\ output = IF printed["Error"] = 0 /\ message.text = "none"
                THEN Dumped[emitAction] ELSE "none"
    /\ message.errors = IF message.text = "none" THEN 0 ELSE printed["Error"]
    /\ message.text \in {"lexing", "parsing", "checking"} => message.errors > 0

\* No stage works on what an earlier one has found errors in: with an error, no
\* stage is entered and nothing is dumped
NothingBehindErrors ==
  [][HasErrors => stage' \in {stage, "ended"} /\ output' = output]_compilerVars

\* A tree that is visited was parsed without a syntax error, each of its rules to
\* the end and with each depth left again: the parser keeps a count of its own,
\* and the driver asks the diagnostics only (ASTParser.cpp:48)
VisitsWhatWasParsed ==
  stage \in {"visit", "read", "check", "createCodegen", "codegen"} =>
    /\ parser = "parsed" /\ syntaxErrors = 0
    /\ rules = << >> /\ depths = << >>

\* The compiler ends, with every diagnostic printed
Terminates == <>(stage = "ended" /\ builders = << >>)
=============================================================================
