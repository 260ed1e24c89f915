SPECIFICATION FairCompilerSpec
CONSTANTS
  MaxDiagnostics = 3
  MaxLexerErrors = 1
  MaxMoves = 1
  MaxIterations = 4
  MaxSyntaxErrors = 2
INVARIANTS
  FrontendTypeOK
  CountedIsPrinted
  DepthFollowsRules
  MetaWhereAllowed
  NoParserAssertion
  EndsAccounted
  VisitsWhatWasParsed
PROPERTIES
  NothingBehindErrors
  Terminates
