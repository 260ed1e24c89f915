----------------------------- MODULE Diagnostics -----------------------------
(***************************************************************************)
(* The diagnostics of a compilation unit.  A diagnostic is counted when    *)
(* its builder is created and printed when the builder is destroyed, if    *)
(* that builder still owns it: builders are returned by move, and a        *)
(* builder that was moved from must keep silent.  Ranges, fix-its and the  *)
(* text are left out, but not the steps that add them.                     *)
(***************************************************************************)
EXTENDS Naturals, Sequences

CONSTANTS
  MaxDiagnostics,  \* bound: the diagnostics of one severity
  MaxMoves         \* bound: how often a result is moved and not elided

ASSUME DiagnosticsAssumption == MaxDiagnostics \in Nat /\ MaxMoves \in Nat

VARIABLES
  occurrence,  \* the engine's counters
  builders,    \* the builders that are alive, the oldest first
  emitting,    \* what is still done to the builder, see Phases
  printed      \* how many diagnostics of each severity consumeDiagnostic printed

diagVars == <<occurrence, builders, emitting, printed>>

Severities == {"Note", "Warning", "Error"}

\* "temporary": a range is added to a temporary that is then returned;
\* "lexer", "parser": the listener adds fix-its to its variable; "result": it is
\* the result of a full expression or of a scope, and destroyed next
Phases == {"idle", "temporary", "lexer", "parser", "result"}

Builder == [severity : Severities, owner : BOOLEAN, moves : 0 .. MaxMoves + 1]

Idle == emitting = "idle"
HasErrors == occurrence["Error"] # 0
OnlyBuilder == Len(builders) = 1

DiagInit ==
  /\ occurrence = [s \in Severities |-> 0]
  /\ builders = << >> /\ emitting = "idle"
  /\ printed = [s \in Severities |-> 0]

\* createDiagnosticBuilder
Create(severity, phase) ==
  /\ Idle /\ occurrence[severity] < MaxDiagnostics
  /\ occurrence' = [occurrence EXCEPT ![severity] = @ + 1]
  /\ builders' = <<[severity |-> severity, owner |-> TRUE, moves |-> 0]>>
  /\ emitting' = phase
  /\ UNCHANGED printed

\* diagnose with a location, and with a range
DiagnoseAt(severity)    == Create(severity, "result")
DiagnoseRange(severity) == Create(severity, "temporary")
\* DiagnosticListener::syntaxError
SyntaxError(recognizer) == Create("Error", recognizer)

\* Mutant: the ownership is copied
CopiedFrom(b) == <<b, [b EXCEPT !.moves = @ + 1]>>

\* The move constructor: the ownership is exchanged with false
MovedFrom(b) == <<[b EXCEPT !.owner = FALSE], [b EXCEPT !.moves = @ + 1]>>

\* addRange returns the temporary as an rvalue, the result is moved from it
ReturnTemporary ==
  /\ emitting = "temporary" /\ OnlyBuilder
  /\ builders' = MovedFrom(builders[1])
  /\ emitting' = "result"
  /\ UNCHANGED <<occurrence, printed>>

\* A result is moved into the next one, or elided
MoveResult ==
  /\ emitting \in {"lexer", "parser", "result"} /\ OnlyBuilder
  /\ builders[1].moves < MaxMoves
  /\ builders' = MovedFrom(builders[1])
  /\ UNCHANGED <<occurrence, emitting, printed>>

\* The listener adds a fix-it, or a range and the expected tokens, and discards
\* what addFixIt and addRange return
Annotate ==
  /\ emitting \in {"lexer", "parser"} /\ OnlyBuilder
  /\ emitting' = "result"
  /\ UNCHANGED <<occurrence, builders, printed>>

Dispatch(b) ==
  printed' = IF b.owner THEN [printed EXCEPT ![b.severity] = @ + 1] ELSE printed

\* ~DiagnosticBuilder, of the builder that was moved from and of the last one
DestroyMoved ==
  /\ Len(builders) = 2
  /\ Dispatch(builders[1])
  /\ builders' = Tail(builders)
  /\ UNCHANGED <<occurrence, emitting>>
DestroyResult ==
  /\ emitting = "result" /\ OnlyBuilder
  /\ Dispatch(builders[1])
  /\ builders' = << >> /\ emitting' = "idle"
  /\ UNCHANGED occurrence

Emit == ReturnTemporary \/ MoveResult \/ Annotate \/ DestroyMoved \/ DestroyResult

(***************************************************************************)
(* Properties.                                                             *)
(***************************************************************************)
DiagTypeOK ==
  /\ occurrence \in [Severities -> Nat] /\ printed \in [Severities -> Nat]
  /\ builders \in Seq(Builder) /\ Len(builders) <= 2
  /\ emitting \in Phases
  /\ emitting = "idle" <=> builders = << >>
  /\ emitting = "temporary" => OnlyBuilder

\* What is counted was printed, except for the one diagnostic that a living
\* builder owns (DiagnosticBuilder.cpp:37): whatever the builder is moved into,
\* it is printed exactly once
CountedIsPrinted ==
  \A s \in Severities :
    occurrence[s] = printed[s]
      + (IF builders # << >> /\ builders[Len(builders)].severity = s THEN 1 ELSE 0)
=============================================================================
