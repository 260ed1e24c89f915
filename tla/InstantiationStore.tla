------------------------- MODULE InstantiationStore -------------------------
(***************************************************************************)
(* What the code generation promises, whatever the order in which it takes *)
(* its worklists and however its calls nest: an instantiation is evaluated *)
(* at most once, and only after it was loaded; a function is generated at  *)
(* most once, and only after the instantiations in it; the first error     *)
(* stops all that and decides the outcome.  An aborted process promises    *)
(* nothing.                                                                *)
(***************************************************************************)
CONSTANTS Functions, Instantiations

VARIABLES
  needs,      \* the instantiations in the body of each function
  loaded,     \* the instantiations that can be evaluated
  evaluated,  \* those that were evaluated to a meta unit
  generated,  \* the functions with a body
  failed,     \* an error was diagnosed
  outcome     \* "running", "generated", "failed" or "aborted"

vars == <<needs, loaded, evaluated, generated, failed, outcome>>

Init ==
  /\ needs \in [Functions -> SUBSET Instantiations]
  /\ loaded = {} /\ evaluated = {} /\ generated = {}
  /\ failed = FALSE /\ outcome = "running"

Active == outcome = "running" /\ ~failed

Load ==
  /\ Active
  /\ loaded \subseteq loaded' /\ loaded' \subseteq Instantiations
  /\ UNCHANGED <<needs, evaluated, generated, failed, outcome>>

Evaluate(i) ==
  /\ Active /\ i \in loaded \ evaluated
  /\ evaluated' = evaluated \cup {i}
  /\ UNCHANGED <<needs, loaded, generated, failed, outcome>>

Generate(f) ==
  /\ Active /\ f \notin generated /\ needs[f] \subseteq evaluated
  /\ generated' = generated \cup {f}
  /\ UNCHANGED <<needs, loaded, evaluated, failed, outcome>>

Diagnose ==
  /\ Active
  /\ failed' = TRUE
  /\ UNCHANGED <<needs, loaded, evaluated, generated, outcome>>

Finish ==
  /\ outcome = "running"
  /\ outcome' = IF failed THEN "failed" ELSE "generated"
  /\ UNCHANGED <<needs, loaded, evaluated, generated, failed>>

Abort == outcome = "running" /\ outcome' = "aborted"

Next ==
  \/ Load \/ Diagnose \/ Finish \/ Abort
  \/ \E i \in Instantiations : Evaluate(i)
  \/ \E f \in Functions : Generate(f)

Spec == Init /\ [][Next]_vars
=============================================================================
