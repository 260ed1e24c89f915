-------------------------- MODULE MCCodegenEngine --------------------------
(* Small programs for CodegenEngine: two global functions, two meta decls  *)
(* and two instantiations, mi of M in the body of a, mj anywhere.          *)
EXTENDS CodegenEngine, TLC

CONSTANTS a, b, xi, xj, M, K, mi, mj

MCGlobals == {a, b}
MCUnitFns == {xi, xj}
MCMetas   == {M, K}
MCInsts   == {mi, mj}

\* The program with the given call edges and owner of mj
ProgramOf(callsA, callsB, callsX, metaM, metaK, owner, declJ, exportI, exportJ) ==
  [calls       |-> (a :> callsA) @@ (b :> callsB) @@ (xi :> callsX) @@ (xj :> callsX),
   insts       |-> [f \in Fns |-> IF f = a THEN {mi} \cup (IF owner = a THEN {mj} ELSE {})
                                  ELSE IF f = owner THEN {mj} ELSE {}],
   decl        |-> (mi :> M) @@ (mj :> declJ),
   exports     |-> (mi :> exportI) @@ (mj :> exportJ),
   metaCalls   |-> (M :> metaM) @@ (K :> metaK),
   metaInsts   |-> (M :> IF owner = M THEN {mj} ELSE {}) @@ (K :> {}),
   branchInsts |-> (M :> IF owner = "branch" THEN {mj} ELSE {}) @@ (K :> {})]

\* Every program of that shape
AllPrograms ==
  {ProgramOf(ca, cb, cx, mm, mk, o[1], o[2], ei, ej) :
     ca \in SUBSET {b}, cb \in SUBSET {a, b}, cx \in SUBSET {b},
     mm \in SUBSET {a, b}, mk \in SUBSET {a, b},
     o \in {<<a, K>>, <<b, M>>, <<b, K>>, <<M, K>>, <<"branch", K>>},
     ei \in {xi, None}, ej \in {xj, None}}

\* Of the programs the engine supports: the nested calls and the worklist end
PlainTerminates == Plain(prog) => Terminates
============================================================================
