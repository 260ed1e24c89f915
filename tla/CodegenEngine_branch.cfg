SPECIFICATION Spec
CONSTANTS
  a = a
  b = b
  xi = xi
  xj = xj
  M = M
  K = K
  mi = mi
  mj = mj
  None = None
  Globals <- MCGlobals
  UnitFns <- MCUnitFns
  Metas <- MCMetas
  Insts <- MCInsts
  Programs <- AllPrograms
INVARIANTS
  InstantiationsCompleted
