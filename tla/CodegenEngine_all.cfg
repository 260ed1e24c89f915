SPECIFICATION FairSpec
CONSTANTS
  a = a
  b = b
  xi = xi
  xj = xj
  M = M
  K = K
  mi = mi
  mj = mj
  None = None
  Globals <- MCGlobals
  UnitFns <- MCUnitFns
  Metas <- MCMetas
  Insts <- MCInsts
  Programs <- AllPrograms
INVARIANTS
  TypeOK
  DefinedOnce
  NoLostReference
  OuterInvokeClosed
  
  AmalgamationComplete
  PlainDoesNotFail
PROPERTIES
  NothingAfterError
  ImplementsStore
  PlainTerminates
