SPECIFICATION Spec
CONSTANTS
  x = x
  f = f
  g = g
  Null = Null
  Kinds <- MCKinds
  Idents <- OneName
  Funcs <- OneFunc
  ParamLists <- NoParams
  Exprs <- BodyExprs
  MaxFns = 1
  MaxBlocks = 8
  MaxNest = 2
  MaxScopes = 4
INVARIANT TypeOK
INVARIANT InsertionOpen
INVARIANT FinishedCFG
INVARIANT PhiMatchesPreds
INVARIANT EveryBlockReturns
