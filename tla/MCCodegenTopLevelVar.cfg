SPECIFICATION Spec
CONSTANTS
  x = x
  f = f
  g = g
  Null = Null
  Kinds <- MCKinds
  Idents <- OneName
  Funcs <- TwoFuncs
  ParamLists <- SomeParams
  Exprs <- ModuleExprs
  MaxFns = 2
  MaxBlocks = 2
  MaxNest = 0
  MaxScopes = 3
INVARIANT TopLevelCodeIsPlaced
