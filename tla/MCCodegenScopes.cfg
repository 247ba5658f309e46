SPECIFICATION Spec
CONSTANTS
  x = x
  f = f
  g = g
  Null = Null
  Kinds <- MCKinds
  Idents <- OneName
  Funcs <- TwoFuncs
  ParamLists <- SomeParams
  Exprs <- ScopeExprs
  MaxFns = 2
  MaxBlocks = 6
  MaxNest = 1
  MaxScopes = 4
SYMMETRY Renaming
INVARIANT ScopesNest
INVARIANT LocalsDie
INVARIANT ForeignOnlyTopLevel
PROPERTY NamesStayVisible
