SPECIFICATION Spec
CONSTANTS
  x = x
  p = p
  q = q
  Null = Null
  Kinds <- MCKinds
  Idents <- MCIdents
  Values <- MCValues
  MaxDepth = 4
INVARIANT TypeOK
PROPERTY GlobalBindingsStand
PROPERTY ImplementsLexicalEnv
\* exitScope aborts the process at the top level
CHECK_DEADLOCK FALSE
