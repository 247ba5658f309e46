SPECIFICATION Spec
CONSTANTS
  Files <- ShortFiles
  Blocks = {1, 3}
  MaxEnds = 2
  IntMax = 15
  LongMax = 127
INVARIANT TypeOK
INVARIANT HeldTokensLive
INVARIANT CommentNotOverrun
INVARIANT LexesAsWritten
INVARIANT ConstantsExact
INVARIANT PositionsAreThere
PROPERTY GetReturns
