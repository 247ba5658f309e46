SPECIFICATION Spec
CONSTANTS
  Tokens <- Statements
  MaxTokens = 18
CONSTRAINTS NoReport TypesAreTypes
INVARIANT UnreachableRemembered
