SPECIFICATION Spec
CONSTANTS
  Tokens <- Everything
  MaxTokens = 7
INVARIANT TypeOK
INVARIANT EndReadOnce
INVARIANT PrecedenceNests
PROPERTY Termination
PROPERTY ImplementsGrammar
