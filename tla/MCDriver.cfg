SPECIFICATION Spec
CONSTANTS
  ParamLists <- Lines
  Trees <- Programs
INVARIANT TypeOK
INVARIANT NullsStopEarly
INVARIANT ExecRunsMain
INVARIANT NamesDiffer
INVARIANT GraphMirrorsTree
 
