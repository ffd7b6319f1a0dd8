\* All capability tables over four ids.
CONSTANTS
  Caps <- MCCaps
  MaxChildren <- MCMaxChildren
  MaxCalls <- MCMaxCalls
  IdTables <- MCIdTables
  SelfLoopIds <- MCSelfLoopIds
  ListHead = ListHead
SPECIFICATION Spec
INVARIANT TypeOK TopologicalOrder FailsExactlyOnCycle
PROPERTY Terminates
\* After MaxCalls calls the function is not called again.
CHECK_DEADLOCK FALSE
