\* The boot poll with max_tries = 1000 and failing register accesses.
CONSTANTS
  MaxTries <- MCMaxTries
  MaxPcCalls <- MCMaxPcCalls
  RegMayFail = TRUE
SPECIFICATION Spec
INVARIANT TypeOK InterruptsOnlyAfterAnswer PcOkMeansCollapsible
PROPERTY Terminates PreparePcReturns
\* The boot returns; after that nothing of it runs.
CHECK_DEADLOCK FALSE
