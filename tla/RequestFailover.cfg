\* Twelve settings of a request over two credentials, one change by others, one unsaved result.
\* A request that is over takes no step.
SPECIFICATION Spec
CONSTANTS
  c1 = c1
  c2 = c2
  NoCred = NoCred
  Creds = {c1, c2}
  Settings <- SomeSettings
  MaxPasses = 3
  MaxDrift = 1
  MaxUnsaved = 1
INVARIANTS AttemptSettled RoundsBounded GivesUpRightly
CHECK_DEADLOCK FALSE
