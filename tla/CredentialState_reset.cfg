\* A quota failure, a reset, a success.
\* The clock stops, so a state without a step is fine.
SPECIFICATION Spec
CONSTANTS
  m1 = m1
  m2 = m2
  Models = {m1, m2}
  NoModel = NoModel
  BackoffBase = 1
  BackoffMax = 4
  ChallengeMin = 2
  Transient = 1
  Penalty = 2
  LongPenalty = 3
  Results <- ResetResults
  Late = {g1}
  Ops = {"mark","reset"}
  MaxTime = 4
  LastCall = 4
  MaxCalls = 4
CHECK_DEADLOCK FALSE
INVARIANT ResetQuotaSticks
