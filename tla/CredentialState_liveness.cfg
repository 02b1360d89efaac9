\* Five kinds of failure, one late writer; windows end before the clock stops.
\* The clock stops, so a state without a step is fine.
SPECIFICATION FairSpec
CONSTANTS
  m1 = m1
  m2 = m2
  Models = {m1, m2}
  NoModel = NoModel
  BackoffBase = 1
  BackoffMax = 4
  ChallengeMin = 2
  Transient = 1
  Penalty = 2
  LongPenalty = 3
  Results <- LivenessResults
  Late = {g1}
  Ops = {"mark","refresh","reset","reconcile","config","sync","neutral","pick"}
  MaxTime = 6
  LastCall = 2
  MaxCalls = 3
CHECK_DEADLOCK FALSE
INVARIANT ExchangedOnce
PROPERTY CooldownEnds
