\* Every class of result and every mutator, reconciliation in place, failing saves; nobody carries a
\* late copy. Every call is made while windows are still open.
\* The clock stops, so a state without a step is fine.
SPECIFICATION Spec
CONSTANTS
  m1 = m1
  m2 = m2
  Models = {m1, m2}
  NoModel = NoModel
  BackoffBase = 1
  BackoffMax = 4
  ChallengeMin = 2
  Transient = 1
  Penalty = 2
  LongPenalty = 3
  Results <- EveryClass
  Late = {}
  Ops = {"mark","file","toggle","refresh","reconcile","remove","register","persistfail"}
  MaxTime = 3
  LastCall = 3
  MaxCalls = 4
CHECK_DEADLOCK FALSE
INVARIANTS SchedulerInStep ResultsCounted
PROPERTIES WindowsKept LadderOncePerWindow
