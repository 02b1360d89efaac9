\* Two records, a subscriber with two slots, two client lifetimes, one caller, one refresh, one switch, one lost answer.
\* The clock and the calls stop, so a state without a step is fine.
CONSTANTS
  Subscribers = {s1}
  Lifetimes = 2
  NumCallers = 1
  Buffer = 2
  Retention = 1
  Batch = 2
  MaxRecords = 2
  MaxRefreshes = 1
  MaxUnanswered = 1
  MaxSwitches = 1
  MaxTime = 3
SPECIFICATION FairSpec
INVARIANTS OneCloser SubscribersGapFree RecordInOnePlace
PROPERTIES PopFresh DispatcherDrains ForwardedAtLast
CHECK_DEADLOCK FALSE
