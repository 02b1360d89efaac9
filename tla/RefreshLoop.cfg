SPECIFICATION FairSpec
CONSTANTS
  Creds = {c1}
  Workers = {w1}
  Callers = {q1}
  JobCap = 1
  MaxTime = 3
  MaxEdits = 1
INVARIANTS NeverForgotten NoLateSleep
PROPERTIES DueIsRefreshed
CHECK_DEADLOCK FALSE
