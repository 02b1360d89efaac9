\* Owners, Drain, two Close and a WaitPending caller race over two dispatches.
\* The lifetime may be over and every caller gone, so a state without a step is fine.
CONSTANTS
  MaxDispatch = 2
  MaxBarrier = 0
  MaxFreeze = 0
  Groups = {}
  NoGroup = NoGroup
  Sinks = {}
  NoSink = NoSink
  Drainers = {d1}
  Closers = {c1, c2}
  Waiters = {w1}
SPECIFICATION FairSpec
INVARIANTS DrainedMeansEmpty ClosedMeansReleased NoOrphanResource NoLostWakeup
PROPERTIES CallersReturn
CHECK_DEADLOCK FALSE
