\* Two dispatches, two barriers, two snapshots, one accounted group, two sinks replaced at any time.
\* The lifetime may be over and every caller gone, so a state without a step is fine.
CONSTANTS
  MaxDispatch = 2
  MaxBarrier = 2
  MaxFreeze = 2
  Groups = {g1}
  NoGroup = NoGroup
  Sinks = {s1, s2}
  NoSink = NoSink
  Drainers = {}
  Closers = {}
  Waiters = {}
SPECIFICATION Spec
INVARIANTS BarrierSound SinkNotBehind
PROPERTIES SnapshotComplete
SYMMETRY Symmetry
CHECK_DEADLOCK FALSE
