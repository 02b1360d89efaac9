\* Two requests of one conversation, its identifiers in up to two groups with a third one, one expiry.
\* Requests end, so a state without a step is fine.
SPECIFICATION Spec
CONSTANTS
  a1 = a1
  a2 = a2
  a3 = a3
  p1 = p1
  v = v
  w = w
  q1 = q1
  q2 = q2
  NoAuth = NoAuth
  NoKey = NoKey
  Auths = {a1, a2, a3}
  Keys = {p1, v, w}
  Prompt = {p1}
  Sessions <- OneSession
  Requests = {q1, q2}
  MaxGroups = 2
  MaxLapses = 1
SYMMETRY Symmetric
INVARIANTS GroupsClosed
PROPERTIES StaleLoses LosesToWriters DroppedComeBack
CHECK_DEADLOCK FALSE
