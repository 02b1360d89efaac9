\* One request whose session is split: nobody else writes, and the merge is refused (this run is expected to find that).
\* Requests end, so a state without a step is fine.
SPECIFICATION Spec
CONSTANTS
  a1 = a1
  a2 = a2
  a3 = a3
  p1 = p1
  v = v
  w = w
  q1 = q1
  q2 = q2
  NoAuth = NoAuth
  NoKey = NoKey
  Auths = {a1, a2}
  Keys = {p1, v}
  Prompt = {p1}
  Sessions <- OneSession
  Requests = {q1}
  MaxGroups = 2
  MaxLapses = 0
PROPERTIES MergesLoseToWriters
CHECK_DEADLOCK FALSE
