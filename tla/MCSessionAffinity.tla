------------------------- MODULE MCSessionAffinity -------------------------
(* A small instance of SessionAffinity: the requests of a conversation v    *)
(* come under the prompt-cache key p1; w is an identifier earlier requests  *)
(* left in one of the groups.                                               *)
EXTENDS SessionAffinity, TLC

CONSTANTS a1, a2, a3, p1, v, w, q1, q2
OneSession == {<<p1, v>>}
Symmetric == Permutations({a1, a2, a3}) \cup Permutations({q1, q2})
=============================================================================
