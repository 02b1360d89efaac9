------------------------- MODULE MCRequestFailover -------------------------
(* Small instances of RequestFailover: two credentials, under the settings  *)
(* that make its paths differ.                                              *)
EXTENDS RequestFailover, TLC

CONSTANTS c1, c2

Plain == [stream |-> FALSE, chain |-> 1, limit |-> (c1 :> 1 @@ c2 :> 0), budget |-> 0, waits |-> TRUE,
          pool |-> 1, off |-> {}, offAll |-> FALSE, excluded |-> {}, bare |-> {}]
Both == {FALSE, TRUE}
SomeSettings ==
    {[Plain EXCEPT !.stream = s] : s \in Both}
    \cup {[Plain EXCEPT !.stream = s, !.pool = 2, !.budget = 1] : s \in Both}
    \cup {[Plain EXCEPT !.stream = s, !.waits = FALSE, !.limit = [c \in {c1, c2} |-> 1]] : s \in Both}
    \cup {[Plain EXCEPT !.limit = (c1 :> 2 @@ c2 :> 1), !.off = {c1}],
          [Plain EXCEPT !.limit = (c1 :> 2 @@ c2 :> 1), !.offAll = TRUE, !.off = {c1, c2}],
          [Plain EXCEPT !.excluded = {c2}, !.limit = [c \in {c1, c2} |-> 1]],
          [Plain EXCEPT !.bare = {c2}, !.budget = 1],
          [Plain EXCEPT !.stream = TRUE, !.chain = 2, !.excluded = {c2}],
          [Plain EXCEPT !.chain = 2, !.budget = 1]}
============================================================================
