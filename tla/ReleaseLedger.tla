--------------------------- MODULE ReleaseLedger ---------------------------
(***************************************************************************)
(* What the release pipeline of a proxy promises, whatever fails on the    *)
(* way: for every release group, what Home knows is something it was told, *)
(* what is confirmed is something Home knows, and none of the three ever   *)
(* goes back.  ReleaseFlusher implements it.                               *)
(***************************************************************************)
EXTENDS Integers

CONSTANTS Groups, MaxSeq

VARIABLES told, known, confirmed   \* cumulative sequence per group

vars == <<told, known, confirmed>>

Init ==
  /\ told = [g \in Groups |-> 0]
  /\ known = [g \in Groups |-> 0]
  /\ confirmed = [g \in Groups |-> 0]

Tell(g) ==
  /\ \E n \in told[g] + 1 .. MaxSeq : told' = [told EXCEPT ![g] = n]
  /\ UNCHANGED <<known, confirmed>>

Learn(g) ==
  /\ \E n \in known[g] + 1 .. told[g] : known' = [known EXCEPT ![g] = n]
  /\ UNCHANGED <<told, confirmed>>

(* Home may learn and confirm in one step: the answer carries both. *)
Confirm(g) ==
  \E k \in known[g] .. told[g] : \E n \in confirmed[g] + 1 .. k :
    /\ known' = [known EXCEPT ![g] = k]
    /\ confirmed' = [confirmed EXCEPT ![g] = n]
    /\ UNCHANGED told

Next == \E g \in Groups : Tell(g) \/ Learn(g) \/ Confirm(g)

Spec == Init /\ [][Next]_vars
=============================================================================
