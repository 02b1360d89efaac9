----------------------- MODULE RequestFailoverProofs -----------------------
(***************************************************************************)
(* Theorems about RequestFailover for every set of credentials and every   *)
(* request: each attempt is recorded as what it was, rounds and calls keep *)
(* to their limits, and a request that fails has tried what it had to.     *)
(***************************************************************************)
EXTENDS RequestFailover, TLAPS, FiniteSetTheorems

-----------------------------------------------------------------------------
(* Types, and where a request can stand.                                    *)

Availability == {"ready", "soon", "late", "hard"}
Passes       == 0..(MaxPasses - 1)

Engaged  == {"prepare", "send"} \cup Busy
Starting == {"closest", "wait", "waited", "again"}
Positions == {"begin", "pick", "passed", "decide", "done"} \cup Engaged \cup Starting

(* A retry round is only considered for an error that allows one, while a  *)
(* credential has rounds left; with a chain there are candidates left.      *)
Placed ==
  /\ pc \in Engaged => cur \in Creds
  /\ pc \in {"decide"} \cup Starting => ~Ordered
  /\ pc \in Starting => err \in RetryRoundStatus /\ \E c \in Creds : pass < req.limit[c]
  /\ Ordered => pass < req.chain

(* A credential that was ready all the time is ready.                      *)
OutsideOK ==
  /\ avail \in [Creds -> Availability] /\ steady \subseteq Creds
  /\ \A c \in steady : avail[c] = "ready"
  /\ unsaved \in Nat

Typed ==
  /\ req \in Settings /\ gone \in BOOLEAN /\ pc \in Positions
  /\ pass \in Passes /\ tried \subseteq Creds /\ used \in [Passes -> SUBSET Creds]
  /\ cur \in Creds \cup {NoCred} /\ left \in 0..req.pool /\ refresh \in {"no", "start", "boot"}
  /\ err \in Errors /\ lastErr \in Errors /\ truth \in Errors
  /\ timer \in {"idle", "armed", "fired", "stopped"} /\ src \in {"none", "open"}
  /\ calls \in [Creds -> Nat] /\ prompt \subseteq Passes
TypeInv == Typed /\ OutsideOK /\ Placed

(* The request does not change.                                             *)
LEMMA RequestFixed == ASSUME [Next]_vars PROVE req' = req
  BY DEF Next, vars, Begin, PassOver, Pick, Prepare, PrepareFails, RecordUnprepared, Terminate,
         Call, UpstreamFails, StreamHollow, Answers, Succeed, Abandon, Refresh, GiveUp, Record,
         Fire, StreamOpens, Establish, BootFails, BootEmpty, Deliver, FlowFails, FlowEnds,
         FlowDropped, Weigh, RetryAllowed, ClosestWait, Wait, WaitCanceled, NextRound,
         NextCandidate, Leave, Drift

LEMMA ReqFacts ==
  ASSUME req \in Settings
  PROVE  /\ req.stream \in BOOLEAN /\ req.waits \in BOOLEAN /\ req.offAll \in BOOLEAN
         /\ req.chain \in 1..MaxPasses /\ req.pool \in Nat \ {0} /\ req.budget \in Nat
         /\ req.limit \in [Creds -> 0..(MaxPasses - 1)]
         /\ req.off \subseteq Creds /\ req.excluded \subseteq Creds /\ req.bare \subseteq Creds
         /\ MaxPasses \in Nat \ {0} /\ MaxDrift \in Nat /\ MaxUnsaved \in Nat
         /\ NoCred \notin Creds
<1>1. req.chain \in 1..MaxPasses
  BY SettingsAssumption
<1>2. MaxPasses \in Nat \ {0}
  BY <1>1, SettingsAssumption
<1> QED
  BY <1>2, SettingsAssumption

-----------------------------------------------------------------------------
(* What others do, and what a result does to the records of a credential.   *)

OutsideStep == OutsideOK' /\ steady' \subseteq steady /\ unsaved <= unsaved'

LEMMA SetAvailKeeps ==
  ASSUME OutsideOK, NEW c \in Creds, NEW a \in Availability, SetAvail(c, a), unsaved' = unsaved
  PROVE  OutsideStep
  BY DEF OutsideOK, OutsideStep, SetAvail

LEMMA MarkResultKeeps ==
  ASSUME TypeInv, cur \in Creds, NEW result, NEW A, A \subseteq Availability,
         MarkResult(result, A)
  PROVE  OutsideStep
<1>1. CASE unsaved' = unsaved /\ \E a \in A : SetAvail(cur, a)
  BY <1>1, SetAvailKeeps DEF TypeInv
<1>2. CASE unsaved < MaxUnsaved /\ unsaved' = unsaved + 1 /\ UNCHANGED outside
  BY <1>2 DEF outside, OutsideStep, OutsideOK, TypeInv
<1> QED
  BY <1>1, <1>2 DEF MarkResult

LEMMA AfterIsAvailability ==
  ASSUME TypeInv, cur \in Creds
  PROVE  /\ \A e : AfterFailure(e, cur) \subseteq Availability
         /\ Reopened \subseteq Availability
  BY DEF TypeInv, OutsideOK, Availability, AfterFailure, Reopened

LEMMA OutsideKept == ASSUME TypeInv, [Next]_vars PROVE OutsideStep
<1> USE DEF TypeInv
<1>1. CASE UNCHANGED <<outside, unsaved>>
  BY <1>1 DEF outside, OutsideStep, OutsideOK
<1>2. CASE RecordUnprepared
  BY <1>2, MarkResultKeeps, AfterIsAvailability DEF RecordUnprepared, Placed, Engaged, Busy
<1>3. CASE Record
  BY <1>3, MarkResultKeeps, AfterIsAvailability DEF Record, Placed, Engaged, Busy
<1>4. CASE Succeed
  BY <1>4, MarkResultKeeps, AfterIsAvailability DEF Succeed, Placed, Engaged, Busy
<1>5. CASE FlowFails
  <2>1. cur \in Creds
    BY <1>5 DEF FlowFails, Placed, Engaged, Busy
  <2> QED
    BY <1>1, <1>5, <2>1, MarkResultKeeps, AfterIsAvailability DEF FlowFails
<1>6. CASE FlowEnds
  <2>1. cur \in Creds
    BY <1>6 DEF FlowEnds, Placed, Engaged, Busy
  <2> QED
    BY <1>1, <1>6, <2>1, MarkResultKeeps, AfterIsAvailability DEF FlowEnds
<1>7. CASE Wait
  <2>1. CASE Soon = {}
    BY <1>1, <1>7, <2>1 DEF Wait, limits
  <2>2. CASE Soon # {}
    <3>1. PICK c \in Soon : SetAvail(c, "ready")
      BY <1>7, <2>2 DEF Wait
    <3> QED
      BY <1>7, <3>1, SetAvailKeeps DEF Wait, limits, Soon, Availability
  <2> QED
    BY <2>1, <2>2
<1>8. CASE Drift
  <2>1. PICK c \in Creds, a \in Availability : SetAvail(c, a)
    BY <1>8 DEF Drift, Availability
  <2> QED
    BY <1>8, <2>1, SetAvailKeeps DEF Drift
<1>9. CASE UNCHANGED vars
  BY <1>1, <1>9 DEF vars, limits
<1>10. CASE Begin \/ PassOver \/ Pick \/ Prepare \/ PrepareFails \/ Terminate \/ Call
            \/ UpstreamFails \/ StreamHollow \/ Answers \/ Abandon \/ Refresh \/ GiveUp
  BY <1>1, <1>10 DEF Begin, PassOver, Pick, Prepare, PrepareFails, Terminate, Call,
         UpstreamFails, StreamHollow, Answers, Abandon, Refresh, GiveUp, limits
<1>11. CASE Fire \/ StreamOpens \/ Establish \/ BootFails \/ BootEmpty \/ Deliver \/ FlowDropped
            \/ Weigh \/ RetryAllowed \/ ClosestWait \/ WaitCanceled \/ NextRound
            \/ NextCandidate \/ Leave
  BY <1>1, <1>11 DEF Fire, StreamOpens, Establish, BootFails, BootEmpty, Deliver, FlowDropped,
         Weigh, RetryAllowed, ClosestWait, WaitCanceled, NextRound, NextCandidate, Leave, limits
<1> QED
  BY <1>2, <1>3, <1>4, <1>5, <1>6, <1>7, <1>8, <1>9, <1>10, <1>11 DEF Next

-----------------------------------------------------------------------------
(* Type correctness.                                                        *)
LEMMA InitTyped == Init => TypeInv
<1> SUFFICES ASSUME Init PROVE TypeInv
  OBVIOUS
<1>1. req \in Settings
  BY DEF Init
<1>2. Typed
  <2>1. tried \subseteq Creds /\ used \in [Passes -> SUBSET Creds] /\ calls \in [Creds -> Nat]
    BY <1>1, ReqFacts DEF Init, Passes
  <2>2. pass \in Passes /\ left \in 0..req.pool
    BY <1>1, ReqFacts DEF Init, Passes
  <2> QED
    BY <1>1, <2>1, <2>2 DEF Init, Typed, Positions, Errors
<1>3. OutsideOK /\ Placed
  BY <1>1, ReqFacts DEF Init, OutsideOK, Availability, Placed, Engaged, Busy, Starting, Ordered
<1> QED
  BY <1>2, <1>3 DEF TypeInv

(* Errors an attempt or a pass can end with.                                *)
LEMMA ErrorTypes ==
  /\ Denials \subseteq Errors /\ BootErrors \subseteq Errors /\ Rotating \subseteq Errors /\ RetryRoundStatus \subseteq Rotating
  /\ \A e \in Errors : Ended(e) \in Errors /\ First(e) \in Errors \cup {truth}
  /\ {"ok", "none", "canceled", "terminated", "unsaved", "timeout", "empty", "hollow", "denied",
      "network", "quota", "notfound", "cooldown"} \subseteq Errors
  /\ PickErrors \subseteq Errors
  BY DEF Errors, Denials, BootErrors, Rotating, RetryRoundStatus, Advancing, EndsRequest, Ended, First, PickErrors

LEMMA OneMore ==
  ASSUME NEW f \in [Creds -> Nat], NEW c \in Creds
  PROVE  [f EXCEPT ![c] = f[c] + 1] \in [Creds -> Nat]
  OBVIOUS

LEMMA NextTyped == ASSUME TypeInv, [Next]_vars PROVE Typed' /\ Placed'
<1> DEFINE Goal == Typed' /\ Placed'
<1>a. req \in Settings
  BY DEF TypeInv, Typed
<1> USE ReqFacts, ErrorTypes, <1>a DEF TypeInv, Typed, Placed, Passes, Positions, Engaged, Busy, Starting, EndPass, Rotate, Finish, stream, outcome, histories, control, Ordered
<1>1. CASE Begin
  <2>1. tried' \subseteq Creds /\ calls' \in [Creds -> Nat]
    BY <1>1 DEF Begin, RoundExclusions
  <2> QED
    BY <1>1, <2>1 DEF Begin
<1>2. CASE PassOver
  BY <1>2 DEF PassOver
<1>3. CASE Pick
  <2>1. PICK c \in Creds : cur' = c /\ tried' = tried \cup {c}
    BY <1>3 DEF Pick, Selectable, OutOfReach
  <2>2. left' \in 0..req.pool
    BY <1>3 DEF Pick
  <2>3. used' \in [Passes -> SUBSET Creds]
    BY <1>3, <2>1, SMTT(30) DEF Pick
  <2> QED
    BY <1>3, <2>1, <2>2, <2>3 DEF Pick
<1>4. CASE Prepare
  BY <1>4 DEF Prepare
<1>5. CASE PrepareFails
  BY <1>5 DEF PrepareFails
<1>6. CASE RecordUnprepared
  BY <1>6 DEF RecordUnprepared
<1>7. CASE Terminate
  BY <1>7 DEF Terminate
<1>8. CASE Call
  <2>1. calls' \in [Creds -> Nat]
    <3>1. CASE calls' = calls
      BY <3>1
    <3>2. CASE calls' = [calls EXCEPT ![cur] = calls[cur] + 1]
      <4>1. cur \in Creds
        BY <1>8 DEF Call
      <4>2. [calls EXCEPT ![cur] = calls[cur] + 1] \in [Creds -> Nat]
        BY <4>1, OneMore
      <4> QED
        BY <3>2, <4>2
    <3> QED
      BY <1>8, <3>1, <3>2 DEF Call
  <2>2. timer' \in {"idle", "armed", "fired", "stopped"}
    BY <1>8 DEF Call, Arm
  <2> QED
    BY <1>8, <2>1, <2>2 DEF Call
<1>9. CASE UpstreamFails
  BY <1>9 DEF UpstreamFails
<1>10. CASE StreamHollow
  BY <1>10 DEF StreamHollow
<1>11. CASE Answers
  BY <1>11 DEF Answers
<1>12. CASE Succeed
  BY <1>12 DEF Succeed
<1>13. CASE Abandon
  BY <1>13 DEF Abandon
<1>14. CASE Refresh
  <2>0. cur \in Creds /\ calls' = [calls EXCEPT ![cur] = calls[cur] + 1]
    BY <1>14 DEF Refresh
  <2>1. calls' \in [Creds -> Nat]
    BY <2>0, OneMore
  <2>2. timer' \in {"idle", "armed", "fired", "stopped"}
    BY <1>14 DEF Refresh, Arm
  <2> QED
    BY <1>14, <2>1, <2>2 DEF Refresh
<1>15. CASE GiveUp
  BY <1>15 DEF GiveUp
<1>16. CASE Record
  <2>1. left' \in 0..req.pool
    BY <1>16 DEF Record, NextModel
  <2>2. pc' \in {"send", "passed", "pick"} /\ err' \in Errors /\ lastErr' \in Errors
    BY <1>16 DEF Record
  <2> QED
    BY <1>16, <2>1, <2>2 DEF Record
<1>17. CASE Fire
  BY <1>17 DEF Fire
<1>18. CASE StreamOpens
  BY <1>18 DEF StreamOpens
<1>19. CASE Establish
  BY <1>19 DEF Establish
<1>20. CASE BootFails
  BY <1>20 DEF BootFails
<1>21. CASE BootEmpty
  BY <1>21 DEF BootEmpty
<1>22. CASE Deliver
  BY <1>22 DEF Deliver
<1>23. CASE FlowFails
  BY <1>23 DEF FlowFails
<1>24. CASE FlowEnds
  BY <1>24 DEF FlowEnds
<1>25. CASE FlowDropped
  BY <1>25 DEF FlowDropped
<1>26. CASE Weigh
  BY <1>26 DEF Weigh
<1>27. CASE RetryAllowed
  <2>1. CASE pc' = "closest"
    BY <1>27, <2>1 DEF RetryAllowed, Retriable
  <2>2. CASE pc' = "done"
    BY <1>27, <2>2 DEF RetryAllowed
  <2> QED
    BY <1>27, <2>1, <2>2 DEF RetryAllowed
<1>28. CASE ClosestWait
  BY <1>28 DEF ClosestWait
<1>29. CASE Wait
  BY <1>29 DEF Wait
<1>30. CASE WaitCanceled
  BY <1>30 DEF WaitCanceled
<1>31. CASE NextRound
  <2>1. tried' \subseteq Creds
    BY <1>31 DEF NextRound, Exclusions
  <2>2. pass' \in Passes
    BY <1>31 DEF NextRound
  <2> QED
    BY <1>31, <2>1, <2>2 DEF NextRound
<1>32. CASE NextCandidate
  <2>1. pass' \in Passes /\ tried' \subseteq Creds /\ pc' \in {"begin", "done"} /\ pass' < req.chain
    BY <1>32 DEF NextCandidate
  <2> QED
    BY <1>32, <2>1 DEF NextCandidate
<1>33. CASE Leave
  BY <1>33 DEF Leave
<1>34. CASE Drift
  BY <1>34, SMTT(30) DEF Drift
<1>35. CASE UNCHANGED vars
  BY <1>35 DEF vars
<1> QED
  BY <1>1, <1>2, <1>3, <1>4, <1>5, <1>6, <1>7, <1>8, <1>9, <1>10, <1>11, <1>12, <1>13, <1>14, <1>15, <1>16, <1>17, <1>18, <1>19, <1>20, <1>21, <1>22, <1>23, <1>24, <1>25, <1>26, <1>27, <1>28, <1>29, <1>30, <1>31, <1>32, <1>33, <1>34, <1>35 DEF Next

-----------------------------------------------------------------------------
(* The attempt.  Until its result is recorded nothing is told; where the    *)
(* result is known it is the error at hand, which the timer may replace as   *)
(* long as it is armed.                                                      *)
Pending == {"unprepared", "upstream", "answered", "succeeded", "record", "opened", "boot"}
AttemptInv ==
  /\ told = << >> \/ told = <<truth>>
  /\ pc \in Pending => told = << >>
  /\ pc \in {"upstream", "opened", "boot"} => truth = "none"
  /\ pc \in {"unprepared", "record"} => truth = err
  /\ pc = "succeeded" => truth = "ok"
  /\ pc = "answered" => truth = Ended(err)
  /\ pc \in {"unprepared", "upstream", "succeeded"} => src = "none"
  /\ pc \in {"boot", "flowing"} => timer # "armed"
  /\ pc = "flowing" => timer # "fired" /\ (truth = "none" <=> told = << >>)
  /\ pc \notin Busy => src = "none" /\ (truth # "none" /\ ~gone => told = <<truth>>)

LEMMA Recorded ==
  ASSUME NEW result, NEW A, MarkResult(result, A), told = << >>
  PROVE  told' = <<result>>
  BY DEF MarkResult

LEMMA AttemptStep == ASSUME TypeInv, AttemptInv, [Next]_vars PROVE AttemptInv'
<1> USE DEF AttemptInv, Pending, Busy, EndPass, Rotate, Finish, stream, outcome, histories, control, outside, Ended
<1>1. CASE Begin
  BY <1>1 DEF Begin
<1>2. CASE PassOver
  BY <1>2 DEF PassOver
<1>3. CASE Pick
  BY <1>3 DEF Pick
<1>4. CASE Prepare
  BY <1>4 DEF Prepare
<1>5. CASE PrepareFails
  BY <1>5 DEF PrepareFails
<1>6. CASE RecordUnprepared
  <2>1. told' = <<err>> /\ truth' = truth /\ truth = err
    BY <1>6, Recorded DEF RecordUnprepared
  <2> QED
    BY <1>6, <2>1 DEF RecordUnprepared
<1>7. CASE Terminate
  BY <1>7 DEF Terminate
<1>8. CASE Call
  BY <1>8 DEF Call
<1>9. CASE UpstreamFails
  BY <1>9 DEF UpstreamFails
<1>10. CASE StreamHollow
  BY <1>10 DEF StreamHollow
<1>11. CASE Answers
  BY <1>11 DEF Answers
<1>12. CASE Succeed
  <2>1. told' = <<"ok">> /\ truth' = truth /\ truth = "ok"
    BY <1>12, Recorded DEF Succeed
  <2> QED
    BY <1>12, <2>1 DEF Succeed
<1>13. CASE Abandon
  BY <1>13 DEF Abandon
<1>14. CASE Refresh
  BY <1>14 DEF Refresh
<1>15. CASE GiveUp
  BY <1>15 DEF GiveUp
<1>16. CASE Record
  <2>1. told' = <<err>> /\ truth' = truth /\ truth = err
    BY <1>16, Recorded DEF Record
  <2> QED
    BY <1>16, <2>1 DEF Record
<1>17. CASE Fire
  BY <1>17 DEF Fire, MayFire
<1>18. CASE StreamOpens
  BY <1>18 DEF StreamOpens
<1>19. CASE Establish
  BY <1>19 DEF Establish
<1>20. CASE BootFails
  BY <1>20 DEF BootFails
<1>21. CASE BootEmpty
  BY <1>21 DEF BootEmpty
<1>22. CASE Deliver
  BY <1>22 DEF Deliver
<1>23. CASE FlowFails
  <2>1. PICK e \in Denials : /\ truth' = First(e)
                           /\ IF Unreported THEN MarkResult(e, AfterFailure(e, cur))
                              ELSE UNCHANGED <<told, outside, unsaved>>
    BY <1>23 DEF FlowFails
  <2>2. e # "none"
    BY DEF Denials
  <2>3. CASE told = << >>
    <3>1. told' = <<e>> /\ truth' = e
      BY <1>23, <2>1, <2>3, Recorded DEF Unreported, First, FlowFails
    <3> QED
      BY <1>23, <2>2, <3>1 DEF FlowFails
  <2>4. CASE told # << >>
    <3>1. told' = told /\ truth' = truth
      BY <1>23, <2>1, <2>4 DEF Unreported, First, FlowFails
    <3> QED
      BY <1>23, <2>4, <3>1 DEF FlowFails
  <2> QED
    BY <2>3, <2>4
<1>24. CASE FlowEnds
  <2>1. CASE told = << >>
    <3>1. told' = <<"ok">> /\ truth' = "ok"
      BY <1>24, <2>1, Recorded DEF Unreported, First, FlowEnds
    <3> QED
      BY <1>24, <3>1 DEF FlowEnds
  <2>2. CASE told # << >>
    <3>1. told' = told /\ truth' = truth
      BY <1>24, <2>2 DEF Unreported, First, FlowEnds
    <3> QED
      BY <1>24, <2>2, <3>1 DEF FlowEnds
  <2> QED
    BY <2>1, <2>2
<1>25. CASE FlowDropped
  BY <1>25 DEF FlowDropped
<1>26. CASE Weigh
  BY <1>26 DEF Weigh
<1>27. CASE RetryAllowed
  BY <1>27 DEF RetryAllowed
<1>28. CASE ClosestWait
  BY <1>28 DEF ClosestWait
<1>29. CASE Wait
  BY <1>29 DEF Wait
<1>30. CASE WaitCanceled
  BY <1>30 DEF WaitCanceled
<1>31. CASE NextRound
  BY <1>31 DEF NextRound
<1>32. CASE NextCandidate
  BY <1>32 DEF NextCandidate
<1>33. CASE Leave
  BY <1>33 DEF Leave
<1>34. CASE Drift
  BY <1>34 DEF Drift
<1>35. CASE UNCHANGED vars
  BY <1>35 DEF vars
<1> QED
  BY <1>1, <1>2, <1>3, <1>4, <1>5, <1>6, <1>7, <1>8, <1>9, <1>10, <1>11, <1>12, <1>13, <1>14, <1>15, <1>16, <1>17, <1>18, <1>19, <1>20, <1>21, <1>22, <1>23, <1>24, <1>25, <1>26, <1>27, <1>28, <1>29, <1>30, <1>31, <1>32, <1>33, <1>34, <1>35 DEF Next

LEMMA AttemptInit == Init => AttemptInv
  BY DEF Init, AttemptInv, Pending, Busy

LEMMA TypesAndAttempt == Spec => [](TypeInv /\ AttemptInv)
<1>1. TypeInv /\ AttemptInv /\ [Next]_vars => (TypeInv /\ AttemptInv)'
  BY NextTyped, OutsideKept, AttemptStep DEF TypeInv, OutsideStep
<1> QED
  BY <1>1, InitTyped, AttemptInit, PTL DEF Spec

(* Type correctness: every variable of a request, of its records and of its *)
(* histories keeps its type (conductor_execution.go:378).                    *)
THEOREM TypeCorrect == Spec => []TypeOK
<1>1. TypeInv /\ AttemptInv => TypeOK
  <2> SUFFICES ASSUME TypeInv, AttemptInv PROVE TypeOK
    OBVIOUS
  <2>1. told \in Seq(Errors)
    <3>1. truth \in Errors
      BY DEF TypeInv, Typed
    <3>2. << >> \in Seq(Errors) /\ <<truth>> \in Seq(Errors)
      BY <3>1
    <3> QED
      BY <3>2 DEF AttemptInv
  <2> QED
    BY <2>1 DEF TypeInv, Typed, OutsideOK, TypeOK, Availability, Passes
<1> QED
  BY <1>1, TypesAndAttempt, PTL

(* However an attempt ends - an answer, a refresh and its repetition, the    *)
(* first-chunk timer, a stream before or after its first content - exactly   *)
(* one result is recorded of it, the one that happened, unless the client    *)
(* left; and a delivered stream is safe from the timer                       *)
(* (conductor_stream.go:325, :565).                                          *)
THEOREM AttemptsAreSettled == Spec => []AttemptSettled
<1>1. TypeInv /\ AttemptInv => AttemptSettled
  BY DEF AttemptInv, AttemptSettled
<1> QED
  BY <1>1, TypesAndAttempt, PTL

-----------------------------------------------------------------------------
(* Rounds.  A model is called once and the refreshed credential once more:  *)
(* what was called and what is left of the pool add up to no more.           *)
Refreshed == IF refresh = "no" THEN 0 ELSE 1
Calling   == Engaged \ {"prepare", "unprepared", "send"}
CallsInv ==
  /\ pc # "begin" => \A c \in Creds \ tried : calls[c] = 0
  /\ pc \in Engaged => cur \in tried
  /\ pc \in {"prepare", "send"} => left >= 1 /\ calls[cur] + left <= req.pool + Refreshed
  /\ pc \in Calling => left >= 1 /\ calls[cur] + left <= req.pool + Refreshed + 1
  /\ \A c \in Creds : calls[c] <= req.pool + 1

(* A credential is used in a pass only if no exclusion keeps it out, and is *)
(* excluded from the next unless that one begins at once.                    *)
Ahead(i) == i > pass \/ (i = pass /\ pc = "begin")
Since(j, i) == \E k \in prompt : j < k /\ k <= i
BudgetInv ==
  /\ \A i \in Passes : /\ IsFiniteSet(used[i])
                       /\ req.budget > 0 => Cardinality(used[i]) <= req.budget
                       /\ Ahead(i) => used[i] = {}
  /\ used[pass] \subseteq tried
ExclusionsInv ==
  ~Ordered =>
    /\ pc # "begin" => \A c \in Creds : RetriesSpent(c) => c \in tried
    /\ \A i \in Passes : \A c \in used[i] : i <= req.limit[c]
CallerInv == \A i \in Passes : used[i] \cap req.excluded = {}
CooledInv ==
  ~Ordered =>
    /\ \A j \in 0..pass : \A c \in used[j] : CoolingOff(c) => c \in tried \/ Since(j, pass)
    /\ \A i \in Passes : \A j \in 0..(i - 1) :
          \A c \in used[i] \cap used[j] : CoolingOff(c) => Since(j, i)

LEMMA CallsStep == ASSUME TypeInv, CallsInv, [Next]_vars PROVE CallsInv'
<1> USE ReqFacts DEF TypeInv, Typed, Placed, CallsInv, Calling, Engaged, Busy, Starting, EndPass, Rotate, Finish, stream, outcome, histories, control, outside, Refreshed
<1>1. CASE Begin
  BY <1>1 DEF Begin
<1>2. CASE Pick
  <2>1. PICK c \in Creds \ tried : cur' = c /\ tried' = tried \cup {c}
    BY <1>2 DEF Pick, Selectable, OutOfReach
  <2>2. calls[c] = 0 /\ calls' = calls
    BY <1>2, <2>1 DEF Pick
  <2>3. left' = req.pool \/ pc' = "pick"
    BY <1>2 DEF Pick
  <2> QED
    BY <1>2, <2>1, <2>2, <2>3, RequestFixed DEF Pick
<1>3. CASE Call
  <2>1. CASE pc' = "passed"
    BY <1>3, <2>1 DEF Call
  <2>2. CASE pc' = "upstream"
    <3>1. pc = "send" /\ calls' = [calls EXCEPT ![cur] = calls[cur] + 1] /\ cur' = cur /\ left' = left /\ tried' = tried
      BY <1>3, <2>2 DEF Call
    <3>2. Refreshed' = Refreshed /\ Refreshed \in 0..1
      BY <1>3, <2>2 DEF Call
    <3>3. cur \in Creds /\ cur \in tried /\ left >= 1 /\ calls[cur] + left <= req.pool + Refreshed
      BY <1>3 DEF Call
    <3>4. calls'[cur] = calls[cur] + 1 /\ calls[cur] \in Nat /\ \A c \in Creds \ {cur} : calls'[c] = calls[c]
      BY <3>1, <3>3
    <3> HIDE DEF Refreshed
    <3>5. calls'[cur] + left <= req.pool + Refreshed + 1 /\ calls'[cur] <= req.pool + 1
      BY <3>2, <3>3, <3>4
    <3> QED
      BY <1>3, <2>2, <3>1, <3>2, <3>3, <3>4, <3>5, RequestFixed
  <2> QED
    BY <1>3, <2>1, <2>2 DEF Call
<1>4. CASE Refresh
  <2>1. pc = "answered" /\ calls' = [calls EXCEPT ![cur] = calls[cur] + 1] /\ cur' = cur /\ left' = left /\ tried' = tried
    BY <1>4 DEF Refresh
  <2>2. Refreshed = 0 /\ Refreshed' = 1 /\ pc' = "upstream"
    BY <1>4 DEF Refresh, MayRefresh
  <2>3. cur \in Creds /\ cur \in tried /\ left >= 1 /\ calls[cur] + left <= req.pool + Refreshed + 1
    BY <1>4 DEF Refresh
  <2>4. calls'[cur] = calls[cur] + 1 /\ calls[cur] \in Nat /\ \A c \in Creds \ {cur} : calls'[c] = calls[c]
    BY <2>1, <2>3
  <2> HIDE DEF Refreshed
  <2>5. calls'[cur] + left <= req.pool + Refreshed' + 1 /\ calls'[cur] <= req.pool + 1
    BY <2>2, <2>3, <2>4
  <2> QED
    BY <2>1, <2>2, <2>3, <2>4, <2>5, RequestFixed, <1>4
<1>5. CASE Record
  <2>1. pc = "record" /\ UNCHANGED <<calls, cur, tried, refresh, req>> /\ pc' \in {"send", "passed", "pick"}
    BY <1>5 DEF Record
  <2>2. CASE pc' = "send"
    <3>1. left > 1 /\ left' = left - 1
      BY <1>5, <2>2 DEF Record, NextModel
    <3>2. cur \in Creds /\ cur \in tried /\ calls[cur] + left <= req.pool + Refreshed + 1
      BY <1>5 DEF Record
    <3>3. calls[cur] \in Nat /\ Refreshed \in 0..1
      BY <3>2
    <3>4. left' >= 1 /\ calls[cur] + left' <= req.pool + Refreshed
      BY <3>1, <3>2, <3>3
    <3> QED
      BY <1>5, <2>1, <2>2, <3>2, <3>4
  <2>3. CASE pc' # "send"
    BY <1>5, <2>1, <2>3
  <2> QED
    BY <2>2, <2>3
<1>6. CASE PassOver \/ Prepare \/ PrepareFails \/ RecordUnprepared \/ Terminate
  BY <1>6 DEF PassOver, Prepare, PrepareFails, RecordUnprepared, Terminate
<1>7. CASE UpstreamFails \/ StreamHollow \/ Answers \/ Succeed \/ Abandon \/ GiveUp
  BY <1>7 DEF UpstreamFails, StreamHollow, Answers, Succeed, Abandon, GiveUp
<1>8. CASE Fire
  BY <1>8 DEF Fire
<1>9. CASE StreamOpens \/ Establish \/ BootFails \/ BootEmpty \/ Deliver \/ FlowFails \/ FlowEnds \/ FlowDropped
  BY <1>9 DEF StreamOpens, Establish, BootFails, BootEmpty, Deliver, FlowFails, FlowEnds, FlowDropped
<1>10. CASE Weigh \/ RetryAllowed \/ ClosestWait \/ Wait \/ WaitCanceled \/ Leave \/ Drift
  BY <1>10 DEF Weigh, RetryAllowed, ClosestWait, Wait, WaitCanceled, Leave, Drift
<1>11. CASE NextRound
  BY <1>11 DEF NextRound
<1>12. CASE NextCandidate
  BY <1>12 DEF NextCandidate
<1>13. CASE UNCHANGED vars
  BY <1>13 DEF vars
<1> QED
  BY <1>1, <1>2, <1>3, <1>4, <1>5, <1>6, <1>7, <1>8, <1>9, <1>10, <1>11, <1>12, <1>13 DEF Next

(* A step that leaves the pass, the histories and the exclusions alone, and *)
(* steps that start no pass.                                                 *)
RoundStays == /\ UNCHANGED <<req, pass, tried, used, prompt>>
              /\ (pc = "begin") <=> (pc' = "begin")
LEMMA RoundSteps ==
  ASSUME TypeInv, [Next]_vars
  PROVE  Begin \/ Pick \/ NextRound \/ NextCandidate \/ RoundStays
<1> USE DEF RoundStays, EndPass, Rotate, Finish, histories, control
<1>1. CASE PassOver \/ Prepare \/ PrepareFails \/ RecordUnprepared \/ Terminate
  BY <1>1 DEF PassOver, Prepare, PrepareFails, RecordUnprepared, Terminate
<1>2. CASE Call \/ UpstreamFails \/ StreamHollow \/ Answers \/ Succeed
  BY <1>2 DEF Call, UpstreamFails, StreamHollow, Answers, Succeed
<1>3. CASE Abandon \/ Refresh \/ GiveUp
  BY <1>3 DEF Abandon, Refresh, GiveUp
<1>4. CASE Record
  BY <1>4 DEF Record
<1>5. CASE Fire \/ StreamOpens \/ Establish \/ BootFails \/ BootEmpty \/ Deliver \/ FlowFails \/ FlowEnds \/ FlowDropped
  BY <1>5 DEF Fire, StreamOpens, Establish, BootFails, BootEmpty, Deliver, FlowFails, FlowEnds, FlowDropped
<1>6. CASE Weigh \/ RetryAllowed \/ ClosestWait \/ Wait \/ WaitCanceled \/ Leave \/ Drift
  BY <1>6 DEF Weigh, RetryAllowed, ClosestWait, Wait, WaitCanceled, Leave, Drift
<1>7. CASE UNCHANGED vars
  BY <1>7 DEF vars
<1> QED
  BY <1>1, <1>2, <1>3, <1>4, <1>5, <1>6, <1>7 DEF Next

LEMMA PickFacts ==
  ASSUME TypeInv, Pick
  PROVE  \E c \in Creds \ tried :
            /\ cur' = c /\ tried' = tried \cup {c}
            /\ UNCHANGED <<req, pass, prompt>> /\ pc = "pick" /\ pc' # "begin"
            /\ c \in req.bare => used' = used
            /\ c \notin req.bare => used' = [used EXCEPT ![pass] = used[pass] \cup {c}]
            /\ ~(req.budget > 0 /\ Cardinality(used[pass]) >= req.budget)
            /\ c \notin req.excluded
  BY DEF Pick, Selectable, OutOfReach, BudgetSpent

LEMMA BudgetStep == ASSUME TypeInv, BudgetInv, [Next]_vars PROVE BudgetInv'
<1> USE ReqFacts DEF TypeInv, Typed, BudgetInv, Ahead, Passes
<1>1. CASE Begin
  BY <1>1 DEF Begin, histories, stream
<1>2. CASE Pick
  <2>1. PICK c \in Creds \ tried :
            /\ cur' = c /\ tried' = tried \cup {c}
            /\ UNCHANGED <<req, pass, prompt>> /\ pc = "pick" /\ pc' # "begin"
            /\ c \in req.bare => used' = used
            /\ c \notin req.bare => used' = [used EXCEPT ![pass] = used[pass] \cup {c}]
            /\ ~(req.budget > 0 /\ Cardinality(used[pass]) >= req.budget)
    BY <1>2, PickFacts
  <2>2. CASE c \in req.bare
    BY <2>1, <2>2
  <2>3. CASE c \notin req.bare
    <3> DEFINE S == used[pass]
    <3>1. IsFiniteSet(S) /\ c \notin S /\ S \subseteq tried
      BY <2>1
    <3>2. IsFiniteSet(S \cup {c}) /\ Cardinality(S \cup {c}) = Cardinality(S) + 1
      BY <3>1, FS_AddElement
    <3>3. Cardinality(S) \in Nat
      BY <3>1, FS_CardinalityType
    <3>4. req.budget > 0 => Cardinality(S \cup {c}) <= req.budget
      BY <2>1, <3>2, <3>3
    <3>5. used'[pass] = S \cup {c} /\ \A i \in Passes \ {pass} : used'[i] = used[i]
      BY <2>1, <2>3
    <3>6. used'[pass'] \subseteq tried'
      BY <2>1, <3>1, <3>5
    <3>7. \A i \in Passes : /\ IsFiniteSet(used'[i])
                            /\ req.budget > 0 => Cardinality(used'[i]) <= req.budget
      BY <3>2, <3>4, <3>5
    <3>8. \A i \in Passes : Ahead(i)' => used'[i] = {}
      BY <2>1, <3>5
    <3> QED
      BY <2>1, <3>6, <3>7, <3>8
  <2> QED
    BY <2>2, <2>3
<1>3. CASE NextRound
  <2>1. pass' = pass + 1 /\ pass' \in Passes /\ pc # "begin" /\ UNCHANGED <<req, used>>
    BY <1>3, NextTyped DEF NextRound
  <2>2. used'[pass'] = {}
    BY <2>1
  <2> QED
    BY <2>1, <2>2, SMTT(30)
<1>4. CASE NextCandidate
  BY <1>4, SMTT(30) DEF NextCandidate, histories, Finish
<1>5. CASE RoundStays
  BY <1>5 DEF RoundStays
<1> QED
  BY <1>1, <1>2, <1>3, <1>4, <1>5, RoundSteps

LEMMA ExclusionsStep ==
  ASSUME TypeInv, BudgetInv, ExclusionsInv, [Next]_vars
  PROVE  ExclusionsInv'
<1>0. req' = req
  BY RequestFixed
<1> SUFFICES ASSUME ~Ordered PROVE ExclusionsInv'
  BY <1>0 DEF ExclusionsInv, Ordered
<1> USE <1>0, ReqFacts DEF TypeInv, Typed, ExclusionsInv, Passes, RetriesSpent, Ordered
<1>1. CASE Begin
  <2>1. tried' = tried \cup {c \in Creds : RetriesSpent(c)} /\ UNCHANGED <<pass, used>>
    BY <1>1 DEF Begin, RoundExclusions, histories
  <2> QED
    BY <2>1
<1>2. CASE Pick
  <2>1. PICK c \in Creds \ tried :
            /\ cur' = c /\ tried' = tried \cup {c}
            /\ UNCHANGED <<req, pass, prompt>> /\ pc = "pick" /\ pc' # "begin"
            /\ c \in req.bare => used' = used
            /\ c \notin req.bare => used' = [used EXCEPT ![pass] = used[pass] \cup {c}]
    BY <1>2, PickFacts
  <2>2. pass <= req.limit[c]
    BY <2>1
  <2>3. \A i \in Passes : used'[i] = used[i] \/ (i = pass /\ used'[i] = used[i] \cup {c})
    BY <2>1
  <2> QED
    BY <2>1, <2>2, <2>3, SMTT(30)
<1>3. CASE NextRound
  <2>1. pc' = "begin" /\ used' = used
    BY <1>3 DEF NextRound
  <2> QED
    BY <2>1
<1>4. CASE NextCandidate
  BY <1>4 DEF NextCandidate
<1>5. CASE RoundStays
  BY <1>5 DEF RoundStays
<1> QED
  BY <1>1, <1>2, <1>3, <1>4, <1>5, RoundSteps

LEMMA CallerStep == ASSUME TypeInv, CallerInv, [Next]_vars PROVE CallerInv'
<1> USE DEF CallerInv
<1>1. CASE Pick
  <2>1. PICK c \in Creds \ tried :
            /\ UNCHANGED <<req, pass, prompt>>
            /\ c \in req.bare => used' = used
            /\ c \notin req.bare => used' = [used EXCEPT ![pass] = used[pass] \cup {c}]
            /\ c \notin req.excluded
    BY <1>1, PickFacts
  <2>2. \A i \in Passes : used'[i] \subseteq used[i] \cup {c}
    BY <2>1 DEF TypeInv, Typed
  <2> QED
    BY <2>1, <2>2
<1>2. CASE Begin \/ NextRound \/ NextCandidate \/ RoundStays
  BY <1>2, RequestFixed DEF Begin, NextRound, NextCandidate, RoundStays, histories
<1> QED
  BY <1>1, <1>2, RoundSteps

LEMMA CooledStep ==
  ASSUME TypeInv, BudgetInv, CooledInv, [Next]_vars
  PROVE  CooledInv'
<1>0. req' = req
  BY RequestFixed
<1> SUFFICES ASSUME ~Ordered PROVE CooledInv'
  BY <1>0 DEF CooledInv, Ordered
<1> USE <1>0, ReqFacts DEF TypeInv, Typed, CooledInv, Passes, Since, CoolingOff, Ordered
<1>1. CASE Begin
  <2>1. tried \subseteq tried' /\ UNCHANGED <<pass, used, prompt>>
    BY <1>1 DEF Begin, histories
  <2> QED
    BY <2>1
<1>2. CASE Pick
  <2>1. PICK c \in Creds \ tried :
            /\ cur' = c /\ tried' = tried \cup {c}
            /\ UNCHANGED <<req, pass, prompt>> /\ pc = "pick" /\ pc' # "begin"
            /\ c \in req.bare => used' = used
            /\ c \notin req.bare => used' = [used EXCEPT ![pass] = used[pass] \cup {c}]
    BY <1>2, PickFacts
  <2>2. \A i \in Passes : used'[i] = used[i] \/ (i = pass /\ used'[i] = used[i] \cup {c})
    BY <2>1
  <2>3. \A j \in 0..pass : c \in used[j] /\ CoolingOff(c) => Since(j, pass)
    BY <2>1
  <2>4. \A j \in 0..pass : \A d \in used'[j] : CoolingOff(d) => d \in tried' \/ Since(j, pass)
    <3> SUFFICES ASSUME NEW j \in 0..pass, NEW d \in used'[j], CoolingOff(d), d \notin tried'
                 PROVE  Since(j, pass)
      OBVIOUS
    <3>1. j \in Passes /\ d \in used[j] \cup {c}
      BY <2>2, SMTT(30)
    <3> QED
      BY <2>1, <3>1
  <2>5. \A i \in Passes : i > pass => used'[i] = {}
    BY <2>2 DEF BudgetInv, Ahead
  <2>6. ASSUME NEW i \in Passes, NEW j \in 0..(i - 1), NEW d \in used'[i] \cap used'[j], CoolingOff(d)
        PROVE  Since(j, i)
    <3>1. CASE d \in used[i] \cap used[j]
      BY <2>6, <3>1
    <3>2. CASE d \notin used[i]
      <4>1. i = pass /\ d = c
        BY <2>2, <2>6, <3>2, SMTT(30)
      <4>2. d \in used[j] /\ j \in 0..pass
        BY <2>2, <2>6, <4>1
      <4> QED
        BY <2>3, <2>6, <4>1, <4>2
    <3>3. CASE d \notin used[j]
      <4>1. j = pass
        BY <2>2, <2>6, <3>3
      <4> QED
        BY <2>5, <2>6, <4>1
    <3> QED
      BY <2>6, <3>1, <3>2, <3>3
  <2> QED
    BY <2>1, <2>4, <2>6
<1>3. CASE NextRound
  <2>1. pass' = pass + 1 /\ pass' \in Passes /\ used' = used /\ prompt \subseteq prompt' /\ pc # "begin"
    BY <1>3, NextTyped DEF NextRound
  <2>2. used[pass'] = {}
    BY <2>1 DEF BudgetInv, Ahead
  <2>3. ASSUME NEW j \in 0..pass, NEW c \in used[j], CoolingOff(c)
        PROVE  c \in tried' \/ Since(j, pass)'
    <3>1. CASE AtOnce
      <4>1. pass' \in prompt'
        BY <1>3, <2>1, <3>1 DEF NextRound
      <4> QED
        BY <2>1, <4>1
    <3>2. CASE ~AtOnce
      <4>1. tried' = IF req.offAll THEN tried ELSE (tried \cap req.off) \cup req.excluded
        BY <1>3, <3>2 DEF NextRound, Exclusions
      <4>2. c \in tried => c \in tried'
        BY <2>3, <4>1
      <4>3. c \in tried \/ Since(j, pass)
        BY <2>3
      <4>4. Since(j, pass) => Since(j, pass)'
        BY <2>1
      <4> QED
        BY <4>2, <4>3, <4>4
    <3> QED
      BY <3>1, <3>2
  <2> QED
    <3>1. \A j \in 0..pass' : \A c \in used'[j] : CoolingOff(c)' => c \in tried' \/ Since(j, pass)'
      <4> SUFFICES ASSUME NEW j \in 0..pass', NEW c \in used'[j], CoolingOff(c)
                   PROVE  c \in tried' \/ Since(j, pass)'
        OBVIOUS
      <4>1. j \in 0..pass \/ j = pass'
        BY <2>1
      <4> QED
        BY <2>1, <2>2, <2>3, <4>1
    <3>2. \A i \in Passes : \A j \in 0..(i - 1) :
             \A c \in used'[i] \cap used'[j] : CoolingOff(c)' => Since(j, i)'
      BY <2>1
    <3> QED
      BY <3>1, <3>2
<1>4. CASE NextCandidate
  BY <1>4 DEF NextCandidate
<1>5. CASE RoundStays
  BY <1>5 DEF RoundStays
<1> QED
  BY <1>1, <1>2, <1>3, <1>4, <1>5, RoundSteps

RoundInv == CallsInv /\ BudgetInv /\ ExclusionsInv /\ CallerInv /\ CooledInv
LEMMA RoundInit == Init => RoundInv
<1> SUFFICES ASSUME Init PROVE RoundInv
  OBVIOUS
<1>0. TypeInv
  BY InitTyped
<1> USE <1>0, ReqFacts DEF Init, TypeInv, Typed, Passes
<1>1. CallsInv
  BY DEF CallsInv, Engaged, Busy, Calling
<1>2. BudgetInv
  BY FS_EmptySet DEF BudgetInv, Ahead
<1>3. ExclusionsInv
  BY DEF ExclusionsInv
<1>4. CallerInv
  BY DEF CallerInv
<1>5. CooledInv
  BY DEF CooledInv
<1> QED
  BY <1>1, <1>2, <1>3, <1>4, <1>5 DEF RoundInv

LEMMA Rounds == Spec => [](TypeInv /\ RoundInv)
<1>1. TypeInv /\ RoundInv /\ [Next]_vars => (TypeInv /\ RoundInv)'
  BY NextTyped, OutsideKept, CallsStep, BudgetStep, ExclusionsStep, CallerStep, CooledStep
     DEF TypeInv, OutsideStep, RoundInv
<1> QED
  BY <1>1, InitTyped, RoundInit, PTL DEF Spec

(* However rounds, models, refreshes, candidates and changing cooldowns      *)
(* combine: a pass calls a credential once per model of its pool and once    *)
(* more after a refresh, no more credentials than max-retry-credentials, and *)
(* none the caller excludes; without a chain a credential takes part in no   *)
(* more rounds than its request-retry allows and, if it is not cooled, not   *)
(* again after a wait or a 429 (conductor_execution.go:1939).                *)
THEOREM RoundsAreBounded == Spec => []RoundsBounded
<1>1. TypeInv /\ RoundInv => RoundsBounded
  <2> SUFFICES ASSUME TypeInv, RoundInv PROVE RoundsBounded
    OBVIOUS
  <2>1. DOMAIN used = Passes
    BY DEF TypeInv, Typed
  <2>2. \A c \in Creds : calls[c] <= req.pool + 1
    BY DEF RoundInv, CallsInv
  <2>3. \A i \in Passes : req.budget > 0 => Cardinality(used[i]) <= req.budget
    BY DEF RoundInv, BudgetInv
  <2>5. \A i \in Passes : used[i] \cap req.excluded = {}
    BY DEF RoundInv, CallerInv
  <2>4. ~Ordered => \A i \in Passes : \A c \in used[i] :
          /\ i <= req.limit[c]
          /\ CoolingOff(c) => \A j \in 0..(i - 1) : c \in used[j] => Since(j, i)
    BY DEF RoundInv, ExclusionsInv, CooledInv
  <2> QED
    BY <2>1, <2>2, <2>3, <2>4, <2>5 DEF RoundsBounded, Since
<1> QED
  BY <1>1, Rounds, PTL

-----------------------------------------------------------------------------
(* Giving up.  A pass whose error lets the request go on has tried each     *)
(* credential that was ready all along and whose turn it was, up to the      *)
(* budget, unless a result was lost.                                         *)
Complete(i) ==
  \A c \in steady \ req.bare :
     InTurn(c, i) => c \in used[i] \/ (req.budget > 0 /\ Cardinality(used[i]) >= req.budget)
Outcome == {"passed", "decide", "done"} \cup Starting
TurnInv ==
  /\ pc = "begin" => \A c \in tried : ~InTurn(c, pass)
  /\ pc # "begin" => \A c \in tried \ req.bare : InTurn(c, pass) => c \in used[pass]
CompleteInv ==
  unsaved = 0 => /\ ~Ordered => \A i \in 0..(pass - 1) : Complete(i)
                 /\ pc \in Outcome /\ err \in Rotating => Complete(pass)
LastRoundInv ==
  pc = "done" /\ err \in RetryRoundStatus /\ ~Ordered =>
     \A c \in steady \ req.excluded : req.limit[c] <= pass

LEMMA TurnStep ==
  ASSUME TypeInv, BudgetInv, TurnInv, [Next]_vars
  PROVE  TurnInv'
<1>0. req' = req
  BY RequestFixed
<1> USE <1>0, ReqFacts DEF TypeInv, Typed, TurnInv, Passes, InTurn, Ordered, CoolingOff
<1>1. CASE Begin
  <2>1. tried' = tried \cup RoundExclusions /\ UNCHANGED <<pass, used>> /\ pc = "begin" /\ pc' # "begin"
    BY <1>1 DEF Begin, histories
  <2>2. \A c \in RoundExclusions : ~InTurn(c, pass)
    BY DEF RoundExclusions, RetriesSpent
  <2> QED
    BY <2>1, <2>2
<1>2. CASE Pick
  <2>1. PICK c \in Creds \ tried :
            /\ cur' = c /\ tried' = tried \cup {c}
            /\ UNCHANGED <<req, pass, prompt>> /\ pc = "pick" /\ pc' # "begin"
            /\ c \in req.bare => used' = used
            /\ c \notin req.bare => used' = [used EXCEPT ![pass] = used[pass] \cup {c}]
    BY <1>2, PickFacts
  <2>2. used[pass] \subseteq used'[pass] /\ (c \notin req.bare => c \in used'[pass])
    BY <2>1
  <2> QED
    BY <2>1, <2>2
<1>3. CASE NextRound
  <2>1. pass' = pass + 1 /\ tried' = Exclusions(AtOnce) /\ pc' = "begin" /\ pass' # 0 /\ ~Ordered
    BY <1>3 DEF NextRound, Placed, Starting
  <2>2. \A c \in Exclusions(AtOnce) : c \in req.excluded \/ CoolingOff(c)
    BY DEF Exclusions
  <2>3. \A c \in tried' : ~InTurn(c, pass)'
    BY <2>1, <2>2
  <2> QED
    BY <2>1, <2>3
<1>4. CASE NextCandidate
  BY <1>4 DEF NextCandidate, Finish, histories
<1>5. CASE RoundStays
  BY <1>5 DEF RoundStays
<1> QED
  BY <1>1, <1>2, <1>3, <1>4, <1>5, RoundSteps

(* What a pass has tried stays tried, and no credential becomes steady.     *)
LEMMA CompleteStays ==
  ASSUME TypeInv, OutsideStep, req' = req, NEW i \in Passes, Complete(i), used'[i] = used[i],
         Ordered => pass' = pass
  PROVE  Complete(i)'
  BY DEF Complete, OutsideStep, InTurn, Ordered, CoolingOff

LEMMA PassOverCompletes ==
  ASSUME TypeInv, TurnInv, PassOver
  PROVE  Complete(pass)
<1>1. CASE BudgetSpent
  BY <1>1 DEF BudgetSpent, Complete
<1>2. CASE Selectable = {}
  <2>1. \A c \in steady : c \in tried \/ c \in req.excluded
    BY <1>2 DEF Selectable, OutOfReach, TypeInv, OutsideOK
  <2>2. pc = "pick"
    BY DEF PassOver
  <2> QED
    BY <2>1, <2>2 DEF Complete, TurnInv, InTurn
<1> QED
  BY <1>1, <1>2 DEF PassOver

(* Whatever else ends a pass, or the request, ends it with an error that    *)
(* lets nobody go on, or loses a result.                                     *)
EndsOtherwise == unsaved' # 0 \/ err' \notin Rotating

LEMMA Losing == ASSUME TypeInv, NEW result, NEW A, MarkResult(result, A), ~Saved PROVE unsaved' # 0
  BY DEF MarkResult, Saved, TypeInv, OutsideOK

LEMMA OutcomeSteps ==
  ASSUME TypeInv, [Next]_vars, pc' \in Outcome
  PROVE  PassOver \/ EndsOtherwise \/ (pc \in Outcome /\ UNCHANGED <<used, pass>> /\ err' \in {err, "canceled"})
<1> USE DEF EndsOtherwise, Outcome, Starting, EndPass, Rotate, Finish, histories, control, Rotating, RetryRoundStatus, Advancing, EndsRequest
<1>1. CASE Begin
  BY <1>1 DEF Begin
<1>2. CASE PassOver
  BY <1>2
<1>3. CASE Pick \/ Prepare \/ PrepareFails \/ Terminate \/ Call
  BY <1>3 DEF Pick, Prepare, PrepareFails, Terminate, Call
<1>4. CASE RecordUnprepared
  BY <1>4, Losing DEF RecordUnprepared
<1>5. CASE UpstreamFails \/ StreamHollow \/ Answers \/ Abandon \/ Refresh \/ GiveUp
  BY <1>5 DEF UpstreamFails, StreamHollow, Answers, Abandon, Refresh, GiveUp
<1>6. CASE Succeed
  BY <1>6, Losing DEF Succeed
<1>7. CASE Record
  BY <1>7, Losing DEF Record, LostResult, EndsPass
<1>8. CASE Fire \/ StreamOpens \/ Establish \/ BootFails \/ BootEmpty \/ Deliver \/ FlowFails
  BY <1>8 DEF Fire, StreamOpens, Establish, BootFails, BootEmpty, Deliver, FlowFails
<1>9. CASE FlowEnds \/ FlowDropped
  BY <1>9 DEF FlowEnds, FlowDropped
<1>10. CASE Weigh \/ RetryAllowed \/ ClosestWait \/ Wait \/ WaitCanceled
  BY <1>10 DEF Weigh, RetryAllowed, ClosestWait, Wait, WaitCanceled
<1>11. CASE NextRound \/ NextCandidate
  BY <1>11 DEF NextRound, NextCandidate
<1>12. CASE Leave \/ Drift
  BY <1>12 DEF Leave, Drift
<1>13. CASE UNCHANGED vars
  BY <1>13 DEF vars
<1> QED
  BY <1>1, <1>2, <1>3, <1>4, <1>5, <1>6, <1>7, <1>8, <1>9, <1>10, <1>11, <1>12, <1>13 DEF Next


LEMMA CompleteStep ==
  ASSUME TypeInv, TurnInv, CompleteInv, [Next]_vars
  PROVE  CompleteInv'
<1>0. req' = req /\ OutsideStep
  BY RequestFixed, OutsideKept
<1>1. (unsaved = 0) \/ unsaved' # 0
  BY <1>0 DEF OutsideStep, OutsideOK, TypeInv
<1> SUFFICES ASSUME unsaved = 0, unsaved' = 0 PROVE CompleteInv'
  BY <1>1 DEF CompleteInv
<1>2. Ordered' = Ordered
  BY <1>0 DEF Ordered
<1>3. pass \in Nat /\ MaxPasses \in Nat /\ \A i \in 0..pass : i \in Passes
  BY ReqFacts DEF TypeInv, Typed, Passes
<1>4. ASSUME ~Ordered, NEW i \in 0..(pass' - 1) PROVE Complete(i)'
  <2>1. CASE NextRound
    <3>1. pass' = pass + 1 /\ used' = used /\ pc \in Outcome /\ err \in Rotating
      BY <2>1, ErrorTypes DEF NextRound, Placed, TypeInv, Outcome, Starting
    <3>2. i \in 0..(pass - 1) \/ i = pass
      BY <1>3, <1>4, <3>1
    <3>3. Complete(i) /\ i \in Passes
      BY <1>3, <1>4, <3>1, <3>2 DEF CompleteInv
    <3> QED
      BY <1>0, <1>4, <3>1, <3>3, CompleteStays
  <2>2. CASE ~NextRound
    <3>1. pass' = pass /\ \A j \in Passes : j < pass => used'[j] = used[j]
      <4>1. CASE Pick
        <5>1. pass' = pass /\ (used' = used \/ \E S : used' = [used EXCEPT ![pass] = S])
          BY <4>1 DEF Pick
        <5> QED
          BY <1>3, <5>1 DEF TypeInv, Typed
      <4>2. CASE Begin \/ NextCandidate \/ RoundStays
        BY <1>4, <4>2 DEF Begin, NextCandidate, RoundStays, histories
      <4> QED
        BY <2>2, <4>1, <4>2, RoundSteps
    <3>2. Complete(i) /\ i \in Passes /\ i < pass
      BY <1>3, <1>4, <3>1 DEF CompleteInv
    <3> QED
      BY <1>0, <1>4, <3>1, <3>2, CompleteStays
  <2> QED
    BY <2>1, <2>2
<1>5. ASSUME pc' \in Outcome, err' \in Rotating PROVE Complete(pass)'
  <2>1. CASE PassOver
    <3>1. UNCHANGED <<pass, used>>
      BY <2>1 DEF PassOver, histories
    <3> QED
      BY <1>0, <1>3, <2>1, <3>1, PassOverCompletes, CompleteStays
  <2>2. CASE pc \in Outcome /\ UNCHANGED <<used, pass>> /\ err' \in {err, "canceled"}
    <3>1. err' = err
      BY <1>5, <2>2 DEF Rotating, RetryRoundStatus, Advancing, EndsRequest
    <3>2. Complete(pass)
      BY <1>5, <2>2, <3>1 DEF CompleteInv
    <3> QED
      BY <1>0, <1>3, <2>2, <3>2, CompleteStays
  <2> QED
    BY <1>5, <2>1, <2>2, OutcomeSteps DEF EndsOtherwise
<1> QED
  BY <1>2, <1>4, <1>5 DEF CompleteInv

LEMMA LastRoundStep ==
  ASSUME TypeInv, LastRoundInv, [Next]_vars
  PROVE  LastRoundInv'
<1>0. req' = req /\ OutsideStep
  BY RequestFixed, OutsideKept
<1>a. Ordered' = Ordered
  BY <1>0 DEF Ordered
<1> SUFFICES ASSUME pc' = "done", err' \in RetryRoundStatus, ~Ordered,
                    NEW c \in steady' \ req.excluded
             PROVE  req.limit[c] <= pass'
  BY <1>0, <1>a DEF LastRoundInv
<1>b. c \in Creds /\ c \in steady /\ avail[c] = "ready" /\ pass \in Nat /\ req.limit[c] \in Nat
  BY <1>0, ReqFacts DEF OutsideStep, TypeInv, OutsideOK, Typed, Passes
<1> USE <1>b DEF LastRoundInv, EndPass, Rotate, Finish, control, histories, RetryRoundStatus, Advancing, EndsRequest, Retriable, TypeInv, Placed, Engaged, Busy
<1>1. CASE Begin \/ PassOver \/ Pick \/ Prepare \/ PrepareFails \/ Terminate
  BY <1>1 DEF Begin, PassOver, Pick, Prepare, PrepareFails, Terminate
<1>2. CASE Call \/ UpstreamFails \/ StreamHollow \/ Answers \/ Abandon \/ Refresh \/ GiveUp
  BY <1>2 DEF Call, UpstreamFails, StreamHollow, Answers, Abandon, Refresh, GiveUp
<1>3. CASE RecordUnprepared \/ Record
  BY <1>3 DEF RecordUnprepared, Record
<1>4. CASE Succeed \/ FlowEnds \/ FlowDropped
  BY <1>4 DEF Succeed, FlowEnds, FlowDropped
<1>5. CASE StreamOpens \/ Establish \/ BootFails \/ BootEmpty \/ Deliver
  BY <1>5 DEF StreamOpens, Establish, BootFails, BootEmpty, Deliver
<1>6. CASE Fire
  BY <1>6 DEF Fire
<1>7. CASE FlowFails
  BY <1>7 DEF FlowFails
<1>8. CASE Weigh \/ WaitCanceled \/ Wait
  BY <1>8 DEF Weigh, WaitCanceled, Wait
<1>9. CASE RetryAllowed
  BY <1>9 DEF RetryAllowed
<1>10. CASE ClosestWait
  BY <1>10 DEF ClosestWait
<1>11. CASE NextRound \/ NextCandidate
  BY <1>11 DEF NextRound, NextCandidate
<1>12. CASE Leave \/ Drift
  BY <1>12 DEF Leave, Drift
<1>13. CASE UNCHANGED vars
  BY <1>13 DEF vars
<1> QED
  BY <1>1, <1>2, <1>3, <1>4, <1>5, <1>6, <1>7, <1>8, <1>9, <1>10, <1>11, <1>12, <1>13 DEF Next

GiveUpInv == TurnInv /\ CompleteInv /\ LastRoundInv
LEMMA GiveUpInit == Init => GiveUpInv
<1> SUFFICES ASSUME Init PROVE GiveUpInv
  OBVIOUS
<1>0. TypeInv
  BY InitTyped
<1>1. TurnInv
  BY DEF Init, TurnInv, InTurn, Ordered
<1>2. CompleteInv
  BY DEF Init, CompleteInv, Outcome, Starting
<1>3. LastRoundInv
  BY DEF Init, LastRoundInv
<1> QED
  BY <1>1, <1>2, <1>3 DEF GiveUpInv

LEMMA GivingUp == Spec => [](TypeInv /\ BudgetInv /\ GiveUpInv)
<1>1. Init => BudgetInv
  BY RoundInit DEF RoundInv
<1>2. TypeInv /\ BudgetInv /\ GiveUpInv /\ [Next]_vars => (TypeInv /\ BudgetInv /\ GiveUpInv)'
  BY NextTyped, OutsideKept, BudgetStep, TurnStep, CompleteStep, LastRoundStep
     DEF TypeInv, OutsideStep, GiveUpInv
<1> QED
  BY <1>1, <1>2, InitTyped, GiveUpInit, PTL DEF Spec

(* A request that fails for want of a working credential has tried, in every *)
(* pass (of a chain: in its last), each credential that was ready all along  *)
(* and whose turn it was, up to max-retry-credentials; and without a chain   *)
(* it does not give up while such a credential has a retry round left        *)
(* (conductor_selection.go:992).  A chain has no retry rounds.               *)
THEOREM RequestsGiveUpRightly == Spec => []GivesUpRightly
<1>1. TypeInv /\ GiveUpInv => GivesUpRightly
  <2> SUFFICES ASSUME TypeInv, GiveUpInv, pc = "done", err \in Rotating, unsaved = 0
               PROVE  /\ \A i \in 0..pass : Complete(i)
                      /\ ~Ordered /\ err \in RetryRoundStatus =>
                            \A c \in steady \ req.excluded : req.limit[c] <= pass
    BY DEF GivesUpRightly, Complete
  <2>1. pass \in Nat
    BY ReqFacts DEF TypeInv, Typed, Passes
  <2>2. Complete(pass)
    BY DEF GiveUpInv, CompleteInv, Outcome
  <2>3. ASSUME NEW i \in 0..pass, i # pass PROVE Complete(i)
    <3>1. CASE Ordered
      BY <2>3, <3>1 DEF Complete, InTurn
    <3>2. CASE ~Ordered
      <4>1. i \in 0..(pass - 1)
        BY <2>1, <2>3
      <4> QED
        BY <3>2, <4>1 DEF GiveUpInv, CompleteInv
    <3> QED
      BY <3>1, <3>2
  <2> QED
    BY <2>2, <2>3 DEF GiveUpInv, LastRoundInv
<1> QED
  BY <1>1, GivingUp, PTL
=============================================================================
