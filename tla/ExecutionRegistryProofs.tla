---------------------- MODULE ExecutionRegistryProofs ----------------------
(***************************************************************************)
(* Theorems about ExecutionRegistry for every number of dispatches,        *)
(* barriers, groups, sinks and callers.  The inductive invariant is the    *)
(* type invariant (with the owner steps that determine the two maps), what *)
(* the step of an owner says about its resource, how observed barriers are *)
(* ordered, and what a state word "closed" implies.                        *)
(***************************************************************************)
EXTENDS ExecutionRegistry, FiniteSetTheorems, TLAPS

USE DEF Callers

-----------------------------------------------------------------------------
(* Which steps touch which part of the state. *)
LEMMA DispatchFrame ==
  ASSUME [Next]_vars
  PROVE  \/ UNCHANGED dispatchVars
         \/ BeginDispatch
         \/ \E i \in Ids : \/ PendingEnd(i) \/ Install(i) \/ EndDeactivate(i)
                           \/ EndStartClose(i) \/ EndCloseWaited(i)
                           \/ EndRelease(i) \/ EndDeliver(i) \/ EndDelete(i)
<1> USE DEF coreVars, callerVars
<1>1. CASE UNCHANGED vars
  BY <1>1 DEF vars
<1>2. ASSUME NEW i \in Ids, OwnerStep(i)
      PROVE  \/ UNCHANGED dispatchVars
             \/ \/ PendingEnd(i) \/ Install(i) \/ EndDeactivate(i)
                \/ EndStartClose(i) \/ EndCloseWaited(i)
                \/ EndRelease(i) \/ EndDeliver(i) \/ EndDelete(i)
  BY <1>2 DEF OwnerStep, EndStep, InstallRejected, Bind, ResourceClosed
<1>3. ASSUME NEW d \in Drainers, DrainStep(d) PROVE UNCHANGED dispatchVars
  BY <1>3 DEF DrainStep, DrainBegin, CollectScopes, DrainCheck, DrainCloseOne
<1>4. ASSUME NEW c \in Closers, CloseStep(c) PROVE UNCHANGED dispatchVars
  BY <1>4 DEF CloseStep, CloseBegin, CloseSwap, CollectScopes, CloseStartOne,
     CloseWaitedOne, CloseFinish, CloseJoin
<1> QED
  BY <1>1, <1>2, <1>3, <1>4
     DEF Next, FreezeInFlight, SetReleaseSink, ReplayTo, ObserveBarrier,
         WaitCheck, Cancel

LEMMA ReleaseFrame ==
  ASSUME [Next]_vars
  PROVE  \/ UNCHANGED releaseVars
         \/ \E i \in Ids : EndRelease(i) \/ EndDeliver(i)
         \/ \E s \in Sinks \cup {NoSink} : SetReleaseSink(s)
         \/ \E g \in Groups : ReplayTo(g)
<1> USE DEF coreVars, callerVars
<1>1. CASE UNCHANGED vars
  BY <1>1 DEF vars
<1>2. ASSUME NEW i \in Ids, OwnerStep(i)
      PROVE  UNCHANGED releaseVars \/ EndRelease(i) \/ EndDeliver(i)
  BY <1>2 DEF OwnerStep, EndStep, InstallRejected, PendingEnd, Install, Bind,
     ResourceClosed, EndDeactivate, EndStartClose, EndCloseWaited, EndDelete
<1>3. ASSUME NEW d \in Drainers, DrainStep(d) PROVE UNCHANGED releaseVars
  BY <1>3 DEF DrainStep, DrainBegin, CollectScopes, DrainCheck, DrainCloseOne
<1>4. ASSUME NEW c \in Closers, CloseStep(c) PROVE UNCHANGED releaseVars
  BY <1>4 DEF CloseStep, CloseBegin, CloseSwap, CollectScopes, CloseStartOne,
     CloseWaitedOne, CloseFinish, CloseJoin
<1> QED
  BY <1>1, <1>2, <1>3, <1>4
     DEF Next, BeginDispatch, FreezeInFlight, ObserveBarrier, WaitCheck, Cancel

LEMMA BarrierFrame ==
  ASSUME [Next]_vars
  PROVE  \/ UNCHANGED barrierVars
         \/ FreezeInFlight
         \/ \E b \in 1..MaxBarrier : ObserveBarrier(b)
<1> USE DEF coreVars, callerVars
<1>1. CASE UNCHANGED vars
  BY <1>1 DEF vars
<1>2. ASSUME NEW i \in Ids, OwnerStep(i) PROVE UNCHANGED barrierVars
  BY <1>2 DEF OwnerStep, EndStep, InstallRejected, PendingEnd, Install, Bind,
     ResourceClosed, EndDeactivate, EndStartClose, EndCloseWaited, EndRelease,
     EndDeliver, EndDelete, OwnerMoves
<1>3. ASSUME NEW d \in Drainers, DrainStep(d) PROVE UNCHANGED barrierVars
  BY <1>3 DEF DrainStep, DrainBegin, CollectScopes, DrainCheck, DrainCloseOne
<1>4. ASSUME NEW c \in Closers, CloseStep(c) PROVE UNCHANGED barrierVars
  BY <1>4 DEF CloseStep, CloseBegin, CloseSwap, CollectScopes, CloseStartOne,
     CloseWaitedOne, CloseFinish, CloseJoin
<1> QED
  BY <1>1, <1>2, <1>3, <1>4
     DEF Next, BeginDispatch, SetReleaseSink, ReplayTo, WaitCheck, Cancel

LEMMA ResourceFrame ==
  ASSUME [Next]_vars
  PROVE  \/ UNCHANGED resource
         \/ \E i \in Ids : Bind(i) \/ ResourceClosed(i) \/ EndStartClose(i)
         \/ UNCHANGED dispatchVars /\ \E i \in Ids : StartClose(i)
<1> USE DEF coreVars, callerVars
<1>1. CASE UNCHANGED vars
  BY <1>1 DEF vars
<1>2. ASSUME NEW i \in Ids, OwnerStep(i)
      PROVE  UNCHANGED resource \/ Bind(i) \/ ResourceClosed(i) \/ EndStartClose(i)
  BY <1>2 DEF OwnerStep, EndStep, InstallRejected, PendingEnd, Install,
     EndDeactivate, EndCloseWaited, EndRelease, EndDeliver, EndDelete
<1>3. ASSUME NEW d \in Drainers, NEW i \in Ids, DrainCloseOne(d, i)
      PROVE  UNCHANGED dispatchVars /\ StartClose(i)
  BY <1>3 DEF DrainCloseOne
<1>4. ASSUME NEW c \in Closers, NEW i \in Ids, CloseStartOne(c, i)
      PROVE  UNCHANGED dispatchVars /\ StartClose(i)
  BY <1>4 DEF CloseStartOne
<1>5. ASSUME NEW d \in Drainers, DrainStep(d)
      PROVE  UNCHANGED resource \/ \E i \in Ids : DrainCloseOne(d, i)
  BY <1>5 DEF DrainStep, DrainBegin, CollectScopes, DrainCheck
<1>6. ASSUME NEW c \in Closers, CloseStep(c)
      PROVE  UNCHANGED resource \/ \E i \in Ids : CloseStartOne(c, i)
  BY <1>6 DEF CloseStep, CloseBegin, CloseSwap, CollectScopes,
     CloseWaitedOne, CloseFinish, CloseJoin
<1> QED
  BY <1>1, <1>2, <1>3, <1>4, <1>5, <1>6
     DEF Next, BeginDispatch, FreezeInFlight, SetReleaseSink, ReplayTo,
         ObserveBarrier, WaitCheck, Cancel

(* The state word changes in Drain and Close only, and only forward. *)
LEMMA StateFrame ==
  ASSUME [Next]_vars
  PROVE  UNCHANGED state \/ DrainSwap \/ state' = "closed"
<1> USE DEF coreVars, callerVars
<1>1. CASE UNCHANGED vars
  BY <1>1 DEF vars
<1>2. ASSUME NEW i \in Ids, OwnerStep(i) PROVE UNCHANGED state
  BY <1>2 DEF OwnerStep, EndStep, InstallRejected, PendingEnd, Install, Bind,
     ResourceClosed, EndDeactivate, EndStartClose, EndCloseWaited, EndRelease,
     EndDeliver, EndDelete, OwnerMoves
<1>3. ASSUME NEW d \in Drainers, DrainStep(d)
      PROVE  UNCHANGED state \/ DrainSwap \/ state' = "closed"
  BY <1>3 DEF DrainStep, DrainBegin, CollectScopes, DrainCheck, DrainCloseOne, Park
<1>4. ASSUME NEW c \in Closers, CloseStep(c)
      PROVE  UNCHANGED state \/ state' = "closed"
  BY <1>4 DEF CloseStep, CloseBegin, CloseSwap, CollectScopes, CloseStartOne,
     CloseWaitedOne, CloseFinish, CloseJoin
<1> QED
  BY <1>1, <1>2, <1>3, <1>4
     DEF Next, BeginDispatch, FreezeInFlight, SetReleaseSink, ReplayTo,
         ObserveBarrier, WaitCheck, Cancel, Park

-----------------------------------------------------------------------------
(* The type invariant is inductive on its own except for one fact: an id   *)
(* that was not handed out yet has no owner.                               *)
FreshIds == \A i \in Ids : i > next => owner[i] = "none"

TypeInv == TypeOK /\ FreshIds

LEMMA InitTypeInv == Init => TypeInv
  BY BoundsAssumption DEF Init, Ids, TypeInv, TypeOK, DispatchTypeOK, ReleaseTypeOK,
     BarrierTypeOK, CallerTypeOK, FreshIds, States, OwnerSteps, Resources,
     CallerSteps, InScopes

LEMMA DispatchTypeStep ==
  ASSUME DispatchTypeOK, FreshIds, [Next]_vars
  PROVE  DispatchTypeOK' /\ FreshIds'
<1> USE DEF DispatchTypeOK, FreshIds, InScopes, OwnerSteps
<1>1. CASE UNCHANGED dispatchVars
  BY <1>1 DEF dispatchVars
<1>2. CASE BeginDispatch
  <2>1. next + 1 \in Ids /\ next' = next + 1 /\ next' \in 0..MaxDispatch
    BY <1>2, BoundsAssumption DEF BeginDispatch, Ids
  <2>2. owner[next + 1] = "none"
    BY <2>1 DEF Ids
  <2>3. owner' \in [Ids -> OwnerSteps] /\ pending' \in SUBSET Ids
    BY <1>2, <2>1 DEF BeginDispatch
  <2>4. ASSUME NEW i \in Ids
        PROVE  /\ i \in pending' <=> owner'[i] = "pending"
               /\ i \in scopes' <=> owner'[i] \in InScopes
    BY <1>2, <2>1, <2>2 DEF BeginDispatch
  <2>5. ASSUME NEW i \in Ids, i > next' PROVE owner'[i] = "none"
    BY <1>2, <2>1, <2>5 DEF BeginDispatch, Ids
  <2> QED
    BY <1>2, <2>1, <2>3, <2>4, <2>5 DEF BeginDispatch
<1>3. ASSUME NEW i \in Ids, PendingEnd(i) PROVE DispatchTypeOK' /\ FreshIds'
  BY <1>3 DEF PendingEnd
<1>4. ASSUME NEW i \in Ids, Install(i) PROVE DispatchTypeOK' /\ FreshIds'
  BY <1>4 DEF Install
<1>5. ASSUME NEW i \in Ids, EndDeactivate(i) \/ EndStartClose(i)
             \/ EndCloseWaited(i) \/ EndRelease(i) \/ EndDeliver(i)
      PROVE  DispatchTypeOK' /\ FreshIds'
  BY <1>5 DEF EndDeactivate, EndStartClose, EndCloseWaited, EndRelease,
     EndDeliver, OwnerMoves, EndedOnce
<1>6. ASSUME NEW i \in Ids, EndDelete(i) PROVE DispatchTypeOK' /\ FreshIds'
  BY <1>6 DEF EndDelete, OwnerMoves, EndedOnce
<1> QED
  BY DispatchFrame, <1>1, <1>2, <1>3, <1>4, <1>5, <1>6

LEMMA DeliverType ==
  ASSUME sinkSeen \in [Sinks -> [Groups -> Nat]],
         NEW s, NEW g, NEW n \in Nat, Deliver(s, g, n)
  PROVE  sinkSeen' \in [Sinks -> [Groups -> Nat]]
<1> DEFINE row == [sinkSeen[s] EXCEPT ![g] = IF n > @ THEN n ELSE @]
<1>1. CASE s \in Sinks
  <2>1. row \in [Groups -> Nat]
    BY <1>1
  <2>2. sinkSeen' = [sinkSeen EXCEPT ![s] = row]
    BY DEF Deliver
  <2> QED
    BY <1>1, <2>1, <2>2
<1>2. CASE s \notin Sinks
  BY <1>2 DEF Deliver
<1> QED
  BY <1>1, <1>2

LEMMA ReleaseTypeStep ==
  ASSUME DispatchTypeOK, ReleaseTypeOK, [Next]_vars
  PROVE  ReleaseTypeOK'
<1> USE DEF DispatchTypeOK, ReleaseTypeOK
<1>1. CASE UNCHANGED releaseVars
  BY <1>1 DEF releaseVars
<1>2. ASSUME NEW i \in Ids, EndRelease(i) PROVE ReleaseTypeOK'
  <2>1. CASE group[i] = NoGroup
    BY <1>2, <2>1 DEF EndRelease, MarkReleasedLocked
  <2>2. CASE group[i] # NoGroup
    <3>1. releaseSequences[group[i]] + 1 \in Nat
      BY <2>2
    <3>2. [sink |-> releaseSink, sequence |-> releaseSequences[group[i]] + 1]
            \in [sink : Sinks \cup {NoSink}, sequence : Nat]
      BY <3>1
    <3>3. releaseSequences' \in [Groups -> Nat]
      BY <1>2, <2>2 DEF EndRelease, MarkReleasedLocked
    <3>4. carried' \in [Ids -> [sink : Sinks \cup {NoSink}, sequence : Nat]]
      BY <1>2, <2>2, <3>2 DEF EndRelease, MarkReleasedLocked
    <3> QED
      BY <1>2, <3>3, <3>4 DEF EndRelease
  <2> QED
    BY <2>1, <2>2
<1>3. ASSUME NEW i \in Ids, EndDeliver(i) PROVE ReleaseTypeOK'
  BY <1>3, DeliverType DEF EndDeliver
<1>4. ASSUME NEW s \in Sinks \cup {NoSink}, SetReleaseSink(s)
      PROVE  ReleaseTypeOK'
  BY <1>4 DEF SetReleaseSink
<1>5. ASSUME NEW g \in Groups, ReplayTo(g) PROVE ReleaseTypeOK'
  <2>1. Deliver(releaseSink, g, replay[g])
    BY <1>5 DEF ReplayTo
  <2>2. sinkSeen' \in [Sinks -> [Groups -> Nat]]
    BY <2>1, DeliverType
  <2> QED
    BY <1>5, <2>2 DEF ReplayTo
<1> QED
  BY ReleaseFrame, <1>1, <1>2, <1>3, <1>4, <1>5

LEMMA BarrierTypeStep ==
  ASSUME DispatchTypeOK, BarrierTypeOK, [Next]_vars
  PROVE  BarrierTypeOK'
<1> USE DEF DispatchTypeOK, BarrierTypeOK
<1>1. CASE UNCHANGED barrierVars
  BY <1>1 DEF barrierVars
<1>2. CASE FreezeInFlight
  <2>1. publishedBarrier' \in 0..MaxBarrier
    BY <1>2 DEF FreezeInFlight
  <2>2. frozen.revision + 1 \in 0..MaxFreeze
    BY <1>2, BoundsAssumption DEF FreezeInFlight
  <2>3. frozen' \in [revision : 0..MaxFreeze, barrier : 0..MaxBarrier,
                     executions : SUBSET Ids]
    BY <1>2, <2>1, <2>2 DEF FreezeInFlight
  <2> QED
    BY <1>2, <2>1, <2>3 DEF FreezeInFlight
<1>3. ASSUME NEW b \in 1..MaxBarrier, ObserveBarrier(b) PROVE BarrierTypeOK'
  BY <1>3, BoundsAssumption DEF ObserveBarrier
<1> QED
  BY BarrierFrame, <1>1, <1>2, <1>3

LEMMA CallerTypeStep ==
  ASSUME DispatchTypeOK, CallerTypeOK, [Next]_vars
  PROVE  CallerTypeOK'
<1> USE DEF DispatchTypeOK, CallerTypeOK, CallerSteps
<1>1. CASE UNCHANGED callerVars
  BY <1>1 DEF callerVars
<1>2. ASSUME NEW i \in Ids, OwnerStep(i) PROVE CallerTypeOK'
  BY <1>2 DEF OwnerStep, EndStep, InstallRejected, PendingEnd, Install, Bind,
     ResourceClosed, EndDeactivate, EndStartClose, EndCloseWaited, EndRelease,
     EndDeliver, EndDelete, OwnerMoves, SignalLocked, callerVars
<1>3. ASSUME NEW p \in Drainers \cup Closers, CollectScopes(p)
      PROVE  CallerTypeOK'
  BY <1>3 DEF CollectScopes, CallerMoves
<1>4. ASSUME NEW d \in Drainers, DrainStep(d) PROVE CallerTypeOK'
  BY <1>3, <1>4 DEF DrainStep, DrainBegin, DrainCheck, DrainCloseOne, Park,
     CallerMoves
<1>5. ASSUME NEW w \in Waiters, WaitCheck(w) PROVE CallerTypeOK'
  BY <1>5 DEF WaitCheck, Park
<1>6. ASSUME NEW p \in Drainers \cup Waiters, Cancel(p) PROVE CallerTypeOK'
  BY <1>6 DEF Cancel, CallerMoves
<1>7. ASSUME NEW c \in Closers, CloseStep(c) PROVE CallerTypeOK'
  BY <1>3, <1>7 DEF CloseStep, CloseBegin, CloseSwap, CloseStartOne,
     CloseWaitedOne, CloseFinish, CloseJoin, CloseDone, CallerMoves, callerVars
<1> QED
  BY <1>1, <1>2, <1>4, <1>5, <1>6, <1>7
     DEF Next, vars, BeginDispatch, FreezeInFlight, SetReleaseSink, ReplayTo,
         ObserveBarrier, callerVars

LEMMA NextTypeInv == TypeInv /\ [Next]_vars => TypeInv'
<1> SUFFICES ASSUME TypeInv, [Next]_vars PROVE TypeInv'
  OBVIOUS
<1>1. DispatchTypeOK' /\ FreshIds'
  BY DispatchTypeStep DEF TypeInv, TypeOK
<1>2. ReleaseTypeOK'
  BY ReleaseTypeStep DEF TypeInv, TypeOK
<1>3. BarrierTypeOK'
  BY BarrierTypeStep DEF TypeInv, TypeOK
<1>4. CallerTypeOK'
  BY CallerTypeStep DEF TypeInv, TypeOK
<1>5. resource' \in [Ids -> Resources]
  BY ResourceFrame DEF TypeInv, TypeOK, Resources, Bind, ResourceClosed,
     EndStartClose, StartClose
<1>6. state' \in States
  BY StateFrame DEF TypeInv, TypeOK, States, DrainSwap
<1> QED
  BY <1>1, <1>2, <1>3, <1>4, <1>5, <1>6 DEF TypeInv, TypeOK

(* Every variable keeps its type, and an id is in Registry.pending or      *)
(* Registry.scopes exactly while its owner stands between the calls that   *)
(* add and delete it.                                                      *)
THEOREM TypeCorrect == Spec => []TypeOK
<1>1. TypeInv => TypeOK
  BY DEF TypeInv
<1> QED
  BY InitTypeInv, NextTypeInv, <1>1, PTL DEF Spec

(* Drain and Close race for the state word, but neither reopens a registry: *)
(* the compare-and-swap of Drain only leaves "accepting".                    *)
THEOREM StateOnlyForward == Spec => OnlyForward
<1>1. TypeInv /\ [Next]_vars => [Rank(state') >= Rank(state)]_vars
  BY StateFrame DEF TypeInv, TypeOK, States, Rank, DrainSwap
<1> QED
  BY InitTypeInv, NextTypeInv, <1>1, PTL DEF Spec, OnlyForward

-----------------------------------------------------------------------------
(* What the step of an owner says about its resource. *)
ResourceInv ==
  \A i \in Ids :
    /\ owner[i] \in {"none", "pending", "dropped"} => resource[i] = "none"
    /\ owner[i] = "closing" => resource[i] \in {"closing", "closed"}
    /\ owner[i] \in {"quiet", "released", "delivered", "finished"} =>
         resource[i] \in {"none", "closed"}

LEMMA ResourceStep ==
  ASSUME TypeInv, ResourceInv, [Next]_vars
  PROVE  ResourceInv'
<1> USE DEF TypeInv, TypeOK, DispatchTypeOK, ResourceInv, FreshIds,
        Resources, OwnerSteps, InScopes
<1>1. ASSUME UNCHANGED resource PROVE ResourceInv'
  <2>1. CASE UNCHANGED dispatchVars
    BY <1>1, <2>1 DEF dispatchVars
  <2>2. CASE BeginDispatch
    <3>1. owner[next + 1] = "none"
      BY <2>2, BoundsAssumption DEF BeginDispatch, Ids
    <3> QED
      BY <1>1, <2>2, <3>1 DEF BeginDispatch
  <2>3. ASSUME NEW i \in Ids, PendingEnd(i) \/ Install(i) \/ EndDeactivate(i)
        PROVE  ResourceInv'
    BY <1>1, <2>3 DEF PendingEnd, Install, EndDeactivate, OwnerMoves, EndedOnce
  <2>4. ASSUME NEW i \in Ids, EndStartClose(i) PROVE ResourceInv'
    BY <1>1, <2>4 DEF EndStartClose, StartClose, OwnerMoves, EndedOnce
  <2>5. ASSUME NEW i \in Ids, EndCloseWaited(i) \/ EndRelease(i)
               \/ EndDeliver(i) \/ EndDelete(i)
        PROVE  ResourceInv'
    BY <1>1, <2>5 DEF EndCloseWaited, EndRelease, EndDeliver, EndDelete,
       OwnerMoves, EndedOnce
  <2> QED
    BY DispatchFrame, <2>1, <2>2, <2>3, <2>4, <2>5
<1>2. ASSUME NEW i \in Ids, Bind(i) PROVE ResourceInv'
  BY <1>2 DEF Bind, CanBind, dispatchVars
<1>3. ASSUME NEW i \in Ids, ResourceClosed(i) PROVE ResourceInv'
  BY <1>3 DEF ResourceClosed, dispatchVars
<1>4. ASSUME NEW i \in Ids, StartClose(i), UNCHANGED dispatchVars
      PROVE  ResourceInv'
  BY <1>4 DEF StartClose, dispatchVars
<1>5. ASSUME NEW i \in Ids, EndStartClose(i) PROVE ResourceInv'
  BY <1>5 DEF EndStartClose, StartClose, OwnerMoves, EndedOnce
<1>6. \/ UNCHANGED resource
      \/ \E i \in Ids : Bind(i) \/ ResourceClosed(i) \/ EndStartClose(i)
      \/ UNCHANGED dispatchVars /\ \E i \in Ids : StartClose(i)
  BY ResourceFrame
<1> QED
  BY <1>1, <1>2, <1>3, <1>4, <1>5, <1>6

(* EndWithRelease: a resource that is not closed belongs to a scope that   *)
(* exists and is not yet counted, for every interleaving of Bind, the      *)
(* owners, Drain and Close.                                                *)
THEOREM NoResourceOutlivesItsScope == Spec => []NoOrphanResource
<1>1. Init => ResourceInv
  BY DEF Init, ResourceInv
<1>2. TypeInv /\ ResourceInv => NoOrphanResource
  BY DEF TypeInv, TypeOK, DispatchTypeOK, ResourceInv, NoOrphanResource, Held,
     OwnerSteps, InScopes, Resources
<1> QED
  BY InitTypeInv, NextTypeInv, ResourceStep, <1>1, <1>2, PTL DEF Spec

-----------------------------------------------------------------------------
(* Barriers are observed in order, each at a dispatch id no later than the *)
(* one the next snapshot compares the pending tokens with.                 *)
BarrierInv ==
  /\ pendingBarrierSequence <= next
  /\ publishedBarrier <= observedBarrier
  /\ \A b \in 0..MaxBarrier : barrierAt[b] <= pendingBarrierSequence
  /\ BarrierSound

LEMMA BarrierStep ==
  ASSUME TypeInv, BarrierInv, [Next]_vars
  PROVE  BarrierInv'
<1> USE DEF TypeInv, TypeOK, DispatchTypeOK, BarrierTypeOK, BarrierInv, BarrierSound
<1>1. CASE UNCHANGED barrierVars
  <2>1. CASE BeginDispatch
    BY <1>1, <2>1, BoundsAssumption DEF BeginDispatch, barrierVars
  <2>2. next' = next /\ pending' \subseteq pending => BarrierInv'
    BY <1>1 DEF barrierVars
  <2>3. ASSUME NEW i \in Ids, \/ PendingEnd(i) \/ Install(i) \/ EndDeactivate(i)
                              \/ EndStartClose(i) \/ EndCloseWaited(i)
                              \/ EndRelease(i) \/ EndDeliver(i) \/ EndDelete(i)
        PROVE  next' = next /\ pending' \subseteq pending
    BY <2>3 DEF PendingEnd, Install, EndDeactivate, EndStartClose,
       EndCloseWaited, EndRelease, EndDeliver, EndDelete, OwnerMoves
  <2> QED
    BY DispatchFrame, <2>1, <2>2, <2>3 DEF dispatchVars
<1>2. CASE FreezeInFlight
  BY <1>2, BoundsAssumption DEF FreezeInFlight, BarrierBlocked, dispatchVars, Ids
<1>3. ASSUME NEW b \in 1..MaxBarrier, ObserveBarrier(b) PROVE BarrierInv'
  BY <1>3, BoundsAssumption DEF ObserveBarrier, dispatchVars
<1> HIDE DEF BarrierInv
<1> QED
  BY BarrierFrame, <1>1, <1>2, <1>3

(* FreezeInFlight: a published barrier has no unresolved dispatch older    *)
(* than its observation, whatever barriers and dispatches came in between. *)
THEOREM PublishedBarriersSound == Spec => []BarrierSound
<1>1. Init => BarrierInv
  BY BoundsAssumption DEF Init, BarrierInv, BarrierSound
<1>2. BarrierInv => BarrierSound
  BY DEF BarrierInv
<1> QED
  BY InitTypeInv, NextTypeInv, BarrierStep, <1>1, <1>2, PTL DEF Spec

-----------------------------------------------------------------------------
LEMMA WakeStep ==
  ASSUME TypeInv, NoLostWakeup, [Next]_vars
  PROVE  NoLostWakeup'
<1> USE DEF NoLostWakeup
<1>1. ASSUME parked' = {} PROVE NoLostWakeup'
  BY <1>1
<1>2. ASSUME parked' \subseteq parked, pending' = pending, scopes' = scopes
      PROVE  NoLostWakeup'
  BY <1>2
<1>3. CASE BeginDispatch
  BY <1>3 DEF BeginDispatch, callerVars
<1>4. ASSUME NEW i \in Ids, OwnerStep(i)
      PROVE  \/ parked' = {}
             \/ parked' = parked /\ pending' = pending /\ scopes' = scopes
  BY <1>4 DEF OwnerStep, EndStep, InstallRejected, PendingEnd, Install, Bind,
     ResourceClosed, EndDeactivate, EndStartClose, EndCloseWaited, EndRelease,
     EndDeliver, EndDelete, OwnerMoves, SignalLocked, dispatchVars, callerVars
<1>5. ASSUME NEW d \in Drainers, DrainCheck(d) PROVE NoLostWakeup'
  BY <1>5, NamesAssumption DEF DrainCheck, Park, Empty, dispatchVars
<1>6. ASSUME NEW w \in Waiters, WaitCheck(w) PROVE NoLostWakeup'
  BY <1>6, NamesAssumption DEF WaitCheck, Park, dispatchVars
<1>7. ASSUME NEW d \in Drainers, DrainStep(d)
      PROVE  \/ DrainCheck(d)
             \/ parked' = parked /\ pending' = pending /\ scopes' = scopes
  BY <1>7 DEF DrainStep, DrainBegin, CollectScopes, DrainCloseOne, coreVars,
     dispatchVars
<1>8. ASSUME NEW c \in Closers, CloseStep(c)
      PROVE  parked' = parked /\ pending' = pending /\ scopes' = scopes
  BY <1>8 DEF CloseStep, CloseBegin, CloseSwap, CollectScopes, CloseStartOne,
     CloseWaitedOne, CloseFinish, CloseJoin, coreVars, dispatchVars, callerVars
<1>9. ASSUME NEW q \in Drainers \cup Waiters, Cancel(q)
      PROVE  parked' \subseteq parked /\ pending' = pending /\ scopes' = scopes
  BY <1>9 DEF Cancel, coreVars, dispatchVars
<1> QED
  BY <1>1, <1>2, <1>3, <1>4, <1>5, <1>6, <1>7, <1>8, <1>9
     DEF Next, vars, FreezeInFlight, SetReleaseSink, ReplayTo, ObserveBarrier,
         coreVars, dispatchVars, callerVars

(* signalLocked: whoever sleeps in Drain or WaitPending still has something *)
(* to wait for, so the broadcast at every deletion is enough.               *)
THEOREM NoWakeupLost == Spec => []NoLostWakeup
<1>1. Init => NoLostWakeup
  BY DEF Init, NoLostWakeup
<1> QED
  BY InitTypeInv, NextTypeInv, WakeStep, <1>1, PTL DEF Spec

-----------------------------------------------------------------------------
(* A closed registry is empty unless a Close closed it; a drainer that     *)
(* returned left it empty.                                                 *)
EmptyInv ==
  /\ state = "closed" /\ closeDone = "unset" => pending = {} /\ scopes = {}
  /\ \A d \in Drainers :
       caller[d] = "returned" => state = "closed" /\ pending = {} /\ scopes = {}
  /\ \A c \in Closers : caller[c] \in {"swap", "collect", "close", "join"} =>
       closeDone # "unset"

LEMMA EmptyStep ==
  ASSUME TypeInv, EmptyInv, [Next]_vars
  PROVE  EmptyInv'
<1> USE DEF EmptyInv, TypeInv, TypeOK, DispatchTypeOK, CallerTypeOK
<1>1. CASE BeginDispatch
  BY <1>1 DEF BeginDispatch, callerVars
<1>2. ASSUME NEW i \in Ids, OwnerStep(i)
      PROVE  /\ state' = state /\ caller' = caller /\ closeDone' = closeDone
             /\ pending = {} /\ scopes = {} => pending' = {} /\ scopes' = {}
  BY <1>2 DEF OwnerStep, EndStep, InstallRejected, PendingEnd, Install, Bind,
     ResourceClosed, EndDeactivate, EndStartClose, EndCloseWaited, EndRelease,
     EndDeliver, EndDelete, OwnerMoves, dispatchVars, callerVars
<1>3. ASSUME NEW d \in Drainers, DrainStep(d) PROVE EmptyInv'
  <2> USE NamesAssumption DEF coreVars, dispatchVars, CallerMoves
  <2>1. CASE DrainBegin(d)
    BY <2>1 DEF DrainBegin, DrainSwap
  <2>2. CASE CollectScopes(d)
    BY <2>2 DEF CollectScopes
  <2>3. CASE DrainCheck(d)
    BY <2>3 DEF DrainCheck, Park, Empty
  <2>4. ASSUME NEW i \in Ids, DrainCloseOne(d, i) PROVE EmptyInv'
    BY <2>4 DEF DrainCloseOne
  <2> QED
    BY <1>3, <2>1, <2>2, <2>3, <2>4 DEF DrainStep
<1>4. ASSUME NEW c \in Closers, CloseStep(c) PROVE EmptyInv'
  <2> USE NamesAssumption DEF coreVars, dispatchVars, callerVars, CallerMoves
  <2>1. CASE CloseBegin(c)
    BY <2>1 DEF CloseBegin
  <2>2. CASE CloseSwap(c)
    BY <2>2 DEF CloseSwap
  <2>3. CASE CollectScopes(c) \/ CloseFinish(c) \/ CloseJoin(c)
    BY <2>3 DEF CollectScopes, CloseFinish, CloseJoin, CloseDone
  <2>4. ASSUME NEW i \in Ids, CloseStartOne(c, i) \/ CloseWaitedOne(c, i)
        PROVE  EmptyInv'
    BY <2>4 DEF CloseStartOne, CloseWaitedOne
  <2> QED
    BY <1>4, <2>1, <2>2, <2>3, <2>4 DEF CloseStep
<1>5. ASSUME NEW w \in Waiters, WaitCheck(w) \/ Cancel(w) PROVE EmptyInv'
  BY <1>5, NamesAssumption DEF WaitCheck, Park, Cancel, CallerMoves, coreVars,
     dispatchVars
<1>6. ASSUME NEW d \in Drainers, Cancel(d) PROVE EmptyInv'
  BY <1>6, NamesAssumption DEF Cancel, CallerMoves, coreVars, dispatchVars
<1> QED
  BY <1>1, <1>2, <1>3, <1>4, <1>5, <1>6
     DEF Next, vars, FreezeInFlight, SetReleaseSink, ReplayTo, ObserveBarrier,
         coreVars, dispatchVars, callerVars

(* Drain: once it returned nil nothing is pending, installed or still open, *)
(* and nothing can appear later.                                            *)
THEOREM DrainSound == Spec => []DrainedMeansEmpty
<1>1. Init => EmptyInv /\ ResourceInv
  BY DEF Init, EmptyInv, ResourceInv, Callers
<1>2. TypeInv /\ ResourceInv /\ EmptyInv => DrainedMeansEmpty
  BY DEF TypeInv, TypeOK, DispatchTypeOK, ResourceInv, EmptyInv,
     DrainedMeansEmpty, Held, OwnerSteps, InScopes, Resources
<1> QED
  BY InitTypeInv, NextTypeInv, ResourceStep, EmptyStep, <1>1, <1>2, PTL DEF Spec

-----------------------------------------------------------------------------
(* What a Close that passed its swap knows: no Bind can succeed any more,  *)
(* so the scopes it copied cover every resource that is still open.        *)
CloseInv ==
  /\ \A c \in Closers : caller[c] \in {"collect", "close"} => state = "closed"
  /\ \A c \in Closers : caller[c] = "close" =>
       \A i \in Ids : Held(i) => i \in left[c]
  /\ \A c \in Closers : caller[c] = "returned" =>
       state = "closed" /\ \A i \in Ids : ~Held(i)
  /\ closeDone = "closed" => state = "closed" /\ \A i \in Ids : ~Held(i)

LEMMA HeldStep ==
  ASSUME TypeInv, [Next]_vars, state = "closed"
  PROVE  /\ state' = "closed"
         /\ \A i \in Ids : Held(i)' => Held(i)
<1>1. state' = "closed"
  BY StateFrame DEF DrainSwap
<1>2. ASSUME NEW i \in Ids, StartClose(i) \/ ResourceClosed(i)
      PROVE  \A j \in Ids : Held(j)' => Held(j)
  BY <1>2 DEF StartClose, ResourceClosed, Held, TypeInv, TypeOK, Resources
<1> QED
  BY ResourceFrame, <1>1, <1>2 DEF Bind, CanBind, EndStartClose, Held

LEMMA CloseInvStep ==
  ASSUME TypeInv, ResourceInv, EmptyInv, CloseInv, [Next]_vars
  PROVE  CloseInv'
<1> USE DEF CloseInv, TypeInv, TypeOK, CallerTypeOK, DispatchTypeOK
<1>1. ASSUME \A c \in Closers : caller'[c] = caller[c] /\ left'[c] = left[c],
             closeDone' = closeDone
      PROVE  CloseInv'
  BY <1>1, HeldStep
<1>2. ASSUME NEW i \in Ids, OwnerStep(i) PROVE CloseInv'
  <2>1. caller' = caller /\ left' = left /\ closeDone' = closeDone
    BY <1>2 DEF OwnerStep, EndStep, InstallRejected, PendingEnd, Install, Bind,
       ResourceClosed, EndDeactivate, EndStartClose, EndCloseWaited, EndRelease,
       EndDeliver, EndDelete, OwnerMoves, callerVars
  <2> QED
    BY <2>1, <1>1
<1>3. ASSUME NEW d \in Drainers, DrainStep(d) PROVE CloseInv'
  <2>1. /\ \A c \in Closers : caller'[c] = caller[c] /\ left'[c] = left[c]
        /\ closeDone' = closeDone
    BY <1>3, NamesAssumption DEF DrainStep, DrainBegin, CollectScopes, DrainCheck,
       Park, DrainCloseOne, CallerMoves
  <2> QED
    BY <2>1, <1>1
<1>4. ASSUME NEW c \in Closers, CloseStep(c) PROVE CloseInv'
  <2> USE DEF CallerMoves, callerVars
  <2>1. CASE CloseBegin(c)
    <3>1. state = "closed" /\ closeDone = "unset" => \A i \in Ids : ~Held(i)
      BY DEF EmptyInv, ResourceInv, Held, OwnerSteps, InScopes, Resources
    <3>2. state' = state /\ resource' = resource /\ left' = left
      BY <2>1 DEF CloseBegin, coreVars
    <3> QED
      BY <2>1, <3>1, <3>2 DEF CloseBegin, Held
  <2>2. CASE CloseSwap(c)
    BY <2>2, HeldStep DEF CloseSwap, Held
  <2>3. CASE CollectScopes(c)
    <3>1. \A i \in Ids : Held(i) => i \in scopes
      BY DEF ResourceInv, Held, OwnerSteps, InScopes, Resources
    <3> QED
      BY <2>3, <3>1 DEF CollectScopes, coreVars, Held
  <2>4. ASSUME NEW i \in Ids, CloseStartOne(c, i) PROVE CloseInv'
    BY <2>4, <1>1 DEF CloseStartOne
  <2>5. ASSUME NEW i \in Ids, CloseWaitedOne(c, i) PROVE CloseInv'
    BY <2>5 DEF CloseWaitedOne, CloseWaited, coreVars, Held
  <2>6. CASE CloseFinish(c)
    BY <2>6 DEF CloseFinish, CloseDone, coreVars, Held
  <2>7. CASE CloseJoin(c)
    BY <2>7 DEF CloseJoin, coreVars, Held
  <2> QED
    BY <1>4, <2>1, <2>2, <2>3, <2>4, <2>5, <2>6, <2>7 DEF CloseStep
<1>5. ASSUME NEW q \in Drainers \cup Waiters, Cancel(q) \/ (q \in Waiters /\ WaitCheck(q))
      PROVE  CloseInv'
  <2>1. /\ \A c \in Closers : caller'[c] = caller[c] /\ left'[c] = left[c]
        /\ closeDone' = closeDone
    BY <1>5, NamesAssumption DEF Cancel, CallerMoves, WaitCheck, Park
  <2> QED
    BY <2>1, <1>1
<1>6. CASE callerVars' = callerVars
  BY <1>6, <1>1 DEF callerVars
<1> QED
  BY <1>2, <1>3, <1>4, <1>5, <1>6
     DEF Next, vars, BeginDispatch, FreezeInFlight, SetReleaseSink, ReplayTo,
         ObserveBarrier

(* Close: when the first caller or one that joined it returns, every       *)
(* resource bound before the swap is closed and none can be bound later.   *)
THEOREM CloseSound == Spec => []ClosedMeansReleased
<1>1. Init => EmptyInv /\ ResourceInv /\ CloseInv
  BY DEF Init, EmptyInv, ResourceInv, CloseInv, Callers
<1>2. CloseInv => ClosedMeansReleased
  BY DEF CloseInv, ClosedMeansReleased
<1> QED
  BY InitTypeInv, NextTypeInv, ResourceStep, EmptyStep, CloseInvStep, <1>1, <1>2,
     PTL DEF Spec

-----------------------------------------------------------------------------
LEMMA CountStep ==
  ASSUME TypeInv, CountedExactlyOnce, [Next]_vars
  PROVE  CountedExactlyOnce'
<1> USE DEF TypeInv, TypeOK, DispatchTypeOK, ReleaseTypeOK, CountedExactlyOnce
<1>1. ASSUME releaseSequences' = releaseSequences,
             \A g \in Groups : CountedOf(g)' = CountedOf(g)
      PROVE  CountedExactlyOnce'
  BY <1>1
<1>2. ASSUME NEW i \in Ids, EndRelease(i) PROVE CountedExactlyOnce'
  <2>1. owner[i] = "quiet" /\ owner' = [owner EXCEPT ![i] = "released"]
        /\ group' = group
    BY <1>2 DEF EndRelease, OwnerMoves, EndedOnce
  <2>2. CASE group[i] = NoGroup
    <3>1. releaseSequences' = releaseSequences
      BY <1>2, <2>2 DEF EndRelease, MarkReleasedLocked
    <3>2. \A g \in Groups : CountedOf(g)' = CountedOf(g)
      BY <2>1, <2>2 DEF CountedOf, Counted
    <3> QED
      BY <1>1, <3>1, <3>2
  <2>3. CASE group[i] # NoGroup
    <3>1. releaseSequences' = [releaseSequences EXCEPT ![group[i]] = @ + 1]
      BY <1>2, <2>3 DEF EndRelease, MarkReleasedLocked
    <3>2. ASSUME NEW g \in Groups, g # group[i]
          PROVE  releaseSequences'[g] = Cardinality(CountedOf(g)')
      <4>1. CountedOf(g)' = CountedOf(g)
        BY <2>1, <3>2 DEF CountedOf, Counted
      <4> QED
        BY <3>1, <3>2, <4>1
    <3>3. ASSUME NEW g \in Groups, g = group[i]
          PROVE  releaseSequences'[g] = Cardinality(CountedOf(g)')
      <4>1. CountedOf(g)' = CountedOf(g) \cup {i}
        BY <2>1, <2>3, <3>3 DEF CountedOf, Counted
      <4>2. i \notin CountedOf(g)
        BY <2>1 DEF CountedOf, Counted
      <4>3. IsFiniteSet(CountedOf(g))
        <5>1. IsFiniteSet(Ids)
          BY FS_Interval, BoundsAssumption DEF Ids
        <5> QED
          BY <5>1, FS_Subset DEF CountedOf
      <4>4. Cardinality(CountedOf(g)') = Cardinality(CountedOf(g)) + 1
        BY <4>1, <4>2, <4>3, FS_AddElement
      <4> QED
        BY <3>1, <3>3, <4>4
    <3> QED
      BY <3>2, <3>3
  <2> QED
    BY <2>2, <2>3
<1>3. ASSUME NEW i \in Ids, \/ PendingEnd(i) \/ Install(i) \/ EndDeactivate(i)
                            \/ EndStartClose(i) \/ EndCloseWaited(i)
                            \/ EndDeliver(i) \/ EndDelete(i)
      PROVE  \A g \in Groups : CountedOf(g)' = CountedOf(g)
  <2>1. /\ owner' = [owner EXCEPT ![i] = owner'[i]]
        /\ owner[i] \in {"released", "delivered", "finished"}
             <=> owner'[i] \in {"released", "delivered", "finished"}
        /\ owner[i] \in {"released", "delivered", "finished"} => group'[i] = group[i]
        /\ \A j \in Ids : j # i => group'[j] = group[j]
    BY <1>3 DEF PendingEnd, Install, EndDeactivate, EndStartClose,
       EndCloseWaited, EndDeliver, EndDelete, OwnerMoves, EndedOnce
  <2>2. \A j \in Ids : j # i => owner'[j] = owner[j]
    BY <2>1
  <2> QED
    BY <2>1, <2>2 DEF CountedOf, Counted
<1>4. CASE BeginDispatch
  <2>1. owner[next + 1] = "none" /\ owner' = [owner EXCEPT ![next + 1] = "pending"]
        /\ group' = group
    BY <1>4, BoundsAssumption DEF BeginDispatch, FreshIds, Ids
  <2>2. \A g \in Groups : CountedOf(g)' = CountedOf(g)
    BY <2>1 DEF CountedOf, Counted
  <2> QED
    BY <1>1, <1>4, <2>2 DEF BeginDispatch, releaseVars
<1>5. CASE UNCHANGED dispatchVars
  <2>1. \A g \in Groups : CountedOf(g)' = CountedOf(g)
    BY <1>5 DEF CountedOf, Counted, dispatchVars
  <2>2. releaseSequences' = releaseSequences \/ \E i \in Ids : EndRelease(i)
    BY ReleaseFrame DEF releaseVars, EndDeliver, SetReleaseSink, ReplayTo
  <2> QED
    BY <1>1, <1>2, <2>1, <2>2
<1>6. releaseSequences' = releaseSequences \/ \E i \in Ids : EndRelease(i)
  BY ReleaseFrame DEF releaseVars, EndDeliver, SetReleaseSink, ReplayTo
<1> QED
  BY DispatchFrame, <1>1, <1>2, <1>3, <1>4, <1>5, <1>6

(* EndWithRelease under sync.Once: the sequence Home is told for a group is *)
(* exactly the number of its executions that were released.                 *)
THEOREM ReleasesCountedOnce == Spec => []CountedExactlyOnce
<1>1. Init => CountedExactlyOnce
  <2>1. SUFFICES ASSUME Init, NEW g \in Groups
                 PROVE  releaseSequences[g] = Cardinality(CountedOf(g))
    BY DEF CountedExactlyOnce
  <2>2. CountedOf(g) = {}
    BY <2>1 DEF Init, CountedOf, Counted
  <2> QED
    BY <2>1, <2>2, FS_EmptySet DEF Init
<1> QED
  BY InitTypeInv, NextTypeInv, CountStep, <1>1, PTL DEF Spec

-----------------------------------------------------------------------------
(* No call in flight carries a sequence beyond the counter of its group,   *)
(* so no sink ever saw one, and the late call of an older release cannot   *)
(* make a sink overshoot.                                                  *)
BoundInv ==
  /\ \A i \in Ids : owner[i] = "released" /\ carried[i].sink # NoSink =>
       group[i] \in Groups /\ carried[i].sequence <= releaseSequences[group[i]]
  /\ \A g \in Groups : replay[g] <= releaseSequences[g]
  /\ \A s \in Sinks : \A g \in Groups : sinkSeen[s][g] <= releaseSequences[g]

(* What a delivery does to every entry of sinkSeen. *)
LEMMA DeliverEntry ==
  ASSUME sinkSeen \in [Sinks -> [Groups -> Nat]],
         NEW s, NEW g, NEW n \in Nat, Deliver(s, g, n),
         NEW t \in Sinks, NEW h \in Groups
  PROVE  sinkSeen'[t][h] =
           IF t = s /\ h = g /\ n > sinkSeen[t][h] THEN n ELSE sinkSeen[t][h]
<1> DEFINE row == [sinkSeen[s] EXCEPT ![g] = IF n > @ THEN n ELSE @]
<1>1. sinkSeen' = [sinkSeen EXCEPT ![s] = row]
  BY DEF Deliver
<1>2. CASE t # s
  BY <1>1, <1>2
<1>3. CASE t = s
  <2>1. sinkSeen'[t] = row
    BY <1>1, <1>3
  <2> QED
    BY <1>3, <2>1
<1> QED
  BY <1>2, <1>3

LEMMA OwnerOfRelease ==
  ASSUME TypeInv, [Next]_vars, ~\E i \in Ids : EndRelease(i) \/ EndDeliver(i)
  PROVE  \A i \in Ids :
           /\ owner'[i] = "released" <=> owner[i] = "released"
           /\ owner[i] = "released" => group'[i] = group[i]
<1> USE DEF TypeInv, TypeOK, DispatchTypeOK, InScopes
<1>1. CASE UNCHANGED dispatchVars
  BY <1>1 DEF dispatchVars
<1>2. CASE BeginDispatch
  <2>1. owner[next + 1] = "none" /\ owner' = [owner EXCEPT ![next + 1] = "pending"]
        /\ group' = group
    BY <1>2, BoundsAssumption DEF BeginDispatch, FreshIds, Ids
  <2> QED
    BY <2>1
<1>3. ASSUME NEW i \in Ids, \/ PendingEnd(i) \/ Install(i) \/ EndDeactivate(i)
                            \/ EndStartClose(i) \/ EndCloseWaited(i) \/ EndDelete(i)
      PROVE  \A j \in Ids : /\ owner'[j] = "released" <=> owner[j] = "released"
                            /\ owner[j] = "released" => group'[j] = group[j]
  BY <1>3 DEF PendingEnd, Install, EndDeactivate, EndStartClose,
     EndCloseWaited, EndDelete, OwnerMoves, EndedOnce
<1> QED
  BY DispatchFrame, <1>1, <1>2, <1>3

(* The deliveries: both sides of the race between an owner that ends and a *)
(* replacement of the sink.                                                *)
LEMMA SinkStep ==
  ASSUME TypeInv, BoundInv, SinkNotBehind, [Next]_vars
  PROVE  BoundInv' /\ SinkNotBehind'
<1> USE DEF TypeInv, TypeOK, DispatchTypeOK, ReleaseTypeOK
<1>1. ASSUME NEW i \in Ids, EndRelease(i) PROVE BoundInv' /\ SinkNotBehind'
  <2>1. /\ owner[i] = "quiet" /\ owner' = [owner EXCEPT ![i] = "released"]
        /\ group' = group /\ releaseSink' = releaseSink
        /\ replay' = replay /\ sinkSeen' = sinkSeen
    BY <1>1 DEF EndRelease, OwnerMoves, EndedOnce
  <2>2. CASE group[i] = NoGroup
    <3>1. /\ releaseSequences' = releaseSequences
          /\ carried' = [carried EXCEPT ![i] = [sink |-> NoSink, sequence |-> 0]]
      BY <1>1, <2>2 DEF EndRelease, MarkReleasedLocked
    <3>2. BoundInv'
      BY <2>1, <3>1 DEF BoundInv
    <3>3. SinkNotBehind'
      BY <2>1, <3>1 DEF SinkNotBehind
    <3> QED
      BY <3>2, <3>3
  <2>3. CASE group[i] # NoGroup
    <3> DEFINE h == group[i]
    <3>1. h \in Groups
      BY <2>3
    <3>2. /\ releaseSequences' = [releaseSequences EXCEPT ![h] = @ + 1]
          /\ carried' = [carried EXCEPT ![i] =
               [sink |-> releaseSink, sequence |-> releaseSequences[h] + 1]]
      BY <1>1, <2>3 DEF EndRelease, MarkReleasedLocked
    <3>3. \A g \in Groups : releaseSequences'[g] \in Nat
            /\ releaseSequences'[g] = IF g = h THEN releaseSequences[g] + 1
                                               ELSE releaseSequences[g]
      BY <3>1, <3>2
    <3>4. carried'[i] = [sink |-> releaseSink, sequence |-> releaseSequences'[h]]
      BY <3>1, <3>2, <3>3
    <3>5. BoundInv'
      <4>1. ASSUME NEW j \in Ids, owner'[j] = "released", carried'[j].sink # NoSink
            PROVE  /\ group'[j] \in Groups
                   /\ carried'[j].sequence <= releaseSequences'[group'[j]]
        <5>1. CASE j = i
          BY <2>1, <3>1, <3>3, <3>4, <5>1
        <5>2. CASE j # i
          <6>1. owner[j] = "released" /\ carried'[j] = carried[j] /\ group'[j] = group[j]
            BY <2>1, <3>2, <4>1, <5>2
          <6>2. group[j] \in Groups /\ carried[j].sequence <= releaseSequences[group[j]]
            BY <4>1, <6>1 DEF BoundInv
          <6>3. carried[j].sequence \in Nat
            OBVIOUS
          <6> QED
            BY <3>3, <6>1, <6>2, <6>3
        <5> QED
          BY <5>1, <5>2
      <4>2. ASSUME NEW g \in Groups PROVE replay'[g] <= releaseSequences'[g]
        BY <2>1, <3>3 DEF BoundInv
      <4>3. ASSUME NEW s \in Sinks, NEW g \in Groups
            PROVE  sinkSeen'[s][g] <= releaseSequences'[g]
        <5>1. sinkSeen[s][g] \in Nat /\ sinkSeen[s][g] <= releaseSequences[g]
          BY DEF BoundInv
        <5> QED
          BY <2>1, <3>3, <5>1
      <4> QED
        BY <4>1, <4>2, <4>3 DEF BoundInv
    <3>6. SinkNotBehind'
      <4>1. SUFFICES ASSUME releaseSink # NoSink, NEW g \in Groups
            PROVE \/ sinkSeen'[releaseSink'][g] = releaseSequences'[g]
                  \/ replay'[g] = releaseSequences'[g]
                  \/ \E j \in Ids : /\ owner'[j] = "released" /\ group'[j] = g
                                    /\ carried'[j] = [sink |-> releaseSink',
                                                      sequence |-> releaseSequences'[g]]
        BY <2>1 DEF SinkNotBehind
      <4>2. CASE g = h
        <5>1. owner'[i] = "released" /\ group'[i] = g
          BY <2>1, <4>2
        <5> QED
          BY <2>1, <3>4, <4>2, <5>1
      <4>3. CASE g # h
        <5>1. releaseSequences'[g] = releaseSequences[g]
          BY <3>3, <4>3
        <5>2. ASSUME NEW j \in Ids, owner[j] = "released"
              PROVE  owner'[j] = "released" /\ group'[j] = group[j] /\ carried'[j] = carried[j]
          BY <2>1, <3>2, <5>2
        <5> QED
          BY <2>1, <4>1, <5>1, <5>2 DEF SinkNotBehind
      <4> QED
        BY <4>2, <4>3
    <3> QED
      BY <3>5, <3>6
  <2> QED
    BY <2>2, <2>3
<1>2. ASSUME NEW i \in Ids, EndDeliver(i) PROVE BoundInv' /\ SinkNotBehind'
  <2>1. /\ owner[i] = "released" /\ owner' = [owner EXCEPT ![i] = "delivered"]
        /\ group' = group /\ releaseSink' = releaseSink /\ carried' = carried
        /\ replay' = replay /\ releaseSequences' = releaseSequences
    BY <1>2 DEF EndDeliver, OwnerMoves, EndedOnce
  <2> DEFINE n == carried[i].sequence
             t == carried[i].sink
  <2>2. n \in Nat /\ t \in Sinks \cup {NoSink}
    OBVIOUS
  <2>3. CASE t = NoSink
    <3>1. sinkSeen' = sinkSeen
      BY <1>2, <2>3 DEF EndDeliver
    <3>2. BoundInv'
      BY <2>1, <3>1 DEF BoundInv
    <3>3. ASSUME NEW j \in Ids, owner[j] = "released", carried[j].sink # NoSink
          PROVE  owner'[j] = "released"
      BY <2>1, <2>3, <3>3
    <3>4. SinkNotBehind'
      BY <2>1, <3>1, <3>3 DEF SinkNotBehind
    <3> QED
      BY <3>2, <3>4
  <2>4. CASE t # NoSink
    <3>1. group[i] \in Groups /\ n <= releaseSequences[group[i]] /\ t \in Sinks
      BY <2>1, <2>2, <2>4 DEF BoundInv
    <3>2. Deliver(t, group[i], n)
      BY <1>2, <2>4 DEF EndDeliver
    <3>3. ASSUME NEW s \in Sinks, NEW g \in Groups
          PROVE  sinkSeen'[s][g] = IF s = t /\ g = group[i] /\ n > sinkSeen[s][g]
                                     THEN n ELSE sinkSeen[s][g]
      BY <2>2, <3>2, DeliverEntry
    <3>4. BoundInv'
      <4>1. ASSUME NEW s \in Sinks, NEW g \in Groups
            PROVE  sinkSeen'[s][g] <= releaseSequences'[g]
        BY <2>1, <3>1, <3>3 DEF BoundInv
      <4> QED
        BY <2>1, <4>1 DEF BoundInv
    <3>5. SinkNotBehind'
      <4>1. SUFFICES ASSUME releaseSink # NoSink, NEW g \in Groups
            PROVE \/ sinkSeen'[releaseSink][g] = releaseSequences[g]
                  \/ replay[g] = releaseSequences[g]
                  \/ \E j \in Ids : /\ owner'[j] = "released" /\ group[j] = g
                                    /\ carried[j] = [sink |-> releaseSink,
                                                     sequence |-> releaseSequences[g]]
        BY <2>1 DEF SinkNotBehind
      <4>2. releaseSink \in Sinks
        BY <4>1
      <4>3. sinkSeen[releaseSink][g] \in Nat /\ releaseSequences[g] \in Nat
            /\ sinkSeen[releaseSink][g] <= releaseSequences[g]
        BY <4>2 DEF BoundInv
      <4>4. CASE sinkSeen[releaseSink][g] = releaseSequences[g]
        <5>1. ~(g = group[i] /\ n > sinkSeen[releaseSink][g])
          BY <2>2, <3>1, <4>3, <4>4
        <5> QED
          BY <3>3, <4>2, <4>4, <5>1
      <4>5. ASSUME NEW j \in Ids, owner[j] = "released", group[j] = g,
                   carried[j] = [sink |-> releaseSink, sequence |-> releaseSequences[g]]
            PROVE  owner'[j] = "released"
                     \/ sinkSeen'[releaseSink][g] = releaseSequences[g]
        <5>1. CASE j # i
          BY <2>1, <4>5, <5>1
        <5>2. CASE j = i
          <6>1. t = releaseSink /\ n = releaseSequences[g] /\ group[i] = g
            BY <4>5, <5>2
          <6>2. PICK old \in Nat : old = sinkSeen[releaseSink][g]
            BY <4>3
          <6>3. PICK last \in Nat : last = releaseSequences[g]
            BY <4>3
          <6>4. sinkSeen'[releaseSink][g] = IF last > old THEN last ELSE old
            BY <3>3, <4>2, <6>1, <6>2, <6>3
          <6>5. old <= last
            BY <4>3, <6>2, <6>3
          <6>6. (IF last > old THEN last ELSE old) = last
            BY <6>5
          <6> QED
            BY <6>3, <6>4, <6>6
        <5> QED
          BY <5>1, <5>2
      <4> QED
        BY <4>1, <4>4, <4>5 DEF SinkNotBehind
    <3> QED
      BY <3>4, <3>5
  <2> QED
    BY <2>3, <2>4
<1>3. ASSUME ~\E i \in Ids : EndRelease(i) \/ EndDeliver(i)
      PROVE  BoundInv' /\ SinkNotBehind'
  <2>0. \A i \in Ids : /\ owner'[i] = "released" <=> owner[i] = "released"
                       /\ owner[i] = "released" => group'[i] = group[i]
    BY <1>3, OwnerOfRelease
  <2>1. CASE UNCHANGED releaseVars
    <3>1. BoundInv'
      BY <2>0, <2>1 DEF BoundInv, releaseVars
    <3>2. SinkNotBehind'
      BY <2>0, <2>1 DEF SinkNotBehind, releaseVars
    <3> QED
      BY <3>1, <3>2
  <2>2. ASSUME NEW s \in Sinks \cup {NoSink}, SetReleaseSink(s)
        PROVE  BoundInv' /\ SinkNotBehind'
    <3>1. /\ releaseSink' = s
          /\ replay' = IF s = NoSink THEN [g \in Groups |-> 0] ELSE releaseSequences
          /\ releaseSequences' = releaseSequences /\ carried' = carried
          /\ sinkSeen' = sinkSeen
      BY <2>2 DEF SetReleaseSink
    <3>2. \A g \in Groups : replay'[g] <= releaseSequences'[g]
      BY <3>1
    <3>3. BoundInv'
      BY <2>0, <3>1, <3>2 DEF BoundInv
    <3>4. SinkNotBehind'
      BY <3>1 DEF SinkNotBehind
    <3> QED
      BY <3>3, <3>4
  <2>3. ASSUME NEW h \in Groups, ReplayTo(h) PROVE BoundInv' /\ SinkNotBehind'
    <3>1. /\ replay[h] > 0 /\ Deliver(releaseSink, h, replay[h])
          /\ replay' = [replay EXCEPT ![h] = 0]
          /\ releaseSequences' = releaseSequences /\ carried' = carried
          /\ releaseSink' = releaseSink /\ UNCHANGED dispatchVars
      BY <2>3 DEF ReplayTo
    <3>2. replay[h] \in Nat /\ replay[h] <= releaseSequences[h]
      BY DEF BoundInv
    <3>3. ASSUME NEW s \in Sinks, NEW g \in Groups
          PROVE  sinkSeen'[s][g] =
                   IF s = releaseSink /\ g = h /\ replay[h] > sinkSeen[s][g]
                     THEN replay[h] ELSE sinkSeen[s][g]
      BY <3>1, <3>2, DeliverEntry
    <3>4. BoundInv'
      <4>1. ASSUME NEW s \in Sinks, NEW g \in Groups
            PROVE  sinkSeen'[s][g] <= releaseSequences'[g]
        BY <3>1, <3>2, <3>3 DEF BoundInv
      <4>2. ASSUME NEW g \in Groups PROVE replay'[g] <= releaseSequences'[g]
        BY <3>1 DEF BoundInv
      <4> QED
        BY <2>0, <3>1, <4>1, <4>2 DEF BoundInv
    <3>5. SinkNotBehind'
      <4>1. SUFFICES ASSUME releaseSink # NoSink, NEW g \in Groups
            PROVE \/ sinkSeen'[releaseSink][g] = releaseSequences[g]
                  \/ replay'[g] = releaseSequences[g]
                  \/ \E j \in Ids : /\ owner[j] = "released" /\ group[j] = g
                                    /\ carried[j] = [sink |-> releaseSink,
                                                     sequence |-> releaseSequences[g]]
        BY <3>1 DEF SinkNotBehind, dispatchVars
      <4>2. releaseSink \in Sinks
        BY <4>1
      <4>3. sinkSeen[releaseSink][g] \in Nat /\ releaseSequences[g] \in Nat
            /\ sinkSeen[releaseSink][g] <= releaseSequences[g]
        BY <4>2 DEF BoundInv
      <4>4. CASE sinkSeen[releaseSink][g] = releaseSequences[g]
        <5>1. ~(g = h /\ replay[h] > sinkSeen[releaseSink][g])
          BY <3>2, <4>3, <4>4
        <5> QED
          BY <3>3, <4>2, <4>4, <5>1
      <4>5. CASE replay[g] = releaseSequences[g]
        <5>1. CASE g = h
          <6>1. PICK old \in Nat : old = sinkSeen[releaseSink][g]
            BY <4>3
          <6>2. PICK last \in Nat : last = releaseSequences[g]
            BY <4>3
          <6>3. sinkSeen'[releaseSink][g] = IF last > old THEN last ELSE old
            BY <3>3, <4>2, <4>5, <5>1, <6>1, <6>2
          <6>4. old <= last
            BY <4>3, <6>1, <6>2
          <6>5. (IF last > old THEN last ELSE old) = last
            BY <6>4
          <6> QED
            BY <6>2, <6>3, <6>5
        <5>2. CASE g # h
          BY <3>1, <4>5, <5>2
        <5> QED
          BY <5>1, <5>2
      <4> QED
        BY <4>1, <4>4, <4>5 DEF SinkNotBehind
    <3> QED
      BY <3>4, <3>5
  <2> QED
    BY <1>3, <2>1, <2>2, <2>3, ReleaseFrame
<1> QED
  BY <1>1, <1>2, <1>3

(* SetReleaseSink against EndWithRelease: after a replacement the new sink *)
(* has, or is about to be called with, the last sequence of every group,   *)
(* in whatever order the unlocked calls arrive.                            *)
THEOREM SinksCatchUp == Spec => []SinkNotBehind
<1>1. Init => BoundInv /\ SinkNotBehind
  BY DEF Init, BoundInv, SinkNotBehind
<1> QED
  BY InitTypeInv, NextTypeInv, SinkStep, <1>1, PTL DEF Spec

-----------------------------------------------------------------------------
(* An accounted scope stays in Registry.scopes until its release is counted. *)
GroupInv == \A i \in Ids :
  group[i] # NoGroup => owner[i] \in InScopes \cup {"finished"}

LEMMA GroupStep ==
  ASSUME TypeInv, GroupInv, [Next]_vars
  PROVE  GroupInv'
<1> USE DEF TypeInv, TypeOK, DispatchTypeOK, GroupInv, InScopes
<1>1. CASE UNCHANGED dispatchVars
  BY <1>1 DEF dispatchVars
<1>2. CASE BeginDispatch
  <2>1. owner[next + 1] = "none" /\ owner' = [owner EXCEPT ![next + 1] = "pending"]
        /\ group' = group
    BY <1>2, BoundsAssumption DEF BeginDispatch, FreshIds, Ids
  <2> QED
    BY <2>1
<1>3. ASSUME NEW i \in Ids, PendingEnd(i) PROVE GroupInv'
  BY <1>3 DEF PendingEnd
<1>4. ASSUME NEW i \in Ids, Install(i) PROVE GroupInv'
  BY <1>4 DEF Install
<1>5. ASSUME NEW i \in Ids, \/ EndDeactivate(i) \/ EndStartClose(i)
             \/ EndCloseWaited(i) \/ EndRelease(i) \/ EndDeliver(i) \/ EndDelete(i)
      PROVE  GroupInv'
  BY <1>5 DEF EndDeactivate, EndStartClose, EndCloseWaited, EndRelease,
     EndDeliver, EndDelete, OwnerMoves, EndedOnce
<1> QED
  BY DispatchFrame, <1>1, <1>2, <1>3, <1>4, <1>5

(* FreezeInFlight: every accounted execution begun before the barrier that *)
(* the snapshot names is listed in it, or the counter Home reads next to   *)
(* the snapshot already includes its release.                              *)
THEOREM SnapshotsComplete == Spec => SnapshotComplete
<1>1. TypeInv /\ GroupInv /\ [Next]_vars =>
        [frozen' # frozen =>
           \A i \in 1..barrierAt[frozen'.barrier] :
             group[i] # NoGroup => i \in frozen'.executions \/ Counted(i)]_vars
  <2>1. SUFFICES ASSUME TypeInv, GroupInv, [Next]_vars, frozen' # frozen,
                        NEW i \in 1..barrierAt[frozen'.barrier], group[i] # NoGroup
                 PROVE  i \in frozen'.executions \/ Counted(i)
    OBVIOUS
  <2>2. FreezeInFlight
    BY <2>1, BarrierFrame DEF barrierVars, ObserveBarrier
  <2>3. frozen'.barrier \in 0..MaxBarrier /\ frozen'.executions = scopes
    BY <2>1, <2>2 DEF FreezeInFlight, TypeInv, TypeOK, BarrierTypeOK
  <2>4. i \in Ids
    BY <2>1, <2>3, BoundsAssumption DEF TypeInv, TypeOK, BarrierTypeOK, Ids
  <2> QED
    BY <2>1, <2>3, <2>4 DEF GroupInv, TypeInv, TypeOK, DispatchTypeOK, Counted
<1>2. Init => GroupInv
  BY DEF Init, GroupInv
<1> QED
  BY InitTypeInv, NextTypeInv, GroupStep, <1>1, <1>2, PTL DEF Spec, SnapshotComplete
=============================================================================
