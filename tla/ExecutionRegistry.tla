------------------------- MODULE ExecutionRegistry -------------------------
(***************************************************************************)
(* sdk/cliproxy/executionregistry: the registry that owns every execution  *)
(* a Home node dispatched to this proxy during one subscriber lifetime.    *)
(*                                                                         *)
(* A dispatch is first PENDING (the answer of Home is not known), then     *)
(* either ended or INSTALLED as a scope.  The owner of a scope may bind    *)
(* one resource to it and ends it; ending closes the resource, counts the  *)
(* release of an accounted scope and tells the release sink.  Drain and    *)
(* Close race with the owners; ObserveBarrier and FreezeInFlight publish   *)
(* what is in flight.                                                      *)
(*                                                                         *)
(* Granularity: one action per critical section of Registry.mu or          *)
(* Scope.mu, and one per unlocked call (sink, resource close, wait).  The  *)
(* atomic state word is written outside Registry.mu only by the            *)
(* compare-and-swaps of Drain and Close, which commute with the critical   *)
(* sections that read it, so those sections stay one action each.          *)
(***************************************************************************)
EXTENDS Integers, FiniteSets

CONSTANTS
  MaxDispatch,   \* bound: dispatches of the lifetime, numbered from 1
  MaxBarrier,    \* bound: observation barriers Home may announce
  MaxFreeze,     \* bound: in-flight snapshots taken
  Groups,        \* release groups (credential, model)
  NoGroup,       \* the group of a scope that is not accounted
  Sinks,         \* release sinks
  NoSink,        \* no sink installed
  Drainers,      \* callers of Drain
  Closers,       \* callers of Close
  Waiters        \* callers of WaitPending

ASSUME BoundsAssumption ==
  /\ MaxDispatch \in Nat /\ MaxBarrier \in Nat /\ MaxFreeze \in Nat
ASSUME NamesAssumption ==
  /\ NoGroup \notin Groups /\ NoSink \notin Sinks
  /\ Drainers \cap Waiters = {} /\ Closers \cap (Drainers \cup Waiters) = {}

Ids == 1..MaxDispatch
Callers == Drainers \cup Closers \cup Waiters

VARIABLES
  state,                   \* Registry.state
  next,                    \* Registry.next: the last dispatch id handed out
  pending, scopes,         \* Registry.pending, Registry.scopes (ids)
  group,                   \* ScopeSpec of an installed scope: its group
  owner,                   \* where the owner of each dispatch stands
  resource,                \* Scope.closeFn / closeDone of each scope
  releaseSequences,        \* Registry.releaseSequences
  releaseSink,             \* Registry.releaseSink
  carried,                 \* what EndWithRelease holds after markReleasedLocked
  replay,                  \* sequences SetReleaseSink has still to replay
  sinkSeen,                \* highest sequence each sink was called with
  observedBarrier, pendingBarrierSequence, publishedBarrier,
  frozen,                  \* the last Freeze
  barrierAt,               \* history: Registry.next when a barrier was observed
  caller, left,            \* where each caller stands; scopes it must still close
  closeDone,               \* Registry.closeStarted / closeDone
  parked                   \* callers blocked on the current Registry.changed

dispatchVars == <<next, pending, scopes, group, owner>>
releaseVars  == <<releaseSequences, releaseSink, carried, replay, sinkSeen>>
barrierVars  == <<observedBarrier, pendingBarrierSequence, publishedBarrier,
                  frozen, barrierAt>>
coreVars     == <<state, dispatchVars, resource, releaseVars, barrierVars>>
callerVars   == <<caller, left, closeDone, parked>>
vars == <<coreVars, callerVars>>

States     == {"accepting", "draining", "closed"}
OwnerSteps == {"none", "pending", "dropped", "open", "deactivated",
               "closing", "quiet", "released", "delivered", "finished"}
CallerSteps == {"idle", "collect", "close", "wait", "swap", "join",
                "returned", "cancelled", "rejected"}
Resources  == {"none", "bound", "closing", "closed"}

(* Types, and where the owner of a dispatch must stand for its id to be in  *)
(* one of the two maps of the registry.                                     *)
InScopes == {"open", "deactivated", "closing", "quiet", "released", "delivered"}

DispatchTypeOK ==
  /\ next \in 0..MaxDispatch
  /\ pending \in SUBSET Ids /\ scopes \in SUBSET Ids
  /\ group \in [Ids -> Groups \cup {NoGroup}]
  /\ owner \in [Ids -> OwnerSteps]
  /\ \A i \in Ids : /\ i \in pending <=> owner[i] = "pending"
                    /\ i \in scopes <=> owner[i] \in InScopes

ReleaseTypeOK ==
  /\ releaseSequences \in [Groups -> Nat]
  /\ releaseSink \in Sinks \cup {NoSink}
  /\ carried \in [Ids -> [sink : Sinks \cup {NoSink}, sequence : Nat]]
  /\ replay \in [Groups -> Nat]
  /\ sinkSeen \in [Sinks -> [Groups -> Nat]]

BarrierTypeOK ==
  /\ observedBarrier \in 0..MaxBarrier /\ publishedBarrier \in 0..MaxBarrier
  /\ pendingBarrierSequence \in 0..MaxDispatch
  /\ frozen \in [revision : 0..MaxFreeze, barrier : 0..MaxBarrier,
                 executions : SUBSET Ids]
  /\ barrierAt \in [0..MaxBarrier -> 0..MaxDispatch]

CallerTypeOK ==
  /\ caller \in [Callers -> CallerSteps]
  /\ left \in [Callers -> SUBSET Ids]
  /\ closeDone \in {"unset", "open", "closed"}
  /\ parked \in SUBSET (Drainers \cup Waiters)

TypeOK ==
  /\ state \in States /\ resource \in [Ids -> Resources]
  /\ DispatchTypeOK /\ ReleaseTypeOK /\ BarrierTypeOK /\ CallerTypeOK

Init ==
  /\ state = "accepting" /\ next = 0 /\ pending = {} /\ scopes = {}
  /\ group = [i \in Ids |-> NoGroup] /\ owner = [i \in Ids |-> "none"]
  /\ resource = [i \in Ids |-> "none"]
  /\ releaseSequences = [g \in Groups |-> 0] /\ releaseSink = NoSink
  /\ carried = [i \in Ids |-> [sink |-> NoSink, sequence |-> 0]]
  /\ replay = [g \in Groups |-> 0]
  /\ sinkSeen = [s \in Sinks |-> [g \in Groups |-> 0]]
  /\ observedBarrier = 0 /\ publishedBarrier = 0 /\ pendingBarrierSequence = 0
  /\ frozen = [revision |-> 0, barrier |-> 0, executions |-> {}]
  /\ barrierAt = [b \in 0..MaxBarrier |-> 0]
  /\ caller = [p \in Callers |-> "idle"] /\ left = [p \in Callers |-> {}]
  /\ closeDone = "unset" /\ parked = {}

-----------------------------------------------------------------------------
(* signalLocked closes Registry.changed and installs a fresh channel: every *)
(* caller that had captured the old channel becomes runnable.               *)
SignalOneWaiter ==
  IF parked = {} THEN UNCHANGED parked
                 ELSE \E p \in parked : parked' = parked \ {p}
SignalLocked == parked' = {}

(* BeginDispatch: a token while the registry accepts traffic. *)
BeginDispatch ==
  /\ state = "accepting" /\ next < MaxDispatch
  /\ next' = next + 1
  /\ pending' = pending \cup {next + 1}
  /\ owner' = [owner EXCEPT ![next + 1] = "pending"]
  /\ UNCHANGED <<state, scopes, group, resource, releaseVars, barrierVars,
                 callerVars>>

(* PendingDispatch.End: Home answered without an execution. *)
PendingEnd(i) ==
  /\ i \in pending
  /\ pending' = pending \ {i}
  /\ owner' = [owner EXCEPT ![i] = "dropped"]
  /\ SignalLocked
  /\ UNCHANGED <<state, next, scopes, group, resource, releaseVars, barrierVars,
                 caller, left, closeDone>>

(* Install too late: ErrRegistryNotAccepting consumes the token as well. *)
InstallRejected(i) == state # "accepting" /\ PendingEnd(i)

(* Install while accepting: the token becomes an active scope. *)
Install(i) ==
  /\ i \in pending /\ state = "accepting"
  /\ pending' = pending \ {i}
  /\ scopes' = scopes \cup {i}
  /\ \E g \in Groups \cup {NoGroup} : group' = [group EXCEPT ![i] = g]
  /\ owner' = [owner EXCEPT ![i] = "open"]
  /\ SignalLocked
  /\ UNCHANGED <<state, next, resource, releaseVars, barrierVars, caller, left,
                 closeDone>>

(* Bind: one resource, only while the scope is active and work is accepted. *)
CanBindInactive(i) == state = "accepting" /\ i \in scopes /\ resource[i] = "none"
CanBind(i) == state = "accepting" /\ owner[i] = "open" /\ resource[i] = "none"

Bind(i) ==
  /\ i \in scopes /\ CanBind(i)
  /\ resource' = [resource EXCEPT ![i] = "bound"]
  /\ UNCHANGED <<state, dispatchVars, releaseVars, barrierVars, callerVars>>

-----------------------------------------------------------------------------
(* startBoundResourceClose: a bound resource starts closing, at most once. *)
StartClose(i) ==
  resource' = IF resource[i] = "bound"
                THEN [resource EXCEPT ![i] = "closing"] ELSE resource

(* The goroutine startBoundResourceClose started finishes closeFn. *)
ResourceClosed(i) ==
  /\ resource[i] = "closing"
  /\ resource' = [resource EXCEPT ![i] = "closed"]
  /\ UNCHANGED <<state, dispatchVars, releaseVars, barrierVars, callerVars>>

(* sync.Once: one caller of EndWithRelease walks through its steps. *)
EndedOnce(i, from, to) == owner[i] = from

OwnerMoves(i, from, to) ==
  /\ EndedOnce(i, from, to)
  /\ owner' = [owner EXCEPT ![i] = to]
  /\ UNCHANGED <<state, next, pending, group, barrierVars, caller, left,
                 closeDone>>

(* EndWithRelease, first critical section: active = false. *)
EndDeactivateDeletes(i) ==
  /\ OwnerMoves(i, "open", "deactivated")
  /\ scopes' = scopes \ {i}
  /\ UNCHANGED <<resource, releaseVars, parked>>
EndDeactivate(i) ==
  /\ OwnerMoves(i, "open", "deactivated")
  /\ UNCHANGED <<scopes, resource, releaseVars, parked>>

(* waitForBoundResourceClose: nothing to wait for when nothing was bound. *)
EndStartClose(i) ==
  /\ StartClose(i)
  /\ OwnerMoves(i, "deactivated",
                IF resource[i] = "none" THEN "quiet" ELSE "closing")
  /\ UNCHANGED <<scopes, releaseVars, parked>>

EndCloseWaited(i) ==
  /\ resource[i] = "closed"
  /\ OwnerMoves(i, "closing", "quiet")
  /\ UNCHANGED <<scopes, resource, releaseVars, parked>>

(* markReleasedLocked: count an accounted release, capture the sink. *)
MarkReleasedLocked(i) ==
  IF group[i] = NoGroup
    THEN /\ carried' = [carried EXCEPT ![i] = [sink |-> NoSink, sequence |-> 0]]
         /\ UNCHANGED releaseSequences
    ELSE /\ releaseSequences' = [releaseSequences EXCEPT ![group[i]] = @ + 1]
         /\ carried' = [carried EXCEPT ![i] =
              [sink |-> releaseSink, sequence |-> releaseSequences[group[i]] + 1]]

EndRelease(i) ==
  /\ MarkReleasedLocked(i)
  /\ OwnerMoves(i, "quiet", "released")
  /\ UNCHANGED <<scopes, resource, releaseSink, replay, sinkSeen, parked>>

(* A sink keeps the highest sequence it was called with for a group *)
(* (releaseFlusher.MarkDirty), whatever the order of the calls.     *)
DeliverLast(s, g, n) ==
  sinkSeen' = [sinkSeen EXCEPT ![s][g] = n]
Deliver(s, g, n) ==
  sinkSeen' = [sinkSeen EXCEPT ![s][g] = IF n > @ THEN n ELSE @]

(* The captured sink is called with no mutex held. *)
EndDeliver(i) ==
  /\ IF carried[i].sink # NoSink
       THEN Deliver(carried[i].sink, group[i], carried[i].sequence)
       ELSE UNCHANGED sinkSeen
  /\ OwnerMoves(i, "released", "delivered")
  /\ UNCHANGED <<scopes, resource, releaseSequences, releaseSink, carried,
                 replay, parked>>

EndDelete(i) ==
  /\ scopes' = scopes \ {i}
  /\ SignalLocked
  /\ OwnerMoves(i, "delivered", "finished")
  /\ UNCHANGED <<resource, releaseVars>>

-----------------------------------------------------------------------------
(* SetReleaseSink: replace the sink and copy the counters in one critical *)
(* section, then replay the copy unlocked, in any order.  Its callers are *)
(* one goroutine, so a replay ends before the next replacement.           *)
Replaying == \E g \in Groups : replay[g] > 0

SetReleaseSink(s) ==
  /\ ~Replaying
  /\ releaseSink' = s
  /\ replay' = IF s = NoSink THEN [g \in Groups |-> 0] ELSE releaseSequences
  /\ UNCHANGED <<state, dispatchVars, resource, releaseSequences, carried,
                 sinkSeen, barrierVars, callerVars>>

ReplayTo(g) ==
  /\ replay[g] > 0
  /\ Deliver(releaseSink, g, replay[g])
  /\ replay' = [replay EXCEPT ![g] = 0]
  /\ UNCHANGED <<state, dispatchVars, resource, releaseSequences, releaseSink,
                 carried, barrierVars, callerVars>>

-----------------------------------------------------------------------------
(* ObserveBarrier: an older revision is ignored. *)
ObserveBarrier(b) ==
  /\ b > observedBarrier
  /\ observedBarrier' = b
  /\ pendingBarrierSequence' = next
  /\ barrierAt' = [barrierAt EXCEPT ![b] = next]
  /\ UNCHANGED <<state, dispatchVars, resource, releaseVars, publishedBarrier,
                 frozen, callerVars>>

BarrierBlockedBelow == \E i \in pending : i < pendingBarrierSequence
BarrierBlocked == \E i \in pending : i <= pendingBarrierSequence

(* FreezeInFlight publishes the barrier once nothing older is unresolved. *)
FreezeInFlight ==
  /\ frozen.revision < MaxFreeze
  /\ publishedBarrier' =
       IF observedBarrier > publishedBarrier /\ ~BarrierBlocked
         THEN observedBarrier ELSE publishedBarrier
  /\ frozen' = [revision |-> frozen.revision + 1,
                barrier |-> publishedBarrier', executions |-> scopes]
  /\ UNCHANGED <<state, dispatchVars, resource, releaseVars, observedBarrier,
                 pendingBarrierSequence, barrierAt, callerVars>>

-----------------------------------------------------------------------------
(* Drain, Close and WaitPending. *)
CallerMoves(p, from, to) == caller[p] = from /\ caller' = [caller EXCEPT ![p] = to]

(* The copy of the live scopes both Drain and Close take under Registry.mu. *)
CollectScopes(p) ==
  /\ CallerMoves(p, "collect", "close")
  /\ left' = [left EXCEPT ![p] = scopes]
  /\ UNCHANGED <<coreVars, closeDone, parked>>

(* Drain starts with a compare-and-swap; a second drainer joins the first. *)
DrainSwap  == state' = IF state = "accepting" THEN "draining" ELSE state

DrainBegin(d) ==
  /\ CallerMoves(d, "idle", IF state = "closed" THEN "rejected" ELSE "collect")
  /\ DrainSwap
  /\ UNCHANGED <<dispatchVars, resource, releaseVars, barrierVars, left,
                 closeDone, parked>>

DrainCloseOne(d, i) ==
  /\ caller[d] = "close" /\ i \in left[d]
  /\ StartClose(i)
  /\ left' = [left EXCEPT ![d] = @ \ {i}]
  /\ UNCHANGED <<state, dispatchVars, releaseVars, barrierVars, caller,
                 closeDone, parked>>

(* The wait loop under Registry.mu: capture changed and sleep, or leave. *)
EmptyOfScopes == scopes = {}
Empty == pending = {} /\ scopes = {}

Park(p) ==
  /\ caller' = [caller EXCEPT ![p] = "wait"]
  /\ parked' = parked \cup {p}
  /\ UNCHANGED state

DrainCheck(d) ==
  /\ caller[d] \in {"close", "wait"} /\ left[d] = {} /\ d \notin parked
  /\ \/ /\ Empty
        /\ caller' = [caller EXCEPT ![d] = "returned"]
        /\ state' = "closed"
        /\ UNCHANGED parked
     \/ ~Empty /\ Park(d)
  /\ UNCHANGED <<dispatchVars, resource, releaseVars, barrierVars, left, closeDone>>

(* WaitPending: the same loop over the pending tokens only. *)
WaitCheck(w) ==
  /\ caller[w] \in {"idle", "wait"} /\ w \notin parked
  /\ \/ /\ pending = {}
        /\ caller' = [caller EXCEPT ![w] = "returned"]
        /\ UNCHANGED <<state, parked>>
     \/ pending # {} /\ Park(w)
  /\ UNCHANGED <<dispatchVars, resource, releaseVars, barrierVars, left, closeDone>>

(* ctx.Done wins the select of either loop; the state is left as it is. *)
Cancel(p) ==
  /\ CallerMoves(p, "wait", "cancelled")
  /\ parked' = parked \ {p}
  /\ UNCHANGED <<coreVars, left, closeDone>>

(* Close: the first caller does the work and later ones wait for it; when a *)
(* Drain already closed the registry there is nothing left to close.        *)
CloseBegin(c) ==
  /\ CallerMoves(c, "idle", IF closeDone # "unset" THEN "join"
                            ELSE IF state = "closed" THEN "returned" ELSE "swap")
  /\ closeDone' = IF closeDone = "unset" /\ state # "closed"
                    THEN "open" ELSE closeDone
  /\ UNCHANGED <<coreVars, left, parked>>

CloseSwap(c) ==
  /\ CallerMoves(c, "swap", "collect")
  /\ state' = "closed"
  /\ UNCHANGED <<dispatchVars, resource, releaseVars, barrierVars, left,
                 closeDone, parked>>

(* waitForBoundResourceClose of one scope of the copy: start the close, *)
(* then move on once there is nothing (more) to wait for.               *)
CloseStartOne(c, i) ==
  /\ caller[c] = "close" /\ i \in left[c] /\ resource[i] = "bound"
  /\ StartClose(i)
  /\ UNCHANGED <<state, dispatchVars, releaseVars, barrierVars, callerVars>>

NoneToWait(i)  == resource[i] # "bound"
CloseWaited(i) == resource[i] \in {"none", "closed"}

CloseWaitedOne(c, i) ==
  /\ caller[c] = "close" /\ i \in left[c] /\ CloseWaited(i)
  /\ left' = [left EXCEPT ![c] = @ \ {i}]
  /\ UNCHANGED <<coreVars, caller, closeDone, parked>>

CloseDoneForgotten == UNCHANGED closeDone
CloseDone          == closeDone' = "closed"

CloseFinish(c) ==
  /\ left[c] = {} /\ CallerMoves(c, "close", "returned")
  /\ CloseDone
  /\ UNCHANGED <<coreVars, left, parked>>

CloseJoin(c) ==
  /\ closeDone = "closed" /\ CallerMoves(c, "join", "returned")
  /\ UNCHANGED <<coreVars, left, closeDone, parked>>

-----------------------------------------------------------------------------
EndStep(i) ==
  \/ EndStartClose(i) \/ EndCloseWaited(i) \/ EndRelease(i)
  \/ EndDeliver(i) \/ EndDelete(i)

OwnerStep(i) ==
  \/ PendingEnd(i) \/ Install(i) \/ InstallRejected(i) \/ Bind(i)
  \/ EndDeactivate(i) \/ EndStep(i) \/ ResourceClosed(i)

DrainStep(d) ==
  \/ DrainBegin(d) \/ CollectScopes(d) \/ DrainCheck(d)
  \/ \E i \in Ids : DrainCloseOne(d, i)

CloseStep(c) ==
  \/ CloseBegin(c) \/ CloseSwap(c) \/ CollectScopes(c) \/ CloseFinish(c)
  \/ CloseJoin(c)
  \/ \E i \in Ids : CloseStartOne(c, i) \/ CloseWaitedOne(c, i)

Next ==
  \/ BeginDispatch \/ FreezeInFlight
  \/ \E i \in Ids : OwnerStep(i)
  \/ \E s \in Sinks \cup {NoSink} : SetReleaseSink(s)
  \/ \E g \in Groups : ReplayTo(g)
  \/ \E b \in 1..MaxBarrier : ObserveBarrier(b)
  \/ \E d \in Drainers : DrainStep(d) \/ Cancel(d)
  \/ \E w \in Waiters : WaitCheck(w) \/ Cancel(w)
  \/ \E c \in Closers : CloseStep(c)

Spec == Init /\ [][Next]_vars

(* Scheduling: a goroutine that can run runs; the owner of a dispatch      *)
(* resolves it (its callers defer PendingDispatch.End); closeFn returns and *)
(* makes the owner of the scope end it, as does a Bind that is refused.     *)
(* A new dispatch, a Freeze and a cancelled context are never promised, and *)
(* an owner whose resource nobody closes may go on for ever.                *)
Cancelled(i) ==
  resource[i] \in {"closing", "closed"} \/ (state # "accepting" /\ resource[i] = "none")

Fairness ==
  /\ \A i \in Ids :
       /\ WF_vars(PendingEnd(i) \/ Install(i) \/ InstallRejected(i))
       /\ WF_vars(Cancelled(i) /\ EndDeactivate(i))
       /\ WF_vars(EndStep(i)) /\ WF_vars(ResourceClosed(i))
  /\ \A g \in Groups : WF_vars(ReplayTo(g))
  /\ \A d \in Drainers : WF_vars(caller[d] # "idle" /\ DrainStep(d))
  /\ \A w \in Waiters : WF_vars(caller[w] # "idle" /\ WaitCheck(w))
  /\ \A c \in Closers : WF_vars(caller[c] # "idle" /\ CloseStep(c))

FairSpec == Spec /\ Fairness

-----------------------------------------------------------------------------
(* A resource that is bound and not yet closed still holds an execution. *)
Held(i) == resource[i] \in {"bound", "closing"}
Counted(i) == group[i] # NoGroup /\ owner[i] \in {"released", "delivered", "finished"}
CountedOf(g) == {i \in Ids : group[i] = g /\ Counted(i)}

(* registry.go:379 "waits for all owners to end": once a Drain returned nil *)
(* nothing is pending, no scope exists and no resource is still open, and   *)
(* no later call can change that.                                           *)
DrainedMeansEmpty ==
  (\E d \in Drainers : caller[d] = "returned") =>
    /\ pending = {} /\ scopes = {} /\ state = "closed"
    /\ \A i \in Ids : ~Held(i)

(* registry.go:418 "closes every currently bound resource": no Close, first *)
(* or joining, returns while a resource is bound or closing.                *)
ClosedMeansReleased ==
  (\E c \in Closers : caller[c] = "returned") => \A i \in Ids : ~Held(i)

(* EndWithRelease counts and deletes a scope only after its resource was   *)
(* closed, and a late Bind cannot attach a resource behind its back: what  *)
(* is held is held by a scope that still exists and is not yet released.   *)
NoOrphanResource ==
  \A i \in Ids : Held(i) =>
    i \in scopes /\ owner[i] \in {"open", "deactivated", "closing"}

(* signalLocked: no caller sleeps on a channel that will never be closed   *)
(* although the condition it waits for already holds.                      *)
NoLostWakeup ==
  /\ \A d \in Drainers : d \in parked => pending # {} \/ scopes # {}
  /\ \A w \in Waiters : w \in parked => pending # {}

(* A barrier is only published after every dispatch that existed when it   *)
(* was observed has been resolved, also when a later barrier overtook it.  *)
BarrierSound ==
  \A b \in 1..MaxBarrier : b <= publishedBarrier =>
    \A i \in pending : i > barrierAt[b]

(* The cumulative sequence of a group is the number of its scopes that were *)
(* released: none is counted twice or forgotten, whoever races to end it.   *)
CountedExactlyOnce ==
  \A g \in Groups : releaseSequences[g] = Cardinality(CountedOf(g))

(* The current sink knows the latest sequence of every group, or a call     *)
(* carrying it is on its way: replacing the sink while a scope ends loses   *)
(* nothing.                                                                 *)
SinkNotBehind ==
  releaseSink # NoSink => \A g \in Groups :
    \/ sinkSeen[releaseSink][g] = releaseSequences[g]
    \/ replay[g] = releaseSequences[g]
    \/ \E i \in Ids : /\ owner[i] = "released" /\ group[i] = g
                      /\ carried[i] = [sink |-> releaseSink,
                                       sequence |-> releaseSequences[g]]

(* A snapshot that publishes a barrier misses no accounted execution begun *)
(* before it: each is listed or its release was already counted.           *)
SnapshotComplete ==
  [][frozen' # frozen =>
       \A i \in 1..barrierAt[frozen'.barrier] :
         group[i] # NoGroup => i \in frozen'.executions \/ Counted(i)]_vars

(* A lifetime that stopped accepting never accepts again, and Drain and    *)
(* Close racing to change the state never reopen a closed registry.        *)
Rank(s) == CASE s = "accepting" -> 0 [] s = "draining" -> 1 [] s = "closed" -> 2
OnlyForward == [][Rank(state') >= Rank(state)]_vars

(* A Drain that started returns, unless its caller gives up: the owners end *)
(* and the last one wakes it.  Close and the callers that join it return    *)
(* once the resources closed.                                               *)
CallersReturn ==
  /\ \A d \in Drainers : caller[d] = "collect" ~> caller[d] \in {"returned", "cancelled"}
  /\ \A c \in Closers : caller[c] \in {"swap", "join"} ~> caller[c] = "returned"
=============================================================================
