------------------------ MODULE HomeSubscriberProofs ------------------------
(***************************************************************************)
(* Theorems about HomeSubscriber for every number of requests, lifetimes   *)
(* and configs: which memberships may be fresh, what Home counts, which    *)
(* configs are committed, and what a run that ends without error leaves.   *)
(***************************************************************************)
EXTENDS HomeSubscriber, TLAPS, FiniteSetTheorems

-----------------------------------------------------------------------------
(* Where the supervisor is.                                                 *)
SetUp    == {"bootstrap", "subscribe", "acked"}
Between  == {"backoff", "start"}
Up       == SetUp \cup {"receive", "over"}
Published == {"receive", "over", "join"}
InLife   == Up \cup {"join", "detached", "settle", "drain", "lastDrain", "lastFlush"}
Ending   == {"drain", "lastDrain", "lastFlush", "deferred", "done"}

(* Control: only the current lifetime has a worker, a heartbeat and a       *)
(* bundle; and while a commit is being made nobody shuts down.               *)
Working == {"idle", "staged", "checked", "committed", "finalize"}
ControlInv ==
  /\ reg <= life + 1 /\ (sup \in InLife => reg <= life) /\ commits.by <= life
  /\ queued <= received + 1 /\ (sup = "bootstrap" => queued = 0)
  /\ sup \in Up => active[life]
  /\ \A c \in Lifetimes :
       /\ active[c] => c = life /\ sup \in Up
       /\ worker[c] \in Working => c = life /\ sup \in Published
       /\ worker[c] = "waiting" => c = life /\ sup \in Up \cup {"join"}
       /\ heartbeat[c] => c = life /\ sup = "receive"
       /\ worker[c] = "checked" => ctx # "stopped"
  /\ bundle # None => bundle = <<life, reg>> /\ sup \in Published

(* Requests: what is pending or installed belongs to the registry in use,   *)
(* and what Home may still answer to the client in use.                      *)
Flight  == {"issued", "granted", "unknown", "fencing"}
Past(c) == c < life \/ sup \in {"drain"} \cup Between
RequestOK(q) ==
  /\ q.c <= life /\ q.r <= reg
  /\ q.pc \in Pending \cup Installed => q.r = reg
  /\ q.pc \in Flight => ~Past(q.c)
  /\ q.pc # "idle" /\ Past(q.c) => fenced[q.c]
  /\ q.pc # "idle" /\ sup \in SetUp => q.c < life
  /\ q.pc \in {"fencing", "marked", "fenced"} => ambiguous[q.c]
RequestInv ==
  /\ \A r \in Registries : (r < reg => draining[r]) /\ (r > reg => ended[r] = 0)
  /\ \A i \in Requests : RequestOK(req[i])
  /\ sup = "settle" => fenced[life]
  /\ sup = "receive" /\ ~heartbeat[life] => ambiguous[life] \/ ctx # "live"

(* A fresh membership is asked for with a registry nobody has used.          *)
Eager  == recovery \in {"eligible", "switchingTakeover"}
Unused == (\A i \in Requests : req[i].r # reg) /\ ended[reg] = 0 /\ latest = 0 /\ acked = 0
FreshInv ==
  /\ sup \in SetUp \cup Between => Takeover \/ Unused
  /\ (sup \in {"over", "join", "detached"} /\ ctx = "live") \/ sup = "settle"
        => Eager \/ legacy \/ ambiguous[life] \/ Unused

(* What Home counts: the membership of the registry in use, or that of one   *)
(* which was replaced and which the next SUBSCRIBE makes it forget.          *)
Counted ==
  /\ home.granted = Cardinality(Occupying) + ended[reg] + home.lost
  /\ acked <= home.released /\ home.released <= latest /\ latest <= ended[reg]
  /\ sup \notin {"drain", "deferred", "done"} => latest = ended[reg]
Unclaimed == /\ Unused /\ ~Takeover /\ sup \notin {"acked", "receive"}
             /\ home.released <= home.granted
LostHere == ambiguous[life] \/ \E i \in Requests : req[i].pc = "unknown" /\ req[i].c = life
CountInv ==
  /\ Counted \/ Unclaimed
  /\ home.lost > 0 => \/ Unclaimed
                      \/ sup \in Published \cup {"detached", "settle"} /\ LostHere
                      \/ sup \in Ending

(* The end of a run.                                                         *)
EndInv ==
  /\ sup \in {"lastDrain", "lastFlush", "drain", "done"} => draining[reg]
  /\ sup = "lastFlush" \/ (sup = "done" /\ ctx # "cancelled") => Drained

-----------------------------------------------------------------------------
(* Types.                                                                   *)
RequestPC == Pending \cup Installed \cup {"idle", "loaded", "over"}
RequestRec == [pc : RequestPC, c : 0..MaxLifetimes, r : {0} \cup Registries]

(* One request moves, and keeps the bundle it has loaded.                   *)
Moves(i, to) ==
  /\ req' \in [Requests -> RequestRec]
  /\ req'[i].pc = to /\ req'[i].c = req[i].c /\ req'[i].r = req[i].r
  /\ \A j \in Requests \ {i} : req'[j] = req[j]

LEMMA MovesOne ==
  ASSUME TypeOK, NEW i \in Requests, NEW to \in RequestPC, req' = [req EXCEPT ![i].pc = to]
  PROVE  Moves(i, to)
<1>1. req[i] \in RequestRec /\ req \in [Requests -> RequestRec]
  BY DEF TypeOK, RequestRec, RequestPC
<1> DEFINE s == [req[i] EXCEPT !.pc = to]
<1>2. s \in RequestRec /\ s.pc = to /\ s.c = req[i].c /\ s.r = req[i].r
  BY <1>1 DEF RequestRec
<1>3. req' = [req EXCEPT ![i] = s]
  OBVIOUS
<1> HIDE DEF s
<1> QED
  BY <1>1, <1>2, <1>3 DEF Moves

LEMMA StepMoves ==
  ASSUME TypeOK, NEW i \in Requests, NEW from, NEW to \in RequestPC, ReqStep(i, from, to)
  PROVE  req[i].pc = from /\ Moves(i, to)
  BY MovesOne DEF ReqStep

(* The states a request of each kind of step passes through.                *)
LEMMA RequestMoves ==
  ASSUME TypeOK, NEW i \in Requests, Dispatch(i)
  PROVE  \E to \in RequestPC : Moves(i, to) /\ req[i].pc # "idle" /\ to # "idle"
<1> USE StepMoves, MovesOne DEF RequestPC, Pending, Installed
<1>1. CASE BeginDispatch(i)
  BY <1>1 DEF BeginDispatch
<1>2. CASE Issue(i)
  BY <1>2 DEF Issue
<1>3. CASE HomeGrants(i) \/ HomeDenies(i) \/ PendingEnd(i)
  BY <1>3 DEF HomeGrants, HomeDenies, PendingEnd
<1>4. CASE ReplyLost(i)
  BY <1>4 DEF ReplyLost
<1>5. CASE Install(i)
  BY <1>5 DEF Install
<1>6. CASE Abort(i)
  BY <1>6 DEF Abort, Aborting
<1>7. CASE ScopeEnd(i)
  BY <1>7 DEF ScopeEnd
<1> QED
  BY <1>1, <1>2, <1>3, <1>4, <1>5, <1>6, <1>7 DEF Dispatch

PlainTyped ==
  /\ ctx \in {"live", "stopped", "cancelled"}
  /\ sup \in {"start", "bootstrap", "subscribe", "acked", "receive", "over", "join",
              "detached", "settle", "drain", "backoff", "lastDrain", "lastFlush",
              "deferred", "done"}
  /\ cause \in {"none", "transport", "unavailable", "protocol"}
  /\ life \in 0..MaxLifetimes /\ reg \in Registries
  /\ fenced \in [Lifetimes -> BOOLEAN] /\ ambiguous \in [Lifetimes -> BOOLEAN]
  /\ heartbeat \in [Lifetimes -> BOOLEAN]
  /\ recovery \in {"stable", "eligible", "switching", "switchingTakeover"}
  /\ legacy \in BOOLEAN /\ draining \in [Registries -> BOOLEAN]
  /\ latest \in Nat /\ acked \in Nat /\ flushing \in BOOLEAN
  /\ worker \in [Lifetimes -> {"off", "waiting", "idle", "staged", "checked",
                               "committed", "finalize", "done"}]
  /\ active \in [Lifetimes -> BOOLEAN]
  /\ queued \in 0..MaxConfigs + 1 /\ received \in 0..MaxConfigs
  /\ bundle \in {None} \cup (Lifetimes \X Registries) /\ published \in BOOLEAN
  /\ commits \in [n : Nat, by : 0..MaxLifetimes]
  /\ ended \in [Registries -> Nat]
  /\ home \in [granted : Nat, released : Nat, lost : Nat]
RequestTyped ==
  /\ req \in [Requests -> RequestRec]
  /\ \A i \in Requests : req[i].pc # "idle" => req[i].c # 0 /\ req[i].r # 0

LEMMA TypeParts == TypeOK <=> PlainTyped /\ RequestTyped
  BY DEF TypeOK, PlainTyped, RequestTyped, RequestRec, RequestPC

LEMMA BoundsInt == MaxLifetimes \in Nat \ {0} /\ MaxConfigs \in Nat
  BY BoundsAssumption

LEMMA BusyRequest ==
  ASSUME TypeOK, NEW i \in Requests, Dispatch(i)
  PROVE  /\ req[i].pc # "idle" /\ req[i].c \in Lifetimes /\ req[i].r \in Registries
         /\ req[i] \in RequestRec
<1>1. req[i] \in RequestRec /\ req[i].pc # "idle" /\ req[i].c # 0 /\ req[i].r # 0
  BY TypeParts, RequestMoves DEF RequestTyped
<1> QED
  BY <1>1, BoundsInt DEF RequestRec, Lifetimes

LEMMA RequestsKeepType ==
  ASSUME TypeOK, [Next]_vars
  PROVE  RequestTyped'
<1> USE TypeParts
<1>1. CASE req' = req
  BY <1>1 DEF RequestTyped
<1>2. ASSUME NEW i \in Requests, Dispatch(i) PROVE RequestTyped'
  <2>1. PICK to \in RequestPC : Moves(i, to) /\ req[i].pc # "idle"
    BY <1>2, RequestMoves
  <2> QED
    BY <2>1 DEF RequestTyped, Moves
<1>3. ASSUME NEW i \in Requests, LoadBundle(i) PROVE RequestTyped'
  <2>1. bundle \in Lifetimes \X Registries
    BY <1>3 DEF LoadBundle, BundleReady, PlainTyped
  <2>2. bundle[1] \in Lifetimes /\ bundle[2] \in Registries
    BY <2>1
  <2> DEFINE s == [pc |-> "loaded", c |-> bundle[1], r |-> bundle[2]]
  <2>3. s \in RequestRec /\ s.c # 0 /\ s.r # 0
    BY <2>2, BoundsInt DEF RequestRec, RequestPC, Lifetimes, Registries
  <2>4. req' = [req EXCEPT ![i] = s]
    BY <1>3 DEF LoadBundle
  <2> HIDE DEF s
  <2> QED
    BY <2>3, <2>4 DEF RequestTyped
<1>4. CASE Supervise
  BY <1>1, <1>4 DEF Supervise, StartLifetime, LeaveLoop, GotConfig, Receive, HomeSubscribes, HomeRefuses, ProbeOK, SetupFails, EndLifetime, CancelLifetime, Detach, Retry, CloseBeforeSettle, Settled, Replace, ReplacementFails, Backoff, LastDrain, LastFlush, Flushed, CloseLast, LastFails, Deferred
<1>5. CASE ConfigMessage \/ ReceiveFails \/ Shutdown \/ RunCancelled \/ UNCHANGED vars
  BY <1>1, <1>5 DEF ConfigMessage, ReceiveFails, EndLifetime, Shutdown, RunCancelled, vars
<1>6. CASE PushRelease
  BY <1>1, <1>6 DEF PushRelease
<1>7. ASSUME NEW c \in Lifetimes, Work(c) \/ WorkerFails(c) PROVE RequestTyped'
  BY <1>1, <1>7 DEF Work, Stage, CommitCheck, Commit, ApplyRuntime, Finalize, CloseOnCancellation, WorkerLeaves, WorkerFails
<1> QED
  BY <1>2, <1>3, <1>4, <1>5, <1>6, <1>7 DEF Next

LEMMA DispatchKeepsType ==
  ASSUME TypeOK, NEW i \in Requests, Dispatch(i)
  PROVE  PlainTyped'
<1>0. req[i].c \in Lifetimes /\ req[i].r \in Registries /\ req[i].pc # "idle"
  BY BusyRequest
<1>a. PlainTyped
  BY TypeParts
<1> USE <1>0, <1>a DEF PlainTyped, reqFrame, carryVars, workVars, clientVars
<1>1. CASE BeginDispatch(i) \/ Issue(i) \/ HomeDenies(i) \/ PendingEnd(i)
  BY <1>1 DEF BeginDispatch, Issue, HomeDenies, PendingEnd
<1>2. CASE HomeGrants(i)
  <2>1. home' \in [granted : Nat, released : Nat, lost : Nat]
    BY <1>2 DEF HomeGrants
  <2> QED
    BY <1>2, <2>1 DEF HomeGrants
<1>3. CASE ReplyLost(i)
  <2>1. home' \in [granted : Nat, released : Nat, lost : Nat]
    BY <1>3 DEF ReplyLost
  <2> QED
    BY <1>3, <2>1 DEF ReplyLost
<1>4. CASE Install(i)
  <2>1. home' \in [granted : Nat, released : Nat, lost : Nat]
    BY <1>4 DEF Install
  <2> QED
    BY <1>4, <2>1 DEF Install
<1>5. CASE Abort(i)
  <2>1. fenced' \in [Lifetimes -> BOOLEAN] /\ ambiguous' \in [Lifetimes -> BOOLEAN]
        /\ heartbeat' \in [Lifetimes -> BOOLEAN]
    BY <1>5 DEF Abort, Aborting
  <2>2. UNCHANGED <<reqFrame, draining, latest, acked, ended, home>>
    BY <1>5 DEF Abort
  <2> QED
    BY <2>1, <2>2
<1>6. CASE ScopeEnd(i)
  <2>1. ended' \in [Registries -> Nat] /\ latest' \in Nat
    BY <1>6 DEF ScopeEnd
  <2> QED
    BY <1>6, <2>1 DEF ScopeEnd
<1> QED
  BY <1>1, <1>2, <1>3, <1>4, <1>5, <1>6 DEF Dispatch

LEMMA PlainStep == ASSUME TypeOK, ControlInv, [Next]_vars PROVE PlainTyped'
<1> USE BoundsInt
<1>0. PlainTyped
  BY TypeParts
<1> USE <1>0 DEF PlainTyped
<1> USE DEF ControlInv, InLife, Up, SetUp, Published, Lifetimes, Registries, clientVars, carryVars, flushVars, workVars, reqFrame, Switched, Eligible, Suppressed, AfterReceiveError, CancelRun, Fresh, WorkerStep
<1>1. CASE StartLifetime
  <2>1. life' \in 0..MaxLifetimes /\ queued' \in 0..MaxConfigs + 1
    BY <1>1 DEF StartLifetime
  <2> QED
    BY <1>1, <2>1 DEF StartLifetime
<1>2. CASE LeaveLoop
  BY <1>2 DEF LeaveLoop
<1>3. CASE GotConfig
  BY <1>3, SMTT(30) DEF GotConfig, Receive
<1>4. CASE HomeSubscribes
  BY <1>4, SMTT(30) DEF HomeSubscribes
<1>5. CASE HomeRefuses
  BY <1>5 DEF HomeRefuses
<1>6. CASE ProbeOK
  BY <1>6 DEF ProbeOK
<1>7. CASE SetupFails
  BY <1>7 DEF SetupFails, EndLifetime
<1>8. CASE CancelLifetime
  BY <1>8 DEF CancelLifetime
<1>9. CASE Detach
  BY <1>9 DEF Detach
<1>10. CASE Retry
  BY <1>10 DEF Retry, CloseBeforeSettle
<1>11. CASE Settled
  BY <1>11 DEF Settled
<1>12. CASE Replace
  <2>1. reg' \in Registries
    BY <1>12 DEF Replace
  <2> QED
    BY <1>12, <2>1 DEF Replace, FreshFlusher, FreshNext
<1>13. CASE ReplacementFails
  BY <1>13 DEF ReplacementFails
<1>14. CASE Backoff
  BY <1>14 DEF Backoff
<1>15. CASE LastDrain
  BY <1>15 DEF LastDrain
<1>16. CASE LastFlush
  BY <1>16 DEF LastFlush
<1>17. CASE Flushed
  BY <1>17 DEF Flushed, CloseLast
<1>18. CASE LastFails
  BY <1>18 DEF LastFails, CloseLast
<1>19. CASE Deferred
  BY <1>19 DEF Deferred
<1>20. CASE ConfigMessage
  BY <1>20 DEF ConfigMessage, Receive
<1>21. CASE ReceiveFails
  BY <1>21 DEF ReceiveFails, EndLifetime
<1>22. CASE PushRelease
  BY <1>22, ZenonT(60) DEF PushRelease
<1>23. CASE Shutdown
  BY <1>23 DEF Shutdown
<1>24. CASE RunCancelled
  BY <1>24 DEF RunCancelled
<1>25. ASSUME NEW c \in Lifetimes, Stage(c) PROVE PlainTyped'
  BY <1>25 DEF Stage
<1>26. ASSUME NEW c \in Lifetimes, CommitCheck(c) PROVE PlainTyped'
  BY <1>26, SMTT(30) DEF CommitCheck
<1>27. ASSUME NEW c \in Lifetimes, Commit(c) PROVE PlainTyped'
  <2>1. commits' \in [n : Nat, by : 0..MaxLifetimes]
    BY <1>27, SMTT(30) DEF Commit
  <2> QED
    BY <1>27, <2>1, SMTT(30) DEF Commit
<1>28. ASSUME NEW c \in Lifetimes, ApplyRuntime(c) PROVE PlainTyped'
  BY <1>28, SMTT(30) DEF ApplyRuntime
<1>29. ASSUME NEW c \in Lifetimes, Finalize(c) PROVE PlainTyped'
  <2>1. <<c, reg>> \in Lifetimes \X Registries
    OBVIOUS
  <2>2. bundle' \in {None} \cup (Lifetimes \X Registries)
    BY <1>29, <2>1 DEF Finalize
  <2>3. worker' \in [Lifetimes -> {"off", "waiting", "idle", "staged", "checked",
                                  "committed", "finalize", "done"}] /\ published' \in BOOLEAN
    BY <1>29 DEF Finalize
  <2>4. UNCHANGED <<ctx, sup, cause, life, clientVars, carryVars, reg, draining, flushVars,
                    active, queued, received, commits, ended, home>>
    BY <1>29 DEF Finalize
  <2> HIDE DEF ControlInv, WorkerStep
  <2> QED
    BY <2>2, <2>3, <2>4
<1>30. ASSUME NEW c \in Lifetimes, CloseOnCancellation(c) PROVE PlainTyped'
  BY <1>30, SMTT(30) DEF CloseOnCancellation
<1>31. ASSUME NEW c \in Lifetimes, WorkerLeaves(c) PROVE PlainTyped'
  BY <1>31, SMTT(30) DEF WorkerLeaves
<1>32. ASSUME NEW c \in Lifetimes, WorkerFails(c) PROVE PlainTyped'
  <2>1. worker' \in [Lifetimes -> {"off", "waiting", "idle", "staged", "checked",
                               "committed", "finalize", "done"}]
    BY <1>32, SMTT(30) DEF WorkerFails
  <2> QED
    BY <1>32, <2>1 DEF WorkerFails
<1>33. ASSUME NEW i \in Requests, LoadBundle(i) PROVE PlainTyped'
  BY <1>33 DEF LoadBundle
<1>34. ASSUME NEW i \in Requests, Dispatch(i) PROVE PlainTyped'
  BY <1>34, DispatchKeepsType
<1>35. CASE UNCHANGED vars
  BY <1>35 DEF vars
<1> QED
  BY <1>1, <1>2, <1>3, <1>4, <1>5, <1>6, <1>7, <1>8, <1>9, <1>10, <1>11, <1>12, <1>13, <1>14, <1>15, <1>16, <1>17, <1>18, <1>19, <1>20, <1>21, <1>22, <1>23, <1>24, <1>25, <1>26, <1>27, <1>28, <1>29, <1>30, <1>31, <1>32, <1>33, <1>34, <1>35 DEF Next, Supervise, Work

-----------------------------------------------------------------------------
(* Control.                                                                 *)
LEMMA ControlStep == ASSUME TypeOK, ControlInv, [Next]_vars PROVE ControlInv'
<1> USE BoundsInt
<1>0. PlainTyped
  BY TypeParts
<1> USE <1>0 DEF PlainTyped
<1> USE DEF ControlInv, InLife, Up, SetUp, Published, Lifetimes, Registries, Working, clientVars, flushVars, workVars, reqFrame, CancelRun, WorkerStep, LifetimeActive, CommitMuFree, Joined
<1>1. CASE StartLifetime
  BY <1>1 DEF StartLifetime
<1>2. CASE LeaveLoop
  BY <1>2 DEF LeaveLoop
<1>3. CASE GotConfig
  BY <1>3 DEF GotConfig, Receive
<1>4. CASE HomeSubscribes
  BY <1>4 DEF HomeSubscribes
<1>5. CASE HomeRefuses
  BY <1>5 DEF HomeRefuses
<1>6. CASE ProbeOK
  BY <1>6 DEF ProbeOK
<1>7. CASE SetupFails
  BY <1>7 DEF SetupFails, EndLifetime
<1>8. CASE CancelLifetime
  BY <1>8 DEF CancelLifetime
<1>9. CASE Detach
  BY <1>9 DEF Detach
<1>10. CASE Retry
  BY <1>10 DEF Retry, CloseBeforeSettle
<1>11. CASE Settled
  BY <1>11 DEF Settled
<1>12. CASE Replace
  BY <1>12 DEF Replace
<1>13. CASE ReplacementFails
  BY <1>13 DEF ReplacementFails
<1>14. CASE Backoff
  BY <1>14 DEF Backoff
<1>15. CASE LastDrain
  BY <1>15 DEF LastDrain
<1>16. CASE LastFlush
  BY <1>16 DEF LastFlush
<1>17. CASE Flushed
  BY <1>17 DEF Flushed, CloseLast
<1>18. CASE LastFails
  BY <1>18 DEF LastFails, CloseLast
<1>19. CASE Deferred
  BY <1>19 DEF Deferred
<1>20. CASE ConfigMessage
  BY <1>20 DEF ConfigMessage, Receive
<1>21. CASE ReceiveFails
  BY <1>21 DEF ReceiveFails, EndLifetime
<1>22. CASE PushRelease
  BY <1>22 DEF PushRelease
<1>23. CASE Shutdown
  BY <1>23 DEF Shutdown
<1>24. CASE RunCancelled
  BY <1>24 DEF RunCancelled
<1>25. ASSUME NEW c \in Lifetimes, Stage(c) PROVE ControlInv'
  BY <1>25 DEF Stage
<1>26. ASSUME NEW c \in Lifetimes, CommitCheck(c) PROVE ControlInv'
  BY <1>26 DEF CommitCheck
<1>27. ASSUME NEW c \in Lifetimes, Commit(c) PROVE ControlInv'
  BY <1>27 DEF Commit
<1>28. ASSUME NEW c \in Lifetimes, ApplyRuntime(c) PROVE ControlInv'
  BY <1>28 DEF ApplyRuntime
<1>29. ASSUME NEW c \in Lifetimes, Finalize(c) PROVE ControlInv'
  <2>1. c = life /\ sup \in Published /\ sup \in Up
    BY <1>29 DEF Finalize
  <2>2. /\ UNCHANGED <<ctx, sup, life, reg, commits, queued, received, active, heartbeat>>
        /\ worker' = [worker EXCEPT ![c] = "idle"]
        /\ bundle' = bundle \/ bundle' = <<life, reg>>
    BY <1>29, <2>1 DEF Finalize
  <2>3. \A d \in Lifetimes : worker'[d] \in Working => d = life /\ sup \in Published
    BY <2>1, <2>2
  <2>4. \A d \in Lifetimes : /\ worker'[d] = "waiting" => worker[d] = "waiting"
                             /\ worker'[d] = "checked" => worker[d] = "checked"
    BY <2>2
  <2> QED
    BY <2>1, <2>2, <2>3, <2>4
<1>30. ASSUME NEW c \in Lifetimes, CloseOnCancellation(c) PROVE ControlInv'
  BY <1>30 DEF CloseOnCancellation
<1>31. ASSUME NEW c \in Lifetimes, WorkerLeaves(c) PROVE ControlInv'
  BY <1>31 DEF WorkerLeaves
<1>32. ASSUME NEW c \in Lifetimes, WorkerFails(c) PROVE ControlInv'
  BY <1>32 DEF WorkerFails
<1>33. ASSUME NEW i \in Requests, LoadBundle(i) PROVE ControlInv'
  BY <1>33 DEF LoadBundle
<1>34. ASSUME NEW i \in Requests, BeginDispatch(i) \/ Issue(i) \/ HomeGrants(i) \/ HomeDenies(i) \/ PendingEnd(i) \/ ReplyLost(i) \/ Install(i) \/ ScopeEnd(i) PROVE ControlInv'
  <2>1. UNCHANGED <<reqFrame, clientVars>>
    BY <1>34 DEF BeginDispatch, Issue, HomeGrants, HomeDenies, PendingEnd, ReplyLost, Install, ScopeEnd
  <2> QED
    BY <2>1
<1>35. ASSUME NEW i \in Requests, Abort(i) PROVE ControlInv'
  <2>1. req[i].c \in Lifetimes /\ \A c \in Lifetimes : heartbeat'[c] => heartbeat[c]
    BY <1>35, BusyRequest DEF Abort, Aborting, Dispatch
  <2>2. UNCHANGED reqFrame
    BY <1>35 DEF Abort
  <2> QED
    BY <2>1, <2>2
<1>36. CASE UNCHANGED vars
  BY <1>36 DEF vars
<1> QED
  BY <1>1, <1>2, <1>3, <1>4, <1>5, <1>6, <1>7, <1>8, <1>9, <1>10, <1>11, <1>12, <1>13, <1>14, <1>15, <1>16, <1>17, <1>18, <1>19, <1>20, <1>21, <1>22, <1>23, <1>24, <1>25, <1>26, <1>27, <1>28, <1>29, <1>30, <1>31, <1>32, <1>33, <1>34, <1>35, <1>36 DEF Next, Supervise, Work, Dispatch

-----------------------------------------------------------------------------
(* Requests and registries.                                                 *)
LEMMA Sets ==
  /\ Pending = {"pending", "issued", "granted", "unknown", "fencing", "settled"}
  /\ Installed = {"live", "invalid", "marked", "fenced"}
  /\ Flight = {"issued", "granted", "unknown", "fencing"}
  /\ \A p \in Flight : p \in Pending
  BY DEF Pending, Installed, Flight

LEMMA DispatchKeepsRequests ==
  ASSUME TypeOK, ControlInv, RequestInv, NEW i \in Requests, Dispatch(i)
  PROVE  RequestInv'
<1>0. PlainTyped /\ RequestTyped
  BY TypeParts
<1>1. PICK to \in RequestPC : Moves(i, to) /\ req[i].pc # "idle" /\ to # "idle"
  BY RequestMoves
<1>2. req[i].c \in Lifetimes /\ req[i].r \in Registries /\ req[i] \in RequestRec
  BY BusyRequest
<1>3. UNCHANGED <<reqFrame, draining>>
  BY DEF Dispatch, BeginDispatch, Issue, HomeGrants, HomeDenies, ReplyLost, Install, Abort, PendingEnd, ScopeEnd
<1>4. \A r \in Registries : r # req[i].r => ended'[r] = ended[r]
  BY <1>0 DEF Dispatch, BeginDispatch, Issue, HomeGrants, HomeDenies, ReplyLost, Install, Abort, PendingEnd, ScopeEnd, PlainTyped
<1>b. \A r \in Registries : r > reg => ended'[r] = 0
  BY <1>0, <1>2, <1>4 DEF RequestInv, RequestOK, PlainTyped, Registries
<1>c. life \in Lifetimes \/ sup # "receive"
  BY <1>0, BoundsInt DEF ControlInv, InLife, Up, PlainTyped, Registries, Lifetimes
<1>5. CASE Abort(i)
  <2>1. /\ \A c \in Lifetimes : (fenced[c] => fenced'[c]) /\ (ambiguous[c] => ambiguous'[c])
        /\ \A c \in Lifetimes : heartbeat'[c] = heartbeat[c] \/ (c = req[i].c /\ req[i].pc \in {"fencing", "marked"})
    BY <1>0, <1>2, <1>5 DEF Abort, Aborting, PlainTyped, ReqStep
  <2>2. \/ req[i].pc = "unknown" /\ to = "fencing" /\ ambiguous'[req[i].c]
        \/ req[i].pc = "invalid" /\ to = "marked" /\ ambiguous'[req[i].c]
        \/ req[i].pc = "fencing" /\ to = "settled" /\ fenced'[req[i].c]
        \/ req[i].pc = "marked" /\ to = "fenced" /\ fenced'[req[i].c]
    <3> USE <1>0, <1>1, <1>2 DEF PlainTyped, Moves, Aborting, ReqStep
    <3>1. CASE Aborting(i, "unknown", "fencing", "settled")
      BY <3>1, StepMoves DEF RequestPC, Pending, Installed
    <3>2. CASE Aborting(i, "invalid", "marked", "fenced")
      BY <3>2, StepMoves DEF RequestPC, Pending, Installed
    <3> QED
      BY <1>5, <3>1, <3>2 DEF Abort
  <2>3. RequestOK(req[i]) /\ RequestOK(req[i])'
    BY <1>1, <1>2, <1>3, <2>1, <2>2, Sets DEF RequestInv, RequestOK, Past, Moves, reqFrame
  <2>4. \A j \in Requests : RequestOK(req[j])'
    BY <1>0, <1>1, <1>3, <2>1, <2>3, BoundsInt DEF RequestInv, RequestOK, Past, Moves, reqFrame, RequestTyped, RequestRec, Lifetimes
  <2>5. sup = "receive" /\ ~heartbeat'[life] => ambiguous'[life] \/ ctx # "live"
    <3>1. req[i].pc \in {"fencing", "marked"} => ambiguous[req[i].c]
      BY DEF RequestInv, RequestOK
    <3> QED
      BY <1>c, <2>1, <3>1 DEF RequestInv
  <2>6. sup = "settle" => fenced'[life]
    BY <1>0, <2>1, BoundsInt DEF RequestInv, ControlInv, InLife, Registries, PlainTyped, Lifetimes
  <2> QED
    BY <1>3, <1>b, <2>4, <2>5, <2>6 DEF RequestInv, reqFrame
<1>6. CASE ~Abort(i)
  <2>1. UNCHANGED clientVars
    BY <1>6 DEF Dispatch, BeginDispatch, Issue, HomeGrants, HomeDenies, ReplyLost, Install, PendingEnd, ScopeEnd
  <2>2. \/ req[i].pc = "loaded" /\ (to = "over" \/ (to = "pending" /\ ~draining[req[i].r]))
        \/ req[i].pc = "pending" /\ (to = "settled" \/ (to = "issued" /\ ~fenced[req[i].c]))
        \/ req[i].pc \in {"issued", "granted"} /\ to \in {"granted", "settled", "unknown", "live", "invalid"}
        \/ to = "over"
    <3> USE StepMoves, <1>1 DEF Moves, RequestPC, Pending, Installed
    <3>1. CASE BeginDispatch(i)
      BY <3>1 DEF BeginDispatch
    <3>2. CASE Issue(i)
      BY <3>2 DEF Issue
    <3>3. CASE HomeGrants(i) \/ HomeDenies(i) \/ PendingEnd(i)
      BY <3>3 DEF HomeGrants, HomeDenies, PendingEnd
    <3>4. CASE ReplyLost(i)
      BY <3>4, MovesOne DEF ReplyLost
    <3>5. CASE Install(i)
      BY <3>5, MovesOne DEF Install
    <3>6. CASE ScopeEnd(i)
      BY <3>6 DEF ScopeEnd
    <3> QED
      BY <1>6, <3>1, <3>2, <3>3, <3>4, <3>5, <3>6 DEF Dispatch
  <2>3. RequestOK(req[i]) /\ RequestOK(req[i])'
    <3>1. ~draining[req[i].r] => req[i].r >= reg
      BY <1>0, <1>2 DEF RequestInv, PlainTyped, Registries
    <3>2. RequestOK(req[i]) /\ req[i].c \in Nat /\ req[i].r \in Nat
      BY <1>2, BoundsInt DEF RequestInv, Lifetimes, Registries
    <3>3. life' = life /\ reg' = reg /\ sup' = sup
      BY <1>3 DEF reqFrame
    <3>4. reg \in Nat
      BY <1>0 DEF PlainTyped, Registries
    <3> QED
      BY <1>1, <2>1, <2>2, <3>1, <3>2, <3>3, <3>4, Sets DEF RequestOK, Past, Moves, clientVars
  <2>4. \A j \in Requests : RequestOK(req[j])'
    BY <1>0, <1>1, <1>3, <2>1, <2>3 DEF RequestInv, RequestOK, Past, Moves, reqFrame, clientVars
  <2> QED
    BY <1>3, <1>b, <2>1, <2>4 DEF RequestInv, reqFrame, clientVars
<1> QED
  BY <1>5, <1>6

LEMMA RequestStep == ASSUME TypeOK, ControlInv, RequestInv, EndInv, [Next]_vars PROVE RequestInv'
<1> USE BoundsInt
<1>0. PlainTyped /\ RequestTyped
  BY TypeParts
<1> USE <1>0 DEF PlainTyped, RequestTyped
<1> USE DEF ControlInv, RequestInv, RequestOK, RequestRec, RequestPC, Past, Pending, Installed, Flight, PendingIn, InstalledIn, Drained, InLife, Up, SetUp, Between, Published, Lifetimes, Registries, clientVars, flushVars, workVars, reqFrame, CancelRun, WorkerStep, LifetimeActive
<1>1. CASE StartLifetime
  BY <1>1 DEF StartLifetime
<1>2. CASE LeaveLoop
  BY <1>2 DEF LeaveLoop
<1>3. CASE GotConfig
  BY <1>3 DEF GotConfig, Receive
<1>4. CASE HomeSubscribes
  BY <1>4 DEF HomeSubscribes
<1>5. CASE HomeRefuses
  BY <1>5 DEF HomeRefuses
<1>6. CASE ProbeOK
  BY <1>6 DEF ProbeOK
<1>7. CASE SetupFails
  BY <1>7 DEF SetupFails, EndLifetime
<1>8. CASE CancelLifetime
  BY <1>8 DEF CancelLifetime
<1>9. CASE Detach
  BY <1>9 DEF Detach
<1>10. CASE Retry
  BY <1>10 DEF Retry, CloseBeforeSettle
<1>11. CASE Settled
  <2>1. \A i \in Requests : req[i].pc \notin Pending
    BY <1>11 DEF Settled, SettleAll
  <2>2. UNCHANGED <<req, life, reg, fenced, ambiguous, heartbeat, ended, ctx>> /\ sup = "settle"
        /\ sup' \in {"drain", "backoff"}
    BY <1>11 DEF Settled
  <2>3. draining' = draining \/ draining' = [draining EXCEPT ![reg] = TRUE]
    BY <1>11 DEF Settled
  <2>4. \A i \in Requests : req[i].pc # "idle" => fenced[req[i].c]
    BY <2>2, SMTT(30)
  <2>5. \A i \in Requests : RequestOK(req[i])'
    BY <2>1, <2>2, <2>4
  <2>6. \A r \in Registries : (r < reg' => draining'[r]) /\ (r > reg' => ended'[r] = 0)
    BY <2>2, <2>3
  <2> HIDE DEF RequestOK
  <2> QED
    BY <2>2, <2>5, <2>6
<1>12. CASE Replace
  <2>1. \A i \in Requests : req[i].pc \notin Pending \cup Installed
    BY <1>12 DEF Replace
  <2>6. \A i \in Requests : req[i].c \in Nat /\ req[i].r \in Nat
    OBVIOUS
  <2>2. UNCHANGED <<req, life, fenced, ambiguous, ended, draining>> /\ sup = "drain" /\ sup' = "backoff" /\ reg' = reg + 1
    BY <1>12 DEF Replace
  <2>3. \A i \in Requests : RequestOK(req[i])'
    BY <2>1, <2>2, <2>6
  <2>4. draining[reg]
    BY <2>2 DEF EndInv
  <2>5. \A r \in Registries : (r < reg' => draining'[r]) /\ (r > reg' => ended'[r] = 0)
    BY <2>2, <2>4, SMTT(30)
  <2> HIDE DEF RequestOK
  <2> QED
    BY <2>2, <2>3, <2>5
<1>13. CASE ReplacementFails
  BY <1>13 DEF ReplacementFails
<1>14. CASE Backoff
  BY <1>14 DEF Backoff
<1>15. CASE LastDrain
  BY <1>15 DEF LastDrain
<1>16. CASE LastFlush
  BY <1>16 DEF LastFlush
<1>17. CASE Flushed
  BY <1>17, SMTT(30) DEF Flushed, CloseLast
<1>18. CASE LastFails
  BY <1>18, SMTT(30) DEF LastFails, CloseLast
<1>19. CASE Deferred
  BY <1>19 DEF Deferred
<1>20. CASE ConfigMessage
  BY <1>20 DEF ConfigMessage, Receive
<1>21. CASE ReceiveFails
  BY <1>21 DEF ReceiveFails, EndLifetime
<1>22. CASE PushRelease
  BY <1>22 DEF PushRelease
<1>23. CASE Shutdown
  BY <1>23 DEF Shutdown
<1>24. CASE RunCancelled
  BY <1>24 DEF RunCancelled
<1>25. ASSUME NEW c \in Lifetimes, Stage(c) PROVE RequestInv'
  BY <1>25 DEF Stage
<1>26. ASSUME NEW c \in Lifetimes, CommitCheck(c) PROVE RequestInv'
  BY <1>26 DEF CommitCheck
<1>27. ASSUME NEW c \in Lifetimes, Commit(c) PROVE RequestInv'
  BY <1>27 DEF Commit
<1>28. ASSUME NEW c \in Lifetimes, ApplyRuntime(c) PROVE RequestInv'
  BY <1>28 DEF ApplyRuntime
<1>29. ASSUME NEW c \in Lifetimes, Finalize(c) PROVE RequestInv'
  BY <1>29 DEF Finalize
<1>30. ASSUME NEW c \in Lifetimes, CloseOnCancellation(c) PROVE RequestInv'
  <2>1. UNCHANGED <<req, life, reg, sup, ctx, ambiguous, ended, draining, active>>
    BY <1>30 DEF CloseOnCancellation
  <2>2. \A d \in Lifetimes : fenced[d] => fenced'[d]
    BY <1>30 DEF CloseOnCancellation
  <2>3. \A d \in Lifetimes : heartbeat'[d] = heartbeat[d] \/ (d = c /\ ~LifetimeActive(c))
    BY <1>30 DEF CloseOnCancellation
  <2>4. sup = "receive" => active[life]
    BY <2>1
  <2>5. \A i \in Requests : RequestOK(req[i])'
    BY <2>1, <2>2, SMTT(30)
  <2>6. sup' = "receive" /\ ~heartbeat'[life'] => ambiguous'[life'] \/ ctx' # "live"
    <3>1. CASE heartbeat'[life] = heartbeat[life]
      BY <2>1, <3>1
    <3>2. CASE life = c /\ ~LifetimeActive(c)
      BY <2>1, <2>4, <3>2
    <3>3. life \in Lifetimes \/ sup # "receive"
      OBVIOUS
    <3> QED
      BY <2>1, <2>3, <3>1, <3>2, <3>3
  <2> HIDE DEF RequestOK
  <2> QED
    BY <2>1, <2>2, <2>5, <2>6
<1>31. ASSUME NEW c \in Lifetimes, WorkerLeaves(c) PROVE RequestInv'
  BY <1>31 DEF WorkerLeaves
<1>32. ASSUME NEW c \in Lifetimes, WorkerFails(c) PROVE RequestInv'
  BY <1>32 DEF WorkerFails
<1>33. ASSUME NEW i \in Requests, LoadBundle(i) PROVE RequestInv'
  <2>1. bundle = <<life, reg>> /\ heartbeat[life] /\ sup = "receive"
    BY <1>33 DEF LoadBundle, BundleReady
  <2>a. PICK s : s = [pc |-> "loaded", c |-> life, r |-> reg]
    OBVIOUS
  <2>2. req' = [req EXCEPT ![i] = s] /\ s.pc = "loaded" /\ s.c = life /\ s.r = reg
    BY <1>33, <2>a, <2>1 DEF LoadBundle
  <2>3. UNCHANGED <<reqFrame, clientVars, draining, latest, acked, ended, home>>
    BY <1>33 DEF LoadBundle
  <2>4. RequestOK(s)'
    BY <2>1, <2>2, <2>3
  <2>5. \A j \in Requests : req'[j] = req[j] \/ req'[j] = s
    BY <2>2
  <2>6. \A j \in Requests : RequestOK(req[j])'
    <3> SUFFICES ASSUME NEW j \in Requests PROVE RequestOK(req[j])'
      OBVIOUS
    <3>1. CASE req'[j] = s
      BY <2>4, <3>1
    <3>2. CASE req'[j] = req[j]
      <4>1. RequestOK(req[j])
        OBVIOUS
      <4> HIDE DEF RequestInv, ControlInv, PlainTyped, RequestTyped
      <4> QED
        BY <2>3, <3>2, <4>1
    <3> QED
      BY <2>5, <3>1, <3>2
  <2> HIDE DEF RequestOK
  <2> QED
    BY <2>1, <2>3, <2>6
<1>34. ASSUME NEW i \in Requests, Dispatch(i) PROVE RequestInv'
  BY <1>34, DispatchKeepsRequests
<1>35. CASE UNCHANGED vars
  BY <1>35 DEF vars
<1> QED
  BY <1>1, <1>2, <1>3, <1>4, <1>5, <1>6, <1>7, <1>8, <1>9, <1>10, <1>11, <1>12, <1>13, <1>14, <1>15, <1>16, <1>17, <1>18, <1>19, <1>20, <1>21, <1>22, <1>23, <1>24, <1>25, <1>26, <1>27, <1>28, <1>29, <1>30, <1>31, <1>32, <1>33, <1>34, <1>35 DEF Next, Supervise, Work

-----------------------------------------------------------------------------
(* What the supervisor, the workers and others leave alone.                 *)
LEMMA OthersLeave ==
  ASSUME TypeOK, [Next]_vars
  PROVE  \/ \E i \in Requests : LoadBundle(i) \/ Dispatch(i)
         \/ Replace \/ PushRelease
         \/ UNCHANGED <<req, ended, reg, latest, acked>>
<1> USE DEF flushVars, reqFrame, workVars, clientVars
<1>1. CASE Supervise
  BY <1>1 DEF Supervise, StartLifetime, LeaveLoop, GotConfig, Receive, HomeSubscribes, HomeRefuses, ProbeOK, SetupFails, EndLifetime, CancelLifetime, Detach, Retry, CloseBeforeSettle, Settled, ReplacementFails, Backoff, LastDrain, LastFlush, Flushed, CloseLast, LastFails, Deferred
<1>2. CASE ConfigMessage \/ ReceiveFails \/ Shutdown \/ RunCancelled \/ UNCHANGED vars
  BY <1>2 DEF ConfigMessage, ReceiveFails, EndLifetime, Shutdown, RunCancelled, vars
<1>3. ASSUME NEW c \in Lifetimes, Work(c) \/ WorkerFails(c)
      PROVE  UNCHANGED <<req, ended, reg, latest, acked>>
  BY <1>3 DEF Work, Stage, CommitCheck, Commit, ApplyRuntime, Finalize, CloseOnCancellation, WorkerLeaves, WorkerFails
<1> QED
  BY <1>1, <1>2, <1>3 DEF Next

LEMMA UnusedStays ==
  ASSUME TypeOK, ControlInv, RequestInv, Unused, [Next]_vars, sup # "receive", ~Replace
  PROVE  Unused'
<1> USE DEF Unused, reqFrame
<1>1. CASE UNCHANGED <<req, ended, reg, latest, acked>>
  BY <1>1
<1>2. CASE PushRelease
  BY <1>2 DEF PushRelease
<1>3. ASSUME NEW i \in Requests, LoadBundle(i) PROVE FALSE
  <2>1. bundle # None /\ heartbeat[bundle[1]]
    BY <1>3 DEF LoadBundle, BundleReady
  <2>2. bundle[1] \in Lifetimes
    BY <2>1, TypeParts DEF PlainTyped
  <2> QED
    BY <2>1, <2>2 DEF ControlInv
<1>4. ASSUME NEW i \in Requests, Dispatch(i) PROVE Unused'
  <2>1. PICK to \in RequestPC : Moves(i, to)
    BY <1>4, RequestMoves
  <2>2. \A j \in Requests : req'[j].r = req[j].r
    BY <2>1 DEF Moves
  <2>3. reg' = reg /\ acked' = acked
    BY <1>4 DEF Dispatch, BeginDispatch, Issue, HomeGrants, HomeDenies, ReplyLost, Install, Abort, PendingEnd, ScopeEnd
  <2>4. CASE ScopeEnd(i)
    <3>1. req[i].r # reg
      OBVIOUS
    <3> QED
      BY <2>2, <2>3, <2>4, <3>1, BusyRequest, TypeParts DEF ScopeEnd, SinkAttached, PlainTyped, Dispatch
  <2>5. CASE ~ScopeEnd(i)
    <3>1. UNCHANGED <<latest, ended>>
      BY <1>4, <2>5 DEF Dispatch, BeginDispatch, Issue, HomeGrants, HomeDenies, ReplyLost, Install, Abort, PendingEnd
    <3> QED
      BY <2>2, <2>3, <3>1
  <2> QED
    BY <2>4, <2>5
<1> QED
  BY <1>1, <1>2, <1>3, <1>4, OthersLeave

(* A replaced registry was empty, and nobody has used the next one.          *)
LEMMA ReplaceUnused ==
  ASSUME TypeOK, ControlInv, RequestInv, Replace
  PROVE  Unused' /\ ~Takeover' /\ Occupying = {} /\ req' = req
<1>0. reg <= life /\ life \in 0..MaxLifetimes /\ reg \in Registries
  BY TypeParts DEF Replace, PlainTyped, ControlInv, InLife
<1>1. reg' = reg + 1 /\ req' = req /\ ended' = ended /\ latest' = 0 /\ acked' = 0 /\ reg \in Nat /\ reg + 1 \in Registries
  BY <1>0, BoundsInt DEF Replace, FreshFlusher, Registries
<1>2. \A i \in Requests : req[i].r <= reg /\ req[i].r \in Nat
  BY TypeParts DEF RequestInv, RequestOK, RequestTyped, RequestRec, Registries
<1>3. Unused'
  BY <1>1, <1>2 DEF Unused, RequestInv
<1>4. ~Takeover'
  BY TypeParts DEF Replace, FreshNext, Takeover, Suppressed, PlainTyped
<1>5. Occupying = {}
  BY Sets DEF Replace, Drained, PendingIn, InstalledIn, Occupying, RequestInv, RequestOK
<1> QED
  BY <1>1, <1>3, <1>4, <1>5

LEMMA FreshStep ==
  ASSUME TypeOK, ControlInv, RequestInv, FreshInv, [Next]_vars
  PROVE  FreshInv'
<1> USE BoundsInt
<1>a. PlainTyped
  BY TypeParts
<1>b. Unused /\ sup \notin {"receive", "drain"} => Unused'
  BY UnusedStays DEF Replace
<1>c. sup \in Up \cup {"join", "detached", "settle"} => life \in Lifetimes
  BY <1>a DEF PlainTyped, ControlInv, InLife, Up, SetUp, Registries, Lifetimes
<1> USE <1>a, <1>b, <1>c DEF PlainTyped, FreshInv, Takeover, Eager, SetUp, Between, Up, clientVars, carryVars, flushVars, workVars, reqFrame, Switched, Eligible, Suppressed
<1>1. CASE StartLifetime
  BY <1>1 DEF StartLifetime
<1>2. CASE LeaveLoop
  BY <1>2 DEF LeaveLoop
<1>3. CASE GotConfig
  BY <1>3 DEF GotConfig, Receive
<1>4. CASE HomeSubscribes
  <2>1. CASE sup' = "acked"
    BY <1>4, <2>1 DEF HomeSubscribes
  <2>2. CASE sup' = "over"
    BY <1>4, <2>2 DEF HomeSubscribes
  <2> QED
    BY <1>4, <2>1, <2>2 DEF HomeSubscribes
<1>5. CASE HomeRefuses
  BY <1>5 DEF HomeRefuses
<1>6. CASE ProbeOK
  BY <1>6 DEF ProbeOK
<1>7. CASE SetupFails
  BY <1>7 DEF SetupFails, EndLifetime
<1>8. CASE CancelLifetime
  BY <1>8 DEF CancelLifetime
<1>9. CASE Detach
  BY <1>9 DEF Detach
<1>10. CASE Retry
  BY <1>10 DEF Retry, CloseBeforeSettle
<1>11. CASE Settled
  <2>1. sup' = "backoff" => ~Unsafe /\ ~legacy' /\ recovery' = recovery
    BY <1>11 DEF Settled, Unsafe, UnsafeNoAmbiguity
  <2> QED
    BY <1>11, <2>1 DEF Settled, Unsafe, UnsafeNoAmbiguity
<1>12. CASE Replace
  BY <1>12, ReplaceUnused DEF Replace
<1>13. CASE ReplacementFails
  BY <1>13 DEF ReplacementFails
<1>14. CASE Backoff
  BY <1>14 DEF Backoff
<1>15. CASE LastDrain
  BY <1>15 DEF LastDrain
<1>16. CASE LastFlush
  BY <1>16 DEF LastFlush
<1>17. CASE Flushed
  BY <1>17 DEF Flushed, CloseLast
<1>18. CASE LastFails
  BY <1>18 DEF LastFails, CloseLast
<1>19. CASE Deferred
  BY <1>19 DEF Deferred
<1>20. CASE ConfigMessage
  BY <1>20 DEF ConfigMessage, Receive
<1>21. CASE ReceiveFails
  <2>1. sup = "receive" /\ sup' = "over" /\ UNCHANGED <<legacy, ambiguous, life, ctx>>
    BY <1>21 DEF ReceiveFails, EndLifetime
  <2>2. ctx = "live" => heartbeat[life] \/ ambiguous[life]
    BY <2>1 DEF RequestInv
  <2>3. ctx = "live" /\ heartbeat[life] => Eager'
    BY <1>21 DEF ReceiveFails, AfterReceiveError
  <2> QED
    BY <2>1, <2>2, <2>3
<1>22. CASE PushRelease
  BY <1>22 DEF PushRelease
<1>23. CASE Shutdown
  BY <1>23 DEF Shutdown
<1>24. CASE RunCancelled
  BY <1>24 DEF RunCancelled
<1>25. ASSUME NEW c \in Lifetimes, Stage(c) PROVE FreshInv'
  BY <1>25 DEF Stage
<1>26. ASSUME NEW c \in Lifetimes, CommitCheck(c) PROVE FreshInv'
  BY <1>26 DEF CommitCheck
<1>27. ASSUME NEW c \in Lifetimes, Commit(c) PROVE FreshInv'
  BY <1>27 DEF Commit
<1>28. ASSUME NEW c \in Lifetimes, ApplyRuntime(c) PROVE FreshInv'
  BY <1>28 DEF ApplyRuntime
<1>29. ASSUME NEW c \in Lifetimes, Finalize(c) PROVE FreshInv'
  BY <1>29 DEF Finalize
<1>30. ASSUME NEW c \in Lifetimes, CloseOnCancellation(c) PROVE FreshInv'
  BY <1>30 DEF CloseOnCancellation
<1>31. ASSUME NEW c \in Lifetimes, WorkerLeaves(c) PROVE FreshInv'
  BY <1>31 DEF WorkerLeaves
<1>32. ASSUME NEW c \in Lifetimes, WorkerFails(c) PROVE FreshInv'
  BY <1>32 DEF WorkerFails, CancelRun
<1>33. ASSUME NEW i \in Requests, LoadBundle(i) PROVE FreshInv'
  BY <1>33 DEF LoadBundle
<1>34. ASSUME NEW i \in Requests, Dispatch(i) PROVE FreshInv'
  <2>1. UNCHANGED reqFrame /\ \A c \in Lifetimes : ambiguous[c] => ambiguous'[c]
    BY <1>34, BusyRequest DEF Dispatch, BeginDispatch, Issue, HomeGrants, HomeDenies, ReplyLost, Install, Abort, Aborting, PendingEnd, ScopeEnd
  <2> QED
    BY <2>1
<1>35. CASE UNCHANGED vars
  BY <1>35 DEF vars
<1> QED
  BY <1>1, <1>2, <1>3, <1>4, <1>5, <1>6, <1>7, <1>8, <1>9, <1>10, <1>11, <1>12, <1>13, <1>14, <1>15, <1>16, <1>17, <1>18, <1>19, <1>20, <1>21, <1>22, <1>23, <1>24, <1>25, <1>26, <1>27, <1>28, <1>29, <1>30, <1>31, <1>32, <1>33, <1>34, <1>35 DEF Next, Supervise, Work

(* The end: a registry that drains and is empty stays empty.                 *)
LEMMA DrainedStays ==
  ASSUME TypeOK, Drained, draining[reg], [Next]_vars, reg' = reg
  PROVE  Drained'
<1> USE DEF Drained, PendingIn, InstalledIn
<1>1. CASE req' = req
  BY <1>1
<1>2. ASSUME NEW i \in Requests, Dispatch(i) PROVE Drained'
  <2>1. PICK to \in RequestPC : Moves(i, to) /\ req[i].pc # "idle"
    BY <1>2, RequestMoves
  <2>2. CASE req[i].r # reg
    BY <2>1, <2>2 DEF Moves
  <2>3. CASE req[i].r = reg
    <3>1. req[i].pc \notin Pending \cup Installed
      BY <2>3
    <3>2. to = "over"
      <4>1. BeginDispatch(i)
        <5>1. ~Issue(i) /\ ~HomeGrants(i) /\ ~HomeDenies(i) /\ ~ReplyLost(i) /\ ~Install(i)
          BY <3>1, Sets DEF Issue, HomeGrants, HomeDenies, ReplyLost, Install, ReqStep
        <5>2. ~Abort(i) /\ ~PendingEnd(i) /\ ~ScopeEnd(i)
          BY <3>1, Sets DEF Abort, Aborting, PendingEnd, ScopeEnd, ReqStep
        <5> QED
          BY <1>2, <5>1, <5>2 DEF Dispatch
      <4>2. ReqStep(i, "loaded", "over")
        BY <2>3, <4>1 DEF BeginDispatch
      <4>3. Moves(i, "over")
        BY <4>2, StepMoves DEF RequestPC
      <4> QED
        BY <2>1, <4>3 DEF Moves
    <3> QED
      BY <2>1, <3>2 DEF Moves, Pending, Installed
  <2> QED
    BY <2>2, <2>3
<1>3. ASSUME NEW i \in Requests, LoadBundle(i) PROVE Drained'
  <2>1. PICK s : s = [pc |-> "loaded", c |-> bundle[1], r |-> bundle[2]]
    OBVIOUS
  <2>2. req' = [req EXCEPT ![i] = s] /\ s.pc = "loaded"
    BY <1>3, <2>1 DEF LoadBundle
  <2> QED
    BY <2>2, TypeParts DEF RequestTyped, Pending, Installed
<1>4. Replace \/ PushRelease => req' = req
  BY DEF Replace, PushRelease
<1> QED
  BY <1>1, <1>2, <1>3, <1>4, OthersLeave

LEMMA EndStep ==
  ASSUME TypeOK, ControlInv, EndInv, [Next]_vars
  PROVE  EndInv'
<1>a. PlainTyped
  BY TypeParts
<1>b. Drained /\ draining[reg] /\ reg' = reg => Drained'
  BY DrainedStays
<1>c. Drained /\ UNCHANGED <<req, reg>> => Drained'
  BY DEF Drained, PendingIn, InstalledIn
<1> USE <1>a, <1>b, <1>c DEF PlainTyped, EndInv, clientVars, carryVars, flushVars, workVars, reqFrame, CancelRun
<1>1. CASE StartLifetime
  BY <1>1 DEF StartLifetime
<1>2. CASE LeaveLoop
  BY <1>2 DEF LeaveLoop
<1>3. CASE GotConfig
  BY <1>3 DEF GotConfig, Receive
<1>4. CASE HomeSubscribes
  BY <1>4 DEF HomeSubscribes
<1>5. CASE HomeRefuses
  BY <1>5 DEF HomeRefuses
<1>6. CASE ProbeOK
  BY <1>6 DEF ProbeOK
<1>7. CASE SetupFails
  BY <1>7 DEF SetupFails, EndLifetime
<1>8. CASE CancelLifetime
  BY <1>8 DEF CancelLifetime
<1>9. CASE Detach
  BY <1>9 DEF Detach
<1>10. CASE Retry
  BY <1>10 DEF Retry, CloseBeforeSettle
<1>11. CASE Settled
  BY <1>11 DEF Settled
<1>12. CASE Replace
  BY <1>12 DEF Replace, FreshFlusher
<1>13. CASE ReplacementFails
  BY <1>13 DEF ReplacementFails
<1>14. CASE Backoff
  BY <1>14 DEF Backoff
<1>15. CASE LastDrain
  BY <1>15 DEF LastDrain
<1>16. CASE LastFlush
  BY <1>16 DEF LastFlush, DrainFirst
<1>17. CASE Flushed
  BY <1>17 DEF Flushed, CloseLast
<1>18. CASE LastFails
  BY <1>18 DEF LastFails, CloseLast
<1>19. CASE Deferred
  BY <1>19 DEF Deferred
<1>20. CASE ConfigMessage
  BY <1>20 DEF ConfigMessage, Receive
<1>21. CASE ReceiveFails
  BY <1>21 DEF ReceiveFails, EndLifetime
<1>22. CASE PushRelease
  BY <1>22 DEF PushRelease
<1>23. CASE Shutdown
  BY <1>23 DEF Shutdown
<1>24. CASE RunCancelled
  BY <1>24 DEF RunCancelled
<1>25. ASSUME NEW c \in Lifetimes, Stage(c) PROVE EndInv'
  BY <1>25 DEF Stage
<1>26. ASSUME NEW c \in Lifetimes, CommitCheck(c) PROVE EndInv'
  BY <1>26 DEF CommitCheck
<1>27. ASSUME NEW c \in Lifetimes, Commit(c) PROVE EndInv'
  BY <1>27 DEF Commit
<1>28. ASSUME NEW c \in Lifetimes, ApplyRuntime(c) PROVE EndInv'
  BY <1>28 DEF ApplyRuntime
<1>29. ASSUME NEW c \in Lifetimes, Finalize(c) PROVE EndInv'
  BY <1>29 DEF Finalize
<1>30. ASSUME NEW c \in Lifetimes, CloseOnCancellation(c) PROVE EndInv'
  BY <1>30 DEF CloseOnCancellation
<1>31. ASSUME NEW c \in Lifetimes, WorkerLeaves(c) PROVE EndInv'
  BY <1>31 DEF WorkerLeaves
<1>32. ASSUME NEW c \in Lifetimes, WorkerFails(c) PROVE EndInv'
  BY <1>32 DEF WorkerFails
<1>33. ASSUME NEW i \in Requests, LoadBundle(i) PROVE EndInv'
  BY <1>33 DEF LoadBundle
<1>34. ASSUME NEW i \in Requests, Dispatch(i) PROVE EndInv'
  <2>1. UNCHANGED <<reqFrame, draining>>
    BY <1>34 DEF Dispatch, BeginDispatch, Issue, HomeGrants, HomeDenies, ReplyLost, Install, Abort, PendingEnd, ScopeEnd
  <2> QED
    BY <2>1
<1>35. CASE UNCHANGED vars
  BY <1>35 DEF vars
<1> QED
  BY <1>1, <1>2, <1>3, <1>4, <1>5, <1>6, <1>7, <1>8, <1>9, <1>10, <1>11, <1>12, <1>13, <1>14, <1>15, <1>16, <1>17, <1>18, <1>19, <1>20, <1>21, <1>22, <1>23, <1>24, <1>25, <1>26, <1>27, <1>28, <1>29, <1>30, <1>31, <1>32, <1>33, <1>34, <1>35 DEF Next, Supervise, Work

-----------------------------------------------------------------------------
(* Counting.                                                                *)
LEMMA OccupyingFinite ==
  /\ IsFiniteSet(Occupying) /\ Cardinality(Occupying) \in Nat
  /\ \A i \in Occupying : Cardinality(Occupying \ {i}) = Cardinality(Occupying) - 1
  /\ \A i \in Requests \ Occupying : Cardinality(Occupying \cup {i}) = Cardinality(Occupying) + 1
<1>1. IsFiniteSet(Occupying)
  BY BoundsAssumption, FS_Subset DEF Occupying
<1>2. Cardinality(Occupying) \in Nat
  BY <1>1, FS_CardinalityType
<1> QED
  BY <1>1, <1>2, FS_AddElement, FS_RemoveElement

(* What a step of a request does to the slots that are taken, and to the     *)
(* counts kept on both sides.                                                *)
Slots == <<ended, latest, acked, home>>
Grants(i) == /\ req[i].pc = "issued" /\ i \notin Occupying
             /\ Occupying' = Occupying \cup {i}
             /\ home'.granted = home.granted + 1
             /\ home'.released = home.released /\ home'.lost = home.lost
             /\ UNCHANGED <<ended, latest, acked>>
Loses(i) == /\ i \in Occupying /\ Occupying' = Occupying \ {i}
            /\ home'.granted = home.granted /\ home'.released = home.released
            /\ home'.lost = home.lost + 1
            /\ req[i].pc = "granted" /\ req'[i].pc = "unknown" /\ req'[i].c = req[i].c
            /\ UNCHANGED <<ended, latest, acked>>
Ends(i) == /\ i \in Occupying /\ Occupying' = Occupying \ {i}
           /\ req[i].pc \in Installed
           /\ ended' = [ended EXCEPT ![req[i].r] = @ + 1]
           /\ latest' = IF SinkAttached(req[i].r) /\ ended[req[i].r] + 1 > latest
                         THEN ended[req[i].r] + 1 ELSE latest
           /\ UNCHANGED <<acked, home>>

LEMMA OccupyingMoves ==
  ASSUME NEW i \in Requests, NEW to, Moves(i, to)
  PROVE  /\ (i \in Occupying <=> req[i].pc \in Installed \cup {"granted"})
         /\ Occupying' = IF to \in Installed \cup {"granted"} THEN Occupying \cup {i}
                         ELSE Occupying \ {i}
  BY DEF Moves, Occupying

LEMMA DispatchCounts ==
  ASSUME TypeOK, NEW i \in Requests, Dispatch(i)
  PROVE  \/ Occupying' = Occupying /\ UNCHANGED Slots
         \/ Grants(i) \/ Loses(i) \/ Ends(i)
<1> USE StepMoves, MovesOne, OccupyingMoves, Sets DEF Slots, RequestPC
<1>0. home \in [granted : Nat, released : Nat, lost : Nat]
  BY TypeParts DEF PlainTyped
<1>1. CASE BeginDispatch(i) \/ Issue(i) \/ HomeDenies(i) \/ PendingEnd(i)
  BY <1>1 DEF BeginDispatch, Issue, HomeDenies, PendingEnd
<1>2. CASE HomeGrants(i)
  BY <1>0, <1>2 DEF HomeGrants, Grants
<1>3. CASE ReplyLost(i)
  <2>1. Moves(i, "unknown") /\ UNCHANGED <<ended, latest, acked>>
    BY <1>3 DEF ReplyLost
  <2>2. CASE req[i].pc = "granted"
    BY <1>0, <1>3, <2>1, <2>2, ZenonT(60) DEF ReplyLost, Loses, Moves
  <2>3. CASE req[i].pc = "issued"
    <3>1. home' = home
      BY <1>0, <1>3, <2>3 DEF ReplyLost
    <3> QED
      BY <2>1, <2>3, <3>1
  <2> QED
    BY <1>3, <2>2, <2>3 DEF ReplyLost
<1>4. CASE Install(i)
  <2>1. CASE draining[req[i].r]
    BY <1>0, <1>4, <2>1 DEF Install, Loses, Moves
  <2>2. CASE ~draining[req[i].r]
    <3>1. PICK pc \in {"live", "invalid"} : req' = [req EXCEPT ![i].pc = pc]
      BY <1>4, <2>2 DEF Install
    <3>2. Moves(i, pc) /\ pc \in Installed /\ req[i].pc = "granted"
      BY <1>4, <3>1 DEF Install
    <3>3. Occupying' = Occupying
      BY <3>2
    <3> QED
      BY <1>4, <2>2, <3>3 DEF Install
  <2> QED
    BY <2>1, <2>2
<1>5. CASE Abort(i)
  BY <1>5 DEF Abort, Aborting
<1>6. CASE ScopeEnd(i)
  BY <1>6 DEF ScopeEnd, Ends
<1> QED
  BY <1>1, <1>2, <1>3, <1>4, <1>5, <1>6 DEF Dispatch

(* A lost reply stays on its client, in an undecided request or a mark.      *)
LEMMA LostStays ==
  ASSUME TypeOK, ControlInv, RequestInv, NEW i \in Requests, Dispatch(i), LostHere,
         life \in Lifetimes
  PROVE  LostHere'
<1>1. life' = life /\ life \in 0..MaxLifetimes
  BY TypeParts DEF PlainTyped, Dispatch, BeginDispatch, Issue, HomeGrants, HomeDenies, ReplyLost, Install, Abort, PendingEnd, ScopeEnd, reqFrame
<1>2. PICK to \in RequestPC : Moves(i, to)
  BY RequestMoves
<1>3. req[i].c \in Lifetimes
  BY BusyRequest
<1>4. \A c \in Lifetimes : ambiguous[c] => ambiguous'[c]
  BY <1>3, TypeParts DEF PlainTyped, Dispatch, BeginDispatch, Issue, HomeGrants, HomeDenies, ReplyLost, Install, Abort, Aborting, PendingEnd, ScopeEnd, clientVars
<1>5. req[i].pc = "unknown" => ambiguous'[req[i].c]
  BY <1>3, TypeParts DEF PlainTyped, Dispatch, BeginDispatch, Issue, HomeGrants, HomeDenies, ReplyLost, Install, Abort, Aborting, PendingEnd, ScopeEnd, ReqStep, Installed
<1>6. CASE ambiguous[life]
  BY <1>1, <1>4, <1>6 DEF LostHere
<1>7. ASSUME NEW j \in Requests, req[j].pc = "unknown", req[j].c = life PROVE LostHere'
  BY <1>1, <1>2, <1>5, <1>7 DEF LostHere, Moves
<1> QED
  BY <1>6, <1>7 DEF LostHere

LEMMA DispatchKeepsCount ==
  ASSUME TypeOK, ControlInv, RequestInv, CountInv, NEW i \in Requests, Dispatch(i)
  PROVE  CountInv'
<1>0. PlainTyped /\ RequestTyped /\ RequestOK(req[i])
  BY TypeParts DEF RequestInv
<1>1. req[i].c \in Lifetimes /\ req[i].r \in Registries /\ req[i].pc # "idle"
  BY BusyRequest
<1>2. UNCHANGED <<reqFrame, draining>>
  BY DEF Dispatch, BeginDispatch, Issue, HomeGrants, HomeDenies, ReplyLost, Install, Abort, PendingEnd, ScopeEnd
<1>3. i \in Occupying => req[i].r = reg
  BY <1>0, Sets DEF RequestOK, Occupying
<1>4. Cardinality(Occupying) \in Nat /\ reg \in Registries /\ ended \in [Registries -> Nat]
      /\ latest \in Nat /\ acked \in Nat
      /\ home.granted \in Nat /\ home.released \in Nat /\ home.lost \in Nat
  BY <1>0, OccupyingFinite DEF PlainTyped
<1>5. home.lost > 0 /\ ~Unclaimed /\ sup \notin Ending => life \in Lifetimes
  <2>1. life \in Lifetimes \/ sup \notin InLife
    BY <1>0, BoundsInt DEF ControlInv, PlainTyped, Registries, Lifetimes
  <2> QED
    BY <2>1 DEF CountInv, Published, InLife, Up
<1>6. CASE Occupying' = Occupying /\ UNCHANGED Slots
  <2>1. Counted => Counted'
    BY <1>2, <1>6 DEF Counted, Slots, reqFrame
  <2>2. Unclaimed => Unclaimed'
    <3>1. Unclaimed => Unused'
      BY UnusedStays, <1>2, <1>6 DEF Unclaimed, Unused, Next, Replace, reqFrame
    <3> QED
      BY <1>2, <1>6, <3>1 DEF Unclaimed, Takeover, reqFrame, carryVars, Slots
  <2>3. life \in Lifetimes /\ LostHere => LostHere'
    BY LostStays
  <2>4. home'.lost = home.lost /\ sup' = sup
    BY <1>2, <1>6 DEF Slots, reqFrame
  <2> QED
    BY <1>5, <2>1, <2>2, <2>3, <2>4 DEF CountInv
<1>7. CASE Grants(i) \/ Loses(i) \/ Ends(i)
  <2>1. req[i].pc \in Pending \cup Installed
    BY <1>7, Sets DEF Grants, Loses, Ends, Occupying
  <2>2. req[i].r = reg
    BY <1>0, <2>1 DEF RequestOK
  <2>3. ~Unclaimed /\ Counted
    BY <2>2 DEF Unclaimed, Unused, CountInv
  <2>4. CASE Grants(i)
    <3>1. Cardinality(Occupying') = Cardinality(Occupying) + 1
      BY <2>4, OccupyingFinite DEF Grants
    <3>2. Counted'
      BY <1>2, <1>4, <2>3, <2>4, <3>1 DEF Counted, Grants, reqFrame
    <3> QED
      BY <1>2, <1>5, <2>3, <2>4, <3>2, LostStays DEF CountInv, Grants, reqFrame
  <2>5. CASE Loses(i)
    <3>1. Cardinality(Occupying') = Cardinality(Occupying) - 1
      BY <2>5, OccupyingFinite DEF Loses
    <3>2. Counted'
      BY <1>2, <1>4, <2>3, <2>5, <3>1 DEF Counted, Loses, reqFrame
    <3>3. ~Past(req[i].c) /\ req[i].c <= life /\ (sup \in SetUp => req[i].c < life)
      BY <1>0, <2>5, Sets DEF RequestOK, Loses
    <3>4. req[i].c = life /\ sup \notin SetUp \cup Between
      BY <1>0, <1>1, <3>3 DEF Past, PlainTyped, Lifetimes
    <3>5. LostHere'
      BY <1>2, <2>5, <3>4 DEF LostHere, Loses, reqFrame
    <3>6. sup \in Published \cup {"detached", "settle"} \cup Ending
      BY <1>0, <3>4 DEF Published, Ending, SetUp, Between, PlainTyped
    <3> QED
      BY <1>2, <3>2, <3>5, <3>6 DEF CountInv, reqFrame
  <2>6. CASE Ends(i)
    <3>1. Cardinality(Occupying') = Cardinality(Occupying) - 1
      BY <2>6, OccupyingFinite DEF Ends
    <3>2. ended'[reg] = ended[reg] + 1
      BY <1>4, <2>2, <2>6 DEF Ends
    <3>3. latest' = IF sup \notin {"drain", "deferred", "done"} /\ ended[reg] + 1 > latest
                    THEN ended[reg] + 1 ELSE latest
      BY <2>2, <2>6 DEF Ends, SinkAttached
    <3>4. UNCHANGED <<sup, reg, acked, home>>
      BY <1>2, <2>6 DEF Ends, reqFrame
    <3>5. Counted'
      BY <1>4, <2>3, <3>1, <3>2, <3>3, <3>4 DEF Counted
    <3> QED
      BY <1>5, <2>3, <3>4, <3>5, LostStays DEF CountInv
  <2> QED
    BY <1>7, <2>4, <2>5, <2>6
<1> QED
  BY <1>6, <1>7, DispatchCounts

LEMMA CountStep ==
  ASSUME TypeOK, ControlInv, RequestInv, FreshInv, CountInv, [Next]_vars
  PROVE  CountInv'
<1>a. PlainTyped
  BY TypeParts
<1> DEFINE Calm == UNCHANGED <<req, ended, reg, latest, acked, home>>
           Sinkless == {"drain", "deferred", "done"}
<1>b. Calm /\ (sup \in Sinkless => sup' \in Sinkless) /\ Counted => Counted'
  BY DEF Counted, Occupying
<1>c. Calm /\ (Takeover' => Takeover) /\ sup' \notin {"acked", "receive"} /\ Unclaimed => Unclaimed'
  BY DEF Unclaimed, Unused
<1>d. Calm /\ UNCHANGED <<life, ambiguous>> /\ LostHere => LostHere'
  BY DEF LostHere
<1>e. Calm => home'.lost = home.lost
  OBVIOUS
<1>f. Unclaimed => sup \notin {"acked", "receive"}
  BY DEF Unclaimed
<1> HIDE DEF Sinkless
<1>g. Sinkless = {"drain", "deferred", "done"}
  BY DEF Sinkless
<1> USE <1>a, <1>b, <1>c, <1>d, <1>e, <1>f, <1>g DEF PlainTyped, CountInv, Takeover, Published, Ending, clientVars, carryVars, flushVars, workVars, CancelRun, Switched, Eligible, Suppressed
<1>1. CASE StartLifetime
  BY <1>1 DEF StartLifetime
<1>2. CASE LeaveLoop
  BY <1>2 DEF LeaveLoop
<1>3. CASE GotConfig
  BY <1>3 DEF GotConfig, Receive
<1>4. CASE HomeRefuses
  BY <1>4 DEF HomeRefuses
<1>5. CASE ProbeOK
  BY <1>5 DEF ProbeOK
<1>6. CASE SetupFails
  BY <1>6 DEF SetupFails, EndLifetime
<1>7. CASE CancelLifetime
  BY <1>7 DEF CancelLifetime
<1>8. CASE Detach
  BY <1>8 DEF Detach
<1>9. CASE Retry
  BY <1>9 DEF Retry, CloseBeforeSettle
<1>10. CASE ReplacementFails
  BY <1>10 DEF ReplacementFails
<1>11. CASE Backoff
  BY <1>11 DEF Backoff
<1>12. CASE LastDrain
  BY <1>12 DEF LastDrain
<1>13. CASE LastFlush
  BY <1>13 DEF LastFlush, DrainFirst
<1>14. CASE Flushed
  BY <1>14 DEF Flushed, CloseLast
<1>15. CASE LastFails
  BY <1>15 DEF LastFails, CloseLast
<1>16. CASE Deferred
  BY <1>16 DEF Deferred
<1>17. CASE ConfigMessage
  BY <1>17 DEF ConfigMessage, Receive
<1>18. CASE ReceiveFails
  BY <1>18 DEF ReceiveFails, EndLifetime
<1>19. CASE Shutdown
  BY <1>19 DEF Shutdown
<1>20. CASE RunCancelled
  BY <1>20 DEF RunCancelled
<1>21. CASE Settled
  <2>1. sup = "settle" /\ Calm /\ UNCHANGED <<life, ambiguous>> /\ (Takeover' => Takeover)
        /\ sup' \in {"drain", "backoff"}
    BY <1>21 DEF Settled
  <2>2. sup' = "backoff" => ~LostHere
    BY <1>21, Sets DEF Settled, Unsafe, SettleAll, PendingIn, LostHere, RequestInv, RequestOK
  <2> HIDE DEF Takeover
  <2> QED
    BY <2>1, <2>2
<1>22. CASE Replace
  <2>1. Unused' /\ ~Takeover' /\ Occupying = {}
    BY <1>22, ReplaceUnused
  <2>2. home.released <= home.granted
    <3>1. reg \in Registries /\ ended[reg] \in Nat
      OBVIOUS
    <3> QED
      BY <3>1, OccupyingFinite DEF Counted, Unclaimed
  <2>3. sup' = "backoff" /\ home' = home
    BY <1>22 DEF Replace
  <2>4. Unclaimed'
    BY <2>1, <2>2, <2>3 DEF Unclaimed
  <2> QED
    BY <2>4
<1>23. CASE HomeSubscribes
  <2>1. sup = "subscribe" /\ UNCHANGED <<req, ended, reg, latest, acked>> /\ sup' \in {"acked", "over"}
    BY <1>23 DEF HomeSubscribes
  <2>2. CASE Takeover
    <3>1. Counted /\ home.lost = 0
      BY <2>1, <2>2 DEF Unclaimed
    <3> QED
      BY <1>23, <2>1, <2>2, <3>1 DEF HomeSubscribes
  <2>3. CASE ~Takeover
    <3>1. Unused
      BY <2>1, <2>3 DEF FreshInv, SetUp
    <3>2. Occupying = {}
      BY <3>1, Sets DEF Unused, Occupying, RequestInv, RequestOK
    <3>3. home' = [granted |-> 0, released |-> 0, lost |-> 0]
      BY <1>23, <2>3 DEF HomeSubscribes, Fresh
    <3>4. Occupying' = {} /\ Cardinality({}) = 0
      BY <2>1, <3>2, FS_EmptySet DEF Occupying
    <3>5. ended'[reg'] = 0 /\ latest' = 0 /\ acked' = 0
      BY <2>1, <3>1 DEF Unused
    <3> QED
      BY <2>1, <3>3, <3>4, <3>5 DEF Counted
  <2> QED
    BY <2>2, <2>3
<1>24. CASE PushRelease
  <2>1. latest > acked /\ UNCHANGED <<req, ended, reg, latest, sup, life, ambiguous>> /\ acked' \in {acked, latest}
    BY <1>24 DEF PushRelease, reqFrame
  <2>2. Counted
    BY <2>1 DEF Unclaimed, Unused
  <2>3. home'.granted = home.granted /\ home'.released = latest /\ home'.lost = home.lost
    BY <1>24, <2>2 DEF PushRelease, Counted
  <2>4. Counted'
    BY <2>1, <2>2, <2>3 DEF Counted, Occupying
  <2>5. LostHere => LostHere'
    BY <2>1 DEF LostHere
  <2>6. ~Unclaimed
    BY <2>1 DEF Unclaimed, Unused
  <2> QED
    BY <2>1, <2>3, <2>4, <2>5, <2>6
<1>25. ASSUME NEW c \in Lifetimes, Stage(c) PROVE CountInv'
  BY <1>25 DEF Stage
<1>26. ASSUME NEW c \in Lifetimes, CommitCheck(c) PROVE CountInv'
  BY <1>26 DEF CommitCheck
<1>27. ASSUME NEW c \in Lifetimes, Commit(c) PROVE CountInv'
  BY <1>27 DEF Commit
<1>28. ASSUME NEW c \in Lifetimes, ApplyRuntime(c) PROVE CountInv'
  BY <1>28 DEF ApplyRuntime
<1>29. ASSUME NEW c \in Lifetimes, Finalize(c) PROVE CountInv'
  BY <1>29 DEF Finalize
<1>30. ASSUME NEW c \in Lifetimes, CloseOnCancellation(c) PROVE CountInv'
  BY <1>30 DEF CloseOnCancellation
<1>31. ASSUME NEW c \in Lifetimes, WorkerLeaves(c) PROVE CountInv'
  BY <1>31 DEF WorkerLeaves
<1>32. ASSUME NEW c \in Lifetimes, WorkerFails(c) PROVE CountInv'
  BY <1>32 DEF WorkerFails
<1>33. ASSUME NEW i \in Requests, LoadBundle(i) PROVE CountInv'
  <2>1. sup = "receive" /\ UNCHANGED <<reqFrame, ambiguous, ended, latest, acked, home>>
    <3>1. bundle \in Lifetimes \X Registries
      BY <1>33 DEF LoadBundle, BundleReady
    <3> QED
      BY <1>33, <3>1 DEF LoadBundle, BundleReady, ControlInv
  <2>2. PICK s : s = [pc |-> "loaded", c |-> bundle[1], r |-> bundle[2]]
    OBVIOUS
  <2>3. req' = [req EXCEPT ![i] = s] /\ s.pc = "loaded" /\ req[i].pc = "idle"
    BY <1>33, <2>2 DEF LoadBundle
  <2>4. Occupying' = Occupying /\ (LostHere => LostHere')
    BY <2>1, <2>3, TypeParts, Sets DEF Occupying, LostHere, RequestTyped, reqFrame
  <2>5. Counted => Counted'
    BY <2>1, <2>4 DEF Counted, reqFrame
  <2> QED
    BY <2>1, <2>4, <2>5 DEF reqFrame
<1>34. ASSUME NEW i \in Requests, Dispatch(i) PROVE CountInv'
  BY <1>34, DispatchKeepsCount
<1>35. CASE UNCHANGED vars
  BY <1>35 DEF vars
<1> QED
  BY <1>1, <1>2, <1>3, <1>4, <1>5, <1>6, <1>7, <1>8, <1>9, <1>10, <1>11, <1>12, <1>13, <1>14, <1>15, <1>16, <1>17, <1>18, <1>19, <1>20, <1>21, <1>22, <1>23, <1>24, <1>25, <1>26, <1>27, <1>28, <1>29, <1>30, <1>31, <1>32, <1>33, <1>34, <1>35 DEF Next, Supervise, Work

-----------------------------------------------------------------------------
(* Everything together is inductive.                                        *)
HomeInv == TypeOK /\ ControlInv /\ RequestInv /\ FreshInv /\ CountInv /\ EndInv

LEMMA HomeInit == Init => HomeInv
<1> SUFFICES ASSUME Init PROVE HomeInv
  OBVIOUS
<1> USE BoundsInt, Sets DEF Init
<1> DEFINE q == [pc |-> "idle", c |-> 0, r |-> 0]
<1>1. q \in RequestRec /\ q.pc = "idle" /\ q.c = 0 /\ q.r = 0
  BY DEF RequestRec, RequestPC
<1>2. req \in [Requests -> RequestRec] /\ \A i \in Requests : req[i].pc = "idle" /\ req[i].c = 0 /\ req[i].r = 0
  BY <1>1
<1>3. 1 \in Registries
  BY DEF Registries
<1>4. TypeOK
  <2>1. home \in [granted : Nat, released : Nat, lost : Nat]
        /\ commits \in [n : Nat, by : 0..MaxLifetimes]
    OBVIOUS
  <2>2. PlainTyped
    <3>1. life \in 0..MaxLifetimes /\ queued \in 0..MaxConfigs + 1 /\ received \in 0..MaxConfigs
      OBVIOUS
    <3>2. worker \in [Lifetimes -> {"off", "waiting", "idle", "staged", "checked",
                                    "committed", "finalize", "done"}]
          /\ ended \in [Registries -> Nat] /\ draining \in [Registries -> BOOLEAN]
      OBVIOUS
    <3>3. fenced \in [Lifetimes -> BOOLEAN] /\ ambiguous \in [Lifetimes -> BOOLEAN]
          /\ heartbeat \in [Lifetimes -> BOOLEAN] /\ active \in [Lifetimes -> BOOLEAN]
      OBVIOUS
    <3> QED
      BY <1>3, <2>1, <3>1, <3>2, <3>3 DEF PlainTyped
  <2>3. RequestTyped
    BY <1>2 DEF RequestTyped
  <2> QED
    BY <2>2, <2>3, TypeParts
<1>5. ControlInv
  BY DEF ControlInv, InLife, Up, SetUp, Published, Working, None
<1>6. RequestInv
  <2>1. \A i \in Requests : RequestOK(req[i])
    BY <1>2 DEF RequestOK, Pending, Installed, Flight
  <2> QED
    BY <2>1 DEF RequestInv, Registries
<1>7. Unused
  BY <1>2, <1>3 DEF Unused
<1>8. FreshInv
  BY <1>7 DEF FreshInv
<1>9. Unclaimed /\ home.lost = 0
  BY <1>7 DEF Unclaimed, Takeover
<1>10. CountInv
  BY <1>9 DEF CountInv
<1>11. EndInv
  BY DEF EndInv
<1> QED
  BY <1>4, <1>5, <1>6, <1>8, <1>10, <1>11 DEF HomeInv

LEMMA HomeNext == HomeInv /\ [Next]_vars => HomeInv'
<1> SUFFICES ASSUME HomeInv, [Next]_vars PROVE HomeInv'
  OBVIOUS
<1>1. TypeOK'
  <2>1. PlainTyped' /\ RequestTyped'
    BY PlainStep, RequestsKeepType DEF HomeInv
  <2> QED
    BY <2>1 DEF TypeOK, PlainTyped, RequestTyped, RequestRec, RequestPC
<1>2. ControlInv' /\ RequestInv' /\ FreshInv' /\ CountInv' /\ EndInv'
  BY ControlStep, RequestStep, FreshStep, CountStep, EndStep DEF HomeInv
<1> QED
  BY <1>1, <1>2 DEF HomeInv

LEMMA HomeAlways == Spec => []HomeInv
  BY HomeInit, HomeNext, PTL DEF Spec

(* Every variable keeps its type: the recovery and supervisor states stay    *)
(* the enumerated ones, and the bundle only ever names a client and registry *)
(* of this run (homeDispatchBundle is cleared or replaced as a whole).       *)
THEOREM TypeCorrect == Spec => []TypeOK
  BY HomeAlways, PTL DEF HomeInv

(* subscriptionParameters asks for a takeover whenever anything Home granted *)
(* is still running here: a fresh SUBSCRIBE is sent only with nothing left   *)
(* of the previous membership, whatever was ambiguous, lost or replaced.     *)
THEOREM FreshOnlyWhenDrained == Spec => []FreshMeansDrained
<1>1. HomeInv => FreshMeansDrained
  <2> SUFFICES ASSUME HomeInv, sup = "subscribe", ~Takeover PROVE Occupying = {}
    BY DEF FreshMeansDrained
  <2>1. Unused
    BY DEF HomeInv, FreshInv, SetUp
  <2> QED
    BY <2>1, Sets DEF HomeInv, Unused, Occupying, RequestInv, RequestOK
<1> QED
  BY <1>1, HomeAlways, PTL

(* The grants of rPopAuth, the releases of Scope.End that the flusher pushes *)
(* and the replies an abort wrote off add up to what Home counts; only a     *)
(* client marked ambiguous, or about to be, may have lost one.               *)
THEOREM CapacityIsAccounted == Spec => []CapacityAccounted
<1>1. HomeInv => CapacityAccounted
  <2> SUFFICES ASSUME HomeInv PROVE CapacityAccounted
    OBVIOUS
  <2>1. Cardinality(Occupying) \in Nat /\ home.granted \in Nat /\ home.released \in Nat
        /\ home.lost \in Nat /\ ended[reg] \in Nat /\ latest \in Nat /\ acked \in Nat
    BY OccupyingFinite, TypeParts DEF HomeInv, PlainTyped
  <2>2. CASE Counted
    <3>1. Cardinality(Occupying) <= HomeCount
      BY <2>1, <2>2 DEF Counted, HomeCount
    <3>2. sup = "receive" => home.lost = 0 \/ LostHere
      BY <2>1 DEF HomeInv, CountInv, Unclaimed, Ending
    <3> QED
      BY <2>1, <2>2, <3>1, <3>2 DEF CapacityAccounted, Counted, HomeCount, LostHere
  <2>3. CASE Unclaimed
    <3>1. Occupying = {}
      BY <2>3, Sets DEF HomeInv, Unclaimed, Unused, Occupying, RequestInv, RequestOK
    <3> QED
      BY <2>1, <2>3, <3>1, FS_EmptySet DEF CapacityAccounted, HomeCount, Unclaimed
  <2> QED
    BY <2>2, <2>3 DEF HomeInv, CountInv
<1> QED
  BY <1>1, HomeAlways, PTL

(* commitHomeConfig checks the lifetime under homeConfigCommitMu, so configs *)
(* are committed in the order of their lifetimes, and none after Shutdown    *)
(* took that mutex to cancel the supervisor.                                 *)
THEOREM CommitsStayInOrder == Spec => CommitsInOrder
<1>1. HomeInv /\ [Next]_vars => (commits' # commits => commits'.by >= commits.by /\ ctx # "stopped")
  <2> SUFFICES ASSUME HomeInv, [Next]_vars, commits' # commits
               PROVE  commits'.by >= commits.by /\ ctx # "stopped"
    OBVIOUS
  <2>1. \E c \in Lifetimes : Commit(c)
    <3> USE DEF workVars, reqFrame
    <3>1. ~Supervise
      BY DEF Supervise, StartLifetime, LeaveLoop, GotConfig, Receive, HomeSubscribes, HomeRefuses, ProbeOK, SetupFails, EndLifetime, CancelLifetime, Detach, Retry, CloseBeforeSettle, Settled, Replace, ReplacementFails, Backoff, LastDrain, LastFlush, Flushed, CloseLast, LastFails, Deferred
    <3>2. ~(ConfigMessage \/ ReceiveFails \/ PushRelease \/ Shutdown \/ RunCancelled \/ UNCHANGED vars)
      BY DEF ConfigMessage, ReceiveFails, EndLifetime, PushRelease, Shutdown, RunCancelled, vars
    <3>3. \A i \in Requests : ~(LoadBundle(i) \/ Dispatch(i))
      BY DEF LoadBundle, Dispatch, BeginDispatch, Issue, HomeGrants, HomeDenies, ReplyLost, Install, Abort, PendingEnd, ScopeEnd
    <3>4. \A c \in Lifetimes : ~(Stage(c) \/ CommitCheck(c) \/ ApplyRuntime(c) \/ Finalize(c)
                                  \/ CloseOnCancellation(c) \/ WorkerLeaves(c) \/ WorkerFails(c))
      BY DEF Stage, CommitCheck, ApplyRuntime, Finalize, CloseOnCancellation, WorkerLeaves, WorkerFails
    <3> QED
      BY <3>1, <3>2, <3>3, <3>4 DEF Next, Work
  <2>2. PICK c \in Lifetimes : Commit(c)
    BY <2>1
  <2>3. worker[c] = "checked" /\ commits'.by = c
    BY <2>2 DEF Commit, WorkerStep
  <2>4. c = life /\ ctx # "stopped" /\ commits.by <= life
    BY <2>3 DEF HomeInv, ControlInv, Working
  <2> QED
    BY <2>3, <2>4, TypeParts DEF HomeInv, PlainTyped
<1> QED
  BY <1>1, HomeAlways, PTL DEF Spec, CommitsInOrder

(* What ends a run without an error: the last drain and flush succeeded, or  *)
(* the deferred drain found nothing.  LastFails, ReplacementFails and a      *)
(* deferred drain that is cut short cancel the run instead.                  *)
THEOREM RunsEndClean == Spec => CleanEnd
<1> DEFINE Step == /\ sup' = "done" /\ ctx' = "stopped" => ~InstalledIn(reg) /\ ~PendingIn(reg)
                   /\ sup = "lastFlush" /\ sup' = "deferred" /\ ctx' = "stopped"
                        => home.released >= ended[reg] /\ ~InstalledIn(reg)
<1>1. HomeInv /\ [Next]_vars => Step
  <2> SUFFICES ASSUME HomeInv, [Next]_vars PROVE Step
    OBVIOUS
  <2>a. PlainTyped
    BY TypeParts DEF HomeInv
  <2>1. /\ sup' = "done" => sup = "done" \/ Deferred
        /\ sup = "lastFlush" /\ sup' = "deferred" => Flushed \/ LastFails
        /\ ctx' = "stopped" => ctx # "cancelled"
    <3> USE <2>a DEF PlainTyped, workVars, reqFrame, CancelRun
    <3>1. CASE Supervise
      BY <3>1 DEF Supervise, StartLifetime, LeaveLoop, GotConfig, HomeSubscribes, HomeRefuses, ProbeOK, SetupFails, EndLifetime, CancelLifetime, Detach, Retry, Settled, Replace, ReplacementFails, Backoff, LastDrain, LastFlush, Flushed, CloseLast, LastFails, Deferred
    <3>2. CASE ConfigMessage \/ ReceiveFails \/ PushRelease \/ Shutdown \/ RunCancelled \/ UNCHANGED vars
      BY <3>2 DEF ConfigMessage, ReceiveFails, EndLifetime, PushRelease, Shutdown, RunCancelled, vars
    <3>3. ASSUME NEW i \in Requests, LoadBundle(i) \/ Dispatch(i) PROVE UNCHANGED <<sup, ctx>>
      BY <3>3 DEF LoadBundle, Dispatch, BeginDispatch, Issue, HomeGrants, HomeDenies, ReplyLost, Install, Abort, PendingEnd, ScopeEnd
    <3>4. ASSUME NEW c \in Lifetimes, Work(c) \/ WorkerFails(c)
          PROVE  sup' = sup /\ (ctx' = ctx \/ ctx' = "cancelled")
      BY <3>4 DEF Work, Stage, CommitCheck, Commit, ApplyRuntime, Finalize, CloseOnCancellation, WorkerLeaves, WorkerFails
    <3> QED
      BY <3>1, <3>2, <3>3, <3>4 DEF Next
  <2>2. sup' = "done" /\ ctx' = "stopped" => Drained
    BY <2>1 DEF HomeInv, EndInv, Deferred, CancelRun
  <2>3. ASSUME sup = "lastFlush", sup' = "deferred", ctx' = "stopped"
        PROVE  home.released >= ended[reg] /\ Drained
    <3>1. latest = acked
      BY <2>1, <2>3 DEF Flushed, LastFails, CancelRun
    <3>2. ended[reg] \in Nat /\ home.released \in Nat /\ latest \in Nat
      BY <2>a DEF PlainTyped
    <3>3. Drained
      BY <2>3 DEF HomeInv, EndInv
    <3> QED
      BY <2>3, <3>1, <3>2, <3>3 DEF HomeInv, CountInv, Counted, Unclaimed, Unused
  <2> QED
    BY <2>2, <2>3 DEF Drained
<1> QED
  BY <1>1, HomeAlways, PTL DEF Spec, CleanEnd
=============================================================================
