--------------------------- MODULE HomeSubscriber ---------------------------
(***************************************************************************)
(* sdk/cliproxy/service_home.go and internal/home/client.go: the goroutine *)
(* that keeps this process a member of Home.  It runs one client lifetime  *)
(* after another (GET config, SUBSCRIBE, receive), each with a worker that *)
(* commits the configs received and then publishes <<client, registry>> as *)
(* the bundle requests dispatch through, and with a Run of the release     *)
(* flusher.  Between two lifetimes it must decide whether the executions   *)
(* that still run go with the membership (takeover) or must end before a   *)
(* fresh one: Home grants capacity by membership and counts it back by the *)
(* cumulative release sequence, so a wrong choice frees a slot that is     *)
(* still in use, or never frees one.                                       *)
(*                                                                         *)
(* The registry and the flusher are abstracted to what modules             *)
(* ExecutionRegistry and ReleaseFlusher show of them.  Home and its        *)
(* connections are external: a fresh SUBSCRIBE forgets what the previous   *)
(* membership held, a takeover keeps it, and Home forgets nothing else.    *)
(* Its configs carry a lifecycle revision above 0, so every SUBSCRIBE names *)
(* one (client.go:1761, 1883); a Home without gets a plain subscription,   *)
(* and accounts for nothing.                                               *)
(***************************************************************************)
EXTENDS Integers, FiniteSets

CONSTANTS
  Requests,       \* each dispatches once
  MaxLifetimes,   \* bound: client lifetimes
  MaxConfigs      \* bound: config messages after the first of a lifetime, in all

ASSUME BoundsAssumption ==
  /\ IsFiniteSet(Requests)
  /\ MaxLifetimes \in Nat \ {0} /\ MaxConfigs \in Nat

VARIABLES
  ctx,          \* homeCtx: live; stopped by Shutdown; cancelled with the run
  sup, cause,   \* runHomeSubscriber: where it is, and what ended the lifetime
  life,         \* the client lifetime; client c is the one of lifetime c
  fenced, ambiguous, heartbeat,   \* atomics of each client
  recovery, legacy,               \* what NewLifetime carries to the next client
  reg, draining,                  \* the registry in use; which ones drain
  latest, acked, flushing,        \* its flusher; whether Run is running
  worker, active, queued, received,  \* the config workers; lifetimeCtx; queue
  bundle,       \* homeDispatchBundle: <<client, registry>>, or None
  published,    \* this lifetime published its bundle
  commits,      \* [n: number of configs committed, by: lifetime of the last]
  req,          \* request: [pc, c, r], with the client and registry loaded
  ended,        \* releases of a registry so far: its highest sequence
  home          \* Home: slots granted, released; lost: replies never seen

clientVars == <<fenced, ambiguous, heartbeat>>
carryVars  == <<recovery, legacy>>
flushVars  == <<latest, acked, flushing>>
workVars   == <<worker, active, queued, received>>
vars == <<ctx, sup, cause, life, clientVars, carryVars, reg, draining, flushVars,
          workVars, bundle, published, commits, req, ended, home>>

Lifetimes  == 1..MaxLifetimes
Registries == 1..MaxLifetimes + 1   \* at most one per lifetime, and a next
None == <<0, 0>>

Pending   == {"pending", "issued", "granted", "unknown", "fencing", "settled"}
Installed == {"live", "invalid", "marked", "fenced"}
PendingIn(r)   == \E i \in Requests : req[i].r = r /\ req[i].pc \in Pending
InstalledIn(r) == \E i \in Requests : req[i].r = r /\ req[i].pc \in Installed
Occupying == {i \in Requests : req[i].pc \in Installed \cup {"granted"}}

TypeOK ==
  /\ ctx \in {"live", "stopped", "cancelled"}
  /\ sup \in {"start", "bootstrap", "subscribe", "acked", "receive", "over", "join",
              "detached", "settle", "drain", "backoff", "lastDrain", "lastFlush",
              "deferred", "done"}
  /\ cause \in {"none", "transport", "unavailable", "protocol"}
  /\ life \in 0..MaxLifetimes /\ reg \in Registries
  /\ fenced \in [Lifetimes -> BOOLEAN] /\ ambiguous \in [Lifetimes -> BOOLEAN]
  /\ heartbeat \in [Lifetimes -> BOOLEAN]
  /\ recovery \in {"stable", "eligible", "switching", "switchingTakeover"}
  /\ legacy \in BOOLEAN /\ draining \in [Registries -> BOOLEAN]
  /\ latest \in Nat /\ acked \in Nat /\ flushing \in BOOLEAN
  /\ worker \in [Lifetimes -> {"off", "waiting", "idle", "staged", "checked",
                               "committed", "finalize", "done"}]
  /\ active \in [Lifetimes -> BOOLEAN]
  /\ queued \in 0..MaxConfigs + 1 /\ received \in 0..MaxConfigs
  /\ bundle \in {None} \cup (Lifetimes \X Registries) /\ published \in BOOLEAN
  /\ commits \in [n : Nat, by : 0..MaxLifetimes]
  /\ req \in [Requests -> [pc : Pending \cup Installed \cup {"idle", "loaded", "over"},
                           c : 0..MaxLifetimes, r : {0} \cup Registries]]
  /\ \A i \in Requests : req[i].pc # "idle" => req[i].c # 0 /\ req[i].r # 0
  /\ ended \in [Registries -> Nat]
  /\ home \in [granted : Nat, released : Nat, lost : Nat]

Init ==
  /\ ctx = "live" /\ sup = "start" /\ cause = "none" /\ life = 0
  /\ fenced = [c \in Lifetimes |-> FALSE] /\ ambiguous = [c \in Lifetimes |-> FALSE]
  /\ heartbeat = [c \in Lifetimes |-> FALSE]
  /\ recovery = "stable" /\ legacy = FALSE
  /\ reg = 1 /\ draining = [r \in Registries |-> FALSE]
  /\ latest = 0 /\ acked = 0 /\ flushing = FALSE
  /\ worker = [c \in Lifetimes |-> "off"] /\ active = [c \in Lifetimes |-> FALSE]
  /\ queued = 0 /\ received = 0
  /\ bundle = None /\ published = FALSE /\ commits = [n |-> 0, by |-> 0]
  /\ req = [i \in Requests |-> [pc |-> "idle", c |-> 0, r |-> 0]]
  /\ ended = [r \in Registries |-> 0]
  /\ home = [granted |-> 0, released |-> 0, lost |-> 0]

-----------------------------------------------------------------------------
(* recoveryState: the compare-and-swaps of its four values. *)
Eligible(s) == CASE s = "stable" -> "eligible"
                 [] s = "switching" -> "switchingTakeover"
                 [] OTHER -> s
Suppressed(s) == CASE s = "eligible" -> "stable"
                   [] s = "switchingTakeover" -> "switching"
                   [] OTHER -> s
Switched(s) == CASE s = "stable" -> "switching"
                 [] s = "eligible" -> "switchingTakeover"
                 [] OTHER -> s

(* subscriptionParameters: the SUBSCRIBE asks to take the membership over. *)
Takeover == ~legacy /\ recovery \in {"eligible", "switchingTakeover"}

(* cancelServiceRun, unless the run is already over. *)
CancelRun == ctx' = "cancelled"

-----------------------------------------------------------------------------
(* The supervisor. *)
StartLifetime ==
  /\ sup = "start" /\ ctx = "live" /\ life < MaxLifetimes
  /\ life' = life + 1 /\ sup' = "bootstrap" /\ cause' = "none"
  /\ worker' = [worker EXCEPT ![life + 1] = "waiting"]
  /\ active' = [active EXCEPT ![life + 1] = TRUE]
  /\ queued' = 0 /\ published' = FALSE /\ flushing' = TRUE
  /\ UNCHANGED <<received, ctx, clientVars, carryVars, reg, draining, latest, acked, bundle,
                 commits, req, ended, home>>

(* The loop condition fails: the deferred drain is next. *)
LeaveLoop ==
  /\ sup = "start" /\ ctx # "live" /\ sup' = "deferred"
  /\ UNCHANGED <<ctx, cause, life, clientVars, carryVars, reg, draining, flushVars,
                 workVars, bundle, published, commits, req, ended, home>>

Receive == queued' = queued + 1

(* GetConfig, which may move to a better node of the cluster, and onConfig. *)
GotConfig ==
  /\ sup = "bootstrap" /\ sup' = "subscribe" /\ Receive /\ UNCHANGED received
  /\ recovery' \in {recovery, Switched(recovery)}
  /\ UNCHANGED <<ctx, cause, life, clientVars, legacy, reg, draining, flushVars, worker,
                 active, bundle, published, commits, req, ended, home>>

(* Home commits the membership before it answers; the answer may be lost.   *)
(* A protocol-one ACK makes the membership one to take over.                *)
Fresh == [granted |-> 0, released |-> 0, lost |-> 0]
HomeSubscribes ==
  /\ sup = "subscribe"
  /\ home' = IF Takeover THEN home ELSE Fresh
  /\ \/ /\ sup' = "acked" /\ recovery' = Eligible(recovery) /\ UNCHANGED cause
     \/ /\ sup' = "over" /\ cause' = "transport"
        /\ recovery' \in {recovery, Switched(recovery)}
  /\ UNCHANGED <<ctx, life, clientVars, legacy, reg, draining, flushVars, workVars,
                 bundle, published, commits, req, ended>>

(* Home refuses: the membership cannot be taken over, or the arguments are  *)
(* not the ones an old Home knows.                                          *)
HomeRefuses ==
  /\ sup = "subscribe"
  /\ \/ Takeover /\ cause' = "unavailable"
     \/ ~legacy /\ cause' = "protocol"
  /\ sup' = "over" /\ recovery' \in {recovery, Switched(recovery)}
  /\ UNCHANGED <<ctx, life, clientVars, legacy, reg, draining, flushVars, workVars,
                 bundle, published, commits, req, ended, home>>

(* rebuildCommandPoolAndProbe, heartbeatOK and onReady. *)
ProbeOK ==
  /\ sup = "acked" /\ sup' = "receive"
  /\ recovery' = "stable" /\ heartbeat' = [heartbeat EXCEPT ![life] = TRUE]
  /\ worker' = [worker EXCEPT ![life] = IF @ = "waiting" THEN "idle" ELSE @]
  /\ UNCHANGED <<ctx, cause, life, fenced, ambiguous, legacy, reg, draining, flushVars,
                 active, queued, received, bundle, published, commits, req, ended, home>>

ConfigMessage ==
  /\ sup = "receive" /\ received < MaxConfigs /\ Receive /\ received' = received + 1
  /\ UNCHANGED <<ctx, sup, cause, life, clientVars, carryVars, reg, draining, flushVars,
                 worker, active, bundle, published, commits, req, ended, home>>

(* Any step of the lifetime fails, or its context ended. *)
EndLifetime ==
  /\ sup' = "over" /\ cause' = "transport"
  /\ heartbeat' = [heartbeat EXCEPT ![life] = FALSE]
  /\ UNCHANGED <<ctx, life, fenced, ambiguous, legacy, reg, draining, flushVars,
                 workVars, bundle, published, commits, req, ended, home>>

SetupFails ==
  /\ sup \in {"bootstrap", "subscribe", "acked"} /\ EndLifetime
  /\ recovery' \in {recovery, Switched(recovery)}

(* Only a lifetime that still has its heartbeat leaves a membership behind  *)
(* that may be taken over.                                                  *)
AfterReceiveError(s) == IF heartbeat[life] THEN Eligible(s) ELSE s
ReceiveFails ==
  /\ sup = "receive" /\ EndLifetime
  /\ IF ctx = "live"
       THEN \E s \in {AfterReceiveError(recovery)} : recovery' \in {s, Switched(s)}
       ELSE UNCHANGED recovery

CancelLifetime ==
  /\ sup = "over" /\ sup' = "join"
  /\ active' = [active EXCEPT ![life] = FALSE]
  /\ UNCHANGED <<ctx, cause, life, clientVars, carryVars, reg, draining, flushVars,
                 worker, queued, received, bundle, published, commits, req, ended, home>>

(* <-workerDone, then detachHomeSubscriberLifetime. *)
Joined == worker[life] = "done"
Detach ==
  /\ sup = "join" /\ Joined /\ sup' = "detached"
  /\ bundle' = IF bundle = <<life, reg>> THEN None ELSE bundle
  /\ UNCHANGED <<ctx, cause, life, clientVars, carryVars, reg, draining, flushVars,
                 workVars, published, commits, req, ended, home>>

-----------------------------------------------------------------------------
(* A replacement: the sender stops and the client is fenced for good, then  *)
(* what was being dispatched settles, within the cancel bound.              *)
CloseLater        == UNCHANGED fenced
CloseBeforeSettle == fenced' = [fenced EXCEPT ![life] = TRUE]
Retry ==
  /\ sup = "detached" /\ ctx = "live" /\ sup' = "settle"
  /\ flushing' = FALSE /\ CloseBeforeSettle
  /\ heartbeat' = [heartbeat EXCEPT ![life] = FALSE]
  /\ UNCHANGED <<ctx, cause, life, ambiguous, carryVars, reg, draining, latest, acked,
                 workVars, bundle, published, commits, req, ended, home>>

(* WaitPending returned: keep the registry for a takeover, or drain it with *)
(* its releases detached.                                                   *)
SettleAll == ~PendingIn(reg)
UnsafeNoAmbiguity == cause \in {"unavailable", "protocol"} \/ legacy
Unsafe            == UnsafeNoAmbiguity \/ ambiguous[life]

Settled ==
  /\ sup = "settle" /\ SettleAll
  /\ legacy' = (legacy \/ cause = "protocol")
  /\ recovery' = IF cause = "protocol" THEN Suppressed(recovery) ELSE recovery
  /\ IF Unsafe
       THEN sup' = "drain" /\ draining' = [draining EXCEPT ![reg] = TRUE]
       ELSE sup' = "backoff" /\ UNCHANGED draining
  /\ UNCHANGED <<ctx, cause, life, clientVars, reg, flushVars, workVars, bundle,
                 published, commits, req, ended, home>>

(* The old registry is empty: a fresh membership, registry and flusher. *)
FreshFlusher == latest' = 0 /\ acked' = 0
FreshNext    == recovery' = Suppressed(recovery)
NotDrained   == TRUE
Drained      == ~PendingIn(reg) /\ ~InstalledIn(reg)

Replace ==
  /\ sup = "drain" /\ Drained
  /\ sup' = "backoff" /\ reg' = reg + 1 /\ FreshFlusher /\ FreshNext
  /\ UNCHANGED <<ctx, cause, life, clientVars, legacy, draining, flushing, workVars,
                 bundle, published, commits, req, ended, home>>

(* WaitPending or Drain ran into the cancel bound. *)
ReplacementFails ==
  /\ \/ sup = "settle" /\ ~SettleAll
     \/ sup = "drain" /\ ~Drained
  /\ sup' = "deferred" /\ CancelRun
  /\ UNCHANGED <<cause, life, clientVars, carryVars, reg, draining, flushVars, workVars,
                 bundle, published, commits, req, ended, home>>

(* A lifetime that was never published waits; homeCtx may end meanwhile. *)
Backoff ==
  /\ sup = "backoff"
  /\ sup' = IF ~published /\ ctx # "live" THEN "deferred" ELSE "start"
  /\ UNCHANGED <<ctx, cause, life, clientVars, carryVars, reg, draining, flushVars,
                 workVars, bundle, published, commits, req, ended, home>>

-----------------------------------------------------------------------------
(* The end of the run: drain, flush what that released, close. *)
LastDrain ==
  /\ sup = "detached" /\ ctx # "live" /\ sup' = "lastDrain"
  /\ draining' = [draining EXCEPT ![reg] = TRUE]
  /\ UNCHANGED <<ctx, cause, life, clientVars, carryVars, reg, flushVars, workVars, bundle,
                 published, commits, req, ended, home>>

NoDrain    == TRUE
DrainFirst == Drained
LastFlush ==
  /\ sup = "lastDrain" /\ DrainFirst /\ sup' = "lastFlush"
  /\ UNCHANGED <<ctx, cause, life, clientVars, carryVars, reg, draining, flushVars,
                 workVars, bundle, published, commits, req, ended, home>>

CloseLast ==
  /\ sup' = "deferred" /\ flushing' = FALSE
  /\ fenced' = [fenced EXCEPT ![life] = TRUE]
  /\ heartbeat' = [heartbeat EXCEPT ![life] = FALSE]
  /\ UNCHANGED <<cause, life, ambiguous, carryVars, reg, draining, latest, acked, workVars,
                 bundle, published, commits, req, ended, home>>

Flushed == sup = "lastFlush" /\ latest = acked /\ CloseLast /\ UNCHANGED ctx
LastFails ==
  /\ \/ sup = "lastDrain" /\ ~Drained
     \/ sup = "lastFlush" /\ latest # acked
  /\ CloseLast /\ CancelRun

(* The deferred function detaches the sink and drains what is left. *)
Deferred ==
  /\ sup = "deferred" /\ draining' = [draining EXCEPT ![reg] = TRUE]
  /\ IF Drained THEN UNCHANGED ctx ELSE CancelRun
  /\ sup' = "done"
  /\ UNCHANGED <<cause, life, clientVars, carryVars, reg, flushVars, workVars, bundle,
                 published, commits, req, ended, home>>

(* Shutdown cancels the supervisor under homeConfigCommitMu, the run is     *)
(* cancelled under no lock.                                                 *)
NoLock       == TRUE
CommitMuFree == \A c \in Lifetimes : worker[c] # "checked"
Shutdown ==
  /\ ctx = "live" /\ CommitMuFree /\ ctx' = "stopped"
  /\ UNCHANGED <<sup, cause, life, clientVars, carryVars, reg, draining, flushVars,
                 workVars, bundle, published, commits, req, ended, home>>
RunCancelled ==
  /\ ctx = "live" /\ CancelRun
  /\ UNCHANGED <<sup, cause, life, clientVars, carryVars, reg, draining, flushVars,
                 workVars, bundle, published, commits, req, ended, home>>

-----------------------------------------------------------------------------
(* The config worker of lifetime c. *)
LifetimeActive(c) == ctx = "live" /\ active[c]

WorkerStep(c, from, to) == worker[c] = from /\ worker' = [worker EXCEPT ![c] = to]

(* dequeue, parse and stage; staging is retried until it works. *)
Stage(c) ==
  /\ WorkerStep(c, "idle", "staged") /\ LifetimeActive(c) /\ queued > 0
  /\ queued' = queued - 1
  /\ UNCHANGED <<ctx, sup, cause, life, clientVars, carryVars, reg, draining, flushVars,
                 active, received, bundle, published, commits, req, ended, home>>

(* commitHomeConfig holds homeConfigCommitMu from its last check to the end *)
(* of the commit; a commit that fails cancels the run.                      *)
CommitCheck(c) ==
  /\ WorkerStep(c, "staged", "checked") /\ LifetimeActive(c)
  /\ UNCHANGED <<ctx, sup, cause, life, clientVars, carryVars, reg, draining, flushVars,
                 active, queued, received, bundle, published, commits, req, ended, home>>
Commit(c) ==
  /\ WorkerStep(c, "checked", "committed")
  /\ commits' = [n |-> commits.n + 1, by |-> c]
  /\ UNCHANGED <<ctx, sup, cause, life, clientVars, carryVars, reg, draining, flushVars,
                 active, queued, received, bundle, published, req, ended, home>>

(* commitConfigUpdate or applyConfigRuntime fails. *)
WorkerFails(c) ==
  /\ WorkerStep(c, "checked", "done") \/ WorkerStep(c, "committed", "done")
  /\ CancelRun
  /\ UNCHANGED <<sup, cause, life, clientVars, carryVars, reg, draining, flushVars,
                 active, queued, received, bundle, published, commits, req, ended, home>>
ApplyRuntime(c) ==
  /\ WorkerStep(c, "committed", "finalize") /\ LifetimeActive(c)
  /\ UNCHANGED <<ctx, sup, cause, life, clientVars, carryVars, reg, draining, flushVars,
                 active, queued, received, bundle, published, commits, req, ended, home>>

(* Plugins finalized; the first config also publishes the bundle, checked   *)
(* once more under homeMu.                                                  *)
Finalize(c) ==
  /\ WorkerStep(c, "finalize", "idle") /\ LifetimeActive(c)
  /\ published' = TRUE
  /\ bundle' = IF published THEN bundle ELSE <<c, reg>>
  /\ UNCHANGED <<ctx, sup, cause, life, clientVars, carryVars, reg, draining, flushVars,
                 active, queued, received, commits, req, ended, home>>

(* A context ended while plugins are finalized: the client is closed. *)
CloseOnCancellation(c) ==
  /\ worker[c] = "finalize" /\ ~LifetimeActive(c) /\ ~fenced[c]
  /\ fenced' = [fenced EXCEPT ![c] = TRUE] /\ heartbeat' = [heartbeat EXCEPT ![c] = FALSE]
  /\ UNCHANGED <<ctx, sup, cause, life, ambiguous, carryVars, reg, draining, flushVars,
                 workVars, bundle, published, commits, req, ended, home>>

(* Every other point of the worker returns once a context is done. *)
WorkerLeaves(c) ==
  /\ worker[c] \in {"waiting", "idle", "staged", "committed", "finalize"}
  /\ ~LifetimeActive(c) /\ worker' = [worker EXCEPT ![c] = "done"]
  /\ UNCHANGED <<ctx, sup, cause, life, clientVars, carryVars, reg, draining, flushVars,
                 active, queued, received, bundle, published, commits, req, ended, home>>

-----------------------------------------------------------------------------
(* pickHomeDispatchSelection, for a request Home accounts for. *)
ReqStep(i, from, to) == req[i].pc = from /\ req' = [req EXCEPT ![i].pc = to]

reqFrame == <<ctx, sup, cause, life, carryVars, reg, flushing, workVars, bundle,
              published, commits>>

(* The bundle is loaded once, and its client's heartbeat checked. *)
BundleReady == bundle # None /\ heartbeat[bundle[1]]
LoadBundle(i) ==
  /\ req[i].pc = "idle" /\ BundleReady
  /\ req' = [req EXCEPT ![i] = [pc |-> "loaded", c |-> bundle[1], r |-> bundle[2]]]
  /\ UNCHANGED <<reqFrame, clientVars, draining, latest, acked, ended, home>>

BeginDispatch(i) ==
  /\ ReqStep(i, "loaded", IF draining[req[i].r] THEN "over" ELSE "pending")
  /\ UNCHANGED <<reqFrame, clientVars, draining, latest, acked, ended, home>>

(* rPopAuth: the last fence check, then the command is issued. *)
Issue(i) ==
  /\ ReqStep(i, "pending", IF fenced[req[i].c] THEN "settled" ELSE "issued")
  /\ UNCHANGED <<reqFrame, clientVars, draining, latest, acked, ended, home>>

(* Home grants a slot, or answers that it does not.  It never answers a     *)
(* grant with an empty reply or a body that is no object: those the code    *)
(* takes for a denial, without an abort (client.go:1376,                    *)
(* conductor_home.go:998).                                                  *)
HomeGrants(i) ==
  /\ ReqStep(i, "issued", "granted")
  /\ home' = [home EXCEPT !.granted = @ + 1]
  /\ UNCHANGED <<reqFrame, clientVars, draining, latest, acked, ended>>
HomeDenies(i) ==
  /\ ReqStep(i, "issued", "settled")
  /\ UNCHANGED <<reqFrame, clientVars, draining, latest, acked, ended, home>>

(* No usable reply, whether or not a slot was granted. *)
ReplyLost(i) ==
  /\ req[i].pc \in {"issued", "granted"}
  /\ req' = [req EXCEPT ![i].pc = "unknown"]
  /\ home' = [home EXCEPT !.lost = IF req[i].pc = "granted" THEN @ + 1 ELSE @]
  /\ UNCHANGED <<reqFrame, clientVars, draining, latest, acked, ended>>

(* Install: refused by a draining registry; a reply that fails validation   *)
(* afterwards is aborted too.                                               *)
Install(i) ==
  /\ req[i].pc = "granted"
  /\ \/ /\ draining[req[i].r]
        /\ req' = [req EXCEPT ![i].pc = "unknown"]
        /\ home' = [home EXCEPT !.lost = @ + 1]
     \/ /\ ~draining[req[i].r]
        /\ \E pc \in {"live", "invalid"} : req' = [req EXCEPT ![i].pc = pc]
        /\ UNCHANGED home
  /\ UNCHANGED <<reqFrame, clientVars, draining, latest, acked, ended>>

(* AbortAmbiguousDispatch: ambiguous is stored before the fence and the     *)
(* heartbeat; the supervisor reads it after it saw the heartbeat gone.      *)
AbortingSwapped(i, before, between, after) ==
  \/ ReqStep(i, before, between)
     /\ fenced' = [fenced EXCEPT ![req[i].c] = TRUE]
     /\ heartbeat' = [heartbeat EXCEPT ![req[i].c] = FALSE]
     /\ UNCHANGED ambiguous
  \/ ReqStep(i, between, after)
     /\ ambiguous' = [ambiguous EXCEPT ![req[i].c] = TRUE]
     /\ UNCHANGED <<fenced, heartbeat>>
Aborting(i, before, between, after) ==
  \/ ReqStep(i, before, between)
     /\ ambiguous' = [ambiguous EXCEPT ![req[i].c] = TRUE]
     /\ UNCHANGED <<fenced, heartbeat>>
  \/ ReqStep(i, between, after)
     /\ fenced' = [fenced EXCEPT ![req[i].c] = TRUE]
     /\ heartbeat' = [heartbeat EXCEPT ![req[i].c] = FALSE]
     /\ UNCHANGED ambiguous

Abort(i) ==
  /\ \/ Aborting(i, "unknown", "fencing", "settled")
     \/ Aborting(i, "invalid", "marked", "fenced")
  /\ UNCHANGED <<reqFrame, draining, latest, acked, ended, home>>

PendingEnd(i) ==
  /\ ReqStep(i, "settled", "over")
  /\ UNCHANGED <<reqFrame, clientVars, draining, latest, acked, ended, home>>

(* Scope.End: the sink of a registry that is replaced is detached. *)
SinkAttached(r) == r = reg /\ sup \notin {"drain", "deferred", "done"}
ScopeEnd(i) ==
  /\ \/ ReqStep(i, "live", "over")
     \/ ReqStep(i, "fenced", "over")
  /\ LET r == req[i].r IN
       /\ ended' = [ended EXCEPT ![r] = @ + 1]
       /\ latest' = IF SinkAttached(r) /\ ended[r] + 1 > latest THEN ended[r] + 1
                    ELSE latest
  /\ UNCHANGED <<reqFrame, clientVars, draining, acked, home>>

(* flush through PushConcurrencyRelease: refused by a fenced client and     *)
(* until a takeover has finished.  Home keeps the highest sequence, and     *)
(* drops what is still on its way from a connection that was closed, so a   *)
(* send is one step; late frames are module ReleaseFlusher's.               *)
PushRelease ==
  /\ flushing /\ latest > acked /\ ~fenced[life] /\ recovery = "stable"
  /\ home' = [home EXCEPT !.released = IF latest > @ THEN latest ELSE @]
  /\ acked' \in {acked, latest}
  /\ UNCHANGED <<reqFrame, clientVars, draining, latest, req, ended>>

-----------------------------------------------------------------------------
Supervise ==
  \/ StartLifetime \/ LeaveLoop \/ GotConfig \/ HomeSubscribes \/ HomeRefuses \/ ProbeOK
  \/ SetupFails \/ CancelLifetime \/ Detach \/ Retry \/ Settled \/ Replace
  \/ ReplacementFails \/ Backoff \/ LastDrain \/ LastFlush \/ Flushed \/ LastFails
  \/ Deferred
Work(c) ==
  \/ Stage(c) \/ CommitCheck(c) \/ Commit(c) \/ ApplyRuntime(c) \/ Finalize(c)
  \/ CloseOnCancellation(c) \/ WorkerLeaves(c)
Dispatch(i) ==
  \/ BeginDispatch(i) \/ Issue(i) \/ HomeGrants(i) \/ HomeDenies(i) \/ ReplyLost(i)
  \/ Install(i) \/ Abort(i) \/ PendingEnd(i) \/ ScopeEnd(i)

Next ==
  \/ Supervise \/ ConfigMessage \/ ReceiveFails \/ PushRelease
  \/ Shutdown \/ RunCancelled
  \/ \E c \in Lifetimes : Work(c) \/ WorkerFails(c)
  \/ \E i \in Requests : LoadBundle(i) \/ Dispatch(i)

Spec == Init /\ [][Next]_vars

(* Every goroutine runs; calls to Home are bounded by timeouts; a client    *)
(* whose connections an abort closed fails its receive.                     *)
FairSpec ==
  /\ Spec /\ WF_vars(Supervise)
  /\ WF_vars(ReceiveFails /\ fenced[life])
  /\ \A c \in Lifetimes : WF_vars(Work(c))
  /\ \A i \in Requests : WF_vars(Dispatch(i))

-----------------------------------------------------------------------------
(* Properties. *)

(* A SUBSCRIBE that asks for a fresh membership, on which Home forgets what *)
(* it counted, is only sent when no execution Home granted still runs here. *)
FreshMeansDrained == sup = "subscribe" /\ ~Takeover => Occupying = {}

(* Home never counts less than what runs here.  While a lifetime is up it   *)
(* counts exactly that, what was released and is still to be sent, and the  *)
(* grants whose reply was lost, which only an ambiguous client may have.    *)
HomeCount == home.granted - home.released
CapacityAccounted ==
  /\ Cardinality(Occupying) <= HomeCount
  /\ sup = "receive" =>
       /\ HomeCount = Cardinality(Occupying) + (ended[reg] - home.released) + home.lost
       /\ latest = ended[reg] /\ acked <= home.released /\ home.released <= latest
       /\ home.lost > 0 => \/ ambiguous[life]
                           \/ \E i \in Requests : req[i].pc = "unknown" /\ req[i].c = life

(* A config of an earlier lifetime is never committed after one of a later  *)
(* lifetime, and none at all once Shutdown has cancelled the supervisor.    *)
CommitsInOrder ==
  [][commits' # commits => commits'.by >= commits.by /\ ctx # "stopped"]_vars

(* A run that Shutdown ended without an error leaves nothing running, and   *)
(* if it ended by the last flush Home knows of every release.               *)
CleanEnd ==
  [][/\ sup' = "done" /\ ctx' = "stopped" => ~InstalledIn(reg) /\ ~PendingIn(reg)
     /\ sup = "lastFlush" /\ sup' = "deferred" /\ ctx' = "stopped"
          => home.released >= ended[reg] /\ ~InstalledIn(reg)]_vars

(* A slot whose reply was lost is not lost for ever: the lifetime is        *)
(* replaced by a fresh membership, or the run ends.                         *)
AmbiguityCleared ==
  home.lost > 0 ~> home.lost = 0 \/ ctx # "live" \/ (sup = "start" /\ life = MaxLifetimes)
=============================================================================
