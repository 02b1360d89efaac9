-------------------------- MODULE CredentialState --------------------------
(***************************************************************************)
(* One credential of auth.Manager, written by everybody who may write it.  *)
(*                                                                         *)
(* Manager.mutationMu serialises MarkResult, Register, Update and Remove,  *)
(* but each of them lets go of Manager.mu to persist: it computes a NEW    *)
(* record from the current one, saves it, stores it, then hands it to the  *)
(* scheduler.  ResetQuota, ReconcileRegistryModelStates, SetConfig, a      *)
(* failed refresh and recordAvailabilityNeutralResult take Manager.mu only *)
(* and change the CURRENT record in place, in between.  A refresh and an   *)
(* edit start from a copy taken long before their Update.  The scheduler   *)
(* keeps the very record the mutators stored, and copies of late writers.  *)
(*                                                                         *)
(* Granularity: one action per critical section of Manager.mu, per store   *)
(* of the token file and per call of the scheduler (its own mutex).        *)
(* Credentials share the locks only, so one of them is modelled.           *)
(***************************************************************************)
EXTENDS CooldownRules

CONSTANTS Results,  \* the results requests may report
          Late,     \* goroutines that may be holding a copy for the scheduler
          Ops,      \* the operations the environment calls
          MaxTime,  \* bound: the clock stops here
          LastCall, \* bound: nothing is called after this instant
          MaxCalls  \* bound: calls the environment makes

ASSUME BoundsAssumption ==
    /\ MaxTime \in Nat \ {0} /\ LastCall \in 1 .. MaxTime /\ MaxCalls \in Nat
    /\ \A r \in Results : r.model \in Models \cup {NoModel} /\ r.retryAfter \in Nat /\ r.forced \in BOOLEAN

VARIABLES now,       \* the clock
          calls,     \* calls made so far
          off,       \* cooling is disabled by configuration
          auth,      \* Manager.auths[id], or Gone
          mutation,  \* the holder of mutationMu
          refresh,   \* the holder of the credential's refresh lock
          edit,      \* a management handler or file watcher at work on a copy
          late,      \* copies on their way to the scheduler
          sched,     \* the scheduler's record and its per-model entries, or Gone
          tokens,    \* access tokens issued; the newest is the highest
          spent,     \* tokens whose refresh credential was exchanged
          reported,  \* results recorded, by any path
          reset      \* ResetQuota ran, and no failure was recorded since

copies == <<refresh, edit, late>>
ghosts == <<tokens, spent, reported, reset>>
vars   == <<now, calls, off, auth, mutation, copies, sched, ghosts>>

Idle == [phase |-> "idle"]
Gone == [phase |-> "gone"] \* no such record

-----------------------------------------------------------------------------
(* The scheduler (scheduler.go).  shared: its record is the manager's own. *)

Entry(a, m) == LET b == Availability(a, m, now) IN [ready |-> ~b.blocked, until |-> b.until]

\* upsertAuthLocked drops a disabled credential.
Upserted(a, isShared) ==
    IF a = Gone THEN Gone
    ELSE IF a.disabled THEN Gone
    ELSE [shared |-> isShared, copy |-> IF isShared THEN Gone ELSE a,
          entry  |-> [m \in Models |-> Entry(a, m)]]

SchedRecord == IF sched.shared THEN auth ELSE sched.copy

\* The manager replaces its record: the scheduler is left with the old one.
Unshared == IF sched # Gone /\ sched.shared THEN [sched EXCEPT !.shared = FALSE, !.copy = auth] ELSE sched

\* promoteExpiredLocked: only an entry whose time has come is looked at again.
DueLate(e) == ~e.ready /\ e.until # 0 /\ e.until < now \* mutant: one instant late
Due(e) == ~e.ready /\ e.until # 0 /\ e.until <= now
Promoted(m) == IF Due(sched.entry[m]) THEN Entry(SchedRecord, m) ELSE sched.entry[m]
Offered(m) == sched # Gone /\ Promoted(m).ready

Pick(m) ==
    /\ sched # Gone /\ Due(sched.entry[m])
    /\ sched' = [sched EXCEPT !.entry[m] = Promoted(m)]
    /\ UNCHANGED <<now, calls, off, auth, mutation, copies, ghosts>>

-----------------------------------------------------------------------------
(* The mutators: begin (compute), persist, store, publish.                 *)

Call(op) ==
    /\ op \in Ops /\ calls < MaxCalls /\ now <= LastCall
    /\ calls' = calls + 1

Holding(by, rec, class) == [phase |-> "persist", by |-> by, rec |-> rec, class |-> class]
Failure(class) == class \notin {"none", "success"}

MarkResult(r) ==
    /\ Call("mark") /\ mutation = Idle /\ auth # Gone
    /\ mutation' = Holding("mark", ApplyResult(auth, r, now, off), r.class)
    /\ UNCHANGED <<now, off, auth, copies, sched, ghosts>>

Register ==
    /\ Call("register") /\ mutation = Idle /\ auth = Gone
    /\ mutation' = Holding("register", [Fresh EXCEPT !.token = tokens], "none")
    /\ UNCHANGED <<now, off, auth, copies, sched, ghosts>>

UpdateSkipped == \* mutant: the refreshed record stays with its caller
    /\ refresh.phase = "update" /\ mutation = Idle /\ refresh' = Idle
    /\ UNCHANGED <<now, calls, off, auth, mutation, edit, late, sched, ghosts>>
\* Update fails on a credential that was removed meanwhile.
UpdateRefreshed ==
    /\ refresh.phase = "update" /\ mutation = Idle
    /\ IF auth = Gone
       THEN refresh' = Idle /\ UNCHANGED mutation
       ELSE /\ mutation' = Holding("refresh", Merge(refresh.rec, auth, now, off), "none")
            /\ refresh' = [refresh EXCEPT !.phase = "saving"]
    /\ UNCHANGED <<now, calls, off, auth, edit, late, sched, ghosts>>

UpdateEdited ==
    /\ edit # Idle /\ mutation = Idle
    /\ mutation' = IF auth = Gone THEN Idle ELSE Holding("edit", Merge(edit.rec, auth, now, off), "none")
    /\ edit' = Idle
    /\ UNCHANGED <<now, calls, off, auth, refresh, late, sched, ghosts>>

Remove ==
    /\ Call("remove") /\ mutation = Idle /\ auth # Gone
    /\ auth' = Gone /\ sched' = Unshared
    /\ mutation' = [phase |-> "publish", by |-> "remove"]
    /\ UNCHANGED <<now, off, copies, ghosts>>

\* The refresh lock outlives the Update it waits for.
RefreshAfter(by) == IF by = "refresh" THEN Idle ELSE refresh

\* Nothing is stored when the token file cannot be written.
PersistFails ==
    /\ Call("persistfail") /\ mutation.phase = "persist"
    /\ mutation' = Idle /\ refresh' = RefreshAfter(mutation.by)
    /\ UNCHANGED <<now, off, auth, edit, late, sched, ghosts>>

Store ==
    /\ mutation.phase = "persist"
    /\ auth' = mutation.rec /\ sched' = Unshared
    /\ mutation' = [phase |-> "publish", by |-> mutation.by]
    /\ reported' = CASE mutation.by = "mark"     -> reported + 1
                     [] mutation.by = "register" -> 0
                     [] OTHER                    -> reported
    /\ reset' = (reset /\ ~Failure(mutation.class))
    /\ UNCHANGED <<now, calls, off, copies, tokens, spent>>

\* upsertAuth gets the stored record itself; removeAuth nothing.
Publish ==
    /\ mutation.phase = "publish"
    /\ sched' = Upserted(auth, TRUE)
    /\ mutation' = Idle /\ refresh' = RefreshAfter(mutation.by)
    /\ UNCHANGED <<now, calls, off, auth, edit, late, ghosts>>

-----------------------------------------------------------------------------
(* refreshAuthForRequest, under the credential's refresh lock.             *)

\* A caller that names the token it failed with finds a newer one.
StillNeeded(failed) == failed = 0 \/ failed = auth.token

\* failed = 0: the refresh loop; otherwise a request that got a 401 with it.
RefreshBegin(failed) ==
    /\ Call("refresh") /\ refresh = Idle /\ auth # Gone
    /\ StillNeeded(failed)
    /\ refresh' = [phase |-> "calling", rec |-> auth, from |-> auth.token]
    /\ UNCHANGED <<now, off, auth, mutation, edit, late, sched, ghosts>>

RefreshSucceeds ==
    /\ refresh.phase = "calling"
    /\ tokens' = tokens + 1 /\ spent' = spent \cup {refresh.from}
    /\ refresh' = [refresh EXCEPT !.phase = "update", !.rec = Refreshed(refresh.rec, tokens + 1, now)]
    /\ UNCHANGED <<now, calls, off, auth, mutation, edit, late, sched, reported, reset>>

RefreshCanceled ==
    /\ refresh.phase = "calling" /\ refresh' = Idle
    /\ UNCHANGED <<now, calls, off, auth, mutation, edit, late, sched, ghosts>>

\* In place, with the scheduler called under Manager.mu.
RefreshFails ==
    /\ refresh.phase = "calling" /\ refresh' = Idle
    /\ IF auth = Gone THEN UNCHANGED <<auth, sched>>
       ELSE \E a \in {RefreshDenied(auth), RefreshErred(auth)} :
                auth' = a /\ sched' = Upserted(a, FALSE)
    /\ UNCHANGED <<now, calls, off, mutation, edit, late, ghosts>>

-----------------------------------------------------------------------------
(* Edits: PatchAuthFileStatus copies the record and flips it; the watcher  *)
(* builds a new one from the file and passes the current model states on.  *)

Toggled == [auth EXCEPT !.disabled = ~@, !.status = "active"]
FromFile == [Fresh EXCEPT !.token = auth.token, !.models = IF auth.disabled THEN << >> ELSE auth.models]

EditBegin ==
    /\ edit = Idle /\ auth # Gone
    /\ \/ Call("toggle") /\ edit' = [phase |-> "ready", rec |-> Toggled]
       \/ Call("file")   /\ edit' = [phase |-> "ready", rec |-> FromFile]
    /\ UNCHANGED <<now, off, auth, mutation, refresh, late, sched, ghosts>>

-----------------------------------------------------------------------------
(* In-place writers, and copies that reach the scheduler later.            *)

RecordNeutral ==
    /\ Call("neutral") /\ auth # Gone
    /\ auth' = Counted(auth) /\ reported' = reported + 1
    /\ UNCHANGED <<now, off, mutation, copies, sched, tokens, spent, reset>>

Free(g) == late[g] = Idle
Carry(g, by, a) == late' = [late EXCEPT ![g] = [phase |-> "carry", by |-> by, rec |-> a]]

\* The record is reset even when the reset cannot be saved.
ResetQuota(g) ==
    /\ Call("reset") /\ Free(g) /\ auth # Gone
    /\ auth' = Reset(auth, now)
    /\ \/ Carry(g, "reset", auth') /\ reset' = TRUE
       \/ UNCHANGED <<late, reset>>
    /\ UNCHANGED <<now, off, mutation, refresh, edit, sched, tokens, spent, reported>>

ReconcileModels(g) ==
    /\ Call("reconcile") /\ Free(g) /\ auth # Gone
    /\ \E supported \in SUBSET Models :
           /\ auth' = Reconcile(auth, supported, now)
           /\ auth' # auth /\ Carry(g, "reconcile", auth')
    /\ UNCHANGED <<now, off, mutation, refresh, edit, sched, ghosts>>

\* setConfigSnapshotLocked, under configCooldownMu: the switch, then the records.
Configuring == \E g \in Late : late[g] # Idle /\ late[g].by = "config"
SetCooling(g) ==
    /\ Call("config") /\ Free(g) /\ ~Configuring
    /\ off' = ~off
    /\ late' = [late EXCEPT ![g] = [phase |-> "clear", by |-> "config", rec |-> Gone]]
    /\ UNCHANGED <<now, auth, mutation, refresh, edit, sched, ghosts>>

HasCooldown(a) == Cooling(a) \/ \E m \in DOMAIN a.models : Cooling(a.models[m])
ToClear == auth # Gone /\ (off \/ auth.disabled) /\ HasCooldown(auth)
ClearDisabled(g) ==
    /\ late[g].phase = "clear"
    /\ IF ToClear THEN auth' = ClearCooldown(auth, now) /\ Carry(g, "config", auth')
                  ELSE UNCHANGED auth /\ late' = [late EXCEPT ![g] = Idle]
    /\ UNCHANGED <<now, calls, off, mutation, refresh, edit, sched, ghosts>>

\* RefreshSchedulerEntry, and syncScheduler of SetSelector.
CopyForScheduler(g) ==
    /\ Call("sync") /\ Free(g) /\ auth # Gone
    /\ Carry(g, "sync", auth)
    /\ UNCHANGED <<now, off, auth, mutation, refresh, edit, sched, ghosts>>

\* A request that is offered nothing rebuilds the scheduler and picks again.
PickFails(g) ==
    /\ "pick" \in Ops /\ Free(g)
    /\ \E m \in Models : ~Offered(m)
    /\ Carry(g, "pick", auth)
    /\ UNCHANGED <<now, calls, off, auth, mutation, refresh, edit, sched, ghosts>>

LateUpsert(g) ==
    /\ late[g].phase = "carry"
    /\ sched' = Upserted(late[g].rec, FALSE)
    /\ late' = [late EXCEPT ![g] = Idle]
    /\ UNCHANGED <<now, calls, off, auth, mutation, refresh, edit, ghosts>>

Tick ==
    /\ now < MaxTime /\ now' = now + 1
    /\ UNCHANGED <<calls, off, auth, mutation, copies, sched, ghosts>>

-----------------------------------------------------------------------------
Init ==
    /\ now = 1 /\ calls = 0 /\ off = FALSE
    /\ auth = [Fresh EXCEPT !.token = 1]
    /\ mutation = Idle /\ refresh = Idle /\ edit = Idle
    /\ late = [g \in Late |-> Idle]
    /\ sched = Upserted(auth, TRUE)
    /\ tokens = 1 /\ spent = {} /\ reported = 0 /\ reset = FALSE

FinishMutation == UpdateRefreshed \/ UpdateEdited \/ Store \/ Publish
FinishRefresh  == RefreshSucceeds \/ RefreshCanceled \/ RefreshFails
FinishLate     == \E g \in Late : ClearDisabled(g) \/ LateUpsert(g)
Picking        == \E g \in Late : PickFails(g)

Next ==
    \/ \E r \in Results : MarkResult(r)
    \/ Register \/ Remove \/ PersistFails \/ EditBegin \/ RecordNeutral
    \/ \E failed \in 0 .. tokens : RefreshBegin(failed)
    \/ \E g \in Late : ResetQuota(g) \/ ReconcileModels(g) \/ SetCooling(g) \/ CopyForScheduler(g)
    \/ \E m \in Models : Pick(m)
    \/ FinishMutation \/ FinishRefresh \/ FinishLate \/ Picking
    \/ Tick

Spec == Init /\ [][Next]_vars

\* Goroutines run, locks are released, requests keep coming, time passes.
FairSpec ==
    /\ Spec
    /\ WF_vars(FinishMutation) /\ WF_vars(FinishRefresh) /\ WF_vars(FinishLate)
    /\ WF_vars(Picking) /\ WF_vars(Tick)

-----------------------------------------------------------------------------
(* Properties.                                                             *)

Times == 0 .. MaxTime + LongPenalty + Penalty + BackoffMax + ChallengeMin + Transient + 10
Levels == {l \in 0 .. BackoffMax : l = 0 \/ BackoffBase * 2^(l - 1) < BackoffMax}
IsQuota(q) == /\ DOMAIN q = DOMAIN Quiet /\ q.exceeded \in BOOLEAN
              /\ q.reason \in {"none", "quota", "credential", "challenge"}
              /\ q.recoverAt \in Times /\ q.level \in Levels
IsState(s) == /\ s.unavail \in BOOLEAN /\ s.status \in {"active", "error"} /\ s.retryAt \in Times
              /\ s.err \in {"none", "unauthorized", "other"} /\ IsQuota(s.quota)
IsAuth(a) == /\ DOMAIN a = DOMAIN Fresh /\ IsState(a) /\ a.disabled \in BOOLEAN
             /\ DOMAIN a.models \subseteq Models /\ \A m \in DOMAIN a.models : IsState(a.models[m])
             /\ a.token \in 1 .. tokens /\ a.counted \in 0 .. MaxCalls

\* Every record a goroutine holds is a well-formed credential: a window or a
\* ladder never leaves its range (conductor_cooldown.go, types.go).
TypeOK ==
    /\ now \in 1 .. MaxTime /\ calls \in 0 .. MaxCalls /\ off \in BOOLEAN
    /\ auth = Gone \/ IsAuth(auth)
    /\ mutation.phase \in {"idle", "persist", "publish"}
    /\ mutation.phase = "persist" => IsAuth(mutation.rec)
    /\ refresh.phase \in {"idle", "calling", "update", "saving"}
    /\ refresh # Idle => IsAuth(refresh.rec)
    /\ edit # Idle => IsAuth(edit.rec)
    /\ \A g \in Late : late[g].phase = "carry" /\ late[g].rec # Gone => IsAuth(late[g].rec)
    /\ sched # Gone => /\ sched.shared => auth # Gone
                       /\ ~sched.shared => IsAuth(sched.copy)
                       /\ \A m \in Models : sched.entry[m].until \in Times

\* Nobody is between reading the manager's record and telling the scheduler.
Settled == mutation = Idle /\ \A g \in Late : late[g] = Idle

\* Every result recorded by MarkResult stays counted, across the edits and
\* refreshes that replace the record (Manager.Update takes the totals over).
ResultsCounted == auth # Gone => auth.counted = reported

\* What a result computed, against the record it started from.
Marked == mutation = Idle /\ mutation'.phase = "persist" /\ mutation'.by = "mark"
QuotaOf(a, m) == StateOf(a, m).quota
WindowIn(a, m) == IF QuotaOf(a, m).recoverAt > now THEN QuotaOf(a, m).recoverAt ELSE 0
SetsItsOwn == {"challenge", "invalidkey"}

\* Nothing but time, a reset, a disable, a challenge or a rejected key ends or shortens a
\* window: not a late success, an edit or refresh prepared before it opened nor a
\* failed refresh, for the whole credential; not a late failure of another kind, for a
\* model (MarkResult, Manager.Update).
WindowsKept ==
    [][/\ /\ auth # Gone /\ auth' # Gone
          /\ \A g \in Late : late'[g] # late[g] => late'[g] = Idle \/ late'[g].by = "reconcile"
          /\ CredentialWindow(auth, now) /\ ~auth.disabled /\ ~auth'.disabled
          /\ mutation.phase = "persist" => mutation.class \notin SetsItsOwn
          => CredentialWindow(auth', now) /\ auth'.quota.recoverAt >= auth.quota.recoverAt
       /\ Marked /\ Failure(mutation'.class) /\ mutation'.class \notin SetsItsOwn /\ ~off
          => \A m \in Models : WindowIn(auth, m) <= WindowIn(mutation'.rec, m)]_vars

\* A burst of quota failures climbs the ladder at most once per window: the
\* highest step is raised only by a model whose window had lapsed.
LadderOncePerWindow ==
    [][Marked /\ mutation'.class = "quota"
       => LET before == Highest({QuotaOf(auth, m).level : m \in Models})
              after  == Highest({QuotaOf(mutation'.rec, m).level : m \in Models})
          IN  after > before => /\ after = before + 1
                                /\ \E m \in Models : /\ QuotaOf(mutation'.rec, m).level = after
                                                     /\ QuotaOf(auth, m).recoverAt <= now]_vars

\* With no late writer the scheduler is in step: it offers the credential for
\* a model exactly when the manager's own record is not blocked for it.
SchedulerInStep ==
    Settled => /\ sched = Gone <=> (auth = Gone \/ auth.disabled)
               /\ sched # Gone => \A m \in Models : Offered(m) <=> ~Availability(auth, m, now).blocked

\* A refresh credential that was exchanged is never sent again: whoever waits
\* for the refresh lock reads the record after it got the lock.
ExchangedOnce == refresh.phase = "calling" => refresh.from \notin spent

\* Every cooldown ends: once calls have stopped, an enabled credential is
\* offered again for every model, unless its refresh was denied.
Denied == DOMAIN auth.models = {} /\ auth.unavail /\ auth.retryAt = 0 /\ auth.quota.recoverAt = 0
CooldownEnds ==
    <>[](auth = Gone \/ (auth # Gone /\ (auth.disabled \/ Denied)) \/ \A m \in Models : Offered(m))

\* "ResetQuota clears quota/cooldown state for an auth" (conductor_cooldown.go:439):
\* with no failure recorded since, nothing of it is left.
ResetQuotaSticks ==
    reset /\ Settled /\ auth # Gone => \A m \in Models : ~Availability(auth, m, now).blocked
=============================================================================
