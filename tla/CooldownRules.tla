--------------------------- MODULE CooldownRules ---------------------------
(***************************************************************************)
(* What one execution result, a refresh, an edit or a reset does to one    *)
(* credential of sdk/cliproxy/auth: the pure part of conductor_cooldown.go,*)
(* conductor_lifecycle.go, conductor_refresh.go and selector.go.           *)
(* CredentialState says which goroutine applies them, and under which lock.*)
(*                                                                         *)
(* Times are naturals and 0 is Go's zero time.  An Auth and a ModelState   *)
(* share the five cooldown fields, so one operator serves both.  Messages, *)
(* timestamps of update and the observed quota headers are left out: no    *)
(* routing decision reads them.                                            *)
(***************************************************************************)
EXTENDS Integers, FiniteSets

CONSTANTS Models,       \* canonical model keys
          NoModel,      \* a result that names no model
          BackoffBase,  \* quotaBackoffBase
          BackoffMax,   \* quotaBackoffMax
          ChallengeMin, \* the floor of a Cloudflare cooldown
          Transient,    \* transientErrorCooldown, or a positive configured value
          Penalty,      \* 30 minutes: 401, 402, 403, invalid_grant, invalid key
          LongPenalty   \* 12 hours: 404 and unsupported models

ASSUME DurationsAssumption ==
    /\ {BackoffBase, BackoffMax, ChallengeMin, Transient, Penalty, LongPenalty} \subseteq Nat \ {0}
    /\ BackoffBase <= BackoffMax
ASSUME ModelsAssumption == IsFiniteSet(Models) /\ NoModel \notin Models

Later(s, t) == IF s > t THEN s ELSE t
Earliest(T) == CHOOSE t \in T : \A u \in T : t <= u
Highest(T)  == CHOOSE t \in T : \A u \in T : u <= t

Quiet == [exceeded |-> FALSE, reason |-> "none", recoverAt |-> 0, level |-> 0]
Clean == [unavail |-> FALSE, status |-> "active", retryAt |-> 0, err |-> "none", quota |-> Quiet]
Fresh == [unavail |-> FALSE, status |-> "active", retryAt |-> 0, err |-> "none", quota |-> Quiet,
          disabled |-> FALSE, models |-> << >>, token |-> 0, counted |-> 0]

StateOf(a, m) == IF m \in DOMAIN a.models THEN a.models[m] ELSE Clean
WithState(a, m, s) ==
    [a EXCEPT !.models = [k \in DOMAIN a.models \cup {m} |-> IF k = m THEN s ELSE a.models[k]]]
Uncooled(x) == [x EXCEPT !.unavail = FALSE, !.retryAt = 0, !.quota = Quiet]
Cooling(x) == x.unavail \/ x.retryAt # 0 \/ x.quota.exceeded \/ x.quota.recoverAt # 0

-----------------------------------------------------------------------------
(* Availability, as selection computes it.                                 *)

CredentialWindow(a, now) ==
    a.quota.exceeded /\ a.quota.reason = "credential" /\ a.quota.recoverAt > now

\* until = 0 with blocked is an open-ended block.
BlockStuck(x, now) == \* mutant: a window that has lapsed still blocks
    [blocked |-> x.unavail \/ x.quota.exceeded, until |-> Later(x.retryAt, x.quota.recoverAt)]
Block(x, now) ==
    LET ahead == {t \in {x.retryAt, x.quota.recoverAt} : t > now} IN
    IF ~x.unavail /\ ~x.quota.exceeded THEN [blocked |-> FALSE, until |-> 0]
    ELSE IF ahead # {} THEN [blocked |-> TRUE, until |-> Highest(ahead)]
    ELSE [blocked |-> x.retryAt = 0 /\ x.quota.recoverAt = 0, until |-> 0]

Availability(a, m, now) ==
    IF a.disabled THEN [blocked |-> TRUE, until |-> 0]
    ELSE IF CredentialWindow(a, now) THEN [blocked |-> TRUE, until |-> a.quota.recoverAt]
    ELSE IF DOMAIN a.models = {} THEN Block(a, now)
    ELSE IF m \in DOMAIN a.models THEN Block(a.models[m], now)
    ELSE [blocked |-> FALSE, until |-> 0]

\* Models whose window has lapsed are reopened on the way.
Lapse(s, now) ==
    IF s.unavail /\ s.retryAt # 0 /\ s.retryAt <= now
    THEN [s EXCEPT !.unavail = FALSE, !.retryAt = 0] ELSE s

AggregatedQuota(a, states, now) ==
    LET over    == {s \in states : s.quota.exceeded}
        recover == {s.quota.recoverAt : s \in over} \ {0}
    IN  IF over # {}
        THEN [exceeded  |-> TRUE, reason |-> "quota",
              recoverAt |-> Later(a.quota.recoverAt, IF recover = {} THEN 0 ELSE Earliest(recover)),
              level     |-> Highest({s.quota.level : s \in over})]
        ELSE IF a.quota.exceeded /\ a.quota.recoverAt > now THEN a.quota ELSE Quiet

Aggregate(a, now) ==
    LET models == [m \in DOMAIN a.models |-> Lapse(a.models[m], now)]
        states == {models[m] : m \in DOMAIN models}
        shut(s) == s.unavail /\ s.retryAt > now
        all    == \A s \in states : shut(s)
    IN  IF CredentialWindow(a, now) THEN [a EXCEPT !.unavail = TRUE]
        ELSE IF states = {} THEN Uncooled(a)
        ELSE [a EXCEPT !.models  = models,
                       !.unavail = all,
                       !.retryAt = IF all THEN Earliest({s.retryAt : s \in states}) ELSE 0,
                       !.quota   = AggregatedQuota(a, states, now)]

HasModelError(a, now) ==
    \E m \in DOMAIN a.models :
        LET s == a.models[m] IN
        s.err # "none" \/ (s.status = "error" /\ s.unavail /\ (s.retryAt = 0 \/ s.retryAt > now))

Forgive(a, now) ==
    IF HasModelError(a, now) THEN a ELSE [a EXCEPT !.err = "none", !.status = "active"]

-----------------------------------------------------------------------------
(* Failures.  A result is [class, model, retryAfter (0: none), scope,      *)
(* forced], forced if a rule of request-scoped errors enforces a cooldown. *)

Backoff(level) == IF BackoffBase * 2^level >= BackoffMax THEN BackoffMax ELSE BackoffBase * 2^level
NextLevel(level) == IF BackoffBase * 2^level >= BackoffMax THEN level ELSE level + 1

\* A failure inside an open window reuses it instead of escalating.
WindowNever(q, now) == FALSE \* mutant: every failure escalates
WindowOpen(q, now) == q.recoverAt > now
QuotaAfterFailure(q, now) ==
    IF WindowOpen(q, now) THEN [until |-> q.recoverAt, level |-> q.level]
    ELSE [until |-> now + Backoff(q.level), level |-> NextLevel(q.level)]

ChallengeAfterFailure(q, now) ==
    [until |-> now + Later(ChallengeMin, Backoff(q.level)), level |-> NextLevel(q.level)]

\* A named recovery instant is used as it is, but never shortens a window.
QuotaWindow(q, r, now) ==
    LET w == IF r.retryAfter # 0 THEN [until |-> now + r.retryAfter, level |-> q.level]
             ELSE QuotaAfterFailure(q, now)
    IN  [w EXCEPT !.until = Later(w.until, IF q.exceeded THEN q.recoverAt ELSE 0)]

Shut(x, until) == [x EXCEPT !.unavail = TRUE, !.status = "error", !.retryAt = until]
Limited(x, until, reason, level) ==
    [Shut(x, until) EXCEPT !.quota = [exceeded |-> TRUE, reason |-> reason, recoverAt |-> until, level |-> level]]

ErrOf(r) == IF r.class = "unauthorized" THEN "unauthorized" ELSE "other"

\* With cooling disabled a failure opens no window of its own.
Window(now, span, off) == IF off THEN 0 ELSE now + span
Unshut(x, off) ==
    IF off /\ x.retryAt = 0 /\ x.quota.recoverAt = 0
    THEN [x EXCEPT !.unavail = FALSE, !.quota.exceeded = FALSE] ELSE x

\* The failing model's state, or the whole credential when no model is named.
Failed(x, r, now, off) ==
    LET y == [x EXCEPT !.err = ErrOf(r)]
        w == IF off THEN [until |-> 0, level |-> x.quota.level] ELSE QuotaWindow(x.quota, r, now)
        c == IF off THEN [until |-> 0, level |-> x.quota.level] ELSE ChallengeAfterFailure(x.quota, now)
        t == Window(now, Transient, off)
    IN  CASE r.class = "quota"       -> Limited(y, w.until, "quota", w.level)
          [] r.class = "challenge"   -> Limited(y, c.until, "challenge", c.level)
          [] r.class = "invalidkey"  -> IF off THEN Shut(y, 0) ELSE Limited(y, now + Penalty, "credential", 0)
          [] r.class = "unsupported" -> Shut(y, now + LongPenalty)
          [] r.class = "notfound"    -> Shut(y, Window(now, LongPenalty, off))
          [] r.class = "transient"   -> [Shut(y, t) EXCEPT !.unavail = t # 0]
          [] OTHER                   -> Shut(y, Window(now, Penalty, off))

\* A quota failure of the whole credential reaches its other models and itself.
SpreadQuota(a, m, until, level) ==
    LET reach(s) == Limited(s, Later(until, IF s.quota.exceeded THEN s.quota.recoverAt ELSE 0), "credential", level)
        last == Later(until, a.quota.recoverAt)
    IN  [a EXCEPT !.models  = [k \in DOMAIN a.models |-> IF k = m THEN a.models[k] ELSE reach(a.models[k])],
                  !.unavail = TRUE, !.retryAt = last,
                  !.quota   = [@ EXCEPT !.exceeded = TRUE, !.reason = "credential", !.recoverAt = last]]

\* A rejected key shuts the credential and every model it has a state for.
SpreadInvalidKey(a, until) ==
    LET shut == [m \in DOMAIN a.models |-> Limited(a.models[m], until, "credential", 0)]
    IN  [Limited(a, until, "credential", 0) EXCEPT !.models = shut]

FailModel(a, r, now, off) ==
    LET s == Failed(StateOf(a, r.model), r, now, off)
        b == [WithState(a, r.model, s) EXCEPT !.err = ErrOf(r)]
        c == CASE r.class = "quota" /\ r.scope /\ ~off -> SpreadQuota(b, r.model, s.quota.recoverAt, s.quota.level)
               [] r.class = "invalidkey" /\ ~off       -> SpreadInvalidKey(b, now + Penalty)
               [] OTHER                                -> b
        d == WithState(c, r.model, Unshut(c.models[r.model], off))
    IN  Aggregate([d EXCEPT !.status = "error"], now)

FailCredential(a, r, now, off) ==
    LET b == Failed(a, r, now, off)
    IN  Unshut(IF r.class = "invalidkey" /\ ~off THEN SpreadInvalidKey(b, now + Penalty) ELSE b, off)

\* ErrorCodeForceCooldown overrides the configuration.
Spared(r, off) == off /\ ~r.forced

\* A request-scoped failure says nothing about the credential.
ApplyFailure(a, r, now, off) ==
    IF r.class = "requestfault" THEN a
    ELSE IF r.model = NoModel THEN FailCredential(a, r, now, Spared(r, off))
    ELSE FailModel(a, r, now, Spared(r, off))

\* A success of a request sent before a credential-wide window opened keeps it.
NeverKeeps(a, now) == FALSE \* mutant: a success clears whatever it finds
KeepsWindow(a, now) == a.quota.reason = "credential" /\ a.quota.recoverAt > now
ApplySuccess(a, r, now) ==
    IF KeepsWindow(a, now) THEN a
    ELSE IF r.model = NoModel THEN [Uncooled(a) EXCEPT !.status = "active", !.err = "none"]
    ELSE Forgive(Aggregate(WithState(a, r.model, Clean), now), now)

Counted(a) == [a EXCEPT !.counted = @ + 1]
ApplyResult(a, r, now, off) ==
    Counted(IF r.class = "success" THEN ApplySuccess(a, r, now) ELSE ApplyFailure(a, r, now, off))

-----------------------------------------------------------------------------
(* Everything else that writes a credential.                               *)

\* clearCooldownStateForAuth: windows go, recorded errors stay.
ClearCooldown(a, now) ==
    LET own == IF Cooling(a) THEN Uncooled(a) ELSE a
        b   == [own EXCEPT !.models = [m \in DOMAIN a.models |->
                   IF Cooling(a.models[m]) THEN Uncooled(a.models[m]) ELSE a.models[m]]]
    IN  IF DOMAIN a.models = {} THEN b ELSE Aggregate(b, now)

Reset(a, now) ==
    LET b == ClearCooldown([a EXCEPT !.models = [m \in DOMAIN a.models |-> Clean]], now)
    IN  IF a.disabled THEN b ELSE Forgive(b, now)

\* States of models the registry no longer lists go, the others start clean.
Reconcile(a, supported, now) ==
    LET kept == [m \in DOMAIN a.models \cap supported |-> Clean]
    IN  IF kept = a.models THEN a ELSE Forgive(Aggregate([a EXCEPT !.models = kept], now), now)

TotalsOfNew(new, old) == new.counted \* mutant: the totals of the copy
Totals(new, old) == old.counted
\* What Update takes over from the record it replaces.
Merge(new, old, now, off) ==
    LET inherit == ~old.disabled /\ ~new.disabled
        models  == IF inherit /\ DOMAIN new.models = {} THEN old.models ELSE new.models
        carried == [new EXCEPT !.counted = Totals(new, old), !.models = models]
        status  == IF new.status = "active" THEN old.status ELSE new.status
        merged  == IF inherit /\ CredentialWindow(old, now)
                   THEN [carried EXCEPT !.unavail = old.unavail, !.retryAt = old.retryAt,
                                        !.quota = old.quota, !.status = status]
                   ELSE carried
    IN  IF off \/ new.disabled THEN ClearCooldown(merged, now) ELSE merged

\* A successful refresh forgives the 401s, and only those.
Refreshed(a, token, now) ==
    LET denied == {m \in DOMAIN a.models : a.models[m].err = "unauthorized"}
        b == [a EXCEPT !.token = token, !.err = "none", !.unavail = FALSE, !.status = "active",
                       !.models = [m \in DOMAIN @ |-> IF m \in denied THEN Clean ELSE @[m]]]
    IN  IF denied = {} THEN b ELSE Aggregate(b, now)

\* A failed refresh is written into the manager's own record.
RefreshDenied(a) == [a EXCEPT !.err = "unauthorized", !.unavail = TRUE, !.status = "error"]
RefreshErred(a)  == [a EXCEPT !.err = "other"]
=============================================================================
