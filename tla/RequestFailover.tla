-------------------------- MODULE RequestFailover --------------------------
(***************************************************************************)
(* One request through sdk/cliproxy/auth (conductor_execution.go,          *)
(* conductor_stream.go, conductor_ordered_failover.go and the retry        *)
(* decision of conductor_selection.go): which credentials it tries, when   *)
(* it starts over, and what it records of them, while their availability   *)
(* changes, its client may leave and the first-chunk timer runs.           *)
(*                                                                         *)
(* A pass is one executeMixedOnce, executeCountMixedOnce or                *)
(* executeStreamMixedOnce.  Without a chain of candidate models a request  *)
(* makes one pass per retry round, with a chain one pass per candidate.    *)
(* Home mode and model routing are left out.                               *)
(***************************************************************************)
EXTENDS Naturals, Sequences, FiniteSets

CONSTANTS Creds,      \* credentials of the requested model
          NoCred,
          Settings,   \* the requests considered
          MaxPasses,  \* bound: passes the histories can hold
          MaxDrift,   \* bound: changes of availability by others
          MaxUnsaved  \* bound: results that cannot be saved

(* What a request and its configuration fix:                               *)
(*   stream   ExecuteStream, otherwise Execute                             *)
(*   chain    candidate models of an ordered chain, 1 without one          *)
(*   limit    request-retry of each credential                             *)
(*   budget   max-retry-credentials, 0 for any number                      *)
(*   waits    a positive max-retry-interval                                *)
(*   pool     upstream models behind the requested one                     *)
(*   off      credentials with cooling disabled, offAll the global switch  *)
(*   excluded credentials the caller excludes                              *)
(*   bare     credentials left without an executable model                 *)
ASSUME SettingsAssumption ==
    /\ NoCred \notin Creds
    /\ MaxPasses \in Nat /\ MaxDrift \in Nat /\ MaxUnsaved \in Nat
    /\ \A s \in Settings :
          /\ s.stream \in BOOLEAN /\ s.waits \in BOOLEAN /\ s.offAll \in BOOLEAN
          /\ s.chain \in 1..MaxPasses /\ s.pool \in Nat \ {0} /\ s.budget \in Nat
          /\ s.limit \in [Creds -> 0..(MaxPasses - 1)]
          /\ s.off \subseteq Creds /\ s.excluded \subseteq Creds /\ s.bare \subseteq Creds

VARIABLES req,     \* the request, one of Settings
          avail,   \* of each credential: ready; blocked until soon (within max-retry-interval)
                   \* or late; or hard: blocked by an error no retry round is for
          gone,    \* the client has cancelled the context
          pc, pass,
          tried,   \* routeExecutionState.tried
          used,    \* of each pass, its attempted map
          cur, left,  \* the selected credential and the models of its pool still to try
          refresh, \* didRefreshOnUnauthorized: no, or where the refresh happened: start, boot
          err, lastErr,  \* of the attempt or the pass that ends with it; of the credentials before
          timer,   \* ttftScope: idle, armed, fired, stopped
          src,     \* the upstream stream's source: none, or open and to be read
          calls,   \* history: upstream calls of this pass, by credential
          truth,   \* history: how the attempt ended
          told,    \* history: the results recorded of the attempt
          prompt,  \* history: passes that began at once, not after a wait or a 429
          steady,  \* history: credentials that were ready all the time
          drift, unsaved

control  == <<pc, pass, tried, cur, left, refresh, err, lastErr>>
stream   == <<timer, src>>
outcome  == <<calls, truth, told>>
histories == <<used, prompt>>
outside  == <<avail, steady>>
limits   == <<drift, unsaved>>
vars == <<req, gone, control, stream, outcome, histories, outside, limits>>

Ordered == req.chain > 1
(* Failures, by what the code tells apart: denied is a 401, forbidden a    *)
(* 403; a rule, a stop and a termination carry a 429; hollow is a stream   *)
(* closed without a payload, broken one whose bootstrap fails without a    *)
(* status.                                                                 *)
Denials  == {"quota", "scoped", "server", "network", "denied", "forbidden", "invalid", "rule", "stop"}
BootErrors == Denials \cup {"broken"}
Advancing == {"quota", "scoped", "server", "empty", "timeout", "cooldown", "rule", "stop", "terminated",
              "hollow"}
EndsRequest == {"stop", "terminated"}
RetryRoundStatus == (Advancing \ (EndsRequest \cup {"hollow"})) \cup {"forbidden"}
EndsPass == {"invalid", "stop"}
Rotating == RetryRoundStatus \cup {"network", "broken", "denied", "hollow", "notfound"}

Neutral == {"invalid", "rule", "stop", "canceled"}

\* The record is of one upstream model: another of the pool, or the next candidate of the
\* chain, is not affected.
AfterFailure(e, c) ==
    (IF e \in Neutral \/ c \in req.off THEN {avail[c]}
     ELSE IF e \in RetryRoundStatus THEN {"soon", "late"} ELSE {"hard"})
    \cup (IF req.pool > 1 \/ Ordered THEN {avail[c]} ELSE {})

SetAvail(c, a) ==
    /\ avail' = [avail EXCEPT ![c] = a]
    /\ steady' = IF a = "ready" THEN steady ELSE steady \ {c}

Init ==
    /\ req \in Settings
    /\ avail = [c \in Creds |-> "ready"] /\ steady = Creds
    /\ gone = FALSE
    /\ pc = "begin" /\ pass = 0
    /\ tried = IF Ordered THEN {} ELSE req.excluded
    /\ cur = NoCred /\ left = 0 /\ refresh = "no"
    /\ err = "none" /\ lastErr = "none"
    /\ timer = "idle" /\ src = "none"
    /\ calls = [c \in Creds |-> 0] /\ truth = "none" /\ told = << >>
    /\ used = [i \in 0..(MaxPasses - 1) |-> {}] /\ prompt = {}
    /\ drift = 0 /\ unsaved = 0

-----------------------------------------------------------------------------
(* Selection.                                                              *)

NeverLimited(c) == FALSE \* mutant: request-retry of a credential is not looked at
RetriesSpent(c) == req.limit[c] < pass
RoundExclusions == IF Ordered \/ pass = 0 THEN {} ELSE {c \in Creds : RetriesSpent(c)}

Begin ==
    /\ pc = "begin"
    /\ pc' = "pick" /\ tried' = tried \cup RoundExclusions /\ lastErr' = "none"
    /\ calls' = [c \in Creds |-> 0]
    /\ UNCHANGED <<req, gone, pass, cur, left, refresh, err, stream, truth, told, histories, outside, limits>>

EndPass(e) == pc' = "passed" /\ err' = e
BudgetSpent == req.budget > 0 /\ Cardinality(used[pass]) >= req.budget

\* The caller's exclusions travel with the options, whatever the tried set holds.
OutOfReach == tried \cup req.excluded
Selectable == {c \in Creds \ OutOfReach : avail[c] = "ready"}

\* Nobody left; or a cooldown, unless some are blocked by errors that are no quota.
PickErrors == IF Creds \subseteq OutOfReach THEN {"notfound"} ELSE {"cooldown", "notfound"}

PassOver ==
    /\ pc = "pick"
    /\ \/ BudgetSpent /\ EndPass(IF lastErr = "none" THEN "notfound" ELSE lastErr)
       \/ ~BudgetSpent /\ Selectable = {}
          /\ \E e \in PickErrors : EndPass(IF lastErr = "none" THEN e ELSE lastErr)
    /\ UNCHANGED <<req, gone, pass, tried, cur, left, refresh, lastErr, stream, outcome, histories, outside, limits>>

Pick ==
    /\ pc = "pick" /\ ~BudgetSpent
    /\ \E c \in Selectable :
          /\ cur' = c /\ tried' = tried \cup {c}
          /\ IF c \in req.bare
             THEN pc' = "pick" /\ UNCHANGED <<left, used>>
             ELSE /\ pc' = "prepare" /\ left' = req.pool
                  /\ used' = [used EXCEPT ![pass] = @ \cup {c}]
    /\ refresh' = "no"
    /\ UNCHANGED <<req, gone, pass, err, lastErr, stream, outcome, prompt, outside, limits>>

-----------------------------------------------------------------------------
(* Recording a result, and what follows it.                                *)

MarkResult(result, availabilities) ==
    /\ told' = Append(told, result)
    /\ \/ unsaved' = unsaved /\ \E a \in availabilities : SetAvail(cur, a)
       \/ unsaved < MaxUnsaved /\ unsaved' = unsaved + 1 /\ UNCHANGED outside
Saved == unsaved' = unsaved
Reopened == {"ready", avail[cur]}

Rotate(e) == pc' = "pick" /\ lastErr' = e /\ err' = "none"

\* requestAuth could not be prepared: no model is tried.
PrepareFails ==
    /\ pc = "prepare"
    /\ err' \in {"denied", "network"}
    /\ pc' = "unprepared" /\ truth' = err' /\ told' = << >>
    /\ UNCHANGED <<req, gone, pass, tried, cur, left, refresh, lastErr, stream, calls, histories, outside, limits>>

RecordUnprepared ==
    /\ pc = "unprepared"
    /\ MarkResult(err, AfterFailure(err, cur))
    /\ IF Saved THEN Rotate(err) ELSE EndPass(err) /\ UNCHANGED lastErr
    /\ UNCHANGED <<req, gone, pass, tried, cur, left, refresh, stream, calls, truth, histories, drift>>

\* An unsaved result ends the pass of a call, not of a stream, nor after an empty
\* completion; an unsaved stop is the error it was.  A stream whose client left stops.
LostResult == ~Saved /\ ~req.stream /\ err # "empty"
NextModel == left > 1 /\ err \notin EndsPass \cup {"scoped"} /\ (Saved \/ ~req.stream)

Record ==
    /\ pc = "record"
    /\ MarkResult(err, AfterFailure(err, cur))
    /\ timer' = "idle" /\ src' = "none"
    /\ IF ~LostResult /\ NextModel
       THEN pc' = "send" /\ left' = left - 1 /\ UNCHANGED <<err, lastErr>>
       ELSE /\ UNCHANGED left
            /\ CASE req.stream /\ gone -> EndPass("canceled") /\ UNCHANGED lastErr
                 [] LostResult         -> EndPass(IF err = "stop" THEN "quota" ELSE err) /\ UNCHANGED lastErr
                 [] err \in EndsPass /\ ~LostResult /\ ~(req.stream /\ gone) -> EndPass(err) /\ UNCHANGED lastErr
                 [] OTHER              -> Rotate(err)
    /\ UNCHANGED <<req, gone, pass, tried, cur, refresh, calls, truth, histories, drift>>

-----------------------------------------------------------------------------
(* One upstream attempt.                                                   *)

Prepare ==
    /\ pc = "prepare" /\ pc' = "send" /\ truth' = "none" /\ told' = << >>
    /\ UNCHANGED <<req, gone, pass, tried, cur, left, refresh, err, lastErr, stream, calls, histories, outside, limits>>

\* The after-auth interceptor ends a call; of a stream, only the turn of this credential.
Terminate ==
    /\ pc = "send" /\ truth' = "none" /\ told' = << >>
    /\ IF req.stream /\ ~gone THEN Rotate("terminated")
       ELSE EndPass(IF req.stream THEN "canceled" ELSE "terminated") /\ UNCHANGED lastErr
    /\ UNCHANGED <<req, gone, pass, tried, cur, left, refresh, stream, calls, histories, outside, limits>>

Arm == IF req.stream THEN "armed" ELSE "idle"

Call ==
    /\ pc = "send"
    /\ IF req.stream /\ gone THEN EndPass("canceled") /\ UNCHANGED <<timer, calls, refresh>>
       ELSE /\ pc' = "upstream" /\ timer' = Arm /\ calls' = [calls EXCEPT ![cur] = @ + 1]
            /\ refresh' = IF refresh = "boot" THEN "start" ELSE refresh
            /\ UNCHANGED err
    /\ truth' = "none" /\ told' = << >>
    /\ UNCHANGED <<req, gone, pass, tried, cur, left, lastErr, src, histories, outside, limits>>

\* checkTTFTErr
Ended(e) == IF timer = "fired" THEN "timeout" ELSE e

UpstreamFails ==
    /\ pc = "upstream"
    /\ \E e \in Denials \cup (IF gone THEN {"canceled"} ELSE {}) :
          err' = Ended(e) /\ truth' = Ended(e)
    /\ pc' = "answered"
    /\ UNCHANGED <<req, gone, pass, tried, cur, left, refresh, lastErr, stream, calls, told, histories, outside, limits>>

\* validateStreamResult: a result without a source.
StreamHollow ==
    /\ pc = "upstream" /\ req.stream
    /\ err' = Ended("hollow") /\ truth' = Ended("hollow")
    /\ pc' = IF refresh = "boot" THEN "answered" ELSE "record"
    /\ UNCHANGED <<req, gone, pass, tried, cur, left, refresh, lastErr, stream, calls, told, histories, outside, limits>>

\* A call answers with a completion, possibly an empty one.
Answers ==
    /\ pc = "upstream" /\ ~req.stream
    /\ \E e \in {"ok", "empty"} :
          err' = e /\ truth' = e /\ pc' = (IF e = "ok" THEN "succeeded" ELSE "record")
    /\ UNCHANGED <<req, gone, pass, tried, cur, left, refresh, lastErr, stream, calls, told, histories, outside, limits>>

Succeed ==
    /\ pc = "succeeded"
    /\ MarkResult("ok", Reopened)
    /\ IF Saved THEN pc' = "done" /\ err' = "none" ELSE EndPass("unsaved")
    /\ UNCHANGED <<req, gone, pass, tried, cur, left, refresh, lastErr, stream, calls, truth, histories, drift>>

\* After a failure: the client has left, or the credential is refreshed once, or it is recorded.
Rechecks == ~(refresh = "boot" /\ src = "open")

Abandon ==
    /\ pc = "answered" /\ gone /\ Rechecks
    /\ EndPass("canceled") /\ timer' = "idle" /\ src' = "none"
    /\ UNCHANGED <<req, gone, pass, tried, cur, left, refresh, lastErr, outcome, histories, outside, limits>>

MayRefresh == err = "denied" /\ refresh = "no"

Refresh ==
    /\ pc = "answered" /\ ~(gone /\ Rechecks) /\ MayRefresh
    /\ pc' = "upstream" /\ timer' = Arm /\ src' = "none" /\ calls' = [calls EXCEPT ![cur] = @ + 1]
    /\ refresh' = IF src = "open" THEN "boot" ELSE "start"
    /\ truth' = "none"
    /\ UNCHANGED <<req, gone, pass, tried, cur, left, err, lastErr, told, histories, outside, limits>>

\* No refresh, or one that failed.
GiveUp ==
    /\ pc = "answered" /\ ~(gone /\ Rechecks)
    /\ pc' = "record" /\ err' = Ended(err) /\ timer' = IF timer = "armed" THEN "stopped" ELSE timer
    /\ UNCHANGED <<req, gone, pass, tried, cur, left, refresh, lastErr, src, outcome, histories, outside, limits>>

-----------------------------------------------------------------------------
(* Streams: the timer, the bootstrap and the delivered stream.             *)

AnyTime == timer \in {"armed", "stopped"} \* mutant: a callback in flight ignores the commit
MayFire == timer = "armed"
Fire ==
    /\ MayFire /\ timer' = "fired"
    /\ truth' = IF pc = "answered" THEN "timeout" ELSE truth
    /\ UNCHANGED <<req, gone, control, src, calls, told, histories, outside, limits>>

StreamOpens ==
    /\ pc = "upstream" /\ req.stream
    /\ pc' = "opened" /\ src' = "open"
    /\ UNCHANGED <<req, gone, pass, tried, cur, left, refresh, err, lastErr, timer, outcome, histories, outside, limits>>

Establish ==
    /\ pc = "opened"
    /\ pc' = "boot" /\ timer' = IF timer = "armed" THEN "stopped" ELSE timer
    /\ UNCHANGED <<req, gone, pass, tried, cur, left, refresh, err, lastErr, src, outcome, histories, outside, limits>>

\* The bootstrap read fails, is cut off by the context, or ends without content.
BootFails ==
    /\ pc = "boot"
    /\ \E e \in BootErrors \cup (IF gone THEN {"canceled"} ELSE {}) \cup (IF timer = "fired" THEN {"timeout"} ELSE {}) :
          err' = Ended(e) /\ truth' = Ended(e)
    /\ pc' = "answered"
    /\ UNCHANGED <<req, gone, pass, tried, cur, left, refresh, lastErr, stream, calls, told, histories, outside, limits>>

BootEmpty ==
    /\ pc = "boot"
    /\ \E e \in {"empty", "hollow"} : err' = Ended(e) /\ truth' = Ended(e)
    /\ pc' = IF timer = "fired" THEN "answered" ELSE "record"
    /\ UNCHANGED <<req, gone, pass, tried, cur, left, refresh, lastErr, stream, calls, told, histories, outside, limits>>

\* The first content: the request has its stream, unless the timer was first.
Deliver ==
    /\ pc = "boot"
    /\ IF timer = "fired" THEN pc' = "answered" /\ err' = "timeout" /\ truth' = "timeout"
                          ELSE pc' = "flowing" /\ UNCHANGED <<err, truth>>
    /\ UNCHANGED <<req, gone, pass, tried, cur, left, refresh, lastErr, stream, calls, told, histories, outside, limits>>

First(e) == IF truth = "none" THEN e ELSE truth
Unreported == told = << >>

FlowFails ==
    /\ pc = "flowing"
    /\ \E e \in Denials :
          /\ truth' = First(e)
          /\ IF Unreported THEN MarkResult(e, AfterFailure(e, cur)) ELSE UNCHANGED <<told, outside, unsaved>>
    /\ UNCHANGED <<req, gone, control, stream, calls, histories, drift>>

FlowEnds ==
    /\ pc = "flowing" /\ pc' = "done" /\ err' = "none"
    /\ truth' = First("ok") /\ src' = "none" /\ timer' = "idle"
    /\ IF Unreported THEN MarkResult("ok", Reopened) ELSE UNCHANGED <<told, outside, unsaved>>
    /\ UNCHANGED <<req, gone, pass, tried, cur, left, refresh, lastErr, calls, histories, drift>>

\* The reader has left: the rest of the source is read and dropped.
FlowDropped ==
    /\ pc = "flowing" /\ gone
    /\ pc' = "done" /\ err' = "none" /\ src' = "none" /\ timer' = "idle"
    /\ UNCHANGED <<req, gone, pass, tried, cur, left, refresh, lastErr, outcome, histories, outside, limits>>

-----------------------------------------------------------------------------
(* After a pass.                                                           *)

Finish == pc' = "done"

\* Rounds: terminations and stops are final, other errors are weighed.
Weigh ==
    /\ pc = "passed" /\ ~Ordered
    /\ IF err \in EndsRequest THEN Finish ELSE pc' = "decide"
    /\ UNCHANGED <<req, gone, pass, tried, cur, left, refresh, err, lastErr, stream, outcome, histories, outside, limits>>

Retriable == {c \in Creds \ req.excluded : pass < req.limit[c] /\ avail[c] # "hard"}

RetryAllowed ==
    /\ pc = "decide"
    /\ IF err \in RetryRoundStatus /\ Retriable # {} THEN pc' = "closest" ELSE Finish
    /\ UNCHANGED <<req, gone, pass, tried, cur, left, refresh, err, lastErr, stream, outcome, histories, outside, limits>>

\* closestCooldownWait reads the records again.  With nobody left to wait for, the
\* Retry-After of the error counts, if it has one.
ClosestWait ==
    /\ pc = "closest"
    /\ LET near == {avail[c] : c \in Retriable} IN
       \/ "ready" \in near /\ pc' = "again"
       \/ "ready" \notin near /\ "soon" \in near /\ IF req.waits THEN pc' = "wait" ELSE Finish
       \/ near = {"late"} /\ Finish
       \/ near = {} /\ pc' \in {"again", "done"} \cup (IF req.waits THEN {"wait"} ELSE {})
    /\ UNCHANGED <<req, gone, pass, tried, cur, left, refresh, err, lastErr, stream, outcome, histories, outside, limits>>

Soon == {c \in Creds : avail[c] = "soon"}
Wait ==
    /\ pc = "wait" /\ ~gone
    /\ pc' = "waited"
    /\ IF Soon = {} THEN UNCHANGED outside ELSE \E c \in Soon : SetAvail(c, "ready")
    /\ UNCHANGED <<req, gone, pass, tried, cur, left, refresh, err, lastErr, stream, outcome, histories, limits>>

WaitCanceled ==
    /\ pc = "wait" /\ gone /\ Finish /\ err' = "canceled"
    /\ UNCHANGED <<req, gone, pass, tried, cur, left, refresh, lastErr, stream, outcome, histories, outside, limits>>

KeepAll(atOnce) == tried \* mutant: exclusions are never pruned
Exclusions(atOnce) ==
    IF atOnce THEN req.excluded
    ELSE IF req.offAll THEN tried
    ELSE (tried \cap req.off) \cup req.excluded

AtOnce == pc = "again" /\ err \notin {"quota", "scoped", "cooldown", "rule"}

\* resetRetryRoundExclusions and the next round
NextRound ==
    /\ pc \in {"again", "waited"}
    /\ pc' = "begin" /\ pass' = pass + 1
    /\ tried' = Exclusions(AtOnce)
    /\ prompt' = IF AtOnce THEN prompt \cup {pass + 1} ELSE prompt
    /\ UNCHANGED <<req, gone, cur, left, refresh, err, lastErr, stream, outcome, used, outside, limits>>

\* The ordered chain: the next candidate starts with an empty tried set.  An exhausted chain
\* ends the request.
NextCandidate ==
    /\ pc = "passed" /\ Ordered
    /\ IF err \in Advancing /\ pass + 1 < req.chain
       THEN pc' = "begin" /\ pass' = pass + 1 /\ tried' = {}
       ELSE Finish /\ UNCHANGED <<pass, tried>>
    /\ UNCHANGED <<req, gone, cur, left, refresh, err, lastErr, stream, outcome, histories, outside, limits>>

-----------------------------------------------------------------------------
(* Others: the client, time and the other requests.                        *)

Leave ==
    /\ ~gone /\ pc # "done" /\ gone' = TRUE
    /\ UNCHANGED <<req, control, stream, outcome, histories, outside, limits>>

Drift ==
    /\ drift < MaxDrift /\ pc # "done" /\ drift' = drift + 1
    /\ \E c \in Creds, a \in {"ready", "soon", "late", "hard"} : a # avail[c] /\ SetAvail(c, a)
    /\ UNCHANGED <<req, gone, control, stream, outcome, histories, unsaved>>

Next ==
    \/ Begin \/ PassOver \/ Pick \/ Prepare \/ PrepareFails \/ RecordUnprepared
    \/ Terminate \/ Call \/ UpstreamFails \/ StreamHollow \/ Answers \/ Succeed
    \/ Abandon \/ Refresh \/ GiveUp \/ Record
    \/ Fire \/ StreamOpens \/ Establish \/ BootFails \/ BootEmpty \/ Deliver
    \/ FlowFails \/ FlowEnds \/ FlowDropped
    \/ Weigh \/ RetryAllowed \/ ClosestWait \/ Wait \/ WaitCanceled \/ NextRound \/ NextCandidate
    \/ Leave \/ Drift

Spec == Init /\ [][Next]_vars

-----------------------------------------------------------------------------
(* Properties.                                                             *)

Errors == BootErrors \cup Rotating \cup {"none", "canceled", "terminated", "unsaved", "ok"}

\* Every variable holds what the code can put there (conductor_execution.go:378).
TypeOK ==
    /\ req \in Settings /\ gone \in BOOLEAN
    /\ avail \in [Creds -> {"ready", "soon", "late", "hard"}] /\ steady \subseteq Creds
    /\ pass \in 0..(MaxPasses - 1) /\ tried \subseteq Creds /\ used \in [0..(MaxPasses - 1) -> SUBSET Creds]
    /\ cur \in Creds \cup {NoCred} /\ left \in 0..req.pool /\ refresh \in {"no", "start", "boot"}
    /\ {err, lastErr, truth} \subseteq Errors /\ told \in Seq(Errors)
    /\ timer \in {"idle", "armed", "fired", "stopped"} /\ src \in {"none", "open"}

Busy == {"unprepared", "upstream", "answered", "succeeded", "record", "opened", "boot", "flowing"}

\* Whatever ends an attempt - a call, a refresh and its repetition, the first-chunk timer, a
\* stream before or after its first content - exactly one result is recorded of it, and it
\* says what happened; only the client's leaving may leave it unrecorded.  Nobody leaves a
\* source without a reader, and a delivered stream is safe from the timer
\* (conductor_stream.go:325, :565).
AttemptSettled ==
    /\ told # << >> => told = <<truth>>
    /\ pc \notin Busy => src = "none" /\ (truth # "none" /\ ~gone => told = <<truth>>)
    /\ pc = "flowing" => timer # "fired"

CoolingOff(c) == c \in req.off \/ req.offAll

\* However rounds, models, refreshes, candidates and changing cooldowns combine: a pass
\* calls a credential once per model and once more after a refresh, no more credentials than
\* max-retry-credentials, and none the caller excludes, on any pick path; without a chain a
\* credential takes part in no more rounds than its own request-retry allows, and one that
\* is not cooled is not tried again after a wait or a 429 (conductor_execution.go:1939).
RoundsBounded ==
    /\ \A c \in Creds : calls[c] <= req.pool + 1
    /\ \A i \in DOMAIN used :
          /\ req.budget > 0 => Cardinality(used[i]) <= req.budget
          /\ used[i] \cap req.excluded = {}
    /\ ~Ordered => \A i \in DOMAIN used : \A c \in used[i] :
          /\ i <= req.limit[c]
          /\ CoolingOff(c) => \A j \in 0..(i - 1) :
                c \in used[j] => \E k \in prompt : j < k /\ k <= i

InTurn(c, i) ==
    /\ c \notin req.excluded
    /\ \/ Ordered /\ i = pass
       \/ ~Ordered /\ i <= req.limit[c] /\ (i = 0 \/ ~CoolingOff(c))

\* A request that fails for want of a working credential has tried, in every pass (of a
\* chain: in its last), each credential that was ready all along and whose turn it was, up
\* to max-retry-credentials; and without a chain it does not give up while such a credential
\* has a retry round left.  A chain has no retry rounds at all: see ChainsFallThrough
\* (conductor_selection.go:992).
GivesUpRightly ==
    pc = "done" /\ err \in Rotating /\ unsaved = 0 =>
        /\ \A i \in 0..pass, c \in steady \ req.bare :
              InTurn(c, i) => c \in used[i] \/ (req.budget > 0 /\ Cardinality(used[i]) >= req.budget)
        /\ ~Ordered /\ err \in RetryRoundStatus =>
              \A c \in steady \ req.excluded : req.limit[c] <= pass

\* Two promises about chains that the code does not keep; TLC finds each violated on the
\* instance of RequestFailover.cfg.  conductor_ordered_failover.go:413-416: an exhausted
\* chain falls through, so that cooldown and rotation over the full pool stay in effect; a
\* request with a chain that ends with an error the chain advances on made a pass beyond it.
ChainsFallThrough == pc = "done" /\ Ordered /\ err \in Advancing => pass >= req.chain

\* conductor_ordered_failover.go:136-137: a stream whose bootstrap failed without a status is
\* retried with the next candidate, so that only the last candidate's failure ends it.
BootErrorsAdvance == pc = "done" /\ Ordered /\ err = "broken" /\ unsaved = 0 => pass + 1 = req.chain
=============================================================================
