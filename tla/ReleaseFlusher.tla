--------------------------- MODULE ReleaseFlusher ---------------------------
(***************************************************************************)
(* internal/home/concurrency_release.go: the flusher that tells Home, per  *)
(* release group, the latest cumulative release sequence.  Scopes mark     *)
(* groups dirty in any order, one Run goroutine per client lifetime sends  *)
(* what is dirty, retries what failed, and completes the tickets of what   *)
(* Home acknowledged; Flush forces a round and polls until all is acked.   *)
(*                                                                         *)
(* Home and the network are external: an LPUSH is applied and answered,    *)
(* fails, or fails although Home applies it, at once or later; Home keeps  *)
(* the highest sequence of a group.  Delays are only distinguished as due  *)
(* now and due later.                                                      *)
(***************************************************************************)
EXTENDS Integers

CONSTANTS
  Groups,         \* release groups
  MaxSeq,         \* bound: highest release sequence of a group
  MaxLifetimes    \* bound: client lifetimes, one Run goroutine each

ASSUME BoundsAssumption == MaxSeq \in Nat /\ MaxLifetimes \in Nat

VARIABLES
  latest, acked,   \* releaseState.Latest, releaseState.Acked
  waiters,         \* sequences with an open ticket (releaseState.waiters)
  completed,       \* sequences whose tickets were closed
  sender,          \* releaseFlusher.send: the current lifetime, 0 for nil
  wake, force,     \* a token in the channel of that name
  owed,            \* a caller that has yet to call signal
  run,             \* the Run goroutine: off, select, flush
  timer, backingOff,
  batch, failed,   \* flush: sequences still to send, and its result
  flusher, target, \* the Flush caller; Latest when it started
  home, delayed    \* Home's counters; frames the network still delivers

groupVars == <<latest, acked, waiters, completed>>
chanVars  == <<wake, force, owed>>
runVars   == <<run, timer, backingOff, batch, failed>>
flushVars == <<flusher, target>>
homeVars  == <<home, delayed>>
vars == <<groupVars, sender, chanVars, runVars, flushVars, homeVars>>

Seqs  == 1..MaxSeq
Clean == [g \in Groups |-> 0]
Larger(m, n) == IF m > n THEN m ELSE n
Dirty(g) == latest[g] > acked[g]

TypeOK ==
  /\ latest \in [Groups -> 0..MaxSeq] /\ acked \in [Groups -> 0..MaxSeq]
  /\ waiters \in [Groups -> SUBSET Seqs] /\ completed \in [Groups -> SUBSET Seqs]
  /\ sender \in 0..MaxLifetimes
  /\ wake \in BOOLEAN /\ force \in BOOLEAN /\ owed \in BOOLEAN
  /\ run \in {"off", "select", "flush"}
  /\ timer \in {"now", "later"} /\ backingOff \in BOOLEAN
  /\ batch \in [Groups -> 0..MaxSeq] /\ failed \in BOOLEAN
  /\ flusher \in {"idle", "polling", "flushed", "expired"}
  /\ target \in [Groups -> 0..MaxSeq]
  /\ home \in [Groups -> 0..MaxSeq] /\ delayed \in SUBSET (Groups \X Seqs)

Init ==
  /\ latest = Clean /\ acked = Clean
  /\ waiters = [g \in Groups |-> {}] /\ completed = [g \in Groups |-> {}]
  /\ sender = 0 /\ wake = FALSE /\ force = FALSE /\ owed = FALSE
  /\ run = "off" /\ timer = "later" /\ backingOff = FALSE
  /\ batch = Clean /\ failed = FALSE
  /\ flusher = "idle" /\ target = Clean /\ home = Clean /\ delayed = {}

-----------------------------------------------------------------------------
(* MarkDirty under mu: an acknowledged sequence completes its ticket at     *)
(* once, any other waits; sequences may arrive in any order, and again.     *)
LatestIsLast(g, n) == n
LatestIsMax(g, n)  == Larger(latest[g], n)

MarkDirty(g, n) ==
  /\ IF n <= acked[g]
       THEN /\ completed' = [completed EXCEPT ![g] = @ \cup {n}]
            /\ UNCHANGED <<latest, waiters>>
       ELSE /\ waiters' = [waiters EXCEPT ![g] = @ \cup {n}]
            /\ latest' = [latest EXCEPT ![g] = LatestIsMax(g, n)]
            /\ UNCHANGED completed
  /\ owed' = TRUE
  /\ UNCHANGED <<acked, sender, wake, force, runVars, flushVars, homeVars>>

(* signal, after the unlock: at most one token. *)
Signal ==
  /\ owed /\ owed' = FALSE /\ wake' = TRUE
  /\ UNCHANGED <<groupVars, sender, force, runVars, flushVars, homeVars>>

(* A new client lifetime: SetSender, signal, then its own Run goroutine. *)
SetSender ==
  /\ run = "off" /\ sender < MaxLifetimes
  /\ sender' = sender + 1 /\ owed' = TRUE
  /\ run' = "select" /\ timer' = "now" /\ backingOff' = FALSE
  /\ UNCHANGED <<groupVars, wake, force, batch, failed, flushVars, homeVars>>

(* ctx.Done: the lifetime ended and a next one replaces it. *)
RunStop ==
  /\ run = "select" /\ sender < MaxLifetimes
  /\ run' = "off"
  /\ UNCHANGED <<groupVars, sender, chanVars, timer, backingOff, batch, failed,
                 flushVars, homeVars>>

RunWake ==
  /\ run = "select" /\ wake
  /\ wake' = FALSE
  /\ timer' = IF backingOff THEN timer ELSE "now"
  /\ UNCHANGED <<groupVars, sender, force, owed, run, backingOff, batch, failed,
                 flushVars, homeVars>>

(* flush: copy what is dirty under mu, then send unlocked.  A sender is set *)
(* before the first Run, so the nil case never applies.                     *)
BatchFromLatest == [g \in Groups |-> IF Dirty(g) THEN latest[g] ELSE 0]
BeginFlush ==
  /\ run' = "flush" /\ failed' = FALSE
  /\ batch' = BatchFromLatest
  /\ UNCHANGED <<groupVars, sender, owed, timer, backingOff, flushVars, homeVars>>

RunTimer == run = "select" /\ BeginFlush /\ UNCHANGED <<wake, force>>
RunForce == run = "select" /\ force /\ force' = FALSE /\ BeginFlush /\ UNCHANGED wake

(* The acknowledgement under mu; Latest may have moved on meanwhile. *)
AckLatest(g, n) == acked' = [acked EXCEPT ![g] = latest[g]]
AckSent(g, n)   == acked' = [acked EXCEPT ![g] = Larger(@, n)]

WaitersAt(g, n)   == {k \in waiters[g] : k = n}
WaitersUpTo(g, n) == {k \in waiters[g] : k <= Larger(acked[g], n)}

Acknowledge(g, n) ==
  /\ AckSent(g, n)
  /\ waiters' = [waiters EXCEPT ![g] = @ \ WaitersUpTo(g, n)]
  /\ completed' = [completed EXCEPT ![g] = @ \cup WaitersUpTo(g, n)]
  /\ UNCHANGED latest

(* PushConcurrencyRelease: the LPUSH was applied and answered ... *)
SendOK(g) ==
  /\ run = "flush" /\ batch[g] > 0
  /\ home' = [home EXCEPT ![g] = Larger(@, batch[g])]
  /\ Acknowledge(g, batch[g])
  /\ batch' = [batch EXCEPT ![g] = 0]
  /\ UNCHANGED <<sender, chanVars, run, timer, backingOff, failed, flushVars,
                 delayed>>

(* ... or failed; its frame may be lost or still on its way. *)
SendFails(g) ==
  /\ run = "flush" /\ batch[g] > 0
  /\ \/ delayed' = delayed \cup {<<g, batch[g]>>}
     \/ delayed' = delayed
  /\ batch' = [batch EXCEPT ![g] = 0]
  /\ failed' = TRUE
  /\ UNCHANGED <<groupVars, sender, chanVars, run, timer, backingOff, flushVars,
                 home>>

(* nextDelay: the timer is always armed again. *)
DropWake == wake' = FALSE
KeepWake == UNCHANGED wake

EndFlush ==
  /\ run = "flush" /\ batch = Clean
  /\ run' = "select" /\ timer' = "later" /\ backingOff' = failed
  /\ KeepWake
  /\ UNCHANGED <<groupVars, sender, force, owed, batch, failed, flushVars,
                 homeVars>>

HomeApplies(g, n) == home' = [home EXCEPT ![g] = Larger(@, n)]

LateDelivery(g, n) ==
  /\ <<g, n>> \in delayed
  /\ HomeApplies(g, n)
  /\ delayed' = delayed \ {<<g, n>>}
  /\ UNCHANGED <<groupVars, sender, chanVars, runVars, flushVars>>

-----------------------------------------------------------------------------
(* Flush: force a round, then poll idle() until ctx expires. *)
FlushBegin ==
  /\ flusher = "idle"
  /\ flusher' = "polling" /\ force' = TRUE /\ target' = latest
  /\ UNCHANGED <<groupVars, sender, wake, owed, runVars, homeVars>>

IdleSent == batch = Clean
Idle == \A g \in Groups : ~Dirty(g)

FlushDone ==
  /\ flusher = "polling" /\ Idle
  /\ flusher' = "flushed"
  /\ UNCHANGED <<groupVars, sender, chanVars, runVars, target, homeVars>>

FlushExpires ==
  /\ flusher = "polling"
  /\ flusher' = "expired"
  /\ UNCHANGED <<groupVars, sender, chanVars, runVars, target, homeVars>>

Next ==
  \/ Signal \/ SetSender \/ RunStop \/ RunWake \/ RunTimer \/ RunForce
  \/ EndFlush \/ FlushBegin \/ FlushDone \/ FlushExpires
  \/ \E g \in Groups : SendOK(g) \/ SendFails(g)
  \/ \E g \in Groups, n \in Seqs : MarkDirty(g, n) \/ LateDelivery(g, n)

Spec == Init /\ [][Next]_vars

(* The Run goroutine is scheduled and its timer fires; a stopped lifetime   *)
(* is followed by the next one; Home does not refuse every retry for ever.  *)
(* The last lifetime is not stopped and no late frame need arrive.          *)
Fairness ==
  /\ WF_vars(Signal) /\ WF_vars(SetSender) /\ WF_vars(EndFlush)
  /\ SF_vars(RunTimer)
  /\ \A g \in Groups : WF_vars(SendOK(g) \/ SendFails(g)) /\ SF_vars(SendOK(g))

FairSpec == Spec /\ Fairness

-----------------------------------------------------------------------------
(* No sequence is acknowledged that Home does not have, and Home has none   *)
(* that was not marked: sends, retries and late frames of an older attempt  *)
(* may overlap in any way.                                                  *)
AckedIsKnown ==
  \A g \in Groups : acked[g] <= home[g] /\ home[g] <= latest[g]

(* "a ticket completed when Home acknowledges that sequence": a completed    *)
(* ticket is one Home has, an open one is still going to be sent.            *)
TicketsExact ==
  \A g \in Groups :
    /\ \A n \in completed[g] : n <= home[g]
    /\ \A n \in waiters[g] : acked[g] < n /\ n <= latest[g]

(* Flush "waits for all currently dirty groups": when it returns nil Home   *)
(* has at least what was marked when it was called.                         *)
FlushedReachedHome ==
  flusher = "flushed" => \A g \in Groups : home[g] >= target[g]

(* The wake token is never lost: a group that is dirty while Run waits       *)
(* without backing off is flushed at once, not after the flush interval.     *)
PromptFlush ==
  run = "select" /\ ~backingOff /\ (\E g \in Groups : Dirty(g)) =>
    timer = "now" \/ wake \/ owed

(* ReleaseLedger, with what was marked, what Home has and what was acked. *)
Ledger == INSTANCE ReleaseLedger
            WITH told <- latest, known <- home, confirmed <- acked
ImplementsLedger == Ledger!Spec

(* Every marked sequence is acknowledged in the end, across failed sends,    *)
(* late frames and replaced senders.                                         *)
MarkedIsAcked ==
  \A g \in Groups : \A n \in Seqs : n \in waiters[g] ~> n \in completed[g]
=============================================================================
