---------------------------- MODULE RefreshLoop ----------------------------
(***************************************************************************)
(* sdk/cliproxy/auth/auto_refresh_loop.go with its callers in              *)
(* conductor_refresh.go and conductor_lifecycle.go: the background loop    *)
(* that refreshes credentials before they expire.  It keeps a heap of      *)
(* check times, sleeps on a timer until the first, hands what needs a      *)
(* refresh to a bounded channel of jobs, and is told of changed records    *)
(* through a set of dirty ids and a wake token.  It reads a record, drops  *)
(* Manager.mu, and acts on its heap afterwards: registrations, edits,      *)
(* removals and the workers' own results come in between.                  *)
(*                                                                         *)
(* A record is what nextRefreshCheckAt reads of it: whether its last error *)
(* is a 401, NextRefreshAfter, and the time its token comes within the     *)
(* lead of its expiry.  Durations keep their order, not their lengths.     *)
(* Requests refresh a credential that answered 401 through the same code   *)
(* as the workers.                                                         *)
(***************************************************************************)
EXTENDS Integers, Sequences, FiniteSets

CONSTANTS
  Creds, Workers,
  Callers,      \* requests that refresh after a 401
  JobCap,       \* capacity of the channel of jobs
  MaxTime,      \* bound: the clock
  MaxEdits      \* bound: calls by anyone but the loop and its workers

ASSUME BoundsAssumption ==
  /\ JobCap \in Nat \ {0} /\ MaxTime \in Nat /\ MaxEdits \in Nat

Interval    == 1   \* the loop's interval
Ineffective == 1   \* refreshIneffectiveBackoff
PendingFor  == 1   \* refreshPendingBackoff
FailureFor  == 2   \* refreshFailureBackoff
Valid       == 2   \* a new token's expiry, less its lead
Runners     == Workers \cup Callers
NoTime      == MaxTime + 4   \* later than any time

VARIABLES
  now, edits,
  rec,            \* manager.auths: [present, unauth, nra, due]; silent: MarkResult
                  \* cleared its 401 (a history, read by no step)
  next,           \* the heap and its index: check time of an id, or NoTime
  dirty, wake,    \* ids to look at again; a token in wakeCh
  owed,           \* a queueReschedule that has yet to send its token
  edit,           \* the holder of mutationMu: what it still has to tell the loop
  loop, seen,     \* the loop goroutine, and the now it works with
  todo, act,      \* ids it drained or popped; what it will do about one of them
  plan,           \* check times it computed and has not stored
  timer,          \* when the timer fires, or NoTime
  jobs, work      \* the channel; worker: [pc, c, nra] with the nra it cloned

vars == <<now, edits, rec, next, dirty, wake, owed, edit, loop, seen, todo, act, plan,
          timer, jobs, work>>

Times == 0..(MaxTime + 3)
Free  == [op |-> "none", c |-> CHOOSE c \in Creds : TRUE, unauth |-> FALSE, nra |-> 0]
Idle  == [pc |-> "idle", c |-> CHOOSE c \in Creds : TRUE, nra |-> 0]
NoAct == [op |-> "none", c |-> CHOOSE c \in Creds : TRUE]
NoPlan == [c \in Creds |-> NoTime]

TypeOK ==
  /\ now \in 0..MaxTime /\ edits \in 0..MaxEdits
  /\ rec \in [Creds -> [present : BOOLEAN, unauth : BOOLEAN, silent : BOOLEAN,
                         nra : Times, due : Times]]
  /\ next \in [Creds -> Times \cup {NoTime}]
  /\ dirty \subseteq Creds /\ wake \in BOOLEAN /\ owed \in BOOLEAN
  /\ edit \in [op : {"none", "mark", "drop", "result"}, c : Creds, unauth : BOOLEAN,
               nra : Times]
  /\ loop \in {"rebuild", "select", "due", "apply"} /\ seen \in 0..MaxTime
  /\ todo \subseteq Creds
  /\ act \in [op : {"none", "rebuild", "store", "refresh", "again", "send"}, c : Creds]
  /\ plan \in [Creds -> Times \cup {NoTime}]
  /\ timer \in Times \cup {NoTime}
  /\ jobs \in Seq(Creds) /\ Len(jobs) <= JobCap
  /\ work \in [Runners -> [pc : {"idle", "locking", "calling", "saving", "reporting"},
                           c : Creds, nra : Times]]

(* nextRefreshCheckAt and shouldRefresh of a record with a refresh lead. *)
Schedulable(r)    == r.present /\ ~r.unauth
NextCheck(r, t)   == IF r.nra > t THEN r.nra ELSE IF r.due > t THEN r.due ELSE t
ShouldRefresh(r, t) == Schedulable(r) /\ r.nra <= t /\ r.due <= t

Fresh(t) == [present |-> TRUE, unauth |-> FALSE, silent |-> FALSE, nra |-> 0, due |-> t]

(* StartAutoRefresh published the loop and is about to rebuild its heap. *)
Init ==
  /\ now = 0 /\ edits = 0
  /\ rec \in [Creds -> {Fresh(1), [Fresh(0) EXCEPT !.present = FALSE]}]
  /\ next = [c \in Creds |-> NoTime] /\ dirty = {} /\ wake = FALSE /\ owed = FALSE
  /\ edit = Free /\ loop = "rebuild" /\ seen = 0 /\ todo = {} /\ act = NoAct
  /\ plan = NoPlan /\ timer = NoTime /\ jobs = <<>> /\ work = [w \in Runners |-> Idle]

loopVars == <<loop, seen, todo, act, plan, timer>>

-----------------------------------------------------------------------------
(* queueReschedule: the id becomes dirty under the loop's mutex, then one   *)
(* token is offered, without waiting.                                       *)
OfferAndWait  == ~wake
OfferToken    == TRUE
MarkIfListed(c) ==
  /\ dirty' = IF next[c] = NoTime THEN dirty ELSE dirty \cup {c}
  /\ owed' = TRUE
MarkDirty(c)  == dirty' = dirty \cup {c} /\ owed' = TRUE

Signal ==
  /\ owed /\ OfferToken /\ owed' = FALSE /\ wake' = TRUE
  /\ UNCHANGED <<now, edits, rec, next, dirty, edit, loopVars, jobs, work>>

-----------------------------------------------------------------------------
(* Register and Update store the record under mutationMu and tell the loop  *)
(* before they release it; so does Remove.                                  *)
Editing(c, op) ==
  /\ edit = Free /\ edits < MaxEdits /\ edits' = edits + 1
  /\ edit' = [Free EXCEPT !.op = op, !.c = c]
  /\ UNCHANGED <<now, next, dirty, wake, owed, loopVars, jobs, work>>

Register(c) ==
  /\ Editing(c, "mark") /\ \E t \in {now, now + 1} :
       rec' = [rec EXCEPT ![c] = Fresh(t)]
Remove(c) ==
  /\ rec[c].present /\ Editing(c, "drop")
  /\ rec' = [rec EXCEPT ![c].present = FALSE]

TellLoop ==
  /\ edit.op = "mark" /\ MarkDirty(edit.c) /\ edit' = Free
  /\ UNCHANGED <<now, edits, rec, next, wake, loopVars, jobs, work>>
Unschedule ==
  /\ edit.op = "drop" /\ next' = [next EXCEPT ![edit.c] = NoTime] /\ edit' = Free
  /\ UNCHANGED <<now, edits, rec, dirty, wake, owed, loopVars, jobs, work>>

(* MarkResult changes the last error in a copy, saves that and stores it;   *)
(* what was written in place meanwhile is undone, and the loop is not told. *)
MarkResult(c, unauth) ==
  /\ edit = Free /\ rec[c].present /\ edits < MaxEdits /\ edits' = edits + 1
  /\ edit' = [op |-> "result", c |-> c, unauth |-> unauth, nra |-> rec[c].nra]
  /\ UNCHANGED <<now, rec, next, dirty, wake, owed, loopVars, jobs, work>>
StoreResult ==
  /\ edit.op = "result" /\ edit' = Free
  /\ \/ UNCHANGED rec                                  \* it cannot be saved
     \/ rec' = [rec EXCEPT ![edit.c] =
                  [@ EXCEPT !.unauth = edit.unauth, !.nra = edit.nra,
                            !.silent = \/ rec[edit.c].silent
                                       \/ rec[edit.c].unauth /\ ~edit.unauth]]
  /\ UNCHANGED <<now, edits, next, dirty, wake, owed, loopVars, jobs, work>>

-----------------------------------------------------------------------------
(* The loop goroutine.  What it decides about an id it stores later. *)
loopFrame == <<now, edits, edit, jobs, work>>

Plan(c, r, t) == IF Schedulable(r) THEN NextCheck(r, t) ELSE NoTime
KeepTimer  == timer' = timer
ResetTimer == timer' = LET at == {next'[c] : c \in Creds} IN
                         CHOOSE t \in at : \A u \in at : t <= u

(* rebuild reads every record under one RLock, replaces the heap later, and *)
(* the loop starts with the timer at the first check.                       *)
RebuildRead ==
  /\ loop = "rebuild" /\ act.op = "none" /\ act' = [act EXCEPT !.op = "rebuild"]
  /\ plan' = [c \in Creds |-> Plan(c, rec[c], now)]
  /\ UNCHANGED <<loopFrame, rec, next, dirty, wake, owed, loop, seen, todo, timer>>
RebuildStore ==
  /\ loop = "rebuild" /\ act.op = "rebuild"
  /\ next' = plan /\ ResetTimer
  /\ act' = NoAct /\ plan' = NoPlan /\ loop' = "select"
  /\ UNCHANGED <<loopFrame, rec, dirty, wake, owed, seen, todo>>

(* wakeCh: drain the dirty set and look at each of its ids. *)
TakeDirty == todo' = dirty /\ dirty' = {}
WakeUp ==
  /\ loop = "select" /\ wake /\ wake' = FALSE
  /\ seen' = now /\ loop' = "apply" /\ timer' = NoTime /\ TakeDirty
  /\ UNCHANGED <<loopFrame, rec, next, owed, act, plan>>

(* The timer: popDue takes what is due off the heap. *)
PopDue(t) == {c \in Creds : next[c] <= t}
TimerFires ==
  /\ loop = "select" /\ timer <= now
  /\ seen' = now /\ loop' = "due" /\ timer' = NoTime
  /\ todo' = PopDue(now)
  /\ next' = [c \in Creds |-> IF c \in PopDue(now) THEN NoTime ELSE next[c]]
  /\ UNCHANGED <<loopFrame, rec, dirty, wake, owed, act, plan>>

(* handleDueAuth reads the record, and acts on what it read. *)
HandleDue(c) ==
  /\ loop = "due" /\ act.op = "none" /\ c \in todo /\ todo' = todo \ {c}
  /\ \/ ~rec[c].present /\ UNCHANGED <<act, plan>>
     \/ /\ rec[c].present /\ ~ShouldRefresh(rec[c], seen)
        /\ act' = [op |-> "store", c |-> c]
        /\ plan' = [plan EXCEPT ![c] = Plan(c, rec[c], seen)]
     \/ /\ ShouldRefresh(rec[c], seen)      \* no executor is registered
        /\ act' = [op |-> "store", c |-> c]
        /\ plan' = [plan EXCEPT ![c] = seen + Interval]
     \/ ShouldRefresh(rec[c], seen) /\ act' = [op |-> "refresh", c |-> c] /\ UNCHANGED plan
  /\ UNCHANGED <<loopFrame, rec, next, dirty, wake, owed, loop, seen, timer>>

(* upsert or remove. *)
Store ==
  /\ act.op = "store" /\ next' = [next EXCEPT ![act.c] = plan[act.c]]
  /\ act' = NoAct /\ plan' = NoPlan
  /\ UNCHANGED <<loopFrame, rec, dirty, wake, owed, loop, seen, todo, timer>>

(* markRefreshPending looks again, and keeps the credential from being due  *)
(* while its job waits; else the record has changed and is read once more.  *)
MarkPending ==
  /\ act.op = "refresh"
  /\ IF rec[act.c].present /\ rec[act.c].nra <= seen
       THEN /\ rec' = [rec EXCEPT ![act.c].nra = seen + PendingFor]
            /\ MarkDirty(act.c) /\ act' = [act EXCEPT !.op = "send"]
       ELSE act' = [act EXCEPT !.op = "again"] /\ UNCHANGED <<rec, dirty, owed>>
  /\ UNCHANGED <<loopFrame, next, wake, loop, seen, todo, plan, timer>>
LookAgain ==
  /\ act.op = "again" /\ act' = [act EXCEPT !.op = "store"]
  /\ plan' = [plan EXCEPT ![act.c] = Plan(act.c, rec[act.c], seen)]
  /\ UNCHANGED <<loopFrame, rec, next, dirty, wake, owed, loop, seen, todo, timer>>

HasRoom == Len(jobs) < JobCap

(* The job is sent once queueReschedule has returned and there is room. *)
SendJob ==
  /\ act.op = "send" /\ ~owed /\ HasRoom
  /\ jobs' = Append(jobs, act.c) /\ act' = NoAct
  /\ UNCHANGED <<now, edits, rec, next, dirty, wake, owed, edit, loop, seen, todo, plan,
                 timer, work>>

(* handleDue is followed by applyDirty, and that by resetTimer. *)
DueDone ==
  /\ loop = "due" /\ todo = {} /\ act.op = "none" /\ loop' = "apply" /\ TakeDirty
  /\ UNCHANGED <<loopFrame, rec, next, wake, owed, seen, act, plan, timer>>
ApplyDirty(c) ==
  /\ loop = "apply" /\ act.op = "none" /\ c \in todo /\ todo' = todo \ {c}
  /\ act' = [op |-> "store", c |-> c]
  /\ plan' = [plan EXCEPT ![c] = Plan(c, rec[c], seen)]
  /\ UNCHANGED <<loopFrame, rec, next, dirty, wake, owed, loop, seen, timer>>
EndRound ==
  /\ loop = "apply" /\ todo = {} /\ act.op = "none" /\ loop' = "select"
  /\ UNCHANGED next /\ ResetTimer /\ seen' = 0
  /\ UNCHANGED <<loopFrame, rec, dirty, wake, owed, todo, act, plan>>

-----------------------------------------------------------------------------
(* refreshAuthForRequest, under the lock of its credential.  A worker was   *)
(* given a job and reports at the end; a request has a token that failed.   *)
workFrame == <<now, edits, next, wake, loopVars>>
Started(c) == [pc |-> "locking", c |-> c, nra |-> 0]

TakeJob(w) ==
  /\ work[w].pc = "idle" /\ jobs # <<>> /\ jobs' = Tail(jobs)
  /\ work' = [work EXCEPT ![w] = Started(Head(jobs))]
  /\ UNCHANGED <<workFrame, rec, dirty, owed, edit>>
RefreshForRequest(q, c) ==
  /\ work[q].pc = "idle" /\ edits < MaxEdits /\ edits' = edits + 1
  /\ work' = [work EXCEPT ![q] = Started(c)]
  /\ UNCHANGED <<now, next, wake, loopVars, rec, dirty, owed, edit, jobs>>

Returned(w) == [work EXCEPT ![w] = IF w \in Workers THEN [@ EXCEPT !.pc = "reporting"]
                                                   ELSE Idle]
Locked(c) == \E w \in Runners : work[w].c = c /\ work[w].pc \in {"calling", "saving"}

BeginRefresh(w) ==
  /\ work[w].pc = "locking" /\ ~Locked(work[w].c) /\ rec[work[w].c].present
  /\ work' = [work EXCEPT ![w].pc = "calling", ![w].nra = rec[work[w].c].nra]
  /\ UNCHANGED <<workFrame, rec, dirty, owed, edit, jobs>>
(* The record or its executor is gone, or another run replaced the token.   *)
NothingToRefresh(w) ==
  /\ work[w].pc = "locking" /\ ~Locked(work[w].c) /\ work' = Returned(w)
  /\ ~rec[work[w].c].present \/ w \in Callers
  /\ UNCHANGED <<workFrame, rec, dirty, owed, edit, jobs>>

(* A failure is recorded in place, if the record is still there, and the    *)
(* loop is told; nothing is recorded for a request that was cancelled.      *)
RefreshFails(w) ==
  /\ work[w].pc = "calling" /\ rec[work[w].c].present
  /\ work' = [work EXCEPT ![w].pc = "reporting"]
  /\ \/ rec' = [rec EXCEPT ![work[w].c].unauth = TRUE, ![work[w].c].nra = 0]
     \/ rec' = [rec EXCEPT ![work[w].c].unauth = FALSE,
                           ![work[w].c].nra = now + FailureFor]
  /\ UNCHANGED <<workFrame, dirty, owed, edit, jobs>>
RefreshAbandoned(w) ==
  /\ work[w].pc = "calling" /\ work' = Returned(w)
  /\ ~rec[work[w].c].present \/ w \in Callers
  /\ UNCHANGED <<workFrame, rec, dirty, owed, edit, jobs>>
RefreshOK(w) ==
  /\ work[w].pc = "calling" /\ work' = [work EXCEPT ![w].pc = "saving"]
  /\ UNCHANGED <<workFrame, rec, dirty, owed, edit, jobs>>

(* Update under mutationMu; the token may be no newer than the old one, and *)
(* a record that is gone or cannot be saved stays as it is.                 *)
RenewedAt == {now, now + Valid}
SaveRefresh(w) ==
  /\ work[w].pc = "saving" /\ edit = Free /\ work' = Returned(w)
  /\ \/ UNCHANGED <<rec, edit>>
     \/ /\ rec[work[w].c].present /\ edit' = [Free EXCEPT !.op = "mark", !.c = work[w].c]
        /\ \E t \in RenewedAt :
             rec' = [rec EXCEPT ![work[w].c] =
                       [Fresh(t) EXCEPT !.nra = IF t <= now THEN now + Ineffective
                                                            ELSE work[w].nra]]
  /\ UNCHANGED <<workFrame, dirty, owed, jobs>>

Report(w) ==
  /\ work[w].pc = "reporting" /\ MarkDirty(work[w].c)
  /\ work' = [work EXCEPT ![w] = Idle]
  /\ UNCHANGED <<workFrame, rec, edit, jobs>>

-----------------------------------------------------------------------------
(* A round takes no time, unless the loop has to wait for room in jobs.  A  *)
(* time that everyone has seen pass is 0 from then on.                      *)
Past(t) == IF t <= (IF loop = "select" THEN now' ELSE seen) THEN 0 ELSE t
Tick ==
  /\ now < MaxTime /\ now' = now + 1 /\ (loop = "select" \/ act.op = "send")
  /\ rec' = [c \in Creds |-> [rec[c] EXCEPT !.nra = Past(@), !.due = Past(@)]]
  /\ next' = [c \in Creds |-> Past(next[c])] /\ timer' = Past(timer)
  /\ work' = [w \in Runners |-> [work[w] EXCEPT !.nra = Past(@)]]
  /\ edit' = [edit EXCEPT !.nra = Past(@)]
  /\ UNCHANGED <<edits, dirty, wake, owed, loop, seen, todo, act, plan, jobs>>

LoopStep ==
  \/ RebuildRead \/ RebuildStore \/ WakeUp \/ TimerFires \/ Store \/ MarkPending
  \/ LookAgain \/ SendJob \/ DueDone \/ EndRound
  \/ \E c \in Creds : HandleDue(c) \/ ApplyDirty(c)
RunnerStep(w) ==
  \/ w \in Workers /\ TakeJob(w)
  \/ BeginRefresh(w) \/ NothingToRefresh(w) \/ RefreshFails(w) \/ RefreshAbandoned(w)
  \/ RefreshOK(w) \/ SaveRefresh(w) \/ Report(w)

Next ==
  \/ LoopStep \/ Signal \/ TellLoop \/ Unschedule \/ StoreResult \/ Tick
  \/ \E w \in Runners : RunnerStep(w)
  \/ \E c \in Creds : \/ \E q \in Callers : RefreshForRequest(q, c)
                     \/ Register(c) \/ Remove(c)
                     \/ \E unauth \in BOOLEAN : MarkResult(c, unauth)

Spec == Init /\ [][Next]_vars

(* The goroutines run, and a refresh that was called comes back. *)
FairSpec ==
  /\ Spec /\ WF_vars(LoopStep) /\ WF_vars(Signal)
  /\ WF_vars(TellLoop) /\ WF_vars(Unschedule) /\ WF_vars(StoreResult)
  /\ \A w \in Runners : WF_vars(RunnerStep(w))

-----------------------------------------------------------------------------
(* Properties. *)

InHand(c) ==
  \/ loop = "rebuild" \/ c \in dirty
  \/ c \in todo
  \/ act.op # "none" /\ act.c = c
  \/ edit.op = "mark" /\ edit.c = c
  \/ \E k \in 1..Len(jobs) : jobs[k] = c
  \/ \E w \in Runners : work[w].pc # "idle" /\ work[w].c = c

Watched(c) == InHand(c) \/ next[c] <= NextCheck(rec[c], now) + FailureFor

(* A credential that can be refreshed is on the heap, at most one backoff   *)
(* later than its record asks for, or someone has still to look at it: no   *)
(* interleaving of the loop with registrations, results, removals and       *)
(* refreshes forgets one.  The exception is one whose 401 a result cleared. *)
NeverForgotten ==
  \A c \in Creds : Schedulable(rec[c]) /\ ~rec[c].silent => Watched(c)

(* The loop never sleeps past its first check, nor on a dirty id. *)
NoLateSleep ==
  loop = "select" =>
    /\ \A c \in Creds : timer <= next[c]
    /\ dirty # {} => wake \/ owed

(* What needs a refresh gets a worker's call, or its record changes, or it  *)
(* is on the heap for later (there is no executor, or a result brought an   *)
(* older NextRefreshAfter back): the bounded channel never makes the loop   *)
(* and its workers wait for each other.                                     *)
WaitsForRefresh(c) ==
  \/ ShouldRefresh(rec[c], now) /\ ~rec[c].silent
  \/ \E k \in 1..Len(jobs) : jobs[k] = c
DueIsRefreshed ==
  \A c \in Creds :
    WaitsForRefresh(c) ~> ~WaitsForRefresh(c) \/ next[c] \in now + 1 .. now + FailureFor
=============================================================================
