------------------------- MODULE RefreshLoopProofs -------------------------
(***************************************************************************)
(* Theorems about RefreshLoop for every set of credentials, workers and    *)
(* requests, every capacity of the channel of jobs and every number of     *)
(* edits: no credential is forgotten, and the loop does not oversleep.     *)
(***************************************************************************)
EXTENDS RefreshLoop, TLAPS, SequenceTheorems

-----------------------------------------------------------------------------
(* Types.  A time that is stored anywhere is at most one backoff ahead.    *)
Soon  == 0..(now + FailureFor)
Names == Creds \cup {NoAct.c}

ClockInv == now \in 0..MaxTime /\ seen \in Nat /\ seen <= now
Records == [present : BOOLEAN, unauth : BOOLEAN, silent : BOOLEAN, nra : Soon, due : Soon]
RecInv == rec \in [Creds -> Records]
HeapInv ==
  /\ next \in [Creds -> Soon \cup {NoTime}] /\ plan \in [Creds -> Soon \cup {NoTime}]
  /\ Creds # {} => timer \in Nat
(* Remove holds mutationMu until the loop has dropped the id. *)
EditInv ==
  /\ edit \in [op : {"none", "mark", "drop", "result"}, c : Names, unauth : BOOLEAN,
               nra : Soon]
  /\ edit.op # "none" => edit.c \in Creds
  /\ edit.op = "drop" => ~rec[edit.c].present
WorkRec == [pc : {"idle", "locking", "calling", "saving", "reporting"}, c : Names, nra : Soon]
WorkInv ==
  /\ jobs \in Seq(Creds)
  /\ work \in [Runners -> WorkRec]
  /\ \A w \in Runners : work[w].pc # "idle" => work[w].c \in Creds

(* The loop has at most one act, and none while it sleeps. *)
LoopInv ==
  /\ loop \in {"rebuild", "select", "due", "apply"}
  /\ act \in [op : {"none", "rebuild", "store", "refresh", "again", "send"}, c : Names]
  /\ act.op \in {"store", "refresh", "again", "send"} => act.c \in Creds
  /\ todo \subseteq Creds /\ dirty \subseteq Creds /\ wake \in BOOLEAN /\ owed \in BOOLEAN
  /\ loop = "select" => act.op = "none" /\ todo = {}
  /\ loop = "rebuild" => act.op \in {"none", "rebuild"} /\ todo = {}
  /\ loop = "apply" => act.op \in {"none", "store"}
  /\ loop = "due" => act.op # "rebuild"

TypeInv == ClockInv /\ RecInv /\ HeapInv /\ EditInv /\ WorkInv /\ LoopInv

-----------------------------------------------------------------------------
(* Someone will mark the id dirty, or has; a request that holds no lock yet *)
(* may leave without doing so, and does not count.                          *)
Pledged(c) ==
  \/ c \in dirty
  \/ edit.op = "mark" /\ edit.c = c
  \/ \E k \in 1..Len(jobs) : jobs[k] = c
  \/ \E w \in Runners : /\ work[w].c = c
                        /\ \/ work[w].pc = "reporting"
                           \/ w \in Workers /\ work[w].pc # "idle"

(* The id is on the heap, and what the loop is about to store keeps it so. *)
Storing(c) == act.op = "rebuild" \/ (act.op = "store" /\ act.c = c)
OnHeap(c)  == IF Storing(c) THEN plan[c] # NoTime ELSE next[c] # NoTime

Kept(c) ==
  \/ Pledged(c) \/ c \in todo \/ OnHeap(c)
  \/ act.op \in {"refresh", "again", "send"} /\ act.c = c
  \/ loop = "rebuild" /\ act.op = "none"

Live(c)  == Schedulable(rec[c]) /\ ~rec[c].silent
WatchInv == \A c \in Creds : Live(c) => Kept(c)

SleepInv ==
  /\ dirty # {} => wake \/ owed
  /\ loop = "select" => \A c \in Creds : timer <= next[c]

-----------------------------------------------------------------------------
(* Type correctness. *)
LEMMA Bounds ==
  /\ Soon \subseteq Nat /\ NoTime \in Nat /\ MaxTime \in Nat
  /\ ClockInv => \A t \in Soon : t < NoTime
  /\ ClockInv => 0 \in Soon /\ now + 1 \in Soon /\ now + 2 \in Soon /\ now \in Soon
                 /\ \A t \in 0..seen : t + 1 \in Soon /\ t \in Soon
  BY BoundsAssumption DEF Soon, NoTime, ClockInv, FailureFor

LEMMA ClockStep ==
  ASSUME ClockInv, [Next]_vars
  PROVE  ClockInv' /\ Soon \subseteq Soon' /\ (now' = now \/ now' = now + 1)
<1> DEFINE Clocked == ClockInv' /\ Soon \subseteq Soon' /\ (now' = now \/ now' = now + 1)
<1> SUFFICES Clocked
  OBVIOUS
<1> USE BoundsAssumption DEF ClockInv, Soon, loopVars, loopFrame, workFrame, FailureFor, Editing
<1>1. CASE Signal
  BY <1>1 DEF Signal
<1>2. CASE TellLoop
  BY <1>2 DEF TellLoop
<1>3. CASE Unschedule
  BY <1>3 DEF Unschedule
<1>4. CASE StoreResult
  BY <1>4 DEF StoreResult
<1>5. CASE Tick
  <2>1. now < MaxTime /\ now' = now + 1 /\ seen' = seen
    BY <1>5 DEF Tick
  <2> QED
    BY <2>1
<1>6. CASE RebuildRead
  BY <1>6 DEF RebuildRead
<1>7. CASE RebuildStore
  BY <1>7 DEF RebuildStore
<1>8. CASE WakeUp
  BY <1>8 DEF WakeUp
<1>9. CASE TimerFires
  BY <1>9 DEF TimerFires
<1>10. CASE Store
  BY <1>10 DEF Store
<1>11. CASE MarkPending
  BY <1>11 DEF MarkPending
<1>12. CASE LookAgain
  BY <1>12 DEF LookAgain
<1>13. CASE SendJob
  BY <1>13 DEF SendJob
<1>14. CASE DueDone
  BY <1>14 DEF DueDone
<1>15. CASE EndRound
  BY <1>15 DEF EndRound
<1>16. ASSUME NEW c \in Creds, HandleDue(c) PROVE Clocked
  BY <1>16 DEF HandleDue
<1>17. ASSUME NEW c \in Creds, ApplyDirty(c) PROVE Clocked
  BY <1>17 DEF ApplyDirty
<1>18. ASSUME NEW c \in Creds, Register(c) PROVE Clocked
  BY <1>18 DEF Register
<1>19. ASSUME NEW c \in Creds, Remove(c) PROVE Clocked
  BY <1>19 DEF Remove
<1>20. ASSUME NEW c \in Creds, NEW u \in BOOLEAN, MarkResult(c, u) PROVE Clocked
  BY <1>20 DEF MarkResult
<1>21. ASSUME NEW w \in Workers, TakeJob(w) PROVE Clocked
  BY <1>21 DEF TakeJob
<1>22. ASSUME NEW q \in Callers, NEW c \in Creds, RefreshForRequest(q, c) PROVE Clocked
  BY <1>22 DEF RefreshForRequest
<1>23. ASSUME NEW w \in Runners, BeginRefresh(w) PROVE Clocked
  BY <1>23 DEF BeginRefresh
<1>24. ASSUME NEW w \in Runners, NothingToRefresh(w) PROVE Clocked
  BY <1>24 DEF NothingToRefresh
<1>25. ASSUME NEW w \in Runners, RefreshFails(w) PROVE Clocked
  BY <1>25 DEF RefreshFails
<1>26. ASSUME NEW w \in Runners, RefreshAbandoned(w) PROVE Clocked
  BY <1>26 DEF RefreshAbandoned
<1>27. ASSUME NEW w \in Runners, RefreshOK(w) PROVE Clocked
  BY <1>27 DEF RefreshOK
<1>28. ASSUME NEW w \in Runners, SaveRefresh(w) PROVE Clocked
  BY <1>28 DEF SaveRefresh
<1>29. ASSUME NEW w \in Runners, Report(w) PROVE Clocked
  BY <1>29 DEF Report
<1>30. CASE UNCHANGED vars
  BY <1>30 DEF vars
<1> QED
  BY <1>1, <1>2, <1>3, <1>4, <1>5, <1>6, <1>7, <1>8, <1>9, <1>10, <1>11, <1>12, <1>13, <1>14, <1>15, <1>16, <1>17, <1>18, <1>19, <1>20, <1>21, <1>22, <1>23, <1>24, <1>25, <1>26, <1>27, <1>28, <1>29, <1>30
     DEF Next, LoopStep, RunnerStep

(* One goroutine moves. *)
LEMMA WorkEntry ==
  ASSUME WorkInv, Soon \subseteq Soon', NEW w \in Runners, NEW r \in WorkRec,
         r.pc # "idle" => r.c \in Creds, work' = [work EXCEPT ![w] = r],
         jobs' \in Seq(Creds)
  PROVE  WorkInv'
<1>1. WorkRec \subseteq WorkRec'
  BY DEF WorkRec
<1>2. work' \in [Runners -> WorkRec]
  BY DEF WorkInv
<1> QED
  BY <1>1, <1>2 DEF WorkInv

LEMMA JobsKept ==
  ASSUME WorkInv
  PROVE  /\ \A c \in Creds : Append(jobs, c) \in Seq(Creds)
         /\ jobs # <<>> => Head(jobs) \in Creds /\ Tail(jobs) \in Seq(Creds)
  BY DEF WorkInv

LEMMA IdleRec == ClockInv => Idle \in WorkRec /\ Idle.pc = "idle"
  BY Bounds DEF WorkRec, Idle, Names, NoAct

LEMMA WorkStep == ASSUME ClockInv, RecInv, WorkInv, EditInv, LoopInv, [Next]_vars PROVE WorkInv'
<1>0. Soon \subseteq Soon'
  BY ClockStep
<1> USE <1>0 DEF WorkInv, WorkRec, loopVars, loopFrame, workFrame, Editing, Started, Returned
<1>1. CASE Signal
  BY <1>1 DEF Signal
<1>2. CASE TellLoop
  BY <1>2 DEF TellLoop
<1>3. CASE Unschedule
  BY <1>3 DEF Unschedule
<1>4. CASE StoreResult
  BY <1>4 DEF StoreResult
<1>5. CASE Tick
  <2>1. PICK past : past = [w \in Runners |-> Past(work[w].nra)]
    OBVIOUS
  <2>2. work' = [w \in Runners |-> [work[w] EXCEPT !.nra = past[w]]] /\ jobs' = jobs
    BY <1>5, <2>1 DEF Tick
  <2>3. \A w \in Runners : past[w] \in Soon
    BY <2>1, Bounds DEF Past, WorkRec
  <2>4. \A w \in Runners : work'[w] \in WorkRec
    BY <2>2, <2>3 DEF WorkRec
  <2>5. \A w \in Runners : work'[w].pc = work[w].pc /\ work'[w].c = work[w].c
    BY <2>2, <2>3 DEF WorkRec
  <2>6. WorkRec \subseteq WorkRec'
    BY DEF WorkRec
  <2> QED
    BY <2>2, <2>4, <2>5, <2>6
<1>6. CASE RebuildRead
  BY <1>6 DEF RebuildRead
<1>7. CASE RebuildStore
  BY <1>7 DEF RebuildStore
<1>8. CASE WakeUp
  BY <1>8 DEF WakeUp
<1>9. CASE TimerFires
  BY <1>9 DEF TimerFires
<1>10. CASE Store
  BY <1>10 DEF Store
<1>11. CASE MarkPending
  BY <1>11 DEF MarkPending
<1>12. CASE LookAgain
  BY <1>12 DEF LookAgain
<1>13. CASE SendJob
  BY <1>13, JobsKept DEF SendJob, LoopInv, WorkRec
<1>14. CASE DueDone
  BY <1>14 DEF DueDone
<1>15. CASE EndRound
  BY <1>15 DEF EndRound
<1>16. ASSUME NEW c \in Creds, HandleDue(c) PROVE WorkInv'
  BY <1>16 DEF HandleDue
<1>17. ASSUME NEW c \in Creds, ApplyDirty(c) PROVE WorkInv'
  BY <1>17 DEF ApplyDirty
<1>18. ASSUME NEW c \in Creds, Register(c) PROVE WorkInv'
  BY <1>18 DEF Register
<1>19. ASSUME NEW c \in Creds, Remove(c) PROVE WorkInv'
  BY <1>19 DEF Remove
<1>20. ASSUME NEW c \in Creds, NEW u \in BOOLEAN, MarkResult(c, u) PROVE WorkInv'
  BY <1>20 DEF MarkResult
<1>21. ASSUME NEW w \in Workers, TakeJob(w) PROVE WorkInv'
  <2>1. PICK r : r = Started(Head(jobs))
    OBVIOUS
  <2>2. work' = [work EXCEPT ![w] = r] /\ jobs' = Tail(jobs)
    BY <1>21, <2>1 DEF TakeJob, WorkInv
  <2>3. r \in WorkRec /\ (r.pc # "idle" => r.c \in Creds)
    BY <1>21, <2>1, IdleRec, JobsKept, Bounds DEF TakeJob, WorkInv, WorkRec, Started, Names
  <2> QED
    BY <2>2, <2>3, WorkEntry, JobsKept, <1>21 DEF TakeJob, Runners
<1>22. ASSUME NEW w \in Callers, NEW c \in Creds, RefreshForRequest(w, c) PROVE WorkInv'
  <2>1. PICK r : r = Started(c)
    OBVIOUS
  <2>2. work' = [work EXCEPT ![w] = r] /\ jobs' = jobs
    BY <1>22, <2>1 DEF RefreshForRequest, WorkInv
  <2>3. r \in WorkRec /\ (r.pc # "idle" => r.c \in Creds)
    BY <1>22, <2>1, IdleRec, Bounds DEF RefreshForRequest, WorkInv, WorkRec, Started, Names
  <2> QED
    BY <2>2, <2>3, WorkEntry DEF WorkInv, Runners
<1>23. ASSUME NEW w \in Runners, BeginRefresh(w) PROVE WorkInv'
  <2>1. PICK r : r = [work[w] EXCEPT !.pc = "calling", !.nra = rec[work[w].c].nra]
    OBVIOUS
  <2>2. work' = [work EXCEPT ![w] = r] /\ jobs' = jobs
    BY <1>23, <2>1 DEF BeginRefresh, WorkInv
  <2>3. r \in WorkRec /\ (r.pc # "idle" => r.c \in Creds)
    BY <1>23, <2>1 DEF BeginRefresh, WorkInv, WorkRec, RecInv, Records
  <2> QED
    BY <2>2, <2>3, WorkEntry DEF WorkInv
<1>24. ASSUME NEW w \in Runners, NothingToRefresh(w) PROVE WorkInv'
  <2>1. PICK r : r = IF w \in Workers THEN [work[w] EXCEPT !.pc = "reporting"] ELSE Idle
    OBVIOUS
  <2>2. work' = [work EXCEPT ![w] = r] /\ jobs' = jobs
    BY <1>24, <2>1 DEF NothingToRefresh, WorkInv
  <2>3. r \in WorkRec /\ (r.pc # "idle" => r.c \in Creds)
    BY <1>24, <2>1, IdleRec DEF NothingToRefresh, WorkInv, WorkRec, Started, Names
  <2> QED
    BY <2>2, <2>3, WorkEntry DEF WorkInv
<1>25. ASSUME NEW w \in Runners, RefreshFails(w) PROVE WorkInv'
  BY <1>25 DEF RefreshFails
<1>26. ASSUME NEW w \in Runners, RefreshAbandoned(w) PROVE WorkInv'
  <2>1. PICK r : r = IF w \in Workers THEN [work[w] EXCEPT !.pc = "reporting"] ELSE Idle
    OBVIOUS
  <2>2. work' = [work EXCEPT ![w] = r] /\ jobs' = jobs
    BY <1>26, <2>1 DEF RefreshAbandoned, WorkInv
  <2>3. r \in WorkRec /\ (r.pc # "idle" => r.c \in Creds)
    BY <1>26, <2>1, IdleRec DEF RefreshAbandoned, WorkInv, WorkRec, Started, Names
  <2> QED
    BY <2>2, <2>3, WorkEntry DEF WorkInv
<1>27. ASSUME NEW w \in Runners, RefreshOK(w) PROVE WorkInv'
  BY <1>27 DEF RefreshOK
<1>28. ASSUME NEW w \in Runners, SaveRefresh(w) PROVE WorkInv'
  <2>1. PICK r : r = IF w \in Workers THEN [work[w] EXCEPT !.pc = "reporting"] ELSE Idle
    OBVIOUS
  <2>2. work' = [work EXCEPT ![w] = r] /\ jobs' = jobs
    BY <1>28, <2>1 DEF SaveRefresh, WorkInv
  <2>3. r \in WorkRec /\ (r.pc # "idle" => r.c \in Creds)
    BY <1>28, <2>1, IdleRec DEF SaveRefresh, WorkInv, WorkRec, Started, Names
  <2> QED
    BY <2>2, <2>3, WorkEntry DEF WorkInv
<1>29. ASSUME NEW w \in Runners, Report(w) PROVE WorkInv'
  <2>1. PICK r : r = Idle
    OBVIOUS
  <2>2. work' = [work EXCEPT ![w] = r] /\ jobs' = jobs
    BY <1>29, <2>1 DEF Report, WorkInv
  <2>3. r \in WorkRec /\ (r.pc # "idle" => r.c \in Creds)
    BY <1>29, <2>1, IdleRec DEF Report, WorkInv, WorkRec, Started, Names
  <2> QED
    BY <2>2, <2>3, WorkEntry DEF WorkInv
<1>30. CASE UNCHANGED vars
  BY <1>30 DEF vars
<1> QED
  BY <1>1, <1>2, <1>3, <1>4, <1>5, <1>6, <1>7, <1>8, <1>9, <1>10, <1>11, <1>12, <1>13, <1>14, <1>15, <1>16, <1>17, <1>18, <1>19, <1>20, <1>21, <1>22, <1>23, <1>24, <1>25, <1>26, <1>27, <1>28, <1>29, <1>30
     DEF Next, LoopStep, RunnerStep

LEMMA LoopInvStep == ASSUME LoopInv, HeapInv, EditInv, WorkInv, [Next]_vars PROVE LoopInv'
<1> USE DEF LoopInv, loopVars, loopFrame, workFrame, Editing, MarkDirty, TakeDirty, NoAct, Names, PopDue, OfferToken
<1>1. CASE Signal
  BY <1>1 DEF Signal
<1>2. CASE TellLoop
  <2>1. /\ edit.c \in Creds /\ dirty' = dirty \cup {edit.c} /\ owed' = TRUE
        /\ UNCHANGED <<wake, loopVars>>
    BY <1>2 DEF TellLoop, EditInv
  <2> QED
    BY <2>1
<1>3. CASE Unschedule
  BY <1>3 DEF Unschedule
<1>4. CASE StoreResult
  BY <1>4 DEF StoreResult
<1>5. CASE Tick
  BY <1>5 DEF Tick
<1>6. CASE RebuildRead
  BY <1>6 DEF RebuildRead
<1>7. CASE RebuildStore
  BY <1>7 DEF RebuildStore
<1>8. CASE WakeUp
  BY <1>8 DEF WakeUp
<1>9. CASE TimerFires
  BY <1>9 DEF TimerFires
<1>10. CASE Store
  BY <1>10 DEF Store
<1>11. CASE MarkPending
  BY <1>11 DEF MarkPending
<1>12. CASE LookAgain
  BY <1>12 DEF LookAgain
<1>13. CASE SendJob
  BY <1>13 DEF SendJob
<1>14. CASE DueDone
  BY <1>14 DEF DueDone
<1>15. CASE EndRound
  BY <1>15 DEF EndRound
<1>16. ASSUME NEW c \in Creds, HandleDue(c) PROVE LoopInv'
  BY <1>16 DEF HandleDue
<1>17. ASSUME NEW c \in Creds, ApplyDirty(c) PROVE LoopInv'
  BY <1>17 DEF ApplyDirty
<1>18. ASSUME NEW c \in Creds, Register(c) PROVE LoopInv'
  BY <1>18 DEF Register
<1>19. ASSUME NEW c \in Creds, Remove(c) PROVE LoopInv'
  BY <1>19 DEF Remove
<1>20. ASSUME NEW c \in Creds, NEW u \in BOOLEAN, MarkResult(c, u) PROVE LoopInv'
  BY <1>20 DEF MarkResult
<1>21. ASSUME NEW w \in Workers, TakeJob(w) PROVE LoopInv'
  BY <1>21 DEF TakeJob
<1>22. ASSUME NEW q \in Callers, NEW c \in Creds, RefreshForRequest(q, c) PROVE LoopInv'
  BY <1>22 DEF RefreshForRequest
<1>23. ASSUME NEW w \in Runners, BeginRefresh(w) PROVE LoopInv'
  BY <1>23 DEF BeginRefresh
<1>24. ASSUME NEW w \in Runners, NothingToRefresh(w) PROVE LoopInv'
  BY <1>24 DEF NothingToRefresh
<1>25. ASSUME NEW w \in Runners, RefreshFails(w) PROVE LoopInv'
  BY <1>25 DEF RefreshFails
<1>26. ASSUME NEW w \in Runners, RefreshAbandoned(w) PROVE LoopInv'
  BY <1>26 DEF RefreshAbandoned
<1>27. ASSUME NEW w \in Runners, RefreshOK(w) PROVE LoopInv'
  BY <1>27 DEF RefreshOK
<1>28. ASSUME NEW w \in Runners, SaveRefresh(w) PROVE LoopInv'
  BY <1>28 DEF SaveRefresh
<1>29. ASSUME NEW w \in Runners, Report(w) PROVE LoopInv'
  <2>1. /\ work[w].c \in Creds /\ dirty' = dirty \cup {work[w].c} /\ owed' = TRUE
        /\ UNCHANGED <<wake, loopVars>>
    BY <1>29 DEF Report, WorkInv
  <2> QED
    BY <2>1
<1>30. CASE UNCHANGED vars
  BY <1>30 DEF vars
<1> QED
  BY <1>1, <1>2, <1>3, <1>4, <1>5, <1>6, <1>7, <1>8, <1>9, <1>10, <1>11, <1>12, <1>13, <1>14, <1>15, <1>16, <1>17, <1>18, <1>19, <1>20, <1>21, <1>22, <1>23, <1>24, <1>25, <1>26, <1>27, <1>28, <1>29, <1>30
     DEF Next, LoopStep, RunnerStep

(* One record changes; nobody gives one back that a Remove has taken while  *)
(* the loop is still to be told of it.                                      *)
LEMMA RecEntry ==
  ASSUME RecInv, Soon \subseteq Soon', NEW c \in Creds, NEW r \in Records,
         rec' = [rec EXCEPT ![c] = r]
  PROVE  RecInv'
<1>1. Records \subseteq Records'
  BY DEF Records
<1> QED
  BY <1>1 DEF RecInv

LEMMA RecStep ==
  ASSUME TypeInv, [Next]_vars
  PROVE  RecInv'
<1>0. Soon \subseteq Soon' /\ now \in Soon /\ now + 1 \in Soon /\ now + 2 \in Soon
      /\ 0 \in Soon /\ seen + PendingFor \in Soon
  BY ClockStep, Bounds DEF TypeInv, ClockInv, PendingFor
<1>1a. Records \subseteq Records'
  BY <1>0 DEF Records
<1>1b. ASSUME rec' = rec PROVE RecInv'
  BY <1>1b, <1>1a DEF RecInv, TypeInv
<1> USE <1>1b DEF loopVars, loopFrame, workFrame, Editing
<1>1. CASE Signal
  BY <1>1 DEF Signal
<1>2. CASE TellLoop
  BY <1>2 DEF TellLoop
<1>3. CASE Unschedule
  BY <1>3 DEF Unschedule
<1>4. CASE StoreResult
  <2>0. CASE rec' # rec
    <3>1. edit.c \in Creds /\ edit.unauth \in BOOLEAN /\ edit.nra \in Soon
      BY <1>4 DEF StoreResult, TypeInv, EditInv
    <3>2. PICK a \in BOOLEAN, n \in Soon, b \in BOOLEAN : rec' = [rec EXCEPT ![edit.c] =
            [@ EXCEPT !.unauth = a, !.nra = n, !.silent = b]]
      BY <1>4, <2>0, <3>1 DEF StoreResult
    <3>3. PICK r : r = [rec[edit.c] EXCEPT !.unauth = a, !.nra = n, !.silent = b]
      OBVIOUS
    <3>4. rec' = [rec EXCEPT ![edit.c] = r]
      BY <3>2, <3>3 DEF TypeInv, RecInv
    <3>5. edit.c \in Creds /\ r \in Records
      BY <3>3, <3>1 DEF TypeInv, RecInv, Records
    <3> QED
      BY <1>0, <3>4, <3>5, RecEntry DEF TypeInv
  <2> QED
    BY <2>0
<1>5. CASE Tick
  <2>1. PICK nra, due : nra = [c \in Creds |-> Past(rec[c].nra)] /\ due = [c \in Creds |-> Past(rec[c].due)]
    OBVIOUS
  <2>2. rec' = [c \in Creds |-> [rec[c] EXCEPT !.nra = nra[c], !.due = due[c]]]
    BY <1>5, <2>1 DEF Tick
  <2>3. \A c \in Creds : nra[c] \in Soon /\ due[c] \in Soon
    BY <2>1, <1>0 DEF Past, TypeInv, RecInv, Records
  <2>4. \A c \in Creds : rec'[c] \in Records
    BY <2>2, <2>3 DEF TypeInv, RecInv, Records
  <2> QED
    BY <1>1a, <2>2, <2>4 DEF RecInv
<1>6. CASE RebuildRead
  BY <1>6 DEF RebuildRead
<1>7. CASE RebuildStore
  BY <1>7 DEF RebuildStore
<1>8. CASE WakeUp
  BY <1>8 DEF WakeUp
<1>9. CASE TimerFires
  BY <1>9 DEF TimerFires
<1>10. CASE Store
  BY <1>10 DEF Store
<1>11. CASE MarkPending
  <2>0. CASE rec[act.c].present /\ rec[act.c].nra <= seen
    <3>1. PICK r : r = [rec[act.c] EXCEPT !.nra = seen + PendingFor]
      OBVIOUS
    <3>2. rec' = [rec EXCEPT ![act.c] = r]
      BY <1>11, <3>1, <2>0 DEF MarkPending, TypeInv, RecInv
    <3>3. act.c \in Creds /\ r \in Records
      BY <1>11, <3>1, <1>0, <2>0 DEF MarkPending, TypeInv, RecInv, Records, LoopInv
    <3> QED
      BY <1>0, <3>2, <3>3, RecEntry DEF TypeInv
  <2>4. CASE ~(rec[act.c].present /\ rec[act.c].nra <= seen)
    BY <1>11, <2>4 DEF MarkPending
  <2> QED
    BY <2>0, <2>4
<1>12. CASE LookAgain
  BY <1>12 DEF LookAgain
<1>13. CASE SendJob
  BY <1>13 DEF SendJob
<1>14. CASE DueDone
  BY <1>14 DEF DueDone
<1>15. CASE EndRound
  BY <1>15 DEF EndRound
<1>16. ASSUME NEW c \in Creds, HandleDue(c) PROVE RecInv'
  BY <1>16 DEF HandleDue
<1>17. ASSUME NEW c \in Creds, ApplyDirty(c) PROVE RecInv'
  BY <1>17 DEF ApplyDirty
<1>18. ASSUME NEW c \in Creds, Register(c) PROVE RecInv'
  <2>0. PICK t \in {now, now + 1} : rec' = [rec EXCEPT ![c] = Fresh(t)]
    BY <1>18 DEF Register
  <2>1. PICK r : r = Fresh(t)
    OBVIOUS
  <2>2. rec' = [rec EXCEPT ![c] = r]
    BY <1>18, <2>1, <2>0 DEF Register, TypeInv, RecInv
  <2>3. c \in Creds /\ r \in Records
    BY <1>18, <2>1, <1>0, <2>0 DEF Register, TypeInv, RecInv, Records, EditInv, LoopInv, WorkInv, WorkRec, Fresh
  <2> QED
    BY <1>0, <2>2, <2>3, RecEntry DEF TypeInv
<1>19. ASSUME NEW c \in Creds, Remove(c) PROVE RecInv'
  <2>1. PICK r : r = [rec[c] EXCEPT !.present = FALSE]
    OBVIOUS
  <2>2. rec' = [rec EXCEPT ![c] = r]
    BY <1>19, <2>1 DEF Remove, TypeInv, RecInv
  <2>3. c \in Creds /\ r \in Records
    BY <1>19, <2>1, <1>0 DEF Remove, TypeInv, RecInv, Records, EditInv, LoopInv, WorkInv, WorkRec, Fresh
  <2> QED
    BY <1>0, <2>2, <2>3, RecEntry DEF TypeInv
<1>20. ASSUME NEW c \in Creds, NEW u \in BOOLEAN, MarkResult(c, u) PROVE RecInv'
  BY <1>20 DEF MarkResult
<1>21. ASSUME NEW w \in Workers, TakeJob(w) PROVE RecInv'
  BY <1>21 DEF TakeJob
<1>22. ASSUME NEW w \in Callers, NEW c \in Creds, RefreshForRequest(w, c) PROVE RecInv'
  BY <1>22 DEF RefreshForRequest
<1>23. ASSUME NEW w \in Runners, BeginRefresh(w) PROVE RecInv'
  BY <1>23 DEF BeginRefresh
<1>24. ASSUME NEW w \in Runners, NothingToRefresh(w) PROVE RecInv'
  BY <1>24 DEF NothingToRefresh
<1>25. ASSUME NEW w \in Runners, RefreshFails(w) PROVE RecInv'
  <2>0. PICK a \in BOOLEAN, t \in {0, now + FailureFor} :
          rec' = [rec EXCEPT ![work[w].c].unauth = a, ![work[w].c].nra = t]
    BY <1>25 DEF RefreshFails
  <2>1. PICK r : r = [rec[work[w].c] EXCEPT !.unauth = a, !.nra = t]
    OBVIOUS
  <2>2. rec' = [rec EXCEPT ![work[w].c] = r]
    BY <1>25, <2>1, <2>0 DEF RefreshFails, TypeInv, RecInv
  <2>3. work[w].c \in Creds /\ r \in Records
    <3>1. work[w].c \in Creds
      BY <1>25 DEF RefreshFails, TypeInv, WorkInv, WorkRec
    <3>2. t \in Soon
      BY <1>0, <2>0 DEF FailureFor
    <3> QED
      BY <2>1, <3>1, <3>2 DEF TypeInv, RecInv, Records
  <2> QED
    BY <1>0, <2>2, <2>3, RecEntry DEF TypeInv
<1>26. ASSUME NEW w \in Runners, RefreshAbandoned(w) PROVE RecInv'
  BY <1>26 DEF RefreshAbandoned
<1>27. ASSUME NEW w \in Runners, RefreshOK(w) PROVE RecInv'
  BY <1>27 DEF RefreshOK
<1>28. ASSUME NEW w \in Runners, SaveRefresh(w) PROVE RecInv'
  <2>0. CASE rec' # rec
    <3>0. PICK t \in RenewedAt : rec' = [rec EXCEPT ![work[w].c] =
            [Fresh(t) EXCEPT !.nra = IF t <= now THEN now + Ineffective ELSE work[w].nra]]
      BY <1>28, <2>0 DEF SaveRefresh
    <3>1. PICK r : r = [Fresh(t) EXCEPT !.nra = IF t <= now THEN now + Ineffective ELSE work[w].nra]
      OBVIOUS
    <3>2. rec' = [rec EXCEPT ![work[w].c] = r]
      BY <1>28, <3>1, <3>0 DEF SaveRefresh, TypeInv, RecInv
    <3>3. work[w].c \in Creds /\ r \in Records
      BY <1>28, <3>1, <1>0, <3>0 DEF SaveRefresh, TypeInv, RecInv, Records, EditInv, LoopInv, WorkInv, WorkRec, Fresh, RenewedAt, Valid, Ineffective
    <3> QED
      BY <1>0, <3>2, <3>3, RecEntry DEF TypeInv
  <2> QED
    BY <2>0
<1>29. ASSUME NEW w \in Runners, Report(w) PROVE RecInv'
  BY <1>29 DEF Report
<1>30. CASE UNCHANGED vars
  BY <1>30 DEF vars
<1> QED
  BY <1>1, <1>2, <1>3, <1>4, <1>5, <1>6, <1>7, <1>8, <1>9, <1>10, <1>11, <1>12, <1>13, <1>14, <1>15, <1>16, <1>17, <1>18, <1>19, <1>20, <1>21, <1>22, <1>23, <1>24, <1>25, <1>26, <1>27, <1>28, <1>29, <1>30
     DEF Next, LoopStep, RunnerStep

LEMMA EditStep ==
  ASSUME TypeInv, [Next]_vars
  PROVE  EditInv'
<1>0. Soon \subseteq Soon' /\ 0 \in Soon
  BY ClockStep, Bounds DEF TypeInv
<1>1a. Free \in [op : {"none", "mark", "drop", "result"}, c : Names, unauth : BOOLEAN, nra : Soon]
       /\ Free.op = "none"
  BY <1>0 DEF Free, Names, NoAct
<1>1b. ASSUME edit' = edit, edit.op = "drop" => rec'[edit.c].present = rec[edit.c].present
       PROVE  EditInv'
  BY <1>0, <1>1b DEF TypeInv, EditInv
<1>1c. ASSUME edit' = Free PROVE EditInv'
  BY <1>0, <1>1a, <1>1c DEF EditInv
<1> USE <1>1b, <1>1c DEF loopVars, loopFrame, workFrame, Editing
<1>1. CASE Signal
  BY <1>1 DEF Signal
<1>2. CASE TellLoop
  BY <1>2 DEF TellLoop
<1>3. CASE Unschedule
  BY <1>3 DEF Unschedule
<1>4. CASE StoreResult
  BY <1>4 DEF StoreResult
<1>5. CASE Tick
  <2>1. PICK t : t = Past(edit.nra)
    OBVIOUS
  <2>2. edit' = [edit EXCEPT !.nra = t]
    BY <1>5, <2>1 DEF Tick
  <2>3. t \in Soon
    BY <2>1, <1>0 DEF Past, TypeInv, EditInv
  <2>4. \A c \in Creds : rec'[c].present = rec[c].present
    BY <1>5 DEF Tick, TypeInv, RecInv, Records
  <2> QED
    BY <1>0, <2>2, <2>3, <2>4 DEF TypeInv, EditInv
<1>6. CASE RebuildRead
  BY <1>6 DEF RebuildRead
<1>7. CASE RebuildStore
  BY <1>7 DEF RebuildStore
<1>8. CASE WakeUp
  BY <1>8 DEF WakeUp
<1>9. CASE TimerFires
  BY <1>9 DEF TimerFires
<1>10. CASE Store
  BY <1>10 DEF Store
<1>11. CASE MarkPending
  <2>1. rec' = rec \/ rec' = [rec EXCEPT ![act.c].nra = seen + PendingFor]
    BY <1>11 DEF MarkPending
  <2>2. \A c \in Creds : rec'[c].present = rec[c].present
    BY <2>1 DEF TypeInv, RecInv, Records
  <2> QED
    BY <1>11, <2>2 DEF MarkPending, TypeInv, EditInv
<1>12. CASE LookAgain
  BY <1>12 DEF LookAgain
<1>13. CASE SendJob
  BY <1>13 DEF SendJob
<1>14. CASE DueDone
  BY <1>14 DEF DueDone
<1>15. CASE EndRound
  BY <1>15 DEF EndRound
<1>16. ASSUME NEW c \in Creds, HandleDue(c) PROVE EditInv'
  BY <1>16 DEF HandleDue
<1>17. ASSUME NEW c \in Creds, ApplyDirty(c) PROVE EditInv'
  BY <1>17 DEF ApplyDirty
<1>18. ASSUME NEW c \in Creds, Register(c) PROVE EditInv'
  <2>1. edit' = [Free EXCEPT !.op = "mark", !.c = c]
    BY <1>18 DEF Register
  <2> QED
    BY <1>0, <1>1a, <2>1 DEF EditInv, Names
<1>19. ASSUME NEW c \in Creds, Remove(c) PROVE EditInv'
  <2>1. edit' = [Free EXCEPT !.op = "drop", !.c = c] /\ ~rec'[c].present
    BY <1>19 DEF Remove, TypeInv, RecInv, Records
  <2> QED
    BY <1>0, <1>1a, <2>1 DEF EditInv, Names
<1>20. ASSUME NEW c \in Creds, NEW u \in BOOLEAN, MarkResult(c, u) PROVE EditInv'
  <2>1. edit' = [op |-> "result", c |-> c, unauth |-> u, nra |-> rec[c].nra]
    BY <1>20 DEF MarkResult
  <2>2. rec[c].nra \in Soon
    BY DEF TypeInv, RecInv, Records
  <2> QED
    BY <1>0, <2>1, <2>2 DEF EditInv, Names
<1>21. ASSUME NEW w \in Workers, TakeJob(w) PROVE EditInv'
  BY <1>21 DEF TakeJob
<1>22. ASSUME NEW w \in Callers, NEW c \in Creds, RefreshForRequest(w, c) PROVE EditInv'
  BY <1>22 DEF RefreshForRequest
<1>23. ASSUME NEW w \in Runners, BeginRefresh(w) PROVE EditInv'
  BY <1>23 DEF BeginRefresh
<1>24. ASSUME NEW w \in Runners, NothingToRefresh(w) PROVE EditInv'
  BY <1>24 DEF NothingToRefresh
<1>25. ASSUME NEW w \in Runners, RefreshFails(w) PROVE EditInv'
  <2>1. PICK a \in BOOLEAN, t \in {0, now + FailureFor} :
          rec' = [rec EXCEPT ![work[w].c].unauth = a, ![work[w].c].nra = t]
    BY <1>25 DEF RefreshFails
  <2>2. \A c \in Creds : rec'[c].present = rec[c].present
    BY <2>1 DEF TypeInv, RecInv, Records
  <2> QED
    BY <1>25, <2>2 DEF RefreshFails, TypeInv, EditInv
<1>26. ASSUME NEW w \in Runners, RefreshAbandoned(w) PROVE EditInv'
  BY <1>26 DEF RefreshAbandoned
<1>27. ASSUME NEW w \in Runners, RefreshOK(w) PROVE EditInv'
  BY <1>27 DEF RefreshOK
<1>28. ASSUME NEW w \in Runners, SaveRefresh(w) PROVE EditInv'
  <2>1. CASE edit' # edit
    <3>1. edit' = [Free EXCEPT !.op = "mark", !.c = work[w].c] /\ work[w].c \in Creds
      BY <1>28, <2>1 DEF SaveRefresh, TypeInv, WorkInv, WorkRec
    <3> QED
      BY <1>0, <1>1a, <3>1 DEF EditInv, Names
  <2>2. CASE edit' = edit
    BY <1>28, <2>2, <1>1a DEF SaveRefresh
  <2> QED
    BY <2>1, <2>2
<1>29. ASSUME NEW w \in Runners, Report(w) PROVE EditInv'
  BY <1>29 DEF Report
<1>30. CASE UNCHANGED vars
  BY <1>30 DEF vars
<1> QED
  BY <1>1, <1>2, <1>3, <1>4, <1>5, <1>6, <1>7, <1>8, <1>9, <1>10, <1>11, <1>12, <1>13, <1>14, <1>15, <1>16, <1>17, <1>18, <1>19, <1>20, <1>21, <1>22, <1>23, <1>24, <1>25, <1>26, <1>27, <1>28, <1>29, <1>30
     DEF Next, LoopStep, RunnerStep

(* resetTimer takes the earliest of a set of times.  That there is one is   *)
(* shown along the clock, which starts at 0 and moves by 1.                 *)
HasFirst(S) == \E t \in S : \A u \in S : t <= u
FirstInv == \A S \in SUBSET Soon : S # {} => HasFirst(S)

LEMMA FirstInit == Init => FirstInv
<1> SUFFICES ASSUME now = 0, NEW S \in SUBSET (0..2), S # {} PROVE HasFirst(S)
  BY DEF Init, FirstInv, Soon, FailureFor
<1>1. CASE 0 \in S
  BY <1>1 DEF HasFirst
<1>2. CASE 0 \notin S /\ 1 \in S
  BY <1>2 DEF HasFirst
<1>3. CASE 0 \notin S /\ 1 \notin S
  <2>1. PICK t \in S : TRUE
    OBVIOUS
  <2>2. \A u \in S : u = 2
    BY <1>3
  <2> QED
    BY <2>1, <2>2 DEF HasFirst
<1> QED
  BY <1>1, <1>2, <1>3

LEMMA FirstStep ==
  ASSUME ClockInv, FirstInv, [Next]_vars
  PROVE  FirstInv'
<1>1. now' = now \/ now' = now + 1
  BY ClockStep
<1>2. ASSUME now' = now + 1, NEW S \in SUBSET Soon', S # {} PROVE HasFirst(S)
  <2>1. CASE S \cap Soon # {}
    <3>1. PICK t \in S \cap Soon : \A u \in S \cap Soon : t <= u
      BY <2>1 DEF FirstInv, HasFirst
    <3>2. \A u \in S : u \in Soon \/ u = now + FailureFor + 1
      BY <1>2 DEF Soon, ClockInv, FailureFor
    <3> QED
      BY <3>1, <3>2 DEF HasFirst, Soon, ClockInv, FailureFor
  <2>2. CASE S \cap Soon = {}
    <3>1. \A u \in S : u = now + FailureFor + 1
      BY <1>2, <2>2 DEF Soon, ClockInv, FailureFor
    <3>2. PICK t \in S : TRUE
      BY <1>2
    <3> QED
      BY <3>1, <3>2 DEF HasFirst, ClockInv, FailureFor
  <2> QED
    BY <2>1, <2>2
<1> QED
  BY <1>1, <1>2 DEF FirstInv, Soon

LEMMA EarliestTime ==
  ASSUME ClockInv, FirstInv, NEW S \in SUBSET (Soon \cup {NoTime}), S # {}
  PROVE  LET first == CHOOSE t \in S : \A u \in S : t <= u
         IN  first \in S /\ \A u \in S : first <= u
<1>1. HasFirst(S)
  <2>1. CASE S \cap Soon # {}
    <3>1. PICK t \in S \cap Soon : \A u \in S \cap Soon : t <= u
      BY <2>1 DEF FirstInv, HasFirst
    <3>2. t < NoTime /\ t \in Nat /\ NoTime \in Nat
      BY Bounds
    <3> QED
      BY <3>1, <3>2 DEF HasFirst
  <2>2. CASE S \cap Soon = {}
    <3>1. PICK t \in S : TRUE
      OBVIOUS
    <3>2. \A u \in S : u = NoTime
      BY <2>2
    <3> QED
      BY <3>1, <3>2, Bounds DEF HasFirst
  <2> QED
    BY <2>1, <2>2
<1> QED
  BY <1>1 DEF HasFirst


(* nextRefreshCheckAt: never for a record that is not refreshed, else a     *)
(* time within a backoff.                                                   *)
LEMMA PlanTime ==
  ASSUME ClockInv, RecInv, NEW c \in Creds, NEW t \in 0..now
  PROVE  /\ Plan(c, rec[c], t) \in Soon \cup {NoTime}
         /\ Schedulable(rec[c]) => Plan(c, rec[c], t) # NoTime
<1>1. /\ rec[c].nra \in Soon /\ rec[c].due \in Soon /\ t \in Soon
  BY DEF RecInv, Records, Soon, ClockInv, FailureFor
<1>2. NextCheck(rec[c], t) \in Soon
  BY <1>1 DEF NextCheck
<1>3. NextCheck(rec[c], t) < NoTime /\ NextCheck(rec[c], t) \in Nat
  BY <1>2, Bounds
<1> QED
  BY <1>2, <1>3 DEF Plan

LEMMA TimerReset ==
  ASSUME ClockInv, ClockInv', FirstInv, now' = now, next' \in [Creds -> Soon \cup {NoTime}],
         ResetTimer, Creds # {}
  PROVE  timer' \in Nat /\ \A c \in Creds : timer' <= next'[c]
<1> DEFINE at == {next'[c] : c \in Creds}
<1>1. at \in SUBSET (Soon \cup {NoTime}) /\ at # {}
  OBVIOUS
<1>2. timer' \in at /\ \A u \in at : timer' <= u
  BY <1>1, EarliestTime DEF ResetTimer
<1> QED
  BY <1>1, <1>2, Bounds

LEMMA HeapStep ==
  ASSUME TypeInv, FirstInv, [Next]_vars
  PROVE  HeapInv'
<1>0. Soon \subseteq Soon' /\ 0 \in Soon /\ NoTime \in Nat /\ Soon \subseteq Nat
      /\ seen + Interval \in Soon /\ seen \in 0..now /\ now \in 0..now /\ ClockInv'
  BY ClockStep, Bounds DEF TypeInv, ClockInv, Interval
<1>1a. next' \in [Creds -> Soon \cup {NoTime}] /\ plan' \in [Creds -> Soon \cup {NoTime}]
       /\ (timer' = timer \/ timer' = NoTime \/ (ResetTimer /\ now' = now)) => HeapInv'
  BY <1>0, TimerReset DEF TypeInv, HeapInv
<1>1b. next \in [Creds -> Soon \cup {NoTime}] /\ plan \in [Creds -> Soon \cup {NoTime}]
  BY DEF TypeInv, HeapInv
<1> HIDE DEF HeapInv
<1> USE <1>0, <1>1a, <1>1b DEF loopVars, loopFrame, workFrame, Editing, NoPlan, TypeInv
<1>1. CASE Signal
  BY <1>1 DEF Signal
<1>2. CASE TellLoop
  BY <1>2 DEF TellLoop
<1>3. CASE Unschedule
  BY <1>3 DEF Unschedule
<1>4. CASE StoreResult
  BY <1>4 DEF StoreResult
<1>5. CASE Tick
  <2>1. PICK pnext : pnext = [c \in Creds |-> Past(next[c])]
    OBVIOUS
  <2>2. next' = pnext /\ plan' = plan /\ timer' = Past(timer)
    BY <1>5, <2>1 DEF Tick
  <2>3. \A c \in Creds : pnext[c] \in Soon \cup {NoTime}
    BY <2>1 DEF Past
  <2>4. timer' = timer \/ timer' = 0
    BY <2>2 DEF Past
  <2> QED
    BY <2>1, <2>2, <2>3, <2>4 DEF HeapInv
<1>6. CASE RebuildRead
  <2>1. plan' = [c \in Creds |-> Plan(c, rec[c], now)] /\ next' = next /\ timer' = timer
    BY <1>6 DEF RebuildRead
  <2>2. plan' \in [Creds -> Soon \cup {NoTime}]
    BY <2>1, PlanTime
  <2> QED
    BY <2>1, <2>2
<1>7. CASE RebuildStore
  BY <1>7 DEF RebuildStore
<1>8. CASE WakeUp
  BY <1>8 DEF WakeUp
<1>9. CASE TimerFires
  BY <1>9 DEF TimerFires
<1>10. CASE Store
  BY <1>10 DEF Store
<1>11. CASE MarkPending
  BY <1>11 DEF MarkPending
<1>12. CASE LookAgain
  <2>1. plan' = [plan EXCEPT ![act.c] = Plan(act.c, rec[act.c], seen)] /\ next' = next /\ timer' = timer
    BY <1>12 DEF LookAgain
  <2>2. act.c \in Creds
    BY <1>12 DEF LookAgain, LoopInv
  <2>3. plan' \in [Creds -> Soon \cup {NoTime}]
    BY <2>1, <2>2, PlanTime
  <2> QED
    BY <2>1, <2>3
<1>13. CASE SendJob
  BY <1>13 DEF SendJob
<1>14. CASE DueDone
  BY <1>14 DEF DueDone
<1>15. CASE EndRound
  BY <1>15 DEF EndRound
<1>16. ASSUME NEW c \in Creds, HandleDue(c) PROVE HeapInv'
  <2>1. next' = next /\ timer' = timer
    BY <1>16 DEF HandleDue
  <2>2. PICK p \in {Plan(c, rec[c], seen), seen + Interval} :
          plan' = plan \/ plan' = [plan EXCEPT ![c] = p]
    BY <1>16 DEF HandleDue
  <2>3. p \in Soon \cup {NoTime}
    BY <2>2, PlanTime
  <2>4. plan' \in [Creds -> Soon \cup {NoTime}]
    BY <2>2, <2>3
  <2> QED
    BY <2>1, <2>4
<1>17. ASSUME NEW c \in Creds, ApplyDirty(c) PROVE HeapInv'
  <2>1. plan' = [plan EXCEPT ![c] = Plan(c, rec[c], seen)] /\ next' = next /\ timer' = timer
    BY <1>17 DEF ApplyDirty
  <2>2. c \in Creds
    BY <1>17 DEF ApplyDirty, LoopInv
  <2>3. plan' \in [Creds -> Soon \cup {NoTime}]
    BY <2>1, <2>2, PlanTime
  <2> QED
    BY <2>1, <2>3
<1>18. ASSUME NEW c \in Creds, Register(c) PROVE HeapInv'
  BY <1>18 DEF Register
<1>19. ASSUME NEW c \in Creds, Remove(c) PROVE HeapInv'
  BY <1>19 DEF Remove
<1>20. ASSUME NEW c \in Creds, NEW u \in BOOLEAN, MarkResult(c, u) PROVE HeapInv'
  BY <1>20 DEF MarkResult
<1>21. ASSUME NEW w \in Workers, TakeJob(w) PROVE HeapInv'
  BY <1>21 DEF TakeJob
<1>22. ASSUME NEW w \in Callers, NEW c \in Creds, RefreshForRequest(w, c) PROVE HeapInv'
  BY <1>22 DEF RefreshForRequest
<1>23. ASSUME NEW w \in Runners, BeginRefresh(w) PROVE HeapInv'
  BY <1>23 DEF BeginRefresh
<1>24. ASSUME NEW w \in Runners, NothingToRefresh(w) PROVE HeapInv'
  BY <1>24 DEF NothingToRefresh
<1>25. ASSUME NEW w \in Runners, RefreshFails(w) PROVE HeapInv'
  BY <1>25 DEF RefreshFails
<1>26. ASSUME NEW w \in Runners, RefreshAbandoned(w) PROVE HeapInv'
  BY <1>26 DEF RefreshAbandoned
<1>27. ASSUME NEW w \in Runners, RefreshOK(w) PROVE HeapInv'
  BY <1>27 DEF RefreshOK
<1>28. ASSUME NEW w \in Runners, SaveRefresh(w) PROVE HeapInv'
  BY <1>28 DEF SaveRefresh
<1>29. ASSUME NEW w \in Runners, Report(w) PROVE HeapInv'
  BY <1>29 DEF Report
<1>30. CASE UNCHANGED vars
  BY <1>30 DEF vars
<1> QED
  BY <1>1, <1>2, <1>3, <1>4, <1>5, <1>6, <1>7, <1>8, <1>9, <1>10, <1>11, <1>12, <1>13, <1>14, <1>15, <1>16, <1>17, <1>18, <1>19, <1>20, <1>21, <1>22, <1>23, <1>24, <1>25, <1>26, <1>27, <1>28, <1>29, <1>30
     DEF Next, LoopStep, RunnerStep

LEMMA TypeInit == Init => TypeInv
<1> SUFFICES ASSUME Init PROVE TypeInv
  OBVIOUS
<1>1. ClockInv /\ 0 \in Soon /\ 1 \in Soon
  BY BoundsAssumption DEF Init, ClockInv, Soon, FailureFor
<1>2. Fresh(0) \in Records /\ Fresh(1) \in Records
  BY <1>1 DEF Fresh, Records
<1>2a. [Fresh(0) EXCEPT !.present = FALSE] \in Records
  BY <1>2 DEF Records
<1>3. RecInv
  BY <1>2, <1>2a DEF Init, RecInv
<1>4. HeapInv
  BY <1>1, Bounds DEF Init, HeapInv, NoPlan
<1>5. EditInv
  BY <1>1 DEF Init, EditInv, Free, Names, NoAct
<1>6. WorkInv
  BY <1>1, IdleRec, EmptySeq DEF Init, WorkInv
<1>7. LoopInv
  BY DEF Init, LoopInv, NoAct, Names
<1> QED
  BY <1>1, <1>3, <1>4, <1>5, <1>6, <1>7 DEF TypeInv

LEMMA TypeStep ==
  ASSUME TypeInv, FirstInv, [Next]_vars
  PROVE  TypeInv' /\ FirstInv'
  BY ClockStep, RecStep, HeapStep, EditStep, WorkStep, LoopInvStep, FirstStep DEF TypeInv

-----------------------------------------------------------------------------
(* Sleeping: whoever makes an id dirty owes a token, and only the loop takes *)
(* one; the heap only shrinks behind its back.                              *)
LEMMA HeapTimes ==
  ASSUME ClockInv, HeapInv, NEW c \in Creds
  PROVE  timer \in Nat /\ next[c] \in Nat /\ next[c] <= NoTime /\ NoTime \in Nat
<1>1. timer \in Nat /\ next[c] \in Soon \cup {NoTime}
  BY DEF HeapInv
<1>2. PICK t, last : t = next[c] /\ last = NoTime
  OBVIOUS
<1>3. last \in Nat /\ (t = last \/ (t \in Nat /\ t < last))
  BY <1>1, <1>2, Bounds
<1>4. t \in Nat /\ t <= last
  BY <1>3
<1> QED
  BY <1>1, <1>2, <1>3, <1>4

LEMMA SleepStep ==
  ASSUME TypeInv, FirstInv, SleepInv, [Next]_vars
  PROVE  SleepInv'
<1>0. /\ ClockInv /\ ClockInv' /\ LoopInv /\ HeapInv /\ HeapInv' /\ HeapInv
  BY TypeStep DEF TypeInv
<1>1a. ASSUME ResetTimer, now' = now, dirty' = {} \/ wake' \/ owed' PROVE SleepInv'
  <2>1. ASSUME NEW c \in Creds PROVE timer' <= next'[c]
    <3>1. next' \in [Creds -> Soon \cup {NoTime}]
      BY <1>0, <1>1a DEF HeapInv, Soon
    <3> QED
      BY <1>0, <1>1a, <3>1, TimerReset
  <2> QED
    BY <1>1a, <2>1 DEF SleepInv
<1>1b. ASSUME loop' # "select", dirty' = {} \/ wake' \/ owed' PROVE SleepInv'
  BY <1>1b DEF SleepInv
<1>1c. ASSUME loop' = loop, timer' = timer, next' = next, dirty' = {} \/ wake' \/ owed'
       PROVE  SleepInv'
  BY <1>1c DEF SleepInv
<1>1d. dirty = {} \/ wake \/ owed
  BY DEF SleepInv
<1>1e. loop = "select" => act.op = "none"
  BY <1>0 DEF LoopInv
<1> HIDE DEF SleepInv
<1> USE <1>1a, <1>1b, <1>1c, <1>1d, <1>1e DEF loopVars, loopFrame, workFrame, Editing, MarkDirty, TakeDirty, OfferToken
<1>1. CASE Signal
  BY <1>1 DEF Signal
<1>2. CASE TellLoop
  BY <1>2 DEF TellLoop
<1>3. CASE Unschedule
  <2>1. next' = [next EXCEPT ![edit.c] = NoTime] /\ UNCHANGED <<dirty, wake, owed, loop, timer>>
    BY <1>3 DEF Unschedule
  <2>2. ASSUME loop = "select", NEW c \in Creds PROVE timer' <= next'[c]
    <3>1. timer \in Nat /\ next[c] \in Nat /\ next[c] <= NoTime /\ NoTime \in Nat
      BY <1>0, HeapTimes
    <3>2. timer <= next[c]
      BY <2>2 DEF SleepInv
    <3>3. timer' = timer /\ (next'[c] = next[c] \/ next'[c] = NoTime)
      BY <1>0, <2>1 DEF HeapInv
    <3> QED
      BY <3>1, <3>2, <3>3
  <2> QED
    BY <2>1, <2>2 DEF SleepInv
<1>4. CASE StoreResult
  BY <1>4 DEF StoreResult
<1>5. CASE Tick
  <2>1. CASE loop = "select"
    <3>1. /\ timer' = Past(timer) /\ \A c \in Creds : next'[c] = Past(next[c])
          /\ UNCHANGED <<dirty, wake, owed, loop>>
      BY <1>5 DEF Tick
    <3>2. ASSUME NEW c \in Creds PROVE timer' <= next'[c]
      <4>1. timer \in Nat /\ next[c] \in Nat /\ now' \in Nat /\ timer <= next[c]
        <5>1. timer \in Nat /\ next[c] \in Nat
          BY <1>0, HeapTimes
        <5> QED
          BY <1>0, <2>1, <5>1 DEF SleepInv, ClockInv
      <4> QED
        BY <2>1, <3>1, <4>1 DEF Past
    <3> QED
      BY <3>1, <3>2 DEF SleepInv
  <2>2. CASE loop # "select"
    BY <1>5, <2>2 DEF Tick
  <2> QED
    BY <2>1, <2>2
<1>6. CASE RebuildRead
  BY <1>6 DEF RebuildRead
<1>7. CASE RebuildStore
  BY <1>7 DEF RebuildStore
<1>8. CASE WakeUp
  BY <1>8 DEF WakeUp
<1>9. CASE TimerFires
  BY <1>9 DEF TimerFires
<1>10. CASE Store
  BY <1>10 DEF Store
<1>11. CASE MarkPending
  BY <1>11 DEF MarkPending
<1>12. CASE LookAgain
  BY <1>12 DEF LookAgain
<1>13. CASE SendJob
  BY <1>13 DEF SendJob
<1>14. CASE DueDone
  BY <1>14 DEF DueDone
<1>15. CASE EndRound
  BY <1>15 DEF EndRound
<1>16. ASSUME NEW c \in Creds, HandleDue(c) PROVE SleepInv'
  BY <1>16 DEF HandleDue
<1>17. ASSUME NEW c \in Creds, ApplyDirty(c) PROVE SleepInv'
  BY <1>17 DEF ApplyDirty
<1>18. ASSUME NEW c \in Creds, Register(c) PROVE SleepInv'
  BY <1>18 DEF Register
<1>19. ASSUME NEW c \in Creds, Remove(c) PROVE SleepInv'
  BY <1>19 DEF Remove
<1>20. ASSUME NEW c \in Creds, NEW u \in BOOLEAN, MarkResult(c, u) PROVE SleepInv'
  BY <1>20 DEF MarkResult
<1>21. ASSUME NEW w \in Workers, TakeJob(w) PROVE SleepInv'
  BY <1>21 DEF TakeJob
<1>22. ASSUME NEW w \in Callers, NEW c \in Creds, RefreshForRequest(w, c) PROVE SleepInv'
  BY <1>22 DEF RefreshForRequest
<1>23. ASSUME NEW w \in Runners, BeginRefresh(w) PROVE SleepInv'
  BY <1>23 DEF BeginRefresh
<1>24. ASSUME NEW w \in Runners, NothingToRefresh(w) PROVE SleepInv'
  BY <1>24 DEF NothingToRefresh
<1>25. ASSUME NEW w \in Runners, RefreshFails(w) PROVE SleepInv'
  BY <1>25 DEF RefreshFails
<1>26. ASSUME NEW w \in Runners, RefreshAbandoned(w) PROVE SleepInv'
  BY <1>26 DEF RefreshAbandoned
<1>27. ASSUME NEW w \in Runners, RefreshOK(w) PROVE SleepInv'
  BY <1>27 DEF RefreshOK
<1>28. ASSUME NEW w \in Runners, SaveRefresh(w) PROVE SleepInv'
  BY <1>28 DEF SaveRefresh
<1>29. ASSUME NEW w \in Runners, Report(w) PROVE SleepInv'
  BY <1>29 DEF Report
<1>30. CASE UNCHANGED vars
  BY <1>30 DEF vars
<1> QED
  BY <1>1, <1>2, <1>3, <1>4, <1>5, <1>6, <1>7, <1>8, <1>9, <1>10, <1>11, <1>12, <1>13, <1>14, <1>15, <1>16, <1>17, <1>18, <1>19, <1>20, <1>21, <1>22, <1>23, <1>24, <1>25, <1>26, <1>27, <1>28, <1>29, <1>30
     DEF Next, LoopStep, RunnerStep

LEMMA SleepInit == Init => SleepInv
  BY DEF Init, SleepInv

LEMMA TypeAlways == Spec => [](TypeInv /\ FirstInv)
  BY TypeInit, FirstInit, TypeStep, PTL DEF Spec

(* loop() resets its timer to the first check after every change of the     *)
(* heap, and queueReschedule adds the id before it offers the token: the    *)
(* loop is never asleep past a check, nor on a dirty id that nobody wakes   *)
(* it for.                                                                  *)
THEOREM SleepsOnTime == Spec => []NoLateSleep
<1>1. SleepInv => NoLateSleep
  BY DEF SleepInv, NoLateSleep
<1> QED
  BY TypeInit, FirstInit, TypeStep, SleepInit, SleepStep, <1>1, PTL DEF Spec


-----------------------------------------------------------------------------
(* Nobody is forgotten: what becomes refreshable was pledged by whoever     *)
(* changed the record, and a pledge is only dropped by another one, or by   *)
(* the loop that takes up the id.                                           *)
LEMMA KeptSuffices ==
  ASSUME WatchInv,
         \A c \in Creds : Live(c)' => Live(c) \/ Pledged(c)',
         \A c \in Creds : Live(c) /\ Kept(c) => Kept(c)'
  PROVE  WatchInv'
  BY DEF WatchInv, Kept

(* The loop moves; it alone drains the dirty set. *)
LEMMA LoopKeeps ==
  ASSUME WatchInv, UNCHANGED <<rec, edit, jobs, work>>,
         \A c \in Creds : c \in dirty => c \in dirty' \/ c \in todo',
         \A c \in Creds : Live(c) /\ Kept(c) /\ ~Pledged(c) => Kept(c)'
  PROVE  WatchInv'
<1>1. ASSUME NEW c \in Creds, Pledged(c) PROVE Pledged(c)' \/ c \in todo'
  BY <1>1 DEF Pledged
<1>2. \A c \in Creds : Live(c)' => Live(c)
  BY DEF Live
<1> QED
  BY <1>1, <1>2 DEF WatchInv, Kept

(* Someone else moves; the loop's share of the state stays. *)
LoopKept(c) ==
  \/ c \in todo \/ OnHeap(c)
  \/ act.op \in {"refresh", "again", "send"} /\ act.c = c
  \/ loop = "rebuild" /\ act.op = "none"

LEMMA OthersKeep ==
  ASSUME WatchInv, UNCHANGED <<loop, act, plan, todo, next>>,
         \A c \in Creds : Live(c)' => Live(c) \/ Pledged(c)',
         \A c \in Creds : Pledged(c) => Pledged(c)'
  PROVE  WatchInv'
<1>1. \A c \in Creds : LoopKept(c)' <=> LoopKept(c)
  BY DEF LoopKept, OnHeap, Storing
<1>2. \A c \in Creds : Kept(c) <=> Pledged(c) \/ LoopKept(c)
  BY DEF Kept, LoopKept
<1>3. \A c \in Creds : Kept(c)' <=> Pledged(c)' \/ LoopKept(c)'
  BY DEF Kept, LoopKept
<1> QED
  BY <1>1, <1>2, <1>3 DEF WatchInv

(* A goroutine moves: what it is pledged to stays so, or is marked dirty. *)
Bound(w) == work[w].pc = "reporting" \/ (w \in Workers /\ work[w].pc # "idle")

LEMMA RunnerPledges ==
  ASSUME NEW w \in Runners, NEW r, WorkInv, work' = [work EXCEPT ![w] = r],
         dirty \subseteq dirty', edit' = edit \/ edit.op # "mark", jobs' = jobs,
         Bound(w) => work[w].c \in dirty' \/ (r.c = work[w].c /\ Bound(w)')
  PROVE  \A c \in Creds : Pledged(c) => Pledged(c)'
<1>1. \A v \in Runners : work'[v] = IF v = w THEN r ELSE work[v]
  BY DEF WorkInv
<1>2. \A v \in Runners : v # w /\ Bound(v) => Bound(v)' /\ work'[v].c = work[v].c
  BY <1>1 DEF Bound
<1>3. \A c : Pledged(c) <=> \/ c \in dirty \/ (edit.op = "mark" /\ edit.c = c)
                            \/ \E k \in 1..Len(jobs) : jobs[k] = c
                            \/ \E v \in Runners : work[v].c = c /\ Bound(v)
  BY DEF Pledged, Bound
<1>4. \A c : Pledged(c)' <=> \/ c \in dirty' \/ (edit'.op = "mark" /\ edit'.c = c)
                             \/ \E k \in 1..Len(jobs') : jobs'[k] = c
                             \/ \E v \in Runners : work'[v].c = c /\ Bound(v)'
  BY DEF Pledged, Bound
<1> QED
  BY <1>1, <1>2, <1>3, <1>4

LEMMA WatchStep ==
  ASSUME TypeInv, FirstInv, WatchInv, [Next]_vars
  PROVE  WatchInv'
<1>1a. ASSUME UNCHANGED <<rec, next, dirty, edit, loop, todo, act, plan, jobs, work>>
       PROVE  WatchInv'
  BY <1>1a DEF WatchInv, Live, Kept, Pledged, OnHeap, Storing
<1>1b. ASSUME UNCHANGED rec PROVE \A c \in Creds : Live(c)' => Live(c)
  BY <1>1b DEF Live
<1>1c. ClockInv /\ RecInv /\ HeapInv /\ EditInv /\ WorkInv /\ LoopInv /\ seen \in 0..now
       /\ now \in 0..now
  BY DEF TypeInv, ClockInv
<1> USE <1>1a, <1>1c DEF loopVars, loopFrame, workFrame, Editing, MarkDirty, TakeDirty
<1>1. CASE Signal
  BY <1>1 DEF Signal
<1>2. CASE TellLoop
  <2>1. \A c \in Creds : Pledged(c) => Pledged(c)'
    BY <1>2 DEF TellLoop, Pledged
  <2> QED
    BY <1>2, <2>1, <1>1b, OthersKeep DEF TellLoop
<1>3. CASE Unschedule
  <2>1. /\ UNCHANGED <<rec, dirty, loop, todo, act, plan, jobs, work>> /\ edit.op = "drop"
        /\ next' = [next EXCEPT ![edit.c] = NoTime]
    BY <1>3 DEF Unschedule
  <2>2. ~rec[edit.c].present /\ \A x \in Creds : x # edit.c => next'[x] = next[x]
    BY <1>3, <2>1 DEF EditInv, HeapInv
  <2>3. \A x \in Creds : Pledged(x) => Pledged(x)'
    BY <2>1 DEF Pledged
  <2>4. ASSUME NEW x \in Creds, Live(x), Kept(x) PROVE Kept(x)'
    <3>1. x # edit.c
      BY <2>2, <2>4 DEF Live, Schedulable
    <3> QED
      BY <2>1, <2>2, <2>3, <2>4, <3>1 DEF Kept, OnHeap, Storing
  <2> QED
    BY <2>1, <2>4, <1>1b, KeptSuffices
<1>4. CASE StoreResult
  <2>1. UNCHANGED <<next, dirty, loop, todo, act, plan, jobs, work>> /\ edit.op = "result"
    BY <1>4 DEF StoreResult
  <2>2. \A x \in Creds : Pledged(x) => Pledged(x)'
    BY <2>1 DEF Pledged
  <2>3. ASSUME NEW x \in Creds, Live(x)' PROVE Live(x)
    <3>1. CASE rec' = rec
      BY <2>3, <3>1, <1>1b
    <3>2. CASE rec' # rec
      <4>1. PICK r : /\ rec' = [rec EXCEPT ![edit.c] = r]
                     /\ r = [rec[edit.c] EXCEPT !.unauth = edit.unauth, !.nra = edit.nra,
                              !.silent = rec[edit.c].silent
                                           \/ (rec[edit.c].unauth /\ ~edit.unauth)]
        BY <1>4, <3>2, Zenon DEF StoreResult
      <4>2. PICK b : b = (rec[edit.c].silent \/ (rec[edit.c].unauth /\ ~edit.unauth))
        OBVIOUS
      <4>3. r = [rec[edit.c] EXCEPT !.unauth = edit.unauth, !.nra = edit.nra, !.silent = b]
        BY <4>1, <4>2, Zenon
      <4>4. x # edit.c => rec'[x] = rec[x]
        BY <4>1 DEF RecInv
      <4>5. x = edit.c => /\ rec'[x].present = rec[x].present
                          /\ rec'[x].unauth = edit.unauth /\ rec'[x].silent = b
        <5>1. x = edit.c => rec'[x] = r
          BY <4>1 DEF RecInv
        <5> QED
          BY <4>3, <5>1 DEF RecInv, Records
      <4>6. CASE x # edit.c
        BY <2>3, <4>4, <4>6, Zenon DEF Live, Schedulable
      <4>7. CASE x = edit.c
        BY <2>3, <4>2, <4>5, <4>7, Zenon DEF Live, Schedulable
      <4> QED
        BY <4>6, <4>7
    <3> QED
      BY <3>1, <3>2
  <2> QED
    BY <2>1, <2>2, <2>3, OthersKeep
<1>5. CASE Tick
  <2>1. /\ UNCHANGED <<dirty, loop, todo, act, plan, jobs>>
        /\ edit'.op = edit.op /\ edit'.c = edit.c
    BY <1>5 DEF Tick, EditInv
  <2>2. \A w \in Runners : work'[w].pc = work[w].pc /\ work'[w].c = work[w].c
    BY <1>5 DEF Tick, WorkInv, WorkRec
  <2>3. \A x \in Creds : Pledged(x) => Pledged(x)'
    BY <2>1, <2>2 DEF Pledged
  <2>4. ASSUME NEW x \in Creds, Live(x)' PROVE Live(x)
    <3>1. /\ rec'[x].present = rec[x].present /\ rec'[x].unauth = rec[x].unauth
          /\ rec'[x].silent = rec[x].silent
      BY <1>5 DEF Tick, RecInv, Records
    <3> QED
      BY <2>4, <3>1 DEF Live, Schedulable
  <2>5. ASSUME NEW x \in Creds, next[x] # NoTime PROVE next'[x] # NoTime
    <3>1. next'[x] = next[x] \/ next'[x] = 0
      BY <1>5 DEF Tick, Past
    <3> QED
      BY <2>5, <3>1, Bounds
  <2>6. \A x \in Creds : Kept(x) => Kept(x)'
    BY <2>1, <2>3, <2>5 DEF Kept, OnHeap, Storing
  <2> QED
    BY <2>4, <2>6, KeptSuffices
<1>6. CASE RebuildRead
  <2>1. UNCHANGED <<rec, edit, jobs, work>>
    BY <1>6 DEF RebuildRead
  <2>2. \A c2 \in Creds : c2 \in dirty => c2 \in dirty' \/ c2 \in todo'
    BY <1>6 DEF RebuildRead
  <2>3. ASSUME NEW x \in Creds, Live(x), Kept(x), ~Pledged(x) PROVE Kept(x)'
    BY <1>6, <2>3, PlanTime DEF RebuildRead, Kept, OnHeap, Storing, LoopInv, HeapInv, NoAct, PopDue, Live
  <2> QED
    BY <2>1, <2>2, <2>3, LoopKeeps
<1>7. CASE RebuildStore
  <2>1. UNCHANGED <<rec, edit, jobs, work>>
    BY <1>7 DEF RebuildStore
  <2>2. \A c2 \in Creds : c2 \in dirty => c2 \in dirty' \/ c2 \in todo'
    BY <1>7 DEF RebuildStore
  <2>3. ASSUME NEW x \in Creds, Live(x), Kept(x), ~Pledged(x) PROVE Kept(x)'
    BY <1>7, <2>3 DEF RebuildStore, Kept, OnHeap, Storing, LoopInv, HeapInv, NoAct, PopDue
  <2> QED
    BY <2>1, <2>2, <2>3, LoopKeeps
<1>8. CASE WakeUp
  <2>1. UNCHANGED <<rec, edit, jobs, work>>
    BY <1>8 DEF WakeUp
  <2>2. \A c2 \in Creds : c2 \in dirty => c2 \in dirty' \/ c2 \in todo'
    BY <1>8 DEF WakeUp
  <2>3. ASSUME NEW x \in Creds, Live(x), Kept(x), ~Pledged(x) PROVE Kept(x)'
    BY <1>8, <2>3 DEF WakeUp, Kept, OnHeap, Storing, LoopInv, HeapInv, NoAct, PopDue
  <2> QED
    BY <2>1, <2>2, <2>3, LoopKeeps
<1>9. CASE TimerFires
  <2>1. UNCHANGED <<rec, edit, jobs, work>>
    BY <1>9 DEF TimerFires
  <2>2. \A c2 \in Creds : c2 \in dirty => c2 \in dirty' \/ c2 \in todo'
    BY <1>9 DEF TimerFires
  <2>3. ASSUME NEW x \in Creds, Live(x), Kept(x), ~Pledged(x) PROVE Kept(x)'
    BY <1>9, <2>3 DEF TimerFires, Kept, OnHeap, Storing, LoopInv, HeapInv, NoAct, PopDue
  <2> QED
    BY <2>1, <2>2, <2>3, LoopKeeps
<1>10. CASE Store
  <2>1. UNCHANGED <<rec, edit, jobs, work>>
    BY <1>10 DEF Store
  <2>2. \A c2 \in Creds : c2 \in dirty => c2 \in dirty' \/ c2 \in todo'
    BY <1>10 DEF Store
  <2>3. ASSUME NEW x \in Creds, Live(x), Kept(x), ~Pledged(x) PROVE Kept(x)'
    BY <1>10, <2>3 DEF Store, Kept, OnHeap, Storing, LoopInv, HeapInv, NoAct, PopDue
  <2> QED
    BY <2>1, <2>2, <2>3, LoopKeeps
<1>11. CASE MarkPending
  <2>1. /\ UNCHANGED <<next, edit, loop, todo, plan, jobs, work>> /\ dirty \subseteq dirty'
        /\ act.op = "refresh" /\ act'.op \in {"send", "again"} /\ act'.c = act.c
        /\ rec' = rec \/ rec' = [rec EXCEPT ![act.c].nra = seen + PendingFor]
    BY <1>11 DEF MarkPending, LoopInv
  <2>2. ASSUME NEW x \in Creds, Live(x)' PROVE Live(x)
    BY <2>1, <2>2 DEF Live, Schedulable, RecInv, Records
  <2>3. \A x \in Creds : Pledged(x) => Pledged(x)'
    BY <2>1 DEF Pledged
  <2>4. \A x \in Creds : Kept(x) => Kept(x)'
    BY <2>1, <2>3 DEF Kept, OnHeap, Storing
  <2> QED
    BY <2>2, <2>4, KeptSuffices
<1>12. CASE LookAgain
  <2>1. UNCHANGED <<rec, edit, jobs, work>>
    BY <1>12 DEF LookAgain
  <2>2. \A c2 \in Creds : c2 \in dirty => c2 \in dirty' \/ c2 \in todo'
    BY <1>12 DEF LookAgain
  <2>3. ASSUME NEW x \in Creds, Live(x), Kept(x), ~Pledged(x) PROVE Kept(x)'
    BY <1>12, <2>3, PlanTime DEF LookAgain, Kept, OnHeap, Storing, LoopInv, HeapInv, NoAct, PopDue, Live
  <2> QED
    BY <2>1, <2>2, <2>3, LoopKeeps
<1>13. CASE SendJob
  <2>1. /\ UNCHANGED <<rec, next, dirty, edit, loop, todo, plan, work>>
        /\ act.op = "send" /\ act' = NoAct /\ act.c \in Creds
        /\ jobs \in Seq(Creds) /\ jobs' = Append(jobs, act.c)
    BY <1>13 DEF SendJob, LoopInv, WorkInv
  <2>2. /\ Len(jobs') = Len(jobs) + 1 /\ jobs'[Len(jobs) + 1] = act.c /\ Len(jobs) \in Nat
        /\ \A k \in 1..Len(jobs) : jobs'[k] = jobs[k]
    BY <2>1
  <2>3. \A x \in Creds : Pledged(x) \/ x = act.c => Pledged(x)'
    BY <2>1, <2>2 DEF Pledged
  <2>4. \A x \in Creds : Kept(x) => Kept(x)'
    BY <1>13, <2>1, <2>3 DEF Kept, OnHeap, Storing, NoAct, LoopInv
  <2> QED
    BY <2>1, <2>4, <1>1b, KeptSuffices
<1>14. CASE DueDone
  <2>1. UNCHANGED <<rec, edit, jobs, work>>
    BY <1>14 DEF DueDone
  <2>2. \A c2 \in Creds : c2 \in dirty => c2 \in dirty' \/ c2 \in todo'
    BY <1>14 DEF DueDone
  <2>3. ASSUME NEW x \in Creds, Live(x), Kept(x), ~Pledged(x) PROVE Kept(x)'
    BY <1>14, <2>3 DEF DueDone, Kept, OnHeap, Storing, LoopInv, HeapInv, NoAct, PopDue
  <2> QED
    BY <2>1, <2>2, <2>3, LoopKeeps
<1>15. CASE EndRound
  <2>1. UNCHANGED <<rec, edit, jobs, work>>
    BY <1>15 DEF EndRound
  <2>2. \A c2 \in Creds : c2 \in dirty => c2 \in dirty' \/ c2 \in todo'
    BY <1>15 DEF EndRound
  <2>3. ASSUME NEW x \in Creds, Live(x), Kept(x), ~Pledged(x) PROVE Kept(x)'
    BY <1>15, <2>3 DEF EndRound, Kept, OnHeap, Storing, LoopInv, HeapInv, NoAct, PopDue
  <2> QED
    BY <2>1, <2>2, <2>3, LoopKeeps
<1>16. ASSUME NEW c \in Creds, HandleDue(c) PROVE WatchInv'
  <2>1. UNCHANGED <<rec, edit, jobs, work>>
    BY <1>16 DEF HandleDue
  <2>2. \A c2 \in Creds : c2 \in dirty => c2 \in dirty' \/ c2 \in todo'
    BY <1>16 DEF HandleDue
  <2>3. ASSUME NEW x \in Creds, Live(x), Kept(x), ~Pledged(x) PROVE Kept(x)'
    BY <1>16, <2>3, PlanTime, Bounds DEF HandleDue, Kept, OnHeap, Storing, LoopInv, HeapInv, NoAct, PopDue, Live, Schedulable, Interval, ClockInv
  <2> QED
    BY <2>1, <2>2, <2>3, LoopKeeps
<1>17. ASSUME NEW c \in Creds, ApplyDirty(c) PROVE WatchInv'
  <2>1. UNCHANGED <<rec, edit, jobs, work>>
    BY <1>17 DEF ApplyDirty
  <2>2. \A c2 \in Creds : c2 \in dirty => c2 \in dirty' \/ c2 \in todo'
    BY <1>17 DEF ApplyDirty
  <2>3. ASSUME NEW x \in Creds, Live(x), Kept(x), ~Pledged(x) PROVE Kept(x)'
    BY <1>17, <2>3, PlanTime DEF ApplyDirty, Kept, OnHeap, Storing, LoopInv, HeapInv, NoAct, PopDue, Live
  <2> QED
    BY <2>1, <2>2, <2>3, LoopKeeps
<1>18. ASSUME NEW c \in Creds, Register(c) PROVE WatchInv'
  <2>1. /\ UNCHANGED <<next, dirty, loop, todo, act, plan, jobs, work>>
        /\ edit = Free /\ edit' = [Free EXCEPT !.op = "mark", !.c = c]
        /\ \E t : rec' = [rec EXCEPT ![c] = Fresh(t)]
    BY <1>18 DEF Register
  <2>2. edit.op = "none" /\ edit'.op = "mark" /\ edit'.c = c
    BY <2>1 DEF Free
  <2>3. \A x \in Creds : Pledged(x) => Pledged(x)'
    BY <2>1, <2>2 DEF Pledged
  <2>4. ASSUME NEW x \in Creds, Live(x)' PROVE Live(x) \/ Pledged(x)'
    BY <2>1, <2>2, <2>4 DEF Live, Pledged, RecInv
  <2> QED
    BY <2>1, <2>3, <2>4, OthersKeep
<1>19. ASSUME NEW c \in Creds, Remove(c) PROVE WatchInv'
  <2>1. /\ UNCHANGED <<next, dirty, loop, todo, act, plan, jobs, work>>
        /\ edit = Free /\ rec' = [rec EXCEPT ![c].present = FALSE]
    BY <1>19 DEF Remove
  <2>2. \A x \in Creds : Pledged(x) => Pledged(x)'
    BY <2>1 DEF Pledged, Free
  <2>3. ASSUME NEW x \in Creds, Live(x)' PROVE Live(x)
    BY <2>1, <2>3 DEF Live, Schedulable, RecInv, Records
  <2> QED
    BY <2>1, <2>2, <2>3, OthersKeep
<1>20. ASSUME NEW c \in Creds, NEW u \in BOOLEAN, MarkResult(c, u) PROVE WatchInv'
  <2>1. UNCHANGED <<rec, next, dirty, loop, todo, act, plan, jobs, work>> /\ edit = Free
    BY <1>20 DEF MarkResult
  <2>2. \A x \in Creds : Pledged(x) => Pledged(x)'
    BY <2>1 DEF Pledged, Free
  <2> QED
    BY <2>1, <2>2, <1>1b, OthersKeep
<1>21. ASSUME NEW w \in Workers, TakeJob(w) PROVE WatchInv'
  <2>1. /\ UNCHANGED <<rec, next, dirty, edit, loop, todo, act, plan>>
        /\ work[w].pc = "idle" /\ w \in Runners /\ jobs # <<>> /\ jobs \in Seq(Creds)
        /\ jobs' = Tail(jobs) /\ work' = [work EXCEPT ![w] = Started(Head(jobs))]
    BY <1>21 DEF TakeJob, Runners, WorkInv
  <2>2. /\ Len(jobs') = Len(jobs) - 1 /\ Len(jobs) \in Nat /\ Head(jobs) = jobs[1]
        /\ \A k \in 1..Len(jobs') : jobs'[k] = jobs[k + 1]
    BY <2>1
  <2>3. /\ work'[w].c = Head(jobs) /\ work'[w].pc # "idle"
        /\ \A v \in Runners : v # w => work'[v] = work[v]
    BY <2>1 DEF Started, WorkInv
  <2>4. ASSUME NEW x \in Creds, Pledged(x) PROVE Pledged(x)'
    <3>1. ASSUME NEW k \in 1..Len(jobs), jobs[k] = x PROVE Pledged(x)'
      <4>1. CASE k = 1
        BY <2>1, <2>2, <2>3, <3>1, <4>1 DEF Pledged
      <4>2. CASE k # 1
        <5>1. k - 1 \in 1..Len(jobs') /\ jobs'[k - 1] = x
          BY <2>2, <3>1, <4>2
        <5> QED
          BY <5>1 DEF Pledged
      <4> QED
        BY <4>1, <4>2
    <3>2. ASSUME NEW v \in Runners, work[v].c = x,
                 work[v].pc = "reporting" \/ (v \in Workers /\ work[v].pc # "idle")
          PROVE  Pledged(x)'
      <4>1. v # w
        BY <2>1, <3>2
      <4> QED
        BY <2>3, <3>2, <4>1 DEF Pledged
    <3>3. x \in dirty \/ (edit.op = "mark" /\ edit.c = x) => Pledged(x)'
      BY <2>1 DEF Pledged
    <3> QED
      BY <2>4, <3>1, <3>2, <3>3 DEF Pledged
  <2> QED
    BY <2>1, <2>4, <1>1b, OthersKeep
<1>22. ASSUME NEW w \in Callers, NEW c \in Creds, RefreshForRequest(w, c) PROVE WatchInv'
  <2>1. work' = [work EXCEPT ![w] = Started(c)] /\ work[w].pc = "idle" /\ dirty' = dirty
        /\ edit' = edit /\ jobs' = jobs /\ w \in Runners
    BY <1>22 DEF RefreshForRequest, Runners
  <2>2. \A x \in Creds : Pledged(x) => Pledged(x)'
    BY <2>1, RunnerPledges DEF Bound
  <2> QED
    BY <1>22, <2>2, <1>1b, OthersKeep DEF RefreshForRequest
<1>23. ASSUME NEW w \in Runners, BeginRefresh(w) PROVE WatchInv'
  <2>1. PICK r : r = [work[w] EXCEPT !.pc = "calling", !.nra = rec[work[w].c].nra]
    OBVIOUS
  <2>2. work' = [work EXCEPT ![w] = r]
    BY <1>23, <2>1 DEF BeginRefresh, Returned, WorkInv
  <2>3. dirty \subseteq dirty' /\ jobs' = jobs /\ (edit' = edit \/ edit.op # "mark")
    BY <1>23 DEF BeginRefresh, Free
  <2>4. Bound(w) => work[w].c \in dirty' \/ (r.c = work[w].c /\ Bound(w)')
    BY <1>23, <2>1, <2>2 DEF BeginRefresh, Bound, WorkInv, WorkRec
  <2>5. \A c \in Creds : Pledged(c) => Pledged(c)'
    BY <2>2, <2>3, <2>4, RunnerPledges
  <2> QED
    BY <1>23, <2>5, <1>1b, OthersKeep DEF BeginRefresh
<1>24. ASSUME NEW w \in Runners, NothingToRefresh(w) PROVE WatchInv'
  <2>1. PICK r : r = IF w \in Workers THEN [work[w] EXCEPT !.pc = "reporting"] ELSE Idle
    OBVIOUS
  <2>2. work' = [work EXCEPT ![w] = r]
    BY <1>24, <2>1 DEF NothingToRefresh, Returned, WorkInv
  <2>3. dirty \subseteq dirty' /\ jobs' = jobs /\ (edit' = edit \/ edit.op # "mark")
    BY <1>24 DEF NothingToRefresh, Free
  <2>4. Bound(w) => work[w].c \in dirty' \/ (r.c = work[w].c /\ Bound(w)')
    BY <1>24, <2>1, <2>2 DEF NothingToRefresh, Bound, WorkInv, WorkRec
  <2>5. \A c \in Creds : Pledged(c) => Pledged(c)'
    BY <2>2, <2>3, <2>4, RunnerPledges
  <2> QED
    BY <1>24, <2>5, <1>1b, OthersKeep DEF NothingToRefresh
<1>25. ASSUME NEW w \in Runners, RefreshFails(w) PROVE WatchInv'
  <2>1. PICK r : r = [work[w] EXCEPT !.pc = "reporting"]
    OBVIOUS
  <2>2. work' = [work EXCEPT ![w] = r]
    BY <1>25, <2>1 DEF RefreshFails, Returned, WorkInv
  <2>3. dirty \subseteq dirty' /\ jobs' = jobs /\ (edit' = edit \/ edit.op # "mark")
    BY <1>25 DEF RefreshFails, Free
  <2>4. Bound(w) => work[w].c \in dirty' \/ (r.c = work[w].c /\ Bound(w)')
    BY <1>25, <2>1, <2>2 DEF RefreshFails, Bound, WorkInv, WorkRec
  <2>5. \A c \in Creds : Pledged(c) => Pledged(c)'
    BY <2>2, <2>3, <2>4, RunnerPledges
  <2>6. PICK a, t : rec' = [rec EXCEPT ![work[w].c].unauth = a, ![work[w].c].nra = t]
    BY <1>25 DEF RefreshFails
  <2>7. ASSUME NEW x \in Creds, Live(x)' PROVE Live(x) \/ Pledged(x)'
    <3>1. CASE x = work[w].c
      <4>1. work'[w].c = x /\ work'[w].pc = "reporting"
        BY <2>1, <2>2, <3>1 DEF WorkInv, WorkRec
      <4> QED
        BY <4>1 DEF Pledged
    <3>2. CASE x # work[w].c
      BY <2>6, <2>7, <3>2 DEF Live, RecInv
    <3> QED
      BY <3>1, <3>2
  <2>8. UNCHANGED <<loop, act, plan, todo, next>>
    BY <1>25 DEF RefreshFails
  <2> QED
    BY <2>5, <2>7, <2>8, OthersKeep
<1>26. ASSUME NEW w \in Runners, RefreshAbandoned(w) PROVE WatchInv'
  <2>1. PICK r : r = IF w \in Workers THEN [work[w] EXCEPT !.pc = "reporting"] ELSE Idle
    OBVIOUS
  <2>2. work' = [work EXCEPT ![w] = r]
    BY <1>26, <2>1 DEF RefreshAbandoned, Returned, WorkInv
  <2>3. dirty \subseteq dirty' /\ jobs' = jobs /\ (edit' = edit \/ edit.op # "mark")
    BY <1>26 DEF RefreshAbandoned, Free
  <2>4. Bound(w) => work[w].c \in dirty' \/ (r.c = work[w].c /\ Bound(w)')
    BY <1>26, <2>1, <2>2 DEF RefreshAbandoned, Bound, WorkInv, WorkRec
  <2>5. \A c \in Creds : Pledged(c) => Pledged(c)'
    BY <2>2, <2>3, <2>4, RunnerPledges
  <2> QED
    BY <1>26, <2>5, <1>1b, OthersKeep DEF RefreshAbandoned
<1>27. ASSUME NEW w \in Runners, RefreshOK(w) PROVE WatchInv'
  <2>1. PICK r : r = [work[w] EXCEPT !.pc = "saving"]
    OBVIOUS
  <2>2. work' = [work EXCEPT ![w] = r]
    BY <1>27, <2>1 DEF RefreshOK, Returned, WorkInv
  <2>3. dirty \subseteq dirty' /\ jobs' = jobs /\ (edit' = edit \/ edit.op # "mark")
    BY <1>27 DEF RefreshOK, Free
  <2>4. Bound(w) => work[w].c \in dirty' \/ (r.c = work[w].c /\ Bound(w)')
    BY <1>27, <2>1, <2>2 DEF RefreshOK, Bound, WorkInv, WorkRec
  <2>5. \A c \in Creds : Pledged(c) => Pledged(c)'
    BY <2>2, <2>3, <2>4, RunnerPledges
  <2> QED
    BY <1>27, <2>5, <1>1b, OthersKeep DEF RefreshOK
<1>28. ASSUME NEW w \in Runners, SaveRefresh(w) PROVE WatchInv'
  <2>1. PICK r : r = IF w \in Workers THEN [work[w] EXCEPT !.pc = "reporting"] ELSE Idle
    OBVIOUS
  <2>2. work' = [work EXCEPT ![w] = r]
    BY <1>28, <2>1 DEF SaveRefresh, Returned, WorkInv
  <2>3. dirty \subseteq dirty' /\ jobs' = jobs /\ (edit' = edit \/ edit.op # "mark")
    BY <1>28 DEF SaveRefresh, Free
  <2>4. Bound(w) => work[w].c \in dirty' \/ (r.c = work[w].c /\ Bound(w)')
    BY <1>28, <2>1, <2>2 DEF SaveRefresh, Bound, WorkInv, WorkRec
  <2>5. \A c \in Creds : Pledged(c) => Pledged(c)'
    BY <2>2, <2>3, <2>4, RunnerPledges
  <2>6. \/ rec' = rec
        \/ /\ edit' = [Free EXCEPT !.op = "mark", !.c = work[w].c]
           /\ \E r2 : rec' = [rec EXCEPT ![work[w].c] = r2]
    BY <1>28 DEF SaveRefresh
  <2>7. ASSUME NEW x \in Creds, Live(x)' PROVE Live(x) \/ Pledged(x)'
    BY <2>6, <2>7 DEF Live, RecInv, Pledged, Free
  <2>8. UNCHANGED <<loop, act, plan, todo, next>>
    BY <1>28 DEF SaveRefresh
  <2> QED
    BY <2>5, <2>7, <2>8, OthersKeep
<1>29. ASSUME NEW w \in Runners, Report(w) PROVE WatchInv'
  <2>1. PICK r : r = Idle
    OBVIOUS
  <2>2. work' = [work EXCEPT ![w] = r]
    BY <1>29, <2>1 DEF Report, Returned, WorkInv
  <2>3. dirty \subseteq dirty' /\ jobs' = jobs /\ (edit' = edit \/ edit.op # "mark")
    BY <1>29 DEF Report, Free
  <2>4. Bound(w) => work[w].c \in dirty' \/ (r.c = work[w].c /\ Bound(w)')
    BY <1>29, <2>1, <2>2 DEF Report, Bound, WorkInv, WorkRec
  <2>5. \A c \in Creds : Pledged(c) => Pledged(c)'
    BY <2>2, <2>3, <2>4, RunnerPledges
  <2> QED
    BY <1>29, <2>5, <1>1b, OthersKeep DEF Report
<1>30. CASE UNCHANGED vars
  BY <1>30 DEF vars
<1> QED
  BY <1>1, <1>2, <1>3, <1>4, <1>5, <1>6, <1>7, <1>8, <1>9, <1>10, <1>11, <1>12, <1>13, <1>14, <1>15, <1>16, <1>17, <1>18, <1>19, <1>20, <1>21, <1>22, <1>23, <1>24, <1>25, <1>26, <1>27, <1>28, <1>29, <1>30
     DEF Next, LoopStep, RunnerStep

LEMMA WatchInit == Init => WatchInv
  BY DEF Init, WatchInv, Kept, NoAct

(* nextRefreshCheckAt is never far: what is on the heap is checked at most  *)
(* one backoff after the record asks for it.                                *)
LEMMA KeptIsWatched ==
  ASSUME TypeInv, NEW c \in Creds, Kept(c)
  PROVE  Watched(c)
<1>1. CASE ~OnHeap(c)
  BY <1>1 DEF Kept, Pledged, Watched, InHand
<1>2. CASE Storing(c)
  BY <1>2 DEF Storing, Watched, InHand, TypeInv, LoopInv
<1>3. CASE OnHeap(c) /\ ~Storing(c)
  <2>1. next[c] \in Soon /\ rec[c] \in Records /\ now \in Nat
    BY <1>3 DEF OnHeap, TypeInv, HeapInv, RecInv, ClockInv
  <2>2. NextCheck(rec[c], now) \in Nat /\ NextCheck(rec[c], now) >= now
    BY <2>1 DEF NextCheck, Records, Soon
  <2>3. next[c] <= NextCheck(rec[c], now) + FailureFor
    BY <2>1, <2>2 DEF Soon, FailureFor
  <2> QED
    BY <2>3 DEF Watched
<1> QED
  BY <1>1, <1>2, <1>3

(* Registrations, edits, results, removals, the loop and its workers: in    *)
(* whatever order handleDueAuth, markRefreshPending, applyDirty and         *)
(* queueReschedule meet them, a credential that can be refreshed is on the  *)
(* heap or somebody has still to look at it.                                *)
THEOREM NoneForgotten == Spec => []NeverForgotten
<1>1. TypeInv /\ WatchInv => NeverForgotten
  BY KeptIsWatched DEF WatchInv, Live, NeverForgotten
<1> QED
  BY TypeInit, FirstInit, TypeStep, WatchInit, WatchStep, <1>1, PTL DEF Spec
=============================================================================
