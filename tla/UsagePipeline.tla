--------------------------- MODULE UsagePipeline ---------------------------
(***************************************************************************)
(* The way of a usage record: usage.Manager (sdk/cliproxy/usage) queues it *)
(* and one dispatcher hands it to the queue plugin, which broadcasts it to *)
(* the subscribers of internal/redisqueue or else appends it to its queue; *)
(* there the management API, or in Home mode the forwarder of the current  *)
(* client lifetime (service_home.go), pops it.                             *)
(*                                                                         *)
(* Granularity: one action per critical section of Manager.mu and queue.mu,*)
(* per read of an atomic flag or the clock outside them, per wakeup, per   *)
(* close of a channel.  Payloads are the numbers of the records, in the    *)
(* order Publish accepted them.  The error queue is the same code with     *)
(* subscribers only and is left out.                                       *)
(***************************************************************************)
EXTENDS Integers, Sequences, FiniteSets

CONSTANTS Subscribers,  \* connections that may SUBSCRIBE to usage
          Lifetimes,    \* bound: Home client lifetimes
          NumCallers,   \* requests to the management API that pop at the same time
          Buffer,       \* usageSubscriberBuffer
          Retention,    \* retentionSeconds
          Batch,        \* what a forwarder pops at most
          MaxRecords,   \* bound: records published
          MaxRefreshes, \* bound: refresh notices broadcast
          MaxUnanswered, \* bound: pushes Home takes without answering
          MaxSwitches,  \* bound: switches of the two flags
          MaxTime       \* bound: the clock stops here

ASSUME UsageBounds ==
    /\ {Lifetimes, Buffer, Retention, Batch, MaxRecords, MaxTime} \subseteq Nat \ {0}
    /\ {NumCallers, MaxRefreshes, MaxUnanswered, MaxSwitches} \subseteq Nat

VARIABLES now,
          home,      \* Home mode, fixed when the service starts
          queue,     \* Manager.queue
          accepted,  \* records Publish took
          stopped,   \* Manager.closed
          wakeups,   \* Signal or Broadcast calls that are still to come
          pc,        \* where the dispatcher, each forwarder and each caller are
          hand,      \* the records a writer holds
          stamp,     \* time.Now() of an enqueue or a pop that has not got the lock yet
          enabled,   \* redisqueue.enabled
          stats,     \* usageStatisticsEnabled
          clearing,  \* SetEnabled(false) has stored the flag, clear is to come
          switches,  \* switches of the flags so far
          items,     \* queue.items[head:]
          chan,      \* subscriber channels and their readers
          lifetime,  \* the current Home client lifetime; above Lifetimes: none
          popped,    \* history: what the management API popped, in order
          sent,      \* history: what Home acknowledged
          doubted,   \* history: the pushes Home took without an answer
          log        \* history: what was broadcast

manager == <<queue, accepted, stopped, wakeups>>
writing == <<pc, hand, stamp>>
flags   == <<enabled, stats, clearing, switches>>
history == <<popped, sent, doubted, log>>
vars == <<now, home, manager, writing, flags, items, chan, lifetime, history>>

Dispatcher == 0
Forwarders == 1 .. Lifetimes
Writers    == {Dispatcher} \cup Forwarders
Callers    == Lifetimes + 1 .. Lifetimes + NumCallers \* of the management API
Actors     == Writers \cup Callers
Hello   == -1 \* usageSupportRefreshPayload
Refresh == 0  \* usageRefreshPayload

-----------------------------------------------------------------------------
(* usage.Manager.                                                          *)

Publish ==
    /\ accepted < MaxRecords /\ ~stopped
    /\ accepted' = accepted + 1 /\ queue' = Append(queue, accepted + 1)
    /\ wakeups' = wakeups + 1
    /\ UNCHANGED <<now, home, stopped, writing, flags, items, chan, lifetime, history>>

Stop ==
    /\ ~stopped /\ stopped' = TRUE /\ wakeups' = wakeups + 1
    /\ UNCHANGED <<now, home, queue, accepted, writing, flags, items, chan, lifetime, history>>

\* Signal and Broadcast: there is one dispatcher to wake.
Wake ==
    /\ wakeups > 0 /\ wakeups' = wakeups - 1
    /\ pc' = IF pc[Dispatcher] = "parked" THEN [pc EXCEPT ![Dispatcher] = "run"] ELSE pc
    /\ UNCHANGED <<now, home, queue, accepted, stopped, hand, stamp, flags, items, chan, lifetime, history>>

MayExitEager == stopped \* mutant: Stop leaves what is queued
MayExit == stopped /\ queue = << >>
MayPark == ~stopped /\ queue = << >>
Run ==
    /\ pc[Dispatcher] = "run"
    /\ IF MayExit THEN pc' = [pc EXCEPT ![Dispatcher] = "exited"] /\ UNCHANGED <<queue, hand>>
       ELSE IF MayPark THEN pc' = [pc EXCEPT ![Dispatcher] = "parked"] /\ UNCHANGED <<queue, hand>>
       ELSE /\ pc' = [pc EXCEPT ![Dispatcher] = "handle"]
            /\ hand' = [hand EXCEPT ![Dispatcher] = <<Head(queue)>>]
            /\ queue' = Tail(queue)
    /\ UNCHANGED <<now, home, accepted, stopped, wakeups, stamp, flags, items, chan, lifetime, history>>

-----------------------------------------------------------------------------
(* Enqueue, by the dispatcher or by a forwarder that gives records back.   *)

Goes(w, to) == pc' = [pc EXCEPT ![w] = to]
RestGivesUp(w) == IF w = Dispatcher THEN "run" ELSE "exited" \* mutant: a forwarder ends after a failed push
Rest(w) == IF w = Dispatcher THEN "run" ELSE "poll"
\* The head of hand[w] is dealt with; the next one starts over.
HandDone(w) ==
    /\ hand' = [hand EXCEPT ![w] = Tail(@)]
    /\ Goes(w, IF Len(hand[w]) > 1 THEN "enqueue" ELSE Rest(w))

\* usageQueuePlugin.HandleUsage reads both switches.
HandleUsage ==
    /\ pc[Dispatcher] = "handle"
    /\ IF enabled /\ stats THEN Goes(Dispatcher, "enqueue") /\ UNCHANGED hand ELSE HandDone(Dispatcher)
    /\ UNCHANGED <<now, home, manager, stamp, flags, items, chan, lifetime, history>>

Enqueue(w) ==
    /\ pc[w] = "enqueue"
    /\ IF enabled THEN Goes(w, "publish") /\ UNCHANGED hand ELSE HandDone(w)
    /\ UNCHANGED <<now, home, manager, stamp, flags, items, chan, lifetime, history>>

Registered == {s \in Subscribers : chan[s].registered}

\* A subscriber whose buffer is full is dropped and its channel closed.
DeliverSkips(c, payload) == \* mutant: a full subscriber misses the payload
    IF ~c.registered \/ c.unread = Buffer THEN c
    ELSE [c EXCEPT !.seen = Append(@, payload), !.unread = @ + 1]
Deliver(c, payload) ==
    IF ~c.registered THEN c
    ELSE IF c.unread < Buffer THEN [c EXCEPT !.seen = Append(@, payload), !.unread = @ + 1]
    ELSE [c EXCEPT !.registered = FALSE, !.closed = TRUE, !.missed = @ \cup {payload}]
Broadcast(payload) ==
    /\ chan' = [s \in Subscribers |-> Deliver(chan[s], payload)]
    /\ log' = Append(log, payload)

PublishToSubscribers(w) ==
    /\ pc[w] = "publish"
    /\ IF Registered # {}
       THEN Broadcast(Head(hand[w])) /\ HandDone(w) /\ UNCHANGED stamp
       ELSE Goes(w, "clock") /\ UNCHANGED <<chan, log, hand, stamp>>
    /\ UNCHANGED <<now, home, manager, flags, items, lifetime, popped, sent, doubted>>

\* enqueue and popOldest read the clock before they take the lock.
ReadClock(w) ==
    /\ pc[w] \in {"clock", "asked"} /\ stamp' = [stamp EXCEPT ![w] = now]
    /\ Goes(w, IF pc[w] = "clock" THEN "append" ELSE "pop")
    /\ UNCHANGED <<now, home, manager, hand, flags, items, chan, lifetime, history>>

StaleAt(t, i) == items[i].at + Retention < t
KeepAll(t) == items \* mutant: nothing is pruned
Pruned(t) ==
    LET stale == {i \in DOMAIN items : \A j \in 1 .. i : StaleAt(t, j)}
    IN  SubSeq(items, Cardinality(stale) + 1, Len(items))

AppendItem(w) ==
    /\ pc[w] = "append"
    /\ items' = Append(Pruned(stamp[w]), [rec |-> Head(hand[w]), at |-> stamp[w]])
    /\ stamp' = [stamp EXCEPT ![w] = 0]
    /\ HandDone(w)
    /\ UNCHANGED <<now, home, manager, flags, chan, lifetime, history>>

-----------------------------------------------------------------------------
(* PopOldest: the management API and the forwarders.                       *)

Records(q) == [i \in DOMAIN q |-> q[i].rec]
Oldest(t, n) == LET q == Pruned(t) IN Records(SubSeq(q, 1, IF n < Len(q) THEN n ELSE Len(q)))
Younger(t, n) == SubSeq(Pruned(t), n + 1, Len(Pruned(t)))

\* Home mode answers 404 (managementAvailable).  A forwarder looks at its
\* context and pops in Home mode only; a heartbeat that is down delays that.
PollsFirst(w) == IF w \in Callers THEN ~home ELSE home /\ w = lifetime
PopOldest(w) ==
    /\ pc[w] = "poll" /\ PollsFirst(w) /\ enabled
    /\ Goes(w, "asked")
    /\ UNCHANGED <<now, home, manager, hand, stamp, flags, items, chan, lifetime, history>>

CallerPops(c, n) ==
    /\ pc[c] = "pop" /\ Goes(c, "poll") /\ stamp' = [stamp EXCEPT ![c] = 0]
    /\ popped' = popped \o Oldest(stamp[c], n) /\ items' = Younger(stamp[c], n)
    /\ UNCHANGED <<now, home, manager, hand, flags, chan, lifetime, sent, doubted, log>>

ForwarderPops(f) ==
    /\ pc[f] = "pop" /\ stamp' = [stamp EXCEPT ![f] = 0]
    /\ hand' = [hand EXCEPT ![f] = Oldest(stamp[f], Batch)] /\ items' = Younger(stamp[f], Batch)
    /\ Goes(f, IF hand'[f] = << >> THEN "poll" ELSE "push")
    /\ UNCHANGED <<now, home, manager, flags, chan, lifetime, history>>

LPushOK(f) ==
    /\ pc[f] = "push"
    /\ sent' = sent \cup {Head(hand[f])}
    /\ hand' = [hand EXCEPT ![f] = Tail(@)]
    /\ Goes(f, IF Len(hand[f]) > 1 THEN "push" ELSE "poll")
    /\ UNCHANGED <<now, home, manager, stamp, flags, items, chan, lifetime, popped, doubted, log>>

GivenBackRest(batch) == Tail(batch) \* mutant: the record that failed is not given back
GivenBack(batch) == batch
GivesBack(f) ==
    /\ pc[f] = "push"
    /\ hand' = [hand EXCEPT ![f] = GivenBack(hand[f])]
    /\ Goes(f, IF hand'[f] = << >> THEN "poll" ELSE "enqueue")
    /\ UNCHANGED <<now, home, manager, stamp, flags, items, chan, lifetime, popped, sent, log>>
\* Also at the end of the client lifetime.
LPushFails(f) == GivesBack(f) /\ UNCHANGED doubted
\* Home takes the record, but its answer is lost: an error all the same.
LPushUnanswered(f) ==
    GivesBack(f) /\ Len(doubted) < MaxUnanswered /\ doubted' = Append(doubted, Head(hand[f]))

\* The subscriber of Home starts over with a new client, or the service stops.
NextLifetime ==
    /\ home /\ lifetime <= Lifetimes
    /\ lifetime' = lifetime + 1
    /\ UNCHANGED <<now, home, manager, writing, flags, items, chan, history>>

-----------------------------------------------------------------------------
(* Subscriptions and switches.                                             *)

NewChan == [reader |-> "none", registered |-> FALSE, closed |-> FALSE, owed |-> {},
            seen |-> << >>, unread |-> 0, joined |-> 0,
            missed |-> {}] \* history: what met its full buffer

\* Home mode refuses the protocol (redis_queue_protocol.go).
Subscribe(s) ==
    /\ ~home /\ chan[s].reader = "none"
    /\ chan' = [chan EXCEPT ![s] = [NewChan EXCEPT !.reader = "reading", !.registered = TRUE,
                                                   !.seen = <<Hello>>, !.unread = 1, !.joined = Len(log)]]
    /\ UNCHANGED <<now, home, manager, writing, flags, items, lifetime, history>>

LeftUnchecked(c) == [c EXCEPT !.reader = "left", !.registered = FALSE, !.owed = @ \cup {"leave"}] \* mutant
\* unsubscribe: whoever takes the entry out of the map closes the channel.
Left(c) ==
    [c EXCEPT !.reader = "left", !.registered = FALSE, !.owed = IF c.registered THEN @ \cup {"leave"} ELSE @]

\* The reader takes the next payload; at the end of a closed channel it leaves.
Receive(s) ==
    /\ chan[s].reader = "reading"
    /\ \/ chan[s].unread > 0 /\ chan' = [chan EXCEPT ![s].unread = @ - 1]
       \/ chan[s].unread = 0 /\ chan[s].closed /\ chan' = [chan EXCEPT ![s] = Left(@)]
    /\ UNCHANGED <<now, home, manager, writing, flags, items, lifetime, history>>

\* The connection ends first.
Leave(s) ==
    /\ chan[s].reader = "reading"
    /\ chan' = [chan EXCEPT ![s] = Left(@)]
    /\ UNCHANGED <<now, home, manager, writing, flags, items, lifetime, history>>

Close(s) ==
    /\ \E who \in chan[s].owed : chan' = [chan EXCEPT ![s].owed = @ \ {who}, ![s].closed = TRUE]
    /\ UNCHANGED <<now, home, manager, writing, flags, items, lifetime, history>>

Refreshes == {i \in DOMAIN log : log[i] = Refresh}
NotifyUsageRefresh ==
    /\ Cardinality(Refreshes) < MaxRefreshes /\ Registered # {}
    /\ Broadcast(Refresh)
    /\ UNCHANGED <<now, home, manager, writing, flags, items, lifetime, popped, sent, doubted>>

\* Home mode forces both flags on.
Switch == ~home /\ switches < MaxSwitches /\ switches' = switches + 1

SetEnabled ==
    /\ Switch /\ ~clearing
    /\ enabled' = ~enabled /\ clearing' = enabled
    /\ UNCHANGED <<now, home, manager, writing, stats, items, chan, lifetime, history>>

Cleared(c) == [c EXCEPT !.registered = FALSE, !.owed = IF c.registered THEN @ \cup {"clear"} ELSE @]
Clear ==
    /\ clearing /\ clearing' = FALSE
    /\ items' = << >> /\ chan' = [s \in Subscribers |-> Cleared(chan[s])]
    /\ UNCHANGED <<now, home, manager, writing, enabled, stats, switches, lifetime, history>>

SetUsageStatisticsEnabled ==
    /\ Switch /\ stats' = ~stats
    /\ UNCHANGED <<now, home, manager, writing, enabled, clearing, items, chan, lifetime, history>>

Tick ==
    /\ now < MaxTime /\ now' = now + 1
    /\ UNCHANGED <<home, manager, writing, flags, items, chan, lifetime, history>>

-----------------------------------------------------------------------------
Init ==
    /\ now = 1 /\ home \in BOOLEAN
    /\ queue = << >> /\ accepted = 0 /\ stopped = FALSE /\ wakeups = 0
    /\ pc = [w \in Actors |-> Rest(w)]
    /\ hand = [w \in Writers |-> << >>] /\ stamp = [w \in Actors |-> 0]
    /\ enabled = TRUE /\ stats = TRUE /\ clearing = FALSE /\ switches = 0
    /\ items = << >> /\ chan = [s \in Subscribers |-> NewChan]
    /\ lifetime = 1 /\ popped = << >> /\ sent = {} /\ doubted = << >> /\ log = << >>

Writing(w) == Enqueue(w) \/ PublishToSubscribers(w) \/ ReadClock(w) \/ AppendItem(w)
Dispatching == Run \/ HandleUsage \/ Writing(Dispatcher)
Forwarding(f) == PopOldest(f) \/ ForwarderPops(f) \/ LPushFails(f) \/ Writing(f)
Calling(c) == PopOldest(c) \/ ReadClock(c) \/ \E n \in 1 .. Batch : CallerPops(c, n)

Next ==
    \/ Publish \/ Stop \/ Wake \/ Dispatching
    \/ \E c \in Callers : Calling(c)
    \/ \E f \in Forwarders : Forwarding(f) \/ LPushOK(f) \/ LPushUnanswered(f)
    \/ \E s \in Subscribers : Subscribe(s) \/ Receive(s) \/ Leave(s) \/ Close(s)
    \/ NotifyUsageRefresh \/ SetEnabled \/ Clear \/ SetUsageStatisticsEnabled
    \/ NextLifetime \/ Tick

Spec == Init /\ [][Next]_vars

\* Goroutines run; a push that is tried again and again succeeds at last.
FairSpec ==
    /\ Spec
    /\ WF_vars(Wake) /\ WF_vars(Dispatching)
    /\ \A f \in Forwarders : WF_vars(Forwarding(f)) /\ SF_vars(LPushOK(f))

-----------------------------------------------------------------------------
(* Properties.                                                             *)

IsBatch(q) == Len(q) <= MaxRecords /\ \A i \in DOMAIN q : q[i] \in 1 .. accepted
IsChan(c) ==
    /\ c.reader \in {"none", "reading", "left"} /\ c.registered \in BOOLEAN /\ c.closed \in BOOLEAN
    /\ c.owed \subseteq {"leave", "clear"} /\ c.unread \in 0 .. Buffer /\ c.unread <= Len(c.seen)

\* Ranges of the pipeline's state; a buffer never holds more than its capacity
\* (queue.go, manager.go).
TypeOK ==
    /\ now \in 1 .. MaxTime /\ accepted \in 0 .. MaxRecords /\ wakeups \in 0 .. MaxRecords + 1
    /\ pc[Dispatcher] \in {"run", "parked", "exited", "handle", "enqueue", "publish", "clock", "append"}
    /\ \A f \in Forwarders : pc[f] \in {"poll", "asked", "pop", "push", "enqueue", "publish", "clock", "append"}
    /\ \A c \in Callers : pc[c] \in {"poll", "asked", "pop"}
    /\ (\A w \in Writers : IsBatch(hand[w])) /\ \A w \in Actors : stamp[w] \in 0 .. now
    /\ IsBatch(queue) /\ IsBatch(Records(items)) /\ IsBatch(popped)
    /\ \A s \in Subscribers : IsChan(chan[s])
    /\ lifetime \in 1 .. Lifetimes + 1 /\ sent \subseteq 1 .. accepted

\* Whoever takes a channel out of the subscriber map closes it, once: nothing is
\* sent to a closed channel and none is closed twice, which would panic (clear,
\* publishToSubscribers and unsubscribe close, two of them after the unlock).
OneCloser ==
    \A s \in Subscribers :
        LET c == chan[s] IN
        /\ c.registered => ~c.closed /\ c.owed = {}
        /\ c.closed => c.owed = {}
        /\ Cardinality(c.owed) <= 1

\* A subscriber sees everything broadcast since it joined, in order and without
\* a gap, until its channel closes: a slow one is cut off, not skipped
\* (publishToSubscribers).
SubscribersGapFree ==
    \A s \in Subscribers :
        LET c == chan[s]  n == Len(c.seen) - 1 IN
        c.reader # "none" =>
            /\ c.seen = <<Hello>> \o SubSeq(log, c.joined + 1, c.joined + n)
            /\ c.registered => c.joined + n = Len(log)

At(q, r) == {i \in DOMAIN q : q[i] = r}
\* The broadcasts of r that reached a subscriber's channel.
Received(r) ==
    UNION {{chan[s].joined + i - 1 : i \in At(chan[s].seen, r)} : s \in Subscribers}
Spots(r) ==
    ({"queue"} \X At(queue, r)) \cup ({"items"} \X At(Records(items), r))
    \cup (UNION {{"hand"} \X {w} \X At(hand[w], r) : w \in Writers})
    \cup ({"popped"} \X At(popped, r)) \cup ({"received"} \X Received(r))
    \cup ({"sent"} \X (sent \cap {r})) \cup ({"doubted"} \X At(doubted, r))

\* A record is in one place: received by the subscribers of one broadcast or
\* queued or held or popped or at Home, never in two of them
\* ("TestEnqueueBroadcastsToUsageSubscribersAndSkipsQueue"), but for the copies
\* Home took without its answer coming through: such a push counts as failed
\* and the record is pushed again.  It is lost only to a switch, to the
\* retention or to a subscriber whose buffer was full, never to a push that
\* failed, a client lifetime that ended, a Stop or a pop that came to nothing.
RecordInOnePlace ==
    \A r \in 1 .. accepted :
        /\ Cardinality(Spots(r)) <= 1 + Cardinality(At(doubted, r))
        /\ switches = 0 /\ now <= Retention + 1 /\ (\A s \in Subscribers : r \notin chan[s].missed)
           => Spots(r) # {}

\* The management API never gets a record that was past the retention when it
\* asked, although pruning stops at the first young one and every instant is
\* taken before the lock, while others append and pop: with one writer the
\* instants are in order (pruneLocked).
PopFresh ==
    [][~home => \A c \in Callers, i \in DOMAIN items :
          /\ pc[c] = "pop" /\ pc'[c] = "poll"
          /\ \E j \in Len(popped) + 1 .. Len(popped') : popped'[j] = items[i].rec
          => items[i].at + Retention >= stamp[c]]_vars

\* "Stop stops the dispatcher and drains the queue": everything accepted is
\* dispatched, no wakeup is lost, and after a Stop the dispatcher ends.
DispatcherDrains ==
    <>[](queue = << >> /\ pc[Dispatcher] = IF stopped THEN "exited" ELSE "parked")

\* In Home mode every record reaches Home while there is a client lifetime and
\* the records are younger than the retention (startHomeUsageForwarder).
ForwardedAtLast ==
    <>[](~home \/ lifetime > Lifetimes \/ now > Retention + 1 \/ sent = 1 .. accepted)
=============================================================================
