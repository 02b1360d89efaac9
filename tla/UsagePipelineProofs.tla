------------------------ MODULE UsagePipelineProofs ------------------------
(***************************************************************************)
(* Theorems about UsagePipeline for every set of subscribers and every     *)
(* bound: no channel is closed twice, no subscriber misses a record while  *)
(* it is one, nothing that is popped is too old, and no record is lost or  *)
(* doubled on its way.  Each invariant speaks of its own part alone.       *)
(***************************************************************************)
EXTENDS UsagePipeline, TLAPS, FiniteSetTheorems, SequenceTheorems

(* A channel is in the map, or somebody owes its close, or it is closed.   *)
ChanShape(c) ==
  /\ DOMAIN c = {"reader", "registered", "closed", "owed", "seen", "unread", "joined", "missed"}
  /\ c.registered \in BOOLEAN /\ c.closed \in BOOLEAN
  /\ c.owed \in {{}, {"leave"}, {"clear"}}
  /\ c.registered => ~c.closed /\ c.owed = {}
  /\ c.closed => c.owed = {}

LEMMA DeliverShape == ASSUME NEW c, NEW p, ChanShape(c) PROVE ChanShape(Deliver(c, p))
<1>1. CASE ~c.registered
  BY <1>1 DEF ChanShape, Deliver
<1>2. CASE c.registered /\ c.unread < Buffer
  <2>1. Deliver(c, p) = [c EXCEPT !.seen = Append(@, p), !.unread = @ + 1]
    BY <1>2 DEF Deliver, ChanShape
  <2> QED
    BY <2>1 DEF ChanShape
<1>3. CASE c.registered /\ ~(c.unread < Buffer)
  <2>1. Deliver(c, p) = [c EXCEPT !.registered = FALSE, !.closed = TRUE, !.missed = @ \cup {p}]
    BY <1>3 DEF Deliver, ChanShape
  <2> QED
    BY <1>3, <2>1 DEF ChanShape
<1> QED
  BY <1>1, <1>2, <1>3

LEMMA LeftShape == ASSUME NEW c, ChanShape(c) PROVE ChanShape(Left(c))
  BY DEF ChanShape, Left

(* clear takes every channel out of the map and owes their closes.         *)
LEMMA ClearedShape == ASSUME NEW c, ChanShape(c) PROVE ChanShape(Cleared(c))
  BY DEF ChanShape, Cleared

(* The close that is owed is made, after the unlock.                       *)
LEMMA CloseShape ==
  ASSUME NEW c, ChanShape(c), NEW who \in c.owed
  PROVE  ChanShape([c EXCEPT !.owed = @ \ {who}, !.closed = TRUE])
<1>1. c.owed = {who}
  BY DEF ChanShape
<1>2. c.owed \ {who} = {}
  BY <1>1
<1>3. ~c.registered
  BY <1>1 DEF ChanShape
<1> QED
  BY <1>2, <1>3 DEF ChanShape

(* A reader that takes a payload leaves the rest as it is.                 *)
LEMMA TakeShape ==
  ASSUME NEW c, ChanShape(c)
  PROVE  ChanShape([c EXCEPT !.unread = @ - 1])
  BY DEF ChanShape

LEMMA NewShape ==
  ASSUME NEW n
  PROVE  /\ ChanShape(NewChan)
         /\ ChanShape([NewChan EXCEPT !.reader = "reading", !.registered = TRUE,
                                      !.seen = <<Hello>>, !.unread = 1, !.joined = n])
  BY DEF ChanShape, NewChan

ChanInv == DOMAIN chan = Subscribers /\ \A s \in Subscribers : ChanShape(chan[s])

(* The steps that leave every channel alone. *)
ChanFrame == chan' = chan

LEMMA BroadcastStep == ASSUME NEW p, ChanInv, Broadcast(p) PROVE ChanInv'
<1>1. chan' = [s \in Subscribers |-> Deliver(chan[s], p)]
  BY DEF Broadcast
<1>2. \A s \in Subscribers : ChanShape(Deliver(chan[s], p))
  BY DeliverShape DEF ChanInv
<1> HIDE DEF ChanShape, Deliver
<1> QED
  BY <1>1, <1>2 DEF ChanInv

(* A step that changes the channel of s only. *)
LEMMA OneChanStep ==
  ASSUME NEW s \in Subscribers, NEW c, ChanInv, ChanShape(c), chan' = [chan EXCEPT ![s] = c]
  PROVE  ChanInv'
<1> HIDE DEF ChanShape
<1> QED
  BY DEF ChanInv

LEMMA InitChanInv == Init => ChanInv
  BY NewShape DEF Init, ChanInv

LEMMA FrameStep == ChanInv /\ ChanFrame => ChanInv'
  BY DEF ChanInv, ChanFrame

LEMMA NextChanInv == ChanInv /\ [Next]_vars => ChanInv'
<1> SUFFICES ASSUME ChanInv, [Next]_vars PROVE ChanInv'
  OBVIOUS
<1> USE DEF ChanFrame
<1>1. CASE Publish \/ Stop \/ Wake \/ Run \/ HandleUsage
  BY <1>1, FrameStep DEF Publish, Stop, Wake, Run, HandleUsage
<1>2. ASSUME NEW w \in Writers, Writing(w) PROVE ChanInv'
  <2>1. CASE Enqueue(w) \/ ReadClock(w) \/ AppendItem(w)
    BY <2>1, FrameStep DEF Enqueue, ReadClock, AppendItem
  <2>2. CASE PublishToSubscribers(w)
    <3>1. CASE Registered # {}
      <4>1. Broadcast(Head(hand[w]))
        BY <2>2, <3>1 DEF PublishToSubscribers
      <4> QED
        BY <4>1, BroadcastStep
    <3>2. CASE Registered = {}
      BY <2>2, <3>2, FrameStep DEF PublishToSubscribers
    <3> QED
      BY <3>1, <3>2
  <2> QED
    BY <1>2, <2>1, <2>2 DEF Writing
<1>3. ASSUME NEW c \in Callers, Calling(c) PROVE ChanInv'
  BY <1>3, FrameStep DEF Calling, PopOldest, ReadClock, CallerPops
<1>4. ASSUME NEW f \in Forwarders, PopOldest(f) \/ ForwarderPops(f) \/ LPushFails(f) \/ LPushOK(f) \/ LPushUnanswered(f) PROVE ChanInv'
  BY <1>4, FrameStep DEF PopOldest, ForwarderPops, LPushFails, LPushUnanswered, GivesBack, LPushOK
<1>5. ASSUME NEW s \in Subscribers, Subscribe(s) PROVE ChanInv'
  <2> DEFINE c == [NewChan EXCEPT !.reader = "reading", !.registered = TRUE,
                                  !.seen = <<Hello>>, !.unread = 1, !.joined = Len(log)]
  <2>1. chan' = [chan EXCEPT ![s] = c]
    BY <1>5 DEF Subscribe
  <2>2. ChanShape(c)
    BY NewShape
  <2> QED
    BY <2>1, <2>2, OneChanStep
<1>6. ASSUME NEW s \in Subscribers, Receive(s) \/ Leave(s) PROVE ChanInv'
  <2>1. ChanShape(chan[s])
    BY DEF ChanInv
  <2>2. CASE chan' = [chan EXCEPT ![s].unread = @ - 1]
    <3> DEFINE c == [chan[s] EXCEPT !.unread = @ - 1]
    <3>1. chan' = [chan EXCEPT ![s] = c]
      BY <2>2
    <3>2. ChanShape(c)
      BY <2>1, TakeShape
    <3> QED
      BY <3>1, <3>2, OneChanStep
  <2>3. CASE chan' = [chan EXCEPT ![s] = Left(@)]
    <3>1. chan' = [chan EXCEPT ![s] = Left(chan[s])]
      BY <2>3
    <3>2. ChanShape(Left(chan[s]))
      BY <2>1, LeftShape
    <3> QED
      BY <3>1, <3>2, OneChanStep
  <2> QED
    BY <1>6, <2>2, <2>3 DEF Receive, Leave
<1>7. ASSUME NEW s \in Subscribers, Close(s) PROVE ChanInv'
  <2>1. PICK who \in chan[s].owed : chan' = [chan EXCEPT ![s].owed = @ \ {who}, ![s].closed = TRUE]
    BY <1>7 DEF Close
  <2> DEFINE c == [chan[s] EXCEPT !.owed = @ \ {who}, !.closed = TRUE]
  <2>2. chan' = [chan EXCEPT ![s] = c]
    BY <2>1 DEF ChanInv
  <2>3. ChanShape(c)
    BY CloseShape DEF ChanInv
  <2> QED
    BY <2>2, <2>3, OneChanStep
<1>8. CASE NotifyUsageRefresh
  BY <1>8, BroadcastStep DEF NotifyUsageRefresh
<1>9. CASE Clear
  <2>1. chan' = [s \in Subscribers |-> Cleared(chan[s])]
    BY <1>9 DEF Clear
  <2>2. \A s \in Subscribers : ChanShape(Cleared(chan[s]))
    BY ClearedShape DEF ChanInv
  <2> HIDE DEF ChanShape, Cleared
  <2> QED
    BY <2>1, <2>2 DEF ChanInv
<1>10. CASE SetEnabled \/ SetUsageStatisticsEnabled \/ NextLifetime \/ Tick
  BY <1>10, FrameStep DEF SetEnabled, SetUsageStatisticsEnabled, NextLifetime, Tick
<1>11. CASE UNCHANGED vars
  BY <1>11, FrameStep DEF vars
<1>12. Dispatcher \in Writers /\ Forwarders \subseteq Writers
  BY DEF Writers
<1> QED
  BY <1>1, <1>2, <1>3, <1>4, <1>5, <1>6, <1>7, <1>8, <1>9, <1>10, <1>11, <1>12
     DEF Next, Dispatching, Forwarding, Writing

(* publishToSubscribers, unsubscribe and clear: no channel is closed twice *)
(* and nothing is sent to a closed one, whatever the order in which they   *)
(* take the entry out of the map and close it after the unlock.            *)
THEOREM ChannelsClosedOnce == Spec => []OneCloser
<1>1. ChanInv => OneCloser
  <2> SUFFICES ASSUME ChanInv, NEW s \in Subscribers, NEW c, c = chan[s]
               PROVE  /\ c.registered => ~c.closed /\ c.owed = {}
                      /\ c.closed => c.owed = {}
                      /\ Cardinality(c.owed) <= 1
    BY DEF OneCloser
  <2>1. ChanShape(c)
    BY DEF ChanInv
  <2>2. Cardinality({}) = 0 /\ Cardinality({"leave"}) = 1 /\ Cardinality({"clear"}) = 1
    BY FS_EmptySet, FS_Singleton
  <2> QED
    BY <2>1, <2>2 DEF ChanShape
<1> QED
  BY <1>1, InitChanInv, NextChanInv, PTL DEF Spec

-----------------------------------------------------------------------------
(* What a subscriber has seen, element by element of the log.               *)
AnySeq(q) == \E S : q \in Seq(S)

LEMMA AnyAppend ==
  ASSUME NEW q, AnySeq(q), NEW e
  PROVE  /\ AnySeq(Append(q, e)) /\ Len(q) \in Nat
         /\ Len(Append(q, e)) = Len(q) + 1 /\ Append(q, e)[Len(q) + 1] = e
         /\ \A i \in 1 .. Len(q) : Append(q, e)[i] = q[i]
<1>1. PICK S : q \in Seq(S)
  BY DEF AnySeq
<1>2. q \in Seq(S \cup {e}) /\ e \in S \cup {e}
  BY <1>1, SeqMonotonic
<1>3. Append(q, e) \in Seq(S \cup {e})
  BY <1>2
<1> QED
  BY <1>2, <1>3 DEF AnySeq

SeenOK(c, l) ==
  /\ c.joined \in Nat
  /\ c.reader = "none" => ~c.registered /\ c.seen = << >> /\ c.missed = {}
  /\ c.reader # "none" =>
       /\ AnySeq(c.seen) /\ Len(c.seen) \in Nat \ {0} /\ c.seen[1] = Hello
       /\ c.joined + Len(c.seen) - 1 <= Len(l)
       /\ \A k \in 2 .. Len(c.seen) : c.seen[k] = l[c.joined + k - 1]
       /\ c.registered => c.joined + Len(c.seen) - 1 = Len(l)
SeenInv == AnySeq(log) /\ \A s \in Subscribers : SeenOK(chan[s], log)

(* Whatever leaves the channel of a subscriber alone but for its end.       *)
Keeps(c, d) == /\ d.seen = c.seen /\ d.joined = c.joined
               /\ d.registered => c.registered
               /\ d.reader = "none" <=> c.reader = "none"
               /\ d.reader = "none" => d.missed = c.missed

LEMMA KeepsSeen == ASSUME NEW c, NEW d, NEW l, SeenOK(c, l), Keeps(c, d) PROVE SeenOK(d, l)
  BY DEF SeenOK, Keeps

(* publishToSubscribers sends to every channel of the map, or drops it.     *)
LEMMA DeliverSeen ==
  ASSUME NEW c, NEW l, NEW p, AnySeq(l), ChanShape(c), SeenOK(c, l)
  PROVE  SeenOK(Deliver(c, p), Append(l, p))
<1>1. /\ Len(l) \in Nat /\ Len(Append(l, p)) = Len(l) + 1 /\ Append(l, p)[Len(l) + 1] = p
      /\ \A i \in 1 .. Len(l) : Append(l, p)[i] = l[i]
  BY AnyAppend
<1> DEFINE m == Append(l, p)
<1>a. Len(m) = Len(l) + 1 /\ m[Len(l) + 1] = p /\ \A i \in 1 .. Len(l) : m[i] = l[i]
  BY <1>1
<1> HIDE DEF m
<1>2. ASSUME NEW d, Keeps(c, d), ~d.registered PROVE SeenOK(d, m)
  BY <1>1, <1>a, <1>2, SMTT(30) DEF SeenOK, Keeps
<1>3. CASE ~c.registered
  <2>1. Keeps(c, c)
    BY DEF Keeps
  <2> QED
    BY <1>2, <1>3, <2>1 DEF Deliver, m
<1>4. CASE c.registered /\ c.unread < Buffer
  <2>1. PICK d : d = [c EXCEPT !.seen = Append(@, p), !.unread = @ + 1]
    OBVIOUS
  <2>2. /\ d.seen = Append(c.seen, p) /\ d.joined = c.joined /\ d.registered = c.registered
        /\ d.reader = c.reader
    BY <2>1 DEF ChanShape
  <2>3. c.reader # "none" /\ AnySeq(c.seen) /\ Len(c.seen) \in Nat \ {0} /\ c.joined \in Nat
        /\ c.joined + Len(c.seen) - 1 = Len(l)
    BY <1>4 DEF SeenOK
  <2>4. /\ AnySeq(d.seen) /\ Len(d.seen) = Len(c.seen) + 1 /\ d.seen[Len(c.seen) + 1] = p
        /\ \A i \in 1 .. Len(c.seen) : d.seen[i] = c.seen[i]
    BY <2>2, <2>3, AnyAppend
  <2>5. ASSUME NEW k \in 2 .. Len(d.seen) PROVE d.seen[k] = m[d.joined + k - 1]
    <3>1. CASE k = Len(c.seen) + 1
      BY <1>a, <2>2, <2>3, <2>4, <3>1
    <3>2. CASE k \in 2 .. Len(c.seen)
      <4>1. c.seen[k] = l[c.joined + k - 1]
        BY <2>3, <3>2 DEF SeenOK
      <4>2. c.joined + k - 1 \in 1 .. Len(l)
        BY <1>1, <2>3, <3>2
      <4> QED
        BY <1>a, <2>2, <2>4, <3>2, <4>1, <4>2
    <3> QED
      BY <2>3, <2>4, <3>1, <3>2
  <2>6. SeenOK(d, m)
    <3>1. d.joined \in Nat /\ d.reader # "none"
      BY <2>2, <2>3
    <3>2. AnySeq(d.seen) /\ Len(d.seen) \in Nat \ {0} /\ d.joined + Len(d.seen) - 1 = Len(m)
      <4>1. PICK x, j, y : x = Len(c.seen) /\ j = c.joined /\ y = Len(l)
        OBVIOUS
      <4>2. x \in Nat \ {0} /\ j \in Nat /\ j + x - 1 = y /\ y \in Nat
        BY <1>1, <2>3, <4>1
      <4>3. Len(d.seen) = x + 1 /\ d.joined = j /\ Len(m) = y + 1
        BY <1>a, <2>2, <2>4, <4>1
      <4>4. x + 1 \in Nat \ {0} /\ j + (x + 1) - 1 = y + 1
        BY <4>2
      <4> QED
        BY <2>4, <4>3, <4>4
    <3>3. d.seen[1] = Hello
      BY <2>3, <2>4 DEF SeenOK
    <3>4. Len(m) \in Nat
      BY <1>1, <1>a
    <3>5. d.joined + Len(d.seen) - 1 <= Len(m)
      BY <3>2, <3>4
    <3> QED
      BY <2>5, <3>1, <3>2, <3>3, <3>5, Zenon DEF SeenOK
  <2>7. Deliver(c, p) = d
    BY <1>4, <2>1 DEF Deliver, ChanShape
  <2> QED
    BY <2>6, <2>7 DEF m
<1>5. CASE c.registered /\ ~(c.unread < Buffer)
  <2>1. PICK d : d = [c EXCEPT !.registered = FALSE, !.closed = TRUE, !.missed = @ \cup {p}]
    OBVIOUS
  <2>2. Keeps(c, d) /\ ~d.registered
    <3>1. c.reader # "none"
      BY <1>5 DEF SeenOK
    <3> QED
      BY <2>1, <3>1 DEF Keeps, ChanShape
  <2>3. Deliver(c, p) = d
    BY <1>5, <2>1 DEF Deliver, ChanShape
  <2> QED
    BY <1>2, <2>2, <2>3 DEF m
<1> QED
  BY <1>3, <1>4, <1>5

LEMMA NewSeen ==
  ASSUME NEW l, AnySeq(l)
  PROVE  /\ SeenOK(NewChan, l)
         /\ SeenOK([NewChan EXCEPT !.reader = "reading", !.registered = TRUE, !.seen = <<Hello>>,
                                   !.unread = 1, !.joined = Len(l)], l)
<1>1. Len(l) \in Nat
  BY AnyAppend
<1>2. SeenOK(NewChan, l)
  BY DEF SeenOK, NewChan
<1>3. PICK c : c = [NewChan EXCEPT !.reader = "reading", !.registered = TRUE, !.seen = <<Hello>>,
                                   !.unread = 1, !.joined = Len(l)]
  OBVIOUS
<1>4. c.seen = <<Hello>> /\ c.joined = Len(l) /\ c.reader = "reading"
  BY <1>3 DEF NewChan
<1>5. <<Hello>> \in Seq({Hello}) /\ Len(<<Hello>>) = 1 /\ <<Hello>>[1] = Hello
  OBVIOUS
<1>6. AnySeq(c.seen) /\ Len(c.seen) = 1 /\ c.seen[1] = Hello
  BY <1>4, <1>5 DEF AnySeq
<1>7. SeenOK(c, l)
  BY <1>1, <1>4, <1>6 DEF SeenOK
<1> QED
  BY <1>2, <1>3, <1>7

LEMMA BroadcastSeen ==
  ASSUME NEW p, ChanInv, SeenInv, Broadcast(p)
  PROVE  SeenInv'
<1>1. chan' = [s \in Subscribers |-> Deliver(chan[s], p)] /\ log' = Append(log, p)
  BY DEF Broadcast
<1>2. \A s \in Subscribers : SeenOK(Deliver(chan[s], p), Append(log, p))
  BY DeliverSeen DEF ChanInv, SeenInv
<1>3. AnySeq(log')
  BY <1>1, AnyAppend DEF SeenInv
<1> HIDE DEF SeenOK, Deliver
<1>4. \A s \in Subscribers : SeenOK(chan'[s], log')
  BY <1>1, <1>2
<1> QED
  BY <1>3, <1>4 DEF SeenInv

LEMMA OneSeen ==
  ASSUME NEW s \in Subscribers, NEW c, ChanInv, SeenInv, chan' = [chan EXCEPT ![s] = c],
         log' = log, SeenOK(c, log)
  PROVE  SeenInv'
<1>1. \A t \in Subscribers : SeenOK(chan'[t], log')
  BY DEF SeenInv, ChanInv
<1> QED
  BY <1>1 DEF SeenInv

LEMMA NextSeen == ChanInv /\ SeenInv /\ [Next]_vars => SeenInv'
<1> SUFFICES ASSUME ChanInv, SeenInv, [Next]_vars PROVE SeenInv'
  OBVIOUS
<1>0. ASSUME UNCHANGED <<chan, log>> PROVE SeenInv'
  BY <1>0 DEF SeenInv
<1> USE DEF history
<1>1. CASE Publish \/ Stop \/ Wake \/ Run \/ HandleUsage
  BY <1>0, <1>1 DEF Publish, Stop, Wake, Run, HandleUsage
<1>2. ASSUME NEW w \in Writers, Writing(w) PROVE SeenInv'
  <2>1. CASE Enqueue(w) \/ ReadClock(w) \/ AppendItem(w)
    BY <1>0, <2>1 DEF Enqueue, ReadClock, AppendItem
  <2>2. CASE PublishToSubscribers(w)
    BY <1>0, <2>2, BroadcastSeen DEF PublishToSubscribers
  <2> QED
    BY <1>2, <2>1, <2>2 DEF Writing
<1>3. ASSUME NEW c \in Callers, Calling(c) PROVE SeenInv'
  BY <1>0, <1>3 DEF Calling, PopOldest, ReadClock, CallerPops
<1>4. ASSUME NEW f \in Forwarders, PopOldest(f) \/ ForwarderPops(f) \/ LPushFails(f) \/ LPushOK(f) \/ LPushUnanswered(f) PROVE SeenInv'
  BY <1>0, <1>4 DEF PopOldest, ForwarderPops, LPushFails, LPushUnanswered, GivesBack, LPushOK
<1>5. ASSUME NEW s \in Subscribers, Subscribe(s) PROVE SeenInv'
  BY <1>5, NewSeen, OneSeen DEF Subscribe, SeenInv
<1>6. ASSUME NEW s \in Subscribers, Receive(s) \/ Leave(s) \/ Close(s) PROVE SeenInv'
  <2>0. ChanShape(chan[s]) /\ SeenOK(chan[s], log) /\ log' = log
    BY <1>6 DEF ChanInv, SeenInv, Receive, Leave, Close
  <2>1. CASE chan' = [chan EXCEPT ![s].unread = @ - 1]
    <3>1. PICK d : d = [chan[s] EXCEPT !.unread = @ - 1]
      OBVIOUS
    <3>2. chan' = [chan EXCEPT ![s] = d]
      BY <2>1, <3>1
    <3>3. Keeps(chan[s], d)
      BY <2>0, <3>1 DEF Keeps, ChanShape
    <3> QED
      BY <2>0, <3>2, <3>3, KeepsSeen, OneSeen
  <2>2. CASE chan[s].reader = "reading" /\ chan' = [chan EXCEPT ![s] = Left(@)]
    <3>1. Keeps(chan[s], Left(chan[s]))
      BY <2>0, <2>2 DEF Keeps, ChanShape, Left
    <3>2. chan' = [chan EXCEPT ![s] = Left(chan[s])]
      BY <2>2
    <3> QED
      BY <2>0, <3>1, <3>2, KeepsSeen, OneSeen
  <2>3. CASE Close(s)
    <3>1. PICK who \in chan[s].owed : chan' = [chan EXCEPT ![s].owed = @ \ {who}, ![s].closed = TRUE]
      BY <2>3 DEF Close
    <3>2. PICK d : d = [chan[s] EXCEPT !.owed = @ \ {who}, !.closed = TRUE]
      OBVIOUS
    <3>3. chan' = [chan EXCEPT ![s] = d]
      BY <3>1, <3>2 DEF ChanInv
    <3>4. Keeps(chan[s], d)
      BY <2>0, <3>2 DEF Keeps, ChanShape
    <3> QED
      BY <2>0, <3>3, <3>4, KeepsSeen, OneSeen
  <2> QED
    BY <1>6, <2>1, <2>2, <2>3 DEF Receive, Leave
<1>7. CASE NotifyUsageRefresh
  BY <1>7, BroadcastSeen DEF NotifyUsageRefresh
<1>8. CASE Clear
  <2>1. chan' = [s \in Subscribers |-> Cleared(chan[s])] /\ log' = log
    BY <1>8 DEF Clear
  <2>2. ASSUME NEW s \in Subscribers PROVE SeenOK(Cleared(chan[s]), log)
    <3>1. Keeps(chan[s], Cleared(chan[s]))
      BY DEF Keeps, ChanInv, ChanShape, Cleared
    <3> QED
      BY <3>1, KeepsSeen DEF SeenInv
  <2> HIDE DEF SeenOK, Cleared
  <2>3. \A s \in Subscribers : SeenOK(chan'[s], log')
    BY <2>1, <2>2
  <2> QED
    BY <2>1, <2>3 DEF SeenInv
<1>9. CASE SetEnabled \/ SetUsageStatisticsEnabled \/ NextLifetime \/ Tick
  BY <1>0, <1>9 DEF SetEnabled, SetUsageStatisticsEnabled, NextLifetime, Tick
<1>10. CASE UNCHANGED vars
  BY <1>0, <1>10 DEF vars
<1>11. Dispatcher \in Writers /\ Forwarders \subseteq Writers
  BY DEF Writers
<1> QED
  BY <1>1, <1>2, <1>3, <1>4, <1>5, <1>6, <1>7, <1>8, <1>9, <1>10, <1>11
     DEF Next, Dispatching, Forwarding, Writing

LEMMA InitSeen == Init => SeenInv
<1> SUFFICES ASSUME Init PROVE SeenInv
  OBVIOUS
<1>1. log = << >> /\ << >> \in Seq({})
  BY DEF Init
<1>2. AnySeq(log)
  BY <1>1 DEF AnySeq
<1> QED
  BY <1>2, NewSeen DEF Init, SeenInv

(* publishToSubscribers: a subscriber gets everything broadcast since it    *)
(* joined, in order, until it is dropped; a full buffer never skips one.    *)
THEOREM NoGapForSubscribers == Spec => []SubscribersGapFree
<1>2. SeenInv => SubscribersGapFree
  <2> SUFFICES ASSUME SeenInv, NEW s \in Subscribers, NEW c, c = chan[s], NEW n, n = Len(c.seen) - 1,
                      c.reader # "none"
               PROVE  /\ c.seen = <<Hello>> \o SubSeq(log, c.joined + 1, c.joined + n)
                      /\ c.registered => c.joined + n = Len(log)
    BY DEF SubscribersGapFree
  <2>1. SeenOK(c, log) /\ AnySeq(log)
    BY DEF SeenInv
  <2>2. /\ c.joined \in Nat /\ n \in Nat /\ Len(c.seen) = n + 1 /\ Len(log) \in Nat
        /\ c.joined + n <= Len(log) /\ (c.registered => c.joined + n = Len(log))
    BY <2>1, AnyAppend DEF SeenOK
  <2>3. PICK A : c.seen \in Seq(A)
    BY <2>1 DEF SeenOK, AnySeq
  <2>4. PICK B : log \in Seq(B)
    BY <2>1 DEF AnySeq
  <2> DEFINE S == A \cup B \cup {Hello}
             q == SubSeq(log, c.joined + 1, c.joined + n)
  <2>5. c.seen \in Seq(S) /\ <<Hello>> \in Seq(S) /\ Len(<<Hello>>) = 1 /\ <<Hello>>[1] = Hello
    BY <2>3, SeqMonotonic
  <2>6. \A i \in c.joined + 1 .. c.joined + n : log[i] \in S
    <3>1. \A i \in 1 .. Len(log) : log[i] \in B
      BY <2>4, ElementOfSeq
    <3> QED
      BY <2>2, <3>1
  <2>7. /\ q \in Seq(S) /\ Len(q) = n
        /\ \A i \in 1 .. n : q[i] = log[c.joined + i]
    <3>1. PICK a, b : a = c.joined + 1 /\ b = c.joined + n
      OBVIOUS
    <3>2. a \in Int /\ b \in Int /\ (\A i \in a .. b : log[i] \in S) /\ q = SubSeq(log, a, b)
      BY <2>2, <2>6, <3>1
    <3> HIDE DEF S, q
    <3>3. /\ q \in Seq(S) /\ Len(q) = IF a <= b THEN b - a + 1 ELSE 0
          /\ \A i \in 1 .. b - a + 1 : q[i] = log[a + i - 1]
      BY <3>2, SubSeqProperties
    <3>4. b - a + 1 = n /\ (a <= b <=> n > 0) /\ \A i \in 1 .. n : a + i - 1 = c.joined + i
      <4>1. PICK j : j = c.joined
        OBVIOUS
      <4>2. j \in Nat /\ n \in Nat /\ a = j + 1 /\ b = j + n
        BY <2>2, <3>1, <4>1
      <4>3. b - a + 1 = n /\ (a <= b <=> n > 0) /\ \A i \in 1 .. n : a + i - 1 = j + i
        BY <4>2
      <4> QED
        BY <4>1, <4>3
    <3>5. Len(q) = n
      BY <2>2, <3>3, <3>4
    <3> QED
      BY <3>3, <3>4, <3>5
  <2> HIDE DEF S, q
  <2>8. /\ <<Hello>> \o q \in Seq(S) /\ Len(<<Hello>> \o q) = 1 + n
        /\ \A i \in 1 .. 1 + n : (<<Hello>> \o q)[i] = IF i <= 1 THEN Hello ELSE q[i - 1]
    BY <2>2, <2>5, <2>7, ConcatProperties
  <2>9. \A i \in 1 .. Len(c.seen) : c.seen[i] = (<<Hello>> \o q)[i]
    <3> SUFFICES ASSUME NEW i \in 1 .. Len(c.seen) PROVE c.seen[i] = (<<Hello>> \o q)[i]
      OBVIOUS
    <3>1. CASE i = 1
      BY <2>1, <2>2, <2>8, <3>1 DEF SeenOK
    <3>2. CASE i # 1
      <4>1. c.seen[i] = log[c.joined + i - 1]
        BY <2>1, <2>2, <3>2 DEF SeenOK
      <4>2. i - 1 \in 1 .. n /\ c.joined + (i - 1) = c.joined + i - 1 /\ ~(i <= 1)
        BY <2>2, <3>2
      <4> QED
        BY <2>2, <2>7, <2>8, <4>1, <4>2, SMTT(30)
    <3> QED
      BY <3>1, <3>2
  <2>10. c.seen = <<Hello>> \o q
    <3>1. PICK t : t = <<Hello>> \o q
      OBVIOUS
    <3>2. c.seen \in Seq(S) /\ t \in Seq(S) /\ Len(c.seen) = Len(t) /\ \A i \in 1 .. Len(c.seen) : c.seen[i] = t[i]
      BY <2>2, <2>5, <2>8, <2>9, <3>1
    <3>3. c.seen = t
      BY <3>2, SeqEqual
    <3> QED
      BY <3>1, <3>3
  <2> QED
    BY <2>2, <2>10 DEF q
<1> QED
  BY <1>2, InitChanInv, NextChanInv, InitSeen, NextSeen, PTL DEF Spec

-----------------------------------------------------------------------------
(* Without Home mode the dispatcher is the only writer.  Then the records   *)
(* are in order all the way: younger ones behind older ones, in the items,  *)
(* in the hand of the dispatcher and in the queue of the manager.           *)
DispatcherPC == {"run", "parked", "exited", "handle", "enqueue", "publish", "clock", "append"}
ActorPC == DispatcherPC \cup {"poll", "asked", "pop", "push"}
Busy == {"handle", "enqueue", "publish", "clock", "append"}
Rec == Nat \ {0}
Item == [rec : Rec, at : Nat]
Held == hand[Dispatcher]

USE DEF Rec

WriterTypes ==
  /\ pc \in [Actors -> ActorPC]
  /\ hand \in [Writers -> Seq(Rec)] /\ stamp \in [Actors -> Nat]
  /\ now \in Nat /\ accepted \in Nat /\ AnySeq(popped)
  /\ queue \in Seq(Rec) /\ items \in Seq(Item)
  /\ \A f \in Forwarders : pc[f] = "poll"
  /\ pc[Dispatcher] \in DispatcherPC
  /\ Len(Held) = IF pc[Dispatcher] \in Busy THEN 1 ELSE 0

QueueOrdered ==
  \A j \in 1 .. Len(queue) : queue[j] <= accepted /\ \A i \in 1 .. j - 1 : queue[i] < queue[j]
HeldOrdered ==
  \A h \in 1 .. Len(Held) : Held[h] <= accepted /\ \A j \in 1 .. Len(queue) : Held[h] < queue[j]
Before(x) ==
  /\ x.rec <= accepted /\ x.at <= now
  /\ \A j \in 1 .. Len(queue) : x.rec < queue[j]
  /\ \A h \in 1 .. Len(Held) : x.rec < Held[h]
  /\ pc[Dispatcher] = "append" => x.at <= stamp[Dispatcher]
ItemsBefore == \A i \in 1 .. Len(items) : Before(items[i])
Sorted(q) ==
  \A i \in 1 .. Len(q) : \A j \in 1 .. i - 1 : q[j].rec < q[i].rec /\ q[j].at <= q[i].at

OneWriter == /\ WriterTypes /\ QueueOrdered /\ HeldOrdered /\ ItemsBefore /\ Sorted(items)
             /\ stamp[Dispatcher] <= now

(* pruneLocked drops a prefix: the longest one that is stale throughout.    *)
LEMMA PrunedIsSuffix ==
  ASSUME NEW t \in Nat, items \in Seq(Item)
  PROVE  \E k \in 0 .. Len(items) :
           /\ Pruned(t) = SubSeq(items, k + 1, Len(items))
           /\ \A i \in 1 .. k : StaleAt(t, i)
           /\ \A i \in k + 1 .. Len(items) : \E j \in 1 .. i : ~StaleAt(t, j)
<1> DEFINE stale == {i \in DOMAIN items : \A j \in 1 .. i : StaleAt(t, j)}
<1>m. PICK n : n = Len(items)
  OBVIOUS
<1>1. n \in Nat /\ DOMAIN items = 1 .. n
  BY <1>m, LenProperties
<1>i. \A b \in Nat : IsFiniteSet(1 .. b) /\ Cardinality(1 .. b) = b
  <2> SUFFICES ASSUME NEW b \in Nat PROVE IsFiniteSet(1 .. b) /\ Cardinality(1 .. b) = b
    OBVIOUS
  <2>1. 1 \in Int /\ b \in Int
    OBVIOUS
  <2>2. IsFiniteSet(1 .. b) /\ Cardinality(1 .. b) = IF 1 > b THEN 0 ELSE b - 1 + 1
    BY <2>1, FS_Interval
  <2> QED
    BY <2>2
<1>2. IsFiniteSet(1 .. n) /\ Cardinality(1 .. n) = n
  BY <1>1, <1>i
<1>3. stale \subseteq 1 .. n
  BY <1>1
<1>4. \A i \in stale : 1 .. i \subseteq stale
  BY <1>1
<1> HIDE DEF stale
<1>5. IsFiniteSet(stale) /\ Cardinality(stale) \in Nat /\ Cardinality(stale) <= n
  BY <1>2, <1>3, FS_Subset, FS_CardinalityType
<1>k. PICK k : k = Cardinality(stale)
  OBVIOUS
<1>n. k \in Nat /\ k <= n
  BY <1>5, <1>k
<1>6. stale \subseteq 1 .. k
  <2> SUFFICES ASSUME NEW i \in stale PROVE i <= k /\ i \in 1 .. n
    BY <1>1, <1>5
  <2>1. i \in 1 .. n /\ 1 .. i \subseteq stale
    BY <1>3, <1>4
  <2>2. Cardinality(1 .. i) = i
    BY <1>1, <2>1, FS_Interval
  <2> QED
    BY <1>5, <1>k, <2>1, <2>2, FS_Subset
<1>7. IsFiniteSet(1 .. k) /\ Cardinality(1 .. k) = k
  BY <1>n, <1>i
<1>8. stale = 1 .. k
  BY <1>5, <1>k, <1>6, <1>7, FS_Subset
<1>9. Pruned(t) = SubSeq(items, k + 1, Len(items))
  BY <1>k DEF Pruned, stale
<1>10. ASSUME NEW i \in k + 1 .. n PROVE \E j \in 1 .. i : ~StaleAt(t, j)
  <2>1. i \in 1 .. n /\ i \notin stale
    BY <1>1, <1>n, <1>8
  <2> QED
    BY <1>1, <2>1 DEF stale
<1>11. ASSUME NEW i \in 1 .. k PROVE StaleAt(t, i)
  <2>1. i \in stale /\ i \in 1 .. i
    BY <1>n, <1>8
  <2> QED
    BY <2>1 DEF stale
<1> QED
  BY <1>m, <1>1, <1>n, <1>9, <1>10, <1>11

(* A part of the items, and what Oldest and Younger take of them.           *)
LEMMA PartOf ==
  ASSUME NEW S, NEW q \in Seq(S), NEW a \in Nat, NEW b \in Nat, b <= Len(q), a <= b
  PROVE  /\ SubSeq(q, a + 1, b) \in Seq(S) /\ Len(SubSeq(q, a + 1, b)) = b - a
         /\ \A i \in 1 .. b - a : SubSeq(q, a + 1, b)[i] = q[a + i]
<1>1. PICK m : m = a + 1
  OBVIOUS
<1>2. m \in Int /\ b \in Int /\ \A i \in m .. b : q[i] \in S
  <2>1. Len(q) \in Nat
    BY LenProperties
  <2> SUFFICES ASSUME NEW i \in m .. b PROVE q[i] \in S
    BY <1>1
  <2>2. i \in 1 .. Len(q)
    BY <1>1, <2>1
  <2> QED
    BY <2>2, ElementOfSeq
<1>3. PICK r : r = SubSeq(q, m, b)
  OBVIOUS
<1>4. /\ r \in Seq(S) /\ Len(r) = (IF m <= b THEN b - m + 1 ELSE 0)
      /\ \A i \in 1 .. b - m + 1 : r[i] = q[m + i - 1]
  BY <1>2, <1>3, SubSeqProperties
<1>5. Len(r) = b - a /\ \A i \in 1 .. b - a : r[i] = q[a + i]
  BY <1>1, <1>4
<1> QED
  BY <1>1, <1>3, <1>4, <1>5

LEMMA SuffixKeeps ==
  ASSUME OneWriter, NEW k \in 0 .. Len(items), NEW q, q = SubSeq(items, k + 1, Len(items))
  PROVE  /\ q \in Seq(Item) /\ Len(q) = Len(items) - k
         /\ \A i \in 1 .. Len(q) : q[i] = items[k + i] /\ Before(q[i])
         /\ Sorted(q)
<1>1. items \in Seq(Item) /\ Len(items) \in Nat
  BY LenProperties DEF OneWriter, WriterTypes
<1>2. /\ q \in Seq(Item) /\ Len(q) = Len(items) - k
      /\ \A i \in 1 .. Len(items) - k : q[i] = items[k + i]
  BY <1>1, PartOf
<1>3. \A i \in 1 .. Len(q) : Before(q[i])
  BY <1>1, <1>2 DEF OneWriter, ItemsBefore
<1>4. Sorted(q)
  BY <1>1, <1>2 DEF OneWriter, Sorted
<1> QED
  BY <1>2, <1>3, <1>4

WriterVars == <<pc, hand, stamp, now, accepted, queue, items, popped>>

LEMMA WriterFrame == ASSUME OneWriter, UNCHANGED WriterVars PROVE OneWriter'
  BY DEF OneWriter, WriterTypes, QueueOrdered, HeldOrdered, ItemsBefore, Before, Sorted, Held, WriterVars

LEMMA DispatcherApart ==
  /\ Dispatcher \in Writers /\ Dispatcher \notin Forwarders /\ \A f \in Forwarders : f \in Writers
  /\ Dispatcher \in Actors /\ Dispatcher \notin Callers
  /\ \A w \in Writers : w \in Actors /\ w \notin Callers
  /\ \A c \in Callers : c \in Actors /\ c \notin Forwarders
  BY UsageBounds DEF Dispatcher, Forwarders, Writers, Callers, Actors

LEMMA WriterNumbers ==
  ASSUME WriterTypes
  PROVE  /\ Len(queue) \in Nat /\ \A j \in 1 .. Len(queue) : queue[j] \in Nat
         /\ Len(Held) \in Nat /\ \A h \in 1 .. Len(Held) : Held[h] \in Nat
         /\ Len(items) \in Nat
         /\ \A i \in 1 .. Len(items) : items[i].rec \in Nat /\ items[i].at \in Nat
<1>1. queue \in Seq(Rec) /\ items \in Seq(Item) /\ Held \in Seq(Rec)
  BY DispatcherApart DEF WriterTypes, Held
<1>2. \A q \in Seq(Rec) : Len(q) \in Nat /\ \A i \in 1 .. Len(q) : q[i] \in Nat
  BY LenProperties, ElementOfSeq
<1>3. \A q \in Seq(Item) : Len(q) \in Nat /\ \A i \in 1 .. Len(q) : q[i] \in Item
  BY LenProperties, ElementOfSeq
<1>4. \A x \in Item : x.rec \in Nat /\ x.at \in Nat
  BY DEF Item
<1> QED
  BY <1>1, <1>2, <1>3, <1>4

(* The dispatcher is done with what it held.                                *)
LEMMA HandEmptied ==
  ASSUME OneWriter, pc[Dispatcher] \in Busy, HandDone(Dispatcher)
  PROVE  /\ pc' \in [Actors -> ActorPC] /\ pc'[Dispatcher] = "run"
         /\ hand' \in [Writers -> Seq(Rec)] /\ Len(Held') = 0
         /\ \A f \in Forwarders : pc'[f] = "poll"
<1>1. /\ pc \in [Actors -> ActorPC] /\ hand \in [Writers -> Seq(Rec)]
      /\ Len(hand[Dispatcher]) = 1 /\ \A f \in Forwarders : pc[f] = "poll"
  BY DEF OneWriter, WriterTypes, Held
<1>2. hand[Dispatcher] \in Seq(Rec) /\ hand[Dispatcher] # << >>
  <2>1. hand[Dispatcher] \in Seq(Rec) /\ Len(hand[Dispatcher]) = 1
    BY <1>1, DispatcherApart
  <2>2. ASSUME NEW x, Len(x) = 1, x = << >> PROVE FALSE
    <3>1. Len(<< >>) = 0
      BY EmptySeq
    <3>2. Len(x) = 0
      BY <2>2, <3>1
    <3> QED
      BY <2>2, <3>2
  <2> QED
    BY <2>1, <2>2
<1>3. PICK q : q = Tail(hand[Dispatcher])
  OBVIOUS
<1>4. q \in Seq(Rec) /\ Len(q) = 0
  BY <1>1, <1>2, <1>3, HeadTailProperties
<1>5. hand' = [hand EXCEPT ![Dispatcher] = q] /\ pc' = [pc EXCEPT ![Dispatcher] = "run"]
  BY <1>1, <1>3 DEF HandDone, Goes, Rest
<1> QED
  BY <1>1, <1>4, <1>5, DispatcherApart DEF ActorPC, DispatcherPC, Held

(* A step that only moves the dispatcher, from where it holds a record.     *)
LEMMA HandStep ==
  ASSUME OneWriter, pc[Dispatcher] \in Busy, HandDone(Dispatcher),
         UNCHANGED <<stamp, now, accepted, queue, items, popped>>
  PROVE  OneWriter'
<1> USE HandEmptied
<1>1. WriterTypes'
  BY DEF OneWriter, WriterTypes, Held, Busy, DispatcherPC
<1>2. QueueOrdered' /\ HeldOrdered' /\ Sorted(items)' /\ stamp'[Dispatcher] <= now'
  BY DEF OneWriter, QueueOrdered, HeldOrdered, Sorted, Held
<1>3. ItemsBefore'
  BY DEF OneWriter, ItemsBefore, Before, Held
<1> QED
  BY <1>1, <1>2, <1>3 DEF OneWriter

LEMMA GoesStep ==
  ASSUME OneWriter, NEW to \in Busy, pc[Dispatcher] \in Busy, Goes(Dispatcher, to),
         UNCHANGED <<hand, now, accepted, queue, items, popped>>,
         \/ stamp' = stamp /\ to # "append"
         \/ stamp' = [stamp EXCEPT ![Dispatcher] = now]
  PROVE  OneWriter'
<1>1. pc' \in [Actors -> ActorPC] /\ pc'[Dispatcher] = to
      /\ \A f \in Forwarders : pc'[f] = "poll"
  BY DispatcherApart DEF OneWriter, WriterTypes, Goes, Busy, ActorPC, DispatcherPC
<1>2. stamp' \in [Actors -> Nat] /\ stamp'[Dispatcher] <= now
      /\ (to = "append" => stamp'[Dispatcher] = now)
  <2>1. stamp \in [Actors -> Nat] /\ now \in Nat /\ stamp[Dispatcher] <= now /\ Dispatcher \in Actors
    BY DispatcherApart DEF OneWriter, WriterTypes
  <2>2. CASE stamp' = stamp /\ to # "append"
    BY <2>1, <2>2
  <2>3. CASE stamp' = [stamp EXCEPT ![Dispatcher] = now]
    <3>1. stamp'[Dispatcher] = now /\ now <= now
      BY <2>1, <2>3
    <3> QED
      BY <2>1, <2>3, <3>1
  <2> QED
    BY <2>2, <2>3
<1>3. WriterTypes'
  BY <1>1, <1>2 DEF OneWriter, WriterTypes, Held, Busy, DispatcherPC
<1>4. QueueOrdered' /\ HeldOrdered' /\ Sorted(items)'
  BY DEF OneWriter, QueueOrdered, HeldOrdered, Sorted, Held
<1>5. ItemsBefore'
  BY <1>1, <1>2 DEF OneWriter, ItemsBefore, Before, Held
<1> QED
  BY <1>2, <1>3, <1>4, <1>5 DEF OneWriter

LEMMA RunStep == ASSUME OneWriter, Run PROVE OneWriter'
<1>1. WriterTypes /\ QueueOrdered /\ HeldOrdered /\ ItemsBefore /\ Sorted(items)
      /\ stamp[Dispatcher] <= now /\ pc[Dispatcher] = "run"
      /\ UNCHANGED <<stamp, now, accepted, items, popped>>
  BY DEF OneWriter, Run, history
<1>2. Len(Held) = 0
  BY <1>1 DEF WriterTypes, Busy
<1>3. CASE MayExit \/ MayPark
  <2>1. PICK to \in {"exited", "parked"} : pc' = [pc EXCEPT ![Dispatcher] = to]
    BY <1>3 DEF Run
  <2>2. UNCHANGED <<queue, hand>>
    BY <1>3 DEF Run
  <2>3. WriterTypes'
    BY <1>1, <1>2, <2>1, <2>2, DispatcherApart DEF WriterTypes, ActorPC, DispatcherPC, Held, Busy
  <2>4. pc'[Dispatcher] # "append"
    BY <1>1, <2>1, DispatcherApart DEF WriterTypes
  <2>5. QueueOrdered' /\ HeldOrdered' /\ Sorted(items)' /\ ItemsBefore'
    BY <1>1, <2>2, <2>4 DEF QueueOrdered, HeldOrdered, Sorted, ItemsBefore, Before, Held
  <2> QED
    BY <1>1, <2>3, <2>5 DEF OneWriter
<1>4. CASE ~(MayExit \/ MayPark)
  <2>0. queue \in Seq(Rec) /\ queue # << >>
    BY <1>1, <1>4 DEF WriterTypes, MayExit, MayPark
  <2>1. PICK x, q : x = Head(queue) /\ q = Tail(queue)
    OBVIOUS
  <2>2. /\ x \in Rec /\ q \in Seq(Rec) /\ Len(q) = Len(queue) - 1 /\ Len(queue) \in Nat \ {0}
        /\ \A i \in 1 .. Len(q) : q[i] = queue[i + 1]
    BY <2>0, <2>1, HeadTailProperties, EmptySeq
  <2>3. x = queue[1]
    BY <2>0, <2>1
  <2>4. /\ pc' = [pc EXCEPT ![Dispatcher] = "handle"] /\ hand' = [hand EXCEPT ![Dispatcher] = <<x>>]
        /\ queue' = q
    BY <1>4, <2>1 DEF Run
  <2>5. <<x>> \in Seq(Rec) /\ Len(<<x>>) = 1 /\ <<x>>[1] = x
    BY <2>2
  <2>6. pc'[Dispatcher] = "handle" /\ Held' = <<x>>
    BY <1>1, <2>4, DispatcherApart DEF WriterTypes, Held
  <2>7. WriterTypes'
    BY <1>1, <2>2, <2>4, <2>5, <2>6, DispatcherApart DEF WriterTypes, ActorPC, DispatcherPC, Held, Busy
  <2>8. QueueOrdered'
    <3>1. \A j \in 1 .. Len(q) : j + 1 \in 1 .. Len(queue) /\ q[j] = queue[j + 1]
      BY <2>2
    <3> QED
      <4> SUFFICES ASSUME NEW j \in 1 .. Len(q)
                   PROVE  q[j] <= accepted /\ \A i \in 1 .. j - 1 : q[i] < q[j]
        BY <1>1, <2>4 DEF QueueOrdered
      <4>1. queue[j + 1] <= accepted /\ \A i \in 1 .. j + 1 - 1 : queue[i] < queue[j + 1]
        BY <1>1, <3>1 DEF QueueOrdered
      <4>2. \A i \in 1 .. j - 1 : i + 1 \in 1 .. j + 1 - 1 /\ i \in 1 .. Len(q)
        BY <2>2
      <4> QED
        BY <3>1, <4>1, <4>2
  <2>9. HeldOrdered'
    <3>1. \A j \in 1 .. Len(q) : j + 1 \in 1 .. Len(queue) /\ 1 \in 1 .. j + 1 - 1 /\ q[j] = queue[j + 1]
      BY <2>2
    <3>2. x <= accepted /\ \A j \in 1 .. Len(q) : x < q[j]
      <4>1. 1 \in 1 .. Len(queue)
        BY <2>2
      <4>2. x <= accepted
        BY <1>1, <2>3, <4>1 DEF QueueOrdered
      <4>3. ASSUME NEW j \in 1 .. Len(q) PROVE x < q[j]
        <5>1. queue[1] < queue[j + 1]
          BY <1>1, <3>1 DEF QueueOrdered
        <5> QED
          BY <2>3, <3>1, <5>1
      <4> QED
        BY <4>2, <4>3
    <3>3. \A h \in 1 .. Len(Held') : Held'[h] = x
      BY <2>5, <2>6
    <3> QED
      BY <1>1, <2>4, <3>2, <3>3 DEF HeldOrdered
  <2>10. ItemsBefore'
    <3>1. \A j \in 1 .. Len(q) : j + 1 \in 1 .. Len(queue) /\ q[j] = queue[j + 1]
      BY <2>2
    <3>2. \A h \in 1 .. Len(Held') : Held'[h] = queue[1]
      BY <2>3, <2>5, <2>6
    <3>3. 1 \in 1 .. Len(queue) /\ pc'[Dispatcher] # "append"
      BY <2>2, <2>6
    <3>4. \A i \in 1 .. Len(items) :
            /\ items[i].rec <= accepted /\ items[i].at <= now
            /\ \A j \in 1 .. Len(queue) : items[i].rec < queue[j]
      BY <1>1 DEF ItemsBefore, Before
    <3>5. items' = items /\ accepted' = accepted /\ now' = now /\ queue' = q
      BY <1>1, <2>4
    <3> QED
      BY <3>1, <3>2, <3>3, <3>4, <3>5 DEF ItemsBefore, Before
  <2> QED
    BY <1>1, <2>7, <2>8, <2>9, <2>10 DEF OneWriter, Sorted
<1> QED
  BY <1>3, <1>4

LEMMA PublishStep == ASSUME OneWriter, Publish PROVE OneWriter'
<1>1. WriterTypes /\ QueueOrdered /\ HeldOrdered /\ ItemsBefore /\ Sorted(items)
      /\ stamp[Dispatcher] <= now
      /\ UNCHANGED <<pc, hand, stamp, now, items, popped>> /\ accepted' = accepted + 1
  BY DEF OneWriter, Publish, history, writing
<1>2. queue \in Seq(Rec) /\ accepted \in Nat /\ Len(queue) \in Nat
  BY <1>1, LenProperties DEF WriterTypes
<1>3. PICK q : q = Append(queue, accepted + 1)
  OBVIOUS
<1>4. /\ q \in Seq(Rec) /\ Len(q) = Len(queue) + 1 /\ q[Len(queue) + 1] = accepted + 1
      /\ \A i \in 1 .. Len(queue) : q[i] = queue[i] /\ queue[i] \in Nat
  <2>1. PICK e : e = accepted + 1
    OBVIOUS
  <2>2. e \in Rec /\ q = Append(queue, e)
    BY <1>2, <1>3, <2>1
  <2>3. \A i \in 1 .. Len(queue) : queue[i] \in Nat
    BY <1>1, WriterNumbers
  <2> QED
    BY <1>2, <2>1, <2>2, <2>3, AppendProperties
<1>5. queue' = q
  BY <1>3 DEF Publish
<1>6. WriterTypes'
  BY <1>1, <1>2, <1>4, <1>5 DEF WriterTypes, Held
<1>7. QueueOrdered'
  <2> SUFFICES ASSUME NEW j \in 1 .. Len(q)
               PROVE  q[j] <= accepted + 1 /\ \A i \in 1 .. j - 1 : q[i] < q[j]
    BY <1>1, <1>5 DEF QueueOrdered
  <2>1. CASE j \in 1 .. Len(queue)
    <3>1. queue[j] <= accepted /\ \A i \in 1 .. j - 1 : queue[i] < queue[j] /\ i \in 1 .. Len(queue)
      BY <1>1, <1>2, <2>1 DEF QueueOrdered
    <3> QED
      BY <1>2, <1>4, <2>1, <3>1
  <2>2. CASE j = Len(queue) + 1
    <3>1. \A i \in 1 .. j - 1 : i \in 1 .. Len(queue) /\ queue[i] <= accepted
      BY <1>1, <1>2, <2>2 DEF QueueOrdered
    <3> QED
      BY <1>2, <1>4, <2>2, <3>1
  <2> QED
    BY <1>2, <1>4, <2>1, <2>2
<1>8. HeldOrdered'
  <2>1. \A h \in 1 .. Len(Held) : Held[h] \in Nat
    BY <1>1, WriterNumbers
  <2>2. Held' = Held
    BY <1>1 DEF Held
  <2> QED
    <3> SUFFICES ASSUME NEW h \in 1 .. Len(Held)
                 PROVE  Held[h] <= accepted + 1 /\ \A j \in 1 .. Len(q) : Held[h] < q[j]
      BY <1>1, <1>5, <2>2 DEF HeldOrdered
    <3>1. PICK x : x = Held[h]
      OBVIOUS
    <3>2. x \in Nat /\ x <= accepted /\ \A j \in 1 .. Len(queue) : x < queue[j]
      BY <1>1, <2>1, <3>1 DEF HeldOrdered
    <3>3. \A j \in 1 .. Len(q) : x < q[j]
      <4> SUFFICES ASSUME NEW j \in 1 .. Len(q) PROVE x < q[j]
        OBVIOUS
      <4>1. CASE j = Len(queue) + 1
        BY <1>2, <1>4, <3>2, <4>1
      <4>2. CASE j \in 1 .. Len(queue)
        <5>1. x < queue[j] /\ q[j] = queue[j]
          BY <1>4, <3>2, <4>2
        <5> QED
          BY <5>1
      <4> QED
        BY <1>2, <1>4, <4>1, <4>2
    <3> QED
      BY <1>2, <3>1, <3>2, <3>3
<1>9. ItemsBefore'
  <2>1. Held' = Held
    BY <1>1 DEF Held
  <2>2. \A i \in 1 .. Len(items) : items[i].rec \in Nat
    BY <1>1, WriterNumbers
  <2> QED
    <3> SUFFICES ASSUME NEW i \in 1 .. Len(items)
                 PROVE  items[i].rec <= accepted + 1 /\ \A j \in 1 .. Len(q) : items[i].rec < q[j]
      BY <1>1, <1>5, <2>1 DEF ItemsBefore, Before
    <3>1. PICK x : x = items[i].rec
      OBVIOUS
    <3>2. x \in Nat /\ x <= accepted /\ \A j \in 1 .. Len(queue) : x < queue[j]
      BY <1>1, <2>2, <3>1 DEF ItemsBefore, Before
    <3>3. \A j \in 1 .. Len(q) : x < q[j]
      <4> SUFFICES ASSUME NEW j \in 1 .. Len(q) PROVE x < q[j]
        OBVIOUS
      <4>1. CASE j = Len(queue) + 1
        BY <1>2, <1>4, <3>2, <4>1
      <4>2. CASE j \in 1 .. Len(queue)
        <5>1. x < queue[j] /\ q[j] = queue[j]
          BY <1>4, <3>2, <4>2
        <5> QED
          BY <5>1
      <4> QED
        BY <1>2, <1>4, <4>1, <4>2
    <3> QED
      BY <1>2, <3>1, <3>2, <3>3
<1> QED
  BY <1>1, <1>6, <1>7, <1>8, <1>9 DEF OneWriter, Sorted

(* pruneLocked and append: the new item is the youngest.                    *)
LEMMA AppendStep == ASSUME OneWriter, AppendItem(Dispatcher) PROVE OneWriter'
<1>1. WriterTypes /\ QueueOrdered /\ HeldOrdered /\ pc[Dispatcher] = "append" /\ HandDone(Dispatcher)
      /\ UNCHANGED <<now, accepted, queue, popped>> /\ stamp' = [stamp EXCEPT ![Dispatcher] = 0]
      /\ stamp[Dispatcher] <= now
  BY DEF OneWriter, AppendItem, manager, history
<1>2. /\ pc' \in [Actors -> ActorPC] /\ pc'[Dispatcher] = "run"
      /\ hand' \in [Writers -> Seq(Rec)] /\ Len(Held') = 0
      /\ \A f \in Forwarders : pc'[f] = "poll"
  BY <1>1, HandEmptied DEF Busy
<1>3. stamp[Dispatcher] \in Nat /\ now \in Nat /\ items \in Seq(Item)
  BY <1>1, DispatcherApart DEF WriterTypes
<1>4. PICK k \in 0 .. Len(items) : Pruned(stamp[Dispatcher]) = SubSeq(items, k + 1, Len(items))
  BY <1>3, PrunedIsSuffix
<1>5. PICK q, x : q = Pruned(stamp[Dispatcher]) /\ x = [rec |-> Head(Held), at |-> stamp[Dispatcher]]
  OBVIOUS
<1>6. /\ q \in Seq(Item) /\ Sorted(q)
      /\ \A i \in 1 .. Len(q) : Before(q[i])
  BY <1>4, <1>5, SuffixKeeps
<1>7. Held \in Seq(Rec) /\ Len(Held) = 1 /\ Held[1] \in Rec
  <2>1. Held \in Seq(Rec) /\ Len(Held) = 1
    BY <1>1, DispatcherApart DEF WriterTypes, Held, Busy
  <2> QED
    BY <2>1, ElementOfSeq
<1>8. x \in Item /\ x.rec = Held[1] /\ x.at = stamp[Dispatcher]
  BY <1>3, <1>5, <1>7 DEF Item
<1>9. PICK r : r = Append(q, x)
  OBVIOUS
<1>10. /\ r \in Seq(Item) /\ Len(r) = Len(q) + 1 /\ r[Len(q) + 1] = x /\ Len(q) \in Nat
       /\ \A i \in 1 .. Len(q) : r[i] = q[i]
  BY <1>6, <1>8, <1>9, LenProperties
<1>11. items' = r
  BY <1>5, <1>9 DEF AppendItem, Held
<1>12. stamp' \in [Actors -> Nat] /\ stamp'[Dispatcher] = 0
  BY <1>1, DispatcherApart DEF WriterTypes
<1>13. WriterTypes'
  BY <1>1, <1>2, <1>10, <1>11, <1>12 DEF WriterTypes, Held, Busy, DispatcherPC
<1>14. QueueOrdered' /\ HeldOrdered'
  BY <1>1, <1>2 DEF QueueOrdered, HeldOrdered
<1>15. ItemsBefore'
  <2>1. x.rec <= accepted /\ x.at <= now /\ \A j \in 1 .. Len(queue) : x.rec < queue[j]
    BY <1>1, <1>7, <1>8 DEF HeldOrdered
  <2>2. ASSUME NEW y, y.rec <= accepted /\ y.at <= now /\ \A j \in 1 .. Len(queue) : y.rec < queue[j]
        PROVE  Before(y)'
    BY <1>1, <1>2, <2>2 DEF Before
  <2>3. ASSUME NEW i \in 1 .. Len(r) PROVE Before(r[i])'
    <3>1. PICK y : y = r[i]
      OBVIOUS
    <3>2. y = x \/ Before(y)
      BY <1>6, <1>10, <3>1
    <3>3. Before(y)'
      BY <2>1, <2>2, <3>2 DEF Before
    <3> QED
      BY <3>1, <3>3
  <2> QED
    BY <1>11, <2>3 DEF ItemsBefore
<1>16. Sorted(items)'
  <2>1. \A i \in 1 .. Len(q) : q[i].rec < x.rec /\ q[i].at <= x.at
    BY <1>1, <1>6, <1>7, <1>8 DEF Before
  <2> QED
    <3> SUFFICES ASSUME NEW i \in 1 .. Len(r), NEW j \in 1 .. i - 1
                 PROVE  r[j].rec < r[i].rec /\ r[j].at <= r[i].at
      BY <1>11 DEF Sorted
    <3>1. CASE i = Len(q) + 1
      BY <1>10, <2>1, <3>1
    <3>2. CASE i \in 1 .. Len(q)
      BY <1>6, <1>10, <3>2 DEF Sorted
    <3> QED
      BY <1>10, <3>1, <3>2
<1> QED
  BY <1>1, <1>3, <1>12, <1>13, <1>14, <1>15, <1>16 DEF OneWriter

(* What PopOldest takes is the oldest that is left after the pruning, and   *)
(* what it leaves is the rest of the items.                                 *)
LEMMA PopParts ==
  ASSUME NEW t \in Nat, NEW n \in Nat, items \in Seq(Item)
  PROVE  \E k, e \in 0 .. Len(items) :
           /\ k <= e
           /\ \A i \in 1 .. k : StaleAt(t, i)
           /\ \A i \in k + 1 .. Len(items) : \E j \in 1 .. i : ~StaleAt(t, j)
           /\ Oldest(t, n) \in Seq(Rec) /\ Len(Oldest(t, n)) = e - k
           /\ \A j \in 1 .. e - k : Oldest(t, n)[j] = items[k + j].rec
           /\ Younger(t, n) = SubSeq(items, e + 1, Len(items))
<1>1. items \in Seq(Item) /\ t \in Nat /\ Len(items) \in Nat
  BY LenProperties
<1>2. PICK k \in 0 .. Len(items) :
        /\ Pruned(t) = SubSeq(items, k + 1, Len(items))
        /\ \A i \in 1 .. k : StaleAt(t, i)
        /\ \A i \in k + 1 .. Len(items) : \E j \in 1 .. i : ~StaleAt(t, j)
  BY <1>1, PrunedIsSuffix
<1>3. PICK q : q = Pruned(t)
  OBVIOUS
<1>4. /\ q \in Seq(Item) /\ Len(q) = Len(items) - k
      /\ \A i \in 1 .. Len(q) : q[i] = items[k + i]
  <2>1. PICK l : l = Len(items)
    OBVIOUS
  <2>2. q = SubSeq(items, k + 1, l) /\ l \in Nat /\ k \in Nat /\ k <= l /\ l <= Len(items)
    BY <1>1, <1>2, <1>3, <2>1
  <2>3. q \in Seq(Item) /\ Len(q) = l - k /\ \A i \in 1 .. l - k : q[i] = items[k + i]
    BY <2>2, PartOf
  <2> QED
    BY <2>1, <2>3
<1>5. Len(q) \in Nat
  BY <1>1, <1>4
<1>6. PICK m : m = IF n < Len(q) THEN n ELSE Len(q)
  OBVIOUS
<1>7. m \in Nat /\ m <= Len(q)
  BY <1>5, <1>6
<1>8. PICK r : r = SubSeq(q, 1, m)
  OBVIOUS
<1>9. r \in Seq(Item) /\ Len(r) = m /\ \A i \in 1 .. m : r[i] = q[i]
  <2>1. 0 \in Nat /\ 0 <= m /\ 0 + 1 = 1 /\ m - 0 = m /\ \A i \in 1 .. m : 0 + i = i
    BY <1>7
  <2>2. /\ SubSeq(q, 0 + 1, m) \in Seq(Item) /\ Len(SubSeq(q, 0 + 1, m)) = m - 0
        /\ \A i \in 1 .. m - 0 : SubSeq(q, 0 + 1, m)[i] = q[0 + i]
    BY <1>4, <1>7, <2>1, PartOf
  <2> QED
    BY <1>8, <2>1, <2>2
<1>10. PICK o : o = Oldest(t, n)
  OBVIOUS
<1>11. o = [i \in DOMAIN r |-> r[i].rec]
  BY <1>3, <1>6, <1>8, <1>10 DEF Oldest, Records
<1>12. DOMAIN r = 1 .. m /\ \A i \in 1 .. m : r[i].rec \in Rec
  <2>1. \A i \in 1 .. m : r[i] \in Item
    BY <1>9, ElementOfSeq
  <2> QED
    BY <1>9, <2>1, LenProperties DEF Item
<1>13. o \in Seq(Rec) /\ Len(o) = m /\ \A j \in 1 .. m : o[j] = r[j].rec
  <2>1. o \in [1 .. m -> Rec]
    BY <1>11, <1>12
  <2>2. o \in Seq(Rec)
    BY <1>7, <2>1, SeqDef
  <2>3. Len(o) = m
    BY <1>7, <2>1, <2>2, LenProperties
  <2> QED
    BY <1>11, <1>12, <2>2, <2>3
<1>14. \A j \in 1 .. m : o[j] = items[k + j].rec
  <2>1. \A j \in 1 .. m : j \in 1 .. Len(q)
    BY <1>5, <1>7
  <2> QED
    BY <1>4, <1>9, <1>13, <2>1
<1>15. PICK e : e = k + m
  OBVIOUS
<1>16. e \in Nat /\ e <= Len(items) /\ k <= e /\ e - k = m
  BY <1>1, <1>4, <1>7, <1>15
<1>17. Younger(t, n) = SubSeq(items, e + 1, Len(items))
  <2>1. Younger(t, n) = SubSeq(q, n + 1, Len(q))
    BY <1>3 DEF Younger
  <2>2. CASE n <= Len(q)
    <3>0. m = n
      BY <1>5, <1>6, <2>2
    <3>1. PICK y : y = SubSeq(q, n + 1, Len(q))
      OBVIOUS
    <3>2. /\ y \in Seq(Item) /\ Len(y) = Len(q) - n
          /\ \A i \in 1 .. Len(q) - n : y[i] = q[n + i]
      <4>1. PICK b : b = Len(q)
        OBVIOUS
      <4>2. b \in Nat /\ b <= Len(q) /\ n <= b /\ y = SubSeq(q, n + 1, b)
        BY <1>5, <2>2, <3>1, <4>1
      <4>3. /\ SubSeq(q, n + 1, b) \in Seq(Item) /\ Len(SubSeq(q, n + 1, b)) = b - n
            /\ \A i \in 1 .. b - n : SubSeq(q, n + 1, b)[i] = q[n + i]
        BY <1>4, <4>2, PartOf
      <4> QED
        BY <4>1, <4>2, <4>3
    <3>4. Len(items) - e = Len(q) - n
      BY <1>1, <1>4, <1>15, <2>2, <3>0
    <3>5. PICK z : z = SubSeq(items, e + 1, Len(items))
      OBVIOUS
    <3>6. /\ z \in Seq(Item) /\ Len(z) = Len(items) - e
          /\ \A i \in 1 .. Len(items) - e : z[i] = items[e + i]
      BY <1>1, <1>16, <3>5, PartOf
    <3>7. \A i \in 1 .. Len(y) : y[i] = z[i]
      <4> SUFFICES ASSUME NEW i \in 1 .. Len(y) PROVE y[i] = z[i]
        OBVIOUS
      <4>1. i \in 1 .. Len(q) - n /\ n + i \in 1 .. Len(q) /\ k + (n + i) = e + i
        BY <1>1, <1>5, <1>15, <3>0, <3>2
      <4> QED
        BY <1>4, <3>2, <3>4, <3>6, <4>1
    <3>8. y = z
      BY <3>2, <3>4, <3>6, <3>7, SeqEqual
    <3> QED
      BY <2>1, <3>1, <3>5, <3>8
  <2>3. CASE ~(n <= Len(q))
    <3>1. e = Len(items)
      BY <1>1, <1>4, <1>5, <1>6, <1>15, <2>3
    <3>2. SubSeq(items, e + 1, Len(items)) = << >>
      BY <1>1, <3>1, SubSeqEmpty
    <3>3. SubSeq(q, n + 1, Len(q)) = << >>
      BY <1>5, <2>3, SubSeqEmpty
    <3> QED
      BY <2>1, <3>2, <3>3
  <2> QED
    BY <2>2, <2>3
<1>18. e \in 0 .. Len(items)
  BY <1>1, <1>16
<1> QED
  BY <1>2, <1>10, <1>13, <1>14, <1>16, <1>17, <1>18

LEMMA PopStep ==
  ASSUME OneWriter, NEW c \in Callers, NEW n \in 1 .. Batch, CallerPops(c, n)
  PROVE  OneWriter'
<1>0. PICK t : t = stamp[c]
  OBVIOUS
<1>1. WriterTypes /\ QueueOrdered /\ HeldOrdered /\ ItemsBefore /\ stamp[Dispatcher] <= now
      /\ UNCHANGED <<hand, now, accepted, queue>>
      /\ popped' = popped \o Oldest(t, n) /\ items' = Younger(t, n)
  BY <1>0 DEF OneWriter, CallerPops, manager
<1>3. /\ pc' \in [Actors -> ActorPC] /\ stamp' \in [Actors -> Nat] /\ t \in Nat
      /\ pc'[Dispatcher] = pc[Dispatcher] /\ stamp'[Dispatcher] = stamp[Dispatcher]
      /\ \A f \in Forwarders : pc'[f] = pc[f]
  BY <1>0, <1>1, DispatcherApart DEF CallerPops, Goes, WriterTypes, ActorPC
<1>2. PICK d \in 0 .. Len(items) :
        Oldest(t, n) \in Seq(Rec) /\ Younger(t, n) = SubSeq(items, d + 1, Len(items))
  <2>1. n \in Nat /\ items \in Seq(Item) /\ t \in Nat
    BY <1>1, <1>3, UsageBounds DEF WriterTypes
  <2> QED
    BY <2>1, PopParts
<1>4. PICK q : q = Younger(t, n)
  OBVIOUS
<1>5. q \in Seq(Item) /\ Sorted(q) /\ \A i \in 1 .. Len(q) : Before(q[i])
  BY <1>2, <1>4, SuffixKeeps
<1>6. AnySeq(popped')
  <2>1. PICK S : popped \in Seq(S)
    BY <1>1 DEF WriterTypes, AnySeq
  <2>2. popped \in Seq(S \cup Nat) /\ Oldest(t, n) \in Seq(S \cup Nat)
    BY <1>2, <2>1, SeqMonotonic
  <2> QED
    BY <1>1, <2>2, ConcatProperties DEF AnySeq
<1>7. WriterTypes'
  BY <1>1, <1>3, <1>4, <1>5, <1>6 DEF WriterTypes, Held
<1>8. QueueOrdered' /\ HeldOrdered' /\ Sorted(items)' /\ ItemsBefore'
  BY <1>1, <1>3, <1>4, <1>5 DEF QueueOrdered, HeldOrdered, Sorted, ItemsBefore, Before, Held
<1> QED
  BY <1>1, <1>3, <1>7, <1>8 DEF OneWriter

(* A step of a caller that takes nothing.                                  *)
LEMMA CallerStep ==
  ASSUME OneWriter, NEW c \in Callers, NEW to \in ActorPC, Goes(c, to),
         UNCHANGED <<hand, now, accepted, queue, items, popped>>,
         \/ stamp' = stamp
         \/ stamp' = [stamp EXCEPT ![c] = now]
  PROVE  OneWriter'
<1>1. /\ pc' \in [Actors -> ActorPC] /\ stamp' \in [Actors -> Nat]
      /\ pc'[Dispatcher] = pc[Dispatcher] /\ stamp'[Dispatcher] = stamp[Dispatcher]
      /\ \A f \in Forwarders : pc'[f] = pc[f]
  BY DispatcherApart DEF OneWriter, WriterTypes, Goes
<1>2. WriterTypes'
  BY <1>1 DEF OneWriter, WriterTypes, Held
<1>3. QueueOrdered' /\ HeldOrdered' /\ Sorted(items)' /\ ItemsBefore'
  BY <1>1 DEF OneWriter, QueueOrdered, HeldOrdered, Sorted, ItemsBefore, Before, Held
<1> QED
  BY <1>1, <1>2, <1>3 DEF OneWriter

WriterInv == ~home => OneWriter

LEMMA NextWriter == WriterInv /\ [Next]_vars => WriterInv'
<1> SUFFICES ASSUME OneWriter, ~home, [Next]_vars PROVE OneWriter'
  <2>1. [Next]_vars => home' = home
    BY DEF Next, vars, Publish, Stop, Wake, Dispatching, Run, HandleUsage, Writing, Enqueue,
       PublishToSubscribers, ReadClock, AppendItem, Calling, PopOldest, CallerPops, Forwarding,
       ForwarderPops, LPushFails, LPushUnanswered, GivesBack, LPushOK, Subscribe, Receive, Leave, Close, NotifyUsageRefresh, SetEnabled, Clear,
       SetUsageStatisticsEnabled, NextLifetime, Tick
  <2> QED
    BY <2>1 DEF WriterInv
<1>0. WriterTypes
  BY DEF OneWriter
<1> USE DEF WriterVars, manager, writing, flags, history
<1>1. CASE Publish
  BY <1>1, PublishStep
<1>2. CASE Stop
  BY <1>2, WriterFrame DEF Stop
<1>3. CASE Wake
  <2>1. CASE pc' = pc
    BY <1>3, <2>1, WriterFrame DEF Wake
  <2>2. CASE pc[Dispatcher] = "parked" /\ pc' = [pc EXCEPT ![Dispatcher] = "run"]
    <3>1. pc'[Dispatcher] = "run" /\ (\A f \in Forwarders : pc'[f] = "poll")
          /\ pc' \in [Actors -> ActorPC]
      BY <1>0, <2>2, DispatcherApart DEF WriterTypes, ActorPC, DispatcherPC
    <3>2. UNCHANGED <<hand, stamp, now, accepted, queue, items, popped>>
      BY <1>3 DEF Wake
    <3>3. WriterTypes'
      BY <1>0, <2>2, <3>1, <3>2 DEF WriterTypes, Held, Busy, DispatcherPC
    <3> QED
      BY <3>1, <3>2, <3>3 DEF OneWriter, QueueOrdered, HeldOrdered, ItemsBefore, Before, Sorted, Held
  <2> QED
    BY <1>3, <2>1, <2>2 DEF Wake
<1>4. CASE Run
  BY <1>4, RunStep
<1>5. CASE HandleUsage
  <2>1. CASE HandDone(Dispatcher)
    BY <1>5, <2>1, HandStep DEF HandleUsage, Busy
  <2>2. CASE Goes(Dispatcher, "enqueue") /\ UNCHANGED hand
    BY <1>5, <2>2, GoesStep DEF HandleUsage, Busy
  <2> QED
    BY <1>5, <2>1, <2>2 DEF HandleUsage
<1>6. CASE Enqueue(Dispatcher)
  <2>1. CASE HandDone(Dispatcher)
    BY <1>6, <2>1, HandStep DEF Enqueue, Busy
  <2>2. CASE Goes(Dispatcher, "publish") /\ UNCHANGED hand
    BY <1>6, <2>2, GoesStep DEF Enqueue, Busy
  <2> QED
    BY <1>6, <2>1, <2>2 DEF Enqueue
<1>7. CASE PublishToSubscribers(Dispatcher)
  <2>1. CASE HandDone(Dispatcher) /\ UNCHANGED stamp
    BY <1>7, <2>1, HandStep DEF PublishToSubscribers, Busy
  <2>2. CASE Goes(Dispatcher, "clock") /\ UNCHANGED <<hand, stamp>>
    BY <1>7, <2>2, GoesStep DEF PublishToSubscribers, Busy
  <2> QED
    BY <1>7, <2>1, <2>2 DEF PublishToSubscribers
<1>8. CASE AppendItem(Dispatcher)
  BY <1>8, AppendStep
<1>c. CASE ReadClock(Dispatcher)
  <2>1. pc[Dispatcher] = "clock" /\ Goes(Dispatcher, "append")
    BY <1>0, <1>c DEF ReadClock, WriterTypes, DispatcherPC
  <2> QED
    BY <1>c, <2>1, GoesStep DEF ReadClock, Busy
<1>9. ASSUME NEW c \in Callers, Calling(c) PROVE OneWriter'
  <2>1. CASE PopOldest(c)
    BY <1>9, <2>1, CallerStep DEF PopOldest, ActorPC
  <2>2. CASE ReadClock(c)
    <3>1. PICK to \in {"append", "pop"} : Goes(c, to)
      BY <2>2 DEF ReadClock
    <3>2. to \in ActorPC
      BY DEF ActorPC, DispatcherPC
    <3> QED
      BY <1>9, <2>2, <3>1, <3>2, CallerStep DEF ReadClock
  <2>3. ASSUME NEW n \in 1 .. Batch, CallerPops(c, n) PROVE OneWriter'
    BY <1>9, <2>3, PopStep
  <2> QED
    BY <1>9, <2>1, <2>2, <2>3 DEF Calling
<1>10. ASSUME NEW f \in Forwarders, Forwarding(f) \/ LPushOK(f) \/ LPushUnanswered(f) PROVE FALSE
  <2>1. pc[f] = "poll" /\ f \notin Callers
    BY <1>0, DispatcherApart DEF WriterTypes
  <2> QED
    BY <1>10, <2>1 DEF Forwarding, PopOldest, PollsFirst, ForwarderPops, LPushFails, LPushUnanswered, GivesBack,
       LPushOK, Writing, Enqueue, PublishToSubscribers, ReadClock, AppendItem
<1>11. ASSUME NEW s \in Subscribers, Subscribe(s) \/ Receive(s) \/ Leave(s) \/ Close(s) PROVE OneWriter'
  BY <1>11, WriterFrame DEF Subscribe, Receive, Leave, Close
<1>12. CASE NotifyUsageRefresh \/ SetEnabled \/ SetUsageStatisticsEnabled \/ NextLifetime
  BY <1>12, WriterFrame DEF NotifyUsageRefresh, SetEnabled, SetUsageStatisticsEnabled, NextLifetime
<1>13. CASE Clear
  <2>1. items' = << >> /\ UNCHANGED <<pc, hand, stamp, now, accepted, queue, popped>>
    BY <1>13 DEF Clear
  <2>2. items' \in Seq(Item) /\ Len(items') = 0
    BY <2>1, EmptySeq
  <2>3. WriterTypes'
    BY <1>0, <2>1, <2>2 DEF WriterTypes, Held
  <2> QED
    BY <2>1, <2>2, <2>3 DEF OneWriter, QueueOrdered, HeldOrdered, ItemsBefore, Sorted, Held
<1>14. CASE Tick
  <2>1. now' = now + 1 /\ UNCHANGED <<pc, hand, stamp, accepted, queue, items, popped>>
    BY <1>14 DEF Tick
  <2>2. WriterTypes'
    BY <1>0, <2>1 DEF WriterTypes, Held
  <2>3. now \in Nat /\ stamp[Dispatcher] \in Nat /\ \A i \in 1 .. Len(items) : items[i].at \in Nat
    BY <1>0, WriterNumbers, DispatcherApart DEF WriterTypes
  <2>4. ItemsBefore'
    BY <2>1, <2>3 DEF OneWriter, ItemsBefore, Before, Held
  <2>5. QueueOrdered' /\ HeldOrdered' /\ Sorted(items)' /\ stamp'[Dispatcher] <= now'
    BY <2>1, <2>3 DEF OneWriter, QueueOrdered, HeldOrdered, Sorted, Held
  <2> QED
    BY <2>2, <2>4, <2>5 DEF OneWriter
<1>15. CASE UNCHANGED vars
  BY <1>15, WriterFrame DEF vars
<1> QED
  BY <1>1, <1>2, <1>3, <1>4, <1>5, <1>6, <1>7, <1>8, <1>c, <1>9, <1>10, <1>11, <1>12, <1>13, <1>14, <1>15
     DEF Next, Dispatching, Writing

LEMMA InitWriter == Init => WriterInv
<1> SUFFICES ASSUME Init PROVE OneWriter
  BY DEF WriterInv
<1> USE DEF Init
<1>1. /\ << >> \in Seq(Rec) /\ << >> \in Seq(Item) /\ Len(<< >>) = 0
  BY EmptySeq
<1>2. WriterTypes
  BY <1>1, DispatcherApart DEF WriterTypes, Rest, ActorPC, DispatcherPC, Busy, Held, AnySeq
<1>3. Held = << >> /\ stamp[Dispatcher] = 0
  BY DispatcherApart DEF Held
<1> QED
  BY <1>1, <1>2, <1>3 DEF OneWriter, QueueOrdered, HeldOrdered, ItemsBefore, Sorted

(* PopOldest: what the management API is given is within the retention.     *)
(* pruneLocked stops at the first young item; nothing stale hides behind    *)
(* it: the clock is read before the lock, but by one writer, and what        *)
(* others pop meanwhile are the oldest.                                    *)
THEOREM PopsAreFresh == Spec => PopFresh
<1> DEFINE Fresh(c, i) ==
      pc[c] = "pop" /\ pc'[c] = "poll" /\ (\E j \in Len(popped) + 1 .. Len(popped') : popped'[j] = items[i].rec)
         => items[i].at + Retention >= stamp[c]
<1>1. ASSUME WriterInv, [Next]_vars, ~home, NEW c \in Callers, NEW i \in DOMAIN items PROVE Fresh(c, i)
  <2>0. OneWriter /\ WriterTypes
    BY <1>1 DEF WriterInv, OneWriter
  <2>1. PICK S : popped \in Seq(S)
    BY <2>0 DEF WriterTypes, AnySeq
  <2>2. CASE popped' = popped
    <3>1. Len(popped) \in Nat
      BY <2>1, LenProperties
    <3> QED
      BY <2>2, <3>1
  <2>3. ASSUME NEW d \in Callers, NEW n \in 1 .. Batch, CallerPops(d, n) PROVE Fresh(c, i)
    <3>d. SUFFICES ASSUME pc[c] = "pop", pc'[c] = "poll" PROVE Fresh(c, i)
      OBVIOUS
    <3>s. d = c
      BY <2>0, <2>3, <3>d, DispatcherApart DEF CallerPops, Goes, WriterTypes
    <3>t. PICK t : t = stamp[c]
      OBVIOUS
    <3>1. n \in Nat /\ items \in Seq(Item) /\ t \in Nat /\ Len(items) \in Nat
      BY <2>0, <3>t, DispatcherApart, UsageBounds, LenProperties DEF WriterTypes
    <3>2. PICK k \in 0 .. Len(items) :
            /\ \A x \in k + 1 .. Len(items) : \E j \in 1 .. x : ~StaleAt(t, j)
            /\ Oldest(t, n) \in Seq(Rec)
            /\ \A j \in 1 .. Len(Oldest(t, n)) :
                 k + j \in 1 .. Len(items) /\ Oldest(t, n)[j] = items[k + j].rec
      <4>p. \E k, e \in 0 .. Len(items) :
              /\ k <= e
              /\ \A y \in 1 .. k : StaleAt(t, y)
              /\ \A y \in k + 1 .. Len(items) : \E j \in 1 .. y : ~StaleAt(t, j)
              /\ Oldest(t, n) \in Seq(Rec) /\ Len(Oldest(t, n)) = e - k
              /\ \A j \in 1 .. e - k : Oldest(t, n)[j] = items[k + j].rec
              /\ Younger(t, n) = SubSeq(items, e + 1, Len(items))
        BY <3>1, PopParts
      <4>1. PICK k, e \in 0 .. Len(items) :
              /\ k <= e
              /\ \A x \in k + 1 .. Len(items) : \E j \in 1 .. x : ~StaleAt(t, j)
              /\ Oldest(t, n) \in Seq(Rec) /\ Len(Oldest(t, n)) = e - k
              /\ \A j \in 1 .. e - k : Oldest(t, n)[j] = items[k + j].rec
        BY <4>p
      <4>2. \A j \in 1 .. e - k : k + j \in 1 .. Len(items)
        BY <3>1, <4>1, SMTT(30)
      <4> QED
        BY <4>1, <4>2
    <3>3. PICK o : o = Oldest(t, n)
      OBVIOUS
    <3>4. popped' = popped \o o
      BY <2>3, <3>3, <3>s, <3>t DEF CallerPops
    <3>5. PICK T : T = S \cup Nat
      OBVIOUS
    <3>6. popped \in Seq(T) /\ o \in Seq(T) /\ Len(popped) \in Nat /\ Len(o) \in Nat
      BY <2>1, <3>2, <3>3, <3>5, SeqMonotonic, LenProperties
    <3>7. /\ Len(popped') = Len(popped) + Len(o)
          /\ \A j \in 1 .. Len(popped) + Len(o) :
               popped'[j] = IF j <= Len(popped) THEN popped[j] ELSE o[j - Len(popped)]
      BY <3>4, <3>6, ConcatProperties
    <3>8. SUFFICES ASSUME NEW j \in Len(popped) + 1 .. Len(popped'), popped'[j] = items[i].rec
                   PROVE  items[i].at + Retention >= t
      BY <3>t
    <3>9. PICK l : l = j - Len(popped)
      OBVIOUS
    <3>10. l \in 1 .. Len(o) /\ popped'[j] = o[l]
      BY <3>6, <3>7, <3>9
    <3>11. k + l \in 1 .. Len(items) /\ items[k + l].rec = items[i].rec
      BY <3>2, <3>3, <3>8, <3>10
    <3>12. Len(items) \in Nat /\ i \in 1 .. Len(items) /\ t \in Nat /\ Retention \in Nat
           /\ \A x \in 1 .. Len(items) : items[x].rec \in Nat /\ items[x].at \in Nat
      BY <1>1, <2>0, <3>1, WriterNumbers, LenProperties, UsageBounds DEF WriterTypes
    <3>13. i = k + l
      <4>1. \A x \in 1 .. Len(items) : \A y \in 1 .. x - 1 : items[y].rec < items[x].rec
        BY <2>0 DEF OneWriter, Sorted
      <4>2. CASE i < k + l
        BY <3>11, <3>12, <4>1, <4>2
      <4>3. CASE k + l < i
        BY <3>11, <3>12, <4>1, <4>3
      <4> QED
        BY <3>11, <3>12, <4>2, <4>3
    <3>14. i \in k + 1 .. Len(items)
      BY <3>10, <3>12, <3>13
    <3>15. PICK y \in 1 .. i : ~StaleAt(t, y)
      BY <3>2, <3>14
    <3>16. y \in 1 .. Len(items) /\ items[y].at + Retention >= t
      BY <3>12, <3>15 DEF StaleAt
    <3>17. items[y].at <= items[i].at
      BY <2>0, <3>12, <3>15 DEF OneWriter, Sorted
    <3> QED
      BY <3>12, <3>16, <3>17, SMTT(30)
  <2>4. popped' = popped \/ \E d \in Callers, n \in 1 .. Batch : CallerPops(d, n)
    BY <1>1 DEF Next, vars, history, Publish, Stop, Wake, Dispatching, Run, HandleUsage, Writing, Enqueue,
       PublishToSubscribers, ReadClock, AppendItem, Calling, PopOldest, Forwarding, ForwarderPops,
       LPushFails, LPushUnanswered, GivesBack, LPushOK, Subscribe,
       Receive, Leave, Close, NotifyUsageRefresh, SetEnabled, Clear, SetUsageStatisticsEnabled,
       NextLifetime, Tick
  <2> QED
    BY <2>2, <2>3, <2>4
<1>2. WriterInv /\ [Next]_vars =>
        [~home => \A c \in Callers, i \in DOMAIN items :
          /\ pc[c] = "pop" /\ pc'[c] = "poll"
          /\ \E j \in Len(popped) + 1 .. Len(popped') : popped'[j] = items[i].rec
          => items[i].at + Retention >= stamp[c]]_vars
  BY <1>1
<1> QED
  BY <1>2, InitWriter, NextWriter, PTL DEF Spec, PopFresh

-----------------------------------------------------------------------------
(* Where the records are: in the queue of the manager, in the hands of a    *)
(* writer (its number), among the items, popped, broadcast or sent.         *)
Vals(q) == {q[i] : i \in DOMAIN q} \ {Refresh}
Once(q) == \A i, j \in DOMAIN q : q[i] = q[j] /\ q[i] # Refresh => i = j

LEMMA TailVals ==
  ASSUME NEW q \in Seq(Rec), q # << >>, Once(q)
  PROVE  /\ Head(q) \in Rec /\ Tail(q) \in Seq(Rec) /\ Once(Tail(q))
         /\ (Len(q) > 1 <=> Tail(q) # << >>)
         /\ Vals(Tail(q)) = Vals(q) \ {Head(q)}
         /\ {Head(q)} \ {Refresh} \subseteq Vals(q)
<1>1. PICK x, r, n : x = Head(q) /\ r = Tail(q) /\ n = Len(q)
  OBVIOUS
<1>2. /\ x \in Rec /\ r \in Seq(Rec) /\ Len(r) = n - 1 /\ n \in Nat \ {0}
      /\ \A i \in 1 .. Len(r) : r[i] = q[i + 1]
  BY <1>1, HeadTailProperties, EmptySeq
<1>3. x = q[1] /\ DOMAIN q = 1 .. n /\ DOMAIN r = 1 .. n - 1
  BY <1>1, <1>2, LenProperties
<1>4. \A i \in DOMAIN r : i + 1 \in DOMAIN q /\ r[i] = q[i + 1]
  BY <1>2, <1>3
<1>5. \A i \in DOMAIN q : i = 1 \/ (i - 1 \in DOMAIN r /\ r[i - 1] = q[i])
  BY <1>2, <1>3
<1>6. Once(r)
  BY <1>2, <1>3, <1>4 DEF Once
<1>7. 1 \in DOMAIN q
  BY <1>2, <1>3
<1>8. {x} \ {Refresh} \subseteq Vals(q)
  BY <1>3, <1>7 DEF Vals
<1>9. \A i \in DOMAIN r : r[i] # Refresh => r[i] # x
  <2> SUFFICES ASSUME NEW i \in DOMAIN r, r[i] # Refresh, r[i] = x PROVE FALSE
    OBVIOUS
  <2>1. i + 1 = 1
    BY <1>3, <1>4, <1>7 DEF Once
  <2> QED
    BY <1>2, <1>3, <2>1
<1>10. Vals(r) \subseteq Vals(q) \ {x}
  BY <1>4, <1>9 DEF Vals
<1>11. Vals(q) \ {x} \subseteq Vals(r)
  BY <1>3, <1>5 DEF Vals
<1>12. n > 1 <=> r # << >>
  <2>1. r = << >> <=> Len(r) = 0
    BY <1>2, EmptySeq
  <2> QED
    BY <1>2, <2>1
<1> QED
  BY <1>1, <1>2, <1>6, <1>8, <1>10, <1>11, <1>12

LEMMA AppendVals ==
  ASSUME NEW S, NEW q \in Seq(S), NEW e \in S, e \notin Vals(q), Once(q)
  PROVE  /\ Append(q, e) \in Seq(S) /\ Once(Append(q, e))
         /\ Vals(Append(q, e)) = Vals(q) \cup ({e} \ {Refresh})
<1>1. PICK r, n : r = Append(q, e) /\ n = Len(q)
  OBVIOUS
<1>2. /\ r \in Seq(S) /\ n \in Nat /\ DOMAIN q = 1 .. n /\ DOMAIN r = 1 .. n + 1
      /\ r[n + 1] = e /\ \A i \in 1 .. n : r[i] = q[i]
  BY <1>1, LenProperties, AppendProperties
<1>3. \A i \in DOMAIN r : i = n + 1 \/ i \in DOMAIN q
  BY <1>2
<1>4. \A i \in DOMAIN q : q[i] # Refresh => q[i] # e
  BY DEF Vals
<1>5. Once(r)
  BY <1>2, <1>3, <1>4 DEF Once
<1>6. Vals(r) = Vals(q) \cup ({e} \ {Refresh})
  <2>1. \A i \in DOMAIN q : i \in DOMAIN r /\ r[i] = q[i]
    BY <1>2
  <2>2. n + 1 \in DOMAIN r
    BY <1>2
  <2>3. Vals(r) \subseteq Vals(q) \cup ({e} \ {Refresh})
    BY <1>2, <1>3 DEF Vals
  <2>4. Vals(q) \cup ({e} \ {Refresh}) \subseteq Vals(r)
    BY <1>2, <2>1, <2>2 DEF Vals
  <2> QED
    BY <2>3, <2>4
<1> QED
  BY <1>1, <1>2, <1>5, <1>6

LEMMA ConcatVals ==
  ASSUME NEW q \in Seq(Rec), NEW r \in Seq(Rec), Once(q), Once(r), Vals(q) \cap Vals(r) = {}
  PROVE  /\ q \o r \in Seq(Rec) /\ Once(q \o r) /\ Vals(q \o r) = Vals(q) \cup Vals(r)
<1>1. PICK s, n, m : s = q \o r /\ n = Len(q) /\ m = Len(r)
  OBVIOUS
<1>2. /\ s \in Seq(Rec) /\ n \in Nat /\ m \in Nat /\ DOMAIN q = 1 .. n /\ DOMAIN r = 1 .. m
      /\ DOMAIN s = 1 .. n + m
  BY <1>1, LenProperties, ConcatProperties
<1>3. \A i \in 1 .. n + m : s[i] = IF i <= n THEN q[i] ELSE r[i - n]
  BY <1>1, <1>2, ConcatProperties
<1>4. \A i \in DOMAIN q : i \in DOMAIN s /\ s[i] = q[i]
  BY <1>2, <1>3
<1>5. \A i \in DOMAIN r : n + i \in DOMAIN s /\ s[n + i] = r[i]
  <2> SUFFICES ASSUME NEW i \in DOMAIN r PROVE n + i \in DOMAIN s /\ s[n + i] = r[i]
    OBVIOUS
  <2>1. PICK k : k = n + i
    OBVIOUS
  <2>2. k \in 1 .. n + m /\ ~(k <= n) /\ k - n = i
    BY <1>2, <2>1
  <2> QED
    BY <1>2, <1>3, <2>1, <2>2
<1>6. \A i \in DOMAIN s : \/ i \in DOMAIN q /\ s[i] = q[i]
                          \/ i - n \in DOMAIN r /\ s[i] = r[i - n]
  <2> SUFFICES ASSUME NEW i \in DOMAIN s
               PROVE  (i \in DOMAIN q /\ s[i] = q[i]) \/ (i - n \in DOMAIN r /\ s[i] = r[i - n])
    OBVIOUS
  <2>1. CASE i <= n
    BY <1>2, <1>3, <2>1
  <2>2. CASE ~(i <= n)
    <3>1. i \in 1 .. n + m /\ i - n \in 1 .. m
      BY <1>2, <2>2
    <3> QED
      BY <1>2, <1>3, <2>2, <3>1
  <2> QED
    BY <2>1, <2>2
<1>7. \A i \in DOMAIN q, j \in DOMAIN r : q[i] # Refresh => q[i] # r[j]
  BY DEF Vals
<1>8. Once(s)
  <2> SUFFICES ASSUME NEW i \in DOMAIN s, NEW j \in DOMAIN s, s[i] = s[j], s[i] # Refresh PROVE i = j
    BY DEF Once
  <2>1. CASE i \in DOMAIN q /\ s[i] = q[i] /\ j \in DOMAIN q /\ s[j] = q[j]
    BY <2>1 DEF Once
  <2>2. CASE i - n \in DOMAIN r /\ s[i] = r[i - n] /\ j - n \in DOMAIN r /\ s[j] = r[j - n]
    <3>1. i - n = j - n
      BY <2>2 DEF Once
    <3> QED
      BY <1>2, <3>1
  <2> QED
    BY <1>6, <1>7, <2>1, <2>2
<1>9. Vals(s) = Vals(q) \cup Vals(r)
  BY <1>4, <1>5, <1>6 DEF Vals
<1> QED
  BY <1>1, <1>2, <1>8, <1>9

LEMMA RecordsSeq ==
  ASSUME NEW q \in Seq(Item)
  PROVE  /\ Records(q) \in Seq(Rec) /\ Len(Records(q)) = Len(q) /\ Len(q) \in Nat
         /\ DOMAIN Records(q) = 1 .. Len(q) /\ \A i \in 1 .. Len(q) : Records(q)[i] = q[i].rec
<1>1. PICK n : n = Len(q)
  OBVIOUS
<1>2. n \in Nat /\ DOMAIN q = 1 .. n /\ \A i \in 1 .. n : q[i].rec \in Rec
  <2>1. \A i \in 1 .. n : q[i] \in Item
    BY <1>1, ElementOfSeq
  <2> QED
    BY <1>1, <2>1, LenProperties DEF Item
<1>3. PICK r : r = [i \in DOMAIN q |-> q[i].rec]
  OBVIOUS
<1>4. r \in [1 .. n -> Rec]
  BY <1>2, <1>3
<1>5. r \in Seq(Rec) /\ Len(r) = n
  BY <1>2, <1>4, SeqDef, LenProperties
<1>6. Records(q) = r
  BY <1>3 DEF Records
<1> QED
  BY <1>1, <1>2, <1>3, <1>4, <1>5, <1>6

LEMMA RecordsAppend ==
  ASSUME NEW q \in Seq(Item), NEW x \in Item
  PROVE  Records(Append(q, x)) = Append(Records(q), x.rec)
<1>1. PICK a, b, n : a = Records(Append(q, x)) /\ b = Append(Records(q), x.rec) /\ n = Len(q)
  OBVIOUS
<1>2. /\ Append(q, x) \in Seq(Item) /\ Len(Append(q, x)) = n + 1 /\ n \in Nat
      /\ Append(q, x)[n + 1] = x /\ \A i \in 1 .. n : Append(q, x)[i] = q[i]
  BY <1>1, AppendProperties, LenProperties
<1>3. /\ a \in Seq(Rec) /\ Len(a) = n + 1
      /\ \A i \in 1 .. n + 1 : a[i] = Append(q, x)[i].rec
  BY <1>1, <1>2, RecordsSeq
<1>4. Records(q) \in Seq(Rec) /\ Len(Records(q)) = n /\ \A i \in 1 .. n : Records(q)[i] = q[i].rec
  BY <1>1, RecordsSeq
<1>5. x.rec \in Rec
  BY DEF Item
<1>6. /\ b \in Seq(Rec) /\ Len(b) = n + 1 /\ b[n + 1] = x.rec
      /\ \A i \in 1 .. n : b[i] = Records(q)[i]
  BY <1>1, <1>4, <1>5, AppendProperties
<1>7. \A i \in 1 .. n + 1 : i = n + 1 \/ i \in 1 .. n
  BY <1>2
<1>8. ASSUME NEW i \in 1 .. Len(a) PROVE a[i] = b[i]
  <2>1. i \in 1 .. n + 1 /\ a[i] = Append(q, x)[i].rec
    BY <1>3
  <2>2. CASE i = n + 1
    BY <1>2, <1>6, <2>1, <2>2
  <2>3. CASE i \in 1 .. n
    <3>1. a[i] = q[i].rec
      BY <1>2, <2>1, <2>3
    <3>2. b[i] = q[i].rec
      BY <1>4, <1>6, <2>3
    <3> QED
      BY <3>1, <3>2
  <2> QED
    BY <1>7, <2>1, <2>2, <2>3
<1> QED
  BY <1>1, <1>3, <1>6, <1>8, SeqEqual

(* The items from k + 1 to e are taken, those after e stay, those up to k   *)
(* are too old.                                                             *)
Taken(k, e, o, y) ==
  /\ items \in Seq(Item) /\ Once(Records(items))
  /\ k \in 0 .. Len(items) /\ e \in 0 .. Len(items) /\ k <= e
  /\ o \in Seq(Rec) /\ Len(o) = e - k /\ \A j \in 1 .. e - k : o[j] = items[k + j].rec
  /\ y = SubSeq(items, e + 1, Len(items))

LEMMA TakeVals ==
  ASSUME NEW k, NEW e, NEW o, NEW y, Taken(k, e, o, y)
  PROVE  /\ y \in Seq(Item) /\ Once(o) /\ Once(Records(y))
         /\ \A i \in 1 .. Len(y) : \E j \in 1 .. Len(items) : y[i] = items[j]
         /\ Vals(o) \subseteq Vals(Records(items))
         /\ Vals(Records(y)) \subseteq Vals(Records(items)) \ Vals(o)
         /\ k = 0 => Vals(Records(items)) \subseteq Vals(o) \cup Vals(Records(y))
<1> USE DEF Taken
<1>1. PICK n, r, t : n = Len(items) /\ r = Records(items) /\ t = Records(y)
  OBVIOUS
<1>2. /\ n \in Nat /\ DOMAIN r = 1 .. n /\ \A i \in 1 .. n : r[i] = items[i].rec
  BY <1>1, RecordsSeq
<1>3. y \in Seq(Item) /\ Len(y) = n - e /\ \A i \in 1 .. n - e : y[i] = items[e + i]
  <2>1. y = SubSeq(items, e + 1, n) /\ e \in Nat /\ e <= n /\ n <= Len(items)
    BY <1>1, <1>2
  <2> QED
    BY <1>2, <2>1, PartOf
<1>4. DOMAIN t = 1 .. n - e /\ \A i \in 1 .. n - e : t[i] = y[i].rec
  BY <1>1, <1>3, RecordsSeq
<1>5. \A i \in DOMAIN t : e + i \in DOMAIN r /\ t[i] = r[e + i] /\ y[i] = items[e + i]
  <2> SUFFICES ASSUME NEW i \in DOMAIN t PROVE e + i \in DOMAIN r /\ t[i] = r[e + i] /\ y[i] = items[e + i]
    OBVIOUS
  <2>1. e + i \in 1 .. n /\ i \in 1 .. n - e
    BY <1>1, <1>2, <1>4
  <2> QED
    BY <1>2, <1>3, <1>4, <2>1
<1>6. DOMAIN o = 1 .. e - k
  BY LenProperties
<1>7. \A i \in DOMAIN o : k + i \in DOMAIN r /\ o[i] = r[k + i]
  <2> SUFFICES ASSUME NEW i \in DOMAIN o PROVE k + i \in DOMAIN r /\ o[i] = r[k + i]
    OBVIOUS
  <2>1. k + i \in 1 .. n /\ i \in 1 .. e - k
    BY <1>1, <1>2, <1>6
  <2> QED
    BY <1>2, <2>1
<1>8. Once(r)
  BY <1>1
<1>9. Once(o)
  <2> SUFFICES ASSUME NEW i \in DOMAIN o, NEW j \in DOMAIN o, o[i] = o[j], o[i] # Refresh PROVE i = j
    BY DEF Once
  <2>1. k + i = k + j
    BY <1>7, <1>8 DEF Once
  <2> QED
    BY <1>1, <1>2, <1>6, <2>1
<1>10. Once(t)
  <2> SUFFICES ASSUME NEW i \in DOMAIN t, NEW j \in DOMAIN t, t[i] = t[j], t[i] # Refresh PROVE i = j
    BY DEF Once
  <2>1. e + i = e + j
    BY <1>5, <1>8 DEF Once
  <2> QED
    BY <1>1, <1>2, <1>4, <2>1
<1>11. \A i \in DOMAIN o, j \in DOMAIN t : o[i] = t[j] => o[i] = Refresh
  <2> SUFFICES ASSUME NEW i \in DOMAIN o, NEW j \in DOMAIN t, o[i] = t[j], o[i] # Refresh PROVE FALSE
    OBVIOUS
  <2>1. k + i = e + j
    BY <1>5, <1>7, <1>8 DEF Once
  <2> QED
    BY <1>1, <1>2, <1>4, <1>6, <2>1
<1>12. Vals(o) \subseteq Vals(r) /\ Vals(t) \subseteq Vals(r)
  BY <1>5, <1>7 DEF Vals
<1>13. Vals(t) \cap Vals(o) = {}
  BY <1>11 DEF Vals
<1>14. ASSUME k = 0 PROVE Vals(r) \subseteq Vals(o) \cup Vals(t)
  <2>1. \A i \in DOMAIN r : (i \in DOMAIN o /\ o[i] = r[i]) \/ (i - e \in DOMAIN t /\ t[i - e] = r[i])
    <3> SUFFICES ASSUME NEW i \in DOMAIN r
                 PROVE  (i \in DOMAIN o /\ o[i] = r[i]) \/ (i - e \in DOMAIN t /\ t[i - e] = r[i])
      OBVIOUS
    <3>1. CASE i <= e
      <4>1. i \in DOMAIN o /\ k + i = i
        BY <1>2, <1>6, <1>14, <3>1
      <4> QED
        BY <1>7, <4>1
    <3>2. CASE ~(i <= e)
      <4>1. PICK j : j = i - e
        OBVIOUS
      <4>2. j \in DOMAIN t /\ e + j = i
        BY <1>1, <1>2, <1>4, <3>2, <4>1
      <4> QED
        BY <1>5, <4>1, <4>2
    <3> QED
      BY <3>1, <3>2
  <2> QED
    BY <2>1 DEF Vals
<1>15. \A i \in 1 .. Len(y) : \E j \in 1 .. Len(items) : y[i] = items[j]
  BY <1>1, <1>2, <1>3, <1>4, <1>5
<1> QED
  BY <1>1, <1>3, <1>9, <1>10, <1>12, <1>13, <1>14, <1>15

InQueue      == -1
InItems      == -2
WasPopped    == -3
WasBroadcast == -4
WasSent      == -5
Place == Writers \cup {InQueue, InItems, WasPopped, WasBroadcast, WasSent}
Where(p) ==
  IF p \in Writers THEN Vals(hand[p])
  ELSE IF p = InQueue THEN Vals(queue)
  ELSE IF p = InItems THEN Vals(Records(items))
  ELSE IF p = WasPopped THEN Vals(popped)
  ELSE IF p = WasBroadcast THEN Vals(log) ELSE sent

LEMMA Places ==
  /\ Writers \subseteq Place /\ {InQueue, InItems, WasPopped, WasBroadcast, WasSent} \subseteq Place
  /\ \A w \in Writers : w # InQueue /\ w # InItems /\ w # WasPopped /\ w # WasBroadcast /\ w # WasSent
  /\ \A w \in Writers : Where(w) = Vals(hand[w])
  /\ Where(InQueue) = Vals(queue) /\ Where(InItems) = Vals(Records(items))
  /\ Where(WasPopped) = Vals(popped) /\ Where(WasBroadcast) = Vals(log) /\ Where(WasSent) = sent
<1>1. \A w \in Writers : w \in Nat
  BY UsageBounds DEF Writers, Forwarders, Dispatcher
<1> QED
  BY <1>1 DEF Place, Where, InQueue, InItems, WasPopped, WasBroadcast, WasSent

Holding == Busy \cup {"push"}

PlaceTypes ==
  /\ pc \in [Actors -> ActorPC] /\ hand \in [Writers -> Seq(Rec)] /\ stamp \in [Actors -> Nat]
  /\ now \in Nat \ {0} /\ accepted \in Nat
  /\ queue \in Seq(Rec) /\ popped \in Seq(Rec) /\ log \in Seq(Nat) /\ items \in Seq(Item)
  /\ \A w \in Writers : pc[w] \in Holding <=> hand[w] # << >>
\* An instant that is written down has come, and no instant is before the first.
Stamped ==
  /\ \A w \in Actors : pc[w] \in {"append", "pop"} => stamp[w] \in 1 .. now
  /\ \A i \in 1 .. Len(items) : items[i].at > 0
Switches == switches \in Nat /\ (switches = 0 => enabled /\ stats /\ ~clearing)
AllOnce ==
  /\ Once(queue) /\ Once(Records(items)) /\ Once(popped) /\ Once(log)
  /\ \A w \in Writers : Once(hand[w])
Apart == \A p, q \in Place : p # q => Where(p) \cap Where(q) = {}
InRange == \A p \in Place : Where(p) \subseteq 1 .. accepted
\* Nobody has thrown a switch and nothing can be too old.
Calm == switches = 0 /\ now <= Retention + 1
Covered == Calm => \A r \in 1 .. accepted : \E p \in Place : r \in Where(p)
PlacesInv == Apart /\ InRange /\ Covered

PlaceInv == PlaceTypes /\ Stamped /\ Switches /\ AllOnce /\ PlacesInv

(* The records of X go from one place to another, and others may get lost.  *)
LEMMA Moved ==
  ASSUME PlacesInv, NEW from \in Place, NEW to \in Place, from # to, NEW X,
         X \subseteq Where(from), accepted' = accepted,
         \A p \in Place : p # from /\ p # to => Where(p)' \subseteq Where(p),
         Where(from)' \subseteq Where(from) \ X, Where(to)' \subseteq Where(to) \cup X,
         Calm' => Calm /\ X \subseteq Where(to)' /\ \A p \in Place : Where(p) \subseteq Where(p)' \cup X
  PROVE  PlacesInv'
<1> HIDE DEF Where, Place, Calm
<1>1. \A p \in Place : Where(p)' \subseteq IF p = to THEN Where(p) \cup X ELSE Where(p)
  OBVIOUS
<1>2. Apart'
  <2> SUFFICES ASSUME NEW p \in Place, NEW q \in Place, p # q, NEW r, r \in Where(p)', r \in Where(q)'
               PROVE  FALSE
    BY DEF Apart
  <2>1. Where(p) \cap Where(q) = {} /\ (p # from => Where(p) \cap Where(from) = {})
        /\ (q # from => Where(q) \cap Where(from) = {})
    BY DEF PlacesInv, Apart
  <2>2. CASE r \in X
    <3>1. p # from /\ q # from /\ r \in Where(from)
      BY <2>2
    <3>2. r \notin Where(p) /\ r \notin Where(q)
      BY <2>1, <3>1
    <3> QED
      BY <1>1, <3>2
  <2>3. CASE r \notin X
    <3>1. r \in Where(p) /\ r \in Where(q)
      BY <1>1, <2>3
    <3> QED
      BY <2>1, <3>1
  <2> QED
    BY <2>2, <2>3
<1>3. InRange'
  BY <1>1 DEF PlacesInv, InRange
<1>4. Covered'
  <2> SUFFICES ASSUME Calm', NEW r \in 1 .. accepted PROVE \E p \in Place : r \in Where(p)'
    BY DEF Covered
  <2>1. PICK p \in Place : r \in Where(p)
    BY DEF PlacesInv, Covered
  <2> QED
    BY <2>1
<1> QED
  BY <1>2, <1>3, <1>4 DEF PlacesInv

(* Nothing moves. *)
LEMMA NoMove ==
  ASSUME PlaceInv, UNCHANGED <<accepted, hand, queue, popped, log, sent, items>>, Calm' => Calm
  PROVE  PlacesInv' /\ AllOnce'
<1>1. \A p \in Place : Where(p)' = Where(p)
  BY DEF Where, Records, Vals
<1>2. AllOnce'
  BY DEF PlaceInv, AllOnce, Once, Records
<1> HIDE DEF Where, Place, Calm
<1>3. PlacesInv'
  BY <1>1 DEF PlaceInv, PlacesInv, Apart, InRange, Covered
<1> QED
  BY <1>2, <1>3

(* The writer w has dealt with the head of what it holds.                   *)
LEMMA HeadDone ==
  ASSUME PlaceTypes, AllOnce, NEW w \in Writers, pc[w] \in Holding,
         NEW more \in Holding, NEW rest \in ActorPC \ Holding,
         hand' = [hand EXCEPT ![w] = Tail(@)], Goes(w, IF Len(hand[w]) > 1 THEN more ELSE rest)
  PROVE  /\ pc' \in [Actors -> ActorPC] /\ hand' \in [Writers -> Seq(Rec)]
         /\ \A v \in Writers : pc'[v] \in Holding <=> hand'[v] # << >>
         /\ \A v \in Writers : Once(hand'[v])
         /\ \A v \in Writers : v # w => hand'[v] = hand[v]
         /\ \A v \in Actors : v # w => pc'[v] = pc[v]
         /\ Vals(hand'[w]) = Vals(hand[w]) \ {Head(hand[w])}
         /\ {Head(hand[w])} \ {Refresh} \subseteq Vals(hand[w])
         /\ Head(hand[w]) \in Rec
         /\ pc'[w] \in {more, rest}
<1>1. hand[w] \in Seq(Rec) /\ hand[w] # << >> /\ Once(hand[w])
  BY DEF PlaceTypes, AllOnce
<1>2. PICK q : q = Tail(hand[w])
  OBVIOUS
<1>3. /\ Head(hand[w]) \in Rec /\ q \in Seq(Rec) /\ Once(q)
      /\ (Len(hand[w]) > 1 <=> q # << >>)
      /\ Vals(q) = Vals(hand[w]) \ {Head(hand[w])}
      /\ {Head(hand[w])} \ {Refresh} \subseteq Vals(hand[w])
  BY <1>1, <1>2, TailVals
<1>4. hand' = [hand EXCEPT ![w] = q]
  BY <1>2
<1>5. hand' \in [Writers -> Seq(Rec)] /\ hand'[w] = q /\ \A v \in Writers : v # w => hand'[v] = hand[v]
  BY <1>3, <1>4 DEF PlaceTypes
<1>6. more \in ActorPC
  BY DEF Holding, Busy, ActorPC, DispatcherPC
<1>7. PICK to : to = IF Len(hand[w]) > 1 THEN more ELSE rest
  OBVIOUS
<1>8. pc' = [pc EXCEPT ![w] = to] /\ to \in ActorPC /\ to \in {more, rest}
  BY <1>6, <1>7 DEF Goes
<1>9. pc' \in [Actors -> ActorPC] /\ pc'[w] = to /\ \A v \in Actors : v # w => pc'[v] = pc[v]
  BY <1>8, DispatcherApart DEF PlaceTypes
<1>10. \A v \in Writers : pc'[v] \in Holding <=> hand'[v] # << >>
  <2> SUFFICES ASSUME NEW v \in Writers PROVE pc'[v] \in Holding <=> hand'[v] # << >>
    OBVIOUS
  <2>1. CASE v = w
    BY <1>3, <1>5, <1>7, <1>9, <2>1
  <2>2. CASE v # w
    BY <1>5, <1>9, <2>2, DispatcherApart DEF PlaceTypes
  <2> QED
    BY <2>1, <2>2
<1>11. \A v \in Writers : Once(hand'[v])
  <2> HIDE DEF Once
  <2> QED
    BY <1>3, <1>5 DEF AllOnce
<1> QED
  BY <1>3, <1>5, <1>8, <1>9, <1>10, <1>11

(* A record that is neither broadcast nor appended: a switch is off.        *)
LEMMA HandLost ==
  ASSUME PlaceInv, NEW w \in Writers, pc[w] \in Busy, HandDone(w), ~(enabled /\ stats),
         UNCHANGED <<now, accepted, queue, stamp, enabled, stats, clearing, switches, items, popped, sent, log>>
  PROVE  PlaceInv'
<1>0. PlaceTypes /\ Stamped /\ Switches /\ AllOnce /\ PlacesInv
  BY DEF PlaceInv
<1>1. pc[w] \in Holding /\ "enqueue" \in Holding /\ Rest(w) \in ActorPC \ Holding
  BY DEF Holding, Busy, Rest, ActorPC, DispatcherPC
<1>2. hand' = [hand EXCEPT ![w] = Tail(@)] /\ Goes(w, IF Len(hand[w]) > 1 THEN "enqueue" ELSE Rest(w))
  BY DEF HandDone
<1>3. /\ pc' \in [Actors -> ActorPC] /\ hand' \in [Writers -> Seq(Rec)]
      /\ \A v \in Writers : pc'[v] \in Holding <=> hand'[v] # << >>
      /\ \A v \in Writers : Once(hand'[v])
      /\ \A v \in Writers : v # w => hand'[v] = hand[v]
      /\ \A v \in Actors : v # w => pc'[v] = pc[v]
      /\ Vals(hand'[w]) = Vals(hand[w]) \ {Head(hand[w])}
      /\ pc'[w] \in {"enqueue", Rest(w)}
  BY <1>0, <1>1, <1>2, HeadDone
<1>4. PlaceTypes'
  BY <1>0, <1>3 DEF PlaceTypes
<1>5. Stamped'
  BY <1>0, <1>3 DEF Stamped, Rest
<1>6. AllOnce'
  <2> HIDE DEF Once
  <2> QED
    BY <1>0, <1>3 DEF AllOnce, Records
<1>7. PlacesInv'
  <2>1. \A p \in Place : Where(p)' \subseteq Where(p)
    <3> SUFFICES ASSUME NEW p \in Place PROVE Where(p)' \subseteq Where(p)
      OBVIOUS
    <3>1. CASE p \in Writers
      <4> HIDE DEF Vals
      <4>1. Vals(hand'[p]) \subseteq Vals(hand[p])
        BY <1>3, <3>1
      <4> QED
        BY <3>1, <4>1 DEF Where
    <3>2. CASE p \notin Writers
      BY <3>2 DEF Where, Records, Vals
    <3> QED
      BY <3>1, <3>2
  <2>2. ~Calm'
    BY <1>0 DEF Calm, Switches
  <2>3. w \in Place /\ InQueue \in Place /\ w # InQueue
    BY Places
  <2>4. PICK X : X = {}
    OBVIOUS
  <2> HIDE DEF Where, Place, Calm
  <2>5. X \subseteq Where(w) /\ Where(w)' \subseteq Where(w) \ X /\ Where(InQueue)' \subseteq Where(InQueue) \cup X
    BY <2>1, <2>3, <2>4
  <2> QED
    BY <1>0, <2>1, <2>2, <2>3, <2>5, Moved
<1> QED
  BY <1>0, <1>4, <1>5, <1>6, <1>7 DEF PlaceInv, Switches

(* An actor goes on with what it holds, or holds nothing.                   *)
LEMMA ActorGoes ==
  ASSUME PlaceInv, NEW w \in Actors, NEW to \in ActorPC, Goes(w, to), to \in Holding <=> pc[w] \in Holding,
         \/ stamp' = stamp /\ to \notin {"append", "pop"}
         \/ stamp' = [stamp EXCEPT ![w] = now],
         UNCHANGED <<now, accepted, hand, queue, enabled, stats, clearing, switches, items, popped, sent, log>>
  PROVE  PlaceInv'
<1>0. PlaceTypes /\ Stamped /\ Switches
  BY DEF PlaceInv
<1>1. pc' \in [Actors -> ActorPC] /\ pc'[w] = to /\ \A v \in Actors : v # w => pc'[v] = pc[v]
  BY <1>0 DEF Goes, PlaceTypes
<1>2. /\ stamp' \in [Actors -> Nat] /\ \A v \in Actors : v # w => stamp'[v] = stamp[v]
      /\ to \in {"append", "pop"} => stamp'[w] = now
  BY <1>0 DEF PlaceTypes
<1>3. PlaceTypes'
  <2>1. \A v \in Writers : pc'[v] \in Holding <=> pc[v] \in Holding
    BY <1>1, DispatcherApart
  <2> QED
    BY <1>0, <1>1, <1>2, <2>1 DEF PlaceTypes
<1>4. Stamped'
  <2>1. ASSUME NEW v \in Actors, pc'[v] \in {"append", "pop"} PROVE stamp'[v] \in 1 .. now'
    <3>1. now \in 1 .. now /\ now' = now
      BY <1>0 DEF PlaceTypes
    <3>2. CASE v = w
      BY <1>1, <1>2, <2>1, <3>1, <3>2
    <3>3. CASE v # w
      BY <1>0, <1>1, <1>2, <2>1, <3>1, <3>3 DEF Stamped
    <3> QED
      BY <3>2, <3>3
  <2> QED
    BY <1>0, <2>1 DEF Stamped
<1>5. PlacesInv' /\ AllOnce'
  BY NoMove DEF Calm
<1> QED
  BY <1>0, <1>3, <1>4, <1>5 DEF PlaceInv, Switches

LEMMA GoesOn ==
  ASSUME PlaceInv, NEW w \in Writers, pc[w] \in Holding, NEW to \in Holding, Goes(w, to),
         \/ stamp' = stamp /\ to # "append"
         \/ stamp' = [stamp EXCEPT ![w] = now],
         UNCHANGED <<now, accepted, hand, queue, enabled, stats, clearing, switches, items, popped, sent, log>>
  PROVE  PlaceInv'
<1>1. w \in Actors /\ to \in ActorPC /\ to # "pop"
  BY DispatcherApart DEF Holding, Busy, ActorPC, DispatcherPC
<1> QED
  BY <1>1, ActorGoes

LEMMA PublishKeeps == ASSUME PlaceInv, Publish PROVE PlaceInv'
<1>0. PlaceTypes /\ Stamped /\ Switches /\ AllOnce /\ PlacesInv
      /\ accepted' = accepted + 1 /\ queue' = Append(queue, accepted + 1)
      /\ UNCHANGED <<now, pc, hand, stamp, enabled, stats, clearing, switches, items, popped, sent, log>>
  BY DEF PlaceInv, Publish, writing, flags, history
<1>1. PICK e, q : e = accepted + 1 /\ q = Append(queue, accepted + 1)
  OBVIOUS
<1>2. e \in Nat /\ accepted \in Nat /\ e # Refresh /\ e \notin 1 .. accepted
      /\ 1 .. e = 1 .. accepted \cup {e}
  BY <1>0, <1>1 DEF PlaceTypes, Refresh
<1>3. \A p \in Place : e \notin Where(p)
  BY <1>0, <1>2 DEF PlacesInv, InRange
<1>4. q \in Seq(Rec) /\ Once(q) /\ Vals(q) = Vals(queue) \cup {e}
  <2>1. queue \in Seq(Rec) /\ Once(queue) /\ e \notin Vals(queue) /\ q = Append(queue, e)
    BY <1>0, <1>1, <1>3, Places DEF PlaceTypes, AllOnce
  <2>2. {e} \ {Refresh} = {e}
    BY <1>2
  <2>3. e \in Rec
    BY <1>1, <1>2
  <2>4. Append(queue, e) \in Seq(Rec) /\ Once(Append(queue, e))
        /\ Vals(Append(queue, e)) = Vals(queue) \cup ({e} \ {Refresh})
    BY <2>1, <2>3, AppendVals
  <2> QED
    BY <2>1, <2>2, <2>4
<1>5. PlaceTypes' /\ Stamped' /\ Switches'
  BY <1>0, <1>1, <1>2, <1>4 DEF PlaceTypes, Stamped, Switches
<1>6. AllOnce'
  <2> HIDE DEF Once
  <2> QED
    BY <1>0, <1>1, <1>4 DEF AllOnce, Records
<1>7. \A p \in Place : Where(p)' = IF p = InQueue THEN Where(p) \cup {e} ELSE Where(p)
  <2> SUFFICES ASSUME NEW p \in Place PROVE Where(p)' = IF p = InQueue THEN Where(p) \cup {e} ELSE Where(p)
    OBVIOUS
  <2>1. InQueue \notin Writers
    BY Places
  <2>2. CASE p = InQueue
    <3> HIDE DEF Vals
    <3>1. Where(p)' = Vals(q) /\ Where(p) = Vals(queue)
      BY <1>0, <1>1, <2>1, <2>2 DEF Where
    <3> QED
      BY <1>4, <2>2, <3>1
  <2>3. CASE p # InQueue
    BY <1>0, <2>3 DEF Where, Records, Vals
  <2> QED
    BY <2>2, <2>3
<1>8. InQueue \in Place /\ (Calm' <=> Calm)
  BY <1>0, Places DEF Calm
<1> HIDE DEF Where, Place, Calm
<1>9. Apart'
  BY <1>0, <1>3, <1>7 DEF PlacesInv, Apart
<1>10. InRange'
  BY <1>0, <1>1, <1>2, <1>7 DEF PlacesInv, InRange
<1>11. Covered'
  <2> SUFFICES ASSUME Calm, NEW r \in 1 .. e PROVE \E p \in Place : r \in Where(p)'
    BY <1>0, <1>1, <1>8 DEF Covered
  <2>1. CASE r = e
    BY <1>7, <1>8, <2>1
  <2>2. CASE r \in 1 .. accepted
    <3>1. PICK p \in Place : r \in Where(p)
      BY <1>0, <2>2 DEF PlacesInv, Covered
    <3> QED
      BY <1>7, <3>1
  <2> QED
    BY <1>2, <2>1, <2>2
<1> QED
  BY <1>5, <1>6, <1>9, <1>10, <1>11 DEF PlaceInv, PlacesInv

LEMMA RunKeeps == ASSUME PlaceInv, Run PROVE PlaceInv'
<1>0. PlaceTypes /\ Stamped /\ Switches /\ AllOnce /\ PlacesInv /\ pc[Dispatcher] = "run"
      /\ UNCHANGED <<now, accepted, stamp, enabled, stats, clearing, switches, items, popped, sent, log>>
  BY DEF PlaceInv, Run, flags, history
<1> DEFINE d == Dispatcher
<1>d. d \in Writers /\ d \in Actors /\ Writers \subseteq Actors
  BY DispatcherApart
<1>e. hand[d] = << >>
  BY <1>0, <1>d DEF PlaceTypes, Holding, Busy
<1> HIDE DEF d
<1>1. CASE MayExit \/ MayPark
  <2>1. PICK to \in {"exited", "parked"} : pc' = [pc EXCEPT ![d] = to]
    BY <1>1 DEF Run, d
  <2>2. UNCHANGED <<queue, hand>>
    BY <1>1 DEF Run
  <2>3. pc' \in [Actors -> ActorPC] /\ pc'[d] = to /\ \A v \in Actors : v # d => pc'[v] = pc[v]
    BY <1>0, <1>d, <2>1 DEF PlaceTypes, ActorPC, DispatcherPC
  <2>4. PlaceTypes'
    BY <1>0, <1>d, <1>e, <2>2, <2>3 DEF PlaceTypes, Holding, Busy
  <2>5. Stamped' /\ Switches'
    BY <1>0, <2>3 DEF Stamped, Switches
  <2>6. PlacesInv' /\ AllOnce'
    BY <1>0, <2>2, NoMove DEF Calm
  <2> QED
    BY <2>4, <2>5, <2>6 DEF PlaceInv
<1>2. CASE ~(MayExit \/ MayPark)
  <2>1. PICK x, q : x = Head(queue) /\ q = Tail(queue)
    OBVIOUS
  <2>2. queue \in Seq(Rec) /\ queue # << >> /\ Once(queue)
    BY <1>0, <1>2 DEF PlaceTypes, AllOnce, MayExit, MayPark
  <2>3. /\ x \in Rec /\ q \in Seq(Rec) /\ Once(q)
        /\ Vals(q) = Vals(queue) \ {x} /\ {x} \ {Refresh} \subseteq Vals(queue)
    BY <2>1, <2>2, TailVals
  <2>4. pc' = [pc EXCEPT ![d] = "handle"] /\ hand' = [hand EXCEPT ![d] = <<x>>] /\ queue' = q
    BY <1>2, <2>1 DEF Run, d
  <2>5. <<x>> \in Seq(Rec) /\ <<x>> # << >> /\ Once(<<x>>) /\ Vals(<<x>>) = {x} \ {Refresh}
    <3>1. PICK q0 : q0 = << >>
      OBVIOUS
    <3>2. q0 \in Seq(Rec) /\ Once(q0) /\ Vals(q0) = {} /\ x \notin Vals(q0)
      BY <3>1, EmptySeq DEF Once, Vals
    <3>3. /\ Append(q0, x) \in Seq(Rec) /\ Once(Append(q0, x)) /\ Append(q0, x) # << >>
          /\ Vals(Append(q0, x)) = {x} \ {Refresh}
      <4>1. PICK S : S = Rec
        OBVIOUS
      <4>2. q0 \in Seq(S) /\ x \in S
        BY <2>3, <3>2, <4>1
      <4>3. Append(q0, x) # << >>
        BY <4>2, AppendProperties
      <4>4. /\ Append(q0, x) \in Seq(S) /\ Once(Append(q0, x))
            /\ Vals(Append(q0, x)) = {} \cup ({x} \ {Refresh})
        BY <3>2, <4>2, AppendVals
      <4> QED
        BY <4>1, <4>3, <4>4
    <3>4. Append(q0, x) = <<x>>
      BY <2>3, <3>1
    <3> QED
      BY <3>3, <3>4
  <2>6. /\ hand' \in [Writers -> Seq(Rec)] /\ hand'[d] = <<x>>
        /\ \A v \in Writers : v # d => hand'[v] = hand[v]
    BY <1>0, <1>d, <2>4, <2>5 DEF PlaceTypes
  <2>7. /\ pc' \in [Actors -> ActorPC] /\ pc'[d] = "handle"
        /\ \A v \in Actors : v # d => pc'[v] = pc[v]
    BY <1>0, <1>d, <2>4 DEF PlaceTypes, ActorPC, DispatcherPC
  <2>8. PlaceTypes'
    <3>1. \A v \in Writers : pc'[v] \in Holding <=> hand'[v] # << >>
      BY <1>0, DispatcherApart, <2>5, <2>6, <2>7 DEF PlaceTypes, Holding, Busy
    <3> QED
      BY <1>0, <2>3, <2>4, <2>6, <2>7, <3>1 DEF PlaceTypes
  <2>9. Stamped' /\ Switches'
    BY <1>0, <2>7 DEF Stamped, Switches
  <2>10. AllOnce'
    <3> HIDE DEF Once
    <3> QED
      BY <1>0, <2>3, <2>4, <2>5, <2>6 DEF AllOnce, Records
  <2>11. PlacesInv'
    <3>1. /\ InQueue \notin Writers /\ InQueue \in Place /\ d \in Place /\ InQueue # d
          /\ Where(InQueue) = Vals(queue)
      BY <1>d, Places
    <3> HIDE DEF Vals
    <3>2. Where(InQueue)' = Vals(q) /\ Where(d)' = {x} \ {Refresh}
      BY <1>d, <2>4, <2>5, <2>6, <3>1 DEF Where
    <3>3. \A p \in Place : p # InQueue /\ p # d => Where(p)' = Where(p)
      BY <1>0, <2>6 DEF Where, Records
    <3>4. Where(d) = {}
      <4>1. Vals(<< >>) = {}
        BY EmptySeq DEF Vals
      <4> QED
        BY <1>d, <1>e, <4>1 DEF Where
    <3>5. PICK X : X = {x} \ {Refresh}
      OBVIOUS
    <3>6. X \subseteq Where(InQueue) /\ Where(d)' = X /\ Where(InQueue)' \subseteq Where(InQueue) \ X
      BY <2>3, <3>1, <3>2, <3>5
    <3>7. Where(InQueue) \subseteq Where(InQueue)' \cup X
      <4>1. Refresh \notin Vals(queue)
        BY DEF Vals
      <4> QED
        BY <2>3, <3>1, <3>2, <3>5, <4>1
    <3>8. Calm' => Calm
      BY <1>0 DEF Calm
    <3> HIDE DEF Where, Place, Calm
    <3>9. \A p \in Place : Where(p) \subseteq Where(p)' \cup X
      BY <3>3, <3>4, <3>7
    <3> QED
      BY <1>0, <3>1, <3>3, <3>6, <3>8, <3>9, Moved
  <2> QED
    BY <2>8, <2>9, <2>10, <2>11 DEF PlaceInv
<1> QED
  BY <1>1, <1>2

(* The head of what w holds goes to another place.                          *)
LEMMA HeadMoves ==
  ASSUME PlaceInv, NEW w \in Writers, NEW to \in Place, to \notin Writers,
         accepted' = accepted, Calm' => Calm,
         \A v \in Writers : v # w => hand'[v] = hand[v],
         Vals(hand'[w]) = Vals(hand[w]) \ {Head(hand[w])},
         {Head(hand[w])} \ {Refresh} \subseteq Vals(hand[w]),
         \A p \in Place \ Writers : p # to => Where(p)' = Where(p),
         Where(to)' \subseteq Where(to) \cup ({Head(hand[w])} \ {Refresh}),
         {Head(hand[w])} \ {Refresh} \subseteq Where(to)',
         Calm' => Where(to) \subseteq Where(to)'
  PROVE  PlacesInv'
<1>1. PICK x, X : x = Head(hand[w]) /\ X = {x} \ {Refresh}
  OBVIOUS
<1> HIDE DEF Vals
<1>2. \A v \in Writers : v # w => Where(v)' = Where(v)
  BY DEF Where
<1>3. Where(w) = Vals(hand[w]) /\ Where(w)' = Vals(hand'[w]) /\ Refresh \notin Vals(hand[w]) /\ w \in Place
  BY Places DEF Where, Vals
<1>4. w # to
  OBVIOUS
<1>5. X \subseteq Where(w) /\ Where(w)' \subseteq Where(w) \ X /\ Where(w) \subseteq Where(w)' \cup X
  BY <1>1, <1>3
<1> HIDE DEF Where, Place, Calm
<1>6. \A p \in Place : p # w /\ p # to => Where(p)' = Where(p)
  BY <1>2
<1>7. Where(to)' \subseteq Where(to) \cup X /\ X \subseteq Where(to)'
  BY <1>1
<1>8. Calm' => \A p \in Place : Where(p) \subseteq Where(p)' \cup X
  BY <1>5, <1>6
<1>9. PlacesInv
  BY DEF PlaceInv
<1> QED
  BY <1>3, <1>4, <1>5, <1>6, <1>7, <1>8, <1>9, Moved

LEMMA BroadcastKeeps ==
  ASSUME PlaceInv, NEW w \in Writers, PublishToSubscribers(w) PROVE PlaceInv'
<1>0. PlaceTypes /\ Stamped /\ Switches /\ AllOnce /\ PlacesInv /\ pc[w] = "publish"
      /\ UNCHANGED <<now, accepted, queue, enabled, stats, clearing, switches, items, popped, sent>>
  BY DEF PlaceInv, PublishToSubscribers, manager, flags
<1>1. CASE Registered = {}
  <2>1. Goes(w, "clock") /\ UNCHANGED <<log, hand, stamp>>
    BY <1>1 DEF PublishToSubscribers
  <2>2. pc[w] \in Holding /\ "clock" \in Holding
    BY <1>0 DEF Holding, Busy
  <2> QED
    BY <1>0, <2>1, <2>2, GoesOn
<1>2. CASE Registered # {}
  <2>1. log' = Append(log, Head(hand[w])) /\ HandDone(w) /\ stamp' = stamp
    BY <1>2 DEF PublishToSubscribers, Broadcast
  <2>2. pc[w] \in Holding /\ "enqueue" \in Holding /\ Rest(w) \in ActorPC \ Holding
    BY <1>0 DEF Holding, Busy, Rest, ActorPC, DispatcherPC
  <2>3. hand' = [hand EXCEPT ![w] = Tail(@)] /\ Goes(w, IF Len(hand[w]) > 1 THEN "enqueue" ELSE Rest(w))
    BY <2>1 DEF HandDone
  <2>4. /\ pc' \in [Actors -> ActorPC] /\ hand' \in [Writers -> Seq(Rec)]
        /\ \A v \in Writers : pc'[v] \in Holding <=> hand'[v] # << >>
        /\ \A v \in Writers : Once(hand'[v])
        /\ \A v \in Writers : v # w => hand'[v] = hand[v]
        /\ \A v \in Actors : v # w => pc'[v] = pc[v]
        /\ Vals(hand'[w]) = Vals(hand[w]) \ {Head(hand[w])}
        /\ {Head(hand[w])} \ {Refresh} \subseteq Vals(hand[w])
        /\ Head(hand[w]) \in Rec
        /\ pc'[w] \in {"enqueue", Rest(w)}
    BY <1>0, <2>2, <2>3, HeadDone
  <2>5. PICK x, l : x = Head(hand[w]) /\ l = Append(log, x)
    OBVIOUS
  <2>6. /\ w \in Place /\ WasBroadcast \in Place /\ WasBroadcast \notin Writers /\ w # WasBroadcast
        /\ Where(w) = Vals(hand[w]) /\ Where(WasBroadcast) = Vals(log)
    BY Places
  <2>7. log \in Seq(Nat) /\ Once(log) /\ x \in Rec /\ x \notin Vals(log)
    <3>1. Where(w) \cap Where(WasBroadcast) = {}
      BY <1>0, <2>6 DEF PlacesInv, Apart
    <3>2. x = Refresh => x \notin Vals(log)
      BY DEF Vals
    <3> QED
      BY <1>0, <2>4, <2>5, <2>6, <3>1, <3>2 DEF PlaceTypes, AllOnce
  <2>8. l \in Seq(Nat) /\ Once(l) /\ Vals(l) = Vals(log) \cup ({x} \ {Refresh}) /\ log' = l
    BY <2>1, <2>5, <2>7, AppendVals
  <2>9. PlaceTypes' /\ Switches'
    BY <1>0, <2>1, <2>4, <2>8 DEF PlaceTypes, Switches
  <2>10. Stamped'
    BY <1>0, <2>1, <2>4 DEF Stamped, Rest
  <2>11. AllOnce'
    <3> HIDE DEF Once
    <3> QED
      BY <1>0, <2>4, <2>8 DEF AllOnce, Records
  <2>12. PlacesInv'
    <3> HIDE DEF Vals
    <3>1. Where(WasBroadcast)' = Vals(l)
      BY <2>6, <2>8 DEF Where, WasBroadcast, InQueue, InItems, WasPopped
    <3>2. \A p \in Place \ Writers : p # WasBroadcast => Where(p)' = Where(p)
      BY <1>0 DEF Where, Records, Place
    <3>3. Where(WasBroadcast)' = Where(WasBroadcast) \cup ({x} \ {Refresh})
      BY <2>6, <2>8, <3>1
    <3>4. Calm' => Calm
      BY <1>0 DEF Calm
    <3> HIDE DEF Where, Place, Calm
    <3> QED
      BY <1>0, <2>4, <2>5, <2>6, <3>2, <3>3, <3>4, HeadMoves
  <2> QED
    BY <2>9, <2>10, <2>11, <2>12 DEF PlaceInv
<1> QED
  BY <1>1, <1>2

(* LPUSH: Home has the head of the batch.                                   *)
LEMMA PushKeeps == ASSUME PlaceInv, NEW f \in Forwarders, LPushOK(f) PROVE PlaceInv'
<1>0. PlaceTypes /\ Stamped /\ Switches /\ AllOnce /\ PlacesInv /\ pc[f] = "push"
      /\ UNCHANGED <<now, accepted, queue, stamp, enabled, stats, clearing, switches, items, popped, log>>
  BY DEF PlaceInv, LPushOK, manager, flags
<1>1. f \in Writers /\ pc[f] \in Holding /\ "push" \in Holding /\ "poll" \in ActorPC \ Holding
  BY <1>0, DispatcherApart DEF Holding, Busy, ActorPC, DispatcherPC
<1>2. /\ hand' = [hand EXCEPT ![f] = Tail(@)] /\ Goes(f, IF Len(hand[f]) > 1 THEN "push" ELSE "poll")
      /\ sent' = sent \cup {Head(hand[f])}
  BY DEF LPushOK
<1>3. /\ pc' \in [Actors -> ActorPC] /\ hand' \in [Writers -> Seq(Rec)]
      /\ \A v \in Writers : pc'[v] \in Holding <=> hand'[v] # << >>
      /\ \A v \in Writers : Once(hand'[v])
      /\ \A v \in Writers : v # f => hand'[v] = hand[v]
      /\ \A v \in Actors : v # f => pc'[v] = pc[v]
      /\ Vals(hand'[f]) = Vals(hand[f]) \ {Head(hand[f])}
      /\ {Head(hand[f])} \ {Refresh} \subseteq Vals(hand[f])
      /\ pc'[f] \in {"push", "poll"}
  BY <1>0, <1>1, <1>2, HeadDone
<1>4. PlaceTypes' /\ Switches'
  BY <1>0, <1>3 DEF PlaceTypes, Switches
<1>5. Stamped'
  BY <1>0, <1>3 DEF Stamped
<1>6. AllOnce'
  <2> HIDE DEF Once
  <2> QED
    BY <1>0, <1>3 DEF AllOnce, Records
<1>7. PlacesInv'
  <2>1. /\ f \in Place /\ WasSent \in Place /\ WasSent \notin Writers
    BY <1>1, Places
  <2>2. Where(WasSent) = sent /\ Where(WasSent)' = sent'
    BY <2>1 DEF Where, WasSent, InQueue, InItems, WasPopped, WasBroadcast
  <2>3. \A p \in Place \ Writers : p # WasSent => Where(p)' = Where(p)
    BY <1>0 DEF Where, Records, Vals, Place
  <2>4. Calm' => Calm
    BY <1>0 DEF Calm
  <2>5. Head(hand[f]) # Refresh
    <3>1. hand[f] \in Seq(Rec) /\ hand[f] # << >>
      BY <1>0, <1>1 DEF PlaceTypes
    <3>2. Head(hand[f]) \in Rec
      BY <3>1, HeadTailProperties
    <3> QED
      BY <3>2 DEF Refresh
  <2>6. Where(WasSent)' = Where(WasSent) \cup ({Head(hand[f])} \ {Refresh})
    BY <1>2, <2>2, <2>5
  <2> HIDE DEF Where, Place, Calm, Vals
  <2> QED
    BY <1>0, <1>1, <1>3, <2>1, <2>3, <2>4, <2>6, HeadMoves
<1> QED
  BY <1>4, <1>5, <1>6, <1>7 DEF PlaceInv

LEMMA AppendKeeps == ASSUME PlaceInv, NEW w \in Writers, AppendItem(w) PROVE PlaceInv'
<1>0. PlaceTypes /\ Stamped /\ Switches /\ AllOnce /\ PlacesInv /\ pc[w] = "append"
      /\ UNCHANGED <<now, accepted, queue, enabled, stats, clearing, switches, popped, sent, log>>
      /\ stamp' = [stamp EXCEPT ![w] = 0]
  BY DEF PlaceInv, AppendItem, manager, flags, history
<1>1. pc[w] \in Holding /\ "enqueue" \in Holding /\ Rest(w) \in ActorPC \ Holding
  BY <1>0 DEF Holding, Busy, Rest, ActorPC, DispatcherPC
<1>2. hand' = [hand EXCEPT ![w] = Tail(@)] /\ Goes(w, IF Len(hand[w]) > 1 THEN "enqueue" ELSE Rest(w))
  BY DEF AppendItem, HandDone
<1>3. /\ pc' \in [Actors -> ActorPC] /\ hand' \in [Writers -> Seq(Rec)]
      /\ \A v \in Writers : pc'[v] \in Holding <=> hand'[v] # << >>
      /\ \A v \in Writers : Once(hand'[v])
      /\ \A v \in Writers : v # w => hand'[v] = hand[v]
      /\ \A v \in Actors : v # w => pc'[v] = pc[v]
      /\ Vals(hand'[w]) = Vals(hand[w]) \ {Head(hand[w])}
      /\ {Head(hand[w])} \ {Refresh} \subseteq Vals(hand[w])
      /\ Head(hand[w]) \in Rec
      /\ pc'[w] \in {"enqueue", Rest(w)}
  BY <1>0, <1>1, <1>2, HeadDone
<1>4. PICK h, t : h = Head(hand[w]) /\ t = stamp[w]
  OBVIOUS
<1>5. t \in Nat /\ t > 0 /\ t <= now /\ now \in Nat /\ h \in Rec
  BY <1>0, <1>3, <1>4, DispatcherApart DEF PlaceTypes, Stamped
<1>6. items \in Seq(Item) /\ Once(Records(items)) /\ Len(items) \in Nat
  BY <1>0, LenProperties DEF PlaceTypes, AllOnce
<1>7. PICK k \in 0 .. Len(items) :
        /\ Pruned(t) = SubSeq(items, k + 1, Len(items))
        /\ \A i \in 1 .. k : StaleAt(t, i)
  BY <1>5, <1>6, PrunedIsSuffix
<1>8. PICK y, o : y = SubSeq(items, k + 1, Len(items)) /\ o = << >>
  OBVIOUS
<1>9. o \in Seq(Rec) /\ Len(o) = k - k /\ Vals(o) = {} /\ 1 .. k - k = {}
  BY <1>7, <1>8, EmptySeq DEF Vals
<1>10. /\ y \in Seq(Item) /\ Once(Records(y))
       /\ \A i \in 1 .. Len(y) : \E j \in 1 .. Len(items) : y[i] = items[j]
       /\ Vals(Records(y)) \subseteq Vals(Records(items))
       /\ k = 0 => Vals(Records(items)) \subseteq Vals(Records(y))
  <2>1. /\ y \in Seq(Item) /\ Once(Records(y))
        /\ \A i \in 1 .. Len(y) : \E j \in 1 .. Len(items) : y[i] = items[j]
        /\ Vals(Records(y)) \subseteq Vals(Records(items)) \ Vals(o)
        /\ k = 0 => Vals(Records(items)) \subseteq Vals(o) \cup Vals(Records(y))
    <3> HIDE DEF Vals, Once, Rec
    <3>1. PICK e : e = k
      OBVIOUS
    <3>2. Taken(k, e, o, y)
      BY <1>6, <1>7, <1>8, <1>9, <3>1 DEF Taken
    <3> QED
      BY <3>2, TakeVals
  <2> HIDE DEF Vals, Once
  <2> QED
    BY <1>9, <2>1
<1>11. PICK x, r : x = [rec |-> h, at |-> t] /\ r = Append(y, x)
  OBVIOUS
<1>12. x \in Item /\ x.rec = h /\ x.at = t
  BY <1>5, <1>11 DEF Item
<1>13. items' = r
  BY <1>4, <1>7, <1>8, <1>11 DEF AppendItem
<1>14. /\ r \in Seq(Item) /\ Len(r) = Len(y) + 1 /\ Len(y) \in Nat /\ r[Len(y) + 1] = x
       /\ \A i \in 1 .. Len(y) : r[i] = y[i]
  BY <1>10, <1>11, <1>12, AppendProperties, LenProperties
<1>15. /\ w \in Place /\ InItems \in Place /\ InItems \notin Writers /\ w # InItems
       /\ Where(w) = Vals(hand[w]) /\ Where(InItems) = Vals(Records(items))
  BY Places
<1>16. Once(Records(r)) /\ Vals(Records(r)) = Vals(Records(y)) \cup {h} /\ {h} \ {Refresh} = {h}
  <2>1. {h} \ {Refresh} = {h}
    BY <1>5 DEF Refresh
  <2>2. Records(y) \in Seq(Rec) /\ Records(r) = Append(Records(y), h)
    BY <1>10, <1>11, <1>12, RecordsSeq, RecordsAppend
  <2>3. h \notin Vals(Records(y))
    <3>1. Where(w) \cap Where(InItems) = {}
      BY <1>0, <1>15 DEF PlacesInv, Apart
    <3> HIDE DEF Vals, Where, Once
    <3>2. h \in Where(w)
      BY <1>3, <1>4, <1>15, <2>1
    <3> QED
      BY <1>10, <1>15, <3>1, <3>2
  <2>4. PICK q : q = Records(y)
    OBVIOUS
  <2>5. Once(Append(q, h)) /\ Vals(Append(q, h)) = Vals(q) \cup ({h} \ {Refresh})
    <3> HIDE DEF Vals, Once
    <3>1. PICK S : S = Rec
      OBVIOUS
    <3>2. q \in Seq(S) /\ h \in S /\ h \notin Vals(q) /\ Once(q)
      BY <1>5, <1>10, <2>2, <2>3, <2>4, <3>1
    <3> QED
      BY <3>2, AppendVals
  <2> HIDE DEF Vals, Once
  <2> QED
    BY <2>1, <2>2, <2>4, <2>5
<1>17. PlaceTypes' /\ Switches'
  <2>1. stamp' \in [Actors -> Nat]
    BY <1>0 DEF PlaceTypes
  <2> QED
    BY <1>0, <1>3, <1>13, <1>14, <2>1 DEF PlaceTypes, Switches
<1>18. Stamped'
  <2>1. ASSUME NEW v \in Actors, pc'[v] \in {"append", "pop"} PROVE stamp'[v] \in 1 .. now'
    <3>1. v # w
      BY <1>3, <2>1 DEF Rest
    <3>2. pc[v] \in {"append", "pop"} /\ stamp'[v] = stamp[v] /\ now' = now
      BY <1>0, <1>3, <2>1, <3>1 DEF PlaceTypes
    <3> QED
      BY <1>0, <3>2 DEF Stamped
  <2>2. ASSUME NEW i \in 1 .. Len(r) PROVE r[i].at > 0
    <3>1. CASE i = Len(y) + 1
      BY <1>5, <1>12, <1>14, <3>1
    <3>2. CASE i \in 1 .. Len(y)
      <4>1. PICK j \in 1 .. Len(items) : y[i] = items[j]
        BY <1>10, <3>2
      <4> QED
        BY <1>0, <1>14, <3>2, <4>1 DEF Stamped
    <3> QED
      BY <1>14, <3>1, <3>2
  <2> QED
    BY <1>13, <2>1, <2>2 DEF Stamped
<1>19. AllOnce'
  <2> HIDE DEF Once
  <2> QED
    BY <1>0, <1>3, <1>13, <1>16 DEF AllOnce, Records
<1>20. PlacesInv'
  <2>1. Calm' => Calm
    BY <1>0 DEF Calm
  <2>2. ASSUME Calm PROVE k = 0
    <3> SUFFICES ASSUME k # 0 PROVE FALSE
      OBVIOUS
    <3>1. 1 \in 1 .. k /\ 1 \in 1 .. Len(items)
      BY <1>6, <1>7
    <3>2. items[1].at + Retention < t
      BY <1>7, <3>1 DEF StaleAt
    <3>3. items[1].at \in Nat /\ items[1].at > 0
      <4>1. items[1] \in Item
        BY <1>6, <3>1, ElementOfSeq
      <4> QED
        BY <1>0, <3>1, <4>1 DEF Stamped, Item
    <3> QED
      BY <1>5, <2>2, <3>2, <3>3, UsageBounds, SMTT(30) DEF Calm
  <2> HIDE DEF Vals, Once
  <2>3. Where(InItems)' = Vals(Records(r))
    <3>1. Records(items)' = Records(r)
      BY <1>13 DEF Records
    <3> QED
      BY <1>15, <3>1 DEF Where, InItems, InQueue
  <2>4. \A p \in Place \ Writers : p # InItems => Where(p)' = Where(p)
    BY <1>0 DEF Where, Place
  <2> HIDE DEF Where, Place, Calm
  <2>5. Where(InItems)' \subseteq Where(InItems) \cup {h} /\ {h} \subseteq Where(InItems)'
    BY <1>10, <1>15, <1>16, <2>3
  <2>6. Calm' => Where(InItems) \subseteq Where(InItems)'
    BY <1>10, <1>15, <1>16, <2>1, <2>2, <2>3
  <2> QED
    BY <1>0, <1>3, <1>4, <1>15, <1>16, <2>1, <2>4, <2>5, <2>6, HeadMoves
<1> QED
  BY <1>17, <1>18, <1>19, <1>20 DEF PlaceInv

(* What a pop takes, and that a calm pop loses nothing.                     *)
LEMMA PopVals ==
  ASSUME PlaceInv, NEW t \in Nat, t <= now, NEW n \in Nat
  PROVE  /\ Oldest(t, n) \in Seq(Rec) /\ Once(Oldest(t, n))
         /\ Younger(t, n) \in Seq(Item) /\ Once(Records(Younger(t, n)))
         /\ \A i \in 1 .. Len(Younger(t, n)) : Younger(t, n)[i].at > 0
         /\ Vals(Oldest(t, n)) \subseteq Vals(Records(items))
         /\ Vals(Records(Younger(t, n))) \subseteq Vals(Records(items)) \ Vals(Oldest(t, n))
         /\ Calm => Vals(Records(items)) \subseteq Vals(Oldest(t, n)) \cup Vals(Records(Younger(t, n)))
<1>0. items \in Seq(Item) /\ Once(Records(items)) /\ now \in Nat /\ Len(items) \in Nat
  BY LenProperties DEF PlaceInv, PlaceTypes, AllOnce
<1>1. PICK o, y : o = Oldest(t, n) /\ y = Younger(t, n)
  OBVIOUS
<1>p. \E k, e \in 0 .. Len(items) :
        /\ k <= e
        /\ \A i \in 1 .. k : StaleAt(t, i)
        /\ \A i \in k + 1 .. Len(items) : \E j \in 1 .. i : ~StaleAt(t, j)
        /\ Oldest(t, n) \in Seq(Rec) /\ Len(Oldest(t, n)) = e - k
        /\ \A j \in 1 .. e - k : Oldest(t, n)[j] = items[k + j].rec
        /\ Younger(t, n) = SubSeq(items, e + 1, Len(items))
  BY <1>0, PopParts
<1>2. PICK k, e \in 0 .. Len(items) :
        /\ k <= e
        /\ \A i \in 1 .. k : StaleAt(t, i)
        /\ o \in Seq(Rec) /\ Len(o) = e - k
        /\ \A j \in 1 .. e - k : o[j] = items[k + j].rec
        /\ y = SubSeq(items, e + 1, Len(items))
  BY <1>1, <1>p
<1>3. Taken(k, e, o, y)
  <2> HIDE DEF Rec, Once
  <2> QED
    BY <1>0, <1>2 DEF Taken
<1>4. /\ y \in Seq(Item) /\ Once(o) /\ Once(Records(y))
      /\ \A i \in 1 .. Len(y) : \E j \in 1 .. Len(items) : y[i] = items[j]
      /\ Vals(o) \subseteq Vals(Records(items))
      /\ Vals(Records(y)) \subseteq Vals(Records(items)) \ Vals(o)
      /\ k = 0 => Vals(Records(items)) \subseteq Vals(o) \cup Vals(Records(y))
  <2> HIDE DEF Vals, Once
  <2> QED
    BY <1>3, TakeVals
<1>5. \A i \in 1 .. Len(y) : y[i].at > 0
  BY <1>4 DEF PlaceInv, Stamped
<1>6. ASSUME Calm PROVE k = 0
  <2> SUFFICES ASSUME k # 0 PROVE FALSE
    OBVIOUS
  <2>1. 1 \in 1 .. k /\ 1 \in 1 .. Len(items)
    BY <1>0, <1>2
  <2>2. items[1].at + Retention < t
    BY <1>2, <2>1 DEF StaleAt
  <2>3. items[1].at \in Nat /\ items[1].at > 0
    <3>1. items[1] \in Item
      BY <1>0, <2>1, ElementOfSeq
    <3> QED
      BY <2>1, <3>1 DEF PlaceInv, Stamped, Item
  <2> QED
    BY <1>0, <1>6, <2>2, <2>3, UsageBounds, SMTT(30) DEF Calm
<1> HIDE DEF Vals, Once
<1>7. Calm => Vals(Records(items)) \subseteq Vals(o) \cup Vals(Records(y))
  BY <1>4, <1>6
<1> QED
  BY <1>1, <1>2, <1>4, <1>5, <1>7

LEMMA PopKeeps ==
  ASSUME PlaceInv, NEW c \in Callers, NEW n \in 1 .. Batch, CallerPops(c, n) PROVE PlaceInv'
<1>0. PlaceTypes /\ Stamped /\ Switches /\ AllOnce /\ PlacesInv
      /\ UNCHANGED <<now, accepted, queue, hand, enabled, stats, clearing, switches, sent, log>>
      /\ pc[c] = "pop" /\ Goes(c, "poll") /\ stamp' = [stamp EXCEPT ![c] = 0]
  BY DEF PlaceInv, CallerPops, manager, flags
<1>t. PICK t : t = stamp[c]
  OBVIOUS
<1>u. t \in Nat /\ t <= now
  BY <1>0, <1>t, DispatcherApart DEF PlaceTypes, Stamped
<1>p. /\ pc' \in [Actors -> ActorPC] /\ stamp' \in [Actors -> Nat] /\ pc'[c] = "poll"
      /\ \A v \in Actors : v # c => pc'[v] = pc[v] /\ stamp'[v] = stamp[v]
      /\ \A v \in Writers : pc'[v] = pc[v]
  BY <1>0, DispatcherApart DEF PlaceTypes, Goes, ActorPC
<1>1. PICK o, y : o = Oldest(t, n) /\ y = Younger(t, n)
  OBVIOUS
<1>2. popped' = popped \o o /\ items' = y
  BY <1>1, <1>t DEF CallerPops
<1>3. /\ o \in Seq(Rec) /\ Once(o) /\ y \in Seq(Item) /\ Once(Records(y))
      /\ \A i \in 1 .. Len(y) : y[i].at > 0
      /\ Vals(o) \subseteq Vals(Records(items))
      /\ Vals(Records(y)) \subseteq Vals(Records(items)) \ Vals(o)
      /\ Calm => Vals(Records(items)) \subseteq Vals(o) \cup Vals(Records(y))
  <2>1. n \in Nat
    BY UsageBounds
  <2> HIDE DEF Vals, Once, Calm
  <2> QED
    BY <1>1, <1>u, <2>1, PopVals
<1>4. /\ InItems \in Place /\ WasPopped \in Place /\ InItems # WasPopped
      /\ InItems \notin Writers /\ WasPopped \notin Writers
      /\ Where(InItems) = Vals(Records(items)) /\ Where(WasPopped) = Vals(popped)
  BY Places DEF InItems, WasPopped
<1>5. popped \o o \in Seq(Rec) /\ Once(popped \o o) /\ Vals(popped \o o) = Vals(popped) \cup Vals(o)
  <2>1. Where(InItems) \cap Where(WasPopped) = {}
    BY <1>0, <1>4 DEF PlacesInv, Apart
  <2> HIDE DEF Vals, Once, Where
  <2>2. Vals(popped) \cap Vals(o) = {}
    BY <1>3, <1>4, <2>1
  <2>3. popped \in Seq(Rec) /\ Once(popped)
    BY <1>0 DEF PlaceTypes, AllOnce
  <2> HIDE DEF Rec
  <2> QED
    BY <1>3, <2>2, <2>3, ConcatVals
<1>6. PICK s : s = popped \o o
  OBVIOUS
<1>7. PlaceTypes' /\ Stamped' /\ Switches'
  <2>1. PlaceTypes'
    BY <1>0, <1>2, <1>3, <1>5, <1>6, <1>p DEF PlaceTypes
  <2>2. Stamped' /\ Switches'
    BY <1>0, <1>2, <1>3, <1>p DEF Stamped, Switches
  <2> QED
    BY <2>1, <2>2
<1>8. AllOnce'
  <2>1. Records(items)' = Records(y)
    BY <1>2 DEF Records
  <2> HIDE DEF Once
  <2> QED
    BY <1>0, <1>2, <1>3, <1>5, <2>1 DEF AllOnce
<1>9. PlacesInv'
  <2> HIDE DEF Vals, Once
  <2>1. Where(InItems)' = Vals(Records(y))
    <3>1. Records(items)' = Records(y)
      BY <1>2 DEF Records
    <3> QED
      BY <1>4, <3>1 DEF Where, InItems, InQueue
  <2>2. Where(WasPopped)' = Vals(popped) \cup Vals(o)
    BY <1>2, <1>4, <1>5 DEF Where, InItems, InQueue, WasPopped
  <2>3. \A p \in Place : p # InItems /\ p # WasPopped => Where(p)' = Where(p)
    BY <1>0 DEF Where
  <2>4. Calm' <=> Calm
    BY <1>0 DEF Calm
  <2>5. PICK X : X = Vals(o)
    OBVIOUS
  <2> HIDE DEF Where, Place, Calm
  <2>6. /\ X \subseteq Where(InItems) /\ Where(InItems)' \subseteq Where(InItems) \ X
        /\ Where(WasPopped)' \subseteq Where(WasPopped) \cup X /\ X \subseteq Where(WasPopped)'
    BY <1>3, <1>4, <2>1, <2>2, <2>5
  <2>7. Calm => \A p \in Place : Where(p) \subseteq Where(p)' \cup X
    BY <1>3, <1>4, <2>1, <2>2, <2>3, <2>5
  <2> QED
    BY <1>0, <1>4, <2>3, <2>4, <2>6, <2>7, Moved
<1> QED
  BY <1>7, <1>8, <1>9 DEF PlaceInv

LEMMA PollKeeps == ASSUME PlaceInv, NEW f \in Forwarders, ForwarderPops(f) PROVE PlaceInv'
<1>0. PlaceTypes /\ Stamped /\ Switches /\ AllOnce /\ PlacesInv /\ pc[f] = "pop"
      /\ stamp' = [stamp EXCEPT ![f] = 0]
      /\ UNCHANGED <<now, accepted, queue, enabled, stats, clearing, switches, popped, sent, log>>
  BY DEF PlaceInv, ForwarderPops, manager, flags, history
<1>t. PICK t : t = stamp[f]
  OBVIOUS
<1>u. t \in Nat /\ t <= now
  BY <1>0, <1>t, DispatcherApart DEF PlaceTypes, Stamped
<1>1. PICK o, y : o = Oldest(t, Batch) /\ y = Younger(t, Batch)
  OBVIOUS
<1>2. hand' = [hand EXCEPT ![f] = o] /\ items' = y /\ Goes(f, IF hand'[f] = << >> THEN "poll" ELSE "push")
  BY <1>1, <1>t DEF ForwarderPops
<1>3. /\ o \in Seq(Rec) /\ Once(o) /\ y \in Seq(Item) /\ Once(Records(y))
      /\ \A i \in 1 .. Len(y) : y[i].at > 0
      /\ Vals(o) \subseteq Vals(Records(items))
      /\ Vals(Records(y)) \subseteq Vals(Records(items)) \ Vals(o)
      /\ Calm => Vals(Records(items)) \subseteq Vals(o) \cup Vals(Records(y))
  <2>1. Batch \in Nat
    BY UsageBounds
  <2> HIDE DEF Vals, Once, Calm
  <2> QED
    BY <1>1, <1>u, <2>1, PopVals
<1>4. /\ f \in Writers /\ f \in Place /\ InItems \in Place /\ InItems # f /\ InItems \notin Writers
      /\ Where(InItems) = Vals(Records(items)) /\ Where(f) = Vals(hand[f])
  BY Places, DispatcherApart
<1>5. hand[f] = << >> /\ Vals(hand[f]) = {}
  <2>1. hand[f] = << >>
    BY <1>0, <1>4 DEF PlaceTypes, Holding, Busy
  <2>2. Vals(<< >>) = {}
    BY EmptySeq DEF Vals
  <2> QED
    BY <2>1, <2>2
<1>6. hand' \in [Writers -> Seq(Rec)] /\ hand'[f] = o /\ \A v \in Writers : v # f => hand'[v] = hand[v]
  BY <1>0, <1>2, <1>3, <1>4 DEF PlaceTypes
<1>7. PICK to : to = IF o = << >> THEN "poll" ELSE "push"
  OBVIOUS
<1>8. /\ pc' \in [Actors -> ActorPC] /\ pc'[f] = to /\ (to \in Holding <=> o # << >>) /\ to \notin {"append", "pop"}
      /\ \A v \in Actors : v # f => pc'[v] = pc[v] /\ stamp'[v] = stamp[v]
      /\ stamp' \in [Actors -> Nat]
  BY <1>0, <1>2, <1>4, <1>6, <1>7, DispatcherApart DEF PlaceTypes, Goes, ActorPC, Holding, Busy
<1>9. PlaceTypes'
  <2>1. \A v \in Writers : pc'[v] \in Holding <=> hand'[v] # << >>
    BY <1>0, <1>6, <1>8, DispatcherApart DEF PlaceTypes
  <2> QED
    BY <1>0, <1>2, <1>3, <1>6, <1>8, <2>1 DEF PlaceTypes
<1>10. Stamped' /\ Switches'
  BY <1>0, <1>2, <1>3, <1>8 DEF Stamped, Switches
<1>11. AllOnce'
  <2>1. Records(items)' = Records(y)
    BY <1>2 DEF Records
  <2> HIDE DEF Once
  <2> QED
    BY <1>0, <1>3, <1>6, <2>1 DEF AllOnce
<1>12. PlacesInv'
  <2> HIDE DEF Vals, Once
  <2>1. Where(InItems)' = Vals(Records(y))
    <3>1. Records(items)' = Records(y)
      BY <1>2 DEF Records
    <3> QED
      BY <1>4, <3>1 DEF Where, InItems, InQueue
  <2>2. Where(f)' = Vals(o)
    BY <1>4, <1>6 DEF Where
  <2>3. \A p \in Place : p # InItems /\ p # f => Where(p)' = Where(p)
    BY <1>0, <1>6 DEF Where
  <2>4. Calm' <=> Calm
    BY <1>0 DEF Calm
  <2>5. PICK X : X = Vals(o)
    OBVIOUS
  <2> HIDE DEF Where, Place, Calm
  <2>6. /\ X \subseteq Where(InItems) /\ Where(InItems)' \subseteq Where(InItems) \ X
        /\ Where(f)' \subseteq Where(f) \cup X /\ X \subseteq Where(f)'
    BY <1>3, <1>4, <2>1, <2>2, <2>5
  <2>7. Calm => \A p \in Place : Where(p) \subseteq Where(p)' \cup X
    BY <1>3, <1>4, <1>5, <2>1, <2>3, <2>5
  <2> QED
    BY <1>0, <1>4, <2>3, <2>4, <2>6, <2>7, Moved
<1> QED
  BY <1>9, <1>10, <1>11, <1>12 DEF PlaceInv

LEMMA ClearKeeps == ASSUME PlaceInv, Clear PROVE PlaceInv'
<1>0. PlaceTypes /\ Stamped /\ Switches /\ AllOnce /\ PlacesInv /\ clearing
      /\ items' = << >> /\ clearing' = FALSE
      /\ UNCHANGED <<now, accepted, queue, pc, hand, stamp, enabled, stats, switches, popped, sent, log>>
  BY DEF PlaceInv, Clear, manager, writing, history
<1>1. PICK y : y = << >>
  OBVIOUS
<1>2. y \in Seq(Item) /\ Len(y) = 0 /\ Once(Records(y)) /\ Vals(Records(y)) = {}
  <2>1. y \in Seq(Item) /\ Len(y) = 0
    BY <1>1, EmptySeq
  <2>2. DOMAIN Records(y) = 1 .. Len(y)
    BY <2>1, RecordsSeq
  <2>3. 1 .. Len(y) = {}
    BY <2>1
  <2> QED
    BY <2>1, <2>2, <2>3 DEF Once, Vals
<1>3. PlaceTypes' /\ Stamped' /\ Switches'
  BY <1>0, <1>1, <1>2 DEF PlaceTypes, Stamped, Switches
<1>4. Records(items)' = Records(y)
  BY <1>0, <1>1 DEF Records
<1>5. AllOnce'
  <2> HIDE DEF Once
  <2> QED
    BY <1>0, <1>2, <1>4 DEF AllOnce
<1>6. PlacesInv'
  <2>1. InItems \in Place /\ InQueue \in Place /\ InItems # InQueue
    BY Places DEF InItems, InQueue
  <2> HIDE DEF Vals, Once
  <2>2. \A p \in Place : Where(p)' \subseteq Where(p)
    BY <1>0, <1>2, <1>4 DEF Where
  <2>3. ~Calm'
    BY <1>0 DEF Calm, Switches
  <2>4. PICK X : X = {}
    OBVIOUS
  <2> HIDE DEF Where, Place, Calm
  <2>5. /\ X \subseteq Where(InItems) /\ Where(InItems)' \subseteq Where(InItems) \ X
        /\ Where(InQueue)' \subseteq Where(InQueue) \cup X
    BY <2>1, <2>2, <2>4
  <2> QED
    BY <1>0, <2>1, <2>2, <2>3, <2>5, Moved
<1> QED
  BY <1>3, <1>5, <1>6 DEF PlaceInv

(* A refresh notice is broadcast, but it is no record.                      *)
LEMMA NotifyKeeps == ASSUME PlaceInv, NotifyUsageRefresh PROVE PlaceInv'
<1>0. PlaceTypes /\ Stamped /\ Switches /\ AllOnce /\ PlacesInv /\ log' = Append(log, Refresh)
      /\ UNCHANGED <<now, accepted, queue, pc, hand, stamp, items, enabled, stats, clearing, switches, popped, sent>>
  BY DEF PlaceInv, NotifyUsageRefresh, Broadcast, manager, writing, flags
<1>1. PICK l, x : l = Append(log, x) /\ x = Refresh
  OBVIOUS
<1>2. l \in Seq(Nat) /\ Once(l) /\ Vals(l) = Vals(log)
  <2>1. log \in Seq(Nat) /\ x \in Nat /\ x \notin Vals(log) /\ Once(log) /\ {x} \ {Refresh} = {}
    BY <1>0, <1>1 DEF PlaceTypes, AllOnce, Vals, Refresh
  <2>2. l \in Seq(Nat) /\ Once(l) /\ Vals(l) = Vals(log) \cup ({x} \ {Refresh})
    BY <1>1, <2>1, AppendVals
  <2> QED
    BY <2>1, <2>2
<1>3. log' = l
  BY <1>0, <1>1
<1>4. PlaceTypes' /\ Stamped' /\ Switches'
  BY <1>0, <1>2, <1>3 DEF PlaceTypes, Stamped, Switches
<1> HIDE DEF Vals, Once
<1>5. AllOnce'
  BY <1>0, <1>2, <1>3 DEF AllOnce, Records
<1>6. \A p \in Place : Where(p)' = Where(p)
  BY <1>0, <1>2, <1>3 DEF Where, Records
<1>7. Calm' <=> Calm
  BY <1>0 DEF Calm
<1> HIDE DEF Where, Place, Calm
<1>8. PlacesInv'
  BY <1>0, <1>6, <1>7 DEF PlacesInv, Apart, InRange, Covered
<1> QED
  BY <1>4, <1>5, <1>8 DEF PlaceInv

(* The steps that touch neither a record nor a writer.                      *)
LEMMA PlaceFrame ==
  ASSUME PlaceInv, UNCHANGED <<accepted, hand, stamp, queue, popped, log, sent, items>>,
         \/ pc' = pc
         \/ pc[Dispatcher] = "parked" /\ pc' = [pc EXCEPT ![Dispatcher] = "run"],
         \/ now' = now
         \/ now' = now + 1,
         \/ UNCHANGED <<enabled, stats, clearing, switches>>
         \/ switches' = switches + 1
  PROVE  PlaceInv'
<1>0. PlaceTypes /\ Stamped /\ Switches
  BY DEF PlaceInv
<1>1. now \in Nat \ {0} /\ now' \in Nat \ {0} /\ now <= now'
  BY <1>0 DEF PlaceTypes
<1>2. Switches' /\ (switches' = 0 => switches = 0)
  BY <1>0 DEF Switches
<1>3. /\ pc' \in [Actors -> ActorPC]
      /\ \A w \in Actors : (pc'[w] \in Holding <=> pc[w] \in Holding) /\ (pc'[w] \in {"append", "pop"} => pc'[w] = pc[w])
  BY <1>0, DispatcherApart DEF PlaceTypes, ActorPC, DispatcherPC, Holding, Busy
<1>4. PlaceTypes'
  BY <1>0, <1>1, <1>3, DispatcherApart DEF PlaceTypes
<1>5. Stamped'
  <2>1. \A w \in Actors : stamp[w] \in 1 .. now => stamp[w] \in 1 .. now'
    BY <1>0, <1>1 DEF PlaceTypes
  <2> QED
    BY <1>0, <1>3, <2>1 DEF Stamped
<1>6. Calm' => Calm
  BY <1>1, <1>2, UsageBounds DEF Calm
<1>7. PlacesInv' /\ AllOnce'
  BY <1>6, NoMove
<1> QED
  BY <1>2, <1>4, <1>5, <1>7 DEF PlaceInv

LEMMA ClockKeeps == ASSUME PlaceInv, NEW w \in Actors, ReadClock(w) PROVE PlaceInv'
<1>1. PICK to : to = IF pc[w] = "clock" THEN "append" ELSE "pop"
  OBVIOUS
<1>2. /\ to \in ActorPC /\ (to \in Holding <=> pc[w] \in Holding) /\ Goes(w, to)
      /\ stamp' = [stamp EXCEPT ![w] = now]
      /\ UNCHANGED <<now, accepted, hand, queue, enabled, stats, clearing, switches, items, popped, sent, log>>
  BY <1>1 DEF ReadClock, ActorPC, DispatcherPC, Holding, Busy, manager, flags, history
<1> QED
  BY <1>2, ActorGoes

LEMMA AskKeeps == ASSUME PlaceInv, NEW w \in Actors, PopOldest(w) PROVE PlaceInv'
<1>1. /\ "asked" \in ActorPC /\ ("asked" \in Holding <=> pc[w] \in Holding) /\ Goes(w, "asked") /\ stamp' = stamp
      /\ UNCHANGED <<now, accepted, hand, queue, enabled, stats, clearing, switches, items, popped, sent, log>>
  BY DEF PopOldest, ActorPC, Holding, Busy, manager, flags, history
<1> QED
  BY <1>1, ActorGoes

LEMMA WriterKeeps == ASSUME PlaceInv, NEW w \in Writers, Writing(w) PROVE PlaceInv'
<1>1. CASE Enqueue(w)
  <2>0. /\ pc[w] \in Busy /\ pc[w] \in Holding /\ "publish" \in Holding
        /\ UNCHANGED <<now, accepted, queue, stamp, enabled, stats, clearing, switches, items, popped, sent, log>>
    BY <1>1 DEF Enqueue, Busy, Holding, manager, flags, history
  <2>1. CASE enabled
    BY <1>1, <2>0, <2>1, GoesOn DEF Enqueue
  <2>2. CASE ~enabled
    BY <1>1, <2>0, <2>2, HandLost DEF Enqueue
  <2> QED
    BY <2>1, <2>2
<1>2. CASE ReadClock(w)
  BY <1>2, ClockKeeps, DispatcherApart
<1> QED
  BY <1>1, <1>2, BroadcastKeeps, AppendKeeps DEF Writing

LEMMA NextPlaces == PlaceInv /\ [Next]_vars => PlaceInv'
<1> SUFFICES ASSUME PlaceInv, [Next]_vars PROVE PlaceInv'
  OBVIOUS
<1>1. CASE Publish
  BY <1>1, PublishKeeps
<1>2. CASE Stop \/ Wake
  BY <1>2, PlaceFrame DEF Stop, Wake, writing, flags, history
<1>3. CASE Run
  BY <1>3, RunKeeps
<1>4. CASE HandleUsage
  <2>0. /\ pc[Dispatcher] \in Busy /\ pc[Dispatcher] \in Holding /\ "enqueue" \in Holding /\ Dispatcher \in Writers
        /\ UNCHANGED <<now, accepted, queue, stamp, enabled, stats, clearing, switches, items, popped, sent, log>>
    BY <1>4, DispatcherApart DEF HandleUsage, Busy, Holding, manager, flags, history
  <2>1. CASE enabled /\ stats
    BY <1>4, <2>0, <2>1, GoesOn DEF HandleUsage
  <2>2. CASE ~(enabled /\ stats)
    BY <1>4, <2>0, <2>2, HandLost DEF HandleUsage
  <2> QED
    BY <2>1, <2>2
<1>5. CASE Writing(Dispatcher)
  BY <1>5, WriterKeeps, DispatcherApart
<1>6. ASSUME NEW c \in Callers, Calling(c) PROVE PlaceInv'
  BY <1>6, AskKeeps, ClockKeeps, PopKeeps, DispatcherApart DEF Calling
<1>7. ASSUME NEW f \in Forwarders, Forwarding(f) \/ LPushOK(f) \/ LPushUnanswered(f) PROVE PlaceInv'
  <2>1. CASE LPushFails(f) \/ LPushUnanswered(f)
    <3>0. f \in Writers /\ pc[f] \in Holding /\ "enqueue" \in Holding
          /\ UNCHANGED <<now, accepted, queue, stamp, enabled, stats, clearing, switches, items, popped, sent, log>>
      BY <2>1, DispatcherApart DEF LPushFails, LPushUnanswered, GivesBack, Busy, Holding, manager, flags, history
    <3>1. hand \in [Writers -> Seq(Rec)] /\ hand[f] # << >>
      BY <3>0 DEF PlaceInv, PlaceTypes
    <3>2. hand' = hand
      BY <2>1, <3>1 DEF LPushFails, LPushUnanswered, GivesBack, GivenBack
    <3>3. Goes(f, "enqueue")
      BY <2>1, <3>1, <3>2 DEF LPushFails, LPushUnanswered, GivesBack
    <3> QED
      BY <3>0, <3>2, <3>3, GoesOn
  <2>2. CASE PopOldest(f) \/ ForwarderPops(f)
    BY <2>2, AskKeeps, PollKeeps, DispatcherApart
  <2>3. CASE Writing(f)
    BY <2>3, WriterKeeps, DispatcherApart
  <2>4. CASE LPushOK(f)
    BY <2>4, PushKeeps
  <2> QED
    BY <1>7, <2>1, <2>2, <2>3, <2>4 DEF Forwarding
<1>8. ASSUME NEW s \in Subscribers, Subscribe(s) \/ Receive(s) \/ Leave(s) \/ Close(s) PROVE PlaceInv'
  BY <1>8, PlaceFrame DEF Subscribe, Receive, Leave, Close, manager, writing, flags, history
<1>9. CASE NotifyUsageRefresh
  BY <1>9, NotifyKeeps
<1>10. CASE Clear
  BY <1>10, ClearKeeps
<1>11. CASE SetEnabled \/ SetUsageStatisticsEnabled \/ NextLifetime \/ Tick
  BY <1>11, PlaceFrame DEF SetEnabled, SetUsageStatisticsEnabled, Switch, NextLifetime, Tick, manager, writing, flags, history
<1>12. CASE UNCHANGED vars
  BY <1>12, PlaceFrame DEF vars, manager, writing, flags, history
<1> QED
  BY <1>1, <1>2, <1>3, <1>4, <1>5, <1>6, <1>7, <1>8, <1>9, <1>10, <1>11, <1>12 DEF Next, Dispatching

LEMMA InitPlaces == Init => PlaceInv
<1> SUFFICES ASSUME Init PROVE PlaceInv
  OBVIOUS
<1>1. PICK e : e = << >>
  OBVIOUS
<1>2. \A S : e \in Seq(S)
  BY <1>1, EmptySeq
<1>3. Len(e) = 0 /\ DOMAIN e = {}
  BY <1>1, EmptySeq
<1>4. Once(e) /\ Vals(e) = {}
  BY <1>3 DEF Once, Vals
<1>5. Once(Records(e)) /\ Vals(Records(e)) = {}
  <2>1. e \in Seq(Item)
    BY <1>2
  <2>2. DOMAIN Records(e) = 1 .. Len(e)
    BY <2>1, RecordsSeq
  <2>3. 1 .. Len(e) = {}
    BY <1>3
  <2> QED
    BY <2>2, <2>3 DEF Once, Vals
<1>6. /\ queue = e /\ items = e /\ popped = e /\ log = e /\ sent = {} /\ hand = [w \in Writers |-> e]
      /\ now = 1 /\ accepted = 0 /\ switches = 0 /\ enabled = TRUE /\ stats = TRUE /\ clearing = FALSE
      /\ stamp = [w \in Actors |-> 0] /\ pc = [w \in Actors |-> Rest(w)]
  BY <1>1 DEF Init
<1>7. PlaceTypes
  BY DispatcherApart, <1>1, <1>2, <1>6 DEF PlaceTypes, Rest, ActorPC, DispatcherPC, Holding, Busy
<1>8. Stamped /\ Switches
  BY <1>3, <1>6 DEF Stamped, Switches, Rest
<1>9. AllOnce
  <2> HIDE DEF Once
  <2> QED
    BY <1>4, <1>5, <1>6 DEF AllOnce
<1>10. \A p \in Place : Where(p) = {}
  <2> HIDE DEF Vals
  <2> QED
    BY <1>4, <1>5, <1>6 DEF Where
<1>11. PlacesInv
  <2> HIDE DEF Where, Place, Calm
  <2> QED
    BY <1>6, <1>10 DEF PlacesInv, Apart, InRange, Covered
<1> QED
  BY <1>7, <1>8, <1>9, <1>11 DEF PlaceInv

(* A record stands in the place that has it, and there only once.           *)
LEMMA SpotIsPlace ==
  ASSUME NEW r \in Rec
  PROVE  /\ At(queue, r) # {} <=> r \in Vals(queue)
         /\ At(Records(items), r) # {} <=> r \in Vals(Records(items))
         /\ At(popped, r) # {} <=> r \in Vals(popped)
         /\ At(log, r) # {} <=> r \in Vals(log)
         /\ \A w \in Writers : At(hand[w], r) # {} <=> r \in Vals(hand[w])
  BY DEF At, Vals, Refresh

LEMMA AtMostOne ==
  ASSUME NEW q, NEW r \in Rec, Once(q)
  PROVE  \A i, j \in At(q, r) : i = j
  BY DEF Once, At, Refresh

(* The places with the broadcasts as the log has them, and with Home as it  *)
(* acknowledged.                                                            *)
LogSpots(r) ==
    ({"queue"} \X At(queue, r)) \cup ({"items"} \X At(Records(items), r))
    \cup (UNION {{"hand"} \X {w} \X At(hand[w], r) : w \in Writers})
    \cup ({"popped"} \X At(popped, r)) \cup ({"received"} \X At(log, r)) \cup ({"sent"} \X (sent \cap {r}))

LEMMA OneSpot ==
  ASSUME PlaceInv, NEW r \in 1 .. accepted
  PROVE  /\ \A s, t \in LogSpots(r) : s = t
         /\ Calm => LogSpots(r) # {}
<1>0. r \in Rec /\ AllOnce /\ PlacesInv
  BY DEF PlaceInv, PlaceTypes
<1>1. \A p, q \in Place : r \in Where(p) /\ r \in Where(q) => p = q
  <2> HIDE DEF Where, Place
  <2> QED
    BY <1>0 DEF PlacesInv, Apart
<1>2. PICK Q, I, P, L : Q = At(queue, r) /\ I = At(Records(items), r) /\ P = At(popped, r) /\ L = At(log, r)
  OBVIOUS
<1>3. PICK H : H = [w \in Writers |-> At(hand[w], r)]
  OBVIOUS
<1>4. /\ \A i, j \in Q : i = j
      /\ \A i, j \in I : i = j
      /\ \A i, j \in P : i = j
      /\ \A i, j \in L : i = j
      /\ \A w \in Writers : \A i, j \in H[w] : i = j
  <2> HIDE DEF Once, At
  <2> QED
    BY <1>0, <1>2, <1>3, AtMostOne DEF AllOnce
<1>5. /\ Q # {} <=> r \in Where(InQueue)
      /\ I # {} <=> r \in Where(InItems)
      /\ P # {} <=> r \in Where(WasPopped)
      /\ L # {} <=> r \in Where(WasBroadcast)
      /\ r \in sent <=> r \in Where(WasSent)
      /\ \A w \in Writers : H[w] # {} <=> r \in Where(w)
  <2> HIDE DEF At, Vals, Where
  <2> QED
    BY <1>0, <1>2, <1>3, SpotIsPlace, Places
<1>6. PICK sq, si, sp, sl, ss :
        /\ sq = {"queue"} \X Q /\ si = {"items"} \X I /\ sp = {"popped"} \X P /\ sl = {"received"} \X L
        /\ ss = {"sent"} \X (sent \cap {r})
  OBVIOUS
<1>7. PICK sh : sh = [w \in Writers |-> {"hand"} \X {w} \X H[w]]
  OBVIOUS
<1>8. LogSpots(r) = sq \cup si \cup (UNION {sh[w] : w \in Writers}) \cup sp \cup sl \cup ss
  <2>1. UNION {sh[w] : w \in Writers} = UNION {{"hand"} \X {w} \X H[w] : w \in Writers}
    <3>1. \A w \in Writers : sh[w] = {"hand"} \X {w} \X H[w]
      BY <1>7
    <3>2. {sh[w] : w \in Writers} = {{"hand"} \X {w} \X H[w] : w \in Writers}
      BY <3>1
    <3> QED
      BY <3>2, Zenon
  <2>2. \A w \in Writers : {"hand"} \X {w} \X H[w] = {"hand"} \X {w} \X At(hand[w], r)
    BY <1>3
  <2>3. UNION {{"hand"} \X {w} \X H[w] : w \in Writers} = UNION {{"hand"} \X {w} \X At(hand[w], r) : w \in Writers}
    BY <2>2
  <2>4. PICK U : U = UNION {{"hand"} \X {w} \X At(hand[w], r) : w \in Writers}
    OBVIOUS
  <2>5. LogSpots(r) = ({"queue"} \X At(queue, r)) \cup ({"items"} \X At(Records(items), r)) \cup U
                   \cup ({"popped"} \X At(popped, r)) \cup ({"received"} \X At(log, r))
                   \cup ({"sent"} \X (sent \cap {r}))
    BY <2>4, Zenon DEF LogSpots
  <2>6. LogSpots(r) = sq \cup si \cup U \cup sp \cup sl \cup ss
    BY <1>2, <1>6, <2>5
  <2> QED
    BY <2>1, <2>3, <2>4, <2>6
<1> DEFINE from(p) ==
      IF p \in Writers THEN sh[p]
      ELSE IF p = InQueue THEN sq
      ELSE IF p = InItems THEN si
      ELSE IF p = WasPopped THEN sp
      ELSE IF p = WasBroadcast THEN sl ELSE ss
<1>9. \A s : s \in LogSpots(r) <=> \E p \in Place : s \in from(p)
  <2>1. PICK U : U = UNION {sh[w] : w \in Writers}
    OBVIOUS
  <2>2. \A s : s \in U <=> \E w \in Writers : s \in sh[w]
    BY <2>1
  <2>3. LogSpots(r) = sq \cup si \cup U \cup sp \cup sl \cup ss
    BY <1>8, <2>1
  <2>4. /\ from(InQueue) = sq /\ from(InItems) = si /\ from(WasPopped) = sp
        /\ from(WasBroadcast) = sl /\ from(WasSent) = ss /\ \A w \in Writers : from(w) = sh[w]
    BY Places DEF InQueue, InItems, WasPopped, WasBroadcast, WasSent
  <2> HIDE DEF from
  <2>5. ASSUME NEW s PROVE s \in LogSpots(r) <=> \E p \in Place : s \in from(p)
    <3>1. s \in LogSpots(r) <=> \/ s \in from(InQueue) \/ s \in from(InItems) \/ s \in from(WasPopped)
                             \/ s \in from(WasBroadcast) \/ s \in from(WasSent)
                             \/ \E w \in Writers : s \in from(w)
      BY <2>2, <2>3, <2>4
    <3> QED
      BY <3>1, Zenon DEF Place
  <2> QED
    BY <2>5
<1>p. \A c : \A S : {c} \X S # {} <=> S # {}
  <2> SUFFICES ASSUME NEW c, NEW S PROVE {c} \X S # {} <=> S # {}
    OBVIOUS
  <2>1. ASSUME NEW x \in S PROVE <<c, x>> \in {c} \X S
    OBVIOUS
  <2>2. ASSUME NEW z \in {c} \X S PROVE z[2] \in S
    OBVIOUS
  <2> QED
    BY <2>1, <2>2
<1>q. /\ sq # {} <=> Q # {}
      /\ si # {} <=> I # {}
      /\ sp # {} <=> P # {}
      /\ sl # {} <=> L # {}
      /\ ss # {} <=> r \in sent
  <2>1. sent \cap {r} # {} <=> r \in sent
    OBVIOUS
  <2>2. {"sent"} \X (sent \cap {r}) # {} <=> sent \cap {r} # {}
    BY <1>p
  <2>3. /\ {"queue"} \X Q # {} <=> Q # {}
        /\ {"items"} \X I # {} <=> I # {}
        /\ {"popped"} \X P # {} <=> P # {}
        /\ {"received"} \X L # {} <=> L # {}
    BY <1>p
  <2> QED
    BY <1>6, <2>1, <2>2, <2>3
<1>h. ASSUME NEW w \in Writers PROVE sh[w] # {} <=> H[w] # {}
  <2>1. PICK S : S = H[w]
    OBVIOUS
  <2>2. sh[w] = {"hand"} \X {w} \X S
    BY <1>7, <2>1
  <2>3. ASSUME NEW x \in S PROVE <<"hand", w, x>> \in {"hand"} \X {w} \X S
    OBVIOUS
  <2>4. ASSUME NEW z \in {"hand"} \X {w} \X S PROVE z[3] \in S
    OBVIOUS
  <2> QED
    BY <2>1, <2>2, <2>3, <2>4
<1>10. \A p \in Place : from(p) # {} <=> r \in Where(p)
  <2> HIDE DEF Where
  <2> QED
    BY <1>5, <1>q, <1>h, Places DEF Place, InQueue, InItems, WasPopped, WasBroadcast, WasSent
<1>11. \A p \in Place : \A s, t \in from(p) : s = t
  <2>1. \A w \in Writers : \A s, t \in sh[w] : s = t
    <3> SUFFICES ASSUME NEW w \in Writers, NEW s \in sh[w], NEW t \in sh[w] PROVE s = t
      OBVIOUS
    <3>1. s \in {"hand"} \X {w} \X H[w] /\ t \in {"hand"} \X {w} \X H[w]
      BY <1>7
    <3> QED
      BY <1>4, <3>1
  <2>2. (\A s, t \in sq : s = t) /\ (\A s, t \in si : s = t) /\ (\A s, t \in sp : s = t)
        /\ (\A s, t \in sl : s = t) /\ (\A s, t \in ss : s = t)
    BY <1>4, <1>6
  <2> QED
    BY <2>1, <2>2
<1> HIDE DEF from
<1> HIDE DEF Where, Place, Calm
<1>12. \A s, t \in LogSpots(r) : s = t
  BY <1>1, <1>9, <1>10, <1>11
<1>13. Calm => LogSpots(r) # {}
  BY <1>0, <1>9, <1>10 DEF PlacesInv, Covered
<1> QED
  BY <1>12, <1>13

-----------------------------------------------------------------------------
(* Every payload that was broadcast reached a channel or met a full one.    *)
Told(c, x) == x \in c.missed \/ \E k \in 1 .. Len(c.seen) : c.seen[k] = x
ToldInv == \A i \in 1 .. Len(log) : \E s \in Subscribers : Told(chan[s], log[i])

LEMMA DeliverTold ==
  ASSUME NEW c, NEW l, NEW p, ChanShape(c), SeenOK(c, l)
  PROVE  /\ \A x : Told(c, x) => Told(Deliver(c, p), x)
         /\ c.registered => Told(Deliver(c, p), p)
<1>1. CASE ~c.registered
  BY <1>1 DEF Deliver
<1>2. CASE c.registered /\ c.unread < Buffer
  <2>1. PICK d : d = [c EXCEPT !.seen = Append(@, p), !.unread = @ + 1]
    OBVIOUS
  <2>2. Deliver(c, p) = d /\ d.seen = Append(c.seen, p) /\ d.missed = c.missed
    BY <1>2, <2>1 DEF Deliver, ChanShape
  <2>3. AnySeq(c.seen)
    BY <1>2 DEF SeenOK
  <2>4. /\ Len(c.seen) \in Nat /\ Len(d.seen) = Len(c.seen) + 1 /\ d.seen[Len(c.seen) + 1] = p
        /\ \A i \in 1 .. Len(c.seen) : d.seen[i] = c.seen[i]
    BY <2>2, <2>3, AnyAppend
  <2>5. Len(d.seen) \in 1 .. Len(d.seen) /\ 1 .. Len(c.seen) \subseteq 1 .. Len(d.seen)
    BY <2>4
  <2> QED
    BY <2>2, <2>4, <2>5 DEF Told
<1>3. CASE c.registered /\ ~(c.unread < Buffer)
  <2>1. PICK d : d = [c EXCEPT !.registered = FALSE, !.closed = TRUE, !.missed = @ \cup {p}]
    OBVIOUS
  <2>2. Deliver(c, p) = d /\ d.seen = c.seen /\ d.missed = c.missed \cup {p}
    BY <1>3, <2>1 DEF Deliver, ChanShape
  <2> QED
    BY <2>2 DEF Told
<1> QED
  BY <1>1, <1>2, <1>3

LEMMA BroadcastTold ==
  ASSUME NEW p, ChanInv, SeenInv, ToldInv, Registered # {}, Broadcast(p)
  PROVE  ToldInv'
<1>1. chan' = [s \in Subscribers |-> Deliver(chan[s], p)] /\ log' = Append(log, p)
  BY DEF Broadcast
<1>2. ASSUME NEW s \in Subscribers
      PROVE  /\ \A x : Told(chan[s], x) => Told(chan'[s], x)
             /\ chan[s].registered => Told(chan'[s], p)
  <2>1. ChanShape(chan[s]) /\ SeenOK(chan[s], log) /\ chan'[s] = Deliver(chan[s], p)
    BY <1>1 DEF ChanInv, SeenInv
  <2>2. /\ \A x : Told(chan[s], x) => Told(Deliver(chan[s], p), x)
        /\ chan[s].registered => Told(Deliver(chan[s], p), p)
    BY <2>1, DeliverTold
  <2> QED
    BY <2>1, <2>2
<1> HIDE DEF Told
<1>3. /\ Len(log) \in Nat /\ Len(log') = Len(log) + 1 /\ log'[Len(log) + 1] = p
      /\ \A i \in 1 .. Len(log) : log'[i] = log[i]
  BY <1>1, AnyAppend DEF SeenInv
<1>4. PICK s \in Subscribers : chan[s].registered
  BY DEF Registered
<1>5. ASSUME NEW i \in 1 .. Len(log') PROVE \E t \in Subscribers : Told(chan'[t], log'[i])
  <2>1. CASE i = Len(log) + 1
    BY <1>2, <1>3, <1>4, <2>1
  <2>2. CASE i \in 1 .. Len(log)
    <3>1. PICK t \in Subscribers : Told(chan[t], log[i])
      BY <2>2 DEF ToldInv
    <3> QED
      BY <1>2, <1>3, <2>2, <3>1
  <2> QED
    BY <1>3, <2>1, <2>2
<1> QED
  BY <1>5 DEF ToldInv

(* No other step takes away what a subscriber was told.                     *)
LEMMA KeepsTold ==
  ASSUME ToldInv, log' = log, \A s \in Subscribers : \A x : Told(chan[s], x) => Told(chan'[s], x)
  PROVE  ToldInv'
<1> HIDE DEF Told
<1> QED
  BY DEF ToldInv

LEMMA NextTold == ChanInv /\ SeenInv /\ ToldInv /\ [Next]_vars => ToldInv'
<1> SUFFICES ASSUME ChanInv, SeenInv, ToldInv, [Next]_vars PROVE ToldInv'
  OBVIOUS
<1>0. ASSUME UNCHANGED <<chan, log>> PROVE ToldInv'
  BY <1>0 DEF ToldInv, Told
<1>s. ASSUME NEW s \in Subscribers, NEW d, chan' = [chan EXCEPT ![s] = d], log' = log,
             \A x : Told(chan[s], x) => Told(d, x)
      PROVE  ToldInv'
  <2> HIDE DEF Told
  <2>1. \A t \in Subscribers : \A x : Told(chan[t], x) => Told(chan'[t], x)
    BY <1>s DEF ChanInv
  <2> QED
    BY <1>s, <2>1, KeepsTold
<1> USE DEF history
<1>1. CASE Publish \/ Stop \/ Wake \/ Run \/ HandleUsage
  BY <1>0, <1>1 DEF Publish, Stop, Wake, Run, HandleUsage
<1>2. ASSUME NEW w \in Writers, Writing(w) PROVE ToldInv'
  <2>1. CASE Enqueue(w) \/ ReadClock(w) \/ AppendItem(w)
    BY <1>0, <2>1 DEF Enqueue, ReadClock, AppendItem
  <2>2. CASE PublishToSubscribers(w)
    BY <1>0, <2>2, BroadcastTold DEF PublishToSubscribers
  <2> QED
    BY <1>2, <2>1, <2>2 DEF Writing
<1>3. ASSUME NEW c \in Callers, Calling(c) PROVE ToldInv'
  BY <1>0, <1>3 DEF Calling, PopOldest, ReadClock, CallerPops
<1>4. ASSUME NEW f \in Forwarders, PopOldest(f) \/ ForwarderPops(f) \/ LPushFails(f) \/ LPushOK(f) \/ LPushUnanswered(f)
      PROVE ToldInv'
  BY <1>0, <1>4 DEF PopOldest, ForwarderPops, LPushFails, LPushUnanswered, GivesBack, LPushOK
<1>5. ASSUME NEW s \in Subscribers, Subscribe(s) PROVE ToldInv'
  <2>1. chan[s].seen = << >> /\ chan[s].missed = {} /\ log' = log
    BY <1>5 DEF Subscribe, SeenInv, SeenOK
  <2>2. \A x : ~Told(chan[s], x)
    BY <2>1 DEF Told
  <2>3. PICK d : chan' = [chan EXCEPT ![s] = d]
    BY <1>5 DEF Subscribe
  <2> QED
    BY <1>s, <2>1, <2>2, <2>3
<1>6. ASSUME NEW s \in Subscribers, Receive(s) \/ Leave(s) \/ Close(s) PROVE ToldInv'
  <2>0. log' = log /\ ChanShape(chan[s])
    BY <1>6 DEF Receive, Leave, Close, ChanInv
  <2>1. PICK d : chan' = [chan EXCEPT ![s] = d] /\ d.seen = chan[s].seen /\ d.missed = chan[s].missed
    <3>1. CASE chan' = [chan EXCEPT ![s].unread = @ - 1]
      <4>1. PICK d : d = [chan[s] EXCEPT !.unread = @ - 1]
        OBVIOUS
      <4>2. chan' = [chan EXCEPT ![s] = d] /\ d.seen = chan[s].seen /\ d.missed = chan[s].missed
        BY <2>0, <3>1, <4>1 DEF ChanShape
      <4> QED
        BY <4>2
    <3>2. CASE chan' = [chan EXCEPT ![s] = Left(@)]
      <4>1. PICK d : d = Left(chan[s])
        OBVIOUS
      <4>2. chan' = [chan EXCEPT ![s] = d] /\ d.seen = chan[s].seen /\ d.missed = chan[s].missed
        BY <2>0, <3>2, <4>1 DEF ChanShape, Left
      <4> QED
        BY <4>2
    <3>3. CASE Close(s)
      <4>1. PICK who \in chan[s].owed : chan' = [chan EXCEPT ![s].owed = @ \ {who}, ![s].closed = TRUE]
        BY <3>3 DEF Close
      <4>2. PICK d : d = [chan[s] EXCEPT !.owed = @ \ {who}, !.closed = TRUE]
        OBVIOUS
      <4>3. chan' = [chan EXCEPT ![s] = d] /\ d.seen = chan[s].seen /\ d.missed = chan[s].missed
        BY <2>0, <4>1, <4>2 DEF ChanShape, ChanInv
      <4> QED
        BY <4>3
    <3> QED
      BY <1>6, <3>1, <3>2, <3>3 DEF Receive, Leave
  <2>2. \A x : Told(chan[s], x) => Told(d, x)
    BY <2>1 DEF Told
  <2> QED
    BY <1>s, <2>0, <2>1, <2>2
<1>7. CASE NotifyUsageRefresh
  BY <1>7, BroadcastTold DEF NotifyUsageRefresh
<1>8. CASE Clear
  <2>1. chan' = [s \in Subscribers |-> Cleared(chan[s])] /\ log' = log
    BY <1>8 DEF Clear
  <2>2. \A s \in Subscribers : chan'[s].seen = chan[s].seen /\ chan'[s].missed = chan[s].missed
    BY <2>1 DEF Cleared, ChanInv, ChanShape
  <2>3. \A s \in Subscribers : \A x : Told(chan[s], x) => Told(chan'[s], x)
    BY <2>2 DEF Told
  <2> QED
    BY <2>1, <2>3, KeepsTold
<1>9. CASE SetEnabled \/ SetUsageStatisticsEnabled \/ NextLifetime \/ Tick
  BY <1>0, <1>9 DEF SetEnabled, SetUsageStatisticsEnabled, NextLifetime, Tick
<1>10. CASE UNCHANGED vars
  BY <1>0, <1>10 DEF vars
<1>11. Dispatcher \in Writers /\ Forwarders \subseteq Writers
  BY DEF Writers
<1> QED
  BY <1>1, <1>2, <1>3, <1>4, <1>5, <1>6, <1>7, <1>8, <1>9, <1>10, <1>11 DEF Next, Dispatching, Forwarding

(* What Home took without answering is a sequence.                          *)
DoubtInv == AnySeq(doubted)

LEMMA NextDoubt == DoubtInv /\ [Next]_vars => DoubtInv'
<1> SUFFICES ASSUME DoubtInv, [Next]_vars PROVE DoubtInv'
  OBVIOUS
<1>1. doubted' = doubted \/ \E f \in Forwarders : LPushUnanswered(f)
  BY DEF Next, vars, history, Publish, Stop, Wake, Dispatching, Run, HandleUsage, Writing, Enqueue,
     PublishToSubscribers, ReadClock, AppendItem, Calling, PopOldest, CallerPops, Forwarding, ForwarderPops,
     LPushFails, LPushOK, Subscribe, Receive, Leave, Close, NotifyUsageRefresh, SetEnabled, Clear,
     SetUsageStatisticsEnabled, NextLifetime, Tick
<1>2. ASSUME NEW f \in Forwarders, LPushUnanswered(f) PROVE DoubtInv'
  BY <1>2, AnyAppend DEF LPushUnanswered, DoubtInv
<1> QED
  BY <1>1, <1>2 DEF DoubtInv

(* What a subscriber received was broadcast, and what was broadcast was      *)
(* received or met a full buffer.                                            *)
LEMMA ReceivedIsLogged ==
  ASSUME PlaceInv, SeenInv, ToldInv, NEW r \in Rec
  PROVE  /\ Received(r) \subseteq At(log, r)
         /\ At(log, r) # {} /\ (\A s \in Subscribers : r \notin chan[s].missed) => Received(r) # {}
<1>0. log \in Seq(Nat) /\ Len(log) \in Nat /\ DOMAIN log = 1 .. Len(log)
  BY LenProperties DEF PlaceInv, PlaceTypes
<1>1. ASSUME NEW s \in Subscribers, NEW i \in At(chan[s].seen, r)
      PROVE  chan[s].joined + i - 1 \in At(log, r)
  <2>1. PICK c : c = chan[s]
    OBVIOUS
  <2>2. SeenOK(c, log) /\ i \in DOMAIN c.seen /\ c.seen[i] = r
    BY <1>1, <2>1 DEF SeenInv, At
  <2>3. c.reader # "none"
    BY <2>2, EmptySeq DEF SeenOK
  <2>4. PICK S : c.seen \in Seq(S)
    BY <2>2, <2>3 DEF SeenOK, AnySeq
  <2>5. DOMAIN c.seen = 1 .. Len(c.seen) /\ Len(c.seen) \in Nat
    BY <2>4, LenProperties
  <2>6. i # 1
    BY <2>2, <2>3 DEF SeenOK, Hello
  <2>7. PICK j, n : j = c.joined /\ n = Len(c.seen)
    OBVIOUS
  <2>8. j \in Nat /\ n \in Nat /\ i \in 2 .. n /\ j + n - 1 <= Len(log) /\ log[j + i - 1] = r
    BY <2>2, <2>3, <2>5, <2>6, <2>7 DEF SeenOK
  <2>9. j + i - 1 \in 1 .. Len(log)
    BY <1>0, <2>8
  <2> QED
    BY <1>0, <2>1, <2>7, <2>8, <2>9 DEF At
<1>2. ASSUME At(log, r) # {}, \A s \in Subscribers : r \notin chan[s].missed PROVE Received(r) # {}
  <2>1. PICK i \in 1 .. Len(log) : log[i] = r
    BY <1>0, <1>2 DEF At
  <2>2. PICK s \in Subscribers : Told(chan[s], r)
    BY <2>1 DEF ToldInv
  <2>3. PICK k \in 1 .. Len(chan[s].seen) : chan[s].seen[k] = r
    BY <1>2, <2>2 DEF Told
  <2>4. chan[s].reader # "none"
    <3>1. Len(<< >>) = 0 /\ 1 .. 0 = {}
      BY EmptySeq
    <3> QED
      BY <2>3, <3>1 DEF SeenInv, SeenOK
  <2>5. PICK S : chan[s].seen \in Seq(S)
    BY <2>4 DEF SeenInv, SeenOK, AnySeq
  <2>6. k \in At(chan[s].seen, r)
    BY <2>3, <2>5, LenProperties DEF At
  <2>7. PICK e : e = chan[s].joined + k - 1
    OBVIOUS
  <2>8. PICK E : E = {chan[s].joined + m - 1 : m \in At(chan[s].seen, r)}
    OBVIOUS
  <2>9. e \in E /\ E \subseteq Received(r)
    BY <2>6, <2>7, <2>8 DEF Received
  <2> QED
    BY <2>9
<1>3. Received(r) \subseteq At(log, r)
  BY <1>1 DEF Received
<1> QED
  BY <1>2, <1>3

(* Publish, Enqueue, PopOldest, LPUSH: a record that was accepted is in one *)
(* place at most, but for the copies Home took without an answer, and with  *)
(* no switch thrown, nothing too old and no full buffer in its way, in one. *)
THEOREM RecordsAreInOnePlace == Spec => []RecordInOnePlace
<1>1. PlaceInv /\ SeenInv /\ ToldInv /\ DoubtInv => RecordInOnePlace
  <2> SUFFICES ASSUME PlaceInv, SeenInv, ToldInv, DoubtInv, NEW r \in 1 .. accepted
               PROVE  /\ Cardinality(Spots(r)) <= 1 + Cardinality(At(doubted, r))
                      /\ switches = 0 /\ now <= Retention + 1 /\ (\A s \in Subscribers : r \notin chan[s].missed)
                         => Spots(r) # {}
    BY DEF RecordInOnePlace
  <2>0. r \in Rec
    BY DEF PlaceInv, PlaceTypes
  <2>1. PICK S, T, D, A, B, C :
          /\ S = LogSpots(r) /\ T = Spots(r) /\ D = At(doubted, r) /\ A = At(log, r) /\ B = Received(r)
          /\ C = {"doubted"} \X D
    OBVIOUS
  <2>2. (\A s, t \in S : s = t) /\ (Calm => S # {})
    BY <2>1, OneSpot
  <2>3. B \subseteq A /\ (A # {} /\ (\A s \in Subscribers : r \notin chan[s].missed) => B # {})
    BY <2>0, <2>1, ReceivedIsLogged
  <2>r. PICK R : R = ({"queue"} \X At(queue, r)) \cup ({"items"} \X At(Records(items), r))
                     \cup (UNION {{"hand"} \X {w} \X At(hand[w], r) : w \in Writers})
                     \cup ({"popped"} \X At(popped, r)) \cup ({"sent"} \X (sent \cap {r}))
    OBVIOUS
  <2>4. \A x : x \in S <=> x \in R \/ x \in {"received"} \X A
    BY <2>1, <2>r, Zenon DEF LogSpots
  <2>5. \A x : x \in T <=> x \in R \/ x \in {"received"} \X B \/ x \in C
    BY <2>1, <2>r, Zenon DEF Spots
  <2>6. {"received"} \X B \subseteq {"received"} \X A
    BY <2>3
  <2>7. T \subseteq S \cup C
    BY <2>4, <2>5, <2>6
  <2>8. IsFiniteSet(S) /\ Cardinality(S) <= 1 /\ Cardinality(S) \in Nat
    <3>1. CASE S = {}
      BY <3>1, FS_EmptySet
    <3>2. CASE \E s : S = {s}
      <4>1. PICK s : S = {s}
        BY <3>2
      <4>2. IsFiniteSet({s}) /\ Cardinality({s}) = 1
        BY FS_Singleton
      <4> QED
        BY <4>1, <4>2
    <3>3. S = {} \/ \E s : S = {s}
      BY <2>2
    <3> QED
      BY <3>1, <3>2, <3>3
  <2>9. IsFiniteSet(D)
    <3>1. PICK U : doubted \in Seq(U)
      BY DEF DoubtInv, AnySeq
    <3>2. PICK n : n = Len(doubted)
      OBVIOUS
    <3>3. n \in Nat /\ DOMAIN doubted = 1 .. n
      BY <3>1, <3>2, LenProperties
    <3>4. IsFiniteSet(1 .. n)
      BY <3>3, FS_Interval
    <3>5. D \subseteq 1 .. n
      BY <2>1, <3>3 DEF At
    <3> QED
      BY <3>4, <3>5, FS_Subset
  <2>10. IsFiniteSet(C) /\ Cardinality(C) = Cardinality(D) /\ Cardinality(D) \in Nat
    <3>1. IsFiniteSet({"doubted"}) /\ Cardinality({"doubted"}) = 1
      BY FS_Singleton
    <3>2. IsFiniteSet({"doubted"} \X D) /\ Cardinality({"doubted"} \X D) = Cardinality({"doubted"}) * Cardinality(D)
      BY <2>9, <3>1, FS_Product
    <3>3. Cardinality(D) \in Nat
      BY <2>9, FS_CardinalityType
    <3> QED
      BY <2>1, <3>1, <3>2, <3>3
  <2>11. Cardinality(T) <= 1 + Cardinality(D)
    <3>1. IsFiniteSet(S \cap C) /\ Cardinality(S \cap C) \in Nat
      BY <2>8, FS_Subset, FS_CardinalityType
    <3>2. IsFiniteSet(S \cup C) /\ Cardinality(S \cup C) = Cardinality(S) + Cardinality(C) - Cardinality(S \cap C)
      BY <2>8, <2>10, FS_Union
    <3>3. Cardinality(T) <= Cardinality(S \cup C)
      BY <2>7, <3>2, FS_Subset
    <3>4. Cardinality(T) \in Nat
      BY <2>7, <3>2, FS_Subset, FS_CardinalityType
    <3> QED
      BY <2>8, <2>10, <3>1, <3>2, <3>3, <3>4
  <2>12. ASSUME Calm, \A s \in Subscribers : r \notin chan[s].missed PROVE T # {}
    <3>1. PICK x : x \in S
      BY <2>2, <2>12
    <3>2. CASE x \in R
      BY <2>5, <3>2
    <3>3. CASE x \in {"received"} \X A
      <4>1. A # {}
        BY <3>3
      <4>2. PICK y : y \in B
        BY <2>3, <2>12, <4>1
      <4>3. <<"received", y>> \in {"received"} \X B
        BY <4>2
      <4> QED
        BY <2>5, <4>3
    <3> QED
      BY <2>4, <3>1, <3>2, <3>3
  <2> QED
    BY <2>1, <2>11, <2>12 DEF Calm
<1>2. Init => ToldInv /\ DoubtInv
  <2> SUFFICES ASSUME Init PROVE ToldInv /\ DoubtInv
    OBVIOUS
  <2>1. << >> \in Seq({}) /\ Len(<< >>) = 0 /\ 1 .. 0 = {}
    BY EmptySeq
  <2>2. log = << >> /\ doubted = << >>
    BY DEF Init
  <2> QED
    BY <2>1, <2>2 DEF ToldInv, DoubtInv, AnySeq
<1> QED
  BY <1>1, <1>2, InitChanInv, NextChanInv, InitSeen, NextSeen, NextTold, NextDoubt, InitPlaces, NextPlaces, PTL DEF Spec
=============================================================================
