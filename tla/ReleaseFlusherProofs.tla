----------------------- MODULE ReleaseFlusherProofs -----------------------
(***************************************************************************)
(* Theorems about ReleaseFlusher for every set of groups, highest sequence *)
(* and number of client lifetimes.  The inductive invariant bounds every   *)
(* sequence on its way to Home (in the batch of a round, or in a late      *)
(* frame) by Latest, and adds the ledger order acked <= home <= latest.    *)
(***************************************************************************)
EXTENDS ReleaseFlusher, TLAPS

LEMMA LargerFact ==
  ASSUME NEW m \in 0..MaxSeq, NEW n \in 0..MaxSeq
  PROVE  /\ Larger(m, n) \in 0..MaxSeq
         /\ m <= Larger(m, n) /\ n <= Larger(m, n)
         /\ Larger(m, n) = m \/ Larger(m, n) = n
  BY BoundsAssumption DEF Larger

(* The groups and frames that matter to Home, without the goroutines. *)
DataOK ==
  /\ latest \in [Groups -> 0..MaxSeq] /\ acked \in [Groups -> 0..MaxSeq]
  /\ waiters \in [Groups -> SUBSET Seqs] /\ completed \in [Groups -> SUBSET Seqs]
  /\ batch \in [Groups -> 0..MaxSeq] /\ target \in [Groups -> 0..MaxSeq]
  /\ home \in [Groups -> 0..MaxSeq] /\ delayed \in SUBSET (Groups \X Seqs)

(* The goroutines. *)
Control ==
  /\ sender \in 0..MaxLifetimes
  /\ wake \in BOOLEAN /\ force \in BOOLEAN /\ owed \in BOOLEAN
  /\ run \in {"off", "select", "flush"}
  /\ timer \in {"now", "later"} /\ backingOff \in BOOLEAN /\ failed \in BOOLEAN
  /\ flusher \in {"idle", "polling", "flushed", "expired"}

Order ==
  /\ AckedIsKnown
  /\ \A g \in Groups : batch[g] <= latest[g] /\ target[g] <= latest[g]
  /\ \A g \in Groups, n \in Seqs : <<g, n>> \in delayed => n <= latest[g]

Inv == DataOK /\ Order /\ TicketsExact /\ FlushedReachedHome

LEMMA InitInv == Init => Inv
  BY BoundsAssumption DEF Init, Inv, DataOK, Order, AckedIsKnown, TicketsExact,
     FlushedReachedHome, Clean, Seqs

LEMMA NextInv == Inv /\ [Next]_vars => Inv'
<1> SUFFICES ASSUME Inv, [Next]_vars PROVE Inv'
  OBVIOUS
<1> USE DEF Inv, DataOK, Order, AckedIsKnown, TicketsExact, FlushedReachedHome,
        Seqs, groupVars, chanVars, runVars, flushVars, homeVars
<1>1. ASSUME NEW g \in Groups, NEW n \in Seqs, MarkDirty(g, n) PROVE Inv'
  <2>1. /\ Larger(latest[g], n) \in 0..MaxSeq
        /\ latest[g] <= Larger(latest[g], n) /\ n <= Larger(latest[g], n)
    BY LargerFact
  <2>2. CASE n <= acked[g]
    <3>1. DataOK'
      BY <1>1, <2>2, BoundsAssumption DEF MarkDirty
    <3>2. Order'
      BY <1>1, <2>2, BoundsAssumption DEF MarkDirty
    <3>3. TicketsExact'
      <4>1. UNCHANGED <<latest, acked, waiters, home>>
        BY <1>1, <2>2 DEF MarkDirty
      <4>2. n <= home[g]
        BY <2>2, BoundsAssumption
      <4>3. ASSUME NEW h \in Groups, NEW k \in completed'[h] PROVE k <= home'[h]
        <5>1. k \in completed[h] \/ (h = g /\ k = n)
          BY <1>1, <2>2, <4>3 DEF MarkDirty
        <5> QED
          BY <4>1, <4>2, <5>1
      <4> QED
        BY <4>1, <4>3
    <3>4. FlushedReachedHome'
      BY <1>1, <2>2, BoundsAssumption DEF MarkDirty
    <3> QED
      BY <3>1, <3>2, <3>3, <3>4
  <2>3. CASE ~(n <= acked[g])
    <3>1. DataOK'
      <4>1. waiters' \in [Groups -> SUBSET Seqs]
        <5>1. waiters' = [waiters EXCEPT ![g] = @ \cup {n}]
          BY <1>1, <2>3 DEF MarkDirty
        <5> QED
          BY <5>1
      <4>2. latest' \in [Groups -> 0..MaxSeq]
        BY <1>1, <2>1, <2>3 DEF MarkDirty, LatestIsMax
      <4> QED
        BY <1>1, <2>3, <4>1, <4>2 DEF MarkDirty
    <3>2. Order'
      <4>1. \A h \in Groups : latest[h] <= latest'[h]
        BY <1>1, <2>1, <2>3, BoundsAssumption DEF MarkDirty, LatestIsMax
      <4>2. UNCHANGED <<acked, batch, target, home, delayed>>
        BY <1>1, <2>3 DEF MarkDirty
      <4> QED
        BY <4>1, <4>2, <3>1, BoundsAssumption
    <3>3. TicketsExact'
      <4>1. \A h \in Groups : latest[h] <= latest'[h]
        BY <1>1, <2>1, <2>3, BoundsAssumption DEF MarkDirty, LatestIsMax
      <4>2. /\ waiters' = [waiters EXCEPT ![g] = @ \cup {n}]
            /\ UNCHANGED <<acked, completed, home>>
        BY <1>1, <2>3 DEF MarkDirty
      <4>3. acked[g] < n /\ n <= latest'[g]
        BY <1>1, <2>1, <2>3, BoundsAssumption DEF MarkDirty, LatestIsMax
      <4>4. ASSUME NEW h \in Groups, NEW k \in waiters'[h]
            PROVE  acked'[h] < k /\ k <= latest'[h]
        <5>1. (h = g /\ k = n) \/ (k \in Seqs /\ acked[h] < k /\ k <= latest[h])
          BY <4>2, <4>4
        <5>2. /\ acked[h] \in Nat /\ latest[h] \in Nat /\ latest'[h] \in Nat
          BY <3>1, BoundsAssumption
        <5> QED
          BY <4>1, <4>2, <4>3, <5>1, <5>2
      <4> QED
        BY <4>2, <4>4
    <3>4. FlushedReachedHome'
      BY <1>1, <2>1, <2>3, BoundsAssumption DEF MarkDirty, LatestIsMax
    <3> QED
      BY <3>1, <3>2, <3>3, <3>4
  <2> QED
    BY <2>2, <2>3
<1>2. ASSUME NEW g \in Groups, SendOK(g) PROVE Inv'
  <2>1. /\ Larger(home[g], batch[g]) \in 0..MaxSeq
        /\ home[g] <= Larger(home[g], batch[g])
        /\ Larger(home[g], batch[g]) <= latest[g]
    BY LargerFact
  <2>2. /\ Larger(acked[g], batch[g]) \in 0..MaxSeq
        /\ acked[g] <= Larger(acked[g], batch[g])
        /\ Larger(acked[g], batch[g]) <= Larger(home[g], batch[g])
    BY LargerFact, BoundsAssumption DEF Larger
  <2> USE <1>2, <2>1, <2>2, BoundsAssumption DEF SendOK, Acknowledge, AckSent
  <2>3. DataOK'
    BY DEF WaitersUpTo
  <2>4. Order'
    OBVIOUS
  <2>5. TicketsExact'
    BY DEF WaitersUpTo
  <2>6. FlushedReachedHome'
    OBVIOUS
  <2> QED
    BY <2>3, <2>4, <2>5, <2>6
<1>3. ASSUME NEW g \in Groups, SendFails(g) PROVE Inv'
  <2>1. DataOK'
    BY <1>3, BoundsAssumption DEF SendFails
  <2>2. Order'
    BY <1>3, BoundsAssumption DEF SendFails
  <2>3. TicketsExact'
    BY <1>3, BoundsAssumption DEF SendFails
  <2>4. FlushedReachedHome'
    BY <1>3, BoundsAssumption DEF SendFails
  <2> QED
    BY <2>1, <2>2, <2>3, <2>4
<1>4. ASSUME NEW g \in Groups, NEW n \in Seqs, LateDelivery(g, n) PROVE Inv'
  <2>1. /\ Larger(home[g], n) \in 0..MaxSeq
        /\ home[g] <= Larger(home[g], n) /\ Larger(home[g], n) <= latest[g]
    BY <1>4, LargerFact DEF LateDelivery
  <2> QED
    BY <1>4, <2>1 DEF LateDelivery, HomeApplies
<1>5. CASE RunTimer \/ RunForce
  <2>1. DataOK'
    BY <1>5, BoundsAssumption DEF RunTimer, RunForce, BeginFlush, BatchFromLatest
  <2>2. Order'
    BY <1>5, BoundsAssumption DEF RunTimer, RunForce, BeginFlush, BatchFromLatest
  <2>3. TicketsExact'
    BY <1>5, BoundsAssumption DEF RunTimer, RunForce, BeginFlush, BatchFromLatest
  <2>4. FlushedReachedHome'
    BY <1>5, BoundsAssumption DEF RunTimer, RunForce, BeginFlush, BatchFromLatest
  <2> QED
    BY <2>1, <2>2, <2>3, <2>4
<1>6. CASE FlushBegin
  BY <1>6 DEF FlushBegin
<1>7. CASE FlushDone
  BY <1>7 DEF FlushDone, Idle, Dirty
<1>8. CASE FlushExpires
  BY <1>8 DEF FlushExpires
<1>9. CASE Signal \/ SetSender \/ RunStop \/ RunWake \/ EndFlush
  BY <1>9 DEF Signal, SetSender, RunStop, RunWake, EndFlush
<1>10. CASE UNCHANGED vars
  BY <1>10 DEF vars
<1> QED
  BY <1>1, <1>2, <1>3, <1>4, <1>5, <1>6, <1>7, <1>8, <1>9, <1>10 DEF Next

LEMMA AlwaysInv == Spec => []Inv
  BY InitInv, NextInv, PTL DEF Spec

(* Every variable keeps its type; the flags and positions of Run and Flush  *)
(* move independently of what the groups hold (concurrency_release.go).     *)
THEOREM TypeCorrect == Spec => []TypeOK
<1>1. Init => TypeOK
  <2>1. Init => Control
    <3>1. Init => sender \in 0..MaxLifetimes
      BY BoundsAssumption DEF Init
    <3> QED
      BY <3>1 DEF Init, Control
  <2> QED
    BY <2>1, InitInv DEF Control, TypeOK, Inv, DataOK
<1>2. TypeOK /\ Inv /\ Inv' /\ [Next]_vars => TypeOK'
  <2> SUFFICES ASSUME TypeOK, Inv', [Next]_vars PROVE Control'
    BY DEF Control, TypeOK, Inv, DataOK
  <2> USE DEF TypeOK, Control, groupVars, chanVars, runVars, flushVars, homeVars
  <2>1. CASE Signal \/ RunStop
    BY <2>1 DEF Signal, RunStop
  <2>0. CASE SetSender
    <3>1. sender' \in 0..MaxLifetimes
      BY <2>0, BoundsAssumption DEF SetSender
    <3> QED
      BY <2>0, <3>1, Zenon DEF SetSender
  <2>7. CASE RunWake
    <3>1. timer' \in {"now", "later"}
      BY <2>7, Zenon DEF RunWake
    <3> QED
      BY <2>7, <3>1 DEF RunWake
  <2>2. CASE RunTimer \/ RunForce \/ EndFlush
    BY <2>2 DEF RunTimer, RunForce, BeginFlush, EndFlush, KeepWake
  <2>3. CASE FlushBegin \/ FlushDone \/ FlushExpires
    BY <2>3 DEF FlushBegin, FlushDone, FlushExpires
  <2>4. ASSUME NEW g \in Groups, SendOK(g) \/ SendFails(g) PROVE Control'
    BY <2>4 DEF SendOK, SendFails
  <2>5. ASSUME NEW g \in Groups, NEW n \in Seqs, MarkDirty(g, n) \/ LateDelivery(g, n) PROVE Control'
    BY <2>5 DEF MarkDirty, LateDelivery
  <2>6. CASE UNCHANGED vars
    BY <2>6 DEF vars
  <2> QED
    BY <2>0, <2>1, <2>2, <2>3, <2>4, <2>5, <2>6, <2>7 DEF Next
<1> QED
  BY AlwaysInv, <1>1, <1>2, PTL DEF Spec

(* flush acknowledges what it sent, never what was marked meanwhile: Home  *)
(* has every acknowledged sequence, and none that was not marked.          *)
THEOREM AcksAreKnown == Spec => []AckedIsKnown
<1>1. Inv => AckedIsKnown
  BY DEF Inv, Order
<1> QED
  BY AlwaysInv, <1>1, PTL

(* MarkDirty and flush: a completed ticket is one Home has, an open one is *)
(* above what is acknowledged and at most what will be sent.               *)
THEOREM TicketsAreExact == Spec => []TicketsExact
<1>1. Inv => TicketsExact
  BY DEF Inv
<1> QED
  BY AlwaysInv, <1>1, PTL

(* Flush returned nil: Home has what was marked when it was called. *)
THEOREM FlushReachesHome == Spec => []FlushedReachedHome
<1>1. Inv => FlushedReachedHome
  BY DEF Inv
<1> QED
  BY AlwaysInv, <1>1, PTL

-----------------------------------------------------------------------------
(* A round without a failure has sent, or is about to, all that is dirty,   *)
(* unless somebody marked more since and has woken Run or is about to.      *)
RoundCovers ==
  run = "flush" /\ ~failed /\ ~wake /\ ~owed =>
    \A g \in Groups : Dirty(g) => batch[g] = latest[g]
PromptInv == PromptFlush /\ RoundCovers

LEMMA NextPrompt == Inv /\ PromptInv /\ [Next]_vars => PromptInv'
<1> SUFFICES ASSUME Inv, PromptInv, [Next]_vars PROVE PromptInv'
  OBVIOUS
<1>0. \A g \in Groups : latest[g] \in Nat /\ acked[g] \in Nat /\ batch[g] \in Nat
  BY BoundsAssumption DEF Inv, DataOK
<1> USE DEF PromptInv, PromptFlush, RoundCovers, Dirty, groupVars, chanVars, runVars,
        flushVars, homeVars
<1>1. ASSUME NEW g \in Groups, NEW n \in Seqs, MarkDirty(g, n) PROVE PromptInv'
  BY <1>1 DEF MarkDirty
<1>2. ASSUME NEW g \in Groups, SendOK(g) PROVE PromptInv'
  <2>1. run = "flush" /\ batch[g] > 0 /\ UNCHANGED <<run, failed, wake, owed, latest>>
    BY <1>2 DEF SendOK, Acknowledge
  <2>2. \A h \in Groups : batch'[h] = IF h = g THEN 0 ELSE batch[h]
    BY <1>2 DEF SendOK, Inv, DataOK
  <2>3. \A h \in Groups : acked'[h] = IF h = g THEN Larger(acked[g], batch[g]) ELSE acked[h]
    BY <1>2 DEF SendOK, Acknowledge, AckSent, Inv, DataOK
  <2>4. batch[g] = latest[g] => ~(latest[g] > Larger(acked[g], batch[g]))
    BY <1>0 DEF Larger
  <2>5. ASSUME ~failed, ~wake, ~owed, NEW h \in Groups, latest[h] > acked'[h]
        PROVE  batch'[h] = latest[h]
    <3>1. CASE h = g
      <4>1. ~(latest[g] > acked[g])
        BY <2>1, <2>3, <2>4, <2>5, <3>1
      <4> QED
        BY <1>0, <2>3, <2>5, <3>1, <4>1 DEF Larger
    <3>2. CASE h # g
      BY <2>1, <2>2, <2>3, <2>5, <3>2
    <3> QED
      BY <3>1, <3>2
  <2> QED
    BY <2>1, <2>5
<1>3. ASSUME NEW g \in Groups, SendFails(g) PROVE PromptInv'
  BY <1>3 DEF SendFails
<1>4. ASSUME NEW g \in Groups, NEW n \in Seqs, LateDelivery(g, n) PROVE PromptInv'
  BY <1>4 DEF LateDelivery
<1>5. CASE RunTimer \/ RunForce
  <2>1. run' = "flush" /\ batch' = BatchFromLatest /\ UNCHANGED <<latest, acked>>
    BY <1>5 DEF RunTimer, RunForce, BeginFlush
  <2> QED
    BY <2>1 DEF BatchFromLatest
<1>6. CASE EndFlush
  <2>1. run = "flush" /\ batch = Clean /\ backingOff' = failed
        /\ UNCHANGED <<latest, acked, wake, owed>> /\ run' = "select"
    BY <1>6 DEF EndFlush, KeepWake
  <2>2. \A g \in Groups : batch[g] = 0
    BY <2>1 DEF Clean
  <2> QED
    BY <1>0, <2>1, <2>2
<1>7. CASE FlushBegin \/ FlushDone \/ FlushExpires
  BY <1>7 DEF FlushBegin, FlushDone, FlushExpires
<1>8. CASE Signal \/ SetSender \/ RunStop \/ RunWake
  BY <1>8 DEF Signal, SetSender, RunStop, RunWake
<1>9. CASE UNCHANGED vars
  BY <1>9 DEF vars
<1> QED
  BY <1>1, <1>2, <1>3, <1>4, <1>5, <1>6, <1>7, <1>8, <1>9 DEF Next

(* signal's token stays in the channel while flush runs and is only taken   *)
(* by the select of Run: what is marked during a round, or between a round  *)
(* and the timer, never waits for the flush interval.                       *)
THEOREM FlushIsPrompt == Spec => []PromptFlush
<1>1. Init => PromptInv
  BY DEF Init, PromptInv, PromptFlush, RoundCovers
<1>2. PromptInv => PromptFlush
  BY DEF PromptInv
<1> QED
  BY AlwaysInv, NextPrompt, <1>1, <1>2, PTL DEF Spec

-----------------------------------------------------------------------------
LEMMA StepRefines ==
  ASSUME Inv, [Next]_vars
  PROVE  [Ledger!Next]_(Ledger!vars)
<1>0. /\ DataOK /\ AckedIsKnown
      /\ \A g \in Groups : batch[g] <= latest[g]
      /\ \A g \in Groups, n \in Seqs : <<g, n>> \in delayed => n <= latest[g]
  BY DEF Inv, Order
<1>a. /\ latest \in [Groups -> 0..MaxSeq] /\ acked \in [Groups -> 0..MaxSeq]
      /\ home \in [Groups -> 0..MaxSeq] /\ batch \in [Groups -> 0..MaxSeq]
  BY <1>0 DEF DataOK
<1>b. \A g \in Groups :
         /\ latest[g] \in 0..MaxSeq /\ acked[g] \in 0..MaxSeq
         /\ home[g] \in 0..MaxSeq /\ batch[g] \in 0..MaxSeq
         /\ acked[g] <= home[g] /\ home[g] <= latest[g] /\ batch[g] <= latest[g]
  BY <1>0, <1>a DEF AckedIsKnown
<1> USE DEF Seqs, Ledger!vars, groupVars, chanVars, runVars, flushVars, homeVars
<1>1. ASSUME NEW g \in Groups, NEW n \in Seqs, MarkDirty(g, n)
      PROVE  Ledger!Tell(g) \/ UNCHANGED Ledger!vars
  <2>1. CASE n <= latest[g]
    <3>1. Larger(latest[g], n) = latest[g]
      BY <1>b, <2>1, BoundsAssumption DEF Larger
    <3>2. latest' = latest \/ latest' = [latest EXCEPT ![g] = latest[g]]
      BY <1>1, <3>1 DEF MarkDirty, LatestIsMax
    <3>3. latest' = latest
      BY <1>a, <3>2
    <3> QED
      BY <1>1, <3>3 DEF MarkDirty
  <2>2. CASE ~(n <= latest[g])
    <3>1. latest' = [latest EXCEPT ![g] = n] /\ n \in latest[g] + 1 .. MaxSeq
      <4>1. Larger(latest[g], n) = n /\ n \in latest[g] + 1 .. MaxSeq
        BY <1>b, <2>2, BoundsAssumption DEF Larger
      <4>2. ~(n <= acked[g])
        BY <1>b, <2>2, BoundsAssumption
      <4> QED
        BY <1>1, <4>1, <4>2 DEF MarkDirty, LatestIsMax
    <3> QED
      BY <1>1, <1>b, <2>2, <3>1, BoundsAssumption DEF MarkDirty, Ledger!Tell
  <2> QED
    BY <2>1, <2>2
<1>2. ASSUME NEW g \in Groups, SendOK(g)
      PROVE  Ledger!Confirm(g) \/ UNCHANGED Ledger!vars
  <2>1. /\ home' = [home EXCEPT ![g] = Larger(home[g], batch[g])]
        /\ acked' = [acked EXCEPT ![g] = Larger(acked[g], batch[g])]
        /\ latest' = latest
    BY <1>2 DEF SendOK, Acknowledge, AckSent
  <2>2. CASE batch[g] <= acked[g]
    <3>1. Larger(home[g], batch[g]) = home[g] /\ Larger(acked[g], batch[g]) = acked[g]
      BY <1>b, <2>2, BoundsAssumption DEF Larger
    <3> QED
      BY <1>a, <2>1, <3>1
  <2>3. CASE ~(batch[g] <= acked[g])
    <3>1. /\ Larger(home[g], batch[g]) \in home[g] .. latest[g]
          /\ Larger(acked[g], batch[g]) \in acked[g] + 1 .. Larger(home[g], batch[g])
      BY <1>b, <2>3, BoundsAssumption DEF Larger
    <3> QED
      BY <2>1, <3>1 DEF Ledger!Confirm
  <2> QED
    BY <2>2, <2>3
<1>3. ASSUME NEW g \in Groups, NEW n \in Seqs, LateDelivery(g, n)
      PROVE  Ledger!Learn(g) \/ UNCHANGED Ledger!vars
  <2>1. home' = [home EXCEPT ![g] = Larger(home[g], n)] /\ n <= latest[g]
    BY <1>0, <1>3 DEF LateDelivery, HomeApplies
  <2>2. CASE n <= home[g]
    <3>1. Larger(home[g], n) = home[g]
      BY <1>b, <2>2, BoundsAssumption DEF Larger
    <3> QED
      BY <1>a, <1>3, <2>1, <3>1 DEF LateDelivery
  <2>3. CASE ~(n <= home[g])
    <3>1. Larger(home[g], n) = n /\ n \in home[g] + 1 .. latest[g]
      BY <1>b, <2>1, <2>3, BoundsAssumption DEF Larger
    <3> QED
      BY <1>3, <2>1, <3>1 DEF LateDelivery, Ledger!Learn
  <2> QED
    BY <2>2, <2>3
<1>4. CASE \/ Signal \/ SetSender \/ RunStop \/ RunWake \/ RunTimer \/ RunForce
           \/ EndFlush \/ FlushBegin \/ FlushDone \/ FlushExpires
           \/ \E g \in Groups : SendFails(g)
  BY <1>4 DEF Signal, SetSender, RunStop, RunWake, RunTimer, RunForce, BeginFlush,
     EndFlush, FlushBegin, FlushDone, FlushExpires, SendFails
<1>5. CASE UNCHANGED vars
  BY <1>5 DEF vars
<1> QED
  BY <1>1, <1>2, <1>3, <1>4, <1>5 DEF Next, Ledger!Next

(* The flusher implements the release ledger: every step of it, whatever   *)
(* is lost, repeated or late, is a step of the ledger or none.             *)
THEOREM FlusherImplementsLedger == Spec => ImplementsLedger
<1>1. Init => Ledger!Init
  BY DEF Init, Ledger!Init, Clean
<1> QED
  BY AlwaysInv, StepRefines, <1>1, PTL DEF Spec, ImplementsLedger, Ledger!Spec
=============================================================================
