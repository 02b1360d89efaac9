----------------------- MODULE CredentialStateProofs -----------------------
(***************************************************************************)
(* Theorems about CredentialState for every finite set of models, every    *)
(* duration and any number of calls.                                       *)
(***************************************************************************)
EXTENDS CredentialState, TLAPS, FiniteSetTheorems, FunctionTheorems

-----------------------------------------------------------------------------
(* The shape of a credential; every operation of CooldownRules keeps it.   *)
Reasons  == {"none", "quota", "credential", "challenge"}
Statuses == {"active", "error"}
Errors   == {"none", "unauthorized", "other"}
Quotas == [exceeded : BOOLEAN, reason : Reasons, recoverAt : Int, level : Nat]
States == [unavail : BOOLEAN, status : Statuses, retryAt : Int, err : Errors, quota : Quotas]
Maps   == UNION {[D -> States] : D \in SUBSET Models}
Auths  == [unavail : BOOLEAN, status : Statuses, retryAt : Int, err : Errors, quota : Quotas,
           disabled : BOOLEAN, models : Maps, token : Nat, counted : Nat]

MutationInv ==
  /\ mutation.phase \in {"idle", "persist", "publish"}
  /\ mutation.phase = "idle" => mutation = Idle
  /\ mutation.phase = "persist" => /\ mutation.rec \in Auths
                                   /\ mutation.by \in {"mark", "register", "refresh", "edit"}
  /\ mutation.phase = "persist" => (auth = Gone <=> mutation.by = "register")

RefreshInv == refresh \in {Idle} \cup [phase : {"calling", "update", "saving"}, rec : Auths, from : Nat]
EditInv    == edit \in {Idle} \cup [phase : {"ready"}, rec : Auths]

TypeInv ==
  /\ now \in Nat /\ off \in BOOLEAN /\ tokens \in Nat /\ reported \in Nat
  /\ auth \in Auths \cup {Gone}
  /\ MutationInv /\ RefreshInv /\ EditInv

-----------------------------------------------------------------------------
(* What a mutator is about to store counts every result that was reported. *)
CountInv ==
  /\ auth # Gone => auth.counted = reported
  /\ mutation.phase = "persist" =>
       /\ mutation.by = "mark" => mutation.rec.counted = reported + 1
       /\ mutation.by = "register" => mutation.rec.counted = 0
       /\ mutation.by \in {"refresh", "edit"} => mutation.rec.counted = reported

(* The token in use is the newest, except between the exchange and the     *)
(* store of what it returned, all under the refresh lock.                  *)
Saving  == mutation.phase \in {"persist", "publish"} /\ mutation.by = "refresh"
NoEdit   == edit = Idle
InUse(a) == a # Gone => a.token = tokens
TokenInv ==
  /\ spent \subseteq 0 .. tokens - 1
  /\ refresh.phase = "saving" <=> Saving
  /\ refresh.phase = "calling" => refresh.from = tokens
  /\ refresh.phase = "update"  => refresh.rec.token = tokens
  /\ refresh.phase \in {"idle", "calling"} \/ (Saving /\ mutation.phase = "publish") =>
       InUse(auth) /\ (mutation.phase = "persist" => mutation.rec.token = tokens)
  /\ Saving /\ mutation.phase = "persist" => mutation.rec.token = tokens

(* The scheduler's record says of availability what the manager's does, and *)
(* an entry tells what will be until its instant.                           *)
Alike(a, b) == /\ a.disabled = b.disabled /\ a.models = b.models /\ a.quota = b.quota
               /\ a.unavail = b.unavail /\ a.retryAt = b.retryAt
Blocked(a, m, t) == Availability(a, m, t).blocked
Foretells(e, a, m) ==
  \A t \in Nat : t >= now =>
    /\ e.ready => ~Blocked(a, m, t)
    /\ ~e.ready /\ (e.until = 0 \/ t < e.until) => Blocked(a, m, t)

Entries == [ready : BOOLEAN, until : Int]
SchedType ==
  sched # Gone => /\ sched \in [shared : BOOLEAN, copy : Auths \cup {Gone}, entry : [Models -> Entries]]
                  /\ IF sched.shared THEN auth # Gone ELSE sched.copy # Gone
SchedInv ==
  mutation.phase # "publish" =>
    /\ sched = Gone <=> (auth = Gone \/ auth.disabled)
    /\ sched # Gone => /\ Alike(SchedRecord, auth)
                       /\ \A m \in Models : Foretells(sched.entry[m], auth, m)

-----------------------------------------------------------------------------
(* Finite sets and the least and greatest of their members.                *)

(* Induction over sets of naturals: if k were missing from A, adding one    *)
(* would map the members of A below k one to one onto fewer than they are.  *)
LEMMA Reaches ==
  ASSUME NEW A \in SUBSET Nat, 0 \in A, \A n \in A : n + 1 \in A
  PROVE  A = Nat
<1> SUFFICES ASSUME NEW k \in Nat, k \notin A PROVE FALSE
  OBVIOUS
<1> DEFINE B == A \cap (0 .. k)
           s == [n \in B |-> n + 1]
<1>1. IsFiniteSet(B) /\ 0 \in B
  <2>1. IsFiniteSet(0 .. k) /\ B \subseteq 0 .. k /\ 0 \in 0 .. k
    BY FS_Interval
  <2> QED
    BY <2>1, FS_Subset
<1>2. IsFiniteSet(B \ {0}) /\ Cardinality(B \ {0}) = Cardinality(B) - 1
  BY <1>1, FS_RemoveElement
<1>3. \A n \in B : n + 1 \in B \ {0}
  <2> TAKE n \in B
  <2>1. n # k /\ n \in 0 .. k
    OBVIOUS
  <2> QED
    BY <2>1
<1>4. s \in Injection(B, B \ {0})
  BY <1>3 DEF Injection, IsInjective
<1>5. Cardinality(B) <= Cardinality(B \ {0})
  BY <1>2, <1>4, FS_Injection
<1> QED
  BY <1>1, <1>2, <1>5, FS_CardinalityType

LEMMA Extremes ==
  ASSUME NEW S \in SUBSET Int, IsFiniteSet(S), S # {}
  PROVE  /\ \E t \in S : \A u \in S : u <= t
         /\ \E t \in S : \A u \in S : t <= u
<1> DEFINE Bounded(T) == (\E t \in T : \A u \in T : u <= t) /\ (\E t \in T : \A u \in T : t <= u)
           A == {n \in Nat : \A T \in SUBSET Int :
                               IsFiniteSet(T) /\ Cardinality(T) = n + 1 => Bounded(T)}
<1>1. 0 \in A
  <2> SUFFICES ASSUME NEW T \in SUBSET Int, IsFiniteSet(T), Cardinality(T) = 1 PROVE Bounded(T)
    OBVIOUS
  <2>1. PICK x : T = {x}
    BY FS_Singleton
  <2> QED
    BY <2>1
<1>2. ASSUME NEW n \in A PROVE n + 1 \in A
  <2> SUFFICES ASSUME NEW T \in SUBSET Int, IsFiniteSet(T), Cardinality(T) = n + 1 + 1
               PROVE  Bounded(T)
    OBVIOUS
  <2>1. PICK x : x \in T
    BY FS_EmptySet
  <2>2. IsFiniteSet(T \ {x}) /\ Cardinality(T \ {x}) = n + 1
    BY <2>1, FS_RemoveElement
  <2>3. Bounded(T \ {x})
    BY <2>2, <1>2
  <2>4. PICK t \in T \ {x} : \A u \in T \ {x} : u <= t
    BY <2>3
  <2>5. PICK t2 \in T \ {x} : \A u \in T \ {x} : t2 <= u
    BY <2>3
  <2>6. \E y \in T : \A u \in T : u <= y
    BY <2>1, <2>4
  <2>7. \E y \in T : \A u \in T : y <= u
    BY <2>1, <2>5
  <2> QED
    BY <2>6, <2>7
<1> HIDE DEF A
<1>3. A = Nat
  <2>1. A \in SUBSET Nat
    BY DEF A
  <2> QED
    BY <1>1, <1>2, <2>1, Reaches
<1>4. PICK n \in Nat : Cardinality(S) = n + 1
  <2>1. Cardinality(S) \in Nat /\ Cardinality(S) # 0
    BY FS_CardinalityType, FS_EmptySet
  <2> QED
    BY <2>1
<1> QED
  BY <1>3, <1>4 DEF A

LEMMA HighestOf ==
  ASSUME NEW S \in SUBSET Int, IsFiniteSet(S), S # {}
  PROVE  Highest(S) \in S /\ \A u \in S : u <= Highest(S)
  BY Extremes DEF Highest

LEMMA EarliestOf ==
  ASSUME NEW S \in SUBSET Int, IsFiniteSet(S), S # {}
  PROVE  Earliest(S) \in S /\ \A u \in S : Earliest(S) <= u
  BY Extremes DEF Earliest

LEMMA FiniteImage ==
  ASSUME NEW D, IsFiniteSet(D), NEW f
  PROVE  IsFiniteSet({f[x] : x \in D})
<1> DEFINE T == {f[x] : x \in D}
           g == [x \in D |-> f[x]]
<1>1. g \in Surjection(D, T)
  BY DEF Surjection
<1> QED
  BY <1>1, FS_Surjection

-----------------------------------------------------------------------------
(* What the operators of CooldownRules keep of a credential.               *)
Keeps(a, b) == b \in Auths /\ b.token = a.token /\ b.counted = a.counted

LEMMA MapsOf ==
  /\ \A D \in SUBSET Models : [D -> States] \subseteq Maps
  /\ \A f \in Maps : DOMAIN f \subseteq Models /\ IsFiniteSet(DOMAIN f) /\ f \in [DOMAIN f -> States]
  BY FS_Subset, ModelsAssumption DEF Maps

LEMMA StateTypes ==
  /\ Quiet \in Quotas /\ Clean \in States
  /\ \A D \in SUBSET Models : [m \in D |-> Clean] \in Maps
<1>1. Quiet \in Quotas /\ Clean \in States
  BY DEF Quiet, Clean, Quotas, States, Reasons, Statuses, Errors
<1> QED
  BY <1>1, MapsOf

LEMMA FreshType == Fresh \in Auths /\ Fresh.token = 0 /\ Fresh.counted = 0
<1>1. << >> \in [{} -> States]
  OBVIOUS
<1>2. << >> \in Maps
  BY <1>1, MapsOf
<1> QED
  BY <1>2, StateTypes DEF Fresh, Auths, Statuses, Errors

LEMMA BackoffType ==
  ASSUME NEW l \in Nat PROVE Backoff(l) \in Int /\ NextLevel(l) \in Nat
<1>1. 2^l \in Int
  OBVIOUS
<1>2. PICK e \in Int : e = 2^l
  BY <1>1
<1> QED
  BY <1>2, DurationsAssumption DEF Backoff, NextLevel

Windows == [until : Int, level : Nat]

LEMMA WindowType ==
  ASSUME NEW q \in Quotas, NEW r \in Results, NEW t \in Nat
  PROVE  QuotaWindow(q, r, t) \in Windows /\ ChallengeAfterFailure(q, t) \in Windows
<1>1. QuotaAfterFailure(q, t) \in Windows
  BY BackoffType DEF QuotaAfterFailure, Quotas, Windows
<1>2. ChallengeAfterFailure(q, t) \in Windows
  BY BackoffType, DurationsAssumption DEF ChallengeAfterFailure, Quotas, Windows, Later
<1>3. PICK w \in Windows : w = IF r.retryAfter # 0 THEN [until |-> t + r.retryAfter, level |-> q.level]
                               ELSE QuotaAfterFailure(q, t)
  <2>1. r.retryAfter \in Nat
    BY BoundsAssumption
  <2>2. [until |-> t + r.retryAfter, level |-> q.level] \in Windows
    BY <2>1 DEF Quotas, Windows
  <2> QED
    BY <1>1, <2>2
<1>4. QuotaWindow(q, r, t) = [w EXCEPT !.until = Later(w.until, IF q.exceeded THEN q.recoverAt ELSE 0)]
  BY <1>3 DEF QuotaWindow
<1>5. Later(w.until, IF q.exceeded THEN q.recoverAt ELSE 0) \in Int
  BY DEF Later, Quotas, Windows
<1> QED
  BY <1>2, <1>4, <1>5 DEF Windows

LEMMA StateOps ==
  ASSUME NEW x \in States
  PROVE  /\ Uncooled(x) \in States
         /\ \A t \in Nat : Lapse(x, t) \in States
         /\ \A t \in Int : Shut(x, t) \in States
         /\ \A t \in Int, y \in Reasons, l \in Nat : Limited(x, t, y, l) \in States
         /\ \A b \in BOOLEAN : Unshut(x, b) \in States
<1> USE DEF States, Statuses
<1>1. Uncooled(x) \in States
  <2>1. PICK q \in Quotas, z \in Int : q = Quiet /\ z = 0
    BY StateTypes
  <2>2. Uncooled(x) = [x EXCEPT !.unavail = FALSE, !.retryAt = z, !.quota = q]
    BY <2>1, Zenon DEF Uncooled
  <2> QED
    BY <2>2
<1>2. ASSUME NEW t \in Nat PROVE Lapse(x, t) \in States
  <2>1. PICK z \in Int : z = 0
    OBVIOUS
  <2>2. [x EXCEPT !.unavail = FALSE, !.retryAt = z] \in States
    OBVIOUS
  <2> QED
    BY <2>1, <2>2, Zenon DEF Lapse
<1> USE DEF Quotas
<1>3. \A t \in Int : Shut(x, t) \in States
  BY DEF Shut
<1>4. \A t \in Int, y \in Reasons, l \in Nat : Limited(x, t, y, l) \in States
  BY <1>3 DEF Limited
<1>5. \A b \in BOOLEAN : Unshut(x, b) \in States
  BY DEF Unshut
<1> QED
  BY <1>1, <1>2, <1>3, <1>4, <1>5

LEMMA AuthOps ==
  ASSUME NEW a \in Auths
  PROVE  /\ Keeps(a, Uncooled(a))
         /\ \A t \in Int : Keeps(a, Shut(a, t))
         /\ \A t \in Int, y \in Reasons, l \in Nat : Keeps(a, Limited(a, t, y, l))
         /\ \A b \in BOOLEAN : Keeps(a, Unshut(a, b))
         /\ \A m \in Models, y \in States : Keeps(a, WithState(a, m, y))
         /\ \A m \in Models : StateOf(a, m) \in States
<1> USE DEF Auths, Statuses, Keeps
<1>1. Keeps(a, Uncooled(a))
  <2>1. PICK q \in Quotas, z \in Int : q = Quiet /\ z = 0
    BY StateTypes
  <2>2. Uncooled(a) = [a EXCEPT !.unavail = FALSE, !.retryAt = z, !.quota = q]
    BY <2>1, Zenon DEF Uncooled
  <2> QED
    BY <2>2
<1> USE DEF Quotas
<1>2. \A t \in Int : Keeps(a, Shut(a, t))
  BY DEF Shut
<1>3. \A t \in Int, y \in Reasons, l \in Nat : Keeps(a, Limited(a, t, y, l))
  BY <1>2 DEF Limited
<1>4. \A b \in BOOLEAN : Keeps(a, Unshut(a, b))
  BY DEF Unshut
<1>5. ASSUME NEW m \in Models, NEW y \in States PROVE Keeps(a, WithState(a, m, y))
  <2>1. PICK f : f = [k \in DOMAIN a.models \cup {m} |-> IF k = m THEN y ELSE a.models[k]]
    OBVIOUS
  <2>2. a.models \in Maps
    OBVIOUS
  <2>3. f \in Maps
    <3>1. f \in [DOMAIN a.models \cup {m} -> States]
      BY <2>1, <2>2, MapsOf
    <3> QED
      BY <2>2, <3>1, MapsOf
  <2> QED
    BY <2>1, <2>3 DEF WithState
<1>6. \A m \in Models : StateOf(a, m) \in States
  <2>1. a.models \in Maps
    OBVIOUS
  <2> QED
    BY <2>1, MapsOf, StateTypes DEF StateOf
<1> QED
  BY <1>1, <1>2, <1>3, <1>4, <1>5, <1>6

LEMMA AggregatedQuotaType ==
  ASSUME NEW a \in Auths, NEW S \in SUBSET States, IsFiniteSet(S), NEW t \in Nat
  PROVE  AggregatedQuota(a, S, t) \in Quotas
<1> DEFINE over    == {s \in S : s.quota.exceeded}
           at      == [s \in over |-> s.quota.recoverAt]
           lv      == [s \in over |-> s.quota.level]
           recover == {s.quota.recoverAt : s \in over} \ {0}
           levels  == {s.quota.level : s \in over}
<1>1. IsFiniteSet(over)
  BY FS_Subset
<1>2. IsFiniteSet({s.quota.recoverAt : s \in over}) /\ IsFiniteSet(levels)
  <2>1. IsFiniteSet({at[s] : s \in over}) /\ IsFiniteSet({lv[s] : s \in over})
    BY <1>1, FiniteImage, Zenon
  <2>2. {at[s] : s \in over} = {s.quota.recoverAt : s \in over} /\ {lv[s] : s \in over} = levels
    OBVIOUS
  <2> QED
    BY <2>1, <2>2
<1>3. IsFiniteSet(recover) /\ recover \subseteq Int /\ levels \subseteq Nat
  BY <1>2, FS_Subset DEF States, Quotas
<1>4. recover # {} => Earliest(recover) \in Int
  BY <1>3, EarliestOf
<1>5. over # {} => Highest(levels) \in Nat
  <2>1. over # {} => levels # {}
    OBVIOUS
  <2>2. levels \in SUBSET Int
    BY <1>3
  <2> HIDE DEF levels, over
  <2> QED
    BY <1>2, <1>3, <2>1, <2>2, HighestOf
<1>6. a.quota \in Quotas /\ a.quota.recoverAt \in Int
  BY DEF Auths, Quotas
<1>7. PICK e : e = IF recover = {} THEN 0 ELSE Earliest(recover)
  OBVIOUS
<1>8. e \in Int /\ Later(a.quota.recoverAt, e) \in Int
  BY <1>4, <1>6, <1>7 DEF Later
<1>9. over # {} =>
        [exceeded |-> TRUE, reason |-> "quota", recoverAt |-> Later(a.quota.recoverAt, e),
         level |-> Highest(levels)] \in Quotas
  BY <1>5, <1>8 DEF Quotas, Reasons
<1> HIDE DEF over, levels, recover
<1>10. AggregatedQuota(a, S, t) =
         IF over # {}
         THEN [exceeded |-> TRUE, reason |-> "quota", recoverAt |-> Later(a.quota.recoverAt, e),
               level |-> Highest(levels)]
         ELSE IF a.quota.exceeded /\ a.quota.recoverAt > t THEN a.quota ELSE Quiet
  BY <1>7, Zenon DEF AggregatedQuota, over, levels, recover
<1> QED
  BY <1>6, <1>9, <1>10, StateTypes

LEMMA AggregateKeeps ==
  ASSUME NEW a \in Auths, NEW t \in Nat
  PROVE  Keeps(a, Aggregate(a, t))
<1> DEFINE models == [m \in DOMAIN a.models |-> Lapse(a.models[m], t)]
           states == {models[m] : m \in DOMAIN models}
           shut(s) == s.unavail /\ s.retryAt > t
           all    == \A s \in states : shut(s)
           at     == [s \in states |-> s.retryAt]
           due    == {s.retryAt : s \in states}
<1>1. a.models \in Maps
  BY DEF Auths
<1>2. models \in [DOMAIN a.models -> States] /\ models \in Maps
  BY <1>1, MapsOf, StateOps
<1>3. states \subseteq States /\ IsFiniteSet(states)
  BY <1>1, <1>2, MapsOf, FiniteImage
<1>4. IsFiniteSet(due) /\ due \subseteq Int
  <2> HIDE DEF states
  <2>1. {at[s] : s \in states} = due
    OBVIOUS
  <2>2. IsFiniteSet({at[s] : s \in states})
    BY <1>3, FiniteImage, Zenon
  <2> QED
    BY <1>3, <2>1, <2>2 DEF States
<1>5. states # {} => Earliest(due) \in Int
  <2> HIDE DEF states
  <2>1. states # {} => due # {}
    OBVIOUS
  <2> HIDE DEF due
  <2> QED
    BY <1>4, <2>1, EarliestOf
<1>6. AggregatedQuota(a, states, t) \in Quotas
  BY <1>3, AggregatedQuotaType
<1> HIDE DEF models, states, due, all
<1>7. PICK b : b = all
  OBVIOUS
<1>8. PICK e : e = IF b THEN Earliest(due) ELSE 0
  OBVIOUS
<1>9. PICK q : q = AggregatedQuota(a, states, t)
  OBVIOUS
<1>10. Aggregate(a, t) =
         IF CredentialWindow(a, t) THEN [a EXCEPT !.unavail = TRUE]
         ELSE IF states = {} THEN Uncooled(a)
         ELSE [a EXCEPT !.models = models, !.unavail = b, !.retryAt = e, !.quota = q]
  BY <1>7, <1>8, <1>9, Zenon DEF Aggregate, models, states, due, all
<1>11. Keeps(a, [a EXCEPT !.unavail = TRUE]) /\ Keeps(a, Uncooled(a))
  BY AuthOps DEF Keeps, Auths
<1>12. states # {} => Keeps(a, [a EXCEPT !.models = models, !.unavail = b, !.retryAt = e, !.quota = q])
  <2>1. b \in BOOLEAN /\ (states # {} => e \in Int) /\ q \in Quotas
    BY <1>5, <1>6, <1>7, <1>8, <1>9 DEF all
  <2> QED
    BY <1>2, <2>1 DEF Keeps, Auths
<1> QED
  BY <1>10, <1>11, <1>12

LEMMA ForgiveKeeps ==
  ASSUME NEW a \in Auths, NEW t \in Nat
  PROVE  Keeps(a, Forgive(a, t))
  BY DEF Forgive, Keeps, Auths, Errors, Statuses

(* Failed applies to a model's state and to the whole credential: it closes *)
(* it with one of the shapes Shut and Limited.                              *)
LEMMA FailedShape ==
  ASSUME NEW x, x.quota \in Quotas, NEW r \in Results, NEW t \in Nat, NEW b \in BOOLEAN,
         NEW y, y = [x EXCEPT !.err = ErrOf(r)]
  PROVE  \/ \E u \in Int : Failed(x, r, t, b) = Shut(y, u)
         \/ \E u \in Int, z \in Reasons, l \in Nat : Failed(x, r, t, b) = Limited(y, u, z, l)
         \/ \E u \in Int : Failed(x, r, t, b) = [Shut(y, u) EXCEPT !.unavail = u # 0]
<1> DEFINE open == [until |-> 0, level |-> x.quota.level]
<1>1. open \in Windows
  BY DEF Windows, Quotas
<1>2. PICK w \in Windows : w = IF b THEN open ELSE QuotaWindow(x.quota, r, t)
  BY <1>1, WindowType
<1>3. PICK c \in Windows : c = IF b THEN open ELSE ChallengeAfterFailure(x.quota, t)
  BY <1>1, WindowType
<1>4. PICK s \in Int : s = Window(t, Transient, b)
  BY DurationsAssumption DEF Window
<1>5. PICK lp \in Int : lp = Window(t, LongPenalty, b)
  BY DurationsAssumption DEF Window
<1>6. PICK pe \in Int : pe = Window(t, Penalty, b)
  BY DurationsAssumption DEF Window
<1>7. PICK tp \in Int : tp = t + Penalty
  BY DurationsAssumption
<1>8. PICK tl \in Int : tl = t + LongPenalty
  BY DurationsAssumption
<1>9. PICK nought \in Int : nought = 0
  OBVIOUS
<1>10. nought \in Nat
  BY <1>9
<1>11. w.until \in Int /\ w.level \in Nat /\ c.until \in Int /\ c.level \in Nat
  BY DEF Windows
<1>12. {"quota", "challenge", "credential"} \subseteq Reasons
  BY DEF Reasons
<1>13. Failed(x, r, t, b) =
         CASE r.class = "quota"       -> Limited(y, w.until, "quota", w.level)
           [] r.class = "challenge"   -> Limited(y, c.until, "challenge", c.level)
           [] r.class = "invalidkey"  -> IF b THEN Shut(y, nought) ELSE Limited(y, tp, "credential", nought)
           [] r.class = "unsupported" -> Shut(y, tl)
           [] r.class = "notfound"    -> Shut(y, lp)
           [] r.class = "transient"   -> [Shut(y, s) EXCEPT !.unavail = s # 0]
           [] OTHER                   -> Shut(y, pe)
  BY <1>2, <1>3, <1>4, <1>5, <1>6, <1>7, <1>8, <1>9, Zenon DEF Failed
<1>14. CASE r.class = "quota"
  BY <1>14, <1>11, <1>12, <1>13
<1>15. CASE r.class = "challenge"
  BY <1>15, <1>11, <1>12, <1>13
<1>16. CASE r.class = "invalidkey"
  BY <1>16, <1>10, <1>12, <1>13
<1>17. CASE r.class \notin {"quota", "challenge", "invalidkey"}
  BY <1>17, <1>13
<1> QED
  BY <1>14, <1>15, <1>16, <1>17

LEMMA ErrType == ASSUME NEW r PROVE ErrOf(r) \in Errors
  BY DEF ErrOf, Errors

LEMMA FailedState ==
  ASSUME NEW x \in States, NEW r \in Results, NEW t \in Nat, NEW b \in BOOLEAN
  PROVE  Failed(x, r, t, b) \in States
<1>1. x.quota \in Quotas
  BY DEF States
<1>2. PICK y : y = [x EXCEPT !.err = ErrOf(r)]
  OBVIOUS
<1>3. y \in States
  BY <1>2, ErrType DEF States
<1>4. ASSUME NEW u \in Int PROVE [Shut(y, u) EXCEPT !.unavail = u # 0] \in States
  <2>1. Shut(y, u) \in States
    BY <1>3, StateOps
  <2>2. PICK v \in BOOLEAN : v = (u # 0)
    OBVIOUS
  <2> QED
    BY <2>1, <2>2 DEF States
<1>5. \/ \E u \in Int : Failed(x, r, t, b) = Shut(y, u)
      \/ \E u \in Int, z \in Reasons, l \in Nat : Failed(x, r, t, b) = Limited(y, u, z, l)
      \/ \E u \in Int : Failed(x, r, t, b) = [Shut(y, u) EXCEPT !.unavail = u # 0]
  BY <1>1, <1>2, FailedShape
<1> QED
  BY <1>3, <1>4, <1>5, StateOps

LEMMA FailedAuth ==
  ASSUME NEW a \in Auths, NEW r \in Results, NEW t \in Nat, NEW b \in BOOLEAN
  PROVE  Keeps(a, Failed(a, r, t, b))
<1>1. a.quota \in Quotas
  BY DEF Auths
<1>2. PICK y : y = [a EXCEPT !.err = ErrOf(r)]
  OBVIOUS
<1>3. Keeps(a, y)
  BY <1>2, ErrType DEF Auths, Keeps
<1>4. ASSUME NEW u \in Int PROVE Keeps(y, [Shut(y, u) EXCEPT !.unavail = u # 0])
  <2>1. Keeps(y, Shut(y, u))
    BY <1>3, AuthOps DEF Keeps
  <2>2. PICK v \in BOOLEAN : v = (u # 0)
    OBVIOUS
  <2> QED
    BY <2>1, <2>2 DEF Auths, Keeps
<1>5. \/ \E u \in Int : Failed(a, r, t, b) = Shut(y, u)
      \/ \E u \in Int, z \in Reasons, l \in Nat : Failed(a, r, t, b) = Limited(y, u, z, l)
      \/ \E u \in Int : Failed(a, r, t, b) = [Shut(y, u) EXCEPT !.unavail = u # 0]
  BY <1>1, <1>2, FailedShape
<1>6. Keeps(y, Failed(a, r, t, b))
  <2>1. y \in Auths
    BY <1>3 DEF Keeps
  <2>2. /\ \A u \in Int : Keeps(y, Shut(y, u))
        /\ \A u \in Int, z \in Reasons, l \in Nat : Keeps(y, Limited(y, u, z, l))
    BY <2>1, AuthOps
  <2> QED
    BY <1>4, <1>5, <2>2, Zenon
<1> QED
  BY <1>3, <1>6 DEF Keeps

LEMMA SpreadQuotaKeeps ==
  ASSUME NEW a \in Auths, NEW m, NEW u \in Int, NEW l \in Nat
  PROVE  Keeps(a, SpreadQuota(a, m, u, l))
<1> DEFINE reach(s) == Limited(s, Later(u, IF s.quota.exceeded THEN s.quota.recoverAt ELSE 0), "credential", l)
           models   == [k \in DOMAIN a.models |-> IF k = m THEN a.models[k] ELSE reach(a.models[k])]
<1>1. a.models \in Maps /\ a.quota \in Quotas /\ "credential" \in Reasons
  BY DEF Auths, Reasons
<1>2. ASSUME NEW s \in States PROVE reach(s) \in States
  <2>1. Later(u, IF s.quota.exceeded THEN s.quota.recoverAt ELSE 0) \in Int
    BY DEF States, Quotas, Later
  <2> QED
    BY <1>1, <2>1, StateOps
<1>3. models \in Maps
  <2> HIDE DEF reach
  <2>1. models \in [DOMAIN a.models -> States]
    BY <1>1, <1>2, MapsOf
  <2> QED
    BY <1>1, <2>1, MapsOf
<1> HIDE DEF models
<1>4. PICK last \in Int : last = Later(u, a.quota.recoverAt)
  BY <1>1 DEF Quotas, Later
<1>5. PICK q : q = [a.quota EXCEPT !.exceeded = TRUE, !.reason = "credential", !.recoverAt = last]
  OBVIOUS
<1>6. q \in Quotas
  BY <1>1, <1>5 DEF Quotas
<1>7. SpreadQuota(a, m, u, l) = [a EXCEPT !.models = models, !.unavail = TRUE, !.retryAt = last, !.quota = q]
  BY <1>4, <1>5, Zenon DEF SpreadQuota, models
<1> QED
  BY <1>3, <1>6, <1>7 DEF Auths, Keeps

LEMMA SpreadInvalidKeyKeeps ==
  ASSUME NEW a \in Auths, NEW u \in Int
  PROVE  Keeps(a, SpreadInvalidKey(a, u))
<1> DEFINE shut == [m \in DOMAIN a.models |-> Limited(a.models[m], u, "credential", 0)]
<1>1. a.models \in Maps /\ "credential" \in Reasons /\ 0 \in Nat
  BY DEF Auths, Reasons
<1>2. shut \in Maps
  <2>1. shut \in [DOMAIN a.models -> States]
    BY <1>1, MapsOf, StateOps
  <2> QED
    BY <1>1, <2>1, MapsOf
<1>3. PICK y : y = Limited(a, u, "credential", 0)
  OBVIOUS
<1>4. Keeps(a, y)
  BY <1>1, <1>3, AuthOps
<1> HIDE DEF shut
<1>5. SpreadInvalidKey(a, u) = [y EXCEPT !.models = shut]
  BY <1>3, Zenon DEF SpreadInvalidKey, shut
<1> QED
  BY <1>2, <1>4, <1>5 DEF Auths, Keeps

LEMMA KeepsChain ==
  /\ \A a \in Auths : Keeps(a, a)
  /\ \A a, b, c : Keeps(a, b) /\ Keeps(b, c) => Keeps(a, c)
  /\ \A a, b : Keeps(a, b) => b \in Auths
  BY DEF Keeps

LEMMA FailModelKeeps ==
  ASSUME NEW a \in Auths, NEW r \in Results, r.model \in Models, NEW t \in Nat, NEW off1 \in BOOLEAN
  PROVE  Keeps(a, FailModel(a, r, t, off1))
<1>1. PICK s : s = Failed(StateOf(a, r.model), r, t, off1)
  OBVIOUS
<1>2. s \in States /\ s.quota.recoverAt \in Int /\ s.quota.level \in Nat
  <2>1. s \in States
    BY <1>1, AuthOps, FailedState
  <2> QED
    BY <2>1 DEF States, Quotas
<1>3. PICK b : b = [WithState(a, r.model, s) EXCEPT !.err = ErrOf(r)]
  OBVIOUS
<1>4. Keeps(a, b)
  <2>1. Keeps(a, WithState(a, r.model, s))
    BY <1>2, AuthOps
  <2> QED
    BY <1>3, <2>1, ErrType DEF Keeps, Auths
<1>5. PICK c : c = CASE r.class = "quota" /\ r.scope /\ ~off1 -> SpreadQuota(b, r.model, s.quota.recoverAt, s.quota.level)
                     [] r.class = "invalidkey" /\ ~off1       -> SpreadInvalidKey(b, t + Penalty)
                     [] OTHER                                 -> b
  OBVIOUS
<1>6. Keeps(a, c)
  <2>1. Keeps(b, SpreadQuota(b, r.model, s.quota.recoverAt, s.quota.level))
    BY <1>2, <1>4, SpreadQuotaKeeps, KeepsChain
  <2>2. Keeps(b, SpreadInvalidKey(b, t + Penalty))
    BY <1>4, SpreadInvalidKeyKeeps, KeepsChain, DurationsAssumption
  <2>3. c \in {SpreadQuota(b, r.model, s.quota.recoverAt, s.quota.level),
               SpreadInvalidKey(b, t + Penalty), b}
    <3>1. CASE r.class = "quota" /\ r.scope /\ ~off1
      BY <1>5, <3>1
    <3>2. CASE ~(r.class = "quota" /\ r.scope /\ ~off1) /\ r.class = "invalidkey" /\ ~off1
      BY <1>5, <3>2
    <3>3. CASE ~(r.class = "quota" /\ r.scope /\ ~off1) /\ ~(r.class = "invalidkey" /\ ~off1)
      BY <1>5, <3>3
    <3> QED
      BY <3>1, <3>2, <3>3
  <2> QED
    BY <1>4, <2>1, <2>2, <2>3, KeepsChain
<1>7. r.model \in DOMAIN c.models /\ c.models[r.model] \in States
  <2>1. r.model \in DOMAIN b.models
    <3>1. DOMAIN WithState(a, r.model, s).models = DOMAIN a.models \cup {r.model}
      BY DEF WithState, Auths
    <3>2. WithState(a, r.model, s) \in Auths
      BY <1>2, AuthOps, KeepsChain
    <3>3. b.models = WithState(a, r.model, s).models
      BY <1>3, <3>2 DEF Auths
    <3> QED
      BY <3>1, <3>3
  <2>2. b \in Auths /\ c \in Auths
    BY <1>4, <1>6, KeepsChain
  <2>3. DOMAIN SpreadQuota(b, r.model, s.quota.recoverAt, s.quota.level).models = DOMAIN b.models
    BY <2>2 DEF SpreadQuota, Auths
  <2>4. DOMAIN SpreadInvalidKey(b, t + Penalty).models = DOMAIN b.models
    <3>1. Limited(b, t + Penalty, "credential", 0) \in Auths
      <4>1. t + Penalty \in Int /\ "credential" \in Reasons /\ 0 \in Nat
        BY DurationsAssumption DEF Reasons
      <4> QED
        BY <2>2, <4>1, AuthOps, KeepsChain
    <3> QED
      BY <3>1 DEF SpreadInvalidKey, Auths
  <2>5. DOMAIN c.models = DOMAIN b.models
    BY <1>5, <2>3, <2>4
  <2> QED
    BY <2>1, <2>2, <2>5, MapsOf DEF Auths
<1>8. PICK d : d = WithState(c, r.model, Unshut(c.models[r.model], off1))
  OBVIOUS
<1>9. Keeps(c, d)
  <2>1. c \in Auths /\ Unshut(c.models[r.model], off1) \in States
    BY <1>6, <1>7, StateOps DEF Keeps
  <2> QED
    BY <1>8, <2>1, AuthOps
<1>10. PICK f : f = [d EXCEPT !.status = "error"]
  OBVIOUS
<1>11. Keeps(d, f) /\ Keeps(f, Aggregate(f, t))
  <2>1. d \in Auths /\ "error" \in Statuses
    BY <1>9 DEF Keeps, Statuses
  <2>2. Keeps(d, f)
    BY <1>10, <2>1 DEF Keeps, Auths, Statuses
  <2>3. f \in Auths
    BY <2>2 DEF Keeps
  <2> QED
    BY <2>2, <2>3, AggregateKeeps
<1>12. FailModel(a, r, t, off1) = Aggregate(f, t)
  BY <1>1, <1>3, <1>5, <1>8, <1>10, Zenon DEF FailModel
<1> QED
  BY <1>6, <1>9, <1>11, <1>12, KeepsChain

LEMMA FailCredentialKeeps ==
  ASSUME NEW a \in Auths, NEW r \in Results, NEW t \in Nat, NEW off1 \in BOOLEAN
  PROVE  Keeps(a, FailCredential(a, r, t, off1))
<1>1. PICK b : b = Failed(a, r, t, off1)
  OBVIOUS
<1>2. Keeps(a, b)
  BY <1>1, FailedAuth
<1>3. Keeps(b, SpreadInvalidKey(b, t + Penalty))
  BY <1>2, SpreadInvalidKeyKeeps, KeepsChain, DurationsAssumption
<1>4. PICK c : c = IF r.class = "invalidkey" /\ ~off1 THEN SpreadInvalidKey(b, t + Penalty) ELSE b
  OBVIOUS
<1>5. Keeps(a, c) /\ Keeps(c, Unshut(c, off1))
  BY <1>2, <1>3, <1>4, AuthOps, KeepsChain
<1>6. FailCredential(a, r, t, off1) = Unshut(c, off1)
  BY <1>1, <1>4, Zenon DEF FailCredential
<1> QED
  BY <1>5, <1>6, KeepsChain

(* A forced cooldown overrides the switch, which is off anyway here.        *)
LEMMA NothingSpared == \A r \in Results : Spared(r, FALSE) = FALSE
  BY DEF Spared

LEMMA FailureKeeps ==
  ASSUME NEW a \in Auths, NEW r \in Results, NEW t \in Nat, NEW off1 \in BOOLEAN
  PROVE  Keeps(a, ApplyFailure(a, r, t, off1))
<1>1. r.model \in Models \cup {NoModel} /\ NoModel \notin Models
  BY BoundsAssumption, ModelsAssumption
<1>2. PICK o \in BOOLEAN : o = Spared(r, off1)
  BY DEF Spared
<1>3. r.model \in Models => Keeps(a, FailModel(a, r, t, o))
  BY FailModelKeeps
<1>4. Keeps(a, FailCredential(a, r, t, o))
  BY FailCredentialKeeps
<1> QED
  BY <1>1, <1>2, <1>3, <1>4, KeepsChain DEF ApplyFailure

LEMMA SuccessKeeps ==
  ASSUME NEW a \in Auths, NEW r \in Results, NEW t \in Nat
  PROVE  Keeps(a, ApplySuccess(a, r, t))
<1>1. r.model \in Models \cup {NoModel} /\ NoModel \notin Models
  BY BoundsAssumption, ModelsAssumption
<1>2. PICK u : u = Uncooled(a)
  OBVIOUS
<1>3. Keeps(a, [u EXCEPT !.status = "active", !.err = "none"])
  <2>1. Keeps(a, u)
    BY <1>2, AuthOps
  <2> QED
    BY <2>1 DEF Keeps, Auths, Statuses, Errors
<1>4. r.model \in Models => Keeps(a, Forgive(Aggregate(WithState(a, r.model, Clean), t), t))
  <2>1. r.model \in Models => Keeps(a, WithState(a, r.model, Clean))
    BY StateTypes, AuthOps
  <2> QED
    BY <2>1, AggregateKeeps, ForgiveKeeps, KeepsChain
<1> QED
  BY <1>1, <1>2, <1>3, <1>4, KeepsChain DEF ApplySuccess

LEMMA ResultCounts ==
  ASSUME NEW a \in Auths, NEW r \in Results, NEW t \in Nat, NEW off1 \in BOOLEAN
  PROVE  LET b == ApplyResult(a, r, t, off1)
         IN  b \in Auths /\ b.token = a.token /\ b.counted = a.counted + 1
<1>1. Keeps(a, ApplyFailure(a, r, t, off1))
  BY FailureKeeps
<1>2. Keeps(a, ApplySuccess(a, r, t))
  BY SuccessKeeps
<1>3. PICK b : b = IF r.class = "success" THEN ApplySuccess(a, r, t) ELSE ApplyFailure(a, r, t, off1)
  OBVIOUS
<1>4. Keeps(a, b)
  BY <1>1, <1>2, <1>3
<1>5. PICK n \in Nat : n = b.counted + 1
  BY <1>4 DEF Keeps, Auths
<1>6. ApplyResult(a, r, t, off1) = [b EXCEPT !.counted = n]
  BY <1>3, <1>5, Zenon DEF ApplyResult, Counted
<1> QED
  BY <1>4, <1>5, <1>6 DEF Keeps, Auths

(* The other writers. *)
LEMMA ClearKeeps ==
  ASSUME NEW a \in Auths, NEW t \in Nat
  PROVE  Keeps(a, ClearCooldown(a, t))
<1>1. PICK own : own = IF Cooling(a) THEN Uncooled(a) ELSE a
  OBVIOUS
<1>2. Keeps(a, own)
  BY <1>1, AuthOps, KeepsChain
<1>3. PICK f : f = [m \in DOMAIN a.models |->
                      IF Cooling(a.models[m]) THEN Uncooled(a.models[m]) ELSE a.models[m]]
  OBVIOUS
<1>4. a.models \in Maps
  BY DEF Auths
<1>5. f \in Maps
  <2>1. f \in [DOMAIN a.models -> States]
    BY <1>3, <1>4, MapsOf, StateOps
  <2> QED
    BY <1>4, <2>1, MapsOf
<1>6. PICK b : b = [own EXCEPT !.models = f]
  OBVIOUS
<1>7. Keeps(own, b)
  BY <1>2, <1>5, <1>6 DEF Keeps, Auths
<1>8. Keeps(b, Aggregate(b, t))
  BY <1>7, AggregateKeeps DEF Keeps
<1>9. ClearCooldown(a, t) = IF DOMAIN a.models = {} THEN b ELSE Aggregate(b, t)
  BY <1>1, <1>3, <1>6, Zenon DEF ClearCooldown
<1> QED
  BY <1>2, <1>7, <1>8, <1>9 DEF Keeps

LEMMA ResetKeeps ==
  ASSUME NEW a \in Auths, NEW t \in Nat
  PROVE  Keeps(a, Reset(a, t))
<1>1. PICK f : f = [m \in DOMAIN a.models |-> Clean]
  OBVIOUS
<1>2. f \in Maps
  <2>1. DOMAIN a.models \in SUBSET Models
    BY MapsOf DEF Auths
  <2> QED
    BY <1>1, <2>1, StateTypes
<1>3. PICK c : c = [a EXCEPT !.models = f]
  OBVIOUS
<1>4. Keeps(a, c)
  BY <1>2, <1>3 DEF Keeps, Auths
<1>5. PICK b : b = ClearCooldown(c, t)
  OBVIOUS
<1>6. Keeps(c, b)
  BY <1>4, <1>5, ClearKeeps DEF Keeps
<1>7. Keeps(b, Forgive(b, t))
  BY <1>6, ForgiveKeeps DEF Keeps
<1>8. Reset(a, t) = IF a.disabled THEN b ELSE Forgive(b, t)
  BY <1>1, <1>3, <1>5, Zenon DEF Reset
<1> QED
  BY <1>4, <1>6, <1>7, <1>8 DEF Keeps

LEMMA ReconcileKeeps ==
  ASSUME NEW a \in Auths, NEW t \in Nat, NEW S \in SUBSET Models
  PROVE  Keeps(a, Reconcile(a, S, t))
<1>1. PICK f : f = [m \in DOMAIN a.models \cap S |-> Clean]
  OBVIOUS
<1>2. f \in Maps
  BY <1>1, StateTypes
<1>3. PICK b : b = [a EXCEPT !.models = f]
  OBVIOUS
<1>4. Keeps(a, b)
  BY <1>2, <1>3 DEF Keeps, Auths
<1>5. PICK c : c = Aggregate(b, t)
  OBVIOUS
<1>6. Keeps(b, c)
  BY <1>4, <1>5, AggregateKeeps DEF Keeps
<1>7. Keeps(c, Forgive(c, t))
  BY <1>6, ForgiveKeeps DEF Keeps
<1>8. Reconcile(a, S, t) = IF f = a.models THEN a ELSE Forgive(c, t)
  BY <1>1, <1>3, <1>5 DEF Reconcile
<1> QED
  BY <1>4, <1>6, <1>7, <1>8, KeepsChain DEF Keeps

(* Update takes the token of the new record and the totals of the old one. *)
LEMMA MergeCounts ==
  ASSUME NEW new \in Auths, NEW old \in Auths, NEW t \in Nat, NEW off1 \in BOOLEAN
  PROVE  LET b == Merge(new, old, t, off1)
         IN  b \in Auths /\ b.token = new.token /\ b.counted = old.counted
<1>1. PICK inherit : inherit = (~old.disabled /\ ~new.disabled)
  OBVIOUS
<1>2. PICK f : f = IF inherit /\ DOMAIN new.models = {} THEN old.models ELSE new.models
  OBVIOUS
<1>3. PICK n : n = Totals(new, old)
  OBVIOUS
<1>4. PICK carried : carried = [new EXCEPT !.counted = n, !.models = f]
  OBVIOUS
<1>5. f \in Maps /\ n \in Nat /\ n = old.counted
  BY <1>2, <1>3 DEF Auths, Totals
<1>6. carried \in Auths /\ carried.token = new.token /\ carried.counted = n
  BY <1>4, <1>5 DEF Auths
<1>7. PICK y : y = IF new.status = "active" THEN old.status ELSE new.status
  OBVIOUS
<1>8. y \in Statuses
  BY <1>7 DEF Auths
<1>9. PICK taken : taken = [carried EXCEPT !.unavail = old.unavail, !.retryAt = old.retryAt,
                                           !.quota = old.quota, !.status = y]
  OBVIOUS
<1>10. Keeps(carried, taken)
  BY <1>6, <1>8, <1>9 DEF Keeps, Auths
<1>11. PICK merged : merged = IF inherit /\ CredentialWindow(old, t) THEN taken ELSE carried
  OBVIOUS
<1>12. Keeps(carried, merged)
  BY <1>6, <1>10, <1>11, KeepsChain
<1>13. Keeps(merged, ClearCooldown(merged, t))
  BY <1>12, ClearKeeps DEF Keeps
<1>14. Merge(new, old, t, off1) = IF off1 \/ new.disabled THEN ClearCooldown(merged, t) ELSE merged
  BY <1>1, <1>2, <1>3, <1>4, <1>7, <1>9, <1>11, Zenon DEF Merge
<1> QED
  BY <1>5, <1>6, <1>12, <1>13, <1>14 DEF Keeps

LEMMA RefreshedType ==
  ASSUME NEW a \in Auths, NEW k \in Nat, NEW t \in Nat
  PROVE  LET b == Refreshed(a, k, t)
         IN  b \in Auths /\ b.token = k /\ b.counted = a.counted
<1>1. PICK denied : denied = {m \in DOMAIN a.models : a.models[m].err = "unauthorized"}
  OBVIOUS
<1>2. PICK f : f = [m \in DOMAIN a.models |-> IF m \in denied THEN Clean ELSE a.models[m]]
  OBVIOUS
<1>3. f \in Maps
  <2>1. a.models \in Maps
    BY DEF Auths
  <2>2. f \in [DOMAIN a.models -> States]
    BY <1>2, <2>1, MapsOf, StateTypes
  <2> QED
    BY <2>1, <2>2, MapsOf
<1>4. PICK b : b = [a EXCEPT !.token = k, !.err = "none", !.unavail = FALSE, !.status = "active",
                             !.models = f]
  OBVIOUS
<1>5. b \in Auths /\ b.token = k /\ b.counted = a.counted
  BY <1>3, <1>4 DEF Auths, Errors, Statuses
<1>6. Keeps(b, Aggregate(b, t))
  BY <1>5, AggregateKeeps
<1>7. Refreshed(a, k, t) = IF denied = {} THEN b ELSE Aggregate(b, t)
  BY <1>1, <1>2, <1>4 DEF Refreshed
<1> QED
  BY <1>5, <1>6, <1>7 DEF Keeps

LEMMA InPlaceKeeps ==
  ASSUME NEW a \in Auths
  PROVE  /\ Keeps(a, RefreshDenied(a)) /\ Keeps(a, RefreshErred(a))
         /\ Counted(a) \in Auths /\ Counted(a).token = a.token /\ Counted(a).counted = a.counted + 1
         /\ \A b \in BOOLEAN : Keeps(a, [a EXCEPT !.disabled = b, !.status = "active"])
<1>1. Keeps(a, RefreshDenied(a)) /\ Keeps(a, RefreshErred(a))
  BY DEF RefreshDenied, RefreshErred, Keeps, Auths, Errors, Statuses
<1>2. Counted(a) \in Auths /\ Counted(a).token = a.token /\ Counted(a).counted = a.counted + 1
  <2>1. PICK n \in Nat : n = a.counted + 1
    BY DEF Auths
  <2> QED
    BY <2>1 DEF Counted, Auths
<1>3. \A b \in BOOLEAN : Keeps(a, [a EXCEPT !.disabled = b, !.status = "active"])
  BY DEF Keeps, Auths, Statuses
<1> QED
  BY <1>1, <1>2, <1>3

-----------------------------------------------------------------------------
(* Types. *)
LEMMA Apart == Gone \notin Auths /\ Idle # Gone
  BY DEF Gone, Idle, Auths

(* A step that leaves the mutation, the refresh and the edit alone. *)
LEMMA InPlace ==
  ASSUME TypeInv, UNCHANGED <<mutation, refresh, edit>>, auth' \in Auths \cup {Gone},
         auth' = Gone <=> auth = Gone, now' \in Nat, off' \in BOOLEAN, tokens' = tokens, reported' \in Nat
  PROVE  TypeInv'
  BY DEF TypeInv, MutationInv, RefreshInv, EditInv

LEMMA TypeInit == Init => TypeInv
<1> SUFFICES ASSUME Init PROVE TypeInv
  OBVIOUS
<1>1. PICK n \in Nat : n = 1
  OBVIOUS
<1>2. auth = [Fresh EXCEPT !.token = n]
  BY <1>1 DEF Init
<1>3. auth \in Auths
  BY <1>2, FreshType DEF Auths
<1> QED
  BY <1>3 DEF Init, TypeInv, MutationInv, RefreshInv, EditInv, Idle

LEMMA TypeStep ==
  ASSUME TypeInv, [Next]_vars
  PROVE  TypeInv'
<1> USE DEF copies, ghosts
<1>a. now \in Nat /\ off \in BOOLEAN /\ tokens \in Nat /\ reported \in Nat /\ auth \in Auths \cup {Gone}
  BY DEF TypeInv
<1>b. MutationInv /\ RefreshInv /\ EditInv
  BY DEF TypeInv
<1>c. mutation = Idle => mutation.phase = "idle"
  BY DEF Idle
<1>1. ASSUME NEW r \in Results, MarkResult(r) PROVE TypeInv'
  <2>1. auth \in Auths /\ UNCHANGED <<now, off, auth, refresh, edit, tokens, reported>>
    BY <1>1, <1>a DEF MarkResult
  <2>2. mutation' = Holding("mark", ApplyResult(auth, r, now, off), r.class)
    BY <1>1 DEF MarkResult
  <2>3. mutation'.phase = "persist" /\ mutation'.by = "mark" /\ mutation'.rec \in Auths
    BY <2>1, <2>2, <1>a, ResultCounts DEF Holding
  <2> QED
    BY <2>1, <2>3, <1>a, <1>b, Apart DEF TypeInv, MutationInv, RefreshInv, EditInv
<1>2. CASE Register
  <2>1. auth = Gone /\ UNCHANGED <<now, off, auth, refresh, edit, tokens, reported>>
    BY <1>2 DEF Register
  <2>2. mutation' = Holding("register", [Fresh EXCEPT !.token = tokens], "none")
    BY <1>2 DEF Register
  <2>3. [Fresh EXCEPT !.token = tokens] \in Auths
    BY <1>a, FreshType DEF Auths
  <2>4. mutation'.phase = "persist" /\ mutation'.by = "register" /\ mutation'.rec \in Auths
    BY <2>2, <2>3 DEF Holding
  <2> QED
    BY <2>1, <2>4, <1>a, <1>b DEF TypeInv, MutationInv, RefreshInv, EditInv
<1>3. CASE Remove
  <2>1. auth' = Gone /\ UNCHANGED <<now, off, refresh, edit, tokens, reported>>
    BY <1>3 DEF Remove
  <2>2. mutation'.phase = "publish"
    BY <1>3 DEF Remove
  <2> QED
    BY <2>1, <2>2, <1>a, <1>b DEF TypeInv, MutationInv, RefreshInv, EditInv
<1>4. CASE PersistFails
  <2>1. mutation' = Idle /\ refresh' \in {Idle, refresh} /\ UNCHANGED <<now, off, auth, edit, tokens, reported>>
    BY <1>4 DEF PersistFails, RefreshAfter
  <2> QED
    BY <2>1, <1>a, <1>b DEF TypeInv, MutationInv, RefreshInv, EditInv, Idle
<1>5. CASE EditBegin
  <2>1. auth \in Auths /\ UNCHANGED <<now, off, auth, mutation, refresh, tokens, reported>>
    BY <1>5, <1>a DEF EditBegin
  <2>2. Toggled \in Auths
    <3>1. PICK b \in BOOLEAN : b = ~auth.disabled
      OBVIOUS
    <3>2. Toggled = [auth EXCEPT !.disabled = b, !.status = "active"]
      BY <3>1, Zenon DEF Toggled
    <3> QED
      BY <2>1, <3>2, InPlaceKeeps DEF Keeps
  <2>3. FromFile \in Auths
    <3>1. PICK f : f = IF auth.disabled THEN << >> ELSE auth.models
      OBVIOUS
    <3>2. f \in Maps
      <4>1. << >> \in Maps
        BY FreshType DEF Fresh, Auths
      <4> QED
        BY <3>1, <4>1, <2>1 DEF Auths
    <3>3. FromFile = [Fresh EXCEPT !.token = auth.token, !.models = f]
      BY <3>1, Zenon DEF FromFile
    <3> QED
      BY <3>2, <3>3, <2>1, FreshType DEF Auths
  <2>4. edit' \in [phase : {"ready"}, rec : Auths]
    BY <2>2, <2>3, <1>5 DEF EditBegin
  <2> QED
    BY <2>1, <2>4, <1>a, <1>b DEF TypeInv, MutationInv, RefreshInv, EditInv
<1>6. CASE RecordNeutral
  <2>1. auth \in Auths /\ auth' = Counted(auth) /\ reported' = reported + 1
        /\ UNCHANGED <<now, off, mutation, refresh, edit, tokens>>
    BY <1>6, <1>a DEF RecordNeutral
  <2>2. auth' \in Auths
    BY <2>1, InPlaceKeeps
  <2> QED
    BY <2>1, <2>2, <1>a, Apart, InPlace
<1>7. ASSUME NEW k \in 0 .. tokens, RefreshBegin(k) PROVE TypeInv'
  <2>1. auth \in Auths /\ auth.token \in Nat /\ UNCHANGED <<now, off, auth, mutation, edit, tokens, reported>>
    BY <1>7, <1>a DEF RefreshBegin, Auths
  <2>2. refresh' = [phase |-> "calling", rec |-> auth, from |-> auth.token]
    BY <1>7 DEF RefreshBegin
  <2> QED
    BY <2>1, <2>2, <1>a, <1>b DEF TypeInv, MutationInv, RefreshInv, EditInv
<1>8. ASSUME NEW g \in Late, ResetQuota(g) PROVE TypeInv'
  <2>1. auth \in Auths /\ auth' = Reset(auth, now)
        /\ UNCHANGED <<now, off, mutation, refresh, edit, tokens, reported>>
    BY <1>8, <1>a DEF ResetQuota
  <2>2. auth' \in Auths
    BY <2>1, <1>a, ResetKeeps DEF Keeps
  <2> QED
    BY <2>1, <2>2, <1>a, Apart, InPlace
<1>9. ASSUME NEW g \in Late, ReconcileModels(g) PROVE TypeInv'
  <2>1. auth \in Auths /\ UNCHANGED <<now, off, mutation, refresh, edit, tokens, reported>>
    BY <1>9, <1>a DEF ReconcileModels
  <2>2. PICK S \in SUBSET Models : auth' = Reconcile(auth, S, now)
    BY <1>9 DEF ReconcileModels
  <2>3. auth' \in Auths
    BY <2>1, <2>2, <1>a, ReconcileKeeps DEF Keeps
  <2> QED
    BY <2>1, <2>3, <1>a, Apart, InPlace
<1>10. ASSUME NEW g \in Late, SetCooling(g) PROVE TypeInv'
  <2>1. off' \in BOOLEAN /\ UNCHANGED <<now, auth, mutation, refresh, edit, tokens, reported>>
    BY <1>10, <1>a DEF SetCooling
  <2> QED
    BY <2>1, <1>a, InPlace
<1>11. ASSUME NEW g \in Late, CopyForScheduler(g) \/ PickFails(g) \/ LateUpsert(g) PROVE TypeInv'
  <2>1. UNCHANGED <<now, off, auth, mutation, refresh, edit, tokens, reported>>
    BY <1>11 DEF CopyForScheduler, PickFails, LateUpsert
  <2> QED
    BY <2>1, <1>a, InPlace
<1>12. ASSUME NEW m \in Models, Pick(m) PROVE TypeInv'
  <2>1. UNCHANGED <<now, off, auth, mutation, refresh, edit, tokens, reported>>
    BY <1>12 DEF Pick
  <2> QED
    BY <2>1, <1>a, InPlace
<1>13. CASE UpdateRefreshed
  <2>1. refresh.phase = "update" /\ mutation = Idle /\ UNCHANGED <<now, off, auth, edit, tokens, reported>>
    BY <1>13 DEF UpdateRefreshed
  <2>2. refresh \in [phase : {"calling", "update", "saving"}, rec : Auths, from : Nat]
    BY <2>1, <1>b DEF RefreshInv, Idle
  <2>3. CASE auth = Gone
    BY <2>1, <2>3, <1>13, <1>a, <1>b DEF UpdateRefreshed, TypeInv, MutationInv, RefreshInv, EditInv
  <2>4. CASE auth # Gone
    <3>1. mutation' = Holding("refresh", Merge(refresh.rec, auth, now, off), "none")
          /\ refresh' = [refresh EXCEPT !.phase = "saving"]
      BY <2>4, <1>13 DEF UpdateRefreshed
    <3>2. mutation'.phase = "persist" /\ mutation'.by = "refresh" /\ mutation'.rec \in Auths
      BY <3>1, <2>2, <2>4, <1>a, MergeCounts DEF Holding
    <3>3. refresh' \in [phase : {"calling", "update", "saving"}, rec : Auths, from : Nat]
      BY <3>1, <2>2
    <3> QED
      BY <2>1, <2>4, <3>2, <3>3, <1>a, <1>b DEF TypeInv, MutationInv, RefreshInv, EditInv
  <2> QED
    BY <2>3, <2>4
<1>14. CASE UpdateEdited
  <2>1. edit # Idle /\ edit' = Idle /\ UNCHANGED <<now, off, auth, refresh, tokens, reported>>
    BY <1>14 DEF UpdateEdited
  <2>2. edit.rec \in Auths
    BY <2>1, <1>b DEF EditInv
  <2>3. CASE auth = Gone
    <3>1. mutation' = Idle
      BY <2>3, <1>14 DEF UpdateEdited
    <3> QED
      BY <2>1, <3>1, <1>a, <1>b DEF TypeInv, MutationInv, RefreshInv, EditInv, Idle
  <2>4. CASE auth # Gone
    <3>1. mutation' = Holding("edit", Merge(edit.rec, auth, now, off), "none")
      BY <2>4, <1>14 DEF UpdateEdited
    <3>2. mutation'.phase = "persist" /\ mutation'.by = "edit" /\ mutation'.rec \in Auths
      BY <3>1, <2>2, <2>4, <1>a, MergeCounts DEF Holding
    <3> QED
      BY <2>1, <2>4, <3>2, <1>a, <1>b DEF TypeInv, MutationInv, RefreshInv, EditInv
  <2> QED
    BY <2>3, <2>4
<1>15. CASE Store
  <2>1. mutation.phase = "persist" /\ auth' = mutation.rec /\ mutation'.phase = "publish"
        /\ UNCHANGED <<now, off, refresh, edit, tokens>>
    BY <1>15 DEF Store
  <2>2. reported' \in {reported + 1, 0, reported}
    BY <2>1, <1>b, <1>15 DEF Store, MutationInv
  <2> QED
    BY <2>1, <2>2, <1>a, <1>b DEF TypeInv, MutationInv, RefreshInv, EditInv
<1>16. CASE Publish
  <2>1. mutation' = Idle /\ refresh' \in {Idle, refresh} /\ UNCHANGED <<now, off, auth, edit, tokens, reported>>
    BY <1>16 DEF Publish, RefreshAfter
  <2> QED
    BY <2>1, <1>a, <1>b DEF TypeInv, MutationInv, RefreshInv, EditInv, Idle
<1>17. CASE RefreshSucceeds
  <2>1. refresh.phase = "calling" /\ tokens' = tokens + 1
        /\ UNCHANGED <<now, off, auth, mutation, edit, reported>>
    BY <1>17 DEF RefreshSucceeds
  <2>2. refresh \in [phase : {"calling", "update", "saving"}, rec : Auths, from : Nat]
    BY <2>1, <1>b DEF RefreshInv, Idle
  <2>3. PICK b : b = Refreshed(refresh.rec, tokens + 1, now)
    OBVIOUS
  <2>4. b \in Auths
    <3>1. refresh.rec \in Auths /\ tokens + 1 \in Nat
      BY <2>2, <1>a
    <3> QED
      BY <2>3, <3>1, <1>a, RefreshedType
  <2>5. refresh' = [refresh EXCEPT !.phase = "update", !.rec = b]
    BY <2>3, <1>17 DEF RefreshSucceeds
  <2>6. refresh' \in [phase : {"calling", "update", "saving"}, rec : Auths, from : Nat]
    BY <2>2, <2>4, <2>5
  <2> QED
    BY <2>1, <2>6, <1>a, <1>b DEF TypeInv, MutationInv, RefreshInv, EditInv
<1>18. CASE RefreshCanceled
  <2>1. refresh' = Idle /\ UNCHANGED <<now, off, auth, mutation, edit, tokens, reported>>
    BY <1>18 DEF RefreshCanceled
  <2> QED
    BY <2>1, <1>a, <1>b DEF TypeInv, MutationInv, RefreshInv, EditInv
<1>19. CASE RefreshFails
  <2>1. refresh' = Idle /\ UNCHANGED <<now, off, mutation, edit, tokens, reported>>
    BY <1>19 DEF RefreshFails
  <2>2. auth' \in Auths \cup {Gone} /\ (auth' = Gone <=> auth = Gone)
    BY <1>19, <1>a, InPlaceKeeps, Apart DEF RefreshFails, Keeps
  <2> QED
    BY <2>1, <2>2, <1>a, <1>b DEF TypeInv, MutationInv, RefreshInv, EditInv
<1>20. ASSUME NEW g \in Late, ClearDisabled(g) PROVE TypeInv'
  <2>1. UNCHANGED <<now, off, mutation, refresh, edit, tokens, reported>>
    BY <1>20 DEF ClearDisabled
  <2>2. auth' = auth \/ (auth # Gone /\ auth' = ClearCooldown(auth, now))
    BY <1>20 DEF ClearDisabled, ToClear
  <2>3. auth' \in Auths \cup {Gone} /\ (auth' = Gone <=> auth = Gone)
    BY <2>2, <1>a, ClearKeeps, Apart DEF Keeps
  <2> QED
    BY <2>1, <2>3, <1>a, InPlace
<1>21. CASE Tick
  <2>1. now' = now + 1 /\ UNCHANGED <<off, auth, mutation, refresh, edit, tokens, reported>>
    BY <1>21 DEF Tick
  <2> QED
    BY <2>1, <1>a, InPlace
<1>22. CASE UNCHANGED vars
  BY <1>22, <1>a, InPlace DEF vars
<1> QED
  BY <1>1, <1>2, <1>3, <1>4, <1>5, <1>6, <1>7, <1>8, <1>9, <1>10, <1>11, <1>12, <1>13, <1>14, <1>15,
     <1>16, <1>17, <1>18, <1>19, <1>20, <1>21, <1>22
     DEF Next, FinishMutation, FinishRefresh, FinishLate, Picking

LEMMA TypesHold == Spec => []TypeInv
  BY TypeInit, TypeStep, PTL DEF Spec

-----------------------------------------------------------------------------
(* The totals.  Only recordAvailabilityNeutralResult counts in place: what  *)
(* it counts while a mutator saves a copy is lost (README, section 3).     *)
LEMMA CountStep ==
  ASSUME "neutral" \notin Ops, TypeInv, CountInv, [Next]_vars
  PROVE  CountInv'
<1> USE DEF copies, ghosts
<1>a. now \in Nat /\ off \in BOOLEAN /\ tokens \in Nat /\ auth \in Auths \cup {Gone}
  BY DEF TypeInv
<1>b. MutationInv /\ RefreshInv /\ EditInv
  BY DEF TypeInv
<1>c. ASSUME UNCHANGED <<mutation, reported>>,
             auth' = auth \/ (auth # Gone /\ auth'.counted = auth.counted)
      PROVE  CountInv'
  BY <1>c DEF CountInv
<1>d. ASSUME mutation'.phase # "persist", UNCHANGED <<auth, reported>> PROVE CountInv'
  BY <1>d DEF CountInv
<1>1. ASSUME NEW r \in Results, MarkResult(r) PROVE CountInv'
  <2>1. auth \in Auths /\ auth # Gone /\ UNCHANGED <<auth, reported>>
    BY <1>1, <1>a DEF MarkResult
  <2>2. mutation' = Holding("mark", ApplyResult(auth, r, now, off), r.class)
    BY <1>1 DEF MarkResult
  <2>3. mutation'.by = "mark" /\ mutation'.rec.counted = auth.counted + 1
    BY <2>1, <2>2, <1>a, ResultCounts DEF Holding
  <2> QED
    BY <2>1, <2>3 DEF CountInv
<1>2. CASE Register
  <2>1. auth = Gone /\ UNCHANGED <<auth, reported>>
    BY <1>2 DEF Register
  <2>2. mutation' = Holding("register", [Fresh EXCEPT !.token = tokens], "none")
    BY <1>2 DEF Register
  <2>3. mutation'.by = "register" /\ mutation'.rec.counted = 0
    BY <2>2, FreshType DEF Holding, Auths
  <2> QED
    BY <2>1, <2>3 DEF CountInv
<1>3. CASE Remove
  <2>1. auth' = Gone /\ mutation'.phase = "publish"
    BY <1>3 DEF Remove
  <2> QED
    BY <2>1 DEF CountInv
<1>4. CASE PersistFails
  BY <1>4, <1>d DEF PersistFails, Idle
<1>5. CASE EditBegin
  BY <1>5, <1>c DEF EditBegin
<1>6. CASE RecordNeutral
  BY <1>6 DEF RecordNeutral, Call
<1>7. ASSUME NEW k \in 0 .. tokens, RefreshBegin(k) PROVE CountInv'
  BY <1>7, <1>c DEF RefreshBegin
<1>8. ASSUME NEW g \in Late, ResetQuota(g) PROVE CountInv'
  BY <1>8, <1>a, <1>c, ResetKeeps DEF ResetQuota, Keeps
<1>9. ASSUME NEW g \in Late, ReconcileModels(g) PROVE CountInv'
  <2>1. PICK S \in SUBSET Models : auth' = Reconcile(auth, S, now)
    BY <1>9 DEF ReconcileModels
  <2>2. auth \in Auths /\ auth # Gone /\ UNCHANGED <<mutation, reported>>
    BY <1>9, <1>a DEF ReconcileModels
  <2> QED
    BY <2>1, <2>2, <1>a, <1>c, ReconcileKeeps DEF Keeps
<1>10. ASSUME NEW g \in Late, SetCooling(g) PROVE CountInv'
  BY <1>10, <1>c DEF SetCooling
<1>11. ASSUME NEW g \in Late, CopyForScheduler(g) \/ PickFails(g) \/ LateUpsert(g) PROVE CountInv'
  BY <1>11, <1>c DEF CopyForScheduler, PickFails, LateUpsert
<1>12. ASSUME NEW m \in Models, Pick(m) PROVE CountInv'
  BY <1>12, <1>c DEF Pick
<1>13. CASE UpdateRefreshed
  <2>1. refresh.phase = "update" /\ UNCHANGED <<auth, reported>>
    BY <1>13 DEF UpdateRefreshed
  <2>2. refresh.rec \in Auths
    BY <2>1, <1>b DEF RefreshInv, Idle
  <2>3. CASE auth = Gone
    BY <2>3, <1>13, <1>c DEF UpdateRefreshed
  <2>4. CASE auth # Gone
    <3>1. mutation' = Holding("refresh", Merge(refresh.rec, auth, now, off), "none")
      BY <2>4, <1>13 DEF UpdateRefreshed
    <3>2. mutation'.by = "refresh" /\ mutation'.rec.counted = auth.counted
      BY <3>1, <2>2, <2>4, <1>a, MergeCounts DEF Holding
    <3> QED
      BY <2>1, <2>4, <3>2 DEF CountInv
  <2> QED
    BY <2>3, <2>4
<1>14. CASE UpdateEdited
  <2>1. edit # Idle /\ UNCHANGED <<auth, reported>>
    BY <1>14 DEF UpdateEdited
  <2>2. edit.rec \in Auths
    BY <2>1, <1>b DEF EditInv
  <2>3. CASE auth = Gone
    BY <2>1, <2>3, <1>14, <1>d DEF UpdateEdited, Idle
  <2>4. CASE auth # Gone
    <3>1. mutation' = Holding("edit", Merge(edit.rec, auth, now, off), "none")
      BY <2>4, <1>14 DEF UpdateEdited
    <3>2. mutation'.by = "edit" /\ mutation'.rec.counted = auth.counted
      BY <3>1, <2>2, <2>4, <1>a, MergeCounts DEF Holding
    <3> QED
      BY <2>1, <2>4, <3>2 DEF CountInv
  <2> QED
    BY <2>3, <2>4
<1>15. CASE Store
  <2>1. mutation.phase = "persist" /\ auth' = mutation.rec /\ mutation'.phase = "publish"
    BY <1>15 DEF Store
  <2>2. mutation.by = "mark" => reported' = reported + 1
    BY <1>15 DEF Store
  <2>3. mutation.by = "register" => reported' = 0
    BY <1>15 DEF Store
  <2>4. mutation.by \in {"refresh", "edit"} => reported' = reported
    BY <1>15 DEF Store
  <2> QED
    BY <2>1, <2>2, <2>3, <2>4, <1>b DEF CountInv, MutationInv
<1>16. CASE Publish
  BY <1>16, <1>d DEF Publish, Idle
<1>17. CASE RefreshSucceeds
  BY <1>17, <1>c DEF RefreshSucceeds
<1>18. CASE RefreshCanceled
  BY <1>18, <1>c DEF RefreshCanceled
<1>19. CASE RefreshFails
  <2>1. UNCHANGED <<mutation, reported>>
    BY <1>19 DEF RefreshFails
  <2>2. auth \in Auths => /\ RefreshDenied(auth).counted = auth.counted
                          /\ RefreshErred(auth).counted = auth.counted
    BY InPlaceKeeps DEF Keeps
  <2>3. auth' = auth \/ (auth # Gone /\ auth' \in {RefreshDenied(auth), RefreshErred(auth)})
    BY <1>19 DEF RefreshFails
  <2> QED
    BY <2>1, <2>2, <2>3, <1>a, <1>c
<1>20. ASSUME NEW g \in Late, ClearDisabled(g) PROVE CountInv'
  <2>1. auth' = auth \/ (auth # Gone /\ auth' = ClearCooldown(auth, now))
    BY <1>20 DEF ClearDisabled, ToClear
  <2>2. UNCHANGED <<mutation, reported>>
    BY <1>20 DEF ClearDisabled
  <2> QED
    BY <2>1, <2>2, <1>a, <1>c, ClearKeeps DEF Keeps
<1>21. CASE Tick
  BY <1>21, <1>c DEF Tick
<1>22. CASE UNCHANGED vars
  BY <1>22, <1>c DEF vars
<1> QED
  BY <1>1, <1>2, <1>3, <1>4, <1>5, <1>6, <1>7, <1>8, <1>9, <1>10, <1>11, <1>12, <1>13, <1>14, <1>15,
     <1>16, <1>17, <1>18, <1>19, <1>20, <1>21, <1>22
     DEF Next, FinishMutation, FinishRefresh, FinishLate, Picking

(* Every result MarkResult records stays counted in the record, whatever    *)
(* edits, refreshes, resets and failed saves replace the record meanwhile,  *)
(* as long as no request counts a neutral result in place (Manager.Update). *)
THEOREM TotalsSurvive ==
  ASSUME "neutral" \notin Ops
  PROVE  Spec => []ResultsCounted
<1>1. Init => CountInv
  <2> SUFFICES ASSUME Init PROVE CountInv
    OBVIOUS
  <2>1. PICK n \in Nat : n = 1
    OBVIOUS
  <2>2. auth = [Fresh EXCEPT !.token = n] /\ mutation = Idle /\ reported = 0
    BY <2>1 DEF Init
  <2>3. auth.counted = 0
    BY <2>2, FreshType DEF Auths
  <2> QED
    BY <2>2, <2>3 DEF CountInv, Idle
<1>2. TypeInv /\ CountInv /\ [Next]_vars => CountInv'
  BY CountStep
<1>3. CountInv => ResultsCounted
  BY DEF CountInv, ResultsCounted
<1> QED
  BY <1>1, <1>2, <1>3, TypesHold, PTL DEF Spec

-----------------------------------------------------------------------------
(* Tokens. *)
LEMMA TokenStep ==
  ASSUME Ops \cap {"persistfail", "toggle", "file"} = {}, TypeInv, NoEdit, TokenInv, [Next]_vars
  PROVE  TokenInv' /\ NoEdit'
<1> USE DEF copies, ghosts, NoEdit
<1>a. now \in Nat /\ off \in BOOLEAN /\ tokens \in Nat /\ auth \in Auths \cup {Gone}
  BY DEF TypeInv
<1>b. MutationInv /\ RefreshInv
  BY DEF TypeInv
<1> DEFINE Goal == TokenInv' /\ NoEdit'
<1>c. ASSUME UNCHANGED <<mutation, refresh, edit, tokens, spent>>,
             auth' = auth \/ (auth # Gone /\ auth'.token = auth.token)
      PROVE  Goal
  BY <1>c DEF TokenInv, Saving, InUse
<1>i. mutation = Idle => mutation.phase = "idle"
  BY DEF Idle
<1>j. refresh = Idle => refresh.phase = "idle"
  BY DEF Idle
<1>1. ASSUME NEW r \in Results, MarkResult(r) PROVE Goal
  <2>1. auth \in Auths /\ auth # Gone /\ mutation = Idle
        /\ UNCHANGED <<auth, refresh, edit, tokens, spent>>
    BY <1>1, <1>a DEF MarkResult
  <2>2. mutation' = Holding("mark", ApplyResult(auth, r, now, off), r.class)
    BY <1>1 DEF MarkResult
  <2>3. mutation'.phase = "persist" /\ mutation'.by = "mark" /\ mutation'.rec.token = auth.token
    BY <2>1, <2>2, <1>a, ResultCounts DEF Holding
  <2> QED
    BY <2>1, <2>3, <1>i DEF TokenInv, Saving, InUse
<1>2. CASE Register
  <2>1. auth = Gone /\ mutation = Idle /\ UNCHANGED <<auth, refresh, edit, tokens, spent>>
    BY <1>2 DEF Register
  <2>2. mutation' = Holding("register", [Fresh EXCEPT !.token = tokens], "none")
    BY <1>2 DEF Register
  <2>3. mutation'.phase = "persist" /\ mutation'.by = "register" /\ mutation'.rec.token = tokens
    BY <2>2, FreshType DEF Holding, Auths
  <2> QED
    BY <2>1, <2>3, <1>i DEF TokenInv, Saving, InUse
<1>3. CASE Remove
  <2>1. auth' = Gone /\ mutation = Idle /\ mutation'.phase = "publish" /\ mutation'.by = "remove"
        /\ UNCHANGED <<refresh, edit, tokens, spent>>
    BY <1>3 DEF Remove
  <2> QED
    BY <2>1, <1>i DEF TokenInv, Saving, InUse
<1>4. CASE PersistFails
  BY <1>4 DEF PersistFails, Call
<1>5. CASE EditBegin
  BY <1>5 DEF EditBegin, Call
<1>6. CASE RecordNeutral
  <2>1. auth \in Auths /\ auth # Gone /\ auth' = Counted(auth)
        /\ UNCHANGED <<mutation, refresh, edit, tokens, spent>>
    BY <1>6, <1>a DEF RecordNeutral
  <2> QED
    BY <2>1, <1>c, InPlaceKeeps
<1>7. ASSUME NEW k \in 0 .. tokens, RefreshBegin(k) PROVE Goal
  <2>1. auth \in Auths /\ auth # Gone /\ refresh = Idle
        /\ UNCHANGED <<auth, mutation, edit, tokens, spent>>
    BY <1>7, <1>a DEF RefreshBegin
  <2>2. refresh' = [phase |-> "calling", rec |-> auth, from |-> auth.token]
    BY <1>7 DEF RefreshBegin
  <2> QED
    BY <2>1, <2>2, <1>j DEF TokenInv, Saving, InUse
<1>8. ASSUME NEW g \in Late, ResetQuota(g) PROVE Goal
  <2>1. auth \in Auths /\ auth # Gone /\ auth' = Reset(auth, now)
        /\ UNCHANGED <<mutation, refresh, edit, tokens, spent>>
    BY <1>8, <1>a DEF ResetQuota
  <2> QED
    BY <2>1, <1>a, <1>c, ResetKeeps DEF Keeps
<1>9. ASSUME NEW g \in Late, ReconcileModels(g) PROVE Goal
  <2>1. PICK S \in SUBSET Models : auth' = Reconcile(auth, S, now)
    BY <1>9 DEF ReconcileModels
  <2>2. auth \in Auths /\ auth # Gone /\ UNCHANGED <<mutation, refresh, edit, tokens, spent>>
    BY <1>9, <1>a DEF ReconcileModels
  <2> QED
    BY <2>1, <2>2, <1>a, <1>c, ReconcileKeeps DEF Keeps
<1>10. ASSUME NEW g \in Late, SetCooling(g) PROVE Goal
  BY <1>10, <1>c DEF SetCooling
<1>11. ASSUME NEW g \in Late, CopyForScheduler(g) \/ PickFails(g) \/ LateUpsert(g) PROVE Goal
  BY <1>11, <1>c DEF CopyForScheduler, PickFails, LateUpsert
<1>12. ASSUME NEW m \in Models, Pick(m) PROVE Goal
  BY <1>12, <1>c DEF Pick
<1>13. CASE UpdateRefreshed
  <2>1. refresh.phase = "update" /\ mutation = Idle /\ UNCHANGED <<auth, edit, tokens, spent>>
    BY <1>13 DEF UpdateRefreshed
  <2>2. refresh \in [phase : {"calling", "update", "saving"}, rec : Auths, from : Nat]
    BY <2>1, <1>b DEF RefreshInv, Idle
  <2>3. CASE auth = Gone
    <3>1. refresh' = Idle /\ mutation' = mutation
      BY <2>3, <1>13 DEF UpdateRefreshed
    <3> QED
      BY <2>1, <2>3, <3>1, <1>i DEF TokenInv, Saving, InUse, Idle
  <2>4. CASE auth # Gone
    <3>1. mutation' = Holding("refresh", Merge(refresh.rec, auth, now, off), "none")
          /\ refresh' = [refresh EXCEPT !.phase = "saving"]
      BY <2>4, <1>13 DEF UpdateRefreshed
    <3>2. mutation'.phase = "persist" /\ mutation'.by = "refresh"
          /\ mutation'.rec.token = refresh.rec.token
      <4>1. Merge(refresh.rec, auth, now, off).token = refresh.rec.token
        BY <2>2, <2>4, <1>a, MergeCounts
      <4> QED
        BY <3>1, <4>1 DEF Holding
    <3>3. refresh'.phase = "saving"
      BY <3>1, <2>2
    <3> QED
      BY <2>1, <3>2, <3>3, <1>i DEF TokenInv, Saving, InUse
  <2> QED
    BY <2>3, <2>4
<1>14. CASE UpdateEdited
  BY <1>14 DEF UpdateEdited
<1>15. CASE Store
  <2>1. mutation.phase = "persist" /\ auth' = mutation.rec
        /\ mutation' = [phase |-> "publish", by |-> mutation.by]
        /\ UNCHANGED <<refresh, edit, tokens, spent>>
    BY <1>15 DEF Store
  <2>2. mutation'.phase = "publish" /\ mutation'.by = mutation.by
    BY <2>1
  <2> QED
    BY <2>1, <2>2 DEF TokenInv, Saving, InUse
<1>16. CASE Publish
  <2>1. mutation.phase = "publish" /\ mutation' = Idle /\ refresh' = RefreshAfter(mutation.by)
        /\ UNCHANGED <<auth, edit, tokens, spent>>
    BY <1>16 DEF Publish
  <2>2. mutation'.phase = "idle"
    BY <2>1 DEF Idle
  <2>3. CASE mutation.by = "refresh"
    <3>1. refresh'.phase = "idle"
      BY <2>1, <2>3 DEF RefreshAfter, Idle
    <3> QED
      BY <2>1, <2>2, <2>3, <3>1 DEF TokenInv, Saving, InUse
  <2>4. CASE mutation.by # "refresh"
    <3>1. refresh' = refresh
      BY <2>1, <2>4 DEF RefreshAfter
    <3> QED
      BY <2>1, <2>2, <2>4, <3>1 DEF TokenInv, Saving, InUse
  <2> QED
    BY <2>3, <2>4
<1>17. CASE RefreshSucceeds
  <2>1. refresh.phase = "calling" /\ tokens' = tokens + 1 /\ spent' = spent \cup {refresh.from}
        /\ UNCHANGED <<auth, mutation, edit>>
    BY <1>17 DEF RefreshSucceeds
  <2>2. refresh \in [phase : {"calling", "update", "saving"}, rec : Auths, from : Nat]
    BY <2>1, <1>b DEF RefreshInv, Idle
  <2>3. PICK b : b = Refreshed(refresh.rec, tokens + 1, now)
    OBVIOUS
  <2>4. b.token = tokens + 1
    <3>1. refresh.rec \in Auths /\ tokens + 1 \in Nat
      BY <2>2, <1>a
    <3> QED
      BY <2>3, <3>1, <1>a, RefreshedType
  <2>5. refresh' = [refresh EXCEPT !.phase = "update", !.rec = b]
    BY <2>3, <1>17 DEF RefreshSucceeds
  <2>6. refresh'.phase = "update" /\ refresh'.rec.token = tokens + 1
    BY <2>2, <2>4, <2>5
  <2>7. spent' \subseteq 0 .. tokens' - 1
    <3>1. refresh.from = tokens /\ spent \subseteq 0 .. tokens - 1
      BY <2>1 DEF TokenInv
    <3>2. tokens' - 1 = tokens /\ 0 .. tokens - 1 \subseteq 0 .. tokens
      BY <2>1, <1>a
    <3> QED
      BY <2>1, <3>1, <3>2, <1>a
  <2>8. ~Saving
    BY <2>1 DEF TokenInv
  <2>9. ~Saving'
    BY <2>1, <2>8 DEF Saving
  <2> QED
    BY <2>1, <2>6, <2>7, <2>9 DEF TokenInv
<1>18. CASE RefreshCanceled
  <2>1. refresh.phase = "calling" /\ refresh' = Idle /\ UNCHANGED <<auth, mutation, edit, tokens, spent>>
    BY <1>18 DEF RefreshCanceled
  <2>2. refresh'.phase = "idle"
    BY <2>1 DEF Idle
  <2> QED
    BY <2>1, <2>2 DEF TokenInv, Saving, InUse
<1>19. CASE RefreshFails
  <2>1. refresh.phase = "calling" /\ refresh' = Idle /\ UNCHANGED <<mutation, edit, tokens, spent>>
    BY <1>19 DEF RefreshFails
  <2>2. auth' = auth \/ (auth # Gone /\ auth'.token = auth.token)
    <3>1. auth \in Auths => /\ RefreshDenied(auth).token = auth.token
                            /\ RefreshErred(auth).token = auth.token
      BY InPlaceKeeps DEF Keeps
    <3>2. auth' = auth \/ (auth # Gone /\ auth' \in {RefreshDenied(auth), RefreshErred(auth)})
      BY <1>19 DEF RefreshFails
    <3> QED
      BY <3>1, <3>2, <1>a
  <2>3. refresh'.phase = "idle"
    BY <2>1 DEF Idle
  <2> QED
    BY <2>1, <2>2, <2>3 DEF TokenInv, Saving, InUse
<1>20. ASSUME NEW g \in Late, ClearDisabled(g) PROVE Goal
  <2>1. auth' = auth \/ (auth # Gone /\ auth' = ClearCooldown(auth, now))
    BY <1>20 DEF ClearDisabled, ToClear
  <2>2. UNCHANGED <<mutation, refresh, edit, tokens, spent>>
    BY <1>20 DEF ClearDisabled
  <2> QED
    BY <2>1, <2>2, <1>a, <1>c, ClearKeeps DEF Keeps
<1>21. CASE Tick
  BY <1>21, <1>c DEF Tick
<1>22. CASE UNCHANGED vars
  BY <1>22, <1>c DEF vars
<1> QED
  BY <1>1, <1>2, <1>3, <1>4, <1>5, <1>6, <1>7, <1>8, <1>9, <1>10, <1>11, <1>12, <1>13, <1>14, <1>15,
     <1>16, <1>17, <1>18, <1>19, <1>20, <1>21, <1>22
     DEF Next, FinishMutation, FinishRefresh, FinishLate, Picking

(* No refresh credential is exchanged twice, however many requests and the  *)
(* refresh loop ask, and whatever results, resets, removals and             *)
(* registrations come in between (refreshAuthForRequest reads the record    *)
(* under the refresh lock).  An edit prepared before a refresh, or a failed *)
(* save of a refreshed record, brings the spent credential back.            *)
THEOREM RefreshesAreExchangedOnce ==
  ASSUME Ops \cap {"persistfail", "toggle", "file"} = {}
  PROVE  Spec => []ExchangedOnce
<1>1. Init => TokenInv /\ NoEdit
  <2> SUFFICES ASSUME Init PROVE TokenInv /\ NoEdit
    OBVIOUS
  <2>1. PICK n \in Nat : n = 1
    OBVIOUS
  <2>2. auth = [Fresh EXCEPT !.token = n] /\ tokens = n /\ spent = {}
        /\ mutation = Idle /\ refresh = Idle /\ edit = Idle
    BY <2>1 DEF Init
  <2>3. auth.token = n
    BY <2>2, FreshType DEF Auths
  <2> QED
    BY <2>2, <2>3 DEF TokenInv, NoEdit, Saving, InUse, Idle
<1>2. TypeInv /\ TokenInv /\ NoEdit /\ [Next]_vars => TokenInv' /\ NoEdit'
  BY TokenStep
<1>3. TypeInv /\ TokenInv => ExchangedOnce
  BY DEF TypeInv, TokenInv, ExchangedOnce
<1> QED
  BY <1>1, <1>2, <1>3, TypesHold, PTL DEF Spec

-----------------------------------------------------------------------------
(* The scheduler.  What selection says of a record changes with time only   *)
(* as the instant it gives along with a block foretells.                    *)
LEMMA BlockFacts ==
  ASSUME NEW x, x.unavail \in BOOLEAN, x.retryAt \in Int, x.quota \in Quotas,
         NEW t \in Nat, NEW u \in Nat, t <= u
  PROVE  /\ Block(x, t).blocked \in BOOLEAN /\ Block(x, t).until \in Int
         /\ ~Block(x, t).blocked => ~Block(x, u).blocked
         /\ Block(x, t).blocked /\ (Block(x, t).until = 0 \/ u < Block(x, t).until) => Block(x, u).blocked
<1> DEFINE ahead(n) == {k \in {x.retryAt, x.quota.recoverAt} : k > n}
<1>1. x.quota.recoverAt \in Int /\ x.quota.exceeded \in BOOLEAN
  BY DEF Quotas
<1>2. ASSUME NEW n \in Nat, ahead(n) # {}
      PROVE  Highest(ahead(n)) \in ahead(n)
  <2>1. IsFiniteSet({x.retryAt, x.quota.recoverAt})
    <3>1. IsFiniteSet({x.retryAt})
      BY FS_Singleton
    <3>2. IsFiniteSet({x.retryAt} \cup {x.quota.recoverAt})
      BY <3>1, FS_AddElement, Zenon
    <3>3. {x.retryAt, x.quota.recoverAt} = {x.retryAt} \cup {x.quota.recoverAt}
      OBVIOUS
    <3> QED
      BY <3>2, <3>3
  <2>2. ahead(n) \subseteq {x.retryAt, x.quota.recoverAt}
    OBVIOUS
  <2>3. IsFiniteSet(ahead(n))
    BY <2>1, <2>2, FS_Subset
  <2>4. ahead(n) \in SUBSET Int
    BY <1>1
  <2> HIDE DEF ahead
  <2> QED
    BY <1>2, <2>3, <2>4, HighestOf
<1>3. ahead(u) \subseteq ahead(t)
  BY <1>1
<1>4. ASSUME NEW n \in Nat
      PROVE  Block(x, n) = IF ~x.unavail /\ ~x.quota.exceeded THEN [blocked |-> FALSE, until |-> 0]
                           ELSE IF ahead(n) # {} THEN [blocked |-> TRUE, until |-> Highest(ahead(n))]
                           ELSE [blocked |-> x.retryAt = 0 /\ x.quota.recoverAt = 0, until |-> 0]
  BY DEF Block
<1>5. PICK stuck \in BOOLEAN : stuck = (x.retryAt = 0 /\ x.quota.recoverAt = 0)
  OBVIOUS
<1>6. ahead(t) # {} => Highest(ahead(t)) \in Int /\ Highest(ahead(t)) > t
                       /\ (u < Highest(ahead(t)) => ahead(u) # {})
  BY <1>1, <1>2
<1> HIDE DEF ahead
<1>7. CASE ~x.unavail /\ ~x.quota.exceeded
  <2>1. Block(x, t) = [blocked |-> FALSE, until |-> 0] /\ Block(x, u) = [blocked |-> FALSE, until |-> 0]
    BY <1>4, <1>7
  <2> QED
    BY <2>1
<1>8. CASE (x.unavail \/ x.quota.exceeded) /\ ahead(t) # {}
  <2>1. PICK h \in Int : h = Highest(ahead(t)) /\ h > t /\ (u < h => ahead(u) # {})
    BY <1>6, <1>8
  <2>2. Block(x, t) = [blocked |-> TRUE, until |-> h]
    BY <1>4, <1>8, <2>1
  <2>3. u < h => Block(x, u).blocked
    BY <1>4, <1>8, <2>1
  <2> QED
    BY <2>1, <2>2, <2>3
<1>9. CASE (x.unavail \/ x.quota.exceeded) /\ ahead(t) = {}
  <2>1. ahead(u) = {}
    BY <1>3, <1>9
  <2>2. Block(x, t) = [blocked |-> stuck, until |-> 0] /\ Block(x, u) = [blocked |-> stuck, until |-> 0]
    <3>1. /\ Block(x, t) = [blocked |-> x.retryAt = 0 /\ x.quota.recoverAt = 0, until |-> 0]
          /\ Block(x, u) = [blocked |-> x.retryAt = 0 /\ x.quota.recoverAt = 0, until |-> 0]
      BY <1>4, <1>9, <2>1
    <3> QED
      BY <1>5, <3>1, Zenon
  <2> QED
    BY <2>2
<1> QED
  BY <1>1, <1>7, <1>8, <1>9

LEMMA AvailabilityFacts ==
  ASSUME NEW a \in Auths, NEW m, NEW t \in Nat, NEW u \in Nat, t <= u
  PROVE  /\ Availability(a, m, t).blocked \in BOOLEAN /\ Availability(a, m, t).until \in Int
         /\ ~Availability(a, m, t).blocked => ~Availability(a, m, u).blocked
         /\ Availability(a, m, t).blocked
            /\ (Availability(a, m, t).until = 0 \/ u < Availability(a, m, t).until)
              => Availability(a, m, u).blocked
<1>1. a.quota \in Quotas /\ a.quota.recoverAt \in Int /\ a.unavail \in BOOLEAN /\ a.retryAt \in Int
      /\ a.models \in Maps
  BY DEF Auths, Quotas
<1>2. CASE a.disabled
  BY <1>2 DEF Availability
<1>3. CASE ~a.disabled /\ CredentialWindow(a, t)
  <2>1. Availability(a, m, t) = [blocked |-> TRUE, until |-> a.quota.recoverAt]
    BY <1>3 DEF Availability
  <2>2. a.quota.recoverAt > t
    BY <1>3 DEF CredentialWindow
  <2>3. u < a.quota.recoverAt => Availability(a, m, u).blocked
    BY <1>1, <1>3 DEF Availability, CredentialWindow
  <2> QED
    BY <1>1, <2>1, <2>2, <2>3
<1>4. CASE ~a.disabled /\ ~CredentialWindow(a, t)
  <2>1. ~CredentialWindow(a, u)
    BY <1>1, <1>4 DEF CredentialWindow
  <2>2. CASE DOMAIN a.models = {}
    <3>1. Availability(a, m, t) = Block(a, t) /\ Availability(a, m, u) = Block(a, u)
      BY <1>4, <2>1, <2>2 DEF Availability
    <3> QED
      BY <1>1, <3>1, BlockFacts
  <2>3. CASE m \in DOMAIN a.models
    <3>1. Availability(a, m, t) = Block(a.models[m], t) /\ Availability(a, m, u) = Block(a.models[m], u)
      BY <1>4, <2>1, <2>3 DEF Availability
    <3>2. PICK x \in States : x = a.models[m]
      BY <1>1, <2>3, MapsOf
    <3>3. x.unavail \in BOOLEAN /\ x.retryAt \in Int /\ x.quota \in Quotas
      BY DEF States
    <3> QED
      BY <3>1, <3>2, <3>3, BlockFacts
  <2>4. CASE DOMAIN a.models # {} /\ m \notin DOMAIN a.models
    <3>1. /\ Availability(a, m, t) = [blocked |-> FALSE, until |-> 0]
          /\ Availability(a, m, u) = [blocked |-> FALSE, until |-> 0]
      BY <1>4, <2>1, <2>4 DEF Availability
    <3> QED
      BY <3>1
  <2> QED
    BY <2>2, <2>3, <2>4
<1> QED
  BY <1>2, <1>3, <1>4

LEMMA EntryForetells ==
  ASSUME NEW a \in Auths, NEW m, now \in Nat
  PROVE  Entry(a, m) \in Entries /\ Foretells(Entry(a, m), a, m)
<1>1. PICK b : b = Availability(a, m, now)
  OBVIOUS
<1>2. b.blocked \in BOOLEAN /\ b.until \in Int
  BY <1>1, AvailabilityFacts
<1>3. PICK ready \in BOOLEAN : ready = ~b.blocked
  OBVIOUS
<1>4. Entry(a, m) = [ready |-> ready, until |-> b.until]
  BY <1>1, <1>3, Zenon DEF Entry
<1>5. ASSUME NEW t \in Nat, t >= now
      PROVE  /\ ready => ~Blocked(a, m, t)
             /\ ~ready /\ (b.until = 0 \/ t < b.until) => Blocked(a, m, t)
  BY <1>1, <1>2, <1>3, <1>5, AvailabilityFacts DEF Blocked
<1> QED
  BY <1>2, <1>4, <1>5 DEF Entries, Foretells

LEMMA AlikeAvailability ==
  ASSUME NEW a, NEW b, Alike(a, b), NEW m, NEW t
  PROVE  Availability(a, m, t) = Availability(b, m, t)
  BY DEF Alike, Availability, CredentialWindow, Block

LEMMA UpsertFits ==
  ASSUME NEW a \in Auths \cup {Gone}, NEW isShared \in BOOLEAN, now \in Nat
  PROVE  LET s == Upserted(a, isShared) IN
         /\ s = Gone <=> (a = Gone \/ a.disabled)
         /\ s # Gone => /\ s \in [shared : BOOLEAN, copy : Auths \cup {Gone}, entry : [Models -> Entries]]
                        /\ s.shared = isShared /\ s.copy = IF isShared THEN Gone ELSE a
                        /\ \A m \in Models : Foretells(s.entry[m], a, m)
<1>1. CASE a = Gone \/ a.disabled
  BY <1>1 DEF Upserted
<1>2. CASE a # Gone /\ ~a.disabled
  <2>1. PICK e : e = [m \in Models |-> Entry(a, m)]
    OBVIOUS
  <2>2. PICK c \in Auths \cup {Gone} : c = IF isShared THEN Gone ELSE a
    OBVIOUS
  <2>3. Upserted(a, isShared) = [shared |-> isShared, copy |-> c, entry |-> e]
    BY <1>2, <2>1, <2>2, Zenon DEF Upserted
  <2>4. a \in Auths
    BY <1>2
  <2>5. e \in [Models -> Entries] /\ \A m \in Models : Foretells(e[m], a, m)
    BY <2>1, <2>4, EntryForetells
  <2>6. Upserted(a, isShared) # Gone
    BY <2>3 DEF Gone
  <2> QED
    BY <1>2, <2>2, <2>3, <2>5, <2>6
<1> QED
  BY <1>1, <1>2

LEMMA SchedStep ==
  ASSUME Late = {}, TypeInv, SchedType, SchedInv, [Next]_vars
  PROVE  SchedType' /\ SchedInv'
<1> USE DEF copies, ghosts
<1> DEFINE Goal == SchedType' /\ SchedInv'
<1>a. now \in Nat /\ auth \in Auths \cup {Gone} /\ MutationInv
  BY DEF TypeInv
<1>i. Idle.phase = "idle"
  BY DEF Idle
(* The record and the entries stay. *)
<1>b. ASSUME UNCHANGED <<auth, sched>>, now' = now \/ now' = now + 1,
             mutation.phase # "publish" \/ mutation'.phase = "publish"
      PROVE  Goal
  <2>1. SchedType'
    BY <1>b DEF SchedType
  <2>2. ASSUME NEW m \in Models, Foretells(sched.entry[m], auth, m)
        PROVE  Foretells(sched.entry[m], auth, m)'
    <3>1. \A t \in Nat : t >= now' => t >= now
      BY <1>a, <1>b
    <3> QED
      BY <1>b, <2>2, <3>1 DEF Foretells, Blocked
  <2>3. SchedRecord' = SchedRecord
    BY <1>b DEF SchedRecord
  <2>4. Alike(SchedRecord, auth) => Alike(SchedRecord, auth)'
    BY <1>b, <2>3 DEF Alike
  <2> QED
    BY <1>b, <2>1, <2>2, <2>4 DEF SchedInv
(* The scheduler is given the record there is. *)
<1>c. ASSUME NEW isShared \in BOOLEAN, sched' = Upserted(auth', isShared), now' = now,
             auth' \in Auths \cup {Gone}
      PROVE  Goal
  <2>1. /\ sched' = Gone <=> (auth' = Gone \/ auth'.disabled)
        /\ sched' # Gone => /\ sched' \in [shared : BOOLEAN, copy : Auths \cup {Gone}, entry : [Models -> Entries]]
                            /\ sched'.shared = isShared /\ sched'.copy = IF isShared THEN Gone ELSE auth'
                            /\ \A m \in Models : Foretells(sched'.entry[m], auth', m)
    BY <1>a, <1>c, UpsertFits
  <2>2. sched' # Gone => auth' # Gone /\ SchedRecord' = auth'
    BY <2>1 DEF SchedRecord
  <2>3. SchedType'
    BY <2>1, <2>2 DEF SchedType
  <2>4. \A m \in Models : Foretells(sched'.entry[m], auth', m) => Foretells(sched.entry[m], auth, m)'
    BY <1>c DEF Foretells, Blocked
  <2>5. sched' # Gone => Alike(SchedRecord, auth)'
    BY <2>2 DEF Alike
  <2> QED
    BY <2>1, <2>3, <2>4, <2>5 DEF SchedInv
(* The record is replaced: the scheduler keeps the old one. *)
<1>d. ASSUME sched' = Unshared, mutation'.phase = "publish" PROVE Goal
  <2>1. CASE sched # Gone /\ sched.shared
    <3>1. sched' = [sched EXCEPT !.shared = FALSE, !.copy = auth]
      BY <1>d, <2>1 DEF Unshared
    <3>2. auth # Gone /\ sched \in [shared : BOOLEAN, copy : Auths \cup {Gone}, entry : [Models -> Entries]]
      BY <2>1 DEF SchedType
    <3>3. SchedType'
      BY <1>a, <3>1, <3>2 DEF SchedType
    <3> QED
      BY <1>d, <3>3 DEF SchedInv
  <2>2. CASE sched = Gone \/ ~sched.shared
    <3>1. sched' = sched
      BY <1>d, <2>2 DEF Unshared
    <3> QED
      BY <1>d, <2>2, <3>1 DEF SchedType, SchedInv
  <2> QED
    BY <2>1, <2>2
<1>1. ASSUME NEW r \in Results, MarkResult(r) PROVE Goal
  BY <1>1, <1>b, <1>i DEF MarkResult
<1>2. CASE Register
  BY <1>2, <1>b, <1>i DEF Register
<1>3. CASE Remove
  BY <1>3, <1>d DEF Remove
<1>4. CASE PersistFails
  BY <1>4, <1>b DEF PersistFails
<1>5. CASE EditBegin
  BY <1>5, <1>b DEF EditBegin
<1>6. CASE RecordNeutral
  <2>1. auth \in Auths /\ auth' = Counted(auth) /\ UNCHANGED <<now, mutation, sched>>
    BY <1>6, <1>a DEF RecordNeutral
  <2>2. auth' \in Auths /\ auth' # Gone /\ auth # Gone
    BY <2>1, InPlaceKeeps, Apart
  <2>3. Alike(auth', auth)
    BY <2>1 DEF Alike, Counted, Auths
  <2>4. SchedType'
    BY <2>1, <2>2 DEF SchedType
  <2>5. sched # Gone => SchedRecord' = IF sched.shared THEN auth' ELSE SchedRecord
    BY <2>1 DEF SchedRecord
  <2>6. sched # Gone /\ Alike(SchedRecord, auth) => Alike(SchedRecord, auth)'
    BY <2>3, <2>5 DEF Alike
  <2>7. \A m, t : Blocked(auth', m, t) = Blocked(auth, m, t)
    BY <2>3, AlikeAvailability DEF Blocked
  <2>8. \A m \in Models : Foretells(sched.entry[m], auth, m) => Foretells(sched.entry[m], auth, m)'
    BY <2>1, <2>7 DEF Foretells, Blocked
  <2>9. auth'.disabled = auth.disabled
    BY <2>3 DEF Alike
  <2> QED
    BY <2>1, <2>2, <2>4, <2>6, <2>8, <2>9 DEF SchedInv
<1>7. ASSUME NEW k \in 0 .. tokens, RefreshBegin(k) PROVE Goal
  BY <1>7, <1>b DEF RefreshBegin
<1>8. ASSUME NEW m \in Models, Pick(m) PROVE Goal
  <2>1. sched # Gone /\ sched' = [sched EXCEPT !.entry[m] = Entry(SchedRecord, m)]
        /\ UNCHANGED <<now, auth, mutation>>
    BY <1>8 DEF Pick, Promoted
  <2>2. sched \in [shared : BOOLEAN, copy : Auths \cup {Gone}, entry : [Models -> Entries]]
        /\ IF sched.shared THEN auth # Gone ELSE sched.copy # Gone
    BY <2>1 DEF SchedType
  <2>3. SchedRecord \in Auths
    BY <1>a, <2>2 DEF SchedRecord
  <2>4. PICK e \in Entries : e = Entry(SchedRecord, m) /\ Foretells(e, SchedRecord, m)
    BY <1>a, <2>3, EntryForetells
  <2>5. sched' = [sched EXCEPT !.entry[m] = e]
    BY <2>1, <2>4
  <2>6. sched' \in [shared : BOOLEAN, copy : Auths \cup {Gone}, entry : [Models -> Entries]]
        /\ sched'.shared = sched.shared /\ sched'.copy = sched.copy
    BY <2>2, <2>5
  <2>7. \A k \in Models : sched'.entry[k] = IF k = m THEN e ELSE sched.entry[k]
    BY <2>2, <2>5
  <2>8. SchedType' /\ sched' # Gone
    <3>1. sched' # Gone
      BY <2>6 DEF Gone
    <3> QED
      BY <2>1, <2>2, <2>6, <3>1 DEF SchedType
  <2>9. SchedRecord' = SchedRecord
    BY <2>1, <2>6 DEF SchedRecord
  <2>10. Alike(SchedRecord, auth) => Foretells(e, auth, m)
    BY <2>4, AlikeAvailability DEF Foretells, Blocked
  <2>11. ASSUME Alike(SchedRecord, auth), \A k \in Models : Foretells(sched.entry[k], auth, k)
         PROVE  \A k \in Models : Foretells(sched.entry[k], auth, k)'
    <3>1. \A k \in Models : Foretells(sched'.entry[k], auth, k)
      BY <2>7, <2>10, <2>11
    <3> QED
      BY <2>1, <3>1 DEF Foretells, Blocked
  <2>12. Alike(SchedRecord, auth) => Alike(SchedRecord, auth)'
    BY <2>1, <2>9 DEF Alike
  <2> QED
    BY <2>1, <2>8, <2>11, <2>12 DEF SchedInv
<1>9. CASE UpdateRefreshed
  BY <1>9, <1>b, <1>i DEF UpdateRefreshed
<1>10. CASE UpdateEdited
  BY <1>10, <1>b, <1>i DEF UpdateEdited
<1>11. CASE Store
  BY <1>11, <1>d DEF Store
<1>12. CASE Publish
  <2>1. sched' = Upserted(auth', TRUE) /\ now' = now /\ auth' \in Auths \cup {Gone}
    BY <1>12, <1>a DEF Publish
  <2> QED
    BY <2>1, <1>c
<1>13. CASE RefreshSucceeds
  BY <1>13, <1>b DEF RefreshSucceeds
<1>14. CASE RefreshCanceled
  BY <1>14, <1>b DEF RefreshCanceled
<1>15. CASE RefreshFails
  <2>1. CASE auth = Gone
    BY <2>1, <1>15, <1>b DEF RefreshFails
  <2>2. CASE auth # Gone
    <3>1. PICK a \in {RefreshDenied(auth), RefreshErred(auth)} : auth' = a /\ sched' = Upserted(a, FALSE)
      BY <2>2, <1>15 DEF RefreshFails
    <3>2. now' = now
      BY <1>15 DEF RefreshFails
    <3>3. RefreshDenied(auth) \in Auths /\ RefreshErred(auth) \in Auths
      BY <2>2, <1>a, InPlaceKeeps DEF Keeps
    <3>4. sched' = Upserted(auth', FALSE) /\ auth' \in Auths \cup {Gone}
      BY <3>1, <3>3
    <3> QED
      BY <3>2, <3>4, <1>c
  <2> QED
    BY <2>1, <2>2
<1>16. CASE Tick
  BY <1>16, <1>b DEF Tick
<1>17. CASE UNCHANGED vars
  BY <1>17, <1>b DEF vars
<1> QED
  BY <1>1, <1>2, <1>3, <1>4, <1>5, <1>6, <1>7, <1>8, <1>9, <1>10, <1>11, <1>12, <1>13, <1>14, <1>15,
     <1>16, <1>17
     DEF Next, FinishMutation, FinishRefresh, FinishLate, Picking

LEMMA SchedInit == Init => SchedType /\ SchedInv
<1> SUFFICES ASSUME Init PROVE SchedType /\ SchedInv
  OBVIOUS
<1>1. now \in Nat /\ auth \in Auths
  <2>1. TypeInv
    BY TypeInit
  <2>2. PICK n \in Nat : n = 1
    OBVIOUS
  <2>3. auth = [Fresh EXCEPT !.token = n]
    BY <2>2 DEF Init
  <2> QED
    BY <2>1, <2>3, FreshType DEF TypeInv, Auths
<1>2. sched = Upserted(auth, TRUE)
  BY DEF Init
<1>3. /\ sched = Gone <=> (auth = Gone \/ auth.disabled)
      /\ sched # Gone => /\ sched \in [shared : BOOLEAN, copy : Auths \cup {Gone}, entry : [Models -> Entries]]
                         /\ sched.shared /\ \A m \in Models : Foretells(sched.entry[m], auth, m)
  BY <1>1, <1>2, UpsertFits
<1>4. sched # Gone => SchedRecord = auth
  BY <1>3 DEF SchedRecord
<1>5. Alike(auth, auth)
  BY DEF Alike
<1> QED
  BY <1>1, <1>3, <1>4, <1>5, Apart DEF SchedType, SchedInv

(* Without late writers the scheduler offers the credential for a model     *)
(* exactly when the manager's record is not blocked for it at that instant, *)
(* although it looks at an entry again only at the instant the entry names, *)
(* and shares its record with the manager or not (promoteExpiredLocked).   *)
THEOREM SchedulerStaysInStep ==
  ASSUME Late = {}
  PROVE  Spec => []SchedulerInStep
<1>1. TypeInv /\ SchedType /\ SchedInv /\ [Next]_vars => SchedType' /\ SchedInv'
  BY SchedStep
<1>2. TypeInv /\ SchedType /\ SchedInv => SchedulerInStep
  <2> SUFFICES ASSUME TypeInv, SchedType, SchedInv, Settled PROVE
        /\ sched = Gone <=> (auth = Gone \/ auth.disabled)
        /\ sched # Gone => \A m \in Models : Offered(m) <=> ~Availability(auth, m, now).blocked
    BY DEF SchedulerInStep
  <2>1. now \in Nat /\ auth \in Auths \cup {Gone} /\ mutation.phase # "publish"
    BY DEF TypeInv, Settled, Idle
  <2>2. sched = Gone <=> (auth = Gone \/ auth.disabled)
    BY <2>1 DEF SchedInv
  <2>3. ASSUME sched # Gone, NEW m \in Models
        PROVE  Offered(m) <=> ~Availability(auth, m, now).blocked
    <3>1. Alike(SchedRecord, auth) /\ Foretells(sched.entry[m], auth, m)
      BY <2>1, <2>3 DEF SchedInv
    <3>2. sched.entry[m] \in Entries /\ SchedRecord \in Auths
      BY <2>1, <2>3 DEF SchedType, SchedRecord
    <3>3. CASE Due(sched.entry[m])
      <4>1. Promoted(m) = Entry(SchedRecord, m)
        BY <3>3 DEF Promoted
      <4>2. Entry(SchedRecord, m).ready = ~Availability(SchedRecord, m, now).blocked
        BY DEF Entry
      <4>3. Availability(SchedRecord, m, now) = Availability(auth, m, now)
        BY <3>1, AlikeAvailability
      <4> QED
        BY <2>3, <4>1, <4>2, <4>3 DEF Offered
    <3>4. CASE ~Due(sched.entry[m])
      <4>1. Promoted(m) = sched.entry[m]
        BY <3>4 DEF Promoted
      <4>2. sched.entry[m].ready \/ sched.entry[m].until = 0 \/ now < sched.entry[m].until
        BY <2>1, <3>2, <3>4 DEF Due, Entries
      <4> QED
        BY <2>1, <2>3, <3>1, <3>2, <4>1, <4>2 DEF Offered, Foretells, Blocked, Entries
    <3> QED
      BY <3>3, <3>4
  <2> QED
    BY <2>2, <2>3
<1> QED
  BY <1>1, <1>2, SchedInit, TypesHold, PTL DEF Spec

-----------------------------------------------------------------------------
(* What results make of the quotas, and the backoff ladder.                 *)
SoundState(x) == x.quota.exceeded \/ x.quota.recoverAt = 0

Closed(t, y, l) == [exceeded |-> TRUE, reason |-> y, recoverAt |-> t, level |-> l]

LEMMA QuotaOps ==
  ASSUME NEW x \in States
  PROVE  /\ \A t \in Nat : Lapse(x, t).quota = x.quota
         /\ \A t \in Int : Shut(x, t).quota = x.quota
         /\ \A t \in Int, y \in Reasons, l \in Nat : Limited(x, t, y, l).quota = Closed(t, y, l)
         /\ \A b \in BOOLEAN : /\ Unshut(x, b).quota.level = x.quota.level
                               /\ SoundState(x) => SoundState(Unshut(x, b))
         /\ Unshut(x, FALSE) = x
         /\ Uncooled(x).quota = Quiet
<1> USE DEF States
<1>1. \A t \in Nat : Lapse(x, t).quota = x.quota
  BY DEF Lapse
<1>2. \A t \in Int : Shut(x, t).quota = x.quota
  BY DEF Shut
<1>3. ASSUME NEW t \in Int, NEW y \in Reasons, NEW l \in Nat
      PROVE  Limited(x, t, y, l).quota = Closed(t, y, l)
  <2>1. Shut(x, t) \in States
    BY StateOps
  <2>2. PICK z : z = Shut(x, t)
    OBVIOUS
  <2>3. PICK q : q = Closed(t, y, l)
    OBVIOUS
  <2>4. Limited(x, t, y, l) = [z EXCEPT !.quota = q]
    BY <2>2, <2>3, Zenon DEF Limited, Closed
  <2> QED
    BY <2>1, <2>2, <2>3, <2>4
<1>4. ASSUME NEW b \in BOOLEAN
      PROVE  /\ Unshut(x, b).quota.level = x.quota.level
             /\ SoundState(x) => SoundState(Unshut(x, b))
  BY DEF Unshut, Quotas, SoundState
<1>5. Unshut(x, FALSE) = x
  BY DEF Unshut
<1>6. Uncooled(x).quota = Quiet
  <2>1. PICK q : q = Quiet
    OBVIOUS
  <2>2. Uncooled(x) = [x EXCEPT !.unavail = FALSE, !.retryAt = 0, !.quota = q]
    BY <2>1, Zenon DEF Uncooled
  <2> QED
    BY <2>1, <2>2
<1> QED
  BY <1>1, <1>2, <1>3, <1>4, <1>5, <1>6

(* Aggregate reopens models whose window lapsed but leaves their quotas. *)
SameQuotas(a, b) == /\ DOMAIN b.models = DOMAIN a.models
                    /\ \A m \in DOMAIN a.models : b.models[m].quota = a.models[m].quota

LEMMA AggregateQuotas ==
  ASSUME NEW a \in Auths, NEW t \in Nat
  PROVE  SameQuotas(a, Aggregate(a, t)) /\ Aggregate(a, t).disabled = a.disabled
<1> DEFINE models == [m \in DOMAIN a.models |-> Lapse(a.models[m], t)]
           states == {models[m] : m \in DOMAIN models}
           shut(s) == s.unavail /\ s.retryAt > t
           all    == \A s \in states : shut(s)
           due    == {s.retryAt : s \in states}
<1>1. a.models \in Maps
  BY DEF Auths
<1>2. /\ DOMAIN models = DOMAIN a.models
      /\ \A m \in DOMAIN a.models : models[m].quota = a.models[m].quota
  BY <1>1, MapsOf, QuotaOps
<1> HIDE DEF models, states, due, all
<1>3. PICK b : b = all
  OBVIOUS
<1>4. PICK e : e = IF b THEN Earliest(due) ELSE 0
  OBVIOUS
<1>5. PICK q : q = AggregatedQuota(a, states, t)
  OBVIOUS
<1>6. Aggregate(a, t) =
         IF CredentialWindow(a, t) THEN [a EXCEPT !.unavail = TRUE]
         ELSE IF states = {} THEN Uncooled(a)
         ELSE [a EXCEPT !.models = models, !.unavail = b, !.retryAt = e, !.quota = q]
  BY <1>3, <1>4, <1>5, Zenon DEF Aggregate, models, states, due, all
<1>7. PICK c : c = Uncooled(a)
  OBVIOUS
<1>8. c.models = a.models /\ c.disabled = a.disabled
  BY <1>7 DEF Uncooled, Auths
<1> QED
  BY <1>2, <1>6, <1>7, <1>8 DEF SameQuotas, Auths

(* A credential's own window survives it, and none appears. *)
LEMMA AggregateWindow ==
  ASSUME NEW a \in Auths, NEW t \in Nat
  PROVE  /\ CredentialWindow(a, t) => Aggregate(a, t).quota = a.quota
         /\ CredentialWindow(Aggregate(a, t), t) => CredentialWindow(a, t)
<1>1. CredentialWindow(a, t) => Aggregate(a, t) = [a EXCEPT !.unavail = TRUE]
  BY Zenon DEF Aggregate
<1>2. ASSUME ~CredentialWindow(a, t) PROVE ~CredentialWindow(Aggregate(a, t), t)
  <2> DEFINE models == [m \in DOMAIN a.models |-> Lapse(a.models[m], t)]
             states == {models[m] : m \in DOMAIN models}
             shut(s) == s.unavail /\ s.retryAt > t
             all    == \A s \in states : shut(s)
             due    == {s.retryAt : s \in states}
  <2>1. Quiet.exceeded = FALSE
    BY DEF Quiet
  <2>2. \/ AggregatedQuota(a, states, t).reason = "quota"
        \/ AggregatedQuota(a, states, t) = a.quota
        \/ AggregatedQuota(a, states, t) = Quiet
    <3> HIDE DEF states
    <3> QED
      BY DEF AggregatedQuota
  <2> HIDE DEF models, states, due, all
  <2>3. PICK b : b = all
    OBVIOUS
  <2>4. PICK e : e = IF b THEN Earliest(due) ELSE 0
    OBVIOUS
  <2>5. PICK q : q = AggregatedQuota(a, states, t)
    OBVIOUS
  <2>6. PICK k : k = Quiet
    OBVIOUS
  <2>7. \/ Aggregate(a, t) = [a EXCEPT !.unavail = FALSE, !.retryAt = 0, !.quota = k]
        \/ Aggregate(a, t) = [a EXCEPT !.models = models, !.unavail = b, !.retryAt = e, !.quota = q]
    BY <1>2, <2>3, <2>4, <2>5, <2>6, Zenon DEF Aggregate, Uncooled, models, states, due, all
  <2>8. Aggregate(a, t).quota = k \/ Aggregate(a, t).quota = q
    BY <2>7 DEF Auths
  <2> QED
    BY <1>2, <2>1, <2>2, <2>5, <2>6, <2>8 DEF CredentialWindow
<1> QED
  BY <1>1, <1>2 DEF Auths

(* A failure of a model changes its quota, and only a 429 of the whole      *)
(* credential or a rejected key reaches the quotas of other models.         *)
Raised(q, s) == Closed(Later(s.quota.recoverAt, IF q.exceeded THEN q.recoverAt ELSE 0), "credential", s.quota.level)

(* A window of the whole credential goes on, and ends no sooner. *)
Extends(a, b, t) ==
  CredentialWindow(a, t) => CredentialWindow(b, t) /\ b.quota.recoverAt >= a.quota.recoverAt

OwnFailure(a, r, s, off1, b) ==
  /\ \A k \in DOMAIN a.models : k # r.model => b.models[k].quota = a.models[k].quota
  /\ b.models[r.model].quota.level = s.quota.level
  /\ SoundState(s) => SoundState(b.models[r.model])
  /\ ~off1 => b.models[r.model].quota = s.quota
WholeQuota(a, r, s, b) ==
  /\ r.class = "quota"
  /\ b.models[r.model].quota = s.quota
  /\ \A k \in DOMAIN a.models : k # r.model => b.models[k].quota = Raised(a.models[k].quota, s)
RejectedKey(a, r, b) ==
  /\ r.class = "invalidkey"
  /\ \A k \in DOMAIN b.models : b.models[k].quota.exceeded

LEMMA SpreadQuotaModels ==
  ASSUME NEW b \in Auths, NEW m \in Models, NEW s \in States,
         NEW c, c = SpreadQuota(b, m, s.quota.recoverAt, s.quota.level)
  PROVE  /\ DOMAIN c.models = DOMAIN b.models
         /\ m \in DOMAIN b.models => c.models[m] = b.models[m]
         /\ \A k \in DOMAIN b.models \ {m} : c.models[k].quota = Raised(b.models[k].quota, s)
         /\ \A t \in Nat : Extends(b, c, t)
<1> DEFINE u == s.quota.recoverAt
           l == s.quota.level
           reach(x) == Limited(x, Later(u, IF x.quota.exceeded THEN x.quota.recoverAt ELSE 0), "credential", l)
           models   == [k \in DOMAIN b.models |-> IF k = m THEN b.models[k] ELSE reach(b.models[k])]
<1>1. b.models \in Maps /\ "credential" \in Reasons /\ u \in Int /\ l \in Nat
  BY DEF Auths, Reasons, States, Quotas
<1>2. ASSUME NEW x \in States PROVE reach(x).quota = Raised(x.quota, s)
  <2>1. Later(u, IF x.quota.exceeded THEN x.quota.recoverAt ELSE 0) \in Int
    BY <1>1 DEF States, Quotas, Later
  <2> QED
    BY <1>1, <2>1, QuotaOps, ZenonT(60) DEF Raised
<1>3. PICK last : last = Later(u, b.quota.recoverAt)
  OBVIOUS
<1>4. PICK q : q = [b.quota EXCEPT !.exceeded = TRUE, !.reason = "credential", !.recoverAt = last]
  OBVIOUS
<1>5. /\ DOMAIN models = DOMAIN b.models
      /\ m \in DOMAIN b.models => models[m] = b.models[m]
      /\ \A k \in DOMAIN b.models \ {m} : models[k].quota = Raised(b.models[k].quota, s)
  <2> HIDE DEF reach
  <2> QED
    BY <1>1, <1>2, MapsOf
<1> HIDE DEF models
<1>6. c = [b EXCEPT !.models = models, !.unavail = TRUE, !.retryAt = last, !.quota = q]
  BY <1>3, <1>4, Zenon DEF SpreadQuota, models
<1>7. c.models = models /\ c.quota = q
  BY <1>6 DEF Auths
<1>8. q.exceeded /\ q.reason = "credential" /\ q.recoverAt >= b.quota.recoverAt
  <2>1. b.quota \in Quotas
    BY DEF Auths
  <2>2. last \in Int /\ last >= b.quota.recoverAt
    BY <1>1, <1>3, <2>1 DEF Quotas, Later
  <2> HIDE DEF u
  <2> QED
    BY <1>4, <2>1, <2>2 DEF Quotas
<1>9. q.recoverAt \in Int /\ b.quota.recoverAt \in Int
  BY <1>1, <1>3, <1>4 DEF Quotas, Later, Auths
<1>10. \A t \in Nat : Extends(b, c, t)
  BY <1>7, <1>8, <1>9 DEF Extends, CredentialWindow
<1> QED
  BY <1>5, <1>7, <1>10

LEMMA SpreadInvalidKeyModels ==
  ASSUME NEW b \in Auths, NEW u \in Int, NEW c, c = SpreadInvalidKey(b, u)
  PROVE  DOMAIN c.models = DOMAIN b.models /\ \A k \in DOMAIN b.models : c.models[k].quota.exceeded
<1> DEFINE shut == [m \in DOMAIN b.models |-> Limited(b.models[m], u, "credential", 0)]
<1>1. b.models \in Maps /\ "credential" \in Reasons /\ 0 \in Nat
  BY DEF Auths, Reasons
<1>2. DOMAIN shut = DOMAIN b.models /\ \A k \in DOMAIN b.models : shut[k].quota.exceeded
  <2>1. ASSUME NEW x \in States PROVE Limited(x, u, "credential", 0).quota.exceeded
    <3>1. Limited(x, u, "credential", 0).quota = Closed(u, "credential", 0)
      BY <1>1, QuotaOps
    <3> QED
      BY <3>1 DEF Closed
  <2> QED
    BY <1>1, <2>1, MapsOf
<1>3. PICK y : y = Limited(b, u, "credential", 0)
  OBVIOUS
<1>4. y \in Auths
  BY <1>1, <1>3, AuthOps DEF Keeps
<1> HIDE DEF shut
<1>5. c = [y EXCEPT !.models = shut]
  BY <1>3, Zenon DEF SpreadInvalidKey, shut
<1> QED
  BY <1>2, <1>4, <1>5 DEF Auths

LEMMA FailModelShape ==
  ASSUME NEW a \in Auths, NEW r \in Results, r.model \in Models, NEW t \in Nat, NEW off1 \in BOOLEAN,
         NEW s, s = Failed(StateOf(a, r.model), r, t, off1),
         NEW b, b = FailModel(a, r, t, off1)
  PROVE  /\ s \in States
         /\ b \in Auths /\ DOMAIN b.models = DOMAIN a.models \cup {r.model}
         /\ OwnFailure(a, r, s, off1, b) \/ WholeQuota(a, r, s, b) \/ RejectedKey(a, r, b)
         /\ r.class # "invalidkey" => Extends(a, b, t)
<1>1. s \in States /\ b \in Auths
  BY AuthOps, FailedState, FailModelKeeps DEF Keeps
<1>2. PICK w : w = WithState(a, r.model, s)
  OBVIOUS
<1>3. PICK x : x = [w EXCEPT !.err = ErrOf(r)]
  OBVIOUS
<1>4. /\ x \in Auths
      /\ DOMAIN x.models = DOMAIN a.models \cup {r.model}
      /\ \A k \in DOMAIN x.models : x.models[k] = IF k = r.model THEN s ELSE a.models[k]
  <2>1. w \in Auths
    BY <1>1, <1>2, AuthOps DEF Keeps
  <2>2. x \in Auths /\ x.models = w.models
    BY <1>3, <2>1, ErrType DEF Auths
  <2>3. w.models = [k \in DOMAIN a.models \cup {r.model} |-> IF k = r.model THEN s ELSE a.models[k]]
    BY <1>2 DEF WithState, Auths
  <2> QED
    BY <2>2, <2>3
<1>5. PICK c : c = CASE r.class = "quota" /\ r.scope /\ ~off1 -> SpreadQuota(x, r.model, s.quota.recoverAt, s.quota.level)
                     [] r.class = "invalidkey" /\ ~off1       -> SpreadInvalidKey(x, t + Penalty)
                     [] OTHER                                 -> x
  OBVIOUS
<1>6. t + Penalty \in Int /\ s.quota.recoverAt \in Int /\ s.quota.level \in Nat
  BY <1>1, DurationsAssumption DEF States, Quotas
<1>7. c \in Auths /\ DOMAIN c.models = DOMAIN x.models
  <2>1. SpreadQuota(x, r.model, s.quota.recoverAt, s.quota.level) \in Auths
    BY <1>4, <1>6, SpreadQuotaKeeps DEF Keeps
  <2>2. SpreadInvalidKey(x, t + Penalty) \in Auths
    BY <1>4, <1>6, SpreadInvalidKeyKeeps DEF Keeps
  <2>3. CASE r.class = "quota" /\ r.scope /\ ~off1
    <3>1. c = SpreadQuota(x, r.model, s.quota.recoverAt, s.quota.level)
      BY <1>5, <2>3
    <3>2. DOMAIN c.models = DOMAIN x.models
      <4>1. x \in Auths /\ s \in States
        BY <1>1, <1>4
      <4> QED
        BY <4>1, <3>1, SpreadQuotaModels
    <3> QED
      BY <2>1, <3>1, <3>2
  <2>4. CASE ~(r.class = "quota" /\ r.scope /\ ~off1) /\ r.class = "invalidkey" /\ ~off1
    BY <1>4, <1>5, <1>6, <2>2, <2>4, SpreadInvalidKeyModels
  <2>5. CASE ~(r.class = "quota" /\ r.scope /\ ~off1) /\ ~(r.class = "invalidkey" /\ ~off1)
    BY <1>4, <1>5, <2>5
  <2> QED
    BY <2>3, <2>4, <2>5
<1>8. PICK z : z = Unshut(c.models[r.model], off1)
  OBVIOUS
<1>9. c.models[r.model] \in States /\ z \in States
  <2>1. c.models[r.model] \in States
    BY <1>4, <1>7, MapsOf DEF Auths
  <2> QED
    BY <1>8, <2>1, StateOps
<1>10. PICK d : d = [WithState(c, r.model, z) EXCEPT !.status = "error"]
  OBVIOUS
<1>11. /\ d \in Auths
       /\ DOMAIN d.models = DOMAIN c.models
       /\ \A k \in DOMAIN c.models : d.models[k] = IF k = r.model THEN z ELSE c.models[k]
  <2>1. PICK v : v = WithState(c, r.model, z)
    OBVIOUS
  <2>2. v \in Auths
    BY <1>7, <1>9, <2>1, AuthOps DEF Keeps
  <2>3. d \in Auths /\ d.models = v.models
    BY <1>10, <2>1, <2>2 DEF Auths, Statuses
  <2>4. v.models = [k \in DOMAIN c.models \cup {r.model} |-> IF k = r.model THEN z ELSE c.models[k]]
    BY <1>7, <2>1 DEF WithState, Auths
  <2>5. DOMAIN c.models \cup {r.model} = DOMAIN c.models
    BY <1>4, <1>7
  <2> QED
    BY <2>3, <2>4, <2>5
<1>12. b = Aggregate(d, t)
  BY <1>2, <1>3, <1>5, <1>8, <1>10, Zenon DEF FailModel
<1>13. SameQuotas(d, b)
  BY <1>11, <1>12, AggregateQuotas
<1>14. /\ DOMAIN b.models = DOMAIN x.models
       /\ \A k \in DOMAIN x.models : b.models[k].quota = IF k = r.model THEN z.quota ELSE c.models[k].quota
  BY <1>7, <1>11, <1>13 DEF SameQuotas
<1>15. /\ z.quota.level = c.models[r.model].quota.level
       /\ SoundState(c.models[r.model]) => SoundState(z)
       /\ ~off1 => z = c.models[r.model]
  BY <1>8, <1>9, QuotaOps
<1>16. OwnFailure(a, r, s, off1, b) \/ WholeQuota(a, r, s, b) \/ RejectedKey(a, r, b)
  <2>1. CASE r.class = "quota" /\ r.scope /\ ~off1
    <3>1. c = SpreadQuota(x, r.model, s.quota.recoverAt, s.quota.level)
      BY <1>5, <2>1
    <3>2. /\ r.model \in DOMAIN x.models => c.models[r.model] = x.models[r.model]
          /\ \A k \in DOMAIN x.models \ {r.model} : c.models[k].quota = Raised(x.models[k].quota, s)
      BY <1>1, <1>4, <3>1, SpreadQuotaModels
    <3> QED
      BY <1>1, <1>4, <1>14, <1>15, <2>1, <3>2 DEF WholeQuota
  <2>2. CASE ~(r.class = "quota" /\ r.scope /\ ~off1) /\ r.class = "invalidkey" /\ ~off1
    <3>1. c = SpreadInvalidKey(x, t + Penalty)
      BY <1>5, <2>2
    <3>2. \A k \in DOMAIN x.models : c.models[k].quota.exceeded
      BY <1>4, <1>6, <3>1, SpreadInvalidKeyModels
    <3> QED
      BY <1>1, <1>4, <1>14, <1>15, <2>2, <3>2 DEF RejectedKey
  <2>3. CASE ~(r.class = "quota" /\ r.scope /\ ~off1) /\ ~(r.class = "invalidkey" /\ ~off1)
    <3>1. c = x
      BY <1>5, <2>3
    <3> QED
      BY <1>1, <1>4, <1>14, <1>15, <3>1 DEF OwnFailure, SoundState
  <2> QED
    BY <2>1, <2>2, <2>3
<1>17. ASSUME r.class # "invalidkey" PROVE Extends(a, b, t)
  <2>1. x.quota = a.quota
    <3>1. w \in Auths
      BY <1>1, <1>2, AuthOps DEF Keeps
    <3>2. w.quota = a.quota
      BY <1>2 DEF WithState, Auths
    <3> QED
      BY <1>3, <3>1, <3>2 DEF Auths
  <2>2. Extends(x, c, t)
    <3>1. CASE r.class = "quota" /\ r.scope /\ ~off1
      <4>1. c = SpreadQuota(x, r.model, s.quota.recoverAt, s.quota.level)
        BY <1>5, <3>1
      <4> QED
        BY <1>1, <1>4, <4>1, SpreadQuotaModels
    <3>2. CASE ~(r.class = "quota" /\ r.scope /\ ~off1)
      BY <1>4, <1>5, <1>17, <3>2 DEF Extends, Auths, Quotas
    <3> QED
      BY <3>1, <3>2
  <2>3. d.quota = c.quota
    <3>1. PICK v : v = WithState(c, r.model, z)
      OBVIOUS
    <3>2. v \in Auths
      BY <1>7, <1>9, <3>1, AuthOps DEF Keeps
    <3>3. v.quota = c.quota
      BY <1>7, <3>1 DEF WithState, Auths
    <3> QED
      BY <1>10, <3>1, <3>2, <3>3 DEF Auths
  <2>4. CredentialWindow(d, t) => b.quota = d.quota
    BY <1>11, <1>12, AggregateWindow
  <2> QED
    BY <2>1, <2>2, <2>3, <2>4 DEF Extends, CredentialWindow
<1> QED
  BY <1>1, <1>4, <1>14, <1>16, <1>17

Level(a, m) == QuotaOf(a, m).level

(* What a 429 makes of the quota it was received under.                     *)
LEMMA QuotaFailure ==
  ASSUME NEW x \in States, NEW r \in Results, r.class = "quota", NEW t \in Nat, NEW off1 \in BOOLEAN,
         NEW s, s = Failed(x, r, t, off1)
  PROVE  /\ s.quota.exceeded
         /\ s.quota.level # x.quota.level => s.quota.level = x.quota.level + 1 /\ x.quota.recoverAt <= t
         /\ ~off1 /\ SoundState(x) /\ x.quota.recoverAt > t => s.quota.recoverAt >= x.quota.recoverAt
<1> DEFINE w == IF off1 THEN [until |-> 0, level |-> x.quota.level] ELSE QuotaWindow(x.quota, r, t)
           y == [x EXCEPT !.err = ErrOf(r)]
<1>1. x.quota \in Quotas
  BY DEF States
<1>2. w \in Windows
  BY <1>1, WindowType DEF Windows, Quotas
<1>3. y \in States
  BY ErrType DEF States
<1>4. s = Limited(y, w.until, "quota", w.level)
  BY Zenon DEF Failed
<1>5. s.quota = Closed(w.until, "quota", w.level)
  <2> HIDE DEF w, y
  <2>1. w.until \in Int /\ w.level \in Nat /\ "quota" \in Reasons
    BY <1>2 DEF Windows, Reasons
  <2>2. Limited(y, w.until, "quota", w.level).quota = Closed(w.until, "quota", w.level)
    BY <1>3, <2>1, QuotaOps
  <2> QED
    BY <1>4, <2>2
<1>6. r.retryAfter \in Nat
  BY BoundsAssumption
<1>7. PICK v : v = IF r.retryAfter # 0 THEN [until |-> t + r.retryAfter, level |-> x.quota.level]
                   ELSE QuotaAfterFailure(x.quota, t)
  OBVIOUS
<1>8. PICK bound : bound = IF x.quota.exceeded THEN x.quota.recoverAt ELSE 0
  OBVIOUS
<1>9. v.until \in Int /\ v.level \in Nat /\ bound \in Int /\ DOMAIN v = {"until", "level"}
  <2>1. QuotaAfterFailure(x.quota, t) \in Windows
    BY <1>1, BackoffType DEF QuotaAfterFailure, Quotas, Windows
  <2> QED
    BY <1>1, <1>6, <1>7, <1>8, <2>1 DEF Windows, Quotas
<1>10. v.level # x.quota.level => v.level = x.quota.level + 1 /\ x.quota.recoverAt <= t
  <2>1. x.quota.level \in Nat /\ x.quota.recoverAt \in Int
    BY <1>1 DEF Quotas
  <2>2. NextLevel(x.quota.level) \in {x.quota.level, x.quota.level + 1}
    <3> DEFINE e == BackoffBase * 2^x.quota.level >= BackoffMax
    <3> HIDE DEF e
    <3>1. NextLevel(x.quota.level) = IF e THEN x.quota.level ELSE x.quota.level + 1
      BY Zenon DEF NextLevel, e
    <3> QED
      BY <3>1
  <2>3. CASE r.retryAfter # 0
    BY <1>7, <2>3
  <2>4. CASE r.retryAfter = 0 /\ WindowOpen(x.quota, t)
    BY <1>7, <2>4 DEF QuotaAfterFailure
  <2>5. CASE r.retryAfter = 0 /\ ~WindowOpen(x.quota, t)
    <3>1. v.level = NextLevel(x.quota.level)
      <4> DEFINE n == NextLevel(x.quota.level)
                 u == t + Backoff(x.quota.level)
      <4> HIDE DEF n, u
      <4>1. v = [until |-> u, level |-> n]
        BY <1>7, <2>5, Zenon DEF QuotaAfterFailure, n, u
      <4> QED
        BY <4>1 DEF n
    <3> QED
      BY <2>1, <2>2, <2>5, <3>1 DEF WindowOpen
  <2> QED
    BY <2>3, <2>4, <2>5
<1>11. ASSUME ~off1 PROVE w.until = Later(v.until, bound) /\ w.level = v.level
  <2>1. w = [v EXCEPT !.until = Later(v.until, bound)]
    BY <1>7, <1>8, <1>11, Zenon DEF QuotaWindow
  <2>2. PICK z : z = Later(v.until, bound)
    OBVIOUS
  <2> QED
    BY <1>9, <2>1, <2>2
<1>12. ~off1 /\ SoundState(x) /\ x.quota.recoverAt > t => w.until >= x.quota.recoverAt
  BY <1>1, <1>8, <1>9, <1>11 DEF SoundState, Quotas, Later
<1>13. off1 => w.level = x.quota.level
  OBVIOUS
<1> HIDE DEF w, y
<1> QED
  BY <1>5, <1>10, <1>11, <1>12, <1>13 DEF Closed

(* Levels after a 429: the failing model's, and where it spread the others'. *)
LEMMA QuotaLevels ==
  ASSUME NEW a \in Auths, NEW r \in Results, r.class = "quota", NEW t \in Nat, NEW off1 \in BOOLEAN,
         NEW b, b = ApplyResult(a, r, t, off1)
  PROVE  \/ \A m \in Models : Level(b, m) = Level(a, m)
         \/ \E n \in Models : /\ Level(b, n) # Level(a, n) => /\ Level(b, n) = Level(a, n) + 1
                                                              /\ QuotaOf(a, n).recoverAt <= t
                              /\ \A m \in Models : Level(b, m) \in {Level(a, m), Level(b, n)}
<1>1. PICK c : c = ApplyFailure(a, r, t, off1)
  OBVIOUS
<1>2. c.models = b.models
  <2>1. c \in Auths
    BY <1>1, FailureKeeps DEF Keeps
  <2>2. b = Counted(c)
    BY <1>1, Zenon DEF ApplyResult
  <2>3. PICK i : i = c.counted + 1
    OBVIOUS
  <2>4. b = [c EXCEPT !.counted = i]
    BY <2>2, <2>3, Zenon DEF Counted
  <2> QED
    BY <2>1, <2>4 DEF Auths
<1>o. PICK o \in BOOLEAN : o = Spared(r, off1)
  BY DEF Spared
<1>3. CASE r.model = NoModel
  <2>1. c = FailCredential(a, r, t, o)
    BY <1>1, <1>3, <1>o DEF ApplyFailure
  <2>2. PICK d : d = Failed(a, r, t, o)
    OBVIOUS
  <2>3. c = Unshut(d, o)
    BY <2>1, <2>2, Zenon DEF FailCredential
  <2>4. d \in Auths
    BY <2>2, FailedAuth DEF Keeps
  <2>5. d.models = a.models
    <3> DEFINE w == IF o THEN [until |-> 0, level |-> a.quota.level] ELSE QuotaWindow(a.quota, r, t)
               y == [a EXCEPT !.err = ErrOf(r)]
    <3>1. d = Limited(y, w.until, "quota", w.level)
      BY <2>2, Zenon DEF Failed
    <3>2. PICK u, l : u = w.until /\ l = w.level
      OBVIOUS
    <3> HIDE DEF w
    <3> QED
      BY <3>1, <3>2 DEF Limited, Shut, Auths
  <2>6. c.models = d.models
    BY <2>3, <2>4 DEF Unshut, Auths
  <2>7. b.models = a.models
    BY <1>2, <2>5, <2>6
  <2> QED
    BY <2>7 DEF Level, QuotaOf, StateOf
<1>4. CASE r.model \in Models
  <2>1. c = FailModel(a, r, t, o)
    <3>1. r.model # NoModel
      BY <1>4, ModelsAssumption
    <3> QED
      BY <1>1, <1>o, <3>1 DEF ApplyFailure
  <2>2. PICK s : s = Failed(StateOf(a, r.model), r, t, o)
    OBVIOUS
  <2>3. /\ DOMAIN b.models = DOMAIN a.models \cup {r.model}
        /\ OwnFailure(a, r, s, o, c) \/ WholeQuota(a, r, s, c)
    BY <1>2, <1>4, <2>1, <2>2, FailModelShape DEF RejectedKey
  <2>4. Level(b, r.model) = s.quota.level
    BY <1>2, <2>3 DEF OwnFailure, WholeQuota, Level, QuotaOf, StateOf
  <2>5. StateOf(a, r.model) \in States
    BY <1>4, AuthOps
  <2>6. Level(b, r.model) # Level(a, r.model) => /\ Level(b, r.model) = Level(a, r.model) + 1
                                                 /\ QuotaOf(a, r.model).recoverAt <= t
    BY <2>2, <2>4, <2>5, QuotaFailure DEF Level, QuotaOf
  <2>7. ASSUME NEW m \in Models PROVE Level(b, m) \in {Level(a, m), s.quota.level}
    <3>1. CASE m = r.model
      BY <2>4, <3>1
    <3>2. CASE m # r.model /\ m \in DOMAIN a.models
      <4>1. Level(b, m) = b.models[m].quota.level /\ Level(a, m) = a.models[m].quota.level
        BY <2>3, <3>2 DEF Level, QuotaOf, StateOf
      <4>2. Raised(a.models[m].quota, s).level = s.quota.level
        BY DEF Raised, Closed
      <4>3. b.models[m].quota \in {a.models[m].quota, Raised(a.models[m].quota, s)}
        BY <1>2, <2>3, <3>2 DEF OwnFailure, WholeQuota
      <4> QED
        BY <4>1, <4>2, <4>3
    <3>3. CASE m # r.model /\ m \notin DOMAIN a.models
      BY <2>3, <3>3 DEF Level, QuotaOf, StateOf
    <3> QED
      BY <3>1, <3>2, <3>3
  <2> QED
    BY <1>4, <2>4, <2>6, <2>7
<1> QED
  BY <1>3, <1>4, BoundsAssumption

LEMMA LadderStep ==
  ASSUME Models # {}, TypeInv, NEW r \in Results, MarkResult(r), r.class = "quota"
  PROVE  LET before == Highest({QuotaOf(auth, m).level : m \in Models})
             after  == Highest({QuotaOf(mutation'.rec, m).level : m \in Models})
         IN  after > before => /\ after = before + 1
                               /\ \E m \in Models : /\ QuotaOf(mutation'.rec, m).level = after
                                                    /\ QuotaOf(auth, m).recoverAt <= now
<1> DEFINE B == {QuotaOf(auth, m).level : m \in Models}
           A == {QuotaOf(mutation'.rec, m).level : m \in Models}
           fa == [m \in Models |-> Level(mutation'.rec, m)]
           fb == [m \in Models |-> Level(auth, m)]
<1>1. auth \in Auths /\ now \in Nat /\ off \in BOOLEAN
  BY DEF TypeInv, MarkResult
<1>2. mutation'.rec = ApplyResult(auth, r, now, off)
  BY DEF MarkResult, Holding
<1>3. mutation'.rec \in Auths
  BY <1>1, <1>2, ResultCounts
<1>4. \A a \in Auths, m \in Models : Level(a, m) \in Nat
  BY AuthOps DEF Level, QuotaOf, States, Quotas
<1>5. IsFiniteSet({fa[m] : m \in Models}) /\ IsFiniteSet({fb[m] : m \in Models})
  BY ModelsAssumption, FiniteImage, Zenon
<1>6. A = {fa[m] : m \in Models} /\ B = {fb[m] : m \in Models}
  BY DEF Level
<1>7. A \in SUBSET Int /\ B \in SUBSET Int /\ A # {} /\ B # {} /\ IsFiniteSet(A) /\ IsFiniteSet(B)
  <2> HIDE DEF fa, fb
  <2>1. A \in SUBSET Int /\ B \in SUBSET Int
    BY <1>1, <1>3, <1>4 DEF Level
  <2> QED
    BY <1>5, <1>6, <2>1
<1>8. /\ Highest(A) \in A /\ \A u \in A : u <= Highest(A)
      /\ Highest(B) \in B /\ \A u \in B : u <= Highest(B)
  <2> HIDE DEF A, B
  <2> QED
    BY <1>7, HighestOf
<1>9. PICK high \in Int, low \in Int : high = Highest(A) /\ low = Highest(B)
  BY <1>7, <1>8
<1>10. PICK p \in Models : Level(mutation'.rec, p) = high
  BY <1>8, <1>9 DEF Level
<1>11. \A m \in Models : Level(auth, m) <= low
  BY <1>8, <1>9 DEF Level
<1>12. high > low => high = low + 1 /\ \E m \in Models : Level(mutation'.rec, m) = high /\ QuotaOf(auth, m).recoverAt <= now
  <2> SUFFICES ASSUME high > low
               PROVE  high = low + 1 /\ \E m \in Models : Level(mutation'.rec, m) = high /\ QuotaOf(auth, m).recoverAt <= now
    OBVIOUS
  <2>1. Level(auth, p) \in Nat /\ Level(auth, p) < high
    BY <1>1, <1>4, <1>11
  <2>2. PICK n \in Models :
           /\ Level(mutation'.rec, n) # Level(auth, n) => /\ Level(mutation'.rec, n) = Level(auth, n) + 1
                                                          /\ QuotaOf(auth, n).recoverAt <= now
           /\ \A m \in Models : Level(mutation'.rec, m) \in {Level(auth, m), Level(mutation'.rec, n)}
    BY <1>1, <1>2, <1>10, <2>1, QuotaLevels
  <2>3. Level(mutation'.rec, n) = high
    BY <1>10, <2>1, <2>2
  <2>4. Level(auth, n) \in Nat /\ Level(auth, n) <= low
    BY <1>1, <1>4, <1>11
  <2> QED
    BY <2>2, <2>3, <2>4
<1> QED
  BY <1>9, <1>12 DEF Level

(* Every step leaves the mutation alone or gives it up, or begins one.      *)
LEMMA Begins ==
  ASSUME [Next]_vars
  PROVE  \/ UNCHANGED mutation \/ mutation'.phase # "persist"
         \/ (\E r \in Results : MarkResult(r)) \/ Register \/ UpdateRefreshed \/ UpdateEdited
<1> USE DEF copies, ghosts
<1> DEFINE Other == UNCHANGED mutation \/ mutation'.phase # "persist"
<1>1. CASE Remove \/ PersistFails \/ EditBegin \/ RecordNeutral \/ Tick \/ UNCHANGED vars
  BY <1>1 DEF Remove, PersistFails, EditBegin, RecordNeutral, Tick, vars, Idle
<1>2. CASE Store \/ Publish
  <2>1. Idle.phase # "persist"
    BY DEF Idle
  <2>2. Store => mutation'.phase # "persist"
    BY DEF Store
  <2>3. Publish => mutation' = Idle
    BY DEF Publish
  <2> QED
    BY <1>2, <2>1, <2>2, <2>3
<1>3. CASE FinishRefresh
  BY <1>3 DEF FinishRefresh, RefreshSucceeds, RefreshCanceled, RefreshFails
<1>4. ASSUME NEW k \in 0 .. tokens, RefreshBegin(k) PROVE Other
  BY <1>4 DEF RefreshBegin
<1>5. ASSUME NEW g \in Late, ClearDisabled(g) \/ LateUpsert(g) \/ PickFails(g) \/ ResetQuota(g) PROVE Other
  BY <1>5 DEF ClearDisabled, LateUpsert, PickFails, ResetQuota
<1>6. ASSUME NEW g \in Late, ReconcileModels(g) \/ SetCooling(g) \/ CopyForScheduler(g) PROVE Other
  BY <1>6 DEF ReconcileModels, SetCooling, CopyForScheduler
<1>7. ASSUME NEW m \in Models, Pick(m) PROVE Other
  BY <1>7 DEF Pick
<1> QED
  BY <1>1, <1>2, <1>3, <1>4, <1>5, <1>6, <1>7 DEF Next, FinishMutation, FinishLate, Picking

(* However many requests fail with a 429 at once, MarkResult raises the     *)
(* highest step of the backoff ladder by one, and only for a model whose    *)
(* window had lapsed when the failure was recorded (nextQuotaCooldown).     *)
THEOREM BurstsClimbOnce ==
  ASSUME Models # {}
  PROVE  Spec => LadderOncePerWindow
<1>1. TypeInv /\ [Next]_vars => [Marked /\ mutation'.class = "quota"
       => LET before == Highest({QuotaOf(auth, m).level : m \in Models})
              after  == Highest({QuotaOf(mutation'.rec, m).level : m \in Models})
          IN  after > before => /\ after = before + 1
                                /\ \E m \in Models : /\ QuotaOf(mutation'.rec, m).level = after
                                                     /\ QuotaOf(auth, m).recoverAt <= now]_vars
  <2> SUFFICES ASSUME TypeInv, Next, Marked, mutation'.class = "quota"
               PROVE  \E r \in Results : MarkResult(r) /\ r.class = "quota"
    BY LadderStep
  <2>1. mutation = Idle /\ mutation' # mutation /\ mutation'.by = "mark" /\ mutation'.phase = "persist"
    BY DEF Marked, Idle
  <2>2. ~Register /\ ~UpdateRefreshed /\ ~UpdateEdited
    BY <2>1 DEF Register, UpdateRefreshed, UpdateEdited, Holding
  <2>3. PICK r \in Results : MarkResult(r)
    BY <2>1, <2>2, Begins
  <2>4. r.class = "quota"
    BY <2>3 DEF MarkResult, Holding
  <2> QED
    BY <2>3, <2>4
<1> QED
  BY <1>1, TypesHold, PTL DEF Spec, LadderOncePerWindow

-----------------------------------------------------------------------------
(* Windows.  An instant is only ever recorded with a model's quota together *)
(* with the flag that makes the next failure respect it.                    *)
Sound(a) == \A m \in DOMAIN a.models : SoundState(a.models[m])
SoundInv ==
  /\ auth # Gone => Sound(auth)
  /\ mutation.phase = "persist" => Sound(mutation.rec)
  /\ refresh # Idle => Sound(refresh.rec)
  /\ edit # Idle => Sound(edit.rec)

LEMMA SoundSame ==
  /\ \A a, b : SameQuotas(a, b) /\ Sound(a) => Sound(b)
  /\ \A a, b : b.models = a.models /\ Sound(a) => Sound(b)
  /\ SoundState(Clean)
<1>1. \A a, b : SameQuotas(a, b) /\ Sound(a) => Sound(b)
  BY DEF SameQuotas, Sound, SoundState
<1>2. \A a, b : b.models = a.models /\ Sound(a) => Sound(b)
  BY DEF Sound
<1>3. SoundState(Clean)
  BY DEF SoundState, Clean, Quiet
<1> QED
  BY <1>1, <1>2, <1>3

LEMMA SoundAggregate ==
  ASSUME NEW a \in Auths, NEW t \in Nat, Sound(a)
  PROVE  Sound(Aggregate(a, t))
  BY AggregateQuotas, SoundSame

LEMMA SoundForgive ==
  ASSUME NEW a \in Auths, NEW t \in Nat
  PROVE  /\ Forgive(a, t).models = a.models
         /\ Forgive(a, t).quota = a.quota
         /\ Forgive(a, t).disabled = a.disabled
  BY DEF Forgive, Auths

(* Failures other than the ones that count towards a quota leave it alone.  *)
LEMMA OtherFailure ==
  ASSUME NEW x, x \in States \/ x \in Auths, NEW r \in Results, NEW t \in Nat, NEW off1 \in BOOLEAN
  PROVE  LET s == Failed(x, r, t, off1)
         IN  /\ r.class \notin {"quota", "challenge", "invalidkey"} => s.quota = x.quota
             /\ x \in Auths => s.models = x.models
<1>1. x.quota \in Quotas
  BY DEF States, Auths
<1>2. PICK y : y = [x EXCEPT !.err = ErrOf(r)]
  OBVIOUS
<1>3. PICK s : s = Failed(x, r, t, off1)
  OBVIOUS
<1>4. y.quota = x.quota /\ DOMAIN y = DOMAIN x /\ (x \in Auths => y.models = x.models)
  BY <1>2 DEF States, Auths
<1>5. ASSUME NEW u PROVE Shut(y, u).quota = y.quota /\ [Shut(y, u) EXCEPT !.unavail = u # 0].quota = y.quota
  <2>1. PICK v : v = (u # 0)
    OBVIOUS
  <2> QED
    BY <1>4, <2>1 DEF Shut, States, Auths
<1>6. ASSUME x \in Auths, NEW u
      PROVE  /\ Shut(y, u).models = y.models /\ [Shut(y, u) EXCEPT !.unavail = u # 0].models = y.models
             /\ \A z, l : Limited(y, u, z, l).models = y.models
  <2>1. PICK v : v = (u # 0)
    OBVIOUS
  <2> QED
    BY <1>4, <1>6, <2>1 DEF Shut, Limited, Auths
<1>7. ASSUME r.class \notin {"quota", "challenge", "invalidkey"} PROVE s.quota = x.quota
  <2>1. s \in {Shut(y, t + LongPenalty), Shut(y, Window(t, LongPenalty, off1)), Shut(y, Window(t, Penalty, off1)),
               [Shut(y, Window(t, Transient, off1)) EXCEPT !.unavail = Window(t, Transient, off1) # 0]}
    BY <1>2, <1>3, <1>7 DEF Failed
  <2> QED
    BY <1>4, <1>5, <2>1
<1>8. ASSUME x \in Auths PROVE s.models = x.models
  <2>1. \/ \E u \in Int : s = Shut(y, u)
        \/ \E u \in Int, z \in Reasons, l \in Nat : s = Limited(y, u, z, l)
        \/ \E u \in Int : s = [Shut(y, u) EXCEPT !.unavail = u # 0]
    BY <1>1, <1>2, <1>3, FailedShape
  <2>2. ASSUME NEW u \in Int, s = Shut(y, u) PROVE s.models = y.models
    BY <1>6, <1>8, <2>2
  <2>3. ASSUME NEW u \in Int, NEW z \in Reasons, NEW l \in Nat, s = Limited(y, u, z, l)
        PROVE  s.models = y.models
    BY <1>6, <1>8, <2>3
  <2>4. ASSUME NEW u \in Int, s = [Shut(y, u) EXCEPT !.unavail = u # 0] PROVE s.models = y.models
    <3>1. [Shut(y, u) EXCEPT !.unavail = u # 0].models = y.models
      BY <1>6, <1>8
    <3> QED
      BY <2>4, <3>1, Zenon
  <2> QED
    BY <1>4, <1>8, <2>1, <2>2, <2>3, <2>4, Zenon
<1> QED
  BY <1>3, <1>7, <1>8

LEMMA SoundFailed ==
  ASSUME NEW x \in States, NEW r \in Results, NEW t \in Nat, NEW off1 \in BOOLEAN, SoundState(x)
  PROVE  SoundState(Failed(x, r, t, off1))
<1>1. x.quota \in Quotas
  BY DEF States
<1>2. PICK y : y = [x EXCEPT !.err = ErrOf(r)]
  OBVIOUS
<1>3. PICK s : s = Failed(x, r, t, off1)
  OBVIOUS
<1>4. y \in States /\ y.quota = x.quota
  BY <1>2, ErrType DEF States
<1>5. \/ \E u \in Int : s = Shut(y, u)
      \/ \E u \in Int, z \in Reasons, l \in Nat : s = Limited(y, u, z, l)
      \/ \E u \in Int : s = [Shut(y, u) EXCEPT !.unavail = u # 0]
  BY <1>1, <1>2, <1>3, FailedShape
<1>6. ASSUME NEW u \in Int PROVE SoundState([Shut(y, u) EXCEPT !.unavail = u # 0])
  <2>1. PICK v : v = (u # 0)
    OBVIOUS
  <2>2. PICK w : w = Shut(y, u)
    OBVIOUS
  <2>3. w \in States /\ w.quota = x.quota
    BY <1>4, <2>2, StateOps, QuotaOps
  <2>4. [w EXCEPT !.unavail = v].quota = x.quota
    BY <2>3 DEF States
  <2> QED
    BY <2>1, <2>2, <2>4 DEF SoundState
<1>7. ASSUME NEW u \in Int, NEW z \in Reasons, NEW l \in Nat PROVE SoundState(Limited(y, u, z, l))
  <2>1. Limited(y, u, z, l).quota = Closed(u, z, l)
    BY <1>4, QuotaOps
  <2> QED
    BY <2>1 DEF SoundState, Closed
<1>8. ASSUME NEW u \in Int PROVE SoundState(Shut(y, u))
  <2>1. Shut(y, u).quota = x.quota
    BY <1>4, QuotaOps
  <2> QED
    BY <2>1 DEF SoundState
<1> QED
  BY <1>3, <1>5, <1>6, <1>7, <1>8

LEMMA SoundResult ==
  ASSUME NEW a \in Auths, Sound(a), NEW r \in Results, NEW t \in Nat, NEW off1 \in BOOLEAN
  PROVE  Sound(ApplyResult(a, r, t, off1))
<1>1. r.model \in Models \cup {NoModel} /\ NoModel \notin Models
  BY BoundsAssumption, ModelsAssumption
<1>2. Sound(ApplySuccess(a, r, t))
  <2>1. PICK u : u = Uncooled(a)
    OBVIOUS
  <2>2. [u EXCEPT !.status = "active", !.err = "none"].models = a.models
    BY <2>1 DEF Uncooled, Auths
  <2>3. ASSUME r.model \in Models PROVE Sound(Forgive(Aggregate(WithState(a, r.model, Clean), t), t))
    <3>1. PICK w : w = WithState(a, r.model, Clean)
      OBVIOUS
    <3>2. w \in Auths
      BY <2>3, <3>1, StateTypes, AuthOps DEF Keeps
    <3>3. w.models = [k \in DOMAIN a.models \cup {r.model} |-> IF k = r.model THEN Clean ELSE a.models[k]]
      BY <3>1 DEF WithState, Auths
    <3>4. Sound(w)
      BY <3>3, SoundSame DEF Sound
    <3>5. PICK g : g = Aggregate(w, t)
      OBVIOUS
    <3>6. g \in Auths /\ Sound(g)
      BY <3>2, <3>4, <3>5, AggregateKeeps, SoundAggregate DEF Keeps
    <3> QED
      BY <3>1, <3>5, <3>6, SoundForgive, SoundSame
  <2> QED
    BY <1>1, <2>1, <2>2, <2>3, SoundSame DEF ApplySuccess
<1>3. ASSUME r.model = NoModel, NEW o \in BOOLEAN PROVE Sound(FailCredential(a, r, t, o))
  <2>1. PICK d : d = Failed(a, r, t, o)
    OBVIOUS
  <2>2. d \in Auths /\ Sound(d)
    BY <2>1, FailedAuth, OtherFailure, SoundSame DEF Keeps
  <2>3. PICK c : c = IF r.class = "invalidkey" /\ ~o THEN SpreadInvalidKey(d, t + Penalty) ELSE d
    OBVIOUS
  <2>4. c \in Auths /\ Sound(c)
    <3>1. t + Penalty \in Int
      BY DurationsAssumption
    <3>2. PICK e : e = SpreadInvalidKey(d, t + Penalty)
      OBVIOUS
    <3>3. e \in Auths /\ Sound(e)
      BY <2>2, <3>1, <3>2, SpreadInvalidKeyKeeps, SpreadInvalidKeyModels DEF Keeps, Sound, SoundState
    <3> QED
      BY <2>2, <2>3, <3>2, <3>3
  <2>5. Unshut(c, o).models = c.models
    BY <2>4 DEF Unshut, Auths
  <2>6. FailCredential(a, r, t, o) = Unshut(c, o)
    BY <2>1, <2>3, Zenon DEF FailCredential
  <2> QED
    BY <2>4, <2>5, <2>6, SoundSame
<1>4. ASSUME r.model \in Models, NEW o \in BOOLEAN PROVE Sound(FailModel(a, r, t, o))
  <2>1. PICK s : s = Failed(StateOf(a, r.model), r, t, o)
    OBVIOUS
  <2>2. PICK b : b = FailModel(a, r, t, o)
    OBVIOUS
  <2>3. /\ DOMAIN b.models = DOMAIN a.models \cup {r.model}
        /\ OwnFailure(a, r, s, o, b) \/ WholeQuota(a, r, s, b) \/ RejectedKey(a, r, b)
    BY <1>4, <2>1, <2>2, FailModelShape
  <2>4. StateOf(a, r.model) \in States /\ SoundState(StateOf(a, r.model))
    BY <1>4, AuthOps, SoundSame DEF StateOf, Sound
  <2>5. SoundState(s)
    BY <2>1, <2>4, SoundFailed
  <2>6. CASE OwnFailure(a, r, s, o, b)
    BY <2>2, <2>3, <2>5, <2>6 DEF OwnFailure, Sound, SoundState
  <2>7. CASE WholeQuota(a, r, s, b)
    <3>1. s.quota.exceeded
      BY <2>1, <2>4, <2>7, QuotaFailure DEF WholeQuota
    <3>2. \A q : Raised(q, s).exceeded
      BY DEF Raised, Closed
    <3> QED
      BY <2>2, <2>3, <2>7, <3>1, <3>2 DEF WholeQuota, Sound, SoundState
  <2>8. CASE RejectedKey(a, r, b)
    BY <2>2, <2>8 DEF RejectedKey, Sound, SoundState
  <2> QED
    BY <2>3, <2>6, <2>7, <2>8
<1>5. Sound(ApplyFailure(a, r, t, off1))
  <2>1. PICK o \in BOOLEAN : o = Spared(r, off1)
    BY DEF Spared
  <2> QED
    BY <1>1, <1>3, <1>4, <2>1 DEF ApplyFailure
<1>6. PICK c : c = IF r.class = "success" THEN ApplySuccess(a, r, t) ELSE ApplyFailure(a, r, t, off1)
  OBVIOUS
<1>7. PICK n : n = c.counted + 1
  OBVIOUS
<1>8. ApplyResult(a, r, t, off1) = [c EXCEPT !.counted = n]
  BY <1>6, <1>7, Zenon DEF ApplyResult, Counted
<1>9. c \in Auths
  BY <1>6, FailureKeeps, SuccessKeeps DEF Keeps
<1>10. [c EXCEPT !.counted = n].models = c.models
  BY <1>9 DEF Auths
<1> QED
  BY <1>2, <1>5, <1>6, <1>8, <1>10, SoundSame

LEMMA SoundClear ==
  ASSUME NEW a \in Auths, NEW t \in Nat, Sound(a)
  PROVE  Sound(ClearCooldown(a, t)) /\ ClearCooldown(a, t).disabled = a.disabled
<1>1. PICK own : own = IF Cooling(a) THEN Uncooled(a) ELSE a
  OBVIOUS
<1>2. own \in Auths /\ own.disabled = a.disabled
  <2>1. own \in Auths
    BY <1>1, AuthOps DEF Keeps
  <2>2. Uncooled(a).disabled = a.disabled
    BY DEF Uncooled, Auths
  <2> QED
    BY <1>1, <2>1, <2>2
<1>3. PICK f : f = [m \in DOMAIN a.models |->
                      IF Cooling(a.models[m]) THEN Uncooled(a.models[m]) ELSE a.models[m]]
  OBVIOUS
<1>4. a.models \in Maps
  BY DEF Auths
<1>5. f \in Maps
  <2>1. f \in [DOMAIN a.models -> States]
    BY <1>3, <1>4, MapsOf, StateOps
  <2> QED
    BY <1>4, <2>1, MapsOf
<1>6. \A m \in DOMAIN f : SoundState(f[m])
  <2>1. ASSUME NEW x \in States PROVE SoundState(Uncooled(x))
    <3>1. Uncooled(x).quota = Quiet
      BY QuotaOps
    <3> QED
      BY <3>1 DEF SoundState, Quiet
  <2> QED
    BY <1>3, <1>4, <2>1, MapsOf DEF Sound
<1>7. PICK b : b = [own EXCEPT !.models = f]
  OBVIOUS
<1>8. b \in Auths /\ b.disabled = a.disabled /\ Sound(b)
  BY <1>2, <1>5, <1>6, <1>7 DEF Auths, Sound
<1>9. Sound(Aggregate(b, t)) /\ Aggregate(b, t).disabled = a.disabled
  BY <1>8, SoundAggregate, AggregateQuotas
<1>10. ClearCooldown(a, t) = IF DOMAIN a.models = {} THEN b ELSE Aggregate(b, t)
  BY <1>1, <1>3, <1>7, Zenon DEF ClearCooldown
<1> QED
  BY <1>8, <1>9, <1>10

LEMMA SoundReset ==
  ASSUME NEW a \in Auths, NEW t \in Nat
  PROVE  Sound(Reset(a, t))
<1>1. PICK f : f = [m \in DOMAIN a.models |-> Clean]
  OBVIOUS
<1>2. f \in Maps
  <2>1. DOMAIN a.models \in SUBSET Models
    BY MapsOf DEF Auths
  <2> QED
    BY <1>1, <2>1, StateTypes
<1>3. PICK c : c = [a EXCEPT !.models = f]
  OBVIOUS
<1>4. c \in Auths /\ Sound(c)
  BY <1>1, <1>2, <1>3, SoundSame DEF Auths, Sound
<1>5. PICK b : b = ClearCooldown(c, t)
  OBVIOUS
<1>6. b \in Auths /\ Sound(b)
  BY <1>4, <1>5, ClearKeeps, SoundClear DEF Keeps
<1>7. Sound(Forgive(b, t))
  BY <1>6, SoundForgive, SoundSame
<1>8. Reset(a, t) = IF a.disabled THEN b ELSE Forgive(b, t)
  BY <1>1, <1>3, <1>5, Zenon DEF Reset
<1> QED
  BY <1>6, <1>7, <1>8

(* A writer in place opens no window of the whole credential and neither    *)
(* closes nor shortens one.                                                 *)
Spares(a, b, t) ==
  /\ b.disabled = a.disabled
  /\ CredentialWindow(a, t) => b.quota = a.quota
  /\ CredentialWindow(b, t) => CredentialWindow(a, t)

LEMMA ReconcileSpares ==
  ASSUME NEW a \in Auths, NEW t \in Nat, NEW S \in SUBSET Models, Sound(a)
  PROVE  Sound(Reconcile(a, S, t)) /\ Spares(a, Reconcile(a, S, t), t)
<1>1. PICK f : f = [m \in DOMAIN a.models \cap S |-> Clean]
  OBVIOUS
<1>2. f \in Maps
  BY <1>1, StateTypes
<1>3. PICK b : b = [a EXCEPT !.models = f]
  OBVIOUS
<1>4. b \in Auths /\ Sound(b) /\ b.quota = a.quota /\ b.disabled = a.disabled
  BY <1>1, <1>2, <1>3, SoundSame DEF Auths, Sound
<1>5. PICK c : c = Aggregate(b, t)
  OBVIOUS
<1>6. c \in Auths /\ Sound(c) /\ Spares(a, c, t)
  <2>1. c \in Auths /\ Sound(c)
    BY <1>4, <1>5, AggregateKeeps, SoundAggregate DEF Keeps
  <2>2. c.disabled = a.disabled
    BY <1>4, <1>5, AggregateQuotas
  <2>3. /\ CredentialWindow(b, t) => c.quota = b.quota
        /\ CredentialWindow(c, t) => CredentialWindow(b, t)
    BY <1>4, <1>5, AggregateWindow
  <2> QED
    BY <1>4, <2>1, <2>2, <2>3 DEF Spares, CredentialWindow
<1>7. Sound(Forgive(c, t)) /\ Spares(a, Forgive(c, t), t)
  BY <1>6, SoundForgive, SoundSame DEF Spares, CredentialWindow
<1>8. Reconcile(a, S, t) = IF f = a.models THEN a ELSE Forgive(c, t)
  BY <1>1, <1>3, <1>5 DEF Reconcile
<1>9. Spares(a, a, t)
  BY DEF Spares
<1> QED
  BY <1>7, <1>8, <1>9

LEMMA InPlaceSpares ==
  ASSUME NEW a \in Auths, NEW t \in Nat, Sound(a)
  PROVE  \A b \in {RefreshDenied(a), RefreshErred(a), Counted(a)} : Sound(b) /\ Spares(a, b, t)
<1>1. PICK n : n = a.counted + 1
  OBVIOUS
<1>2. Counted(a) = [a EXCEPT !.counted = n]
  BY <1>1, Zenon DEF Counted
<1>3. ASSUME NEW b \in {RefreshDenied(a), RefreshErred(a), Counted(a)}
      PROVE  b.models = a.models /\ b.quota = a.quota /\ b.disabled = a.disabled
  BY <1>2, <1>3 DEF RefreshDenied, RefreshErred, Auths
<1> QED
  BY <1>3, SoundSame DEF Spares, CredentialWindow

(* Update takes an open window over from the record it replaces. *)
Outlasts(a, b, t) == ~a.disabled /\ ~b.disabled => Extends(a, b, t)

LEMMA MergeKeepsWindow ==
  ASSUME NEW new \in Auths, NEW old \in Auths, NEW t \in Nat, NEW off1 \in BOOLEAN, Sound(new), Sound(old)
  PROVE  LET b == Merge(new, old, t, off1) IN Sound(b) /\ (~off1 => Outlasts(old, b, t))
<1>1. PICK inherit : inherit = (~old.disabled /\ ~new.disabled)
  OBVIOUS
<1>2. PICK f : f = IF inherit /\ DOMAIN new.models = {} THEN old.models ELSE new.models
  OBVIOUS
<1>3. PICK n : n = Totals(new, old)
  OBVIOUS
<1>4. PICK carried : carried = [new EXCEPT !.counted = n, !.models = f]
  OBVIOUS
<1>5. f \in Maps /\ n \in Nat /\ \A m \in DOMAIN f : SoundState(f[m])
  BY <1>2, <1>3 DEF Auths, Totals, Sound
<1>6. carried \in Auths /\ Sound(carried) /\ carried.disabled = new.disabled
  BY <1>4, <1>5 DEF Auths, Sound
<1>7. PICK y : y = IF new.status = "active" THEN old.status ELSE new.status
  OBVIOUS
<1>8. y \in Statuses
  BY <1>7 DEF Auths
<1>9. PICK taken : taken = [carried EXCEPT !.unavail = old.unavail, !.retryAt = old.retryAt,
                                           !.quota = old.quota, !.status = y]
  OBVIOUS
<1>10. taken \in Auths /\ Sound(taken) /\ taken.disabled = new.disabled /\ taken.quota = old.quota
  <2>1. taken.models = carried.models
    BY <1>6, <1>9 DEF Auths
  <2> QED
    BY <1>6, <1>8, <1>9, <2>1, SoundSame DEF Auths
<1>11. PICK merged : merged = IF inherit /\ CredentialWindow(old, t) THEN taken ELSE carried
  OBVIOUS
<1>12. /\ merged \in Auths /\ Sound(merged) /\ merged.disabled = new.disabled
       /\ inherit => Extends(old, merged, t)
  BY <1>6, <1>10, <1>11 DEF Extends, CredentialWindow, Auths, Quotas
<1>13. Sound(ClearCooldown(merged, t)) /\ ClearCooldown(merged, t).disabled = new.disabled
  BY <1>12, SoundClear
<1>14. PICK b : b = Merge(new, old, t, off1)
  OBVIOUS
<1>15. b = IF off1 \/ new.disabled THEN ClearCooldown(merged, t) ELSE merged
  BY <1>1, <1>2, <1>3, <1>4, <1>7, <1>9, <1>11, <1>14, Zenon DEF Merge
<1>16. Sound(b) /\ b.disabled = new.disabled
  BY <1>12, <1>13, <1>15
<1>17. ~off1 => Outlasts(old, b, t)
  BY <1>1, <1>12, <1>15, <1>16 DEF Outlasts
<1> QED
  BY <1>14, <1>16, <1>17

LEMMA SoundRefreshed ==
  ASSUME NEW a \in Auths, NEW k \in Nat, NEW t \in Nat, Sound(a)
  PROVE  Sound(Refreshed(a, k, t))
<1>1. PICK denied : denied = {m \in DOMAIN a.models : a.models[m].err = "unauthorized"}
  OBVIOUS
<1>2. PICK f : f = [m \in DOMAIN a.models |-> IF m \in denied THEN Clean ELSE a.models[m]]
  OBVIOUS
<1>3. f \in Maps /\ \A m \in DOMAIN f : SoundState(f[m])
  <2>1. a.models \in Maps
    BY DEF Auths
  <2>2. f \in [DOMAIN a.models -> States]
    BY <1>2, <2>1, MapsOf, StateTypes
  <2> QED
    BY <1>2, <2>1, <2>2, MapsOf, SoundSame DEF Sound
<1>4. PICK b : b = [a EXCEPT !.token = k, !.err = "none", !.unavail = FALSE, !.status = "active",
                             !.models = f]
  OBVIOUS
<1>5. b \in Auths /\ Sound(b)
  BY <1>3, <1>4 DEF Auths, Errors, Statuses, Sound
<1>6. Sound(Aggregate(b, t))
  BY <1>5, SoundAggregate
<1>7. Refreshed(a, k, t) = IF denied = {} THEN b ELSE Aggregate(b, t)
  BY <1>1, <1>2, <1>4 DEF Refreshed
<1> QED
  BY <1>5, <1>6, <1>7

(* What MarkResult stores keeps an open window of the credential, unless a  *)
(* challenge or a rejected key sets its own, or a 429 names no model.       *)
LEMMA ResultExtends ==
  ASSUME NEW a \in Auths, NEW r \in Results, NEW t \in Nat, r.class \notin SetsItsOwn,
         r.class = "quota" => r.model # NoModel
  PROVE  Extends(a, ApplyResult(a, r, t, FALSE), t)
<1>1. PICK c : c = IF r.class = "success" THEN ApplySuccess(a, r, t) ELSE ApplyFailure(a, r, t, FALSE)
  OBVIOUS
<1>2. c \in Auths
  BY <1>1, FailureKeeps, SuccessKeeps DEF Keeps
<1>3. PICK n : n = c.counted + 1
  OBVIOUS
<1>4. ApplyResult(a, r, t, FALSE) = [c EXCEPT !.counted = n]
  BY <1>1, <1>3, Zenon DEF ApplyResult, Counted
<1>5. [c EXCEPT !.counted = n].quota = c.quota
  BY <1>2 DEF Auths
<1>6. Extends(a, a, t)
  BY DEF Extends, Auths, Quotas
<1>7. Extends(a, c, t)
  <2>1. CASE r.class = "success"
    <3>1. CredentialWindow(a, t) => c = a
      BY <1>1, <2>1 DEF ApplySuccess, CredentialWindow, KeepsWindow
    <3> QED
      BY <1>6, <3>1 DEF Extends
  <2>2. CASE r.class = "requestfault"
    BY <1>1, <1>6, <2>2 DEF ApplyFailure
  <2>3. CASE r.class \notin {"success", "requestfault"} /\ r.model = NoModel
    <3>1. PICK d : d = Failed(a, r, t, FALSE)
      OBVIOUS
    <3>2. c = Unshut(d, FALSE)
      BY <1>1, <2>3, <3>1, NothingSpared DEF ApplyFailure, FailCredential, SetsItsOwn
    <3>3. d.quota = a.quota
      BY <2>3, <3>1, OtherFailure DEF SetsItsOwn
    <3>4. c = d
      BY <3>2 DEF Unshut
    <3> QED
      BY <1>6, <3>3, <3>4 DEF Extends, CredentialWindow
  <2>4. CASE r.class \notin {"success", "requestfault"} /\ r.model \in Models
    <3>1. c = FailModel(a, r, t, FALSE)
      BY <1>1, <2>4, ModelsAssumption, NothingSpared DEF ApplyFailure
    <3>2. r.class # "invalidkey"
      BY DEF SetsItsOwn
    <3> QED
      BY <2>4, <3>1, <3>2, FailModelShape
  <2> QED
    BY <2>1, <2>2, <2>3, <2>4, BoundsAssumption
<1> QED
  BY <1>4, <1>5, <1>7 DEF Extends, CredentialWindow

(* And no failure of another kind shortens the window of a model.           *)
LEMMA ResultWindows ==
  ASSUME NEW a \in Auths, Sound(a), NEW r \in Results, now \in Nat, NEW b, b = ApplyResult(a, r, now, FALSE),
         r.class # "success", r.class \notin SetsItsOwn
  PROVE  \A m \in Models : WindowIn(a, m) <= WindowIn(b, m)
<1>1. PICK c : c = ApplyFailure(a, r, now, FALSE)
  OBVIOUS
<1>2. c \in Auths
  BY <1>1, FailureKeeps DEF Keeps
<1>3. b.models = c.models
  <2>1. PICK n : n = c.counted + 1
    OBVIOUS
  <2>2. b = [c EXCEPT !.counted = n]
    BY <1>1, <2>1, Zenon DEF ApplyResult, Counted
  <2> QED
    BY <1>2, <2>2 DEF Auths
<1>4. \A m \in Models : QuotaOf(a, m) \in Quotas /\ QuotaOf(c, m) \in Quotas /\ QuotaOf(b, m) = QuotaOf(c, m)
  BY <1>2, <1>3, AuthOps DEF QuotaOf, StateOf, States
<1>5. ASSUME NEW m \in Models,
             \/ QuotaOf(c, m) = QuotaOf(a, m)
             \/ QuotaOf(a, m).recoverAt > now => QuotaOf(c, m).recoverAt >= QuotaOf(a, m).recoverAt
      PROVE  WindowIn(a, m) <= WindowIn(b, m)
  <2>1. PICK i \in Int, j \in Int : i = QuotaOf(a, m).recoverAt /\ j = QuotaOf(c, m).recoverAt
    BY <1>4 DEF Quotas
  <2>2. QuotaOf(b, m) = QuotaOf(c, m)
    BY <1>4
  <2>3. WindowIn(a, m) = (IF i > now THEN i ELSE 0) /\ WindowIn(b, m) = (IF j > now THEN j ELSE 0)
    BY <2>1, <2>2, Zenon DEF WindowIn
  <2>4. i = j \/ (i > now => j >= i)
    BY <1>5, <2>1
  <2>5. (IF i > now THEN i ELSE 0) <= (IF j > now THEN j ELSE 0)
    BY <2>4
  <2> QED
    BY <2>3, <2>5, Zenon
<1>6. CASE r.class = "requestfault"
  <2>1. c = a
    BY <1>1, <1>6 DEF ApplyFailure
  <2> QED
    BY <1>5, <2>1
<1>7. CASE r.class # "requestfault" /\ r.model = NoModel
  <2>1. PICK d : d = Failed(a, r, now, FALSE)
    OBVIOUS
  <2>2. c = Unshut(d, FALSE)
    BY <1>1, <1>7, <2>1, NothingSpared DEF ApplyFailure, FailCredential, SetsItsOwn
  <2>3. d.models = a.models
    BY <2>1, OtherFailure
  <2>4. c = d
    BY <2>2 DEF Unshut
  <2>5. \A m \in Models : QuotaOf(c, m) = QuotaOf(a, m)
    BY <2>3, <2>4 DEF QuotaOf, StateOf
  <2> QED
    BY <1>5, <2>5
<1>8. CASE r.class # "requestfault" /\ r.model \in Models
  <2>1. c = FailModel(a, r, now, FALSE)
    BY <1>1, <1>8, ModelsAssumption, NothingSpared DEF ApplyFailure
  <2>2. PICK s : s = Failed(StateOf(a, r.model), r, now, FALSE)
    OBVIOUS
  <2>3. /\ s \in States /\ DOMAIN c.models = DOMAIN a.models \cup {r.model}
        /\ OwnFailure(a, r, s, FALSE, c) \/ WholeQuota(a, r, s, c)
    BY <1>8, <2>1, <2>2, FailModelShape DEF RejectedKey, SetsItsOwn
  <2>4. StateOf(a, r.model) \in States /\ SoundState(StateOf(a, r.model))
    BY <1>8, AuthOps, SoundSame DEF StateOf, Sound
  <2>5. QuotaOf(c, r.model) = s.quota
    BY <2>3 DEF OwnFailure, WholeQuota, QuotaOf, StateOf
  <2>6. WindowIn(a, r.model) <= WindowIn(b, r.model)
    <3>1. CASE r.class = "quota"
      <4>1. QuotaOf(a, r.model).recoverAt > now => s.quota.recoverAt >= QuotaOf(a, r.model).recoverAt
        BY <2>2, <2>4, <3>1, QuotaFailure DEF QuotaOf
      <4> QED
        BY <1>5, <1>8, <2>5, <4>1
    <3>2. CASE r.class # "quota"
      <4>1. s.quota = QuotaOf(a, r.model)
        BY <2>2, <2>4, <3>2, OtherFailure DEF QuotaOf, SetsItsOwn
      <4> QED
        BY <1>5, <1>8, <2>5, <4>1
    <3> QED
      BY <3>1, <3>2
  <2>7. ASSUME NEW m \in Models, m # r.model PROVE WindowIn(a, m) <= WindowIn(b, m)
    <3>1. CASE m \notin DOMAIN a.models
      <4>1. QuotaOf(c, m) = QuotaOf(a, m)
        BY <2>3, <2>7, <3>1 DEF QuotaOf, StateOf
      <4> QED
        BY <1>5, <4>1
    <3>2. CASE m \in DOMAIN a.models /\ OwnFailure(a, r, s, FALSE, c)
      <4>1. QuotaOf(c, m) = QuotaOf(a, m)
        BY <2>3, <2>7, <3>2 DEF QuotaOf, StateOf, OwnFailure
      <4> QED
        BY <1>5, <4>1
    <3>3. CASE m \in DOMAIN a.models /\ WholeQuota(a, r, s, c)
      <4>1. QuotaOf(c, m) = Raised(QuotaOf(a, m), s)
        BY <2>3, <2>7, <3>3 DEF QuotaOf, StateOf, WholeQuota
      <4>2. QuotaOf(a, m).exceeded \/ QuotaOf(a, m).recoverAt = 0
        BY <3>3 DEF QuotaOf, StateOf, Sound, SoundState
      <4>3. QuotaOf(a, m).recoverAt \in Int /\ s.quota.recoverAt \in Int
        BY <1>4, <2>3 DEF Quotas, States
      <4>4. Raised(QuotaOf(a, m), s).recoverAt =
              Later(s.quota.recoverAt, IF QuotaOf(a, m).exceeded THEN QuotaOf(a, m).recoverAt ELSE 0)
        BY DEF Raised, Closed
      <4>5. QuotaOf(a, m).recoverAt > now => QuotaOf(c, m).recoverAt >= QuotaOf(a, m).recoverAt
        BY <4>1, <4>2, <4>3, <4>4 DEF Later
      <4> QED
        BY <1>5, <4>5
    <3> QED
      BY <2>3, <3>1, <3>2, <3>3
  <2> QED
    BY <2>6, <2>7
<1> QED
  BY <1>6, <1>7, <1>8, BoundsAssumption

LEMMA SoundStep ==
  ASSUME TypeInv, SoundInv, [Next]_vars
  PROVE  SoundInv'
<1> USE DEF copies, ghosts
<1>a. now \in Nat /\ off \in BOOLEAN /\ tokens \in Nat /\ auth \in Auths \cup {Gone}
  BY DEF TypeInv
<1>b. MutationInv /\ RefreshInv /\ EditInv
  BY DEF TypeInv
<1>c. ASSUME UNCHANGED <<mutation, refresh, edit>>, auth' = auth \/ Sound(auth') PROVE SoundInv'
  BY <1>c DEF SoundInv
<1>d. ASSUME UNCHANGED <<refresh, edit>>, auth' = auth, Sound(mutation'.rec) PROVE SoundInv'
  BY <1>d DEF SoundInv
<1>e. ASSUME auth' = auth, mutation'.phase # "persist", refresh' \in {Idle, refresh}, edit' \in {Idle, edit}
      PROVE  SoundInv'
  BY <1>e DEF SoundInv
<1>1. ASSUME NEW r \in Results, MarkResult(r) PROVE SoundInv'
  <2>1. auth \in Auths /\ Sound(auth) /\ UNCHANGED <<auth, refresh, edit>>
    BY <1>1, <1>a DEF MarkResult, SoundInv
  <2>2. mutation'.rec = ApplyResult(auth, r, now, off)
    BY <1>1 DEF MarkResult, Holding
  <2> QED
    BY <2>1, <2>2, <1>a, <1>d, SoundResult
<1>2. CASE Register
  <2>1. mutation'.rec = [Fresh EXCEPT !.token = tokens] /\ UNCHANGED <<auth, refresh, edit>>
    BY <1>2 DEF Register, Holding
  <2>2. mutation'.rec.models = << >>
    BY <2>1 DEF Fresh
  <2> QED
    BY <2>1, <2>2, <1>d DEF Sound
<1>3. CASE Remove
  BY <1>3 DEF Remove, SoundInv
<1>4. CASE PersistFails
  BY <1>4, <1>e DEF PersistFails, RefreshAfter, Idle
<1>5. CASE EditBegin
  <2>1. auth \in Auths /\ Sound(auth) /\ UNCHANGED <<auth, mutation, refresh>>
    BY <1>5, <1>a DEF EditBegin, SoundInv
  <2>2. Sound(Toggled)
    <3>1. PICK b : b = ~auth.disabled
      OBVIOUS
    <3>2. Toggled = [auth EXCEPT !.disabled = b, !.status = "active"]
      BY <3>1, Zenon DEF Toggled
    <3>3. Toggled.models = auth.models
      BY <2>1, <3>2 DEF Auths
    <3> QED
      BY <2>1, <3>3, SoundSame
  <2>3. Sound(FromFile)
    <3>1. FromFile.models \in {<< >>, auth.models}
      BY DEF FromFile, Fresh
    <3> QED
      BY <2>1, <3>1 DEF Sound
  <2>4. edit'.rec \in {Toggled, FromFile}
    BY <1>5 DEF EditBegin
  <2> QED
    BY <2>1, <2>2, <2>3, <2>4 DEF SoundInv
<1>6. CASE RecordNeutral
  <2>1. auth \in Auths /\ Sound(auth) /\ auth' = Counted(auth) /\ UNCHANGED <<mutation, refresh, edit>>
    BY <1>6, <1>a DEF RecordNeutral, SoundInv
  <2> QED
    BY <2>1, <1>a, <1>c, InPlaceSpares
<1>7. ASSUME NEW k \in 0 .. tokens, RefreshBegin(k) PROVE SoundInv'
  BY <1>7 DEF RefreshBegin, SoundInv
<1>8. ASSUME NEW g \in Late, ResetQuota(g) PROVE SoundInv'
  <2>1. auth \in Auths /\ auth' = Reset(auth, now) /\ UNCHANGED <<mutation, refresh, edit>>
    BY <1>8, <1>a DEF ResetQuota
  <2> QED
    BY <2>1, <1>a, <1>c, SoundReset
<1>9. ASSUME NEW g \in Late, ReconcileModels(g) PROVE SoundInv'
  <2>1. auth \in Auths /\ Sound(auth) /\ UNCHANGED <<mutation, refresh, edit>>
    BY <1>9, <1>a DEF ReconcileModels, SoundInv
  <2>2. PICK S \in SUBSET Models : auth' = Reconcile(auth, S, now)
    BY <1>9 DEF ReconcileModels
  <2> QED
    BY <2>1, <2>2, <1>a, <1>c, ReconcileSpares
<1>10. ASSUME NEW g \in Late, SetCooling(g) \/ CopyForScheduler(g) \/ PickFails(g) \/ LateUpsert(g) PROVE SoundInv'
  BY <1>10, <1>c DEF SetCooling, CopyForScheduler, PickFails, LateUpsert
<1>11. ASSUME NEW m \in Models, Pick(m) PROVE SoundInv'
  BY <1>11, <1>c DEF Pick
<1>12. CASE UpdateRefreshed
  <2>1. refresh.phase = "update" /\ UNCHANGED <<auth, edit>>
    BY <1>12 DEF UpdateRefreshed
  <2>2. refresh # Idle
    BY <2>1 DEF Idle
  <2>3. refresh.rec \in Auths /\ Sound(refresh.rec) /\ DOMAIN refresh = {"phase", "rec", "from"}
    BY <2>2, <1>b DEF RefreshInv, SoundInv
  <2>4. CASE auth = Gone
    BY <2>1, <2>4, <1>12 DEF UpdateRefreshed, SoundInv
  <2>5. CASE auth # Gone
    <3>1. mutation'.rec = Merge(refresh.rec, auth, now, off) /\ refresh' = [refresh EXCEPT !.phase = "saving"]
      BY <2>5, <1>12 DEF UpdateRefreshed, Holding
    <3>2. Sound(mutation'.rec)
      BY <2>3, <2>5, <3>1, <1>a, MergeKeepsWindow DEF SoundInv
    <3>3. refresh'.rec = refresh.rec
      BY <2>3, <3>1
    <3> QED
      BY <2>1, <2>3, <3>2, <3>3 DEF SoundInv
  <2> QED
    BY <2>4, <2>5
<1>13. CASE UpdateEdited
  <2>1. edit # Idle /\ edit' = Idle /\ UNCHANGED <<auth, refresh>>
    BY <1>13 DEF UpdateEdited
  <2>2. edit.rec \in Auths /\ Sound(edit.rec)
    BY <2>1, <1>b DEF EditInv, SoundInv
  <2>3. CASE auth = Gone
    BY <2>1, <2>3, <1>13, <1>e DEF UpdateEdited, Idle
  <2>4. CASE auth # Gone
    <3>1. mutation'.rec = Merge(edit.rec, auth, now, off)
      BY <2>4, <1>13 DEF UpdateEdited, Holding
    <3>2. Sound(mutation'.rec)
      BY <2>2, <2>4, <3>1, <1>a, MergeKeepsWindow DEF SoundInv
    <3> QED
      BY <2>1, <3>2 DEF SoundInv
  <2> QED
    BY <2>3, <2>4
<1>14. CASE Store
  BY <1>14 DEF Store, SoundInv
<1>15. CASE Publish
  BY <1>15, <1>e DEF Publish, RefreshAfter, Idle
<1>16. CASE RefreshSucceeds
  <2>1. refresh.phase = "calling" /\ UNCHANGED <<auth, mutation, edit>>
    BY <1>16 DEF RefreshSucceeds
  <2>2. refresh # Idle
    BY <2>1 DEF Idle
  <2>3. refresh.rec \in Auths /\ Sound(refresh.rec) /\ DOMAIN refresh = {"phase", "rec", "from"}
    BY <2>2, <1>b DEF RefreshInv, SoundInv
  <2>4. PICK b : b = Refreshed(refresh.rec, tokens + 1, now)
    OBVIOUS
  <2>5. Sound(b)
    <3>1. tokens + 1 \in Nat
      BY <1>a
    <3> QED
      BY <2>3, <2>4, <3>1, <1>a, SoundRefreshed
  <2>6. refresh' = [refresh EXCEPT !.phase = "update", !.rec = b]
    BY <2>4, <1>16 DEF RefreshSucceeds
  <2>7. refresh'.rec = b
    BY <2>3, <2>6
  <2> QED
    BY <2>1, <2>5, <2>7 DEF SoundInv
<1>17. CASE RefreshCanceled
  BY <1>17 DEF RefreshCanceled, SoundInv
<1>18. CASE RefreshFails
  <2>1. refresh' = Idle /\ UNCHANGED <<mutation, edit>>
    BY <1>18 DEF RefreshFails
  <2>2. auth' = auth \/ (auth # Gone /\ auth' \in {RefreshDenied(auth), RefreshErred(auth)})
    BY <1>18 DEF RefreshFails
  <2>3. auth' = auth \/ Sound(auth')
    BY <2>2, <1>a, InPlaceSpares DEF SoundInv
  <2> QED
    BY <2>1, <2>3 DEF SoundInv
<1>19. ASSUME NEW g \in Late, ClearDisabled(g) PROVE SoundInv'
  <2>1. UNCHANGED <<mutation, refresh, edit>>
    BY <1>19 DEF ClearDisabled
  <2>2. auth' = auth \/ (auth # Gone /\ auth' = ClearCooldown(auth, now))
    BY <1>19 DEF ClearDisabled, ToClear
  <2> QED
    BY <2>1, <2>2, <1>a, <1>c, SoundClear DEF SoundInv
<1>20. CASE Tick
  BY <1>20, <1>c DEF Tick
<1>21. CASE UNCHANGED vars
  BY <1>21, <1>c DEF vars
<1> QED
  BY <1>1, <1>2, <1>3, <1>4, <1>5, <1>6, <1>7, <1>8, <1>9, <1>10, <1>11, <1>12, <1>13, <1>14, <1>15,
     <1>16, <1>17, <1>18, <1>19, <1>20, <1>21
     DEF Next, FinishMutation, FinishRefresh, FinishLate, Picking

(* With the cooling switch out of reach, cooling stays on.                  *)
CoolingInv == off = FALSE /\ DOMAIN late = Late /\ \A g \in Late : late[g].phase # "clear"

(* What a mutator is about to store keeps the window of the record as it is *)
(* at that moment, whoever wrote in place since the mutator read it.        *)
KeepInv ==
  mutation.phase = "persist" /\ mutation.class \notin SetsItsOwn /\ auth # Gone
    => Outlasts(auth, mutation.rec, now)

LEMMA CoolingStep ==
  ASSUME "reset" \notin Ops, "config" \notin Ops, CoolingInv, [Next]_vars
  PROVE  CoolingInv'
<1> USE DEF copies, ghosts
<1>1. "reset" \notin Ops /\ "config" \notin Ops
  OBVIOUS
<1>2. ASSUME UNCHANGED <<off, late>> PROVE CoolingInv'
  BY <1>2 DEF CoolingInv
<1>3. ASSUME NEW g \in Late, UNCHANGED off,
             \/ late' = [late EXCEPT ![g] = Idle]
             \/ \E by, a : Carry(g, by, a)
      PROVE  CoolingInv'
  <2>1. ASSUME NEW x, late' = [late EXCEPT ![g] = x], x.phase # "clear" PROVE CoolingInv'
    BY <1>3, <2>1 DEF CoolingInv
  <2>2. CASE late' = [late EXCEPT ![g] = Idle]
    <3>1. Idle.phase # "clear"
      BY DEF Idle
    <3> QED
      BY <2>1, <2>2, <3>1
  <2>3. ASSUME NEW by, NEW a, Carry(g, by, a) PROVE CoolingInv'
    <3>1. PICK x : x = [phase |-> "carry", by |-> by, rec |-> a]
      OBVIOUS
    <3>2. late' = [late EXCEPT ![g] = x] /\ x.phase # "clear"
      BY <2>3, <3>1 DEF Carry
    <3> QED
      BY <2>1, <3>2
  <2> QED
    BY <1>3, <2>2, <2>3
<1>4. ASSUME NEW g \in Late, ReconcileModels(g) \/ CopyForScheduler(g) \/ PickFails(g) \/ LateUpsert(g)
      PROVE  CoolingInv'
  BY <1>3, <1>4, Zenon DEF ReconcileModels, CopyForScheduler, PickFails, LateUpsert
<1>5. \A g \in Late : ~ResetQuota(g) /\ ~SetCooling(g)
  BY <1>1 DEF ResetQuota, SetCooling, Call
<1>6. \A g \in Late : ~ClearDisabled(g)
  BY DEF ClearDisabled, CoolingInv
<1>7. ASSUME NEW r \in Results, MarkResult(r) PROVE CoolingInv'
  BY <1>2, <1>7 DEF MarkResult
<1>8. ASSUME NEW k \in 0 .. tokens, RefreshBegin(k) PROVE CoolingInv'
  BY <1>2, <1>8 DEF RefreshBegin
<1>9. ASSUME NEW m \in Models, Pick(m) PROVE CoolingInv'
  BY <1>2, <1>9 DEF Pick
<1>10. CASE Register \/ Remove \/ PersistFails \/ EditBegin \/ RecordNeutral \/ Tick \/ UNCHANGED vars
  BY <1>2, <1>10 DEF Register, Remove, PersistFails, EditBegin, RecordNeutral, Tick, vars
<1>11. CASE FinishMutation
  BY <1>2, <1>11 DEF FinishMutation, UpdateRefreshed, UpdateEdited, Store, Publish
<1>12. CASE FinishRefresh
  BY <1>2, <1>12 DEF FinishRefresh, RefreshSucceeds, RefreshCanceled, RefreshFails
<1> QED
  BY <1>4, <1>5, <1>6, <1>7, <1>8, <1>9, <1>10, <1>11, <1>12 DEF Next, FinishLate, Picking

(* The steps that write the record: in place, or by storing a copy.         *)
Writes ==
  \/ auth' = auth
  \/ auth = Gone \/ auth' = Gone
  \/ mutation.phase = "persist" /\ auth' = mutation.rec
  \/ /\ auth' \in Auths /\ Spares(auth, auth', now)
     /\ UNCHANGED <<now, mutation>>

LEMMA WritesOf ==
  ASSUME "reset" \notin Ops, "config" \notin Ops, TypeInv, SoundInv, CoolingInv, [Next]_vars
  PROVE  Writes /\ now' \in {now, now + 1}
<1> USE DEF copies, ghosts
<1>a. now \in Nat /\ auth \in Auths \cup {Gone}
  BY DEF TypeInv
<1> DEFINE Goal == Writes /\ now' \in {now, now + 1}
<1>1. ASSUME auth # Gone, UNCHANGED <<now, mutation>>, NEW b, auth' = b, b \in Auths, Spares(auth, b, now)
      PROVE  Goal
  BY <1>1 DEF Writes
<1>2. CASE RecordNeutral
  <2>1. auth \in Auths /\ auth # Gone /\ Sound(auth) /\ auth' = Counted(auth) /\ UNCHANGED <<now, mutation>>
    BY <1>2, <1>a DEF RecordNeutral, SoundInv
  <2>2. Counted(auth) \in Auths /\ Spares(auth, Counted(auth), now)
    BY <2>1, <1>a, InPlaceKeeps, InPlaceSpares
  <2> QED
    BY <2>1, <2>2, <1>1
<1>3. CASE RefreshFails
  <2>1. CASE auth = Gone
    BY <2>1, <1>3 DEF RefreshFails, Writes
  <2>2. CASE auth # Gone
    <3>1. auth \in Auths /\ Sound(auth) /\ UNCHANGED <<now, mutation>>
      BY <2>2, <1>3, <1>a DEF RefreshFails, SoundInv
    <3>2. PICK b \in {RefreshDenied(auth), RefreshErred(auth)} : auth' = b
      BY <2>2, <1>3 DEF RefreshFails
    <3>3. b \in Auths /\ Spares(auth, b, now)
      BY <3>1, <1>a, InPlaceKeeps, InPlaceSpares DEF Keeps
    <3> QED
      BY <2>2, <3>1, <3>2, <3>3, <1>1
  <2> QED
    BY <2>1, <2>2
<1>4. ASSUME NEW g \in Late, ReconcileModels(g) PROVE Goal
  <2>1. auth \in Auths /\ auth # Gone /\ Sound(auth) /\ UNCHANGED <<now, mutation>>
    BY <1>4, <1>a DEF ReconcileModels, SoundInv
  <2>2. PICK S \in SUBSET Models : auth' = Reconcile(auth, S, now)
    BY <1>4 DEF ReconcileModels
  <2>3. Reconcile(auth, S, now) \in Auths /\ Spares(auth, Reconcile(auth, S, now), now)
    BY <2>1, <1>a, ReconcileKeeps, ReconcileSpares DEF Keeps
  <2> QED
    BY <2>1, <2>2, <2>3, <1>1
<1>5. \A g \in Late : ~ResetQuota(g) /\ ~SetCooling(g) /\ ~ClearDisabled(g)
  BY DEF ResetQuota, SetCooling, Call, ClearDisabled, CoolingInv
<1>6. CASE Store \/ Remove
  BY <1>6 DEF Store, Remove, Writes
<1>7. ASSUME auth' = auth, now' = now PROVE Goal
  BY <1>7 DEF Writes
<1>8. ASSUME NEW r \in Results, MarkResult(r) PROVE Goal
  BY <1>7, <1>8 DEF MarkResult
<1>9. ASSUME NEW k \in 0 .. tokens, RefreshBegin(k) PROVE Goal
  BY <1>7, <1>9 DEF RefreshBegin
<1>10. ASSUME NEW m \in Models, Pick(m) PROVE Goal
  BY <1>7, <1>10 DEF Pick
<1>11. ASSUME NEW g \in Late, CopyForScheduler(g) \/ PickFails(g) \/ LateUpsert(g) PROVE Goal
  BY <1>7, <1>11 DEF CopyForScheduler, PickFails, LateUpsert
<1>12. CASE Register \/ PersistFails \/ EditBegin \/ UNCHANGED vars
  BY <1>7, <1>12 DEF Register, PersistFails, EditBegin, vars
<1>14. CASE Tick
  BY <1>14 DEF Tick, Writes
<1>13. CASE UpdateRefreshed \/ UpdateEdited \/ Publish \/ RefreshSucceeds \/ RefreshCanceled
  BY <1>7, <1>13 DEF UpdateRefreshed, UpdateEdited, Publish, RefreshSucceeds, RefreshCanceled
<1> QED
  BY <1>2, <1>3, <1>4, <1>5, <1>6, <1>8, <1>9, <1>10, <1>11, <1>12, <1>13,
     <1>14
     DEF Next, FinishMutation, FinishRefresh, FinishLate, Picking

(* Outlasts holds of what a mutator computes, and goes on holding while time *)
(* passes and others write in place.                                        *)
LEMMA KeepStep ==
  ASSUME "reset" \notin Ops, "config" \notin Ops, \A r \in Results : r.class = "quota" => r.model # NoModel,
         TypeInv, SoundInv, CoolingInv, KeepInv, [Next]_vars
  PROVE  KeepInv'
<1>a. now \in Nat /\ off = FALSE /\ auth \in Auths \cup {Gone}
  BY DEF TypeInv, CoolingInv
<1>b. MutationInv /\ RefreshInv /\ EditInv
  BY DEF TypeInv
<1>1. CASE UNCHANGED mutation
  <2> SUFFICES ASSUME mutation.phase = "persist", mutation.class \notin SetsItsOwn, auth' # Gone,
                      ~auth'.disabled, ~mutation.rec.disabled, CredentialWindow(auth', now')
               PROVE  /\ CredentialWindow(mutation.rec, now')
                      /\ mutation.rec.quota.recoverAt >= auth'.quota.recoverAt
    BY <1>1 DEF KeepInv, Outlasts, Extends
  <2>1. mutation.rec \in Auths /\ mutation.rec.quota.recoverAt \in Int
    BY <1>b DEF MutationInv, Auths, Quotas
  <2>2. Writes /\ now' \in {now, now + 1}
    BY WritesOf
  <2>3. auth # Gone => Outlasts(auth, mutation.rec, now)
    BY DEF KeepInv
  <2>4. CASE auth' = auth
    <3>1. auth \in Auths /\ auth.quota.recoverAt \in Int
      BY <1>a, <2>4 DEF Auths, Quotas
    <3>2. CredentialWindow(auth, now)
      BY <1>a, <2>2, <2>4, <3>1 DEF CredentialWindow
    <3>3. CredentialWindow(mutation.rec, now) /\ mutation.rec.quota.recoverAt >= auth.quota.recoverAt
      BY <2>3, <2>4, <3>2 DEF Outlasts, Extends
    <3>4. auth.quota.recoverAt > now'
      BY <2>4 DEF CredentialWindow
    <3>5. now' \in Int
      BY <1>a, <2>2
    <3> QED
      BY <2>1, <2>4, <3>1, <3>3, <3>4, <3>5 DEF CredentialWindow
  <2>5. CASE mutation.rec = auth'
    BY <2>1, <2>5
  <2>6. CASE auth # Gone /\ Spares(auth, auth', now) /\ UNCHANGED now
    <3>1. CredentialWindow(auth, now) /\ auth'.quota = auth.quota /\ ~auth.disabled
      BY <2>6 DEF Spares
    <3> QED
      BY <2>3, <2>6, <3>1 DEF Outlasts, Extends
  <2>7. auth # Gone
    <3>1. TypeInv'
      BY TypeStep
    <3> QED
      BY <1>1, <1>b, <3>1 DEF MutationInv, TypeInv
  <2> QED
    BY <2>2, <2>4, <2>5, <2>6, <2>7 DEF Writes
<1>2. CASE mutation'.phase # "persist"
  BY <1>2 DEF KeepInv
<1>3. ASSUME NEW r \in Results, MarkResult(r) PROVE KeepInv'
  <2>1. auth \in Auths /\ UNCHANGED <<auth, now>>
    BY <1>3, <1>a DEF MarkResult
  <2>2. mutation'.rec = ApplyResult(auth, r, now, FALSE) /\ mutation'.class = r.class
    BY <1>3, <1>a DEF MarkResult, Holding
  <2> QED
    BY <2>1, <2>2, <1>a, ResultExtends DEF KeepInv, Outlasts
<1>4. CASE Register
  BY <1>4 DEF Register, KeepInv
<1>5. CASE UpdateRefreshed
  <2>1. refresh.phase = "update" /\ UNCHANGED <<auth, now>>
    BY <1>5 DEF UpdateRefreshed
  <2>2. refresh # Idle
    BY <2>1 DEF Idle
  <2>3. refresh.rec \in Auths /\ Sound(refresh.rec)
    BY <2>2, <1>b DEF RefreshInv, SoundInv
  <2>4. CASE auth = Gone
    BY <2>1, <2>4 DEF KeepInv
  <2>5. CASE auth # Gone
    <3>1. mutation'.rec = Merge(refresh.rec, auth, now, FALSE)
      <4>1. mutation' = Holding("refresh", Merge(refresh.rec, auth, now, off), "none")
        BY <2>5, <1>5 DEF UpdateRefreshed
      <4> QED
        BY <4>1, <1>a DEF Holding
    <3>2. Outlasts(auth, mutation'.rec, now)
      BY <2>3, <2>5, <3>1, <1>a, MergeKeepsWindow DEF SoundInv
    <3> QED
      BY <2>1, <3>2 DEF KeepInv
  <2> QED
    BY <2>4, <2>5
<1>6. CASE UpdateEdited
  <2>1. edit # Idle /\ UNCHANGED <<auth, now>>
    BY <1>6 DEF UpdateEdited
  <2>2. edit.rec \in Auths /\ Sound(edit.rec)
    BY <2>1, <1>b DEF EditInv, SoundInv
  <2>3. CASE auth = Gone
    BY <2>1, <2>3 DEF KeepInv
  <2>4. CASE auth # Gone
    <3>1. mutation'.rec = Merge(edit.rec, auth, now, FALSE)
      BY <2>4, <1>6, <1>a DEF UpdateEdited, Holding
    <3>2. Outlasts(auth, mutation'.rec, now)
      BY <2>2, <2>4, <3>1, <1>a, MergeKeepsWindow DEF SoundInv
    <3> QED
      BY <2>1, <3>2 DEF KeepInv
  <2> QED
    BY <2>3, <2>4
<1> QED
  BY <1>1, <1>2, <1>3, <1>4, <1>5, <1>6, Begins

(* A window of the whole credential survives late successes, failures of    *)
(* another kind, and edits and refreshes prepared before it opened, and a   *)
(* model's window survives failures of another kind, whatever the order of  *)
(* computing, saving and storing (MarkResult, Manager.Update).              *)
THEOREM WindowsAreKept ==
  ASSUME "reset" \notin Ops, "config" \notin Ops, \A r \in Results : r.class = "quota" => r.model # NoModel
  PROVE  Spec => WindowsKept
<1> DEFINE IInv == TypeInv /\ SoundInv /\ CoolingInv /\ KeepInv
<1>1. Init => IInv
  <2> SUFFICES ASSUME Init PROVE SoundInv /\ CoolingInv /\ KeepInv
    BY TypeInit
  <2>1. PICK n \in Nat : n = 1
    OBVIOUS
  <2>2. auth = [Fresh EXCEPT !.token = n] /\ mutation = Idle /\ refresh = Idle /\ edit = Idle
    BY <2>1 DEF Init
  <2>3. Sound(auth)
    <3>1. auth.models = << >>
      BY <2>2 DEF Fresh
    <3> QED
      BY <3>1 DEF Sound
  <2>4. CoolingInv
    BY DEF Init, CoolingInv, Idle
  <2> QED
    BY <2>2, <2>3, <2>4 DEF SoundInv, KeepInv, Idle
<1>2. IInv /\ [Next]_vars => IInv'
  BY TypeStep, SoundStep, CoolingStep, KeepStep
<1>3. ASSUME IInv, [Next]_vars, auth # Gone, auth' # Gone, CredentialWindow(auth, now), ~auth.disabled,
             ~auth'.disabled, mutation.phase = "persist" => mutation.class \notin SetsItsOwn
      PROVE  CredentialWindow(auth', now) /\ auth'.quota.recoverAt >= auth.quota.recoverAt
  <2>1. auth \in Auths /\ auth.quota.recoverAt \in Int
    BY <1>3 DEF TypeInv, Auths, Quotas
  <2>2. Writes
    BY <1>3, WritesOf
  <2>3. CASE mutation.phase = "persist" /\ auth' = mutation.rec
    BY <1>3, <2>3 DEF KeepInv, Outlasts, Extends
  <2>4. CASE Spares(auth, auth', now)
    BY <1>3, <2>1, <2>4 DEF Spares, CredentialWindow
  <2>5. CASE auth' = auth
    BY <1>3, <2>1, <2>5
  <2> QED
    BY <1>3, <2>2, <2>3, <2>4, <2>5 DEF Writes
<1>4. ASSUME IInv, [Next]_vars, Marked, Failure(mutation'.class), mutation'.class \notin SetsItsOwn, ~off
      PROVE  \A m \in Models : WindowIn(auth, m) <= WindowIn(mutation'.rec, m)
  <2>1. mutation = Idle /\ mutation'.phase = "persist" /\ mutation'.by = "mark"
    BY <1>4 DEF Marked
  <2>2. ~Register /\ ~UpdateRefreshed /\ ~UpdateEdited /\ mutation' # mutation
    BY <2>1 DEF Register, UpdateRefreshed, UpdateEdited, Holding, Idle
  <2>3. PICK r \in Results : MarkResult(r)
    BY <1>4, <2>1, <2>2, Begins
  <2>4. /\ auth \in Auths /\ Sound(auth) /\ now \in Nat
        /\ mutation'.rec = ApplyResult(auth, r, now, FALSE) /\ mutation'.class = r.class
    BY <1>4, <2>3 DEF MarkResult, Holding, TypeInv, SoundInv, CoolingInv
  <2> QED
    BY <1>4, <2>4, ResultWindows DEF Failure
<1>5. IInv /\ [Next]_vars =>
        [/\ /\ auth # Gone /\ auth' # Gone
            /\ \A g \in Late : late'[g] # late[g] => late'[g] = Idle \/ late'[g].by = "reconcile"
            /\ CredentialWindow(auth, now) /\ ~auth.disabled /\ ~auth'.disabled
            /\ mutation.phase = "persist" => mutation.class \notin SetsItsOwn
            => CredentialWindow(auth', now) /\ auth'.quota.recoverAt >= auth.quota.recoverAt
         /\ Marked /\ Failure(mutation'.class) /\ mutation'.class \notin SetsItsOwn /\ ~off
            => \A m \in Models : WindowIn(auth, m) <= WindowIn(mutation'.rec, m)]_vars
  BY <1>3, <1>4
<1> QED
  BY <1>1, <1>2, <1>5, PTL DEF Spec, WindowsKept
=============================================================================
