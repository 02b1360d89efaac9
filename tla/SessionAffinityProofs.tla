------------------------ MODULE SessionAffinityProofs ------------------------
(***************************************************************************)
(* Theorems about SessionAffinity for every set of credentials, keys,      *)
(* sessions and requests.  What a step does to the cache is described by   *)
(* few shapes (erase a set of keys, bind a set of keys as one new group,   *)
(* drop one key from its group, let a group lapse); the lemmas below say   *)
(* what each shape keeps, and the proof of a step names its shape.         *)
(***************************************************************************)
EXTENDS SessionAffinity, TLAPS, FiniteSetTheorems

-----------------------------------------------------------------------------
(* The requests.  What a position of Pick or OnResult relies on.            *)

NeedsFallback == {"lookFallback", "recheckFallback", "observeFallback", "mergePrimary",
                  "mergeFallback", "mergeDelete", "mergeReplace", "failedFallback"}
NeedsAuth == {"bind", "bindLocked", "rebind", "reobserve", "mergePrimary", "mergeFallback",
              "mergeDelete", "mergeReplace", "restore"} \cup Result
NeedsAt == {"observeFallback", "choose", "rebind", "reobserve", "invalidate"}

ReqRec == [pc : {"idle", "over"} \cup Fast \cup Locked \cup Result,
           key : Keys \cup {NoKey}, fb : Keys \cup {NoKey},
           avail : SUBSET Auths, auth : Auths \cup {NoAuth},
           at : Keys \cup {NoKey}, stale : Group, split : Group, tries : 0..Tries,
           kept : SUBSET Keys, keptAuth : Auths \cup {NoAuth}, todo : SUBSET Keys]

GroupOK(g) == IF g.ok THEN g.auth \in Auths ELSE g = NoGroup
ReqOK(r) ==
  /\ r \in ReqRec
  /\ r.pc \notin {"idle", "over"} => r.key \in Keys
  /\ r.pc \in NeedsFallback => r.fb \in Keys
  /\ r.pc \in NeedsAuth => r.auth \in Auths
  /\ r.pc \in NeedsAt => r.at \in Keys
  /\ r.pc = "rebind" => r.stale.ok
  /\ r.pc = "mergeDelete" => r.split.ok /\ r.fb \in r.split.aliases
  /\ r.pc # "restore" => r.tries < Tries
  /\ GroupOK(r.stale) /\ GroupOK(r.split)
  /\ r.split.ok => r.fb \in Keys
  /\ r.kept # {} => r.keptAuth \in Auths
  /\ r.pc \notin Locked => r.stale = NoGroup /\ r.split = NoGroup

ReqsOK == /\ req \in [Requests -> ReqRec]
          /\ \A q \in Requests : ReqOK(req[q])
OneHolder == \A q, r \in Requests : Holds(q) /\ Holds(r) => q = r

EntryOK(e) == e \in Entry \/ e = NoEntry
CacheOK == DOMAIN cache = Keys /\ cache = [k \in Keys |-> cache[k]] /\ \A k \in Keys : EntryOK(cache[k])
HistoryOK == /\ lapses \in 0..MaxLapses /\ quarantine \subseteq Keys \X Auths
             /\ moved \subseteq Keys /\ disturbed \in BOOLEAN

TypeInv == CacheOK /\ ReqsOK /\ OneHolder /\ HistoryOK

-----------------------------------------------------------------------------
(* replaceAliasGroupsLocked counts the generation up: no entry has the new  *)
(* one, and no request remembers it.                                        *)
LEMMA ImageFinite ==
  ASSUME NEW S, IsFiniteSet(S), NEW f, DOMAIN f = S
  PROVE  IsFiniteSet({f[x] : x \in S})
<1> DEFINE T == {f[x] : x \in S}
            h == [x \in S |-> f[x]]
<1>1. h \in Surjection(S, T)
  BY DEF Surjection
<1> HIDE DEF T, h
<1>2. IsFiniteSet(T)
  BY <1>1, FS_Surjection
<1> QED
  BY <1>2 DEF T

LEMMA InUseFinite == IsFiniteSet(InUse)
<1> DEFINE gens == [k \in Keys |-> cache[k].gen]
            stales == [q \in Requests |-> req[q].stale.gen]
            splits == [q \in Requests |-> req[q].split.gen]
            A == {gens[k] : k \in Keys}
            B == {stales[q] : q \in Requests}
            C == {splits[q] : q \in Requests}
<1>1. IsFiniteSet(A)
  BY ImageFinite, KeysAssumption, ZenonT(60)
<1>2. IsFiniteSet(B) /\ IsFiniteSet(C)
  BY ImageFinite, KeysAssumption, ZenonT(60)
<1>3. InUse = A \cup (B \cup C)
  BY DEF InUse
<1> HIDE DEF A, B, C
<1> QED
  BY <1>1, <1>2, <1>3, FS_Union

LEMMA FreshGeneration ==
  /\ NewGeneration \in Nat \ {0}
  /\ NewGeneration \notin InUse
<1> DEFINE n == Cardinality(InUse)
<1>1. n \in Nat
  BY InUseFinite, FS_CardinalityType
<1>2. \E g \in 1..(n + 1) : g \notin InUse
  <2>1. SUFFICES ASSUME 1..(n + 1) \in SUBSET InUse PROVE FALSE
    OBVIOUS
  <2>2. Cardinality(1..(n + 1)) <= n
    BY <2>1, InUseFinite, FS_Subset
  <2>3. Cardinality(1..(n + 1)) = n + 1
    BY <1>1, FS_Interval
  <2> QED
    BY <1>1, <2>2, <2>3
<1>3. NewGeneration \in 1..(n + 1) /\ NewGeneration \notin InUse
  BY <1>2 DEF NewGeneration
<1> QED
  BY <1>1, <1>3

LEMMA GenerationsInUse ==
  /\ \A k \in Keys : cache[k].gen # NewGeneration
  /\ \A q \in Requests : req[q].stale.gen # NewGeneration /\ req[q].split.gen # NewGeneration
  BY FreshGeneration DEF InUse

-----------------------------------------------------------------------------
(* The shapes of a write.  A write keeps the groups closed if what it       *)
(* touches takes all of each live group with it.                            *)
Closed(X) == \A j \in X : j \in Keys /\ Live(j) => cache[j].aliases \subseteq X

NewEntry(a, all) == [auth |-> a, aliases |-> all, gen |-> NewGeneration, live |-> TRUE]
Bound(a, all, X) == [k \in Keys |-> IF k \in all THEN NewEntry(a, all)
                                    ELSE IF k \in X THEN NoEntry ELSE cache[k]]

(* What a write makes of an entry: nothing, no entry, or one of a           *)
(* generation nobody has.  A group that expires is no write.                *)
EntryStep(k) == \/ cache'[k] = cache[k] \/ cache'[k] = NoEntry
                \/ cache'[k].gen = NewGeneration
Kept == CacheOK' /\ GroupsClosed' /\ \A k \in Keys : EntryStep(k)

LEMMA KeepsAll == ASSUME CacheOK, GroupsClosed, cache' = cache PROVE Kept
  BY DEF Kept, CacheOK, GroupsClosed, EntryStep, EntryOK, Live

LEMMA KeepsErased ==
  ASSUME CacheOK, GroupsClosed, NEW X, Closed(X), cache' = Erased(X)
  PROVE  Kept
<1>1. \A k \in Keys : cache'[k] = IF k \in X THEN NoEntry ELSE cache[k]
  BY DEF Erased
<1>2. CacheOK' /\ \A k \in Keys : EntryStep(k)
  BY <1>1 DEF CacheOK, EntryOK, EntryStep, Erased
<1>3. GroupsClosed'
  <2> SUFFICES ASSUME NEW k \in Keys, Live(k)'
               PROVE  /\ k \in cache'[k].aliases
                      /\ \A j \in cache'[k].aliases :
                            Live(j)' /\ cache'[j].auth = cache'[k].auth
                                     /\ cache'[j].aliases = cache'[k].aliases
    BY DEF GroupsClosed, Live
  <2>1. k \notin X /\ cache'[k] = cache[k] /\ Live(k)
    BY <1>1 DEF Live, NoEntry
  <2>2. ASSUME NEW j \in cache[k].aliases
        PROVE  j \in Keys /\ j \notin X /\ Live(j) /\ cache[j].aliases = cache[k].aliases
                                       /\ cache[j].auth = cache[k].auth
    <3>1. j \in Keys
      BY <2>1 DEF CacheOK, EntryOK, Entry, NoEntry
    <3>2. Live(j) /\ cache[j].aliases = cache[k].aliases /\ k \in cache[j].aliases
      BY <2>1 DEF GroupsClosed
    <3>3. j \notin X
      BY <2>1, <3>1, <3>2 DEF Closed
    <3> QED
      BY <2>1, <3>1, <3>2, <3>3 DEF GroupsClosed
  <2> QED
    BY <1>1, <2>1, <2>2 DEF GroupsClosed, Live
<1> QED
  BY <1>2, <1>3 DEF Kept

LEMMA KeepsBound ==
  ASSUME CacheOK, GroupsClosed, NEW a \in Auths, NEW all \in SUBSET Keys, NEW X,
         Closed(all \cup X), cache' = Bound(a, all, X)
  PROVE  Kept
<1>1. \A k \in Keys : cache'[k] = IF k \in all THEN NewEntry(a, all)
                                  ELSE IF k \in X THEN NoEntry ELSE cache[k]
  BY DEF Bound
<1>2. NewEntry(a, all) \in Entry
  BY FreshGeneration DEF NewEntry, Entry
<1>3. CacheOK' /\ \A k \in Keys : EntryStep(k)
  <2>1. CacheOK'
    BY <1>1, <1>2 DEF CacheOK, EntryOK, Bound
  <2>2. NewEntry(a, all).gen = NewGeneration
    BY DEF NewEntry
  <2> QED
    BY <1>1, <2>1, <2>2 DEF EntryStep
<1>4. GroupsClosed'
  <2> SUFFICES ASSUME NEW k \in Keys, Live(k)'
               PROVE  /\ k \in cache'[k].aliases
                      /\ \A j \in cache'[k].aliases :
                            Live(j)' /\ cache'[j].auth = cache'[k].auth
                                     /\ cache'[j].aliases = cache'[k].aliases
    BY DEF GroupsClosed, Live
  <2>1. CASE k \in all
    BY <1>1, <2>1 DEF NewEntry, Live
  <2>2. CASE k \notin all
    <3>1. k \notin X /\ cache'[k] = cache[k] /\ Live(k)
      BY <1>1, <2>2 DEF Live, NoEntry
    <3>2. ASSUME NEW j \in cache[k].aliases
          PROVE  j \in Keys /\ j \notin all \cup X /\ Live(j) /\ cache[j].aliases = cache[k].aliases
                                         /\ cache[j].auth = cache[k].auth
      <4>1. j \in Keys
        BY <3>1 DEF CacheOK, EntryOK, Entry, NoEntry
      <4>2. Live(j) /\ cache[j].aliases = cache[k].aliases /\ k \in cache[j].aliases
        BY <3>1 DEF GroupsClosed
      <4>3. j \notin all \cup X
        BY <2>2, <3>1, <4>1, <4>2 DEF Closed
      <4> QED
        BY <3>1, <4>1, <4>2, <4>3 DEF GroupsClosed
    <3> QED
      BY <1>1, <3>1, <3>2 DEF GroupsClosed, Live
  <2> QED
    BY <2>1, <2>2
<1> QED
  BY <1>3, <1>4 DEF Kept

(* removeAliasGroupLocked takes a group whole, live or expired. *)
LEMMA MembersClosed ==
  ASSUME CacheOK, GroupsClosed, NEW k \in Keys
  PROVE  /\ Closed(Members(cache[k]))
         /\ Live(k) => Members(cache[k]) = cache[k].aliases
  BY DEF Closed, Members, GroupsClosed, Live

LEMMA UnionClosed ==
  ASSUME NEW Y, \A X \in Y : Closed(X)
  PROVE  Closed(UNION Y)
  BY DEF Closed

LEMMA KeepsReplaced ==
  ASSUME CacheOK, GroupsClosed, NEW a \in Auths, NEW all \in SUBSET Keys,
         NEW S \in SUBSET Keys,
         \A j \in all : Live(j) => \/ cache[j].aliases \subseteq all
                                   \/ \E s \in S : Live(s) /\ cache[j].aliases = cache[s].aliases,
         cache' = Replaced(a, all, S)
  PROVE  Kept
<1> DEFINE Y == {Members(cache[s]) : s \in S}
           X == UNION Y
<1>1. Closed(X)
  <2>1. \A Z \in Y : Closed(Z)
    BY MembersClosed
  <2> QED
    BY <2>1, UnionClosed
<1>2. Closed(all \cup X)
  <2>1. ASSUME NEW j \in all, j \in Keys, Live(j)
        PROVE  cache[j].aliases \subseteq all \cup X
    <3>1. CASE cache[j].aliases \subseteq all
      BY <3>1
    <3>2. ASSUME NEW s \in S, Live(s), cache[j].aliases = cache[s].aliases
          PROVE  cache[j].aliases \subseteq X
      BY <3>2, MembersClosed
    <3> QED
      BY <2>1, <3>1, <3>2
  <2> QED
    BY <1>1, <2>1 DEF Closed
<1>3. cache' = Bound(a, all, X)
  BY DEF Replaced, Erased, Bound, NewEntry
<1> HIDE DEF X
<1> QED
  BY <1>2, <1>3, KeepsBound

LEMMA OrderedWithin ==
  ASSUME NEW S, NEW T \in Ordered(S)
  PROVE  T \subseteq S
  BY DEF Ordered

LEMMA CompactedBetween ==
  ASSUME NEW first, NEW rest, NEW T \in Compacted(first, rest)
  PROVE  first \subseteq T /\ T \subseteq first \cup rest
  BY DEF Compacted

LEMMA AliasesAreKeys ==
  ASSUME CacheOK, NEW k \in Keys
  PROVE  cache[k].aliases \subseteq Keys /\ (Live(k) => cache[k].auth \in Auths)
  BY DEF CacheOK, EntryOK, Entry, NoEntry, Live

LEMMA KeepsSetAliases ==
  ASSUME CacheOK, GroupsClosed, NEW a \in Auths, NEW ids \in SUBSET Keys,
         cache' \in SetAliases(a, ids)
  PROVE  Kept
<1>0. PICK first \in Ordered(ids) :
        \E all \in Compacted(first, Gathered(ids)) : cache' = Replaced(a, all, ids)
  BY DEF SetAliases
<1>1. PICK all \in Compacted(first, Gathered(ids)) : cache' = Replaced(a, all, ids)
  BY <1>0
<1>2. all \subseteq ids \cup Gathered(ids)
  BY OrderedWithin, CompactedBetween
<1>3. Gathered(ids) \subseteq Keys
  BY AliasesAreKeys DEF Gathered
<1>4. ASSUME NEW j \in all, Live(j)
      PROVE  \E s \in ids : Live(s) /\ cache[j].aliases = cache[s].aliases
  <2>1. CASE j \in ids
    BY <1>4, <2>1
  <2>2. CASE j \in Gathered(ids)
    BY <2>2 DEF Gathered, GroupsClosed
  <2> QED
    BY <1>2, <2>1, <2>2
<1> QED
  BY <1>1, <1>2, <1>3, <1>4, KeepsReplaced

LEMMA KeepsSwap ==
  ASSUME CacheOK, GroupsClosed, NEW a \in Auths, NEW g \in Group, NEW more \in SUBSET Keys,
         NEW all \in Compacted(g.aliases, more), Unchanged(g), NoOtherGroup(g, all),
         cache' = Replaced(a, all, g.aliases)
  PROVE  Kept
<1>1. g.aliases \subseteq all /\ all \subseteq Keys /\ g.aliases \subseteq Keys
  BY CompactedBetween DEF Group
<1>2. \A j \in all : Live(j) => cache[j].aliases \subseteq all
  BY <1>1 DEF Unchanged, NoOtherGroup, SameGroup
<1> QED
  BY <1>1, <1>2, KeepsReplaced

LEMMA KeepsRefreshed ==
  ASSUME CacheOK, GroupsClosed, NEW k \in Keys, Live(k), cache' = Refreshed(k)
  PROVE  Kept
<1>1. \A j \in cache[k].aliases : cache[j].aliases \subseteq cache[k].aliases
  BY DEF GroupsClosed
<1> QED
  BY <1>1, AliasesAreKeys, KeepsReplaced DEF Refreshed

LEMMA KeepsRestored ==
  ASSUME CacheOK, GroupsClosed, NEW a \in Auths, NEW ids \in SUBSET Keys,
         cache' \in Restored(a, ids)
  PROVE  Kept
<1>1. PICK all \in Ordered({k \in ids : ~Live(k)}) : cache' = Bound(a, all, {})
  BY DEF Restored, Bound, NewEntry
<1>2. Closed(all \cup {}) /\ all \subseteq Keys
  BY OrderedWithin DEF Closed
<1> QED
  BY <1>1, <1>2, KeepsBound

(* Invalidate takes one key out of a live group, and of what an expired     *)
(* group left only the generations of others change.                       *)
LEMMA KeepsWithout ==
  ASSUME CacheOK, GroupsClosed, NEW k \in Keys, cache' = Without(k)
  PROVE  Kept
<1> DEFINE Mate(j) == j # k /\ j \in cache[k].aliases /\ cache[j].auth = cache[k].auth
<1>1. \A j \in Keys : cache'[j] =
         IF j = k THEN NoEntry
         ELSE IF Mate(j) THEN [cache[j] EXCEPT !.aliases = @ \ {k}, !.gen = NewGeneration]
         ELSE cache[j]
  BY DEF Without
<1>2. CASE cache[k].auth = NoAuth
  <2>0. cache[k] = NoEntry
    BY <1>2, KeysAssumption DEF CacheOK, EntryOK, Entry
  <2>1. \A j \in Keys : cache'[j] = cache[j]
    BY <1>1, <2>0 DEF NoEntry
  <2>2. cache' = cache
    BY <2>1 DEF Without, CacheOK
  <2> QED
    BY <2>2, KeepsAll
<1>3. CASE cache[k].auth # NoAuth
  <2>1. cache[k] \in Entry
    BY <1>3 DEF CacheOK, EntryOK, NoEntry
  <2>2. \A j \in Keys : Mate(j) => cache[j] \in Entry
    BY <1>3 DEF CacheOK, EntryOK, NoEntry
  <2>3. \A j \in Keys : Mate(j) =>
           /\ cache'[j] = [auth |-> cache[j].auth, aliases |-> cache[j].aliases \ {k},
                           gen |-> NewGeneration, live |-> cache[j].live]
           /\ cache'[j] \in Entry
    BY <1>1, <2>2, FreshGeneration, ZenonT(60) DEF Entry
  <2> HIDE DEF Mate
  <2>4. CacheOK'
    <3>1. \A j \in Keys : EntryOK(cache'[j])
      BY <1>1, <2>3, ZenonT(60) DEF CacheOK, EntryOK
    <3> QED
      BY <3>1 DEF CacheOK, EntryOK, Without
  <2>5. \A j \in Keys : EntryStep(j)
    BY <1>1, <2>3 DEF EntryStep
  <2>6. GroupsClosed'
    <3> SUFFICES ASSUME NEW j \in Keys, Live(j)'
                 PROVE  /\ j \in cache'[j].aliases
                        /\ \A i \in cache'[j].aliases :
                              Live(i)' /\ cache'[i].auth = cache'[j].auth
                                       /\ cache'[i].aliases = cache'[j].aliases
      BY DEF GroupsClosed, Live
    <3>0. cache'[j].live
      BY DEF Live
    <3>1. j # k /\ Live(j)
      <4>1. CASE j = k
        <5>1. cache'[j] = NoEntry
          BY <1>1, <4>1
        <5> QED
          BY <3>0, <5>1 DEF NoEntry
      <4>2. CASE Mate(j)
        BY <1>1, <2>3, <3>0, <4>1, <4>2 DEF Live
      <4>3. CASE j # k /\ ~Mate(j)
        BY <1>1, <3>0, <4>3 DEF Live
      <4> QED
        BY <4>1, <4>2, <4>3 DEF Mate
    <3>2. \A i \in cache[j].aliases : /\ i \in Keys /\ Live(i) /\ i \in cache[i].aliases
                                      /\ cache[i].auth = cache[j].auth
                                      /\ cache[i].aliases = cache[j].aliases
      BY <3>1, AliasesAreKeys DEF GroupsClosed
    <3>3. CASE k \in cache[j].aliases
      <4>1. \A i \in cache[j].aliases : i # k => Mate(i)
        BY <3>2, <3>3 DEF Mate
      <4>2. j \in cache[j].aliases
        BY <3>1 DEF GroupsClosed
      <4>3. \A i \in cache[j].aliases : i # k =>
              /\ cache'[i].live /\ cache'[i].auth = cache[j].auth
              /\ cache'[i].aliases = cache[j].aliases \ {k}
        <5> SUFFICES ASSUME NEW i \in cache[j].aliases, i # k
                     PROVE  /\ cache'[i].live /\ cache'[i].auth = cache[j].auth
                            /\ cache'[i].aliases = cache[j].aliases \ {k}
          OBVIOUS
        <5>1. i \in Keys /\ cache[i].live
          BY <3>2 DEF Live
        <5>2. cache'[i] = [auth |-> cache[i].auth, aliases |-> cache[i].aliases \ {k},
                           gen |-> NewGeneration, live |-> cache[i].live]
          BY <2>3, <4>1, <5>1
        <5> QED
          BY <3>2, <5>1, <5>2
      <4>4. cache'[j].auth = cache[j].auth /\ cache'[j].aliases = cache[j].aliases \ {k}
        BY <3>1, <4>2, <4>3
      <4> QED
        BY <3>1, <4>2, <4>3, <4>4 DEF Live
    <3>4. CASE k \notin cache[j].aliases
      <4>1. \A i \in cache[j].aliases :
              /\ cache'[i].live /\ cache'[i].auth = cache[i].auth
              /\ cache'[i].aliases = cache[i].aliases
        <5> SUFFICES ASSUME NEW i \in cache[j].aliases
                     PROVE  /\ cache'[i].live /\ cache'[i].auth = cache[i].auth
                            /\ cache'[i].aliases = cache[i].aliases
          OBVIOUS
        <5>1. i \in Keys /\ i # k /\ cache[i].live /\ k \notin cache[i].aliases
          BY <3>2, <3>4 DEF Live
        <5>2. CASE Mate(i)
          <6>1. cache'[i] = [auth |-> cache[i].auth, aliases |-> cache[i].aliases \ {k},
                             gen |-> NewGeneration, live |-> cache[i].live]
            BY <2>3, <5>1, <5>2
          <6> QED
            BY <5>1, <6>1
        <5>3. CASE ~Mate(i)
          BY <1>1, <5>1, <5>3
        <5> QED
          BY <5>2, <5>3
      <4> QED
        BY <3>1, <3>2, <4>1 DEF Live, GroupsClosed
    <3> QED
      BY <3>3, <3>4
  <2> QED
    BY <2>4, <2>5, <2>6 DEF Kept
<1> QED
  BY <1>2, <1>3

(* A live group expires as a whole. *)
Lapsed == /\ CacheOK' /\ GroupsClosed'
          /\ \A k \in Keys : cache'[k].gen = cache[k].gen /\ cache'[k].auth = cache[k].auth

LEMMA KeepsExpired ==
  ASSUME CacheOK, GroupsClosed, NEW k \in Keys, Live(k),
         cache' = [j \in Keys |-> IF j \in Members(cache[k])
                                    THEN [cache[j] EXCEPT !.live = FALSE] ELSE cache[j]]
  PROVE  Lapsed
<1>1. \A j \in Keys : cache'[j] = IF j \in cache[k].aliases
                                    THEN [cache[j] EXCEPT !.live = FALSE] ELSE cache[j]
  BY MembersClosed
<1>2. \A j \in Keys : j \in cache[k].aliases =>
         cache[j] \in Entry /\ cache'[j] \in Entry /\ ~cache'[j].live
  <2> SUFFICES ASSUME NEW j \in Keys, j \in cache[k].aliases
               PROVE  cache[j] \in Entry /\ cache'[j] \in Entry /\ ~cache'[j].live
    OBVIOUS
  <2>1. cache[j].live
    BY DEF GroupsClosed, Live
  <2>2. cache[j] \in Entry
    BY <2>1 DEF CacheOK, EntryOK, NoEntry
  <2>3. cache'[j] = [cache[j] EXCEPT !.live = FALSE]
    BY <1>1
  <2> QED
    BY <2>2, <2>3 DEF Entry
<1>3. CacheOK' /\ \A j \in Keys : cache'[j].gen = cache[j].gen /\ cache'[j].auth = cache[j].auth
  <2>1. \A j \in Keys : EntryOK(cache'[j])
    BY <1>1, <1>2 DEF CacheOK, EntryOK
  <2>2. ASSUME NEW j \in Keys
        PROVE  cache'[j].gen = cache[j].gen /\ cache'[j].auth = cache[j].auth
    BY <1>1, <1>2 DEF Entry
  <2> QED
    BY <2>1, <2>2 DEF CacheOK
<1>4. GroupsClosed'
  <2> SUFFICES ASSUME NEW j \in Keys, Live(j)'
               PROVE  /\ j \in cache'[j].aliases
                      /\ \A i \in cache'[j].aliases :
                            Live(i)' /\ cache'[i].auth = cache'[j].auth
                                     /\ cache'[i].aliases = cache'[j].aliases
    BY DEF GroupsClosed, Live
  <2>1. j \notin cache[k].aliases /\ cache'[j] = cache[j] /\ Live(j)
    BY <1>1, <1>2 DEF Live
  <2>2. \A i \in cache[j].aliases : /\ i \in Keys /\ i \notin cache[k].aliases /\ Live(i)
                                    /\ cache[i].auth = cache[j].auth
                                    /\ cache[i].aliases = cache[j].aliases
    BY <2>1, AliasesAreKeys DEF GroupsClosed
  <2> QED
    BY <1>1, <2>1, <2>2, ZenonT(60) DEF GroupsClosed, Live
<1> QED
  BY <1>3, <1>4 DEF Lapsed

-----------------------------------------------------------------------------
(* The steps of one request. *)
Inv == TypeInv /\ GroupsClosed
HistoryStep == moved' \subseteq Keys /\ disturbed' \in BOOLEAN

LEMMA NotesAreHistory ==
  ASSUME HistoryOK, NEW q, Note(q) \/ Reads \/ Moves \/ \E g \in Group : Observes(g) \/ StartsOver(g)
  PROVE  HistoryStep
<1>1. CASE Note(q) \/ Reads \/ Moves
  BY <1>1 DEF HistoryOK, HistoryStep, Note, Reads, Moves, Disturb, Changed
<1>2. CASE \E g \in Group : Observes(g) \/ StartsOver(g)
  BY <1>2 DEF HistoryOK, HistoryStep, Observes, StartsOver
<1> QED
  BY <1>1, <1>2

LEMMA ReqStep ==
  ASSUME TypeInv, NEW q \in Requests, NEW r, ReqOK(r), Goto(q, r), Kept, HistoryStep,
         r.pc \in Locked => Holds(q) \/ BindMuFree, quarantine' \subseteq Keys \X Auths
  PROVE  Inv'
<1>1. \A p \in Requests : req'[p] = IF p = q THEN r ELSE req[p]
  BY DEF Goto, TypeInv, ReqsOK
<1>2. ReqsOK'
  <2>1. req' \in [Requests -> ReqRec]
    BY DEF Goto, TypeInv, ReqsOK, ReqOK
  <2>2. \A p \in Requests : ReqOK(req'[p])
    BY <1>1 DEF TypeInv, ReqsOK
  <2> QED
    BY <2>1, <2>2 DEF ReqsOK, ReqOK
<1>3. OneHolder'
  <2>1. \A p \in Requests : Holds(p)' => Holds(p) \/ (p = q /\ BindMuFree)
    BY <1>1 DEF Holds
  <2> QED
    BY <2>1 DEF OneHolder, TypeInv, BindMuFree, Held
<1>4. HistoryOK'
  BY DEF HistoryOK, HistoryStep, TypeInv, Goto
<1> QED
  BY <1>2, <1>3, <1>4 DEF Inv, TypeInv, Kept

LEMMA ObservedGroup ==
  ASSUME CacheOK, NEW k \in Keys
  PROVE  Observed(k) \in Group /\ GroupOK(Observed(k))
<1>1. CASE Live(k)
  <2>1. cache[k] \in Entry
    BY <1>1 DEF Live, CacheOK, EntryOK, NoEntry
  <2> QED
    BY <1>1, <2>1 DEF Observed, Group, GroupOK, Entry
<1>2. CASE ~Live(k)
  BY <1>2 DEF Observed, NoGroup, Group, GroupOK
<1> QED
  BY <1>1, <1>2

LEMMA IdleOK == Idle \in ReqRec /\ NoGroup \in Group /\ GroupOK(NoGroup)
<1>1. NoGroup \in Group /\ GroupOK(NoGroup)
  BY DEF NoGroup, Group, GroupOK
<1> QED
  BY <1>1 DEF Idle, ReqRec, Tries

LEMMA PickedOK ==
  ASSUME NEW r, ReqOK(r), r.pc \notin {"idle", "over"}, r.auth \in Auths
  PROVE  ReqOK(Picked(r)) /\ Picked(r).pc = "picked"
<1>1. /\ Picked(r).pc = "picked" /\ Picked(r).key = r.key /\ Picked(r).fb = r.fb
      /\ Picked(r).auth = r.auth /\ Picked(r).stale = NoGroup /\ Picked(r).split = NoGroup
      /\ Picked(r).kept = {} /\ Picked(r).tries = 0
  BY DEF Picked, Idle
<1>2. Picked(r) \in ReqRec
  BY IdleOK DEF Picked, ReqOK, ReqRec, Result
<1> QED
  BY <1>1, <1>2, IdleOK DEF ReqOK, Locked, Result, NeedsFallback, NeedsAuth, NeedsAt, NoGroup,
     Tries

LEMMA OverOK == ReqOK(Over) /\ Over.pc = "over"
<1>1. Over = [pc |-> "over", key |-> NoKey, fb |-> NoKey, avail |-> {},
              auth |-> NoAuth, at |-> NoKey, stale |-> NoGroup, split |-> NoGroup,
              tries |-> 0, kept |-> {}, keptAuth |-> NoAuth, todo |-> {}]
  BY DEF Over, Idle
<1>2. Over \in ReqRec
  BY <1>1, IdleOK DEF ReqRec, Tries
<1> QED
  BY <1>1, <1>2, IdleOK DEF ReqOK, Locked, Result, NeedsFallback, NeedsAuth, NeedsAt, NoGroup,
     Tries

(* GetAndRefresh of the primary key, and Get of the fallback key, on both    *)
(* paths of Pick.                                                           *)
Path(q, pc, hit, missed) ==
  \/ At(q, pc[1]) /\ hit = "bind" /\ missed = "lock"
  \/ At(q, pc[2]) /\ hit = "bindLocked" /\ missed = "observe"

LEMMA LookupMoves ==
  ASSUME Inv, NEW q \in Requests, NEW hit, NEW missed, NEW k \in Keys,
         NEW pcs \in {<<"look", "recheck">>, <<"lookFallback", "recheckFallback">>},
         Path(q, pcs, hit, missed), Live(k),
         NEW r, r = IF cache[k].auth \in req[q].avail
                      THEN [req[q] EXCEPT !.pc = hit, !.auth = cache[k].auth]
                      ELSE [req[q] EXCEPT !.pc = missed]
  PROVE  ReqOK(r) /\ (r.pc \in Locked => Holds(q))
<1>0. ReqOK(req[q]) /\ cache[k].auth \in Auths
  BY AliasesAreKeys DEF Inv, TypeInv, ReqsOK
<1>1. \/ req[q].pc \in {"look", "lookFallback"} /\ hit = "bind" /\ missed = "lock"
      \/ req[q].pc \in {"recheck", "recheckFallback"} /\ hit = "bindLocked"
                                                      /\ missed = "observe"
  BY DEF Path, At
<1>2. r \in ReqRec
  BY <1>0, <1>1 DEF ReqOK, ReqRec, Fast, Locked
<1>3. /\ r.pc \in {hit, missed} /\ (r.pc = hit => r.auth \in Auths)
      /\ r.key = req[q].key /\ r.fb = req[q].fb /\ r.stale = req[q].stale
      /\ r.split = req[q].split /\ r.kept = req[q].kept /\ r.keptAuth = req[q].keptAuth
      /\ r.tries = req[q].tries
  BY <1>0, <1>1 DEF ReqOK, ReqRec
<1> QED
  BY <1>0, <1>1, <1>2, <1>3 DEF ReqOK, Fast, Locked, Result, NeedsFallback, NeedsAuth,
     NeedsAt, Holds

LEMMA MissedMoves ==
  ASSUME Inv, NEW q \in Requests, NEW pc,
         \/ req[q].pc = "look" /\ pc = "lock"
         \/ req[q].pc = "look" /\ pc = "lookFallback" /\ req[q].fb # NoKey
         \/ req[q].pc = "recheck" /\ pc = "observe"
         \/ req[q].pc = "recheck" /\ pc = "recheckFallback" /\ req[q].fb # NoKey
         \/ req[q].pc = "lookFallback" /\ pc = "lock"
         \/ req[q].pc = "recheckFallback" /\ pc = "observe"
  PROVE  LET r == [req[q] EXCEPT !.pc = pc]
         IN  ReqOK(r) /\ (r.pc \in Locked => Holds(q))
<1> DEFINE r == [req[q] EXCEPT !.pc = pc]
<1>0. ReqOK(req[q])
  BY DEF Inv, TypeInv, ReqsOK
<1>2. r \in ReqRec
  BY <1>0 DEF ReqOK, ReqRec, Fast, Locked
<1>3. /\ r.pc = pc
      /\ r.key = req[q].key /\ r.fb = req[q].fb /\ r.stale = req[q].stale
      /\ r.split = req[q].split /\ r.kept = req[q].kept /\ r.keptAuth = req[q].keptAuth
      /\ r.tries = req[q].tries /\ r.fb \in Keys \cup {NoKey}
      /\ r.at = req[q].at
  BY <1>0 DEF ReqOK, ReqRec
<1> HIDE DEF r
<1>4. ReqOK(r) /\ (r.pc \in Locked => Holds(q))
  BY <1>0, <1>2, <1>3 DEF ReqOK, Fast, Locked, Result, NeedsFallback, NeedsAuth,
     NeedsAt, Holds
<1> QED
  BY <1>4 DEF r

LEMMA LookupKeeps ==
  ASSUME Inv, NEW q \in Requests, NEW hit, NEW missed, NEW fallback,
         \/ At(q, "look") /\ fallback = "lookFallback"
         \/ At(q, "recheck") /\ fallback = "recheckFallback",
         Path(q, <<"look", "recheck">>, hit, missed),
         Lookup(q, hit, missed, fallback), UNCHANGED quarantine
  PROVE  Inv' /\ Kept
<1>0. /\ req[q].key \in Keys /\ CacheOK /\ GroupsClosed /\ HistoryOK /\ TypeInv
      /\ quarantine' \subseteq Keys \X Auths
  BY DEF Inv, TypeInv, ReqsOK, ReqOK, At, HistoryOK
<1>1. CASE Live(req[q].key)
  <2>1. Kept /\ HistoryStep
    BY <1>0, <1>1, KeepsRefreshed, NotesAreHistory DEF Lookup, Writes
  <2>2. PICK r : /\ r = IF cache[req[q].key].auth \in req[q].avail
                          THEN [req[q] EXCEPT !.pc = hit, !.auth = cache[req[q].key].auth]
                          ELSE [req[q] EXCEPT !.pc = missed]
                 /\ Goto(q, r)
    BY <1>1 DEF Lookup
  <2>3. ReqOK(r) /\ (r.pc \in Locked => Holds(q))
    BY <1>0, <1>1, <2>2, LookupMoves
  <2> QED
    BY <1>0, <2>1, <2>2, <2>3, ReqStep
<1>2. CASE ~Live(req[q].key)
  <2>1. Kept /\ HistoryStep
    BY <1>0, <1>2, KeepsErased, MembersClosed, NotesAreHistory DEF Lookup, Erases
  <2>2. Goto(q, [req[q] EXCEPT !.pc = IF req[q].fb = NoKey THEN missed ELSE fallback])
    BY <1>2 DEF Lookup
  <2>3. LET r == [req[q] EXCEPT !.pc = IF req[q].fb = NoKey THEN missed ELSE fallback]
        IN  ReqOK(r) /\ (r.pc \in Locked => Holds(q))
    BY MissedMoves DEF Path, At
  <2> QED
    BY <1>0, <2>1, <2>2, <2>3, ReqStep
<1> QED
  BY <1>1, <1>2

LEMMA LookupFallbackKeeps ==
  ASSUME Inv, NEW q \in Requests, NEW hit, NEW missed,
         Path(q, <<"lookFallback", "recheckFallback">>, hit, missed),
         LookupFallback(q, hit, missed), UNCHANGED quarantine
  PROVE  Inv' /\ Kept
<1>0. /\ req[q].fb \in Keys /\ CacheOK /\ GroupsClosed /\ HistoryOK /\ TypeInv
      /\ quarantine' \subseteq Keys \X Auths
  BY DEF Inv, TypeInv, ReqsOK, ReqOK, Path, At, HistoryOK, NeedsFallback
<1>1. CASE Live(req[q].fb)
  <2>1. Kept /\ HistoryStep
    BY <1>0, <1>1, KeepsAll, NotesAreHistory DEF LookupFallback, Reads
  <2>2. PICK r : /\ r = IF cache[req[q].fb].auth \in req[q].avail
                          THEN [req[q] EXCEPT !.pc = hit, !.auth = cache[req[q].fb].auth]
                          ELSE [req[q] EXCEPT !.pc = missed]
                 /\ Goto(q, r)
    BY <1>1 DEF LookupFallback
  <2>3. ReqOK(r) /\ (r.pc \in Locked => Holds(q))
    BY <1>0, <1>1, <2>2, LookupMoves
  <2> QED
    BY <1>0, <2>1, <2>2, <2>3, ReqStep
<1>2. CASE ~Live(req[q].fb)
  <2>1. Kept /\ HistoryStep
    BY <1>0, <1>2, KeepsErased, MembersClosed, NotesAreHistory DEF LookupFallback, Erases
  <2>2. Goto(q, [req[q] EXCEPT !.pc = missed])
    BY <1>2 DEF LookupFallback
  <2>3. LET r == [req[q] EXCEPT !.pc = missed]
        IN  ReqOK(r) /\ (r.pc \in Locked => Holds(q))
    BY MissedMoves DEF Path, At
  <2> QED
    BY <1>0, <2>1, <2>2, <2>3, ReqStep
<1> QED
  BY <1>1, <1>2

LEMMA SetBindingKeeps ==
  ASSUME Inv, NEW q \in Requests, req[q].pc \notin {"idle", "over"}, req[q].auth \in Auths,
         NEW r, SetBinding(q, r), ReqOK(r), r.pc \notin Locked, UNCHANGED quarantine
  PROVE  Inv' /\ Kept
<1>0. /\ Ids(q) \subseteq Keys /\ CacheOK /\ GroupsClosed /\ HistoryOK /\ TypeInv
      /\ quarantine' \subseteq Keys \X Auths
  BY DEF Inv, TypeInv, ReqsOK, ReqOK, ReqRec, HistoryOK, Ids
<1>1. Kept /\ HistoryStep
  BY <1>0, KeepsSetAliases, NotesAreHistory DEF SetBinding, Writes
<1> QED
  BY <1>0, <1>1, ReqStep DEF SetBinding

LEMMA SwapKeeps ==
  ASSUME Inv, NEW q \in Requests, req[q].pc \in {"rebind", "mergeReplace"},
         NEW g \in Group, NEW more \in SUBSET Keys, NEW lost, Swap(q, g, more, lost),
         ReqOK(lost), lost.pc \in Locked => Holds(q), UNCHANGED quarantine
  PROVE  Inv' /\ Kept
<1>0. /\ req[q].auth \in Auths /\ CacheOK /\ GroupsClosed /\ HistoryOK /\ TypeInv
      /\ quarantine' \subseteq Keys \X Auths
  BY DEF Inv, TypeInv, ReqsOK, ReqOK, HistoryOK, NeedsAuth
<1>1. PICK all \in Compacted(g.aliases, more) :
        IF Unchanged(g) /\ NoOtherGroup(g, all)
          THEN /\ Writes(q, Replaced(req[q].auth, all, g.aliases))
               /\ Goto(q, Picked(req[q]))
          ELSE Reads /\ Goto(q, lost)
  BY DEF Swap
<1>2. CASE Unchanged(g) /\ NoOtherGroup(g, all)
  <2>1. Kept /\ HistoryStep
    BY <1>0, <1>1, <1>2, KeepsSwap, NotesAreHistory DEF Writes
  <2>2. ReqOK(Picked(req[q])) /\ Picked(req[q]).pc \notin Locked
    BY <1>0, PickedOK DEF TypeInv, ReqsOK, Locked
  <2> QED
    BY <1>0, <1>1, <1>2, <2>1, <2>2, ReqStep
<1>3. CASE ~(Unchanged(g) /\ NoOtherGroup(g, all))
  <2>1. Kept /\ HistoryStep
    BY <1>0, <1>1, <1>3, KeepsAll, NotesAreHistory DEF Reads
  <2> QED
    BY <1>0, <1>1, <1>3, <2>1, ReqStep
<1> QED
  BY <1>2, <1>3

LEMMA ReadKeeps ==
  ASSUME Inv, NEW q \in Requests, NEW r, ReqOK(r), r.pc \in Locked => Holds(q),
         Goto(q, r), Reads \/ \E g \in Group : Observes(g) \/ StartsOver(g), quarantine' \subseteq Keys \X Auths
  PROVE  Inv' /\ Kept
<1>1. Kept /\ HistoryStep
  BY KeepsAll, NotesAreHistory DEF Inv, TypeInv, Reads, Observes, StartsOver
<1> QED
  BY <1>1, ReqStep DEF Inv

LEMMA EraseKeeps ==
  ASSUME Inv, NEW q \in Requests, NEW r, ReqOK(r), r.pc \in Locked => Holds(q),
         Goto(q, r), NEW X, Closed(X), Erases(q, X), UNCHANGED quarantine
  PROVE  Inv' /\ Kept
<1>1. Kept /\ HistoryStep
  BY KeepsErased, NotesAreHistory DEF Inv, TypeInv, Erases
<1> QED
  BY <1>1, ReqStep DEF Inv, TypeInv, HistoryOK

LEMMA ReqFacts ==
  ASSUME Inv, NEW q \in Requests
  PROVE  /\ CacheOK /\ GroupsClosed /\ HistoryOK /\ TypeInv
         /\ ReqOK(req[q]) /\ req[q] \in ReqRec
         /\ Ids(q) \subseteq Keys
  BY DEF Inv, TypeInv, ReqsOK, ReqOK, ReqRec, Ids

LEMMA ArriveKeeps == ASSUME Inv, NEW q \in Requests, Arrive(q) PROVE Inv' /\ Kept
<1>1. PICK s \in Sessions, up \in SUBSET Auths \ {{}} :
        Goto(q, [Idle EXCEPT !.pc = "look", !.key = s[1], !.fb = s[2],
                   !.avail = {a \in up : /\ <<s[1], a>> \notin quarantine
                                         /\ <<s[2], a>> \notin quarantine}])
  BY DEF Arrive
<1> DEFINE up2 == {a \in up : <<s[1], a>> \notin quarantine /\ <<s[2], a>> \notin quarantine}
           r == [Idle EXCEPT !.pc = "look", !.key = s[1], !.fb = s[2], !.avail = up2]
<1>2. s[1] \in Keys /\ s[2] \in Keys \cup {NoKey} /\ up2 \subseteq Auths
  BY KeysAssumption
<1>3. Goto(q, r)
  BY <1>1
<1> HIDE DEF up2
<1>4. r \in ReqRec
  BY <1>2, IdleOK DEF ReqRec, Fast
<1>5. /\ r.pc = "look" /\ r.key = s[1] /\ r.fb = s[2] /\ r.stale = NoGroup
      /\ r.split = NoGroup /\ r.kept = {} /\ r.tries = 0
  BY DEF Idle
<1>6. ReqOK(r) /\ r.pc \notin Locked
  BY <1>2, <1>4, <1>5, IdleOK DEF ReqOK, Locked, NeedsFallback, NeedsAuth, NeedsAt, Result,
     NoGroup, Tries
<1> QED
  BY <1>3, <1>6, ReadKeeps, ReqFacts DEF Arrive, HistoryOK

LEMMA LockKeeps ==
  ASSUME Inv, NEW q \in Requests, Lock(q), UNCHANGED quarantine PROVE Inv' /\ Kept
<1> DEFINE r == [req[q] EXCEPT !.pc = "recheck"]
<1>1. r \in ReqRec
  BY ReqFacts DEF ReqRec, Locked
<1>2. /\ r.pc = "recheck" /\ r.key = req[q].key /\ r.stale = req[q].stale /\ r.fb = req[q].fb
      /\ r.split = req[q].split /\ r.kept = req[q].kept /\ r.keptAuth = req[q].keptAuth
      /\ r.tries = req[q].tries
  BY ReqFacts DEF ReqRec
<1>3. req[q].pc = "lock" /\ Goto(q, r) /\ BindMuFree
  BY DEF Lock, At
<1> HIDE DEF r
<1>4. ReqOK(r)
  BY <1>1, <1>2, <1>3, ReqFacts DEF ReqOK, Locked, NeedsFallback, NeedsAuth, NeedsAt, Result
<1>5. Kept /\ HistoryStep
  BY ReqFacts, KeepsAll DEF Lock, HistoryStep
<1> QED
  BY <1>3, <1>4, <1>5, ReqStep, ReqFacts DEF HistoryOK

LEMMA ObserveKeeps ==
  ASSUME Inv, NEW q \in Requests, Observe(q), UNCHANGED quarantine PROVE Inv' /\ Kept
<1> DEFINE k == req[q].key
           r == [req[q] EXCEPT !.stale = Observed(k), !.at = k,
                   !.pc = IF req[q].fb = NoKey THEN "choose" ELSE "observeFallback"]
<1>0. req[q].pc = "observe" /\ Goto(q, r) /\ k \in Keys
  BY ReqFacts DEF Observe, At, ReqOK
<1>1. Observed(k) \in Group /\ GroupOK(Observed(k))
  BY <1>0, ObservedGroup, ReqFacts
<1>2. r \in ReqRec
  BY <1>0, <1>1, ReqFacts, ZenonT(60) DEF ReqRec, Locked
<1>3. /\ r.pc = IF req[q].fb = NoKey THEN "choose" ELSE "observeFallback"
      /\ r.key = req[q].key /\ r.stale = Observed(k) /\ r.fb = req[q].fb
      /\ r.split = req[q].split /\ r.kept = req[q].kept /\ r.keptAuth = req[q].keptAuth
      /\ req[q].fb \in Keys \cup {NoKey} /\ r.tries = req[q].tries /\ r.at = k
  BY ReqFacts DEF ReqRec
<1> HIDE DEF r
<1>4. ReqOK(r)
  BY <1>0, <1>1, <1>2, <1>3, ReqFacts DEF ReqOK, Locked, NeedsFallback, NeedsAuth, NeedsAt,
     Result
<1>5. Kept /\ HistoryStep /\ Holds(q)
  BY <1>0, ReqFacts, KeepsAll DEF Observe, HistoryStep, Holds, Locked
<1> QED
  BY <1>0, <1>4, <1>5, ReqStep, ReqFacts DEF HistoryOK

LEMMA ObserveFallbackKeeps ==
  ASSUME Inv, NEW q \in Requests, ObserveFallback(q), UNCHANGED quarantine
  PROVE  Inv' /\ Kept
<1> DEFINE g == Observed(req[q].fb)
           r == [req[q] EXCEPT !.split = g, !.pc = "choose"]
<1>0. req[q].pc = "observeFallback" /\ Goto(q, r) /\ req[q].fb \in Keys /\ Holds(q)
  BY ReqFacts DEF ObserveFallback, At, ReqOK, NeedsFallback, Holds, Locked
<1>1. g \in Group /\ GroupOK(g)
  BY <1>0, ObservedGroup, ReqFacts
<1>2. r \in ReqRec
  BY <1>0, <1>1, ReqFacts, ZenonT(60) DEF ReqRec, Locked
<1>3. /\ r.pc = "choose" /\ r.key = req[q].key /\ r.stale = req[q].stale /\ r.fb = req[q].fb
      /\ r.split = g /\ r.kept = req[q].kept /\ r.keptAuth = req[q].keptAuth
      /\ r.tries = req[q].tries /\ r.at = req[q].at
  BY ReqFacts DEF ReqRec
<1>a. Observes(g)
  BY DEF ObserveFallback
<1> HIDE DEF r, g
<1>4. ReqOK(r)
  BY <1>0, <1>1, <1>2, <1>3, ReqFacts DEF ReqOK, Locked, NeedsFallback, NeedsAuth, NeedsAt,
     Result
<1> QED
  BY <1>a, <1>0, <1>1, <1>4, ReadKeeps, ReqFacts DEF HistoryOK

LEMMA ChooseKeeps ==
  ASSUME Inv, NEW q \in Requests, Choose(q), UNCHANGED quarantine PROVE Inv' /\ Kept
<1> DEFINE r == req[q]
<1>0. r.pc = "choose" /\ Reads /\ Holds(q) /\ ReqOK(r) /\ r \in ReqRec
  BY ReqFacts DEF Choose, At, Holds, Locked
<1>1. CASE Goto(q, Over)
  BY <1>0, <1>1, OverOK, ReadKeeps, ReqFacts DEF HistoryOK, Locked
<1>2. ASSUME NEW a \in r.avail, NEW n, Goto(q, n),
             \/ /\ n = [r EXCEPT !.auth = a, !.pc = "mergePrimary"] /\ r.split.ok
             \/ /\ n = [r EXCEPT !.auth = a, !.pc = "rebind"] /\ r.stale.ok
             \/ /\ n = [r EXCEPT !.auth = a, !.pc = "rebind", !.at = r.fb, !.stale = r.split]
                /\ r.split.ok
             \/ n = [r EXCEPT !.auth = a, !.pc = "bindLocked"]
      PROVE  Inv' /\ Kept
  <2>0. a \in Auths
    BY <1>0 DEF ReqRec
  <2>a. r.split.ok => r.fb \in Keys
    BY <1>0 DEF ReqOK
  <2>b. r.at \in Keys
    BY <1>0 DEF ReqOK, NeedsAt
  <2>1. n \in ReqRec
    <3>1. CASE n = [r EXCEPT !.auth = a, !.pc = "mergePrimary"]
      BY <1>0, <2>0, <3>1 DEF ReqRec, Locked
    <3>2. CASE n = [r EXCEPT !.auth = a, !.pc = "rebind"]
      BY <1>0, <2>0, <3>2 DEF ReqRec, Locked
    <3>3. CASE /\ n = [r EXCEPT !.auth = a, !.pc = "rebind", !.at = r.fb, !.stale = r.split]
               /\ r.split.ok
      BY <1>0, <2>0, <2>a, <3>3 DEF ReqRec, Locked
    <3>4. CASE n = [r EXCEPT !.auth = a, !.pc = "bindLocked"]
      BY <1>0, <2>0, <3>4 DEF ReqRec, Locked
    <3> QED
      BY <1>2, <3>1, <3>2, <3>3, <3>4
  <2>2. /\ n.pc \in {"mergePrimary", "rebind", "bindLocked"} /\ n.auth = a
        /\ n.key = r.key /\ n.fb = r.fb /\ n.split = r.split /\ n.kept = r.kept
        /\ n.keptAuth = r.keptAuth /\ n.tries = r.tries
        /\ (n.pc = "mergePrimary" => r.split.ok)
        /\ n.stale \in {r.stale, r.split} /\ (n.pc = "rebind" => n.stale.ok /\ n.at \in Keys)
    BY <1>0, <1>2, <2>a, <2>b, ZenonT(60) DEF ReqRec
  <2>3. ReqOK(n)
    BY <1>0, <2>a, <2>0, <2>1, <2>2 DEF ReqOK, Locked, NeedsFallback, NeedsAuth, NeedsAt, Result
  <2> QED
    BY <1>0, <1>2, <2>3, ReadKeeps, ReqFacts DEF HistoryOK
<1> QED
  <2>1. CASE r.avail = {}
    BY <1>1, <2>1 DEF Choose
  <2>2. CASE r.avail # {}
    <3>1. PICK a \in r.avail :
            Goto(q, CASE r.stale.ok /\ r.split.ok /\ r.stale.auth # r.split.auth
                           -> [r EXCEPT !.auth = a, !.pc = "mergePrimary"]
                      [] r.stale.ok /\ ~(r.split.ok /\ r.stale.auth # r.split.auth)
                           -> [r EXCEPT !.auth = a, !.pc = "rebind"]
                      [] ~r.stale.ok /\ r.split.ok
                           -> [r EXCEPT !.auth = a, !.pc = "rebind", !.at = r.fb,
                                        !.stale = r.split]
                      [] OTHER -> [r EXCEPT !.auth = a, !.pc = "bindLocked"])
      BY <2>2 DEF Choose
    <3>2. CASE r.stale.ok /\ r.split.ok /\ r.stale.auth # r.split.auth
      BY <1>2, <3>1, <3>2
    <3>3. CASE r.stale.ok /\ ~(r.split.ok /\ r.stale.auth # r.split.auth)
      BY <1>2, <3>1, <3>3
    <3>4. CASE ~r.stale.ok /\ r.split.ok
      BY <1>2, <3>1, <3>4
    <3>5. CASE ~r.stale.ok /\ ~r.split.ok
      BY <1>2, <3>1, <3>5
    <3> QED
      BY <3>2, <3>3, <3>4, <3>5
  <2> QED
    BY <2>1, <2>2

LEMMA RebindKeeps ==
  ASSUME Inv, NEW q \in Requests, Rebind(q), UNCHANGED quarantine PROVE Inv' /\ Kept
<1> DEFINE r == [req[q] EXCEPT !.pc = "reobserve"]
<1>0. /\ req[q].pc = "rebind" /\ Swap(q, req[q].stale, Ids(q), r)
      /\ Holds(q) /\ req[q].stale \in Group
  BY ReqFacts DEF Rebind, At, Holds, Locked, ReqRec
<1>1. r \in ReqRec
  BY ReqFacts DEF ReqRec, Locked
<1>2. /\ r.pc = "reobserve" /\ r.key = req[q].key /\ r.stale = req[q].stale /\ r.fb = req[q].fb
      /\ r.split = req[q].split /\ r.kept = req[q].kept /\ r.keptAuth = req[q].keptAuth
      /\ r.tries = req[q].tries /\ r.at = req[q].at /\ r.auth = req[q].auth
  BY ReqFacts DEF ReqRec
<1> HIDE DEF r
<1>3. ReqOK(r)
  BY <1>0, <1>1, <1>2, ReqFacts DEF ReqOK, Locked, NeedsFallback, NeedsAuth, NeedsAt, Result
<1> QED
  BY <1>0, <1>3, ReqFacts, SwapKeeps

LEMMA ReobserveKeeps ==
  ASSUME Inv, NEW q \in Requests, Reobserve(q), UNCHANGED quarantine PROVE Inv' /\ Kept
<1> DEFINE g == Observed(req[q].at)
           n == [req[q] EXCEPT !.stale = g, !.tries = @ + 1]
           r == [n EXCEPT !.pc = "rebind"]
<1>0. /\ req[q].pc = "reobserve" /\ req[q].at \in Keys /\ req[q].auth \in Auths
      /\ req[q].tries \in Nat /\ req[q].tries < Tries /\ Holds(q)
  BY ReqFacts DEF Reobserve, At, ReqOK, ReqRec, NeedsAt, NeedsAuth, Holds, Locked, Tries
<1>1. g \in Group /\ GroupOK(g)
  BY <1>0, ObservedGroup, ReqFacts
<1>2. n.stale = g
  BY ReqFacts DEF ReqRec
<1>3. /\ StartsOver(g)
      /\ Goto(q, IF g.ok /\ n.tries < Tries THEN r ELSE Picked(n))
  BY <1>2 DEF Reobserve
<1> HIDE DEF g
<1>a. req[q].tries + 1 \in 0..Tries
  BY <1>0 DEF Tries
<1>4. n \in ReqRec /\ r \in ReqRec
  BY <1>a, <1>1, ReqFacts, ZenonT(60) DEF ReqRec, Locked
<1>5. /\ r.pc = "rebind" /\ n.pc = "reobserve" /\ n.auth = req[q].auth /\ r.auth = req[q].auth
      /\ n.tries = req[q].tries + 1 /\ r.tries = n.tries /\ r.stale = g
      /\ n.key = req[q].key /\ n.fb = req[q].fb /\ n.split = req[q].split
      /\ n.kept = req[q].kept /\ n.keptAuth = req[q].keptAuth /\ n.at = req[q].at
      /\ r.key = req[q].key /\ r.fb = req[q].fb /\ r.split = req[q].split
      /\ r.kept = req[q].kept /\ r.keptAuth = req[q].keptAuth /\ r.at = req[q].at
  BY <1>0, ReqFacts DEF ReqRec
<1> HIDE DEF n, r
<1>6. ASSUME g.ok, n.tries < Tries PROVE ReqOK(r)
  BY <1>0, <1>1, <1>4, <1>5, <1>6, ReqFacts DEF ReqOK, Locked, NeedsFallback, NeedsAuth,
     NeedsAt, Result
<1>7. ReqOK(Picked(n)) /\ Picked(n).pc \notin Locked
  <2>1. Picked(n) = Picked(req[q])
    BY <1>5 DEF Picked
  <2> QED
    BY <1>0, <2>1, PickedOK, ReqFacts DEF Locked
<1>8. CASE g.ok /\ n.tries < Tries
  BY <1>0, <1>1, <1>3, <1>6, <1>8, ReadKeeps, ReqFacts DEF HistoryOK
<1>9. CASE ~(g.ok /\ n.tries < Tries)
  BY <1>0, <1>1, <1>3, <1>7, <1>9, ReadKeeps, ReqFacts DEF HistoryOK
<1> QED
  BY <1>8, <1>9

LEMMA RetryOK ==
  ASSUME Inv, NEW q \in Requests, req[q].pc \in {"mergeDelete", "mergeReplace"}
  PROVE  ReqOK(Retry(req[q])) /\ Holds(q)
<1> DEFINE n == [req[q] EXCEPT !.tries = @ + 1]
           again == [n EXCEPT !.pc = "mergePrimary"]
           undo == [n EXCEPT !.pc = "restore"]
<1>0. /\ req[q].auth \in Auths /\ req[q].tries \in Nat /\ req[q].tries < Tries /\ Holds(q)
      /\ ReqOK(req[q]) /\ req[q] \in ReqRec
  BY ReqFacts DEF ReqOK, ReqRec, NeedsAuth, Holds, Locked, Tries
<1>1. Retry(req[q]) = IF n.tries < Tries THEN again
                      ELSE IF n.kept # {} THEN undo ELSE Picked(n)
  BY DEF Retry
<1>a. req[q].tries + 1 \in 0..Tries
  BY <1>0 DEF Tries
<1>2. n \in ReqRec /\ again \in ReqRec /\ undo \in ReqRec
  BY <1>0, <1>a, ZenonT(60) DEF ReqRec, Locked
<1>3. /\ again.pc = "mergePrimary" /\ again.key = req[q].key /\ again.fb = req[q].fb
      /\ again.auth = req[q].auth /\ again.stale = req[q].stale /\ again.split = req[q].split
      /\ again.kept = req[q].kept /\ again.keptAuth = req[q].keptAuth /\ again.tries = n.tries
      /\ undo.pc = "restore" /\ undo.key = req[q].key /\ undo.fb = req[q].fb
      /\ undo.auth = req[q].auth /\ undo.stale = req[q].stale /\ undo.split = req[q].split
      /\ undo.kept = req[q].kept /\ undo.keptAuth = req[q].keptAuth
      /\ n.key = req[q].key /\ n.fb = req[q].fb /\ n.auth = req[q].auth
  BY <1>0 DEF ReqRec
<1> HIDE DEF n, again, undo
<1>4. n.tries < Tries => ReqOK(again)
  BY <1>0, <1>2, <1>3 DEF ReqOK, Locked, NeedsFallback, NeedsAuth, NeedsAt, Result
<1>5. ReqOK(undo)
  BY <1>0, <1>2, <1>3 DEF ReqOK, Locked, NeedsFallback, NeedsAuth, NeedsAt, Result
<1>6. ReqOK(Picked(n))
  <2>1. Picked(n) = Picked(req[q])
    BY <1>3 DEF Picked
  <2> QED
    BY <1>0, <2>1, PickedOK
<1> QED
  BY <1>0, <1>1, <1>4, <1>5, <1>6

LEMMA MergePrimaryKeeps ==
  ASSUME Inv, NEW q \in Requests, MergePrimary(q), UNCHANGED quarantine PROVE Inv' /\ Kept
<1> DEFINE g == Observed(req[q].key)
           r == [req[q] EXCEPT !.stale = g, !.pc = "mergeFallback"]
<1>0. req[q].pc = "mergePrimary" /\ Goto(q, r) /\ req[q].key \in Keys /\ Holds(q) /\ StartsOver(g)
  BY ReqFacts DEF MergePrimary, At, ReqOK, Holds, Locked
<1>1. g \in Group /\ GroupOK(g)
  BY <1>0, ObservedGroup, ReqFacts
<1> HIDE DEF g
<1>2. r \in ReqRec
  BY <1>0, <1>1, ReqFacts, ZenonT(60) DEF ReqRec, Locked
<1>3. /\ r.pc = "mergeFallback" /\ r.key = req[q].key /\ r.stale = g /\ r.fb = req[q].fb
      /\ r.split = req[q].split /\ r.kept = req[q].kept /\ r.keptAuth = req[q].keptAuth
      /\ r.tries = req[q].tries /\ r.auth = req[q].auth
  BY ReqFacts DEF ReqRec
<1> HIDE DEF r
<1>4. ReqOK(r)
  BY <1>0, <1>1, <1>2, <1>3, ReqFacts DEF ReqOK, Locked, NeedsFallback, NeedsAuth, NeedsAt,
     Result
<1> QED
  BY <1>0, <1>1, <1>4, ReadKeeps, ReqFacts DEF HistoryOK

LEMMA MergeFallbackKeeps ==
  ASSUME Inv, NEW q \in Requests, MergeFallback(q), UNCHANGED quarantine PROVE Inv' /\ Kept
<1> DEFINE g == Observed(req[q].fb)
           drops == DropsFallback(req[q], g)
           pc == IF drops THEN "mergeDelete" ELSE "mergeReplace"
           r == [req[q] EXCEPT !.split = g, !.pc = pc]
<1>0. /\ req[q].pc = "mergeFallback" /\ Goto(q, r) /\ req[q].fb \in Keys /\ Holds(q)
      /\ Observes(g)
  BY ReqFacts DEF MergeFallback, At, ReqOK, Holds, Locked, NeedsFallback
<1>1. g \in Group /\ GroupOK(g) /\ (drops => g.ok /\ req[q].fb \in g.aliases)
  BY <1>0, ObservedGroup, ReqFacts DEF DropsFallback, Observed, NoGroup, GroupsClosed
<1> HIDE DEF g, drops
<1>a. pc \in {"mergeDelete", "mergeReplace"} /\ (pc = "mergeDelete" => drops)
  OBVIOUS
<1> HIDE DEF pc
<1>b. pc \in Locked
  BY <1>a DEF Locked
<1>2. r \in ReqRec
  BY <1>1, <1>b, ReqFacts, ZenonT(60) DEF ReqRec
<1>3. /\ r.pc = pc
      /\ r.key = req[q].key /\ r.stale = req[q].stale /\ r.fb = req[q].fb
      /\ r.split = g /\ r.kept = req[q].kept /\ r.keptAuth = req[q].keptAuth
      /\ r.tries = req[q].tries /\ r.auth = req[q].auth
  BY ReqFacts DEF ReqRec
<1> HIDE DEF r
<1>4. ReqOK(r)
  BY <1>0, <1>1, <1>2, <1>3, <1>a, ReqFacts DEF ReqOK, Locked, NeedsFallback, NeedsAuth, NeedsAt,
     Result
<1> QED
  BY <1>0, <1>1, <1>4, ReadKeeps, ReqFacts DEF HistoryOK

(* Of the entries that a group was observed with, those that still are what *)
(* they were take all of their group with them.                             *)
LEMMA DroppedClosed ==
  ASSUME CacheOK, GroupsClosed, NEW g
  PROVE  Closed(DroppedBy(g))
  BY DEF Closed, DroppedBy, GroupsClosed

LEMMA MergeDeleteKeeps ==
  ASSUME Inv, NEW q \in Requests, MergeDelete(q), UNCHANGED quarantine PROVE Inv' /\ Kept
<1> DEFINE g == req[q].split
           r == [req[q] EXCEPT !.kept = @ \cup g.aliases, !.keptAuth = g.auth,
                               !.pc = "mergeReplace"]
<1>0. /\ req[q].pc = "mergeDelete" /\ g \in Group /\ g.auth \in Auths
      /\ ReqOK(req[q]) /\ req[q] \in ReqRec
  BY ReqFacts DEF MergeDelete, At, ReqOK, ReqRec, GroupOK
<1>1. r \in ReqRec
  BY <1>0 DEF ReqRec, Group, Locked
<1>2. /\ r.pc = "mergeReplace" /\ r.key = req[q].key /\ r.stale = req[q].stale
      /\ r.fb = req[q].fb /\ r.split = req[q].split /\ r.keptAuth = g.auth
      /\ r.tries = req[q].tries /\ r.auth = req[q].auth
  BY <1>0 DEF ReqRec
<1>a. CASE SameGroup(req[q].fb, g)
  <2>1. Erases(q, DroppedBy(g)) /\ Goto(q, r)
    BY <1>a DEF MergeDelete
  <2> HIDE DEF r
  <2>2. ReqOK(r) /\ Holds(q)
    BY <1>0, <1>1, <1>2 DEF ReqOK, Locked, NeedsFallback, NeedsAuth, NeedsAt, Result, Holds
  <2>3. Closed(DroppedBy(g))
    BY DroppedClosed, ReqFacts
  <2> QED
    BY <2>1, <2>2, <2>3, EraseKeeps
<1>b. CASE ~SameGroup(req[q].fb, g)
  <2>1. Reads /\ Goto(q, Retry(req[q]))
    BY <1>b DEF MergeDelete
  <2> QED
    BY <1>0, <2>1, RetryOK, ReadKeeps, ReqFacts DEF HistoryOK
<1> QED
  BY <1>a, <1>b

LEMMA MergeReplaceKeeps ==
  ASSUME Inv, NEW q \in Requests, MergeReplace(q), UNCHANGED quarantine PROVE Inv' /\ Kept
<1> DEFINE r == req[q]
<1>0. /\ r.pc = "mergeReplace" /\ r.auth \in Auths /\ r.stale \in Group
      /\ ReqOK(r) /\ r.pc \notin {"idle", "over"}
  BY ReqFacts DEF MergeReplace, At, ReqOK, ReqRec, NeedsAuth
<1>1. Merged(r) \in SUBSET Keys
  BY <1>0 DEF Merged, ReqOK, ReqRec, Group, NeedsFallback
<1>2. CASE Swap(q, r.stale, Merged(r), Retry(r))
  BY <1>0, <1>1, <1>2, RetryOK, SwapKeeps
<1>3. CASE /\ \E c \in SetAliases(r.auth, Merged(r)) : Writes(q, c)
           /\ Goto(q, Picked(r))
  <2>1. Kept /\ HistoryStep
    BY <1>0, <1>1, <1>3, ReqFacts, KeepsSetAliases, NotesAreHistory DEF Writes
  <2>2. ReqOK(Picked(r)) /\ Picked(r).pc \notin Locked
    BY <1>0, PickedOK DEF Locked
  <2> QED
    BY <1>3, <2>1, <2>2, ReqStep, ReqFacts DEF HistoryOK
<1> QED
  BY <1>2, <1>3 DEF MergeReplace

LEMMA RestoreKeeps ==
  ASSUME Inv, NEW q \in Requests, Restore(q), UNCHANGED quarantine PROVE Inv' /\ Kept
<1> DEFINE r == req[q]
<1>0. /\ r.pc = "restore" /\ r.auth \in Auths /\ ReqOK(r) /\ r.kept \in SUBSET Keys
      /\ r.pc \notin {"idle", "over"}
  BY ReqFacts DEF Restore, At, ReqOK, ReqRec, NeedsAuth
<1>1. ReqOK(Picked(r)) /\ Picked(r).pc \notin Locked
  BY <1>0, PickedOK DEF Locked
<1>2. Kept /\ HistoryStep
  <2>1. CASE \A k \in r.kept : Live(k)
    BY <2>1, ReqFacts, KeepsAll, NotesAreHistory DEF Restore, Reads
  <2>2. CASE ~(\A k \in r.kept : Live(k))
    <3>1. r.keptAuth \in Auths
      BY <1>0, <2>2 DEF ReqOK
    <3> QED
      BY <1>0, <2>2, <3>1, ReqFacts, KeepsRestored, NotesAreHistory DEF Restore, Writes
  <2> QED
    BY <2>1, <2>2
<1> QED
  BY <1>1, <1>2, ReqStep, ReqFacts DEF HistoryOK, Restore

(* OnResult. *)
LEMMA MovedOK ==
  ASSUME Inv, NEW q \in Requests, NEW pc,
         \/ req[q].pc = "picked" /\ pc \in {"check", "failed"}
         \/ req[q].pc = "check" /\ pc = "set"
         \/ req[q].pc = "invalidate" /\ pc = "quarantine"
  PROVE  ReqOK([req[q] EXCEPT !.pc = pc]) /\ [req[q] EXCEPT !.pc = pc].pc \notin Locked
<1> DEFINE r == [req[q] EXCEPT !.pc = pc]
<1>1. pc \in Result /\ pc \notin Locked /\ req[q].pc \in Result /\ req[q].pc \notin Locked
  BY DEF Result, Locked
<1>2. r \in ReqRec
  BY <1>1, ReqFacts DEF ReqRec
<1>3. /\ r.pc = pc /\ r.key = req[q].key /\ r.stale = req[q].stale /\ r.fb = req[q].fb
      /\ r.split = req[q].split /\ r.kept = req[q].kept /\ r.keptAuth = req[q].keptAuth
      /\ r.tries = req[q].tries /\ r.auth = req[q].auth /\ r.at = req[q].at
  BY ReqFacts DEF ReqRec
<1> HIDE DEF r
<1>4. ReqOK(r) /\ r.pc \notin Locked
  BY <1>1, <1>2, <1>3, ReqFacts DEF ReqOK, NeedsFallback, NeedsAuth, NeedsAt, Locked, Result
<1> QED
  BY <1>4 DEF r

LEMMA SucceedKeeps ==
  ASSUME Inv, NEW q \in Requests, Succeed(q), UNCHANGED quarantine PROVE Inv' /\ Kept
<1>0. req[q].pc = "picked" /\ req[q].auth \in Auths /\ req[q].pc \notin {"idle", "over"}
  BY ReqFacts DEF Succeed, At, ReqOK, NeedsAuth, Result
<1>1. CASE req[q].fb # NoKey
  BY <1>0, <1>1, OverOK, SetBindingKeeps DEF Succeed, Locked
<1>2. CASE req[q].fb = NoKey
  BY <1>0, <1>2, MovedOK, ReadKeeps, ReqFacts DEF Succeed, HistoryOK
<1> QED
  BY <1>1, <1>2

LEMMA CheckKeeps ==
  ASSUME Inv, NEW q \in Requests, Check(q), UNCHANGED quarantine PROVE Inv' /\ Kept
<1>0. req[q].pc = "check" /\ req[q].key \in Keys
  BY ReqFacts DEF Check, At, ReqOK
<1>1. PICK r : /\ Goto(q, r) /\ r \in {Over, [req[q] EXCEPT !.pc = "set"]}
  BY DEF Check
<1>2. ReqOK(r) /\ r.pc \notin Locked
  BY <1>0, <1>1, OverOK, MovedOK, ZenonT(60) DEF Locked
<1>3. CASE Live(req[q].key)
  BY <1>1, <1>2, <1>3, ReadKeeps, ReqFacts DEF Check, HistoryOK
<1>4. CASE ~Live(req[q].key)
  BY <1>0, <1>1, <1>2, <1>4, EraseKeeps, MembersClosed, ReqFacts DEF Check
<1> QED
  BY <1>3, <1>4

LEMMA FailKeeps ==
  ASSUME Inv, NEW q \in Requests, Neutral(q) \/ Fail(q), UNCHANGED quarantine
  PROVE  Inv' /\ Kept
<1>1. CASE Neutral(q)
  BY <1>1, OverOK, ReadKeeps, ReqFacts DEF Neutral, HistoryOK, Locked
<1>2. CASE Fail(q)
  BY <1>2, MovedOK, ReadKeeps, ReqFacts DEF Fail, HistoryOK, At
<1> QED
  BY <1>1, <1>2

LEMMA CondemnKeeps ==
  ASSUME Inv, NEW q \in Requests, NEW k \in Keys, NEW otherwise,
         \/ req[q].pc = "failed" /\ otherwise = "quarantine"
         \/ req[q].pc = "failed" /\ otherwise = "failedFallback" /\ req[q].fb # NoKey
         \/ req[q].pc = "failedFallback" /\ otherwise = "quarantine",
         Condemn(q, k, otherwise), UNCHANGED quarantine
  PROVE  Inv' /\ Kept
<1> DEFINE r == req[q]
           yes == [r EXCEPT !.pc = "invalidate", !.at = k, !.todo = cache[k].aliases]
           no == [r EXCEPT !.pc = otherwise, !.todo = Ids(q)]
<1>0. Goto(q, yes) \/ Goto(q, no)
  BY DEF Condemn
<1>1. otherwise \in Result /\ r.pc \in {"failed", "failedFallback"} /\ otherwise \notin Locked
  BY DEF Result, Locked
<1>2. cache[k].aliases \subseteq Keys
  BY AliasesAreKeys, ReqFacts
<1>3. yes \in ReqRec /\ no \in ReqRec
  <2>1. yes \in ReqRec
    BY <1>2, ReqFacts, ZenonT(60) DEF ReqRec, Result
  <2>2. no \in ReqRec
    BY <1>1, ReqFacts DEF ReqRec
  <2> QED
    BY <2>1, <2>2
<1>4. /\ yes.pc = "invalidate" /\ yes.key = r.key /\ yes.stale = r.stale /\ yes.fb = r.fb
      /\ yes.split = r.split /\ yes.kept = r.kept /\ yes.keptAuth = r.keptAuth
      /\ yes.tries = r.tries /\ yes.auth = r.auth /\ yes.at = k
      /\ no.pc = otherwise /\ no.key = r.key /\ no.stale = r.stale /\ no.fb = r.fb
      /\ no.split = r.split /\ no.kept = r.kept /\ no.keptAuth = r.keptAuth
      /\ no.tries = r.tries /\ no.auth = r.auth
      /\ r.fb \in Keys \cup {NoKey}
  BY ReqFacts DEF ReqRec
<1> HIDE DEF yes, no
<1>5. ReqOK(yes) /\ yes.pc \notin Locked
  BY <1>1, <1>3, <1>4, ReqFacts DEF ReqOK, NeedsFallback, NeedsAuth, NeedsAt, Locked, Result
<1>6. ReqOK(no) /\ no.pc \notin Locked
  BY <1>1, <1>3, <1>4, ReqFacts DEF ReqOK, NeedsFallback, NeedsAuth, NeedsAt, Locked, Result
<1> QED
  BY <1>0, <1>5, <1>6, ReadKeeps, ReqFacts DEF Condemn, HistoryOK

LEMMA InvalidateKeeps ==
  ASSUME Inv, NEW q \in Requests, Invalidate(q), UNCHANGED quarantine PROVE Inv' /\ Kept
<1>0. req[q].pc = "invalidate" /\ req[q].at \in Keys
  BY ReqFacts DEF Invalidate, At, ReqOK, NeedsAt
<1>1. LET r == [req[q] EXCEPT !.pc = "quarantine"]
      IN  Goto(q, r) /\ ReqOK(r) /\ r.pc \notin Locked
  BY <1>0, MovedOK DEF Invalidate
<1>2. Kept /\ HistoryStep
  <2>1. CASE cache[req[q].at].auth = NoAuth
    BY <2>1, ReqFacts, KeepsAll, NotesAreHistory DEF Invalidate, Reads
  <2>2. CASE cache[req[q].at].auth # NoAuth
    BY <1>0, <2>2, ReqFacts, KeepsWithout, NotesAreHistory DEF Invalidate, Writes
  <2> QED
    BY <2>1, <2>2
<1> QED
  BY <1>1, <1>2, ReqStep, ReqFacts DEF HistoryOK

LEMMA QuarantineKeeps ==
  ASSUME Inv, NEW q \in Requests, Quarantine(q) PROVE Inv' /\ Kept
<1>0. req[q].pc = "quarantine" /\ req[q].auth \in Auths /\ req[q].todo \in SUBSET Keys
  BY ReqFacts DEF Quarantine, At, ReqOK, ReqRec, NeedsAuth, Result
<1>1. PICK k \in req[q].todo :
        /\ quarantine' = quarantine \cup {<<k, req[q].auth>>}
        /\ Goto(q, IF req[q].todo = {k} THEN Over ELSE [req[q] EXCEPT !.todo = @ \ {k}])
  BY DEF Quarantine
<1> DEFINE r == [req[q] EXCEPT !.todo = @ \ {k}]
<1>2. r \in ReqRec
  BY <1>0, ReqFacts DEF ReqRec
<1>3. /\ r.pc = "quarantine" /\ r.key = req[q].key /\ r.stale = req[q].stale
      /\ r.split = req[q].split /\ r.kept = req[q].kept /\ r.keptAuth = req[q].keptAuth
      /\ r.tries = req[q].tries /\ r.auth = req[q].auth /\ r.at = req[q].at
      /\ r.fb = req[q].fb
  BY <1>0, ReqFacts DEF ReqRec
<1>a. Goto(q, Over) \/ Goto(q, r)
  BY <1>1
<1> HIDE DEF r
<1>4. ReqOK(r) /\ r.pc \notin Locked
  BY <1>0, <1>2, <1>3, ReqFacts DEF ReqOK, NeedsFallback, NeedsAuth, NeedsAt, Locked, Result
<1>5. ReqOK(Over) /\ Over.pc \notin Locked
  BY OverOK DEF Locked
<1>6. quarantine' \subseteq Keys \X Auths
  BY <1>0, <1>1, ReqFacts DEF HistoryOK
<1> QED
  BY <1>a, <1>4, <1>5, <1>6, ReadKeeps DEF Quarantine

-----------------------------------------------------------------------------
(* The cache's own steps. *)
LEMMA CacheStep ==
  ASSUME Inv, CacheOK', GroupsClosed', HistoryOK', UNCHANGED req
  PROVE  Inv'
  BY DEF Inv, TypeInv, ReqsOK, OneHolder, Holds, ReqOK

LEMMA ExpireKeeps ==
  ASSUME Inv, NEW k \in Keys, Expire(k) PROVE Inv' /\ Lapsed
<1>1. Lapsed
  BY KeepsExpired DEF Expire, Inv, TypeInv
<1>2. HistoryOK'
  BY KeysAssumption DEF Expire, Inv, TypeInv, HistoryOK, Disturb
<1> QED
  BY <1>1, <1>2, CacheStep DEF Expire, Lapsed

LEMMA CleanUpKeeps == ASSUME Inv, CleanUp PROVE Inv' /\ Kept
<1>1. Closed({k \in Keys : ~Live(k)})
  BY DEF Closed
<1>2. Kept
  BY <1>1, KeepsErased DEF CleanUp, Inv, TypeInv
<1>3. HistoryOK'
  BY NotesAreHistory DEF CleanUp, Inv, TypeInv, HistoryOK, HistoryStep
<1> QED
  BY <1>2, <1>3, CacheStep DEF CleanUp, Kept

LEMMA QuarantineEndsKeeps ==
  ASSUME Inv, NEW k \in Keys, NEW a \in Auths, QuarantineEnds(k, a) PROVE Inv' /\ Kept
<1>1. Kept
  BY KeepsAll DEF QuarantineEnds, Inv, TypeInv
<1>2. HistoryOK'
  BY DEF QuarantineEnds, Inv, TypeInv, HistoryOK
<1> QED
  BY <1>1, <1>2, CacheStep DEF QuarantineEnds, Kept

LEMMA InvalidateAuthKeeps ==
  ASSUME Inv, NEW a \in Auths, InvalidateAuth(a) PROVE Inv' /\ Kept
<1> DEFINE X == {k \in Keys : cache[k].auth = a}
<1>1. Closed(X)
  BY AliasesAreKeys DEF Closed, Inv, TypeInv, GroupsClosed
<1>2. Kept
  BY <1>1, KeepsErased DEF InvalidateAuth, Inv, TypeInv
<1>3. HistoryOK'
  BY NotesAreHistory DEF InvalidateAuth, Inv, TypeInv, HistoryOK, HistoryStep
<1> QED
  BY <1>2, <1>3, CacheStep DEF InvalidateAuth, Kept

-----------------------------------------------------------------------------
LEMMA InvInit == Init => Inv
<1> SUFFICES ASSUME Init PROVE Inv
  OBVIOUS
<1>1. PICK g \in [Keys -> 0..MaxGroups], a \in [1..MaxGroups -> Auths] : cache = Left(g, a)
  BY DEF Init
<1> DEFINE mates == [k \in Keys |-> {j \in Keys : g[j] = g[k]}]
<1>2. \A k \in Keys :
        cache[k] = IF g[k] = 0 THEN NoEntry
                   ELSE [auth |-> a[g[k]], aliases |-> mates[k], gen |-> g[k], live |-> TRUE]
  BY <1>1 DEF Left
<1>a. \A k \in Keys : mates[k] \subseteq Keys /\ k \in mates[k]
                      /\ \A j \in mates[k] : g[j] = g[k] /\ mates[j] = mates[k]
  OBVIOUS
<1> HIDE DEF mates
<1>b. \A k \in Keys : g[k] = 0 => cache[k] = NoEntry
  BY <1>2
<1>c. \A k \in Keys : g[k] # 0 =>
        cache[k] = [auth |-> a[g[k]], aliases |-> mates[k], gen |-> g[k], live |-> TRUE]
  BY <1>2
<1>3. \A k \in Keys : g[k] # 0 => g[k] \in Nat /\ a[g[k]] \in Auths
  <2> SUFFICES ASSUME NEW k \in Keys, g[k] # 0 PROVE g[k] \in Nat /\ a[g[k]] \in Auths
    OBVIOUS
  <2>1. g[k] \in 1..MaxGroups
    BY <1>1, KeysAssumption
  <2> QED
    BY <1>1, <2>1, KeysAssumption
<1>4. CacheOK
  <2>1. ASSUME NEW k \in Keys PROVE EntryOK(cache[k])
    <3>1. CASE g[k] = 0
      BY <1>b, <3>1 DEF EntryOK
    <3>2. CASE g[k] # 0
      <4>1. g[k] \in Nat /\ a[g[k]] \in Auths /\ mates[k] \in SUBSET Keys
        BY <1>a, <1>3, <3>2
      <4>2. cache[k] = [auth |-> a[g[k]], aliases |-> mates[k], gen |-> g[k], live |-> TRUE]
        BY <1>c, <3>2
      <4> QED
        BY <4>1, <4>2 DEF EntryOK, Entry
    <3> QED
      BY <3>1, <3>2
  <2> QED
    BY <1>1, <2>1 DEF CacheOK, Left
<1>5. GroupsClosed
  <2> SUFFICES ASSUME NEW k \in Keys, Live(k)
               PROVE  /\ k \in cache[k].aliases
                      /\ \A j \in cache[k].aliases :
                            /\ Live(j) /\ cache[j].auth = cache[k].auth
                            /\ cache[j].aliases = cache[k].aliases
    BY DEF GroupsClosed
  <2>1. g[k] # 0
    BY <1>b DEF Live, NoEntry
  <2>2. ASSUME NEW j \in Keys, g[j] = g[k]
        PROVE  cache[j].auth = a[g[k]] /\ cache[j].aliases = mates[j] /\ cache[j].live
    <3>1. cache[j] = [auth |-> a[g[j]], aliases |-> mates[j], gen |-> g[j], live |-> TRUE]
      BY <1>c, <2>1, <2>2
    <3> QED
      BY <2>2, <3>1
  <2> QED
    BY <1>a, <2>2 DEF Live
<1>6. ReqsOK /\ OneHolder
  <2>1. ReqOK(Idle)
    BY IdleOK DEF Idle, ReqOK, NeedsFallback, NeedsAuth, NeedsAt, Result, Locked, NoGroup, Tries
  <2>2. Idle.pc = "idle"
    BY DEF Idle
  <2> QED
    BY <2>1, <2>2, IdleOK DEF Init, ReqsOK, OneHolder, Holds, Locked
<1>7. HistoryOK
  <2>1. 0 \in 0..MaxLapses
    BY KeysAssumption
  <2> QED
    BY <2>1 DEF Init, HistoryOK
<1> QED
  BY <1>4, <1>5, <1>6, <1>7 DEF Inv, TypeInv

LEMMA RequestKeeps ==
  ASSUME Inv, NEW p \in Requests, Arrive(p) \/ PickStep(p) \/ ResultStep(p)
  PROVE  Inv' /\ Kept
<1>1. ASSUME NEW q \in Requests, PickStep(q) PROVE Inv' /\ Kept
  <2> USE DEF PickStep
  <2>1. CASE Look(q)
    BY <1>1, <2>1, LookupKeeps DEF Look, Path
  <2>2. CASE LookFallback(q)
    BY <1>1, <2>2, LookupFallbackKeeps DEF LookFallback, Path
  <2>3. CASE Recheck(q)
    BY <1>1, <2>3, LookupKeeps DEF Recheck, Path
  <2>4. CASE RecheckFallback(q)
    BY <1>1, <2>4, LookupFallbackKeeps DEF RecheckFallback, Path
  <2>5. CASE Bind(q) \/ BindLocked(q)
    <3>1. /\ req[q].pc \in {"bind", "bindLocked"} /\ req[q].auth \in Auths
          /\ SetBinding(q, Picked(req[q])) /\ UNCHANGED quarantine
      BY <1>1, <2>5, ReqFacts DEF Bind, BindLocked, At, ReqOK, NeedsAuth
    <3>2. ReqOK(Picked(req[q])) /\ Picked(req[q]).pc \notin Locked
      BY <3>1, PickedOK, ReqFacts DEF Locked
    <3> QED
      BY <3>1, <3>2, SetBindingKeeps
  <2> QED
    BY <1>1, <2>1, <2>2, <2>3, <2>4, <2>5, LockKeeps, ObserveKeeps, ObserveFallbackKeeps,
       ChooseKeeps, RebindKeeps, ReobserveKeeps, MergePrimaryKeeps, MergeFallbackKeeps,
       MergeDeleteKeeps, MergeReplaceKeeps, RestoreKeeps
<1>2. ASSUME NEW q \in Requests, ResultStep(q) PROVE Inv' /\ Kept
  <2> USE DEF ResultStep
  <2>1. CASE Set(q) /\ UNCHANGED quarantine
    <3>1. req[q].pc = "set" /\ req[q].auth \in Auths /\ SetBinding(q, Over)
      BY <2>1, ReqFacts DEF Set, At, ReqOK, NeedsAuth, Result
    <3> QED
      BY <2>1, <3>1, OverOK, SetBindingKeeps DEF Locked
  <2>2. CASE Failed(q) /\ UNCHANGED quarantine
    <3>1. req[q].key \in Keys /\ req[q].pc = "failed"
      BY <2>2, ReqFacts DEF Failed, At, ReqOK
    <3> QED
      BY <2>2, <3>1, CondemnKeeps DEF Failed
  <2>3. CASE FailedFallback(q) /\ UNCHANGED quarantine
    <3>1. req[q].fb \in Keys /\ req[q].pc = "failedFallback"
      BY <2>3, ReqFacts DEF FailedFallback, At, ReqOK, NeedsFallback
    <3> QED
      BY <2>3, <3>1, CondemnKeeps DEF FailedFallback
  <2> QED
    BY <1>2, <2>1, <2>2, <2>3, SucceedKeeps, CheckKeeps, FailKeeps, InvalidateKeeps,
       QuarantineKeeps
<1> QED
  BY <1>1, <1>2, ArriveKeeps

LEMMA StepKeeps == ASSUME Inv, Next PROVE Inv' /\ (Kept \/ Lapsed)
  BY RequestKeeps, ExpireKeeps, CleanUpKeeps, QuarantineEndsKeeps, InvalidateAuthKeeps DEF Next

LEMMA StutterKeeps == ASSUME Inv, UNCHANGED vars PROVE Inv' /\ Kept
<1>1. Kept
  BY KeepsAll DEF vars, Inv, TypeInv
<1> QED
  BY <1>1, CacheStep DEF vars, Inv, TypeInv, HistoryOK, Kept

(* The groups of the cache are closed in every reachable state, whatever    *)
(* the fast path of Pick, OnResult and InvalidateAuth do to a group that    *)
(* the holder of bindMu is about to move.                                   *)
THEOREM GroupsStayClosed == Spec => [](TypeOK /\ GroupsClosed)
<1>1. Inv /\ [Next]_vars => Inv'
  BY StepKeeps, StutterKeeps
<1>2. Spec => []Inv
  BY InvInit, <1>1, PTL DEF Spec
<1>3. Inv => TypeOK /\ GroupsClosed
  <2> SUFFICES ASSUME Inv PROVE TypeOK
    BY DEF Inv
  <2>1. cache \in [Keys -> Entry \cup {NoEntry}]
    BY DEF Inv, TypeInv, CacheOK, EntryOK
  <2>2. \A q \in Requests : req[q].pc \notin {"idle", "over"} => req[q].key # NoKey
    BY ReqFacts, KeysAssumption DEF ReqOK
  <2> QED
    BY <2>1, <2>2 DEF TypeOK, Inv, TypeInv, ReqsOK, ReqRec, OneHolder, Holds, HistoryOK
<1> QED
  BY <1>2, <1>3, PTL

-----------------------------------------------------------------------------
(* Who changes what.  A step of a request that does not hold bindMu is told *)
(* to the history; one of the holder only forgets what it just observed.    *)
StaysOut(p, r) == Goto(p, r) /\ (Moves \/ Reads) /\ r.pc \notin Locked
TakesLock(p)   == Lock(p) /\ Goto(p, [req[p] EXCEPT !.pc = "recheck"])
LEMMA Outside ==
  ASSUME Inv, NEW p \in Requests, ~Holds(p), Arrive(p) \/ PickStep(p) \/ ResultStep(p)
  PROVE  TakesLock(p) \/ \E r : StaysOut(p, r)
<1> DEFINE Goal == \E r : StaysOut(p, r)
<1>0. req[p].pc \notin Locked /\ req[p] \in ReqRec
  BY ReqFacts DEF Holds
<1>a. ASSUME NEW r, Goto(p, r), Moves \/ Reads, r.pc \notin Locked PROVE Goal
  BY <1>a DEF StaysOut
<1>n. \A c : Writes(p, c) \/ Erases(p, c) => Moves
  BY DEF Writes, Erases, Note
<1>o. Over.pc \notin Locked /\ Picked(req[p]).pc \notin Locked
  BY DEF Over, Picked, Idle, Locked
<1>1. CASE Arrive(p)
  <2>1. PICK s, avail :
          Goto(p, [Idle EXCEPT !.pc = "look", !.key = s[1], !.fb = s[2], !.avail = avail])
    BY <1>1 DEF Arrive
  <2>2. [Idle EXCEPT !.pc = "look", !.key = s[1], !.fb = s[2], !.avail = avail].pc \notin Locked
    BY DEF Idle, Locked
  <2> QED
    BY <1>1, <1>a, <2>1, <2>2 DEF Arrive
<1>2. CASE Look(p)
  <2>1. PICK r : Goto(p, r) /\ r \in {[req[p] EXCEPT !.pc = "lock"],
                                     [req[p] EXCEPT !.pc = "lookFallback"],
                                     [req[p] EXCEPT !.pc = "bind", !.auth = cache[req[p].key].auth]}
    BY <1>2 DEF Look, Lookup
  <2>2. r.pc \in {"lock", "lookFallback", "bind"}
    BY <1>0, <2>1 DEF ReqRec
  <2> QED
    BY <1>2, <1>a, <1>n, <2>1, <2>2 DEF Look, Lookup, Locked
<1>3. CASE LookFallback(p)
  <2>1. PICK r : Goto(p, r) /\ r \in {[req[p] EXCEPT !.pc = "lock"],
                                     [req[p] EXCEPT !.pc = "bind", !.auth = cache[req[p].fb].auth]}
    BY <1>3 DEF LookFallback, LookupFallback
  <2>2. r.pc \in {"lock", "bind"}
    BY <1>0, <2>1 DEF ReqRec
  <2> QED
    BY <1>3, <1>a, <1>n, <2>1, <2>2 DEF LookFallback, LookupFallback, Locked
<1>4. CASE Bind(p) \/ Set(p)
  BY <1>4, <1>a, <1>n, <1>o DEF Bind, Set, SetBinding
<1>5. CASE Lock(p)
  BY <1>5 DEF Lock, TakesLock
<1>6. CASE Succeed(p)
  <2>1. PICK r : Goto(p, r) /\ r \in {Over, [req[p] EXCEPT !.pc = "check"]}
    BY <1>6 DEF Succeed, SetBinding
  <2>2. r.pc \notin Locked
    BY <1>0, <1>o, <2>1 DEF ReqRec, Locked
  <2> QED
    BY <1>6, <1>a, <1>n, <2>1, <2>2 DEF Succeed, SetBinding
<1>7. CASE Check(p)
  <2>1. PICK r : Goto(p, r) /\ r \in {Over, [req[p] EXCEPT !.pc = "set"]}
    BY <1>7 DEF Check
  <2>2. r.pc \notin Locked
    BY <1>0, <1>o, <2>1 DEF ReqRec, Locked
  <2> QED
    BY <1>7, <1>a, <1>n, <2>1, <2>2 DEF Check
<1>8. CASE Neutral(p)
  BY <1>8, <1>a, <1>o DEF Neutral
<1>9. CASE Fail(p)
  <2>1. [req[p] EXCEPT !.pc = "failed"].pc \notin Locked
    BY <1>0 DEF ReqRec, Locked
  <2> QED
    BY <1>9, <1>a, <2>1 DEF Fail
<1>10. CASE Failed(p) \/ FailedFallback(p)
  <2>0. PICK o \in {"quarantine", "failedFallback"} : \E k : Condemn(p, k, o)
    <3>1. CASE Failed(p)
      BY <3>1 DEF Failed
    <3>2. CASE FailedFallback(p)
      BY <3>2 DEF FailedFallback
    <3> QED
      BY <1>10, <3>1, <3>2
  <2>1. PICK k : Condemn(p, k, o)
    BY <2>0
  <2>2. PICK r : Goto(p, r) /\ \/ r = [req[p] EXCEPT !.pc = "invalidate", !.at = k,
                                                    !.todo = cache[k].aliases]
                               \/ r = [req[p] EXCEPT !.pc = o, !.todo = Ids(p)]
    BY <2>1 DEF Condemn
  <2>3. r.pc \in {"invalidate", "quarantine", "failedFallback"}
    BY <1>0, <2>2 DEF ReqRec
  <2> QED
    BY <1>a, <2>1, <2>2, <2>3 DEF Condemn, Locked
<1>11. CASE Invalidate(p)
  <2>1. [req[p] EXCEPT !.pc = "quarantine"].pc \notin Locked
    BY <1>0 DEF ReqRec, Locked
  <2> QED
    BY <1>11, <1>a, <1>n, <2>1 DEF Invalidate
<1>12. CASE Quarantine(p)
  <2>1. PICK k, r : Goto(p, r) /\ r \in {Over, [req[p] EXCEPT !.todo = @ \ {k}]}
    BY <1>12 DEF Quarantine
  <2>2. r.pc \notin Locked
    BY <1>0, <1>o, <2>1 DEF ReqRec
  <2> QED
    BY <1>12, <1>a, <2>1, <2>2 DEF Quarantine
<1>13. CASE \/ Recheck(p) \/ RecheckFallback(p) \/ BindLocked(p) \/ Observe(p)
            \/ ObserveFallback(p) \/ Choose(p) \/ Rebind(p) \/ Reobserve(p)
            \/ MergePrimary(p) \/ MergeFallback(p) \/ MergeDelete(p) \/ MergeReplace(p)
            \/ Restore(p)
  BY <1>0, <1>13 DEF Recheck, RecheckFallback, BindLocked, Observe, ObserveFallback, Choose,
     Rebind, Reobserve, MergePrimary, MergeFallback, MergeDelete, MergeReplace, Restore, At,
     Locked
<1> QED
  BY <1>1, <1>2, <1>3, <1>4, <1>5, <1>6, <1>7, <1>8, <1>9, <1>10, <1>11, <1>12, <1>13
     DEF PickStep, ResultStep

Fresh(g)     == moved' \cap g.aliases = {}
KnownAs(q, g) == g \in {req[q].stale, req[q].split} \/ Fresh(g)
StaysIn(q, r) == /\ Goto(q, r) /\ (moved' \subseteq moved \/ moved' = {})
                 /\ r.pc \in Locked => KnownAs(q, r.stale) /\ KnownAs(q, r.split)

LEMMA Inside ==
  ASSUME Inv, NEW q \in Requests, Holds(q), Arrive(q) \/ PickStep(q) \/ ResultStep(q)
  PROVE  \E r : StaysIn(q, r)
<1> DEFINE s == req[q]
<1>0. s \in ReqRec /\ s.pc \in Locked /\ Inv
  BY ReqFacts DEF Holds
<1>n. \A c : Writes(q, c) \/ Erases(q, c) \/ Reads => moved' \subseteq moved
  BY DEF Writes, Erases, Note, Reads
<1>m. \A g : Observes(g) \/ StartsOver(g) => moved' \subseteq moved /\ Fresh(g)
  BY DEF Observes, StartsOver, Fresh
<1>a. ASSUME NEW r, Goto(q, r), moved' \subseteq moved, r.stale = s.stale, r.split = s.split
      PROVE  \E x : StaysIn(q, x)
  BY <1>a DEF StaysIn, KnownAs
<1>b. ASSUME NEW r, Goto(q, r), moved' \subseteq moved, r.pc \notin Locked
      PROVE  \E x : StaysIn(q, x)
  BY <1>b DEF StaysIn
<1>o. Over.pc \notin Locked /\ \A r : Picked(r).pc \notin Locked
  BY DEF Over, Picked, Idle, Locked
<1>1. CASE Recheck(q)
  <2>1. PICK r : Goto(q, r) /\ r \in {[s EXCEPT !.pc = "observe"],
                                     [s EXCEPT !.pc = "recheckFallback"],
                                     [s EXCEPT !.pc = "bindLocked", !.auth = cache[s.key].auth]}
    BY <1>1 DEF Recheck, Lookup
  <2>2. r.stale = s.stale /\ r.split = s.split
    BY <1>0, <2>1 DEF ReqRec
  <2> QED
    BY <1>1, <1>a, <1>n, <2>1, <2>2 DEF Recheck, Lookup
<1>2. CASE RecheckFallback(q)
  <2>1. PICK r : Goto(q, r) /\ r \in {[s EXCEPT !.pc = "observe"],
                                     [s EXCEPT !.pc = "bindLocked", !.auth = cache[s.fb].auth]}
    BY <1>2 DEF RecheckFallback, LookupFallback
  <2>2. r.stale = s.stale /\ r.split = s.split
    BY <1>0, <2>1 DEF ReqRec
  <2> QED
    BY <1>2, <1>a, <1>n, <2>1, <2>2 DEF RecheckFallback, LookupFallback
<1>3. CASE BindLocked(q)
  BY <1>3, <1>b, <1>n, <1>o DEF BindLocked, SetBinding
<1>4. CASE Observe(q)
  <2>1. moved' = {} /\ \E r : Goto(q, r)
    BY <1>4 DEF Observe
  <2> QED
    BY <2>1 DEF StaysIn, KnownAs, Fresh
<1>5. CASE ObserveFallback(q)
  <2> DEFINE g == Observed(s.fb)
             r == [s EXCEPT !.split = g, !.pc = "choose"]
  <2>1. Observes(g) /\ Goto(q, r)
    BY <1>5 DEF ObserveFallback
  <2>2. r.stale = s.stale /\ r.split = g
    BY <1>0 DEF ReqRec
  <2> QED
    BY <1>m, <2>1, <2>2 DEF StaysIn, KnownAs
<1>6. CASE Choose(q)
  <2>1. PICK a : \/ Goto(q, Over)
                 \/ Goto(q, [s EXCEPT !.auth = a, !.pc = "mergePrimary"])
                 \/ Goto(q, [s EXCEPT !.auth = a, !.pc = "rebind"])
                 \/ Goto(q, [s EXCEPT !.auth = a, !.pc = "rebind", !.at = s.fb,
                                      !.stale = s.split])
                 \/ Goto(q, [s EXCEPT !.auth = a, !.pc = "bindLocked"])
    BY <1>6 DEF Choose
  <2>2. moved' \subseteq moved
    BY <1>6, <1>n DEF Choose
  <2>3. CASE Goto(q, Over)
    BY <1>b, <1>o, <2>2, <2>3
  <2>4. ASSUME NEW r, Goto(q, r), r.split = s.split, r.stale \in {s.stale, s.split}
        PROVE  \E x : StaysIn(q, x)
    BY <2>2, <2>4 DEF StaysIn, KnownAs
  <2>5. /\ [s EXCEPT !.auth = a, !.pc = "mergePrimary"].stale = s.stale
        /\ [s EXCEPT !.auth = a, !.pc = "mergePrimary"].split = s.split
        /\ [s EXCEPT !.auth = a, !.pc = "rebind"].stale = s.stale
        /\ [s EXCEPT !.auth = a, !.pc = "rebind"].split = s.split
        /\ [s EXCEPT !.auth = a, !.pc = "rebind", !.at = s.fb, !.stale = s.split].stale = s.split
        /\ [s EXCEPT !.auth = a, !.pc = "rebind", !.at = s.fb, !.stale = s.split].split = s.split
        /\ [s EXCEPT !.auth = a, !.pc = "bindLocked"].stale = s.stale
        /\ [s EXCEPT !.auth = a, !.pc = "bindLocked"].split = s.split
    BY <1>0 DEF ReqRec
  <2> QED
    BY <2>1, <2>3, <2>4, <2>5
<1>7. ASSUME NEW g, NEW more, NEW lost, Swap(q, g, more, lost),
             lost.pc \notin Locked \/ (lost.stale = s.stale /\ lost.split = s.split)
      PROVE  \E x : StaysIn(q, x)
  <2>1. PICK r \in {Picked(s), lost} : Goto(q, r)
    BY <1>7 DEF Swap
  <2>2. moved' \subseteq moved
    BY <1>7, <1>n DEF Swap
  <2> QED
    BY <1>7, <1>a, <1>b, <1>o, <2>1, <2>2
<1>8. CASE Rebind(q)
  <2>1. /\ [s EXCEPT !.pc = "reobserve"].stale = s.stale
        /\ [s EXCEPT !.pc = "reobserve"].split = s.split
    BY <1>0 DEF ReqRec
  <2> QED
    BY <1>7, <1>8, <2>1 DEF Rebind
<1>9. CASE Reobserve(q)
  <2> DEFINE g == Observed(s.at)
             n == [s EXCEPT !.stale = g, !.tries = @ + 1]
             r == [n EXCEPT !.pc = "rebind"]
  <2>1. n.stale = g /\ n.split = s.split /\ r.stale = g /\ r.split = s.split
    BY <1>0 DEF ReqRec
  <2>2. StartsOver(g) /\ (Goto(q, r) \/ Goto(q, Picked(n)))
    BY <1>9, <2>1 DEF Reobserve
  <2>3. CASE Goto(q, r)
    BY <1>m, <2>1, <2>2, <2>3 DEF StaysIn, KnownAs
  <2>4. CASE Goto(q, Picked(n))
    BY <1>m, <1>b, <1>o, <2>2, <2>4
  <2> QED
    BY <2>2, <2>3, <2>4
<1>10. CASE MergePrimary(q)
  <2> DEFINE g == Observed(s.key)
             r == [s EXCEPT !.stale = g, !.pc = "mergeFallback"]
  <2>1. StartsOver(g) /\ Goto(q, r)
    BY <1>10 DEF MergePrimary
  <2>2. r.split = s.split /\ r.stale = g
    BY <1>0 DEF ReqRec
  <2> QED
    BY <1>m, <2>1, <2>2 DEF StaysIn, KnownAs
<1>11. CASE MergeFallback(q)
  <2> DEFINE g == Observed(s.fb)
             pc == IF DropsFallback(s, g) THEN "mergeDelete" ELSE "mergeReplace"
             r == [s EXCEPT !.split = g, !.pc = pc]
  <2>1. Observes(g) /\ Goto(q, r)
    BY <1>11 DEF MergeFallback
  <2>2. r.stale = s.stale /\ r.split = g
    BY <1>0 DEF ReqRec
  <2> QED
    BY <1>m, <2>1, <2>2 DEF StaysIn, KnownAs
<1>12. Retry(s).pc \notin Locked \/ (Retry(s).stale = s.stale /\ Retry(s).split = s.split)
  <2> DEFINE n == [s EXCEPT !.tries = @ + 1]
  <2>1. Retry(s) \in {[n EXCEPT !.pc = "mergePrimary"], [n EXCEPT !.pc = "restore"], Picked(n)}
    BY DEF Retry
  <2>2. /\ [n EXCEPT !.pc = "mergePrimary"].stale = s.stale
        /\ [n EXCEPT !.pc = "mergePrimary"].split = s.split
        /\ [n EXCEPT !.pc = "restore"].stale = s.stale
        /\ [n EXCEPT !.pc = "restore"].split = s.split
    BY <1>0 DEF ReqRec
  <2> QED
    BY <1>o, <2>1, <2>2
<1>13. CASE MergeDelete(q)
  <2> DEFINE r == [s EXCEPT !.kept = @ \cup s.split.aliases, !.keptAuth = s.split.auth,
                            !.pc = "mergeReplace"]
  <2>1. moved' \subseteq moved /\ (Goto(q, r) \/ Goto(q, Retry(s)))
    BY <1>13, <1>n DEF MergeDelete
  <2>2. r.stale = s.stale /\ r.split = s.split
    BY <1>0 DEF ReqRec
  <2> QED
    BY <1>a, <1>b, <1>12, <2>1, <2>2
<1>14. CASE MergeReplace(q)
  <2>1. CASE Swap(q, s.stale, Merged(s), Retry(s))
    BY <1>7, <1>12, <2>1
  <2>2. CASE (\E c : Writes(q, c)) /\ Goto(q, Picked(s))
    BY <1>b, <1>n, <1>o, <2>2
  <2> QED
    BY <1>14, <2>1, <2>2 DEF MergeReplace
<1>15. CASE Restore(q)
  BY <1>15, <1>b, <1>n, <1>o DEF Restore
<1>16. CASE Arrive(q) \/ Look(q) \/ LookFallback(q) \/ Bind(q) \/ Lock(q) \/ ResultStep(q)
  BY <1>0, <1>16 DEF Arrive, Look, LookFallback, Bind, Lock, ResultStep, Succeed, Check, Set,
     Neutral, Fail, Failed, FailedFallback, Invalidate, Quarantine, At, Locked
<1> QED
  BY <1>1, <1>2, <1>3, <1>4, <1>5, <1>6, <1>8, <1>9, <1>10, <1>11, <1>13, <1>14, <1>15, <1>16
     DEF PickStep

(* What the holder of bindMu remembers of a key that moved since is no       *)
(* longer what the cache has.                                               *)
Outdated(j, g) == cache[j].gen # g.gen \/ cache[j].auth = NoAuth
MovedOf(g)     == \A j \in g.aliases \cap moved : Outdated(j, g)
MovedInv == \A q \in Requests : Holds(q) => MovedOf(req[q].stale) /\ MovedOf(req[q].split)

LEMMA RememberedGroups ==
  ASSUME Inv, NEW q \in Requests, NEW g \in {req[q].stale, req[q].split}
  PROVE  g \in Group /\ g.gen # NewGeneration
  BY ReqFacts, GenerationsInUse DEF ReqRec

(* A write outdates what it changes, and revives nothing outdated.          *)
LEMMA OutdatedStays ==
  ASSUME NEW g, g.gen # NewGeneration, NEW j \in Keys, Outdated(j, g), Kept \/ Lapsed
  PROVE  Outdated(j, g)'
  BY DEF Outdated, Kept, Lapsed, EntryStep, NoEntry

LEMMA MovedOfStays ==
  ASSUME Inv, NEW g \in Group, g.gen # NewGeneration, MovedOf(g), Kept,
         \/ moved' \subseteq moved
         \/ moved' = moved \cup Changed
  PROVE  \A j \in g.aliases \cap moved' : Outdated(j, g)'
<1> SUFFICES ASSUME NEW j \in g.aliases, j \in moved' PROVE Outdated(j, g)'
  OBVIOUS
<1>0. j \in Keys
  BY DEF Group
<1>1. CASE j \in moved
  BY <1>0, <1>1, OutdatedStays DEF MovedOf
<1>2. CASE j \in Changed
  BY <1>0, <1>2 DEF Changed, Kept, EntryStep, Outdated, NoEntry
<1> QED
  BY <1>1, <1>2

LEMMA MovedHeldByOther ==
  ASSUME Inv, MovedInv, NEW q \in Requests, Holds(q), req'[q] = req[q], Inv', Kept,
         Moves \/ (moved' = moved)
  PROVE  MovedInv'
<1>1. moved' \subseteq moved \/ moved' = moved \cup Changed
  BY DEF Moves, Held
<1>2. ASSUME NEW g \in {req[q].stale, req[q].split} PROVE MovedOf(g)'
  BY <1>1, <1>2, RememberedGroups, MovedOfStays DEF MovedInv, MovedOf
<1>3. \A p \in Requests : Holds(p)' => p = q
  BY DEF Inv, TypeInv, OneHolder, Holds
<1> QED
  BY <1>2, <1>3 DEF MovedInv, MovedOf, Outdated

LEMMA MovedNotHeld ==
  ASSUME moved' = {} \/ \A q \in Requests : ~Holds(q)'
  PROVE  MovedInv'
  BY DEF MovedInv, MovedOf

LEMMA MovedInside ==
  ASSUME Inv, MovedInv, NEW q \in Requests, Holds(q), NEW r, StaysIn(q, r), Inv', Kept
  PROVE  MovedInv'
<1>1. req'[q] = r
  BY DEF StaysIn, Goto, Inv, TypeInv, ReqsOK
<1>2. \A p \in Requests : Holds(p)' => p = q
  <2>1. \A p \in Requests : p # q => req'[p] = req[p]
    BY DEF StaysIn, Goto, Inv, TypeInv, ReqsOK
  <2> QED
    BY <2>1 DEF Inv, TypeInv, OneHolder, Holds
<1>3. CASE moved' = {} \/ r.pc \notin Locked
  BY <1>1, <1>2, <1>3, MovedNotHeld DEF Holds
<1>4. CASE moved' \subseteq moved /\ r.pc \in Locked
  <2>1. ASSUME NEW g \in {r.stale, r.split} PROVE MovedOf(g)'
    <3>1. CASE Fresh(g)
      BY <3>1 DEF Fresh, MovedOf
    <3>2. CASE g \in {req[q].stale, req[q].split}
      BY <1>4, <3>2, RememberedGroups, MovedOfStays DEF MovedInv, MovedOf
    <3> QED
      BY <1>4, <2>1, <3>1, <3>2 DEF StaysIn, KnownAs
  <2> QED
    BY <1>1, <1>2, <2>1 DEF MovedInv, MovedOf, Outdated
<1> QED
  BY <1>3, <1>4 DEF StaysIn

LEMMA MovedOthers ==
  ASSUME Inv, MovedInv, Inv', Kept, Moves \/ moved' = moved,
         \A q \in Requests : Holds(q)' => Holds(q) /\ req'[q] = req[q]
  PROVE  MovedInv'
<1>1. CASE \A q \in Requests : ~Holds(q)'
  BY <1>1, MovedNotHeld
<1>2. ASSUME NEW q \in Requests, Holds(q)' PROVE MovedInv'
  BY <1>2, MovedHeldByOther
<1> QED
  BY <1>1, <1>2

(* What another does leaves a request as it is. *)
LEMMA GotoOne ==
  ASSUME Inv, NEW p \in Requests, NEW r, Goto(p, r), NEW q \in Requests
  PROVE  req'[q] = IF q = p THEN r ELSE req[q]
  BY DEF Goto, Inv, TypeInv, ReqsOK

LEMMA OwnStep ==
  ASSUME Inv, [Next]_vars, NEW q \in Requests, req'[q] # req[q]
  PROVE  Arrive(q) \/ PickStep(q) \/ ResultStep(q)
<1>1. PICK p \in Requests : Arrive(p) \/ PickStep(p) \/ ResultStep(p)
  BY DEF Next, vars, Expire, CleanUp, QuarantineEnds, InvalidateAuth
<1>2. \E r : Goto(p, r)
  BY <1>1, Inside, Outside DEF StaysIn, StaysOut, TakesLock
<1>3. p = q
  BY <1>2, GotoOne
<1> QED
  BY <1>1, <1>3

(* A position of Pick has one action. *)
LEMMA PickAt ==
  ASSUME NEW q, PickStep(q)
  PROVE  \/ Look(q) /\ At(q, "look")
         \/ LookFallback(q) /\ At(q, "lookFallback")
         \/ Bind(q) /\ At(q, "bind")
         \/ Lock(q) /\ At(q, "lock")
         \/ Recheck(q) /\ At(q, "recheck")
         \/ RecheckFallback(q) /\ At(q, "recheckFallback")
         \/ BindLocked(q) /\ At(q, "bindLocked")
         \/ Observe(q) /\ At(q, "observe")
         \/ ObserveFallback(q) /\ At(q, "observeFallback")
         \/ Choose(q) /\ At(q, "choose")
         \/ Rebind(q) /\ At(q, "rebind")
         \/ Reobserve(q) /\ At(q, "reobserve")
         \/ MergePrimary(q) /\ At(q, "mergePrimary")
         \/ MergeFallback(q) /\ At(q, "mergeFallback")
         \/ MergeDelete(q) /\ At(q, "mergeDelete")
         \/ MergeReplace(q) /\ At(q, "mergeReplace")
         \/ Restore(q) /\ At(q, "restore")
<1>1. /\ Look(q) => At(q, "look")
      /\ LookFallback(q) => At(q, "lookFallback")
      /\ Bind(q) => At(q, "bind")
      /\ Lock(q) => At(q, "lock")
      /\ Recheck(q) => At(q, "recheck")
      /\ RecheckFallback(q) => At(q, "recheckFallback")
      /\ BindLocked(q) => At(q, "bindLocked")
      /\ Observe(q) => At(q, "observe")
      /\ ObserveFallback(q) => At(q, "observeFallback")
      /\ Choose(q) => At(q, "choose")
      /\ Rebind(q) => At(q, "rebind")
      /\ Reobserve(q) => At(q, "reobserve")
      /\ MergePrimary(q) => At(q, "mergePrimary")
      /\ MergeFallback(q) => At(q, "mergeFallback")
      /\ MergeDelete(q) => At(q, "mergeDelete")
      /\ MergeReplace(q) => At(q, "mergeReplace")
      /\ Restore(q) => At(q, "restore")
  BY DEF Look, LookFallback, Bind, Lock, Recheck, RecheckFallback, BindLocked, Observe,
     ObserveFallback, Choose, Rebind, Reobserve, MergePrimary, MergeFallback, MergeDelete,
     MergeReplace, Restore
<1> QED
  BY <1>1 DEF PickStep

LEMMA MovedStep == ASSUME Inv, MovedInv, Next PROVE MovedInv'
<1>1. ASSUME NEW p \in Requests, Arrive(p) \/ PickStep(p) \/ ResultStep(p) PROVE MovedInv'
  <2>0. Inv' /\ Kept
    BY <1>1, RequestKeeps
  <2>1. CASE Holds(p)
    BY <1>1, <2>0, <2>1, Inside, MovedInside
  <2>2. CASE ~Holds(p) /\ TakesLock(p)
    BY <2>2, MovedNotHeld DEF TakesLock, Lock
  <2>3. ASSUME NEW r, ~Holds(p), StaysOut(p, r) PROVE MovedInv'
    <3>1. \A q \in Requests : Holds(q)' => Holds(q) /\ req'[q] = req[q]
      <4> SUFFICES ASSUME NEW q \in Requests, Holds(q)' PROVE Holds(q) /\ req'[q] = req[q]
        OBVIOUS
      <4>1. req'[q] = IF q = p THEN r ELSE req[q]
        BY <2>3, GotoOne DEF StaysOut
      <4>2. q # p
        BY <2>3, <4>1 DEF StaysOut, Holds
      <4> QED
        BY <4>1, <4>2 DEF Holds
    <3>2. Moves \/ moved' = moved
      BY <2>3 DEF StaysOut, Reads
    <3> QED
      BY <2>0, <3>1, <3>2, MovedOthers
  <2> QED
    BY <1>1, <2>1, <2>2, <2>3, Outside
<1>2. ASSUME NEW k \in Keys, Expire(k) PROVE MovedInv'
  <2>1. Lapsed /\ UNCHANGED <<req, moved>>
    BY <1>2, ExpireKeeps DEF Expire
  <2>2. ASSUME NEW q \in Requests, Holds(q), NEW g \in {req[q].stale, req[q].split},
               NEW j \in g.aliases \cap moved
        PROVE  Outdated(j, g)'
    <3>1. g.gen # NewGeneration /\ j \in Keys /\ Outdated(j, g)
      BY <2>2, RememberedGroups DEF MovedInv, MovedOf, Group
    <3> QED
      BY <2>1, <3>1, OutdatedStays
  <2> QED
    BY <2>1, <2>2 DEF MovedInv, MovedOf, Outdated, Holds
<1>3. CASE CleanUp
  BY <1>3, CleanUpKeeps, MovedOthers DEF CleanUp, Holds
<1>4. ASSUME NEW k \in Keys, NEW a \in Auths, QuarantineEnds(k, a) PROVE MovedInv'
  BY <1>4, QuarantineEndsKeeps, MovedOthers DEF QuarantineEnds, Holds
<1>5. ASSUME NEW a \in Auths, InvalidateAuth(a) PROVE MovedInv'
  BY <1>5, InvalidateAuthKeeps, MovedOthers DEF InvalidateAuth, Holds
<1> QED
  BY <1>1, <1>2, <1>3, <1>4, <1>5 DEF Next

LEMMA MovedInvariant == Spec => [](Inv /\ MovedInv)
<1>1. Init => MovedInv
  BY DEF Init, MovedInv, Holds, Idle, Locked
<1>2. Inv /\ [Next]_vars => Inv'
  BY StepKeeps, StutterKeeps
<1>3. Inv /\ MovedInv /\ [Next]_vars => MovedInv'
  <2>1. ASSUME Inv, MovedInv, UNCHANGED vars PROVE MovedInv'
    BY <2>1 DEF vars, MovedInv, MovedOf, Outdated, Holds
  <2> QED
    BY <2>1, MovedStep
<1> QED
  BY InvInit, <1>1, <1>2, <1>3, PTL DEF Spec

(* CompareAndReplaceAliases succeeds only on the group that was observed:   *)
(* no other request, failure, expiry or cleanup has touched any key of it   *)
(* in between.  CompareAndDeleteGroup succeeds only if none has touched the *)
(* fallback key.                                                            *)
THEOREM StaleSwapsLose == Spec => StaleLoses
<1>1. ASSUME Inv, MovedInv, [Next]_vars, NEW q \in Requests, Swapped(q)
      PROVE  moved \cap req[q].stale.aliases = {}
  <2> DEFINE g == req[q].stale
  <2>1. req[q].pc \in {"rebind", "mergeReplace"} /\ req'[q].pc = "picked" /\ cache' # cache
    BY <1>1 DEF Swapped, At
  <2>2. PickStep(q)
    BY <1>1, <2>1, OwnStep DEF Arrive, ResultStep, Succeed, Check, Set, Neutral, Fail, Failed,
       FailedFallback, Invalidate, Quarantine, At
  <2>3. (req[q].pc = "rebind" /\ Rebind(q)) \/ (req[q].stale.ok /\ MergeReplace(q))
    BY <1>1, <2>1, <2>2, PickAt DEF Swapped, At
  <2>4. Unchanged(g)
    BY <2>1, <2>3 DEF Rebind, MergeReplace, Swap, Reads
  <2>5. ASSUME NEW j \in moved \cap g.aliases PROVE FALSE
    <3>1. Outdated(j, g)
      BY <1>1, <2>1, <2>5 DEF MovedInv, MovedOf, Holds, Locked
    <3>2. Live(j) /\ SameGroup(j, g) /\ j \in Keys
      BY <1>1, <2>4, <2>5, RememberedGroups DEF Unchanged, Group
    <3>3. cache[j].auth \in Auths
      BY <1>1, <3>2, AliasesAreKeys DEF Inv, TypeInv
    <3> QED
      BY <3>1, <3>2, <3>3, KeysAssumption DEF Outdated, SameGroup
  <2> QED
    BY <2>5
<1>2. ASSUME Inv, MovedInv, [Next]_vars, NEW q \in Requests, Deleted(q)
      PROVE  req[q].fb \notin moved
  <2> DEFINE g == req[q].split
  <2>1. req[q].pc = "mergeDelete" /\ req'[q].pc = "mergeReplace"
    BY <1>2 DEF Deleted, At
  <2>2. PickStep(q)
    BY <1>2, <2>1, OwnStep DEF Arrive, ResultStep, Succeed, Check, Set, Neutral, Fail, Failed,
       FailedFallback, Invalidate, Quarantine, At
  <2>3. MergeDelete(q)
    BY <1>2, <2>1, <2>2, PickAt DEF At
  <2>4. SameGroup(req[q].fb, g)
    <3>1. ASSUME Goto(q, Retry(req[q])) PROVE FALSE
      <4>1. Retry(req[q]).pc = "mergeReplace"
        BY <1>2, <2>1, <3>1, GotoOne
      <4>2. req[q] \in ReqRec
        BY <1>2, ReqFacts
      <4> QED
        BY <4>1, <4>2 DEF Retry, ReqRec, Picked, Idle
    <3> QED
      BY <2>3, <3>1 DEF MergeDelete
  <2>5. req[q].fb \in g.aliases /\ g.auth \in Auths
    BY <1>2, <2>1, ReqFacts DEF ReqOK, GroupOK
  <2>6. ASSUME req[q].fb \in moved PROVE FALSE
    <3>1. Outdated(req[q].fb, g)
      BY <1>2, <2>1, <2>5, <2>6 DEF MovedInv, MovedOf, Holds, Locked
    <3> QED
      BY <2>4, <2>5, <3>1, KeysAssumption DEF Outdated, SameGroup
  <2> QED
    BY <2>6
<1>3. Inv /\ MovedInv /\ [Next]_vars =>
        \A q \in Requests : /\ Swapped(q) => moved \cap req[q].stale.aliases = {}
                            /\ Deleted(q) => req[q].fb \notin moved
  BY <1>1, <1>2
<1>4. Inv /\ MovedInv /\ [Next]_vars =>
        [\A q \in Requests : /\ Swapped(q) => moved \cap req[q].stale.aliases = {}
                             /\ Deleted(q) => req[q].fb \notin moved]_vars
  BY <1>3
<1> QED
  BY MovedInvariant, <1>4, PTL DEF Spec, StaleLoses

-----------------------------------------------------------------------------
(* What the holder of bindMu can count on while nobody disturbs its attempt *)
(* to move a group: the groups are as the attempt observed them, so that a  *)
(* compare-and-swap that loses has found a binding it cannot move.          *)
Settled == {"observeFallback", "choose", "rebind", "mergeFallback", "mergeDelete",
            "mergeReplace"}
SeesPrimary(r) == r.stale = Observed(r.key)
Dropped(r) == r.split.ok /\ r.fb \in r.split.aliases /\ \A k \in r.split.aliases : ~Live(k)
Unbound(r) == ~r.split.ok /\ ~Live(r.fb)
Und(r) ==
  /\ r.pc \in {"observeFallback", "choose"} => r.at = r.key /\ SeesPrimary(r)
  /\ (r.pc = "choose" /\ r.fb # NoKey) => r.split = Observed(r.fb)
  /\ r.pc = "rebind" => /\ r.stale.ok /\ r.stale = Observed(r.at)
                        /\ ~SecondGroup(r) \/ Twofold(r) \/ r.tries > 0
  /\ r.pc \in {"mergeFallback", "mergeDelete"} => SeesPrimary(r)
  /\ r.pc = "mergeDelete" => r.split = Observed(r.fb)
  /\ r.pc = "mergeReplace" => /\ SeesPrimary(r) \/ Joined(r)
                              /\ GivenSplit(r) \/ Dropped(r) \/ Unbound(r)
Undisturbed == ~disturbed => \A q \in Requests : Holds(q) => Und(req[q])

LEMMA UndVacuous == ASSUME NEW r, r.pc \notin Settled PROVE Und(r) /\ Und(r)'
  BY DEF Und, Settled

LEMMA ObservedLive ==
  ASSUME Inv, NEW k \in Keys, NEW g, g = Observed(k), g.ok
  PROVE  /\ Live(k) /\ k \in g.aliases /\ g.aliases = cache[k].aliases /\ g.auth = cache[k].auth
         /\ g.gen = cache[k].gen
         /\ \A j \in g.aliases : /\ j \in Keys /\ Live(j) /\ cache[j].auth = g.auth
                                 /\ cache[j].aliases = g.aliases
<1>1. Live(k)
  BY DEF Observed, NoGroup
<1> QED
  BY <1>1, AliasesAreKeys DEF Observed, Inv, TypeInv, GroupsClosed

(* It only looks at the keys the holder works on. *)
LEMMA UndLocal ==
  ASSUME Inv, NEW r, ReqOK(r), Und(r),
         \A k \in Keys : k \in WorksOn(r) => cache'[k] = cache[k]
  PROVE  Und(r)'
<1>1. /\ r.stale.aliases \subseteq Keys /\ r.split.aliases \subseteq Keys
      /\ r.key \in Keys \cup {NoKey} /\ r.fb \in Keys \cup {NoKey}
  BY DEF ReqOK, ReqRec, Group
<1>2. \A k \in Keys \cap WorksOn(r) :
        cache'[k] = cache[k] /\ Observed(k)' = Observed(k) /\ Live(k)' = Live(k)
  BY DEF Observed, Live
<1>3. {r.key, r.fb} \subseteq WorksOn(r) /\ r.stale.aliases \cup r.split.aliases \subseteq WorksOn(r)
  BY DEF WorksOn
<1>4. r.pc \in Settled => r.key \in Keys /\ r.pc \in Locked
  BY DEF ReqOK, Locked, Settled
<1>5. r.pc \in {"mergeFallback", "mergeDelete", "mergeReplace"} => r.fb \in Keys
  BY DEF ReqOK, NeedsFallback
<1>6. SecondGroup(r)' = SecondGroup(r)
  <2>1. \A k \in {r.key, r.fb} \ {NoKey} : Live(k)' = Live(k)
    BY <1>1, <1>2, <1>3
  <2> QED
    BY <2>1 DEF SecondGroup
<1>7. Dropped(r) => Dropped(r)'
  <2>1. \A k \in r.split.aliases : Live(k)' = Live(k)
    BY <1>1, <1>2, <1>3
  <2> QED
    BY <2>1 DEF Dropped
<1>8. r.pc \in Settled => (SeesPrimary(r) => SeesPrimary(r)')
  BY <1>2, <1>3, <1>4 DEF SeesPrimary
<1>9. (r.pc = "choose" /\ r.fb # NoKey) => r.split = Observed(r.fb)'
  BY <1>1, <1>2, <1>3 DEF Und
<1>10. r.pc = "rebind" => r.stale.ok /\ r.stale = Observed(r.at)'
  <2> SUFFICES ASSUME r.pc = "rebind" PROVE r.stale.ok /\ r.stale = Observed(r.at)'
    OBVIOUS
  <2>1. r.at \in Keys /\ r.stale.ok /\ r.stale = Observed(r.at)
    BY DEF Und, ReqOK, NeedsAt
  <2>2. r.at \in r.stale.aliases
    BY <2>1, ObservedLive
  <2> QED
    BY <1>2, <1>3, <2>1, <2>2
<1>11. r.pc = "rebind" => ~SecondGroup(r)' \/ Twofold(r) \/ r.tries > 0
  BY <1>6 DEF Und
<1>12. r.pc = "mergeDelete" => r.split = Observed(r.fb)'
  BY <1>2, <1>3, <1>5 DEF Und
<1>13. r.pc = "mergeReplace" => GivenSplit(r) \/ Dropped(r)' \/ Unbound(r)'
  <2>1. r.pc = "mergeReplace" /\ Unbound(r) => Unbound(r)'
    BY <1>2, <1>3, <1>5 DEF Unbound
  <2> QED
    BY <1>7, <2>1 DEF Und
<1>14. /\ r.pc \in {"observeFallback", "choose"} => r.at = r.key /\ SeesPrimary(r)'
       /\ r.pc \in {"mergeFallback", "mergeDelete"} => SeesPrimary(r)'
       /\ r.pc = "mergeReplace" => SeesPrimary(r)' \/ Joined(r)
  BY <1>8 DEF Und, Settled
<1> QED
  BY <1>9, <1>10, <1>11, <1>12, <1>13, <1>14 DEF Und, Twofold, Joined, GivenSplit

(* A compare-and-swap on a group just observed fails only if the group is   *)
(* torn or another one is in the way.                                       *)
LEMMA SwapFails ==
  ASSUME Inv, NEW k \in Keys, NEW g, g = Observed(k), g.ok, NEW all,
         \A j \in all : Live(j) => j \in g.aliases, ~(Unchanged(g) /\ NoOtherGroup(g, all))
  PROVE  Torn(g)
<1>1. NoOtherGroup(g, all)
  BY DEF NoOtherGroup
<1>2. PICK j \in g.aliases : ~(Live(j) /\ SameGroup(j, g))
  BY <1>1 DEF Unchanged
<1>3. Live(j) /\ cache[j].auth = g.auth /\ cache[j].aliases = g.aliases
  BY <1>2, ObservedLive
<1> QED
  BY <1>2, <1>3 DEF Torn, SameGroup

LEMMA RebindFails ==
  ASSUME Inv, NEW q \in Requests, req[q].pc = "rebind", Und(req[q]),
         NEW all \in Compacted(req[q].stale.aliases, Ids(q)),
         ~(Unchanged(req[q].stale) /\ NoOtherGroup(req[q].stale, all))
  PROVE  Immovable(req[q])
<1> DEFINE s == req[q]
<1>1. s.at \in Keys /\ s.stale = Observed(s.at) /\ s.stale.ok
  BY ReqFacts DEF Und, ReqOK, NeedsAt
<1>2. CASE ~SecondGroup(s)
  <2>1. \A j \in all : Live(j) => j \in s.stale.aliases
    BY <1>2, CompactedBetween DEF SecondGroup, Ids
  <2>2. Torn(s.stale)
    BY <1>1, <2>1, SwapFails
  <2> QED
    BY <2>2 DEF Immovable
<1>3. CASE SecondGroup(s)
  BY <1>3 DEF Und, Immovable
<1> QED
  BY <1>2, <1>3

LEMMA DropWorks ==
  ASSUME Inv, NEW q \in Requests, req[q].pc = "mergeDelete", Und(req[q])
  PROVE  SameGroup(req[q].fb, req[q].split)
<1>1. req[q].fb \in Keys /\ req[q].split = Observed(req[q].fb) /\ req[q].split.ok
  BY ReqFacts DEF Und, ReqOK, NeedsFallback
<1> QED
  BY <1>1, ObservedLive DEF SameGroup

LEMMA MergeFails ==
  ASSUME Inv, NEW q \in Requests, req[q].pc = "mergeReplace", Und(req[q]), req[q].stale.ok,
         NEW all \in Compacted(req[q].stale.aliases, Merged(req[q])),
         ~(Unchanged(req[q].stale) /\ NoOtherGroup(req[q].stale, all))
  PROVE  Immovable(req[q])
<1> DEFINE s == req[q]
<1>1. CASE Joined(s) \/ GivenSplit(s) \/ Retaken(s)
  BY <1>1 DEF Immovable
<1>2. CASE ~(Joined(s) \/ GivenSplit(s) \/ Retaken(s))
  <2>1. s.key \in Keys /\ s.stale = Observed(s.key) /\ s.key \in s.stale.aliases
    <3>1. s.key \in Keys /\ s.stale = Observed(s.key)
      BY <1>2, ReqFacts DEF Und, ReqOK, SeesPrimary
    <3> QED
      BY <3>1, ObservedLive
  <2>2. all \subseteq s.stale.aliases \cup Merged(s)
    BY CompactedBetween
  <2>5. \A j \in all : Live(j) => j \in s.stale.aliases
    <3>1. CASE Dropped(s)
      BY <2>1, <2>2, <3>1 DEF Merged, Dropped
    <3>2. CASE Unbound(s)
      BY <1>2, <2>1, <2>2, <3>2 DEF Merged, Unbound, Retaken
    <3> QED
      BY <1>2, <3>1, <3>2 DEF Und
  <2>6. Torn(s.stale)
    BY <2>1, <2>5, SwapFails
  <2> QED
    BY <2>6 DEF Immovable
<1> QED
  BY <1>1, <1>2

(* A binding always changes the cache: its generation is a new one. *)
LEMMA CompactedNonempty ==
  ASSUME NEW first, NEW rest, rest # {}, NEW T \in Compacted(first, rest)
  PROVE  T # {}
  BY DEF Compacted

LEMMA ReplacedChanges ==
  ASSUME NEW a, NEW all, all # {}, all \subseteq Keys, NEW S, cache' = Replaced(a, all, S)
  PROVE  cache' # cache
<1>1. PICK k \in all : k \in Keys
  OBVIOUS
<1>2. cache'[k].gen = NewGeneration
  BY <1>1 DEF Replaced
<1> QED
  BY <1>1, <1>2, GenerationsInUse

LEMMA MergeChanges ==
  ASSUME Inv, NEW q \in Requests, At(q, "mergeReplace"),
         \/ \E all \in Compacted(req[q].stale.aliases, Merged(req[q])) :
              cache' = Replaced(req[q].auth, all, req[q].stale.aliases)
         \/ cache' \in SetAliases(req[q].auth, Merged(req[q]))
  PROVE  cache' # cache
<1> DEFINE s == req[q]
<1>1. s \in ReqRec /\ s.key \in Keys /\ s.fb \in Keys
  BY ReqFacts DEF At, ReqOK, NeedsFallback
<1>2. s.stale.aliases \subseteq Keys /\ Merged(s) \subseteq Keys /\ s.key \in Merged(s)
  BY <1>1 DEF ReqRec, Group, Merged
<1>3. ASSUME NEW all \in Compacted(s.stale.aliases, Merged(s)),
             cache' = Replaced(s.auth, all, s.stale.aliases)
      PROVE  cache' # cache
  <2>1. all # {} /\ all \subseteq Keys
    BY <1>2, CompactedNonempty, CompactedBetween
  <2> QED
    BY <1>3, <2>1, ReplacedChanges
<1>4. ASSUME cache' \in SetAliases(s.auth, Merged(s)) PROVE cache' # cache
  <2>1. PICK first \in Ordered(Merged(s)) :
          \E all \in Compacted(first, Gathered(Merged(s))) :
            cache' = Replaced(s.auth, all, Merged(s))
    BY <1>4 DEF SetAliases
  <2>2. PICK all \in Compacted(first, Gathered(Merged(s))) :
          cache' = Replaced(s.auth, all, Merged(s))
    BY <2>1
  <2>3. first # {} /\ first \subseteq Merged(s)
    BY <1>2 DEF Ordered
  <2>4. Gathered(Merged(s)) \subseteq Keys
    BY <1>2, AliasesAreKeys DEF Gathered, Inv, TypeInv
  <2>5. all # {} /\ all \subseteq Keys
    BY <1>2, <2>3, <2>4, CompactedBetween
  <2> QED
    BY <2>2, <2>5, ReplacedChanges
<1> QED
  BY <1>3, <1>4

LEMMA UndChoose ==
  ASSUME Inv, NEW q \in Requests, Choose(q), Und(req[q])
  PROVE  \E r : Goto(q, r) /\ Und(r)
<1> DEFINE s == req[q]
<1>0. /\ s.pc = "choose" /\ s \in ReqRec /\ ReqOK(s) /\ s.key \in Keys
      /\ s.stale = Observed(s.key) /\ s.at = s.key
  BY ReqFacts DEF Choose, At, ReqOK, Und, SeesPrimary
<1>1. s.split.ok => s.fb \in Keys /\ s.split = Observed(s.fb)
  BY <1>0, KeysAssumption DEF ReqOK, Und
<1>a. CASE s.avail = {}
  <2>1. Goto(q, Over) /\ Over.pc \notin Settled
    BY <1>a DEF Choose, Over, Idle, Settled
  <2> QED
    BY <2>1, UndVacuous
<1>b. CASE s.avail # {}
  <2>0. PICK a \in s.avail :
          Goto(q, CASE s.stale.ok /\ s.split.ok /\ s.stale.auth # s.split.auth
                         -> [s EXCEPT !.auth = a, !.pc = "mergePrimary"]
                    [] s.stale.ok /\ ~(s.split.ok /\ s.stale.auth # s.split.auth)
                         -> [s EXCEPT !.auth = a, !.pc = "rebind"]
                    [] ~s.stale.ok /\ s.split.ok
                         -> [s EXCEPT !.auth = a, !.pc = "rebind", !.at = s.fb,
                                      !.stale = s.split]
                    [] OTHER -> [s EXCEPT !.auth = a, !.pc = "bindLocked"])
    BY <1>b DEF Choose
  <2>1. CASE s.stale.ok /\ s.split.ok /\ s.stale.auth # s.split.auth
    <3> DEFINE r == [s EXCEPT !.auth = a, !.pc = "mergePrimary"]
    <3>1. Goto(q, r)
      BY <2>0, <2>1
    <3>2. r.pc \notin Settled
      BY <1>0 DEF ReqRec, Settled
    <3> HIDE DEF r
    <3> QED
      BY <3>1, <3>2, UndVacuous
  <2>2. CASE s.stale.ok /\ ~(s.split.ok /\ s.stale.auth # s.split.auth)
    <3> DEFINE r == [s EXCEPT !.auth = a, !.pc = "rebind"]
    <3>1. Goto(q, r)
      BY <2>0, <2>2
    <3>2. /\ r.pc = "rebind" /\ r.stale = s.stale /\ r.split = s.split /\ r.key = s.key
          /\ r.fb = s.fb /\ r.at = s.at
      BY <1>0 DEF ReqRec
    <3> HIDE DEF r
    <3>3. s.key \in s.stale.aliases
      BY <1>0, <2>2, ObservedLive
    <3>4. Twofold(r) \/ ~SecondGroup(r)
      <4>1. CASE s.split.ok
        BY <1>0, <2>2, <3>2, <4>1 DEF Twofold
      <4>2. CASE ~s.split.ok
        <5>1. s.fb # NoKey => ~Live(s.fb)
          BY <1>0, <4>2 DEF Und, Observed
        <5> QED
          BY <3>2, <3>3, <5>1 DEF SecondGroup
      <4> QED
        BY <4>1, <4>2
    <3>5. Und(r)
      BY <1>0, <2>2, <3>2, <3>4 DEF Und
    <3> QED
      BY <3>1, <3>5
  <2>3. CASE ~s.stale.ok /\ s.split.ok
    <3> DEFINE r == [s EXCEPT !.auth = a, !.pc = "rebind", !.at = s.fb, !.stale = s.split]
    <3>1. Goto(q, r)
      BY <2>0, <2>3
    <3>2. /\ r.pc = "rebind" /\ r.stale = s.split /\ r.split = s.split /\ r.key = s.key
          /\ r.fb = s.fb /\ r.at = s.fb
      BY <1>0 DEF ReqRec
    <3> HIDE DEF r
    <3>3. ~Live(s.key) /\ s.fb \in s.split.aliases
      BY <1>0, <1>1, <2>3, ObservedLive DEF Observed
    <3>4. Und(r)
      BY <1>1, <2>3, <3>2, <3>3 DEF Und, SecondGroup
    <3> QED
      BY <3>1, <3>4
  <2>4. CASE ~s.stale.ok /\ ~s.split.ok
    <3> DEFINE r == [s EXCEPT !.auth = a, !.pc = "bindLocked"]
    <3>1. Goto(q, r)
      BY <2>0, <2>4
    <3>2. r.pc \notin Settled
      BY <1>0 DEF ReqRec, Settled
    <3> HIDE DEF r
    <3> QED
      BY <3>1, <3>2, UndVacuous
  <2> QED
    BY <2>1, <2>2, <2>3, <2>4
<1> QED
  BY <1>a, <1>b

(* The observations an attempt starts with establish it. *)
LEMMA UndReobserve ==
  ASSUME Inv, NEW q \in Requests, Reobserve(q)
  PROVE  \E r : Goto(q, r) /\ Und(r)
<1> DEFINE s == req[q]
           g == Observed(s.at)
           n == [s EXCEPT !.stale = g, !.tries = @ + 1]
           r == [n EXCEPT !.pc = "rebind"]
<1>0. s \in ReqRec
  BY ReqFacts
<1>1. /\ n.stale = g /\ r.pc = "rebind" /\ r.stale = g /\ r.at = s.at
      /\ r.tries = s.tries + 1
  BY <1>0 DEF ReqRec
<1>2. (Goto(q, r) /\ g.ok) \/ Goto(q, Picked(n))
  BY <1>1 DEF Reobserve
<1>3. Picked(n).pc \notin Settled
  BY DEF Picked, Idle, Settled
<1>4. r.tries > 0
  <2>1. s.tries \in Nat
    BY <1>0 DEF ReqRec
  <2> HIDE DEF r
  <2> QED
    BY <1>1, <2>1
<1> HIDE DEF r, n
<1>5. g.ok => Und(r)
  BY <1>1, <1>4 DEF Und
<1> QED
  BY <1>2, <1>3, <1>5, UndVacuous

LEMMA UndMergePrimary ==
  ASSUME Inv, NEW q \in Requests, MergePrimary(q)
  PROVE  \E r : Goto(q, r) /\ Und(r)
<1> DEFINE s == req[q]
           r == [s EXCEPT !.stale = Observed(s.key), !.pc = "mergeFallback"]
<1>1. Goto(q, r)
  BY DEF MergePrimary
<1>2. r.pc = "mergeFallback" /\ r.stale = Observed(s.key) /\ r.key = s.key
  BY ReqFacts DEF ReqRec
<1> HIDE DEF r
<1>3. Und(r)
  BY <1>2 DEF Und, SeesPrimary
<1> QED
  BY <1>1, <1>3

LEMMA UndMergeFallback ==
  ASSUME Inv, NEW q \in Requests, MergeFallback(q), Und(req[q])
  PROVE  \E r : Goto(q, r) /\ Und(r)
<1> DEFINE s == req[q]
           g == Observed(s.fb)
           pc == IF DropsFallback(s, g) THEN "mergeDelete" ELSE "mergeReplace"
           r == [s EXCEPT !.split = g, !.pc = pc]
<1>1. s.pc = "mergeFallback" /\ Goto(q, r)
  BY DEF MergeFallback, At
<1>2. /\ r.pc = pc /\ r.stale = s.stale /\ r.split = g /\ r.key = s.key
      /\ r.fb = s.fb /\ r.auth = s.auth
  BY ReqFacts DEF ReqRec
<1> HIDE DEF r
<1>3. SeesPrimary(r)
  BY <1>1, <1>2 DEF Und, SeesPrimary
<1>4. Und(r)
  <2>1. CASE DropsFallback(s, g)
    <3>1. r.pc = "mergeDelete" /\ r.split = Observed(r.fb)
      BY <1>2, <2>1
    <3> QED
      BY <1>3, <3>1 DEF Und
  <2>2. CASE ~DropsFallback(s, g)
    <3>1. GivenSplit(r) \/ Unbound(r)
      BY <1>2, <2>2 DEF GivenSplit, Unbound, DropsFallback, Observed
    <3>2. r.pc = "mergeReplace"
      BY <1>2, <2>2
    <3> QED
      BY <1>3, <3>1, <3>2 DEF Und
  <2> QED
    BY <2>1, <2>2
<1> QED
  BY <1>1, <1>4

LEMMA UndDelete ==
  ASSUME Inv, NEW q \in Requests, MergeDelete(q), Und(req[q])
  PROVE  \E r : Goto(q, r) /\ r.pc = "mergeReplace" /\ Und(r)'
<1> DEFINE s == req[q]
           X == DroppedBy(s.split)
<1>r. PICK r : r = [s EXCEPT !.kept = @ \cup s.split.aliases, !.keptAuth = s.split.auth,
                            !.pc = "mergeReplace"]
  OBVIOUS
<1>0. /\ s.pc = "mergeDelete" /\ s \in ReqRec /\ s.key \in Keys /\ s.fb \in Keys /\ s.split.ok
      /\ s.split = Observed(s.fb) /\ SeesPrimary(s)
  BY ReqFacts DEF MergeDelete, At, ReqOK, NeedsFallback, Und
<1>1. Goto(q, r) /\ cache' = Erased(X)
  BY <1>0, <1>r, DropWorks DEF MergeDelete, Erases
<1>2. /\ r.pc = "mergeReplace" /\ r.stale = s.stale /\ r.split = s.split /\ r.key = s.key
      /\ r.fb = s.fb
  BY <1>0, <1>r DEF ReqRec
<1>3. X = s.split.aliases /\ s.fb \in X /\ X \subseteq Keys
  BY <1>0, ObservedLive DEF DroppedBy
<1>4. \A k \in X : cache'[k] = NoEntry
  BY <1>1, <1>3 DEF Erased
<1> HIDE DEF X
<1>5. SeesPrimary(r)' \/ Joined(r)
  <2>1. CASE s.key \in X
    BY <1>0, <1>2, <1>3, <2>1 DEF Joined
  <2>2. CASE s.key \notin X
    <3>1. cache'[s.key] = cache[s.key]
      BY <1>0, <1>1, <2>2 DEF Erased
    <3> QED
      BY <1>0, <1>2, <3>1 DEF SeesPrimary, Observed, Live
  <2> QED
    BY <2>1, <2>2
<1>6. Dropped(r)'
  BY <1>0, <1>2, <1>3, <1>4 DEF Dropped, Live, NoEntry
<1>7. Und(r)'
  BY <1>2, <1>5, <1>6 DEF Und, Joined
<1> QED
  BY <1>1, <1>2, <1>7

(* A compare-and-swap ends the attempt, won or lost. *)
LEMMA RetryLeaves ==
  ASSUME NEW r \in ReqRec
  PROVE  /\ Retry(r).pc \in {"mergePrimary", "restore", "picked"}
         /\ Retry(r).pc # "mergePrimary" => r.tries + 1 >= Tries
         /\ Retry(r).pc = "picked" => r.kept = {}
<1> DEFINE n == [r EXCEPT !.tries = @ + 1]
           again == [n EXCEPT !.pc = "mergePrimary"]
           undo == [n EXCEPT !.pc = "restore"]
<1>1. /\ n.tries = r.tries + 1 /\ n.kept = r.kept
      /\ again.pc = "mergePrimary" /\ undo.pc = "restore"
  BY DEF ReqRec
<1>2. Picked(n).pc = "picked"
  BY DEF Picked, Idle
<1>3. Retry(r) = IF n.tries < Tries THEN again ELSE IF n.kept # {} THEN undo ELSE Picked(n)
  BY DEF Retry
<1>4. r.tries \in Nat /\ Tries \in Nat
  BY DEF ReqRec, Tries
<1> HIDE DEF again, undo, n
<1>5. ~(r.tries + 1 < Tries) => r.tries + 1 >= Tries
  BY <1>4
<1> QED
  BY <1>1, <1>2, <1>3, <1>5

LEMMA SwapLeaves ==
  ASSUME Inv, NEW q \in Requests, Rebind(q) \/ MergeReplace(q)
  PROVE  \E r : Goto(q, r) /\ r.pc \notin Settled
<1> DEFINE s == req[q]
           r == [s EXCEPT !.pc = "reobserve"]
<1>0. s \in ReqRec
  BY ReqFacts
<1>1. Goto(q, r) \/ Goto(q, Picked(s)) \/ Goto(q, Retry(s))
  BY DEF Rebind, MergeReplace, Swap
<1>2. r.pc = "reobserve" /\ Picked(s).pc = "picked"
  BY <1>0 DEF ReqRec, Picked, Idle
<1>3. Retry(s).pc \in {"mergePrimary", "restore", "picked"}
  BY <1>0, RetryLeaves
<1> HIDE DEF r
<1> QED
  BY <1>1, <1>2, <1>3 DEF Settled

(* A request that holds bindMu, by the position it is at. *)
LEMMA UndInside ==
  ASSUME Inv, NEW q \in Requests, Holds(q), ~disturbed => Und(req[q]),
         Arrive(q) \/ PickStep(q) \/ ResultStep(q), ~disturbed'
  PROVE  \E r : Goto(q, r) /\ (r.pc \in Locked => Und(r)')
<1> DEFINE s == req[q]
           Goal == \E r : Goto(q, r) /\ (r.pc \in Locked => Und(r)')
<1>0. s.pc \in Locked /\ s \in ReqRec /\ ReqOK(s) /\ Inv'
  BY ReqFacts, RequestKeeps DEF Holds
<1>a. ASSUME NEW r, Goto(q, r), UNCHANGED cache, Und(r) PROVE Goal
  <2>1. ReqOK(r)
    <3>1. req'[q] = r
      BY <1>a, GotoOne
    <3> QED
      BY <1>0, <3>1 DEF Inv, TypeInv, ReqsOK
  <2> QED
    BY <1>a, <2>1, UndLocal
<1>b. ASSUME NEW r, Goto(q, r), r.pc \notin Settled PROVE Goal
  BY <1>b, UndVacuous
<1>1. \/ Recheck(q) \/ RecheckFallback(q) \/ BindLocked(q) \/ Observe(q) \/ ObserveFallback(q)
      \/ Choose(q) \/ Rebind(q) \/ Reobserve(q) \/ MergePrimary(q) \/ MergeFallback(q)
      \/ MergeDelete(q) \/ MergeReplace(q) \/ Restore(q)
  <2>1. PickStep(q)
    BY <1>0 DEF Arrive, ResultStep, Succeed, Check, Set, Neutral, Fail, Failed,
       FailedFallback, Invalidate, Quarantine, At, Locked
  <2> QED
    BY <1>0, <2>1, PickAt DEF At, Locked
<1>2. CASE Recheck(q) \/ RecheckFallback(q)
  <2>1. PICK a, r : Goto(q, r) /\ r \in {[s EXCEPT !.pc = "observe"],
                                        [s EXCEPT !.pc = "recheckFallback"],
                                        [s EXCEPT !.pc = "bindLocked", !.auth = a]}
    BY <1>2 DEF Recheck, RecheckFallback, Lookup, LookupFallback
  <2>2. r.pc \notin Settled
    BY <1>0, <2>1 DEF ReqRec, Settled
  <2> QED
    BY <1>b, <2>1, <2>2
<1>3. CASE BindLocked(q) \/ Restore(q)
  <2>1. Goto(q, Picked(s)) /\ Picked(s).pc \notin Settled
    BY <1>3 DEF BindLocked, SetBinding, Restore, Picked, Idle, Settled
  <2> QED
    BY <1>b, <2>1
<1>4. CASE Rebind(q) \/ MergeReplace(q)
  BY <1>b, <1>4, SwapLeaves
<1>5. CASE Observe(q)
  <2> DEFINE g == Observed(s.key)
  <2>1. PICK r : r = [s EXCEPT !.stale = g, !.at = s.key,
                        !.pc = IF s.fb = NoKey THEN "choose" ELSE "observeFallback"]
    OBVIOUS
  <2>2. Goto(q, r) /\ UNCHANGED cache
    BY <1>5, <2>1 DEF Observe
  <2>3. /\ r.pc = IF s.fb = NoKey THEN "choose" ELSE "observeFallback"
        /\ r.stale = g /\ r.at = s.key /\ r.key = s.key /\ r.fb = s.fb
    BY <1>0, <2>1 DEF ReqRec
  <2>4. Und(r)
    BY <2>3 DEF Und, SeesPrimary
  <2> QED
    BY <1>a, <2>2, <2>4
<1>6. CASE Reobserve(q)
  BY <1>a, <1>6, UndReobserve DEF Reobserve, StartsOver
<1>7. CASE MergePrimary(q)
  BY <1>a, <1>7, UndMergePrimary DEF MergePrimary, StartsOver
<1>8. CASE ObserveFallback(q) \/ Choose(q) \/ MergeFallback(q) \/ MergeDelete(q)
  <2>1. ~disturbed
    BY <1>0, <1>8 DEF ObserveFallback, Choose, MergeFallback, MergeDelete, Erases, Reads,
       Observes, Note, Holds
  <2>2. Und(s)
    BY <2>1
  <2>3. CASE ObserveFallback(q)
    <3> DEFINE g == Observed(s.fb)
               r == [s EXCEPT !.split = g, !.pc = "choose"]
    <3>1. Goto(q, r) /\ UNCHANGED cache /\ s.pc = "observeFallback"
      BY <2>3 DEF ObserveFallback, Observes, At
    <3>2. /\ r.pc = "choose" /\ r.split = g /\ r.stale = s.stale /\ r.at = s.at
          /\ r.key = s.key /\ r.fb = s.fb
      BY <1>0 DEF ReqRec
    <3> HIDE DEF r
    <3>3. Und(r)
      BY <2>2, <3>1, <3>2 DEF Und, SeesPrimary
    <3> QED
      BY <1>a, <3>1, <3>3
  <2>4. CASE Choose(q)
    BY <1>a, <2>2, <2>4, UndChoose DEF Choose, Reads
  <2>5. CASE MergeFallback(q)
    BY <1>a, <2>2, <2>5, UndMergeFallback DEF MergeFallback, Observes
  <2>6. CASE MergeDelete(q)
    BY <2>2, <2>6, UndDelete
  <2> QED
    BY <1>8, <2>3, <2>4, <2>5, <2>6
<1> QED
  BY <1>1, <1>2, <1>3, <1>4, <1>5, <1>6, <1>7, <1>8

(* The others tell the holder what they change of its keys. *)
LEMMA UndOthers ==
  ASSUME Inv, Undisturbed, ~disturbed', Disturb \/ UNCHANGED <<cache, disturbed>>,
         \A q \in Requests : Holds(q)' => Holds(q) /\ req'[q] = req[q]
  PROVE  Undisturbed'
<1> SUFFICES ASSUME NEW q \in Requests, Holds(q), req'[q] = req[q] PROVE Und(req[q])'
  BY DEF Undisturbed
<1>1. ~disturbed
  BY DEF Disturb
<1>2. \A k \in Keys : k \in WorksOn(req[q]) => cache'[k] = cache[k]
  BY DEF Disturb, Changed
<1>3. PICK r : r = req[q]
  OBVIOUS
<1>4. Und(r)'
  BY <1>1, <1>2, <1>3, UndLocal, ReqFacts DEF Undisturbed
<1> QED
  BY <1>3, <1>4

LEMMA UndStep == ASSUME Inv, Undisturbed, Next PROVE Undisturbed'
<1> SUFFICES ASSUME ~disturbed' PROVE Undisturbed'
  BY DEF Undisturbed
<1>1. ASSUME NEW p \in Requests, Arrive(p) \/ PickStep(p) \/ ResultStep(p) PROVE Undisturbed'
  <2>0. Inv'
    BY <1>1, RequestKeeps
  <2>1. CASE Holds(p)
    <3>1. PICK r : Goto(p, r) /\ (r.pc \in Locked => Und(r)')
      BY <1>1, <2>1, UndInside DEF Undisturbed
    <3>2. \A q \in Requests : req'[q] = IF q = p THEN r ELSE req[q]
      BY <3>1, GotoOne
    <3>3. \A q \in Requests : Holds(q)' => q = p
      BY <2>1, <3>2 DEF Inv, TypeInv, OneHolder, Holds
    <3> QED
      BY <3>1, <3>2, <3>3 DEF Undisturbed, Holds
  <2>2. CASE ~Holds(p) /\ TakesLock(p)
    <3>1. PICK r : r = [req[p] EXCEPT !.pc = "recheck"]
      OBVIOUS
    <3>2. r.pc = "recheck"
      BY <3>1, ReqFacts DEF ReqRec
    <3>3. \A q \in Requests : req'[q] = IF q = p THEN r ELSE req[q]
      BY <2>2, <3>1, GotoOne DEF TakesLock
    <3>4. \A q \in Requests : Holds(q)' => q = p
      BY <2>2, <3>3 DEF TakesLock, Lock, BindMuFree, Held, Holds
    <3> QED
      BY <3>2, <3>3, <3>4, UndVacuous DEF Undisturbed, Settled
  <2>3. ASSUME NEW r, ~Holds(p), StaysOut(p, r) PROVE Undisturbed'
    <3>1. \A q \in Requests : Holds(q)' => Holds(q) /\ req'[q] = req[q]
      <4> SUFFICES ASSUME NEW q \in Requests, Holds(q)' PROVE Holds(q) /\ req'[q] = req[q]
        OBVIOUS
      <4>1. req'[q] = IF q = p THEN r ELSE req[q]
        BY <2>3, GotoOne DEF StaysOut
      <4>2. q # p
        BY <2>3, <4>1 DEF StaysOut, Holds
      <4> QED
        BY <4>1, <4>2 DEF Holds
    <3>2. Disturb \/ UNCHANGED <<cache, disturbed>>
      BY <2>3 DEF StaysOut, Reads, Moves
    <3> QED
      BY <3>1, <3>2, UndOthers
  <2> QED
    BY <1>1, <2>1, <2>2, <2>3, Outside
<1>2. ASSUME NEW k \in Keys, Expire(k) PROVE Undisturbed'
  BY <1>2, UndOthers DEF Expire, Holds
<1>3. CASE CleanUp
  BY <1>3, UndOthers DEF CleanUp, Moves, Holds
<1>4. ASSUME NEW k \in Keys, NEW a \in Auths, QuarantineEnds(k, a) PROVE Undisturbed'
  BY <1>4, UndOthers DEF QuarantineEnds, Holds
<1>5. ASSUME NEW a \in Auths, InvalidateAuth(a) PROVE Undisturbed'
  BY <1>5, UndOthers DEF InvalidateAuth, Moves, Holds
<1> QED
  BY <1>1, <1>2, <1>3, <1>4, <1>5 DEF Next

LEMMA UndInvariant == Spec => [](Inv /\ Undisturbed)
<1>1. Init => Undisturbed
  BY DEF Init, Undisturbed, Holds, Idle, Locked
<1>2. Inv /\ [Next]_vars => Inv'
  BY StepKeeps, StutterKeeps
<1>3. Inv /\ Undisturbed /\ [Next]_vars => Undisturbed'
  <2>1. ASSUME Inv, Undisturbed, UNCHANGED vars PROVE Undisturbed'
    <3> SUFFICES ASSUME ~disturbed' PROVE Undisturbed'
      BY DEF Undisturbed
    <3> QED
      BY <2>1, UndOthers DEF vars, Holds
  <2> QED
    BY <2>1, UndStep
<1> QED
  BY InvInit, <1>1, <1>2, <1>3, PTL DEF Spec

LEMMA PickedAt ==
  ASSUME Inv, NEW q \in Requests, NEW r, Goto(q, Picked(r))
  PROVE  req'[q].pc = "picked"
<1>1. req'[q] = Picked(r)
  BY GotoOne
<1> QED
  BY <1>1 DEF Picked, Idle

(* The steps in which a merge or a rebind ends. *)
LEMMA EndsAttempt ==
  ASSUME Inv, [Next]_vars, NEW q \in Requests, NEW pc, pc \in {"reobserve", "mergePrimary",
         "restore", "picked"}, req'[q].pc = pc,
         req[q].pc \in {"rebind", "reobserve", "mergeDelete", "mergeReplace", "restore"},
         req[q].pc # pc
  PROVE  \/ Rebind(q) /\ At(q, "rebind")
         \/ Reobserve(q) /\ At(q, "reobserve")
         \/ MergeDelete(q) /\ At(q, "mergeDelete")
         \/ MergeReplace(q) /\ At(q, "mergeReplace")
         \/ Restore(q) /\ At(q, "restore")
<1>1. PickStep(q)
  BY OwnStep DEF Arrive, ResultStep, Succeed, Check, Set, Neutral, Fail, Failed,
     FailedFallback, Invalidate, Quarantine, At
<1> QED
  BY <1>1, PickAt DEF At

(* An attempt to move a group that nobody disturbed loses only to a binding *)
(* that compare-and-swap cannot move, in a rebind and in a merge.           *)
LEMMA RebindLoses ==
  ASSUME Inv, NEW q \in Requests, Rebind(q), Und(req[q]), req'[q].pc = "reobserve"
  PROVE  Immovable(req[q])
<1> DEFINE s == req[q]
<1>0. s.pc = "rebind"
  BY DEF Rebind, At
<1>1. PICK all \in Compacted(s.stale.aliases, Ids(q)) :
        (Unchanged(s.stale) /\ NoOtherGroup(s.stale, all)) => Goto(q, Picked(s))
  BY DEF Rebind, Swap
<1>2. ~Goto(q, Picked(s))
  BY PickedAt
<1> QED
  BY <1>0, <1>1, <1>2, RebindFails

LEMMA MergeLoses ==
  ASSUME Inv, NEW q \in Requests, MergeReplace(q), Und(req[q]),
         req'[q].pc # "picked" \/ cache' = cache
  PROVE  Immovable(req[q])
<1> DEFINE s == req[q]
<1>0. s.pc = "mergeReplace" /\ At(q, "mergeReplace")
  BY DEF MergeReplace, At
<1>p. Goto(q, Picked(s)) => req'[q].pc = "picked"
  BY PickedAt
<1>1. CASE ~s.stale.ok
  <2>1. cache' \in SetAliases(s.auth, Merged(s)) /\ Goto(q, Picked(s))
    BY <1>1 DEF MergeReplace, Writes
  <2> QED
    BY <1>0, <1>p, <2>1, MergeChanges
<1>2. CASE s.stale.ok
  <2>1. PICK all \in Compacted(s.stale.aliases, Merged(s)) :
          (Unchanged(s.stale) /\ NoOtherGroup(s.stale, all)) =>
             cache' = Replaced(s.auth, all, s.stale.aliases) /\ Goto(q, Picked(s))
    BY <1>2 DEF MergeReplace, Swap, Writes
  <2>2. CASE Unchanged(s.stale) /\ NoOtherGroup(s.stale, all)
    BY <1>0, <1>p, <2>1, <2>2, MergeChanges
  <2>3. CASE ~(Unchanged(s.stale) /\ NoOtherGroup(s.stale, all))
    BY <1>0, <1>2, <2>3, MergeFails
  <2> QED
    BY <2>2, <2>3
<1> QED
  BY <1>1, <1>2

LEMMA AttemptLoses ==
  ASSUME Inv, Undisturbed, [Next]_vars, NEW q \in Requests, Lost(q), ~disturbed
  PROVE  Immovable(req[q])
<1> DEFINE s == req[q]
<1>1. \/ s.pc = "rebind" /\ req'[q].pc = "reobserve"
      \/ /\ s.pc \in {"mergeDelete", "mergeReplace"}
         /\ \/ req'[q].pc \in {"mergePrimary", "restore"}
            \/ req'[q].pc = "picked" /\ cache' = cache
  BY DEF Lost, GaveUp, At
<1>2. Und(s)
  BY <1>1 DEF Undisturbed, Holds, Locked
<1>3. \/ Rebind(q) /\ At(q, "rebind")
      \/ MergeDelete(q) /\ At(q, "mergeDelete")
      \/ MergeReplace(q) /\ At(q, "mergeReplace")
  BY <1>1, EndsAttempt DEF At
<1>4. CASE Rebind(q) /\ At(q, "rebind")
  BY <1>1, <1>2, <1>4, RebindLoses DEF At
<1>5. CASE MergeDelete(q) /\ At(q, "mergeDelete")
  <2>1. PICK r : Goto(q, r) /\ r.pc = "mergeReplace"
    BY <1>2, <1>5, UndDelete
  <2>2. req'[q].pc = "mergeReplace"
    BY <2>1, GotoOne
  <2> QED
    BY <1>1, <1>5, <2>2 DEF At
<1>6. CASE MergeReplace(q) /\ At(q, "mergeReplace")
  BY <1>1, <1>2, <1>6, MergeLoses DEF At
<1> QED
  BY <1>3, <1>4, <1>5, <1>6

(* A Pick gives up after its last attempt, or when the group is gone. *)
LEMMA GivesUpLate ==
  ASSUME Inv, [Next]_vars, NEW q \in Requests, GaveUp(q)
  PROVE  req[q].tries = Tries - 1 \/ (At(q, "reobserve") /\ ~Live(req[q].at))
<1> DEFINE s == req[q]
<1>0. s \in ReqRec /\ ReqOK(s)
  BY ReqFacts
<1>1. s.pc \in {"reobserve", "mergeDelete", "mergeReplace"}
      /\ req'[q].pc \in {"restore", "picked"}
  BY DEF GaveUp, At
<1>2. \/ Reobserve(q) /\ At(q, "reobserve")
      \/ MergeDelete(q) /\ At(q, "mergeDelete")
      \/ MergeReplace(q) /\ At(q, "mergeReplace")
  BY <1>1, EndsAttempt DEF At
<1>3. s.tries \in Nat /\ s.tries < Tries /\ Tries = 3
  BY <1>0, <1>1 DEF ReqOK, ReqRec, Tries
<1>4. s.tries + 1 >= Tries => s.tries = Tries - 1
  BY <1>3
<1>5. CASE Reobserve(q) /\ At(q, "reobserve")
  <2> DEFINE n == [s EXCEPT !.stale = Observed(s.at), !.tries = @ + 1]
             r == [n EXCEPT !.pc = "rebind"]
  <2>1. /\ n.stale = Observed(s.at) /\ n.tries = s.tries + 1 /\ r.pc = "rebind"
    BY <1>0 DEF ReqRec
  <2>2. Goto(q, IF n.stale.ok /\ n.tries < Tries THEN r ELSE Picked(n))
    BY <1>5 DEF Reobserve
  <2> HIDE DEF r, n
  <2>3. ~(n.stale.ok /\ n.tries < Tries)
    BY <1>1, <2>1, <2>2, GotoOne
  <2>4. n.stale.ok \/ ~Live(s.at)
    BY <2>1 DEF Observed
  <2>5. n.tries < Tries \/ s.tries + 1 >= Tries
    BY <1>3, <2>1
  <2> QED
    BY <1>4, <1>5, <2>3, <2>4, <2>5
<1>6. CASE ~Reobserve(q)
  <2>1. Goto(q, Retry(s))
    <3>1. CASE MergeDelete(q) /\ At(q, "mergeDelete")
      <4> DEFINE r == [s EXCEPT !.kept = @ \cup s.split.aliases, !.keptAuth = s.split.auth,
                                !.pc = "mergeReplace"]
      <4>1. r.pc = "mergeReplace"
        BY <1>0 DEF ReqRec
      <4>2. Goto(q, r) \/ Goto(q, Retry(s))
        BY <3>1 DEF MergeDelete
      <4> HIDE DEF r
      <4>3. Goto(q, r) => req'[q] = r
        BY GotoOne
      <4> QED
        BY <1>1, <4>1, <4>2, <4>3
    <3>2. CASE MergeReplace(q) /\ At(q, "mergeReplace")
      <4>1. req'[q].pc = "picked" => cache' = cache
        BY <3>2 DEF GaveUp, At
      <4>2. CASE ~s.stale.ok
        <5>1. cache' \in SetAliases(s.auth, Merged(s)) /\ Goto(q, Picked(s))
          BY <3>2, <4>2 DEF MergeReplace, Writes
        <5>2. req'[q].pc = "picked"
          BY <5>1, PickedAt
        <5> QED
          BY <3>2, <4>1, <5>1, <5>2, MergeChanges
      <4>3. CASE s.stale.ok
        <5>1. PICK all \in Compacted(s.stale.aliases, Merged(s)) :
                \/ cache' = Replaced(s.auth, all, s.stale.aliases) /\ Goto(q, Picked(s))
                \/ Goto(q, Retry(s))
          BY <3>2, <4>3 DEF MergeReplace, Swap, Writes
        <5>2. Goto(q, Picked(s)) => req'[q].pc = "picked"
          BY PickedAt
        <5> QED
          BY <3>2, <4>1, <5>1, <5>2, MergeChanges
      <4> QED
        BY <4>2, <4>3
    <3> QED
      BY <1>2, <1>6, <3>1, <3>2
  <2>2. req'[q] = Retry(s)
    BY <2>1, GotoOne
  <2> QED
    BY <1>0, <1>1, <1>4, <2>2, RetryLeaves
<1>7. Reobserve(q) => At(q, "reobserve")
  BY DEF Reobserve
<1> QED
  BY <1>5, <1>6, <1>7

(* An attempt of Pick to move the groups of its session loses only to a     *)
(* writer that came after what the attempt observed, or to a binding that   *)
(* compare-and-swap cannot move (Immovable), in rebindAliasGroupCAS and in  *)
(* mergeSplitAliasGroupsCAS; and Pick gives up only after three attempts,   *)
(* or when the group it wanted to move is gone.                             *)
THEOREM AttemptsLoseToWriters == Spec => LosesToWriters
<1>1. Inv /\ Undisturbed /\ [Next]_vars =>
        [\A q \in Requests :
           /\ Lost(q) => disturbed \/ Immovable(req[q])
           /\ GaveUp(q) => \/ req[q].tries = Tries - 1
                           \/ At(q, "reobserve") /\ ~Live(req[q].at)]_vars
  BY AttemptLoses, GivesUpLate
<1> QED
  BY UndInvariant, <1>1, PTL DEF Spec, LosesToWriters

(* What a binding made of a set of identifiers keeps of them. *)
LEMMA MergedIsBound ==
  ASSUME Inv, NEW q \in Requests, MergeReplace(q), req'[q].pc = "picked",
         NEW k \in Merged(req[q]) \ Prompt, k \in Keys
  PROVE  cache'[k].live \/ req[q].kept = {}
<1> DEFINE s == req[q]
<1>1. ASSUME NEW a, NEW all, NEW S, k \in all, cache' = Replaced(a, all, S)
      PROVE  cache'[k].live
  BY <1>1 DEF Replaced
<1>2. CASE ~s.stale.ok
  <2>1. cache' \in SetAliases(s.auth, Merged(s))
    BY <1>2 DEF MergeReplace, Writes
  <2>2. PICK first \in Ordered(Merged(s)) :
          \E all \in Compacted(first, Gathered(Merged(s))) :
            cache' = Replaced(s.auth, all, Merged(s))
    BY <2>1 DEF SetAliases
  <2>3. PICK all \in Compacted(first, Gathered(Merged(s))) :
          cache' = Replaced(s.auth, all, Merged(s))
    BY <2>2
  <2>4. k \in first
    BY DEF Ordered
  <2>5. k \in all
    BY <2>4, CompactedBetween
  <2> QED
    BY <1>1, <2>3, <2>5
<1>3. CASE s.stale.ok
  <2>1. PICK all \in Compacted(s.stale.aliases, Merged(s)) :
          cache' = Replaced(s.auth, all, s.stale.aliases) \/ Goto(q, Retry(s))
    BY <1>3 DEF MergeReplace, Swap, Writes
  <2>2. k \in all
    BY <2>1 DEF Compacted
  <2>3. Goto(q, Retry(s)) => s.kept = {}
    BY GotoOne, ReqFacts, RetryLeaves
  <2> QED
    BY <1>1, <2>1, <2>2, <2>3
<1> QED
  BY <1>2, <1>3

(* A merge that dropped the fallback group (CompareAndDeleteGroup) leaves   *)
(* none of its identifiers unbound, whether it succeeds or gives up         *)
(* (retainedF, RestoreAliasesIfAbsent), but for prompt-cache keys and       *)
(* unless the fallback identifier was bound again between two attempts.     *)
THEOREM DroppedIdentifiersComeBack == Spec => DroppedComeBack
<1>1. ASSUME Inv, [Next]_vars, NEW q \in Requests, MergeEnds(q), Forgets(q)
      PROVE  At(q, "mergeReplace") /\ Overtaken(req[q])
  <2> DEFINE s == req[q]
  <2>0. s \in ReqRec /\ s.kept \subseteq Keys
    <3>1. s \in ReqRec
      BY <1>1, ReqFacts
    <3> QED
      BY <3>1 DEF ReqRec
  <2>1. s.pc \in {"mergeDelete", "mergeReplace", "restore"} /\ req'[q].pc = "picked"
    BY <1>1 DEF MergeEnds
  <2>2. PICK k \in s.kept \ Prompt : ~cache'[k].live
    BY <1>1 DEF Forgets
  <2>3. \/ MergeDelete(q) /\ At(q, "mergeDelete")
        \/ MergeReplace(q) /\ At(q, "mergeReplace")
        \/ Restore(q) /\ At(q, "restore")
    BY <1>1, <2>1, EndsAttempt DEF At
  <2>4. CASE MergeDelete(q) /\ At(q, "mergeDelete")
    <3> DEFINE r == [s EXCEPT !.kept = @ \cup s.split.aliases, !.keptAuth = s.split.auth,
                              !.pc = "mergeReplace"]
    <3>1. r.pc = "mergeReplace"
      BY <2>0 DEF ReqRec
    <3>2. Goto(q, r) \/ Goto(q, Retry(s))
      BY <2>4 DEF MergeDelete
    <3> HIDE DEF r
    <3>3. req'[q] = r \/ req'[q] = Retry(s)
      BY <1>1, <3>2, GotoOne
    <3> QED
      BY <2>0, <2>1, <2>2, <3>1, <3>3, RetryLeaves
  <2>5. CASE MergeReplace(q) /\ At(q, "mergeReplace")
    <3>1. k \notin Merged(s)
      BY <1>1, <2>0, <2>1, <2>2, <2>5, MergedIsBound
    <3> QED
      BY <2>2, <2>5, <3>1 DEF Merged, Overtaken
  <2>6. CASE Restore(q) /\ At(q, "restore")
    <3>1. CASE \A j \in s.kept : Live(j)
      BY <2>2, <2>6, <3>1 DEF Restore, Reads, Live
    <3>2. CASE ~\A j \in s.kept : Live(j)
      <4>1. cache' \in Restored(s.keptAuth, s.kept)
        BY <2>6, <3>2 DEF Restore, Writes
      <4>2. PICK all \in Ordered({j \in s.kept : ~Live(j)}) :
              cache' = [j \in Keys |-> IF j \in all
                THEN [auth |-> s.keptAuth, aliases |-> all, gen |-> NewGeneration,
                      live |-> TRUE] ELSE cache[j]]
        BY <4>1 DEF Restored
      <4>3. k \in all \/ Live(k)
        BY <2>2, <4>2 DEF Ordered
      <4> QED
        BY <2>0, <2>2, <4>2, <4>3 DEF Live
    <3> QED
      BY <3>1, <3>2
  <2> QED
    BY <2>3, <2>4, <2>5, <2>6
<1>2. Inv /\ [Next]_vars =>
        [\A q \in Requests : MergeEnds(q) /\ Forgets(q) =>
                               At(q, "mergeReplace") /\ Overtaken(req[q])]_vars
  BY <1>1
<1>3. Spec => []Inv
  BY UndInvariant, PTL
<1> QED
  BY <1>2, <1>3, PTL DEF Spec, DroppedComeBack

=============================================================================
