--------------------------- MODULE SessionAffinity ---------------------------
(***************************************************************************)
(* sdk/cliproxy/auth/session_cache.go and the SessionAffinitySelector of   *)
(* selector.go: requests of one session keep to one credential.  A session *)
(* is known by a primary and perhaps a fallback identifier; identifiers    *)
(* that turned out to be one session form a group with one binding.  Every *)
(* operation of the cache is one critical section of its mutex, but Pick   *)
(* and OnResult are several of them: the fast path of Pick and all of      *)
(* OnResult hold no other lock, the slow path of Pick holds bindMu and     *)
(* moves whole groups by compare-and-swap on a generation.                 *)
(*                                                                         *)
(* A key is a cache key (provider, identifier and model).  Alias lists are *)
(* sets: their order only decides which prompt-cache key survives when two *)
(* meet, which is left open here, and groups stay below the 64 aliases     *)
(* kept.  A group expires when no one refreshed it for the TTL; when that  *)
(* is, is left open too.  Which credentials are available to a request is  *)
(* decided outside.                                                        *)
(***************************************************************************)
EXTENDS Integers, FiniteSets

CONSTANTS
  Auths, NoAuth,
  Keys, NoKey,
  Prompt,        \* the prompt-cache keys: a group keeps one of them
  Sessions,      \* pairs <<primary, fallback>>, the fallback may be NoKey
  Requests,      \* each picks once and reports one result
  MaxGroups,     \* bound: groups that earlier requests left
  MaxLapses      \* bound: groups that expire

ASSUME KeysAssumption ==
  /\ NoAuth \notin Auths /\ NoKey \notin Keys /\ Prompt \subseteq Keys
  /\ Sessions \subseteq Keys \X ((Keys \ Prompt) \cup {NoKey})
  /\ IsFiniteSet(Keys) /\ IsFiniteSet(Requests)
  /\ MaxGroups \in Nat /\ MaxLapses \in Nat

Tries == 3   \* attempts of a rebind or a merge

VARIABLES
  cache,        \* entries: [auth, aliases, gen, live]; auth = NoAuth: no entry
  quarantine,   \* <<key, auth>>: failed for this session not long ago
  lapses,
  req,          \* the requests
  moved,        \* history: keys changed by others since the holder of bindMu
                \* last observed a group,
  disturbed     \* and whether they changed anything it works on since its
                \* attempt to move a group began

vars == <<cache, quarantine, lapses, req, moved, disturbed>>

NoEntry == [auth |-> NoAuth, aliases |-> {}, gen |-> 0, live |-> FALSE]
Entry   == [auth : Auths, aliases : SUBSET Keys, gen : Nat, live : BOOLEAN]
NoGroup == [ok |-> FALSE, auth |-> NoAuth, gen |-> 0, aliases |-> {}]
Group   == [ok : BOOLEAN, auth : Auths \cup {NoAuth}, gen : Nat, aliases : SUBSET Keys]

Fast   == {"look", "lookFallback", "bind", "lock"}
Locked == {"recheck", "recheckFallback", "bindLocked", "observe", "observeFallback",
           "choose", "rebind", "reobserve", "mergePrimary", "mergeFallback",
           "mergeDelete", "mergeReplace", "restore"}
Result == {"picked", "check", "set", "failed", "failedFallback", "invalidate",
           "quarantine"}

TypeOK ==
  /\ cache \in [Keys -> Entry \cup {NoEntry}]
  /\ lapses \in 0..MaxLapses
  /\ quarantine \subseteq Keys \X Auths
  /\ req \in [Requests ->
       [pc : {"idle", "over"} \cup Fast \cup Locked \cup Result,
        key : Keys \cup {NoKey}, fb : Keys \cup {NoKey},
        avail : SUBSET Auths, auth : Auths \cup {NoAuth},
        at : Keys \cup {NoKey}, stale : Group, split : Group, tries : 0..Tries,
        kept : SUBSET Keys, keptAuth : Auths \cup {NoAuth}, todo : SUBSET Keys]]
  /\ \A q \in Requests : req[q].pc \notin {"idle", "over"} => req[q].key # NoKey
  /\ moved \subseteq Keys /\ disturbed \in BOOLEAN
  /\ \A q, r \in Requests : req[q].pc \in Locked /\ req[r].pc \in Locked => q = r

Idle == [pc |-> "idle", key |-> NoKey, fb |-> NoKey, avail |-> {}, auth |-> NoAuth,
         at |-> NoKey, stale |-> NoGroup, split |-> NoGroup, tries |-> 0,
         kept |-> {}, keptAuth |-> NoAuth, todo |-> {}]

(* What earlier requests left: g numbers the groups, a has their bindings.  *)
Left(g, a) ==
  [k \in Keys |-> IF g[k] = 0 THEN NoEntry
                  ELSE [auth |-> a[g[k]], aliases |-> {j \in Keys : g[j] = g[k]},
                        gen |-> g[k], live |-> TRUE]]
Init ==
  /\ \E g \in [Keys -> 0..MaxGroups], a \in [1..MaxGroups -> Auths] :
       /\ \A j, k \in Prompt : g[j] = g[k] /\ g[j] # 0 => j = k
       /\ cache = Left(g, a)
  /\ quarantine = {} /\ lapses = 0
  /\ req = [q \in Requests |-> Idle]
  /\ moved = {} /\ disturbed = FALSE

-----------------------------------------------------------------------------
(* The cache. *)
Live(k) == cache[k].live

(* Generations grow and are compared for equality only: a new one is one    *)
(* that no entry has and nobody remembers.                                  *)
InUse == {cache[k].gen : k \in Keys} \cup
         UNION {{req[q].stale.gen, req[q].split.gen} : q \in Requests}
NewGeneration == CHOOSE n \in 1..(Cardinality(InUse) + 1) : n \notin InUse

(* compactSessionAliases of first followed by rest. *)
Compacted(first, rest) ==
  {first \cup (rest \ Prompt) \cup P :
     P \in IF first \cap Prompt # {} \/ rest \cap Prompt = {} THEN {{}}
           ELSE {{p} : p \in rest \cap Prompt}}
Ordered(S) == IF S \cap Prompt = {} THEN {S}
              ELSE {(S \ Prompt) \cup {p} : p \in S \cap Prompt}

Erased(S) == [k \in Keys |-> IF k \in S THEN NoEntry ELSE cache[k]]

(* removeAliasGroupLocked: the entries that are still of the group of e. *)
Members(e) == {k \in e.aliases : /\ cache[k].auth = e.auth /\ cache[k].live = e.live
                                 /\ cache[k].aliases = e.aliases}

(* replaceAliasGroupsLocked: the groups of the entries of S become one. *)
Replaced(auth, aliases, S) ==
  [k \in Keys |->
     IF k \in aliases
       THEN [auth |-> auth, aliases |-> aliases, gen |-> NewGeneration, live |-> TRUE]
       ELSE Erased(UNION {Members(cache[s]) : s \in S})[k]]

(* setAliasesUntil: the live groups of the identifiers are merged, expired  *)
(* ones removed.  first is what is kept of the identifiers themselves.      *)
Gathered(ids) == UNION {cache[k].aliases : k \in {j \in ids : Live(j)}}
SetAliases(auth, ids) ==
  {Replaced(auth, all, ids) :
     all \in UNION {Compacted(first, Gathered(ids)) : first \in Ordered(ids)}}

(* Get and GetAndRefresh remove a group found expired. *)
Expelled(k) == Erased(Members(cache[k]))
Refreshed(k) == Replaced(cache[k].auth, cache[k].aliases, {k})

(* GetWithGeneration *)
Observed(k) == IF Live(k) THEN [ok |-> TRUE, auth |-> cache[k].auth, gen |-> cache[k].gen,
                                aliases |-> cache[k].aliases]
               ELSE NoGroup

(* Invalidate *)
OnlyItself(k) == Erased({k})
Without(k) ==
  [j \in Keys |->
     CASE j = k -> NoEntry
       [] j # k /\ j \in cache[k].aliases /\ cache[j].auth = cache[k].auth
            -> [cache[j] EXCEPT !.aliases = @ \ {k}, !.gen = NewGeneration]
       [] OTHER -> cache[j]]

(* CompareAndDeleteGroup *)
SameAuth(k, g) == cache[k].auth = g.auth
SameGroup(k, g) == /\ cache[k].auth = g.auth /\ cache[k].gen = g.gen
                   /\ cache[k].aliases = g.aliases
DroppedBy(g) == {j \in g.aliases : cache[j].auth = g.auth /\ cache[j].aliases = g.aliases}

(* CompareAndReplaceAliases *)
Unchanged(g) == g.ok /\ \A k \in g.aliases : Live(k) /\ SameGroup(k, g)
NoOtherGroup(g, all) == \A k \in all \ g.aliases : ~Live(k)

(* RestoreAliasesIfAbsent *)
RestoredNone(auth, ids) == {cache}
Restored(auth, ids) ==
  {[k \in Keys |-> IF k \in all
      THEN [auth |-> auth, aliases |-> all, gen |-> NewGeneration, live |-> TRUE]
      ELSE cache[k]] : all \in Ordered({k \in ids : ~Live(k)})}

-----------------------------------------------------------------------------
(* Steps of a request.  The history of the holder of bindMu notes what the  *)
(* others change.                                                           *)
Holds(q)  == req[q].pc \in Locked
Held      == \E q \in Requests : Holds(q)
BindMuFree == ~Held
WorksOn(r) == r.stale.aliases \cup r.split.aliases \cup {r.key, r.fb}
Changed   == {k \in Keys : cache'[k] # cache[k]}
Disturb   == disturbed' = (disturbed \/ \E r \in Requests :
                             Holds(r) /\ Changed \cap WorksOn(req[r]) # {})
Moves     == moved' = (IF Held THEN moved \cup Changed ELSE moved) /\ Disturb
Note(q)   == IF Holds(q) THEN UNCHANGED <<moved, disturbed>> ELSE Moves
Writes(q, c) == cache' = c /\ Note(q)
Erases(q, S) == cache' = Erased(S) /\ Note(q)
Reads        == UNCHANGED <<cache, moved, disturbed>>
Observes(g)  == UNCHANGED <<cache, disturbed>> /\ moved' = moved \ g.aliases
StartsOver(g) == UNCHANGED cache /\ moved' = moved \ g.aliases /\ disturbed' = FALSE

Goto(q, r) == req' = [req EXCEPT ![q] = r] /\ UNCHANGED lapses
At(q, pc)  == req[q].pc = pc
Picked(r)  == [Idle EXCEPT !.pc = "picked", !.key = r.key, !.fb = r.fb, !.auth = r.auth]
Over       == [Idle EXCEPT !.pc = "over"]
Ids(q)     == {req[q].key, req[q].fb} \ {NoKey}

(* Pick begins: the credentials available, less those in quarantine. *)
Arrive(q) ==
  /\ At(q, "idle") /\ Reads /\ UNCHANGED quarantine
  /\ \E s \in Sessions, up \in SUBSET Auths \ {{}} :
       Goto(q, [Idle EXCEPT !.pc = "look", !.key = s[1], !.fb = s[2],
                  !.avail = {a \in up : /\ <<s[1], a>> \notin quarantine
                                        /\ <<s[2], a>> \notin quarantine}])

(* GetAndRefresh of the primary key, on the fast path and again under       *)
(* bindMu.                                                                  *)
Lookup(q, hit, missed, fallback) ==
  LET r == req[q] IN
    \/ /\ Live(r.key) /\ Writes(q, Refreshed(r.key))
       /\ Goto(q, IF cache[r.key].auth \in r.avail
                    THEN [r EXCEPT !.pc = hit, !.auth = cache[r.key].auth]
                    ELSE [r EXCEPT !.pc = missed])
    \/ /\ ~Live(r.key) /\ Erases(q, Members(cache[r.key]))
       /\ Goto(q, [r EXCEPT !.pc = IF r.fb = NoKey THEN missed ELSE fallback])
LookupFallback(q, hit, missed) ==
  LET r == req[q] IN
    \/ /\ Live(r.fb) /\ Reads
       /\ Goto(q, IF cache[r.fb].auth \in r.avail
                    THEN [r EXCEPT !.pc = hit, !.auth = cache[r.fb].auth]
                    ELSE [r EXCEPT !.pc = missed])
    \/ /\ ~Live(r.fb) /\ Erases(q, Members(cache[r.fb]))
       /\ Goto(q, [r EXCEPT !.pc = missed])
SetBinding(q, next) ==
  /\ \E c \in SetAliases(req[q].auth, Ids(q)) : Writes(q, c)
  /\ Goto(q, next)

Look(q)         == At(q, "look") /\ Lookup(q, "bind", "lock", "lookFallback")
LookFallback(q) == At(q, "lookFallback") /\ LookupFallback(q, "bind", "lock")
Bind(q)         == At(q, "bind") /\ SetBinding(q, Picked(req[q]))

Lock(q) ==
  /\ At(q, "lock") /\ BindMuFree /\ UNCHANGED cache
  /\ moved' = {} /\ disturbed' = FALSE
  /\ Goto(q, [req[q] EXCEPT !.pc = "recheck"])
Recheck(q) == At(q, "recheck") /\ Lookup(q, "bindLocked", "observe", "recheckFallback")
RecheckFallback(q) ==
  At(q, "recheckFallback") /\ LookupFallback(q, "bindLocked", "observe")
BindLocked(q) == At(q, "bindLocked") /\ SetBinding(q, Picked(req[q]))

(* Both groups are observed, then a credential is chosen. *)
Observe(q) ==
  /\ At(q, "observe") /\ UNCHANGED cache
  /\ moved' = {} /\ disturbed' = FALSE
  /\ Goto(q, [req[q] EXCEPT !.stale = Observed(req[q].key), !.at = req[q].key,
                !.pc = IF req[q].fb = NoKey THEN "choose" ELSE "observeFallback"])
ObserveFallback(q) ==
  /\ At(q, "observeFallback") /\ Observes(Observed(req[q].fb))
  /\ Goto(q, [req[q] EXCEPT !.split = Observed(req[q].fb), !.pc = "choose"])

Choose(q) ==
  LET r == req[q] IN
    /\ At(q, "choose") /\ Reads
    /\ \/ r.avail = {} /\ Goto(q, Over)
       \/ \E a \in r.avail :
            Goto(q, CASE r.stale.ok /\ r.split.ok /\ r.stale.auth # r.split.auth
                           -> [r EXCEPT !.auth = a, !.pc = "mergePrimary"]
                      [] r.stale.ok /\ ~(r.split.ok /\ r.stale.auth # r.split.auth)
                           -> [r EXCEPT !.auth = a, !.pc = "rebind"]
                      [] ~r.stale.ok /\ r.split.ok
                           -> [r EXCEPT !.auth = a, !.pc = "rebind", !.at = r.fb,
                                        !.stale = r.split]
                      [] OTHER -> [r EXCEPT !.auth = a, !.pc = "bindLocked"])

(* CompareAndReplaceAliases(g ..., more) for the credential chosen. *)
Swap(q, g, more, lost) ==
  LET r == req[q] IN
    \E all \in Compacted(g.aliases, more) :
      IF Unchanged(g) /\ NoOtherGroup(g, all)
        THEN /\ Writes(q, Replaced(r.auth, all, g.aliases))
             /\ Goto(q, Picked(r))
        ELSE Reads /\ Goto(q, lost)

(* rebindAliasGroupCAS *)
Rebind(q) ==
  At(q, "rebind") /\ Swap(q, req[q].stale, Ids(q), [req[q] EXCEPT !.pc = "reobserve"])
Reobserve(q) ==
  LET r == req[q]
      n == [r EXCEPT !.stale = Observed(r.at), !.tries = @ + 1] IN
    /\ At(q, "reobserve") /\ StartsOver(n.stale)
    /\ Goto(q, IF n.stale.ok /\ n.tries < Tries THEN [n EXCEPT !.pc = "rebind"]
               ELSE Picked(n))

(* mergeSplitAliasGroupsCAS *)
Retry(r) ==
  LET n == [r EXCEPT !.tries = @ + 1] IN
    IF n.tries < Tries THEN [n EXCEPT !.pc = "mergePrimary"]
    ELSE IF n.kept # {} THEN [n EXCEPT !.pc = "restore"] ELSE Picked(n)
MergePrimary(q) ==
  /\ At(q, "mergePrimary") /\ StartsOver(Observed(req[q].key))
  /\ Goto(q, [req[q] EXCEPT !.stale = Observed(req[q].key), !.pc = "mergeFallback"])
KeepsFallback(r, g) == FALSE
DropsFallback(r, g) == g.ok /\ g.auth # r.auth
MergeFallback(q) ==
  LET r == req[q]
      g == Observed(r.fb) IN
    /\ At(q, "mergeFallback") /\ Observes(g)
    /\ Goto(q, [r EXCEPT !.split = g,
                  !.pc = IF DropsFallback(r, g) THEN "mergeDelete" ELSE "mergeReplace"])
MergeDelete(q) ==
  LET r == req[q] IN
    /\ At(q, "mergeDelete")
    /\ IF SameGroup(r.fb, r.split)
         THEN /\ Erases(q, DroppedBy(r.split))
              /\ Goto(q, [r EXCEPT !.kept = @ \cup r.split.aliases,
                                   !.keptAuth = r.split.auth, !.pc = "mergeReplace"])
         ELSE Reads /\ Goto(q, Retry(r))
Merged(r) == (IF r.split.ok THEN r.split.aliases ELSE r.kept) \cup {r.key, r.fb}
MergeReplace(q) ==
  LET r == req[q] IN
    /\ At(q, "mergeReplace")
    /\ \/ r.stale.ok /\ Swap(q, r.stale, Merged(r), Retry(r))
       \/ /\ ~r.stale.ok
          /\ \E c \in SetAliases(r.auth, Merged(r)) : Writes(q, c)
          /\ Goto(q, Picked(r))
Restore(q) ==
  LET r == req[q] IN
    /\ At(q, "restore") /\ Goto(q, Picked(r))
    /\ IF \A k \in r.kept : Live(k) THEN Reads
       ELSE \E c \in Restored(r.keptAuth, r.kept) : Writes(q, c)

-----------------------------------------------------------------------------
(* OnResult, under no lock but the cache's own. *)
Succeed(q) ==
  /\ At(q, "picked")
  /\ IF req[q].fb # NoKey THEN SetBinding(q, Over)
     ELSE Reads /\ Goto(q, [req[q] EXCEPT !.pc = "check"])
Check(q) ==
  LET r == req[q] IN
    /\ At(q, "check")
    /\ IF Live(r.key) THEN Reads ELSE Erases(q, Members(cache[r.key]))
    /\ Goto(q, IF Live(r.key) /\ cache[r.key].auth # r.auth
                 THEN Over ELSE [r EXCEPT !.pc = "set"])
Set(q) == At(q, "set") /\ SetBinding(q, Over)

(* Failures that do not count against the credential change nothing. *)
Neutral(q) == At(q, "picked") /\ Reads /\ Goto(q, Over)

Fail(q) ==
  /\ At(q, "picked") /\ Reads /\ Goto(q, [req[q] EXCEPT !.pc = "failed"])
Condemn(q, k, otherwise) ==
  LET r == req[q] IN
    /\ Reads
    /\ Goto(q, IF Live(k) /\ cache[k].auth = r.auth
                 THEN [r EXCEPT !.pc = "invalidate", !.at = k, !.todo = cache[k].aliases]
                 ELSE [r EXCEPT !.pc = otherwise, !.todo = Ids(q)])
Failed(q) ==
  At(q, "failed") /\ Condemn(q, req[q].key, IF req[q].fb = NoKey THEN "quarantine"
                                            ELSE "failedFallback")
FailedFallback(q) == At(q, "failedFallback") /\ Condemn(q, req[q].fb, "quarantine")
Invalidate(q) ==
  LET r == req[q] IN
    /\ At(q, "invalidate") /\ Goto(q, [r EXCEPT !.pc = "quarantine"])
    /\ IF cache[r.at].auth = NoAuth THEN Reads ELSE Writes(q, Without(r.at))
Quarantine(q) ==
  LET r == req[q] IN
    /\ At(q, "quarantine") /\ Reads
    /\ \E k \in r.todo :
         /\ quarantine' = quarantine \cup {<<k, r.auth>>}
         /\ Goto(q, IF r.todo = {k} THEN Over ELSE [r EXCEPT !.todo = @ \ {k}])

-----------------------------------------------------------------------------
(* By themselves, or for a credential that was removed. *)
Expire(k) ==
  /\ Live(k) /\ lapses < MaxLapses /\ lapses' = lapses + 1
  /\ cache' = [j \in Keys |-> IF j \in Members(cache[k])
                                THEN [cache[j] EXCEPT !.live = FALSE] ELSE cache[j]]
  /\ Disturb /\ UNCHANGED <<quarantine, req, moved>>
CleanUp ==
  /\ \E k \in Keys : cache[k].auth # NoAuth /\ ~Live(k)
  /\ cache' = Erased({k \in Keys : ~Live(k)})
  /\ Moves /\ UNCHANGED <<quarantine, lapses, req>>
QuarantineEnds(k, a) ==
  /\ <<k, a>> \in quarantine /\ quarantine' = quarantine \ {<<k, a>>}
  /\ UNCHANGED <<cache, lapses, req, moved, disturbed>>
InvalidateAuth(a) ==
  /\ \E k \in Keys : cache[k].auth = a
  /\ cache' = Erased({k \in Keys : cache[k].auth = a})
  /\ quarantine' = {e \in quarantine : e[2] # a}
  /\ Moves /\ UNCHANGED <<lapses, req>>

PickStep(q) ==
  /\ \/ Look(q) \/ LookFallback(q) \/ Bind(q) \/ Lock(q) \/ Recheck(q)
     \/ RecheckFallback(q) \/ BindLocked(q) \/ Observe(q) \/ ObserveFallback(q)
     \/ Choose(q) \/ Rebind(q) \/ Reobserve(q) \/ MergePrimary(q) \/ MergeFallback(q)
     \/ MergeDelete(q) \/ MergeReplace(q) \/ Restore(q)
  /\ UNCHANGED quarantine
ResultStep(q) ==
  \/ /\ \/ Succeed(q) \/ Check(q) \/ Set(q) \/ Neutral(q) \/ Fail(q) \/ Failed(q)
        \/ FailedFallback(q) \/ Invalidate(q)
     /\ UNCHANGED quarantine
  \/ Quarantine(q)

Next ==
  \/ \E q \in Requests : Arrive(q) \/ PickStep(q) \/ ResultStep(q)
  \/ \E k \in Keys : Expire(k) \/ \E a \in Auths : QuarantineEnds(k, a)
  \/ CleanUp \/ \E a \in Auths : InvalidateAuth(a)

Spec == Init /\ [][Next]_vars

-----------------------------------------------------------------------------
(* Properties. *)

(* A live entry names itself and only live entries of the same credential   *)
(* and the same aliases: an identifier belongs to one group, and whatever   *)
(* moves, fails or expires takes all of a group with it.                    *)
GroupsClosed ==
  \A k \in Keys : Live(k) =>
    /\ k \in cache[k].aliases
    /\ \A j \in cache[k].aliases : /\ Live(j) /\ cache[j].auth = cache[k].auth
                                   /\ cache[j].aliases = cache[k].aliases

(* A compare-and-swap that succeeds moves the group as it was observed:     *)
(* nobody has refreshed, extended, shrunk or moved any of it since.  One    *)
(* that deletes a group looks at one entry, and nobody has changed that.    *)
Swapped(q) == /\ At(q, "rebind") \/ (At(q, "mergeReplace") /\ req[q].stale.ok)
              /\ req'[q].pc = "picked" /\ cache' # cache
Deleted(q) == At(q, "mergeDelete") /\ req'[q].pc = "mergeReplace"
StaleLoses ==
  [][\A q \in Requests : /\ Swapped(q) => moved \cap req[q].stale.aliases = {}
                         /\ Deleted(q) => req[q].fb \notin moved]_vars

(* An attempt of a Pick to move the groups of its session loses, at each of *)
(* the compare-and-swaps of rebindAliasGroupCAS and                         *)
(* mergeSplitAliasGroupsCAS, and the Pick gives up.                         *)
GaveUp(q) ==
  \/ At(q, "reobserve") /\ req'[q].pc = "picked"
  \/ /\ req[q].pc \in {"mergeDelete", "mergeReplace"}
     /\ req'[q].pc = "restore" \/ (req'[q].pc = "picked" /\ cache' = cache)
Lost(q) ==
  \/ At(q, "rebind") /\ req'[q].pc = "reobserve"
  \/ /\ req[q].pc \in {"mergeDelete", "mergeReplace"}
     /\ req'[q].pc = "mergePrimary" \/ GaveUp(q)

\* The entries of the group have two generations (an Invalidate did that).
Torn(g) == \E k \in g.aliases : Live(k) /\ cache[k].gen # g.gen
\* The session's other identifier has a group of its own, which a rebind does
\* not take over: from the start, or since another request bound it during an
\* attempt that was lost.
SecondGroup(r) == \E k \in {r.key, r.fb} \ {NoKey} : Live(k) /\ k \notin r.stale.aliases
Twofold(r)     == r.at = r.key /\ r.split.ok /\ r.stale.auth = r.split.auth
\* A merge drops the fallback group only for another credential.
GivenSplit(r) == r.split.ok /\ r.split.auth = r.auth
\* What it dropped has been bound again, or what it dropped was its primary
\* group too, since another request had merged the two.
Retaken(r) == ~r.split.ok /\ \E k \in r.kept : Live(k) /\ k \notin r.stale.aliases
Joined(r)  == r.split.ok /\ r.key \in r.split.aliases
Immovable(r) ==
  \/ Torn(r.stale)
  \/ r.pc = "rebind" /\ SecondGroup(r) /\ (Twofold(r) \/ r.tries > 0)
  \/ r.pc = "mergeReplace" /\ (GivenSplit(r) \/ Retaken(r) \/ Joined(r))

(* "When the compare-and-swap loses to a concurrent writer, the group is    *)
(* re-observed and the binding retried (bounded)": an attempt loses only to *)
(* a writer that came after its own observation, or to a binding that       *)
(* compare-and-swap cannot move, and a Pick gives up only after three such  *)
(* attempts, or when the group it wanted to move is gone.                   *)
LosesToWriters ==
  [][\A q \in Requests :
       /\ Lost(q) => disturbed \/ Immovable(req[q])
       /\ GaveUp(q) => \/ req[q].tries = Tries - 1
                       \/ At(q, "reobserve") /\ ~Live(req[q].at)]_vars

(* A merge that dropped the fallback group leaves none of its identifiers   *)
(* unbound, whether it succeeds or gives up, but for the prompt-cache keys  *)
(* that compaction drops, and unless the fallback identifier was bound      *)
(* again between two attempts (retainedF, RestoreAliasesIfAbsent).          *)
Overtaken(r) == r.split.ok /\ ~(r.kept \subseteq r.split.aliases)
MergeEnds(q) == req[q].pc \in {"mergeDelete", "mergeReplace", "restore"} /\ req'[q].pc = "picked"
Forgets(q)   == \E k \in req[q].kept \ Prompt : ~cache'[k].live
DroppedComeBack ==
  [][\A q \in Requests : MergeEnds(q) /\ Forgets(q) =>
                           At(q, "mergeReplace") /\ Overtaken(req[q])]_vars

(* What the comments say of rebindAliasGroupCAS, of                         *)
(* mergeSplitAliasGroupsCAS ("reconciles two split session alias groups ... *)
(* into a single group ... retried with fresh observation when a concurrent *)
(* writer invalidates the expectations") and of retainedF ("permanently     *)
(* dropping the fallback group's historical aliases"), without the          *)
(* exceptions above.  The code keeps none of the three: TLC finds each      *)
(* violated, the first two by one request alone (SessionAffinity_split.cfg) *)
(* and the third on the instance of SessionAffinity.cfg.                    *)
RebindsLoseToWriters ==
  [][\A q \in Requests : At(q, "rebind") /\ Lost(q) => disturbed \/ Torn(req[q].stale)]_vars
MergesLoseToWriters ==
  [][\A q \in Requests : ~At(q, "rebind") /\ Lost(q) => disturbed \/ Torn(req[q].stale)]_vars
MergesKeepAliases ==
  [][\A q \in Requests : ~(MergeEnds(q) /\ Forgets(q))]_vars
=============================================================================
