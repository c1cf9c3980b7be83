--------------------------- MODULE ResponseCache ---------------------------
(***************************************************************************)
(* cacheMiddleware in front of two routes: GET /arenas/:id/stats, whose    *)
(* entry lives for ARENA_STATS seconds and is dropped when a round is      *)
(* resolved, and GET /oracle/yield, whose handler and webhook use the key  *)
(* of the middleware itself as their store.                                *)
(*                                                                         *)
(* The two keys share nothing, so a behaviour is about one of them. The    *)
(* tables are a version number. Time is counted in ticks.                  *)
(***************************************************************************)
EXTENDS Integers, FiniteSets

CONSTANTS
    CacheReaders,        \* GET requests served at a time
    TTL,            \* life of an entry, in ticks
    LoadTicks,      \* bound of the model: ticks a handler may take
    MaxVersion,     \* bound of the model: resolutions, and yields posted
    MaxTime         \* bound of the model: ticks

ASSUME CacheConstants == TTL \in Nat \ {0} /\ LoadTicks \in Nat

NoEntry == [body |-> "none"]
Routes == {"stats", "yield"}

VARIABLES
    route,          \* the route of this behaviour
    now,
    replaced,       \* the tick each version of the tables was replaced at
    cacheEntry,     \* what Redis holds under the route's key: [body, left], left = 0
                    \* for a value without expiry
    reader,         \* what each GET is doing
    resolution,     \* what a resolution has left to do: "none" or "invalidate"
    yields          \* yields posted by the webhook

cacheVars == <<route, now, replaced, cacheEntry, reader, resolution, yields>>

Version == Cardinality(DOMAIN replaced)
Stats(v) == [kind |-> "stats", version |-> v]
Yield(n) == [kind |-> "yield", version |-> n]     \* Yield(0) is DEFAULT_YIELD
Failure == [kind |-> "error"]

CacheInit ==
    /\ route \in Routes
    /\ now = 0
    /\ replaced = [v \in {} |-> 0]
    /\ cacheEntry = NoEntry
    /\ reader = [g \in CacheReaders |-> [at |-> "idle"]]
    /\ resolution = "none"
    /\ yields = 0


\* What a tick leaves of an entry.
Kept(entry) ==
    IF entry = NoEntry \/ entry.left = 0 THEN entry
    ELSE IF entry.left = 1 THEN NoEntry ELSE [entry EXCEPT !.left = @ - 1]

Tick ==
    /\ now < MaxTime
    /\ \A g \in CacheReaders : reader[g].at \in {"load", "store"} => now - reader[g].since < LoadTicks
    /\ now' = now + 1
    /\ cacheEntry' = Kept(cacheEntry)
    /\ UNCHANGED <<route, replaced, reader, resolution, yields>>

\* The tables change, then invalidateArenaStats drops the entry, or fails.
Commit ==
    /\ route = "stats" /\ resolution = "none" /\ Version < MaxVersion
    /\ replaced' = [v \in DOMAIN replaced \cup {Version} |->
                        IF v = Version THEN now ELSE replaced[v]]
    /\ resolution' = "invalidate"
    /\ UNCHANGED <<route, now, cacheEntry, reader, yields>>

Invalidate ==
    /\ resolution = "invalidate"
    /\ resolution' = "none"
    /\ cacheEntry' \in {cacheEntry, NoEntry}
    /\ UNCHANGED <<route, now, replaced, reader, yields>>

\* A hit is answered with the cached body and the status 200. A miss, and a get
\* that fails, go on to the handler.
Get(g) ==
    /\ reader[g].at = "idle"
    /\ \/ /\ cacheEntry # NoEntry
          /\ reader' = [reader EXCEPT ![g] =
                 [at |-> "answered", status |-> 200, body |-> cacheEntry.body, tick |-> now]]
       \/ reader' = [reader EXCEPT ![g] =
                 [at |-> "load", since |-> now]]
    /\ UNCHANGED <<route, now, replaced, cacheEntry, resolution, yields>>

\* The handler reads. The oracle's handler reads the very key that was just missed.
Answers ==
    IF route = "stats" THEN {[status |-> 200, body |-> Stats(Version)]}
    ELSE {[status |-> 200,
           body |-> IF cacheEntry = NoEntry THEN Yield(0) ELSE cacheEntry.body]}

Load(g) ==
    /\ reader[g].at = "load"
    /\ \E answer \in Answers \cup
                     {[status |-> status, body |-> Failure] : status \in {404, 500}} :
           reader' = [reader EXCEPT ![g] =
               [at |-> "store", since |-> reader[g].since,
                status |-> answer.status, body |-> answer.body]]
    /\ UNCHANGED <<route, now, replaced, cacheEntry, resolution, yields>>

\* Mutant of Entry: the entry is set without an expiry, as the webhook does.
EntryForEver(body) == [body |-> body, left |-> 0]

\* cache.set(key, body, ttlSeconds)
Entry(body) == [body |-> body, left |-> TTL]

\* res.json, also the error handler's: the body is set under the key in the
\* background, without its status, and may fail to be.
Store(g) ==
    /\ reader[g].at = "store"
    /\ cacheEntry' \in {cacheEntry, Entry(reader[g].body)}
    /\ reader' = [reader EXCEPT ![g] = [at |-> "answered", status |-> reader[g].status,
                      body |-> reader[g].body, tick |-> now]]
    /\ UNCHANGED <<route, now, replaced, resolution, yields>>

Leave(g) ==
    /\ reader[g].at = "answered"
    /\ reader' = [reader EXCEPT ![g] = [at |-> "idle"]]
    /\ UNCHANGED <<route, now, replaced, cacheEntry, resolution, yields>>

Posted(n) == [body |-> Yield(n), left |-> 0]

\* POST /oracle/yield, its signature verified: redis.set without an expiry.
PostYield ==
    /\ route = "yield" /\ yields < MaxVersion
    /\ yields' = yields + 1
    /\ cacheEntry' = Posted(yields + 1)
    /\ UNCHANGED <<route, now, replaced, reader, resolution>>

CacheNext ==
    \/ Tick \/ Commit \/ Invalidate \/ PostYield
    \/ \E g \in CacheReaders : Get(g) \/ Load(g) \/ Store(g) \/ Leave(g)

CacheSpec == CacheInit /\ [][CacheNext]_cacheVars
-----------------------------------------------------------------------------
\* The statistics somebody is given were those of the tables at most a TTL and a
\* load ago, although entries are stored late, invalidations fail, and readers race
\* the resolution.
StatsBoundedlyStale ==
    \A g \in CacheReaders :
        reader[g].at = "answered" /\ reader[g].body.kind = "stats" =>
            LET v == reader[g].body.version
            IN  v \in DOMAIN replaced => reader[g].tick - replaced[v] <= TTL + LoadTicks
=============================================================================
