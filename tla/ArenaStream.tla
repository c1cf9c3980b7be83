----------------------------- MODULE ArenaStream -----------------------------
(***************************************************************************)
(* The live view of an arena: the poller that reads its snapshot through   *)
(* the Soroban circuit breaker and fans it out over server-sent events, and *)
(* the page's useArenaStream, which connects, reconnects and replaces a    *)
(* connection that has gone quiet.                                         *)
(*                                                                         *)
(* The server hears of the end of a connection some time after the page    *)
(* left it. Delays are abstracted: a timer that is set goes off some time. *)
(* Until Heal, calls fail and connections break.                           *)
(***************************************************************************)
EXTENDS Integers, Sequences, SequencesExt, FiniteSets

CONSTANTS
    Clients,
    Players,        \* number of players of the arena
    Volume,         \* volumeThreshold of the breaker
    MaxLead         \* bound of the model: failures ahead of successes, or behind

VARIABLES
    players,
    out,            \* players eliminated, as the tables have it
    healthy,        \* calls succeed and connections hold from now on
    breaker,        \* [state, total, lead, rested], see CircuitBreaker below
    poller,         \* the entry of the map pollers: [subscribers, loops, last, seen],
                    \* a subscriber being [client, open]
    orphans,        \* polls in flight of entries that are no longer in the map
    client          \* useArenaStream of each page: [status, retry, snapshot, feed]

streamVars == <<players, out, healthy, breaker, poller, orphans, client>>

NoPoller == [subscribers |-> <<>>, loops |-> <<>>, last |-> "none", seen |-> 0]
Away == [status |-> "idle", retry |-> FALSE, snapshot |-> "none", feed |-> <<>>]

\* A page that comes back is another client.
Gone == [Away EXCEPT !.status = "left"]

\* Bound of the model: where calls fail, the arena has one player.
StreamInit ==
    /\ \/ players = 1 /\ healthy = FALSE
       \/ players = Players /\ healthy = TRUE
    /\ out = 0
    /\ breaker = [state |-> "closed", total |-> 0, lead |-> 0, rested |-> FALSE]
    /\ poller = NoPoller
    /\ orphans = 0
    /\ client = [c \in Clients |-> Away]

-----------------------------------------------------------------------------
\* The arena. Eliminated players are numbered in the order they are logged.

ResolveRound ==
    /\ out < players - 1
    /\ out' = out + 1
    /\ UNCHANGED <<players, healthy, breaker, poller, orphans, client>>

Heal ==
    /\ ~healthy
    /\ healthy' = TRUE
    /\ UNCHANGED <<players, out, breaker, poller, orphans, client>>

\* getOnChainPlayerCount answers 0 for a call that fails.
PlayerCounts == {players} \cup (IF healthy THEN {} ELSE {0})

\* getSnapshot: the eliminations, and whether the survivors that getArenaStats counts
\* make the poller take the game for finished. No round is ever SETTLED, so the status
\* does not.
Snapshots == {[out |-> out, finished |-> count - out <= 1] : count \in PlayerCounts}

-----------------------------------------------------------------------------
\* CircuitBreaker. Only total >= Volume and failures >= successes matter of its
\* counters, so they are kept as a capped total and a lead of the failures.

Capped(i) == IF i > MaxLead THEN MaxLead ELSE IF i < -MaxLead THEN -MaxLead ELSE i
Counted(b, d) ==
    [b EXCEPT !.total = IF @ < Volume THEN @ + 1 ELSE @, !.lead = Capped(@ + d)]

onSuccess(b) ==
    IF b.state = "half-open"
    THEN [b EXCEPT !.state = "closed", !.total = 0, !.lead = 0] ELSE Counted(b, -1)

onFailure(b) ==
    LET c == [Counted(b, 1) EXCEPT !.rested = FALSE]
    IN  IF c.total >= Volume /\ c.lead >= 0 THEN [c EXCEPT !.state = "open"] ELSE c

\* Mutant of Rejects: an open circuit is never tried again.
RejectsForGood(b) == b.state = "open"

\* fire, up to the call
Rejects(b) == b.state = "open" /\ ~b.rested
Fired(b) == IF b.state = "open" THEN [b EXCEPT !.state = "half-open"] ELSE b

\* resetTimeout has passed since lastFailureTime
Rest ==
    /\ breaker.state = "open" /\ ~breaker.rested
    /\ breaker' = [breaker EXCEPT !.rested = TRUE]
    /\ UNCHANGED <<players, out, healthy, poller, orphans, client>>

-----------------------------------------------------------------------------
\* useArenaStream.

\* Bound of the model: a page connects again when the server has heard of the end of
\* its earlier connections.
Closed(c) == {i \in DOMAIN poller.subscribers :
                 poller.subscribers[i] = [client |-> c, open |-> FALSE]}

\* sourceRef.current.close(), or the end of a connection that broke
CloseSource(c) ==
    poller' = [poller EXCEPT !.subscribers = [i \in DOMAIN @ |->
                   IF @[i].client = c THEN [@[i] EXCEPT !.open = FALSE] ELSE @[i]]]

HasSource(page) == page.status \in {"connecting", "connected"}

\* Mutant of scheduleReconnect: the timer is not set.
reconnectNever(page) == [page EXCEPT !.status = "reconnecting"]

scheduleReconnect(page) == [page EXCEPT !.status = "reconnecting", !.retry = TRUE]

\* connect: the old source is closed, a new one opened.
connect(c, page) ==
    /\ Closed(c) = {}
    /\ client' = [client EXCEPT ![c] = [page EXCEPT !.status = "connecting"]]
    /\ CloseSource(c)
    /\ UNCHANGED <<players, out, healthy, breaker, orphans>>

Mount(c) == client[c] = Away /\ connect(c, client[c])

\* The cleanup of the effect
Unmount(c) ==
    /\ client[c] \notin {Away, Gone}
    /\ client' = [client EXCEPT ![c] = Gone]
    /\ CloseSource(c)
    /\ UNCHANGED <<players, out, healthy, breaker, orphans>>

\* onerror of a connection that breaks
Break(c) ==
    /\ ~healthy /\ HasSource(client[c])
    /\ client' = [client EXCEPT ![c] = scheduleReconnect(@)]
    /\ CloseSource(c)
    /\ UNCHANGED <<players, out, healthy, breaker, orphans>>

Retry(c) == client[c].retry /\ connect(c, [client[c] EXCEPT !.retry = FALSE])

\* No event for STALE_CONNECTION_MS, which an arena where nothing happens comes to as
\* well: no listener hears the server's "__heartbeat". A reconnection that is due
\* stays due.
Watchdog(c) ==
    /\ client[c].status \in IF healthy THEN {"connected"}
                             ELSE {"connected", "connecting", "reconnecting"}
    /\ connect(c, client[c])

-----------------------------------------------------------------------------
\* The events, as a page handles them. The i-th subscriber is sent those of the
\* eliminations only if it is the first: it marks them seen for all.

\* The newest, with the highest number, first.
Feed(ids) ==
    CHOOSE feed \in [1..Cardinality(ids) -> ids] :
        \A i, j \in DOMAIN feed : i < j => feed[i] > feed[j]

\* Of the snapshot a page keeps whether it has one, and whether the game is shown as
\* settled.

\* Mutant of OnSnapshot: the eliminations are left in the order of the logs.
OnSnapshotUnsorted(page, snap) ==
    [page EXCEPT !.snapshot = "live", !.feed = SetToSortSeq(1..snap.out, <)]

OnSnapshot(page, snap) == [page EXCEPT !.snapshot = "live", !.feed = Feed(1..snap.out)]

OnEliminations(page, ids) == [page EXCEPT !.feed = Feed(ids \ ToSet(@)) \o @]

\* game_finished does nothing to a page without a snapshot.
OnFinished(page) ==
    IF page.snapshot = "none" THEN page ELSE [page EXCEPT !.snapshot = "settled"]

\* What the poll that read snap sends the i-th subscriber.
Told(page, i, snap) ==
    IF poller.last = "none" THEN OnSnapshot(page, snap)
    ELSE LET eliminated == IF i = 1 THEN OnEliminations(page, (1..snap.out) \ (1..poller.seen))
                           ELSE page
         IN  IF snap.finished /\ poller.last = "playing" THEN OnFinished(eliminated) ELSE eliminated

ToAll(Handle(_, _)) ==
    client' = [c \in Clients |->
        LET at == {i \in DOMAIN poller.subscribers :
                       poller.subscribers[i] = [client |-> c, open |-> TRUE]}
        IN  IF at # {} THEN Handle(client[c], CHOOSE i \in at : TRUE) ELSE client[c]]

-----------------------------------------------------------------------------
\* arenaPoller.

\* subscribeArena, from the stream route, and onopen. The first subscriber starts a
\* poll loop.
Subscribe(c) ==
    /\ client[c].status = "connecting"
    /\ poller' = [poller EXCEPT !.subscribers = Append(@, [client |-> c, open |-> TRUE]),
                      !.loops = IF poller.subscribers = <<>> THEN Append(@, "poll") ELSE @]
    /\ client' = [client EXCEPT ![c].status = "connected"]
    /\ UNCHANGED <<players, out, healthy, breaker, orphans>>

InFlight(loops) == SelectSeq(loops, LAMBDA l : l = "flight")

\* Mutant of Removed: the entry stays in the map.
RemovedNot(left) == [poller EXCEPT !.subscribers = left, !.loops = InFlight(@)]

\* stopPollLoop and pollers.delete, when nobody is left
Removed(left) == NoPoller

\* req.on("close", unsubscribe)
Unsubscribe(c) ==
    /\ \E i \in Closed(c) :
           LET left == RemoveAt(poller.subscribers, i)
               gone == IF left = <<>> THEN Len(InFlight(poller.loops)) ELSE 0
           IN
           /\ orphans + gone <= 1
           /\ orphans' = orphans + gone
           /\ poller' = IF left = <<>> THEN Removed(left)
                        ELSE [poller EXCEPT !.subscribers = left]
    /\ UNCHANGED <<players, out, healthy, breaker, client>>

\* The catch of poll: the event named "error" reaches onerror of every page, which
\* closes its connection.
Failed(loops) ==
    /\ poller' = [poller EXCEPT !.loops = loops,
                      !.subscribers = [i \in DOMAIN @ |-> [@[i] EXCEPT !.open = FALSE]]]
    /\ ToAll(LAMBDA page, i : scheduleReconnect(page))

\* The timer goes off: fire.
PollSnapshot(l) ==
    /\ poller.loops[l] = "poll"
    /\ IF Rejects(breaker)
       THEN Failed(poller.loops) /\ UNCHANGED breaker
       ELSE /\ breaker' = Fired(breaker)
            /\ poller' = [poller EXCEPT !.loops[l] = "flight"]
            /\ UNCHANGED client
    /\ UNCHANGED <<players, out, healthy, orphans>>

\* The snapshot arrives; the loop goes on only while there are subscribers.
Again(l) == IF poller.subscribers = <<>> THEN RemoveAt(poller.loops, l)
            ELSE [poller.loops EXCEPT ![l] = "poll"]

SnapshotArrives(l) ==
    /\ poller.loops[l] = "flight"
    /\ breaker' = onSuccess(breaker)
    /\ \E snap \in Snapshots :
           /\ poller' = [poller EXCEPT !.loops = Again(l), !.last = IF snap.finished THEN "finished" ELSE "playing",
                             !.seen = IF snap.out > @ THEN snap.out ELSE @]
           /\ ToAll(LAMBDA page, i : Told(page, i, snap))
    /\ UNCHANGED <<players, out, healthy, orphans>>

FailPoll(l) ==
    /\ poller.loops[l] = "flight" /\ ~healthy
    /\ breaker' = onFailure(breaker)
    /\ Failed(Again(l))
    /\ UNCHANGED <<players, out, healthy, orphans>>

\* A poll of an entry that was removed ends: only the breaker hears of it.
OrphanEnds ==
    /\ orphans > 0
    /\ orphans' = orphans - 1
    /\ breaker' \in {onSuccess(breaker)} \cup (IF healthy THEN {} ELSE {onFailure(breaker)})
    /\ UNCHANGED <<players, out, healthy, poller, client>>

-----------------------------------------------------------------------------
Loops == DOMAIN poller.loops
PollerStep == \E l \in 1..2 : l \in Loops /\ (PollSnapshot(l) \/ SnapshotArrives(l) \/ FailPoll(l))

StreamNext ==
    \/ ResolveRound \/ Heal \/ Rest \/ PollerStep \/ OrphanEnds
    \/ \E c \in Clients :
           Mount(c) \/ Unmount(c) \/ Break(c) \/ Retry(c) \/ Watchdog(c)
           \/ Subscribe(c) \/ Unsubscribe(c)

StreamSpec == StreamInit /\ [][StreamNext]_streamVars

\* Timers go off, polls end, and the server accepts connections and hears of the end
\* of those that were closed. Nobody need mount, leave or play.
FairStream ==
    /\ WF_streamVars(Heal) /\ WF_streamVars(Rest) /\ WF_streamVars(PollerStep)
    /\ WF_streamVars(OrphanEnds)
    /\ \A c \in Clients : WF_streamVars(Retry(c)) /\ WF_streamVars(Subscribe(c))
                               /\ WF_streamVars(Unsubscribe(c))
-----------------------------------------------------------------------------
\* Properties.

\* One poll loop per arena however subscribers come and go while polls are in
\* flight: none is lost, and none is doubled.
OneLoop ==
    /\ Len(poller.loops) = IF poller.subscribers = <<>> THEN 0 ELSE 1
    /\ poller.subscribers = <<>> => poller.seen = 0

\* The feed a page shows, put together from snapshots of several connections and
\* from single events, has every elimination once, the newest first.
FeedInOrder ==
    \A c \in Clients : \A i, j \in DOMAIN client[c].feed :
        i < j => client[c].feed[i] > client[c].feed[j]

\* Once calls succeed and connections hold, every page is connected again, whatever
\* state the breaker, the poller and the page's timers were left in.
StreamRecovers ==
    \A c \in Clients : []<>(client[c].status \in {"idle", "connected", "left"})
=============================================================================
