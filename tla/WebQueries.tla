------------------------------ MODULE WebQueries ------------------------------
(***************************************************************************)
(* The two ways in which the web application keeps server data on screen:  *)
(* the polling hook (shared-d/hooks/usePolling.ts) and the leaderboard,    *)
(* loaded page by page (features/leaderboard/hooks/useLeaderboard.ts under *)
(* app/dashboard/leaderboard/page.tsx).  Neither waits for one request     *)
(* before another can be asked for, and answers come in any order.         *)
(*                                                                         *)
(* A poll's answer is known by the number of its call; a leaderboard page  *)
(* by its own number, which is also the cursor that asks for it.           *)
(*                                                                         *)
(* The leaderboard as it is paged through                                  *)
(* (app/dashboard/leaderboard/page.tsx, its Pagination and its table):     *)
(* the first three survivors stand on the podium, the others in a table of *)
(* a few pages, and "Load More" fetches the next survivors by a cursor.    *)
(* Rows are counted; two calls with one cursor append the same rows twice. *)
(*                                                                         *)
(* The player's profile (shared-d/features/profile/hooks/useProfile.ts     *)
(* over data/profileRepository.ts): four reads at once, two of them of the *)
(* backend's /api/users/me, and invented data wherever a read fails.       *)
(***************************************************************************)
EXTENDS Naturals, Sequences, SequencesExt, FiniteSetsExt

CONSTANTS MaxCalls,      \* polls followed
          MaxClicks,     \* times "Load more" is clicked
          BoardPages     \* pages the leaderboard has

VARIABLES
    polling,    \* usePolling: options, refs, state, and the calls under way
    feed,       \* useLeaderboard and its page: the pages shown, in order, and the state
    loads       \* leaderboard requests under way

queryVars == <<polling, feed, loads>>

QueryInit ==
    /\ polling = [enabled |-> TRUE, visible |-> TRUE, timer |-> TRUE, fetching |-> TRUE,
                  ctrl |-> 1, aborted |-> {}, calls |-> {1}, last |-> 1,
                  data |-> 0, status |-> "loading"]
    /\ feed = [shown |-> << >>, next |-> 0, hasMore |-> FALSE, loading |-> TRUE,
               clicks |-> 0, displayed |-> 1]
    /\ loads = {[cursor |-> 1, click |-> 0]}

-----------------------------------------------------------------------------
(* usePolling                                                              *)

\* Mutant: without the check that a call is under way.
FetchDataAnyway(p) ==
    [p EXCEPT !.aborted = @ \cup ({p.ctrl} \ {0}), !.ctrl = p.last + 1,
              !.calls = @ \cup {p.last + 1}, !.last = @ + 1,
              !.fetching = TRUE, !.status = "loading"]

\* fetchData up to its await; `ctrl' is abortControllerRef, 0 when null.
FetchData(p) ==
    IF p.fetching THEN p
    ELSE [p EXCEPT !.aborted = @ \cup ({p.ctrl} \ {0}), !.ctrl = p.last + 1,
                   !.calls = @ \cup {p.last + 1}, !.last = @ + 1,
                   !.fetching = TRUE, !.status = "loading"]

\* The effect's cleanup forgets the controller, but not that a call is under way.
Cleanup(p) ==
    IF p.enabled THEN [p EXCEPT !.timer = FALSE, !.aborted = @ \cup ({p.ctrl} \ {0}), !.ctrl = 0]
    ELSE p

Effect(p) ==
    IF p.enabled THEN [FetchData(p) EXCEPT !.timer = p.visible] ELSE p

\* The tab is hidden or shown again; the hook is switched on or off.
OptionsChange ==
    /\ polling.last < MaxCalls
    /\ \E option \in {"visible", "enabled"} :
          polling' = Effect([Cleanup(polling) EXCEPT ![option] = ~@])
    /\ UNCHANGED <<feed, loads>>

Tick ==
    /\ polling.timer /\ polling.last < MaxCalls
    /\ polling' = FetchData(polling)
    /\ UNCHANGED <<feed, loads>>

\* `refresh', which works while the hook is switched off, too.
Refresh ==
    /\ polling.last < MaxCalls
    /\ polling' = FetchData(polling)
    /\ UNCHANGED <<feed, loads>>

Ended(i) == [polling EXCEPT !.calls = @ \ {i}, !.fetching = FALSE]

\* The controller asked is the one the ref holds by then; a forgotten one makes
\* the answer an error.
CallResolves(i) ==
    /\ polling' = IF polling.ctrl = 0 THEN [Ended(i) EXCEPT !.status = "error"]
                  ELSE IF polling.ctrl \in polling.aborted THEN Ended(i)
                  ELSE [Ended(i) EXCEPT !.data = i, !.status = "success"]
    /\ UNCHANGED <<feed, loads>>

\* An AbortError is dropped, and the status stays "loading".
CallFails(i) ==
    /\ \/ polling' = [Ended(i) EXCEPT !.status = "error"]
       \/ i \in polling.aborted /\ polling' = Ended(i)
    /\ UNCHANGED <<feed, loads>>

-----------------------------------------------------------------------------
(* useLeaderboard                                                          *)

\* handleLoadMore and fetchMore: `loading' is FALSE from the first answer on,
\* so that a second click asks for the same page again.
ClickLoadMore ==
    /\ feed.hasMore /\ ~feed.loading /\ feed.next # 0
    /\ feed.clicks < MaxClicks
    /\ feed' = [feed EXCEPT !.clicks = @ + 1]
    /\ loads' = loads \cup {[cursor |-> feed.next, click |-> feed.clicks + 1]}
    /\ UNCHANGED polling

\* The page counts what it displays up after a click's request, however it ended.
Displayed(q) == IF q.click = 0 THEN feed.displayed ELSE feed.displayed + 1

PageLoaded(q) ==
    /\ feed' = [feed EXCEPT !.shown = IF q.cursor = 1 THEN <<1>> ELSE Append(@, q.cursor),
                            !.next = IF q.cursor < BoardPages THEN q.cursor + 1 ELSE 0,
                            !.hasMore = q.cursor < BoardPages, !.loading = FALSE,
                            !.displayed = Displayed(q)]
    /\ loads' = loads \ {q}
    /\ UNCHANGED polling

\* Mutant: the list is emptied by any failure, and can be extended after it.
PageFailsEmptied(q) ==
    /\ feed' = [feed EXCEPT !.shown = << >>, !.loading = FALSE, !.displayed = Displayed(q)]
    /\ loads' = loads \ {q}
    /\ UNCHANGED polling

\* Only a first page that fails empties the list; no failure can be retried.
PageFails(q) ==
    /\ feed' = [feed EXCEPT !.shown = IF q.cursor = 1 THEN << >> ELSE @, !.next = 0,
                            !.hasMore = FALSE, !.loading = FALSE, !.displayed = Displayed(q)]
    /\ loads' = loads \ {q}
    /\ UNCHANGED polling

QueryNext ==
    \/ OptionsChange \/ Tick \/ Refresh
    \/ \E i \in polling.calls : CallResolves(i) \/ CallFails(i)
    \/ ClickLoadMore
    \/ \E q \in loads : PageLoaded(q) \/ PageFails(q)

QuerySpec == QueryInit /\ [][QueryNext]_queryVars

-----------------------------------------------------------------------------
(* Properties *)

\* What is polled is shown in the order it was asked for: the answer of an older
\* call never replaces a newer one's, although an answer is checked against
\* whichever controller the ref holds when it comes (usePolling.ts fetchData).
PolledInOrder ==
    [][polling'.data # polling.data => polling'.data > polling.data]_queryVars

\* The leaderboard has no gap: no rank is shown unless every better one stands
\* above it, although the same page may be asked for twice, answers cross, and
\* a failure takes the cursor away (useLeaderboard.ts fetchLeaderboard).
LeaderboardHasNoGap ==
    \A i \in DOMAIN feed.shown : \A p \in 1 .. feed.shown[i] - 1 :
        \E j \in 1 .. i - 1 : feed.shown[j] = p

-----------------------------------------------------------------------------
(* The leaderboard's pages                                                  *)

CONSTANTS Survivors,    \* players on the backend's leaderboard
          FetchSize,    \* INITIAL_PAGE_SIZE
          TableSize,    \* TABLE_ITEMS_PER_PAGE
          MaxMores,     \* calls of "Load More" under way
          MaxRanked     \* rows loaded, the doubled ones included

NoneLeft == 0           \* nextCursor null: a cursor is never 0
maxVisiblePages == 3

VARIABLE ranks

RanksInit ==
    ranks = [rows |-> 0, cursor |-> NoneLeft, loading |-> TRUE, error |-> FALSE, asked |-> <<>>,
             landed |-> 0, displayed |-> FetchSize, page |-> 1, target |-> 0, dialog |-> FALSE]

Least(a, b) == IF a < b THEN a ELSE b
After(cursor) == IF cursor + FetchSize < Survivors THEN cursor + FetchSize ELSE NoneLeft

-----------------------------------------------------------------------------
(* The pages of the table                                                  *)

OnPodium == Least(3, ranks.rows)
TableRows == ranks.rows - OnPodium
DisplayedRows == Least(TableRows, ranks.displayed)
totalPages == (DisplayedRows + TableSize - 1) \div TableSize

RowsOf(p) == {i \in 1..DisplayedRows : i > (p - 1) * TableSize /\ i <= p * TableSize}

\* getVisiblePages, without its ellipses.
VisiblePages ==
    IF totalPages <= maxVisiblePages + 2 THEN 1..totalPages
    ELSE {1, totalPages} \cup
         {p \in 2..(totalPages - 1) : p + 1 >= ranks.page /\ p <= ranks.page + 1}

Ellipses ==
    IF totalPages <= maxVisiblePages + 2 THEN 0
    ELSE Cardinality({side \in {"before", "after"} :
             IF side = "before" THEN ranks.page > 3 ELSE ranks.page + 2 < totalPages})

\* Pagination shows nothing for a single page.
Reachable ==
    IF totalPages <= 1 \/ ranks.loading THEN {}
    ELSE VisiblePages \cup {p \in {ranks.page - 1, ranks.page + 1} : p \in 1..totalPages}

GoTo == \E p \in Reachable : ranks' = [ranks EXCEPT !.page = p]

TableShown ==
    IF ranks.loading THEN "skeleton" ELSE IF RowsOf(ranks.page) = {} THEN "no survivors" ELSE "rows"

\* With fewer than three, the podium's places stay empty.
PodiumShown == {r \in 1..3 : r <= ranks.rows}

-----------------------------------------------------------------------------
(* Loading                                                                 *)

FirstPage ==
    /\ ranks.loading
    /\ \/ ranks' = [ranks EXCEPT !.loading = FALSE, !.rows = Least(FetchSize, Survivors),
                                 !.cursor = After(0)]
       \/ ranks' = [ranks EXCEPT !.loading = FALSE, !.error = TRUE]

\* `loading' is false for every later call, which nothing keeps from doubling.
LoadMoreRanks ==
    /\ ~ranks.loading /\ ranks.cursor # NoneLeft /\ Len(ranks.asked) < MaxMores
    /\ ranks.rows + FetchSize * (Len(ranks.asked) + 1) <= MaxRanked
    /\ ranks' = [ranks EXCEPT !.asked = Append(@, ranks.cursor), !.error = FALSE]

MoreArrive ==
    \E i \in DOMAIN ranks.asked :
        LET c == ranks.asked[i]
            call == [ranks EXCEPT !.asked = RemoveAt(@, i), !.landed = @ + 1] IN
        \/ ranks' = [call EXCEPT !.rows = @ + Least(FetchSize, Survivors - c), !.cursor = After(c)]
        \/ ranks' = [call EXCEPT !.cursor = NoneLeft, !.error = TRUE]

\* handleLoadMore goes on after its await, also after a failure.
MoreDisplayed ==
    /\ ranks.landed > 0
    /\ ranks' = [ranks EXCEPT !.landed = @ - 1, !.displayed = @ + FetchSize, !.page = 1]

-----------------------------------------------------------------------------
(* Challenging                                                             *)

\* The survivor is found by its id in what is loaded, and named in the pool's form;
\* closing the form keeps the name, which the form shows until another is challenged.
Challenge ==
    \E i \in RowsOf(ranks.page) : ranks' = [ranks EXCEPT !.target = i + 3, !.dialog = TRUE]

CloseChallenge == ranks.dialog /\ ranks' = [ranks EXCEPT !.dialog = FALSE]

RanksNext ==
    \/ FirstPage \/ LoadMoreRanks \/ MoreArrive \/ MoreDisplayed
    \/ GoTo \/ Challenge \/ CloseChallenge

-----------------------------------------------------------------------------
(* The profile                                                              *)

CONSTANTS MaxReads,     \* fetches of the whole profile under way
          Nothing

Sources == {"backend", "mock"}
ArenasFilters == {"all", "live"}

VARIABLE profile

\* NEXT_PUBLIC_USE_MOCK_PROFILE; the effect fetches at once.
ProfileInit ==
    \E m \in BOOLEAN :
        profile = [useMock |-> m, filter |-> "all", status |-> "loading", error |-> FALSE,
                   identity |-> Nothing, stats |-> Nothing, arenas |-> Nothing,
                   reads |-> [f \in ArenasFilters |-> IF f = "all" THEN 1 ELSE 0],
                   filtering |-> [f \in ArenasFilters |-> 0]]

\* getAgentIdentity, getProfileStats: a failure of the backend is answered by the mock,
\* so neither of them ever fails. Arenas and history have no endpoint.
Answers == IF profile.useMock THEN {"mock"} ELSE Sources

\* The mock filters what it has; the backend's placeholder asks the mock.
ArenasOf(f) == [filter |-> f, from |-> "mock"]

\* fetchProfileData
FetchProfile(p) == [p EXCEPT !.status = "loading", !.error = FALSE, !.reads[p.filter] = @ + 1]

Refetch == profile.reads[profile.filter] < MaxReads /\ profile' = FetchProfile(profile)

\* Promise.all: the identity and the statistics are two reads, of which one may be
\* invented, or of another moment; a filter of before may be the last to answer.
ProfileArrives ==
    \E f \in ArenasFilters, i \in Answers, s \in Answers :
        /\ profile.reads[f] > 0
        /\ profile' = [profile EXCEPT !.reads[f] = @ - 1, !.identity = i, !.stats = s,
                                      !.arenas = ArenasOf(f), !.status = "success"]

\* setMyArenasFilter asks for the arenas, and its new filter for everything.
SetFilter ==
    \E f \in ArenasFilters :
        /\ profile.filtering[f] < MaxReads /\ profile.reads[f] < MaxReads
        /\ LET p == [profile EXCEPT !.filter = f, !.filtering[f] = @ + 1] IN
           profile' = IF f = profile.filter THEN p ELSE FetchProfile(p)

FilterArrives ==
    \E f \in ArenasFilters :
        /\ profile.filtering[f] > 0
        /\ profile' = [profile EXCEPT !.filtering[f] = @ - 1, !.arenas = ArenasOf(f)]

ProfileNext == Refetch \/ ProfileArrives \/ SetFilter \/ FilterArrives

-----------------------------------------------------------------------------
(* What is shown                                                           *)

\* While loading, what was there before stays under the skeletons; a default of zeros
\* stands in for what was never read. The page filters again by itself, and its RETRY
\* waits for an error that no read reports.
ProfileShown ==
    [header |-> IF profile.status = "loading" THEN "skeleton" ELSE profile.identity,
     figures |-> IF profile.stats = Nothing THEN "zeros" ELSE profile.stats,
     retry |-> profile.error]

ArenasShown(tab) ==
    IF profile.arenas = Nothing THEN {}
    ELSE {a \in ArenasFilters : (tab = "live" \/ profile.arenas.filter = "live") => a = "live"}
=============================================================================
