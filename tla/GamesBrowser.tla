----------------------------- MODULE GamesBrowser -----------------------------
(***************************************************************************)
(* Browsing the arenas.  The dashboard's page lists what the query string  *)
(* asks for, and its filter bar writes the query string: the tabs at once, *)
(* the search box after a pause (app/dashboard/games/page.tsx,             *)
(* GamesFilters, useQueryState, useDebouncedValue).  A replace of the URL  *)
(* is a navigation that takes its time and gives way to the next one, and  *)
(* each is computed from the query string seen when it was asked for.  One *)
(* that ends at the query string already shown renders nothing anew.       *)
(* Beside it the hooks over the arenas' repository, whose calls answer in  *)
(* the order in which equally slow ones were made (useArenas.ts).          *)
(***************************************************************************)
EXTENDS Naturals, Sequences

CONSTANTS Filters,       \* the tabs; "all" is the default, which no URL names
          Searches,      \* what may be typed; "" is the empty box
          BadSearches,   \* those of them validateSearchQuery refuses
          Numbers,       \* those that are read as an arena's number
          Listable,      \* the arenas: [filters: tabs it falls under, found: searches it matches]
          NoNavigation,
          MaxCallsOut,   \* calls of a hook under way at once
          MaxFinds       \* searches of useArenaSearch followed

ASSUME GamesConstants ==
    /\ "all" \in Filters /\ "" \in Searches
    /\ NoNavigation \notin [filter : Filters, q : Searches]

VARIABLES
    url,       \* the query string the components see
    going,     \* the URL of the navigation under way
    bar,       \* GamesFilters: the search box, its debounced value, the timer; isLoading; and,
               \* ghost, swallowed: the URL shown was asked for before it had the debounced search
    listing,   \* useArenas
    finder     \* useArenaSearch

gamesVars == <<url, going, bar, listing, finder>>

-----------------------------------------------------------------------------
(* The query string                                                        *)

\* setValue of useQueryState, of the key "q" or "filter".
Replacing(key, value) == [url EXCEPT ![key] = value]

\* A navigation to u takes the place of the one under way.
Replace(u) ==
    /\ going' = u
    /\ bar' = [bar EXCEPT !.swallowed = u = url /\ url.q # bar.debounced]

\* The second effect of GamesFilters, after a render with query string u in
\* which the debounced value, the query string or both are new.
SearchEffect(u, debounced) ==
    IF debounced # u.q THEN [u EXCEPT !.q = debounced] ELSE NoNavigation

\* On mount the box takes over the URL's search, whose debounced value is still "".
Opened(u) ==
    /\ url' = u
    /\ going' = SearchEffect(u, "")
    /\ bar' = [input |-> u.q, debounced |-> "", timer |-> u.q # "", loading |-> TRUE, swallowed |-> FALSE]

GamesInit ==
    /\ url \in [filter : Filters, q : Searches]
    /\ going = SearchEffect(url, "")
    /\ bar = [input |-> url.q, debounced |-> "", timer |-> url.q # "", loading |-> TRUE, swallowed |-> FALSE]
    /\ listing = [filter |-> "all", search |-> "", calls |-> <<[filter |-> "all", search |-> ""]>>,
                  shown |-> [filter |-> "none", search |-> ""], status |-> "loading", error |-> FALSE]
    /\ finder = [term |-> "", texts |-> << >>, numbers |-> << >>, asked |-> 0, shown |-> "", status |-> "idle"]

ClickTab ==
    /\ \E f \in Filters : Replace(Replacing("filter", f))
    /\ UNCHANGED <<url, listing, finder>>

\* Every key restarts the timer.
TypeSearch ==
    /\ \E s \in Searches \ {bar.input} : bar' = [bar EXCEPT !.input = s, !.timer = TRUE]
    /\ UNCHANGED <<url, going, listing, finder>>

\* The effect runs when the debounced value is a new one.
Debounced ==
    /\ bar.timer
    /\ bar' = [bar EXCEPT !.debounced = bar.input, !.timer = FALSE,
                          !.swallowed = @ /\ bar.debounced = bar.input]
    /\ going' = IF bar.debounced # bar.input /\ SearchEffect(url, bar.input) # NoNavigation
                THEN SearchEffect(url, bar.input)
                ELSE going
    /\ UNCHANGED <<url, listing, finder>>

\* Mutant: the effect watches the debounced value alone.
NavigatedSilently ==
    /\ going # NoNavigation
    /\ url' = going /\ going' = NoNavigation
    /\ UNCHANGED <<bar, listing, finder>>

\* A new query string renders the bar, and its effect looks at it again; the one
\* already shown changes nothing the effect depends on.
Navigated ==
    /\ going # NoNavigation
    /\ url' = going
    /\ going' = IF going = url THEN NoNavigation ELSE SearchEffect(going, bar.debounced)
    /\ bar' = [bar EXCEPT !.swallowed = @ /\ going = url]
    /\ UNCHANGED <<listing, finder>>

\* The sidebar's link to the same page, without a query.
SidebarLink ==
    /\ Replace([filter |-> "all", q |-> ""])
    /\ UNCHANGED <<url, listing, finder>>

\* filteredArenas
Filtered == {a \in Listable : url.filter \in a.filters /\ url.q \in a.found}

Loaded ==
    /\ bar.loading
    /\ bar' = [bar EXCEPT !.loading = FALSE]
    /\ UNCHANGED <<url, going, listing, finder>>

\* "Clear Filters", which loads the page anew, is offered when nothing is listed.
ClearFilters ==
    /\ ~bar.loading /\ Filtered = {}
    /\ Opened([filter |-> "all", q |-> ""])
    /\ UNCHANGED <<listing, finder>>

-----------------------------------------------------------------------------
(* useArenas                                                               *)

\* Mutant: nothing is fetched while a call is under way.
FetchArenasOnce(l) ==
    IF l.search \in BadSearches THEN [l EXCEPT !.status = "error", !.error = TRUE]
    ELSE IF l.calls # << >> THEN l
    ELSE [l EXCEPT !.status = "loading", !.error = FALSE,
                   !.calls = Append(@, [filter |-> l.filter, search |-> l.search])]

\* fetchArenas: a bad search fails at once, and stops no call under way.
FetchArenas(l) ==
    IF l.search \in BadSearches THEN [l EXCEPT !.status = "error", !.error = TRUE]
    ELSE [l EXCEPT !.status = "loading", !.error = FALSE,
                   !.calls = Append(@, [filter |-> l.filter, search |-> l.search])]

SetFilterOrSearch ==
    /\ Len(listing.calls) < MaxCallsOut
    /\ \/ \E f \in Filters \ {listing.filter} : listing' = FetchArenas([listing EXCEPT !.filter = f])
       \/ \E s \in Searches \ {listing.search} : listing' = FetchArenas([listing EXCEPT !.search = s])
       \/ listing' = FetchArenas(listing)
    /\ UNCHANGED <<url, going, bar, finder>>

\* The repository answers after half a second, whatever was asked.
ArenasFetched ==
    /\ listing.calls # << >>
    /\ listing' = [listing EXCEPT !.calls = Tail(@), !.shown = Head(listing.calls), !.status = "success"]
    /\ UNCHANGED <<url, going, bar, finder>>

-----------------------------------------------------------------------------
(* useArenaSearch                                                          *)

\* A number is looked up in 200 ms, a text in 500 ms.
Look(s) ==
    /\ finder.term # s /\ finder.asked < MaxFinds
    /\ finder' =
         LET call == [term |-> s, n |-> finder.asked + 1]
             f    == [finder EXCEPT !.term = s]
         IN  CASE s = ""       -> [f EXCEPT !.shown = "", !.status = "idle"]
               [] s \in Numbers -> [f EXCEPT !.status = "loading", !.asked = @ + 1, !.numbers = Append(@, call)]
               [] OTHER        -> [f EXCEPT !.status = "loading", !.asked = @ + 1, !.texts = Append(@, call)]
    /\ UNCHANGED <<url, going, bar, listing>>

FoundAs(s) == [finder EXCEPT !.shown = s, !.status = "success"]

FoundNumber ==
    /\ finder.numbers # << >>
    /\ finder' = [FoundAs(Head(finder.numbers).term) EXCEPT !.numbers = Tail(@)]
    /\ UNCHANGED <<url, going, bar, listing>>

\* A text asked for after a number is never found before it.
FoundText ==
    /\ finder.texts # << >>
    /\ finder.numbers # << >> => Head(finder.texts).n < Head(finder.numbers).n
    /\ finder' = [FoundAs(Head(finder.texts).term) EXCEPT !.texts = Tail(@)]
    /\ UNCHANGED <<url, going, bar, listing>>

BrowseNext ==
    \/ ClickTab \/ TypeSearch \/ Debounced \/ Navigated \/ SidebarLink \/ Loaded \/ ClearFilters

LookupNext ==
    \/ SetFilterOrSearch \/ ArenasFetched
    \/ (\E s \in Searches : Look(s)) \/ FoundNumber \/ FoundText

GamesSpec == GamesInit /\ [][BrowseNext \/ LookupNext]_gamesVars

-----------------------------------------------------------------------------
(* Properties *)

\* At rest the list is of what the search box shows, although a tab, a link or
\* the debounced search can replace each other's navigation on its way, and
\* each is computed from an older query string (GamesFilters.tsx, useQueryState.ts).
\* Only a click on the tab or link already shown, made before the URL had the
\* debounced search, may leave the two apart: its navigation runs no effect.
UrlShowsInput ==
    ~bar.timer /\ going = NoNavigation /\ ~bar.swallowed => url.q = bar.input

\* At rest, and with a search it accepts, useArenas shows the arenas of the
\* filter and search that are set, although a refused search answers at once,
\* before the calls made earlier (useArenas.ts fetchArenas).
ListedIsAsked ==
    listing.calls = << >> /\ listing.search \notin BadSearches =>
        listing.shown = [filter |-> listing.filter, search |-> listing.search]
=============================================================================
