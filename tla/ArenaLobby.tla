------------------------------ MODULE ArenaLobby ------------------------------
(***************************************************************************)
(* The participants of an arena as its lobby lists them                    *)
(* (features/arena-lobby/ArenaLobbyClient.tsx): polled from the first page *)
(* while the arena is open, extended page by page with "Load more", and    *)
(* numbered anew with every round, because the backend lists the choices   *)
(* of the latest round only.  A request is answered when the backend       *)
(* serves it and takes effect when the answer arrives, in any order.       *)
(* A row is its round and place; what it says of the player is left out.   *)
(*                                                                         *)
(* What an arena's lobby shows of its requests (app/arena/[id]/page.tsx,   *)
(* features/arena-lobby/ArenaLobbyClient.tsx and the face of               *)
(* components/arena/ChoiceSubmission.tsx): one flag for each kind of       *)
(* request and one error for both, however many are under way.             *)
(*                                                                         *)
(* The lobby's form for a choice (components/arena/ChoiceSubmission.tsx):  *)
(* it commits with the builder of the arena page, for the round the        *)
(* backend's statistics show, and reports in its own words.                *)
(***************************************************************************)
EXTENDS WebTransactions

CONSTANTS LobbyRounds,    \* rounds the arena goes through
          MaxRows,        \* participants of a round
          PageRows,       \* the page size, 12 in the code
          MaxInFlight,    \* requests a lobby has under way
          NoCursor

ASSUME LobbyConstants ==
    PageRows \in Nat \ {0} /\ MaxRows \in Nat /\ NoCursor \notin Nat

VARIABLES
    board,      \* the backend: the latest round and how many choices it lists
    lobby,      \* the component's state
    requests    \* participants requests, and their answers on the way

lobbyVars == <<board, lobby, requests>>

\* GET /arenas/:id/participants, sliced from the cursor.
Answer(cursor) ==
    LET more == cursor + PageRows < board.rows IN
    [round |-> board.round, total |-> board.rows, hasMore |-> more,
     next  |-> IF more THEN cursor + PageRows ELSE NoCursor,
     items |-> {<<board.round, i>> : i \in {j \in 1 .. board.rows :
                                               j > cursor /\ j <= cursor + PageRows}}]

NoAnswer == [round |-> 1, total |-> 0, next |-> NoCursor, items |-> {}]

\* The state a first answer renders, which needs no hasMore of its own.
Rendered(a, open) ==
    [shown |-> a.items, next |-> a.next, hasMore |-> a.next # NoCursor, open |-> open,
     of |-> [round |-> a.round, total |-> a.total], straight |-> TRUE]

\* The page is rendered on the server with a first answer, or without one if its
\* request failed there; the component asks again as soon as it is mounted.
\* `from' is the round whose list gave the cursor, counted up from its first page.
LobbyInit ==
    /\ board \in [round : {1}, rows : 0 .. MaxRows]
    /\ \E open \in BOOLEAN, a \in {Answer(0), NoAnswer} : lobby = Rendered(a, open)
    /\ requests = {[slot |-> 1, cursor |-> 0, answer |-> NoCursor, from |-> 1]}

-----------------------------------------------------------------------------
(* The backend                                                             *)

\* The choices of a round are written once, when it is resolved or synced.
Record ==
    /\ board.rows = 0
    /\ \E n \in 1 .. MaxRows : board' = [board EXCEPT !.rows = n]
    /\ UNCHANGED <<lobby, requests>>

NextRoundListed ==
    /\ board.round < LobbyRounds
    /\ board' = [round |-> board.round + 1, rows |-> 0]
    /\ UNCHANGED <<lobby, requests>>

Serve(q) ==
    /\ q.answer = NoCursor
    /\ requests' = (requests \ {q}) \cup {[q EXCEPT !.answer = Answer(q.cursor)]}
    /\ UNCHANGED <<board, lobby>>

-----------------------------------------------------------------------------
(* The component                                                           *)

Ask(cursor) ==
    \E slot \in 1 .. MaxInFlight :
        /\ \A q \in requests : q.slot # slot
        /\ requests' = requests \cup
              {[slot |-> slot, cursor |-> cursor, answer |-> NoCursor,
                from |-> IF lobby.straight THEN lobby.of.round ELSE 0]}

\* fetchParticipants(0, true), every 5 s while the arena is open.
PollFirst == lobby.open /\ Ask(0) /\ UNCHANGED <<board, lobby>>

LoadMore ==
    /\ lobby.hasMore
    /\ Ask(IF lobby.next = NoCursor THEN 0 ELSE lobby.next)
    /\ UNCHANGED <<board, lobby>>

\* fetchStats tells of another status: the effect runs anew and asks at once.
StatsFetched ==
    /\ lobby' = [lobby EXCEPT !.open = ~@]
    /\ Ask(0)
    /\ UNCHANGED board

\* Mutant: a first page replaces what is shown.
ShownAnew(q) == IF q.cursor = 0 THEN q.answer.items ELSE lobby.shown \cup q.answer.items

\* Merged from the first page, appended from a later one: both only add rows.
Shown(q) == lobby.shown \cup q.answer.items

Receive(q) ==
    /\ q.answer # NoCursor
    /\ requests' = requests \ {q}
    /\ lobby' = [lobby EXCEPT !.shown = Shown(q), !.next = q.answer.next,
                              !.hasMore = q.answer.hasMore,
                              !.of = [round |-> q.answer.round, total |-> q.answer.total],
                              !.straight = IF q.cursor = 0 THEN TRUE
                                           ELSE @ /\ q.from = q.answer.round]
    /\ UNCHANGED board

\* The error is shown, the list stays.
RequestFails(q) ==
    /\ requests' = requests \ {q}
    /\ UNCHANGED <<board, lobby>>

LobbyNext ==
    \/ Record \/ NextRoundListed \/ PollFirst \/ LoadMore \/ StatsFetched
    \/ \E q \in requests : Serve(q) \/ Receive(q) \/ RequestFails(q)

LobbySpec == LobbyInit /\ [][LobbyNext]_lobbyVars

-----------------------------------------------------------------------------
(* Properties *)

\* "End of list" is the end: when the last answer says there is no more, every
\* row of the list it was cut from is shown, whatever polls and pages crossed
\* on the way, unless a cursor of one round was used on the list of another
\* (ArenaLobbyClient.tsx fetchParticipants, its cursor and hasMore).
EndOfListIsEnd ==
    ~lobby.hasMore /\ lobby.straight =>
        {<<lobby.of.round, i>> : i \in 1 .. lobby.of.total} \subseteq lobby.shown

-----------------------------------------------------------------------------
(* The screen around the list                                               *)

CONSTANTS NoStats, MaxPerKind     \* requests of one kind under way

VARIABLE screen

Deadlines == {"none", "ahead", "passed"}
Statistics == [open : BOOLEAN, deadline : Deadlines]

\* loadArenaLobbyData on the server: statistics, a 404, or a failure of another kind.
\* The component asks for both as soon as it is mounted, unless there is no arena.
ScreenInit ==
    \E found \in BOOLEAN, s \in Statistics \cup {NoStats} :
        /\ ~found => s = NoStats
        /\ LET asked == IF found THEN 1 ELSE 0 IN
           screen = [found |-> found, stats |-> s, calls |-> [stats |-> asked, rows |-> asked],
                     loading |-> [stats |-> found, rows |-> found], error |-> "none",
                     wallet |-> "none"]

isOpen == screen.stats # NoStats /\ screen.stats.open

-----------------------------------------------------------------------------
(* Requests                                                                *)

Asked(s, kinds) ==
    [s EXCEPT !.calls = [k \in DOMAIN @ |-> IF k \in kinds THEN @[k] + 1 ELSE @[k]],
              !.loading = [k \in DOMAIN @ |-> k \in kinds \/ @[k]]]

Mounted == screen.found
Room(kinds) == \A k \in kinds : screen.calls[k] < MaxPerKind

\* The interval of 10 s; the one of 5 s, while the arena is open, and "Load more".
RefreshStats == Mounted /\ Room({"stats"}) /\ screen' = Asked(screen, {"stats"})
RefreshRows ==
    /\ Mounted /\ isOpen /\ Room({"rows"})
    /\ screen' = Asked(screen, {"rows"})

\* The first answer of a kind says that nothing of it is loading any more.
OneEnded(kind, error) ==
    [screen EXCEPT !.calls[kind] = @ - 1, !.loading[kind] = FALSE, !.error = error]

\* Another status sets up the effect anew, which asks for both at once.
StatsArrive ==
    /\ screen.calls.stats > 0
    /\ \E s \in Statistics :
         LET shown == [OneEnded("stats", "none") EXCEPT !.stats = s] IN
         IF s.open = isOpen THEN screen' = shown
         ELSE Room({"rows"}) /\ screen' = Asked(shown, {"stats", "rows"})

\* A success of either kind takes back the error of the other.
RowsArrive == screen.calls.rows > 0 /\ screen' = OneEnded("rows", "none")

RequestsFail ==
    \E kind \in DOMAIN screen.calls :
        screen.calls[kind] > 0 /\ screen' = OneEnded(kind, kind)

-----------------------------------------------------------------------------
(* What else changes the screen                                            *)

DeadlinePasses ==
    /\ screen.stats # NoStats /\ screen.stats.deadline = "ahead"
    /\ screen' = [screen EXCEPT !.stats.deadline = "passed"]

WalletTurns ==
    \E w \in {"none", "connecting", "connected"} : screen' = [screen EXCEPT !.wallet = w]

ScreenNext ==
    \/ RefreshStats \/ RefreshRows \/ StatsArrive \/ RowsArrive \/ RequestsFail
    \/ DeadlinePasses \/ WalletTurns

-----------------------------------------------------------------------------
(* What is shown                                                           *)

\* Until statistics arrive the skeleton hides that they failed, for as long as they do.
Shows ==
    IF ~screen.found THEN "no lobby" ELSE IF screen.stats = NoStats THEN "skeleton" ELSE "lobby"

\* A deadline that has passed does not disable it; a refresh does, every ten seconds.
JoinDisabled ==
    ~isOpen \/ screen.stats.deadline = "none" \/ screen.loading.stats \/ screen.wallet # "connected"

JoinLabel ==
    IF screen.wallet # "connected" THEN "wallet required"
    ELSE IF JoinDisabled THEN "join unavailable" ELSE "join"

Countdown ==
    CASE screen.stats.deadline = "none" -> "unknown"
      [] screen.stats.deadline = "ahead" -> "time left"
      [] OTHER -> "0m 0s"

PlayersListed(rows) ==
    {IF rows = {} THEN "no participant data" ELSE "rows",
     IF screen.loading.rows THEN "refreshing" ELSE "every 5s while open"}

ListEnd(hasMore) == IF hasMore THEN {"more available", "load more"} ELSE {"end of list"}

Summary == {"survivors", "entry fee"} \cup (IF screen.error = "none" THEN {} ELSE {"error"})

\* The form, in a phase of its own: without a deadline its time is up.
canInteract(phase) ==
    isOpen /\ screen.stats.deadline = "ahead" /\ phase \notin {"signing", "submitting", "submitted"}

FormSays(phase) ==
    CASE phase = "submitted" -> {"choice submitted"}
      [] phase = "error" -> {"the error", "retry"}
      [] OTHER -> {IF screen.stats.deadline # "ahead" THEN "window closed"
                   ELSE IF isOpen THEN "choose a side" ELSE "arena not open"}

WalletSays ==
    CASE screen.wallet = "connected" -> "address"
      [] screen.wallet = "connecting" -> "connecting"
      [] OTHER -> "not connected"

-----------------------------------------------------------------------------
(* The form for a choice                                                    *)

VARIABLE choice   \* the form: its phase, what the statistics say, the round last sent for

choiceVars == <<webVars, choice>>

ChoiceInit ==
    /\ WebInit
    /\ choice = [phase |-> "idle", open |-> FALSE, round |-> 0, sent |-> 0]

\* The statistics polled by the lobby, and the deadline they carry: open and
\* in time, or not.
StatsShown ==
    /\ \E open \in BOOLEAN, r \in {chain.round, chain.round - 1} \cap Rounds :
          choice' = [choice EXCEPT !.open = open, !.round = r]
    /\ UNCHANGED webVars

isLocked == choice.phase \in {"signing", "submitted"}

\* handleSubmit; "submitting" is a second name for a locked form under way.
\* Without an address from the wallet nothing is built.
Submit ==
    /\ choice.open /\ ~isLocked
    /\ \/ /\ choice' = [choice EXCEPT !.phase = "signing", !.sent = choice.round]
          /\ op' = [Idle EXCEPT !.step = "asked", !.kind = "COMMIT", !.round = choice.round]
       \/ /\ choice' = [choice EXCEPT !.phase = "error"]
          /\ UNCHANGED op
    /\ UNCHANGED <<chain, network, stored, lastSalt>>

Submitted ==
    /\ op.step = "confirmed"
    /\ choice' = [choice EXCEPT !.phase = "submitted"]
    /\ op' = Idle
    /\ UNCHANGED <<chain, network, stored, lastSalt>>

SubmitFailed ==
    /\ op.step = "failed"
    /\ choice' = [choice EXCEPT !.phase = "error"]
    /\ op' = Idle
    /\ UNCHANGED <<chain, network, stored, lastSalt>>

Reopen ==
    /\ choice' = [choice EXCEPT !.phase = "idle", !.sent = 0]
    /\ op' = Idle
    /\ UNCHANGED <<chain, network, stored, lastSalt>>

ChoiceNext ==
    \/ (\E i \in DOMAIN network : Land(i)) /\ UNCHANGED choice
    \/ (NextPhase \/ BuildCommit \/ LoadAccount \/ Reject \/ Send \/ Poll) /\ UNCHANGED choice
    \/ StatsShown \/ Submit \/ Submitted \/ SubmitFailed \/ Reopen

ChoiceSpec == ChoiceInit /\ [][ChoiceNext]_choiceVars

-----------------------------------------------------------------------------
(* Properties *)

\* A form that says "submitted" keeps the salt of the commitment the contract
\* holds, however many attempts were cancelled, timed out or landed late
\* before it (ChoiceSubmission.tsx handleSubmit over the builder's saveCommitment).
SubmittedCanBeRevealed ==
    choice.phase = "submitted" /\ chain.committed # None =>
        stored[choice.sent] = chain.committed
=============================================================================
