------------------------------- MODULE MCWeb -------------------------------
(***************************************************************************)
(* The web application: each behaviour is about one of its screens, chosen *)
(* at the start.  The arena page, the host's dashboard and the lobby's     *)
(* form for a choice each run over the same transactions; the lobby's      *)
(* list, polled data, wallets and games over requests of their own; what   *)
(* the page, its dialogs and its notifications display over neither.       *)
(***************************************************************************)
EXTENDS ArenaPage, HostDashboard, ArenaLobby, WebQueries, Wallets, GamesBrowser, PageOverlays,
        SharedParts, HostForms, ContractInterface

VARIABLE focus

MCDefaultForm == [stake |-> 1, capacity |-> 1, currency |-> "USDC"]

MCListable == {[filters |-> {"all", "fast-rounds"}, found |-> {"", "1"}],
               [filters |-> {"all"}, found |-> {"", "alpha"}]}

MCTyped == {-9, 0, 3, 10, 15, NoAmount}

Screens == {"page", "host", "choice", "lobby", "queries", "wallets", "freighter", "games", "lookups",
            "view", "hold", "modals", "cards", "link", "pool form", "stake form",
            "lobby screen", "ranks", "timer", "ticker", "profile", "requests", "events"}

Init ==
    /\ focus \in Screens
    \* What a screen may start with is left open only in the behaviours about it.
    /\ PageInit /\ (focus \notin {"page", "choice"} => chain = ChainStart)
    /\ HostInit /\ (focus # "host" => ~host.staked)
    /\ ChoiceInit
    /\ LobbyInit /\ (focus # "lobby" => board.rows = 0 /\ lobby.open)
    /\ QueryInit
    /\ WalletsInit /\ (focus # "wallets" => ~signedOut /\ passkey.key = NoAddress)
    /\ GamesInit /\ (focus # "games" => url = [filter |-> "all", q |-> ""])
    /\ OverlaysInit /\ (focus # "view" => view.live) /\ (focus # "hold" => hold.device = "mouse")
    /\ DialogsInit
    /\ FormsInit /\ (focus # "stake form" => stake.configured)
    /\ ScreenInit /\ (focus # "lobby screen" => ~screen.found)
    /\ RanksInit
    /\ TimersInit /\ (focus # "ticker" => ticker.items = 1)
    /\ ProfileInit /\ (focus # "profile" => profile.useMock)
    /\ RequestInit /\ FeedInit

\* The screens that send no transactions.
displayVars == <<overlayVars, dialogVars, formVars>>
moreVars == <<screen, ranks, timerVars, profile, request, game>>
dataVars == <<lobbyVars, queryVars, walletVars, gamesVars, displayVars, moreVars>>

vars == <<focus, webVars, page, modal, host, choice, dataVars>>

OnChainNext ==
    \/ focus = "page" /\ PageNext /\ UNCHANGED <<host, choice>>
    \/ focus = "host" /\ HostNext /\ UNCHANGED <<page, choice>>
    \/ focus = "choice" /\ ChoiceNext /\ UNCHANGED <<page, modal, host>>

DataNext ==
    \/ focus = "lobby" /\ LobbyNext /\ UNCHANGED <<queryVars, walletVars, gamesVars, displayVars>>
    \/ focus = "queries" /\ QueryNext /\ UNCHANGED <<lobbyVars, walletVars, gamesVars, displayVars>>
    \/ focus = "wallets" /\ KitNext /\ UNCHANGED <<lobbyVars, queryVars, gamesVars, displayVars>>
    \/ focus = "freighter" /\ FreighterNext /\ UNCHANGED <<lobbyVars, queryVars, gamesVars, displayVars>>
    \/ focus = "games" /\ BrowseNext /\ UNCHANGED <<lobbyVars, queryVars, walletVars, displayVars>>
    \/ focus = "lookups" /\ LookupNext /\ UNCHANGED <<lobbyVars, queryVars, walletVars, displayVars>>

DisplayNext ==
    \/ focus = "view" /\ ViewNext /\ UNCHANGED <<dialogVars, formVars>>
    \/ focus = "hold" /\ HoldNext /\ UNCHANGED <<dialogVars, formVars>>
    \/ focus = "modals" /\ ModalsNext /\ UNCHANGED <<overlayVars, formVars>>
    \/ focus = "cards" /\ CardsNext /\ UNCHANGED <<overlayVars, formVars>>
    \/ focus = "link" /\ LinkNext /\ UNCHANGED <<overlayVars, formVars>>
    \/ focus = "pool form" /\ PoolFormNext /\ UNCHANGED <<overlayVars, dialogVars>>
    \/ focus = "stake form" /\ StakeFormNext /\ UNCHANGED <<overlayVars, dialogVars>>

MoreNext ==
    \/ focus = "lobby screen" /\ ScreenNext /\ UNCHANGED <<ranks, timerVars, profile, request, game>>
    \/ focus = "ranks" /\ RanksNext /\ UNCHANGED <<screen, timerVars, profile, request, game>>
    \/ focus = "timer" /\ TimerNext /\ UNCHANGED <<screen, ranks, profile, request, game>>
    \/ focus = "ticker" /\ TickerNext /\ UNCHANGED <<screen, ranks, profile, request, game>>
    \/ focus = "profile" /\ ProfileNext /\ UNCHANGED <<screen, ranks, timerVars, request, game>>
    \/ focus = "requests" /\ RequestNext /\ UNCHANGED <<screen, ranks, timerVars, profile, game>>
    \/ focus = "events" /\ FeedNext /\ UNCHANGED <<screen, ranks, timerVars, profile, request>>

Next ==
    \/ OnChainNext /\ UNCHANGED <<focus, dataVars>>
    \/ DataNext /\ UNCHANGED <<focus, webVars, page, modal, host, choice, moreVars>>
    \/ DisplayNext /\ UNCHANGED <<focus, webVars, page, modal, host, choice, lobbyVars, queryVars,
                                  walletVars, gamesVars, moreVars>>
    \/ MoreNext /\ UNCHANGED <<focus, webVars, page, modal, host, choice, lobbyVars, queryVars,
                               walletVars, gamesVars, displayVars>>

\* What a behaviour is about. Its other variables keep their one initial value, so
\* two states that agree here are the same state: a VIEW that loses nothing.
Seen ==
    <<focus,
      IF focus \in {"page", "host", "choice"} THEN <<webVars, page, modal, host, choice>>
      ELSE IF focus \in {"lobby", "queries", "wallets", "freighter", "games", "lookups"}
           THEN <<lobbyVars, queryVars, walletVars, gamesVars>>
           ELSE <<displayVars, moreVars>> >>

Spec == Init /\ [][Next]_vars

\* One screen alone.
HostOnly == Init /\ focus = "host" /\ [][Next]_vars
PageOnly == Init /\ focus = "page" /\ [][Next]_vars
=============================================================================
