----------------------------- MODULE ChainReader -----------------------------
(***************************************************************************)
(* How the backend reads a contract: by simulating a call of one of its    *)
(* functions from an account that must exist on the ledger, with a default *)
(* for a call that fails; and the statistics it makes of the answers.      *)
(***************************************************************************)
EXTENDS Integers, FiniteSets, FiniteSetsExt

CONSTANTS
    NoValue,         \* not asked yet, or no value
    MostPlayers,  \* bound: players of the contract
    MostYield     \* bound: yield of the contract

VARIABLE reading

\* The two arena contracts of the repository and what each exports of what is read.
Exports == [workspace |-> {"get_players", "get_total_yield"},
            legacy |-> {"game_state", "get_player_count"}]

Defaults == [game_state |-> "Open", get_player_count |-> 0, get_players |-> {},
             get_winner |-> NoValue, get_total_yield |-> 0]

\* A contract with no address is not asked. A source key made up for the
\* simulations has no account.
ReaderInit ==
    \E contract \in DOMAIN Exports, funded \in BOOLEAN, known \in BOOLEAN :
        reading = [contract |-> contract, funded |-> funded, known |-> known, game |-> "Open",
                  players |-> {}, yield |-> 0, source |-> FALSE, server |-> FALSE, stats |-> NoValue,
                  rows |-> 0]

\* The ledger: players join, the game starts and ends, interest accrues.
MoveOn ==
    \/ /\ reading.game = "Open" /\ Cardinality(reading.players) < MostPlayers
       /\ reading' = [reading EXCEPT !.players = @ \cup {Cardinality(@) + 1}]
    \/ /\ reading.game = "Open" /\ reading.players # {}
       /\ reading' = [reading EXCEPT !.game = "InProgress"]
    \/ /\ reading.game = "InProgress"
       /\ reading' = [reading EXCEPT !.game = "Finished"]
    \/ /\ reading.yield < MostYield
       /\ reading' = [reading EXCEPT !.yield = @ + 1]

\* The backend's own rows of participants, one for each who joined through it.
JoinThroughBackend ==
    /\ reading.rows < Cardinality(reading.players)
    /\ reading' = [reading EXCEPT !.rows = @ + 1]

OnChain(function) ==
    CASE function = "game_state" -> reading.game
      [] function = "get_player_count" -> Cardinality(reading.players)
      [] function = "get_players" -> reading.players
      [] function = "get_total_yield" -> reading.yield

\* simulateViewCall succeeds only for an exported function and a funded source, if at all.
Answered(function) == reading.funded /\ function \in Exports[reading.contract]

Read(function, works) ==
    IF works /\ Answered(function) THEN OnChain(function) ELSE Defaults[function]

\* ArenaStatsService.getArenaStats: the readers above never throw, so its own
\* fallbacks to the rows are for an arena without a contract.
ArenaStats(works) ==
    IF reading.known
    THEN [playerCount |-> Read("get_player_count", works["get_player_count"]),
          yieldAccrued |-> Read("get_total_yield", works["get_total_yield"]),
          status |-> Read("game_state", works["game_state"])]
    ELSE [playerCount |-> reading.rows, yieldAccrued |-> "of rounds", status |-> "of rounds"]

\* getRpcServer and getSourcePublicKey keep what they made first.
GetArenaStats ==
    \E works \in [{"game_state", "get_player_count", "get_total_yield"} -> BOOLEAN] :
        reading' = [reading EXCEPT !.server = @ \/ reading.known, !.source = @ \/ reading.known,
                                 !.stats = ArenaStats(works)]

ReaderNext == MoveOn \/ JoinThroughBackend \/ GetArenaStats
=============================================================================
