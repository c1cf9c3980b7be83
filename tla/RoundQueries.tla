---------------------------- MODULE RoundQueries ----------------------------
(***************************************************************************)
(* What the backend computes from the rounds and elimination_logs tables   *)
(* when it is asked: the leaderboard (one SQL statement) and a user's own  *)
(* figures (Prisma queries folded in the process). Rows still open have no *)
(* choices, as metadata is written by the resolution.                      *)
(***************************************************************************)
EXTENDS Rounds

Resolved == {n \in Rows : rounds[n].state = "RESOLVED"}
ArenasOf(rows) == {ArenaOf[n] : n \in rows}
Played(u) == {n \in Resolved : u \in rounds[n].choices}
Eliminations(u) == {l \in logs : l.user = u}
Lost(u) == ArenasOf({l.row : l \in Eliminations(u)})

\* Every payout of a row to one user.
PaidIn(n, u) ==
    SumFunctionOnSet([p \in rounds[n].payouts |-> p.amount],
                     {p \in rounds[n].payouts : p.userId = u})
YieldOf(u) == [n \in Rows |-> PaidIn(n, u)]

-----------------------------------------------------------------------------
\* LeaderboardController.buildRankedPlayers: round_stats, elim_stats and the
\* final SELECT, before it is sorted by totalYield and arenasWon.

\* Mutant of arenasWon: elim_stats not joined.
arenasWonUnjoined(u) == Cardinality(ArenasOf(Played(u)))

\* GREATEST(0, arenas_participated - arenas_eliminated)
arenasWon(u) == Max({0, Cardinality(ArenasOf(Played(u))) - Cardinality(Lost(u))})

survivalStreak(u) == Max({0, Cardinality(Played(u)) - Cardinality(Eliminations(u))})
totalYield(u) == SumFunctionOnSet(YieldOf(u), Played(u))
Ranked == {u \in Users : Played(u) # {} \/ Eliminations(u) # {}}

-----------------------------------------------------------------------------
\* UsersController.aggregateStats.

countGamesPlayed(u) == Cardinality(ArenasOf(Played(u)) \cup Lost(u))
countGamesWon(u) == Cardinality(ArenasOf(Played(u)) \ Lost(u))
sumYieldEarned(u) == SumFunctionOnSet(YieldOf(u), Resolved)

\* yieldByUser holds every id a payout names, addresses included. An unpaid user
\* has no rank.
computeRank(u) ==
    IF sumYieldEarned(u) = 0 THEN None
    ELSE 1 + Cardinality({v \in Users \cup Wallets : sumYieldEarned(v) > sumYieldEarned(u)})

-----------------------------------------------------------------------------
\* ArenaStatsService.getArenaStats, and the two lists of an arena's participants.

RowsOf(a) == {n \in Rows : ArenaOf[n] = a}
LoggedOut(rows) == {l.user : l \in {k \in logs : k.row \in rows}}

\* playerCount is what the contract answered, 0 when it could not be read, or, without a
\* contract, the number of the arena's pools.
survivorCount(a, playerCount) == Max({0, playerCount - Cardinality(LoggedOut(RowsOf(a)))})
currentRound(a) == IF RowsOf(a) = {} THEN 0 ELSE Max(RowsOf(a))

\* GET /arenas/:id/participants: those of the latest round.
participants(a) ==
    LET n == currentRound(a)
    IN  [u \in rounds[n].choices |->
            IF u \in LoggedOut({n}) THEN "ELIMINATED"
            ELSE IF rounds[n].state = "OPEN" THEN "READY" ELSE "ACTIVE"]

\* ArenaController.buildParticipantList: those of the first round, over all rounds.
buildParticipantList(a) ==
    [u \in rounds[Min(RowsOf(a))].choices |->
        IF u \in LoggedOut(RowsOf(a)) THEN "ELIMINATED" ELSE "ACTIVE"]

-----------------------------------------------------------------------------
\* The same figures reach a player from two queries written apart. The
\* leaderboard never credits a win or a survived round that the player's own page
\* denies, nor a yield it does not show, and everybody with a figure on the page
\* is on the leaderboard. Who is out of an arena on one page is out of it on every page
\* that lists it at all (a player who first chose after the arena's first round is not
\* on the arena's own page). Wherever the statistics count the players by a set that
\* holds everybody who is out, the survivors are those of it no page has as lost; where
\* the read failed and the count is 0 they say nothing.
PagesAgree ==
    /\ \A u \in Users :
        /\ arenasWon(u) <= countGamesWon(u)
        /\ countGamesWon(u) <= countGamesPlayed(u)
        /\ totalYield(u) <= sumYieldEarned(u)
        /\ survivalStreak(u) > 0 => countGamesPlayed(u) > 0
        /\ countGamesPlayed(u) > 0 <=> u \in Ranked
        /\ computeRank(u) # None <=> sumYieldEarned(u) > 0
    /\ \A a \in ArenasOf(Rows) :
        /\ \A joined \in SUBSET Users : LoggedOut(RowsOf(a)) \subseteq joined =>
               survivorCount(a, Cardinality(joined)) =
                   Cardinality({u \in joined : a \notin Lost(u)})
        /\ \A u \in DOMAIN participants(a) :
               participants(a)[u] = "ELIMINATED" =>
                   /\ a \in Lost(u)
                   /\ u \in DOMAIN buildParticipantList(a) =>
                          buildParticipantList(a)[u] = "ELIMINATED"
=============================================================================
