# Inverse Arena: a verification development

Inverse Arena is an elimination game with money at stake. Players pay an entry fee
into an *arena* contract on Soroban, the arena lends the fees to a yield *vault*,
rounds of a commit-reveal vote eliminate the majority, and the last player claims
the stakes with the yield. A TypeScript backend mirrors the rounds in a database,
builds and submits payouts, and streams events to a Next.js web application, which
builds the players' and hosts' transactions and keeps their salts.

This directory holds TLA+ modules for those parts, TLC configurations that check
them on small instances, and proofs that TLAPS checks for every value of the
constants. Paths are relative to the repository's root; of the web
application and the backend often only the file's name is given.

## 1. Inventory

| Part | State it keeps | Operations | Modules |
|---|---|---|---|
| Arena, `contract/arena/src` | config, players and entries, commitments, choices, results, winner, refunds, limits, bans, admin | its entry points, from `join_arena` to `claim_refund` | `Arena`, `Eliminations`, `EliminationGame`, `ArenaProofs`, `MCArena` |
| RWA adapter, `contract/rwa-adapter/src` | a position per depositor, the total, an admin | deposit, withdraw_all, balance_of, admin handover | `RwaAdapter`, `ArenaVault`, `ArenaVaultProofs` |
| Staking, `contract/staking/src` | totals and a position per staker | stake, unstake, distribute_rewards, pause | `Staking`, `PoolsProofs` |
| Factory, `contract/factory/src` | settings, registries, pools, creator stakes, active-pool counts | settings, create_pool, release_arena, reclaim_creator_stake, update_arena_status | `Factory`, `PoolsProofs` |
| Payout, `contract/payout/src` | a mark per payout id, a treasury | distribute_winnings, distribute_batch | `PayoutContract` |
| Payments, `paymentService.ts`, `paymentWorker.ts`, `txReconciler.ts`, repositories | transactions, the BullMQ queue | create, sign, submit, confirm, retry, dead-letter | `Payments`, `PaymentsProofs`, `TransactionStore` |
| Rounds, `roundService.ts`, `roundRepository.ts` | rounds and elimination logs | open, close, resolve against the chain | `Rounds`, `BackendProofs` |
| Queries, `arenaService.ts`, `arenaStatsService.ts`, `onChainReader.ts` | none | leaderboard, own figures, statistics, reads of the contract | `RoundQueries`, `ChainReader`, `BackendProofs` |
| Caches and pages, `cacheService.ts`, `middleware/cache.ts`, `routes/pools.ts` | cached answers, cursors | get, store, invalidate, next page | `ResponseCache`, `Paging`, `RequestsProofs` |
| Sessions, `authService.ts`, `sessionStore.ts` | nonces, refresh tokens, identifiers in Redis | nonce, login, refresh, sign out of one pair or of all | `Sessions`, `RequestsProofs` |
| Admin tokens, `adminService.ts`, `admin.controller.ts`, `auditLog.ts` | confirmation tokens, two audit logs | issue, confirm three kinds of operation | `AdminTokens`, `RequestsProofs` |
| Rate limits, `middleware/rateLimit.ts`, the web server's `limiter.ts` | buckets in Redis and in memory | consume | `RateLimit`, `RequestsProofs` |
| Event stream, `arenaPoller.ts`, `circuitBreaker.ts`, `useArenaStream.ts` | subscribers and last snapshot, breaker, the page's connection | subscribe, poll, fan out, reconnect, watchdog | `ArenaStream`, `BackendProofs` |
| Web transactions, `stellar-transactions.ts`, `commit-reveal.ts`, `TransactionModal.tsx` | the attempt under way, salts in the browser | build, sign, send, poll; review, confirm, try again | `WebTransactions`, `ContractInterface`, `WebProofs` |
| Screens | React state | clicks, timers, answers | `ArenaPage`, `HostDashboard`, `HostForms`, `ArenaLobby`, `WebQueries`, `GamesBrowser`, `Wallets`, `PageOverlays`, `SharedParts`, `WebProofs` |
| Simulation, `scripts/simulate-game.ts` | the simulated players | one round | `Simulation` |
| Oracle, legacy arena, build and schema | | | not modelled (section 6) |

**Interactions.** The factory deploys and initialises arenas. An arena calls the
stake token and the vault inside its own transactions; the vault's answer, or its
failure, decides what the arena does. Several arenas share one vault and its
tokens. The backend resolves rounds through the chain and reads the result back;
its poller turns what it reads into events for every open page. The payment
pipeline talks to the payout contract through the RPC: the payout is signed, sent,
and its result polled by a second worker fed by a queue. The web application sends
to the contract by itself and hears of the game from the backend: the two views of
one round meet only on the page.

**What is hard.** A contract call is atomic, so the difficulty of the contracts is
in long sequences of legal calls by several parties: joins between rounds, expiry
racing resolution at the deadline, settings changed in the middle of a game, a vault
that fails in one call and not in the next. The backend interleaves at every
`await`: requests decide on records they read before a call and write them by id
after it; a send that timed out may still arrive; the process may stop between a
database write and the queue. On a screen every answer is applied by a closure of
an older render, beside timers, clicks and other answers: what it captured may be of
another round, another search, another attempt.

`PROJECT.json` lists every component, and every hazard of this code at its line with
the properties that cover it.

## 2. Modules

    MCArena -> Arena -> Eliminations, EliminationGame        RwaAdapter  Staking  Factory
                ^  ^-- ArenaVault ------------------------------^  \______ | ______/
           ArenaProofs       ^-- MCArenaVault                           MCPools
                ^-- ArenaVaultProofs -> ArenaVault           PoolsProofs -> Staking, Factory
    MCPayments -> Payments -> PayoutContract                 PaymentsProofs -> Payments
    MCRequests -> Sessions, AdminTokens, ResponseCache, Paging, RateLimit, Simulation,
                  TransactionStore, ChainReader
                      RequestsProofs -> the first five of them
    MCRounds   -> RoundQueries -> Rounds;  ArenaStream
                      BackendProofs -> RoundQueries, ArenaStream
    MCWeb      -> ArenaPage, HostDashboard, ArenaLobby -> WebTransactions
                  and every other module of the screens
                      WebProofs -> these three, WebQueries, Wallets, GamesBrowser
    FiniteSums: sums over finite sets, for the proofs of pools, payments, requests, backend

**Contracts.** `Arena` has a variable for each field of the stored configuration and
each family of storage keys, and one action per entry point, enabled exactly when the
call returns `Ok` (a failing call is rolled back by the host and is no step). What an
entry point does on the way, clearing the round's entries, counting, ranking the
leaderboard, is part of its action. Commitments and choices are sets of entries keyed
by player and round, as in storage, so an entry that outlives its round stays visible.
A commitment is what it opens to; SHA-256 is taken as binding, and `Junk` is a
commitment that opens to nothing. The vault is a parameter: every action that calls it
takes the answer as an argument, a member of `VaultAmounts` or `None` for a failed
`try_` call. `Eliminations` is the survival rule as functions of the votes.
`EliminationGame` is the abstract promise: phases with the edges of `state_machine.rs`,
players who are in or out, a champion, stakes handed out once; `Arena` maps itself onto
it (`Game`), and `ImplementsGame` is a property of the run `arena_game` and a theorem.
`RwaAdapter` is the vault with its order of roundings and its yield measured from the
epoch; tokens reach it from outside only (`Fund`). `ArenaVault` joins each arena call
and the adapter calls it makes into one step, and adds another arena as a second
depositor. `Staking` keeps the contract's integer divisions. `Factory` creates pools
under the admin's settings, with what the new arena's own `initialize` refuses, and
lets arenas call back in any order.

**Payments.** `Payments` splits each request handler, the batch worker and the
confirmation worker at their awaits. `db` is the collection under its unique index,
`jobs` a bag of queued confirmations, and the network holds transactions that are
pending, late or expired, applied in the order of the source account's sequence
numbers. A handler keeps the copy of the record it read. Crashes lose the handlers and
keep the database, the queue and the network. The operator may pay an id by hand: a
dead-lettered payout is logged as "manual intervention required"
(`paymentWorker.ts:150`). `TransactionStore` is the record's three stores, for
PostgreSQL, memory and MongoDB, with their nonces, keys and lists; `server.ts` uses Mongo.

**Requests** (`MCRequests`). Parts without common state; a behaviour is about one of
them. In `Sessions` and `AdminTokens` an action is what a handler does between two
awaits, and any call of Mongo or Redis may fail. `ResponseCache` keeps versions of the
tables and the age of an entry; `Paging` cursors over lists that grow between the pages;
`RateLimit` fixed windows in two stores. A Redis pipeline that loses a command is still
answered, so a sign-out may leave keys alive; `leftAlive` remembers which. A query of
eliminations may return rows of one insert in any order, as their times are equal. `ChainReader` is how the backend reads a
contract: by simulating a call from an account that must exist, with a default for
whatever fails.

**Rounds and stream** (`MCRounds`). `Rounds` resolves and closes rows over a ledger
that answers late or not at all; `RoundQueries` computes each page from the stored
result. `ArenaStream` is the poller with its breaker, subscribers, events on their way,
and the hook that loses, misses and renews its connection.

**Web** (`MCWeb`). `WebTransactions` is the one confirm handler a page can have
running (`op`): the values its closure captured and the await it is suspended at, over
a network that includes a transaction at any time or never, whatever the browser has
been told, and the dialog around it. `ArenaPage`, `HostDashboard` and
the form of `ArenaLobby` are the screens that send, each with the state its handlers read.
`ContractInterface` is what comes of a failure on its way to the player's eyes, and
what the event parser makes of the contract's events. The other modules
are screens and hooks with requests of their own: the rest of `ArenaLobby` (the participants,
the flags and errors around them), `WebQueries` (polling; the leaderboard's hook, podium,
table and "Load More"; the profile), `GamesBrowser` (URL, filters, search), `Wallets` (four independent hooks over the wallets of a tab),
`PageOverlays` (what the arena page displays, the overlays and the held button), `HostForms`
(validation), `SharedParts` (modals, notifications, copied links, countdown and tickers).

`MC*` modules hold constants, symmetry, the choice of a part (`focus`) and the
definitions only runs need. In `MCWeb` a `VIEW` tells states apart by the part in focus;
the others never leave their one initial value, so it merges no two states. That of `MCRequests`
forgets what the sessions cannot tell apart. A token's identifier has a key once: when it is gone, no step and
no property depends on whether the index, a listing or `leftAlive` still names it, but for whether the
listing was empty; and an expired nonce is as good as a used one. Definitions commented `Mutant` are wrong variants of a
definition below them: each property was seen to fail under one of them, so that none
holds by the shape of the model.

## 3. Runs

| Run | Instance | Question |
|---|---|---|
| `arena_game` | 3 players, room for 2 or for 4, durations 0 and 1, clock to 3, a vault answering 0, 7 or failing | Is every complete game right, in every order of calls, and a game of `EliminationGame`? |
| `arena_settings` | 2 players, 4 limit pairs (3 invalid), leaderboard sizes 1 and 100, a player who may become admin | Does a game survive everything the admin may change? |
| `arena_on_vault` | 3 players and another arena on the adapter, funded or not | Do the two contracts' books agree? |
| `pools` | 2 depositors; 2 stakers, amounts up to 5, rewards 1 or 4; 2 hosts, 2 pools, 2 tokens, 4 limit pairs | Does a rounding favour the caller; is every creator's stake there to be paid back? |
| `payments` | 2 payouts, 2 handlers, 3 signing modes, 1 crash, 2 attempts each | Can a winner be overpaid, or a record confirmed unpaid? |
| `requests` | 2 concurrent handlers and 2 token pairs; 2 admin requests; 2 readers of a cache; pages of 1 or 2 over up to 4 rows; 2 addresses, 1 wallet, 2 stores; 2 stored payments | What is retired, confirmed, cached, listed or limited: does it stay so when requests interleave and stores fail? |
| `rounds` | 2 resolutions and a close over two rounds of one arena; 3 players, 2 pages on one stream | Does the database only say what the chain did, is what a page hears of it in order, and does a page recover? |
| `web` | one screen per behaviour, two of everything that can overlap | Does a screen show, build, store and order what it should? |

What the properties say, by run (each is stated in words above its definition):

* `arena_game`: the stored lists describe one roster (`RosterConsistent`), a winner is
  the sole survivor, refunds are covered whatever the vault answers, nobody is paid along
  two ways, a reveal opens its own commitment, nobody commits once a choice is public,
  the minority survives, and the eliminated stay so.
* `requests`: a refresh token that was exchanged is dead for every later request
  (`RetiredForGood`), signing out everywhere covers every pair whose creation was complete, the
  keys Redis failed to delete apart (`SignOutCovers`), a confirmation token is used once except by
  overlapping requests (`OneOperationPerToken`), the audit trail claims nothing that failed and
  holds every success that was answered, reindexing apart, which does nothing (`AuditTrailTrue`), stale
  statistics are gone after the entry's time (`StatsBoundedlyStale`), paging loses no row
  that was there, ties at a page's end apart (`NothingSkipped`), a wallet's points are bounded (`WalletLimited`).
* `rounds`: the database is never ahead of the chain, a round resolves twice only after
  a late close, the leaderboard, a user's own figures and the arena's page agree on whom they list (a player
  who first chose after the first round is not on the arena's own page), the statistics count the survivors
  these show when their count of players holds everybody who is out, an arena has one poll loop, the
  feed is in order, and every page is connected again (`StreamRecovers`, liveness). That the feed is
  complete is not checked, nor the order within one time; `FeedInOrder` is about one page.
* `web`: a transaction reported as failed has failed, the salt is kept until the choice
  is revealed and what was submitted can be revealed, what was reviewed is built, lists
  end where they say, an older answer never replaces a newer one, a connection is not the late
  answer of a dismissed attempt, the URL says what the search box shows unless a click on what is shown
  already swallowed its navigation, the list is of what was asked for.

**Why the bounds are enough.** Three players are the fewest with a majority, a
minority, and a game of two rounds whose first eliminates somebody; the clock leaves
room for two rounds and an expiry. The vault answers 0 and 7 lie below and above every
sum of fees. In `arena_settings` two players are the fewest that start a round, so every
change of limits or bans crosses a boundary. Staking amounts include 1, values below and
above `MinInitialStake`, and rewards that make every division inexact. Two handlers are
enough for every race between a reader and a writer of one record, two attempts for a
retry after a first failure, two pools for one arena to be paid another creator's stake. On a screen a race is between two requests of one kind, or a
request and a click: two of each under way, and a third value (a page, a row, a round)
that tells an older from a newer answer.

**Bounds named in the modules.** `MaxTime`, `LastTime`, `MaxPrincipal`, `MaxTokens`,
`MaxStaked`, `MaxGain`, `MaxPools` (contracts); `MaxCrashes`, `MaxLoad`, `MaxStored`,
`MaxPairs`, `MaxNonces`, `MaxVersion`, `MaxRows` (backend); `MaxSalts`, `MaxSent`,
`MaxPolls`, `MaxInFlight`, `MaxCalls`, `MaxClicks`, `MaxAsks`, `MaxFinds`, `MaxCallsOut`, `MaxLoops`,
`MaxNotified`, `MaxCopies`, `MaxPerKind`, `MaxMores`, `MaxRanked`, `MaxSeconds`,
`MaxIntervals`, `MaxReads`, `MaxLookups` (web). They appear in guards only. Deadlock is
checked in `pools` and `arena_settings`, where a step is always possible; elsewhere a
finished game at the end of the clock, a settled pipeline or a screen nobody touches
really stops.

### Fairness

Safety is checked without fairness: every actor may stop for good, and that is what the
code allows. Rounds are resolved when an admin calls, players leave, and `POST /worker/run`
is triggered from outside. The arena has therefore no liveness property: nothing in the
code makes any call happen. The stream does drive itself, by timers: `FairStream` says
that timers go off, that a poll in flight ends, that the server accepts connections and
hears of those that were closed, and that the RPC heals in the end (`Heal`). Nobody is
made to mount, leave or play. Under it `StreamRecovers` holds whatever state the breaker,
the poller and the page's timers were left in. `FairSpec` in `MCPayments` (requests,
batches, jobs and ledger make progress) belongs to the liveness counterexample
`payments_dead` alone and shows that even a diligent environment does not help.

## 4. Where code and documents disagree

Four runs expect a violation; each states what a document or comment says.

* `arena_no_survivor`: a round nobody reveals in finishes the game with no winner, and no
  call gives the stakes back. `docs/RWA_YIELD_FLOW.md` says a survivor is guaranteed.
* `payments_dead`: the schema of the collection rejects the status `dead`, so an exhausted
  payout stays at the head of every batch.
* `web_duplicate`: a stake or a pool creation without a time bound is the same transaction
  when it is tried again, is answered `DUPLICATE`, and is reported as failed while the first
  may still land.
* `web_salt`: every attempt to commit overwrites the salt under its round before anything
  is sent; the salt of the commitment that lands may be gone.

The models follow the code in the following as well, which no run singles out.

**Contracts.** A tie eliminates nobody and a unanimous round nobody who revealed
(`eliminations.rs:45-50`, with its tests; `MinoritySurvives` says so), where
`docs/RWA_YIELD_FLOW.md:128` has one random side of a tie advance, and `:141` a random subset
of a unanimous round. A deposit is reported with interest since 1970 at once
(`rwa-adapter/src/lib.rs`), and a claim is capped by what the adapter holds, which no deposit
gives it and all arenas share: the last to withdraw may find less than was booked for its winner.
A balance query that fails as a round starts counts as a balance of 0, and the whole balance,
principal included, is booked as that round's yield (`lib.rs:568`). `start_round` accepts any duration, 0 included, where its comment names bounds;
`cancel_arena` pays nobody, players must claim; `Cancelled` is described as "before start"
and reachable in a running round. The admin may be handed over to a player who has joined, and
the creator's counter of pools is decremented under whoever is admin at the end. `propose_upgrade`
replaces a pending proposal. A staker's `amount` can go below zero, as rewards are
subtracted from it. Yield earned while no round is in play belongs to no round. The
factory keeps registries of vaults and oracles that `create_pool` does not read, allows
1000 players where the arena refuses more than 100, and takes a release as often as an
arena sends it; an arena that reclaims its stake first cannot be released any more. No arena
of this repository calls the factory back at all, so no stake and no slot is ever freed.

**No contract exports everything the backend reads.** `contract/arena` has no `game_state`,
`get_player_count` or `get_winner`; the legacy arena has the first two. `ChainReader` has
both. The winner's answers in `Rounds` are those of the contract the backend expects.
Each read is simulated from a random, unfunded account, falls back to a default on every error, and
`arenaStatsService`'s own fallbacks never run.

**Backend.** A payout submitted through the API has no confirmation job. A late answer of the RPC
overwrites `confirmed`. Two requests that both find a nonce or a refresh token unused get a pair of tokens
each, and two that both find a confirmation token unused may both act on it. A login that has stored its pair and not yet registered its identifiers
survives "sign out everywhere". A key whose deletion fails inside the pipeline, whose results nobody reads
(`sessionStore.ts:77`), stays alive under an answer of success, and if the index was deleted no later
sign-out finds it; its refresh row is revoked all the same. "Pool reindex queued" is answered and logged as
a success, and nothing is queued (`admin.controller.ts:132`); an update that is done before its log entry
fails is logged as failed. A posted yield is overwritten by a `GET` that missed it. `POST
/api/arenas` lacks imports and always throws. `prisma.$transaction` is given a promise that is not
Prisma's (`arenaService.ts:115`). Error bodies are cached as 200 (`middleware/cache.ts:28`).
`confirmArenaDeployment` does not check the factory, as its comment says. A round resolved on chain stays open in the
database when anything fails after it, and the next attempt resolves the chain's next round.
`POST /rounds/resolve` takes its players as UUIDs and compares them with the addresses the contract answers
(`roundService.ts:132-136`): no UUID is one, so every player it names is stored as eliminated, while a
payout names an address. Eliminations written together have one time, by which alone they are listed
(`routes/pools.ts:125`): one may be skipped or listed twice where a page ends among them. A failed player count
reads as 0, which the poller takes for the end of the game and the statistics for no survivors, a failed
state as "Open", and a failed `sync-players` says "Synced 0". The
breaker's counters are never reset while it is closed. `simulate-game.ts` eliminates the side the contract lets survive.
SQL's `update` writes every column of the row it read; its nonce and Mongo's are a maximum
plus one, which two writers may both reserve: SQL's index refuses the second, Mongo keeps both.

**Stream.** `__heartbeat` is a named event, not a comment, and an event named `error`
reaches `onerror`: every client reconnects (`useArenaStream.ts:64-71`).

**Transactions of the web application.** Joining, committing, revealing, claiming and creating are composed
without `prepareTransaction`. `get_full_state` and `get_arena_state` exist in no contract, so
`updateArenaState` and the builder of a claim always fail and nobody is seen as joined. Salts are stored per
round, not per player. A contract's panic is told in the arena's words whichever contract it came from;
`tx_too_late` becomes a timeout without a hash; missing configuration of a pool's vault or oracle is `UNKNOWN`.
The event parser looks for named fields in tuples: every event it knows loses its round, its choice or its
winner, "elim" becomes `PlayerJoined`, and the others are unknown to it.

**The arena page.** The round on the page may lag or lead the chain, and a commit that confirms late marks
the round shown now as committed. The dialog shows one round and builds another. `hasWon` is shown to everyone in a
settled snapshot. "TIME EXPIRED" stays when a commit in flight is confirmed; a new round within the
commit phase does not restart the timer. A reconnect opens the round overlay again after "proceed"; a finger
starts two loops of the held button and stops one; a settled snapshot can open both overlays.

**Host.** Escape while the dialog is signing closes and resets the pool form, and "Try Again" builds the
defaults. The success screen is shown only when nothing was sent. The stake form's timer of 1.5 s survives its closing.
A form of defaults closed unchanged is invalid when it is opened again, with no error shown. While the balance loads
the maximum is 0. Switching to USDC and back truncates the amount.

**Lobby.** The form sends only for an open arena, while the contract commits only in an active one, and its
commitments can be revealed on the arena page of the configured arena alone. "Submitted" is not taken back in the
next round. Rows regress and vanish with late answers; one round's cursor on the next one's list hides rows under "End of list",
which is also shown before any answer. A success of one request hides the error of another, the first
answer ends "loading" for all.

**Lists and hooks.** "Load more" clicked twice fetches and shows rows twice, a failed page removes the button for good.
`usePolling` shows a `TypeError` of its own when a call is cancelled early. `useArenaState` keeps the loop of an older arena.
A click on the tab or the sidebar link that is shown already discards a navigation under way and renders
nothing, so that the box and the query string stay apart until either changes (`GamesFilters.tsx:40-44`).
An error of an invalid search is replaced by an older result; a debounced search discards a tab clicked meanwhile, and on mount
with `?q=` removes it for 500 ms. The profile replaces every failure by invented data, so its error never appears.
An interval started while the tab is hidden outlives `pause` and announces the end of time again.

**Calls taken for what they are meant to do.** `Api.assembleTransaction` (`roundService.ts:68`) is no
function of the SDK's `Api`, and `Address.fromScAddress` is given an address that is already a string
(`paymentService.ts:386`, `arenaService.ts:77`): by the SDK's interface all three throw. The SDK is not part
of the repository; the models take the calls as successful, to say something of the code around them.

**Wallets and dialogs.** Four hooks know nothing of each other: leaving the lobby disconnects the kit
under a provider that says "connected"; a flag against reconnecting stands beside a hook that reconnects on
mount; a balance that comes late is shown for another address; a passkey registers after "Cancel". When two modals
close together the outer one restores the scroll lock of the other for good (`Modal.tsx:121-139`). Notifications that
are evicted keep their timers. A second copy within two seconds loses its "Copied" early.

## 5. Proofs

Seven modules hold 44 theorems on 310 lemmas; `FiniteSums` holds 19 lemmas more. Each
safety invariant and each action property of a passing run is stated by one of the
theorems, for every value of the constants.

**The arena.** `ArenaProofs` has 13 theorems, for every set of players, fee, duration,
limit, vault answer and time: `TypeCorrect`; the invariants `RosterConsistent`,
`WinnerIsSoleSurvivor`, `RefundsCovered`, `PaidOnce` and `RevealsOpenCommitments`;
`NoCommitAfterReveal`, `MinoritySurvives` and `EliminationIsFinal` as properties of every
step; `RoundsNeedOpponents` from an invariant of its own; `PausedGameStands`, that nothing of
a paused game moves but a forced cancellation and refunds; and `ImplementsGame`, that the
contract refines `EliminationGame`.

**The invariant.** Most of these are not inductive by themselves. `RefundsCovered` says
the arena holds enough for every refund still due; that a cancellation makes it so
depends on the number of players, hence on `RosterConsistent`; that a refund keeps it so, on
who is in `refunded`, hence on `RefundsFollowCancel`, which only strengthens. `PaidOnce`
needs to know that a winner is the only one left and that refunds exist only after a
cancellation. `Sound` is the conjunction of all of them with `TypeOK`. `Init` implies it, each
action preserves it (one step of the proof per entry point), and the theorems follow from
`ArenaIsSound`. The step properties are then proved of a step from a `Sound` state.
`MinorityRule` is the lemma about `Eliminations` on which `MinoritySurvives` rests.

**The refinement.** One lemma per entry point shows that its step, from a `Sound` state, is
the move of the abstract game it stands for: `Join` is `Enter`, `StartRound` is `Begin`,
`ResolveRound` is `End`, `ExpireArena` is `Abandon`, the two cancellations are `Cancel`,
`ClaimRefund` is `Refund` and `Claim` is `Award`; commitments, reveals, settings and the
clock change nothing it sees. `PaidOnce` is what makes `Abandon`, `Refund` and `Award` pay
each player once, and the validated limits (`LimitsHold`) are what gives `Begin` its opponents.

**The arena on the adapter.** `ArenaVaultProofs` proves `PositionMatchesRoster` and
`PayoutWithinVaultBalance` of the two contracts together, for every rate of interest, start
of the clock and deposit of the other arena. The invariant `VaultSound` adds what they rest on:
after its one withdrawal the arena takes no more fees (`WithdrawnIsOver`), and until then the fees and the
yield counted are at most the balance last seen, and that at most what the adapter says
now (`YieldIsBooked`). The last holds because interest, with both its divisions, only grows
with the principal and the time (`InterestMonotone`). `AdapterIsAVault` shows that the
composition implements `Arena`, so that every theorem about the arena holds of it: the
adapter only ever answers with natural numbers, because its tokens are never
overdrawn. It assumes that `VaultAmounts`, which has no part in `VaultSpec`, holds them all.

**Sums.** Several invariants are about sums: of positions, of stakes on record, of what the
winners were sent. `FiniteSums` proves what is needed of `SumFunctionOnSet`: that an element
adds its value in whatever order the sum is taken, that sums of equal, greater or zero values
are equal, greater or zero. The library's induction rules take an operator as a parameter, which
no prover here can instantiate; the lemmas use the least counterexample instead, which exists
because `<` on the naturals is well founded.

**Staking and factory.** `PoolsProofs` proves `ShareValueNeverFalls`. A stake buys
`amount * shares \div total` shares and an unstake returns `n * total \div shares` tokens: rounding down
favours those who stay, provided nobody holds more shares than there are. That is what
`StakingSound` says: the shares are the sum of the positions, and the tokens are those staked.
`StakesCovered` holds because the tokens of each kind that the factory holds are exactly the sum
of the stakes on record (`FactorySound`), and pools are numbered in order, so that a new record
replaces none.

**Payments.** `PaymentsProofs` proves `ConfirmedWasPaid` for any number of handlers, retries,
late sends and crashes. `PaymentsSound` says that whatever a handler or the worker holds for a
record, a transaction or the answer to one, pays whom the record names (what
`assertSignedTransactionMatches` checks), that a record submitted has a hash and one confirmed
has been paid for, and that the ledger applies a transaction once (`AppliedOnce`). One lemma per
step of a handler says what it goes on with. `NeverOverpaid` is about sums over the ledger: the
payout contract marks an id before it pays it, so what a winner has received is at most the sum,
over the ids marked so far, of what the id names for it.

**Rounds, pages and stream.** `BackendProofs`. `RoundsSound` gives each resolved row a request
whose transaction was accepted, for that row alone, from which `DatabaseNeverAhead` follows, and
says that a row with logs stays resolved but for a late close, from which
`ResolvedTwiceOnlyAfterLateClose` does. `PagesAgree` compares the queries as sums and counts
over arbitrary rows and logs. `StreamSound` relates what pages show to what happened and to what
the poller has marked as seen; with it an arena has one loop (`OneLoop`) and the feed stays in
order (`FeedInOrder`) over any number of connections.

**Requests.** `RequestsProofs` has one invariant per part, each about what concurrent handlers
hold. Tokens: one that was spent is marked, so that whoever else holds it had looked it up
before. Cache: an entry was current when its load began, and a handler's load takes a bounded
time. Sessions: past its retirement a presented token has no key (`OldIsRetired`); the index
lists every live key of a pair a client holds but for those a deletion left alive, and a revocation
under way has listed it too (`Indexed`), so that nothing else is left of what it has been through
(`Covered`). Paging: the rows up to the cursor were seen, by their distance from the end of the list
that grows, or belong to an insert among whose rows a page has ended (`Accounted`): the rows of an insert
take the same places in every answer, in whatever order. Rate limits:
`WithinRoom` bounds, for *every* span of ages and not only the whole window, what was let
through by the room the two stores had: a bucket began with a request, so that the points of an
earlier window in the span are one fewer. The bound of the last window alone is not inductive,
as a tick moves it.

**The web.** `WebProofs`. The arena page: the handler of a confirmation knows its own
transaction, and what is decided on the network stays decided (`PageFailedMeansFailed`); a
reveal opens the salt that is kept (`SaltKeptUntilRevealed`). The lobby's form: the transaction
a handler sends is the last by its sequence number, so that none of the earlier attempts can
land after it and replace the commitment (`SubmittedCanBeRevealed`). The host: the form behind
the dialog is the one under review, unless it was closed. Lists: a later page was only asked for
when the rows up to its cursor were shown (`EndOfListIsEnd`, `LeaderboardHasNoGap`). Polling and
wallets: one call at most is under way, the last one made. Games: whenever the query string, the
debounced search, the box and the list differ, the timer, a navigation to another query string or
a call is under way that will settle it, unless the navigation was swallowed, and the last call is the one
about what is set.

**Assumptions**, all named in the modules and evaluated by TLC in the runs. In `Arena`: players
are a finite set, the fee is positive (`initialize` checks it), durations, amounts, limits and
bounds are naturals (`u64`, `u32`, and answers of the vault that are not negative), `None` is no
address and no number. `MIN_PLAYERS_TO_START`, 2 in the code, is at least 2: only the refinement
needs it. In `ArenaVault`: the two arenas differ, interest and time are naturals, a year is not
empty. In `Staking`: stakers are a finite set, amounts and the least initial stake are positive
(the contract refuses others). In `Factory`: hosts and tokens are finite sets, fees are
naturals. In `Payments`: idempotency keys are finitely many, requests name one of them and a
payout, and `None` is no record or key. In `Rounds`: requests, users and rows are finitely many,
a poll is tried at least once. In `Sessions`, `Paging`, `ResponseCache` and `RateLimit`:
handlers and addresses are finitely many; page sizes, the entry's time, points and seconds are
positive, as `readPositiveInt` and the schemas ensure. In `WebTransactions`, `ArenaLobby` and
`GamesBrowser`: the values that stand for "none" are none of the values they stand beside,
rounds and page sizes are positive. In `HostDashboard`: stakes are naturals, the least one is
positive and the default form is a form. Every one is listed by `grep -A4 '^ASSUME' *.tla`.

**Only model-checked.** `StreamRecovers`: liveness under fairness, and `ENABLED` with it, are
out of the prover's reach. The four counterexamples, each one behaviour. Parts without a
property of their own (the record stores, the chain reader, the simulation, overlays, forms and
shared parts) are only run: every action of theirs is taken, and nothing is claimed beyond that.
What a recursive computation returns for every input cannot be proved here; the modules under
proof use recursive functions or folds only where a lemma above covers them.

## 6. What is not modelled, and why

* Signatures and `require_auth`: an action takes as its caller whoever the code would accept.
* Storage TTLs: entries do not expire while the game they belong to is being extended.
* The reentrancy guard: a call is one step, so there is nothing to re-enter.
* Widths of integers: fees, counts and times stay far below `u32`, `u64` and `i128`; the
  code saturates or traps there. `get_arenas` overflows at the largest offset and is left out.
* A vault answering with negative amounts: the interface is an `i128`, the adapter never does.
* The oracle contract: one rate with a ceiling and an admin; `resolve_round` stores the
  rate with the round, and no payment depends on it.
* `upgrade` entry points and the arena's timelock: they change nothing of the state until
  the code itself is replaced.
* The legacy arena (`contracts/arena`), an earlier copy outside the contract workspace; only what
  the backend reads of it is in `ChainReader`.
* Events, logs, metrics, headers, generated documentation; build, deployment and schema.
* Pages that show constants or mocks (the admin dashboard, the result pages, `mockFactory.ts`),
  layout, wording and animation, pure formatting and validation of input, and code nothing calls.

## 7. Plan

Done: everything in section 2, in the order contracts, payments, requests, rounds and
stream, web, and the proofs of section 5 in the same order. What remains:

1. Abstract specifications for the pipeline (a payout is open, sent, paid or given up) and for
   the stream (what happened, and what a page has seen of it), with the refinements that today
   are implied by `ConfirmedWasPaid`, `NeverOverpaid` and `FeedInOrder`.
2. The factory with arenas that call it back, once an arena of the repository does.
