------------------------------ MODULE RateLimit ------------------------------
(***************************************************************************)
(* The rate limiters in front of the auth and pool routes, the backend's   *)
(* middleware and the web server's: fixed windows per key, kept in Redis,  *)
(* and in the memory of the process while Redis does not answer. A request *)
(* on a route with two scopes takes a point of its address's bucket and    *)
(* then one of its wallet's.                                               *)
(***************************************************************************)
EXTENDS Integers, Sequences, FiniteSets, Functions

CONSTANTS
    Ips, Wallets,   \* addresses and wallets; NoWallet stands for a body without one
    NoWallet,
    Points,         \* points of a window
    Window          \* its length in ticks

\* readPositiveInt lets no smaller number of points or seconds through.
ASSUME LimitConstants == IsFiniteSet(Ips) /\ Points \in Nat \ {0} /\ Window \in Nat \ {0}

Stores == {"redis", "memory"}

VARIABLES
    dualScope,      \* whether the route of this behaviour has two scopes
    buckets,        \* what each store holds: key -> [count, left], left in ticks
    admitted        \* ghost: requests let through, per address, wallet and age

limitVars == <<dualScope, buckets, admitted>>

Ages == 0..(Window - 1)

LimitInit ==
    /\ dualScope \in BOOLEAN
    /\ buckets = [s \in Stores |-> [k \in {} |-> 0]]
    /\ admitted = [who \in Ips \X Wallets |-> [age \in Ages |-> 0]]

\* Mutant of buildRateLimitKeys: the wallet's bucket is forgotten.
ipKeyOnly(ip, wallet) == <<<<ip>>>>

\* The keys a request takes a point of, in order.
buildRateLimitKeys(ip, wallet) ==
    IF wallet = NoWallet THEN <<<<ip>>>>
    ELSE IF dualScope THEN <<<<ip>>, <<wallet>>>>
    ELSE <<<<ip, wallet>>>>

\* limiter.consume(key, 1). Counts past the first refusal are not told apart.
Consumed(held, key) ==
    [k \in DOMAIN held \cup {key} |->
        IF k # key THEN held[k]
        ELSE IF key \notin DOMAIN held THEN [count |-> 1, left |-> Window]
        ELSE [held[key] EXCEPT !.count = IF @ > Points THEN @ ELSE @ + 1]]

Refused(held, key) == Consumed(held, key)[key].count > Points

\* consumeKeys: the first refusal ends it; what an earlier key gave up is not given
\* back. Each consume goes to Redis or, failing that, to the insurance limiter.
consumeKeys(keys, s1, s2) ==
    LET after == [buckets EXCEPT ![s1] = Consumed(@, keys[1])]
    IN  IF Len(keys) = 1 \/ Refused(buckets[s1], keys[1])
        THEN [buckets |-> after, rejected |-> Refused(buckets[s1], keys[1])]
        ELSE [buckets |-> [after EXCEPT ![s2] = Consumed(@, keys[2])],
              rejected |-> Refused(after[s2], keys[2])]

\* The middleware: 429, or next().
Request(ip, wallet) ==
    \E s1, s2 \in Stores :
        LET keys == buildRateLimitKeys(ip, wallet)
            result == consumeKeys(keys, s1, s2)
        IN  /\ Len(keys) = 1 => s1 = s2        \* one key is consumed once
            /\ buckets' = result.buckets
            /\ admitted' = IF result.rejected \/ wallet = NoWallet THEN admitted
                           ELSE [admitted EXCEPT ![<<ip, wallet>>][0] = @ + 1]
            /\ UNCHANGED dualScope

TickClock ==
    /\ buckets' = [s \in Stores |->
           LET live == {k \in DOMAIN buckets[s] : buckets[s][k].left > 1}
           IN  [k \in live |-> [buckets[s][k] EXCEPT !.left = @ - 1]]]
    /\ admitted' = [who \in DOMAIN admitted |->
           [age \in Ages |-> IF age = 0 THEN 0 ELSE admitted[who][age - 1]]]
    /\ UNCHANGED dualScope

LimitNext == TickClock \/ \E ip \in Ips, w \in Wallets \cup {NoWallet} : Request(ip, w)

LimitSpec == LimitInit /\ [][LimitNext]_limitVars
-----------------------------------------------------------------------------
\* In any span of one window, fewer than two windows' points per store are let through
\* for a wallet, from whatever addresses, on a route with two scopes; on the others,
\* for a wallet and an address. A window begins with a request, which the next window
\* does not meet in a span.
Recent(ip, w) == SumFunctionOnSet(admitted[<<ip, w>>], Ages)
WalletLimited ==
    \A w \in Wallets :
        LET limit == (2 * Points - 1) * Cardinality(Stores)
        IN  IF dualScope THEN SumFunctionOnSet([ip \in Ips |-> Recent(ip, w)], Ips) <= limit
            ELSE \A ip \in Ips : Recent(ip, w) <= limit
=============================================================================
