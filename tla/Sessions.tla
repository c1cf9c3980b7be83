------------------------------ MODULE Sessions ------------------------------
(***************************************************************************)
(* The backend's authentication: AuthService and its controller over the   *)
(* nonces and refresh_tokens collections, and the SessionStore that keeps  *)
(* the JWT ids which have not been revoked in Redis. One wallet, one user. *)
(*                                                                         *)
(* Requests interleave at every await, and every call to Mongo or Redis    *)
(* may fail. A token pair is a number: its access and its refresh token    *)
(* have the JTIs [pair, kind].                                             *)
(***************************************************************************)
EXTENDS Integers, Sequences, FiniteSets, FiniteSetsExt

CONSTANTS
    Handlers,       \* requests served at a time
    MaxPairs,       \* bound of the model: token pairs issued
    MaxNonces,      \* bound of the model: nonces requested
    None

ASSUME SessionConstants ==
    /\ MaxPairs \in Nat \ {0} /\ MaxNonces \in Nat \ {0}
    /\ IsFiniteSet(Handlers) /\ None \notin Nat

Pairs == 1..MaxPairs
JTI(p, kind) == [pair |-> p, kind |-> kind]

VARIABLES
    nonces,         \* the nonces collection, oldest first: "unused", "used" or "expired"
    tokens,         \* the refresh_tokens collection: pair -> [used, revoked, family]
    keys,           \* auth:jti:{jti}: the JTIs with a live key
    index,          \* auth:wallet:{addr}: the set of the wallet's JTIs
    handler,        \* what each request is doing
    delivered,      \* the pairs a client holds
    \* ghost: refresh tokens whose refresh was answered, and pairs issued while a
    \* revocation of the wallet's sessions was under way
    answered, overlapped,
    leftAlive       \* ghost: JTIs whose key a revocation listed and failed to delete

db == <<nonces, tokens>>
redis == <<keys, index>>
ghosts == <<delivered, answered, overlapped, leftAlive>>
sessionVars == <<db, redis, handler, ghosts>>

NoRequest == [at |-> "idle"]

SessionsInit ==
    /\ nonces = <<>>
    /\ tokens = <<>>
    /\ keys = {} /\ index = {}
    /\ handler = [h \in Handlers |-> NoRequest]
    /\ delivered = {} /\ answered = {} /\ overlapped = {} /\ leftAlive = {}

Goto(h, at) == handler' = [handler EXCEPT ![h] = [@ EXCEPT !.at = at]]
Start(h, req) == handler[h].at = "idle" /\ handler' = [handler EXCEPT ![h] = req]
Done(h) == handler' = [handler EXCEPT ![h] = NoRequest]
At(h, at) == handler[h].at = at

\* A check that fails, or a call to Mongo or Redis that throws: nothing more is
\* done, what was written stays.
Fail(h) ==
    /\ handler[h].at # "idle"
    /\ Done(h)
    /\ UNCHANGED <<db, redis, ghosts>>

-----------------------------------------------------------------------------
\* Nonces and login.

\* requestNonce: the unused ones are marked used, then a new one is created.
requestNonce(h) ==
    /\ Len(nonces) < MaxNonces
    /\ Start(h, [at |-> "createNonce"])
    /\ nonces' = [n \in DOMAIN nonces |-> IF nonces[n] = "unused" THEN "used" ELSE nonces[n]]
    /\ UNCHANGED <<tokens, redis, ghosts>>

CreateNonce(h) ==
    /\ At(h, "createNonce")
    /\ Len(nonces) < MaxNonces
    /\ nonces' = Append(nonces, "unused")
    /\ Done(h)
    /\ UNCHANGED <<tokens, redis, ghosts>>

ExpireNonce(n) ==
    /\ n \in DOMAIN nonces /\ nonces[n] = "unused"
    /\ nonces' = [nonces EXCEPT ![n] = "expired"]
    /\ UNCHANGED <<tokens, redis, handler, ghosts>>

Unused == {n \in DOMAIN nonces : nonces[n] = "unused"}

\* verifySignatureAndLogin: the newest unused nonce is looked up and its signature
\* verified; a signature of an older nonce is refused.
verifySignatureAndLogin(h) ==
    /\ Unused # {}
    /\ Start(h, [at |-> "markNonce", nonce |-> Max(Unused)])
    /\ UNCHANGED <<db, redis, ghosts>>

\* The nonce is marked used, whatever became of it since it was read; then the
\* user is upserted and the pair issued, in a new family.
MarkNonce(h) ==
    /\ At(h, "markNonce")
    /\ nonces' = [nonces EXCEPT ![handler[h].nonce] = "used"]
    /\ handler' = [handler EXCEPT ![h] = [at |-> "issue", old |-> None]]
    /\ UNCHANGED <<tokens, redis, ghosts>>

-----------------------------------------------------------------------------
\* issueTokenPair and SessionStore.addSession: the refresh token's row, then a
\* key and an index entry for the access JTI, then for the refresh JTI.

Revoking == \E g \in Handlers : handler[g].at \in {"dropKeys", "revokeRows"}
Issuing == {handler[h].pair : h \in {g \in Handlers : "pair" \in DOMAIN handler[g]}}
NextPair == Cardinality(DOMAIN tokens) + 1

CreateRow(h) ==
    /\ At(h, "issue")
    /\ NextPair \in Pairs
    /\ LET p == NextPair old == handler[h].old
       IN  /\ tokens' = Append(tokens, [used |-> FALSE, revoked |-> FALSE,
                   family |-> IF old = None THEN p ELSE tokens[old].family])
           /\ handler' = [handler EXCEPT ![h] =
                  [at |-> "setAccess", pair |-> p, old |-> old]]
           /\ overlapped' = IF Revoking THEN overlapped \cup {p} ELSE overlapped
    /\ UNCHANGED <<nonces, redis, delivered, answered, leftAlive>>

Steps == [setAccess |-> "indexAccess", indexAccess |-> "setRefresh",
          setRefresh |-> "indexRefresh"]
KindOf(at) == IF at \in {"setAccess", "indexAccess"} THEN "access" ELSE "refresh"

\* client.set(jtiKey, wallet, "EX", ttl)
SetKey(h) ==
    /\ handler[h].at \in {"setAccess", "setRefresh"}
    /\ keys' = keys \cup {JTI(handler[h].pair, KindOf(handler[h].at))}
    /\ Goto(h, Steps[handler[h].at])
    /\ UNCHANGED <<db, index, ghosts>>

\* Mutant of AddToIndex: only refresh tokens are indexed.
AddRefreshToIndex(h) ==
    /\ handler[h].at \in {"indexAccess", "indexRefresh"}
    /\ IF At(h, "indexAccess")
       THEN Goto(h, Steps[handler[h].at]) /\ UNCHANGED <<index, delivered, answered>>
       ELSE /\ Done(h)
            /\ index' = index \cup {JTI(handler[h].pair, "refresh")}
            /\ delivered' = delivered \cup {handler[h].pair}
            /\ answered' = answered \cup ({handler[h].old} \ {None})
    /\ UNCHANGED <<db, keys, overlapped, leftAlive>>

\* client.sadd(walletKey, jti). After the second the pair is the client's.
AddToIndex(h) ==
    /\ handler[h].at \in {"indexAccess", "indexRefresh"}
    /\ index' = index \cup {JTI(handler[h].pair, KindOf(handler[h].at))}
    /\ IF At(h, "indexAccess")
       THEN Goto(h, Steps[handler[h].at]) /\ UNCHANGED <<delivered, answered>>
       ELSE /\ Done(h)
            /\ delivered' = delivered \cup {handler[h].pair}
            /\ answered' = answered \cup ({handler[h].old} \ {None})
    /\ UNCHANGED <<db, keys, overlapped, leftAlive>>

\* A key lapses with its token: neither is accepted any more.
Lapse(j) ==
    /\ j \in keys
    /\ keys' = keys \ {j}
    /\ UNCHANGED <<db, index, handler, ghosts>>

-----------------------------------------------------------------------------
\* refreshTokens.

\* sessions.isActive(payload.jti)
refreshTokens(h, p) ==
    /\ p \in delivered
    /\ JTI(p, "refresh") \in keys
    /\ Start(h, [at |-> "findToken", old |-> p])
    /\ UNCHANGED <<db, redis, ghosts>>

\* The stored row decides. A row already used is a reuse: its family is revoked.
FindToken(h) ==
    LET old == handler[h].old row == tokens[old]
    IN  /\ At(h, "findToken")
        /\ ~row.revoked
        /\ IF row.used
           THEN /\ tokens' = [p \in DOMAIN tokens |->
                       IF tokens[p].family = row.family
                       THEN [tokens[p] EXCEPT !.revoked = TRUE] ELSE tokens[p]]
                /\ handler' = [handler EXCEPT ![h] = [at |-> "listKeys", reuse |-> TRUE,
                                                      known |-> delivered]]
           ELSE Goto(h, "markUsed") /\ UNCHANGED tokens
        /\ UNCHANGED <<nonces, redis, ghosts>>

\* findByIdAndUpdate(storedToken._id, { used: true })
MarkUsed(h) ==
    /\ At(h, "markUsed")
    /\ tokens' = [tokens EXCEPT ![handler[h].old].used = TRUE]
    /\ Goto(h, "retire")
    /\ UNCHANGED <<nonces, redis, ghosts>>

\* Mutant of Retire: the JTI of the old token stays active.
RetireNothing(h) ==
    /\ At(h, "retire")
    /\ Goto(h, "issue")
    /\ UNCHANGED <<db, redis, ghosts>>

\* removeSession(payload.jti): its key, and, if there was one, its index entry. The
\* old token cannot be presented again once its key is gone.
Retire(h) ==
    /\ At(h, "retire")
    /\ keys' = keys \ {JTI(handler[h].old, "refresh")}
    /\ Goto(h, IF JTI(handler[h].old, "refresh") \in keys THEN "unindex" ELSE "issue")
    /\ UNCHANGED <<db, index, ghosts>>

Unindex(h) ==
    /\ At(h, "unindex")
    /\ index' = index \ {JTI(handler[h].old, "refresh")}
    /\ Goto(h, "issue")
    /\ UNCHANGED <<db, keys, ghosts>>

-----------------------------------------------------------------------------
\* Requests with an access token.

\* verifyAccessToken, in requireAuth
Accepted(p) == p \in delivered /\ JTI(p, "access") \in keys

\* logout: removeSession(jti), the key and, if there was one, the index entry.
logout(h, p) ==
    /\ Accepted(p)
    /\ Start(h, [at |-> "dropKey", of |-> p])
    /\ UNCHANGED <<db, redis, ghosts>>

DropKey(h) ==
    /\ At(h, "dropKey")
    /\ keys' = keys \ {JTI(handler[h].of, "access")}
    /\ IF JTI(handler[h].of, "access") \in keys THEN Goto(h, "dropEntry") ELSE Done(h)
    /\ UNCHANGED <<db, index, ghosts>>

DropEntry(h) ==
    /\ At(h, "dropEntry")
    /\ index' = index \ {JTI(handler[h].of, "access")}
    /\ Done(h)
    /\ UNCHANGED <<db, keys, ghosts>>

\* revokeAllSessions. known: ghost, the pairs delivered when it began.
revokeAllSessions(h, p) ==
    /\ Accepted(p)
    /\ Start(h, [at |-> "listKeys", reuse |-> FALSE, known |-> delivered])
    /\ UNCHANGED <<db, redis, ghosts>>

\* removeAllSessions: smembers
ListKeys(h) ==
    /\ At(h, "listKeys")
    /\ handler' = [handler EXCEPT ![h] = [at |-> "dropKeys", reuse |-> handler[h].reuse,
                                          known |-> handler[h].known, jtis |-> index]]
    /\ overlapped' = overlapped \cup Issuing
    /\ UNCHANGED <<db, redis, delivered, answered, leftAlive>>

\* The pipeline: every key listed, and the index. An entry made since then goes
\* with the index while its key stays. exec() answers with an error for each command
\* that failed, and nobody reads the answer: the request goes on. An empty list needs
\* no pipeline.
DropKeys(h) ==
    /\ At(h, "dropKeys")
    /\ \E failed \in SUBSET (handler[h].jtis \cap keys) :
           /\ keys' = keys \ (handler[h].jtis \ failed)
           /\ leftAlive' = leftAlive \cup failed
    /\ index' = {} \/ (handler[h].jtis # {} /\ index' = index)
    /\ handler' = [handler EXCEPT ![h] = IF handler[h].reuse THEN NoRequest
                      ELSE [at |-> "revokeRows", known |-> handler[h].known]]
    /\ UNCHANGED <<db, delivered, answered, overlapped>>

\* RefreshTokenModel.updateMany({ userId, revoked: false }, ...)
RevokeRows(h) ==
    /\ At(h, "revokeRows")
    /\ tokens' = [p \in DOMAIN tokens |-> [tokens[p] EXCEPT !.revoked = TRUE]]
    /\ handler' = [handler EXCEPT ![h] = [at |-> "revoked", known |-> handler[h].known]]
    /\ UNCHANGED <<nonces, redis, ghosts>>

AnswerRevoked(h) == At(h, "revoked") /\ Fail(h)

-----------------------------------------------------------------------------
SessionsNext ==
    \/ \E h \in Handlers :
           \/ requestNonce(h) \/ CreateNonce(h) \/ verifySignatureAndLogin(h)
           \/ MarkNonce(h) \/ CreateRow(h) \/ SetKey(h) \/ AddToIndex(h)
           \/ FindToken(h) \/ MarkUsed(h) \/ Retire(h) \/ Unindex(h)
           \/ DropKey(h) \/ DropEntry(h)
           \/ ListKeys(h) \/ DropKeys(h) \/ RevokeRows(h) \/ AnswerRevoked(h)
           \/ Fail(h)
    \/ \E h \in Handlers, p \in Pairs :
           refreshTokens(h, p) \/ logout(h, p) \/ revokeAllSessions(h, p)
    \/ \E p \in Pairs, kind \in {"access", "refresh"} : Lapse(JTI(p, kind))
    \/ \E n \in 1..MaxNonces : ExpireNonce(n)

SessionsSpec == SessionsInit /\ [][SessionsNext]_sessionVars

-----------------------------------------------------------------------------
\* Properties.

\* Rotation: once a refresh has been answered, the token that was presented is
\* dead for every later request, whatever else was going on.
RetiredForGood == \A p \in answered : JTI(p, "refresh") \notin keys

\* DELETE /auth/sessions: once it is answered, no session that the wallet had when
\* it was called is left, except for pairs whose issue overlapped a revocation and
\* for keys that Redis failed to delete; the refresh tokens are revoked even then.
SignOutCovers ==
    \A h \in Handlers : At(h, "revoked") =>
        \A p \in handler[h].known \ overlapped :
            /\ {JTI(p, "access"), JTI(p, "refresh")} \cap keys \subseteq leftAlive
            /\ tokens[p].revoked
=============================================================================
