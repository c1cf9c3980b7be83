--------------------------- MODULE RequestsProofs ---------------------------
(***************************************************************************)
(* Proofs about what serves the backend's requests: the operator's         *)
(* confirmation tokens and audit log, for any number of tokens and         *)
(* concurrent requests; the cached statistics, for any expiry and any time *)
(* a handler takes; the sessions, for any number of requests served at a   *)
(* time, token pairs and nonces; the pages of a list, for any page size    *)
(* and any number of rows inserted while a client follows them; and the    *)
(* rate limits, for any points and window, wallets and addresses.          *)
(***************************************************************************)
EXTENDS Sessions, AdminTokens, ResponseCache, Paging, RateLimit, FiniteSums, SequenceTheorems

-----------------------------------------------------------------------------
\* The confirmation tokens

Confirmation == [admin : Admins, op : Operations, used : BOOLEAN, expired : BOOLEAN]
Asked == {op.action : op \in Operations}
AdminRequest(known) ==
    {Free} \cup [at : {"consume", "perform", "log", "logFailure"}, token : known, action : Asked]
    \cup [at : {"answered"}, token : known]

AdminTypeOK ==
    /\ confirmations \in Seq(Confirmation)
    /\ request \in [AdminRequests -> AdminRequest(DOMAIN confirmations)]
    /\ done \subseteq [token : DOMAIN confirmations, by : AdminRequests]
    /\ auditLog \subseteq [by : AdminRequests, action : Asked, status : {"success", "failed"}]
    /\ responses \subseteq [by : AdminRequests, status : {"success", "failed"}]

\* Request q is past the update that marks its token t, or has done its operation.
Spends(q, t) ==
    \/ request[q].at \in {"perform", "log", "logFailure"} /\ request[q].token = t
    \/ [token |-> t, by |-> q] \in done

Holds(q, t) ==
    \/ Spends(q, t)
    \/ request[q].at = "consume" /\ request[q].token = t

\* A token that was spent is marked, so that whoever else holds it had looked it up
\* before.
SpentIsUsed ==
    \A q \in AdminRequests, t \in DOMAIN confirmations : Spends(q, t) => confirmations[t].used

HeldTogether ==
    \A p, q \in AdminRequests, t \in DOMAIN confirmations :
        p # q /\ Holds(p, t) /\ Holds(q, t) => {p, q} \in overlaps

\* Only what was done, or is a reindexing, is about to be logged as a success, and who
\* did something is past the lookup.
LoggedWasDone ==
    \A q \in AdminRequests : request[q].at = "log" /\ request[q].action # "reindex_pool" =>
        [token |-> request[q].token, by |-> q] \in done
DoersAreKnown ==
    \A d \in done : /\ request[d.by].at \in {"log", "logFailure", "answered"}
                    /\ request[d.by].token = d.token

AdminSound ==
    /\ AdminTypeOK /\ SpentIsUsed /\ HeldTogether /\ LoggedWasDone /\ DoersAreKnown
    /\ AuditTrailTrue

LEMMA AdminSoundInit == ASSUME AdminInit PROVE AdminSound
<1> USE DEF AdminInit, Free
<1>1. AdminTypeOK
  BY DEF AdminTypeOK, AdminRequest
<1>2. SpentIsUsed /\ HeldTogether
  BY DEF SpentIsUsed, HeldTogether, Holds, Spends
<1>3. LoggedWasDone /\ DoersAreKnown /\ AuditTrailTrue
  BY DEF LoggedWasDone, DoersAreKnown, AuditTrailTrue
<1> QED BY <1>1, <1>2, <1>3 DEF AdminSound

-----------------------------------------------------------------------------
\* Every step keeps it

\* A token's record changes, and no other's.
LEMMA TokenChanged ==
    ASSUME AdminTypeOK, NEW t \in DOMAIN confirmations, NEW c \in Confirmation,
           confirmations' = [confirmations EXCEPT ![t] = c]
    PROVE  /\ confirmations' \in Seq(Confirmation)
           /\ DOMAIN confirmations' = DOMAIN confirmations
           /\ confirmations'[t] = c
           /\ \A s \in DOMAIN confirmations : s # t => confirmations'[s] = confirmations[s]
BY DEF AdminTypeOK

LEMMA RequestTokenStep ==
    ASSUME AdminSound, NEW admin \in Admins, NEW op \in Operations, requestToken(admin, op)
    PROVE  AdminSound'
<1> USE DEF AdminSound, AdminTypeOK, AdminRequest, Asked, Free,
           requestToken, Confirmation
<1>1. AdminTypeOK'
  OBVIOUS
<1>2. SpentIsUsed'
  BY DEF SpentIsUsed, Spends
<1>3. HeldTogether'
  BY DEF HeldTogether, Holds, Spends, SpentIsUsed
<1>4. LoggedWasDone'
  BY DEF LoggedWasDone
<1>5. DoersAreKnown'
  BY DEF DoersAreKnown
<1>6. AuditTrailTrue'
  BY DEF AuditTrailTrue, LoggedWasDone
<1> QED BY <1>1, <1>2, <1>3, <1>4, <1>5, <1>6

LEMMA ExpireStep ==
    ASSUME AdminSound, NEW t \in DOMAIN confirmations, ExpireToken(t)
    PROVE  AdminSound'
<1> USE DEF AdminSound, AdminTypeOK, AdminRequest, Asked, Free
<1>0. /\ confirmations' \in Seq(Confirmation) /\ DOMAIN confirmations' = DOMAIN confirmations
      /\ \A s \in DOMAIN confirmations : confirmations'[s].used = confirmations[s].used
      /\ UNCHANGED <<request, done, auditLog, responses, overlaps>>
  <2>1. confirmations[t] \in Confirmation
    OBVIOUS
  <2>2. [confirmations[t] EXCEPT !.expired = TRUE] \in Confirmation
    BY <2>1 DEF Confirmation
  <2>3. confirmations' = [confirmations EXCEPT ![t] = [confirmations[t] EXCEPT !.expired = TRUE]]
    BY DEF ExpireToken
  <2>4. [confirmations[t] EXCEPT !.expired = TRUE].used = confirmations[t].used
    BY <2>1 DEF Confirmation
  <2> QED BY <2>2, <2>3, <2>4, TokenChanged DEF ExpireToken
<1>1. AdminTypeOK'
  BY <1>0
<1>2. SpentIsUsed'
  BY <1>0 DEF SpentIsUsed, Spends
<1>3. HeldTogether'
  BY <1>0 DEF HeldTogether, Holds, Spends, SpentIsUsed
<1>4. LoggedWasDone'
  BY <1>0 DEF LoggedWasDone
<1>5. DoersAreKnown'
  BY <1>0 DEF DoersAreKnown
<1>6. AuditTrailTrue'
  BY <1>0 DEF AuditTrailTrue, LoggedWasDone
<1> QED BY <1>1, <1>2, <1>3, <1>4, <1>5, <1>6

LEMMA RefuseStep ==
    ASSUME AdminSound, NEW q \in AdminRequests, NEW t \in DOMAIN confirmations, Refuse(q, t)
    PROVE  AdminSound'
<1> USE DEF AdminSound, AdminTypeOK, AdminRequest, Asked, Free,
           Refuse
<1>1. AdminTypeOK'
  OBVIOUS
<1>2. SpentIsUsed'
  BY DEF SpentIsUsed, Spends
<1>3. HeldTogether'
  <2>1. \A p \in AdminRequests, s \in DOMAIN confirmations : Holds(p, s)' => Holds(p, s)
    <3>1. /\ request' = [request EXCEPT ![q] = [at |-> "answered", token |-> t]]
          /\ UNCHANGED done
      BY DEF Refuse
    <3>2. \A p \in AdminRequests : p # q => request'[p] = request[p]
      BY <3>1
    <3>3. request'[q].at = "answered"
      BY <3>1
    <3>4. \A p \in AdminRequests, s \in DOMAIN confirmations : Spends(p, s)' => Spends(p, s)
      BY <3>1, <3>2, <3>3 DEF Spends
    <3> QED BY <3>2, <3>3, <3>4 DEF Holds
  <2>2. UNCHANGED <<confirmations, overlaps>>
    BY DEF Refuse
  <2> QED BY <2>1, <2>2 DEF HeldTogether
<1>4. LoggedWasDone'
  BY DEF LoggedWasDone
<1>5. DoersAreKnown'
  BY DEF DoersAreKnown
<1>6. AuditTrailTrue'
  BY DEF AuditTrailTrue, LoggedWasDone
<1> QED BY <1>1, <1>2, <1>3, <1>4, <1>5, <1>6

LEMMA VerifyStep ==
    ASSUME AdminSound, NEW q \in AdminRequests, NEW t \in DOMAIN confirmations,
           NEW admin \in Admins, NEW op \in Operations, verifyToken(q, t, admin, op)
    PROVE  AdminSound'
<1> USE DEF AdminSound, AdminTypeOK, AdminRequest, Asked, Free,
           verifyToken, Acceptable, Consuming
<1>1. AdminTypeOK'
  OBVIOUS
<1>2. SpentIsUsed'
  BY DEF SpentIsUsed, Spends
<1>3. HeldTogether'
  BY DEF HeldTogether, Holds, Spends, SpentIsUsed
<1>4. LoggedWasDone'
  BY DEF LoggedWasDone
<1>5. DoersAreKnown'
  BY DEF DoersAreKnown
<1>6. AuditTrailTrue'
  BY DEF AuditTrailTrue, LoggedWasDone
<1> QED BY <1>1, <1>2, <1>3, <1>4, <1>5, <1>6

LEMMA ConsumeStep ==
    ASSUME AdminSound, NEW q \in AdminRequests, consumeToken(q)
    PROVE  AdminSound'
<1> USE DEF AdminSound, AdminTypeOK, AdminRequest, Asked, Free
<1>0. PICK t \in DOMAIN confirmations :
          /\ request[q].at = "consume" /\ request[q].token = t
          /\ confirmations' \in Seq(Confirmation) /\ DOMAIN confirmations' = DOMAIN confirmations
          /\ confirmations'[t].used = TRUE
          /\ \A s \in DOMAIN confirmations : s # t => confirmations'[s] = confirmations[s]
          /\ request' = [request EXCEPT ![q].at = "perform"]
          /\ UNCHANGED <<done, auditLog, responses, overlaps>>
  <2>1. request[q].at = "consume" /\ request[q].token \in DOMAIN confirmations
    BY DEF consumeToken
  <2>2. confirmations[request[q].token] \in Confirmation
    BY <2>1
  <2>3. [confirmations[request[q].token] EXCEPT !.used = TRUE] \in Confirmation
    BY <2>2 DEF Confirmation
  <2>4. [confirmations[request[q].token] EXCEPT !.used = TRUE].used = TRUE
    BY <2>2 DEF Confirmation
  <2>5. confirmations' = [confirmations EXCEPT ![request[q].token] =
                             [confirmations[request[q].token] EXCEPT !.used = TRUE]]
    BY DEF consumeToken
  <2> QED BY <2>1, <2>3, <2>4, <2>5, TokenChanged DEF consumeToken
<1>1. AdminTypeOK'
  <2>1. request' \in [AdminRequests -> AdminRequest(DOMAIN confirmations)]
    <3>1. [request[q] EXCEPT !.at = "perform"] \in AdminRequest(DOMAIN confirmations)
      BY <1>0
    <3> QED BY <1>0, <3>1
  <2> QED BY <1>0, <2>1
<1>2. SpentIsUsed'
  BY <1>0 DEF SpentIsUsed, Spends
<1>3. HeldTogether'
  <2>1. \A p \in AdminRequests, s \in DOMAIN confirmations : Holds(p, s)' => Holds(p, s)
    BY <1>0 DEF Holds, Spends
  <2> QED BY <1>0, <2>1 DEF HeldTogether
<1>4. LoggedWasDone'
  BY <1>0 DEF LoggedWasDone
<1>5. DoersAreKnown'
  BY <1>0 DEF DoersAreKnown
<1>6. AuditTrailTrue'
  BY <1>0 DEF AuditTrailTrue, LoggedWasDone
<1> QED BY <1>1, <1>2, <1>3, <1>4, <1>5, <1>6

LEMMA FinishStep ==
    ASSUME AdminSound, NEW q \in AdminRequests, Performing(q, Actions), Finish(q)
    PROVE  AdminSound'
<1> USE DEF AdminSound, AdminTypeOK, AdminRequest, Asked, Free,
           Finish, Took, Performing
<1>1. AdminTypeOK'
  OBVIOUS
<1>2. SpentIsUsed'
  BY DEF SpentIsUsed, Spends
<1>3. HeldTogether'
  BY DEF HeldTogether, Holds, Spends, SpentIsUsed
<1>4. LoggedWasDone'
  BY DEF LoggedWasDone
<1>5. DoersAreKnown'
  BY DEF DoersAreKnown
<1>6. AuditTrailTrue'
  BY DEF AuditTrailTrue, LoggedWasDone
<1> QED BY <1>1, <1>2, <1>3, <1>4, <1>5, <1>6

LEMMA FailHalfwayStep ==
    ASSUME AdminSound, NEW q \in AdminRequests, Performing(q, Actions), FailHalfway(q)
    PROVE  AdminSound'
<1> USE DEF AdminSound, AdminTypeOK, AdminRequest, Asked, Free,
           FailHalfway, Took, Performing
<1>1. AdminTypeOK'
  OBVIOUS
<1>2. SpentIsUsed'
  BY DEF SpentIsUsed, Spends
<1>3. HeldTogether'
  BY DEF HeldTogether, Holds, Spends, SpentIsUsed
<1>4. LoggedWasDone'
  BY DEF LoggedWasDone
<1>5. DoersAreKnown'
  BY DEF DoersAreKnown
<1>6. AuditTrailTrue'
  BY DEF AuditTrailTrue, LoggedWasDone
<1> QED BY <1>1, <1>2, <1>3, <1>4, <1>5, <1>6

LEMMA ReindexStep ==
    ASSUME AdminSound, NEW q \in AdminRequests, reindexPool(q)
    PROVE  AdminSound'
<1> USE DEF AdminSound, AdminTypeOK, AdminRequest, Asked, Free,
           reindexPool, Performing
<1>1. AdminTypeOK'
  OBVIOUS
<1>2. SpentIsUsed'
  BY DEF SpentIsUsed, Spends
<1>3. HeldTogether'
  BY DEF HeldTogether, Holds, Spends, SpentIsUsed
<1>4. LoggedWasDone'
  BY DEF LoggedWasDone
<1>5. DoersAreKnown'
  BY DEF DoersAreKnown
<1>6. AuditTrailTrue'
  BY DEF AuditTrailTrue, LoggedWasDone
<1> QED BY <1>1, <1>2, <1>3, <1>4, <1>5, <1>6

LEMMA LogSuccessStep ==
    ASSUME AdminSound, NEW q \in AdminRequests, logSuccess(q)
    PROVE  AdminSound'
<1> USE DEF AdminSound, AdminTypeOK, AdminRequest, Asked, Free,
           logSuccess, Recorded, Respond
<1>1. AdminTypeOK'
  OBVIOUS
<1>2. SpentIsUsed'
  BY DEF SpentIsUsed, Spends
<1>3. HeldTogether'
  BY DEF HeldTogether, Holds, Spends, SpentIsUsed
<1>4. LoggedWasDone'
  BY DEF LoggedWasDone
<1>5. DoersAreKnown'
  BY DEF DoersAreKnown
<1>6. AuditTrailTrue'
  <2>1. CASE Recorded(q, "success") /\ Respond(q, "success")
    <3> DEFINE entry == [by |-> q, action |-> request[q].action, status |-> "success"]
    <3>1. UNCHANGED done /\ (request[q].action # "reindex_pool" => \E d \in done : d.by = q)
      BY DEF LoggedWasDone
    <3>2. auditLog' = auditLog \cup {entry}
      BY <2>1
    <3>3. responses' \in {responses, responses \cup {[by |-> q, status |-> "success"]}}
      BY <2>1
    <3>4. \A e \in auditLog' : e.status = "success" /\ e.action # "reindex_pool" =>
              \E d \in done' : d.by = e.by
      BY <3>1, <3>2 DEF AuditTrailTrue
    <3>5. entry.by = q /\ entry.status = "success" /\ entry \in auditLog'
      BY <3>2
    <3> HIDE DEF entry
    <3>6. \A r \in responses' : r.status = "success" =>
              \E e \in auditLog' : e.by = r.by /\ e.status = "success"
      BY <3>2, <3>3, <3>5 DEF AuditTrailTrue
    <3> QED BY <3>4, <3>6 DEF AuditTrailTrue
  <2>2. CASE UNCHANGED auditLog
             /\ responses' \subseteq responses \cup {[by |-> q, status |-> "failed"]}
    <3>1. \A r \in responses' : r.status = "success" => r \in responses
      BY <2>2
    <3>2. UNCHANGED done
      OBVIOUS
    <3> QED BY <2>2, <3>1, <3>2 DEF AuditTrailTrue
  <2> QED BY <2>1, <2>2
<1> QED BY <1>1, <1>2, <1>3, <1>4, <1>5, <1>6

LEMMA LogFailureStep ==
    ASSUME AdminSound, NEW q \in AdminRequests, logFailure(q)
    PROVE  AdminSound'
<1> USE DEF AdminSound, AdminTypeOK, AdminRequest, Asked, Free,
           logFailure, Recorded, Respond
<1>1. AdminTypeOK'
  OBVIOUS
<1>2. SpentIsUsed'
  BY DEF SpentIsUsed, Spends
<1>3. HeldTogether'
  <2>1. /\ UNCHANGED <<confirmations, done, overlaps>> /\ request'[q].at = "answered"
        /\ \A p \in AdminRequests : p # q => request'[p] = request[p]
    OBVIOUS
  <2>2. \A p \in AdminRequests, t \in DOMAIN confirmations : Holds(p, t)' => Holds(p, t)
    BY <2>1 DEF Holds, Spends
  <2> QED BY <2>1, <2>2 DEF HeldTogether
<1>4. LoggedWasDone'
  BY DEF LoggedWasDone
<1>5. DoersAreKnown'
  BY DEF DoersAreKnown
<1>6. AuditTrailTrue'
  BY DEF AuditTrailTrue, LoggedWasDone
<1> QED BY <1>1, <1>2, <1>3, <1>4, <1>5, <1>6

-----------------------------------------------------------------------------
\* What follows about the tokens

LEMMA AdminStaysSound == AdminSpec => []AdminSound
<1>1. ASSUME AdminSound, [AdminNext]_adminVars PROVE AdminSound'
  <2>1. CASE UNCHANGED adminVars
    BY <1>1, <2>1 DEF adminVars, AdminSound, AdminTypeOK, SpentIsUsed, HeldTogether, Holds,
           Spends, LoggedWasDone, DoersAreKnown, AuditTrailTrue
  <2>2. ASSUME NEW q \in AdminRequests,
               forceResolveTransaction(q) \/ reindexPool(q) \/ runReconciliation(q)
        PROVE  AdminSound'
    <3>1. CASE reindexPool(q)
      BY <1>1, <3>1, ReindexStep
    <3>2. CASE forceResolveTransaction(q) \/ runReconciliation(q)
      <4>1. Performing(q, Actions) /\ (Finish(q) \/ FailHalfway(q))
        BY <3>2 DEF forceResolveTransaction, runReconciliation, Performing, Actions
      <4> QED BY <1>1, <4>1, FinishStep, FailHalfwayStep
    <3> QED BY <2>2, <3>1, <3>2
  <2> QED BY <1>1, <2>1, <2>2, RequestTokenStep, ExpireStep, RefuseStep, VerifyStep, ConsumeStep,
          LogSuccessStep, LogFailureStep DEF AdminNext
<1> QED BY <1>1, AdminSoundInit, PTL DEF AdminSpec

\* verifyAndConsumeToken looks the token up and marks it later: still, two operations
\* under one token are by requests that had both looked it up unmarked.
THEOREM TokensBuyOneOperation == AdminSpec => []OneOperationPerToken
<1>1. ASSUME AdminSound PROVE OneOperationPerToken
  <2> SUFFICES ASSUME NEW d \in done, NEW e \in done, d.token = e.token, d.by # e.by
               PROVE  {d.by, e.by} \in overlaps
    BY DEF OneOperationPerToken
  <2>1. /\ d.token \in DOMAIN confirmations /\ d.by \in AdminRequests /\ e.by \in AdminRequests
        /\ d = [token |-> d.token, by |-> d.by] /\ e = [token |-> d.token, by |-> e.by]
    BY <1>1 DEF AdminSound, AdminTypeOK
  <2>2. [token |-> d.token, by |-> d.by] \in done /\ [token |-> d.token, by |-> e.by] \in done
    BY <2>1
  <2>3. Holds(d.by, d.token) /\ Holds(e.by, d.token)
    BY <2>2 DEF Holds, Spends
  <2> QED BY <1>1, <2>1, <2>3 DEF AdminSound, HeldTogether
<1> QED BY <1>1, AdminStaysSound, PTL

\* Whatever write of an entry fails, no entry of the controller or the middleware claims
\* a success of an operation that was not done, reindexing apart, and the middleware's
\* successes are the controller's.
THEOREM AuditTrailStaysTrue == AdminSpec => []AuditTrailTrue
<1>1. AdminSound => AuditTrailTrue
  BY DEF AdminSound
<1> QED BY <1>1, AdminStaysSound, PTL

-----------------------------------------------------------------------------
\* The cached statistics

Bodies == [kind : {"stats", "yield"}, version : Nat] \cup {Failure}
Readers ==
    {[at |-> "idle"]}
    \cup [at : {"load"}, since : Nat]
    \cup [at : {"store"}, since : Nat, status : Nat, body : Bodies]
    \cup [at : {"answered"}, status : Nat, body : Bodies, tick : Nat]

CacheTypeOK ==
    /\ route \in Routes
    /\ now \in Nat /\ yields \in Nat
    /\ \E n \in Nat : replaced \in [0..(n - 1) -> 0..now]
    /\ cacheEntry \in {NoEntry} \cup [body : Bodies, left : Nat]
    /\ reader \in [CacheReaders -> Readers]

\* Statistics of version v were those of the tables at tick t.
CurrentAt(v, t) == v \in DOMAIN replaced => replaced[v] >= t

IsStats(body) == body.kind = "stats"

\* What a handler has read is as old as its load, which takes LoadTicks at most.
LoadFresh(r) ==
    /\ r.at \in {"load", "store"} => r.since <= now /\ now - r.since <= LoadTicks
    /\ r.at = "store" /\ IsStats(r.body) => CurrentAt(r.body.version, r.since)

\* What somebody was given is as old as an entry and a load.
AnswerFresh(r) ==
    r.at = "answered" =>
        /\ r.tick <= now
        /\ IsStats(r.body) => CurrentAt(r.body.version, r.tick - TTL - LoadTicks)

\* An entry ages with the clock.
Age(entry) == TTL - entry.left
EntryFresh ==
    cacheEntry # NoEntry /\ IsStats(cacheEntry.body) =>
        /\ cacheEntry.left \in 1..TTL
        /\ CurrentAt(cacheEntry.body.version, now - Age(cacheEntry) - LoadTicks)

\* The other route never holds statistics.
OnItsRoute(body) == IsStats(body) => route = "stats"
ReaderOnItsRoute(r) == r.at \in {"store", "answered"} => OnItsRoute(r.body)

ReadersFresh ==
    \A g \in CacheReaders :
        LoadFresh(reader[g]) /\ AnswerFresh(reader[g]) /\ ReaderOnItsRoute(reader[g])

CacheSound ==
    /\ CacheTypeOK /\ ReadersFresh /\ EntryFresh
    /\ cacheEntry # NoEntry => OnItsRoute(cacheEntry.body)

LEMMA VersionIsLast ==
    ASSUME CacheTypeOK
    PROVE  /\ Version \in Nat /\ DOMAIN replaced = 0..(Version - 1)
           /\ replaced \in [0..(Version - 1) -> 0..now]
<1>1. PICK n \in Nat : replaced \in [0..(n - 1) -> 0..now]
  BY DEF CacheTypeOK
<1>2. Cardinality(0..(n - 1)) = n
  <2>1. n - 1 \in Int /\ 0 \in Int
    OBVIOUS
  <2>2. Cardinality(0..(n - 1)) = IF 0 > n - 1 THEN 0 ELSE n - 1 - 0 + 1
    BY <2>1, FS_Interval
  <2> QED BY <2>2
<1>3. Version = n
  BY <1>1, <1>2 DEF Version
<1> QED BY <1>1, <1>3

LEMMA CacheSoundInit == ASSUME CacheInit PROVE CacheSound
<1> USE DEF CacheInit
<1>1. CacheTypeOK
  <2>1. replaced \in [0..(0 - 1) -> 0..now]
    OBVIOUS
  <2>2. [g \in CacheReaders |-> [at |-> "idle"]] \in [CacheReaders -> Readers]
    BY DEF Readers
  <2> QED BY <2>1, <2>2 DEF CacheTypeOK
<1>2. ReadersFresh /\ EntryFresh
  BY DEF ReadersFresh, LoadFresh, AnswerFresh, ReaderOnItsRoute, EntryFresh
<1> QED BY <1>1, <1>2 DEF CacheSound

-----------------------------------------------------------------------------
\* Every step keeps it

\* A step of a reader, and perhaps of the entry, at a time, by the tables as they are.
LEMMA ReaderStep ==
    ASSUME CacheSound, NEW g \in CacheReaders, NEW r \in Readers,
           LoadFresh(r), AnswerFresh(r), ReaderOnItsRoute(r),
           reader' = [reader EXCEPT ![g] = r], UNCHANGED <<route, now, replaced, yields>>,
           cacheEntry' \in {NoEntry} \cup [body : Bodies, left : Nat], EntryFresh',
           cacheEntry' # NoEntry => OnItsRoute(cacheEntry'.body)
    PROVE  CacheSound'
<1> USE DEF CacheSound, CacheTypeOK
<1>1. CacheTypeOK'
  OBVIOUS
<1>2. \A h \in CacheReaders : reader'[h] \in {reader[h], r}
  OBVIOUS
<1>3. \A s : (LoadFresh(s) /\ AnswerFresh(s) /\ ReaderOnItsRoute(s)) =>
                 (LoadFresh(s) /\ AnswerFresh(s) /\ ReaderOnItsRoute(s))'
  BY DEF LoadFresh, AnswerFresh, ReaderOnItsRoute, OnItsRoute, CurrentAt
<1>4. ReadersFresh'
  <2> SUFFICES ASSUME NEW h \in CacheReaders
               PROVE  /\ LoadFresh(reader[h])' /\ AnswerFresh(reader[h])'
                      /\ ReaderOnItsRoute(reader[h])'
    BY DEF ReadersFresh
  <2>1. LoadFresh(reader'[h]) /\ AnswerFresh(reader'[h]) /\ ReaderOnItsRoute(reader'[h])
    BY <1>2 DEF ReadersFresh
  <2> QED BY <2>1 DEF LoadFresh, AnswerFresh, ReaderOnItsRoute, OnItsRoute, CurrentAt
<1> QED BY <1>1, <1>4 DEF OnItsRoute

\* The entry stands while the clock and the tables do.
LEMMA EntryStands ==
    ASSUME CacheSound, UNCHANGED <<route, now, replaced, cacheEntry>>
    PROVE  /\ cacheEntry' \in {NoEntry} \cup [body : Bodies, left : Nat] /\ EntryFresh'
           /\ cacheEntry' # NoEntry => OnItsRoute(cacheEntry'.body)
BY DEF CacheSound, CacheTypeOK, EntryFresh, CurrentAt, Age

LEMMA GetStep ==
    ASSUME CacheSound, NEW g \in CacheReaders, Get(g) \/ Leave(g) PROVE CacheSound'
<1>1. now \in Nat /\ UNCHANGED <<route, now, replaced, cacheEntry, yields>>
  BY DEF CacheSound, CacheTypeOK, Get, Leave
<1> SUFFICES ASSUME NEW r, reader' = [reader EXCEPT ![g] = r],
                    r \in {[at |-> "idle"], [at |-> "load", since |-> now],
                           [at |-> "answered", status |-> 200, body |-> cacheEntry.body, tick |-> now]},
                    r.at = "answered" => cacheEntry # NoEntry
             PROVE  CacheSound'
  BY DEF Get, Leave
<1>2. CASE r \in {[at |-> "idle"], [at |-> "load", since |-> now]}
  <2>1. r \in Readers
    BY <1>1, <1>2 DEF Readers
  <2>2. LoadFresh(r) /\ AnswerFresh(r) /\ ReaderOnItsRoute(r)
    BY <1>1, <1>2, CacheConstants DEF LoadFresh, AnswerFresh, ReaderOnItsRoute
  <2> QED BY <1>1, <2>1, <2>2, EntryStands, ReaderStep
<1>3. CASE r = [at |-> "answered", status |-> 200, body |-> cacheEntry.body, tick |-> now]
  <2>1. cacheEntry # NoEntry /\ cacheEntry.body \in Bodies
    BY <1>3 DEF CacheSound, CacheTypeOK
  <2>2. r \in Readers /\ r.at = "answered" /\ r.body = cacheEntry.body /\ r.tick = now
    BY <1>1, <1>3, <2>1 DEF Readers
  <2>3. IsStats(r.body) => CurrentAt(r.body.version, r.tick - TTL - LoadTicks)
    <3> SUFFICES ASSUME IsStats(r.body), r.body.version \in DOMAIN replaced
                 PROVE  replaced[r.body.version] >= now - TTL - LoadTicks
      BY <2>2 DEF CurrentAt
    <3>1. /\ cacheEntry.left \in 1..TTL
          /\ replaced[r.body.version] >= now - Age(cacheEntry) - LoadTicks
      BY <2>1, <2>2 DEF CacheSound, EntryFresh, CurrentAt
    <3>2. replaced[r.body.version] \in Nat
      BY VersionIsLast DEF CacheSound
    <3> QED BY <1>1, <3>1, <3>2, CacheConstants DEF Age
  <2>4. LoadFresh(r) /\ AnswerFresh(r)
    BY <1>1, <2>2, <2>3 DEF LoadFresh, AnswerFresh
  <2>5. ReaderOnItsRoute(r)
    BY <2>1, <2>2 DEF CacheSound, ReaderOnItsRoute
  <2> QED BY <1>1, <2>2, <2>4, <2>5, EntryStands, ReaderStep
<1> QED BY <1>2, <1>3

LEMMA LoadStep ==
    ASSUME CacheSound, NEW g \in CacheReaders, Load(g) PROVE CacheSound'
<1>1. now \in Nat /\ UNCHANGED <<route, now, replaced, cacheEntry, yields>>
  BY DEF CacheSound, CacheTypeOK, Load
<1>2. PICK status \in Nat, body \in Bodies :
          /\ IsStats(body) => route = "stats" /\ body.version = Version
          /\ reader' = [reader EXCEPT ![g] = [at |-> "store", since |-> reader[g].since,
                                              status |-> status, body |-> body]]
  <2>1. PICK answer \in Answers \cup
                        {[status |-> status, body |-> Failure] : status \in {404, 500}} :
            reader' = [reader EXCEPT ![g] = [at |-> "store", since |-> reader[g].since,
                                            status |-> answer.status, body |-> answer.body]]
    BY DEF Load
  <2>2. CASE answer \in {[status |-> status, body |-> Failure] : status \in {404, 500}}
    <3>1. answer.status \in Nat /\ answer.body \in Bodies /\ ~IsStats(answer.body)
      BY <2>2 DEF Bodies, Failure, IsStats
    <3> QED BY <2>1, <3>1
  <2>3. CASE answer \in Answers /\ route = "stats"
    <3>1. answer.status \in Nat /\ answer.body = Stats(Version)
      BY <2>3 DEF Answers
    <3>2. answer.body \in Bodies /\ answer.body.version = Version
      BY <3>1, VersionIsLast DEF Bodies, Stats, CacheSound
    <3> QED BY <2>1, <2>3, <3>1, <3>2
  <2>4. CASE answer \in Answers /\ route # "stats"
    <3>1. answer.status \in Nat /\ answer.body \in Bodies
      BY <2>4 DEF Answers, Yield, Bodies, CacheSound, CacheTypeOK
    <3>2. ~IsStats(answer.body)
      BY <2>4 DEF Answers, Yield, IsStats, CacheSound, OnItsRoute
    <3> QED BY <2>1, <3>1, <3>2
  <2> QED BY <2>1, <2>2, <2>3, <2>4
<1>3. /\ reader[g].since \in Nat /\ reader[g].since <= now /\ now - reader[g].since <= LoadTicks
  BY DEF Load, CacheSound, CacheTypeOK, Readers, ReadersFresh, LoadFresh
<1> DEFINE r == [at |-> "store", since |-> reader[g].since, status |-> status, body |-> body]
<1>4. r \in Readers
  BY <1>3 DEF Readers
<1>5. Version \notin DOMAIN replaced
  BY VersionIsLast DEF CacheSound
<1>6. LoadFresh(r) /\ AnswerFresh(r) /\ ReaderOnItsRoute(r)
  BY <1>2, <1>3, <1>5 DEF LoadFresh, AnswerFresh, ReaderOnItsRoute, OnItsRoute, CurrentAt
<1> HIDE DEF r
<1> QED BY <1>1, <1>2, <1>4, <1>6, EntryStands, ReaderStep DEF r

\* The entry of a load, and its answer, are as old as the load.
LEMMA StoreStep ==
    ASSUME CacheSound, NEW g \in CacheReaders, Store(g) PROVE CacheSound'
<1> DEFINE body == reader[g].body
           r == [at |-> "answered", status |-> reader[g].status, body |-> body, tick |-> now]
<1>1. /\ now \in Nat /\ UNCHANGED <<route, now, replaced, yields>> /\ reader[g].at = "store"
      /\ reader' = [reader EXCEPT ![g] = r] /\ cacheEntry' \in {cacheEntry, Entry(body)}
  BY DEF CacheSound, CacheTypeOK, Store
<1>2. /\ body \in Bodies /\ reader[g].since \in Nat /\ reader[g].status \in Nat
      /\ reader[g].since <= now /\ now - reader[g].since <= LoadTicks
      /\ IsStats(body) => CurrentAt(body.version, reader[g].since) /\ route = "stats"
  <2>1. reader[g] \in Readers
    BY DEF CacheSound, CacheTypeOK
  <2>2. body \in Bodies /\ reader[g].since \in Nat /\ reader[g].status \in Nat
    BY <1>1, <2>1 DEF Readers
  <2>3. LoadFresh(reader[g]) /\ ReaderOnItsRoute(reader[g])
    BY DEF CacheSound, ReadersFresh
  <2> QED BY <1>1, <2>2, <2>3 DEF LoadFresh, ReaderOnItsRoute, OnItsRoute
<1>3. IsStats(body) => /\ CurrentAt(body.version, now - LoadTicks)
                       /\ CurrentAt(body.version, now - TTL - LoadTicks)
  <2> SUFFICES ASSUME IsStats(body), body.version \in DOMAIN replaced
               PROVE  /\ replaced[body.version] >= now - LoadTicks
                      /\ replaced[body.version] >= now - TTL - LoadTicks
    BY DEF CurrentAt
  <2>1. replaced[body.version] >= reader[g].since
    BY <1>2 DEF CurrentAt
  <2>2. replaced[body.version] \in Nat
    BY VersionIsLast DEF CacheSound
  <2> QED BY <1>1, <1>2, <2>1, <2>2, CacheConstants
<1> HIDE DEF body
<1>4. r \in Readers /\ LoadFresh(r) /\ AnswerFresh(r) /\ ReaderOnItsRoute(r)
  <2>1. r \in Readers
    BY <1>1, <1>2 DEF Readers
  <2> QED BY <1>1, <1>2, <1>3, <2>1 DEF LoadFresh, AnswerFresh, ReaderOnItsRoute, OnItsRoute
<1> HIDE DEF r
<1>5. CASE cacheEntry' = cacheEntry
  BY <1>1, <1>4, <1>5, EntryStands, ReaderStep
<1>6. CASE cacheEntry' = Entry(body)
  <2>1. /\ cacheEntry' \in [body : Bodies, left : Nat] /\ cacheEntry'.left = TTL
        /\ cacheEntry'.body = body
    BY <1>2, <1>6, CacheConstants DEF Entry
  <2>2. now - Age(cacheEntry') - LoadTicks = now - LoadTicks /\ TTL \in 1..TTL
    BY <1>1, <2>1, CacheConstants DEF Age
  <2>3. EntryFresh'
    BY <1>1, <1>3, <2>1, <2>2 DEF EntryFresh, CurrentAt, Age
  <2>4. OnItsRoute(cacheEntry'.body)
    BY <1>2, <2>1 DEF OnItsRoute
  <2> QED BY <1>1, <1>4, <2>1, <2>3, <2>4, ReaderStep
<1> QED BY <1>1, <1>5, <1>6

LEMMA TickStep == ASSUME CacheSound, Tick PROVE CacheSound'
<1> USE CacheConstants
<1>1. /\ now \in Nat /\ now' = now + 1 /\ UNCHANGED <<route, replaced, reader, yields>>
      /\ cacheEntry \in {NoEntry} \cup [body : Bodies, left : Nat]
      /\ cacheEntry' = Kept(cacheEntry) /\ reader \in [CacheReaders -> Readers]
  BY DEF CacheSound, CacheTypeOK, Tick
<1>2. \/ Kept(cacheEntry) = NoEntry
      \/ Kept(cacheEntry) = cacheEntry /\ cacheEntry.left = 0
      \/ /\ cacheEntry # NoEntry /\ cacheEntry.left \in Nat \ {0, 1}
         /\ Kept(cacheEntry) = [body |-> cacheEntry.body, left |-> cacheEntry.left - 1]
  BY <1>1 DEF Kept
<1>3. CacheTypeOK'
  <2>1. cacheEntry' \in {NoEntry} \cup [body : Bodies, left : Nat]
    BY <1>1, <1>2
  <2>2. \A n \in Nat : replaced \in [0..(n - 1) -> 0..now] => replaced \in [0..(n - 1) -> 0..now']
    BY <1>1
  <2> QED BY <1>1, <2>1, <2>2 DEF CacheSound, CacheTypeOK
<1>4. ReadersFresh'
  <2> SUFFICES ASSUME NEW g \in CacheReaders
               PROVE  /\ LoadFresh(reader[g])' /\ AnswerFresh(reader[g])'
                      /\ ReaderOnItsRoute(reader[g])'
    BY DEF ReadersFresh
  <2>1. LoadFresh(reader[g]) /\ AnswerFresh(reader[g]) /\ ReaderOnItsRoute(reader[g])
    BY DEF CacheSound, ReadersFresh
  <2>2. reader[g] \in Readers
    BY <1>1
  <2>3. reader[g].at \in {"load", "store"} =>
            /\ reader[g].since \in Nat /\ reader[g].since <= now + 1
            /\ (now + 1) - reader[g].since <= LoadTicks
    <3>1. reader[g].at \in {"load", "store"} =>
              reader[g].since \in Nat /\ reader[g].since <= now /\ now - reader[g].since < LoadTicks
      BY <2>1, <2>2 DEF Tick, LoadFresh, Readers
    <3> QED BY <1>1, <3>1
  <2>4. reader[g].at = "answered" => reader[g].tick <= now + 1
    <3>1. reader[g].at = "answered" => reader[g].tick \in Nat /\ reader[g].tick <= now
      BY <2>1, <2>2 DEF AnswerFresh, Readers
    <3> QED BY <1>1, <3>1
  <2> QED
    BY <1>1, <2>1, <2>3, <2>4
       DEF LoadFresh, AnswerFresh, ReaderOnItsRoute, OnItsRoute, CurrentAt
<1>5. EntryFresh' /\ (cacheEntry # NoEntry => OnItsRoute(cacheEntry.body))'
  <2>1. CASE Kept(cacheEntry) = NoEntry
    BY <1>1, <2>1 DEF EntryFresh
  <2>2. CASE Kept(cacheEntry) = cacheEntry /\ cacheEntry.left = 0
    BY <1>1, <2>2 DEF EntryFresh, CacheSound, OnItsRoute
  <2>3. CASE /\ cacheEntry # NoEntry /\ cacheEntry.left \in Nat \ {0, 1}
             /\ Kept(cacheEntry) = [body |-> cacheEntry.body, left |-> cacheEntry.left - 1]
    <3>1. cacheEntry'.body = cacheEntry.body /\ cacheEntry'.left = cacheEntry.left - 1
      BY <1>1, <2>3
    <3>2. now' - Age(cacheEntry)' - LoadTicks = now - Age(cacheEntry) - LoadTicks
      BY <1>1, <2>3, <3>1 DEF Age
    <3>3. cacheEntry.left \in 1..TTL => cacheEntry'.left \in 1..TTL
      BY <2>3, <3>1
    <3> QED BY <1>1, <2>3, <3>1, <3>2, <3>3 DEF EntryFresh, CurrentAt, CacheSound, OnItsRoute
  <2> QED BY <1>2, <2>1, <2>2, <2>3
<1> QED BY <1>3, <1>4, <1>5 DEF CacheSound

\* What was current is replaced now.
LEMMA CommitStep == ASSUME CacheSound, Commit PROVE CacheSound'
<1>1. /\ now \in Nat /\ UNCHANGED <<route, now, reader, cacheEntry, yields>>
      /\ replaced' = [v \in DOMAIN replaced \cup {Version} |->
                          IF v = Version THEN now ELSE replaced[v]]
  BY DEF CacheSound, CacheTypeOK, Commit
<1>2. /\ Version \in Nat /\ DOMAIN replaced = 0..(Version - 1)
      /\ replaced \in [0..(Version - 1) -> 0..now]
  BY VersionIsLast DEF CacheSound
<1>3. replaced' \in [0..((Version + 1) - 1) -> 0..now]
  <2>1. 0..((Version + 1) - 1) = (0..(Version - 1)) \cup {Version}
    BY <1>2
  <2>2. replaced' \in [(0..(Version - 1)) \cup {Version} -> 0..now]
    BY <1>1, <1>2
  <2> QED BY <2>1, <2>2
<1>4. CacheTypeOK'
  <2>1. Version + 1 \in Nat
    BY <1>2
  <2> QED BY <1>1, <1>3, <2>1 DEF CacheSound, CacheTypeOK
<1>5. ASSUME NEW v, NEW t \in Int, t <= now, CurrentAt(v, t) PROVE CurrentAt(v, t)'
  BY <1>1, <1>2, <1>5 DEF CurrentAt
<1>6. ReadersFresh'
  <2> SUFFICES ASSUME NEW g \in CacheReaders
               PROVE  /\ LoadFresh(reader[g])' /\ AnswerFresh(reader[g])'
                      /\ ReaderOnItsRoute(reader[g])'
    BY DEF ReadersFresh
  <2>1. /\ LoadFresh(reader[g]) /\ AnswerFresh(reader[g]) /\ ReaderOnItsRoute(reader[g])
        /\ reader[g] \in Readers
    BY DEF CacheSound, CacheTypeOK, ReadersFresh
  <2>2. reader[g].at = "store" => reader[g].since \in Int /\ reader[g].since <= now
    BY <2>1 DEF LoadFresh, Readers
  <2>3. reader[g].at = "answered" => /\ reader[g].tick - TTL - LoadTicks \in Int
                                    /\ reader[g].tick - TTL - LoadTicks <= now
    <3>1. reader[g].at = "answered" => reader[g].tick \in Nat /\ reader[g].tick <= now
      BY <2>1 DEF AnswerFresh, Readers
    <3> QED BY <1>1, <3>1, CacheConstants
  <2> QED BY <1>1, <1>5, <2>1, <2>2, <2>3 DEF LoadFresh, AnswerFresh, ReaderOnItsRoute, OnItsRoute
<1>7. EntryFresh' /\ (cacheEntry # NoEntry => OnItsRoute(cacheEntry.body))'
  <2>1. cacheEntry.left \in 1..TTL => /\ now - Age(cacheEntry) - LoadTicks \in Int
                                      /\ now - Age(cacheEntry) - LoadTicks <= now
    BY <1>1, CacheConstants DEF Age
  <2> QED BY <1>1, <1>5, <2>1 DEF EntryFresh, Age, CacheSound, OnItsRoute
<1> QED BY <1>4, <1>6, <1>7 DEF CacheSound

LEMMA EntryStep == ASSUME CacheSound, Invalidate \/ PostYield PROVE CacheSound'
<1>1. UNCHANGED <<route, now, replaced, reader>> /\ yields' \in Nat
  BY DEF Invalidate, PostYield, CacheSound, CacheTypeOK
<1>2. /\ cacheEntry' \in {NoEntry} \cup [body : Bodies, left : Nat] /\ EntryFresh'
      /\ cacheEntry' # NoEntry => OnItsRoute(cacheEntry'.body)
  <2>1. CASE cacheEntry' = cacheEntry
    BY <1>1, <2>1, EntryStands
  <2>2. CASE cacheEntry' = NoEntry
    BY <2>2 DEF EntryFresh
  <2>3. CASE PostYield
    <3>1. yields + 1 \in Nat /\ cacheEntry' = Posted(yields + 1)
      BY <2>3 DEF PostYield, CacheSound, CacheTypeOK
    <3>2. /\ cacheEntry' \in [body : Bodies, left : Nat] /\ ~IsStats(cacheEntry'.body)
      BY <3>1 DEF Posted, Yield, Bodies, IsStats
    <3> QED BY <3>2 DEF EntryFresh, OnItsRoute
  <2> QED BY <2>1, <2>2, <2>3 DEF Invalidate
<1> QED BY <1>1, <1>2 DEF CacheSound, CacheTypeOK, ReadersFresh, LoadFresh, AnswerFresh,
         ReaderOnItsRoute, OnItsRoute, CurrentAt

-----------------------------------------------------------------------------
\* What follows about the statistics

LEMMA CacheStaysSound == CacheSpec => []CacheSound
<1>1. ASSUME CacheSound, [CacheNext]_cacheVars PROVE CacheSound'
  <2>1. CASE UNCHANGED cacheVars
    BY <1>1, <2>1 DEF cacheVars, CacheSound, CacheTypeOK, ReadersFresh, LoadFresh, AnswerFresh,
           ReaderOnItsRoute, OnItsRoute, CurrentAt, EntryFresh, Age
  <2> QED BY <1>1, <2>1, TickStep, CommitStep, EntryStep, GetStep, LoadStep, StoreStep DEF CacheNext
<1> QED BY <1>1, CacheSoundInit, PTL DEF CacheSpec

\* cacheMiddleware sets entries late and invalidateArenaStats may fail: no reader is given
\* statistics that were replaced more than a TTL and a load before.
THEOREM StatsStayBoundedlyStale == CacheSpec => []StatsBoundedlyStale
<1>1. ASSUME CacheSound PROVE StatsBoundedlyStale
  <2> SUFFICES ASSUME NEW g \in CacheReaders, reader[g].at = "answered", IsStats(reader[g].body),
                      reader[g].body.version \in DOMAIN replaced
               PROVE  reader[g].tick - replaced[reader[g].body.version] <= TTL + LoadTicks
    BY DEF StatsBoundedlyStale, IsStats
  <2>1. replaced[reader[g].body.version] >= reader[g].tick - TTL - LoadTicks
    BY <1>1 DEF CacheSound, ReadersFresh, AnswerFresh, CurrentAt
  <2>2. reader[g].tick \in Nat /\ replaced[reader[g].body.version] \in Nat
    BY <1>1, VersionIsLast DEF CacheSound, CacheTypeOK, Readers
  <2> QED BY <2>1, <2>2, CacheConstants
<1> QED BY <1>1, CacheStaysSound, PTL

-----------------------------------------------------------------------------
\* The sessions

IssuingSteps == {"setAccess", "indexAccess", "setRefresh", "indexRefresh"}
Kinds == {"access", "refresh"}

\* What a request can be doing, and what it holds then.
RequestTypes ==
    [at : {"idle", "createNonce"}] \cup [at : {"markNonce"}, nonce : Nat]
        \cup [at : {"findToken", "markUsed", "retire", "unindex"}, old : Nat]
        \cup [at : {"issue"}, old : Nat \cup {None}]
        \cup [at : IssuingSteps, pair : Nat, old : Nat \cup {None}]
        \cup [at : {"dropKey", "dropEntry"}, of : Nat]
        \cup [at : {"listKeys"}, reuse : BOOLEAN, known : SUBSET Nat]
        \cup [at : {"dropKeys"}, reuse : BOOLEAN, known : SUBSET Nat,
              jtis : SUBSET [pair : Nat, kind : Kinds]]
        \cup [at : {"revokeRows", "revoked"}, known : SUBSET Nat]

NonceStates == {"unused", "used", "expired"}
Row == [used : BOOLEAN, revoked : BOOLEAN, family : Nat]

SessionsTypeOK ==
    /\ handler \in [Handlers -> RequestTypes]
    /\ nonces \in Seq(NonceStates)
    /\ tokens \in Seq(Row)
    /\ keys \subseteq [pair : Nat, kind : Kinds]
    /\ index \subseteq [pair : Nat, kind : Kinds]
    /\ delivered \subseteq DOMAIN tokens /\ answered \subseteq delivered

\* A pair that is being issued has a row, one request that issues it, and no client.
OneIssuer ==
    \A h \in Handlers : handler[h].at \in IssuingSteps =>
        /\ handler[h].pair \in DOMAIN tokens \ delivered
        /\ \A g \in Handlers \ {h} :
               handler[g].at \in IssuingSteps => handler[g].pair # handler[h].pair

\* What a request presented or lists is complete.
HeldIsDelivered ==
    \A h \in Handlers :
        /\ handler[h].at \in {"findToken", "markUsed", "retire", "unindex", "issue"}
                                 \cup IssuingSteps /\ handler[h].old # None =>
               handler[h].old \in delivered
        /\ handler[h].at \in {"dropKey", "dropEntry"} => handler[h].of \in delivered
        /\ handler[h].at \in {"listKeys", "dropKeys", "revokeRows", "revoked"} =>
               handler[h].known \subseteq delivered

\* Past its retirement the token a request presented has no key any more.
OldIsRetired ==
    \A h \in Handlers :
        /\ handler[h].at \in {"unindex", "issue"} \cup IssuingSteps
               /\ handler[h].old # None => JTI(handler[h].old, "refresh") \notin keys
        /\ handler[h].at = "dropEntry" => JTI(handler[h].of, "access") \notin keys

\* While keys are dropped, every pair that is being issued is an overlapping one.
OverlapsKnown ==
    \A g, h \in Handlers :
        handler[g].at = "dropKeys" /\ handler[h].at \in IssuingSteps =>
            handler[h].pair \in overlapped

\* The index lists every live key of a pair that a client holds, and a revocation
\* under way has listed it too, save for those that a revocation failed to delete.
Indexed ==
    \A p \in delivered \ overlapped, kind \in Kinds : JTI(p, kind) \in keys \ leftAlive =>
        /\ JTI(p, kind) \in index
        /\ \A g \in Handlers : handler[g].at = "dropKeys" => JTI(p, kind) \in handler[g].jtis

HalfIndexed ==
    \A h \in Handlers :
        /\ handler[h].at \in {"setRefresh", "indexRefresh"}
        /\ handler[h].pair \notin overlapped
        => JTI(handler[h].pair, "access") \in index

\* Nothing is left of what a revocation has been through.
Covered ==
    \A h \in Handlers : handler[h].at \in {"revokeRows", "revoked"} =>
        \A p \in handler[h].known \ overlapped :
            /\ \A kind \in Kinds : JTI(p, kind) \notin keys \ leftAlive
            /\ handler[h].at = "revoked" => tokens[p].revoked

SessionsSound ==
    /\ SessionsTypeOK /\ OneIssuer /\ HeldIsDelivered /\ OldIsRetired /\ RetiredForGood
    /\ OverlapsKnown /\ Indexed /\ HalfIndexed /\ Covered

LEMMA SessionsSoundInit == SessionsInit => SessionsSound
BY SessionConstants
DEF SessionsInit, SessionsSound, SessionsTypeOK, OneIssuer, HeldIsDelivered, OldIsRetired,
    RetiredForGood, OverlapsKnown, Indexed, HalfIndexed, Covered, NoRequest, RequestTypes,
    IssuingSteps, Row, NonceStates


-----------------------------------------------------------------------------
\* JWT ids and requests

\* Different JTIs belong to different pairs or are of different kinds.
LEMMA JTIsDiffer ==
    /\ \A p, q, k, l : JTI(p, k) = JTI(q, l) <=> p = q /\ k = l
    /\ \A p \in Nat, k \in Kinds : JTI(p, k) \in [pair : Nat, kind : Kinds]
BY DEF JTI

\* The forms of a request.
LEMMA RequestForms ==
    /\ NoRequest \in RequestTypes
    /\ [at |-> "createNonce"] \in RequestTypes
    /\ \A n \in Nat : [at |-> "markNonce", nonce |-> n] \in RequestTypes
    /\ \A a \in {"findToken", "markUsed", "retire", "unindex"}, p \in Nat :
           [at |-> a, old |-> p] \in RequestTypes
    /\ \A old \in Nat \cup {None} : [at |-> "issue", old |-> old] \in RequestTypes
    /\ \A a \in IssuingSteps, p \in Nat, old \in Nat \cup {None} :
           [at |-> a, pair |-> p, old |-> old] \in RequestTypes
    /\ \A a \in {"dropKey", "dropEntry"}, p \in Nat : [at |-> a, of |-> p] \in RequestTypes
BY DEF RequestTypes, NoRequest

LEMMA RevocationForms ==
    /\ \A r \in BOOLEAN, known \in SUBSET Nat :
           [at |-> "listKeys", reuse |-> r, known |-> known] \in RequestTypes
    /\ \A r \in BOOLEAN, known \in SUBSET Nat, jtis \in SUBSET [pair : Nat, kind : Kinds] :
           [at |-> "dropKeys", reuse |-> r, known |-> known, jtis |-> jtis] \in RequestTypes
    /\ \A a \in {"revokeRows", "revoked"}, known \in SUBSET Nat :
           [at |-> a, known |-> known] \in RequestTypes
BY DEF RequestTypes

\* What a request holds where it is.
LEMMA Carries ==
    ASSUME NEW r \in RequestTypes
    PROVE  /\ r.at \in {"findToken", "markUsed", "retire", "unindex"} =>
                  r.old \in Nat /\ r = [at |-> r.at, old |-> r.old]
           /\ r.at = "issue" => r.old \in Nat \cup {None}
           /\ r.at \in IssuingSteps =>
                  /\ r.pair \in Nat /\ r.old \in Nat \cup {None}
                  /\ r = [at |-> r.at, pair |-> r.pair, old |-> r.old]
           /\ r.at \in {"dropKey", "dropEntry"} =>
                  r.of \in Nat /\ r = [at |-> r.at, of |-> r.of]
BY SessionConstants DEF RequestTypes, IssuingSteps

LEMMA RevocationHolds ==
    ASSUME NEW r \in RequestTypes
    PROVE  /\ r.at \in {"listKeys", "dropKeys"} => r.reuse \in BOOLEAN /\ r.known \in SUBSET Nat
           /\ r.at = "dropKeys" => r.jtis \in SUBSET [pair : Nat, kind : Kinds]
           /\ r.at \in {"revokeRows", "revoked"} => r.known \in SUBSET Nat
BY DEF RequestTypes, IssuingSteps

\* Only a request that issues a pair has one.
LEMMA IssuingHavePairs ==
    ASSUME NEW r \in RequestTypes PROVE "pair" \in DOMAIN r <=> r.at \in IssuingSteps
BY DEF RequestTypes, IssuingSteps

\* A step of one request.
LEMMA OneMoves ==
    ASSUME SessionsTypeOK, NEW h \in Handlers, NEW r \in RequestTypes,
           handler' = [handler EXCEPT ![h] = r]
    PROVE  /\ handler' \in [Handlers -> RequestTypes]
           /\ handler'[h] = r
           /\ \A g \in Handlers : g # h => handler'[g] = handler[g]
BY DEF SessionsTypeOK

LEMMA GotoMoves ==
    ASSUME SessionsTypeOK, NEW h \in Handlers, NEW a, Goto(h, a)
    PROVE  /\ handler[h].at \in {"findToken", "markUsed", "retire", "unindex"} =>
                  handler' = [handler EXCEPT ![h] = [at |-> a, old |-> handler[h].old]]
           /\ handler[h].at \in IssuingSteps =>
                  handler' = [handler EXCEPT ![h] =
                                 [at |-> a, pair |-> handler[h].pair, old |-> handler[h].old]]
           /\ handler[h].at \in {"dropKey", "dropEntry"} =>
                  handler' = [handler EXCEPT ![h] = [at |-> a, of |-> handler[h].of]]
<1>1. handler[h] \in RequestTypes
  BY DEF SessionsTypeOK
<1>2. handler' = [handler EXCEPT ![h] = [handler[h] EXCEPT !.at = a]]
  BY <1>1 DEF Goto, SessionsTypeOK
<1>3. ASSUME NEW r, r = [at |-> r.at, old |-> r.old]
      PROVE  [r EXCEPT !.at = a] = [at |-> a, old |-> r.old]
  BY <1>3
<1>4. ASSUME NEW r, r = [at |-> r.at, pair |-> r.pair, old |-> r.old]
      PROVE  [r EXCEPT !.at = a] = [at |-> a, pair |-> r.pair, old |-> r.old]
  BY <1>4
<1>5. ASSUME NEW r, r = [at |-> r.at, of |-> r.of]
      PROVE  [r EXCEPT !.at = a] = [at |-> a, of |-> r.of]
  BY <1>5
<1> QED
  BY <1>1, <1>2, <1>3, <1>4, <1>5, Carries

-----------------------------------------------------------------------------
\* Steps

\* A request that starts, ends or fails without touching anything else, and is not
\* issuing: what it then holds is delivered, retired or covered already.
LEMMA QuietStep ==
    ASSUME SessionsSound, NEW h \in Handlers, NEW r \in RequestTypes,
           handler' = [handler EXCEPT ![h] = r],
           UNCHANGED <<tokens, keys, index, delivered, answered, overlapped, leftAlive>>,
           nonces' \in Seq(NonceStates),
           r.at \notin IssuingSteps \cup {"unindex", "dropEntry", "dropKeys", "revokeRows",
                                          "revoked"},
           r.at = "issue" => r.old = None,
           r.at \in {"findToken", "markUsed", "retire"} => r.old \in delivered,
           r.at = "dropKey" => r.of \in delivered,
           r.at = "listKeys" => r.known \subseteq delivered
    PROVE  SessionsSound'
<1> USE SessionConstants DEF SessionsSound
<1>1. /\ handler' \in [Handlers -> RequestTypes]
      /\ handler'[h] = r
      /\ \A g \in Handlers : g # h => handler'[g] = handler[g]
  BY OneMoves
<1>2. SessionsTypeOK'
  BY <1>1 DEF SessionsTypeOK
<1>3. OneIssuer'
  BY <1>1 DEF OneIssuer
<1>4. HeldIsDelivered'
  BY <1>1 DEF HeldIsDelivered
<1>5. OldIsRetired'
  BY <1>1 DEF OldIsRetired
<1>6. RetiredForGood' /\ OverlapsKnown'
  BY <1>1 DEF RetiredForGood, OverlapsKnown
<1>7. Indexed' /\ HalfIndexed'
  BY <1>1 DEF Indexed, HalfIndexed, IssuingSteps
<1>8. Covered'
  BY <1>1 DEF Covered
<1> QED
  BY <1>2, <1>3, <1>4, <1>5, <1>6, <1>7, <1>8

\* A step of the nonces or of time alone.
LEMMA StillStep ==
    ASSUME SessionsSound, UNCHANGED <<tokens, index, handler, delivered, answered, overlapped, leftAlive>>,
           keys' \subseteq keys, nonces' \in Seq(NonceStates)
    PROVE  SessionsSound'
BY DEF SessionsSound, SessionsTypeOK, OneIssuer, HeldIsDelivered, OldIsRetired, RetiredForGood,
       OverlapsKnown, Indexed, HalfIndexed, Covered

\* A set of numbers up to n has a greatest.
LEMMA GreatestUpTo ==
    ASSUME NEW n \in Nat, NEW S, S \subseteq 1..n, S # {}
    PROVE  \E x \in S : \A y \in S : x >= y
<1> DEFINE Above == {m \in Nat : \A s \in S : s <= m}
<1>1. n \in Above
  OBVIOUS
<1>2. PICK x \in Above : \A m \in Above : x <= m
  BY <1>1, LeastNatural
<1>3. ASSUME x \notin S PROVE FALSE
  <2>1. \A s \in S : s <= x - 1 /\ x - 1 \in Nat
    BY <1>2, <1>3
  <2>2. x - 1 \in Above
    BY <2>1
  <2> QED
    BY <1>2, <2>2
<1> QED
  BY <1>2, <1>3

\* The newest unused nonce is a nonce.
LEMMA NewestNonce ==
    ASSUME nonces \in Seq(NonceStates), Unused # {} PROVE Max(Unused) \in DOMAIN nonces
<1>1. Unused \subseteq 1..Len(nonces) /\ Len(nonces) \in Nat /\ DOMAIN nonces = 1..Len(nonces)
  BY DEF Unused
<1>2. \E m \in Unused : \A n \in Unused : m >= n
  BY <1>1, GreatestUpTo
<1> QED
  BY <1>1, <1>2 DEF Max

\* The steps of a login up to its pair, and a request that fails.
LEMMA LoginSteps ==
    ASSUME SessionsSound, NEW h \in Handlers,
           \/ requestNonce(h) \/ CreateNonce(h) \/ verifySignatureAndLogin(h)
           \/ MarkNonce(h) \/ Fail(h)
    PROVE  SessionsSound'
<1> USE RequestForms, SessionConstants DEF db, redis, ghosts, NonceStates
<1>1. NoRequest.at = "idle"
  BY DEF NoRequest
<1>2. nonces \in Seq(NonceStates)
  BY DEF SessionsSound, SessionsTypeOK
<1>3. CASE requestNonce(h)
  <2>1. nonces' \in Seq(NonceStates)
    BY <1>2, <1>3 DEF requestNonce
  <2> QED
    BY <1>3, <2>1, QuietStep DEF requestNonce, Start, IssuingSteps
<1>4. CASE CreateNonce(h)
  <2>1. nonces' \in Seq(NonceStates)
    BY <1>2, <1>4 DEF CreateNonce
  <2> QED
    BY <1>1, <1>4, <2>1, QuietStep DEF CreateNonce, Done, IssuingSteps
<1>5. CASE verifySignatureAndLogin(h)
  <2>1. Max(Unused) \in Nat
    BY <1>2, <1>5, NewestNonce DEF verifySignatureAndLogin
  <2> QED
    BY <1>2, <1>5, <2>1, QuietStep DEF verifySignatureAndLogin, Start, IssuingSteps
<1>6. CASE MarkNonce(h)
  <2>1. nonces' \in Seq(NonceStates)
    <3>1. nonces \in [1..Len(nonces) -> NonceStates] /\ Len(nonces) \in Nat
      BY <1>2
    <3>2. nonces' \in [1..Len(nonces) -> NonceStates]
      BY <1>6, <3>1 DEF MarkNonce
    <3> QED
      BY <3>1, <3>2
  <2> QED
    BY <1>6, <2>1, QuietStep DEF MarkNonce, IssuingSteps
<1>7. CASE Fail(h)
  BY <1>1, <1>2, <1>7, QuietStep DEF Fail, Done, IssuingSteps
<1> QED
  BY <1>3, <1>4, <1>5, <1>6, <1>7

LEMMA TimeSteps ==
    ASSUME SessionsSound, (\E j : Lapse(j)) \/ (\E n : ExpireNonce(n)) PROVE SessionsSound'
<1> USE StillStep DEF db, redis, ghosts
<1>1. nonces \in Seq(NonceStates)
  BY DEF SessionsSound, SessionsTypeOK
<1>2. CASE \E j : Lapse(j)
  BY <1>1, <1>2 DEF Lapse
<1>3. CASE \E n : ExpireNonce(n)
  <2>1. nonces' \in Seq(NonceStates)
    BY <1>1, <1>3 DEF ExpireNonce, NonceStates
  <2> QED
    BY <1>3, <2>1 DEF ExpireNonce
<1> QED
  BY <1>2, <1>3

\* A refresh, a logout and a revocation are asked for with a pair that a client holds.
LEMMA CallSteps ==
    ASSUME SessionsSound, NEW h \in Handlers, NEW p \in Pairs,
           refreshTokens(h, p) \/ logout(h, p) \/ revokeAllSessions(h, p)
    PROVE  SessionsSound'
<1> USE RequestForms, RevocationForms, SessionConstants DEF db, redis, ghosts
<1>1. nonces \in Seq(NonceStates) /\ delivered \in SUBSET Nat /\ p \in Nat
  BY DEF SessionsSound, SessionsTypeOK, Pairs
<1>2. CASE refreshTokens(h, p)
  BY <1>1, <1>2, QuietStep DEF refreshTokens, Start, IssuingSteps
<1>3. CASE logout(h, p)
  BY <1>1, <1>3, QuietStep DEF logout, Accepted, Start, IssuingSteps
<1>4. CASE revokeAllSessions(h, p)
  BY <1>1, <1>4, QuietStep DEF revokeAllSessions, Accepted, Start, IssuingSteps
<1> QED
  BY <1>2, <1>3, <1>4

-----------------------------------------------------------------------------
\* The steps of the issue of a pair

LEMMA CreateRowStep ==
    ASSUME SessionsSound, NEW h \in Handlers, CreateRow(h) PROVE SessionsSound'
<1> USE SessionConstants, JTIsDiffer DEF SessionsSound
<1> DEFINE p == NextPair
           old == handler[h].old
           r == [at |-> "setAccess", pair |-> p, old |-> old]
<1>1. p = Len(tokens) + 1 /\ p \in Nat /\ p \notin DOMAIN tokens
  <2>1. DOMAIN tokens = 1..Len(tokens) /\ Len(tokens) \in Nat
    BY DEF SessionsTypeOK
  <2>2. Cardinality(1..Len(tokens)) = IF 1 > Len(tokens) THEN 0 ELSE Len(tokens) - 1 + 1
    <3>1. 1 \in Int /\ Len(tokens) \in Int
      BY <2>1
    <3> QED
      BY <3>1, FS_Interval
  <2> QED
    BY <2>1, <2>2 DEF NextPair
<1>2. old \in Nat \cup {None} /\ (old # None => old \in delivered)
  BY Carries DEF CreateRow, At, SessionsTypeOK, HeldIsDelivered
<1>3. r \in RequestTypes
  BY <1>1, <1>2, RequestForms DEF IssuingSteps
<1>4. handler' = [handler EXCEPT ![h] = r]
  BY DEF CreateRow
<1>5. /\ handler' \in [Handlers -> RequestTypes]
      /\ handler'[h] = r
      /\ \A g \in Handlers : g # h => handler'[g] = handler[g]
  <2> HIDE DEF r
  <2> QED
    BY <1>3, <1>4, OneMoves
<1>6. /\ UNCHANGED <<nonces, keys, index, delivered, answered, leftAlive>>
      /\ overlapped' = IF Revoking THEN overlapped \cup {p} ELSE overlapped
  BY DEF CreateRow, redis
<1>7. /\ tokens' \in Seq(Row) /\ DOMAIN tokens' = DOMAIN tokens \cup {p}
      /\ \A q \in DOMAIN tokens : tokens'[q] = tokens[q]
  <2> DEFINE family == IF old = None THEN p ELSE tokens[old].family
             row == [used |-> FALSE, revoked |-> FALSE, family |-> family]
  <2>1. tokens \in Seq(Row) /\ delivered \subseteq DOMAIN tokens
    BY DEF SessionsTypeOK
  <2>2. family \in Nat
    <3>1. old # None => tokens[old] \in Row
      BY <1>2, <2>1
    <3> HIDE DEF p, old
    <3> QED
      BY <1>1, <3>1 DEF Row
  <2>3. row \in Row
    BY <2>2 DEF Row
  <2>4. tokens' = Append(tokens, row)
    BY DEF CreateRow
  <2> HIDE DEF row, p
  <2> QED
    BY <1>1, <2>1, <2>3, <2>4
<1>8. r.at = "setAccess" /\ r.pair = p /\ r.old = old
  OBVIOUS
<1> HIDE DEF p, old, r
<1>9. SessionsTypeOK'
  BY <1>5, <1>6, <1>7 DEF SessionsTypeOK
<1>10. OneIssuer'
  <2>1. p \notin delivered
    BY <1>1 DEF SessionsTypeOK
  <2>2. \A g \in Handlers \ {h} : handler'[g].at \in IssuingSteps =>
            handler'[g].pair \in DOMAIN tokens \ delivered
    BY <1>5 DEF OneIssuer
  <2>3. \A g \in Handlers \ {h} : handler'[g].at \in IssuingSteps => handler'[g].pair # p
    BY <1>1, <2>2
  <2>4. \A g, f \in Handlers \ {h} : g # f /\ handler'[g].at \in IssuingSteps
                /\ handler'[f].at \in IssuingSteps => handler'[f].pair # handler'[g].pair
    BY <1>5 DEF OneIssuer
  <2> QED
    BY <1>5, <1>6, <1>7, <1>8, <2>1, <2>2, <2>3, <2>4 DEF OneIssuer
<1>11. HeldIsDelivered'
  BY <1>2, <1>5, <1>6, <1>8 DEF HeldIsDelivered
<1>12. OldIsRetired' /\ RetiredForGood'
  BY <1>2, <1>5, <1>6, <1>8 DEF OldIsRetired, RetiredForGood, CreateRow, At, old
<1>13. OverlapsKnown'
  BY <1>5, <1>6, <1>8 DEF OverlapsKnown, Revoking
<1>14. Indexed' /\ HalfIndexed'
  BY <1>5, <1>6, <1>8 DEF Indexed, HalfIndexed
<1>15. Covered'
  BY <1>5, <1>6, <1>7, <1>8 DEF Covered, HeldIsDelivered, SessionsTypeOK
<1> QED
  BY <1>9, <1>10, <1>11, <1>12, <1>13, <1>14, <1>15

LEMMA SetKeyStep ==
    ASSUME SessionsSound, NEW h \in Handlers, SetKey(h) PROVE SessionsSound'
<1> USE SessionConstants, JTIsDiffer DEF SessionsSound
<1> DEFINE p == handler[h].pair
           old == handler[h].old
           kind == KindOf(handler[h].at)
           r == [at |-> Steps[handler[h].at], pair |-> p, old |-> old]
<1>1. /\ p \in Nat /\ old \in Nat \cup {None} /\ (old # None => old \in delivered)
      /\ p \in DOMAIN tokens /\ p \notin delivered
      /\ handler[h].at \in IssuingSteps
  BY Carries DEF SetKey, SessionsTypeOK, OneIssuer, HeldIsDelivered, IssuingSteps
<1>2. \/ handler[h].at = "setAccess" /\ kind = "access" /\ r.at = "indexAccess"
      \/ handler[h].at = "setRefresh" /\ kind = "refresh" /\ r.at = "indexRefresh"
  BY DEF SetKey, Steps, KindOf
<1>3. r \in RequestTypes /\ r.pair = p /\ r.old = old
  BY <1>1, <1>2, RequestForms DEF IssuingSteps
<1>4. handler' = [handler EXCEPT ![h] = r]
  BY <1>1, GotoMoves DEF SetKey
<1>5. /\ handler' \in [Handlers -> RequestTypes]
      /\ handler'[h] = r
      /\ \A g \in Handlers : g # h => handler'[g] = handler[g]
  BY <1>3, <1>4, OneMoves
<1>6. /\ UNCHANGED <<nonces, tokens, index, delivered, answered, overlapped, leftAlive>>
      /\ keys' = keys \cup {JTI(p, kind)}
  BY DEF SetKey, db, ghosts
<1>7. \A q \in delivered : \A k : JTI(q, k) \in keys' <=> JTI(q, k) \in keys
  BY <1>1, <1>6
<1> HIDE DEF p, old, kind, r
<1>8. SessionsTypeOK'
  <2>1. JTI(p, kind) \in [pair : Nat, kind : Kinds]
    BY <1>1, <1>2 DEF Kinds
  <2> QED
    BY <1>5, <1>6, <2>1 DEF SessionsTypeOK
<1>9. OneIssuer' /\ HeldIsDelivered'
  BY <1>1, <1>2, <1>3, <1>5, <1>6 DEF OneIssuer, HeldIsDelivered, IssuingSteps, p, old
<1>10. OldIsRetired'
  <2>1. ASSUME NEW g \in Handlers, handler'[g].at \in {"unindex", "issue"} \cup IssuingSteps,
               handler'[g].old # None
        PROVE  handler[g].at \in {"unindex", "issue"} \cup IssuingSteps
               /\ handler[g].old = handler'[g].old /\ handler[g].old \in delivered
    BY <1>1, <1>2, <1>3, <1>5, <2>1 DEF HeldIsDelivered, IssuingSteps, p, old
  <2>2. ASSUME NEW g \in Handlers, handler'[g].at = "dropEntry"
        PROVE  handler[g] = handler'[g] /\ handler[g].of \in delivered
    BY <1>2, <1>5, <2>2 DEF HeldIsDelivered
  <2> QED
    BY <1>7, <2>1, <2>2 DEF OldIsRetired
<1>11. RetiredForGood'
  BY <1>6, <1>7 DEF RetiredForGood, SessionsTypeOK
<1>12. OverlapsKnown' /\ HalfIndexed'
  <2>1. r.at = "indexRefresh" => handler[h].at = "setRefresh"
    BY <1>2
  <2> QED
    BY <1>1, <1>2, <1>3, <1>5, <1>6, <2>1 DEF OverlapsKnown, HalfIndexed, IssuingSteps, p
<1>13. Indexed' /\ Covered'
  BY <1>2, <1>5, <1>6, <1>7 DEF Indexed, Covered, HeldIsDelivered
<1> QED
  BY <1>8, <1>9, <1>10, <1>11, <1>12, <1>13

LEMMA IndexAccessStep ==
    ASSUME SessionsSound, NEW h \in Handlers, AddToIndex(h), At(h, "indexAccess")
    PROVE  SessionsSound'
<1> USE SessionConstants, JTIsDiffer DEF SessionsSound
<1> DEFINE p == handler[h].pair
           old == handler[h].old
           r == [at |-> "setRefresh", pair |-> p, old |-> old]
<1>1. /\ p \in Nat /\ old \in Nat \cup {None} /\ (old # None => old \in delivered)
      /\ p \in DOMAIN tokens /\ p \notin delivered
      /\ handler[h].at = "indexAccess"
  BY Carries DEF At, SessionsTypeOK, OneIssuer, HeldIsDelivered, IssuingSteps
<1>2. r \in RequestTypes /\ r.at = "setRefresh" /\ r.pair = p /\ r.old = old
  BY <1>1, RequestForms DEF IssuingSteps
<1>3. handler' = [handler EXCEPT ![h] = r]
  BY <1>1, GotoMoves DEF AddToIndex, Steps, At, IssuingSteps
<1>4. /\ handler' \in [Handlers -> RequestTypes]
      /\ handler'[h] = r
      /\ \A g \in Handlers : g # h => handler'[g] = handler[g]
  BY <1>2, <1>3, OneMoves
<1>5. /\ UNCHANGED <<nonces, tokens, keys, delivered, answered, overlapped, leftAlive>>
      /\ index' = index \cup {JTI(p, "access")}
  BY <1>1 DEF AddToIndex, At, KindOf, db
<1> HIDE DEF p, old, r
<1>6. SessionsTypeOK'
  <2>1. JTI(p, "access") \in [pair : Nat, kind : Kinds]
    BY <1>1 DEF Kinds
  <2> QED
    BY <1>4, <1>5, <2>1 DEF SessionsTypeOK
<1>7. OneIssuer' /\ HeldIsDelivered'
  BY <1>1, <1>2, <1>4, <1>5 DEF OneIssuer, HeldIsDelivered, IssuingSteps, p, old
<1>8. OldIsRetired' /\ RetiredForGood'
  BY <1>1, <1>2, <1>4, <1>5 DEF OldIsRetired, RetiredForGood, IssuingSteps, old
<1>9. OverlapsKnown' /\ HalfIndexed'
  BY <1>1, <1>2, <1>4, <1>5 DEF OverlapsKnown, HalfIndexed, IssuingSteps, p
<1>10. Indexed' /\ Covered'
  BY <1>2, <1>4, <1>5 DEF Indexed, Covered
<1> QED
  BY <1>6, <1>7, <1>8, <1>9, <1>10

\* With its second index entry a pair is the client's: both its JTIs are listed.
LEMMA IndexRefreshStep ==
    ASSUME SessionsSound, NEW h \in Handlers, AddToIndex(h), At(h, "indexRefresh")
    PROVE  SessionsSound'
<1> USE SessionConstants, JTIsDiffer DEF SessionsSound
<1> DEFINE p == handler[h].pair
           old == handler[h].old
<1>1. /\ p \in Nat /\ old \in Nat \cup {None} /\ (old # None => old \in delivered)
      /\ p \in DOMAIN tokens /\ p \notin delivered
      /\ handler[h].at = "indexRefresh"
  BY Carries DEF At, SessionsTypeOK, OneIssuer, HeldIsDelivered, IssuingSteps
<1>2. NoRequest \in RequestTypes /\ NoRequest.at = "idle"
  BY RequestForms DEF NoRequest
<1>3. handler' = [handler EXCEPT ![h] = NoRequest]
  BY <1>1 DEF AddToIndex, At, Done
<1>4. /\ handler' \in [Handlers -> RequestTypes]
      /\ handler'[h] = NoRequest
      /\ \A g \in Handlers : g # h => handler'[g] = handler[g]
  BY <1>2, <1>3, OneMoves
<1>5. /\ UNCHANGED <<nonces, tokens, keys, overlapped, leftAlive>>
      /\ index' = index \cup {JTI(p, "refresh")}
      /\ delivered' = delivered \cup {p}
      /\ answered' = answered \cup ({old} \ {None})
  BY <1>1 DEF AddToIndex, At, KindOf, db
<1>6. /\ p \notin overlapped => JTI(p, "access") \in index
      /\ \A g \in Handlers : handler[g].at = "dropKeys" => p \in overlapped
      /\ old # None => JTI(old, "refresh") \notin keys
  BY <1>1 DEF OldIsRetired, OverlapsKnown, HalfIndexed, IssuingSteps
<1>7. \A g \in Handlers \ {h} : handler[g].at \in IssuingSteps => handler[g].pair # p
  BY <1>1 DEF OneIssuer, IssuingSteps
<1> HIDE DEF p, old
<1>8. SessionsTypeOK'
  <2>1. JTI(p, "refresh") \in [pair : Nat, kind : Kinds]
    BY <1>1 DEF Kinds
  <2> QED
    BY <1>1, <1>4, <1>5, <2>1 DEF SessionsTypeOK
<1>9. OneIssuer' /\ HeldIsDelivered'
  BY <1>2, <1>4, <1>5, <1>7 DEF OneIssuer, HeldIsDelivered, IssuingSteps
<1>10. OldIsRetired' /\ RetiredForGood'
  BY <1>2, <1>4, <1>5, <1>6 DEF OldIsRetired, RetiredForGood, IssuingSteps
<1>11. OverlapsKnown' /\ HalfIndexed'
  BY <1>2, <1>4, <1>5 DEF OverlapsKnown, HalfIndexed, IssuingSteps
<1>12. Indexed'
  <2>1. ASSUME NEW q \in delivered' \ overlapped, NEW k \in Kinds, JTI(q, k) \in keys \ leftAlive
        PROVE  JTI(q, k) \in index'
    BY <1>5, <1>6, <2>1 DEF Indexed, Kinds
  <2>2. ASSUME NEW q \in delivered' \ overlapped, NEW k \in Kinds, JTI(q, k) \in keys \ leftAlive,
               NEW g \in Handlers, handler'[g].at = "dropKeys"
        PROVE  handler'[g] = handler[g] /\ q # p
    BY <1>2, <1>4, <1>6, <2>2
  <2> QED
    BY <1>5, <2>1, <2>2 DEF Indexed
<1>13. Covered'
  BY <1>2, <1>4, <1>5 DEF Covered
<1> QED
  BY <1>8, <1>9, <1>10, <1>11, <1>12, <1>13

-----------------------------------------------------------------------------
\* The steps of a refresh

\* Rows change, but no revoked one becomes valid; nothing else does.
LEMMA RowsStep ==
    ASSUME SessionsSound, NEW h \in Handlers, NEW r \in RequestTypes,
           handler' = [handler EXCEPT ![h] = r],
           UNCHANGED <<nonces, keys, index, delivered, answered, overlapped, leftAlive>>,
           tokens' \in Seq(Row), DOMAIN tokens' = DOMAIN tokens,
           \A p \in DOMAIN tokens : tokens[p].revoked => tokens'[p].revoked,
           \/ r.at \in {"markUsed", "retire"} /\ r.old \in delivered
           \/ r.at = "listKeys" /\ r.known \subseteq delivered
    PROVE  SessionsSound'
<1> USE SessionConstants DEF SessionsSound
<1>1. /\ handler' \in [Handlers -> RequestTypes]
      /\ handler'[h] = r
      /\ \A g \in Handlers : g # h => handler'[g] = handler[g]
  BY OneMoves
<1>2. SessionsTypeOK'
  BY <1>1 DEF SessionsTypeOK
<1>3. OneIssuer'
  BY <1>1 DEF OneIssuer, IssuingSteps
<1>4. HeldIsDelivered'
  BY <1>1 DEF HeldIsDelivered, IssuingSteps
<1>5. OldIsRetired'
  BY <1>1 DEF OldIsRetired, IssuingSteps
<1>6. RetiredForGood' /\ OverlapsKnown'
  BY <1>1 DEF RetiredForGood, OverlapsKnown, IssuingSteps
<1>7. Indexed' /\ HalfIndexed'
  BY <1>1 DEF Indexed, HalfIndexed
<1>8. Covered'
  <2>1. \A g \in Handlers : handler'[g].at \in {"revokeRows", "revoked"} =>
            g # h /\ handler'[g] = handler[g] /\ handler[g].known \subseteq DOMAIN tokens
    BY <1>1 DEF HeldIsDelivered, SessionsTypeOK
  <2> QED
    BY <2>1 DEF Covered
<1> QED
  BY <1>2, <1>3, <1>4, <1>5, <1>6, <1>7, <1>8

LEMMA FindTokenStep ==
    ASSUME SessionsSound, NEW h \in Handlers, FindToken(h) PROVE SessionsSound'
<1> DEFINE old == handler[h].old
           row == tokens[old]
<1>1. /\ old \in Nat /\ old \in delivered /\ handler[h].at = "findToken"
      /\ delivered \subseteq Nat
  BY SessionConstants, Carries
  DEF FindToken, At, SessionsSound, SessionsTypeOK, HeldIsDelivered
<1>2. UNCHANGED <<nonces, keys, index, delivered, answered, overlapped, leftAlive>>
  BY DEF FindToken, redis, ghosts
<1>3. tokens \in Seq(Row)
  BY DEF SessionsSound, SessionsTypeOK
<1>4. CASE row.used
  <2> DEFINE r == [at |-> "listKeys", reuse |-> TRUE, known |-> delivered]
  <2>1. r \in RequestTypes
    BY <1>1, RevocationForms
  <2>2. handler' = [handler EXCEPT ![h] = r]
    BY <1>4 DEF FindToken
  <2>3. tokens' = [p \in DOMAIN tokens |-> IF tokens[p].family = row.family
                       THEN [tokens[p] EXCEPT !.revoked = TRUE] ELSE tokens[p]]
    BY <1>4 DEF FindToken
  <2> HIDE DEF row, old
  <2>4. tokens' \in Seq(Row) /\ DOMAIN tokens' = DOMAIN tokens
    <3>1. \A p \in DOMAIN tokens : tokens[p] \in Row
      BY <1>3
    <3>2. \A p \in DOMAIN tokens : tokens'[p] \in Row
      BY <2>3, <3>1 DEF Row
    <3>3. tokens \in [1..Len(tokens) -> Row] /\ Len(tokens) \in Nat
      BY <1>3
    <3>4. tokens' \in [1..Len(tokens) -> Row]
      BY <2>3, <3>2, <3>3
    <3> QED
      BY <3>3, <3>4
  <2>5. \A p \in DOMAIN tokens : tokens[p].revoked => tokens'[p].revoked
    BY <1>3, <2>3 DEF Row
  <2> QED
    BY <1>2, <2>1, <2>2, <2>4, <2>5, RowsStep
<1>5. CASE ~row.used
  <2> DEFINE r == [at |-> "markUsed", old |-> old]
  <2>1. r \in RequestTypes
    BY <1>1, RequestForms
  <2>2. handler' = [handler EXCEPT ![h] = r] /\ UNCHANGED tokens
    BY <1>1, <1>5, GotoMoves DEF FindToken, SessionsSound
  <2> QED
    BY <1>1, <1>2, <1>3, <2>1, <2>2, RowsStep
<1> QED
  BY <1>4, <1>5

LEMMA MarkUsedStep ==
    ASSUME SessionsSound, NEW h \in Handlers, MarkUsed(h) PROVE SessionsSound'
<1> DEFINE old == handler[h].old
           r == [at |-> "retire", old |-> old]
<1>1. old \in Nat /\ old \in delivered /\ handler[h].at = "markUsed"
  BY SessionConstants, Carries
  DEF MarkUsed, At, SessionsSound, SessionsTypeOK, HeldIsDelivered
<1>2. UNCHANGED <<nonces, keys, index, delivered, answered, overlapped, leftAlive>>
  BY DEF MarkUsed, redis, ghosts
<1>3. r \in RequestTypes
  BY <1>1, RequestForms
<1>4. handler' = [handler EXCEPT ![h] = r]
  BY <1>1, GotoMoves DEF MarkUsed, SessionsSound
<1>5. tokens \in [1..Len(tokens) -> Row] /\ Len(tokens) \in Nat /\ old \in 1..Len(tokens)
  BY <1>1 DEF SessionsSound, SessionsTypeOK
<1>6. tokens' = [tokens EXCEPT ![old] = [tokens[old] EXCEPT !.used = TRUE]]
  BY <1>5 DEF MarkUsed
<1> HIDE DEF old
<1>7. tokens[old] \in Row /\ [tokens[old] EXCEPT !.used = TRUE] \in Row
      /\ [tokens[old] EXCEPT !.used = TRUE].revoked = tokens[old].revoked
  BY <1>5 DEF Row
<1>8. /\ tokens' \in [1..Len(tokens) -> Row]
      /\ \A p \in DOMAIN tokens : tokens[p].revoked => tokens'[p].revoked
  BY <1>5, <1>6, <1>7
<1>9. tokens' \in Seq(Row) /\ DOMAIN tokens' = DOMAIN tokens
  BY <1>5, <1>8
<1>10. r.at = "retire" /\ r.old = old
  OBVIOUS
<1> HIDE DEF r
<1> QED
  BY <1>1, <1>2, <1>3, <1>4, <1>8, <1>9, <1>10, RowsStep

\* Keys are taken away, or entries of the index whose key is gone.
LEMMA RemovalStep ==
    ASSUME SessionsSound, NEW h \in Handlers, NEW r \in RequestTypes, NEW j,
           handler' = [handler EXCEPT ![h] = r],
           UNCHANGED <<nonces, tokens, delivered, answered, overlapped, leftAlive>>,
           \/ keys' = keys \ {j} /\ index' = index
           \/ keys' = keys /\ index' = index \ {j} /\ j \notin keys
              /\ \E q \in delivered : \E k : j = JTI(q, k),
           \/ r.at = "idle"
           \/ /\ r.at \in {"unindex", "issue"} /\ r.old \in delivered
              /\ JTI(r.old, "refresh") \notin keys'
           \/ r.at = "dropEntry" /\ r.of \in delivered /\ JTI(r.of, "access") \notin keys'
    PROVE  SessionsSound'
<1> USE SessionConstants, JTIsDiffer DEF SessionsSound
<1>1. /\ handler' \in [Handlers -> RequestTypes]
      /\ handler'[h] = r
      /\ \A g \in Handlers : g # h => handler'[g] = handler[g]
  BY OneMoves
<1>2. /\ keys' \subseteq keys /\ index' \subseteq index
      /\ \A i \in keys' : i \in index => i \in index'
      /\ \A p \in DOMAIN tokens \ delivered : \A k : JTI(p, k) \in index => JTI(p, k) \in index'
  OBVIOUS
<1>3. SessionsTypeOK'
  BY <1>1, <1>2 DEF SessionsTypeOK
<1>4. OneIssuer'
  BY <1>1 DEF OneIssuer, IssuingSteps
<1>5. HeldIsDelivered'
  BY <1>1 DEF HeldIsDelivered, IssuingSteps
<1>6. OldIsRetired'
  BY <1>1, <1>2 DEF OldIsRetired, IssuingSteps
<1>7. RetiredForGood' /\ OverlapsKnown'
  BY <1>1, <1>2 DEF RetiredForGood, OverlapsKnown, IssuingSteps
<1>8. Indexed'
  BY <1>1, <1>2 DEF Indexed
<1>9. HalfIndexed'
  BY <1>1, <1>2 DEF HalfIndexed, OneIssuer, IssuingSteps
<1>10. Covered'
  BY <1>1, <1>2 DEF Covered
<1> QED
  BY <1>3, <1>4, <1>5, <1>6, <1>7, <1>8, <1>9, <1>10

LEMMA RetireSteps ==
    ASSUME SessionsSound, NEW h \in Handlers, Retire(h) \/ Unindex(h) PROVE SessionsSound'
<1> DEFINE old == handler[h].old
           j == JTI(old, "refresh")
<1>1. old \in Nat /\ old \in delivered /\ handler[h].at \in {"retire", "unindex"}
  BY SessionConstants, Carries
  DEF Retire, Unindex, At, SessionsSound, SessionsTypeOK, HeldIsDelivered
<1>2. \A a \in {"unindex"} : [at |-> a, old |-> old] \in RequestTypes
  BY <1>1, RequestForms
<1>3. [at |-> "issue", old |-> old] \in RequestTypes
  BY <1>1, RequestForms
<1>4. old # None
  BY <1>1, SessionConstants
<1>5. CASE Retire(h)
  <2> DEFINE r == [at |-> IF j \in keys THEN "unindex" ELSE "issue", old |-> old]
  <2>1. handler' = [handler EXCEPT ![h] = r]
    BY <1>1, <1>5, GotoMoves DEF Retire, SessionsSound
  <2>2. keys' = keys \ {j} /\ UNCHANGED <<nonces, tokens, index, delivered, answered, overlapped, leftAlive>>
    BY <1>5 DEF Retire, db, ghosts
  <2>3. r \in RequestTypes /\ r.at \in {"unindex", "issue"} /\ r.old = old
    BY <1>2, <1>3
  <2> HIDE DEF r, j
  <2>4. JTI(r.old, "refresh") \notin keys'
    BY <2>2, <2>3 DEF j
  <2> QED
    BY <1>1, <2>1, <2>2, <2>3, <2>4, RemovalStep
<1>6. CASE Unindex(h)
  <2> DEFINE r == [at |-> "issue", old |-> old]
  <2>1. handler' = [handler EXCEPT ![h] = r]
    BY <1>1, <1>6, GotoMoves DEF Unindex, SessionsSound
  <2>2. /\ keys' = keys /\ index' = index \ {j}
        /\ UNCHANGED <<nonces, tokens, delivered, answered, overlapped, leftAlive>>
    BY <1>6 DEF Unindex, db, ghosts
  <2>3. r \in RequestTypes /\ r.at = "issue" /\ r.old = old
    BY <1>3
  <2>4. j \notin keys /\ \E q \in delivered : \E k : j = JTI(q, k)
    BY <1>1, <1>4, <1>6 DEF Unindex, At, SessionsSound, OldIsRetired
  <2> HIDE DEF r
  <2>5. JTI(r.old, "refresh") \notin keys'
    BY <2>2, <2>3, <2>4
  <2> QED
    BY <1>1, <2>1, <2>2, <2>3, <2>4, <2>5, RemovalStep
<1> QED
  BY <1>5, <1>6

LEMMA LogoutSteps ==
    ASSUME SessionsSound, NEW h \in Handlers, DropKey(h) \/ DropEntry(h) PROVE SessionsSound'
<1> DEFINE of == handler[h].of
           j == JTI(of, "access")
           r == [at |-> "dropEntry", of |-> of]
<1>1. of \in Nat /\ of \in delivered /\ handler[h].at \in {"dropKey", "dropEntry"}
  BY SessionConstants, Carries
  DEF DropKey, DropEntry, At, SessionsSound, SessionsTypeOK, HeldIsDelivered
<1>2. r \in RequestTypes /\ r.at = "dropEntry" /\ r.of = of
  BY <1>1, RequestForms
<1>3. NoRequest \in RequestTypes /\ NoRequest.at = "idle"
  BY RequestForms DEF NoRequest
<1>4. CASE DropKey(h)
  <2>1. keys' = keys \ {j} /\ UNCHANGED <<nonces, tokens, index, delivered, answered, overlapped, leftAlive>>
    BY <1>4 DEF DropKey, db, ghosts
  <2>2. \/ handler' = [handler EXCEPT ![h] = r]
        \/ handler' = [handler EXCEPT ![h] = NoRequest]
    BY <1>1, <1>4, GotoMoves DEF DropKey, Done, SessionsSound
  <2> HIDE DEF r, j
  <2>3. JTI(r.of, "access") \notin keys'
    BY <1>2, <2>1 DEF j
  <2>4. CASE handler' = [handler EXCEPT ![h] = r]
    BY <1>1, <1>2, <2>1, <2>3, <2>4, RemovalStep
  <2>5. CASE handler' = [handler EXCEPT ![h] = NoRequest]
    BY <1>3, <2>1, <2>5, RemovalStep
  <2> QED
    BY <2>2, <2>4, <2>5
<1>5. CASE DropEntry(h)
  <2>1. /\ keys' = keys /\ index' = index \ {j}
        /\ UNCHANGED <<nonces, tokens, delivered, answered, overlapped, leftAlive>>
    BY <1>5 DEF DropEntry, db, ghosts
  <2>2. handler' = [handler EXCEPT ![h] = NoRequest]
    BY <1>5 DEF DropEntry, Done
  <2>3. j \notin keys /\ \E q \in delivered : \E k : j = JTI(q, k)
    BY <1>1, <1>5 DEF DropEntry, At, SessionsSound, OldIsRetired
  <2> QED
    BY <1>3, <2>1, <2>2, <2>3, RemovalStep
<1> QED
  BY <1>4, <1>5

-----------------------------------------------------------------------------
\* The steps of a revocation

\* Every pair that is being issued becomes an overlapping one, and every key of a pair
\* that a client holds and is not one is listed.
LEMMA ListKeysStep ==
    ASSUME SessionsSound, NEW h \in Handlers, ListKeys(h) PROVE SessionsSound'
<1> USE SessionConstants DEF SessionsSound
<1> DEFINE r == [at |-> "dropKeys", reuse |-> handler[h].reuse, known |-> handler[h].known,
                 jtis |-> index]
<1>1. /\ handler[h] \in RequestTypes /\ handler[h].at = "listKeys"
      /\ index \in SUBSET [pair : Nat, kind : Kinds]
  BY DEF ListKeys, At, SessionsTypeOK
<1>2. r \in RequestTypes
  BY <1>1, RevocationHolds, RevocationForms
<1>3. handler' = [handler EXCEPT ![h] = r]
  BY DEF ListKeys
<1>4. /\ UNCHANGED <<nonces, tokens, keys, index, delivered, answered, leftAlive>>
      /\ overlapped' = overlapped \cup Issuing
  BY DEF ListKeys, db, redis
<1>5. r.at = "dropKeys" /\ r.known = handler[h].known /\ r.jtis = index
  OBVIOUS
<1> HIDE DEF r
<1>6. /\ handler' \in [Handlers -> RequestTypes]
      /\ handler'[h] = r
      /\ \A g \in Handlers : g # h => handler'[g] = handler[g]
  BY <1>2, <1>3, OneMoves
<1>7. \A g \in Handlers : handler[g].at \in IssuingSteps => handler[g].pair \in overlapped'
  BY <1>4, IssuingHavePairs DEF Issuing, SessionsTypeOK
<1>8. SessionsTypeOK'
  BY <1>4, <1>6 DEF SessionsTypeOK
<1>9. OneIssuer' /\ HeldIsDelivered'
  BY <1>1, <1>4, <1>5, <1>6 DEF OneIssuer, HeldIsDelivered, IssuingSteps
<1>10. OldIsRetired' /\ RetiredForGood'
  BY <1>4, <1>5, <1>6 DEF OldIsRetired, RetiredForGood, IssuingSteps
<1>11. OverlapsKnown' /\ HalfIndexed'
  BY <1>4, <1>5, <1>6, <1>7 DEF OverlapsKnown, HalfIndexed, IssuingSteps
<1>12. Indexed'
  BY <1>4, <1>5, <1>6 DEF Indexed
<1>13. Covered'
  BY <1>4, <1>5, <1>6 DEF Covered
<1> QED
  BY <1>8, <1>9, <1>10, <1>11, <1>12, <1>13

LEMMA DropKeysStep ==
    ASSUME SessionsSound, NEW h \in Handlers, DropKeys(h) PROVE SessionsSound'
<1> USE SessionConstants DEF SessionsSound
<1> DEFINE known == handler[h].known
           jtis == handler[h].jtis
           r == IF handler[h].reuse THEN NoRequest ELSE [at |-> "revokeRows", known |-> known]
<1>1. handler[h] \in RequestTypes /\ handler[h].at = "dropKeys"
  BY DEF DropKeys, At, SessionsTypeOK
<1>2. known \in SUBSET Nat /\ known \subseteq delivered
  BY <1>1, RevocationHolds DEF HeldIsDelivered
<1>3. \/ r = NoRequest
      \/ r = [at |-> "revokeRows", known |-> known]
  OBVIOUS
<1>4. /\ r \in RequestTypes
      /\ r.at \in {"idle", "revokeRows"}
      /\ r.at = "revokeRows" => r.known = known
  <2>1. NoRequest \in RequestTypes /\ NoRequest.at = "idle"
    BY RequestForms DEF NoRequest
  <2>2. [at |-> "revokeRows", known |-> known] \in RequestTypes
    BY <1>2, RevocationForms
  <2> HIDE DEF r, known
  <2> QED
    BY <1>3, <2>1, <2>2
<1>5. handler' = [handler EXCEPT ![h] = r]
  BY DEF DropKeys
<1> HIDE DEF r
<1>6. /\ handler' \in [Handlers -> RequestTypes]
      /\ handler'[h] = r
      /\ \A g \in Handlers : g # h => handler'[g] = handler[g]
  BY <1>4, <1>5, OneMoves
<1>7. /\ UNCHANGED <<nonces, tokens, delivered, answered, overlapped>>
      /\ keys' \subseteq keys /\ leftAlive \subseteq leftAlive'
      /\ \A j \in keys' \cap jtis : j \in leftAlive'
      /\ index' = {} \/ index' = index
  BY DEF DropKeys, db
<1>8. \A p \in delivered \ overlapped, k \in Kinds : JTI(p, k) \notin keys' \ leftAlive'
  BY <1>1, <1>7 DEF Indexed
<1>9. \A g \in Handlers : handler[g].at \in IssuingSteps => handler[g].pair \in overlapped
  BY <1>1 DEF OverlapsKnown
<1> HIDE DEF known, jtis
<1>10. SessionsTypeOK'
  BY <1>6, <1>7 DEF SessionsTypeOK
<1>11. OneIssuer' /\ HeldIsDelivered'
  BY <1>2, <1>4, <1>6, <1>7 DEF OneIssuer, HeldIsDelivered, IssuingSteps
<1>12. OldIsRetired' /\ RetiredForGood'
  BY <1>4, <1>6, <1>7 DEF OldIsRetired, RetiredForGood, IssuingSteps
<1>13. OverlapsKnown' /\ HalfIndexed'
  BY <1>4, <1>6, <1>7, <1>9 DEF OverlapsKnown, HalfIndexed, IssuingSteps
<1>14. Indexed'
  BY <1>7, <1>8 DEF Indexed
<1>15. Covered'
  BY <1>2, <1>4, <1>6, <1>7, <1>8 DEF Covered
<1> QED
  BY <1>10, <1>11, <1>12, <1>13, <1>14, <1>15

LEMMA RevokeRowsStep ==
    ASSUME SessionsSound, NEW h \in Handlers, RevokeRows(h) PROVE SessionsSound'
<1> USE SessionConstants DEF SessionsSound
<1> DEFINE known == handler[h].known
           r == [at |-> "revoked", known |-> known]
<1>1. handler[h] \in RequestTypes /\ handler[h].at = "revokeRows"
  BY DEF RevokeRows, At, SessionsTypeOK
<1>2. known \in SUBSET Nat /\ known \subseteq delivered
  BY <1>1, RevocationHolds DEF HeldIsDelivered
<1>3. r \in RequestTypes /\ r.at = "revoked" /\ r.known = known
  BY <1>2, RevocationForms
<1>4. handler' = [handler EXCEPT ![h] = r]
  BY DEF RevokeRows
<1>5. \A p \in known \ overlapped : \A k \in Kinds : JTI(p, k) \notin keys \ leftAlive
  BY <1>1 DEF Covered
<1> HIDE DEF r, known
<1>6. /\ handler' \in [Handlers -> RequestTypes]
      /\ handler'[h] = r
      /\ \A g \in Handlers : g # h => handler'[g] = handler[g]
  BY <1>3, <1>4, OneMoves
<1>7. /\ UNCHANGED <<nonces, keys, index, delivered, answered, overlapped, leftAlive>>
      /\ tokens' = [p \in DOMAIN tokens |-> [tokens[p] EXCEPT !.revoked = TRUE]]
  BY DEF RevokeRows, redis, ghosts
<1>8. /\ tokens' \in Seq(Row) /\ DOMAIN tokens' = DOMAIN tokens
      /\ \A p \in DOMAIN tokens : tokens'[p].revoked
  <2>1. tokens \in [1..Len(tokens) -> Row] /\ Len(tokens) \in Nat
    BY DEF SessionsTypeOK
  <2>2. \A p \in DOMAIN tokens : tokens'[p] \in Row /\ tokens'[p].revoked
    BY <1>7, <2>1 DEF Row
  <2>3. tokens' \in [1..Len(tokens) -> Row]
    BY <1>7, <2>1, <2>2
  <2> QED
    BY <2>1, <2>2, <2>3
<1>9. SessionsTypeOK'
  BY <1>6, <1>7, <1>8 DEF SessionsTypeOK
<1>10. OneIssuer' /\ HeldIsDelivered'
  BY <1>2, <1>3, <1>6, <1>7, <1>8 DEF OneIssuer, HeldIsDelivered, IssuingSteps
<1>11. OldIsRetired' /\ RetiredForGood'
  BY <1>3, <1>6, <1>7 DEF OldIsRetired, RetiredForGood, IssuingSteps
<1>12. OverlapsKnown' /\ HalfIndexed'
  BY <1>3, <1>6, <1>7 DEF OverlapsKnown, HalfIndexed, IssuingSteps
<1>13. Indexed'
  BY <1>3, <1>6, <1>7 DEF Indexed
<1>14. Covered'
  <2>1. \A g \in Handlers : handler'[g].at \in {"revokeRows", "revoked"} =>
            /\ \A p \in handler'[g].known \ overlapped :
                   \A k \in Kinds : JTI(p, k) \notin keys \ leftAlive
            /\ handler'[g].known \subseteq delivered
    BY <1>2, <1>3, <1>5, <1>6 DEF Covered, HeldIsDelivered
  <2> QED
    BY <1>7, <1>8, <2>1 DEF Covered, SessionsTypeOK
<1> QED
  BY <1>9, <1>10, <1>11, <1>12, <1>13, <1>14

-----------------------------------------------------------------------------
\* What follows about the sessions

LEMMA SessionsSoundNext == SessionsSound /\ [SessionsNext]_sessionVars => SessionsSound'
<1> SUFFICES ASSUME SessionsSound, [SessionsNext]_sessionVars PROVE SessionsSound'
  OBVIOUS
<1>1. ASSUME UNCHANGED sessionVars PROVE SessionsSound'
  BY <1>1, StillStep DEF sessionVars, db, redis, ghosts, SessionsSound, SessionsTypeOK
<1>2. ASSUME NEW h \in Handlers,
             \/ requestNonce(h) \/ CreateNonce(h) \/ verifySignatureAndLogin(h)
             \/ MarkNonce(h) \/ Fail(h) \/ AnswerRevoked(h)
      PROVE  SessionsSound'
  BY <1>2, LoginSteps DEF AnswerRevoked
<1>3. ASSUME NEW h \in Handlers, CreateRow(h) \/ SetKey(h) \/ AddToIndex(h)
      PROVE  SessionsSound'
  BY <1>3, CreateRowStep, SetKeyStep, IndexAccessStep, IndexRefreshStep DEF AddToIndex, At
<1>4. ASSUME NEW h \in Handlers,
             FindToken(h) \/ MarkUsed(h) \/ Retire(h) \/ Unindex(h) \/ DropKey(h) \/ DropEntry(h)
      PROVE  SessionsSound'
  BY <1>4, FindTokenStep, MarkUsedStep, RetireSteps, LogoutSteps
<1>5. ASSUME NEW h \in Handlers, ListKeys(h) \/ DropKeys(h) \/ RevokeRows(h)
      PROVE  SessionsSound'
  BY <1>5, ListKeysStep, DropKeysStep, RevokeRowsStep
<1>6. ASSUME NEW h \in Handlers, NEW p \in Pairs,
             refreshTokens(h, p) \/ logout(h, p) \/ revokeAllSessions(h, p)
      PROVE  SessionsSound'
  BY <1>6, CallSteps
<1>7. ASSUME (\E j : Lapse(j)) \/ (\E n : ExpireNonce(n)) PROVE SessionsSound'
  BY <1>7, TimeSteps
<1> QED
  BY <1>1, <1>2, <1>3, <1>4, <1>5, <1>6, <1>7 DEF SessionsNext

LEMMA SessionsAreSound == SessionsSpec => []SessionsSound
<1>1. SessionsInit => SessionsSound
  BY SessionsSoundInit
<1>2. SessionsSound /\ [SessionsNext]_sessionVars => SessionsSound'
  BY SessionsSoundNext
<1> QED
  BY <1>1, <1>2, PTL DEF SessionsSpec

\* Rotation: once a refresh has been answered, the refresh token that was presented has
\* no key in Redis, so that no later request is served with it, whatever else refreshes,
\* signs out or fails at the same time.
THEOREM RotatedTokensStayDead == SessionsSpec => []RetiredForGood
<1>1. SessionsSound => RetiredForGood
  BY DEF SessionsSound
<1> QED
  BY <1>1, SessionsAreSound, PTL

\* DELETE /auth/sessions: when it is answered, no session that the wallet held when it
\* was called is left, save for pairs whose issue overlapped a revocation and for keys
\* that Redis failed to delete.
THEOREM SignOutIsComplete == SessionsSpec => []SignOutCovers
<1>1. SessionsSound => SignOutCovers
  BY DEF SessionsSound, Covered, SignOutCovers, At, Kinds
<1> QED
  BY <1>1, SessionsAreSound, PTL

-----------------------------------------------------------------------------
\* The pages of a list

Pages == [limit : Nat \ {0}, cursor : Nat \cup {-1}, seen : Seq(Nat), original : Nat,
          last : Nat, older : BOOLEAN, cut : SUBSET Nat]

\* Rows are inserted one insert after the other.
InsertsInOrder ==
    /\ inserts \in Seq(Nat)
    /\ \A i, j \in 1..Len(inserts) : i <= j => inserts[i] <= inserts[j]

\* Row v has been shown, or a page has ended among the rows of its insert.
Accounted(v) == v \in ToSet(page.seen) \/ (list = "eliminations" /\ inserts[v] \in page.cut)

\* Up to its cursor a client has seen every row that counts: of the rounds the first
\* ones; of the eliminations, which new ones push down the list, all that the last
\* page's list had down to the cursor.
SeenSoFar ==
    IF page.cursor = -1 THEN \A v \in 1..page.original : Accounted(v)
    ELSE IF list = "rounds" THEN 1..page.cursor \subseteq ToSet(page.seen)
    ELSE page.cursor = 0 \/
         \A v \in 1..page.original : v > page.last - page.cursor => Accounted(v)

PagingSound ==
    /\ list \in Lists
    /\ page \in Pages
    /\ InsertsInOrder
    /\ page.original <= Len(inserts)
    /\ (list = "eliminations" => ~page.older) => SeenSoFar

LEMMA PagingSoundInit == ASSUME PagingInit PROVE PagingSound
<1>1. PICK n \in 0..MaxRows : inserts \in [1..n -> 1..n]
  BY DEF PagingInit
<1>2. n \in Nat
  BY PagingConstants
<1>3. Len(inserts) = n /\ inserts \in Seq(Nat) /\ DOMAIN inserts = 1..n
  BY <1>1, <1>2
<1>4. InsertsInOrder
  <2>1. \A i, j \in DOMAIN inserts :
            i < j => inserts[i] < inserts[j] \/ inserts[i] = inserts[j]
    <3>1. inserts \in {s \in UNION {[1..m -> 1..m] : m \in 0..MaxRows} : \A i, j \in DOMAIN s :
                          i < j => s[i] < s[j] \/ (list = "eliminations" /\ s[i] = s[j])}
      BY DEF PagingInit
    <3> HIDE DEF PagingInit
    <3> QED BY <3>1, Zenon
  <2>2. \A i \in 1..n : inserts[i] \in Nat
    BY <1>1, <1>2
  <2>3. \A i, j \in 1..n : i <= j => inserts[i] <= inserts[j]
    BY <1>2, <1>3, <2>1, <2>2
  <2> QED BY <1>3, <2>3 DEF InsertsInOrder
<1>5. /\ page \in [limit : PageLimits, cursor : {0}, seen : {<<>>}, last : {0}, older : {FALSE},
                   original : Sizes, cut : {{}}]
      /\ Sizes \subseteq 0..n
  BY <1>3 DEF PagingInit, Sizes
<1>6. page \in Pages /\ page.original <= n
  <2>1. <<>> \in Seq(Nat)
    BY EmptySeq
  <2>2. page.limit \in Nat \ {0} /\ page.original \in 0..n
    BY <1>5, PagingConstants
  <2>3. page = [limit |-> page.limit, cursor |-> 0, seen |-> <<>>, original |-> page.original,
               last |-> 0, older |-> FALSE, cut |-> {}]
    BY <1>5, Zenon
  <2>4. page.original \in Nat /\ page.original <= n
    BY <1>2, <2>2
  <2>5. [limit |-> page.limit, cursor |-> 0, seen |-> <<>>, original |-> page.original,
         last |-> 0, older |-> FALSE, cut |-> {}] \in Pages
    BY <2>1, <2>2, <2>4 DEF Pages
  <2> QED BY <2>3, <2>4, <2>5, Zenon
<1>7. page.cursor = 0
  BY <1>5
<1>8. SeenSoFar
  BY <1>7 DEF SeenSoFar
<1>9. list \in Lists
  BY DEF PagingInit
<1> QED BY <1>3, <1>4, <1>6, <1>8, <1>9 DEF PagingSound

\* What is in one of two sequences is in both together.
LEMMA SeenTogether ==
    ASSUME NEW s \in Seq(Nat), NEW t \in Seq(Nat)
    PROVE  /\ s \o t \in Seq(Nat)
           /\ ToSet(s) \subseteq ToSet(s \o t) /\ ToSet(t) \subseteq ToSet(s \o t)
<1>1. /\ s \o t \in Seq(Nat) /\ Len(s \o t) = Len(s) + Len(t)
      /\ \A i \in 1 .. Len(s) + Len(t) :
             (s \o t)[i] = IF i <= Len(s) THEN s[i] ELSE t[i - Len(s)]
  BY ConcatProperties
<1>2. /\ DOMAIN s = 1..Len(s) /\ DOMAIN t = 1..Len(t) /\ DOMAIN (s \o t) = 1..(Len(s) + Len(t))
      /\ Len(s) \in Nat /\ Len(t) \in Nat
  BY <1>1, LenProperties
<1>3. ASSUME NEW i \in 1..Len(s) PROVE s[i] \in ToSet(s \o t)
  <2>1. i \in 1 .. Len(s) + Len(t) /\ (s \o t)[i] = s[i]
    BY <1>1, <1>2
  <2> QED BY <1>2, <2>1 DEF ToSet
<1>4. ASSUME NEW i \in 1..Len(t) PROVE t[i] \in ToSet(s \o t)
  <2>1. /\ i + Len(s) \in 1 .. Len(s) + Len(t)
        /\ (s \o t)[i + Len(s)] = t[i]
    <3>1. i + Len(s) \in 1 .. Len(s) + Len(t) /\ ~(i + Len(s) <= Len(s))
              /\ i + Len(s) - Len(s) = i
      BY <1>2
    <3> QED BY <1>1, <3>1
  <2> QED BY <1>2, <2>1 DEF ToSet
<1>5. ToSet(s) \subseteq ToSet(s \o t)
  BY <1>2, <1>3 DEF ToSet
<1>6. ToSet(t) \subseteq ToSet(s \o t)
  BY <1>2, <1>4 DEF ToSet
<1> QED BY <1>1, <1>5, <1>6

\* A slice holds the rows after its offset, up to as many as it may.
LEMMA SliceHolds ==
    ASSUME NEW found \in Seq(Nat), NEW offset \in Nat, NEW k \in Nat
    PROVE  /\ Slice(found, offset, k) \in Seq(Nat)
           /\ Len(Slice(found, offset, k)) =
                  IF offset >= Len(found) THEN 0
                  ELSE IF offset + k < Len(found) THEN k ELSE Len(found) - offset
           /\ \A i \in 1..Len(found) :
                  i > offset /\ i <= offset + k => found[i] \in ToSet(Slice(found, offset, k))
<1> DEFINE last == IF offset + k < Len(found) THEN offset + k ELSE Len(found)
           s == SubSeq(found, offset + 1, last)
<1>1. Len(found) \in Nat /\ last \in Nat /\ last <= Len(found)
  BY LenProperties
<1>2. \A i \in offset + 1 .. last : found[i] \in Nat
  <2>1. \A i \in 1..Len(found) : found[i] \in Nat
    BY ElementOfSeq
  <2> QED BY <1>1, <2>1
<1> DEFINE size == IF offset + 1 <= last THEN last - (offset + 1) + 1 ELSE 0
<1>3. /\ s \in Seq(Nat) /\ Len(s) = size
      /\ \A i \in 1 .. last - (offset + 1) + 1 : s[i] = found[offset + 1 + i - 1]
  <2>1. offset + 1 \in Int /\ last \in Int
    BY <1>1
  <2> HIDE DEF last
  <2> QED BY <1>2, <2>1, SubSeqProperties
<1>4. s = Slice(found, offset, k)
  BY DEF Slice
<1>5. size = IF offset >= Len(found) THEN 0
             ELSE IF offset + k < Len(found) THEN k ELSE Len(found) - offset
  BY <1>1
<1>6. ASSUME NEW i \in 1..Len(found), i > offset, i <= offset + k
      PROVE  found[i] \in ToSet(s)
  <2>1. i - offset \in 1 .. last - (offset + 1) + 1 /\ i - offset \in 1..size
            /\ offset + 1 + (i - offset) - 1 = i
    BY <1>1, <1>6
  <2> HIDE DEF last, size, s
  <2>2. s[i - offset] = found[i]
    BY <1>3, <2>1
  <2>3. DOMAIN s = 1..size
    BY <1>3, LenProperties
  <2> QED BY <2>1, <2>2, <2>3 DEF ToSet
<1> HIDE DEF s, size
<1> QED BY <1>3, <1>4, <1>5, <1>6

\* What a query answers holds every row, and each in a place of its insert.
LEMMA RowsThenAre ==
    ASSUME NEW n \in Nat, NEW found \in RowsThen(n)
    PROVE  /\ found \in Seq(Nat) /\ Len(found) = n
           /\ \A v \in 1..n : \E i \in 1..n : found[i] = v
           /\ list = "rounds" => \A i \in 1..n : found[i] = i
           /\ list # "rounds" => \A i \in 1..n : inserts[found[i]] = inserts[n + 1 - i]
<1>1. found \in [1..n -> 1..n]
  BY DEF RowsThen
<1>2. found \in Seq(Nat) /\ Len(found) = n
  BY <1>1
<1> QED BY <1>2 DEF RowsThen

\* A row whose place lies in a page is on it, unless the page ends among the rows of its
\* insert: all of them lie on the same side of both its ends, and so does the place where
\* the query put this one.
LEMMA OnThePage ==
    ASSUME InsertsInOrder, list # "rounds", NEW n \in 0..Len(inserts), NEW found \in RowsThen(n),
           NEW c \in Nat, NEW l \in Nat \ {0}, NEW v \in 1..n, v <= n - c, v > n - (c + l),
           inserts[v] \notin Parted(n, c), inserts[v] \notin Parted(n, c + l)
    PROVE  v \in ToSet(Slice(found, c, l))
<1>1. n \in Nat /\ Len(inserts) \in Nat /\ n <= Len(inserts)
  BY LenProperties DEF InsertsInOrder
<1>2. /\ found \in Seq(Nat) /\ Len(found) = n
      /\ \A w \in 1..n : \E i \in 1..n : found[i] = w
      /\ \A i \in 1..n : inserts[found[i]] = inserts[n + 1 - i]
  BY <1>1, RowsThenAre
<1>3. \A i \in 1..n : i > c /\ i <= c + l => found[i] \in ToSet(Slice(found, c, l))
  <2>1. l \in Nat
    OBVIOUS
  <2> QED BY <1>2, <2>1, SliceHolds
<1>4. PICK i \in 1..n : found[i] = v
  BY <1>2
<1> DEFINE w == n + 1 - i
<1>5. w \in 1..n /\ inserts[w] = inserts[v]
  <2>1. w \in 1..n
    BY <1>1
  <2> QED BY <1>2, <1>4, <2>1
<1>6. \A j \in 1..Len(inserts) : inserts[j] \in Nat
  BY ElementOfSeq DEF InsertsInOrder
<1>7. \A j, k \in 1..n : j <= k => inserts[j] <= inserts[k] /\ inserts[j] \in Nat /\ inserts[k] \in Nat
  BY <1>1, <1>6 DEF InsertsInOrder
<1>8. ASSUME NEW d \in Nat, NEW lo \in 1..n, NEW hi \in 1..n, lo <= n - d, hi > n - d,
             inserts[lo] = inserts[hi]
      PROVE  inserts[lo] \in Parted(n, d)
  <2>1. d \in 1..(n - 1) /\ n - d \in 1..n /\ n - d + 1 \in 1..n
        /\ n - d + 1 <= hi /\ n - d <= n - d + 1
    BY <1>1, <1>8
  <2>2. /\ inserts[lo] <= inserts[n - d] /\ inserts[n - d] <= inserts[n - d + 1]
        /\ inserts[n - d + 1] <= inserts[hi]
        /\ inserts[lo] \in Nat /\ inserts[n - d] \in Nat /\ inserts[n - d + 1] \in Nat
    BY <1>7, <1>8, <2>1
  <2>3. inserts[n - d] = inserts[n - d + 1] /\ inserts[lo] = inserts[n - d]
    <3>1. \A a, b, e, f \in Nat : a <= b /\ b <= e /\ e <= f /\ a = f => b = e /\ a = b
      OBVIOUS
    <3>2. inserts[hi] \in Nat /\ inserts[lo] = inserts[hi]
      BY <1>7, <1>8
    <3> QED BY <2>2, <3>1, <3>2
  <2> QED BY <2>1, <2>3 DEF Parted
<1>9. i > c
  <2>1. CASE w > n - c
    <3>1. inserts[v] \in Parted(n, c)
      BY <1>5, <1>8, <2>1
    <3> QED BY <3>1
  <2>2. CASE w <= n - c
    BY <1>1, <2>2
  <2> QED BY <1>1, <1>5, <2>1, <2>2
<1>10. i <= c + l
  <2>1. CASE w <= n - (c + l)
    <3>1. inserts[w] \in Parted(n, c + l)
      BY <1>5, <1>8, <2>1
    <3> QED BY <1>5, <3>1
  <2>2. CASE w > n - (c + l)
    BY <1>1, <2>2
  <2> QED BY <1>1, <1>5, <2>1, <2>2
<1> QED BY <1>3, <1>4, <1>9, <1>10

-----------------------------------------------------------------------------
\* The steps

LEMMA AddRowsStep == ASSUME PagingSound, AddRows PROVE PagingSound'
<1>1. /\ page' = page /\ list' = list /\ list \in Lists /\ page \in Pages
      /\ page.original \in Nat /\ page.original <= Len(inserts)
      /\ (list = "eliminations" => ~page.older) => SeenSoFar
      /\ InsertsInOrder /\ inserts \in Seq(Nat) /\ Len(inserts) \in Nat
  BY LenProperties DEF PagingSound, AddRows, InsertsInOrder, Pages
<1> DEFINE next == IF inserts = <<>> THEN 1 ELSE inserts[Len(inserts)] + 1
           m == Len(inserts)
<1>2. PICK k \in 1..(MaxRows - m) : inserts' = inserts \o [i \in 1..k |-> next]
  BY DEF AddRows
<1>3. k \in Nat /\ m \in Nat
  BY <1>1, PagingConstants
<1>4. \A i \in 1..m : inserts[i] \in Nat
  BY <1>1, ElementOfSeq
<1>5. next \in Nat /\ \A i \in 1..m : inserts[i] <= next
  <2>1. inserts # <<>> => m \in 1..m
    <3>1. inserts # <<>> => m # 0
      BY <1>1, EmptySeq
    <3> QED BY <1>3, <3>1
  <2>2. inserts = <<>> => m = 0
    BY EmptySeq
  <2>3. \A i \in 1..m : i <= m
    BY <1>3
  <2>4. CASE inserts = <<>>
    BY <2>2, <2>4
  <2>5. CASE inserts # <<>>
    <3>1. m \in 1..m /\ inserts[m] \in Nat /\ next = inserts[m] + 1
      BY <1>4, <2>1, <2>5
    <3>2. \A i \in 1..m : inserts[i] <= inserts[m]
      BY <1>1, <2>3, <3>1 DEF InsertsInOrder
    <3> HIDE DEF next, m
    <3> QED BY <1>4, <3>1, <3>2
  <2> QED BY <2>4, <2>5
<1> DEFINE added == [i \in 1..k |-> next]
<1> HIDE DEF next
<1>6. added \in Seq(Nat) /\ Len(added) = k /\ \A i \in 1..k : added[i] = next
  BY <1>3, <1>5
<1> HIDE DEF added
<1>7. /\ inserts' \in Seq(Nat) /\ Len(inserts') = m + k
      /\ \A i \in 1 .. m + k : inserts'[i] = IF i <= m THEN inserts[i] ELSE next
  <2>1. inserts' = inserts \o added
    BY <1>2 DEF added, next
  <2>2. /\ inserts' \in Seq(Nat) /\ Len(inserts') = Len(inserts) + Len(added)
        /\ \A i \in 1 .. Len(inserts) + Len(added) :
               inserts'[i] = IF i <= Len(inserts) THEN inserts[i] ELSE added[i - Len(inserts)]
    BY <1>1, <1>6, <2>1, ConcatProperties
  <2>3. \A i \in 1 .. m + k : ~(i <= m) => i - m \in 1..k
    BY <1>3
  <2> QED BY <1>6, <2>2, <2>3
<1>8. InsertsInOrder'
  <2> SUFFICES ASSUME NEW i \in 1 .. m + k, NEW j \in 1 .. m + k, i <= j
               PROVE  inserts'[i] <= inserts'[j]
    BY <1>7 DEF InsertsInOrder
  <2>1. CASE j <= m
    <3>1. i \in 1..m /\ j \in 1..m
      BY <1>3, <2>1
    <3>2. inserts[i] <= inserts[j]
      BY <1>1, <3>1 DEF InsertsInOrder
    <3>3. i <= m /\ j <= m
      BY <1>3, <2>1
    <3> QED BY <1>7, <3>2, <3>3
  <2>2. CASE j > m /\ i <= m
    <3>1. i \in 1..m /\ ~(j <= m)
      BY <1>3, <2>2
    <3> QED BY <1>5, <1>7, <2>2, <3>1
  <2>3. CASE i > m
    <3>1. ~(i <= m) /\ ~(j <= m)
      BY <1>3, <2>3
    <3> QED BY <1>5, <1>7, <3>1
  <2> QED BY <1>3, <2>1, <2>2, <2>3
<1>9. page.original <= Len(inserts')
  BY <1>1, <1>3, <1>7
<1>10. \A v \in 1..page.original : inserts'[v] = inserts[v]
  <2>1. \A v \in 1..page.original : v \in 1 .. m + k /\ v <= m
    BY <1>1, <1>3
  <2> QED BY <1>7, <2>1
<1>11. \A v \in 1..page.original : Accounted(v)' <=> Accounted(v)
  BY <1>1, <1>10 DEF Accounted
<1>12. SeenSoFar' <=> SeenSoFar
  BY <1>1, <1>11 DEF SeenSoFar
<1> QED BY <1>1, <1>8, <1>9, <1>12 DEF PagingSound

\* A page adds its rows to what was seen, and they join on.
LEMMA NextPageStep == ASSUME PagingSound, NextPage PROVE PagingSound'
<1>1. /\ list' = list /\ inserts' = inserts /\ list \in Lists /\ page \in Pages
      /\ page.original <= Len(inserts)
      /\ InsertsInOrder /\ inserts \in Seq(Nat) /\ Len(inserts) \in Nat /\ page.cursor # -1
  BY LenProperties DEF PagingSound, NextPage, InsertsInOrder
<1> DEFINE c == page.cursor
           l == page.limit
<1>2. c \in Nat /\ l \in Nat \ {0} /\ page.original \in Nat /\ page.seen \in Seq(Nat)
          /\ page.last \in Nat /\ page.older \in BOOLEAN /\ page.cut \in SUBSET Nat
  BY <1>1 DEF Pages
<1>0. PICK n \in cacheMiddleware : \E found \in RowsThen(n) :
          page' = PageOf(found, decodeCursor(page.cursor, page.limit))
  BY DEF NextPage
<1>3. PICK found \in RowsThen(n) : page' = PageOf(found, c)
  <2>1. decodeCursor(page.cursor, page.limit) = page.cursor
    BY <1>2 DEF decodeCursor
  <2> QED BY <1>0, <2>1
<1>4. n \in 0..Len(inserts) /\ n \in Nat /\ page.original <= n
  BY <1>1, <1>2 DEF cacheMiddleware, Sizes
<1> DEFINE slice == Slice(found, c, l)
           more == hasMore(found, c, l)
           parted == Parted(n, c) \cup Parted(n, c + l)
<1>5. /\ found \in Seq(Nat) /\ Len(found) = n
      /\ list = "rounds" => \A i \in 1..n : found[i] = i
  BY <1>4, RowsThenAre
<1>6. /\ slice \in Seq(Nat)
      /\ \A i \in 1..n : i > c /\ i <= c + l => found[i] \in ToSet(slice)
  <2> HIDE DEF c, l
  <2>1. c \in Nat /\ l \in Nat
    BY <1>2 DEF c, l
  <2> QED BY <1>5, <2>1, SliceHolds
<1>7. more <=> c + l < n
  <2>1. more <=> Len(Slice(found, c, l + 1)) > l
    BY DEF hasMore
  <2>2. l + 1 \in Nat
    BY <1>2
  <2>3. Len(Slice(found, c, l + 1)) =
            IF c >= n THEN 0 ELSE IF c + (l + 1) < n THEN l + 1 ELSE n - c
    BY <1>2, <1>5, <2>2, SliceHolds
  <2> HIDE DEF more, c, l
  <2> QED BY <1>2, <1>4, <2>1, <2>3 DEF c, l
<1>8. parted \subseteq Nat
  <2>1. \A i \in 1..Len(inserts) : inserts[i] \in Nat
    BY <1>1, ElementOfSeq
  <2>2. ASSUME NEW d \in Nat PROVE Parted(n, d) \subseteq Nat
    <3>1. d \in 1..(n - 1) => n - d \in 1..Len(inserts)
      BY <1>1, <1>4
    <3> QED BY <2>1, <3>1 DEF Parted
  <2>3. c + l \in Nat
    BY <1>2
  <2> QED BY <1>2, <2>2, <2>3
<1>9. \A v \in 1..n : list # "rounds" /\ v <= n - c /\ v > n - (c + l) =>
          v \in ToSet(slice) \/ inserts[v] \in parted
  <2> SUFFICES ASSUME NEW v \in 1..n, list # "rounds", v <= n - c, v > n - (c + l),
                      inserts[v] \notin parted
               PROVE  v \in ToSet(slice)
    OBVIOUS
  <2>1. inserts[v] \notin Parted(n, c) /\ inserts[v] \notin Parted(n, c + l)
    OBVIOUS
  <2> HIDE DEF c, l, parted
  <2>2. c \in Nat /\ l \in Nat \ {0}
    BY <1>2 DEF c, l
  <2> QED BY <1>1, <1>4, <2>1, <2>2, OnThePage
<1> HIDE DEF slice, more, parted
<1>10. /\ page'.limit = l /\ page'.original = page.original
       /\ page'.seen = page.seen \o slice
       /\ page'.cursor = IF more THEN c + l ELSE -1
       /\ page'.last = n /\ page'.older = (page.older \/ n < page.last)
       /\ page'.cut = page.cut \cup parted
  BY <1>1, <1>3, <1>5 DEF Pages, PageOf, slice, more, parted
<1>11. /\ page'.seen \in Seq(Nat)
       /\ ToSet(page.seen) \subseteq ToSet(page'.seen) /\ ToSet(slice) \subseteq ToSet(page'.seen)
  BY <1>2, <1>6, <1>10, SeenTogether
<1>12. page' \in Pages
  <2>1. (IF more THEN c + l ELSE -1) \in Nat \cup {-1} /\ (page.older \/ n < page.last) \in BOOLEAN
    BY <1>2
  <2>2. page' = [limit |-> page'.limit, cursor |-> page'.cursor, seen |-> page'.seen,
                 original |-> page'.original, last |-> page'.last, older |-> page'.older,
                 cut |-> page'.cut]
    BY <1>1, <1>3 DEF Pages, PageOf
  <2>3. page'.cut \in SUBSET Nat
    BY <1>2, <1>8, <1>10
  <2> QED BY <1>2, <1>4, <1>10, <1>11, <2>1, <2>2, <2>3 DEF Pages
<1>13. \A v : Accounted(v) => Accounted(v)'
  BY <1>1, <1>10, <1>11 DEF Accounted
<1>14. (list = "eliminations" => ~page'.older) => SeenSoFar'
  <2> SUFFICES ASSUME list = "eliminations" => ~page'.older
               PROVE  SeenSoFar'
    OBVIOUS
  <2>1. SeenSoFar
    BY <1>10 DEF PagingSound
  <2>2. CASE list = "rounds"
    <3>1. \A v \in 1..c : v \in ToSet(page'.seen)
      BY <1>1, <1>11, <2>1, <2>2 DEF SeenSoFar
    <3>2. \A v \in 1..n : v <= c + l => v \in ToSet(page'.seen)
      <4> SUFFICES ASSUME NEW v \in 1..n, v <= c + l PROVE v \in ToSet(page'.seen)
        OBVIOUS
      <4>1. CASE v <= c
        <5>1. v \in 1..c
          BY <1>2, <1>4, <4>1
        <5> QED BY <3>1, <5>1
      <4>2. CASE v > c
        <5>1. found[v] = v /\ found[v] \in ToSet(slice)
          BY <1>5, <1>6, <2>2, <4>2
        <5> QED BY <1>11, <5>1, Zenon
      <4> QED BY <1>2, <1>4, <4>1, <4>2
    <3>3. CASE more
      <4>1. \A v \in 1..(c + l) : v \in 1..n
        BY <1>2, <1>4, <1>7, <3>3
      <4>2. page'.cursor = c + l /\ page'.cursor # -1
        BY <1>2, <1>10, <3>3
      <4>3. 1..(c + l) \subseteq ToSet(page'.seen)
        BY <1>2, <3>2, <4>1
      <4> HIDE DEF c, l
      <4> QED BY <1>1, <2>2, <4>2, <4>3 DEF SeenSoFar
    <3>4. CASE ~more
      <4>1. \A v \in 1..page.original : v \in 1..n /\ v <= c + l
        BY <1>2, <1>4, <1>7, <3>4
      <4>2. \A v \in 1..page'.original : Accounted(v)'
        BY <1>10, <3>2, <4>1 DEF Accounted
      <4> QED BY <1>10, <3>4, <4>2 DEF SeenSoFar
    <3> QED BY <3>3, <3>4
  <2>3. CASE list = "eliminations"
    <3>1. n >= page.last
      <4>1. ~(n < page.last)
        BY <1>10, <2>3
      <4> QED BY <1>2, <1>4, <4>1
    <3>2. \A v \in 1..page.original : v > n - c => Accounted(v)'
      <4> SUFFICES ASSUME NEW v \in 1..page.original, v > n - c PROVE Accounted(v)'
        OBVIOUS
      <4>1. c # 0 /\ v > page.last - c
        BY <1>2, <1>4, <3>1
      <4>2. Accounted(v)
        BY <1>1, <2>1, <2>3, <4>1 DEF SeenSoFar
      <4> QED BY <1>13, <4>2
    <3>3. \A v \in 1..page.original : v <= n - c /\ v > n - (c + l) => Accounted(v)'
      <4> SUFFICES ASSUME NEW v \in 1..page.original, v <= n - c, v > n - (c + l)
                   PROVE  Accounted(v)'
        OBVIOUS
      <4>1. v \in 1..n
        BY <1>2, <1>4
      <4>2. v \in ToSet(slice) \/ inserts[v] \in parted
        BY <1>9, <2>3, <4>1
      <4> QED BY <1>1, <1>10, <1>11, <2>3, <4>2 DEF Accounted
    <3>4. \A v \in 1..page.original : v > n - (c + l) => Accounted(v)'
      BY <1>2, <1>4, <3>2, <3>3
    <3>5. CASE more
      <4>1. page'.cursor = c + l /\ page'.cursor # -1 /\ page'.last = n
        BY <1>2, <1>10, <3>5
      <4> HIDE DEF c, l
      <4> QED BY <1>1, <1>10, <2>3, <3>4, <4>1 DEF SeenSoFar
    <3>6. CASE ~more
      <4>1. \A v \in 1..page.original : v > n - (c + l)
        BY <1>2, <1>4, <1>7, <3>6
      <4>2. \A v \in 1..page'.original : Accounted(v)'
        BY <1>10, <3>4, <4>1
      <4> QED BY <1>10, <3>6, <4>2 DEF SeenSoFar
    <3> QED BY <3>5, <3>6
  <2> QED BY <1>1, <2>2, <2>3 DEF Lists
<1>15. InsertsInOrder' /\ page'.original <= Len(inserts')
  BY <1>1, <1>10 DEF InsertsInOrder
<1> QED BY <1>1, <1>12, <1>14, <1>15 DEF PagingSound

LEMMA PagingStaysSound == PagingSpec => []PagingSound
<1>1. ASSUME PagingSound, [PagingNext]_pagingVars PROVE PagingSound'
  <2>1. CASE UNCHANGED pagingVars
    BY <1>1, <2>1 DEF pagingVars, PagingSound, InsertsInOrder, Accounted, SeenSoFar
  <2> QED BY <1>1, <2>1, AddRowsStep, NextPageStep DEF PagingNext
<1> QED BY <1>1, PagingSoundInit, PTL DEF PagingSpec

\* Who pages through to the end has seen every row that was there at the start, for
\* pages of any size, lists of any length, any age of each cached page and any order
\* among eliminations of one insert, save for those that the end of a page parts
\* (roundRepository.listByArenaId, routes/pools.ts, middleware/cache.ts).
THEOREM NothingIsSkipped == PagingSpec => []NothingSkipped
<1>1. ASSUME PagingSound PROVE NothingSkipped
  BY <1>1 DEF PagingSound, NothingSkipped, SeenSoFar, Accounted
<1> QED BY <1>1, PagingStaysSound, PTL

-----------------------------------------------------------------------------
\* The rate limits

Bucket == [count : Nat \ {0}, left : 1..Window]
AreBuckets(held) == \A k \in DOMAIN held : held[k] \in Bucket
AreStores(bs) == bs = [s \in Stores |-> bs[s]] /\ \A s \in Stores : AreBuckets(bs[s])

LimitTypeOK ==
    /\ dualScope \in BOOLEAN
    /\ AreStores(buckets)
    /\ admitted \in [Ips \X Wallets -> [Ages -> Nat]]

\* What one store can have let through for a key at ages a to b. Its window began at an
\* age of at least one request, and an earlier window's first is older than the span.
RoomOf(held, key, a, b) ==
    IF key \notin DOMAIN held THEN IF b > 0 THEN Points - 1 ELSE 0
    ELSE LET began == Window - held[key].left
             used == IF held[key].count > Points THEN Points ELSE held[key].count
         IN  (IF a > began THEN 0 ELSE IF b < began THEN used - 1 ELSE used)
             + (IF b > began THEN Points - 1 ELSE 0)
Room(bs, key, a, b) == RoomOf(bs["redis"], key, a, b) + RoomOf(bs["memory"], key, a, b)

\* What was let through for a wallet from some addresses at ages a to b
LetThrough(ad, ips, w, a, b) ==
    SumFunctionOnSet([ip \in ips |-> SumFunctionOnSet(ad[<<ip, w>>], a..b)], ips)

WithinRoom(key, ips, w) ==
    \A a, b \in Ages : a <= b => LetThrough(admitted, ips, w, a, b) <= Room(buckets, key, a, b)

\* The key that counts the requests of a wallet, and the addresses it counts.
LimitSound ==
    /\ LimitTypeOK
    /\ \A w \in Wallets :
           IF dualScope THEN WithinRoom(<<w>>, Ips, w)
           ELSE \A ip \in Ips : WithinRoom(<<ip, w>>, {ip}, w)

\* What consuming a point does to the bucket of a key.
LEMMA ConsumedBucket ==
    ASSUME NEW held, AreBuckets(held), NEW k
    PROVE  LET after == Consumed(held, k) IN
           /\ AreBuckets(after) /\ DOMAIN after = DOMAIN held \cup {k}
           /\ \A x \in DOMAIN held \ {k} : after[x] = held[x]
           /\ k \notin DOMAIN held => after[k] = [count |-> 1, left |-> Window]
           /\ k \in DOMAIN held =>
                  /\ after[k].left = held[k].left
                  /\ after[k].count = IF held[k].count > Points THEN held[k].count
                                      ELSE held[k].count + 1
<1> DEFINE after == Consumed(held, k)
<1>1. /\ DOMAIN after = DOMAIN held \cup {k}
      /\ \A x \in DOMAIN held \ {k} : after[x] = held[x]
  BY DEF Consumed
<1>2. CASE k \notin DOMAIN held
  <2>1. after[k] = [count |-> 1, left |-> Window]
    BY <1>2 DEF Consumed
  <2>2. after[k] \in Bucket
    BY <2>1, LimitConstants DEF Bucket
  <2> HIDE DEF after
  <2>3. AreBuckets(after)
    BY <1>1, <2>2 DEF AreBuckets
  <2> QED BY <1>1, <1>2, <2>1, <2>3 DEF after
<1>3. CASE k \in DOMAIN held
  <2> DEFINE c == held[k].count  l == held[k].left
  <2>1. held[k] \in Bucket
    BY <1>3 DEF AreBuckets
  <2>2. held[k] = [count |-> c, left |-> l] /\ c \in Nat \ {0} /\ l \in 1..Window
    BY <2>1 DEF Bucket
  <2>3. after[k] = [held[k] EXCEPT !.count = IF @ > Points THEN @ ELSE @ + 1]
    BY <1>3 DEF Consumed
  <2>4. after[k] = [count |-> IF c > Points THEN c ELSE c + 1, left |-> l]
    BY <2>2, <2>3
  <2>5. after[k] \in Bucket
    BY <2>2, <2>4 DEF Bucket
  <2>6. after[k].left = l /\ after[k].count = IF c > Points THEN c ELSE c + 1
    BY <2>4
  <2> HIDE DEF after
  <2>7. AreBuckets(after)
    BY <1>1, <2>5 DEF AreBuckets
  <2> QED BY <1>1, <1>3, <2>6, <2>7 DEF after
<1> QED BY <1>2, <1>3

LEMMA RoomIsInt ==
    ASSUME NEW held, AreBuckets(held), NEW key, NEW a \in Int, NEW b \in Int
    PROVE  RoomOf(held, key, a, b) \in Int
<1>1. key \in DOMAIN held => held[key].count \in Nat /\ held[key].left \in Int
  BY LimitConstants DEF AreBuckets, Bucket
<1> QED BY <1>1, LimitConstants DEF RoomOf

\* Consuming makes no room smaller, and makes one more for what it lets through.
LEMMA ConsumingMakesRoom ==
    ASSUME NEW held, AreBuckets(held), NEW k, NEW key, NEW a \in Ages, NEW b \in Ages, a <= b
    PROVE  /\ RoomOf(Consumed(held, k), key, a, b) >= RoomOf(held, key, a, b)
           /\ k = key /\ a = 0 /\ ~Refused(held, k)
                  => RoomOf(Consumed(held, k), key, a, b) >= RoomOf(held, key, a, b) + 1
<1> DEFINE after == Consumed(held, k)
<1>1. /\ AreBuckets(after) /\ DOMAIN after = DOMAIN held \cup {k}
      /\ \A x \in DOMAIN held \ {k} : after[x] = held[x]
      /\ k \notin DOMAIN held => after[k] = [count |-> 1, left |-> Window]
      /\ k \in DOMAIN held =>
             /\ after[k].left = held[k].left
             /\ after[k].count = IF held[k].count > Points THEN held[k].count
                                 ELSE held[k].count + 1
  BY ConsumedBucket
<1>2. Refused(held, k) <=> after[k].count > Points
  BY DEF Refused
<1>3. a \in Int /\ b \in Int /\ 0 <= a /\ a <= b /\ b < Window
  BY LimitConstants DEF Ages
<1> HIDE DEF after
<1>4. RoomOf(held, key, a, b) \in Int
  BY <1>3, RoomIsInt
<1>5. CASE k # key
  <2>1. RoomOf(after, key, a, b) = RoomOf(held, key, a, b)
    BY <1>1, <1>5 DEF RoomOf
  <2> QED BY <1>4, <1>5, <2>1 DEF after
<1>6. CASE k = key /\ key \notin DOMAIN held
  <2>1. key \in DOMAIN after /\ after[key].count = 1 /\ after[key].left = Window
    BY <1>1, <1>6
  <2>2. RoomOf(held, key, a, b) = IF b > 0 THEN Points - 1 ELSE 0
    BY <1>6 DEF RoomOf
  <2>3. RoomOf(after, key, a, b) = (IF a > 0 THEN 0 ELSE 1) + (IF b > 0 THEN Points - 1 ELSE 0)
    BY <1>3, <2>1, LimitConstants DEF RoomOf
  <2> QED BY <1>3, <2>2, <2>3, LimitConstants DEF after
<1>7. CASE k = key /\ key \in DOMAIN held
  <2> DEFINE c == held[key].count  l == held[key].left  d == after[key].count
             e == after[key].left
  <2>1. c \in Nat \ {0} /\ l \in 1..Window /\ e = l /\ d = IF c > Points THEN c ELSE c + 1
    BY <1>1, <1>7 DEF AreBuckets, Bucket
  <2>2. RoomOf(held, key, a, b) =
            (IF a > Window - l THEN 0
             ELSE IF b < Window - l THEN (IF c > Points THEN Points ELSE c) - 1
             ELSE IF c > Points THEN Points ELSE c)
            + (IF b > Window - l THEN Points - 1 ELSE 0)
    BY <1>7 DEF RoomOf
  <2>3. RoomOf(after, key, a, b) =
            (IF a > Window - e THEN 0
             ELSE IF b < Window - e THEN (IF d > Points THEN Points ELSE d) - 1
             ELSE IF d > Points THEN Points ELSE d)
            + (IF b > Window - e THEN Points - 1 ELSE 0)
    BY <1>1, <1>7 DEF RoomOf
  <2>4. Refused(held, k) <=> d > Points
    BY <1>2, <1>7
  <2> HIDE DEF c, l, d, e
  <2>5. RoomOf(after, key, a, b) >= RoomOf(held, key, a, b)
    BY <1>3, <2>1, <2>2, <2>3, LimitConstants
  <2>6. a = 0 /\ ~(d > Points) => RoomOf(after, key, a, b) >= RoomOf(held, key, a, b) + 1
    BY <1>3, <2>1, <2>2, <2>3, LimitConstants
  <2> QED BY <1>7, <2>4, <2>5, <2>6 DEF after
<1> QED BY <1>5, <1>6, <1>7

\* The same of both stores.
LEMMA ConsumeInStore ==
    ASSUME NEW bs, AreStores(bs), NEW s \in Stores, NEW k
    PROVE  LET after == [bs EXCEPT ![s] = Consumed(@, k)] IN
           /\ AreStores(after)
           /\ \A key : \A a, b \in Ages : a <= b =>
                  /\ Room(after, key, a, b) >= Room(bs, key, a, b)
                  /\ k = key /\ a = 0 /\ ~Refused(bs[s], k)
                         => Room(after, key, a, b) >= Room(bs, key, a, b) + 1
<1> DEFINE after == [bs EXCEPT ![s] = Consumed(@, k)]
<1>1. /\ after = [x \in Stores |-> after[x]] /\ after[s] = Consumed(bs[s], k)
      /\ \A x \in Stores \ {s} : after[x] = bs[x]
  BY DEF AreStores
<1>2. AreBuckets(bs["redis"]) /\ AreBuckets(bs["memory"]) /\ AreBuckets(bs[s])
  BY DEF AreStores, Stores
<1>3. AreBuckets(Consumed(bs[s], k))
  BY <1>2, ConsumedBucket
<1> HIDE DEF after
<1>4. AreStores(after)
  BY <1>1, <1>3 DEF AreStores
<1>5. ASSUME NEW key, NEW a \in Ages, NEW b \in Ages, a <= b
      PROVE  /\ Room(after, key, a, b) >= Room(bs, key, a, b)
             /\ k = key /\ a = 0 /\ ~Refused(bs[s], k)
                    => Room(after, key, a, b) >= Room(bs, key, a, b) + 1
  <2>1. a \in Int /\ b \in Int
    BY DEF Ages
  <2>2. /\ RoomOf(bs["redis"], key, a, b) \in Int /\ RoomOf(bs["memory"], key, a, b) \in Int
        /\ RoomOf(Consumed(bs[s], k), key, a, b) \in Int
    BY <1>2, <1>3, <2>1, RoomIsInt
  <2>3. /\ RoomOf(Consumed(bs[s], k), key, a, b) >= RoomOf(bs[s], key, a, b)
        /\ k = key /\ a = 0 /\ ~Refused(bs[s], k)
               => RoomOf(Consumed(bs[s], k), key, a, b) >= RoomOf(bs[s], key, a, b) + 1
    BY <1>2, <1>5, ConsumingMakesRoom
  <2>4. CASE s = "redis"
    <3>1. after["memory"] = bs["memory"] /\ after["redis"] = Consumed(bs[s], k)
      BY <1>1, <2>4 DEF Stores
    <3> QED BY <2>2, <2>3, <2>4, <3>1 DEF Room
  <2>5. CASE s = "memory"
    <3>1. after["redis"] = bs["redis"] /\ after["memory"] = Consumed(bs[s], k)
      BY <1>1, <2>5 DEF Stores
    <3> QED BY <2>2, <2>3, <2>5, <3>1 DEF Room
  <2> QED BY <2>4, <2>5 DEF Stores
<1> QED BY <1>4, <1>5 DEF after

\* A store whose buckets are a tick older.
Older(held) ==
    LET live == {k \in DOMAIN held : held[k].left > 1}
    IN  [k \in live |-> [held[k] EXCEPT !.left = @ - 1]]

LEMMA OlderBuckets ==
    ASSUME NEW held, AreBuckets(held)
    PROVE  LET after == Older(held) IN
           /\ AreBuckets(after)
           /\ \A k : k \in DOMAIN after <=> k \in DOMAIN held /\ held[k].left > 1
           /\ \A k \in DOMAIN after :
                  after[k].count = held[k].count /\ after[k].left = held[k].left - 1
<1> DEFINE after == Older(held)
<1>1. \A k : k \in DOMAIN after <=> k \in DOMAIN held /\ held[k].left > 1
  BY DEF Older
<1>2. ASSUME NEW k \in DOMAIN after
      PROVE  /\ after[k] \in Bucket
             /\ after[k].count = held[k].count /\ after[k].left = held[k].left - 1
  <2> DEFINE c == held[k].count  l == held[k].left
  <2>1. held[k] \in Bucket /\ l > 1
    BY <1>1 DEF AreBuckets
  <2>2. held[k] = [count |-> c, left |-> l] /\ c \in Nat \ {0} /\ l \in 1..Window
    BY <2>1 DEF Bucket
  <2>3. after[k] = [held[k] EXCEPT !.left = @ - 1]
    BY DEF Older
  <2>4. after[k] = [count |-> c, left |-> l - 1]
    BY <2>2, <2>3
  <2>5. l - 1 \in 1..Window
    BY <2>1, <2>2, LimitConstants
  <2>6. after[k] \in Bucket
    BY <2>2, <2>4, <2>5 DEF Bucket
  <2>7. after[k].count = c /\ after[k].left = l - 1
    BY <2>4
  <2> QED BY <2>6, <2>7
<1> HIDE DEF after
<1>3. AreBuckets(after)
  BY <1>2 DEF AreBuckets
<1> QED BY <1>1, <1>2, <1>3 DEF after

\* A span and the room for it age together.
LEMMA RoomAges ==
    ASSUME NEW held, AreBuckets(held), NEW key, NEW a \in Ages, NEW b \in Ages, a <= b
    PROVE  /\ a >= 1 => RoomOf(Older(held), key, a, b) >= RoomOf(held, key, a - 1, b - 1)
           /\ b >= 1 => RoomOf(Older(held), key, 0, b) = RoomOf(Older(held), key, 1, b)
           /\ RoomOf(Older(held), key, 0, 0) >= 0
<1> DEFINE after == Older(held)
<1>1. /\ AreBuckets(after)
      /\ \A k : k \in DOMAIN after <=> k \in DOMAIN held /\ held[k].left > 1
      /\ \A k \in DOMAIN after :
             after[k].count = held[k].count /\ after[k].left = held[k].left - 1
  BY OlderBuckets
<1>2. a \in Int /\ b \in Int /\ 0 <= a /\ a <= b /\ b < Window
  BY LimitConstants DEF Ages
<1> HIDE DEF after
<1> DEFINE c == held[key].count  l == held[key].left
<1>3. key \in DOMAIN held => c \in Nat \ {0} /\ l \in 1..Window
  BY DEF AreBuckets, Bucket
<1>4. CASE key \notin DOMAIN held
  <2>1. key \notin DOMAIN after
    BY <1>1, <1>4
  <2> QED BY <1>2, <1>4, <2>1, LimitConstants DEF RoomOf, after
<1>5. CASE key \in DOMAIN held /\ l <= 1
  <2>1. key \notin DOMAIN after /\ l = 1
    BY <1>1, <1>3, <1>5
  <2>2. \A x, y : RoomOf(after, key, x, y) = IF y > 0 THEN Points - 1 ELSE 0
    BY <2>1 DEF RoomOf
  <2>3. RoomOf(held, key, a - 1, b - 1) =
            (IF a - 1 > Window - 1 THEN 0
             ELSE IF b - 1 < Window - 1 THEN (IF c > Points THEN Points ELSE c) - 1
             ELSE IF c > Points THEN Points ELSE c)
            + (IF b - 1 > Window - 1 THEN Points - 1 ELSE 0)
    BY <1>5, <2>1 DEF RoomOf
  <2> HIDE DEF c, l
  <2> QED BY <1>2, <1>3, <1>5, <2>2, <2>3, LimitConstants DEF after
<1>6. CASE key \in DOMAIN held /\ l > 1
  <2>1. key \in DOMAIN after /\ after[key].count = c /\ after[key].left = l - 1
    BY <1>1, <1>6
  <2>2. \A x, y : RoomOf(after, key, x, y) =
            (IF x > Window - (l - 1) THEN 0
             ELSE IF y < Window - (l - 1) THEN (IF c > Points THEN Points ELSE c) - 1
             ELSE IF c > Points THEN Points ELSE c)
            + (IF y > Window - (l - 1) THEN Points - 1 ELSE 0)
    BY <2>1 DEF RoomOf
  <2>3. RoomOf(held, key, a - 1, b - 1) =
            (IF a - 1 > Window - l THEN 0
             ELSE IF b - 1 < Window - l THEN (IF c > Points THEN Points ELSE c) - 1
             ELSE IF c > Points THEN Points ELSE c)
            + (IF b - 1 > Window - l THEN Points - 1 ELSE 0)
    BY <1>6 DEF RoomOf
  <2> HIDE DEF c, l
  <2>4. a >= 1 => RoomOf(after, key, a, b) >= RoomOf(held, key, a - 1, b - 1)
    BY <1>2, <1>3, <1>6, <2>2, <2>3, LimitConstants
  <2>5. b >= 1 => RoomOf(after, key, 0, b) = RoomOf(after, key, 1, b)
    BY <1>2, <1>3, <1>6, <2>2, LimitConstants
  <2>6. RoomOf(after, key, 0, 0) >= 0
    BY <1>2, <1>3, <1>6, <2>2, LimitConstants
  <2> QED BY <2>4, <2>5, <2>6 DEF after
<1> QED BY <1>3, <1>4, <1>5, <1>6

\* A sum over a span is that of the shifted function over the shifted span.
LEMMA ShiftedSum ==
    ASSUME NEW f, NEW g, NEW a \in Nat, NEW b \in Nat, 1 <= a, a <= b,
           \A x \in a..b : g[x] = f[x - 1] /\ f[x - 1] \in Int
    PROVE  SumFunctionOnSet(g, a..b) = SumFunctionOnSet(f, (a - 1)..(b - 1))
<1> DEFINE Same(m) == SumFunctionOnSet(g, a..m) = SumFunctionOnSet(f, (a - 1)..(m - 1))
           Bad == {m \in a..b : ~Same(m)}
<1> SUFFICES ASSUME Bad # {} PROVE FALSE
  <2>1. b \in a..b
    OBVIOUS
  <2> QED BY <2>1
<1>1. PICK m \in Bad : \A k \in Bad : m <= k
  <2> HIDE DEF Same
  <2>1. Bad \subseteq Nat
    OBVIOUS
  <2> HIDE DEF Bad
  <2> QED BY <2>1, LeastNatural
<1>2. m \in a..b /\ ~Same(m)
  BY <1>1
<1>9. m \in Int /\ a <= m /\ m <= b
  BY <1>2
<1>10. \A x \in a..b : g[x] \in Int /\ g[x] = f[x - 1]
  OBVIOUS
<1>3. IsFiniteSet(a..m) /\ IsFiniteSet((a - 1)..(m - 1))
  BY <1>2, FS_Interval
<1>4. SumFunctionOnSet(g, a..m) = g[m] + SumFunctionOnSet(g, (a..m) \ {m})
  <2> DEFINE S == a..m
  <2>1. m \in S /\ S \subseteq a..b
    BY <1>9
  <2>2. \A x \in S : g[x] \in Int
    BY <1>10, <2>1
  <2>3. IsFiniteSet(S)
    BY <1>3
  <2> HIDE DEF S, Bad, Same
  <2>5. PICK n : n = m
    OBVIOUS
  <2>6. n \in S
    BY <2>1, <2>5
  <2>4. SumFunctionOnSet(g, S) = g[n] + SumFunctionOnSet(g, S \ {n})
    BY <2>2, <2>3, <2>6, SumWith
  <2> QED BY <2>4, <2>5 DEF S
<1>5. SumFunctionOnSet(f, (a - 1)..(m - 1))
          = f[m - 1] + SumFunctionOnSet(f, ((a - 1)..(m - 1)) \ {m - 1})
  <2> DEFINE S == (a - 1)..(m - 1)
  <2>1. m - 1 \in S
    BY <1>9
  <2>2. \A x \in S : f[x] \in Int
    <3> TAKE x \in S
    <3>1. x + 1 \in a..b /\ (x + 1) - 1 = x
      BY <1>9
    <3> QED BY <3>1
  <2>3. IsFiniteSet(S)
    BY <1>3
  <2> HIDE DEF S, Bad, Same
  <2>4. SumFunctionOnSet(f, S) = f[m - 1] + SumFunctionOnSet(f, S \ {m - 1})
    BY <2>1, <2>2, <2>3, SumWith
  <2> QED BY <2>4 DEF S
<1>6. g[m] = f[m - 1]
  BY <1>2
<1>7. CASE m = a
  <2>1. (a..m) \ {m} = {} /\ ((a - 1)..(m - 1)) \ {m - 1} = {}
    BY <1>2, <1>7
  <2> QED BY <1>2, <1>4, <1>5, <1>6, <2>1, SumOfNone
<1>8. CASE m # a
  <2>3. m - 1 \in a..b /\ ~(m <= m - 1)
    BY <1>8, <1>9
  <2>4. (a..m) \ {m} = a..(m - 1)
    BY <1>8, <1>9
  <2>5. ((a - 1)..(m - 1)) \ {m - 1} = (a - 1)..((m - 1) - 1)
    <3> DEFINE n == m - 1  c == a - 1
    <3>1. n \in Int /\ c \in Int /\ c <= n
      BY <1>9
    <3> HIDE DEF n, c
    <3>2. (c..n) \ {n} = c..(n - 1)
      BY <3>1
    <3> QED BY <3>2 DEF n, c
  <2>1. /\ m - 1 \in a..b /\ ~(m <= m - 1) /\ (a..m) \ {m} = a..(m - 1)
        /\ ((a - 1)..(m - 1)) \ {m - 1} = (a - 1)..((m - 1) - 1)
    BY <2>3, <2>4, <2>5
  <2>2. Same(m - 1)
    <3> HIDE DEF Same
    <3> QED BY <1>1, <2>1
  <2> QED BY <1>2, <1>4, <1>5, <1>6, <2>1, <2>2
<1> QED BY <1>7, <1>8

LEMMA LimitSoundInit == LimitInit => LimitSound
<1> SUFFICES ASSUME LimitInit PROVE LimitSound
  OBVIOUS
<1>1. LimitTypeOK
  BY DEF LimitInit, LimitTypeOK, AreStores, AreBuckets
<1>2. ASSUME NEW ips \in SUBSET Ips, NEW w \in Wallets, NEW key PROVE WithinRoom(key, ips, w)
  <2> SUFFICES ASSUME NEW a \in Ages, NEW b \in Ages, a <= b
               PROVE  LetThrough(admitted, ips, w, a, b) <= Room(buckets, key, a, b)
    BY DEF WithinRoom
  <2>1. IsFiniteSet(ips) /\ IsFiniteSet(a..b) /\ a..b \subseteq Ages
    BY FS_Subset, FS_Interval, LimitConstants DEF Ages
  <2>2. \A ip \in ips : SumFunctionOnSet(admitted[<<ip, w>>], a..b) = 0
    <3> TAKE ip \in ips
    <3>1. \A age \in a..b : admitted[<<ip, w>>][age] = 0
      BY <2>1 DEF LimitInit
    <3> QED BY <2>1, <3>1, SumOfZeros
  <2>3. LetThrough(admitted, ips, w, a, b) = 0
    <3> DEFINE f == [ip \in ips |-> SumFunctionOnSet(admitted[<<ip, w>>], a..b)]
    <3>1. \A ip \in ips : f[ip] = 0
      BY <2>2
    <3> HIDE DEF f
    <3>2. SumFunctionOnSet(f, ips) = 0
      BY <2>1, <3>1, SumOfZeros
    <3> QED BY <3>2 DEF f, LetThrough
  <2>4. \A s \in Stores : RoomOf(buckets[s], key, a, b) >= 0
    BY LimitConstants DEF LimitInit, RoomOf
  <2>5. \A s \in Stores : RoomOf(buckets[s], key, a, b) \in Int
    <3> TAKE s \in Stores
    <3>1. AreBuckets(buckets[s]) /\ a \in Int /\ b \in Int
      BY <1>1 DEF LimitTypeOK, AreStores, Ages
    <3> QED BY <3>1, RoomIsInt
  <2> QED BY <2>3, <2>4, <2>5 DEF Room, Stores
<1>3. \A ip \in Ips : {ip} \in SUBSET Ips
  OBVIOUS
<1> QED BY <1>1, <1>2, <1>3 DEF LimitSound

LEMMA LetThroughIsInt ==
    ASSUME NEW ad \in [Ips \X Wallets -> [Ages -> Nat]], NEW ips \in SUBSET Ips,
           NEW w \in Wallets, NEW a \in Ages, NEW b \in Ages
    PROVE  /\ LetThrough(ad, ips, w, a, b) \in Int
           /\ \A ip \in ips : SumFunctionOnSet(ad[<<ip, w>>], a..b) \in Int
<1>1. IsFiniteSet(ips) /\ IsFiniteSet(a..b) /\ a..b \subseteq Ages
  BY FS_Subset, FS_Interval, LimitConstants DEF Ages
<1>2. \A ip \in ips : SumFunctionOnSet(ad[<<ip, w>>], a..b) \in Int
  <2> TAKE ip \in ips
  <2> DEFINE f == ad[<<ip, w>>]
  <2>1. \A age \in a..b : f[age] \in Int
    BY <1>1
  <2> HIDE DEF f
  <2>2. SumFunctionOnSet(f, a..b) \in Int
    BY <1>1, <2>1, SumIsInt
  <2> QED BY <2>2 DEF f
<1> DEFINE h == [ip \in ips |-> SumFunctionOnSet(ad[<<ip, w>>], a..b)]
<1>3. \A ip \in ips : h[ip] \in Int
  BY <1>2
<1> HIDE DEF h
<1>4. SumFunctionOnSet(h, ips) \in Int
  BY <1>1, <1>3, SumIsInt
<1> QED BY <1>2, <1>4 DEF h, LetThrough

LEMMA TickKeepsRoom ==
    ASSUME LimitTypeOK, TickClock, NEW ips \in SUBSET Ips, NEW w \in Wallets, NEW key,
           WithinRoom(key, ips, w)
    PROVE  WithinRoom(key, ips, w)'
<1> SUFFICES ASSUME NEW a \in Ages, NEW b \in Ages, a <= b
             PROVE  LetThrough(admitted', ips, w, a, b) <= Room(buckets', key, a, b)
  BY DEF WithinRoom, Ages
<1>1. /\ a \in Int /\ b \in Int /\ 0 <= a /\ a <= b /\ b < Window
      /\ Window \in Nat \ {0} /\ IsFiniteSet(ips)
  BY LimitConstants, FS_Subset DEF Ages
<1>9. \A x : x \in Ages <=> x \in Int /\ 0 <= x /\ x < Window
  BY LimitConstants DEF Ages
<1>2. \A s \in Stores : buckets'[s] = Older(buckets[s]) /\ AreBuckets(buckets[s])
  BY DEF TickClock, Older, LimitTypeOK, AreStores
<1>3. \A ip \in ips : \A age \in Ages :
          /\ admitted'[<<ip, w>>][age] = IF age = 0 THEN 0 ELSE admitted[<<ip, w>>][age - 1]
          /\ admitted[<<ip, w>>][age] \in Nat
  BY DEF TickClock, LimitTypeOK
<1>4. ASSUME NEW x \in Ages, NEW y \in Ages, x <= y
      PROVE  \A s \in Stores :
             /\ RoomOf(buckets'[s], key, x, y) \in Int
             /\ x >= 1 => /\ RoomOf(buckets[s], key, x - 1, y - 1) \in Int
                          /\ RoomOf(buckets'[s], key, x, y) >= RoomOf(buckets[s], key, x - 1, y - 1)
             /\ y >= 1 => RoomOf(buckets'[s], key, 0, y) = RoomOf(buckets'[s], key, 1, y)
             /\ RoomOf(buckets'[s], key, 0, 0) >= 0
  <2> TAKE s \in Stores
  <2>1. x \in Int /\ y \in Int /\ x - 1 \in Int /\ y - 1 \in Int
    BY DEF Ages
  <2>2. AreBuckets(Older(buckets[s])) /\ AreBuckets(buckets[s])
    BY <1>2, OlderBuckets
  <2>3. /\ RoomOf(Older(buckets[s]), key, x, y) \in Int
        /\ RoomOf(buckets[s], key, x - 1, y - 1) \in Int
    BY <2>1, <2>2, RoomIsInt
  <2>4. /\ x >= 1 => RoomOf(Older(buckets[s]), key, x, y) >= RoomOf(buckets[s], key, x - 1, y - 1)
        /\ y >= 1 => RoomOf(Older(buckets[s]), key, 0, y) = RoomOf(Older(buckets[s]), key, 1, y)
        /\ RoomOf(Older(buckets[s]), key, 0, 0) >= 0
    BY <1>4, <2>2, RoomAges
  <2> QED BY <1>2, <2>3, <2>4
<1>5. ASSUME NEW x \in Ages, x >= 1, x <= b
      PROVE  /\ LetThrough(admitted', ips, w, x, b) = LetThrough(admitted, ips, w, x - 1, b - 1)
             /\ LetThrough(admitted', ips, w, x, b) <= Room(buckets', key, x, b)
  <2>1. x - 1 \in Ages /\ b - 1 \in Ages /\ x - 1 <= b - 1 /\ x \in Nat /\ b \in Nat
    BY <1>1, <1>5, <1>9
  <2>2. \A ip \in ips : SumFunctionOnSet(admitted'[<<ip, w>>], x..b)
                            = SumFunctionOnSet(admitted[<<ip, w>>], (x - 1)..(b - 1))
    <3> TAKE ip \in ips
    <3> DEFINE f == admitted[<<ip, w>>]  g == admitted'[<<ip, w>>]
    <3>1. \A age \in x..b : g[age] = f[age - 1] /\ f[age - 1] \in Int
      <4> TAKE age \in x..b
      <4>1. age \in Ages /\ age # 0 /\ age - 1 \in Ages
        BY <1>1, <1>5, <1>9
      <4> QED BY <1>3, <4>1
    <3> HIDE DEF f, g
    <3>2. SumFunctionOnSet(g, x..b) = SumFunctionOnSet(f, (x - 1)..(b - 1))
      <4>1. PICK c, d : c = x /\ d = b
        OBVIOUS
      <4>2. c \in Nat /\ d \in Nat /\ 1 <= c /\ c <= d
        BY <1>5, <2>1, <4>1
      <4>3. \A age \in c..d : g[age] = f[age - 1] /\ f[age - 1] \in Int
        BY <3>1, <4>1
      <4>4. SumFunctionOnSet(g, c..d) = SumFunctionOnSet(f, (c - 1)..(d - 1))
        BY <4>2, <4>3, ShiftedSum
      <4> QED BY <4>1, <4>4
    <3> QED BY <3>2 DEF f, g
  <2>3. LetThrough(admitted', ips, w, x, b) = LetThrough(admitted, ips, w, x - 1, b - 1)
    BY <2>2 DEF LetThrough
  <2>4. LetThrough(admitted, ips, w, x - 1, b - 1) <= Room(buckets, key, x - 1, b - 1)
    BY <2>1 DEF WithinRoom
  <2>5. LetThrough(admitted, ips, w, x - 1, b - 1) \in Int
    BY <2>1, LetThroughIsInt DEF LimitTypeOK
  <2>6. \A s \in Stores :
            /\ RoomOf(buckets'[s], key, x, b) \in Int
            /\ RoomOf(buckets[s], key, x - 1, b - 1) \in Int
            /\ RoomOf(buckets'[s], key, x, b) >= RoomOf(buckets[s], key, x - 1, b - 1)
    BY <1>4, <1>5
  <2> HIDE DEF LetThrough
  <2> QED BY <2>3, <2>4, <2>5, <2>6 DEF Room, Stores
<1>6. CASE a >= 1
  BY <1>1, <1>5, <1>6
<1>7. CASE a = 0 /\ b >= 1
  <2>1. 1 \in Ages /\ 1 <= b
    BY <1>1, <1>7, <1>9
  <2>2. \A ip \in ips : SumFunctionOnSet(admitted'[<<ip, w>>], 0..b)
                            = SumFunctionOnSet(admitted'[<<ip, w>>], 1..b)
    <3> TAKE ip \in ips
    <3> DEFINE g == admitted'[<<ip, w>>]  S == 0..b
    <3>6. 0 \in S /\ S \ {0} = 1..b /\ S \subseteq Ages
      BY <1>1, <1>9
    <3>7. IsFiniteSet(S) /\ IsFiniteSet(1..b)
      BY <1>1, FS_Interval
    <3>1. 0 \in S /\ IsFiniteSet(S) /\ S \ {0} = 1..b /\ S \subseteq Ages /\ IsFiniteSet(1..b)
      BY <3>6, <3>7
    <3>2. \A age \in S : g[age] \in Int
      <4> TAKE age \in S
      <4>1. age \in Ages /\ (age # 0 => age - 1 \in Ages)
        BY <1>1, <1>9
      <4> QED BY <1>3, <4>1
    <3>3. g[0] = 0
      BY <1>1, <1>3, <1>9
    <3> HIDE DEF g, S
    <3>4. SumFunctionOnSet(g, S) = g[0] + SumFunctionOnSet(g, S \ {0})
      BY <3>1, <3>2, SumWith
    <3>5. SumFunctionOnSet(g, 1..b) \in Int
      <4>1. \A age \in 1..b : g[age] \in Int
        BY <3>1, <3>2
      <4> QED BY <3>1, <4>1, SumIsInt
    <3>8. SumFunctionOnSet(g, S) = SumFunctionOnSet(g, 1..b)
      <4>1. SumFunctionOnSet(g, S) = 0 + SumFunctionOnSet(g, 1..b)
        BY <3>1, <3>3, <3>4
      <4> QED BY <3>5, <4>1
    <3> QED BY <3>8 DEF g, S
  <2>3. LetThrough(admitted', ips, w, 0, b) = LetThrough(admitted', ips, w, 1, b)
    BY <2>2 DEF LetThrough
  <2>4. LetThrough(admitted', ips, w, 1, b) <= Room(buckets', key, 1, b)
    BY <1>5, <2>1
  <2>5. Room(buckets', key, 0, b) = Room(buckets', key, 1, b)
    <3>1. \A s \in Stores : RoomOf(buckets'[s], key, 0, b) = RoomOf(buckets'[s], key, 1, b)
      BY <1>1, <1>4, <1>7
    <3> QED BY <3>1 DEF Room, Stores
  <2> QED BY <1>7, <2>3, <2>4, <2>5
<1>8. CASE a = 0 /\ b = 0
  <2>1. \A ip \in ips : SumFunctionOnSet(admitted'[<<ip, w>>], a..b) = 0
    <3> TAKE ip \in ips
    <3> DEFINE g == admitted'[<<ip, w>>]
    <3>1. \A age \in a..b : g[age] = 0
      BY <1>1, <1>3, <1>8 DEF Ages
    <3> HIDE DEF g
    <3>2. IsFiniteSet(a..b)
      BY <1>1, FS_Interval
    <3>3. SumFunctionOnSet(g, a..b) = 0
      BY <3>1, <3>2, SumOfZeros
    <3> QED BY <3>3 DEF g
  <2> DEFINE h == [ip \in ips |-> SumFunctionOnSet(admitted'[<<ip, w>>], a..b)]
  <2>2. \A ip \in ips : h[ip] = 0
    BY <2>1
  <2> HIDE DEF h
  <2>3. SumFunctionOnSet(h, ips) = 0
    BY <1>1, <2>2, SumOfZeros
  <2>4. LetThrough(admitted', ips, w, a, b) = 0
    BY <2>3 DEF h, LetThrough
  <2>5. \A s \in Stores :
            RoomOf(buckets'[s], key, a, b) \in Int /\ RoomOf(buckets'[s], key, a, b) >= 0
    BY <1>4, <1>8
  <2> QED BY <2>4, <2>5 DEF Room, Stores
<1> QED BY <1>1, <1>6, <1>7, <1>8

LEMMA TickTypes == ASSUME LimitTypeOK, TickClock PROVE LimitTypeOK'
<1>1. dualScope' = dualScope
  BY DEF TickClock
<1>2. AreStores(buckets')
  <2>1. \A s \in Stores : buckets'[s] = Older(buckets[s]) /\ AreBuckets(buckets[s])
    BY DEF TickClock, Older, LimitTypeOK, AreStores
  <2>2. \A s \in Stores : AreBuckets(buckets'[s])
    BY <2>1, OlderBuckets
  <2>3. buckets' = [s \in Stores |-> buckets'[s]]
    BY DEF TickClock
  <2> QED BY <2>2, <2>3 DEF AreStores
<1>3. admitted' \in [Ips \X Wallets -> [Ages -> Nat]]
  <2>1. \A age \in Ages : age # 0 => age - 1 \in Ages
    BY LimitConstants DEF Ages
  <2>2. \A who \in Ips \X Wallets :
            [age \in Ages |-> IF age = 0 THEN 0 ELSE admitted[who][age - 1]] \in [Ages -> Nat]
    BY <2>1 DEF LimitTypeOK
  <2> QED BY <2>2 DEF TickClock, LimitTypeOK
<1> QED BY <1>1, <1>2, <1>3 DEF LimitTypeOK

\* A request never lessens the room, and takes a point of the key that counts it.
LEMMA RequestRoom ==
    ASSUME AreStores(buckets), NEW ip, NEW w, NEW s1 \in Stores, NEW s2 \in Stores
    PROVE  LET result == consumeKeys(buildRateLimitKeys(ip, w), s1, s2) IN
           /\ AreStores(result.buckets)
           /\ \A key : \A a, b \in Ages : a <= b =>
                  /\ Room(result.buckets, key, a, b) >= Room(buckets, key, a, b)
                  /\ ~result.rejected /\ w # NoWallet /\ a = 0
                     /\ key = (IF dualScope THEN <<w>> ELSE <<ip, w>>)
                         => Room(result.buckets, key, a, b) >= Room(buckets, key, a, b) + 1
<1> DEFINE taken == buildRateLimitKeys(ip, w)
           first == [buckets EXCEPT ![s1] = Consumed(@, taken[1])]
           result == consumeKeys(taken, s1, s2)
<1>1. /\ AreStores(first)
      /\ \A key : \A a, b \in Ages : a <= b =>
             /\ Room(first, key, a, b) >= Room(buckets, key, a, b)
             /\ taken[1] = key /\ a = 0 /\ ~Refused(buckets[s1], taken[1])
                    => Room(first, key, a, b) >= Room(buckets, key, a, b) + 1
  <2> HIDE DEF taken
  <2> QED BY ConsumeInStore
<1>2. \A bs : AreStores(bs) => \A key : \A a, b \in Ages : Room(bs, key, a, b) \in Int
  <2> SUFFICES ASSUME NEW bs, AreStores(bs), NEW key, NEW a \in Ages, NEW b \in Ages
               PROVE  Room(bs, key, a, b) \in Int
    OBVIOUS
  <2>1. a \in Int /\ b \in Int /\ AreBuckets(bs["redis"]) /\ AreBuckets(bs["memory"])
    BY DEF Ages, AreStores, Stores
  <2> QED BY <2>1, RoomIsInt DEF Room
<1>3. CASE Len(taken) = 1 \/ Refused(buckets[s1], taken[1])
  <2>1. result.buckets = first /\ result.rejected = Refused(buckets[s1], taken[1])
    BY <1>3 DEF consumeKeys
  <2>2. ~result.rejected /\ w # NoWallet
            => ~dualScope /\ taken[1] = <<ip, w>> /\ ~Refused(buckets[s1], taken[1])
    BY <1>3, <2>1 DEF buildRateLimitKeys
  <2> HIDE DEF taken, first, result
  <2>3. \A key : \A a, b \in Ages : a <= b =>
            Room(result.buckets, key, a, b) >= Room(buckets, key, a, b)
    BY <1>1, <2>1
  <2>4. ASSUME NEW key, NEW a \in Ages, NEW b \in Ages, a <= b,
               ~result.rejected, w # NoWallet, a = 0,
               key = (IF dualScope THEN <<w>> ELSE <<ip, w>>)
        PROVE  Room(result.buckets, key, a, b) >= Room(buckets, key, a, b) + 1
    <3>1. taken[1] = key /\ ~Refused(buckets[s1], taken[1])
      BY <2>2, <2>4
    <3> QED BY <1>1, <2>1, <2>4, <3>1
  <2> QED BY <1>1, <2>1, <2>3, <2>4 DEF result, taken
<1>4. CASE ~(Len(taken) = 1 \/ Refused(buckets[s1], taken[1]))
  <2> DEFINE second == [first EXCEPT ![s2] = Consumed(@, taken[2])]
  <2>1. result.buckets = second /\ result.rejected = Refused(first[s2], taken[2])
    BY <1>4 DEF consumeKeys
  <2>2. w # NoWallet => dualScope /\ taken[2] = <<w>>
    BY <1>4 DEF buildRateLimitKeys
  <2> HIDE DEF taken, first, result
  <2>3. /\ AreStores(second)
        /\ \A key : \A a, b \in Ages : a <= b =>
               /\ Room(second, key, a, b) >= Room(first, key, a, b)
               /\ taken[2] = key /\ a = 0 /\ ~Refused(first[s2], taken[2])
                      => Room(second, key, a, b) >= Room(first, key, a, b) + 1
    BY <1>1, ConsumeInStore
  <2> HIDE DEF second
  <2>4. ASSUME NEW key, NEW a \in Ages, NEW b \in Ages, a <= b
        PROVE  /\ Room(second, key, a, b) >= Room(buckets, key, a, b)
               /\ ~result.rejected /\ w # NoWallet /\ a = 0
                  /\ key = (IF dualScope THEN <<w>> ELSE <<ip, w>>)
                      => Room(second, key, a, b) >= Room(buckets, key, a, b) + 1
    <3>1. /\ Room(second, key, a, b) \in Int /\ Room(first, key, a, b) \in Int
          /\ Room(buckets, key, a, b) \in Int
      BY <1>1, <1>2, <2>3
    <3>2. /\ Room(second, key, a, b) >= Room(first, key, a, b)
          /\ Room(first, key, a, b) >= Room(buckets, key, a, b)
      BY <1>1, <2>3, <2>4
    <3>3. Room(second, key, a, b) >= Room(buckets, key, a, b)
      BY <3>1, <3>2
    <3>4. ASSUME ~result.rejected, w # NoWallet, a = 0,
                 key = (IF dualScope THEN <<w>> ELSE <<ip, w>>)
          PROVE  Room(second, key, a, b) >= Room(buckets, key, a, b) + 1
      <4>1. taken[2] = key /\ ~Refused(first[s2], taken[2])
        BY <2>1, <2>2, <3>4
      <4>2. Room(second, key, a, b) >= Room(first, key, a, b) + 1
        BY <2>3, <2>4, <3>4, <4>1
      <4> QED BY <3>1, <3>2, <4>2
    <3> QED BY <3>3, <3>4
  <2> QED BY <2>1, <2>3, <2>4 DEF result, taken
<1> QED BY <1>3, <1>4

\* What a request that is let through adds to the sums.
LetIn(ad, ip, w) == [ad EXCEPT ![<<ip, w>>][0] = @ + 1]
Added(ad, ips, v, ip, w, a, b) ==
    LetThrough(LetIn(ad, ip, w), ips, v, a, b)
        = LetThrough(ad, ips, v, a, b) + IF v = w /\ ip \in ips /\ a = 0 THEN 1 ELSE 0

LEMMA LetThroughGrows ==
    ASSUME NEW ad \in [Ips \X Wallets -> [Ages -> Nat]], NEW ips \in SUBSET Ips,
           NEW v \in Wallets, NEW ip \in Ips, NEW w \in Wallets, NEW a \in Ages, NEW b \in Ages,
           a <= b
    PROVE  Added(ad, ips, v, ip, w, a, b)
<1> DEFINE new == LetIn(ad, ip, w)
           Old(i) == SumFunctionOnSet(ad[<<i, v>>], a..b)
           New(i) == SumFunctionOnSet(new[<<i, v>>], a..b)
           old == [i \in ips |-> Old(i)]
           nw == [i \in ips |-> New(i)]
<1>1. /\ IsFiniteSet(ips) /\ IsFiniteSet(a..b) /\ a..b \subseteq Ages /\ 0 \in Ages
      /\ a \in Int /\ b \in Int /\ 0 <= a
  BY FS_Subset, FS_Interval, LimitConstants DEF Ages
<1>2. /\ \A i \in Ips : <<i, v>> # <<ip, w>> => new[<<i, v>>] = ad[<<i, v>>]
      /\ \A age \in Ages : new[<<ip, w>>][age]
             = IF age = 0 THEN ad[<<ip, w>>][age] + 1 ELSE ad[<<ip, w>>][age]
      /\ \A i \in Ips, age \in Ages : ad[<<i, v>>][age] \in Nat
  BY <1>1 DEF LetIn
<1>3. \A i \in ips : Old(i) \in Int
  BY LetThroughIsInt
<1> HIDE DEF new
<1>4. \A i \in ips : <<i, v>> # <<ip, w>> => New(i) = Old(i)
  BY <1>2
<1>5. ASSUME ip \in ips, v = w PROVE New(ip) = Old(ip) + IF a = 0 THEN 1 ELSE 0
  <2> DEFINE f == ad[<<ip, w>>]  g == new[<<ip, w>>]  S == a..b
  <2>1. \A age \in S : f[age] \in Int /\ g[age] = IF age = 0 THEN f[age] + 1 ELSE f[age]
    <3> TAKE age \in S
    <3>1. age \in Ages /\ <<ip, w>> = <<ip, v>>
      BY <1>1, <1>5
    <3>2. f[age] \in Nat
      BY <1>2, <3>1
    <3> QED BY <1>2, <3>1, <3>2
  <2>2. IsFiniteSet(S) /\ (0 \in S <=> a = 0)
    BY <1>1
  <2>3. New(ip) = SumFunctionOnSet(g, S) /\ Old(ip) = SumFunctionOnSet(f, S)
    BY <1>5
  <2> HIDE DEF New, Old, f, g, S
  <2>4. CASE a = 0
    <3>1. 0 \in S /\ g[0] = f[0] + 1 /\ f[0] \in Int /\ g[0] \in Int
      BY <2>1, <2>2, <2>4
    <3>2. (\A age \in S : f[age] \in Int) /\ \A age \in S \ {0} : g[age] = f[age]
      BY <2>1
    <3>3. SumFunctionOnSet(g, S) = SumFunctionOnSet(f, S) - f[0] + g[0]
      BY <2>2, <3>1, <3>2, SumChanges
    <3>4. SumFunctionOnSet(f, S) \in Int
      BY <2>2, <3>2, SumIsInt
    <3> QED BY <2>3, <2>4, <3>1, <3>3, <3>4
  <2>5. CASE a # 0
    <3>1. \A age \in S : g[age] = f[age]
      BY <2>1, <2>2, <2>5
    <3>2. SumFunctionOnSet(g, S) = SumFunctionOnSet(f, S)
      BY <2>2, <3>1, SumsAgree
    <3>3. SumFunctionOnSet(f, S) \in Int
      BY <2>1, <2>2, SumIsInt
    <3> QED BY <2>3, <2>5, <3>2, <3>3
  <2> QED BY <2>4, <2>5
<1>6. /\ LetThrough(new, ips, v, a, b) = SumFunctionOnSet(nw, ips)
      /\ LetThrough(ad, ips, v, a, b) = SumFunctionOnSet(old, ips)
  BY DEF LetThrough
<1>7. /\ \A i \in ips : old[i] = Old(i) /\ nw[i] = New(i) /\ old[i] \in Int
  BY <1>3
<1> HIDE DEF New, Old, old, nw
<1>8. SumFunctionOnSet(old, ips) \in Int
  BY <1>1, <1>7, SumIsInt
<1>9. CASE v = w /\ ip \in ips
  <2>1. /\ ip \in ips /\ nw[ip] \in Int /\ old[ip] \in Int
        /\ nw[ip] = old[ip] + IF a = 0 THEN 1 ELSE 0
    BY <1>5, <1>7, <1>9
  <2>2. (\A i \in ips : old[i] \in Int) /\ \A i \in ips \ {ip} : nw[i] = old[i]
    BY <1>4, <1>7
  <2>3. SumFunctionOnSet(nw, ips) = SumFunctionOnSet(old, ips) - old[ip] + nw[ip]
    BY <1>1, <2>1, <2>2, SumChanges
  <2> QED BY <1>6, <1>8, <1>9, <2>1, <2>3 DEF new, Added
<1>10. CASE ~(v = w /\ ip \in ips)
  <2>1. \A i \in ips : nw[i] = old[i]
    BY <1>4, <1>7, <1>10
  <2>2. SumFunctionOnSet(nw, ips) = SumFunctionOnSet(old, ips)
    BY <1>1, <2>1, SumsAgree
  <2> QED BY <1>6, <1>8, <1>10, <2>2 DEF new, Added
<1> QED BY <1>9, <1>10

LEMMA RequestStep ==
    ASSUME LimitSound, NEW ip \in Ips, NEW w \in Wallets \cup {NoWallet}, Request(ip, w)
    PROVE  LimitSound'
<1> DEFINE taken == buildRateLimitKeys(ip, w)
<1>1. PICK s1 \in Stores, s2 \in Stores :
          LET result == consumeKeys(taken, s1, s2)
          IN  /\ buckets' = result.buckets
              /\ admitted' = IF result.rejected \/ w = NoWallet THEN admitted
                             ELSE [admitted EXCEPT ![<<ip, w>>][0] = @ + 1]
              /\ UNCHANGED dualScope
  BY DEF Request
<1> DEFINE result == consumeKeys(taken, s1, s2)
<1>2. LimitTypeOK
  BY DEF LimitSound
<1>3. /\ AreStores(result.buckets)
      /\ \A key : \A a, b \in Ages : a <= b =>
             /\ Room(result.buckets, key, a, b) >= Room(buckets, key, a, b)
             /\ ~result.rejected /\ w # NoWallet /\ a = 0
                /\ key = (IF dualScope THEN <<w>> ELSE <<ip, w>>)
                    => Room(result.buckets, key, a, b) >= Room(buckets, key, a, b) + 1
  BY <1>2, RequestRoom DEF LimitTypeOK
<1> HIDE DEF result
<1>4. /\ buckets' = result.buckets /\ dualScope' = dualScope
      /\ admitted' = IF result.rejected \/ w = NoWallet THEN admitted
                     ELSE [admitted EXCEPT ![<<ip, w>>][0] = @ + 1]
  BY <1>1 DEF result
<1>5. 0 \in Ages
  BY LimitConstants DEF Ages
<1>6. LimitTypeOK'
  <2>1. CASE result.rejected \/ w = NoWallet
    BY <1>2, <1>3, <1>4, <2>1 DEF LimitTypeOK
  <2>2. CASE ~(result.rejected \/ w = NoWallet)
    <3>1. <<ip, w>> \in Ips \X Wallets
      BY <2>2
    <3>2. admitted' \in [Ips \X Wallets -> [Ages -> Nat]]
      BY <1>2, <1>4, <1>5, <2>2, <3>1 DEF LimitTypeOK
    <3> QED BY <1>2, <1>3, <1>4, <3>2 DEF LimitTypeOK
  <2> QED BY <2>1, <2>2
<1>7. ASSUME NEW ips \in SUBSET Ips, NEW v \in Wallets, NEW key, WithinRoom(key, ips, v),
             v = w /\ ip \in ips => key = (IF dualScope THEN <<w>> ELSE <<ip, w>>)
      PROVE  WithinRoom(key, ips, v)'
  <2> SUFFICES ASSUME NEW a \in Ages, NEW b \in Ages, a <= b
               PROVE  LetThrough(admitted', ips, v, a, b) <= Room(buckets', key, a, b)
    BY DEF WithinRoom, Ages
  <2>1. LetThrough(admitted, ips, v, a, b) <= Room(buckets, key, a, b)
    BY <1>7 DEF WithinRoom
  <2>2. LetThrough(admitted, ips, v, a, b) \in Int
    BY <1>2, LetThroughIsInt DEF LimitTypeOK
  <2>3. Room(buckets, key, a, b) \in Int /\ Room(buckets', key, a, b) \in Int
    <3>1. /\ a \in Int /\ b \in Int
          /\ \A s \in Stores : AreBuckets(buckets[s]) /\ AreBuckets(buckets'[s])
      BY <1>2, <1>6 DEF LimitTypeOK, AreStores, Ages
    <3> QED BY <3>1, RoomIsInt DEF Room, Stores
  <2>4. Room(buckets', key, a, b) >= Room(buckets, key, a, b)
    BY <1>3, <1>4
  <2>5. CASE result.rejected \/ w = NoWallet
    <3>1. admitted' = admitted
      BY <1>4, <2>5
    <3> QED BY <2>1, <2>2, <2>3, <2>4, <3>1
  <2>6. CASE ~(result.rejected \/ w = NoWallet)
    <3>1. w \in Wallets /\ admitted' = [admitted EXCEPT ![<<ip, w>>][0] = @ + 1]
      BY <1>4, <2>6
    <3>2. LetThrough(admitted', ips, v, a, b) = LetThrough(admitted, ips, v, a, b)
              + IF v = w /\ ip \in ips /\ a = 0 THEN 1 ELSE 0
      <4>1. admitted \in [Ips \X Wallets -> [Ages -> Nat]]
        BY <1>2 DEF LimitTypeOK
      <4>2. admitted' = LetIn(admitted, ip, w)
        BY <3>1 DEF LetIn
      <4>3. Added(admitted, ips, v, ip, w, a, b)
        BY <3>1, <4>1, LetThroughGrows
      <4> QED BY <4>2, <4>3 DEF Added
    <3>3. v = w /\ ip \in ips /\ a = 0
              => Room(buckets', key, a, b) >= Room(buckets, key, a, b) + 1
      BY <1>3, <1>4, <1>7, <2>6
    <3> QED BY <2>1, <2>2, <2>3, <2>4, <3>2, <3>3
  <2> QED BY <2>5, <2>6
<1>8. ASSUME NEW v \in Wallets
      PROVE  IF dualScope THEN WithinRoom(<<v>>, Ips, v)'
             ELSE \A i \in Ips : WithinRoom(<<i, v>>, {i}, v)'
  <2>1. CASE dualScope
    <3>1. WithinRoom(<<v>>, Ips, v)
      BY <2>1 DEF LimitSound
    <3>2. v = w /\ ip \in Ips => <<v>> = IF dualScope THEN <<w>> ELSE <<ip, w>>
      BY <2>1
    <3>3. Ips \in SUBSET Ips
      OBVIOUS
    <3>4. WithinRoom(<<v>>, Ips, v)'
      BY <1>7, <3>1, <3>2, <3>3
    <3> QED BY <2>1, <3>4
  <2>2. CASE ~dualScope
    <3> SUFFICES ASSUME NEW i \in Ips PROVE WithinRoom(<<i, v>>, {i}, v)'
      BY <2>2
    <3>1. WithinRoom(<<i, v>>, {i}, v)
      BY <2>2 DEF LimitSound
    <3>2. v = w /\ ip \in {i} => <<i, v>> = IF dualScope THEN <<w>> ELSE <<ip, w>>
      BY <2>2
    <3>3. {i} \in SUBSET Ips
      OBVIOUS
    <3> QED BY <1>7, <3>1, <3>2, <3>3
  <2> QED BY <2>1, <2>2
<1> QED BY <1>4, <1>6, <1>8 DEF LimitSound

LEMMA LimitTickStep == ASSUME LimitSound, TickClock PROVE LimitSound'
<1>1. LimitTypeOK
  BY DEF LimitSound
<1>2. LimitTypeOK'
  BY <1>1, TickTypes
<1>3. dualScope' = dualScope
  BY DEF TickClock
<1>4. ASSUME NEW v \in Wallets
      PROVE  IF dualScope THEN WithinRoom(<<v>>, Ips, v)'
             ELSE \A i \in Ips : WithinRoom(<<i, v>>, {i}, v)'
  <2>1. CASE dualScope
    <3>1. WithinRoom(<<v>>, Ips, v) /\ Ips \in SUBSET Ips
      BY <2>1 DEF LimitSound
    <3> QED BY <1>1, <2>1, <3>1, TickKeepsRoom
  <2>2. CASE ~dualScope
    <3> SUFFICES ASSUME NEW i \in Ips PROVE WithinRoom(<<i, v>>, {i}, v)'
      BY <2>2
    <3>1. WithinRoom(<<i, v>>, {i}, v) /\ {i} \in SUBSET Ips
      BY <2>2 DEF LimitSound
    <3> QED BY <1>1, <3>1, TickKeepsRoom
  <2> QED BY <2>1, <2>2
<1> QED BY <1>2, <1>3, <1>4 DEF LimitSound

LEMMA LimitsStaySound == LimitSpec => []LimitSound
<1>1. ASSUME LimitSound, [LimitNext]_limitVars PROVE LimitSound'
  <2>1. CASE UNCHANGED limitVars
    BY <1>1, <2>1 DEF limitVars, LimitSound, LimitTypeOK, WithinRoom, AreStores, AreBuckets,
                      Stores, Ages, Bucket
  <2> QED BY <1>1, <2>1, LimitTickStep, RequestStep DEF LimitNext
<1> QED BY <1>1, LimitSoundInit, PTL DEF LimitSpec

\* However requests and outages of Redis fall, a wallet gets fewer than two windows'
\* points per store in any span of one window, for any number of points, length of the
\* window, addresses and wallets (rateLimit.ts, limiter.ts).
THEOREM WalletsStayLimited == LimitSpec => []WalletLimited
<1>1. ASSUME LimitSound PROVE WalletLimited
  <2> DEFINE limit == (2 * Points - 1) * Cardinality(Stores)
  <2>1. Cardinality(Stores) = 2
    <3>1. IsFiniteSet({"redis"}) /\ Cardinality({"redis"}) = 1
      BY FS_Singleton
    <3>2. Stores = {"redis"} \cup {"memory"} /\ "memory" \notin {"redis"}
      BY DEF Stores
    <3> QED BY <3>1, <3>2, FS_AddElement
  <2>2. limit = 4 * Points - 2 /\ limit \in Int
    BY <2>1, LimitConstants
  <2> HIDE DEF limit
  <2>3. 0 \in Ages /\ Window - 1 \in Ages /\ 0 <= Window - 1 /\ Ages = 0..(Window - 1)
    BY LimitConstants DEF Ages
  <2>4. ASSUME NEW key PROVE Room(buckets, key, 0, Window - 1) <= limit
    <3>1. ASSUME NEW s \in Stores
          PROVE  /\ RoomOf(buckets[s], key, 0, Window - 1) \in Int
                 /\ RoomOf(buckets[s], key, 0, Window - 1) <= 2 * Points - 1
      <4>1. AreBuckets(buckets[s])
        BY <1>1 DEF LimitSound, LimitTypeOK, AreStores
      <4>2. key \in DOMAIN buckets[s] =>
                buckets[s][key].count \in Nat /\ buckets[s][key].left \in 1..Window
        BY <4>1 DEF AreBuckets, Bucket
      <4> QED BY <4>2, LimitConstants DEF RoomOf
    <3> QED BY <2>2, <3>1, LimitConstants DEF Room, Stores
  <2>5. ASSUME NEW ips \in SUBSET Ips, NEW w \in Wallets, NEW key, WithinRoom(key, ips, w)
        PROVE  LetThrough(admitted, ips, w, 0, Window - 1) <= limit
    <3>1. LetThrough(admitted, ips, w, 0, Window - 1) <= Room(buckets, key, 0, Window - 1)
      BY <2>3, <2>5 DEF WithinRoom
    <3>2. LetThrough(admitted, ips, w, 0, Window - 1) \in Int
      BY <1>1, <2>3, LetThroughIsInt DEF LimitSound, LimitTypeOK
    <3>3. Room(buckets, key, 0, Window - 1) \in Int
      <4>1. \A s \in Stores : AreBuckets(buckets[s])
        BY <1>1 DEF LimitSound, LimitTypeOK, AreStores
      <4> QED BY <4>1, RoomIsInt, LimitConstants DEF Room, Stores
    <3> QED BY <2>2, <2>4, <3>1, <3>2, <3>3
  <2>6. ASSUME NEW w \in Wallets
        PROVE  IF dualScope THEN SumFunctionOnSet([ip \in Ips |-> Recent(ip, w)], Ips) <= limit
               ELSE \A ip \in Ips : Recent(ip, w) <= limit
    <3>1. CASE dualScope
      <4>1. WithinRoom(<<w>>, Ips, w) /\ Ips \in SUBSET Ips
        BY <1>1, <3>1 DEF LimitSound
      <4>2. LetThrough(admitted, Ips, w, 0, Window - 1) <= limit
        BY <2>5, <4>1
      <4>3. LetThrough(admitted, Ips, w, 0, Window - 1)
                = SumFunctionOnSet([ip \in Ips |-> Recent(ip, w)], Ips)
        BY <2>3 DEF LetThrough, Recent
      <4> QED BY <3>1, <4>2, <4>3
    <3>2. CASE ~dualScope
      <4> SUFFICES ASSUME NEW ip \in Ips PROVE Recent(ip, w) <= limit
        BY <3>2
      <4>1. WithinRoom(<<ip, w>>, {ip}, w) /\ {ip} \in SUBSET Ips
        BY <1>1, <3>2 DEF LimitSound
      <4>2. LetThrough(admitted, {ip}, w, 0, Window - 1) <= limit
        BY <2>5, <4>1
      <4> DEFINE h == [i \in {ip} |-> SumFunctionOnSet(admitted[<<i, w>>], 0..(Window - 1))]
      <4>3. h[ip] = Recent(ip, w) /\ LetThrough(admitted, {ip}, w, 0, Window - 1)
                = SumFunctionOnSet(h, {ip})
        BY <2>3 DEF LetThrough, Recent
      <4>4. \A i \in {ip} : h[i] \in Int
        BY <1>1, <2>3, <4>1, LetThroughIsInt DEF LimitSound, LimitTypeOK
      <4> HIDE DEF h
      <4>5. SumFunctionOnSet(h, {ip}) = h[ip]
        <5>1. IsFiniteSet({ip}) /\ ip \in {ip} /\ {ip} \ {ip} = {}
          BY FS_Singleton
        <5>2. SumFunctionOnSet(h, {ip}) = h[ip] + SumFunctionOnSet(h, {ip} \ {ip})
          BY <4>4, <5>1, SumWith
        <5> QED BY <4>4, <5>1, <5>2, SumOfNone
      <4> QED BY <4>2, <4>3, <4>5
    <3> QED BY <3>1, <3>2
  <2> QED BY <2>6 DEF WalletLimited, limit
<1> QED BY <1>1, LimitsStaySound, PTL
=============================================================================
