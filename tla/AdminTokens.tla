---------------------------- MODULE AdminTokens ----------------------------
(***************************************************************************)
(* The operator's endpoints: AdminController over AdminService's           *)
(* single-use confirmation tokens and audit log, and the middleware that   *)
(* logs every admin response once more. What an operation does to the      *)
(* payments is in Payments; here it is done, partly done or refused.       *)
(***************************************************************************)
EXTENDS Integers, Sequences, FiniteSets

CONSTANTS
    AdminRequests,  \* admin requests served at a time
    Admins,         \* operators, by the prefix of the API key they present
    Operations,     \* what a token is asked for: [action, resource]
    MaxTokens       \* bound of the model: tokens requested

VARIABLES
    confirmations,  \* the confirmation tokens: [admin, op, used, expired]
    request,        \* what each admin request is doing
    done,           \* operations that took effect, in full or in part: [token, by]
    auditLog,       \* audit entries of the controller: [by, action, status]
    responses,      \* audit entries of the middleware: [by, status]
    overlaps        \* ghost: pairs of requests that both found a token unused

adminVars == <<confirmations, request, done, auditLog, responses, overlaps>>

Free == [at |-> "idle"]
Actions == {"force_resolve", "resubmit", "reindex_pool", "reconciliation"}

AdminInit ==
    /\ confirmations = <<>>
    /\ request = [q \in AdminRequests |-> Free]
    /\ done = {} /\ auditLog = {} /\ responses = {} /\ overlaps = {}

\* POST /tokens/request
requestToken(admin, op) ==
    /\ Len(confirmations) < MaxTokens
    /\ confirmations' =
           Append(confirmations, [admin |-> admin, op |-> op, used |-> FALSE, expired |-> FALSE])
    /\ UNCHANGED <<request, done, auditLog, responses, overlaps>>

ExpireToken(t) ==
    /\ ~confirmations[t].expired
    /\ confirmations' = [confirmations EXCEPT ![t].expired = TRUE]
    /\ UNCHANGED <<request, done, auditLog, responses, overlaps>>

\* auditLogMiddleware: the entry is written when res.json is called, and is lost
\* when the write fails.
Respond(q, status) ==
    /\ request' = [request EXCEPT ![q] = [at |-> "answered", token |-> request[q].token]]
    /\ responses' \in {responses, responses \cup {[by |-> q, status |-> status]}}

\* Mutant of Acceptable: the token's state is not looked at.
AcceptableUsed(c, admin, op) == ~c.expired /\ c.op = op /\ c.admin = admin

\* The checks of verifyAndConsumeToken on the copy it read.
Acceptable(c, admin, op) == ~c.used /\ ~c.expired /\ c.op = op /\ c.admin = admin

Consuming(t) == {q \in AdminRequests : request[q].at = "consume" /\ request[q].token = t}

\* The four endpoints begin alike: the body is parsed and its token looked up.
verifyToken(q, t, admin, op) ==
    /\ request[q].at = "idle"
    /\ t \in DOMAIN confirmations
    /\ Acceptable(confirmations[t], admin, op)
    /\ request' = [request EXCEPT ![q] = [at |-> "consume", token |-> t, action |-> op.action]]
    /\ overlaps' = overlaps \cup {{q, o} : o \in Consuming(t)}
    /\ UNCHANGED <<confirmations, done, auditLog, responses>>

\* A request whose token is refused, or cannot be read or written, changes nothing.
Refuse(q, t) ==
    /\ \/ request[q].at = "idle" /\ t \in DOMAIN confirmations
       \/ request[q].at = "consume" /\ request[q].token = t
    /\ request' = [request EXCEPT ![q] = [at |-> "answered", token |-> t]]
    /\ responses' \in {responses, responses \cup {[by |-> q, status |-> "failed"]}}
    /\ UNCHANGED <<confirmations, done, auditLog, overlaps>>

\* findByIdAndUpdate(record._id, { used: true })
consumeToken(q) ==
    /\ request[q].at = "consume"
    /\ confirmations' = [confirmations EXCEPT ![request[q].token].used = TRUE]
    /\ request' = [request EXCEPT ![q].at = "perform"]
    /\ UNCHANGED <<done, auditLog, responses, overlaps>>

\* Mutant of Took: the update matches no transaction and nobody notices.
TookNothing(q) == request[q].at = "perform" /\ UNCHANGED done

Took(q) == done' = done \cup {[token |-> request[q].token, by |-> q]}

Performing(q, actions) == request[q].at = "perform" /\ request[q].action \in actions

\* What may be done, whole or in part, before an error sends it to the catch.
FailHalfway(q) ==
    /\ Took(q) \/ UNCHANGED done
    /\ request' = [request EXCEPT ![q].at = "logFailure"]
    /\ UNCHANGED <<confirmations, auditLog, responses, overlaps>>

Finish(q) ==
    /\ Took(q)
    /\ request' = [request EXCEPT ![q].at = "log"]
    /\ UNCHANGED <<confirmations, auditLog, responses, overlaps>>

\* transactions.update: the error may come after the write.
forceResolveTransaction(q) == Performing(q, {"force_resolve", "resubmit"}) /\ (Finish(q) \/ FailHalfway(q))

\* Nothing is done, nor queued, but to log it as a success.
reindexPool(q) ==
    /\ Performing(q, {"reindex_pool"})
    /\ request' = [request EXCEPT ![q].at = "log"]
    /\ UNCHANGED <<confirmations, done, auditLog, responses, overlaps>>

\* One confirmSubmittedTransaction after another. A dry run is left out.
runReconciliation(q) == Performing(q, {"reconciliation"}) /\ (Finish(q) \/ FailHalfway(q))

Recorded(q, status) ==
    auditLog' = auditLog \cup {[by |-> q, action |-> request[q].action, status |-> status]}

\* The entry for a success is written inside the try: when it fails, the operation
\* is logged as failed.
logSuccess(q) ==
    /\ request[q].at = "log"
    /\ \/ Recorded(q, "success") /\ Respond(q, "success")
       \/ /\ IF request[q].action = "reindex_pool" THEN Respond(q, "failed")
             ELSE /\ request' = [request EXCEPT ![q].at = "logFailure"]
                  /\ UNCHANGED responses
          /\ UNCHANGED auditLog
    /\ UNCHANGED <<confirmations, done, overlaps>>

logFailure(q) ==
    /\ request[q].at = "logFailure"
    /\ Recorded(q, "failed") \/ UNCHANGED auditLog
    /\ Respond(q, "failed")
    /\ UNCHANGED <<confirmations, done, overlaps>>

AdminNext ==
    \/ \E admin \in Admins, op \in Operations : requestToken(admin, op)
    \/ \E t \in DOMAIN confirmations : ExpireToken(t)
    \/ \E q \in AdminRequests, t \in DOMAIN confirmations :
           \/ Refuse(q, t)
           \/ \E admin \in Admins, op \in Operations : verifyToken(q, t, admin, op)
    \/ \E q \in AdminRequests : consumeToken(q) \/ logSuccess(q) \/ logFailure(q)
           \/ forceResolveTransaction(q) \/ reindexPool(q) \/ runReconciliation(q)

AdminSpec == AdminInit /\ [][AdminNext]_adminVars
-----------------------------------------------------------------------------
\* A confirmation token buys one operation, except to requests that had both
\* looked it up before either marked it.
OneOperationPerToken ==
    \A d, e \in done :
        d.token = e.token /\ d.by # e.by =>
            {d.by, e.by} \in overlaps

\* The audit trail claims no success for an operation that was not done, the reindexing
\* of a pool apart, which does nothing; and what was answered with success is in it.
AuditTrailTrue ==
    /\ \A e \in auditLog :
           e.status = "success" /\ e.action # "reindex_pool" => \E d \in done : d.by = e.by
    /\ \A r \in responses : r.status = "success" =>
           \E e \in auditLog : e.by = r.by /\ e.status = "success"
=============================================================================
