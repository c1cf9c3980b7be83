----------------------------- MODULE MCPayments -----------------------------
(* Instances of Payments for TLC. *)
EXTENDS Payments, TLC

CONSTANTS h1, h2, k1, k2, p1, p2, w1, w2

To(w, n) == [to |-> w, amount |-> n]
HandlerSymmetry == Permutations(Handlers)

\* Two payouts to different winners.
TwoRequests == {[key |-> k1, payout |-> p1], [key |-> k2, payout |-> p2]}
TwoTerms == p1 :> <<To(w1, 1)>> @@ p2 :> <<To(w2, 2)>>
OneRequest == {[key |-> k1, payout |-> p1]}
OneTerm == p1 :> <<To(w1, 1)>>

\* Batches are run and requests served for ever, the queue and the network make
\* progress, as far as they can.
FairSpec ==
    /\ Spec
    /\ \A h \in Handlers :
           WF_vars(Handle(h)) /\ SF_vars(MayReceive /\ RunBatch(h))
    /\ WF_vars(Reconcile)
    /\ \A tx \in Keys : WF_vars(Apply(tx))

-----------------------------------------------------------------------------
\* What the documentation says of the pipeline and the code does not do. Each is
\* the subject of a run that expects TLC to find it violated.

Is(k, status) == db[k] # None /\ db[k].status = status

\* processBatch's comment: a payout out of retries is moved to the terminal "dead"
\* status. The collection's schema does not accept that status.
ExhaustedIsBuried ==
    \A k \in Keys :
        Is(k, "failed") /\ db[k].attempts >= FailedRetryMax ~> Is(k, "dead")

=============================================================================
