--------------------------- MODULE BackendProofs ---------------------------
(***************************************************************************)
(* Proofs about the backend's rounds, for any number of concurrent         *)
(* requests, rows and players, and about the stream of events it serves    *)
(* and the page that listens to it, for any number of clients, pools and   *)
(* events and any order of answers.                                        *)
(***************************************************************************)
EXTENDS RoundQueries, ArenaStream, FiniteSums, SequenceTheorems

-----------------------------------------------------------------------------
\* The rounds: the invariant

Payable == [userId : Wallets, amount : Nat]

\* What a POST /rounds/resolve can be doing.
Requests ==
    {Idle}
    \cup [at : {"submit", "read"}, row : Rows, body : Submissions]
    \cup [at : {"poll"}, row : Rows, body : Submissions, polls : Nat]
    \cup [at : {"winner"}, row : Rows, body : Submissions, eliminated : SUBSET Users]
    \cup [at : {"commit"}, row : Rows, body : Submissions, eliminated : SUBSET Users,
          payouts : SUBSET Payable]
    \cup [at : {"metrics"}, row : Rows]
    \cup [at : {"answered"}, row : Rows, result : {"error", "resolved"}]

RoundsTypeOK ==
    /\ rounds \in [Rows -> [state : {"OPEN", "CLOSED", "RESOLVED"},
                            choices : SUBSET Users, payouts : SUBSET Payable]]
    /\ logs \subseteq [row : Rows, user : Users, by : Resolvers]
    /\ resolver \in [Resolvers -> Requests]
    /\ closer \in [Closers -> {Idle} \cup [at : {"update", "answered"}, row : Rows]]
    /\ tx \in [Resolvers -> {"none", "pending", "success", "failed", "expired"}]
    /\ chain \in [resolved : Nat, active : SUBSET Wallets, winner : Wallets \cup {None}]
    /\ lateClose \subseteq Rows

\* A request that has not submitted has no transaction, and one that reads the
\* contract to write the row has had its own included.
OwnIncluded ==
    \A r \in Resolvers :
        /\ resolver[r].at \in {"idle", "submit"} => tx[r] = "none"
        /\ resolver[r].at \in {"read", "winner", "commit", "metrics"} => tx[r] = "success"

\* Request r is past the commit of row n.
Wrote(r, n) ==
    /\ resolver[r].at \in {"metrics", "answered"}
    /\ resolver[r].row = n
    /\ tx[r] = "success"

\* What the tables hold was written by a request whose transaction was included.
LogsWritten == \A l \in logs : Wrote(l.by, l.row)
RowsWritten == \A n \in Rows : rounds[n].state = "RESOLVED" => \E r \in Resolvers : Wrote(r, n)

\* The contract resolved a round for each transaction it accepted.
Included == {r \in Resolvers : tx[r] = "success"}
LedgerCounts == chain.resolved = Cardinality(Included)

\* A row with logs stays resolved, but for a late close.
LoggedStaysResolved ==
    \A l \in logs : l.row \in lateClose \/ rounds[l.row].state = "RESOLVED"

RoundsSound ==
    /\ RoundsTypeOK /\ OwnIncluded /\ LogsWritten /\ RowsWritten /\ LedgerCounts
    /\ LoggedStaysResolved /\ ResolvedTwiceOnlyAfterLateClose

LEMMA RoundsSoundInit == ASSUME RoundsInit PROVE RoundsSound
<1> USE RoundConstants DEF RoundsInit
<1>1. RoundsTypeOK  BY DEF RoundsTypeOK, Requests
<1>2. OwnIncluded  BY DEF OwnIncluded, Idle
<1>3. LedgerCounts  BY FS_EmptySet DEF LedgerCounts, Included
<1>4. LogsWritten /\ RowsWritten  BY DEF LogsWritten, RowsWritten
<1>5. LoggedStaysResolved /\ ResolvedTwiceOnlyAfterLateClose
  BY DEF LoggedStaysResolved, ResolvedTwiceOnlyAfterLateClose
<1> QED BY <1>1, <1>2, <1>3, <1>4, <1>5 DEF RoundsSound

\* A record of one of the kinds a request can be.
LEMMA Answered ==
    ASSUME RoundsTypeOK, NEW r \in Resolvers, resolver[r].at # "idle"
    PROVE  /\ resolver[r].row \in Rows
           /\ \A result \in {"error", "resolved"} :
                  [at |-> "answered", row |-> resolver[r].row, result |-> result] \in Requests
BY DEF RoundsTypeOK, Requests, Idle

-----------------------------------------------------------------------------
\* Every step keeps it

\* A step of a request that touches neither the tables nor the ledger.
LEMMA Moves ==
    ASSUME RoundsSound, NEW r \in Resolvers, NEW s \in Requests, Step(r, s),
           UNCHANGED <<tables, closer, ledger, lateClose>>,
           s.at \in {"idle", "submit"} => tx[r] = "none",
           s.at \in {"read", "winner", "commit", "metrics"} => tx[r] = "success",
           resolver[r].at \in {"metrics", "answered"} =>
               s.at = "answered" /\ s.row = resolver[r].row
    PROVE  RoundsSound'
<1> USE DEF Step, tables, ledger, RoundsSound, RoundsTypeOK
<1>1. RoundsTypeOK'
  OBVIOUS
<1>2. OwnIncluded'
  BY DEF OwnIncluded
<1>3. LogsWritten' /\ RowsWritten'
  BY DEF LogsWritten, RowsWritten, Wrote
<1>4. LedgerCounts'
  BY DEF LedgerCounts, Included
<1>5. LoggedStaysResolved' /\ ResolvedTwiceOnlyAfterLateClose'
  BY DEF LoggedStaysResolved, ResolvedTwiceOnlyAfterLateClose
<1> QED BY <1>1, <1>2, <1>3, <1>4, <1>5

LEMMA AnswerStep ==
    ASSUME RoundsSound, NEW r \in Resolvers, NEW result \in {"error", "resolved"},
           resolver[r].at \in {"submit", "poll", "read", "winner", "commit", "metrics"},
           Answer(r, result), UNCHANGED <<tables, closer, ledger, lateClose>>
    PROVE  RoundsSound'
<1> DEFINE s == [at |-> "answered", row |-> resolver[r].row, result |-> result]
<1>1. s \in Requests
  BY Answered DEF RoundsSound
<1>2. Step(r, s)
  BY DEF Answer
<1>3. s.at = "answered" /\ s.row = resolver[r].row
  OBVIOUS
<1> HIDE DEF s
<1> QED BY <1>1, <1>2, <1>3, Moves

LEMMA ResolveStep ==
    ASSUME RoundsSound, NEW r \in Resolvers, NEW n \in Rows, NEW body \in Submissions,
           Resolve(r, n, body)
    PROVE  RoundsSound'
<1> DEFINE s == IF rounds[n].state \in Unresolved
                THEN [at |-> "submit", row |-> n, body |-> body]
                ELSE [at |-> "answered", row |-> n, result |-> "error"]
<1>1. s \in Requests /\ s.at \in {"submit", "answered"}
  BY DEF Requests
<1>2. Step(r, s) /\ resolver[r].at = "idle" /\ UNCHANGED <<tables, closer, ledger, lateClose>>
  BY DEF Resolve
<1>3. tx[r] = "none"
  BY <1>2 DEF RoundsSound, OwnIncluded
<1> HIDE DEF s
<1> QED BY <1>1, <1>2, <1>3, Moves

\* Until then the request had no transaction.
LEMMA SubmitStep ==
    ASSUME RoundsSound, NEW r \in Resolvers, submitOnChainResolve(r) PROVE RoundsSound'
<1>1. CASE Throws(r)
  BY <1>1, AnswerStep DEF Throws, submitOnChainResolve
<1>2. CASE tx' = [tx EXCEPT ![r] = "pending"]
  <2> DEFINE s == resolver'[r]
  <2>1. /\ resolver[r].at = "submit" /\ tx[r] = "none"
        /\ UNCHANGED <<tables, closer, chain, lateClose>>
    BY <1>2 DEF submitOnChainResolve, Throws, ledger, RoundsSound, RoundsTypeOK, OwnIncluded
  <2>2. /\ resolver[r].row \in Rows /\ resolver[r].body \in Submissions
        /\ \E s1 : resolver' = [resolver EXCEPT ![r] = s1]
    BY <1>2, <2>1 DEF submitOnChainResolve, Throws, Answer, Step, RoundsSound, RoundsTypeOK,
                      Requests, Idle
  <2>3. s \in Requests /\ s.at \in {"poll", "answered"}
    BY <1>2, <2>1, <2>2 DEF submitOnChainResolve, Throws, Answer, Step, RoundsSound,
                            RoundsTypeOK, Requests
  <2>4. resolver' = [resolver EXCEPT ![r] = s]
    BY <2>2 DEF RoundsSound, RoundsTypeOK
  <2> HIDE DEF s
  <2> USE DEF RoundsSound, RoundsTypeOK, tables
  <2>5. RoundsTypeOK'
    BY <1>2, <2>1, <2>3, <2>4
  <2>6. OwnIncluded'
    BY <1>2, <2>1, <2>3, <2>4 DEF OwnIncluded
  <2>7. LogsWritten' /\ RowsWritten'
    BY <1>2, <2>1, <2>3, <2>4 DEF LogsWritten, RowsWritten, Wrote
  <2>8. Included' = Included
    BY <1>2, <2>1 DEF Included
  <2>9. LedgerCounts'
    BY <2>1, <2>8 DEF LedgerCounts
  <2>10. LoggedStaysResolved' /\ ResolvedTwiceOnlyAfterLateClose'
    BY <2>1 DEF LoggedStaysResolved, ResolvedTwiceOnlyAfterLateClose
  <2> QED BY <2>5, <2>6, <2>7, <2>9, <2>10
<1> QED BY <1>1, <1>2 DEF submitOnChainResolve

LEMMA PollStep == ASSUME RoundsSound, NEW r \in Resolvers, Poll(r) PROVE RoundsSound'
<1>1. /\ resolver[r].at = "poll" /\ resolver[r].row \in Rows
      /\ resolver[r].body \in Submissions /\ resolver[r].polls \in Nat
  BY DEF Poll, RoundsSound, RoundsTypeOK, Requests, Idle
<1>2. CASE Throws(r)
  BY <1>1, <1>2, AnswerStep DEF Throws
<1>3. CASE ~Throws(r)
  <2>1. UNCHANGED <<tables, closer, ledger, lateClose>>
    BY <1>3 DEF Poll
  <2>2. CASE tx[r] = "success"
    <3> DEFINE s == [at |-> "read", row |-> resolver[r].row, body |-> resolver[r].body]
    <3>1. s \in Requests /\ s.at = "read"
      BY <1>1 DEF Requests
    <3>2. Step(r, s)
      BY <1>3, <2>2 DEF Poll
    <3> HIDE DEF s
    <3> QED BY <1>1, <2>1, <2>2, <3>1, <3>2, Moves
  <2>3. CASE Answer(r, "error")
    BY <1>1, <2>1, <2>3, AnswerStep
  <2>4. CASE Step(r, [resolver[r] EXCEPT !.polls = @ + 1])
    <3> DEFINE s == [resolver[r] EXCEPT !.polls = @ + 1]
    <3>1. s \in Requests /\ s.at = "poll"
      BY <1>1 DEF RoundsSound, RoundsTypeOK, Requests, Idle
    <3> HIDE DEF s
    <3> QED BY <1>1, <2>1, <2>4, <3>1, Moves DEF s
  <2> QED BY <1>3, <2>2, <2>3, <2>4 DEF Poll, PollAgain
<1> QED BY <1>2, <1>3

LEMMA ReadActiveStep ==
    ASSUME RoundsSound, NEW r \in Resolvers, ReadActive(r) PROVE RoundsSound'
<1>1. /\ resolver[r].at = "read" /\ resolver[r].row \in Rows
      /\ resolver[r].body \in Submissions /\ tx[r] = "success"
  BY DEF ReadActive, RoundsSound, RoundsTypeOK, Requests, Idle, OwnIncluded
<1>2. PICK active \in getOnChainActivePlayerIds :
          Step(r, [at |-> "winner", row |-> resolver[r].row, body |-> resolver[r].body,
                   eliminated |-> Eliminated(resolver[r].body, active)])
  BY DEF ReadActive
<1> DEFINE s == [at |-> "winner", row |-> resolver[r].row, body |-> resolver[r].body,
                 eliminated |-> Eliminated(resolver[r].body, active)]
<1>3. s \in Requests /\ s.at = "winner"
  BY <1>1, RoundConstants DEF Requests, Eliminated
<1>4. UNCHANGED <<tables, closer, ledger, lateClose>>
  BY DEF ReadActive
<1> HIDE DEF s
<1> QED BY <1>1, <1>2, <1>3, <1>4, Moves DEF s

LEMMA PayoutsTyped ==
    ASSUME RoundsTypeOK, NEW winner \in getOnChainWinner, NEW body \in Submissions,
           NEW eliminated
    PROVE  Payouts(winner, body, eliminated) \subseteq Payable
<1>1. winner \in Wallets \cup {None}
  BY DEF getOnChainWinner, RoundsTypeOK
<1>2. IsFiniteSet(body.choices)
  BY RoundConstants, FS_Subset
<1>3. /\ Cardinality(body.choices \cap eliminated) \in Nat
      /\ Cardinality(body.choices \cap {winner}) \in Nat
  BY <1>2, FS_Intersection, FS_CardinalityType
<1> QED BY <1>1, <1>3 DEF Payouts, Payable

LEMMA PayoutsStep ==
    ASSUME RoundsSound, NEW r \in Resolvers, computePayouts(r) PROVE RoundsSound'
<1>1. /\ resolver[r].at = "winner" /\ resolver[r].row \in Rows
      /\ resolver[r].body \in Submissions /\ resolver[r].eliminated \in SUBSET Users
      /\ tx[r] = "success"
  BY DEF computePayouts, RoundsSound, RoundsTypeOK, Requests, Idle, OwnIncluded
<1>2. PICK winner \in getOnChainWinner :
          Step(r, [at |-> "commit", row |-> resolver[r].row, body |-> resolver[r].body,
                   eliminated |-> resolver[r].eliminated,
                   payouts |-> Payouts(winner, resolver[r].body, resolver[r].eliminated)])
  BY DEF computePayouts
<1> DEFINE s == [at |-> "commit", row |-> resolver[r].row, body |-> resolver[r].body,
                 eliminated |-> resolver[r].eliminated,
                 payouts |-> Payouts(winner, resolver[r].body, resolver[r].eliminated)]
<1>3. Payouts(winner, resolver[r].body, resolver[r].eliminated) \in SUBSET Payable
  BY <1>1, PayoutsTyped DEF RoundsSound
<1>4. s \in Requests /\ s.at = "commit"
  BY <1>1, <1>3 DEF Requests
<1>5. UNCHANGED <<tables, closer, ledger, lateClose>>
  BY DEF computePayouts
<1> HIDE DEF s
<1> QED BY <1>1, <1>2, <1>4, <1>5, Moves DEF s

\* The conditional update: a row that had logs and is written again was closed late.
LEMMA CommitStep ==
    ASSUME RoundsSound, NEW r \in Resolvers, resolveAtomically(r) PROVE RoundsSound'
<1>0. PICK n \in Rows : n = resolver[r].row
  BY DEF resolveAtomically, RoundsSound, RoundsTypeOK, Requests, Idle
<1>1. /\ resolver[r].at = "commit" /\ resolver[r].body \in Submissions
      /\ resolver[r].eliminated \in SUBSET Users /\ resolver[r].payouts \in SUBSET Payable
      /\ tx[r] = "success"
  BY DEF resolveAtomically, RoundsSound, RoundsTypeOK, Requests, Idle, OwnIncluded
<1>2. CASE Throws(r)
  BY <1>1, <1>2, AnswerStep DEF Throws
<1>3. CASE ~Throws(r)
  <2> DEFINE s == [at |-> "metrics", row |-> n]
             new == {[row |-> n, user |-> u, by |-> r] : u \in resolver[r].eliminated}
  <2>1. /\ Claims(n) /\ Step(r, s) /\ logs' = logs \cup new
        /\ rounds' = [rounds EXCEPT ![n] = [state |-> "RESOLVED",
                          choices |-> resolver[r].body.choices, payouts |-> resolver[r].payouts]]
        /\ UNCHANGED <<closer, ledger, lateClose>>
    BY <1>0, <1>3 DEF resolveAtomically
  <2>2. s \in Requests /\ s.at = "metrics" /\ s.row = n
    BY <1>1 DEF Requests
  <2>3. new \subseteq [row : Rows, user : Users, by : Resolvers]
    BY <1>1
  <2>4. \A l \in new : l.row = n /\ l.by = r
    OBVIOUS
  <2>5. \A l \in logs : l.by # r
    BY <1>1 DEF RoundsSound, LogsWritten, Wrote
  <2>6. \A l \in logs : l.row = n => n \in lateClose
    BY <2>1 DEF Claims, Unresolved, RoundsSound, LoggedStaysResolved
  <2>7. resolver[r].body.choices \in SUBSET Users
    BY <1>1, RoundConstants
  <2> HIDE DEF s, new
  <2> USE DEF Step, ledger, RoundsSound, RoundsTypeOK
  <2>8. RoundsTypeOK'
    BY <1>1, <2>1, <2>2, <2>3, <2>7
  <2>9. OwnIncluded'
    BY <1>1, <2>1, <2>2 DEF OwnIncluded
  <2>10. Wrote(r, n)'
    BY <1>1, <2>1, <2>2 DEF Wrote
  <2>11. \A q \in Resolvers : \A m : Wrote(q, m) => Wrote(q, m)'
    BY <1>1, <2>1 DEF Wrote
  <2>12. LogsWritten'
    BY <2>1, <2>4, <2>10, <2>11 DEF LogsWritten
  <2>13. RowsWritten'
    BY <1>1, <2>1, <2>10, <2>11 DEF RowsWritten
  <2>14. LedgerCounts'
    BY <2>1 DEF LedgerCounts, Included
  <2>15. LoggedStaysResolved'
    BY <1>1, <2>1, <2>4 DEF LoggedStaysResolved
  <2>16. ResolvedTwiceOnlyAfterLateClose'
    BY <2>1, <2>4, <2>6 DEF ResolvedTwiceOnlyAfterLateClose
  <2> QED BY <2>8, <2>9, <2>12, <2>13, <2>14, <2>15, <2>16
<1> QED BY <1>2, <1>3

LEMMA MetricsStep ==
    ASSUME RoundsSound, NEW r \in Resolvers, refreshArenaMetrics(r) PROVE RoundsSound'
BY AnswerStep DEF refreshArenaMetrics, Throws

\* The contract counts one more round for one more transaction that succeeded.
LEMMA IncludeStep ==
    ASSUME RoundsSound, NEW r \in Resolvers, Include(r) PROVE RoundsSound'
<1> USE DEF RoundsSound, RoundsTypeOK, tables
<1>1. tx[r] = "pending" /\ UNCHANGED <<tables, resolver, closer, lateClose>>
  BY DEF Include
<1>2. PICK result \in {"success", "failed", "expired"} : tx' = [tx EXCEPT ![r] = result]
  BY DEF Include
<1>3. IsFiniteSet(Included) /\ r \notin Included
  BY <1>1, FS_Subset, RoundConstants DEF Included
<1> DEFINE Chains == [resolved : Nat, active : SUBSET Wallets, winner : Wallets \cup {None}]
<1>4. ASSUME result = "success" PROVE LedgerCounts' /\ chain' \in Chains
  <2>1. PICK survivors \in SUBSET chain.active : ResolveOnChain(survivors)
    BY <1>1, <1>2, <1>4 DEF Include
  <2>2. /\ chain'.resolved = chain.resolved + 1
        /\ chain' \in Chains
    BY <2>1 DEF ResolveOnChain
  <2>3. Included' = Included \cup {r}
    BY <1>2, <1>4 DEF Included
  <2>4. Cardinality(Included') = Cardinality(Included) + 1
    BY <1>3, <2>3, FS_AddElement
  <2> QED BY <2>2, <2>4 DEF LedgerCounts
<1>5. ASSUME result # "success" PROVE LedgerCounts' /\ chain' \in Chains
  <2>1. UNCHANGED chain
    BY <1>1, <1>2, <1>5 DEF Include
  <2>2. Included' = Included
    BY <1>1, <1>2, <1>5 DEF Included
  <2> QED BY <2>1, <2>2 DEF LedgerCounts
<1>6. LedgerCounts' /\ chain' \in Chains
  BY <1>4, <1>5
<1>7. RoundsTypeOK'
  BY <1>1, <1>2, <1>6
<1>8. OwnIncluded'
  BY <1>1, <1>2 DEF OwnIncluded
<1>9. LogsWritten' /\ RowsWritten'
  BY <1>1, <1>2 DEF LogsWritten, RowsWritten, Wrote
<1>10. LoggedStaysResolved' /\ ResolvedTwiceOnlyAfterLateClose'
  BY <1>1 DEF LoggedStaysResolved, ResolvedTwiceOnlyAfterLateClose
<1> QED BY <1>6, <1>7, <1>8, <1>9, <1>10

LEMMA CloseStep ==
    ASSUME RoundsSound, NEW c \in Closers, NEW n \in Rows, Close(c, n) PROVE RoundsSound'
<1> USE DEF RoundsSound, RoundsTypeOK, tables, ledger
<1>1. UNCHANGED <<tables, resolver, ledger, lateClose>>
  BY DEF Close
<1>2. RoundsTypeOK'
  BY <1>1 DEF Close
<1>3. OwnIncluded' /\ LogsWritten' /\ RowsWritten' /\ LedgerCounts'
  BY <1>1 DEF OwnIncluded, LogsWritten, RowsWritten, LedgerCounts, Included, Wrote
<1>4. LoggedStaysResolved' /\ ResolvedTwiceOnlyAfterLateClose'
  BY <1>1 DEF LoggedStaysResolved, ResolvedTwiceOnlyAfterLateClose
<1> QED BY <1>2, <1>3, <1>4

\* The update by id alone: a row it takes back from RESOLVED is a late close.
LEMMA CloseUpdateStep ==
    ASSUME RoundsSound, NEW c \in Closers, updateState(c) PROVE RoundsSound'
<1> USE DEF RoundsSound, RoundsTypeOK, ledger
<1> DEFINE n == closer[c].row
<1>1. /\ n \in Rows /\ closer[c].at = "update" /\ UNCHANGED <<logs, resolver, ledger>>
      /\ closer' = [closer EXCEPT ![c] = [at |-> "answered", row |-> n]]
  BY DEF updateState, Idle
<1>2. \/ UNCHANGED <<rounds, lateClose>>
      \/ /\ rounds' = [rounds EXCEPT ![n].state = "CLOSED"]
         /\ lateClose' = IF rounds[n].state = "RESOLVED" THEN lateClose \cup {n} ELSE lateClose
  BY DEF updateState
<1> HIDE DEF n
<1>3. rounds' \in [Rows -> [state : {"OPEN", "CLOSED", "RESOLVED"},
                            choices : SUBSET Users, payouts : SUBSET Payable]]
  BY <1>1, <1>2
<1>4. /\ lateClose' \subseteq Rows
      /\ closer' \in [Closers -> {Idle} \cup [at : {"update", "answered"}, row : Rows]]
  BY <1>1, <1>2
<1>5. RoundsTypeOK'
  BY <1>1, <1>3, <1>4
<1>6. \A m \in Rows : rounds'[m].state = "RESOLVED" => rounds[m].state = "RESOLVED"
  BY <1>1, <1>2
<1>7. OwnIncluded' /\ LogsWritten' /\ LedgerCounts'
  BY <1>1 DEF OwnIncluded, LogsWritten, LedgerCounts, Included, Wrote
<1>8. RowsWritten'
  BY <1>1, <1>6 DEF RowsWritten, Wrote
<1>9. LoggedStaysResolved'
  BY <1>1, <1>2 DEF LoggedStaysResolved
<1>10. ResolvedTwiceOnlyAfterLateClose'
  BY <1>1, <1>2 DEF ResolvedTwiceOnlyAfterLateClose
<1> QED BY <1>5, <1>7, <1>8, <1>9, <1>10

-----------------------------------------------------------------------------
\* The properties

\* The resolved rows are at most the rounds the contract resolved: each was written by
\* a request of its own.
LEMMA NeverAhead == ASSUME RoundsSound PROVE DatabaseNeverAhead
<1> DEFINE resolvedRows == {n \in Rows : rounds[n].state = "RESOLVED"}
           writtenBy == {resolver[r].row : r \in Included}
<1>1. \A l \in logs : tx[l.by] = "success"
  BY DEF RoundsSound, LogsWritten, Wrote
<1>2. IsFiniteSet(Included)
  BY FS_Subset, RoundConstants DEF Included
<1>3. IsFiniteSet(writtenBy) /\ Cardinality(writtenBy) <= Cardinality(Included)
  <2> DEFINE f == [r \in Included |-> resolver[r].row]
  <2>1. f \in Surjection(Included, writtenBy)
    BY DEF Surjection
  <2> QED BY <1>2, <2>1, FS_Surjection
<1>4. resolvedRows \subseteq writtenBy
  BY DEF RoundsSound, RowsWritten, Wrote, Included
<1>5. /\ Cardinality(resolvedRows) <= Cardinality(writtenBy)
      /\ Cardinality(resolvedRows) \in Nat /\ Cardinality(writtenBy) \in Nat
      /\ Cardinality(Included) \in Nat
  BY <1>2, <1>3, <1>4, FS_Subset, FS_CardinalityType
<1>6. Cardinality(resolvedRows) <= chain.resolved
  BY <1>3, <1>5 DEF RoundsSound, LedgerCounts
<1> QED BY <1>1, <1>6 DEF DatabaseNeverAhead

LEMMA RoundsStaySound == RoundsSpec => []RoundsSound
<1>1. ASSUME RoundsSound, [RoundsNext]_roundVars PROVE RoundsSound'
  <2>1. CASE UNCHANGED roundVars
    BY <1>1, <2>1 DEF roundVars, tables, ledger, RoundsSound, RoundsTypeOK, OwnIncluded,
           LogsWritten, RowsWritten, Wrote, LedgerCounts, Included, LoggedStaysResolved,
           ResolvedTwiceOnlyAfterLateClose
  <2>2. CASE RoundsNext
    BY <1>1, <2>2, ResolveStep, SubmitStep, PollStep, ReadActiveStep, PayoutsStep, CommitStep,
       MetricsStep, IncludeStep, CloseStep, CloseUpdateStep DEF RoundsNext, Serve
  <2> QED BY <1>1, <2>1, <2>2
<1> QED BY <1>1, RoundsSoundInit, PTL DEF RoundsSpec

\* Whatever request times out, fails or is overtaken, the tables never hold a resolution
\* that the contract has not made.
THEOREM TablesNeverAhead == RoundsSpec => []DatabaseNeverAhead
BY RoundsStaySound, NeverAhead, PTL

\* The optimistic lock of resolveAtomically lets one of two requests write a row's logs,
\* unless updateState has closed the row over a resolution.
THEOREM LockHolds == RoundsSpec => []ResolvedTwiceOnlyAfterLateClose
<1>1. RoundsSound => ResolvedTwiceOnlyAfterLateClose
  BY DEF RoundsSound
<1> QED BY <1>1, RoundsStaySound, PTL

-----------------------------------------------------------------------------
\* The pages computed from the tables

\* The arenas of some rows are finitely many.
LEMMA ArenasFinite ==
    ASSUME NEW R \in SUBSET Rows PROVE IsFiniteSet(ArenasOf(R))
<1> DEFINE f == [n \in R |-> ArenaOf[n]]
<1>1. IsFiniteSet(R)
  BY RoundConstants, FS_Subset
<1>2. f \in Surjection(R, ArenasOf(R))
  BY DEF Surjection, ArenasOf
<1> HIDE DEF f
<1> QED BY <1>1, <1>2, FS_Surjection

\* So are the logs.
LEMMA LogsFinite == ASSUME RoundsTypeOK PROVE IsFiniteSet(logs)
<1> DEFINE Keys == (Rows \X Users) \X Resolvers
           Logs == [row : Rows, user : Users, by : Resolvers]
           f == [z \in Keys |-> [row |-> z[1][1], user |-> z[1][2], by |-> z[2]]]
<1>1. IsFiniteSet(Keys)
  <2>1. IsFiniteSet(Rows \X Users)
    BY RoundConstants, FS_Product
  <2> QED BY <2>1, RoundConstants, FS_Product
<1>2. f \in Surjection(Keys, Logs)
  <2>1. f \in [Keys -> Logs]
    OBVIOUS
  <2>2. ASSUME NEW l \in Logs PROVE \E z \in Keys : f[z] = l
    <3>1. <<<<l.row, l.user>>, l.by>> \in Keys
      OBVIOUS
    <3>2. f[<<<<l.row, l.user>>, l.by>>] = [row |-> l.row, user |-> l.user, by |-> l.by]
      BY <3>1
    <3>3. l = [row |-> l.row, user |-> l.user, by |-> l.by]
      OBVIOUS
    <3> QED BY <3>1, <3>2, <3>3
  <2> HIDE DEF f, Keys, Logs
  <2> QED BY <2>1, <2>2 DEF Surjection
<1>3. logs \in SUBSET Logs
  BY DEF RoundsTypeOK
<1> HIDE DEF f, Keys, Logs
<1> QED BY <1>1, <1>2, <1>3, FS_Surjection, FS_Subset

LEMMA MaxWithZero ==
    ASSUME NEW k \in Int
    PROVE  Max({0, k}) = IF k > 0 THEN k ELSE 0
BY DEF Max

\* What a player lost is among the rows, and what it played too.
LEMMA PlayedAndLost ==
    ASSUME RoundsTypeOK, NEW u
    PROVE  /\ IsFiniteSet(ArenasOf(Played(u))) /\ IsFiniteSet(Lost(u))
           /\ IsFiniteSet(Played(u)) /\ IsFiniteSet(Eliminations(u))
<1>1. Played(u) \in SUBSET Rows /\ {l.row : l \in Eliminations(u)} \in SUBSET Rows
  BY DEF Played, Resolved, Eliminations, RoundsTypeOK
<1>2. IsFiniteSet(Eliminations(u))
  <2>1. Eliminations(u) \in SUBSET logs
    BY DEF Eliminations
  <2> QED BY <2>1, LogsFinite, FS_Subset
<1>3. IsFiniteSet(ArenasOf(Played(u))) /\ IsFiniteSet(Lost(u))
  BY <1>1, ArenasFinite DEF Lost
<1> QED BY <1>1, <1>2, <1>3, RoundConstants, FS_Subset

\* The leaderboard credits no win that the player's own page denies.
LEMMA WinsAgree ==
    ASSUME RoundsTypeOK, NEW u PROVE arenasWon(u) <= countGamesWon(u)
<1> DEFINE A == ArenasOf(Played(u))
           B == Lost(u)
<1>1. IsFiniteSet(A) /\ IsFiniteSet(B)
  BY PlayedAndLost
<1> HIDE DEF A, B
<1>2. /\ Cardinality(A) \in Nat /\ Cardinality(B) \in Nat
      /\ IsFiniteSet(A \cap B) /\ Cardinality(A \cap B) <= Cardinality(B)
      /\ Cardinality(A \cap B) \in Nat
  <2>1. IsFiniteSet(A \cap B) /\ Cardinality(A \cap B) <= Cardinality(B)
    BY <1>1, FS_Subset
  <2> QED BY <1>1, <2>1, FS_CardinalityType
<1>3. IsFiniteSet(A \ B) /\ Cardinality(A \ B) = Cardinality(A) - Cardinality(A \cap B)
  BY <1>1, FS_Difference
<1>4. Cardinality(A \ B) \in Nat
  BY <1>3, FS_CardinalityType
<1>5. Max({0, Cardinality(A) - Cardinality(B)}) <= Cardinality(A \ B)
  BY <1>2, <1>3, <1>4, MaxWithZero
<1> QED BY <1>5 DEF arenasWon, countGamesWon, A, B

\* The games of a player's page are those that have a figure on the leaderboard.
LEMMA GamesAgree ==
    ASSUME RoundsTypeOK, NEW u \in Users
    PROVE  /\ countGamesWon(u) <= countGamesPlayed(u)
           /\ survivalStreak(u) > 0 => countGamesPlayed(u) > 0
           /\ countGamesPlayed(u) > 0 <=> u \in Ranked
<1> DEFINE A == ArenasOf(Played(u))
           B == Lost(u)
<1>1. /\ IsFiniteSet(A) /\ IsFiniteSet(B)
      /\ IsFiniteSet(Played(u)) /\ IsFiniteSet(Eliminations(u))
  BY PlayedAndLost
<1>2. A = {} <=> Played(u) = {}
  BY DEF ArenasOf
<1>3. B = {} <=> Eliminations(u) = {}
  BY DEF ArenasOf, Lost
<1>4. A \ B \in SUBSET (A \cup B)
  OBVIOUS
<1> HIDE DEF A, B
<1>5. /\ IsFiniteSet(A \cup B) /\ Cardinality(A \cup B) \in Nat
      /\ Cardinality(A \ B) <= Cardinality(A \cup B)
      /\ Cardinality(A \cup B) = 0 <=> A \cup B = {}
  <2>1. IsFiniteSet(A \cup B)
    BY <1>1, FS_Union
  <2> QED BY <1>4, <2>1, FS_Subset, FS_CardinalityType, FS_EmptySet
<1>6. countGamesPlayed(u) = Cardinality(A \cup B) /\ countGamesWon(u) = Cardinality(A \ B)
  BY DEF countGamesPlayed, countGamesWon, A, B
<1>7. countGamesPlayed(u) > 0 <=> u \in Ranked
  BY <1>2, <1>3, <1>5, <1>6 DEF Ranked
<1>8. survivalStreak(u) > 0 => Played(u) # {}
  <2>1. Cardinality(Played(u)) \in Nat /\ Cardinality(Eliminations(u)) \in Nat
    BY <1>1, FS_CardinalityType
  <2>2. Played(u) = {} => Cardinality(Played(u)) = 0
    BY FS_EmptySet
  <2> QED BY <2>1, <2>2, MaxWithZero DEF survivalStreak
<1> QED BY <1>2, <1>5, <1>6, <1>7, <1>8

\* Payouts name accounts of the ledger, so that no user is credited with any.
LEMMA NoYieldCredited ==
    ASSUME RoundsTypeOK, NEW u \in Users
    PROVE  totalYield(u) = 0 /\ sumYieldEarned(u) = 0
<1>1. \A n \in Rows : YieldOf(u)[n] = 0
  <2> SUFFICES ASSUME NEW n \in Rows PROVE PaidIn(n, u) = 0
    BY DEF YieldOf
  <2>1. \A p \in rounds[n].payouts : p.userId \in Wallets
    BY DEF RoundsTypeOK, Payable
  <2>2. {p \in rounds[n].payouts : p.userId = u} = {}
    BY <2>1, RoundConstants
  <2> QED BY <2>2, SumOfNone DEF PaidIn
<1>2. Played(u) \in SUBSET Rows /\ Resolved \in SUBSET Rows
  BY DEF Played, Resolved
<1>3. IsFiniteSet(Played(u)) /\ IsFiniteSet(Resolved)
  BY <1>2, RoundConstants, FS_Subset
<1>4. totalYield(u) = 0
  BY <1>1, <1>2, <1>3, SumOfZeros DEF totalYield
<1>5. sumYieldEarned(u) = 0
  BY <1>1, <1>2, <1>3, SumOfZeros DEF sumYieldEarned
<1> QED BY <1>4, <1>5

\* Both lists of an arena's participants and its statistics.
LEMMA ArenaAgrees ==
    ASSUME RoundsTypeOK, NEW a \in ArenasOf(Rows)
    PROVE  /\ \A joined \in SUBSET Users : LoggedOut(RowsOf(a)) \subseteq joined =>
                  survivorCount(a, Cardinality(joined)) =
                      Cardinality({u \in joined : a \notin Lost(u)})
           /\ \A u \in DOMAIN participants(a) :
                  participants(a)[u] = "ELIMINATED" =>
                      /\ a \in Lost(u)
                      /\ u \in DOMAIN buildParticipantList(a) =>
                             buildParticipantList(a)[u] = "ELIMINATED"
<1> DEFINE R == RowsOf(a)
           Out == LoggedOut(R)
<1>1. R \in SUBSET Rows /\ R # {} /\ R \subseteq Nat /\ IsFiniteSet(R)
  <2>1. R \in SUBSET Rows /\ R # {}
    BY DEF RowsOf, ArenasOf
  <2> QED BY <2>1, RoundConstants, FS_Subset
<1>2. \A u : a \in Lost(u) <=> \E l \in logs : l.user = u /\ l.row \in R
  BY DEF Lost, ArenasOf, Eliminations, RowsOf, RoundsTypeOK
<1>3. \A u : u \in Out <=> a \in Lost(u)
  BY <1>2 DEF LoggedOut
<1>4. Out \in SUBSET Users
  BY DEF LoggedOut, RoundsTypeOK
<1>5. currentRound(a) \in R
  <2>1. PICK n \in R : \A k \in R : n >= k
    BY <1>1, GreatestOf
  <2>2. Max(R) \in R
    BY <2>1 DEF Max
  <2> QED BY <1>1, <2>2 DEF currentRound
<1> HIDE DEF R, Out
<1>6. ASSUME NEW joined \in SUBSET Users, Out \subseteq joined
      PROVE  survivorCount(a, Cardinality(joined)) =
                 Cardinality({u \in joined : a \notin Lost(u)})
  <2>1. IsFiniteSet(joined) /\ IsFiniteSet(Out) /\ joined \cap Out = Out
    BY <1>4, <1>6, RoundConstants, FS_Subset
  <2>2. /\ IsFiniteSet(joined \ Out)
        /\ Cardinality(joined \ Out) = Cardinality(joined) - Cardinality(Out)
    BY <2>1, FS_Difference
  <2>3. /\ Cardinality(joined \ Out) \in Nat
        /\ Cardinality(joined) \in Nat /\ Cardinality(Out) \in Nat
    BY <2>1, <2>2, FS_CardinalityType
  <2>4. {u \in joined : a \notin Lost(u)} = joined \ Out
    BY <1>3
  <2>5. Max({0, Cardinality(joined) - Cardinality(Out)}) = Cardinality(joined \ Out)
    BY <2>2, <2>3, MaxWithZero
  <2> QED BY <2>4, <2>5 DEF survivorCount, R, Out
<1>7. ASSUME NEW u \in DOMAIN participants(a), participants(a)[u] = "ELIMINATED"
      PROVE  /\ a \in Lost(u)
             /\ u \in DOMAIN buildParticipantList(a) => buildParticipantList(a)[u] = "ELIMINATED"
  <2>1. u \in LoggedOut({currentRound(a)})
    BY <1>7 DEF participants
  <2>2. u \in Out
    BY <1>5, <2>1 DEF LoggedOut, Out
  <2> QED BY <1>3, <2>2 DEF buildParticipantList, Out, R
<1> QED BY <1>6, <1>7 DEF Out, R

\* For every number of rows, arenas, users and logs, doubled ones included, the
\* leaderboard, the player's page and the arena's page agree on who played, won and
\* is out (LeaderboardController and UsersController over the tables RoundService
\* writes).
THEOREM PagesAlwaysAgree == RoundsSpec => []PagesAgree
<1>1. ASSUME RoundsSound PROVE PagesAgree
  <2>1. RoundsTypeOK
    BY <1>1 DEF RoundsSound
  <2>2. ASSUME NEW u \in Users
        PROVE  /\ totalYield(u) <= sumYieldEarned(u)
               /\ computeRank(u) # None <=> sumYieldEarned(u) > 0
    BY <2>1, NoYieldCredited DEF computeRank
  <2> QED BY <2>1, <2>2, WinsAgree, GamesAgree, ArenaAgrees DEF PagesAgree
<1> QED BY <1>1, RoundsStaySound, PTL

-----------------------------------------------------------------------------
\* Every finite set of numbers has a feed: an element's place is the number of elements
\* that are not below it.
LEMMA FeedSorted ==
    ASSUME NEW ids \in SUBSET Nat, IsFiniteSet(ids)
    PROVE  /\ Feed(ids) \in Seq(ids)
           /\ \A i, j \in DOMAIN Feed(ids) : i < j => Feed(ids)[i] > Feed(ids)[j]
<1> DEFINE Above(x) == {y \in ids : y >= x}
           n == Cardinality(ids)
           place == [x \in ids |-> Cardinality(Above(x))]
<1>1. n \in Nat /\ IsFiniteSet(1..n) /\ Cardinality(1..n) = n
  <2>1. n \in Nat
    BY FS_CardinalityType
  <2>2. /\ IsFiniteSet(1..n)
        /\ Cardinality(1..n) = IF 1 > n THEN 0 ELSE n - 1 + 1
    BY <2>1, FS_Interval
  <2> QED BY <2>1, <2>2
<1>2. \A x \in ids : IsFiniteSet(Above(x)) /\ Cardinality(Above(x)) \in 1..n
  <2> SUFFICES ASSUME NEW x \in ids
               PROVE  IsFiniteSet(Above(x)) /\ Cardinality(Above(x)) \in 1..n
    OBVIOUS
  <2>1. Above(x) \subseteq ids /\ x \in Above(x)
    OBVIOUS
  <2> HIDE DEF Above
  <2>2. IsFiniteSet(Above(x)) /\ Cardinality(Above(x)) <= n /\ Cardinality(Above(x)) \in Nat
    BY <2>1, FS_Subset, FS_CardinalityType
  <2>3. Cardinality(Above(x)) # 0
    BY <2>1, <2>2, FS_EmptySet
  <2> QED BY <1>1, <2>2, <2>3
<1>3. \A x, y \in ids : x < y => Cardinality(Above(y)) < Cardinality(Above(x))
  <2> SUFFICES ASSUME NEW x \in ids, NEW y \in ids, x < y
               PROVE  Cardinality(Above(y)) < Cardinality(Above(x))
    OBVIOUS
  <2>1. Above(y) \subseteq Above(x) /\ Above(x) # Above(y)
    <3>1. \A z \in ids : z >= y => z >= x
      OBVIOUS
    <3>2. x \in Above(x) /\ x \notin Above(y)
      OBVIOUS
    <3> QED BY <3>1, <3>2
  <2>2. IsFiniteSet(Above(x)) /\ Cardinality(Above(x)) \in Nat /\ Cardinality(Above(y)) \in Nat
    BY <1>2
  <2> HIDE DEF Above
  <2>3. /\ Cardinality(Above(y)) <= Cardinality(Above(x))
        /\ Cardinality(Above(x)) # Cardinality(Above(y))
    BY <2>1, <2>2, FS_Subset
  <2> QED BY <2>2, <2>3
<1>4. place \in [ids -> 1..n] /\ \A x, y \in ids : place[x] = place[y] => x = y
  <2>1. \A x \in ids : place[x] = Cardinality(Above(x))
    OBVIOUS
  <2>2. place \in [ids -> 1..n]
    BY <1>2
  <2> HIDE DEF place, Above, n
  <2>3. ASSUME NEW x \in ids, NEW y \in ids, place[x] = place[y] PROVE x = y
    <3>1. ~(x < y) /\ ~(y < x)
      BY <1>2, <1>3, <2>1, <2>3
    <3> QED BY <3>1
  <2> QED BY <2>2, <2>3
<1>5. \A x, y \in ids : place[x] < place[y] => x > y
  <2>1. \A x \in ids : place[x] = Cardinality(Above(x))
    OBVIOUS
  <2> HIDE DEF place, Above, n
  <2> QED BY <1>2, <1>3, <2>1
<1> HIDE DEF place, n
<1>6. place \in Injection(ids, 1..n)
  BY <1>4 DEF Injection, IsInjective
<1>7. place \in Surjection(ids, 1..n)
  BY <1>1, <1>6, FS_Injection DEF n
<1>8. \A k \in 1..n : \E x \in ids : place[x] = k
  BY <1>7 DEF Surjection
<1> DEFINE sorted == [k \in 1..n |-> CHOOSE x \in ids : place[x] = k]
<1>9. \A k \in 1..n : sorted[k] \in ids /\ place[sorted[k]] = k
  BY <1>8
<1> HIDE DEF sorted
<1>10. sorted \in [1..n -> ids]
  BY <1>9 DEF sorted
<1>11. \A i, j \in DOMAIN sorted : i < j => sorted[i] > sorted[j]
  BY <1>5, <1>9, <1>10
<1>12. /\ Feed(ids) \in [1..n -> ids]
       /\ \A i, j \in DOMAIN Feed(ids) : i < j => Feed(ids)[i] > Feed(ids)[j]
  BY <1>10, <1>11 DEF Feed, n
<1> QED BY <1>1, <1>12

-----------------------------------------------------------------------------
\* The stream: the invariant

Subscriber == [client : Clients, open : BOOLEAN]
Pollers == [subscribers : Seq(Subscriber), loops : Seq({"poll", "flight"}),
            last : {"none", "playing", "finished"}, seen : Nat]
Pages == [status : {"idle", "connecting", "connected", "reconnecting", "left"},
          retry : BOOLEAN, snapshot : {"none", "live", "settled"}, feed : Seq(Nat)]

StreamTypeOK ==
    /\ out \in Nat
    /\ poller \in Pollers
    /\ client \in [Clients -> Pages]

\* A page shows nothing that has not happened, and nothing that the poller has not
\* marked seen once it has polled.
FeedsKnown ==
    /\ poller.seen <= out
    /\ \A c \in Clients : \A i \in DOMAIN client[c].feed :
           /\ client[c].feed[i] <= out
           /\ poller.last # "none" => client[c].feed[i] <= poller.seen

StreamSound == StreamTypeOK /\ OneLoop /\ FeedInOrder /\ FeedsKnown

LEMMA StreamSoundInit == ASSUME StreamInit PROVE StreamSound
<1> USE DEF StreamInit, NoPoller, Away
<1>1. StreamTypeOK
  BY DEF StreamTypeOK, Pollers, Pages
<1>2. OneLoop /\ FeedInOrder /\ FeedsKnown
  BY DEF OneLoop, FeedInOrder, FeedsKnown
<1> QED BY <1>1, <1>2 DEF StreamSound

-----------------------------------------------------------------------------
\* Every step keeps it

\* A step that shows no page anything new, and leaves what the poller knows.
LEMMA NothingNew ==
    ASSUME StreamSound, out' \in Nat, out' >= out,
           poller' \in Pollers, client' \in [Clients -> Pages],
           \A c \in Clients : client'[c].feed \in {client[c].feed, <<>>},
           \/ poller'.last = poller.last /\ poller'.seen = poller.seen
           \/ poller'.last = "none" /\ poller'.seen = 0,
           OneLoop'
    PROVE  StreamSound'
<1> USE DEF StreamSound, StreamTypeOK
<1>1. \A c \in Clients : client[c].feed \in Seq(Nat)
  BY DEF Pages
<1>2. FeedInOrder'
  BY <1>1 DEF FeedInOrder
<1>3. FeedsKnown'
  <2>1. out \in Nat /\ poller.seen \in Nat
    BY DEF Pollers
  <2>2. poller'.seen <= out'
    BY <2>1 DEF FeedsKnown
  <2>3. ASSUME NEW c \in Clients, NEW i \in DOMAIN client'[c].feed
        PROVE  /\ client'[c].feed[i] <= out'
               /\ poller'.last # "none" => client'[c].feed[i] <= poller'.seen
    <3>1. /\ client'[c].feed = client[c].feed /\ i \in DOMAIN client[c].feed
          /\ client[c].feed[i] \in Nat
      BY <1>1, <2>3
    <3>2. client[c].feed[i] <= out /\ (poller.last # "none" => client[c].feed[i] <= poller.seen)
      BY <3>1 DEF FeedsKnown
    <3> QED BY <2>1, <3>1, <3>2
  <2> QED BY <2>2, <2>3 DEF FeedsKnown
<1> QED BY <1>2, <1>3

\* A connection of a page is closed.
LEMMA SourceClosed ==
    ASSUME StreamSound, NEW c \in Clients, CloseSource(c)
    PROVE  /\ poller' \in Pollers /\ poller'.last = poller.last /\ poller'.seen = poller.seen
           /\ OneLoop'
<1> DEFINE closed == [i \in DOMAIN poller.subscribers |->
               IF poller.subscribers[i].client = c
               THEN [poller.subscribers[i] EXCEPT !.open = FALSE] ELSE poller.subscribers[i]]
<1>1. poller.subscribers \in Seq(Subscriber) /\ poller \in Pollers
  BY DEF StreamSound, StreamTypeOK, Pollers
<1>2. closed \in Seq(Subscriber) /\ Len(closed) = Len(poller.subscribers)
  <2> DEFINE n == Len(poller.subscribers)
  <2>1. n \in Nat /\ DOMAIN poller.subscribers = 1..n
    BY <1>1
  <2>2. \A i \in 1..n : closed[i] \in Subscriber
    <3>1. \A i \in 1..n : poller.subscribers[i] \in Subscriber
      BY <1>1, <2>1
    <3>2. \A s \in Subscriber : [s EXCEPT !.open = FALSE] \in Subscriber
      BY DEF Subscriber
    <3> QED BY <2>1, <3>1, <3>2
  <2>3. closed \in [1..n -> Subscriber]
    BY <2>1, <2>2
  <2> HIDE DEF closed, n
  <2>4. closed \in Seq(Subscriber) /\ Len(closed) = n
    BY <2>1, <2>3
  <2> QED BY <2>4 DEF n
<1>3. closed = <<>> <=> poller.subscribers = <<>>
  BY <1>1, <1>2
<1>4. poller' = [poller EXCEPT !.subscribers = closed]
  BY DEF CloseSource
<1> HIDE DEF closed
<1>5. /\ poller' \in Pollers /\ poller'.last = poller.last /\ poller'.seen = poller.seen
      /\ poller'.loops = poller.loops /\ poller'.subscribers = closed
  BY <1>1, <1>2, <1>4 DEF Pollers
<1>6. OneLoop'
  BY <1>3, <1>5 DEF StreamSound, OneLoop
<1> QED BY <1>5, <1>6

LEMMA ConnectStep ==
    ASSUME StreamSound, NEW c \in Clients, NEW page \in Pages, page.feed = client[c].feed,
           connect(c, page)
    PROVE  StreamSound'
<1>1. client' \in [Clients -> Pages]
  BY DEF connect, StreamSound, StreamTypeOK, Pages
<1>2. \A d \in Clients : client'[d].feed = client[d].feed
  BY DEF connect, StreamSound, StreamTypeOK, Pages
<1>3. CloseSource(c) /\ out' = out /\ out \in Nat
  BY DEF connect, StreamSound, StreamTypeOK
<1> QED BY <1>1, <1>2, <1>3, SourceClosed, NothingNew

LEMMA PageStep ==
    ASSUME StreamSound, NEW c \in Clients,
           Mount(c) \/ Unmount(c) \/ Break(c) \/ Retry(c) \/ Watchdog(c)
    PROVE  StreamSound'
<1>1. client[c] \in Pages /\ out \in Nat
  BY DEF StreamSound, StreamTypeOK
<1>2. CASE Mount(c) \/ Watchdog(c)
  BY <1>1, <1>2, ConnectStep DEF Mount, Watchdog
<1>3. CASE Retry(c)
  <2>1. [client[c] EXCEPT !.retry = FALSE] \in Pages
    BY <1>1 DEF Pages
  <2>2. [client[c] EXCEPT !.retry = FALSE].feed = client[c].feed
    BY <1>1 DEF Pages
  <2> QED BY <1>3, <2>1, <2>2, ConnectStep DEF Retry
<1>4. CASE Unmount(c) \/ Break(c)
  <2>1. CloseSource(c) /\ out' = out
    BY <1>4 DEF Unmount, Break
  <2>2. PICK page \in Pages : /\ client' = [client EXCEPT ![c] = page]
                              /\ page.feed \in {client[c].feed, <<>>}
    <3>1. CASE Unmount(c)
      <4>1. Gone \in Pages /\ Gone.feed = <<>>
        <5>1. Away \in Pages /\ Away.feed = <<>>
          BY DEF Away, Pages
        <5> QED BY <5>1 DEF Gone, Pages
      <4> QED BY <3>1, <4>1 DEF Unmount
    <3>2. CASE Break(c)
      <4> DEFINE page == scheduleReconnect(client[c])
      <4>1. page \in Pages /\ page.feed = client[c].feed
        BY <1>1 DEF scheduleReconnect, Pages
      <4>2. client' = [client EXCEPT ![c] = page]
        BY <3>2 DEF Break
      <4> QED BY <4>1, <4>2
    <3> QED BY <1>4, <3>1, <3>2
  <2>3. /\ client' \in [Clients -> Pages]
        /\ \A d \in Clients : client'[d].feed \in {client[d].feed, <<>>}
    BY <2>2 DEF StreamSound, StreamTypeOK
  <2> QED BY <1>1, <2>1, <2>3, SourceClosed, NothingNew
<1> QED BY <1>2, <1>3, <1>4

LEMMA SubscribeStep ==
    ASSUME StreamSound, NEW c \in Clients, Subscribe(c) PROVE StreamSound'
<1> DEFINE new == [client |-> c, open |-> TRUE]
<1>1. /\ poller \in Pollers /\ poller.subscribers \in Seq(Subscriber) /\ new \in Subscriber
      /\ poller.loops \in Seq({"poll", "flight"}) /\ client[c] \in Pages
      /\ out' = out /\ out \in Nat
  BY DEF Subscribe, StreamSound, StreamTypeOK, Pollers, Subscriber
<1>2. /\ Append(poller.subscribers, new) \in Seq(Subscriber)
      /\ Append(poller.subscribers, new) # <<>>
  BY <1>1
<1> DEFINE Kept == /\ poller' \in Pollers /\ poller'.last = poller.last
                   /\ poller'.seen = poller.seen /\ OneLoop'
<1>3. ASSUME poller.subscribers = <<>> PROVE Kept
  <2>1. poller.loops = <<>>
    BY <1>1, <1>3 DEF StreamSound, OneLoop
  <2>2. /\ Append(poller.loops, "poll") \in Seq({"poll", "flight"})
        /\ Len(Append(poller.loops, "poll")) = 1
    BY <2>1
  <2>3. poller' = [poller EXCEPT !.subscribers = Append(poller.subscribers, new),
                                 !.loops = Append(poller.loops, "poll")]
    BY <1>1, <1>3 DEF Subscribe, Pollers
  <2> QED BY <1>1, <1>2, <2>2, <2>3 DEF Pollers, OneLoop
<1>4. ASSUME poller.subscribers # <<>> PROVE Kept
  <2>1. poller' = [poller EXCEPT !.subscribers = Append(poller.subscribers, new)]
    BY <1>1, <1>4 DEF Subscribe, Pollers
  <2> QED BY <1>1, <1>2, <1>4, <2>1 DEF Pollers, OneLoop, StreamSound
<1>5. client' \in [Clients -> Pages] /\ \A d \in Clients : client'[d].feed = client[d].feed
  BY <1>1 DEF Subscribe, StreamSound, StreamTypeOK, Pages
<1>6. Kept
  BY <1>3, <1>4
<1> QED BY <1>1, <1>5, <1>6, NothingNew

LEMMA UnsubscribeStep ==
    ASSUME StreamSound, NEW c \in Clients, Unsubscribe(c) PROVE StreamSound'
<1>1. PICK i \in Closed(c) :
          poller' = IF RemoveAt(poller.subscribers, i) = <<>> THEN NoPoller
                    ELSE [poller EXCEPT !.subscribers = RemoveAt(poller.subscribers, i)]
  BY DEF Unsubscribe, Removed
<1>2. /\ poller \in Pollers /\ poller.subscribers \in Seq(Subscriber)
      /\ poller.loops \in Seq({"poll", "flight"}) /\ i \in 1..Len(poller.subscribers)
  BY DEF Closed, StreamSound, StreamTypeOK, Pollers
<1>3. RemoveAt(poller.subscribers, i) \in Seq(Subscriber)
  BY <1>2 DEF RemoveAt
<1>4. /\ poller' \in Pollers /\ OneLoop'
      /\ \/ poller'.last = poller.last /\ poller'.seen = poller.seen
         \/ poller'.last = "none" /\ poller'.seen = 0
  <2>1. CASE RemoveAt(poller.subscribers, i) = <<>>
    BY <1>1, <2>1 DEF NoPoller, Pollers, OneLoop
  <2>2. CASE RemoveAt(poller.subscribers, i) # <<>>
    <3>1. poller.subscribers # <<>>
      BY <1>2
    <3>2. poller' = [poller EXCEPT !.subscribers = RemoveAt(poller.subscribers, i)]
      BY <1>1, <2>2
    <3> QED BY <1>2, <1>3, <2>2, <3>1, <3>2 DEF Pollers, OneLoop, StreamSound
  <2> QED BY <2>1, <2>2
<1>5. UNCHANGED <<client, out>> /\ client \in [Clients -> Pages] /\ out \in Nat
  BY DEF Unsubscribe, StreamSound, StreamTypeOK
<1> QED BY <1>4, <1>5, NothingNew

\* While there is a loop there is somebody to poll for, so it goes on.
LEMMA LoopGoesOn ==
    ASSUME StreamSound, NEW l \in Loops
    PROVE  /\ l = 1 /\ Len(poller.loops) = 1 /\ poller.subscribers # <<>>
           /\ Again(l) \in Seq({"poll", "flight"}) /\ Len(Again(l)) = 1
<1>1. poller.loops \in Seq({"poll", "flight"}) /\ poller.subscribers \in Seq(Subscriber)
  BY DEF StreamSound, StreamTypeOK, Pollers
<1>2. Len(poller.loops) = 1 /\ l = 1 /\ poller.subscribers # <<>>
  BY <1>1 DEF Loops, StreamSound, OneLoop
<1>3. Again(l) = [poller.loops EXCEPT ![l] = "poll"]
  BY <1>2 DEF Again
<1>4. /\ [poller.loops EXCEPT ![l] = "poll"] \in Seq({"poll", "flight"})
      /\ Len([poller.loops EXCEPT ![l] = "poll"]) = Len(poller.loops)
  BY <1>1 DEF Loops
<1> QED BY <1>2, <1>3, <1>4

LEMMA FailedKeeps ==
    ASSUME StreamSound, NEW loops \in Seq({"poll", "flight"}),
           Len(loops) = Len(poller.loops), Failed(loops), out' = out
    PROVE  StreamSound'
<1> DEFINE n == Len(poller.subscribers)
           closed == [i \in DOMAIN poller.subscribers |->
                          [poller.subscribers[i] EXCEPT !.open = FALSE]]
<1>1. /\ poller \in Pollers /\ n \in Nat /\ DOMAIN poller.subscribers = 1..n
      /\ \A i \in 1..n : poller.subscribers[i] \in Subscriber
      /\ poller.subscribers \in Seq(Subscriber)
  BY DEF StreamSound, StreamTypeOK, Pollers
<1>2. closed \in [1..n -> Subscriber]
  <2>1. \A s \in Subscriber : [s EXCEPT !.open = FALSE] \in Subscriber
    BY DEF Subscriber
  <2> QED BY <1>1, <2>1
<1>3. poller' = [poller EXCEPT !.loops = loops, !.subscribers = closed]
  BY <1>1 DEF Failed, Pollers
<1> HIDE DEF closed
<1>4. closed \in Seq(Subscriber) /\ (closed = <<>> <=> poller.subscribers = <<>>)
  BY <1>1, <1>2
<1>5. /\ poller' \in Pollers /\ poller'.last = poller.last /\ poller'.seen = poller.seen
      /\ OneLoop'
  BY <1>1, <1>3, <1>4 DEF Pollers, OneLoop, StreamSound
<1>6. /\ client' \in [Clients -> Pages]
      /\ \A c \in Clients : client'[c].feed = client[c].feed
  <2>1. \A c \in Clients : /\ client[c] \in Pages
                           /\ scheduleReconnect(client[c]) \in Pages
                           /\ scheduleReconnect(client[c]).feed = client[c].feed
    BY DEF StreamSound, StreamTypeOK, Pages, scheduleReconnect
  <2> QED BY <2>1 DEF Failed, ToAll
<1>7. out \in Nat
  BY DEF StreamSound, StreamTypeOK
<1> QED BY <1>5, <1>6, <1>7, NothingNew

LEMMA PollLoopStep ==
    ASSUME StreamSound, NEW l \in Loops, PollSnapshot(l) \/ FailPoll(l) PROVE StreamSound'
<1>1. /\ poller \in Pollers /\ poller.loops \in Seq({"poll", "flight"})
      /\ client \in [Clients -> Pages] /\ out \in Nat /\ out' = out
  BY DEF PollSnapshot, FailPoll, StreamSound, StreamTypeOK, Pollers
<1>2. CASE FailPoll(l)
  BY <1>1, <1>2, LoopGoesOn, FailedKeeps DEF FailPoll
<1>3. CASE PollSnapshot(l) /\ Rejects(breaker)
  BY <1>1, <1>3, FailedKeeps DEF PollSnapshot
<1>4. CASE PollSnapshot(l) /\ ~Rejects(breaker)
  <2>1. poller' = [poller EXCEPT !.loops[l] = "flight"] /\ UNCHANGED client
    BY <1>4 DEF PollSnapshot
  <2>2. /\ [poller.loops EXCEPT ![l] = "flight"] \in Seq({"poll", "flight"})
        /\ Len([poller.loops EXCEPT ![l] = "flight"]) = Len(poller.loops)
    BY <1>1 DEF Loops
  <2>3. /\ poller' \in Pollers /\ poller'.last = poller.last /\ poller'.seen = poller.seen
        /\ OneLoop'
    BY <1>1, <2>1, <2>2 DEF Pollers, OneLoop, StreamSound
  <2> QED BY <1>1, <2>1, <2>3, NothingNew
<1> QED BY <1>2, <1>3, <1>4

Descending(feed) == \A i, j \in DOMAIN feed : i < j => feed[i] > feed[j]
Within(feed, n) == \A i \in DOMAIN feed : feed[i] <= n

LEMMA JoinedFeeds ==
    ASSUME NEW newer \in Seq(Nat), NEW older \in Seq(Nat), NEW n \in Nat, NEW m \in Nat,
           Descending(newer), Descending(older), m <= n, Within(newer, n), Within(older, m),
           \A i \in DOMAIN newer : newer[i] > m
    PROVE  newer \o older \in Seq(Nat) /\ Descending(newer \o older) /\ Within(newer \o older, n)
<1> DEFINE a == Len(newer)
           b == Len(older)
           all == newer \o older
<1>1. /\ all \in Seq(Nat) /\ a \in Nat /\ b \in Nat /\ DOMAIN all = 1..(a + b)
      /\ DOMAIN newer = 1..a /\ DOMAIN older = 1..b
  OBVIOUS
<1>2. \A i \in 1..a : all[i] = newer[i] /\ newer[i] \in Nat
  OBVIOUS
<1>3. \A i \in 1..(a + b) : i \notin 1..a =>
          i - a \in 1..b /\ all[i] = older[i - a] /\ older[i - a] \in Nat
  OBVIOUS
<1> HIDE DEF a, b, all
<1>4. Within(all, n)
  <2> SUFFICES ASSUME NEW i \in 1..(a + b) PROVE all[i] <= n
    BY <1>1 DEF Within
  <2>1. CASE i \in 1..a
    BY <1>1, <1>2, <2>1 DEF Within
  <2>2. CASE i \notin 1..a
    <3>1. older[i - a] <= m
      BY <1>1, <1>3, <2>2 DEF Within
    <3> QED BY <1>3, <2>2, <3>1
  <2> QED BY <2>1, <2>2
<1>5. Descending(all)
  <2> SUFFICES ASSUME NEW i \in 1..(a + b), NEW j \in 1..(a + b), i < j PROVE all[i] > all[j]
    BY <1>1 DEF Descending
  <2>1. CASE j \in 1..a
    <3>1. i \in 1..a
      BY <1>1, <2>1
    <3> QED BY <1>1, <1>2, <2>1, <3>1 DEF Descending
  <2>2. CASE i \in 1..a /\ j \notin 1..a
    <3>1. newer[i] > m /\ older[j - a] <= m
      BY <1>1, <1>3, <2>2 DEF Within
    <3> QED BY <1>2, <1>3, <2>2, <3>1
  <2>3. CASE i \notin 1..a
    <3>1. j \notin 1..a
      BY <1>1, <2>3
    <3>2. i - a < j - a /\ i - a \in 1..b /\ j - a \in 1..b
      BY <1>1, <1>3, <2>3, <3>1
    <3> QED BY <1>1, <1>3, <2>3, <3>1, <3>2 DEF Descending
  <2> QED BY <2>1, <2>2, <2>3
<1> QED BY <1>1, <1>4, <1>5 DEF all

\* What a page shows after the events of a poll: an elimination that was not seen has a
\* higher number than any on the page.
LEMMA ToldFeed ==
    ASSUME StreamSound, NEW c \in Clients, NEW i, NEW snap, snap.out = out
    PROVE  LET page == Told(client[c], i, snap)
           IN  page \in Pages /\ Descending(page.feed) /\ Within(page.feed, out)
<1> DEFINE feed == client[c].feed
           missed == (1..out) \ (1..poller.seen)
           Good(page) == page \in Pages /\ Descending(page.feed) /\ Within(page.feed, out)
<1>1. /\ client[c] \in Pages /\ feed \in Seq(Nat) /\ out \in Nat /\ poller.seen \in Nat
      /\ poller.seen <= out
  BY DEF StreamSound, StreamTypeOK, Pages, Pollers, FeedsKnown
<1>2. Descending(feed) /\ Within(feed, out) /\ (poller.last # "none" => Within(feed, poller.seen))
  BY DEF StreamSound, FeedInOrder, FeedsKnown, Descending, Within
<1>3. IsFiniteSet(1..out)
  BY <1>1, FS_Interval
<1>4. ASSUME NEW ids \in SUBSET (1..out)
      PROVE  /\ Feed(ids) \in Seq(Nat) /\ Descending(Feed(ids)) /\ Within(Feed(ids), out)
             /\ \A k \in DOMAIN Feed(ids) : Feed(ids)[k] \in ids
  <2>1. IsFiniteSet(ids) /\ ids \in SUBSET Nat
    <3>1. ids \in SUBSET Nat
      BY <1>1
    <3>2. IsFiniteSet(ids)
      BY <1>3, FS_Subset
    <3> QED BY <3>1, <3>2
  <2>2. Feed(ids) \in Seq(ids) /\ Descending(Feed(ids))
    BY <2>1, FeedSorted DEF Descending
  <2>3. \A k \in DOMAIN Feed(ids) : Feed(ids)[k] \in ids
    BY <2>2
  <2>4. Feed(ids) \in Seq(Nat)
    <3>1. Len(Feed(ids)) \in Nat /\ Feed(ids) \in [1..Len(Feed(ids)) -> ids]
      BY <2>2
    <3>2. Feed(ids) \in [1..Len(Feed(ids)) -> Nat]
      BY <2>1, <3>1
    <3> QED BY <3>1, <3>2
  <2> QED BY <1>1, <2>2, <2>3, <2>4 DEF Within
<1>5. CASE poller.last = "none"
  <2>1. Told(client[c], i, snap) = [client[c] EXCEPT !.snapshot = "live", !.feed = Feed(1..out)]
    BY <1>5 DEF Told, OnSnapshot
  <2>2. /\ Feed(1..out) \in Seq(Nat) /\ Descending(Feed(1..out))
        /\ Within(Feed(1..out), out)
    BY <1>4
  <2>3. Good([client[c] EXCEPT !.snapshot = "live", !.feed = Feed(1..out)])
    BY <1>1, <2>2 DEF Pages
  <2> QED BY <2>1, <2>3
<1>6. CASE poller.last # "none"
  <2>1. Good(client[c])
    BY <1>1, <1>2
  <2>2. Good(OnEliminations(client[c], missed))
    <3> DEFINE newer == Feed(missed \ ToSet(feed))
    <3>1. /\ newer \in Seq(Nat) /\ Descending(newer) /\ Within(newer, out)
          /\ \A k \in DOMAIN newer : newer[k] \in missed
      BY <1>4
    <3>2. \A k \in DOMAIN newer : newer[k] > poller.seen
      <4>1. \A id \in missed : id > poller.seen
        BY <1>1
      <4> QED BY <3>1, <4>1
    <3> HIDE DEF newer
    <3>3. /\ newer \o feed \in Seq(Nat) /\ Descending(newer \o feed)
          /\ Within(newer \o feed, out)
      BY <1>1, <1>2, <1>6, <3>1, <3>2, JoinedFeeds
    <3>4. OnEliminations(client[c], missed) = [client[c] EXCEPT !.feed = newer \o feed]
      BY <1>1 DEF OnEliminations, newer, Pages
    <3> QED BY <1>1, <3>3, <3>4 DEF Pages
  <2>3. ASSUME NEW page, Good(page) PROVE Good(OnFinished(page))
    BY <2>3 DEF OnFinished, Pages
  <2> DEFINE eliminated == IF i = 1 THEN OnEliminations(client[c], missed) ELSE client[c]
  <2>4. Told(client[c], i, snap) \in {eliminated, OnFinished(eliminated)}
    BY <1>6 DEF Told
  <2>5. Good(eliminated)
    BY <2>1, <2>2
  <2> HIDE DEF eliminated, Good
  <2>6. Good(Told(client[c], i, snap))
    BY <2>3, <2>4, <2>5
  <2> QED BY <2>6 DEF Good
<1> QED BY <1>5, <1>6

LEMMA ArrivesStep ==
    ASSUME StreamSound, NEW l \in Loops, SnapshotArrives(l) PROVE StreamSound'
<1>1. PICK snap \in Snapshots :
          /\ poller' = [poller EXCEPT !.loops = Again(l),
                            !.last = IF snap.finished THEN "finished" ELSE "playing",
                            !.seen = IF snap.out > @ THEN snap.out ELSE @]
          /\ ToAll(LAMBDA page, i : Told(page, i, snap))
  BY DEF SnapshotArrives
<1>2. /\ poller \in Pollers /\ client \in [Clients -> Pages] /\ out \in Nat /\ out' = out
      /\ poller.seen \in Nat /\ poller.seen <= out /\ snap.out = out
  <2>1. snap.out = out
    BY DEF Snapshots
  <2> QED BY <2>1 DEF SnapshotArrives, StreamSound, StreamTypeOK, Pollers, FeedsKnown
<1>3. /\ poller' \in Pollers /\ poller'.last # "none" /\ poller'.seen = out
      /\ poller'.subscribers = poller.subscribers /\ Len(poller'.loops) = 1
  <2>1. Again(l) \in Seq({"poll", "flight"}) /\ Len(Again(l)) = 1
    BY LoopGoesOn
  <2>2. PICK last \in {"playing", "finished"} :
            poller' = [poller EXCEPT !.loops = Again(l), !.last = last, !.seen = out]
    <3>1. (IF snap.out > poller.seen THEN snap.out ELSE poller.seen) = out
      BY <1>2
    <3>2. (IF snap.finished THEN "finished" ELSE "playing") \in {"playing", "finished"}
      OBVIOUS
    <3> QED BY <1>1, <1>2, <3>1, <3>2
  <2> QED BY <1>2, <2>1, <2>2 DEF Pollers
<1>4. OneLoop'
  BY <1>3, LoopGoesOn DEF OneLoop
<1>5. client' \in [Clients -> Pages]
      /\ \A c \in Clients : Descending(client'[c].feed) /\ Within(client'[c].feed, out)
  <2> SUFFICES ASSUME NEW c \in Clients
               PROVE  /\ client'[c] \in Pages
                      /\ Descending(client'[c].feed) /\ Within(client'[c].feed, out)
    BY <1>1 DEF ToAll
  <2>1. client'[c] = client[c] \/ \E i : client'[c] = Told(client[c], i, snap)
    BY <1>1 DEF ToAll
  <2>2. client[c] \in Pages /\ Descending(client[c].feed) /\ Within(client[c].feed, out)
    BY <1>2 DEF StreamSound, FeedInOrder, FeedsKnown, Descending, Within
  <2> QED BY <1>2, <2>1, <2>2, ToldFeed
<1>6. FeedInOrder' /\ FeedsKnown'
  BY <1>2, <1>3, <1>5 DEF FeedInOrder, FeedsKnown, Descending, Within
<1> QED BY <1>2, <1>3, <1>4, <1>5, <1>6 DEF StreamSound, StreamTypeOK

LEMMA StreamStaysSound == StreamSpec => []StreamSound
<1>1. ASSUME StreamSound, [StreamNext]_streamVars PROVE StreamSound'
  <2>1. out \in Nat /\ poller \in Pollers /\ client \in [Clients -> Pages] /\ OneLoop
    BY <1>1 DEF StreamSound, StreamTypeOK
  <2>2. CASE UNCHANGED streamVars \/ ResolveRound \/ Heal \/ Rest \/ OrphanEnds
    <3>1. out' \in Nat /\ out' >= out /\ UNCHANGED <<poller, client>>
      BY <2>1, <2>2 DEF streamVars, ResolveRound, Heal, Rest, OrphanEnds
    <3>2. OneLoop'
      BY <2>1, <3>1 DEF OneLoop
    <3> QED BY <1>1, <2>1, <3>1, <3>2, NothingNew
  <2>3. CASE PollerStep
    BY <1>1, <2>3, PollLoopStep, ArrivesStep DEF PollerStep
  <2>4. ASSUME NEW c \in Clients,
               \/ Mount(c) \/ Unmount(c) \/ Break(c) \/ Retry(c) \/ Watchdog(c)
               \/ Subscribe(c) \/ Unsubscribe(c)
        PROVE  StreamSound'
    BY <1>1, <2>4, PageStep, SubscribeStep, UnsubscribeStep
  <2> QED BY <1>1, <2>2, <2>3, <2>4 DEF StreamNext
<1> QED BY <1>1, StreamSoundInit, PTL DEF StreamSpec

\* However subscribers come and go while polls are in flight, an arena with subscribers
\* has one poll loop and an arena without has none.
THEOREM AlwaysOneLoop == StreamSpec => []OneLoop
<1>1. StreamSound => OneLoop
  BY DEF StreamSound
<1> QED BY <1>1, StreamStaysSound, PTL

\* The feed that a page puts together from snapshots and events, over any number of
\* connections, is in order and without repetition.
THEOREM FeedsStayInOrder == StreamSpec => []FeedInOrder
<1>1. StreamSound => FeedInOrder
  BY DEF StreamSound
<1> QED BY <1>1, StreamStaysSound, PTL

=============================================================================
