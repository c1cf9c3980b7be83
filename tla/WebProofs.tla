------------------------------ MODULE WebProofs ------------------------------
(***************************************************************************)
(* Proofs about the web application, screen by screen: the transactions    *)
(* and what the arena page, the host's dashboard and the lobby's form do   *)
(* over them, for any number of salts, transactions and polls; the lobby's *)
(* list, the polling hook and the leaderboard, for any page size and any   *)
(* number of answers that cross; the connect button's wallet; and the      *)
(* search box and the hook over the arenas.                                *)
(***************************************************************************)
EXTENDS ArenaPage, HostDashboard, ArenaLobby, WebQueries, Wallets, GamesBrowser,
        SequenceTheorems, TLAPS

-----------------------------------------------------------------------------
\* The transactions

Kinds == {"JOIN", "COMMIT", "REVEAL", "CLAIM"}
Codes == {None, "VALIDATION_FAILED", "SIMULATION_FAILED", "ACCOUNT_NOT_FOUND", "USER_REJECTED",
          "UNKNOWN", "TRANSACTION_FAILED", "TRANSACTION_TIMEOUT"}
Steps == {"idle", "asked", "nothing", "loading", "signing", "polling", "confirmed", "refreshing",
          "failed"}
Bodies == Nat \cup {None}
Statuses == {"pending", "SUCCESS", "FAILED"}

Txs == [kind : Kinds, body : Bodies, seq : Nat, status : Statuses]
Chains == [phase : {"open", "commit", "reveal", "over"}, round : 0 .. MaxRounds, active : BOOLEAN,
           committed : Bodies, revealed : BOOLEAN, won : BOOLEAN, seq : Nat]
Ops == [step : Steps, kind : Kinds \cup {None}, round : Rounds, body : Bodies, seq : Nat, tx : Nat,
        polls : Nat, code : Codes]

WebTypeOK ==
    /\ chain \in Chains
    /\ network \in Seq(Txs)
    /\ stored \in [Rounds -> Bodies]
    /\ lastSalt \in Nat
    /\ op \in Ops
    /\ op.step # "idle" => op.kind \in Kinds

\* What is on the network stays there, and what is decided stays decided.
NetworkKept ==
    /\ Len(network) <= Len(network')
    /\ \A t \in DOMAIN network :
           /\ t \in DOMAIN network'
           /\ network'[t].kind = network[t].kind /\ network'[t].body = network[t].body
           /\ network'[t].seq = network[t].seq
           /\ network[t].status # "pending" => network'[t].status = network[t].status

LEMMA RoundsAre ==
    Rounds = 0 .. MaxRounds + 1 /\ 0 \in Rounds /\ 1 \in Rounds /\ 0 .. MaxRounds \subseteq Rounds
BY WebConstants DEF Rounds

LEMMA IdleIs ==
    /\ Idle \in Ops /\ Idle.step = "idle" /\ Idle.tx = 0 /\ Idle.kind = None /\ Idle.body = None
    /\ Idle.round = 0
BY RoundsAre DEF Idle, Ops, Steps, Bodies, Codes

LEMMA FailureIs ==
    ASSUME WebTypeOK, op.step # "idle", NEW code \in Codes, NEW t \in Nat
    PROVE  /\ Failure(code, t) \in Ops
           /\ Failure(code, t).step = "failed" /\ Failure(code, t).kind = op.kind
           /\ Failure(code, t).code = code /\ Failure(code, t).tx = t
BY IdleIs DEF Failure, WebTypeOK, Ops, Steps

LEMMA FailIs ==
    ASSUME WebTypeOK, op.step # "idle", NEW code \in Codes, Fail(code)
    PROVE  /\ op' \in Ops /\ op'.step = "failed" /\ op'.kind = op.kind /\ op'.kind \in Kinds
           /\ op'.code = code /\ op'.tx = op.tx
<1>1. op.tx \in Nat /\ op.kind \in Kinds
  BY DEF WebTypeOK, Ops
<1> QED BY <1>1, FailureIs DEF Fail

LEMMA WebTypeInit == WebInit => WebTypeOK /\ op = Idle /\ network = << >>
<1> SUFFICES ASSUME WebInit PROVE WebTypeOK /\ op = Idle /\ network = << >>
  OBVIOUS
<1>1. op \in Ops /\ op.step = "idle" /\ op = Idle /\ network = << >>
  BY IdleIs DEF WebInit
<1>2. chain \in Chains
  <2>1. None \in Bodies /\ 0 \in 0 .. MaxRounds /\ 1 \in 0 .. MaxRounds
    BY WebConstants DEF Bodies
  <2>2. ChainStart \in Chains
    BY <2>1, WebConstants DEF ChainStart, Chains
  <2>3. [ChainStart EXCEPT !.phase = "commit", !.round = 1, !.active = TRUE] \in Chains
    BY <2>1, <2>2 DEF Chains
  <2> QED BY <2>2, <2>3 DEF WebInit
<1>3. stored \in [Rounds -> Bodies] /\ lastSalt \in Nat /\ network \in Seq(Txs)
  BY DEF WebInit, Bodies
<1> QED BY <1>1, <1>2, <1>3 DEF WebTypeOK

LEMMA LandIs ==
    ASSUME WebTypeOK, NEW i \in DOMAIN network, Land(i)
    PROVE  /\ WebTypeOK' /\ NetworkKept /\ DOMAIN network' = DOMAIN network
           /\ chain'.seq = chain.seq + 1 /\ network[i].seq = chain'.seq
           /\ \A t \in DOMAIN network : t # i => network'[t] = network[t]
           /\ network[i].kind = "COMMIT" =>
                  IF network'[i].status = "SUCCESS" THEN chain'.committed = network[i].body
                  ELSE chain'.committed = chain.committed
<1>1. /\ network[i] \in Txs /\ network \in Seq(Txs) /\ chain \in Chains
      /\ network[i].status = "pending" /\ network[i].seq = chain.seq + 1
  BY DEF Land, WebTypeOK
<1>2. PICK s : s = IF Accepted(network[i]) THEN "SUCCESS" ELSE "FAILED"
  OBVIOUS
<1>3. network' = [network EXCEPT ![i].status = s] /\ s \in {"SUCCESS", "FAILED"}
  BY <1>2 DEF Land
<1>4. /\ network' \in Seq(Txs) /\ DOMAIN network' = DOMAIN network /\ Len(network') = Len(network)
      /\ \A t \in DOMAIN network : t # i => network'[t] = network[t]
  <2> DEFINE n == [network[i] EXCEPT !.status = s]
  <2>1. n \in Txs
    BY <1>1, <1>3 DEF Txs, Statuses
  <2>2. network' = [network EXCEPT ![i] = n]
    BY <1>3
  <2> HIDE DEF n
  <2> QED BY <1>1, <2>1, <2>2, ExceptSeq
<1>5. network'[i] = [network[i] EXCEPT !.status = s]
  BY <1>1, <1>3
<1>6. /\ network'[i].kind = network[i].kind /\ network'[i].body = network[i].body
      /\ network'[i].seq = network[i].seq /\ network'[i].status = s
  BY <1>1, <1>5 DEF Txs
<1>7. NetworkKept
  <2>1. Len(network) <= Len(network')
    BY <1>1, <1>4, LenProperties
  <2> QED BY <1>1, <1>4, <1>6, <2>1 DEF NetworkKept
<1>8. PICK c : /\ c = IF Accepted(network[i]) THEN Executed(network[i]) ELSE chain
               /\ chain' = [c EXCEPT !.seq = @ + 1]
  BY DEF Land
<1>9. /\ c \in Chains /\ c.seq = chain.seq
      /\ network[i].kind = "COMMIT" =>
             IF s = "SUCCESS" THEN c.committed = network[i].body ELSE c.committed = chain.committed
  <2>1. CASE ~Accepted(network[i])
    BY <1>1, <1>2, <1>8, <2>1
  <2>2. CASE Accepted(network[i])
    <3>1. c = Executed(network[i]) /\ s = "SUCCESS" /\ network[i].body \in Bodies
      BY <1>1, <1>2, <1>8, <2>2 DEF Txs
    <3> QED BY <1>1, <3>1 DEF Executed, Chains
  <2> QED BY <2>1, <2>2
<1>10. chain' \in Chains /\ chain'.seq = chain.seq + 1 /\ chain'.committed = c.committed
  BY <1>8, <1>9 DEF Chains
<1>11. UNCHANGED <<stored, lastSalt, op>>
  BY DEF Land
<1>12. WebTypeOK'
  BY <1>4, <1>10, <1>11 DEF WebTypeOK
<1> QED BY <1>1, <1>4, <1>6, <1>7, <1>9, <1>10, <1>12

LEMMA NextPhaseIs ==
    ASSUME WebTypeOK, NextPhase
    PROVE  /\ WebTypeOK' /\ NetworkKept /\ UNCHANGED <<network, stored, lastSalt, op>>
           /\ chain'.seq = chain.seq /\ chain'.committed \in {chain.committed, None}
<1>1. UNCHANGED <<network, stored, lastSalt, op>>
  BY DEF NextPhase
<1>2. chain \in Chains /\ 1 \in 0 .. MaxRounds /\ None \in Bodies
  BY WebConstants DEF WebTypeOK, Bodies
<1>3. chain' \in Chains /\ chain'.seq = chain.seq /\ chain'.committed \in {chain.committed, None}
  <2>1. CASE chain' = [chain EXCEPT !.phase = "commit", !.round = 1]
    BY <1>2, <2>1 DEF Chains
  <2>2. CASE chain' = [chain EXCEPT !.phase = "reveal"]
    BY <1>2, <2>2 DEF Chains
  <2>3. ASSUME chain.round < MaxRounds, NEW alive \in {FALSE, chain.active /\ chain.revealed},
               chain' = [chain EXCEPT !.phase = "commit", !.round = @ + 1, !.active = alive,
                                      !.committed = None, !.revealed = FALSE]
        PROVE  chain' \in Chains /\ chain'.seq = chain.seq /\ chain'.committed = None
    <3>1. alive \in BOOLEAN
      <4>1. chain.active \in BOOLEAN /\ chain.revealed \in BOOLEAN
        BY <1>2 DEF Chains
      <4> QED BY <2>3, <4>1
    <3>2. chain.round + 1 \in 0 .. MaxRounds
      <4>1. chain.round \in 0 .. MaxRounds
        BY <1>2 DEF Chains
      <4> QED BY <2>3, <4>1, WebConstants
    <3> QED BY <3>2, <1>2, <2>3, <3>1 DEF Chains
  <2>4. ASSUME NEW won \in {FALSE, chain.active},
               chain' = [chain EXCEPT !.phase = "over", !.won = won]
        PROVE  chain' \in Chains /\ chain'.seq = chain.seq /\ chain'.committed = chain.committed
    <3>1. won \in BOOLEAN
      BY <1>2 DEF Chains
    <3> QED BY <1>2, <2>4, <3>1 DEF Chains
  <2> QED BY <2>1, <2>2, <2>3, <2>4 DEF NextPhase
<1>4. NetworkKept
  BY <1>1, LenProperties DEF NetworkKept, WebTypeOK
<1> QED BY <1>1, <1>3, <1>4 DEF WebTypeOK

LEMMA GotoIs ==
    ASSUME WebTypeOK, op.step # "idle", NEW step \in Steps, Goto(step)
    PROVE  /\ op' \in Ops /\ op'.step = step /\ op'.kind = op.kind /\ op'.kind \in Kinds
           /\ op'.body = op.body /\ op'.round = op.round /\ op'.seq = op.seq /\ op'.tx = op.tx
BY DEF Goto, WebTypeOK, Ops

LEMMA BuildsAre ==
    ASSUME WebTypeOK, BuildJoin \/ BuildCommit \/ BuildReveal \/ BuildClaim
    PROVE  /\ WebTypeOK' /\ UNCHANGED <<chain, network>> /\ op.step = "asked"
           /\ op'.kind = op.kind /\ op'.tx = op.tx /\ op'.step \in {"loading", "failed"}
           /\ op'.step = "failed" => op'.code # "TRANSACTION_FAILED"
           /\ op'.step = "loading" => op'.round = op.round
           /\ op.kind # "COMMIT" => UNCHANGED stored
           /\ op.kind = "COMMIT" =>
                \/ UNCHANGED stored /\ op'.step = "failed"
                \/ /\ op'.step = "loading" /\ op'.body = lastSalt + 1
                   /\ stored' = [stored EXCEPT ![op.round] = lastSalt + 1]
           /\ op.kind = "REVEAL" /\ op'.step = "loading" => op'.body = stored[op.round]
<1>1. /\ op \in Ops /\ op.kind \in Kinds /\ op.step = "asked" /\ UNCHANGED <<chain, network>>
      /\ op.round \in Rounds /\ stored \in [Rounds -> Bodies] /\ lastSalt \in Nat
      /\ "VALIDATION_FAILED" \in Codes /\ "SIMULATION_FAILED" \in Codes /\ "loading" \in Steps
  BY DEF WebTypeOK, Ops, BuildJoin, BuildCommit, BuildReveal, BuildClaim, Codes, Steps
<1> DEFINE Failing == Fail("VALIDATION_FAILED") \/ Fail("SIMULATION_FAILED")
<1>2. ASSUME Failing, UNCHANGED <<stored, lastSalt>>
      PROVE  /\ WebTypeOK' /\ op'.kind = op.kind /\ op'.tx = op.tx /\ op'.step = "failed"
             /\ op'.code \in {"VALIDATION_FAILED", "SIMULATION_FAILED"}
  BY <1>1, <1>2, FailIs DEF WebTypeOK
<1>3. ASSUME Goto("loading"), UNCHANGED <<stored, lastSalt>>
      PROVE  /\ WebTypeOK' /\ op'.kind = op.kind /\ op'.tx = op.tx /\ op'.step = "loading"
             /\ op'.round = op.round
  BY <1>1, <1>3, GotoIs DEF WebTypeOK
<1> HIDE DEF Failing
<1>4. CASE BuildJoin \/ BuildClaim
  <2>1. /\ Failing \/ Goto("loading")
        /\ UNCHANGED <<stored, lastSalt>> /\ op.kind \in {"JOIN", "CLAIM"}
    BY <1>4 DEF BuildJoin, BuildClaim, Failing
  <2> QED BY <1>1, <1>2, <1>3, <2>1
<1>5. CASE BuildReveal
  <2>1. op.kind = "REVEAL" /\ UNCHANGED <<stored, lastSalt>>
    BY <1>5 DEF BuildReveal
  <2>2. CASE Failing
    BY <1>1, <1>2, <2>1, <2>2
  <2>3. CASE op' = [op EXCEPT !.step = "loading", !.body = stored[op.round]]
    <3>1. stored[op.round] \in Bodies
      BY <1>1
    <3>2. /\ op' \in Ops /\ op'.step = "loading" /\ op'.kind = op.kind /\ op'.tx = op.tx
          /\ op'.round = op.round /\ op'.body = stored[op.round]
      BY <1>1, <2>3, <3>1 DEF Ops, Steps
    <3>3. WebTypeOK'
      BY <1>1, <2>1, <3>2 DEF WebTypeOK
    <3> QED BY <1>1, <2>1, <3>2, <3>3
  <2> QED BY <1>5, <2>2, <2>3 DEF BuildReveal, Failing
<1>6. CASE BuildCommit
  <2>1. op.kind = "COMMIT"
    BY <1>6 DEF BuildCommit
  <2>2. CASE Failing /\ UNCHANGED <<stored, lastSalt>>
    BY <1>1, <1>2, <2>1, <2>2
  <2>3. CASE /\ lastSalt' = lastSalt + 1 /\ stored' = [stored EXCEPT ![op.round] = lastSalt']
             /\ op' = [op EXCEPT !.step = "loading", !.body = lastSalt']
    <3>1. lastSalt + 1 \in Bodies /\ lastSalt' \in Nat
      BY <1>1, <2>3 DEF Bodies
    <3>2. /\ op' \in Ops /\ op'.step = "loading" /\ op'.kind = op.kind /\ op'.tx = op.tx
          /\ op'.round = op.round /\ op'.body = lastSalt + 1
      BY <1>1, <2>3, <3>1 DEF Ops, Steps
    <3>3. stored' \in [Rounds -> Bodies] /\ stored' = [stored EXCEPT ![op.round] = lastSalt + 1]
      BY <1>1, <2>3, <3>1
    <3>4. WebTypeOK'
      BY <1>1, <3>1, <3>2, <3>3 DEF WebTypeOK
    <3> QED BY <1>1, <2>1, <3>2, <3>3, <3>4
  <2> QED BY <1>6, <2>2, <2>3 DEF BuildCommit, Failing
<1> QED BY <1>4, <1>5, <1>6

LEMMA LoadOrRejectIs ==
    ASSUME WebTypeOK, LoadAccount \/ Reject
    PROVE  /\ WebTypeOK' /\ UNCHANGED <<chain, network, stored, lastSalt>>
           /\ op.step \in {"loading", "signing"}
           /\ op'.kind = op.kind /\ op'.tx = op.tx
           /\ \/ op'.step = "failed" /\ op'.code \in {"ACCOUNT_NOT_FOUND", "USER_REJECTED"}
              \/ /\ op.step = "loading" /\ op'.step = "signing" /\ op'.seq = chain.seq + 1
                 /\ op'.body = op.body /\ op'.round = op.round
<1>1. /\ op \in Ops /\ op.kind \in Kinds /\ op.step \in {"loading", "signing"}
      /\ UNCHANGED <<chain, network, stored, lastSalt>> /\ chain.seq + 1 \in Nat
      /\ "ACCOUNT_NOT_FOUND" \in Codes /\ "USER_REJECTED" \in Codes
  BY DEF WebTypeOK, LoadAccount, Reject, Codes, Chains
<1>2. CASE Fail("ACCOUNT_NOT_FOUND") \/ Fail("USER_REJECTED")
  BY <1>1, <1>2, FailIs DEF WebTypeOK
<1>3. CASE op.step = "loading" /\ op' = [op EXCEPT !.step = "signing", !.seq = chain.seq + 1]
  <2>1. /\ op' \in Ops /\ op'.step = "signing" /\ op'.kind = op.kind /\ op'.tx = op.tx
        /\ op'.seq = chain.seq + 1 /\ op'.body = op.body /\ op'.round = op.round
    BY <1>1, <1>3 DEF Ops, Steps
  <2> QED BY <1>1, <1>3, <2>1 DEF WebTypeOK
<1> QED BY <1>2, <1>3 DEF LoadAccount, Reject

LEMMA SendIs ==
    ASSUME WebTypeOK, Send
    PROVE  /\ WebTypeOK' /\ NetworkKept /\ UNCHANGED <<chain, stored, lastSalt>>
           /\ op.step = "signing" /\ op'.kind = op.kind
           /\ \/ /\ network' = network /\ op'.step = "failed" /\ op'.code = "TRANSACTION_FAILED"
                 /\ op'.tx = op.tx
              \/ /\ DOMAIN network' = DOMAIN network \cup {Len(network')}
                 /\ \A t \in DOMAIN network : network'[t] = network[t]
                 /\ network'[Len(network')] = Transaction
                 /\ Len(network') \notin DOMAIN network
                 /\ \/ op'.step = "failed" /\ op'.code = "UNKNOWN"
                    \/ /\ op'.step = "polling" /\ op'.tx = Len(network') /\ op'.body = op.body
                       /\ op'.round = op.round /\ op'.seq = op.seq
<1>1. /\ op \in Ops /\ op.kind \in Kinds /\ op.step = "signing"
      /\ UNCHANGED <<chain, stored, lastSalt>>
      /\ "TRANSACTION_FAILED" \in Codes /\ "UNKNOWN" \in Codes /\ "polling" \in Steps
  BY DEF WebTypeOK, Send, Codes, Steps
<1>2. Duplicates = {}
  BY <1>1 DEF Duplicates, Endless, Kinds
<1>3. CASE Fail("TRANSACTION_FAILED") /\ UNCHANGED network
  <2>1. NetworkKept
    BY <1>3, LenProperties DEF NetworkKept, WebTypeOK
  <2> QED BY <1>1, <1>3, <2>1, FailIs DEF WebTypeOK
<1>4. CASE /\ network' = Append(network, Transaction)
           /\ \/ op' = [op EXCEPT !.step = "polling", !.tx = Len(network')]
              \/ Fail("UNKNOWN")
  <2>1. Transaction \in Txs
    BY <1>1 DEF Transaction, Txs, Ops, Statuses
  <2>2. /\ network' \in Seq(Txs) /\ Len(network') = Len(network) + 1 /\ Len(network) \in Nat
        /\ \A t \in 1..Len(network) : network'[t] = network[t]
        /\ network'[Len(network) + 1] = Transaction
    BY <1>4, <2>1, AppendProperties, LenProperties DEF WebTypeOK
  <2>3. /\ DOMAIN network = 1..Len(network) /\ DOMAIN network' = 1..Len(network')
        /\ Len(network') \in Nat
    BY <2>2, LenProperties DEF WebTypeOK
  <2>4. /\ DOMAIN network' = DOMAIN network \cup {Len(network')}
        /\ Len(network') \notin DOMAIN network
    BY <2>2, <2>3
  <2>5. NetworkKept
    BY <2>2, <2>3, <2>4 DEF NetworkKept
  <2>6. CASE Fail("UNKNOWN")
    <3>1. WebTypeOK'
      BY <1>1, <2>2, <2>6, FailIs DEF WebTypeOK
    <3> QED BY <1>1, <2>2, <2>3, <2>4, <2>5, <2>6, <3>1, FailIs
  <2>7. CASE op' = [op EXCEPT !.step = "polling", !.tx = Len(network')]
    <3>1. /\ op' \in Ops /\ op'.step = "polling" /\ op'.tx = Len(network') /\ op'.kind = op.kind
          /\ op'.body = op.body /\ op'.round = op.round /\ op'.seq = op.seq
      BY <1>1, <2>3, <2>7 DEF Ops
    <3>2. WebTypeOK'
      BY <1>1, <2>2, <3>1 DEF WebTypeOK
    <3> QED BY <1>1, <2>2, <2>3, <2>4, <2>5, <3>1, <3>2
  <2> QED BY <1>4, <2>6, <2>7
<1> QED BY <1>2, <1>3, <1>4 DEF Send

LEMMA PollIs ==
    ASSUME WebTypeOK, Poll
    PROVE  /\ WebTypeOK' /\ UNCHANGED <<chain, network, stored, lastSalt>>
           /\ op.step = "polling" /\ op'.kind = op.kind /\ op'.tx = op.tx
           /\ \/ /\ op'.step \in {"polling", "confirmed"}
                 /\ op'.step = "confirmed" => network[op.tx].status = "SUCCESS"
                 /\ op'.body = op.body /\ op'.round = op.round /\ op'.seq = op.seq
              \/ /\ op'.step = "failed" /\ op'.code = "TRANSACTION_FAILED"
                 /\ network[op.tx].status = "FAILED"
              \/ op'.step = "failed" /\ op'.code = "TRANSACTION_TIMEOUT"
<1>1. /\ op \in Ops /\ op.kind \in Kinds /\ op.step = "polling"
      /\ UNCHANGED <<chain, network, stored, lastSalt>>
      /\ "TRANSACTION_FAILED" \in Codes /\ "TRANSACTION_TIMEOUT" \in Codes /\ "confirmed" \in Steps
  BY DEF WebTypeOK, Poll, Codes, Steps
<1>2. CASE network[op.tx].status = "SUCCESS" /\ Goto("confirmed")
  BY <1>1, <1>2, GotoIs DEF WebTypeOK
<1>3. CASE network[op.tx].status = "FAILED" /\ Fail("TRANSACTION_FAILED")
  BY <1>1, <1>3, FailIs DEF WebTypeOK
<1>4. CASE op' = [op EXCEPT !.polls = @ + 1]
  <2>1. /\ op' \in Ops /\ op'.step = "polling" /\ op'.kind = op.kind /\ op'.tx = op.tx
        /\ op'.body = op.body /\ op'.round = op.round /\ op'.seq = op.seq
    BY <1>1, <1>4 DEF Ops
  <2> QED BY <1>1, <2>1 DEF WebTypeOK
<1>5. CASE Fail("TRANSACTION_TIMEOUT")
  BY <1>1, <1>5, FailIs DEF WebTypeOK
<1> QED BY <1>2, <1>3, <1>4, <1>5 DEF Poll, AfterLastPoll

-----------------------------------------------------------------------------
\* The arena page

Pages == [round : Rounds, phase : {"commit", "reveal"}, hasCommitted : BOOLEAN, chosen : BOOLEAN,
          joined : BOOLEAN, wallet : BOOLEAN]
Modals == [open : BOOLEAN, state : {"REVIEW", "SIGNING", "SUCCESS", "ERROR"},
           kind : Kinds \cup {None}, details : {None}, code : Codes, tx : Nat]

PageTypeOK ==
    /\ WebTypeOK
    /\ page \in Pages
    /\ modal \in Modals
    /\ modal.open => modal.kind \in Kinds

\* Called failed, with a transaction to show for it, is one that has failed.
TrueFailure(code, t) ==
    code = "TRANSACTION_FAILED" /\ t # 0 => t \in DOMAIN network /\ network[t].status = "FAILED"

\* What the handler knows of its transaction; a reveal opens the salt that is kept for
\* its round until it is confirmed.
HandlerSound ==
    /\ op.step \in {"asked", "nothing", "loading", "signing"} => op.tx = 0
    /\ op.step \in {"polling", "confirmed"} =>
           /\ op.tx \in DOMAIN network
           /\ network[op.tx].kind = op.kind /\ network[op.tx].body = op.body
    /\ op.step = "confirmed" => network[op.tx].status = "SUCCESS"
    /\ op.kind = "REVEAL" /\ op.step \in {"loading", "signing", "polling", "confirmed"} =>
           stored[op.round] = op.body
    /\ op.step = "failed" => TrueFailure(op.code, op.tx)

PageSound ==
    /\ PageTypeOK
    /\ HandlerSound
    /\ modal.state = "ERROR" => TrueFailure(modal.code, modal.tx)

\* What SaltKeptUntilRevealed asks of a step.
SaltsKept ==
    \A r \in Rounds : stored[r] # None /\ stored'[r] # stored[r] =>
        \/ stored'[r] = lastSalt + 1
        \/ \E i \in DOMAIN network :
              network[i].kind = "REVEAL" /\ network[i].body = stored[r]
              /\ network[i].status = "SUCCESS"

LEMMA FailuresStayTrue ==
    ASSUME NEW code, NEW t, NetworkKept, TrueFailure(code, t)
    PROVE  code = "TRANSACTION_FAILED" /\ t # 0 =>
               t \in DOMAIN network' /\ network'[t].status = "FAILED"
BY DEF NetworkKept, TrueFailure

LEMMA IdleIsSound == ASSUME op' = Idle PROVE HandlerSound'
<1>1. op'.step = "idle"
  BY IdleIs
<1> QED BY <1>1 DEF HandlerSound

LEMMA WebStep ==
    ASSUME WebTypeOK, HandlerSound, WebNext
    PROVE  WebTypeOK' /\ HandlerSound' /\ NetworkKept /\ SaltsKept
<1>0. UNCHANGED network => NetworkKept
  BY LenProperties DEF NetworkKept, WebTypeOK
<1>1. UNCHANGED stored => SaltsKept
  BY DEF SaltsKept
<1>2. ASSUME WebTypeOK', NetworkKept, UNCHANGED <<stored, op>>
      PROVE  HandlerSound'
  <2>1. op.step = "failed" => TrueFailure(op.code, op.tx)'
    BY <1>2, FailuresStayTrue DEF HandlerSound, TrueFailure
  <2>2. op.step \in {"polling", "confirmed"} =>
            /\ op.tx \in DOMAIN network' /\ network'[op.tx].kind = op.kind
            /\ network'[op.tx].body = op.body
    BY <1>2 DEF HandlerSound, NetworkKept
  <2>3. op.step = "confirmed" => network'[op.tx].status = "SUCCESS"
    BY <1>2 DEF HandlerSound, NetworkKept
  <2> QED BY <1>2, <2>1, <2>2, <2>3 DEF HandlerSound
<1>3. ASSUME NEW i \in DOMAIN network, Land(i)
      PROVE  WebTypeOK' /\ HandlerSound' /\ NetworkKept /\ SaltsKept
  <2>1. WebTypeOK' /\ NetworkKept
    BY <1>3, LandIs
  <2>2. UNCHANGED <<stored, op>>
    BY <1>3 DEF Land
  <2> QED BY <1>1, <1>2, <2>1, <2>2
<1>4. CASE NextPhase
  BY <1>1, <1>2, <1>4, NextPhaseIs
<1>5. CASE BuildJoin \/ BuildCommit \/ BuildReveal \/ BuildClaim
  <2>1. WebTypeOK' /\ NetworkKept
    BY <1>0, <1>5, BuildsAre
  <2>2. op'.tx = 0 /\ op'.kind = op.kind /\ op'.step \in {"loading", "failed"}
    BY <1>5, BuildsAre DEF HandlerSound
  <2>3. op'.step = "failed" => op'.code # "TRANSACTION_FAILED"
    BY <1>5, BuildsAre
  <2>4. op'.kind = "REVEAL" /\ op'.step = "loading" => stored'[op'.round] = op'.body
    BY <1>5, <2>2, BuildsAre
  <2>5. HandlerSound'
    BY <2>2, <2>3, <2>4 DEF HandlerSound, TrueFailure
  <2>6. SaltsKept
    <3>1. UNCHANGED stored \/ stored' = [stored EXCEPT ![op.round] = lastSalt + 1]
      BY <1>5, BuildsAre
    <3> QED BY <3>1 DEF SaltsKept, WebTypeOK
  <2> QED BY <2>1, <2>5, <2>6
<1>6. CASE LoadAccount \/ Reject
  <2>1. WebTypeOK' /\ NetworkKept /\ SaltsKept
    BY <1>0, <1>1, <1>6, LoadOrRejectIs
  <2>2. op'.tx = 0
    BY <1>6, LoadOrRejectIs DEF HandlerSound
  <2>3. CASE op'.step = "failed"
    BY <2>1, <2>2, <2>3 DEF HandlerSound, TrueFailure
  <2>4. CASE op'.step = "signing"
    <3>1. /\ op'.kind = op.kind /\ op'.body = op.body /\ op'.round = op.round
          /\ op.step = "loading" /\ stored' = stored
      BY <1>6, <2>4, LoadOrRejectIs
    <3> QED BY <2>1, <2>2, <2>4, <3>1 DEF HandlerSound
  <2> QED BY <1>6, <2>1, <2>3, <2>4, LoadOrRejectIs
<1>7. CASE Send
  <2>1. /\ WebTypeOK' /\ NetworkKept /\ SaltsKept /\ op.step = "signing" /\ op'.kind = op.kind
        /\ op.tx = 0
    BY <1>1, <1>7, SendIs DEF HandlerSound
  <2>2. CASE op'.step = "failed"
    <3>1. op'.code # "TRANSACTION_FAILED" \/ op'.tx = 0
      BY <1>7, <2>1, <2>2, SendIs
    <3> QED BY <2>1, <2>2, <3>1 DEF HandlerSound, TrueFailure
  <2>3. CASE op'.step = "polling"
    <3>1. /\ op'.tx \in DOMAIN network' /\ network'[op'.tx] = Transaction
          /\ op'.body = op.body /\ op'.round = op.round /\ stored' = stored
      BY <1>7, <2>3, SendIs
    <3>2. network'[op'.tx].kind = op'.kind /\ network'[op'.tx].body = op'.body
      BY <2>1, <3>1 DEF Transaction
    <3> QED BY <2>1, <2>3, <3>1, <3>2 DEF HandlerSound
  <2> QED BY <1>7, <2>1, <2>2, <2>3, SendIs
<1>8. CASE Poll
  <2>1. /\ WebTypeOK' /\ NetworkKept /\ SaltsKept /\ op.step = "polling" /\ op'.kind = op.kind
        /\ op'.tx = op.tx /\ op.tx \in DOMAIN network /\ network' = network /\ stored' = stored
        /\ network[op.tx].kind = op.kind /\ network[op.tx].body = op.body
    BY <1>0, <1>1, <1>8, PollIs DEF HandlerSound
  <2>2. CASE op'.step = "failed"
    <3>1. op'.code # "TRANSACTION_FAILED" \/ network[op.tx].status = "FAILED"
      BY <1>8, <2>2, PollIs
    <3> QED BY <2>1, <2>2, <3>1 DEF HandlerSound, TrueFailure
  <2>3. CASE op'.step \in {"polling", "confirmed"}
    <3>1. /\ op'.body = op.body /\ op'.round = op.round
          /\ op'.step = "confirmed" => network[op.tx].status = "SUCCESS"
      BY <1>8, <2>3, PollIs
    <3> QED BY <2>1, <2>3, <3>1 DEF HandlerSound
  <2> QED BY <1>8, <2>1, <2>2, <2>3, PollIs
<1> QED BY <1>3, <1>4, <1>5, <1>6, <1>7, <1>8 DEF WebNext

LEMMA WithRoundIs ==
    ASSUME NEW p \in Pages, NEW r \in Rounds, WebTypeOK PROVE WithRound(p, r) \in Pages
BY DEF WithRound, Pages

LEMMA ReadIs ==
    ASSUME NEW p \in Pages, WebTypeOK PROVE Read(p) \in Pages
<1>1. chain.active \in BOOLEAN /\ chain.round \in Rounds
  BY RoundsAre DEF WebTypeOK, Chains
<1>2. [p EXCEPT !.joined = chain.active] \in Pages
  BY <1>1 DEF Pages
<1> QED BY <1>1, <1>2, WithRoundIs DEF Read, ArenaState

LEMMA PageStartIs == PageStart \in Pages
BY RoundsAre DEF PageStart, Pages

LEMMA ModalStartIs ==
    ModalStart \in Modals /\ ~ModalStart.open /\ ModalStart.state = "REVIEW"
BY DEF ModalStart, Modals, Codes

LEMMA PageSoundInit == PageInit => PageSound
<1> SUFFICES ASSUME PageInit PROVE PageSound
  OBVIOUS
<1>1. WebTypeOK /\ op.step = "idle"
  BY WebTypeInit, IdleIs DEF PageInit
<1>2. page \in Pages /\ modal \in Modals /\ ~modal.open /\ modal.state = "REVIEW"
  BY PageStartIs, ModalStartIs DEF PageInit
<1> QED BY <1>1, <1>2 DEF PageSound, PageTypeOK, HandlerSound

LEMMA PageStep ==
    ASSUME PageSound, PageNext
    PROVE  PageSound' /\ SaltsKept
<1> USE DEF PageSound, PageTypeOK
<1>0. UNCHANGED stored => SaltsKept
  BY DEF SaltsKept
<1>1. ASSUME UNCHANGED webVars
      PROVE  WebTypeOK' /\ HandlerSound' /\ SaltsKept
  BY <1>0, <1>1 DEF webVars, WebTypeOK, HandlerSound, TrueFailure
<1>2. ASSUME UNCHANGED <<webVars, modal>>, page' \in Pages
      PROVE  PageSound' /\ SaltsKept
  BY <1>1, <1>2 DEF webVars, TrueFailure
<1>3. ASSUME op' = Idle, UNCHANGED <<chain, network, stored, lastSalt>>
      PROVE  WebTypeOK' /\ HandlerSound' /\ SaltsKept
  BY <1>0, <1>3, IdleIs, IdleIsSound DEF WebTypeOK
<1>4. CASE WebNext /\ UNCHANGED <<page, modal>>
  <2>1. WebTypeOK' /\ HandlerSound' /\ NetworkKept /\ SaltsKept
    BY <1>4, WebStep
  <2>2. modal.state = "ERROR" => TrueFailure(modal.code, modal.tx)'
    BY <1>4, <2>1, FailuresStayTrue DEF TrueFailure
  <2> QED BY <1>4, <2>1, <2>2
<1>5. CASE CloseModal /\ UNCHANGED page
  <2>1. modal' = ModalStart /\ UNCHANGED webVars
    BY <1>5 DEF CloseModal
  <2> QED BY <1>1, <1>5, <2>1, ModalStartIs
<1>6. CASE NothingDone /\ UNCHANGED page
  <2>1. WebTypeOK' /\ HandlerSound' /\ SaltsKept
    BY <1>3, <1>6 DEF NothingDone
  <2>2. /\ modal' \in Modals /\ modal'.open = modal.open /\ modal'.kind = modal.kind
        /\ modal'.state = "SUCCESS"
    BY <1>6 DEF NothingDone, Modals
  <2> QED BY <1>6, <2>1, <2>2
<1>7. CASE Failed /\ UNCHANGED page
  <2>1. WebTypeOK' /\ HandlerSound' /\ SaltsKept
    BY <1>3, <1>7 DEF Failed
  <2>2. op.code \in Codes /\ op.tx \in Nat /\ TrueFailure(op.code, op.tx)
    BY <1>7 DEF Failed, WebTypeOK, Ops, HandlerSound
  <2>3. modal' = [modal EXCEPT !.state = "ERROR", !.code = op.code, !.tx = op.tx]
    BY <1>7 DEF Failed
  <2>4. /\ modal' \in Modals /\ modal'.open = modal.open /\ modal'.kind = modal.kind
        /\ modal'.code = op.code /\ modal'.tx = op.tx
    BY <2>2, <2>3 DEF Modals
  <2>5. TrueFailure(modal.code, modal.tx)'
    BY <1>7, <2>2, <2>4 DEF Failed, TrueFailure
  <2> QED BY <1>7, <2>1, <2>4, <2>5
<1>8. CASE TryAgain /\ UNCHANGED page
  <2>1. /\ modal' \in Modals /\ modal'.open = modal.open /\ modal'.kind = modal.kind
        /\ modal'.state = "REVIEW"
    BY <1>8 DEF TryAgain, Modals, Codes
  <2>2. UNCHANGED webVars
    BY <1>8 DEF TryAgain
  <2> QED BY <1>1, <1>8, <2>1, <2>2
<1>9. CASE Snapshot
  <2>1. PICK r \in Rounds : page' = WithRound(page, r)
    BY <1>9 DEF Snapshot
  <2> QED BY <1>2, <1>9, <2>1, WithRoundIs DEF Snapshot
<1>10. CASE Connect
  <2>1. PICK p \in {page, Read(page)} : page' = [p EXCEPT !.wallet = TRUE]
    BY <1>10 DEF Connect
  <2>2. p \in Pages
    BY <2>1, ReadIs
  <2>3. page' \in Pages
    BY <2>1, <2>2 DEF Pages
  <2> QED BY <1>2, <1>10, <2>3 DEF Connect
<1>11. CASE TimeUp \/ Choose
  <2>1. page' \in Pages
    BY <1>11 DEF TimeUp, Choose, Pages
  <2> QED BY <1>2, <1>11, <2>1 DEF TimeUp, Choose
<1>12. CASE Reload
  <2>1. WebTypeOK' /\ HandlerSound' /\ SaltsKept
    BY <1>3, <1>12 DEF Reload
  <2>2. page' = PageStart /\ modal' = ModalStart
    BY <1>12 DEF Reload
  <2> QED BY <2>1, <2>2, PageStartIs, ModalStartIs
<1>13. CASE Proceed
  <2>1. page.round + 1 \in Rounds /\ page' = WithRound(page, page.round + 1)
    BY <1>13, WebConstants DEF Proceed, Pages, Rounds
  <2> QED BY <1>2, <1>13, <2>1, WithRoundIs DEF Proceed
<1>14. CASE ConfirmOnPage
  <2>1. modal.kind \in Kinds /\ page' = page /\ UNCHANGED <<chain, network, stored, lastSalt>>
    BY <1>14 DEF ConfirmOnPage, Confirm
  <2>2. PICK s, r : /\ s = IF NothingToDo THEN "nothing" ELSE "asked"
                    /\ r = IF modal.kind \in {"COMMIT", "REVEAL"} THEN page.round ELSE 0
    OBVIOUS
  <2>3. op' = [Idle EXCEPT !.step = s, !.kind = modal.kind, !.round = r, !.body = None]
    BY <1>14, <2>2 DEF ConfirmOnPage, Confirm
  <2>4. s \in {"asked", "nothing"} /\ r \in Rounds
    BY <2>2, RoundsAre DEF Pages
  <2>5. op' \in Ops /\ op'.step = s /\ op'.kind = modal.kind /\ op'.tx = 0
    BY <2>1, <2>3, <2>4, IdleIs DEF Ops, Steps, Bodies
  <2>6. WebTypeOK' /\ HandlerSound' /\ SaltsKept
    BY <1>0, <2>1, <2>4, <2>5 DEF WebTypeOK, HandlerSound
  <2>7. modal' = [modal EXCEPT !.state = "SIGNING"]
    BY <1>14 DEF ConfirmOnPage, Confirm
  <2>8. modal' \in Modals /\ modal'.kind = modal.kind /\ modal'.state = "SIGNING"
    BY <2>7 DEF Modals
  <2> QED BY <2>1, <2>6, <2>8
<1>15. ASSUME NEW kind \in Kinds, OpenModal(kind) PROVE PageSound' /\ SaltsKept
  <2>1. modal' = [ModalStart EXCEPT !.open = TRUE, !.kind = kind, !.details = None]
    BY <1>15 DEF OpenModal, Review
  <2>2. modal' \in Modals /\ modal'.kind = kind /\ modal'.state = "REVIEW"
    BY <2>1, ModalStartIs DEF Modals
  <2>3. UNCHANGED webVars /\ page' = page
    BY <1>15 DEF OpenModal
  <2> QED BY <1>1, <2>2, <2>3
<1>16. CASE AfterConfirmation
  <2>1. /\ op.step = "confirmed" /\ "refreshing" \in Steps
        /\ UNCHANGED <<chain, network, lastSalt, modal>>
    BY <1>16 DEF AfterConfirmation, Steps
  <2>2. op' \in Ops /\ op'.step = "refreshing" /\ op'.kind \in Kinds
    BY <1>16, <2>1, GotoIs DEF AfterConfirmation
  <2>3. stored' = IF op.kind = "REVEAL" THEN [stored EXCEPT ![op.round] = None] ELSE stored
    BY <1>16 DEF AfterConfirmation
  <2>4. stored' \in [Rounds -> Bodies]
    BY <2>3 DEF WebTypeOK, Bodies
  <2>5. page' \in Pages
    <3>1. page' \in {page, [page EXCEPT !.hasCommitted = TRUE],
                    [page EXCEPT !.hasCommitted = FALSE]}
      BY <1>16 DEF AfterConfirmation
    <3> QED BY <3>1 DEF Pages
  <2>6. WebTypeOK' /\ HandlerSound'
    BY <2>1, <2>2, <2>4 DEF WebTypeOK, HandlerSound
  <2>7. SaltsKept
    <3>1. CASE op.kind # "REVEAL"
      BY <1>0, <2>3, <3>1
    <3>2. CASE op.kind = "REVEAL"
      <4>1. /\ op.tx \in DOMAIN network /\ network[op.tx].kind = "REVEAL"
            /\ network[op.tx].body = op.body /\ network[op.tx].status = "SUCCESS"
            /\ stored[op.round] = op.body
        BY <2>1, <3>2 DEF HandlerSound
      <4>2. \A r \in Rounds : r # op.round => stored'[r] = stored[r]
        BY <2>3 DEF WebTypeOK
      <4> QED BY <4>1, <4>2 DEF SaltsKept
    <3> QED BY <3>1, <3>2
  <2> QED BY <2>1, <2>5, <2>6, <2>7 DEF TrueFailure
<1>17. CASE Refreshed
  <2>1. WebTypeOK' /\ HandlerSound' /\ SaltsKept
    BY <1>3, <1>17 DEF Refreshed
  <2>2. page' \in Pages /\ modal' = ModalStart
    BY <1>17, ReadIs DEF Refreshed
  <2> QED BY <2>1, <2>2, ModalStartIs
<1> QED
  BY <1>4, <1>5, <1>6, <1>7, <1>8, <1>9, <1>10, <1>11, <1>12, <1>13, <1>14, <1>15, <1>16, <1>17
     DEF PageNext, ModalNext, Kinds

LEMMA PageStutter == PageSound /\ UNCHANGED pageVars => PageSound'
BY DEF PageSound, PageTypeOK, WebTypeOK, HandlerSound, TrueFailure, pageVars, webVars

\* What the page's dialog reports as failed cannot succeed later (submitSignedTransaction).
THEOREM ReportedFailuresAreFinal == PageSpec => []PageFailedMeansFailed
<1>1. PageSound /\ [PageNext]_pageVars => PageSound'
  BY PageStep, PageStutter
<1>2. PageSound => PageFailedMeansFailed
  BY DEF PageSound, TrueFailure, PageFailedMeansFailed, FailedMeansFailed
<1> QED BY <1>1, <1>2, PageSoundInit, PTL DEF PageSpec

\* A salt kept for a round gives way only to another commitment's, or goes after its
\* reveal has succeeded (commit-reveal.ts clearCommitment, page.tsx onConfirm).
THEOREM SaltsStayUntilRevealed == PageSpec => SaltKeptUntilRevealed
<1>1. PageSound /\ [PageNext]_pageVars => PageSound'
  BY PageStep, PageStutter
<1>2. PageSound /\ [PageNext]_pageVars
          => [\A r \in Rounds : stored[r] # None /\ stored'[r] # stored[r] =>
                 \/ stored'[r] = lastSalt + 1
                 \/ \E i \in DOMAIN network :
                       network[i].kind = "REVEAL" /\ network[i].body = stored[r]
                       /\ network[i].status = "SUCCESS"]_pageVars
  BY PageStep DEF SaltsKept
<1> QED BY <1>1, <1>2, PageSoundInit, PTL DEF PageSpec, SaltKeptUntilRevealed

-----------------------------------------------------------------------------
\* The lobby's form for a choice

ChoiceForms == [phase : {"idle", "signing", "submitted", "error"}, open : BOOLEAN, round : Rounds,
            sent : Rounds]

\* The transaction of a handler comes after every other one on the network; when it has
\* succeeded none of them can land any more.
SentLast ==
    /\ op.step \in {"signing", "polling", "confirmed"} =>
           /\ op.seq <= chain.seq + 1
           /\ \A t \in DOMAIN network : network[t].seq <= op.seq
    /\ op.step \in {"polling", "confirmed"} =>
           /\ op.tx \in DOMAIN network
           /\ network[op.tx].body = op.body /\ network[op.tx].seq = op.seq
           /\ network[op.tx].status = "SUCCESS" =>
                  op.seq <= chain.seq /\ chain.committed \in {None, op.body}
    /\ op.step = "confirmed" => network[op.tx].status = "SUCCESS"

\* The handler keeps the salt it commits to for the round the form was sent for.
KeepsItsSalt ==
    /\ op.step # "idle" => choice.phase = "signing" /\ op.kind = "COMMIT"
    /\ op.step \in {"asked", "loading", "signing", "polling", "confirmed"} => op.round = choice.sent
    /\ op.step \in {"loading", "signing", "polling", "confirmed"} => stored[op.round] = op.body

SubmittedSound ==
    choice.phase = "submitted" =>
        /\ op.step = "idle"
        /\ chain.committed \in {None, stored[choice.sent]}
        /\ \A t \in DOMAIN network : network[t].seq <= chain.seq

ChoiceSound ==
    /\ WebTypeOK
    /\ choice \in ChoiceForms
    /\ \A t \in DOMAIN network : network[t].kind = "COMMIT" /\ network[t].seq <= chain.seq + 1
    /\ op.step \notin {"nothing", "refreshing"}
    /\ SentLast
    /\ KeepsItsSalt
    /\ SubmittedSound

LEMMA ChoiceSoundInit == ChoiceInit => ChoiceSound
<1> SUFFICES ASSUME ChoiceInit PROVE ChoiceSound
  OBVIOUS
<1>1. WebTypeOK /\ op.step = "idle" /\ network = << >>
  BY WebTypeInit, IdleIs DEF ChoiceInit
<1>2. choice \in ChoiceForms /\ choice.phase = "idle"
  BY RoundsAre DEF ChoiceInit, ChoiceForms
<1>3. DOMAIN network = {}
  BY <1>1
<1> QED BY <1>1, <1>2, <1>3 DEF ChoiceSound, SentLast, KeepsItsSalt, SubmittedSound

LEMMA ChoiceStep == ChoiceSound /\ [ChoiceNext]_choiceVars => ChoiceSound'
<1> SUFFICES ASSUME ChoiceSound, [ChoiceNext]_choiceVars PROVE ChoiceSound'
  OBVIOUS
<1> USE DEF ChoiceSound
<1>0. /\ chain.seq \in Nat /\ op.seq \in Nat
      /\ \A t \in DOMAIN network : network[t] \in Txs /\ network[t].seq \in Nat
  <2>1. \A t \in DOMAIN network : network[t] \in Txs
    BY DEF WebTypeOK
  <2> QED BY <2>1 DEF WebTypeOK, Chains, Ops, Txs
<1>1. ASSUME NEW i \in DOMAIN network, Land(i), UNCHANGED choice
      PROVE  ChoiceSound'
  <2>1. /\ WebTypeOK' /\ NetworkKept /\ DOMAIN network' = DOMAIN network
        /\ chain'.seq = chain.seq + 1 /\ network[i].seq = chain.seq + 1
        /\ \A t \in DOMAIN network : t # i => network'[t] = network[t]
        /\ IF network'[i].status = "SUCCESS" THEN chain'.committed = network[i].body
                                             ELSE chain'.committed = chain.committed
        /\ network[i].status = "pending"
    BY <1>1, LandIs DEF Land
  <2>2. UNCHANGED <<stored, op>>
    BY <1>1 DEF Land
  <2>3. \A t \in DOMAIN network : /\ network'[t].kind = network[t].kind
                                  /\ network'[t].body = network[t].body
                                  /\ network'[t].seq = network[t].seq
                                  /\ network[t].status # "pending" =>
                                         network'[t].status = network[t].status
    BY <2>1 DEF NetworkKept
  <2>4. SentLast'
    <3>1. CASE op.step = "signing"
      BY <1>0, <2>1, <2>2, <2>3, <3>1 DEF SentLast
    <3>2. CASE op.step \in {"polling", "confirmed"}
      <4>1. /\ op.tx \in DOMAIN network /\ network[op.tx].body = op.body
            /\ network[op.tx].seq = op.seq /\ op.seq <= chain.seq + 1
            /\ \A t \in DOMAIN network : network[t].seq <= op.seq
        BY <3>2 DEF SentLast
      <4>2. network[i].seq <= op.seq
        BY <4>1
      <4>3. op.seq = chain.seq + 1 /\ network[op.tx].status # "SUCCESS"
        BY <1>0, <2>1, <3>2, <4>1, <4>2 DEF SentLast
      <4>4. op.step = "polling"
        BY <3>2, <4>3 DEF SentLast
      <4>5. network'[op.tx].status = "SUCCESS" => op.tx = i
        BY <2>1, <4>1, <4>3
      <4>6. network'[op.tx].status = "SUCCESS" => op.seq <= chain'.seq /\ chain'.committed = op.body
        BY <1>0, <2>1, <4>1, <4>3, <4>5
      <4>7. op.seq <= chain'.seq + 1
        BY <1>0, <2>1, <4>3
      <4> QED BY <2>1, <2>2, <2>3, <4>1, <4>4, <4>6, <4>7 DEF SentLast
    <3>3. CASE op.step \notin {"signing", "polling", "confirmed"}
      BY <2>2, <3>3 DEF SentLast
    <3> QED BY <3>1, <3>2, <3>3
  <2>5. KeepsItsSalt'
    BY <1>1, <2>2 DEF KeepsItsSalt
  <2>6. choice.phase # "submitted"
    BY <1>0, <2>1 DEF SubmittedSound
  <2>7. \A t \in DOMAIN network' : network'[t].kind = "COMMIT" /\ network'[t].seq <= chain'.seq + 1
    <3> SUFFICES ASSUME NEW t \in DOMAIN network
                 PROVE  network'[t].kind = "COMMIT" /\ network'[t].seq <= chain'.seq + 1
      BY <2>1
    <3>1. network[t].seq \in Nat /\ network[t].seq <= chain.seq + 1
      BY <1>0
    <3> QED BY <1>0, <2>1, <2>3, <3>1
  <2> QED BY <1>1, <2>1, <2>2, <2>4, <2>5, <2>6, <2>7 DEF SubmittedSound
<1>2. CASE NextPhase /\ UNCHANGED choice
  <2>1. /\ WebTypeOK' /\ UNCHANGED <<network, stored, op>> /\ chain'.seq = chain.seq
        /\ chain'.committed \in {chain.committed, None}
    BY <1>2, NextPhaseIs
  <2>2. SentLast'
    BY <2>1 DEF SentLast
  <2>3. KeepsItsSalt' /\ SubmittedSound'
    BY <1>2, <2>1 DEF KeepsItsSalt, SubmittedSound
  <2> QED BY <1>2, <2>1, <2>2, <2>3
<1>3. CASE BuildCommit /\ UNCHANGED choice
  <2>1. /\ WebTypeOK' /\ UNCHANGED <<chain, network>> /\ op.step = "asked" /\ op.kind = "COMMIT"
        /\ op'.kind = "COMMIT" /\ op'.step \in {"loading", "failed"}
    BY <1>3, BuildsAre DEF BuildCommit
  <2>2. \/ op'.step = "failed"
        \/ /\ op'.step = "loading" /\ op'.round = op.round /\ op'.body = lastSalt + 1
           /\ stored' = [stored EXCEPT ![op.round] = lastSalt + 1]
    BY <1>3, <2>1, BuildsAre
  <2>3. SentLast'
    BY <2>1 DEF SentLast
  <2>4. choice.phase = "signing" /\ op.round = choice.sent
    BY <2>1 DEF KeepsItsSalt
  <2>5. KeepsItsSalt'
    <3>1. op.round \in Rounds /\ stored \in [Rounds -> Bodies]
      BY DEF WebTypeOK, Ops
    <3> QED BY <1>3, <2>1, <2>2, <2>4, <3>1 DEF KeepsItsSalt
  <2> QED BY <1>3, <2>1, <2>3, <2>4, <2>5 DEF SubmittedSound
<1>4. CASE (LoadAccount \/ Reject) /\ UNCHANGED choice
  <2>1. /\ WebTypeOK' /\ UNCHANGED <<chain, network, stored>>
        /\ op.step \in {"loading", "signing"} /\ op'.kind = op.kind
        /\ \/ op'.step = "failed"
           \/ /\ op.step = "loading" /\ op'.step = "signing" /\ op'.seq = chain.seq + 1
              /\ op'.body = op.body /\ op'.round = op.round
    BY <1>4, LoadOrRejectIs
  <2>2. SentLast'
    BY <1>0, <2>1 DEF SentLast
  <2>3. KeepsItsSalt' /\ choice.phase = "signing"
    BY <1>4, <2>1 DEF KeepsItsSalt
  <2> QED BY <1>4, <2>1, <2>2, <2>3 DEF SubmittedSound
<1>5. CASE Send /\ UNCHANGED choice
  <2>1. /\ WebTypeOK' /\ UNCHANGED <<chain, stored>> /\ op.step = "signing" /\ op'.kind = op.kind
        /\ op.kind = "COMMIT" /\ choice.phase = "signing"
        /\ op.seq <= chain.seq + 1 /\ \A t \in DOMAIN network : network[t].seq <= op.seq
    BY <1>5, SendIs DEF SentLast, KeepsItsSalt
  <2>2. \/ network' = network /\ op'.step = "failed"
        \/ /\ DOMAIN network' = DOMAIN network \cup {Len(network')}
           /\ \A t \in DOMAIN network : network'[t] = network[t]
           /\ network'[Len(network')] = Transaction
           /\ Len(network') \notin DOMAIN network
           /\ \/ op'.step = "failed"
              \/ /\ op'.step = "polling" /\ op'.tx = Len(network') /\ op'.body = op.body
                 /\ op'.round = op.round /\ op'.seq = op.seq
    BY <1>5, SendIs
  <2>3. /\ Transaction.kind = op.kind /\ Transaction.body = op.body /\ Transaction.seq = op.seq
        /\ Transaction.status = "pending"
    BY DEF Transaction
  <2>4. \A t \in DOMAIN network' : /\ network'[t].kind = "COMMIT"
                                   /\ network'[t].seq <= op.seq /\ network'[t].seq <= chain.seq + 1
    BY <1>0, <2>1, <2>2, <2>3
  <2>5. SentLast'
    BY <2>1, <2>2, <2>3, <2>4 DEF SentLast
  <2>6. KeepsItsSalt' /\ op'.step \in {"polling", "failed"}
    BY <1>5, <2>1, <2>2 DEF KeepsItsSalt
  <2> QED BY <1>5, <2>1, <2>4, <2>5, <2>6 DEF SubmittedSound
<1>6. CASE Poll /\ UNCHANGED choice
  <2>1. /\ WebTypeOK' /\ UNCHANGED <<chain, network, stored>> /\ op.step = "polling"
        /\ op'.kind = op.kind /\ op'.tx = op.tx
        /\ \/ op'.step = "failed"
           \/ /\ op'.step \in {"polling", "confirmed"}
              /\ op'.step = "confirmed" => network[op.tx].status = "SUCCESS"
              /\ op'.body = op.body /\ op'.round = op.round /\ op'.seq = op.seq
    BY <1>6, PollIs
  <2>2. SentLast'
    BY <2>1 DEF SentLast
  <2>3. KeepsItsSalt' /\ choice.phase = "signing"
    BY <1>6, <2>1 DEF KeepsItsSalt
  <2> QED BY <1>6, <2>1, <2>2, <2>3 DEF SubmittedSound
<1>7. CASE StatsShown
  <2>1. /\ UNCHANGED webVars /\ choice' \in ChoiceForms
        /\ choice'.phase = choice.phase /\ choice'.sent = choice.sent
    BY <1>7 DEF StatsShown, ChoiceForms
  <2> QED BY <2>1 DEF webVars, WebTypeOK, SentLast, KeepsItsSalt, SubmittedSound
<1>8. CASE Submit
  <2>0. UNCHANGED <<chain, network, stored, lastSalt>> /\ op.step = "idle"
    BY <1>8 DEF Submit, isLocked, KeepsItsSalt
  <2>1. CASE /\ choice' = [choice EXCEPT !.phase = "signing", !.sent = choice.round]
             /\ op' = [Idle EXCEPT !.step = "asked", !.kind = "COMMIT", !.round = choice.round]
    <3>1. choice.round \in Rounds
      BY DEF ChoiceForms
    <3>2. /\ choice' \in ChoiceForms /\ choice'.phase = "signing" /\ choice'.sent = choice.round
      BY <2>1, <3>1 DEF ChoiceForms
    <3>3. op' \in Ops /\ op'.step = "asked" /\ op'.kind = "COMMIT" /\ op'.round = choice.round
      BY <2>1, <3>1, IdleIs DEF Ops, Steps, Kinds
    <3>4. WebTypeOK'
      BY <2>0, <3>3 DEF WebTypeOK, Kinds
    <3>5. SentLast' /\ KeepsItsSalt' /\ SubmittedSound'
      BY <3>2, <3>3 DEF SentLast, KeepsItsSalt, SubmittedSound
    <3> QED BY <2>0, <3>2, <3>3, <3>4, <3>5
  <2>2. CASE choice' = [choice EXCEPT !.phase = "error"] /\ UNCHANGED op
    <3>1. choice' \in ChoiceForms /\ choice'.phase = "error"
      BY <2>2 DEF ChoiceForms
    <3> QED BY <2>0, <2>2, <3>1 DEF WebTypeOK, SentLast, KeepsItsSalt, SubmittedSound
  <2> QED BY <1>8, <2>1, <2>2 DEF Submit
<1>9. ASSUME op' = Idle, UNCHANGED <<chain, network, stored, lastSalt>>, choice' \in ChoiceForms,
             choice'.phase # "submitted"
      PROVE  ChoiceSound'
  <2>1. op' \in Ops /\ op'.step = "idle"
    BY <1>9, IdleIs
  <2> QED BY <1>9, <2>1 DEF WebTypeOK, SentLast, KeepsItsSalt, SubmittedSound
<1>10. CASE Submitted
  <2>1. /\ op.step = "confirmed" /\ op' = Idle /\ UNCHANGED <<chain, network, stored, lastSalt>>
        /\ choice' = [choice EXCEPT !.phase = "submitted"]
    BY <1>10 DEF Submitted
  <2>2. choice' \in ChoiceForms /\ choice'.phase = "submitted" /\ choice'.sent = choice.sent
    BY <2>1 DEF ChoiceForms
  <2>3. /\ op.round = choice.sent /\ stored[op.round] = op.body
        /\ op.seq <= chain.seq /\ chain.committed \in {None, op.body}
        /\ \A t \in DOMAIN network : network[t].seq <= op.seq
    BY <2>1 DEF SentLast, KeepsItsSalt
  <2>4. \A t \in DOMAIN network : network[t].seq <= chain.seq
    BY <1>0, <2>3
  <2>5. op' \in Ops /\ op'.step = "idle"
    BY <2>1, IdleIs
  <2>6. WebTypeOK'
    BY <2>1, <2>5 DEF WebTypeOK
  <2>7. SentLast' /\ KeepsItsSalt'
    BY <2>5 DEF SentLast, KeepsItsSalt
  <2>8. SubmittedSound'
    BY <2>1, <2>2, <2>3, <2>4, <2>5 DEF SubmittedSound
  <2> QED BY <2>1, <2>2, <2>5, <2>6, <2>7, <2>8
<1>11. CASE SubmitFailed
  <2>1. choice' \in ChoiceForms /\ choice'.phase = "error"
    BY <1>11 DEF SubmitFailed, ChoiceForms
  <2> QED BY <1>9, <1>11, <2>1 DEF SubmitFailed
<1>12. CASE Reopen
  <2>1. choice' \in ChoiceForms /\ choice'.phase = "idle"
    BY <1>12, RoundsAre DEF Reopen, ChoiceForms
  <2> QED BY <1>9, <1>12, <2>1 DEF Reopen
<1>13. CASE UNCHANGED choiceVars
  BY <1>13 DEF choiceVars, webVars, WebTypeOK, SentLast, KeepsItsSalt, SubmittedSound
<1> QED
  BY <1>1, <1>2, <1>3, <1>4, <1>5, <1>6, <1>7, <1>8, <1>10, <1>11, <1>12, <1>13 DEF ChoiceNext

\* A form that says "submitted" keeps the salt of the commitment the contract holds
\* (ChoiceSubmission.tsx handleSubmit over the builder's saveCommitment).
THEOREM SubmittedStaysRevealable == ChoiceSpec => []SubmittedCanBeRevealed
<1>1. ChoiceSound => SubmittedCanBeRevealed
  BY DEF ChoiceSound, SubmittedSound, SubmittedCanBeRevealed
<1> QED BY <1>1, ChoiceSoundInit, ChoiceStep, PTL DEF ChoiceSpec

-----------------------------------------------------------------------------
\* The host's dashboard

\* What a closed form says, of the one that was under review.
ResetOf(details) == [DefaultForm EXCEPT !.currency = details.currency]

HostShapes ==
    /\ op = [step |-> op.step, kind |-> op.kind, round |-> op.round, body |-> op.body,
             seq |-> op.seq, tx |-> op.tx, polls |-> op.polls, code |-> op.code]
    /\ modal = [open |-> modal.open, state |-> modal.state, kind |-> modal.kind,
                details |-> modal.details, code |-> modal.code, tx |-> modal.tx]
    /\ host = [staked |-> host.staked, poolOpen |-> host.poolOpen, form |-> host.form,
               stakeOpen |-> host.stakeOpen, stakeState |-> host.stakeState,
               closing |-> host.closing]

\* While the dialog is open the form behind it is the one under review, or was closed.
FormBehind ==
    modal.open => modal.kind = "CREATE" /\ host.form \in {modal.details, ResetOf(modal.details)}

\* A pool that is being created keeps its dialog open, and is what the dialog shows.
BuildsWhatIsShown ==
    op.kind = "CREATE" /\ op.step # "failed" =>
        /\ modal.open /\ modal.state = "SIGNING"
        /\ op.body \in {modal.details, ResetOf(modal.details)}

HostSound == HostShapes /\ FormBehind /\ BuildsWhatIsShown

LEMMA IdleShape ==
    Idle = [step |-> "idle", kind |-> None, round |-> 0, body |-> None, seq |-> 0, tx |-> 0,
            polls |-> 0, code |-> None]
BY DEF Idle

LEMMA ResetIs ==
    ASSUME NEW d, NEW f \in {d, ResetOf(d)}
    PROVE  [DefaultForm EXCEPT !.currency = f.currency] = ResetOf(d)
<1>1. ResetOf(d).currency = d.currency
  BY FormAssumption DEF ResetOf
<1> QED BY <1>1 DEF ResetOf

LEMMA HandlerKeeps ==
    ASSUME HostShapes, LoadAccount \/ Reject \/ Send \/ Poll
    PROVE  /\ op' = [step |-> op'.step, kind |-> op'.kind, round |-> op'.round, body |-> op'.body,
                     seq |-> op'.seq, tx |-> op'.tx, polls |-> op'.polls, code |-> op'.code]
           /\ op'.kind = op.kind /\ op.step # "failed"
           /\ op'.step # "failed" => op'.body = op.body
<1>0. op.step # "failed"
  BY DEF LoadAccount, Reject, Send, Poll
<1> DEFINE Failing == \E code, t : op' = Failure(code, t)
           Moving == \E step, seq, tx, polls :
                        op' = [op EXCEPT !.step = step, !.seq = seq, !.tx = tx, !.polls = polls]
<1>1. CASE Failing
  <2>1. PICK code, t : op' = Failure(code, t)
    BY <1>1
  <2>2. op' = [step |-> "failed", kind |-> op.kind, round |-> 0, body |-> None, seq |-> 0,
               tx |-> t, polls |-> 0, code |-> code]
    BY <2>1, IdleShape DEF Failure
  <2> QED BY <1>0, <2>2
<1>2. CASE Moving
  <2>1. PICK step, seq, tx, polls :
            op' = [op EXCEPT !.step = step, !.seq = seq, !.tx = tx, !.polls = polls]
    BY <1>2
  <2>2. op' = [step |-> step, kind |-> op.kind, round |-> op.round, body |-> op.body,
               seq |-> seq, tx |-> tx, polls |-> polls, code |-> op.code]
    BY <2>1 DEF HostShapes
  <2> QED BY <1>0, <2>2
<1>3. \/ Failing
      \/ op' = [op EXCEPT !.step = "signing", !.seq = chain.seq + 1]
      \/ op' = [op EXCEPT !.step = "polling", !.tx = Len(network')]
      \/ op' = [op EXCEPT !.step = "confirmed"]
      \/ op' = [op EXCEPT !.polls = @ + 1]
  <2>1. LoadAccount \/ Reject =>
            Failing \/ op' = [op EXCEPT !.step = "signing", !.seq = chain.seq + 1]
    BY DEF LoadAccount, Reject, Fail
  <2>2. Send => Failing \/ op' = [op EXCEPT !.step = "polling", !.tx = Len(network')]
    BY DEF Send, Fail
  <2>3. Poll => \/ Failing
                \/ op' = [op EXCEPT !.step = "confirmed"]
                \/ op' = [op EXCEPT !.polls = @ + 1]
    BY DEF Poll, Goto, Fail, AfterLastPoll
  <2> HIDE DEF Failing
  <2> QED BY <2>1, <2>2, <2>3
<1>4. ASSUME ~Failing PROVE Moving
  <2> HIDE DEF Failing
  <2>1. CASE op' = [op EXCEPT !.step = "signing", !.seq = chain.seq + 1]
    <3>1. op' = [op EXCEPT !.step = "signing", !.seq = chain.seq + 1, !.tx = op.tx,
                           !.polls = op.polls]
      BY <2>1 DEF HostShapes
    <3> QED BY <3>1, Zenon
  <2>2. CASE op' = [op EXCEPT !.step = "polling", !.tx = Len(network')]
    <3>1. op' = [op EXCEPT !.step = "polling", !.seq = op.seq, !.tx = Len(network'),
                           !.polls = op.polls]
      BY <2>2 DEF HostShapes
    <3> QED BY <3>1, Zenon
  <2>3. CASE op' = [op EXCEPT !.step = "confirmed"]
    <3>1. op' = [op EXCEPT !.step = "confirmed", !.seq = op.seq, !.tx = op.tx, !.polls = op.polls]
      BY <2>3 DEF HostShapes
    <3> QED BY <3>1, Zenon
  <2>4. CASE op' = [op EXCEPT !.polls = @ + 1]
    <3>1. op' = [op EXCEPT !.step = op.step, !.seq = op.seq, !.tx = op.tx, !.polls = op.polls + 1]
      BY <2>4 DEF HostShapes
    <3> QED BY <3>1, Zenon
  <2> QED BY <1>3, <1>4, <2>1, <2>2, <2>3, <2>4
<1> HIDE DEF Failing, Moving
<1> QED BY <1>1, <1>2, <1>4

LEMMA HostSoundInit == HostInit => HostSound
<1> SUFFICES ASSUME HostInit PROVE HostSound
  OBVIOUS
<1>1. op = Idle /\ modal = ModalStart
  BY DEF HostInit, WebInit
<1>2. host = [staked |-> host.staked, poolOpen |-> host.poolOpen, form |-> host.form,
              stakeOpen |-> host.stakeOpen, stakeState |-> host.stakeState,
              closing |-> host.closing]
  BY DEF HostInit
<1>3. /\ op = [step |-> op.step, kind |-> op.kind, round |-> op.round, body |-> op.body,
               seq |-> op.seq, tx |-> op.tx, polls |-> op.polls, code |-> op.code]
      /\ op.step = "idle" /\ op.kind = None
  BY <1>1, IdleShape
<1>4. /\ modal = [open |-> modal.open, state |-> modal.state, kind |-> modal.kind,
                  details |-> modal.details, code |-> modal.code, tx |-> modal.tx]
      /\ ~modal.open
  BY <1>1 DEF ModalStart
<1> QED BY <1>2, <1>3, <1>4, WebConstants DEF HostSound, HostShapes, FormBehind, BuildsWhatIsShown

LEMMA HostStep == HostSound /\ [HostNext]_hostVars => HostSound'
<1> SUFFICES ASSUME HostSound, [HostNext]_hostVars PROVE HostSound'
  OBVIOUS
<1> USE DEF HostSound
\* Nothing of the dialog or of the form changes.
<1>1. ASSUME UNCHANGED modal, HostShapes', host'.form = host.form,
             op'.kind = "CREATE" /\ op'.step # "failed" =>
                 op.kind = "CREATE" /\ op.step # "failed" /\ op'.body = op.body
      PROVE  HostSound'
  BY <1>1 DEF FormBehind, BuildsWhatIsShown
<1>2. CASE (\E i \in DOMAIN network : Land(i)) /\ UNCHANGED <<modal, host>>
  <2>1. UNCHANGED op
    BY <1>2 DEF Land
  <2> QED BY <1>1, <1>2, <2>1 DEF HostShapes
<1>3. CASE (LoadAccount \/ Reject \/ Send \/ Poll) /\ UNCHANGED <<modal, host>>
  <2>1. /\ op'.kind = op.kind /\ op.step # "failed"
        /\ op'.step # "failed" => op'.body = op.body
    BY <1>3, HandlerKeeps
  <2>2. HostShapes'
    BY <1>3, HandlerKeeps DEF HostShapes
  <2> QED BY <1>1, <1>3, <2>1, <2>2
<1>4. CASE CloseModal /\ UNCHANGED host
  <2>1. modal' = ModalStart /\ UNCHANGED <<op, host>> /\ modal.state # "SIGNING"
    BY <1>4 DEF CloseModal, webVars
  <2>2. ~modal'.open /\ HostShapes'
    BY <2>1 DEF ModalStart, HostShapes
  <2> QED BY <2>1, <2>2 DEF FormBehind, BuildsWhatIsShown
<1>5. CASE TryAgain /\ UNCHANGED host
  <2>1. /\ modal' = [modal EXCEPT !.state = "REVIEW", !.code = None, !.tx = 0]
        /\ modal.state = "ERROR" /\ UNCHANGED <<op, host>>
    BY <1>5 DEF TryAgain, webVars
  <2>2. /\ modal'.open = modal.open /\ modal'.kind = modal.kind /\ modal'.details = modal.details
        /\ HostShapes'
    BY <2>1 DEF HostShapes
  <2> QED BY <2>1, <2>2 DEF FormBehind, BuildsWhatIsShown
<1>6. ASSUME op' = Idle PROVE ~(op'.kind = "CREATE") /\ op'.step = "idle"
  BY <1>6, IdleShape, WebConstants
<1>7. CASE Failed /\ op.kind = "CREATE" /\ UNCHANGED host
  <2>1. /\ modal' = [modal EXCEPT !.state = "ERROR", !.code = op.code, !.tx = op.tx]
        /\ op' = Idle
    BY <1>7 DEF Failed
  <2>2. /\ modal'.open = modal.open /\ modal'.kind = modal.kind /\ modal'.details = modal.details
        /\ modal' = [open |-> modal'.open, state |-> modal'.state, kind |-> modal'.kind,
                     details |-> modal'.details, code |-> modal'.code, tx |-> modal'.tx]
    BY <2>1 DEF HostShapes
  <2>3. HostShapes'
    BY <1>7, <2>1, <2>2, IdleShape DEF HostShapes
  <2> QED BY <1>6, <1>7, <2>1, <2>2, <2>3 DEF FormBehind, BuildsWhatIsShown
<1>8. CASE CreateArena \/ CloseStake \/ StakeTimer
  <2>1. UNCHANGED <<op, modal>>
    BY <1>8 DEF CreateArena, CloseStake, StakeTimer, webVars
  <2>2. PICK h \in {[host EXCEPT !.poolOpen = TRUE], [host EXCEPT !.stakeOpen = TRUE],
                   [host EXCEPT !.stakeOpen = FALSE, !.stakeState = "idle"],
                   [host EXCEPT !.closing = FALSE, !.staked = TRUE, !.stakeOpen = FALSE,
                                !.stakeState = "idle", !.poolOpen = TRUE]} : host' = h
    BY <1>8 DEF CreateArena, CloseStake, StakeTimer
  <2>3. host'.form = host.form /\ HostShapes'
    BY <2>1, <2>2 DEF HostShapes
  <2> QED BY <1>1, <2>1, <2>3
<1>9. CASE InitiateStake
  <2>1. /\ host' = [host EXCEPT !.stakeState = "signing"] /\ UNCHANGED modal
        /\ op' = [Idle EXCEPT !.step = "asked", !.kind = "STAKE"]
    BY <1>9 DEF InitiateStake
  <2>2. op' = [step |-> "asked", kind |-> "STAKE", round |-> 0, body |-> None, seq |-> 0, tx |-> 0,
               polls |-> 0, code |-> None]
    BY <2>1, IdleShape
  <2>3. host'.form = host.form /\ HostShapes' /\ op'.kind = "STAKE"
    BY <2>1, <2>2 DEF HostShapes
  <2> QED BY <1>1, <2>1, <2>3
<1>10. CASE BuildStake \/ BuildCreate
  <2>1. UNCHANGED <<modal, host>> /\ op.step = "asked"
    BY <1>10 DEF BuildStake, BuildCreate
  <2>2. op' = [op EXCEPT !.step = "loading"] \/ \E code, t : op' = Failure(code, t)
    BY <1>10 DEF BuildStake, BuildCreate, Goto, Fail
  <2>3. CASE op' = [op EXCEPT !.step = "loading"]
    <3>1. HostShapes' /\ op'.kind = op.kind /\ op'.body = op.body
      BY <2>1, <2>3 DEF HostShapes
    <3> QED BY <1>1, <2>1, <3>1
  <2>4. ASSUME NEW code, NEW t, op' = Failure(code, t) PROVE HostSound'
    <3>1. op' = [step |-> "failed", kind |-> op.kind, round |-> 0, body |-> None, seq |-> 0,
                 tx |-> t, polls |-> 0, code |-> code]
      BY <2>4, IdleShape DEF Failure
    <3>2. HostShapes' /\ op'.step = "failed"
      BY <2>1, <3>1 DEF HostShapes
    <3> QED BY <1>1, <2>1, <3>2
  <2> QED BY <2>2, <2>3, <2>4
<1>11. CASE Staked \/ StakeFailed
  <2>1. op' = Idle /\ UNCHANGED modal
    BY <1>11 DEF Staked, StakeFailed
  <2>2. PICK h \in {[host EXCEPT !.stakeState = "success", !.closing = TRUE],
                   [host EXCEPT !.stakeState = "error"]} : host' = h
    BY <1>11 DEF Staked, StakeFailed
  <2>3. host'.form = host.form /\ HostShapes'
    BY <2>1, <2>2, IdleShape DEF HostShapes
  <2> QED BY <1>1, <1>6, <2>1, <2>3
<1>12. CASE Edit \/ ClosePool
  <2>1. ~modal.open /\ UNCHANGED <<op, modal>>
    BY <1>12 DEF Edit, ClosePool, webVars
  <2>2. HostShapes'
    <3>1. \E p, f : host' = [host EXCEPT !.poolOpen = p, !.form = f]
      <4>1. CASE ClosePool
        BY <4>1 DEF ClosePool
      <4>2. CASE Edit
        <5>1. \E f : host' = [host EXCEPT !.form = f]
          BY <4>2 DEF Edit
        <5>2. PICK f : host' = [host EXCEPT !.form = f]
          BY <5>1
        <5>3. host' = [host EXCEPT !.poolOpen = host.poolOpen, !.form = f]
          BY <5>2 DEF HostShapes
        <5> QED BY <5>3
      <4> QED BY <1>12, <4>1, <4>2
    <3> QED BY <2>1, <3>1 DEF HostShapes
  <2> QED BY <2>1, <2>2 DEF FormBehind, BuildsWhatIsShown
<1>13. CASE InitializeArena
  <2>1. /\ ~modal.open /\ UNCHANGED <<op, host>>
        /\ modal' = [ModalStart EXCEPT !.open = TRUE, !.kind = "CREATE", !.details = host.form]
    BY <1>13 DEF InitializeArena, Review, webVars
  <2>2. HostShapes' /\ modal'.kind = "CREATE" /\ modal'.details = host.form
    BY <2>1 DEF HostShapes, ModalStart
  <2> QED BY <2>1, <2>2 DEF FormBehind, BuildsWhatIsShown
<1>14. CASE Escape
  <2>1. /\ modal.open /\ UNCHANGED op
        /\ host' = [host EXCEPT !.poolOpen = FALSE, !.form = Reset]
        /\ modal' = IF modal.state = "SIGNING" THEN modal ELSE ModalStart
    BY <1>14 DEF Escape, webVars
  <2>2. Reset = ResetOf(modal.details)
    BY <2>1, ResetIs DEF FormBehind, Reset
  <2>3. host'.form = Reset
    BY <2>1 DEF HostShapes
  <2>4. HostShapes'
    BY <2>1 DEF HostShapes, ModalStart
  <2>5. CASE modal.state = "SIGNING"
    BY <2>1, <2>2, <2>3, <2>4, <2>5 DEF FormBehind, BuildsWhatIsShown
  <2>6. CASE modal.state # "SIGNING"
    <3>1. ~modal'.open
      BY <2>1, <2>6 DEF ModalStart
    <3> QED BY <2>1, <2>4, <2>6, <3>1 DEF FormBehind, BuildsWhatIsShown
  <2> QED BY <2>5, <2>6
<1>15. CASE ConfirmPool
  <2>1. /\ modal.open /\ UNCHANGED host /\ modal' = [modal EXCEPT !.state = "SIGNING"]
        /\ op' = [Idle EXCEPT !.step = "asked", !.kind = modal.kind, !.round = 0,
                              !.body = host.form]
    BY <1>15 DEF ConfirmPool, Confirm
  <2>2. op' = [step |-> "asked", kind |-> modal.kind, round |-> 0, body |-> host.form, seq |-> 0,
               tx |-> 0, polls |-> 0, code |-> None]
    BY <2>1, IdleShape
  <2>3. /\ modal'.open /\ modal'.state = "SIGNING" /\ modal'.kind = modal.kind
        /\ modal'.details = modal.details
        /\ modal' = [open |-> modal'.open, state |-> modal'.state, kind |-> modal'.kind,
                     details |-> modal'.details, code |-> modal'.code, tx |-> modal'.tx]
    BY <2>1 DEF HostShapes
  <2>4. HostShapes' /\ op'.body = host.form
    BY <2>1, <2>2, <2>3 DEF HostShapes
  <2> QED BY <2>1, <2>3, <2>4 DEF FormBehind, BuildsWhatIsShown
<1>16. CASE Created
  <2>1. /\ op' = Idle /\ modal' = ModalStart
        /\ host' = [host EXCEPT !.poolOpen = FALSE, !.form = Reset]
    BY <1>16 DEF Created
  <2>2. HostShapes' /\ ~modal'.open
    BY <2>1, IdleShape DEF HostShapes, ModalStart
  <2> QED BY <1>6, <2>1, <2>2 DEF FormBehind, BuildsWhatIsShown
<1>17. CASE UNCHANGED hostVars
  BY <1>1, <1>17 DEF hostVars, webVars, HostShapes
<1> QED
  BY <1>2, <1>3, <1>4, <1>5, <1>7, <1>8, <1>9, <1>10, <1>11, <1>12, <1>13, <1>14, <1>15, <1>16,
     <1>17 DEF HostNext

\* The figures a confirmation builds are the ones under review, or those of a form that
\* was closed behind the dialog (PoolCreationModal.tsx onConfirm).
THEOREM ReviewedIsAlwaysBuilt == HostSpec => []ReviewedIsBuilt
<1>1. HostSound => ReviewedIsBuilt
  BY DEF HostSound, BuildsWhatIsShown, ReviewedIsBuilt, ResetOf
<1> QED BY <1>1, HostSoundInit, HostStep, PTL DEF HostSpec

-----------------------------------------------------------------------------
\* The lobby's list

\* The rows of round r after place c, up to place n, are in S.
RowsIn(S, r, c, n) == \A i \in Nat : c < i /\ i <= n => <<r, i>> \in S

\* An answer cut from the list of a round at cursor c: its rows go up to the next cursor,
\* or to the end.
AnswerTo(a, c) ==
    /\ a.round \in Nat \ {0} /\ a.total \in Nat /\ a.hasMore \in BOOLEAN
    /\ a.hasMore <=> a.next # NoCursor
    /\ IF a.hasMore THEN a.next \in Nat \ {0} /\ RowsIn(a.items, a.round, c, a.next)
                    ELSE RowsIn(a.items, a.round, c, a.total)

\* A later page was asked for only when the round's rows up to its cursor were shown.
RequestSound(q, shown) ==
    /\ q = [slot |-> q.slot, cursor |-> q.cursor, answer |-> q.answer, from |-> q.from]
    /\ q.cursor \in Nat /\ q.from \in Nat
    /\ q.answer # NoCursor => AnswerTo(q.answer, q.cursor)
    /\ q.cursor # 0 /\ q.from # 0 => RowsIn(shown, q.from, 0, q.cursor)

ListSound(l) ==
    /\ l = [shown |-> l.shown, next |-> l.next, hasMore |-> l.hasMore, open |-> l.open,
            of |-> l.of, straight |-> l.straight]
    /\ l.of.round \in Nat \ {0} /\ l.of.total \in Nat /\ l.hasMore \in BOOLEAN
    /\ l.straight \in BOOLEAN
    /\ l.hasMore <=> l.next # NoCursor
    /\ l.hasMore => l.next \in Nat \ {0}
    /\ l.straight =>
           RowsIn(l.shown, l.of.round, 0, IF l.hasMore THEN l.next ELSE l.of.total)

LobbySound ==
    /\ board \in [round : Nat \ {0}, rows : Nat]
    /\ ListSound(lobby)
    /\ \A q \in requests : RequestSound(q, lobby.shown)

LEMMA AnswerIs ==
    ASSUME board \in [round : Nat \ {0}, rows : Nat], NEW c \in Nat
    PROVE  AnswerTo(Answer(c), c)
<1> DEFINE more == c + PageRows < board.rows
           items == {<<board.round, i>> : i \in {j \in 1 .. board.rows :
                                                     j > c /\ j <= c + PageRows}}
           a == Answer(c)
<1>1. /\ board.round \in Nat \ {0} /\ board.rows \in Nat
      /\ PageRows \in Nat \ {0} /\ NoCursor \notin Nat
  BY LobbyConstants
<1>2. /\ a.round = board.round /\ a.total = board.rows /\ a.hasMore = more
      /\ a.next = (IF more THEN c + PageRows ELSE NoCursor) /\ a.items = items
  BY DEF Answer
<1>3. more \in BOOLEAN /\ c + PageRows \in Nat \ {0}
  BY <1>1
<1>4. more => RowsIn(items, board.round, c, c + PageRows)
  BY <1>1 DEF RowsIn
<1>5. ~more => RowsIn(items, board.round, c, board.rows)
  BY <1>1 DEF RowsIn
<1> HIDE DEF more, items, a
<1>6. a.hasMore <=> a.next # NoCursor
  BY <1>1, <1>2, <1>3
<1>7. IF a.hasMore THEN a.next \in Nat \ {0} /\ RowsIn(a.items, a.round, c, a.next)
                   ELSE RowsIn(a.items, a.round, c, a.total)
  BY <1>2, <1>3, <1>4, <1>5
<1>8. AnswerTo(a, c)
  BY <1>1, <1>2, <1>3, <1>6, <1>7 DEF AnswerTo
<1> QED BY <1>8 DEF a

LEMMA LobbySoundInit == LobbyInit => LobbySound
<1> SUFFICES ASSUME LobbyInit PROVE LobbySound
  OBVIOUS
<1>1. board \in [round : Nat \ {0}, rows : Nat]
  BY LobbyConstants DEF LobbyInit
<1>2. PICK open \in BOOLEAN, a \in {Answer(0), NoAnswer} : lobby = Rendered(a, open)
  BY DEF LobbyInit
<1>3. /\ a.round \in Nat \ {0} /\ a.total \in Nat
      /\ a.next # NoCursor => a.next \in Nat \ {0}
      /\ RowsIn(a.items, a.round, 0, IF a.next # NoCursor THEN a.next ELSE a.total)
  <2>1. CASE a = Answer(0)
    BY <1>1, <2>1, AnswerIs DEF AnswerTo
  <2>2. CASE a = NoAnswer
    <3>1. a.round = 1 /\ a.total = 0 /\ a.next = NoCursor
      BY <2>2 DEF NoAnswer
    <3> QED BY <3>1 DEF RowsIn
  <2> QED BY <1>2, <2>1, <2>2
<1>4. /\ lobby.shown = a.items /\ lobby.next = a.next /\ lobby.hasMore = (a.next # NoCursor)
      /\ lobby.of.round = a.round /\ lobby.of.total = a.total /\ lobby.straight = TRUE
      /\ lobby = [shown |-> lobby.shown, next |-> lobby.next, hasMore |-> lobby.hasMore,
                  open |-> lobby.open, of |-> lobby.of, straight |-> lobby.straight]
  BY <1>2 DEF Rendered
<1>5. ListSound(lobby)
  BY <1>3, <1>4 DEF ListSound
<1>6. \A q \in requests : RequestSound(q, lobby.shown)
  <2>1. \A q \in requests : q = [slot |-> 1, cursor |-> 0, answer |-> NoCursor, from |-> 1]
    BY DEF LobbyInit
  <2> SUFFICES ASSUME NEW q \in requests PROVE RequestSound(q, lobby.shown)
    OBVIOUS
  <2>2. q = [slot |-> 1, cursor |-> 0, answer |-> NoCursor, from |-> 1]
    BY <2>1
  <2>3. q.cursor = 0 /\ q.from = 1 /\ q.answer = NoCursor
        /\ q = [slot |-> q.slot, cursor |-> q.cursor, answer |-> q.answer, from |-> q.from]
    BY <2>2
  <2> QED BY <2>3 DEF RequestSound
<1> QED BY <1>1, <1>5, <1>6 DEF LobbySound

LEMMA AskedInOrder ==
    ASSUME LobbySound, NEW c \in Nat, Ask(c),
           c # 0 => lobby.hasMore /\ c = lobby.next
    PROVE  \A q \in requests' : RequestSound(q, lobby.shown)
<1>1. PICK slot \in 1 .. MaxInFlight :
          requests' = requests \cup
              {[slot |-> slot, cursor |-> c, answer |-> NoCursor,
                from |-> IF lobby.straight THEN lobby.of.round ELSE 0]}
  BY DEF Ask
<1> DEFINE n == [slot |-> slot, cursor |-> c, answer |-> NoCursor,
                 from |-> IF lobby.straight THEN lobby.of.round ELSE 0]
<1>2. /\ n = [slot |-> n.slot, cursor |-> n.cursor, answer |-> n.answer, from |-> n.from]
      /\ n.cursor = c /\ n.answer = NoCursor
      /\ n.from = IF lobby.straight THEN lobby.of.round ELSE 0
  OBVIOUS
<1> HIDE DEF n
<1>3. n.from \in Nat /\ (n.from # 0 => lobby.straight /\ n.from = lobby.of.round)
  BY <1>2 DEF LobbySound, ListSound
<1>4. c # 0 /\ n.from # 0 => RowsIn(lobby.shown, n.from, 0, c)
  BY <1>3 DEF LobbySound, ListSound
<1>5. RequestSound(n, lobby.shown)
  BY <1>2, <1>3, <1>4 DEF RequestSound
<1>6. requests' = requests \cup {n}
  BY <1>1 DEF n
<1> QED BY <1>5, <1>6 DEF LobbySound

LEMMA ReceiveStep ==
    ASSUME LobbySound, NEW q \in requests, Receive(q)
    PROVE  LobbySound'
<1> DEFINE a == q.answer
<1>1. /\ RequestSound(q, lobby.shown) /\ AnswerTo(a, q.cursor)
      /\ a.round \in Nat \ {0} /\ a.total \in Nat /\ a.hasMore \in BOOLEAN
  BY DEF LobbySound, RequestSound, Receive, AnswerTo
<1>2. PICK S, straight :
          /\ S = lobby.shown \cup a.items
          /\ straight = IF q.cursor = 0 THEN TRUE ELSE lobby.straight /\ q.from = a.round
  OBVIOUS
<1>3. /\ requests' = requests \ {q} /\ board' = board
      /\ lobby' = [lobby EXCEPT !.shown = S, !.next = a.next, !.hasMore = a.hasMore,
                                !.of = [round |-> a.round, total |-> a.total],
                                !.straight = straight]
  BY <1>2 DEF Receive, Shown
<1>4. /\ lobby'.shown = S /\ lobby'.next = a.next /\ lobby'.hasMore = a.hasMore
      /\ lobby'.of = [round |-> a.round, total |-> a.total] /\ lobby'.straight = straight
      /\ lobby' = [shown |-> lobby'.shown, next |-> lobby'.next, hasMore |-> lobby'.hasMore,
                   open |-> lobby'.open, of |-> lobby'.of, straight |-> lobby'.straight]
  BY <1>3 DEF LobbySound, ListSound
<1>5. straight \in BOOLEAN
  BY <1>2 DEF LobbySound, ListSound
<1>6. \A r, c, n : RowsIn(lobby.shown, r, c, n) => RowsIn(S, r, c, n)
  BY <1>2 DEF RowsIn
<1>7. straight => RowsIn(S, a.round, 0, IF a.hasMore THEN a.next ELSE a.total)
  <2> SUFFICES ASSUME straight
               PROVE  RowsIn(S, a.round, 0, IF a.hasMore THEN a.next ELSE a.total)
    OBVIOUS
  <2>1. PICK n \in Nat : /\ n = IF a.hasMore THEN a.next ELSE a.total
                         /\ RowsIn(a.items, a.round, q.cursor, n)
    BY <1>1 DEF AnswerTo
  <2>2. q.cursor \in Nat /\ (q.cursor # 0 => RowsIn(lobby.shown, a.round, 0, q.cursor))
    BY <1>1, <1>2 DEF RequestSound
  <2>3. RowsIn(S, a.round, 0, n)
    BY <1>2, <2>1, <2>2 DEF RowsIn
  <2> QED BY <2>1, <2>3
<1>8. ListSound(lobby')
  BY <1>1, <1>4, <1>5, <1>7 DEF ListSound, AnswerTo
<1>9. \A r \in requests' : RequestSound(r, S)
  BY <1>3, <1>6 DEF LobbySound, RequestSound
<1> QED BY <1>3, <1>4, <1>8, <1>9 DEF LobbySound

LEMMA LobbyStep == LobbySound /\ [LobbyNext]_lobbyVars => LobbySound'
<1> SUFFICES ASSUME LobbySound, [LobbyNext]_lobbyVars PROVE LobbySound'
  OBVIOUS
<1>1. CASE Record \/ NextRoundListed
  <2>1. board' \in [round : Nat \ {0}, rows : Nat]
    BY <1>1, LobbyConstants DEF Record, NextRoundListed, LobbySound
  <2>2. UNCHANGED <<lobby, requests>>
    BY <1>1 DEF Record, NextRoundListed
  <2> QED BY <2>1, <2>2 DEF LobbySound
<1>2. CASE PollFirst
  <2>1. Ask(0) /\ UNCHANGED <<board, lobby>>
    BY <1>2 DEF PollFirst
  <2> QED BY <2>1, AskedInOrder DEF LobbySound
<1>3. CASE LoadMore
  <2>1. /\ lobby.hasMore /\ lobby.next # NoCursor /\ lobby.next \in Nat
        /\ Ask(lobby.next) /\ UNCHANGED <<board, lobby>>
    BY <1>3 DEF LoadMore, LobbySound, ListSound
  <2>2. \A q \in requests' : RequestSound(q, lobby.shown)
    BY <2>1, AskedInOrder
  <2> QED BY <2>1, <2>2 DEF LobbySound
<1>4. CASE StatsFetched
  <2>1. Ask(0) /\ board' = board /\ lobby' = [lobby EXCEPT !.open = ~@]
    BY <1>4 DEF StatsFetched
  <2>2. \A q \in requests' : RequestSound(q, lobby.shown)
    BY <2>1, AskedInOrder
  <2>3. ListSound(lobby') /\ lobby'.shown = lobby.shown
    BY <2>1 DEF LobbySound, ListSound
  <2> QED BY <2>1, <2>2, <2>3 DEF LobbySound
<1>5. ASSUME NEW q \in requests, Serve(q) PROVE LobbySound'
  <2> DEFINE s == [q EXCEPT !.answer = Answer(q.cursor)]
  <2>1. requests' = (requests \ {q}) \cup {s} /\ UNCHANGED <<board, lobby>>
    BY <1>5 DEF Serve
  <2>2. RequestSound(q, lobby.shown) /\ AnswerTo(Answer(q.cursor), q.cursor)
    BY AnswerIs DEF LobbySound, RequestSound
  <2>3. /\ s = [slot |-> s.slot, cursor |-> s.cursor, answer |-> s.answer, from |-> s.from]
        /\ s.cursor = q.cursor /\ s.from = q.from /\ s.answer = Answer(q.cursor)
    BY <2>2 DEF RequestSound
  <2> HIDE DEF s
  <2>4. RequestSound(s, lobby.shown)
    BY <2>2, <2>3 DEF RequestSound
  <2> QED BY <2>1, <2>4 DEF LobbySound
<1>6. ASSUME NEW q \in requests, Receive(q) PROVE LobbySound'
  BY <1>6, ReceiveStep
<1>7. ASSUME NEW q \in requests, RequestFails(q) PROVE LobbySound'
  BY <1>7 DEF RequestFails, LobbySound
<1>8. CASE UNCHANGED lobbyVars
  BY <1>8 DEF lobbyVars, LobbySound
<1> QED BY <1>1, <1>2, <1>3, <1>4, <1>5, <1>6, <1>7, <1>8 DEF LobbyNext

\* "End of list" is the end, unless a cursor of one round was used on the list of another
\* (ArenaLobbyClient.tsx fetchParticipants).
THEOREM EndOfListIsAlwaysEnd == LobbySpec => []EndOfListIsEnd
<1>1. LobbySound => EndOfListIsEnd
  <2> SUFFICES ASSUME LobbySound, ~lobby.hasMore, lobby.straight
               PROVE  {<<lobby.of.round, i>> : i \in 1 .. lobby.of.total} \subseteq lobby.shown
    BY DEF EndOfListIsEnd
  <2>1. RowsIn(lobby.shown, lobby.of.round, 0, lobby.of.total) /\ lobby.of.total \in Nat
    BY DEF LobbySound, ListSound
  <2> QED BY <2>1 DEF RowsIn
<1> QED BY <1>1, LobbySoundInit, LobbyStep, PTL DEF LobbySpec

-----------------------------------------------------------------------------
\* The polling hook

Polls == [enabled : BOOLEAN, visible : BOOLEAN, timer : BOOLEAN, fetching : BOOLEAN,
          ctrl : Nat, aborted : SUBSET Nat, calls : SUBSET Nat, last : Nat, data : Nat,
          status : {"loading", "error", "success"}]

\* At most one call is under way, the last one made, and its answer was not shown before.
OneCallOut(p) ==
    /\ p \in Polls
    /\ p.calls = IF p.fetching THEN {p.last} ELSE {}
    /\ p.data <= p.last /\ (p.fetching => p.data < p.last)

LEMMA FetchDataIs ==
    ASSUME NEW p, OneCallOut(p)
    PROVE  OneCallOut(FetchData(p)) /\ FetchData(p).data = p.data
<1>1. CASE p.fetching
  BY <1>1 DEF FetchData
<1>2. CASE ~p.fetching
  <2> DEFINE n == p.last + 1
             away == p.aborted \cup ({p.ctrl} \ {0})
             r == [p EXCEPT !.aborted = away, !.ctrl = n, !.calls = p.calls \cup {n}, !.last = n,
                            !.fetching = TRUE, !.status = "loading"]
  <2>1. FetchData(p) = r
    BY <1>2 DEF FetchData, OneCallOut, Polls
  <2>2. n \in Nat /\ away \in SUBSET Nat /\ p.calls \cup {n} = {n} /\ p.data < n
    BY <1>2 DEF OneCallOut, Polls
  <2>3. r \in Polls
    BY <2>2 DEF OneCallOut, Polls
  <2>4. r.calls = {n} /\ r.last = n /\ r.fetching = TRUE /\ r.data = p.data
    BY <2>2 DEF OneCallOut, Polls
  <2>5. p.data < n /\ p.data <= n
    BY <2>2 DEF OneCallOut, Polls
  <2> HIDE DEF r, n
  <2> QED BY <2>1, <2>3, <2>4, <2>5 DEF OneCallOut
<1> QED BY <1>1, <1>2

LEMMA EffectIs ==
    ASSUME NEW p, OneCallOut(p)
    PROVE  OneCallOut(Effect(p)) /\ Effect(p).data = p.data
<1>1. CASE p.enabled
  <2> DEFINE f == FetchData(p)
  <2>1. OneCallOut(f) /\ f.data = p.data
    BY FetchDataIs
  <2>2. Effect(p) = [f EXCEPT !.timer = p.visible] /\ p.visible \in BOOLEAN
    BY <1>1 DEF Effect, OneCallOut, Polls
  <2> QED BY <2>1, <2>2 DEF OneCallOut, Polls
<1>2. CASE ~p.enabled
  BY <1>2 DEF Effect
<1> QED BY <1>1, <1>2

LEMMA CleanupIs ==
    ASSUME NEW p, OneCallOut(p)
    PROVE  OneCallOut(Cleanup(p)) /\ Cleanup(p).data = p.data
<1>1. CASE p.enabled
  <2> DEFINE away == p.aborted \cup ({p.ctrl} \ {0})
  <2>1. away \in SUBSET Nat /\ Cleanup(p) = [p EXCEPT !.timer = FALSE, !.aborted = away, !.ctrl = 0]
    BY <1>1 DEF Cleanup, OneCallOut, Polls
  <2> HIDE DEF away
  <2>2. PICK r : r = [p EXCEPT !.timer = FALSE, !.aborted = away, !.ctrl = 0]
    OBVIOUS
  <2>3. /\ r \in Polls /\ r.calls = p.calls /\ r.last = p.last /\ r.fetching = p.fetching
        /\ r.data = p.data
    BY <2>1, <2>2 DEF OneCallOut, Polls
  <2>4. Cleanup(p) = r
    BY <2>1, <2>2
  <2> QED BY <2>3, <2>4 DEF OneCallOut
<1>2. CASE ~p.enabled
  BY <1>2 DEF Cleanup
<1> QED BY <1>1, <1>2

LEMMA OneCallOutInit == QueryInit => OneCallOut(polling)
<1> SUFFICES ASSUME QueryInit PROVE OneCallOut(polling)
  OBVIOUS
<1>1. polling = [enabled |-> TRUE, visible |-> TRUE, timer |-> TRUE, fetching |-> TRUE,
                 ctrl |-> 1, aborted |-> {}, calls |-> {1}, last |-> 1,
                 data |-> 0, status |-> "loading"]
  BY DEF QueryInit
<1> QED BY <1>1 DEF OneCallOut, Polls

LEMMA PollStep ==
    ASSUME OneCallOut(polling), [QueryNext]_queryVars
    PROVE  OneCallOut(polling)' /\ (polling'.data # polling.data => polling'.data > polling.data)
<1>1. CASE polling' = polling
  BY <1>1
<1>2. CASE OptionsChange
  <2> DEFINE c == Cleanup(polling)
  <2>1. OneCallOut(c) /\ c.data = polling.data
    BY CleanupIs
  <2>2. PICK p : /\ p \in {[c EXCEPT !.visible = ~@], [c EXCEPT !.enabled = ~@]}
                 /\ polling' = Effect(p)
    BY <1>2 DEF OptionsChange
  <2>3. OneCallOut(p) /\ p.data = c.data
    BY <2>1, <2>2 DEF OneCallOut, Polls
  <2> QED BY <2>1, <2>2, <2>3, EffectIs
<1>3. CASE polling' = FetchData(polling)
  BY <1>3, FetchDataIs
<1>4. ASSUME NEW i \in polling.calls, CallResolves(i) \/ CallFails(i)
      PROVE  OneCallOut(polling)' /\ (polling'.data # polling.data => polling'.data > polling.data)
  <2> DEFINE e == Ended(i)
  <2>1. i = polling.last /\ i \in Nat /\ polling.data < i /\ polling.calls \ {i} = {}
    BY <1>4 DEF OneCallOut, Polls
  <2>2. e = [polling EXCEPT !.calls = {}, !.fetching = FALSE]
    BY <2>1 DEF Ended
  <2>3. /\ e \in Polls /\ e.calls = {} /\ e.fetching = FALSE
        /\ e.last = polling.last /\ e.data = polling.data
    BY <2>2 DEF OneCallOut, Polls
  <2> HIDE DEF e
  <2>4. \/ polling' = e
        \/ polling' = [e EXCEPT !.status = "error"]
        \/ polling' = [e EXCEPT !.data = i, !.status = "success"]
    BY <1>4 DEF CallResolves, CallFails, e
  <2>5. polling.data \in Nat /\ polling.last \in Nat
    BY DEF OneCallOut, Polls
  <2>6. CASE polling' = e
    BY <2>1, <2>3, <2>5, <2>6 DEF OneCallOut
  <2>7. CASE polling' = [e EXCEPT !.status = "error"]
    BY <2>1, <2>3, <2>5, <2>7 DEF OneCallOut, Polls
  <2>8. CASE polling' = [e EXCEPT !.data = i, !.status = "success"]
    <3>1. /\ polling' \in Polls /\ polling'.calls = {} /\ polling'.fetching = FALSE
          /\ polling'.last = polling.last /\ polling'.data = i
      BY <2>1, <2>3, <2>8 DEF Polls
    <3>2. i <= polling.last
      BY <2>1
    <3> QED BY <2>1, <3>1, <3>2 DEF OneCallOut
  <2> QED BY <2>4, <2>6, <2>7, <2>8
<1> QED
  BY <1>1, <1>2, <1>3, <1>4
     DEF QueryNext, queryVars, Tick, Refresh, ClickLoadMore, PageLoaded, PageFails

\* The answer of an older call never replaces a newer one's (usePolling.ts fetchData).
THEOREM AlwaysPolledInOrder == QuerySpec => PolledInOrder
<1>1. QueryInit => OneCallOut(polling)
  BY OneCallOutInit
<1>2. OneCallOut(polling) /\ [QueryNext]_queryVars
          => /\ OneCallOut(polling)'
             /\ [polling'.data # polling.data => polling'.data > polling.data]_queryVars
  BY PollStep DEF queryVars
<1> QED BY <1>1, <1>2, PTL DEF QuerySpec, PolledInOrder

-----------------------------------------------------------------------------
\* The leaderboard

Numbered == Nat \ {0}

Gapless(s) == \A i \in DOMAIN s : \A p \in 1 .. s[i] - 1 : \E j \in 1 .. i - 1 : s[j] = p

\* Every page before page c stands in s.
Above(s, c) == \A p \in 1 .. c - 1 : \E j \in DOMAIN s : s[j] = p

Feeds == [shown : Seq(Numbered), next : Nat, hasMore : BOOLEAN, loading : BOOLEAN,
          clicks : Nat, displayed : Nat]

\* The first page is asked for once, before anything else; a later one only when all
\* pages before it are shown, and no failure takes back what is shown by then.
FeedSound ==
    /\ feed \in Feeds /\ loads \subseteq [cursor : Numbered, click : Nat]
    /\ Gapless(feed.shown)
    /\ feed.next # 0 => feed.next > 1 /\ Above(feed.shown, feed.next)
    /\ \A q \in loads : Above(feed.shown, q.cursor)
    /\ feed.loading => feed.next = 0 /\ loads \subseteq {[cursor |-> 1, click |-> 0]}
    /\ ~feed.loading => \A q \in loads : q.cursor > 1

LEMMA AppendKeepsGapless ==
    ASSUME NEW s \in Seq(Numbered), NEW c \in Numbered, Gapless(s), Above(s, c)
    PROVE  /\ Append(s, c) \in Seq(Numbered)
           /\ Gapless(Append(s, c))
           /\ Above(Append(s, c), c + 1)
           /\ \A d : Above(s, d) => Above(Append(s, c), d)
<1> DEFINE t == Append(s, c)
           n == Len(s)
<1>1. /\ t \in Seq(Numbered) /\ n \in Nat /\ DOMAIN s = 1..n /\ DOMAIN t = 1 .. n + 1
      /\ \A i \in 1..n : t[i] = s[i]
  OBVIOUS
<1>2. t[n + 1] = c
  OBVIOUS
<1> HIDE DEF t, n
<1>3. \A d : Above(s, d) => Above(t, d)
  BY <1>1 DEF Above
<1>4. Above(t, c + 1)
  <2> SUFFICES ASSUME NEW p \in 1 .. (c + 1) - 1 PROVE \E j \in DOMAIN t : t[j] = p
    BY DEF Above
  <2>1. CASE p = c
    BY <1>1, <1>2, <2>1
  <2>2. CASE p # c
    <3>1. p \in 1 .. c - 1
      BY <2>2 DEF Numbered
    <3> QED BY <1>1, <3>1 DEF Above
  <2> QED BY <2>1, <2>2
<1>5. Gapless(t)
  <2> SUFFICES ASSUME NEW i \in DOMAIN t, NEW p \in 1 .. t[i] - 1
               PROVE  \E j \in 1 .. i - 1 : t[j] = p
    BY DEF Gapless
  <2>1. CASE i = n + 1
    <3>1. PICK j \in 1..n : s[j] = p
      BY <1>1, <1>2, <2>1 DEF Above
    <3> QED BY <1>1, <2>1, <3>1
  <2>2. CASE i # n + 1
    <3>1. i \in 1..n /\ t[i] = s[i]
      BY <1>1, <2>2
    <3>2. PICK j \in 1 .. i - 1 : s[j] = p
      BY <1>1, <3>1 DEF Gapless
    <3>3. j \in 1..n
      BY <1>1, <3>1
    <3> QED BY <1>1, <3>2, <3>3
  <2> QED BY <2>1, <2>2
<1> QED BY <1>1, <1>3, <1>4, <1>5 DEF t

LEMMA FeedSoundInit == QueryInit => FeedSound
<1> SUFFICES ASSUME QueryInit PROVE FeedSound
  OBVIOUS
<1>1. feed = [shown |-> << >>, next |-> 0, hasMore |-> FALSE, loading |-> TRUE,
              clicks |-> 0, displayed |-> 1]
  BY DEF QueryInit
<1>2. loads = {[cursor |-> 1, click |-> 0]}
  BY DEF QueryInit
<1>3. << >> \in Seq(Numbered) /\ DOMAIN << >> = {}
  OBVIOUS
<1>4. feed \in Feeds /\ loads \subseteq [cursor : Numbered, click : Nat]
  BY <1>1, <1>2, <1>3 DEF Feeds, Numbered
<1>5. /\ feed.shown = << >> /\ feed.next = 0 /\ feed.loading = TRUE
      /\ \A q \in loads : q.cursor = 1
  BY <1>1, <1>2
<1>6. Gapless(feed.shown) /\ Above(feed.shown, 1)
  BY <1>3, <1>5 DEF Gapless, Above
<1> QED BY <1>2, <1>4, <1>5, <1>6 DEF FeedSound

LEMMA FeedStep == FeedSound /\ [QueryNext]_queryVars => FeedSound'
<1> SUFFICES ASSUME FeedSound, [QueryNext]_queryVars PROVE FeedSound'
  OBVIOUS
<1>0. /\ feed.shown \in Seq(Numbered) /\ feed.next \in Nat /\ feed.hasMore \in BOOLEAN
      /\ feed.loading \in BOOLEAN /\ feed.clicks \in Nat /\ feed.displayed \in Nat
  BY DEF FeedSound, Feeds
<1>1. CASE UNCHANGED <<feed, loads>>
  BY <1>1 DEF FeedSound
<1>2. CASE ClickLoadMore
  <2> DEFINE q == [cursor |-> feed.next, click |-> feed.clicks + 1]
  <2>1. /\ ~feed.loading /\ feed.next # 0 /\ loads' = loads \cup {q}
        /\ feed' = [feed EXCEPT !.clicks = feed.clicks + 1]
    BY <1>2 DEF ClickLoadMore
  <2>2. /\ feed' \in Feeds /\ feed'.shown = feed.shown /\ feed'.next = feed.next
        /\ feed'.loading = feed.loading
    BY <1>0, <2>1 DEF FeedSound, Feeds
  <2>3. q \in [cursor : Numbered, click : Nat] /\ q.cursor = feed.next
    BY <1>0, <2>1 DEF Numbered
  <2> HIDE DEF q
  <2> QED BY <2>1, <2>2, <2>3 DEF FeedSound
<1>3. ASSUME NEW q \in loads, PageLoaded(q) PROVE FeedSound'
  <2>1. /\ q.cursor \in Numbered /\ q.click \in Nat /\ Displayed(q) \in Nat
        /\ Above(feed.shown, q.cursor)
    BY <1>0 DEF FeedSound, Displayed
  <2>2. PICK s, n, more :
            /\ s = IF q.cursor = 1 THEN <<1>> ELSE Append(feed.shown, q.cursor)
            /\ n = IF q.cursor < BoardPages THEN q.cursor + 1 ELSE 0
            /\ more = (q.cursor < BoardPages)
    OBVIOUS
  <2>3. /\ feed' = [feed EXCEPT !.shown = s, !.next = n, !.hasMore = more, !.loading = FALSE,
                                !.displayed = Displayed(q)]
        /\ loads' = loads \ {q}
    BY <1>3, <2>2 DEF PageLoaded
  <2>4. n \in Nat /\ more \in BOOLEAN /\ (n # 0 => n > 1 /\ n = q.cursor + 1)
    BY <2>1, <2>2 DEF Numbered
  <2>5. /\ s \in Seq(Numbered) /\ Gapless(s) /\ Above(s, q.cursor + 1)
        /\ \A r \in loads' : r.cursor > 1 /\ Above(s, r.cursor)
    <3>1. CASE q.cursor = 1
      <4>1. s = <<1>> /\ s \in Seq(Numbered) /\ DOMAIN s = {1} /\ s[1] = 1
        BY <2>2, <3>1 DEF Numbered
      <4>2. Gapless(s) /\ Above(s, q.cursor + 1)
        BY <3>1, <4>1 DEF Gapless, Above
      <4>3. loads' = {}
        <5>1. feed.loading
          BY <1>0, <3>1 DEF FeedSound
        <5> QED BY <2>3, <5>1 DEF FeedSound
      <4> QED BY <4>1, <4>2, <4>3
    <3>2. CASE q.cursor # 1
      <4>1. ~feed.loading
        BY <3>2 DEF FeedSound
      <4>2. s = Append(feed.shown, q.cursor)
        BY <2>2, <3>2
      <4>3. Gapless(feed.shown)
        BY DEF FeedSound
      <4>4. /\ s \in Seq(Numbered) /\ Gapless(s) /\ Above(s, q.cursor + 1)
            /\ \A d : Above(feed.shown, d) => Above(s, d)
        BY <1>0, <2>1, <4>2, <4>3, AppendKeepsGapless
      <4>5. \A r \in loads' : r.cursor > 1 /\ Above(feed.shown, r.cursor)
        BY <2>3, <4>1 DEF FeedSound
      <4> QED BY <4>4, <4>5
    <3> QED BY <3>1, <3>2
  <2>6. /\ feed' \in Feeds /\ feed'.shown = s /\ feed'.next = n /\ feed'.loading = FALSE
    BY <2>1, <2>3, <2>4, <2>5 DEF FeedSound, Feeds
  <2>7. loads' \subseteq [cursor : Numbered, click : Nat]
    BY <2>3 DEF FeedSound
  <2> QED BY <2>4, <2>5, <2>6, <2>7 DEF FeedSound
<1>4. ASSUME NEW q \in loads, PageFails(q) PROVE FeedSound'
  <2>1. q.cursor \in Numbered /\ Displayed(q) \in Nat
    BY <1>0 DEF FeedSound, Displayed
  <2>2. PICK s : s = IF q.cursor = 1 THEN << >> ELSE feed.shown
    OBVIOUS
  <2>3. /\ feed' = [feed EXCEPT !.shown = s, !.next = 0, !.hasMore = FALSE, !.loading = FALSE,
                                !.displayed = Displayed(q)]
        /\ loads' = loads \ {q}
    BY <1>4, <2>2 DEF PageFails
  <2>4. /\ s \in Seq(Numbered) /\ Gapless(s)
        /\ \A r \in loads' : r.cursor > 1 /\ Above(s, r.cursor)
    <3>1. CASE q.cursor = 1
      <4>1. feed.loading
        BY <1>0, <3>1 DEF FeedSound
      <4>2. loads' = {}
        BY <2>3, <4>1 DEF FeedSound
      <4>3. s = << >> /\ << >> \in Seq(Numbered) /\ DOMAIN << >> = {}
        BY <2>2, <3>1
      <4> QED BY <4>2, <4>3 DEF Gapless
    <3>2. CASE q.cursor # 1
      <4>1. ~feed.loading /\ s = feed.shown
        BY <2>2, <3>2 DEF FeedSound
      <4> QED BY <1>0, <2>3, <4>1 DEF FeedSound
    <3> QED BY <3>1, <3>2
  <2>5. feed' \in Feeds /\ feed'.shown = s /\ feed'.next = 0 /\ feed'.loading = FALSE
    BY <2>1, <2>3, <2>4 DEF FeedSound, Feeds
  <2>6. loads' \subseteq [cursor : Numbered, click : Nat]
    BY <2>3 DEF FeedSound
  <2> QED BY <2>4, <2>5, <2>6 DEF FeedSound
<1> QED
  BY <1>1, <1>2, <1>3, <1>4
     DEF QueryNext, queryVars, OptionsChange, Tick, Refresh, CallResolves, CallFails

\* No rank is shown unless every better one stands above it
\* (useLeaderboard.ts fetchLeaderboard).
THEOREM LeaderboardNeverHasGap == QuerySpec => []LeaderboardHasNoGap
<1>1. FeedSound => LeaderboardHasNoGap
  BY DEF FeedSound, Gapless, LeaderboardHasNoGap
<1> QED BY <1>1, FeedSoundInit, FeedStep, PTL DEF QuerySpec

-----------------------------------------------------------------------------
\* The wallets

\* The provider waits for the wallet in one call or in none, and says so.
OneCallSaidSo ==
    /\ provider.asks \in {0, 1}
    /\ provider.asks = 1 <=> provider.status = "connecting"
    /\ provider = [status |-> provider.status, key |-> provider.key, asks |-> provider.asks]

LEMMA OneCallInit == WalletsInit => OneCallSaidSo
BY DEF WalletsInit, OneCallSaidSo, Disconnected

LEMMA OneCallStep == OneCallSaidSo /\ [KitNext \/ FreighterNext]_walletVars => OneCallSaidSo'
<1> SUFFICES ASSUME OneCallSaidSo, [KitNext \/ FreighterNext]_walletVars PROVE OneCallSaidSo'
  OBVIOUS
<1>1. CASE UNCHANGED provider
  BY <1>1 DEF OneCallSaidSo
<1>2. CASE ConnectExtension
  <2>1. provider.status # "connecting" /\ provider.asks = 0
    BY <1>2 DEF ConnectExtension, CanConnect, ButtonShows, OneCallSaidSo
  <2>2. provider' = [provider EXCEPT !.status = "connecting", !.asks = 1]
    BY <1>2, <2>1 DEF ConnectExtension, Asking
  <2>3. provider' = [status |-> "connecting", key |-> provider.key, asks |-> 1]
    BY <2>2 DEF OneCallSaidSo
  <2> QED BY <2>3 DEF OneCallSaidSo
<1>3. CASE ConnectAnswered
  <2>1. provider.asks = 1
    BY <1>3 DEF ConnectAnswered, OneCallSaidSo
  <2>2. CASE provider' = Refused(provider)
    <3>1. provider' = [provider EXCEPT !.status = "error", !.key = NoAddress, !.asks = 0]
      BY <2>1, <2>2 DEF Refused
    <3>2. provider' = [status |-> "error", key |-> NoAddress, asks |-> 0]
      BY <3>1 DEF OneCallSaidSo
    <3> QED BY <3>2 DEF OneCallSaidSo
  <2>3. ASSUME NEW a \in Accounts, provider' = Granted(provider, a)
        PROVE  OneCallSaidSo'
    <3>1. provider' = [provider EXCEPT !.status = "connected", !.key = a, !.asks = 0]
      BY <2>1, <2>3 DEF Granted
    <3>2. provider' = [status |-> "connected", key |-> a, asks |-> 0]
      BY <3>1 DEF OneCallSaidSo
    <3> QED BY <3>2 DEF OneCallSaidSo
  <2> QED BY <1>3, <2>2, <2>3 DEF ConnectAnswered
<1>4. CASE Disconnect
  <2>1. provider.status = "connected" /\ provider.asks = 0
    BY <1>4 DEF Disconnect, ButtonShows, OneCallSaidSo
  <2> QED BY <1>4, <2>1 DEF Disconnect, OneCallSaidSo
<1> QED
  BY <1>1, <1>2, <1>3, <1>4
     DEF KitNext, FreighterNext, walletVars, EnterLobby, LeaveLobby, LeftFormAnswered, SubmitChoice,
         LobbyAnswered, Sign, UsePasskey, PasskeyPrompt, Registered, ForgetPasskey, Mount, Checked,
         ConnectFreighter, FreighterAnswered, BalanceLoaded

\* A connected wallet waits for no call that could connect it again after a
\* "Disconnect" (ConnectWalletButton.tsx, connectWallet).
THEOREM ConnectedStaysSettled == WalletsSpec => []ConnectedIsSettled
<1>1. OneCallSaidSo => ConnectedIsSettled
  BY DEF OneCallSaidSo, ConnectedIsSettled
<1> QED BY <1>1, OneCallInit, OneCallStep, PTL DEF WalletsSpec

-----------------------------------------------------------------------------
\* The games: the query string and the search box

Urls == [filter : Filters, q : Searches]

BrowserTypeOK ==
    /\ url \in Urls
    /\ going \in Urls \cup {NoNavigation}
    /\ bar \in [input : Searches, debounced : Searches, timer : BOOLEAN, loading : BOOLEAN,
                swallowed : BOOLEAN]

\* A navigation to another URL is under way whenever the query string is not the debounced
\* search, unless it was swallowed, and the timer whenever that is not what the box shows.
SearchOnItsWay ==
    /\ ~bar.timer => bar.debounced = bar.input
    /\ going \in {NoNavigation, url} /\ ~bar.swallowed => url.q = bar.debounced

LEMMA SearchEffectIs ==
    ASSUME NEW u \in Urls, NEW s \in Searches
    PROVE  /\ SearchEffect(u, s) \in Urls \cup {NoNavigation}
           /\ SearchEffect(u, s) = NoNavigation <=> s = u.q
           /\ SearchEffect(u, s) # u
BY GamesConstants DEF SearchEffect, Urls

LEMMA BrowserInit == GamesInit => BrowserTypeOK /\ SearchOnItsWay
<1> SUFFICES ASSUME GamesInit PROVE BrowserTypeOK /\ SearchOnItsWay
  OBVIOUS
<1>1. url \in Urls /\ "" \in Searches /\ going = SearchEffect(url, "")
  BY GamesConstants DEF GamesInit, Urls
<1>2. bar = [input |-> url.q, debounced |-> "", timer |-> url.q # "", loading |-> TRUE,
              swallowed |-> FALSE]
  BY DEF GamesInit
<1>3. url.q \in Searches
  BY <1>1 DEF Urls
<1>4. going \in Urls \cup {NoNavigation} /\ (going = NoNavigation <=> "" = url.q) /\ going # url
  BY <1>1, SearchEffectIs
<1> QED BY <1>1, <1>2, <1>3, <1>4 DEF BrowserTypeOK, SearchOnItsWay

LEMMA ReplaceStep ==
    ASSUME BrowserTypeOK, SearchOnItsWay, NEW u \in Urls, Replace(u), UNCHANGED url
    PROVE  (BrowserTypeOK /\ SearchOnItsWay)'
<1>1. u # NoNavigation
  BY GamesConstants DEF Urls
<1>2. going' = u /\ bar' = [bar EXCEPT !.swallowed = u = url /\ url.q # bar.debounced]
  BY DEF Replace
<1>3. BrowserTypeOK'
  BY <1>2 DEF BrowserTypeOK
<1>4. going' \in {NoNavigation, url'} /\ ~bar'.swallowed => url'.q = bar'.debounced
  BY <1>1, <1>2 DEF BrowserTypeOK
<1>5. ~bar'.timer => bar'.debounced = bar'.input
  BY <1>2 DEF BrowserTypeOK, SearchOnItsWay
<1> QED BY <1>3, <1>4, <1>5 DEF SearchOnItsWay

LEMMA BrowserStep ==
    BrowserTypeOK /\ SearchOnItsWay /\ [BrowseNext \/ LookupNext]_gamesVars
        => (BrowserTypeOK /\ SearchOnItsWay)'
<1> SUFFICES ASSUME BrowserTypeOK, SearchOnItsWay, [BrowseNext \/ LookupNext]_gamesVars
             PROVE  (BrowserTypeOK /\ SearchOnItsWay)'
  OBVIOUS
<1> USE DEF BrowserTypeOK, SearchOnItsWay
<1>0. url.q \in Searches /\ bar.input \in Searches /\ bar.debounced \in Searches
  BY DEF Urls
<1>1. CASE UNCHANGED <<url, going, bar>>
  BY <1>1
<1>2. CASE ClickTab
  <2>1. PICK f \in Filters : Replace(Replacing("filter", f))
    BY <1>2 DEF ClickTab
  <2>2. Replacing("filter", f) \in Urls
    BY <2>1 DEF Replacing, Urls
  <2> QED BY <1>2, <2>1, <2>2, ReplaceStep DEF ClickTab
<1>3. CASE TypeSearch
  BY <1>3 DEF TypeSearch
<1>4. CASE Debounced
  <2>1. /\ bar' = [bar EXCEPT !.debounced = bar.input, !.timer = FALSE,
                              !.swallowed = @ /\ bar.debounced = bar.input]
        /\ url' = url
    BY <1>4 DEF Debounced
  <2>2. going' = IF bar.debounced # bar.input /\ bar.input # url.q
                 THEN SearchEffect(url, bar.input) ELSE going
    BY <1>0, <1>4, SearchEffectIs DEF Debounced
  <2>3. going' \in Urls \cup {NoNavigation}
    BY <1>0, <2>2, SearchEffectIs
  <2>4. CASE bar.debounced = bar.input
    <3>1. going' = going /\ bar'.debounced = bar.debounced /\ bar'.swallowed = bar.swallowed
      BY <2>1, <2>2, <2>4
    <3> QED BY <2>1, <2>3, <3>1
  <2>5. CASE bar.debounced # bar.input
    <3>1. going' \in {NoNavigation, url} => url.q = bar.input
      BY <1>0, <2>2, <2>5, SearchEffectIs
    <3> QED BY <2>1, <2>3, <3>1
  <2> QED BY <2>4, <2>5
<1>5. CASE Navigated
  <2>1. /\ going \in Urls /\ url' = going
        /\ going' = IF going = url THEN NoNavigation ELSE SearchEffect(going, bar.debounced)
        /\ bar' = [bar EXCEPT !.swallowed = @ /\ going = url]
    BY <1>5 DEF Navigated
  <2>2. CASE going = url
    BY <1>0, <2>1, <2>2
  <2>3. CASE going # url
    BY <1>0, <2>1, <2>3, SearchEffectIs
  <2> QED BY <2>2, <2>3
<1>6. CASE SidebarLink
  <2>1. PICK u : u = [filter |-> "all", q |-> ""]
    OBVIOUS
  <2>2. u \in Urls /\ u # NoNavigation
    <3>1. u \in [filter : Filters, q : Searches]
      BY <2>1, GamesConstants
    <3>2. NoNavigation \notin [filter : Filters, q : Searches]
      BY GamesConstants, Zenon
    <3> QED BY <3>1, <3>2, Zenon DEF Urls
  <2>3. Replace(u) /\ url' = url
    BY <1>6, <2>1 DEF SidebarLink
  <2> QED BY <2>2, <2>3, ReplaceStep
<1>7. CASE Loaded
  BY <1>7 DEF Loaded
<1>8. CASE ClearFilters
  <2>1. PICK u : u = [filter |-> "all", q |-> ""]
    OBVIOUS
  <2>2. u \in Urls /\ u.q = ""  /\ "" \in Searches
    BY <2>1, GamesConstants DEF Urls
  <2>3. /\ url' = u /\ going' = SearchEffect(u, "")
        /\ bar' = [input |-> u.q, debounced |-> "", timer |-> u.q # "", loading |-> TRUE,
                    swallowed |-> FALSE]
    BY <1>8, <2>1 DEF ClearFilters, Opened
  <2> QED BY <2>2, <2>3, SearchEffectIs
<1> QED
  BY <1>1, <1>2, <1>3, <1>4, <1>5, <1>6, <1>7, <1>8
     DEF BrowseNext, LookupNext, gamesVars, SetFilterOrSearch, ArenasFetched, Look, FoundNumber,
         FoundText

\* At rest the list is of what the search box shows (GamesFilters.tsx, useQueryState.ts).
THEOREM UrlAlwaysShowsInput == GamesSpec => []UrlShowsInput
<1>1. BrowserTypeOK /\ SearchOnItsWay => UrlShowsInput
  BY DEF SearchOnItsWay, UrlShowsInput
<1> QED BY <1>1, BrowserInit, BrowserStep, PTL DEF GamesSpec

-----------------------------------------------------------------------------
\* The games: the hook over the arenas

Lookups == [filter : Filters, search : Searches]

ListingTypeOK ==
    /\ listing = [filter |-> listing.filter, search |-> listing.search, calls |-> listing.calls,
                  shown |-> listing.shown, status |-> listing.status, error |-> listing.error]
    /\ listing.filter \in Filters /\ listing.search \in Searches
    /\ listing.calls \in Seq(Lookups)

\* The last of the calls under way, which answers last, is about what is set; when there
\* is none, what is shown is.
LastIsAsked ==
    listing.search \notin BadSearches =>
        LET asked == [filter |-> listing.filter, search |-> listing.search] IN
        IF listing.calls = << >> THEN listing.shown = asked
        ELSE listing.calls[Len(listing.calls)] = asked

LEMMA ListingInit == GamesInit => ListingTypeOK /\ LastIsAsked
<1> SUFFICES ASSUME GamesInit PROVE ListingTypeOK /\ LastIsAsked
  OBVIOUS
<1>1. PICK c : c = [filter |-> "all", search |-> ""]
  OBVIOUS
<1>2. c \in Lookups
  BY <1>1, GamesConstants DEF Lookups
<1>3. <<c>> \in Seq(Lookups) /\ <<c>> # << >> /\ Len(<<c>>) = 1 /\ <<c>>[1] = c
  BY <1>2
<1>4. /\ listing.filter = "all" /\ listing.search = "" /\ listing.calls = <<c>>
      /\ listing = [filter |-> listing.filter, search |-> listing.search, calls |-> listing.calls,
                    shown |-> listing.shown, status |-> listing.status, error |-> listing.error]
  BY <1>1 DEF GamesInit
<1>5. ListingTypeOK
  BY <1>3, <1>4, GamesConstants DEF ListingTypeOK
<1> QED BY <1>1, <1>3, <1>4, <1>5 DEF LastIsAsked

LEMMA FetchedIsAsked ==
    ASSUME NEW f \in Filters, NEW s \in Searches, ListingTypeOK,
           listing' = FetchArenas([listing EXCEPT !.filter = f, !.search = s])
    PROVE  (ListingTypeOK /\ LastIsAsked)'
<1>1. CASE s \in BadSearches
  <2>1. listing' = [listing EXCEPT !.filter = f, !.search = s, !.status = "error", !.error = TRUE]
    BY <1>1 DEF FetchArenas, ListingTypeOK
  <2>2. listing'.filter = f /\ listing'.search = s /\ listing'.calls = listing.calls
    BY <2>1 DEF ListingTypeOK
  <2>3. ListingTypeOK'
    BY <2>1, <2>2 DEF ListingTypeOK
  <2> QED BY <1>1, <2>2, <2>3 DEF LastIsAsked
<1>2. CASE s \notin BadSearches
  <2>1. PICK c : c = [filter |-> f, search |-> s]
    OBVIOUS
  <2>2. listing' = [listing EXCEPT !.filter = f, !.search = s, !.status = "loading",
                                   !.error = FALSE, !.calls = Append(listing.calls, c)]
    BY <1>2, <2>1 DEF FetchArenas, ListingTypeOK
  <2>3. listing'.filter = f /\ listing'.search = s /\ listing'.calls = Append(listing.calls, c)
    BY <2>2 DEF ListingTypeOK
  <2>4. c \in Lookups /\ listing.calls \in Seq(Lookups)
    BY <2>1 DEF Lookups, ListingTypeOK
  <2>5. /\ Append(listing.calls, c) \in Seq(Lookups)
        /\ Append(listing.calls, c) # << >>
        /\ Append(listing.calls, c)[Len(Append(listing.calls, c))] = c
    BY <2>4
  <2>6. ListingTypeOK'
    BY <2>2, <2>3, <2>5 DEF ListingTypeOK
  <2>7. LastIsAsked'
    BY <2>1, <2>3, <2>5 DEF LastIsAsked
  <2> QED BY <2>6, <2>7
<1> QED BY <1>1, <1>2

LEMMA ListingStep ==
    ListingTypeOK /\ LastIsAsked /\ [BrowseNext \/ LookupNext]_gamesVars
        => (ListingTypeOK /\ LastIsAsked)'
<1> SUFFICES ASSUME ListingTypeOK, LastIsAsked, [BrowseNext \/ LookupNext]_gamesVars
             PROVE  (ListingTypeOK /\ LastIsAsked)'
  OBVIOUS
<1>1. CASE UNCHANGED listing
  BY <1>1 DEF ListingTypeOK, LastIsAsked
<1>2. CASE SetFilterOrSearch
  <2>1. \E f \in Filters, s \in Searches :
            listing' = FetchArenas([listing EXCEPT !.filter = f, !.search = s])
    <3> DEFINE l == listing
    <3>1. /\ l.filter \in Filters /\ l.search \in Searches
          /\ l = [filter |-> l.filter, search |-> l.search, calls |-> l.calls,
                  shown |-> l.shown, status |-> l.status, error |-> l.error]
      BY DEF ListingTypeOK
    <3>2. ASSUME NEW f, listing' = FetchArenas([l EXCEPT !.filter = f])
          PROVE  listing' = FetchArenas([l EXCEPT !.filter = f, !.search = l.search])
      BY <3>1, <3>2
    <3>3. ASSUME NEW s, listing' = FetchArenas([l EXCEPT !.search = s])
          PROVE  listing' = FetchArenas([l EXCEPT !.filter = l.filter, !.search = s])
      BY <3>1, <3>3
    <3>4. ASSUME listing' = FetchArenas(l)
          PROVE  listing' = FetchArenas([l EXCEPT !.filter = l.filter, !.search = l.search])
      BY <3>1, <3>4
    <3> QED BY <1>2, <3>1, <3>2, <3>3, <3>4 DEF SetFilterOrSearch
  <2> QED BY <2>1, FetchedIsAsked
<1>3. CASE ArenasFetched
  <2> DEFINE calls == listing.calls
  <2>1. calls \in Seq(Lookups) /\ calls # << >>
    BY <1>3 DEF ArenasFetched, ListingTypeOK
  <2>2. listing' = [listing EXCEPT !.calls = Tail(calls), !.shown = Head(calls),
                                   !.status = "success"]
    BY <1>3 DEF ArenasFetched
  <2>3. /\ listing'.filter = listing.filter /\ listing'.search = listing.search
        /\ listing'.calls = Tail(calls) /\ listing'.shown = Head(calls)
    BY <2>2 DEF ListingTypeOK
  <2>4. /\ Tail(calls) \in Seq(Lookups)
        /\ Tail(calls) = << >> => Head(calls) = calls[Len(calls)]
        /\ Tail(calls) # << >> => Tail(calls)[Len(Tail(calls))] = calls[Len(calls)]
    <3>1. Len(calls) \in Nat \ {0} /\ Len(Tail(calls)) = Len(calls) - 1
      BY <2>1, EmptySeq, HeadTailProperties
    <3>2. Tail(calls) \in Seq(Lookups) /\ Head(calls) = calls[1]
      BY <2>1, HeadTailProperties
    <3>3. ASSUME Tail(calls) # << >>
          PROVE  Tail(calls)[Len(Tail(calls))] = calls[Len(calls)]
      <4>1. Len(Tail(calls)) \in 1 .. Len(Tail(calls))
        BY <3>2, <3>3, EmptySeq, LenProperties
      <4>2. Tail(calls)[Len(Tail(calls))] = calls[Len(Tail(calls)) + 1]
        BY <2>1, <4>1, HeadTailProperties
      <4>3. Len(Tail(calls)) + 1 = Len(calls)
        BY <3>1
      <4> QED BY <4>2, <4>3
    <3>4. Tail(calls) = << >> => Len(calls) = 1
      <4>1. Tail(calls) = << >> => Len(Tail(calls)) = 0
        BY <3>2, EmptySeq, Zenon
      <4> QED BY <3>1, <4>1
    <3> QED BY <3>2, <3>3, <3>4
  <2>5. ListingTypeOK'
    BY <2>2, <2>3, <2>4 DEF ListingTypeOK
  <2>6. LastIsAsked'
    BY <2>1, <2>3, <2>4 DEF LastIsAsked
  <2> QED BY <2>5, <2>6
<1> QED
  BY <1>1, <1>2, <1>3
     DEF BrowseNext, LookupNext, gamesVars, ClickTab, TypeSearch, Debounced, Navigated, SidebarLink,
         Loaded, ClearFilters, Opened, Look, FoundNumber, FoundText

\* At rest useArenas shows the arenas of the filter and search that are set
\* (useArenas.ts fetchArenas).
THEOREM ListedIsAlwaysAsked == GamesSpec => []ListedIsAsked
<1>1. ListingTypeOK /\ LastIsAsked => ListedIsAsked
  BY DEF LastIsAsked, ListedIsAsked
<1> QED BY <1>1, ListingInit, ListingStep, PTL DEF GamesSpec
=============================================================================
