------------------------------ MODULE Execute ------------------------------
(***************************************************************************)
(* The NONCE, EXECUTE and TRANSACTION handlers (internal/server/handler.go) *)
(* over the NonceManager (internal/core/nonce.go), manager.Execute and the *)
(* pool.  A client asks for a challenge and answers it with one signed     *)
(* command; the challenge is taken before the signature is looked at, and  *)
(* the command becomes a transaction that is mined at once or stays        *)
(* pending and is gossiped.  Requests are repeated, answered late and      *)
(* answered by the wrong sender at will, on any number of connections,     *)
(* each with its own goroutine; the process restarts and forgets           *)
(* challenges and pool.  Peers gossip what was executed at them into the   *)
(* same pool, without any check for repetition, and send blocks, whose     *)
(* transactions leave the pool.                                            *)
(*                                                                         *)
(* Each operation that holds the NonceManager's or the Mempool's mutex is  *)
(* one step.  A transaction carries the nonce its command was signed with, *)
(* so it is known by that nonce.                                           *)
(***************************************************************************)
EXTENDS Naturals, Sequences

CONSTANTS Nonces,     \* what 16 random bytes may be; none is drawn twice
          Foreign,    \* the nonces other nodes draw for their clients
          Senders,
          Threads,    \* one goroutine per connection
          Lifetime,   \* two minutes
          Threshold,  \* pending transactions of one sender that make a block
          MaxTime     \* bound on the clock

ASSUME ExecuteAssumption ==
    /\ Nonces \cap Foreign = {}
    /\ Lifetime \in Nat
    /\ Threshold \in Nat \ {0}
    /\ MaxTime \in Nat

VARIABLES now,         \* time.Now()
          challenges,  \* NonceManager.challenges
          issued,      \* history: every challenge ever drawn
          call,        \* the handler each goroutine is in
          pending,     \* Mempool.PendingTxs, the nonces only
          mined,       \* transactions in the blocks of this node
          sending,     \* the goroutines of Broadcast: transactions on their way
          gossiped,    \* transactions sent to the peers
          lost,        \* history: transactions whose Send failed
          runs,        \* history: how often an EXECUTE ran on each nonce
          succeeded    \* history: transactions answered with Success

gossip == <<sending, gossiped, lost>>
ledger == <<pending, mined, gossip, succeeded>>
vars == <<now, challenges, issued, call, ledger, runs>>

Txs == Nonces \cup Foreign

Info == [sender : Senders, expires : Nat]

\* An EXECUTE: its next step; its nonce; how the contract function ended ("ok" or
\* "failed", the errContract of the code); and what Add released to be mined.
Call == [at : {"idle", "check", "run", "add", "mine", "gossip"},
         nonce : Nonces, sender : Senders, time : Nat,
         outcome : {"ok", "failed"}, released : Seq(Txs)]

\* A TRANSACTION whose Add released a block, and the handler of a block that
\* was stored and is yet to leave the pool.
PeerCall == [at : {"relay"}, released : Seq(Txs)]
            \cup [at : {"filter"}, block : SUBSET Txs]

Idle == [at |-> "idle"]

TypeOK ==
    /\ now \in Nat
    /\ DOMAIN challenges \subseteq Nonces
    /\ \A n \in DOMAIN challenges : challenges[n] \in Info
    /\ DOMAIN issued \subseteq Nonces
    /\ \A n \in DOMAIN issued : issued[n] \in Info
    /\ call \in [Threads -> Call \cup PeerCall \cup {Idle}]
    /\ pending \in [Senders -> Seq(Txs)]
    /\ mined \subseteq Txs
    /\ sending \subseteq Nonces /\ gossiped \subseteq Nonces /\ lost \subseteq Nonces
    /\ runs \in [Nonces -> Nat]
    /\ succeeded \subseteq Nonces

Empty == [n \in {} |-> n]

Init ==
    /\ now = 0
    /\ challenges = Empty
    /\ issued = Empty
    /\ call = [t \in Threads |-> Idle]
    /\ pending = [s \in Senders |-> <<>>]
    /\ mined = {}
    /\ sending = {} /\ gossiped = {} /\ lost = {}
    /\ runs = [n \in Nonces |-> 0]
    /\ succeeded = {}

-----------------------------------------------------------------------------
\* NonceManager

Tick ==
    /\ now < MaxTime
    /\ now' = now + 1
    /\ UNCHANGED <<challenges, issued, call, ledger, runs>>

Extended(f, n, v) == [m \in DOMAIN f \cup {n} |-> IF m = n THEN v ELSE f[m]]
Without(f, n) == [m \in DOMAIN f \ {n} |-> f[m]]

\* mutant: the sender is not stored
GenerateUnowned(s) ==
    \E n \in Nonces \ DOMAIN issued :
        LET info == [sender |-> s, expires |-> now + Lifetime] IN
          /\ challenges' = Extended(challenges, n, [expires |-> info.expires])
          /\ issued' = Extended(issued, n, info)
          /\ UNCHANGED <<now, call, ledger, runs>>

\* NONCE: draw a challenge for a sender
GenerateChallenge(s) ==
    \E n \in Nonces \ DOMAIN issued :
        LET info == [sender |-> s, expires |-> now + Lifetime] IN
          /\ challenges' = Extended(challenges, n, info)
          /\ issued' = Extended(issued, n, info)
          /\ UNCHANGED <<now, call, ledger, runs>>

\* the two checks that follow the lookup
Answers(s, n) ==
    /\ challenges[n].sender = s
    /\ ~ (now > challenges[n].expires)

Goto(t, state) == call' = [call EXCEPT ![t] = state]

Started(s, n) == [at |-> "check", nonce |-> n, sender |-> s, time |-> now,
                  outcome |-> "ok", released |-> <<>>]

\* mutant: the challenge is deleted only when one of the checks fails
ConsumeFailedOnly(t, s, n) ==
    /\ call[t].at = "idle" /\ n \in DOMAIN challenges
    /\ challenges' = IF Answers(s, n) THEN challenges ELSE Without(challenges, n)
    /\ IF Answers(s, n) THEN Goto(t, Started(s, n)) ELSE UNCHANGED call
    /\ UNCHANGED <<now, issued, ledger, runs>>

\* EXECUTE arrives: the challenge is looked up and deleted, whatever the
\* checks say then (an unknown nonce is refused and changes nothing)
VerifyAndConsume(t, s, n) ==
    /\ call[t].at = "idle" /\ n \in DOMAIN challenges
    /\ challenges' = Without(challenges, n)
    /\ IF Answers(s, n) THEN Goto(t, Started(s, n)) ELSE UNCHANGED call
    /\ UNCHANGED <<now, issued, ledger, runs>>

-----------------------------------------------------------------------------
\* the rest of the EXECUTE handler, and manager.Execute

Return(t) == Goto(t, Idle)

\* the sender's key and signature do not check out: the challenge is gone
Refuse(t) ==
    /\ call[t].at = "check"
    /\ Return(t)
    /\ UNCHANGED <<now, challenges, issued, ledger, runs>>

Accept(t) ==
    /\ call[t].at = "check"
    /\ Goto(t, [call[t] EXCEPT !.at = "run"])
    /\ UNCHANGED <<now, challenges, issued, ledger, runs>>

\* ExecuteOnly: no permission or no such contract ends the call; the error of
\* the contract function is carried along and does not
Run(t) ==
    /\ call[t].at = "run"
    /\ \/ /\ Return(t)
          /\ UNCHANGED runs
       \/ \E outcome \in {"ok", "failed"} :
            /\ Goto(t, [call[t] EXCEPT !.at = "add", !.outcome = outcome])
            /\ runs' = [runs EXCEPT ![call[t].nonce] = @ + 1]
    /\ UNCHANGED <<now, challenges, issued, ledger>>

\* Mempool.Add: a full list is released to be mined
AddTx(t) ==
    LET s == call[t].sender
        list == Append(pending[s], call[t].nonce) IN
      /\ call[t].at = "add"
      /\ IF Len(list) >= Threshold
         THEN /\ pending' = [pending EXCEPT
                               ![s] = SubSeq(list, Threshold + 1, Len(list))]
              /\ Goto(t, [call[t] EXCEPT !.at = "mine",
                            !.released = SubSeq(list, 1, Threshold)])
         ELSE /\ pending' = [pending EXCEPT ![s] = list]
              /\ Goto(t, [call[t] EXCEPT !.at = "gossip"])
      /\ UNCHANGED <<now, challenges, issued, mined, gossip, runs, succeeded>>

Succeeds(t) == call[t].outcome = "ok"

Answer(t) == succeeded' = succeeded \cup
                (IF Succeeds(t) THEN {call[t].nonce} ELSE {})

\* MineBlock makes a block of what was released and announces it, or fails
\* and the call ends with an error
MineTxs(t) ==
    /\ call[t].at = "mine"
    /\ \/ /\ mined' = mined \cup {call[t].released[i] : i \in 1..Threshold}
          /\ Answer(t)
       \/ UNCHANGED <<mined, succeeded>>
    /\ Return(t)
    /\ UNCHANGED <<now, challenges, issued, pending, gossip, runs>>

\* mutant: only what is still in the pool by now is gossiped
GossipIfStillPending(t) ==
    /\ call[t].at = "gossip"
    /\ sending' = sending \cup
         {n \in {pending[call[t].sender][i] : i \in DOMAIN pending[call[t].sender]} :
              n = call[t].nonce /\ Succeeds(t)}
    /\ Answer(t)
    /\ Return(t)
    /\ UNCHANGED <<now, challenges, issued, pending, mined, gossiped, lost, runs>>

\* minedBlock == nil: start to gossip the transaction, unless the contract
\* failed, and answer
GossipTx(t) ==
    /\ call[t].at = "gossip"
    /\ sending' = sending \cup (IF Succeeds(t) THEN {call[t].nonce} ELSE {})
    /\ Answer(t)
    /\ Return(t)
    /\ UNCHANGED <<now, challenges, issued, pending, mined, gossiped, lost, runs>>

\* Broadcast's own goroutines: the transaction gets out, or there is no peer to
\* send it to, or Send fails, which nobody looks at
SendTx(n) ==
    /\ n \in sending
    /\ sending' = sending \ {n}
    /\ \/ gossiped' = gossiped \cup {n} /\ UNCHANGED lost
       \/ lost' = lost \cup {n} /\ UNCHANGED gossiped
    /\ UNCHANGED <<now, challenges, issued, call, pending, mined, runs, succeeded>>

-----------------------------------------------------------------------------
\* what peers send

\* TRANSACTION: what was executed elsewhere is added to the pool, however often
\* it comes and whether or not it is in a block by now
AddForeign(t, s, n) ==
    LET list == Append(pending[s], n) IN
      /\ call[t].at = "idle" /\ n \in Foreign
      /\ IF Len(list) >= Threshold
         THEN /\ pending' = [pending EXCEPT
                               ![s] = SubSeq(list, Threshold + 1, Len(list))]
              /\ Goto(t, [at |-> "relay", released |-> SubSeq(list, 1, Threshold)])
         ELSE /\ pending' = [pending EXCEPT ![s] = list]
              /\ UNCHANGED call
      /\ UNCHANGED <<now, challenges, issued, mined, gossip, runs, succeeded>>

\* MineBlock in the TRANSACTION handler
MineForeign(t) ==
    /\ call[t].at = "relay"
    /\ \/ mined' = mined \cup {call[t].released[i] : i \in 1..Threshold}
       \/ UNCHANGED mined
    /\ Return(t)
    /\ UNCHANGED <<now, challenges, issued, pending, gossip, runs, succeeded>>

\* NEW_BLOCK or SEND_CHAIN: a block of what peers have, ours included, is stored
StoreBlock(t, block) ==
    /\ call[t].at = "idle"
    /\ block \subseteq Foreign \cup gossiped /\ block # {}
    /\ mined' = mined \cup block
    /\ Goto(t, [at |-> "filter", block |-> block])
    /\ UNCHANGED <<now, challenges, issued, pending, gossip, runs, succeeded>>

\* f lists, in order, where a list holds something other than these
Keeps(f, list, block) ==
    /\ \A i, j \in DOMAIN f : i < j => f[i] < f[j]
    /\ {f[i] : i \in DOMAIN f} = {i \in DOMAIN list : list[i] \notin block}

Places(list) == UNION {[1..k -> 1..Len(list)] : k \in 0..Len(list)}

\* its transactions leave the pool; SEND_CHAIN ends before that when its Commit
\* fails
RemoveIncluded(t) ==
    /\ call[t].at = "filter"
    /\ \/ \E kept \in [Senders -> UNION {Places(pending[s]) : s \in Senders}] :
            /\ \A s \in Senders : /\ kept[s] \in Places(pending[s])
                                  /\ Keeps(kept[s], pending[s], call[t].block)
            /\ pending' = [s \in Senders |->
                             [i \in DOMAIN kept[s] |-> pending[s][kept[s][i]]]]
       \/ UNCHANGED pending
    /\ Return(t)
    /\ UNCHANGED <<now, challenges, issued, mined, gossip, runs, succeeded>>

\* the process stops and starts: only the blocks survive
Restart ==
    /\ challenges' = Empty
    /\ call' = [t \in Threads |-> Idle]
    /\ pending' = [s \in Senders |-> <<>>]
    /\ sending' = {} /\ lost' = lost \cup sending
    /\ UNCHANGED <<now, issued, mined, gossiped, runs, succeeded>>

-----------------------------------------------------------------------------
Handle(t) ==
    \/ \E s \in Senders, n \in Nonces : VerifyAndConsume(t, s, n)
    \/ Refuse(t) \/ Accept(t)
    \/ Run(t)
    \/ AddTx(t) \/ MineTxs(t) \/ GossipTx(t)

HandlePeer(t) ==
    \/ \E s \in Senders, n \in Foreign : AddForeign(t, s, n)
    \/ MineForeign(t)
    \/ \E block \in SUBSET (Foreign \cup gossiped) : StoreBlock(t, block)
    \/ RemoveIncluded(t)

Next ==
    \/ Tick
    \/ Restart
    \/ \E s \in Senders : GenerateChallenge(s)
    \/ \E t \in Threads : Handle(t) \/ HandlePeer(t)
    \/ \E n \in Nonces : SendTx(n)

Spec == Init /\ [][Next]_vars

-----------------------------------------------------------------------------
\* One challenge lets at most one EXECUTE run its command, however often the
\* answer is repeated, on however many connections, and across restarts
\* (nonce.go:49: "verify and delete at once to prevent replay").
RunsOnce == \A n \in Nonces : runs[n] <= 1

\* A command under way answers a challenge that was drawn for its own sender,
\* and came before the deadline, however long the call has been running since.
Underway(t) == call[t].at \notin {"idle", "relay", "filter"}
Timely ==
    \A t \in Threads : Underway(t) =>
        LET n == call[t].nonce IN
          /\ n \in DOMAIN issued
          /\ issued[n].sender = call[t].sender
          /\ call[t].time <= issued[n].expires

\* A client that was answered Success has its transaction in a block, or it was
\* handed to Broadcast, whose Send may still be under way, done, or have failed:
\* also when what peers send fills and empties the list in between.
SuccessAnnounced == succeeded \subseteq mined \cup gossiped \cup sending \cup lost
=============================================================================
