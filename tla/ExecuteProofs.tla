--------------------------- MODULE ExecuteProofs ---------------------------
(***************************************************************************)
(* Proofs about Execute for any nonces, senders, connections, lifetime and *)
(* threshold.  That no challenge lets two commands run rests on where a    *)
(* nonce is: not drawn yet, in the NonceManager, or with one call alone,   *)
(* and only the last has ever run (NonceInv).  That every Success is       *)
(* announced rests on the pool: a list is released by the transaction that *)
(* fills it, which is therefore in it (PoolInv).                           *)
(***************************************************************************)
EXTENDS Execute, SequenceTheorems, TLAPS

\* what a goroutine may be in
State == Call \cup PeerCall \cup {Idle}

\* what is in the NonceManager was drawn, and did not run
ChallengesUnused ==
  \A n \in DOMAIN challenges :
    n \in DOMAIN issued /\ challenges[n] = issued[n] /\ runs[n] = 0

UndrawnUnused == \A n \in Nonces \ DOMAIN issued : runs[n] = 0

\* a call has its nonce for itself
CallsApart ==
  \A t \in Threads : Underway(t) =>
    /\ call[t].nonce \notin DOMAIN challenges
    /\ \A u \in Threads \ {t} : Underway(u) => call[u].nonce # call[t].nonce

RunsLater ==
  \A t \in Threads : call[t].at \in {"check", "run"} => runs[call[t].nonce] = 0

NonceInv ==
  /\ ChallengesUnused /\ UndrawnUnused
  /\ CallsApart /\ RunsLater
  /\ Timely /\ RunsOnce

\* Between two calls of Add no list is full, and a block is released by the
\* transaction that fills it.
PoolInv ==
  /\ \A s \in Senders : Len(pending[s]) < Threshold
  /\ \A t \in Threads : call[t].at \in {"mine", "relay"} => Len(call[t].released) = Threshold
  /\ \A t \in Threads : call[t].at = "mine" => call[t].released[Threshold] = call[t].nonce

IInv == TypeOK /\ PoolInv /\ NonceInv /\ SuccessAnnounced

-----------------------------------------------------------------------------
\* A goroutine between two calls.
LEMMA IdleFacts == Idle.at = "idle" /\ Idle \in State
BY DEF Idle, State

\* A call under way that moves on.
LEMMA MoveFacts ==
  ASSUME NEW c \in Call, NEW label \in {"run", "add", "mine", "gossip"}
  PROVE  /\ [c EXCEPT !.at = label] \in Call /\ [c EXCEPT !.at = label] \in State
         /\ [c EXCEPT !.at = label].at = label
         /\ [c EXCEPT !.at = label].nonce = c.nonce
         /\ [c EXCEPT !.at = label].sender = c.sender
         /\ [c EXCEPT !.at = label].time = c.time
         /\ [c EXCEPT !.at = label].released = c.released
BY DEF Call, State

\* The contract function has run, with this outcome.
LEMMA EndFacts ==
  ASSUME NEW c \in Call, NEW outcome \in {"ok", "failed"}
  PROVE  /\ [c EXCEPT !.at = "add", !.outcome = outcome] \in Call
         /\ [c EXCEPT !.at = "add", !.outcome = outcome] \in State
         /\ [c EXCEPT !.at = "add", !.outcome = outcome].at = "add"
         /\ [c EXCEPT !.at = "add", !.outcome = outcome].nonce = c.nonce
         /\ [c EXCEPT !.at = "add", !.outcome = outcome].sender = c.sender
         /\ [c EXCEPT !.at = "add", !.outcome = outcome].time = c.time
BY DEF Call, State

\* Add has released this list to be mined.
LEMMA ReleaseFacts ==
  ASSUME NEW c \in Call, NEW list \in Seq(Txs)
  PROVE  /\ [c EXCEPT !.at = "mine", !.released = list] \in Call
         /\ [c EXCEPT !.at = "mine", !.released = list] \in State
         /\ [c EXCEPT !.at = "mine", !.released = list].at = "mine"
         /\ [c EXCEPT !.at = "mine", !.released = list].nonce = c.nonce
         /\ [c EXCEPT !.at = "mine", !.released = list].sender = c.sender
         /\ [c EXCEPT !.at = "mine", !.released = list].time = c.time
         /\ [c EXCEPT !.at = "mine", !.released = list].released = list
BY DEF Call, State

\* The challenge was consumed for this sender.
LEMMA StartFacts ==
  ASSUME TypeOK, NEW s \in Senders, NEW n \in Nonces
  PROVE  /\ Started(s, n) \in Call /\ Started(s, n) \in State
         /\ Started(s, n).at = "check" /\ Started(s, n).nonce = n
         /\ Started(s, n).sender = s /\ Started(s, n).time = now
BY EmptySeq DEF Started, Call, TypeOK, State

\* Only the goroutine that steps changes its call.
LEMMA GotoFacts ==
  ASSUME TypeOK, NEW t \in Threads, NEW state \in State, Goto(t, state)
  PROVE  /\ call' \in [Threads -> State]
         /\ call'[t] = state /\ \A u \in Threads \ {t} : call'[u] = call[u]
BY DEF TypeOK, Goto, State

\* An EXECUTE under way has a nonce and a sender.
LEMMA UnderwayCall ==
  ASSUME TypeOK, NEW t \in Threads, Underway(t)
  PROVE  call[t] \in Call /\ call[t].nonce \in Nonces /\ call[t].sender \in Senders
BY DEF TypeOK, Call, PeerCall, Idle, Underway

-----------------------------------------------------------------------------
\* No challenge is drawn, no call under way and the pool empty.
LEMMA InitInv == Init => IInv
<1> SUFFICES ASSUME Init PROVE IInv
  OBVIOUS
<1>1. DOMAIN challenges = {} /\ DOMAIN issued = {}
  BY DEF Init, Empty
<1>2. \A t \in Threads : call[t].at = "idle"
  BY IdleFacts DEF Init
<1>3. TypeOK
  BY <1>1, IdleFacts, EmptySeq DEF Init, TypeOK, State
<1>4. \A n \in Nonces : runs[n] = 0
  BY DEF Init
<1>5. NonceInv
  BY <1>1, <1>2, <1>4
     DEF NonceInv, ChallengesUnused, UndrawnUnused, CallsApart, RunsLater, Timely, RunsOnce,
         Underway
<1>6. PoolInv /\ SuccessAnnounced
  BY <1>2, EmptySeq, ExecuteAssumption DEF Init, PoolInv, SuccessAnnounced
<1> QED
  BY <1>3, <1>5, <1>6 DEF IInv

\* The list of a sender with one more transaction, and its two parts.
LEMMA ListFacts ==
  ASSUME TypeOK, NEW s \in Senders, NEW n \in Txs, ExecuteAssumption
  PROVE  LET list == Append(pending[s], n) IN
           /\ list \in Seq(Txs) /\ Len(list) = Len(pending[s]) + 1
           /\ list[Len(list)] = n
           /\ Len(list) >= Threshold =>
                /\ SubSeq(list, 1, Threshold) \in Seq(Txs)
                /\ Len(SubSeq(list, 1, Threshold)) = Threshold
                /\ \A i \in 1..Threshold : SubSeq(list, 1, Threshold)[i] = list[i]
                /\ SubSeq(list, Threshold + 1, Len(list)) \in Seq(Txs)
                /\ Len(SubSeq(list, Threshold + 1, Len(list))) = Len(list) - Threshold
<1> DEFINE list == Append(pending[s], n)
<1>1. pending[s] \in Seq(Txs)
  BY DEF TypeOK
<1>2. list \in Seq(Txs) /\ Len(list) = Len(pending[s]) + 1 /\ list[Len(list)] = n
  BY <1>1, AppendProperties
<1> HIDE DEF list
<1>3. ASSUME Len(list) >= Threshold
      PROVE  /\ SubSeq(list, 1, Threshold) \in Seq(Txs)
             /\ Len(SubSeq(list, 1, Threshold)) = Threshold
             /\ \A i \in 1..Threshold : SubSeq(list, 1, Threshold)[i] = list[i]
             /\ SubSeq(list, Threshold + 1, Len(list)) \in Seq(Txs)
             /\ Len(SubSeq(list, Threshold + 1, Len(list))) = Len(list) - Threshold
  <2>1. Threshold \in Nat \ {0} /\ Len(list) \in Nat
    BY <1>2, ExecuteAssumption, LenProperties
  <2>2. 1 \in 1..Len(list)+1 /\ Threshold \in 0..Len(list)
        /\ Threshold + 1 \in 1..Len(list)+1 /\ Len(list) \in Threshold..Len(list)
    BY <1>3, <2>1
  <2> QED
    BY <1>2, <1>3, <2>1, <2>2, SubSeqProperties
<1> QED
  BY <1>2, <1>3 DEF list

\* A TRANSACTION joins a list, or completes the block that leaves it.
LEMMA AddForeignFacts ==
  ASSUME TypeOK, PoolInv, NEW t \in Threads, NEW s \in Senders, NEW n \in Foreign,
         AddForeign(t, s, n)
  PROVE  /\ pending' \in [Senders -> Seq(Txs)]
         /\ \A r \in Senders : Len(pending'[r]) < Threshold
         /\ call' \in [Threads -> State]
         /\ \A u \in Threads \ {t} : call'[u] = call[u]
         /\ \/ call'[t].at = "idle"
            \/ call'[t].at = "relay" /\ Len(call'[t].released) = Threshold
<1> DEFINE list == Append(pending[s], n)
           block == SubSeq(list, 1, Threshold)
           rest == SubSeq(list, Threshold + 1, Len(list))
           relay == [at |-> "relay", released |-> block]
<1>1. /\ list \in Seq(Txs) /\ Len(list) = Len(pending[s]) + 1
      /\ Len(list) >= Threshold =>
           /\ block \in Seq(Txs) /\ Len(block) = Threshold
           /\ rest \in Seq(Txs) /\ Len(rest) = Len(list) - Threshold
  <2>1. n \in Txs
    BY DEF Txs
  <2> QED
    BY <2>1, ListFacts, ExecuteAssumption
<1>2. /\ pending \in [Senders -> Seq(Txs)] /\ Len(pending[s]) < Threshold
      /\ Len(pending[s]) \in Nat /\ Threshold \in Nat \ {0}
  BY ExecuteAssumption, LenProperties DEF TypeOK, PoolInv
<1>3. \/ /\ Len(list) >= Threshold
         /\ pending' = [pending EXCEPT ![s] = rest] /\ Goto(t, relay)
      \/ /\ ~ (Len(list) >= Threshold)
         /\ pending' = [pending EXCEPT ![s] = list] /\ UNCHANGED call
  BY DEF AddForeign
<1>4. block \in Seq(Txs) => relay \in State
  BY DEF State, PeerCall
<1>5. relay.at = "relay" /\ relay.released = block
  OBVIOUS
<1>6. call[t].at = "idle" /\ call \in [Threads -> State]
  BY DEF AddForeign, TypeOK, State
<1> HIDE DEF list, block, rest, relay
<1>7. CASE Len(list) >= Threshold
  <2>1. Goto(t, relay) /\ relay \in State /\ pending' = [pending EXCEPT ![s] = rest]
    BY <1>1, <1>3, <1>4, <1>7
  <2>2. /\ call' \in [Threads -> State] /\ call'[t] = relay
        /\ \A u \in Threads \ {t} : call'[u] = call[u]
    BY <2>1, GotoFacts
  <2>3. rest \in Seq(Txs) /\ Len(rest) < Threshold
    BY <1>1, <1>2, <1>7
  <2> QED
    BY <1>1, <1>2, <1>5, <1>7, <2>1, <2>2, <2>3 DEF PoolInv
<1>8. CASE ~ (Len(list) >= Threshold)
  <2>1. UNCHANGED call /\ pending' = [pending EXCEPT ![s] = list]
    BY <1>3, <1>8
  <2>2. list \in Seq(Txs) /\ Len(list) < Threshold
    BY <1>1, <1>2, <1>8
  <2> QED
    BY <1>2, <1>6, <2>1, <2>2 DEF PoolInv
<1> QED
  BY <1>7, <1>8

\* What RemoveIncluded keeps of a list is a list of the same things, no longer.
LEMMA FilterFacts ==
  ASSUME TypeOK, NEW t \in Threads, RemoveIncluded(t)
  PROVE  /\ pending' \in [Senders -> Seq(Txs)]
         /\ \A s \in Senders : Len(pending'[s]) <= Len(pending[s])
<1>1. \A s \in Senders : pending[s] \in Seq(Txs) /\ Len(pending[s]) \in Nat
  BY LenProperties DEF TypeOK
<1>2. CASE UNCHANGED pending
  BY <1>1, <1>2 DEF TypeOK
<1>3. ASSUME NEW kept, \A s \in Senders : kept[s] \in Places(pending[s]),
             pending' = [s \in Senders |->
                          [i \in DOMAIN kept[s] |-> pending[s][kept[s][i]]]]
      PROVE  /\ pending' \in [Senders -> Seq(Txs)]
             /\ \A s \in Senders : Len(pending'[s]) <= Len(pending[s])
  <2>1. ASSUME NEW s \in Senders
        PROVE  pending'[s] \in Seq(Txs) /\ Len(pending'[s]) <= Len(pending[s])
    <3>1. PICK k \in 0..Len(pending[s]) : kept[s] \in [1..k -> 1..Len(pending[s])]
      BY <1>3 DEF Places
    <3>2. pending'[s] = [i \in 1..k |-> pending[s][kept[s][i]]]
      BY <1>3, <3>1
    <3>3. \A i \in 1..k : pending[s][kept[s][i]] \in Txs
      BY <1>1, <3>1, ElementOfSeq
    <3>4. pending'[s] \in [1..k -> Txs] /\ k \in Nat
      BY <1>1, <3>1, <3>2, <3>3
    <3>5. pending'[s] \in Seq(Txs) /\ Len(pending'[s]) = k
      BY <3>4, SeqDef, LenProperties
    <3> QED
      BY <1>1, <3>1, <3>5
  <2> QED
    BY <1>3, <2>1
<1> QED
  BY <1>2, <1>3 DEF RemoveIncluded

\* Each action keeps the types (MineTxs because of the length of what it mines).
LEMMA TypeNext == TypeOK /\ PoolInv /\ [Next]_vars => TypeOK'
<1> SUFFICES ASSUME TypeOK, PoolInv, [Next]_vars PROVE TypeOK'
  OBVIOUS
<1>1. CASE UNCHANGED vars
  BY <1>1 DEF TypeOK, vars, ledger, gossip
<1>2. CASE Tick
  BY <1>2 DEF TypeOK, Tick, ledger, gossip
<1>3. CASE Restart
  BY <1>3, IdleFacts, EmptySeq DEF TypeOK, Restart, Empty, State
<1>4. ASSUME NEW s \in Senders, GenerateChallenge(s) PROVE TypeOK'
  <2>1. PICK n \in Nonces \ DOMAIN issued :
          LET info == [sender |-> s, expires |-> now + Lifetime] IN
            challenges' = Extended(challenges, n, info) /\ issued' = Extended(issued, n, info)
    BY <1>4 DEF GenerateChallenge
  <2> DEFINE info == [sender |-> s, expires |-> now + Lifetime]
  <2>2. info \in Info
    BY ExecuteAssumption DEF TypeOK, Info
  <2> HIDE DEF info
  <2>3. /\ DOMAIN challenges' \subseteq Nonces /\ DOMAIN issued' \subseteq Nonces
        /\ \A m \in DOMAIN challenges' : challenges'[m] \in Info
        /\ \A m \in DOMAIN issued' : issued'[m] \in Info
    BY <2>1, <2>2 DEF TypeOK, Extended, info
  <2> QED
    BY <1>4, <2>3 DEF TypeOK, GenerateChallenge, ledger, gossip, State
<1>5. ASSUME NEW t \in Threads, Handle(t) PROVE TypeOK'
  <2>1. ASSUME NEW s \in Senders, NEW n \in Nonces, VerifyAndConsume(t, s, n) PROVE TypeOK'
    <3>1. call' \in [Threads -> State]
      BY <2>1, StartFacts, GotoFacts DEF VerifyAndConsume, TypeOK, State
    <3> QED
      BY <2>1, <3>1 DEF TypeOK, VerifyAndConsume, Without, ledger, gossip, State
  <2>2. CASE Refuse(t) \/ Accept(t)
    <3>1. call' \in [Threads -> State]
      BY <2>2, UnderwayCall, MoveFacts, IdleFacts, GotoFacts DEF Refuse, Accept, Return, Underway
    <3> QED
      BY <2>2, <3>1 DEF TypeOK, Refuse, Accept, ledger, gossip, State
  <2>3. CASE Run(t)
    <3>1. call[t] \in Call /\ call[t].nonce \in Nonces
      BY <2>3, UnderwayCall DEF Run, Underway
    <3>2. call' \in [Threads -> State]
      BY <2>3, <3>1, EndFacts, IdleFacts, GotoFacts DEF Run, Return
    <3>3. runs' \in [Nonces -> Nat]
      BY <2>3, <3>1 DEF Run, TypeOK
    <3> QED
      BY <2>3, <3>2, <3>3 DEF TypeOK, Run, ledger, gossip, State
  <2>4. CASE AddTx(t)
    <3>1. /\ call[t] \in Call /\ call[t].nonce \in Nonces /\ call[t].sender \in Senders
      BY <2>4, UnderwayCall DEF AddTx, Underway
    <3> DEFINE list == Append(pending[call[t].sender], call[t].nonce)
               block == SubSeq(list, 1, Threshold)
               rest == SubSeq(list, Threshold + 1, Len(list))
    <3>2. /\ list \in Seq(Txs)
          /\ Len(list) >= Threshold => block \in Seq(Txs) /\ rest \in Seq(Txs)
      BY <3>1, ListFacts, ExecuteAssumption DEF Txs
    <3>0. \/ /\ Len(list) >= Threshold
             /\ pending' = [pending EXCEPT ![call[t].sender] = rest]
             /\ Goto(t, [call[t] EXCEPT !.at = "mine", !.released = block])
          \/ /\ pending' = [pending EXCEPT ![call[t].sender] = list]
             /\ Goto(t, [call[t] EXCEPT !.at = "gossip"])
      BY <2>4 DEF AddTx
    <3> HIDE DEF list, block, rest
    <3>3. call' \in [Threads -> State]
      <4>1. [call[t] EXCEPT !.at = "gossip"] \in Call
        BY <3>1, MoveFacts
      <4>2. CASE block \in Seq(Txs)
        <5>1. [call[t] EXCEPT !.at = "mine", !.released = block] \in Call
          BY <3>1, <4>2, ReleaseFacts
        <5> QED
          BY <3>0, <4>1, <5>1, GotoFacts DEF State
      <4> QED
        BY <3>0, <3>2, <4>1, <4>2, GotoFacts DEF State
    <3>4. pending' \in [Senders -> Seq(Txs)]
      <4>1. pending \in [Senders -> Seq(Txs)]
        BY DEF TypeOK
      <4>2. \A other \in Seq(Txs) :
              [pending EXCEPT ![call[t].sender] = other] \in [Senders -> Seq(Txs)]
        BY <3>1, <4>1
      <4> QED
        BY <3>0, <3>2, <4>2
    <3> QED
      BY <2>4, <3>3, <3>4 DEF TypeOK, AddTx, gossip, State
  <2>5. CASE MineTxs(t)
    <3>1. call[t].nonce \in Nonces /\ call[t].released \in Seq(Txs)
          /\ Len(call[t].released) = Threshold
      BY <2>5, UnderwayCall DEF MineTxs, Call, PoolInv, Underway
    <3>2. {call[t].released[i] : i \in 1..Threshold} \subseteq Txs
      BY <3>1, ElementOfSeq
    <3>3. mined' \subseteq Txs /\ succeeded' \subseteq Nonces
      BY <2>5, <3>1, <3>2 DEF MineTxs, Answer, TypeOK, gossip
    <3>4. call' \in [Threads -> State]
      BY <2>5, IdleFacts, GotoFacts DEF MineTxs, Return
    <3> QED
      BY <2>5, <3>3, <3>4 DEF TypeOK, MineTxs, gossip, State
  <2>6. CASE GossipTx(t)
    <3>1. call[t].nonce \in Nonces
      BY <2>6, UnderwayCall DEF GossipTx, Underway
    <3>2. call' \in [Threads -> State]
      BY <2>6, IdleFacts, GotoFacts DEF GossipTx, Return
    <3> QED
      BY <2>6, <3>1, <3>2 DEF TypeOK, GossipTx, Answer, State
  <2> QED
    BY <1>5, <2>1, <2>2, <2>3, <2>4, <2>5, <2>6 DEF Handle
<1>6. ASSUME NEW t \in Threads, HandlePeer(t) PROVE TypeOK'
  <2>1. ASSUME NEW s \in Senders, NEW n \in Foreign, AddForeign(t, s, n) PROVE TypeOK'
    <3>1. call' \in [Threads -> State] /\ pending' \in [Senders -> Seq(Txs)]
      BY <2>1, AddForeignFacts
    <3> QED
      BY <2>1, <3>1 DEF TypeOK, AddForeign, gossip, State
  <2>2. CASE MineForeign(t)
    <3>1. call[t].released \in Seq(Txs) /\ Len(call[t].released) = Threshold
      BY <2>2 DEF MineForeign, TypeOK, PoolInv, Call, PeerCall, Idle
    <3>2. mined' \subseteq Txs
      BY <2>2, <3>1, ElementOfSeq DEF MineForeign, TypeOK
    <3>3. call' \in [Threads -> State]
      BY <2>2, IdleFacts, GotoFacts DEF MineForeign, Return
    <3> QED
      BY <2>2, <3>2, <3>3 DEF TypeOK, MineForeign, gossip, State
  <2>3. ASSUME NEW block \in SUBSET (Foreign \cup gossiped), StoreBlock(t, block) PROVE TypeOK'
    <3>1. block \subseteq Txs
      BY DEF TypeOK, Txs
    <3>2. call' \in [Threads -> State]
      BY <2>3, <3>1, GotoFacts DEF StoreBlock, State, PeerCall
    <3> QED
      BY <2>3, <3>1, <3>2 DEF TypeOK, StoreBlock, gossip, State
  <2>4. CASE RemoveIncluded(t)
    <3>1. call' \in [Threads -> State]
      BY <2>4, IdleFacts, GotoFacts DEF RemoveIncluded, Return
    <3>2. pending' \in [Senders -> Seq(Txs)]
      BY <2>4, FilterFacts
    <3> QED
      BY <2>4, <3>1, <3>2 DEF TypeOK, RemoveIncluded, gossip, State
  <2> QED
    BY <1>6, <2>1, <2>2, <2>3, <2>4 DEF HandlePeer
<1>7. ASSUME NEW n \in Nonces, SendTx(n) PROVE TypeOK'
  BY <1>7 DEF TypeOK, SendTx
<1> QED
  BY <1>1, <1>2, <1>3, <1>4, <1>5, <1>6, <1>7 DEF Next

-----------------------------------------------------------------------------
\* Each action keeps the lists short and every Success announced: Add, MineTxs
\* and GossipTx are the ones that could not.
LEMMA PoolNext == IInv /\ [Next]_vars => PoolInv' /\ SuccessAnnounced'
<1> SUFFICES ASSUME IInv, [Next]_vars PROVE PoolInv' /\ SuccessAnnounced'
  OBVIOUS
<1>0. TypeOK /\ PoolInv /\ SuccessAnnounced
  BY DEF IInv
\* steps that leave the pool alone, and put no call before MineTxs
<1>1. ASSUME UNCHANGED ledger,
             \A t \in Threads : call'[t] = call[t] \/ call'[t].at \notin {"mine", "relay"}
      PROVE  PoolInv' /\ SuccessAnnounced'
  BY <1>0, <1>1 DEF PoolInv, SuccessAnnounced, ledger, gossip
<1>2. CASE UNCHANGED vars \/ Tick
  BY <1>1, <1>2 DEF vars, Tick, ledger
<1>3. CASE Restart
  <2>1. /\ \A t \in Threads : call'[t].at = "idle"
        /\ \A s \in Senders : Len(pending'[s]) = 0
        /\ UNCHANGED <<mined, gossiped, succeeded>> /\ lost' = lost \cup sending
    BY <1>3, IdleFacts, EmptySeq DEF Restart
  <2> QED
    BY <1>0, <2>1, ExecuteAssumption DEF PoolInv, SuccessAnnounced
<1>4. ASSUME NEW s \in Senders, GenerateChallenge(s) PROVE PoolInv' /\ SuccessAnnounced'
  BY <1>1, <1>4 DEF GenerateChallenge
<1>5. ASSUME NEW t \in Threads, Handle(t) PROVE PoolInv' /\ SuccessAnnounced'
  <2>1. ASSUME NEW s \in Senders, NEW n \in Nonces, VerifyAndConsume(t, s, n)
        PROVE  PoolInv' /\ SuccessAnnounced'
    <3>1. \A u \in Threads : call'[u] = call[u] \/ call'[u].at \notin {"mine", "relay"}
      BY <1>0, <2>1, StartFacts, GotoFacts DEF VerifyAndConsume
    <3> QED
      BY <1>1, <2>1, <3>1 DEF VerifyAndConsume
  <2>2. CASE Refuse(t) \/ Accept(t) \/ Run(t)
    <3>1. call[t] \in Call
      BY <1>0, <2>2, UnderwayCall DEF Refuse, Accept, Run, Underway
    <3> DEFINE Safe == \A u \in Threads : call'[u] = call[u] \/ call'[u].at \notin {"mine", "relay"}
    <3>2. ASSUME Refuse(t) PROVE Safe
      BY <1>0, <3>2, IdleFacts, GotoFacts DEF Refuse, Return
    <3>3. ASSUME Accept(t) PROVE Safe
      <4> DEFINE moved == [call[t] EXCEPT !.at = "run"]
      <4>1. moved \in Call /\ moved.at = "run"
        BY <3>1, MoveFacts
      <4>2. Goto(t, moved)
        BY <3>3 DEF Accept
      <4> HIDE DEF moved
      <4> QED
        BY <1>0, <4>1, <4>2, GotoFacts DEF State
    <3>4. ASSUME NEW outcome \in {"ok", "failed"},
                 Goto(t, [call[t] EXCEPT !.at = "add", !.outcome = outcome])
          PROVE  call'[t].at = "add" /\ \A u \in Threads \ {t} : call'[u] = call[u]
      <4> DEFINE moved == [call[t] EXCEPT !.at = "add", !.outcome = outcome]
      <4>1. moved \in Call /\ moved.at = "add"
        BY <3>1, EndFacts
      <4>2. Goto(t, moved)
        BY <3>4
      <4> HIDE DEF moved
      <4> QED
        BY <1>0, <4>1, <4>2, GotoFacts DEF State
    <3>5. ASSUME Run(t) PROVE Safe
      BY <1>0, <3>4, <3>5, IdleFacts, GotoFacts DEF Run, Return
    <3>6. Safe
      BY <1>0, <2>2, <3>2, <3>3, <3>5
    <3> QED
      BY <1>1, <2>2, <3>6 DEF Refuse, Accept, Run
  <2>3. CASE AddTx(t)
    <3> DEFINE s == call[t].sender
               n == call[t].nonce
               list == Append(pending[s], n)
               block == SubSeq(list, 1, Threshold)
               rest == SubSeq(list, Threshold + 1, Len(list))
    <3>1. call[t] \in Call /\ n \in Nonces /\ s \in Senders
      BY <1>0, <2>3, UnderwayCall DEF AddTx, Underway
    <3>2. /\ list \in Seq(Txs) /\ Len(list) = Len(pending[s]) + 1
          /\ list[Len(list)] = n
          /\ Len(list) >= Threshold =>
               /\ block \in Seq(Txs) /\ Len(block) = Threshold
               /\ \A i \in 1..Threshold : block[i] = list[i]
               /\ Len(rest) = Len(list) - Threshold
      BY <1>0, <3>1, ListFacts, ExecuteAssumption DEF Txs
    <3>3. \/ /\ Len(list) >= Threshold
             /\ pending' = [pending EXCEPT ![s] = rest]
             /\ Goto(t, [call[t] EXCEPT !.at = "mine", !.released = block])
          \/ /\ ~ (Len(list) >= Threshold)
             /\ pending' = [pending EXCEPT ![s] = list]
             /\ Goto(t, [call[t] EXCEPT !.at = "gossip"])
      BY <2>3 DEF AddTx
    <3>4. pending \in [Senders -> Seq(Txs)] /\ Len(pending[s]) < Threshold
          /\ Len(pending[s]) \in Nat /\ Threshold \in Nat \ {0}
      BY <1>0, <3>1, ExecuteAssumption, LenProperties DEF TypeOK, PoolInv
    <3>5. UNCHANGED <<mined, sending, gossiped, lost, succeeded>>
      BY <2>3 DEF AddTx, gossip
    <3> HIDE DEF list, block, rest
    <3>6. CASE Len(list) >= Threshold
      <4>1. Len(list) = Threshold /\ Len(rest) = 0
        BY <3>2, <3>4, <3>6
      <4>2. block[Threshold] = n /\ Len(block) = Threshold
        BY <3>2, <3>4, <3>6, <4>1
      <4> DEFINE moved == [call[t] EXCEPT !.at = "mine", !.released = block]
      <4>3. moved \in Call /\ moved.nonce = n /\ moved.released = block
        BY <3>1, <3>2, <3>6, ReleaseFacts
      <4>4. Goto(t, moved)
        BY <3>3, <3>6
      <4> HIDE DEF moved
      <4>5. call'[t] = moved /\ \A u \in Threads \ {t} : call'[u] = call[u]
        BY <1>0, <4>3, <4>4, GotoFacts DEF State
      <4>6. \A r \in Senders : Len(pending'[r]) < Threshold
        <5>1. pending'[s] = rest /\ \A r \in Senders \ {s} : pending'[r] = pending[r]
          BY <3>1, <3>3, <3>4, <3>6
        <5>2. Len(rest) < Threshold
          BY <3>4, <4>1
        <5> QED
          BY <1>0, <5>1, <5>2 DEF PoolInv
      <4> QED
        BY <1>0, <3>5, <4>2, <4>3, <4>5, <4>6 DEF PoolInv, SuccessAnnounced
    <3>7. CASE ~ (Len(list) >= Threshold)
      <4> DEFINE moved == [call[t] EXCEPT !.at = "gossip"]
      <4>1. moved \in Call /\ moved.at = "gossip"
        BY <3>1, MoveFacts
      <4>2. Goto(t, moved)
        BY <3>3, <3>7
      <4> HIDE DEF moved
      <4>3. call'[t] = moved /\ \A u \in Threads \ {t} : call'[u] = call[u]
        BY <1>0, <4>1, <4>2, GotoFacts DEF State
      <4>4. Len(list) < Threshold
        BY <3>2, <3>4, <3>7
      <4>5. \A r \in Senders : Len(pending'[r]) < Threshold
        <5>1. pending'[s] = list /\ \A r \in Senders \ {s} : pending'[r] = pending[r]
          BY <3>1, <3>3, <3>4, <3>7
        <5> QED
          BY <1>0, <4>4, <5>1 DEF PoolInv
      <4> QED
        BY <1>0, <3>5, <4>1, <4>3, <4>5 DEF PoolInv, SuccessAnnounced
    <3> QED
      BY <3>6, <3>7
  <2>4. CASE MineTxs(t) \/ GossipTx(t)
    <3>1. call'[t].at = "idle" /\ \A u \in Threads \ {t} : call'[u] = call[u]
      BY <1>0, <2>4, IdleFacts, GotoFacts DEF MineTxs, GossipTx, Return
    <3>2. PoolInv'
      BY <1>0, <2>4, <3>1 DEF PoolInv, MineTxs, GossipTx
    <3>3. MineTxs(t) =>
            call[t].nonce \in {call[t].released[i] : i \in 1..Threshold}
      BY <1>0, ExecuteAssumption DEF MineTxs, PoolInv
    <3>4. SuccessAnnounced'
      BY <1>0, <2>4, <3>3 DEF MineTxs, GossipTx, Answer, SuccessAnnounced, gossip
    <3> QED
      BY <3>2, <3>4
  <2> QED
    BY <1>5, <2>1, <2>2, <2>3, <2>4 DEF Handle
<1>6. ASSUME NEW t \in Threads, HandlePeer(t) PROVE PoolInv' /\ SuccessAnnounced'
  <2>1. ASSUME NEW s \in Senders, NEW n \in Foreign, AddForeign(t, s, n)
        PROVE  PoolInv' /\ SuccessAnnounced'
    <3>1. PoolInv'
      BY <1>0, <2>1, AddForeignFacts DEF PoolInv
    <3> QED
      BY <1>0, <2>1, <3>1 DEF AddForeign, SuccessAnnounced, gossip
  <2>2. CASE MineForeign(t) \/ \E block \in SUBSET (Foreign \cup gossiped) : StoreBlock(t, block)
    <3>1. /\ call'[t].at \in {"idle", "filter"}
          /\ \A u \in Threads \ {t} : call'[u] = call[u]
      BY <1>0, <2>2, IdleFacts DEF MineForeign, StoreBlock, Return, Goto, TypeOK
    <3>2. UNCHANGED <<pending, sending, gossiped, lost, succeeded>> /\ mined \subseteq mined'
      BY <2>2 DEF MineForeign, StoreBlock, gossip
    <3> QED
      BY <1>0, <3>1, <3>2 DEF PoolInv, SuccessAnnounced
  <2>3. CASE RemoveIncluded(t)
    <3>1. call'[t].at = "idle" /\ \A u \in Threads \ {t} : call'[u] = call[u]
      BY <1>0, <2>3, IdleFacts, GotoFacts DEF RemoveIncluded, Return
    <3>2. \A s \in Senders : Len(pending'[s]) < Threshold
      <4>1. \A s \in Senders : /\ Len(pending'[s]) <= Len(pending[s]) /\ Len(pending[s]) < Threshold
                              /\ Len(pending'[s]) \in Nat /\ Len(pending[s]) \in Nat
        BY <1>0, <2>3, FilterFacts, LenProperties DEF TypeOK, PoolInv
      <4> QED
        BY <4>1, ExecuteAssumption
    <3>3. UNCHANGED <<mined, sending, gossiped, lost, succeeded>>
      BY <2>3 DEF RemoveIncluded, gossip
    <3> QED
      BY <1>0, <3>1, <3>2, <3>3 DEF PoolInv, SuccessAnnounced
  <2> QED
    BY <1>6, <2>1, <2>2, <2>3 DEF HandlePeer
<1>7. ASSUME NEW n \in Nonces, SendTx(n) PROVE PoolInv' /\ SuccessAnnounced'
  BY <1>0, <1>7 DEF SendTx, PoolInv, SuccessAnnounced
<1> QED
  BY <1>2, <1>3, <1>4, <1>5, <1>6, <1>7 DEF Next

-----------------------------------------------------------------------------
\* A call that keeps its nonce, or ends, without running its command.
LEMMA CallStep ==
  ASSUME TypeOK, NonceInv, NEW t \in Threads, NEW state \in State, Goto(t, state),
         UNCHANGED <<challenges, issued, runs>>,
         \/ state.at \in {"idle", "relay", "filter"}
         \/ /\ Underway(t) /\ state.nonce = call[t].nonce /\ state.sender = call[t].sender
            /\ state.time = call[t].time
            /\ state.at \in {"check", "run"} => call[t].at \in {"check", "run"}
  PROVE  NonceInv'
<1>1. call'[t] = state /\ \A u \in Threads \ {t} : call'[u] = call[u]
  BY GotoFacts
<1>2. ChallengesUnused' /\ UndrawnUnused' /\ RunsOnce'
  BY DEF NonceInv, ChallengesUnused, UndrawnUnused, RunsOnce
<1>3. CallsApart' /\ RunsLater' /\ Timely'
  <2>1. \A u \in Threads : Underway(u)' =>
           /\ Underway(u) /\ call'[u].nonce = call[u].nonce
           /\ call'[u].sender = call[u].sender /\ call'[u].time = call[u].time
           /\ call'[u].at \in {"check", "run"} => call[u].at \in {"check", "run"}
    BY <1>1 DEF Underway
  <2>2. CallsApart'
    BY <2>1 DEF NonceInv, CallsApart
  <2>3. RunsLater'
    BY <2>1 DEF NonceInv, RunsLater, Underway
  <2>4. Timely'
    BY <2>1 DEF NonceInv, Timely
  <2> QED
    BY <2>2, <2>3, <2>4
<1> QED
  BY <1>2, <1>3 DEF NonceInv

\* Each action keeps every nonce in its one place: NONCE, the consumption of a
\* challenge and the run of its command are the ones that move it.
LEMMA NonceNext == IInv /\ [Next]_vars => NonceInv'
<1> SUFFICES ASSUME IInv, [Next]_vars PROVE NonceInv'
  OBVIOUS
<1>0. TypeOK /\ NonceInv
  BY DEF IInv
<1>1. CASE UNCHANGED vars \/ Tick
  <2>1. UNCHANGED <<challenges, issued, call, runs>>
    BY <1>1 DEF vars, Tick
  <2> QED
    BY <1>0, <2>1 DEF NonceInv, ChallengesUnused, UndrawnUnused, CallsApart, RunsLater, Timely,
                      RunsOnce, Underway
<1>2. CASE Restart
  <2>1. /\ \A t \in Threads : call'[t].at = "idle"
        /\ DOMAIN challenges' = {} /\ UNCHANGED <<issued, runs>>
    BY <1>2, IdleFacts DEF Restart, Empty
  <2> QED
    BY <1>0, <2>1 DEF NonceInv, ChallengesUnused, UndrawnUnused, CallsApart, RunsLater, Timely,
                      RunsOnce, Underway
<1>3. ASSUME NEW s \in Senders, GenerateChallenge(s) PROVE NonceInv'
  <2> DEFINE info == [sender |-> s, expires |-> now + Lifetime]
  <2>1. PICK n \in Nonces \ DOMAIN issued :
          challenges' = Extended(challenges, n, info) /\ issued' = Extended(issued, n, info)
    BY <1>3 DEF GenerateChallenge
  <2> HIDE DEF info
  <2>2. /\ DOMAIN challenges' = DOMAIN challenges \cup {n}
        /\ DOMAIN issued' = DOMAIN issued \cup {n}
        /\ challenges'[n] = info /\ issued'[n] = info
        /\ \A m \in DOMAIN challenges \ {n} : challenges'[m] = challenges[m]
        /\ \A m \in DOMAIN issued : issued'[m] = issued[m]
    BY <2>1 DEF Extended
  <2>3. UNCHANGED <<call, runs>> /\ runs[n] = 0
    BY <1>0, <1>3 DEF GenerateChallenge, NonceInv, UndrawnUnused
  <2>4. ChallengesUnused' /\ UndrawnUnused' /\ RunsLater' /\ RunsOnce'
    BY <1>0, <2>1, <2>2, <2>3
       DEF NonceInv, ChallengesUnused, UndrawnUnused, RunsLater, RunsOnce
  <2>5. \A t \in Threads : Underway(t) => call[t].nonce \in DOMAIN issued
    BY <1>0 DEF NonceInv, Timely
  <2>6. CallsApart'
    BY <1>0, <2>1, <2>2, <2>3, <2>5 DEF NonceInv, CallsApart, Underway
  <2>7. Timely'
    BY <1>0, <2>2, <2>3, <2>5 DEF NonceInv, Timely, Underway
  <2> QED
    BY <2>4, <2>6, <2>7 DEF NonceInv
<1>4. ASSUME NEW t \in Threads, Handle(t) PROVE NonceInv'
  <2>1. ASSUME NEW s \in Senders, NEW n \in Nonces, VerifyAndConsume(t, s, n)
        PROVE  NonceInv'
    <3>1. /\ DOMAIN challenges' = DOMAIN challenges \ {n}
          /\ \A m \in DOMAIN challenges' : challenges'[m] = challenges[m]
          /\ UNCHANGED <<issued, runs>>
          /\ n \in DOMAIN challenges
      BY <2>1 DEF VerifyAndConsume, Without
    <3>2. n \in DOMAIN issued /\ issued[n] = challenges[n] /\ runs[n] = 0
      BY <1>0, <3>1 DEF NonceInv, ChallengesUnused
    <3>3. ChallengesUnused' /\ UndrawnUnused' /\ RunsOnce'
      BY <1>0, <3>1 DEF NonceInv, ChallengesUnused, UndrawnUnused, RunsOnce
    <3>4. CASE UNCHANGED call
      BY <1>0, <3>1, <3>3, <3>4 DEF NonceInv, CallsApart, RunsLater, Timely, Underway
    <3>5. CASE Answers(s, n) /\ Goto(t, Started(s, n))
      <4>1. /\ call'[t] = Started(s, n) /\ \A u \in Threads \ {t} : call'[u] = call[u]
            /\ Started(s, n).nonce = n /\ Started(s, n).sender = s /\ Started(s, n).time = now
        BY <1>0, <3>5, StartFacts, GotoFacts
      <4>2. \A u \in Threads \ {t} : Underway(u)' => Underway(u) /\ call[u].nonce # n
        BY <1>0, <3>1, <4>1 DEF NonceInv, CallsApart, Underway
      <4>3. CallsApart' /\ RunsLater'
        BY <1>0, <3>1, <3>2, <4>1, <4>2 DEF NonceInv, CallsApart, RunsLater, Underway
      <4>4. issued[n].sender = s /\ now <= issued[n].expires
        BY <1>0, <3>2, <3>5 DEF Answers, TypeOK, Info
      <4>5. Timely'
        BY <1>0, <3>1, <3>2, <4>1, <4>2, <4>4 DEF NonceInv, Timely
      <4> QED
        BY <3>3, <4>3, <4>5 DEF NonceInv
    <3> QED
      BY <2>1, <3>4, <3>5 DEF VerifyAndConsume
  <2>2. ASSUME UNCHANGED <<challenges, issued, runs>>, Goto(t, Idle)
        PROVE  NonceInv'
    BY <1>0, <2>2, IdleFacts, CallStep
  <2>3. ASSUME Underway(t), UNCHANGED <<challenges, issued, runs>>,
               NEW label \in {"run", "gossip"}, Goto(t, [call[t] EXCEPT !.at = label]),
               label = "run" => call[t].at = "check"
        PROVE  NonceInv'
    <3> DEFINE moved == [call[t] EXCEPT !.at = label]
    <3>1. /\ moved \in Call /\ moved.at = label /\ moved.nonce = call[t].nonce
          /\ moved.sender = call[t].sender /\ moved.time = call[t].time
      <4>1. call[t] \in Call /\ label \in {"run", "add", "mine", "gossip"}
        BY <1>0, <2>3, UnderwayCall DEF Underway
      <4> QED
        BY <4>1, MoveFacts
    <3>2. Goto(t, moved)
      BY <2>3
    <3> HIDE DEF moved
    <3> QED
      BY <1>0, <2>3, <3>1, <3>2, CallStep DEF State
  <2>4. CASE Refuse(t) \/ MineTxs(t) \/ GossipTx(t)
    BY <2>2, <2>4 DEF Refuse, MineTxs, GossipTx, Return
  <2>5. CASE Accept(t)
    BY <2>3, <2>5 DEF Accept, Underway
  <2>6. CASE Run(t)
    <3>1. ASSUME NEW outcome \in {"ok", "failed"},
                 Goto(t, [call[t] EXCEPT !.at = "add", !.outcome = outcome]),
                 runs' = [runs EXCEPT ![call[t].nonce] = @ + 1]
          PROVE  NonceInv'
      <4> DEFINE n == call[t].nonce
                 moved == [call[t] EXCEPT !.at = "add", !.outcome = outcome]
      <4>1. call[t] \in Call /\ n \in Nonces /\ call[t].at = "run"
            /\ UNCHANGED <<challenges, issued>>
        BY <1>0, <2>6, UnderwayCall DEF Run, Underway
      <4>2. /\ moved \in Call /\ moved.at = "add" /\ moved.nonce = n
            /\ moved.sender = call[t].sender /\ moved.time = call[t].time
        BY <4>1, EndFacts
      <4>3. Goto(t, moved)
        BY <3>1
      <4> HIDE DEF moved
      <4>4. call'[t] = moved /\ \A u \in Threads \ {t} : call'[u] = call[u]
        BY <1>0, <4>2, <4>3, GotoFacts DEF State
      <4>5. runs[n] = 0 /\ n \notin DOMAIN challenges /\ n \in DOMAIN issued
        BY <1>0, <4>1 DEF NonceInv, RunsLater, CallsApart, Timely, Underway
      <4>6. runs'[n] = 1 /\ \A m \in Nonces \ {n} : runs'[m] = runs[m]
        BY <1>0, <3>1, <4>1, <4>5 DEF TypeOK
      <4>7. \A u \in Threads \ {t} : Underway(u) => call[u].nonce # n /\ call[u].nonce \in Nonces
        BY <1>0, <4>1, UnderwayCall DEF NonceInv, CallsApart, Underway
      <4>8. ChallengesUnused' /\ UndrawnUnused' /\ RunsOnce'
        BY <1>0, <4>1, <4>5, <4>6
           DEF TypeOK, NonceInv, ChallengesUnused, UndrawnUnused, RunsOnce
      <4>9. CallsApart' /\ Timely'
        BY <1>0, <4>1, <4>2, <4>4, <4>5, <4>7 DEF NonceInv, CallsApart, Timely, Underway
      <4>10. RunsLater'
        BY <1>0, <4>2, <4>4, <4>6, <4>7 DEF NonceInv, RunsLater, Underway
      <4> QED
        BY <4>8, <4>9, <4>10 DEF NonceInv
    <3> QED
      BY <2>2, <2>6, <3>1 DEF Run, Return
  <2>7. CASE AddTx(t)
    <3> DEFINE list == Append(pending[call[t].sender], call[t].nonce)
               block == SubSeq(list, 1, Threshold)
               moved == [call[t] EXCEPT !.at = "mine", !.released = block]
    <3>1. Underway(t) /\ UNCHANGED <<challenges, issued, runs>>
      BY <2>7 DEF AddTx, Underway
    <3>2. CASE Len(list) >= Threshold /\ Goto(t, moved)
      <4>1. block \in Seq(Txs) /\ call[t] \in Call
        BY <1>0, <3>1, <3>2, UnderwayCall, ListFacts, ExecuteAssumption DEF Underway, Txs
      <4> HIDE DEF block
      <4>2. /\ moved \in Call /\ moved.at = "mine" /\ moved.nonce = call[t].nonce
            /\ moved.sender = call[t].sender /\ moved.time = call[t].time
        BY <4>1, ReleaseFacts
      <4> HIDE DEF moved
      <4> QED
        BY <1>0, <3>1, <3>2, <4>2, CallStep DEF State
    <3>3. CASE Goto(t, [call[t] EXCEPT !.at = "gossip"])
      BY <2>3, <3>1, <3>3
    <3> QED
      BY <2>7, <3>2, <3>3 DEF AddTx
  <2> QED
    BY <1>4, <2>1, <2>4, <2>5, <2>6, <2>7 DEF Handle
<1>5. ASSUME NEW t \in Threads, HandlePeer(t) PROVE NonceInv'
  <2>1. UNCHANGED <<challenges, issued, runs>>
    BY <1>5 DEF HandlePeer, AddForeign, MineForeign, StoreBlock, RemoveIncluded
  <2>2. /\ \A u \in Threads \ {t} : call'[u] = call[u]
        /\ call'[t].at \in {"idle", "relay", "filter"}
    <3>1. ASSUME NEW s \in Senders, NEW n \in Foreign, AddForeign(t, s, n)
          PROVE  /\ \A u \in Threads \ {t} : call'[u] = call[u]
                 /\ call'[t].at \in {"idle", "relay", "filter"}
      BY <1>0, <3>1, AddForeignFacts DEF IInv
    <3>2. CASE MineForeign(t) \/ RemoveIncluded(t)
      BY <1>0, <3>2, IdleFacts, GotoFacts DEF MineForeign, RemoveIncluded, Return
    <3>3. CASE \E block \in SUBSET (Foreign \cup gossiped) : StoreBlock(t, block)
      BY <1>0, <3>3 DEF StoreBlock, Goto, TypeOK
    <3> QED
      BY <1>5, <3>1, <3>2, <3>3 DEF HandlePeer
  <2>3. \A u \in Threads : Underway(u)' => u # t /\ Underway(u)
    BY <2>2 DEF Underway
  <2> QED
    BY <1>0, <2>1, <2>2, <2>3
       DEF NonceInv, ChallengesUnused, UndrawnUnused, CallsApart, RunsLater, Timely, RunsOnce
<1>6. ASSUME NEW n \in Nonces, SendTx(n) PROVE NonceInv'
  BY <1>0, <1>6
     DEF SendTx, NonceInv, ChallengesUnused, UndrawnUnused, CallsApart, RunsLater, Timely,
         RunsOnce, Underway
<1> QED
  BY <1>1, <1>2, <1>3, <1>4, <1>5, <1>6 DEF Next

-----------------------------------------------------------------------------
\* The three parts together.
LEMMA InvNext == IInv /\ [Next]_vars => IInv'
BY TypeNext, PoolNext, NonceNext DEF IInv

\* The invariant the properties below follow from.
THEOREM ExecuteInvariant == Spec => []IInv
BY InitInv, InvNext, PTL DEF Spec

\* Every variable of EXECUTE keeps its type.
THEOREM ExecuteTypeCorrect == Spec => []TypeOK
<1>1. IInv => TypeOK
  BY DEF IInv
<1> QED
  BY <1>1, ExecuteInvariant, PTL

\* A challenge never lets two commands run, whatever is repeated and across
\* restarts.
THEOREM AlwaysRunsOnce == Spec => []RunsOnce
<1>1. IInv => RunsOnce
  BY DEF IInv, NonceInv
<1> QED
  BY <1>1, ExecuteInvariant, PTL

\* A call under way was begun by the challenge's sender, in time.
THEOREM AlwaysTimely == Spec => []Timely
<1>1. IInv => Timely
  BY DEF IInv, NonceInv
<1> QED
  BY <1>1, ExecuteInvariant, PTL

\* No client is answered Success for a transaction that no peer is told of.
THEOREM SuccessAlwaysAnnounced == Spec => []SuccessAnnounced
<1>1. IInv => SuccessAnnounced
  BY DEF IInv
<1> QED
  BY <1>1, ExecuteInvariant, PTL
=============================================================================
