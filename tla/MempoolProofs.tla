--------------------------- MODULE MempoolProofs ---------------------------
(***************************************************************************)
(* Proofs about Mempool for any senders, transactions, threads and any     *)
(* threshold.  A list that is being filtered goes back into the map, so    *)
(* what is kept of it and what is left of it must stay below the threshold *)
(* together: that is FilteringGood, and the reason why BelowThreshold is   *)
(* not inductive by itself.                                                *)
(***************************************************************************)
EXTENDS Mempool, SequenceTheorems, TLAPS

OwnedBy(list, s) == \A i \in DOMAIN list : Owner(list[i]) = s

QueuesOwned == \A s \in Senders : OwnedBy(pending[s], s)

FilteringGood ==
  \A t \in Threads : task[t].at = "filtering" =>
    /\ task[t].sender \in Senders
    /\ Len(task[t].txs) + Len(task[t].rest) < Threshold
    /\ OwnedBy(task[t].txs, task[t].sender)
    /\ OwnedBy(task[t].rest, task[t].sender)

IInv == TypeOK /\ QueuesOwned /\ BelowThreshold /\ BlocksWhole /\ FilteringGood

\* A thread between two calls.
LEMMA IdleIsTask == Idle \in Task
BY EmptySeq DEF Idle, Task

\* Appending one element.
LEMMA AppendFacts ==
  ASSUME NEW S, NEW list \in Seq(S), NEW e \in S
  PROVE  /\ Append(list, e) \in Seq(S)
         /\ Len(Append(list, e)) = Len(list) + 1
         /\ \A i \in 1..Len(list) : Append(list, e)[i] = list[i]
         /\ Append(list, e)[Len(list) + 1] = e
OBVIOUS

\* The first element of a list that is not empty, and the others.
LEMMA HeadFacts ==
  ASSUME NEW S, NEW list \in Seq(S), list # <<>>
  PROVE  /\ Head(list) = list[1] /\ Head(list) \in S
         /\ Tail(list) \in Seq(S) /\ Len(Tail(list)) = Len(list) - 1
         /\ \A i \in 1..Len(Tail(list)) : Tail(list)[i] = list[i + 1]
         /\ Len(list) \in Nat \ {0}
BY HeadTailProperties, EmptySeq

\* Nothing is pending, released or being filtered.
LEMMA InitInv == Init => IInv
<1> SUFFICES ASSUME Init PROVE IInv
  OBVIOUS
<1>1. TypeOK
  BY IdleIsTask, EmptySeq, PoolAssumption DEF Init, TypeOK
<1>2. QueuesOwned /\ BelowThreshold
  BY EmptySeq, PoolAssumption DEF Init, QueuesOwned, OwnedBy, BelowThreshold
<1>3. \A t \in Threads : task[t].at = "idle"
  BY DEF Init, Idle
<1>4. BlocksWhole
  BY <1>3 DEF Init, BlocksWhole
<1>5. FilteringGood
  BY <1>3 DEF FilteringGood
<1> QED
  BY <1>1, <1>2, <1>4, <1>5 DEF IInv

\* The threads other than t keep their tasks.
LEMMA OthersKeep ==
  ASSUME IInv, NEW t \in Threads, NEW state \in Task, Goto(t, state)
  PROVE  /\ task' \in [Threads -> Task]
         /\ task'[t] = state
         /\ \A u \in Threads : u # t => task'[u] = task[u]
BY DEF Goto, IInv, TypeOK

\* Add keeps every list below the threshold, and releases whole blocks.
LEMMA AddInv ==
  ASSUME IInv, NEW t \in Threads, NEW tx \in Txs, Add(t, tx)
  PROVE  IInv'
<1> DEFINE s == SenderOf[tx]
           e == [tx |-> tx, n |-> submitted[s] + 1]
           list == Append(pending[s], e)
<1>1. /\ s \in Senders /\ pending[s] \in Seq(Submission)
      /\ submitted[s] \in 0..MaxSubmit /\ submitted[s] < MaxSubmit
      /\ Len(pending[s]) \in Nat /\ Len(pending[s]) < Threshold
      /\ Threshold \in Nat \ {0}
  BY PoolAssumption, LenProperties DEF Add, IInv, TypeOK, BelowThreshold
<1>2. e \in Submission /\ Owner(e) = s
  BY <1>1, PoolAssumption DEF Submission, Owner
<1>3. /\ list \in Seq(Submission) /\ Len(list) = Len(pending[s]) + 1
      /\ OwnedBy(list, s)
  <2>1. /\ list \in Seq(Submission) /\ Len(list) = Len(pending[s]) + 1
        /\ \A i \in 1..Len(pending[s]) : list[i] = pending[s][i]
        /\ list[Len(pending[s]) + 1] = e
    BY <1>1, <1>2, AppendFacts
  <2>2. DOMAIN list = 1..Len(list) /\ DOMAIN pending[s] = 1..Len(pending[s])
    BY <1>1, <2>1, LenProperties
  <2>3. OwnedBy(pending[s], s)
    BY <1>1 DEF IInv, QueuesOwned
  <2> HIDE DEF list, e
  <2> QED
    BY <1>1, <1>2, <2>1, <2>2, <2>3 DEF OwnedBy
<1>4. /\ submitted' = [submitted EXCEPT ![s] = @ + 1]
      /\ UNCHANGED <<mutex, mined, removed, lost>>
      /\ task[t].at = "idle"
      /\ IF Full(list)
         THEN /\ pending' = [pending EXCEPT ![s] = Keep(list)]
              /\ Goto(t, [Idle EXCEPT !.at = "mining", !.txs = Release(list)])
         ELSE /\ pending' = [pending EXCEPT ![s] = list] /\ UNCHANGED task
  BY DEF Add, Enqueue
<1>5. submitted' \in [Senders -> 0..MaxSubmit]
  BY <1>1, <1>4, PoolAssumption DEF IInv, TypeOK
<1> HIDE DEF list, e, s
<1>6. CASE Full(list)
  <2>1. Len(list) = Threshold
    BY <1>1, <1>3, <1>6 DEF Full
  <2>2. Release(list) = list
    BY <1>3, <2>1, SubSeqFull DEF Release
  <2>3. Keep(list) = <<>>
    BY <1>1, <2>1, SubSeqEmpty DEF Keep
  <2> DEFINE j == [Idle EXCEPT !.at = "mining", !.txs = list]
  <2>4. j \in Task /\ j.at = "mining" /\ j.txs = list
    BY <1>3, IdleIsTask DEF Task
  <2>5. Goto(t, j) /\ pending' = [pending EXCEPT ![s] = <<>>]
    BY <1>4, <1>6, <2>2, <2>3
  <2> HIDE DEF j
  <2>6. /\ task' \in [Threads -> Task] /\ task'[t] = j
        /\ \A u \in Threads : u # t => task'[u] = task[u]
    BY <2>4, <2>5, OthersKeep
  <2>7. TypeOK'
    BY <1>4, <1>5, <2>5, <2>6, EmptySeq DEF IInv, TypeOK
  <2>8. QueuesOwned' /\ BelowThreshold'
    BY <1>1, <2>5, EmptySeq DEF IInv, TypeOK, QueuesOwned, OwnedBy, BelowThreshold
  <2>9. BlocksWhole'
    <3>1. WholeBlock(list)
      <4>1. 1 \in DOMAIN list
        BY <1>1, <1>3, <2>1, LenProperties
      <4> QED
        BY <1>3, <2>1, <4>1 DEF WholeBlock, OwnedBy
    <3> QED
      BY <1>4, <2>4, <2>6, <3>1 DEF IInv, BlocksWhole
  <2>10. FilteringGood'
    BY <2>4, <2>6 DEF IInv, FilteringGood
  <2> QED
    BY <2>7, <2>8, <2>9, <2>10 DEF IInv
<1>7. CASE ~Full(list)
  <2>1. pending' = [pending EXCEPT ![s] = list] /\ UNCHANGED task
    BY <1>4, <1>7
  <2>2. Len(list) < Threshold
    BY <1>1, <1>3, <1>7 DEF Full
  <2>3. TypeOK'
    BY <1>3, <1>4, <1>5, <2>1 DEF IInv, TypeOK
  <2>4. QueuesOwned' /\ BelowThreshold'
    BY <1>3, <2>1, <2>2 DEF IInv, TypeOK, QueuesOwned, BelowThreshold
  <2>5. BlocksWhole' /\ FilteringGood'
    BY <1>4, <2>1 DEF IInv, BlocksWhole, FilteringGood
  <2> QED
    BY <2>3, <2>4, <2>5 DEF IInv
<1> QED
  BY <1>6, <1>7

\* A released block goes to the chain, or is lost, as it is.
LEMMA MineInv ==
  ASSUME IInv, NEW t \in Threads, Mine(t) \/ MineFails(t)
  PROVE  IInv'
<1> DEFINE txs == task[t].txs
<1>1. /\ txs \in Seq(Submission) /\ task[t].at = "mining" /\ WholeBlock(txs)
      /\ mined \in Seq(Seq(Submission))
  BY DEF IInv, TypeOK, Task, BlocksWhole, Mine, MineFails
<1>2. /\ task' \in [Threads -> Task] /\ task'[t] = Idle
      /\ \A u \in Threads : u # t => task'[u] = task[u]
  BY IdleIsTask, OthersKeep DEF Mine, MineFails
<1>3. UNCHANGED <<pending, mutex, removed, submitted>>
  BY DEF Mine, MineFails
<1>4. QueuesOwned' /\ BelowThreshold' /\ FilteringGood'
  <2>1. QueuesOwned' /\ BelowThreshold'
    BY <1>3 DEF IInv, QueuesOwned, BelowThreshold
  <2>2. task'[t].at = "idle"
    BY <1>2 DEF Idle
  <2>3. FilteringGood'
    BY <1>2, <2>2 DEF IInv, FilteringGood
  <2> QED
    BY <2>1, <2>3
<1>5. \A u \in Threads : task'[u].at = "mining" => WholeBlock(task'[u].txs)
  BY <1>2 DEF IInv, BlocksWhole, Idle
<1>6. CASE Mine(t)
  <2>1. mined' = Append(mined, txs) /\ UNCHANGED lost
    BY <1>6 DEF Mine
  <2>2. /\ mined' \in Seq(Seq(Submission)) /\ Len(mined') = Len(mined) + 1
        /\ \A i \in 1..Len(mined) : mined'[i] = mined[i]
        /\ mined'[Len(mined) + 1] = txs
    BY <1>1, <2>1, AppendFacts
  <2>3. DOMAIN mined' = 1..Len(mined') /\ DOMAIN mined = 1..Len(mined) /\ Len(mined) \in Nat
    BY <1>1, <2>2, LenProperties
  <2>4. ASSUME NEW i \in DOMAIN mined' PROVE WholeBlock(mined'[i])
    <3>1. CASE i = Len(mined) + 1
      BY <1>1, <2>2, <3>1
    <3>2. CASE i # Len(mined) + 1
      <4>1. i \in 1..Len(mined)
        BY <2>2, <2>3, <3>2
      <4> QED
        BY <2>2, <2>3, <4>1 DEF IInv, BlocksWhole
    <3> QED
      BY <3>1, <3>2
  <2> QED
    BY <1>2, <1>3, <1>4, <1>5, <2>1, <2>2, <2>4 DEF IInv, TypeOK, BlocksWhole
<1>7. CASE MineFails(t)
  <2>1. UNCHANGED mined /\ lost' = lost \cup {txs[i] : i \in DOMAIN txs}
    BY <1>7 DEF MineFails
  <2>2. \A i \in DOMAIN txs : txs[i] \in Submission
    BY <1>1, LenProperties, ElementOfSeq
  <2> QED
    BY <1>2, <1>3, <1>4, <1>5, <2>1, <2>2 DEF IInv, TypeOK, BlocksWhole
<1> QED
  BY <1>6, <1>7

\* The loop of RemoveIncluded keeps at most what it was given.
LEMMA RemoveInv ==
  ASSUME IInv, NEW t \in Threads, RemoveIncluded(t)
  PROVE  IInv'
<1>0. /\ task[t] \in Task /\ Threshold \in Nat \ {0}
      /\ task[t].txs \in Seq(Submission) /\ task[t].rest \in Seq(Submission)
  BY PoolAssumption DEF IInv, TypeOK, Task
<1>1. ASSUME NEW included \in SUBSET Txs, Remove(t, included) PROVE IInv'
  <2> DEFINE j == [Idle EXCEPT !.at = "removing", !.included = included,
                               !.todo = {SenderOf[tx] : tx \in included}]
  <2>1. j \in Task /\ j.at = "removing"
    <3>1. {SenderOf[tx] : tx \in included} \subseteq Senders
      BY PoolAssumption
    <3> QED
      BY <3>1, IdleIsTask DEF Task
  <2>2. /\ Goto(t, j) /\ mutex' \in Threads /\ UNCHANGED <<pending, history>>
    BY <1>1 DEF Remove
  <2> HIDE DEF j
  <2>3. /\ task' \in [Threads -> Task] /\ task'[t] = j
        /\ \A u \in Threads : u # t => task'[u] = task[u]
    BY <2>1, <2>2, OthersKeep
  <2> QED
    BY <2>1, <2>2, <2>3
       DEF IInv, TypeOK, QueuesOwned, BelowThreshold, BlocksWhole, FilteringGood, history
<1>2. CASE RemoveSender(t)
  <2>1. PICK s \in task[t].todo :
          Goto(t, [task[t] EXCEPT !.at = "filtering", !.sender = s, !.txs = <<>>,
                                  !.rest = pending[s], !.dropped = {},
                                  !.todo = @ \ {s}])
    BY <1>2 DEF RemoveSender
  <2> DEFINE j == [task[t] EXCEPT !.at = "filtering", !.sender = s, !.txs = <<>>,
                                  !.rest = pending[s], !.dropped = {},
                                  !.todo = @ \ {s}]
  <2>2. s \in Senders /\ pending[s] \in Seq(Submission)
    BY <1>0 DEF IInv, TypeOK, Task
  <2>3. /\ j \in Task /\ j.at = "filtering" /\ j.sender = s
        /\ j.txs = <<>> /\ j.rest = pending[s]
    BY <1>0, <2>2, EmptySeq DEF Task
  <2>4. Goto(t, j) /\ UNCHANGED <<pending, mutex, history>>
    BY <1>2, <2>1 DEF RemoveSender
  <2> HIDE DEF j
  <2>5. /\ task' \in [Threads -> Task] /\ task'[t] = j
        /\ \A u \in Threads : u # t => task'[u] = task[u]
    BY <2>3, <2>4, OthersKeep
  <2>6. /\ Len(j.txs) + Len(j.rest) < Threshold
        /\ OwnedBy(j.txs, s) /\ OwnedBy(j.rest, s)
    <3>1. Len(j.rest) \in Nat /\ Len(j.rest) < Threshold /\ OwnedBy(j.rest, s)
      BY <2>2, <2>3, LenProperties DEF IInv, BelowThreshold, QueuesOwned
    <3>2. Len(j.txs) = 0 /\ OwnedBy(j.txs, s)
      BY <2>3, EmptySeq DEF OwnedBy
    <3> QED
      BY <1>0, <3>1, <3>2
  <2>7. FilteringGood'
    BY <2>2, <2>3, <2>5, <2>6 DEF IInv, FilteringGood
  <2> QED
    BY <2>3, <2>4, <2>5, <2>7
       DEF IInv, TypeOK, QueuesOwned, BelowThreshold, BlocksWhole, history
<1>3. CASE FilterOne(t)
  <2> DEFINE e == Head(task[t].rest)
             drop == [task[t] EXCEPT !.rest = Tail(@), !.dropped = @ \cup {e}]
             keep == [task[t] EXCEPT !.rest = Tail(@), !.txs = Append(@, e)]
             s == task[t].sender
  <2>1. /\ task[t].rest # <<>> /\ task[t].at = "filtering"
        /\ Goto(t, drop) \/ Goto(t, keep)
        /\ UNCHANGED <<pending, mutex, history>>
    BY <1>3 DEF FilterOne
  <2>2. /\ e = task[t].rest[1] /\ e \in Submission
        /\ Tail(task[t].rest) \in Seq(Submission)
        /\ Len(Tail(task[t].rest)) = Len(task[t].rest) - 1
        /\ \A i \in 1..Len(Tail(task[t].rest)) : Tail(task[t].rest)[i] = task[t].rest[i + 1]
        /\ Len(task[t].rest) \in Nat \ {0}
    BY <1>0, <2>1, HeadFacts
  <2>3. /\ Append(task[t].txs, e) \in Seq(Submission)
        /\ Len(Append(task[t].txs, e)) = Len(task[t].txs) + 1
        /\ \A i \in 1..Len(task[t].txs) : Append(task[t].txs, e)[i] = task[t].txs[i]
        /\ Append(task[t].txs, e)[Len(task[t].txs) + 1] = e
        /\ Len(task[t].txs) \in Nat
    BY <1>0, <2>2, AppendFacts, LenProperties
  <2>4. /\ s \in Senders /\ OwnedBy(task[t].txs, s) /\ OwnedBy(task[t].rest, s)
        /\ Len(task[t].txs) + Len(task[t].rest) < Threshold
    BY <2>1 DEF IInv, FilteringGood
  <2>5. OwnedBy(Tail(task[t].rest), s)
    <3>1. /\ DOMAIN Tail(task[t].rest) = 1..Len(Tail(task[t].rest))
          /\ DOMAIN task[t].rest = 1..Len(task[t].rest)
      BY <1>0, <2>2, LenProperties
    <3> QED
      BY <2>2, <2>4, <3>1 DEF OwnedBy
  <2>6. OwnedBy(Append(task[t].txs, e), s)
    <3>1. /\ DOMAIN Append(task[t].txs, e) = 1..(Len(task[t].txs) + 1)
          /\ DOMAIN task[t].txs = 1..Len(task[t].txs)
      BY <1>0, <2>3, LenProperties
    <3>2. Owner(e) = s
      <4>1. 1 \in DOMAIN task[t].rest
        BY <1>0, <2>2, LenProperties
      <4> QED
        BY <2>2, <2>4, <4>1 DEF OwnedBy
    <3>3. ASSUME NEW i \in DOMAIN Append(task[t].txs, e)
          PROVE  Owner(Append(task[t].txs, e)[i]) = s
      <4>1. CASE i = Len(task[t].txs) + 1
        BY <2>3, <3>2, <4>1
      <4>2. CASE i # Len(task[t].txs) + 1
        <5>1. i \in DOMAIN task[t].txs
          BY <2>3, <3>1, <4>2
        <5> QED
          BY <2>3, <2>4, <3>1, <5>1 DEF OwnedBy
      <4> QED
        BY <4>1, <4>2
    <3> QED
      BY <3>3 DEF OwnedBy
  <2>7. drop \in Task /\ keep \in Task
    BY <1>0, <2>2, <2>3 DEF Task
  <2>8. PICK j \in Task :
          /\ Goto(t, j) /\ j.at = "filtering" /\ j.sender = s
          /\ j.rest = Tail(task[t].rest)
          /\ j.txs = task[t].txs \/ j.txs = Append(task[t].txs, e)
    <3>1. CASE Goto(t, drop)
      <4>1. /\ drop.at = "filtering" /\ drop.sender = s
            /\ drop.rest = Tail(task[t].rest) /\ drop.txs = task[t].txs
        BY <1>0, <2>1 DEF Task
      <4> QED
        BY <2>7, <3>1, <4>1
    <3>2. CASE Goto(t, keep)
      <4>1. /\ keep.at = "filtering" /\ keep.sender = s
            /\ keep.rest = Tail(task[t].rest) /\ keep.txs = Append(task[t].txs, e)
        BY <1>0, <2>1 DEF Task
      <4> QED
        BY <2>7, <3>2, <4>1
    <3> QED
      BY <2>1, <3>1, <3>2
  <2>9. /\ Len(j.txs) + Len(j.rest) < Threshold
        /\ OwnedBy(j.txs, s) /\ OwnedBy(j.rest, s)
    <3>1. Len(j.rest) = Len(task[t].rest) - 1
      BY <2>2, <2>8
    <3>2. Len(j.txs) = Len(task[t].txs) \/ Len(j.txs) = Len(task[t].txs) + 1
      BY <2>3, <2>8
    <3>3. OwnedBy(j.txs, s) /\ OwnedBy(j.rest, s)
      BY <2>4, <2>5, <2>6, <2>8
    <3>4. \A p \in Nat, q \in Nat \ {0}, m \in Nat :
            p + q < m => p + (q - 1) < m /\ (p + 1) + (q - 1) < m
      OBVIOUS
    <3>5. /\ Len(task[t].txs) + (Len(task[t].rest) - 1) < Threshold
          /\ (Len(task[t].txs) + 1) + (Len(task[t].rest) - 1) < Threshold
      BY <1>0, <2>2, <2>3, <2>4, <3>4
    <3> QED
      BY <3>1, <3>2, <3>3, <3>5
  <2> HIDE DEF drop, keep, e
  <2>10. /\ task' \in [Threads -> Task] /\ task'[t] = j
         /\ \A u \in Threads : u # t => task'[u] = task[u]
    BY <2>8, OthersKeep
  <2>11. FilteringGood'
    BY <2>4, <2>8, <2>9, <2>10 DEF IInv, FilteringGood
  <2> QED
    BY <2>1, <2>8, <2>10, <2>11
       DEF IInv, TypeOK, QueuesOwned, BelowThreshold, BlocksWhole, history
<1>4. CASE StoreFiltered(t)
  <2> DEFINE s == task[t].sender
             j == [task[t] EXCEPT !.at = "removing"]
  <2>1. /\ task[t].at = "filtering" /\ task[t].rest = <<>> /\ Goto(t, j)
        /\ pending' = [pending EXCEPT ![s] = task[t].txs]
        /\ removed' = removed \cup task[t].dropped
        /\ UNCHANGED <<mutex, mined, lost, submitted>>
    BY <1>4 DEF StoreFiltered
  <2>2. j \in Task /\ j.at = "removing"
    BY <1>0 DEF Task
  <2> HIDE DEF j
  <2>3. /\ task' \in [Threads -> Task] /\ task'[t] = j
        /\ \A u \in Threads : u # t => task'[u] = task[u]
    BY <2>1, <2>2, OthersKeep
  <2>4. /\ s \in Senders /\ OwnedBy(task[t].txs, s)
        /\ Len(task[t].txs) < Threshold
    <3>1. Len(task[t].rest) = 0 /\ Len(task[t].txs) \in Nat
      BY <1>0, <2>1, EmptySeq, LenProperties
    <3>2. Len(task[t].txs) + Len(task[t].rest) < Threshold
      BY <2>1 DEF IInv, FilteringGood
    <3>3. Len(task[t].txs) < Threshold
      BY <1>0, <3>1, <3>2
    <3> QED
      BY <2>1, <3>3 DEF IInv, FilteringGood
  <2>5. QueuesOwned' /\ BelowThreshold'
    BY <2>1, <2>4 DEF IInv, TypeOK, QueuesOwned, BelowThreshold
  <2>6. TypeOK'
    BY <1>0, <2>1, <2>3, <2>4 DEF IInv, TypeOK, Task
  <2>7. BlocksWhole' /\ FilteringGood'
    BY <2>1, <2>2, <2>3 DEF IInv, BlocksWhole, FilteringGood
  <2> QED
    BY <2>5, <2>6, <2>7 DEF IInv
<1>5. CASE RemoveEnd(t)
  <2>1. Goto(t, Idle) /\ mutex' = Free /\ UNCHANGED <<pending, history>>
    BY <1>5 DEF RemoveEnd
  <2>2. /\ task' \in [Threads -> Task] /\ task'[t] = Idle
        /\ \A u \in Threads : u # t => task'[u] = task[u]
    BY <2>1, IdleIsTask, OthersKeep
  <2>3. task'[t].at = "idle"
    BY <2>2 DEF Idle
  <2> QED
    BY <2>1, <2>2, <2>3
       DEF IInv, TypeOK, QueuesOwned, BelowThreshold, BlocksWhole, FilteringGood, history
<1> QED
  BY <1>1, <1>2, <1>3, <1>4, <1>5 DEF RemoveIncluded

-----------------------------------------------------------------------------
\* Every step of Add, MineBlock and RemoveIncluded keeps the invariant.
LEMMA NextInv == IInv /\ [Next]_vars => IInv'
<1> SUFFICES ASSUME IInv, [Next]_vars PROVE IInv'
  OBVIOUS
<1>1. CASE UNCHANGED vars
  BY <1>1 DEF vars, IInv, TypeOK, QueuesOwned, BelowThreshold, BlocksWhole, FilteringGood
<1>2. CASE Next
  BY <1>2, AddInv, MineInv, RemoveInv DEF Next, Submit
<1> QED
  BY <1>1, <1>2

\* The invariant the properties below follow from.
THEOREM PoolInvariant == Spec => []IInv
BY InitInv, NextInv, PTL DEF Spec

\* Between two calls no sender has a whole block of transactions waiting.
THEOREM AlwaysBelowThreshold == Spec => []BelowThreshold
<1>1. IInv => BelowThreshold
  BY DEF IInv
<1> QED
  BY <1>1, PoolInvariant, PTL

\* What Add hands to MineBlock is always Threshold transactions of one sender.
THEOREM AlwaysBlocksWhole == Spec => []BlocksWhole
<1>1. IInv => BlocksWhole
  BY DEF IInv
<1> QED
  BY <1>1, PoolInvariant, PTL

\* Every variable of the pool keeps its type.
THEOREM PoolTypeCorrect == Spec => []TypeOK
<1>1. IInv => TypeOK
  BY DEF IInv
<1> QED
  BY <1>1, PoolInvariant, PTL
-----------------------------------------------------------------------------
(***************************************************************************)
(* The order of submission, and where each submission is.  Both need the   *)
(* mutex: RemoveIncluded rebuilds a list from what it read of it, and only *)
(* because nobody adds to the list meanwhile the rebuilt list and what was *)
(* dropped are together what the list held (FilterExact).                  *)
(***************************************************************************)

Elems(list) == {list[i] : i \in DOMAIN list}

\* the blocks that were mined or released
Made == {mined[b] : b \in DOMAIN mined} \cup {task[t].txs : t \in Miners}

\* Only the goroutine that holds the mutex is in RemoveIncluded.
HolderRemoves ==
  \A t \in Threads : task[t].at \in {"removing", "filtering"} => mutex = t

\* A list that is being filtered is taken apart without loss or repetition.
FilterExact ==
  \A t \in Threads : task[t].at = "filtering" =>
    LET kept == task[t].txs
        rest == task[t].rest IN
      /\ InOrder(kept) /\ InOrder(rest)
      /\ \A i \in DOMAIN kept, j \in DOMAIN rest : kept[i].n < rest[j].n
      /\ Elems(kept) \cup Elems(rest) \cup task[t].dropped = Elems(pending[task[t].sender])
      /\ task[t].dropped \cap (Elems(kept) \cup Elems(rest)) = {}

\* No number is higher than the last one that was given.
Known(e) == e.n <= submitted[Owner(e)]
NumbersKnown ==
  /\ \A s \in Senders : \A e \in Elems(pending[s]) : Known(e)
  /\ \A block \in Made : \A e \in Elems(block) : Known(e)
  /\ \A e \in removed \cup lost : Known(e)

OrderInv == HolderRemoves /\ FilterExact /\ NumbersKnown /\ SubmissionOrder

\* The order between two lists is one between their elements.
LEMMA BeforeElems ==
  ASSUME NEW list, NEW later
  PROVE  Before(list, later) <=>
           \A x \in Elems(list), y \in Elems(later) : Owner(x) = Owner(y) => x.n < y.n
BY DEF Before, Elems

\* SubmissionOrder, with its blocks named.
LEMMA OrderParts ==
  SubmissionOrder <=>
    /\ \A s \in Senders : InOrder(pending[s])
    /\ \A block \in Made :
         /\ InOrder(block)
         /\ \A s \in Senders : Before(block, pending[s])
         /\ \A other \in Made \ {block} : Before(block, other) \/ Before(other, block)
BY DEF SubmissionOrder, Made

\* What an element of the invariant's lists is: a submission with a number.
LEMMA ElemFacts ==
  ASSUME NEW list \in Seq(Submission)
  PROVE  /\ Elems(list) \subseteq Submission
         /\ DOMAIN list = 1..Len(list) /\ Len(list) \in Nat
         /\ \A x \in Elems(list) : x.n \in Nat
<1>1. DOMAIN list = 1..Len(list) /\ Len(list) \in Nat /\ \A i \in 1..Len(list) : list[i] \in Submission
  BY LenProperties, ElementOfSeq
<1>2. \A x \in Submission : x.n \in Nat
  BY PoolAssumption DEF Submission
<1> QED
  BY <1>1, <1>2 DEF Elems

\* The empty list has none.
LEMMA NoElems == DOMAIN <<>> = {} /\ Elems(<<>>) = {}
<1>1. <<>> \in Seq(Submission) /\ Len(<<>>) = 0
  BY EmptySeq
<1>2. DOMAIN <<>> = 1..0
  BY <1>1, ElemFacts
<1>3. DOMAIN <<>> = {}
  BY <1>2
<1> QED
  BY <1>3 DEF Elems

\* The elements of a list that has one more at its end.
LEMMA AppendElems ==
  ASSUME NEW list \in Seq(Submission), NEW e \in Submission
  PROVE  Elems(Append(list, e)) = Elems(list) \cup {e}
<1> DEFINE long == Append(list, e)
<1>1. /\ long \in Seq(Submission) /\ Len(long) = Len(list) + 1
      /\ \A i \in 1..Len(list) : long[i] = list[i]
      /\ long[Len(list) + 1] = e
  BY AppendFacts
<1> HIDE DEF long
<1>2. /\ DOMAIN long = 1..(Len(list) + 1)
      /\ DOMAIN list = 1..Len(list) /\ Len(list) \in Nat
  BY <1>1, ElemFacts
<1>3. \A i \in DOMAIN long : long[i] \in Elems(list) \cup {e}
  <2> TAKE i \in DOMAIN long
  <2>1. i \in DOMAIN list \/ i = Len(list) + 1
    BY <1>2
  <2> QED
    BY <1>1, <1>2, <2>1 DEF Elems
<1>4. \A i \in DOMAIN list : i \in DOMAIN long /\ long[i] = list[i]
  BY <1>1, <1>2
<1>5. Len(list) + 1 \in DOMAIN long
  BY <1>2
<1>6. Elems(long) = Elems(list) \cup {e}
  BY <1>1, <1>3, <1>4, <1>5 DEF Elems
<1> QED
  BY <1>6 DEF long

\* A list in order, with a later submission at its end, is in order.
LEMMA AppendInOrder ==
  ASSUME NEW list \in Seq(Submission), NEW e \in Submission,
         InOrder(list), \A x \in Elems(list) : x.n < e.n
  PROVE  InOrder(Append(list, e))
<1> DEFINE long == Append(list, e)
<1>1. /\ long \in Seq(Submission) /\ Len(long) = Len(list) + 1
      /\ \A i \in 1..Len(list) : long[i] = list[i]
      /\ long[Len(list) + 1] = e
  BY AppendFacts
<1> HIDE DEF long
<1>2. /\ DOMAIN long = 1..(Len(list) + 1)
      /\ DOMAIN list = 1..Len(list) /\ Len(list) \in Nat
  BY <1>1, ElemFacts
<1>3. ASSUME NEW i \in DOMAIN long, NEW j \in DOMAIN long, i < j
      PROVE  long[i].n < long[j].n
  <2>1. i \in DOMAIN list /\ long[i] = list[i] /\ list[i] \in Elems(list)
    BY <1>1, <1>2, <1>3 DEF Elems
  <2>2. CASE j = Len(list) + 1
    BY <1>1, <2>1, <2>2
  <2>3. CASE j # Len(list) + 1
    <3>1. j \in DOMAIN list /\ long[j] = list[j]
      BY <1>1, <1>2, <2>3
    <3> QED
      BY <1>3, <2>1, <3>1 DEF InOrder
  <2> QED
    BY <2>2, <2>3
<1>4. InOrder(long)
  BY <1>3 DEF InOrder
<1> QED
  BY <1>4 DEF long

\* The first element of a list and the others.
LEMMA TailElems ==
  ASSUME NEW list \in Seq(Submission), list # <<>>
  PROVE  /\ Elems(list) = {Head(list)} \cup Elems(Tail(list))
         /\ InOrder(list) => /\ InOrder(Tail(list))
                             /\ \A x \in Elems(Tail(list)) : Head(list).n < x.n
<1> DEFINE short == Tail(list)
           e == Head(list)
<1>1. /\ e = list[1] /\ short \in Seq(Submission) /\ Len(short) = Len(list) - 1
      /\ \A i \in 1..Len(short) : short[i] = list[i + 1]
      /\ Len(list) \in Nat \ {0}
  BY HeadFacts
<1> HIDE DEF short, e
<1>2. DOMAIN short = 1..(Len(list) - 1) /\ DOMAIN list = 1..Len(list)
  BY <1>1, ElemFacts
<1>3. \A i \in DOMAIN short : i + 1 \in DOMAIN list /\ short[i] = list[i + 1] /\ 1 < i + 1
  BY <1>1, <1>2
<1>4. \A i \in DOMAIN list : i = 1 \/ (i - 1 \in DOMAIN short /\ short[i - 1] = list[i])
  <2> TAKE i \in DOMAIN list
  <2>1. i = 1 \/ (i - 1 \in DOMAIN short /\ (i - 1) + 1 = i)
    BY <1>1, <1>2
  <2> QED
    BY <1>3, <2>1
<1>5. 1 \in DOMAIN list
  BY <1>1, <1>2
<1>6. Elems(list) = {e} \cup Elems(short)
  BY <1>1, <1>3, <1>4, <1>5 DEF Elems
<1>7. ASSUME InOrder(list)
      PROVE  InOrder(short) /\ \A x \in Elems(short) : e.n < x.n
  <2>1. \A i, j \in DOMAIN short : i < j => i + 1 < j + 1
    BY <1>1, <1>2
  <2>2. InOrder(short)
    BY <1>3, <1>7, <2>1 DEF InOrder
  <2>3. \A x \in Elems(short) : e.n < x.n
    BY <1>1, <1>3, <1>5, <1>7 DEF InOrder, Elems
  <2> QED
    BY <2>2, <2>3
<1> QED
  BY <1>6, <1>7 DEF short, e

\* Lists that only lose elements, and blocks that were known before, keep the order.
LEMMA OrderShrinks ==
  ASSUME NumbersKnown, SubmissionOrder, UNCHANGED submitted, Made' \subseteq Made,
         \A s \in Senders : InOrder(pending'[s]) /\ Elems(pending'[s]) \subseteq Elems(pending[s]),
         \A e \in (removed \cup lost)' : Known(e)
  PROVE  NumbersKnown' /\ SubmissionOrder'
<1>1. \A e : Known(e) => Known(e)'
  BY DEF Known
<1>2. NumbersKnown'
  BY <1>1 DEF NumbersKnown
<1>3. \A block \in Made, s \in Senders : Before(block, pending'[s])
  BY BeforeElems, OrderParts
<1>4. /\ \A s \in Senders : InOrder(pending'[s])
      /\ \A block \in Made' :
           /\ InOrder(block)
           /\ \A s \in Senders : Before(block, pending'[s])
           /\ \A other \in Made' \ {block} : Before(block, other) \/ Before(other, block)
  BY <1>3, OrderParts
<1>5. SubmissionOrder'
  BY <1>4 DEF SubmissionOrder, Made
<1> QED
  BY <1>2, <1>5

\* Nothing was submitted yet.
LEMMA OrderInit == Init => OrderInv
<1> SUFFICES ASSUME Init PROVE OrderInv
  OBVIOUS
<1>1. \A t \in Threads : task[t].at = "idle"
  BY DEF Init, Idle
<1>2. Made = {} /\ removed \cup lost = {}
  BY <1>1 DEF Init, Made, Miners
<1>3. \A s \in Senders : pending[s] = <<>> /\ Elems(pending[s]) = {} /\ DOMAIN pending[s] = {}
  BY NoElems DEF Init
<1>4. HolderRemoves /\ FilterExact
  BY <1>1 DEF HolderRemoves, FilterExact
<1>5. NumbersKnown
  BY <1>2, <1>3 DEF NumbersKnown
<1>6. SubmissionOrder
  BY <1>2, <1>3, OrderParts DEF InOrder
<1> QED
  BY <1>4, <1>5, <1>6 DEF OrderInv

\* The mutex is free when a submission is added, so no list is being filtered, and
\* its number is higher than all others of its sender.
LEMMA AddOrder ==
  ASSUME IInv, OrderInv, NEW t \in Threads, NEW tx \in Txs, Add(t, tx)
  PROVE  OrderInv'
<1> DEFINE s == SenderOf[tx]
           e == [tx |-> tx, n |-> submitted[s] + 1]
           list == Append(pending[s], e)
<1>1. /\ s \in Senders /\ pending[s] \in Seq(Submission)
      /\ submitted[s] \in 0..MaxSubmit /\ submitted[s] < MaxSubmit
      /\ Len(pending[s]) \in Nat /\ Len(pending[s]) < Threshold
      /\ Threshold \in Nat \ {0}
  BY PoolAssumption, LenProperties DEF Add, IInv, TypeOK, BelowThreshold
<1>2. /\ e \in Submission /\ Owner(e) = s /\ e.n = submitted[s] + 1
  BY <1>1, PoolAssumption DEF Submission, Owner
<1>3. /\ submitted' = [submitted EXCEPT ![s] = @ + 1]
      /\ UNCHANGED <<mutex, mined, removed, lost>>
      /\ task[t].at = "idle" /\ mutex = Free
      /\ IF Full(list)
         THEN /\ pending' = [pending EXCEPT ![s] = Keep(list)]
              /\ Goto(t, [Idle EXCEPT !.at = "mining", !.txs = Release(list)])
         ELSE /\ pending' = [pending EXCEPT ![s] = list] /\ UNCHANGED task
  BY DEF Add, Enqueue
<1>4. /\ list \in Seq(Submission) /\ Len(list) = Len(pending[s]) + 1
      /\ Elems(list) = Elems(pending[s]) \cup {e}
  BY <1>1, <1>2, AppendFacts, AppendElems
<1>5. /\ submitted'[s] = submitted[s] + 1
      /\ \A u \in Senders : /\ submitted[u] \in Nat /\ submitted[u] <= submitted'[u]
  BY <1>1, <1>3, PoolAssumption DEF IInv, TypeOK
<1>6. /\ Elems(pending[s]) \subseteq Submission
      /\ \A x \in Elems(pending[s]) : Owner(x) = s /\ x.n \in Nat /\ x.n <= submitted[s]
  BY <1>1, ElemFacts DEF IInv, QueuesOwned, OwnedBy, Elems, OrderInv, NumbersKnown, Known
<1>7. InOrder(list)
  <2>1. \A x \in Elems(pending[s]) : x.n < e.n
    BY <1>1, <1>2, <1>6
  <2>2. InOrder(pending[s])
    BY <1>1, OrderParts DEF OrderInv
  <2> QED
    BY <1>1, <1>2, <2>1, <2>2, AppendInOrder
\* what is in a block is a submission of a sender
<1>8. \A block \in Made : Elems(block) \subseteq Submission
  <2>1. \A block \in Made : block \in Seq(Submission)
    BY LenProperties, ElementOfSeq DEF Made, Miners, IInv, TypeOK, Task
  <2> QED
    BY <2>1, ElemFacts
<1>9. \A x \in Submission : Owner(x) \in Senders /\ x.n \in Nat
  BY PoolAssumption DEF Submission, Owner
<1>10. \A block \in Made : Before(block, list)
  <2> SUFFICES ASSUME NEW block \in Made, NEW x \in Elems(block), NEW y \in Elems(list),
                      Owner(x) = Owner(y)
               PROVE  x.n < y.n
    BY BeforeElems
  <2>1. Owner(x) \in Senders /\ x.n \in Nat /\ x.n <= submitted[Owner(x)]
    BY <1>8, <1>9 DEF OrderInv, NumbersKnown, Known
  <2>2. CASE y = e
    BY <1>1, <1>2, <2>1, <2>2
  <2>3. CASE y \in Elems(pending[s])
    BY <1>1, <2>3, OrderParts, BeforeElems DEF OrderInv
  <2> QED
    BY <1>4, <2>2, <2>3
\* numbers stay known
<1>11. \A x \in Submission : Known(x) => Known(x)'
  BY <1>5, <1>9, <1>3, PoolAssumption DEF Known, IInv, TypeOK
<1>12. \A x \in Elems(list) : Known(x)'
  BY <1>1, <1>2, <1>4, <1>5, <1>6 DEF Known
<1>13. \A x \in (removed \cup lost)' : Known(x)'
  BY <1>3, <1>11 DEF OrderInv, NumbersKnown, IInv, TypeOK
<1> HIDE DEF list, e, s
<1>14. \A u \in Threads : task[u].at \notin {"removing", "filtering"}
  BY <1>3, FreeAssumption DEF OrderInv, HolderRemoves
<1>15. \A u \in Senders \ {s} : pending'[u] = pending[u]
  BY <1>1, <1>3 DEF IInv, TypeOK
<1>16. \A u \in Senders : /\ InOrder(pending[u])
                          /\ \A x \in Elems(pending[u]) : Known(x)'
                          /\ \A block \in Made : Before(block, pending[u])
  BY <1>11, ElemFacts, OrderParts DEF OrderInv, NumbersKnown, IInv, TypeOK
<1>17. \A block \in Made : /\ InOrder(block) /\ \A x \in Elems(block) : Known(x)'
                           /\ \A other \in Made \ {block} : Before(block, other) \/ Before(other, block)
  BY <1>8, <1>11, OrderParts DEF OrderInv, NumbersKnown
<1>18. CASE Full(list)
  <2>1. Len(list) = Threshold
    BY <1>1, <1>4, <1>18 DEF Full
  <2>2. Release(list) = list
    BY <1>4, <2>1, SubSeqFull DEF Release
  <2>3. Keep(list) = <<>>
    BY <1>1, <2>1, SubSeqEmpty DEF Keep
  <2> DEFINE j == [Idle EXCEPT !.at = "mining", !.txs = list]
  <2>4. j \in Task /\ j.at = "mining" /\ j.txs = list
    BY <1>4, IdleIsTask DEF Task
  <2>5. Goto(t, j) /\ pending' = [pending EXCEPT ![s] = <<>>]
    BY <1>3, <1>18, <2>2, <2>3 DEF list, e
  <2> HIDE DEF j
  <2>6. /\ task' \in [Threads -> Task] /\ task'[t] = j
        /\ \A u \in Threads : u # t => task'[u] = task[u]
    BY <2>4, <2>5, OthersKeep
  <2>7. Made' = Made \cup {list}
    <3>1. Miners' = Miners \cup {t} /\ t \notin Miners
      BY <1>3, <2>4, <2>6 DEF Miners
    <3> QED
      BY <1>3, <2>4, <2>6, <3>1 DEF Made, Miners
  <2>8. pending'[s] = <<>> /\ InOrder(pending'[s]) /\ Elems(pending'[s]) = {}
    BY <1>1, <2>5, EmptySeq DEF IInv, TypeOK, InOrder, Elems
  <2>9. HolderRemoves' /\ FilterExact'
    BY <1>14, <2>4, <2>6 DEF HolderRemoves, FilterExact
  <2>10. NumbersKnown'
    BY <1>12, <1>13, <1>15, <1>16, <1>17, <2>7, <2>8 DEF NumbersKnown
  \* the new block follows all others of its sender, and nothing follows it yet
  <2>11. \A u \in Senders : Before(list, pending'[u])
    <3> SUFFICES ASSUME NEW u \in Senders, NEW x \in Elems(list), NEW y \in Elems(pending'[u]),
                        Owner(x) = Owner(y)
                 PROVE  FALSE
      BY BeforeElems
    <3>1. Owner(x) = s
      BY <1>2, <1>4, <1>6
    <3>2. u # s
      BY <2>8
    <3>3. Owner(y) = u
      BY <1>15, <3>2 DEF IInv, QueuesOwned, OwnedBy, Elems
    <3> QED
      BY <3>1, <3>2, <3>3
  <2>12. SubmissionOrder'
    <3>1. \A u \in Senders : InOrder(pending'[u]) /\ \A block \in Made' : Before(block, pending'[u])
      <4>1. \A u \in Senders \ {s} : InOrder(pending'[u]) /\ \A block \in Made' : Before(block, pending'[u])
        BY <1>15, <1>16, <2>7, <2>11
      <4>2. InOrder(pending'[s]) /\ \A block \in Made' : Before(block, pending'[s])
        BY <1>1, <2>8, BeforeElems
      <4> QED
        BY <4>1, <4>2
    <3>2. \A block \in Made' :
            /\ InOrder(block)
            /\ \A other \in Made' \ {block} : Before(block, other) \/ Before(other, block)
      BY <1>7, <1>10, <1>17, <2>7
    <3> QED
      BY <3>1, <3>2 DEF SubmissionOrder, Made
  <2> QED
    BY <2>9, <2>10, <2>12 DEF OrderInv
<1>19. CASE ~Full(list)
  <2>1. pending' = [pending EXCEPT ![s] = list] /\ UNCHANGED task
    BY <1>3, <1>19 DEF list, e
  <2>2. pending'[s] = list
    BY <1>1, <2>1 DEF IInv, TypeOK
  <2>3. Made' = Made
    BY <1>3, <2>1 DEF Made, Miners
  <2>4. HolderRemoves' /\ FilterExact'
    BY <1>14, <2>1 DEF HolderRemoves, FilterExact
  <2>5. NumbersKnown'
    BY <1>12, <1>13, <1>15, <1>16, <1>17, <2>2, <2>3 DEF NumbersKnown
  <2>6. SubmissionOrder'
    <3>1. \A u \in Senders : InOrder(pending'[u]) /\ \A block \in Made' : Before(block, pending'[u])
      BY <1>7, <1>10, <1>15, <1>16, <2>2, <2>3
    <3> QED
      BY <1>17, <2>3, <3>1 DEF SubmissionOrder, Made
  <2> QED
    BY <2>4, <2>5, <2>6 DEF OrderInv
<1> QED
  BY <1>18, <1>19

\* The lists of a task, as it is carried along.
LEMMA TaskFacts ==
  ASSUME IInv, NEW t \in Threads
  PROVE  /\ task[t] \in Task /\ task[t].txs \in Seq(Submission)
         /\ task[t].rest \in Seq(Submission) /\ task[t].dropped \subseteq Submission
BY DEF IInv, TypeOK, Task

\* Blocks on their way to the chain are in no list.
LEMMA MineOrder ==
  ASSUME IInv, OrderInv, NEW t \in Threads, Mine(t) \/ MineFails(t)
  PROVE  OrderInv'
<1> DEFINE txs == task[t].txs
<1>1. /\ txs \in Seq(Submission) /\ t \in Miners /\ mined \in Seq(Seq(Submission))
      /\ UNCHANGED <<pending, mutex, removed, submitted>>
  BY TaskFacts DEF Mine, MineFails, Miners, IInv, TypeOK
<1>2. /\ task'[t] = Idle /\ task'[t].at = "idle"
      /\ \A u \in Threads : u # t => task'[u] = task[u]
  BY IdleIsTask, OthersKeep DEF Mine, MineFails, Idle
<1>3. HolderRemoves' /\ FilterExact'
  BY <1>1, <1>2 DEF OrderInv, HolderRemoves, FilterExact
<1>4. Miners' = Miners \ {t}
  BY <1>2 DEF Miners
<1>5. \A e \in Elems(txs) : Known(e)
  BY <1>1 DEF OrderInv, NumbersKnown, Made
<1>6. CASE Mine(t)
  <2>1. /\ Len(mined') = Len(mined) + 1 /\ mined' \in Seq(Seq(Submission))
        /\ \A i \in 1..Len(mined) : mined'[i] = mined[i]
        /\ mined'[Len(mined) + 1] = txs
    BY <1>1, <1>6, AppendFacts DEF Mine
  <2>2. /\ DOMAIN mined' = 1..(Len(mined) + 1) /\ DOMAIN mined = 1..Len(mined)
        /\ Len(mined) \in Nat
    BY <1>1, <2>1, LenProperties
  <2>3. \A b \in DOMAIN mined' : mined'[b] = txs \/ \E c \in DOMAIN mined : mined'[b] = mined[c]
    <3> TAKE b \in DOMAIN mined'
    <3>1. b = Len(mined) + 1 \/ b \in DOMAIN mined
      BY <2>2
    <3> QED
      BY <2>1, <2>2, <3>1
  <2>4. \A u \in Miners' : u \in Miners /\ task'[u] = task[u]
    BY <1>2, <1>4 DEF Miners
  <2>5. txs \in Made
    BY <1>1 DEF Made
  <2>6. Made' \subseteq Made
    BY <2>3, <2>4, <2>5 DEF Made
  <2>7. \A e \in (removed \cup lost)' : Known(e)
    BY <1>1, <1>6 DEF Mine, OrderInv, NumbersKnown
  <2>8. \A s \in Senders : InOrder(pending'[s]) /\ Elems(pending'[s]) \subseteq Elems(pending[s])
    BY <1>1, OrderParts DEF OrderInv
  <2> QED
    BY <1>1, <1>3, <2>6, <2>7, <2>8, OrderShrinks DEF OrderInv
<1>7. CASE MineFails(t)
  <2>1. UNCHANGED mined /\ lost' = lost \cup Elems(txs)
    BY <1>7 DEF MineFails, Elems
  <2>2. \A u \in Miners' : u \in Miners /\ task'[u] = task[u]
    BY <1>2, <1>4 DEF Miners
  <2>3. Made' \subseteq Made
    BY <2>1, <2>2 DEF Made
  <2>4. \A e \in (removed \cup lost)' : Known(e)
    BY <1>1, <1>5, <2>1 DEF OrderInv, NumbersKnown
  <2>5. \A s \in Senders : InOrder(pending'[s]) /\ Elems(pending'[s]) \subseteq Elems(pending[s])
    BY <1>1, OrderParts DEF OrderInv
  <2> QED
    BY <1>1, <1>3, <2>3, <2>4, <2>5, OrderShrinks DEF OrderInv
<1> QED
  BY <1>6, <1>7

\* A step of a filtering goroutine, or one that begins or ends to filter, adds no
\* block.
LEMMA MadeStays ==
  ASSUME IInv, NEW t \in Threads, NEW j \in Task, Goto(t, j), UNCHANGED mined,
         task[t].at # "mining", j.at # "mining"
  PROVE  Made' = Made
<1>1. task'[t] = j /\ \A u \in Threads : u # t => task'[u] = task[u]
  BY OthersKeep
<1>2. Miners' = Miners /\ \A u \in Miners : task'[u] = task[u]
  BY <1>1 DEF Miners
<1> QED
  BY <1>2 DEF Made

\* RemoveIncluded keeps the order, and takes lists apart exactly.
LEMMA RemoveOrder ==
  ASSUME IInv, OrderInv, NEW t \in Threads, RemoveIncluded(t)
  PROVE  OrderInv'
<1>0. /\ task[t] \in Task /\ task[t].txs \in Seq(Submission)
      /\ task[t].rest \in Seq(Submission) /\ task[t].dropped \subseteq Submission
  BY TaskFacts
\* steps that leave the lists alone
<1>10. ASSUME UNCHANGED <<pending, history>>, Made' = Made
      PROVE  NumbersKnown' /\ SubmissionOrder'
  <2>1. \A e \in (removed \cup lost)' : Known(e)
    BY <1>10 DEF history, OrderInv, NumbersKnown
  <2>2. \A s \in Senders : InOrder(pending'[s]) /\ Elems(pending'[s]) \subseteq Elems(pending[s])
    BY <1>10, OrderParts DEF OrderInv
  <2> QED
    BY <1>10, <2>1, <2>2, OrderShrinks DEF OrderInv, history
<1>1. ASSUME NEW included \in SUBSET Txs, Remove(t, included) PROVE OrderInv'
  <2> DEFINE j == [Idle EXCEPT !.at = "removing", !.included = included,
                               !.todo = {SenderOf[tx] : tx \in included}]
  <2>1. j \in Task /\ j.at = "removing"
    <3>1. {SenderOf[tx] : tx \in included} \subseteq Senders
      BY PoolAssumption
    <3> QED
      BY <3>1, IdleIsTask DEF Task
  <2>2. /\ Goto(t, j) /\ mutex' = t /\ mutex = Free /\ task[t].at = "idle"
        /\ UNCHANGED <<pending, history>>
    BY <1>1 DEF Remove
  <2> HIDE DEF j
  <2>3. /\ task'[t] = j /\ \A u \in Threads : u # t => task'[u] = task[u]
    BY <2>1, <2>2, OthersKeep
  <2>4. \A u \in Threads : task[u].at \notin {"removing", "filtering"}
    BY <2>2, FreeAssumption DEF OrderInv, HolderRemoves
  <2>5. HolderRemoves' /\ FilterExact'
    BY <2>1, <2>2, <2>3, <2>4 DEF HolderRemoves, FilterExact
  <2>6. Made' = Made
    BY <2>1, <2>2, MadeStays DEF history
  <2> QED
    BY <1>10, <2>2, <2>5, <2>6 DEF OrderInv
<1>2. CASE RemoveSender(t)
  <2>1. PICK s \in task[t].todo :
          Goto(t, [task[t] EXCEPT !.at = "filtering", !.sender = s, !.txs = <<>>,
                                  !.rest = pending[s], !.dropped = {},
                                  !.todo = @ \ {s}])
    BY <1>2 DEF RemoveSender
  <2> DEFINE j == [task[t] EXCEPT !.at = "filtering", !.sender = s, !.txs = <<>>,
                                  !.rest = pending[s], !.dropped = {},
                                  !.todo = @ \ {s}]
  <2>2. s \in Senders /\ pending[s] \in Seq(Submission)
    BY <1>0 DEF IInv, TypeOK, Task
  <2>3. /\ j \in Task /\ j.at = "filtering" /\ j.sender = s
        /\ j.txs = <<>> /\ j.rest = pending[s] /\ j.dropped = {}
    BY <1>0, <2>2, EmptySeq DEF Task
  <2>4. Goto(t, j) /\ task[t].at = "removing" /\ UNCHANGED <<pending, mutex, history>>
    BY <1>2, <2>1 DEF RemoveSender
  <2> HIDE DEF j
  <2>5. /\ task'[t] = j /\ \A u \in Threads : u # t => task'[u] = task[u]
    BY <2>3, <2>4, OthersKeep
  <2>6. HolderRemoves'
    BY <2>3, <2>4, <2>5 DEF OrderInv, HolderRemoves
  <2>7. /\ InOrder(j.txs) /\ InOrder(j.rest)
        /\ \A i \in DOMAIN j.txs, k \in DOMAIN j.rest : j.txs[i].n < j.rest[k].n
        /\ Elems(j.txs) \cup Elems(j.rest) \cup j.dropped = Elems(pending[s])
        /\ j.dropped \cap (Elems(j.txs) \cup Elems(j.rest)) = {}
    <3>1. DOMAIN j.txs = {}
      BY <2>3, EmptySeq
    <3>2. InOrder(j.rest)
      BY <2>2, <2>3, OrderParts DEF OrderInv
    <3> QED
      BY <2>3, <3>1, <3>2 DEF InOrder, Elems
  <2>8. FilterExact'
    BY <2>3, <2>4, <2>5, <2>7 DEF OrderInv, FilterExact
  <2>9. Made' = Made
    BY <2>3, <2>4, MadeStays DEF history
  <2> QED
    BY <1>10, <2>4, <2>6, <2>8, <2>9 DEF OrderInv
<1>3. CASE FilterOne(t)
  <2> DEFINE e == Head(task[t].rest)
             drop == [task[t] EXCEPT !.rest = Tail(@), !.dropped = @ \cup {e}]
             keep == [task[t] EXCEPT !.rest = Tail(@), !.txs = Append(@, e)]
             s == task[t].sender
             kept == task[t].txs
             rest == task[t].rest
  <2>1. /\ rest # <<>> /\ task[t].at = "filtering"
        /\ Goto(t, drop) \/ Goto(t, keep)
        /\ UNCHANGED <<pending, mutex, history>>
    BY <1>3 DEF FilterOne
  <2>2. /\ e \in Submission /\ Tail(rest) \in Seq(Submission)
        /\ Elems(rest) = {e} \cup Elems(Tail(rest))
        /\ InOrder(rest) => /\ InOrder(Tail(rest))
                            /\ \A x \in Elems(Tail(rest)) : e.n < x.n
    BY <1>0, <2>1, HeadFacts, TailElems
  <2>3. /\ Append(kept, e) \in Seq(Submission) /\ Elems(Append(kept, e)) = Elems(kept) \cup {e}
    BY <1>0, <2>2, AppendFacts, AppendElems
  <2>4. /\ InOrder(kept) /\ InOrder(rest)
        /\ \A x \in Elems(kept), y \in Elems(rest) : x.n < y.n
        /\ Elems(kept) \cup Elems(rest) \cup task[t].dropped = Elems(pending[s])
        /\ task[t].dropped \cap (Elems(kept) \cup Elems(rest)) = {}
    BY <2>1 DEF OrderInv, FilterExact, Elems
  <2>5. InOrder(Append(kept, e))
    BY <1>0, <2>2, <2>4, AppendInOrder
  <2>6. drop \in Task /\ keep \in Task
    BY <1>0, <2>2, <2>3 DEF Task
  \* e goes to the kept or to the dropped ones
  <2>7. PICK j \in Task :
          /\ Goto(t, j) /\ j.at = "filtering" /\ j.sender = s /\ j.rest = Tail(rest)
          /\ \/ j.txs = kept /\ j.dropped = task[t].dropped \cup {e}
             \/ j.txs = Append(kept, e) /\ j.dropped = task[t].dropped
    <3>1. CASE Goto(t, drop)
      <4>1. /\ drop.at = "filtering" /\ drop.sender = s /\ drop.rest = Tail(rest)
            /\ drop.txs = kept /\ drop.dropped = task[t].dropped \cup {e}
        BY <1>0, <2>1 DEF Task
      <4> QED
        BY <2>6, <3>1, <4>1
    <3>2. CASE Goto(t, keep)
      <4>1. /\ keep.at = "filtering" /\ keep.sender = s /\ keep.rest = Tail(rest)
            /\ keep.txs = Append(kept, e) /\ keep.dropped = task[t].dropped
        BY <1>0, <2>1 DEF Task
      <4> QED
        BY <2>6, <3>2, <4>1
    <3> QED
      BY <2>1, <3>1, <3>2
  <2> HIDE DEF drop, keep, e
  <2>8. \A x \in Submission : x.n \in Nat
    BY PoolAssumption DEF Submission
  <2>9. e \notin Elems(kept) /\ e \notin Elems(Tail(rest)) /\ e \notin task[t].dropped
    BY <2>2, <2>4, <2>8
  <2>10. /\ InOrder(j.txs) /\ InOrder(j.rest)
         /\ Elems(j.txs) \cup Elems(j.rest) \cup j.dropped = Elems(pending[s])
         /\ j.dropped \cap (Elems(j.txs) \cup Elems(j.rest)) = {}
    BY <2>2, <2>3, <2>4, <2>5, <2>7, <2>9
  <2>11. \A x \in Elems(j.txs), y \in Elems(j.rest) : x.n < y.n
    BY <2>2, <2>3, <2>4, <2>7
  <2>12. \A i \in DOMAIN j.txs, k \in DOMAIN j.rest : j.txs[i].n < j.rest[k].n
    BY <2>11 DEF Elems
  <2>13. /\ task'[t] = j /\ \A u \in Threads : u # t => task'[u] = task[u]
    BY <2>7, OthersKeep
  <2>14. HolderRemoves'
    BY <2>1, <2>7, <2>13 DEF OrderInv, HolderRemoves
  <2>15. FilterExact'
    BY <2>1, <2>7, <2>10, <2>12, <2>13 DEF OrderInv, FilterExact
  <2>16. Made' = Made
    BY <2>1, <2>7, MadeStays DEF history
  <2> QED
    BY <1>10, <2>1, <2>14, <2>15, <2>16 DEF OrderInv
<1>4. CASE StoreFiltered(t)
  <2> DEFINE s == task[t].sender
             j == [task[t] EXCEPT !.at = "removing"]
  <2>1. /\ task[t].at = "filtering" /\ task[t].rest = <<>> /\ Goto(t, j)
        /\ pending' = [pending EXCEPT ![s] = task[t].txs]
        /\ removed' = removed \cup task[t].dropped
        /\ UNCHANGED <<mutex, mined, lost, submitted>>
    BY <1>4 DEF StoreFiltered
  <2>2. j \in Task /\ j.at = "removing"
    BY <1>0 DEF Task
  <2> HIDE DEF j
  <2>3. /\ task'[t] = j /\ \A u \in Threads : u # t => task'[u] = task[u]
    BY <2>1, <2>2, OthersKeep
  <2>4. /\ s \in Senders /\ InOrder(task[t].txs)
        /\ Elems(task[t].txs) \subseteq Elems(pending[s])
        /\ task[t].dropped \subseteq Elems(pending[s])
    BY <2>1 DEF OrderInv, FilterExact, IInv, FilteringGood
  <2>5. HolderRemoves'
    BY <2>1, <2>2, <2>3 DEF OrderInv, HolderRemoves
  \* no other list is being filtered
  <2>6. FilterExact'
    <3>1. \A u \in Threads : task[u].at = "filtering" => u = t
      BY <2>1 DEF OrderInv, HolderRemoves
    <3> QED
      BY <2>2, <2>3, <3>1 DEF FilterExact
  <2>7. Made' = Made
    BY <2>1, <2>2, MadeStays
  <2>8. \A u \in Senders : InOrder(pending'[u]) /\ Elems(pending'[u]) \subseteq Elems(pending[u])
    BY <2>1, <2>4, OrderParts DEF OrderInv, IInv, TypeOK
  <2>9. \A e \in (removed \cup lost)' : Known(e)
    BY <2>1, <2>4 DEF OrderInv, NumbersKnown
  <2> QED
    BY <2>1, <2>5, <2>6, <2>7, <2>8, <2>9, OrderShrinks DEF OrderInv
<1>5. CASE RemoveEnd(t)
  <2>1. /\ Goto(t, Idle) /\ mutex' = Free /\ task[t].at = "removing"
        /\ UNCHANGED <<pending, history>>
    BY <1>5 DEF RemoveEnd
  <2>2. /\ task'[t] = Idle /\ Idle.at = "idle" /\ \A u \in Threads : u # t => task'[u] = task[u]
    BY <2>1, IdleIsTask, OthersKeep DEF Idle
  <2>3. \A u \in Threads : task[u].at \in {"removing", "filtering"} => u = t
    BY <2>1 DEF OrderInv, HolderRemoves
  <2>4. HolderRemoves' /\ FilterExact'
    BY <2>2, <2>3 DEF HolderRemoves, FilterExact
  <2>5. Made' = Made
    BY <2>1, <2>2, IdleIsTask, MadeStays DEF history
  <2> QED
    BY <1>10, <2>1, <2>4, <2>5 DEF OrderInv
<1> QED
  BY <1>1, <1>2, <1>3, <1>4, <1>5 DEF RemoveIncluded

LEMMA OrderNext == IInv /\ OrderInv /\ [Next]_vars => OrderInv'
<1> SUFFICES ASSUME IInv, OrderInv, [Next]_vars PROVE OrderInv'
  OBVIOUS
<1>1. CASE UNCHANGED vars
  <2>1. Made' = Made
    BY <1>1 DEF vars, Made, Miners
  <2>2. HolderRemoves' /\ FilterExact'
    BY <1>1 DEF vars, OrderInv, HolderRemoves, FilterExact
  <2>3. \A e \in (removed \cup lost)' : Known(e)
    BY <1>1 DEF vars, OrderInv, NumbersKnown
  <2>4. \A s \in Senders : InOrder(pending'[s]) /\ Elems(pending'[s]) \subseteq Elems(pending[s])
    BY <1>1, OrderParts DEF vars, OrderInv
  <2> QED
    BY <1>1, <2>1, <2>2, <2>3, <2>4, OrderShrinks DEF vars, OrderInv
<1>2. CASE Next
  BY <1>2, AddOrder, MineOrder, RemoveOrder DEF Next, Submit
<1> QED
  BY <1>1, <1>2

\* Whoever adds, mines and filters at once: lists and blocks are in the order of
\* submission.
THEOREM OrderSurvives == Spec => []SubmissionOrder
<1>1. OrderInv => SubmissionOrder
  BY DEF OrderInv
<1> QED
  BY <1>1, OrderInit, OrderNext, PoolInvariant, PTL DEF Spec

-----------------------------------------------------------------------------
\* Each step moves the places of some submissions elsewhere, one to one.

\* the places of submission n of s in a list, and in a set
ListPlaces(tag, key, list, s, n) == {<<tag, key, i>> : i \in InList(list, s, n)}
SetPlaces(tag, S, s, n) == {<<tag, e, 0>> : e \in {x \in S : Owner(x) = s /\ x.n = n}}

\* those in the blocks that some goroutines hold, and in a chain of blocks
HeldPlaces(tasks, T, s, n) == UNION {ListPlaces("mining", t, tasks[t].txs, s, n) : t \in T}
ChainPlaces(chain, s, n) == UNION {ListPlaces("mined", b, chain[b], s, n) : b \in DOMAIN chain}

Is(e, s, n) == Owner(e) = s /\ e.n = n

LEMMA PlacesParts ==
  ASSUME NEW s, NEW n
  PROVE  /\ Places(s, n) =
              ListPlaces("pending", s, pending[s], s, n)
              \cup HeldPlaces(task, Miners, s, n)
              \cup ChainPlaces(mined, s, n)
              \cup SetPlaces("removed", removed, s, n)
              \cup SetPlaces("lost", lost, s, n)
         /\ Places(s, n)' =
              ListPlaces("pending", s, pending'[s], s, n)
              \cup HeldPlaces(task', Miners', s, n)
              \cup ChainPlaces(mined', s, n)
              \cup SetPlaces("removed", removed', s, n)
              \cup SetPlaces("lost", lost', s, n)
<1>1. /\ UNION {{<<"mining", t, i>> : i \in InList(task[t].txs, s, n)} : t \in Miners}
          = HeldPlaces(task, Miners, s, n)
      /\ UNION {{<<"mining", t, i>> : i \in InList(task'[t].txs, s, n)} : t \in Miners'}
          = HeldPlaces(task', Miners', s, n)
  BY DEF HeldPlaces, ListPlaces
<1>2. /\ UNION {{<<"mined", b, i>> : i \in InList(mined[b], s, n)} : b \in DOMAIN mined}
          = ChainPlaces(mined, s, n)
      /\ UNION {{<<"mined", b, i>> : i \in InList(mined'[b], s, n)} : b \in DOMAIN mined'}
          = ChainPlaces(mined', s, n)
  BY DEF ChainPlaces, ListPlaces
<1>3. Places(s, n) =
        ListPlaces("pending", s, pending[s], s, n)
        \cup HeldPlaces(task, Miners, s, n) \cup ChainPlaces(mined, s, n)
        \cup SetPlaces("removed", removed, s, n) \cup SetPlaces("lost", lost, s, n)
  BY <1>1, <1>2 DEF Places, ListPlaces, SetPlaces
<1>4. Places(s, n)' =
        ListPlaces("pending", s, pending'[s], s, n)
        \cup HeldPlaces(task', Miners', s, n) \cup ChainPlaces(mined', s, n)
        \cup SetPlaces("removed", removed', s, n) \cup SetPlaces("lost", lost', s, n)
  BY <1>1, <1>2 DEF Places, ListPlaces, SetPlaces
<1> QED
  BY <1>3, <1>4

\* A list has a place for what it holds, and one only if it is in order.
LEMMA ListPlacesFacts ==
  ASSUME NEW tag, NEW key, NEW list \in Seq(Submission), NEW s, NEW n
  PROVE  /\ \A q \in ListPlaces(tag, key, list, s, n) : q[1] = tag /\ q[2] = key
         /\ ListPlaces(tag, key, list, s, n) = {} <=> \A e \in Elems(list) : ~Is(e, s, n)
         /\ InOrder(list) =>
              /\ \A p, q \in ListPlaces(tag, key, list, s, n) : p = q
              /\ \A d, e \in Elems(list) : Is(d, s, n) /\ Is(e, s, n) => d = e
<1>1. DOMAIN list = 1..Len(list) /\ Len(list) \in Nat /\ \A x \in Elems(list) : x.n \in Nat
  BY ElemFacts
<1>2. \A i \in DOMAIN list : list[i].n \in Nat
  BY <1>1 DEF Elems
<1>3. ASSUME InOrder(list), NEW i \in DOMAIN list, NEW j \in DOMAIN list,
             list[i].n = list[j].n
      PROVE  i = j
  <2>1. ~(i < j) /\ ~(j < i)
    BY <1>2, <1>3 DEF InOrder
  <2> QED
    BY <1>1, <2>1
<1>4. \A q \in ListPlaces(tag, key, list, s, n) : q[1] = tag /\ q[2] = key
  BY DEF ListPlaces
<1>5. ListPlaces(tag, key, list, s, n) = {} <=> \A e \in Elems(list) : ~Is(e, s, n)
  BY DEF ListPlaces, InList, Elems, Is
<1>6. ASSUME InOrder(list)
      PROVE  /\ \A p, q \in ListPlaces(tag, key, list, s, n) : p = q
             /\ \A d, e \in Elems(list) : Is(d, s, n) /\ Is(e, s, n) => d = e
  <2>1. \A i, j \in InList(list, s, n) : i = j
    BY <1>3, <1>6 DEF InList
  <2>2. \A p, q \in ListPlaces(tag, key, list, s, n) : p = q
    BY <2>1 DEF ListPlaces
  <2>3. \A d, e \in Elems(list) : Is(d, s, n) /\ Is(e, s, n) => d = e
    BY <2>1 DEF Elems, Is, InList
  <2> QED
    BY <2>2, <2>3
<1> QED
  BY <1>4, <1>5, <1>6

LEMMA SetPlacesFacts ==
  ASSUME NEW tag, NEW S, NEW s, NEW n
  PROVE  /\ \A q \in SetPlaces(tag, S, s, n) : q[1] = tag
         /\ SetPlaces(tag, S, s, n) = {} <=> \A e \in S : ~Is(e, s, n)
         /\ (\A d, e \in S : Is(d, s, n) /\ Is(e, s, n) => d = e) =>
              \A p, q \in SetPlaces(tag, S, s, n) : p = q
         /\ \A T : SetPlaces(tag, S \cup T, s, n) =
                     SetPlaces(tag, S, s, n) \cup SetPlaces(tag, T, s, n)
<1>1. \A q \in SetPlaces(tag, S, s, n) : q[1] = tag
  BY DEF SetPlaces
<1>2. SetPlaces(tag, S, s, n) = {} <=> \A e \in S : ~Is(e, s, n)
  BY DEF SetPlaces, Is
<1>3. ASSUME \A d, e \in S : Is(d, s, n) /\ Is(e, s, n) => d = e
      PROVE  \A p, q \in SetPlaces(tag, S, s, n) : p = q
  BY <1>3 DEF SetPlaces, Is
<1>4. ASSUME NEW T
      PROVE  SetPlaces(tag, S \cup T, s, n) = SetPlaces(tag, S, s, n) \cup SetPlaces(tag, T, s, n)
  BY DEF SetPlaces
<1> QED
  BY <1>1, <1>2, <1>3, <1>4

\* If what was in X is now in Y, what had one place has one again.
LEMMA Move ==
  ASSUME NEW R, NEW X, NEW Y, \E p : R \cup X = {p}, R \cap X = {},
         X = {} <=> Y = {}, \A p, q \in Y : p = q
  PROVE  \E p \in R \cup Y : R \cup Y = {p}
<1>1. PICK p : R \cup X = {p}
  OBVIOUS
<1>2. CASE X = {}
  BY <1>1, <1>2
<1>3. CASE X # {}
  <2>1. R = {}
    BY <1>1, <1>3
  <2>2. PICK q \in Y : TRUE
    BY <1>3
  <2>3. R \cup Y = {q}
    BY <2>1, <2>2
  <2> QED
    BY <2>3
<1> QED
  BY <1>2, <1>3

\* What was never submitted is nowhere.
LEMMA NowhereYet ==
  ASSUME IInv, OrderInv, NEW s \in Senders, NEW n \in Nat, n > submitted[s]
  PROVE  Places(s, n) = {}
<1>1. \A e : Known(e) => ~Is(e, s, n)
  BY DEF Known, Is, IInv, TypeOK
<1>2. ListPlaces("pending", s, pending[s], s, n) = {}
  BY <1>1, ListPlacesFacts DEF OrderInv, NumbersKnown, IInv, TypeOK
<1>3. \A t \in Miners : ListPlaces("mining", t, task[t].txs, s, n) = {}
  BY <1>1, TaskFacts, ListPlacesFacts DEF OrderInv, NumbersKnown, Made, Miners
<1>4. \A b \in DOMAIN mined : ListPlaces("mined", b, mined[b], s, n) = {}
  <2>1. \A b \in DOMAIN mined : mined[b] \in Seq(Submission)
    BY LenProperties, ElementOfSeq DEF IInv, TypeOK
  <2> QED
    BY <1>1, <2>1, ListPlacesFacts DEF OrderInv, NumbersKnown, Made
<1>5. SetPlaces("removed", removed, s, n) = {} /\ SetPlaces("lost", lost, s, n) = {}
  BY <1>1, SetPlacesFacts DEF OrderInv, NumbersKnown
<1>6. HeldPlaces(task, Miners, s, n) = {} /\ ChainPlaces(mined, s, n) = {}
  BY <1>3, <1>4 DEF HeldPlaces, ChainPlaces
<1> QED
  BY <1>2, <1>5, <1>6, PlacesParts

\* A block that is mined, or lost, takes the places of its submissions along.
LEMMA MinePlaces ==
  ASSUME IInv, OrderInv, ExactlyOnePlace, NEW t \in Threads, Mine(t) \/ MineFails(t)
  PROVE  ExactlyOnePlace'
<1> DEFINE txs == task[t].txs
<1>1. /\ txs \in Seq(Submission) /\ t \in Miners /\ mined \in Seq(Seq(Submission))
      /\ UNCHANGED <<pending, mutex, removed, submitted>>
  BY TaskFacts DEF Mine, MineFails, Miners, IInv, TypeOK
<1>2. /\ task'[t] = Idle /\ task'[t].at = "idle"
      /\ \A u \in Threads : u # t => task'[u] = task[u]
  BY IdleIsTask, OthersKeep DEF Mine, MineFails, Idle
<1>3. Miners' = Miners \ {t} /\ \A u \in Miners' : task'[u].txs = task[u].txs
  BY <1>2 DEF Miners
<1>4. InOrder(txs)
  BY <1>1, OrderParts DEF OrderInv, Made
<1> SUFFICES ASSUME NEW s \in Senders, NEW n \in 1..submitted[s]
             PROVE  \E p \in Places(s, n)' : Places(s, n)' = {p}
  BY <1>1 DEF ExactlyOnePlace
<1> DEFINE P == ListPlaces("pending", s, pending[s], s, n)
           M == HeldPlaces(task, Miners \ {t}, s, n)
           B == ChainPlaces(mined, s, n)
           D == SetPlaces("removed", removed, s, n)
           L == SetPlaces("lost", lost, s, n)
           X == ListPlaces("mining", t, txs, s, n)
           R == P \cup M \cup B \cup D \cup L
<1>5. Places(s, n) = R \cup X
  <2>1. HeldPlaces(task, Miners, s, n) = M \cup X
    BY <1>1 DEF HeldPlaces
  <2>2. Places(s, n) = P \cup HeldPlaces(task, Miners, s, n)
                       \cup B \cup D \cup L
    BY PlacesParts
  <2> HIDE DEF P, M, B, D, L, X
  <2> QED
    BY <2>1, <2>2
<1>6. \E p : R \cup X = {p}
  BY <1>5 DEF ExactlyOnePlace
<1>7. R \cap X = {}
  <2>1. \A q \in X : q[1] = "mining" /\ q[2] = t
    BY <1>1, ListPlacesFacts
  <2>2. \A q \in P : q[1] = "pending"
    BY ListPlacesFacts DEF IInv, TypeOK
  <2>3. \A q \in M : q[2] # t
    <3>1. ASSUME NEW u \in Miners \ {t}, NEW q \in ListPlaces("mining", u, task[u].txs, s, n)
          PROVE  q[2] # t
      <4>1. task[u].txs \in Seq(Submission)
        BY TaskFacts DEF Miners
      <4> QED
        BY <4>1, ListPlacesFacts
    <3> QED
      BY <3>1 DEF HeldPlaces
  <2>4. \A q \in B : q[1] = "mined"
    <3>1. ASSUME NEW b \in DOMAIN mined, NEW q \in ListPlaces("mined", b, mined[b], s, n)
          PROVE  q[1] = "mined"
      <4>1. mined[b] \in Seq(Submission)
        BY <1>1, LenProperties, ElementOfSeq
      <4> QED
        BY <4>1, ListPlacesFacts
    <3> QED
      BY <3>1 DEF ChainPlaces
  <2>5. (\A q \in D : q[1] = "removed") /\ (\A q \in L : q[1] = "lost")
    BY SetPlacesFacts
  <2> QED
    BY <2>1, <2>2, <2>3, <2>4, <2>5
<1>8. Places(s, n)' =
        P \cup M \cup ChainPlaces(mined', s, n)
        \cup D \cup SetPlaces("lost", lost', s, n)
  <2>1. HeldPlaces(task', Miners', s, n) = M
    BY <1>3 DEF HeldPlaces
  <2>2. ListPlaces("pending", s, pending'[s], s, n) = P /\ SetPlaces("removed", removed', s, n) = D
    BY <1>1
  <2>3. Places(s, n)' =
          ListPlaces("pending", s, pending'[s], s, n)
          \cup HeldPlaces(task', Miners', s, n)
          \cup ChainPlaces(mined', s, n)
          \cup SetPlaces("removed", removed', s, n)
          \cup SetPlaces("lost", lost', s, n)
    BY PlacesParts
  <2> HIDE DEF P, M, D
  <2> QED
    BY <2>1, <2>2, <2>3
<1>9. X = {} <=> \A e \in Elems(txs) : ~Is(e, s, n)
  <2>1. txs \in Seq(Submission)
    BY <1>1
  <2> HIDE DEF txs
  <2> QED
    BY <2>1, ListPlacesFacts
<1>10. CASE Mine(t)
  <2> DEFINE Y == ListPlaces("mined", Len(mined) + 1, txs, s, n)
  <2>1. /\ Len(mined') = Len(mined) + 1 /\ mined' \in Seq(Seq(Submission))
        /\ \A i \in 1..Len(mined) : mined'[i] = mined[i]
        /\ mined'[Len(mined) + 1] = txs
    BY <1>1, <1>10, AppendFacts DEF Mine
  <2>2. /\ DOMAIN mined' = DOMAIN mined \cup {Len(mined) + 1}
        /\ \A b \in DOMAIN mined : mined'[b] = mined[b]
    <3>1. /\ DOMAIN mined' = 1..(Len(mined) + 1) /\ DOMAIN mined = 1..Len(mined)
          /\ Len(mined) \in Nat
      BY <1>1, <2>1, LenProperties
    <3> QED
      BY <2>1, <3>1
  <2>3. ChainPlaces(mined', s, n) = B \cup Y
    BY <2>1, <2>2 DEF ChainPlaces
  <2>4. Places(s, n)' = R \cup Y
    <3>1. SetPlaces("lost", lost', s, n) = L
      BY <1>10 DEF Mine
    <3> HIDE DEF P, M, D, L, B, Y
    <3> QED
      BY <1>8, <2>3, <3>1
  <2>5. (X = {} <=> Y = {}) /\ \A p, q \in Y : p = q
    BY <1>1, <1>4, <1>9, ListPlacesFacts
  <2> HIDE DEF R, X, Y
  <2> QED
    BY <1>6, <1>7, <2>4, <2>5, Move
<1>11. CASE MineFails(t)
  <2> DEFINE Y == SetPlaces("lost", Elems(txs), s, n)
  <2>1. UNCHANGED mined /\ lost' = lost \cup Elems(txs)
    BY <1>11 DEF MineFails, Elems
  <2>2. SetPlaces("lost", lost', s, n) = L \cup Y
    BY <2>1, SetPlacesFacts
  <2>3. Places(s, n)' = R \cup Y
    <3>1. ChainPlaces(mined', s, n) = B
      BY <2>1
    <3> HIDE DEF P, M, D, L, B, Y
    <3> QED
      BY <1>8, <2>2, <3>1
  <2>4. (X = {} <=> Y = {}) /\ \A p, q \in Y : p = q
    BY <1>1, <1>4, <1>9, ListPlacesFacts, SetPlacesFacts
  <2> HIDE DEF R, X, Y
  <2> QED
    BY <1>6, <1>7, <2>3, <2>4, Move
<1> QED
  BY <1>10, <1>11

\* The parts of Places are told apart by their tags.
LEMMA PlaceTags ==
  ASSUME IInv, NEW s \in Senders, NEW n
  PROVE  /\ \A q \in ListPlaces("pending", s, pending[s], s, n) : q[1] = "pending"
         /\ \A T \in SUBSET Miners : \A q \in HeldPlaces(task, T, s, n) : q[1] = "mining" /\ q[2] \in T
         /\ \A q \in ChainPlaces(mined, s, n) : q[1] = "mined"
         /\ \A q \in SetPlaces("removed", removed, s, n) : q[1] = "removed"
         /\ \A q \in SetPlaces("lost", lost, s, n) : q[1] = "lost"
<1>1. \A q \in ListPlaces("pending", s, pending[s], s, n) : q[1] = "pending"
  BY ListPlacesFacts DEF IInv, TypeOK
<1>2. ASSUME NEW T \in SUBSET Miners, NEW q \in HeldPlaces(task, T, s, n)
      PROVE  q[1] = "mining" /\ q[2] \in T
  <2>1. PICK u \in T : q \in ListPlaces("mining", u, task[u].txs, s, n)
    BY <1>2 DEF HeldPlaces
  <2>2. task[u].txs \in Seq(Submission)
    BY TaskFacts DEF Miners
  <2>3. \A p \in ListPlaces("mining", u, task[u].txs, s, n) : p[1] = "mining" /\ p[2] = u
    BY <2>2, ListPlacesFacts
  <2> QED
    BY <2>1, <2>3
<1>3. ASSUME NEW q \in ChainPlaces(mined, s, n)
      PROVE  q[1] = "mined"
  <2>1. PICK b \in DOMAIN mined : q \in ListPlaces("mined", b, mined[b], s, n)
    BY DEF ChainPlaces
  <2>2. mined[b] \in Seq(Submission)
    BY LenProperties, ElementOfSeq DEF IInv, TypeOK
  <2> QED
    BY <2>1, <2>2, ListPlacesFacts
<1> QED
  BY <1>1, <1>2, <1>3, SetPlacesFacts

\* The new submission takes the one place that nothing of its number had; if it
\* releases the list, the others move from the list to the block.
LEMMA AddPlaces ==
  ASSUME IInv, OrderInv, ExactlyOnePlace, NEW t \in Threads, NEW tx \in Txs, Add(t, tx)
  PROVE  ExactlyOnePlace'
<1> DEFINE s == SenderOf[tx]
           e == [tx |-> tx, n |-> submitted[s] + 1]
           list == Append(pending[s], e)
<1>1. /\ s \in Senders /\ pending[s] \in Seq(Submission)
      /\ submitted[s] \in 0..MaxSubmit /\ submitted[s] < MaxSubmit
      /\ Len(pending[s]) \in Nat /\ Len(pending[s]) < Threshold
      /\ Threshold \in Nat \ {0}
  BY PoolAssumption, LenProperties DEF Add, IInv, TypeOK, BelowThreshold
<1>2. /\ e \in Submission /\ Owner(e) = s /\ e.n = submitted[s] + 1
  BY <1>1, PoolAssumption DEF Submission, Owner
<1>3. /\ submitted' = [submitted EXCEPT ![s] = @ + 1]
      /\ UNCHANGED <<mutex, mined, removed, lost>>
      /\ task[t].at = "idle" /\ t \notin Miners
      /\ IF Full(list)
         THEN /\ pending' = [pending EXCEPT ![s] = Keep(list)]
              /\ Goto(t, [Idle EXCEPT !.at = "mining", !.txs = Release(list)])
         ELSE /\ pending' = [pending EXCEPT ![s] = list] /\ UNCHANGED task
  BY DEF Add, Enqueue, Miners
<1>4. /\ list \in Seq(Submission) /\ Len(list) = Len(pending[s]) + 1
      /\ Elems(list) = Elems(pending[s]) \cup {e}
  BY <1>1, <1>2, AppendFacts, AppendElems
<1>5. \A x \in Elems(pending[s]) : Owner(x) = s /\ x.n \in Nat /\ x.n <= submitted[s]
  BY <1>1, ElemFacts DEF IInv, QueuesOwned, OwnedBy, Elems, OrderInv, NumbersKnown, Known
<1>6. InOrder(list)
  <2>1. \A x \in Elems(pending[s]) : x.n < e.n
    BY <1>1, <1>2, <1>5
  <2>2. InOrder(pending[s])
    BY <1>1, OrderParts DEF OrderInv
  <2> QED
    BY <1>1, <1>2, <2>1, <2>2, AppendInOrder
<1>7. /\ submitted'[s] = submitted[s] + 1
      /\ \A u \in Senders \ {s} : submitted'[u] = submitted[u] /\ pending'[u] = pending[u]
  BY <1>1, <1>3 DEF IInv, TypeOK
<1> HIDE DEF list, e, s
<1>8. \A x \in Elems(list) : Owner(x) = s
  BY <1>2, <1>4, <1>5
\* where list went
<1>9. \/ /\ pending'[s] = list /\ UNCHANGED task
      \/ /\ pending'[s] = <<>> /\ task'[t].at = "mining" /\ task'[t].txs = list
         /\ \A u \in Threads : u # t => task'[u] = task[u]
  <2>1. CASE Full(list)
    <3>1. Len(list) = Threshold
      BY <1>1, <1>4, <2>1 DEF Full
    <3>2. Release(list) = list
      BY <1>4, <3>1, SubSeqFull DEF Release
    <3>3. Keep(list) = <<>>
      BY <1>1, <3>1, SubSeqEmpty DEF Keep
    <3> DEFINE j == [Idle EXCEPT !.at = "mining", !.txs = list]
    <3>4. j \in Task /\ j.at = "mining" /\ j.txs = list
      BY <1>4, IdleIsTask DEF Task
    <3>5. Goto(t, j) /\ pending' = [pending EXCEPT ![s] = <<>>]
      BY <1>3, <2>1, <3>2, <3>3
    <3> HIDE DEF j
    <3>6. /\ task'[t] = j /\ \A u \in Threads : u # t => task'[u] = task[u]
      BY <3>4, <3>5, OthersKeep
    <3> QED
      BY <1>1, <3>4, <3>5, <3>6 DEF IInv, TypeOK
  <2>2. CASE ~Full(list)
    BY <1>1, <1>3, <2>2 DEF IInv, TypeOK
  <2> QED
    BY <2>1, <2>2
<1> SUFFICES ASSUME NEW u \in Senders, NEW n \in 1..submitted'[u]
             PROVE  \E p \in Places(u, n)' : Places(u, n)' = {p}
  BY DEF ExactlyOnePlace
<1> DEFINE X == ListPlaces("pending", u, pending[u], u, n)
           M == HeldPlaces(task, Miners, u, n)
           B == ChainPlaces(mined, u, n)
           D == SetPlaces("removed", removed, u, n)
           L == SetPlaces("lost", lost, u, n)
           R == M \cup B \cup D \cup L
<1>10. Places(u, n) = R \cup X
  BY PlacesParts
<1>11. Places(u, n)' = ListPlaces("pending", u, pending'[u], u, n)
                       \cup HeldPlaces(task', Miners', u, n) \cup B \cup D \cup L
  <2>1. Places(u, n)' =
          ListPlaces("pending", u, pending'[u], u, n)
          \cup HeldPlaces(task', Miners', u, n)
          \cup ChainPlaces(mined', u, n)
          \cup SetPlaces("removed", removed', u, n)
          \cup SetPlaces("lost", lost', u, n)
    BY PlacesParts
  <2> QED
    BY <1>3, <2>1
<1>12. R \cap X = {}
  <2>1. Miners \in SUBSET Miners
    OBVIOUS
  <2>2. \A q \in M : q[1] = "mining"
    BY <2>1, PlaceTags
  <2>3. (\A q \in X : q[1] = "pending") /\ (\A q \in B : q[1] = "mined")
    BY PlaceTags
  <2>4. (\A q \in D : q[1] = "removed") /\ (\A q \in L : q[1] = "lost")
    BY PlaceTags
  <2> HIDE DEF X, M, B, D, L
  <2> QED
    BY <2>2, <2>3, <2>4
\* what the block of t holds, if t has one now
<1>13. \/ /\ pending'[s] = list /\ HeldPlaces(task', Miners', u, n) = M
       \/ /\ pending'[s] = <<>>
          /\ HeldPlaces(task', Miners', u, n) = M \cup ListPlaces("mining", t, list, u, n)
  <2>1. CASE pending'[s] = list /\ UNCHANGED task
    BY <2>1 DEF Miners
  <2>2. CASE /\ pending'[s] = <<>> /\ task'[t].at = "mining" /\ task'[t].txs = list
             /\ \A v \in Threads : v # t => task'[v] = task[v]
    <3>1. Miners' = Miners \cup {t} /\ \A v \in Miners : task'[v] = task[v]
      BY <1>3, <2>2 DEF Miners
    <3>2. HeldPlaces(task', Miners', u, n) = M \cup ListPlaces("mining", t, list, u, n)
      BY <2>2, <3>1 DEF HeldPlaces
    <3> QED
      BY <2>2, <3>2
  <2> QED
    BY <1>9, <2>1, <2>2
<1>14. CASE u # s
  <2>1. n \in 1..submitted[u] /\ pending'[u] = pending[u]
    BY <1>7, <1>14
  <2>2. ListPlaces("mining", t, list, u, n) = {}
    BY <1>4, <1>8, <1>14, ListPlacesFacts DEF Is
  <2>3. HeldPlaces(task', Miners', u, n) = M
    BY <1>13, <2>2
  <2>4. Places(u, n)' = Places(u, n)
    BY <1>10, <1>11, <2>1, <2>3
  <2> QED
    BY <2>1, <2>4 DEF ExactlyOnePlace
<1>15. CASE u = s
  <2>1. PICK tag, key : Places(u, n)' = R \cup ListPlaces(tag, key, list, u, n)
    <3>1. CASE pending'[s] = list /\ HeldPlaces(task', Miners', u, n) = M
      <4>1. Places(u, n)' = R \cup ListPlaces("pending", u, list, u, n)
        BY <1>11, <1>15, <3>1
      <4> QED
        BY <4>1
    <3>2. CASE /\ pending'[s] = <<>>
               /\ HeldPlaces(task', Miners', u, n) = M \cup ListPlaces("mining", t, list, u, n)
      <4>1. ListPlaces("pending", u, pending'[u], u, n) = {}
        BY <1>15, <3>2, NoElems DEF ListPlaces, InList
      <4>2. Places(u, n)' = R \cup ListPlaces("mining", t, list, u, n)
        BY <1>11, <3>2, <4>1
      <4> QED
        BY <4>2
    <3> QED
      BY <1>13, <3>1, <3>2
  <2> DEFINE Y == ListPlaces(tag, key, list, u, n)
  <2>2. /\ Y = {} <=> \A x \in Elems(list) : ~Is(x, u, n)
        /\ \A p, q \in Y : p = q
    BY <1>4, <1>6, ListPlacesFacts
  <2>3. X = {} <=> \A x \in Elems(pending[u]) : ~Is(x, u, n)
    BY <1>1, <1>15, ListPlacesFacts
  <2> HIDE DEF R, X, Y
  <2>4. CASE n = submitted[s] + 1
    <3>1. R = {}
      <4>1. n \in Nat /\ n > submitted[u]
        BY <1>1, <1>15, <2>4
      <4>2. Places(u, n) = {}
        BY <4>1, NowhereYet
      <4> QED
        BY <1>10, <4>2
    <3>2. Y # {}
      BY <1>2, <1>4, <1>15, <2>2, <2>4 DEF Is
    <3> QED
      BY <2>1, <2>2, <3>1, <3>2 DEF Y
  <2>5. CASE n # submitted[s] + 1
    <3>1. n \in 1..submitted[u]
      BY <1>1, <1>7, <1>15, <2>5
    <3>2. \E p : R \cup X = {p}
      BY <1>10, <3>1 DEF ExactlyOnePlace
    <3>3. X = {} <=> Y = {}
      BY <1>2, <1>4, <1>15, <2>2, <2>3, <2>5 DEF Is
    <3> QED
      BY <1>12, <2>1, <2>2, <3>2, <3>3, Move DEF Y
  <2> QED
    BY <2>4, <2>5
<1> QED
  BY <1>14, <1>15

\* Whoever removes holds no block, before and after each step.
LEMMA RemoverIsNoMiner ==
  ASSUME IInv, NEW t \in Threads, RemoveIncluded(t)
  PROVE  Miners' = Miners /\ \A u \in Miners : task'[u] = task[u]
<1>1. task \in [Threads -> Task] /\ task[t] \in Task
  BY DEF IInv, TypeOK
<1>2. /\ task[t].at # "mining" /\ task'[t].at # "mining"
      /\ \A u \in Threads : u # t => task'[u] = task[u]
  <2>1. ASSUME NEW included \in SUBSET Txs, Remove(t, included)
        PROVE  /\ task[t].at # "mining" /\ task'[t].at # "mining"
               /\ \A u \in Threads : u # t => task'[u] = task[u]
    BY <1>1, <2>1 DEF Remove, Goto, Idle
  <2>2. CASE RemoveSender(t)
    BY <1>1, <2>2 DEF RemoveSender, Goto, Task
  <2>3. CASE FilterOne(t)
    BY <1>1, <2>3 DEF FilterOne, Goto, Task
  <2>4. CASE StoreFiltered(t)
    BY <1>1, <2>4 DEF StoreFiltered, Goto, Task
  <2>5. CASE RemoveEnd(t)
    BY <1>1, <2>5 DEF RemoveEnd, Goto, Idle
  <2> QED
    BY <2>1, <2>2, <2>3, <2>4, <2>5 DEF RemoveIncluded
<1> QED
  BY <1>2 DEF Miners

\* Steps that leave the lists, the blocks and the logs alone.
LEMMA PlacesStay ==
  ASSUME ExactlyOnePlace, UNCHANGED <<pending, history>>, Miners' = Miners,
         \A u \in Miners : task'[u] = task[u]
  PROVE  ExactlyOnePlace'
<1> SUFFICES ASSUME NEW s \in Senders, NEW n \in 1..submitted[s]
             PROVE  \E p \in Places(s, n)' : Places(s, n)' = {p}
  BY DEF ExactlyOnePlace, history
<1>1. HeldPlaces(task', Miners', s, n) = HeldPlaces(task, Miners, s, n)
  BY DEF HeldPlaces
<1>2. Places(s, n) =
        ListPlaces("pending", s, pending[s], s, n)
        \cup HeldPlaces(task, Miners, s, n) \cup ChainPlaces(mined, s, n)
        \cup SetPlaces("removed", removed, s, n) \cup SetPlaces("lost", lost, s, n)
  BY PlacesParts
<1>3. Places(s, n)' =
        ListPlaces("pending", s, pending'[s], s, n)
        \cup HeldPlaces(task', Miners', s, n) \cup ChainPlaces(mined', s, n)
        \cup SetPlaces("removed", removed', s, n) \cup SetPlaces("lost", lost', s, n)
  BY PlacesParts
<1>4. Places(s, n)' = Places(s, n)
  BY <1>1, <1>2, <1>3 DEF history
<1> QED
  BY <1>4 DEF ExactlyOnePlace

\* A filtered list goes back to the pool, what was dropped to the removed ones.
LEMMA RemovePlaces ==
  ASSUME IInv, OrderInv, ExactlyOnePlace, NEW t \in Threads, RemoveIncluded(t)
  PROVE  ExactlyOnePlace'
<1>1. Miners' = Miners /\ \A u \in Miners : task'[u] = task[u]
  BY RemoverIsNoMiner
<1>2. CASE UNCHANGED <<pending, history>>
  BY <1>1, <1>2, PlacesStay
<1>3. CASE StoreFiltered(t)
  <2> DEFINE s == task[t].sender
             kept == task[t].txs
             dropped == task[t].dropped
  <2>1. /\ pending' = [pending EXCEPT ![s] = kept]
        /\ removed' = removed \cup dropped
        /\ UNCHANGED <<mutex, mined, lost, submitted>>
        /\ task[t].at = "filtering" /\ task[t].rest = <<>>
    BY <1>3 DEF StoreFiltered
  <2>2. /\ kept \in Seq(Submission) /\ InOrder(kept) /\ s \in Senders
        /\ pending[s] \in Seq(Submission) /\ InOrder(pending[s])
    BY <2>1, TaskFacts, OrderParts DEF OrderInv, FilterExact, IInv, FilteringGood, TypeOK
  <2>3. Elems(kept) \cup dropped = Elems(pending[s]) /\ dropped \cap Elems(kept) = {}
    BY <2>1, NoElems DEF OrderInv, FilterExact
  <2>4. \A x \in Elems(pending[s]) : Owner(x) = s
    BY <2>2 DEF IInv, QueuesOwned, OwnedBy, Elems
  <2>5. pending'[s] = kept /\ \A u \in Senders \ {s} : pending'[u] = pending[u]
    BY <2>1, <2>2 DEF IInv, TypeOK
  <2> HIDE DEF s, kept, dropped
  <2> SUFFICES ASSUME NEW u \in Senders, NEW n \in 1..submitted[u]
               PROVE  \E p \in Places(u, n)' : Places(u, n)' = {p}
    BY <2>1 DEF ExactlyOnePlace
  <2> DEFINE X == ListPlaces("pending", u, pending[u], u, n)
             M == HeldPlaces(task, Miners, u, n)
             B == ChainPlaces(mined, u, n)
             D == SetPlaces("removed", removed, u, n)
             L == SetPlaces("lost", lost, u, n)
             K == ListPlaces("pending", u, pending'[u], u, n)
             Gone == SetPlaces("removed", dropped, u, n)
             R == M \cup B \cup D \cup L
  <2>6. Places(u, n) = R \cup X
    BY PlacesParts
  <2>7. Places(u, n)' = R \cup (K \cup Gone)
    <3>1. Places(u, n)' =
            K \cup HeldPlaces(task', Miners', u, n)
            \cup ChainPlaces(mined', u, n)
            \cup SetPlaces("removed", removed', u, n)
            \cup SetPlaces("lost", lost', u, n)
      BY PlacesParts
    <3>2. HeldPlaces(task', Miners', u, n) = M
      BY <1>1 DEF HeldPlaces
    <3>3. SetPlaces("removed", removed', u, n) = D \cup Gone
      BY <2>1, SetPlacesFacts
    <3> HIDE DEF K, M, D, Gone
    <3> QED
      BY <2>1, <3>1, <3>2, <3>3
  <2>8. Gone = {} <=> \A x \in dropped : ~Is(x, u, n)
    BY SetPlacesFacts
  <2>9. CASE u # s
    <3>1. K = X /\ Gone = {}
      BY <2>3, <2>4, <2>5, <2>8, <2>9 DEF Is
    <3>2. Places(u, n)' = Places(u, n)
      BY <2>6, <2>7, <3>1
    <3> QED
      BY <3>2 DEF ExactlyOnePlace
  <2>10. CASE u = s
    <3>1. R \cap X = {}
      <4>1. Miners \in SUBSET Miners
        OBVIOUS
      <4>2. \A q \in M : q[1] = "mining"
        BY <4>1, PlaceTags
      <4>3. (\A q \in X : q[1] = "pending") /\ (\A q \in B : q[1] = "mined")
        BY PlaceTags
      <4>4. (\A q \in D : q[1] = "removed") /\ (\A q \in L : q[1] = "lost")
        BY PlaceTags
      <4> HIDE DEF X, M, B, D, L
      <4> QED
        BY <4>2, <4>3, <4>4
    <3>2. K = ListPlaces("pending", u, kept, u, n)
      BY <2>5, <2>10
    <3>3. /\ K = {} <=> \A x \in Elems(kept) : ~Is(x, u, n)
          /\ \A p, q \in K : p = q
      <4>1. /\ ListPlaces("pending", u, kept, u, n) = {} <=> \A x \in Elems(kept) : ~Is(x, u, n)
            /\ \A p, q \in ListPlaces("pending", u, kept, u, n) : p = q
        BY <2>2, ListPlacesFacts
      <4> QED
        BY <3>2, <4>1
    <3>4. /\ X = {} <=> \A x \in Elems(pending[s]) : ~Is(x, u, n)
          /\ \A x, y \in Elems(pending[s]) : Is(x, u, n) /\ Is(y, u, n) => x = y
      BY <2>2, <2>10, ListPlacesFacts
    <3>5. \A p, q \in Gone : p = q
      BY <2>3, <3>4, SetPlacesFacts
    \* a submission is kept or dropped, and never both
    <3>6. K = {} \/ Gone = {}
      BY <2>3, <2>8, <3>3, <3>4
    <3> DEFINE Y == K \cup Gone
    <3>7. (X = {} <=> Y = {}) /\ \A p, q \in Y : p = q
      <4>1. X = {} <=> Y = {}
        BY <2>3, <2>8, <3>3, <3>4
      <4> QED
        BY <3>3, <3>5, <3>6, <4>1
    <3>8. \E p : R \cup X = {p}
      BY <2>6 DEF ExactlyOnePlace
    <3>9. Places(u, n)' = R \cup Y
      BY <2>7
    <3> HIDE DEF R, X, Y
    <3> QED
      BY <3>1, <3>7, <3>8, <3>9, Move
  <2> QED
    BY <2>9, <2>10
<1> QED
  BY <1>2, <1>3 DEF RemoveIncluded, Remove, RemoveSender, FilterOne, RemoveEnd

\* Every submission that was accepted is in one place and never in two: the pool
\* loses nothing to a failed step but what a failed MineBlock takes along, and
\* mines nothing twice.
THEOREM AlwaysOnePlace == Spec => []ExactlyOnePlace
<1>1. Init => ExactlyOnePlace
  <2> SUFFICES ASSUME Init PROVE ExactlyOnePlace
    OBVIOUS
  <2>1. \A s \in Senders : submitted[s] = 0
    BY DEF Init
  <2>2. 1..0 = {}
    OBVIOUS
  <2> QED
    BY <2>1, <2>2 DEF ExactlyOnePlace
<1>2. IInv /\ OrderInv /\ ExactlyOnePlace /\ [Next]_vars => ExactlyOnePlace'
  <2> SUFFICES ASSUME IInv, OrderInv, ExactlyOnePlace, [Next]_vars PROVE ExactlyOnePlace'
    OBVIOUS
  <2>1. CASE UNCHANGED vars
    <3>1. UNCHANGED <<pending, history, task>> /\ Miners' = Miners
      BY <2>1 DEF vars, history, Miners
    <3> QED
      BY <3>1, PlacesStay
  <2>2. CASE Next
    BY <2>2, AddPlaces, MinePlaces, RemovePlaces DEF Next, Submit
  <2> QED
    BY <2>1, <2>2
<1> QED
  BY <1>1, <1>2, OrderInit, OrderNext, PoolInvariant, PTL DEF Spec
=============================================================================
