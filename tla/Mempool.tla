------------------------------ MODULE Mempool ------------------------------
(***************************************************************************)
(* internal/core/mempool.go with the two callers that move transactions on *)
(* from it: AddAndCheckMine (manager.go), which adds a transaction under   *)
(* the pool's mutex and mines what Add releases after the mutex is free    *)
(* again, and the NEW_BLOCK / SEND_CHAIN handlers, which remove what a     *)
(* peer's block already holds.  Add is one step, since it runs under the   *)
(* mutex from end to end; RemoveIncluded, whose loops run under it too, is *)
(* taken one loop body at a time.  A transaction is known by its signature;   *)
(* the same one may be submitted more than once (gossip over two links), so *)
(* every submission carries a number, counted per sender, that the code    *)
(* does not have: the properties are about submissions.                    *)
(***************************************************************************)
EXTENDS Integers, Sequences

CONSTANTS Senders,
          Txs,        \* transactions, by signature
          SenderOf,   \* the Payload.Sender of a transaction
          Threshold,  \* pending transactions of one sender that make a block
          Threads,    \* goroutines that run handlers
          MayFail,    \* may MineBlock return nil?
          MaxSubmit   \* bound: submissions per sender

ASSUME PoolAssumption ==
    /\ SenderOf \in [Txs -> Senders]
    /\ Threshold \in Nat \ {0}
    /\ MayFail \in BOOLEAN
    /\ MaxSubmit \in Nat

Free == "free"

ASSUME FreeAssumption == Free \notin Threads

VARIABLES pending,    \* PendingTxs; a missing key reads as an empty list
          mutex,      \* the goroutine that holds the mutex, or Free
          task,       \* what each goroutine is doing, and its local variables
          mined,      \* the blocks MineBlock made, in order
          removed,    \* submissions that RemoveIncluded filtered out
          lost,       \* submissions that went with a failed MineBlock
          submitted   \* per sender: the number of submissions so far

vars == <<pending, mutex, task, mined, removed, lost, submitted>>
history == <<mined, removed, lost, submitted>>

Submission == [tx : Txs, n : 1..MaxSubmit]

Owner(e) == SenderOf[e.tx]

\* "mining": txs is what Add released.  "removing": the senders in todo are
\* still to be filtered.  "filtering": rest is what is left of the list of the
\* sender, txs what is kept of it so far and dropped what is not.
Task == [at : {"idle", "mining", "removing", "filtering"},
         txs : Seq(Submission),
         rest : Seq(Submission),
         dropped : SUBSET Submission,
         included : SUBSET Txs,
         todo : SUBSET Senders,
         sender : Senders \cup {Free}]

Idle == [at |-> "idle", txs |-> <<>>, rest |-> <<>>, dropped |-> {},
         included |-> {}, todo |-> {}, sender |-> Free]

TypeOK ==
    /\ pending \in [Senders -> Seq(Submission)]
    /\ mutex \in Threads \cup {Free}
    /\ task \in [Threads -> Task]
    /\ mined \in Seq(Seq(Submission))
    /\ removed \subseteq Submission
    /\ lost \subseteq Submission
    /\ submitted \in [Senders -> 0..MaxSubmit]

Init ==
    /\ pending = [s \in Senders |-> <<>>]
    /\ mutex = Free
    /\ task = [t \in Threads |-> Idle]
    /\ mined = <<>>
    /\ removed = {}
    /\ lost = {}
    /\ submitted = [s \in Senders |-> 0]

-----------------------------------------------------------------------------
\* Add and AddAndCheckMine

Goto(t, state) == task' = [task EXCEPT ![t] = state]

\* mutant: the count is compared with >
FullLate(list) == Len(list) > Threshold

Full(list) == Len(list) >= Threshold

\* what Add releases of a full list, and what it keeps
Release(list) == SubSeq(list, 1, Threshold)
Keep(list)    == SubSeq(list, Threshold + 1, Len(list))

\* mutant: the new transaction goes to the front of the list
EnqueueFront(s, e) == <<e>> \o pending[s]

Enqueue(s, e) == Append(pending[s], e)

\* Add: append to the sender's list and, once it is full, hand the first
\* Threshold transactions to the caller
Add(t, tx) ==
    LET s == SenderOf[tx]
        list == Enqueue(s, [tx |-> tx, n |-> submitted[s] + 1]) IN
      /\ task[t].at = "idle" /\ mutex = Free
      /\ submitted[s] < MaxSubmit
      /\ submitted' = [submitted EXCEPT ![s] = @ + 1]
      /\ IF Full(list)
         THEN /\ pending' = [pending EXCEPT ![s] = Keep(list)]
              /\ Goto(t, [Idle EXCEPT !.at = "mining", !.txs = Release(list)])
         ELSE /\ pending' = [pending EXCEPT ![s] = list]
              /\ UNCHANGED task
      /\ UNCHANGED <<mutex, mined, removed, lost>>

\* the rest of AddAndCheckMine: MineBlock makes a block ...
Mine(t) ==
    /\ task[t].at = "mining"
    /\ mined' = Append(mined, task[t].txs)
    /\ Goto(t, Idle)
    /\ UNCHANGED <<pending, mutex, removed, lost, submitted>>

\* ... or returns nil, and nobody puts the transactions back
MineFails(t) ==
    /\ MayFail /\ task[t].at = "mining"
    /\ lost' = lost \cup {task[t].txs[i] : i \in DOMAIN task[t].txs}
    /\ Goto(t, Idle)
    /\ UNCHANGED <<pending, mutex, mined, removed, submitted>>

-----------------------------------------------------------------------------
\* RemoveIncluded

\* mutant: the mutex is not taken
RemoveUnlocked(t, included) ==
    /\ task[t].at = "idle" /\ mutex = Free
    /\ Goto(t, [Idle EXCEPT !.at = "removing", !.included = included,
                            !.todo = {SenderOf[tx] : tx \in included}])
    /\ UNCHANGED <<pending, mutex, history>>

\* take the mutex and group a block's signatures by sender
Remove(t, included) ==
    /\ task[t].at = "idle" /\ mutex = Free
    /\ mutex' = t
    /\ Goto(t, [Idle EXCEPT !.at = "removing", !.included = included,
                            !.todo = {SenderOf[tx] : tx \in included}])
    /\ UNCHANGED <<pending, history>>

\* the map of senders is visited in any order
RemoveSender(t) ==
    /\ task[t].at = "removing"
    /\ \E s \in task[t].todo :
         Goto(t, [task[t] EXCEPT !.at = "filtering", !.sender = s, !.txs = <<>>,
                                 !.rest = pending[s], !.dropped = {},
                                 !.todo = @ \ {s}])
    /\ UNCHANGED <<pending, mutex, history>>

\* keep a pending transaction whose signature is none of the block's
FilterOne(t) ==
    /\ task[t].at = "filtering" /\ task[t].rest # <<>>
    /\ LET e == Head(task[t].rest) IN
         IF e.tx \in task[t].included
         THEN Goto(t, [task[t] EXCEPT !.rest = Tail(@), !.dropped = @ \cup {e}])
         ELSE Goto(t, [task[t] EXCEPT !.rest = Tail(@), !.txs = Append(@, e)])
    /\ UNCHANGED <<pending, mutex, history>>

\* what was kept replaces the sender's list (an empty one by deleting the key)
StoreFiltered(t) ==
    /\ task[t].at = "filtering" /\ task[t].rest = <<>>
    /\ pending' = [pending EXCEPT ![task[t].sender] = task[t].txs]
    /\ removed' = removed \cup task[t].dropped
    /\ Goto(t, [task[t] EXCEPT !.at = "removing"])
    /\ UNCHANGED <<mutex, mined, lost, submitted>>

\* mutant: the mutex is handed to nobody in particular
RemoveEndKeepsSender(t) ==
    /\ task[t].at = "removing" /\ task[t].todo = {}
    /\ mutex' = task[t].sender
    /\ Goto(t, Idle)
    /\ UNCHANGED <<pending, history>>

RemoveEnd(t) ==
    /\ task[t].at = "removing" /\ task[t].todo = {}
    /\ mutex' = Free
    /\ Goto(t, Idle)
    /\ UNCHANGED <<pending, history>>

-----------------------------------------------------------------------------
Submit(t) == \E tx \in Txs : Add(t, tx)

RemoveIncluded(t) ==
    \/ \E included \in SUBSET Txs \ {{}} : Remove(t, included)
    \/ RemoveSender(t)
    \/ FilterOne(t)
    \/ StoreFiltered(t)
    \/ RemoveEnd(t)

Next ==
    \E t \in Threads : Submit(t) \/ Mine(t) \/ MineFails(t) \/ RemoveIncluded(t)

Spec == Init /\ [][Next]_vars

-----------------------------------------------------------------------------
\* After every call each list is shorter than Threshold: no sender has a
\* block's worth of transactions waiting with nobody mining it, so Add never
\* has to release more than one block.
BelowThreshold == \A s \in Senders : Len(pending[s]) < Threshold

\* What Add releases is a whole block of one sender's transactions.
WholeBlock(list) ==
    /\ Len(list) = Threshold
    /\ \A i \in DOMAIN list : Owner(list[i]) = Owner(list[1])
BlocksWhole ==
    /\ \A t \in Threads : task[t].at = "mining" => WholeBlock(task[t].txs)
    /\ \A i \in DOMAIN mined : WholeBlock(mined[i])

Miners == {t \in Threads : task[t].at = "mining"}

\* where the submission with number n of sender s is: the places that hold it
InList(list, s, n) == {i \in DOMAIN list : Owner(list[i]) = s /\ list[i].n = n}
Places(s, n) ==
    {<<"pending", s, i>> : i \in InList(pending[s], s, n)}
    \cup (UNION {{<<"mining", t, i>> : i \in InList(task[t].txs, s, n)} : t \in Miners})
    \cup (UNION {{<<"mined", b, i>> : i \in InList(mined[b], s, n)} : b \in DOMAIN mined})
    \cup {<<"removed", e, 0>> : e \in {x \in removed : Owner(x) = s /\ x.n = n}}
    \cup {<<"lost", e, 0>> : e \in {x \in lost : Owner(x) = s /\ x.n = n}}

\* Every submission is in exactly one place: no transaction that was accepted
\* goes missing between the pool and a block, and none is put in two blocks,
\* unless it was submitted twice.
ExactlyOnePlace ==
    \A s \in Senders : \A n \in 1..submitted[s] :
        \E p \in Places(s, n) : Places(s, n) = {p}

\* Submission order survives the pool: lists and blocks are in order, and of a
\* sender's two blocks all of one precedes all of the other, and both precede
\* what is pending (Add's slices, RemoveIncluded's rebuilt lists).  Which of two
\* released blocks is mined first is up to the goroutines.
InOrder(list) == \A i, j \in DOMAIN list : i < j => list[i].n < list[j].n
Before(list, later) ==
    \A i \in DOMAIN list, j \in DOMAIN later :
        Owner(list[i]) = Owner(later[j]) => list[i].n < later[j].n
SubmissionOrder ==
    LET blocks == {mined[b] : b \in DOMAIN mined} \cup {task[t].txs : t \in Miners} IN
      /\ \A s \in Senders : InOrder(pending[s])
      /\ \A block \in blocks :
           /\ InOrder(block)
           /\ \A s \in Senders : Before(block, pending[s])
           /\ \A other \in blocks \ {block} : Before(block, other) \/ Before(other, block)
=============================================================================
