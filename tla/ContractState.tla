--------------------------- MODULE ContractState ---------------------------
(***************************************************************************)
(* The contracts' key/value state on one node (internal/contract/          *)
(* manager.go, pkg/contract/base.go) and the handlers that change it:      *)
(* EXECUTE and TRANSACTION, NEW_BLOCK and SEND_CHAIN (handler.go).         *)
(* Functions write into StagingState; Commit moves it to the database, one *)
(* key in a transaction.  Where each handler resets, executes, commits and *)
(* extends the chain is what this module is about.                         *)
(*                                                                         *)
(* Every connection has its goroutine, and all of them use StagingState    *)
(* and the permission of the caller without a lock: a step is one access   *)
(* to them.  Commit walks over the map as it finds it; a write into it     *)
(* meanwhile is not seen here, or makes the runtime abort the process,     *)
(* which may stop between any two steps.                                   *)
(*                                                                         *)
(* The value of a key is the sequence of the transactions that wrote it,   *)
(* each on top of the value it read.  A block is named by the payloads     *)
(* from the genesis block (left out) to its own, as in Blocks.             *)
(***************************************************************************)
EXTENDS Integers, Sequences, SequencesExt

CONSTANTS Threads,     \* the goroutines that run handlers
          Keys,
          Txs,
          KeyOf,       \* the key a transaction's function reads and writes
          Permissions,
          Unknown,     \* stands for "", the permission of an unknown sender
          Permission,  \* PublicKeyPeers: the permission of a sender
          Required,    \* whom the function accepts; nobody, if it does not
                       \* exist or gets the wrong number of arguments
          Offered,     \* blocks that peers announce with NEW_BLOCK
          Batches,     \* block sequences that peers send with SEND_CHAIN
          Local,       \* transactions that clients send to this node
          Gossiped,    \* transactions that peers send with TRANSACTION
          MaxLen,      \* bound: blocks of the chain
          MaxWrites,   \* bound: no handler starts once a key has so many writes
          Stops,       \* may the process stop inside a handler?
          DiskErrors   \* may a SetData of Commit fail?

Payload == Seq(Txs)
Block == Seq(Payload)

ASSUME StateAssumption ==
    /\ KeyOf \in [Txs -> Keys]
    /\ Unknown \notin Permissions
    /\ Permission \in [Txs -> Permissions \cup {Unknown}]
    /\ Required \in [Txs -> SUBSET Permissions]
    /\ Local \subseteq Txs /\ Gossiped \subseteq Txs
    /\ Offered \subseteq Block \ {<<>>}
    /\ Batches \subseteq Seq(Block \ {<<>>})
    /\ Stops \in BOOLEAN /\ DiskErrors \in BOOLEAN

VARIABLES db,       \* on disk: the committed value of each key
          blocks,   \* on disk: the stored blocks, and which handler stored them
          chain,    \* on disk and in memory: the tip
          staging,  \* in memory: StagingState
          caller,   \* in memory: the permission of the current sender
          pool,     \* in memory: the pending transactions
          task      \* the handler each thread runs, and its local state

vars == <<db, blocks, chain, staging, caller, pool, task>>
store == <<blocks, chain>>

Value == Seq(Txs)
Handler == {"execute", "newBlock", "sendChain"}
IsStaging(f) == DOMAIN f \subseteq Keys /\ \A k \in DOMAIN f : f[k] \in Value

\* the transactions still to execute, the blocks to add, what was read, the
\* staged values to commit, and (history) the database when the handler started
IsTask(j) ==
    /\ j.at \in {"run", "check", "call", "put", "commit", "add"}
    /\ j.handler \in Handler
    /\ j.txs \in Payload /\ j.adds \in Seq(Block) /\ j.read \in Value
    /\ IsStaging(j.puts)
    /\ j.before \in [Keys -> Value]
Idle == [at |-> "idle"]

TypeOK ==
    /\ db \in [Keys -> Value]
    /\ DOMAIN blocks \subseteq Block /\ \A b \in DOMAIN blocks : blocks[b] \in Handler
    /\ chain \in Block
    /\ IsStaging(staging)
    /\ caller \in Permissions \cup {Unknown}
    /\ pool \in Payload
    /\ DOMAIN task = Threads
    /\ \A t \in Threads : task[t] = Idle \/ IsTask(task[t])

Nothing == [k \in {} |-> <<>>]

Init ==
    /\ db = [k \in Keys |-> <<>>]
    /\ blocks = [b \in {<<>>} |-> "newBlock"]
    /\ chain = <<>>
    /\ staging = Nothing
    /\ caller = Unknown
    /\ pool = <<>>
    /\ task = [t \in Threads |-> Idle]

At(t, label) == task[t].at = label
Runs(t, handler) == task[t].handler = handler
Goto(t, label) == task' = [task EXCEPT ![t].at = label]
Return(t) == task' = [task EXCEPT ![t] = Idle]

InBounds == \A k \in Keys :
    Len(db[k]) < MaxWrites /\ (k \in DOMAIN staging => Len(staging[k]) < MaxWrites)

Begin(t, handler, txs, adds) ==
    /\ At(t, "idle") /\ InBounds
    /\ task' = [task EXCEPT ![t] =
                  [at |-> "run", handler |-> handler, txs |-> txs, adds |-> adds,
                   read |-> <<>>, puts |-> Nothing, before |-> db]]

\* mutant: the transactions of the first block only
TxsOfFirst(bs) == Last(bs[1])

\* the transactions of a sequence of blocks, in order
TxsOf(bs) == FlattenSeq([i \in DOMAIN bs |-> Last(bs[i])])

\* the members of s that are in S, in order
Select(s, S) ==
    LET selected[n \in 0..Len(s)] ==
          IF n = 0 THEN <<>>
          ELSE IF s[n] \in S THEN Append(selected[n - 1], s[n]) ELSE selected[n - 1]
    IN selected[Len(s)]

\* the places where a batch is not a chain, and its blocks before them
BrokenLinks(bs) == {i \in 2..Len(bs) : Front(bs[i]) # bs[i - 1]}
Linked(bs) == IF BrokenLinks(bs) = {} THEN bs ELSE SubSeq(bs, 1, Min(BrokenLinks(bs)) - 1)

-----------------------------------------------------------------------------
\* EXECUTE: the staging area is taken as it is
ExecuteStart(t, tx) ==
    /\ Begin(t, "execute", <<tx>>, <<>>)
    /\ UNCHANGED <<db, store, staging, caller, pool>>

\* mutant: what was staged before is left in place
NewBlockNoReset(t, b) ==
    /\ Begin(t, "newBlock", Last(b), <<b>>)
    /\ UNCHANGED <<db, store, staging, caller, pool>>

\* NEW_BLOCK: the staging area is emptied first
NewBlockStart(t, b) ==
    /\ Begin(t, "newBlock", Last(b), <<b>>)
    /\ staging' = Nothing
    /\ UNCHANGED <<db, store, caller, pool>>

\* SEND_CHAIN: the staging area is taken as it is, and the blocks up to the
\* first broken link are executed
SendChainStart(t, batch) ==
    /\ batch # <<>>
    /\ Begin(t, "sendChain", TxsOf(Linked(batch)), batch)
    /\ UNCHANGED <<db, store, staging, caller, pool>>

-----------------------------------------------------------------------------
\* mutant: a key that is not staged reads as empty
GetStagedOnly(k) == IF k \in DOMAIN staging THEN staging[k] ELSE <<>>

\* GetState: what is staged hides what is committed
GetState(k) == IF k \in DOMAIN staging THEN staging[k] ELSE db[k]

PutState(k, v) ==
    staging' = [l \in DOMAIN staging \cup {k} |-> IF l = k THEN v ELSE staging[l]]

\* ExecuteOnly of the next transaction: its sender becomes the current one
SetCaller(t) ==
    /\ At(t, "run") /\ task[t].txs # <<>>
    /\ caller' = Permission[Head(task[t].txs)]
    /\ Goto(t, "check")
    /\ UNCHANGED <<db, store, staging, pool>>

\* no permission ends the handler; what was staged stays staged
Refuse(t) ==
    /\ At(t, "check") /\ caller = Unknown
    /\ Return(t)
    /\ UNCHANGED <<db, store, staging, caller, pool>>

\* the transaction is through: the next one, or the pool
Executed(t) ==
    LET tx == Head(task[t].txs) IN
      task' = [task EXCEPT ![t].txs = Tail(@), ![t].read = <<>>,
                 ![t].at = IF Runs(t, "execute") THEN "add" ELSE "run",
                 ![t].adds = IF Runs(t, "execute") THEN <<<<<<tx>>>>>> ELSE @]

\* CallMethod: RequireCaller looks at the permission; an error of the function
\* ends neither the handler nor the block
CallMethod(t) ==
    /\ At(t, "check") /\ caller # Unknown
    /\ IF caller \in Required[Head(task[t].txs)] THEN Goto(t, "call") ELSE Executed(t)
    /\ UNCHANGED <<db, store, staging, caller, pool>>

\* the function gets the value of its key
Get(t) ==
    /\ At(t, "call")
    /\ task' = [task EXCEPT ![t].at = "put",
                            ![t].read = GetState(KeyOf[Head(task[t].txs)])]
    /\ UNCHANGED <<db, store, staging, caller, pool>>

\* and saves a new one
Save(t) ==
    /\ At(t, "put")
    /\ LET tx == Head(task[t].txs) IN PutState(KeyOf[tx], Append(task[t].read, tx))
    /\ Executed(t)
    /\ UNCHANGED <<db, store, caller, pool>>

\* mutant: NEW_BLOCK adds the block before it commits
RunEndAddFirst(t) ==
    /\ At(t, "run") /\ task[t].txs = <<>>
    /\ task' = [task EXCEPT ![t].at = "add", ![t].puts = staging]
    /\ UNCHANGED <<db, store, staging, caller, pool>>

\* all are executed: NEW_BLOCK commits before it adds the block, SEND_CHAIN
\* adds its blocks before it commits, if they are a chain
RunEnd(t) ==
    /\ At(t, "run") /\ task[t].txs = <<>>
    /\ \/ Runs(t, "newBlock") /\ task' = [task EXCEPT ![t].at = "commit", ![t].puts = staging]
       \/ Runs(t, "sendChain") /\ BrokenLinks(task[t].adds) = {} /\ Goto(t, "add")
       \/ Runs(t, "sendChain") /\ BrokenLinks(task[t].adds) # {} /\ Return(t)
    /\ UNCHANGED <<db, store, staging, caller, pool>>

-----------------------------------------------------------------------------
Uncommitted(t) == DOMAIN task[t].puts

\* Commit: one SetData per staged key, in any order; a failed one ends the
\* handler and leaves the staging area
CommitKey(t) ==
    /\ At(t, "commit")
    /\ \E k \in Uncommitted(t) :
         \/ /\ db' = [db EXCEPT ![k] = task[t].puts[k]]
            /\ task' = [task EXCEPT ![t].puts =
                           [l \in Uncommitted(t) \ {k} |-> task[t].puts[l]]]
         \/ /\ DiskErrors
            /\ Return(t)
            /\ UNCHANGED db
    /\ UNCHANGED <<store, staging, caller, pool>>

\* RemoveIncluded of the blocks a peer sent
RemoveIncluded(bs) == pool' = Select(pool, Txs \ ToSet(TxsOf(bs)))

\* then the staging area is emptied, and SEND_CHAIN is done
CommitEnd(t) ==
    /\ At(t, "commit") /\ Uncommitted(t) = {}
    /\ staging' = Nothing
    /\ \/ /\ Runs(t, "newBlock")
          /\ Goto(t, "add")
          /\ UNCHANGED pool
       \/ /\ Runs(t, "sendChain")
          /\ Return(t)
          /\ RemoveIncluded(task[t].adds)
    /\ UNCHANGED <<db, store, caller>>

Stored == DOMAIN blocks
Put(handler, bs) == [b \in Stored \cup Range(bs) |->
                       IF b \in Stored THEN blocks[b] ELSE handler]

\* AddBlock: known (nothing to do), on top of the tip, or refused
AddBlock(t) ==
    /\ At(t, "add") /\ Runs(t, "newBlock")
    /\ LET b == task[t].adds[1] IN
         \/ /\ b \in Stored
            /\ RemoveIncluded(<<b>>)
            /\ UNCHANGED store
         \/ /\ b \notin Stored /\ Front(b) = chain
            /\ blocks' = Put("newBlock", <<b>>)
            /\ chain' = b
            /\ RemoveIncluded(<<b>>)
         \/ /\ b \notin Stored /\ Front(b) # chain
            /\ UNCHANGED <<store, pool>>
    /\ Return(t)
    /\ UNCHANGED <<db, staging, caller>>

\* AddBlocks: a batch that hangs under a stored block is stored, and the tip
\* moves to a longer chain; then the staging area is committed
AddBlocks(t) ==
    /\ At(t, "add") /\ Runs(t, "sendChain")
    /\ LET bs == task[t].adds IN
         IF Front(bs[1]) \in Stored
         THEN /\ blocks' = Put("sendChain", bs)
              /\ chain' = IF Len(Last(bs)) > Len(chain) THEN Last(bs) ELSE chain
              /\ task' = [task EXCEPT ![t].at = "commit", ![t].puts = staging]
         ELSE /\ UNCHANGED store
              /\ Return(t)
    /\ UNCHANGED <<db, staging, caller, pool>>

\* AddAndCheckMine: the transaction stays pending, or the pool releases a
\* block that goes on top of the tip; nothing is committed either way
AddTx(tx) ==
    \/ pool' = Append(pool, tx) /\ UNCHANGED store
    \/ LET b == Append(chain, Append(pool, tx)) IN
         /\ Len(chain) < MaxLen
         /\ blocks' = Put("execute", <<b>>)
         /\ chain' = b
         /\ pool' = <<>>

AddExecuted(t) ==
    /\ At(t, "add") /\ Runs(t, "execute")
    /\ AddTx(task[t].adds[1][1][1])
    /\ Return(t)
    /\ UNCHANGED <<db, staging, caller>>

\* TRANSACTION: a gossiped transaction is pooled, and mined, without running
Transaction(t, tx) ==
    /\ At(t, "idle") /\ Len(pool) < MaxLen
    /\ AddTx(tx)
    /\ UNCHANGED <<db, staging, caller, task>>

\* the process stops and starts: what was staged or pending is gone
Restart ==
    /\ Stops \/ \A t \in Threads : At(t, "idle")
    /\ staging' = Nothing
    /\ caller' = Unknown
    /\ pool' = <<>>
    /\ task' = [t \in Threads |-> Idle]
    /\ UNCHANGED <<db, store>>

-----------------------------------------------------------------------------
Start(t) ==
    \/ \E tx \in Local : Len(pool) < MaxLen /\ ExecuteStart(t, tx)
    \/ \E tx \in Gossiped : Transaction(t, tx)
    \/ \E b \in Offered : NewBlockStart(t, b)
    \/ \E batch \in Batches : SendChainStart(t, batch)

Proceed(t) ==
    \/ SetCaller(t) \/ Refuse(t) \/ CallMethod(t) \/ Get(t) \/ Save(t) \/ RunEnd(t)
    \/ CommitKey(t) \/ CommitEnd(t)
    \/ AddBlock(t) \/ AddBlocks(t) \/ AddExecuted(t)

Next == Restart \/ \E t \in Threads : Start(t) \/ Proceed(t)

Spec == Init /\ [][Next]_vars

-----------------------------------------------------------------------------
\* does the function accept the sender of the transaction?
Accepted(tx) == Permission[tx] \in Required[tx]

\* the writes of a payload to a key
Writes(txs, k) == Select(txs, {tx \in Txs : KeyOf[tx] = k /\ Accepted(tx)})
Applied(tx) == ~ Accepted(tx) \/ Contains(db[KeyOf[tx]], tx)
AppliedAll(b) == \A i \in DOMAIN Last(b) : Applied(Last(b)[i])

\* A block that NEW_BLOCK stored has all its effects in the database, whatever
\* write failed and wherever the process stopped.
NewBlockApplied ==
    \A b \in Stored \ {<<>>} : blocks[b] = "newBlock" => AppliedAll(b)

\* The same holds of the blocks of a SEND_CHAIN once its Commit is through,
\* the blocks that were stored before included.
SyncApplied ==
    \A t \in Threads :
        At(t, "commit") /\ Runs(t, "sendChain") /\ Uncommitted(t) = {} =>
            \A i \in DOMAIN task[t].adds : AppliedAll(task[t].adds[i])

\* NEW_BLOCK commits the effects of its block and nothing else: nothing that
\* an EXECUTE, or a block that was refused half way, left staged.
CommitsItsBlock ==
    \A t \in Threads :
        At(t, "add") /\ Runs(t, "newBlock") =>
            \A k \in Keys :
                db[k] = task[t].before[k] \o Writes(Last(task[t].adds[1]), k)

\* No commit ever takes back a committed effect: what is staged always
\* builds on what is in the database.
CommittedStays == [][\A k \in Keys : IsPrefix(db[k], db'[k])]_vars

\* base.go:51: "Save to DB".  Once a transaction this node executed is in a
\* block this node mined, what its function saved is in the database.
SavedOnceMined ==
    (\A t \in Threads : At(t, "idle")) =>
        \A b \in Stored \ {<<>>} : \A i \in DOMAIN Last(b) :
            blocks[b] = "execute" /\ Last(b)[i] \in Local => Applied(Last(b)[i])
=============================================================================
