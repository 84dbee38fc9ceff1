----------------------------- MODULE ChainStore -----------------------------
(***************************************************************************)
(* internal/core/chain.go over internal/database/storage.go: one node's    *)
(* block store.  The ReadLoop goroutine of every peer calls MineBlock,     *)
(* AddBlock and AddBlocks on one Blockchain value that no lock protects,   *)
(* so a step here is one Badger transaction or one access to the LastHash  *)
(* field, and the steps of the threads interleave.  Reads of blocks that   *)
(* never go away (GenesisHash, the walk to the batch's root) are taken     *)
(* together with the access they follow.  The process may crash between    *)
(* any two steps, and any write may fail.                                  *)
(***************************************************************************)
EXTENDS Blocks

CONSTANTS Threads,     \* goroutines that call into the chain
          Own,         \* contents of the blocks this node may mine
          Incoming,    \* blocks a NEW_BLOCK message may carry
          Batches,     \* block sequences a SEND_CHAIN message may carry
          Crashes,     \* may the process crash?
          DiskErrors   \* may a SetData fail?

ASSUME CallAssumption ==
    /\ Own \subseteq Payload \ {Root}
    /\ Incoming \subseteq Block
    /\ Batches \subseteq Seq(Block)
    /\ Crashes \in BOOLEAN
    /\ DiskErrors \in BOOLEAN

VARIABLES blocks,    \* on disk: the height recorded in each stored block
          lh,        \* on disk: the value of key "lh", NoHash while absent
          LastHash,  \* in memory: the Blockchain's LastHash field
          phase,     \* the process: "down", "genesis" (half way through
                     \* InitBlockchain) or "up"
          job        \* where each thread is in its call, and its local state

disk == <<blocks, lh>>
vars == <<blocks, lh, LastHash, phase, job>>

-----------------------------------------------------------------------------
\* the local state of a call: the next step, the block it is about to write,
\* the rest of its batch and AddBlocks's newTip with newHeight
Job == [at : {"idle", "build", "checkTip", "save", "setTip", "setMem",
               "readHeight", "next", "saveNext"},
        block : [hash : Hash \cup {NoHash}, height : Int],
        rest : Seq(Block),
        best : [hash : Hash \cup {NoHash}, height : Int]]

Idle == [at |-> "idle", block |-> NoBlock, rest |-> <<>>, best |-> NoBlock]

Stored == DOMAIN blocks

\* GetBlock(h).Height; -1 stands for the error of a missing block
HeightOf(h) == IF h \in Stored THEN blocks[h] ELSE -1

\* SetData(block.Hash, block.Serialize())
Put(b) == [h \in Stored \cup {b.hash} |-> IF h = b.hash THEN b.height ELSE blocks[h]]

At(t, label) == phase = "up" /\ job[t].at = label

Goto(t, state) == job' = [job EXCEPT ![t] = state]

Return(t) == Goto(t, Idle)

\* mutant: the error of a failed SetData is dropped
WriteErrorIgnored(t) ==
    /\ DiskErrors /\ job[t].at = "save"
    /\ Goto(t, [job[t] EXCEPT !.at = "setTip"])
    /\ UNCHANGED <<disk, LastHash, phase>>

\* a SetData that fails makes its caller return an error
WriteFails(t) == DiskErrors /\ Return(t) /\ UNCHANGED <<disk, LastHash, phase>>

TypeOK ==
    /\ Stored \subseteq Hash /\ blocks \in [Stored -> Int]
    /\ lh \in Hash \cup {NoHash}
    /\ LastHash \in Hash \cup {NoHash}
    /\ phase \in {"down", "genesis", "up"}
    /\ job \in [Threads -> Job]

Init ==
    /\ blocks = <<>>
    /\ lh = NoHash
    /\ LastHash = NoHash
    /\ phase = "down"
    /\ job = [t \in Threads |-> Idle]

-----------------------------------------------------------------------------
\* InitBlockchain

\* key "lh" exists: the tip on disk becomes the tip in memory
Load ==
    /\ phase = "down" /\ lh # NoHash
    /\ LastHash' = lh
    /\ phase' = "up"
    /\ UNCHANGED <<disk, job>>

\* no "lh": the genesis block is saved first ...
SaveGenesis ==
    /\ phase = "down" /\ lh = NoHash
    /\ blocks' = Put([hash |-> Genesis, height |-> 0])
    /\ phase' = "genesis"
    /\ UNCHANGED <<lh, LastHash, job>>

\* ... and the pointer to it second; a failed write ends the process
SaveGenesisTip ==
    /\ phase = "genesis"
    /\ \/ /\ lh' = Genesis
          /\ LastHash' = Genesis
          /\ phase' = "up"
       \/ /\ DiskErrors
          /\ phase' = "down"
          /\ UNCHANGED <<lh, LastHash>>
    /\ UNCHANGED <<blocks, job>>

\* the process stops: the disk keeps what was written, memory and calls go
Crash ==
    /\ Crashes /\ phase # "down"
    /\ LastHash' = NoHash
    /\ phase' = "down"
    /\ job' = [t \in Threads |-> Idle]
    /\ UNCHANGED disk

-----------------------------------------------------------------------------
\* MineBlock

\* the first use of bc.LastHash: the height of the block it names
MineRead(t) ==
    /\ At(t, "idle") /\ LastHash \in Stored
    /\ Goto(t, [Idle EXCEPT
         !.at = "build",
         !.block = [hash |-> NoHash, height |-> HeightOf(LastHash) + 1]])
    /\ UNCHANGED <<disk, LastHash, phase>>

\* the second use of bc.LastHash: the new block goes on top of what it names
\* now; a block already stored, or beyond the bound, ends the call
MineBuild(t) ==
    /\ At(t, "build")
    /\ \E p \in Own :
         LET h == Append(LastHash, p) IN
           IF h \in Hash \ Stored
           THEN Goto(t, [job[t] EXCEPT !.at = "save", !.block.hash = h])
           ELSE Return(t)
    /\ UNCHANGED <<disk, LastHash, phase>>

\* the writes MineBlock and AddBlock end with: the block, "lh", the field
Save(t) ==
    /\ At(t, "save")
    /\ \/ /\ blocks' = Put(job[t].block)
          /\ Goto(t, [job[t] EXCEPT !.at = "setTip"])
          /\ UNCHANGED <<lh, LastHash, phase>>
       \/ WriteFails(t)

SetTip(t) ==
    /\ At(t, "setTip")
    /\ \/ /\ lh' = job[t].block.hash
          /\ Goto(t, [job[t] EXCEPT !.at = "setMem"])
          /\ UNCHANGED <<blocks, LastHash, phase>>
       \/ WriteFails(t)

SetMem(t) ==
    /\ At(t, "setMem")
    /\ LastHash' = job[t].block.hash
    /\ Return(t)
    /\ UNCHANGED <<disk, phase>>

-----------------------------------------------------------------------------
\* AddBlock

\* a block that is stored already is accepted without any effect
AddCheckKnown(t, b) ==
    /\ At(t, "idle") /\ b.hash \notin Stored
    /\ Goto(t, [Idle EXCEPT !.at = "checkTip", !.block = b])
    /\ UNCHANGED <<disk, LastHash, phase>>

\* only a block on top of the current tip is written
AddCheckTip(t) ==
    /\ At(t, "checkTip")
    /\ IF Prev(job[t].block.hash) = LastHash
       THEN Goto(t, [job[t] EXCEPT !.at = "save"])
       ELSE Return(t)
    /\ UNCHANGED <<disk, LastHash, phase>>

-----------------------------------------------------------------------------
\* AddBlocks

\* mutant: the links inside the batch are not compared
ContiguousUnchecked(batch) == TRUE

Contiguous(batch) ==
    \A i \in 2..Len(batch) : Prev(batch[i].hash) = batch[i - 1].hash

\* mutant: any first block is taken, as long as it is not a foreign root
ConnectsUnchecked(batch) ==
    Prev(batch[1].hash) = NoHash => batch[1].hash = RootOf(LastHash)

\* the batch hangs under a stored block of our own genesis, or starts with it
Connects(batch) ==
    LET first == batch[1].hash IN
      \/ /\ Prev(first) # NoHash
         /\ Traced(Stored, Prev(first))
         /\ RootOf(Prev(first)) = RootOf(LastHash)
      \/ Prev(first) = NoHash /\ first = RootOf(LastHash)

\* validation, up to the read of bc.LastHash into newTip
BatchStart(t, batch) ==
    /\ At(t, "idle")
    /\ batch # <<>>
    /\ Traced(Stored, LastHash)
    /\ Contiguous(batch)
    /\ Connects(batch)
    /\ Goto(t, [Idle EXCEPT !.at = "readHeight", !.rest = batch,
                            !.best.hash = LastHash])
    /\ UNCHANGED <<disk, LastHash, phase>>

\* bc.LastHash is read again for newHeight
BatchReadHeight(t) ==
    /\ At(t, "readHeight")
    /\ Goto(t, [job[t] EXCEPT !.at = "next", !.best.height = HeightOf(LastHash)])
    /\ UNCHANGED <<disk, LastHash, phase>>

\* a stored block is skipped, also as a candidate for the tip
BatchHasKey(t) ==
    /\ At(t, "next") /\ job[t].rest # <<>>
    /\ IF Head(job[t].rest).hash \in Stored
       THEN Goto(t, [job[t] EXCEPT !.rest = Tail(@)])
       ELSE Goto(t, [job[t] EXCEPT !.at = "saveNext"])
    /\ UNCHANGED <<disk, LastHash, phase>>

\* mutant: the last new block becomes the tip, whatever its height
BatchSaveAnyHeight(t) ==
    /\ At(t, "saveNext")
    /\ blocks' = Put(Head(job[t].rest))
    /\ Goto(t, [job[t] EXCEPT !.at = "next", !.rest = Tail(@),
                              !.best = Head(job[t].rest)])
    /\ UNCHANGED <<lh, LastHash, phase>>

\* mutant: the running maximum is not updated
BatchSaveNoMaximum(t) ==
    /\ At(t, "saveNext")
    /\ blocks' = Put(Head(job[t].rest))
    /\ Goto(t, [job[t] EXCEPT !.at = "next", !.rest = Tail(@)])
    /\ UNCHANGED <<lh, LastHash, phase>>

BatchSave(t) ==
    /\ At(t, "saveNext")
    /\ LET b == Head(job[t].rest) IN
         \/ /\ blocks' = Put(b)
            /\ Goto(t, [job[t] EXCEPT
                 !.at = "next", !.rest = Tail(@),
                 !.best = IF b.height > @.height THEN b ELSE @])
            /\ UNCHANGED <<lh, LastHash, phase>>
         \/ WriteFails(t)

\* the tip moves only when newTip is not what bc.LastHash holds by now
BatchCompare(t) ==
    /\ At(t, "next") /\ job[t].rest = <<>>
    /\ IF job[t].best.hash # LastHash
       THEN Goto(t, [job[t] EXCEPT !.at = "setTip", !.block = job[t].best])
       ELSE Return(t)
    /\ UNCHANGED <<disk, LastHash, phase>>

-----------------------------------------------------------------------------
Boot == Load \/ SaveGenesis \/ SaveGenesisTip

Mine(t) == MineRead(t) \/ MineBuild(t)

Write(t) == Save(t) \/ SetTip(t) \/ SetMem(t)

Add(t) == AddCheckTip(t) \/ \E b \in Incoming : AddCheckKnown(t, b)

AddMany(t) ==
    \/ \E batch \in Batches : BatchStart(t, batch)
    \/ BatchReadHeight(t)
    \/ BatchHasKey(t)
    \/ BatchSave(t)
    \/ BatchCompare(t)

Next ==
    \/ Boot
    \/ Crash
    \/ \E t \in Threads : Mine(t) \/ Add(t) \/ AddMany(t) \/ Write(t)

Spec == Init /\ [][Next]_vars

-----------------------------------------------------------------------------
\* Properties that hold under every interleaving, crash and failed write

\* From every stored block the walk along PrevBlockHash (GetAllBlock,
\* GetBlockAfter, GenesisHash) finds every block down to this network's
\* genesis block: no write ever leaves a gap or grafts a foreign lineage on.
AncestryIntact ==
    \A h \in Stored : Traced(Stored, h) /\ RootOf(h) = Genesis

\* Both tips name a stored block, so a restart never loads a dangling "lh"
\* and a caller of GetBlock(bc.LastHash) never fails.
TipStored ==
    /\ lh # NoHash => lh \in Stored
    /\ phase = "up" => LastHash \in Stored

\* Every step is a step of the abstract tree or leaves it alone.
Tree == INSTANCE BlockTree WITH tree <- DOMAIN blocks, tip <- lh
ImplementsBlockTree == Tree!Spec

-----------------------------------------------------------------------------
\* Properties that need the callers to take turns (one thread)

Quiet == phase = "up" /\ \A t \in Threads : job[t].at = "idle"

\* The persisted tip is only ever replaced by a higher block.
TipNeverRegresses ==
    [][lh # NoHash /\ lh' # lh => Depth(lh') > Depth(lh)]_vars

\* the block that t is going to make the tip, if it has one yet
Candidate(t) ==
    IF job[t].at \in {"setTip", "setMem"} THEN job[t].block.hash
    ELSE IF job[t].at \in {"next", "saveNext"} THEN job[t].best.hash
    ELSE NoHash
Covered ==
    \A h \in Stored :
        \/ Depth(h) <= Depth(LastHash)
        \/ \E t \in Threads : Depth(h) <= Depth(Candidate(t))

Interrupted ==
    \/ phase' = "down"
    \/ \E t \in Threads : job[t].at \in {"save", "setTip", "saveNext"} /\ job'[t] = Idle

\* Between calls no stored block is higher than the tip, unless a call was cut
\* short: a block that was taken in was also adopted when it made the chain
\* longer.  During a call the block it will adopt counts as the tip.
TipIsHighest ==
    [][phase = "up" /\ Covered /\ ~ Interrupted => Covered']_vars

-----------------------------------------------------------------------------
\* What the comments of chain.go say, which concurrent calls and failed
\* writes contradict

\* chain.go:73: "Create a new Block (Height incremented by 1)": every stored block
\* records its distance from the genesis block.
HeightIsDepth == \A h \in Stored : blocks[h] = Depth(h)

\* chain.go:103-106: AddBlock "only accepts blocks that directly extend the
\* current tip".  When a received block becomes the tip in memory, the tip
\* it replaces is its parent.  (The instance keeps Incoming disjoint from
\* what the node mines.)
AddExtendsTip ==
    [][\A t \in Threads :
          job[t].at = "setMem" /\ LastHash' # LastHash /\ job[t].block \in Incoming
            => Prev(LastHash') = LastHash]_vars

\* chain.go:130-134: AddBlocks "atomically validates and adopts a batch".
\* Between calls a batch's blocks are all stored, under a tip at least as
\* high, or none of them is.  (The instance has one source for them.)
BatchIsAtomic ==
    Quiet => \A batch \in Batches :
        LET new == {batch[i].hash : i \in DOMAIN batch} \ {Genesis} IN
          \/ new \cap Stored = {}
          \/ \A h \in new : h \in Stored /\ Depth(h) <= HeightOf(LastHash)
=============================================================================
