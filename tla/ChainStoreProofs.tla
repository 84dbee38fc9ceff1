-------------------------- MODULE ChainStoreProofs --------------------------
(***************************************************************************)
(* Proofs about ChainStore, for any number of threads, any blocks and      *)
(* batches from peers, crashes and failed writes included.  What a call    *)
(* carries between two of its steps (a block it checked, the rest of a     *)
(* batch, a candidate for the tip) stays valid while other threads run,    *)
(* because blocks are never removed: that is GoodJob, and it is what makes *)
(* AncestryIntact and TipStored inductive.                                 *)
(* The last part is about callers that take turns: only then do heights and *)
(* tips follow the chain (SerialInv).                                      *)
(***************************************************************************)
EXTENDS ChainStore, SequenceTheorems, TLAPS

-----------------------------------------------------------------------------
(* Hashes as paths                                                         *)

\* A hash is a non-empty sequence of payloads.
LEMMA HashIsPath ==
  ASSUME NEW h \in Hash
  PROVE  /\ h \in Seq(Payload)
         /\ Len(h) \in 1..MaxLen
         /\ Len(h) \in Nat \ {0}
<1>1. PICK n \in 1..MaxLen : h \in [1..n -> Payload]
  BY DEF Hash
<1>2. n \in Nat
  BY <1>1, PayloadAssumption
<1>3. h \in Seq(Payload)
  BY <1>1, <1>2, SeqDef
<1>4. Len(h) = n
  BY <1>1, <1>2, <1>3, LenProperties
<1> QED
  BY <1>1, <1>3, <1>4, PayloadAssumption

\* The empty previous hash of a root is no block's hash.
LEMMA NoHashIsNoHash == NoHash \notin Hash
<1>1. Len(NoHash) = 0
  BY DEF NoHash
<1> QED
  BY <1>1, HashIsPath

\* The genesis block's hash is a hash, with nothing before it.
LEMMA GenesisIsHash ==
  /\ Genesis \in Hash
  /\ Len(Genesis) = 1
  /\ RootOf(Genesis) = Genesis
<1>1. Genesis \in [1..1 -> Payload]
  BY PayloadAssumption DEF Genesis
<1>2. Genesis \in Hash
  BY <1>1, PayloadAssumption DEF Hash
<1>3. Len(Genesis) = 1
  BY DEF Genesis
<1>4. RootOf(Genesis) = Genesis
  BY <1>2, <1>3, HashIsPath, SubSeqFull DEF RootOf, Ancestor
<1> QED
  BY <1>2, <1>3, <1>4

\* Every ancestor of a hash is a hash.
LEMMA AncestorIsHash ==
  ASSUME NEW h \in Hash, NEW n \in 1..Len(h)
  PROVE  /\ Ancestor(h, n) \in Hash
         /\ Len(Ancestor(h, n)) = n
         /\ \A i \in 1..n : Ancestor(h, n)[i] = h[i]
<1>1. h \in Seq(Payload) /\ Len(h) \in 1..MaxLen
  BY HashIsPath
<1>2. n \in 1..MaxLen /\ \A i \in 1..n : h[i] \in Payload
  <2>1. \A i \in 1..Len(h) : h[i] \in Payload
    BY <1>1, ElementOfSeq
  <2>2. MaxLen \in Nat /\ n \in 1..MaxLen /\ 1..n \subseteq 1..Len(h)
    BY <1>1, PayloadAssumption
  <2> QED
    BY <2>1, <2>2
<1>3. /\ Ancestor(h, n) \in Seq(Payload)
      /\ Len(Ancestor(h, n)) = n
      /\ \A i \in 1..n : Ancestor(h, n)[i] = h[i]
  BY <1>2, SubSeqProperties DEF Ancestor
<1> QED
  BY <1>2, <1>3, LenProperties DEF Hash

\* The parent of a block that is not a root is a hash, and the block's
\* ancestors are its parent's and the block itself.
LEMMA ParentIsHash ==
  ASSUME NEW h \in Hash, Len(h) > 1
  PROVE  /\ Prev(h) \in Hash
         /\ Len(Prev(h)) = Len(h) - 1
         /\ \A n \in 1..(Len(h) - 1) : Ancestor(h, n) = Ancestor(Prev(h), n)
<1>1. Len(h) - 1 \in 1..Len(h) /\ Prev(h) = Ancestor(h, Len(h) - 1)
  BY HashIsPath DEF Prev, Ancestor
<1>2. /\ Prev(h) \in Hash /\ Len(Prev(h)) = Len(h) - 1
      /\ \A i \in 1..(Len(h) - 1) : Prev(h)[i] = h[i]
  BY <1>1, AncestorIsHash
<1>3. ASSUME NEW n \in 1..(Len(h) - 1)
      PROVE  Ancestor(h, n) = Ancestor(Prev(h), n)
  <2>1. n \in 1..Len(h) /\ n \in 1..Len(Prev(h))
    BY <1>2, HashIsPath
  <2>2. /\ Ancestor(h, n) \in Hash /\ Ancestor(Prev(h), n) \in Hash
        /\ Len(Ancestor(h, n)) = n /\ Len(Ancestor(Prev(h), n)) = n
        /\ \A i \in 1..n : Ancestor(h, n)[i] = Ancestor(Prev(h), n)[i]
    BY <1>2, <2>1, AncestorIsHash
  <2> QED
    BY <2>2, HashIsPath, SeqEqual
<1> QED
  BY <1>2, <1>3

\* The last ancestor of a hash is the hash itself.
LEMMA LastAncestor ==
  ASSUME NEW h \in Hash
  PROVE  Ancestor(h, Len(h)) = h
BY HashIsPath, SubSeqFull DEF Ancestor

\* A root has no parent.
LEMMA RootHasNoParent ==
  ASSUME NEW h \in Hash, Len(h) = 1
  PROVE  Prev(h) = NoHash /\ RootOf(h) = h
<1>1. SubSeq(h, 1, Len(h) - 1) = <<>>
  BY SubSeqEmpty
<1> QED
  BY <1>1, LastAncestor DEF Prev, NoHash, RootOf

\* A block made on top of h has h as its parent.
LEMMA ParentOfAppend ==
  ASSUME NEW h \in Hash, NEW p \in Payload, Append(h, p) \in Hash
  PROVE  Prev(Append(h, p)) = h
<1> DEFINE c == Append(h, p)
<1>1. /\ h \in Seq(Payload) /\ Len(h) \in Nat \ {0}
      /\ Len(c) = Len(h) + 1 /\ \A i \in 1..Len(h) : c[i] = h[i]
  BY HashIsPath
<1> HIDE DEF c
<1>2. /\ Prev(c) \in Hash /\ Len(Prev(c)) = Len(h)
      /\ \A i \in 1..Len(h) : Prev(c)[i] = c[i]
  <2>1. Len(c) - 1 \in 1..Len(c) /\ Prev(c) = Ancestor(c, Len(c) - 1)
    BY <1>1 DEF Prev, Ancestor
  <2>2. c \in Hash
    BY DEF c
  <2> QED
    BY <1>1, <2>1, <2>2, AncestorIsHash
<1>3. Prev(c) = h
  BY <1>1, <1>2, HashIsPath, SeqEqual
<1> QED
  BY <1>3 DEF c

\* A walk from a block whose parent's walk is complete is complete, and ends
\* at the same root.
LEMMA TracedThroughParent ==
  ASSUME NEW S, NEW h \in Hash, Len(h) > 1, h \in S, Traced(S, Prev(h))
  PROVE  Traced(S, h) /\ RootOf(h) = RootOf(Prev(h))
<1>1. ASSUME NEW n \in 1..Len(h) PROVE Ancestor(h, n) \in S
  <2>1. CASE n = Len(h)
    BY <2>1, LastAncestor
  <2>2. CASE n # Len(h)
    <3>1. n \in 1..(Len(h) - 1) /\ n \in 1..Len(Prev(h))
      BY <2>2, HashIsPath, ParentIsHash
    <3> QED
      BY <3>1, ParentIsHash DEF Traced
  <2> QED
    BY <2>1, <2>2
<1>2. RootOf(h) = RootOf(Prev(h))
  <2>1. 1 \in 1..(Len(h) - 1)
    BY HashIsPath
  <2> QED
    BY <2>1, ParentIsHash DEF RootOf
<1> QED
  BY <1>1, <1>2 DEF Traced

\* Storing more blocks breaks no walk.
LEMMA TracedMonotone ==
  ASSUME NEW S, NEW T, S \subseteq T, NEW h, Traced(S, h)
  PROVE  Traced(T, h)
BY DEF Traced

-----------------------------------------------------------------------------
(* The store and its tip, for any number of threads                        *)

\* h may be added to the tree S
Attached(h, S) == h = Genesis \/ Prev(h) \in S

\* the blocks of s may be added to S one after the other
Hangs(s, S) == s # <<>> => Attached(s[1].hash, S) /\ Contiguous(s)

GoodJob(j, S) ==
  /\ j.at \in {"save", "checkTip"} => j.block.hash \in Hash
  /\ j.at = "save" => Attached(j.block.hash, S)
  /\ j.at \in {"setTip", "setMem"} => j.block.hash \in S
  /\ j.at \in {"readHeight", "next", "saveNext"} => j.best.hash \in S /\ Hangs(j.rest, S)
  /\ j.at = "saveNext" => j.rest # <<>>

JobsGood == \A t \in Threads : GoodJob(job[t], Stored)

GenesisSaved == phase = "genesis" => Genesis \in Stored

IInv == TypeOK /\ AncestryIntact /\ TipStored /\ JobsGood /\ GenesisSaved

\* The calls in progress stay good when one of them makes a step and the
\* store only grows.
LEMMA JobStep ==
  ASSUME NEW t \in Threads, NEW j \in Job, IInv, Stored \subseteq Stored',
         GoodJob(j, Stored'), Goto(t, j)
  PROVE  job' \in [Threads -> Job] /\ JobsGood'
<1>1. job' \in [Threads -> Job]
  BY DEF Goto, IInv, TypeOK
<1>2. ASSUME NEW u \in Threads PROVE GoodJob(job'[u], Stored')
  <2>1. CASE u = t
    BY <2>1 DEF Goto, IInv, TypeOK
  <2>2. CASE u # t
    <3>1. job'[u] = job[u] /\ GoodJob(job[u], Stored)
      BY <2>2 DEF Goto, IInv, TypeOK, JobsGood
    <3> QED
      BY <3>1 DEF GoodJob, Hangs, Attached
  <2> QED
    BY <2>1, <2>2
<1> QED
  BY <1>1, <1>2 DEF JobsGood

\* A call that returns leaves nothing to be good.
LEMMA IdleIsGood ==
  /\ Idle \in Job
  /\ \A S : GoodJob(Idle, S)
BY EmptySeq DEF Idle, Job, NoBlock, GoodJob

\* Adding a block under a stored one, or the genesis block, keeps the tree.
LEMMA PutKeepsTree ==
  ASSUME IInv, NEW b, b.hash \in Hash, b.height \in Int,
         Attached(b.hash, Stored), blocks' = Put(b)
  PROVE  /\ Stored' = Stored \cup {b.hash}
         /\ Stored' \subseteq Hash /\ blocks' \in [Stored' -> Int]
         /\ AncestryIntact'
<1>1. Stored' = Stored \cup {b.hash}
  BY DEF Put, Stored
<1>2. Stored' \subseteq Hash /\ blocks' \in [Stored' -> Int]
  BY <1>1 DEF IInv, TypeOK, Put, Stored
<1>3. ASSUME NEW h \in Stored' PROVE Traced(Stored', h) /\ RootOf(h) = Genesis
  <2>1. CASE h \in Stored
    BY <1>1, <2>1, TracedMonotone DEF IInv, AncestryIntact
  <2>2. CASE h = Genesis
    <3>1. \A n \in 1..Len(h) : Ancestor(h, n) = h
      <4>1. Ancestor(h, 1) = h /\ Len(h) = 1
        BY <2>2, GenesisIsHash, LastAncestor
      <4> QED
        BY <4>1
    <3> QED
      BY <2>2, <3>1, GenesisIsHash DEF Traced
  <2>3. CASE h \notin Stored /\ h # Genesis
    <3>1. h \in Hash /\ Prev(h) \in Stored
      BY <1>1, <2>3 DEF Attached
    <3>2. Prev(h) \in Hash
      BY <3>1 DEF IInv, TypeOK
    <3>3. Len(h) > 1
      <4>1. Len(h) # 1
        BY <3>1, <3>2, RootHasNoParent, NoHashIsNoHash
      <4>2. Len(h) \in Nat \ {0}
        BY <3>1, HashIsPath
      <4>3. \A n \in Nat \ {0} : n # 1 => n > 1
        OBVIOUS
      <4> QED
        BY <4>1, <4>2, <4>3
    <3>4. Traced(Stored', Prev(h)) /\ RootOf(Prev(h)) = Genesis
      BY <1>1, <3>1, TracedMonotone DEF IInv, AncestryIntact
    <3> QED
      BY <3>1, <3>3, <3>4, TracedThroughParent
  <2> QED
    BY <2>1, <2>2, <2>3
<1> QED
  BY <1>1, <1>2, <1>3 DEF AncestryIntact

-----------------------------------------------------------------------------
\* The initial state satisfies the invariant.
LEMMA InitInv == Init => IInv
<1> SUFFICES ASSUME Init PROVE IInv
  OBVIOUS
<1>1. Stored = {}
  BY DEF Init, Stored
<1>2. TypeOK
  BY <1>1, IdleIsGood DEF Init, TypeOK
<1>3. JobsGood
  BY IdleIsGood DEF Init, JobsGood
<1> QED
  BY <1>1, <1>2, <1>3 DEF Init, IInv, AncestryIntact, TipStored, GenesisSaved

\* A step of one call that writes nothing: the call's new state is what has
\* to be shown good.
LEMMA QuietStep ==
  ASSUME IInv, NEW t \in Threads, NEW j \in Job, GoodJob(j, Stored), Goto(t, j),
         UNCHANGED <<disk, LastHash, phase>>
  PROVE  IInv'
<1>1. Stored' = Stored
  BY DEF disk, Stored
<1>2. job' \in [Threads -> Job] /\ JobsGood'
  BY <1>1, JobStep
<1> QED
  BY <1>1, <1>2
     DEF IInv, TypeOK, AncestryIntact, TipStored, GenesisSaved, disk, Stored

\* InitBlockchain and a crash.
LEMMA BootInv == IInv /\ Boot => IInv'
<1> SUFFICES ASSUME IInv, Boot PROVE IInv'
  OBVIOUS
<1>1. CASE Load
  BY <1>1 DEF Load, IInv, TypeOK, AncestryIntact, TipStored, JobsGood, GenesisSaved,
              disk, Stored
<1>2. CASE SaveGenesis
  <2> DEFINE gen == [hash |-> Genesis, height |-> 0]
  <2>1. /\ Stored' = Stored \cup {Genesis}
        /\ Stored' \subseteq Hash /\ blocks' \in [Stored' -> Int]
        /\ AncestryIntact'
    <3>1. Attached(gen.hash, Stored) /\ gen.hash \in Hash /\ gen.height \in Int
      BY GenesisIsHash DEF Attached
    <3>2. blocks' = Put(gen)
      BY <1>2 DEF SaveGenesis
    <3> QED
      BY <3>1, <3>2, PutKeepsTree
  <2>2. JobsGood'
    BY <1>2, <2>1 DEF SaveGenesis, IInv, JobsGood, GoodJob, Hangs, Attached
  <2> QED
    BY <1>2, <2>1, <2>2 DEF SaveGenesis, IInv, TypeOK, TipStored, GenesisSaved
<1>3. CASE SaveGenesisTip
  BY <1>3, GenesisIsHash
     DEF SaveGenesisTip, IInv, TypeOK, AncestryIntact, TipStored, JobsGood, GenesisSaved,
         disk, Stored
<1> QED
  BY <1>1, <1>2, <1>3 DEF Boot

\* A crash keeps the blocks and the tip on disk and forgets every call.
LEMMA CrashInv == IInv /\ Crash => IInv'
<1> SUFFICES ASSUME IInv, Crash PROVE IInv'
  OBVIOUS
<1>1. job' \in [Threads -> Job] /\ JobsGood'
  BY IdleIsGood DEF Crash, JobsGood
<1> QED
  BY <1>1 DEF Crash, IInv, TypeOK, AncestryIntact, TipStored, GenesisSaved, disk, Stored

\* A failed write ends the call.
LEMMA WriteFailsInv ==
  ASSUME IInv, NEW t \in Threads, WriteFails(t)
  PROVE  IInv'
BY QuietStep, IdleIsGood DEF WriteFails, Return

\* MineBlock up to its writes.
LEMMA MineInv ==
  ASSUME IInv, NEW t \in Threads, Mine(t)
  PROVE  IInv'
<1>1. CASE MineRead(t)
  <2> DEFINE j == [Idle EXCEPT
                !.at = "build",
                !.block = [hash |-> NoHash, height |-> HeightOf(LastHash) + 1]]
  <2>1. HeightOf(LastHash) + 1 \in Int
    BY <1>1 DEF MineRead, HeightOf, IInv, TypeOK
  <2>2. j.at = "build"
    BY DEF Idle, NoBlock
  <2>3. j \in Job
    BY <2>1, IdleIsGood DEF Job
  <2>4. GoodJob(j, Stored)
    BY <2>2 DEF GoodJob
  <2>5. Goto(t, j) /\ UNCHANGED <<disk, LastHash, phase>>
    BY <1>1 DEF MineRead
  <2> QED
    BY <2>3, <2>4, <2>5, QuietStep
<1>2. CASE MineBuild(t)
  <2>1. PICK p \in Own :
          IF Append(LastHash, p) \in Hash \ Stored
          THEN Goto(t, [job[t] EXCEPT !.at = "save", !.block.hash = Append(LastHash, p)])
          ELSE Return(t)
    BY <1>2 DEF MineBuild
  <2>2. UNCHANGED <<disk, LastHash, phase>> /\ LastHash \in Stored /\ job[t] \in Job
    BY <1>2 DEF MineBuild, At, IInv, TipStored, TypeOK
  <2>3. CASE Append(LastHash, p) \in Hash \ Stored
    <3> DEFINE h == Append(LastHash, p)
               j == [job[t] EXCEPT !.at = "save", !.block.hash = h]
    <3>1. h \in Hash /\ Prev(h) = LastHash
      BY <2>2, <2>3, ParentOfAppend, CallAssumption DEF IInv, TypeOK
    <3> HIDE DEF h
    <3>2. j \in Job /\ j.at = "save" /\ j.block.hash = h
      BY <2>2, <3>1 DEF Job
    <3>3. GoodJob(j, Stored)
      BY <2>2, <3>1, <3>2 DEF GoodJob, Attached
    <3> QED
      BY <2>1, <2>2, <2>3, <3>2, <3>3, QuietStep DEF h
  <2>4. CASE Append(LastHash, p) \notin Hash \ Stored
    BY <2>1, <2>2, <2>4, QuietStep, IdleIsGood DEF Return
  <2> QED
    BY <2>3, <2>4
<1> QED
  BY <1>1, <1>2 DEF Mine

\* The three writes MineBlock and AddBlock share.
LEMMA WriteInv ==
  ASSUME IInv, NEW t \in Threads, Write(t)
  PROVE  IInv'
<1>0. job[t] \in Job /\ GoodJob(job[t], Stored)
  BY DEF IInv, TypeOK, JobsGood
<1>1. CASE Save(t)
  <2>1. CASE WriteFails(t)
    BY <2>1, WriteFailsInv
  <2>2. CASE ~WriteFails(t)
    <3> DEFINE b == job[t].block
               j == [job[t] EXCEPT !.at = "setTip"]
    <3>1. /\ blocks' = Put(b) /\ Goto(t, j) /\ UNCHANGED <<lh, LastHash, phase>>
          /\ job[t].at = "save"
      BY <1>1, <2>2 DEF Save, At
    <3>2. b.hash \in Hash /\ b.height \in Int /\ Attached(b.hash, Stored)
      BY <1>0, <3>1 DEF GoodJob, Job
    <3>3. /\ Stored' = Stored \cup {b.hash}
          /\ Stored' \subseteq Hash /\ blocks' \in [Stored' -> Int]
          /\ AncestryIntact'
      BY <3>1, <3>2, PutKeepsTree
    <3>4. j \in Job /\ GoodJob(j, Stored')
      BY <1>0, <3>3 DEF Job, GoodJob
    <3>5. job' \in [Threads -> Job] /\ JobsGood'
      BY <3>1, <3>3, <3>4, JobStep
    <3> QED
      BY <3>1, <3>3, <3>5 DEF IInv, TypeOK, TipStored, GenesisSaved
  <2> QED
    BY <2>1, <2>2
<1>2. CASE SetTip(t)
  <2>1. CASE WriteFails(t)
    BY <2>1, WriteFailsInv
  <2>2. CASE ~WriteFails(t)
    <3> DEFINE j == [job[t] EXCEPT !.at = "setMem"]
    <3>1. /\ lh' = job[t].block.hash /\ Goto(t, j) /\ UNCHANGED <<blocks, LastHash, phase>>
          /\ job[t].at = "setTip"
      BY <1>2, <2>2 DEF SetTip, At
    <3>2. job[t].block.hash \in Stored /\ j \in Job /\ GoodJob(j, Stored)
      BY <1>0, <3>1 DEF GoodJob, Job
    <3>3. Stored' = Stored
      BY <3>1 DEF Stored
    <3>4. job' \in [Threads -> Job] /\ JobsGood'
      BY <3>1, <3>2, <3>3, JobStep
    <3> QED
      BY <3>1, <3>2, <3>3, <3>4
         DEF IInv, TypeOK, AncestryIntact, TipStored, GenesisSaved
  <2> QED
    BY <2>1, <2>2
<1>3. CASE SetMem(t)
  <2>1. /\ LastHash' = job[t].block.hash /\ Goto(t, Idle) /\ UNCHANGED <<disk, phase>>
        /\ job[t].at = "setMem"
    BY <1>3 DEF SetMem, At, Return
  <2>2. job[t].block.hash \in Stored
    BY <1>0, <2>1 DEF GoodJob
  <2>3. Stored' = Stored
    BY <2>1 DEF disk, Stored
  <2>4. job' \in [Threads -> Job] /\ JobsGood'
    BY <2>1, <2>3, JobStep, IdleIsGood
  <2> QED
    BY <2>1, <2>2, <2>3, <2>4
       DEF IInv, TypeOK, AncestryIntact, TipStored, GenesisSaved, disk, Stored
<1> QED
  BY <1>1, <1>2, <1>3 DEF Write

\* A block on the wire is a block a call may carry.
LEMMA BlockIsCarried == \A b \in Block : b \in [hash : Hash \cup {NoHash}, height : Int]
BY DEF Block

\* AddBlock up to its writes.
LEMMA AddInv ==
  ASSUME IInv, NEW t \in Threads, Add(t)
  PROVE  IInv'
<1>0. job[t] \in Job /\ GoodJob(job[t], Stored)
  BY DEF IInv, TypeOK, JobsGood
<1>1. ASSUME NEW b \in Incoming, AddCheckKnown(t, b) PROVE IInv'
  <2> DEFINE j == [Idle EXCEPT !.at = "checkTip", !.block = b]
  <2>1. b \in Block
    BY CallAssumption
  <2>2. j \in Job /\ j.at = "checkTip" /\ j.block = b
    BY <2>1, IdleIsGood, BlockIsCarried DEF Job
  <2>3. GoodJob(j, Stored)
    BY <2>1, <2>2 DEF Block, GoodJob
  <2>4. Goto(t, j) /\ UNCHANGED <<disk, LastHash, phase>>
    BY <1>1 DEF AddCheckKnown
  <2> QED
    BY <2>2, <2>3, <2>4, QuietStep
<1>2. CASE AddCheckTip(t)
  <2> DEFINE j == [job[t] EXCEPT !.at = "save"]
  <2>1. /\ UNCHANGED <<disk, LastHash, phase>> /\ LastHash \in Stored
        /\ job[t].at = "checkTip"
    BY <1>2 DEF AddCheckTip, At, IInv, TipStored
  <2>2. CASE Prev(job[t].block.hash) = LastHash
    <3>1. j \in Job /\ j.at = "save" /\ j.block = job[t].block
      BY <1>0 DEF Job
    <3>2. GoodJob(j, Stored)
      BY <1>0, <2>1, <2>2, <3>1 DEF GoodJob, Attached
    <3> QED
      BY <1>2, <2>1, <2>2, <3>1, <3>2, QuietStep DEF AddCheckTip
  <2>3. CASE Prev(job[t].block.hash) # LastHash
    BY <1>2, <2>1, <2>3, QuietStep, IdleIsGood DEF AddCheckTip, Return
  <2> QED
    BY <2>2, <2>3
<1> QED
  BY <1>1, <1>2 DEF Add

\* A validated batch hangs under the stored tree.
LEMMA ValidBatchHangs ==
  ASSUME IInv, LastHash \in Stored, NEW batch \in Batches, batch # <<>>,
         Contiguous(batch), Connects(batch)
  PROVE  Hangs(batch, Stored)
<1> DEFINE first == batch[1].hash
<1>1. batch \in Seq(Block) /\ Len(batch) \in Nat \ {0}
  BY CallAssumption, EmptySeq
<1>2. first \in Hash
  <2>1. batch[1] \in Block
    BY <1>1, ElementOfSeq
  <2> QED
    BY <2>1 DEF Block
<1>3. RootOf(LastHash) = Genesis
  BY DEF IInv, AncestryIntact
<1>4. CASE Prev(first) = NoHash
  <2>1. ~Traced(Stored, Prev(first)) \/ Prev(first) = NoHash
    BY <1>4
  <2> QED
    BY <1>3, <1>4 DEF Connects, Hangs, Attached
<1>5. CASE Prev(first) # NoHash
  <2>1. Traced(Stored, Prev(first))
    BY <1>5 DEF Connects
  <2>2. Len(first) # 1
    BY <1>2, <1>5, RootHasNoParent
  <2>3. Len(first) \in Nat \ {0}
    BY <1>2, HashIsPath
  <2>4. \A n \in Nat \ {0} : n # 1 => n > 1
    OBVIOUS
  <2>5. Prev(first) \in Hash
    BY <1>2, <2>2, <2>3, <2>4, ParentIsHash
  <2>6. /\ Len(Prev(first)) \in 1..Len(Prev(first))
        /\ Ancestor(Prev(first), Len(Prev(first))) = Prev(first)
    BY <2>5, HashIsPath, LastAncestor
  <2>7. Prev(first) \in Stored
    BY <2>1, <2>6 DEF Traced
  <2> QED
    BY <2>7 DEF Hangs, Attached
<1> QED
  BY <1>4, <1>5

\* Once the head of a batch is stored, the rest hangs under the tree.
LEMMA TailHangs ==
  ASSUME NEW s \in Seq(Block), s # <<>>, NEW S, Hangs(s, S), s[1].hash \in S
  PROVE  Hangs(Tail(s), S)
<1>1. /\ Tail(s) \in Seq(Block) /\ Len(Tail(s)) = Len(s) - 1
      /\ \A i \in 1..Len(Tail(s)) : Tail(s)[i] = s[i + 1]
      /\ Len(s) \in Nat \ {0}
  BY HeadTailProperties, EmptySeq
<1>2. \A i \in 2..Len(s) : Prev(s[i].hash) = s[i - 1].hash
  BY DEF Hangs, Contiguous
<1>3. ASSUME Tail(s) # <<>> PROVE Attached(Tail(s)[1].hash, S)
  <2>1. Len(Tail(s)) \in Nat \ {0}
    BY <1>1, <1>3, EmptySeq
  <2>2. 2 \in 2..Len(s) /\ Tail(s)[1] = s[2]
    BY <1>1, <2>1
  <2>3. Prev(s[2].hash) = s[1].hash
    BY <1>2, <2>2
  <2> QED
    BY <2>2, <2>3 DEF Attached
<1>4. Contiguous(Tail(s))
  <2>1. SUFFICES ASSUME NEW i \in 2..Len(Tail(s))
                 PROVE  Prev(Tail(s)[i].hash) = Tail(s)[i - 1].hash
    BY DEF Contiguous
  <2>2. /\ i + 1 \in 2..Len(s) /\ Tail(s)[i] = s[i + 1]
        /\ Tail(s)[i - 1] = s[(i - 1) + 1] /\ (i - 1) + 1 = i /\ (i + 1) - 1 = i
    BY <1>1
  <2>3. Prev(s[i + 1].hash) = s[(i + 1) - 1].hash
    BY <1>2, <2>2
  <2> QED
    BY <2>2, <2>3
<1> QED
  BY <1>3, <1>4 DEF Hangs

\* AddBlocks up to the writes of the tip.
LEMMA AddManyInv ==
  ASSUME IInv, NEW t \in Threads, AddMany(t)
  PROVE  IInv'
<1>0. /\ job[t] \in Job /\ GoodJob(job[t], Stored)
      /\ LastHash \in Hash \cup {NoHash}
  BY DEF IInv, TypeOK, JobsGood
<1>1. ASSUME NEW batch \in Batches, BatchStart(t, batch) PROVE IInv'
  <2> DEFINE j == [Idle EXCEPT !.at = "readHeight", !.rest = batch,
                               !.best.hash = LastHash]
  <2>1. /\ UNCHANGED <<disk, LastHash, phase>> /\ LastHash \in Stored
        /\ batch # <<>> /\ Contiguous(batch) /\ Connects(batch) /\ Goto(t, j)
    BY <1>1 DEF BatchStart, At, IInv, TipStored
  <2>2. batch \in Seq(Block) /\ Hangs(batch, Stored)
    BY <2>1, CallAssumption, ValidBatchHangs
  <2>3. j \in Job /\ j.at = "readHeight" /\ j.rest = batch /\ j.best.hash = LastHash
    BY <1>0, <2>2, IdleIsGood DEF Job
  <2>4. GoodJob(j, Stored)
    BY <2>1, <2>2, <2>3 DEF GoodJob
  <2> QED
    BY <2>1, <2>3, <2>4, QuietStep
<1>2. CASE BatchReadHeight(t)
  <2> DEFINE j == [job[t] EXCEPT !.at = "next", !.best.height = HeightOf(LastHash)]
  <2>1. /\ UNCHANGED <<disk, LastHash, phase>> /\ job[t].at = "readHeight" /\ Goto(t, j)
    BY <1>2 DEF BatchReadHeight, At
  <2>2. HeightOf(LastHash) \in Int
    BY DEF HeightOf, IInv, TypeOK
  <2>3. /\ j \in Job /\ j.at = "next" /\ j.rest = job[t].rest
        /\ j.best.hash = job[t].best.hash
    BY <1>0, <2>2 DEF Job
  <2>4. GoodJob(j, Stored)
    BY <1>0, <2>1, <2>3 DEF GoodJob
  <2> QED
    BY <2>1, <2>3, <2>4, QuietStep
<1>3. CASE BatchHasKey(t)
  <2>1. /\ UNCHANGED <<disk, LastHash, phase>> /\ job[t].at = "next"
        /\ job[t].rest # <<>> /\ job[t].rest \in Seq(Block)
        /\ Head(job[t].rest) = job[t].rest[1]
    BY <1>0, <1>3 DEF BatchHasKey, At, Job
  <2>2. CASE Head(job[t].rest).hash \in Stored
    <3> DEFINE j == [job[t] EXCEPT !.rest = Tail(@)]
    <3>1. /\ Tail(job[t].rest) \in Seq(Block)
          /\ Hangs(Tail(job[t].rest), Stored)
      BY <1>0, <2>1, <2>2, HeadTailProperties, TailHangs DEF GoodJob
    <3>2. /\ j \in Job /\ j.at = "next" /\ j.rest = Tail(job[t].rest)
          /\ j.best = job[t].best
      BY <1>0, <2>1, <3>1 DEF Job
    <3>3. GoodJob(j, Stored)
      BY <1>0, <2>1, <3>1, <3>2 DEF GoodJob
    <3> QED
      BY <1>3, <2>1, <2>2, <3>2, <3>3, QuietStep DEF BatchHasKey
  <2>3. CASE Head(job[t].rest).hash \notin Stored
    <3> DEFINE j == [job[t] EXCEPT !.at = "saveNext"]
    <3>1. /\ j \in Job /\ j.at = "saveNext" /\ j.rest = job[t].rest
          /\ j.best = job[t].best
      BY <1>0 DEF Job
    <3>2. GoodJob(j, Stored)
      BY <1>0, <2>1, <3>1 DEF GoodJob
    <3> QED
      BY <1>3, <2>1, <2>3, <3>1, <3>2, QuietStep DEF BatchHasKey
  <2> QED
    BY <2>2, <2>3
<1>4. CASE BatchSave(t)
  <2>1. CASE WriteFails(t)
    BY <2>1, WriteFailsInv
  <2>2. CASE ~WriteFails(t)
    <3> DEFINE s == job[t].rest
               b == Head(s)
               j == [job[t] EXCEPT
                       !.at = "next", !.rest = Tail(@),
                       !.best = IF b.height > @.height THEN b ELSE @]
    <3>1. /\ blocks' = Put(b) /\ Goto(t, j) /\ UNCHANGED <<lh, LastHash, phase>>
          /\ job[t].at = "saveNext"
      BY <1>4, <2>2 DEF BatchSave, At
    <3>2. s # <<>> /\ s \in Seq(Block) /\ Hangs(s, Stored)
      BY <1>0, <3>1 DEF GoodJob, Job
    <3>3. b \in Block /\ b = s[1] /\ Tail(s) \in Seq(Block)
      BY <3>2, HeadTailProperties
    <3>4. b.hash \in Hash /\ b.height \in Int /\ Attached(b.hash, Stored)
      BY <3>2, <3>3 DEF Block, Hangs
    <3>5. /\ Stored' = Stored \cup {b.hash}
          /\ Stored' \subseteq Hash /\ blocks' \in [Stored' -> Int]
          /\ AncestryIntact'
      BY <3>1, <3>4, PutKeepsTree
    <3>6. /\ j \in Job /\ j.at = "next" /\ j.rest = Tail(s)
          /\ j.best.hash \in {b.hash, job[t].best.hash}
      <4> DEFINE top == IF b.height > job[t].best.height THEN b ELSE job[t].best
      <4>1. /\ top \in [hash : Hash \cup {NoHash}, height : Int]
            /\ top.hash \in {b.hash, job[t].best.hash}
        BY <1>0, <3>3, BlockIsCarried DEF Job
      <4>2. j = [job[t] EXCEPT !.at = "next", !.rest = Tail(s), !.best = top]
        OBVIOUS
      <4> HIDE DEF top, j, b
      <4> QED
        BY <1>0, <3>3, <4>1, <4>2 DEF Job
    <3>7. Hangs(Tail(s), Stored')
      <4>1. Hangs(s, Stored') /\ s[1].hash \in Stored'
        BY <3>2, <3>3, <3>5 DEF Hangs, Attached
      <4> QED
        BY <3>2, <4>1, TailHangs
    <3>8. GoodJob(j, Stored')
      BY <1>0, <3>1, <3>5, <3>6, <3>7 DEF GoodJob
    <3>9. job' \in [Threads -> Job] /\ JobsGood'
      BY <3>1, <3>5, <3>6, <3>8, JobStep
    <3> QED
      BY <3>1, <3>5, <3>9 DEF IInv, TypeOK, TipStored, GenesisSaved
  <2> QED
    BY <2>1, <2>2
<1>5. CASE BatchCompare(t)
  <2>1. UNCHANGED <<disk, LastHash, phase>> /\ job[t].at = "next"
    BY <1>5 DEF BatchCompare, At
  <2>2. CASE job[t].best.hash # LastHash
    <3> DEFINE j == [job[t] EXCEPT !.at = "setTip", !.block = job[t].best]
    <3>1. j \in Job /\ j.at = "setTip" /\ j.block = job[t].best
      BY <1>0 DEF Job
    <3>2. GoodJob(j, Stored)
      BY <1>0, <2>1, <3>1 DEF GoodJob
    <3> QED
      BY <1>5, <2>1, <2>2, <3>1, <3>2, QuietStep DEF BatchCompare
  <2>3. CASE job[t].best.hash = LastHash
    BY <1>5, <2>1, <2>3, QuietStep, IdleIsGood DEF BatchCompare, Return
  <2> QED
    BY <2>2, <2>3
<1> QED
  BY <1>1, <1>2, <1>3, <1>4, <1>5 DEF AddMany

-----------------------------------------------------------------------------
\* Every step of every thread, and every crash, keeps the invariant.
LEMMA NextInv == IInv /\ [Next]_vars => IInv'
<1> SUFFICES ASSUME IInv, [Next]_vars PROVE IInv'
  OBVIOUS
<1>1. CASE UNCHANGED vars
  BY <1>1 DEF vars, IInv, TypeOK, AncestryIntact, TipStored, JobsGood, GenesisSaved, Stored
<1>2. CASE Next
  BY <1>2, BootInv, CrashInv, MineInv, AddInv, AddManyInv, WriteInv DEF Next
<1> QED
  BY <1>1, <1>2

\* The invariant of the store, whatever the threads, the peers' blocks, the
\* crashes and the failed writes.
THEOREM StoreInvariant == Spec => []IInv
BY InitInv, NextInv, PTL DEF Spec

\* Every variable of the store keeps its type.
THEOREM TypeCorrect == Spec => []TypeOK
<1>1. IInv => TypeOK
  BY DEF IInv
<1> QED
  BY <1>1, StoreInvariant, PTL

\* From every stored block the walk along PrevBlockHash finds every block
\* down to this network's genesis block, so GetAllBlock, GetBlockAfter and
\* GenesisHash never meet a gap.
THEOREM AncestryAlwaysIntact == Spec => []AncestryIntact
<1>1. IInv => AncestryIntact
  BY DEF IInv
<1> QED
  BY <1>1, StoreInvariant, PTL

\* The tip on disk and the tip in memory always name a stored block.
THEOREM TipAlwaysStored == Spec => []TipStored
<1>1. IInv => TipStored
  BY DEF IInv
<1> QED
  BY <1>1, StoreInvariant, PTL

-----------------------------------------------------------------------------
\* Refinement: a write of a block is Grow, a write of "lh" is Point, and every
\* other step leaves the tree and its tip alone.

\* Saving a block under a stored one is a step of the abstract tree ...
LEMMA PutIsGrow ==
  ASSUME IInv, NEW b, b.hash \in Hash, b.height \in Int,
         Attached(b.hash, Stored), blocks' = Put(b), UNCHANGED lh
  PROVE  Tree!Next
<1>1. Stored' = Stored \cup {b.hash}
  BY PutKeepsTree
<1>2. Tree!Grow(b.hash)
  BY <1>1 DEF Tree!Grow, Attached, Stored, Tree!Genesis, Tree!Prev, Genesis, Prev
<1> QED
  BY <1>2 DEF Tree!Next, Tree!Hash, Hash

\* ... and so is setting the persisted tip to a stored block.
LEMMA SetIsPoint ==
  ASSUME IInv, NEW h \in Stored, lh' = h, UNCHANGED blocks
  PROVE  Tree!Next
<1>1. Tree!Point(h) /\ h \in Hash
  BY DEF Tree!Point, Stored, IInv, TypeOK
<1> QED
  BY <1>1 DEF Tree!Next, Tree!Hash, Hash

\* Every step of the store is a step of the abstract tree, or none.
LEMMA StepIsTreeStep == IInv /\ [Next]_vars => [Tree!Next]_(Tree!vars)
<1> SUFFICES ASSUME IInv, [Next]_vars PROVE Tree!Next \/ UNCHANGED <<blocks, lh>>
  BY DEF Tree!vars
<1>1. CASE UNCHANGED vars
  BY <1>1 DEF vars
<1>2. CASE Boot
  <2>1. CASE Load
    BY <2>1 DEF Load, disk
  <2>2. CASE SaveGenesis
    <3> DEFINE gen == [hash |-> Genesis, height |-> 0]
    <3>1. /\ Attached(gen.hash, Stored) /\ gen.hash \in Hash /\ gen.height \in Int
          /\ blocks' = Put(gen) /\ UNCHANGED lh
      BY <2>2, GenesisIsHash DEF SaveGenesis, Attached
    <3> QED
      BY <3>1, PutIsGrow
  <2>3. CASE SaveGenesisTip
    <3>1. Genesis \in Stored /\ UNCHANGED blocks
      BY <2>3 DEF SaveGenesisTip, IInv, GenesisSaved
    <3>2. lh' = Genesis \/ UNCHANGED lh
      BY <2>3 DEF SaveGenesisTip
    <3> QED
      BY <3>1, <3>2, SetIsPoint
  <2> QED
    BY <1>2, <2>1, <2>2, <2>3 DEF Boot
<1>3. CASE Crash
  BY <1>3 DEF Crash, disk
<1>4. ASSUME NEW t \in Threads, Mine(t) \/ Add(t) \/ AddMany(t) \/ Write(t)
      PROVE  Tree!Next \/ UNCHANGED <<blocks, lh>>
  <2>0. job[t] \in Job /\ GoodJob(job[t], Stored)
    BY DEF IInv, TypeOK, JobsGood
  <2>1. CASE Save(t)
    <3>1. CASE WriteFails(t)
      BY <3>1 DEF WriteFails, disk
    <3>2. CASE ~WriteFails(t)
      <4>1. blocks' = Put(job[t].block) /\ UNCHANGED lh /\ job[t].at = "save"
        BY <2>1, <3>2 DEF Save, At
      <4>2. /\ job[t].block.hash \in Hash /\ job[t].block.height \in Int
            /\ Attached(job[t].block.hash, Stored)
        BY <2>0, <4>1 DEF GoodJob, Job
      <4> QED
        BY <4>1, <4>2, PutIsGrow
    <3> QED
      BY <3>1, <3>2
  <2>2. CASE SetTip(t)
    <3>1. CASE WriteFails(t)
      BY <3>1 DEF WriteFails, disk
    <3>2. CASE ~WriteFails(t)
      <4>1. /\ lh' = job[t].block.hash /\ UNCHANGED blocks
            /\ job[t].block.hash \in Stored
        BY <2>0, <2>2, <3>2 DEF SetTip, At, GoodJob
      <4> QED
        BY <4>1, SetIsPoint
    <3> QED
      BY <3>1, <3>2
  <2>3. CASE BatchSave(t)
    <3>1. CASE WriteFails(t)
      BY <3>1 DEF WriteFails, disk
    <3>2. CASE ~WriteFails(t)
      <4> DEFINE s == job[t].rest
      <4>1. blocks' = Put(Head(s)) /\ UNCHANGED lh /\ job[t].at = "saveNext"
        BY <2>3, <3>2 DEF BatchSave, At
      <4>2. s # <<>> /\ s \in Seq(Block) /\ Hangs(s, Stored)
        BY <2>0, <4>1 DEF GoodJob, Job
      <4>3. Head(s) \in Block /\ Head(s) = s[1]
        BY <4>2, HeadTailProperties
      <4>4. /\ Head(s).hash \in Hash /\ Head(s).height \in Int
            /\ Attached(Head(s).hash, Stored)
        BY <4>2, <4>3 DEF Block, Hangs
      <4> QED
        BY <4>1, <4>4, PutIsGrow
    <3> QED
      BY <3>1, <3>2
  <2>4. CASE Mine(t) \/ Add(t)
    BY <2>4 DEF Mine, MineRead, MineBuild, Add, AddCheckKnown, AddCheckTip, disk
  <2>5. CASE SetMem(t)
    BY <2>5 DEF SetMem, disk
  <2>6. CASE AddMany(t) /\ ~BatchSave(t)
    BY <2>6 DEF AddMany, BatchStart, BatchReadHeight, BatchHasKey, BatchCompare, disk
  <2> QED
    BY <1>4, <2>1, <2>2, <2>3, <2>4, <2>5, <2>6 DEF Write
<1> QED
  BY <1>1, <1>2, <1>3, <1>4 DEF Next

\* The store implements the abstract tree: it only ever grows, under blocks it
\* holds, and its persisted tip only ever moves to a block it holds.
THEOREM StoreImplementsTree == Spec => ImplementsBlockTree
<1>1. Init => Tree!Init
  BY DEF Init, Tree!Init, Tree!NoHash, NoHash
<1> QED
  BY <1>1, StepIsTreeStep, StoreInvariant, PTL DEF Spec, ImplementsBlockTree, Tree!Spec

-----------------------------------------------------------------------------
(***************************************************************************)
(* Callers that take turns.  Heights and tips are only right when no call  *)
(* moves LastHash between two steps of another one: Serial says that there *)
(* is one thread, t0, and that the blocks peers send record their depth    *)
(* (Height is not digested, so a hash does not vouch for it).  Crashes and *)
(* failed writes stay allowed.  What a call carries is then tied to the    *)
(* tip it read (SerialJob), and "lh" differs from LastHash only between    *)
(* the last two writes of a call.                                          *)
(***************************************************************************)

Truthful(b) == b.height = Depth(b.hash)

Serial(t) ==
  /\ Threads = {t}
  /\ \A b \in Incoming : Truthful(b)
  /\ \A batch \in Batches : \A i \in DOMAIN batch : Truthful(batch[i])

SerialJob(j, tip) ==
  /\ j.at = "build" => j.block.height = Depth(tip) + 1
  /\ j.at \in {"checkTip", "save", "setTip", "setMem"} => Truthful(j.block)
  /\ j.at \in {"save", "setTip", "setMem"} => Depth(j.block.hash) > Depth(tip)
  /\ j.at = "readHeight" => j.best.hash = tip
  /\ j.at \in {"next", "saveNext"} =>
       /\ Truthful(j.best)
       /\ j.best.hash = tip \/ Depth(j.best.hash) > Depth(tip)
  /\ j.at \in {"readHeight", "next", "saveNext"} => \A i \in DOMAIN j.rest : Truthful(j.rest[i])

\* what "lh" is while the process is up
Persisted(j, tip) == IF j.at = "setMem" THEN j.block.hash ELSE tip

SerialInv(t) ==
  /\ HeightIsDepth
  /\ SerialJob(job[t], LastHash)
  /\ job[t].at # "idle" => phase = "up"
  /\ phase = "up" => lh = Persisted(job[t], LastHash)
  /\ phase = "genesis" => lh = NoHash

\* A block that is added with its depth.
LEMMA PutKeepsDepth ==
  ASSUME HeightIsDepth, NEW b, Truthful(b), blocks' = Put(b)
  PROVE  HeightIsDepth'
BY DEF HeightIsDepth, Truthful, Put, Stored

\* The height of a path, and of one that is a block longer.
LEMMA DepthFacts ==
  ASSUME NEW h \in Hash
  PROVE  /\ Depth(h) \in Nat
         /\ Prev(h) \in Hash => Depth(h) = Depth(Prev(h)) + 1
<1>1. Len(h) \in Nat \ {0}
  BY HashIsPath
<1>2. ASSUME Prev(h) \in Hash PROVE Depth(h) = Depth(Prev(h)) + 1
  <2>1. Len(h) # 1
    BY <1>2, RootHasNoParent, NoHashIsNoHash
  <2>2. Len(Prev(h)) = Len(h) - 1
    <3>1. \A n \in Nat \ {0} : n # 1 => n > 1
      OBVIOUS
    <3> QED
      BY <1>1, <2>1, <3>1, ParentIsHash
  <2> QED
    BY <1>1, <2>2 DEF Depth
<1> QED
  BY <1>1, <1>2 DEF Depth

\* What the one thread's call is, and the tip under it.
LEMMA SerialFacts ==
  ASSUME NEW t, Serial(t), IInv
  PROVE  /\ t \in Threads /\ \A u \in Threads : u = t
         /\ job[t] \in Job /\ GoodJob(job[t], Stored)
         /\ phase = "up" => /\ LastHash \in Stored /\ LastHash \in Hash
                            /\ Depth(LastHash) \in Nat
         /\ \A j : Goto(t, j) => job'[t] = j
BY DepthFacts DEF Serial, IInv, TypeOK, JobsGood, TipStored, Goto

\* A step of the call before its last write that leaves the store alone.
LEMMA SerialQuiet ==
  ASSUME NEW t, Serial(t), IInv, SerialInv(t), NEW j, Goto(t, j),
         UNCHANGED <<disk, LastHash, phase>>, phase = "up",
         job[t].at # "setMem", j.at # "setMem", SerialJob(j, LastHash)
  PROVE  SerialInv(t)'
<1>1. job'[t] = j
  BY SerialFacts
<1>2. HeightIsDepth'
  BY DEF SerialInv, HeightIsDepth, Stored, disk
<1> QED
  BY <1>1, <1>2 DEF SerialInv, Persisted, disk

\* A call that returns.
LEMMA SerialReturn ==
  ASSUME NEW t, Serial(t), IInv, SerialInv(t), Return(t),
         UNCHANGED <<disk, LastHash, phase>>, phase = "up", job[t].at # "setMem"
  PROVE  SerialInv(t)'
<1>1. Idle.at = "idle" /\ SerialJob(Idle, LastHash)
  BY DEF Idle, SerialJob
<1> QED
  BY <1>1, SerialQuiet DEF Return

\* InitBlockchain, and a crash: no call is in progress.
LEMMA SerialBoot ==
  ASSUME NEW t, Serial(t), IInv, SerialInv(t), Boot \/ Crash
  PROVE  SerialInv(t)'
<1>1. Idle.at = "idle" /\ \A tip : SerialJob(Idle, tip)
  BY DEF Idle, SerialJob
<1>2. CASE Crash
  <2>1. job'[t] = Idle /\ phase' = "down" /\ UNCHANGED blocks
    BY <1>2, SerialFacts DEF Crash, disk
  <2> QED
    BY <1>1, <2>1 DEF SerialInv, HeightIsDepth, Stored
<1>3. CASE Boot
  <2>1. job[t].at = "idle" /\ UNCHANGED job
    BY <1>3 DEF Boot, Load, SaveGenesis, SaveGenesisTip, SerialInv
  <2>2. SerialJob(job'[t], LastHash')
    BY <2>1 DEF SerialJob
  <2>3. CASE Load
    BY <2>1, <2>2, <2>3 DEF Load, SerialInv, Persisted, HeightIsDepth, Stored, disk
  <2>4. CASE SaveGenesis
    <3> DEFINE gen == [hash |-> Genesis, height |-> 0]
    <3>1. Truthful(gen)
      BY GenesisIsHash DEF Truthful, Depth
    <3>2. HeightIsDepth'
      BY <2>4, <3>1, PutKeepsDepth DEF SaveGenesis, SerialInv
    <3> QED
      BY <2>1, <2>2, <2>4, <3>2 DEF SaveGenesis, SerialInv
  <2>5. CASE SaveGenesisTip
    BY <2>1, <2>2, <2>5 DEF SaveGenesisTip, SerialInv, Persisted, HeightIsDepth, Stored
  <2> QED
    BY <1>3, <2>3, <2>4, <2>5 DEF Boot
<1> QED
  BY <1>2, <1>3

\* MineBlock reads LastHash twice, and nobody moved it in between.
LEMMA SerialMine ==
  ASSUME NEW t, Serial(t), IInv, SerialInv(t), Mine(t)
  PROVE  SerialInv(t)'
<1>0. phase = "up" /\ UNCHANGED <<disk, LastHash, phase>> /\ job[t] \in Job
  BY SerialFacts DEF Mine, MineRead, MineBuild, At
<1>1. CASE MineRead(t)
  <2> DEFINE j == [Idle EXCEPT
                !.at = "build",
                !.block = [hash |-> NoHash, height |-> HeightOf(LastHash) + 1]]
  <2>1. HeightOf(LastHash) = Depth(LastHash)
    BY <1>1 DEF MineRead, HeightOf, SerialInv, HeightIsDepth
  <2>2. j.at = "build" /\ j.block.height = HeightOf(LastHash) + 1
    BY DEF Idle, NoBlock
  <2>3. Goto(t, j) /\ job[t].at = "idle"
    BY <1>1 DEF MineRead, At
  <2> HIDE DEF j
  <2>4. SerialJob(j, LastHash)
    BY <2>1, <2>2 DEF SerialJob
  <2> QED
    BY <1>0, <2>2, <2>3, <2>4, SerialQuiet
<1>2. CASE MineBuild(t)
  <2>1. PICK p \in Own :
          IF Append(LastHash, p) \in Hash \ Stored
          THEN Goto(t, [job[t] EXCEPT !.at = "save", !.block.hash = Append(LastHash, p)])
          ELSE Return(t)
    BY <1>2 DEF MineBuild
  <2>2. job[t].at = "build" /\ job[t].block.height = Depth(LastHash) + 1
    BY <1>2 DEF MineBuild, At, SerialInv, SerialJob
  <2>3. CASE Append(LastHash, p) \in Hash \ Stored
    <3> DEFINE h == Append(LastHash, p)
               j == [job[t] EXCEPT !.at = "save", !.block.hash = h]
    <3>1. LastHash \in Hash /\ Depth(LastHash) \in Nat
      BY <1>0, SerialFacts
    <3>2. h \in Hash /\ Prev(h) = LastHash
      BY <2>3, <3>1, ParentOfAppend, CallAssumption
    <3> HIDE DEF h
    <3>3. Depth(h) = Depth(LastHash) + 1
      BY <3>1, <3>2, DepthFacts
    <3>4. j.at = "save" /\ j.block.hash = h /\ j.block.height = job[t].block.height
      BY <1>0 DEF Job
    <3>5. Goto(t, j)
      BY <2>1, <2>3 DEF h
    <3> HIDE DEF j
    <3>6. SerialJob(j, LastHash)
      BY <2>2, <3>1, <3>3, <3>4 DEF SerialJob, Truthful
    <3> QED
      BY <1>0, <2>2, <3>4, <3>5, <3>6, SerialQuiet
  <2>4. CASE Append(LastHash, p) \notin Hash \ Stored
    BY <1>0, <2>1, <2>2, <2>4, SerialReturn
  <2> QED
    BY <2>3, <2>4
<1> QED
  BY <1>1, <1>2 DEF Mine

\* AddBlock takes a block on top of the tip only.
LEMMA SerialAdd ==
  ASSUME NEW t, Serial(t), IInv, SerialInv(t), Add(t)
  PROVE  SerialInv(t)'
<1>0. /\ phase = "up" /\ UNCHANGED <<disk, LastHash, phase>> /\ job[t] \in Job
      /\ GoodJob(job[t], Stored) /\ LastHash \in Hash /\ Depth(LastHash) \in Nat
  BY SerialFacts DEF Add, AddCheckKnown, AddCheckTip, At
<1>1. ASSUME NEW b \in Incoming, AddCheckKnown(t, b) PROVE SerialInv(t)'
  <2> DEFINE j == [Idle EXCEPT !.at = "checkTip", !.block = b]
  <2>1. Truthful(b)
    BY DEF Serial
  <2>2. j.at = "checkTip" /\ j.block = b
    BY DEF Idle
  <2>3. Goto(t, j) /\ job[t].at = "idle"
    BY <1>1 DEF AddCheckKnown, At
  <2> HIDE DEF j
  <2>4. SerialJob(j, LastHash)
    BY <2>1, <2>2 DEF SerialJob
  <2> QED
    BY <1>0, <2>2, <2>3, <2>4, SerialQuiet
<1>2. CASE AddCheckTip(t)
  <2>1. job[t].at = "checkTip" /\ Truthful(job[t].block) /\ job[t].block.hash \in Hash
    BY <1>0, <1>2 DEF AddCheckTip, At, SerialInv, SerialJob, GoodJob
  <2>2. CASE Prev(job[t].block.hash) = LastHash
    <3> DEFINE j == [job[t] EXCEPT !.at = "save"]
    <3>1. j.at = "save" /\ j.block = job[t].block
      BY <1>0 DEF Job
    <3>2. Goto(t, j)
      BY <1>2, <2>2 DEF AddCheckTip
    <3> HIDE DEF j
    <3>3. Depth(job[t].block.hash) = Depth(LastHash) + 1
      BY <1>0, <2>1, <2>2, DepthFacts
    <3>4. SerialJob(j, LastHash)
      BY <1>0, <2>1, <3>1, <3>3 DEF SerialJob
    <3> QED
      BY <1>0, <2>1, <3>1, <3>2, <3>4, SerialQuiet
  <2>3. CASE Prev(job[t].block.hash) # LastHash
    BY <1>0, <1>2, <2>1, <2>3, SerialReturn DEF AddCheckTip
  <2> QED
    BY <2>2, <2>3
<1> QED
  BY <1>1, <1>2 DEF Add

\* The blocks of a batch that are left are as truthful as the batch.
LEMMA TailTruthful ==
  ASSUME NEW s \in Seq(Block), s # <<>>, \A i \in DOMAIN s : Truthful(s[i])
  PROVE  \A i \in DOMAIN Tail(s) : Truthful(Tail(s)[i])
<1>1. /\ Tail(s) \in Seq(Block) /\ Len(Tail(s)) = Len(s) - 1
      /\ \A i \in 1..Len(Tail(s)) : Tail(s)[i] = s[i + 1]
      /\ Len(s) \in Nat \ {0}
  BY HeadTailProperties, EmptySeq
<1>2. DOMAIN s = 1..Len(s) /\ DOMAIN Tail(s) = 1..(Len(s) - 1)
  BY <1>1, LenProperties
<1>3. \A i \in DOMAIN Tail(s) : i + 1 \in DOMAIN s /\ Tail(s)[i] = s[i + 1]
  BY <1>1, <1>2
<1> QED
  BY <1>3

\* AddBlocks compares heights with the height of the tip it started from, and the
\* tip is still the same.
LEMMA SerialAddMany ==
  ASSUME NEW t, Serial(t), IInv, SerialInv(t), AddMany(t)
  PROVE  SerialInv(t)'
<1>0. /\ phase = "up" /\ UNCHANGED <<lh, LastHash, phase>> /\ job[t] \in Job
      /\ GoodJob(job[t], Stored) /\ LastHash \in Hash /\ Depth(LastHash) \in Nat
      /\ LastHash \in Stored
  BY SerialFacts DEF AddMany, BatchStart, BatchReadHeight, BatchHasKey, BatchSave,
                     BatchCompare, At, WriteFails, disk
<1>1. ASSUME NEW batch \in Batches, BatchStart(t, batch) PROVE SerialInv(t)'
  <2> DEFINE j == [Idle EXCEPT !.at = "readHeight", !.rest = batch,
                               !.best.hash = LastHash]
  <2>1. \A i \in DOMAIN batch : Truthful(batch[i])
    BY DEF Serial
  <2>2. j.at = "readHeight" /\ j.rest = batch /\ j.best.hash = LastHash
    BY DEF Idle, NoBlock
  <2>3. Goto(t, j) /\ job[t].at = "idle" /\ UNCHANGED <<disk, LastHash, phase>>
    BY <1>1 DEF BatchStart, At
  <2> HIDE DEF j
  <2>4. SerialJob(j, LastHash)
    BY <2>1, <2>2 DEF SerialJob
  <2> QED
    BY <1>0, <2>2, <2>3, <2>4, SerialQuiet
<1>2. CASE BatchReadHeight(t)
  <2> DEFINE j == [job[t] EXCEPT !.at = "next", !.best.height = HeightOf(LastHash)]
  <2>1. /\ job[t].at = "readHeight" /\ Goto(t, j) /\ UNCHANGED <<disk, LastHash, phase>>
        /\ job[t].best.hash = LastHash
        /\ \A i \in DOMAIN job[t].rest : Truthful(job[t].rest[i])
    BY <1>2 DEF BatchReadHeight, At, SerialInv, SerialJob
  <2>2. HeightOf(LastHash) = Depth(LastHash)
    BY <1>0 DEF HeightOf, SerialInv, HeightIsDepth
  <2>3. /\ j.at = "next" /\ j.rest = job[t].rest
        /\ j.best.hash = job[t].best.hash /\ j.best.height = HeightOf(LastHash)
    BY <1>0 DEF Job
  <2> HIDE DEF j
  <2>4. SerialJob(j, LastHash)
    BY <2>1, <2>2, <2>3 DEF SerialJob, Truthful
  <2> QED
    BY <1>0, <2>1, <2>3, <2>4, SerialQuiet
<1>3. CASE BatchHasKey(t)
  <2>1. /\ job[t].at = "next" /\ job[t].rest # <<>> /\ job[t].rest \in Seq(Block)
        /\ UNCHANGED <<disk, LastHash, phase>>
        /\ Truthful(job[t].best)
        /\ job[t].best.hash = LastHash \/ Depth(job[t].best.hash) > Depth(LastHash)
        /\ \A i \in DOMAIN job[t].rest : Truthful(job[t].rest[i])
    BY <1>0, <1>3 DEF BatchHasKey, At, Job, SerialInv, SerialJob
  <2>2. \A i \in DOMAIN Tail(job[t].rest) : Truthful(Tail(job[t].rest)[i])
    BY <2>1, TailTruthful
  <2>3. PICK j : /\ Goto(t, j) /\ j.at \in {"next", "saveNext"} /\ j.best = job[t].best
                 /\ j.rest \in {job[t].rest, Tail(job[t].rest)}
    <3> DEFINE skip == [job[t] EXCEPT !.rest = Tail(@)]
               take == [job[t] EXCEPT !.at = "saveNext"]
    <3>1. Goto(t, skip) \/ Goto(t, take)
      BY <1>3 DEF BatchHasKey
    <3>2. /\ skip.at = "next" /\ skip.best = job[t].best /\ skip.rest = Tail(job[t].rest)
          /\ take.at = "saveNext" /\ take.best = job[t].best /\ take.rest = job[t].rest
      BY <1>0, <2>1 DEF Job
    <3> HIDE DEF skip, take
    <3> QED
      BY <3>1, <3>2
  <2>4. SerialJob(j, LastHash)
    BY <2>1, <2>2, <2>3 DEF SerialJob
  <2> QED
    BY <1>0, <2>1, <2>3, <2>4, SerialQuiet
<1>4. CASE BatchSave(t)
  <2>1. /\ job[t].at = "saveNext" /\ job[t].rest # <<>> /\ job[t].rest \in Seq(Block)
        /\ Truthful(job[t].best)
        /\ job[t].best.hash = LastHash \/ Depth(job[t].best.hash) > Depth(LastHash)
        /\ \A i \in DOMAIN job[t].rest : Truthful(job[t].rest[i])
    BY <1>0, <1>4 DEF BatchSave, At, Job, SerialInv, SerialJob, GoodJob
  <2>2. CASE WriteFails(t)
    BY <1>0, <2>1, <2>2, SerialReturn DEF WriteFails
  <2>3. CASE ~WriteFails(t)
    <3> DEFINE s == job[t].rest
               b == Head(s)
               top == IF b.height > job[t].best.height THEN b ELSE job[t].best
               j == [job[t] EXCEPT !.at = "next", !.rest = Tail(s), !.best = top]
    <3>1. blocks' = Put(b) /\ Goto(t, j)
      BY <1>4, <2>3 DEF BatchSave
    <3>2. /\ Truthful(b) /\ b.hash \in Hash
          /\ \A i \in DOMAIN Tail(s) : Truthful(Tail(s)[i])
      <4>1. b = s[1] /\ 1 \in DOMAIN s /\ b \in Block
        BY <2>1, HeadTailProperties, EmptySeq, LenProperties
      <4> QED
        BY <2>1, <4>1, TailTruthful DEF Block
    <3>3. HeightIsDepth'
      BY <3>1, <3>2, PutKeepsDepth DEF SerialInv
    <3>4. /\ Truthful(top)
          /\ top.hash = LastHash \/ Depth(top.hash) > Depth(LastHash)
      <4>1. job[t].best.hash \in Hash
        BY <1>0, <2>1 DEF GoodJob, IInv, TypeOK
      <4>2. Depth(job[t].best.hash) \in Nat /\ Depth(b.hash) \in Nat
        BY <3>2, <4>1, DepthFacts
      <4> HIDE DEF b
      <4> QED
        BY <1>0, <2>1, <3>2, <4>2 DEF Truthful
    <3>5. j.at = "next" /\ j.rest = Tail(s) /\ j.best = top
      <4> HIDE DEF top, s
      <4> QED
        BY <1>0 DEF Job
    <3> HIDE DEF j, top, b
    <3>6. SerialJob(j, LastHash)
      BY <3>2, <3>4, <3>5 DEF SerialJob
    <3>7. job'[t] = j
      BY <3>1, SerialFacts
    <3> QED
      BY <1>0, <2>1, <3>3, <3>5, <3>6, <3>7 DEF SerialInv, Persisted
  <2> QED
    BY <2>2, <2>3
<1>5. CASE BatchCompare(t)
  <2>1. /\ job[t].at = "next" /\ UNCHANGED <<disk, LastHash, phase>>
        /\ Truthful(job[t].best)
        /\ job[t].best.hash = LastHash \/ Depth(job[t].best.hash) > Depth(LastHash)
    BY <1>5 DEF BatchCompare, At, SerialInv, SerialJob
  <2>2. CASE job[t].best.hash # LastHash
    <3> DEFINE j == [job[t] EXCEPT !.at = "setTip", !.block = job[t].best]
    <3>1. j.at = "setTip" /\ j.block = job[t].best
      BY <1>0 DEF Job
    <3>2. Goto(t, j)
      BY <1>5, <2>2 DEF BatchCompare
    <3> HIDE DEF j
    <3>3. SerialJob(j, LastHash)
      BY <2>1, <2>2, <3>1 DEF SerialJob
    <3> QED
      BY <1>0, <2>1, <3>1, <3>2, <3>3, SerialQuiet
  <2>3. CASE job[t].best.hash = LastHash
    BY <1>0, <1>5, <2>1, <2>3, SerialReturn DEF BatchCompare
  <2> QED
    BY <2>2, <2>3
<1> QED
  BY <1>1, <1>2, <1>3, <1>4, <1>5 DEF AddMany

\* The block, "lh" and the field are written in this order.
LEMMA SerialWrite ==
  ASSUME NEW t, Serial(t), IInv, SerialInv(t), Write(t)
  PROVE  SerialInv(t)'
<1>0. /\ phase = "up" /\ phase' = phase /\ job[t] \in Job
      /\ GoodJob(job[t], Stored) /\ LastHash \in Hash /\ Depth(LastHash) \in Nat
  BY SerialFacts DEF Write, Save, SetTip, SetMem, At, WriteFails
<1>1. CASE WriteFails(t)
  <2>1. UNCHANGED <<disk, LastHash, phase>> /\ Return(t)
    BY <1>1 DEF WriteFails
  <2>2. CASE job[t].at # "setMem"
    BY <1>0, <2>1, <2>2, SerialReturn
  <2>3. CASE job[t].at = "setMem"
    <3>1. SetMem(t)
      BY <2>3 DEF Write, Save, SetTip, At
    <3>2. LastHash' = job[t].block.hash /\ Depth(job[t].block.hash) > Depth(LastHash)
      BY <2>3, <3>1 DEF SetMem, SerialInv, SerialJob
    <3> QED
      BY <1>0, <2>1, <3>2
  <2> QED
    BY <2>2, <2>3
<1>2. CASE Save(t) /\ ~WriteFails(t)
  <2> DEFINE j == [job[t] EXCEPT !.at = "setTip"]
  <2>1. /\ blocks' = Put(job[t].block) /\ Goto(t, j) /\ UNCHANGED <<lh, LastHash, phase>>
        /\ job[t].at = "save"
    BY <1>2 DEF Save, At
  <2>2. j.at = "setTip" /\ j.block = job[t].block
    BY <1>0 DEF Job
  <2> HIDE DEF j
  <2>3. job'[t] = j
    BY <2>1, SerialFacts
  <2>4. SerialJob(j, LastHash)
    BY <2>1, <2>2 DEF SerialInv, SerialJob
  <2>5. HeightIsDepth'
    BY <2>1, PutKeepsDepth DEF SerialInv, SerialJob
  <2> QED
    BY <1>0, <2>1, <2>2, <2>3, <2>4, <2>5 DEF SerialInv, Persisted
<1>3. CASE SetTip(t) /\ ~WriteFails(t)
  <2> DEFINE j == [job[t] EXCEPT !.at = "setMem"]
  <2>1. /\ lh' = job[t].block.hash /\ Goto(t, j) /\ UNCHANGED <<blocks, LastHash, phase>>
        /\ job[t].at = "setTip"
    BY <1>3 DEF SetTip, At
  <2>2. j.at = "setMem" /\ j.block = job[t].block
    BY <1>0 DEF Job
  <2> HIDE DEF j
  <2>3. job'[t] = j
    BY <2>1, SerialFacts
  <2>4. SerialJob(j, LastHash)
    BY <2>1, <2>2 DEF SerialInv, SerialJob
  <2>5. HeightIsDepth'
    BY <2>1 DEF SerialInv, HeightIsDepth, Stored
  <2> QED
    BY <1>0, <2>1, <2>2, <2>3, <2>4, <2>5 DEF SerialInv, Persisted
<1>4. CASE SetMem(t)
  <2>1. /\ LastHash' = job[t].block.hash /\ Goto(t, Idle) /\ UNCHANGED <<disk, phase>>
        /\ job[t].at = "setMem" /\ lh = job[t].block.hash
    BY <1>4 DEF SetMem, At, Return, SerialInv, Persisted
  <2>2. job'[t] = Idle /\ Idle.at = "idle"
    BY <2>1, SerialFacts DEF Idle
  <2>3. SerialJob(Idle, LastHash')
    BY <2>2 DEF SerialJob
  <2>4. HeightIsDepth'
    BY <2>1 DEF SerialInv, HeightIsDepth, Stored, disk
  <2> QED
    BY <1>0, <2>1, <2>2, <2>3, <2>4 DEF SerialInv, Persisted, disk
<1> QED
  BY <1>1, <1>2, <1>3, <1>4 DEF Write

LEMMA SerialNext ==
  ASSUME NEW t, Serial(t)
  PROVE  IInv /\ SerialInv(t) /\ [Next]_vars => SerialInv(t)'
<1> SUFFICES ASSUME IInv, SerialInv(t), [Next]_vars PROVE SerialInv(t)'
  OBVIOUS
<1>1. CASE UNCHANGED vars
  BY <1>1 DEF vars, SerialInv, Persisted, HeightIsDepth, Stored
<1>2. CASE Next
  <2>1. \A u \in Threads : u = t
    BY SerialFacts
  <2> QED
    BY <1>2, <2>1, SerialBoot, SerialMine, SerialAdd, SerialAddMany, SerialWrite DEF Next
<1> QED
  BY <1>1, <1>2

LEMMA SerialInit ==
  ASSUME NEW t, Serial(t)
  PROVE  Init => SerialInv(t)
BY DEF Init, SerialInv, SerialJob, Idle, HeightIsDepth, Stored, Serial

\* As long as the callers take turns, the persisted tip is only replaced by a
\* higher block: a candidate is
\* compared with the tip that its call read, which is the tip that it replaces.
THEOREM SerialTipAdvances ==
  ASSUME NEW t, Serial(t)
  PROVE  Spec => TipNeverRegresses
<1>1. IInv /\ SerialInv(t) /\ [Next]_vars =>
        [lh # NoHash /\ lh' # lh => Depth(lh') > Depth(lh)]_vars
  <2> SUFFICES ASSUME IInv, SerialInv(t), [Next]_vars, lh # NoHash, lh' # lh
               PROVE  Depth(lh') > Depth(lh)
    OBVIOUS
  <2>1. \A u \in Threads : u = t
    BY SerialFacts
  <2>2. ~UNCHANGED vars /\ ~Boot /\ ~Crash
    BY DEF vars, disk, Boot, Load, SaveGenesis, SaveGenesisTip, Crash, SerialInv
  <2>3. ~(Mine(t) \/ Add(t) \/ AddMany(t))
    BY DEF disk, Mine, MineRead, MineBuild, Add, AddCheckKnown, AddCheckTip, AddMany,
           BatchStart, BatchReadHeight, BatchHasKey, BatchSave, BatchCompare, WriteFails
  <2>4. Write(t)
    BY <2>1, <2>2, <2>3 DEF Next
  <2>5. SetTip(t) /\ ~WriteFails(t)
    BY <2>4 DEF Write, Save, SetMem, WriteFails, disk
  <2>6. lh' = job[t].block.hash /\ job[t].at = "setTip" /\ phase = "up"
    BY <2>5 DEF SetTip, At
  <2> QED
    BY <2>6 DEF SerialInv, SerialJob, Persisted
<1>2. Init => SerialInv(t)
  BY SerialInit
<1>3. IInv /\ SerialInv(t) /\ [Next]_vars => SerialInv(t)'
  BY SerialNext
<1> QED
  BY <1>1, <1>2, <1>3, StoreInvariant, PTL DEF Spec, TipNeverRegresses

-----------------------------------------------------------------------------
\* Covered, for one thread: every stored block is at most as high as the tip or as
\* the block that the call is going to make the tip.
LEMMA CoveredSerially ==
  ASSUME NEW t, Serial(t)
  PROVE  /\ Covered <=> \A h \in Stored : \/ Depth(h) <= Depth(LastHash)
                                          \/ Depth(h) <= Depth(Candidate(t))
         /\ Covered' <=> \A h \in Stored' : \/ Depth(h) <= Depth(LastHash')
                                            \/ Depth(h) <= Depth(Candidate(t)')
BY DEF Covered, Serial

\* A step without a write of a block keeps what is covered, if the new tip and the
\* new candidate cover what the old ones did.
LEMMA CoveredStays ==
  ASSUME NEW t, Serial(t), IInv, Covered, Stored' = Stored,
         \A n \in Nat : n <= Depth(LastHash) \/ n <= Depth(Candidate(t)) =>
                        n <= Depth(LastHash') \/ n <= Depth(Candidate(t)')
  PROVE  Covered'
<1>1. \A h \in Stored : Depth(h) \in Nat
  BY DepthFacts DEF IInv, TypeOK
<1> QED
  BY <1>1, CoveredSerially

\* Nothing is adopted by a call that is at none of these places.
LEMMA NoCandidate ==
  ASSUME NEW t, job[t].at \notin {"setTip", "setMem", "next", "saveNext"}
  PROVE  Depth(Candidate(t)) = -1 
<1>1. Len(NoHash) = 0
  BY DEF NoHash
<1> QED
  BY <1>1 DEF Candidate, Depth

\* What a thread that is not cut short stores, it adopts, or what it adopts instead
\* is at least as high.
LEMMA CoveredNext ==
  ASSUME NEW t, Serial(t), IInv, SerialInv(t), Next, phase = "up", Covered, ~Interrupted
  PROVE  Covered'
<1>0. /\ job[t] \in Job /\ GoodJob(job[t], Stored) /\ LastHash \in Hash
      /\ Depth(LastHash) \in Nat /\ t \in Threads
  BY SerialFacts
<1>1. ~Boot /\ ~Crash
  BY DEF Boot, Load, SaveGenesis, SaveGenesisTip, Crash, Interrupted
<1>2. job[t].at \in {"save", "setTip", "saveNext"} => ~WriteFails(t)
  <2>1. ASSUME Return(t) PROVE job'[t] = Idle
    BY <2>1, SerialFacts DEF Return
  <2> QED
    BY <1>0, <2>1 DEF Interrupted, WriteFails
<1>3. CASE Mine(t) \/ Add(t) \/ BatchReadHeight(t) \/ \E batch \in Batches : BatchStart(t, batch)
  <2>1. /\ UNCHANGED <<disk, LastHash>>
        /\ job[t].at \in {"idle", "build", "checkTip", "readHeight"}
    BY <1>3 DEF Mine, MineRead, MineBuild, Add, AddCheckKnown, AddCheckTip, BatchStart,
                BatchReadHeight, At
  <2>2. Depth(Candidate(t)) = -1 /\ Stored' = Stored
    BY <2>1, NoCandidate DEF disk, Stored
  <2>3. \A n \in Nat : ~(n <= -1)
    OBVIOUS
  <2>4. \A n \in Nat : n <= Depth(LastHash) \/ n <= Depth(Candidate(t)) => n <= Depth(LastHash')
    BY <2>1, <2>2, <2>3
  <2> QED
    BY <2>2, <2>4, CoveredStays
<1>4. CASE BatchHasKey(t)
  <2>1. /\ UNCHANGED <<disk, LastHash>> /\ job[t].at = "next"
        /\ job'[t].best = job[t].best /\ job'[t].at \in {"next", "saveNext"}
    <3> DEFINE skip == [job[t] EXCEPT !.rest = Tail(@)]
               take == [job[t] EXCEPT !.at = "saveNext"]
    <3>1. /\ UNCHANGED <<disk, LastHash>> /\ job[t].at = "next"
          /\ Goto(t, skip) \/ Goto(t, take)
      BY <1>4 DEF BatchHasKey, At
    <3>2. /\ skip.at = "next" /\ skip.best = job[t].best
          /\ take.at = "saveNext" /\ take.best = job[t].best
      BY <1>0, <3>1 DEF Job
    <3>3. job'[t] = skip \/ job'[t] = take
      BY <3>1, SerialFacts
    <3> HIDE DEF skip, take
    <3> QED
      BY <3>1, <3>2, <3>3
  <2>2. Candidate(t)' = Candidate(t) /\ Stored' = Stored
    BY <2>1 DEF Candidate, disk, Stored
  <2> QED
    BY <2>1, <2>2, CoveredStays
<1>5. CASE BatchSave(t)
  <2> DEFINE b == Head(job[t].rest)
             top == IF b.height > job[t].best.height THEN b ELSE job[t].best
             j == [job[t] EXCEPT !.at = "next", !.rest = Tail(job[t].rest), !.best = top]
  <2>1. /\ job[t].at = "saveNext" /\ job[t].rest # <<>> /\ job[t].rest \in Seq(Block)
        /\ Truthful(job[t].best) /\ job[t].best.hash \in Hash
        /\ \A i \in DOMAIN job[t].rest : Truthful(job[t].rest[i])
    BY <1>0, <1>5
       DEF BatchSave, At, Job, SerialInv, SerialJob, GoodJob, IInv, TypeOK
  <2>2. blocks' = Put(b) /\ Goto(t, j) /\ UNCHANGED LastHash
    BY <1>2, <1>5, <2>1 DEF BatchSave
  <2>3. Truthful(b) /\ b.hash \in Hash
    <3>1. b = job[t].rest[1] /\ 1 \in DOMAIN job[t].rest /\ b \in Block
      BY <2>1, HeadTailProperties, EmptySeq, LenProperties
    <3> QED
      BY <2>1, <3>1 DEF Block
  <2>4. j.at = "next" /\ j.best = top
    <3> HIDE DEF top
    <3> QED
      BY <1>0 DEF Job
  <2>5. /\ Depth(b.hash) <= Depth(top.hash)
        /\ Depth(job[t].best.hash) <= Depth(top.hash)
        /\ Depth(top.hash) \in Nat /\ Depth(job[t].best.hash) \in Nat
    <3>1. Depth(b.hash) \in Nat /\ Depth(job[t].best.hash) \in Nat
      BY <2>1, <2>3, DepthFacts
    <3> HIDE DEF b
    <3> QED
      BY <2>1, <2>3, <3>1 DEF Truthful
  <2>6. Stored' = Stored \cup {b.hash}
    BY <2>2 DEF Put, Stored
  <2> HIDE DEF j, top, b
  <2>7. Candidate(t) = job[t].best.hash /\ Candidate(t)' = top.hash
    <3>1. job'[t] = j
      BY <2>2, SerialFacts
    <3> QED
      BY <2>1, <2>4, <3>1 DEF Candidate
  <2>8. \A h \in Stored : Depth(h) \in Nat
    BY DepthFacts DEF IInv, TypeOK
  <2>9. \A n \in Nat : n <= Depth(job[t].best.hash) => n <= Depth(top.hash)
    BY <2>5
  <2> QED
    BY <2>2, <2>5, <2>6, <2>7, <2>8, <2>9, CoveredSerially
<1>6. CASE BatchCompare(t)
  <2>1. job[t].at = "next" /\ UNCHANGED <<disk, LastHash>> /\ Candidate(t) = job[t].best.hash
    BY <1>6 DEF BatchCompare, At, Candidate
  <2>2. Stored' = Stored
    BY <2>1 DEF disk, Stored
  <2>3. CASE job[t].best.hash # LastHash
    <3> DEFINE j == [job[t] EXCEPT !.at = "setTip", !.block = job[t].best]
    <3>1. j.at = "setTip" /\ j.block = job[t].best
      BY <1>0 DEF Job
    <3>2. Goto(t, j)
      BY <1>6, <2>3 DEF BatchCompare
    <3> HIDE DEF j
    <3>3. job'[t] = j
      BY <3>2, SerialFacts
    <3>4. Candidate(t)' = Candidate(t)
      BY <2>1, <3>1, <3>3 DEF Candidate
    <3> QED
      BY <2>1, <2>2, <3>4, CoveredStays
  <2>4. CASE job[t].best.hash = LastHash
    BY <2>1, <2>2, <2>4, CoveredStays
  <2> QED
    BY <2>3, <2>4
<1>7. CASE Save(t)
  <2> DEFINE j == [job[t] EXCEPT !.at = "setTip"]
  <2>1. /\ blocks' = Put(job[t].block) /\ Goto(t, j) /\ UNCHANGED LastHash
        /\ job[t].at = "save" /\ job[t].block.hash \in Hash
    BY <1>0, <1>2, <1>7 DEF Save, At, GoodJob
  <2>2. j.at = "setTip" /\ j.block = job[t].block
    BY <1>0 DEF Job
  <2> HIDE DEF j
  <2>3. job'[t] = j
    BY <2>1, SerialFacts
  <2>4. Depth(Candidate(t)) = -1 /\ Candidate(t)' = job[t].block.hash
    BY <2>1, <2>2, <2>3, NoCandidate DEF Candidate
  <2>5. Stored' = Stored \cup {job[t].block.hash}
    BY <2>1 DEF Put, Stored
  <2>6. /\ \A h \in Stored : Depth(h) \in Nat
        /\ \A n \in Nat : ~(n <= -1) /\ n <= n
        /\ Depth(job[t].block.hash) \in Nat
    BY <2>1, DepthFacts DEF IInv, TypeOK
  <2> QED
    BY <2>1, <2>4, <2>5, <2>6, CoveredSerially
<1>8. CASE SetTip(t)
  <2> DEFINE j == [job[t] EXCEPT !.at = "setMem"]
  <2>1. /\ Goto(t, j) /\ UNCHANGED <<blocks, LastHash>> /\ job[t].at = "setTip"
    BY <1>2, <1>8 DEF SetTip, At
  <2>2. j.at = "setMem" /\ j.block = job[t].block
    BY <1>0 DEF Job
  <2> HIDE DEF j
  <2>3. job'[t] = j
    BY <2>1, SerialFacts
  <2>4. Candidate(t)' = Candidate(t) /\ Stored' = Stored
    BY <2>1, <2>2, <2>3 DEF Candidate, Stored
  <2> QED
    BY <2>1, <2>4, CoveredStays
<1>9. CASE SetMem(t)
  <2>1. /\ LastHash' = job[t].block.hash /\ UNCHANGED disk /\ job[t].at = "setMem"
        /\ Depth(job[t].block.hash) > Depth(LastHash)
        /\ job[t].block.hash \in Hash
    BY <1>0, <1>9 DEF SetMem, At, SerialInv, SerialJob, GoodJob, IInv, TypeOK
  <2>2. Candidate(t) = LastHash' /\ Stored' = Stored
    BY <2>1 DEF Candidate, disk, Stored
  <2>3. \A n \in Nat : n <= Depth(LastHash) => n <= Depth(job[t].block.hash)
    <3>1. Depth(job[t].block.hash) \in Nat
      BY <2>1, DepthFacts
    <3> QED
      BY <1>0, <2>1, <3>1
  <2> QED
    BY <2>1, <2>2, <2>3, CoveredStays
<1> QED
  <2>1. Mine(t) \/ Add(t) \/ AddMany(t) \/ Write(t)
    BY <1>1, SerialFacts DEF Next
  <2> QED
    BY <1>3, <1>4, <1>5, <1>6, <1>7, <1>8, <1>9, <2>1 DEF AddMany, Write

\* Between calls that ran to their end no stored block is higher than the tip: what
\* was taken in was adopted when it made the chain longer.
THEOREM SerialTipIsHighest ==
  ASSUME NEW t, Serial(t)
  PROVE  Spec => TipIsHighest
<1>1. IInv /\ SerialInv(t) /\ [Next]_vars =>
        [phase = "up" /\ Covered /\ ~Interrupted => Covered']_vars
  BY CoveredNext DEF vars
<1>2. Init => SerialInv(t)
  BY SerialInit
<1>3. IInv /\ SerialInv(t) /\ [Next]_vars => SerialInv(t)'
  BY SerialNext
<1> QED
  BY <1>1, <1>2, <1>3, StoreInvariant, PTL DEF Spec, TipIsHighest
=============================================================================
