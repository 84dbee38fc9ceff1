-------------------------- MODULE ChainSyncProofs --------------------------
(***************************************************************************)
(* Proofs about ChainSync for any nodes, blocks, identities, losses and    *)
(* stops.  What makes ChainsWhole and SyncCatchesUp hold is in the         *)
(* messages: a GET_CHAIN lists the blocks of the node that asks, and a     *)
(* SEND_CHAIN carries a path up to the best block of the node that         *)
(* answers, hanging under a block of the one that asked.  No node ever     *)
(* removes a block, so both stay true however late the message arrives,    *)
(* and whatever overtakes it.  Blocks are stored from the lowest up, so a  *)
(* stop among them leaves no gap either.                                   *)
(***************************************************************************)
EXTENDS ChainSync, SequenceTheorems, WellFoundedInduction, TLAPS

-----------------------------------------------------------------------------
(* Hashes as paths                                                         *)

\* A hash is a non-empty sequence of payloads.
LEMMA HashIsPath ==
  ASSUME NEW h \in Hash
  PROVE  /\ h \in Seq(Payload)
         /\ Len(h) \in 1..MaxLen
         /\ Len(h) \in Nat \ {0}
<1>1. PICK n \in 1..MaxLen : h \in [1..n -> Payload]
  BY DEF Hash
<1>2. n \in Nat
  BY <1>1, PayloadAssumption
<1>3. h \in Seq(Payload)
  BY <1>1, <1>2, SeqDef
<1>4. Len(h) = n
  BY <1>1, <1>2, <1>3, LenProperties
<1> QED
  BY <1>1, <1>3, <1>4, PayloadAssumption

\* The empty previous hash of a root is no block's hash.
LEMMA NoHashIsNoHash == NoHash \notin Hash
<1>1. Len(NoHash) = 0
  BY DEF NoHash
<1> QED
  BY <1>1, HashIsPath

\* The genesis block's hash is a hash, with nothing before it.
LEMMA GenesisIsHash ==
  /\ Genesis \in Hash
  /\ Len(Genesis) = 1
  /\ RootOf(Genesis) = Genesis
<1>1. Genesis \in [1..1 -> Payload]
  BY PayloadAssumption DEF Genesis
<1>2. Genesis \in Hash
  BY <1>1, PayloadAssumption DEF Hash
<1>3. Len(Genesis) = 1
  BY DEF Genesis
<1>4. RootOf(Genesis) = Genesis
  BY <1>2, <1>3, HashIsPath, SubSeqFull DEF RootOf, Ancestor
<1> QED
  BY <1>2, <1>3, <1>4

\* Every ancestor of a hash is a hash.
LEMMA AncestorIsHash ==
  ASSUME NEW h \in Hash, NEW n \in 1..Len(h)
  PROVE  /\ Ancestor(h, n) \in Hash
         /\ Len(Ancestor(h, n)) = n
         /\ \A i \in 1..n : Ancestor(h, n)[i] = h[i]
<1>1. h \in Seq(Payload) /\ Len(h) \in 1..MaxLen
  BY HashIsPath
<1>2. n \in 1..MaxLen /\ \A i \in 1..n : h[i] \in Payload
  <2>1. \A i \in 1..Len(h) : h[i] \in Payload
    BY <1>1, ElementOfSeq
  <2>2. MaxLen \in Nat /\ n \in 1..MaxLen /\ 1..n \subseteq 1..Len(h)
    BY <1>1, PayloadAssumption
  <2> QED
    BY <2>1, <2>2
<1>3. /\ Ancestor(h, n) \in Seq(Payload)
      /\ Len(Ancestor(h, n)) = n
      /\ \A i \in 1..n : Ancestor(h, n)[i] = h[i]
  BY <1>2, SubSeqProperties DEF Ancestor
<1> QED
  BY <1>2, <1>3, LenProperties DEF Hash

\* The parent of a block that is not a root is a hash, and the block's
\* ancestors are its parent's and the block itself.
LEMMA ParentIsHash ==
  ASSUME NEW h \in Hash, Len(h) > 1
  PROVE  /\ Prev(h) \in Hash
         /\ Len(Prev(h)) = Len(h) - 1
         /\ \A n \in 1..(Len(h) - 1) : Ancestor(h, n) = Ancestor(Prev(h), n)
<1>1. Len(h) - 1 \in 1..Len(h) /\ Prev(h) = Ancestor(h, Len(h) - 1)
  BY HashIsPath DEF Prev, Ancestor
<1>2. /\ Prev(h) \in Hash /\ Len(Prev(h)) = Len(h) - 1
      /\ \A i \in 1..(Len(h) - 1) : Prev(h)[i] = h[i]
  BY <1>1, AncestorIsHash
<1>3. ASSUME NEW n \in 1..(Len(h) - 1)
      PROVE  Ancestor(h, n) = Ancestor(Prev(h), n)
  <2>1. n \in 1..Len(h) /\ n \in 1..Len(Prev(h))
    BY <1>2, HashIsPath
  <2>2. /\ Ancestor(h, n) \in Hash /\ Ancestor(Prev(h), n) \in Hash
        /\ Len(Ancestor(h, n)) = n /\ Len(Ancestor(Prev(h), n)) = n
        /\ \A i \in 1..n : Ancestor(h, n)[i] = Ancestor(Prev(h), n)[i]
    BY <1>2, <2>1, AncestorIsHash
  <2> QED
    BY <2>2, HashIsPath, SeqEqual
<1> QED
  BY <1>2, <1>3

\* The last ancestor of a hash is the hash itself.
LEMMA LastAncestor ==
  ASSUME NEW h \in Hash
  PROVE  Ancestor(h, Len(h)) = h
BY HashIsPath, SubSeqFull DEF Ancestor

\* A root has no parent.
LEMMA RootHasNoParent ==
  ASSUME NEW h \in Hash, Len(h) = 1
  PROVE  Prev(h) = NoHash /\ RootOf(h) = h
<1>1. SubSeq(h, 1, Len(h) - 1) = <<>>
  BY SubSeqEmpty
<1> QED
  BY <1>1, LastAncestor DEF Prev, NoHash, RootOf

\* A block made on top of h has h as its parent.
LEMMA ParentOfAppend ==
  ASSUME NEW h \in Hash, NEW p \in Payload, Append(h, p) \in Hash
  PROVE  Prev(Append(h, p)) = h
<1> DEFINE c == Append(h, p)
<1>1. /\ h \in Seq(Payload) /\ Len(h) \in Nat \ {0}
      /\ Len(c) = Len(h) + 1 /\ \A i \in 1..Len(h) : c[i] = h[i]
  BY HashIsPath
<1> HIDE DEF c
<1>2. /\ Prev(c) \in Hash /\ Len(Prev(c)) = Len(h)
      /\ \A i \in 1..Len(h) : Prev(c)[i] = c[i]
  <2>1. Len(c) - 1 \in 1..Len(c) /\ Prev(c) = Ancestor(c, Len(c) - 1)
    BY <1>1 DEF Prev, Ancestor
  <2>2. c \in Hash
    BY DEF c
  <2> QED
    BY <1>1, <2>1, <2>2, AncestorIsHash
<1>3. Prev(c) = h
  BY <1>1, <1>2, HashIsPath, SeqEqual
<1> QED
  BY <1>3 DEF c

\* A walk from a block whose parent's walk is complete is complete, and ends
\* at the same root.
LEMMA TracedThroughParent ==
  ASSUME NEW S, NEW h \in Hash, Len(h) > 1, h \in S, Traced(S, Prev(h))
  PROVE  Traced(S, h) /\ RootOf(h) = RootOf(Prev(h))
<1>1. ASSUME NEW n \in 1..Len(h) PROVE Ancestor(h, n) \in S
  <2>1. CASE n = Len(h)
    BY <2>1, LastAncestor
  <2>2. CASE n # Len(h)
    <3>1. n \in 1..(Len(h) - 1) /\ n \in 1..Len(Prev(h))
      BY <2>2, HashIsPath, ParentIsHash
    <3> QED
      BY <3>1, ParentIsHash DEF Traced
  <2> QED
    BY <2>1, <2>2
<1>2. RootOf(h) = RootOf(Prev(h))
  <2>1. 1 \in 1..(Len(h) - 1)
    BY HashIsPath
  <2> QED
    BY <2>1, ParentIsHash DEF RootOf
<1> QED
  BY <1>1, <1>2 DEF Traced

\* Storing more blocks breaks no walk.
LEMMA TracedMonotone ==
  ASSUME NEW S, NEW T, S \subseteq T, NEW h, Traced(S, h)
  PROVE  Traced(T, h)
BY DEF Traced

-----------------------------------------------------------------------------
(* The messages and what they rely on                                      *)

\* a path to best that hangs under a block of S, or begins at the root
Hanging(blocks, best, S) ==
  \E i \in 1..(Len(best) + 1) : /\ blocks = Segment(best, i)
                                /\ i > 1 => Ancestor(best, i - 1) \in S

\* a message whose hashes were those of the asking node, whose blocks hang there
GoodMsg(msg, blocksOf) ==
  /\ msg.type = "GET_CHAIN" => \E h \in blocksOf[msg.from] : msg.hashes = GetBlockHashes(h)
  /\ msg.type = "SEND_CHAIN" => /\ RootOf(msg.best) = Genesis
                                /\ Hanging(msg.blocks, msg.best, blocksOf[msg.to])

MsgsGood == \A msg \in msgs : GoodMsg(msg, stored)

IInv == TypeOK /\ ChainsWhole /\ MsgsGood

-----------------------------------------------------------------------------
(* the walks                                                               *)

\* An ancestor's ancestors are the block's own.
LEMMA AncestorOfAncestor ==
  ASSUME NEW h \in Hash, NEW n \in 1..Len(h), NEW k \in 1..n
  PROVE  Ancestor(Ancestor(h, n), k) = Ancestor(h, k)
<1>1. /\ Ancestor(h, n) \in Hash /\ Len(Ancestor(h, n)) = n
      /\ \A i \in 1..n : Ancestor(h, n)[i] = h[i]
  BY AncestorIsHash
<1>2. k \in 1..Len(h) /\ k \in Nat /\ Len(h) \in Nat
  BY HashIsPath
<1>3. /\ Ancestor(h, k) \in Hash /\ Len(Ancestor(h, k)) = k
      /\ \A i \in 1..k : Ancestor(h, k)[i] = h[i]
  BY <1>2, AncestorIsHash
<1>4. /\ Ancestor(Ancestor(h, n), k) \in Hash /\ Len(Ancestor(Ancestor(h, n), k)) = k
      /\ \A i \in 1..k : Ancestor(Ancestor(h, n), k)[i] = Ancestor(h, n)[i]
  BY <1>1, AncestorIsHash
<1>5. \A i \in 1..k : Ancestor(Ancestor(h, n), k)[i] = Ancestor(h, k)[i]
  BY <1>1, <1>2, <1>3, <1>4
<1>6. Ancestor(Ancestor(h, n), k) \in Seq(Payload) /\ Ancestor(h, k) \in Seq(Payload)
  BY <1>3, <1>4, HashIsPath
<1> QED
  BY <1>3, <1>4, <1>5, <1>6, SeqEqual

\* A block that is not a root hangs under the ancestor before it.
LEMMA PrevOfAncestor ==
  ASSUME NEW h \in Hash, NEW n \in 1..Len(h), n > 1
  PROVE  Prev(Ancestor(h, n)) = Ancestor(h, n - 1)
<1>1. Ancestor(h, n) \in Hash /\ Len(Ancestor(h, n)) = n /\ n - 1 \in 1..n
  BY AncestorIsHash
<1>2. Prev(Ancestor(h, n)) = Ancestor(Ancestor(h, n), n - 1)
  BY <1>1 DEF Prev, Ancestor
<1> QED
  BY <1>1, <1>2, AncestorOfAncestor

\* A segment is a sequence of blocks of the path.
LEMMA SegmentFacts ==
  ASSUME NEW h \in Hash, NEW i \in 1..(Len(h) + 1)
  PROVE  /\ Segment(h, i) \in Seq(Hash)
         /\ Len(Segment(h, i)) = Len(h) + 1 - i
         /\ DOMAIN Segment(h, i) = 1..(Len(h) + 1 - i)
         /\ \A j \in 1..(Len(h) + 1 - i) : Segment(h, i)[j] = Ancestor(h, i + j - 1)
<1>1. Len(h) \in Nat \ {0} /\ i \in Nat /\ Len(h) + 1 - i \in Nat
  BY HashIsPath
<1>2. /\ DOMAIN Segment(h, i) = 1..(Len(h) + 1 - i)
      /\ \A j \in 1..(Len(h) + 1 - i) : Segment(h, i)[j] = Ancestor(h, i + j - 1)
  BY DEF Segment
<1>3. \A j \in 1..(Len(h) + 1 - i) : Ancestor(h, i + j - 1) \in Hash
  <2>1. \A j \in 1..(Len(h) + 1 - i) : i + j - 1 \in 1..Len(h)
    BY <1>1
  <2> QED
    BY <2>1, AncestorIsHash
<1>4. Segment(h, i) \in [1..(Len(h) + 1 - i) -> Hash]
  BY <1>3 DEF Segment
<1>5. Segment(h, i) \in Seq(Hash)
  BY <1>1, <1>4, SeqDef
<1> QED
  BY <1>1, <1>2, <1>4, <1>5, LenProperties

\* The walk from the tip visits each of its ancestors.
LEMMA HashesFacts ==
  ASSUME NEW h \in Hash
  PROVE  /\ GetBlockHashes(h) \in Seq(Hash)
         /\ \A i \in DOMAIN GetBlockHashes(h) :
              \E n \in 1..Len(h) : GetBlockHashes(h)[i] = Ancestor(h, n)
<1>1. Len(h) \in Nat \ {0}
  BY HashIsPath
<1>2. \A i \in 1..Len(h) : Len(h) + 1 - i \in 1..Len(h)
  BY <1>1
<1>3. \A i \in 1..Len(h) : Ancestor(h, Len(h) + 1 - i) \in Hash
  BY <1>2, AncestorIsHash
<1>4. GetBlockHashes(h) \in [1..Len(h) -> Hash]
  BY <1>3 DEF GetBlockHashes
<1>5. GetBlockHashes(h) \in Seq(Hash)
  BY <1>1, <1>4, SeqDef
<1>6. \A i \in 1..Len(h) : GetBlockHashes(h)[i] = Ancestor(h, Len(h) + 1 - i)
  BY DEF GetBlockHashes
<1> QED
  BY <1>2, <1>4, <1>5, <1>6

\* A set of positions that is not empty has a first one.
LEMMA FirstPosition ==
  ASSUME NEW T, T \subseteq Nat, T # {}
  PROVE  LET i == CHOOSE i \in T : \A j \in T : i <= j IN i \in T
<1>1. \E x \in T : \A y \in T : ~ (<<y, x>> \in OpToRel(<, Nat))
  BY NatLessThanWellFounded, WFMin
<1>2. \E x \in T : \A y \in T : x <= y
  <2>1. PICK x \in T : \A y \in T : ~ (<<y, x>> \in OpToRel(<, Nat))
    BY <1>1
  <2>2. ASSUME NEW y \in T PROVE x <= y
    <3>1. x \in Nat /\ y \in Nat /\ <<y, x>> \in Nat \X Nat
      OBVIOUS
    <3>2. y < x => <<y, x>> \in OpToRel(<, Nat)
      BY <3>1 DEF OpToRel
    <3>3. ~(y < x)
      BY <2>1, <3>2, Zenon
    <3> QED
      BY <3>1, <3>3
  <2> QED
    BY <2>2
<1> QED
  BY <1>2

\* GetBlockAfter sends what hangs under start, or the whole path.
LEMMA AfterHanging ==
  ASSUME NEW h \in Hash, NEW S, NEW start \in S
  PROVE  Hanging(GetBlockAfter(h, start), h, S)
<1>1. Len(h) \in Nat \ {0}
  BY HashIsPath
<1>2. ASSUME NEW i \in 1..Len(h), Ancestor(h, i) = start
      PROVE  Hanging(GetBlockAfter(h, start), h, S)
  <2>1. Len(start) = i
    BY <1>2, AncestorIsHash
  <2>2. GetBlockAfter(h, start) = Segment(h, i + 1)
    BY <1>2, <2>1 DEF GetBlockAfter
  <2>3. i + 1 \in 1..(Len(h) + 1) /\ (i + 1) - 1 = i
    BY <1>1
  <2> QED
    BY <1>2, <2>2, <2>3 DEF Hanging
<1>3. CASE ~ \E i \in 1..Len(h) : Ancestor(h, i) = start
  <2>1. GetBlockAfter(h, start) = Segment(h, 1)
    BY <1>3 DEF GetBlockAfter, GetAllBlock
  <2>2. 1 \in 1..(Len(h) + 1) /\ ~(1 > 1)
    BY <1>1
  <2> QED
    BY <2>1, <2>2 DEF Hanging
<1> QED
  BY <1>2, <1>3

\* The answer hangs under a block of the one that asked, whatever S has of the
\* blocks that were named.
LEMMA SinceHanging ==
  ASSUME NEW h \in Hash, NEW S, NEW T, NEW hashes \in Seq(Hash),
         \A i \in DOMAIN hashes : hashes[i] \in T
  PROVE  Hanging(BlocksSince(hashes, S, h), h, T)
<1> DEFINE common == {i \in DOMAIN hashes : hashes[i] \in S}
           first == CHOOSE i \in common : \A j \in common : i <= j
<1>1. CASE common = {}
  <2>1. BlocksSince(hashes, S, h) = Segment(h, 1)
    BY <1>1 DEF BlocksSince, GetAllBlock
  <2>2. 1 \in 1..(Len(h) + 1) /\ ~(1 > 1)
    BY HashIsPath
  <2> QED
    BY <2>1, <2>2 DEF Hanging
<1>2. CASE common # {}
  <2>1. common \subseteq Nat
    <3>1. DOMAIN hashes = 1..Len(hashes) /\ Len(hashes) \in Nat
      BY LenProperties
    <3> QED
      BY <3>1
  <2>2. first \in common
    <3> HIDE DEF common
    <3> QED
      BY <1>2, <2>1, FirstPosition
  <2>3. BlocksSince(hashes, S, h) = GetBlockAfter(h, hashes[first])
    BY <1>2 DEF BlocksSince
  <2>4. hashes[first] \in T
    BY <2>2
  <2> QED
    BY <2>3, <2>4, AfterHanging
<1> QED
  BY <1>1, <1>2

\* What hangs under a block of S goes from there to its best block.
LEMMA HangingFacts ==
  ASSUME NEW best \in Hash, RootOf(best) = Genesis, NEW S, NEW blocks, Hanging(blocks, best, S)
  PROVE  /\ blocks \in Seq(Hash)
         /\ blocks = <<>> => best \in S
         /\ blocks # <<>> => /\ Len(blocks) \in Nat \ {0} /\ blocks[Len(blocks)] = best
                             /\ Prev(blocks[1]) \in S \/ blocks[1] = Genesis
         /\ \A j \in DOMAIN blocks : \E n \in 1..Len(best) : blocks[j] = Ancestor(best, n)
         /\ (\A m \in S : Traced(S, m)) =>
              \A j \in DOMAIN blocks : \A k \in 1..Len(blocks[j]) :
                 Ancestor(best, k) \in S \cup UpTo(blocks, j)
<1>1. PICK i \in 1..(Len(best) + 1) : /\ blocks = Segment(best, i)
                                      /\ i > 1 => Ancestor(best, i - 1) \in S
  BY DEF Hanging
<1>2. Len(best) \in Nat \ {0} /\ i \in Nat \ {0}
  BY HashIsPath
<1>3. /\ blocks \in Seq(Hash) /\ Len(blocks) = Len(best) + 1 - i
      /\ DOMAIN blocks = 1..(Len(best) + 1 - i)
      /\ \A j \in 1..(Len(best) + 1 - i) : blocks[j] = Ancestor(best, i + j - 1)
  BY <1>1, SegmentFacts, Zenon
<1>4. blocks = <<>> => best \in S
  <2> SUFFICES ASSUME blocks = <<>> PROVE best \in S
    OBVIOUS
  <2>1. Len(blocks) = 0
    BY EmptySeq
  <2>2. i = Len(best) + 1 /\ i > 1 /\ i - 1 = Len(best)
    BY <1>2, <1>3, <2>1
  <2>3. Ancestor(best, i - 1) \in S
    BY <1>1, <2>2, Zenon
  <2> QED
    BY <2>2, <2>3, LastAncestor
<1>5. ASSUME blocks # <<>>
      PROVE  /\ Len(blocks) \in Nat \ {0} /\ blocks[Len(blocks)] = best
             /\ Prev(blocks[1]) \in S \/ blocks[1] = Genesis
  <2>1. Len(blocks) \in Nat \ {0} /\ i \in 1..Len(best)
    BY <1>2, <1>3, <1>5, EmptySeq
  <2>2. blocks[Len(blocks)] = Ancestor(best, Len(best))
    <3>1. Len(blocks) \in 1..(Len(best) + 1 - i) /\ i + Len(blocks) - 1 = Len(best)
      BY <1>2, <1>3, <2>1
    <3> QED
      BY <1>3, <3>1
  <2>3. blocks[1] = Ancestor(best, i)
    <3>1. 1 \in 1..(Len(best) + 1 - i) /\ i + 1 - 1 = i
      BY <1>2, <2>1
    <3> QED
      BY <1>3, <3>1
  <2>4. CASE i = 1
    BY <2>1, <2>2, <2>3, <2>4, LastAncestor DEF RootOf
  <2>5. CASE i # 1
    <3>1. i > 1 /\ Prev(Ancestor(best, i)) = Ancestor(best, i - 1)
      BY <1>2, <2>1, <2>5, PrevOfAncestor
    <3>2. Ancestor(best, i - 1) \in S
      BY <1>1, <3>1, Zenon
    <3> QED
      BY <2>1, <2>2, <2>3, <3>1, <3>2, LastAncestor
  <2> QED
    BY <2>4, <2>5
<1>6. ASSUME NEW j \in DOMAIN blocks
      PROVE  \E n \in 1..Len(best) : blocks[j] = Ancestor(best, n)
  <2>1. i + j - 1 \in 1..Len(best)
    BY <1>2, <1>3
  <2> QED
    BY <1>3, <2>1
<1>7. ASSUME NEW j \in DOMAIN blocks, NEW k \in 1..Len(blocks[j]), \A m \in S : Traced(S, m)
      PROVE  Ancestor(best, k) \in S \cup UpTo(blocks, j)
  <2>1. i + j - 1 \in 1..Len(best) /\ blocks[j] = Ancestor(best, i + j - 1)
    BY <1>2, <1>3
  <2>2. k \in 1..(i + j - 1) /\ k \in 1..Len(best)
    BY <1>2, <2>1, AncestorIsHash
  <2>3. CASE k >= i
    <3>1. k + 1 - i \in DOMAIN blocks /\ k + 1 - i \in 1..j /\ i + (k + 1 - i) - 1 = k
      BY <1>2, <1>3, <2>2, <2>3
    <3>2. blocks[k + 1 - i] = Ancestor(best, k)
      BY <1>3, <3>1
    <3> QED
      BY <3>1, <3>2 DEF UpTo
  <2>4. CASE k < i
    <3>1. i > 1 /\ i - 1 \in 1..Len(best) /\ k \in 1..(i - 1)
      BY <1>2, <2>2, <2>4
    <3>2. Ancestor(best, i - 1) \in S
      BY <1>1, <3>1, Zenon
    <3>3. Len(Ancestor(best, i - 1)) = i - 1
      BY <3>1, AncestorIsHash
    <3>4. Ancestor(Ancestor(best, i - 1), k) \in S
      BY <1>7, <3>1, <3>2, <3>3 DEF Traced
    <3> QED
      BY <3>1, <3>4, AncestorOfAncestor
  <2> QED
    BY <1>2, <2>2, <2>3, <2>4
<1> QED
  BY <1>3, <1>4, <1>5, <1>6, <1>7

-----------------------------------------------------------------------------
(* one node's blocks                                                       *)

\* ChainsWhole for blocks S with tip t, and for a node that is not torn
Whole(S, t) ==
  /\ \A h \in S : Traced(S, h) /\ RootOf(h) = Genesis
  /\ t \in S

Highest(S, t) == \A h \in S : Len(h) <= Len(t)

\* A block on top of the tip leaves the node's blocks whole, before the tip
\* moves and after.
LEMMA ExtendWhole ==
  ASSUME NEW S, S \subseteq Hash, NEW t, Whole(S, t), NEW b \in Hash, Prev(b) = t
  PROVE  /\ Whole(S \cup {b}, t) /\ Whole(S \cup {b}, b)
         /\ Highest(S, t) => Highest(S \cup {b}, b)
<1> DEFINE T == S \cup {b}
<1>1. t \in Hash /\ Len(b) \in Nat \ {0} /\ Len(t) \in Nat \ {0}
  BY HashIsPath DEF Whole
<1>2. Len(b) > 1
  <2>1. Len(b) # 1
    BY <1>1, RootHasNoParent, NoHashIsNoHash, Zenon
  <2>2. \A k \in Nat \ {0} : k # 1 => k > 1
    OBVIOUS
  <2> QED
    BY <1>1, <2>1, <2>2, Zenon
<1>3. Len(b) = Len(t) + 1
  BY <1>1, <1>2, ParentIsHash
<1>4. \A h \in S : Traced(T, h) /\ RootOf(h) = Genesis
  BY TracedMonotone DEF Whole
<1>5. Traced(T, b) /\ RootOf(b) = Genesis
  <2>1. Traced(T, Prev(b)) /\ RootOf(Prev(b)) = Genesis
    BY <1>4 DEF Whole
  <2> QED
    BY <1>2, <2>1, TracedThroughParent
<1>6. ASSUME Highest(S, t) PROVE Highest(T, b)
  <2>1. \A h \in S : Len(h) \in Nat /\ Len(h) <= Len(t)
    BY <1>6, HashIsPath DEF Highest
  <2> QED
    BY <1>1, <1>3, <2>1 DEF Highest
<1> QED
  BY <1>4, <1>5, <1>6 DEF Whole

\* So do the blocks of an answer, wherever their storing is cut short.
LEMMA StoreWhole ==
  ASSUME NEW S, S \subseteq Hash, NEW t, Whole(S, t), NEW best \in Hash,
         RootOf(best) = Genesis, NEW blocks, Hanging(blocks, best, S),
         NEW i \in DOMAIN blocks
  PROVE  S \cup UpTo(blocks, i) \subseteq Hash /\ Whole(S \cup UpTo(blocks, i), t)
<1> DEFINE T == S \cup UpTo(blocks, i)
<1>1. blocks \in Seq(Hash)
  BY HangingFacts
<1>2. DOMAIN blocks = 1..Len(blocks) /\ Len(blocks) \in Nat
  BY <1>1, LenProperties
<1>3. \A j \in DOMAIN blocks : blocks[j] \in Hash
  BY <1>1, <1>2, ElementOfSeq
<1>4. 1..i \subseteq DOMAIN blocks
  BY <1>2
<1>5. T \subseteq Hash
  BY <1>3, <1>4 DEF UpTo
<1>6. \A h \in S : Traced(T, h) /\ RootOf(h) = Genesis
  BY TracedMonotone DEF Whole
<1>7. ASSUME NEW j \in 1..i PROVE Traced(T, blocks[j]) /\ RootOf(blocks[j]) = Genesis
  <2>1. j \in DOMAIN blocks /\ UpTo(blocks, j) \subseteq UpTo(blocks, i)
    <3>1. 1..j \subseteq 1..i
      BY <1>2, <1>4
    <3> QED
      BY <1>4, <3>1 DEF UpTo
  <2>2. PICK n \in 1..Len(best) : blocks[j] = Ancestor(best, n)
    BY <2>1, HangingFacts
  <2>3. Len(blocks[j]) = n /\ n \in Nat \ {0}
    BY <2>2, AncestorIsHash
  <2>4. \A k \in 1..n : Ancestor(blocks[j], k) = Ancestor(best, k)
    BY <2>2, AncestorOfAncestor
  <2>5. \A k \in 1..n : Ancestor(best, k) \in T
    <3>1. \A m \in S : Traced(S, m)
      BY DEF Whole
    <3>2. \A k \in 1..Len(blocks[j]) : Ancestor(best, k) \in S \cup UpTo(blocks, j)
      BY <2>1, <3>1, HangingFacts
    <3> QED
      BY <2>1, <2>3, <3>2
  <2>6. RootOf(blocks[j]) = RootOf(best)
    BY <2>3, <2>4 DEF RootOf
  <2> HIDE DEF T
  <2> QED
    BY <2>3, <2>4, <2>5, <2>6 DEF Traced
<1>8. \A h \in T : Traced(T, h) /\ RootOf(h) = Genesis
  <2> HIDE DEF T
  <2>1. \A h \in T : h \in S \/ \E j \in 1..i : h = blocks[j]
    BY DEF T, UpTo
  <2> QED
    BY <1>6, <1>7, <2>1
<1> QED
  BY <1>5, <1>8 DEF Whole

\* The tip moves to the best block of an answer when that is new and higher.
LEMMA AdoptBest ==
  ASSUME NEW S, S \subseteq Hash, NEW t, Whole(S, t), NEW best \in Hash,
         RootOf(best) = Genesis, NEW blocks, blocks # <<>>, Hanging(blocks, best, S)
  PROVE  Adopt(blocks, S, t) = IF best \notin S /\ Len(best) > Len(t) THEN best ELSE t
<1> DEFINE higher == {blocks[i] : i \in {j \in DOMAIN blocks :
                                            blocks[j] \notin S /\ Len(blocks[j]) > Len(t)}}
<1>1. Len(blocks) \in DOMAIN blocks /\ blocks[Len(blocks)] = best
  <2>1. blocks \in Seq(Hash) /\ Len(blocks) \in Nat \ {0} /\ blocks[Len(blocks)] = best
    BY HangingFacts
  <2> QED
    BY <2>1, LenProperties
<1>2. \A j \in DOMAIN blocks : \E n \in 1..Len(best) : blocks[j] = Ancestor(best, n)
  BY HangingFacts
<1>3. Len(best) \in Nat /\ Len(t) \in Nat
  BY HashIsPath DEF Whole
<1>4. \A c \in higher : /\ c \notin S /\ Len(c) > Len(t)
                        /\ \E n \in 1..Len(best) : c = Ancestor(best, n)
  BY <1>2
<1>5. \A c \in higher : /\ Len(c) \in 1..Len(best)
                        /\ Len(c) = Len(best) => c = best
  <2>1. ASSUME NEW c \in higher
        PROVE  Len(c) \in 1..Len(best) /\ (Len(c) = Len(best) => c = best)
    <3>1. PICK n \in 1..Len(best) : c = Ancestor(best, n)
      BY <1>4
    <3>2. Len(c) = n
      BY <3>1, AncestorIsHash
    <3> QED
      BY <3>1, <3>2, LastAncestor
  <2> HIDE DEF higher
  <2> QED
    BY <2>1
<1>6. CASE best \notin S /\ Len(best) > Len(t)
  <2>1. best \in higher
    BY <1>1, <1>6
  <2> HIDE DEF higher
  <2>2. \A c \in higher : Len(c) <= Len(best)
    BY <1>3, <1>5
  <2>3. \A b \in higher : (\A c \in higher : Len(c) <= Len(b)) => b = best
    <3>1. ASSUME NEW b \in higher, \A c \in higher : Len(c) <= Len(b) PROVE b = best
      <4>1. Len(best) <= Len(b) /\ Len(b) \in 1..Len(best)
        BY <1>5, <2>1, <3>1
      <4>2. Len(b) = Len(best)
        BY <1>3, <4>1
      <4> QED
        BY <1>5, <4>2
    <3> QED
      BY <3>1
  <2>4. (CHOOSE b \in higher : \A c \in higher : Len(c) <= Len(b)) = best
    BY <2>1, <2>2, <2>3
  <2>5. Adopt(blocks, S, t) = CHOOSE b \in higher : \A c \in higher : Len(c) <= Len(b)
    BY <2>1 DEF Adopt, higher
  <2> QED
    BY <1>6, <2>4, <2>5
<1>7. CASE ~(best \notin S /\ Len(best) > Len(t))
  <2>1. higher = {}
    <3>1. CASE best \in S
      <4>1. Traced(S, best)
        BY <3>1 DEF Whole
      <4>2. \A n \in 1..Len(best) : Ancestor(best, n) \in S
        BY <4>1 DEF Traced
      <4> HIDE DEF higher
      <4> QED
        BY <1>4, <4>2
    <3>2. CASE ~(Len(best) > Len(t))
      <4> HIDE DEF higher
      <4>1. ASSUME NEW c \in higher PROVE FALSE
        <5>1. Len(c) > Len(t) /\ Len(c) \in 1..Len(best)
          BY <1>4, <1>5
        <5> QED
          BY <1>3, <3>2, <5>1
      <4> QED
        BY <4>1
    <3> QED
      BY <1>7, <3>1, <3>2
  <2>2. Adopt(blocks, S, t) = t
    BY <2>1 DEF Adopt
  <2> QED
    BY <1>7, <2>2
<1> QED
  BY <1>6, <1>7

\* The blocks of an answer leave the node's blocks whole, and when the tip was
\* a highest block it is one again, as high as the answer's best block.
LEMMA AbsorbWhole ==
  ASSUME NEW S, S \subseteq Hash, NEW t, Whole(S, t), NEW best \in Hash,
         RootOf(best) = Genesis, NEW blocks, blocks # <<>>, Hanging(blocks, best, S)
  PROVE  LET T == S \cup UpTo(blocks, Len(blocks)) IN
           /\ T \subseteq Hash
           /\ Whole(T, Adopt(blocks, S, t))
           /\ Highest(S, t) => /\ Highest(T, Adopt(blocks, S, t))
                               /\ Len(Adopt(blocks, S, t)) >= Len(best)
<1> DEFINE T == S \cup UpTo(blocks, Len(blocks))
<1>1. /\ DOMAIN blocks = 1..Len(blocks) /\ Len(blocks) \in DOMAIN blocks
      /\ blocks[Len(blocks)] = best
  <2>1. blocks \in Seq(Hash) /\ Len(blocks) \in Nat \ {0} /\ blocks[Len(blocks)] = best
    BY HangingFacts
  <2> QED
    BY <2>1, LenProperties
<1>2. T \subseteq Hash /\ Whole(T, t)
  BY <1>1, StoreWhole
<1>3. best \in T
  BY <1>1 DEF UpTo
<1>4. Adopt(blocks, S, t) \in {best, t}
  BY AdoptBest
<1>5. Whole(T, Adopt(blocks, S, t))
  <2> HIDE DEF T
  <2> QED
    BY <1>2, <1>3, <1>4 DEF Whole
<1>6. ASSUME Highest(S, t)
      PROVE  /\ Highest(T, Adopt(blocks, S, t))
             /\ Len(Adopt(blocks, S, t)) >= Len(best)
  <2>1. Len(t) \in Nat /\ Len(best) \in Nat /\ t \in S
    BY HashIsPath DEF Whole
  <2>2. \A h \in S : Len(h) \in Nat /\ Len(h) <= Len(t)
    BY <1>6, HashIsPath DEF Highest
  <2>3. \A h \in UpTo(blocks, Len(blocks)) : Len(h) \in Nat /\ Len(h) <= Len(best)
    <3>1. \A j \in DOMAIN blocks : \E n \in 1..Len(best) : blocks[j] = Ancestor(best, n)
      BY HangingFacts
    <3>2. \A n \in 1..Len(best) : Len(Ancestor(best, n)) = n /\ n \in Nat /\ n <= Len(best)
      BY <2>1, AncestorIsHash
    <3> QED
      BY <1>1, <3>1, <3>2 DEF UpTo
  <2>4. CASE best \notin S /\ Len(best) > Len(t)
    <3>1. Adopt(blocks, S, t) = best
      BY <2>4, AdoptBest
    <3>2. \A h \in T : Len(h) <= Len(best)
      BY <2>1, <2>2, <2>3, <2>4
    <3> QED
      BY <2>1, <3>1, <3>2 DEF Highest
  <2>5. CASE ~(best \notin S /\ Len(best) > Len(t))
    <3>1. Adopt(blocks, S, t) = t
      BY <2>5, AdoptBest
    <3>2. Len(best) <= Len(t)
      BY <2>1, <2>2, <2>5
    <3>3. \A h \in T : Len(h) <= Len(t)
      BY <2>1, <2>2, <2>3, <3>2
    <3> QED
      BY <2>1, <3>1, <3>2, <3>3 DEF Highest
  <2> QED
    BY <2>4, <2>5
<1> QED
  BY <1>2, <1>5, <1>6

-----------------------------------------------------------------------------
(* the steps                                                               *)

\* What a message says of a node's blocks stays true when the node has more.
LEMMA GoodGrows ==
  ASSUME TypeOK, NEW msg \in msgs, GoodMsg(msg, stored),
         \A n \in Nodes : stored[n] \subseteq stored'[n]
  PROVE  GoodMsg(msg, stored')
<1>1. ASSUME msg.type = "GET_CHAIN"
      PROVE  \E h \in stored'[msg.from] : msg.hashes = GetBlockHashes(h)
  <2>1. msg.from \in Nodes
    BY <1>1 DEF TypeOK, NewBlock, GetChain, SendChain, Identity
  <2>2. \E h \in stored[msg.from] : msg.hashes = GetBlockHashes(h)
    BY <1>1 DEF GoodMsg
  <2> QED
    BY <2>1, <2>2
<1>2. ASSUME msg.type = "SEND_CHAIN"
      PROVE  RootOf(msg.best) = Genesis /\ Hanging(msg.blocks, msg.best, stored'[msg.to])
  <2>1. msg.to \in Nodes
    BY <1>2 DEF TypeOK, NewBlock, GetChain, SendChain, Identity
  <2>2. RootOf(msg.best) = Genesis /\ Hanging(msg.blocks, msg.best, stored[msg.to])
    BY <1>2 DEF GoodMsg
  <2>3. stored[msg.to] \subseteq stored'[msg.to]
    BY <2>1
  <2> QED
    BY <2>2, <2>3, Zenon DEF Hanging
<1> QED
  BY <1>1, <1>2 DEF GoodMsg

\* The messages in flight stay good when good ones are added and blocks are not
\* removed.
LEMMA MsgsStep ==
  ASSUME IInv, NEW new, msgs' \subseteq msgs \cup new,
         \A msg \in new : GoodMsg(msg, stored'),
         \A n \in Nodes : stored[n] \subseteq stored'[n]
  PROVE  MsgsGood'
<1> SUFFICES ASSUME NEW msg \in msgs' PROVE GoodMsg(msg, stored')
  BY DEF MsgsGood
<1>1. CASE msg \in new
  BY <1>1
<1>2. CASE msg \in msgs
  BY <1>2, GoodGrows DEF IInv, MsgsGood
<1> QED
  BY <1>1, <1>2

\* Nor does it matter which of them are gone.
LEMMA MsgsFewer ==
  ASSUME IInv, msgs' \subseteq msgs, \A n \in Nodes : stored[n] \subseteq stored'[n]
  PROVE  MsgsGood'
<1> DEFINE new == {}
<1>1. msgs' \subseteq msgs \cup new /\ \A msg \in new : GoodMsg(msg, stored')
  OBVIOUS
<1> HIDE DEF new
<1> QED
  BY <1>1, MsgsStep

\* The blocks of all nodes stay whole when one node's do.
LEMMA ChainStep ==
  ASSUME IInv, NEW n \in Nodes, NEW S \in SUBSET Hash, NEW t, Whole(S, t), stored[n] \subseteq S,
         stored' = [stored EXCEPT ![n] = S], tip' = [tip EXCEPT ![n] = t],
         torn \subseteq torn', torn' \subseteq Nodes, n \notin torn' => Highest(S, t)
  PROVE  /\ stored' \in [Nodes -> SUBSET Hash] /\ tip' \in [Nodes -> Hash] /\ torn' \subseteq Nodes
         /\ ChainsWhole'
         /\ \A m \in Nodes : stored[m] \subseteq stored'[m]
<1>1. t \in Hash
  BY DEF Whole
<1>2. stored' \in [Nodes -> SUBSET Hash] /\ tip' \in [Nodes -> Hash]
  BY <1>1 DEF IInv, TypeOK
<1>3. \A m \in Nodes : IF m = n THEN stored'[m] = S /\ tip'[m] = t
                                ELSE stored'[m] = stored[m] /\ tip'[m] = tip[m]
  BY DEF IInv, TypeOK
<1>4. \A m \in Nodes : Whole(stored[m], tip[m]) /\ (m \notin torn => Highest(stored[m], tip[m]))
  BY DEF IInv, ChainsWhole, Whole, Highest
<1>5. \A m \in Nodes : Whole(stored'[m], tip'[m]) /\ (m \notin torn' => Highest(stored'[m], tip'[m]))
  BY <1>3, <1>4
<1>6. ChainsWhole'
  BY <1>5, Zenon DEF ChainsWhole, Whole, Highest
<1> QED
  BY <1>2, <1>3, <1>6

\* What ChainsWhole says of one node.
LEMMA NodeWhole ==
  ASSUME IInv, NEW n \in Nodes
  PROVE  /\ stored[n] \subseteq Hash /\ Whole(stored[n], tip[n])
         /\ n \notin torn => Highest(stored[n], tip[n])
BY DEF IInv, TypeOK, ChainsWhole, Whole, Highest

\* A path with one more content is a hash.
LEMMA AppendIsHash ==
  ASSUME NEW h \in Hash, NEW p \in Payload, Len(Append(h, p)) <= MaxLen
  PROVE  Append(h, p) \in Hash
<1>1. /\ h \in Seq(Payload) /\ Append(h, p) \in Seq(Payload) /\ Len(h) \in Nat
      /\ Len(Append(h, p)) = Len(h) + 1
  BY HashIsPath
<1>2. Len(Append(h, p)) \in 1..MaxLen
  BY <1>1, PayloadAssumption
<1>3. Append(h, p) \in [1..Len(Append(h, p)) -> Payload]
  BY <1>1, LenProperties
<1> QED
  BY <1>2, <1>3 DEF Hash

\* Each node has the genesis block and nothing else; nothing is in flight.
LEMMA InitInv == Init => IInv
<1> SUFFICES ASSUME Init PROVE IInv
  OBVIOUS
<1>1. TypeOK
  BY GenesisIsHash, SyncAssumption DEF Init, TypeOK, Orgs
<1>2. Whole({Genesis}, Genesis)
  <2>1. Len(Genesis) = 1 /\ Ancestor(Genesis, 1) = Genesis /\ RootOf(Genesis) = Genesis
    BY GenesisIsHash DEF RootOf
  <2>2. \A n \in 1..Len(Genesis) : Ancestor(Genesis, n) \in {Genesis}
    <3>1. \A n \in 1..1 : n = 1
      OBVIOUS
    <3> QED
      BY <2>1, <3>1, Zenon
  <2> QED
    BY <2>1, <2>2, Zenon DEF Whole, Traced
<1>3. Highest({Genesis}, Genesis)
  <2>1. Len(Genesis) <= Len(Genesis)
    BY GenesisIsHash
  <2> QED
    BY <2>1, Zenon DEF Highest
<1>4. ChainsWhole
  BY <1>2, <1>3, Zenon DEF Init, ChainsWhole, Whole, Highest
<1> QED
  BY <1>1, <1>4 DEF Init, IInv, MsgsGood

\* A step that leaves the chains alone leaves them whole.
LEMMA ChainsSame ==
  ASSUME IInv, UNCHANGED chains
  PROVE  /\ stored' \in [Nodes -> SUBSET Hash] /\ tip' \in [Nodes -> Hash] /\ torn' \subseteq Nodes
         /\ ChainsWhole'
         /\ \A n \in Nodes : stored[n] \subseteq stored'[n]
BY DEF IInv, TypeOK, ChainsWhole, chains

\* A block that is saved on top of the tip.
LEMMA SaveOnTop ==
  ASSUME IInv, NEW n \in Nodes, NEW b \in Hash, Prev(b) = tip[n], Save(n, {b}, b)
  PROVE  /\ stored' \in [Nodes -> SUBSET Hash] /\ tip' \in [Nodes -> Hash] /\ torn' \subseteq Nodes
         /\ ChainsWhole'
         /\ \A m \in Nodes : stored[m] \subseteq stored'[m]
<1> DEFINE S == stored[n] \cup {b}
<1>1. stored' = [stored EXCEPT ![n] = S] /\ tip' = [tip EXCEPT ![n] = b] /\ torn' = torn
  BY DEF Save
<1>2. S \subseteq Hash /\ Whole(S, b) /\ (n \notin torn => Highest(S, b))
  BY NodeWhole, ExtendWhole
<1>3. stored[n] \subseteq S /\ torn \subseteq Nodes
  BY DEF IInv, TypeOK
<1> HIDE DEF S
<1> QED
  BY <1>1, <1>2, <1>3, ChainStep

\* What a node mines is a block on top of its tip.
LEMMA MinedOnTop ==
  ASSUME IInv, NEW n \in Nodes, NEW p \in Payload, Mines(n, p)
  PROVE  Mined(n, p) \in Hash /\ Prev(Mined(n, p)) = tip[n]
<1>1. tip[n] \in Hash /\ Len(Append(tip[n], p)) <= MaxLen
  BY DEF Mines, Mined, IInv, TypeOK
<1> QED
  BY <1>1, AppendIsHash, ParentOfAppend DEF Mined

\* AddAndCheckMine: a block on top of the tip.
LEMMA MineInv == ASSUME IInv, NEW n \in Nodes, NEW p \in Payload, Mine(n, p) PROVE IInv'
<1> DEFINE b == Mined(n, p)
           new == {[type |-> "NEW_BLOCK", to |-> m, block |-> b] : m \in Peers(n)}
<1>1. b \in Hash /\ Prev(b) = tip[n]
  BY MinedOnTop DEF Mine
<1>2. Save(n, {b}, b) /\ msgs' = msgs \cup new
  BY DEF Mine
<1> HIDE DEF b
<1>3. /\ stored' \in [Nodes -> SUBSET Hash] /\ tip' \in [Nodes -> Hash] /\ torn' \subseteq Nodes
      /\ ChainsWhole' /\ \A m \in Nodes : stored[m] \subseteq stored'[m]
  BY <1>1, <1>2, SaveOnTop
<1>4. new \subseteq NewBlock
  <2>1. \A m \in Peers(n) : m \in Nodes
    BY DEF Peers
  <2>2. \A m \in Nodes : [type |-> "NEW_BLOCK", to |-> m, block |-> b] \in NewBlock
    BY <1>1 DEF NewBlock
  <2> QED
    BY <2>1, <2>2
<1>5. \A msg \in new : GoodMsg(msg, stored')
  BY DEF GoodMsg
<1>6. MsgsGood'
  <2> HIDE DEF new
  <2> QED
    BY <1>2, <1>3, <1>5, MsgsStep
<1>7. TypeOK'
  BY <1>2, <1>3, <1>4 DEF Mine, IInv, TypeOK, mesh, identities
<1> QED
  BY <1>3, <1>6, <1>7 DEF IInv

\* Receiving NEW_BLOCK: a permitted block on top of the tip, or nothing.
LEMMA ReceiveBlockInv == ASSUME IInv, NEW msg \in msgs, ReceiveBlock(msg) PROVE IInv'
<1>1. msg.to \in Nodes /\ msg.block \in Hash
  BY DEF ReceiveBlock, IInv, TypeOK, NewBlock, GetChain, SendChain, Identity
<1>2. /\ stored' \in [Nodes -> SUBSET Hash] /\ tip' \in [Nodes -> Hash] /\ torn' \subseteq Nodes
      /\ ChainsWhole' /\ \A m \in Nodes : stored[m] \subseteq stored'[m]
  <2>1. CASE UNCHANGED chains
    BY <2>1, ChainsSame
  <2>2. CASE Takes(msg.to, msg.block) /\ Save(msg.to, {msg.block}, msg.block)
    BY <1>1, <2>2, SaveOnTop DEF Takes
  <2> QED
    BY <2>1, <2>2 DEF ReceiveBlock
<1>3. MsgsGood'
  BY <1>2, MsgsFewer DEF ReceiveBlock
<1>4. TypeOK'
  BY <1>2 DEF ReceiveBlock, IInv, TypeOK, mesh, identities
<1> QED
  BY <1>2, <1>3, <1>4 DEF IInv

\* What an answer to a GET_CHAIN carries hangs under a block of its node.
LEMMA AnswerHangs ==
  ASSUME IInv, NEW msg \in msgs, msg.type = "SEND_CHAIN"
  PROVE  /\ msg.to \in Nodes /\ msg.best \in Hash /\ RootOf(msg.best) = Genesis
         /\ Hanging(msg.blocks, msg.best, stored[msg.to])
<1>1. msg.to \in Nodes /\ msg.best \in Hash
  BY DEF IInv, TypeOK, NewBlock, GetChain, SendChain, Identity
<1> QED
  BY <1>1 DEF IInv, MsgsGood, GoodMsg

\* What the answer brings its node, if that permits its blocks.
LEMMA AnswerAdds ==
  ASSUME IInv, NEW msg \in msgs, msg.type = "SEND_CHAIN"
  PROVE  /\ msg.to \in Nodes /\ msg.best \in Hash
         /\ msg.blocks = <<>> => msg.best \in stored[msg.to]
         /\ msg.blocks # <<>> =>
              LET S == stored[msg.to] \cup UpTo(msg.blocks, Len(msg.blocks))
                  t == Adopt(msg.blocks, stored[msg.to], tip[msg.to]) IN
                /\ S \subseteq Hash /\ Whole(S, t)
                /\ msg.to \notin torn => Highest(S, t) /\ Len(t) >= Len(msg.best)
                /\ Prev(msg.blocks[1]) \in stored[msg.to] \/ msg.blocks[1] = Genesis
<1> DEFINE n == msg.to
           best == msg.best
           blocks == msg.blocks
<1>1. n \in Nodes /\ best \in Hash /\ RootOf(best) = Genesis /\ Hanging(blocks, best, stored[n])
  BY AnswerHangs
<1> HIDE DEF n, best, blocks
<1>2. /\ stored[n] \subseteq Hash /\ Whole(stored[n], tip[n])
      /\ n \notin torn => Highest(stored[n], tip[n])
  BY <1>1, NodeWhole
<1>3. /\ blocks = <<>> => best \in stored[n]
      /\ blocks # <<>> => Prev(blocks[1]) \in stored[n] \/ blocks[1] = Genesis
  BY <1>1, HangingFacts
<1>4. blocks # <<>> =>
        LET S == stored[n] \cup UpTo(blocks, Len(blocks))
            t == Adopt(blocks, stored[n], tip[n]) IN
          /\ S \subseteq Hash /\ Whole(S, t)
          /\ n \notin torn => Highest(S, t) /\ Len(t) >= Len(best)
  BY <1>1, <1>2, AbsorbWhole
<1> USE DEF n, best, blocks
<1> QED
  BY <1>1, <1>3, <1>4, Zenon

\* Receiving SEND_CHAIN: the blocks of an answer, or nothing.
LEMMA ReceiveChainInv == ASSUME IInv, NEW msg \in msgs, ReceiveChain(msg) PROVE IInv'
<1> DEFINE n == msg.to
           S == stored[n] \cup UpTo(msg.blocks, Len(msg.blocks))
           t == Adopt(msg.blocks, stored[n], tip[n])
<1>1. msg.type = "SEND_CHAIN" /\ msg.to \in Nodes
  BY AnswerAdds DEF ReceiveChain
<1>2. /\ stored' \in [Nodes -> SUBSET Hash] /\ tip' \in [Nodes -> Hash] /\ torn' \subseteq Nodes
      /\ ChainsWhole' /\ \A m \in Nodes : stored[m] \subseteq stored'[m]
  <2>1. CASE UNCHANGED chains
    BY <2>1, ChainsSame
  <2>2. CASE msg.blocks # <<>> /\ Save(n, UpTo(msg.blocks, Len(msg.blocks)), t)
    <3>1. S \subseteq Hash /\ Whole(S, t) /\ (n \notin torn => Highest(S, t))
      BY <1>1, <2>2, AnswerAdds, Zenon
    <3>2. stored[n] \subseteq S /\ torn \subseteq Nodes
      BY DEF IInv, TypeOK
    <3>3. stored' = [stored EXCEPT ![n] = S] /\ tip' = [tip EXCEPT ![n] = t] /\ torn' = torn
      BY <2>2 DEF Save
    <3> HIDE DEF S, t
    <3> QED
      BY <1>1, <3>1, <3>2, <3>3, ChainStep
  <2> QED
    BY <2>1, <2>2 DEF ReceiveChain, Absorbs
<1>3. MsgsGood'
  BY <1>2, MsgsFewer DEF ReceiveChain
<1>4. TypeOK'
  BY <1>2 DEF ReceiveChain, IInv, TypeOK, mesh, identities
<1> QED
  BY <1>2, <1>3, <1>4 DEF IInv

-----------------------------------------------------------------------------
(* the stops                                                               *)

\* A stop takes connections and messages away, and its node dials again.
LEMMA DownKeeps ==
  ASSUME IInv, NEW n \in Nodes, Down(n)
  PROVE  /\ msgs' \subseteq msgs /\ known' \in [Nodes -> SUBSET Orgs]
         /\ stops' \in 0..MaxStops /\ linked' \subseteq Nodes \X Nodes
         /\ dialing' \subseteq Dials \cup Approvals
         /\ approving' \subseteq Approvals /\ greeting' \subseteq Nodes
<1>1. known' \in [Nodes -> SUBSET Orgs]
  BY DEF Down, IInv, TypeOK, Orgs
<1>2. stops' \in 0..MaxStops
  BY SyncAssumption DEF Down, IInv, TypeOK
<1> QED
  BY <1>1, <1>2 DEF Down, IInv, TypeOK

\* A stop between two handlers.
LEMMA RestartInv == ASSUME IInv, NEW n \in Nodes, Restart(n) PROVE IInv'
<1>1. UNCHANGED chains /\ Down(n)
  BY DEF Restart
<1>2. MsgsGood'
  BY <1>1, DownKeeps, ChainsSame, MsgsFewer
<1>3. TypeOK'
  BY <1>1, DownKeeps, ChainsSame DEF IInv, TypeOK
<1> QED
  BY <1>1, <1>2, <1>3, ChainsSame DEF IInv

\* A stop after blocks were written that keep the node's blocks whole: either
\* none of them is above the tip, or the node is torn.
LEMMA CutShortInv ==
  ASSUME IInv, NEW n \in Nodes, NEW S, S \subseteq Hash, Whole(stored[n] \cup S, tip[n]),
         CutShort(n, S)
  PROVE  IInv'
<1> DEFINE T == stored[n] \cup S
<1>1. /\ stored' = [stored EXCEPT ![n] = T] /\ tip' = tip /\ Down(n)
      /\ torn' = torn \cup {m \in {n} : \E b \in S \ stored[n] : Len(b) > Len(tip[n])}
  BY DEF CutShort
<1>2. stored[n] \subseteq Hash /\ (n \notin torn => Highest(stored[n], tip[n]))
  BY NodeWhole
<1>3. torn \subseteq torn' /\ torn' \subseteq Nodes
  BY <1>1 DEF IInv, TypeOK
<1>4. n \notin torn' => Highest(T, tip[n])
  <2> SUFFICES ASSUME n \notin torn', NEW h \in T PROVE Len(h) <= Len(tip[n])
    BY DEF Highest
  <2>1. CASE h \in stored[n]
    BY <1>2, <1>3, <2>1 DEF Highest
  <2>2. CASE h \in S \ stored[n]
    <3>1. ~(Len(h) > Len(tip[n]))
      BY <1>1, <2>2
    <3>2. Len(h) \in Nat /\ Len(tip[n]) \in Nat
      BY <2>2, HashIsPath DEF IInv, TypeOK
    <3> QED
      BY <3>1, <3>2
  <2> QED
    BY <2>1, <2>2
<1>5. tip' = [tip EXCEPT ![n] = tip[n]]
  BY <1>1 DEF IInv, TypeOK
<1>6. T \in SUBSET Hash /\ stored[n] \subseteq T
  BY <1>2
<1>7. /\ stored' \in [Nodes -> SUBSET Hash] /\ tip' \in [Nodes -> Hash] /\ torn' \subseteq Nodes
      /\ ChainsWhole' /\ \A m \in Nodes : stored[m] \subseteq stored'[m]
  <2> HIDE DEF T
  <2>1. Whole(T, tip[n])
    BY DEF T
  <2> QED
    BY <1>1, <1>3, <1>4, <1>5, <1>6, <2>1, ChainStep
<1>8. MsgsGood'
  BY <1>1, <1>7, DownKeeps, MsgsFewer
<1>9. TypeOK'
  BY <1>1, <1>7, DownKeeps DEF IInv, TypeOK
<1> QED
  BY <1>7, <1>8, <1>9 DEF IInv

\* A stop in MineBlock, in AddBlock or in AddBlocks.
LEMMA StopsInv ==
  ASSUME IInv,
         \/ \E n \in Nodes, p \in Payload : StopMining(n, p)
         \/ \E msg \in msgs : StopAdding(msg) \/ StopAbsorbing(msg)
  PROVE  IInv'
<1>1. ASSUME NEW n \in Nodes, NEW b \in Hash, Prev(b) = tip[n], CutShort(n, {b}) PROVE IInv'
  <2>1. Whole(stored[n] \cup {b}, tip[n])
    BY <1>1, NodeWhole, ExtendWhole
  <2> QED
    BY <1>1, <2>1, CutShortInv
<1>2. ASSUME NEW n \in Nodes, NEW p \in Payload, StopMining(n, p) PROVE IInv'
  BY <1>1, <1>2, MinedOnTop DEF StopMining
<1>3. ASSUME NEW msg \in msgs, StopAdding(msg) PROVE IInv'
  <2>1. msg.to \in Nodes /\ msg.block \in Hash
    BY <1>3 DEF StopAdding, IInv, TypeOK, NewBlock, GetChain, SendChain, Identity
  <2> QED
    BY <1>1, <1>3, <2>1 DEF StopAdding, Takes
<1>4. ASSUME NEW msg \in msgs, StopAbsorbing(msg) PROVE IInv'
  <2>1. PICK i \in DOMAIN msg.blocks : CutShort(msg.to, UpTo(msg.blocks, i))
    BY <1>4 DEF StopAbsorbing
  <2>2. /\ msg.to \in Nodes /\ msg.best \in Hash /\ RootOf(msg.best) = Genesis
        /\ Hanging(msg.blocks, msg.best, stored[msg.to])
    BY <1>4, AnswerHangs DEF StopAbsorbing
  <2>3. stored[msg.to] \subseteq Hash /\ Whole(stored[msg.to], tip[msg.to])
    BY <2>2, NodeWhole
  <2>4. /\ stored[msg.to] \cup UpTo(msg.blocks, i) \subseteq Hash
        /\ Whole(stored[msg.to] \cup UpTo(msg.blocks, i), tip[msg.to])
    BY <2>2, <2>3, StoreWhole
  <2> QED
    BY <2>1, <2>2, <2>4, CutShortInv
<1> QED
  BY <1>2, <1>3, <1>4

\* A node asks for a chain with its own hashes.
LEMMA AskGood ==
  ASSUME IInv, NEW n \in Nodes, NEW m \in Nodes, Ask(n, m), UNCHANGED chains
  PROVE  msgs' \subseteq NewBlock \cup GetChain \cup SendChain \cup Identity /\ MsgsGood'
<1> DEFINE ask == [type |-> "GET_CHAIN", from |-> n, to |-> m, hashes |-> GetBlockHashes(tip[n])]
<1>1. tip[n] \in Hash /\ tip[n] \in stored[n] /\ stored' = stored
  BY DEF IInv, TypeOK, ChainsWhole, chains
<1>2. ask \in GetChain
  BY <1>1, HashesFacts DEF GetChain
<1>3. GoodMsg(ask, stored')
  BY <1>1 DEF GoodMsg
<1>4. msgs' = msgs \cup {ask}
  BY DEF Ask
<1> HIDE DEF ask
<1>5. msgs' \subseteq NewBlock \cup GetChain \cup SendChain \cup Identity
  BY <1>2, <1>4 DEF IInv, TypeOK
<1> DEFINE new == {ask}
<1>6. msgs' \subseteq msgs \cup new /\ \A msg \in new : GoodMsg(msg, stored')
  BY <1>3, <1>4
<1> HIDE DEF new
<1>7. \A k \in Nodes : stored[k] \subseteq stored'[k]
  BY <1>1
<1> QED
  BY <1>5, <1>6, <1>7, MsgsStep

\* Dialling and approving: the links change, and chains are asked for.
LEMMA LinkInv ==
  ASSUME IInv, NEW n \in Nodes, NEW m \in Nodes, Connect(n, m) \/ Approve(n, m)
  PROVE  IInv'
<1>1. UNCHANGED chains
  BY DEF Connect, Dial, DialNot, Approve
<1>2. CASE Dial(n, m)
  <2>1. msgs' \subseteq NewBlock \cup GetChain \cup SendChain \cup Identity /\ MsgsGood'
    BY <1>1, <1>2, AskGood DEF Dial
  <2> QED
    BY <1>1, <1>2, <2>1, ChainsSame DEF Dial, IInv, TypeOK, identities
<1>3. CASE DialNot(n, m)
  BY <1>1, <1>3, ChainsSame, MsgsFewer DEF DialNot, IInv, TypeOK, identities
<1>4. CASE Approve(n, m)
  <2>1. CASE UNCHANGED msgs
    <3>1. MsgsGood'
      BY <1>1, <2>1, ChainsSame, MsgsFewer
    <3>2. linked' \subseteq linked \cup {<<n, m>>}
      BY <1>4 DEF Approve
    <3> QED
      BY <1>1, <1>4, <2>1, <3>1, <3>2, ChainsSame DEF Approve, IInv, TypeOK, identities
  <2>2. ASSUME NEW x \in Peers(n) \cup {m}, Ask(n, x) PROVE IInv'
    <3>1. x \in Nodes
      BY DEF Peers
    <3>2. msgs' \subseteq NewBlock \cup GetChain \cup SendChain \cup Identity /\ MsgsGood'
      BY <1>1, <2>2, <3>1, AskGood
    <3>3. linked' \subseteq linked \cup {<<n, m>>}
      BY <1>4 DEF Approve
    <3> QED
      BY <1>1, <1>4, <3>2, <3>3, ChainsSame DEF Approve, IInv, TypeOK, identities
  <2> QED
    BY <1>4, <2>1, <2>2 DEF Approve
<1> QED
  BY <1>2, <1>3, <1>4 DEF Connect

\* Answering GET_CHAIN: the blocks after one that the asking node has.
LEMMA AnswerInv == ASSUME IInv, NEW msg \in msgs, Answer(msg) PROVE IInv'
<1> DEFINE m == msg.to
           n == msg.from
           blocks == BlocksSince(msg.hashes, stored[m], tip[m])
           reply == [type |-> "SEND_CHAIN", to |-> n, best |-> tip[m], blocks |-> blocks]
<1>1. m \in Nodes /\ n \in Nodes /\ msg.hashes \in Seq(Hash)
  BY DEF Answer, IInv, TypeOK, NewBlock, GetChain, SendChain, Identity
<1>2. tip[m] \in Hash /\ RootOf(tip[m]) = Genesis
  BY <1>1 DEF IInv, TypeOK, ChainsWhole
<1>3. \A i \in DOMAIN msg.hashes : msg.hashes[i] \in stored[n]
  <2>1. PICK h \in stored[n] : msg.hashes = GetBlockHashes(h)
    BY DEF Answer, IInv, MsgsGood, GoodMsg
  <2>2. h \in Hash /\ Traced(stored[n], h)
    BY <1>1 DEF IInv, TypeOK, ChainsWhole
  <2>3. \A k \in 1..Len(h) : Ancestor(h, k) \in stored[n]
    BY <2>2 DEF Traced
  <2> QED
    BY <2>1, <2>2, <2>3, HashesFacts
<1>4. Hanging(blocks, tip[m], stored[n])
  BY <1>1, <1>2, <1>3, SinceHanging
<1>5. blocks \in Seq(Hash)
  BY <1>2, <1>4, HangingFacts
<1>6. UNCHANGED chains /\ msgs' \subseteq msgs \cup {reply}
  BY DEF Answer
<1> HIDE DEF blocks
<1>7. reply \in SendChain /\ GoodMsg(reply, stored)
  BY <1>1, <1>2, <1>4, <1>5 DEF SendChain, GoodMsg
<1> HIDE DEF reply
<1>8. MsgsGood'
  <2> DEFINE new == {reply}
  <2>1. msgs' \subseteq msgs \cup new /\ \A answer \in new : GoodMsg(answer, stored')
    BY <1>6, <1>7 DEF chains
  <2> HIDE DEF new
  <2>2. \A k \in Nodes : stored[k] \subseteq stored'[k]
    BY <1>6, ChainsSame
  <2> QED
    BY <2>1, <2>2, MsgsStep
<1>9. msgs' \subseteq NewBlock \cup GetChain \cup SendChain \cup Identity
  BY <1>6, <1>7 DEF IInv, TypeOK
<1> QED
  BY <1>1, <1>6, <1>8, <1>9, ChainsSame DEF Answer, IInv, TypeOK, identities

\* Identities and losses leave the chains and what is left in flight.
LEMMA OthersInv ==
  ASSUME IInv,
         \/ \E n \in Nodes : Greet(n)
         \/ \E msg \in msgs : ReceiveIdentity(msg) \/ Lose(msg)
  PROVE  IInv'
<1>1. CASE \E n \in Nodes : Greet(n)
  <2>1. PICK n \in Nodes : Greet(n)
    BY <1>1
  <2> DEFINE new == {[type |-> "IDENTITY", to |-> m, org |-> Org[n]] : m \in Peers(n)}
  <2>2. new \subseteq Identity
    <3>1. \A m \in Peers(n) : m \in Nodes
      BY DEF Peers
    <3>2. \A m \in Nodes : [type |-> "IDENTITY", to |-> m, org |-> Org[n]] \in Identity
      BY DEF Identity, Orgs
    <3> QED
      BY <3>1, <3>2
  <2>3. \A msg \in new : GoodMsg(msg, stored')
    BY DEF GoodMsg
  <2>4. msgs' = msgs \cup new /\ UNCHANGED chains
    BY <2>1 DEF Greet
  <2> HIDE DEF new
  <2>5. \A k \in Nodes : stored[k] \subseteq stored'[k]
    BY <2>4, ChainsSame
  <2>6. MsgsGood'
    BY <2>3, <2>4, <2>5, MsgsStep
  <2>7. TypeOK'
    BY <2>1, <2>2, <2>4, ChainsSame DEF Greet, IInv, TypeOK, mesh
  <2> QED
    BY <2>4, <2>6, <2>7, ChainsSame DEF IInv
<1>2. ASSUME NEW msg \in msgs, ReceiveIdentity(msg) PROVE IInv'
  <2>1. UNCHANGED chains /\ msgs' \subseteq msgs
    BY <1>2 DEF ReceiveIdentity
  <2>2. msg.to \in Nodes /\ msg.org \in Orgs
    BY <1>2 DEF ReceiveIdentity, IInv, TypeOK, NewBlock, GetChain, SendChain, Identity
  <2>3. TypeOK'
    BY <1>2, <2>1, <2>2, ChainsSame DEF ReceiveIdentity, IInv, TypeOK, mesh
  <2> QED
    BY <2>1, <2>3, ChainsSame, MsgsFewer DEF IInv
<1>3. ASSUME NEW msg \in msgs, Lose(msg) PROVE IInv'
  <2>1. UNCHANGED chains /\ msgs' \subseteq msgs
    BY <1>3 DEF Lose
  <2>2. TypeOK'
    BY <1>3, <2>1, ChainsSame DEF Lose, IInv, TypeOK, mesh, identities
  <2> QED
    BY <2>1, <2>2, ChainsSame, MsgsFewer DEF IInv
<1> QED
  BY <1>1, <1>2, <1>3

\* Every step keeps the invariant.
LEMMA NextInv == IInv /\ [Next]_vars => IInv'
<1> SUFFICES ASSUME IInv, [Next]_vars PROVE IInv'
  OBVIOUS
<1>1. CASE UNCHANGED vars
  BY <1>1 DEF vars, IInv, TypeOK, ChainsWhole, MsgsGood
<1>2. CASE Next
  BY <1>2, MineInv, LinkInv, ReceiveBlockInv, AnswerInv, ReceiveChainInv, OthersInv,
     RestartInv, StopsInv DEF Next, Receive
<1> QED
  BY <1>1, <1>2

\* The invariant the properties below follow from.
THEOREM SyncInvariant == Spec => []IInv
BY InitInv, NextInv, PTL DEF Spec

\* Every node has a tree of blocks without gaps, and a highest one as its tip
\* unless it stopped after a block was written and before "lh" was.
THEOREM ChainsAlwaysWhole == Spec => []ChainsWhole
<1>1. IInv => ChainsWhole
  BY DEF IInv
<1> QED
  BY <1>1, SyncInvariant, PTL

\* The variables of the nodes and the messages keep their types.
THEOREM SyncTypeCorrect == Spec => []TypeOK
<1>1. IInv => TypeOK
  BY DEF IInv
<1> QED
  BY <1>1, SyncInvariant, PTL

\* The answer to a GET_CHAIN makes a node as high as the one that answered, when
\* it permits the blocks and never stopped before "lh" was written: there is
\* always a block of its own that they hang under.
THEOREM AlwaysCatchesUp == Spec => SyncCatchesUp
<1>1. ASSUME IInv, NEW msg \in msgs, ReceiveChain(msg), msg.to \notin torn,
             \A i \in DOMAIN msg.blocks : Permitted(msg.to, msg.blocks[i])
      PROVE  Len(tip'[msg.to]) >= Len(msg.best)
  <2>1. msg.type = "SEND_CHAIN"
    BY <1>1 DEF ReceiveChain
  <2>2. msg.to \in Nodes /\ msg.best \in Hash
    BY <1>1, <2>1, AnswerAdds, Zenon
  <2>3. CASE msg.blocks = <<>>
    <3>1. msg.best \in stored[msg.to] /\ UNCHANGED chains
      BY <1>1, <2>1, <2>3, AnswerAdds DEF ReceiveChain, Absorbs
    <3>2. /\ Len(msg.best) <= Len(tip[msg.to]) /\ tip' = tip
          /\ Len(msg.best) \in Nat /\ tip[msg.to] \in Hash
      BY <1>1, <2>2, <3>1, HashIsPath DEF chains, IInv, ChainsWhole, TypeOK
    <3>3. Len(tip[msg.to]) \in Nat
      BY <3>2, HashIsPath
    <3> QED
      BY <3>2, <3>3
  <2>4. CASE msg.blocks # <<>>
    <3>1. /\ Prev(msg.blocks[1]) \in stored[msg.to] \/ msg.blocks[1] = Genesis
          /\ Len(Adopt(msg.blocks, stored[msg.to], tip[msg.to])) >= Len(msg.best)
      BY <1>1, <2>1, <2>4, AnswerAdds, Zenon
    <3>2. tip' = [tip EXCEPT ![msg.to] = Adopt(msg.blocks, stored[msg.to], tip[msg.to])]
      BY <1>1, <2>4, <3>1 DEF ReceiveChain, Absorbs, Save
    <3> QED
      BY <1>1, <2>2, <3>1, <3>2 DEF IInv, TypeOK
  <2> QED
    BY <2>3, <2>4
<1>2. IInv /\ [Next]_vars =>
        [\A msg \in msgs :
           ReceiveChain(msg) =>
             \/ msg.to \in torn
             \/ \E i \in DOMAIN msg.blocks : ~Permitted(msg.to, msg.blocks[i])
             \/ Len(tip'[msg.to]) >= Len(msg.best)]_vars
  BY <1>1
<1> QED
  BY <1>2, SyncInvariant, PTL DEF Spec, SyncCatchesUp
=============================================================================
