------------------------------- MODULE Blocks -------------------------------
(***************************************************************************)
(* The block identities shared by the chain modules.  CalculateHash        *)
(* (block.go) digests the previous hash, the timestamp and the transaction *)
(* ids, so a hash fixes the whole path from the genesis block to the       *)
(* block: it is modelled as that path, a non-empty sequence of payloads (a *)
(* payload stands for one timestamp and transaction list).  Height is not  *)
(* digested, and so is no part of a hash.                                  *)
(***************************************************************************)
EXTENDS Integers, Sequences

CONSTANTS Payload,  \* contents a block may have
          Root,     \* the content of this network's genesis block
          MaxLen    \* bound: the longest path considered

ASSUME PayloadAssumption == Root \in Payload /\ MaxLen \in Nat \ {0}

Hash    == UNION {[1..n -> Payload] : n \in 1..MaxLen}
NoHash  == <<>>
Genesis == <<Root>>

\* PrevBlockHash of the block with hash h; NoHash (the empty string) at a root
Prev(h) == SubSeq(h, 1, Len(h) - 1)

\* the ancestor of h that sits n blocks from the root, h itself included
Ancestor(h, n) == SubSeq(h, 1, n)

\* the block that a walk along PrevBlockHash from h ends at
RootOf(h) == Ancestor(h, 1)

\* the height a block of this path ought to record
Depth(h) == Len(h) - 1

\* a walk along PrevBlockHash from h finds every block in S
Traced(S, h) == \A n \in 1..Len(h) : Ancestor(h, n) \in S

\* a block as it travels and as it is stored: its hash and recorded height
Block   == [hash : Hash, height : Nat]
NoBlock == [hash |-> NoHash, height |-> -1]
=============================================================================
