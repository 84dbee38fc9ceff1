---------------------------- MODULE MCChainStore ----------------------------
(* Instances of ChainStore for TLC.                                         *)
EXTENDS ChainStore, FiniteSets

CONSTANTS root,         \* payload: the content of the genesis block
          left, right,  \* payloads of mined blocks
          t1, t2        \* goroutines

MCPayload == {root, left, right}
OneThread == {t1}
TwoThreads == {t1, t2}
BothContents == {left, right}
OneContent == {left}
None == {}

At0(h) == [hash |-> h, height |-> Depth(h)]

\* the blocks that peers of the same network have mined
Mined == {h \in Hash : RootOf(h) = Genesis /\ \A i \in 2..Len(h) : h[i] # root}

\* and blocks of a network with another genesis block
Foreign == {<<left>>, <<left, right>>}

MCIncoming == {At0(h) : h \in (Mined \ {Genesis}) \cup Foreign}

\* the blocks from the ancestor of h at position n up to h
Segment(h, n) == [i \in 1..(Len(h) - n + 1) |-> At0(Ancestor(h, n + i - 1))]

\* well-formed answers to GET_CHAIN, from the root or from a common block on;
\* the same of a foreign network; and a sequence with a block missing
MCBatches ==
    {Segment(h, n) : h \in {m \in Mined : Len(m) = MaxLen}, n \in 1..2}
    \cup {Segment(h, n) : h \in {<<left, right>>}, n \in 1..2}
    \cup {<<At0(<<root, left>>), At0(<<root, right, left>>)>>}

\* a few batches, for the instances with two threads
FewBatches ==
    {Segment(<<root, right, right>>, 1), Segment(<<root, right, right>>, 3),
     Segment(<<left, right>>, 1),
     <<At0(<<root, left>>), At0(<<root, right, left>>)>>}
OneBatch == {Segment(<<root, right, right>>, 1)}
OneIncoming == {At0(<<root, right>>)}
FewIncoming == {At0(<<root, right>>), At0(<<root, right, left>>), At0(<<left, right>>)}

=============================================================================
