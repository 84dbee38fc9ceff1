----------------------------- MODULE ChainSync -----------------------------
(***************************************************************************)
(* How the chains of several nodes meet: mined blocks are announced with   *)
(* NEW_BLOCK to the peers of the miner, and a node that dials another asks *)
(* it once, with GET_CHAIN, for what it lacks (handler.go, p2p.go, and the *)
(* walks GetBlockHashes, GetAllBlock and GetBlockAfter of chain.go).  A    *)
(* node takes no block with a transaction whose signer has no permission   *)
(* here, and it learns of the permissions of others by IDENTITY, which     *)
(* each node sends once after its start (identity.go).  All nodes of an    *)
(* organization, and its users, share one key.                             *)
(*                                                                         *)
(* A handler is one step here, unless the node stops between its writes of *)
(* blocks and of "lh": what the steps of one node may do to each other is  *)
(* ChainStore's subject, and how connections come about is PeerMesh's.     *)
(* Every Send runs in a goroutine of its own or in a ReadLoop of its own,  *)
(* so messages overtake each other, also on one connection.  Blocks are    *)
(* named by their paths, as in Blocks.                                     *)
(***************************************************************************)
EXTENDS Blocks, FiniteSets

CONSTANTS Nodes,
          Own,        \* the contents of the blocks that each node mines
          Dials,      \* <<n, m>>: m is configured as a peer of n
          Approvals,  \* <<n, m>>: n may approve the join request of m
          Org,        \* the organization of each node, whose key it has
          Signer,     \* the organization whose key signed a content
          Paced,      \* are blocks mined only when no message is under way?
          Prompt,     \* are the configured links up when IDENTITY is sent?
          Losses,     \* may a message be lost with its connection?
          Stoppers,   \* nodes that may stop and start again
          MaxStops    \* bound: how often they do

ASSUME SyncAssumption ==
    /\ Own \in [Nodes -> SUBSET (Payload \ {Root})]
    /\ \A n, m \in Nodes : n # m => Own[n] \cap Own[m] = {}
    /\ Stoppers \subseteq Nodes
    /\ Dials \subseteq Nodes \X Nodes /\ Approvals \subseteq Nodes \X Nodes
    /\ DOMAIN Org = Nodes /\ DOMAIN Signer = Payload \ {Root}
    /\ Paced \in BOOLEAN /\ Prompt \in BOOLEAN /\ Losses \in BOOLEAN
    /\ MaxStops \in Nat

VARIABLES stored,    \* each node's blocks
          tip,       \* each node's LastHash
          linked,    \* <<n, m>>: m is in the Peers map of n
          dialing,   \* the dials of connectWithRetry that are not done
          approving, \* the approvals that may still be given
          known,     \* the organizations in each node's PublicKeyPeers
          greeting,  \* the nodes whose sendIdentity sleeps
          msgs,      \* the messages in flight
          stops,     \* how many stops there were
          torn       \* (history) nodes that stopped before "lh" was written

vars == <<stored, tip, linked, dialing, approving, known, greeting, msgs, stops, torn>>
chains == <<stored, tip, torn>>
mesh == <<linked, dialing, approving, stops>>
identities == <<known, greeting>>

Orgs == {Org[n] : n \in Nodes}

NewBlock == [type : {"NEW_BLOCK"}, to : Nodes, block : Hash]
GetChain == [type : {"GET_CHAIN"}, from : Nodes, to : Nodes, hashes : Seq(Hash)]
\* best (history): the tip of the node that sent the blocks
SendChain == [type : {"SEND_CHAIN"}, to : Nodes, blocks : Seq(Hash), best : Hash]
Identity == [type : {"IDENTITY"}, to : Nodes, org : Orgs]

TypeOK ==
    /\ stored \in [Nodes -> SUBSET Hash]
    /\ tip \in [Nodes -> Hash]
    /\ linked \subseteq Nodes \X Nodes
    /\ dialing \subseteq Dials \cup Approvals
    /\ approving \subseteq Approvals
    /\ known \in [Nodes -> SUBSET Orgs]
    /\ greeting \subseteq Nodes
    /\ msgs \subseteq NewBlock \cup GetChain \cup SendChain \cup Identity
    /\ stops \in 0..MaxStops
    /\ torn \subseteq Nodes

Init ==
    /\ stored = [n \in Nodes |-> {Genesis}]
    /\ tip = [n \in Nodes |-> Genesis]
    /\ linked = {}
    /\ dialing = Dials
    /\ approving = Approvals
    /\ known = [n \in Nodes |-> {Org[n]}]
    /\ greeting = Nodes
    /\ msgs = {}
    /\ stops = 0
    /\ torn = {}

-----------------------------------------------------------------------------
\* the answers of a walk along PrevBlockHash from h

\* GetBlockHashes: from the tip to the genesis block
GetBlockHashes(h) == [i \in 1..Len(h) |-> Ancestor(h, Len(h) + 1 - i)]

\* the blocks of the path to h from position i on
Segment(h, i) == [j \in 1..(Len(h) + 1 - i) |-> Ancestor(h, i + j - 1)]

GetAllBlock(h) == Segment(h, 1)

\* mutant: the common block counts as one of those that follow it
GetBlockFrom(h, start) ==
    IF \E i \in 1..Len(h) : Ancestor(h, i) = start THEN Segment(h, Len(start) + 2)
                                                  ELSE GetAllBlock(h)

\* GetBlockAfter: the walk stops at start, or at the genesis block when start
\* is not on the path
GetBlockAfter(h, start) ==
    IF \E i \in 1..Len(h) : Ancestor(h, i) = start THEN Segment(h, Len(start) + 1)
                                                  ELSE GetAllBlock(h)

\* the blocks up to h after the first of the hashes that is in S
BlocksSince(hashes, S, h) ==
    LET common == {i \in DOMAIN hashes : hashes[i] \in S} IN
      IF common = {} THEN GetAllBlock(h)
      ELSE GetBlockAfter(h, hashes[CHOOSE i \in common : \A j \in common : i <= j])

-----------------------------------------------------------------------------
Peers(n) == {m \in Nodes : <<n, m>> \in linked}

\* nothing is in flight, and node n has sent its IDENTITY
Quiet(n) == msgs = {} /\ n \notin greeting

\* ExecuteOnly finds a permission for the sender of every transaction of block
\* b at node n; the genesis block has none that is executed
Permitted(n, b) == b # Genesis => Signer[b[Len(b)]] \in known[n]

\* node n adds blocks S, and takes t as its tip
Save(n, S, t) ==
    /\ stored' = [stored EXCEPT ![n] = @ \cup S]
    /\ tip' = [tip EXCEPT ![n] = t]
    /\ UNCHANGED torn

\* what node n would mine of content p, and when MineBlock does not skip it
Mined(n, p) == Append(tip[n], p)
Mines(n, p) ==
    /\ p \in Own[n] /\ (Paced => Quiet(n))
    /\ Len(Mined(n, p)) <= MaxLen /\ Mined(n, p) \notin stored[n]

\* AddAndCheckMine: MineBlock, then NEW_BLOCK to every peer.  A transaction
\* that came by gossip needs no permission here.
Mine(n, p) ==
    /\ Mines(n, p)
    /\ Save(n, {Mined(n, p)}, Mined(n, p))
    /\ msgs' = msgs \cup
         {[type |-> "NEW_BLOCK", to |-> m, block |-> Mined(n, p)] : m \in Peers(n)}
    /\ UNCHANGED <<mesh, identities>>

\* mutant: a block that is higher than the tip is taken as the tip
TakesHigher(n, b) == Permitted(n, b) /\ b \notin stored[n] /\ Len(b) > Len(tip[n])

\* AddBlock takes a block on top of the tip and no other
Takes(n, b) == Permitted(n, b) /\ b \notin stored[n] /\ Prev(b) = tip[n]

\* NEW_BLOCK
ReceiveBlock(msg) ==
    /\ msg.type = "NEW_BLOCK"
    /\ IF Takes(msg.to, msg.block) THEN Save(msg.to, {msg.block}, msg.block)
                                   ELSE UNCHANGED chains
    /\ msgs' = msgs \ {msg}
    /\ UNCHANGED <<mesh, identities>>

Ask(n, m) ==
    msgs' = msgs \cup {[type |-> "GET_CHAIN", from |-> n, to |-> m,
                        hashes |-> GetBlockHashes(tip[n])]}

\* connectWithRetry: a node dials another, registers it and asks it
Dial(n, m) ==
    /\ <<n, m>> \in dialing
    /\ linked' = linked \cup {<<n, m>>}
    /\ dialing' = dialing \ {<<n, m>>}
    /\ Ask(n, m)
    /\ UNCHANGED <<chains, approving, stops, identities>>

\* the other one dialled first: HasPeer ends the goroutine, and nothing is sent
DialNot(n, m) ==
    /\ <<n, m>> \in dialing /\ <<n, m>> \in linked
    /\ dialing' = dialing \ {<<n, m>>}
    /\ UNCHANGED <<chains, linked, approving, msgs, stops, identities>>

\* APPROVE: ConnectAndSync dials the new peer, and asks the first of all peers
\* to which it can send
Approve(n, m) ==
    /\ <<n, m>> \in approving
    /\ approving' = approving \ {<<n, m>>}
    /\ IF <<n, m>> \in linked THEN UNCHANGED <<linked, msgs>>
       ELSE /\ linked' = linked \cup {<<n, m>>}
            /\ \E x \in Peers(n) \cup {m} : Ask(n, x)
    /\ UNCHANGED <<chains, dialing, stops, identities>>

\* sendIdentity: once, to the peers there are by then
Greet(n) ==
    /\ n \in greeting
    /\ Prompt => \A d \in Dials : n \in {d[1], d[2]} => {d, <<d[2], d[1]>>} \subseteq linked
    /\ greeting' = greeting \ {n}
    /\ msgs' = msgs \cup {[type |-> "IDENTITY", to |-> m, org |-> Org[n]] : m \in Peers(n)}
    /\ UNCHANGED <<chains, mesh, known>>

\* IDENTITY
ReceiveIdentity(msg) ==
    /\ msg.type = "IDENTITY"
    /\ known' = [known EXCEPT ![msg.to] = @ \cup {msg.org}]
    /\ msgs' = msgs \ {msg}
    /\ UNCHANGED <<chains, mesh, greeting>>

\* GET_CHAIN registers the sender and answers from the first of the hashes that
\* is stored here, on the branch of the tip or not
Answer(msg) ==
    LET m == msg.to IN
      /\ msg.type = "GET_CHAIN"
      /\ msgs' = (msgs \ {msg}) \cup
           {[type |-> "SEND_CHAIN", to |-> msg.from, best |-> tip[m],
             blocks |-> BlocksSince(msg.hashes, stored[m], tip[m])]}
      /\ linked' = linked \cup {<<m, msg.from>>}
      /\ UNCHANGED <<chains, dialing, approving, stops, identities>>


\* the highest block that was not among S yet, when it is higher than tip h
Adopt(blocks, S, h) ==
    LET higher == {blocks[i] : i \in {j \in DOMAIN blocks :
                                        blocks[j] \notin S /\ Len(blocks[j]) > Len(h)}} IN
      IF higher = {} THEN h
      ELSE CHOOSE b \in higher : \A c \in higher : Len(c) <= Len(b)

\* SEND_CHAIN takes all blocks or, for one that is not permitted, none;
\* AddBlocks takes those that hang under a stored one
Absorbs(n, blocks) ==
    /\ blocks # <<>>
    /\ \A i \in DOMAIN blocks : Permitted(n, blocks[i])
    /\ Prev(blocks[1]) \in stored[n] \/ blocks[1] = Genesis

\* the first i of the blocks
UpTo(blocks, i) == {blocks[j] : j \in 1..i}

\* SEND_CHAIN: the blocks are stored, and the tip moves to the highest new one
ReceiveChain(msg) ==
    LET n == msg.to IN
      /\ msg.type = "SEND_CHAIN"
      /\ IF Absorbs(n, msg.blocks)
         THEN Save(n, UpTo(msg.blocks, Len(msg.blocks)), Adopt(msg.blocks, stored[n], tip[n]))
         ELSE UNCHANGED chains
      /\ msgs' = msgs \ {msg}
      /\ UNCHANGED <<mesh, identities>>

-----------------------------------------------------------------------------
Lose(msg) ==
    /\ Losses
    /\ msgs' = msgs \ {msg}
    /\ UNCHANGED <<chains, mesh, identities>>

\* a node stops, and starts again with its blocks and its own identity: it dials
\* the peers that are configured or were approved and stored, while the others'
\* goroutines are done
Down(n) ==
    /\ n \in Stoppers /\ stops < MaxStops
    /\ stops' = stops + 1
    /\ linked' = {l \in linked : n \notin {l[1], l[2]}}
    /\ dialing' = dialing \cup {d \in Dials \cup (Approvals \ approving) : d[1] = n}
    /\ known' = [known EXCEPT ![n] = {Org[n]}]
    /\ greeting' = greeting \cup {n}
    /\ msgs' = {msg \in msgs : msg.to # n /\ (msg.type = "GET_CHAIN" => msg.from # n)}
    /\ UNCHANGED approving

\* between two handlers
Restart(n) == Down(n) /\ UNCHANGED chains

\* after blocks S are written and before "lh" is
CutShort(n, S) ==
    /\ stored' = [stored EXCEPT ![n] = @ \cup S]
    /\ UNCHANGED tip
    /\ torn' = torn \cup {m \in {n} : \E b \in S \ stored[n] : Len(b) > Len(tip[n])}
    /\ Down(n)

\* in MineBlock, in AddBlock and in AddBlocks
StopMining(n, p) == Mines(n, p) /\ CutShort(n, {Mined(n, p)})

StopAdding(msg) ==
    /\ msg.type = "NEW_BLOCK" /\ Takes(msg.to, msg.block)
    /\ CutShort(msg.to, {msg.block})

StopAbsorbing(msg) ==
    /\ msg.type = "SEND_CHAIN" /\ Absorbs(msg.to, msg.blocks)
    /\ \E i \in DOMAIN msg.blocks : CutShort(msg.to, UpTo(msg.blocks, i))

-----------------------------------------------------------------------------
Receive(msg) ==
    ReceiveBlock(msg) \/ Answer(msg) \/ ReceiveChain(msg) \/ ReceiveIdentity(msg)

Connect(n, m) == Dial(n, m) \/ DialNot(n, m)

Next ==
    \/ \E n \in Nodes, p \in Payload : Mine(n, p) \/ StopMining(n, p)
    \/ \E n, m \in Nodes : Connect(n, m) \/ Approve(n, m)
    \/ \E msg \in msgs : Receive(msg) \/ Lose(msg) \/ StopAdding(msg) \/ StopAbsorbing(msg)
    \/ \E n \in Nodes : Greet(n) \/ Restart(n)

Spec == Init /\ [][Next]_vars

\* Dials are retried until they succeed, sendIdentity wakes up, and what is in
\* flight arrives.  Nothing makes a node mine, or an operator approve.
Fairness ==
    /\ \A n, m \in Nodes : WF_vars(Connect(n, m))
    /\ \A n \in Nodes : WF_vars(Greet(n))
    /\ WF_vars(\E msg \in msgs : Receive(msg))

FairSpec == Spec /\ Fairness

-----------------------------------------------------------------------------
(* properties                                                              *)

\* Every node's blocks form a tree without gaps under the one genesis block,
\* wherever it stopped, and its tip is a highest of them unless the node stopped
\* after a block was written and before "lh" was (chain.go:83, 117, 195).
ChainsWhole ==
    \A n \in Nodes :
        /\ \A h \in stored[n] : Traced(stored[n], h) /\ RootOf(h) = Genesis
        /\ tip[n] \in stored[n]
        /\ n \notin torn => \A h \in stored[n] : Len(h) <= Len(tip[n])

\* Whatever both nodes did meanwhile, a node that receives the answer to its
\* GET_CHAIN, and has met the signers of its blocks, is then as high as the node
\* that answered was; unless it stopped before "lh" was written, so that blocks
\* above its tip are skipped as known (chain.go:192).
SyncCatchesUp ==
    [][\A msg \in msgs :
          ReceiveChain(msg) =>
              \/ msg.to \in torn
              \/ \E i \in DOMAIN msg.blocks : ~Permitted(msg.to, msg.blocks[i])
              \/ Len(tip'[msg.to]) >= Len(msg.best)]_vars

\* README.md:9: "Nodes communicate and synchronize blocks [...] across a
\* distributed network".  Nodes that dial each other end up on one chain.
Converges == \A d \in Dials : <>[](tip[d[1]] = tip[d[2]])


\* message.go:8: "New peer requests data".  A node that a peer has approved
\* and dialled ends up no lower than that peer was then.
NewPeerCatchesUp ==
    \A d \in Approvals : \A h \in Hash :
        (tip[d[1]] = h /\ d \notin approving) ~> (Len(tip[d[2]]) >= Len(h))

\* p2p.go:366: "Late-joining peers still get it via retry-triggered sync below".
\* A peer that a node reaches, however late, comes to know its identity.
LatePeersLearn ==
    \A d \in Dials : (d \notin dialing) ~> (Org[d[1]] \in known[d[2]])
=============================================================================
