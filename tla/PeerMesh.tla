------------------------------ MODULE PeerMesh ------------------------------
(***************************************************************************)
(* Who is connected to whom: the peer registry of every node               *)
(* (internal/server/p2p.go), the goroutines that dial the configured and   *)
(* the approved peers, and the ReadLoop of each end of a connection        *)
(* (internal/server/peer.go).  The one message that matters here is        *)
(* GET_CHAIN, since its handler registers an inbound connection.           *)
(*                                                                         *)
(* A node knows another by a key: the endpoint it was configured with or   *)
(* that came in GET_CHAIN, but for a connection it dialled itself the      *)
(* connection's RemoteAddr.  The two agree when endpoints are literal      *)
(* addresses and differ when they are host names, as the generated         *)
(* configurations have them: constant Literal.  Nodes start and stop in    *)
(* any order, connections break, and what is in flight may be lost then.   *)
(***************************************************************************)
EXTENDS Naturals, FiniteSets

CONSTANTS Nodes,
          Lists,      \* <<n, m>>: config.yaml of n lists m among its peers
          Approvals,  \* <<n, m>>: the owner of n may approve a request of m
          Literal,    \* are endpoints literal addresses?
          Conns,      \* bound: the connections of a behaviour
          MaxOnce,    \* bound: the ConnectAndSyncs to one peer under way at once
          MaxFaults   \* bound: how many stops and broken connections

ASSUME MeshAssumption ==
    /\ Lists \subseteq Nodes \X Nodes
    /\ Approvals \subseteq Nodes \X Nodes
    /\ Literal \in BOOLEAN
    /\ IsFiniteSet(Conns)
    /\ MaxOnce \in Nat
    /\ MaxFaults \in Nat

VARIABLES up,      \* the nodes whose listener is open
          conn,    \* the connections dialled so far, by their number
          peers,   \* each node's Peers map: key to connection
          dialer,  \* the goroutines that dial
          faults   \* how many stops and broken connections there were

vars == <<up, conn, peers, dialer, faults>>

Name(n) == <<"name", n>>
RemoteAddr(n) == IF Literal THEN Name(n) ELSE <<"addr", n>>
NoKey == <<"none", "none">>
Key == {Name(n) : n \in Nodes} \cup {RemoteAddr(n) : n \in Nodes} \cup {NoKey}

\* "from" dialled "to".  "open" are the sides that have not closed it (and for
\* which it has not broken), "reading" those with a ReadLoop, "key" is each
\* side's Peer.Endpoint, "registered" and "closing" are the sides that
\* registered it and that are about to close it, "asked" those whose GET_CHAIN
\* is in flight.
Conn == [from : Nodes, to : Nodes, open : SUBSET Nodes, key : [Nodes -> Key],
         reading : SUBSET Nodes, registered : SUBSET Nodes,
         closing : SUBSET Nodes, asked : SUBSET Nodes]

\* Goroutine <<n, m, 0>> is connectWithRetry of n for m, and <<n, m, i>> with
\* i > 0 a ConnectAndSync that an approval started: any number of them beside
\* each other, up to the bound.
Dials == Nodes \X Nodes \X (0..MaxOnce)

\* connectWithRetry looks for the peer ("retry"), dials it ("dial") and sends
\* it a GET_CHAIN ("sync"); ConnectAndSync likewise, to any peer
Dialer == [at : {"off", "retry", "dial", "sync", "once", "dialOnce", "syncAny"},
           conn : Conns \cup {0}]
Off == [at |-> "off", conn |-> 0]

TypeOK ==
    /\ up \subseteq Nodes
    /\ DOMAIN conn \subseteq Conns /\ \A c \in DOMAIN conn : conn[c] \in Conn
    /\ \A n \in Nodes : /\ DOMAIN peers[n] \subseteq Key
                        /\ \A k \in DOMAIN peers[n] : peers[n][k] \in DOMAIN conn
    /\ dialer \in [Dials -> Dialer]
    /\ faults \in 0..MaxFaults

NoPeers == [k \in {} |-> 0]

Init ==
    /\ up = {}
    /\ conn = [c \in {} |-> 0]
    /\ peers = [n \in Nodes |-> NoPeers]
    /\ dialer = [d \in Dials |-> Off]
    /\ faults = 0

-----------------------------------------------------------------------------
\* Start: the listener is open, and every configured peer gets a goroutine
Start(n) ==
    /\ n \notin up
    /\ up' = up \cup {n}
    /\ dialer' = [d \in Dials |->
                    IF d[1] = n /\ d[3] = 0 /\ <<n, d[2]>> \in Lists
                    THEN [at |-> "retry", conn |-> 0] ELSE dialer[d]]
    /\ UNCHANGED <<conn, peers, faults>>

SetDialer(d, state) == dialer' = [dialer EXCEPT ![d] = state]

HasPeer(n, key) == key \in DOMAIN peers[n]

\* mutant: the new connection takes the place of the existing one
RegisterReplaces(c, cn, n, key) ==
    /\ conn' = [d \in DOMAIN conn \cup {c} |->
                  IF d = c THEN [cn EXCEPT !.key[n] = key, !.registered = @ \cup {n}]
                  ELSE conn[d]]
    /\ peers' = [peers EXCEPT ![n] =
                   [k \in DOMAIN @ \cup {key} |-> IF k = key THEN c ELSE @[k]]]

\* registerPeer of connection c, in state cn, at node n: the first one under
\* a key stays, and a goroutine closes the other
Register(c, cn, n, key) ==
    IF HasPeer(n, key) /\ peers[n][key] # c
    THEN /\ conn' = [d \in DOMAIN conn \cup {c} |->
                       IF d = c THEN [cn EXCEPT !.key[n] = key, !.closing = @ \cup {n}]
                       ELSE conn[d]]
         /\ UNCHANGED peers
    ELSE /\ conn' = [d \in DOMAIN conn \cup {c} |->
                       IF d = c THEN [cn EXCEPT !.key[n] = key, !.registered = @ \cup {n}]
                       ELSE conn[d]]
         /\ peers' = [peers EXCEPT ![n] =
                        [k \in DOMAIN @ \cup {key} |-> IF k = key THEN c ELSE @[k]]]

Fresh(n, m) == [from |-> n, to |-> m, open |-> {n, m}, key |-> [x \in Nodes |-> NoKey],
                reading |-> {n, m}, registered |-> {}, closing |-> {}, asked |-> {}]

Alive(c) == conn[c].open = {conn[c].from, conn[c].to}

\* HasPeer, before the dial: the peer is there already, or it is this node ...
DialNot(d) ==
    /\ dialer[d].at \in {"retry", "once"}
    /\ d[1] = d[2] \/ HasPeer(d[1], Name(d[2]))
    /\ SetDialer(d, Off)
    /\ UNCHANGED <<up, conn, peers, faults>>

\* ... or it is not, and net.Dial is called without the lock
DialStart(d) ==
    /\ dialer[d].at \in {"retry", "once"}
    /\ d[1] # d[2] /\ ~ HasPeer(d[1], Name(d[2]))
    /\ SetDialer(d, [conn |-> 0, at |-> IF dialer[d].at = "retry" THEN "dial" ELSE "dialOnce"])
    /\ UNCHANGED <<up, conn, peers, faults>>

\* the dial succeeds, both sides start to read, and the side that dialled
\* registers the connection under its RemoteAddr
Dial(d) ==
    /\ dialer[d].at \in {"dial", "dialOnce"}
    /\ d[2] \in up
    /\ \E c \in Conns \ DOMAIN conn :
         /\ \A other \in Conns \ DOMAIN conn : c <= other
         /\ Register(c, Fresh(d[1], d[2]), d[1], RemoteAddr(d[2]))
         /\ SetDialer(d, [conn |-> c, at |-> IF dialer[d].at = "dial" THEN "sync" ELSE "syncAny"])
    /\ UNCHANGED <<up, faults>>

\* the dial fails: ConnectAndSync gives up, connectWithRetry waits and starts over
DialFails(d) ==
    /\ dialer[d].at \in {"dial", "dialOnce"}
    /\ d[2] \notin up
    /\ SetDialer(d, IF dialer[d].at = "dial" THEN [at |-> "retry", conn |-> 0] ELSE Off)
    /\ UNCHANGED <<up, conn, peers, faults>>

-----------------------------------------------------------------------------
Other(c, n) == IF conn[c].from = n THEN conn[c].to ELSE conn[c].from

\* SyncWithPeer over c: GET_CHAIN goes out, in vain when the other side is gone
\* (which a write need not notice) ...
Send(n, c) ==
    /\ n \in conn[c].open
    /\ conn' = IF Alive(c) THEN [conn EXCEPT ![c].asked = @ \cup {n}] ELSE conn

\* ... or the Send fails, and DisconnectToPeer closes whatever connection is
\* registered under the key
SendFails(n, c) ==
    /\ ~ Alive(c)
    /\ LET key == conn[c].key[n] IN
         conn' = IF HasPeer(n, key) THEN [conn EXCEPT ![peers[n][key]].open = @ \ {n}]
                                    ELSE conn

\* connectWithRetry syncs with the peer it dialled, and ends in either case, also
\* when the connection was a duplicate and is closed by now
Sync(d) ==
    /\ dialer[d].at = "sync"
    /\ LET c == dialer[d].conn IN Send(d[1], c) \/ SendFails(d[1], c)
    /\ SetDialer(d, Off)
    /\ UNCHANGED <<up, peers, faults>>

\* ConnectAndSync syncs with any peer, the first that works
SyncAny(d) ==
    LET n == d[1] IN
      /\ dialer[d].at = "syncAny"
      /\ \/ \E k \in DOMAIN peers[n] :
              \/ Send(n, peers[n][k]) /\ SetDialer(d, Off)
              \/ SendFails(n, peers[n][k]) /\ UNCHANGED dialer
         \/ /\ \A k \in DOMAIN peers[n] : ~ Alive(peers[n][k])
            /\ SetDialer(d, Off)
            /\ UNCHANGED conn
      /\ UNCHANGED <<up, peers, faults>>

\* bound: no dial that is still due is to run out of connections
Due == {d \in Dials : \/ dialer[d].at \in {"retry", "once", "dial", "dialOnce"}
                      \/ d[3] = 0 /\ <<d[1], d[2]>> \in Lists /\ d[1] \notin up}
Spare == Cardinality(Conns \ DOMAIN conn) > Cardinality(Due)

\* APPROVE: go ConnectAndSync, whatever else dials this peer at the moment
Approve(d) ==
    /\ d[1] \in up /\ <<d[1], d[2]>> \in Approvals
    /\ d[3] > 0 /\ dialer[d] = Off
    /\ Spare
    /\ SetDialer(d, [at |-> "once", conn |-> 0])
    /\ UNCHANGED <<up, conn, peers, faults>>

-----------------------------------------------------------------------------
\* mutant: the handler answers and registers nobody
GetChainOnly(c, n) ==
    /\ n \in conn[c].reading /\ Other(c, n) \in conn[c].asked
    /\ conn' = [conn EXCEPT ![c].asked = @ \ {Other(c, n)}]
    /\ UNCHANGED <<up, peers, dialer, faults>>

\* the GET_CHAIN handler registers a connection that is not registered, under
\* the endpoint the request names
GetChain(c, n) ==
    LET m == Other(c, n)
        read == [conn[c] EXCEPT !.asked = @ \ {m}] IN
      /\ n \in conn[c].reading /\ m \in conn[c].asked
      /\ IF n \notin conn[c].registered
         THEN Register(c, read, n, Name(m))
         ELSE /\ conn' = [conn EXCEPT ![c] = read]
              /\ UNCHANGED peers
      /\ UNCHANGED <<up, dialer, faults>>

\* the goroutine of registerPeer closes a duplicate
CloseDuplicate(c, n) ==
    /\ n \in conn[c].closing
    /\ conn' = [conn EXCEPT ![c].open = @ \ {n}, ![c].closing = @ \ {n}]
    /\ UNCHANGED <<up, peers, dialer, faults>>

\* mutant: a peer that was removed from the list stays registered
ReadLoopEndKeeps(c, n) ==
    /\ n \in conn[c].reading /\ ~ Alive(c)
    /\ conn' = [conn EXCEPT ![c].reading = @ \ {n}, ![c].registered = @ \ {n},
                            ![c].open = @ \ {n}]
    /\ UNCHANGED <<up, peers, dialer, faults>>

\* ReadLoop ends on a connection that is closed, with whatever was in flight;
\* its deferred call removes the peer if it is the registered one
ReadLoopEnd(c, n) ==
    /\ n \in conn[c].reading /\ ~ Alive(c)
    /\ conn' = [conn EXCEPT ![c].reading = @ \ {n}, ![c].registered = @ \ {n},
                            ![c].open = @ \ {n}]
    /\ LET key == conn[c].key[n] IN
         IF n \in conn[c].registered /\ HasPeer(n, key) /\ peers[n][key] = c
         THEN peers' = [peers EXCEPT ![n] = [k \in DOMAIN @ \ {key} |-> @[k]]]
         ELSE UNCHANGED peers
    /\ UNCHANGED <<up, dialer, faults>>

-----------------------------------------------------------------------------
\* the network takes a connection down
Break(c) ==
    /\ Alive(c) /\ faults < MaxFaults
    /\ \E n \in conn[c].open : conn' = [conn EXCEPT ![c].open = @ \ {n}]
    /\ faults' = faults + 1
    /\ UNCHANGED <<up, peers, dialer>>

\* the process stops: its connections close, its goroutines and map are gone
Stop(n) ==
    /\ n \in up /\ faults < MaxFaults
    /\ up' = up \ {n}
    /\ conn' = [c \in DOMAIN conn |->
                  IF n \in {conn[c].from, conn[c].to}
                  THEN [conn[c] EXCEPT !.open = @ \ {n}, !.reading = @ \ {n},
                          !.registered = @ \ {n}, !.closing = @ \ {n}]
                  ELSE conn[c]]
    /\ peers' = [peers EXCEPT ![n] = NoPeers]
    /\ dialer' = [d \in Dials |-> IF d[1] = n THEN Off ELSE dialer[d]]
    /\ faults' = faults + 1

-----------------------------------------------------------------------------
Connect(d) == DialNot(d) \/ DialStart(d) \/ Dial(d) \/ DialFails(d) \/ Sync(d) \/ SyncAny(d)

Serve(c, n) == GetChain(c, n) \/ CloseDuplicate(c, n) \/ ReadLoopEnd(c, n)

Next ==
    \/ \E n \in Nodes : Start(n) \/ Stop(n)
    \/ \E d \in Dials : Connect(d) \/ Approve(d)
    \/ \E c \in DOMAIN conn : Break(c) \/ \E n \in Nodes : Serve(c, n)

Spec == Init /\ [][Next]_vars

\* Nodes that are down start, and a goroutine that can take a step takes it.
Fairness ==
    /\ \A n \in Nodes : WF_vars(Start(n))
    /\ \A d \in Dials : WF_vars(Connect(d))
    /\ \A c \in Conns, n \in Nodes : WF_vars(c \in DOMAIN conn /\ Serve(c, n))

FairSpec == Spec /\ Fairness

-----------------------------------------------------------------------------
\* The map and the ReadLoops agree: an entry names a connection of this node
\* whose ReadLoop runs, is registered and will remove just this entry.
RegistryAgrees ==
    \A n \in Nodes : \A c \in DOMAIN conn :
        n \in conn[c].registered <=>
            \E k \in DOMAIN peers[n] :
                /\ peers[n][k] = c /\ conn[c].key[n] = k
                /\ n \in conn[c].reading

\* A connection that is gone leaves both maps: nobody broadcasts into it for
\* ever.
InMap(n, c) == \E k \in DOMAIN peers[n] : peers[n][k] = c
Gone(c) == c \in DOMAIN conn /\ ~ Alive(c)
DeadLinksLeave ==
    \A c \in Conns, n \in Nodes : Gone(c) ~> (c \in DOMAIN conn /\ ~ InMap(n, c))

Linked(n, m) ==
    \E c \in DOMAIN conn :
        /\ Alive(c) /\ {conn[c].from, conn[c].to} = {n, m}
        /\ {n, m} \subseteq conn[c].registered

\* An approval of n dials m beside the retry of n for m.  It is the one case in
\* which the code loses a good connection without any fault: the later dial is a
\* duplicate, and its failed GET_CHAIN closes the earlier one.
RetryMeetsApproval(n, m) ==
    dialer[<<n, m, 0>>] # Off /\ \E i \in 1..MaxOnce : dialer[<<n, m, i>>] # Off

\* connectWithRetry: with host names, two nodes of which one lists the other end
\* up with a connection that both have registered, and keep it, however they
\* start and whoever approves whom, unless a node stops, a connection breaks, or
\* an approval of one of the two meets its retry.
MeshForms ==
    \A pair \in Lists :
        LET n == pair[1]
            m == pair[2] IN
          \/ <>(faults > 0 \/ RetryMeetsApproval(n, m) \/ RetryMeetsApproval(m, n))
          \/ <>[]Linked(n, m)

\* What p2p.go:371-374 says of it: it dials "until it succeeds, the peer is
\* already connected, or the server is stopping"; "this handles [...]
\* simultaneous cluster startup".  The code does not keep it where an approval
\* meets the retry (PeerMeshApproved.cfg), nor with literal addresses
\* (PeerMeshPartition.cfg).
RetriesSucceed ==
    \A pair \in Lists : <>(faults > 0) \/ <>[]Linked(pair[1], pair[2])
=============================================================================
