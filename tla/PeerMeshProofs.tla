--------------------------- MODULE PeerMeshProofs ---------------------------
(***************************************************************************)
(* Proofs about PeerMesh for any nodes, configurations and connections,    *)
(* and any number of stops and broken connections.  RegistryAgrees is not  *)
(* inductive alone: that an entry of a map belongs to a side of its own    *)
(* connection (SidesOwn), and that a goroutine syncs over a connection     *)
(* that exists (DialersGood), go with it.                                  *)
(***************************************************************************)
EXTENDS PeerMesh, TLAPS

\* Whoever reads or registers a connection is one of its two sides.
SidesOwn ==
  \A c \in DOMAIN conn :
    /\ conn[c].reading \subseteq {conn[c].from, conn[c].to}
    /\ conn[c].registered \subseteq {conn[c].from, conn[c].to}

\* An entry and the connection it names agree, in both directions.
EntriesAgree ==
  \A n \in Nodes :
    /\ \A k \in DOMAIN peers[n] : /\ conn[peers[n][k]].key[n] = k
                                  /\ n \in conn[peers[n][k]].reading
                                  /\ n \in conn[peers[n][k]].registered
    /\ \A c \in DOMAIN conn : n \in conn[c].registered =>
         conn[c].key[n] \in DOMAIN peers[n] /\ peers[n][conn[c].key[n]] = c

DialersGood ==
  \A d \in Dials : dialer[d].at = "sync" => dialer[d].conn \in DOMAIN conn

MapOfEach == peers = [n \in Nodes |-> peers[n]]

IInv == TypeOK /\ MapOfEach /\ SidesOwn /\ EntriesAgree /\ DialersGood

\* the connections, the maps and the goroutines, each by itself
ConnsTyped == DOMAIN conn \subseteq Conns /\ \A c \in DOMAIN conn : conn[c] \in Conn
PeersTyped ==
  \A n \in Nodes : /\ DOMAIN peers[n] \subseteq Key
                   /\ \A k \in DOMAIN peers[n] : peers[n][k] \in DOMAIN conn

USE MeshAssumption

\* What a step may do to a connection besides registering or ending it.
Same(a, b) ==
  a.from = b.from /\ a.to = b.to /\ a.key = b.key /\ a.reading = b.reading /\ a.registered = b.registered

\* Closing, marking and asking leave what the maps are about.
LEMMA SameInv ==
  ASSUME IInv, DOMAIN conn' = DOMAIN conn, UNCHANGED peers,
         \A c \in DOMAIN conn : conn'[c] \in Conn /\ Same(conn'[c], conn[c])
  PROVE  ConnsTyped' /\ PeersTyped' /\ MapOfEach' /\ SidesOwn' /\ EntriesAgree'
<1> USE DEF IInv, TypeOK, Same
<1>1. ConnsTyped' /\ PeersTyped' /\ MapOfEach'
  BY DEF ConnsTyped, PeersTyped, MapOfEach
<1>2. SidesOwn'
  BY DEF SidesOwn
<1>3. ASSUME NEW n \in Nodes, NEW k \in DOMAIN peers[n]
      PROVE  LET c == peers'[n][k] IN conn'[c].key[n] = k /\ n \in conn'[c].reading \cap conn'[c].registered
  <2>1. peers[n][k] \in DOMAIN conn
    OBVIOUS
  <2>2. Same(conn'[peers[n][k]], conn[peers[n][k]])
    BY <2>1
  <2> QED
    BY <2>2 DEF EntriesAgree
<1>4. ASSUME NEW n \in Nodes, NEW c \in DOMAIN conn, n \in conn'[c].registered
      PROVE  conn'[c].key[n] \in DOMAIN peers[n] /\ peers[n][conn'[c].key[n]] = c
  BY <1>4 DEF EntriesAgree
<1>5. EntriesAgree'
  BY <1>3, <1>4 DEF EntriesAgree
<1> QED
  BY <1>1, <1>2, <1>5

\* Registering a connection that its node has not registered, a new one or one
\* that was accepted: an entry is added, or the connection is a duplicate.
LEMMA RegisterInv ==
  ASSUME IInv, NEW n \in Nodes, NEW key \in Key, NEW c \in Conns, NEW cn \in Conn,
         n \in {cn.from, cn.to}, n \in cn.reading, cn.reading \subseteq {cn.from, cn.to},
         n \notin cn.registered, cn.registered \subseteq {cn.from, cn.to},
         IF c \in DOMAIN conn THEN Same(cn, conn[c]) ELSE cn.registered = {},
         Register(c, cn, n, key)
  PROVE  /\ ConnsTyped' /\ PeersTyped' /\ MapOfEach' /\ SidesOwn' /\ EntriesAgree'
         /\ DOMAIN conn' = DOMAIN conn \cup {c}
<1> USE DEF IInv
<1>1. \A k \in DOMAIN peers[n] : peers[n][k] # c
  BY DEF EntriesAgree, TypeOK, Same
<1>2. PICK r \in Conn :
        /\ conn' = [d \in DOMAIN conn \cup {c} |-> IF d = c THEN r ELSE conn[d]]
        /\ r.from = cn.from /\ r.to = cn.to /\ r.reading = cn.reading
        /\ r.key = [cn.key EXCEPT ![n] = key]
        /\ IF HasPeer(n, key)
           THEN r.registered = cn.registered /\ peers' = peers
           ELSE /\ r.registered = cn.registered \cup {n}
                /\ peers' = [peers EXCEPT ![n] =
                     [k \in DOMAIN peers[n] \cup {key} |-> IF k = key THEN c ELSE peers[n][k]]]
  <2>1. CASE HasPeer(n, key)
    <3>1. conn' = [d \in DOMAIN conn \cup {c} |->
                     IF d = c THEN [cn EXCEPT !.key[n] = key, !.closing = @ \cup {n}]
                     ELSE conn[d]] /\ UNCHANGED peers
      BY <1>1, <2>1 DEF Register, HasPeer
    <3>2. PICK r : r = [cn EXCEPT !.key[n] = key, !.closing = @ \cup {n}]
      OBVIOUS
    <3>3. /\ r \in Conn /\ r.from = cn.from /\ r.to = cn.to /\ r.reading = cn.reading
          /\ r.key = [cn.key EXCEPT ![n] = key] /\ r.registered = cn.registered
      BY <3>2 DEF Conn
    <3> QED
      BY <2>1, <3>1, <3>2, <3>3, Zenon
  <2>2. CASE ~HasPeer(n, key)
    <3>1. /\ conn' = [d \in DOMAIN conn \cup {c} |->
                     IF d = c THEN [cn EXCEPT !.key[n] = key, !.registered = @ \cup {n}]
                     ELSE conn[d]]
          /\ peers' = [peers EXCEPT ![n] =
               [k \in DOMAIN peers[n] \cup {key} |-> IF k = key THEN c ELSE peers[n][k]]]
      BY <2>2, Zenon DEF Register
    <3>2. PICK r : r = [cn EXCEPT !.key[n] = key, !.registered = @ \cup {n}]
      OBVIOUS
    <3>3. /\ r \in Conn /\ r.from = cn.from /\ r.to = cn.to /\ r.reading = cn.reading
          /\ r.key = [cn.key EXCEPT ![n] = key] /\ r.registered = cn.registered \cup {n}
      BY <3>2 DEF Conn
    <3> QED
      BY <2>2, <3>1, <3>2, <3>3, Zenon
  <2> QED
    BY <2>1, <2>2
<1>3. /\ DOMAIN conn' = DOMAIN conn \cup {c} /\ conn'[c] = r
      /\ \A d \in DOMAIN conn : d # c => conn'[d] = conn[d]
  BY <1>2
<1>4. ConnsTyped' /\ SidesOwn'
  BY <1>2, <1>3 DEF TypeOK, ConnsTyped, SidesOwn
<1>5. r.key[n] = key /\ \A m \in Nodes : m # n => r.key[m] = cn.key[m]
  BY <1>2 DEF Conn
<1>6. CASE HasPeer(n, key)
  <2>1. peers' = peers /\ r.registered = cn.registered
    BY <1>2, <1>6
  <2>2. PeersTyped' /\ MapOfEach'
    BY <1>3, <2>1 DEF TypeOK, PeersTyped, MapOfEach
  <2>3. ASSUME NEW m \in Nodes, NEW k \in DOMAIN peers[m]
        PROVE  LET d == peers'[m][k] IN
                 conn'[d].key[m] = k /\ m \in conn'[d].reading \cap conn'[d].registered
    <3>1. peers[m][k] \in DOMAIN conn /\ peers'[m][k] = peers[m][k]
      BY <2>1 DEF TypeOK
    <3>2. CASE peers[m][k] # c
      BY <1>3, <3>1, <3>2 DEF EntriesAgree
    <3>3. CASE peers[m][k] = c
      <4>1. m # n /\ c \in DOMAIN conn /\ Same(cn, conn[c])
        BY <1>1, <3>1, <3>3
      <4>2. conn[c].key[m] = k /\ m \in conn[c].reading /\ m \in conn[c].registered
        BY <3>3 DEF EntriesAgree
      <4>3. cn.key[m] = k /\ m \in cn.reading /\ m \in cn.registered
        BY <4>1, <4>2 DEF Same
      <4> QED
        BY <1>2, <1>3, <1>5, <2>1, <3>1, <3>3, <4>1, <4>3
    <3> QED
      BY <3>2, <3>3
  <2>4. ASSUME NEW m \in Nodes, NEW d \in DOMAIN conn', m \in conn'[d].registered
        PROVE  conn'[d].key[m] \in DOMAIN peers'[m] /\ peers'[m][conn'[d].key[m]] = d
    <3>1. CASE d # c
      BY <1>3, <2>1, <2>4, <3>1 DEF EntriesAgree
    <3>2. CASE d = c
      <4>1. m # n /\ c \in DOMAIN conn /\ Same(cn, conn[c])
        BY <1>3, <2>1, <2>4, <3>2
      <4> QED
        BY <1>3, <1>5, <2>1, <2>4, <3>2, <4>1 DEF EntriesAgree, Same
    <3> QED
      BY <3>1, <3>2
  <2>5. EntriesAgree'
    BY <2>1, <2>3, <2>4 DEF EntriesAgree
  <2> QED
    BY <1>3, <1>4, <2>2, <2>5
<1>7. CASE ~HasPeer(n, key)
  <2>1. /\ r.registered = cn.registered \cup {n}
        /\ \A m \in Nodes : m # n => peers'[m] = peers[m]
        /\ DOMAIN peers'[n] = DOMAIN peers[n] \cup {key} /\ peers'[n][key] = c
        /\ \A k \in DOMAIN peers[n] : k # key /\ peers'[n][k] = peers[n][k]
        /\ MapOfEach'
    BY <1>2, <1>7 DEF MapOfEach, HasPeer
  <2>2. PeersTyped'
    BY <1>3, <2>1 DEF TypeOK, PeersTyped
  <2>3. ASSUME NEW m \in Nodes, NEW k \in DOMAIN peers'[m]
        PROVE  LET d == peers'[m][k] IN
                 conn'[d].key[m] = k /\ m \in conn'[d].reading \cap conn'[d].registered
    <3>1. CASE m = n /\ k = key
      BY <1>2, <1>3, <1>5, <2>1, <3>1
    <3>2. CASE ~(m = n /\ k = key)
      <4>1. k \in DOMAIN peers[m] /\ peers'[m][k] = peers[m][k] /\ peers[m][k] \in DOMAIN conn
        BY <2>1, <3>2 DEF TypeOK
      <4>2. CASE peers[m][k] # c
        BY <1>3, <4>1, <4>2 DEF EntriesAgree
      <4>3. CASE peers[m][k] = c
        <5>1. m # n /\ c \in DOMAIN conn /\ Same(cn, conn[c])
          BY <1>1, <4>1, <4>3
        <5>2. conn[c].key[m] = k /\ m \in conn[c].reading /\ m \in conn[c].registered
          BY <4>1, <4>3 DEF EntriesAgree
        <5>3. cn.key[m] = k /\ m \in cn.reading /\ m \in cn.registered
          BY <5>1, <5>2 DEF Same
        <5> QED
          BY <1>2, <1>3, <1>5, <2>1, <4>1, <4>3, <5>1, <5>3
      <4> QED
        BY <4>2, <4>3
    <3> QED
      BY <3>1, <3>2
  <2>4. ASSUME NEW m \in Nodes, NEW d \in DOMAIN conn', m \in conn'[d].registered
        PROVE  conn'[d].key[m] \in DOMAIN peers'[m] /\ peers'[m][conn'[d].key[m]] = d
    <3>1. CASE d # c
      <4>1. conn'[d] = conn[d] /\ conn[d].key[m] \in DOMAIN peers[m] /\ peers[m][conn[d].key[m]] = d
        BY <1>3, <2>4, <3>1 DEF EntriesAgree
      <4> QED
        BY <2>1, <4>1
    <3>2. CASE d = c /\ m = n
      BY <1>3, <1>5, <2>1, <3>2
    <3>3. CASE d = c /\ m # n
      <4>1. c \in DOMAIN conn /\ Same(cn, conn[c]) /\ m \in conn[c].registered
        BY <1>3, <2>1, <2>4, <3>3 DEF Same
      <4>2. conn[c].key[m] \in DOMAIN peers[m] /\ peers[m][conn[c].key[m]] = c
        BY <4>1 DEF EntriesAgree
      <4> QED
        BY <1>3, <1>5, <2>1, <3>3, <4>1, <4>2 DEF Same
    <3> QED
      BY <3>1, <3>2, <3>3
  <2>5. EntriesAgree'
    BY <2>3, <2>4 DEF EntriesAgree
  <2> QED
    BY <1>3, <1>4, <2>1, <2>2, <2>5
<1> QED
  BY <1>6, <1>7

\* A goroutine takes its next state.
LEMMA DialerSet ==
  ASSUME IInv, NEW d \in Dials, NEW state \in Dialer, SetDialer(d, state),
         DOMAIN conn \subseteq DOMAIN conn', state.at = "sync" => state.conn \in DOMAIN conn'
  PROVE  dialer' \in [Dials -> Dialer] /\ DialersGood'
<1>1. dialer' \in [Dials -> Dialer]
  BY DEF SetDialer, IInv, TypeOK
<1>2. \A a \in Dials : dialer'[a] = IF a = d THEN state ELSE dialer[a]
  BY DEF SetDialer, IInv, TypeOK
<1> QED
  BY <1>1, <1>2 DEF DialersGood, IInv

\* A connection with another set of open sides, or with marks changed.
LEMMA ConnFields ==
  ASSUME NEW c \in Conn, NEW n, NEW m
  PROVE  /\ [c EXCEPT !.open = @ \ {n}] \in Conn /\ Same([c EXCEPT !.open = @ \ {n}], c)
         /\ [c EXCEPT !.asked = @ \ {n}] \in Conn /\ Same([c EXCEPT !.asked = @ \ {n}], c)
         /\ n \in Nodes => /\ [c EXCEPT !.asked = @ \cup {n}] \in Conn
                           /\ Same([c EXCEPT !.asked = @ \cup {n}], c)
         /\ [c EXCEPT !.open = @ \ {n}, !.closing = @ \ {n}] \in Conn
         /\ Same([c EXCEPT !.open = @ \ {n}, !.closing = @ \ {n}], c)
BY DEF Conn, Same

\* One connection changes in what the maps are not about.
LEMMA OneSame ==
  ASSUME IInv, NEW c \in DOMAIN conn, NEW r \in Conn, Same(r, conn[c]),
         conn' = [conn EXCEPT ![c] = r], UNCHANGED peers
  PROVE  /\ ConnsTyped' /\ PeersTyped' /\ MapOfEach' /\ SidesOwn' /\ EntriesAgree'
         /\ DOMAIN conn' = DOMAIN conn
<1>1. DOMAIN conn' = DOMAIN conn /\ \A d \in DOMAIN conn : conn'[d] = IF d = c THEN r ELSE conn[d]
  OBVIOUS
<1>2. \A d \in DOMAIN conn : conn'[d] \in Conn /\ Same(conn'[d], conn[d])
  BY <1>1 DEF IInv, TypeOK, Same
<1> QED
  BY <1>1, <1>2, SameInv

\* No connection changes.
LEMMA NoneChanged ==
  ASSUME IInv, UNCHANGED <<conn, peers>>
  PROVE  /\ ConnsTyped' /\ PeersTyped' /\ MapOfEach' /\ SidesOwn' /\ EntriesAgree'
         /\ DOMAIN conn' = DOMAIN conn
<1>1. \A d \in DOMAIN conn : conn'[d] \in Conn /\ Same(conn'[d], conn[d])
  BY DEF IInv, TypeOK, Same
<1> QED
  BY <1>1, SameInv

\* The GET_CHAIN of SyncWithPeer, or DisconnectToPeer when it fails.
LEMMA SendInv ==
  ASSUME IInv, NEW n \in Nodes, NEW c \in DOMAIN conn, Send(n, c) \/ SendFails(n, c),
         UNCHANGED peers
  PROVE  /\ ConnsTyped' /\ PeersTyped' /\ MapOfEach' /\ SidesOwn' /\ EntriesAgree'
         /\ DOMAIN conn' = DOMAIN conn
<1>1. CASE UNCHANGED conn
  BY <1>1, NoneChanged
<1>2. ASSUME NEW d \in DOMAIN conn, NEW r, conn' = [conn EXCEPT ![d] = r],
             \/ r = [conn[d] EXCEPT !.asked = @ \cup {n}]
             \/ r = [conn[d] EXCEPT !.open = @ \ {n}]
      PROVE  /\ ConnsTyped' /\ PeersTyped' /\ MapOfEach' /\ SidesOwn' /\ EntriesAgree'
             /\ DOMAIN conn' = DOMAIN conn
  <2>1. conn[d] \in Conn
    BY DEF IInv, TypeOK
  <2>2. r \in Conn /\ Same(r, conn[d])
    BY <1>2, <2>1, ConnFields, Zenon
  <2> QED
    BY <1>2, <2>2, OneSame
<1>3. CASE Send(n, c)
  <2>1. \/ UNCHANGED conn
        \/ conn' = [conn EXCEPT ![c] = [conn[c] EXCEPT !.asked = @ \cup {n}]]
    BY <1>3, Zenon DEF Send
  <2> QED
    BY <1>1, <1>2, <2>1
<1>4. CASE SendFails(n, c)
  <2> DEFINE d == peers[n][conn[c].key[n]]
  <2>1. \/ UNCHANGED conn
        \/ HasPeer(n, conn[c].key[n]) /\ conn' = [conn EXCEPT ![d] = [conn[d] EXCEPT !.open = @ \ {n}]]
    BY <1>4, Zenon DEF SendFails
  <2>2. HasPeer(n, conn[c].key[n]) => d \in DOMAIN conn
    BY DEF HasPeer, IInv, TypeOK
  <2> QED
    BY <1>1, <1>2, <2>1, <2>2
<1> QED
  BY <1>3, <1>4
-----------------------------------------------------------------------------
\* No node runs and no connection has been dialled.
LEMMA InitInv == Init => IInv
<1> SUFFICES ASSUME Init PROVE IInv
  OBVIOUS
<1>1. TypeOK
  BY DEF Init, TypeOK, NoPeers, Off, Dialer
<1>2. MapOfEach /\ SidesOwn /\ EntriesAgree /\ DialersGood
  BY DEF Init, MapOfEach, SidesOwn, EntriesAgree, DialersGood, NoPeers, Off
<1> QED
  BY <1>1, <1>2 DEF IInv

\* The parts of the invariant, put together.
LEMMA Parts ==
  ASSUME ConnsTyped', PeersTyped', MapOfEach', SidesOwn', EntriesAgree',
         dialer' \in [Dials -> Dialer], DialersGood',
         up' \subseteq Nodes, faults' \in 0..MaxFaults
  PROVE  IInv'
BY DEF IInv, TypeOK, ConnsTyped, PeersTyped

\* Dialling, with HasPeer before it and SyncWithPeer after it.
LEMMA ConnectInv ==
  ASSUME IInv, NEW d \in Dials, Connect(d) \/ Approve(d)
  PROVE  IInv'
<1> DEFINE n == d[1]
           m == d[2]
<1> n \in Nodes /\ m \in Nodes
  BY DEF Dials
<1> up \subseteq Nodes /\ faults \in 0..MaxFaults
  BY DEF IInv, TypeOK
<1>1. CASE DialNot(d) \/ DialStart(d) \/ DialFails(d) \/ Approve(d)
  <2>1. UNCHANGED <<conn, peers, up, faults>>
    BY <1>1 DEF DialNot, DialStart, DialFails, Approve
  <2>2. PICK state \in Dialer : SetDialer(d, state) /\ state.at # "sync"
    BY <1>1 DEF DialNot, DialStart, DialFails, Approve, Off, Dialer
  <2>3. dialer' \in [Dials -> Dialer] /\ DialersGood'
    BY <2>1, <2>2, DialerSet
  <2> QED
    BY <2>1, <2>3, NoneChanged, Parts
<1>2. CASE Dial(d)
  <2>1. PICK c \in Conns \ DOMAIN conn :
          /\ Register(c, Fresh(n, m), n, RemoteAddr(m))
          /\ SetDialer(d, [conn |-> c,
               at |-> IF dialer[d].at = "dial" THEN "sync" ELSE "syncAny"])
    BY <1>2 DEF Dial
  <2>2. UNCHANGED <<up, faults>>
    BY <1>2 DEF Dial
  <2>3. /\ Fresh(n, m) \in Conn /\ RemoteAddr(m) \in Key
        /\ Fresh(n, m).from = n /\ Fresh(n, m).to = m /\ Fresh(n, m).reading = {n, m}
        /\ Fresh(n, m).registered = {}
    BY DEF Fresh, Conn, Key
  <2>4. /\ ConnsTyped' /\ PeersTyped' /\ MapOfEach' /\ SidesOwn' /\ EntriesAgree'
        /\ DOMAIN conn' = DOMAIN conn \cup {c}
    BY <2>1, <2>3, RegisterInv
  <2>5. PICK state \in Dialer : SetDialer(d, state) /\ state.conn = c
    BY <2>1 DEF Dialer
  <2>6. dialer' \in [Dials -> Dialer] /\ DialersGood'
    BY <2>4, <2>5, DialerSet
  <2> QED
    BY <2>2, <2>4, <2>6, Parts
<1>3. CASE Sync(d)
  <2>1. UNCHANGED <<peers, up, faults>> /\ SetDialer(d, Off) /\ Off \in Dialer /\ Off.at # "sync"
    BY <1>3 DEF Sync, Off, Dialer
  <2>2. /\ ConnsTyped' /\ PeersTyped' /\ MapOfEach' /\ SidesOwn' /\ EntriesAgree'
        /\ DOMAIN conn' = DOMAIN conn
    BY <1>3, <2>1, SendInv DEF Sync, IInv, DialersGood
  <2>3. dialer' \in [Dials -> Dialer] /\ DialersGood'
    BY <2>1, <2>2, DialerSet
  <2> QED
    BY <2>1, <2>2, <2>3, Parts
<1>4. CASE SyncAny(d)
  <2>1. UNCHANGED <<peers, up, faults>> /\ Off \in Dialer /\ Off.at # "sync"
    BY <1>4 DEF SyncAny, Off, Dialer
  <2>2. \/ UNCHANGED conn
        \/ \E c \in DOMAIN conn : Send(n, c) \/ SendFails(n, c)
    BY <1>4 DEF SyncAny, IInv, TypeOK
  <2>3. /\ ConnsTyped' /\ PeersTyped' /\ MapOfEach' /\ SidesOwn' /\ EntriesAgree'
        /\ DOMAIN conn' = DOMAIN conn
    BY <2>1, <2>2, SendInv, NoneChanged
  <2>4. SetDialer(d, Off) \/ UNCHANGED dialer
    BY <1>4 DEF SyncAny
  <2>5. dialer' \in [Dials -> Dialer] /\ DialersGood'
    <3>1. CASE SetDialer(d, Off)
      BY <2>1, <2>3, <3>1, DialerSet
    <3>2. CASE UNCHANGED dialer
      BY <2>3, <3>2 DEF IInv, TypeOK, DialersGood
    <3> QED
      BY <2>4, <3>1, <3>2
  <2> QED
    BY <2>1, <2>3, <2>5, Parts
<1> QED
  BY <1>1, <1>2, <1>3, <1>4 DEF Connect

\* GET_CHAIN, the goroutine that closes a duplicate, and the end of a ReadLoop.
LEMMA ServeInv ==
  ASSUME IInv, NEW c \in DOMAIN conn, NEW n \in Nodes, Serve(c, n)
  PROVE  IInv'
<1>1. UNCHANGED <<up, dialer, faults>>
  BY DEF Serve, GetChain, CloseDuplicate, ReadLoopEnd
<1>2. ASSUME ConnsTyped', PeersTyped', MapOfEach', SidesOwn', EntriesAgree',
             DOMAIN conn' = DOMAIN conn
      PROVE  IInv'
  <2>1. dialer' \in [Dials -> Dialer] /\ DialersGood'
    BY <1>1, <1>2 DEF IInv, TypeOK, DialersGood
  <2> QED
    BY <1>1, <1>2, <2>1, Parts DEF IInv, TypeOK
<1>3. conn[c] \in Conn /\ c \in Conns
  BY DEF IInv, TypeOK
<1>4. CASE GetChain(c, n)
  <2> DEFINE m == Other(c, n)
  <2>1. PICK read : read = [conn[c] EXCEPT !.asked = @ \ {m}]
    OBVIOUS
  <2>2. read \in Conn /\ Same(read, conn[c])
    BY <1>3, <2>1, ConnFields, Zenon
  <2>3. n \in conn[c].reading /\ m \in conn[c].asked
    BY <1>4 DEF GetChain
  <2>4. CASE n \in conn[c].registered
    <3>1. conn' = [conn EXCEPT ![c] = read] /\ UNCHANGED peers
      BY <1>4, <2>1, <2>4, Zenon DEF GetChain
    <3> QED
      BY <1>2, <2>2, <3>1, OneSame
  <2>5. CASE n \notin conn[c].registered
    <3>1. Register(c, read, n, Name(m))
      BY <1>4, <2>1, <2>5, Zenon DEF GetChain
    <3>2. m \in Nodes
      BY <1>3 DEF Other, Conn
    <3>3. Name(m) \in Key
      BY <3>2 DEF Key
    <3>4. /\ n \in {read.from, read.to} /\ n \in read.reading
          /\ read.reading \subseteq {read.from, read.to} /\ n \notin read.registered
          /\ read.registered \subseteq {read.from, read.to}
      BY <2>2, <2>3, <2>5 DEF Same, IInv, SidesOwn
    <3>5. /\ ConnsTyped' /\ PeersTyped' /\ MapOfEach' /\ SidesOwn' /\ EntriesAgree'
          /\ DOMAIN conn' = DOMAIN conn \cup {c}
      BY <1>3, <2>2, <3>1, <3>3, <3>4, RegisterInv
    <3> QED
      BY <1>2, <3>5
  <2> QED
    BY <2>4, <2>5
<1>5. CASE CloseDuplicate(c, n)
  <2>1. PICK r : r = [conn[c] EXCEPT !.open = @ \ {n}, !.closing = @ \ {n}]
    OBVIOUS
  <2>2. r \in Conn /\ Same(r, conn[c])
    BY <1>3, <2>1, ConnFields, Zenon
  <2>3. conn' = [conn EXCEPT ![c] = r] /\ UNCHANGED peers
    BY <1>5, <2>1 DEF CloseDuplicate
  <2> QED
    BY <1>2, <2>2, <2>3, OneSame
<1>6. CASE ReadLoopEnd(c, n)
  <2>1. PICK r : r = [conn[c] EXCEPT !.reading = @ \ {n}, !.registered = @ \ {n}, !.open = @ \ {n}]
    OBVIOUS
  <2>2. /\ r \in Conn /\ r.from = conn[c].from /\ r.to = conn[c].to /\ r.key = conn[c].key
        /\ r.reading = conn[c].reading \ {n} /\ r.registered = conn[c].registered \ {n}
    BY <1>3, <2>1 DEF Conn
  <2>3. conn' = [conn EXCEPT ![c] = r]
    BY <1>6, <2>1 DEF ReadLoopEnd
  <2> DEFINE key == conn[c].key[n]
  <2>4. \A k \in DOMAIN peers[n] : peers[n][k] = c => k = key /\ n \in conn[c].registered
    BY DEF IInv, EntriesAgree
  <2>5. /\ \A m \in Nodes : m # n => peers'[m] = peers[m]
        /\ \A k \in DOMAIN peers'[n] : k \in DOMAIN peers[n] /\ peers'[n][k] = peers[n][k] /\ peers[n][k] # c
        /\ \A k \in DOMAIN peers[n] : peers[n][k] # c => k \in DOMAIN peers'[n] /\ peers'[n][k] = peers[n][k]
        /\ MapOfEach'
    <3>1. CASE n \in conn[c].registered /\ HasPeer(n, key) /\ peers[n][key] = c
      <4>1. peers' = [peers EXCEPT ![n] = [k \in DOMAIN peers[n] \ {key} |-> peers[n][k]]]
        BY <1>6, <3>1, Zenon DEF ReadLoopEnd
      <4> QED
        BY <2>4, <3>1, <4>1 DEF IInv, MapOfEach
    <3>2. CASE ~(n \in conn[c].registered /\ HasPeer(n, key) /\ peers[n][key] = c)
      <4>1. peers' = peers
        BY <1>6, <3>2 DEF ReadLoopEnd
      <4> QED
        BY <2>4, <3>2, <4>1 DEF IInv, MapOfEach, HasPeer
    <3> QED
      BY <3>1, <3>2
  <2>6. DOMAIN conn' = DOMAIN conn /\ conn'[c] = r /\ \A d \in DOMAIN conn : d # c => conn'[d] = conn[d]
    BY <2>3
  <2>7. ConnsTyped' /\ SidesOwn'
    BY <2>2, <2>6 DEF IInv, TypeOK, ConnsTyped, SidesOwn
  <2>8. PeersTyped'
    <3>1. \A m \in Nodes : \A k \in DOMAIN peers'[m] : k \in DOMAIN peers[m] /\ peers'[m][k] = peers[m][k]
      BY <2>5
    <3> QED
      BY <2>6, <3>1 DEF IInv, TypeOK, PeersTyped
  <2>9. ASSUME NEW m \in Nodes, NEW k \in DOMAIN peers'[m]
        PROVE  LET d == peers'[m][k] IN
                 conn'[d].key[m] = k /\ m \in conn'[d].reading \cap conn'[d].registered
    <3>1. k \in DOMAIN peers[m] /\ peers'[m][k] = peers[m][k] /\ peers[m][k] \in DOMAIN conn
      BY <2>5 DEF IInv, TypeOK
    <3>2. LET d == peers[m][k] IN conn[d].key[m] = k /\ m \in conn[d].reading /\ m \in conn[d].registered
      BY <3>1 DEF IInv, EntriesAgree
    <3>3. CASE peers[m][k] = c
      <4>1. m # n
        BY <2>5, <3>3
      <4> QED
        BY <2>2, <2>6, <3>1, <3>2, <3>3, <4>1
    <3>4. CASE peers[m][k] # c
      BY <2>6, <3>1, <3>2, <3>4
    <3> QED
      BY <3>3, <3>4
  <2>10. ASSUME NEW m \in Nodes, NEW d \in DOMAIN conn', m \in conn'[d].registered
         PROVE  conn'[d].key[m] \in DOMAIN peers'[m] /\ peers'[m][conn'[d].key[m]] = d
    <3>1. d \in DOMAIN conn /\ conn'[d].key = conn[d].key /\ m \in conn[d].registered
      BY <2>2, <2>6, <2>10
    <3>2. conn[d].key[m] \in DOMAIN peers[m] /\ peers[m][conn[d].key[m]] = d
      BY <3>1 DEF IInv, EntriesAgree
    <3>3. m = n => d # c
      BY <2>2, <2>6, <2>10
    <3> QED
      BY <2>5, <3>1, <3>2, <3>3
  <2>11. EntriesAgree'
    BY <2>9, <2>10 DEF EntriesAgree
  <2> QED
    BY <1>2, <2>5, <2>6, <2>7, <2>8, <2>11
<1> QED
  BY <1>4, <1>5, <1>6 DEF Serve

\* The network takes one end of a connection down.
LEMMA BreakInv == ASSUME IInv, NEW c \in DOMAIN conn, Break(c) PROVE IInv'
<1>1. /\ UNCHANGED <<up, peers, dialer>> /\ faults' \in 0..MaxFaults
      /\ up \subseteq Nodes /\ dialer \in [Dials -> Dialer] /\ conn[c] \in Conn
  BY DEF Break, IInv, TypeOK
<1>2. PICK n : conn' = [conn EXCEPT ![c] = [conn[c] EXCEPT !.open = @ \ {n}]]
  BY Zenon DEF Break
<1>3. PICK r : r = [conn[c] EXCEPT !.open = @ \ {n}]
  OBVIOUS
<1>4. r \in Conn /\ Same(r, conn[c])
  BY <1>1, <1>3, ConnFields, Zenon
<1>5. conn' = [conn EXCEPT ![c] = r]
  BY <1>2, <1>3, Zenon
<1>6. /\ ConnsTyped' /\ PeersTyped' /\ MapOfEach' /\ SidesOwn' /\ EntriesAgree'
      /\ DOMAIN conn' = DOMAIN conn
  BY <1>1, <1>4, <1>5, OneSame
<1>7. DialersGood'
  BY <1>1, <1>6 DEF IInv, DialersGood
<1> QED
  BY <1>1, <1>6, <1>7, Parts

\* A node starts: its goroutines do, and no connection changes.
LEMMA StartInv == ASSUME IInv, NEW n \in Nodes, Start(n) PROVE IInv'
<1>1. UNCHANGED <<conn, peers, faults>> /\ up' \subseteq Nodes /\ faults \in 0..MaxFaults
  BY DEF Start, IInv, TypeOK
<1>2. /\ dialer' \in [Dials -> Dialer]
      /\ \A d \in Dials : dialer'[d].at # "sync" \/ dialer'[d] = dialer[d]
  <2>1. [at |-> "retry", conn |-> 0] \in Dialer /\ Off \in Dialer /\ Off.at # "sync"
    BY DEF Dialer, Off
  <2> QED
    BY <2>1 DEF Start, IInv, TypeOK
<1>3. DialersGood'
  BY <1>1, <1>2 DEF IInv, DialersGood
<1> QED
  BY <1>1, <1>2, <1>3, NoneChanged, Parts

\* A node stops: its map and its side of every connection go together.
LEMMA StopInv == ASSUME IInv, NEW n \in Nodes, Stop(n) PROVE IInv'
<1>1. up' \subseteq Nodes /\ faults' \in 0..MaxFaults
  <2>1. up' = up \ {n} /\ faults < MaxFaults /\ faults' = faults + 1
    BY DEF Stop
  <2>2. up \subseteq Nodes /\ faults \in 0..MaxFaults
    BY DEF IInv, TypeOK
  <2> QED
    BY <2>1, <2>2
<1>2. /\ dialer' \in [Dials -> Dialer]
      /\ \A d \in Dials : dialer'[d].at # "sync" \/ dialer'[d] = dialer[d]
  <2>1. Off \in Dialer /\ Off.at # "sync"
    BY DEF Dialer, Off
  <2> QED
    BY <2>1 DEF Stop, IInv, TypeOK
<1>3. /\ DOMAIN peers'[n] = {}
      /\ \A a \in Nodes : a # n => peers'[a] = peers[a]
      /\ MapOfEach'
  BY DEF Stop, IInv, MapOfEach, NoPeers
<1>4. DOMAIN conn' = DOMAIN conn
  BY DEF Stop
<1>5. \A c \in DOMAIN conn :
        /\ conn'[c] \in Conn /\ conn'[c].key = conn[c].key
        /\ conn'[c].from = conn[c].from /\ conn'[c].to = conn[c].to
        /\ conn'[c].reading = conn[c].reading \ {n}
        /\ conn'[c].registered = conn[c].registered \ {n}
  <2> SUFFICES ASSUME NEW c \in DOMAIN conn
      PROVE  /\ conn'[c] \in Conn /\ conn'[c].key = conn[c].key
             /\ conn'[c].from = conn[c].from /\ conn'[c].to = conn[c].to
             /\ conn'[c].reading = conn[c].reading \ {n}
             /\ conn'[c].registered = conn[c].registered \ {n}
    OBVIOUS
  <2>1. conn[c] \in Conn /\ conn[c].reading \cup conn[c].registered \subseteq {conn[c].from, conn[c].to}
    BY DEF IInv, TypeOK, SidesOwn
  <2>2. CASE n \in {conn[c].from, conn[c].to}
    <3>1. conn'[c] = [conn[c] EXCEPT !.open = @ \ {n}, !.reading = @ \ {n},
                        !.registered = @ \ {n}, !.closing = @ \ {n}]
      BY <2>2 DEF Stop
    <3>2. PICK old : old = conn[c]
      OBVIOUS
    <3>3. PICK new : new = [old EXCEPT !.open = @ \ {n}, !.reading = @ \ {n},
                              !.registered = @ \ {n}, !.closing = @ \ {n}]
      OBVIOUS
    <3>4. conn'[c] = new
      BY <3>1, <3>2, <3>3, Zenon
    <3>5. /\ new \in Conn /\ new.key = old.key /\ new.from = old.from /\ new.to = old.to
          /\ new.reading = old.reading \ {n} /\ new.registered = old.registered \ {n}
      BY <2>1, <3>2, <3>3 DEF Conn
    <3> QED
      BY <3>2, <3>4, <3>5, Zenon
  <2>3. CASE n \notin {conn[c].from, conn[c].to}
    <3>1. conn'[c] = conn[c]
      BY <2>3 DEF Stop
    <3> QED
      BY <2>1, <2>3, <3>1
  <2> QED
    BY <2>2, <2>3
<1>6. ConnsTyped' /\ SidesOwn'
  BY <1>4, <1>5 DEF ConnsTyped, SidesOwn, IInv, TypeOK
<1>7. PeersTyped'
  BY <1>3, <1>4 DEF PeersTyped, IInv, TypeOK
<1>8. ASSUME NEW m \in Nodes, NEW k \in DOMAIN peers'[m]
      PROVE  LET d == peers'[m][k] IN
               conn'[d].key[m] = k /\ m \in conn'[d].reading \cap conn'[d].registered
  <2>1. m # n /\ peers'[m] = peers[m] /\ peers[m][k] \in DOMAIN conn
    BY <1>3 DEF IInv, TypeOK
  <2> QED
    BY <1>5, <2>1 DEF IInv, EntriesAgree
<1>9. ASSUME NEW m \in Nodes, NEW d \in DOMAIN conn', m \in conn'[d].registered
      PROVE  conn'[d].key[m] \in DOMAIN peers'[m] /\ peers'[m][conn'[d].key[m]] = d
  <2>1. m # n /\ peers'[m] = peers[m] /\ d \in DOMAIN conn /\ m \in conn[d].registered
    BY <1>3, <1>4, <1>5, <1>9
  <2> QED
    BY <1>5, <2>1 DEF IInv, EntriesAgree
<1>10. EntriesAgree'
  BY <1>8, <1>9 DEF EntriesAgree
<1>11. DialersGood'
  BY <1>2, <1>4 DEF IInv, DialersGood
<1> QED
  BY <1>1, <1>2, <1>3, <1>6, <1>7, <1>10, <1>11, Parts

\* The invariant of the registry.
THEOREM MeshInvariant == Spec => []IInv
<1>1. Init => IInv
  BY InitInv
<1>2. ASSUME IInv, [Next]_vars PROVE IInv'
  <2>1. ASSUME NEW n \in Nodes, Start(n) \/ Stop(n) PROVE IInv'
    BY <1>2, <2>1, StartInv, StopInv
  <2>2. ASSUME NEW d \in Dials, Connect(d) \/ Approve(d) PROVE IInv'
    BY <1>2, <2>2, ConnectInv
  <2>3. ASSUME NEW c \in DOMAIN conn, Break(c) \/ \E n \in Nodes : Serve(c, n) PROVE IInv'
    BY <1>2, <2>3, BreakInv, ServeInv
  <2>4. CASE UNCHANGED vars
    <3>1. UNCHANGED <<up, conn, peers, dialer, faults>>
      BY <2>4 DEF vars
    <3>2. /\ dialer' \in [Dials -> Dialer] /\ DialersGood'
          /\ up' \subseteq Nodes /\ faults' \in 0..MaxFaults
      BY <1>2, <3>1 DEF IInv, TypeOK, DialersGood
    <3> QED
      BY <1>2, <3>1, <3>2, NoneChanged, Parts
  <2> QED
    BY <1>2, <2>1, <2>2, <2>3, <2>4 DEF Next
<1> QED
  BY <1>1, <1>2, PTL DEF Spec

\* An entry of Peers names a connection of its own node that is registered
\* under that key and has a ReadLoop, whose deferred call will remove just this
\* entry, and a registered side has its entry: the maps and the ReadLoops never
\* disagree, whatever is dialled, replaced, broken or stopped.
THEOREM RegistryAlwaysAgrees == Spec => []RegistryAgrees
<1>1. ASSUME IInv, NEW n \in Nodes, NEW c \in DOMAIN conn
      PROVE  n \in conn[c].registered <=>
               \E k \in DOMAIN peers[n] :
                 /\ peers[n][k] = c /\ conn[c].key[n] = k
                 /\ n \in conn[c].reading
  <2>1. ASSUME n \in conn[c].registered
        PROVE  \E k \in DOMAIN peers[n] :
                 /\ peers[n][k] = c /\ conn[c].key[n] = k
                 /\ n \in conn[c].reading
    <3>1. conn[c].key[n] \in DOMAIN peers[n] /\ peers[n][conn[c].key[n]] = c
      BY <1>1, <2>1 DEF IInv, EntriesAgree
    <3>2. n \in conn[c].reading
      BY <1>1, <3>1 DEF IInv, EntriesAgree
    <3> QED
      BY <3>1, <3>2
  <2>2. ASSUME NEW k \in DOMAIN peers[n], peers[n][k] = c
        PROVE  n \in conn[c].registered
    BY <1>1, <2>2 DEF IInv, EntriesAgree
  <2> QED
    BY <2>1, <2>2
<1>2. IInv => RegistryAgrees
  BY <1>1 DEF RegistryAgrees
<1> QED
  BY <1>2, MeshInvariant, PTL

\* Every map names connections there are, every side a key there is.
THEOREM MeshTypeCorrect == Spec => []TypeOK
<1>1. IInv => TypeOK
  BY DEF IInv
<1> QED
  BY <1>1, MeshInvariant, PTL

=============================================================================
