----------------------------- MODULE Transport -----------------------------
(***************************************************************************)
(* The connection between two nodes as a pair of byte streams (peer.go,    *)
(* Broadcast of p2p.go, the dispatch of handleMessage in handler.go).  A   *)
(* ReadLoop at each end reads a line, handles it and writes the answer     *)
(* before it reads the next; goroutines of Broadcast and SyncWithPeer      *)
(* write beside it, one writer at a time.  A socket holds what the other   *)
(* end has not read yet up to its room, and a Write blocks when it is      *)
(* full.  A client of one of the nodes has its own connection and ReadLoop *)
(* and shares with the connection of the nodes what EXECUTE broadcasts.    *)
(*                                                                         *)
(* A line is known by its kind; its length counts in units of which a      *)
(* socket holds a few.                                                     *)
(***************************************************************************)
EXTENDS Integers, Sequences, FiniteSetsExt

CONSTANTS Ends,     \* the two ends of the connection
          Server,   \* the end at the node that has a client
          Says,     \* the messages that each node sends unasked
          Size,     \* the units of a line of each kind
          MaxRoom   \* bound: the largest room of a socket

Announcement == {"NEW_BLOCK", "TRANSACTION", "IDENTITY"}
Kind == Announcement \cup {"GET_CHAIN", "SEND_CHAIN", "response"}
Message == [kind : Announcement \cup {"GET_CHAIN"}, id : Nat]

\* what BroadcastNewTransaction sends for the client's command
Gossip == [kind |-> "TRANSACTION", id |-> 0]

ASSUME TransportAssumption ==
    /\ Server \in Ends /\ Cardinality(Ends) = 2
    /\ Says \in [Ends -> SUBSET (Message \ {Gossip})]
    /\ Size \in [Kind -> Nat \ {0}]
    /\ MaxRoom \in Nat \ {0}

VARIABLES room,     \* what a socket of this connection holds
          standing, \* does the connection stand?
          todo,     \* the messages of each end whose goroutine has no writeLock yet
          writing,  \* the line for which the writeLock of an end is held
          wire,     \* the units on the way to each end
          answer,   \* the answer that the ReadLoop of an end has still to write
          client    \* what has become of the client's EXECUTE

transportVars == <<room, standing, todo, writing, wire, answer, client>>

None == "none"
\* "left" units of a line are still to be written, by the ReadLoop or by another
Free == [kind |-> None, left |-> 0, loop |-> FALSE]

TransportInit ==
    /\ room \in 1..MaxRoom
    /\ standing = TRUE
    /\ todo = Says
    /\ writing = [e \in Ends |-> Free]
    /\ wire = [e \in Ends |-> <<>>]
    /\ answer = [e \in Ends |-> None]
    /\ client = "idle"

OtherEnd(e) == CHOOSE f \in Ends : f # e

-----------------------------------------------------------------------------
\* mutant: a response is an unknown command like others, and answered so
EchoReplies(k) ==
    CASE k = "GET_CHAIN"  -> {"SEND_CHAIN"}
      [] k = "SEND_CHAIN" -> {None, "response"}
      [] OTHER            -> {"response"}

\* handleMessage: what may be the answer to a line.  Of SEND_CHAIN only errors
\* are told, and a line without a type is a response and gets none.
Replies(k) ==
    CASE k = "GET_CHAIN"       -> {"SEND_CHAIN"}
      [] k = "SEND_CHAIN"      -> {None, "response"}
      [] k \in Announcement    -> {"response"}
      [] k = "response"        -> {None}

\* Send: the goroutine of a message gets the writeLock
SendMessage(e) ==
    /\ standing /\ writing[e] = Free
    /\ \E m \in todo[e] :
         /\ todo' = [todo EXCEPT ![e] = @ \ {m}]
         /\ writing' = [writing EXCEPT ![e] =
                          [kind |-> m.kind, left |-> Size[m.kind], loop |-> FALSE]]
    /\ UNCHANGED <<room, standing, wire, answer, client>>

\* Send: the ReadLoop gets the writeLock for its answer
SendAnswer(e) ==
    /\ standing /\ writing[e] = Free /\ answer[e] # None
    /\ writing' = [writing EXCEPT ![e] =
                     [kind |-> answer[e], left |-> Size[answer[e]], loop |-> TRUE]]
    /\ UNCHANGED <<room, standing, todo, wire, answer, client>>

\* Conn.Write: one unit goes out when the socket has room for it; after the last
\* one Send returns
Write(e) ==
    LET line == writing[e] IN
      /\ standing /\ line # Free /\ Len(wire[OtherEnd(e)]) < room
      /\ wire' = [wire EXCEPT ![OtherEnd(e)] = Append(@, <<line.kind, line.left - 1>>)]
      /\ writing' = [writing EXCEPT ![e] =
                       IF line.left = 1 THEN Free ELSE [line EXCEPT !.left = line.left - 1]]
      /\ answer' = [answer EXCEPT ![e] = IF line.left = 1 /\ line.loop THEN None ELSE @]
      /\ UNCHANGED <<room, standing, todo, client>>

\* ReadLoop: a unit is read, and the line is handled with its last one
Read(e) ==
    /\ standing /\ answer[e] = None /\ wire[e] # <<>>
    /\ wire' = [wire EXCEPT ![e] = Tail(@)]
    /\ LET unit == Head(wire[e]) IN
         IF unit[2] > 0 THEN UNCHANGED answer
         ELSE \E k \in Replies(unit[1]) : answer' = [answer EXCEPT ![e] = k]
    /\ UNCHANGED <<room, standing, todo, writing, client>>

\* the connection breaks: every Read and Write fails, both ReadLoops end
Disconnect ==
    /\ standing /\ standing' = FALSE
    /\ todo' = [e \in Ends |-> {}]
    /\ writing' = [e \in Ends |-> Free]
    /\ wire' = [e \in Ends |-> <<>>]
    /\ answer' = [e \in Ends |-> None]
    /\ UNCHANGED <<room, client>>

-----------------------------------------------------------------------------
\* the client sends EXECUTE on a connection of its own
Ask ==
    /\ client = "idle" /\ client' = "asked"
    /\ UNCHANGED <<room, standing, todo, writing, wire, answer>>

\* the ReadLoop of the client runs the command and broadcasts it: Broadcast
\* starts a goroutine for each peer
Execute ==
    /\ client = "asked" /\ client' = "run"
    /\ todo' = [todo EXCEPT ![Server] = IF standing THEN @ \cup {Gossip} ELSE @]
    /\ UNCHANGED <<room, standing, writing, wire, answer>>

\* mutant: Broadcast sends to the peers itself, so the client waits for them
AnswerAfterSend ==
    /\ client = "run" /\ Gossip \notin todo[Server]
    /\ writing[Server] # Free => writing[Server].kind # Gossip.kind
    /\ client' = "answered"
    /\ UNCHANGED <<room, standing, todo, writing, wire, answer>>

AnswerClient ==
    /\ client = "run" /\ client' = "answered"
    /\ UNCHANGED <<room, standing, todo, writing, wire, answer>>

TransportNext ==
    \/ \E e \in Ends : SendMessage(e) \/ SendAnswer(e) \/ Write(e) \/ Read(e)
    \/ Ask \/ Execute \/ AnswerClient
    \/ Disconnect

TransportSpec == TransportInit /\ [][TransportNext]_transportVars

\* goroutines that can go on do; nobody has to ask, and nothing has to break
TransportFairness ==
    /\ \A e \in Ends : /\ WF_transportVars(SendMessage(e)) /\ WF_transportVars(SendAnswer(e))
                       /\ WF_transportVars(Write(e)) /\ WF_transportVars(Read(e))
    /\ WF_transportVars(Execute) /\ WF_transportVars(AnswerClient)

TransportFairSpec == TransportSpec /\ TransportFairness

-----------------------------------------------------------------------------
(* properties                                                              *)

\* the units that the end which sends message m writes for its sake (an answer to
\* GET_CHAIN may be answered with an error), and those that the other end writes
OwnUnits(m) == Size[m.kind] + (IF m.kind = "GET_CHAIN" THEN Size["response"] ELSE 0)
OtherUnits(m) == IF m.kind = "GET_CHAIN" THEN Size["SEND_CHAIN"] ELSE Size["response"]

Sent(e) == Says[e] \cup (IF e = Server THEN {Gossip} ELSE {})

\* all that an end may ever write
Load(e) == MapThenSumSet(OwnUnits, Sent(e)) + MapThenSumSet(OtherUnits, Sent(OtherEnd(e)))

AtRest ==
    \A e \in Ends : todo[e] = {} /\ writing[e] = Free /\ wire[e] = <<>> /\ answer[e] = None

\* handler.go:97-99: responses are not processed as requests "to avoid loops".
\* What two nodes have to tell each other is told, answered and over in the end,
\* when the socket of one direction can hold all that is ever written to it.
Settles == (\E e \in Ends : Load(e) <= room) => <>[]AtRest

\* A client's command is answered, however the connections of the node to its
\* peers stand, blocked or broken.
ClientServed == client = "asked" ~> client = "answered"

\* That no such condition was needed: false, since two ReadLoops that both write
\* to full sockets wait for each other.
AlwaysSettles == <>[]AtRest
=============================================================================
