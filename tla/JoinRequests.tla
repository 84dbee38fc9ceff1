---------------------------- MODULE JoinRequests ----------------------------
(***************************************************************************)
(* Joining the network: the JOIN and APPROVE handlers, the timers that let *)
(* a request expire (internal/server/p2p.go) and the write of an accepted  *)
(* peer to config.yaml (SaveConfig, internal/config/build.go).  Handlers   *)
(* run on the goroutine of their connection and timers on their own; all   *)
(* but the arming of a timer happens under the server's lock, which        *)
(* persistPeer also keeps while it writes the file.  The process may crash *)
(* between any two steps, and any write may fail.  The connection that an  *)
(* approval starts (go ConnectAndSync) belongs to PeerMesh.                *)
(***************************************************************************)
EXTENDS Naturals

CONSTANTS Endpoints,   \* what the address of a request may be
          Self,        \* the endpoint this node advertises
          Configured,  \* the peers config.yaml lists when the node first starts
          Threads,     \* connections
          TTL,         \* JoinRequestTTL, in ticks of the clock
          LastJoin,    \* bound: no JOIN arrives after this time
          MaxJoins,    \* bound: JOINs of one endpoint
          MaxTime,     \* bound on the clock
          DiskErrors   \* may a write to the file system fail?

ASSUME JoinAssumption ==
    /\ Configured \subseteq Endpoints
    /\ TTL \in Nat \ {0}
    /\ LastJoin \in Nat /\ MaxTime \in Nat
    /\ MaxJoins \in [Endpoints -> Nat]
    /\ DiskErrors \in BOOLEAN

Free == "free"

ASSUME FreeAssumption == Free \notin Threads

VARIABLES now,       \* time.Now()
          pending,   \* PendingJoins: the deadline of each request
          timers,    \* the armed timers, as <<endpoint, time they are due>>
          call,      \* where each handler is, and its local state
          lock,      \* the handler in persistPeer that holds the lock, or Free
          peers,     \* in memory: config.Peers
          file,      \* on disk: config.yaml, its peers and whether it is whole
          tmp,       \* on disk: config.yaml.tmp, likewise
          asked,     \* history: the number of JOINs of each endpoint
          approved,  \* history: the number of approvals of each endpoint
          accepted,  \* history: endpoints whose APPROVE was answered Success
          failed     \* history: those for which SaveConfig failed

vars == <<now, pending, timers, call, lock, peers, file, tmp, asked, approved, accepted, failed>>
disk == <<file, tmp>>
history == <<asked, approved, accepted, failed>>

Content == [whole : BOOLEAN, peers : SUBSET Endpoints]
Whole(ps) == [whole |-> TRUE, peers |-> ps]
Torn == [whole |-> FALSE, peers |-> {}]  \* missing, empty or half written

Idle == [at |-> "idle"]
Call == [at : {"arm", "persist", "open", "write", "rename"},
         endpoint : Endpoints, due : Nat] \cup {Idle}

Pending == DOMAIN pending

TypeOK ==
    /\ now \in Nat
    /\ Pending \subseteq Endpoints /\ pending \in [Pending -> Nat]
    /\ timers \subseteq Endpoints \X Nat
    /\ call \in [Threads -> Call]
    /\ lock \in Threads \cup {Free}
    /\ peers \subseteq Endpoints
    /\ file \in Content /\ tmp \in Content
    /\ asked \in [Endpoints -> Nat] /\ approved \in [Endpoints -> Nat]
    /\ accepted \subseteq Endpoints /\ failed \subseteq Endpoints

None == [e \in {} |-> 0]

Init ==
    /\ now = 0
    /\ pending = None
    /\ timers = {}
    /\ call = [t \in Threads |-> Idle]
    /\ lock = Free
    /\ peers = Configured
    /\ file = Whole(Configured)
    /\ tmp = Torn
    /\ asked = [e \in Endpoints |-> 0]
    /\ approved = [e \in Endpoints |-> 0]
    /\ accepted = {} /\ failed = {}

-----------------------------------------------------------------------------
Tick ==
    /\ now < MaxTime
    /\ now' = now + 1
    /\ UNCHANGED <<pending, timers, call, lock, peers, disk, history>>

Goto(t, state) == call' = [call EXCEPT ![t] = state]

At(t, label) == call[t].at = label

Without(e) == [f \in Pending \ {e} |-> pending[f]]

\* JOIN: addPendingJoin sets or renews the deadline under the lock ...
Join(t, e) ==
    /\ At(t, "idle") /\ lock = Free
    /\ now <= LastJoin /\ asked[e] < MaxJoins[e]
    /\ pending' = [f \in Pending \cup {e} |-> IF f = e THEN now + TTL ELSE pending[f]]
    /\ asked' = [asked EXCEPT ![e] = @ + 1]
    /\ Goto(t, [at |-> "arm", endpoint |-> e, due |-> now + TTL])
    /\ UNCHANGED <<now, timers, lock, peers, disk, approved, accepted, failed>>

\* mutant: the arguments of the timer are swapped
ArmSwapped(t) ==
    /\ At(t, "arm")
    /\ timers' = timers \cup {<<call[t].due, call[t].endpoint>>}
    /\ Goto(t, Idle)
    /\ UNCHANGED <<now, pending, lock, peers, disk, history>>

\* mutant: an endpoint that has a timer gets no second one
ArmOnce(t) ==
    /\ At(t, "arm")
    /\ timers' = IF \E timer \in timers : timer[1] = call[t].endpoint
                 THEN timers
                 ELSE timers \cup {<<call[t].endpoint, call[t].due>>}
    /\ Goto(t, Idle)
    /\ UNCHANGED <<now, pending, lock, peers, disk, history>>

\* ... and arms a timer for that deadline after it let go of the lock
Arm(t) ==
    /\ At(t, "arm")
    /\ timers' = timers \cup {<<call[t].endpoint, call[t].due>>}
    /\ Goto(t, Idle)
    /\ UNCHANGED <<now, pending, lock, peers, disk, history>>

\* mutant: a request is over after its deadline, not at it
OverLate(e) == e \in Pending /\ now > pending[e]

\* what expirePendingJoin deletes: not a request that was renewed meanwhile
Over(e) == e \in Pending /\ ~ (now < pending[e])

\* a timer fires, at its time or later: expirePendingJoin
Expire(timer) ==
    /\ timer \in timers /\ now >= timer[2] /\ lock = Free
    /\ timers' = timers \ {timer}
    /\ pending' = IF Over(timer[1]) THEN Without(timer[1]) ELSE pending
    /\ UNCHANGED <<now, call, lock, peers, disk, history>>

-----------------------------------------------------------------------------
\* mutant: the request stays for the next approval
ApproveKeeps(t, e) ==
    /\ At(t, "idle") /\ lock = Free
    /\ e \in Pending /\ ~ (now > pending[e])
    /\ approved' = [approved EXCEPT ![e] = @ + 1]
    /\ Goto(t, [at |-> "persist", endpoint |-> e, due |-> 0])
    /\ UNCHANGED <<now, pending, timers, lock, peers, disk, asked, accepted, failed>>

\* APPROVE: approvePendingJoin takes the request out, unless it is over
Approve(t, e) ==
    /\ At(t, "idle") /\ lock = Free
    /\ e \in Pending /\ ~ (now > pending[e])
    /\ pending' = Without(e)
    /\ approved' = [approved EXCEPT ![e] = @ + 1]
    /\ Goto(t, [at |-> "persist", endpoint |-> e, due |-> 0])
    /\ UNCHANGED <<now, timers, lock, peers, disk, asked, accepted, failed>>

\* APPROVE is answered Success, whatever became of the file
Accept(t) ==
    /\ accepted' = accepted \cup {call[t].endpoint}
    /\ Goto(t, Idle)

\* persistPeer, nothing to do: our own endpoint, or one that is listed
Listed(t) ==
    /\ At(t, "persist")
    /\ \/ call[t].endpoint = Self
       \/ lock = Free /\ call[t].endpoint \in peers
    /\ Accept(t)
    /\ UNCHANGED <<now, pending, timers, lock, peers, disk, asked, approved, failed>>

\* mutant: the lock is let go before the file is written
PersistUnlocked(t) ==
    /\ At(t, "persist") /\ lock = Free
    /\ call[t].endpoint \notin peers \cup {Self}
    /\ peers' = peers \cup {call[t].endpoint}
    /\ Goto(t, [call[t] EXCEPT !.at = "open"])
    /\ UNCHANGED <<now, pending, timers, lock, disk, history>>

\* persistPeer takes the lock and appends the endpoint to config.Peers
Persist(t) ==
    /\ At(t, "persist") /\ lock = Free
    /\ call[t].endpoint \notin peers \cup {Self}
    /\ lock' = t
    /\ peers' = peers \cup {call[t].endpoint}
    /\ Goto(t, [call[t] EXCEPT !.at = "open"])
    /\ UNCHANGED <<now, pending, timers, disk, history>>

-----------------------------------------------------------------------------
\* SaveConfig

\* mutant: config.yaml itself is opened
OpenInPlace(t) ==
    /\ At(t, "open")
    /\ file' = Torn
    /\ Goto(t, [call[t] EXCEPT !.at = "write"])
    /\ UNCHANGED <<now, pending, timers, lock, peers, tmp, history>>

\* os.WriteFile truncates the temporary file ...
OpenTmp(t) ==
    /\ At(t, "open")
    /\ tmp' = Torn
    /\ Goto(t, [call[t] EXCEPT !.at = "write"])
    /\ UNCHANGED <<now, pending, timers, lock, peers, file, history>>

\* ... and writes it
WriteTmp(t) ==
    /\ At(t, "write")
    /\ tmp' = Whole(peers)
    /\ Goto(t, [call[t] EXCEPT !.at = "rename"])
    /\ UNCHANGED <<now, pending, timers, lock, peers, file, history>>

\* mutant: the temporary file is left where it is
RenameForgotten(t) ==
    /\ At(t, "rename")
    /\ lock' = Free
    /\ Accept(t)
    /\ UNCHANGED <<now, pending, timers, peers, disk, asked, approved, failed>>

\* os.Rename replaces the file; persistPeer lets go of the lock
Rename(t) ==
    /\ At(t, "rename")
    /\ file' = tmp
    /\ tmp' = Torn
    /\ lock' = Free
    /\ Accept(t)
    /\ UNCHANGED <<now, pending, timers, peers, asked, approved, failed>>

\* one of the three fails: persistPeer prints the error and returns
SaveFails(t) ==
    /\ DiskErrors /\ call[t].at \in {"open", "write", "rename"}
    /\ lock' = Free
    /\ failed' = failed \cup {call[t].endpoint}
    /\ Accept(t)
    /\ UNCHANGED <<now, pending, timers, peers, disk, asked, approved>>

\* the process stops; the next one loads config.yaml and has no requests
Restart ==
    /\ file.whole
    /\ pending' = None
    /\ timers' = {}
    /\ call' = [t \in Threads |-> Idle]
    /\ lock' = Free
    /\ peers' = file.peers
    /\ UNCHANGED <<now, disk, history>>

-----------------------------------------------------------------------------
Save(t) == OpenTmp(t) \/ WriteTmp(t) \/ Rename(t) \/ SaveFails(t)

Proceed(t) == Arm(t) \/ Listed(t) \/ Persist(t) \/ Save(t)

Next ==
    \/ Tick
    \/ Restart
    \/ \E timer \in timers : Expire(timer)
    \/ \E t \in Threads : Proceed(t)
    \/ \E t \in Threads, e \in Endpoints : Join(t, e) \/ Approve(t, e)

Spec == Init /\ [][Next]_vars

\* The clock runs, a timer that is due fires and a goroutine that can run does.
Fairness ==
    /\ WF_vars(Tick)
    /\ WF_vars(\E timer \in timers : Expire(timer))
    /\ \A t \in Threads : WF_vars(Proceed(t))

FairSpec == Spec /\ Fairness

-----------------------------------------------------------------------------
\* Every request has a timer that is due no later than at its deadline and
\* will find it over, or the handler about to arm it: none is leaked by
\* renewals, approvals and late timers.
HasTimer(e) ==
    \/ <<e, pending[e]>> \in timers
    \/ \E t \in Threads :
         At(t, "arm") /\ call[t].endpoint = e /\ call[t].due = pending[e]
EveryRequestTimed == \A e \in Pending : HasTimer(e)

\* A JOIN is approved at most once, also by two approvals and a timer that
\* meet at its deadline; a request that is still pending is yet to be.
OneApprovalPerJoin ==
    \A e \in Endpoints :
        approved[e] + (IF e \in Pending THEN 1 ELSE 0) <= asked[e]

\* config.yaml can be loaded at any moment, and holds nothing but configured
\* and approved peers (p2p.go:48: "join requests are never stored here, only
\* accepted peers are").
FileLoads ==
    /\ file.whole
    /\ file.peers \subseteq Configured \cup {e \in Endpoints : approved[e] > 0}

\* What was in the file stays in it: concurrent approvals do not overwrite
\* each other's peers.
FileOnlyGrows == [][file.peers \subseteq file'.peers]_vars

\* Once nobody asks any more, every request goes away: by approval, by its
\* timer or with the process.
RequestsEnd == \A e \in Endpoints : []<>(e \notin Pending)

\* The same comment, the other half: an accepted peer is in the file, but for
\* one whose SaveConfig failed (which persistPeer prints and nobody repeats).
AcceptedStored == accepted \subseteq file.peers \cup failed \cup {Self}
=============================================================================
