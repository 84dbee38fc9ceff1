------------------------- MODULE JoinRequestsProofs -------------------------
(***************************************************************************)
(* Proofs about JoinRequests for any endpoints, connections, times and     *)
(* bounds, with and without failing writes.  That config.yaml can always   *)
(* be loaded rests on who may touch the temporary file: SaveConfig runs    *)
(* under the lock (LockHeld), so that what a handler renames is the list   *)
(* it has in memory (SaveGood), and that list holds no endpoint that was   *)
(* not approved (PeersApproved).                                           *)
(***************************************************************************)
EXTENDS JoinRequests, TLAPS

Saving(t) == call[t].at \in {"open", "write", "rename"}

LockHeld == \A t \in Threads : Saving(t) => lock = t

SaveGood ==
  /\ file.whole /\ file.peers \subseteq peers
  /\ \A t \in Threads : At(t, "rename") => tmp = Whole(peers)

WasApproved == {e \in Endpoints : approved[e] > 0}

PeersApproved ==
  /\ peers \subseteq Configured \cup WasApproved
  /\ \A t \in Threads : (Saving(t) \/ At(t, "persist")) => call[t].endpoint \in WasApproved

FileInv == TypeOK /\ LockHeld /\ SaveGood /\ PeersApproved

-----------------------------------------------------------------------------
\* What a file holds after it was written, and after it was only opened.
LEMMA ContentFacts ==
  /\ Torn \in Content /\ ~ Torn.whole
  /\ \A ps \in SUBSET Endpoints : Whole(ps) \in Content /\ Whole(ps).whole /\ Whole(ps).peers = ps
BY DEF Torn, Whole, Content

\* A connection between two calls, and the states a call may move to.
LEMMA IdleFacts ==
  /\ Idle \in Call /\ Idle.at = "idle"
  /\ \A c \in Call : c.at # "idle" =>
       /\ c.endpoint \in Endpoints /\ c.due \in Nat
       /\ c.at \in {"arm", "persist", "open", "write", "rename"}
       /\ \A label \in {"open", "write", "rename"} : [c EXCEPT !.at = label] \in Call
BY DEF Idle, Call

\* The file is the configured one and nobody writes it.
LEMMA InitInv == Init => FileInv
<1> SUFFICES ASSUME Init PROVE FileInv
  OBVIOUS
<1>1. TypeOK
  BY IdleFacts, ContentFacts, JoinAssumption DEF Init, TypeOK, Pending, None
<1>2. \A t \in Threads : call[t].at = "idle"
  BY IdleFacts DEF Init
<1>3. LockHeld /\ SaveGood /\ PeersApproved
  BY <1>2, ContentFacts, JoinAssumption
     DEF Init, LockHeld, SaveGood, PeersApproved, Saving, At, WasApproved
<1> QED
  BY <1>1, <1>3 DEF FileInv

\* Each action keeps the types.
LEMMA TypeNext == TypeOK /\ [Next]_vars => TypeOK'
<1> SUFFICES ASSUME TypeOK, [Next]_vars PROVE TypeOK'
  OBVIOUS
<1> USE IdleFacts, ContentFacts, JoinAssumption
<1>1. CASE UNCHANGED vars
  BY <1>1 DEF TypeOK, vars, disk, history, Pending
<1>2. CASE Tick
  BY <1>2 DEF TypeOK, Tick, disk, history, Pending
<1>3. CASE Restart
  <2>1. pending' = None /\ None \in [{} -> Nat] /\ DOMAIN None = {}
    BY <1>3 DEF Restart, None
  <2> QED
    BY <1>3, <2>1 DEF TypeOK, Restart, disk, history, Pending, Content
<1>4. ASSUME NEW timer \in timers, Expire(timer) PROVE TypeOK'
  <2>1. DOMAIN pending' \subseteq Endpoints /\ pending' \in [DOMAIN pending' -> Nat]
    <3>1. timer[1] \in Endpoints
      BY DEF TypeOK
    <3>2. DOMAIN Without(timer[1]) = Pending \ {timer[1]}
          /\ Without(timer[1]) \in [Pending \ {timer[1]} -> Nat]
      BY DEF Without, TypeOK, Pending
    <3> QED
      BY <1>4, <3>1, <3>2 DEF Expire, TypeOK, Pending
  <2> QED
    BY <1>4, <2>1 DEF Expire, TypeOK, disk, history, Pending
<1>5. ASSUME NEW t \in Threads, Proceed(t) PROVE TypeOK'
  <2> USE DEF TypeOK, Pending, history
  <2>1. call[t] \in Call /\ \A c \in Call : [call EXCEPT ![t] = c] \in [Threads -> Call]
    OBVIOUS
  <2>2. call[t].at # "idle" =>
          /\ call[t].endpoint \in Endpoints
          /\ <<call[t].endpoint, call[t].due>> \in Endpoints \X Nat
          /\ \A l \in {"open", "write", "rename"} : [call[t] EXCEPT !.at = l] \in Call
    BY <2>1
  <2> HIDE IdleFacts
  <2>3. Idle \in Call
    BY IdleFacts
  <2>4. CASE Arm(t)
    BY <2>1, <2>2, <2>3, <2>4 DEF Arm, disk, At, Goto
  <2>5. CASE Listed(t)
    BY <2>1, <2>2, <2>3, <2>5 DEF Listed, Accept, disk, At, Goto
  <2>6. CASE Persist(t)
    BY <2>1, <2>2, <2>3, <2>6 DEF Persist, disk, At, Goto
  <2>7. CASE OpenTmp(t)
    BY <2>1, <2>2, <2>3, <2>7 DEF OpenTmp, At, Goto
  <2>8. CASE WriteTmp(t)
    BY <2>1, <2>2, <2>3, <2>8 DEF WriteTmp, At, Goto
  <2>9. CASE Rename(t)
    BY <2>1, <2>2, <2>3, <2>9 DEF Rename, Accept, At, Goto
  <2>10. CASE SaveFails(t)
    BY <2>1, <2>2, <2>3, <2>10 DEF SaveFails, Accept, disk, At, Goto
  <2> QED
    BY <1>5, <2>4, <2>5, <2>6, <2>7, <2>8, <2>9, <2>10 DEF Proceed, Save
<1>6. ASSUME NEW t \in Threads, NEW e \in Endpoints, Join(t, e) PROVE TypeOK'
  <2>1. [at |-> "arm", endpoint |-> e, due |-> now + TTL] \in Call
    BY DEF Call, TypeOK
  <2>2. DOMAIN pending' \subseteq Endpoints /\ pending' \in [DOMAIN pending' -> Nat]
    BY <1>6 DEF Join, TypeOK, Pending
  <2>3. asked' \in [Endpoints -> Nat]
    BY <1>6 DEF Join, TypeOK
  <2> QED
    BY <1>6, <2>1, <2>2, <2>3 DEF Join, TypeOK, disk, Pending, Goto
<1>7. ASSUME NEW t \in Threads, NEW e \in Endpoints, Approve(t, e) PROVE TypeOK'
  <2>1. [at |-> "persist", endpoint |-> e, due |-> 0] \in Call
    BY DEF Call
  <2>2. DOMAIN pending' \subseteq Endpoints /\ pending' \in [DOMAIN pending' -> Nat]
    BY <1>7 DEF Approve, Without, TypeOK, Pending
  <2>3. approved' \in [Endpoints -> Nat]
    BY <1>7 DEF Approve, TypeOK
  <2> QED
    BY <1>7, <2>1, <2>2, <2>3 DEF Approve, TypeOK, disk, Pending, Goto
<1> QED
  BY <1>1, <1>2, <1>3, <1>4, <1>5, <1>6, <1>7 DEF Next

-----------------------------------------------------------------------------
\* What Goto does to the calls, and what a handler under way holds.
LEMMA GotoFacts ==
  ASSUME TypeOK, NEW t \in Threads, NEW state \in Call, Goto(t, state)
  PROVE  call'[t] = state /\ \A u \in Threads \ {t} : call'[u] = call[u]
BY DEF TypeOK, Goto

\* A handler under way that moves on to another label.
LEMMA RelabelFacts ==
  ASSUME TypeOK, NEW t \in Threads, NEW label \in {"open", "write", "rename"},
         call[t].at # "idle", Goto(t, [call[t] EXCEPT !.at = label])
  PROVE  /\ call'[t].at = label /\ call'[t].endpoint = call[t].endpoint
         /\ \A u \in Threads \ {t} : call'[u] = call[u]
<1> DEFINE c == call[t]
           moved == [c EXCEPT !.at = label]
<1>1. c \in Call /\ c.at # "idle"
  BY DEF TypeOK
<1> HIDE DEF c
<1>2. moved \in Call /\ moved.at = label /\ moved.endpoint = c.endpoint
  <2>1. c \in [at : {"arm", "persist", "open", "write", "rename"}, endpoint : Endpoints, due : Nat]
    BY <1>1 DEF Call, Idle
  <2>2. moved.at = label /\ moved.endpoint = c.endpoint
    BY <2>1
  <2>3. moved \in [at : {"arm", "persist", "open", "write", "rename"}, endpoint : Endpoints, due : Nat]
    BY <2>1
  <2> QED
    BY <2>2, <2>3 DEF Call
<1>3. Goto(t, moved)
  BY DEF c
<1> HIDE DEF moved
<1>4. call'[t] = moved /\ \A u \in Threads \ {t} : call'[u] = call[u]
  BY <1>2, <1>3, GotoFacts
<1> QED
  BY <1>2, <1>4 DEF c

\* Only the handler that holds the lock saves, so that two never do.
LEMMA OneSaves ==
  ASSUME LockHeld, NEW t \in Threads, Saving(t) \/ lock = Free
  PROVE  \A u \in Threads \ {t} : ~ Saving(u)
BY FreeAssumption DEF LockHeld

\* Each action keeps the lock with the one handler that saves, the file whole
\* and the peers approved.
LEMMA FileNext == FileInv /\ [Next]_vars => (LockHeld /\ SaveGood /\ PeersApproved)'
<1> SUFFICES ASSUME FileInv, [Next]_vars PROVE (LockHeld /\ SaveGood /\ PeersApproved)'
  OBVIOUS
<1> USE DEF FileInv
<1>0. Idle \in Call /\ Idle.at = "idle"
  BY IdleFacts
\* steps that leave lock, disk and the list of peers alone
<1>1. ASSUME NEW t \in Threads, UNCHANGED <<lock, disk, peers>>,
             WasApproved \subseteq WasApproved',
             \A u \in Threads \ {t} : call'[u] = call[u],
             \/ call'[t].at \in {"idle", "arm"} \/ call'[t] = call[t]
             \/ call'[t].at = "persist" /\ call'[t].endpoint \in WasApproved'
      PROVE  (LockHeld /\ SaveGood /\ PeersApproved)'
  BY <1>1 DEF LockHeld, SaveGood, PeersApproved, Saving, At, disk
<1>2. CASE UNCHANGED vars \/ Tick \/ \E timer \in timers : Expire(timer)
  <2>1. UNCHANGED <<lock, disk, peers, call, approved>>
    BY <1>2 DEF vars, Tick, Expire, history, disk
  <2> QED
    BY <2>1 DEF LockHeld, SaveGood, PeersApproved, Saving, At, disk, WasApproved
<1>3. CASE Restart
  <2>1. \A t \in Threads : call'[t].at = "idle"
    BY <1>0, <1>3 DEF Restart
  <2>2. file' = file /\ peers' = file.peers /\ approved' = approved
    BY <1>3 DEF Restart, disk, history
  <2> QED
    BY <2>1, <2>2 DEF LockHeld, SaveGood, PeersApproved, Saving, At, WasApproved
<1>4. ASSUME NEW t \in Threads, NEW e \in Endpoints, Join(t, e)
      PROVE  (LockHeld /\ SaveGood /\ PeersApproved)'
  <2>1. [at |-> "arm", endpoint |-> e, due |-> now + TTL] \in Call
    BY JoinAssumption DEF Call, TypeOK
  <2>2. call'[t].at = "arm" /\ \A u \in Threads \ {t} : call'[u] = call[u]
    BY <1>4, <2>1, GotoFacts DEF Join
  <2> QED
    BY <1>4, <2>2, <1>1 DEF Join, WasApproved
<1>5. ASSUME NEW t \in Threads, NEW e \in Endpoints, Approve(t, e)
      PROVE  (LockHeld /\ SaveGood /\ PeersApproved)'
  <2>1. [at |-> "persist", endpoint |-> e, due |-> 0] \in Call
    BY DEF Call
  <2>2. call'[t] = [at |-> "persist", endpoint |-> e, due |-> 0]
        /\ \A u \in Threads \ {t} : call'[u] = call[u]
    BY <1>5, <2>1, GotoFacts DEF Approve
  <2>3. WasApproved' = WasApproved \cup {e}
    BY <1>5 DEF Approve, WasApproved, TypeOK
  <2> QED
    BY <1>5, <2>2, <2>3, <1>1 DEF Approve
<1>6. ASSUME NEW t \in Threads, Proceed(t) PROVE (LockHeld /\ SaveGood /\ PeersApproved)'
  <2>1. WasApproved' = WasApproved
    BY <1>6 DEF Proceed, Save, Arm, Listed, Persist, OpenTmp, WriteTmp, Rename, SaveFails,
                history, WasApproved
  <2>2. call[t] \in Call
    BY DEF TypeOK
  <2>3. CASE Arm(t) \/ Listed(t)
    <3>1. call'[t].at = "idle" /\ \A u \in Threads \ {t} : call'[u] = call[u]
      BY <1>0, <2>3, GotoFacts DEF Arm, Listed, Accept
    <3> QED
      BY <2>1, <2>3, <3>1, <1>1 DEF Arm, Listed
  <2>4. CASE Persist(t)
    <3>1. call[t].at = "persist" /\ lock = Free /\ lock' = t
          /\ peers' = peers \cup {call[t].endpoint} /\ UNCHANGED disk
      BY <2>4 DEF Persist, At
    <3>2. /\ call'[t].at = "open" /\ call'[t].endpoint = call[t].endpoint
          /\ \A u \in Threads \ {t} : call'[u] = call[u]
      BY <2>4, <3>1, RelabelFacts DEF Persist
    <3>3. \A u \in Threads \ {t} : ~ Saving(u)
      BY <3>1, OneSaves
    <3>4. call[t].endpoint \in WasApproved
      BY <3>1 DEF PeersApproved, At
    <3> QED
      BY <2>1, <3>1, <3>2, <3>3, <3>4 DEF LockHeld, SaveGood, PeersApproved, Saving, At, disk
  <2>5. CASE OpenTmp(t)
    <3>1. call[t].at = "open" /\ UNCHANGED <<lock, peers, file>>
      BY <2>5 DEF OpenTmp, At
    <3>2. /\ call'[t].at = "write" /\ call'[t].endpoint = call[t].endpoint
          /\ \A u \in Threads \ {t} : call'[u] = call[u]
      BY <2>5, <3>1, RelabelFacts DEF OpenTmp
    <3>3. \A u \in Threads \ {t} : ~ Saving(u)
      BY <3>1, OneSaves DEF Saving
    <3> QED
      BY <2>1, <3>1, <3>2, <3>3 DEF LockHeld, SaveGood, PeersApproved, Saving, At
  <2>6. CASE WriteTmp(t)
    <3>1. call[t].at = "write" /\ UNCHANGED <<lock, peers, file>> /\ tmp' = Whole(peers)
      BY <2>6 DEF WriteTmp, At
    <3>2. /\ call'[t].at = "rename" /\ call'[t].endpoint = call[t].endpoint
          /\ \A u \in Threads \ {t} : call'[u] = call[u]
      BY <2>6, <3>1, RelabelFacts DEF WriteTmp
    <3>3. \A u \in Threads \ {t} : ~ Saving(u)
      BY <3>1, OneSaves DEF Saving
    <3> QED
      BY <2>1, <3>1, <3>2, <3>3 DEF LockHeld, SaveGood, PeersApproved, Saving, At, Whole
  <2>7. CASE Rename(t) \/ SaveFails(t)
    <3>1. Saving(t) /\ UNCHANGED peers
      BY <2>7 DEF Rename, SaveFails, Saving, At
    <3>2. call'[t].at = "idle" /\ \A u \in Threads \ {t} : call'[u] = call[u]
      BY <1>0, <2>7, GotoFacts DEF Rename, SaveFails, Accept
    <3>3. \A u \in Threads \ {t} : ~ Saving(u)
      BY <3>1, OneSaves
    <3>4. file'.whole /\ file'.peers \subseteq peers
      BY <2>7, ContentFacts DEF Rename, SaveFails, SaveGood, TypeOK, disk
    <3> QED
      BY <2>1, <3>1, <3>2, <3>3, <3>4 DEF LockHeld, SaveGood, PeersApproved, Saving, At
  <2> QED
    BY <1>6, <2>3, <2>4, <2>5, <2>6, <2>7 DEF Proceed, Save
<1> QED
  BY <1>2, <1>3, <1>4, <1>5, <1>6 DEF Next

\* Types and file together.
LEMMA InvNext == FileInv /\ [Next]_vars => FileInv'
BY TypeNext, FileNext DEF FileInv

-----------------------------------------------------------------------------
\* A request keeps its timer when its deadline stays, no timer goes away and
\* the handlers that are about to arm one stay where they are.
LEMMA TimerKept ==
  ASSUME NEW e \in Endpoints, HasTimer(e), pending'[e] = pending[e],
         <<e, pending[e]>> \in timers => <<e, pending[e]>> \in timers',
         \A u \in Threads : At(u, "arm") =>
            \/ call'[u] = call[u]
            \/ <<call[u].endpoint, call[u].due>> \in timers'
  PROVE  HasTimer(e)'
BY DEF HasTimer, At

\* Each action leaves every request with a timer for its deadline: an expiry
\* that takes such a timer away takes the request with it.
LEMMA TimedNext == TypeOK /\ EveryRequestTimed /\ [Next]_vars => EveryRequestTimed'
<1> SUFFICES ASSUME TypeOK, EveryRequestTimed, [Next]_vars, NEW e \in Pending'
             PROVE  HasTimer(e)'
  BY DEF EveryRequestTimed
<1>0. Pending \subseteq Endpoints /\ \A f \in Pending : HasTimer(f)
  BY DEF TypeOK, EveryRequestTimed
<1>1. CASE UNCHANGED vars \/ Tick
  <2>1. UNCHANGED <<pending, timers, call>>
    BY <1>1 DEF vars, Tick
  <2> QED
    BY <1>0, <2>1 DEF HasTimer, At, Pending
<1>2. CASE Restart
  BY <1>2 DEF Restart, None, Pending
<1>3. ASSUME NEW timer \in timers, Expire(timer) PROVE HasTimer(e)'
  <2>1. e \in Pending /\ pending'[e] = pending[e] /\ UNCHANGED call
    BY <1>3 DEF Expire, Without, Pending
  <2>2. <<e, pending[e]>> # timer
    <3>1. SUFFICES ASSUME <<e, pending[e]>> = timer PROVE FALSE
      OBVIOUS
    <3>2. timer[1] = e /\ timer[2] = pending[e]
      BY <3>1
    <3>3. now >= pending[e] /\ now \in Nat /\ pending[e] \in Nat
      BY <1>3, <2>1, <3>2 DEF Expire, TypeOK
    <3>4. Over(timer[1])
      BY <2>1, <3>2, <3>3 DEF Over
    <3>5. pending' = Without(timer[1])
      BY <1>3, <3>4 DEF Expire
    <3> QED
      BY <3>2, <3>5 DEF Without, Pending
  <2>3. <<e, pending[e]>> \in timers => <<e, pending[e]>> \in timers'
    BY <1>3, <2>2 DEF Expire
  <2> QED
    BY <1>0, <2>1, <2>3, TimerKept
<1>4. ASSUME NEW t \in Threads, Proceed(t) PROVE HasTimer(e)'
  <2>1. UNCHANGED pending /\ timers \subseteq timers'
    BY <1>4 DEF Proceed, Save, Arm, Listed, Persist, OpenTmp, WriteTmp, Rename, SaveFails
  <2>2. \A u \in Threads \ {t} : call'[u] = call[u]
    BY <1>4 DEF TypeOK, Proceed, Save, Arm, Listed, Persist, OpenTmp, WriteTmp, Rename,
                SaveFails, Accept, Goto
  <2>3. At(t, "arm") => <<call[t].endpoint, call[t].due>> \in timers'
    BY <1>4 DEF Proceed, Save, Arm, Listed, Persist, OpenTmp, WriteTmp, Rename, SaveFails, At
  <2> QED
    BY <1>0, <2>1, <2>2, <2>3, TimerKept DEF Pending
<1>5. ASSUME NEW t \in Threads, NEW f \in Endpoints, Join(t, f) PROVE HasTimer(e)'
  <2> DEFINE new == [at |-> "arm", endpoint |-> f, due |-> now + TTL]
  <2>1. call'[t] = new /\ \A u \in Threads \ {t} : call'[u] = call[u]
    BY <1>5 DEF Join, Goto, TypeOK
  <2>2. CASE e = f
    <3>1. pending'[e] = now + TTL
      BY <1>5, <2>2 DEF Join
    <3>2. new.at = "arm" /\ new.endpoint = f /\ new.due = now + TTL
      OBVIOUS
    <3> QED
      BY <2>1, <2>2, <3>1, <3>2 DEF HasTimer, At
  <2>3. CASE e # f
    <3>1. e \in Pending /\ pending'[e] = pending[e] /\ UNCHANGED timers
      BY <1>5, <2>3 DEF Join, Pending
    <3>2. ~ At(t, "arm")
      BY <1>5 DEF Join, At
    <3> QED
      BY <1>0, <2>1, <3>1, <3>2, TimerKept
  <2> QED
    BY <2>2, <2>3
<1>6. ASSUME NEW t \in Threads, NEW f \in Endpoints, Approve(t, f) PROVE HasTimer(e)'
  <2>1. e \in Pending /\ pending'[e] = pending[e] /\ UNCHANGED timers
    BY <1>6 DEF Approve, Without, Pending
  <2>2. ~ At(t, "arm") /\ \A u \in Threads \ {t} : call'[u] = call[u]
    BY <1>6 DEF Approve, At, Goto, TypeOK
  <2> QED
    BY <1>0, <2>1, <2>2, TimerKept
<1> QED
  BY <1>1, <1>2, <1>3, <1>4, <1>5, <1>6 DEF Next

-----------------------------------------------------------------------------
\* Each action keeps approvals, and the request that is pending, within the JOINs.
LEMMA ApprovalNext == TypeOK /\ OneApprovalPerJoin /\ [Next]_vars => OneApprovalPerJoin'
<1> SUFFICES ASSUME TypeOK, OneApprovalPerJoin, [Next]_vars, NEW e \in Endpoints
             PROVE  (approved[e] + (IF e \in Pending THEN 1 ELSE 0) <= asked[e])'
  BY DEF OneApprovalPerJoin
<1>0. /\ approved[e] \in Nat /\ asked[e] \in Nat
      /\ approved[e] + (IF e \in Pending THEN 1 ELSE 0) <= asked[e]
  BY DEF TypeOK, OneApprovalPerJoin
\* steps that add no request, no approval and no JOIN
<1>1. ASSUME Pending' \subseteq Pending, UNCHANGED <<approved, asked>>
      PROVE  (approved[e] + (IF e \in Pending THEN 1 ELSE 0) <= asked[e])'
  BY <1>0, <1>1
<1>2. CASE UNCHANGED vars \/ Tick \/ Restart
  BY <1>1, <1>2 DEF vars, Tick, Restart, history, None, Pending
<1>3. ASSUME NEW timer \in timers, Expire(timer)
      PROVE  (approved[e] + (IF e \in Pending THEN 1 ELSE 0) <= asked[e])'
  BY <1>1, <1>3 DEF Expire, Without, history, Pending
<1>4. ASSUME NEW t \in Threads, Proceed(t)
      PROVE  (approved[e] + (IF e \in Pending THEN 1 ELSE 0) <= asked[e])'
  BY <1>1, <1>4 DEF Proceed, Save, Arm, Listed, Persist, OpenTmp, WriteTmp, Rename,
                    SaveFails, history, Pending
<1>5. ASSUME NEW t \in Threads, NEW f \in Endpoints, Join(t, f)
      PROVE  (approved[e] + (IF e \in Pending THEN 1 ELSE 0) <= asked[e])'
  <2>1. /\ approved'[e] = approved[e]
        /\ asked'[e] = IF e = f THEN asked[e] + 1 ELSE asked[e]
        /\ e \in Pending' => e \in Pending \/ e = f
    BY <1>5 DEF Join, TypeOK, Pending
  <2> QED
    BY <1>0, <2>1
<1>6. ASSUME NEW t \in Threads, NEW f \in Endpoints, Approve(t, f)
      PROVE  (approved[e] + (IF e \in Pending THEN 1 ELSE 0) <= asked[e])'
  <2>1. /\ asked'[e] = asked[e] /\ f \in Pending
        /\ approved'[e] = IF e = f THEN approved[e] + 1 ELSE approved[e]
        /\ e \in Pending' => e \in Pending /\ e # f
    BY <1>6 DEF Approve, Without, TypeOK, Pending
  <2> QED
    BY <1>0, <2>1
<1> QED
  BY <1>2, <1>3, <1>4, <1>5, <1>6 DEF Next

-----------------------------------------------------------------------------
\* What is in memory is on disk, could not be written, or is being written; what
\* is being written is in memory.
StoredInv ==
  /\ \A e \in peers : \/ e \in file.peers \cup failed
                      \/ \E t \in Threads : Saving(t) /\ call[t].endpoint = e
  /\ \A t \in Threads : Saving(t) => call[t].endpoint \in peers
  /\ AcceptedStored

\* Each action keeps accepted peers in the file, or among the failures.
LEMMA StoredNext == FileInv /\ StoredInv /\ [Next]_vars => StoredInv'
<1> SUFFICES ASSUME FileInv, StoredInv, [Next]_vars PROVE StoredInv'
  OBVIOUS
<1>0. Idle \in Call /\ Idle.at = "idle"
  BY IdleFacts
\* steps before the file, and the end of a call whose peer is there already
<1>1. ASSUME NEW t \in Threads, UNCHANGED <<peers, file, failed>>,
             \A u \in Threads \ {t} : call'[u] = call[u],
             ~ Saving(t), ~ Saving(t)',
             accepted' \subseteq accepted \cup file.peers \cup failed \cup {Self}
      PROVE  StoredInv'
  BY <1>1 DEF StoredInv, AcceptedStored, Saving
<1>2. CASE UNCHANGED vars \/ Tick \/ \E timer \in timers : Expire(timer)
  <2>1. UNCHANGED <<peers, file, failed, call, accepted>>
    BY <1>2 DEF vars, Tick, Expire, history, disk
  <2> QED
    BY <2>1 DEF StoredInv, AcceptedStored, Saving
<1>3. CASE Restart
  <2>1. \A t \in Threads : ~ Saving(t)'
    BY <1>0, <1>3 DEF Restart, Saving
  <2>2. file' = file /\ peers' = file.peers /\ failed' = failed /\ accepted' = accepted
    BY <1>3 DEF Restart, disk, history
  <2> QED
    BY <2>1, <2>2 DEF StoredInv, AcceptedStored
<1>4. ASSUME NEW t \in Threads, NEW e \in Endpoints, Join(t, e) \/ Approve(t, e) PROVE StoredInv'
  <2>1. PICK c \in Call : c.at \in {"arm", "persist"} /\ Goto(t, c)
    <3>1. /\ [at |-> "arm", endpoint |-> e, due |-> now + TTL] \in Call
          /\ [at |-> "persist", endpoint |-> e, due |-> 0] \in Call
      BY JoinAssumption DEF Call, FileInv, TypeOK
    <3>2. CASE Join(t, e)
      BY <3>1, <3>2 DEF Join
    <3>3. CASE Approve(t, e)
      BY <3>1, <3>3 DEF Approve
    <3> QED
      BY <1>4, <3>2, <3>3
  <2>2. call'[t] = c /\ \A u \in Threads \ {t} : call'[u] = call[u]
    BY <2>1, GotoFacts DEF FileInv
  <2>3. ~ Saving(t) /\ UNCHANGED <<peers, file, failed, accepted>>
    BY <1>4 DEF Join, Approve, At, Saving, disk
  <2> QED
    BY <1>1, <2>1, <2>2, <2>3 DEF Saving
<1>5. ASSUME NEW t \in Threads, Proceed(t) PROVE StoredInv'
  <2>1. CASE Arm(t) \/ Listed(t)
    <3>1. call'[t] = Idle /\ \A u \in Threads \ {t} : call'[u] = call[u]
      BY <1>0, <2>1, GotoFacts DEF Arm, Listed, Accept, FileInv
    <3>2. ~ Saving(t) /\ ~ Saving(t)' /\ UNCHANGED <<peers, file, failed>>
      <4>1. call[t].at \in {"arm", "persist"} /\ UNCHANGED <<peers, file, failed>>
        BY <2>1 DEF Arm, Listed, At, disk, history
      <4>2. call'[t].at = "idle"
        BY <1>0, <3>1
      <4> QED
        BY <4>1, <4>2 DEF Saving
    <3>3. accepted' \subseteq accepted \cup file.peers \cup failed \cup {Self}
      <4>1. CASE Arm(t)
        BY <4>1 DEF Arm, history
      <4>2. CASE Listed(t) /\ call[t].endpoint = Self
        BY <4>2 DEF Listed, Accept
      <4>3. CASE Listed(t) /\ call[t].endpoint # Self
        <5>1. lock = Free /\ call[t].endpoint \in peers /\ accepted' = accepted \cup {call[t].endpoint}
          BY <4>3 DEF Listed, Accept
        <5>2. \A u \in Threads : ~ Saving(u)
          BY <5>1, FreeAssumption DEF FileInv, LockHeld
        <5> QED
          BY <5>1, <5>2 DEF StoredInv
      <4> QED
        BY <2>1, <4>1, <4>2, <4>3
    <3> QED
      BY <1>1, <3>1, <3>2, <3>3
  <2>2. CASE Persist(t)
    <3>1. /\ call[t].at = "persist" /\ UNCHANGED <<file, failed, accepted>>
          /\ peers' = peers \cup {call[t].endpoint}
      BY <2>2 DEF Persist, At, disk, history
    <3>2. /\ call'[t].at = "open" /\ call'[t].endpoint = call[t].endpoint
          /\ \A u \in Threads \ {t} : call'[u] = call[u]
      BY <2>2, <3>1, RelabelFacts DEF Persist, FileInv
    <3>3. Saving(t)'
      BY <3>2 DEF Saving
    <3>4. ~ Saving(t)
      BY <3>1 DEF Saving
    <3>5. \A u \in Threads \ {t} : Saving(u)' <=> Saving(u)
      BY <3>2 DEF Saving
    <3>6. ASSUME NEW e \in peers'
          PROVE  \/ e \in file'.peers \cup failed'
                 \/ \E u \in Threads : Saving(u)' /\ call'[u].endpoint = e
      <4>1. CASE e = call[t].endpoint
        BY <3>2, <3>3, <4>1
      <4>2. CASE e \in peers
        <5>1. \/ e \in file.peers \cup failed
              \/ \E u \in Threads \ {t} : Saving(u) /\ call[u].endpoint = e
          BY <3>4, <4>2 DEF StoredInv
        <5> QED
          BY <3>1, <3>2, <3>5, <5>1
      <4> QED
        BY <3>1, <3>6, <4>1, <4>2
    <3>7. \A u \in Threads : Saving(u)' => call'[u].endpoint \in peers'
      BY <3>1, <3>2, <3>5 DEF StoredInv
    <3>8. AcceptedStored'
      BY <3>1 DEF StoredInv, AcceptedStored
    <3> QED
      BY <3>6, <3>7, <3>8 DEF StoredInv
  <2>3. CASE OpenTmp(t) \/ WriteTmp(t)
    <3>1. Saving(t) /\ call[t].at # "idle" /\ UNCHANGED <<peers, file, failed, accepted>>
      BY <2>3 DEF OpenTmp, WriteTmp, At, Saving, history
    <3>2. /\ call'[t].at \in {"write", "rename"} /\ call'[t].endpoint = call[t].endpoint
          /\ \A u \in Threads \ {t} : call'[u] = call[u]
      BY <2>3, <3>1, RelabelFacts DEF OpenTmp, WriteTmp, FileInv
    <3>3. Saving(t)'
      BY <3>2 DEF Saving
    <3> QED
      BY <3>1, <3>2, <3>3 DEF StoredInv, AcceptedStored, Saving
  <2>4. CASE Rename(t) \/ SaveFails(t)
    <3>1. /\ Saving(t) /\ UNCHANGED peers /\ call[t].endpoint \in peers
          /\ accepted' = accepted \cup {call[t].endpoint}
      BY <2>4 DEF Rename, SaveFails, Accept, Saving, At, StoredInv
    <3>2. call'[t].at = "idle" /\ \A u \in Threads \ {t} : call'[u] = call[u]
      BY <1>0, <2>4, GotoFacts DEF Rename, SaveFails, Accept, FileInv
    <3>3. \A u \in Threads : ~ Saving(u)'
      <4>1. \A u \in Threads \ {t} : ~ Saving(u)
        BY <3>1, OneSaves DEF FileInv
      <4> QED
        BY <3>2, <4>1 DEF Saving
    <3>4. peers \subseteq file'.peers \cup failed'
      <4>1. CASE Rename(t)
        BY <4>1, ContentFacts DEF Rename, FileInv, SaveGood, TypeOK
      <4>2. CASE SaveFails(t)
        <5>1. file' = file /\ failed' = failed \cup {call[t].endpoint}
          BY <4>2 DEF SaveFails, disk
        <5>2. \A u \in Threads \ {t} : ~ Saving(u)
          BY <3>1, OneSaves DEF FileInv
        <5> QED
          BY <5>1, <5>2 DEF StoredInv
      <4> QED
        BY <2>4, <4>1, <4>2
    <3>5. file.peers \subseteq file'.peers /\ failed \subseteq failed'
      <4>1. CASE Rename(t)
        BY <4>1, ContentFacts DEF Rename, FileInv, SaveGood, TypeOK
      <4>2. CASE SaveFails(t)
        BY <4>2 DEF SaveFails, disk
      <4> QED
        BY <2>4, <4>1, <4>2
    <3> QED
      BY <3>1, <3>3, <3>4, <3>5 DEF StoredInv, AcceptedStored
  <2> QED
    BY <1>5, <2>1, <2>2, <2>3, <2>4 DEF Proceed, Save
<1> QED
  BY <1>2, <1>3, <1>4, <1>5 DEF Next

-----------------------------------------------------------------------------
\* The invariant the properties of config.yaml follow from.
THEOREM FileInvariant == Spec => []FileInv
BY InitInv, InvNext, PTL DEF Spec

\* Every variable of the join requests keeps its type.
THEOREM JoinTypeCorrect == Spec => []TypeOK
<1>1. FileInv => TypeOK
  BY DEF FileInv
<1> QED
  BY <1>1, FileInvariant, PTL

\* After any crash, config.yaml is whole and holds configured and approved
\* peers only.
THEOREM AlwaysFileLoads == Spec => []FileLoads
<1>1. FileInv => FileLoads
  BY DEF FileInv, SaveGood, PeersApproved, FileLoads, WasApproved
<1> QED
  BY <1>1, FileInvariant, PTL

\* A peer whose approval was answered Success is in config.yaml, unless its
\* own write failed, whatever other approvals, failures and crashes there were.
THEOREM AlwaysAcceptedStored == Spec => []AcceptedStored
<1>1. Init => StoredInv
  BY IdleFacts, ContentFacts, JoinAssumption DEF Init, StoredInv, AcceptedStored, Saving
<1>2. StoredInv => AcceptedStored
  BY DEF StoredInv
<1> QED
  BY <1>1, <1>2, StoredNext, FileInvariant, PTL DEF Spec

\* No step takes a peer out of config.yaml.
THEOREM FileAlwaysGrows == Spec => FileOnlyGrows
<1>1. FileInv /\ [Next]_vars => [file.peers \subseteq file'.peers]_vars
  <2> SUFFICES ASSUME FileInv, [Next]_vars PROVE file.peers \subseteq file'.peers
    OBVIOUS
  <2>1. CASE \E t \in Threads : Rename(t)
    BY <2>1, ContentFacts DEF FileInv, TypeOK, SaveGood, Rename
  <2>2. CASE ~ \E t \in Threads : Rename(t)
    <3>1. UNCHANGED file
      BY <2>2 DEF Next, vars, disk, Tick, Restart, Expire, Proceed, Save, Arm, Listed,
                  Persist, OpenTmp, WriteTmp, SaveFails, Join, Approve
    <3> QED
      BY <3>1
  <2> QED
    BY <2>1, <2>2
<1> QED
  BY <1>1, FileInvariant, PTL DEF Spec, FileOnlyGrows

\* No request is ever without a timer that will find it over.
THEOREM AlwaysTimed == Spec => []EveryRequestTimed
<1>1. Init => EveryRequestTimed
  BY DEF Init, None, Pending, EveryRequestTimed
<1> QED
  BY <1>1, TimedNext, JoinTypeCorrect, PTL DEF Spec

\* No JOIN is approved twice.
THEOREM AlwaysOneApproval == Spec => []OneApprovalPerJoin
<1>1. Init => OneApprovalPerJoin
  <2> SUFFICES ASSUME Init, NEW e \in Endpoints
               PROVE  approved[e] + (IF e \in Pending THEN 1 ELSE 0) <= asked[e]
    BY DEF OneApprovalPerJoin
  <2>1. e \notin Pending
    BY DEF Init, None, Pending
  <2>2. approved[e] = 0 /\ asked[e] = 0
    BY DEF Init
  <2> QED
    BY <2>1, <2>2
<1> QED
  BY <1>1, ApprovalNext, JoinTypeCorrect, PTL DEF Spec
=============================================================================
