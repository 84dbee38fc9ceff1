------------------------------ MODULE Console ------------------------------
(***************************************************************************)
(* How commands reach a node: a click on the page of `khoai ui`            *)
(* (executeSignAndSendContract in contracts.ts, sendP2p in network.ts,     *)
(* auth.ts) with the bridge that serves the page (RunUI in ui.go), and     *)
(* the terminal client (cmd/client).  Each asks the node for a challenge,  *)
(* signs a command with it and sends that.  Attempts meet in the keys and  *)
(* choices of the page and in what the node forgets when it stops.         *)
(*                                                                         *)
(* A click runs from one await to the next: keys and choices on the page   *)
(* may change in between, and other clicks go on.  The bridge opens a      *)
(* connection for each message and reads from it once.  The node handles   *)
(* a message in one step here: what its handlers may do to each other is   *)
(* the subject of Execute.                                                 *)
(*                                                                         *)
(* A challenge is drawn for one attempt and is known by it.                *)
(***************************************************************************)
EXTENDS Naturals, FiniteSets

CONSTANTS Clicks,     \* attempts made on the page
          Terminals,  \* and runs of the terminal client
          Pairs,      \* key pairs that users may enter
          Refused,    \* those the node refuses: an ill-formed public key (the
                      \* demo keys have one), a foreign private key, no permission
          Malformed,  \* those with a private key that can not be imported
          TestPair,   \* the pair written into the terminal client
          Functions,  \* contract functions the page offers
          Escaped,    \* those with arguments that encoding/json escapes and
                      \* JSON.stringify does not (<, > and &)
          TestCall,   \* the function the terminal client calls
          MaxStops    \* bound: how often the node stops

Attempts == Clicks \cup Terminals

NoPair == "no pair"
\* the default "42" of a click that got no challenge
NoChallenge == "42"

ASSUME ConsoleAssumption ==
    /\ Clicks \cap Terminals = {} /\ NoChallenge \notin Attempts
    /\ Refused \subseteq Pairs /\ Malformed \subseteq Pairs
    /\ TestPair \in Pairs \ Malformed
    /\ Escaped \subseteq Functions /\ TestCall \in Functions
    /\ MaxStops \in Nat

VARIABLES auth,       \* state.auth: a pair, or none
          selected,   \* state.selectedFunction
          stage,      \* where each attempt is
          message,    \* what it sends
          line,       \* what is on the connection of its message
          challenges, \* the challenges of the node: for whom each was drawn
          asker,      \* history: for whom each attempt asked for a challenge
          ran,        \* history: the commands the node has run
          stops       \* how often it stopped

consoleVars == <<auth, selected, stage, message, line, challenges, asker, ran, stops>>
page == <<auth, selected>>
nodeVars == <<challenges, ran, stops>>

Place == {"idle", "nonce", "signing", "execute", "Success", "Error", "dropped"}
Command == [pair : Pairs \cup {NoPair}, function : Functions, args : Functions,
            nonce : Attempts \cup {NoChallenge}]
Blank == [pair |-> NoPair, function |-> TestCall, args |-> TestCall, nonce |-> NoChallenge]

ConsoleTypeOK ==
    /\ auth \in Pairs \cup {NoPair}
    /\ selected \in Functions
    /\ stage \in [Attempts -> Place]
    /\ message \in [Attempts -> Command]
    /\ line \in [Attempts -> {"none", "NONCE", "EXECUTE", "Success", "Error", "lost"}]
    /\ DOMAIN challenges \subseteq Attempts
    /\ \A a \in DOMAIN challenges : challenges[a] \in Pairs \cup {NoPair}
    /\ asker \in [Attempts -> Pairs \cup {NoPair}]
    /\ ran \subseteq Attempts
    /\ stops \in 0..MaxStops

ConsoleInit ==
    /\ auth = NoPair /\ selected \in Functions
    /\ stage = [a \in Attempts |-> "idle"]
    /\ message = [a \in Attempts |-> Blank]
    /\ line = [a \in Attempts |-> "none"]
    /\ challenges = [a \in {} |-> NoPair]
    /\ asker = [a \in Attempts |-> NoPair]
    /\ ran = {}
    /\ stops = 0

Answered(a) == line[a] \in {"Success", "Error", "lost"}

Goto(a, place) == stage' = [stage EXCEPT ![a] = place]

-----------------------------------------------------------------------------
\* the user at the page

\* saveAuthModal: both keys are there, and nothing else is checked
SaveAuth(p) ==
    /\ auth' = p
    /\ UNCHANGED <<selected, stage, message, line, nodeVars, asker>>

\* logoutAuth
Logout ==
    /\ auth' = NoPair
    /\ UNCHANGED <<selected, stage, message, line, nodeVars, asker>>

\* handleFunctionChange
Select(f) ==
    /\ selected' = f
    /\ UNCHANGED <<auth, stage, message, line, nodeVars, asker>>

\* the page is loaded again: what it awaited is forgotten, and the keys come back
\* from localStorage
Reload ==
    /\ stage' = [a \in Attempts |-> IF a \in Clicks /\ stage[a] # "idle" THEN "dropped" ELSE stage[a]]
    /\ UNCHANGED <<page, message, line, nodeVars, asker>>

-----------------------------------------------------------------------------
\* executeSignAndSendContract

\* with keys, the arguments are read from the inputs of the selected function, and
\* a challenge is asked for
Click(a) ==
    /\ a \in Clicks /\ stage[a] = "idle" /\ auth # NoPair
    /\ Goto(a, "nonce")
    /\ message' = [message EXCEPT ![a].args = selected]
    /\ asker' = [asker EXCEPT ![a] = auth]
    /\ line' = [line EXCEPT ![a] = "NONCE"]
    /\ UNCHANGED <<page, nodeVars>>

\* mutant: without a challenge the click is not gone on with, and never ended
MakeCommandGranted(a) ==
    /\ a \in Clicks /\ stage[a] = "nonce" /\ line[a] = "Success"
    /\ message' = [message EXCEPT ![a] =
           [pair |-> auth, function |-> selected, args |-> @.args, nonce |-> a]]
    /\ Goto(a, IF auth \in Malformed \cup {NoPair} THEN "dropped" ELSE "signing")
    /\ line' = [line EXCEPT ![a] = "none"]
    /\ UNCHANGED <<page, nodeVars, asker>>

\* after the await: the command is made from the page as it is by now, and signing
\* begins.  Any failure of sendP2p leaves the default in place of a challenge, and
\* a private key that can not be imported ends it all in silence.
MakeCommand(a) ==
    LET nonce == IF line[a] = "Success" THEN a ELSE NoChallenge IN
      /\ a \in Clicks /\ stage[a] = "nonce" /\ Answered(a)
      /\ message' = [message EXCEPT ![a] =
             [pair |-> auth, function |-> selected, args |-> @.args, nonce |-> nonce]]
      /\ Goto(a, IF auth \in Malformed \cup {NoPair} THEN "dropped" ELSE "signing")
      /\ line' = [line EXCEPT ![a] = "none"]
      /\ UNCHANGED <<page, nodeVars, asker>>

\* after the awaits of importKey and sign: the command goes to the bridge
Dispatch(a) ==
    /\ a \in Clicks /\ stage[a] = "signing"
    /\ Goto(a, "execute")
    /\ line' = [line EXCEPT ![a] = "EXECUTE"]
    /\ UNCHANGED <<page, message, nodeVars, asker>>

\* mutant: what is read in place of an answer counts as one
ShowOptimistic(a) ==
    /\ a \in Clicks /\ stage[a] = "execute" /\ Answered(a)
    /\ Goto(a, IF line[a] = "Error" THEN "Error" ELSE "Success")
    /\ line' = [line EXCEPT ![a] = "none"]
    /\ UNCHANGED <<page, message, nodeVars, asker>>

\* after the await: what sendP2p returned or threw is shown.  The bridge reads
\* once, so it may pass on the first part of an answer only, or that it
\* transmitted the packet; JSON.parse fails on both.
Show(a) ==
    /\ a \in Clicks /\ stage[a] = "execute" /\ Answered(a)
    /\ \E result \in {line[a], "torn"} :
         Goto(a, IF result = "Success" THEN "Success" ELSE "Error")
    /\ line' = [line EXCEPT ![a] = "none"]
    /\ UNCHANGED <<page, message, nodeVars, asker>>

-----------------------------------------------------------------------------
\* cmd/client: both messages on one connection, answers read to the newline

Start(a) ==
    /\ a \in Terminals /\ stage[a] = "idle"
    /\ Goto(a, "nonce")
    /\ asker' = [asker EXCEPT ![a] = TestPair]
    /\ line' = [line EXCEPT ![a] = "NONCE"]
    /\ UNCHANGED <<page, message, nodeVars>>

\* without a challenge it gives up
Continue(a) ==
    /\ a \in Terminals /\ stage[a] = "nonce" /\ Answered(a)
    /\ IF line[a] = "Success"
       THEN /\ message' = [message EXCEPT ![a] = [@ EXCEPT !.pair = TestPair, !.nonce = a]]
            /\ line' = [line EXCEPT ![a] = "EXECUTE"]
            /\ Goto(a, "execute")
       ELSE /\ line' = [line EXCEPT ![a] = "none"]
            /\ Goto(a, "dropped")
            /\ UNCHANGED message
    /\ UNCHANGED <<page, nodeVars, asker>>

\* the answer is printed as it is; the program ends in any case
Finish(a) ==
    /\ a \in Terminals /\ stage[a] = "execute" /\ Answered(a)
    /\ Goto(a, IF line[a] = "Success" THEN "Success" ELSE "Error")
    /\ line' = [line EXCEPT ![a] = "none"]
    /\ UNCHANGED <<page, message, nodeVars, asker>>

-----------------------------------------------------------------------------
\* the node

\* NONCE
HandleNonce(a) ==
    /\ line[a] = "NONCE"
    /\ challenges' = [c \in DOMAIN challenges \cup {a} |->
                        IF c = a THEN asker[a] ELSE challenges[c]]
    /\ line' = [line EXCEPT ![a] = "Success"]
    /\ UNCHANGED <<page, stage, message, asker, ran, stops>>

Without(n) == [c \in DOMAIN challenges \ {n} |-> challenges[c]]

Signed(c, a) == c.pair \notin Refused /\ (a \in Clicks => c.args \notin Escaped)

\* mutant: the challenge may be anybody's
HandleAnyone(a) ==
    LET c == message[a] IN
      /\ line[a] = "EXECUTE"
      /\ challenges' = Without(c.nonce)
      /\ \E failed \in BOOLEAN :
           LET runs == c.nonce \in DOMAIN challenges /\ Signed(c, a) IN
             /\ ran' = IF runs THEN ran \cup {a} ELSE ran
             /\ line' = [line EXCEPT ![a] = IF runs /\ ~failed THEN "Success" ELSE "Error"]
      /\ UNCHANGED <<page, stage, message, asker, stops>>

\* EXECUTE: the challenge is looked up and deleted, the signature verified over the
\* line as Go encodes it, and the function run, which may fail
HandleExecute(a) ==
    LET c == message[a] IN
      /\ line[a] = "EXECUTE"
      /\ challenges' = Without(c.nonce)
      /\ \E failed \in BOOLEAN :
           LET runs == /\ c.nonce \in DOMAIN challenges
                       /\ challenges[c.nonce] = c.pair /\ Signed(c, a) IN
             /\ ran' = IF runs THEN ran \cup {a} ELSE ran
             /\ line' = [line EXCEPT ![a] = IF runs /\ ~failed THEN "Success" ELSE "Error"]
      /\ UNCHANGED <<page, stage, message, asker, stops>>

\* two minutes have passed since a challenge was drawn
Expire(a) ==
    /\ a \in DOMAIN challenges
    /\ challenges' = Without(a)
    /\ UNCHANGED <<page, stage, message, line, asker, ran, stops>>

\* the node stops, and starts again without its challenges; some of the answers are
\* still read
Restart ==
    /\ stops < MaxStops /\ stops' = stops + 1
    /\ challenges' = [a \in {} |-> NoPair]
    /\ \E late \in SUBSET {a \in Attempts : line[a] \in {"Success", "Error"}} :
         line' = [a \in Attempts |-> IF line[a] = "none" \/ a \in late THEN line[a] ELSE "lost"]
    /\ UNCHANGED <<page, stage, message, asker, ran>>

User == (\E p \in Pairs : SaveAuth(p)) \/ Logout \/ (\E f \in Functions : Select(f)) \/ Reload

\* the goroutine or the continuation that an attempt waits for
ClientStep(a) ==
    \/ MakeCommand(a) \/ Dispatch(a) \/ Show(a)
    \/ Continue(a) \/ Finish(a)
    \/ HandleNonce(a) \/ HandleExecute(a)

ConsoleNext ==
    \/ User \/ Restart
    \/ \E a \in Attempts : Click(a) \/ Start(a) \/ ClientStep(a) \/ Expire(a)

ConsoleSpec == ConsoleInit /\ [][ConsoleNext]_consoleVars

\* A message that arrived is handled and its answer read; nobody has to click.
FairSpec == ConsoleSpec /\ \A a \in Attempts : WF_consoleVars(ClientStep(a))

-----------------------------------------------------------------------------
(* properties                                                              *)

\* Who reads Success can rely on it: the node ran the command that is shown.
SuccessRan == \A a \in Attempts : stage[a] = "Success" => a \in ran

\* Keys that change while a challenge is fetched never make a command of theirs
\* run on a challenge of the earlier ones: what ran was signed with the keys that
\* the attempt was begun with.
KeysKept == \A a \in ran : message[a].pair = asker[a]

\* Every attempt comes to an end, also when the node stops in the middle: a result
\* is shown, or the page was left, or its keys could not sign.
AttemptsEnd ==
    \A a \in Attempts : (stage[a] # "idle") ~> (stage[a] \in {"Success", "Error", "dropped"})

\* What runs has the arguments of its own function: false, since the arguments are
\* read before the await and the function after it.
ArgumentsFit == \A a \in ran : message[a].args = message[a].function

\* Who reads an error may try again: false, since the command of an answer that the
\* bridge did not read whole has run, and so has one whose function failed (the node
\* keeps its transaction and answers the error).
ErrorDidNotRun == \A a \in Attempts : stage[a] = "Error" => a \notin ran
=============================================================================
