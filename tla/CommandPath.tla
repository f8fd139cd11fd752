------------------------------- MODULE CommandPath -----------------------------
(***************************************************************************)
(* src/client/app.js: sending messages and answering approvals from the    *)
(* web client, through the relay (SocketCommands) into Cursor              *)
(* (UiCommands).  The user may ask again as long as nobody can tell him    *)
(* what became of it, and the socket comes and goes.                       *)
(*                                                                         *)
(* The client knows the id of the button as the latest state tells it.     *)
(***************************************************************************)
EXTENDS SocketCommands

CONSTANT MaxMoves    \* bound: what fails, lapses or gets lost of itself

VARIABLES
    input,     \* the text of the input box
    slot,      \* sendEnvelope and approvalEnvelope
    pending,   \* pendingCommandResults; sendInFlight and approvalInFlight follow it
    late,      \* lateCommandResults
    asked,     \* history: what was asked for last of each kind, and what came of it
    moves

clientVars == <<input, slot, pending, late, asked>>
vars       == <<commandVars, relayVars, clientVars, moves>>

Kinds == {"send", "click"}
NoAsk == [what |-> None, intent |-> None, told |-> "none"]

Init ==
    /\ RelayInit
    /\ input \in Texts
    /\ slot = [kind \in Kinds |-> None]
    /\ pending = {}
    /\ late = [e \in Envelopes |-> "none"]
    /\ asked = [kind \in Kinds |-> NoAsk]
    /\ moves = 0

--------------------------------------------------------------------------------

Minted == {e \in Envelopes : env[e] # NoEnv}

\* newCommandId and newOperationId
Fresh(e) == e \notin Minted /\ \A d \in Envelopes \ Minted : e <= d

\* Mutant of Enveloped: the slot is used whatever it was filled with.
EnvelopedAlways(kind, what, e) == IF slot[kind] # None THEN e = slot[kind] ELSE Fresh(e)

\* reuseEnvelope: the previous one if it asks for the same
Enveloped(kind, what, e) ==
    IF slot[kind] # None /\ env[slot[kind]].what = what THEN e = slot[kind] ELSE Fresh(e)

\* What the user means: to ask again is the same intent while the outcome is unknown.
Intent(kind, what, e) ==
    IF asked[kind].what = what /\ asked[kind].told = "unknown" THEN asked[kind].intent ELSE e

\* Mutant of Kept: a failure of any sort empties the slot.
KeptNever(result, e) == None

\* mutationOutcomeUncertain: only then is the envelope kept for another try.
Kept(result, e) == IF result = "unknown" THEN e ELSE None

\* The rest of submitSendMessage and submitApproval, with what an answer does to `input`.
Concludes(e, result, kind, what, intent) ==
    /\ slot' = [slot EXCEPT ![kind] = Kept(result, e)]
    /\ asked' = [asked EXCEPT ![kind] = [what |-> what, intent |-> intent, told |-> result]]
    /\ input' = IF kind = "send" /\ result = "ok" /\ input = what THEN None ELSE input

\* sendCommandAwaitResult: an answer that came too late for an earlier try will do.
Submit(kind, what, e) ==
    LET intent == Intent(kind, what, e) IN
    /\ link
    /\ ~ \E d \in pending : env[d].kind = kind
    /\ Enveloped(kind, what, e)
    /\ env' = IF e \in Minted THEN env
              ELSE [env EXCEPT ![e] = [kind |-> kind, what |-> what, intent |-> intent]]
    /\ IF late[e] # "none"
       THEN /\ Concludes(e, late[e], kind, what, intent)
            /\ late' = [late EXCEPT ![e] = "none"]
            /\ UNCHANGED <<pending, toServer>>
       ELSE /\ pending' = pending \cup {e}
            /\ toServer' = toServer \cup {e}
            /\ slot' = [slot EXCEPT ![kind] = e]
            /\ asked' = [asked EXCEPT ![kind] = [what |-> what, intent |-> intent, told |-> "none"]]
            /\ UNCHANGED <<input, late>>
    /\ UNCHANGED <<laneVars, registry, cache, body, page, bridgeGen, auth, call, rec, listening, link,
                   inbox, lapsed, moves>>

\* The user sends what is in the box, or presses the button he is shown.
Asks ==
    \/ input # None /\ \E e \in Envelopes : Submit("send", input, e)
    \/ /\ page.button /\ Observed(bridgeGen) \in Unsettled(bridgeGen)
       /\ \E e \in Envelopes : Submit("click", Observed(bridgeGen), e)

Types(text) ==
    /\ input' = text
    /\ UNCHANGED <<commandVars, relayVars, slot, pending, late, asked>>

Resolves(e, result) ==
    /\ pending' = pending \ {e}
    /\ Concludes(e, result, env[e].kind, env[e].what, asked[env[e].kind].intent)

\* command:result
GetAnswer(e) ==
    /\ inbox[e] # "none"
    /\ inbox' = [inbox EXCEPT ![e] = "none"]
    /\ IF e \in pending THEN Resolves(e, inbox[e]) /\ UNCHANGED late
       ELSE /\ late' = IF slot[env[e].kind] = e THEN [late EXCEPT ![e] = inbox[e]] ELSE late
            /\ UNCHANGED <<input, slot, pending, asked>>
    /\ UNCHANGED <<commandVars, auth, call, rec, listening, link, toServer, lapsed, moves>>

\* The timer of 12 s.
GivesUp(e) ==
    /\ e \in pending
    /\ Resolves(e, "unknown")
    /\ UNCHANGED <<commandVars, relayVars, late>>

\* disconnect: failPendingCommands.  Each pending command ends as after its timer.
LosesSocket ==
    /\ Drop
    /\ pending' = {}
    /\ late' = [e \in Envelopes |-> "none"]
    /\ asked' = [kind \in Kinds |-> IF \E e \in pending : env[e].kind = kind
                                    THEN [asked[kind] EXCEPT !.told = "unknown"] ELSE asked[kind]]
    /\ UNCHANGED <<input, slot>>

Moves ==
    \/ \E text \in Texts : Types(text)
    \/ /\ \/ \E e \in Envelopes : RecordLapses(e) \/ CacheForgets(e)
          \/ ButtonChanges
          \/ /\ \/ \E a \in ActionIds : Forget(a) /\ UNCHANGED <<laneVars, env, cache, body, page, bridgeGen>>
                \/ \E t \in Tickets : Timeout(t) /\ UNCHANGED RestOfCommands
                \/ BridgeReconnects \/ ShutsDown
             /\ UNCHANGED relayVars
       /\ UNCHANGED clientVars

\* What is sent arrives before anything else happens, unless the socket is lost or the
\* timer was faster.
Quiet == toServer = {} /\ \A e \in Envelopes : inbox[e] = "none"

Arrives ==
    \E e \in Envelopes : GetAnswer(e) \/ (Receive(e) /\ UNCHANGED <<clientVars, moves>>)

ServerStep == Quiet /\ ServerActs /\ UNCHANGED <<clientVars, moves>>

Next ==
    \/ Arrives \/ ServerStep
    \/ /\ moves < MaxMoves /\ moves' = moves + 1
       /\ \/ LosesSocket
          \/ (\E e \in Envelopes : GivesUp(e))
          \/ Quiet /\ Moves
    \/ /\ Quiet
       /\ Asks \/ ((Poll \/ Reconnect) /\ UNCHANGED <<clientVars, moves>>)

\* Promises settle and callbacks are called; what a callback awaits of the page is answered
\* or times out (CdpClient).
Spec == Init /\ [][Next]_vars /\ WF_vars(Arrives) /\ WF_vars(ServerStep)

--------------------------------------------------------------------------------

\* What the user asked for once, and again only as long as he was told that nobody knows
\* what became of it, is begun in Cursor once, unless the executor and the relay have
\* both forgotten it by then (reuseEnvelope, lookupSocketOperation, getOrRunCommand).  And
\* a button is clicked once under an id, however its click ends: late, in vain, or with
\* its page gone (reserve, consume and release around the lane).
AskedOnceDoneOnce ==
    /\ \A i \in Envelopes : page.ran[i] > 1 =>
           \E e \in Envelopes : env[e].intent = i /\ {<<e, "executor">>, <<e, "relay">>} \subseteq lapsed
    /\ \A a \in ActionIds : page.clicked[a] <= 1

\* "Message sent" and "Approved" are never said of something Cursor has not been made to
\* do, nor of another message or button than the one that was asked for (the results
\* that are remembered at three places).
ToldOkMeansDone ==
    \A kind \in Kinds : asked[kind].told = "ok" =>
        page.did[asked[kind].intent] > 0 /\ env[asked[kind].intent].what = asked[kind].what

================================================================================
