----------------------------- MODULE SocketCommands ----------------------------
(***************************************************************************)
(* src/server/relay.ts, runSocketCommand and the routes of commands that   *)
(* act: what the relay remembers of an operation, so that a client which   *)
(* asks again is answered without anything being done again.               *)
(*                                                                         *)
(* A call is one execution of a route; it awaits the run that UiCommands   *)
(* started for it, or for an earlier call with the same commandId.         *)
(***************************************************************************)
EXTENDS UiCommands

VARIABLES
    auth,        \* clients log in: the key of a record outlives the socket
    call,        \* executions of routes
    rec,         \* socketOperationCache under the key of the present socket
    listening,   \* envelopes the present socket waits for
    link,        \* the socket is connected
    toServer,    \* envelopes under way
    inbox,       \* command:result under way
    lapsed       \* history: records that were forgotten, and where

relayVars == <<auth, call, rec, listening, link, toServer, inbox, lapsed>>

NewCall == [env |-> None, run |-> None, state |-> "new", result |-> "none"]

RelayInit ==
    /\ CommandsInit
    /\ auth \in BOOLEAN
    /\ call = [k \in Tickets |-> NewCall]
    /\ rec = [e \in Envelopes |-> None]
    /\ listening = {} /\ link = TRUE /\ toServer = {}
    /\ inbox = [e \in Envelopes |-> "none"]
    /\ lapsed = {}

\* emitCommandResult
Tell(e, result) == inbox' = IF link THEN [inbox EXCEPT ![e] = result] ELSE inbox

Unused(k) == call[k].state = "new" /\ \A j \in Tickets : call[j].state = "new" => k <= j

\* The same operation again: its answer, or the wait for it.
Replay(e) ==
    /\ rec[e] # None
    /\ LET k == rec[e] IN
       IF call[k].state = "settled"
       THEN Tell(e, call[k].result) /\ UNCHANGED listening
       ELSE listening' = listening \cup {e} /\ UNCHANGED inbox
    /\ UNCHANGED <<commandVars, call, rec>>

\* BoundedRateLimiter, and too many operations that are not settled
Limit(e) ==
    /\ rec[e] = None
    /\ Tell(e, "failed")
    /\ UNCHANGED <<commandVars, call, rec, listening>>

\* A button that is not, or not any more, to be clicked under this id.  requireLive removes
\* an id whose time is up, reserved or not.
Unauthorised(e, k) ==
    /\ rec[e] = None /\ Unused(k)
    /\ env[e].kind = "click" /\ ~Reservable(env[e].what, bridgeGen)
    /\ call' = [call EXCEPT ![k] = [env |-> e, run |-> None, state |-> "settled", result |-> "failed"]]
    /\ rec' = [rec EXCEPT ![e] = k]
    /\ Tell(e, "failed")
    /\ registry' \in {registry, With(env[e].what, "removed")}
    /\ UNCHANGED <<laneVars, env, cache, body, page, bridgeGen, listening>>

\* beginSocketOperation, runScopedWrite for the owner, and clickRegisteredAction up to
\* the executor
Execute(e, k) ==
    /\ rec[e] = None /\ Unused(k)
    /\ env[e].kind = "click" => Reservable(env[e].what, bridgeGen)
    /\ registry' = IF env[e].kind = "click" THEN With(env[e].what, "reserved") ELSE registry
    /\ Dispatch(e, k)
    /\ call' = [call EXCEPT ![k] = [env |-> e, run |-> Runner(e, k), state |-> "running", result |-> "none"]]
    /\ rec' = [rec EXCEPT ![e] = k]
    /\ listening' = listening \cup {e}
    /\ UNCHANGED <<env, page, bridgeGen, inbox>>

Receive(e) ==
    /\ e \in toServer
    /\ toServer' = toServer \ {e}
    /\ \/ Replay(e) \/ Limit(e)
       \/ \E k \in Tickets : Unauthorised(e, k) \/ Execute(e, k)
    /\ UNCHANGED <<auth, link, lapsed>>

\* What a route makes of it.  An id that went with its page cannot be used up, and then
\* even a click that was made is reported as a failure.
ResultOf(k) ==
    LET t == call[k].run  e == env[call[k].env] IN
    IF ticket[t].answer = "resolved" /\ body[t].result = "ok"
       /\ (e.kind = "click" => Consumable(e.what))
    THEN "ok" ELSE "failed"

\* finish, and the answer to whoever waits over the present socket
Finish(k) ==
    /\ call[k].state = "running" /\ Answered(call[k].run)
    /\ LET t == call[k].run  e == call[k].env IN
       /\ registry' = IF env[e].kind # "click" THEN registry
                      ELSE Settled(env[e].what, t = k /\ body[t].authorised, ticket[t].answer, body[t].result)
       /\ call' = [call EXCEPT ![k].state = "settled", ![k].result = ResultOf(k)]
       /\ IF rec[e] = k /\ e \in listening
          THEN Tell(e, ResultOf(k)) /\ listening' = listening \ {e}
          ELSE UNCHANGED <<inbox, listening>>
    /\ UNCHANGED <<laneVars, env, cache, body, page, bridgeGen, auth, rec, link, toServer, lapsed>>

\* pruneOperationCache: only what is settled
RecordLapses(e) ==
    /\ rec[e] # None /\ call[rec[e]].state = "settled"
    /\ rec' = [rec EXCEPT ![e] = None]
    /\ lapsed' = lapsed \cup {<<e, "relay">>}
    /\ UNCHANGED <<commandVars, auth, call, listening, link, toServer, inbox>>

\* socketSessionKey: without a login it is the socket's
KeyOf(r) == IF auth THEN r ELSE [e \in Envelopes |-> None]

Drop ==
    /\ link
    /\ link' = FALSE /\ listening' = {} /\ toServer' = {}
    /\ inbox' = [e \in Envelopes |-> "none"]
    /\ rec' = KeyOf(rec)
    /\ lapsed' = IF auth THEN lapsed ELSE lapsed \cup Envelopes \X {"relay"}
    /\ UNCHANGED <<commandVars, auth, call>>

Reconnect ==
    /\ ~link /\ link' = TRUE
    /\ UNCHANGED <<commandVars, auth, call, rec, listening, toServer, inbox, lapsed>>

\* COMMAND_RESULT_TTL_MS after a command began, or as the oldest of too many
CacheForgets(e) ==
    /\ cache[e] # None
    /\ cache' = [cache EXCEPT ![e] = None]
    /\ lapsed' = lapsed \cup {<<e, "executor">>}
    /\ UNCHANGED <<laneVars, registry, env, body, page, bridgeGen, auth, call, rec, listening, link,
                   toServer, inbox>>

\* The poll: the button that is seen gets an id,
Poll ==
    /\ page.button
    /\ RegisterObserved(bridgeGen)
    /\ UNCHANGED <<laneVars, env, cache, body, page, bridgeGen, relayVars>>

\* and goes and comes with the agent's work.
ButtonChanges ==
    /\ page' = [page EXCEPT !.button = ~@]
    /\ UNCHANGED <<laneVars, registry, env, cache, body, bridgeGen, relayVars>>

ServerActs ==
    \/ \E k \in Tickets : Finish(k)
    \/ (LaneActs \/ CallbackActs \/ Reconnected) /\ UNCHANGED relayVars

================================================================================
