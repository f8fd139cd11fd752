------------------------------- MODULE UiCommands ------------------------------
(***************************************************************************)
(* src/server/command-executor.ts: the commands a person sends to Cursor's *)
(* window, from the id under which the executor remembers one to the       *)
(* mutation in the page, through the lane of the target (TargetUiLane) and *)
(* past the registry of actions (ActionRegistry).                          *)
(*                                                                         *)
(* Two commands stand for all: "send" types into the page and is retried,  *)
(* as switchTab, newChat, setMode and setModel are; "click" presses a      *)
(* registered button and is not.  A callback of the lane consists of       *)
(* attempts, and an attempt acts on the page at most once.                 *)
(***************************************************************************)
EXTENDS TargetUiLane, ActionRegistry

CONSTANTS
    Envelopes,       \* pairs of a commandId and an operationId, numbered
    Texts,
    MaxRetries       \* MAX_RETRIES

ASSUME CommandsAssumption ==
    MaxRetries \in Nat /\ 0 \notin Tickets \cup Envelopes

VARIABLES
    env,        \* what each envelope asks for
    cache,      \* commandResultCache: the run whose result an envelope gets
    body,       \* the callbacks
    page,       \* the button is there; history: what was done for whom
    bridgeGen   \* cdpBridge.getTargetGeneration, which the lane follows

commandVars == <<laneVars, registry, env, cache, body, page, bridgeGen>>

None  == 0
NoEnv == [kind |-> "none", what |-> None, intent |-> None]

NewBody == [env |-> None, authorised |-> FALSE, tries |-> 0, acted |-> FALSE, result |-> "none"]

CommandsInit ==
    /\ LaneInit /\ RegistryInit
    /\ env = [e \in Envelopes |-> NoEnv]
    /\ cache = [e \in Envelopes |-> None]
    /\ body = [t \in Tickets |-> NewBody]
    /\ page = [button |-> TRUE, ran |-> [i \in Envelopes |-> 0], did |-> [i \in Envelopes |-> 0],
               clicked |-> [a \in ActionIds |-> 0]]
    /\ bridgeGen = generation

More(n) == IF n < 2 THEN n + 1 ELSE n

--------------------------------------------------------------------------------
(* The callback.                                                           *)

\* withRetry's callback begins with the takeover of the owner, who may fail to write it
\* down: then nothing is attempted.
CallbackStarts(t) ==
    /\ CallRun(t)
    /\ \E authorised \in BOOLEAN :
          /\ body' = [body EXCEPT ![t].authorised = authorised]
          /\ page' = IF authorised THEN [page EXCEPT !.ran[env[body[t].env].intent] = More(@)] ELSE page
    /\ UNCHANGED <<registry, env, cache, bridgeGen>>

TakeoverThrows(t) ==
    /\ ~body[t].authorised
    /\ RunSettles(t, "failed")
    /\ UNCHANGED <<registry, env, cache, body, page, bridgeGen>>

InAttempt(t) ==
    ticket[t].phase = "running" /\ body[t].authorised /\ body[t].result = "none"

Pressed(a) == [page.clicked EXCEPT ![a] = More(@)]

\* The Enter key of sendMessage, or the click of clickAction, where the label and the
\* scope of the button are looked at.  The connection of another generation is closed.
Act(t) ==
    LET e == env[body[t].env] IN
    /\ InAttempt(t) /\ ~body[t].acted
    /\ ticket[t].generation = bridgeGen
    /\ e.kind = "click" => page.button
    /\ body' = [body EXCEPT ![t].acted = TRUE]
    /\ \E left \in BOOLEAN :
          /\ e.kind = "send" => left = page.button
          /\ page' = [page EXCEPT
                !.button = left,
                !.did[e.intent] = More(@),
                !.clicked = IF e.kind = "click" THEN Pressed(e.what) ELSE @]
    /\ UNCHANGED <<laneVars, registry, env, cache, bridgeGen>>

Ends(t, result) ==
    /\ body' = [body EXCEPT ![t].result = result]
    /\ RunSettles(t, "resolved")
    /\ UNCHANGED <<registry, env, cache, page, bridgeGen>>

AttemptReturns(t) == InAttempt(t) /\ body[t].acted /\ Ends(t, "ok")

\* Nothing was found to act on, or the connection is gone: isActionRevalidationFailure,
\* as long as nothing was done.
AttemptThrows(t) ==
    /\ InAttempt(t)
    /\ IF env[body[t].env].kind = "send" /\ body[t].tries < MaxRetries
       THEN /\ body' = [body EXCEPT ![t].tries = @ + 1, ![t].acted = FALSE]
            /\ UNCHANGED <<laneVars, registry, env, cache, page, bridgeGen>>
       ELSE Ends(t, IF body[t].acted THEN "failed" ELSE "revalidation")

--------------------------------------------------------------------------------
(* Around the lane.                                                        *)

\* getOrRunCommand
Runner(e, t) == IF cache[e] # None THEN cache[e] ELSE t

Dispatch(e, t) ==
    IF Runner(e, t) = t
    THEN /\ Enqueue(t, bridgeGen)
         /\ cache' = [cache EXCEPT ![e] = t]
         /\ body' = [body EXCEPT ![t].env = e]
    ELSE UNCHANGED <<laneVars, cache, body>>

\* Mutant of Settled: only a click that returned well uses the id up.
SettledOnSuccess(a, authorised, answer, result) ==
    IF result = "ok" /\ Consumable(a) THEN With(a, "consumed") ELSE Released(a)

\* settleRegisteredAction, settleRegisteredActionError: the id is used up once its click
\* may have been dispatched, unless it is known that it was not, or its page is gone.
Settled(a, authorised, answer, result) ==
    IF /\ Consumable(a)
       /\ \/ answer = "resolved" /\ result = "ok"
          \/ authorised /\ (result = "failed" \/ answer = "timeout")
    THEN With(a, "consumed") ELSE Released(a)

\* The bridge has connected again: index.ts tells the lane and the registry.
Reconnected ==
    /\ generation < bridgeGen
    /\ SetGeneration(bridgeGen)
    /\ registry' = Remaining(bridgeGen)
    /\ UNCHANGED <<env, cache, body, page, bridgeGen>>

BridgeReconnects ==
    /\ bridgeGen < MaxGeneration
    /\ bridgeGen' = bridgeGen + 1
    /\ UNCHANGED <<laneVars, registry, env, cache, body, page>>

\* cancelAll at shutdown, with registry.clear
ShutsDown ==
    /\ Cancel
    /\ registry' = Remaining(None)
    /\ UNCHANGED <<env, cache, body, page, bridgeGen>>

RestOfCommands == <<registry, env, cache, body, page, bridgeGen>>

LaneActs ==
    /\ \E t \in Tickets : Skip(t) \/ Begin(t)
    /\ UNCHANGED RestOfCommands

CallbackActs ==
    \E t \in Tickets :
        CallbackStarts(t) \/ TakeoverThrows(t) \/ Act(t) \/ AttemptReturns(t) \/ AttemptThrows(t)

================================================================================
