---------------------------- MODULE ServerWiring ----------------------------
(***************************************************************************)
(* How index.ts wires the bridge to the rest of the server.  What the      *)
(* listeners of a bridge event do happens in the step that emits it; what  *)
(* they await (the DOM signature, a probe in the lane of the target) is    *)
(* left pending, and is rejected in that same step when its client or its  *)
(* lane goes away.  The changed state of a record counts as ok, and the    *)
(* samples of the circuit breaker are abstracted to whether it is open.    *)
(***************************************************************************)
EXTENDS CdpBridge, CapabilityState

CONSTANT MaxProbes  \* bound: answers of probes and of extractions

VARIABLES
    shown,        \* the state says the IDE is connected
    executor,     \* the client of the command executor and the extractor, 0 for none
    handler,      \* the client whose DOM signature the connected handler awaits
    passive,      \* the client a passive capability probe runs on
    interactive,  \* the client an interactive discovery runs on
    probeTimer,   \* capabilityProbeTimer
    circuit,      \* the circuit breaker is open
    lane,         \* generation of each target's lane in the UI coordinator
    capActive,    \* activeTargetId of the capability manager
    caps,         \* its records
    probes        \* answers so far, for the bound

wiringVars == <<shown, executor, handler, passive, interactive, probeTimer,
                circuit, lane, capActive, caps, probes>>
vars == <<bridgeVars, wiringVars>>

Init ==
    /\ BridgeInit
    /\ shown = FALSE
    /\ executor = 0
    /\ handler = 0
    /\ passive = 0
    /\ interactive = 0
    /\ probeTimer = FALSE
    /\ circuit = FALSE
    /\ lane = [t \in Targets |-> 1]
    /\ capActive = NoTarget
    /\ caps = [t \in Targets |-> NoRecord]
    /\ probes = 0

(* The rejected wait of the connected handler: the target is unavailable. *)
Rejected(records) ==
    IF handler = 0 THEN records
    ELSE LET t == attempts[handler].target
         IN  [records EXCEPT ![t] = ObserveState(@, generation[t], "unavailable")]

LetGoHolding ==
    /\ probeTimer' = FALSE
    /\ passive' = 0
    /\ interactive' = 0
    /\ handler' = 0
    /\ caps' = Rejected(IF capActive = NoTarget THEN caps
                        ELSE [caps EXCEPT ![capActive] = MarkStale(@)])
    /\ UNCHANGED <<executor, circuit, lane, capActive, probes>>

(* on('disconnected'): everything that acted on the target lets go of it. *)
LetGo ==
    /\ executor' = 0
    /\ probeTimer' = FALSE
    /\ passive' = 0
    /\ interactive' = 0
    /\ handler' = 0
    /\ caps' = Rejected(IF capActive = NoTarget THEN caps
                        ELSE [caps EXCEPT ![capActive] = MarkStale(@)])
    /\ UNCHANGED <<circuit, lane, capActive, probes>>

(* on('connected') up to its first await, for a client that is there. *)
OnConnected ==
    LET t == active' IN
    /\ shown' = TRUE
    /\ capActive' = t
    /\ caps' = [caps EXCEPT ![t] = SetActiveTarget(@, generation'[t])]
    /\ lane' = [lane EXCEPT ![t] = generation'[t]]
    /\ handler' = client'
    /\ passive' = 0
    /\ interactive' = 0
    /\ UNCHANGED <<executor, probeTimer, circuit, probes>>

(* What the listeners make of the event the bridge emits in this step. *)
Listen ==
    \/ emitted' = "disconnected" /\ shown' = FALSE /\ LetGo
    \/ emitted' = "lost_then_connected" /\ shown' = TRUE /\ LetGo
    \/ emitted' = "connected" /\ OnConnected
    \/ /\ emitted' \in {"none", "error"}
       /\ ~down'
       /\ UNCHANGED wiringVars
    \/ (* shutdown(): the extractor is stopped and nothing is announced *)
       /\ emitted' \in {"none", "error"}
       /\ down'
       /\ executor' = 0
       /\ handler' = 0
       /\ passive' = 0
       /\ interactive' = 0
       /\ caps' = Rejected(caps)
       /\ UNCHANGED <<shown, probeTimer, circuit, lane, capActive, probes>>

Bridge == BridgeNext /\ Listen

----------------------------------------------------------------------------
Quiet == UNCHANGED bridgeVars

Answer == probes < MaxProbes /\ probes' = probes + 1

(* A probe's answer is used while its target is active in its generation. *)
Fresh(a) == attempts[a].target = active /\ a \in open

(* probeDomSignature answers: executor, extractor and probes start on the client. *)
SignatureAnswers ==
    /\ handler # 0
    /\ Fresh(handler)
    /\ executor' = handler
    /\ passive' = handler
    /\ probeTimer' = TRUE
    /\ handler' = 0
    /\ Quiet
    /\ UNCHANGED <<shown, interactive, circuit, lane, capActive, caps, probes>>

(* It throws or times out on a live page: the catch gives up on the target. *)
SignatureFails ==
    /\ handler # 0
    /\ executor' = 0
    /\ caps' = Rejected(caps)
    /\ handler' = 0
    /\ Quiet
    /\ UNCHANGED <<shown, passive, interactive, probeTimer, circuit, lane, capActive, probes>>

(* The interval of probeCapabilities. *)
ProbeTick ==
    /\ probeTimer
    /\ passive = 0
    /\ client \in open
    /\ passive' = client
    /\ Quiet
    /\ UNCHANGED <<shown, executor, handler, interactive, probeTimer, circuit, lane,
                   capActive, caps, probes>>

Record(state, models) ==
    caps' = [caps EXCEPT ![active] = Observe(@, generation[active], state, models)]
RecordState(state) ==
    caps' = [caps EXCEPT ![active] = ObserveState(@, generation[active], state)]

(* A passive probe reads the current selection, not the menu. *)
PassiveAnswers ==
    /\ passive # 0
    /\ Fresh(passive)
    /\ Answer
    /\ \/ circuit /\ RecordState("unavailable")
       \/ /\ ~circuit
          /\ \E ready \in BOOLEAN :
                Record(IF ready THEN "ok" ELSE "unknown", [NoModels EXCEPT !.items = ready])
    /\ passive' = 0
    /\ Quiet
    /\ UNCHANGED <<shown, executor, handler, interactive, probeTimer, circuit, lane, capActive>>

(* It fails or times out: enough failures open the circuit of the adapter. *)
PassiveFails ==
    /\ passive # 0
    /\ Fresh(passive)
    /\ Answer
    /\ circuit' \in {circuit, TRUE}
    /\ RecordState(IF circuit' THEN "unavailable" ELSE "degraded")
    /\ passive' = 0
    /\ Quiet
    /\ UNCHANGED <<shown, executor, handler, interactive, probeTimer, lane, capActive>>

(* The discovery route: an interactive probe in the lane of the target. *)
Discover ==
    /\ interactive = 0
    /\ client \in open
    /\ lane[active] = generation[active]
    /\ interactive' = client
    /\ Quiet
    /\ UNCHANGED <<shown, executor, handler, passive, probeTimer, circuit, lane,
                   capActive, caps, probes>>

Discovered ==
    /\ interactive # 0
    /\ Fresh(interactive)
    /\ Answer
    /\ \/ UNCHANGED caps
       \/ \E models \in [items: {TRUE}, completeness: {"partial", "complete"}] :
             Record("ok", models)
    /\ interactive' = 0
    /\ Quiet
    /\ UNCHANGED <<shown, executor, handler, passive, probeTimer, circuit, lane, capActive>>

(* An extraction that saw tools is an observation of the target too. *)
Extracted ==
    /\ executor # 0
    /\ caps[active].gen # 0
    /\ Answer
    /\ RecordState("ok")
    /\ Quiet
    /\ UNCHANGED <<shown, executor, handler, passive, interactive, probeTimer, circuit,
                   lane, capActive>>

Probe == \/ SignatureAnswers \/ SignatureFails \/ ProbeTick \/ PassiveAnswers
         \/ PassiveFails \/ Discover \/ Discovered \/ Extracted

Next == Bridge \/ Probe

Spec == Init /\ [][Next]_vars

----------------------------------------------------------------------------
(***************************************************************************)
(* The connected handler awaits a page while the bridge goes on: the       *)
(* client the executor and the extractor act on is the bridge's, its page  *)
(* is the active target, and the lane and the capability record are in the *)
(* generation of that connection.                                          *)
(***************************************************************************)
ExecutorActsOnTheActiveTarget ==
    executor # 0 =>
        /\ shown
        /\ executor = client
        /\ executor \in open
        /\ attempts[executor].target = active
        /\ lane[active] = generation[active]
        /\ capActive = active
        /\ caps[active].gen = generation[active]

(***************************************************************************)
(* "A preserved last-known catalog after reconnect is not writable until a *)
(* complete unfiltered observation re-verifies this generation": models    *)
(* never, and modes only in the generation the record was made in.         *)
(***************************************************************************)
WritableIsReverified ==
    \A t \in Targets :
        LET r == caps[t] IN
        /\ Writable(r, "model", generation[t]) => r.whole = r.gen
        /\ Writable(r, "mode", generation[t]) /\ r.gen # r.since => r.whole = r.gen

=============================================================================
