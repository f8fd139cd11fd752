------------------------------ MODULE CdpBridge ------------------------------
(***************************************************************************)
(* The connection to one page of the IDE (cdp-bridge.ts, cdp-client.ts,    *)
(* target-discovery.ts).  connect() probes the endpoint, fetches the list  *)
(* of targets, opens a socket and reads the workspace; a later connect()   *)
(* supersedes it at every await.  An attempt and the client it may make    *)
(* are named by the connectGen of the call.                                *)
(*                                                                         *)
(* External: the endpoint, its targets and its sockets answer, fail and    *)
(* close as they like.  Left out: the diagnostics, the window list.        *)
(***************************************************************************)
EXTENDS Naturals, FiniteSets

CONSTANTS
    Targets,        \* ids of page targets that ever exist
    NoTarget,       \* the empty target id
    WorkspaceOf,    \* [Targets -> workspace name], read or parsed from a title
    NoWorkspace,
    MaxConnects     \* bound: calls of connect()

ASSUME BridgeAssumption ==
    /\ NoTarget \notin Targets
    /\ MaxConnects \in Nat
    /\ NoWorkspace \notin {WorkspaceOf[t] : t \in Targets}

VARIABLES
    connectGen,     \* calls of connect() so far
    attempts,       \* [1..MaxConnects -> where each call is]
    client,         \* the attempt whose CdpClient the bridge holds, 0 for none
    open,           \* clients whose socket is open
    verified,       \* _endpointIdentity.verified
    timer,          \* reconnectTimer is pending
    down,           \* intentionalDisconnect, for good once the server stops
    active,         \* _activeTargetId
    preferred,      \* _preferredTargetId
    lastConnected,  \* _lastConnectedTargetId
    generation,     \* _targetGenerations
    workspace,      \* _verifiedWorkspaceIdentity
    emitted         \* the event this step emitted, read by its listeners

bridgeVars == <<connectGen, attempts, client, open, verified, timer, down, active,
                preferred, lastConnected, generation, workspace, emitted>>

Calls == 1..MaxConnects
TargetIds == Targets \cup {NoTarget}
InFlight == {"probing", "fetching", "connecting", "reading"}
NoAttempt == [stage |-> "none", wanted |-> NoTarget, required |-> FALSE, target |-> NoTarget]
Attempts == [stage: InFlight \cup {"none", "done"}, wanted: TargetIds,
             required: BOOLEAN, target: TargetIds]

Current(a) == a = connectGen

BridgeInit ==
    /\ connectGen = 0
    /\ attempts = [a \in Calls |-> NoAttempt]
    /\ client = 0
    /\ open = {}
    /\ verified = FALSE
    /\ timer = FALSE
    /\ down = FALSE
    /\ active = NoTarget
    /\ preferred = NoTarget
    /\ lastConnected = NoTarget
    /\ generation = [t \in Targets |-> 0]
    /\ workspace = NoWorkspace
    /\ emitted = "none"

(***************************************************************************)
(* detachClient and disconnect of the client: its socket is destroyed, the *)
(* handshake or the evaluation that waits on it is rejected at once, and   *)
(* the superseded call ends there.                                         *)
(***************************************************************************)
Detached(calls) ==
    [a \in Calls |-> IF a = client /\ calls[a].stage \in {"connecting", "reading"}
                     THEN [calls[a] EXCEPT !.stage = "done"] ELSE calls[a]]

DetachClient ==
    /\ client' = 0
    /\ open' = open \ {client}

(* The head of connect(): the caller's target, or none for a reconnect. *)
Begin(wanted, required) ==
    /\ connectGen < MaxConnects
    /\ connectGen' = connectGen + 1
    /\ attempts' = [Detached(attempts) EXCEPT ![connectGen + 1] =
                     [NoAttempt EXCEPT !.stage = "probing", !.wanted = wanted,
                                       !.required = required]]
    /\ timer' = FALSE
    /\ DetachClient

Ended(a) == [attempts EXCEPT ![a].stage = "done"]
At(a, stage) == attempts[a].stage = stage
Moves(a, stage) == attempts' = [attempts EXCEPT ![a].stage = stage]

(* A call that finds itself superseded ends and touches nothing. *)
Superseded(a, stage) ==
    /\ At(a, stage)
    /\ ~Current(a)
    /\ attempts' = Ended(a)
    /\ emitted' = "none"
    /\ UNCHANGED <<connectGen, client, open, verified, timer, down, active,
                   preferred, lastConnected, generation, workspace>>

Schedule == timer' = (timer \/ ~down)

CaughtQuietly(a) ==
    /\ attempts' = [Detached(attempts) EXCEPT ![a].stage = "done"]
    /\ DetachClient
    /\ UNCHANGED timer
    /\ emitted' = "error"

(* The catch of connect(): the client is dropped and a reconnect scheduled. *)
Caught(a) ==
    /\ attempts' = [Detached(attempts) EXCEPT ![a].stage = "done"]
    /\ DetachClient
    /\ Schedule
    /\ emitted' = "error"

----------------------------------------------------------------------------
(* index.ts connects once, when the relay listens. *)
FirstConnect ==
    /\ connectGen = 0
    /\ ~down
    /\ Begin(NoTarget, FALSE)
    /\ emitted' = "none"
    /\ UNCHANGED <<verified, down, active, preferred, lastConnected, generation, workspace>>

(* The reconnect timer: connect(this._preferredTargetId || undefined). *)
TimerFires ==
    /\ timer
    /\ Begin(preferred, FALSE)
    /\ emitted' = "none"
    /\ UNCHANGED <<verified, down, active, preferred, lastConnected, generation, workspace>>

(* switchWindow: announces a disconnection, then connects to t and no other. *)
SwitchWindow(t) ==
    /\ ~down
    /\ connectGen > 0
    /\ ~(t = active /\ client \in open)
    /\ Begin(t, TRUE)
    /\ active' = NoTarget
    /\ preferred' = t
    /\ emitted' = "disconnected"
    /\ UNCHANGED <<verified, down, lastConnected, generation, workspace>>

(* disconnect(), from the shutdown of the server. *)
Disconnect ==
    /\ ~down
    /\ connectGen > 0
    /\ down' = TRUE
    /\ attempts' = [a \in Calls |-> [Detached(attempts)[a] EXCEPT !.stage =
                                     IF @ \in InFlight THEN "done" ELSE @]]
    /\ DetachClient
    /\ timer' = FALSE
    /\ active' = NoTarget
    /\ preferred' = NoTarget
    /\ lastConnected' = NoTarget
    /\ workspace' = NoWorkspace
    /\ emitted' = "none"
    /\ UNCHANGED <<connectGen, verified, generation>>

(* probeCursorEndpoint: a Cursor user agent, or anything else. *)
ProbeAnswers(a) ==
    /\ At(a, "probing")
    /\ Current(a)
    /\ \/ /\ verified' = TRUE
          /\ Moves(a, "fetching")
          /\ emitted' = "none"
          /\ UNCHANGED <<timer, active>>
       \/ /\ verified' = FALSE
          /\ active' = NoTarget
          /\ attempts' = Ended(a)
          /\ Schedule
          /\ emitted' = "error"
    /\ UNCHANGED <<connectGen, client, open, down, preferred, lastConnected,
                   generation, workspace>>

(* Pages with the name of the workspace last read. *)
Remaps(pages) == {t \in pages : WorkspaceOf[t] = workspace}

(***************************************************************************)
(* resolveConnectTarget: the wanted page while it exists; any page when    *)
(* none was ever asked for; and, for an automatic reconnect to the last    *)
(* connected target only, the one page of the same workspace.              *)
(***************************************************************************)
Resolved(a, pages) ==
    LET wanted == IF attempts[a].wanted # NoTarget THEN attempts[a].wanted ELSE preferred
    IN  CASE wanted = NoTarget -> pages
          [] wanted \in pages -> {wanted}
          [] OTHER -> IF /\ ~attempts[a].required
                         /\ wanted = lastConnected
                         /\ Cardinality(Remaps(pages)) = 1
                      THEN Remaps(pages) ELSE {}

FetchAnswersLate(a, pages) ==
    /\ At(a, "fetching")
    /\ \/ \E t \in Resolved(a, pages) :
             /\ attempts' = [attempts EXCEPT ![a].stage = "connecting", ![a].target = t]
             /\ client' = a
             /\ emitted' = "none"
             /\ UNCHANGED <<open, timer>>
       \/ Resolved(a, pages) = {} /\ Caught(a)
    /\ UNCHANGED <<connectGen, verified, down, active, preferred, lastConnected,
                   generation, workspace>>

FetchAnswers(a, pages) ==
    /\ At(a, "fetching")
    /\ Current(a)
    /\ \/ \E t \in Resolved(a, pages) :
             /\ attempts' = [attempts EXCEPT ![a].stage = "connecting", ![a].target = t]
             /\ client' = a
             /\ emitted' = "none"
             /\ UNCHANGED <<open, timer>>
       \/ Resolved(a, pages) = {} /\ Caught(a)
    /\ UNCHANGED <<connectGen, verified, down, active, preferred, lastConnected,
                   generation, workspace>>

(* fetchTargets rejects, or the handshake fails or times out. *)
Fails(a) ==
    /\ At(a, "fetching") \/ At(a, "connecting")
    /\ Current(a)
    /\ Caught(a)
    /\ UNCHANGED <<connectGen, verified, down, active, preferred, lastConnected,
                   generation, workspace>>

SocketOpens(a) ==
    LET t == attempts[a].target IN
    /\ At(a, "connecting")
    /\ Current(a)
    /\ Moves(a, "reading")
    /\ open' = open \cup {a}
    /\ active' = t
    /\ preferred' = t
    /\ lastConnected' = t
    /\ generation' = [generation EXCEPT ![t] = @ + 1]
    /\ emitted' = "none"
    /\ UNCHANGED <<connectGen, client, verified, timer, down, workspace>>

(***************************************************************************)
(* extractWorkspaceInfo returns: a name, or nothing, and the title of the  *)
(* target stands in where it is usable.                                    *)
(***************************************************************************)
ReadAnswers(a) ==
    /\ At(a, "reading")
    /\ Current(a)
    /\ attempts' = Ended(a)
    /\ workspace' \in {WorkspaceOf[attempts[a].target], NoWorkspace}
    /\ emitted' = "connected"
    /\ UNCHANGED <<connectGen, client, open, verified, timer, down, active,
                   preferred, lastConnected, generation>>

(***************************************************************************)
(* The socket closes by itself: handleDisconnect.  A reading it was read   *)
(* for is rejected, extractWorkspaceInfo swallows that, and connect() goes *)
(* on to announce a connection in the same turn of the event loop.         *)
(***************************************************************************)
SocketCloses ==
    /\ client \in open
    /\ DetachClient
    /\ active' = NoTarget
    /\ Schedule
    /\ attempts' = Ended(client)
    /\ IF At(client, "reading")
       THEN /\ workspace' \in {WorkspaceOf[attempts[client].target], NoWorkspace}
            /\ emitted' = "lost_then_connected"
       ELSE /\ emitted' = "disconnected"
            /\ UNCHANGED workspace
    /\ UNCHANGED <<connectGen, verified, down, preferred, lastConnected, generation>>

BridgeNext ==
    \/ FirstConnect \/ TimerFires \/ Disconnect \/ SocketCloses
    \/ \E t \in Targets : SwitchWindow(t)
    \/ \E a \in Calls :
          \/ Superseded(a, "probing") \/ Superseded(a, "fetching")
          \/ ProbeAnswers(a) \/ Fails(a) \/ SocketOpens(a) \/ ReadAnswers(a)
          \/ \E pages \in SUBSET Targets : FetchAnswers(a, pages)

BridgeSpec == BridgeInit /\ [][BridgeNext]_bridgeVars

----------------------------------------------------------------------------
(* Types of the bridge's state. *)
BridgeTypeOK ==
    /\ connectGen \in 0..MaxConnects
    /\ attempts \in [Calls -> Attempts]
    /\ client \in 0..MaxConnects
    /\ open \subseteq Calls
    /\ verified \in BOOLEAN
    /\ timer \in BOOLEAN
    /\ down \in BOOLEAN
    /\ active \in TargetIds
    /\ preferred \in TargetIds
    /\ lastConnected \in TargetIds
    /\ generation \in [Targets -> Nat]
    /\ emitted \in {"none", "connected", "disconnected", "lost_then_connected", "error"}

(* Sockets that are open or being opened. *)
Sockets == open \cup {a \in Calls : At(a, "connecting")}

(***************************************************************************)
(* connect() supersedes itself at every await and replaces this.client by  *)
(* assignment: no socket is ever left open, or in its handshake, without   *)
(* the bridge holding it, and the target it reaches is the active one.     *)
(***************************************************************************)
NoSocketIsLeaked ==
    /\ Sockets \subseteq {client}
    /\ \A a \in open : active = attempts[a].target

(***************************************************************************)
(* Unless the server is stopping, a bridge that has no connection either   *)
(* has a reconnect scheduled or a current call of connect() on its way:    *)
(* no failure of any step, and no call that overtakes another, leaves it   *)
(* disconnected for good.                                                  *)
(***************************************************************************)
NeverStranded ==
    \/ connectGen = 0
    \/ down
    \/ timer
    \/ client \in open
    \/ attempts[connectGen].stage \in InFlight

=============================================================================
