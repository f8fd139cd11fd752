------------------------------ MODULE PlanReading ------------------------------
(***************************************************************************)
(* Reading plans from the phone: the relay's two routes with the guard     *)
(* that ties an answer to the session it was asked in                      *)
(* (src/server/relay.ts), around the walk through Cursor's page that finds *)
(* the file (PlanDocument).  PlanModal adds the web client.                *)
(*                                                                         *)
(* A session is a window together with a composer; one plan card stands in *)
(* it, whose summary an agent rewrites; its versions are numbered, and the *)
(* last one names the plan's file.  The relay's state moves first and the  *)
(* patch that tells everybody follows, in order, with the answers.         *)
(***************************************************************************)
EXTENDS PlanDocument, Sequences

CONSTANTS
    Sessions,
    Card,         \* the plan that is in the session's messages
    MaxMoves      \* bound: what users, Cursor and the network do of themselves

ASSUME ReadingAssumption == Sessions # {}

Commands  == Attempts
NoCommand == NoAttempt

VARIABLES
    relay,     \* state of the state manager, and the target's generation
    sent,      \* what the latest patch said of it
    scope,     \* of the socket: lastPlanScope, planEpoch, planReferences, planDiscoveryBusy
    req,       \* the requests the relay has not answered
    toServer,  \* commands under way
    toClient,  \* patches and answers under way
    link,      \* the socket is connected
    moves

serverVars  == <<relay, sent, scope, req>>
networkVars == <<toServer, toClient, link>>
readingVars == <<documentVars, serverVars, networkVars, moves>>

Named     == 2
NoRequest == [phase |-> "none"]

Public == [session |-> relay.session, health |-> relay.health, summary |-> relay.summary]

ReadingInit ==
    /\ DocumentInit
    /\ relay = [session |-> CHOOSE s \in Sessions : TRUE, gen |-> 0, health |-> "live", summary |-> 0]
    /\ sent = Public
    /\ scope = [id |-> <<relay.session, TRUE, 0>>, epoch |-> 0, refs |-> NoCommand, busy |-> NoCommand]
    /\ req = [c \in Commands |-> NoRequest]
    /\ toServer = <<>> /\ toClient = <<>> /\ link = TRUE
    /\ moves = 0

--------------------------------------------------------------------------------
(* The relay: the guard of a plan request.                                 *)

\* planScopeIdentity
ScopeId(r) == <<r.session, r.health # "down", r.gen>>

\* updatePlanScope: a scope that was left is not the same when it is entered again.
Updated(r) ==
    IF ScopeId(r) = scope.id THEN scope
    ELSE [scope EXCEPT !.id = ScopeId(r), !.epoch = @ + 1, !.refs = NoCommand]

\* diagnosePlanGuardFailure finds nothing.
ScopeCurrent(q, r) ==
    /\ link
    /\ r.health = "live"
    /\ r.session = q.session
    /\ ~q.invalid
    /\ Updated(r).epoch = q.epoch

\* isCurrent of the two routes: the list a reference came from still stands, the card
\* still says what it said; whose answer to a discovery is about to go, too.
IsCurrent(q, r) ==
    /\ ScopeCurrent(q, r)
    /\ q.kind = "read" /\ q.plan # Card => Updated(r).refs = q.plan
    /\ q.kind = "read" /\ q.plan = Card => r.summary = q.summary

Running(c) == req[c].phase # "none"

\* Every look at the guard updates the scope, and a failure it saw is remembered.
Looked(c) ==
    IF ScopeCurrent(req[c], relay) THEN req[c] ELSE [req[c] EXCEPT !.invalid = TRUE]

\* emitCommandResult, to a socket that may be gone
Fail(c) ==
    toClient' = IF link /\ ~(Running(c) /\ req[c].gone)
                THEN Append(toClient, [kind |-> "answer", of |-> c, ok |-> FALSE])
                ELSE toClient

Freed(s, c) == IF s.busy = c THEN [s EXCEPT !.busy = NoCommand] ELSE s

\* A route that returns a failure: its finally, and emitCommandResult.
Refused(c) ==
    /\ req' = [req EXCEPT ![c] = NoRequest]
    /\ scope' = Freed(Updated(relay), c)
    /\ Fail(c)

--------------------------------------------------------------------------------
(* The routes.                                                             *)

\* capturePlanGuard
Captured(m) ==
    [kind |-> m.kind, session |-> m.session, plan |-> m.plan, summary |-> relay.summary,
     gen |-> relay.gen, epoch |-> Updated(relay).epoch, invalid |-> FALSE, gone |-> FALSE,
     phase |-> "queued"]

Received(m) ==
    /\ toServer # <<>> /\ m = Head(toServer)
    /\ toServer' = Tail(toServer)
    /\ UNCHANGED <<documentVars, relay, sent, link, moves>>

\* discover_plans, up to the lane: what was handed out before is taken back.
ReceiveDiscover(m) ==
    /\ Received(m) /\ m.kind = "discover"
    /\ IF scope.busy = NoCommand /\ IsCurrent(Captured(m), relay)
       THEN /\ scope' = [Updated(relay) EXCEPT !.refs = NoCommand, !.busy = m.of]
            /\ req' = [req EXCEPT ![m.of] = Captured(m)]
            /\ UNCHANGED toClient
       ELSE /\ scope' = Updated(relay)
            /\ Fail(m.of)
            /\ UNCHANGED req

\* get_plan_full, up to the lane, or to the file when its name is on the card.
ReceiveRead(m) ==
    /\ Received(m) /\ m.kind = "read"
    /\ scope' = Updated(relay)
    /\ LET q == Captured(m) IN
       IF ~IsCurrent(q, relay) THEN Fail(m.of) /\ UNCHANGED req
       ELSE /\ req' = [req EXCEPT ![m.of] =
                          IF m.plan = Card /\ q.summary = Named THEN [q EXCEPT !.phase = "file"] ELSE q]
            /\ UNCHANGED toClient

ReceiveCommand == toServer # <<>> /\ LET m == Head(toServer) IN ReceiveDiscover(m) \/ ReceiveRead(m)

\* resolvePlanFile and discoverPlans: one attempt at a time in the window's lane.
Begin(c) ==
    /\ req[c].phase = "queued"
    /\ StartFlow(c, req[c].kind, IsCurrent(req[c], relay))
    /\ req' = [req EXCEPT ![c] = [Looked(c) EXCEPT !.phase = "page"]]
    /\ scope' = Updated(relay)
    /\ UNCHANGED <<relay, sent, networkVars, moves>>

\* The lane refuses what another generation of the target was asked for.
Dropped(c) ==
    /\ req[c].phase = "queued"
    /\ relay.gen # req[c].gen
    /\ Refused(c)
    /\ UNCHANGED <<documentVars, relay, sent, toServer, link, moves>>

Live == flow.attempt \in Commands /\ Running(flow.attempt) /\ IsCurrent(req[flow.attempt], relay)

\* An attempt the lane gave up goes on until its next look at the guard.
PageStep ==
    /\ FlowStep(Live)
    /\ IF flow.phase # "sent" /\ flow.step # "remove" /\ Running(flow.attempt)
       THEN /\ scope' = Updated(relay)
            /\ req' = [req EXCEPT ![flow.attempt] = Looked(flow.attempt)]
       ELSE UNCHANGED <<scope, req>>
    /\ UNCHANGED <<relay, sent, networkVars, moves>>

LaneTimeout(c) ==
    /\ req[c].phase = "page" /\ Active /\ flow.attempt = c
    /\ moves < MaxMoves /\ moves' = moves + 1
    /\ Refused(c)
    /\ UNCHANGED <<documentVars, relay, sent, toServer, link>>

\* The attempt is over, and the next one starts on a page of its own.
PageOver(c, kind) ==
    /\ req[c].phase = "page" /\ req[c].kind = kind /\ flow.attempt = c /\ ~Active
    /\ flow' = NoFlow /\ trace' = NoTrace /\ reply' = NoReply
    /\ page' = NewPage /\ watch' = [a \in Commands |-> NoWatch]
    /\ UNCHANGED <<card, relay, sent, toServer, link, moves>>

\* What it came to, if it still counts, is a name to read,
FileNamed(c) ==
    /\ PageOver(c, "read")
    /\ \/ ~(IsCurrent(req[c], relay) /\ flow.outcome = "ok") /\ Refused(c)
       \/ /\ IsCurrent(req[c], relay) /\ flow.outcome = "ok"
          /\ req' = [req EXCEPT ![c].phase = "file"]
          /\ scope' = Updated(relay)
          /\ UNCHANGED toClient

\* or plans to hand out references for.
PlansFound(c) ==
    /\ PageOver(c, "discover")
    /\ \/ ~(IsCurrent(req[c], relay) /\ flow.outcome = "ok") /\ Refused(c)
       \/ /\ IsCurrent(req[c], relay) /\ flow.outcome = "ok"
          /\ req' = [req EXCEPT ![c].phase = "emit"]
          /\ scope' = [Updated(relay) EXCEPT !.refs = c, !.busy = NoCommand]
          /\ UNCHANGED toClient

\* readPlanFileResult, between two looks at the guard
ReadFile(c) ==
    /\ req[c].phase = "file"
    /\ \/ Refused(c)
       \/ /\ IsCurrent(req[c], relay)
          /\ req' = [req EXCEPT ![c].phase = "emit"]
          /\ scope' = Updated(relay)
          /\ UNCHANGED toClient
    /\ UNCHANGED <<documentVars, relay, sent, toServer, link, moves>>

\* The guard kept with the result is asked once more before it leaves.
ResultGuard(c) ==
    /\ IsCurrent(req[c], relay)
    /\ req[c].kind = "discover" => Updated(relay).refs = c

Emit(c) ==
    /\ req[c].phase = "emit"
    /\ \/ ~ResultGuard(c) /\ Refused(c)
       \/ /\ ResultGuard(c)
          /\ toClient' = Append(toClient, [kind |-> "answer", of |-> c, ok |-> TRUE,
                 plan |-> req[c].plan, session |-> req[c].session, summary |-> req[c].summary])
          /\ req' = [req EXCEPT ![c] = NoRequest]
          /\ scope' = Updated(relay)
    /\ UNCHANGED <<documentVars, relay, sent, toServer, link, moves>>

\* clearPlanReferences when PLAN_REFERENCE_TTL_MS have passed
ReferencesExpire ==
    /\ scope.refs # NoCommand
    /\ moves < MaxMoves /\ moves' = moves + 1
    /\ scope' = [scope EXCEPT !.refs = NoCommand]
    /\ UNCHANGED <<documentVars, relay, sent, req, networkVars>>

--------------------------------------------------------------------------------
(* The state moves, and a patch says so.                                   *)

StateMoves ==
    /\ moves < MaxMoves /\ moves' = moves + 1
    /\ \/ \E s \in Sessions \ {relay.session} :
              relay' = [relay EXCEPT !.session = s]
       \/ relay' = [relay EXCEPT !.gen = @ + 1]
       \/ \E h \in {"live", "stale", "down"} \ {relay.health} : relay' = [relay EXCEPT !.health = h]
       \/ \E v \in relay.summary + 1 .. Named : relay' = [relay EXCEPT !.summary = v]
    /\ UNCHANGED <<documentVars, sent, scope, req, networkVars>>

\* state:patch and connection:changed, to the socket, to updatePlanScope and to the
\* onStateChange of every read under way
PatchSent ==
    /\ sent # Public
    /\ sent' = Public
    /\ scope' = IF link THEN Updated(relay) ELSE scope
    /\ req' = [c \in Commands |->
                  IF Running(c) /\ req[c].kind = "read" /\ req[c].phase # "emit" /\ ~IsCurrent(req[c], relay)
                  THEN [req[c] EXCEPT !.invalid = TRUE] ELSE req[c]]
    /\ toClient' = IF link THEN Append(toClient, [kind |-> "patch", state |-> Public]) ELSE toClient
    /\ UNCHANGED <<documentVars, relay, toServer, link, moves>>

PageActs ==
    /\ Active
    /\ moves < MaxMoves /\ moves' = moves + 1
    /\ \/ \E e \in {"draft", "tab", "scroll"} : UserActs(e)
       \/ PageMoves
       \/ EvaluateThrows
       \/ RemoveThrows
    /\ UNCHANGED <<serverVars, networkVars>>

CursorActs == CursorFollows /\ UNCHANGED <<serverVars, networkVars, moves>>

--------------------------------------------------------------------------------
(* The socket.                                                             *)

\* disconnect: everything asked over this socket is answered to nobody, and the next
\* socket starts with a scope of its own.
Drop ==
    /\ link /\ moves < MaxMoves /\ moves' = moves + 1
    /\ link' = FALSE /\ toServer' = <<>> /\ toClient' = <<>>
    /\ scope' = [Updated(relay) EXCEPT !.epoch = @ + 1, !.refs = NoCommand, !.busy = NoCommand]
    /\ req' = [c \in Commands |->
                  IF Running(c) THEN [req[c] EXCEPT !.invalid = TRUE, !.gone = TRUE] ELSE NoRequest]
    /\ UNCHANGED <<documentVars, relay, sent>>

\* connection: state:full
Reconnect ==
    /\ ~link
    /\ link' = TRUE
    /\ scope' = Updated(relay)
    /\ toClient' = <<[kind |-> "full", state |-> Public]>>
    /\ UNCHANGED <<documentVars, relay, sent, req, toServer, moves>>

RelayActs ==
    \/ PageStep \/ PatchSent
    \/ \E c \in Commands : 
          Begin(c) \/ Dropped(c) \/ FileNamed(c) \/ PlansFound(c) \/ ReadFile(c) \/ Emit(c)

OthersAct ==
    \/ ReferencesExpire \/ StateMoves \/ PageActs \/ CursorActs
    \/ \E c \in Commands : LaneTimeout(c)

================================================================================
